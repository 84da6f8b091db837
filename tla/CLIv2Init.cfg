SPECIFICATION FairSpec
CONSTANTS
  p1 = p1
  p2 = p2
  Procs = {p1, p2}
  Versions = {0, 1}
  VersionOf <- OneVersion
  Inodes = {i1, i2}
  None = None
  MaxVersionToDelete = 1
INVARIANTS
  ImageTrusted
  CertTrusted
  NoCertLeak
PROPERTIES
  RunEnds
CHECK_DEADLOCK FALSE

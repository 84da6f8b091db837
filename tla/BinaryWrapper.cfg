SPECIFICATION Spec
CONSTANTS
  Procs = {w1, w2, w3}
  Temps = {t1, t2, t3}
  None = None
  N = 2
  SameMillisecond = FALSE
SYMMETRY Symmetry
INVARIANTS
  BinaryIsVerified
  NoTempLeft
  PermissionPending
PROPERTY
  KeepsInstallPromise
CHECK_DEADLOCK FALSE

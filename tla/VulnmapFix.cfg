SPECIFICATION FixSpec
CONSTANTS
  Projects = {p1, p2, p3}
  Concurrency = 2
  Faults = {"throw", "write"}
  Dirs = {".", "lib"}
  Bases = {"a", "b"}
  Entry = "a"
  Prefixes = {"", "./", "lib/", "../"}
  MaxDirectives = 2
  MaxRequired = 1
  MaxDepth = 5
  PipFiles = {f1, f2}
  Packages = {k1, k2}
  PipProjects = {q1, q2}
  None = None
SYMMETRY Symmetry
INVARIANTS
  SummaryIsTrue
  AllRequiredParsed
  ReportedIsFixed
CHECK_DEADLOCK FALSE

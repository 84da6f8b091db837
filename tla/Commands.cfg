SPECIFICATION Spec
CONSTANTS
  Modules = {m1, m2}
  v1 = v1
  v2 = v2
  f1 = f1
  f2 = f2
  Vulns = {v1, v2}
  Files = {f1, f2}
  FilesOf <- TwoPatches
  MaxRuns = 2
  IacPaths = 2
  MaxFailures = 2
  Commands = {c1, c2}
  Parts = 2
  Resources = {r1, r2}
  Updates = {u1, u2}
  MaxDescribes = 2
  Attempts = 2
  MaxCommands = 2
  Issues = {i1}
  Paths = {p1, p2}
  MaxErrors = 2
  MaxResults = 2
  FixPaths = 2
  MaxProjects = 2
INVARIANTS
  PatchesAreExact
  IacExitIsHonest
  VulnmapRulesUsed
  ExecutableIsWhole
  DescribeIsHonest
  StoredIsConfirmed
  EngineExitIsHonest
  CodeExitIsHonest
  UntestedIsTold
PROPERTY ProgramEnds
CHECK_DEADLOCK FALSE

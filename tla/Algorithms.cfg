SPECIFICATION Spec
CONSTANTS
  MaxWords = 4
  OptionWords <- Words
  Texts = {"a", "b"}
  MaxFileLines = 3
  MaxPatchLines = 3
  FilesInOrder <- FoldersFiles
  MaxFiles = 3
  Ignored = {"x", "yarn.lock"}
  NodeModules = {"node_modules", "old_node_modules"}
  LevelsDeep = 3
  Targets <- NestedTargets
  MaxTargets = 4
  ReportIssues <- FoundIssues
  MaxIssues = 3
  SeverityOf <- Severities
  Licenses = {"license"}
  PathsTo <- Paths
  Violations <- FoundViolations
  MaxViolations = 3
  ArtifactsInOrder <- NestedArtifacts
  Archives = {"a.jar", "b.war", "c.ear", "JndiLookup.jar"}
  MaxArtifacts = 4
  FixProjects <- TestedProjects
  MaxFixProjects = 2
  GradeOf <- Grades
INVARIANTS
  ExclusiveOptionsRejected
  AdditionsAreExact
  EveryProjectFound
  EveryTargetOnce
  EveryIssueShown
  ViolationsShownOnce
  Log4ShellFound
  FixReportIsTrue
CHECK_DEADLOCK FALSE

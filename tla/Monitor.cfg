SPECIFICATION FairSpec
CONSTANTS
  Paths = 2
  MaxProjects = 2
  MaxAttempts = {0, 1, 2}
  Statuses = {302, 401, 404, 500}
  MaxPolls = 3
INVARIANTS
  SuccessIsComplete
PROPERTIES
  KeepsMonitorPromise
  MonitorEnds
CHECK_DEADLOCK FALSE

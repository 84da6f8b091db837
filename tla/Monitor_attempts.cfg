SPECIFICATION Spec
CONSTANTS
  Paths = 2
  MaxProjects = 2
  MaxAttempts = {0, 1, 2}
  Statuses = {302, 401, 404, 500}
  MaxPolls = 3
INVARIANT PollsLimited
CHECK_DEADLOCK FALSE

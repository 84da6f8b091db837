SPECIFICATION FairSpec
CONSTANTS
  Paths = 2
  MaxScans = 2
  MinInterval = 1
  MaxInterval = 3
  MaxElapsed = 6
  Statuses = {302, 400, 401, 403, 500, 503}
INVARIANTS
  Accounted
  GivenUpLate
  UnauthorizedIsTold
PROPERTY TestEnds
CHECK_DEADLOCK FALSE

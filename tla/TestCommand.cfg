SPECIFICATION LiveSpec
CONSTANTS
  NPaths = 2
  MaxPayloads = 2
  MaxConcurrency = 2
  RetryAttempts = 2
  Findings = {"clean", "unfixable", "upgradable"}
  OutputModes <- PromisedModes
  None = None
PROPERTIES
  KeepsPromise
  CommandEnds
CHECK_DEADLOCK FALSE

SPECIFICATION Spec
CONSTANTS
  MaxNodes = 2
  MaxLinks = 2
  MaxClocks = 1
INVARIANT RemovedSeedRejected
CHECK_DEADLOCK FALSE

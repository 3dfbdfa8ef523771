SPECIFICATION Spec
CONSTANTS
  MaxNodes = 2
  MaxLinks = 2
  MaxClocks = 1
INVARIANTS
  SlotsAccounted
  GraphSound
  MasksSized
PROPERTY LinksStable
CHECK_DEADLOCK FALSE

SPECIFICATION Spec
CONSTANTS
  Netlists <- MCNetlists
  Primitive = {2}
  Requests <- MCRequests
  Modes <- MCModes
  MaxActions <- MCMaxActions
  None = 2
INVARIANTS
  EditsExact
  AssertionsHold
  MergedShareModel
PROPERTY Terminates
CHECK_DEADLOCK FALSE

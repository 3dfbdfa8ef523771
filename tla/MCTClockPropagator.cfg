SPECIFICATION Spec
CONSTANTS
  Node <- FourNodes
  Edge = {e1, e2, e3}
  Clock = {clk}
  CaptureSets <- OneCapture
  FlopOutputs <- OneFlop
  MaxDisabled = 1
INVARIANTS
  CutsExact
  NeverFails
  FromClocksExact
  ToClocksExact
PROPERTY Terminates
CHECK_DEADLOCK FALSE

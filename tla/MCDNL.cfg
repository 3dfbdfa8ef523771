SPECIFICATION Spec
CONSTANTS
  Top = "top"
  InstancesOf <- MCInstancesOf
  Directions <- MCDirections
  DesignAt <- MCDesignAt
  Assign = {"asg"}
  Wirings <- MCWirings
  Typings <- MCTypings
  w1 = w1
  w2 = w2
  Worker = {w1, w2}
  Main = w1
  None = 0
INVARIANTS
  NumberingExact
  IsoListsItsTerms
  AssertionsHold
PROPERTY ImplementsEquipotentials
CHECK_DEADLOCK FALSE

SPECIFICATION Spec
CONSTANTS
  d1 = d1
  d2 = d2
  i1 = i1
  i2 = i2
  Design = {d1, d2}
  Inst = {i1, i2}
  MaxTermID = 1
  Ranges <- WideRanges
  MaxBits = 5
  MaxObjects = 3
  NoTerm = NoTerm
  NoDesign = NoDesign
  NoInstTerm = NoInstTerm
  Habits = {}
SYMMETRY ObjectSymmetry
INVARIANTS
  LookupFindsBit
  NoDanglingInstTerm
  FlatIDsDistinct
  OrderIDsAreRanks
PROPERTY WiresStay
CHECK_DEADLOCK FALSE

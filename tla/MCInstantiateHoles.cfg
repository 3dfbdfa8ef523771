SPECIFICATION Spec
CONSTANTS
  d1 = d1
  d2 = d2
  i1 = i1
  i2 = i2
  Design = {d1}
  Inst = {i1, i2}
  MaxTermID = 1
  Ranges <- WideRanges
  MaxBits = 6
  MaxObjects = 3
  NoTerm = NoTerm
  NoDesign = NoDesign
  NoInstTerm = NoInstTerm
  Habits = {"instantiate"}
INVARIANT LookupFindsBit
CHECK_DEADLOCK FALSE

SPECIFICATION Spec
CONSTANTS
  db1 = db1
  db2 = db2
  l1 = l1
  l2 = l2
  l3 = l3
  d1 = d1
  d2 = d2
  d3 = d3
  DB0 = db0
  DBs = {db0, db1, db2}
  Libraries = {l1, l2, l3}
  Designs = {d1, d2, d3}
  RootNames = {}
  NestedNames = {}
  NoName = ""
  None = None
  DBIDs = 8
  GivenDBIDs = {1, 3}
  MaxInstances = 2
  Habits = {"destroyModel"}
SYMMETRY MCSymmetry
INVARIANT ModelsOutliveInstances
CHECK_DEADLOCK FALSE

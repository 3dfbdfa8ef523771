SPECIFICATION Spec
CONSTANTS
  db1 = db1
  db2 = db2
  l1 = l1
  l2 = l2
  l3 = l3
  d1 = d1
  d2 = d2
  d3 = d3
  DB0 = db0
  DBs = {db0, db1, db2}
  Libraries = {l1, l2, l3}
  Designs = {d1, d2, d3}
  RootNames = {"a", "b"}
  NestedNames = {"c", "e"}
  NoName = ""
  None = None
  DBIDs = 8
  GivenDBIDs = {3, 5}
  MaxInstances = 2
  Habits = {}
ACTION_CONSTRAINT NamesOrDesigns
SYMMETRY MCSymmetry
INVARIANTS
  RegistryExact
  LookupsFind
  ModelsOutliveInstances
CHECK_DEADLOCK FALSE

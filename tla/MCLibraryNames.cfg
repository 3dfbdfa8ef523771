SPECIFICATION Spec
CONSTANTS
  db1 = db1
  db2 = db2
  l1 = l1
  l2 = l2
  l3 = l3
  d1 = d1
  d2 = d2
  d3 = d3
  DB0 = db0
  DBs = {db0, db1}
  Libraries = {l1, l2, l3}
  Designs = {}
  RootNames = {"a", "b"}
  NestedNames = {"a"}
  NoName = ""
  None = None
  DBIDs = 8
  GivenDBIDs = {2}
  MaxInstances = 0
  Habits = {}
INVARIANT LookupsFind
CHECK_DEADLOCK FALSE

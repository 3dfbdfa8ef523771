SPECIFICATION Spec
CONSTANTS
  o1 = o1  o2 = o2  o3 = o3
  priv = priv  grp1 = grp1  grp2 = grp2  rel1 = rel1  rel2 = rel2
  proxy1 = proxy1  proxy2 = proxy2
  n1 = n1  py = py
  Object <- MCObject
  Prop <- MCProp
  PropName <- MCPropName
  KindOf <- MCKindOf
  NameOf <- MCNameOf
  NoObject = NoObject
  NoProp = NoProp
  NoWrapper = NoWrapper
  LeavesForeign = FALSE
SYMMETRY Symmetry
INVARIANT NoAbort
CHECK_DEADLOCK FALSE

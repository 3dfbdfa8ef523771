SPECIFICATION Spec
CONSTANTS
  top = top
  sub = sub
  prim = prim
  Design <- MCDesign
  Primitive <- MCPrimitive
  MaxTermID = 2
  MaxNets = 2
  NetID = {n, m}
  InstID = {u}
  Self = Self
  NoDesign = NoDesign
  NoNet = NoNet
  PrimitiveEdits = {}
  Habits = {"instantiate"}
SYMMETRY MCSymmetry
PROPERTY CloneMirrorsOriginal
CHECK_DEADLOCK FALSE

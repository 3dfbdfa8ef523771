SPECIFICATION Spec
CONSTANTS
  top = top
  sub = sub
  prim = prim
  Design <- MCDesign
  Primitive <- MCPrimitive
  MaxTermID = 1
  MaxNets = 2
  NetID = {n, m}
  InstID = {u}
  Self = Self
  NoDesign = NoDesign
  NoNet = NoNet
  PrimitiveEdits = {"destroy"}
  Habits = {}
INVARIANT OwnersLive

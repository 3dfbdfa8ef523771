SPECIFICATION Spec
CONSTANTS
  top = top
  sub = sub
  prim = prim
  Design <- MCDesign
  Primitive <- MCPrimitive
  MaxTermID = 1
  MaxNets = 2
  NetID = {n, m}
  InstID = {u}
  Self = Self
  NoDesign = NoDesign
  NoNet = NoNet
  PrimitiveEdits = {}
  Habits = {}
SYMMETRY MCSymmetry
INVARIANTS
  ReferencesLive
  ConnectionsAgree
  SlavesAgree
  InstTermsMirrorModel
  NoFault
PROPERTIES
  ConnectionsKept
  CloneMirrorsOriginal

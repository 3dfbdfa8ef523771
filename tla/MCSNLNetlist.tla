---------------------------- MODULE MCSNLNetlist ----------------------------
(* Model values for SNLNetlist.  The IDs of nets and of instances are      *)
(* interchangeable, and so are the designs that are not primitives.        *)
EXTENDS SNLNetlist, TLC

CONSTANTS top, sub, prim

MCDesign    == {top, sub, prim}
MCPrimitive == {prim}

MCSymmetry ==
  Permutations({top, sub}) \cup Permutations(NetID) \cup Permutations(InstID)

=============================================================================

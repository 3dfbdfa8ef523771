---------------------------- MODULE MCActionTree ----------------------------
(* Three instances of a design that has two instances of a design with a   *)
(* primitive in it; and one more instance of the inner design at the top.  *)
EXTENDS ActionTree

Block(f) == [model |-> f, tied |-> [i \in DOMAIN f |-> None]]

Prim == 2
A == 3
C == 4

Layered ==
  <<Block(1 :> A @@ 2 :> A @@ 3 :> A), Block(<<>>), Block(1 :> C @@ 2 :> C), Block(1 :> Prim)>>

Mixed == [Layered EXCEPT ![1] = Block(1 :> A @@ 2 :> A @@ 3 :> C)]

MCNetlists == {Layered, Mixed}

Paths(net) == {o.path : o \in Occurrences(net)}

Delete(path) == [kind |-> "delete", path |-> path, value |-> None]
Drive(path, v) == [kind |-> "drive", path |-> path, value |-> v]

(* The third instance at the top is left alone, or edited when it is a C. *)
MCRequests ==
  {Delete(path) : path \in {<<2>>, <<2, 2>>, <<3, 1>>, <<1, 2, 1>>, <<2, 1, 1>>, <<2, 2, 1>>}}
    \cup {Delete(<<1, 1, 1>>), Drive(<<1, 1, 1>>, 0), Drive(<<1, 1, 1>>, 1), Drive(<<2, 1, 1>>, 0)}

(* The order is not looked at when the normalization is blocked. *)
MCModes == [blocked : {FALSE}, keepOrder : BOOLEAN] \cup [blocked : {TRUE}, keepOrder : {FALSE}]

MCMaxActions == [blocked \in BOOLEAN |-> IF blocked THEN 3 ELSE 4]
=============================================================================

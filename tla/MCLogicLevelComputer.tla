------------------------ MODULE MCLogicLevelComputer ------------------------
(* Two terms to trace, 1 and 2, and three gates: 11 and 12 with the inputs *)
(* 3 and 4, and 13 with the inputs 5 and 6.  Every way to drive the terms  *)
(* 1 to 5, term 1 by two gates at most; loops, reconvergence and a         *)
(* sequential cell (13) among them.                                        *)
EXTENDS LogicLevelComputer, TLC

CONSTANTS w1, w2

InputsOf == (11 :> {3}) @@ (12 :> {4}) @@ (13 :> {5, 6})

Gate == DOMAIN InputsOf

Driven(n) == {D \in SUBSET Gate : Cardinality(D) \in 1 .. n}

SmallNetlists ==
  {[drivers |-> (1 :> d1) @@ (2 :> d2) @@ f @@ (6 :> {}),
    inputs |-> InputsOf, stops |-> s, starts |-> {1, 2}] :
       d1 \in Driven(2), d2 \in Driven(1), f \in [3 .. 5 -> Driven(1) \cup {{}}], s \in {{}, {13}}}
=============================================================================

------------------------------ MODULE MCTGraph ------------------------------
(* Small instances of the timing graph storage. *)
EXTENDS TGraph
=============================================================================

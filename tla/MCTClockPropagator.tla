------------------------ MODULE MCTClockPropagator ------------------------
(* All graphs of four nodes and three edges, one edge perhaps disabled     *)
(* before, with a clock seeded anywhere, a capture edge and a flop output. *)
(* Since every labelling of the graph occurs, the flop output may lie on   *)
(* the way to the endpoint, beside it or on no path at all.                *)
EXTENDS TClockPropagator

FourNodes == 1 .. 4

OneCapture == {{<<1, 3>>}}

OneFlop == {{2}}
=============================================================================

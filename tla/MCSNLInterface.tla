--------------------------- MODULE MCSNLInterface ---------------------------
(* One design with a falling and a rising bus and two instances, or two    *)
(* designs (one may be a clone of the other) with one instance: MaxObjects *)
(* and MaxBits let either have its share.                                  *)
EXTENDS SNLInterface, TLC

CONSTANTS d1, d2, i1, i2

WideRanges == {<<2, 0>>, <<0, 1>>}

ObjectSymmetry == Permutations({i1, i2}) \cup Permutations({d1, d2})
=============================================================================

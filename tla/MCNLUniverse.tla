---------------------------- MODULE MCNLUniverse ----------------------------
(* Small pools; user databases, libraries and designs are interchangeable. *)
EXTENDS NLUniverse, TLC

CONSTANTS db1, db2, l1, l2, l3, d1, d2, d3

MCSymmetry == Permutations({db1, db2}) \cup Permutations({l1, l2, l3}) \cup Permutations({d1, d2, d3})

(* Bound: names matter to libraries only, so that a run has either names   *)
(* or designs and a second user database.  Libraries have names while the  *)
(* one user database has the ID NamedDB, which it keeps as long as there   *)
(* are libraries.                                                          *)
NamedDB == 5

NamesOrDesigns ==
  IF NamedDB \in DOMAIN dbs'
    THEN /\ DOMAIN dbs' \subseteq {0, NamedDB}
         /\ (made \cap Designs)' = {} /\ Cardinality((made \cap DBs)') = 2
    ELSE /\ NamedDB \in DOMAIN dbs => DOMAIN lib' = {}
         /\ \A l \in DOMAIN lib' : lib'[l].name = NoName
=============================================================================

-------------------------- MODULE DNLEquipotentials --------------------------
(***************************************************************************)
(* What the dissolved netlist (src/dnl) promises of its isos, without a    *)
(* word on threads, drivers or numbering: one iso for each electrically    *)
(* connected set of terminals, found once and for all.                     *)
(***************************************************************************)
VARIABLES
  wires,   \* the nets of all hierarchical contexts: [terms, type]
  done,    \* whether the isos have been computed
  result   \* the isos: [terms, type], none before that

evars == <<wires, done, result>>

Terms == UNION {w.terms : w \in wires}

(* Sets of terminals no net leaves. *)
ClosedSets == {S \in SUBSET Terms : \A w \in wires : w.terms \cap S # {} => w.terms \subseteq S}

(* The terminals connected to t: no closed set separates them from it. *)
Connected(t) == {u \in Terms : \A S \in ClosedSets : t \in S => u \in S}

(* A constant net makes its iso constant, two that differ ambiguous. *)
TypeOn(S) ==
  LET constants == {w.type : w \in {x \in wires : x.terms \cap S # {}}} \ {"STANDART"}
  IN  CASE constants = {}                            -> "STANDART"
        [] \E k \in constants : constants = {k}      -> CHOOSE k \in constants : TRUE
        [] OTHER                                     -> "AMBIGUOUS"

Isos == {[terms |-> Connected(t), type |-> TypeOn(Connected(t))] : t \in Terms}

-----------------------------------------------------------------------------
Init == ~done /\ result = {}

Compute ==
  /\ ~done
  /\ done'
  /\ result' = Isos
  /\ UNCHANGED wires

Safety == Init /\ [][Compute]_evars

(* The computation is one step and takes place. *)
Spec == Safety /\ <>done

=============================================================================

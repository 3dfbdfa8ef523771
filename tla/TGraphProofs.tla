----------------------------- MODULE TGraphProofs ---------------------------
(* Proofs about TGraph, for vectors of any size. *)
EXTENDS TGraph, Integers, SequencesExt, TLAPS, WellFoundedInduction, FiniteSetTheorems, FunctionTheorems

-----------------------------------------------------------------------------
(* Natural numbers. *)

(* Every nonempty set of naturals has a least element. *)
LEMMA LeastNat == \A T \in SUBSET Nat : T # {} => \E n \in T : \A m \in T : n <= m
<1> SUFFICES ASSUME NEW T \in SUBSET Nat, T # {}
             PROVE  \E n \in T : \A m \in T : n <= m
  OBVIOUS
<1> DEFINE R == OpToRel(<, Nat)
<1>1. IsWellFoundedOn(R, Nat)
  BY NatLessThanWellFounded
<1>2. \A m, n \in Nat : m < n => <<m, n>> \in R
  BY DEF OpToRel
<1> HIDE DEF R
<1>3. PICK n \in T : \A m \in T : ~(<<m, n>> \in R)
  BY <1>1, WFMin
<1>4. \A m \in T : ~(m < n)
  BY <1>2, <1>3
<1>5. \A m \in T : n <= m
  BY <1>4
<1> QED
  BY <1>5

(* A set that contains 0 and with a number of 0 .. n - 1 its successor     *)
(* contains 0 .. n.                                                        *)
LEMMA UpTo ==
  ASSUME NEW n \in Nat, NEW S, 0 \in S,
         \A k \in 0 .. n - 1 : k \in S => k + 1 \in S
  PROVE  \A k \in 0 .. n : k \in S
<1> DEFINE T == {k \in 0 .. n : k \notin S}
<1> SUFFICES ASSUME T # {} PROVE FALSE
  OBVIOUS
<1>0. T \in SUBSET Nat
  OBVIOUS
<1>1. PICK k \in T : \A m \in T : k <= m
  <2> HIDE DEF T
  <2> QED
    BY <1>0, LeastNat
<1>2. k # 0 /\ k - 1 \in 0 .. n - 1 /\ k - 1 \notin T
  BY <1>1
<1>3. k - 1 \in S
  BY <1>2
<1>4. (k - 1) + 1 \in S
  BY <1>2, <1>3
<1> QED
  BY <1>4, <1>1

(* The principle of induction. *)
LEMMA NatInduct ==
  ASSUME NEW S, 0 \in S, \A k \in Nat : k \in S => k + 1 \in S
  PROVE  \A k \in Nat : k \in S
<1> TAKE n \in Nat
<1>1. \A k \in 0 .. n : k \in S
  BY UpTo
<1> QED
  BY <1>1

-----------------------------------------------------------------------------
(* eraseEdgeId() drops the one occurrence of the ID and keeps the others,  *)
(* in another order.                                                       *)
LEMMA EraseFacts ==
  ASSUME NEW s \in Seq(Nat), IsInjective(s), NEW e
  PROVE  /\ EraseEdgeId(s, e) \in Seq(Nat)
         /\ IsInjective(EraseEdgeId(s, e))
         /\ ToSet(EraseEdgeId(s, e)) = ToSet(s) \ {e}
<1> DEFINE at == {i \in DOMAIN s : s[i] = e}
<1>1. CASE at = {}
  BY <1>1 DEF EraseEdgeId, ToSet
<1>2. CASE at # {}
  <2>1. PICK i \in DOMAIN s : s[i] = e
    BY <1>2
  <2>2. at = {i}
    BY <2>1 DEF IsInjective
  <2>3. (CHOOSE k \in at : \A j \in at : k <= j) = i
    BY <2>2
  <2> DEFINE n == Len(s)
             t == [s EXCEPT ![i] = s[n]]
  <2>4. EraseEdgeId(s, e) = SubSeq(t, 1, Len(t) - 1)
    BY <1>2, <2>3 DEF EraseEdgeId, Front, Last
  <2>5. n \in Nat /\ n >= 1 /\ i \in 1 .. n /\ DOMAIN s = 1 .. n
    BY <2>1
  <2>6. t \in Seq(Nat) /\ Len(t) = n
    BY <2>5
  <2>7. /\ SubSeq(t, 1, n - 1) \in Seq(Nat)
        /\ Len(SubSeq(t, 1, n - 1)) = n - 1
        /\ \A j \in 1 .. n - 1 : SubSeq(t, 1, n - 1)[j] = IF j = i THEN s[n] ELSE s[j]
    BY <2>5, <2>6
  <2> DEFINE r == EraseEdgeId(s, e)
  <2>12. r \in Seq(Nat)
    BY <2>4, <2>6, <2>7
  <2>8. /\ DOMAIN r = 1 .. n - 1
        /\ \A j \in 1 .. n - 1 : r[j] = IF j = i THEN s[n] ELSE s[j]
    BY <2>4, <2>5, <2>6, <2>7
  <2> HIDE DEF r, t, at, n
  <2>9. IsInjective(r)
    <3> SUFFICES ASSUME NEW a \in 1 .. n - 1, NEW b \in 1 .. n - 1, r[a] = r[b]
                 PROVE  a = b
      BY <2>8 DEF IsInjective
    <3> DEFINE p(k) == IF k = i THEN n ELSE k
    <3>1. s[p(a)] = s[p(b)] /\ p(a) \in DOMAIN s /\ p(b) \in DOMAIN s
      BY <2>5, <2>8
    <3>2. p(a) = p(b)
      BY <3>1 DEF IsInjective
    <3> QED
      BY <3>2, <2>5
  <2>10. ASSUME NEW x \in ToSet(r)
         PROVE  x \in ToSet(s) \ {e}
    <3>1. PICK j \in 1 .. n - 1 : x = r[j]
      BY <2>8 DEF ToSet
    <3>2. x = s[IF j = i THEN n ELSE j] /\ (IF j = i THEN n ELSE j) \in DOMAIN s
      BY <3>1, <2>8, <2>5
    <3>3. s[IF j = i THEN n ELSE j] # e
      BY <2>1, <2>5, <3>2 DEF IsInjective
    <3> QED
      BY <3>2, <3>3 DEF ToSet
  <2>11. ASSUME NEW x \in ToSet(s) \ {e}
         PROVE  x \in ToSet(r)
    <3>1. PICK k \in 1 .. n : x = s[k]
      BY <2>5 DEF ToSet
    <3>2. k # i
      BY <3>1, <2>1
    <3>3. CASE k = n
      <4>1. i \in 1 .. n - 1 /\ r[i] = x
        BY <3>1, <3>2, <3>3, <2>5, <2>8
      <4> QED
        BY <4>1, <2>8 DEF ToSet
    <3>4. CASE k # n
      <4>1. k \in 1 .. n - 1 /\ r[k] = x
        BY <3>1, <3>2, <3>4, <2>5, <2>8
      <4> QED
        BY <4>1, <2>8 DEF ToSet
    <3> QED
      BY <3>3, <3>4
  <2> QED
    BY <2>12, <2>9, <2>10, <2>11 DEF r
<1> QED
  BY <1>1, <1>2

NodeType == [alive : BOOLEAN, latch : BOOLEAN, out : [Kind -> Seq(Nat)], in : [Kind -> Seq(Nat)]]

LinkType == [alive : BOOLEAN, source : Nat, target : Nat, mask : Nat]

StorageType ==
  [nodes : Seq(NodeType), links : [Kind -> Seq(LinkType)], free : [Store -> Seq(Nat)],
   live : [Store -> Nat]]

WithOut(v, a, K, q) == [v EXCEPT ![a].out[K] = q]

WithIn(v, a, K, q) == [v EXCEPT ![a].in[K] = q]

(* w is v with another list of outgoing or incoming links of kind K at a. *)
OutReplaced(v, w, a, K, q) ==
  /\ w \in Seq(NodeType)
  /\ DOMAIN w = DOMAIN v
  /\ \A n \in DOMAIN v :
       /\ w[n].alive = v[n].alive
       /\ w[n].in = v[n].in
       /\ \A J \in Kind : w[n].out[J] = IF n = a /\ J = K THEN q ELSE v[n].out[J]

InReplaced(v, w, a, K, q) ==
  /\ w \in Seq(NodeType)
  /\ DOMAIN w = DOMAIN v
  /\ \A n \in DOMAIN v :
       /\ w[n].alive = v[n].alive
       /\ w[n].out = v[n].out
       /\ \A J \in Kind : w[n].in[J] = IF n = a /\ J = K THEN q ELSE v[n].in[J]

(* One list of outgoing links is replaced. *)
LEMMA SetOut ==
  ASSUME NEW v \in Seq(NodeType), NEW a \in DOMAIN v, NEW K \in Kind, NEW q \in Seq(Nat)
  PROVE  OutReplaced(v, WithOut(v, a, K, q), a, K, q)
<1> DEFINE f == [v[a].out EXCEPT ![K] = q]
           r == [v[a] EXCEPT !.out = f]
           w == [v EXCEPT ![a] = r]
<1>1. v[a] \in NodeType
  OBVIOUS
<1>2. f \in [Kind -> Seq(Nat)] /\ \A J \in Kind : f[J] = IF J = K THEN q ELSE v[a].out[J]
  BY <1>1 DEF NodeType
<1> HIDE DEF f
<1>3. /\ r \in NodeType
      /\ r.alive = v[a].alive
      /\ r.in = v[a].in
      /\ r.out = f
  BY <1>1, <1>2 DEF NodeType
<1> HIDE DEF r
<1>4. /\ w \in Seq(NodeType)
      /\ DOMAIN w = DOMAIN v
      /\ \A n \in DOMAIN v : w[n] = IF n = a THEN r ELSE v[n]
  BY <1>3
<1>5. w = WithOut(v, a, K, q)
  BY DEF r, f, WithOut
<1> HIDE DEF w
<1> QED
  BY <1>2, <1>3, <1>4, <1>5 DEF OutReplaced

(* One list of incoming links is replaced. *)
LEMMA SetIn ==
  ASSUME NEW v \in Seq(NodeType), NEW a \in DOMAIN v, NEW K \in Kind, NEW q \in Seq(Nat)
  PROVE  InReplaced(v, WithIn(v, a, K, q), a, K, q)
<1> DEFINE f == [v[a].in EXCEPT ![K] = q]
           r == [v[a] EXCEPT !.in = f]
           w == [v EXCEPT ![a] = r]
<1>1. v[a] \in NodeType
  OBVIOUS
<1>2. f \in [Kind -> Seq(Nat)] /\ \A J \in Kind : f[J] = IF J = K THEN q ELSE v[a].in[J]
  BY <1>1 DEF NodeType
<1> HIDE DEF f
<1>3. /\ r \in NodeType
      /\ r.alive = v[a].alive
      /\ r.out = v[a].out
      /\ r.in = f
  BY <1>1, <1>2 DEF NodeType
<1> HIDE DEF r
<1>4. /\ w \in Seq(NodeType)
      /\ DOMAIN w = DOMAIN v
      /\ \A n \in DOMAIN v : w[n] = IF n = a THEN r ELSE v[n]
  BY <1>3
<1>5. w = WithIn(v, a, K, q)
  BY DEF r, f, WithIn
<1> HIDE DEF w
<1> QED
  BY <1>2, <1>3, <1>4, <1>5 DEF InReplaced

(* w is v once both ends of l dropped the ID e. *)
EndsErased(K, v, w, l, e) ==
  /\ w \in Seq(NodeType)
  /\ DOMAIN w = DOMAIN v
  /\ \A n \in DOMAIN v :
       /\ w[n].alive = v[n].alive
       /\ \A J \in Kind :
            /\ w[n].out[J] = IF n = l.source /\ J = K
                 THEN EraseEdgeId(v[n].out[J], e) ELSE v[n].out[J]
            /\ w[n].in[J] = IF n = l.target /\ J = K
                 THEN EraseEdgeId(v[n].in[J], e) ELSE v[n].in[J]

(* What removeEdge() does to the lists of the nodes. *)
LEMMA DetachedFields ==
  ASSUME NEW K \in Kind, NEW v \in Seq(NodeType), NEW l \in LinkType, NEW e \in Nat,
         l.source \in DOMAIN v, l.target \in DOMAIN v,
         IsInjective(v[l.source].out[K]), IsInjective(v[l.target].in[K])
  PROVE  EndsErased(K, v, Detached(K, v, l, e), l, e)
<1> DEFINE a == l.source
           b == l.target
           o == EraseEdgeId(v[a].out[K], e)
           i == EraseEdgeId(v[b].in[K], e)
           w1 == WithOut(v, a, K, o)
           w2 == WithIn(w1, b, K, i)
<1>1. v[a] \in NodeType /\ v[b] \in NodeType
  OBVIOUS
<1>2. o \in Seq(Nat) /\ i \in Seq(Nat)
  BY <1>1, EraseFacts DEF NodeType
<1> HIDE DEF o, i
<1>3. OutReplaced(v, w1, a, K, o)
  BY <1>2, SetOut
<1> HIDE DEF w1
<1>4. InReplaced(w1, w2, b, K, i)
  BY <1>2, <1>3, SetIn DEF OutReplaced
<1>5. i = EraseEdgeId(w1[b].in[K], e)
  BY <1>3 DEF i, OutReplaced
<1>6. Detached(K, v, l, e) = w2
  BY <1>5 DEF Detached, w1, o, WithOut, WithIn
<1> HIDE DEF w2
<1> QED
  BY <1>3, <1>4, <1>6 DEF o, i, OutReplaced, InReplaced, EndsErased

-----------------------------------------------------------------------------
(* A vector v with free list f and live counter c: every slot is alive or  *)
(* on the free list, once, and the counter is exact.                       *)
Accounted(v, f, c) ==
  /\ IsInjective(f)
  /\ ToSet(f) = DOMAIN v \ AliveSlots(v)
  /\ c = Cardinality(AliveSlots(v))

(* The live slots are finitely many. *)
LEMMA AliveFinite ==
  ASSUME NEW T, NEW v \in Seq(T)
  PROVE  IsFiniteSet(AliveSlots(v)) /\ Cardinality(AliveSlots(v)) \in Nat
<1>1. Len(v) \in Nat /\ DOMAIN v = 1 .. Len(v)
  OBVIOUS
<1>2. IsFiniteSet(1 .. Len(v))
  BY <1>1, FS_Interval
<1>3. AliveSlots(v) \subseteq 1 .. Len(v)
  BY <1>1 DEF AliveSlots
<1>4. IsFiniteSet(AliveSlots(v))
  BY <1>2, <1>3, FS_Subset
<1> QED
  BY <1>4, FS_CardinalityType

(* What push_back() does to a list. *)
LEMMA AppendFacts ==
  ASSUME NEW f \in Seq(Nat), NEW e \in Nat
  PROVE  /\ Append(f, e) \in Seq(Nat)
         /\ ToSet(Append(f, e)) = ToSet(f) \cup {e}
         /\ IsInjective(f) /\ e \notin ToSet(f) => IsInjective(Append(f, e))
<1> DEFINE h == Append(f, e)
<1>1. h \in Seq(Nat) /\ Len(f) \in Nat /\ DOMAIN f = 1 .. Len(f) /\ Len(h) = Len(f) + 1
  OBVIOUS
<1>2. DOMAIN h = 1 .. Len(f) + 1
  BY <1>1
<1>3. \A i \in 1 .. Len(f) + 1 : h[i] = IF i = Len(f) + 1 THEN e ELSE f[i]
  BY <1>1
<1>4. \A i \in 1 .. Len(f) + 1 : i = Len(f) + 1 \/ i \in 1 .. Len(f)
  BY <1>1
<1>5. Len(f) + 1 \in 1 .. Len(f) + 1 /\ \A i \in 1 .. Len(f) : i \in 1 .. Len(f) + 1 /\ i # Len(f) + 1
  BY <1>1
<1> HIDE DEF h
<1>6. IsInjective(f) /\ e \notin ToSet(f) => IsInjective(h)
  BY <1>1, <1>2, <1>3, <1>4 DEF IsInjective, ToSet
<1>7. ToSet(h) = ToSet(f) \cup {e}
  <2>1. ASSUME NEW x \in ToSet(h) PROVE x \in ToSet(f) \cup {e}
    BY <2>1, <1>1, <1>2, <1>3, <1>4 DEF ToSet
  <2>2. ASSUME NEW x \in ToSet(f) \cup {e} PROVE x \in ToSet(h)
    BY <2>2, <1>1, <1>2, <1>3, <1>5 DEF ToSet
  <2> QED
    BY <2>1, <2>2
<1> QED
  BY <1>1, <1>6, <1>7 DEF h

(* A removed slot goes to the end of the free list. *)
LEMMA SlotFreed ==
  ASSUME NEW T, NEW v \in Seq(T), NEW U, NEW w \in Seq(U), NEW f \in Seq(Nat), NEW c,
         Accounted(v, f, c), NEW e \in AliveSlots(v),
         DOMAIN w = DOMAIN v, AliveSlots(w) = AliveSlots(v) \ {e}
  PROVE  /\ Append(f, e) \in Seq(Nat)
         /\ c - 1 \in Nat
         /\ Accounted(w, Append(f, e), c - 1)
<1>1. IsFiniteSet(AliveSlots(v)) /\ Cardinality(AliveSlots(v)) \in Nat
  BY AliveFinite
<1>2. Cardinality(AliveSlots(w)) = c - 1
  BY <1>1, FS_RemoveElement DEF Accounted
<1>3. Cardinality(AliveSlots(w)) \in Nat
  BY AliveFinite
<1>4. e \in DOMAIN v /\ e \in Nat /\ e \notin ToSet(f)
  BY DEF Accounted, AliveSlots
<1> DEFINE h == Append(f, e)
<1>5. h \in Seq(Nat) /\ IsInjective(h) /\ ToSet(h) = ToSet(f) \cup {e}
  BY <1>4, AppendFacts DEF Accounted
<1> HIDE DEF h
<1>6. ToSet(h) = DOMAIN w \ AliveSlots(w)
  BY <1>4, <1>5 DEF Accounted
<1> QED
  BY <1>2, <1>3, <1>5, <1>6 DEF Accounted, h

(* The last slot of the free list is used again. *)
LEMMA SlotReused ==
  ASSUME NEW T, NEW v \in Seq(T), NEW U, NEW w \in Seq(U), NEW f \in Seq(Nat), NEW c \in Nat,
         Accounted(v, f, c), f # <<>>,
         DOMAIN w = DOMAIN v, AliveSlots(w) = AliveSlots(v) \cup {Last(f)}
  PROVE  /\ Last(f) \in DOMAIN v \ AliveSlots(v)
         /\ Front(f) \in Seq(Nat)
         /\ Accounted(w, Front(f), c + 1)
<1> DEFINE k == Len(f)
           h == Front(f)
<1>1. k \in Nat /\ k >= 1 /\ DOMAIN f = 1 .. k
  OBVIOUS
<1>2. /\ Last(f) = f[k]
      /\ h \in Seq(Nat)
      /\ DOMAIN h = 1 .. k - 1
      /\ \A i \in 1 .. k - 1 : h[i] = f[i]
  BY <1>1 DEF Last, Front
<1>3. Last(f) \in ToSet(f)
  BY <1>1, <1>2 DEF ToSet
<1> HIDE DEF h, k
<1>4. IsInjective(h)
  BY <1>1, <1>2, SMTT(30) DEF IsInjective, Accounted
<1>5. \A i \in 1 .. k - 1 : f[i] # f[k]
  BY <1>1, SMTT(30) DEF IsInjective, Accounted
<1>6. \A i \in 1 .. k : i = k \/ i \in 1 .. k - 1
  BY <1>1
<1>7. ToSet(h) = ToSet(f) \ {Last(f)}
  <2>1. ASSUME NEW x \in ToSet(h) PROVE x \in ToSet(f) \ {Last(f)}
    BY <2>1, <1>1, <1>2, <1>5 DEF ToSet
  <2>2. ASSUME NEW x \in ToSet(f) \ {Last(f)} PROVE x \in ToSet(h)
    BY <2>2, <1>1, <1>2, <1>6 DEF ToSet
  <2> QED
    BY <2>1, <2>2
<1>8. ToSet(h) = DOMAIN w \ AliveSlots(w)
  BY <1>7 DEF Accounted
<1>9. Cardinality(AliveSlots(w)) = c + 1
  BY <1>3, AliveFinite, FS_AddElement DEF Accounted
<1> QED
  BY <1>2, <1>3, <1>4, <1>8, <1>9 DEF Accounted, h

(* The vector grows by a slot. *)
LEMMA SlotAdded ==
  ASSUME NEW T, NEW v \in Seq(T), NEW U, NEW w \in Seq(U), NEW f, NEW c \in Nat,
         Accounted(v, f, c), f = <<>>,
         DOMAIN w = 1 .. Len(v) + 1, AliveSlots(w) = AliveSlots(v) \cup {Len(v) + 1}
  PROVE  Accounted(w, f, c + 1)
<1>1. Len(v) \in Nat /\ DOMAIN v = 1 .. Len(v)
  OBVIOUS
<1>2. ToSet(f) = {}
  BY DEF ToSet
<1>3. AliveSlots(v) = DOMAIN v
  BY <1>2 DEF Accounted, AliveSlots
<1>4. Len(v) + 1 \notin AliveSlots(v)
  BY <1>1, <1>3
<1>5. Cardinality(AliveSlots(w)) = c + 1
  BY <1>4, AliveFinite, FS_AddElement DEF Accounted
<1>6. AliveSlots(w) = DOMAIN w
  BY <1>1, <1>3
<1> QED
  BY <1>2, <1>5, <1>6 DEF Accounted

-----------------------------------------------------------------------------
(* The inductive invariant, on a storage record g. *)
ListsExact(g) ==
  \A n \in DOMAIN g.nodes, K \in Kind :
    /\ IsInjective(g.nodes[n].out[K]) /\ IsInjective(g.nodes[n].in[K])
    /\ ToSet(g.nodes[n].out[K]) = {e \in AliveSlots(g.links[K]) : g.links[K][e].source = n}
    /\ ToSet(g.nodes[n].in[K]) = {e \in AliveSlots(g.links[K]) : g.links[K][e].target = n}

EndsAlive(g) ==
  \A K \in Kind : \A e \in AliveSlots(g.links[K]) :
    {g.links[K][e].source, g.links[K][e].target} \subseteq AliveSlots(g.nodes)

Sound(g) ==
  /\ g \in StorageType
  /\ Accounted(g.nodes, g.free["node"], g.live["node"])
  /\ \A K \in Kind : Accounted(g.links[K], g.free[K], g.live[K])
  /\ ListsExact(g)
  /\ EndsAlive(g)

(* The storage h is g once the links D of kind K are removed. *)
Cut(K, g, h, D) ==
  /\ DOMAIN h.nodes = DOMAIN g.nodes
  /\ AliveSlots(h.nodes) = AliveSlots(g.nodes)
  /\ \A J \in Kind :
       /\ DOMAIN h.links[J] = DOMAIN g.links[J]
       /\ AliveSlots(h.links[J]) = AliveSlots(g.links[J]) \ (IF J = K THEN D ELSE {})
       /\ \A e \in DOMAIN g.links[J] :
            /\ h.links[J][e].source = g.links[J][e].source
            /\ h.links[J][e].target = g.links[J][e].target
            /\ e \in AliveSlots(h.links[J]) => h.links[J][e].mask = g.links[J][e].mask

(* What removeEdge() does to the slot. *)
LEMMA KilledFields ==
  ASSUME NEW v \in Seq(LinkType), NEW e \in DOMAIN v
  PROVE  /\ Killed(v, e) \in Seq(LinkType)
         /\ DOMAIN Killed(v, e) = DOMAIN v
         /\ AliveSlots(Killed(v, e)) = AliveSlots(v) \ {e}
         /\ \A x \in DOMAIN v :
              /\ Killed(v, e)[x].source = v[x].source
              /\ Killed(v, e)[x].target = v[x].target
              /\ x # e => Killed(v, e)[x] = v[x]
<1> DEFINE r == [v[e] EXCEPT !.alive = FALSE, !.mask = 0]
           w == [v EXCEPT ![e] = r]
<1>1. v[e] \in LinkType
  OBVIOUS
<1>2. r \in LinkType /\ r.alive = FALSE /\ r.source = v[e].source /\ r.target = v[e].target
  BY <1>1 DEF LinkType
<1> HIDE DEF r
<1>3. w \in Seq(LinkType) /\ DOMAIN w = DOMAIN v /\ \A x \in DOMAIN v : w[x] = IF x = e THEN r ELSE v[x]
  BY <1>2
<1>4. Killed(v, e) = w
  BY DEF Killed, r
<1> HIDE DEF w
<1>5. AliveSlots(w) = AliveSlots(v) \ {e}
  BY <1>2, <1>3 DEF AliveSlots
<1> QED
  BY <1>2, <1>3, <1>4, <1>5

(* removeEdge() on a live edge of a sound storage. *)
LEMMA RemovedSound ==
  ASSUME NEW K \in Kind, NEW g, Sound(g), NEW e \in AliveSlots(g.links[K])
  PROVE  Sound(Removed(K, g, e)) /\ Cut(K, g, Removed(K, g, e), {e})
<1> DEFINE v == g.links[K]
           l == g.links[K][e]
           h == Removed(K, g, e)
           k == Killed(v, e)
           N == Detached(K, g.nodes, l, e)
<1>1. /\ g.nodes \in Seq(NodeType)
      /\ g.links \in [Kind -> Seq(LinkType)]
      /\ g.free \in [Store -> Seq(Nat)]
      /\ g.live \in [Store -> Nat]
      /\ K \in Store /\ "node" \in Store /\ K # "node"
  BY DEF Sound, StorageType, Kind, Store
<1>2. v \in Seq(LinkType) /\ e \in DOMAIN v /\ e \in Nat /\ l \in LinkType
  BY <1>1 DEF AliveSlots
<1>3. /\ l.source \in DOMAIN g.nodes /\ l.target \in DOMAIN g.nodes
      /\ IsInjective(g.nodes[l.source].out[K]) /\ IsInjective(g.nodes[l.target].in[K])
  BY DEF Sound, ListsExact, EndsAlive, AliveSlots
<1>4. /\ h.nodes = N
      /\ h.links = [g.links EXCEPT ![K] = k]
      /\ h.free = [g.free EXCEPT ![K] = Append(g.free[K], e)]
      /\ h.live = [g.live EXCEPT ![K] = g.live[K] - 1]
  BY DEF Removed
<1>5. /\ k \in Seq(LinkType)
      /\ DOMAIN k = DOMAIN v
      /\ AliveSlots(k) = AliveSlots(v) \ {e}
      /\ \A x \in DOMAIN v :
              /\ k[x].source = v[x].source
              /\ k[x].target = v[x].target
              /\ x # e => k[x] = v[x]
  BY <1>2, KilledFields
<1>6. EndsErased(K, g.nodes, N, l, e)
  BY <1>1, <1>2, <1>3, DetachedFields
<1>7. \A J \in Kind : h.links[J] = IF J = K THEN k ELSE g.links[J]
  BY <1>1, <1>4
<1>8. Accounted(k, Append(g.free[K], e), g.live[K] - 1) /\ Append(g.free[K], e) \in Seq(Nat) /\ g.live[K] - 1 \in Nat
  <2>1. Accounted(v, g.free[K], g.live[K]) /\ g.free[K] \in Seq(Nat)
    BY <1>1 DEF Sound
  <2> HIDE DEF k
  <2> QED
    BY <1>2, <1>5, <2>1, SlotFreed
<1>9. h \in StorageType
  <2>1. /\ h.nodes \in Seq(NodeType)
        /\ h.links \in [Kind -> Seq(LinkType)]
        /\ h.free \in [Store -> Seq(Nat)]
        /\ h.live \in [Store -> Nat]
    BY <1>1, <1>4, <1>5, <1>6, <1>8 DEF EndsErased
  <2> QED
    BY <2>1 DEF StorageType, Removed
<1>10. AliveSlots(h.nodes) = AliveSlots(g.nodes) /\ DOMAIN h.nodes = DOMAIN g.nodes
  BY <1>4, <1>6 DEF EndsErased, AliveSlots
<1>11. Accounted(h.nodes, h.free["node"], h.live["node"])
  BY <1>1, <1>4, <1>10 DEF Sound, Accounted
<1>12. ASSUME NEW J \in Kind PROVE Accounted(h.links[J], h.free[J], h.live[J])
  <2>1. J \in Store
    BY DEF Store
  <2>2. CASE J = K
    BY <1>1, <1>4, <1>7, <1>8, <2>2
  <2>3. CASE J # K
    BY <1>1, <1>4, <1>7, <2>1, <2>3 DEF Sound
  <2> QED
    BY <2>2, <2>3
<1> HIDE DEF h, k, N, v, l
<1>13. ASSUME NEW n \in DOMAIN h.nodes, NEW J \in Kind
       PROVE  /\ IsInjective(h.nodes[n].out[J]) /\ IsInjective(h.nodes[n].in[J])
              /\ ToSet(h.nodes[n].out[J]) = {x \in AliveSlots(h.links[J]) : h.links[J][x].source = n}
              /\ ToSet(h.nodes[n].in[J]) = {x \in AliveSlots(h.links[J]) : h.links[J][x].target = n}
  <2>1. n \in DOMAIN g.nodes /\ g.nodes[n] \in NodeType
    BY <1>1, <1>10
  <2>2. /\ g.nodes[n].out[J] \in Seq(Nat) /\ g.nodes[n].in[J] \in Seq(Nat)
        /\ IsInjective(g.nodes[n].out[J]) /\ IsInjective(g.nodes[n].in[J])
        /\ ToSet(g.nodes[n].out[J]) = {x \in AliveSlots(g.links[J]) : g.links[J][x].source = n}
        /\ ToSet(g.nodes[n].in[J]) = {x \in AliveSlots(g.links[J]) : g.links[J][x].target = n}
    BY <2>1 DEF Sound, ListsExact, NodeType
  <2>3. /\ h.nodes[n].out[J] = IF n = l.source /\ J = K
                 THEN EraseEdgeId(g.nodes[n].out[J], e) ELSE g.nodes[n].out[J]
        /\ h.nodes[n].in[J] = IF n = l.target /\ J = K
                 THEN EraseEdgeId(g.nodes[n].in[J], e) ELSE g.nodes[n].in[J]
    BY <1>4, <1>6, <2>1 DEF EndsErased
  <2>4. CASE J # K
    BY <1>7, <2>2, <2>3, <2>4
  <2>5. CASE J = K
    <3>1. /\ h.links[J] = k
          /\ \A x \in AliveSlots(v) : k[x].source = v[x].source /\ k[x].target = v[x].target
      BY <1>5, <1>7, <2>5 DEF AliveSlots
    <3>2. /\ {x \in AliveSlots(k) : k[x].source = n} = {x \in AliveSlots(v) : v[x].source = n} \ {e}
          /\ {x \in AliveSlots(k) : k[x].target = n} = {x \in AliveSlots(v) : v[x].target = n} \ {e}
      BY <1>5, <3>1
    <3>3. /\ IsInjective(EraseEdgeId(g.nodes[n].out[J], e))
          /\ IsInjective(EraseEdgeId(g.nodes[n].in[J], e))
          /\ ToSet(EraseEdgeId(g.nodes[n].out[J], e)) = ToSet(g.nodes[n].out[J]) \ {e}
          /\ ToSet(EraseEdgeId(g.nodes[n].in[J], e)) = ToSet(g.nodes[n].in[J]) \ {e}
      BY <2>2, EraseFacts
    <3>4. /\ n # l.source => e \notin {x \in AliveSlots(v) : v[x].source = n}
          /\ n # l.target => e \notin {x \in AliveSlots(v) : v[x].target = n}
      BY DEF l, v
    <3>5. g.links[J] = v
      BY <2>5 DEF v
    <3> QED
      BY <2>2, <2>3, <2>5, <3>1, <3>2, <3>3, <3>4, <3>5
  <2> QED
    BY <2>4, <2>5
<1>14. Cut(K, g, h, {e})
  <2> SUFFICES ASSUME NEW J \in Kind
               PROVE  /\ DOMAIN h.links[J] = DOMAIN g.links[J]
                      /\ AliveSlots(h.links[J]) = AliveSlots(g.links[J]) \ (IF J = K THEN {e} ELSE {})
                      /\ \A x \in DOMAIN g.links[J] :
                           /\ h.links[J][x].source = g.links[J][x].source
                           /\ h.links[J][x].target = g.links[J][x].target
                           /\ x \in AliveSlots(h.links[J]) => h.links[J][x].mask = g.links[J][x].mask
    BY <1>10 DEF Cut
  <2>1. CASE J # K
    BY <1>7, <2>1
  <2>2. CASE J = K
    BY <1>5, <1>7, <2>2 DEF v
  <2> QED
    BY <2>1, <2>2
<1>15. EndsAlive(h)
  <2> SUFFICES ASSUME NEW J \in Kind, NEW x \in AliveSlots(h.links[J])
               PROVE  {h.links[J][x].source, h.links[J][x].target} \subseteq AliveSlots(h.nodes)
    BY DEF EndsAlive
  <2>1. x \in AliveSlots(g.links[J]) /\ x \in DOMAIN g.links[J]
    BY <1>14 DEF Cut, AliveSlots
  <2>2. {g.links[J][x].source, g.links[J][x].target} \subseteq AliveSlots(g.nodes)
    BY <2>1 DEF Sound, EndsAlive
  <2> QED
    BY <1>10, <1>14, <2>1, <2>2 DEF Cut
<1>16. ListsExact(h)
  BY <1>13 DEF ListsExact
<1>17. Sound(h)
  BY <1>9, <1>11, <1>12, <1>15, <1>16 DEF Sound
<1> QED
  BY <1>14, <1>17 DEF h

(* removeEdge() on any slot: a dead one is left as it is. *)
LEMMA RemoveLinkSound ==
  ASSUME NEW K \in Kind, NEW g, Sound(g), NEW e \in DOMAIN g.links[K]
  PROVE  Sound(RemoveLink(K, g, e)) /\ Cut(K, g, RemoveLink(K, g, e), {e})
<1>1. CASE g.links[K][e].alive
  BY <1>1, RemovedSound DEF RemoveLink, AliveSlots
<1>2. CASE ~g.links[K][e].alive
  <2>1. e \notin AliveSlots(g.links[K])
    BY <1>2 DEF AliveSlots
  <2> QED
    BY <1>2, <2>1 DEF RemoveLink, Cut
<1> QED
  BY <1>1, <1>2

(* Two cuts one after the other are one cut. *)
LEMMA CutTransitive ==
  ASSUME NEW K \in Kind, NEW g, NEW h, NEW i, NEW D, NEW E, Cut(K, g, h, D), Cut(K, h, i, E)
  PROVE  Cut(K, g, i, D \cup E)
<1> SUFFICES ASSUME NEW J \in Kind
             PROVE  /\ DOMAIN i.links[J] = DOMAIN g.links[J]
                    /\ AliveSlots(i.links[J]) = AliveSlots(g.links[J]) \ (IF J = K THEN D \cup E ELSE {})
                    /\ \A e \in DOMAIN g.links[J] :
                         /\ i.links[J][e].source = g.links[J][e].source
                         /\ i.links[J][e].target = g.links[J][e].target
                         /\ e \in AliveSlots(i.links[J]) => i.links[J][e].mask = g.links[J][e].mask
  BY DEF Cut
<1>1. CASE J = K
  BY <1>1 DEF Cut, AliveSlots
<1>2. CASE J # K
  BY <1>2 DEF Cut, AliveSlots
<1> QED
  BY <1>1, <1>2

(* The storage after the first k removals of removeNode()'s loop. *)
IsTrace(K, g, s, t, m) ==
  /\ DOMAIN t = 0 .. m
  /\ t[0] = g
  /\ \A k \in 1 .. m : t[k] = RemoveLink(K, t[k - 1], s[k])

(* The loop computes a storage: the recursion of RemoveLinks is defined. *)
LEMMA TraceExists ==
  ASSUME NEW K, NEW g, NEW s, NEW n \in Nat
  PROVE  \E t : IsTrace(K, g, s, t, n)
<1> DEFINE S == {m \in Nat : \E t : IsTrace(K, g, s, t, m)}
<1>1. 0 \in S
  <2>1. IsTrace(K, g, s, [k \in 0 .. 0 |-> g], 0)
    BY DEF IsTrace
  <2> QED
    BY <2>1
<1>2. ASSUME NEW m \in Nat, m \in S PROVE m + 1 \in S
  <2>1. PICK t : IsTrace(K, g, s, t, m)
    BY <1>2
  <2> DEFINE u == [k \in 0 .. m + 1 |-> IF k = m + 1 THEN RemoveLink(K, t[m], s[m + 1]) ELSE t[k]]
  <2>2. IsTrace(K, g, s, u, m + 1)
    BY <2>1 DEF IsTrace
  <2> QED
    BY <2>2
<1> HIDE DEF S
<1>3. n \in S
  BY <1>1, <1>2, NatInduct
<1> QED
  BY <1>3 DEF S

(* RemoveLinks is the end of that trace. *)
LEMMA RemoveLinksTrace ==
  ASSUME NEW K, NEW g, NEW T, NEW s \in Seq(T)
  PROVE  \E t : IsTrace(K, g, s, t, Len(s)) /\ RemoveLinks(K, g, s) = t[Len(s)]
<1> DEFINE n == Len(s)
           P(t) == t = [k \in 0 .. n |-> IF k = 0 THEN g ELSE RemoveLink(K, t[k - 1], s[k])]
<1>1. n \in Nat
  OBVIOUS
<1>2. PICK t : IsTrace(K, g, s, t, n)
  BY <1>1, TraceExists
<1>3. P([k \in 0 .. n |-> t[k]])
  BY <1>1, <1>2 DEF IsTrace
<1>4. P(CHOOSE t_1 : P(t_1))
  BY <1>3
<1>5. RemoveLinks(K, g, s) = (CHOOSE t_1 : P(t_1))[n]
  BY DEF RemoveLinks
<1>6. PICK c : P(c) /\ RemoveLinks(K, g, s) = c[n]
  BY <1>4, <1>5
<1>7. \A k \in 1 .. n : k \in 0 .. n /\ k # 0
  BY <1>1
<1>8. IsTrace(K, g, s, c, n)
  BY <1>1, <1>6, <1>7 DEF IsTrace
<1> QED
  BY <1>6, <1>8

(* The loop of removeNode() over a copied list removes exactly its links. *)
LEMMA RemoveLinksSound ==
  ASSUME NEW K \in Kind, NEW g, Sound(g), NEW s \in Seq(Nat), ToSet(s) \subseteq DOMAIN g.links[K]
  PROVE  Sound(RemoveLinks(K, g, s)) /\ Cut(K, g, RemoveLinks(K, g, s), ToSet(s))
<1> DEFINE n == Len(s)
<1>1. n \in Nat /\ DOMAIN s = 1 .. n
  OBVIOUS
<1>2. PICK t : IsTrace(K, g, s, t, n) /\ RemoveLinks(K, g, s) = t[n]
  BY RemoveLinksTrace
<1> HIDE DEF n
<1> DEFINE Seen(k) == {s[j] : j \in 1 .. k}
           S == {k \in 0 .. n : Sound(t[k]) /\ Cut(K, g, t[k], Seen(k))}
<1>3. 0 \in S
  <2>1. Seen(0) = {}
    OBVIOUS
  <2>2. Cut(K, g, g, {})
    BY DEF Cut
  <2> QED
    BY <1>1, <1>2, <2>1, <2>2 DEF IsTrace
<1>4. ASSUME NEW k \in 0 .. n - 1, k \in S PROVE k + 1 \in S
  <2>1. k + 1 \in 1 .. n /\ k + 1 \in 0 .. n /\ (k + 1) - 1 = k
    BY <1>1
  <2>2. t[k + 1] = RemoveLink(K, t[k], s[k + 1])
    BY <1>2, <2>1 DEF IsTrace
  <2>3. s[k + 1] \in DOMAIN g.links[K]
    BY <1>1, <2>1 DEF ToSet
  <2>4. s[k + 1] \in DOMAIN t[k].links[K]
    BY <1>4, <2>3 DEF Cut
  <2>5. Sound(t[k + 1]) /\ Cut(K, t[k], t[k + 1], {s[k + 1]})
    BY <1>4, <2>2, <2>4, RemoveLinkSound
  <2>6. Cut(K, g, t[k + 1], Seen(k) \cup {s[k + 1]})
    <3> HIDE DEF Seen
    <3> QED
      BY <1>4, <2>5, CutTransitive
  <2>7. Seen(k) \cup {s[k + 1]} = Seen(k + 1)
    <3>1. \A j : j \in 1 .. k + 1 <=> j \in 1 .. k \/ j = k + 1
      BY <1>1
    <3> QED
      BY <3>1
  <2> HIDE DEF Seen
  <2> QED
    BY <2>1, <2>5, <2>6, <2>7
<1> HIDE DEF S
<1>5. n \in S
  <2>1. \A k \in 0 .. n - 1 : k \in S => k + 1 \in S
    BY <1>4
  <2>2. \A k \in 0 .. n : k \in S
    BY <1>1, <1>3, <2>1, UpTo
  <2> QED
    BY <1>1, <2>2
<1>6. Seen(n) = ToSet(s)
  BY <1>1 DEF ToSet
<1> QED
  BY <1>2, <1>5, <1>6 DEF S

(* h is the storage g without the links of node n. *)
Cleared(g, h, n) ==
  /\ DOMAIN h.nodes = DOMAIN g.nodes
  /\ AliveSlots(h.nodes) = AliveSlots(g.nodes)
  /\ \A J \in Kind :
       /\ DOMAIN h.links[J] = DOMAIN g.links[J]
       /\ AliveSlots(h.links[J]) =
            {e \in AliveSlots(g.links[J]) : g.links[J][e].source # n /\ g.links[J][e].target # n}
       /\ \A e \in DOMAIN g.links[J] :
            /\ h.links[J][e].source = g.links[J][e].source
            /\ h.links[J][e].target = g.links[J][e].target
            /\ e \in AliveSlots(h.links[J]) => h.links[J][e].mask = g.links[J][e].mask

(* removeNode() removes the links of the node, and no others, although its *)
(* four copied lists may name a link twice.                                *)
LEMMA UnlinkedSound ==
  ASSUME Sound(Storage), NEW n \in DOMAIN nodes
  PROVE  Sound(Unlinked(n)) /\ Cleared(Storage, Unlinked(n), n)
<1> DEFINE g == Storage
           co == nodes[n].out["capture"]
           ci == nodes[n].in["capture"]
           eo == nodes[n].out["edge"]
           ei == nodes[n].in["edge"]
           g1 == RemoveLinks("capture", g, co)
           g2 == RemoveLinks("capture", g1, ci)
           g3 == RemoveLinks("edge", g2, eo)
           g4 == RemoveLinks("edge", g3, ei)
<1>1. g.nodes = nodes /\ g.links = links /\ "capture" \in Kind /\ "edge" \in Kind
  BY DEF Storage, Kind
<1>2. nodes[n] \in NodeType
  BY <1>1 DEF Sound, StorageType
<1>3. co \in Seq(Nat) /\ ci \in Seq(Nat) /\ eo \in Seq(Nat) /\ ei \in Seq(Nat)
  BY <1>1, <1>2 DEF NodeType
<1>4. \A K \in Kind :
        /\ ToSet(nodes[n].out[K]) = {e \in AliveSlots(links[K]) : links[K][e].source = n}
        /\ ToSet(nodes[n].in[K]) = {e \in AliveSlots(links[K]) : links[K][e].target = n}
  BY <1>1 DEF Sound, ListsExact
<1>5. /\ ToSet(co) \subseteq DOMAIN g.links["capture"] /\ ToSet(ci) \subseteq DOMAIN g.links["capture"]
      /\ ToSet(eo) \subseteq DOMAIN g.links["edge"] /\ ToSet(ei) \subseteq DOMAIN g.links["edge"]
  BY <1>1, <1>4 DEF AliveSlots
<1>6. Unlinked(n) = g4
  BY DEF Unlinked
<1> HIDE DEF g, co, ci, eo, ei
<1>7. Sound(g1) /\ Cut("capture", g, g1, ToSet(co))
  BY <1>1, <1>3, <1>5, RemoveLinksSound DEF g
<1> HIDE DEF g1
<1>8. Sound(g2) /\ Cut("capture", g1, g2, ToSet(ci))
  <2>1. ToSet(ci) \subseteq DOMAIN g1.links["capture"]
    BY <1>1, <1>5, <1>7 DEF Cut
  <2> QED
    BY <1>1, <1>3, <1>7, <2>1, RemoveLinksSound
<1> HIDE DEF g2
<1>9. Sound(g3) /\ Cut("edge", g2, g3, ToSet(eo))
  <2>1. ToSet(eo) \subseteq DOMAIN g2.links["edge"]
    BY <1>1, <1>5, <1>7, <1>8 DEF Cut
  <2> QED
    BY <1>1, <1>3, <1>8, <2>1, RemoveLinksSound
<1> HIDE DEF g3
<1>10. Sound(g4) /\ Cut("edge", g3, g4, ToSet(ei))
  <2>1. ToSet(ei) \subseteq DOMAIN g3.links["edge"]
    BY <1>1, <1>5, <1>7, <1>8, <1>9 DEF Cut
  <2> QED
    BY <1>1, <1>3, <1>9, <2>1, RemoveLinksSound
<1> HIDE DEF g4
<1>11. Cut("capture", g, g2, ToSet(co) \cup ToSet(ci)) /\ Cut("edge", g2, g4, ToSet(eo) \cup ToSet(ei))
  BY <1>1, <1>7, <1>8, <1>9, <1>10, CutTransitive
<1>12. ASSUME NEW J \in Kind
       PROVE  AliveSlots(g4.links[J]) =
                AliveSlots(g.links[J]) \ (ToSet(nodes[n].out[J]) \cup ToSet(nodes[n].in[J]))
  <2>1. CASE J = "capture"
    BY <1>1, <1>11, <2>1 DEF Cut, co, ci
  <2>2. CASE J = "edge"
    BY <1>1, <1>11, <2>2 DEF Cut, eo, ei
  <2> QED
    BY <2>1, <2>2 DEF Kind
<1>13. ASSUME NEW J \in Kind
       PROVE  AliveSlots(g4.links[J]) =
                {e \in AliveSlots(g.links[J]) : g.links[J][e].source # n /\ g.links[J][e].target # n}
  BY <1>1, <1>4, <1>12
<1>14. ASSUME NEW J \in Kind
       PROVE  /\ DOMAIN g4.links[J] = DOMAIN g.links[J]
              /\ \A e \in DOMAIN g.links[J] :
                   /\ g4.links[J][e].source = g.links[J][e].source
                   /\ g4.links[J][e].target = g.links[J][e].target
                   /\ e \in AliveSlots(g4.links[J]) => g4.links[J][e].mask = g.links[J][e].mask
  <2>1. AliveSlots(g4.links[J]) \subseteq AliveSlots(g2.links[J])
    BY <1>11 DEF Cut
  <2> QED
    BY <1>11, <2>1 DEF Cut
<1>15. DOMAIN g4.nodes = DOMAIN g.nodes /\ AliveSlots(g4.nodes) = AliveSlots(g.nodes)
  BY <1>11 DEF Cut
<1> QED
  BY <1>6, <1>10, <1>13, <1>14, <1>15 DEF Cleared, g

-----------------------------------------------------------------------------
(* The inductive invariant: a sound storage, masks of the size of the      *)
(* clock count, and clocks that name numbers.                              *)
Inv == Sound(Storage) /\ MasksSized /\ clocks \in Seq(Nat)

(* The record of the variables, unfolded. *)
LEMMA InvFacts ==
  ASSUME Inv
  PROVE  /\ nodes \in Seq(NodeType)
         /\ links \in [Kind -> Seq(LinkType)]
         /\ free \in [Store -> Seq(Nat)]
         /\ live \in [Store -> Nat]
         /\ Accounted(nodes, free["node"], live["node"])
         /\ \A K \in Kind : Accounted(links[K], free[K], live[K])
         /\ \A n \in DOMAIN nodes, K \in Kind :
              /\ IsInjective(nodes[n].out[K]) /\ IsInjective(nodes[n].in[K])
              /\ ToSet(nodes[n].out[K]) = {e \in AliveSlots(links[K]) : links[K][e].source = n}
              /\ ToSet(nodes[n].in[K]) = {e \in AliveSlots(links[K]) : links[K][e].target = n}
         /\ \A K \in Kind : \A e \in AliveSlots(links[K]) :
              {links[K][e].source, links[K][e].target} \subseteq AliveSlots(nodes)
<1>1. Storage.nodes = nodes /\ Storage.links = links /\ Storage.free = free /\ Storage.live = live
  BY DEF Storage
<1>2. Storage \in StorageType
  BY DEF Inv, Sound
<1>3. nodes \in Seq(NodeType) /\ links \in [Kind -> Seq(LinkType)] /\ free \in [Store -> Seq(Nat)] /\ live \in [Store -> Nat]
  BY <1>1, <1>2 DEF StorageType
<1> HIDE DEF Storage
<1> QED
  BY <1>1, <1>3 DEF Inv, Sound, ListsExact, EndsAlive

(* The other way round, for the next state. *)
LEMMA SoundFromParts ==
  ASSUME nodes' \in Seq(NodeType),
         links' \in [Kind -> Seq(LinkType)],
         free' \in [Store -> Seq(Nat)],
         live' \in [Store -> Nat],
         Accounted(nodes', free'["node"], live'["node"]),
         \A K \in Kind : Accounted(links'[K], free'[K], live'[K]),
         \A n \in DOMAIN nodes', K \in Kind :
              /\ IsInjective(nodes'[n].out[K]) /\ IsInjective(nodes'[n].in[K])
              /\ ToSet(nodes'[n].out[K]) = {e \in AliveSlots(links'[K]) : links'[K][e].source = n}
              /\ ToSet(nodes'[n].in[K]) = {e \in AliveSlots(links'[K]) : links'[K][e].target = n},
         \A K \in Kind : \A e \in AliveSlots(links'[K]) :
              {links'[K][e].source, links'[K][e].target} \subseteq AliveSlots(nodes')
  PROVE  Sound(Storage)'
<1> DEFINE g == [nodes |-> nodes', links |-> links', free |-> free', live |-> live']
<1>1. g.nodes = nodes' /\ g.links = links' /\ g.free = free' /\ g.live = live'
  OBVIOUS
<1>2. g \in StorageType
  BY DEF StorageType
<1>3. Storage' = g
  BY DEF Storage
<1> HIDE DEF g
<1>4. Sound(g)
  BY <1>1, <1>2 DEF Sound, ListsExact, EndsAlive
<1> QED
  BY <1>3, <1>4

(* A sound record that the variables take over. *)
LEMMA SoundBecomes ==
  ASSUME NEW h, Sound(h), StorageBecomes(h)
  PROVE  Sound(Storage)'
<1>1. h = [nodes |-> h.nodes, links |-> h.links, free |-> h.free, live |-> h.live]
  BY DEF Sound, StorageType
<1>2. Storage' = h
  BY <1>1 DEF StorageBecomes, Storage
<1> QED
  BY <1>2

(* What LinksStable says of a step. *)
LinksKept ==
  \A K \in Kind : \A e \in AliveSlots(links[K]) :
    LET l == links[K][e]
    IN  IF e \in AliveSlots(links'[K])
          THEN links'[K][e].source = l.source /\ links'[K][e].target = l.target
          ELSE \/ DestroyLink(K, e)
               \/ ~nodes'[l.source].alive
               \/ ~nodes'[l.target].alive

(* Empty lists. *)
LEMMA EmptyList == <<>> \in Seq(Nat) /\ IsInjective(<<>>) /\ ToSet(<<>>) = {}
BY DEF IsInjective, ToSet

(* The slot a new node gets, and the storage with it. *)
LEMMA FreshNodeType ==
  /\ FreshNode \in NodeType /\ DeadNode \in NodeType
  /\ FreshNode.alive = TRUE /\ DeadNode.alive = FALSE
  /\ \A K \in Kind : FreshNode.out[K] = <<>> /\ FreshNode.in[K] = <<>>
  /\ \A K \in Kind : DeadNode.out[K] = <<>> /\ DeadNode.in[K] = <<>>
<1>1. NoLinks \in [Kind -> Seq(Nat)] /\ \A K \in Kind : NoLinks[K] = <<>>
  BY EmptyList DEF NoLinks
<1> QED
  BY <1>1 DEF FreshNode, DeadNode, NodeType

(* createNode(). *)
LEMMA CreateNodeInv ==
  ASSUME Inv, CreateNode
  PROVE  Inv' /\ LinksKept
<1> DEFINE S == "node"
           x == IF free[S] = <<>> THEN Len(nodes) + 1 ELSE Last(free[S])
<1> USE InvFacts
<1>1. S \in Store /\ Len(nodes) \in Nat /\ free[S] \in Seq(Nat) /\ live[S] \in Nat
      /\ DOMAIN nodes = 1 .. Len(nodes)
  BY DEF Store
<1>2. links' = links /\ clocks' = clocks
  BY DEF CreateNode
<1>3. /\ nodes' \in Seq(NodeType)
      /\ \A n \in DOMAIN nodes' : nodes'[n] = IF n = x THEN FreshNode ELSE nodes[n]
      /\ DOMAIN nodes' = DOMAIN nodes \cup {x}
      /\ x \notin AliveSlots(nodes)
      /\ Accounted(nodes', free'[S], live'[S])
      /\ free'[S] \in Seq(Nat)
  <2>1. CASE free[S] # <<>>
    <3>1. /\ nodes' = [nodes EXCEPT ![x] = FreshNode]
          /\ free' = [free EXCEPT ![S] = Front(free[S])]
          /\ live' = [live EXCEPT ![S] = live[S] + 1]
      BY <2>1 DEF CreateNode, FreeAfterCreate
    <3>2. Accounted(nodes, free[S], live[S])
      OBVIOUS
    <3>3. x \in DOMAIN nodes \ AliveSlots(nodes)
      <4>1. Last(free[S]) \in ToSet(free[S])
        BY <1>1, <2>1 DEF Last, ToSet
      <4> QED
        BY <2>1, <3>2, <4>1 DEF Accounted
    <3> HIDE DEF x
    <3>4. /\ nodes' \in Seq(NodeType)
          /\ \A n \in DOMAIN nodes' : nodes'[n] = IF n = x THEN FreshNode ELSE nodes[n]
          /\ DOMAIN nodes' = DOMAIN nodes
      BY <3>1, <3>3, FreshNodeType
    <3>5. AliveSlots(nodes') = AliveSlots(nodes) \cup {x}
      BY <3>3, <3>4, FreshNodeType DEF AliveSlots
    <3>6. Front(free[S]) \in Seq(Nat) /\ Accounted(nodes', Front(free[S]), live[S] + 1)
      BY <1>1, <2>1, <3>2, <3>4, <3>5, SlotReused DEF x
    <3> QED
      BY <1>1, <3>1, <3>3, <3>4, <3>6
  <2>2. CASE free[S] = <<>>
    <3>1. /\ nodes' = Append(nodes, FreshNode)
          /\ free' = free
          /\ live' = [live EXCEPT ![S] = live[S] + 1]
      BY <2>2 DEF CreateNode, FreeAfterCreate
    <3>2. Accounted(nodes, free[S], live[S]) /\ x = Len(nodes) + 1
      BY <2>2
    <3>3. x \notin DOMAIN nodes /\ x \notin AliveSlots(nodes)
      BY <1>1, <3>2 DEF AliveSlots
    <3>4. /\ nodes' \in Seq(NodeType)
          /\ \A n \in DOMAIN nodes' : nodes'[n] = IF n = x THEN FreshNode ELSE nodes[n]
          /\ DOMAIN nodes' = 1 .. Len(nodes) + 1
          /\ DOMAIN nodes' = DOMAIN nodes \cup {x}
      BY <1>1, <3>1, <3>2, FreshNodeType
    <3> HIDE DEF x
    <3>5. AliveSlots(nodes') = AliveSlots(nodes) \cup {Len(nodes) + 1}
      BY <3>2, <3>3, <3>4, FreshNodeType DEF AliveSlots
    <3>6. Accounted(nodes', free[S], live[S] + 1)
      BY <1>1, <2>2, <3>2, <3>4, <3>5, SlotAdded
    <3> QED
      BY <1>1, <3>1, <3>3, <3>4, <3>6
  <2> QED
    BY <2>1, <2>2
<1>4. /\ free' \in [Store -> Seq(Nat)] /\ live' \in [Store -> Nat]
      /\ \A K \in Kind : free'[K] = free[K] /\ live'[K] = live[K]
  BY <1>1, <1>3 DEF CreateNode, FreeAfterCreate, Kind, Store
<1> HIDE DEF x
<1>5. AliveSlots(nodes') = AliveSlots(nodes) \cup {x}
  BY <1>3, FreshNodeType DEF AliveSlots
<1>6. \A K \in Kind : Accounted(links'[K], free'[K], live'[K])
  BY <1>2, <1>4
<1>7. ASSUME NEW n \in DOMAIN nodes', NEW K \in Kind
      PROVE  /\ IsInjective(nodes'[n].out[K]) /\ IsInjective(nodes'[n].in[K])
             /\ ToSet(nodes'[n].out[K]) = {e \in AliveSlots(links'[K]) : links'[K][e].source = n}
             /\ ToSet(nodes'[n].in[K]) = {e \in AliveSlots(links'[K]) : links'[K][e].target = n}
  <2>1. CASE n = x
    <3>1. \A e \in AliveSlots(links[K]) : links[K][e].source # x /\ links[K][e].target # x
      BY <1>3
    <3> QED
      BY <1>2, <1>3, <2>1, <3>1, FreshNodeType, EmptyList
  <2>2. CASE n # x
    BY <1>2, <1>3, <2>2
  <2> QED
    BY <2>1, <2>2
<1>8. \A K \in Kind : \A e \in AliveSlots(links'[K]) :
        {links'[K][e].source, links'[K][e].target} \subseteq AliveSlots(nodes')
  BY <1>2, <1>5
<1>9. Sound(Storage)'
  BY <1>2, <1>3, <1>4, <1>6, <1>7, <1>8, SoundFromParts
<1>10. MasksSized' /\ clocks' \in Seq(Nat)
  BY <1>2 DEF Inv, MasksSized
<1>11. LinksKept
  BY <1>2 DEF LinksKept
<1> QED
  BY <1>9, <1>10, <1>11 DEF Inv

(* createEdge() and createCaptureEdge(). *)
LEMMA CreateLinkInv ==
  ASSUME Inv, NEW K \in Kind, NEW n, NEW m, CreateLink(K, n, m)
  PROVE  Inv' /\ LinksKept
<1> DEFINE x == NextLinkID(K)
           r == FreshLink(K, n, m)
           v == links[K]
           o == Append(nodes[n].out[K], x)
           w == WithOut(nodes, n, K, o)
           i == Append(nodes[m].in[K], x)
<1> USE InvFacts
<1>1. /\ K \in Store /\ v \in Seq(LinkType) /\ Len(v) \in Nat /\ DOMAIN v = 1 .. Len(v)
      /\ free[K] \in Seq(Nat) /\ live[K] \in Nat /\ Accounted(v, free[K], live[K])
  BY DEF Store
<1>2. n \in DOMAIN nodes /\ m \in DOMAIN nodes /\ n \in AliveSlots(nodes) /\ m \in AliveSlots(nodes)
  BY DEF CreateLink, isNodeValid, AliveSlots
<1>3. n \in Nat /\ m \in Nat /\ clocks' = clocks /\ Len(clocks) \in Nat
  BY <1>2 DEF CreateLink, Inv
<1>4. /\ r \in LinkType /\ r.alive = TRUE /\ r.source = n /\ r.target = m
      /\ r.mask = IF K = "edge" THEN Len(clocks) ELSE 0
  BY <1>3 DEF FreshLink, LinkType
<1>5. live' = [live EXCEPT ![K] = live[K] + 1]
  BY DEF CreateLink
<1>6. /\ x \in Nat /\ x \notin AliveSlots(v)
      /\ links' \in [Kind -> Seq(LinkType)]
      /\ \A J \in Kind : J # K => links'[J] = links[J]
      /\ DOMAIN links'[K] = DOMAIN v \cup {x}
      /\ \A e \in DOMAIN links'[K] : links'[K][e] = IF e = x THEN r ELSE v[e]
      /\ Accounted(links'[K], free'[K], live'[K])
      /\ free' \in [Store -> Seq(Nat)]
      /\ \A S \in Store : S # K => free'[S] = free[S]
  <2>1. CASE free[K] # <<>>
    <3>1. /\ links' = [links EXCEPT ![K] = [v EXCEPT ![x] = r]]
          /\ free' = [free EXCEPT ![K] = Front(free[K])]
      BY <2>1 DEF CreateLink, FreeAfterCreate
    <3>2. x = Last(free[K])
      BY <2>1 DEF NextLinkID
    <3>3. x \in DOMAIN v \ AliveSlots(v)
      <4>1. Last(free[K]) \in ToSet(free[K])
        BY <1>1, <2>1 DEF Last, ToSet
      <4> QED
        BY <1>1, <3>2, <4>1 DEF Accounted
    <3> HIDE DEF x, r, v
    <3>4. /\ links'[K] \in Seq(LinkType)
          /\ DOMAIN links'[K] = DOMAIN v
          /\ \A e \in DOMAIN links'[K] : links'[K][e] = IF e = x THEN r ELSE v[e]
      BY <1>1, <1>4, <3>1, <3>3
    <3>5. AliveSlots(links'[K]) = AliveSlots(v) \cup {Last(free[K])}
      BY <1>4, <3>2, <3>3, <3>4 DEF AliveSlots
    <3>6. Front(free[K]) \in Seq(Nat) /\ Accounted(links'[K], Front(free[K]), live[K] + 1)
      BY <1>1, <2>1, <3>4, <3>5, SlotReused
    <3>7. /\ links' \in [Kind -> Seq(LinkType)]
          /\ \A J \in Kind : J # K => links'[J] = links[J]
      BY <3>1, <3>4
    <3> QED
      BY <1>1, <1>5, <3>1, <3>3, <3>4, <3>6, <3>7
  <2>2. CASE free[K] = <<>>
    <3>1. /\ links' = [links EXCEPT ![K] = Append(v, r)]
          /\ free' = free
      BY <2>2 DEF CreateLink, FreeAfterCreate
    <3>2. x = Len(v) + 1
      BY <2>2 DEF NextLinkID
    <3>3. x \notin DOMAIN v /\ x \notin AliveSlots(v)
      BY <1>1, <3>2 DEF AliveSlots
    <3> HIDE DEF x, r, v
    <3>4. /\ links'[K] \in Seq(LinkType)
          /\ DOMAIN links'[K] = 1 .. Len(v) + 1
          /\ DOMAIN links'[K] = DOMAIN v \cup {x}
          /\ \A e \in DOMAIN links'[K] : links'[K][e] = IF e = x THEN r ELSE v[e]
      BY <1>1, <1>4, <3>1, <3>2
    <3>5. AliveSlots(links'[K]) = AliveSlots(v) \cup {Len(v) + 1}
      BY <1>4, <3>2, <3>3, <3>4 DEF AliveSlots
    <3>6. Accounted(links'[K], free[K], live[K] + 1)
      BY <1>1, <2>2, <3>4, <3>5, SlotAdded
    <3>7. /\ links' \in [Kind -> Seq(LinkType)]
          /\ \A J \in Kind : J # K => links'[J] = links[J]
      BY <3>1, <3>4
    <3> QED
      BY <1>1, <1>5, <3>1, <3>2, <3>3, <3>4, <3>6, <3>7
  <2> QED
    BY <2>1, <2>2
<1>7. nodes' = WithIn(w, m, K, Append(w[m].in[K], x))
  <2>1. LET u == [nodes EXCEPT ![n].out[K] = Append(@, NextLinkID(K))]
        IN  nodes' = [u EXCEPT ![m].in[K] = Append(@, NextLinkID(K))]
    BY DEF CreateLink
  <2>2. w = [nodes EXCEPT ![n].out[K] = Append(@, NextLinkID(K))]
    BY DEF WithOut
  <2> HIDE DEF w
  <2>3. nodes' = [w EXCEPT ![m].in[K] = Append(@, NextLinkID(K))]
    BY <2>1, <2>2
  <2> QED
    BY <2>3 DEF WithIn
<1> HIDE DEF x, r, v
<1>8. nodes[n] \in NodeType /\ nodes[m] \in NodeType
  BY <1>2
<1>9. nodes[n].out[K] \in Seq(Nat) /\ nodes[m].in[K] \in Seq(Nat)
  BY <1>8 DEF NodeType
<1>10. OutReplaced(nodes, w, n, K, o)
  BY <1>2, <1>6, <1>9, SetOut, AppendFacts
<1>11. InReplaced(w, nodes', m, K, i)
  <2>1. w[m].in[K] = nodes[m].in[K] /\ m \in DOMAIN w /\ w \in Seq(NodeType)
    BY <1>2, <1>10 DEF OutReplaced
  <2>2. i \in Seq(Nat) /\ nodes' = WithIn(w, m, K, i)
    BY <1>6, <1>7, <1>9, <2>1, AppendFacts
  <2> HIDE DEF w, i
  <2> QED
    BY <2>1, <2>2, SetIn
<1> HIDE DEF w
<1>12. /\ nodes' \in Seq(NodeType) /\ DOMAIN nodes' = DOMAIN nodes
       /\ AliveSlots(nodes') = AliveSlots(nodes)
       /\ \A a \in DOMAIN nodes, J \in Kind :
            /\ nodes'[a].out[J] = IF a = n /\ J = K THEN o ELSE nodes[a].out[J]
            /\ nodes'[a].in[J] = IF a = m /\ J = K THEN i ELSE nodes[a].in[J]
  <2> HIDE DEF o, i
  <2>1. nodes' \in Seq(NodeType) /\ DOMAIN w = DOMAIN nodes /\ DOMAIN nodes' = DOMAIN nodes
    BY <1>10, <1>11 DEF OutReplaced, InReplaced
  <2>2. \A a \in DOMAIN nodes : nodes'[a].alive = nodes[a].alive
    BY <1>10, <1>11, <2>1 DEF OutReplaced, InReplaced
  <2>3. ASSUME NEW a \in DOMAIN nodes, NEW J \in Kind
        PROVE  /\ nodes'[a].out[J] = IF a = n /\ J = K THEN o ELSE nodes[a].out[J]
               /\ nodes'[a].in[J] = IF a = m /\ J = K THEN i ELSE nodes[a].in[J]
    <3>1. /\ w[a].in = nodes[a].in
          /\ w[a].out[J] = IF a = n /\ J = K THEN o ELSE nodes[a].out[J]
      BY <1>10 DEF OutReplaced
    <3>2. /\ nodes'[a].out = w[a].out
          /\ nodes'[a].in[J] = IF a = m /\ J = K THEN i ELSE w[a].in[J]
      BY <1>11, <2>1 DEF InReplaced
    <3> QED
      BY <3>1, <3>2
  <2>4. AliveSlots(nodes') = AliveSlots(nodes)
    BY <2>1, <2>2 DEF AliveSlots
  <2> QED
    BY <2>1, <2>3, <2>4
<1>13. AliveSlots(links'[K]) = AliveSlots(v) \cup {x}
  BY <1>4, <1>6 DEF AliveSlots
<1>14. ASSUME NEW a \in DOMAIN nodes', NEW J \in Kind
       PROVE  /\ IsInjective(nodes'[a].out[J]) /\ IsInjective(nodes'[a].in[J])
              /\ ToSet(nodes'[a].out[J]) = {e \in AliveSlots(links'[J]) : links'[J][e].source = a}
              /\ ToSet(nodes'[a].in[J]) = {e \in AliveSlots(links'[J]) : links'[J][e].target = a}
  <2>1. a \in DOMAIN nodes /\ nodes[a] \in NodeType
    BY <1>12
  <2>2. nodes[a].out[J] \in Seq(Nat) /\ nodes[a].in[J] \in Seq(Nat)
    BY <2>1 DEF NodeType
  <2>3. CASE J # K
    BY <1>6, <1>12, <2>1, <2>3
  <2>4. CASE J = K
    <3>1. /\ IsInjective(nodes[a].out[K]) /\ IsInjective(nodes[a].in[K])
          /\ ToSet(nodes[a].out[K]) = {e \in AliveSlots(v) : v[e].source = a}
          /\ ToSet(nodes[a].in[K]) = {e \in AliveSlots(v) : v[e].target = a}
      BY <2>1 DEF v
    <3>2. \A e \in AliveSlots(links'[K]) : links'[K][e] = IF e = x THEN r ELSE v[e]
      BY <1>6 DEF AliveSlots
    <3>3. {e \in AliveSlots(links'[K]) : links'[K][e].source = a}
            = {e \in AliveSlots(v) : v[e].source = a} \cup (IF a = n THEN {x} ELSE {})
      BY <1>4, <1>6, <1>13, <3>2
    <3>4. {e \in AliveSlots(links'[K]) : links'[K][e].target = a}
            = {e \in AliveSlots(v) : v[e].target = a} \cup (IF a = m THEN {x} ELSE {})
      BY <1>4, <1>6, <1>13, <3>2
    <3>5. IsInjective(nodes'[a].out[K]) /\ ToSet(nodes'[a].out[K]) = ToSet(nodes[a].out[K]) \cup (IF a = n THEN {x} ELSE {})
      <4>1. CASE a = n
        <5>1. x \notin ToSet(nodes[n].out[K]) /\ x \in Nat
          BY <1>6, <3>1, <4>1
        <5>2. nodes'[a].out[K] = Append(nodes[n].out[K], x) /\ IsInjective(nodes[n].out[K])
          BY <1>12, <2>1, <3>1, <4>1
        <5> QED
          BY <1>9, <4>1, <5>1, <5>2, AppendFacts
      <4>2. CASE a # n
        BY <1>12, <2>1, <3>1, <4>2
      <4> QED
        BY <4>1, <4>2
    <3>6. IsInjective(nodes'[a].in[K]) /\ ToSet(nodes'[a].in[K]) = ToSet(nodes[a].in[K]) \cup (IF a = m THEN {x} ELSE {})
      <4>1. CASE a = m
        <5>1. x \notin ToSet(nodes[m].in[K]) /\ x \in Nat
          BY <1>6, <3>1, <4>1
        <5>2. nodes'[a].in[K] = Append(nodes[m].in[K], x) /\ IsInjective(nodes[m].in[K])
          BY <1>12, <2>1, <3>1, <4>1
        <5> QED
          BY <1>9, <4>1, <5>1, <5>2, AppendFacts
      <4>2. CASE a # m
        BY <1>12, <2>1, <3>1, <4>2
      <4> QED
        BY <4>1, <4>2
    <3> QED
      BY <2>4, <3>1, <3>3, <3>4, <3>5, <3>6
  <2> QED
    BY <2>3, <2>4
<1>15. ASSUME NEW J \in Kind, NEW e \in AliveSlots(links'[J])
       PROVE  {links'[J][e].source, links'[J][e].target} \subseteq AliveSlots(nodes')
  <2>1. CASE J = K /\ e = x
    <3>1. links'[J][e] = r
      BY <1>6, <2>1 DEF AliveSlots
    <3> QED
      BY <1>2, <1>4, <1>12, <3>1
  <2>2. CASE ~(J = K /\ e = x)
    <3>1. links'[J][e] = links[J][e] /\ e \in AliveSlots(links[J])
      BY <1>6, <1>13, <2>2 DEF AliveSlots, v
    <3> QED
      BY <1>12, <3>1
  <2> QED
    BY <2>1, <2>2
<1>16. live' \in [Store -> Nat] /\ \A S \in Store : S # K => live'[S] = live[S]
  BY <1>1, <1>5
<1>17. "node" \in Store /\ "node" # K /\ Kind \subseteq Store
  BY DEF Kind, Store
<1>18. Accounted(nodes', free'["node"], live'["node"])
  BY <1>6, <1>12, <1>16, <1>17 DEF Accounted
<1>19. ASSUME NEW J \in Kind PROVE Accounted(links'[J], free'[J], live'[J])
  BY <1>6, <1>16, <1>17
<1>20. Sound(Storage)'
  BY <1>6, <1>12, <1>14, <1>15, <1>16, <1>18, <1>19, SoundFromParts
<1>21. ASSUME NEW e \in AliveSlots(links'["edge"])
       PROVE  links'["edge"][e].mask = Len(clocks')
  <2>0. "edge" \in Kind
    BY DEF Kind
  <2>1. CASE K = "edge" /\ e = x
    BY <1>3, <1>4, <1>6, <2>1 DEF AliveSlots
  <2>2. CASE ~(K = "edge" /\ e = x)
    <3>1. links'["edge"][e] = links["edge"][e] /\ e \in AliveSlots(links["edge"])
      BY <1>6, <1>13, <2>0, <2>2, ZenonT(30) DEF AliveSlots, v
    <3> QED
      BY <1>3, <3>1 DEF Inv, MasksSized
  <2> QED
    BY <2>1, <2>2
<1>22. LinksKept
  <2> SUFFICES ASSUME NEW J \in Kind, NEW e \in AliveSlots(links[J])
               PROVE  e \in AliveSlots(links'[J]) /\ links'[J][e] = links[J][e]
    BY DEF LinksKept
  <2> QED
    BY <1>6, <1>13 DEF AliveSlots, v
<1> QED
  BY <1>3, <1>20, <1>21, <1>22 DEF Inv, MasksSized

(* removeEdge() and removeCaptureEdge(). *)
LEMMA DestroyLinkInv ==
  ASSUME Inv, NEW K \in Kind, NEW e, DestroyLink(K, e)
  PROVE  Inv' /\ LinksKept
<1> DEFINE g == Storage
           h == RemoveLink(K, g, e)
<1>1. g.nodes = nodes /\ g.links = links /\ "edge" \in Kind
  BY DEF Storage, Kind
<1>2. StorageBecomes(h) /\ e \in DOMAIN links[K] /\ clocks' = clocks
  BY DEF DestroyLink
<1>3. Sound(g)
  BY DEF Inv
<1> HIDE DEF g
<1>4. Sound(h) /\ Cut(K, g, h, {e})
  BY <1>1, <1>2, <1>3, RemoveLinkSound
<1> HIDE DEF h
<1>5. Sound(Storage)'
  BY <1>2, <1>4, SoundBecomes
<1>6. links' = h.links
  BY <1>2 DEF StorageBecomes
<1>7. ASSUME NEW J \in Kind
      PROVE  /\ AliveSlots(links'[J]) = AliveSlots(links[J]) \ (IF J = K THEN {e} ELSE {})
             /\ \A x \in AliveSlots(links[J]) :
                  /\ links'[J][x].source = links[J][x].source
                  /\ links'[J][x].target = links[J][x].target
                  /\ x \in AliveSlots(links'[J]) => links'[J][x].mask = links[J][x].mask
  <2>1. \A x \in AliveSlots(links[J]) : x \in DOMAIN links[J]
    BY DEF AliveSlots
  <2> QED
    BY <1>1, <1>4, <1>6, <2>1 DEF Cut
<1>8. MasksSized'
  <2> SUFFICES ASSUME NEW x \in AliveSlots(links'["edge"])
               PROVE  links'["edge"][x].mask = Len(clocks')
    BY DEF MasksSized
  <2>1. x \in AliveSlots(links["edge"])
    BY <1>1, <1>7
  <2>2. links["edge"][x].mask = Len(clocks)
    BY <2>1 DEF Inv, MasksSized
  <2> QED
    BY <1>1, <1>2, <1>7, <2>1, <2>2
<1>9. LinksKept
  <2> SUFFICES ASSUME NEW J \in Kind, NEW x \in AliveSlots(links[J])
               PROVE  IF x \in AliveSlots(links'[J])
                        THEN links'[J][x].source = links[J][x].source /\ links'[J][x].target = links[J][x].target
                        ELSE DestroyLink(J, x)
    BY DEF LinksKept
  <2> QED
    BY <1>7
<1> QED
  BY <1>2, <1>5, <1>8, <1>9 DEF Inv

(* removeNode(). *)
LEMMA RemoveNodeInv ==
  ASSUME Inv, NEW n, RemoveNode(n)
  PROVE  Inv' /\ LinksKept
<1> DEFINE g == Unlinked(n)
           N == [g.nodes EXCEPT ![n] = DeadNode]
           F == [g.free EXCEPT !["node"] = Append(g.free["node"], n)]
           L == [g.live EXCEPT !["node"] = g.live["node"] - 1]
           h == [nodes |-> N, links |-> g.links, free |-> F, live |-> L]
<1>1. n \in DOMAIN nodes /\ n \in AliveSlots(nodes) /\ clocks' = clocks
  BY DEF RemoveNode, isNodeValid, AliveSlots
<1>2. Sound(g) /\ Cleared(Storage, g, n)
  BY <1>1, UnlinkedSound DEF Inv
<1>3. StorageBecomes(h)
  BY DEF RemoveNode
<1>4. Storage.nodes = nodes /\ Storage.links = links
  BY DEF Storage
<1> HIDE DEF g
<1>5. /\ h.nodes = N /\ h.links = g.links /\ h.free = F /\ h.live = L
      /\ nodes' = N /\ links' = g.links
  BY <1>3 DEF StorageBecomes
<1>6. /\ g.nodes \in Seq(NodeType) /\ g.links \in [Kind -> Seq(LinkType)]
      /\ g.free \in [Store -> Seq(Nat)] /\ g.live \in [Store -> Nat]
      /\ "node" \in Store /\ "node" \notin Kind /\ Kind \subseteq Store /\ "edge" \in Kind
  BY <1>2 DEF Sound, StorageType, Store, Kind
<1>7. /\ DOMAIN g.nodes = DOMAIN nodes /\ AliveSlots(g.nodes) = AliveSlots(nodes)
      /\ \A J \in Kind :
           /\ DOMAIN g.links[J] = DOMAIN links[J]
           /\ AliveSlots(g.links[J]) =
                {e \in AliveSlots(links[J]) : links[J][e].source # n /\ links[J][e].target # n}
           /\ \A e \in DOMAIN links[J] :
                /\ g.links[J][e].source = links[J][e].source
                /\ g.links[J][e].target = links[J][e].target
                /\ e \in AliveSlots(g.links[J]) => g.links[J][e].mask = links[J][e].mask
  BY <1>2, <1>4 DEF Cleared
<1>8. /\ N \in Seq(NodeType) /\ DOMAIN N = DOMAIN g.nodes
      /\ \A a \in DOMAIN g.nodes : N[a] = IF a = n THEN DeadNode ELSE g.nodes[a]
  BY <1>1, <1>6, <1>7, FreshNodeType
<1>9. AliveSlots(N) = AliveSlots(g.nodes) \ {n}
  BY <1>8, FreshNodeType DEF AliveSlots
<1>10. \A J \in Kind : \A e \in AliveSlots(g.links[J]) :
         g.links[J][e].source # n /\ g.links[J][e].target # n
  BY <1>7 DEF AliveSlots
<1> HIDE DEF N
<1>11. /\ Append(g.free["node"], n) \in Seq(Nat) /\ g.live["node"] - 1 \in Nat
       /\ Accounted(N, Append(g.free["node"], n), g.live["node"] - 1)
  <2>1. Accounted(g.nodes, g.free["node"], g.live["node"]) /\ g.free["node"] \in Seq(Nat)
    BY <1>2, <1>6 DEF Sound
  <2>2. g.nodes \in Seq(NodeType) /\ n \in AliveSlots(g.nodes)
    BY <1>1, <1>6, <1>7
  <2> QED
    BY <1>8, <1>9, <2>1, <2>2, SlotFreed
<1>12. F \in [Store -> Seq(Nat)] /\ L \in [Store -> Nat]
       /\ F["node"] = Append(g.free["node"], n) /\ L["node"] = g.live["node"] - 1
       /\ \A J \in Kind : F[J] = g.free[J] /\ L[J] = g.live[J]
  BY <1>6, <1>11
<1> HIDE DEF F, L
<1>13. h \in StorageType
  BY <1>6, <1>8, <1>12 DEF StorageType
<1> HIDE DEF h
<1>14. /\ Accounted(h.nodes, h.free["node"], h.live["node"])
       /\ \A J \in Kind : Accounted(h.links[J], h.free[J], h.live[J])
  BY <1>2, <1>5, <1>11, <1>12 DEF Sound
<1>15. ASSUME NEW a \in DOMAIN h.nodes, NEW K \in Kind
       PROVE  /\ IsInjective(h.nodes[a].out[K]) /\ IsInjective(h.nodes[a].in[K])
              /\ ToSet(h.nodes[a].out[K]) = {e \in AliveSlots(h.links[K]) : h.links[K][e].source = a}
              /\ ToSet(h.nodes[a].in[K]) = {e \in AliveSlots(h.links[K]) : h.links[K][e].target = a}
  <2>1. a \in DOMAIN g.nodes /\ h.nodes[a] = IF a = n THEN DeadNode ELSE g.nodes[a]
    BY <1>5, <1>8
  <2>2. CASE a = n
    BY <1>5, <1>10, <2>1, <2>2, FreshNodeType, EmptyList
  <2>3. CASE a # n
    BY <1>2, <1>5, <2>1, <2>3 DEF Sound, ListsExact
  <2> QED
    BY <2>2, <2>3
<1>16. ListsExact(h)
  BY <1>15 DEF ListsExact
<1>17. EndsAlive(h)
  BY <1>2, <1>5, <1>9, <1>10 DEF Sound, EndsAlive
<1>18. Sound(h)
  BY <1>13, <1>14, <1>16, <1>17 DEF Sound
<1>19. Sound(Storage)'
  BY <1>3, <1>18, SoundBecomes DEF h
<1>20. MasksSized'
  <2> SUFFICES ASSUME NEW x \in AliveSlots(links'["edge"])
               PROVE  links'["edge"][x].mask = Len(clocks')
    BY DEF MasksSized
  <2>1. x \in AliveSlots(links["edge"]) /\ x \in DOMAIN links["edge"]
    BY <1>5, <1>6, <1>7 DEF AliveSlots
  <2>2. links["edge"][x].mask = Len(clocks)
    BY <2>1 DEF Inv, MasksSized
  <2> QED
    BY <1>1, <1>5, <1>6, <1>7, <2>1, <2>2
<1>21. LinksKept
  <2> SUFFICES ASSUME NEW J \in Kind, NEW x \in AliveSlots(links[J])
               PROVE  IF x \in AliveSlots(links'[J])
                        THEN links'[J][x].source = links[J][x].source /\ links'[J][x].target = links[J][x].target
                        ELSE ~nodes'[links[J][x].source].alive \/ ~nodes'[links[J][x].target].alive
    BY DEF LinksKept
  <2>1. x \in DOMAIN links[J]
    BY DEF AliveSlots
  <2>2. ~nodes'[n].alive
    BY <1>1, <1>5, <1>7, <1>8, FreshNodeType
  <2> QED
    BY <1>5, <1>7, <2>1, <2>2
<1> QED
  BY <1>1, <1>19, <1>20, <1>21 DEF Inv

(* setCellKind(). *)
LEMMA SetCellKindInv ==
  ASSUME Inv, NEW n, NEW latch \in BOOLEAN, SetCellKind(n, latch)
  PROVE  Inv' /\ LinksKept
<1> USE InvFacts
<1> DEFINE r == [nodes[n] EXCEPT !.latch = latch]
<1>1. /\ n \in DOMAIN nodes /\ nodes' = [nodes EXCEPT ![n] = r]
      /\ links' = links /\ free' = free /\ live' = live /\ clocks' = clocks
  BY DEF SetCellKind, isNodeValid
<1>2. nodes[n] \in NodeType
  BY <1>1
<1>3. r \in NodeType /\ r.alive = nodes[n].alive /\ r.out = nodes[n].out /\ r.in = nodes[n].in
  BY <1>2 DEF NodeType
<1> HIDE DEF r
<1>4. /\ nodes' \in Seq(NodeType) /\ DOMAIN nodes' = DOMAIN nodes
      /\ \A a \in DOMAIN nodes : /\ nodes'[a].alive = nodes[a].alive
                                 /\ nodes'[a].out = nodes[a].out
                                 /\ nodes'[a].in = nodes[a].in
  BY <1>1, <1>3
<1>5. AliveSlots(nodes') = AliveSlots(nodes)
  BY <1>4 DEF AliveSlots
<1>6. Accounted(nodes', free'["node"], live'["node"])
  BY <1>1, <1>4, <1>5 DEF Accounted
<1>7. ASSUME NEW a \in DOMAIN nodes', NEW K \in Kind
      PROVE  /\ IsInjective(nodes'[a].out[K]) /\ IsInjective(nodes'[a].in[K])
             /\ ToSet(nodes'[a].out[K]) = {e \in AliveSlots(links'[K]) : links'[K][e].source = a}
             /\ ToSet(nodes'[a].in[K]) = {e \in AliveSlots(links'[K]) : links'[K][e].target = a}
  BY <1>1, <1>4
<1>8. \A K \in Kind : \A e \in AliveSlots(links'[K]) :
        {links'[K][e].source, links'[K][e].target} \subseteq AliveSlots(nodes')
  BY <1>1, <1>5
<1>9. \A K \in Kind : Accounted(links'[K], free'[K], live'[K])
  BY <1>1
<1>10. Sound(Storage)'
  BY <1>1, <1>4, <1>6, <1>7, <1>8, <1>9, SoundFromParts
<1> QED
  BY <1>1, <1>10 DEF Inv, MasksSized, LinksKept

(* createClock(). *)
LEMMA CreateClockInv ==
  ASSUME Inv, NEW n, CreateClock(n)
  PROVE  Inv' /\ LinksKept
<1> USE InvFacts
<1> DEFINE c == Len(clocks) + 1
           v == links["edge"]
           w == Resized(v)
<1>1. /\ n \in DOMAIN nodes /\ links' = [links EXCEPT !["edge"] = w]
      /\ nodes' = nodes /\ free' = free /\ live' = live /\ clocks' = Append(clocks, n)
  BY DEF CreateClock, isNodeValid
<1>2. /\ n \in Nat /\ clocks \in Seq(Nat) /\ c \in Nat /\ "edge" \in Kind
      /\ clocks' \in Seq(Nat) /\ Len(clocks') = c
  BY <1>1 DEF Inv, Kind
<1>3. v \in Seq(LinkType) /\ Len(v) \in Nat /\ DOMAIN v = 1 .. Len(v)
  BY <1>2
<1>4. \A e \in DOMAIN v : v[e] \in LinkType
  BY <1>3
<1>5. ASSUME NEW e \in DOMAIN v
      PROVE  /\ w[e] \in LinkType /\ w[e].alive = v[e].alive
             /\ w[e].source = v[e].source /\ w[e].target = v[e].target
             /\ v[e].alive => w[e].mask = c
  BY <1>2, <1>4 DEF Resized, LinkType
<1>6. DOMAIN w = DOMAIN v /\ w \in [DOMAIN v -> LinkType]
  BY <1>5 DEF Resized
<1> HIDE DEF w, c
<1>7. w \in Seq(LinkType)
  <2>1. w \in [1 .. Len(v) -> LinkType]
    BY <1>3, <1>6
  <2> HIDE DEF v
  <2> QED
    BY <1>3, <2>1, SMTT(30)
<1>8. AliveSlots(w) = AliveSlots(v)
  BY <1>5, <1>6 DEF AliveSlots
<1>9. /\ links' \in [Kind -> Seq(LinkType)]
      /\ links'["edge"] = w
      /\ \A J \in Kind : J # "edge" => links'[J] = links[J]
  BY <1>1, <1>2, <1>7
<1>10. ASSUME NEW J \in Kind
       PROVE  /\ DOMAIN links'[J] = DOMAIN links[J]
              /\ AliveSlots(links'[J]) = AliveSlots(links[J])
              /\ \A e \in AliveSlots(links[J]) :
                   /\ links'[J][e].source = links[J][e].source
                   /\ links'[J][e].target = links[J][e].target
  <2>1. \A e \in AliveSlots(v) : e \in DOMAIN v
    BY DEF AliveSlots
  <2> QED
    BY <1>5, <1>6, <1>8, <1>9, <2>1
<1>11. \A J \in Kind : Accounted(links'[J], free'[J], live'[J])
  BY <1>1, <1>10 DEF Accounted
<1>12. ASSUME NEW a \in DOMAIN nodes', NEW K \in Kind
       PROVE  /\ IsInjective(nodes'[a].out[K]) /\ IsInjective(nodes'[a].in[K])
              /\ ToSet(nodes'[a].out[K]) = {e \in AliveSlots(links'[K]) : links'[K][e].source = a}
              /\ ToSet(nodes'[a].in[K]) = {e \in AliveSlots(links'[K]) : links'[K][e].target = a}
  BY <1>1, <1>10
<1>13. \A K \in Kind : \A e \in AliveSlots(links'[K]) :
        {links'[K][e].source, links'[K][e].target} \subseteq AliveSlots(nodes')
  BY <1>1, <1>10
<1>14. Sound(Storage)'
  BY <1>1, <1>9, <1>11, <1>12, <1>13, SoundFromParts
<1>15. MasksSized'
  <2> SUFFICES ASSUME NEW e \in AliveSlots(links'["edge"])
               PROVE  links'["edge"][e].mask = Len(clocks')
    BY DEF MasksSized
  <2>1. e \in DOMAIN v /\ v[e].alive
    BY <1>8, <1>9 DEF AliveSlots
  <2> QED
    BY <1>2, <1>5, <1>9, <2>1
<1>16. LinksKept
  BY <1>10 DEF LinksKept
<1> QED
  BY <1>2, <1>14, <1>15, <1>16 DEF Inv

(* The empty graph. *)
LEMMA InitInv == Init => Inv
<1> SUFFICES ASSUME Init PROVE Inv
  OBVIOUS
<1>1. \A T : <<>> \in Seq(T) /\ AliveSlots(<<>>) = {} /\ DOMAIN <<>> = {}
  BY DEF AliveSlots
<1>2. Cardinality({}) = 0
  BY FS_EmptySet
<1>3. Accounted(<<>>, <<>>, 0)
  BY <1>1, <1>2, EmptyList DEF Accounted
<1>4. /\ Storage.nodes = <<>> /\ Storage.links = NoLinks
      /\ Storage.free = [S \in Store |-> <<>>] /\ Storage.live = [S \in Store |-> 0]
      /\ \A K \in Kind : NoLinks[K] = <<>> /\ K \in Store
      /\ "node" \in Store /\ clocks = <<>>
  BY DEF Init, Storage, NoLinks, Store
<1>5. Storage \in StorageType
  BY <1>1 DEF Init, Storage, StorageType, NoLinks
<1> HIDE DEF Storage
<1>6. Sound(Storage)
  BY <1>1, <1>3, <1>4, <1>5 DEF Sound, ListsExact, EndsAlive
<1>7. MasksSized
  <2>1. links["edge"] = <<>>
    BY <1>4 DEF Init, Kind
  <2> QED
    BY <1>1, <2>1 DEF MasksSized
<1> QED
  BY <1>1, <1>4, <1>6, <1>7 DEF Inv

(* Every step keeps the invariant and the handles of the links. *)
LEMMA NextInv == Inv /\ [Next]_vars => Inv' /\ (LinksKept \/ UNCHANGED vars)
<1> SUFFICES ASSUME Inv, [Next]_vars PROVE Inv' /\ (LinksKept \/ UNCHANGED vars)
  OBVIOUS
<1>1. CASE UNCHANGED vars
  BY <1>1 DEF vars, Inv, Sound, Storage, MasksSized
<1>2. CASE CreateNode
  BY <1>2, CreateNodeInv
<1>3. CASE \E n \in 1 .. MaxNodes : RemoveNode(n) \/ CreateClock(n)
  BY <1>3, RemoveNodeInv, CreateClockInv
<1>4. CASE \E n \in 1 .. MaxNodes, latch \in BOOLEAN : SetCellKind(n, latch)
  BY <1>4, SetCellKindInv
<1>5. CASE \E K \in Kind, n, m \in 1 .. MaxNodes : CreateLink(K, n, m)
  BY <1>5, CreateLinkInv
<1>6. CASE \E K \in Kind, e \in 1 .. MaxLinks : DestroyLink(K, e)
  BY <1>6, DestroyLinkInv
<1> QED
  BY <1>1, <1>2, <1>3, <1>4, <1>5, <1>6 DEF Next

(* The storage is sound in every reachable state. *)
LEMMA InvHolds == Spec => []Inv
BY InitInv, NextInv, PTL DEF Spec

(* What the invariant implies. *)
LEMMA InvImplies == Inv => SlotsAccounted /\ GraphSound /\ MasksSized
<1> SUFFICES ASSUME Inv PROVE SlotsAccounted /\ GraphSound /\ MasksSized
  OBVIOUS
<1> USE InvFacts
<1>1. SlotsAccounted
  <2> SUFFICES ASSUME NEW S \in Store PROVE Accounted(Slots(S), free[S], live[S])
    BY DEF SlotsAccounted, Accounted
  <2>1. CASE S = "node"
    BY <2>1 DEF Slots
  <2>2. CASE S \in Kind
    <3>1. S # "node"
      BY <2>2 DEF Kind
    <3> QED
      BY <2>2, <3>1 DEF Slots
  <2> QED
    BY <2>1, <2>2 DEF Store
<1>2. AdjacencyExact
  BY DEF AdjacencyExact
<1>3. LinksAnchored
  <2>1. \A n \in AliveSlots(nodes) : nodes[n].alive
    BY DEF AliveSlots
  <2> QED
    BY <2>1 DEF LinksAnchored
<1> QED
  BY <1>1, <1>2, <1>3 DEF GraphSound, Inv

(* For graphs of any size, every slot of the three vectors is alive or on  *)
(* its free list, once, and the live counters are exact: the create()      *)
(* functions never hand out an ID that is in use.                          *)
THEOREM SlotsAccountedHolds == Spec => []SlotsAccounted
BY InvHolds, InvImplies, PTL

(* For graphs of any size, the lists of the nodes and the ends of the      *)
(* links describe one graph over live nodes, whatever removeEdge() and     *)
(* removeNode() did before.                                                *)
THEOREM GraphSoundHolds == Spec => []GraphSound
BY InvHolds, InvImplies, PTL

(* All live edges carry masks of the size of the clock count.              *)
THEOREM MasksSizedHolds == Spec => []MasksSized
BY InvHolds, InvImplies, PTL

(* A link dies only by its own removal or with one of its ends, and keeps  *)
(* its ends while it lives.                                                *)
THEOREM LinksStableHolds == Spec => LinksStable
<1>1. Inv /\ [Next]_vars => [LinksKept]_vars
  BY NextInv
<1>2. Spec => [][LinksKept]_vars
  BY <1>1, InvHolds, PTL DEF Spec
<1> QED
  BY <1>2 DEF LinksStable, LinksKept
=============================================================================

-------------------------- MODULE SNLInterfaceProofs --------------------------
(***************************************************************************)
(* Proofs about SNLInterface, for any number of designs, terminals and     *)
(* instances, of clients that have no bad habit.                           *)
(*                                                                         *)
(* The lemmas are about one design, T = terms[d], and the vector v of one  *)
(* instance of it.                                                         *)
(***************************************************************************)
EXTENDS SNLInterface, Integers, SequencesExt, TLAPS, WellFoundedInduction, FiniteSetTheorems, FunctionTheorems

-----------------------------------------------------------------------------
(* Natural numbers. *)

(* Every nonempty set of naturals has a least element. *)
LEMMA LeastNat == \A T \in SUBSET Nat : T # {} => \E n \in T : \A m \in T : n <= m
<1> SUFFICES ASSUME NEW T \in SUBSET Nat, T # {}
             PROVE  \E n \in T : \A m \in T : n <= m
  OBVIOUS
<1> DEFINE R == OpToRel(<, Nat)
<1>1. IsWellFoundedOn(R, Nat)
  BY NatLessThanWellFounded
<1>2. \A m, n \in Nat : m < n => <<m, n>> \in R
  BY DEF OpToRel
<1> HIDE DEF R
<1>3. PICK n \in T : \A m \in T : ~(<<m, n>> \in R)
  BY <1>1, WFMin
<1>4. \A m \in T : ~(m < n)
  BY <1>2, <1>3
<1>5. \A m \in T : n <= m
  BY <1>4
<1> QED
  BY <1>5

-----------------------------------------------------------------------------
Live(T) == {k \in TermID : T[k] # NoTerm}

End(t) == t.flat + Width(t)

(* Terminals lie one behind the other in the order of their IDs. *)
Sound(T) ==
  /\ T \in [TermID -> Term \cup {NoTerm}]
  /\ \A k \in Live(T) : T[k].bits \subseteq Span(T[k].msb, T[k].lsb)
  /\ \A j, k \in Live(T) : j < k => End(T[j]) <= T[k].flat

SlotIn(T, k, b) == T[k].flat + Distance(b, T[k].msb) + 1

(* Entry t of slot n is the terminal of a bit that has this slot. *)
InPlace(T, d, n, t) ==
  /\ t \in InstTerm
  /\ \E k \in Live(T) : \E b \in T[k].bits : SlotIn(T, k, b) = n /\ t.bit = <<d, k, b>>

(* Vector v belongs to an instance of design d: it covers the terminals,   *)
(* an entry is in place, and no bit is without one.                        *)
Fits(v, d, T) ==
  /\ v \in Seq(InstTerm \cup {NoInstTerm})
  /\ \A k \in Live(T) : End(T[k]) <= Len(v)
  /\ \A n \in DOMAIN v : v[n] # NoInstTerm => InPlace(T, d, n, v[n])
  /\ \A k \in Live(T) : \A b \in T[k].bits : v[SlotIn(T, k, b)] # NoInstTerm

(* Bits that both T and U have are wired in w as they are in v. *)
SameWires(v, T, w, U) ==
  \A k \in Live(T) \cap Live(U) : \A b \in T[k].bits \cap U[k].bits :
    w[SlotIn(U, k, b)].wired = v[SlotIn(T, k, b)].wired

-----------------------------------------------------------------------------
(* Slots. *)

(* The types of a terminal that exists. *)
LEMMA LiveType ==
  ASSUME NEW T, Sound(T), NEW k \in Live(T)
  PROVE  /\ k \in TermID /\ k \in Int /\ T[k] \in Term /\ T[k] # NoTerm
         /\ T[k].flat \in Nat /\ T[k].msb \in Int /\ T[k].lsb \in Int /\ T[k].bits \subseteq Int
         /\ Width(T[k]) \in Nat /\ Width(T[k]) >= 1 /\ End(T[k]) \in Nat
<1>1. k \in TermID /\ k \in Int /\ T[k] \in Term /\ T[k] # NoTerm
  BY InterfaceAssumption DEF Live, Sound, TermID
<1>2. T[k].flat \in Nat /\ T[k].msb \in Int /\ T[k].lsb \in Int /\ T[k].bits \subseteq Int
  BY <1>1 DEF Term
<1> QED
  BY <1>1, <1>2 DEF Width, Distance, End

(* Positions in a range. *)
LEMMA Positions ==
  ASSUME NEW m \in Int, NEW l \in Int
  PROVE  /\ Span(m, l) \subseteq Int
         /\ \A b \in Span(m, l) : Distance(b, m) \in 0 .. Distance(m, l)
         /\ \A a, b \in Span(m, l) : Distance(a, m) = Distance(b, m) => a = b
         /\ \A n \in 0 .. Distance(m, l) : \E b \in Span(m, l) : Distance(b, m) = n
<1>1. Span(m, l) \subseteq Int /\ Distance(m, l) \in Nat
  BY DEF Span, Distance
<1>2. \A b \in Span(m, l) : Distance(b, m) \in 0 .. Distance(m, l)
  BY DEF Span, Distance
<1>3. \A a, b \in Span(m, l) : Distance(a, m) = Distance(b, m) => a = b
  BY DEF Span, Distance
<1>4. ASSUME NEW n \in 0 .. Distance(m, l)
      PROVE  \E b \in Span(m, l) : Distance(b, m) = n
  <2>1. CASE m > l
    <3>1. m - n \in Span(m, l) /\ Distance(m - n, m) = n
      BY <1>1, <2>1 DEF Span, Distance
    <3> QED
      BY <3>1
  <2>2. CASE ~(m > l)
    <3>1. m + n \in Span(m, l) /\ Distance(m + n, m) = n
      BY <1>1, <2>2 DEF Span, Distance
    <3> QED
      BY <3>1
  <2> QED
    BY <2>1, <2>2
<1> QED
  BY <1>1, <1>2, <1>3, <1>4

(* The slot of a bit lies in the part of its terminal. *)
LEMMA SlotInTerm ==
  ASSUME NEW T, Sound(T), NEW k \in Live(T), NEW b \in Span(T[k].msb, T[k].lsb)
  PROVE  /\ b \in Int /\ SlotIn(T, k, b) \in Nat
         /\ T[k].flat < SlotIn(T, k, b) /\ SlotIn(T, k, b) <= End(T[k])
<1>1. /\ T[k].flat \in Nat /\ T[k].msb \in Int /\ T[k].lsb \in Int
      /\ End(T[k]) = T[k].flat + Distance(T[k].msb, T[k].lsb) + 1
  BY LiveType DEF End, Width, Distance
<1>2. b \in Int /\ Distance(b, T[k].msb) \in 0 .. Distance(T[k].msb, T[k].lsb)
  BY <1>1, Positions
<1>3. Distance(T[k].msb, T[k].lsb) \in Nat
  BY <1>1 DEF Distance
<1> QED
  BY <1>1, <1>2, <1>3 DEF SlotIn

(* No two bits share a slot, and slots are ordered like the bits. *)
LEMMA SlotsOrdered ==
  ASSUME NEW T, Sound(T), NEW j \in Live(T), NEW a \in Span(T[j].msb, T[j].lsb),
         NEW k \in Live(T), NEW b \in Span(T[k].msb, T[k].lsb)
  PROVE  /\ SlotIn(T, j, a) = SlotIn(T, k, b) => j = k /\ a = b
         /\ SlotIn(T, j, a) < SlotIn(T, k, b) <=>
              (j < k \/ (j = k /\ Distance(a, T[j].msb) < Distance(b, T[k].msb)))
<1>1. /\ SlotIn(T, j, a) \in Nat /\ T[j].flat < SlotIn(T, j, a) /\ SlotIn(T, j, a) <= End(T[j])
      /\ SlotIn(T, k, b) \in Nat /\ T[k].flat < SlotIn(T, k, b) /\ SlotIn(T, k, b) <= End(T[k])
  BY SlotInTerm
<1>2. /\ j \in Int /\ T[j].flat \in Nat /\ End(T[j]) \in Nat
      /\ k \in Int /\ T[k].flat \in Nat /\ End(T[k]) \in Nat
  BY LiveType
<1>3. CASE j < k
  <2>1. End(T[j]) <= T[k].flat
    BY <1>3 DEF Sound
  <2>2. SlotIn(T, j, a) < SlotIn(T, k, b)
    BY <1>1, <1>2, <2>1
  <2> QED
    BY <1>1, <1>2, <1>3, <2>2
<1>4. CASE k < j
  <2>1. End(T[k]) <= T[j].flat
    BY <1>4 DEF Sound
  <2>2. SlotIn(T, k, b) < SlotIn(T, j, a)
    BY <1>1, <1>2, <2>1
  <2> QED
    BY <1>1, <1>2, <1>4, <2>2
<1>5. CASE j = k
  <2>1. T[k].msb \in Int /\ T[k].lsb \in Int
    BY LiveType
  <2>2. Distance(a, T[k].msb) = Distance(b, T[k].msb) => a = b
    BY <1>5, <2>1, Positions
  <2>3. Distance(a, T[k].msb) \in Int /\ Distance(b, T[k].msb) \in Int
    BY <1>5, <2>1, SlotInTerm DEF Distance
  <2> QED
    BY <1>2, <1>5, <2>2, <2>3 DEF SlotIn
<1> QED
  BY <1>2, <1>3, <1>4, <1>5

(* In a vector that fits, the slot of a bit holds the terminal of the bit. *)
LEMMA FitsLookup ==
  ASSUME NEW v, NEW d, NEW T, Sound(T), Fits(v, d, T), NEW k \in Live(T), NEW b \in T[k].bits
  PROVE  /\ SlotIn(T, k, b) \in DOMAIN v
         /\ v[SlotIn(T, k, b)] # NoInstTerm
         /\ v[SlotIn(T, k, b)] \in InstTerm
         /\ v[SlotIn(T, k, b)].bit = <<d, k, b>>
<1>1. b \in Span(T[k].msb, T[k].lsb)
  BY DEF Sound
<1> DEFINE n == SlotIn(T, k, b)
<1>2. n \in Nat /\ 0 < n /\ n <= End(T[k])
  BY <1>1, SlotInTerm, LiveType
<1>3. End(T[k]) <= Len(v) /\ v \in Seq(InstTerm \cup {NoInstTerm})
  BY DEF Fits
<1>4. n \in DOMAIN v /\ v[n] # NoInstTerm
  <2>1. End(T[k]) \in Nat
    BY LiveType
  <2>2. n \in 1 .. Len(v)
    BY <1>2, <1>3, <2>1
  <2> QED
    BY <1>3, <2>2 DEF Fits
<1>5. InPlace(T, d, n, v[n])
  BY <1>4 DEF Fits
<1>6. PICK j \in Live(T) : \E a \in T[j].bits : SlotIn(T, j, a) = n /\ v[n].bit = <<d, j, a>>
  BY <1>5 DEF InPlace
<1>7. PICK a \in T[j].bits : SlotIn(T, j, a) = n /\ v[n].bit = <<d, j, a>>
  BY <1>6
<1>8. a \in Span(T[j].msb, T[j].lsb)
  BY DEF Sound
<1>9. j = k /\ a = b
  BY <1>1, <1>7, <1>8, SlotsOrdered
<1> QED
  BY <1>4, <1>5, <1>7, <1>9 DEF InPlace

-----------------------------------------------------------------------------
(* Removing bits, and whole terminals. *)

(* From T to U terminal k loses the bits of B, or goes altogether. *)
Shrinks(T, U, k, B) ==
  /\ k \in Live(T)
  /\ B \subseteq Span(T[k].msb, T[k].lsb)
  /\ U \in [TermID -> Term \cup {NoTerm}]
  /\ \A j \in TermID \ {k} : U[j] = T[j]
  /\ \/ U[k] = NoTerm /\ T[k].bits \subseteq B
     \/ /\ U[k] # NoTerm
        /\ U[k].flat = T[k].flat /\ U[k].msb = T[k].msb
        /\ Width(U[k]) <= Width(T[k])
        /\ U[k].bits = T[k].bits \ B
        /\ U[k].bits \subseteq Span(U[k].msb, U[k].lsb)

Cleared(v, T, k, B) ==
  [n \in DOMAIN v |-> IF \E b \in B : SlotIn(T, k, b) = n THEN NoInstTerm ELSE v[n]]

(* What U has, T had in the same place. *)
LEMMA ShrinkLive ==
  ASSUME NEW T, Sound(T), NEW U, NEW k, NEW B, Shrinks(T, U, k, B), NEW j \in Live(U)
  PROVE  /\ j \in Live(T) /\ U[j].flat = T[j].flat /\ U[j].msb = T[j].msb
         /\ Width(U[j]) <= Width(T[j]) /\ End(U[j]) <= End(T[j])
         /\ U[j].bits \subseteq T[j].bits
         /\ U[j].bits \subseteq Span(U[j].msb, U[j].lsb)
         /\ \A b : SlotIn(U, j, b) = SlotIn(T, j, b)
         /\ j # k => U[j] = T[j]
         /\ j = k => U[j].bits = T[j].bits \ B
<1>1. k \in Live(T) /\ U \in [TermID -> Term \cup {NoTerm}] /\ j \in TermID /\ U[j] # NoTerm
  BY DEF Shrinks, Live
<1>2. CASE j = k
  <2>1. /\ U[j].flat = T[j].flat /\ U[j].msb = T[j].msb /\ Width(U[j]) <= Width(T[j])
        /\ U[j].bits = T[j].bits \ B /\ U[j].bits \subseteq Span(U[j].msb, U[j].lsb)
    BY <1>1, <1>2 DEF Shrinks
  <2>2. U[j] \in Term
    BY <1>1
  <2>3. U[j].flat \in Nat /\ Width(U[j]) \in Nat
    BY <2>2 DEF Term, Width, Distance
  <2>4. Width(T[j]) \in Nat
    BY <1>1, <1>2, LiveType
  <2>5. End(U[j]) <= End(T[j])
    BY <2>1, <2>3, <2>4 DEF End
  <2> QED
    BY <1>1, <1>2, <2>1, <2>5 DEF SlotIn
<1>3. CASE j # k
  <2>1. U[j] = T[j]
    BY <1>1, <1>3 DEF Shrinks
  <2>2. j \in Live(T)
    BY <1>1, <2>1 DEF Live
  <2>3. Width(T[j]) \in Nat /\ End(T[j]) \in Nat
    BY <2>2, LiveType
  <2> QED
    BY <1>3, <2>1, <2>2, <2>3 DEF Sound, SlotIn
<1> QED
  BY <1>2, <1>3

(* Removing bits, or a whole terminal, keeps the terminals in order. *)
LEMMA ShrinkSound ==
  ASSUME NEW T, Sound(T), NEW U, NEW k, NEW B, Shrinks(T, U, k, B)
  PROVE  Sound(U)
<1>1. U \in [TermID -> Term \cup {NoTerm}]
  BY DEF Shrinks
<1>2. \A j \in Live(U) : U[j].bits \subseteq Span(U[j].msb, U[j].lsb)
  BY ShrinkLive
<1>3. ASSUME NEW i \in Live(U), NEW j \in Live(U), i < j PROVE End(U[i]) <= U[j].flat
  <2>1. i \in Live(T) /\ j \in Live(T) /\ End(U[i]) <= End(T[i]) /\ U[j].flat = T[j].flat
    BY ShrinkLive
  <2>2. End(T[i]) <= T[j].flat
    BY <1>3, <2>1 DEF Sound
  <2>3. End(T[i]) \in Nat /\ T[j].flat \in Nat
    BY <2>1, LiveType
  <2>4. U[i] \in Term
    BY <1>1 DEF Live
  <2>5. End(U[i]) \in Nat
    BY <2>4 DEF Term, End, Width, Distance
  <2> QED
    BY <2>1, <2>2, <2>3, <2>5
<1> QED
  BY <1>1, <1>2, <1>3 DEF Sound

(* A vector whose slots of the removed bits are cleared still fits. *)
LEMMA ShrinkFits ==
  ASSUME NEW T, Sound(T), NEW U, NEW k, NEW B, Shrinks(T, U, k, B), NEW v, NEW d, Fits(v, d, T)
  PROVE  Fits(Cleared(v, T, k, B), d, U) /\ SameWires(v, T, Cleared(v, T, k, B), U)
<1> DEFINE w == Cleared(v, T, k, B)
<1>1. v \in Seq(InstTerm \cup {NoInstTerm})
  BY DEF Fits
<1>2. w \in Seq(InstTerm \cup {NoInstTerm}) /\ Len(w) = Len(v) /\ DOMAIN w = DOMAIN v
  BY <1>1 DEF Cleared
<1>3. ASSUME NEW n \in DOMAIN v
      PROVE  /\ (\E b \in B : SlotIn(T, k, b) = n) => w[n] = NoInstTerm
             /\ ~(\E b \in B : SlotIn(T, k, b) = n) => w[n] = v[n]
  BY DEF Cleared
<1> HIDE DEF w
<1>4. \A j \in Live(U) : End(U[j]) <= Len(w)
  <2> SUFFICES ASSUME NEW j \in Live(U) PROVE End(U[j]) <= Len(w)
    OBVIOUS
  <2>1. j \in Live(T) /\ End(U[j]) <= End(T[j])
    BY ShrinkLive
  <2>2. End(T[j]) <= Len(v)
    BY <2>1 DEF Fits
  <2>3. End(T[j]) \in Nat /\ Len(v) \in Nat
    BY <1>1, <2>1, LiveType
  <2>4. U[j] \in Term
    BY DEF Live, Shrinks
  <2>5. End(U[j]) \in Nat
    BY <2>4 DEF Term, End, Width, Distance
  <2> QED
    BY <1>2, <2>1, <2>2, <2>3, <2>5
<1>5. ASSUME NEW n \in DOMAIN w, w[n] # NoInstTerm PROVE InPlace(U, d, n, w[n])
  <2>1. n \in DOMAIN v /\ w[n] = v[n] /\ v[n] # NoInstTerm /\ ~\E b \in B : SlotIn(T, k, b) = n
    BY <1>2, <1>3, <1>5
  <2>2. InPlace(T, d, n, v[n])
    BY <2>1 DEF Fits
  <2>3. PICK j \in Live(T) : \E b \in T[j].bits : SlotIn(T, j, b) = n /\ v[n].bit = <<d, j, b>>
    BY <2>2 DEF InPlace
  <2>4. PICK b \in T[j].bits : SlotIn(T, j, b) = n /\ v[n].bit = <<d, j, b>>
    BY <2>3
  <2>5. ~(j = k /\ b \in B)
    BY <2>1, <2>4
  <2>6. j \in Live(U) /\ b \in U[j].bits
    <3>1. CASE j = k
      BY <2>5, <3>1 DEF Shrinks, Live
    <3>2. CASE j # k
      BY <3>2 DEF Shrinks, Live
    <3> QED
      BY <3>1, <3>2
  <2>7. SlotIn(U, j, b) = n
    BY <2>4, <2>6, ShrinkLive
  <2> QED
    BY <2>1, <2>2, <2>4, <2>6, <2>7 DEF InPlace
<1>6. ASSUME NEW j \in Live(U), NEW b \in U[j].bits
      PROVE  /\ SlotIn(U, j, b) = SlotIn(T, j, b) /\ j \in Live(T) /\ b \in T[j].bits
             /\ w[SlotIn(U, j, b)] = v[SlotIn(T, j, b)]
  <2>1. /\ j \in Live(T) /\ b \in T[j].bits /\ SlotIn(U, j, b) = SlotIn(T, j, b)
        /\ ~(j = k /\ b \in B)
    BY ShrinkLive
  <2>2. SlotIn(T, j, b) \in DOMAIN v
    BY <2>1, FitsLookup
  <2>3. ~\E a \in B : SlotIn(T, k, a) = SlotIn(T, j, b)
    <3> SUFFICES ASSUME NEW a \in B, SlotIn(T, k, a) = SlotIn(T, j, b) PROVE FALSE
      OBVIOUS
    <3>1. k \in Live(T) /\ a \in Span(T[k].msb, T[k].lsb)
      BY DEF Shrinks
    <3>2. b \in Span(T[j].msb, T[j].lsb)
      BY <2>1 DEF Sound
    <3>3. k = j /\ a = b
      BY <2>1, <3>1, <3>2, SlotsOrdered
    <3> QED
      BY <2>1, <3>3
  <2> QED
    BY <1>3, <2>1, <2>2, <2>3
<1>7. \A j \in Live(U) : \A b \in U[j].bits : w[SlotIn(U, j, b)] # NoInstTerm
  BY <1>6, FitsLookup
<1>8. Fits(w, d, U)
  BY <1>2, <1>4, <1>5, <1>7 DEF Fits
<1>9. SameWires(v, T, w, U)
  BY <1>6 DEF SameWires
<1> QED
  BY <1>8, <1>9 DEF w

-----------------------------------------------------------------------------
(* setMSB(). *)

(* From T to U the range of terminal k begins at m. *)
Moves(T, U, k, m) ==
  /\ k \in Live(T)
  /\ m \in Span(T[k].msb, T[k].lsb)
  /\ T[k].bits \subseteq Span(m, T[k].lsb)
  /\ U \in [TermID -> Term \cup {NoTerm}]
  /\ \A j \in TermID \ {k} : U[j] = T[j]
  /\ U[k] # NoTerm
  /\ U[k].flat = T[k].flat /\ U[k].msb = m /\ U[k].lsb = T[k].lsb /\ U[k].bits = T[k].bits

ShiftedIn(v, t, count) ==
  [n \in DOMAIN v |->
     CASE n \in t.flat + 1 .. t.flat + Width(t) - count                -> v[n + count]
       [] n \in t.flat + Width(t) - count + 1 .. t.flat + Width(t) -> NoInstTerm
       [] OTHER                                                        -> v[n]]

(* Positions count from the new end of the range. *)
LEMMA MovedPositions ==
  ASSUME NEW m \in Int, NEW l \in Int, NEW x \in Span(m, l)
  PROVE  /\ Distance(m, x) \in Nat
         /\ Distance(x, l) + Distance(m, x) = Distance(m, l)
         /\ Distance(x, l) \in Nat
         /\ Span(x, l) \subseteq Span(m, l)
         /\ \A b \in Span(x, l) : Distance(b, m) = Distance(b, x) + Distance(m, x)
BY DEF Span, Distance

(* What U has, T had. *)
LEMMA MoveLive ==
  ASSUME NEW T, Sound(T), NEW U, NEW k, NEW m, Moves(T, U, k, m)
  PROVE  /\ Live(U) = Live(T)
         /\ \A j \in Live(T) : j # k => U[j] = T[j]
         /\ m \in Int /\ T[k].msb \in Int /\ T[k].lsb \in Int /\ T[k].flat \in Nat
         /\ Distance(T[k].msb, m) \in Nat
         /\ Width(T[k]) \in Nat /\ Width(U[k]) \in Nat /\ Width(U[k]) >= 1
         /\ Width(U[k]) + Distance(T[k].msb, m) = Width(T[k])
         /\ \A b \in T[k].bits : SlotIn(T, k, b) = SlotIn(U, k, b) + Distance(T[k].msb, m)
<1>1. k \in Live(T) /\ k \in TermID /\ U[k] # NoTerm /\ \A j \in TermID : j # k => U[j] = T[j]
  BY DEF Moves, Live
<1>2. Live(U) = Live(T) /\ \A j \in Live(T) : j # k => U[j] = T[j]
  BY <1>1 DEF Live
<1>3. T[k].msb \in Int /\ T[k].lsb \in Int /\ T[k].flat \in Nat /\ Width(T[k]) \in Nat
  BY <1>1, LiveType
<1>4. m \in Int /\ m \in Span(T[k].msb, T[k].lsb)
  BY <1>3, Positions DEF Moves
<1>5. U[k].msb = m /\ U[k].lsb = T[k].lsb /\ U[k].flat = T[k].flat /\ T[k].bits \subseteq Span(m, T[k].lsb)
  BY DEF Moves
<1>6. /\ Distance(T[k].msb, m) \in Nat /\ Distance(m, T[k].lsb) \in Nat
      /\ Distance(m, T[k].lsb) + Distance(T[k].msb, m) = Distance(T[k].msb, T[k].lsb)
      /\ \A b \in T[k].bits : Distance(b, T[k].msb) = Distance(b, m) + Distance(T[k].msb, m)
  BY <1>3, <1>4, <1>5, MovedPositions
<1>7. \A b \in T[k].bits : Distance(b, m) \in Int
  BY <1>3, <1>4, <1>5, Positions DEF Distance
<1>8. /\ Width(U[k]) = Distance(m, T[k].lsb) + 1
      /\ Width(T[k]) = Distance(T[k].msb, T[k].lsb) + 1
  BY <1>5 DEF Width
<1>9. \A b \in T[k].bits : SlotIn(T, k, b) = SlotIn(U, k, b) + Distance(T[k].msb, m)
  BY <1>3, <1>5, <1>6, <1>7 DEF SlotIn
<1> QED
  BY <1>2, <1>3, <1>4, <1>6, <1>8, <1>9

(* So does a resize at the upper end, setMSB(). *)
LEMMA MoveSound ==
  ASSUME NEW T, Sound(T), NEW U, NEW k, NEW m, Moves(T, U, k, m)
  PROVE  Sound(U)
<1>1. U \in [TermID -> Term \cup {NoTerm}]
  BY DEF Moves
<1>2. \A j \in Live(U) : U[j].bits \subseteq Span(U[j].msb, U[j].lsb)
  <2> SUFFICES ASSUME NEW j \in Live(U) PROVE U[j].bits \subseteq Span(U[j].msb, U[j].lsb)
    OBVIOUS
  <2>1. CASE j = k
    BY <2>1 DEF Moves
  <2>2. CASE j # k
    BY <2>2, MoveLive DEF Sound
  <2> QED
    BY <2>1, <2>2
<1>3. \A j \in Live(T) : U[j].flat = T[j].flat /\ End(U[j]) <= End(T[j]) /\ End(U[j]) \in Nat /\ End(T[j]) \in Nat
  <2> SUFFICES ASSUME NEW j \in Live(T)
               PROVE  U[j].flat = T[j].flat /\ End(U[j]) <= End(T[j]) /\ End(U[j]) \in Nat /\ End(T[j]) \in Nat
    OBVIOUS
  <2>1. CASE j = k
    <3>1. U[k].flat = T[k].flat
      BY DEF Moves
    <3> QED
      BY <2>1, <3>1, MoveLive DEF End
  <2>2. CASE j # k
    BY <2>2, MoveLive, LiveType
  <2> QED
    BY <2>1, <2>2
<1>4. ASSUME NEW i \in Live(U), NEW j \in Live(U), i < j PROVE End(U[i]) <= U[j].flat
  <2>1. i \in Live(T) /\ j \in Live(T)
    BY MoveLive
  <2>2. End(T[i]) <= T[j].flat /\ T[j].flat \in Nat
    BY <1>4, <2>1, LiveType DEF Sound
  <2> QED
    BY <1>3, <2>1, <2>2
<1> QED
  BY <1>1, <1>2, <1>4 DEF Sound

(* The shift of setMSB() brings every entry to the new slot of its bit. *)
LEMMA MoveFits ==
  ASSUME NEW T, Sound(T), NEW U, NEW k, NEW m, Moves(T, U, k, m), NEW v, NEW d, Fits(v, d, T)
  PROVE  LET w == ShiftedIn(v, T[k], Distance(T[k].msb, m))
         IN  Fits(w, d, U) /\ SameWires(v, T, w, U)
<1> DEFINE c == Distance(T[k].msb, m)
           w == ShiftedIn(v, T[k], c)
           f == T[k].flat
           W == Width(T[k])
<1>1. k \in Live(T) /\ v \in Seq(InstTerm \cup {NoInstTerm}) /\ f + W <= Len(v) /\ Len(v) \in Nat /\ DOMAIN v = 1 .. Len(v)
  BY DEF Fits, Moves, End
<1>2. c \in Nat /\ f \in Nat /\ W \in Nat /\ c < W /\ Width(U[k]) = W - c
  BY MoveLive
<1>3. U[k].flat = f /\ U[k].bits = T[k].bits
  BY DEF Moves
<1>4. DOMAIN w = DOMAIN v
  BY DEF ShiftedIn
<1> HIDE DEF c, f, W
<1>5. ASSUME NEW n \in DOMAIN v
      PROVE  /\ n \in f + 1 .. f + W - c => w[n] = v[n + c]
             /\ n \in f + W - c + 1 .. f + W => w[n] = NoInstTerm
             /\ n \notin f + 1 .. f + W => w[n] = v[n]
  <2>1. /\ n \in f + W - c + 1 .. f + W => n \notin f + 1 .. f + W - c
        /\ n \notin f + 1 .. f + W =>
             n \notin f + W - c + 1 .. f + W /\ n \notin f + 1 .. f + W - c
    BY <1>1, <1>2
  <2> QED
    BY <2>1 DEF ShiftedIn, c, f, W
<1> HIDE DEF w
<1>6. \A n \in DOMAIN v : w[n] \in InstTerm \cup {NoInstTerm}
  <2> SUFFICES ASSUME NEW n \in DOMAIN v PROVE w[n] \in InstTerm \cup {NoInstTerm}
    OBVIOUS
  <2>1. n \in f + 1 .. f + W - c => n + c \in DOMAIN v
    BY <1>1, <1>2
  <2>2. n \in f + 1 .. f + W - c \/ n \in f + W - c + 1 .. f + W \/ n \notin f + 1 .. f + W
    BY <1>1, <1>2
  <2> QED
    BY <1>1, <1>5, <2>1, <2>2
<1>7. w \in Seq(InstTerm \cup {NoInstTerm}) /\ Len(w) = Len(v)
  <2>1. w = [n \in 1 .. Len(v) |-> w[n]]
    BY <1>1, <1>4 DEF w, ShiftedIn
  <2> QED
    BY <1>1, <1>6, <2>1
<1>8. \A j \in Live(U) : End(U[j]) <= Len(w)
  <2> SUFFICES ASSUME NEW j \in Live(U) PROVE End(U[j]) <= Len(w)
    OBVIOUS
  <2>1. j \in Live(T)
    BY MoveLive
  <2>2. CASE j = k
    BY <1>1, <1>2, <1>3, <1>7, <2>2 DEF End
  <2>3. CASE j # k
    BY <1>7, <2>1, <2>3, MoveLive DEF Fits
  <2> QED
    BY <2>2, <2>3
<1>9. ASSUME NEW j \in Live(T), j # k, NEW b \in T[j].bits
      PROVE  /\ SlotIn(U, j, b) = SlotIn(T, j, b) /\ SlotIn(T, j, b) \in DOMAIN v
             /\ SlotIn(T, j, b) \notin f + 1 .. f + W
  <2>1. U[j] = T[j]
    BY <1>9, MoveLive
  <2>2. SlotIn(T, j, b) \in DOMAIN v
    BY FitsLookup
  <2>3. b \in Span(T[j].msb, T[j].lsb)
    BY DEF Sound
  <2>4. SlotIn(T, j, b) \in Nat /\ T[j].flat < SlotIn(T, j, b) /\ SlotIn(T, j, b) <= End(T[j])
    BY <2>3, SlotInTerm
  <2>5. j \in Int /\ k \in Int /\ T[j].flat \in Nat /\ End(T[j]) \in Nat
    BY <1>1, LiveType
  <2>6. End(T[j]) <= f \/ f + W <= T[j].flat
    BY <1>1, <1>9, <2>5 DEF Sound, End, f, W
  <2> QED
    BY <1>2, <2>1, <2>2, <2>4, <2>5, <2>6 DEF SlotIn
<1>10. ASSUME NEW b \in T[k].bits
       PROVE  /\ SlotIn(T, k, b) = SlotIn(U, k, b) + c
              /\ SlotIn(U, k, b) \in f + 1 .. f + W - c
              /\ SlotIn(U, k, b) \in DOMAIN v /\ SlotIn(T, k, b) \in DOMAIN v
  <2>1. SlotIn(T, k, b) = SlotIn(U, k, b) + c
    BY MoveLive DEF c
  <2>2. k \in Live(U) /\ b \in Span(U[k].msb, U[k].lsb)
    BY <1>1, MoveLive DEF Moves
  <2>3. SlotIn(U, k, b) \in Nat /\ U[k].flat < SlotIn(U, k, b) /\ SlotIn(U, k, b) <= End(U[k])
    BY <2>2, MoveSound, SlotInTerm
  <2>4. SlotIn(U, k, b) \in f + 1 .. f + W - c
    BY <1>2, <1>3, <2>3 DEF End
  <2> QED
    BY <1>1, <1>2, <2>1, <2>4
<1>11. ASSUME NEW n \in DOMAIN w, w[n] # NoInstTerm PROVE InPlace(U, d, n, w[n])
  <2>1. CASE n \in f + 1 .. f + W - c
    <3>1. w[n] = v[n + c] /\ n + c \in DOMAIN v /\ n + c \in f + 1 .. f + W
      BY <1>1, <1>2, <1>4, <1>5, <2>1
    <3>2. InPlace(T, d, n + c, w[n])
      BY <1>11, <3>1 DEF Fits
    <3>3. PICK j \in Live(T) : \E b \in T[j].bits : SlotIn(T, j, b) = n + c /\ w[n].bit = <<d, j, b>>
      BY <3>2 DEF InPlace
    <3>4. PICK b \in T[j].bits : SlotIn(T, j, b) = n + c /\ w[n].bit = <<d, j, b>>
      BY <3>3
    <3>5. j = k
      BY <1>9, <3>1, <3>4
    <3>6. SlotIn(U, k, b) + c = n + c /\ SlotIn(U, k, b) \in Int
      BY <1>10, <1>2, <3>4, <3>5
    <3>7. SlotIn(U, k, b) = n
      BY <1>1, <1>2, <1>4, <3>6
    <3>8. k \in Live(U) /\ b \in U[k].bits
      BY <1>1, <1>3, <3>5, MoveLive
    <3> QED
      BY <3>2, <3>4, <3>5, <3>7, <3>8 DEF InPlace
  <2>2. CASE n \notin f + 1 .. f + W
    <3>1. w[n] = v[n] /\ n \in DOMAIN v
      BY <1>4, <1>5, <2>2
    <3>2. InPlace(T, d, n, w[n])
      BY <1>11, <3>1 DEF Fits
    <3>3. PICK j \in Live(T) : \E b \in T[j].bits : SlotIn(T, j, b) = n /\ w[n].bit = <<d, j, b>>
      BY <3>2 DEF InPlace
    <3>4. PICK b \in T[j].bits : SlotIn(T, j, b) = n /\ w[n].bit = <<d, j, b>>
      BY <3>3
    <3>5. j # k
      <4> SUFFICES ASSUME j = k PROVE FALSE
        OBVIOUS
      <4>1. SlotIn(T, k, b) = SlotIn(U, k, b) + c /\ SlotIn(U, k, b) \in f + 1 .. f + W - c
        BY <1>10
      <4>2. SlotIn(T, k, b) \in f + 1 .. f + W
        BY <1>2, <4>1
      <4> QED
        BY <2>2, <3>4, <4>2
    <3>6. j \in Live(U) /\ U[j] = T[j] /\ SlotIn(U, j, b) = n
      BY <1>9, <3>4, <3>5, MoveLive
    <3> QED
      BY <3>2, <3>4, <3>6 DEF InPlace
  <2>3. n \in f + 1 .. f + W - c \/ n \in f + W - c + 1 .. f + W \/ n \notin f + 1 .. f + W
    BY <1>1, <1>2, <1>4
  <2> QED
    BY <1>4, <1>5, <1>11, <2>1, <2>2, <2>3
<1>12. ASSUME NEW j \in Live(T), NEW b \in T[j].bits
       PROVE  w[SlotIn(U, j, b)] = v[SlotIn(T, j, b)] /\ w[SlotIn(U, j, b)] # NoInstTerm
  <2>1. v[SlotIn(T, j, b)] # NoInstTerm
    BY FitsLookup
  <2>2. CASE j = k
    BY <1>5, <1>10, <2>1, <2>2
  <2>3. CASE j # k
    BY <1>5, <1>9, <2>1, <2>3
  <2> QED
    BY <2>2, <2>3
<1>13. Fits(w, d, U)
  <2>1. \A j \in Live(U) : j \in Live(T) /\ U[j].bits = T[j].bits
    BY <1>3, MoveLive
  <2> QED
    BY <1>7, <1>8, <1>11, <1>12, <2>1 DEF Fits
<1>14. SameWires(v, T, w, U)
  BY <1>12 DEF SameWires
<1> QED
  BY <1>13, <1>14 DEF w, c

-----------------------------------------------------------------------------
(* addTerm(). *)

TopOf(T) == CHOOSE k \in Live(T) : \A j \in Live(T) : j <= k

NextFlat(T) == IF Live(T) = {} THEN 0 ELSE End(T[TopOf(T)])

(* The next flat ID is behind all terminals. *)
LEMMA NextFlatBehind ==
  ASSUME NEW T, Sound(T)
  PROVE  /\ NextFlat(T) \in Nat
         /\ \A k \in Live(T) : End(T[k]) <= NextFlat(T)
<1>1. CASE Live(T) = {}
  BY <1>1 DEF NextFlat
<1>2. CASE Live(T) # {}
  <2> DEFINE S == {MaxTermID - k : k \in Live(T)}
  <2>1. MaxTermID \in Nat /\ \A k \in Live(T) : k \in 0 .. MaxTermID
    BY InterfaceAssumption DEF Live, TermID
  <2>2. S \in SUBSET Nat /\ S # {}
    BY <1>2, <2>1
  <2>3. PICK s \in S : \A t \in S : s <= t
    <3> HIDE DEF S
    <3> QED
      BY <2>2, LeastNat
  <2>4. PICK k \in Live(T) : s = MaxTermID - k
    OBVIOUS
  <2>5. \A j \in Live(T) : j <= k
    <3> SUFFICES ASSUME NEW j \in Live(T) PROVE j <= k
      OBVIOUS
    <3>1. s <= MaxTermID - j
      BY <2>3
    <3> QED
      BY <2>1, <2>4, <3>1
  <2>6. \E x \in Live(T) : \A j \in Live(T) : j <= x
    BY <2>5
  <2>7. TopOf(T) \in Live(T) /\ \A j \in Live(T) : j <= TopOf(T)
    BY <2>6 DEF TopOf
  <2> DEFINE x == TopOf(T)
  <2> HIDE DEF x
  <2>8. x \in Live(T) /\ (\A j \in Live(T) : j <= x) /\ NextFlat(T) = End(T[x])
    BY <1>2, <2>7 DEF NextFlat, x
  <2>9. ASSUME NEW j \in Live(T) PROVE End(T[j]) <= End(T[x])
    <3>1. j <= x /\ j \in Int /\ x \in Int
      BY <2>1, <2>8
    <3>2. CASE j = x
      BY <2>8, <3>2, LiveType
    <3>3. CASE j < x
      <4>1. End(T[j]) <= T[x].flat
        BY <2>8, <3>3 DEF Sound
      <4>2. End(T[j]) \in Nat /\ T[x].flat \in Nat /\ Width(T[x]) \in Nat
        BY <2>8, LiveType
      <4> QED
        BY <4>1, <4>2 DEF End
    <3> QED
      BY <3>1, <3>2, <3>3
  <2> QED
    BY <2>8, <2>9, LiveType
<1> QED
  BY <1>1, <1>2

(* From T to U terminal k is added, behind the others. *)
Grows(T, U, k) ==
  /\ k \in TermID /\ k \notin Live(T)
  /\ \A j \in Live(T) : j < k
  /\ U \in [TermID -> Term \cup {NoTerm}]
  /\ \A j \in TermID \ {k} : U[j] = T[j]
  /\ U[k] # NoTerm
  /\ U[k].flat = NextFlat(T) /\ U[k].bits = Span(U[k].msb, U[k].lsb)

(* A terminal added behind the others keeps them in order. *)
LEMMA GrowSound ==
  ASSUME NEW T, Sound(T), NEW U, NEW k, Grows(T, U, k)
  PROVE  /\ Sound(U)
         /\ k \in Live(U) /\ \A j : j \in Live(U) <=> (j \in Live(T) \/ j = k)
         /\ \A j \in Live(T) : U[j] = T[j]
<1>1. k \in Live(U) /\ (\A j : j \in Live(U) <=> (j \in Live(T) \/ j = k)) /\ \A j \in Live(T) : U[j] = T[j]
  BY DEF Grows, Live
<1>2. \A j \in Live(U) : U[j].bits \subseteq Span(U[j].msb, U[j].lsb)
  BY <1>1 DEF Grows, Sound
<1>3. ASSUME NEW i \in Live(U), NEW j \in Live(U), i < j PROVE End(U[i]) <= U[j].flat
  <2>0. i \in Int /\ j \in Int /\ k \in Int
    BY InterfaceAssumption, <1>1 DEF Live, TermID
  <2>1. i # k
    BY <1>1, <1>3, <2>0 DEF Grows
  <2>2. CASE j = k
    BY <1>1, <2>1, <2>2, NextFlatBehind DEF Grows
  <2>3. CASE j # k
    BY <1>1, <1>3, <2>1, <2>3 DEF Sound
  <2> QED
    BY <2>2, <2>3
<1>4. Sound(U)
  BY <1>2, <1>3 DEF Grows, Sound
<1> QED
  BY <1>1, <1>4

(* A vector that grows by the bits of the new terminal still fits. *)
LEMMA GrowFits ==
  ASSUME NEW T, Sound(T), NEW U, NEW k, Grows(T, U, k),
         NEW v, NEW d, Fits(v, d, T), Len(v) = NextFlat(T),
         NEW s \in Seq(InstTerm), Len(s) = Width(U[k]),
         \A b \in U[k].bits : s[Distance(b, U[k].msb) + 1].bit = <<d, k, b>>
  PROVE  Fits(v \o s, d, U) /\ SameWires(v, T, v \o s, U)
<1> DEFINE w == v \o s
           L == Len(v)
<1>1. /\ v \in Seq(InstTerm \cup {NoInstTerm}) /\ s \in Seq(InstTerm \cup {NoInstTerm})
      /\ L \in Nat /\ Len(s) \in Nat
  BY DEF Fits
<1>2. /\ w \in Seq(InstTerm \cup {NoInstTerm}) /\ Len(w) = L + Len(s) /\ DOMAIN w = 1 .. L + Len(s)
      /\ DOMAIN v = 1 .. L
      /\ \A n \in 1 .. L : w[n] = v[n]
      /\ \A n \in 1 .. Len(s) : w[L + n] = s[n] /\ s[n] \in InstTerm
  BY <1>1
<1>3. /\ Sound(U) /\ k \in Live(U)
      /\ \A j : j \in Live(U) <=> (j \in Live(T) \/ j = k)
      /\ \A j \in Live(T) : U[j] = T[j] /\ j # k
  BY GrowSound DEF Grows
<1>4. U[k].flat = L /\ End(U[k]) = L + Len(s)
  BY DEF Grows, End
<1> HIDE DEF w
<1>5. \A j \in Live(U) : End(U[j]) <= Len(w)
  <2> SUFFICES ASSUME NEW j \in Live(U) PROVE End(U[j]) <= Len(w)
    OBVIOUS
  <2>1. CASE j = k
    BY <1>1, <1>2, <1>4, <2>1
  <2>2. CASE j # k
    <3>1. j \in Live(T) /\ U[j] = T[j] /\ End(T[j]) \in Nat
      BY <1>3, <2>2, LiveType
    <3>2. End(T[j]) <= L
      BY <3>1 DEF Fits
    <3> QED
      BY <1>1, <1>2, <3>1, <3>2
  <2> QED
    BY <2>1, <2>2
<1>6. ASSUME NEW j \in Live(T), NEW b \in T[j].bits
      PROVE  /\ SlotIn(U, j, b) = SlotIn(T, j, b) /\ SlotIn(T, j, b) \in 1 .. L
             /\ w[SlotIn(U, j, b)] = v[SlotIn(T, j, b)] /\ v[SlotIn(T, j, b)] # NoInstTerm
  <2>1. SlotIn(U, j, b) = SlotIn(T, j, b)
    BY <1>3 DEF SlotIn
  <2>2. SlotIn(T, j, b) \in DOMAIN v /\ v[SlotIn(T, j, b)] # NoInstTerm
    BY FitsLookup
  <2> QED
    BY <1>2, <2>1, <2>2
<1>7. U[k].msb \in Int /\ U[k].lsb \in Int
  BY <1>3, LiveType
<1>8. Len(s) = Distance(U[k].msb, U[k].lsb) + 1 /\ Distance(U[k].msb, U[k].lsb) \in Nat
  BY <1>7 DEF Width, Distance
<1>9. ASSUME NEW b \in U[k].bits
      PROVE  LET n == Distance(b, U[k].msb) + 1
             IN  /\ n \in 1 .. Len(s) /\ SlotIn(U, k, b) = L + n
                 /\ w[SlotIn(U, k, b)] = s[n] /\ s[n].bit = <<d, k, b>>
  <2>1. b \in Span(U[k].msb, U[k].lsb)
    BY DEF Grows
  <2>2. Distance(b, U[k].msb) \in 0 .. Distance(U[k].msb, U[k].lsb)
    BY <1>7, <2>1, Positions
  <2>3. Distance(b, U[k].msb) + 1 \in 1 .. Len(s)
    BY <1>8, <2>2
  <2>4. SlotIn(U, k, b) = L + (Distance(b, U[k].msb) + 1)
    BY <1>1, <1>4, <1>8, <2>2 DEF SlotIn
  <2> QED
    BY <1>2, <2>3, <2>4
<1>10. ASSUME NEW n \in DOMAIN w, w[n] # NoInstTerm PROVE InPlace(U, d, n, w[n])
  <2>1. CASE n \in 1 .. L
    <3>1. w[n] = v[n] /\ InPlace(T, d, n, v[n])
      BY <1>2, <1>10, <2>1 DEF Fits
    <3>2. PICK j \in Live(T) : \E b \in T[j].bits : SlotIn(T, j, b) = n /\ w[n].bit = <<d, j, b>>
      BY <3>1 DEF InPlace
    <3>3. PICK b \in T[j].bits : SlotIn(T, j, b) = n /\ w[n].bit = <<d, j, b>>
      BY <3>2
    <3>4. SlotIn(U, j, b) = n /\ j \in Live(U) /\ b \in U[j].bits
      BY <1>3, <1>6, <3>3
    <3> QED
      BY <3>1, <3>3, <3>4 DEF InPlace
  <2>2. CASE n - L \in 1 .. Len(s)
    <3>1. n - L - 1 \in 0 .. Distance(U[k].msb, U[k].lsb)
      BY <1>1, <1>2, <1>8, <2>2
    <3>2. PICK b \in Span(U[k].msb, U[k].lsb) : Distance(b, U[k].msb) = n - L - 1
      BY <1>7, <3>1, Positions
    <3>3. b \in U[k].bits
      BY DEF Grows
    <3>4. Distance(b, U[k].msb) + 1 = n - L /\ L + (n - L) = n
      BY <1>1, <1>2, <3>2
    <3>5. SlotIn(U, k, b) = n /\ w[n] = s[n - L] /\ s[n - L].bit = <<d, k, b>> /\ s[n - L] \in InstTerm
      BY <1>2, <1>9, <2>2, <3>3, <3>4
    <3> QED
      BY <1>3, <3>3, <3>5 DEF InPlace
  <2>3. n \in 1 .. L \/ n - L \in 1 .. Len(s)
    BY <1>1, <1>2
  <2> QED
    BY <2>1, <2>2, <2>3
<1>11. \A j \in Live(U) : \A b \in U[j].bits : w[SlotIn(U, j, b)] # NoInstTerm
  <2> SUFFICES ASSUME NEW j \in Live(U), NEW b \in U[j].bits PROVE w[SlotIn(U, j, b)] # NoInstTerm
    OBVIOUS
  <2>1. CASE j = k
    <3>1. \A t \in InstTerm : t # NoInstTerm
      BY InterfaceAssumption
    <3> QED
      BY <1>2, <1>9, <2>1, <3>1
  <2>2. CASE j # k
    BY <1>3, <1>6, <2>2
  <2> QED
    BY <2>1, <2>2
<1>12. Fits(w, d, U)
  BY <1>2, <1>5, <1>10, <1>11 DEF Fits
<1>13. SameWires(v, T, w, U)
  BY <1>6 DEF SameWires
<1> QED
  BY <1>12, <1>13 DEF w

-----------------------------------------------------------------------------
(* The order of getBitTerms(). *)

(* Function f numbers the elements of X from 0 to N - 1. *)
Numbers(f, X, N) ==
  /\ f \in [X -> 0 .. N - 1]
  /\ \A x, y \in X : f[x] = f[y] => x = y
  /\ \A n \in 0 .. N - 1 : \E x \in X : f[x] = n

(* In a numbered set there are as many elements before x as its number says. *)
LEMMA RankIsNumber ==
  ASSUME NEW X, NEW N \in Nat, NEW f, Numbers(f, X, N)
  PROVE  /\ IsFiniteSet(X) /\ Cardinality(X) = N
         /\ \A x \in X : Cardinality({y \in X : f[y] < f[x]}) = f[x]
<1>0. /\ f \in [X -> 0 .. N - 1]
      /\ \A x, y \in X : f[x] = f[y] => x = y
      /\ \A n \in 0 .. N - 1 : \E x \in X : f[x] = n
  BY DEF Numbers
<1>1. \A n \in Nat : IsFiniteSet(0 .. n - 1) /\ Cardinality(0 .. n - 1) = n
  BY FS_Interval
<1>2. f \in Injection(X, 0 .. N - 1) /\ f \in Surjection(X, 0 .. N - 1)
  BY <1>0 DEF Injection, IsInjective, Surjection
<1>3. IsFiniteSet(X) /\ Cardinality(X) = N
  <2> DEFINE I == 0 .. N - 1
  <2>1. IsFiniteSet(I) /\ Cardinality(I) = N /\ f \in Injection(X, I) /\ f \in Surjection(X, I)
    BY <1>1, <1>2
  <2> HIDE DEF I
  <2> QED
    BY <2>1, FS_Injection
<1>4. ASSUME NEW x \in X PROVE Cardinality({y \in X : f[y] < f[x]}) = f[x]
  <2> DEFINE Y == {y \in X : f[y] < f[x]}
             I == 0 .. f[x] - 1
             g == [y \in Y |-> f[y]]
  <2>1. f[x] \in Nat /\ f[x] < N
    BY <1>0
  <2>2. IsFiniteSet(I) /\ Cardinality(I) = f[x]
    BY <1>1, <2>1
  <2>3. \A y \in Y : f[y] \in I
    BY <1>0, <2>1
  <2>4. \A n \in I : \E y \in Y : f[y] = n
    <3> SUFFICES ASSUME NEW n \in I PROVE \E y \in Y : f[y] = n
      OBVIOUS
    <3>1. n \in 0 .. N - 1 /\ n < f[x]
      BY <2>1
    <3>2. PICK y \in X : f[y] = n
      BY <1>0, <3>1
    <3> QED
      BY <3>1, <3>2
  <2>5. \A y, z \in Y : f[y] = f[z] => y = z
    BY <1>0
  <2> HIDE DEF Y, I
  <2>6. g \in Injection(Y, I) /\ g \in Surjection(Y, I)
    BY <2>3, <2>4, <2>5 DEF Injection, IsInjective, Surjection
  <2> HIDE DEF g
  <2>7. Cardinality(Y) = Cardinality(I)
    BY <2>2, <2>6, FS_Injection
  <2> QED
    BY <2>2, <2>7 DEF Y
<1> QED
  BY <1>3, <1>4

(* The bits of a design, and their flat IDs. *)
BitsIn(d, T) == UNION {{<<d, k, b>> : b \in T[k].bits} : k \in Live(T)}

FlatIDs(d, T) == [x \in BitsIn(d, T) |-> SlotIn(T, x[2], x[3]) - 1]

(* What the parts of a bit are. *)
LEMMA BitParts ==
  ASSUME NEW d, NEW T, NEW x \in BitsIn(d, T)
  PROVE  x[2] \in Live(T) /\ x[3] \in T[x[2]].bits /\ x = <<d, x[2], x[3]>>
BY DEF BitsIn

(* Without holes the flat IDs number the bits. *)
LEMMA FlatIDsNumber ==
  ASSUME NEW d, NEW T, Sound(T), Cardinality(BitsIn(d, T)) = NextFlat(T)
  PROVE  Numbers(FlatIDs(d, T), BitsIn(d, T), NextFlat(T))
<1> DEFINE X == BitsIn(d, T)
           N == NextFlat(T)
           f == FlatIDs(d, T)
           I == 0 .. N - 1
<1>1. N \in Nat
  BY NextFlatBehind
<1>2. \A x \in X : x[2] \in Live(T) /\ x[3] \in T[x[2]].bits /\ x = <<d, x[2], x[3]>> /\ x[3] \in Span(T[x[2]].msb, T[x[2]].lsb)
  BY BitParts DEF Sound
<1>3. \A x \in X : f[x] = SlotIn(T, x[2], x[3]) - 1
  BY DEF FlatIDs
<1>4. ASSUME NEW x \in X PROVE SlotIn(T, x[2], x[3]) \in Nat /\ f[x] \in I
  <2>1. /\ SlotIn(T, x[2], x[3]) \in Nat /\ T[x[2]].flat < SlotIn(T, x[2], x[3])
        /\ SlotIn(T, x[2], x[3]) <= End(T[x[2]])
    BY <1>2, SlotInTerm
  <2>2. End(T[x[2]]) <= N /\ End(T[x[2]]) \in Nat /\ T[x[2]].flat \in Nat
    BY <1>2, NextFlatBehind, LiveType
  <2> QED
    BY <1>1, <1>3, <2>1, <2>2
<1>5. ASSUME NEW x \in X, NEW y \in X, f[x] = f[y] PROVE x = y
  <2>1. SlotIn(T, x[2], x[3]) = SlotIn(T, y[2], y[3])
    BY <1>3, <1>4, <1>5
  <2>2. x[2] = y[2] /\ x[3] = y[3]
    BY <1>2, <2>1, SlotsOrdered
  <2> QED
    BY <1>2, <2>2
<1>6. f \in [X -> I]
  BY <1>4 DEF FlatIDs
<1>7. f \in Injection(X, I)
  <2> HIDE DEF f, X, I
  <2> QED
    BY <1>5, <1>6 DEF Injection, IsInjective
<1>8. f \in Surjection(X, I)
  <2>1. IsFiniteSet(I) /\ Cardinality(I) = N
    BY <1>1, FS_Interval
  <2>2. Cardinality(X) = Cardinality(I)
    BY <2>1
  <2> HIDE DEF f, X, I
  <2> QED
    BY <1>7, <2>1, <2>2, FS_Injection
<1>9. \A n \in I : \E x \in X : f[x] = n
  <2> HIDE DEF f, X, I
  <2> QED
    BY <1>8 DEF Surjection
<1> QED
  BY <1>5, <1>6, <1>9 DEF Numbers

-----------------------------------------------------------------------------
(* The state. *)

(* The operators of SNLInterface, for one design. *)
LEMMA OneDesign ==
  ASSUME NEW d
  PROVE  /\ IDs(d) = Live(terms[d]) /\ Bits(d) = BitsIn(d, terms[d])
         /\ NextFlatID(d) = NextFlat(terms[d])
         /\ \A k, b : Slot(<<d, k, b>>) = SlotIn(terms[d], k, b)
         /\ \A k, b : Position(<<d, k, b>>) = Distance(b, terms[d][k].msb)
<1>1. IDs(d) = Live(terms[d])
  BY DEF IDs, Live
<1>2. Bits(d) = BitsIn(d, terms[d])
  BY <1>1 DEF Bits, BitsOf, BitsIn
<1>3. LastID(d) = TopOf(terms[d])
  BY <1>1 DEF LastID, TopOf
<1>4. NextFlatID(d) = NextFlat(terms[d])
  BY <1>1, <1>3 DEF NextFlatID, NextFlat, End
<1> QED
  BY <1>1, <1>2, <1>4 DEF Slot, FlatID, Position, SlotIn

(* The same in the next state. *)
LEMMA OneDesignNext ==
  ASSUME NEW d
  PROVE  /\ IDs(d)' = Live(terms'[d]) /\ Bits(d)' = BitsIn(d, terms'[d])
         /\ \A k, b : Slot(<<d, k, b>>)' = SlotIn(terms'[d], k, b)
         /\ \A k, b : Position(<<d, k, b>>)' = Distance(b, terms'[d][k].msb)
<1>1. IDs(d)' = Live(terms'[d])
  BY DEF IDs, Live
<1>2. Bits(d)' = BitsIn(d, terms'[d])
  BY <1>1 DEF Bits, BitsOf, BitsIn, IDs, Live
<1> QED
  BY <1>1, <1>2 DEF Slot, FlatID, Position, SlotIn

(* A new instance of a design without holes. *)
LEMMA NewFits ==
  ASSUME NEW d \in Design, Sound(terms[d]), Cardinality(Bits(d)) = NextFlatID(d)
  PROVE  Fits(NewInstTerms(Bits(d)), d, terms[d])
<1> DEFINE T == terms[d]
           X == Bits(d)
           N == NextFlatID(d)
           f == FlatIDs(d, T)
           v == NewInstTerms(X)
<1>1. X = BitsIn(d, T) /\ N = NextFlat(T) /\ N \in Nat
  BY OneDesign, NextFlatBehind
<1>2. Numbers(f, X, N)
  BY <1>1, FlatIDsNumber
<1>3. /\ f \in [X -> 0 .. N - 1]
      /\ \A x, y \in X : f[x] = f[y] => x = y
      /\ \A n \in 0 .. N - 1 : \E x \in X : f[x] = n
  BY <1>2 DEF Numbers
<1>4. \A x \in X : /\ x[2] \in Live(T) /\ x[3] \in T[x[2]].bits /\ x = <<d, x[2], x[3]>>
                   /\ x[3] \in Span(T[x[2]].msb, T[x[2]].lsb)
                   /\ f[x] = SlotIn(T, x[2], x[3]) - 1
                   /\ SlotIn(T, x[2], x[3]) \in Nat
  <2>1. \A x \in X : x[2] \in Live(T) /\ x[3] \in T[x[2]].bits /\ x = <<d, x[2], x[3]>>
    BY <1>1, BitParts
  <2>2. \A x \in X : x[3] \in Span(T[x[2]].msb, T[x[2]].lsb)
    BY <2>1 DEF Sound
  <2>3. \A x \in X : f[x] = SlotIn(T, x[2], x[3]) - 1
    BY <1>1 DEF FlatIDs
  <2> QED
    BY <2>1, <2>2, <2>3, SlotInTerm
<1>5. ASSUME NEW x \in X, NEW y \in X PROVE Precedes(y, x) <=> f[y] < f[x]
  <2>1. Position(x) = Distance(x[3], T[x[2]].msb) /\ Position(y) = Distance(y[3], T[y[2]].msb)
    BY <1>4, OneDesign
  <2>2. SlotIn(T, y[2], y[3]) < SlotIn(T, x[2], x[3]) <=>
          (y[2] < x[2] \/ (y[2] = x[2] /\ Distance(y[3], T[y[2]].msb) < Distance(x[3], T[x[2]].msb)))
    BY <1>4, SlotsOrdered
  <2>3. f[y] < f[x] <=> SlotIn(T, y[2], y[3]) < SlotIn(T, x[2], x[3])
    BY <1>4
  <2> QED
    BY <2>1, <2>2, <2>3 DEF Precedes
<1> HIDE DEF f, X, N, T
<1>16. N \in Nat
  BY <1>1
<1>17. Cardinality(X) = N /\ \A x \in X : Cardinality({y \in X : f[y] < f[x]}) = f[x]
  <2>1. Cardinality(X) = N
    BY DEF X, N
  <2> QED
    BY <1>2, <1>16, <2>1, RankIsNumber, ZenonT(30)
<1>6. \A x \in X : Cardinality({y \in X : Precedes(y, x)}) = f[x]
  <2> SUFFICES ASSUME NEW x \in X PROVE Cardinality({y \in X : Precedes(y, x)}) = f[x]
    OBVIOUS
  <2>1. {y \in X : Precedes(y, x)} = {y \in X : f[y] < f[x]}
    BY <1>5
  <2> QED
    BY <1>17, <2>1
<1>7. ASSUME NEW n \in 1 .. N PROVE InOrder(X)[n] \in X /\ f[InOrder(X)[n]] = n - 1
  <2>0. n - 1 \in 0 .. N - 1 /\ Cardinality(X) = N
    BY <1>16, <1>17
  <2>1. \E x \in X : Cardinality({y \in X : Precedes(y, x)}) = n - 1
    BY <1>3, <1>6, <2>0
  <2>2. InOrder(X)[n] = CHOOSE x \in X : Cardinality({y \in X : Precedes(y, x)}) = n - 1
    BY <2>0 DEF InOrder
  <2>3. InOrder(X)[n] \in X /\ Cardinality({y \in X : Precedes(y, InOrder(X)[n])}) = n - 1
    BY <2>1, <2>2
  <2> QED
    BY <1>6, <2>3
<1>8. /\ Len(v) = N /\ DOMAIN v = 1 .. N
      /\ \A n \in 1 .. N : v[n] = [bit |-> InOrder(X)[n], wired |-> FALSE]
      /\ v = [n \in 1 .. N |-> v[n]]
  BY <1>16, <1>17 DEF NewInstTerms
<1> HIDE DEF v
<1>9. \A x \in X : x \in Bit
  <2> SUFFICES ASSUME NEW x \in X PROVE x \in Bit
    OBVIOUS
  <2>1. x[2] \in TermID /\ T[x[2]].bits \subseteq Int
    BY <1>4, LiveType DEF T
  <2> QED
    BY <1>4, <2>1 DEF Bit
<1>10. \A n \in 1 .. N : v[n] \in InstTerm /\ v[n] # NoInstTerm /\ v[n].bit = InOrder(X)[n]
  <2> SUFFICES ASSUME NEW n \in 1 .. N
               PROVE  v[n] \in InstTerm /\ v[n] # NoInstTerm /\ v[n].bit = InOrder(X)[n]
    OBVIOUS
  <2>1. InOrder(X)[n] \in Bit
    BY <1>7, <1>9
  <2> DEFINE o == InOrder(X)[n]
  <2> HIDE DEF o
  <2>2. v[n] = [bit |-> o, wired |-> FALSE] /\ o \in Bit
    BY <1>8, <2>1 DEF o
  <2>3. v[n] \in InstTerm /\ v[n].bit = o
    BY <2>2 DEF InstTerm
  <2> QED
    BY <2>3, InterfaceAssumption DEF o
<1>11. v \in Seq(InstTerm \cup {NoInstTerm})
  BY <1>1, <1>8, <1>10
<1>12. \A n \in DOMAIN v : InPlace(T, d, n, v[n])
  <2> SUFFICES ASSUME NEW n \in 1 .. N PROVE InPlace(T, d, n, v[n])
    BY <1>8
  <2> DEFINE x == InOrder(X)[n]
  <2>1. x \in X /\ f[x] = n - 1 /\ v[n].bit = x
    BY <1>7, <1>10
  <2> HIDE DEF x
  <2>2. SlotIn(T, x[2], x[3]) = n
    BY <1>1, <1>4, <2>1
  <2> QED
    BY <1>4, <1>10, <2>1, <2>2 DEF InPlace
<1>13. \A k \in Live(T) : End(T[k]) <= Len(v)
  BY <1>1, <1>8, NextFlatBehind DEF T
<1>14. ASSUME NEW k \in Live(T), NEW b \in T[k].bits PROVE v[SlotIn(T, k, b)] # NoInstTerm
  <2>1. <<d, k, b>> \in X
    BY <1>1 DEF BitsIn
  <2>2. f[<<d, k, b>>] = SlotIn(T, k, b) - 1 /\ SlotIn(T, k, b) \in Nat /\ f[<<d, k, b>>] \in 0 .. N - 1
    BY <1>3, <1>4, <2>1
  <2>3. SlotIn(T, k, b) \in 1 .. N
    BY <1>1, <2>2
  <2> QED
    BY <1>10, <2>3
<1>15. Fits(v, d, T)
  BY <1>11, <1>12, <1>13, <1>14 DEF Fits
<1> QED
  BY <1>15 DEF v, X, T

(* The terminals that the instances get for a new terminal t of design d. *)
LEMMA NewTermSeq ==
  ASSUME NEW d \in Design, NEW k \in TermID, NEW t \in Term, terms'[d][k] = t,
         t.bits = Span(t.msb, t.lsb)
  PROVE  /\ NewInstTerms(BitsOf(d, k))' \in Seq(InstTerm)
         /\ Len(NewInstTerms(BitsOf(d, k))') = Width(t)
         /\ \A b \in t.bits : NewInstTerms(BitsOf(d, k))'[Distance(b, t.msb) + 1].bit = <<d, k, b>>
<1> DEFINE X == {<<d, k, b>> : b \in t.bits}
           N == Width(t)
           f == [x \in X |-> Distance(x[3], t.msb)]
           s == NewInstTerms(BitsOf(d, k))'
<1>1. BitsOf(d, k)' = X
  BY DEF BitsOf
<1>2. t.msb \in Int /\ t.lsb \in Int /\ Distance(t.msb, t.lsb) \in Nat /\ N = Distance(t.msb, t.lsb) + 1
      /\ N \in Nat /\ 0 .. Distance(t.msb, t.lsb) = 0 .. N - 1 /\ t.bits \subseteq Int
  BY DEF Term, Width, Distance
<1>3. /\ \A b \in t.bits : Distance(b, t.msb) \in 0 .. N - 1
      /\ \A a, b \in t.bits : Distance(a, t.msb) = Distance(b, t.msb) => a = b
      /\ \A n \in 0 .. N - 1 : \E b \in t.bits : Distance(b, t.msb) = n
  <2> DEFINE D == Distance(t.msb, t.lsb)
  <2>1. /\ \A b \in t.bits : Distance(b, t.msb) \in 0 .. D
        /\ \A a, b \in t.bits : Distance(a, t.msb) = Distance(b, t.msb) => a = b
        /\ \A n \in 0 .. D : \E b \in t.bits : Distance(b, t.msb) = n
    BY <1>2, Positions
  <2> QED
    BY <1>2, <2>1
<1>4. \A x \in X : x[2] = k /\ x[3] \in t.bits /\ x = <<d, k, x[3]>> /\ f[x] = Distance(x[3], t.msb)
  OBVIOUS
<1>5. \A b \in t.bits : <<d, k, b>> \in X /\ f[<<d, k, b>>] = Distance(b, t.msb)
  OBVIOUS
<1> HIDE DEF N
<1>6. Numbers(f, X, N)
  <2>1. f \in [X -> 0 .. N - 1]
    BY <1>3
  <2> HIDE DEF f, X
  <2>2. \A x, y \in X : f[x] = f[y] => x = y
    <3> SUFFICES ASSUME NEW x \in X, NEW y \in X, f[x] = f[y] PROVE x = y
      OBVIOUS
    <3>1. x[3] = y[3]
      BY <1>3, <1>4
    <3> QED
      BY <1>4, <3>1
  <2>3. \A n \in 0 .. N - 1 : \E x \in X : f[x] = n
    <3> SUFFICES ASSUME NEW n \in 0 .. N - 1 PROVE \E x \in X : f[x] = n
      OBVIOUS
    <3>1. PICK b \in t.bits : Distance(b, t.msb) = n
      BY <1>3
    <3>2. <<d, k, b>> \in X /\ f[<<d, k, b>>] = n
      BY <1>5, <3>1
    <3> QED
      BY <3>2
  <2> QED
    BY <2>1, <2>2, <2>3 DEF Numbers
<1> HIDE DEF f, X, s
<1>7. ASSUME NEW x \in X, NEW y \in X PROVE Precedes(y, x)' <=> f[y] < f[x]
  <2>1. /\ x[1] = d /\ x[2] = k /\ f[x] = Distance(x[3], t.msb)
        /\ y[1] = d /\ y[2] = k /\ f[y] = Distance(y[3], t.msb)
    BY <1>4
  <2>2. Position(x)' = f[x] /\ Position(y)' = f[y]
    BY <2>1 DEF Position
  <2>3. k \in Int
    BY InterfaceAssumption DEF TermID
  <2> QED
    BY <2>1, <2>2, <2>3 DEF Precedes
<1>8. N \in Nat
  BY <1>2
<1>9. /\ IsFiniteSet(X) /\ Cardinality(X) = N
      /\ \A x \in X : Cardinality({y \in X : f[y] < f[x]}) = f[x]
  BY <1>6, <1>8, RankIsNumber
<1>10. \A x \in X : Cardinality({y \in X : Precedes(y, x)'}) = f[x]
  <2> SUFFICES ASSUME NEW x \in X PROVE Cardinality({y \in X : Precedes(y, x)'}) = f[x]
    OBVIOUS
  <2>1. {y \in X : Precedes(y, x)'} = {y \in X : f[y] < f[x]}
    BY <1>7
  <2> QED
    BY <1>9, <2>1
<1> DEFINE o(n) == InOrder(BitsOf(d, k))'[n]
<1>11. ASSUME NEW n \in 1 .. N PROVE o(n) \in X /\ f[o(n)] = n - 1
  <2>0. n - 1 \in 0 .. N - 1
    BY <1>8
  <2>1. \E x \in X : Cardinality({y \in X : Precedes(y, x)'}) = n - 1
    BY <1>6, <1>10, <2>0 DEF Numbers
  <2>2. o(n) = CHOOSE x \in X : Cardinality({y \in X : Precedes(y, x)'}) = n - 1
    BY <1>1, <1>9 DEF InOrder
  <2> HIDE DEF o
  <2>3. PICK x \in X : x = o(n) /\ Cardinality({y \in X : Precedes(y, x)'}) = n - 1
    BY <2>1, <2>2
  <2> QED
    BY <1>10, <2>3
<1>12. /\ Len(s) = N /\ DOMAIN s = 1 .. N
       /\ \A n \in 1 .. N : s[n] = [bit |-> o(n), wired |-> FALSE]
       /\ s = [n \in 1 .. N |-> s[n]]
  BY <1>1, <1>8, <1>9 DEF NewInstTerms, s
<1> HIDE DEF o
<1>13. \A x \in X : x \in Bit
  BY <1>2, <1>4 DEF Bit
<1>14. \A n \in 1 .. N : s[n] \in InstTerm /\ s[n].bit = o(n)
  <2> SUFFICES ASSUME NEW n \in 1 .. N PROVE s[n] \in InstTerm /\ s[n].bit = o(n)
    OBVIOUS
  <2>1. s[n] = [bit |-> o(n), wired |-> FALSE] /\ o(n) \in Bit
    BY <1>11, <1>12, <1>13
  <2> QED
    BY <2>1 DEF InstTerm
<1>15. s \in Seq(InstTerm)
  BY <1>8, <1>12, <1>14
<1>16. ASSUME NEW b \in t.bits PROVE s[Distance(b, t.msb) + 1].bit = <<d, k, b>>
  <2> DEFINE n == Distance(b, t.msb) + 1
  <2>1. n \in 1 .. N /\ n - 1 = Distance(b, t.msb)
    BY <1>3, <1>8
  <2> HIDE DEF n
  <2>2. o(n) \in X /\ f[o(n)] = f[<<d, k, b>>] /\ <<d, k, b>> \in X
    BY <1>5, <1>11, <2>1
  <2>3. o(n) = <<d, k, b>>
    BY <1>6, <2>2 DEF Numbers
  <2> QED
    BY <1>14, <2>1, <2>3 DEF n
<1> QED
  BY <1>12, <1>15, <1>16 DEF s, N

-----------------------------------------------------------------------------
(* The invariant. *)

DesignsOK ==
  /\ designs \subseteq Design
  /\ terms \in [Design -> [TermID -> Term \cup {NoTerm}]]
  /\ \A d \in Design : Sound(terms[d])
  /\ \A d \in Design \ designs : Live(terms[d]) = {}

InstancesOK ==
  /\ model \in [Inst -> designs \cup {NoDesign}]
  /\ instTerms \in [Inst -> Seq(InstTerm \cup {NoInstTerm})]
  /\ \A i \in Inst : model[i] = NoDesign => instTerms[i] = <<>>
  /\ \A i \in Inst : model[i] # NoDesign => Fits(instTerms[i], model[i], terms[model[i]])

OrdersOK == orderID = [d \in Design |-> orderID[d]] /\ OrderIDsAreRanks

Inv == DesignsOK /\ InstancesOK /\ OrdersOK

(* What WiresStay says of one instance, given the invariant. *)
WiresKept(i) ==
  model[i] # NoDesign /\ model'[i] # NoDesign =>
    SameWires(instTerms[i], terms[model[i]], instTerms'[i], terms'[model'[i]])

(* Ranks depend on the terminals of the design only. *)
LEMMA RankNext ==
  ASSUME NEW d \in Design, terms'[d] = terms[d]
  PROVE  Bits(d)' = Bits(d) /\ \A x \in Bits(d) : Rank(x)' = Rank(x)
<1>1. Bits(d)' = Bits(d)
  BY OneDesign, OneDesignNext
<1>2. \A x \in Bits(d) : x[1] = d
  BY DEF Bits, BitsOf
<1>3. \A x \in Bits(d) : Position(x)' = Position(x)
  BY <1>2 DEF Position
<1>4. ASSUME NEW x \in Bits(d) PROVE Rank(x)' = Rank(x)
  <2>1. \A y \in Bits(d) : Precedes(y, x)' <=> Precedes(y, x)
    BY <1>3 DEF Precedes
  <2>2. {y \in Bits(d)' : Precedes(y, x)'} = {y \in Bits(d) : Precedes(y, x)}
    BY <1>1, <2>1
  <2> QED
    BY <1>2, <2>2 DEF Rank
<1> QED
  BY <1>1, <1>4

(* Order IDs of one design are set anew. *)
LEMMA OrdersNext ==
  ASSUME OrdersOK, NEW d \in Design, NEW F, orderID' = [orderID EXCEPT ![d] = F],
         \A e \in Design \ {d} : terms'[e] = terms[e],
         (\A x \in Bits(d)' : F[x] = Rank(x)') \/ (\A x \in Bits(d)' : F[x] = -1)
  PROVE  OrdersOK'
<1>1. orderID' = [e \in Design |-> IF e = d THEN F ELSE orderID[e]]
  BY DEF OrdersOK
<1>2. orderID' = [e \in Design |-> orderID'[e]] /\ orderID'[d] = F
  BY <1>1
<1>3. ASSUME NEW e \in Design
      PROVE  \/ \A x \in Bits(e)' : orderID'[e][x] = Rank(x)'
             \/ \A x \in Bits(e)' : orderID'[e][x] = -1
  <2>1. CASE e = d
    BY <1>2, <2>1
  <2>2. CASE e # d
    <3>1. orderID'[e] = orderID[e] /\ Bits(e)' = Bits(e) /\ \A x \in Bits(e) : Rank(x)' = Rank(x)
      BY <1>1, <2>2, RankNext
    <3> QED
      BY <3>1 DEF OrdersOK, OrderIDsAreRanks
  <2> QED
    BY <2>1, <2>2
<1> QED
  BY <1>2, <1>3 DEF OrdersOK, OrderIDsAreRanks

(* An edit of the terminals of one design. *)
LEMMA EditInv ==
  ASSUME Inv, NEW d \in designs, SetOrderIDs(d), designs' = designs, model' = model,
         terms' \in [Design -> [TermID -> Term \cup {NoTerm}]],
         \A e \in Design \ {d} : terms'[e] = terms[e],
         Sound(terms'[d]),
         instTerms' = [i \in Inst |-> instTerms'[i]],
         \A i \in Inst : model[i] # d => instTerms'[i] = instTerms[i],
         \A i \in Inst : model[i] = d =>
           /\ Fits(instTerms'[i], d, terms'[d])
           /\ SameWires(instTerms[i], terms[d], instTerms'[i], terms'[d])
  PROVE  Inv' /\ \A i \in Inst : WiresKept(i)
<1>0. DesignsOK /\ InstancesOK /\ OrdersOK /\ d \in Design /\ d # NoDesign
  BY InterfaceAssumption DEF Inv, DesignsOK
<1>1. DesignsOK'
  BY <1>0 DEF DesignsOK
<1>2. \A i \in Inst : model[i] # NoDesign => model[i] \in Design
  BY <1>0 DEF DesignsOK, InstancesOK
<1>3. InstancesOK'
  <2>1. ASSUME NEW i \in Inst, model[i] # NoDesign
        PROVE  Fits(instTerms'[i], model[i], terms'[model[i]])
    <3>1. CASE model[i] = d
      BY <3>1
    <3>2. CASE model[i] # d
      <4>1. terms'[model[i]] = terms[model[i]] /\ instTerms'[i] = instTerms[i]
        BY <1>2, <2>1, <3>2
      <4> QED
        BY <1>0, <2>1, <4>1 DEF InstancesOK
    <3> QED
      BY <3>1, <3>2
  <2>2. \A i \in Inst : instTerms'[i] \in Seq(InstTerm \cup {NoInstTerm})
    BY <1>0 DEF InstancesOK, Fits
  <2>3. instTerms' \in [Inst -> Seq(InstTerm \cup {NoInstTerm})]
    BY <2>2
  <2> QED
    BY <1>0, <2>1, <2>3 DEF InstancesOK
<1>4. OrdersOK'
  <2> DEFINE F == [x \in Bits(d)' |-> Rank(x)']
  <2>1. orderID' = [orderID EXCEPT ![d] = F] /\ \A x \in Bits(d)' : F[x] = Rank(x)'
    BY DEF SetOrderIDs
  <2> HIDE DEF F
  <2> QED
    BY <1>0, <2>1, OrdersNext
<1>5. ASSUME NEW i \in Inst PROVE WiresKept(i)
  <2>1. CASE model[i] = d
    BY <2>1 DEF WiresKept
  <2>2. CASE model[i] # d
    BY <1>2, <2>2 DEF WiresKept, SameWires
  <2> QED
    BY <2>1, <2>2
<1> QED
  BY <1>1, <1>3, <1>4, <1>5 DEF Inv

(* X are the bits B of terminal k. *)
AreBits(X, d, k, B) == X = {<<d, k, b>> : b \in B}

(* The slaves of d lose the terminals of the bits of X. *)
Removes(d, X) ==
  instTerms' = [i \in Inst |->
    IF i \in Slaves(d) THEN RemoveInstTerms(instTerms[i], X) ELSE instTerms[i]]

(* removeInstTerm() for bits of one terminal. *)
LEMMA RemoveInstTermsIs ==
  ASSUME NEW v, NEW d, NEW k, NEW B, NEW X, AreBits(X, d, k, B)
  PROVE  RemoveInstTerms(v, X) = Cleared(v, terms[d], k, B)
<1>1. \A n : (\E x \in X : Slot(x) = n) <=> \E b \in B : SlotIn(terms[d], k, b) = n
  BY OneDesign DEF AreBits
<1> QED
  BY <1>1 DEF RemoveInstTerms, Cleared

(* An edit that removes bits. *)
LEMMA RemovalInv ==
  ASSUME Inv, NEW d \in designs, SetOrderIDs(d), designs' = designs, model' = model,
         terms' \in [Design -> [TermID -> Term \cup {NoTerm}]],
         \A e \in Design \ {d} : terms'[e] = terms[e],
         NEW k, NEW B, Shrinks(terms[d], terms'[d], k, B),
         NEW X, AreBits(X, d, k, B), Removes(d, X)
  PROVE  Inv' /\ \A i \in Inst : WiresKept(i)
<1>1. d \in Design /\ d # NoDesign /\ Sound(terms[d])
  BY InterfaceAssumption DEF Inv, DesignsOK
<1>2. Sound(terms'[d])
  BY <1>1, ShrinkSound
<1>3. \A i \in Inst : i \in Slaves(d) <=> model[i] = d
  BY DEF Slaves
<1>4. instTerms' = [i \in Inst |-> instTerms'[i]] /\ \A i \in Inst : model[i] # d => instTerms'[i] = instTerms[i]
  BY <1>3 DEF Removes
<1>5. ASSUME NEW i \in Inst, model[i] = d
      PROVE  /\ Fits(instTerms'[i], d, terms'[d])
             /\ SameWires(instTerms[i], terms[d], instTerms'[i], terms'[d])
  <2>0. instTerms'[i] = RemoveInstTerms(instTerms[i], X)
    BY <1>3, <1>5 DEF Removes
  <2>1. instTerms'[i] = Cleared(instTerms[i], terms[d], k, B)
    BY <2>0, RemoveInstTermsIs
  <2>2. Fits(instTerms[i], d, terms[d])
    BY <1>1, <1>5 DEF Inv, InstancesOK
  <2> QED
    BY <1>1, <2>1, <2>2, ShrinkFits
<1> QED
  BY <1>2, <1>4, <1>5, EditInv

(* destroy() of a terminal. *)
LEMMA DestroyTermInv ==
  ASSUME Inv, NEW d \in Design, NEW k \in TermID, DestroyTerm(d, k)
  PROVE  Inv' /\ \A i \in Inst : WiresKept(i)
<1> DEFINE B == terms[d][k].bits
<1>1. /\ d \in designs /\ terms[d][k] # NoTerm /\ SetOrderIDs(d) /\ designs' = designs /\ model' = model
      /\ terms' = [terms EXCEPT ![d][k] = NoTerm]
      /\ Removes(d, BitsOf(d, k))
  BY DEF DestroyTerm, Removes
<1>2. terms \in [Design -> [TermID -> Term \cup {NoTerm}]] /\ Sound(terms[d])
  BY DEF Inv, DesignsOK
<1>3. /\ terms' \in [Design -> [TermID -> Term \cup {NoTerm}]]
      /\ \A e \in Design \ {d} : terms'[e] = terms[e]
      /\ \A j \in TermID \ {k} : terms'[d][j] = terms[d][j]
      /\ terms'[d][k] = NoTerm
  BY <1>1, <1>2
<1>4. k \in Live(terms[d])
  BY <1>1 DEF Live
<1>5. Shrinks(terms[d], terms'[d], k, B)
  BY <1>2, <1>3, <1>4 DEF Shrinks, Sound
<1>6. AreBits(BitsOf(d, k), d, k, B)
  BY DEF BitsOf, AreBits
<1> HIDE DEF B
<1> QED
  BY <1>1, <1>3, <1>5, <1>6, RemovalInv

(* destroy() of one bit of a bus. *)
LEMMA RemoveBitInv ==
  ASSUME Inv, NEW d \in Design, NEW k \in TermID, NEW b \in Int, RemoveBit(<<d, k, b>>)
  PROVE  Inv' /\ \A i \in Inst : WiresKept(i)
<1> DEFINE B == {b}
           t == terms[d][k]
<1>1. /\ d \in designs /\ <<d, k, b>> \in Bits(d) /\ SetOrderIDs(d) /\ designs' = designs /\ model' = model
      /\ terms' = [terms EXCEPT ![d][k].bits = @ \ {b}]
      /\ Removes(d, {<<d, k, b>>})
  BY DEF RemoveBit, Removes
<1>2. terms \in [Design -> [TermID -> Term \cup {NoTerm}]] /\ Sound(terms[d])
  BY DEF Inv, DesignsOK
<1>3. k \in Live(terms[d]) /\ b \in t.bits
  BY <1>1, OneDesign, BitParts
<1>4. /\ t \in Term /\ t # NoTerm /\ Width(t) \in Nat
  BY <1>2, <1>3, LiveType
<1>5. /\ \A e \in Design \ {d} : terms'[e] = terms[e]
      /\ \A j \in TermID \ {k} : terms'[d][j] = terms[d][j]
      /\ terms'[d][k] = [t EXCEPT !.bits = t.bits \ {b}]
      /\ terms' \in [Design -> [TermID -> Term \cup {NoTerm}]]
  <2>1. [t EXCEPT !.bits = t.bits \ {b}] \in Term
    BY <1>4 DEF Term
  <2>2. terms' = [terms EXCEPT ![d] = [terms[d] EXCEPT ![k] = [t EXCEPT !.bits = t.bits \ {b}]]]
    BY <1>1
  <2> DEFINE u == [t EXCEPT !.bits = t.bits \ {b}]
  <2> HIDE DEF u
  <2> QED
    BY <1>2, <2>1, <2>2 DEF u
<1>6. Shrinks(terms[d], terms'[d], k, B)
  <2> DEFINE u == terms'[d][k]
  <2>1. /\ u \in Term /\ u.flat = t.flat /\ u.msb = t.msb /\ u.lsb = t.lsb /\ u.bits = t.bits \ B
    BY <1>4, <1>5 DEF Term
  <2>2. u # NoTerm
    BY <2>1, InterfaceAssumption
  <2>3. Width(u) = Width(t)
    BY <2>1 DEF Width
  <2>4. t.bits \subseteq Span(t.msb, t.lsb)
    BY <1>2, <1>3 DEF Sound
  <2>5. terms'[d] \in [TermID -> Term \cup {NoTerm}]
    BY <1>5
  <2> QED
    BY <1>3, <1>4, <1>5, <2>1, <2>2, <2>3, <2>4, <2>5 DEF Shrinks
<1>7. AreBits({<<d, k, b>>}, d, k, B)
  BY DEF AreBits
<1> HIDE DEF B
<1> QED
  BY <1>1, <1>5, <1>6, <1>7, RemovalInv

(* Resizing keeps bits inside the new range, at either end. *)
LEMMA CutRange ==
  ASSUME NEW m \in Int, NEW l \in Int, NEW x \in Span(m, l), NEW S, S \subseteq Span(m, l)
  PROVE  /\ S \ (Span(m, l) \ Span(m, x)) \subseteq Span(m, x)
         /\ S \ (Span(m, l) \ Span(x, l)) \subseteq Span(x, l)
         /\ x \in Int /\ Distance(m, x) \in Nat /\ Distance(m, l) \in Nat
         /\ Distance(m, x) <= Distance(m, l)
<1>1. x \in Int /\ Distance(m, x) \in Nat /\ Distance(m, l) \in Nat /\ Distance(m, x) <= Distance(m, l)
  BY DEF Span, Distance
<1> QED
  BY <1>1

(* setLSB() *)
LEMMA SetLSBInv ==
  ASSUME Inv, NEW d \in Design, NEW k \in TermID, NEW lsb \in Int, SetLSB(d, k, lsb)
  PROVE  Inv' /\ \A i \in Inst : WiresKept(i)
<1> DEFINE t == terms[d][k]
           B == Span(t.msb, t.lsb) \ Span(t.msb, lsb)
           X == Cutoff(d, k, t.msb, lsb)
           u == [[t EXCEPT !.lsb = lsb] EXCEPT !.bits = t.bits \ B]
<1>1. /\ d \in designs /\ t # NoTerm /\ lsb \in Span(t.msb, t.lsb)
      /\ SetOrderIDs(d) /\ designs' = designs /\ model' = model
      /\ terms' = [terms EXCEPT ![d][k].lsb = lsb, ![d][k].bits = {b \in @ : <<d, k, b>> \notin X}]
      /\ Removes(d, X)
  BY DEF SetLSB, Resizable, Removes
<1>2. terms \in [Design -> [TermID -> Term \cup {NoTerm}]] /\ Sound(terms[d])
  BY DEF Inv, DesignsOK
<1>3. k \in Live(terms[d])
  BY <1>1 DEF Live
<1>4. t \in Term /\ t.msb \in Int /\ t.lsb \in Int /\ t.bits \subseteq Int
  BY <1>2, <1>3, LiveType
<1>5. AreBits(X, d, k, B) /\ \A b : <<d, k, b>> \in X <=> b \in B
  BY DEF Cutoff, AreBits
<1> HIDE DEF X
<1>6. {b \in t.bits : <<d, k, b>> \notin X} = t.bits \ B
  BY <1>5
<1> HIDE DEF B
<1>7. terms' = [terms EXCEPT ![d] = [terms[d] EXCEPT ![k] = u]]
  BY <1>1, <1>2, <1>4, <1>6 DEF Term
<1>8. /\ u \in Term /\ u.flat = t.flat /\ u.msb = t.msb /\ u.lsb = lsb /\ u.bits = t.bits \ B
  BY <1>4 DEF Term
<1> HIDE DEF u
<1>9. /\ \A e \in Design \ {d} : terms'[e] = terms[e]
      /\ \A j \in TermID \ {k} : terms'[d][j] = terms[d][j]
      /\ terms'[d][k] = u
      /\ terms' \in [Design -> [TermID -> Term \cup {NoTerm}]]
  BY <1>2, <1>7, <1>8
<1>10. Shrinks(terms[d], terms'[d], k, B)
  <2>1. u # NoTerm /\ B \subseteq Span(t.msb, t.lsb)
    BY <1>8, InterfaceAssumption DEF B
  <2>2. t.bits \subseteq Span(t.msb, t.lsb)
    BY <1>2, <1>3 DEF Sound
  <2>3. t.bits \ B \subseteq Span(t.msb, lsb) /\ Distance(t.msb, lsb) \in Nat /\ Distance(t.msb, t.lsb) \in Nat
        /\ Distance(t.msb, lsb) <= Distance(t.msb, t.lsb)
    BY <1>1, <1>4, <2>2, CutRange DEF B
  <2>4. Width(u) <= Width(t)
    BY <1>8, <2>3 DEF Width
  <2>5. terms'[d] \in [TermID -> Term \cup {NoTerm}]
    BY <1>9
  <2> QED
    BY <1>3, <1>8, <1>9, <2>1, <2>3, <2>4, <2>5 DEF Shrinks
<1> QED
  BY <1>1, <1>5, <1>9, <1>10, RemovalInv

(* setMSB(): bits are removed, then the others move. *)
LEMMA SetMSBInv ==
  ASSUME Inv, NEW d \in Design, NEW k \in TermID, NEW msb \in Int, SetMSB(d, k, msb)
  PROVE  Inv' /\ \A i \in Inst : WiresKept(i)
<1> DEFINE t == terms[d][k]
           B == Span(t.msb, t.lsb) \ Span(msb, t.lsb)
           X == Cutoff(d, k, msb, t.lsb)
           c == Distance(t.msb, msb)
           m == [t EXCEPT !.bits = t.bits \ B]
           u == [[t EXCEPT !.msb = msb] EXCEPT !.bits = t.bits \ B]
           M == [terms[d] EXCEPT ![k] = m]
           U == terms'[d]
<1>1. /\ d \in designs /\ t # NoTerm /\ msb \in Span(t.msb, t.lsb)
      /\ SetOrderIDs(d) /\ designs' = designs /\ model' = model
      /\ terms' = [terms EXCEPT ![d][k].msb = msb, ![d][k].bits = {b \in @ : <<d, k, b>> \notin X}]
      /\ instTerms' = [i \in Inst |->
           IF i \in Slaves(d) THEN Shifted(RemoveInstTerms(instTerms[i], X), d, k, c) ELSE instTerms[i]]
  BY DEF SetMSB, Resizable
<1>2. terms \in [Design -> [TermID -> Term \cup {NoTerm}]] /\ Sound(terms[d]) /\ d # NoDesign
  BY InterfaceAssumption DEF Inv, DesignsOK
<1>3. k \in Live(terms[d])
  BY <1>1 DEF Live
<1>4. t \in Term /\ t.msb \in Int /\ t.lsb \in Int /\ t.bits \subseteq Int /\ Width(t) \in Nat
  BY <1>2, <1>3, LiveType
<1>5. AreBits(X, d, k, B) /\ \A b : <<d, k, b>> \in X <=> b \in B
  BY DEF Cutoff, AreBits
<1> HIDE DEF X
<1>6. {b \in t.bits : <<d, k, b>> \notin X} = t.bits \ B
  BY <1>5
<1> HIDE DEF B
<1>7. terms' = [terms EXCEPT ![d] = [terms[d] EXCEPT ![k] = u]]
  BY <1>1, <1>2, <1>4, <1>6 DEF Term
<1>8. /\ u \in Term /\ u.flat = t.flat /\ u.msb = msb /\ u.lsb = t.lsb /\ u.bits = t.bits \ B
      /\ m \in Term /\ m.flat = t.flat /\ m.msb = t.msb /\ m.lsb = t.lsb /\ m.bits = t.bits \ B
  BY <1>4 DEF Term
<1> HIDE DEF u, m
<1>9. /\ \A e \in Design \ {d} : terms'[e] = terms[e]
      /\ \A j \in TermID \ {k} : terms'[d][j] = terms[d][j]
      /\ terms'[d][k] = u
      /\ terms' \in [Design -> [TermID -> Term \cup {NoTerm}]]
  BY <1>2, <1>7, <1>8
<1>10. /\ M \in [TermID -> Term \cup {NoTerm}]
       /\ \A j \in TermID \ {k} : M[j] = terms[d][j]
       /\ M[k] = m
  BY <1>2, <1>8
<1> HIDE DEF M
<1>11. /\ u # NoTerm /\ m # NoTerm /\ B \subseteq Span(t.msb, t.lsb)
       /\ t.bits \subseteq Span(t.msb, t.lsb) /\ t.bits \ B \subseteq Span(msb, t.lsb)
  <2>1. u # NoTerm /\ m # NoTerm /\ B \subseteq Span(t.msb, t.lsb)
    BY <1>8, InterfaceAssumption DEF B
  <2>2. t.bits \subseteq Span(t.msb, t.lsb)
    BY <1>2, <1>3 DEF Sound
  <2> QED
    BY <1>1, <1>4, <2>1, <2>2, CutRange DEF B
<1>12. Shrinks(terms[d], M, k, B)
  <2>1. Width(m) <= Width(t)
    BY <1>4, <1>8 DEF Width
  <2> QED
    BY <1>3, <1>8, <1>10, <1>11, <2>1 DEF Shrinks
<1>13. Sound(M) /\ k \in Live(M)
  BY <1>2, <1>10, <1>11, <1>12, ShrinkSound DEF Live
<1>14. Moves(M, U, k, msb)
  <2>1. U \in [TermID -> Term \cup {NoTerm}]
    BY <1>9
  <2>2. /\ M[k].msb = t.msb /\ M[k].lsb = t.lsb /\ M[k].flat = t.flat /\ M[k].bits = t.bits \ B
        /\ U[k].msb = msb /\ U[k].lsb = t.lsb /\ U[k].flat = t.flat /\ U[k].bits = t.bits \ B
        /\ U[k] # NoTerm
    BY <1>8, <1>9, <1>10, <1>11
  <2>3. \A j \in TermID \ {k} : U[j] = M[j]
    BY <1>9, <1>10
  <2>4. msb \in Span(M[k].msb, M[k].lsb) /\ M[k].bits \subseteq Span(msb, M[k].lsb)
    BY <1>1, <1>11, <2>2
  <2> HIDE DEF U
  <2> QED
    BY <1>13, <2>1, <2>2, <2>3, <2>4 DEF Moves
<1>15. Sound(U)
  BY <1>13, <1>14, MoveSound
<1>16. \A i \in Inst : i \in Slaves(d) <=> model[i] = d
  BY DEF Slaves
<1>17. instTerms' = [i \in Inst |-> instTerms'[i]] /\ \A i \in Inst : model[i] # d => instTerms'[i] = instTerms[i]
  BY <1>1, <1>16
<1>18. ASSUME NEW i \in Inst, model[i] = d
       PROVE  /\ Fits(instTerms'[i], d, U)
              /\ SameWires(instTerms[i], terms[d], instTerms'[i], U)
  <2> DEFINE v == instTerms[i]
             w == Cleared(v, terms[d], k, B)
             z == ShiftedIn(w, M[k], Distance(M[k].msb, msb))
  <2>1. instTerms'[i] = Shifted(RemoveInstTerms(v, X), d, k, c)
    BY <1>1, <1>16, <1>18
  <2>2. RemoveInstTerms(v, X) = w
    BY <1>5, RemoveInstTermsIs
  <2>3. Fits(v, d, terms[d])
    BY <1>2, <1>18 DEF Inv, InstancesOK
  <2>4. Fits(w, d, M) /\ SameWires(v, terms[d], w, M)
    BY <1>2, <1>12, <2>3, ShrinkFits
  <2> HIDE DEF w, v
  <2>5. M[k].flat = t.flat /\ M[k].msb = t.msb /\ Width(M[k]) = Width(t)
    BY <1>8, <1>10 DEF Width
  <2>6. Shifted(w, d, k, c) = z
    BY <2>5 DEF Shifted, ShiftedIn
  <2>7. Fits(z, d, U) /\ SameWires(w, M, z, U)
    BY <1>13, <1>14, <2>4, MoveFits
  <2> HIDE DEF z
  <2>8. SameWires(v, terms[d], z, U)
    <3> SUFFICES ASSUME NEW j \in Live(terms[d]) \cap Live(U), NEW b \in terms[d][j].bits \cap U[j].bits
                 PROVE  z[SlotIn(U, j, b)].wired = v[SlotIn(terms[d], j, b)].wired
      BY DEF SameWires
    <3>1. j \in Live(M) /\ b \in M[j].bits
      <4>1. CASE j = k
        BY <1>8, <1>9, <1>10, <1>13, <4>1
      <4>2. CASE j # k
        BY <1>9, <1>10, <4>2 DEF Live
      <4> QED
        BY <4>1, <4>2
    <3>2. w[SlotIn(M, j, b)].wired = v[SlotIn(terms[d], j, b)].wired
      BY <2>4, <3>1 DEF SameWires
    <3>3. z[SlotIn(U, j, b)].wired = w[SlotIn(M, j, b)].wired
      BY <2>7, <3>1 DEF SameWires
    <3> QED
      BY <3>2, <3>3
  <2> QED
    BY <2>1, <2>2, <2>6, <2>7, <2>8 DEF v
<1> QED
  BY <1>1, <1>9, <1>15, <1>17, <1>18, EditInv

(* create() of a terminal. *)
LEMMA CreateTermInv ==
  ASSUME Habits = {}, Inv, NEW d \in Design, NEW k \in TermID, NEW bus \in BOOLEAN,
         NEW msb \in Int, NEW lsb \in Int, CreateTerm(d, k, bus, msb, lsb)
  PROVE  Inv' /\ \A i \in Inst : WiresKept(i)
<1> DEFINE T == terms[d]
           t == [bus |-> bus, flat |-> NextFlatID(d), msb |-> msb, lsb |-> lsb, bits |-> Span(msb, lsb)]
           s == NewInstTerms(BitsOf(d, k))'
           U == terms'[d]
<1>1. /\ d \in designs /\ T[k] = NoTerm
      /\ \A j \in IDs(d) : j < k
      /\ \A i \in Slaves(d) : Len(instTerms[i]) = NextFlatID(d)
      /\ terms' = [terms EXCEPT ![d][k] = t]
      /\ instTerms' = [i \in Inst |-> IF i \in Slaves(d) THEN instTerms[i] \o s ELSE instTerms[i]]
      /\ SetOrderIDs(d) /\ designs' = designs /\ model' = model
  BY DEF CreateTerm
<1>2. terms \in [Design -> [TermID -> Term \cup {NoTerm}]] /\ Sound(T) /\ d # NoDesign
  BY InterfaceAssumption DEF Inv, DesignsOK
<1>3. IDs(d) = Live(T) /\ NextFlatID(d) = NextFlat(T) /\ NextFlat(T) \in Nat
  BY <1>2, OneDesign, NextFlatBehind
<1>4. /\ t \in Term /\ t.flat = NextFlat(T) /\ t.bits = Span(t.msb, t.lsb)
  <2>1. Span(msb, lsb) \in SUBSET Int
    BY Positions
  <2> QED
    BY <1>3, <2>1 DEF Term
<1> HIDE DEF t
<1>5. /\ \A e \in Design \ {d} : terms'[e] = terms[e]
      /\ \A j \in TermID \ {k} : terms'[d][j] = terms[d][j]
      /\ terms'[d][k] = t
      /\ terms' \in [Design -> [TermID -> Term \cup {NoTerm}]]
  BY <1>1, <1>2, <1>4
<1>6. Grows(T, U, k)
  <2>1. U \in [TermID -> Term \cup {NoTerm}] /\ t # NoTerm
    BY <1>4, <1>5, InterfaceAssumption
  <2>2. k \notin Live(T)
    BY <1>1 DEF Live
  <2> QED
    BY <1>1, <1>3, <1>4, <1>5, <2>1, <2>2 DEF Grows
<1>7. Sound(U)
  BY <1>2, <1>6, GrowSound
<1>8. /\ s \in Seq(InstTerm) /\ Len(s) = Width(U[k])
      /\ \A b \in U[k].bits : s[Distance(b, U[k].msb) + 1].bit = <<d, k, b>>
  BY <1>4, <1>5, NewTermSeq
<1> HIDE DEF s
<1>9. \A i \in Inst : i \in Slaves(d) <=> model[i] = d
  BY DEF Slaves
<1>10. instTerms' = [i \in Inst |-> instTerms'[i]] /\ \A i \in Inst : model[i] # d => instTerms'[i] = instTerms[i]
  BY <1>1, <1>9
<1>11. ASSUME NEW i \in Inst, model[i] = d
       PROVE  /\ Fits(instTerms'[i], d, U)
              /\ SameWires(instTerms[i], T, instTerms'[i], U)
  <2>1. instTerms'[i] = instTerms[i] \o s /\ Len(instTerms[i]) = NextFlat(T)
    BY <1>1, <1>3, <1>9, <1>11
  <2>2. Fits(instTerms[i], d, T)
    BY <1>2, <1>11 DEF Inv, InstancesOK
  <2>3. PICK v : v = instTerms[i]
    OBVIOUS
  <2>4. Fits(v, d, T) /\ Len(v) = NextFlat(T) /\ instTerms'[i] = v \o s
    BY <2>1, <2>2, <2>3
  <2>5. Fits(v \o s, d, U) /\ SameWires(v, T, v \o s, U)
    <3> HIDE DEF T, U
    <3> QED
      BY <1>2, <1>6, <1>8, <2>4, GrowFits
  <2> QED
    BY <2>3, <2>4, <2>5
<1> QED
  BY <1>1, <1>5, <1>7, <1>10, <1>11, EditInv

-----------------------------------------------------------------------------
(* Operations on instances leave the designs alone. *)

(* A step that only changes instances leaves the designs alone. *)
LEMMA InstanceStep ==
  ASSUME Inv, designs' = designs, terms' = terms, orderID' = orderID
  PROVE  DesignsOK' /\ OrdersOK'
<1>1. DesignsOK'
  BY DEF Inv, DesignsOK
<1>2. \A d \in Design : Bits(d)' = Bits(d) /\ \A x \in Bits(d) : Rank(x)' = Rank(x)
  BY RankNext
<1>3. OrdersOK'
  BY <1>2 DEF Inv, OrdersOK, OrderIDsAreRanks
<1> QED
  BY <1>1, <1>3

(* create() of an instance. *)
LEMMA CreateInstanceInv ==
  ASSUME Habits = {}, Inv, NEW i \in Inst, NEW d \in Design, CreateInstance(i, d)
  PROVE  Inv' /\ \A j \in Inst : WiresKept(j)
<1> DEFINE v == NewInstTerms(Bits(d))
<1>1. /\ d \in designs /\ model[i] = NoDesign /\ Cardinality(Bits(d)) = NextFlatID(d)
      /\ model' = [model EXCEPT ![i] = d]
      /\ instTerms' = [instTerms EXCEPT ![i] = v]
      /\ designs' = designs /\ terms' = terms /\ orderID' = orderID
  BY DEF CreateInstance
<1>2. Sound(terms[d]) /\ d # NoDesign /\ InstancesOK
  BY InterfaceAssumption DEF Inv, DesignsOK
<1>3. Fits(v, d, terms[d])
  BY <1>1, <1>2, NewFits
<1> HIDE DEF v
<1>4. v \in Seq(InstTerm \cup {NoInstTerm})
  BY <1>3 DEF Fits
<1>5. /\ \A j \in Inst : model'[j] = IF j = i THEN d ELSE model[j]
      /\ \A j \in Inst : instTerms'[j] = IF j = i THEN v ELSE instTerms[j]
      /\ model' \in [Inst -> designs' \cup {NoDesign}]
      /\ instTerms' \in [Inst -> Seq(InstTerm \cup {NoInstTerm})]
  BY <1>1, <1>2, <1>4 DEF InstancesOK
<1>6. InstancesOK'
  BY <1>1, <1>2, <1>3, <1>5 DEF InstancesOK
<1>7. \A j \in Inst : WiresKept(j)
  BY <1>1, <1>5 DEF WiresKept, SameWires
<1> QED
  BY <1>1, <1>6, <1>7, InstanceStep DEF Inv

(* destroy() of an instance. *)
LEMMA DestroyInstanceInv ==
  ASSUME Inv, NEW i \in Inst, DestroyInstance(i)
  PROVE  Inv' /\ \A j \in Inst : WiresKept(j)
<1>1. /\ model' = [model EXCEPT ![i] = NoDesign] /\ instTerms' = [instTerms EXCEPT ![i] = <<>>]
      /\ designs' = designs /\ terms' = terms /\ orderID' = orderID
  BY DEF DestroyInstance
<1>2. InstancesOK
  BY DEF Inv
<1>3. /\ \A j \in Inst : model'[j] = IF j = i THEN NoDesign ELSE model[j]
      /\ \A j \in Inst : instTerms'[j] = IF j = i THEN <<>> ELSE instTerms[j]
      /\ model' \in [Inst -> designs' \cup {NoDesign}]
      /\ instTerms' \in [Inst -> Seq(InstTerm \cup {NoInstTerm})]
  BY <1>1, <1>2 DEF InstancesOK
<1>4. InstancesOK'
  BY <1>1, <1>2, <1>3 DEF InstancesOK
<1>5. \A j \in Inst : WiresKept(j)
  BY <1>1, <1>3 DEF WiresKept, SameWires
<1> QED
  BY <1>1, <1>4, <1>5, InstanceStep DEF Inv

(* An entry of a vector that changes but not its bit. *)
LEMMA RewireFits ==
  ASSUME NEW v, NEW d, NEW T, Fits(v, d, T), NEW w \in Seq(InstTerm \cup {NoInstTerm}),
         Len(w) = Len(v),
         \A n \in DOMAIN v : (w[n] = NoInstTerm <=> v[n] = NoInstTerm)
                             /\ (v[n] # NoInstTerm => w[n].bit = v[n].bit),
         \A k \in Live(T) : \A b \in T[k].bits : SlotIn(T, k, b) \in DOMAIN v
  PROVE  Fits(w, d, T)
<1>1. v \in Seq(InstTerm \cup {NoInstTerm}) /\ DOMAIN w = DOMAIN v
  BY DEF Fits
<1>2. ASSUME NEW n \in DOMAIN w, w[n] # NoInstTerm PROVE InPlace(T, d, n, w[n])
  <2>1. v[n] # NoInstTerm /\ w[n].bit = v[n].bit /\ w[n] \in InstTerm
    BY <1>1, <1>2
  <2>2. InPlace(T, d, n, v[n])
    BY <1>1, <2>1 DEF Fits
  <2> QED
    BY <2>1, <2>2 DEF InPlace
<1> QED
  BY <1>1, <1>2 DEF Fits

(* setNet() on an instance terminal. *)
LEMMA SetNetInv ==
  ASSUME Inv, NEW i \in Inst, NEW n \in DOMAIN instTerms[i], SetNet(i, n)
  PROVE  Inv' /\ \A j \in Inst \ {i} : WiresKept(j)
<1> DEFINE v == instTerms[i]
           w == [v EXCEPT ![n] = [v[n] EXCEPT !.wired = ~v[n].wired]]
<1>1. /\ v[n] # NoInstTerm /\ model' = model
      /\ designs' = designs /\ terms' = terms /\ orderID' = orderID
      /\ instTerms' = [instTerms EXCEPT ![i] = w]
  BY DEF SetNet
<1>2. InstancesOK /\ DesignsOK
  BY DEF Inv
<1>3. v \in Seq(InstTerm \cup {NoInstTerm}) /\ v[n] \in InstTerm
  BY <1>1, <1>2 DEF InstancesOK
<1>4. [v[n] EXCEPT !.wired = ~v[n].wired] \in InstTerm
      /\ [v[n] EXCEPT !.wired = ~v[n].wired].bit = v[n].bit
  BY <1>3 DEF InstTerm
<1>5. /\ w \in Seq(InstTerm \cup {NoInstTerm}) /\ Len(w) = Len(v)
      /\ \A m \in DOMAIN v : (w[m] = NoInstTerm <=> v[m] = NoInstTerm)
                             /\ (v[m] # NoInstTerm => w[m].bit = v[m].bit)
  <2> DEFINE x == [v[n] EXCEPT !.wired = ~v[n].wired]
  <2>1. x \in InstTerm /\ x.bit = v[n].bit /\ x # NoInstTerm
    BY <1>4, InterfaceAssumption
  <2> HIDE DEF x
  <2>2. w = [v EXCEPT ![n] = x]
    BY DEF x
  <2> HIDE DEF w, v
  <2>3. DOMAIN v = 1 .. Len(v) /\ n \in DOMAIN v
    BY <1>3 DEF v
  <2>4. \A m \in DOMAIN v : w[m] = IF m = n THEN x ELSE v[m]
    BY <2>2
  <2>5. w \in Seq(InstTerm \cup {NoInstTerm}) /\ Len(w) = Len(v)
    BY <1>3, <2>1, <2>2, <2>3
  <2> QED
    BY <1>1, <2>1, <2>3, <2>4, <2>5
<1>6. ASSUME model[i] # NoDesign PROVE Fits(w, model[i], terms[model[i]])
  <2>1. Fits(v, model[i], terms[model[i]]) /\ Sound(terms[model[i]])
    BY <1>2, <1>6 DEF InstancesOK, DesignsOK
  <2>2. \A k \in Live(terms[model[i]]) : \A b \in terms[model[i]][k].bits :
          SlotIn(terms[model[i]], k, b) \in DOMAIN v
    BY <2>1, FitsLookup
  <2> HIDE DEF v, w
  <2> QED
    BY <1>5, <2>1, <2>2, RewireFits
<1> HIDE DEF w
<1>7. /\ \A j \in Inst : instTerms'[j] = IF j = i THEN w ELSE instTerms[j]
      /\ instTerms' \in [Inst -> Seq(InstTerm \cup {NoInstTerm})]
  BY <1>1, <1>2, <1>5 DEF InstancesOK
<1>8. model[i] # NoDesign
  BY <1>2, <1>3 DEF InstancesOK
<1>9. InstancesOK'
  BY <1>1, <1>2, <1>6, <1>7, <1>8 DEF InstancesOK
<1>10. \A j \in Inst \ {i} : WiresKept(j)
  BY <1>1, <1>7 DEF WiresKept, SameWires
<1> QED
  BY <1>1, <1>9, <1>10, InstanceStep DEF Inv

(* Design U has the terminals of T at the same places. *)
SamePlaces(T, U) ==
  /\ Live(U) = Live(T)
  /\ \A k \in Live(T) : U[k].flat = T[k].flat /\ U[k].msb = T[k].msb /\ U[k].lsb = T[k].lsb
                        /\ U[k].bits = T[k].bits

(* Such a model can be exchanged. *)
LEMMA ReboundFits ==
  ASSUME NEW v, NEW d, NEW T, Sound(T), Fits(v, d, T),
         NEW e \in Design, NEW U, SamePlaces(T, U)
  PROVE  Fits(Rebound(v, e), e, U) /\ SameWires(v, T, Rebound(v, e), U)
<1> DEFINE w == Rebound(v, e)
<1>1. v \in Seq(InstTerm \cup {NoInstTerm}) /\ Len(v) \in Nat /\ DOMAIN v = 1 .. Len(v)
  BY DEF Fits
<1>2. /\ Live(U) = Live(T) /\ \A k \in Live(T) : U[k].bits = T[k].bits /\ End(U[k]) = End(T[k])
      /\ \A k \in Live(T) : \A b : SlotIn(U, k, b) = SlotIn(T, k, b)
  BY DEF SamePlaces, End, Width, SlotIn
<1>3. ASSUME NEW n \in DOMAIN v
      PROVE  /\ v[n] = NoInstTerm => w[n] = NoInstTerm
             /\ v[n] # NoInstTerm => w[n] \in InstTerm /\ w[n].wired = v[n].wired
                                     /\ w[n].bit = <<e, v[n].bit[2], v[n].bit[3]>>
  <2>1. v[n] = NoInstTerm => w[n] = NoInstTerm
    BY DEF Rebound
  <2>2. ASSUME v[n] # NoInstTerm
        PROVE  w[n] \in InstTerm /\ w[n].wired = v[n].wired /\ w[n].bit = <<e, v[n].bit[2], v[n].bit[3]>>
    <3>1. v[n] \in InstTerm
      BY <1>1, <2>2
    <3>2. v[n].bit[2] \in TermID /\ v[n].bit[3] \in Int
      BY <3>1 DEF InstTerm, Bit
    <3>3. w[n] = [v[n] EXCEPT !.bit = <<e, v[n].bit[2], v[n].bit[3]>>]
      BY <2>2 DEF Rebound
    <3> QED
      BY <3>1, <3>2, <3>3 DEF InstTerm, Bit
  <2> QED
    BY <2>1, <2>2
<1>4. DOMAIN w = DOMAIN v /\ w = [n \in 1 .. Len(v) |-> w[n]]
  BY <1>1 DEF Rebound
<1> HIDE DEF w
<1>5. w \in Seq(InstTerm \cup {NoInstTerm}) /\ Len(w) = Len(v)
  BY <1>1, <1>3, <1>4
<1>6. ASSUME NEW n \in DOMAIN w, w[n] # NoInstTerm PROVE InPlace(U, e, n, w[n])
  <2>1. n \in DOMAIN v /\ v[n] # NoInstTerm
    BY <1>3, <1>4, <1>6
  <2>2. InPlace(T, d, n, v[n])
    BY <2>1 DEF Fits
  <2>3. PICK k \in Live(T) : \E b \in T[k].bits : SlotIn(T, k, b) = n /\ v[n].bit = <<d, k, b>>
    BY <2>2 DEF InPlace
  <2>4. PICK b \in T[k].bits : SlotIn(T, k, b) = n /\ v[n].bit = <<d, k, b>>
    BY <2>3
  <2>5. w[n] \in InstTerm /\ w[n].bit = <<e, k, b>>
    BY <1>3, <2>1, <2>4
  <2> QED
    BY <1>2, <2>4, <2>5 DEF InPlace
<1>7. ASSUME NEW k \in Live(T), NEW b \in T[k].bits
      PROVE  /\ w[SlotIn(U, k, b)] # NoInstTerm
             /\ w[SlotIn(U, k, b)].wired = v[SlotIn(T, k, b)].wired
  <2>1. SlotIn(T, k, b) \in DOMAIN v /\ v[SlotIn(T, k, b)] # NoInstTerm /\ SlotIn(U, k, b) = SlotIn(T, k, b)
    BY <1>2, FitsLookup
  <2>2. \A t \in InstTerm : t # NoInstTerm
    BY InterfaceAssumption
  <2> QED
    BY <1>3, <2>1, <2>2
<1>8. Fits(w, e, U)
  BY <1>2, <1>5, <1>6, <1>7 DEF Fits
<1>9. SameWires(v, T, w, U)
  BY <1>7 DEF SameWires
<1> QED
  BY <1>8, <1>9 DEF w

(* setModel() *)
LEMMA SetModelInv ==
  ASSUME Habits = {}, Inv, NEW i \in Inst, NEW e \in Design, SetModel(i, e)
  PROVE  Inv' /\ \A j \in Inst : WiresKept(j)
<1> DEFINE d == model[i]
           v == instTerms[i]
           w == Rebound(v, e)
<1>1. /\ d # NoDesign /\ e \in designs /\ SameInterface(d, e) /\ SameLayout(d, e)
      /\ model' = [model EXCEPT ![i] = e]
      /\ designs' = designs /\ terms' = terms /\ orderID' = orderID
  BY DEF SetModel
<1>2. instTerms' = [instTerms EXCEPT ![i] = w]
  BY DEF SetModel, Rebound
<1>3. InstancesOK /\ DesignsOK /\ e # NoDesign
  BY InterfaceAssumption DEF Inv
<1>4. d \in Design /\ Sound(terms[d]) /\ Fits(v, d, terms[d])
  BY <1>1, <1>3 DEF InstancesOK, DesignsOK
<1>5. SamePlaces(terms[d], terms[e])
  <2>1. IDs(d) = Live(terms[d]) /\ IDs(e) = Live(terms[e])
    BY OneDesign
  <2> QED
    BY <1>1, <2>1 DEF SamePlaces, SameInterface, SameLayout
<1>6. Fits(w, e, terms[e]) /\ SameWires(v, terms[d], w, terms[e])
  BY <1>4, <1>5, ReboundFits
<1> HIDE DEF w
<1>7. w \in Seq(InstTerm \cup {NoInstTerm})
  BY <1>6 DEF Fits
<1>8. /\ \A j \in Inst : model'[j] = IF j = i THEN e ELSE model[j]
      /\ \A j \in Inst : instTerms'[j] = IF j = i THEN w ELSE instTerms[j]
      /\ model' \in [Inst -> designs' \cup {NoDesign}]
      /\ instTerms' \in [Inst -> Seq(InstTerm \cup {NoInstTerm})]
  BY <1>1, <1>2, <1>3, <1>7 DEF InstancesOK
<1>9. InstancesOK'
  BY <1>1, <1>3, <1>6, <1>8 DEF InstancesOK
<1>10. ASSUME NEW j \in Inst PROVE WiresKept(j)
  <2>1. CASE j = i
    BY <1>1, <1>6, <1>8, <2>1 DEF WiresKept
  <2>2. CASE j # i
    BY <1>1, <1>8, <2>2 DEF WiresKept, SameWires
  <2> QED
    BY <2>1, <2>2
<1> QED
  BY <1>1, <1>9, <1>10, InstanceStep DEF Inv

(* cloneInterface() *)
LEMMA CloneInterfaceInv ==
  ASSUME Inv, NEW d \in Design, NEW e \in Design, CloneInterface(d, e)
  PROVE  Inv' /\ \A i \in Inst : WiresKept(i)
<1> DEFINE T == terms[d]
           U == [k \in TermID |-> IF k \in IDs(d)
                  THEN [T[k] EXCEPT !.bits = Span(T[k].msb, T[k].lsb)] ELSE NoTerm]
<1>1. /\ d \in designs /\ e \notin designs /\ designs' = designs \cup {e}
      /\ terms' = [terms EXCEPT ![e] = U]
      /\ orderID' = [orderID EXCEPT ![e] = [x \in Bits(e)' |-> -1]]
      /\ model' = model /\ instTerms' = instTerms
  BY DEF CloneInterface
<1>2. DesignsOK /\ InstancesOK /\ OrdersOK /\ Sound(T) /\ IDs(d) = Live(T)
  BY OneDesign DEF Inv, DesignsOK
<1>3. ASSUME NEW k \in Live(T)
      PROVE  /\ U[k] \in Term /\ U[k] # NoTerm /\ U[k].flat = T[k].flat /\ U[k].msb = T[k].msb
             /\ U[k].lsb = T[k].lsb /\ U[k].bits = Span(T[k].msb, T[k].lsb) /\ End(U[k]) = End(T[k])
  <2>1. k \in TermID /\ T[k] \in Term /\ T[k].msb \in Int /\ T[k].lsb \in Int
    BY <1>2, LiveType
  <2>2. U[k] = [T[k] EXCEPT !.bits = Span(T[k].msb, T[k].lsb)] /\ Span(T[k].msb, T[k].lsb) \in SUBSET Int
    BY <1>2, <2>1, Positions
  <2>3. /\ U[k] \in Term /\ U[k].flat = T[k].flat /\ U[k].msb = T[k].msb
        /\ U[k].lsb = T[k].lsb /\ U[k].bits = Span(T[k].msb, T[k].lsb)
    BY <2>1, <2>2 DEF Term
  <2> QED
    BY <2>3, InterfaceAssumption DEF End, Width
<1>4. \A k \in TermID \ Live(T) : U[k] = NoTerm
  BY <1>2
<1>5. U = [k \in TermID |-> U[k]] /\ Live(T) \subseteq TermID
  BY DEF Live
<1> HIDE DEF U
<1>6. U \in [TermID -> Term \cup {NoTerm}] /\ Live(U) = Live(T)
  <2>1. \A k \in TermID : U[k] \in Term \cup {NoTerm}
    BY <1>3, <1>4
  <2>2. U \in [TermID -> Term \cup {NoTerm}]
    BY <1>5, <2>1
  <2>3. \A k \in TermID : U[k] # NoTerm <=> k \in Live(T)
    BY <1>3, <1>4
  <2> QED
    BY <1>5, <2>2, <2>3 DEF Live
<1>7. Sound(U)
  BY <1>2, <1>3, <1>6 DEF Sound
<1>8. terms' \in [Design -> [TermID -> Term \cup {NoTerm}]] /\ \A x \in Design : terms'[x] = IF x = e THEN U ELSE terms[x]
  BY <1>1, <1>2, <1>6 DEF DesignsOK
<1>9. DesignsOK'
  BY <1>1, <1>2, <1>7, <1>8 DEF DesignsOK
<1>10. \A i \in Inst : model[i] # NoDesign => model[i] \in Design /\ terms'[model[i]] = terms[model[i]]
  BY <1>1, <1>2, <1>8 DEF DesignsOK, InstancesOK
<1>11. InstancesOK'
  BY <1>1, <1>2, <1>10 DEF InstancesOK
<1>12. OrdersOK'
  <2> DEFINE F == [x \in Bits(e)' |-> -1]
  <2>1. orderID' = [orderID EXCEPT ![e] = F] /\ \A x \in Bits(e)' : F[x] = -1
    BY <1>1
  <2> HIDE DEF F
  <2> QED
    BY <1>2, <1>8, <2>1, OrdersNext
<1>13. \A i \in Inst : WiresKept(i)
  BY <1>1, <1>10 DEF WiresKept, SameWires
<1> QED
  BY <1>9, <1>11, <1>12, <1>13 DEF Inv

-----------------------------------------------------------------------------
(* The empty design. *)
LEMMA InvInit ==
  ASSUME Init
  PROVE  Inv
<1> DEFINE T == [k \in TermID |-> NoTerm]
<1>1. \A d \in Design : terms[d] = T
  BY DEF Init
<1>2. Live(T) = {} /\ T \in [TermID -> Term \cup {NoTerm}]
  BY DEF Live
<1> HIDE DEF T
<1>3. Sound(T)
  BY <1>2 DEF Sound
<1>4. DesignsOK
  <2>1. designs \subseteq Design /\ terms = [d \in Design |-> T]
    BY DEF Init, T
  <2> QED
    BY <1>1, <1>2, <1>3, <2>1 DEF DesignsOK
<1>5. InstancesOK
  <2>1. <<>> \in Seq(InstTerm \cup {NoInstTerm})
    OBVIOUS
  <2> QED
    BY <2>1 DEF Init, InstancesOK
<1>6. \A d \in Design : Bits(d) = {}
  BY <1>1, <1>2 DEF Bits, IDs, Live
<1>7. OrdersOK
  BY <1>6 DEF OrdersOK, OrderIDsAreRanks, Init
<1> QED
  BY <1>4, <1>5, <1>7 DEF Inv

(* Every step of clients without bad habits keeps the invariant, and the   *)
(* connections of every instance that setNet() is not called on.           *)
LEMMA InvNext ==
  ASSUME Habits = {}, Inv, Next
  PROVE  /\ Inv'
         /\ \A i \in Inst : WiresKept(i) \/ \E n \in DOMAIN instTerms[i] : SetNet(i, n)
<1>1. ASSUME NEW d \in Design, NEW k \in TermID, EditTerm(d, k)
      PROVE  Inv' /\ \A i \in Inst : WiresKept(i)
  <2>1. CASE CreateTerm(d, k, FALSE, 0, 0)
    <3>1. PICK bus \in BOOLEAN : bus = FALSE
      BY Zenon
    <3>2. CreateTerm(d, k, bus, 0, 0)
      BY <2>1, <3>1, Zenon
    <3> QED
      BY <3>2, CreateTermInv
  <2>2. CASE \E r \in Ranges : CreateTerm(d, k, TRUE, r[1], r[2])
    <3>1. PICK r \in Ranges : CreateTerm(d, k, TRUE, r[1], r[2])
      BY <2>2
    <3>2. r[1] \in Int /\ r[2] \in Int
      BY InterfaceAssumption
    <3> QED
      BY <3>1, <3>2, CreateTermInv
  <2>3. CASE DestroyTerm(d, k)
    BY <2>3, DestroyTermInv
  <2>4. CASE \E r \in Ranges : \E b \in Span(r[1], r[2]) :
               RemoveBit(<<d, k, b>>) \/ SetMSB(d, k, b) \/ SetLSB(d, k, b)
    <3>1. PICK r \in Ranges : \E b \in Span(r[1], r[2]) :
                 RemoveBit(<<d, k, b>>) \/ SetMSB(d, k, b) \/ SetLSB(d, k, b)
      BY <2>4
    <3>2. PICK b \in Span(r[1], r[2]) : RemoveBit(<<d, k, b>>) \/ SetMSB(d, k, b) \/ SetLSB(d, k, b)
      BY <3>1
    <3>3. r[1] \in Int /\ r[2] \in Int
      BY InterfaceAssumption
    <3>4. b \in Int
      BY <3>3, Positions
    <3> QED
      BY <3>2, <3>4, RemoveBitInv, SetMSBInv, SetLSBInv
  <2> QED
    BY <1>1, <2>1, <2>2, <2>3, <2>4 DEF EditTerm
<1>2. ASSUME NEW i \in Inst, EditInstance(i)
      PROVE  /\ Inv'
             /\ \A j \in Inst : WiresKept(j) \/ \E n \in DOMAIN instTerms[j] : SetNet(j, n)
  <2>1. CASE DestroyInstance(i)
    BY <2>1, DestroyInstanceInv
  <2>2. CASE \E d \in Design : CreateInstance(i, d)
    BY <2>2, CreateInstanceInv
  <2>3. CASE \E d \in Design : SetModel(i, d)
    BY <2>3, SetModelInv
  <2>4. CASE \E n \in DOMAIN instTerms[i] : SetNet(i, n)
    <3>1. PICK n \in DOMAIN instTerms[i] : SetNet(i, n)
      BY <2>4
    <3>2. Inv' /\ \A j \in Inst \ {i} : WiresKept(j)
      BY <3>1, SetNetInv
    <3> QED
      BY <2>4, <3>2
  <2> QED
    BY <1>2, <2>1, <2>2, <2>3, <2>4 DEF EditInstance
<1>3. ASSUME NEW d \in Design, NEW e \in Design, CloneInterface(d, e)
      PROVE  Inv' /\ \A i \in Inst : WiresKept(i)
  BY <1>3, CloneInterfaceInv
<1> QED
  BY <1>1, <1>2, <1>3 DEF Next

(* Nothing happens. *)
LEMMA InvStutter ==
  ASSUME Inv, UNCHANGED vars
  PROVE  Inv'
<1>1. DesignsOK' /\ OrdersOK'
  BY InstanceStep DEF vars
<1> QED
  BY <1>1 DEF Inv, InstancesOK, vars

(* The inductive invariant holds in every reachable state. *)
LEMMA SpecInv ==
  ASSUME Habits = {}
  PROVE  Spec => []Inv
<1>1. Init => Inv
  BY InvInit
<1>2. Inv /\ [Next]_vars => Inv'
  BY InvNext, InvStutter
<1> QED
  BY <1>1, <1>2, PTL DEF Spec

-----------------------------------------------------------------------------
(* What the invariant says of the bits of the model of an instance. *)
LEMMA BitsOfModel ==
  ASSUME Inv, NEW d \in Design, NEW x \in Bits(d)
  PROVE  \E k \in Live(terms[d]) : \E b \in terms[d][k].bits :
           x = <<d, k, b>> /\ b \in Span(terms[d][k].msb, terms[d][k].lsb)
<1>1. Sound(terms[d]) /\ x \in BitsIn(d, terms[d])
  BY OneDesign DEF Inv, DesignsOK
<1> QED
  BY <1>1 DEF BitsIn, Sound

(* The invariant implies what getInstTerm() needs. *)
LEMMA InvLookup ==
  ASSUME Inv
  PROVE  LookupFindsBit
<1> SUFFICES ASSUME NEW i \in Inst, model[i] # NoDesign, NEW x \in Bits(model[i])
             PROVE  /\ Slot(x) \in DOMAIN instTerms[i]
                    /\ instTerms[i][Slot(x)] # NoInstTerm
                    /\ instTerms[i][Slot(x)].bit = x
  BY DEF LookupFindsBit
<1> DEFINE d == model[i]
           T == terms[d]
<1>1. d \in Design /\ Sound(T) /\ Fits(instTerms[i], d, T)
  BY DEF Inv, DesignsOK, InstancesOK
<1>2. PICK k \in Live(T) : \E b \in T[k].bits : x = <<d, k, b>>
  BY <1>1, BitsOfModel
<1>3. PICK b \in T[k].bits : x = <<d, k, b>>
  BY <1>2
<1>4. Slot(x) = SlotIn(T, k, b)
  BY <1>3, OneDesign
<1> QED
  BY <1>1, <1>3, <1>4, FitsLookup

(* Every entry is in place, so its bit exists. *)
LEMMA InvNoDangling ==
  ASSUME Inv
  PROVE  NoDanglingInstTerm
<1> SUFFICES ASSUME NEW i \in Inst, NEW n \in DOMAIN instTerms[i], instTerms[i][n] # NoInstTerm
             PROVE  model[i] # NoDesign /\ instTerms[i][n].bit \in Bits(model[i])
  BY DEF NoDanglingInstTerm
<1>1. model[i] # NoDesign
  BY DEF Inv, InstancesOK
<1>2. model[i] \in Design /\ Fits(instTerms[i], model[i], terms[model[i]])
  BY <1>1 DEF Inv, DesignsOK, InstancesOK
<1>3. InPlace(terms[model[i]], model[i], n, instTerms[i][n])
  BY <1>2 DEF Fits
<1>4. instTerms[i][n].bit \in BitsIn(model[i], terms[model[i]])
  BY <1>3 DEF InPlace, BitsIn
<1> QED
  BY <1>1, <1>4, OneDesign

(* Terminals lie one behind the other, so their flat IDs differ. *)
LEMMA InvFlatIDs ==
  ASSUME Inv
  PROVE  FlatIDsDistinct
<1> SUFFICES ASSUME NEW d \in Design, NEW x \in Bits(d), NEW y \in Bits(d), FlatID(x) = FlatID(y)
             PROVE  x = y
  BY DEF FlatIDsDistinct
<1>1. PICK j \in Live(terms[d]) : \E a \in terms[d][j].bits :
             x = <<d, j, a>> /\ a \in Span(terms[d][j].msb, terms[d][j].lsb)
  BY BitsOfModel
<1>2. PICK a \in terms[d][j].bits : x = <<d, j, a>> /\ a \in Span(terms[d][j].msb, terms[d][j].lsb)
  BY <1>1
<1>3. PICK k \in Live(terms[d]) : \E b \in terms[d][k].bits :
             y = <<d, k, b>> /\ b \in Span(terms[d][k].msb, terms[d][k].lsb)
  BY BitsOfModel
<1>4. PICK b \in terms[d][k].bits : y = <<d, k, b>> /\ b \in Span(terms[d][k].msb, terms[d][k].lsb)
  BY <1>3
<1>5. SlotIn(terms[d], j, a) = SlotIn(terms[d], k, b)
  <2>1. Slot(x) = SlotIn(terms[d], j, a) /\ Slot(y) = SlotIn(terms[d], k, b)
    BY <1>2, <1>4, OneDesign
  <2> QED
    BY <2>1 DEF Slot
<1>6. Sound(terms[d])
  BY DEF Inv, DesignsOK
<1>7. j = k /\ a = b
  BY <1>2, <1>4, <1>5, <1>6, SlotsOrdered
<1> QED
  BY <1>2, <1>4, <1>7

(* What WiresStay says of a step. *)
WiresStayStep ==
  \A i \in Inst :
    /\ model[i] # NoDesign
    /\ model'[i] # NoDesign
    /\ \A n \in DOMAIN instTerms[i] : ~SetNet(i, n)
    => \A x \in Bits(model[i]) :
         <<model'[i], x[2], x[3]>> \in UNION {Bits(d)' : d \in designs'} =>
           WiredAt(i, x[2], x[3])' = WiredAt(i, x[2], x[3])

(* A step keeps the connections of the instances it does not rewire. *)
LEMMA InvWires ==
  ASSUME Habits = {}, Inv, Next
  PROVE  WiresStayStep
<1> SUFFICES ASSUME NEW i \in Inst, model[i] # NoDesign, model'[i] # NoDesign,
                    \A n \in DOMAIN instTerms[i] : ~SetNet(i, n),
                    NEW x \in Bits(model[i]),
                    <<model'[i], x[2], x[3]>> \in UNION {Bits(d)' : d \in designs'}
             PROVE  WiredAt(i, x[2], x[3])' = WiredAt(i, x[2], x[3])
  BY DEF WiresStayStep
<1>1. Inv' /\ WiresKept(i)
  BY InvNext
<1> DEFINE d == model[i]
           T == terms[d]
<1>2. d \in Design /\ Sound(T)
  BY DEF Inv, DesignsOK, InstancesOK
<1>3. PICK k \in Live(T) : \E b \in T[k].bits : x = <<d, k, b>>
  BY <1>2, BitsOfModel
<1>4. PICK b \in T[k].bits : x = <<d, k, b>>
  BY <1>3
<1>5. PICK e : e = model'[i]
  OBVIOUS
<1>6. PICK U : U = terms'[e]
  OBVIOUS
<1>7. PICK f \in designs' : <<e, k, b>> \in Bits(f)'
  BY <1>4, <1>5
<1>8. <<e, k, b>> \in BitsIn(f, terms'[f])
  BY <1>7, OneDesignNext
<1>9. e = f /\ k \in Live(U) /\ b \in U[k].bits
  BY <1>6, <1>8 DEF BitsIn
<1>10. instTerms'[i][SlotIn(U, k, b)].wired = instTerms[i][SlotIn(T, k, b)].wired
  BY <1>1, <1>3, <1>4, <1>5, <1>6, <1>9 DEF WiresKept, SameWires
<1>11. WiredAt(i, k, b) = instTerms[i][SlotIn(T, k, b)].wired
  BY OneDesign DEF WiredAt
<1>12. WiredAt(i, k, b)' = instTerms'[i][SlotIn(U, k, b)].wired
  <2>1. Slot(<<e, k, b>>)' = SlotIn(U, k, b)
    BY <1>6, OneDesignNext
  <2> QED
    BY <1>5, <2>1 DEF WiredAt, Slot, FlatID, Position
<1> QED
  BY <1>4, <1>10, <1>11, <1>12

-----------------------------------------------------------------------------
(* Clients without bad habits: they neither instantiate nor extend a       *)
(* design whose flat IDs have holes, add terminals in the order of their   *)
(* IDs and exchange models of the same layout only.  All results below are *)
(* about them; run instantiateHoles shows that the first restriction       *)
(* cannot be dropped.                                                      *)

(* getInstTerm(bit) of any instance returns the terminal of that bit: the  *)
(* slots that setMSB(), addTerm(), removeTerm() and setModel() leave agree *)
(* with the flat IDs of the model.                                         *)
THEOREM InstTermLookupExact ==
  ASSUME Habits = {}
  PROVE  Spec => []LookupFindsBit
<1>1. Inv => LookupFindsBit
  BY InvLookup
<1> QED
  BY <1>1, SpecInv, PTL

(* No instance keeps a terminal of a bit that was destroyed or cut off,    *)
(* nor one of a former model.                                              *)
THEOREM InstTermsNeverDangle ==
  ASSUME Habits = {}
  PROVE  Spec => []NoDanglingInstTerm
<1>1. Inv => NoDanglingInstTerm
  BY InvNoDangling
<1> QED
  BY <1>1, SpecInv, PTL

(* The flat IDs that addTerm() gives, and setMSB() and setLSB() keep, are  *)
(* never shared by two bits of a design.                                   *)
THEOREM FlatIDsNeverClash ==
  ASSUME Habits = {}
  PROVE  Spec => []FlatIDsDistinct
<1>1. Inv => FlatIDsDistinct
  BY InvFlatIDs
<1> QED
  BY <1>1, SpecInv, PTL

(* Every edit renews all the order IDs of its design, and no other.        *)
THEOREM OrderIDsNeverStale ==
  ASSUME Habits = {}
  PROVE  Spec => []OrderIDsAreRanks
<1>1. Inv => OrderIDsAreRanks
  BY DEF Inv, OrdersOK
<1> QED
  BY <1>1, SpecInv, PTL

(* Only setNet() changes what is connected at a bit of an instance: no     *)
(* resize, removal or exchange of the model moves a connection.            *)
THEOREM ConnectionsStayAtBits ==
  ASSUME Habits = {}
  PROVE  Spec => WiresStay
<1>1. Inv /\ [Next]_vars => [WiresStayStep]_vars
  BY InvWires
<1>2. Spec => [][WiresStayStep]_vars
  BY <1>1, SpecInv, PTL DEF Spec
<1> QED
  BY <1>2 DEF WiresStay, WiresStayStep
=============================================================================

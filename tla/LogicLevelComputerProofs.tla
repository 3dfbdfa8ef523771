---------------------- MODULE LogicLevelComputerProofs ----------------------
(***************************************************************************)
(* Proof that LogicLevelComputer::process() is exact, for any netlist, any *)
(* number of threads and any schedule, the lost updates of dnlID2ll        *)
(* included.                                                               *)
(*                                                                         *)
(* The netlist never changes: the notions below take it as an argument N.  *)
(***************************************************************************)
EXTENDS LogicLevelComputer, Integers, SequencesExt, TLAPS, WellFoundedInduction, FiniteSetTheorems, FunctionTheorems

-----------------------------------------------------------------------------
(* Natural numbers and sequences that list a finite set. *)

(* Every nonempty set of naturals has a least element. *)
LEMMA LeastNat == \A T \in SUBSET Nat : T # {} => \E n \in T : \A m \in T : n <= m
<1> SUFFICES ASSUME NEW T \in SUBSET Nat, T # {}
             PROVE  \E n \in T : \A m \in T : n <= m
  OBVIOUS
<1> DEFINE R == OpToRel(<, Nat)
<1>1. IsWellFoundedOn(R, Nat)
  BY NatLessThanWellFounded
<1>2. \A m, n \in Nat : m < n => <<m, n>> \in R
  BY DEF OpToRel
<1> HIDE DEF R
<1>3. PICK n \in T : \A m \in T : ~(<<m, n>> \in R)
  BY <1>1, WFMin
<1>4. \A m \in T : ~(m < n)
  BY <1>2, <1>3
<1>5. \A m \in T : n <= m
  BY <1>4
<1> QED
  BY <1>5

(* A set that contains 0 and with a number of 0 .. n - 1 its successor     *)
(* contains 0 .. n.                                                        *)
LEMMA UpTo ==
  ASSUME NEW n \in Nat, NEW S, 0 \in S,
         \A k \in 0 .. n - 1 : k \in S => k + 1 \in S
  PROVE  \A k \in 0 .. n : k \in S
<1> DEFINE T == {k \in 0 .. n : k \notin S}
<1> SUFFICES ASSUME T # {} PROVE FALSE
  OBVIOUS
<1>0. T \in SUBSET Nat
  OBVIOUS
<1>1. PICK k \in T : \A m \in T : k <= m
  <2> HIDE DEF T
  <2> QED
    BY <1>0, LeastNat
<1>2. k # 0 /\ k - 1 \in 0 .. n - 1 /\ k - 1 \notin T
  BY <1>1
<1>3. k - 1 \in S
  BY <1>2
<1>4. (k - 1) + 1 \in S
  BY <1>2, <1>3
<1> QED
  BY <1>4, <1>1

(* A sequence of the elements of a finite set. *)
LEMMA SeqOfSet ==
  ASSUME NEW S, IsFiniteSet(S), NEW s \in SetToSeqs(S)
  PROVE  /\ s \in Seq(S)
         /\ \A i, j \in DOMAIN s : s[i] = s[j] => i = j
         /\ \A x \in S : \E i \in DOMAIN s : s[i] = x
<1> DEFINE c == Cardinality(S)
<1>1. c \in Nat
  BY FS_CardinalityType
<1>2. s \in [1 .. c -> S] /\ \A i, j \in 1 .. c : i # j => s[i] # s[j]
  BY DEF SetToSeqs
<1> HIDE DEF c
<1>3. s \in Injection(1 .. c, S)
  BY <1>2 DEF Injection, IsInjective
<1>4. IsFiniteSet(1 .. c) /\ Cardinality(1 .. c) = c
  BY <1>1, FS_Interval
<1>5. s \in Surjection(1 .. c, S)
  BY <1>3, <1>4, FS_Injection DEF c
<1>6. \A x \in S : \E i \in 1 .. c : s[i] = x
  BY <1>5 DEF Surjection
<1> QED
  BY <1>1, <1>2, <1>6

-----------------------------------------------------------------------------
NetOK(N) ==
  /\ DOMAIN N.drivers \subseteq Nat
  /\ N.starts \subseteq DOMAIN N.drivers
  /\ \A t \in DOMAIN N.drivers : N.drivers[t] \subseteq DOMAIN N.inputs \cup N.stops
  /\ \A d \in DOMAIN N.inputs : N.inputs[d] \subseteq DOMAIN N.drivers /\ IsFiniteSet(N.inputs[d])
  /\ IsFiniteSet(DOMAIN N.inputs)
  /\ NoDriver \notin DOMAIN N.inputs

Follows(N, t) == N.drivers[t] \ N.stops

Gate(N, g) == g[2] \in DOMAIN N.inputs /\ g[1] \in N.inputs[g[2]] /\ g = <<g[1], g[2]>>

Terms(N) == DOMAIN N.drivers

Sources(N) == DOMAIN N.inputs \cup {NoDriver}

Pair(N) == Terms(N) \X Sources(N)

(* Term after term, from a term to trace, through any gates. *)
Walk(N, p) ==
  /\ p \in Seq(Pair(N)) /\ Len(p) >= 1
  /\ p[1][1] \in N.starts /\ p[1][2] = NoDriver
  /\ \A k \in 2 .. Len(p) : Gate(N, p[k]) /\ p[k][2] \in Follows(N, p[k - 1][1])

(* A path: no gate comes twice. *)
Path(N, p) == Walk(N, p) /\ \A j, k \in DOMAIN p : p[j] = p[k] => j = k

Pre(p, k) == [n \in 1 .. k |-> p[n]]

-----------------------------------------------------------------------------
(* Paths of a netlist. *)

(* The netlists of a run are well formed. *)
LEMMA NetsOK == \A n \in Netlists : NetOK(n)
BY LogicLevelAssumption DEF NetOK

(* The notions of LogicLevelComputer. *)
LEMMA OneNet ==
  /\ \A t : Followed(t) = Follows(net, t)
  /\ \A g : g \in Gates <=> Gate(net, g)
<1>1. \A t : Followed(t) = Follows(net, t)
  BY DEF Followed, Follows
<1>2. ASSUME NEW g PROVE g \in Gates <=> Gate(net, g)
  <2>1. ASSUME g \in Gates PROVE Gate(net, g)
    <3>1. PICK d \in DOMAIN net.inputs : g \in net.inputs[d] \X {d}
      BY <2>1 DEF Gates
    <3> QED
      BY <3>1 DEF Gate
  <2>2. ASSUME Gate(net, g) PROVE g \in Gates
    <3>1. g \in net.inputs[g[2]] \X {g[2]} /\ g[2] \in DOMAIN net.inputs
      BY <2>2 DEF Gate
    <3> QED
      BY <3>1 DEF Gates
  <2> QED
    BY <2>1, <2>2
<1> QED
  BY <1>1, <1>2

(* The places of a walk. *)
LEMMA WalkType ==
  ASSUME NEW N, NetOK(N), NEW p, Walk(N, p)
  PROVE  /\ Len(p) \in Nat /\ Len(p) >= 1 /\ DOMAIN p = 1 .. Len(p)
         /\ \A k \in 1 .. Len(p) :
              /\ p[k] \in Pair(N) /\ p[k][1] \in DOMAIN N.drivers /\ p[k] = <<p[k][1], p[k][2]>>
              /\ Follows(N, p[k][1]) \subseteq DOMAIN N.inputs
<1>1. p \in Seq(Pair(N)) /\ Len(p) >= 1
  BY DEF Walk
<1>2. Len(p) \in Nat /\ DOMAIN p = 1 .. Len(p) /\ \A k \in 1 .. Len(p) : p[k] \in Pair(N)
  BY <1>1
<1>3. \A x \in Pair(N) : x[1] \in Terms(N) /\ x = <<x[1], x[2]>>
  BY DEF Pair
<1>4. \A t \in DOMAIN N.drivers : Follows(N, t) \subseteq DOMAIN N.inputs
  BY DEF NetOK, Follows
<1> QED
  BY <1>1, <1>2, <1>3, <1>4 DEF Terms

(* A term to trace is a path. *)
LEMMA StartIsPath ==
  ASSUME NEW N, NetOK(N), NEW t \in N.starts
  PROVE  Path(N, << <<t, NoDriver>> >>)
<1> DEFINE p == << <<t, NoDriver>> >>
<1>1. <<t, NoDriver>> \in Pair(N)
  <2>1. t \in Terms(N) /\ NoDriver \in Sources(N)
    BY DEF NetOK, Terms, Sources
  <2> QED
    BY <2>1 DEF Pair
<1>2. p \in Seq(Pair(N)) /\ Len(p) = 1 /\ DOMAIN p = {1} /\ p[1] = <<t, NoDriver>>
  BY <1>1
<1> HIDE DEF p
<1>3. Walk(N, p)
  BY <1>2 DEF Walk
<1>4. Path(N, p)
  BY <1>2, <1>3 DEF Path
<1> QED
  BY <1>4 DEF p

(* One gate more. *)
LEMMA PathGrows ==
  ASSUME NEW N, NetOK(N), NEW p, Path(N, p), NEW g, Gate(N, g),
         g[2] \in Follows(N, p[Len(p)][1]), g \notin Range(p)
  PROVE  Path(N, Append(p, g))
<1> DEFINE q == Append(p, g)
           n == Len(p)
<1>1. Walk(N, p) /\ p \in Seq(Pair(N)) /\ n \in Nat /\ n >= 1 /\ DOMAIN p = 1 .. n
  BY WalkType DEF Path, Walk
<1>2. g \in Pair(N)
  <2>1. g[1] \in Terms(N) /\ g[2] \in Sources(N) /\ g = <<g[1], g[2]>>
    BY DEF Gate, NetOK, Terms, Sources
  <2>2. <<g[1], g[2]>> \in Pair(N)
    BY <2>1 DEF Pair
  <2> QED
    BY <2>1, <2>2
<1>3. q \in Seq(Pair(N)) /\ Len(q) = n + 1 /\ DOMAIN q = 1 .. n + 1 /\ q[n + 1] = g
      /\ \A k \in 1 .. n : q[k] = p[k]
  BY <1>1, <1>2
<1> HIDE DEF q
<1>4. Walk(N, q)
  <2>1. ASSUME NEW k \in 2 .. Len(q) PROVE Gate(N, q[k]) /\ q[k][2] \in Follows(N, q[k - 1][1])
    <3>1. CASE k \in 2 .. n
      <4>1. k \in 1 .. n /\ k - 1 \in 1 .. n
        BY <1>1, <3>1
      <4> QED
        BY <1>1, <1>3, <3>1, <4>1 DEF Walk
    <3>2. CASE k = n + 1
      <4>1. k - 1 = n /\ n \in 1 .. n
        BY <1>1, <3>2
      <4> QED
        BY <1>1, <1>3, <3>2, <4>1
    <3> QED
      BY <1>1, <1>3, <3>1, <3>2
  <2>2. q[1] = p[1] /\ Len(q) >= 1
    BY <1>1, <1>3
  <2> QED
    BY <1>1, <1>3, <2>1, <2>2 DEF Walk
<1>5. ASSUME NEW j \in DOMAIN q, NEW k \in DOMAIN q, q[j] = q[k] PROVE j = k
  <2>1. \A i \in 1 .. n : p[i] # g
    BY <1>1 DEF Range
  <2>2. \A a, b \in 1 .. n : p[a] = p[b] => a = b
    BY <1>1 DEF Path
  <2>3. (j \in 1 .. n \/ j = n + 1) /\ (k \in 1 .. n \/ k = n + 1)
    BY <1>1, <1>3
  <2> QED
    BY <1>3, <1>5, <2>1, <2>2, <2>3
<1> QED
  BY <1>4, <1>5 DEF Path, q

(* The beginning of a path is a path, and its next gate is new to it. *)
LEMMA PathPrefix ==
  ASSUME NEW N, NetOK(N), NEW p, Path(N, p), NEW k \in 1 .. Len(p)
  PROVE  /\ Path(N, Pre(p, k)) /\ Len(Pre(p, k)) = k /\ Pre(p, k)[k] = p[k]
         /\ Pre(p, Len(p)) = p
         /\ k < Len(p) => /\ Gate(N, p[k + 1]) /\ p[k + 1][2] \in Follows(N, p[k][1])
                          /\ p[k + 1] \notin Range(Pre(p, k))
                          /\ Append(Pre(p, k), p[k + 1]) = Pre(p, k + 1)
<1> DEFINE q == Pre(p, k)
           n == Len(p)
<1>1. Walk(N, p) /\ p \in Seq(Pair(N)) /\ n \in Nat /\ n >= 1 /\ DOMAIN p = 1 .. n /\ k \in Nat /\ k <= n /\ k >= 1
  BY WalkType DEF Path, Walk
<1>2. q \in Seq(Pair(N)) /\ Len(q) = k /\ DOMAIN q = 1 .. k /\ \A i \in 1 .. k : q[i] = p[i]
  BY <1>1 DEF Pre
<1>3. Walk(N, q)
  <2>1. \A i \in 2 .. k : i \in 2 .. n /\ i \in 1 .. k /\ i - 1 \in 1 .. k
    BY <1>1
  <2>2. \A i \in 2 .. Len(q) : Gate(N, q[i]) /\ q[i][2] \in Follows(N, q[i - 1][1])
    BY <1>1, <1>2, <2>1 DEF Walk
  <2>3. q[1] = p[1]
    BY <1>1, <1>2
  <2> QED
    BY <1>1, <1>2, <2>2, <2>3 DEF Walk
<1>4. Path(N, q)
  <2>1. \A i \in 1 .. k : i \in 1 .. n
    BY <1>1
  <2> QED
    BY <1>1, <1>2, <1>3, <2>1 DEF Path
<1>5. q[k] = p[k] /\ Pre(p, n) = p
  BY <1>1, <1>2 DEF Pre
<1>6. ASSUME k < n
      PROVE  /\ Gate(N, p[k + 1]) /\ p[k + 1][2] \in Follows(N, p[k][1])
             /\ p[k + 1] \notin Range(q)
             /\ Append(q, p[k + 1]) = Pre(p, k + 1)
  <2>1. k + 1 \in 2 .. n /\ (k + 1) - 1 = k /\ k + 1 \in 1 .. n
    BY <1>1, <1>6
  <2>2. Gate(N, p[k + 1]) /\ p[k + 1][2] \in Follows(N, p[k][1])
    BY <1>1, <2>1 DEF Walk
  <2>3. \A i \in 1 .. k : i \in 1 .. n /\ i # k + 1
    BY <1>1
  <2>4. p[k + 1] \notin Range(q)
    BY <1>1, <1>2, <2>1, <2>3 DEF Range, Path
  <2>5. Append(q, p[k + 1]) = Pre(p, k + 1)
    BY <1>1, <1>2, <2>1 DEF Pre
  <2> QED
    BY <2>2, <2>4, <2>5
<1> QED
  BY <1>2, <1>4, <1>5, <1>6

(* A finite netlist has finitely many gates. *)
LEMMA GatesFinite ==
  ASSUME NetOK(net)
  PROVE  IsFiniteSet(Gates)
<1> DEFINE f == [d \in DOMAIN net.inputs |-> net.inputs[d] \X {d}]
           S == {f[d] : d \in DOMAIN net.inputs}
<1>1. IsFiniteSet(DOMAIN net.inputs)
  BY DEF NetOK
<1>2. ASSUME NEW d \in DOMAIN net.inputs PROVE IsFiniteSet(f[d])
  <2>1. IsFiniteSet(net.inputs[d]) /\ IsFiniteSet({d})
    BY FS_Singleton DEF NetOK
  <2>2. IsFiniteSet(net.inputs[d] \X {d})
    BY <2>1, FS_Product
  <2> QED
    BY <2>2
<1>3. IsFiniteSet(S)
  <2>1. f \in Surjection(DOMAIN net.inputs, S)
    BY DEF Surjection
  <2> HIDE DEF S, f
  <2> QED
    BY <1>1, <2>1, FS_Surjection
<1>4. \A T \in S : IsFiniteSet(T)
  BY <1>2
<1>5. UNION S = Gates
  BY DEF Gates
<1> HIDE DEF S
<1>6. IsFiniteSet(UNION S)
  BY <1>3, <1>4, FS_UNION
<1> QED
  BY <1>5, <1>6

(* A path passes a gate once, so it has no more gates than the netlist. *)
LEMMA PathBound ==
  ASSUME NetOK(net), NEW p, Path(net, p)
  PROVE  Len(p) - 1 \in 0 .. Cardinality(Gates) /\ Cardinality(Gates) \in Nat
<1> DEFINE n == Len(p)
           f == [k \in 1 .. n - 1 |-> p[k + 1]]
<1>1. n \in Nat /\ n >= 1 /\ DOMAIN p = 1 .. n /\ n - 1 \in Nat
  BY WalkType DEF Path
<1>2. IsFiniteSet(Gates) /\ Cardinality(Gates) \in Nat
  BY GatesFinite, FS_CardinalityType
<1>3. \A k \in 1 .. n - 1 : k + 1 \in 2 .. n /\ k + 1 \in DOMAIN p
  BY <1>1
<1>4. \A k \in 1 .. n - 1 : p[k + 1] \in Gates
  BY <1>3, OneNet DEF Path, Walk
<1>5. \A j, k \in 1 .. n - 1 : p[j + 1] = p[k + 1] => j = k
  <2>1. ASSUME NEW j \in 1 .. n - 1, NEW k \in 1 .. n - 1, p[j + 1] = p[k + 1] PROVE j = k
    <3>1. j + 1 = k + 1
      BY <1>3, <2>1 DEF Path
    <3> QED
      BY <3>1
  <2> QED
    BY <2>1
<1>6. f \in Injection(1 .. n - 1, Gates)
  BY <1>4, <1>5 DEF Injection, IsInjective
<1>7. IsFiniteSet(1 .. n - 1) /\ Cardinality(1 .. n - 1) = n - 1
  BY <1>1, FS_Interval, SMTT(30)
<1> HIDE DEF n, f
<1>8. n - 1 <= Cardinality(Gates)
  <2>1. ASSUME ~(n - 1 <= Cardinality(Gates)) PROVE FALSE
    <3>1. Cardinality(Gates) < Cardinality(1 .. n - 1) /\ f \in [1 .. n - 1 -> Gates]
      BY <1>1, <1>2, <1>6, <1>7, <2>1 DEF Injection
    <3>2. \E x, y \in 1 .. n - 1 : x # y /\ f[x] = f[y]
      BY <1>2, <1>7, <3>1, FS_PigeonHole
    <3> QED
      BY <1>6, <3>2 DEF Injection, IsInjective
  <2> QED
    BY <2>1
<1> QED
  BY <1>1, <1>2, <1>8 DEF n

(* The paths that the properties speak of. *)
PathsOf(N, n) == {p \in Seq(Pair(N)) : Path(N, p) /\ Len(p) = n + 1}

LongerBy1(S) ==
  {Append(x[1], x[2]) : x \in
     {y \in S \X Gates : y[2][2] \in Followed(LastTerm(y[1])) /\ y[2] \notin Range(y[1])}}

(* One round of the recursion of RealPaths. *)
LEMMA PathsStep ==
  ASSUME NetOK(net), NEW n \in Nat
  PROVE  LongerBy1(PathsOf(net, n)) = PathsOf(net, n + 1)
<1> DEFINE S == PathsOf(net, n)
<1>1. ASSUME NEW q \in LongerBy1(S) PROVE q \in PathsOf(net, n + 1)
  <2>1. PICK x \in S \X Gates : x[2][2] \in Followed(LastTerm(x[1])) /\ x[2] \notin Range(x[1])
                                /\ q = Append(x[1], x[2])
    BY <1>1 DEF LongerBy1
  <2>2. PICK p \in S, g \in Gates : x = <<p, g>>
    BY <2>1
  <2>3. g[2] \in Followed(LastTerm(p)) /\ g \notin Range(p) /\ q = Append(p, g)
    BY <2>1, <2>2
  <2>4. Path(net, p) /\ Len(p) = n + 1 /\ p \in Seq(Pair(net))
    BY <2>2 DEF PathsOf
  <2>5. Gate(net, g) /\ g[2] \in Follows(net, p[Len(p)][1])
    BY <2>2, <2>3, <2>4, OneNet DEF LastTerm, Last
  <2>6. Path(net, q)
    BY <2>3, <2>4, <2>5, PathGrows
  <2>7. q \in Seq(Pair(net))
    BY <2>6 DEF Path, Walk
  <2>8. Len(q) = (n + 1) + 1
    BY <2>3, <2>4
  <2> QED
    BY <2>6, <2>7, <2>8 DEF PathsOf
<1>2. ASSUME NEW q \in PathsOf(net, n + 1) PROVE q \in LongerBy1(S)
  <2> DEFINE p == Pre(q, n + 1)
             g == q[n + 2]
  <2>1. Path(net, q) /\ Len(q) = n + 2
    BY <1>2 DEF PathsOf
  <2>2. n + 1 \in 1 .. Len(q) /\ n + 1 < Len(q) /\ (n + 1) + 1 = n + 2
    BY <2>1
  <2>3. /\ Path(net, p) /\ Len(p) = n + 1 /\ p[n + 1] = q[n + 1]
        /\ Gate(net, g) /\ g[2] \in Follows(net, q[n + 1][1]) /\ g \notin Range(p)
        /\ Append(p, g) = Pre(q, n + 2)
    BY <2>1, <2>2, PathPrefix
  <2>4. Pre(q, n + 2) = q
    BY <2>1, <2>2, PathPrefix
  <2> HIDE DEF p, g
  <2>5. p \in S
    BY <2>3 DEF PathsOf, Path, Walk
  <2>6. g \in Gates /\ g[2] \in Followed(LastTerm(p))
    BY <2>3, OneNet DEF LastTerm, Last
  <2>7. PICK x : x = <<p, g>>
    OBVIOUS
  <2>8. x \in S \X Gates /\ x[1] = p /\ x[2] = g
    BY <2>5, <2>6, <2>7
  <2> QED
    BY <2>3, <2>4, <2>6, <2>8 DEF LongerBy1
<1> QED
  BY <1>1, <1>2

StartPaths == {<< <<t, NoDriver>> >> : t \in net.starts}

(* Its beginning. *)
LEMMA PathsStart ==
  ASSUME NetOK(net)
  PROVE  PathsOf(net, 0) = StartPaths
<1>1. ASSUME NEW p \in StartPaths PROVE p \in PathsOf(net, 0)
  <2>1. PICK t \in net.starts : p = << <<t, NoDriver>> >>
    BY <1>1 DEF StartPaths
  <2>2. Path(net, p) /\ Len(p) = 0 + 1
    BY <2>1, StartIsPath
  <2> QED
    BY <2>2 DEF PathsOf, Path, Walk
<1>2. ASSUME NEW p \in PathsOf(net, 0) PROVE p \in StartPaths
  <2>1. Path(net, p) /\ Len(p) = 1 /\ p \in Seq(Pair(net))
    BY <1>2 DEF PathsOf
  <2>2. p[1] = <<p[1][1], p[1][2]>> /\ p[1][1] \in net.starts /\ p[1][2] = NoDriver
    BY <2>1, WalkType DEF Path, Walk
  <2>3. p = << p[1] >>
    BY <2>1
  <2> QED
    BY <2>2, <2>3 DEF StartPaths
<1> QED
  BY <1>1, <1>2

(* RealPaths, the recursive definition, is the set of the paths. *)
LEMMA RealPathsAre ==
  ASSUME NetOK(net)
  PROVE  \A p : p \in RealPaths <=> Path(net, p)
<1> DEFINE n == Cardinality(Gates)
           P(f) == f = [k \in 0 .. n |-> IF k = 0 THEN StartPaths ELSE LongerBy1(f[k - 1])]
           F == [k \in 0 .. n |-> PathsOf(net, k)]
<1>1. n \in Nat
  BY GatesFinite, FS_CardinalityType
<1>2. RealPaths = UNION {(CHOOSE f : P(f))[k] : k \in DOMAIN (CHOOSE f : P(f))}
  BY DEF RealPaths, StartPaths, LongerBy1
<1> HIDE DEF n
<1>3. P(F)
  <2>1. ASSUME NEW k \in 0 .. n, k # 0 PROVE F[k] = LongerBy1(F[k - 1])
    <3>1. k - 1 \in Nat /\ k - 1 \in 0 .. n /\ (k - 1) + 1 = k
      BY <1>1, <2>1
    <3>2. LongerBy1(PathsOf(net, k - 1)) = PathsOf(net, k)
      BY <3>1, PathsStep
    <3> QED
      BY <3>1, <3>2
  <2>2. F[0] = StartPaths
    BY <1>1, PathsStart
  <2> QED
    BY <2>1, <2>2
<1>4. PICK c : P(c) /\ RealPaths = UNION {c[k] : k \in DOMAIN c}
  <2>1. P(CHOOSE f : P(f))
    BY <1>3
  <2> QED
    BY <1>2, <2>1
<1>5. DOMAIN c = 0 .. n /\ c[0] = StartPaths /\ \A k \in 0 .. n : k # 0 => c[k] = LongerBy1(c[k - 1])
  BY <1>1, <1>4
<1>6. \A k \in 0 .. n : c[k] = PathsOf(net, k)
  <2> DEFINE S == {k \in 0 .. n : c[k] = PathsOf(net, k)}
  <2>1. 0 \in S
    BY <1>1, <1>5, PathsStart
  <2>2. ASSUME NEW k \in 0 .. n - 1, k \in S PROVE k + 1 \in S
    <3>1. k \in Nat /\ k + 1 \in 0 .. n /\ k + 1 # 0 /\ (k + 1) - 1 = k
      BY <1>1
    <3>2. c[k + 1] = LongerBy1(c[k]) /\ c[k] = PathsOf(net, k)
      BY <1>5, <2>2, <3>1
    <3> QED
      BY <3>1, <3>2, PathsStep
  <2> HIDE DEF S
  <2>3. \A k \in 0 .. n : k \in S
    BY <1>1, <2>1, <2>2, UpTo
  <2> QED
    BY <2>3 DEF S
<1>7. ASSUME NEW p, p \in RealPaths PROVE Path(net, p)
  <2>1. PICK k \in 0 .. n : p \in c[k]
    BY <1>4, <1>5, <1>7
  <2> QED
    BY <1>6, <2>1 DEF PathsOf
<1>8. ASSUME NEW p, Path(net, p) PROVE p \in RealPaths
  <2>1. Len(p) - 1 \in 0 .. n /\ Len(p) \in Nat /\ (Len(p) - 1) + 1 = Len(p)
    BY <1>8, PathBound, WalkType DEF n, Path
  <2>2. p \in PathsOf(net, Len(p) - 1)
    BY <1>8, <2>1 DEF PathsOf, Path, Walk
  <2> QED
    BY <1>4, <1>5, <1>6, <2>1, <2>2
<1> QED
  BY <1>7, <1>8

-----------------------------------------------------------------------------
(* Netlists without loops. *)

(* Every walk is a path. *)
LEMMA WalkIsPath ==
  ASSUME NetOK(net), LoopFree, NEW p, Walk(net, p)
  PROVE  Path(net, p)
<1>1. Len(p) \in Nat /\ DOMAIN p = 1 .. Len(p)
  BY WalkType
<1>2. \A k \in 2 .. Len(p) : Gate(net, p[k]) /\ p[k][2] \in Follows(net, p[k - 1][1])
  BY DEF Walk
<1>3. ASSUME NEW i \in 1 .. Len(p), NEW j \in 1 .. Len(p), i < j, p[i] = p[j] PROVE FALSE
  <2>1. j \in 2 .. Len(p) /\ i \in Nat /\ j \in Nat
    BY <1>1, <1>3
  <2>2. i # 1
    BY <1>2, <1>3, <2>1 DEF Walk, Gate, NetOK
  <2> DEFINE D == {p[k][2] : k \in i .. j - 1}
  <2>3. \A k \in i .. j - 1 : k \in 2 .. Len(p) /\ k + 1 \in 2 .. Len(p) /\ (k + 1) - 1 = k
    BY <1>1, <1>3, <2>1, <2>2
  <2>4. D \subseteq DOMAIN net.inputs /\ D # {}
    <3>1. i \in i .. j - 1
      BY <1>1, <1>3
    <3>2. \A k \in i .. j - 1 : p[k][2] \in DOMAIN net.inputs
      BY <1>2, <2>3 DEF Gate
    <3> QED
      BY <3>1, <3>2
  <2>5. PICK e \in D : \A d \in D : ~Feeds(d, e)
    BY <2>4 DEF LoopFree
  <2>6. PICK k \in i .. j - 1 : e = p[k][2]
    BY <2>5
  <2>7. Feeds(p[k + 1][2], e)
    <3>1. p[k + 1][2] \in Follows(net, p[k][1]) /\ p[k][1] \in net.inputs[e]
      BY <1>2, <2>3, <2>6 DEF Gate
    <3> QED
      BY <3>1, OneNet DEF Feeds
  <2>8. p[k + 1][2] \in D
    <3>1. CASE k + 1 \in i .. j - 1
      BY <3>1
    <3>2. CASE k + 1 = j
      <4>1. i \in i .. j - 1 /\ p[k + 1][2] = p[i][2]
        BY <1>1, <1>3, <3>2
      <4> QED
        BY <4>1
    <3> QED
      BY <1>1, <2>1, <2>6, <3>1, <3>2
  <2> QED
    BY <2>5, <2>7, <2>8
<1>4. ASSUME NEW i \in DOMAIN p, NEW j \in DOMAIN p, p[i] = p[j] PROVE i = j
  BY <1>1, <1>3, <1>4
<1> QED
  BY <1>4 DEF Path

(* A path q that comes to the driver of gate k + 1 of path p can go on as  *)
(* p does.                                                                 *)
LEMMA Spliced ==
  ASSUME NetOK(net), LoopFree, NEW p, Path(net, p), NEW q, Path(net, q),
         NEW k \in 1 .. Len(p) - 1, p[k + 1][2] \in Follows(net, q[Len(q)][1])
  PROVE  \E r : Path(net, r) /\ Len(r) = Len(q) + Len(p) - k
<1> DEFINE m == Len(q)
           n == Len(p)
           r == [x \in 1 .. m + n - k |-> IF x <= m THEN q[x] ELSE p[x - m + k]]
<1>1. /\ Walk(net, p) /\ Walk(net, q) /\ n \in Nat /\ m \in Nat /\ m >= 1
      /\ k \in Nat /\ k >= 1 /\ k + 1 <= n
      /\ \A x \in 1 .. n : p[x] \in Pair(net)
      /\ \A x \in 1 .. m : q[x] \in Pair(net)
  BY WalkType DEF Path
<1>2. m + n - k \in Nat
  BY <1>1
<1>3. \A x \in 1 .. m : x \in 1 .. m + n - k /\ r[x] = q[x]
  BY <1>1
<1>4. \A x \in m + 1 .. m + n - k : x \in 1 .. m + n - k /\ x - m + k \in k + 1 .. n /\ r[x] = p[x - m + k]
  BY <1>1
<1>5. r \in Seq(Pair(net)) /\ Len(r) = m + n - k
  <2>1. \A x \in 1 .. m + n - k : r[x] \in Pair(net)
    <3>1. ASSUME NEW x \in 1 .. m + n - k PROVE r[x] \in Pair(net)
      <4>1. CASE x \in 1 .. m
        BY <1>1, <1>3, <4>1
      <4>2. CASE x \in m + 1 .. m + n - k
        <5>1. x - m + k \in 1 .. n
          BY <1>1, <4>2
        <5> QED
          BY <1>1, <1>4, <4>2, <5>1
      <4> QED
        BY <1>1, <4>1, <4>2
    <3> QED
      BY <3>1
  <2>2. r = [x \in 1 .. m + n - k |-> r[x]]
    OBVIOUS
  <2> HIDE DEF r
  <2>3. PICK x \in Nat : x = m + n - k
    BY <1>2
  <2>4. r = [y \in 1 .. x |-> r[y]] /\ \A y \in 1 .. x : r[y] \in Pair(net)
    BY <2>1, <2>2, <2>3
  <2>5. r \in Seq(Pair(net)) /\ Len(r) = x
    BY <2>4
  <2> QED
    BY <2>3, <2>5
<1> HIDE DEF r
<1>6. ASSUME NEW x \in 2 .. Len(r) PROVE Gate(net, r[x]) /\ r[x][2] \in Follows(net, r[x - 1][1])
  <2>1. CASE x \in 2 .. m
    <3>1. x \in 1 .. m /\ x - 1 \in 1 .. m
      BY <1>1, <2>1
    <3> QED
      BY <1>1, <1>3, <2>1, <3>1 DEF Walk
  <2>2. CASE x = m + 1
    <3>1. x \in m + 1 .. m + n - k /\ x - m + k = k + 1 /\ x - 1 = m /\ m \in 1 .. m /\ k + 1 \in 2 .. n
      BY <1>1, <2>2
    <3>2. r[x] = p[k + 1] /\ r[x - 1] = q[m]
      BY <1>3, <1>4, <3>1
    <3> QED
      BY <1>1, <3>1, <3>2 DEF Walk
  <2>3. CASE x \in m + 2 .. m + n - k
    <3> DEFINE y == x - m + k
    <3>1. x \in m + 1 .. m + n - k /\ x - 1 \in m + 1 .. m + n - k /\ (x - 1) - m + k = y - 1 /\ y \in 2 .. n
      BY <1>1, <2>3
    <3>2. r[x] = p[y] /\ r[x - 1] = p[y - 1]
      BY <1>4, <3>1
    <3> QED
      BY <1>1, <3>1, <3>2 DEF Walk
  <2> QED
    BY <1>1, <1>5, <2>1, <2>2, <2>3, SMTT(30)
<1>7. Walk(net, r)
  <2>1. r[1] = q[1]
    BY <1>1, <1>3
  <2> QED
    BY <1>1, <1>5, <1>6, <2>1 DEF Walk
<1> QED
  BY <1>5, <1>7, WalkIsPath

-----------------------------------------------------------------------------
(* The inductive invariant. *)

PathSet(N) == {p \in Seq(Pair(N)) : Path(N, p)}

End(p) == p[Len(p)][1]

Typed ==
  /\ net \in Netlists
  /\ toTrace \subseteq net.starts
  /\ pc \in [Workers -> {"idle", "walk", "mark"}]
  /\ queue \in [Workers -> Seq(PathSet(net))]
  /\ path \in [Workers -> PathSet(net) \cup {<<>>}]
  /\ todo \in [Workers -> SUBSET DOMAIN net.inputs]
  /\ driver \in [Workers -> DOMAIN net.inputs \cup {NoDriver}]
  /\ dnlID2ll \in [DOMAIN net.inputs -> Nat]
  /\ local \in [Workers -> [max : Nat, paths : SUBSET PathSet(net)]]
  /\ combined \subseteq Workers
  /\ maxLogicLevel \in Nat
  /\ logicLevels \subseteq PathSet(net)

(* What a worker has still to do continues the path in its hands. *)
TasksOK ==
  \A w \in Workers :
    /\ todo[w] # {} => path[w] \in PathSet(net) /\ todo[w] \subseteq Follows(net, End(path[w]))
    /\ pc[w] = "mark" => path[w] \in PathSet(net) /\ driver[w] \in Follows(net, End(path[w]))
    /\ pc[w] = "idle" => queue[w] = <<>> /\ todo[w] = {}

(* An entry of the shared map is the length of some path to the driver,    *)
(* however stale.                                                          *)
MapOK ==
  \A d \in DOMAIN net.inputs : dnlID2ll[d] # 0 =>
    \E q \in PathSet(net) : Len(q) = dnlID2ll[d] /\ d \in Follows(net, End(q))

LocalOK(l) ==
  /\ \A p \in l.paths : Level(p) = l.max
  /\ l.max > 0 => l.paths # {}

LocalsOK == \A w \in Workers : LocalOK(local[w])

CombinedOK ==
  /\ combined # {} => AllTraced
  /\ \A p \in logicLevels : Level(p) = maxLogicLevel
  /\ \A w \in combined : /\ local[w].max <= maxLogicLevel
                         /\ local[w].max = maxLogicLevel => local[w].paths \subseteq logicLevels

Longest(N, p) == Path(N, p) /\ Len(p) > 1 /\ \A q \in PathSet(N) : Len(q) <= Len(p)

(* A beginning of path p waits in queue q. *)
Queued(q, p) == \E k \in 1 .. Len(p) : \E i \in DOMAIN q : q[i] = Pre(p, k)

(* A beginning of path p is in the hands of a worker, which will go on to  *)
(* the next gate of p.                                                     *)
InHand(h, D, c, d, p) ==
  \E k \in 1 .. Len(p) - 1 :
    h = Pre(p, k) /\ (p[k + 1][2] \in D \/ (c = "mark" /\ d = p[k + 1][2]))

Has(w, p) ==
  \/ Queued(queue[w], p)
  \/ InHand(path[w], todo[w], pc[w], driver[w], p)
  \/ p \in local[w].paths

(* No longest path is lost. *)
Covered(p) == p[1][1] \in toTrace \/ \E w \in Workers : Has(w, p)

CoveredOK == LoopFree => \A p \in PathSet(net) : Longest(net, p) => Covered(p)

Inv == Typed /\ TasksOK /\ MapOK /\ LocalsOK /\ CombinedOK /\ CoveredOK

-----------------------------------------------------------------------------
(* Steps. *)

(* A step of worker w leaves the others alone. *)
OnlyOf(w) ==
  \A v \in Workers \ {w} :
    queue'[v] = queue[v] /\ path'[v] = path[v] /\ todo'[v] = todo[v] /\ pc'[v] = pc[v]
    /\ driver'[v] = driver[v] /\ local'[v] = local[v]

(* Before the end a step leaves the result alone. *)
LEMMA CombinedStep ==
  ASSUME CombinedOK, ~AllTraced, combined' = combined, logicLevels' = logicLevels,
         maxLogicLevel' = maxLogicLevel
  PROVE  CombinedOK'
BY DEF CombinedOK, Level

(* No longest path is lost if the worker that takes the step loses none. *)
LEMMA CoveredStep ==
  ASSUME CoveredOK, net' = net, toTrace' = toTrace, NEW w \in Workers, OnlyOf(w),
         ASSUME LoopFree, NEW p \in PathSet(net), Longest(net, p), Has(w, p) PROVE Has(w, p)'
  PROVE  CoveredOK'
<1> SUFFICES ASSUME LoopFree', NEW p \in PathSet(net)', Longest(net', p)
             PROVE  Covered(p)'
  BY DEF CoveredOK
<1>1. LoopFree /\ p \in PathSet(net) /\ Longest(net, p)
  BY DEF LoopFree, Feeds, Followed
<1>2. Covered(p)
  BY <1>1 DEF CoveredOK
<1>3. ASSUME NEW v \in Workers, Has(v, p) PROVE Has(v, p)'
  <2>1. CASE v = w
    BY <1>1, <1>3, <2>1
  <2>2. CASE v # w
    BY <1>3, <2>2 DEF OnlyOf, Has
  <2> QED
    BY <2>1, <2>2
<1> QED
  BY <1>2, <1>3 DEF Covered

(* A path and its end. *)
LEMMA PathSetIs ==
  ASSUME NEW N, NetOK(N)
  PROVE  /\ \A p : p \in PathSet(N) <=> Path(N, p)
         /\ \A p \in PathSet(N) : Len(p) \in Nat /\ Len(p) >= 1 /\ p # <<>>
         /\ \A p \in PathSet(N) : Follows(N, End(p)) \subseteq DOMAIN N.inputs
<1>1. \A p : p \in PathSet(N) <=> Path(N, p)
  BY DEF PathSet, Path, Walk
<1>2. ASSUME NEW p \in PathSet(N)
      PROVE  Len(p) \in Nat /\ Len(p) >= 1 /\ p # <<>> /\ Follows(N, End(p)) \subseteq DOMAIN N.inputs
  <2>1. Len(p) \in Nat /\ Len(p) >= 1 /\ Len(p) \in 1 .. Len(p)
    BY <1>1, WalkType DEF Path
  <2> QED
    BY <1>1, <2>1, WalkType DEF Path, End
<1> QED
  BY <1>1, <1>2

(* The invariant holds before the first task. *)
LEMMA InvInit ==
  ASSUME Init
  PROVE  Inv
<1>1. net \in Netlists /\ NetOK(net)
  BY NetsOK DEF Init
<1>2. Typed
  BY <1>1 DEF Init, Typed
<1>3. TasksOK /\ MapOK /\ LocalsOK
  BY DEF Init, TasksOK, MapOK, LocalsOK, LocalOK
<1>4. CombinedOK
  BY DEF Init, CombinedOK
<1>5. CoveredOK
  BY DEF Init, CoveredOK, Covered, Longest, Path, Walk
<1> QED
  BY <1>2, <1>3, <1>4, <1>5 DEF Inv

(* A task begins: the paths from its term are in the queue. *)
LEMMA StartInv ==
  ASSUME Inv, NEW w \in Workers, NEW t, Start(w, t)
  PROVE  Inv'
<1> DEFINE q == << << <<t, NoDriver>> >> >>
<1>1. /\ pc[w] = "idle" /\ t \in toTrace /\ toTrace' = toTrace \ {t}
      /\ queue' = [queue EXCEPT ![w] = q] /\ pc' = [pc EXCEPT ![w] = "walk"]
      /\ net' = net /\ path' = path /\ todo' = todo /\ driver' = driver /\ dnlID2ll' = dnlID2ll
      /\ local' = local /\ combined' = combined /\ maxLogicLevel' = maxLogicLevel
      /\ logicLevels' = logicLevels
  BY DEF Start
<1>2. Typed /\ TasksOK /\ NetOK(net) /\ t \in net.starts
  BY <1>1, NetsOK DEF Inv, Typed
<1>3. Path(net, << <<t, NoDriver>> >>)
  BY <1>2, StartIsPath
<1>4. q \in Seq(PathSet(net)) /\ DOMAIN q = {1} /\ q[1] = << <<t, NoDriver>> >>
  BY <1>2, <1>3, PathSetIs
<1> HIDE DEF q
<1>5. Typed'
  BY <1>1, <1>2, <1>4 DEF Typed
<1>6. queue[w] = <<>> /\ todo[w] = {} /\ queue'[w] = q /\ pc'[w] = "walk"
      /\ \A v \in Workers \ {w} : queue'[v] = queue[v] /\ pc'[v] = pc[v]
  BY <1>1, <1>2 DEF Typed, TasksOK
<1>7. TasksOK'
  BY <1>1, <1>2, <1>6 DEF TasksOK
<1>8. MapOK' /\ LocalsOK'
  BY <1>1 DEF Inv, MapOK, LocalsOK
<1>9. CombinedOK'
  BY <1>1, CombinedStep DEF Inv, AllTraced
<1>10. CoveredOK'
  <2> SUFFICES ASSUME LoopFree', NEW p \in PathSet(net)', Longest(net', p)
               PROVE  Covered(p)'
    BY DEF CoveredOK
  <2>1. LoopFree /\ p \in PathSet(net) /\ Longest(net, p)
    BY <1>1 DEF LoopFree, Feeds, Followed
  <2>2. Covered(p)
    BY <2>1 DEF CoveredOK, Inv
  <2>3. CASE p[1][1] = t
    <3>1. Walk(net, p) /\ p[1] = <<p[1][1], p[1][2]>> /\ p[1][2] = NoDriver /\ 1 \in 1 .. Len(p)
      BY <1>2, <2>1, WalkType DEF Longest, Path, Walk
    <3>2. Pre(p, 1) = q[1]
      BY <1>4, <2>3, <3>1 DEF Pre
    <3>3. Queued(q, p)
      BY <1>4, <3>1, <3>2 DEF Queued
    <3> QED
      BY <1>6, <3>3 DEF Covered, Has
  <2>4. ASSUME NEW v \in Workers, Has(v, p) PROVE Has(v, p)'
    <3>1. CASE v = w
      <4>1. p \in local[w].paths
        BY <1>1, <1>6, <2>4, <3>1 DEF Has, Queued, InHand
      <4> QED
        BY <1>1, <3>1, <4>1 DEF Has
    <3>2. CASE v # w
      BY <1>1, <1>6, <2>4, <3>2 DEF Has
    <3> QED
      BY <3>1, <3>2
  <2> QED
    BY <1>1, <2>2, <2>3, <2>4 DEF Covered
<1> QED
  BY <1>5, <1>7, <1>8, <1>9, <1>10 DEF Inv

(* The update of localMaxLogicLevel never drops a longest path. *)
LEMMA KeptPaths ==
  ASSUME NEW N, NetOK(N), NEW l \in [max : Nat, paths : SUBSET PathSet(N)], LocalOK(l),
         NEW h \in PathSet(N)
  PROVE  /\ Kept(l, h) \in [max : Nat, paths : SUBSET PathSet(N)]
         /\ LocalOK(Kept(l, h))
         /\ \A p : Longest(N, p) /\ (p \in l.paths \/ p = h) => p \in Kept(l, h).paths
<1>1. l.max \in Nat /\ l.paths \subseteq PathSet(N) /\ l = [max |-> l.max, paths |-> l.paths]
  OBVIOUS
<1>2. Len(h) \in Nat /\ Len(h) >= 1 /\ Level(h) = Len(h) - 1 /\ Level(h) \in Nat
  BY PathSetIs DEF Level
<1>3. ASSUME NEW p, Longest(N, p)
      PROVE  /\ Len(p) \in Nat /\ Level(p) > 0 /\ Level(h) <= Level(p) /\ l.max <= Level(p)
             /\ p \in l.paths => l.max = Level(p)
  <2>1. p \in PathSet(N) /\ Len(p) \in Nat /\ Len(p) > 1 /\ \A q \in PathSet(N) : Len(q) <= Len(p) /\ Len(q) \in Nat
    BY <1>3, PathSetIs DEF Longest
  <2>2. \A q \in PathSet(N) : Level(q) <= Level(p)
    BY <2>1 DEF Level
  <2>3. Level(p) > 0 /\ Level(p) \in Nat
    BY <2>1 DEF Level
  <2>4. l.max <= Level(p)
    <3>1. CASE l.max > 0
      <4>1. PICK q \in l.paths : Level(q) = l.max
        BY <3>1 DEF LocalOK
      <4> QED
        BY <1>1, <2>2, <4>1
    <3>2. CASE ~(l.max > 0)
      BY <1>1, <2>3, <3>2
    <3> QED
      BY <3>1, <3>2
  <2> QED
    BY <1>2, <2>1, <2>2, <2>3, <2>4 DEF LocalOK
<1>4. CASE Level(h) > l.max
  <2>1. Kept(l, h) = [max |-> Level(h), paths |-> {h}]
    BY <1>4 DEF Kept
  <2>2. \A p : Longest(N, p) => p \notin l.paths
    <3>1. ASSUME NEW p, Longest(N, p), p \in l.paths PROVE FALSE
      BY <1>1, <1>2, <1>3, <1>4, <3>1
    <3> QED
      BY <3>1
  <2> QED
    BY <1>2, <2>1, <2>2 DEF LocalOK
<1>5. CASE ~(Level(h) > l.max) /\ Level(h) = l.max /\ l.max > 0
  <2>1. Kept(l, h) = [l EXCEPT !.paths = l.paths \cup {h}]
    BY <1>5 DEF Kept
  <2>2. Kept(l, h).max = l.max /\ Kept(l, h).paths = l.paths \cup {h}
        /\ Kept(l, h) \in [max : Nat, paths : SUBSET PathSet(N)]
    BY <1>1, <2>1
  <2>3. LocalOK(Kept(l, h))
    BY <1>5, <2>2 DEF LocalOK
  <2> QED
    BY <2>2, <2>3
<1>6. CASE ~(Level(h) > l.max) /\ ~(Level(h) = l.max /\ l.max > 0)
  <2>1. Kept(l, h) = l
    BY <1>6 DEF Kept
  <2>2. ~Longest(N, h)
    <3>1. ASSUME Longest(N, h) PROVE FALSE
      BY <1>1, <1>2, <1>3, <1>6, <3>1
    <3> QED
      BY <3>1
  <2> QED
    BY <2>1, <2>2
<1> QED
  BY <1>4, <1>5, <1>6

(* A worker takes the next path from its queue. *)
LEMMA PopInv ==
  ASSUME Inv, NEW w \in Workers, Pop(w)
  PROVE  Inv'
<1> DEFINE h == Head(queue[w])
           D == Followed(LastTerm(h))
           k == Kept(local[w], h)
<1>1. /\ pc[w] = "walk" /\ todo[w] = {} /\ queue[w] # <<>>
      /\ path' = [path EXCEPT ![w] = h] /\ todo' = [todo EXCEPT ![w] = D]
      /\ queue' = [queue EXCEPT ![w] = Tail(queue[w])]
      /\ net' = net /\ toTrace' = toTrace /\ pc' = pc /\ driver' = driver /\ dnlID2ll' = dnlID2ll
      /\ combined' = combined /\ maxLogicLevel' = maxLogicLevel /\ logicLevels' = logicLevels
  BY DEF Pop
<1>2. local' = [local EXCEPT ![w] = k]
  BY DEF Pop
<1>3. Typed /\ TasksOK /\ NetOK(net) /\ LocalsOK
  BY NetsOK DEF Inv, Typed
<1>4. /\ queue[w] \in Seq(PathSet(net)) /\ h \in PathSet(net) /\ Tail(queue[w]) \in Seq(PathSet(net))
      /\ h = queue[w][1]
      /\ \A i \in DOMAIN queue[w] : i = 1 \/ (i - 1 \in DOMAIN Tail(queue[w]) /\ Tail(queue[w])[i - 1] = queue[w][i])
  BY <1>1, <1>3 DEF Typed
<1>5. D = Follows(net, End(h)) /\ D \subseteq DOMAIN net.inputs
  BY <1>3, <1>4, OneNet, PathSetIs DEF LastTerm, Last, End
<1>6. /\ k \in [max : Nat, paths : SUBSET PathSet(net)] /\ LocalOK(k)
      /\ \A p : Longest(net, p) /\ (p \in local[w].paths \/ p = h) => p \in k.paths
  <2>1. local[w] \in [max : Nat, paths : SUBSET PathSet(net)] /\ LocalOK(local[w])
    BY <1>3 DEF Typed, LocalsOK
  <2> QED
    BY <1>3, <1>4, <2>1, KeptPaths
<1> HIDE DEF h, D, k
<1>7. Typed'
  BY <1>1, <1>2, <1>3, <1>4, <1>5, <1>6 DEF Typed
<1>8. /\ path'[w] = h /\ todo'[w] = D /\ queue'[w] = Tail(queue[w]) /\ local'[w] = k
      /\ \A v \in Workers \ {w} : path'[v] = path[v] /\ todo'[v] = todo[v] /\ queue'[v] = queue[v] /\ local'[v] = local[v]
  BY <1>1, <1>2, <1>3 DEF Typed
<1>9. TasksOK'
  BY <1>1, <1>3, <1>4, <1>5, <1>8 DEF TasksOK
<1>10. MapOK' /\ LocalsOK'
  BY <1>1, <1>6, <1>8 DEF Inv, MapOK, LocalsOK
<1>11. CombinedOK'
  BY <1>1, CombinedStep DEF Inv, AllTraced
<1>12. ASSUME NEW p \in PathSet(net), Longest(net, p), Has(w, p) PROVE Has(w, p)'
  <2>1. CASE p \in local[w].paths
    BY <1>6, <1>8, <1>12, <2>1 DEF Has
  <2>2. CASE Queued(queue[w], p)
    <3>1. PICK j \in 1 .. Len(p), i \in DOMAIN queue[w] : queue[w][i] = Pre(p, j)
      BY <2>2 DEF Queued
    <3>2. CASE i # 1
      <4>1. Queued(Tail(queue[w]), p)
        BY <1>4, <3>1, <3>2 DEF Queued
      <4> QED
        BY <1>8, <4>1 DEF Has
    <3>3. CASE i = 1
      <4>1. h = Pre(p, j)
        BY <1>4, <3>1, <3>3
      <4>2. CASE j = Len(p)
        <5>1. h = p
          BY <1>3, <1>12, <3>1, <4>1, <4>2, PathPrefix DEF Longest
        <5> QED
          BY <1>6, <1>8, <1>12, <5>1 DEF Has
      <4>3. CASE j # Len(p)
        <5>1. Len(p) \in Nat /\ j < Len(p) /\ j \in 1 .. Len(p) - 1
          BY <1>3, <1>12, <3>1, <4>3, PathSetIs
        <5>2. Len(h) = j /\ h[j] = p[j] /\ p[j + 1][2] \in Follows(net, p[j][1])
          BY <1>3, <1>12, <3>1, <4>1, <5>1, PathPrefix DEF Longest
        <5>3. p[j + 1][2] \in D
          BY <1>5, <5>2 DEF End
        <5>4. InHand(h, D, pc'[w], driver'[w], p)
          BY <4>1, <5>1, <5>3 DEF InHand
        <5> QED
          BY <1>8, <5>4 DEF Has
      <4> QED
        BY <4>2, <4>3
    <3> QED
      BY <3>2, <3>3
  <2>3. ~InHand(path[w], todo[w], pc[w], driver[w], p)
    BY <1>1 DEF InHand
  <2> QED
    BY <1>12, <2>1, <2>2, <2>3 DEF Has
<1>13. OnlyOf(w)
  BY <1>1, <1>8 DEF OnlyOf
<1>14. CoveredOK'
  BY <1>1, <1>12, <1>13, CoveredStep DEF Inv
<1> QED
  BY <1>7, <1>9, <1>10, <1>11, <1>14 DEF Inv

(* A driver is given up only if a longer path came to it: no longest path  *)
(* goes on there.                                                          *)
LEMMA SkipInv ==
  ASSUME Inv, NEW w \in Workers, NEW d, Skip(w, d)
  PROVE  Inv'
<1>1. /\ pc[w] = "walk" /\ d \in todo[w] /\ Pruned(d, path[w])
      /\ todo' = [todo EXCEPT ![w] = todo[w] \ {d}]
      /\ net' = net /\ toTrace' = toTrace /\ pc' = pc /\ queue' = queue /\ path' = path
      /\ driver' = driver /\ dnlID2ll' = dnlID2ll /\ local' = local
      /\ combined' = combined /\ maxLogicLevel' = maxLogicLevel /\ logicLevels' = logicLevels
  BY DEF Skip
<1>2. Typed /\ TasksOK /\ NetOK(net) /\ MapOK
  BY NetsOK DEF Inv, Typed
<1>3. Typed'
  BY <1>1, <1>2 DEF Typed
<1>4. todo'[w] = todo[w] \ {d} /\ \A v \in Workers \ {w} : todo'[v] = todo[v]
  BY <1>1, <1>2 DEF Typed
<1>5. TasksOK'
  <2>1. \A v \in Workers : todo'[v] \subseteq todo[v]
    BY <1>4
  <2> QED
    BY <1>1, <1>2, <2>1 DEF TasksOK
<1>6. MapOK' /\ LocalsOK'
  BY <1>1 DEF Inv, MapOK, LocalsOK
<1>7. CombinedOK'
  BY <1>1, CombinedStep DEF Inv, AllTraced
<1>8. path[w] \in PathSet(net) /\ d \in DOMAIN net.inputs
  BY <1>1, <1>2 DEF TasksOK, Typed
<1>9. PICK q \in PathSet(net) : Len(q) > Len(path[w]) /\ d \in Follows(net, End(q))
  BY <1>1, <1>2, <1>8 DEF Pruned, MapOK
<1>10. ASSUME LoopFree, NEW p \in PathSet(net), Longest(net, p), Has(w, p) PROVE Has(w, p)'
  <2>1. CASE Queued(queue[w], p) \/ p \in local[w].paths
    BY <1>1, <2>1 DEF Has
  <2>2. CASE InHand(path[w], todo[w], pc[w], driver[w], p)
    <3>1. PICK j \in 1 .. Len(p) - 1 :
                 path[w] = Pre(p, j) /\ (p[j + 1][2] \in todo[w] \/ (pc[w] = "mark" /\ driver[w] = p[j + 1][2]))
      BY <2>2 DEF InHand
    <3>2. p[j + 1][2] \in todo[w]
      BY <1>1, <3>1
    <3>3. p[j + 1][2] # d
      <4>1. ASSUME p[j + 1][2] = d PROVE FALSE
        <5>1. Path(net, p) /\ Path(net, q) /\ Len(p) \in Nat /\ Len(q) \in Nat /\ j \in 1 .. Len(p)
          BY <1>2, PathSetIs
        <5>2. Len(path[w]) = j
          BY <1>2, <3>1, <5>1, PathPrefix
        <5>3. PICK r : Path(net, r) /\ Len(r) = Len(q) + Len(p) - j
          BY <1>2, <1>9, <1>10, <4>1, <5>1, Spliced DEF End
        <5>4. Len(r) <= Len(p)
          BY <1>2, <1>10, <5>3, PathSetIs DEF Longest
        <5> QED
          BY <1>9, <5>1, <5>2, <5>3, <5>4
      <4> QED
        BY <4>1
    <3>4. InHand(path'[w], todo'[w], pc'[w], driver'[w], p)
      BY <1>1, <1>4, <3>1, <3>2, <3>3 DEF InHand
    <3> QED
      BY <3>4 DEF Has
  <2> QED
    BY <1>10, <2>1, <2>2 DEF Has
<1>11. OnlyOf(w)
  BY <1>1, <1>4 DEF OnlyOf
<1>12. CoveredOK'
  BY <1>1, <1>10, <1>11, CoveredStep DEF Inv
<1> QED
  BY <1>3, <1>5, <1>6, <1>7, <1>12 DEF Inv

(* A driver passes the test: it is in the hands of the worker still. *)
LEMMA PassInv ==
  ASSUME Inv, NEW w \in Workers, NEW d, Pass(w, d)
  PROVE  Inv'
<1>1. /\ pc[w] = "walk" /\ d \in todo[w]
      /\ todo' = [todo EXCEPT ![w] = todo[w] \ {d}]
      /\ driver' = [driver EXCEPT ![w] = d] /\ pc' = [pc EXCEPT ![w] = "mark"]
      /\ net' = net /\ toTrace' = toTrace /\ queue' = queue /\ path' = path
      /\ dnlID2ll' = dnlID2ll /\ local' = local
      /\ combined' = combined /\ maxLogicLevel' = maxLogicLevel /\ logicLevels' = logicLevels
  BY DEF Pass
<1>2. Typed /\ TasksOK
  BY DEF Inv
<1>3. path[w] \in PathSet(net) /\ d \in DOMAIN net.inputs /\ d \in Follows(net, End(path[w]))
  BY <1>1, <1>2 DEF TasksOK, Typed
<1>4. Typed'
  BY <1>1, <1>2, <1>3 DEF Typed
<1>5. /\ todo'[w] = todo[w] \ {d} /\ driver'[w] = d /\ pc'[w] = "mark"
      /\ \A v \in Workers \ {w} : todo'[v] = todo[v] /\ driver'[v] = driver[v] /\ pc'[v] = pc[v]
  BY <1>1, <1>2 DEF Typed
<1>6. TasksOK'
  <2>1. ASSUME NEW v \in Workers
        PROVE  /\ todo'[v] # {} => path[v] \in PathSet(net) /\ todo'[v] \subseteq Follows(net, End(path[v]))
               /\ pc'[v] = "mark" => path[v] \in PathSet(net) /\ driver'[v] \in Follows(net, End(path[v]))
               /\ pc'[v] = "idle" => queue[v] = <<>> /\ todo'[v] = {}
    <3>1. CASE v = w
      BY <1>1, <1>2, <1>3, <1>5, <3>1 DEF TasksOK
    <3>2. CASE v # w
      BY <1>2, <1>5, <3>2 DEF TasksOK
    <3> QED
      BY <3>1, <3>2
  <2> QED
    BY <1>1, <2>1 DEF TasksOK
<1>7. MapOK' /\ LocalsOK'
  BY <1>1 DEF Inv, MapOK, LocalsOK
<1>8. CombinedOK'
  BY <1>1, CombinedStep DEF Inv, AllTraced
<1>9. ASSUME NEW p \in PathSet(net), Longest(net, p), Has(w, p) PROVE Has(w, p)'
  <2>1. CASE Queued(queue[w], p) \/ p \in local[w].paths
    BY <1>1, <2>1 DEF Has
  <2>2. CASE InHand(path[w], todo[w], pc[w], driver[w], p)
    <3>1. PICK j \in 1 .. Len(p) - 1 : path[w] = Pre(p, j) /\ p[j + 1][2] \in todo[w]
      BY <1>1, <2>2 DEF InHand
    <3>2. InHand(path'[w], todo'[w], pc'[w], driver'[w], p)
      BY <1>1, <1>5, <3>1 DEF InHand
    <3> QED
      BY <3>2 DEF Has
  <2> QED
    BY <1>9, <2>1, <2>2 DEF Has
<1>10. OnlyOf(w)
  BY <1>1, <1>5 DEF OnlyOf
<1>11. CoveredOK'
  BY <1>1, <1>9, <1>10, CoveredStep DEF Inv
<1> QED
  BY <1>4, <1>6, <1>7, <1>8, <1>11 DEF Inv

(* The queue gets the paths through each fresh input of the driver. *)
LEMMA ExtensionsAre ==
  ASSUME NetOK(net), NEW h \in PathSet(net), NEW d \in Follows(net, End(h)), NEW s \in FreshInputs(h, d)
  PROVE  /\ Extensions(h, d, s) \in Seq(PathSet(net))
         /\ \A g : Gate(net, g) /\ g[2] = d /\ g \notin Range(h) =>
              \E i \in DOMAIN Extensions(h, d, s) : Extensions(h, d, s)[i] = Append(h, g)
<1> DEFINE S == {t \in net.inputs[d] : <<t, d>> \notin Range(h)}
<1>1. d \in DOMAIN net.inputs /\ Path(net, h)
  BY PathSetIs
<1>2. IsFiniteSet(S) /\ s \in SetToSeqs(S)
  <2>1. IsFiniteSet(net.inputs[d]) /\ S \subseteq net.inputs[d]
    BY <1>1 DEF NetOK
  <2>2. IsFiniteSet(S)
    BY <2>1, FS_Subset
  <2> QED
    BY <2>2 DEF FreshInputs
<1>3. \A t \in S : Path(net, Append(h, <<t, d>>))
  <2>1. ASSUME NEW t \in S PROVE Path(net, Append(h, <<t, d>>))
    <3> DEFINE g == <<t, d>>
    <3>1. Gate(net, g) /\ g[2] \in Follows(net, h[Len(h)][1]) /\ g \notin Range(h)
      BY <1>1 DEF Gate, End
    <3> HIDE DEF g
    <3>2. Path(net, Append(h, g))
      BY <1>1, <3>1, PathGrows
    <3> QED
      BY <3>2 DEF g
  <2> QED
    BY <2>1
<1>4. ASSUME NEW g, Gate(net, g), g[2] = d, g \notin Range(h) PROVE g = <<g[1], d>> /\ g[1] \in S
  BY <1>4 DEF Gate
<1> HIDE DEF S
<1>5. s \in Seq(S) /\ \A x \in S : \E i \in DOMAIN s : s[i] = x
  BY <1>2, SeqOfSet
<1>6. Len(s) \in Nat /\ DOMAIN s = 1 .. Len(s) /\ \A i \in 1 .. Len(s) : s[i] \in S
  BY <1>5
<1>7. Extensions(h, d, s) \in Seq(PathSet(net))
  <2>1. \A i \in 1 .. Len(s) : Append(h, <<s[i], d>>) \in PathSet(net)
    BY <1>3, <1>6, PathSetIs
  <2>2. Extensions(h, d, s) = [i \in 1 .. Len(s) |-> Append(h, <<s[i], d>>)]
    BY <1>6 DEF Extensions
  <2> QED
    BY <1>6, <2>1, <2>2
<1>8. ASSUME NEW g, Gate(net, g), g[2] = d, g \notin Range(h)
      PROVE  \E i \in DOMAIN Extensions(h, d, s) : Extensions(h, d, s)[i] = Append(h, g)
  <2>1. g = <<g[1], d>> /\ g[1] \in S
    BY <1>4, <1>8
  <2>2. PICK i \in DOMAIN s : s[i] = g[1]
    BY <1>5, <2>1
  <2> QED
    BY <2>1, <2>2 DEF Extensions
<1> QED
  BY <1>7, <1>8

(* The map is set, whatever others wrote there, and the paths go on. *)
LEMMA MarkInv ==
  ASSUME Inv, NEW w \in Workers, Mark(w)
  PROVE  Inv'
<1> DEFINE h == path[w]
           d == driver[w]
<1>1. PICK s \in FreshInputs(h, d) :
             queue' = [queue EXCEPT ![w] = queue[w] \o Extensions(h, d, s)]
  BY DEF Mark
<1> DEFINE x == Extensions(h, d, s)
<1>2. /\ pc[w] = "mark"
      /\ dnlID2ll' = [dnlID2ll EXCEPT ![d] = Len(h)]
      /\ queue' = [queue EXCEPT ![w] = queue[w] \o x]
      /\ driver' = [driver EXCEPT ![w] = NoDriver] /\ pc' = [pc EXCEPT ![w] = "walk"]
      /\ net' = net /\ toTrace' = toTrace /\ todo' = todo /\ path' = path /\ local' = local
      /\ combined' = combined /\ maxLogicLevel' = maxLogicLevel /\ logicLevels' = logicLevels
  BY <1>1 DEF Mark
<1>3. Typed /\ TasksOK /\ NetOK(net) /\ MapOK
  BY NetsOK DEF Inv, Typed
<1>4. h \in PathSet(net) /\ d \in Follows(net, End(h)) /\ d \in DOMAIN net.inputs /\ Len(h) \in Nat
  BY <1>2, <1>3, PathSetIs DEF TasksOK
<1>5. /\ x \in Seq(PathSet(net))
      /\ \A g : Gate(net, g) /\ g[2] = d /\ g \notin Range(h) => \E i \in DOMAIN x : x[i] = Append(h, g)
  BY <1>1, <1>3, <1>4, ExtensionsAre
<1> HIDE DEF x
<1>6. /\ queue[w] \in Seq(PathSet(net)) /\ queue[w] \o x \in Seq(PathSet(net))
      /\ \A i \in DOMAIN queue[w] : i \in DOMAIN (queue[w] \o x) /\ (queue[w] \o x)[i] = queue[w][i]
      /\ \A i \in DOMAIN x : Len(queue[w]) + i \in DOMAIN (queue[w] \o x) /\ (queue[w] \o x)[Len(queue[w]) + i] = x[i]
  <2>1. queue[w] \in Seq(PathSet(net))
    BY <1>3 DEF Typed
  <2> QED
    BY <1>5, <2>1
<1>7. Typed'
  BY <1>2, <1>3, <1>4, <1>6 DEF Typed
<1>8. /\ queue'[w] = queue[w] \o x /\ driver'[w] = NoDriver /\ pc'[w] = "walk"
      /\ \A v \in Workers \ {w} : queue'[v] = queue[v] /\ driver'[v] = driver[v] /\ pc'[v] = pc[v]
  BY <1>2, <1>3 DEF Typed
<1>9. TasksOK'
  <2>1. ASSUME NEW v \in Workers
        PROVE  /\ todo[v] # {} => path[v] \in PathSet(net) /\ todo[v] \subseteq Follows(net, End(path[v]))
               /\ pc'[v] = "mark" => path[v] \in PathSet(net) /\ driver'[v] \in Follows(net, End(path[v]))
               /\ pc'[v] = "idle" => queue'[v] = <<>> /\ todo[v] = {}
    <3>1. CASE v = w
      BY <1>3, <1>8, <3>1 DEF TasksOK
    <3>2. CASE v # w
      BY <1>3, <1>8, <3>2 DEF TasksOK
    <3> QED
      BY <3>1, <3>2
  <2> QED
    BY <1>2, <2>1 DEF TasksOK
<1>10. MapOK'
  <2>1. ASSUME NEW e \in DOMAIN net.inputs, dnlID2ll'[e] # 0
        PROVE  \E q \in PathSet(net) : Len(q) = dnlID2ll'[e] /\ e \in Follows(net, End(q))
    <3>1. CASE e = d
      <4>1. dnlID2ll'[e] = Len(h)
        BY <1>2, <1>3, <3>1 DEF Typed
      <4> QED
        BY <1>4, <3>1, <4>1
    <3>2. CASE e # d
      <4>1. dnlID2ll'[e] = dnlID2ll[e]
        BY <1>2, <1>3, <3>2 DEF Typed
      <4> QED
        BY <1>3, <2>1, <4>1 DEF MapOK
    <3> QED
      BY <3>1, <3>2
  <2> QED
    BY <1>2, <2>1 DEF MapOK
<1>11. LocalsOK'
  BY <1>2 DEF Inv, LocalsOK
<1>12. CombinedOK'
  BY <1>2, CombinedStep DEF Inv, AllTraced
<1>13. ASSUME NEW p \in PathSet(net), Longest(net, p), Has(w, p) PROVE Has(w, p)'
  <2>1. CASE p \in local[w].paths
    BY <1>2, <2>1 DEF Has
  <2>2. CASE Queued(queue[w], p)
    <3>1. Queued(queue'[w], p)
      BY <1>6, <1>8, <2>2 DEF Queued
    <3> QED
      BY <3>1 DEF Has
  <2>3. CASE InHand(path[w], todo[w], pc[w], driver[w], p)
    <3>1. PICK j \in 1 .. Len(p) - 1 : h = Pre(p, j) /\ (p[j + 1][2] \in todo[w] \/ d = p[j + 1][2])
      BY <2>3 DEF InHand
    <3>2. CASE p[j + 1][2] \in todo[w]
      <4>1. InHand(path'[w], todo'[w], pc'[w], driver'[w], p)
        BY <1>2, <3>1, <3>2 DEF InHand
      <4> QED
        BY <4>1 DEF Has
    <3>3. CASE d = p[j + 1][2]
      <4>1. Path(net, p) /\ Len(p) \in Nat /\ j \in 1 .. Len(p) /\ j < Len(p) /\ j + 1 \in 1 .. Len(p)
        BY <1>3, <3>1, PathSetIs
      <4>2. Gate(net, p[j + 1]) /\ p[j + 1] \notin Range(h) /\ Append(h, p[j + 1]) = Pre(p, j + 1)
        BY <1>3, <3>1, <4>1, PathPrefix
      <4>3. PICK i \in DOMAIN x : x[i] = Pre(p, j + 1)
        BY <1>5, <3>3, <4>2
      <4>4. Queued(queue'[w], p)
        BY <1>6, <1>8, <4>1, <4>3 DEF Queued
      <4> QED
        BY <4>4 DEF Has
    <3> QED
      BY <3>1, <3>2, <3>3
  <2> QED
    BY <1>13, <2>1, <2>2, <2>3 DEF Has
<1>14. OnlyOf(w)
  BY <1>2, <1>8 DEF OnlyOf
<1>15. CoveredOK'
  BY <1>2, <1>13, <1>14, CoveredStep DEF Inv
<1> QED
  BY <1>7, <1>9, <1>10, <1>11, <1>12, <1>15 DEF Inv

(* The end of a task. *)
LEMMA FinishInv ==
  ASSUME Inv, NEW w \in Workers, Finish(w)
  PROVE  Inv'
<1>1. /\ pc[w] = "walk" /\ todo[w] = {} /\ queue[w] = <<>>
      /\ pc' = [pc EXCEPT ![w] = "idle"] /\ path' = [path EXCEPT ![w] = <<>>]
      /\ net' = net /\ toTrace' = toTrace /\ queue' = queue /\ todo' = todo /\ driver' = driver
      /\ dnlID2ll' = dnlID2ll /\ local' = local
      /\ combined' = combined /\ maxLogicLevel' = maxLogicLevel /\ logicLevels' = logicLevels
  BY DEF Finish
<1>2. Typed /\ TasksOK
  BY DEF Inv
<1>3. Typed'
  BY <1>1, <1>2 DEF Typed
<1>4. /\ pc'[w] = "idle" /\ path'[w] = <<>>
      /\ \A v \in Workers \ {w} : pc'[v] = pc[v] /\ path'[v] = path[v]
  BY <1>1, <1>2 DEF Typed
<1>5. TasksOK'
  BY <1>1, <1>2, <1>4 DEF TasksOK
<1>6. MapOK' /\ LocalsOK'
  BY <1>1 DEF Inv, MapOK, LocalsOK
<1>7. CombinedOK'
  BY <1>1, CombinedStep DEF Inv, AllTraced
<1>8. ASSUME NEW p \in PathSet(net), Longest(net, p), Has(w, p) PROVE Has(w, p)'
  <2>1. p \in local[w].paths
    BY <1>1, <1>8 DEF Has, Queued, InHand
  <2> QED
    BY <1>1, <2>1 DEF Has
<1>9. OnlyOf(w)
  BY <1>1, <1>4 DEF OnlyOf
<1>10. CoveredOK'
  BY <1>1, <1>8, <1>9, CoveredStep DEF Inv
<1> QED
  BY <1>3, <1>5, <1>6, <1>7, <1>10 DEF Inv

(* The results are put together. *)
LEMMA CombineInv ==
  ASSUME Inv, NEW w \in Workers, Combine(w)
  PROVE  Inv'
<1> DEFINE l == local[w]
<1>1. /\ AllTraced /\ combined' = combined \cup {w}
      /\ l.max > maxLogicLevel => maxLogicLevel' = l.max /\ logicLevels' = l.paths
      /\ l.max = maxLogicLevel => maxLogicLevel' = l.max /\ logicLevels' = logicLevels \cup l.paths
      /\ ~(l.max > maxLogicLevel) /\ l.max # maxLogicLevel =>
           maxLogicLevel' = maxLogicLevel /\ logicLevels' = logicLevels
      /\ net' = net /\ toTrace' = toTrace /\ queue' = queue /\ todo' = todo /\ driver' = driver
      /\ dnlID2ll' = dnlID2ll /\ local' = local /\ pc' = pc /\ path' = path
  <2>1. Typed
    BY DEF Inv
  <2>2. l.max \in Nat /\ maxLogicLevel \in Nat
    BY <2>1 DEF Typed
  <2> QED
    BY <2>2 DEF Combine
<1>2. Typed /\ CombinedOK /\ LocalsOK
  BY DEF Inv
<1>3. /\ l.max \in Nat /\ maxLogicLevel \in Nat /\ l.paths \subseteq PathSet(net)
      /\ \A v \in Workers : local[v].max \in Nat
  BY <1>2 DEF Typed
<1>4. (l.max > maxLogicLevel) \/ (l.max = maxLogicLevel) \/ (~(l.max > maxLogicLevel) /\ l.max # maxLogicLevel)
  OBVIOUS
<1>5. maxLogicLevel' \in Nat /\ logicLevels' \subseteq PathSet(net) /\ combined' \subseteq Workers
  BY <1>1, <1>2, <1>3, <1>4 DEF Typed
<1>6. Typed'
  BY <1>1, <1>2, <1>5 DEF Typed
<1>7. TasksOK' /\ MapOK' /\ LocalsOK'
  BY <1>1 DEF Inv, TasksOK, MapOK, LocalsOK
<1>8. CombinedOK'
  <2>1. AllTraced'
    BY <1>1 DEF AllTraced
  <2>2. \A p \in l.paths : Level(p) = l.max
    BY <1>2 DEF LocalsOK, LocalOK
  <2>3. \A p \in logicLevels' : Level(p) = maxLogicLevel'
    BY <1>1, <1>2, <1>4, <2>2 DEF CombinedOK
  <2>4. ASSUME NEW v \in combined'
        PROVE  /\ local[v].max <= maxLogicLevel'
               /\ local[v].max = maxLogicLevel' => local[v].paths \subseteq logicLevels'
    <3>1. CASE v = w
      BY <1>1, <1>3, <1>4, <3>1
    <3>2. CASE v \in combined
      <4>1. /\ local[v].max <= maxLogicLevel /\ local[v].max \in Nat
            /\ local[v].max = maxLogicLevel => local[v].paths \subseteq logicLevels
        BY <1>2, <1>3, <3>2 DEF CombinedOK, Typed
      <4>2. CASE l.max > maxLogicLevel
        BY <1>1, <1>3, <4>1, <4>2
      <4>3. CASE ~(l.max > maxLogicLevel)
        BY <1>1, <1>3, <4>1, <4>3
      <4> QED
        BY <4>2, <4>3
    <3> QED
      BY <1>1, <3>1, <3>2
  <2> QED
    BY <1>1, <2>1, <2>3, <2>4 DEF CombinedOK, Level
<1>9. OnlyOf(w)
  BY <1>1 DEF OnlyOf
<1>10. ASSUME NEW p \in PathSet(net), Longest(net, p), Has(w, p) PROVE Has(w, p)'
  BY <1>1, <1>10 DEF Has
<1>11. CoveredOK'
  BY <1>1, <1>9, <1>10, CoveredStep DEF Inv
<1> QED
  BY <1>6, <1>7, <1>8, <1>11 DEF Inv

-----------------------------------------------------------------------------
(* Every step keeps the invariant. *)
LEMMA InvNext ==
  ASSUME Inv, [Next]_vars
  PROVE  Inv'
<1>1. CASE Next
  <2>1. PICK w \in Workers : Work(w)
    BY <1>1 DEF Next
  <2> QED
    BY <2>1, StartInv, PopInv, SkipInv, PassInv, MarkInv, FinishInv, CombineInv DEF Work
<1>2. CASE UNCHANGED vars
  <2>1. /\ net' = net /\ toTrace' = toTrace /\ queue' = queue /\ todo' = todo /\ driver' = driver
        /\ dnlID2ll' = dnlID2ll /\ local' = local /\ pc' = pc /\ path' = path /\ combined' = combined
        /\ maxLogicLevel' = maxLogicLevel /\ logicLevels' = logicLevels
    BY <1>2 DEF vars
  <2>2. Typed' /\ TasksOK' /\ MapOK' /\ LocalsOK'
    BY <2>1 DEF Inv, Typed, TasksOK, MapOK, LocalsOK
  <2>3. CombinedOK'
    BY <2>1 DEF Inv, CombinedOK, AllTraced, Level
  <2>4. PICK w : w \in Workers
    BY LogicLevelAssumption
  <2>5. OnlyOf(w) /\ \A p : Has(w, p) => Has(w, p)'
    BY <2>1 DEF OnlyOf, Has
  <2>6. CoveredOK'
    BY <2>1, <2>4, <2>5, CoveredStep DEF Inv
  <2> QED
    BY <2>2, <2>3, <2>6 DEF Inv
<1> QED
  BY <1>1, <1>2

(* There is a longest path among those of any length. *)
LEMMA LongestExists ==
  ASSUME NetOK(net), NEW p \in PathSet(net), Len(p) > 1
  PROVE  \E q : Longest(net, q) /\ Len(p) <= Len(q)
<1> DEFINE n == Cardinality(Gates)
           S == {k \in 0 .. n : \E q \in PathSet(net) : Len(q) - 1 = n - k}
<1>1. /\ n \in Nat
      /\ \A q \in PathSet(net) : Len(q) \in Nat /\ Len(q) - 1 \in 0 .. n
  BY PathBound, PathSetIs
<1>2. \A q \in PathSet(net) : n - (Len(q) - 1) \in S
  <2>1. ASSUME NEW q \in PathSet(net) PROVE n - (Len(q) - 1) \in S
    <3>1. n - (Len(q) - 1) \in 0 .. n /\ Len(q) - 1 = n - (n - (Len(q) - 1))
      BY <1>1
    <3> QED
      BY <3>1
  <2> QED
    BY <2>1
<1>3. S \in SUBSET Nat /\ S # {}
  <2>1. \A k \in 0 .. n : k \in Nat
    BY <1>1
  <2>2. n - (Len(p) - 1) \in S
    BY <1>2
  <2> QED
    BY <2>1, <2>2
<1>4. PICK k \in S : \A m \in S : k <= m
  <2> HIDE DEF S
  <2> QED
    BY <1>3, LeastNat
<1>5. PICK q \in PathSet(net) : Len(q) - 1 = n - k
  BY <1>4
<1> HIDE DEF S
<1>6. ASSUME NEW r \in PathSet(net) PROVE Len(r) <= Len(q)
  <2>1. k <= n - (Len(r) - 1) /\ k \in Nat
    BY <1>2, <1>3, <1>4
  <2>2. Len(r) \in Nat /\ Len(q) \in Nat
    BY <1>1
  <2> QED
    BY <1>1, <1>5, <2>1, <2>2
<1>7. Len(p) <= Len(q) /\ Len(p) \in Nat /\ Len(q) \in Nat
  BY <1>1, <1>6
<1>8. Len(q) > 1 /\ Path(net, q)
  BY <1>7, PathSetIs
<1> QED
  BY <1>6, <1>7, <1>8 DEF Longest

(* When all is done the longest paths are in the result. *)
LEMMA LongestReported ==
  ASSUME Inv, Done, LoopFree, NEW p, Longest(net, p)
  PROVE  /\ Level(p) <= maxLogicLevel
         /\ Level(p) = maxLogicLevel => p \in logicLevels
<1>1. Typed /\ TasksOK /\ CombinedOK /\ LocalsOK /\ CoveredOK /\ NetOK(net)
  BY NetsOK DEF Inv, Typed
<1>2. AllTraced /\ combined = Workers
  BY <1>1, LogicLevelAssumption DEF Done, CombinedOK
<1>3. p \in PathSet(net)
  BY <1>1, PathSetIs DEF Longest
<1>4. PICK w \in Workers : Has(w, p)
  <2>1. Covered(p)
    BY <1>1, <1>3 DEF CoveredOK
  <2> QED
    BY <1>2, <2>1 DEF Covered, AllTraced
<1>5. pc[w] = "idle" /\ queue[w] = <<>> /\ todo[w] = {}
  BY <1>1, <1>2 DEF TasksOK, AllTraced
<1>6. p \in local[w].paths
  BY <1>4, <1>5 DEF Has, Queued, InHand
<1>7. Level(p) = local[w].max
  BY <1>1, <1>6 DEF LocalsOK, LocalOK
<1> QED
  BY <1>1, <1>2, <1>6, <1>7 DEF CombinedOK

(* The invariant implies what process() promises. *)
LEMMA InvExact ==
  ASSUME Inv
  PROVE  LevelsExact
<1> SUFFICES ASSUME Done
             PROVE  /\ logicLevels \subseteq RealPaths
                    /\ \A p \in logicLevels : Level(p) = maxLogicLevel
                    /\ LoopFree => \A p \in RealPaths :
                         /\ Level(p) <= maxLogicLevel
                         /\ Level(p) = maxLogicLevel /\ Level(p) > 0 => p \in logicLevels
  BY DEF LevelsExact
<1>1. Typed /\ CombinedOK /\ NetOK(net)
  BY NetsOK DEF Inv, Typed
<1>2. \A p : p \in RealPaths <=> p \in PathSet(net)
  BY <1>1, RealPathsAre, PathSetIs
<1>3. logicLevels \subseteq RealPaths
  BY <1>1, <1>2 DEF Typed
<1>4. \A p \in logicLevels : Level(p) = maxLogicLevel
  BY <1>1 DEF CombinedOK
<1>5. ASSUME LoopFree, NEW p \in RealPaths
      PROVE  /\ Level(p) <= maxLogicLevel
             /\ Level(p) = maxLogicLevel /\ Level(p) > 0 => p \in logicLevels
  <2>1. p \in PathSet(net) /\ Len(p) \in Nat /\ Len(p) >= 1 /\ maxLogicLevel \in Nat
    BY <1>1, <1>2, PathSetIs DEF Typed
  <2>2. CASE Len(p) = 1
    BY <2>1, <2>2 DEF Level
  <2>3. CASE Len(p) > 1
    <3>1. PICK q : Longest(net, q) /\ Len(p) <= Len(q)
      BY <1>1, <2>1, <2>3, LongestExists
    <3>2. Len(q) \in Nat /\ Level(q) <= maxLogicLevel
      BY <1>1, <1>5, <3>1, LongestReported, PathSetIs DEF Longest
    <3>3. Level(p) <= maxLogicLevel
      BY <2>1, <3>1, <3>2 DEF Level
    <3>4. ASSUME Level(p) = maxLogicLevel PROVE p \in logicLevels
      <4>1. Len(q) <= Len(p)
        BY <2>1, <3>1, <3>2, <3>4 DEF Level
      <4>2. \A r \in PathSet(net) : Len(r) <= Len(p)
        <5>1. ASSUME NEW r \in PathSet(net) PROVE Len(r) <= Len(p)
          <6>1. Len(r) <= Len(q) /\ Len(r) \in Nat
            BY <1>1, <3>1, PathSetIs DEF Longest
          <6> QED
            BY <2>1, <3>2, <4>1, <6>1
        <5> QED
          BY <5>1
      <4>3. Longest(net, p)
        BY <1>1, <2>1, <2>3, <4>2, PathSetIs DEF Longest
      <4> QED
        BY <1>5, <3>4, <4>3, LongestReported
    <3> QED
      BY <3>3, <3>4
  <2>4. Len(p) = 1 \/ Len(p) > 1
    <3>1. PICK m \in Nat : m = Len(p) /\ m >= 1
      BY <2>1
    <3>2. m = 1 \/ m > 1
      BY <3>1
    <3> QED
      BY <3>1, <3>2
  <2> QED
    BY <2>2, <2>3, <2>4
<1> QED
  BY <1>3, <1>4, <1>5

(* Whatever the schedule of the tasks and the updates of dnlID2ll that     *)
(* they lose, process() reports real paths of one level, and all longest   *)
(* paths of a netlist without combinational loops.                         *)
THEOREM LogicLevelsExact == Spec => []LevelsExact
<1>1. Init => Inv
  BY InvInit
<1>2. Inv /\ [Next]_vars => Inv'
  BY InvNext
<1>3. Inv => LevelsExact
  BY InvExact
<1> QED
  BY <1>1, <1>2, <1>3, PTL DEF Spec
=============================================================================

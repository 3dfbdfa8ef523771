-------------------------- MODULE NLUniverseProofs --------------------------
(***************************************************************************)
(* What NLUniverse promises, for any number of databases, libraries and    *)
(* designs.  Two conditions are needed and stated with the theorems that   *)
(* use them: the IDs of databases do not run out, and nested libraries     *)
(* have other names than those of a database.                              *)
(***************************************************************************)
EXTENDS NLUniverse, Integers, SequencesExt, TLAPS, WellFoundedInduction, FiniteSetTheorems, FunctionTheorems

-----------------------------------------------------------------------------
(* Natural numbers. *)

(* Every nonempty set of naturals has a least element. *)
LEMMA LeastNat == \A T \in SUBSET Nat : T # {} => \E n \in T : \A m \in T : n <= m
<1> SUFFICES ASSUME NEW T \in SUBSET Nat, T # {}
             PROVE  \E n \in T : \A m \in T : n <= m
  OBVIOUS
<1> DEFINE R == OpToRel(<, Nat)
<1>1. IsWellFoundedOn(R, Nat)
  BY NatLessThanWellFounded
<1>2. \A m, n \in Nat : m < n => <<m, n>> \in R
  BY DEF OpToRel
<1> HIDE DEF R
<1>3. PICK n \in T : \A m \in T : ~(<<m, n>> \in R)
  BY <1>1, WFMin
<1>4. \A m \in T : ~(m < n)
  BY <1>2, <1>3
<1>5. \A m \in T : n <= m
  BY <1>4
<1> QED
  BY <1>5

(* A set that contains 0 and with a number of 0 .. n - 1 its successor     *)
(* contains 0 .. n.                                                        *)
LEMMA UpTo ==
  ASSUME NEW n \in Nat, NEW S, 0 \in S,
         \A k \in 0 .. n - 1 : k \in S => k + 1 \in S
  PROVE  \A k \in 0 .. n : k \in S
<1> DEFINE T == {k \in 0 .. n : k \notin S}
<1> SUFFICES ASSUME T # {} PROVE FALSE
  OBVIOUS
<1>0. T \in SUBSET Nat
  OBVIOUS
<1>1. PICK k \in T : \A m \in T : k <= m
  <2> HIDE DEF T
  <2> QED
    BY <1>0, LeastNat
<1>2. k # 0 /\ k - 1 \in 0 .. n - 1 /\ k - 1 \notin T
  BY <1>1
<1>3. k - 1 \in S
  BY <1>2
<1>4. (k - 1) + 1 \in S
  BY <1>2, <1>3
<1> QED
  BY <1>4, <1>1

(* The principle of induction. *)
LEMMA NatInduct ==
  ASSUME NEW S, 0 \in S, \A k \in Nat : k \in S => k + 1 \in S
  PROVE  \A k \in Nat : k \in S
<1> TAKE n \in Nat
<1>1. \A k \in 0 .. n : k \in S
  BY UpTo
<1> QED
  BY <1>1

-----------------------------------------------------------------------------
(* The IDs chosen by clients, and those counted on from them, stay below   *)
(* the number of IDs: addDBAndSetID() does not wrap around.                *)
IDsSuffice ==
  /\ IsFiniteSet(DBs)
  /\ \A g \in GivenDBIDs \cup {0} : g + Cardinality(DBs) <= DBIDs

(* Clients renumber user databases to free IDs, leave DB0 alone, use the    *)
(* primitives of their own database and of DB0, and destroy no primitive   *)
(* that has an instance.                                                   *)
NoHabits == Habits = {}

NamesApart == RootNames \cap NestedNames = {}

(***************************************************************************)
(* Registers.  f holds the objects S, each under its ID.                   *)
(***************************************************************************)
Bounded(N) == N \subseteq Nat /\ \E b \in Nat : \A n \in N : n <= b

Registers(f, S, id) ==
  /\ Bounded(DOMAIN f)
  /\ \A n \in DOMAIN f : f[n] \in S /\ id[f[n]] = n
  /\ \A x \in S : id[x] \in DOMAIN f /\ f[id[x]] = x

(* The ID after the last one is free. *)
LEMMA NextIDFresh ==
  ASSUME NEW f, Bounded(DOMAIN f)
  PROVE  NextID(f) \in Nat /\ \A n \in DOMAIN f : n < NextID(f)
<1>1. CASE DOMAIN f = {}
  BY <1>1 DEF NextID
<1>2. CASE DOMAIN f # {}
  <2> DEFINE T == {b \in Nat : \A n \in DOMAIN f : n <= b}
  <2>1. PICK b \in T : \A c \in T : b <= c
    <3>1. T \in SUBSET Nat /\ T # {}
      BY DEF Bounded
    <3> HIDE DEF T
    <3> QED
      BY <3>1, LeastNat
  <2>2. DOMAIN f \subseteq Nat
    BY DEF Bounded
  <2>3. b \in DOMAIN f
    <3> SUFFICES ASSUME b \notin DOMAIN f PROVE FALSE
      OBVIOUS
    <3>1. \A n \in DOMAIN f : n <= b - 1
      BY <2>1, <2>2
    <3>2. b - 1 \in Nat
      BY <1>2, <2>1, <2>2, <3>1
    <3> QED
      BY <2>1, <3>1, <3>2
  <2>4. Max(DOMAIN f) \in DOMAIN f /\ \A n \in DOMAIN f : Max(DOMAIN f) >= n
    BY <2>1, <2>2, <2>3 DEF Max
  <2> HIDE DEF T
  <2> QED
    BY <1>2, <2>2, <2>4 DEF NextID
<1> QED
  BY <1>1, <1>2

LEMMA BoundedAdd ==
  ASSUME NEW N, Bounded(N), NEW n \in Nat
  PROVE  Bounded(N \cup {n})
<1>1. PICK b \in Nat : \A k \in N : k <= b
  BY DEF Bounded
<1>2. CASE n <= b
  BY <1>1, <1>2 DEF Bounded
<1>3. CASE ~(n <= b)
  <2>1. \A k \in N : k <= n
    BY <1>1, <1>3 DEF Bounded
  <2> QED
    BY <2>1 DEF Bounded
<1> QED
  BY <1>2, <1>3

(* A new object under a free ID. *)
LEMMA RegistersInsert ==
  ASSUME NEW f, NEW S, NEW id, Registers(f, S, id), NEW x, x \notin S,
         NEW n \in Nat, n \notin DOMAIN f,
         NEW jd, \A y \in S : jd[y] = id[y], jd[x] = n
  PROVE  Registers(Insert(f, n, x), S \cup {x}, jd)
<1> DEFINE g == Insert(f, n, x)
<1>1. DOMAIN g = DOMAIN f \cup {n} /\ g[n] = x /\ \A k \in DOMAIN f : g[k] = f[k]
  BY DEF Insert
<1>2. Bounded(DOMAIN g)
  BY <1>1, BoundedAdd DEF Registers
<1> HIDE DEF g
<1>3. \A k \in DOMAIN g : g[k] \in S \cup {x} /\ jd[g[k]] = k
  BY <1>1 DEF Registers
<1>4. \A y \in S \cup {x} : jd[y] \in DOMAIN g /\ g[jd[y]] = y
  BY <1>1 DEF Registers
<1>5. Registers(g, S \cup {x}, jd)
  BY <1>2, <1>3, <1>4 DEF Registers
<1> QED
  BY <1>5 DEF g

(* The objects G go. *)
LEMMA RegistersWithout ==
  ASSUME NEW f, NEW S, NEW id, Registers(f, S, id), NEW G, NEW K,
         \A x \in S \cap G : id[x] \in K,
         \A x \in S \ G : id[x] \notin K,
         NEW jd, \A x \in S \ G : jd[x] = id[x]
  PROVE  Registers(Without(f, K), S \ G, jd)
<1> DEFINE g == Without(f, K)
<1>1. DOMAIN g = DOMAIN f \ K /\ \A k \in DOMAIN g : g[k] = f[k]
  BY DEF Without
<1>2. Bounded(DOMAIN g)
  BY <1>1 DEF Registers, Bounded
<1> HIDE DEF g
<1>3. \A k \in DOMAIN g : g[k] \in S \ G /\ jd[g[k]] = k
  BY <1>1 DEF Registers
<1>4. \A y \in S \ G : jd[y] \in DOMAIN g /\ g[jd[y]] = y
  BY <1>1 DEF Registers
<1>5. Registers(g, S \ G, jd)
  BY <1>2, <1>3, <1>4 DEF Registers
<1> QED
  BY <1>5 DEF g

LEMMA RegistersKept ==
  ASSUME NEW f, NEW S, NEW id, Registers(f, S, id), NEW jd, \A x \in S : jd[x] = id[x]
  PROVE  Registers(f, S, jd)
BY DEF Registers

LEMMA RegistersEmpty == ASSUME NEW id PROVE Registers(<<>>, {}, id)
<1>1. DOMAIN <<>> = {}
  OBVIOUS
<1> QED
  BY <1>1 DEF Registers, Bounded

(***************************************************************************)
(* Name tables.  names maps the names in N of the objects S to their IDs;  *)
(* what it has under other names does not matter.                          *)
(***************************************************************************)
Named(names, N, S, nm, id) ==
  /\ \A x \in S : nm[x] \in N => nm[x] \in DOMAIN names /\ names[nm[x]] = id[x]
  /\ \A n \in N \cap DOMAIN names : \E x \in S : nm[x] = n /\ names[n] = id[x]

LEMMA NamedKept ==
  ASSUME NEW names, NEW N, NEW S, NEW nm, NEW id, Named(names, N, S, nm, id),
         NEW mm, NEW jd, \A x \in S : mm[x] = nm[x] /\ jd[x] = id[x]
  PROVE  Named(names, N, S, mm, jd)
BY DEF Named

LEMMA NamedEmpty == ASSUME NEW N, NEW nm, NEW id PROVE Named(<<>>, N, {}, nm, id)
<1>1. DOMAIN <<>> = {}
  OBVIOUS
<1> QED
  BY <1>1 DEF Named

(* An entry under a name that is not in N. *)
LEMMA NamedOther ==
  ASSUME NEW names, NEW N, NEW S, NEW nm, NEW id, Named(names, N, S, nm, id),
         NEW n, n \notin N, NEW v
  PROVE  Named(Assign(names, n, v), N, S, nm, id)
<1> DEFINE g == Assign(names, n, v)
<1>1. DOMAIN g = DOMAIN names \cup {n} /\ \A k \in DOMAIN names \ {n} : g[k] = names[k]
  BY DEF Assign
<1> HIDE DEF g
<1>2. Named(g, N, S, nm, id)
  BY <1>1 DEF Named
<1> QED
  BY <1>2 DEF g

(* A new object with a free name, or without one. *)
LEMMA NamedAssign ==
  ASSUME NEW names, NEW N, NEW S, NEW nm, NEW id, Named(names, N, S, nm, id),
         NEW x, x \notin S, NEW mm, NEW jd,
         \A y \in S : mm[y] = nm[y] /\ jd[y] = id[y],
         mm[x] \in N => mm[x] \notin DOMAIN names
  PROVE  Named(Assign(names, mm[x], jd[x]), N, S \cup {x}, mm, jd)
<1> DEFINE g == Assign(names, mm[x], jd[x])
<1>1. /\ DOMAIN g = DOMAIN names \cup {mm[x]} /\ g[mm[x]] = jd[x]
      /\ \A k \in DOMAIN names \ {mm[x]} : g[k] = names[k]
  BY DEF Assign
<1> HIDE DEF g
<1>2. \A y \in S : mm[y] \in N => mm[y] # mm[x]
  BY DEF Named
<1>3. \A y \in S \cup {x} : mm[y] \in N => mm[y] \in DOMAIN g /\ g[mm[y]] = jd[y]
  BY <1>1, <1>2 DEF Named
<1>4. \A n \in N \cap DOMAIN g : \E y \in S \cup {x} : mm[y] = n /\ g[n] = jd[y]
  <2> TAKE n \in N \cap DOMAIN g
  <2>1. CASE n = mm[x]
    BY <1>1, <2>1
  <2>2. CASE n # mm[x]
    BY <1>1, <2>2 DEF Named
  <2> QED
    BY <2>1, <2>2
<1>5. Named(g, N, S \cup {x}, mm, jd)
  BY <1>3, <1>4 DEF Named
<1> QED
  BY <1>5 DEF g

(* A new object without a name that matters. *)
LEMMA NamedNameless ==
  ASSUME NEW names, NEW N, NEW S, NEW nm, NEW id, Named(names, N, S, nm, id),
         NEW x, NEW mm, NEW jd, \A y \in S : mm[y] = nm[y] /\ jd[y] = id[y], mm[x] \notin N
  PROVE  Named(names, N, S \cup {x}, mm, jd)
BY DEF Named

(* The objects G go, with their entries K. *)
LEMMA NamedWithout ==
  ASSUME NEW names, NEW N, NEW S, NEW nm, NEW id, Named(names, N, S, nm, id),
         NEW G, NEW K,
         \A x \in S \cap G : nm[x] \in N => nm[x] \in K,
         \A x \in S \ G : nm[x] \in N => nm[x] \notin K,
         NEW mm, NEW jd, \A x \in S \ G : mm[x] = nm[x] /\ jd[x] = id[x]
  PROVE  Named(Without(names, K), N, S \ G, mm, jd)
<1> DEFINE g == Without(names, K)
<1>1. DOMAIN g = DOMAIN names \ K /\ \A k \in DOMAIN g : g[k] = names[k]
  BY DEF Without
<1> HIDE DEF g
<1>2. \A x \in S \ G : mm[x] \in N => mm[x] \in DOMAIN g /\ g[mm[x]] = jd[x]
  BY <1>1 DEF Named
<1>3. \A n \in N \cap DOMAIN g : \E x \in S \ G : mm[x] = n /\ g[n] = jd[x]
  <2> TAKE n \in N \cap DOMAIN g
  <2>1. PICK x \in S : nm[x] = n /\ names[n] = id[x]
    BY <1>1 DEF Named
  <2>2. x \notin G
    BY <1>1, <2>1
  <2> QED
    BY <1>1, <2>1, <2>2
<1>4. Named(g, N, S \ G, mm, jd)
  BY <1>2, <1>3 DEF Named
<1> QED
  BY <1>4 DEF g

(* OWNER_RENAME on object x. *)
LEMMA NamedRename ==
  ASSUME NEW names, NEW N, NEW S, NEW nm, NEW id, Named(names, N, S, nm, id),
         NoName \notin N, NEW x \in S, nm[x] \in N \cup {NoName},
         \A y \in S : id[y] = id[x] => y = x,
         NEW n \in N \cup {NoName}, n \in N => n \notin DOMAIN names,
         NEW mm, \A y \in S \ {x} : mm[y] = nm[y], mm[x] = n
  PROVE  /\ RenameAsserts(names, nm[x])
         /\ Named(Rename(names, id[x], nm[x], n), N, S, mm, id)
<1> DEFINE g == Rename(names, id[x], nm[x], n)
<1>1. RenameAsserts(names, nm[x])
  BY DEF RenameAsserts, Named
<1>2. \A y \in S \ {x} : nm[y] \in N => nm[y] # nm[x] /\ nm[y] # n
  BY DEF Named
<1>3. /\ \A k \in DOMAIN g : k \in N => k = n \/ (k \in DOMAIN names \ {nm[x]} /\ g[k] = names[k])
      /\ \A k \in DOMAIN names \ {nm[x], n} : k \in DOMAIN g /\ g[k] = names[k]
      /\ n \in N => n \in DOMAIN g /\ g[n] = id[x]
  <2>1. CASE nm[x] = NoName /\ n = NoName
    <3>1. g = names
      BY <2>1 DEF Rename
    <3> QED
      BY <2>1, <3>1
  <2>2. CASE nm[x] = NoName /\ n # NoName
    <3>1. g = Assign(names, n, id[x])
      BY <2>2 DEF Rename
    <3>2. DOMAIN g = DOMAIN names \cup {n} /\ g[n] = id[x] /\ \A k \in DOMAIN names \ {n} : g[k] = names[k]
      BY <3>1 DEF Assign
    <3> HIDE DEF g
    <3> QED
      BY <2>2, <3>2
  <2>3. CASE nm[x] # NoName /\ n = NoName
    <3>1. g = Without(names, {nm[x]})
      BY <2>3 DEF Rename
    <3>2. DOMAIN g = DOMAIN names \ {nm[x]} /\ \A k \in DOMAIN g : g[k] = names[k]
      BY <3>1 DEF Without
    <3> HIDE DEF g
    <3> QED
      BY <2>3, <3>2
  <2>4. CASE nm[x] # NoName /\ n # NoName
    <3> DEFINE w == Without(names, {nm[x]})
    <3>1. g = Insert(w, n, names[nm[x]])
      BY <2>4 DEF Rename
    <3>2. DOMAIN w = DOMAIN names \ {nm[x]} /\ \A k \in DOMAIN w : w[k] = names[k]
      BY DEF Without
    <3> HIDE DEF g, w
    <3>3. /\ DOMAIN g = DOMAIN w \cup {n} /\ \A k \in DOMAIN w : g[k] = w[k]
          /\ n \notin DOMAIN w => g[n] = names[nm[x]]
      BY <3>1 DEF Insert
    <3>4. n \notin DOMAIN w /\ names[nm[x]] = id[x]
      BY <2>4, <3>2 DEF Named
    <3> QED
      BY <2>4, <3>2, <3>3, <3>4
  <2> QED
    BY <2>1, <2>2, <2>3, <2>4
<1> HIDE DEF g
<1>4. \A y \in S : mm[y] \in N => mm[y] \in DOMAIN g /\ g[mm[y]] = id[y]
  <2> TAKE y \in S
  <2>1. CASE y = x
    BY <1>3, <2>1
  <2>2. CASE y # x
    BY <1>2, <1>3, <2>2 DEF Named
  <2> QED
    BY <2>1, <2>2
<1>5. \A k \in N \cap DOMAIN g : \E y \in S : mm[y] = k /\ g[k] = id[y]
  <2> TAKE k \in N \cap DOMAIN g
  <2>1. CASE k = n
    BY <1>3, <2>1
  <2>2. CASE k # n
    <3>1. k \in DOMAIN names \ {nm[x]} /\ g[k] = names[k]
      BY <1>3, <2>2
    <3>2. PICK y \in S : nm[y] = k /\ names[k] = id[y]
      BY <3>1 DEF Named
    <3>3. y # x
      BY <3>1, <3>2
    <3> QED
      BY <3>1, <3>2, <3>3
  <2> QED
    BY <2>1, <2>2
<1>6. Named(g, N, S, mm, id)
  BY <1>4, <1>5 DEF Named
<1> QED
  BY <1>1, <1>6 DEF g

(* A lookup finds the object of that name, or nothing. *)
LEMMA FindExact ==
  ASSUME NEW names, NEW N, NEW S, NEW nm, NEW id, Named(names, N, S, nm, id),
         NEW f, NEW T, Registers(f, T, id), S \subseteq T, None \notin T, NEW n \in N, n # NoName
  PROVE  /\ \A l \in T : (l \in S /\ nm[l] = n) <=> Find(names, f, n) = l
         /\ Free(names, f, n) => n \notin DOMAIN names
<1>1. CASE n \notin DOMAIN names
  <2>1. Find(names, f, n) = None
    BY <1>1 DEF Find
  <2> QED
    BY <1>1, <2>1 DEF Named
<1>2. CASE n \in DOMAIN names
  <2>1. PICK x \in S : nm[x] = n /\ names[n] = id[x]
    BY <1>2 DEF Named
  <2>2. id[x] \in DOMAIN f /\ f[id[x]] = x
    BY <2>1 DEF Registers
  <2>3. Find(names, f, n) = x
    BY <1>2, <2>1, <2>2 DEF Find
  <2>4. \A l \in S : nm[l] = n => l = x
    BY <2>1, <2>2 DEF Named, Registers
  <2> QED
    BY <2>1, <2>3, <2>4 DEF Free
<1> QED
  BY <1>1, <1>2

(***************************************************************************)
(* The tree of libraries L.  Nesting ends because a library has a larger   *)
(* ID than the one it is nested in: IDs count on within the database.      *)
(***************************************************************************)
RootIn(L, k) == L[k].owner \in DBs

Tree(L) ==
  /\ DOMAIN L \subseteq Libraries
  /\ \A k \in DOMAIN L :
       /\ L[k].id \in Nat
       /\ \/ RootIn(L, k)
          \/ L[k].owner \in DOMAIN L /\ L[L[k].owner].id < L[k].id

UpClosed(L, S) == \A x \in S : RootIn(L, x) \/ L[x].owner \in S

AboveIn(L, k) == {l \in DOMAIN L : \A S \in SUBSET DOMAIN L : k \in S /\ UpClosed(L, S) => l \in S}

DBIn(L, k) == L[CHOOSE l \in AboveIn(L, k) : RootIn(L, l)].owner

DownClosed(L, S) == \A x \in S : Range(L[x].libraries) \subseteq S

UnderIn(L, l) == {k \in DOMAIN L : \A S \in SUBSET DOMAIN L : l \in S /\ DownClosed(L, S) => k \in S}

LEMMA AboveIsAboveIn == \A k : Above(k) = AboveIn(lib, k)
BY DEF Above, AboveIn, UpClosed, RootIn, Root

LEMMA GetDBIsDBIn == \A k : getDB(k) = DBIn(lib, k)
BY AboveIsAboveIn DEF getDB, DBIn, RootIn, Root

LEMMA UnderIsUnderIn == \A l : Under(l) = UnderIn(lib, l)
BY DEF Under, UnderIn, DownClosed

LEMMA AboveLeast ==
  ASSUME NEW L, NEW k, NEW S \in SUBSET DOMAIN L, k \in S, UpClosed(L, S)
  PROVE  AboveIn(L, k) \subseteq S
BY DEF AboveIn

LEMMA AboveClosed ==
  ASSUME NEW L, Tree(L), NEW k \in DOMAIN L
  PROVE  /\ k \in AboveIn(L, k)
         /\ UpClosed(L, AboveIn(L, k))
         /\ AboveIn(L, k) \subseteq DOMAIN L
<1>1. k \in AboveIn(L, k) /\ AboveIn(L, k) \subseteq DOMAIN L
  BY DEF AboveIn
<1>2. ASSUME NEW x \in AboveIn(L, k), ~RootIn(L, x)
      PROVE  L[x].owner \in AboveIn(L, k)
  <2>1. L[x].owner \in DOMAIN L
    BY <1>1, <1>2 DEF Tree
  <2>2. ASSUME NEW S \in SUBSET DOMAIN L, k \in S, UpClosed(L, S)
        PROVE  L[x].owner \in S
    <3>1. x \in S
      BY <2>2, AboveLeast
    <3> QED
      BY <1>2, <2>2, <3>1 DEF UpClosed
  <2> QED
    BY <2>1, <2>2 DEF AboveIn
<1> QED
  BY <1>1, <1>2 DEF UpClosed

LEMMA RootAbove ==
  ASSUME NEW L, Tree(L), NEW k \in DOMAIN L
  PROVE  \E l \in AboveIn(L, k) : RootIn(L, l)
<1> DEFINE A == AboveIn(L, k)
           T == {L[l].id : l \in A}
<1>1. k \in A /\ UpClosed(L, A) /\ A \subseteq DOMAIN L
  BY AboveClosed
<1> HIDE DEF A
<1>2. T \in SUBSET Nat /\ T # {}
  BY <1>1 DEF Tree
<1>3. PICK n \in T : \A m \in T : n <= m
  <2> HIDE DEF T
  <2> QED
    BY <1>2, LeastNat
<1>4. PICK l \in A : n = L[l].id
  BY <1>3
<1>5. CASE RootIn(L, l)
  BY <1>4, <1>5 DEF A
<1>6. CASE ~RootIn(L, l)
  <2>1. L[l].owner \in A /\ L[L[l].owner].id < L[l].id
    BY <1>1, <1>4, <1>6 DEF UpClosed, Tree
  <2>2. L[L[l].owner].id \in T
    BY <2>1
  <2> QED
    BY <1>1, <1>2, <1>3, <1>4, <2>1, <2>2
<1> QED
  BY <1>5, <1>6

(* The chosen root. *)
LEMMA DBChosen ==
  ASSUME NEW L, Tree(L), NEW k \in DOMAIN L
  PROVE  \E r \in AboveIn(L, k) : RootIn(L, r) /\ DBIn(L, k) = L[r].owner
BY RootAbove DEF DBIn

(* NLLibrary::getDB(), as the code has it. *)
LEMMA DBRoot ==
  ASSUME NEW L, Tree(L), NEW k \in DOMAIN L, RootIn(L, k)
  PROVE  DBIn(L, k) = L[k].owner
<1>1. UpClosed(L, {k})
  BY DEF UpClosed
<1>2. AboveIn(L, k) \subseteq {k}
  BY <1>1, AboveLeast
<1> QED
  BY <1>2, DBChosen

LEMMA DBNested ==
  ASSUME NEW L, Tree(L), NEW k \in DOMAIN L, ~RootIn(L, k)
  PROVE  L[k].owner \in DOMAIN L /\ DBIn(L, k) = DBIn(L, L[k].owner)
<1> DEFINE p == L[k].owner
<1>1. p \in DOMAIN L
  BY DEF Tree
<1> HIDE DEF p
<1>2. AboveIn(L, p) \subseteq AboveIn(L, k)
  <2>1. p \in AboveIn(L, k) /\ UpClosed(L, AboveIn(L, k)) /\ AboveIn(L, k) \in SUBSET DOMAIN L
    BY AboveClosed DEF UpClosed, p
  <2> QED
    BY <2>1, AboveLeast
<1>3. AboveIn(L, k) \subseteq AboveIn(L, p) \cup {k}
  <2> DEFINE S == AboveIn(L, p) \cup {k}
  <2>1. p \in AboveIn(L, p) /\ UpClosed(L, AboveIn(L, p)) /\ AboveIn(L, p) \in SUBSET DOMAIN L
    BY <1>1, AboveClosed
  <2>2. S \in SUBSET DOMAIN L /\ k \in S /\ UpClosed(L, S)
    BY <2>1 DEF UpClosed, p
  <2> HIDE DEF S
  <2>3. AboveIn(L, k) \subseteq S
    BY <2>2, AboveLeast
  <2> QED
    BY <2>3 DEF S
<1>4. \A l : (l \in AboveIn(L, k) /\ RootIn(L, l)) <=> (l \in AboveIn(L, p) /\ RootIn(L, l))
  BY <1>2, <1>3
<1>5. (CHOOSE l \in AboveIn(L, k) : RootIn(L, l)) = (CHOOSE l \in AboveIn(L, p) : RootIn(L, l))
  BY <1>4
<1>6. DBIn(L, k) = DBIn(L, p)
  BY <1>5 DEF DBIn
<1> QED
  BY <1>1, <1>6 DEF p

(* All libraries above one are of its database. *)
LEMMA AboveSameDB ==
  ASSUME NEW L, Tree(L), NEW k \in DOMAIN L, NEW l \in AboveIn(L, k)
  PROVE  l \in DOMAIN L /\ DBIn(L, l) = DBIn(L, k)
<1> DEFINE S == {x \in DOMAIN L : DBIn(L, x) = DBIn(L, k)}
<1>1. UpClosed(L, S)
  BY DBNested DEF UpClosed
<1>2. AboveIn(L, k) \subseteq S
  <2>1. S \in SUBSET DOMAIN L /\ k \in S
    OBVIOUS
  <2> HIDE DEF S
  <2> QED
    BY <1>1, <2>1, AboveLeast
<1> QED
  BY <1>2

(* A library stays in its database as long as owners are not exchanged. *)
LEMMA DBKept ==
  ASSUME NEW L, Tree(L), NEW M, Tree(M),
         \A x \in DOMAIN L \cap DOMAIN M : M[x].owner = L[x].owner,
         NEW k \in DOMAIN L \cap DOMAIN M
  PROVE  DBIn(M, k) = DBIn(L, k)
<1> DEFINE S == {x \in DOMAIN L \cap DOMAIN M : DBIn(L, x) = DBIn(L, k)}
<1>1. UpClosed(M, S)
  <2> SUFFICES ASSUME NEW x \in S, ~RootIn(M, x) PROVE M[x].owner \in S
    BY DEF UpClosed
  <2>1. ~RootIn(L, x) /\ M[x].owner = L[x].owner
    BY DEF RootIn
  <2>2. L[x].owner \in DOMAIN L /\ DBIn(L, L[x].owner) = DBIn(L, x)
    BY <2>1, DBNested
  <2>3. M[x].owner \in DOMAIN M
    BY DBNested
  <2> QED
    BY <2>1, <2>2, <2>3
<1>2. AboveIn(M, k) \subseteq S
  <2>1. S \in SUBSET DOMAIN M /\ k \in S
    OBVIOUS
  <2> HIDE DEF S
  <2> QED
    BY <1>1, <2>1, AboveLeast
<1>3. PICK r \in AboveIn(M, k) : RootIn(M, r) /\ DBIn(M, k) = M[r].owner
  BY DBChosen
<1>4. r \in DOMAIN L /\ M[r].owner = L[r].owner /\ DBIn(L, r) = DBIn(L, k)
  BY <1>2
<1>5. RootIn(L, r)
  BY <1>3, <1>4 DEF RootIn
<1>6. DBIn(L, r) = L[r].owner
  BY <1>4, <1>5, DBRoot
<1> QED
  BY <1>3, <1>4, <1>6

(* What is under a library, when the sets of nested libraries are exact. *)
Children(L, p) == {k \in DOMAIN L : L[k].owner = p}

Kids(L) == \A x \in DOMAIN L : Range(L[x].libraries) = Children(L, x)

LEMMA UnderLeast ==
  ASSUME NEW L, NEW l, NEW S \in SUBSET DOMAIN L, l \in S, DownClosed(L, S)
  PROVE  UnderIn(L, l) \subseteq S
BY DEF UnderIn

LEMMA UnderClosed ==
  ASSUME NEW L, Tree(L), Kids(L), NEW l \in DOMAIN L
  PROVE  /\ l \in UnderIn(L, l)
         /\ UnderIn(L, l) \subseteq DOMAIN L
         /\ DownClosed(L, UnderIn(L, l))
         /\ \A k \in DOMAIN L : L[k].owner \in UnderIn(L, l) => k \in UnderIn(L, l)
<1>1. l \in UnderIn(L, l) /\ UnderIn(L, l) \subseteq DOMAIN L
  BY DEF UnderIn
<1>2. ASSUME NEW k \in DOMAIN L, L[k].owner \in UnderIn(L, l)
      PROVE  k \in UnderIn(L, l)
  <2>1. ASSUME NEW S \in SUBSET DOMAIN L, l \in S, DownClosed(L, S)
        PROVE  k \in S
    <3>1. L[k].owner \in S
      BY <1>2, <2>1, UnderLeast
    <3>2. k \in Range(L[L[k].owner].libraries)
      BY <2>1, <3>1 DEF Kids, Children
    <3> QED
      BY <2>1, <3>1, <3>2 DEF DownClosed
  <2> QED
    BY <2>1 DEF UnderIn
<1>3. DownClosed(L, UnderIn(L, l))
  BY <1>1, <1>2 DEF DownClosed, Kids, Children
<1> QED
  BY <1>1, <1>2, <1>3

(* A library under l is l or nested in a library under l; all of them are  *)
(* of the same database.                                                   *)
LEMMA UnderSameDB ==
  ASSUME NEW L, Tree(L), Kids(L), NEW l \in DOMAIN L, NEW k \in UnderIn(L, l)
  PROVE  /\ DBIn(L, k) = DBIn(L, l)
         /\ k = l \/ (~RootIn(L, k) /\ L[k].owner \in UnderIn(L, l))
<1> USE UniverseAssumption
<1> DEFINE U == UnderIn(L, l)
           S == {x \in U : /\ DBIn(L, x) = DBIn(L, l)
                           /\ x = l \/ (~RootIn(L, x) /\ L[x].owner \in U)}
<1>1. l \in U /\ U \subseteq DOMAIN L /\ DownClosed(L, U)
  BY UnderClosed
<1>2. DownClosed(L, S)
  <2> SUFFICES ASSUME NEW x \in S, NEW y \in Range(L[x].libraries) PROVE y \in S
    BY DEF DownClosed
  <2>1. x \in U /\ x \in DOMAIN L /\ x \in Libraries
    BY <1>1 DEF Tree
  <2>2. y \in U /\ y \in DOMAIN L /\ L[y].owner = x
    BY <1>1, <2>1 DEF DownClosed, Kids, Children
  <2>3. ~RootIn(L, y)
    BY <2>1, <2>2 DEF RootIn
  <2>4. DBIn(L, y) = DBIn(L, x)
    BY <2>2, <2>3, DBNested
  <2> QED
    BY <2>1, <2>2, <2>3, <2>4
<1>3. U \subseteq S
  <2>1. S \in SUBSET DOMAIN L /\ l \in S
    BY <1>1
  <2> HIDE DEF S
  <2> QED
    BY <1>2, <2>1, UnderLeast
<1> QED
  BY <1>3

(* Every library is under a root of its database. *)
LEMMA UnderRoot ==
  ASSUME NEW L, Tree(L), Kids(L), NEW k \in DOMAIN L
  PROVE  \E r \in DOMAIN L : RootIn(L, r) /\ L[r].owner = DBIn(L, k) /\ k \in UnderIn(L, r)
<1> DEFINE S == {x \in DOMAIN L : k \in UnderIn(L, x)}
<1>1. UpClosed(L, S)
  <2> SUFFICES ASSUME NEW x \in S, ~RootIn(L, x) PROVE L[x].owner \in S
    BY DEF UpClosed
  <2> DEFINE p == L[x].owner
  <2>1. p \in DOMAIN L
    BY DBNested
  <2>2. p \in UnderIn(L, p) /\ UnderIn(L, p) \in SUBSET DOMAIN L /\ DownClosed(L, UnderIn(L, p))
    BY <2>1, UnderClosed
  <2>3. x \in UnderIn(L, p)
    BY <2>1, <2>2, UnderClosed
  <2>4. UnderIn(L, x) \subseteq UnderIn(L, p)
    BY <2>2, <2>3, UnderLeast
  <2> QED
    BY <2>1, <2>4
<1>2. S \in SUBSET DOMAIN L /\ k \in S
  BY UnderClosed
<1>3. AboveIn(L, k) \subseteq S
  <2> HIDE DEF S
  <2> QED
    BY <1>1, <1>2, AboveLeast
<1>4. PICK r \in AboveIn(L, k) : RootIn(L, r) /\ DBIn(L, k) = L[r].owner
  BY DBChosen
<1> QED
  BY <1>3, <1>4

(***************************************************************************)
(* The inductive invariant.                                                *)
(***************************************************************************)
DBID(B) == [d \in DOMAIN B |-> B[d].id]
LibID(L) == [l \in DOMAIN L |-> L[l].id]
LibName(L) == [l \in DOMAIN L |-> L[l].name]
DesignID(X) == [d \in DOMAIN X |-> X[d].id]

(* The libraries of a database, nested or not; the designs of a library. *)
Residents(L, d) == {k \in DOMAIN L : DBIn(L, k) = d}
Contents(X, l) == {d \in DOMAIN X : X[d].library = l}

DBFields == {"id", "libraries", "names"}
LibFields == {"owner", "type", "id", "name", "libraries", "names", "designs"}

(* A database ID is a chosen one, or 0, or fewer than the databases made   *)
(* behind it; DB0 is the first.                                            *)
DBsOK(B, R, D) ==
  /\ DOMAIN B \subseteq DBs \cap D
  /\ \A d \in DOMAIN B : DOMAIN B[d] = DBFields
  /\ Registers(R, DOMAIN B, DBID(B))
  /\ \A n \in DOMAIN R : \E g \in GivenDBIDs \cup {0} : n < g + Cardinality(D \cap DBs)
  /\ DOMAIN R # {} => 0 \in DOMAIN R /\ R[0] = DB0

(* The tree: databases B, libraries L, objects made D. *)
TreeOK(B, L, D) ==
  /\ Tree(L)
  /\ DOMAIN L \subseteq D
  /\ \A l \in DOMAIN L : DOMAIN L[l] = LibFields /\ L[l].owner \in DOMAIN B \cup DOMAIN L

RegistersOK(B, L) ==
  /\ \A d \in DOMAIN B : Registers(B[d].libraries, Residents(L, d), LibID(L))
  /\ \A l \in DOMAIN L : Registers(L[l].libraries, Children(L, l), LibID(L))

NamesOK(B, L) ==
  /\ \A l \in DOMAIN L : L[l].name \in {NoName} \cup IF RootIn(L, l) THEN RootNames ELSE NestedNames
  /\ \A d \in DOMAIN B : Named(B[d].names, RootNames, Children(L, d), LibName(L), LibID(L))
  /\ \A p \in DOMAIN L : Named(L[p].names, NestedNames, Children(L, p), LibName(L), LibID(L))

(* A nested library is of the type of its parent. *)
TypesOK(L) ==
  \A l \in DOMAIN L :
    ~RootIn(L, l) => L[l].type = L[L[l].owner].type

DesignsOK(L, X, D) ==
  /\ DOMAIN X \subseteq Designs \cap D
  /\ \A d \in DOMAIN X : /\ X[d].library \in DOMAIN L
                         /\ X[d].primitive = (L[X[d].library].type = "Primitives")
  /\ \A l \in DOMAIN L : Registers(L[l].designs, Contents(X, l), DesignID(X))

InstancesOK(L, X, I) ==
  \A i \in I :
    /\ i.design \in DOMAIN X /\ ~X[i.design].primitive
    /\ i.model \in DOMAIN X /\ X[i.model].primitive
    /\ DBIn(L, X[i.model].library) \in {DB0, DBIn(L, X[i.design].library)}

RegInv ==
  /\ DBsOK(db, dbs, made)
  /\ TreeOK(db, lib, made)
  /\ RegistersOK(db, lib)
  /\ TypesOK(lib)
  /\ DesignsOK(lib, design, made)
  /\ InstancesOK(lib, design, instances)
  /\ "dead model" \notin failed

(* While the universe exists it has a database. *)
Open == universe => DOMAIN dbs # {}

NameInv == NamesOK(db, lib) /\ "assert" \notin failed

(***************************************************************************)
(* What the invariant says.                                                *)
(***************************************************************************)
LEMMA RegistersEntries ==
  ASSUME NEW f, NEW S, NEW id, Registers(f, S, id)
  PROVE  Entries(f) = {<<id[x], x>> : x \in S} /\ Range(f) = S
<1>1. Entries(f) \subseteq {<<id[x], x>> : x \in S}
  BY DEF Entries, Registers
<1>2. {<<id[x], x>> : x \in S} \subseteq Entries(f)
  BY DEF Entries, Registers
<1>3. Range(f) = S
  BY DEF Range, Registers
<1> QED
  BY <1>1, <1>2, <1>3

LEMMA HasKids == ASSUME NEW B, NEW L, RegistersOK(B, L) PROVE Kids(L)
BY RegistersEntries DEF RegistersOK, Kids

(* Every library lives in a live database. *)
LEMMA LivesInDB ==
  ASSUME NEW B, NEW L, NEW D, TreeOK(B, L, D), NEW k \in DOMAIN L
  PROVE  DBIn(L, k) \in DOMAIN B /\ (RootIn(L, k) => L[k].owner \in DOMAIN B)
<1> USE UniverseAssumption
<1>1. \A l \in DOMAIN L : RootIn(L, l) => L[l].owner \in DOMAIN B
  BY DEF TreeOK, Tree, RootIn
<1>2. PICK r \in AboveIn(L, k) : RootIn(L, r) /\ DBIn(L, k) = L[r].owner
  BY DBChosen DEF TreeOK
<1>3. r \in DOMAIN L
  BY AboveSameDB DEF TreeOK
<1> QED
  BY <1>1, <1>2, <1>3

LEMMA RegistryFollows == RegInv => RegistryExact
<1> SUFFICES ASSUME RegInv PROVE RegistryExact
  OBVIOUS
<1> USE DEF RegInv
<1>1. Entries(dbs) = {<<db[d].id, d>> : d \in DOMAIN db}
  <2>1. Entries(dbs) = {<<DBID(db)[d], d>> : d \in DOMAIN db}
    BY RegistersEntries DEF DBsOK
  <2> QED
    BY <2>1 DEF DBID
<1>2. \A l \in DOMAIN lib : lib[l].owner \in DOMAIN db \cup DOMAIN lib
  BY DEF TreeOK
<1>3. \A d \in DOMAIN design : design[d].library \in DOMAIN lib
  BY DEF DesignsOK
<1>4. ASSUME NEW d \in DOMAIN db
      PROVE  Entries(db[d].libraries) = {<<lib[l].id, l>> : l \in {k \in DOMAIN lib : getDB(k) = d}}
  <2>1. Entries(db[d].libraries) = {<<LibID(lib)[l], l>> : l \in Residents(lib, d)}
    BY RegistersEntries DEF RegistersOK
  <2>2. Residents(lib, d) = {k \in DOMAIN lib : getDB(k) = d}
    BY GetDBIsDBIn DEF Residents
  <2>3. \A l \in Residents(lib, d) : LibID(lib)[l] = lib[l].id
    BY DEF LibID, Residents
  <2> QED
    BY <2>1, <2>2, <2>3
<1>5. ASSUME NEW l \in DOMAIN lib
      PROVE  Entries(lib[l].libraries) = {<<lib[k].id, k>> : k \in {k \in DOMAIN lib : lib[k].owner = l}}
  <2>1. Entries(lib[l].libraries) = {<<LibID(lib)[k], k>> : k \in Children(lib, l)}
    BY RegistersEntries DEF RegistersOK
  <2>2. \A k \in Children(lib, l) : LibID(lib)[k] = lib[k].id
    BY DEF LibID, Children
  <2> QED
    BY <2>1, <2>2 DEF Children
<1>6. ASSUME NEW l \in DOMAIN lib
      PROVE  Entries(lib[l].designs) =
               {<<design[d].id, d>> : d \in {d \in DOMAIN design : design[d].library = l}}
  <2>1. Entries(lib[l].designs) = {<<DesignID(design)[d], d>> : d \in Contents(design, l)}
    BY RegistersEntries DEF DesignsOK
  <2>2. \A d \in Contents(design, l) : DesignID(design)[d] = design[d].id
    BY DEF DesignID, Contents
  <2> QED
    BY <2>1, <2>2 DEF Contents
<1> QED
  BY <1>1, <1>2, <1>3, <1>4, <1>5, <1>6 DEF RegistryExact

LEMMA LookupsFollow == RegInv /\ NameInv => LookupsFind
<1> SUFFICES ASSUME RegInv, NameInv PROVE LookupsFind
  OBVIOUS
<1> USE UniverseAssumption
<1>0. "assert" \notin failed /\ DOMAIN lib \subseteq Libraries
  BY DEF NameInv, RegInv, TreeOK, Tree
<1>1. ASSUME NEW d \in DOMAIN db, NEW name \in RootNames, NEW l \in DOMAIN lib
      PROVE  (lib[l].owner = d /\ lib[l].name = name) <=> Find(db[d].names, db[d].libraries, name) = l
  <2> DEFINE f == db[d].libraries
             nms == db[d].names
  <2>1. Registers(f, Residents(lib, d), LibID(lib))
    BY DEF RegInv, RegistersOK
  <2>2. Named(nms, RootNames, Children(lib, d), LibName(lib), LibID(lib))
    BY DEF NameInv, NamesOK
  <2>3. Children(lib, d) \subseteq Residents(lib, d)
    BY DBRoot DEF Children, Residents, RegInv, TreeOK, DBsOK, RootIn
  <2>4. None \notin Residents(lib, d)
    BY <1>0 DEF Residents
  <2>5. name # NoName
    OBVIOUS
  <2> HIDE DEF f, nms
  <2>6. \A x \in Residents(lib, d) :
          (x \in Children(lib, d) /\ LibName(lib)[x] = name) <=> Find(nms, f, name) = x
    BY <2>1, <2>2, <2>3, <2>4, <2>5, FindExact
  <2>7. l \in Residents(lib, d) =>
          ((l \in Children(lib, d) /\ LibName(lib)[l] = name) <=> Find(nms, f, name) = l)
    BY <2>6
  <2>8. Find(nms, f, name) \in Residents(lib, d) \cup {None}
    BY <2>1 DEF Find, Registers
  <2>9. l \in Children(lib, d) <=> lib[l].owner = d
    BY DEF Children
  <2>10. LibName(lib)[l] = lib[l].name
    BY DEF LibName
  <2>11. l # None
    BY <1>0
  <2> QED
    BY <2>3, <2>7, <2>8, <2>9, <2>10, <2>11 DEF f, nms
<1>2. ASSUME NEW p \in DOMAIN lib, NEW name \in NestedNames, NEW l \in DOMAIN lib
      PROVE  (lib[l].owner = p /\ lib[l].name = name) <=> Find(lib[p].names, lib[p].libraries, name) = l
  <2> DEFINE f == lib[p].libraries
             nms == lib[p].names
             S == Children(lib, p)
  <2>1. Registers(f, S, LibID(lib))
    BY DEF RegInv, RegistersOK
  <2>2. Named(nms, NestedNames, S, LibName(lib), LibID(lib))
    BY DEF NameInv, NamesOK
  <2>4. None \notin S
    BY <1>0 DEF Children
  <2>5. name # NoName
    OBVIOUS
  <2> HIDE DEF f, nms, S
  <2>6. \A x \in S : (x \in S /\ LibName(lib)[x] = name) <=> Find(nms, f, name) = x
    BY <2>1, <2>2, <2>4, <2>5, FindExact
  <2>7. l \in S => (LibName(lib)[l] = name <=> Find(nms, f, name) = l)
    BY <2>6
  <2>8. Find(nms, f, name) \in S \cup {None}
    BY <2>1 DEF Find, Registers
  <2>9. l \in S <=> lib[l].owner = p
    BY DEF Children, S
  <2>10. LibName(lib)[l] = lib[l].name
    BY DEF LibName
  <2>11. l # None
    BY <1>0
  <2> QED
    BY <2>7, <2>8, <2>9, <2>10, <2>11 DEF f, nms
<1> QED
  BY <1>0, <1>1, <1>2 DEF LookupsFind

(***************************************************************************)
(* No teardown destroys a primitive before its instances.                  *)
(***************************************************************************)

(* All libraries above one are of its type. *)
LEMMA AboveSameType ==
  ASSUME NEW L, Tree(L), TypesOK(L), NEW k \in DOMAIN L, NEW l \in AboveIn(L, k)
  PROVE  L[l].type = L[k].type
<1> DEFINE S == {x \in DOMAIN L : L[x].type = L[k].type}
<1>1. UpClosed(L, S)
  BY DBNested DEF UpClosed, TypesOK
<1>2. AboveIn(L, k) \subseteq S
  <2>1. S \in SUBSET DOMAIN L /\ k \in S
    OBVIOUS
  <2> HIDE DEF S
  <2> QED
    BY <1>1, <2>1, AboveLeast
<1> QED
  BY <1>2

(* The database with the least ID is DB0. *)
LEMMA FirstIsDB0 ==
  ASSUME NEW B, NEW R, NEW D, DBsOK(B, R, D), DOMAIN B # {}
  PROVE  R[Min(DOMAIN R)] = DB0
<1>1. DOMAIN R # {} /\ DOMAIN R \subseteq Nat
  BY DEF DBsOK, Registers, Bounded
<1>2. 0 \in DOMAIN R /\ R[0] = DB0
  BY <1>1 DEF DBsOK
<1>3. Min(DOMAIN R) \in DOMAIN R /\ Min(DOMAIN R) <= 0
  BY <1>1, <1>2 DEF Min
<1>4. Min(DOMAIN R) = 0
  BY <1>1, <1>3
<1> QED
  BY <1>2, <1>4

LEMMA NoDeadRead == ASSUME RegInv, NEW gone PROVE ~ReadsDead(gone)
<1> USE UniverseAssumption
<1> SUFFICES ASSUME NEW i \in instances, DesignBefore(i.model, i.design) PROVE FALSE
  BY DEF ReadsDead, RegInv, InstancesOK
<1> DEFINE k == design[i.model].library
           l == design[i.design].library
<1>1. /\ k \in DOMAIN lib /\ l \in DOMAIN lib
      /\ lib[k].type = "Primitives" /\ lib[l].type # "Primitives"
      /\ DBIn(lib, k) \in {DB0, DBIn(lib, l)}
  BY DEF RegInv, InstancesOK, DesignsOK
<1>2. Tree(lib) /\ TypesOK(lib)
  BY DEF RegInv, TreeOK
<1>3. ~(k \in Above(l))
  BY <1>1, <1>2, AboveSameType, AboveIsAboveIn
<1>4. PICK a \in Above(k), b \in Above(l) : SiblingBefore(a, b)
  BY <1>1, <1>3 DEF DesignBefore
<1> HIDE DEF k, l
<1>5. /\ a \in DOMAIN lib /\ DBIn(lib, a) = DBIn(lib, k) /\ lib[a].type = "Primitives"
      /\ b \in DOMAIN lib /\ DBIn(lib, b) = DBIn(lib, l) /\ lib[b].type # "Primitives"
  BY <1>1, <1>2, <1>4, AboveIsAboveIn, AboveSameDB, AboveSameType
<1>6. CASE ~Root(a)
  <2>1. lib[a].owner = lib[b].owner
    BY <1>4, <1>6 DEF SiblingBefore
  <2> QED
    BY <1>2, <1>5, <1>6, <2>1 DEF TypesOK, Root, RootIn
<1>7. CASE Root(a)
  <2>1. Root(b) /\ RootBefore(a, b)
    BY <1>4, <1>7 DEF SiblingBefore
  <2>2. lib[a].owner = DBIn(lib, a) /\ lib[b].owner = DBIn(lib, b)
    BY <1>2, <1>5, <1>7, <2>1, DBRoot DEF Root, RootIn
  <2>3. lib[a].owner # lib[b].owner
    BY <1>5, <2>1 DEF RootBefore
  <2>4. lib[a].owner = DB0
    BY <1>1, <1>5, <2>2, <2>3
  <2>5. DBBefore(DB0, lib[b].owner)
    BY <2>1, <2>3, <2>4 DEF RootBefore
  <2>6. DOMAIN db # {}
    BY <1>5, LivesInDB DEF RegInv
  <2> QED
    BY <2>5, <2>6, FirstIsDB0 DEF DBBefore, RegInv
<1> QED
  BY <1>6, <1>7

(***************************************************************************)
(* Databases.                                                              *)
(***************************************************************************)
LEMMA InitOK == Init => RegInv /\ NameInv
<1> SUFFICES ASSUME Init PROVE RegInv /\ NameInv
  OBVIOUS
<1> USE UniverseAssumption
<1>1. /\ DOMAIN dbs = {0} /\ dbs[0] = DB0 /\ DOMAIN db = {DB0} /\ db[DB0] = NewDB(0)
      /\ made = {DB0} /\ failed = {} /\ instances = {}
  BY DEF Init
<1>2. DOMAIN lib = {} /\ DOMAIN design = {}
  BY DEF Init
<1>3. /\ DOMAIN db[DB0] = DBFields /\ db[DB0].id = 0
      /\ db[DB0].libraries = <<>> /\ db[DB0].names = <<>>
  BY <1>1 DEF NewDB, DBFields
<1>4. DBsOK(db, dbs, made)
  <2>1. DBID(db)[DB0] = 0
    BY <1>1, <1>3 DEF DBID
  <2>2. Registers(dbs, DOMAIN db, DBID(db))
    BY <1>1, <2>1 DEF Registers, Bounded
  <2>3. Cardinality(made \cap DBs) = 1
    <3>1. made \cap DBs = {DB0}
      BY <1>1
    <3> QED
      BY <3>1, FS_Singleton
  <2> QED
    BY <1>1, <1>3, <2>2, <2>3 DEF DBsOK
<1>5. TreeOK(db, lib, made) /\ TypesOK(lib)
  BY <1>2 DEF TreeOK, Tree, TypesOK
<1>6. Residents(lib, DB0) = {} /\ Children(lib, DB0) = {}
  BY <1>2 DEF Residents, Children
<1>7. RegistersOK(db, lib)
  BY <1>1, <1>2, <1>3, <1>6, RegistersEmpty, SMTT(30) DEF RegistersOK
<1>8. NamesOK(db, lib)
  BY <1>1, <1>2, <1>3, <1>6, NamedEmpty, SMTT(30) DEF NamesOK
<1>9. DesignsOK(lib, design, made) /\ InstancesOK(lib, design, instances)
  BY <1>1, <1>2 DEF DesignsOK, InstancesOK
<1> QED
  BY <1>1, <1>4, <1>5, <1>7, <1>8, <1>9 DEF RegInv, NameInv

(* Nothing belongs to a database that is not there. *)
LEMMA NewDBEmpty ==
  ASSUME NEW B, NEW L, NEW D, TreeOK(B, L, D), NEW d \in DBs, d \notin DOMAIN B
  PROVE  Residents(L, d) = {} /\ Children(L, d) = {}
<1> USE UniverseAssumption
<1>1. Residents(L, d) = {}
  BY LivesInDB DEF Residents
<1>2. Children(L, d) = {}
  BY DEF TreeOK, Tree, Children
<1> QED
  BY <1>1, <1>2

LEMMA AddDBOK ==
  ASSUME RegInv, NEW d \in DBs \ made, NEW id \in Nat, id \notin DOMAIN dbs, AddDB(d, id),
         DOMAIN dbs # {}, IsFiniteSet(DBs),
         \E g \in GivenDBIDs \cup {0} : id < g + Cardinality(made \cap DBs) + 1
  PROVE  RegInv' /\ (NameInv => NameInv')
<1> USE UniverseAssumption
<1>1. /\ dbs' = Insert(dbs, id, d) /\ made' = made \cup {d} /\ lib' = lib /\ design' = design
      /\ instances' = instances /\ failed' = failed
  BY DEF AddDB
<1>2. /\ DOMAIN db' = DOMAIN db \cup {d} /\ db'[d] = NewDB(id)
      /\ \A e \in DOMAIN db : db'[e] = db[e]
      /\ d \notin DOMAIN db
  <2>1. d \notin DOMAIN db
    BY DEF RegInv, DBsOK
  <2> QED
    BY <2>1 DEF AddDB, Assign
<1>3. DOMAIN db'[d] = DBFields /\ db'[d].id = id /\ db'[d].libraries = <<>> /\ db'[d].names = <<>>
  BY <1>2 DEF NewDB, DBFields
<1>4. DBsOK(db', dbs', made')
  <2>1. Registers(dbs', DOMAIN db', DBID(db'))
    <3>1. (\A e \in DOMAIN db : DBID(db')[e] = DBID(db)[e]) /\ DBID(db')[d] = id
      BY <1>2, <1>3 DEF DBID
    <3>2. Registers(dbs, DOMAIN db, DBID(db))
      BY DEF RegInv, DBsOK
    <3> QED
      BY <1>1, <1>2, <3>1, <3>2, RegistersInsert
  <2>2. IsFiniteSet(made \cap DBs) /\ Cardinality(made \cap DBs) \in Nat
    BY FS_Subset, FS_CardinalityType
  <2>3. Cardinality(made' \cap DBs) = Cardinality(made \cap DBs) + 1
    <3>1. made' \cap DBs = (made \cap DBs) \cup {d} /\ d \notin made \cap DBs
      BY <1>1
    <3> QED
      BY <2>2, <3>1, FS_AddElement
  <2>4. DOMAIN dbs' = DOMAIN dbs \cup {id} /\ \A n \in DOMAIN dbs : dbs'[n] = dbs[n]
    BY <1>1 DEF Insert
  <2>5. GivenDBIDs \subseteq Nat /\ DOMAIN dbs \subseteq Nat
    <3>1. DOMAIN dbs \subseteq Nat
      BY DEF RegInv, DBsOK, Registers, Bounded
    <3> QED
      BY <3>1
  <2>6. \A n \in DOMAIN dbs' : \E g \in GivenDBIDs \cup {0} : n < g + Cardinality(made' \cap DBs)
    <3>1. ASSUME NEW n \in DOMAIN dbs
          PROVE  \E g \in GivenDBIDs \cup {0} : n < g + Cardinality(made' \cap DBs)
      <4>1. PICK g \in GivenDBIDs \cup {0} : n < g + Cardinality(made \cap DBs)
        BY DEF RegInv, DBsOK
      <4>2. n < g + Cardinality(made' \cap DBs)
        BY <2>2, <2>3, <2>5, <4>1
      <4> QED
        BY <4>2
    <3>2. \E g \in GivenDBIDs \cup {0} : id < g + Cardinality(made' \cap DBs)
      BY <2>2, <2>3, <2>5
    <3>3. ASSUME NEW n \in DOMAIN dbs'
          PROVE  \E g \in GivenDBIDs \cup {0} : n < g + Cardinality(made' \cap DBs)
      <4>1. CASE n \in DOMAIN dbs
        BY <3>1, <4>1
      <4>2. CASE n = id
        BY <3>2, <4>2
      <4> QED
        BY <2>4, <4>1, <4>2
    <3> QED
      BY <3>3
  <2>7. DOMAIN db' \subseteq DBs \cap made' /\ \A e \in DOMAIN db' : DOMAIN db'[e] = DBFields
    BY <1>1, <1>2, <1>3 DEF RegInv, DBsOK
  <2>8. 0 \in DOMAIN dbs' /\ dbs'[0] = DB0
    BY <2>4 DEF RegInv, DBsOK
  <2> QED
    BY <2>1, <2>6, <2>7, <2>8 DEF DBsOK
<1>5. TreeOK(db', lib', made')
  BY <1>1, <1>2 DEF RegInv, TreeOK
<1>6. Residents(lib, d) = {} /\ Children(lib, d) = {}
  BY <1>2, NewDBEmpty DEF RegInv
<1>7. RegistersOK(db', lib')
  BY <1>1, <1>2, <1>3, <1>6, RegistersEmpty DEF RegInv, RegistersOK
<1>8. ASSUME NameInv PROVE NamesOK(db', lib')
  <2>1. Named(db'[d].names, RootNames, Children(lib, d), LibName(lib), LibID(lib))
    BY <1>3, <1>6, NamedEmpty
  <2>2. \A e \in DOMAIN db' : Named(db'[e].names, RootNames, Children(lib, e), LibName(lib), LibID(lib))
    BY <1>2, <1>8, <2>1 DEF NameInv, NamesOK
  <2>3. NamesOK(db', lib)
    BY <1>8, <2>2 DEF NameInv, NamesOK
  <2> QED
    BY <1>1, <2>3
<1>9. DesignsOK(lib', design', made')
  BY <1>1 DEF RegInv, DesignsOK
<1> QED
  BY <1>1, <1>4, <1>5, <1>7, <1>8, <1>9 DEF RegInv, NameInv

LEMMA CreateDBOK ==
  ASSUME IDsSuffice, RegInv, Open, NEW d \in DBs, CreateDB(d)
  PROVE  RegInv' /\ (NameInv => NameInv')
<1> USE UniverseAssumption
<1> DEFINE id == NextID(dbs)
           c == Cardinality(made \cap DBs)
<1>1. Bounded(DOMAIN dbs) /\ DOMAIN dbs # {} /\ d \notin made
  BY DEF RegInv, DBsOK, Registers, CreateDB, Open
<1>2. id \in Nat /\ \A n \in DOMAIN dbs : n < id
  BY <1>1, NextIDFresh
<1>3. \E n \in DOMAIN dbs : id = n + 1
  <2>1. id = Max(DOMAIN dbs) + 1
    BY <1>1 DEF NextID
  <2>2. PICK b \in Nat : \A n \in DOMAIN dbs : n <= b
    BY <1>1 DEF Bounded
  <2>3. \E n \in DOMAIN dbs : \A m \in DOMAIN dbs : n >= m
    <3> SUFFICES ASSUME \A n \in DOMAIN dbs : \E m \in DOMAIN dbs : m > n PROVE FALSE
      BY <1>1 DEF Bounded
    <3> DEFINE S == {k \in Nat : \E m \in DOMAIN dbs : m >= k}
    <3>1. 0 \in S /\ \A k \in Nat : k \in S => k + 1 \in S
      BY <1>1 DEF Bounded
    <3>2. \A k \in Nat : k \in S
      <4> HIDE DEF S
      <4> QED
        BY <3>1, NatInduct
    <3>3. b + 1 \in S
      BY <3>2
    <3> QED
      BY <1>1, <2>2, <3>3 DEF Bounded
  <2>4. Max(DOMAIN dbs) \in DOMAIN dbs
    BY <2>3 DEF Max
  <2> QED
    BY <2>1, <2>4
<1>4. /\ IsFiniteSet(DBs) /\ IsFiniteSet(made \cap DBs) /\ c \in Nat
      /\ Cardinality(DBs) \in Nat /\ c + 1 <= Cardinality(DBs)
  <2>1. IsFiniteSet(DBs)
    BY DEF IDsSuffice
  <2>2. IsFiniteSet(made \cap DBs)
    BY <2>1, FS_Subset
  <2>3. d \notin made \cap DBs /\ (made \cap DBs) \cup {d} \subseteq DBs
    BY <1>1
  <2>4. Cardinality((made \cap DBs) \cup {d}) = c + 1
    BY <2>2, <2>3, FS_AddElement
  <2>5. Cardinality((made \cap DBs) \cup {d}) <= Cardinality(DBs)
    BY <2>1, <2>3, FS_Subset
  <2> QED
    BY <2>1, <2>2, <2>4, <2>5, FS_CardinalityType
<1>5. PICK g \in GivenDBIDs \cup {0} : id < g + c + 1
  <2>1. PICK n \in DOMAIN dbs : id = n + 1
    BY <1>3
  <2>2. PICK g \in GivenDBIDs \cup {0} : n < g + c
    BY DEF RegInv, DBsOK
  <2>3. g \in Nat /\ n \in Nat
    BY <1>1 DEF Bounded
  <2>4. id < g + c + 1
    BY <1>4, <2>1, <2>2, <2>3
  <2> QED
    BY <2>4
<1>6. id < DBIDs /\ DBIDs \in Nat
  <2>1. g + Cardinality(DBs) <= DBIDs
    BY DEF IDsSuffice
  <2>2. g \in Nat
    OBVIOUS
  <2> QED
    BY <1>2, <1>4, <1>5, <2>1, <2>2
<1>7. AddDB(d, id % DBIDs)
  BY DEF CreateDB
<1> HIDE DEF id, c
<1>8. id % DBIDs = id
  BY <1>2, <1>6
<1>9. AddDB(d, id)
  BY <1>7, <1>8
<1>10. id \notin DOMAIN dbs
  BY <1>1, <1>2 DEF Bounded
<1> QED
  BY <1>1, <1>2, <1>4, <1>5, <1>9, <1>10, AddDBOK DEF c

LEMMA CreateDBWithIDOK ==
  ASSUME IDsSuffice, RegInv, Open, NEW d \in DBs, NEW id \in GivenDBIDs, CreateDBWithID(d, id)
  PROVE  RegInv' /\ (NameInv => NameInv')
<1> USE UniverseAssumption
<1>1. d \in DBs \ made /\ id \in Nat /\ id \notin DOMAIN dbs /\ AddDB(d, id) /\ DOMAIN dbs # {}
  BY DEF CreateDBWithID, Open
<1>2. IsFiniteSet(DBs) /\ Cardinality(made \cap DBs) \in Nat
  BY FS_Subset, FS_CardinalityType DEF IDsSuffice
<1>3. id < id + Cardinality(made \cap DBs) + 1
  BY <1>1, <1>2
<1> QED
  BY <1>1, <1>2, <1>3, AddDBOK

LEMMA SetDBIDOK ==
  ASSUME NoHabits, IDsSuffice, RegInv, NEW d \in DBs, NEW id \in GivenDBIDs, SetDBID(d, id)
  PROVE  RegInv' /\ (NameInv => NameInv')
<1> USE UniverseAssumption
<1>1. /\ d \in DOMAIN db /\ d # DB0 /\ id \notin DOMAIN dbs /\ id \in Nat
      /\ dbs' = Insert(Without(dbs, {db[d].id}), id, d)
      /\ lib' = lib /\ design' = design /\ instances' = instances /\ made' = made /\ failed' = failed
  BY DEF SetDBID, NoHabits
<1>2. Registers(dbs, DOMAIN db, DBID(db)) /\ DOMAIN db[d] = DBFields
  BY <1>1 DEF RegInv, DBsOK
<1>3. /\ DOMAIN db' = DOMAIN db
      /\ \A e \in DOMAIN db : /\ DOMAIN db'[e] = DBFields
                              /\ db'[e].libraries = db[e].libraries
                              /\ db'[e].names = db[e].names
                              /\ e # d => db'[e].id = db[e].id
      /\ db'[d].id = id
  <2>1. db' = [db EXCEPT ![d].id = id] /\ \A e \in DOMAIN db : DOMAIN db[e] = DBFields
    BY DEF SetDBID, RegInv, DBsOK
  <2> QED
    BY <1>1, <2>1 DEF DBFields
<1>4. DBsOK(db', dbs', made')
  <2> DEFINE f == Without(dbs, {db[d].id})
  <2>1. Registers(f, DOMAIN db \ {d}, DBID(db))
    <3>1. \A x \in DOMAIN db \cap {d} : DBID(db)[x] \in {db[d].id}
      BY DEF DBID
    <3>2. \A x \in DOMAIN db \ {d} : DBID(db)[x] \notin {db[d].id}
      BY <1>1, <1>2 DEF DBID, Registers
    <3> QED
      BY <1>2, <3>1, <3>2, RegistersWithout
  <2>2. DOMAIN f = DOMAIN dbs \ {db[d].id} /\ \A n \in DOMAIN f : f[n] = dbs[n]
    BY DEF Without
  <2> HIDE DEF f
  <2>3. (\A e \in DOMAIN db \ {d} : DBID(db')[e] = DBID(db)[e]) /\ DBID(db')[d] = id
    BY <1>1, <1>3 DEF DBID
  <2>4. id \notin DOMAIN f /\ d \notin DOMAIN db \ {d}
    BY <1>1, <2>2
  <2>5. Registers(Insert(f, id, d), (DOMAIN db \ {d}) \cup {d}, DBID(db'))
    BY <1>1, <2>1, <2>3, <2>4, RegistersInsert
  <2>6. Registers(dbs', DOMAIN db', DBID(db'))
    <3>1. DOMAIN db' = (DOMAIN db \ {d}) \cup {d} /\ dbs' = Insert(f, id, d)
      BY <1>1, <1>3 DEF f
    <3> QED
      BY <2>5, <3>1
  <2>7. /\ DOMAIN dbs' = DOMAIN f \cup {id}
        /\ \A n \in DOMAIN f : dbs'[n] = f[n]
    BY <1>1 DEF Insert, f
  <2>8. Cardinality(made \cap DBs) \in Nat /\ Cardinality(made \cap DBs) # 0
    <3>1. IsFiniteSet(made \cap DBs) /\ d \in made \cap DBs
      BY <1>1, FS_Subset DEF IDsSuffice, RegInv, DBsOK
    <3> QED
      BY <3>1, FS_CardinalityType, FS_EmptySet
  <2>9. id < id + Cardinality(made \cap DBs)
    BY <1>1, <2>8
  <2>10. \A n \in DOMAIN dbs' : \E g \in GivenDBIDs \cup {0} : n < g + Cardinality(made' \cap DBs)
    <3> TAKE n \in DOMAIN dbs'
    <3>1. CASE n \in DOMAIN dbs
      BY <1>1, <3>1 DEF RegInv, DBsOK
    <3>2. CASE n = id
      BY <1>1, <2>9, <3>2
    <3> QED
      BY <2>2, <2>7, <3>1, <3>2
  <2>11. 0 \in DOMAIN dbs' /\ dbs'[0] = DB0
    <3>1. DOMAIN dbs # {}
      BY <1>1, <1>2 DEF Registers
    <3>2. 0 \in DOMAIN dbs /\ dbs[0] = DB0
      BY <3>1 DEF RegInv, DBsOK
    <3>3. DBID(db)[d] = db[d].id
      BY <1>1 DEF DBID
    <3>4. dbs[db[d].id] = d
      BY <1>1, <1>2, <3>3 DEF Registers
    <3>5. 0 \in DOMAIN f
      BY <1>1, <2>2, <3>2, <3>4
    <3> QED
      BY <2>2, <2>7, <3>2, <3>5
  <2>12. DOMAIN db' \subseteq DBs \cap made'
    BY <1>1, <1>3 DEF RegInv, DBsOK
  <2> QED
    BY <1>3, <2>6, <2>10, <2>11, <2>12 DEF DBsOK
<1>5. TreeOK(db', lib', made')
  BY <1>1, <1>3 DEF RegInv, TreeOK
<1>6. RegistersOK(db', lib)
  BY <1>3 DEF RegInv, RegistersOK
<1>7. NameInv => NamesOK(db', lib)
  BY <1>3 DEF NameInv, NamesOK
<1> QED
  BY <1>1, <1>4, <1>5, <1>6, <1>7 DEF RegInv, NameInv

(***************************************************************************)
(* Libraries that change without moving, or go.                            *)
(***************************************************************************)
SameShape(L, M) ==
  \A k \in DOMAIN L \cap DOMAIN M :
    /\ DOMAIN M[k] = LibFields
    /\ M[k].owner = L[k].owner /\ M[k].type = L[k].type /\ M[k].id = L[k].id

NestedGo(L, G) == \A k \in DOMAIN L : L[k].owner \in G => k \in G

OwnersStay(B, L, C, M) ==
  \A k \in DOMAIN M : L[k].owner \in DOMAIN B => L[k].owner \in DOMAIN C

Shrunk(L, M, G) ==
  /\ \A k \in DOMAIN M : DBIn(M, k) = DBIn(L, k)
  /\ \A p : Children(M, p) = Children(L, p) \ G
  /\ \A d : Residents(M, d) = Residents(L, d) \ G
  /\ \A k \in DOMAIN M : LibID(M)[k] = LibID(L)[k]

(* M is L without the libraries G. *)
LEMMA TreeShrinks ==
  ASSUME NEW B, NEW L, NEW D, TreeOK(B, L, D), NEW C, NEW M, SameShape(L, M),
         NEW G, DOMAIN M = DOMAIN L \ G,
         NestedGo(L, G), OwnersStay(B, L, C, M)
  PROVE  TreeOK(C, M, D) /\ Shrunk(L, M, G)
<1> USE DEF NestedGo, OwnersStay
<1>1. Tree(L) /\ \A l \in DOMAIN L : L[l].owner \in DOMAIN B \cup DOMAIN L
  BY DEF TreeOK
<1>2. \A k \in DOMAIN M : k \in DOMAIN L /\ M[k].owner = L[k].owner /\ M[k].id = L[k].id
  BY DEF SameShape
<1>3. Tree(M)
  BY <1>1, <1>2 DEF Tree, RootIn
<1>4. TreeOK(C, M, D)
  BY <1>1, <1>2, <1>3 DEF TreeOK, SameShape
<1>5. \A k \in DOMAIN M : DBIn(M, k) = DBIn(L, k)
  BY <1>1, <1>2, <1>3, DBKept
<1>6. \A p : Children(M, p) = Children(L, p) \ G
  BY <1>2 DEF Children
<1>7. \A d : Residents(M, d) = Residents(L, d) \ G
  BY <1>2, <1>5 DEF Residents
<1>8. \A k \in DOMAIN M : LibID(M)[k] = LibID(L)[k]
  BY <1>2 DEF LibID
<1> QED
  BY <1>4, <1>5, <1>6, <1>7, <1>8 DEF Shrunk

LEMMA TypesShrink ==
  ASSUME NEW L, Tree(L), TypesOK(L), NEW M, SameShape(L, M),
         DOMAIN M \subseteq DOMAIN L, Tree(M)
  PROVE  TypesOK(M)
BY DEF TypesOK, SameShape, RootIn, Tree

(* The designs of the libraries G go with them. *)
LEMMA DesignsShrink ==
  ASSUME NEW L, NEW X, NEW D, DesignsOK(L, X, D), NEW M, SameShape(L, M),
         NEW G, DOMAIN M = DOMAIN L \ G,
         \A k \in DOMAIN M : M[k].designs = L[k].designs,
         NEW gone, gone = {d \in DOMAIN X : X[d].library \in G}
  PROVE  DesignsOK(M, Without(X, gone), D)
<1> DEFINE Y == Without(X, gone)
<1>1. DOMAIN Y = DOMAIN X \ gone /\ \A d \in DOMAIN Y : Y[d] = X[d]
  BY DEF Without
<1> HIDE DEF Y
<1>2. DOMAIN Y \subseteq Designs \cap D
  BY <1>1 DEF DesignsOK
<1>3. \A d \in DOMAIN Y : /\ Y[d].library \in DOMAIN M
                          /\ Y[d].primitive = (M[Y[d].library].type = "Primitives")
  <2> TAKE d \in DOMAIN Y
  <2>1. d \in DOMAIN X /\ Y[d] = X[d] /\ X[d].library \in DOMAIN L \ G
    BY <1>1 DEF DesignsOK
  <2>2. M[X[d].library].type = L[X[d].library].type
    BY <2>1 DEF SameShape
  <2>3. X[d].primitive = (L[X[d].library].type = "Primitives")
    BY <2>1 DEF DesignsOK
  <2> QED
    BY <2>1, <2>2, <2>3
<1>4. ASSUME NEW l \in DOMAIN M PROVE Registers(M[l].designs, Contents(Y, l), DesignID(Y))
  <2>1. Contents(Y, l) = Contents(X, l)
    BY <1>1 DEF Contents
  <2>2. \A d \in Contents(X, l) : DesignID(Y)[d] = DesignID(X)[d]
    BY <1>1, <2>1 DEF DesignID, Contents
  <2>3. Registers(L[l].designs, Contents(X, l), DesignID(X))
    BY DEF DesignsOK
  <2>4. Registers(L[l].designs, Contents(X, l), DesignID(Y))
    BY <2>2, <2>3, RegistersKept
  <2> QED
    BY <2>1, <2>4
<1>5. DesignsOK(M, Y, D)
  BY <1>2, <1>3, <1>4 DEF DesignsOK
<1> QED
  BY <1>5 DEF Y

(* Designs go; no instance of them stays behind. *)
LEMMA InstancesShrink ==
  ASSUME NEW L, NEW X, NEW I, InstancesOK(L, X, I), NEW M, NEW gone,
         \A d \in DOMAIN X \ gone : DBIn(M, X[d].library) = DBIn(L, X[d].library),
         \A i \in I : i.model \in gone => i.design \in gone
  PROVE  InstancesOK(M, Without(X, gone), {i \in I : i.design \notin gone})
<1> DEFINE Y == Without(X, gone)
<1>1. DOMAIN Y = DOMAIN X \ gone /\ \A d \in DOMAIN Y : Y[d] = X[d]
  BY DEF Without
<1> HIDE DEF Y
<1>2. ASSUME NEW i \in I, i.design \notin gone
      PROVE  /\ i.design \in DOMAIN Y /\ ~Y[i.design].primitive
             /\ i.model \in DOMAIN Y /\ Y[i.model].primitive
             /\ DBIn(M, Y[i.model].library) \in {DB0, DBIn(M, Y[i.design].library)}
  BY <1>1, <1>2 DEF InstancesOK
<1>3. InstancesOK(M, Y, {i \in I : i.design \notin gone})
  BY <1>2 DEF InstancesOK
<1> QED
  BY <1>3 DEF Y

(* The designs a teardown of libraries G reaches. *)
LEMMA DesignsReached ==
  ASSUME RegInv, NEW G \in SUBSET DOMAIN lib
  PROVE  DesignsOf(G) = {d \in DOMAIN design : design[d].library \in G}
<1>1. \A l \in G : Range(lib[l].designs) = Contents(design, l)
  BY RegistersEntries DEF RegInv, DesignsOK
<1> QED
  BY <1>1 DEF DesignsOf, Contents

(***************************************************************************)
(* Teardown.                                                               *)
(***************************************************************************)
LEMMA OwnedIs == ASSUME RegInv, NEW d \in DOMAIN db PROVE Owned(d) = Residents(lib, d)
<1>0. Tree(lib) /\ Kids(lib) /\ TreeOK(db, lib, made) /\ d \in DBs
  BY HasKids DEF RegInv, TreeOK, DBsOK
<1>1. Range(db[d].libraries) = Residents(lib, d)
  BY RegistersEntries DEF RegInv, RegistersOK
<1>2. ASSUME NEW k \in Owned(d) PROVE k \in Residents(lib, d)
  <2>1. PICK l \in Residents(lib, d) : k \in UnderIn(lib, l)
    BY <1>1, <1>2, UnderIsUnderIn DEF Owned
  <2>2. l \in DOMAIN lib /\ DBIn(lib, l) = d
    BY <2>1 DEF Residents
  <2>3. k \in DOMAIN lib /\ DBIn(lib, k) = DBIn(lib, l)
    BY <1>0, <2>1, <2>2, UnderClosed, UnderSameDB
  <2> QED
    BY <2>2, <2>3 DEF Residents
<1>3. ASSUME NEW k \in Residents(lib, d) PROVE k \in Owned(d)
  <2>1. k \in DOMAIN lib /\ DBIn(lib, k) = d
    BY DEF Residents
  <2>2. PICK r \in DOMAIN lib : RootIn(lib, r) /\ lib[r].owner = d /\ k \in UnderIn(lib, r)
    BY <1>0, <2>1, UnderRoot
  <2>3. r \in Residents(lib, d)
    BY <1>0, <2>2, DBRoot DEF Residents
  <2>4. Root(r) /\ k \in Under(r)
    BY <2>2, UnderIsUnderIn DEF Root, RootIn
  <2> QED
    BY <1>1, <2>3, <2>4 DEF Owned
<1> QED
  BY <1>2, <1>3

(* DestroyDesigns changes failed only when a dead model is read. *)
LEMMA DestroyDesignsFine ==
  ASSUME RegInv, NEW gone, DestroyDesigns(gone)
  PROVE  /\ made' = made /\ failed' = failed /\ design' = Without(design, gone)
         /\ instances' = {i \in instances : i.design \notin gone}
BY NoDeadRead DEF DestroyDesigns

LEMMA DestroyDBOK ==
  ASSUME NoHabits, RegInv, NEW d \in DBs, DestroyDB(d)
  PROVE  RegInv' /\ (NameInv => NameInv')
<1> USE UniverseAssumption
<1> DEFINE G == Residents(lib, d)
           gone == {x \in DOMAIN design : design[x].library \in G}
<1>1. d \in DOMAIN db /\ d # DB0
  BY DEF DestroyDB, NoHabits
<1>2. Owned(d) = G /\ DesignsOf(G) = gone
  BY <1>1, OwnedIs, DesignsReached DEF Residents
<1>3. /\ made' = made /\ failed' = failed /\ design' = Without(design, gone)
      /\ instances' = {i \in instances : i.design \notin gone}
  BY <1>2, DestroyDesignsFine DEF DestroyDB
<1>4. /\ DOMAIN lib' = DOMAIN lib \ G /\ \A k \in DOMAIN lib' : lib'[k] = lib[k]
  BY <1>2 DEF DestroyDB, Without
<1>5. /\ DOMAIN db' = DOMAIN db \ {d} /\ \A e \in DOMAIN db' : db'[e] = db[e]
  BY DEF DestroyDB, Without
<1>6. TreeOK(db, lib, made) /\ Tree(lib)
  BY DEF RegInv, TreeOK
<1>7. SameShape(lib, lib')
  BY <1>4, <1>6 DEF SameShape, TreeOK
<1>8. NestedGo(lib, G)
  <2> SUFFICES ASSUME NEW k \in DOMAIN lib, lib[k].owner \in G PROVE k \in G
    BY DEF NestedGo
  <2>1. ~RootIn(lib, k)
    BY <1>6 DEF RootIn, Tree, Residents
  <2> QED
    BY <1>6, <2>1, DBNested DEF Residents
<1>9. OwnersStay(db, lib, db', lib')
  <2> SUFFICES ASSUME NEW k \in DOMAIN lib', lib[k].owner = d PROVE FALSE
    BY <1>5 DEF OwnersStay
  <2>1. k \in DOMAIN lib /\ DBIn(lib, k) = d
    BY <1>4, <1>6, DBRoot DEF RootIn
  <2> QED
    BY <1>4, <2>1 DEF Residents
<1> HIDE DEF gone
<1>10. TreeOK(db', lib', made) /\ Shrunk(lib, lib', G)
  <2> HIDE DEF G
  <2> QED
    BY <1>4, <1>6, <1>7, <1>8, <1>9, TreeShrinks
<1>11. TypesOK(lib')
  BY <1>4, <1>6, <1>7, <1>10, TypesShrink DEF RegInv, TreeOK
<1>12. DesignsOK(lib', design', made)
  <2> HIDE DEF G
  <2> QED
    BY <1>3, <1>4, <1>7, DesignsShrink DEF RegInv, gone
<1>13. \A x \in DOMAIN design \ gone : DBIn(lib', design[x].library) = DBIn(lib, design[x].library)
  BY <1>4, <1>10 DEF gone, RegInv, DesignsOK, Shrunk
<1>14. \A i \in instances : i.model \in gone => i.design \in gone
  <2> SUFFICES ASSUME NEW i \in instances, i.model \in gone PROVE i.design \in gone
    OBVIOUS
  <2>1. DBIn(lib, design[i.model].library) = d
    BY DEF gone, Residents
  <2>2. i.design \in DOMAIN design /\ DBIn(lib, design[i.design].library) = d
    BY <1>1, <2>1 DEF RegInv, InstancesOK
  <2> QED
    BY <2>2 DEF gone, Residents, RegInv, DesignsOK
<1>15. InstancesOK(lib', design', instances')
  <2>1. InstancesOK(lib, design, instances)
    BY DEF RegInv
  <2>2. InstancesOK(lib', Without(design, gone), {i \in instances : i.design \notin gone})
    BY <1>13, <1>14, <2>1, InstancesShrink
  <2> QED
    BY <1>3, <2>2
<1>16. ASSUME NEW e \in DOMAIN db'
       PROVE  Residents(lib', e) = Residents(lib, e) /\ Children(lib', e) = Children(lib, e) /\ db'[e] = db[e]
  <2>1. e \in DOMAIN db /\ e # d /\ e \in DBs
    BY <1>5 DEF RegInv, DBsOK
  <2>2. Residents(lib, e) \cap G = {}
    BY <2>1 DEF Residents
  <2>3. Children(lib, e) \subseteq Residents(lib, e)
    BY <1>6, <2>1, DBRoot DEF Children, Residents, RootIn
  <2>4. Residents(lib', e) = Residents(lib, e) \ G /\ Children(lib', e) = Children(lib, e) \ G
    BY <1>10 DEF Shrunk
  <2> HIDE DEF G
  <2> QED
    BY <1>5, <2>2, <2>3, <2>4
<1>17. ASSUME NEW l \in DOMAIN lib'
       PROVE  Children(lib', l) = Children(lib, l)
  <2>1. l \in DOMAIN lib /\ l \notin G /\ l \in Libraries
    BY <1>4, <1>6 DEF Tree
  <2>2. Children(lib, l) \cap G = {}
    <3> SUFFICES ASSUME NEW k \in Children(lib, l), k \in G PROVE FALSE
      OBVIOUS
    <3>1. k \in DOMAIN lib /\ lib[k].owner = l /\ ~RootIn(lib, k)
      BY <2>1 DEF Children, RootIn
    <3> QED
      BY <1>6, <2>1, <3>1, DBNested DEF Residents
  <2>3. Children(lib', l) = Children(lib, l) \ G
    BY <1>10 DEF Shrunk
  <2> HIDE DEF G
  <2> QED
    BY <2>2, <2>3
<1> HIDE DEF G
<1>18. /\ \A e : \A k \in Residents(lib', e) : LibID(lib')[k] = LibID(lib)[k]
       /\ \A p : \A k \in Children(lib', p) :
            LibID(lib')[k] = LibID(lib)[k] /\ LibName(lib')[k] = LibName(lib)[k]
  <2>1. \A k \in DOMAIN lib' : LibID(lib')[k] = LibID(lib)[k] /\ LibName(lib')[k] = LibName(lib)[k]
    BY <1>4, <1>10 DEF LibName, Shrunk
  <2> QED
    BY <2>1 DEF Residents, Children
<1>19. RegistersOK(db', lib')
  <2>1. ASSUME NEW e \in DOMAIN db' PROVE Registers(db'[e].libraries, Residents(lib', e), LibID(lib'))
    <3>1. Registers(db[e].libraries, Residents(lib, e), LibID(lib))
      BY <1>5 DEF RegInv, RegistersOK
    <3>2. Registers(db[e].libraries, Residents(lib', e), LibID(lib))
      BY <1>16, <3>1
    <3>3. Registers(db[e].libraries, Residents(lib', e), LibID(lib'))
      BY <1>18, <3>2, RegistersKept
    <3> QED
      BY <1>16, <3>3
  <2>2. ASSUME NEW l \in DOMAIN lib' PROVE Registers(lib'[l].libraries, Children(lib', l), LibID(lib'))
    <3>1. Registers(lib[l].libraries, Children(lib, l), LibID(lib))
      BY <1>4 DEF RegInv, RegistersOK
    <3>2. Registers(lib[l].libraries, Children(lib', l), LibID(lib))
      BY <1>17, <3>1
    <3>3. Registers(lib[l].libraries, Children(lib', l), LibID(lib'))
      BY <1>18, <3>2, RegistersKept
    <3> QED
      BY <1>4, <3>3
  <2> QED
    BY <2>1, <2>2 DEF RegistersOK
<1>20. ASSUME NameInv PROVE NamesOK(db', lib')
  <2>1. ASSUME NEW e \in DOMAIN db'
        PROVE  Named(db'[e].names, RootNames, Children(lib', e), LibName(lib'), LibID(lib'))
    <3>1. Named(db[e].names, RootNames, Children(lib, e), LibName(lib), LibID(lib))
      BY <1>5, <1>20 DEF NameInv, NamesOK
    <3>2. Named(db[e].names, RootNames, Children(lib', e), LibName(lib), LibID(lib))
      BY <1>16, <3>1
    <3>3. Named(db[e].names, RootNames, Children(lib', e), LibName(lib'), LibID(lib'))
      BY <1>18, <3>2, NamedKept
    <3> QED
      BY <1>16, <3>3
  <2>2. ASSUME NEW l \in DOMAIN lib'
        PROVE  Named(lib'[l].names, NestedNames, Children(lib', l), LibName(lib'), LibID(lib'))
    <3>1. Named(lib[l].names, NestedNames, Children(lib, l), LibName(lib), LibID(lib))
      BY <1>4, <1>20 DEF NameInv, NamesOK
    <3>2. Named(lib[l].names, NestedNames, Children(lib', l), LibName(lib), LibID(lib))
      BY <1>17, <3>1
    <3>3. Named(lib[l].names, NestedNames, Children(lib', l), LibName(lib'), LibID(lib'))
      BY <1>18, <3>2, NamedKept
    <3> QED
      BY <1>4, <3>3
  <2>3. \A l \in DOMAIN lib' :
          lib'[l].name \in {NoName} \cup IF RootIn(lib', l) THEN RootNames ELSE NestedNames
    BY <1>4, <1>20 DEF NameInv, NamesOK, RootIn
  <2> QED
    BY <2>1, <2>2, <2>3 DEF NamesOK
<1>21. DBsOK(db', dbs', made)
  <2>1. Registers(dbs, DOMAIN db, DBID(db)) /\ dbs' = Without(dbs, {db[d].id})
    BY DEF RegInv, DBsOK, DestroyDB
  <2>2. \A x \in DOMAIN db \cap {d} : DBID(db)[x] \in {db[d].id}
    BY DEF DBID
  <2>3. \A x \in DOMAIN db \ {d} : DBID(db)[x] \notin {db[d].id}
    BY <1>1, <2>1 DEF DBID, Registers
  <2>4. \A x \in DOMAIN db \ {d} : DBID(db')[x] = DBID(db)[x]
    BY <1>5 DEF DBID
  <2>5. Registers(dbs', DOMAIN db', DBID(db'))
    <3>1. Registers(Without(dbs, {db[d].id}), DOMAIN db \ {d}, DBID(db'))
      BY <2>1, <2>2, <2>3, <2>4, RegistersWithout
    <3> QED
      BY <1>5, <2>1, <3>1
  <2>6. DOMAIN dbs' = DOMAIN dbs \ {db[d].id} /\ \A n \in DOMAIN dbs' : dbs'[n] = dbs[n]
    BY <2>1 DEF Without
  <2>7. 0 \in DOMAIN dbs' /\ dbs'[0] = DB0
    <3>1. DOMAIN dbs # {}
      BY <1>1, <2>1 DEF Registers
    <3>2. 0 \in DOMAIN dbs /\ dbs[0] = DB0
      BY <3>1 DEF RegInv, DBsOK
    <3>3. dbs[db[d].id] = d
      BY <1>1, <2>1 DEF Registers, DBID
    <3> QED
      BY <1>1, <2>6, <3>2, <3>3
  <2>8. /\ DOMAIN db' \subseteq DBs \cap made /\ \A e \in DOMAIN db' : DOMAIN db'[e] = DBFields
        /\ \A n \in DOMAIN dbs' : \E g \in GivenDBIDs \cup {0} : n < g + Cardinality(made \cap DBs)
    BY <1>5, <2>6 DEF RegInv, DBsOK
  <2> QED
    BY <2>5, <2>7, <2>8 DEF DBsOK
<1> QED
  BY <1>3, <1>10, <1>11, <1>12, <1>15, <1>19, <1>20, <1>21 DEF RegInv, NameInv

LEMMA DestroyUniverseOK ==
  ASSUME RegInv, DestroyUniverse
  PROVE  RegInv' /\ (NameInv => NameInv')
<1> DEFINE G == UNION {Owned(d) : d \in Range(dbs)}
<1>1. Range(dbs) = DOMAIN db
  BY RegistersEntries DEF RegInv, DBsOK
<1>2. G = DOMAIN lib
  <2>1. G = UNION {Residents(lib, d) : d \in DOMAIN db}
    BY <1>1, OwnedIs
  <2>2. \A k \in DOMAIN lib : DBIn(lib, k) \in DOMAIN db
    BY LivesInDB DEF RegInv
  <2> HIDE DEF G
  <2> QED
    BY <2>1, <2>2 DEF Residents
<1>3. DesignsOf(G) = DOMAIN design
  <2>1. DesignsOf(DOMAIN lib) = {d \in DOMAIN design : design[d].library \in DOMAIN lib}
    BY DesignsReached
  <2> QED
    BY <1>2, <2>1 DEF RegInv, DesignsOK
<1>4. DestroyDesigns(DesignsOf(G)) /\ lib' = Without(lib, G) /\ db' = Without(db, Range(dbs)) /\ dbs' = <<>>
  BY DEF DestroyUniverse
<1> HIDE DEF G
<1>5. /\ made' = made /\ failed' = failed /\ design' = Without(design, DOMAIN design)
      /\ instances' = {i \in instances : i.design \notin DOMAIN design}
  BY <1>3, <1>4, DestroyDesignsFine
<1>6. DOMAIN lib' = {} /\ DOMAIN db' = {} /\ DOMAIN dbs' = {} /\ DOMAIN design' = {}
  BY <1>1, <1>2, <1>4, <1>5 DEF Without
<1>7. instances' = {}
  BY <1>5 DEF RegInv, InstancesOK
<1>8. DBsOK(db', dbs', made')
  <2>1. Registers(dbs', DOMAIN db', DBID(db'))
    BY <1>4, <1>6, RegistersEmpty
  <2> QED
    BY <1>6, <2>1 DEF DBsOK
<1>9. TreeOK(db', lib', made') /\ RegistersOK(db', lib') /\ NamesOK(db', lib') /\ TypesOK(lib')
  BY <1>6 DEF TreeOK, Tree, RegistersOK, NamesOK, TypesOK
<1>10. DesignsOK(lib', design', made') /\ InstancesOK(lib', design', instances')
  BY <1>6, <1>7 DEF DesignsOK, InstancesOK
<1> QED
  BY <1>5, <1>8, <1>9, <1>10 DEF RegInv, NameInv

(* Two objects of a register have different IDs, and different names. *)
LEMMA IDsDiffer ==
  ASSUME NEW f, NEW S, NEW id, Registers(f, S, id), NEW x \in S, NEW y \in S, id[x] = id[y]
  PROVE  x = y
BY DEF Registers

LEMMA NamesDiffer ==
  ASSUME NEW names, NEW N, NEW S, NEW nm, NEW id, Named(names, N, S, nm, id),
         NEW f, NEW T, Registers(f, T, id), S \subseteq T,
         NEW x \in S, NEW y \in S, nm[x] \in N, nm[x] = nm[y]
  PROVE  x = y
<1>1. id[x] = id[y]
  BY DEF Named
<1> QED
  BY <1>1, IDsDiffer

(* DestroyLibrary, what it reaches and what it leaves. *)
LEMMA DestroyLibraryTree ==
  ASSUME NoHabits, RegInv, NEW l \in Libraries, DestroyLibrary(l)
  PROVE  LET G == UnderIn(lib, l)
             gone == {x \in DOMAIN design : design[x].library \in G}
         IN  /\ l \in G /\ l \in DOMAIN lib /\ G \subseteq Residents(lib, DBIn(lib, l))
             /\ made' = made /\ failed' = failed /\ dbs' = dbs /\ design' = Without(design, gone)
             /\ instances' = {i \in instances : i.design \notin gone}
             /\ \A i \in instances : i.model \notin gone
             /\ DOMAIN lib' = DOMAIN lib \ G /\ SameShape(lib, lib') /\ NestedGo(lib, G)
             /\ \A k \in G : k = l \/ (~RootIn(lib, k) /\ lib[k].owner \in G)
             /\ \A k \in DOMAIN lib' :
                  /\ lib'[k].name = lib[k].name /\ lib'[k].designs = lib[k].designs
                  /\ k # lib[l].owner => lib'[k].libraries = lib[k].libraries /\ lib'[k].names = lib[k].names
                  /\ k = lib[l].owner =>
                       /\ lib'[k].libraries = Without(lib[k].libraries, {lib[l].id})
                       /\ lib'[k].names = Without(lib[k].names, {lib[l].name} \ {NoName})
<1> USE UniverseAssumption
<1> DEFINE G == UnderIn(lib, l)
           gone == {x \in DOMAIN design : design[x].library \in G}
           p == lib[l].owner
           rest == IF Root(l) THEN lib
                   ELSE [lib EXCEPT ![p].libraries = Without(@, {lib[l].id}),
                                    ![p].names = Without(@, {lib[l].name} \ {NoName})]
<1>1. /\ l \in DOMAIN lib /\ DestroyDesigns(DesignsOf(Under(l))) /\ dbs' = dbs
      /\ lib' = Without(rest, Under(l))
      /\ \A i \in instances : i.model \notin DesignsOf(Under(l))
  BY DEF DestroyLibrary, MayDestroy, NoHabits
<1>2. Under(l) = G
  BY UnderIsUnderIn
<1>3. Tree(lib) /\ Kids(lib) /\ \A k \in DOMAIN lib : DOMAIN lib[k] = LibFields
  BY HasKids DEF RegInv, TreeOK
<1>4. l \in G /\ G \subseteq DOMAIN lib /\ NestedGo(lib, G)
  BY <1>1, <1>3, UnderClosed DEF NestedGo
<1>5. \A k \in G : DBIn(lib, k) = DBIn(lib, l) /\ (k = l \/ (~RootIn(lib, k) /\ lib[k].owner \in G))
  BY <1>1, <1>3, UnderSameDB
<1>6. DesignsOf(G) = gone
  BY <1>4, DesignsReached
<1> HIDE DEF G
<1>7. /\ made' = made /\ failed' = failed /\ design' = Without(design, gone)
      /\ instances' = {i \in instances : i.design \notin gone}
  <2> HIDE DEF gone
  <2> QED
    BY <1>1, <1>2, <1>6, DestroyDesignsFine
<1>8. G \subseteq Residents(lib, DBIn(lib, l))
  BY <1>4, <1>5 DEF Residents
<1>9. \A i \in instances : i.model \notin gone
  BY <1>1, <1>2, <1>6
<1>10. /\ DOMAIN rest = DOMAIN lib
       /\ \A k \in DOMAIN lib :
            /\ DOMAIN rest[k] = LibFields
            /\ rest[k].owner = lib[k].owner /\ rest[k].type = lib[k].type /\ rest[k].id = lib[k].id
            /\ rest[k].name = lib[k].name /\ rest[k].designs = lib[k].designs
            /\ k # p => rest[k].libraries = lib[k].libraries /\ rest[k].names = lib[k].names
            /\ k = p => /\ rest[k].libraries = Without(lib[k].libraries, {lib[l].id})
                        /\ rest[k].names = Without(lib[k].names, {lib[l].name} \ {NoName})
  <2>1. CASE Root(l)
    <3>1. \A k \in DOMAIN lib : k # p
      BY <1>3, <2>1 DEF Root, Tree
    <3>2. rest = lib
      BY <2>1
    <3> HIDE DEF rest
    <3> QED
      BY <1>3, <3>1, <3>2
  <2>2. CASE ~Root(l)
    <3> DEFINE a == Without(lib[p].libraries, {lib[l].id})
               b == Without(lib[p].names, {lib[l].name} \ {NoName})
    <3>1. p \in DOMAIN lib
      BY <1>1, <1>3, <2>2, DBNested DEF Root, RootIn
    <3>2. rest = [lib EXCEPT ![p].libraries = a, ![p].names = b]
      BY <1>3, <2>2, <3>1 DEF LibFields
    <3> HIDE DEF rest, a, b, p
    <3>3. DOMAIN rest = DOMAIN lib /\ \A k \in DOMAIN lib : k # p => rest[k] = lib[k]
      BY <3>2
    <3>4. rest[p] = [[lib[p] EXCEPT !.libraries = a] EXCEPT !.names = b]
      BY <3>1, <3>2
    <3>5. /\ DOMAIN rest[p] = LibFields
          /\ rest[p].owner = lib[p].owner /\ rest[p].type = lib[p].type /\ rest[p].id = lib[p].id
          /\ rest[p].name = lib[p].name /\ rest[p].designs = lib[p].designs
          /\ rest[p].libraries = a /\ rest[p].names = b
      BY <1>3, <3>1, <3>4 DEF LibFields
    <3> QED
      BY <1>3, <3>3, <3>5 DEF a, b
  <2> QED
    BY <2>1, <2>2
<1> HIDE DEF rest
<1>11. DOMAIN lib' = DOMAIN lib \ G /\ \A k \in DOMAIN lib' : lib'[k] = rest[k]
  BY <1>1, <1>2, <1>10 DEF Without
<1>12. SameShape(lib, lib')
  BY <1>10, <1>11 DEF SameShape
<1>13. \A k \in DOMAIN lib' :
         /\ lib'[k].name = lib[k].name /\ lib'[k].designs = lib[k].designs
         /\ k # p => lib'[k].libraries = lib[k].libraries /\ lib'[k].names = lib[k].names
         /\ k = p => /\ lib'[k].libraries = Without(lib[k].libraries, {lib[l].id})
                     /\ lib'[k].names = Without(lib[k].names, {lib[l].name} \ {NoName})
  BY <1>10, <1>11, ZenonT(30)
<1> QED
  BY <1>1, <1>4, <1>5, <1>7, <1>8, <1>9, <1>11, <1>12, <1>13 DEF G

LEMMA DestroyLibraryOK ==
  ASSUME NoHabits, RegInv, NEW l \in Libraries, DestroyLibrary(l)
  PROVE  RegInv' /\ (NamesApart /\ NameInv => NameInv')
<1> USE UniverseAssumption
<1> DEFINE G == UnderIn(lib, l)
           gone == {x \in DOMAIN design : design[x].library \in G}
           p == lib[l].owner
           d == DBIn(lib, l)
           ids == {lib[x].id : x \in G}
           nms == {lib[x].name : x \in G}
<1>1. /\ l \in G /\ l \in DOMAIN lib /\ G \subseteq Residents(lib, d)
      /\ made' = made /\ failed' = failed /\ dbs' = dbs /\ design' = Without(design, gone)
      /\ instances' = {i \in instances : i.design \notin gone}
      /\ \A i \in instances : i.model \notin gone
      /\ DOMAIN lib' = DOMAIN lib \ G /\ SameShape(lib, lib') /\ NestedGo(lib, G)
      /\ \A k \in G : k = l \/ (~RootIn(lib, k) /\ lib[k].owner \in G)
  BY DestroyLibraryTree
<1>2. \A k \in DOMAIN lib' :
        /\ lib'[k].name = lib[k].name /\ lib'[k].designs = lib[k].designs
        /\ k # p => lib'[k].libraries = lib[k].libraries /\ lib'[k].names = lib[k].names
        /\ k = p => /\ lib'[k].libraries = Without(lib[k].libraries, {lib[l].id})
                    /\ lib'[k].names = Without(lib[k].names, {lib[l].name} \ {NoName})
  BY DestroyLibraryTree
<1>3. TreeOK(db, lib, made) /\ Tree(lib) /\ d \in DOMAIN db /\ \A e \in DOMAIN db : DOMAIN db[e] = DBFields
  BY <1>1, LivesInDB DEF RegInv, TreeOK, DBsOK
<1>4. db' = [db EXCEPT ![d].libraries = Without(db[d].libraries, ids), ![d].names = Without(db[d].names, nms)]
  <2>1. Unregister(d, G)
    BY UnderIsUnderIn, GetDBIsDBIn DEF DestroyLibrary
  <2> QED
    BY <1>3, <2>1 DEF Unregister, DBFields
<1> HIDE DEF G, d, p, ids, nms, gone
<1>5. /\ DOMAIN db' = DOMAIN db
      /\ \A e \in DOMAIN db : DOMAIN db'[e] = DBFields /\ db'[e].id = db[e].id
      /\ \A e \in DOMAIN db \ {d} : db'[e] = db[e]
      /\ db'[d].libraries = Without(db[d].libraries, ids) /\ db'[d].names = Without(db[d].names, nms)
  <2>1. DOMAIN db' = DOMAIN db /\ \A e \in DOMAIN db \ {d} : db'[e] = db[e]
    BY <1>4
  <2>2. db'[d] = [[db[d] EXCEPT !.libraries = Without(db[d].libraries, ids)] EXCEPT !.names = Without(db[d].names, nms)]
    BY <1>3, <1>4
  <2>3. /\ DOMAIN db'[d] = DBFields /\ db'[d].id = db[d].id
        /\ db'[d].libraries = Without(db[d].libraries, ids) /\ db'[d].names = Without(db[d].names, nms)
    BY <1>3, <2>2 DEF DBFields
  <2> QED
    BY <1>3, <2>1, <2>3
<1>6. OwnersStay(db, lib, db', lib')
  BY <1>5 DEF OwnersStay
<1>7. TreeOK(db', lib', made) /\ Shrunk(lib, lib', G)
  BY <1>1, <1>3, <1>6, TreeShrinks
<1>8. TypesOK(lib')
  BY <1>1, <1>3, <1>7, TypesShrink DEF RegInv, TreeOK
<1>9. DesignsOK(lib', design', made)
  <2>1. \A k \in DOMAIN lib' : lib'[k].designs = lib[k].designs
    BY <1>2
  <2>2. DesignsOK(lib, design, made)
    BY DEF RegInv
  <2>3. gone = {x \in DOMAIN design : design[x].library \in G}
    BY DEF gone
  <2>4. DesignsOK(lib', Without(design, gone), made)
    BY <1>1, <2>1, <2>2, <2>3, DesignsShrink
  <2> QED
    BY <1>1, <2>4
<1>10. InstancesOK(lib', design', instances')
  <2>1. InstancesOK(lib, design, instances)
    BY DEF RegInv
  <2>2. \A x \in DOMAIN design \ gone : DBIn(lib', design[x].library) = DBIn(lib, design[x].library)
    BY <1>1, <1>7 DEF gone, RegInv, DesignsOK, Shrunk
  <2>3. InstancesOK(lib', Without(design, gone), {i \in instances : i.design \notin gone})
    BY <1>1, <2>1, <2>2, InstancesShrink
  <2> QED
    BY <1>1, <2>3
<1>11. DBsOK(db', dbs', made')
  <2>1. Registers(dbs, DOMAIN db, DBID(db))
    BY DEF RegInv, DBsOK
  <2>2. \A e \in DOMAIN db : DBID(db')[e] = DBID(db)[e]
    BY <1>5 DEF DBID
  <2>3. Registers(dbs, DOMAIN db, DBID(db'))
    BY <2>1, <2>2, RegistersKept
  <2> QED
    BY <1>1, <1>5, <2>3 DEF RegInv, DBsOK
<1>12. \A k \in DOMAIN lib' : LibID(lib')[k] = LibID(lib)[k] /\ LibName(lib')[k] = LibName(lib)[k]
  BY <1>1, <1>2, <1>7 DEF Shrunk, LibName
<1>13. \A k \in DOMAIN lib : LibID(lib)[k] = lib[k].id /\ LibName(lib)[k] = lib[k].name
  BY DEF LibID, LibName
<1>14. /\ \A e : Residents(lib', e) = Residents(lib, e) \ G
       /\ \A q : Children(lib', q) = Children(lib, q) \ G
  BY <1>7 DEF Shrunk
<1>15. /\ \A e : Residents(lib, e) \subseteq DOMAIN lib /\ Residents(lib', e) \subseteq DOMAIN lib'
       /\ \A q : Children(lib, q) \subseteq DOMAIN lib /\ Children(lib', q) \subseteq DOMAIN lib'
  BY DEF Residents, Children
<1>16. \A e \in DOMAIN db : Children(lib, e) \subseteq Residents(lib, e)
  BY <1>3, DBRoot DEF Children, Residents, RootIn, RegInv, DBsOK
<1>17. \A e \in DOMAIN db \ {d} : Residents(lib, e) \cap G = {}
  BY <1>1 DEF Residents
<1>18. ASSUME NEW q \in DOMAIN lib' PROVE Children(lib, q) \cap G \subseteq {l}
  BY <1>1, <1>18 DEF Children
<1>19. ASSUME NEW q \in DOMAIN lib', q # p PROVE Children(lib, q) \cap G = {}
  <2>1. l \notin Children(lib, q)
    BY <1>19 DEF Children, p
  <2> QED
    BY <1>18, <2>1
<1>20. ASSUME p \in DOMAIN lib' PROVE Children(lib, p) \cap G = {l}
  <2>1. l \in Children(lib, p)
    BY <1>1 DEF Children, p
  <2> QED
    BY <1>1, <1>18, <1>20, <2>1
<1>21. RegistersOK(db', lib')
  <2>1. ASSUME NEW e \in DOMAIN db PROVE Registers(db'[e].libraries, Residents(lib', e), LibID(lib'))
    <3>1. Registers(db[e].libraries, Residents(lib, e), LibID(lib))
      BY DEF RegInv, RegistersOK
    <3>2. \A x \in Residents(lib, e) \ G : LibID(lib')[x] = LibID(lib)[x]
      BY <1>12, <1>14, <1>15
    <3>3. CASE e # d
      <4>1. Residents(lib', e) = Residents(lib, e) /\ db'[e] = db[e]
        BY <1>5, <1>14, <1>17, <3>3
      <4>2. \A x \in Residents(lib, e) : LibID(lib')[x] = LibID(lib)[x]
        BY <1>14, <3>2, <4>1
      <4>3. Registers(db[e].libraries, Residents(lib, e), LibID(lib'))
        BY <3>1, <4>2, RegistersKept
      <4> QED
        BY <4>1, <4>3
    <3>4. CASE e = d
      <4>1. \A x \in Residents(lib, e) \cap G : LibID(lib)[x] \in ids
        BY <1>13, <1>15 DEF ids
      <4>2. \A x \in Residents(lib, e) \ G : LibID(lib)[x] \notin ids
        <5> SUFFICES ASSUME NEW x \in Residents(lib, e), NEW y \in G, LibID(lib)[x] = lib[y].id
                     PROVE  x = y
          BY DEF ids
        <5>1. y \in Residents(lib, e) /\ LibID(lib)[y] = LibID(lib)[x]
          BY <1>1, <1>13, <1>15, <3>4
        <5> QED
          BY <3>1, <5>1, IDsDiffer
      <4>3. Registers(Without(db[e].libraries, ids), Residents(lib, e) \ G, LibID(lib'))
        BY <3>1, <3>2, <4>1, <4>2, RegistersWithout
      <4> QED
        BY <1>5, <1>14, <3>4, <4>3
    <3> QED
      BY <3>3, <3>4
  <2>2. ASSUME NEW q \in DOMAIN lib' PROVE Registers(lib'[q].libraries, Children(lib', q), LibID(lib'))
    <3>1. Registers(lib[q].libraries, Children(lib, q), LibID(lib))
      BY <1>1 DEF RegInv, RegistersOK
    <3>2. \A x \in Children(lib, q) \ G : LibID(lib')[x] = LibID(lib)[x]
      BY <1>12, <1>14, <1>15
    <3>3. CASE q # p
      <4>1. Children(lib', q) = Children(lib, q) /\ lib'[q].libraries = lib[q].libraries
        BY <1>2, <1>14, <1>19, <3>3
      <4>2. \A x \in Children(lib, q) : LibID(lib')[x] = LibID(lib)[x]
        BY <1>14, <3>2, <4>1
      <4>3. Registers(lib[q].libraries, Children(lib, q), LibID(lib'))
        BY <3>1, <4>2, RegistersKept
      <4> QED
        BY <4>1, <4>3
    <3>4. CASE q = p
      <4>1. l \in Children(lib, q) /\ Children(lib, q) \cap G = {l} /\ LibID(lib)[l] = lib[l].id
        BY <1>1, <1>13, <1>20, <2>2, <3>4
      <4>2. \A x \in Children(lib, q) \cap G : LibID(lib)[x] \in {lib[l].id}
        BY <4>1
      <4>3. \A x \in Children(lib, q) \ G : LibID(lib)[x] \notin {lib[l].id}
        BY <1>1, <3>1, <4>1, IDsDiffer
      <4>4. Registers(Without(lib[q].libraries, {lib[l].id}), Children(lib, q) \ G, LibID(lib'))
        BY <3>1, <3>2, <4>2, <4>3, RegistersWithout
      <4> QED
        BY <1>2, <1>14, <2>2, <3>4, <4>4
    <3> QED
      BY <3>3, <3>4
  <2> QED
    BY <1>5, <2>1, <2>2 DEF RegistersOK
<1>22. ASSUME NamesApart, NameInv PROVE NamesOK(db', lib')
  <2>0. \A k \in DOMAIN lib : lib[k].name \in {NoName} \cup IF RootIn(lib, k) THEN RootNames ELSE NestedNames
    BY <1>22 DEF NameInv, NamesOK
  <2>1. ASSUME NEW e \in DOMAIN db
        PROVE  Named(db'[e].names, RootNames, Children(lib', e), LibName(lib'), LibID(lib'))
    <3>1. Named(db[e].names, RootNames, Children(lib, e), LibName(lib), LibID(lib))
      BY <1>22 DEF NameInv, NamesOK
    <3>2. \A x \in Children(lib, e) \ G : LibName(lib')[x] = LibName(lib)[x] /\ LibID(lib')[x] = LibID(lib)[x]
      BY <1>12, <1>14, <1>15
    <3>3. CASE e # d
      <4>1. Children(lib', e) = Children(lib, e) /\ db'[e] = db[e]
        BY <1>5, <1>14, <1>16, <1>17, <3>3
      <4>2. \A x \in Children(lib, e) : LibName(lib')[x] = LibName(lib)[x] /\ LibID(lib')[x] = LibID(lib)[x]
        BY <1>14, <3>2, <4>1
      <4>3. Named(db[e].names, RootNames, Children(lib, e), LibName(lib'), LibID(lib'))
        BY <3>1, <4>2, NamedKept
      <4> QED
        BY <4>1, <4>3
    <3>4. CASE e = d
      <4>1. \A x \in Children(lib, e) \cap G : LibName(lib)[x] \in RootNames => LibName(lib)[x] \in nms
        BY <1>13, <1>15 DEF nms
      <4>2. \A x \in Children(lib, e) \ G : LibName(lib)[x] \in RootNames => LibName(lib)[x] \notin nms
        <5> SUFFICES ASSUME NEW x \in Children(lib, e), LibName(lib)[x] \in RootNames,
                            NEW y \in G, LibName(lib)[x] = lib[y].name
                     PROVE  x = y
          BY DEF nms
        <5>1. y \in DOMAIN lib /\ y \in Residents(lib, e)
          BY <1>1, <1>15, <3>4
        <5>2. RootIn(lib, y)
          BY <1>22, <2>0, <5>1 DEF NamesApart
        <5>3. y \in Children(lib, e)
          BY <1>3, <5>1, <5>2, DBRoot DEF Children, Residents
        <5>4. LibName(lib)[x] = LibName(lib)[y]
          BY <1>13, <5>1
        <5>5. Registers(db[e].libraries, Residents(lib, e), LibID(lib)) /\ Children(lib, e) \subseteq Residents(lib, e)
          BY <1>16 DEF RegInv, RegistersOK
        <5> QED
          BY <3>1, <5>3, <5>4, <5>5, NamesDiffer
      <4>3. Named(Without(db[e].names, nms), RootNames, Children(lib, e) \ G, LibName(lib'), LibID(lib'))
        BY <3>1, <3>2, <4>1, <4>2, NamedWithout, ZenonT(60)
      <4> QED
        BY <1>5, <1>14, <3>4, <4>3
    <3> QED
      BY <3>3, <3>4
  <2>2. ASSUME NEW q \in DOMAIN lib'
        PROVE  Named(lib'[q].names, NestedNames, Children(lib', q), LibName(lib'), LibID(lib'))
    <3>1. Named(lib[q].names, NestedNames, Children(lib, q), LibName(lib), LibID(lib))
      BY <1>1, <1>22 DEF NameInv, NamesOK
    <3>2. \A x \in Children(lib, q) \ G : LibName(lib')[x] = LibName(lib)[x] /\ LibID(lib')[x] = LibID(lib)[x]
      BY <1>12, <1>14, <1>15
    <3>3. CASE q # p
      <4>1. Children(lib', q) = Children(lib, q) /\ lib'[q].names = lib[q].names
        BY <1>2, <1>14, <1>19, <3>3
      <4>2. \A x \in Children(lib, q) : LibName(lib')[x] = LibName(lib)[x] /\ LibID(lib')[x] = LibID(lib)[x]
        BY <1>14, <3>2, <4>1
      <4>3. Named(lib[q].names, NestedNames, Children(lib, q), LibName(lib'), LibID(lib'))
        BY <3>1, <4>2, NamedKept
      <4> QED
        BY <4>1, <4>3
    <3>4. CASE q = p
      <4> DEFINE K == {lib[l].name} \ {NoName}
      <4>1. l \in Children(lib, q) /\ Children(lib, q) \cap G = {l} /\ LibName(lib)[l] = lib[l].name
        BY <1>1, <1>13, <1>20, <2>2, <3>4
      <4>2. \A x \in Children(lib, q) \cap G : LibName(lib)[x] \in NestedNames => LibName(lib)[x] \in K
        BY <4>1
      <4>3. Registers(lib[q].libraries, Children(lib, q), LibID(lib))
        BY <1>1 DEF RegInv, RegistersOK
      <4>4. \A x \in Children(lib, q) \ G : LibName(lib)[x] \in NestedNames => LibName(lib)[x] \notin K
        <5> SUFFICES ASSUME NEW x \in Children(lib, q), LibName(lib)[x] \in NestedNames,
                            LibName(lib)[x] = LibName(lib)[l]
                     PROVE  x = l
          BY <1>1, <4>1
        <5> QED
          BY <3>1, <4>1, <4>3, NamesDiffer
      <4> HIDE DEF K
      <4>5. Named(Without(lib[q].names, K), NestedNames, Children(lib, q) \ G, LibName(lib'), LibID(lib'))
        BY <3>1, <3>2, <4>2, <4>4, NamedWithout, ZenonT(30)
      <4> QED
        BY <1>2, <1>14, <2>2, <3>4, <4>5 DEF K
    <3> QED
      BY <3>3, <3>4
  <2>3. \A k \in DOMAIN lib' :
          lib'[k].name \in {NoName} \cup IF RootIn(lib', k) THEN RootNames ELSE NestedNames
    <3> TAKE k \in DOMAIN lib'
    <3>1. k \in DOMAIN lib /\ lib'[k].name = lib[k].name /\ lib'[k].owner = lib[k].owner
      BY <1>1, <1>2 DEF SameShape
    <3> QED
      BY <2>0, <3>1 DEF RootIn
  <2> QED
    BY <1>5, <2>1, <2>2, <2>3 DEF NamesOK
<1> QED
  BY <1>1, <1>7, <1>8, <1>9, <1>10, <1>11, <1>21, <1>22 DEF RegInv, NameInv

(***************************************************************************)
(* Creation of libraries.                                                  *)
(***************************************************************************)
Grown(L, M, l) ==
  /\ \A k \in DOMAIN L : DBIn(M, k) = DBIn(L, k) /\ LibID(M)[k] = LibID(L)[k]
  /\ \A q : Children(M, q) = IF M[l].owner = q THEN Children(L, q) \cup {l} ELSE Children(L, q)
  /\ \A e : Residents(M, e) = IF DBIn(M, l) = e THEN Residents(L, e) \cup {l} ELSE Residents(L, e)
  /\ LibID(M)[l] = M[l].id

(* l is new: the root of a tree, or after the library it is nested in. *)
Newcomer(B, L, M, l) ==
  /\ l \in Libraries /\ l \notin DOMAIN L /\ DOMAIN M = DOMAIN L \cup {l}
  /\ DOMAIN M[l] = LibFields /\ M[l].id \in Nat
  /\ M[l].owner \in DOMAIN B \/ (M[l].owner \in DOMAIN L /\ L[M[l].owner].id < M[l].id)

DesignsStay(L, M) == \A k \in DOMAIN L : M[k].designs = L[k].designs

(* M is L with a new library l. *)
LEMMA TreeGrows ==
  ASSUME NEW B, NEW L, NEW D, TreeOK(B, L, D), DOMAIN B \subseteq DBs,
         NEW C, DOMAIN C = DOMAIN B, NEW M, NEW l, Newcomer(B, L, M, l), SameShape(L, M)
  PROVE  TreeOK(C, M, D \cup {l}) /\ Grown(L, M, l)
<1> DEFINE E == D \cup {l}
<1> USE UniverseAssumption DEF Newcomer
<1>1. Tree(L) /\ \A k \in DOMAIN L : L[k].owner \in DOMAIN B \cup DOMAIN L
  BY DEF TreeOK
<1>2. \A k \in DOMAIN L : k \in DOMAIN M /\ k # l /\ DOMAIN M[k] = LibFields
                          /\ M[k].owner = L[k].owner /\ M[k].id = L[k].id
  BY DEF SameShape
<1>3. Tree(M)
  <2>1. DOMAIN M \subseteq Libraries
    BY <1>1 DEF Tree
  <2>2. ASSUME NEW k \in DOMAIN L
        PROVE  M[k].id \in Nat /\ (RootIn(M, k) \/ (M[k].owner \in DOMAIN M /\ M[M[k].owner].id < M[k].id))
    BY <1>1, <1>2 DEF Tree, RootIn
  <2>3. M[l].id \in Nat /\ (RootIn(M, l) \/ (M[l].owner \in DOMAIN M /\ M[M[l].owner].id < M[l].id))
    BY <1>2 DEF RootIn
  <2> QED
    BY <2>1, <2>2, <2>3 DEF Tree
<1>4. TreeOK(C, M, E)
  BY <1>1, <1>2, <1>3 DEF TreeOK
<1>5. \A k \in DOMAIN L : DBIn(M, k) = DBIn(L, k)
  BY <1>1, <1>2, <1>3, DBKept
<1>6. \A k \in DOMAIN L : LibID(M)[k] = LibID(L)[k]
  BY <1>2 DEF LibID
<1>7. LibID(M)[l] = M[l].id
  BY DEF LibID
<1>8. ASSUME NEW q PROVE Children(M, q) = IF M[l].owner = q THEN Children(L, q) \cup {l} ELSE Children(L, q)
  BY <1>2 DEF Children
<1>9. ASSUME NEW e PROVE Residents(M, e) = IF DBIn(M, l) = e THEN Residents(L, e) \cup {l} ELSE Residents(L, e)
  BY <1>2, <1>5 DEF Residents
<1> QED
  BY <1>4, <1>5, <1>6, <1>7, <1>8, <1>9 DEF Grown

(* What both kinds of creation share: l is registered in d. *)
LibraryAdded(d, l, name) ==
  /\ d \in DOMAIN db /\ l \in Libraries \ made /\ Register(d, l, name)
  /\ dbs' = dbs /\ made' = made \cup {l} /\ design' = design /\ instances' = instances
  /\ DOMAIN lib' = DOMAIN lib \cup {l} /\ SameShape(lib, lib') /\ Grown(lib, lib', l)
  /\ lib'[l].id = NextID(db[d].libraries) /\ DBIn(lib', l) = d
  /\ lib'[l].designs = <<>> /\ DesignsStay(lib, lib')

LEMMA RegisterOK ==
  ASSUME RegInv, NEW d, NEW l, NEW name, LibraryAdded(d, l, name)
  PROVE  /\ DBsOK(db', dbs', made')
         /\ \A e \in DOMAIN db' : Registers(db'[e].libraries, Residents(lib', e), LibID(lib'))
         /\ DesignsOK(lib', design', made')
         /\ InstancesOK(lib', design', instances')
         /\ \A e \in DOMAIN db \ {d} : db'[e] = db[e]
         /\ db'[d].names = Assign(db[d].names, name, lib'[l].id)
<1> USE UniverseAssumption DEF LibraryAdded
<1> DEFINE id == NextID(db[d].libraries)
<1>0. d \in DBs /\ l \notin DOMAIN lib /\ \A e \in DOMAIN db : DOMAIN db[e] = DBFields
  BY DEF RegInv, DBsOK, TreeOK
<1>1. id \in Nat /\ id \notin DOMAIN db[d].libraries
  <2>1. Bounded(DOMAIN db[d].libraries)
    BY DEF RegInv, RegistersOK, Registers
  <2> QED
    BY <2>1, NextIDFresh DEF Bounded
<1>2. db' = [db EXCEPT ![d].libraries = Insert(db[d].libraries, id, l), ![d].names = Assign(db[d].names, name, id)]
  BY <1>0 DEF Register, DBFields
<1> HIDE DEF id
<1>3. /\ DOMAIN db' = DOMAIN db
      /\ \A e \in DOMAIN db : DOMAIN db'[e] = DBFields /\ db'[e].id = db[e].id
      /\ \A e \in DOMAIN db \ {d} : db'[e] = db[e]
      /\ db'[d].libraries = Insert(db[d].libraries, id, l)
      /\ db'[d].names = Assign(db[d].names, name, id)
  <2>1. DOMAIN db' = DOMAIN db /\ \A e \in DOMAIN db \ {d} : db'[e] = db[e]
    BY <1>2
  <2>2. db'[d] = [[db[d] EXCEPT !.libraries = Insert(db[d].libraries, id, l)] EXCEPT !.names = Assign(db[d].names, name, id)]
    BY <1>2
  <2>3. /\ DOMAIN db'[d] = DBFields /\ db'[d].id = db[d].id
        /\ db'[d].libraries = Insert(db[d].libraries, id, l)
        /\ db'[d].names = Assign(db[d].names, name, id)
    BY <1>0, <2>2 DEF DBFields
  <2> QED
    BY <1>0, <2>1, <2>3
<1>4. DBsOK(db', dbs', made')
  <2>1. Registers(dbs, DOMAIN db, DBID(db))
    BY DEF RegInv, DBsOK
  <2>2. \A e \in DOMAIN db : DBID(db')[e] = DBID(db)[e]
    BY <1>3 DEF DBID
  <2>3. Registers(dbs, DOMAIN db, DBID(db'))
    BY <2>1, <2>2, RegistersKept
  <2>4. made' \cap DBs = made \cap DBs
    OBVIOUS
  <2> QED
    BY <1>3, <2>3, <2>4 DEF RegInv, DBsOK
<1>5. ASSUME NEW e \in DOMAIN db PROVE Registers(db'[e].libraries, Residents(lib', e), LibID(lib'))
  <2>1. Registers(db[e].libraries, Residents(lib, e), LibID(lib))
    BY DEF RegInv, RegistersOK
  <2>2. \A x \in Residents(lib, e) : LibID(lib')[x] = LibID(lib)[x]
    BY DEF Grown, Residents
  <2>3. CASE e # d
    <3>1. Residents(lib', e) = Residents(lib, e) /\ db'[e] = db[e]
      BY <1>3, <2>3 DEF Grown
    <3> QED
      BY <2>1, <2>2, <3>1, RegistersKept
  <2>4. CASE e = d
    <3>1. Residents(lib', e) = Residents(lib, e) \cup {l} /\ l \notin Residents(lib, e)
      BY <1>0, <2>4 DEF Grown, Residents
    <3>2. LibID(lib')[l] = id
      BY DEF Grown, id
    <3>3. Registers(Insert(db[e].libraries, id, l), Residents(lib, e) \cup {l}, LibID(lib'))
      BY <1>1, <2>1, <2>2, <2>4, <3>1, <3>2, RegistersInsert
    <3> QED
      BY <1>3, <2>4, <3>1, <3>3
  <2> QED
    BY <2>3, <2>4
<1>6. DesignsOK(lib', design', made')
  <2> USE DEF DesignsStay
  <2>1. DOMAIN design \subseteq Designs \cap made'
    BY DEF RegInv, DesignsOK
  <2>2. \A x \in DOMAIN design : /\ design[x].library \in DOMAIN lib
                                 /\ design[x].library \in DOMAIN lib'
                                 /\ design[x].primitive = (lib'[design[x].library].type = "Primitives")
    BY DEF RegInv, DesignsOK, SameShape
  <2>3. Registers(lib'[l].designs, Contents(design, l), DesignID(design))
    <3>1. Contents(design, l) = {}
      BY <1>0, <2>2 DEF Contents
    <3> QED
      BY <3>1, RegistersEmpty
  <2>4. \A k \in DOMAIN lib' : Registers(lib'[k].designs, Contents(design, k), DesignID(design))
    BY <2>3 DEF RegInv, DesignsOK
  <2> QED
    BY <2>1, <2>2, <2>4 DEF DesignsOK
<1>7. InstancesOK(lib', design', instances')
  <2>1. \A x \in DOMAIN design : DBIn(lib', design[x].library) = DBIn(lib, design[x].library)
    BY DEF RegInv, DesignsOK, Grown
  <2> QED
    BY <2>1 DEF RegInv, InstancesOK
<1> QED
  BY <1>3, <1>4, <1>5, <1>6, <1>7 DEF id

LEMMA CreateRootLibraryOK ==
  ASSUME RegInv, NEW l \in Libraries, NEW d \in DBs, NEW name \in RootNames \cup {NoName},
         NEW type \in {"Standard", "Primitives"}, CreateRootLibrary(l, d, type, name)
  PROVE  RegInv' /\ (NameInv => NameInv')
<1> USE UniverseAssumption
<1> DEFINE id == NextID(db[d].libraries)
<1>1. /\ l \in Libraries \ made /\ d \in DOMAIN db
      /\ Free(db[d].names, db[d].libraries, name) /\ Register(d, l, name)
      /\ lib' = Assign(lib, l, NewLibrary(d, type, id, name))
      /\ dbs' = dbs /\ made' = made \cup {l} /\ failed' = failed
      /\ design' = design /\ instances' = instances
  BY DEF CreateRootLibrary
<1>2. l \notin DOMAIN lib /\ TreeOK(db, lib, made) /\ Tree(lib) /\ DOMAIN db \subseteq DBs
  BY <1>1 DEF RegInv, TreeOK, DBsOK
<1>3. DOMAIN lib' = DOMAIN lib \cup {l} /\ lib'[l] = NewLibrary(d, type, id, name) /\ \A k \in DOMAIN lib : lib'[k] = lib[k]
  BY <1>1, <1>2 DEF Assign
<1>4. id \in Nat
  <2>1. Bounded(DOMAIN db[d].libraries)
    BY <1>1 DEF RegInv, RegistersOK, Registers
  <2> QED
    BY <2>1, NextIDFresh
<1>5. /\ DOMAIN lib'[l] = LibFields /\ lib'[l].owner = d /\ lib'[l].type = type /\ lib'[l].id = id
      /\ lib'[l].name = name /\ lib'[l].libraries = <<>> /\ lib'[l].names = <<>> /\ lib'[l].designs = <<>>
  BY <1>3 DEF NewLibrary, LibFields
<1>6. SameShape(lib, lib')
  BY <1>2, <1>3 DEF SameShape, TreeOK
<1>7. DOMAIN db' = DOMAIN db
  BY <1>1 DEF Register
<1> HIDE DEF id
<1>8. TreeOK(db', lib', made') /\ Grown(lib, lib', l)
  <2>1. Newcomer(db, lib, lib', l)
    BY <1>1, <1>2, <1>3, <1>4, <1>5 DEF Newcomer
  <2>2. TreeOK(db', lib', made \cup {l}) /\ Grown(lib, lib', l)
    BY <1>2, <1>6, <1>7, <2>1, TreeGrows
  <2> QED
    BY <1>1, <2>2
<1>9. DBIn(lib', l) = d
  BY <1>3, <1>5, <1>8, DBRoot DEF TreeOK, RootIn
<1>10. /\ DBsOK(db', dbs', made')
       /\ \A e \in DOMAIN db' : Registers(db'[e].libraries, Residents(lib', e), LibID(lib'))
       /\ DesignsOK(lib', design', made')
       /\ InstancesOK(lib', design', instances')
       /\ \A e \in DOMAIN db \ {d} : db'[e] = db[e]
       /\ db'[d].names = Assign(db[d].names, name, lib'[l].id)
  <2>1. DesignsStay(lib, lib') /\ lib'[l].id = NextID(db[d].libraries) /\ lib'[l].designs = <<>>
    BY <1>3, <1>5 DEF DesignsStay, id
  <2>2. LibraryAdded(d, l, name)
    BY <1>1, <1>3, <1>6, <1>8, <1>9, <2>1 DEF LibraryAdded
  <2> QED
    BY <2>2, RegisterOK
<1>11. TypesOK(lib')
  <2>1. RootIn(lib', l)
    BY <1>1, <1>5 DEF RootIn
  <2>2. ASSUME NEW k \in DOMAIN lib
        PROVE  ~RootIn(lib', k) => lib'[k].type = lib'[lib'[k].owner].type
    <3>1. lib'[k] = lib[k]
      BY <1>3
    <3>2. ~RootIn(lib, k) => lib[k].owner \in DOMAIN lib /\ lib'[lib[k].owner] = lib[lib[k].owner]
      BY <1>2, <1>3 DEF Tree
    <3> QED
      BY <3>1, <3>2 DEF RegInv, TypesOK, RootIn
  <2> QED
    BY <1>3, <2>1, <2>2 DEF TypesOK
<1>12. \A k \in DOMAIN lib : LibID(lib')[k] = LibID(lib)[k] /\ LibName(lib')[k] = LibName(lib)[k]
  BY <1>3, <1>8 DEF Grown, LibName
<1>13. /\ \A q : q # d => Children(lib', q) = Children(lib, q)
       /\ Children(lib', d) = Children(lib, d) \cup {l} /\ l \notin Children(lib, d)
  BY <1>2, <1>5, <1>8, ZenonT(30) DEF Grown, Children
<1>14. Children(lib', l) = {}
  <2>1. l # d
    BY <1>1
  <2>2. Children(lib, l) = {}
    BY <1>1, <1>2 DEF Children, TreeOK
  <2> QED
    BY <1>13, <2>1, <2>2
<1>15. \A k \in DOMAIN lib : k # d
  BY <1>2 DEF Tree
<1>16. RegistersOK(db', lib')
  <2>1. Registers(lib'[l].libraries, Children(lib', l), LibID(lib'))
    BY <1>5, <1>14, RegistersEmpty
  <2>2. ASSUME NEW k \in DOMAIN lib PROVE Registers(lib'[k].libraries, Children(lib', k), LibID(lib'))
    <3>1. Registers(lib[k].libraries, Children(lib, k), LibID(lib))
      BY DEF RegInv, RegistersOK
    <3>2. \A x \in Children(lib, k) : LibID(lib')[x] = LibID(lib)[x]
      BY <1>12 DEF Children
    <3>3. Registers(lib[k].libraries, Children(lib, k), LibID(lib'))
      BY <3>1, <3>2, RegistersKept
    <3> QED
      BY <1>3, <1>13, <1>15, <3>3
  <2> QED
    BY <1>3, <1>10, <2>1, <2>2 DEF RegistersOK
<1>17. ASSUME NameInv PROVE NamesOK(db', lib')
  <2>1. ASSUME NEW e \in DOMAIN db
        PROVE  Named(db'[e].names, RootNames, Children(lib', e), LibName(lib'), LibID(lib'))
    <3>1. Named(db[e].names, RootNames, Children(lib, e), LibName(lib), LibID(lib))
      BY <1>17 DEF NameInv, NamesOK
    <3>2. \A x \in Children(lib, e) : LibName(lib')[x] = LibName(lib)[x] /\ LibID(lib')[x] = LibID(lib)[x]
      BY <1>12 DEF Children
    <3>3. CASE e # d
      BY <1>10, <1>13, <3>1, <3>2, <3>3, NamedKept
    <3>4. CASE e = d
      <4>1. LibName(lib')[l] = name /\ LibID(lib')[l] = lib'[l].id
        BY <1>3, <1>5 DEF LibName, LibID
      <4>2. name \in RootNames => name \notin DOMAIN db[d].names
        <5> HAVE name \in RootNames
        <5>1. Registers(db[d].libraries, Residents(lib, d), LibID(lib))
          BY <1>1 DEF RegInv, RegistersOK
        <5>2. Children(lib, d) \subseteq Residents(lib, d) /\ None \notin Residents(lib, d)
          BY <1>2, DBRoot DEF Children, Residents, RootIn, Tree
        <5>3. name # NoName
          OBVIOUS
        <5> QED
          BY <1>1, <3>1, <3>4, <5>1, <5>2, <5>3, FindExact
      <4>3. LibName(lib')[l] \in RootNames => LibName(lib')[l] \notin DOMAIN db[e].names
        BY <3>4, <4>1, <4>2
      <4>4. l \notin Children(lib, e)
        BY <1>13, <3>4
      <4>5. Named(Assign(db[e].names, LibName(lib')[l], LibID(lib')[l]), RootNames, Children(lib, e) \cup {l},
                  LibName(lib'), LibID(lib'))
        BY <3>1, <3>2, <4>3, <4>4, NamedAssign, ZenonT(30)
      <4>6. Named(Assign(db[e].names, name, lib'[l].id), RootNames, Children(lib, e) \cup {l},
                  LibName(lib'), LibID(lib'))
        BY <4>1, <4>5
      <4> QED
        BY <1>10, <1>13, <3>4, <4>6
    <3> QED
      BY <3>3, <3>4
  <2>2. Named(lib'[l].names, NestedNames, Children(lib', l), LibName(lib'), LibID(lib'))
    BY <1>5, <1>14, NamedEmpty
  <2>3. ASSUME NEW k \in DOMAIN lib
        PROVE  Named(lib'[k].names, NestedNames, Children(lib', k), LibName(lib'), LibID(lib'))
    <3>1. Named(lib[k].names, NestedNames, Children(lib, k), LibName(lib), LibID(lib))
      BY <1>17 DEF NameInv, NamesOK
    <3>2. \A x \in Children(lib, k) : LibName(lib')[x] = LibName(lib)[x] /\ LibID(lib')[x] = LibID(lib)[x]
      BY <1>12 DEF Children
    <3>3. Named(lib[k].names, NestedNames, Children(lib, k), LibName(lib'), LibID(lib'))
      BY <3>1, <3>2, NamedKept
    <3> QED
      BY <1>3, <1>13, <1>15, <3>3
  <2>4. \A k \in DOMAIN lib' :
          lib'[k].name \in {NoName} \cup IF RootIn(lib', k) THEN RootNames ELSE NestedNames
    <3>1. RootIn(lib', l)
      BY <1>5 DEF RootIn
    <3>2. \A k \in DOMAIN lib : RootIn(lib', k) = RootIn(lib, k)
      BY <1>3 DEF RootIn
    <3>3. \A k \in DOMAIN lib : lib[k].name \in {NoName} \cup IF RootIn(lib, k) THEN RootNames ELSE NestedNames
      BY <1>17 DEF NameInv, NamesOK
    <3> QED
      BY <1>3, <1>5, <3>1, <3>2, <3>3
  <2> QED
    BY <1>3, <1>7, <2>1, <2>2, <2>3, <2>4 DEF NamesOK
<1> QED
  BY <1>1, <1>8, <1>10, <1>11, <1>16, <1>17 DEF RegInv, NameInv

LEMMA CreateNestedLibraryOK ==
  ASSUME RegInv, NEW l \in Libraries, NEW p \in Libraries, NEW name \in NestedNames \cup {NoName},
         CreateNestedLibrary(l, p, name)
  PROVE  RegInv' /\ (NamesApart /\ NameInv => NameInv')
<1> USE UniverseAssumption
<1> DEFINE d == DBIn(lib, p)
           id == NextID(db[d].libraries)
           a == Insert(lib[p].libraries, id, l)
           b == AddName(lib[p].names, name, id)
           new == NewLibrary(p, lib[p].type, id, name)
<1>1. /\ l \in Libraries \ made /\ p \in DOMAIN lib
      /\ Free(lib[p].names, lib[p].libraries, name) /\ Register(d, l, name)
      /\ dbs' = dbs /\ made' = made \cup {l} /\ failed' = failed
      /\ design' = design /\ instances' = instances
  BY GetDBIsDBIn DEF CreateNestedLibrary
<1>2. /\ l \notin DOMAIN lib /\ TreeOK(db, lib, made) /\ Tree(lib) /\ DOMAIN db \subseteq DBs
      /\ d \in DOMAIN db /\ p \notin DBs /\ l # p
      /\ \A k \in DOMAIN lib : DOMAIN lib[k] = LibFields
  BY <1>1, LivesInDB DEF RegInv, TreeOK, DBsOK
<1>3. lib' = Assign([lib EXCEPT ![p].libraries = a, ![p].names = b], l, new)
  <2>1. getDB(p) = d
    BY GetDBIsDBIn
  <2>2. lib' = Assign([lib EXCEPT ![p].libraries = Insert(@, id, l), ![p].names = AddName(@, name, id)], l, new)
    BY <2>1 DEF CreateNestedLibrary
  <2> QED
    BY <1>1, <1>2, <2>2 DEF LibFields
<1>4. id \in Nat /\ \A n \in DOMAIN db[d].libraries : n < id
  <2>1. Bounded(DOMAIN db[d].libraries)
    BY <1>2 DEF RegInv, RegistersOK, Registers
  <2> QED
    BY <2>1, NextIDFresh
<1>5. lib[p].id < id
  <2>1. p \in Residents(lib, d)
    BY <1>1 DEF Residents
  <2>2. LibID(lib)[p] = lib[p].id
    BY <1>1 DEF LibID
  <2>3. lib[p].id \in DOMAIN db[d].libraries
    BY <1>2, <2>1, <2>2 DEF RegInv, RegistersOK, Registers
  <2> QED
    BY <1>4, <2>3
<1>6. id \notin DOMAIN lib[p].libraries
  <2>1. Children(lib, p) \subseteq Residents(lib, d)
    <3> SUFFICES ASSUME NEW k \in Children(lib, p) PROVE k \in Residents(lib, d)
      OBVIOUS
    <3>1. k \in DOMAIN lib /\ lib[k].owner = p /\ ~RootIn(lib, k)
      BY <1>2 DEF Children, RootIn
    <3> QED
      BY <1>2, <3>1, DBNested DEF Residents
  <2>2. /\ Registers(lib[p].libraries, Children(lib, p), LibID(lib))
        /\ Registers(db[d].libraries, Residents(lib, d), LibID(lib))
    BY <1>1, <1>2 DEF RegInv, RegistersOK
  <2>3. DOMAIN lib[p].libraries \subseteq DOMAIN db[d].libraries
    BY <2>1, <2>2 DEF Registers
  <2>4. DOMAIN db[d].libraries \subseteq Nat
    BY <2>2 DEF Registers, Bounded
  <2> QED
    BY <1>4, <2>3, <2>4
<1> HIDE DEF d, id, a, b
<1>7. /\ DOMAIN new = LibFields /\ new.owner = p /\ new.type = lib[p].type /\ new.id = id
      /\ new.name = name /\ new.libraries = <<>> /\ new.names = <<>> /\ new.designs = <<>>
  BY DEF NewLibrary, LibFields
<1> HIDE DEF new
<1>8. /\ DOMAIN lib' = DOMAIN lib \cup {l} /\ lib'[l] = new
      /\ \A k \in DOMAIN lib \ {p} : lib'[k] = lib[k]
      /\ lib'[p] = [[lib[p] EXCEPT !.libraries = a] EXCEPT !.names = b]
  BY <1>1, <1>2, <1>3 DEF Assign
<1>9. /\ DOMAIN lib'[p] = LibFields /\ lib'[p].owner = lib[p].owner /\ lib'[p].type = lib[p].type
      /\ lib'[p].id = lib[p].id /\ lib'[p].name = lib[p].name /\ lib'[p].designs = lib[p].designs
      /\ lib'[p].libraries = a /\ lib'[p].names = b
  BY <1>1, <1>2, <1>8 DEF LibFields
<1>10. SameShape(lib, lib') /\ \A k \in DOMAIN lib : lib'[k].designs = lib[k].designs /\ lib'[k].name = lib[k].name
  BY <1>2, <1>8, <1>9 DEF SameShape
<1>11. DOMAIN db' = DOMAIN db
  BY <1>1 DEF Register
<1>12. TreeOK(db', lib', made') /\ Grown(lib, lib', l)
  <2>1. DOMAIN lib'[l] = LibFields /\ lib'[l].id \in Nat /\ lib'[l].owner \in DOMAIN lib /\ lib[lib'[l].owner].id < lib'[l].id
    BY <1>1, <1>4, <1>5, <1>7, <1>8
  <2>2. Newcomer(db, lib, lib', l)
    BY <1>1, <1>2, <1>8, <2>1 DEF Newcomer
  <2>3. TreeOK(db', lib', made \cup {l}) /\ Grown(lib, lib', l)
    BY <1>2, <1>10, <1>11, <2>2, TreeGrows
  <2> QED
    BY <1>1, <2>3
<1>13. DBIn(lib', l) = d
  <2>1. lib'[l].owner = p /\ ~RootIn(lib', l)
    BY <1>2, <1>7, <1>8 DEF RootIn
  <2>2. DBIn(lib', l) = DBIn(lib', p)
    BY <1>8, <1>12, <2>1, DBNested DEF TreeOK
  <2> QED
    BY <1>1, <1>12, <2>2 DEF Grown, d
<1>14. /\ DBsOK(db', dbs', made')
       /\ \A e \in DOMAIN db' : Registers(db'[e].libraries, Residents(lib', e), LibID(lib'))
       /\ DesignsOK(lib', design', made')
       /\ InstancesOK(lib', design', instances')
       /\ \A e \in DOMAIN db \ {d} : db'[e] = db[e]
       /\ db'[d].names = Assign(db[d].names, name, lib'[l].id)
  <2>1. lib'[l].id = NextID(db[d].libraries) /\ lib'[l].designs = <<>>
    BY <1>7, <1>8 DEF id
  <2>2. DesignsStay(lib, lib')
    BY <1>10 DEF DesignsStay
  <2>3. LibraryAdded(d, l, name)
    BY <1>1, <1>2, <1>8, <1>10, <1>12, <1>13, <2>1, <2>2 DEF LibraryAdded
  <2> QED
    BY <2>3, RegisterOK
<1>15. TypesOK(lib')
  <2>1. lib'[l].owner = p /\ lib'[l].type = lib'[p].type /\ ~RootIn(lib', l)
    BY <1>2, <1>7, <1>8, <1>9 DEF RootIn
  <2>2. ASSUME NEW k \in DOMAIN lib
        PROVE  ~RootIn(lib', k) => lib'[k].type = lib'[lib'[k].owner].type
    <3>1. lib'[k].owner = lib[k].owner /\ lib'[k].type = lib[k].type
      BY <1>8, <1>10 DEF SameShape
    <3>2. ~RootIn(lib, k) => lib[k].owner \in DOMAIN lib /\ lib'[lib[k].owner].type = lib[lib[k].owner].type
      BY <1>2, <1>8, <1>10 DEF SameShape, Tree
    <3> QED
      BY <3>1, <3>2 DEF RegInv, TypesOK, RootIn
  <2> QED
    BY <1>8, <2>1, <2>2 DEF TypesOK
<1>16. \A k \in DOMAIN lib : LibID(lib')[k] = LibID(lib)[k] /\ LibName(lib')[k] = LibName(lib)[k]
  BY <1>8, <1>10, <1>12 DEF Grown, LibName
<1>17. /\ \A q : q # p => Children(lib', q) = Children(lib, q)
       /\ Children(lib', p) = Children(lib, p) \cup {l} /\ l \notin Children(lib, p)
  <2>1. lib'[l].owner = p
    BY <1>7, <1>8
  <2>2. \A q : Children(lib', q) = IF p = q THEN Children(lib, q) \cup {l} ELSE Children(lib, q)
    BY <1>12, <2>1 DEF Grown
  <2>3. l \notin Children(lib, p)
    BY <1>2 DEF Children
  <2> QED
    BY <2>2, <2>3
<1>18. Children(lib', l) = {}
  <2>1. Children(lib, l) = {}
    BY <1>1, <1>2 DEF Children, TreeOK
  <2> QED
    BY <1>2, <1>17, <2>1
<1>19. /\ LibID(lib')[l] = id /\ LibName(lib')[l] = name
  BY <1>7, <1>8 DEF LibID, LibName
<1>20. /\ \A q : \A x \in Children(lib, q) : LibName(lib')[x] = LibName(lib)[x] /\ LibID(lib')[x] = LibID(lib)[x]
  BY <1>16 DEF Children
<1>21. RegistersOK(db', lib')
  <2>1. Registers(lib'[l].libraries, Children(lib', l), LibID(lib'))
    BY <1>7, <1>8, <1>18, RegistersEmpty
  <2>2. ASSUME NEW k \in DOMAIN lib PROVE Registers(lib'[k].libraries, Children(lib', k), LibID(lib'))
    <3>1. Registers(lib[k].libraries, Children(lib, k), LibID(lib))
      BY DEF RegInv, RegistersOK
    <3>2. \A x \in Children(lib, k) : LibID(lib')[x] = LibID(lib)[x]
      BY <1>20
    <3>3. CASE k # p
      <4>1. Registers(lib[k].libraries, Children(lib, k), LibID(lib'))
        BY <3>1, <3>2, RegistersKept
      <4> QED
        BY <1>8, <1>17, <3>3, <4>1
    <3>4. CASE k = p
      <4>1. l \notin Children(lib, k) /\ id \notin DOMAIN lib[k].libraries
        BY <1>6, <1>17, <3>4
      <4>2. Registers(Insert(lib[k].libraries, id, l), Children(lib, k) \cup {l}, LibID(lib'))
        BY <1>4, <1>19, <3>1, <3>2, <4>1, RegistersInsert
      <4> QED
        BY <1>9, <1>17, <3>4, <4>2 DEF a
    <3> QED
      BY <3>3, <3>4
  <2> QED
    BY <1>8, <1>14, <2>1, <2>2 DEF RegistersOK
<1>22. ASSUME NamesApart, NameInv PROVE NamesOK(db', lib')
  <2>1. ASSUME NEW e \in DOMAIN db
        PROVE  Named(db'[e].names, RootNames, Children(lib', e), LibName(lib'), LibID(lib'))
    <3>1. Named(db[e].names, RootNames, Children(lib, e), LibName(lib), LibID(lib))
      BY <1>22 DEF NameInv, NamesOK
    <3>2. \A x \in Children(lib, e) : LibName(lib')[x] = LibName(lib)[x] /\ LibID(lib')[x] = LibID(lib)[x]
      BY <1>20
    <3>3. Named(db[e].names, RootNames, Children(lib, e), LibName(lib'), LibID(lib'))
      BY <3>1, <3>2, NamedKept
    <3>4. Children(lib', e) = Children(lib, e)
      BY <1>2, <1>17
    <3>5. CASE e # d
      BY <1>14, <3>3, <3>4, <3>5
    <3>6. CASE e = d
      <4>1. name \notin RootNames
        BY <1>22 DEF NamesApart
      <4>2. Named(Assign(db[e].names, name, lib'[l].id), RootNames, Children(lib, e), LibName(lib'), LibID(lib'))
        BY <3>3, <4>1, NamedOther
      <4> QED
        BY <1>14, <3>4, <3>6, <4>2
    <3> QED
      BY <3>5, <3>6
  <2>2. Named(lib'[l].names, NestedNames, Children(lib', l), LibName(lib'), LibID(lib'))
    BY <1>7, <1>8, <1>18, NamedEmpty
  <2>3. ASSUME NEW k \in DOMAIN lib
        PROVE  Named(lib'[k].names, NestedNames, Children(lib', k), LibName(lib'), LibID(lib'))
    <3>1. Named(lib[k].names, NestedNames, Children(lib, k), LibName(lib), LibID(lib))
      BY <1>22 DEF NameInv, NamesOK
    <3>2. \A x \in Children(lib, k) : LibName(lib')[x] = LibName(lib)[x] /\ LibID(lib')[x] = LibID(lib)[x]
      BY <1>20
    <3>3. CASE k # p
      <4>1. Named(lib[k].names, NestedNames, Children(lib, k), LibName(lib'), LibID(lib'))
        BY <3>1, <3>2, NamedKept
      <4> QED
        BY <1>8, <1>17, <3>3, <4>1
    <3>4. CASE k = p /\ name = NoName
      <4>1. LibName(lib')[l] \notin NestedNames
        BY <1>19, <3>4
      <4>2. Named(lib[k].names, NestedNames, Children(lib, k) \cup {l}, LibName(lib'), LibID(lib'))
        BY <3>1, <3>2, <4>1, NamedNameless
      <4> QED
        BY <1>9, <1>17, <3>4, <4>2 DEF b, AddName
    <3>5. CASE k = p /\ name # NoName
      <4>1. name \in NestedNames /\ None \notin Children(lib, p)
        BY <1>2, <3>5 DEF Children, Tree
      <4>2. Registers(lib[p].libraries, Children(lib, p), LibID(lib))
        BY <1>1 DEF RegInv, RegistersOK
      <4>3. name \notin DOMAIN lib[p].names
        BY <1>1, <3>1, <3>5, <4>1, <4>2, FindExact
      <4>4. LibName(lib')[l] \in NestedNames => LibName(lib')[l] \notin DOMAIN lib[k].names
        BY <1>19, <3>5, <4>3
      <4>5. l \notin Children(lib, k)
        BY <1>17, <3>5
      <4>6. Named(Assign(lib[k].names, LibName(lib')[l], LibID(lib')[l]), NestedNames, Children(lib, k) \cup {l},
                  LibName(lib'), LibID(lib'))
        BY <3>1, <3>2, <4>4, <4>5, NamedAssign, ZenonT(30)
      <4>7. lib'[k].names = Assign(lib[k].names, LibName(lib')[l], LibID(lib')[l])
        BY <1>9, <1>19, <3>5 DEF b, AddName
      <4>8. Children(lib', k) = Children(lib, k) \cup {l}
        BY <1>17, <3>5
      <4> QED
        BY <4>6, <4>7, <4>8
    <3> QED
      BY <3>3, <3>4, <3>5
  <2>4. \A k \in DOMAIN lib' :
          lib'[k].name \in {NoName} \cup IF RootIn(lib', k) THEN RootNames ELSE NestedNames
    <3>1. ~RootIn(lib', l) /\ lib'[l].name = name
      BY <1>2, <1>7, <1>8 DEF RootIn
    <3>2. \A k \in DOMAIN lib : RootIn(lib', k) = RootIn(lib, k) /\ lib'[k].name = lib[k].name
      BY <1>8, <1>10 DEF RootIn, SameShape
    <3>3. \A k \in DOMAIN lib : lib[k].name \in {NoName} \cup IF RootIn(lib, k) THEN RootNames ELSE NestedNames
      BY <1>22 DEF NameInv, NamesOK
    <3> QED
      BY <1>8, <3>1, <3>2, <3>3
  <2> QED
    BY <1>8, <1>11, <2>1, <2>2, <2>3, <2>4 DEF NamesOK
<1> QED
  BY <1>1, <1>12, <1>14, <1>15, <1>21, <1>22 DEF RegInv, NameInv

(***************************************************************************)
(* Steps that leave the tree alone: renames, designs and instances.        *)
(***************************************************************************)
SameTree ==
  /\ dbs' = dbs /\ made \subseteq made' /\ made' \cap DBs = made \cap DBs
  /\ DOMAIN db' = DOMAIN db
  /\ \A e \in DOMAIN db : /\ DOMAIN db'[e] = DBFields /\ db'[e].id = db[e].id
                          /\ db'[e].libraries = db[e].libraries
  /\ DOMAIN lib' = DOMAIN lib /\ SameShape(lib, lib')
  /\ \A k \in DOMAIN lib : lib'[k].libraries = lib[k].libraries

LEMMA SameTreeOK ==
  ASSUME RegInv, SameTree
  PROVE  /\ DBsOK(db', dbs', made') /\ TreeOK(db', lib', made')
         /\ RegistersOK(db', lib') /\ TypesOK(lib')
         /\ \A k \in DOMAIN lib : DBIn(lib', k) = DBIn(lib, k) /\ LibID(lib')[k] = LibID(lib)[k]
         /\ \A q : Children(lib', q) = Children(lib, q)
<1> USE UniverseAssumption
<1>1. TreeOK(db, lib, made) /\ Tree(lib) /\ TypesOK(lib)
  BY DEF RegInv, TreeOK
<1>2. DOMAIN db' = DOMAIN db /\ DOMAIN lib' = DOMAIN lib /\ SameShape(lib, lib') /\ made \subseteq made'
  BY DEF SameTree
<1>3. NestedGo(lib, {}) /\ OwnersStay(db, lib, db', lib') /\ DOMAIN lib' = DOMAIN lib \ {}
  BY <1>2 DEF NestedGo, OwnersStay
<1>4. TreeOK(db', lib', made) /\ Shrunk(lib, lib', {})
  BY <1>1, <1>2, <1>3, TreeShrinks
<1>5. TreeOK(db', lib', made') /\ Tree(lib')
  BY <1>2, <1>4 DEF TreeOK
<1>6. TypesOK(lib')
  BY <1>1, <1>2, <1>5, TypesShrink
<1>7. /\ \A k \in DOMAIN lib : DBIn(lib', k) = DBIn(lib, k) /\ LibID(lib')[k] = LibID(lib)[k]
      /\ \A q : Children(lib', q) = Children(lib, q)
      /\ \A e : Residents(lib', e) = Residents(lib, e)
  BY <1>2, <1>4 DEF Shrunk
<1>8. DBsOK(db', dbs', made')
  <2>1. Registers(dbs, DOMAIN db, DBID(db))
    BY DEF RegInv, DBsOK
  <2>2. \A e \in DOMAIN db : DBID(db')[e] = DBID(db)[e]
    BY DEF SameTree, DBID
  <2>3. Registers(dbs', DOMAIN db', DBID(db'))
    BY <1>2, <2>1, <2>2, RegistersKept DEF SameTree
  <2> QED
    BY <2>3 DEF RegInv, DBsOK, SameTree
<1>9. RegistersOK(db', lib')
  <2>1. ASSUME NEW e \in DOMAIN db PROVE Registers(db'[e].libraries, Residents(lib', e), LibID(lib'))
    <3>1. Registers(db[e].libraries, Residents(lib, e), LibID(lib))
      BY DEF RegInv, RegistersOK
    <3>2. \A x \in Residents(lib, e) : LibID(lib')[x] = LibID(lib)[x]
      BY <1>7 DEF Residents
    <3>3. Registers(db[e].libraries, Residents(lib, e), LibID(lib'))
      BY <3>1, <3>2, RegistersKept
    <3> QED
      BY <1>7, <3>3 DEF SameTree
  <2>2. ASSUME NEW k \in DOMAIN lib PROVE Registers(lib'[k].libraries, Children(lib', k), LibID(lib'))
    <3>1. Registers(lib[k].libraries, Children(lib, k), LibID(lib))
      BY DEF RegInv, RegistersOK
    <3>2. \A x \in Children(lib, k) : LibID(lib')[x] = LibID(lib)[x]
      BY <1>7 DEF Children
    <3>3. Registers(lib[k].libraries, Children(lib, k), LibID(lib'))
      BY <3>1, <3>2, RegistersKept
    <3> QED
      BY <1>7, <3>3 DEF SameTree
  <2> QED
    BY <1>2, <2>1, <2>2 DEF RegistersOK
<1> QED
  BY <1>5, <1>6, <1>7, <1>8, <1>9

(* No name changes. *)
LEMMA SameNamesOK ==
  ASSUME RegInv, SameTree, NameInv, db' = db,
         \A k \in DOMAIN lib : lib'[k].name = lib[k].name /\ lib'[k].names = lib[k].names
  PROVE  NamesOK(db', lib')
<1>1. /\ \A q : Children(lib', q) = Children(lib, q)
      /\ \A k \in DOMAIN lib : LibID(lib')[k] = LibID(lib)[k]
      /\ DOMAIN lib' = DOMAIN lib /\ SameShape(lib, lib')
  BY SameTreeOK DEF SameTree
<1>2. \A k \in DOMAIN lib : LibName(lib')[k] = LibName(lib)[k]
  BY <1>1 DEF LibName
<1>3. \A q : \A x \in Children(lib, q) : LibName(lib')[x] = LibName(lib)[x] /\ LibID(lib')[x] = LibID(lib)[x]
  BY <1>1, <1>2 DEF Children
<1>4. ASSUME NEW e \in DOMAIN db
      PROVE  Named(db'[e].names, RootNames, Children(lib', e), LibName(lib'), LibID(lib'))
  <2>1. Named(db[e].names, RootNames, Children(lib, e), LibName(lib), LibID(lib))
    BY DEF NameInv, NamesOK
  <2>2. Named(db[e].names, RootNames, Children(lib, e), LibName(lib'), LibID(lib'))
    BY <1>3, <2>1, NamedKept
  <2> QED
    BY <1>1, <2>2
<1>5. ASSUME NEW p \in DOMAIN lib
      PROVE  Named(lib'[p].names, NestedNames, Children(lib', p), LibName(lib'), LibID(lib'))
  <2>1. Named(lib[p].names, NestedNames, Children(lib, p), LibName(lib), LibID(lib))
    BY DEF NameInv, NamesOK
  <2>2. Named(lib[p].names, NestedNames, Children(lib, p), LibName(lib'), LibID(lib'))
    BY <1>3, <2>1, NamedKept
  <2> QED
    BY <1>1, <2>2
<1>6. ASSUME NEW k \in DOMAIN lib
      PROVE  lib'[k].name \in {NoName} \cup IF RootIn(lib', k) THEN RootNames ELSE NestedNames
  <2>1. lib'[k].name = lib[k].name /\ (RootIn(lib', k) <=> RootIn(lib, k))
    BY <1>1 DEF SameShape, RootIn
  <2>2. lib[k].name \in {NoName} \cup IF RootIn(lib, k) THEN RootNames ELSE NestedNames
    BY DEF NameInv, NamesOK
  <2> QED
    BY <2>1, <2>2
<1> QED
  BY <1>1, <1>4, <1>5, <1>6 DEF NamesOK

LEMMA CreateInstanceOK ==
  ASSUME NoHabits, RegInv, NEW d \in Designs, NEW m \in Designs, CreateInstance(d, m)
  PROVE  RegInv' /\ (NameInv => NameInv')
<1> DEFINE new == [design |-> d, model |-> m]
<1>1. /\ dbs' = dbs /\ db' = db /\ lib' = lib /\ design' = design /\ made' = made /\ failed' = failed
      /\ instances' = instances \cup {new}
  BY DEF CreateInstance
<1>2. /\ new.design \in DOMAIN design /\ ~design[new.design].primitive
      /\ new.model \in DOMAIN design /\ design[new.model].primitive
      /\ DBIn(lib, design[new.model].library) \in {DB0, DBIn(lib, design[new.design].library)}
  BY GetDBIsDBIn DEF CreateInstance, NoHabits
<1> HIDE DEF new
<1>3. InstancesOK(lib, design, instances')
  BY <1>1, <1>2 DEF RegInv, InstancesOK
<1> QED
  BY <1>1, <1>3 DEF RegInv, NameInv

(* Only the designs of library l change. *)
LEMMA DesignsOnly ==
  ASSUME RegInv, NEW l \in DOMAIN lib, NEW f, lib' = [lib EXCEPT ![l].designs = f],
         db' = db, dbs' = dbs, made \subseteq made', made' \cap DBs = made \cap DBs
  PROVE  /\ SameTree /\ (NameInv => NamesOK(db', lib'))
         /\ DOMAIN lib' = DOMAIN lib /\ lib'[l].designs = f
         /\ \A k \in DOMAIN lib \ {l} : lib'[k].designs = lib[k].designs
         /\ \A k \in DOMAIN lib : lib'[k].type = lib[k].type
<1>1. \A k \in DOMAIN lib : DOMAIN lib[k] = LibFields
  BY DEF RegInv, TreeOK
<1>2. DOMAIN lib' = DOMAIN lib /\ lib'[l] = [lib[l] EXCEPT !.designs = f] /\ \A k \in DOMAIN lib \ {l} : lib'[k] = lib[k]
  OBVIOUS
<1>3. /\ DOMAIN lib'[l] = LibFields /\ lib'[l].owner = lib[l].owner /\ lib'[l].type = lib[l].type
      /\ lib'[l].id = lib[l].id /\ lib'[l].name = lib[l].name /\ lib'[l].libraries = lib[l].libraries
      /\ lib'[l].names = lib[l].names /\ lib'[l].designs = f
  BY <1>1, <1>2 DEF LibFields
<1>4. SameShape(lib, lib')
  BY <1>1, <1>2, <1>3 DEF SameShape
<1>5. \A k \in DOMAIN lib : lib'[k].libraries = lib[k].libraries
  BY <1>2, <1>3
<1>6. SameTree
  BY <1>2, <1>4, <1>5 DEF SameTree, RegInv, DBsOK
<1>7. \A k \in DOMAIN lib : lib'[k].name = lib[k].name /\ lib'[k].names = lib[k].names
  BY <1>2, <1>3
<1>8. NameInv => NamesOK(db', lib')
  BY <1>6, <1>7, SameNamesOK
<1> QED
  BY <1>2, <1>3, <1>6, <1>8

LEMMA CreateDesignOK ==
  ASSUME RegInv, NEW d \in Designs, NEW l \in Libraries, CreateDesign(d, l)
  PROVE  RegInv' /\ (NameInv => NameInv')
<1> USE UniverseAssumption
<1> DEFINE id == NextID(lib[l].designs)
           f == Insert(lib[l].designs, id, d)
           new == [library |-> l, id |-> id, primitive |-> lib[l].type = "Primitives"]
<1>1. /\ d \notin made /\ l \in DOMAIN lib /\ design' = Assign(design, d, new)
      /\ dbs' = dbs /\ db' = db /\ instances' = instances /\ failed' = failed /\ made' = made \cup {d}
  BY DEF CreateDesign
<1>2. lib' = [lib EXCEPT ![l].designs = f]
  <2>1. DOMAIN lib[l] = LibFields
    BY <1>1 DEF RegInv, TreeOK
  <2> QED
    BY <1>1, <2>1 DEF CreateDesign, LibFields
<1>3. id \in Nat /\ id \notin DOMAIN lib[l].designs
  <2>1. Bounded(DOMAIN lib[l].designs)
    BY <1>1 DEF RegInv, DesignsOK, Registers
  <2> QED
    BY <2>1, NextIDFresh DEF Bounded
<1>4. new.library = l /\ new.id = id /\ new.primitive = (lib[l].type = "Primitives")
  OBVIOUS
<1> HIDE DEF id, f, new
<1>5. made \subseteq made' /\ made' \cap DBs = made \cap DBs
  BY <1>1
<1>6. /\ SameTree /\ (NameInv => NamesOK(db', lib'))
      /\ DOMAIN lib' = DOMAIN lib /\ lib'[l].designs = f
      /\ \A k \in DOMAIN lib \ {l} : lib'[k].designs = lib[k].designs
      /\ \A k \in DOMAIN lib : lib'[k].type = lib[k].type
  BY <1>1, <1>2, <1>5, DesignsOnly
<1>7. d \notin DOMAIN design
  BY <1>1 DEF RegInv, DesignsOK
<1>8. DOMAIN design' = DOMAIN design \cup {d} /\ design'[d] = new /\ \A x \in DOMAIN design : design'[x] = design[x]
  BY <1>1, <1>7 DEF Assign
<1>9. DesignsOK(lib', design', made')
  <2>1. DOMAIN design' \subseteq Designs \cap made'
    BY <1>1, <1>8 DEF RegInv, DesignsOK
  <2>2. \A x \in DOMAIN design' : /\ design'[x].library \in DOMAIN lib'
                                  /\ design'[x].primitive = (lib'[design'[x].library].type = "Primitives")
    <3>1. ASSUME NEW x \in DOMAIN design
          PROVE  /\ design'[x].library \in DOMAIN lib'
                 /\ design'[x].primitive = (lib'[design'[x].library].type = "Primitives")
      <4>1. design[x].library \in DOMAIN lib /\ design[x].primitive = (lib[design[x].library].type = "Primitives")
        BY DEF RegInv, DesignsOK
      <4> QED
        BY <1>6, <1>8, <4>1
    <3>2. design'[d].library \in DOMAIN lib' /\ design'[d].primitive = (lib'[design'[d].library].type = "Primitives")
      BY <1>1, <1>4, <1>6, <1>8
    <3> QED
      BY <1>8, <3>1, <3>2
  <2>3. ASSUME NEW k \in DOMAIN lib PROVE Registers(lib'[k].designs, Contents(design', k), DesignID(design'))
    <3>1. Registers(lib[k].designs, Contents(design, k), DesignID(design))
      BY DEF RegInv, DesignsOK
    <3>2. \A x \in Contents(design, k) : DesignID(design')[x] = DesignID(design)[x]
      BY <1>8 DEF DesignID, Contents
    <3>3. CASE k # l
      <4>1. Contents(design', k) = Contents(design, k)
        BY <1>4, <1>8, <3>3 DEF Contents
      <4>2. Registers(lib[k].designs, Contents(design, k), DesignID(design'))
        BY <3>1, <3>2, RegistersKept
      <4> QED
        BY <1>6, <3>3, <4>1, <4>2
    <3>4. CASE k = l
      <4>1. Contents(design', k) = Contents(design, k) \cup {d} /\ d \notin Contents(design, k)
        BY <1>4, <1>7, <1>8, <3>4 DEF Contents
      <4>2. DesignID(design')[d] = id /\ id \notin DOMAIN lib[k].designs
        BY <1>3, <1>4, <1>8, <3>4 DEF DesignID
      <4>3. Registers(Insert(lib[k].designs, id, d), Contents(design, k) \cup {d}, DesignID(design'))
        BY <1>3, <3>1, <3>2, <4>1, <4>2, RegistersInsert
      <4> QED
        BY <1>6, <3>4, <4>1, <4>3 DEF f
    <3> QED
      BY <3>3, <3>4
  <2> QED
    BY <1>6, <2>1, <2>2, <2>3 DEF DesignsOK
<1>10. InstancesOK(lib', design', instances')
  <2>1. \A x \in DOMAIN design : DBIn(lib', design[x].library) = DBIn(lib, design[x].library)
    BY <1>6, SameTreeOK DEF RegInv, DesignsOK
  <2>2. ASSUME NEW i \in instances
        PROVE  /\ i.design \in DOMAIN design' /\ ~design'[i.design].primitive
               /\ i.model \in DOMAIN design' /\ design'[i.model].primitive
               /\ DBIn(lib', design'[i.model].library) \in {DB0, DBIn(lib', design'[i.design].library)}
    BY <1>8, <2>1 DEF RegInv, InstancesOK
  <2> QED
    BY <1>1, <2>2 DEF InstancesOK
<1> QED
  BY <1>1, <1>6, <1>9, <1>10, SameTreeOK DEF RegInv, NameInv

LEMMA DestroyDesignOK ==
  ASSUME NoHabits, RegInv, NEW d \in Designs, DestroyDesign(d)
  PROVE  RegInv' /\ (NameInv => NameInv')
<1> DEFINE l == design[d].library
           f == Without(lib[l].designs, {design[d].id})
<1>1. /\ d \in DOMAIN design /\ l \in DOMAIN lib /\ dbs' = dbs /\ db' = db /\ made' = made /\ failed' = failed
      /\ design' = Without(design, {d}) /\ instances' = {i \in instances : i.design \notin {d}}
      /\ \A i \in instances : i.model # d
  BY DestroyDesignsFine DEF DestroyDesign, MayDestroy, NoHabits, RegInv, DesignsOK
<1>2. lib' = [lib EXCEPT ![l].designs = f]
  <2>1. DOMAIN lib[l] = LibFields
    BY <1>1 DEF RegInv, TreeOK
  <2> QED
    BY <1>1, <2>1 DEF DestroyDesign, LibFields
<1> HIDE DEF f, l
<1>3. made \subseteq made' /\ made' \cap DBs = made \cap DBs
  BY <1>1
<1>4. /\ SameTree /\ (NameInv => NamesOK(db', lib'))
      /\ DOMAIN lib' = DOMAIN lib /\ lib'[l].designs = f
      /\ \A k \in DOMAIN lib \ {l} : lib'[k].designs = lib[k].designs
      /\ \A k \in DOMAIN lib : lib'[k].type = lib[k].type
  BY <1>1, <1>2, <1>3, DesignsOnly
<1>5. DOMAIN design' = DOMAIN design \ {d} /\ \A x \in DOMAIN design' : design'[x] = design[x]
  BY <1>1 DEF Without
<1>6. DesignsOK(lib', design', made')
  <2>1. DOMAIN design' \subseteq Designs \cap made'
    BY <1>1, <1>5 DEF RegInv, DesignsOK
  <2>2. ASSUME NEW x \in DOMAIN design'
        PROVE  /\ design'[x].library \in DOMAIN lib'
               /\ design'[x].primitive = (lib'[design'[x].library].type = "Primitives")
    <3>1. x \in DOMAIN design /\ design'[x] = design[x]
      BY <1>5
    <3>2. design[x].library \in DOMAIN lib /\ design[x].primitive = (lib[design[x].library].type = "Primitives")
      BY <3>1 DEF RegInv, DesignsOK
    <3> QED
      BY <1>4, <3>1, <3>2
  <2>3. ASSUME NEW k \in DOMAIN lib PROVE Registers(lib'[k].designs, Contents(design', k), DesignID(design'))
    <3>1. Registers(lib[k].designs, Contents(design, k), DesignID(design))
      BY DEF RegInv, DesignsOK
    <3>2. Contents(design', k) = Contents(design, k) \ {d}
      BY <1>5 DEF Contents
    <3>3. \A x \in Contents(design, k) \ {d} : DesignID(design')[x] = DesignID(design)[x]
      BY <1>5 DEF DesignID, Contents
    <3>4. CASE k # l
      <4>1. Contents(design, k) \ {d} = Contents(design, k)
        BY <1>1, <3>4 DEF Contents, l
      <4>2. Registers(lib[k].designs, Contents(design, k), DesignID(design'))
        BY <3>1, <3>3, <4>1, RegistersKept
      <4> QED
        BY <1>4, <3>2, <3>4, <4>1, <4>2
    <3>5. CASE k = l
      <4> DEFINE K == {design[d].id}
      <4>1. d \in Contents(design, k) /\ DesignID(design)[d] = design[d].id
        BY <1>1, <3>5 DEF Contents, DesignID, l
      <4>2. \A x \in Contents(design, k) \cap {d} : DesignID(design)[x] \in K
        BY <4>1
      <4>3. \A x \in Contents(design, k) \ {d} : DesignID(design)[x] \notin K
        BY <3>1, <4>1, IDsDiffer
      <4>4. Registers(Without(lib[k].designs, K), Contents(design, k) \ {d}, DesignID(design'))
        <5> HIDE DEF K
        <5> QED
          BY <3>1, <3>3, <4>2, <4>3, RegistersWithout
      <4> QED
        BY <1>4, <3>2, <3>5, <4>4 DEF f
    <3> QED
      BY <3>4, <3>5
  <2> QED
    BY <1>4, <2>1, <2>2, <2>3 DEF DesignsOK
<1>7. InstancesOK(lib', design', instances')
  <2>1. \A x \in DOMAIN design \ {d} : DBIn(lib', design[x].library) = DBIn(lib, design[x].library)
    BY <1>4, SameTreeOK DEF RegInv, DesignsOK
  <2>2. \A i \in instances : i.model \in {d} => i.design \in {d}
    BY <1>1
  <2>3. InstancesOK(lib, design, instances)
    BY DEF RegInv
  <2>4. InstancesOK(lib', Without(design, {d}), {i \in instances : i.design \notin {d}})
    BY <2>1, <2>2, <2>3, InstancesShrink
  <2> QED
    BY <1>1, <2>4
<1> QED
  BY <1>1, <1>4, <1>6, <1>7, SameTreeOK DEF RegInv, NameInv

(***************************************************************************)
(* Renames.                                                                *)
(***************************************************************************)
LEMMA RenamedOK ==
  ASSUME RegInv, SameTree, DesignsStay(lib, lib'), design' = design, instances' = instances,
         made' = made, "dead model" \notin failed'
  PROVE  RegInv'
<1>1. DesignsOK(lib', design', made')
  <2>1. ASSUME NEW x \in DOMAIN design
        PROVE  /\ design[x].library \in DOMAIN lib'
               /\ design[x].primitive = (lib'[design[x].library].type = "Primitives")
    <3>1. design[x].library \in DOMAIN lib /\ design[x].primitive = (lib[design[x].library].type = "Primitives")
      BY DEF RegInv, DesignsOK
    <3> QED
      BY <3>1 DEF SameTree, SameShape
  <2> QED
    BY <2>1 DEF RegInv, DesignsOK, DesignsStay, SameTree
<1>2. InstancesOK(lib', design', instances')
  <2>1. \A x \in DOMAIN design : DBIn(lib', design[x].library) = DBIn(lib, design[x].library)
    BY SameTreeOK DEF RegInv, DesignsOK
  <2> QED
    BY <2>1 DEF RegInv, InstancesOK
<1> QED
  BY <1>1, <1>2, SameTreeOK DEF RegInv

(* The name of l is all that changes in the eyes of the other owners. *)
OnlyRenamed(l, name) ==
  /\ l \in DOMAIN lib /\ SameTree
  /\ lib'[l].name = name /\ \A k \in DOMAIN lib \ {l} : lib'[k].name = lib[k].name
  /\ \A k \in DOMAIN lib : k # lib[l].owner => lib'[k].names = lib[k].names
  /\ \A e \in DOMAIN db : e # lib[l].owner => db'[e].names = db[e].names

LEMMA RenameFrame ==
  ASSUME RegInv, NameInv, NEW l, NEW name, OnlyRenamed(l, name)
  PROVE  /\ \A q : Children(lib', q) = Children(lib, q)
         /\ \A q : \A x \in Children(lib, q) \ {l} : LibName(lib')[x] = LibName(lib)[x]
         /\ LibName(lib')[l] = name /\ LibName(lib)[l] = lib[l].name
         /\ \A q : \A x \in Children(lib, q) : LibID(lib')[x] = LibID(lib)[x]
         /\ \A e \in DOMAIN db : e # lib[l].owner =>
              Named(db'[e].names, RootNames, Children(lib', e), LibName(lib'), LibID(lib'))
         /\ \A k \in DOMAIN lib : k # lib[l].owner =>
              Named(lib'[k].names, NestedNames, Children(lib', k), LibName(lib'), LibID(lib'))
<1>1. /\ \A q : Children(lib', q) = Children(lib, q)
      /\ \A q : \A x \in Children(lib, q) : LibID(lib')[x] = LibID(lib)[x]
  BY SameTreeOK DEF OnlyRenamed, Children
<1>2. /\ \A q : \A x \in Children(lib, q) \ {l} : LibName(lib')[x] = LibName(lib)[x]
      /\ LibName(lib')[l] = name /\ LibName(lib)[l] = lib[l].name
  BY DEF OnlyRenamed, SameTree, LibName, Children
<1>3. ASSUME NEW q, q # lib[l].owner
      PROVE  \A x \in Children(lib, q) : LibName(lib')[x] = LibName(lib)[x] /\ LibID(lib')[x] = LibID(lib)[x]
  <2>1. l \notin Children(lib, q)
    BY <1>3 DEF Children
  <2> QED
    BY <1>1, <1>2, <2>1
<1>4. ASSUME NEW e \in DOMAIN db, e # lib[l].owner
      PROVE  Named(db'[e].names, RootNames, Children(lib', e), LibName(lib'), LibID(lib'))
  <2>1. Named(db[e].names, RootNames, Children(lib, e), LibName(lib), LibID(lib))
    BY DEF NameInv, NamesOK
  <2>2. \A x \in Children(lib, e) : LibName(lib')[x] = LibName(lib)[x] /\ LibID(lib')[x] = LibID(lib)[x]
    BY <1>3, <1>4
  <2>3. Named(db[e].names, RootNames, Children(lib, e), LibName(lib'), LibID(lib'))
    BY <2>1, <2>2, NamedKept
  <2> QED
    BY <1>1, <1>4, <2>3 DEF OnlyRenamed
<1>5. ASSUME NEW k \in DOMAIN lib, k # lib[l].owner
      PROVE  Named(lib'[k].names, NestedNames, Children(lib', k), LibName(lib'), LibID(lib'))
  <2>1. Named(lib[k].names, NestedNames, Children(lib, k), LibName(lib), LibID(lib))
    BY DEF NameInv, NamesOK
  <2>2. \A x \in Children(lib, k) : LibName(lib')[x] = LibName(lib)[x] /\ LibID(lib')[x] = LibID(lib)[x]
    BY <1>3, <1>5
  <2>3. Named(lib[k].names, NestedNames, Children(lib, k), LibName(lib'), LibID(lib'))
    BY <2>1, <2>2, NamedKept
  <2> QED
    BY <1>1, <1>5, <2>3 DEF OnlyRenamed
<1> QED
  BY <1>1, <1>2, <1>4, <1>5

(* The table of the owner: what the rename needs and what it leaves. *)
LEMMA OwnerRenames ==
  ASSUME RegInv, NEW l \in DOMAIN lib, NEW names, NEW N, NEW f, NEW T,
         Named(names, N, Children(lib, lib[l].owner), LibName(lib), LibID(lib)),
         Registers(f, T, LibID(lib)), Children(lib, lib[l].owner) \subseteq T, None \notin T,
         NoName \notin N, lib[l].name \in N \cup {NoName},
         NEW name \in N \cup {NoName}, Free(names, f, name),
         NEW mm, \A x \in Children(lib, lib[l].owner) \ {l} : mm[x] = LibName(lib)[x], mm[l] = name
  PROVE  /\ RenameAsserts(names, lib[l].name)
         /\ Named(Rename(names, lib[l].id, lib[l].name, name), N, Children(lib, lib[l].owner), mm, LibID(lib))
<1> DEFINE S == Children(lib, lib[l].owner)
<1>1. l \in S /\ LibName(lib)[l] = lib[l].name /\ LibID(lib)[l] = lib[l].id
  BY DEF Children, LibName, LibID
<1>2. \A y \in S : LibID(lib)[y] = LibID(lib)[l] => y = l
  BY <1>1, IDsDiffer
<1>3. name \in N => name \notin DOMAIN names
  BY FindExact
<1> HIDE DEF S
<1>4. Named(names, N, S, LibName(lib), LibID(lib)) /\ \A y \in S \ {l} : mm[y] = LibName(lib)[y]
  BY DEF S
<1>5. LibName(lib)[l] \in N \cup {NoName}
  BY <1>1
<1>6. /\ RenameAsserts(names, LibName(lib)[l])
      /\ Named(Rename(names, LibID(lib)[l], LibName(lib)[l], name), N, S, mm, LibID(lib))
  BY <1>1, <1>2, <1>3, <1>4, <1>5, NamedRename
<1> QED
  BY <1>1, <1>6 DEF S

LEMMA RenameRootOK ==
  ASSUME RegInv, NEW l, NEW name \in RootNames \cup {NoName}, SetLibraryName(l, name), Root(l)
  PROVE  RegInv' /\ (NameInv => NameInv')
<1> USE UniverseAssumption
<1> DEFINE p == lib[l].owner
           names == Rename(db[p].names, lib[l].id, lib[l].name, name)
           asserts == RenameAsserts(db[p].names, lib[l].name)
           mm == [k \in DOMAIN lib |-> IF k = l THEN name ELSE lib[k].name]
<1>1. /\ l \in DOMAIN lib /\ Free(db[p].names, db[p].libraries, name)
      /\ dbs' = dbs /\ design' = design /\ instances' = instances /\ made' = made
  BY DEF SetLibraryName
<1>2. /\ ~asserts => failed' = failed \cup {"assert"} /\ db' = db /\ lib' = lib
      /\ asserts => /\ lib' = [lib EXCEPT ![l].name = name] /\ db' = [db EXCEPT ![p].names = names]
                    /\ failed' = failed
  BY DEF SetLibraryName
<1>3. /\ Tree(lib) /\ \A k \in DOMAIN lib : DOMAIN lib[k] = LibFields /\ k # p
      /\ p \in DOMAIN db /\ \A e \in DOMAIN db : DOMAIN db[e] = DBFields
  <2>1. TreeOK(db, lib, made) /\ Tree(lib) /\ DOMAIN lib \subseteq Libraries
    BY DEF RegInv, TreeOK, Tree
  <2>2. p \in DOMAIN db
    BY <1>1, <2>1, LivesInDB DEF Root, RootIn
  <2>3. \A e \in DOMAIN db : DOMAIN db[e] = DBFields /\ e \in DBs
    BY DEF RegInv, DBsOK
  <2>4. \A k \in DOMAIN lib : DOMAIN lib[k] = LibFields /\ k # p
    BY <2>1, <2>2, <2>3 DEF TreeOK
  <2> QED
    BY <2>1, <2>2, <2>3, <2>4
<1> HIDE DEF names, asserts
<1>4. ASSUME NameInv
      PROVE  asserts /\ Named(names, RootNames, Children(lib, p), mm, LibID(lib))
  <2>1. Named(db[p].names, RootNames, Children(lib, lib[l].owner), LibName(lib), LibID(lib))
    BY <1>3, <1>4 DEF NameInv, NamesOK
  <2>2. Registers(db[p].libraries, Residents(lib, p), LibID(lib))
    BY <1>3 DEF RegInv, RegistersOK
  <2>3. Children(lib, lib[l].owner) \subseteq Residents(lib, p)
    BY <1>3, DBRoot DEF Children, Residents, Root, RootIn
  <2>4. None \notin Residents(lib, p)
    BY <1>3 DEF Residents, Tree
  <2>5. lib[l].name \in RootNames \cup {NoName}
    BY <1>1, <1>4 DEF NameInv, NamesOK, Root, RootIn
  <2>6. (\A x \in Children(lib, lib[l].owner) \ {l} : mm[x] = LibName(lib)[x]) /\ mm[l] = name
    BY <1>1 DEF Children, LibName
  <2>7. NoName \notin RootNames
    OBVIOUS
  <2> HIDE DEF mm
  <2>8. /\ RenameAsserts(db[p].names, lib[l].name)
        /\ Named(Rename(db[p].names, lib[l].id, lib[l].name, name), RootNames, Children(lib, lib[l].owner), mm, LibID(lib))
    BY <1>1, <2>1, <2>2, <2>3, <2>4, <2>5, <2>6, <2>7, OwnerRenames
  <2> QED
    BY <2>8 DEF asserts, names
<1>5. CASE ~asserts
  <2>1. RegInv'
    BY <1>1, <1>2, <1>5 DEF RegInv
  <2> QED
    BY <1>4, <1>5, <2>1
<1>6. CASE asserts
  <2>1. /\ DOMAIN lib' = DOMAIN lib /\ lib'[l] = [lib[l] EXCEPT !.name = name]
        /\ \A k \in DOMAIN lib \ {l} : lib'[k] = lib[k]
    BY <1>1, <1>2, <1>6
  <2>2. /\ DOMAIN lib'[l] = LibFields /\ lib'[l].owner = lib[l].owner /\ lib'[l].type = lib[l].type
        /\ lib'[l].id = lib[l].id /\ lib'[l].libraries = lib[l].libraries /\ lib'[l].designs = lib[l].designs
        /\ lib'[l].names = lib[l].names /\ lib'[l].name = name
    BY <1>1, <1>3, <2>1 DEF LibFields
  <2>3. DOMAIN db' = DOMAIN db /\ db'[p] = [db[p] EXCEPT !.names = names] /\ \A e \in DOMAIN db \ {p} : db'[e] = db[e]
    BY <1>2, <1>3, <1>6
  <2>4. /\ DOMAIN db'[p] = DBFields /\ db'[p].id = db[p].id /\ db'[p].libraries = db[p].libraries
        /\ db'[p].names = names
    BY <1>3, <2>3 DEF DBFields
  <2>5. SameShape(lib, lib') /\ DesignsStay(lib, lib')
    BY <1>3, <2>1, <2>2 DEF SameShape, DesignsStay
  <2>6. SameTree
    <3>1. \A e \in DOMAIN db : DOMAIN db'[e] = DBFields /\ db'[e].id = db[e].id /\ db'[e].libraries = db[e].libraries
      BY <1>3, <2>3, <2>4
    <3>2. \A k \in DOMAIN lib : lib'[k].libraries = lib[k].libraries
      BY <2>1, <2>2
    <3> QED
      BY <1>1, <2>1, <2>3, <2>5, <3>1, <3>2 DEF SameTree
  <2>7. RegInv'
    <3>1. "dead model" \notin failed'
      BY <1>2, <1>6 DEF RegInv
    <3> QED
      BY <1>1, <2>5, <2>6, <3>1, RenamedOK
  <2>8. ASSUME NameInv PROVE NameInv'
    <3>1. OnlyRenamed(l, name)
      BY <1>1, <1>3, <2>1, <2>2, <2>3, <2>6 DEF OnlyRenamed
    <3>2. /\ \A q : Children(lib', q) = Children(lib, q)
          /\ \A x \in Children(lib, p) : LibID(lib')[x] = LibID(lib)[x]
          /\ \A e \in DOMAIN db : e # p =>
               Named(db'[e].names, RootNames, Children(lib', e), LibName(lib'), LibID(lib'))
          /\ \A k \in DOMAIN lib : k # p =>
               Named(lib'[k].names, NestedNames, Children(lib', k), LibName(lib'), LibID(lib'))
      BY <2>8, <3>1, RenameFrame
    <3>3. \A x \in Children(lib, p) : LibName(lib')[x] = mm[x]
      BY <2>1, <2>2 DEF Children, LibName
    <3>4. Named(names, RootNames, Children(lib, p), LibName(lib'), LibID(lib'))
      <4> HIDE DEF mm
      <4> QED
        BY <1>4, <2>8, <3>2, <3>3, NamedKept
    <3>5. \A e \in DOMAIN db : Named(db'[e].names, RootNames, Children(lib', e), LibName(lib'), LibID(lib'))
      BY <2>4, <3>2, <3>4
    <3>6. \A k \in DOMAIN lib : Named(lib'[k].names, NestedNames, Children(lib', k), LibName(lib'), LibID(lib'))
      BY <1>3, <3>2
    <3>7. ASSUME NEW k \in DOMAIN lib
          PROVE  lib'[k].name \in {NoName} \cup IF RootIn(lib', k) THEN RootNames ELSE NestedNames
      <4>1. lib[k].name \in {NoName} \cup IF RootIn(lib, k) THEN RootNames ELSE NestedNames
        BY <2>8 DEF NameInv, NamesOK
      <4>2. CASE k = l
        BY <2>2, <4>2 DEF RootIn, Root
      <4>3. CASE k # l
        BY <2>1, <4>1, <4>3 DEF RootIn
      <4> QED
        BY <4>2, <4>3
    <3>8. NamesOK(db', lib')
      BY <2>1, <2>3, <3>5, <3>6, <3>7 DEF NamesOK
    <3> QED
      BY <1>2, <1>6, <2>8, <3>8 DEF NameInv
  <2> QED
    BY <2>7, <2>8
<1> QED
  BY <1>5, <1>6

LEMMA RenameNestedOK ==
  ASSUME RegInv, NEW l, NEW name \in NestedNames \cup {NoName}, SetLibraryName(l, name), ~Root(l)
  PROVE  RegInv' /\ (NameInv => NameInv')
<1> USE UniverseAssumption
<1> DEFINE p == lib[l].owner
           names == Rename(lib[p].names, lib[l].id, lib[l].name, name)
           asserts == RenameAsserts(lib[p].names, lib[l].name)
           mm == [k \in DOMAIN lib |-> IF k = l THEN name ELSE lib[k].name]
<1>1. /\ l \in DOMAIN lib /\ Free(lib[p].names, lib[p].libraries, name)
      /\ dbs' = dbs /\ design' = design /\ instances' = instances /\ made' = made
  BY DEF SetLibraryName
<1>2. /\ ~asserts => failed' = failed \cup {"assert"} /\ db' = db /\ lib' = lib
      /\ asserts => /\ lib' = [lib EXCEPT ![l].name = name, ![p].names = names] /\ db' = db
                    /\ failed' = failed
  BY DEF SetLibraryName
<1>3. /\ Tree(lib) /\ \A k \in DOMAIN lib : DOMAIN lib[k] = LibFields
      /\ DOMAIN db \subseteq DBs /\ \A e \in DOMAIN db : DOMAIN db[e] = DBFields
  BY DEF RegInv, TreeOK, DBsOK
<1>4. p \in DOMAIN lib /\ p # l /\ p \notin DBs
  <2>1. p \in DOMAIN lib /\ lib[p].id < lib[l].id /\ lib[p].id \in Nat
    BY <1>1, <1>3 DEF Tree, Root, RootIn
  <2> QED
    BY <1>3, <2>1 DEF Tree
<1> HIDE DEF names, asserts
<1>5. ASSUME NameInv
      PROVE  asserts /\ Named(names, NestedNames, Children(lib, p), mm, LibID(lib))
  <2>1. Named(lib[p].names, NestedNames, Children(lib, lib[l].owner), LibName(lib), LibID(lib))
    BY <1>4, <1>5 DEF NameInv, NamesOK
  <2>2. Registers(lib[p].libraries, Children(lib, p), LibID(lib))
    BY <1>4 DEF RegInv, RegistersOK
  <2>4. None \notin Children(lib, p)
    BY <1>3 DEF Children, Tree
  <2>5. lib[l].name \in NestedNames \cup {NoName}
    BY <1>1, <1>5 DEF NameInv, NamesOK, Root, RootIn
  <2>6. (\A x \in Children(lib, lib[l].owner) \ {l} : mm[x] = LibName(lib)[x]) /\ mm[l] = name
    BY <1>1 DEF Children, LibName
  <2>7. NoName \notin NestedNames
    OBVIOUS
  <2> HIDE DEF mm
  <2>8. /\ RenameAsserts(lib[p].names, lib[l].name)
        /\ Named(Rename(lib[p].names, lib[l].id, lib[l].name, name), NestedNames, Children(lib, lib[l].owner), mm, LibID(lib))
    BY <1>1, <2>1, <2>2, <2>4, <2>5, <2>6, <2>7, OwnerRenames
  <2> QED
    BY <2>8 DEF asserts, names
<1>6. CASE ~asserts
  <2>1. RegInv'
    BY <1>1, <1>2, <1>6 DEF RegInv
  <2> QED
    BY <1>5, <1>6, <2>1
<1>7. CASE asserts
  <2>1. /\ DOMAIN lib' = DOMAIN lib /\ lib'[l] = [lib[l] EXCEPT !.name = name]
        /\ lib'[p] = [lib[p] EXCEPT !.names = names]
        /\ \A k \in DOMAIN lib \ {l, p} : lib'[k] = lib[k]
    BY <1>1, <1>2, <1>4, <1>7
  <2>2. /\ DOMAIN lib'[l] = LibFields /\ lib'[l].owner = lib[l].owner /\ lib'[l].type = lib[l].type
        /\ lib'[l].id = lib[l].id /\ lib'[l].libraries = lib[l].libraries /\ lib'[l].designs = lib[l].designs
        /\ lib'[l].names = lib[l].names /\ lib'[l].name = name
    BY <1>1, <1>3, <2>1 DEF LibFields
  <2>3. /\ DOMAIN lib'[p] = LibFields /\ lib'[p].owner = lib[p].owner /\ lib'[p].type = lib[p].type
        /\ lib'[p].id = lib[p].id /\ lib'[p].libraries = lib[p].libraries /\ lib'[p].designs = lib[p].designs
        /\ lib'[p].names = names /\ lib'[p].name = lib[p].name
    BY <1>3, <1>4, <2>1 DEF LibFields
  <2>5. SameShape(lib, lib') /\ DesignsStay(lib, lib')
    BY <1>3, <2>1, <2>2, <2>3 DEF SameShape, DesignsStay
  <2>6. SameTree
    <3>1. \A k \in DOMAIN lib : lib'[k].libraries = lib[k].libraries
      BY <2>1, <2>2, <2>3
    <3> QED
      BY <1>1, <1>2, <1>3, <1>7, <2>1, <2>5, <3>1 DEF SameTree
  <2>7. RegInv'
    <3>1. "dead model" \notin failed'
      BY <1>2, <1>7 DEF RegInv
    <3> QED
      BY <1>1, <2>5, <2>6, <3>1, RenamedOK
  <2>8. ASSUME NameInv PROVE NameInv'
    <3>1. OnlyRenamed(l, name)
      <4>1. \A k \in DOMAIN lib \ {l} : lib'[k].name = lib[k].name
        BY <2>1, <2>3
      <4>2. \A k \in DOMAIN lib : k # lib[l].owner => lib'[k].names = lib[k].names
        BY <2>1, <2>2
      <4> QED
        BY <1>1, <1>2, <1>7, <2>2, <2>6, <4>1, <4>2 DEF OnlyRenamed
    <3>2. /\ \A q : Children(lib', q) = Children(lib, q)
          /\ \A x \in Children(lib, p) : LibID(lib')[x] = LibID(lib)[x]
          /\ \A e \in DOMAIN db : e # p =>
               Named(db'[e].names, RootNames, Children(lib', e), LibName(lib'), LibID(lib'))
          /\ \A k \in DOMAIN lib : k # p =>
               Named(lib'[k].names, NestedNames, Children(lib', k), LibName(lib'), LibID(lib'))
      BY <2>8, <3>1, RenameFrame
    <3>3. \A x \in Children(lib, p) : LibName(lib')[x] = mm[x]
      BY <2>1, <2>2, <2>3 DEF Children, LibName
    <3>4. Named(names, NestedNames, Children(lib, p), LibName(lib'), LibID(lib'))
      <4> HIDE DEF mm
      <4> QED
        BY <1>5, <2>8, <3>2, <3>3, NamedKept
    <3>5. \A e \in DOMAIN db : Named(db'[e].names, RootNames, Children(lib', e), LibName(lib'), LibID(lib'))
      BY <1>3, <1>4, <3>2
    <3>6. \A k \in DOMAIN lib : Named(lib'[k].names, NestedNames, Children(lib', k), LibName(lib'), LibID(lib'))
      BY <2>3, <3>2, <3>4
    <3>7. ASSUME NEW k \in DOMAIN lib
          PROVE  lib'[k].name \in {NoName} \cup IF RootIn(lib', k) THEN RootNames ELSE NestedNames
      <4>1. lib[k].name \in {NoName} \cup IF RootIn(lib, k) THEN RootNames ELSE NestedNames
        BY <2>8 DEF NameInv, NamesOK
      <4>2. CASE k = l
        BY <2>2, <4>2 DEF RootIn, Root
      <4>3. CASE k # l
        <5>1. lib'[k].name = lib[k].name /\ lib'[k].owner = lib[k].owner
          BY <2>1, <2>3, <4>3
        <5> QED
          BY <4>1, <5>1 DEF RootIn
      <4> QED
        BY <4>2, <4>3
    <3>8. NamesOK(db', lib')
      BY <1>2, <1>7, <2>1, <3>5, <3>6, <3>7 DEF NamesOK
    <3> QED
      BY <1>2, <1>7, <2>8, <3>8 DEF NameInv
  <2> QED
    BY <2>7, <2>8
<1> QED
  BY <1>6, <1>7

LEMMA SetLibraryNameOK ==
  ASSUME RegInv, NEW l \in Libraries,
         NEW name \in {NoName} \cup IF l \in DOMAIN lib /\ Root(l) THEN RootNames ELSE NestedNames,
         SetLibraryName(l, name)
  PROVE  RegInv' /\ (NameInv => NameInv')
<1>1. l \in DOMAIN lib
  BY DEF SetLibraryName
<1>2. CASE Root(l)
  <2>1. name \in RootNames \cup {NoName}
    BY <1>1, <1>2
  <2> QED
    BY <1>2, <2>1, RenameRootOK
<1>3. CASE ~Root(l)
  <2>1. name \in NestedNames \cup {NoName}
    BY <1>3
  <2> QED
    BY <1>3, <2>1, RenameNestedOK
<1> QED
  BY <1>2, <1>3

(***************************************************************************)
(* The theorems.                                                           *)
(***************************************************************************)
LEMMA OpenOK ==
  ASSUME NoHabits, RegInv, Open, [Next]_vars
  PROVE  Open'
<1> SUFFICES ASSUME universe' PROVE DOMAIN dbs' # {}
  BY DEF Open
<1>1. ASSUME NEW d, NEW id, AddDB(d, id) PROVE DOMAIN dbs' # {}
  BY <1>1 DEF AddDB, Insert
<1>2. ASSUME NEW d, NEW id, SetDBID(d, id) PROVE DOMAIN dbs' # {}
  BY <1>2 DEF SetDBID, Insert
<1>3. ASSUME NEW d, DestroyDB(d) PROVE DOMAIN dbs' # {}
  <2>1. d \in DOMAIN db /\ d # DB0 /\ dbs' = Without(dbs, {db[d].id})
    BY <1>3 DEF DestroyDB, NoHabits
  <2>2. DOMAIN dbs # {}
    BY <1>3 DEF DestroyDB, Open
  <2>3. 0 \in DOMAIN dbs /\ dbs[0] = DB0
    BY <2>2 DEF RegInv, DBsOK
  <2>4. dbs[db[d].id] = d
    BY <2>1 DEF RegInv, DBsOK, Registers, DBID
  <2> QED
    BY <2>1, <2>3, <2>4 DEF Without
<1>4. CASE dbs' = dbs /\ universe' = universe
  BY <1>4 DEF Open
<1> QED
  <2>1. ASSUME NEW d, CreateDB(d) PROVE DOMAIN dbs' # {}
    BY <1>1, <2>1 DEF CreateDB
  <2>2. ASSUME NEW d, NEW id, CreateDBWithID(d, id) PROVE DOMAIN dbs' # {}
    BY <1>1, <2>2 DEF CreateDBWithID
  <2>3. CASE DestroyUniverse
    BY <2>3 DEF DestroyUniverse
  <2>4. ASSUME NEW l, DestroyLibrary(l) PROVE DOMAIN dbs' # {}
    BY <1>4, <2>4 DEF DestroyLibrary
  <2>5. ASSUME NEW l, NEW d, NEW t, NEW n, CreateRootLibrary(l, d, t, n) PROVE DOMAIN dbs' # {}
    BY <1>4, <2>5 DEF CreateRootLibrary
  <2>6. ASSUME NEW l, NEW q, NEW n, CreateNestedLibrary(l, q, n) PROVE DOMAIN dbs' # {}
    BY <1>4, <2>6 DEF CreateNestedLibrary
  <2>7. ASSUME NEW l, NEW n, SetLibraryName(l, n) PROVE DOMAIN dbs' # {}
    BY <1>4, <2>7 DEF SetLibraryName
  <2>8. ASSUME NEW d, DestroyDesign(d) PROVE DOMAIN dbs' # {}
    BY <1>4, <2>8 DEF DestroyDesign
  <2>9. ASSUME NEW d, NEW l, CreateDesign(d, l) PROVE DOMAIN dbs' # {}
    BY <1>4, <2>9 DEF CreateDesign
  <2>10. ASSUME NEW d, NEW q, CreateInstance(d, q) PROVE DOMAIN dbs' # {}
    BY <1>4, <2>10 DEF CreateInstance
  <2>11. CASE UNCHANGED vars
    BY <1>4, <2>11 DEF vars
  <2> QED
    BY <1>2, <1>3, <2>1, <2>2, <2>3, <2>4, <2>5, <2>6, <2>7, <2>8, <2>9, <2>10, <2>11 DEF Next

LEMMA NextOK ==
  ASSUME NoHabits, IDsSuffice, RegInv, Open, [Next]_vars
  PROVE  RegInv' /\ (NamesApart /\ NameInv => NameInv')
<1>1. ASSUME NEW d \in DBs, CreateDB(d) PROVE RegInv' /\ (NameInv => NameInv')
  BY <1>1, CreateDBOK
<1>2. ASSUME NEW d \in DBs, DestroyDB(d) PROVE RegInv' /\ (NameInv => NameInv')
  BY <1>2, DestroyDBOK
<1>3. ASSUME NEW d \in DBs, NEW id \in GivenDBIDs, CreateDBWithID(d, id) PROVE RegInv' /\ (NameInv => NameInv')
  BY <1>3, CreateDBWithIDOK
<1>4. ASSUME NEW d \in DBs, NEW id \in GivenDBIDs, SetDBID(d, id) PROVE RegInv' /\ (NameInv => NameInv')
  BY <1>4, SetDBIDOK
<1>5. CASE DestroyUniverse
  BY <1>5, DestroyUniverseOK
<1>6. ASSUME NEW l \in Libraries, DestroyLibrary(l) PROVE RegInv' /\ (NamesApart /\ NameInv => NameInv')
  BY <1>6, DestroyLibraryOK
<1>7. ASSUME NEW l \in Libraries, NEW d \in DBs, NEW name \in RootNames \cup {NoName},
             NEW type \in {"Standard", "Primitives"}, CreateRootLibrary(l, d, type, name)
      PROVE  RegInv' /\ (NameInv => NameInv')
  BY <1>7, CreateRootLibraryOK
<1>8. ASSUME NEW l \in Libraries, NEW p \in Libraries, NEW name \in NestedNames \cup {NoName},
             CreateNestedLibrary(l, p, name)
      PROVE  RegInv' /\ (NamesApart /\ NameInv => NameInv')
  BY <1>8, CreateNestedLibraryOK
<1>9. ASSUME NEW l \in Libraries,
             NEW name \in {NoName} \cup IF l \in DOMAIN lib /\ Root(l) THEN RootNames ELSE NestedNames,
             SetLibraryName(l, name)
      PROVE  RegInv' /\ (NameInv => NameInv')
  BY <1>9, SetLibraryNameOK
<1>10. ASSUME NEW d \in Designs, DestroyDesign(d) PROVE RegInv' /\ (NameInv => NameInv')
  BY <1>10, DestroyDesignOK
<1>11. ASSUME NEW d \in Designs, NEW l \in Libraries, CreateDesign(d, l) PROVE RegInv' /\ (NameInv => NameInv')
  BY <1>11, CreateDesignOK
<1>12. ASSUME NEW d \in Designs, NEW m \in Designs, CreateInstance(d, m) PROVE RegInv' /\ (NameInv => NameInv')
  BY <1>12, CreateInstanceOK
<1>13. CASE UNCHANGED vars
  BY <1>13 DEF vars, RegInv, NameInv
<1> QED
  BY <1>1, <1>2, <1>3, <1>4, <1>5, <1>6, <1>7, <1>8, <1>9, <1>10, <1>11, <1>12, <1>13 DEF Next

LEMMA RegInvHolds == ASSUME NoHabits, IDsSuffice PROVE Spec => [](RegInv /\ Open)
<1>1. Init => RegInv
  BY InitOK
<1>2. RegInv /\ Open /\ [Next]_vars => RegInv' /\ Open'
  BY NextOK, OpenOK
<1>3. Init => Open
  BY DEF Init, Open
<1> QED
  BY <1>1, <1>2, <1>3, PTL DEF Spec

(* While the IDs of databases do not run out and clients renumber only     *)
(* user databases, to free IDs, every register of the universe, of its     *)
(* databases and of their libraries holds exactly the live objects it      *)
(* owns, each under its ID, however libraries are nested and subtrees      *)
(* destroyed (NLUniverse.cpp, NLDB.cpp, NLLibrary.cpp).                    *)
THEOREM RegistersAreExact == ASSUME NoHabits, IDsSuffice PROVE Spec => []RegistryExact
BY RegInvHolds, RegistryFollows, PTL

(* A lookup by name finds the live library of that name, nothing else, and *)
(* no rename trips the assert of OWNER_RENAME, when nested libraries are   *)
(* not named like those of a database: without that condition              *)
(* addLibraryAndSetID() overwrites the entry of a root library.            *)
THEOREM LookupsAreExact == ASSUME NoHabits, IDsSuffice, NamesApart PROVE Spec => []LookupsFind
<1>1. Init => RegInv /\ NameInv
  BY InitOK
<1>2. RegInv /\ Open /\ NameInv /\ [Next]_vars => NameInv'
  BY NextOK
<1>3. RegInv /\ NameInv => LookupsFind
  BY LookupsFollow
<1> QED
  BY <1>1, <1>2, <1>3, RegInvHolds, PTL DEF Spec

(* When clients use the primitives of their own database and of DB0 only,  *)
(* and destroy none that has instances, no teardown of a database or of    *)
(* the universe destroys a primitive before an instance of it: standard    *)
(* libraries go before libraries of primitives, nested libraries are of    *)
(* the type of their parent, and the database every other one may use,     *)
(* DB0, goes last (NLUniverse::preDestroy, NLDB::commonPreDrestroy).       *)
THEOREM TeardownIsSafe == ASSUME NoHabits, IDsSuffice PROVE Spec => []ModelsOutliveInstances
<1>1. RegInv => ModelsOutliveInstances
  BY DEF RegInv, ModelsOutliveInstances
<1> QED
  BY <1>1, RegInvHolds, PTL
=============================================================================

------------------------------ MODULE TreesProof -----------------------------
(***************************************************************************)
(* Proofs about the trees of utils/tree.h for every number of keys.        *)
(*                                                                         *)
(* SplayTree: while SPLAY has the tree in pieces no piece is lost, each    *)
(* call changes the set of keys by its own key, and gives the answer of    *)
(* that set.                                                               *)
(*                                                                         *)
(* RbTree: between any two iterations of the loops that restore the        *)
(* balance the tree is a search tree with its parent pointers, out of      *)
(* balance in one place only; so no loop follows a null pointer, and the   *)
(* tree is balanced when they end.                                         *)
(***************************************************************************)
EXTENDS RbTree, SplayTree, FiniteSetTheorems, WellFoundedInduction, TLAPS

-----------------------------------------------------------------------------
(* Sides.                                                                  *)

\* x lies on side s of y.
On(s, x, y) == IF s = "left" THEN x < y ELSE y < x

Values == 0..N + 1

LEMMA Sorts ==
  /\ Keys \subseteq Values /\ Null \in Values /\ N + 1 \in Values
  /\ Null \notin Keys /\ Header \notin Keys /\ Junk \notin Keys
  /\ Null # Header /\ Null # Junk /\ Header # Junk
  /\ Keys \subseteq Nodes /\ Null \in Nodes /\ Header \in Nodes /\ Junk \in Nodes
  /\ \A x \in Keys : 0 < x /\ x < N + 1
  BY PointersAssumption DEF Keys, Values, Null, Header, Junk, Nodes

LEMMA Opposite ==
  \A s \in Sides : /\ Other(s) \in Sides /\ Other(s) # s /\ Other(Other(s)) = s
                   /\ \A t \in Sides : t = s \/ t = Other(s)
  BY DEF Sides, Other

LEMMA Order ==
  ASSUME NEW s \in Sides, NEW x \in Values, NEW y \in Values
  PROVE  /\ ~(On(s, x, y) /\ On(s, y, x)) /\ ~On(s, x, x)
         /\ x = y \/ On(s, x, y) \/ On(s, y, x)
         /\ On(Other(s), x, y) <=> On(s, y, x)
         /\ \A z \in Values : On(s, x, y) /\ On(s, y, z) => On(s, x, z)
  BY PointersAssumption DEF Sides, Other, On, Values

-----------------------------------------------------------------------------
(* What is under an element.                                               *)

LEMMA NatSet ==
  ASSUME NEW S, 0 \in S, \A n \in Nat : n \in S => n + 1 \in S
  PROVE  Nat \subseteq S
<1> SUFFICES ASSUME Nat \ S # {} PROVE FALSE
  OBVIOUS
<1> DEFINE T == Nat \ S
           R == OpToRel(<, Nat)
<1>1. \A x, y \in Nat : x < y => <<x, y>> \in R
  BY Zenon DEF OpToRel
<1>2. PICK m \in T : \A x \in T : ~(x < m)
  <2>1. IsWellFoundedOn(R, Nat)
    BY NatLessThanWellFounded
  <2>2. T \subseteq Nat /\ T # {}
    OBVIOUS
  <2> HIDE DEF R, T
  <2>3. PICK m \in T : \A x \in T : ~ (<<x, m>> \in R)
    BY <2>1, <2>2, WFMin
  <2>4. QED
    BY <1>1, <2>2, <2>3
<1>3. m \in Nat /\ m # 0 /\ m \notin S
  BY <1>2
<1>4. m - 1 \in Nat /\ m - 1 < m /\ (m - 1) + 1 = m
  BY <1>3
<1>5. m - 1 \in S
  BY <1>2, <1>4
<1>6. QED
  BY <1>3, <1>4, <1>5

\* S leads nowhere else.
Shut(next, S) == \A y \in S : next[y] \cap Keys \subseteq S

\* The least such set.
Hull(next, X) ==
  {y \in Keys : \A S \in SUBSET Keys : X \cap Keys \subseteq S /\ Shut(next, S) => y \in S}

\* S and the elements that it leads to at once.
More(next, S) == S \cup ((UNION {next[y] : y \in S}) \cap Keys)

LEMMA MoreIs ==
  ASSUME NEW next, NEW S \in SUBSET Keys
  PROVE  /\ More(next, S) \in SUBSET Keys /\ S \subseteq More(next, S)
         /\ More(next, S) = S <=> Shut(next, S)
         /\ Hull(next, More(next, S)) = Hull(next, S)
         /\ Shut(next, S) => Hull(next, S) = S
<1>0. \A z : z \in More(next, S) <=> z \in S \/ (z \in Keys /\ \E y \in S : z \in next[y])
  <2> DEFINE V == {next[y] : y \in S}
             U == UNION V
  <2>1. \A A : A \in V <=> \E y \in S : A = next[y]
    OBVIOUS
  <2>2. More(next, S) = S \cup (U \cap Keys)
    BY DEF More
  <2> HIDE DEF V
  <2>3. \A z : z \in U <=> \E A \in V : z \in A
    OBVIOUS
  <2>4. \A z : z \in U <=> \E y \in S : z \in next[y]
    BY <2>1, <2>3
  <2> HIDE DEF U
  <2>5. QED
    BY <2>2, <2>4
<1>1. ASSUME NEW Z \in SUBSET Keys, S \subseteq Z
      PROVE  More(next, S) \subseteq Z <=> \A y \in S : next[y] \cap Keys \subseteq Z
  BY <1>0, <1>1
<1>2. /\ More(next, S) \in SUBSET Keys /\ S \subseteq More(next, S)
      /\ More(next, S) = S <=> Shut(next, S)
  <2>1. More(next, S) \in SUBSET Keys /\ S \subseteq More(next, S)
    BY <1>0
  <2>2. More(next, S) \subseteq S <=> Shut(next, S)
    BY <1>1 DEF Shut
  <2>3. QED
    BY <2>1, <2>2
<1>3. ASSUME NEW Z \in SUBSET Keys, Shut(next, Z)
      PROVE  S \subseteq Z <=> More(next, S) \subseteq Z
  <2>1. S \subseteq Z => \A y \in S : next[y] \cap Keys \subseteq Z
    BY <1>3 DEF Shut
  <2>2. QED
    BY <1>1, <1>2, <2>1
<1>4. S \cap Keys = S /\ More(next, S) \cap Keys = More(next, S)
  BY <1>2
<1>5. Hull(next, More(next, S)) = Hull(next, S)
  BY <1>3, <1>4 DEF Hull
<1>6. Shut(next, S) => Hull(next, S) = S
  BY <1>4 DEF Hull
<1>7. QED
  BY <1>2, <1>5, <1>6

\* The function that Under chooses; there is only this one.
Gathers(next, f) ==
  f = [S \in SUBSET Keys |-> IF More(next, S) = S THEN S ELSE f[More(next, S)]]

LEMMA HullGathers ==
  ASSUME NEW next
  PROVE  Gathers(next, [S \in SUBSET Keys |-> Hull(next, S)])
<1> DEFINE f == [S \in SUBSET Keys |-> Hull(next, S)]
<1>1. ASSUME NEW S \in SUBSET Keys
      PROVE  f[S] = IF More(next, S) = S THEN S ELSE f[More(next, S)]
  BY MoreIs
<1>2. QED
  BY <1>1 DEF Gathers

LEMMA GathersHull ==
  ASSUME NEW next, NEW f, Gathers(next, f), NEW X \in SUBSET Keys
  PROVE  f[X] = Hull(next, X)
<1> DEFINE D == {n \in Nat : \A S \in SUBSET Keys :
                   Cardinality(S) + n >= N => f[S] = Hull(next, S)}
<1>1. /\ IsFiniteSet(Keys) /\ Cardinality(Keys) = N /\ N \in Nat
      /\ \A S \in SUBSET Keys : /\ IsFiniteSet(S) /\ Cardinality(S) \in Nat
                                /\ Cardinality(S) <= N
                                /\ Cardinality(S) = N => S = Keys
  <2>1. IsFiniteSet(Keys) /\ Cardinality(Keys) = N /\ N \in Nat
    <3>1. 1 \in Int /\ N \in Int /\ N >= 1
      BY PointersAssumption
    <3>2. IsFiniteSet(1..N) /\ Cardinality(1..N) = IF 1 > N THEN 0 ELSE N - 1 + 1
      BY <3>1, FS_Interval
    <3>3. QED
      BY <3>1, <3>2 DEF Keys
  <2>2. QED
    BY <2>1, FS_Subset, FS_CardinalityType
<1>2. ASSUME NEW S \in SUBSET Keys
      PROVE  f[S] = IF More(next, S) = S THEN S ELSE f[More(next, S)]
  <2>1. f = [S2 \in SUBSET Keys |-> IF More(next, S2) = S2 THEN S2 ELSE f[More(next, S2)]]
    BY Zenon DEF Gathers
  <2>2. QED
    BY <2>1
<1>3. 0 \in D
  <2>1. ASSUME NEW S \in SUBSET Keys, Cardinality(S) + 0 >= N PROVE f[S] = Hull(next, S)
    <3>1. S = Keys
      BY <1>1, <2>1
    <3>2. Shut(next, S)
      BY <3>1 DEF Shut
    <3>3. QED
      BY <1>2, <3>2, MoreIs
  <2>2. QED
    BY <2>1
<1>4. ASSUME NEW n \in Nat, n \in D PROVE n + 1 \in D
  <2>1. ASSUME NEW S \in SUBSET Keys, Cardinality(S) + (n + 1) >= N
        PROVE  f[S] = Hull(next, S)
    <3>1. CASE Shut(next, S)
      BY <1>2, <3>1, MoreIs
    <3>2. CASE ~Shut(next, S)
      <4> DEFINE T == More(next, S)
      <4>1. T \in SUBSET Keys /\ S \subseteq T /\ T # S /\ Hull(next, T) = Hull(next, S)
        BY <3>2, MoreIs
      <4>2. Cardinality(S) # Cardinality(T) /\ Cardinality(S) <= Cardinality(T)
        <5> HIDE DEF T
        <5>1. IsFiniteSet(T)
          BY <1>1, <4>1
        <5>2. /\ Cardinality(S) <= Cardinality(T)
              /\ Cardinality(S) = Cardinality(T) => S = T
          BY <4>1, <5>1, FS_Subset
        <5>3. QED
          BY <4>1, <5>2
      <4>3. Cardinality(T) + n >= N
        <5>1. Cardinality(S) \in Nat /\ Cardinality(T) \in Nat
          BY <1>1, <4>1
        <5> HIDE DEF T
        <5>2. QED
          BY <1>1, <2>1, <4>2, <5>1
      <4>4. f[T] = Hull(next, T)
        BY <1>4, <4>1, <4>3
      <4>5. QED
        BY <1>2, <4>1, <4>4
    <3>3. QED
      BY <3>1, <3>2
  <2>2. QED
    BY <2>1
<1> HIDE DEF D
<1>5. Nat \subseteq D
  BY <1>3, <1>4, NatSet
<1>6. N \in D
  BY <1>1, <1>5
<1>7. Cardinality(X) + N >= N
  <2>1. Cardinality(X) \in Nat
    BY <1>1
  <2>2. QED
    BY <1>1, <2>1
<1>8. QED
  BY <1>6, <1>7 DEF D

LEMMA UnderIsHull == \A next, X : Under(next, X) = Hull(next, X)
<1> TAKE next, X
<1> DEFINE all == CHOOSE f : Gathers(next, f)
<1>1. Under(next, X) = all[X \cap Keys]
  BY Zenon DEF Under, Gathers, More
<1>2. Gathers(next, all)
  BY HullGathers, Zenon
<1> HIDE DEF all
<1>3. all[X \cap Keys] = Hull(next, X \cap Keys)
  <2>1. X \cap Keys \in SUBSET Keys
    OBVIOUS
  <2> DEFINE Y == X \cap Keys
  <2> HIDE DEF Y
  <2>2. Y \in SUBSET Keys => all[Y] = Hull(next, Y)
    BY <1>2, GathersHull
  <2>3. QED
    BY <2>1, <2>2 DEF Y
<1>4. Hull(next, X \cap Keys) = Hull(next, X)
  <2>1. (X \cap Keys) \cap Keys = X \cap Keys
    OBVIOUS
  <2>2. QED
    BY <2>1 DEF Hull
<1>5. QED
  BY <1>1, <1>3, <1>4

-----------------------------------------------------------------------------
(* What hangs on to an element, in any memory m.                           *)

\* S leads nowhere else by left and right pointers.
Closed(m, S) == \A x \in S : \A s \in Sides : m[s][x] \in Keys => m[s][x] \in S

LEMMA UnderKids ==
  \A m, X : Under(Kids(m), X) =
    {y \in Keys : \A S \in SUBSET Keys : X \cap Keys \subseteq S /\ Closed(m, S) => y \in S}
<1> TAKE m, X
<1>1. ASSUME NEW S \in SUBSET Keys PROVE Shut(Kids(m), S) <=> Closed(m, S)
  BY DEF Shut, Closed, Kids
<1>2. QED
  BY <1>1, UnderIsHull DEF Hull

LEMMA UnderIs ==
  ASSUME NEW m, NEW x \in Keys
  PROVE  /\ x \in Below(m, x) /\ Below(m, x) \subseteq Keys /\ Closed(m, Below(m, x))
         /\ \A S \in SUBSET Keys : x \in S /\ Closed(m, S) => Below(m, x) \subseteq S
<1>1. {x} \cap Keys = {x}
  OBVIOUS
<1>2. \A y : y \in Below(m, x) <=>
        y \in Keys /\ \A S \in SUBSET Keys : x \in S /\ Closed(m, S) => y \in S
  BY <1>1, UnderKids DEF Below
<1>3. x \in Below(m, x) /\ Below(m, x) \subseteq Keys
  BY <1>2
<1>4. \A S \in SUBSET Keys : x \in S /\ Closed(m, S) => Below(m, x) \subseteq S
  BY <1>2
<1>5. ASSUME NEW y \in Below(m, x), NEW s \in Sides, m[s][y] \in Keys
      PROVE  m[s][y] \in Below(m, x)
  <2>1. ASSUME NEW S \in SUBSET Keys, x \in S, Closed(m, S) PROVE m[s][y] \in S
    <3>1. y \in S
      BY <1>2, <2>1
    <3>2. QED
      BY <1>5, <2>1, <3>1 DEF Closed
  <2>2. QED
    BY <1>2, <1>5, <2>1
<1>6. Closed(m, Below(m, x))
  BY <1>5 DEF Closed
<1>7. QED
  BY <1>3, <1>4, <1>6

LEMMA UnderNothing ==
  ASSUME NEW m, NEW x, x \notin Keys
  PROVE  Below(m, x) = {}
<1>1. {} \in SUBSET Keys /\ {x} \cap Keys \subseteq {} /\ Closed(m, {})
  BY DEF Closed
<1>2. QED
  BY <1>1, UnderKids DEF Below

LEMMA UnderKeys ==
  ASSUME NEW m, NEW x
  PROVE  Below(m, x) \subseteq Keys
  BY UnderKids DEF Below

LEMMA UnderPart ==
  ASSUME NEW m, NEW x, NEW y \in Below(m, x)
  PROVE  /\ Below(m, y) \subseteq Below(m, x)
         /\ \A s \in Sides : Below(m, m[s][y]) \subseteq Below(m, x)
<1>1. x \in Keys
  BY UnderNothing
<1>2. Below(m, x) \in SUBSET Keys /\ Closed(m, Below(m, x)) /\ y \in Keys
  BY <1>1, UnderIs
<1>3. ASSUME NEW z, z \in Below(m, x) PROVE Below(m, z) \subseteq Below(m, x)
  <2>1. z \in Keys
    BY <1>2, <1>3
  <2>2. QED
    BY <1>2, <1>3, <2>1, UnderIs
<1>4. ASSUME NEW s \in Sides PROVE Below(m, m[s][y]) \subseteq Below(m, x)
  <2>1. CASE m[s][y] \in Keys
    <3>1. m[s][y] \in Below(m, x)
      BY <1>2, <2>1 DEF Closed
    <3>2. QED
      BY <1>3, <3>1
  <2>2. CASE m[s][y] \notin Keys
    BY <2>2, UnderNothing
  <2>3. QED
    BY <2>1, <2>2
<1>5. QED
  BY <1>3, <1>4

\* An element and what hangs on to its two pointers.
LEMMA Unfold ==
  ASSUME NEW m, NEW x \in Keys, NEW s \in Sides
  PROVE  Below(m, x) = {x} \cup Below(m, m[s][x]) \cup Below(m, m[Other(s)][x])
<1> DEFINE S == {x} \cup Below(m, m[s][x]) \cup Below(m, m[Other(s)][x])
<1>1. S \in SUBSET Keys /\ x \in S
  BY UnderKeys
<1>2. ASSUME NEW y \in S, NEW t \in Sides, m[t][y] \in Keys PROVE m[t][y] \in S
  <2>1. m[t][y] \in Below(m, m[t][y])
    BY <1>2, UnderIs
  <2>2. CASE y = x
    BY <2>1, <2>2, Opposite
  <2>3. CASE y \in Below(m, m[s][x])
    BY <2>1, <2>3, UnderPart
  <2>4. CASE y \in Below(m, m[Other(s)][x])
    BY <2>1, <2>4, UnderPart
  <2>5. QED
    BY <2>2, <2>3, <2>4
<1>3. Closed(m, S)
  BY <1>2 DEF Closed
<1>4. Below(m, x) \subseteq S
  BY <1>1, <1>3, UnderIs
<1>5. S \subseteq Below(m, x)
  BY UnderIs, UnderPart, Opposite
<1>6. QED
  BY <1>4, <1>5

\* Only the pointers of what hangs on to x matter.
LEMMA SameUnder ==
  ASSUME NEW m, NEW n, NEW x, \A y \in Below(m, x), s \in Sides : n[s][y] = m[s][y]
  PROVE  Below(n, x) = Below(m, x)
<1>1. CASE x \notin Keys
  BY <1>1, UnderNothing
<1>2. CASE x \in Keys
  <2>1. Below(m, x) \in SUBSET Keys /\ x \in Below(m, x) /\ Closed(m, Below(m, x))
    BY <1>2, UnderIs
  <2>2. Closed(n, Below(m, x))
    BY <2>1 DEF Closed
  <2>3. Below(n, x) \subseteq Below(m, x)
    BY <1>2, <2>1, <2>2, UnderIs
  <2>4. Below(n, x) \in SUBSET Keys /\ x \in Below(n, x) /\ Closed(n, Below(n, x))
    BY <1>2, UnderIs
  <2>5. Closed(m, Below(n, x))
    BY <2>3, <2>4 DEF Closed
  <2>6. Below(m, x) \subseteq Below(n, x)
    BY <1>2, <2>4, <2>5, UnderIs
  <2>7. QED
    BY <2>3, <2>6
<1>3. QED
  BY <1>1, <1>2

-----------------------------------------------------------------------------
(* Search trees.                                                           *)

Memory == [Sides -> [Keys \cup {Header} -> Nodes]]

\* x is the root of a search tree in m, or the null pointer.
Good(m, x) ==
  /\ x \in Keys \cup {Null}
  /\ \A y \in Below(m, x), s \in Sides :
       /\ m[s][y] \in Keys \cup {Null}
       /\ \A z \in Below(m, m[s][y]) : On(s, z, y)

LEMMA GoodPart ==
  ASSUME NEW m, NEW x, Good(m, x), NEW y \in Below(m, x)
  PROVE  Good(m, y) /\ \A s \in Sides : Good(m, m[s][y])
<1>1. y \in Keys
  BY UnderKeys
<1>2. \A s \in Sides : m[s][y] \in Keys \cup {Null}
  BY DEF Good
<1>3. Below(m, y) \subseteq Below(m, x) /\ \A s \in Sides : Below(m, m[s][y]) \subseteq Below(m, x)
  BY UnderPart
<1>4. QED
  BY <1>1, <1>2, <1>3 DEF Good

LEMMA GoodSame ==
  ASSUME NEW m, NEW n, NEW x, Good(m, x), \A y \in Below(m, x), s \in Sides : n[s][y] = m[s][y]
  PROVE  Good(n, x)
<1>1. Below(n, x) = Below(m, x)
  BY SameUnder
<1>2. ASSUME NEW y \in Below(m, x), NEW s \in Sides
      PROVE  n[s][y] = m[s][y] /\ Below(n, n[s][y]) = Below(m, m[s][y])
  <2>1. \A w \in Below(m, m[s][y]), t \in Sides : n[t][w] = m[t][w]
    BY UnderPart
  <2>2. Below(n, m[s][y]) = Below(m, m[s][y])
    BY <2>1, SameUnder
  <2>3. QED
    BY <2>2
<1>3. QED
  BY <1>1, <1>2 DEF Good

\* An element between two trees.
LEMMA GoodBuild ==
  ASSUME NEW m, NEW x \in Keys, NEW s \in Sides,
         Good(m, m[s][x]), Good(m, m[Other(s)][x]),
         \A z \in Below(m, m[s][x]) : On(s, z, x),
         \A z \in Below(m, m[Other(s)][x]) : On(Other(s), z, x)
  PROVE  Good(m, x)
<1>1. ASSUME NEW y \in Below(m, x), NEW t \in Sides
      PROVE  m[t][y] \in Keys \cup {Null} /\ \A z \in Below(m, m[t][y]) : On(t, z, y)
  <2>1. y = x \/ y \in Below(m, m[s][x]) \/ y \in Below(m, m[Other(s)][x])
    BY Unfold
  <2>2. CASE y = x
    <3>1. t = s \/ t = Other(s)
      BY Opposite
    <3>2. QED
      BY <2>2, <3>1 DEF Good
  <2>3. CASE y \in Below(m, m[s][x])
    BY <2>3 DEF Good
  <2>4. CASE y \in Below(m, m[Other(s)][x])
    BY <2>4 DEF Good
  <2>5. QED
    BY <2>1, <2>2, <2>3, <2>4
<1>2. QED
  BY <1>1 DEF Good

\* n is m where one pointer has become q.
Sets(m, n, s, e, q) ==
  /\ n \in Memory /\ n[s][e] = q
  /\ \A t \in Sides, y \in Keys \cup {Header} : t # s \/ y # e => n[t][y] = m[t][y]

LEMMA OnePointer ==
  ASSUME NEW m \in Memory, NEW s \in Sides, NEW e \in Keys \cup {Header}, NEW q \in Nodes
  PROVE  Sets(m, [m EXCEPT ![s][e] = q], s, e, q)
  BY DEF Memory, Sets

\* What hangs on side s of SPLAY's node: a search tree that is open at e, its last
\* element on that side; there is none when e is the node itself.
OpenAt(m, s, e) ==
  /\ Good(m, m[s][Header])
  /\ e \in Keys \cup {Header} /\ m[s][e] = Null
  /\ e = Header \/
       /\ e \in Below(m, m[s][Header])
       /\ \A y \in Below(m, m[s][Header]) : y = e \/ On(Other(s), y, e)

\* At its open end another tree q is put, all of it on the far side.
LEMMA Attach ==
  ASSUME NEW m \in Memory, NEW s \in Sides, NEW e, NEW q, OpenAt(m, s, e), Good(m, q),
         \A y \in Below(m, m[s][Header]), z \in Below(m, q) : On(Other(s), y, z),
         NEW n, Sets(m, n, s, e, q)
  PROVE  /\ Good(n, n[s][Header])
         /\ Below(n, n[s][Header]) = Below(m, m[s][Header]) \cup Below(m, q)
         /\ \A x : /\ Below(m, x) \cap Below(m, m[s][Header]) = {} => Below(n, x) = Below(m, x)
                   /\ Below(m, x) \cap Below(m, m[s][Header]) = {} /\ Good(m, x) => Good(n, x)
<1> DEFINE p == m[s][Header]
           P == Below(m, p)
           R == Below(m, q)
<1>0. /\ Good(m, p) /\ e \in Keys \cup {Header} /\ m[s][e] = Null
      /\ e = Header \/ (e \in P /\ \A y \in P : y = e \/ On(Other(s), y, e))
  BY DEF OpenAt
<1>1. q \in Nodes /\ q \in Keys \cup {Null}
  BY Sorts DEF Good
<1>2. /\ n \in Memory /\ n[s][e] = q
      /\ \A t \in Sides, y \in Keys \cup {Header} : t # s \/ y # e => n[t][y] = m[t][y]
  BY DEF Sets
<1>3. P \subseteq Keys /\ R \subseteq Keys /\ Keys \subseteq Values /\ Header \notin Keys
      /\ Null \notin Keys /\ Null # Header
  BY UnderKeys, Sorts
<1>4. CASE e = Header
  <2>1. P = {}
    BY <1>0, <1>3, <1>4, UnderNothing
  <2>2. \A t \in Sides, y \in Keys : n[t][y] = m[t][y]
    BY <1>2, <1>3, <1>4
  <2>3. ASSUME NEW x PROVE Below(n, x) = Below(m, x) /\ (Good(m, x) => Good(n, x))
    <3>1. \A y \in Below(m, x), t \in Sides : n[t][y] = m[t][y]
      BY <2>2, UnderKeys
    <3>2. Below(n, x) = Below(m, x)
      BY <3>1, SameUnder
    <3>3. ASSUME Good(m, x) PROVE Good(n, x)
      BY <3>1, <3>3, GoodSame
    <3>4. QED
      BY <3>2, <3>3
  <2>4. n[s][Header] = q
    BY <1>2, <1>4
  <2>5. QED
    BY <1>2, <2>1, <2>3, <2>4
<1>5. CASE e # Header
  <2>1. e \in P /\ e \in Keys /\ \A y \in P : y = e \/ On(Other(s), y, e)
    BY <1>0, <1>3, <1>5
  <2>2. n[s][Header] = p /\ p \in Keys
    BY <1>2, <1>5, <2>1, UnderNothing
  <2>3. P \cap R = {}
    <3>1. \A y \in Keys : ~On(Other(s), y, y)
      BY <1>3, Opposite, Order
    <3>2. QED
      BY <1>3, <3>1
  <2>4. ASSUME NEW x, e \notin Below(m, x)
        PROVE  Below(n, x) = Below(m, x) /\ (Good(m, x) => Good(n, x))
    <3>1. \A y \in Below(m, x), t \in Sides : n[t][y] = m[t][y]
      BY <1>2, <2>4, UnderKeys
    <3>2. Below(n, x) = Below(m, x)
      BY <3>1, SameUnder
    <3>3. ASSUME Good(m, x) PROVE Good(n, x)
      BY <3>1, <3>3, GoodSame
    <3>4. QED
      BY <3>2, <3>3
  <2>5. Below(n, q) = R /\ Good(n, q)
    BY <2>1, <2>3, <2>4
  <2>6. ASSUME NEW y \in P, e \in Below(m, y)
        PROVE  Below(n, y) = Below(m, y) \cup R
    <3>1. y \in Keys /\ y \in Below(m, y) /\ Below(m, y) \subseteq Keys /\ Closed(m, Below(m, y))
      BY <1>3, UnderIs
    <3>2. y \in Below(n, y) /\ Below(n, y) \subseteq Keys /\ Closed(n, Below(n, y))
      BY <3>1, UnderIs
    <3>3. Below(n, y) \subseteq Below(m, y) \cup R
      <4>1. ASSUME NEW w \in Below(m, y) \cup R, NEW t \in Sides, n[t][w] \in Keys
            PROVE  n[t][w] \in Below(m, y) \cup R
        <5>1. CASE t = s /\ w = e
          <6>1. q \in Keys /\ n[t][w] = q
            BY <1>2, <4>1, <5>1
          <6>2. q \in R
            BY <6>1, UnderIs
          <6>3. QED
            BY <6>1, <6>2
        <5>2. CASE ~(t = s /\ w = e)
          <6>1. w \in Keys /\ n[t][w] = m[t][w]
            BY <1>2, <1>3, <3>1, <5>2
          <6>2. m[t][w] \in Below(m, m[t][w])
            BY <4>1, <6>1, UnderIs
          <6>3. Below(m, m[t][w]) \subseteq Below(m, y) \cup R
            BY UnderPart
          <6>4. QED
            BY <6>1, <6>2, <6>3
        <5>3. QED
          BY <5>1, <5>2
      <4>2. Closed(n, Below(m, y) \cup R)
        BY <4>1 DEF Closed
      <4>3. QED
        BY <1>3, <3>1, <4>2, UnderIs
    <3>4. Below(m, y) \subseteq Below(n, y)
      <4>1. ASSUME NEW w \in Below(n, y), NEW t \in Sides, m[t][w] \in Keys
            PROVE  m[t][w] \in Below(n, y)
        <5>1. w \in Keys /\ ~(t = s /\ w = e)
          BY <1>0, <1>3, <3>2, <4>1
        <5>2. n[t][w] = m[t][w]
          BY <1>2, <5>1
        <5>3. QED
          BY <3>2, <4>1, <5>2 DEF Closed
      <4>2. Closed(m, Below(n, y))
        BY <4>1 DEF Closed
      <4>3. QED
        BY <3>1, <3>2, <4>2, UnderIs
    <3>5. R \subseteq Below(n, y)
      <4>1. e \in Below(n, y)
        BY <2>6, <3>4
      <4>2. Below(n, n[s][e]) \subseteq Below(n, y)
        BY <4>1, UnderPart
      <4>3. QED
        BY <1>2, <2>5, <4>2
    <3>6. QED
      BY <3>3, <3>4, <3>5
  <2>7. Below(n, p) = P \cup R
    BY <2>1, <2>2, <2>6, UnderIs
  <2>8. ASSUME NEW y \in P \cup R, NEW t \in Sides
        PROVE  n[t][y] \in Keys \cup {Null} /\ \A z \in Below(n, n[t][y]) : On(t, z, y)
    <3>1. CASE y \in R
      BY <2>5, <3>1 DEF Good
    <3>2. CASE t = s /\ y = e
      <4>1. n[t][y] = q
        BY <1>2, <3>2
      <4>2. ASSUME NEW z \in R PROVE On(s, z, e)
        <5>1. On(Other(s), e, z)
          BY <2>1
        <5>2. e \in Values /\ z \in Values
          BY <1>3, <2>1
        <5>3. QED
          BY <5>1, <5>2, Order
      <4>3. QED
        BY <1>1, <2>5, <3>2, <4>1, <4>2
    <3>3. CASE y \in P /\ ~(t = s /\ y = e)
      <4>1. n[t][y] = m[t][y] /\ m[t][y] \in Keys \cup {Null}
            /\ \A z \in Below(m, m[t][y]) : On(t, z, y)
        BY <1>0, <1>2, <1>3, <3>3 DEF Good
      <4>2. CASE e \notin Below(m, m[t][y])
        BY <2>4, <4>1, <4>2
      <4>3. CASE e \in Below(m, m[t][y])
        <5>1. m[t][y] \in Keys
          BY <4>3, UnderNothing
        <5>2. m[t][y] \in P
          BY <3>3, <5>1, UnderIs, UnderPart
        <5>3. Below(n, m[t][y]) = Below(m, m[t][y]) \cup R
          BY <2>6, <4>3, <5>2
        <5>4. On(t, e, y) /\ y \in Values /\ e \in Values
          BY <1>3, <2>1, <3>3, <4>1, <4>3
        <5>5. y # e /\ On(Other(s), y, e)
          BY <2>1, <3>3, <5>4, Order
        <5>6. t = s
          <6>1. On(s, e, y) /\ (t = Other(s) => On(s, y, e))
            BY <5>4, <5>5, Order
          <6>2. QED
            BY <5>4, <6>1, Opposite, Order
        <5>7. ASSUME NEW z \in R PROVE On(s, z, y)
          <6>1. On(Other(s), y, z) /\ z \in Values
            BY <1>3, <3>3
          <6>2. QED
            BY <5>4, <6>1, Order
        <5>8. QED
          BY <4>1, <5>3, <5>6, <5>7
      <4>4. QED
        BY <4>2, <4>3
    <3>4. QED
      BY <3>1, <3>2, <3>3
  <2>9. Good(n, p)
    BY <2>2, <2>7, <2>8 DEF Good
  <2>10. QED
    BY <1>2, <2>1, <2>2, <2>4, <2>7, <2>9
<1>6. QED
  BY <1>4, <1>5

\* What a search tree says of the two sides of its root.
LEMMA GoodRoot ==
  ASSUME NEW m, NEW r \in Keys, Good(m, r), NEW s \in Sides
  PROVE  /\ Good(m, m[s][r])
         /\ \A z \in Below(m, m[s][r]) : On(s, z, r) /\ z # r /\ z \in Values
         /\ r \notin Below(m, m[s][r])
         /\ Below(m, m[s][r]) \subseteq Below(m, r)
         /\ Below(m, m[s][r]) \cap Below(m, m[Other(s)][r]) = {}
<1>1. r \in Below(m, r) /\ Keys \subseteq Values
  BY UnderIs, Sorts
<1>2. Good(m, m[s][r]) /\ Below(m, m[s][r]) \subseteq Below(m, r)
  BY <1>1, GoodPart, UnderPart
<1>3. ASSUME NEW t \in Sides, NEW z \in Below(m, m[t][r])
      PROVE  On(t, z, r) /\ z # r /\ z \in Values
  <2>1. On(t, z, r) /\ z \in Values
    BY <1>1, UnderKeys DEF Good
  <2>2. QED
    BY <1>1, <2>1, Order
<1>4. ASSUME NEW z, z \in Below(m, m[s][r]), z \in Below(m, m[Other(s)][r]) PROVE FALSE
  <2>1. On(s, z, r) /\ On(Other(s), z, r) /\ z \in Values
    BY <1>3, <1>4, Opposite
  <2>2. QED
    BY <1>1, <2>1, Order
<1>5. QED
  BY <1>2, <1>3, <1>4

-----------------------------------------------------------------------------
(* Where a way along pointers ends.                                        *)

Line(step) == [z \in Keys |-> {step[z]}]

LEMMA LineIs ==
  ASSUME NEW step, NEW x \in Keys
  PROVE  /\ x \in Under(Line(step), {x}) /\ Under(Line(step), {x}) \subseteq Keys
         /\ \A y \in Under(Line(step), {x}) :
              step[y] \in Keys => step[y] \in Under(Line(step), {x})
         /\ \A S \in SUBSET Keys :
              x \in S /\ (\A y \in S : step[y] \in Keys => step[y] \in S)
                => Under(Line(step), {x}) \subseteq S
<1> DEFINE W == Under(Line(step), {x})
           Keeps(S) == \A y \in S : step[y] \in Keys => step[y] \in S
<1>1. ASSUME NEW S \in SUBSET Keys PROVE Shut(Line(step), S) <=> Keeps(S)
  BY DEF Shut, Line
<1>2. W = {y \in Keys : \A S \in SUBSET Keys : x \in S /\ Keeps(S) => y \in S}
  <2>1. {x} \cap Keys = {x}
    OBVIOUS
  <2> HIDE DEF Keeps
  <2>2. QED
    BY <1>1, <2>1, UnderIsHull DEF Hull
<1> HIDE DEF W
<1>3. ASSUME NEW y \in W, step[y] \in Keys PROVE step[y] \in W
  <2>1. ASSUME NEW S \in SUBSET Keys, x \in S, Keeps(S) PROVE step[y] \in S
    <3>1. y \in S
      BY <1>2, <2>1
    <3>2. QED
      BY <1>3, <2>1, <3>1
  <2>2. QED
    BY <1>2, <1>3, <2>1
<1>4. x \in W /\ W \subseteq Keys
  BY <1>2
<1>5. ASSUME NEW S \in SUBSET Keys, x \in S, Keeps(S) PROVE W \subseteq S
  BY <1>2, <1>5
<1>6. QED
  BY <1>3, <1>4, <1>5 DEF W

LEMMA Lowest ==
  ASSUME NEW W, W # {}, NEW r, \A y \in W : r[y] \in Nat
  PROVE  \E y \in W : \A z \in W : ~(r[z] < r[y])
<1> DEFINE V == {r[y] : y \in W}
<1>1. V \subseteq Nat /\ V # {}
  OBVIOUS
<1> HIDE DEF V
<1>2. PICK v \in V : \A z \in V : <<z, v>> \notin OpToRel(<, Nat)
  BY <1>1, NatLessThanWellFounded, WFMin
<1>3. \A z \in V : ~(z < v)
  BY <1>1, <1>2 DEF OpToRel
<1>4. QED
  BY <1>3 DEF V

\* When r gets less with every step.
LEMMA LastIs ==
  ASSUME NEW step, NEW x \in Keys, NEW S \in SUBSET Keys, x \in S,
         NEW r, \A y \in S : r[y] \in Nat,
         \A y \in S : step[y] \in Keys => step[y] \in S /\ r[step[y]] < r[y]
  PROVE  /\ Last(step, x) \in S /\ step[Last(step, x)] \notin Keys
         /\ Last(step, x) \in Under(Line(step), {x})
<1> DEFINE W == Under(Line(step), {x})
<1>1. /\ x \in W /\ W \subseteq S
      /\ \A y \in W : step[y] \in Keys => step[y] \in W
  BY LineIs
<1>2. Last(step, x) = CHOOSE y \in W : step[y] \notin Keys
  BY Zenon DEF Last, Line
<1> HIDE DEF W
<1>3. PICK y \in W : \A z \in W : ~(r[z] < r[y])
  BY <1>1, Lowest
<1>4. step[y] \notin Keys
  BY <1>1, <1>3
<1>5. Last(step, x) \in W /\ step[Last(step, x)] \notin Keys
  BY <1>2, <1>4, Zenon
<1>6. QED
  BY <1>1, <1>5 DEF W

\* How many there are below an element.
Size(m) == [y \in Keys |-> Cardinality(Below(m, y))]

LEMMA SizeIs ==
  ASSUME NEW m, NEW x, Good(m, x), NEW y \in Below(m, x), NEW s \in Sides
  PROVE  /\ y \in Keys /\ Size(m)[y] \in 0..N
         /\ m[s][y] \in Keys => /\ m[s][y] \in Below(m, x) /\ Size(m)[m[s][y]] \in 0..N
                                /\ Size(m)[m[s][y]] < Size(m)[y]
<1>1. ASSUME NEW z \in Keys
      PROVE  /\ IsFiniteSet(Below(m, z)) /\ Cardinality(Below(m, z)) \in 0..N
             /\ Size(m)[z] = Cardinality(Below(m, z))
  <2>1. IsFiniteSet(Keys) /\ Cardinality(Keys) = N /\ N \in Nat
    <3>1. 1 \in Int /\ N \in Int /\ N >= 1
      BY PointersAssumption
    <3>2. IsFiniteSet(1..N) /\ Cardinality(1..N) = IF 1 > N THEN 0 ELSE N - 1 + 1
      BY <3>1, FS_Interval
    <3>3. QED
      BY <3>1, <3>2 DEF Keys
  <2>2. Below(m, z) \subseteq Keys
    BY UnderKeys
  <2>3. IsFiniteSet(Below(m, z)) /\ Cardinality(Below(m, z)) <= N
    BY <2>1, <2>2, FS_Subset
  <2>4. Cardinality(Below(m, z)) \in Nat
    BY <2>3, FS_CardinalityType
  <2>5. QED
    BY <2>1, <2>3, <2>4 DEF Size
<1>2. y \in Keys /\ Good(m, y)
  BY UnderKeys, GoodPart
<1>3. ASSUME m[s][y] \in Keys
      PROVE  m[s][y] \in Below(m, x) /\ Size(m)[m[s][y]] < Size(m)[y]
  <2>1. Below(m, m[s][y]) \subseteq Below(m, y) /\ y \notin Below(m, m[s][y]) /\ y \in Below(m, y)
    BY <1>2, GoodRoot, UnderIs
  <2>2. m[s][y] \in Below(m, m[s][y]) /\ Below(m, m[s][y]) \subseteq Below(m, x)
    BY <1>3, UnderIs, UnderPart
  <2>3. /\ Cardinality(Below(m, m[s][y])) <= Cardinality(Below(m, y))
        /\ Cardinality(Below(m, m[s][y])) # Cardinality(Below(m, y))
    BY <1>1, <1>2, <2>1, FS_Subset
  <2>4. Cardinality(Below(m, m[s][y])) \in Nat /\ Cardinality(Below(m, y)) \in Nat
    BY <1>1, <1>2, <1>3
  <2>5. Cardinality(Below(m, m[s][y])) < Cardinality(Below(m, y))
    BY <2>3, <2>4
  <2>6. QED
    BY <1>1, <1>2, <1>3, <2>2, <2>5
<1>4. QED
  BY <1>1, <1>2, <1>3

\* The pointers of one side lead to the last element on that side.
LEMMA EndIs ==
  ASSUME NEW m, NEW x \in Keys, Good(m, x), NEW s \in Sides, NEW u, u = Last(m[s], x)
  PROVE  /\ u \in Below(m, x) /\ m[s][u] = Null
         /\ \A z \in Below(m, x) : z = u \/ On(Other(s), z, u)
<1> DEFINE S == {w \in Below(m, x) : \A z \in Below(m, x) : z \in Below(m, w) \/ On(Other(s), z, w)}
<1>1. /\ Below(m, x) \in SUBSET Keys /\ x \in Below(m, x) /\ Closed(m, Below(m, x))
      /\ Keys \subseteq Values /\ Other(s) \in Sides /\ Other(Other(s)) = s
  BY UnderIs, Sorts, Opposite
<1>2. S \in SUBSET Keys /\ x \in S /\ S \subseteq Below(m, x)
  BY <1>1
<1>3. ASSUME NEW w \in S, m[s][w] \in Keys
      PROVE  m[s][w] \in S /\ Size(m)[m[s][w]] < Size(m)[w]
  <2> DEFINE v == m[s][w]
  <2>1. w \in Below(m, x) /\ w \in Keys /\ v \in Below(m, x) /\ v \in Keys
    BY <1>1, <1>2, <1>3 DEF Closed
  <2>2. Good(m, w) /\ v \in Below(m, v)
    BY <2>1, GoodPart, UnderIs
  <2>3. /\ Below(m, w) = {w} \cup Below(m, v) \cup Below(m, m[Other(s)][w])
        /\ \A z \in Below(m, v) : On(s, z, w)
        /\ \A z \in Below(m, m[Other(s)][w]) : On(Other(s), z, w)
    BY <1>1, <2>1, <2>2, GoodRoot, Unfold
  <2>4. On(Other(s), w, v)
    BY <1>1, <2>1, <2>2, <2>3, Order
  <2>5. ASSUME NEW z \in Below(m, x) PROVE z \in Below(m, v) \/ On(Other(s), z, v)
    <3>1. z \in Values /\ v \in Values /\ w \in Values
      BY <1>1, <2>1
    <3>2. z \in Below(m, w) \/ On(Other(s), z, w)
      BY <1>3
    <3>3. On(Other(s), z, w) => On(Other(s), z, v)
      BY <1>1, <2>4, <3>1, Order
    <3>4. QED
      BY <2>3, <2>4, <3>2, <3>3
  <2>6. QED
    BY <1>3, <2>1, <2>5, SizeIs
<1>4. \A y \in S : Size(m)[y] \in Nat
  <2>1. ASSUME NEW y \in S PROVE Size(m)[y] \in Nat
    <3>1. Size(m)[y] \in 0..N
      BY <1>2, SizeIs
    <3>2. QED
      BY <3>1
  <2>2. QED
    BY <2>1
<1> HIDE DEF S
<1>5. u \in S /\ m[s][u] \notin Keys
  <2>1. \A y \in S : m[s][y] \in Keys => m[s][y] \in S /\ Size(m)[m[s][y]] < Size(m)[y]
    BY <1>3
  <2>2. QED
    BY <1>2, <1>4, <2>1, LastIs
<1>6. u \in Below(m, x) /\ u \in Keys /\ m[s][u] = Null
  <2>1. u \in Below(m, x)
    BY <1>2, <1>5
  <2>2. QED
    BY <1>1, <1>5, <2>1 DEF Good
<1>7. ASSUME NEW z \in Below(m, x) PROVE z = u \/ On(Other(s), z, u)
  <2>1. z \in Below(m, u) \/ On(Other(s), z, u)
    BY <1>5 DEF S
  <2>2. Below(m, u) = {u} \cup Below(m, m[Other(s)][u])
    BY <1>6, Unfold, Sorts, UnderNothing
  <2>3. Good(m, u)
    BY <1>6, GoodPart
  <2>4. \A w \in Below(m, m[Other(s)][u]) : On(Other(s), w, u)
    BY <1>1, <1>6, <2>3, GoodRoot
  <2>5. QED
    BY <2>1, <2>2, <2>4
<1>8. QED
  BY <1>6, <1>7

-----------------------------------------------------------------------------
(* The three things that SPLAY does to its pieces.                         *)

\* The tree at r of m is the tree at c of n, and the trees apart from it are as
\* they were.
Rebuilt(m, n, r, c) ==
  /\ n \in Memory /\ Good(n, c) /\ Below(n, c) = Below(m, r)
  /\ \A x : /\ Below(m, x) \cap Below(m, r) = {} => Below(n, x) = Below(m, x)
            /\ Below(m, x) \cap Below(m, r) = {} /\ Good(m, x) => Good(n, x)

\* SPLAY_ROTATE: the root's child takes its place, over the same keys.
LEMMA Turn ==
  ASSUME NEW m \in Memory, NEW s \in Sides, NEW r \in Keys, Good(m, r), m[s][r] \in Keys,
         NEW l, Sets(m, l, s, r, m[Other(s)][m[s][r]]),
         NEW n, Sets(l, n, Other(s), m[s][r], r)
  PROVE  Rebuilt(m, n, r, m[s][r])
<1> DEFINE o == Other(s)
           c == m[s][r]
           A == Below(m, m[o][r])
           B == Below(m, m[o][c])
           C == Below(m, m[s][c])
<1>1. o \in Sides /\ o # s /\ Other(o) = s /\ c \in Keys /\ n \in Memory
      /\ \A t \in Sides : t = s \/ t = o
  BY Opposite DEF Sets
<1>2. Good(m, c) /\ Good(m, m[o][r]) /\ Good(m, m[o][c]) /\ Good(m, m[s][c])
  BY <1>1, GoodRoot
<1>3. /\ Below(m, r) = {r} \cup Below(m, c) \cup A
      /\ Below(m, c) = {c} \cup C \cup B
  BY <1>1, Unfold
<1>4. /\ \A z \in A : On(o, z, r) /\ z # r
      /\ \A z \in Below(m, c) : On(s, z, r) /\ z # r
      /\ \A z \in B : On(o, z, c) /\ z # c
      /\ \A z \in C : On(s, z, c) /\ z # c
      /\ c \in Below(m, c) /\ c \notin A
  <2>1. /\ \A z \in A : On(o, z, r) /\ z # r
        /\ \A z \in Below(m, c) : On(s, z, r) /\ z # r
    BY <1>1, GoodRoot
  <2>2. /\ \A z \in B : On(o, z, c) /\ z # c
        /\ \A z \in C : On(s, z, c) /\ z # c
    BY <1>1, <1>2, GoodRoot
  <2>3. c \in Below(m, c)
    BY <1>1, UnderIs
  <2>4. Below(m, c) \cap A = {}
    BY <1>1, GoodRoot
  <2>5. QED
    BY <2>1, <2>2, <2>3, <2>4
<1>5. /\ A \subseteq Keys /\ B \subseteq Keys /\ C \subseteq Keys /\ Keys \subseteq Values
      /\ r \in Values /\ c \in Values /\ c # r
  BY <1>1, <1>4, UnderKeys, Sorts
<1>6. /\ n[s][r] = m[o][c] /\ n[o][c] = r
      /\ \A t \in Sides, y \in Keys \cup {Header} :
           ~(t = s /\ y = r) /\ ~(t = o /\ y = c) => n[t][y] = m[t][y]
  BY <1>1 DEF Sets
<1>7. ASSUME NEW x, r \notin Below(m, x), c \notin Below(m, x)
      PROVE  Below(n, x) = Below(m, x) /\ (Good(m, x) => Good(n, x))
  <2>1. \A y \in Below(m, x), t \in Sides : n[t][y] = m[t][y]
    BY <1>6, <1>7, UnderKeys
  <2>2. Below(n, x) = Below(m, x)
    BY <2>1, SameUnder
  <2>3. ASSUME Good(m, x) PROVE Good(n, x)
    BY <2>1, <2>3, GoodSame
  <2>4. QED
    BY <2>2, <2>3
<1>8. /\ Below(n, m[o][r]) = A /\ Good(n, m[o][r])
      /\ Below(n, m[o][c]) = B /\ Good(n, m[o][c])
      /\ Below(n, m[s][c]) = C /\ Good(n, m[s][c])
  BY <1>2, <1>3, <1>4, <1>7
<1>9. n[o][r] = m[o][r] /\ n[s][c] = m[s][c]
  BY <1>1, <1>5, <1>6
<1>10. Good(n, r) /\ Below(n, r) = {r} \cup B \cup A
  <2>1. \A z \in B : On(s, z, r)
    BY <1>3, <1>4
  <2>2. Good(n, r)
    BY <1>1, <1>4, <1>6, <1>8, <1>9, <2>1, GoodBuild
  <2>3. Below(n, r) = {r} \cup Below(n, n[s][r]) \cup Below(n, n[o][r])
    BY Unfold
  <2>4. QED
    BY <1>6, <1>8, <1>9, <2>2, <2>3
<1>11. ASSUME NEW z \in Below(n, r) PROVE On(o, z, c)
  <2>1. On(o, r, c)
    BY <1>4, <1>5, Order
  <2>2. ASSUME z \in A PROVE On(o, z, c)
    <3>1. On(o, z, r) /\ z \in Values
      BY <1>4, <1>5, <2>2
    <3>2. QED
      BY <1>1, <1>5, <2>1, <3>1, Order
  <2>3. QED
    BY <1>4, <1>10, <2>1, <2>2
<1>12. Good(n, c) /\ Below(n, c) = {c} \cup C \cup Below(n, r)
  <2>1. Good(n, c)
    BY <1>1, <1>4, <1>6, <1>8, <1>9, <1>10, <1>11, GoodBuild
  <2>2. Below(n, c) = {c} \cup Below(n, n[s][c]) \cup Below(n, n[o][c])
    BY <1>1, Unfold
  <2>3. QED
    BY <1>6, <1>8, <1>9, <2>1, <2>2
<1>13. Below(n, c) = Below(m, r)
  BY <1>3, <1>10, <1>12
<1>14. ASSUME NEW x, Below(m, x) \cap Below(m, r) = {} PROVE r \notin Below(m, x) /\ c \notin Below(m, x)
  BY <1>3, <1>4, <1>14
<1>15. QED
  BY <1>1, <1>7, <1>12, <1>13, <1>14 DEF Rebuilt

\* The tree on side s of SPLAY's node.
Piece(m, s) == Below(m, m[s][Header])

\* The tree is in three pieces: what is on side s of SPLAY's node is beyond the
\* key a that is looked for, and beyond the rest of the tree, which is at r.
Loose(a, m, r, e) ==
  /\ m \in Memory /\ r \in Keys /\ Good(m, r)
  /\ \A s \in Sides : OpenAt(m, s, e[Other(s)])
  /\ \A s \in Sides : \A y \in Piece(m, s) :
       On(Other(s), y, a) /\ \A z \in Below(m, r) : On(Other(s), y, z)

LEMMA Apart ==
  ASSUME NEW a \in Values, NEW m, NEW r, NEW e, Loose(a, m, r, e), NEW s \in Sides
  PROVE  Piece(m, s) \cap Below(m, r) = {} /\ Piece(m, s) \cap Piece(m, Other(s)) = {}
<1>1. Piece(m, s) \subseteq Values /\ Other(s) \in Sides /\ Other(Other(s)) = s
  BY UnderKeys, Sorts, Opposite DEF Piece
<1>2. ASSUME NEW y, y \in Piece(m, s), y \in Below(m, r) PROVE FALSE
  <2>1. On(Other(s), y, y) /\ y \in Values
    BY <1>1, <1>2 DEF Loose
  <2>2. QED
    BY <1>1, <2>1, Order
<1>3. ASSUME NEW y, y \in Piece(m, s), y \in Piece(m, Other(s)) PROVE FALSE
  <2>1. On(Other(s), y, a) /\ On(s, y, a) /\ y \in Values
    BY <1>1, <1>3 DEF Loose
  <2>2. QED
    BY <1>1, <2>1, Order
<1>4. QED
  BY <1>2, <1>3

\* n is m after SPLAY_LINK: the root r is at the open end on side s, with what
\* hangs on to it there; the way goes on at its child.
IsLinked(a, m, r, e, s, n) ==
  /\ Loose(a, n, m[s][r], [e EXCEPT ![Other(s)] = r])
  /\ Below(n, m[s][r]) = Below(m, m[s][r])
  /\ Piece(n, s) = Piece(m, s) \cup {r} \cup Below(m, m[Other(s)][r])
  /\ Piece(n, Other(s)) = Piece(m, Other(s))
  /\ \A x : Below(m, x) \cap (Below(m, r) \cup Piece(m, s)) = {} =>
              Below(n, x) = Below(m, x) /\ (Good(m, x) => Good(n, x))

LEMMA Link ==
  ASSUME NEW a \in Values, NEW m, NEW r, NEW e \in [Sides -> Keys \cup {Header}],
         Loose(a, m, r, e), NEW s \in Sides, On(s, a, r), m[s][r] \in Keys,
         NEW l, Sets(m, l, s, r, Null),
         NEW n, Sets(l, n, s, e[Other(s)], r)
  PROVE  IsLinked(a, m, r, e, s, n)
<1> DEFINE o == Other(s)
           q == m[s][r]
           b == e[o]
           A == Below(m, m[o][r])
           P == Piece(m, s)
<1>1. o \in Sides /\ o # s /\ Other(o) = s /\ \A t \in Sides : t = s \/ t = o
  BY Opposite
<1>2. m \in Memory /\ r \in Keys /\ Good(m, r) /\ OpenAt(m, s, b) /\ OpenAt(m, o, e[s])
  BY <1>1 DEF Loose
<1>3. Below(m, r) = {r} \cup Below(m, q) \cup A
  BY <1>2, Unfold
<1>4. /\ Good(m, q) /\ Good(m, m[o][r])
      /\ r \notin Below(m, q) /\ r \notin A /\ Below(m, q) \cap A = {}
      /\ \A z \in Below(m, q) : On(s, z, r)
      /\ \A z \in A : On(o, z, r)
  BY <1>1, <1>2, GoodRoot
<1>5. P \cap Below(m, r) = {} /\ P \cap Piece(m, o) = {} /\ Piece(m, o) \cap Below(m, r) = {}
  BY <1>1, Apart
<1>6. r \notin P /\ r \notin Piece(m, o) /\ r # Header /\ r \in Values
      /\ Keys \subseteq Values /\ Null \notin Keys
  BY <1>2, <1>3, <1>5, Sorts
<1>7. b # r /\ e[s] # r /\ b \in Keys \cup {Header}
  BY <1>1, <1>2, <1>6 DEF OpenAt, Piece
\* The root without its child.
<1>8. /\ l \in Memory /\ l[s][r] = Null
      /\ \A t \in Sides, y \in Keys \cup {Header} : t # s \/ y # r => l[t][y] = m[t][y]
  BY DEF Sets
<1>9. ASSUME NEW x, r \notin Below(m, x)
      PROVE  Below(l, x) = Below(m, x) /\ (Good(m, x) => Good(l, x))
  <2>1. \A y \in Below(m, x), t \in Sides : l[t][y] = m[t][y]
    BY <1>8, <1>9, UnderKeys
  <2>2. Below(l, x) = Below(m, x)
    BY <2>1, SameUnder
  <2>3. ASSUME Good(m, x) PROVE Good(l, x)
    BY <2>1, <2>3, GoodSame
  <2>4. QED
    BY <2>2, <2>3
<1>10. Good(l, r) /\ Below(l, r) = {r} \cup A
  <2>1. l[o][r] = m[o][r] /\ l[s][r] = Null
    BY <1>1, <1>2, <1>8
  <2>2. Below(l, Null) = {} /\ Good(l, Null)
    <3>1. Below(l, Null) = {}
      BY <1>6, UnderNothing
    <3>2. QED
      BY <3>1 DEF Good
  <2>3. Below(l, m[o][r]) = A /\ Good(l, m[o][r])
    BY <1>4, <1>9
  <2>4. Good(l, r)
    BY <1>2, <1>4, <2>1, <2>2, <2>3, GoodBuild
  <2>5. Below(l, r) = {r} \cup Below(l, l[s][r]) \cup Below(l, l[o][r])
    BY <1>2, Unfold
  <2>6. QED
    BY <2>1, <2>2, <2>3, <2>4, <2>5
<1>11. l[s][Header] = m[s][Header] /\ l[o][Header] = m[o][Header] /\ l[s][b] = m[s][b]
       /\ l[o][e[s]] = m[o][e[s]]
  BY <1>1, <1>2, <1>6, <1>7, <1>8 DEF OpenAt
<1>12. Below(l, m[s][Header]) = P /\ Good(l, m[s][Header])
  BY <1>2, <1>6, <1>9 DEF OpenAt, Piece
<1>13. Below(l, m[o][Header]) = Piece(m, o) /\ Good(l, m[o][Header])
  BY <1>2, <1>6, <1>9 DEF OpenAt, Piece
<1>14. Below(l, q) = Below(m, q) /\ Good(l, q)
  BY <1>4, <1>9
<1>15. OpenAt(l, s, b)
  BY <1>2, <1>11, <1>12 DEF OpenAt, Piece
\* It goes to the open end.
<1>16. \A y \in P, z \in Below(l, r) : On(o, y, z)
  BY <1>3, <1>10 DEF Loose
<1>17. /\ Good(n, n[s][Header]) /\ Below(n, n[s][Header]) = P \cup {r} \cup A
       /\ \A x : /\ Below(l, x) \cap P = {} => Below(n, x) = Below(l, x)
                 /\ Below(l, x) \cap P = {} /\ Good(l, x) => Good(n, x)
  <2>1. \A y \in Below(l, l[s][Header]), z \in Below(l, r) : On(o, y, z)
    BY <1>11, <1>12, <1>16
  <2>2. /\ Good(n, n[s][Header])
        /\ Below(n, n[s][Header]) = Below(l, l[s][Header]) \cup Below(l, r)
        /\ \A x : /\ Below(l, x) \cap Below(l, l[s][Header]) = {} => Below(n, x) = Below(l, x)
                  /\ Below(l, x) \cap Below(l, l[s][Header]) = {} /\ Good(l, x) => Good(n, x)
    BY <1>8, <1>10, <1>15, <2>1, Attach
  <2>3. QED
    BY <1>10, <1>11, <1>12, <2>2
<1>18. /\ n \in Memory /\ n[s][b] = r
       /\ \A t \in Sides, y \in Keys \cup {Header} : t # s \/ y # b => n[t][y] = l[t][y]
  BY DEF Sets
<1>19. Below(n, q) = Below(m, q) /\ Good(n, q)
  <2>1. Below(l, q) \cap P = {}
    BY <1>3, <1>5, <1>14
  <2>2. QED
    BY <1>14, <1>17, <2>1
<1>20. n[o][Header] = m[o][Header] /\ n[o][e[s]] = m[o][e[s]] /\ n[s][r] = Null
  <2>1. e[s] \in Keys \cup {Header}
    OBVIOUS
  <2>2. QED
    BY <1>1, <1>2, <1>7, <1>8, <1>11, <1>18, <2>1
<1>21. Below(n, n[o][Header]) = Piece(m, o) /\ Good(n, n[o][Header])
  <2>1. Below(l, m[o][Header]) \cap P = {}
    BY <1>5, <1>13
  <2>2. QED
    BY <1>13, <1>17, <1>20, <2>1
<1>22. Piece(n, s) = P \cup {r} \cup A /\ Piece(n, o) = Piece(m, o)
  BY <1>17, <1>21 DEF Piece
<1>23. OpenAt(n, o, e[s])
  BY <1>2, <1>20, <1>21 DEF OpenAt, Piece
<1>24. OpenAt(n, s, r)
  <2>1. \A y \in P \cup {r} \cup A : y = r \/ On(o, y, r)
    BY <1>3, <1>4 DEF Loose
  <2>2. QED
    BY <1>2, <1>17, <1>20, <2>1 DEF OpenAt
<1> DEFINE f == [e EXCEPT ![o] = r]
<1>25. f[o] = r /\ f[s] = e[s]
  BY <1>1
<1>26. \A t \in Sides : OpenAt(n, t, f[Other(t)])
  BY <1>1, <1>23, <1>24, <1>25
<1>27. ASSUME NEW y \in P \cup {r} \cup A
       PROVE  On(o, y, a) /\ \A z \in Below(m, q) : On(o, y, z)
  <2>1. CASE y \in P
    BY <1>3, <2>1 DEF Loose
  <2>2. On(o, r, a) /\ \A z \in Below(m, q) : On(o, r, z)
    <3>1. \A z \in Below(m, q) : z \in Values
      BY <1>6, UnderKeys
    <3>2. QED
      BY <1>1, <1>4, <1>6, <3>1, Order
  <2>3. CASE y \in A
    <3>1. y \in Values /\ On(o, y, r)
      BY <1>4, <1>6, <2>3, UnderKeys
    <3>2. ASSUME NEW z \in Values, On(o, r, z) PROVE On(o, y, z)
      BY <1>1, <1>6, <3>1, <3>2, Order
    <3>3. \A z \in Below(m, q) : z \in Values
      BY <1>6, UnderKeys
    <3>4. QED
      BY <2>2, <3>2, <3>3
  <2>4. QED
    BY <2>1, <2>2, <2>3
<1>28. ASSUME NEW y \in Piece(m, o)
       PROVE  On(s, y, a) /\ \A z \in Below(m, q) : On(s, y, z)
  <2>1. On(Other(o), y, a) /\ \A z \in Below(m, r) : On(Other(o), y, z)
    BY <1>1 DEF Loose
  <2>2. QED
    BY <1>1, <1>3, <2>1
<1>29. \A t \in Sides : \A y \in Piece(n, t) :
         On(Other(t), y, a) /\ \A z \in Below(n, q) : On(Other(t), y, z)
  BY <1>1, <1>19, <1>22, <1>27, <1>28
<1>30. Loose(a, n, q, f)
  BY <1>18, <1>19, <1>26, <1>29 DEF Loose
<1>31. ASSUME NEW x, Below(m, x) \cap (Below(m, r) \cup P) = {}
       PROVE  Below(n, x) = Below(m, x) /\ (Good(m, x) => Good(n, x))
  <2>1. r \notin Below(m, x) /\ Below(m, x) \cap P = {}
    BY <1>3, <1>31
  <2>2. QED
    BY <1>9, <1>17, <2>1
<1>32. QED
  BY <1>19, <1>22, <1>30, <1>31 DEF IsLinked

\* n is m with the three pieces in one tree.
IsAssembled(m, r, n) ==
  /\ Good(n, r)
  /\ Below(n, r) = Below(m, r) \cup Piece(m, "left") \cup Piece(m, "right")
  /\ \A x : Below(m, x) \cap (Below(m, r) \cup Piece(m, "left") \cup Piece(m, "right")) = {} =>
              Below(n, x) = Below(m, x) /\ (Good(m, x) => Good(n, x))

\* SPLAY_ASSEMBLE: the root's two subtrees go to the open ends, and what then
\* hangs on SPLAY's node goes to the root.
Assembles(m, r, e, l, k, n) ==
  /\ Sets(m, l, "right", e["left"], m["left"][r])
  /\ Sets(l, k, "left", e["right"], m["right"][r])
  /\ \A t \in Sides : n[t][r] = k[Other(t)][Header]
  /\ \A t \in Sides, y \in Keys : y # r => n[t][y] = k[t][y]

LEMMA Assembly ==
  ASSUME NEW a \in Values, NEW m, NEW r, NEW e \in [Sides -> Keys \cup {Header}],
         Loose(a, m, r, e), NEW l, NEW k, NEW n, Assembles(m, r, e, l, k, n)
  PROVE  IsAssembled(m, r, n)
<1> DEFINE PL == Piece(m, "left")
           PR == Piece(m, "right")
           TL == Below(m, m["left"][r])
           TR == Below(m, m["right"][r])
<1>0. /\ Sets(m, l, "right", e["left"], m["left"][r])
      /\ Sets(l, k, "left", e["right"], m["right"][r])
      /\ \A t \in Sides : n[t][r] = k[Other(t)][Header]
      /\ \A t \in Sides, y \in Keys : y # r => n[t][y] = k[t][y]
  BY DEF Assembles
<1>1. /\ "left" \in Sides /\ "right" \in Sides /\ "left" # "right"
      /\ Other("left") = "right" /\ Other("right") = "left"
  BY DEF Sides, Other
<1>2. /\ m \in Memory /\ r \in Keys /\ Good(m, r)
      /\ OpenAt(m, "right", e["left"]) /\ OpenAt(m, "left", e["right"])
  BY <1>1 DEF Loose
<1>3. Below(m, r) = {r} \cup TL \cup TR
  BY <1>1, <1>2, Unfold
<1>4. /\ Good(m, m["left"][r]) /\ Good(m, m["right"][r])
      /\ r \notin TL /\ r \notin TR /\ TL \cap TR = {}
      /\ \A z \in TL : On("left", z, r)
      /\ \A z \in TR : On("right", z, r)
  <2>1. /\ Good(m, m["left"][r]) /\ r \notin TL /\ \A z \in TL : On("left", z, r)
        /\ TL \cap Below(m, m[Other("left")][r]) = {}
    BY <1>1, <1>2, GoodRoot
  <2>2. Good(m, m["right"][r]) /\ r \notin TR /\ \A z \in TR : On("right", z, r)
    BY <1>1, <1>2, GoodRoot
  <2>3. QED
    BY <1>1, <2>1, <2>2
<1>5. PL \cap Below(m, r) = {} /\ PR \cap Below(m, r) = {} /\ PL \cap PR = {}
  BY <1>1, Apart
<1>6. /\ \A y \in PR, z \in Below(m, r) : On("left", y, z)
      /\ \A y \in PL, z \in Below(m, r) : On("right", y, z)
  BY <1>1 DEF Loose
<1>7. r # Header
  BY <1>2, Sorts
\* The left subtree to the smaller keys.
<1>8. /\ Good(l, l["right"][Header]) /\ Below(l, l["right"][Header]) = PR \cup TL
      /\ \A x : /\ Below(m, x) \cap PR = {} => Below(l, x) = Below(m, x)
                /\ Below(m, x) \cap PR = {} /\ Good(m, x) => Good(l, x)
  <2>1. \A y \in Below(m, m["right"][Header]), z \in TL : On(Other("right"), y, z)
    BY <1>1, <1>3, <1>6 DEF Piece
  <2>2. /\ Good(l, l["right"][Header])
        /\ Below(l, l["right"][Header]) = Below(m, m["right"][Header]) \cup TL
        /\ \A x : /\ Below(m, x) \cap Below(m, m["right"][Header]) = {} => Below(l, x) = Below(m, x)
                  /\ Below(m, x) \cap Below(m, m["right"][Header]) = {} /\ Good(m, x) => Good(l, x)
    BY <1>0, <1>1, <1>2, <1>4, <2>1, Attach
  <2>3. QED
    BY <2>2 DEF Piece
<1>9. /\ l \in Memory
      /\ l["left"][Header] = m["left"][Header]
      /\ l["left"][e["right"]] = m["left"][e["right"]]
  BY <1>0, <1>1 DEF Sets
<1>10. /\ Below(l, m["right"][r]) = TR /\ Good(l, m["right"][r])
       /\ Below(l, m["left"][Header]) = PL /\ Good(l, m["left"][Header])
  <2>1. TR \cap PR = {}
    BY <1>3, <1>5
  <2>2. Below(m, m["left"][Header]) = PL /\ Good(m, m["left"][Header])
    BY <1>2 DEF OpenAt, Piece
  <2>3. PL \cap PR = {}
    BY <1>5
  <2>4. Below(l, m["right"][r]) = TR /\ Good(l, m["right"][r])
    BY <1>4, <1>8, <2>1
  <2> HIDE DEF PL, PR
  <2>5. QED
    BY <1>8, <2>2, <2>3, <2>4
<1>11. OpenAt(l, "left", e["right"])
  BY <1>2, <1>9, <1>10 DEF OpenAt, Piece
\* The right subtree to the greater ones.
<1>12. /\ Good(k, k["left"][Header]) /\ Below(k, k["left"][Header]) = PL \cup TR
       /\ \A x : /\ Below(l, x) \cap PL = {} => Below(k, x) = Below(l, x)
                 /\ Below(l, x) \cap PL = {} /\ Good(l, x) => Good(k, x)
  <2>1. \A y \in Below(l, l["left"][Header]), z \in Below(l, m["right"][r]) : On(Other("left"), y, z)
    BY <1>1, <1>3, <1>6, <1>9, <1>10
  <2>2. /\ Good(k, k["left"][Header])
        /\ Below(k, k["left"][Header]) = Below(l, l["left"][Header]) \cup Below(l, m["right"][r])
        /\ \A x : /\ Below(l, x) \cap Below(l, l["left"][Header]) = {} => Below(k, x) = Below(l, x)
                  /\ Below(l, x) \cap Below(l, l["left"][Header]) = {} /\ Good(l, x) => Good(k, x)
    BY <1>0, <1>1, <1>9, <1>10, <1>11, <2>1, Attach
  <2>3. QED
    BY <1>9, <1>10, <2>2
<1>13. Below(k, k["right"][Header]) = PR \cup TL /\ Good(k, k["right"][Header])
  <2>1. k["right"][Header] = l["right"][Header]
    BY <1>0, <1>1 DEF Sets
  <2>2. Below(l, l["right"][Header]) \cap PL = {}
    BY <1>3, <1>5, <1>8
  <2>3. QED
    BY <1>8, <1>12, <2>1, <2>2
\* Both to the root.
<1>14. ASSUME NEW x, r \notin Below(k, x)
       PROVE  Below(n, x) = Below(k, x) /\ (Good(k, x) => Good(n, x))
  <2>1. \A y \in Below(k, x), t \in Sides : n[t][y] = k[t][y]
    BY <1>0, <1>14, UnderKeys
  <2>2. Below(n, x) = Below(k, x)
    BY <2>1, SameUnder
  <2>3. ASSUME Good(k, x) PROVE Good(n, x)
    BY <2>1, <2>3, GoodSame
  <2>4. QED
    BY <2>2, <2>3
<1>15. n["left"][r] = k["right"][Header] /\ n["right"][r] = k["left"][Header]
  BY <1>0, <1>1
<1>16. r \notin PL /\ r \notin PR
  BY <1>3, <1>5
<1>17. /\ Below(n, n["left"][r]) = PR \cup TL /\ Good(n, n["left"][r])
       /\ Below(n, n["right"][r]) = PL \cup TR /\ Good(n, n["right"][r])
  BY <1>4, <1>12, <1>13, <1>14, <1>15, <1>16
<1>18. /\ \A z \in PR \cup TL : On("left", z, r)
       /\ \A z \in PL \cup TR : On("right", z, r)
  BY <1>3, <1>4, <1>6
<1>19. Good(n, r)
  BY <1>1, <1>2, <1>17, <1>18, GoodBuild
<1>20. Below(n, r) = Below(m, r) \cup PL \cup PR
  <2>1. Below(n, r) = {r} \cup Below(n, n["left"][r]) \cup Below(n, n["right"][r])
    BY <1>1, <1>2, Unfold
  <2>2. QED
    BY <1>3, <1>17, <2>1
<1>21. ASSUME NEW x, Below(m, x) \cap (Below(m, r) \cup PL \cup PR) = {}
       PROVE  Below(n, x) = Below(m, x) /\ (Good(m, x) => Good(n, x))
  <2>1. Below(m, x) \cap PR = {} /\ Below(m, x) \cap PL = {} /\ r \notin Below(m, x)
    BY <1>3, <1>21
  <2>2. Below(l, x) = Below(m, x) /\ (Good(m, x) => Good(l, x))
    BY <1>8, <2>1
  <2>3. Below(k, x) = Below(m, x) /\ (Good(m, x) => Good(k, x))
    BY <1>12, <2>1, <2>2
  <2>4. QED
    BY <1>14, <2>1, <2>3
<1>22. QED
  BY <1>19, <1>20, <1>21 DEF IsAssembled

-----------------------------------------------------------------------------
(* The invariant.                                                          *)

\* k as the pieces are in it: behind the open ends k has pointers that SPLAY
\* will set before it ends.
CutOf(k, e) ==
  [s \in Sides |-> [x \in Keys \cup {Header} |-> IF x = e[Other(s)] THEN Null ELSE k[s][x]]]

Cut == CutOf(kid, end)

\* The elements of SPLAY's pieces, and of these and the saved tree.
Spread == Below(Cut, root) \cup Piece(Cut, "left") \cup Piece(Cut, "right")
All == Spread \cup Below(Cut, saved)

\* Between calls there is a search tree at the root.  In a call it is in pieces,
\* and behind an open end is a pointer that SPLAY has not yet set, to some
\* element.  In the second half of SPLAY_REMOVE the greater keys are saved.
PiecesInv ==
  /\ root \in Keys \cup {Null} /\ saved \in Keys \cup {Null} /\ kid \in Memory
  /\ op \in {"idle", "insert", "remove", "join", "find", "next", "min", "max"}
  /\ arg \in Values /\ end \in [Sides -> Keys \cup {Header}] /\ ret \in Keys \cup {Null}
  /\ Good(Cut, saved)
  /\ \A s \in Sides : kid[s][end[Other(s)]] \in All \cup {Null}
  /\ op = "idle" => Good(Cut, root) /\ end = [s \in Sides |-> Header]
  /\ op # "idle" => Loose(arg, Cut, root, end)
  /\ op # "join" => saved = Null
  /\ op = "join" => (\A x \in Spread : x < arg) /\ (\A x \in Below(Cut, saved) : arg < x)
  /\ op \in {"insert", "remove", "join", "find", "next"} => arg \in Keys
  /\ op = "min" => arg = 0
  /\ op = "max" => arg = N + 1
  /\ op = "next" => arg \in All

LEMMA CutIs ==
  ASSUME NEW k \in Memory, NEW e \in [Sides -> Keys \cup {Header}]
  PROVE  /\ CutOf(k, e) \in Memory
         /\ \A s \in Sides, x \in Keys \cup {Header} :
              /\ x = e[Other(s)] => CutOf(k, e)[s][x] = Null
              /\ x # e[Other(s)] => CutOf(k, e)[s][x] = k[s][x]
  BY Sorts DEF CutOf, Memory

LEMMA NothingUnderNull == \A m : Below(m, Null) = {} /\ Good(m, Null)
  BY Sorts, UnderNothing DEF Good

\* What hangs on to the pieces through the memory as it is, is what the pieces
\* are.
LEMMA KeysAre == PiecesInv => keys = All
<1> SUFFICES ASSUME PiecesInv PROVE keys = All
  OBVIOUS
<1> DEFINE X == {root, saved, kid["left"][Header], kid["right"][Header]}
<1>1. /\ "left" \in Sides /\ "right" \in Sides /\ \A s \in Sides : s = "left" \/ s = "right"
      /\ Null \notin Keys
  BY Sorts DEF Sides
<1>2. \A s \in Sides, x \in Keys \cup {Header} :
        /\ x = end[Other(s)] => Cut[s][x] = Null
        /\ x # end[Other(s)] => Cut[s][x] = kid[s][x]
  BY CutIs DEF PiecesInv, Cut
<1>3. keys = {y \in Keys : \A S \in SUBSET Keys : X \cap Keys \subseteq S /\ Closed(kid, S) => y \in S}
  BY UnderKids DEF keys
<1>4. All \in SUBSET Keys
  BY UnderKeys DEF All, Spread, Piece
<1>5. ASSUME NEW S \in SUBSET Keys, X \cap Keys \subseteq S, Closed(kid, S)
      PROVE  All \subseteq S
  <2>1. Closed(Cut, S)
    BY <1>1, <1>2, <1>5 DEF Closed
  <2>2. ASSUME NEW x, x \in Keys => x \in S PROVE Below(Cut, x) \subseteq S
    <3>1. CASE x \in Keys
      BY <2>1, <2>2, <3>1, UnderIs
    <3>2. CASE x \notin Keys
      BY <3>2, UnderNothing
    <3>3. QED
      BY <3>1, <3>2
  <2>3. (root \in Keys => root \in S) /\ (saved \in Keys => saved \in S)
    BY <1>5
  <2>4. ASSUME NEW s \in Sides PROVE Cut[s][Header] \in Keys => Cut[s][Header] \in S
    <3>1. kid[s][Header] \in X
      BY <1>1
    <3>2. Cut[s][Header] \in Keys => Cut[s][Header] = kid[s][Header]
      BY <1>1, <1>2
    <3>3. QED
      BY <1>5, <3>1, <3>2
  <2>5. QED
    BY <1>1, <2>2, <2>3, <2>4 DEF All, Spread, Piece
<1>6. X \cap Keys \subseteq All
  <2>1. (root \in Keys => root \in All) /\ (saved \in Keys => saved \in All)
    BY UnderIs DEF All, Spread
  <2>2. ASSUME NEW s \in Sides, kid[s][Header] \in Keys PROVE kid[s][Header] \in All
    <3>1. CASE Header = end[Other(s)]
      BY <1>1, <2>2, <3>1 DEF PiecesInv
    <3>2. CASE Header # end[Other(s)]
      <4>1. Cut[s][Header] = kid[s][Header]
        BY <1>2, <3>2
      <4>2. kid[s][Header] \in Piece(Cut, s)
        BY <2>2, <4>1, UnderIs DEF Piece
      <4>3. QED
        BY <1>1, <4>2 DEF All, Spread
    <3>3. QED
      BY <3>1, <3>2
  <2>3. QED
    BY <1>1, <2>1, <2>2
<1>7. ASSUME NEW x \in All, NEW s \in Sides, kid[s][x] \in Keys PROVE kid[s][x] \in All
  <2>1. CASE x = end[Other(s)]
    BY <1>1, <1>7, <2>1 DEF PiecesInv
  <2>2. CASE x # end[Other(s)]
    <3>1. Cut[s][x] = kid[s][x]
      BY <1>2, <1>4, <2>2
    <3>2. kid[s][x] \in Below(Cut, Cut[s][x])
      BY <1>7, <3>1, UnderIs
    <3>3. ASSUME NEW y, x \in Below(Cut, y) PROVE Below(Cut, Cut[s][x]) \subseteq Below(Cut, y)
      BY <3>3, UnderPart
    <3>4. QED
      BY <3>2, <3>3 DEF All, Spread, Piece
  <2>3. QED
    BY <2>1, <2>2
<1>8. Closed(kid, All)
  BY <1>7 DEF Closed
<1> HIDE DEF X
<1>9. keys \subseteq All
  BY <1>3, <1>4, <1>6, <1>8
<1>10. All \subseteq keys
  BY <1>3, <1>4, <1>5
<1>11. QED
  BY <1>9, <1>10

\* The saved tree has no element of the others.
LEMMA SavedApart ==
  PiecesInv => Below(Cut, saved) \cap Spread = {}
<1> SUFFICES ASSUME PiecesInv PROVE Below(Cut, saved) \cap Spread = {}
  OBVIOUS
<1>1. CASE op # "join"
  BY <1>1, NothingUnderNull DEF PiecesInv
<1>2. CASE op = "join"
  <2>1. ASSUME NEW x, x \in Below(Cut, saved), x \in Spread PROVE FALSE
    <3>1. x \in Values /\ arg \in Values
      BY <2>1, UnderKeys, Sorts DEF PiecesInv
    <3>2. x < arg /\ arg < x
      BY <1>2, <2>1 DEF PiecesInv
    <3>3. QED
      BY <3>1, <3>2, PointersAssumption DEF Values
  <2>2. QED
    BY <2>1
<1>3. QED
  BY <1>1, <1>2

\* A pointer that is none behind an open end.
LEMMA CutSets ==
  ASSUME NEW k \in Memory, NEW e \in [Sides -> Keys \cup {Header}], NEW s \in Sides,
         NEW x \in Keys \cup {Header}, x # e[Other(s)], NEW q \in Nodes
  PROVE  Sets(CutOf(k, e), CutOf([k EXCEPT ![s][x] = q], e), s, x, q)
<1>1. [k EXCEPT ![s][x] = q] \in Memory
  BY DEF Memory
<1>2. CutOf(k, e) \in Memory /\ CutOf([k EXCEPT ![s][x] = q], e) \in Memory
  BY <1>1, CutIs
<1>3. QED
  BY <1>2 DEF Sets, CutOf, Memory

-----------------------------------------------------------------------------
(* One iteration of SPLAY.                                                 *)

LEMMA TowardIs ==
  ASSUME arg \in Values, NEW x \in Keys
  PROVE  /\ Toward(x) \in Sides
         /\ x = arg \/ On(Toward(x), arg, x)
         /\ \A s \in Sides : On(s, arg, x) => Toward(x) = s
  BY Sorts, PointersAssumption DEF Values, Toward, Sides, On

\* With or without a rotation the pieces are over the same keys, and the way to
\* arg ends where AtEnd says so.
LEMMA TurnedIs ==
  ASSUME PiecesInv, op # "idle", NEW k, NEW r, NEW g,
         k = Turned.kid, r = Turned.root, g = CutOf(k, end)
  PROVE  /\ k \in Memory /\ Loose(arg, g, r, end)
         /\ Below(g, r) = Below(Cut, root) /\ \A s \in Sides : Piece(g, s) = Piece(Cut, s)
         /\ Below(g, saved) = Below(Cut, saved) /\ Good(g, saved)
         /\ \A s \in Sides : k[s][end[Other(s)]] = kid[s][end[Other(s)]]
         /\ AtEnd => arg = r \/ g[Toward(r)][r] = Null
         /\ ~AtEnd => arg # r /\ Toward(r) = Toward(root) /\ g[Toward(r)][r] \in Keys
<1>1. /\ Loose(arg, Cut, root, end) /\ root \in Keys /\ Good(Cut, root) /\ Cut \in Memory
      /\ kid \in Memory /\ end \in [Sides -> Keys \cup {Header}] /\ arg \in Values
      /\ Good(Cut, saved)
  BY DEF PiecesInv, Loose
<1>2. Null \notin Keys /\ Keys \subseteq Nodes /\ Header \notin Keys
  BY Sorts
<1> DEFINE s == Toward(root)
           o == Other(s)
           c == Child
<1>3. /\ s \in Sides /\ o \in Sides /\ o # s /\ Other(o) = s
      /\ \A t \in Sides : t = s \/ t = o
  BY <1>1, TowardIs, Opposite
<1>4. \A t \in Sides, x \in Keys \cup {Header} :
        /\ x = end[Other(t)] => Cut[t][x] = Null
        /\ x # end[Other(t)] => Cut[t][x] = kid[t][x]
  BY <1>1, CutIs DEF Cut
\* No open end is in the tree at the root.
<1>5. ASSUME NEW x \in Below(Cut, root), NEW t \in Sides
      PROVE  x \in Keys /\ x # end[Other(t)] /\ Cut[t][x] = kid[t][x]
  <2>1. x \in Keys
    BY UnderKeys
  <2>2. Piece(Cut, t) \cap Below(Cut, root) = {}
    BY <1>1, Apart
  <2>3. OpenAt(Cut, t, end[Other(t)])
    BY <1>1 DEF Loose
  <2>4. x # end[Other(t)]
    BY <1>2, <2>1, <2>2, <2>3 DEF OpenAt, Piece
  <2>5. QED
    BY <1>4, <2>1, <2>4
<1>6. root \in Below(Cut, root) /\ Cut[s][root] = c
  <2>1. root \in Below(Cut, root)
    BY <1>1, UnderIs
  <2>2. QED
    BY <1>3, <1>5, <2>1 DEF Child
<1>7. c \in Keys \cup {Null}
  BY <1>1, <1>3, <1>6 DEF Good
<1> HIDE DEF c, s, o
<1> DEFINE turns == arg # root /\ c # Null /\ arg # c /\ Toward(c) = s
<1>8. AtEnd <=> arg = root \/ c = Null \/ k[s][r] = Null
  BY DEF AtEnd, c, s
<1>9. CASE ~turns
  <2>1. k = kid /\ r = root
    BY <1>9 DEF Turned, s, o, c
  <2>2. g = Cut
    BY <2>1 DEF Cut
  <2>3. k[s][r] = c /\ Toward(r) = s
    BY <2>1 DEF c, s, Child
  <2>4. /\ AtEnd => arg = r \/ g[Toward(r)][r] = Null
        /\ ~AtEnd => arg # r /\ Toward(r) = Toward(root) /\ g[Toward(r)][r] \in Keys
    BY <1>6, <1>7, <1>8, <2>1, <2>2, <2>3
  <2>5. QED
    BY <1>1, <2>1, <2>2, <2>4
<1>10. CASE turns
  <2>1. c \in Keys /\ arg # root /\ arg # c /\ Toward(c) = s
    BY <1>7, <1>10
  <2>2. c \in Below(Cut, root)
    <3>1. c \in Below(Cut, Cut[s][root])
      BY <1>6, <2>1, UnderIs
    <3>2. QED
      BY <1>3, <1>6, <3>1, UnderPart
  <2>3. r = c /\ k = [kid EXCEPT ![s][root] = kid[o][c], ![o][c] = root]
    BY <1>10 DEF Turned, s, o, c
  <2> DEFINE h == [kid EXCEPT ![s][root] = kid[o][c]]
             l == CutOf(h, end)
  <2>4. h \in Memory /\ kid[o][c] \in Nodes
    BY <1>1, <1>3, <2>1 DEF Memory
  <2>5. k = [h EXCEPT ![o][c] = root] /\ k \in Memory
    <3>1. k = [h EXCEPT ![o][c] = root]
      BY <2>3
    <3> HIDE DEF h
    <3>2. root \in Nodes
      BY <1>1, <1>2
    <3>3. [h EXCEPT ![o][c] = root] \in Memory
      BY <1>3, <2>1, <2>4, <3>2 DEF Memory
    <3>4. QED
      BY <3>1, <3>3
  <2>6. Sets(Cut, l, s, root, kid[o][c])
    BY <1>1, <1>3, <1>5, <1>6, <2>4, CutSets DEF Cut
  <2>7. Sets(l, g, o, c, root)
    <3>1. c # end[Other(o)] /\ root \in Nodes
      BY <1>1, <1>2, <1>3, <1>5, <2>2
    <3> HIDE DEF h
    <3>2. Sets(CutOf(h, end), CutOf([h EXCEPT ![o][c] = root], end), o, c, root)
      BY <1>1, <1>3, <2>1, <2>4, <3>1, CutSets
    <3>3. QED
      BY <2>5, <3>2
  <2> HIDE DEF h, l
  <2>8. Cut[o][c] = kid[o][c]
    BY <1>3, <1>5, <2>2
  <2>9. /\ g \in Memory /\ Good(g, c) /\ Below(g, c) = Below(Cut, root)
        /\ \A x : /\ Below(Cut, x) \cap Below(Cut, root) = {} => Below(g, x) = Below(Cut, x)
                  /\ Below(Cut, x) \cap Below(Cut, root) = {} /\ Good(Cut, x) => Good(g, x)
    <3>1. Sets(Cut, l, s, root, Cut[Other(s)][Cut[s][root]])
      BY <1>6, <2>6, <2>8 DEF o
    <3>2. Sets(l, g, Other(s), Cut[s][root], root)
      BY <1>6, <2>7 DEF o
    <3>3. Rebuilt(Cut, g, root, Cut[s][root])
      <4>1. /\ s \in Sides /\ Cut[s][root] \in Keys
            /\ Cut \in Memory /\ root \in Keys /\ Good(Cut, root)
        BY <1>1, <1>3, <1>6, <2>1
      <4>2. QED
        BY <3>1, <3>2, <4>1, Turn
    <3>4. QED
      BY <1>6, <3>3 DEF Rebuilt
  <2>10. \A t \in Sides, x \in Keys \cup {Header} :
           x # root /\ x # c => g[t][x] = Cut[t][x] /\ k[t][x] = kid[t][x]
    <3>1. \A t \in Sides, x \in Keys \cup {Header} :
            x # root /\ x # c => g[t][x] = Cut[t][x]
      BY <2>6, <2>7 DEF Sets
    <3>2. \A t \in Sides, x \in Keys \cup {Header} :
            x # root /\ x # c => k[t][x] = kid[t][x]
      <4>1. \A t \in Sides, x \in Keys \cup {Header} : x # root => h[t][x] = kid[t][x]
        BY <1>1, <1>3 DEF Memory, h
      <4>2. \A t \in Sides, x \in Keys \cup {Header} : x # c => k[t][x] = h[t][x]
        BY <1>3, <2>4, <2>5 DEF Memory
      <4>3. QED
        BY <4>1, <4>2
    <3>3. QED
      BY <3>1, <3>2
  <2>11. ASSUME NEW t \in Sides
         PROVE  /\ OpenAt(g, t, end[Other(t)]) /\ Piece(g, t) = Piece(Cut, t)
                /\ k[t][end[Other(t)]] = kid[t][end[Other(t)]]
    <3>1. OpenAt(Cut, t, end[Other(t)]) /\ Piece(Cut, t) \cap Below(Cut, root) = {}
      BY <1>1, Apart DEF Loose
    <3>2. end[Other(t)] # root /\ end[Other(t)] # c /\ end[Other(t)] \in Keys \cup {Header}
      BY <1>1, <1>5, <1>6, <2>2, <3>1 DEF OpenAt
    <3>3. /\ g[t][Header] = Cut[t][Header]
          /\ g[t][end[Other(t)]] = Cut[t][end[Other(t)]]
          /\ k[t][end[Other(t)]] = kid[t][end[Other(t)]]
      BY <1>1, <1>2, <2>1, <2>10, <3>2
    <3>4. Below(g, Cut[t][Header]) = Below(Cut, Cut[t][Header]) /\ Good(g, Cut[t][Header])
      BY <2>9, <3>1 DEF OpenAt, Piece
    <3>5. QED
      BY <3>1, <3>3, <3>4 DEF OpenAt, Piece
  <2>12. Loose(arg, g, r, end)
    BY <1>1, <2>1, <2>3, <2>9, <2>11 DEF Loose
  <2>13. Below(g, saved) = Below(Cut, saved) /\ Good(g, saved)
    BY <1>1, <2>9, SavedApart DEF Spread
  <2>14. g[s][c] \in Keys \cup {Null} /\ g[s][c] = k[s][c]
    <3>1. g[s][c] \in Keys \cup {Null}
      BY <1>3, <2>1, <2>9, UnderIs DEF Good
    <3>2. c # end[Other(s)]
      BY <1>3, <1>5, <2>2
    <3>3. QED
      <4>1. CutOf(k, end)[s][c] = k[s][c]
        <5>1. k \in Memory /\ end \in [Sides -> Keys \cup {Header}] /\ s \in Sides
              /\ c \in Keys \cup {Header} /\ c # end[Other(s)]
          BY <1>1, <1>3, <2>1, <2>5, <3>2
        <5>2. QED
          BY <5>1, CutIs, Zenon
      <4>2. QED
        BY <3>1, <4>1
  <2>15. /\ AtEnd => arg = r \/ g[Toward(r)][r] = Null
         /\ ~AtEnd => arg # r /\ Toward(r) = Toward(root) /\ g[Toward(r)][r] \in Keys
    BY <1>2, <1>8, <2>1, <2>3, <2>14 DEF s
  <2>16. QED
    BY <2>3, <2>5, <2>9, <2>11, <2>12, <2>13, <2>15
<1>11. QED
  BY <1>9, <1>10

LEMMA SplayKeeps ==
  ASSUME PiecesInv, Splay
  PROVE  PiecesInv' /\ All' = All
<1> DEFINE k == Turned.kid
           r == Turned.root
           g == CutOf(k, end)
           s == Toward(root)
           o == Other(s)
           b == end[o]
           l == [g EXCEPT ![s][r] = Null]
<1>1. /\ op # "idle" /\ ~AtEnd
      /\ kid' = [k EXCEPT ![s][b] = r] /\ end' = [end EXCEPT ![o] = r]
      /\ root' = k[s][r]
      /\ op' = op /\ arg' = arg /\ saved' = saved /\ ret' = ret
  BY DEF Splay
<1>2. /\ k \in Memory /\ Loose(arg, g, r, end)
      /\ Below(g, r) = Below(Cut, root) /\ \A t \in Sides : Piece(g, t) = Piece(Cut, t)
      /\ Below(g, saved) = Below(Cut, saved) /\ Good(g, saved)
      /\ \A t \in Sides : k[t][end[Other(t)]] = kid[t][end[Other(t)]]
      /\ arg # r /\ Toward(r) = s /\ g[s][r] \in Keys
  <2> HIDE DEF k, r, g
  <2>1. /\ k \in Memory /\ Loose(arg, g, r, end)
        /\ Below(g, r) = Below(Cut, root) /\ \A t \in Sides : Piece(g, t) = Piece(Cut, t)
        /\ Below(g, saved) = Below(Cut, saved) /\ Good(g, saved)
        /\ \A t \in Sides : k[t][end[Other(t)]] = kid[t][end[Other(t)]]
        /\ ~AtEnd => arg # r /\ Toward(r) = Toward(root) /\ g[Toward(r)][r] \in Keys
    BY <1>1, TurnedIs DEF k, r, g
  <2>2. QED
    BY <1>1, <2>1
<1> HIDE DEF k, r, g
<1>3. /\ end \in [Sides -> Keys \cup {Header}] /\ arg \in Values /\ root \in Keys
      /\ r \in Keys /\ g \in Memory /\ Good(g, r)
  BY <1>1, <1>2 DEF PiecesInv, Loose
<1>4. s \in Sides /\ On(s, arg, r)
  BY <1>2, <1>3, TowardIs
<1> HIDE DEF s
<1>5. o \in Sides /\ o # s /\ Other(o) = s /\ \A t \in Sides : t = s \/ t = o
  BY <1>4, Opposite
<1>6. Null \in Nodes /\ Keys \subseteq Nodes /\ Header \notin Keys
  BY Sorts
<1>7. ASSUME NEW t \in Sides PROVE end[t] # r /\ end[t] \in Keys \cup {Header}
  <2>1. Other(t) \in Sides /\ Other(Other(t)) = t
    BY Opposite
  <2>2. OpenAt(g, Other(t), end[t]) /\ Piece(g, Other(t)) \cap Below(g, r) = {} /\ r \in Below(g, r)
    BY <1>2, <1>3, <2>1, Apart, UnderIs DEF Loose
  <2>3. QED
    BY <1>3, <1>6, <2>2 DEF OpenAt, Piece
<1>8. b # r /\ b \in Keys \cup {Header}
  BY <1>5, <1>7
<1>9. g[s][r] = k[s][r]
  <2>1. g[s][r] = CutOf(k, end)[s][r]
    BY DEF g
  <2>2. \A t \in Sides, x \in Keys \cup {Header} : x # end[Other(t)] => CutOf(k, end)[t][x] = k[t][x]
    BY <1>2, <1>3, CutIs
  <2>3. QED
    BY <1>3, <1>4, <1>8, <2>1, <2>2
<1>10. Sets(g, l, s, r, Null)
  BY <1>3, <1>4, <1>6, OnePointer
<1>11. kid' \in Memory /\ end' \in [Sides -> Keys \cup {Header}]
       /\ end'[o] = r /\ end'[s] = end[s]
       /\ \A t \in Sides, x \in Keys \cup {Header} :
            kid'[t][x] = IF t = s /\ x = b THEN r ELSE k[t][x]
  <2>1. Sets(k, [k EXCEPT ![s][b] = r], s, b, r)
    BY <1>2, <1>3, <1>4, <1>6, <1>8, OnePointer
  <2>2. Sets(k, kid', s, b, r)
    BY <1>1, <2>1
  <2>3. end' \in [Sides -> Keys \cup {Header}] /\ end'[o] = r /\ end'[s] = end[s]
    BY <1>1, <1>3, <1>4, <1>5
  <2>4. QED
    BY <1>4, <1>8, <2>2, <2>3 DEF Sets
<1>12. Sets(l, Cut', s, b, r)
  <2>1. Cut' \in Memory
        /\ \A t \in Sides, x \in Keys \cup {Header} :
             /\ x = end'[Other(t)] => Cut'[t][x] = Null
             /\ x # end'[Other(t)] => Cut'[t][x] = kid'[t][x]
    BY <1>11, CutIs DEF Cut
  <2>2. \A t \in Sides, x \in Keys \cup {Header} :
          /\ x = end[Other(t)] => g[t][x] = Null
          /\ x # end[Other(t)] => g[t][x] = k[t][x]
    BY <1>2, <1>3, CutIs DEF g
  <2>3. /\ l[s][r] = Null
        /\ \A t \in Sides, x \in Keys \cup {Header} : t # s \/ x # r => l[t][x] = g[t][x]
    BY <1>10 DEF Sets
  <2>4. Cut'[s][b] = r
    BY <1>4, <1>8, <1>11, <2>1
  <2>5. ASSUME NEW t \in Sides, NEW x \in Keys \cup {Header}, t # s \/ x # b
        PROVE  Cut'[t][x] = l[t][x]
    <3>1. CASE t = s /\ x = r
      BY <1>11, <2>1, <2>3, <3>1
    <3>2. CASE t = s /\ x # r
      BY <1>11, <2>1, <2>2, <2>3, <2>5, <3>2
    <3>3. CASE t = o
      BY <1>5, <1>11, <2>1, <2>2, <2>3, <3>3
    <3>4. QED
      BY <1>5, <3>1, <3>2, <3>3
  <2>6. QED
    BY <2>1, <2>4, <2>5 DEF Sets
<1> HIDE DEF l
<1>13. /\ Loose(arg, Cut', g[s][r], [end EXCEPT ![o] = r])
       /\ Below(Cut', g[s][r]) = Below(g, g[s][r])
       /\ Piece(Cut', s) = Piece(g, s) \cup {r} \cup Below(g, g[o][r])
       /\ Piece(Cut', o) = Piece(g, o)
       /\ \A x : Below(g, x) \cap (Below(g, r) \cup Piece(g, s)) = {} =>
                   Below(Cut', x) = Below(g, x) /\ (Good(g, x) => Good(Cut', x))
  <2>1. /\ arg \in Values /\ end \in [Sides -> Keys \cup {Header}] /\ Loose(arg, g, r, end)
        /\ s \in Sides /\ On(s, arg, r) /\ g[s][r] \in Keys /\ Sets(g, l, s, r, Null)
        /\ Sets(l, Cut', s, end[Other(s)], r)
    BY <1>2, <1>3, <1>4, <1>10, <1>12
  <2>2. QED
    <3>1. IsLinked(arg, g, r, end, s, Cut')
      BY <2>1, Link
    <3>2. QED
      BY <3>1 DEF IsLinked
<1>14. Below(g, r) = {r} \cup Below(g, g[s][r]) \cup Below(g, g[o][r])
  BY <1>3, <1>4, Unfold
<1>15. \A m, x : Below(m, x) \subseteq Keys
  BY UnderKeys
<1>16. Piece(Cut, "left") \cup Piece(Cut, "right") = Piece(Cut, s) \cup Piece(Cut, o)
       /\ Piece(Cut', "left") \cup Piece(Cut', "right") = Piece(Cut', s) \cup Piece(Cut', o)
  BY <1>4, <1>5 DEF Sides
<1>17. Below(Cut', root') \cup Piece(Cut', "left") \cup Piece(Cut', "right") = Spread
  BY <1>1, <1>2, <1>4, <1>5, <1>9, <1>13, <1>14, <1>16 DEF Spread
<1>18. Below(Cut', saved') = Below(Cut, saved) /\ Good(Cut', saved')
  <2>1. Below(g, saved) \cap (Below(g, r) \cup Piece(g, s)) = {}
    BY <1>2, <1>4, <1>16, SavedApart DEF Spread
  <2>2. QED
    BY <1>1, <1>2, <1>13, <2>1
<1>19. Spread' = Spread /\ All' = All
  BY <1>17, <1>18 DEF Spread, All, Piece
<1>20. \A t \in Sides : kid'[t][end'[Other(t)]] \in All \cup {Null}
  <2>1. kid'[s][end'[o]] \in All
    <3>1. kid'[s][end'[o]] = g[s][r]
      BY <1>3, <1>4, <1>8, <1>9, <1>11
    <3>2. g[s][r] \in Below(g, g[s][r])
      BY <1>2, UnderIs
    <3>3. QED
      BY <1>2, <1>14, <3>1, <3>2 DEF All, Spread
  <2>2. kid'[o][end'[s]] \in All \cup {Null}
    <3>1. kid'[o][end'[s]] = k[o][end[s]]
      BY <1>4, <1>5, <1>7, <1>11
    <3>2. k[o][end[Other(o)]] = kid[o][end[Other(o)]]
      BY <1>2, <1>5
    <3>3. QED
      BY <1>5, <3>1, <3>2 DEF PiecesInv
  <2>3. QED
    BY <1>5, <2>1, <2>2
<1>21. Loose(arg', Cut', root', end') /\ root' \in Keys
  BY <1>1, <1>2, <1>9, <1>13
<1>22. Good(Cut', saved') /\ Below(Cut', saved') = Below(Cut, saved)
  BY <1>18
<1>23. QED
  BY <1>1, <1>11, <1>19, <1>20, <1>21, <1>22 DEF PiecesInv

-----------------------------------------------------------------------------
(* The end of SPLAY.                                                       *)

\* The tree is whole again, with arg at its root, if it is there; else nothing
\* lies between arg and the root.
LEMMA AssembledIs ==
  ASSUME PiecesInv, op # "idle", AtEnd
  PROVE  /\ Assembled \in Memory /\ Turned.root \in Keys
         /\ Good(Assembled, Turned.root) /\ Below(Assembled, Turned.root) = Spread
         /\ \A t \in Sides : Assembled[t][Header] = Null
         /\ Below(Assembled, saved) = Below(Cut, saved) /\ Good(Assembled, saved)
         /\ arg \in Spread => arg = Turned.root
         /\ arg # Turned.root =>
              /\ Toward(Turned.root) \in Sides
              /\ On(Toward(Turned.root), arg, Turned.root)
              /\ \A x \in Spread : On(Toward(Turned.root), x, Turned.root) =>
                                     On(Toward(Turned.root), x, arg)
<1> DEFINE k == Turned.kid
           r == Turned.root
           g == CutOf(k, end)
           m == [k EXCEPT !["right"][end["left"]] = k["left"][r],
                          !["left"][end["right"]] = k["right"][r]]
           n == [m EXCEPT !["left"][r] = m["right"][Header], !["left"][Header] = Null,
                          !["right"][r] = m["left"][Header], !["right"][Header] = Null]
           l == [g EXCEPT !["right"][end["left"]] = g["left"][r]]
<1>1. Assembled = n
  BY Zenon DEF Assembled
<1>2. /\ k \in Memory /\ Loose(arg, g, r, end)
      /\ Below(g, r) = Below(Cut, root) /\ \A t \in Sides : Piece(g, t) = Piece(Cut, t)
      /\ Below(g, saved) = Below(Cut, saved) /\ Good(g, saved)
      /\ arg = r \/ g[Toward(r)][r] = Null
  <2> HIDE DEF k, r, g
  <2>1. /\ k \in Memory /\ Loose(arg, g, r, end)
        /\ Below(g, r) = Below(Cut, root) /\ \A t \in Sides : Piece(g, t) = Piece(Cut, t)
        /\ Below(g, saved) = Below(Cut, saved) /\ Good(g, saved)
        /\ AtEnd => arg = r \/ g[Toward(r)][r] = Null
    BY TurnedIs DEF k, r, g
  <2>2. QED
    BY <2>1
<1> HIDE DEF k, r, g
<1>3. /\ end \in [Sides -> Keys \cup {Header}] /\ arg \in Values
      /\ r \in Keys /\ g \in Memory /\ Good(g, r)
  BY <1>2 DEF PiecesInv, Loose
<1>4. /\ "left" \in Sides /\ "right" \in Sides /\ "left" # "right"
      /\ Other("left") = "right" /\ Other("right") = "left"
      /\ \A t \in Sides : t = "left" \/ t = "right"
  BY DEF Sides, Other
<1>5. Null \in Nodes /\ Keys \subseteq Nodes /\ Header \notin Keys /\ Null \notin Keys
      /\ Keys \subseteq Values
  BY Sorts
<1>6. ASSUME NEW t \in Sides PROVE end[t] # r /\ end[t] \in Keys \cup {Header}
  <2>1. Other(t) \in Sides /\ Other(Other(t)) = t
    BY Opposite
  <2>2. OpenAt(g, Other(t), end[t]) /\ Piece(g, Other(t)) \cap Below(g, r) = {} /\ r \in Below(g, r)
    BY <1>2, <1>3, <2>1, Apart, UnderIs DEF Loose
  <2>3. QED
    BY <1>3, <1>5, <2>2 DEF OpenAt, Piece
<1>7. \A t \in Sides, x \in Keys \cup {Header} :
        /\ x = end[Other(t)] => g[t][x] = Null
        /\ x # end[Other(t)] => g[t][x] = k[t][x]
  BY <1>2, <1>3, CutIs DEF g
<1>8. g["left"][r] = k["left"][r] /\ g["right"][r] = k["right"][r]
      /\ k["left"][r] \in Nodes /\ k["right"][r] \in Nodes
  BY <1>2, <1>3, <1>4, <1>6, <1>7 DEF Memory
<1>9. Sets(g, l, "right", end["left"], g["left"][r])
  BY <1>3, <1>4, <1>6, <1>8, OnePointer
<1>10. m \in Memory
       /\ m["right"][end["left"]] = k["left"][r] /\ m["left"][end["right"]] = k["right"][r]
       /\ \A x \in Keys \cup {Header} :
            /\ x # end["left"] => m["right"][x] = k["right"][x]
            /\ x # end["right"] => m["left"][x] = k["left"][x]
  BY <1>2, <1>4, <1>6, <1>8 DEF Memory
<1> HIDE DEF m
<1>11. Sets(l, m, "left", end["right"], g["right"][r])
  <2>1. /\ l["right"][end["left"]] = g["left"][r]
        /\ \A t \in Sides, x \in Keys \cup {Header} :
             t # "right" \/ x # end["left"] => l[t][x] = g[t][x]
    BY <1>9 DEF Sets
  <2>2. ASSUME NEW x \in Keys \cup {Header} PROVE l["right"][x] = m["right"][x]
    BY <1>4, <1>7, <1>8, <1>10, <2>1
  <2>3. ASSUME NEW x \in Keys \cup {Header}, x # end["right"]
        PROVE  l["left"][x] = m["left"][x]
    BY <1>4, <1>7, <1>10, <2>1, <2>3
  <2>4. QED
    BY <1>4, <1>8, <1>10, <2>2, <2>3 DEF Sets
<1> HIDE DEF l
<1>12. r # Header /\ m["left"][Header] \in Nodes /\ m["right"][Header] \in Nodes
  BY <1>3, <1>4, <1>5, <1>10 DEF Memory
<1>13. /\ n \in Memory
       /\ n["left"][r] = m["right"][Header] /\ n["right"][r] = m["left"][Header]
       /\ \A t \in Sides : n[t][Header] = Null
       /\ \A t \in Sides, y \in Keys : y # r => n[t][y] = m[t][y]
  <2>1. \A t \in Sides : m[t] \in [Keys \cup {Header} -> Nodes]
    BY <1>10 DEF Memory
  <2>2. n \in Memory
    <3> DEFINE n1 == [m EXCEPT !["left"][r] = m["right"][Header]]
               n2 == [n1 EXCEPT !["left"][Header] = Null]
               n3 == [n2 EXCEPT !["right"][r] = m["left"][Header]]
               n4 == [n3 EXCEPT !["right"][Header] = Null]
    <3>1. n = n4
      OBVIOUS
    <3> HIDE DEF n
    <3>2. n1 \in Memory
      BY <1>3, <1>4, <1>10, <1>12, OnePointer DEF Sets
    <3> HIDE DEF n1
    <3>3. n2 \in Memory
      BY <1>4, <1>5, <3>2, OnePointer DEF Sets
    <3> HIDE DEF n2
    <3>4. n3 \in Memory
      BY <1>3, <1>4, <1>12, <3>3, OnePointer DEF Sets
    <3> HIDE DEF n3
    <3>5. n4 \in Memory
      BY <1>4, <1>5, <3>4, OnePointer DEF Sets
    <3>6. QED
      BY <3>1, <3>5
  <2>3. \A x \in Keys \cup {Header} :
          n["left"][x] = IF x = Header THEN Null
                         ELSE IF x = r THEN m["right"][Header] ELSE m["left"][x]
    BY <1>3, <1>4, <1>10, <1>12, <2>1 DEF Memory
  <2>4. \A x \in Keys \cup {Header} :
          n["right"][x] = IF x = Header THEN Null
                          ELSE IF x = r THEN m["left"][Header] ELSE m["right"][x]
    BY <1>3, <1>4, <1>10, <1>12, <2>1 DEF Memory
  <2> HIDE DEF n
  <2>5. QED
    BY <1>3, <1>4, <1>5, <1>12, <2>2, <2>3, <2>4
<1> HIDE DEF n
<1>14. \A t \in Sides : n[t][r] = m[Other(t)][Header]
  BY <1>4, <1>13
<1>15. /\ Good(n, r)
       /\ Below(n, r) = Below(g, r) \cup Piece(g, "left") \cup Piece(g, "right")
       /\ \A x : Below(g, x) \cap (Below(g, r) \cup Piece(g, "left") \cup Piece(g, "right")) = {} =>
                   Below(n, x) = Below(g, x) /\ (Good(g, x) => Good(n, x))
  <2>1. IsAssembled(g, r, n)
    <3>1. /\ arg \in Values /\ end \in [Sides -> Keys \cup {Header}] /\ Loose(arg, g, r, end)
          /\ Sets(g, l, "right", end["left"], g["left"][r])
          /\ Sets(l, m, "left", end["right"], g["right"][r])
          /\ \A t \in Sides : n[t][r] = m[Other(t)][Header]
          /\ \A t \in Sides, y \in Keys : y # r => n[t][y] = m[t][y]
      BY <1>2, <1>3, <1>9, <1>11, <1>13, <1>14
    <3>2. Assembles(g, r, end, l, m, n)
      BY <3>1 DEF Assembles
    <3>3. QED
      BY <3>1, <3>2, Assembly
  <2>2. QED
    BY <2>1 DEF IsAssembled
<1>16. Below(n, r) = Spread
  BY <1>2, <1>4, <1>15 DEF Spread
<1>17. Below(n, saved) = Below(Cut, saved) /\ Good(n, saved)
  <2>1. Below(g, saved) \cap (Below(g, r) \cup Piece(g, "left") \cup Piece(g, "right")) = {}
    BY <1>2, <1>4, SavedApart DEF Spread
  <2>2. QED
    BY <1>2, <1>15, <2>1
<1> DEFINE s == Toward(r)
           o == Other(s)
<1>18. ASSUME arg # r
       PROVE  /\ s \in Sides /\ On(s, arg, r)
              /\ \A x \in Spread : On(s, x, r) => On(s, x, arg)
  <2>1. s \in Sides /\ On(s, arg, r) /\ g[s][r] = Null
    BY <1>2, <1>3, <1>18, TowardIs
  <2> HIDE DEF s
  <2>2. o \in Sides /\ Other(o) = s /\ \A t \in Sides : t = s \/ t = o
    BY <2>1, Opposite
  <2>3. ASSUME NEW x \in Spread, On(s, x, r) PROVE On(s, x, arg)
    <3>1. x \in Values /\ r \in Values /\ ~On(o, x, r) /\ x # r
      <4>1. x \in Values /\ r \in Values
        BY <1>3, <1>5, UnderKeys DEF Spread, Piece
      <4>2. QED
        BY <2>1, <2>3, <4>1, Order
    <3>2. x \in Below(g, r) \/ x \in Piece(g, s) \/ x \in Piece(g, o)
      BY <1>2, <1>4, <2>1, <2>2 DEF Spread
    <3>3. r \in Below(g, r)
      BY <1>3, UnderIs
    <3>4. x \notin Piece(g, s)
      BY <1>2, <2>1, <3>1, <3>3 DEF Loose
    <3>5. CASE x \in Piece(g, o)
      BY <1>2, <2>2, <3>5 DEF Loose
    <3>6. x \notin Below(g, r)
      <4>1. Below(g, r) = {r} \cup Below(g, g[s][r]) \cup Below(g, g[o][r])
        BY <1>3, <2>1, Unfold
      <4>2. Below(g, g[s][r]) = {}
        BY <2>1, NothingUnderNull
      <4>3. \A z \in Below(g, g[o][r]) : On(o, z, r)
        BY <1>3, <2>2, GoodRoot
      <4>4. QED
        BY <3>1, <4>1, <4>2, <4>3
    <3>7. QED
      BY <3>2, <3>4, <3>5, <3>6
  <2>4. QED
    BY <2>1, <2>3
<1>19. arg \in Spread => arg = r
  <2>1. ASSUME arg \in Spread, arg # r PROVE FALSE
    <3>1. s \in Sides /\ On(s, arg, arg)
      BY <1>18, <2>1
    <3>2. QED
      BY <1>3, <3>1, Order
  <2>2. QED
    BY <2>1
<1>20. QED
  BY <1>1, <1>3, <1>13, <1>15, <1>16, <1>17, <1>18, <1>19 DEF r

-----------------------------------------------------------------------------
(* The other steps, each with what it makes of the set of keys.            *)

\* A search tree in one piece.
Whole(m, x) ==
  m \in Memory /\ Good(m, x) /\ \A s \in Sides : m[s][Header] = Null

LEMMA CutWhole ==
  ASSUME NEW k \in Memory, \A s \in Sides : k[s][Header] = Null
  PROVE  CutOf(k, [s \in Sides |-> Header]) = k
<1> DEFINE e == [s \in Sides |-> Header]
<1>1. \A s \in Sides : e[Other(s)] = Header
  BY Opposite
<1>2. CutOf(k, e) = [s \in Sides |-> [x \in Keys \cup {Header} |->
                                       IF x = e[Other(s)] THEN Null ELSE k[s][x]]]
  BY DEF CutOf
<1> HIDE DEF e
<1>3. ASSUME NEW s \in Sides
      PROVE  [x \in Keys \cup {Header} |-> IF x = e[Other(s)] THEN Null ELSE k[s][x]] = k[s]
  <2>1. k[s] = [x \in Keys \cup {Header} |-> k[s][x]]
    BY DEF Memory
  <2>2. \A x \in Keys \cup {Header} :
          (IF x = e[Other(s)] THEN Null ELSE k[s][x]) = k[s][x]
    BY <1>1
  <2>3. QED
    BY <2>1, <2>2
<1>4. k = [s \in Sides |-> k[s]]
  BY DEF Memory
<1>5. CutOf(k, e) = k
  BY <1>2, <1>3, <1>4
<1>6. QED
  BY <1>5 DEF e

LEMMA Ended ==
  ASSUME NEW v \in Keys \cup {Null}, Return(v), Whole(kid', root')
  PROVE  PiecesInv' /\ All' = Below(kid', root')
<1>1. /\ op' = "idle" /\ arg' = Null /\ saved' = Null /\ ret' = v
      /\ end' = [s \in Sides |-> Header]
  BY DEF Return
<1>2. /\ kid' \in Memory /\ Good(kid', root') /\ \A s \in Sides : kid'[s][Header] = Null
  BY DEF Whole
<1>3. end' \in [Sides -> Keys \cup {Header}] /\ \A s \in Sides : end'[Other(s)] = Header
  BY <1>1, Opposite
<1>4. Cut' = kid'
  BY <1>1, <1>2, CutWhole DEF Cut
<1>5. Below(Cut', saved') = {} /\ Good(Cut', saved')
  BY <1>1, NothingUnderNull
<1>6. \A s \in Sides : Piece(Cut', s) = {}
  BY <1>2, <1>4, NothingUnderNull DEF Piece
<1>7. All' = Below(kid', root')
  BY <1>4, <1>5, <1>6 DEF All, Spread, Piece, Sides
<1>8. Null \in Values
  BY Sorts
<1>9. root' \in Keys \cup {Null}
  BY <1>2 DEF Good
<1>10. PiecesInv'
  BY <1>1, <1>2, <1>3, <1>4, <1>5, <1>8, <1>9 DEF PiecesInv
<1>11. QED
  BY <1>7, <1>10

LEMMA InitPieces == Init => PiecesInv /\ All = {}
<1> SUFFICES ASSUME Init PROVE PiecesInv /\ All = {}
  OBVIOUS
<1>1. /\ root = Null /\ op = "idle" /\ arg = Null /\ saved = Null /\ ret = Null
      /\ end = [s \in Sides |-> Header]
  BY DEF Init
<1>2. kid \in Memory /\ \A s \in Sides : kid[s][Header] = Null
  <2>1. kid = [s \in Sides |-> [x \in Keys \cup {Header} |-> IF x = Header THEN Null ELSE Junk]]
    BY DEF Init
  <2>2. QED
    BY <2>1, Sorts DEF Memory
<1>3. end \in [Sides -> Keys \cup {Header}] /\ \A s \in Sides : end[Other(s)] = Header
  BY <1>1, Opposite
<1>4. Below(Cut, root) = {} /\ Good(Cut, root) /\ Below(Cut, saved) = {} /\ Good(Cut, saved)
  BY <1>1, NothingUnderNull
<1>5. \A s \in Sides : Piece(Cut, s) = {}
  <2>1. \A s \in Sides : Cut[s][Header] = Null
    BY <1>2, <1>3, CutIs DEF Cut
  <2>2. QED
    BY <2>1, NothingUnderNull DEF Piece
<1>6. All = {}
  BY <1>4, <1>5 DEF All, Spread, Sides
<1>7. Null \in Values
  BY Sorts
<1>8. QED
  BY <1>1, <1>2, <1>3, <1>4, <1>6, <1>7 DEF PiecesInv

\* Between calls.
LEMMA AtRest ==
  PiecesInv /\ op = "idle" =>
    /\ \A s \in Sides : Cut[s][Header] = Null /\ Piece(Cut, s) = {}
    /\ All = Below(Cut, root) /\ Spread = Below(Cut, root)
    /\ saved = Null /\ Good(Cut, root)
<1> SUFFICES ASSUME PiecesInv, op = "idle"
             PROVE  /\ \A s \in Sides : Cut[s][Header] = Null /\ Piece(Cut, s) = {}
                    /\ All = Below(Cut, root) /\ Spread = Below(Cut, root)
                    /\ saved = Null /\ Good(Cut, root)
  OBVIOUS
<1>1. /\ saved = Null /\ Good(Cut, root) /\ kid \in Memory
      /\ end = [s \in Sides |-> Header] /\ end \in [Sides -> Keys \cup {Header}]
  BY DEF PiecesInv
<1>2. \A s \in Sides : Cut[s][Header] = Null
  <2>1. \A s \in Sides : end[Other(s)] = Header
    BY <1>1, Opposite
  <2>2. QED
    BY <1>1, <2>1, CutIs DEF Cut
<1>3. \A s \in Sides : Piece(Cut, s) = {}
  BY <1>2, NothingUnderNull DEF Piece
<1>4. Spread = Below(Cut, root) /\ Below(Cut, saved) = {}
  BY <1>1, <1>3, NothingUnderNull DEF Spread, Sides
<1>5. QED
  BY <1>1, <1>2, <1>3, <1>4 DEF All

LEMMA InsertFirstKeeps ==
  ASSUME PiecesInv, NEW k \in Keys, InsertFirst(k)
  PROVE  PiecesInv' /\ All' = All \cup {k}
<1>1. /\ op = "idle" /\ root = Null /\ root' = k /\ ret' = Null
      /\ kid' = [kid EXCEPT !["left"][k] = Null, !["right"][k] = Null]
      /\ op' = op /\ arg' = arg /\ end' = end /\ saved' = saved
  BY DEF InsertFirst
<1>2. All = {}
  BY <1>1, AtRest, NothingUnderNull
<1>3. /\ kid \in Memory /\ end = [s \in Sides |-> Header] /\ saved = Null
      /\ end \in [Sides -> Keys \cup {Header}] /\ arg \in Values
  BY <1>1 DEF PiecesInv
<1>4. Null \in Nodes /\ Header \notin Keys
  BY Sorts
<1>5. /\ kid' \in Memory
      /\ \A s \in Sides : kid'[s][k] = Null /\ kid'[s][Header] = kid[s][Header]
  BY <1>1, <1>3, <1>4 DEF Memory, Sides
<1>6. \A s \in Sides : end[Other(s)] = Header
  BY <1>3, Opposite
<1>7. \A s \in Sides : Cut'[s][Header] = Null /\ Cut'[s][k] = Null
  <2>1. Cut' = CutOf(kid', end)
    BY <1>1 DEF Cut
  <2>2. \A s \in Sides, x \in Keys \cup {Header} :
          /\ x = end[Other(s)] => CutOf(kid', end)[s][x] = Null
          /\ x # end[Other(s)] => CutOf(kid', end)[s][x] = kid'[s][x]
    BY <1>3, <1>5, CutIs
  <2>3. k # Header
    BY <1>4
  <2>4. QED
    BY <1>5, <1>6, <2>1, <2>2, <2>3
<1>8. \A s \in Sides : Piece(Cut', s) = {}
  BY <1>7, NothingUnderNull DEF Piece
<1>9. "left" \in Sides /\ Other("left") \in Sides
  BY DEF Sides, Other
<1>10. Below(Cut', k) = {k} /\ Good(Cut', k)
  <2>1. /\ Below(Cut', Cut'["left"][k]) = {} /\ Good(Cut', Cut'["left"][k])
        /\ Below(Cut', Cut'[Other("left")][k]) = {} /\ Good(Cut', Cut'[Other("left")][k])
    BY <1>7, <1>9, NothingUnderNull
  <2>2. Below(Cut', k) = {k}
    BY <1>9, <2>1, Unfold
  <2>3. Good(Cut', k)
    BY <1>9, <2>1, GoodBuild
  <2>4. QED
    BY <2>2, <2>3
<1>11. Below(Cut', saved') = {} /\ Good(Cut', saved')
  BY <1>1, <1>3, NothingUnderNull
<1>12. All' = {k}
  BY <1>1, <1>8, <1>10, <1>11 DEF All, Spread, Piece, Sides
<1>13. \A s \in Sides : kid'[s][end'[Other(s)]] \in All' \cup {Null}
  BY <1>1, <1>2, <1>5, <1>6 DEF PiecesInv
<1>14. PiecesInv'
  BY <1>1, <1>3, <1>5, <1>10, <1>11, <1>13 DEF PiecesInv
<1>15. QED
  BY <1>2, <1>12, <1>14

LEMMA CallKeeps ==
  ASSUME PiecesInv, NEW o, NEW k, Call(o, k),
         (o \in {"insert", "remove", "find", "next"} /\ k \in Keys) \/ o \in {"min", "max"}
  PROVE  PiecesInv' /\ All' = All
<1>1. /\ op = "idle" /\ root # Null /\ (o = "next" => k \in keys) /\ op' = o /\ ret' = Null
      /\ root' = root /\ kid' = kid /\ end' = end /\ saved' = saved
  BY DEF Call
<1>2. /\ o = "min" => arg' = 0
      /\ o = "max" => arg' = N + 1
      /\ o \in {"insert", "remove", "find", "next"} => arg' = k
  BY DEF Call
<1>3. Cut' = Cut /\ All' = All
  BY <1>1 DEF Cut, All, Spread, Piece
<1>4. /\ kid \in Memory /\ saved = Null /\ root \in Keys /\ Good(Cut, root)
      /\ end = [s \in Sides |-> Header] /\ end \in [Sides -> Keys \cup {Header}]
      /\ Good(Cut, saved) /\ \A s \in Sides : kid[s][end[Other(s)]] \in All \cup {Null}
  BY <1>1 DEF PiecesInv
<1>5. /\ \A s \in Sides : Cut[s][Header] = Null /\ Piece(Cut, s) = {}
      /\ \A s \in Sides : end[Other(s)] = Header
  BY <1>1, <1>4, AtRest, Opposite
<1>6. arg' \in Values
  <2>1. 0 \in Values /\ N + 1 \in Values /\ Keys \subseteq Values
    BY Sorts DEF Null
  <2>2. QED
    BY <1>2, <2>1
<1>7. Loose(arg', Cut', root', end')
  <2>1. ASSUME NEW s \in Sides PROVE OpenAt(Cut, s, end[Other(s)])
    BY <1>5, NothingUnderNull DEF OpenAt
  <2>2. Cut \in Memory
    BY <1>4, CutIs DEF Cut
  <2>3. QED
    BY <1>1, <1>3, <1>4, <1>5, <2>1, <2>2 DEF Loose
<1>8. o = "next" => arg' \in All'
  BY <1>1, <1>2, <1>3, KeysAre
<1>9. \A s \in Sides : kid'[s][end'[Other(s)]] \in All' \cup {Null}
  BY <1>1, <1>3, <1>4
<1>10. /\ op' \in {"idle", "insert", "remove", "join", "find", "next", "min", "max"}
       /\ op' # "idle" /\ op' # "join"
       /\ op' \in {"insert", "remove", "join", "find", "next"} => arg' \in Keys
       /\ op' = "min" => arg' = 0
       /\ op' = "max" => arg' = N + 1
       /\ op' = "next" => arg' \in All'
  BY <1>1, <1>2, <1>8
<1>11. /\ root' \in Keys \cup {Null} /\ saved' \in Keys \cup {Null} /\ kid' \in Memory
       /\ end' \in [Sides -> Keys \cup {Header}] /\ ret' \in Keys \cup {Null}
       /\ Good(Cut', saved') /\ saved' = Null
  BY <1>1, <1>3, <1>4
<1>12. QED
  BY <1>3, <1>6, <1>7, <1>9, <1>10, <1>11 DEF PiecesInv

\* After a lookup.
LEMMA LookedUp ==
  ASSUME PiecesInv, op # "idle", op # "join", AtEnd, root' = Turned.root, kid' = Assembled,
         NEW v \in Keys \cup {Null}, Return(v)
  PROVE  PiecesInv' /\ All' = All
<1>1. /\ Assembled \in Memory /\ Good(Assembled, Turned.root)
      /\ Below(Assembled, Turned.root) = Spread
      /\ \A t \in Sides : Assembled[t][Header] = Null
  BY AssembledIs
<1>2. Whole(kid', root')
  BY <1>1 DEF Whole
<1>3. All = Spread
  <2>1. saved = Null
    BY DEF PiecesInv
  <2>2. QED
    BY <2>1, NothingUnderNull DEF All
<1>4. QED
  BY <1>1, <1>2, <1>3, Ended

\* Over the root r and what is on the other side of a, a new root a.
LEMMA NewRoot ==
  ASSUME NEW m \in Memory, NEW r \in Keys, Good(m, r), NEW a \in Keys, a \notin Below(m, r),
         NEW s \in Sides, On(s, a, r),
         \A x \in Below(m, r) : On(s, x, r) => On(s, x, a),
         NEW n, n[s][a] = m[s][r], n[Other(s)][a] = r, n[s][r] = Null,
         n[Other(s)][r] = m[Other(s)][r],
         \A t \in Sides, y \in Keys : y # a /\ y # r => n[t][y] = m[t][y]
  PROVE  Good(n, a) /\ Below(n, a) = Below(m, r) \cup {a}
<1> DEFINE o == Other(s)
           A == Below(m, m[s][r])
           B == Below(m, m[o][r])
<1>1. o \in Sides /\ o # s /\ Other(o) = s
  BY Opposite
<1>2. Below(m, r) = {r} \cup A \cup B
  BY Unfold
<1>3. /\ Good(m, m[s][r]) /\ Good(m, m[o][r]) /\ r \notin A /\ r \notin B
      /\ \A z \in A : On(s, z, r)
      /\ \A z \in B : On(o, z, r)
  BY <1>1, GoodRoot
<1>4. ASSUME NEW x, r \notin Below(m, x), a \notin Below(m, x)
      PROVE  Below(n, x) = Below(m, x) /\ (Good(m, x) => Good(n, x))
  <2>1. \A y \in Below(m, x), t \in Sides : n[t][y] = m[t][y]
    BY <1>4, UnderKeys
  <2>2. Below(n, x) = Below(m, x)
    BY <2>1, SameUnder
  <2>3. ASSUME Good(m, x) PROVE Good(n, x)
    BY <2>1, <2>3, GoodSame
  <2>4. QED
    BY <2>2, <2>3
<1>5. /\ Below(n, n[s][a]) = A /\ Good(n, n[s][a])
      /\ Below(n, n[o][r]) = B /\ Good(n, n[o][r])
      /\ Below(n, n[s][r]) = {} /\ Good(n, n[s][r])
  BY <1>2, <1>3, <1>4, NothingUnderNull
<1>6. Good(n, r)
  BY <1>1, <1>3, <1>5, GoodBuild
<1>7. Below(n, r) = {r} \cup B
  <2>1. Below(n, r) = {r} \cup Below(n, n[s][r]) \cup Below(n, n[o][r])
    BY Unfold
  <2>2. QED
    BY <1>5, <2>1
<1>8. ASSUME NEW z \in A PROVE On(s, z, a)
  BY <1>2, <1>3
<1>9. ASSUME NEW z \in {r} \cup B PROVE On(o, z, a)
  <2>1. a \in Values /\ r \in Values /\ z \in Values
    BY <1>2, UnderKeys, Sorts
  <2>2. On(o, r, a)
    BY <2>1, Order
  <2>3. z = r \/ On(o, z, r)
    BY <1>3
  <2>4. QED
    BY <1>1, <2>1, <2>2, <2>3, Order
<1>10. Good(n, a)
  BY <1>1, <1>5, <1>6, <1>7, <1>8, <1>9, GoodBuild
<1>11. Below(n, a) = {a} \cup A \cup {r} \cup B
  <2>1. Below(n, a) = {a} \cup Below(n, n[s][a]) \cup Below(n, n[o][a])
    BY Unfold
  <2>2. QED
    BY <1>5, <1>7, <2>1
<1>12. QED
  BY <1>2, <1>10, <1>11

LEMMA InsertEndKeeps ==
  ASSUME PiecesInv, InsertEnd
  PROVE  PiecesInv' /\ All' = All \cup {arg}
<1> DEFINE r == Turned.root
           s == Toward(r)
           m == Assembled
<1>1. /\ op = "insert" /\ AtEnd /\ Return(Null)
      /\ arg = r => root' = r /\ kid' = m
      /\ arg # r => /\ root' = arg
                    /\ kid' = [m EXCEPT ![s][arg] = m[s][r], ![Other(s)][arg] = r,
                                        ![s][r] = Null]
  BY Zenon DEF InsertEnd
<1>2. /\ m \in Memory /\ r \in Keys /\ Good(m, r) /\ Below(m, r) = Spread
      /\ \A t \in Sides : m[t][Header] = Null
      /\ arg \in Spread => arg = r
      /\ arg # r => /\ s \in Sides /\ On(s, arg, r)
                    /\ \A x \in Spread : On(s, x, r) => On(s, x, arg)
  BY <1>1, AssembledIs
<1> HIDE DEF r, s, m
<1>3. arg \in Keys /\ All = Spread
  <2>1. saved = Null /\ arg \in Keys
    BY <1>1 DEF PiecesInv
  <2>2. QED
    BY <2>1, NothingUnderNull DEF All
<1>4. CASE arg = r
  <2>1. Whole(kid', root')
    BY <1>1, <1>2, <1>4 DEF Whole
  <2>2. arg \in Spread
    BY <1>2, <1>4, UnderIs
  <2>3. QED
    BY <1>1, <1>2, <1>3, <1>4, <2>1, <2>2, Ended
<1>5. CASE arg # r
  <2> DEFINE o == Other(s)
             n1 == [m EXCEPT ![s][arg] = m[s][r]]
             n2 == [n1 EXCEPT ![o][arg] = r]
             n3 == [n2 EXCEPT ![s][r] = Null]
  <2>1. kid' = n3
    BY <1>1, <1>5
  <2>2. s \in Sides /\ o \in Sides /\ o # s
    BY <1>2, <1>5, Opposite
  <2>3. Keys \subseteq Nodes /\ Null \in Nodes /\ Header \notin Keys /\ Null \in Keys \cup {Null}
    BY Sorts
  <2>4. m[s][r] \in Nodes
    BY <1>2, <2>2 DEF Memory
  <2>5. Sets(m, n1, s, arg, m[s][r])
    BY <1>2, <1>3, <2>2, <2>4, OnePointer
  <2> HIDE DEF n1
  <2>6. Sets(n1, n2, o, arg, r)
    BY <1>2, <1>3, <2>2, <2>3, <2>5, OnePointer DEF Sets
  <2> HIDE DEF n2
  <2>7. Sets(n2, n3, s, r, Null)
    BY <1>2, <1>3, <2>2, <2>3, <2>6, OnePointer DEF Sets
  <2> HIDE DEF n3, o
  <2>8. /\ n3 \in Memory
        /\ n3[s][arg] = m[s][r] /\ n3[o][arg] = r /\ n3[s][r] = Null /\ n3[o][r] = m[o][r]
        /\ \A t \in Sides, y \in Keys \cup {Header} : y # arg /\ y # r => n3[t][y] = m[t][y]
    BY <1>2, <1>3, <1>5, <2>2, <2>5, <2>6, <2>7 DEF Sets
  <2>9. Good(n3, arg) /\ Below(n3, arg) = Below(m, r) \cup {arg}
    <3>1. arg \notin Below(m, r)
      BY <1>2, <1>5
    <3>2. QED
      BY <1>2, <1>3, <1>5, <2>2, <2>8, <3>1, NewRoot DEF o
  <2>10. \A t \in Sides : n3[t][Header] = Null
    BY <1>2, <1>3, <2>3, <2>8
  <2>11. Whole(kid', root')
    BY <1>1, <1>5, <2>1, <2>8, <2>9, <2>10 DEF Whole
  <2>12. QED
    BY <1>1, <1>2, <1>3, <1>5, <2>1, <2>3, <2>9, <2>11, Ended
<1>6. QED
  BY <1>4, <1>5

LEMMA RemoveEndKeeps ==
  ASSUME PiecesInv, RemoveEnd
  PROVE  PiecesInv' /\ All' = All \ {arg}
<1> DEFINE r == Turned.root
           m == Assembled
           n == [m EXCEPT !["left"][arg] = Junk, !["right"][arg] = Junk]
           A == Below(m, m["left"][r])
           B == Below(m, m["right"][r])
<1>1. /\ op = "remove" /\ AtEnd
      /\ arg # r => root' = r /\ kid' = m /\ Return(Null)
      /\ arg = r /\ m["left"][arg] = Null =>
           root' = m["right"][arg] /\ kid' = n /\ Return(Null)
      /\ arg = r /\ m["left"][arg] # Null =>
           /\ root' = m["left"][arg] /\ kid' = n
           /\ op' = "join" /\ saved' = m["right"][arg]
           /\ end' = [s \in Sides |-> Header]
           /\ arg' = arg /\ ret' = ret
  BY Zenon DEF RemoveEnd
<1>2. /\ m \in Memory /\ r \in Keys /\ Good(m, r) /\ Below(m, r) = Spread
      /\ \A t \in Sides : m[t][Header] = Null
      /\ arg \in Spread => arg = r
  BY <1>1, AssembledIs
<1> HIDE DEF r, m
<1>3. arg \in Keys /\ All = Spread
  <2>1. saved = Null /\ arg \in Keys
    BY <1>1 DEF PiecesInv
  <2>2. QED
    BY <2>1, NothingUnderNull DEF All
<1>4. CASE arg # r
  <2>1. Whole(kid', root')
    BY <1>1, <1>2, <1>4 DEF Whole
  <2>2. arg \notin Spread
    BY <1>2, <1>4
  <2>3. PiecesInv' /\ All' = Below(kid', root')
    BY <1>1, <1>4, <2>1, Ended
  <2>4. QED
    BY <1>1, <1>2, <1>3, <1>4, <2>2, <2>3
<1>5. ASSUME arg = r PROVE PiecesInv' /\ All' = All \ {arg}
  <2>1. Junk \in Nodes /\ Header \notin Keys
    BY Sorts
  <2>2. /\ n \in Memory
        /\ \A t \in Sides, y \in Keys \cup {Header} : y # arg => n[t][y] = m[t][y]
    BY <1>2, <1>3, <2>1 DEF Memory, Sides
  <2>3. \A t \in Sides : n[t][Header] = Null
    BY <1>2, <1>3, <2>1, <2>2
  <2> HIDE DEF n
  <2>4. "left" \in Sides /\ "right" \in Sides /\ Other("left") = "right"
    BY DEF Sides, Other
  <2>5. All = {r} \cup A \cup B
    BY <1>2, <1>3, <2>4, Unfold
  <2>6. /\ Good(m, m["left"][r]) /\ r \notin A /\ \A z \in A : On("left", z, r)
        /\ Good(m, m["right"][r]) /\ r \notin B /\ \A z \in B : On("right", z, r)
    BY <1>2, <2>4, GoodRoot
  <2>7. ASSUME NEW x, r \notin Below(m, x)
        PROVE  Below(n, x) = Below(m, x) /\ (Good(m, x) => Good(n, x))
    <3>1. \A y \in Below(m, x), t \in Sides : n[t][y] = m[t][y]
      BY <1>5, <2>2, <2>7, UnderKeys
    <3>2. Below(n, x) = Below(m, x)
      BY <3>1, SameUnder
    <3>3. ASSUME Good(m, x) PROVE Good(n, x)
      BY <3>1, <3>3, GoodSame
    <3>4. QED
      BY <3>2, <3>3
  <2>8. /\ Below(n, m["left"][r]) = A /\ Good(n, m["left"][r])
        /\ Below(n, m["right"][r]) = B /\ Good(n, m["right"][r])
    BY <2>6, <2>7
  <2>9. CASE m["left"][r] = Null
    <3>1. root' = m["right"][r] /\ kid' = n /\ Return(Null)
      BY <1>1, <1>5, <2>9
    <3>2. A = {}
      BY <2>9, NothingUnderNull
    <3>3. Whole(kid', root')
      BY <2>2, <2>3, <2>8, <3>1 DEF Whole
    <3>4. PiecesInv' /\ All' = Below(kid', root')
      BY <3>1, <3>3, Ended
    <3>5. QED
      BY <1>5, <2>5, <2>6, <2>8, <3>1, <3>2, <3>4
  <2>10. CASE m["left"][r] # Null
    <3>1. /\ root' = m["left"][r] /\ kid' = n /\ op' = "join" /\ saved' = m["right"][r]
          /\ end' = [s \in Sides |-> Header] /\ arg' = arg /\ ret' = ret
      BY <1>1, <1>5, <2>10
    <3>2. /\ Cut' = n
          /\ end' \in [Sides -> Keys \cup {Header}]
          /\ \A s \in Sides : end'[Other(s)] = Header
      BY <2>2, <2>3, <3>1, CutWhole, Opposite DEF Cut
    <3>3. root' \in Keys /\ saved' \in Keys \cup {Null}
      BY <2>6, <2>10, <3>1 DEF Good
    <3>4. \A s \in Sides : Piece(n, s) = {}
      BY <2>3, NothingUnderNull DEF Piece
    <3>5. Loose(arg', Cut', root', end')
      <4>1. ASSUME NEW s \in Sides PROVE OpenAt(n, s, Header)
        BY <2>3, NothingUnderNull, <4>1 DEF OpenAt
      <4>2. QED
        BY <2>2, <2>8, <3>1, <3>2, <3>3, <3>4, <4>1 DEF Loose
    <3>6. Spread' = A /\ All' = A \cup B
      BY <2>8, <3>1, <3>2, <3>4 DEF Spread, All, Piece, Sides
    <3>7. Good(Cut', saved') /\ Below(Cut', saved') = B
      BY <2>8, <3>1, <3>2
    <3>8. (\A x \in Spread' : x < arg') /\ (\A x \in Below(Cut', saved') : arg' < x)
      BY <1>5, <2>6, <3>1, <3>6, <3>7 DEF On
    <3>9. arg \in Values /\ ret \in Keys \cup {Null}
      BY DEF PiecesInv
    <3>10. \A s \in Sides : kid'[s][end'[Other(s)]] \in All' \cup {Null}
      BY <2>3, <3>1, <3>2
    <3>11. PiecesInv'
      BY <1>3, <2>2, <3>1, <3>2, <3>3, <3>5, <3>7, <3>8, <3>9, <3>10 DEF PiecesInv
    <3>12. QED
      BY <1>5, <2>5, <2>6, <3>6, <3>11
  <2>11. QED
    BY <2>9, <2>10
<1>6. QED
  BY <1>4, <1>5

LEMMA JoinEndKeeps ==
  ASSUME PiecesInv, JoinEnd
  PROVE  PiecesInv' /\ All' = All
<1> DEFINE r == Turned.root
           m == Assembled
           n == [m EXCEPT !["right"][r] = saved]
           A == Below(m, m["left"][r])
           B == Below(m, m["right"][r])
           C == Below(Cut, saved)
<1>1. op = "join" /\ AtEnd /\ root' = r /\ kid' = n /\ Return(Null)
  BY Zenon DEF JoinEnd
<1>2. /\ m \in Memory /\ r \in Keys /\ Good(m, r) /\ Below(m, r) = Spread
      /\ \A t \in Sides : m[t][Header] = Null
      /\ Below(m, saved) = C /\ Good(m, saved)
      /\ arg # r => /\ Toward(r) \in Sides /\ On(Toward(r), arg, r)
                    /\ \A x \in Spread : On(Toward(r), x, r) => On(Toward(r), x, arg)
  BY <1>1, AssembledIs
<1> HIDE DEF r, m
<1>3. /\ arg \in Keys /\ saved \in Keys \cup {Null}
      /\ (\A x \in Spread : x < arg) /\ (\A x \in C : arg < x)
  BY <1>1 DEF PiecesInv
<1>4. "left" \in Sides /\ "right" \in Sides /\ Other("left") = "right"
  BY DEF Sides, Other
<1>5. /\ \A x \in Keys : x \in Int
      /\ Keys \subseteq Nodes /\ Null \in Nodes /\ Header \notin Keys
  BY Sorts, PointersAssumption DEF Keys
<1>6. r \in Spread /\ Spread \subseteq Keys /\ C \subseteq Keys
  BY <1>2, UnderIs, UnderKeys
<1>7. r < arg /\ arg # r /\ Toward(r) = "right"
  BY <1>2, <1>3, <1>5, <1>6 DEF Toward
<1>8. Below(m, r) = {r} \cup A \cup B
  BY <1>2, <1>4, Unfold
<1>9. /\ Good(m, m["left"][r]) /\ r \notin A /\ \A z \in A : On("left", z, r)
      /\ r \notin B /\ \A z \in B : On("right", z, r)
  BY <1>2, <1>4, GoodRoot
\* There is nothing greater than the root any more.
<1>10. B = {}
  <2>1. ASSUME NEW x \in B PROVE FALSE
    <3>1. x \in Spread /\ On("right", x, r)
      BY <1>2, <1>8, <1>9
    <3>2. On("right", x, arg) /\ x < arg /\ x \in Int /\ arg \in Int
      BY <1>2, <1>3, <1>5, <1>6, <1>7, <3>1
    <3>3. arg < x
      BY <3>2 DEF On
    <3>4. QED
      BY <3>2, <3>3
  <2>2. QED
    BY <2>1
<1>11. Sets(m, n, "right", r, saved)
  BY <1>2, <1>3, <1>4, <1>5, OnePointer
<1> HIDE DEF n
<1>12. /\ n \in Memory /\ n["right"][r] = saved /\ n["left"][r] = m["left"][r]
       /\ \A t \in Sides, y \in Keys \cup {Header} : y # r => n[t][y] = m[t][y]
  BY <1>2, <1>4, <1>11 DEF Sets
<1>13. ASSUME NEW x, r \notin Below(m, x)
       PROVE  Below(n, x) = Below(m, x) /\ (Good(m, x) => Good(n, x))
  <2>1. \A y \in Below(m, x), t \in Sides : n[t][y] = m[t][y]
    BY <1>12, <1>13, UnderKeys
  <2>2. Below(n, x) = Below(m, x)
    BY <2>1, SameUnder
  <2>3. ASSUME Good(m, x) PROVE Good(n, x)
    BY <2>1, <2>3, GoodSame
  <2>4. QED
    BY <2>2, <2>3
<1>14. r \notin C
  BY <1>6, SavedApart
<1>15. /\ Below(n, n["left"][r]) = A /\ Good(n, n["left"][r])
       /\ Below(n, n["right"][r]) = C /\ Good(n, n["right"][r])
  BY <1>2, <1>9, <1>12, <1>13, <1>14
<1>16. ASSUME NEW z \in C PROVE On("right", z, r)
  <2>1. arg < z /\ r < arg /\ z \in Int /\ r \in Int /\ arg \in Int
    BY <1>2, <1>3, <1>5, <1>6, <1>7, <1>16
  <2>2. r < z
    BY <2>1
  <2>3. QED
    BY <2>2 DEF On
<1>17. Good(n, r)
  BY <1>2, <1>4, <1>9, <1>15, <1>16, GoodBuild
<1>18. Below(n, r) = {r} \cup A \cup C
  <2>1. Below(n, r) = {r} \cup Below(n, n["left"][r]) \cup Below(n, n["right"][r])
    BY <1>2, <1>4, Unfold
  <2>2. QED
    BY <1>15, <2>1
<1>19. \A t \in Sides : n[t][Header] = Null
  BY <1>2, <1>5, <1>12
<1>20. Whole(kid', root')
  BY <1>1, <1>12, <1>17, <1>19 DEF Whole
<1>21. PiecesInv' /\ All' = Below(kid', root')
  BY <1>1, <1>20, Ended
<1>22. QED
  BY <1>1, <1>2, <1>8, <1>10, <1>18, <1>21 DEF All

-----------------------------------------------------------------------------
(* What the lookups give.                                                  *)

\* The left pointers lead to the least element.
LEMMA LeftmostIs ==
  ASSUME NEW m, NEW x \in Keys, Good(m, x)
  PROVE  Leftmost(m, x) \in Below(m, x) /\ \A z \in Below(m, x) : Leftmost(m, x) <= z
<1>1. "left" \in Sides /\ Other("left") = "right"
  BY DEF Sides, Other
<1>2. /\ Leftmost(m, x) \in Below(m, x)
      /\ \A z \in Below(m, x) : z = Leftmost(m, x) \/ On("right", z, Leftmost(m, x))
  BY <1>1, EndIs DEF Leftmost
<1>3. \A z \in Below(m, x) : z \in Nat
  BY UnderKeys, PointersAssumption DEF Keys
<1>4. QED
  BY <1>2, <1>3 DEF On

LEMMA LeastIs ==
  ASSUME NEW S \in SUBSET Keys, NEW y \in S, \A x \in S : y <= x
  PROVE  Least(S) = y
<1>1. \A x \in S : x \in Nat
  BY PointersAssumption DEF Keys
<1>2. Least(S) = CHOOSE x \in S : \A z \in S : x <= z
  BY DEF Least
<1>3. Least(S) \in S /\ \A z \in S : Least(S) <= z
  BY <1>2, Zenon
<1>4. Least(S) <= y /\ y <= Least(S) /\ y \in Nat /\ Least(S) \in Nat
  BY <1>1, <1>3
<1>5. QED
  BY <1>4

LEMMA MostIs ==
  ASSUME NEW S \in SUBSET Keys, NEW y \in S, \A x \in S : x <= y
  PROVE  Most(S) = y
<1>1. \A x \in S : x \in Nat
  BY PointersAssumption DEF Keys
<1>2. \A x, z \in S : x <= z <=> z >= x
  BY <1>1
<1>3. Most(S) = CHOOSE x \in S : \A z \in S : x >= z
  BY DEF Most
<1>4. \A z \in S : y >= z
  BY <1>2
<1>5. Most(S) \in S /\ \A z \in S : Most(S) >= z
  BY <1>3, <1>4, Zenon
<1>6. Most(S) >= y /\ y >= Most(S) /\ y \in Nat /\ Most(S) \in Nat
  BY <1>1, <1>4, <1>5
<1>7. QED
  BY <1>6

\* No key lies between arg and the root that SPLAY leaves.
LEMMA NothingBetween ==
  ASSUME PiecesInv, op # "idle", AtEnd
  PROVE  {x \in Spread : Between(x, arg, Turned.root)} = {}
<1> DEFINE r == Turned.root
           s == Toward(r)
<1>1. /\ r \in Keys /\ Spread \subseteq Keys
      /\ arg \in Spread => arg = r
      /\ arg # r => /\ s \in Sides /\ On(s, arg, r)
                    /\ \A x \in Spread : On(s, x, r) => On(s, x, arg)
  <2>1. Spread \subseteq Keys
    BY UnderKeys DEF Spread, Piece
  <2>2. QED
    BY <2>1, AssembledIs
<1> HIDE DEF r, s
<1>2. Keys \subseteq Int /\ arg \in Int
  BY PointersAssumption DEF PiecesInv, Keys, Values
<1>3. ASSUME NEW x \in Spread, Between(x, arg, r) PROVE FALSE
  <2>1. x \in Int /\ r \in Int /\ arg \in Int
    BY <1>1, <1>2
  <2>2. (arg <= x /\ x < r) \/ (r < x /\ x <= arg)
    BY <1>3 DEF Between
  <2>3. arg # r
    BY <2>1, <2>2
  <2>4. x # arg
    BY <1>1, <2>3
  <2>5. CASE s = "left"
    <3>1. arg < r /\ (x < r => x < arg)
      BY <1>1, <2>3, <2>5 DEF On
    <3>2. QED
      BY <2>1, <2>2, <3>1
  <2>6. CASE s = "right"
    <3>1. r < arg /\ (r < x => arg < x)
      BY <1>1, <2>3, <2>6 DEF On
    <3>2. QED
      BY <2>1, <2>2, <3>1
  <2>7. QED
    BY <1>1, <2>3, <2>5, <2>6 DEF Sides
<1>4. QED
  BY <1>3 DEF r

LEMMA FindEndKeeps ==
  ASSUME PiecesInv, FindEnd
  PROVE  /\ PiecesInv' /\ All' = All
         /\ ret' = IF arg \in All THEN arg ELSE Null
         /\ {x \in All : Between(x, arg, root')} = {}
<1> DEFINE r == Turned.root
<1>1. /\ op = "find" /\ AtEnd /\ root' = r /\ kid' = Assembled
      /\ Return(IF arg = r THEN arg ELSE Null)
  BY Zenon DEF FindEnd
<1>2. /\ arg \in Spread => arg = r
      /\ r \in Keys /\ Below(Assembled, r) = Spread
  BY <1>1, AssembledIs
<1>3. {x \in Spread : Between(x, arg, r)} = {}
  BY <1>1, NothingBetween
<1> HIDE DEF r
<1>4. arg \in Keys /\ All = Spread
  <2>1. saved = Null /\ arg \in Keys
    BY <1>1 DEF PiecesInv
  <2>2. QED
    BY <2>1, NothingUnderNull DEF All
<1>5. (IF arg = r THEN arg ELSE Null) \in Keys \cup {Null}
  BY <1>4
<1>6. PiecesInv' /\ All' = All
  BY <1>1, <1>5, LookedUp DEF r
<1>7. arg = r => arg \in Spread
  BY <1>2, UnderIs
<1>8. ret' = IF arg = r THEN arg ELSE Null
  BY <1>1 DEF Return
<1>9. QED
  BY <1>1, <1>2, <1>3, <1>4, <1>6, <1>7, <1>8

LEMMA NextEndKeeps ==
  ASSUME PiecesInv, NextEnd
  PROVE  /\ PiecesInv' /\ All' = All
         /\ ret' = Least({x \in All : x > arg})
         /\ {x \in All : Between(x, arg, root')} = {}
<1> DEFINE r == Turned.root
           m == Assembled
           v == IF m["right"][arg] = Null THEN Null ELSE Leftmost(m, m["right"][arg])
           A == Below(m, m["left"][r])
           B == Below(m, m["right"][r])
           S == {x \in All : x > arg}
<1>1. op = "next" /\ AtEnd /\ root' = r /\ kid' = m /\ Return(v)
  BY Zenon DEF NextEnd
<1>2. /\ arg \in Spread => arg = r
      /\ r \in Keys /\ Below(m, r) = Spread /\ Good(m, r)
  BY <1>1, AssembledIs
<1>3. {x \in Spread : Between(x, arg, r)} = {}
  BY <1>1, NothingBetween
<1> HIDE DEF r, m
<1>4. arg = r /\ All = Spread
  <2>1. saved = Null /\ arg \in All
    BY <1>1 DEF PiecesInv
  <2>2. All = Spread
    BY <2>1, NothingUnderNull DEF All
  <2>3. QED
    BY <1>2, <2>1, <2>2
<1>5. S = B
  <2>1. "left" \in Sides /\ "right" \in Sides /\ Other("left") = "right"
    BY DEF Sides, Other
  <2>2. Below(m, r) = {r} \cup A \cup B
    BY <1>2, <2>1, Unfold
  <2>3. (\A z \in A : z < r) /\ (\A z \in B : r < z)
    BY <1>2, <2>1, GoodRoot DEF On
  <2>4. Below(m, r) \subseteq Int /\ r \in Int
    BY <1>2, UnderKeys, PointersAssumption DEF Keys
  <2>5. ASSUME NEW x \in Below(m, r) PROVE x > r <=> x \in B
    <3>1. x \in Int /\ r \in Int
      BY <2>4
    <3>2. x \in A => x < r
      BY <2>3
    <3>3. x \in B => r < x
      BY <2>3
    <3>4. x = r \/ x \in A \/ x \in B
      BY <2>2
    <3> HIDE DEF A, B
    <3>5. QED
      BY <3>1, <3>2, <3>3, <3>4
  <2>6. B \subseteq Below(m, r)
    BY <2>2
  <2>7. QED
    BY <1>2, <1>4, <2>5, <2>6
<1>6. m["right"][r] \in Keys \cup {Null} /\ Good(m, m["right"][r])
  <2>1. "right" \in Sides
    BY DEF Sides
  <2>2. QED
    BY <1>2, <2>1, GoodRoot DEF Good
<1>7. v = Least(S) /\ v \in Keys \cup {Null}
  <2>1. CASE m["right"][r] = Null
    <3>1. S = {}
      BY <1>5, <2>1, NothingUnderNull
    <3>2. QED
      BY <1>4, <2>1, <3>1 DEF Least
  <2>2. CASE m["right"][r] # Null
    <3>1. m["right"][r] \in Keys
      BY <1>6, <2>2
    <3>2. v \in B /\ \A z \in B : v <= z
      BY <1>4, <1>6, <2>2, <3>1, LeftmostIs
    <3>3. B \in SUBSET Keys
      BY UnderKeys
    <3> HIDE DEF v, B, S
    <3>4. Least(B) = v
      BY <3>2, <3>3, LeastIs
    <3>5. QED
      BY <1>5, <3>2, <3>3, <3>4
  <2>3. QED
    BY <2>1, <2>2
<1> HIDE DEF v, S
<1>8. PiecesInv' /\ All' = All
  BY <1>1, <1>7, LookedUp DEF r, m
<1>9. ret' = v
  BY <1>1 DEF Return
<1>10. ret' = Least(S)
  BY <1>7, <1>9
<1>11. QED
  BY <1>1, <1>3, <1>4, <1>8, <1>10 DEF S

LEMMA MinMaxEndKeeps ==
  ASSUME PiecesInv, MinMaxEnd
  PROVE  /\ PiecesInv' /\ All' = All
         /\ op = "min" => ret' = Least(All)
         /\ op = "max" => ret' = Most(All)
<1> DEFINE r == Turned.root
           s == Toward(r)
<1>1. op \in {"min", "max"} /\ AtEnd /\ root' = r /\ kid' = Assembled /\ Return(r)
  BY Zenon DEF MinMaxEnd
<1>2. /\ r \in Keys /\ Below(Assembled, r) = Spread
      /\ arg # r => /\ s \in Sides /\ On(s, arg, r)
                    /\ \A x \in Spread : On(s, x, r) => On(s, x, arg)
  BY <1>1, AssembledIs
<1> HIDE DEF r, s
<1>3. All = Spread
  <2>1. saved = Null
    BY <1>1 DEF PiecesInv
  <2>2. QED
    BY <2>1, NothingUnderNull DEF All
<1>4. PiecesInv' /\ All' = All
  <2>1. r \in Keys \cup {Null}
    BY <1>2
  <2>2. QED
    BY <1>1, <2>1, LookedUp DEF r
<1>5. r \in All /\ All \in SUBSET Keys /\ ret' = r
  BY <1>1, <1>2, <1>3, UnderIs, UnderKeys DEF Return
<1>6. \A x \in Keys : x \in Int /\ 0 < x /\ x < N + 1 /\ N \in Int
  BY PointersAssumption DEF Keys
<1>7. ASSUME op = "min" PROVE Least(All) = r
  <2>1. arg = 0
    BY <1>7 DEF PiecesInv
  <2>2. ASSUME NEW x \in All PROVE r <= x
    <3>1. r \in Int /\ 0 < r /\ x \in Int /\ 0 < x
      BY <1>2, <1>5, <1>6
    <3>2. arg # r /\ ~On("right", arg, r)
      BY <2>1, <3>1 DEF On
    <3>3. s = "left"
      BY <1>2, <3>2 DEF Sides
    <3>4. x < r => x < 0
      BY <1>2, <1>3, <2>1, <3>2, <3>3 DEF On
    <3>5. QED
      BY <3>1, <3>4
  <2>3. QED
    BY <1>5, <2>2, LeastIs
<1>8. ASSUME op = "max" PROVE Most(All) = r
  <2>1. arg = N + 1
    BY <1>8 DEF PiecesInv
  <2>2. ASSUME NEW x \in All PROVE x <= r
    <3>1. r \in Int /\ r < N + 1 /\ x \in Int /\ x < N + 1 /\ N \in Int
      BY <1>2, <1>5, <1>6
    <3>2. arg # r /\ ~On("left", arg, r)
      BY <2>1, <3>1 DEF On
    <3>3. s = "right"
      BY <1>2, <3>2 DEF Sides
    <3>4. r < x => N + 1 < x
      BY <1>2, <1>3, <2>1, <3>2, <3>3 DEF On
    <3>5. QED
      BY <3>1, <3>4
  <2>3. QED
    BY <1>5, <2>2, MostIs
<1>9. QED
  BY <1>4, <1>5, <1>7, <1>8

-----------------------------------------------------------------------------
(* What a caller can rely on.                                              *)

\* What Answers says of a step, of the elements of the pieces.
AnswersOfAll ==
  op # "idle" /\ op' = "idle" =>
    /\ op = "find" => ret' = IF arg \in All THEN arg ELSE Null
    /\ op = "next" => ret' = Least({x \in All : x > arg})
    /\ op = "min" => ret' = Least(All)
    /\ op = "max" => ret' = Most(All)
    /\ op \in {"find", "next"} => {x \in All : Between(x, arg, root')} = {}

\* The keys of all pieces stay, but for the one that a call inserts or removes.
OneKey == All' = All \/ \E k \in Keys : All' = All \cup {k} \/ All' = All \ {k}

LEMMA StepKeeps ==
  ASSUME PiecesInv, [Next]_vars
  PROVE  PiecesInv' /\ OneKey /\ AnswersOfAll
<1>1. ASSUME NEW k \in Keys, InsertFirst(k) PROVE PiecesInv' /\ OneKey /\ AnswersOfAll
  <2>1. op = "idle"
    BY <1>1 DEF InsertFirst
  <2>2. QED
    BY <1>1, <2>1, InsertFirstKeeps DEF OneKey, AnswersOfAll
<1>2. ASSUME NEW o, NEW k, Call(o, k),
             (o \in {"insert", "remove", "find", "next"} /\ k \in Keys) \/ o \in {"min", "max"}
      PROVE  PiecesInv' /\ OneKey /\ AnswersOfAll
  <2>1. op = "idle"
    BY <1>2 DEF Call
  <2>2. QED
    BY <1>2, <2>1, CallKeeps DEF OneKey, AnswersOfAll
<1>3. CASE Splay
  <2>1. op' = op
    BY <1>3 DEF Splay
  <2>2. PiecesInv' /\ All' = All
    BY <1>3, SplayKeeps
  <2>3. QED
    BY <2>1, <2>2 DEF OneKey, AnswersOfAll
<1>4. CASE InsertEnd
  <2>1. op = "insert" /\ arg \in Keys
    BY <1>4 DEF InsertEnd, PiecesInv
  <2>2. QED
    BY <1>4, <2>1, InsertEndKeeps DEF OneKey, AnswersOfAll
<1>5. CASE RemoveEnd
  <2>1. op = "remove" /\ arg \in Keys
    BY <1>5 DEF RemoveEnd, PiecesInv
  <2>2. QED
    BY <1>5, <2>1, RemoveEndKeeps DEF OneKey, AnswersOfAll
<1>6. CASE JoinEnd
  <2>1. op = "join"
    BY <1>6 DEF JoinEnd
  <2>2. QED
    BY <1>6, <2>1, JoinEndKeeps DEF OneKey, AnswersOfAll
<1>7. CASE FindEnd
  <2>1. op = "find"
    BY <1>7 DEF FindEnd
  <2>2. QED
    BY <1>7, <2>1, FindEndKeeps DEF OneKey, AnswersOfAll
<1>8. CASE NextEnd
  <2>1. op = "next"
    BY <1>8 DEF NextEnd
  <2>2. QED
    BY <1>8, <2>1, NextEndKeeps DEF OneKey, AnswersOfAll
<1>9. CASE MinMaxEnd
  <2>1. op \in {"min", "max"}
    BY <1>9 DEF MinMaxEnd
  <2>2. QED
    BY <1>9, <2>1, MinMaxEndKeeps DEF OneKey, AnswersOfAll
<1>10. CASE UNCHANGED vars
  <2>1. /\ root' = root /\ kid' = kid /\ op' = op /\ arg' = arg /\ end' = end
        /\ saved' = saved /\ ret' = ret
    BY <1>10 DEF vars
  <2>2. Cut' = Cut /\ Spread' = Spread /\ All' = All
    BY <2>1 DEF Cut, Spread, All, Piece
  <2>3. PiecesInv'
    BY <2>1, <2>2 DEF PiecesInv
  <2>4. QED
    BY <2>1, <2>2, <2>3 DEF OneKey, AnswersOfAll
<1>11. QED
  BY <1>1, <1>2, <1>3, <1>4, <1>5, <1>6, <1>7, <1>8, <1>9, <1>10 DEF Next, Running

\* The keys before and after a step of each kind.
LEMMA CalledKeeps ==
  PiecesInv => AsCalled
<1> SUFFICES ASSUME PiecesInv PROVE AsCalled
  OBVIOUS
<1>1. keys = All
  BY KeysAre
<1>2. ASSUME PiecesInv' PROVE keys' = All'
  <2>1. (PiecesInv => keys = All)'
    BY KeysAre, PTL
  <2>2. QED
    BY <1>2, <2>1
<1>3. ASSUME NEW k \in Keys, InsertFirst(k) PROVE OS!Insert(k)
  <2>1. PiecesInv' /\ All' = All \cup {k}
    BY <1>3, InsertFirstKeeps
  <2>2. QED
    BY <1>1, <1>2, <2>1 DEF OS!Insert
<1>4. ASSUME InsertEnd PROVE OS!Insert(arg)
  <2>1. PiecesInv' /\ All' = All \cup {arg}
    BY <1>4, InsertEndKeeps
  <2>2. QED
    BY <1>1, <1>2, <2>1 DEF OS!Insert
<1>5. ASSUME RemoveEnd PROVE OS!Remove(arg)
  <2>1. PiecesInv' /\ All' = All \ {arg}
    BY <1>5, RemoveEndKeeps
  <2>2. QED
    BY <1>1, <1>2, <2>1 DEF OS!Remove
<1>6. ASSUME NEW o \in {"insert", "remove", "find", "next", "min", "max"}, NEW k \in Keys, Call(o, k)
      PROVE  UNCHANGED keys
  <2>1. (o \in {"insert", "remove", "find", "next"} /\ k \in Keys) \/ o \in {"min", "max"}
    OBVIOUS
  <2>2. PiecesInv' /\ All' = All
    BY <1>6, <2>1, CallKeeps
  <2>3. QED
    BY <1>1, <1>2, <2>2
<1>7. ASSUME Splay \/ JoinEnd \/ FindEnd \/ NextEnd \/ MinMaxEnd PROVE UNCHANGED keys
  <2>1. PiecesInv' /\ All' = All
    BY <1>7, SplayKeeps, JoinEndKeeps, FindEndKeeps, NextEndKeeps, MinMaxEndKeeps
  <2>2. QED
    BY <1>1, <1>2, <2>1
<1>8. QED
  BY <1>3, <1>4, <1>5, <1>6, <1>7 DEF AsCalled

\* While a call has the tree apart, everything on one side of SPLAY's node is
\* beyond the key looked for and beyond the rest, each piece is a search tree,
\* and what lies behind its open end is an element or Null.
THEOREM PiecesKept ==
  Spec => []PiecesInv
<1>1. Init => PiecesInv
  BY InitPieces
<1>2. PiecesInv /\ [Next]_vars => PiecesInv'
  BY StepKeeps
<1>3. QED
  BY <1>1, <1>2, PTL DEF Spec

\* Whatever is inserted, removed and looked up, in any order: SPLAY_INSERT adds
\* its key to the tree's and SPLAY_REMOVE takes its key from them, in one step
\* each, and no rotation, link, assembly or join loses or doubles another.
THEOREM CallsImplementOrderedSet ==
  Spec => ImplementsOrderedSet
<1>1. Init => OS!Init
  BY InitPieces, KeysAre DEF OS!Init
<1>2. PiecesInv /\ [Next]_vars => [OS!Next]_keys /\ AsCalled
  <2>1. SUFFICES ASSUME PiecesInv, [Next]_vars PROVE [OS!Next]_keys /\ AsCalled
    OBVIOUS
  <2>2. keys = All /\ PiecesInv' /\ OneKey
    BY <2>1, KeysAre, StepKeeps
  <2>3. keys' = All'
    <3>1. (PiecesInv => keys = All)'
      BY KeysAre, PTL
    <3>2. QED
      BY <2>2, <3>1
  <2>4. QED
    <3>1. [OS!Next]_keys
      BY <2>2, <2>3 DEF OneKey, OS!Next, OS!Insert, OS!Remove
    <3>2. QED
      BY <2>1, <3>1, CalledKeeps
<1>3. QED
  BY <1>1, <1>2, PiecesKept, PTL DEF Spec, ImplementsOrderedSet, OS!Spec

LEMMA PiecesPointers ==
  PiecesInv => TypeOK
<1> SUFFICES ASSUME PiecesInv PROVE TypeOK
  OBVIOUS
<1>1. Good(Cut, root) /\ \A s \in Sides : Good(Cut, Cut[s][Header])
  <2>1. CASE op = "idle"
    BY <2>1, AtRest, NothingUnderNull
  <2>2. CASE op # "idle"
    BY <2>2 DEF PiecesInv, Loose, OpenAt
  <2>3. QED
    BY <2>1, <2>2
<1>2. ASSUME NEW x \in All, NEW s \in Sides PROVE Cut[s][x] \in Keys \cup {Null}
  <2>1. x \in Below(Cut, root) \/ x \in Below(Cut, saved) \/ \E t \in Sides : x \in Below(Cut, Cut[t][Header])
    BY DEF All, Spread, Piece, Sides
  <2>2. Good(Cut, saved)
    BY DEF PiecesInv
  <2>3. QED
    BY <1>1, <2>1, <2>2 DEF Good
<1>3. All \subseteq Keys
  BY UnderKeys DEF All, Spread, Piece
<1>4. ASSUME NEW x \in All, NEW s \in Sides PROVE kid[s][x] \in Keys \cup {Null}
  <2>1. /\ kid[s][end[Other(s)]] \in All \cup {Null}
        /\ x # end[Other(s)] => Cut[s][x] = kid[s][x]
    BY <1>3, CutIs DEF PiecesInv, Cut
  <2>2. CASE x = end[Other(s)]
    BY <1>3, <2>1, <2>2
  <2>3. CASE x # end[Other(s)]
    BY <1>2, <2>1, <2>3
  <2>4. QED
    BY <2>2, <2>3
<1>5. keys = All
  BY KeysAre
<1>6. QED
  BY <1>4, <1>5 DEF TypeOK, PiecesInv, Memory, Values

LEMMA RestIsOrdered ==
  PiecesInv => SearchOrder
<1> SUFFICES ASSUME PiecesInv, op = "idle", NEW x \in keys
             PROVE  /\ \A y \in Below(kid, kid["left"][x]) : y < x
                    /\ \A y \in Below(kid, kid["right"][x]) : y > x
  BY DEF SearchOrder
<1>1. x \in Below(Cut, root) /\ Good(Cut, root) /\ x \in Keys
  BY AtRest, KeysAre, UnderKeys
<1>2. \A s \in Sides, y \in Keys : kid[s][y] = Cut[s][y]
  <2>1. /\ kid \in Memory /\ end = [s \in Sides |-> Header]
        /\ end \in [Sides -> Keys \cup {Header}] /\ Header \notin Keys
    BY Sorts DEF PiecesInv
  <2>2. \A s \in Sides : end[Other(s)] = Header
    BY <2>1, Opposite
  <2>3. QED
    BY <2>1, <2>2, CutIs DEF Cut
<1>3. ASSUME NEW s \in Sides PROVE Below(kid, kid[s][x]) = Below(Cut, Cut[s][x])
  <2>1. \A y \in Below(Cut, Cut[s][x]), t \in Sides : kid[t][y] = Cut[t][y]
    BY <1>2, UnderKeys
  <2>2. Below(kid, Cut[s][x]) = Below(Cut, Cut[s][x])
    BY <2>1, SameUnder
  <2>3. QED
    BY <1>1, <1>2, <2>2
<1>4. \A s \in Sides : \A y \in Below(Cut, Cut[s][x]) : On(s, y, x) /\ y \in Keys
  BY <1>1, UnderKeys DEF Good
<1>5. (\A y \in Below(kid, kid["left"][x]) : y < x) /\ (\A y \in Below(kid, kid["right"][x]) : x < y)
  BY <1>3, <1>4 DEF On, Sides
<1>6. \A y \in Below(kid, kid["right"][x]) : y \in Int /\ x \in Int
  <2>1. "right" \in Sides /\ \A y \in Keys : y \in Int
    BY PointersAssumption DEF Keys, Sides
  <2>2. QED
    BY <1>1, <1>3, <1>4, <2>1
<1>7. QED
  BY <1>5, <1>6

\* After every call, SPLAY_REMOVE with its second splay included, the tree is a
\* search tree of elements that are all there; and no step follows a pointer of
\* an element that was removed, for none of the pieces has one.
THEOREM TreeStaysWellFormed ==
  Spec => []WellFormed
<1>1. PiecesInv => WellFormed
  BY PiecesPointers, RestIsOrdered DEF WellFormed
<1>2. QED
  BY <1>1, PiecesKept, PTL

\* SPLAY_FIND gives the element exactly when it is in the tree, SPLAY_NEXT the
\* next greater one or Null, SPLAY_MIN and SPLAY_MAX the least and the greatest;
\* and what SPLAY leaves at the root is as close to the key as it can be.
THEOREM LookupsAnswer ==
  Spec => Answers
<1>1. PiecesInv /\ [Next]_vars =>
        [op # "idle" /\ op' = "idle" =>
           /\ op = "find" => ret' = IF arg \in keys THEN arg ELSE Null
           /\ op = "next" => ret' = Least({x \in keys : x > arg})
           /\ op = "min" => ret' = Least(keys)
           /\ op = "max" => ret' = Most(keys)
           /\ op \in {"find", "next"} => {x \in keys : Between(x, arg, root')} = {}]_vars
  <2>1. SUFFICES ASSUME PiecesInv, [Next]_vars, op # "idle", op' = "idle"
                 PROVE  /\ op = "find" => ret' = IF arg \in keys THEN arg ELSE Null
                        /\ op = "next" => ret' = Least({x \in keys : x > arg})
                        /\ op = "min" => ret' = Least(keys)
                        /\ op = "max" => ret' = Most(keys)
                        /\ op \in {"find", "next"} =>
                             {x \in keys : Between(x, arg, root')} = {}
    OBVIOUS
  <2>2. AnswersOfAll /\ keys = All
    BY <2>1, StepKeeps, KeysAre
  <2> HIDE DEF All
  <2>3. QED
    BY <2>1, <2>2 DEF AnswersOfAll
<1>2. QED
  BY <1>1, PiecesKept, PTL DEF Spec, Answers

-----------------------------------------------------------------------------
(* The red-black tree.  Its elements and its pointers are those of above.  *)

LEMMA Fields ==
  /\ RbNodes = Keys \cup {Null, Junk} /\ Null \notin Keys /\ Junk \notin Keys
  /\ Junk # Null
  BY Sorts DEF RbNodes

\* n is m with another tree behind the pointer s of p.  What is new in it, is
\* where the way down to p would look for it.
Replaces(m, n, r, p, s) ==
  /\ Good(m, r) /\ p \in Below(m, r) /\ Good(n, n[s][p])
  /\ \A y \in Below(m, r) \ Below(m, m[s][p]) : \A u \in Sides :
       (y = p /\ u = s) \/ n[u][y] = m[u][y]
  /\ \A z \in Below(n, n[s][p]) :
       \/ z \in Below(m, m[s][p])
       \/ /\ On(s, z, p)
          /\ \A y \in Below(m, r), u \in Sides : p \in Below(m, m[u][y]) => On(u, z, y)

LEMMA Replace ==
  ASSUME NEW m, NEW n, NEW r, NEW p, NEW s \in Sides, Replaces(m, n, r, p, s)
  PROVE  /\ Good(n, r)
         /\ Below(n, r) = (Below(m, r) \ Below(m, m[s][p])) \cup Below(n, n[s][p])
<1> DEFINE T == Below(m, r)
           Z == Below(m, m[s][p])
           Q == Below(n, n[s][p])
           Done(y) == Good(n, y) /\ Below(n, y) = (Below(m, y) \ Z) \cup Q
           A == {y \in T : p \in Below(m, y)}
           W == {y \in A : ~Done(y)}
<1>1. /\ Good(m, r) /\ p \in T /\ Good(n, n[s][p]) /\ r \in Keys /\ p \in Keys
      /\ \A y \in T \ Z : \A u \in Sides : (y = p /\ u = s) \/ n[u][y] = m[u][y]
      /\ \A z \in Q :
           \/ z \in Z
           \/ /\ On(s, z, p)
              /\ \A y \in T, u \in Sides : p \in Below(m, m[u][y]) => On(u, z, y)
  BY UnderKeys, UnderNothing DEF Replaces
<1>2. ASSUME NEW y \in T
      PROVE  /\ y \in Keys /\ Good(m, y) /\ y \in Below(m, y)
             /\ \A u \in Sides : /\ Good(m, m[u][y]) /\ y \notin Below(m, m[u][y])
                                 /\ \A z \in Below(m, m[u][y]) : On(u, z, y)
                                 /\ Below(m, m[u][y]) \cap Below(m, m[Other(u)][y]) = {}
                                 /\ Below(m, m[u][y]) \subseteq T
  <2>1. y \in Keys /\ Good(m, y)
    BY <1>1, UnderKeys, GoodPart
  <2>2. Below(m, y) \subseteq T
    BY UnderPart
  <2>3. QED
    BY <2>1, <2>2, GoodRoot, UnderIs
\* A subtree without p, beside the way down to p.
<1>3. ASSUME NEW x, Below(m, x) \subseteq T \ Z, p \notin Below(m, x), Good(m, x)
      PROVE  Good(n, x) /\ Below(n, x) = Below(m, x)
  <2>1. \A y \in Below(m, x), u \in Sides : n[u][y] = m[u][y]
    BY <1>1, <1>3
  <2>2. QED
    BY <1>3, <2>1, SameUnder, GoodSame
\* One step up the way.
<1>4. ASSUME NEW y \in T, NEW u \in Sides, y \notin Z, Z \subseteq Below(m, m[u][y]),
             p \notin Below(m, m[Other(u)][y]),
             Good(n, n[u][y]), Below(n, n[u][y]) = (Below(m, m[u][y]) \ Z) \cup Q,
             y = p => u = s, \A z \in Q : On(u, z, y)
      PROVE  Done(y)
  <2>1. Other(u) \in Sides /\ Other(u) # u /\ Other(Other(u)) = u
    BY Opposite
  <2>2. /\ n[Other(u)][y] = m[Other(u)][y]
        /\ Good(n, n[Other(u)][y]) /\ Below(n, n[Other(u)][y]) = Below(m, m[Other(u)][y])
    <3>1. n[Other(u)][y] = m[Other(u)][y]
      BY <1>1, <1>4, <2>1
    <3>2. Below(m, m[Other(u)][y]) \subseteq T \ Z /\ Good(m, m[Other(u)][y])
      BY <1>2, <1>4, <2>1
    <3>3. QED
      BY <1>3, <1>4, <3>1, <3>2
  <2>3. /\ \A z \in Below(n, n[u][y]) : On(u, z, y)
        /\ \A z \in Below(n, n[Other(u)][y]) : On(Other(u), z, y)
    BY <1>2, <1>4, <2>1, <2>2
  <2>4. Good(n, y)
    BY <1>2, <1>4, <2>2, <2>3, GoodBuild
  <2>5. /\ Below(n, y) = {y} \cup Below(n, n[u][y]) \cup Below(n, n[Other(u)][y])
        /\ Below(m, y) = {y} \cup Below(m, m[u][y]) \cup Below(m, m[Other(u)][y])
    BY <1>2, Unfold
  <2>6. Below(m, m[u][y]) \cap Below(m, m[Other(u)][y]) = {}
    BY <1>2
  <2> HIDE DEF Z, Q
  <2>7. Below(n, y) = (Below(m, y) \ Z) \cup Q
    BY <1>4, <2>2, <2>5, <2>6
  <2>8. QED
    BY <2>4, <2>7
<1>5. Done(p)
  <2>1. p \notin Z /\ p \notin Below(m, m[Other(s)][p])
    BY <1>1, <1>2, Opposite
  <2>2. \A z \in Q : On(s, z, p)
    BY <1>1, <1>2
  <2>3. Below(n, n[s][p]) = (Below(m, m[s][p]) \ Z) \cup Q
    OBVIOUS
  <2>4. Good(n, n[s][p])
    BY <1>1
  <2> HIDE DEF Done, Q
  <2>5. QED
    BY <1>1, <1>4, <2>1, <2>2, <2>3, <2>4
<1>6. ASSUME NEW y \in A, y # p, \A x \in A : Size(m)[x] < Size(m)[y] => Done(x)
      PROVE  Done(y)
  <2>1. y \in T /\ y \in Keys /\ p \in Below(m, y)
    BY <1>2, <1>6
  <2>2. PICK u \in Sides : p \in Below(m, m[u][y])
    <3>1. "left" \in Sides
      BY DEF Sides
    <3>2. Below(m, y) = {y} \cup Below(m, m["left"][y]) \cup Below(m, m[Other("left")][y])
      BY <2>1, <3>1, Unfold
    <3>3. QED
      BY <1>6, <2>1, <3>1, <3>2, Opposite
  <2>3. m[u][y] \in Keys
    BY <2>2, UnderNothing
  <2>4. m[u][y] \in T /\ Size(m)[m[u][y]] < Size(m)[y]
    BY <1>1, <2>1, <2>3, SizeIs
  <2>5. Done(m[u][y])
    BY <1>6, <2>2, <2>4
  <2>6. Z \subseteq Below(m, m[u][y])
    BY <2>2, UnderPart
  <2>7. y \notin Z /\ p \notin Below(m, m[Other(u)][y])
    BY <1>2, <2>1, <2>2, <2>6
  <2>8. n[u][y] = m[u][y]
    BY <1>1, <1>6, <2>1, <2>7
  <2>9. \A z \in Q : On(u, z, y)
    BY <1>1, <1>2, <2>1, <2>2, <2>6
  <2>10. Good(n, n[u][y]) /\ Below(n, n[u][y]) = (Below(m, m[u][y]) \ Z) \cup Q
    BY <2>5, <2>8
  <2> HIDE DEF Done, Z, Q, T
  <2>11. QED
    BY <1>4, <1>6, <2>1, <2>6, <2>7, <2>9, <2>10
<1>7. W = {}
  <2>1. ASSUME W # {} PROVE FALSE
    <3>1. \A y \in W : Size(m)[y] \in Nat
      <4>1. ASSUME NEW y \in W PROVE Size(m)[y] \in Nat
        <5>1. y \in T /\ s \in Sides
          OBVIOUS
        <5>2. Size(m)[y] \in 0..N
          BY <1>1, <5>1, SizeIs
        <5>3. QED
          BY <5>2
      <4>2. QED
        BY <4>1
    <3> HIDE DEF W
    <3>2. PICK y \in W : \A x \in W : ~(Size(m)[x] < Size(m)[y])
      BY <2>1, <3>1, Lowest
    <3>3. y \in A /\ ~Done(y)
      BY DEF W
    <3>4. \A x \in A : Size(m)[x] < Size(m)[y] => Done(x)
      BY <3>2 DEF W
    <3> HIDE DEF Done, A
    <3>5. QED
      BY <1>5, <1>6, <3>3, <3>4
  <2>2. QED
    BY <2>1
<1>8. r \in A
  BY <1>1, UnderIs
<1>9. Done(r)
  BY <1>7, <1>8
<1>10. QED
  BY <1>9

-----------------------------------------------------------------------------
(* Parents.                                                                *)

Trees ==
  [root : Keys \cup {Null}, kid : [Sides -> [Keys -> RbNodes]],
   par : [Keys -> RbNodes], red : SUBSET Keys]

\* The elements of the tree.
Tr(t) == Below(t.kid, t.root)

\* A search tree with its parent pointers.
Linked(t) ==
  /\ t \in Trees /\ Good(t.kid, t.root)
  /\ t.root # Null => t.par[t.root] = Null
  /\ \A x \in Tr(t), s \in Sides : t.kid[s][x] # Null => t.par[t.kid[s][x]] = x

LEMMA TreeTypes ==
  ASSUME NEW t, t \in Trees
  PROVE  /\ t.root \in Keys \cup {Null} /\ t.red \subseteq Keys
         /\ t.kid \in [Sides -> [Keys -> RbNodes]] /\ t.par \in [Keys -> RbNodes]
         /\ \A x \in Keys : /\ t.par[x] \in RbNodes
                            /\ \A s \in Sides : t.kid[s][x] \in RbNodes
         /\ t = [root |-> t.root, kid |-> t.kid, par |-> t.par, red |-> t.red]
  BY DEF Trees

LEMMA KidIs ==
  ASSUME NEW t, Linked(t), NEW x \in Tr(t), NEW s \in Sides, NEW c, c = t.kid[s][x]
  PROVE  /\ x \in Keys /\ c \in Keys \cup {Null}
         /\ c # Null => /\ c \in Tr(t) /\ c \in Keys /\ t.par[c] = x
                        /\ c # t.root /\ c # x /\ c # t.kid[Other(s)][x]
                        /\ On(s, c, x) /\ x \notin Below(t.kid, c)
<1> DEFINE m == t.kid
<1>1. Good(m, t.root) /\ x \in Below(m, t.root) /\ Null \notin Keys
  BY Sorts DEF Linked, Tr
<1>2. x \in Keys /\ c \in Keys \cup {Null} /\ Good(m, x)
  BY <1>1, UnderKeys, GoodPart DEF Good
<1>3. ASSUME c # Null
      PROVE  /\ c \in Tr(t) /\ c \in Keys /\ t.par[c] = x
             /\ c # t.root /\ c # x /\ c # m[Other(s)][x]
             /\ On(s, c, x) /\ x \notin Below(m, c)
  <2>1. c \in Keys /\ c \in Below(m, c)
    BY <1>2, <1>3, UnderIs
  <2>2. /\ c \in Below(m, t.root)
        /\ On(s, c, x) /\ c # x /\ x \notin Below(m, c)
        /\ Below(m, c) \cap Below(m, m[Other(s)][x]) = {}
    BY <1>1, <1>2, <2>1, GoodRoot, UnderPart
  <2>3. t.par[c] = x
    BY <1>3 DEF Linked
  <2>4. c # t.root
    BY <1>1, <1>2, <2>1, <2>3 DEF Linked
  <2>5. QED
    BY <2>1, <2>2, <2>3, <2>4 DEF Tr
<1>4. QED
  BY <1>2, <1>3

LEMMA RootIs ==
  ASSUME NEW t, Linked(t)
  PROVE  /\ t.root \in Keys \cup {Null} /\ (t.root # Null <=> t.root \in Tr(t))
         /\ t.root # Null => t.par[t.root] = Null
         /\ t.root = Null => Tr(t) = {}
         /\ Tr(t) \subseteq Keys /\ Null \notin Tr(t)
  BY Sorts, UnderIs, UnderNothing, UnderKeys DEF Linked, Tr, Good

LEMMA ParIs ==
  ASSUME NEW t, Linked(t), NEW x \in Tr(t)
  PROVE  /\ x \in Keys /\ (x = t.root <=> t.par[x] = Null)
         /\ x # t.root =>
              /\ t.par[x] \in Tr(t) /\ t.par[x] \in Keys /\ t.par[x] # x
              /\ Side(t, x) \in Sides /\ t.kid[Side(t, x)][t.par[x]] = x
              /\ x \notin Below(t.kid, t.kid[Other(Side(t, x))][t.par[x]])
<1> DEFINE m == t.kid
           S == {z \in Tr(t) : z = t.root \/ \E w \in Tr(t), s \in Sides : m[s][w] = z}
<1>1. t.root \in Keys /\ Tr(t) \subseteq Keys /\ Null \notin Keys /\ Good(m, t.root)
  BY RootIs, Sorts DEF Linked
<1>2. Closed(m, Tr(t)) /\ t.root \in Tr(t)
  BY <1>1, UnderIs DEF Tr
<1>3. Closed(m, S)
  BY <1>2 DEF Closed
<1>4. Tr(t) \subseteq S
  <2>1. S \in SUBSET Keys /\ t.root \in S
    BY <1>1, <1>2
  <2> HIDE DEF S
  <2>2. QED
    BY <1>1, <1>3, <2>1, UnderIs DEF Tr
<1>5. ASSUME x # t.root
      PROVE  /\ t.par[x] \in Tr(t) /\ t.par[x] \in Keys /\ t.par[x] # x
             /\ Side(t, x) \in Sides /\ m[Side(t, x)][t.par[x]] = x
             /\ x \notin Below(m, m[Other(Side(t, x))][t.par[x]])
  <2>1. PICK w \in Tr(t), s \in Sides : m[s][w] = x
    BY <1>4, <1>5
  <2>2. x \in Keys /\ x # Null /\ w \in Keys
    BY <1>1, <2>1
  <2>3. t.par[x] = w /\ x # w
    BY <2>1, <2>2, KidIs
  <2>4. Side(t, x) \in Sides /\ m[Side(t, x)][w] = x
    <3>1. Side(t, x) = IF m["left"][w] = x THEN "left" ELSE "right"
      BY <2>3 DEF Side
    <3>2. QED
      BY <2>1, <3>1 DEF Sides
  <2> DEFINE u == Side(t, x)
  <2> HIDE DEF u
  <2>5. u \in Sides /\ m[u][w] = x => x \notin Below(m, m[Other(u)][w])
    <3>1. SUFFICES ASSUME u \in Sides, m[u][w] = x PROVE x \notin Below(m, m[Other(u)][w])
      OBVIOUS
    <3>2. Good(m, w) /\ x \in Below(m, x)
      BY <1>1, <2>2, GoodPart, UnderIs DEF Tr
    <3>3. Below(m, m[u][w]) \cap Below(m, m[Other(u)][w]) = {}
      BY <2>2, <3>1, <3>2, GoodRoot
    <3>4. QED
      BY <3>1, <3>2, <3>3
  <2>6. QED
    BY <2>1, <2>2, <2>3, <2>4, <2>5 DEF u
<1>6. x = t.root => t.par[x] = Null
  BY <1>1 DEF Linked
<1>7. QED
  BY <1>1, <1>5, <1>6

LEMMA OnePlace ==
  ASSUME NEW t, Linked(t), NEW z \in Tr(t), NEW w \in Tr(t), NEW u \in Sides, NEW v \in Sides,
         t.kid[u][z] = t.kid[v][w], t.kid[u][z] # Null
  PROVE  z = w /\ u = v
<1>1. z = w
  BY KidIs
<1>2. u = v
  BY <1>1, KidIs, Opposite
<1>3. QED
  BY <1>1, <1>2

-----------------------------------------------------------------------------
(* Writing one field.                                                      *)

WritesRoot(t, n, v) ==
  /\ n \in Trees /\ n.root = v /\ n.red = t.red /\ n.kid = t.kid /\ n.par = t.par

WritesKid(t, n, s, x, v) ==
  /\ n \in Trees /\ n.root = t.root /\ n.red = t.red /\ n.par = t.par
  /\ n.kid[s][x] = v
  /\ \A z \in Keys, u \in Sides : (z = x /\ u = s) \/ n.kid[u][z] = t.kid[u][z]

WritesPar(t, n, x, v) ==
  /\ n \in Trees /\ n.root = t.root /\ n.red = t.red /\ n.kid = t.kid
  /\ n.par[x] = v
  /\ \A z \in Keys : z = x \/ n.par[z] = t.par[z]

WritesRed(t, n, R) ==
  /\ n \in Trees /\ n.root = t.root /\ n.red = R /\ n.kid = t.kid /\ n.par = t.par

LEMMA Writes ==
  ASSUME NEW t, t \in Trees
  PROVE  /\ \A v \in Keys \cup {Null} : WritesRoot(t, [t EXCEPT !.root = v], v)
         /\ \A s \in Sides, x \in Keys, v \in RbNodes :
              WritesKid(t, [t EXCEPT !.kid[s][x] = v], s, x, v)
         /\ \A x \in Keys, v \in RbNodes : WritesPar(t, [t EXCEPT !.par[x] = v], x, v)
         /\ \A R \in SUBSET Keys : WritesRed(t, [t EXCEPT !.red = R], R)
<1>1. ASSUME NEW v \in Keys \cup {Null} PROVE WritesRoot(t, [t EXCEPT !.root = v], v)
  BY DEF Trees, WritesRoot
<1>2. ASSUME NEW s \in Sides, NEW x \in Keys, NEW v \in RbNodes
      PROVE  WritesKid(t, [t EXCEPT !.kid[s][x] = v], s, x, v)
  BY DEF Trees, WritesKid
<1>3. ASSUME NEW x \in Keys, NEW v \in RbNodes
      PROVE  WritesPar(t, [t EXCEPT !.par[x] = v], x, v)
  BY DEF Trees, WritesPar
<1>4. ASSUME NEW R \in SUBSET Keys PROVE WritesRed(t, [t EXCEPT !.red = R], R)
  BY DEF Trees, WritesRed
<1>5. QED
  BY <1>1, <1>2, <1>3, <1>4

\* Relink and SetParent are such writes.
LEMMA RelinkIs ==
  ASSUME NEW t, t \in Trees, NEW x \in Keys, NEW y \in Keys \cup {Null}
  PROVE  /\ t.par[x] = Null => WritesRoot(t, Relink(t, x, y), y)
         /\ t.par[x] \in Keys =>
              WritesKid(t, Relink(t, x, y), Side(t, x), t.par[x], y)
<1>1. t.par[x] = Null => WritesRoot(t, Relink(t, x, y), y)
  BY Writes, Fields DEF Relink
<1>2. Side(t, x) \in Sides /\ y \in RbNodes
  BY Fields DEF Side, Sides
<1>3. ASSUME t.par[x] \in Keys
      PROVE  WritesKid(t, Relink(t, x, y), Side(t, x), t.par[x], y)
  <2> DEFINE s == Side(t, x)
  <2>1. Relink(t, x, y) = [t EXCEPT !.kid[s][t.par[x]] = y]
    BY <1>3, Fields DEF Relink
  <2> HIDE DEF s
  <2>2. s \in Sides /\ y \in RbNodes
    BY <1>2 DEF s
  <2>3. WritesKid(t, [t EXCEPT !.kid[s][t.par[x]] = y], s, t.par[x], y)
    BY <1>3, <2>2, Writes
  <2>4. QED
    BY <2>1, <2>3 DEF s
<1>4. QED
  BY <1>1, <1>3

LEMMA SetParentIs ==
  ASSUME NEW t, t \in Trees, NEW x \in Keys \cup {Null}, NEW p \in RbNodes
  PROVE  /\ x = Null => SetParent(t, x, p) = t
         /\ x # Null => WritesPar(t, SetParent(t, x, p), x, p)
  BY Writes, Fields DEF SetParent

\* Colours do not matter for the pointers.
LEMMA Painted ==
  ASSUME NEW t, Linked(t), NEW n, n \in Trees,
         n.root = t.root, n.kid = t.kid, n.par = t.par
  PROVE  /\ Linked(n) /\ Tr(n) = Tr(t)
         /\ \A x : Side(n, x) = Side(t, x)
  BY DEF Linked, Tr, Side

LEMMA PaintIs ==
  ASSUME NEW t, t \in Trees, NEW b, NEW r \in Keys
  PROVE  WritesRed(t, Paint(t, b, r), (t.red \ {b}) \cup {r})
<1>1. (t.red \ {b}) \cup {r} \in SUBSET Keys
  BY TreeTypes
<1>2. Paint(t, b, r) = [t EXCEPT !.red = (t.red \ {b}) \cup {r}]
  BY DEF Paint
<1>3. QED
  BY <1>1, <1>2, Writes

-----------------------------------------------------------------------------
(* Rotations.                                                              *)

\* n is t with the child y of x on the other side in the place of x, and with x
\* below y on side s; c goes from y to x, g is the element above.
IsTurned(t, n, s, x, y, c, g) ==
  /\ n \in Trees /\ n.root = IF g = Null THEN y ELSE t.root
  /\ n.kid[Other(s)][x] = c /\ n.kid[s][y] = x
  /\ g # Null => n.kid[Side(t, x)][g] = y
  /\ \A z \in Keys, u \in Sides :
       \/ z = x /\ u = Other(s)
       \/ z = y /\ u = s
       \/ z = g /\ u = Side(t, x)
       \/ n.kid[u][z] = t.kid[u][z]
  /\ n.par[x] = y /\ n.par[y] = g /\ (c # Null => n.par[c] = x)
  /\ \A z \in Keys : z = x \/ z = y \/ z = c \/ n.par[z] = t.par[z]

LEMMA RotateIs ==
  ASSUME NEW t, Linked(t), NEW x \in Tr(t), NEW s \in Sides,
         NEW y, y = t.kid[Other(s)][x], y # Null
  PROVE  /\ IsTurned(t, Rotate(t, s, x), s, x, y, t.kid[s][y], t.par[x])
         /\ Rotate(t, s, x).red = t.red
<1> DEFINE c  == t.kid[s][y]
           g  == t.par[x]
           o  == Other(s)
           a  == [t EXCEPT !.kid[o][x] = c]
           t1 == SetParent(a, c, x)
           b  == [t1 EXCEPT !.par[y] = t1.par[x]]
           t2 == Relink(b, x, y)
           t3 == [t2 EXCEPT !.kid[s][y] = x]
           n  == [t3 EXCEPT !.par[x] = y]
<1>1. /\ t \in Trees /\ o \in Sides /\ o # s /\ Other(o) = s
      /\ Keys \cup {Null} \subseteq RbNodes /\ Null \notin Keys
  BY Opposite, Fields DEF Linked
<1>2. /\ x \in Keys /\ y \in Keys /\ y \in Tr(t) /\ y # x /\ x \notin Below(t.kid, y)
      /\ t.par[y] = x /\ y # t.root
  BY <1>1, KidIs
<1>3. c \in Keys \cup {Null} /\ c # y /\ c # x
  <2>1. c \in Keys \cup {Null} /\ c # y
    BY <1>1, <1>2, KidIs
  <2>2. c # Null => c \in Below(t.kid, y)
    <3>1. y \in Below(t.kid, y)
      BY <1>2, UnderIs
    <3>2. c \in Keys => c \in Below(t.kid, y)
      BY <1>2, <3>1, UnderIs DEF Closed
    <3>3. QED
      BY <2>1, <3>2
  <2>3. QED
    BY <1>1, <1>2, <2>1, <2>2
<1>4. g \in Keys \cup {Null} /\ g # x /\ (g = Null <=> x = t.root)
      /\ (g # Null => g \in Tr(t) /\ t.kid[Side(t, x)][g] = x /\ Side(t, x) \in Sides)
  BY <1>1, <1>2, ParIs
<1>5. g # y
  <2>1. ASSUME g = y PROVE FALSE
    <3>1. x \in Below(t.kid, y)
      <4>1. y \in Below(t.kid, y) /\ t.kid[Side(t, x)][y] = x /\ Side(t, x) \in Sides
        BY <1>1, <1>2, <1>4, <2>1, UnderIs
      <4>2. QED
        BY <1>2, <4>1, UnderIs DEF Closed
    <3>2. QED
      BY <1>2, <3>1
  <2>2. QED
    BY <2>1
<1>6. Rotate(t, s, x) = n
  BY Fields DEF Rotate
<1>7. WritesKid(t, a, o, x, c)
  BY <1>1, <1>2, <1>3, Writes
<1> HIDE DEF a, c, g
<1>8. /\ c = Null => t1 = a
      /\ c # Null => WritesPar(a, t1, c, x)
  BY <1>1, <1>2, <1>3, <1>7, SetParentIs DEF WritesKid
<1>9. t1 \in Trees /\ t1.par[x] = g
  BY <1>2, <1>3, <1>7, <1>8 DEF WritesKid, WritesPar, g
<1> HIDE DEF t1
<1>10. WritesPar(t1, b, y, g)
  BY <1>1, <1>2, <1>4, <1>9, Writes
<1> HIDE DEF b
<1>11. b \in Trees /\ b.par[x] = g /\ b.root = t.root /\ b.red = t.red
       /\ b.kid[o][x] = c
       /\ (\A z \in Keys, u \in Sides : (z = x /\ u = o) \/ b.kid[u][z] = t.kid[u][z])
       /\ b.par[y] = g /\ (c # Null => b.par[c] = x)
       /\ \A z \in Keys : z = y \/ z = c \/ b.par[z] = t.par[z]
  BY <1>1, <1>2, <1>3, <1>7, <1>8, <1>9, <1>10 DEF WritesKid, WritesPar, Trees
<1>12. /\ g = Null => WritesRoot(b, t2, y)
       /\ g # Null => WritesKid(b, t2, Side(b, x), g, y)
  BY <1>2, <1>4, <1>11, RelinkIs
<1>13. g # Null => Side(b, x) = Side(t, x)
  <2>1. g # Null => b.kid["left"][g] = t.kid["left"][g]
    BY <1>4, <1>11 DEF Sides
  <2>2. QED
    BY <1>11, <2>1 DEF Side, g
<1> HIDE DEF t2
<1>14. t2 \in Trees
  BY <1>4, <1>12 DEF WritesRoot, WritesKid
<1>15. WritesKid(t2, t3, s, y, x)
  BY <1>1, <1>2, <1>14, Writes
<1> HIDE DEF t3
<1>16. WritesPar(t3, n, x, y)
  BY <1>1, <1>2, <1>15, Writes DEF WritesKid
<1> HIDE DEF n
<1>17. t2.red = t.red /\ t2.par = b.par /\ t2.root = IF g = Null THEN y ELSE t.root
  BY <1>11, <1>12 DEF WritesRoot, WritesKid
<1>18. /\ g # Null => t2.kid[Side(t, x)][g] = y
       /\ \A z \in Keys, u \in Sides : (z = g /\ u = Side(t, x)) \/ t2.kid[u][z] = b.kid[u][z]
  BY <1>12, <1>13, <1>14 DEF WritesRoot, WritesKid
<1>19. /\ n \in Trees /\ n.red = t.red /\ n.root = (IF g = Null THEN y ELSE t.root)
       /\ n.kid[s][y] = x /\ n.par[x] = y
       /\ \A z \in Keys, u \in Sides : (z = y /\ u = s) \/ n.kid[u][z] = t2.kid[u][z]
       /\ \A z \in Keys : z = x \/ n.par[z] = b.par[z]
  BY <1>15, <1>16, <1>17 DEF WritesKid, WritesPar
<1>20. n.kid[o][x] = c /\ (g # Null => n.kid[Side(t, x)][g] = y)
  BY <1>1, <1>2, <1>4, <1>5, <1>11, <1>18, <1>19
<1>21. \A z \in Keys, u \in Sides :
         \/ z = x /\ u = o
         \/ z = y /\ u = s
         \/ z = g /\ u = Side(t, x)
         \/ n.kid[u][z] = t.kid[u][z]
  BY <1>11, <1>18, <1>19
<1>22. n.par[y] = g /\ (c # Null => n.par[c] = x)
       /\ \A z \in Keys : z = x \/ z = y \/ z = c \/ n.par[z] = t.par[z]
  BY <1>2, <1>3, <1>11, <1>19
<1>23. IsTurned(t, n, s, x, y, c, g)
  BY <1>19, <1>20, <1>21, <1>22, SMTT(60) DEF IsTurned
<1>24. QED
  BY <1>6, <1>19, <1>23 DEF c, g

\* What there is around an element that is rotated.
LEMMA Around ==
  ASSUME NEW t, Linked(t), NEW x \in Tr(t), NEW s \in Sides,
         NEW y, y = t.kid[Other(s)][x], y # Null,
         NEW c, c = t.kid[s][y], NEW g, g = t.par[x]
  PROVE  /\ x \in Keys /\ y \in Keys /\ y \in Tr(t) /\ y # x /\ y # t.root /\ t.par[y] = x
         /\ c \in Keys \cup {Null} /\ c # x /\ c # y
         /\ c # Null => c \in Tr(t) /\ c # t.root /\ t.par[c] = y
         /\ g \in Keys \cup {Null} /\ g # x /\ g # y /\ (g # Null => g # c)
         /\ (g = Null <=> x = t.root)
         /\ g # Null => /\ g \in Tr(t) /\ Side(t, x) \in Sides
                        /\ t.kid[Side(t, x)][g] = x
         /\ g \notin Below(t.kid, x)
<1> DEFINE m == t.kid
           X == Below(m, x)
           u == Side(t, x)
<1>1. /\ Good(m, t.root) /\ x \in Keys /\ Null \notin Keys /\ Other(s) \in Sides
      /\ Other(Other(s)) = s
  BY RootIs, Opposite, Sorts DEF Linked
<1>2. /\ y \in Keys /\ y \in Tr(t) /\ y # x /\ y # t.root /\ t.par[y] = x
      /\ x \notin Below(m, y)
  BY <1>1, KidIs
<1>3. /\ c \in Keys \cup {Null} /\ c # y
      /\ c # Null => c \in Tr(t) /\ c # t.root /\ t.par[c] = y
  BY <1>2, KidIs
<1>4. x \in X /\ y \in X /\ (c # Null => c \in X /\ c \in Below(m, y))
  <2>1. x \in X /\ Closed(m, X)
    BY <1>1, UnderIs
  <2>2. y \in X
    BY <1>1, <1>2, <2>1 DEF Closed
  <2>3. y \in Below(m, y) /\ Closed(m, Below(m, y))
    BY <1>2, UnderIs
  <2>4. c # Null => c \in X /\ c \in Below(m, y)
    BY <1>3, <2>1, <2>2, <2>3 DEF Closed
  <2>5. QED
    BY <2>1, <2>2, <2>4
<1>5. g \in Keys \cup {Null} /\ (g = Null <=> x = t.root)
      /\ (g # Null => g \in Tr(t) /\ g \in Keys /\ u \in Sides /\ m[u][g] = x)
  BY <1>1, ParIs
<1>6. g \notin X
  <2>1. CASE g = Null
    BY <1>1, <2>1, UnderKeys
  <2>2. CASE g # Null
    BY <1>1, <1>5, <2>2, KidIs, SMTT(60)
  <2>3. QED
    BY <2>1, <2>2
<1>7. QED
  BY <1>1, <1>2, <1>3, <1>4, <1>5, <1>6

LEMMA TurnLinked ==
  ASSUME NEW t, Linked(t), NEW x \in Tr(t), NEW s \in Sides,
         NEW y, y = t.kid[Other(s)][x], y # Null,
         NEW c, c = t.kid[s][y], NEW g, g = t.par[x],
         NEW n, IsTurned(t, n, s, x, y, c, g)
  PROVE  Linked(n) /\ Tr(n) = Tr(t)
<1> DEFINE m == t.kid
           l == n.kid
           o == Other(s)
           b == m[s][x]
           e == m[o][y]
           X == Below(m, x)
           u == Side(t, x)
           T == Tr(t)
<1>1. /\ o \in Sides /\ o # s /\ Other(o) = s /\ Null \notin Keys
      /\ \A v \in Sides : v = s \/ v = o
      /\ Good(m, t.root) /\ T \subseteq Keys
  BY Opposite, Sorts, RootIs, SMTT(60) DEF Linked
<1>2. /\ x \in Keys /\ y \in Keys /\ y \in T /\ y # x /\ y # t.root /\ t.par[y] = x
      /\ c \in Keys \cup {Null} /\ c # x /\ c # y
      /\ c # Null => c \in T /\ c # t.root /\ t.par[c] = y
      /\ g \in Keys \cup {Null} /\ g # x /\ g # y /\ (g # Null => g # c)
      /\ (g = Null <=> x = t.root)
      /\ g # Null => g \in T /\ u \in Sides /\ m[u][g] = x
      /\ g \notin X
  BY Around, SMTT(60)
<1>3. /\ n \in Trees /\ n.root = IF g = Null THEN y ELSE t.root
      /\ l[o][x] = c /\ l[s][y] = x
      /\ g # Null => l[u][g] = y
      /\ \A z \in Keys, v \in Sides :
           \/ z = x /\ v = o
           \/ z = y /\ v = s
           \/ z = g /\ v = u
           \/ l[v][z] = m[v][z]
      /\ n.par[x] = y /\ n.par[y] = g /\ (c # Null => n.par[c] = x)
      /\ \A z \in Keys : z = x \/ z = y \/ z = c \/ n.par[z] = t.par[z]
  BY ZenonT(60) DEF IsTurned
<1>4. l[s][x] = b /\ l[o][y] = e
  BY <1>1, <1>2, <1>3, ZenonT(60)
<1>5. Good(m, x) /\ Good(m, y)
  BY <1>1, <1>2, GoodPart, SMTT(60) DEF Tr
<1>6. /\ X = {x} \cup Below(m, b) \cup Below(m, y)
      /\ Below(m, y) = {y} \cup Below(m, c) \cup Below(m, e)
  <2>1. X = {x} \cup Below(m, b) \cup Below(m, y)
    BY <1>1, <1>2, Unfold, SMTT(60)
  <2>2. Below(m, y) = {y} \cup Below(m, c) \cup Below(m, e)
    BY <1>1, <1>2, Unfold, SMTT(60)
  <2>3. QED
    BY <2>1, <2>2
<1>7. /\ Good(m, b) /\ Good(m, c) /\ Good(m, e)
      /\ \A z \in Below(m, b) : On(s, z, x) /\ z # x
      /\ \A z \in Below(m, y) : On(o, z, x) /\ z # x
      /\ \A z \in Below(m, c) : On(s, z, y) /\ z # y
      /\ \A z \in Below(m, e) : On(o, z, y) /\ z # y
      /\ y \notin Below(m, b) /\ y \in Below(m, y)
  <2>1. /\ Good(m, b) /\ \A z \in Below(m, b) : On(s, z, x) /\ z # x
        /\ Below(m, b) \cap Below(m, y) = {}
    BY <1>2, <1>5, GoodRoot, SMTT(60)
  <2>2. \A z \in Below(m, y) : On(o, z, x) /\ z # x
    BY <1>1, <1>2, <1>5, GoodRoot, SMTT(60)
  <2>3. Good(m, c) /\ \A z \in Below(m, c) : On(s, z, y) /\ z # y
    BY <1>2, <1>5, GoodRoot, SMTT(60)
  <2>4. Good(m, e) /\ \A z \in Below(m, e) : On(o, z, y) /\ z # y
    <3>1. y \in Keys /\ o \in Sides
      BY <1>1, <1>2
    <3>2. QED
      BY <1>5, <3>1, GoodRoot, SMTT(60)
  <2>5. y \in Below(m, y)
    BY <1>2, UnderIs
  <2>6. QED
    BY <2>1, <2>2, <2>3, <2>4, <2>5, ZenonT(60)
<1>8. ASSUME NEW w, Good(m, w), Below(m, w) \subseteq X, x \notin Below(m, w), y \notin Below(m, w)
      PROVE  Good(l, w) /\ Below(l, w) = Below(m, w)
  <2>1. \A z \in Below(m, w), v \in Sides : l[v][z] = m[v][z]
    BY <1>2, <1>3, <1>8, UnderKeys, ZenonT(60)
  <2>2. QED
    BY <1>8, <2>1, SameUnder, GoodSame, SMTT(60)
<1>9. /\ Good(l, b) /\ Below(l, b) = Below(m, b) /\ Good(l, c) /\ Below(l, c) = Below(m, c)
      /\ Good(l, e) /\ Below(l, e) = Below(m, e)
  BY <1>6, <1>7, <1>8, ZenonT(60)
<1>10. /\ Keys \subseteq Values
       /\ Below(m, b) \subseteq Keys /\ Below(m, c) \subseteq Keys /\ Below(m, e) \subseteq Keys
  BY Sorts, UnderKeys
<1>11. Good(l, x) /\ Below(l, x) = {x} \cup Below(m, b) \cup Below(m, c)
  <2>1. \A z \in Below(m, c) : On(o, z, x)
    BY <1>6, <1>7, ZenonT(60)
  <2>2. Good(l, x)
    <3>1. Good(l, l[s][x]) /\ Good(l, l[Other(s)][x])
      BY <1>3, <1>4, <1>9, ZenonT(60)
    <3>2. /\ \A z \in Below(l, l[s][x]) : On(s, z, x)
          /\ \A z \in Below(l, l[Other(s)][x]) : On(Other(s), z, x)
      BY <1>3, <1>4, <1>7, <1>9, <2>1, ZenonT(60)
    <3>3. QED
      BY <1>2, <3>1, <3>2, GoodBuild, ZenonT(60)
  <2>3. Below(l, x) = {x} \cup Below(l, l[s][x]) \cup Below(l, l[o][x])
    BY <1>2, Unfold, SMTT(60)
  <2>4. QED
    BY <1>3, <1>4, <1>9, <2>2, <2>3, ZenonT(60)
<1>12. \A z \in Below(l, x) : On(s, z, y)
  <2>1. On(s, x, y)
    <3>1. On(Other(s), y, x) /\ x \in Values /\ y \in Values
      BY <1>2, <1>7, <1>10, ZenonT(60)
    <3>2. QED
      BY <3>1, Order
  <2>2. ASSUME NEW z \in Below(m, b) PROVE On(s, z, y)
    <3>1. On(s, z, x) /\ z \in Values /\ x \in Values /\ y \in Values
      BY <1>2, <1>7, <1>10, ZenonT(60)
    <3>2. QED
      BY <2>1, <3>1, Order
  <2>3. QED
    BY <1>7, <1>11, <2>1, <2>2, ZenonT(60)
<1>13. Good(l, y) /\ Below(l, y) = X
  <2>1. Good(l, y)
    <3>1. Good(l, l[s][y]) /\ Good(l, l[Other(s)][y])
      BY <1>3, <1>4, <1>9, <1>11, ZenonT(60)
    <3>2. /\ \A z \in Below(l, l[s][y]) : On(s, z, y)
          /\ \A z \in Below(l, l[Other(s)][y]) : On(Other(s), z, y)
      BY <1>3, <1>4, <1>7, <1>9, <1>12, ZenonT(60)
    <3>3. QED
      BY <1>2, <3>1, <3>2, GoodBuild, ZenonT(60)
  <2>2. Below(l, y) = {y} \cup Below(l, l[s][y]) \cup Below(l, l[o][y])
    <3>1. y \in Keys
      BY <1>2
    <3> HIDE DEF l, m, b, e, X, T, u
    <3>2. QED
      BY <3>1, Unfold
  <2>3. QED
    BY <1>3, <1>4, <1>6, <1>9, <1>11, <2>1, <2>2, ZenonT(60)
<1>14. Good(l, n.root) /\ Tr(n) = T
  <2>1. CASE g = Null
    BY <1>2, <1>3, <1>13, <2>1, ZenonT(60) DEF Tr
  <2>2. CASE g # Null
    <3>1. l[u][g] = y /\ m[u][g] = x /\ g \in T /\ u \in Sides /\ n.root = t.root
      BY <1>2, <1>3, <2>2, ZenonT(60)
    <3>2. \A z \in T \ X : \A v \in Sides : (z = g /\ v = u) \/ l[v][z] = m[v][z]
      BY <1>1, <1>3, <1>6, <1>7, ZenonT(60)
    <3>3. Replaces(m, l, t.root, g, u)
      BY <1>1, <1>13, <3>1, <3>2 DEF Replaces, Tr
    <3>4. Good(l, t.root) /\ Below(l, t.root) = (T \ X) \cup X
      BY <1>13, <3>1, <3>3, Replace DEF Tr
    <3>5. X \subseteq T
      BY UnderPart DEF Tr
    <3>6. QED
      BY <3>1, <3>4, <3>5, ZenonT(60) DEF Tr
  <2>3. QED
    BY <2>1, <2>2, ZenonT(60)
<1>15. n.root # Null => n.par[n.root] = Null
  <2>1. CASE g = Null
    BY <1>3, <2>1, ZenonT(60)
  <2>2. CASE g # Null
    BY <1>2, <1>3, <2>2, RootIs
  <2>3. QED
    BY <2>1, <2>2, SMTT(60)
<1>16. ASSUME NEW z \in T, NEW v \in Sides, l[v][z] # Null
       PROVE  n.par[l[v][z]] = z
  <2>1. CASE z = x /\ v = o
    BY <1>3, <1>16, <2>1, ZenonT(60)
  <2>2. CASE z = y /\ v = s
    BY <1>3, <2>2, ZenonT(60)
  <2>3. CASE z = g /\ v = u
    <3>1. g # Null
      BY <1>1, <2>3, SMTT(60)
    <3>2. QED
      BY <1>3, <2>3, <3>1, ZenonT(60)
  <2>4. CASE ~(z = x /\ v = o) /\ ~(z = y /\ v = s) /\ ~(z = g /\ v = u)
    <3> DEFINE d == m[v][z]
    <3>1. l[v][z] = d /\ d # Null
      BY <1>1, <1>3, <1>16, <2>4
    <3>2. d \in Keys /\ t.par[d] = z /\ d # t.root
      BY <3>1, KidIs
    <3>3. d # x
      <4>1. ASSUME d = x PROVE FALSE
        <5>1. g # Null /\ z \in T /\ g \in T /\ u \in Sides /\ m[v][z] = m[u][g]
          BY <1>2, <3>2, <4>1
        <5>2. z = g /\ v = u
          BY <3>1, <5>1, OnePlace
        <5>3. QED
          BY <2>4, <5>2, SMTT(60)
      <4>2. QED
        BY <4>1
    <3>4. d # y
      <4>1. ASSUME d = y PROVE z = x /\ v = o
        BY <1>1, <3>1, <4>1, OnePlace
      <4>2. QED
        BY <2>4, <4>1
    <3>5. d # c
      <4>1. ASSUME d = c PROVE z = y /\ v = s
        BY <1>2, <3>1, <4>1, OnePlace
      <4>2. QED
        BY <2>4, <4>1, SMTT(60)
    <3>6. QED
      BY <1>3, <3>1, <3>2, <3>3, <3>4, <3>5, SMTT(60)
  <2>5. QED
    BY <2>1, <2>2, <2>3, <2>4, SMTT(60)
<1>17. QED
  BY <1>3, <1>14, <1>15, <1>16, ZenonT(60) DEF Linked

\* A rotation of the tree t after its red elements have become R.
LEMMA RotatePainted ==
  ASSUME NEW t, Linked(t), NEW x \in Tr(t), NEW s \in Sides,
         NEW y, y = t.kid[Other(s)][x], y # Null,
         NEW R, NEW a, WritesRed(t, a, R), NEW n, n = Rotate(a, s, x)
  PROVE  /\ IsTurned(t, n, s, x, y, t.kid[s][y], t.par[x])
         /\ n.red = R /\ Linked(n) /\ Tr(n) = Tr(t)
<1>1. /\ a \in Trees /\ a.root = t.root /\ a.red = R /\ a.kid = t.kid /\ a.par = t.par
  BY DEF WritesRed
<1>2. Linked(a) /\ Tr(a) = Tr(t) /\ Side(a, x) = Side(t, x)
  BY <1>1, Painted
<1>3. IsTurned(a, n, s, x, y, a.kid[s][y], a.par[x]) /\ n.red = a.red
  BY <1>1, <1>2, RotateIs
<1>4. Linked(n) /\ Tr(n) = Tr(a)
  BY <1>1, <1>2, <1>3, TurnLinked, SMTT(60)
<1>5. IsTurned(t, n, s, x, y, t.kid[s][y], t.par[x])
  BY <1>1, <1>2, <1>3, SMTT(60) DEF IsTurned
<1>6. QED
  BY <1>1, <1>2, <1>3, <1>4, <1>5

\* The pointers afterwards, and where they went before.
LEMMA TurnKids ==
  ASSUME NEW t, Linked(t), NEW x \in Tr(t), NEW s \in Sides,
         NEW y, y = t.kid[Other(s)][x], y # Null,
         NEW n, IsTurned(t, n, s, x, y, t.kid[s][y], t.par[x]),
         NEW z \in Tr(t), NEW v \in Sides
  PROVE  \/ z = x /\ v = Other(s) /\ n.kid[v][z] = t.kid[s][y]
         \/ z = x /\ v = s /\ n.kid[v][z] = t.kid[s][x]
         \/ z = y /\ v = s /\ n.kid[v][z] = x
         \/ z = y /\ v = Other(s) /\ n.kid[v][z] = t.kid[Other(s)][y]
         \/ z # x /\ z # y /\ n.kid[v][z] = y /\ t.kid[v][z] = x
         \/ z # x /\ z # y /\ n.kid[v][z] = t.kid[v][z]
            /\ t.kid[v][z] # x /\ t.kid[v][z] # y
<1> DEFINE g == t.par[x]
           u == Side(t, x)
           c == t.kid[s][y]
<1>1. /\ x \in Keys /\ y \in Keys /\ y \in Tr(t) /\ y # x /\ z \in Keys
      /\ g \in Keys \cup {Null} /\ g # x /\ g # y /\ (g = Null <=> x = t.root)
      /\ g # Null => g \in Tr(t) /\ u \in Sides /\ t.kid[u][g] = x
  <2>1. c = t.kid[s][y] /\ g = t.par[x] /\ z \in Keys
    BY RootIs
  <2> HIDE DEF c, g, u
  <2>2. QED
    BY <2>1, Around DEF u
<1>2. Other(s) \in Sides /\ Other(s) # s /\ (v = s \/ v = Other(s)) /\ Null \notin Keys
  BY Opposite, Sorts
<1>3. /\ n.kid[Other(s)][x] = c /\ n.kid[s][y] = x
      /\ g # Null => n.kid[u][g] = y
      /\ \/ z = x /\ v = Other(s)
         \/ z = y /\ v = s
         \/ z = g /\ v = u
         \/ n.kid[v][z] = t.kid[v][z]
  BY <1>1 DEF IsTurned
<1> HIDE DEF c, g, u
<1>4. CASE z = x
  BY <1>1, <1>2, <1>3, <1>4, SMTT(60) DEF c
<1>5. CASE z = y
  BY <1>1, <1>2, <1>3, <1>5
<1>6. CASE z = g /\ v = u
  BY <1>1, <1>2, <1>3, <1>6
<1>7. CASE z # x /\ z # y /\ ~(z = g /\ v = u)
  <2>1. n.kid[v][z] = t.kid[v][z]
    BY <1>3, <1>7
  <2>2. t.kid[v][z] # x
    <3>1. ASSUME t.kid[v][z] = x PROVE FALSE
      <4>1. x # t.root
        <5>1. x # Null
          BY <1>1, <1>2
        <5>2. QED
          BY <3>1, <5>1, KidIs
      <4>2. z = g /\ v = u
        BY <1>1, <1>2, <3>1, <4>1, OnePlace
      <4>3. QED
        BY <1>7, <4>2
    <3>2. QED
      BY <3>1
  <2>3. t.kid[v][z] # y
    <3>1. ASSUME t.kid[v][z] = y PROVE FALSE
      <4>1. z = x
        BY <1>1, <1>2, <3>1, OnePlace
      <4>2. QED
        BY <1>7, <4>1
    <3>2. QED
      BY <3>1
  <2>4. QED
    BY <1>7, <2>1, <2>2, <2>3
<1>8. QED
  BY <1>4, <1>5, <1>6, <1>7

-----------------------------------------------------------------------------
(* Balance.                                                                *)

Count(b) == IF b THEN 1 ELSE 0

\* h is how many black elements there are on every way down; behind the pointer s
\* of p there is one less.
Balanced(t, h, p, s) ==
  /\ h \in [Keys \cup {Null} -> Nat] /\ h[Null] = 0
  /\ \A z \in Tr(t), v \in Sides :
       h[z] = h[t.kid[v][z]] + Count(z = p /\ v = s) + Count(z \notin t.red)

\* x and its red child y change colours.
Exchanged(t, n, x, y) ==
  /\ y \in t.red /\ x \in n.red /\ (y \in n.red <=> x \in t.red)
  /\ \A z \in Keys : z = x \/ z = y \/ (z \in n.red <=> z \in t.red)

LEMMA BalancedTurn ==
  ASSUME NEW t, Linked(t), NEW x \in Tr(t), NEW s \in Sides,
         NEW y, y = t.kid[Other(s)][x], y # Null,
         NEW n, IsTurned(t, n, s, x, y, t.kid[s][y], t.par[x]), Tr(n) = Tr(t),
         Exchanged(t, n, x, y),
         NEW h, NEW p, NEW q, Balanced(t, h, p, q), p # y, ~(p = x /\ q = Other(s))
  PROVE  Balanced(n, [h EXCEPT ![x] = h[y], ![y] = h[x]], p, q)
<1> DEFINE k == [h EXCEPT ![x] = h[y], ![y] = h[x]]
           o == Other(s)
           b == t.kid[s][x]
           c == t.kid[s][y]
           e == t.kid[o][y]
           G(z, v) == Count(z = p /\ v = q)
<1>1. /\ x \in Keys /\ y \in Keys /\ y \in Tr(t) /\ y # x /\ o \in Sides /\ o # s
      /\ Null \notin Keys /\ Tr(t) \subseteq Keys
  BY RootIs, KidIs, Opposite, Sorts
<1>2. /\ h \in [Keys \cup {Null} -> Nat] /\ h[Null] = 0
      /\ \A z \in Tr(t), v \in Sides :
           h[z] = h[t.kid[v][z]] + G(z, v) + Count(z \notin t.red)
  BY SMTT(60) DEF Balanced
<1>3. /\ k \in [Keys \cup {Null} -> Nat] /\ k[Null] = 0 /\ k[x] = h[y] /\ k[y] = h[x]
      /\ \A z \in Keys \cup {Null} : z # x /\ z # y => k[z] = h[z]
  BY <1>1, <1>2, SMTT(60)
<1> HIDE DEF k
<1>4. /\ b \in Keys \cup {Null} /\ c \in Keys \cup {Null} /\ e \in Keys \cup {Null}
      /\ b # x /\ b # y /\ c # x /\ c # y /\ e # x /\ e # y
  <2>1. b \in Keys \cup {Null} /\ b # x
    BY <1>1, KidIs
  <2>2. c \in Keys \cup {Null} /\ c # y /\ e \in Keys \cup {Null} /\ e # y
    BY <1>1, KidIs
  <2>3. b # y
    BY <1>1, OnePlace
  <2>4. c # x /\ e # x
    <3>1. x \notin Below(t.kid, y)
      BY <1>1, KidIs
    <3>2. y \in Below(t.kid, y) /\ Closed(t.kid, Below(t.kid, y))
      BY <1>1, UnderIs
    <3>3. QED
      BY <1>1, <3>1, <3>2 DEF Closed
  <2>5. QED
    BY <2>1, <2>2, <2>3, <2>4
<1>5. /\ h[x] \in Nat /\ h[y] \in Nat /\ h[b] \in Nat /\ h[c] \in Nat /\ h[e] \in Nat
      /\ k[b] = h[b] /\ k[c] = h[c] /\ k[e] = h[e]
      /\ h[x] = h[b] + G(x, s) + Count(x \notin t.red)
      /\ h[x] = h[y] + G(x, o) + Count(x \notin t.red)
      /\ h[y] = h[c] + G(y, s) + Count(y \notin t.red)
      /\ h[y] = h[e] + G(y, o) + Count(y \notin t.red)
  BY <1>1, <1>2, <1>3, <1>4, ZenonT(60)
<1>6. /\ G(x, o) = 0 /\ G(y, s) = 0 /\ G(y, o) = 0 /\ G(x, s) \in Nat
      /\ Count(y \notin t.red) = 0 /\ Count(x \notin n.red) = 0
      /\ Count(y \notin n.red) = Count(x \notin t.red) /\ Count(x \notin t.red) \in Nat
  BY DEF Count, Exchanged
<1> HIDE DEF G
<1>7. ASSUME NEW z \in Tr(t), NEW v \in Sides
      PROVE  k[z] = k[n.kid[v][z]] + G(z, v) + Count(z \notin n.red)
  <2>1. CASE z = x /\ v = o /\ n.kid[v][z] = c
    BY <1>3, <1>5, <1>6, <2>1, ZenonT(60)
  <2>2. CASE z = x /\ v = s /\ n.kid[v][z] = b
    <3> HIDE DEF b, c, e, o
    <3>1. h[y] = h[b] + G(x, s)
      BY <1>5, <1>6
    <3>2. k[z] = h[y] /\ k[n.kid[v][z]] = h[b] /\ Count(z \notin n.red) = 0
          /\ G(z, v) = G(x, s)
      BY <1>3, <1>5, <1>6, <2>2, ZenonT(60)
    <3>3. QED
      BY <1>5, <1>6, <3>1, <3>2, SMTT(60)
  <2>3. CASE z = y /\ v = s /\ n.kid[v][z] = x
    BY <1>3, <1>5, <1>6, <2>3, ZenonT(60)
  <2>4. CASE z = y /\ v = o /\ n.kid[v][z] = e
    <3> HIDE DEF b, c, e, o
    <3>1. h[x] = h[e] + Count(x \notin t.red)
      BY <1>5, <1>6
    <3>2. k[z] = h[x] /\ k[n.kid[v][z]] = h[e] /\ G(z, v) = 0
          /\ Count(z \notin n.red) = Count(x \notin t.red)
      BY <1>3, <1>5, <1>6, <2>4, ZenonT(60)
    <3>3. QED
      BY <1>5, <1>6, <3>1, <3>2, SMTT(60)
  <2>5. ASSUME z # x, z # y
        PROVE  k[z] = h[z] /\ h[z] = h[t.kid[v][z]] + G(z, v) + Count(z \notin n.red)
               /\ z \in Keys
    <3>1. z \in Keys /\ Count(z \notin n.red) = Count(z \notin t.red)
      BY <1>1, <2>5 DEF Exchanged, Count
    <3>2. QED
      BY <1>2, <1>3, <2>5, <3>1 DEF G
  <2>6. CASE z # x /\ z # y /\ n.kid[v][z] = y /\ t.kid[v][z] = x
    BY <1>3, <2>5, <2>6
  <2>7. CASE z # x /\ z # y /\ n.kid[v][z] = t.kid[v][z] /\ t.kid[v][z] # x /\ t.kid[v][z] # y
    <3>1. t.kid[v][z] \in Keys \cup {Null}
      BY KidIs
    <3>2. QED
      BY <1>3, <2>5, <2>7, <3>1
  <2>8. QED
    BY <2>1, <2>2, <2>3, <2>4, <2>6, <2>7, TurnKids
<1>8. QED
  BY <1>3, <1>7, ZenonT(60) DEF Balanced, G, k

\* No red element has a red child, but for a below anything, and anything below b.
RedRule(t, a, b) ==
  \A z \in Tr(t) \cap t.red, v \in Sides :
    t.kid[v][z] \in t.red => t.kid[v][z] = a \/ z = b

LEMMA RedTurn ==
  ASSUME NEW t, Linked(t), NEW x \in Tr(t), NEW s \in Sides,
         NEW y, y = t.kid[Other(s)][x], y # Null,
         NEW n, IsTurned(t, n, s, x, y, t.kid[s][y], t.par[x]), Tr(n) = Tr(t),
         Exchanged(t, n, x, y),
         NEW a, NEW b,
         t.kid[s][y] \in t.red => t.kid[s][y] = a \/ x = b,
         t.kid[s][x] \in t.red => t.kid[s][x] = a \/ x = b,
         x \in t.red => /\ x = a \/ y = b
                        /\ t.kid[Other(s)][y] \in t.red => t.kid[Other(s)][y] = a \/ y = b
                        /\ \A z \in Tr(t) \cap t.red, v \in Sides :
                             t.kid[v][z] = x => y = a \/ z = b,
         \A z \in Tr(t) \cap t.red, v \in Sides :
           z # x /\ z # y /\ t.kid[v][z] # x /\ t.kid[v][z] # y /\ t.kid[v][z] \in t.red
             => t.kid[v][z] = a \/ z = b
  PROVE  RedRule(n, a, b)
<1>1. /\ x \in Keys /\ y \in Keys /\ y \in Tr(t) /\ Tr(t) \subseteq Keys /\ n.red \subseteq Keys
      /\ y # x /\ t.kid[s][x] # y /\ Other(s) \in Sides
  <2>1. n.red \subseteq Keys
    BY TreeTypes DEF IsTurned
  <2>2. t.kid[s][x] # y
    BY Opposite, OnePlace, SMTT(60)
  <2>3. QED
    BY <2>1, <2>2, RootIs, KidIs, Opposite, SMTT(60)
<1>2. /\ t.kid[s][x] # x /\ t.kid[s][y] # x /\ t.kid[s][y] # y
      /\ t.kid[Other(s)][y] # x /\ t.kid[Other(s)][y] # y
  <2>1. x \notin Below(t.kid, y)
    BY <1>1, KidIs
  <2>2. y \in Below(t.kid, y) /\ Closed(t.kid, Below(t.kid, y))
    BY <1>1, UnderIs
  <2>3. x # Null /\ y # Null
    BY <1>1, Sorts, SMTT(60)
  <2>4. QED
    BY <1>1, <2>1, <2>2, <2>3, KidIs DEF Closed
<1>3. ASSUME NEW z \in Tr(t) \cap n.red, NEW v \in Sides, n.kid[v][z] \in n.red
      PROVE  n.kid[v][z] = a \/ z = b
  <2>1. CASE z = x /\ v = Other(s) /\ n.kid[v][z] = t.kid[s][y]
    BY <1>1, <1>2, <1>3, <2>1, SMTT(60) DEF Exchanged
  <2>2. CASE z = x /\ v = s /\ n.kid[v][z] = t.kid[s][x]
    BY <1>1, <1>2, <1>3, <2>2 DEF Exchanged
  <2>3. CASE z = y /\ v = s /\ n.kid[v][z] = x
    BY <1>3, <2>3, SMTT(60) DEF Exchanged
  <2>4. CASE z = y /\ v = Other(s) /\ n.kid[v][z] = t.kid[Other(s)][y]
    BY <1>1, <1>2, <1>3, <2>4 DEF Exchanged
  <2>5. CASE z # x /\ z # y /\ n.kid[v][z] = y /\ t.kid[v][z] = x
    BY <1>1, <1>3, <2>5 DEF Exchanged
  <2>6. CASE z # x /\ z # y /\ n.kid[v][z] = t.kid[v][z] /\ t.kid[v][z] # x /\ t.kid[v][z] # y
    BY <1>1, <1>3, <2>6 DEF Exchanged
  <2>7. QED
    BY <2>1, <2>2, <2>3, <2>4, <2>5, <2>6, TurnKids, SMTT(60)
<1>4. QED
  BY <1>3 DEF RedRule

LEMMA RedTurnBlack ==
  ASSUME NEW t, Linked(t), NEW x \in Tr(t), NEW s \in Sides,
         NEW y, y = t.kid[Other(s)][x], y # Null,
         NEW n, IsTurned(t, n, s, x, y, t.kid[s][y], t.par[x]), Tr(n) = Tr(t),
         Exchanged(t, n, x, y), x \notin t.red, t.kid[s][x] \notin t.red,
         \A z \in Tr(t) \cap t.red, v \in Sides : t.kid[v][z] \notin t.red
  PROVE  RedRule(n, Null, Null)
<1>1. y \in Tr(t) \cap t.red
  BY KidIs, Opposite DEF Exchanged
<1>2. t.kid[s][y] \notin t.red
  BY <1>1
<1>3. QED
  BY <1>2, RedTurn

-----------------------------------------------------------------------------
(* The invariant.                                                          *)

\* In the tree t with the loop c at e and p.
Holds(t, c, e, p) ==
  /\ Linked(t)
  /\ c \in {"idle", "insert", "remove"} /\ e \in Keys \cup {Null} /\ p \in Keys \cup {Null}
  /\ c = "idle" => e = Null /\ p = Null
  /\ c = "insert" => p = Null /\ e \in Tr(t) /\ e \in t.red
  /\ c = "remove" => (p = Null /\ e = t.root) \/ p \in Tr(t)
  /\ RedRule(t, e, IF c = "remove" THEN e ELSE Null)
  /\ t.root \in t.red => c # "idle" /\ e = t.root
  /\ \E h, s : /\ s \in Sides /\ Balanced(t, h, p, s)
               /\ p # Null => t.kid[s][p] = e

BalanceInv == Holds(tree, pc, elm, parent)

-----------------------------------------------------------------------------
(* The steps that only change colours.                                     *)

LEMMA BlackRoot ==
  ASSUME NEW t, Linked(t), NEW h, NEW p, NEW s, Balanced(t, h, p, s), p \notin Tr(t),
         NEW n, WritesRed(t, n, t.red \ {t.root})
  PROVE  \E k : Balanced(n, k, Null, s)
<1>1. /\ Linked(n) /\ Tr(n) = Tr(t) /\ n.kid = t.kid /\ n.red = t.red \ {t.root}
  BY Painted DEF WritesRed
<1>2. /\ t.root \in Keys \cup {Null} /\ Null \notin Keys /\ Tr(t) \subseteq Keys
      /\ t.root # Null => t.root \in Tr(t)
  BY RootIs, Sorts
<1>3. /\ h \in [Keys \cup {Null} -> Nat] /\ h[Null] = 0
      /\ \A z \in Tr(t), v \in Sides : h[z] = h[t.kid[v][z]] + Count(z \notin t.red)
  <2>1. ASSUME NEW z \in Tr(t), NEW v \in Sides
        PROVE  h[z] = h[t.kid[v][z]] + Count(z \notin t.red)
    <3>1. h[z] = h[t.kid[v][z]] + 0 + Count(z \notin t.red)
      <4>1. Count(z = p /\ v = s) = 0
        BY DEF Count
      <4>2. QED
        BY <4>1 DEF Balanced
    <3>2. t.kid[v][z] \in Keys \cup {Null}
      BY KidIs
    <3>3. h[t.kid[v][z]] \in Nat /\ Count(z \notin t.red) \in Nat
      BY <3>2 DEF Balanced, Count
    <3>4. QED
      BY <3>1, <3>3
  <2>2. QED
    BY <2>1 DEF Balanced
<1> DEFINE k == [h EXCEPT ![t.root] = IF t.root \in t.red THEN h[t.root] + 1 ELSE h[t.root]]
<1>4. /\ k \in [Keys \cup {Null} -> Nat] /\ k[Null] = 0
      /\ k[t.root] = IF t.root \in t.red THEN h[t.root] + 1 ELSE h[t.root]
      /\ \A z \in Keys \cup {Null} : z # t.root => k[z] = h[z]
  <2>1. t.root \in t.red => t.root \in Keys
    BY TreeTypes DEF Linked
  <2>2. QED
    BY <1>2, <1>3, <2>1
<1> HIDE DEF k
<1>5. ASSUME NEW z \in Tr(n), NEW v \in Sides
      PROVE  k[z] = k[n.kid[v][z]] + Count(z = Null /\ v = s) + Count(z \notin n.red)
  <2>1. /\ z \in Keys /\ z # Null /\ n.kid[v][z] = t.kid[v][z]
        /\ t.kid[v][z] \in Keys \cup {Null}
        /\ t.kid[v][z] = t.root => t.root = Null
    BY <1>1, <1>2, KidIs
  <2>2. k[n.kid[v][z]] = h[t.kid[v][z]] /\ h[t.kid[v][z]] \in Nat /\ h[z] \in Nat
    BY <1>3, <1>4, <2>1
  <2>3. Count(z = Null /\ v = s) = 0
    BY <2>1 DEF Count
  <2>4. k[z] = h[t.kid[v][z]] + Count(z \notin n.red)
    <3>1. h[z] = h[t.kid[v][z]] + Count(z \notin t.red)
      BY <1>1, <1>3
    <3>2. CASE z = t.root /\ z \in t.red
      BY <1>1, <1>4, <2>2, <3>1, <3>2 DEF Count
    <3>3. CASE ~(z = t.root /\ z \in t.red)
      <4>1. k[z] = h[z] /\ (z \notin n.red <=> z \notin t.red)
        BY <1>1, <1>4, <2>1, <3>3
      <4>2. QED
        BY <3>1, <4>1 DEF Count
    <3>4. QED
      BY <3>2, <3>3
  <2>5. Count(z \notin n.red) \in Nat
    BY DEF Count
  <2>6. QED
    BY <2>2, <2>3, <2>4, <2>5
<1>6. QED
  BY <1>4, <1>5 DEF Balanced

LEMMA HoldsTypes ==
  ASSUME NEW t, NEW c, NEW e, NEW p, Holds(t, c, e, p)
  PROVE  /\ Linked(t) /\ t \in Trees /\ t.red \subseteq Keys /\ Null \notin t.red
         /\ e \in Keys \cup {Null} /\ p \in Keys \cup {Null}
  BY TreeTypes, Sorts DEF Holds, Linked

LEMMA InsertEnds ==
  ASSUME NEW t, NEW e, NEW p, Holds(t, "insert", e, p),
         t.par[e] # Null => t.par[e] \notin t.red,
         NEW n, WritesRed(t, n, t.red \ {t.root})
  PROVE  Holds(n, "idle", Null, Null) /\ Tr(n) = Tr(t)
<1>1. /\ Linked(t) /\ e \in Tr(t) /\ RedRule(t, e, Null) /\ p = Null
      /\ \E h, s : s \in Sides /\ Balanced(t, h, p, s)
  BY DEF Holds
<1>2. Linked(n) /\ Tr(n) = Tr(t) /\ n.kid = t.kid /\ n.red = t.red \ {t.root} /\ n.root = t.root
  BY <1>1, Painted DEF WritesRed
<1>3. ASSUME NEW z \in Tr(n) \cap n.red, NEW v \in Sides, n.kid[v][z] \in n.red PROVE FALSE
  <2>1. z \in Tr(t) /\ z \in t.red /\ t.kid[v][z] \in t.red /\ z # Null
    BY <1>1, <1>2, <1>3, RootIs
  <2>2. t.kid[v][z] = e
    BY <1>1, <2>1 DEF RedRule
  <2>3. t.kid[v][z] # Null
    BY <1>1, <2>2, RootIs
  <2>4. t.par[e] = z
    BY <1>1, <2>1, <2>2, <2>3, KidIs
  <2>5. QED
    BY <2>1, <2>4
<1>4. RedRule(n, Null, Null)
  BY <1>3 DEF RedRule
<1>5. \E h, s : s \in Sides /\ Balanced(n, h, Null, s)
  <2>1. Null \notin Tr(t)
    BY <1>1, RootIs
  <2>2. PICK h, s : s \in Sides /\ Balanced(t, h, Null, s)
    BY <1>1
  <2>3. \E k : Balanced(n, k, Null, s)
    BY <1>1, <2>1, <2>2, BlackRoot
  <2>4. QED
    BY <2>2, <2>3
<1>6. QED
  BY <1>2, <1>4, <1>5 DEF Holds

LEMMA RemoveEnds ==
  ASSUME NEW t, NEW e, NEW p, Holds(t, "remove", e, p), e \in t.red \/ e = t.root,
         NEW n, WritesRed(t, n, t.red \ {e})
  PROVE  Holds(n, "idle", Null, Null) /\ Tr(n) = Tr(t)
<1>1. /\ Linked(t) /\ RedRule(t, e, e) /\ t.red \subseteq Keys /\ Null \notin t.red
      /\ (p = Null /\ e = t.root) \/ p \in Tr(t)
      /\ t.root \in t.red => e = t.root
  BY HoldsTypes DEF Holds
<1>2. Linked(n) /\ Tr(n) = Tr(t) /\ n.kid = t.kid /\ n.red = t.red \ {e} /\ n.root = t.root
  BY <1>1, Painted DEF WritesRed
<1>3. RedRule(n, Null, Null) /\ n.root \notin n.red
  BY <1>1, <1>2 DEF RedRule
<1>4. PICK h, s : s \in Sides /\ Balanced(t, h, p, s) /\ (p # Null => t.kid[s][p] = e)
  BY DEF Holds
<1>5. Null \notin Tr(t) /\ Tr(t) \subseteq Keys /\ (t.root = Null => Tr(t) = {}) /\ Null \notin Keys
  BY <1>1, RootIs, Sorts
<1>6. CASE e = t.root
  <2>1. p \notin Tr(t)
    <3>1. ASSUME p \in Tr(t) PROVE FALSE
      <4>1. t.kid[s][p] = t.root /\ t.root # Null
        BY <1>4, <1>5, <1>6, <3>1
      <4>2. QED
        BY <1>1, <1>4, <3>1, <4>1, KidIs
    <3>2. QED
      BY <3>1
  <2>2. \E k : Balanced(n, k, Null, s)
    BY <1>1, <1>4, <1>6, <2>1, BlackRoot
  <2>3. QED
    BY <1>2, <1>3, <1>4, <2>2 DEF Holds
<1>7. CASE e # t.root
  <2>1. e \in t.red /\ e \in Keys /\ p \in Tr(t) /\ p # Null /\ t.kid[s][p] = e
    BY <1>1, <1>4, <1>5, <1>7
  <2>2. e \in Tr(t) /\ p # e
    BY <1>1, <1>4, <1>5, <2>1, KidIs
  <2> DEFINE k == [h EXCEPT ![e] = h[e] + 1]
  <2>3. /\ h \in [Keys \cup {Null} -> Nat] /\ h[Null] = 0
        /\ \A z \in Tr(t), v \in Sides :
             h[z] = h[t.kid[v][z]] + Count(z = p /\ v = s) + Count(z \notin t.red)
    BY <1>4 DEF Balanced
  <2>4. /\ k \in [Keys \cup {Null} -> Nat] /\ k[Null] = 0 /\ k[e] = h[e] + 1
        /\ \A z \in Keys \cup {Null} : z # e => k[z] = h[z]
    BY <1>5, <2>1, <2>3
  <2> HIDE DEF k
  <2>5. ASSUME NEW z \in Tr(n), NEW v \in Sides
        PROVE  k[z] = k[n.kid[v][z]] + Count(z = Null /\ v = s) + Count(z \notin n.red)
    <3> DEFINE d == t.kid[v][z]
    <3>1. z \in Tr(t) /\ z \in Keys /\ n.kid[v][z] = d /\ d \in Keys \cup {Null}
      BY <1>1, <1>2, <1>5, KidIs
    <3>2. d = e <=> z = p /\ v = s
      BY <1>1, <1>4, <1>5, <2>1, <3>1, OnePlace
    <3>3. h[z] = h[d] + Count(z = p /\ v = s) + Count(z \notin t.red)
      BY <2>3, <3>1
    <3>4. Count(z = Null /\ v = s) = 0
      BY <1>5, <3>1 DEF Count
    <3>5. h[d] \in Nat /\ h[z] \in Nat
      BY <2>3, <3>1
    <3> HIDE DEF d
    <3>6. CASE d = e
      <4>1. z = p /\ v = s /\ z # e /\ k[z] = h[z] /\ k[d] = h[d] + 1
        BY <2>2, <2>4, <3>1, <3>2, <3>6
      <4>2. z \notin n.red <=> z \notin t.red
        BY <1>2, <4>1
      <4>3. k[z] = h[d] + 1 + Count(z \notin n.red)
        BY <3>3, <4>1, <4>2 DEF Count
      <4>4. QED
        BY <3>1, <3>4, <3>5, <4>1, <4>3 DEF Count
    <3>7. CASE d # e
      <4>1. k[d] = h[d] /\ Count(z = p /\ v = s) = 0
        BY <2>4, <3>1, <3>2, <3>7 DEF Count
      <4>2. CASE z = e
        BY <1>2, <2>1, <2>4, <3>1, <3>3, <3>4, <3>5, <4>1, <4>2 DEF Count
      <4>3. CASE z # e
        BY <1>2, <2>1, <2>4, <3>1, <3>3, <3>4, <3>5, <4>1, <4>3 DEF Count
      <4>4. QED
        BY <4>2, <4>3
    <3>8. QED
      BY <3>6, <3>7
  <2>6. Balanced(n, k, Null, s)
    BY <2>4, <2>5 DEF Balanced
  <2>7. QED
    BY <1>2, <1>3, <1>4, <2>6 DEF Holds
<1>8. QED
  BY <1>6, <1>7

\* Two red elements: e at its red parent q, below the black element g.
Clash(t, e, q, g, s, u) ==
  /\ Linked(t) /\ RedRule(t, e, Null)
  /\ e \in Tr(t) /\ q \in Tr(t) /\ g \in Tr(t) /\ e \in t.red /\ q \in t.red /\ g \notin t.red
  /\ s \in Sides /\ u \in Sides /\ t.kid[u][q] = e /\ t.kid[s][g] = q
  /\ t.root \notin t.red /\ e # q /\ q # g
  /\ \E h : Balanced(t, h, Null, s)

LEMMA ClashIs ==
  ASSUME NEW t, NEW e, NEW p, Holds(t, "insert", e, p),
         NEW q, q = t.par[e], q # Null, q \in t.red,
         NEW g, g = t.par[q]
  PROVE  /\ Clash(t, e, q, g, Side(t, q), Side(t, e))
         /\ t.par[e] = q /\ t.par[q] = g /\ p = Null
<1>1. /\ Linked(t) /\ e \in Tr(t) /\ e \in t.red /\ RedRule(t, e, Null) /\ p = Null
      /\ t.root \in t.red => e = t.root
  BY DEF Holds
<1>2. /\ e \in Keys /\ e # t.root /\ q \in Tr(t) /\ Side(t, e) \in Sides
      /\ t.kid[Side(t, e)][q] = e /\ e # q
  BY <1>1, ParIs
<1>3. q # t.root /\ t.root \notin t.red
  BY <1>1, <1>2
<1>4. /\ g \in Tr(t) /\ Side(t, q) \in Sides /\ t.kid[Side(t, q)][g] = q /\ q # g
  BY <1>1, <1>2, <1>3, ParIs
<1>5. g \notin t.red
  <2>1. ASSUME g \in t.red PROVE FALSE
    <3>1. q = e \/ g = Null
      BY <1>1, <1>4, <2>1 DEF RedRule
    <3>2. QED
      BY <1>1, <1>2, <1>4, <3>1, RootIs
  <2>2. QED
    BY <2>1
<1>6. \E h : Balanced(t, h, Null, Side(t, q))
  <2>1. PICK h, s : Balanced(t, h, Null, s)
    BY <1>1 DEF Holds
  <2>2. \A z \in Tr(t), v \in Sides :
          Count(z = Null /\ v = s) = Count(z = Null /\ v = Side(t, q))
    BY <1>1, RootIs DEF Count
  <2>3. Balanced(t, h, Null, Side(t, q))
    BY <2>1, <2>2 DEF Balanced
  <2>4. QED
    BY <2>3
<1>7. QED
  BY <1>1, <1>2, <1>3, <1>4, <1>5, <1>6 DEF Clash

LEMMA InsertRecolours ==
  ASSUME NEW t, NEW e, NEW q, NEW g, NEW s, NEW u, Clash(t, e, q, g, s, u),
         NEW w, w = t.kid[Other(s)][g], w \in t.red,
         NEW n, WritesRed(t, n, (t.red \ {w, q}) \cup {g})
  PROVE  Holds(n, "insert", g, Null) /\ Tr(n) = Tr(t)
<1>1. /\ Linked(t) /\ RedRule(t, e, Null)
      /\ e \in Tr(t) /\ q \in Tr(t) /\ g \in Tr(t) /\ e \in t.red /\ q \in t.red /\ g \notin t.red
      /\ s \in Sides /\ u \in Sides /\ t.kid[u][q] = e /\ t.kid[s][g] = q
      /\ t.root \notin t.red /\ e # q /\ q # g
  BY DEF Clash
<1>2. /\ Linked(n) /\ Tr(n) = Tr(t) /\ n.kid = t.kid /\ n.root = t.root
      /\ n.red = (t.red \ {w, q}) \cup {g}
  BY <1>1, Painted DEF WritesRed
<1>3. /\ Null \notin Keys /\ Tr(t) \subseteq Keys /\ t.red \subseteq Keys
      /\ Other(s) \in Sides /\ Other(s) # s /\ \A v \in Sides : v = s \/ v = Other(s)
  BY <1>1, RootIs, Sorts, TreeTypes, Opposite DEF Linked
<1>4. w \in Tr(t) /\ w # q /\ w # g /\ w \in Keys
  <2>1. w \in Keys /\ w # Null
    BY <1>3
  <2>2. w \in Tr(t) /\ w # g
    BY <1>1, <1>3, <2>1, KidIs
  <2>3. w # q
    BY <1>1, <1>3, <2>1, OnePlace
  <2>4. QED
    BY <2>1, <2>2, <2>3
<1>5. ASSUME NEW z \in Tr(t), NEW v \in Sides
      PROVE  /\ t.kid[v][z] \in Keys \cup {Null}
             /\ t.kid[v][z] = q <=> z = g /\ v = s
             /\ t.kid[v][z] = w <=> z = g /\ v = Other(s)
  BY <1>1, <1>3, <1>4, OnePlace, KidIs
<1>6. RedRule(n, g, Null)
  <2>1. ASSUME NEW z \in Tr(n) \cap n.red, NEW v \in Sides, n.kid[v][z] \in n.red,
               n.kid[v][z] # g
        PROVE  FALSE
    <3>1. z \in Tr(t) /\ z # q /\ t.kid[v][z] \in t.red /\ t.kid[v][z] # q /\ t.kid[v][z] # w
      BY <1>1, <1>2, <1>3, <2>1
    <3>2. z # g
      BY <1>3, <1>5, <3>1
    <3>3. z \in t.red
      BY <1>2, <2>1, <3>2
    <3>4. t.kid[v][z] = e
      BY <1>1, <1>3, <3>1, <3>3 DEF RedRule
    <3>5. e # Null
      BY <1>1, <1>3
    <3>6. z = q
      BY <1>1, <3>1, <3>4, <3>5, OnePlace
    <3>7. QED
      BY <3>1, <3>6
  <2>2. QED
    BY <2>1 DEF RedRule
<1>7. PICK h : Balanced(t, h, Null, s)
  BY DEF Clash
<1> DEFINE k == [h EXCEPT ![q] = h[q] + 1, ![w] = h[w] + 1]
<1>8. /\ h \in [Keys \cup {Null} -> Nat] /\ h[Null] = 0
      /\ \A z \in Tr(t), v \in Sides :
           h[z] = h[t.kid[v][z]] + Count(z = Null /\ v = s) + Count(z \notin t.red)
  BY <1>7 DEF Balanced
<1>9. /\ k \in [Keys \cup {Null} -> Nat] /\ k[Null] = 0 /\ k[q] = h[q] + 1 /\ k[w] = h[w] + 1
      /\ \A z \in Keys \cup {Null} : z # q /\ z # w => k[z] = h[z]
  <2>1. q \in Keys /\ w \in Keys /\ q # Null /\ w # Null /\ q # w
    BY <1>1, <1>3, <1>4
  <2>2. h[q] \in Nat /\ h[w] \in Nat
    BY <1>8, <2>1
  <2>3. QED
    BY <1>8, <2>1, <2>2
<1> HIDE DEF k
<1>10. ASSUME NEW z \in Tr(n), NEW v \in Sides
       PROVE  k[z] = k[n.kid[v][z]] + Count(z = Null /\ v = s) + Count(z \notin n.red)
  <2> DEFINE d == t.kid[v][z]
  <2>1. /\ z \in Tr(t) /\ z \in Keys /\ n.kid[v][z] = d /\ d \in Keys \cup {Null}
        /\ d = q <=> z = g /\ v = s
        /\ d = w <=> z = g /\ v = Other(s)
        /\ h[z] = h[d] + Count(z = Null /\ v = s) + Count(z \notin t.red)
        /\ h[z] \in Nat /\ h[d] \in Nat
    BY <1>2, <1>3, <1>5, <1>8
  <2>2. Count(z = Null /\ v = s) = 0
    BY <1>3, <2>1 DEF Count
  <2> HIDE DEF d
  <2>3. CASE z = g
    <3>1. Count(z \notin t.red) = 1 /\ Count(z \notin n.red) = 0
      BY <1>1, <1>2, <2>3 DEF Count
    <3>2. k[z] = h[z] /\ k[d] = h[d] + 1
      BY <1>1, <1>3, <1>4, <1>9, <2>1, <2>3
    <3>3. QED
      BY <2>1, <2>2, <3>1, <3>2
  <2>4. CASE z = q \/ z = w
    <3>1. Count(z \notin t.red) = 0 /\ Count(z \notin n.red) = 1
      BY <1>1, <1>2, <1>4, <2>4 DEF Count
    <3>2. k[z] = h[z] + 1 /\ k[d] = h[d]
      BY <1>1, <1>4, <1>9, <2>1, <2>4
    <3>3. QED
      BY <2>1, <2>2, <3>1, <3>2
  <2>5. CASE z # g /\ z # q /\ z # w
    <3>1. Count(z \notin t.red) = Count(z \notin n.red) /\ Count(z \notin n.red) \in Nat
      BY <1>2, <2>5 DEF Count
    <3>2. k[z] = h[z] /\ k[d] = h[d]
      BY <1>9, <2>1, <2>5
    <3>3. QED
      BY <2>1, <2>2, <3>1, <3>2
  <2>6. QED
    BY <2>3, <2>4, <2>5
<1>11. Balanced(n, k, Null, s)
  BY <1>9, <1>10 DEF Balanced
<1>12. n.root \in n.red => n.root = g
  BY <1>1, <1>2
<1>13. QED
  BY <1>1, <1>2, <1>3, <1>6, <1>11, <1>12 DEF Holds

-----------------------------------------------------------------------------
(* The rotations of RB_INSERT_COLOR.                                       *)

\* An outer grandchild: one rotation, and the parent and its parent change colours.
LEMMA OuterRotates ==
  ASSUME NEW t, NEW e, NEW q, NEW g, NEW s, Clash(t, e, q, g, s, s),
         t.kid[Other(s)][g] \notin t.red,
         NEW a, WritesRed(t, a, (t.red \ {q}) \cup {g}),
         NEW n, n = Rotate(a, Other(s), g)
  PROVE  Holds(n, "insert", e, Null) /\ Tr(n) = Tr(t)
<1> DEFINE o == Other(s)
           R == (t.red \ {q}) \cup {g}
<1>1. /\ Linked(t) /\ RedRule(t, e, Null)
      /\ e \in Tr(t) /\ q \in Tr(t) /\ g \in Tr(t) /\ e \in t.red /\ q \in t.red /\ g \notin t.red
      /\ s \in Sides /\ t.kid[s][q] = e /\ t.kid[s][g] = q
      /\ t.root \notin t.red /\ e # q /\ q # g
  BY DEF Clash
<1>2. /\ Null \notin Keys /\ Tr(t) \subseteq Keys /\ Null \notin Tr(t)
      /\ o \in Sides /\ Other(o) = s
  BY <1>1, RootIs, Sorts, Opposite
<1>3. q = t.kid[Other(o)][g] /\ q # Null
  BY <1>1, <1>2
<1> HIDE DEF R
<1>4. WritesRed(t, a, R) /\ n = Rotate(a, o, g)
  BY DEF R
<1> HIDE DEF o
<1>5. /\ IsTurned(t, n, o, g, q, t.kid[o][q], t.par[g])
      /\ n.red = R /\ Linked(n) /\ Tr(n) = Tr(t)
  BY <1>1, <1>2, <1>3, <1>4, RotatePainted
<1>6. Exchanged(t, n, g, q)
  BY <1>1, <1>5 DEF Exchanged, R
<1>7. \E k : Balanced(n, k, Null, s)
  <2>1. PICK h : Balanced(t, h, Null, s)
    BY DEF Clash
  <2>2. Null # q /\ Null # g
    BY <1>1, <1>2
  <2>3. Balanced(n, [h EXCEPT ![g] = h[q], ![q] = h[g]], Null, s)
    BY <1>1, <1>2, <1>3, <1>5, <1>6, <2>1, <2>2, BalancedTurn
  <2>4. QED
    BY <2>3
<1>8. RedRule(n, e, Null)
  <2>1. /\ t.kid[o][q] \in t.red => t.kid[o][q] = e \/ g = Null
        /\ t.kid[o][g] \notin t.red
    BY <1>1, <1>2 DEF RedRule, o
  <2>2. \A z \in Tr(t) \cap t.red, v \in Sides :
          z # g /\ z # q /\ t.kid[v][z] # g /\ t.kid[v][z] # q /\ t.kid[v][z] \in t.red
            => t.kid[v][z] = e \/ z = Null
    BY <1>1 DEF RedRule
  <2>3. QED
    BY <1>1, <1>2, <1>3, <1>5, <1>6, <2>1, <2>2, RedTurn
<1>9. n.root \notin n.red
  <2>1. n.root = IF t.par[g] = Null THEN q ELSE t.root
    BY <1>5 DEF IsTurned
  <2>2. t.par[g] = Null <=> g = t.root
    BY <1>1, ParIs
  <2>3. QED
    BY <1>1, <1>5, <2>1, <2>2 DEF R
<1>10. e \in n.red /\ e \in Tr(n)
  BY <1>1, <1>5 DEF R
<1>11. QED
  BY <1>1, <1>2, <1>5, <1>7, <1>8, <1>9, <1>10 DEF Holds

\* An inner grandchild first changes place with its parent.
LEMMA InnerRotates ==
  ASSUME NEW t, NEW e, NEW q, NEW g, NEW s, Clash(t, e, q, g, s, Other(s)),
         t.par[q] = g,
         NEW n, n = Rotate(t, s, q)
  PROVE  /\ Clash(n, q, e, g, s, s) /\ Tr(n) = Tr(t) /\ n.red = t.red
         /\ n.kid[Other(s)][g] = t.kid[Other(s)][g]
<1> DEFINE o == Other(s)
<1>1. /\ Linked(t) /\ RedRule(t, e, Null)
      /\ e \in Tr(t) /\ q \in Tr(t) /\ g \in Tr(t) /\ e \in t.red /\ q \in t.red /\ g \notin t.red
      /\ s \in Sides /\ t.kid[o][q] = e /\ t.kid[s][g] = q
      /\ t.root \notin t.red /\ e # q /\ q # g
  BY DEF Clash
<1>2. /\ Null \notin Keys /\ Tr(t) \subseteq Keys /\ Null \notin Tr(t) /\ t \in Trees
      /\ t.red \in SUBSET Keys
      /\ o \in Sides /\ Other(o) = s /\ o # s
  BY <1>1, RootIs, Sorts, Opposite, TreeTypes DEF Linked
<1>3. e = t.kid[Other(s)][q] /\ e # Null /\ q # Null /\ g # Null
  BY <1>1, <1>2
<1>4. WritesRed(t, t, t.red)
  BY <1>2 DEF WritesRed
<1>5. /\ IsTurned(t, n, s, q, e, t.kid[s][e], g)
      /\ n.red = t.red /\ Linked(n) /\ Tr(n) = Tr(t)
  BY <1>1, <1>2, <1>3, <1>4, RotatePainted
<1>6. Exchanged(t, n, q, e)
  BY <1>1, <1>5 DEF Exchanged
<1>7. \E k : Balanced(n, k, Null, s)
  <2>1. PICK h : Balanced(t, h, Null, s)
    BY DEF Clash
  <2>2. IsTurned(t, n, s, q, e, t.kid[s][e], t.par[q])
    BY <1>5
  <2>3. Balanced(n, [h EXCEPT ![q] = h[e], ![e] = h[q]], Null, s)
    BY <1>1, <1>2, <1>3, <1>5, <1>6, <2>1, <2>2, BalancedTurn
  <2>4. QED
    BY <2>3
<1>8. \A z \in Tr(t) \cap t.red, v \in Sides : t.kid[v][z] \in t.red => t.kid[v][z] = e
  BY <1>1, <1>2 DEF RedRule
<1>9. ASSUME NEW z \in Tr(t), NEW v \in Sides
      PROVE  /\ t.kid[v][z] = e <=> z = q /\ v = o
             /\ t.kid[v][z] = q <=> z = g /\ v = s
  BY <1>1, <1>2, <1>3, OnePlace
<1> HIDE DEF o
<1>10. RedRule(n, q, Null)
  <2>1. e # t.kid[s][e] /\ e # t.kid[o][e]
    BY <1>1, <1>2, <1>9
  <2>2. t.kid[s][e] \notin t.red /\ t.kid[s][q] \notin t.red /\ t.kid[o][e] \notin t.red
    BY <1>1, <1>2, <1>8, <1>9, <2>1
  <2>3. \A z \in Tr(t) \cap t.red, v \in Sides : t.kid[v][z] # q
    BY <1>1, <1>8
  <2>4. \A z \in Tr(t) \cap t.red, v \in Sides :
          ~(t.kid[v][z] # e /\ t.kid[v][z] \in t.red)
    BY <1>8, SMTT(60)
  <2>5. IsTurned(t, n, s, q, e, t.kid[s][e], t.par[q])
    BY <1>5
  <2>6. QED
    BY <1>1, <1>2, <1>3, <1>5, <1>6, <2>2, <2>3, <2>4, <2>5, RedTurn, SMTT(60) DEF o
<1>11. /\ n.kid[s][e] = q /\ n.kid[s][g] = e /\ n.kid[o][g] = t.kid[o][g]
       /\ n.root = t.root
  <2>1. Side(t, q) = s
    <3>1. q # t.root
      BY <1>1
    <3>2. Side(t, q) \in Sides /\ t.kid[Side(t, q)][g] = q
      BY <1>1, <3>1, ParIs
    <3>3. QED
      BY <1>1, <1>9, <3>2
  <2>2. g \in Keys /\ g # e
    BY <1>1, <1>2
  <2>3. QED
    BY <1>1, <1>2, <1>3, <1>5, <2>1, <2>2 DEF IsTurned
<1>12. Clash(n, q, e, g, s, s)
  BY <1>1, <1>5, <1>7, <1>10, <1>11 DEF Clash
<1>13. QED
  BY <1>5, <1>11, <1>12 DEF o

-----------------------------------------------------------------------------
(* The loop of RB_REMOVE_COLOR.                                            *)

\* The ways through e, on side s of p, are one black element short; e is black and
\* has a sibling.
Short(t, e, p, s) ==
  /\ Linked(t) /\ p \in Tr(t) /\ s \in Sides /\ t.kid[s][p] = e /\ e \notin t.red
  /\ t.kid[Other(s)][p] # Null
  /\ RedRule(t, Null, Null) /\ t.root \notin t.red
  /\ \E h : Balanced(t, h, p, s)

\* The heights at p.
LEMMA Deficit ==
  ASSUME NEW t, Linked(t), NEW p \in Tr(t), NEW s \in Sides, NEW e, e = t.kid[s][p],
         NEW w, w = t.kid[Other(s)][p], NEW h, Balanced(t, h, p, s)
  PROVE  /\ h[e] \in Nat /\ h[w] \in Nat /\ h[p] \in Nat
         /\ h[w] = h[e] + 1 /\ h[p] = h[w] + Count(p \notin t.red) /\ w # Null /\ w # e
<1>1. /\ Other(s) \in Sides /\ Other(s) # s /\ p \in Keys
      /\ e \in Keys \cup {Null} /\ w \in Keys \cup {Null}
  BY KidIs, Opposite
<1>2. /\ h \in [Keys \cup {Null} -> Nat] /\ h[Null] = 0
      /\ h[p] = h[e] + Count(p = p /\ s = s) + Count(p \notin t.red)
      /\ h[p] = h[w] + Count(p = p /\ Other(s) = s) + Count(p \notin t.red)
  BY <1>1 DEF Balanced
<1>3. h[e] \in Nat /\ h[w] \in Nat /\ h[p] \in Nat
  BY <1>1, <1>2
<1>4. Count(p = p /\ s = s) = 1 /\ Count(p = p /\ Other(s) = s) = 0 /\ Count(p \notin t.red) \in Nat
  BY <1>1 DEF Count
<1>5. h[w] = h[e] + 1 /\ h[p] = h[w] + Count(p \notin t.red)
  BY <1>2, <1>3, <1>4
<1>6. w # Null /\ w # e
  BY <1>2, <1>3, <1>5
<1>7. QED
  BY <1>3, <1>5, <1>6

SideOf(t, e, p) == IF t.kid["left"][p] = e THEN "left" ELSE "right"

LEMMA ShortIs ==
  ASSUME NEW t, NEW e, NEW p, Holds(t, "remove", e, p), e \notin t.red, e # t.root
  PROVE  Short(t, e, p, SideOf(t, e, p))
<1>1. Linked(t) /\ p \in Tr(t) /\ RedRule(t, e, e) /\ t.root \notin t.red
  BY DEF Holds
<1>2. p # Null
  BY <1>1, RootIs
<1>3. PICK h, s : s \in Sides /\ Balanced(t, h, p, s) /\ t.kid[s][p] = e
  BY <1>2 DEF Holds
<1>4. t.kid[Other(s)][p] # Null /\ t.kid[Other(s)][p] # e
  BY <1>1, <1>3, Deficit
<1>5. SideOf(t, e, p) = s
  BY <1>3, <1>4 DEF SideOf, Sides, Other
<1>6. RedRule(t, Null, Null)
  BY <1>1, SMTT(60) DEF RedRule
<1>7. QED
  BY <1>1, <1>3, <1>4, <1>5, <1>6 DEF Short

\* A red sibling changes place with the parent; the new one is black.
LEMMA SiblingTurns ==
  ASSUME NEW t, NEW e, NEW p, NEW s, Short(t, e, p, s),
         NEW w, w = t.kid[Other(s)][p], w \in t.red,
         NEW a, WritesRed(t, a, (t.red \ {w}) \cup {p}),
         NEW n, n = Rotate(a, s, p)
  PROVE  /\ Short(n, e, p, s) /\ Tr(n) = Tr(t)
         /\ n.kid[Other(s)][p] \notin n.red
<1> DEFINE o == Other(s)
           c == t.kid[s][w]
           R == (t.red \ {w}) \cup {p}
<1>1. /\ Linked(t) /\ p \in Tr(t) /\ s \in Sides /\ t.kid[s][p] = e /\ e \notin t.red
      /\ RedRule(t, Null, Null) /\ t.root \notin t.red /\ w # Null
      /\ \E h : Balanced(t, h, p, s)
  BY DEF Short
<1>2. /\ Null \notin Keys /\ Tr(t) \subseteq Keys /\ Null \notin Tr(t) /\ t.red \subseteq Keys
      /\ o \in Sides /\ o # s
  BY <1>1, RootIs, Sorts, Opposite, TreeTypes DEF Linked
<1>3. w \in Tr(t) /\ w # p /\ w # t.root /\ w # e
  BY <1>1, <1>2, KidIs
<1>4. p \notin t.red /\ c \notin t.red
  BY <1>1, <1>2, <1>3 DEF RedRule
<1>5. WritesRed(t, a, R)
  OBVIOUS
<1> HIDE DEF R
<1>6. /\ IsTurned(t, n, s, p, w, c, t.par[p])
      /\ n.red = R /\ Linked(n) /\ Tr(n) = Tr(t)
  BY <1>1, <1>2, <1>5, RotatePainted
<1>7. Exchanged(t, n, p, w)
  BY <1>3, <1>4, <1>6 DEF Exchanged, R
<1>8. PICK h : Balanced(t, h, p, s)
  BY <1>1, SMTT(60)
<1>9. Balanced(n, [h EXCEPT ![p] = h[w], ![w] = h[p]], p, s)
  BY <1>1, <1>2, <1>3, <1>6, <1>7, <1>8, BalancedTurn, SMTT(60)
<1>10. RedRule(n, Null, Null)
  <2>1. \A z \in Tr(t) \cap t.red, v \in Sides : t.kid[v][z] \notin t.red
    BY <1>1, <1>2 DEF RedRule
  <2>2. t.kid[s][p] \notin t.red
    BY <1>1
  <2>3. QED
    BY <1>1, <1>4, <1>6, <1>7, <2>1, <2>2, RedTurn
<1>11. c \in Keys \cup {Null} /\ c # Null /\ c # p /\ c # w
  <2>1. h[w] = h[e] + 1 /\ h[e] \in Nat
    BY <1>1, <1>8, Deficit
  <2>2. h[w] = h[c] + Count(w = p /\ s = s) + Count(w \notin t.red) /\ h[Null] = 0
        /\ h \in [Keys \cup {Null} -> Nat]
    BY <1>1, <1>3, <1>8 DEF Balanced
  <2>3. Count(w = p /\ s = s) = 0 /\ Count(w \notin t.red) = 0
    BY <1>3 DEF Count
  <2>4. c \in Keys \cup {Null} /\ c # w
    BY <1>1, <1>3, KidIs
  <2>5. c # Null
    BY <2>1, <2>2, <2>3
  <2>6. c # p
    BY <1>1, Around, SMTT(60)
  <2>7. QED
    BY <2>4, <2>5, <2>6
<1>12. n.kid[o][p] = c /\ n.kid[s][p] = e
  <2>1. n.kid[o][p] = c
    BY <1>6 DEF IsTurned
  <2>2. t.par[p] # p
    BY <1>1, <1>2, ParIs
  <2>3. QED
    BY <1>1, <1>2, <1>3, <1>6, <2>1, <2>2 DEF IsTurned
<1>13. c \notin R /\ e \notin R
  <2>1. e # p
    BY <1>1, <1>2, KidIs
  <2>2. QED
    BY <1>1, <1>4, <1>11, <2>1 DEF R
<1>14. n.root \notin n.red
  <2>1. n.root = IF t.par[p] = Null THEN w ELSE t.root
    BY <1>6 DEF IsTurned
  <2>2. t.par[p] = Null <=> p = t.root
    BY <1>1, ParIs
  <2>3. QED
    BY <1>1, <1>3, <1>6, <2>1, <2>2 DEF R
<1>15. QED
  BY <1>1, <1>6, <1>9, <1>10, <1>11, <1>12, <1>13, <1>14, ZenonT(60) DEF Short

\* A black sibling with black children becomes red, and the way to the parent is
\* the short one.
LEMMA ShortRecolours ==
  ASSUME NEW t, NEW e, NEW p, NEW s, Short(t, e, p, s),
         NEW w, w = t.kid[Other(s)][p], w \notin t.red,
         \A v \in Sides : t.kid[v][w] \notin t.red,
         NEW n, WritesRed(t, n, t.red \cup {w})
  PROVE  Holds(n, "remove", p, t.par[p]) /\ Tr(n) = Tr(t)
<1> DEFINE o == Other(s)
           g == t.par[p]
           u == Side(t, p)
<1>1. /\ Linked(t) /\ p \in Tr(t) /\ s \in Sides /\ t.kid[s][p] = e /\ e \notin t.red
      /\ RedRule(t, Null, Null) /\ t.root \notin t.red /\ w # Null
      /\ \E h : Balanced(t, h, p, s)
  BY DEF Short
<1>2. /\ Null \notin Keys /\ Tr(t) \subseteq Keys /\ Null \notin Tr(t) /\ t.red \subseteq Keys
      /\ o \in Sides /\ o # s /\ \A v \in Sides : v = s \/ v = o
  BY <1>1, RootIs, Sorts, Opposite, TreeTypes DEF Linked
<1>3. w \in Tr(t) /\ w \in Keys /\ w # p /\ w # t.root /\ w # e /\ p \in Keys
  BY <1>1, <1>2, KidIs
<1>4. /\ Linked(n) /\ Tr(n) = Tr(t) /\ n.kid = t.kid /\ n.root = t.root
      /\ n.red = t.red \cup {w}
  BY <1>1, Painted DEF WritesRed
<1>5. /\ u \in Sides /\ g \in Keys \cup {Null} /\ g # p /\ g # w
      /\ (g = Null <=> p = t.root) /\ (g # Null => g \in Tr(t) /\ t.kid[u][g] = p)
  <2>1. u \in Sides
    BY DEF Side, Sides
  <2>2. w = t.kid[Other(s)][p] /\ t.kid[s][w] = t.kid[s][w] /\ g = t.par[p] /\ w # Null
    BY <1>1
  <2>3. /\ g \in Keys \cup {Null} /\ g # p /\ g # w /\ (g = Null <=> p = t.root)
        /\ (g # Null => g \in Tr(t) /\ t.kid[Side(t, p)][g] = p)
    BY <1>1, <2>2, Around
  <2>4. QED
    BY <2>1, <2>3
<1>6. ASSUME NEW z \in Tr(t), NEW v \in Sides
      PROVE  /\ t.kid[v][z] \in Keys \cup {Null} /\ z \in Keys /\ z # Null
             /\ t.kid[v][z] = w <=> z = p /\ v = o
             /\ t.kid[v][z] = p <=> z = g /\ v = u
             /\ z = w => t.kid[v][z] # w /\ t.kid[v][z] # p
             /\ z = p /\ v = s => t.kid[v][z] = e
  <2>1. t.kid[v][z] \in Keys \cup {Null} /\ z \in Keys /\ z # Null
        /\ (t.kid[v][z] # Null => t.kid[v][z] # t.root)
    BY <1>1, <1>2, KidIs
  <2>2. t.kid[v][z] = w <=> z = p /\ v = o
    BY <1>1, <1>2, <1>3, OnePlace
  <2>3. t.kid[v][z] = p <=> z = g /\ v = u
    <3>1. CASE g = Null
      BY <1>2, <1>3, <1>5, <2>1, <3>1
    <3>2. CASE g # Null
      BY <1>1, <1>2, <1>3, <1>5, <3>2, OnePlace
    <3>3. QED
      BY <3>1, <3>2
  <2>4. z = w => t.kid[v][z] # w /\ t.kid[v][z] # p
    BY <1>3, <1>5, <2>2, <2>3
  <2>5. QED
    BY <1>1, <2>1, <2>2, <2>3, <2>4
<1> HIDE DEF o, g, u
<1>7. RedRule(n, p, p)
  <2>1. ASSUME NEW z \in Tr(n) \cap n.red, NEW v \in Sides, n.kid[v][z] \in n.red,
               n.kid[v][z] # p, z # p
        PROVE  FALSE
    <3>1. z \in Tr(t) /\ t.kid[v][z] # w /\ t.kid[v][z] \in t.red /\ t.kid[v][z] # Null
      BY <1>2, <1>4, <1>6, <2>1
    <3>2. z # w
      BY <3>1
    <3>3. z \in t.red
      BY <1>4, <2>1, <3>2
    <3>4. QED
      BY <1>1, <1>2, <3>1, <3>3 DEF RedRule
  <2>2. QED
    BY <2>1 DEF RedRule
<1>8. n.root \notin n.red
  BY <1>1, <1>3, <1>4
<1>9. PICK h : Balanced(t, h, p, s)
  BY <1>1
<1> DEFINE k == [h EXCEPT ![w] = h[w] - 1, ![p] = h[p] - 1]
<1>10. /\ h \in [Keys \cup {Null} -> Nat] /\ h[Null] = 0
       /\ \A z \in Tr(t), v \in Sides :
            h[z] = h[t.kid[v][z]] + Count(z = p /\ v = s) + Count(z \notin t.red)
  BY <1>9 DEF Balanced
<1>11. h[w] - 1 \in Nat /\ h[p] - 1 \in Nat
  <2>1. h[e] \in Nat /\ h[w] \in Nat /\ h[p] \in Nat
        /\ h[w] = h[e] + 1 /\ h[p] = h[w] + Count(p \notin t.red)
    BY <1>1, <1>9, Deficit
  <2>2. Count(p \notin t.red) \in Nat
    BY SMTT(60) DEF Count
  <2>3. QED
    BY <2>1, <2>2
<1>12. /\ k \in [Keys \cup {Null} -> Nat] /\ k[Null] = 0 /\ k[w] = h[w] - 1 /\ k[p] = h[p] - 1
       /\ \A z \in Keys \cup {Null} : z # w /\ z # p => k[z] = h[z]
  BY <1>2, <1>3, <1>10, <1>11
<1> HIDE DEF k
<1>13. ASSUME NEW z \in Tr(n), NEW v \in Sides
       PROVE  k[z] = k[n.kid[v][z]] + Count(z = g /\ v = u) + Count(z \notin n.red)
  <2> DEFINE d == t.kid[v][z]
  <2>1. /\ z \in Tr(t) /\ n.kid[v][z] = d /\ d \in Keys \cup {Null} /\ z \in Keys
        /\ d = w <=> z = p /\ v = o
        /\ d = p <=> z = g /\ v = u
        /\ z = w => d # w /\ d # p
        /\ z = p /\ v = s => d = e
    BY <1>4, <1>6
  <2>2. /\ h[z] = h[d] + Count(z = p /\ v = s) + Count(z \notin t.red)
        /\ h[z] \in Nat /\ h[d] \in Nat
    BY <1>10, <2>1
  <2> HIDE DEF d
  <2>3. CASE z = w
    <3>1. k[z] = h[z] - 1 /\ k[d] = h[d]
      BY <1>12, <2>1, <2>3
    <3>2. /\ Count(z = p /\ v = s) = 0 /\ Count(z \notin t.red) = 1
          /\ Count(z = g /\ v = u) = 0 /\ Count(z \notin n.red) = 0
      BY <1>3, <1>4, <1>5, <2>3 DEF Count
    <3>3. QED
      BY <2>1, <2>2, <3>1, <3>2
  <2>4. CASE z = p /\ v = s
    <3>1. k[z] = h[z] - 1 /\ k[d] = h[d]
      BY <1>2, <1>5, <1>12, <2>1, <2>4
    <3>2. /\ Count(z = p /\ v = s) = 1 /\ Count(z \notin t.red) = Count(z \notin n.red)
          /\ Count(z = g /\ v = u) = 0 /\ Count(z \notin n.red) \in Nat
      BY <1>3, <1>4, <1>5, <2>4 DEF Count
    <3>3. QED
      BY <2>1, <2>2, <3>1, <3>2
  <2>5. CASE z = p /\ v = o
    <3>1. k[z] = h[z] - 1 /\ k[d] = h[d] - 1
      BY <1>12, <2>1, <2>5
    <3>2. /\ Count(z = p /\ v = s) = 0 /\ Count(z \notin t.red) = Count(z \notin n.red)
          /\ Count(z = g /\ v = u) = 0 /\ Count(z \notin n.red) \in Nat
      BY <1>2, <1>3, <1>4, <1>5, <2>5 DEF Count
    <3>3. QED
      BY <2>1, <2>2, <3>1, <3>2
  <2>6. CASE z = g /\ v = u
    <3>1. k[z] = h[z] /\ k[d] = h[d] - 1
      BY <1>5, <1>12, <2>1, <2>6
    <3>2. /\ Count(z = p /\ v = s) = 0 /\ Count(z \notin t.red) = Count(z \notin n.red)
          /\ Count(z = g /\ v = u) = 1 /\ Count(z \notin n.red) \in Nat
      BY <1>3, <1>4, <1>5, <2>6 DEF Count
    <3>3. QED
      BY <2>1, <2>2, <3>1, <3>2
  <2>7. CASE z # w /\ z # p /\ ~(z = g /\ v = u)
    <3>1. k[z] = h[z] /\ k[d] = h[d]
      BY <1>12, <2>1, <2>7
    <3>2. /\ Count(z = p /\ v = s) = 0 /\ Count(z \notin t.red) = Count(z \notin n.red)
          /\ Count(z = g /\ v = u) = 0 /\ Count(z \notin n.red) \in Nat
      BY <1>4, <2>7 DEF Count
    <3>3. QED
      BY <2>1, <2>2, <3>1, <3>2
  <2>8. QED
    BY <1>2, <2>3, <2>4, <2>5, <2>6, <2>7
<1>14. Balanced(n, k, g, u)
  BY <1>12, <1>13 DEF Balanced
<1>15. Holds(n, "remove", p, g)
  BY <1>3, <1>4, <1>5, <1>7, <1>8, <1>14 DEF Holds
<1>16. QED
  BY <1>4, <1>15 DEF g

\* The outer child of the black sibling w is black: its inner child takes its place.
LEMMA OuterTurns ==
  ASSUME NEW t, NEW e, NEW p, NEW s, Short(t, e, p, s),
         NEW w, w = t.kid[Other(s)][p], w \notin t.red, t.kid[Other(s)][w] \notin t.red,
         NEW y, y = t.kid[s][w], y \in t.red,
         NEW a, WritesRed(t, a, (t.red \ {y}) \cup {w}),
         NEW n, n = Rotate(a, Other(s), w)
  PROVE  /\ Short(n, e, p, s) /\ Tr(n) = Tr(t)
         /\ n.kid[Other(s)][p] = y /\ y \notin n.red
         /\ n.kid[Other(s)][y] = w /\ w \in n.red
<1> DEFINE o == Other(s)
           c == t.kid[o][y]
           R == (t.red \ {y}) \cup {w}
<1>1. /\ Linked(t) /\ p \in Tr(t) /\ s \in Sides /\ t.kid[s][p] = e /\ e \notin t.red
      /\ RedRule(t, Null, Null) /\ t.root \notin t.red /\ w # Null
      /\ \E h : Balanced(t, h, p, s)
  BY SMTT(60) DEF Short
<1>2. /\ Null \notin Keys /\ Tr(t) \subseteq Keys /\ Null \notin Tr(t) /\ t.red \subseteq Keys
      /\ o \in Sides /\ o # s /\ Other(o) = s
  BY <1>1, RootIs, Sorts, Opposite, TreeTypes DEF Linked
<1>3. w \in Tr(t) /\ w \in Keys /\ w # p /\ w # t.root /\ w # e /\ p \in Keys /\ t.par[w] = p
  BY <1>1, <1>2, KidIs
<1>4. y = t.kid[Other(o)][w] /\ y # Null /\ y \in Keys
  BY <1>2
<1>5. WritesRed(t, a, R) /\ n = Rotate(a, o, w)
  OBVIOUS
<1> HIDE DEF R, o, c
<1>6. /\ IsTurned(t, n, o, w, y, c, t.par[w])
      /\ n.red = R /\ Linked(n) /\ Tr(n) = Tr(t)
  BY <1>1, <1>2, <1>3, <1>4, <1>5, RotatePainted, SMTT(60) DEF c
<1>7. y \in Tr(t) /\ y # w /\ y # p /\ c # p /\ c # w
  <2>1. y \in Tr(t) /\ y # w /\ p \notin Below(t.kid, w)
    BY <1>1, <1>2, <1>3, <1>4, KidIs DEF o
  <2>2. t.kid[s][p] # y
    BY <1>2, <1>1, <1>4, SMTT(60)
  <2>3. y # p
    BY <1>1, <1>2, <1>3, <1>4, Around, SMTT(60)
  <2>4. c # w
    BY <1>1, <1>2, <1>3, <1>4, Around DEF c
  <2>5. c # p
    <3>1. w \in Below(t.kid, w) /\ Closed(t.kid, Below(t.kid, w))
      BY <1>3, UnderIs, SMTT(60)
    <3>2. y \in Below(t.kid, w)
      BY <1>1, <1>4, <3>1 DEF Closed
    <3>3. c \in Keys => c \in Below(t.kid, w)
      BY <1>2, <3>1, <3>2, SMTT(60) DEF Closed, c
    <3>4. QED
      BY <1>3, <2>1, <3>3
  <2>6. QED
    BY <2>1, <2>3, <2>4, <2>5, SMTT(60)
<1>8. Exchanged(t, n, w, y)
  BY <1>6, <1>7, <1>4, ZenonT(60) DEF Exchanged, R
<1>9. PICK h : Balanced(t, h, p, s)
  BY <1>1
<1>10. Balanced(n, [h EXCEPT ![w] = h[y], ![y] = h[w]], p, s)
  <2>1. IsTurned(t, n, o, w, y, t.kid[o][y], t.par[w])
    BY <1>6, ZenonT(60) DEF c
  <2>2. p # y /\ ~(p = w /\ s = Other(o))
    BY <1>3, <1>7
  <2>3. QED
    BY <1>1, <1>2, <1>3, <1>4, <1>6, <1>8, <1>9, <2>1, <2>2, BalancedTurn, ZenonT(60)
<1>11. RedRule(n, Null, Null)
  <2>1. \A z \in Tr(t) \cap t.red, v \in Sides : t.kid[v][z] \notin t.red
    BY <1>1, <1>2, SMTT(60) DEF RedRule
  <2>2. t.kid[o][w] \notin t.red /\ t.kid[o][y] \notin t.red
    BY <1>2, <1>7, <2>1, ZenonT(60) DEF o
  <2>3. IsTurned(t, n, o, w, y, t.kid[o][y], t.par[w])
    BY <1>6 DEF c
  <2>4. /\ ~(t.kid[o][y] \in t.red) /\ ~(t.kid[o][w] \in t.red) /\ ~(w \in t.red)
        /\ \A z \in Tr(t) \cap t.red, v \in Sides :
             z # w /\ z # y /\ t.kid[v][z] # w /\ t.kid[v][z] # y /\ t.kid[v][z] \in t.red
               => t.kid[v][z] = Null \/ z = Null
    BY <2>1, <2>2, ZenonT(60)
  <2>5. QED
    BY <1>2, <1>3, <1>4, <1>1, <1>6, <1>8, <2>1, <2>2, <2>3, RedTurnBlack, ZenonT(60)
<1>12. Side(t, w) = o
  <2>1. Side(t, w) \in Sides /\ t.kid[Side(t, w)][p] = w
    BY <1>1, <1>3, ParIs
  <2>2. t.kid[o][p] = w
    BY DEF o
  <2>3. QED
    BY <1>1, <1>2, <1>3, <2>1, <2>2, OnePlace, SMTT(60)
<1>13. /\ n.kid[o][p] = y /\ n.kid[o][y] = w /\ n.kid[s][p] = e /\ n.root = t.root
  <2>1. p # Null
    BY <1>1, <1>2
  <2>2. QED
    BY <1>1, <1>2, <1>3, <1>6, <1>7, <1>12, <2>1, ZenonT(60) DEF IsTurned
<1>14. y \notin n.red /\ w \in n.red /\ e \notin n.red /\ n.root \notin n.red
  BY <1>1, <1>3, <1>6, <1>7, <1>13, ZenonT(60) DEF R
<1>15. Short(n, e, p, s)
  BY <1>1, <1>4, <1>6, <1>10, <1>11, <1>13, <1>14, ZenonT(60) DEF Short, o
<1>16. QED
  BY <1>6, <1>13, <1>14, <1>15, ZenonT(60) DEF o

\* The black sibling w has a red outer child c: it takes the place of the parent, and
\* the ways through e are whole again.
LEMMA LastTurn ==
  ASSUME NEW t, NEW e, NEW p, NEW s, Short(t, e, p, s),
         NEW w, w = t.kid[Other(s)][p], w \notin t.red,
         NEW c, c = t.kid[Other(s)][w], c \in t.red,
         NEW a, WritesRed(t, a, (t.red \ {w, p, c}) \cup (IF p \in t.red THEN {w} ELSE {})),
         NEW b, b = Rotate(a, s, p),
         NEW n, WritesRed(b, n, b.red \ {b.root})
  PROVE  Holds(n, "idle", Null, Null) /\ Tr(n) = Tr(t)
<1> DEFINE o == Other(s)
           d == t.kid[s][w]
           R == (t.red \ {w, p, c}) \cup (IF p \in t.red THEN {w} ELSE {})
<1>1. /\ Linked(t) /\ p \in Tr(t) /\ s \in Sides /\ t.kid[s][p] = e /\ e \notin t.red
      /\ RedRule(t, Null, Null) /\ t.root \notin t.red /\ w # Null
      /\ \E h : Balanced(t, h, p, s)
  BY DEF Short
<1>2. /\ Null \notin Keys /\ Tr(t) \subseteq Keys /\ Null \notin Tr(t) /\ t.red \subseteq Keys
      /\ o \in Sides /\ o # s /\ \A v \in Sides : v = s \/ v = o
  BY <1>1, RootIs, Sorts, Opposite, TreeTypes DEF Linked
<1>3. /\ w \in Tr(t) /\ w \in Keys /\ w # p /\ w # t.root /\ w # e /\ p \in Keys
      /\ p \notin Below(t.kid, w)
  BY <1>1, <1>2, KidIs
<1>4. c \in Tr(t) /\ c \in Keys /\ c # w /\ c # p /\ c # d /\ c # e
  <2>1. c \in Keys /\ c # Null
    BY <1>2
  <2>2. c \in Tr(t) /\ c # w
    BY <1>2, <1>1, <1>3, <2>1, KidIs
  <2>3. c # d
    BY <1>1, <1>2, <1>3, <2>1, OnePlace
  <2>4. c # e
    BY <1>1
  <2>5. c # p
    <3>1. w \in Below(t.kid, w) /\ Closed(t.kid, Below(t.kid, w))
      BY <1>3, UnderIs
    <3>2. c \in Below(t.kid, w)
      BY <1>2, <2>1, <3>1 DEF Closed
    <3>3. QED
      BY <1>3, <3>2
  <2>6. QED
    BY <2>1, <2>2, <2>3, <2>4, <2>5
<1>5. d \in Keys \cup {Null} /\ d # w /\ d # p /\ e \in Keys \cup {Null} /\ e # p
  <2>1. d \in Keys \cup {Null} /\ d # w /\ d # p
    BY <1>1, Around
  <2>2. e \in Keys \cup {Null} /\ e # p
    BY <1>1, <1>2, KidIs
  <2>3. QED
    BY <2>1, <2>2
<1>6. WritesRed(t, a, R)
  OBVIOUS
<1>7. /\ w \in R <=> p \in t.red
      /\ p \notin R /\ c \notin R
      /\ \A z : z # w /\ z # p /\ z # c => (z \in R <=> z \in t.red)
  BY <1>3, <1>4, SMTT(60)
<1> HIDE DEF R
<1>8. /\ IsTurned(t, b, s, p, w, t.kid[s][w], t.par[p])
      /\ b.red = R /\ Linked(b) /\ Tr(b) = Tr(t)
  BY <1>1, <1>6, RotatePainted, SMTT(60)
<1>9. ASSUME NEW z \in Tr(t), NEW v \in Sides
      PROVE  \/ z = p /\ v = o /\ b.kid[v][z] = d
             \/ z = p /\ v = s /\ b.kid[v][z] = e
             \/ z = w /\ v = s /\ b.kid[v][z] = p
             \/ z = w /\ v = o /\ b.kid[v][z] = c
             \/ z # p /\ z # w /\ b.kid[v][z] = w /\ t.kid[v][z] = p
             \/ z # p /\ z # w /\ b.kid[v][z] = t.kid[v][z]
                /\ t.kid[v][z] # p /\ t.kid[v][z] # w
  BY <1>1, <1>8, TurnKids
<1>10. ASSUME NEW z \in Tr(t), NEW v \in Sides
       PROVE  /\ t.kid[v][z] \in Keys \cup {Null} /\ z \in Keys /\ z # Null
              /\ z # w => t.kid[v][z] # c
              /\ t.kid[v][z] # z
  <2>1. t.kid[v][z] \in Keys \cup {Null} /\ z \in Keys /\ z # Null /\ t.kid[v][z] # z
    BY <1>1, <1>2, KidIs
  <2>2. z # w => t.kid[v][z] # c
    BY <1>1, <1>2, <1>3, <1>4, OnePlace
  <2>3. QED
    BY <2>1, <2>2
<1>11. RedRule(b, Null, Null)
  <2>1. ASSUME NEW z \in Tr(b) \cap b.red, NEW v \in Sides, b.kid[v][z] \in b.red
        PROVE  FALSE
    <3>1. z \in Tr(t) /\ z \in R /\ z # p /\ z # c /\ b.kid[v][z] \in R
      BY <1>7, <1>8, <2>1, SMTT(60)
    <3>2. /\ z # w
          /\ \/ b.kid[v][z] = w /\ t.kid[v][z] = p
             \/ b.kid[v][z] = t.kid[v][z] /\ t.kid[v][z] # p /\ t.kid[v][z] # w
      BY <1>7, <1>9, <3>1
    <3>3. z \in t.red /\ t.kid[v][z] \in t.red
      BY <1>7, <1>10, <3>1, <3>2
    <3>4. QED
      BY <1>1, <1>2, <3>1, <3>3 DEF RedRule
  <2>2. QED
    BY <2>1 DEF RedRule
<1>12. PICK h : Balanced(t, h, p, s)
  BY <1>1
<1> DEFINE k == [h EXCEPT ![p] = h[w], ![w] = h[p], ![c] = h[c] + 1]
<1>13. /\ h \in [Keys \cup {Null} -> Nat] /\ h[Null] = 0
       /\ \A z \in Tr(t), v \in Sides :
            h[z] = h[t.kid[v][z]] + Count(z = p /\ v = s) + Count(z \notin t.red)
  BY <1>12 DEF Balanced
<1>14. /\ k \in [Keys \cup {Null} -> Nat] /\ k[Null] = 0
       /\ k[p] = h[w] /\ k[w] = h[p] /\ k[c] = h[c] + 1
       /\ \A z \in Keys \cup {Null} : z # w /\ z # p /\ z # c => k[z] = h[z]
  <2>1. h[w] \in Nat /\ h[p] \in Nat /\ h[c] + 1 \in Nat
    BY <1>3, <1>4, <1>13
  <2>2. /\ w \in Keys /\ p \in Keys /\ c \in Keys /\ w # p /\ c # p /\ c # w
        /\ w # Null /\ p # Null /\ c # Null
    BY <1>2, <1>3, <1>4, SMTT(60)
  <2>3. k \in [Keys \cup {Null} -> Nat] /\ k[Null] = 0
    BY <1>13, <2>1, <2>2, ZenonT(60)
  <2>4. k[p] = h[w] /\ k[w] = h[p] /\ k[c] = h[c] + 1
    BY <1>13, <2>2, ZenonT(60)
  <2>5. \A z \in Keys \cup {Null} : z # w /\ z # p /\ z # c => k[z] = h[z]
    BY <1>13, SMTT(60)
  <2>6. QED
    BY <2>3, <2>4, <2>5, ZenonT(60)
<1> HIDE DEF k
<1>15. /\ h[e] \in Nat /\ h[w] \in Nat /\ h[p] \in Nat /\ h[d] \in Nat /\ h[c] \in Nat
       /\ h[w] = h[e] + 1 /\ h[p] = h[w] + Count(p \notin t.red)
       /\ h[w] = h[d] + 1 /\ h[w] = h[c] + 1 /\ Count(p \notin t.red) \in Nat
  <2>1. /\ h[e] \in Nat /\ h[w] \in Nat /\ h[p] \in Nat
        /\ h[w] = h[e] + 1 /\ h[p] = h[w] + Count(p \notin t.red)
    BY <1>1, <1>12, Deficit, SMTT(60)
  <2>2. h[d] \in Nat /\ h[c] \in Nat
    BY <1>4, <1>5, <1>13, ZenonT(60)
  <2>3. /\ h[w] = h[d] + Count(w = p /\ s = s) + Count(w \notin t.red)
        /\ h[w] = h[c] + Count(w = p /\ o = s) + Count(w \notin t.red)
    BY <1>1, <1>2, <1>3, <1>13
  <2>4. /\ Count(w = p /\ s = s) = 0 /\ Count(w = p /\ o = s) = 0 /\ Count(w \notin t.red) = 1
        /\ Count(p \notin t.red) \in Nat
    BY <1>3 DEF Count
  <2>5. QED
    BY <2>1, <2>2, <2>3, <2>4
<1> HIDE DEF o, d
<1>16. ASSUME NEW z \in Tr(b), NEW v \in Sides
       PROVE  k[z] = k[b.kid[v][z]] + Count(z = Null /\ v = s) + Count(z \notin b.red)
  <2>1. /\ z \in Tr(t) /\ t.kid[v][z] \in Keys \cup {Null} /\ z \in Keys /\ z # Null
        /\ z # w => t.kid[v][z] # c
    BY <1>8, <1>10
  <2>2. Count(z = Null /\ v = s) = 0
    BY <2>1, SMTT(60) DEF Count
  <2>3. k[z] = k[b.kid[v][z]] + Count(z \notin R)
    <3>1. CASE z = p /\ b.kid[v][z] \in {d, e}
      <4>1. k[d] = h[d] /\ k[e] = h[e] /\ Count(z \notin R) = 1
        BY <1>1, <1>3, <1>4, <1>5, <1>7, <1>14, <3>1, ZenonT(60) DEF Count
      <4>2. QED
        BY <1>14, <1>15, <3>1, <4>1, SMTT(60)
    <3>2. CASE z = w /\ b.kid[v][z] \in {p, c}
      <4>1. Count(z \notin R) = Count(p \notin t.red)
        BY <1>7, <3>2 DEF Count
      <4>2. QED
        BY <1>14, <1>15, <3>2, <4>1, ZenonT(60)
    <3>3. CASE z # p /\ z # w
      <4> DEFINE j == t.kid[v][z]
      <4>1. /\ h[z] = h[j] + Count(z = p /\ v = s) + Count(z \notin t.red)
            /\ h[z] \in Nat /\ h[j] \in Nat
        BY <1>13, <2>1, SMTT(60)
      <4>2. k[b.kid[v][z]] = h[j]
        BY <1>9, <1>14, <2>1, <3>3, ZenonT(60)
      <4> HIDE DEF j
      <4>3. Count(z = p /\ v = s) = 0
        BY <3>3 DEF Count
      <4>4. CASE z = c
        <5>1. k[z] = h[z] + 1 /\ Count(z \notin t.red) = 0 /\ Count(z \notin R) = 1
          BY <1>7, <1>14, <4>4 DEF Count
        <5>2. QED
          BY <4>1, <4>2, <4>3, <5>1, SMTT(60)
      <4>5. CASE z # c
        <5>1. k[z] = h[z] /\ Count(z \notin t.red) = Count(z \notin R) /\ Count(z \notin R) \in Nat
          BY <1>7, <1>14, <2>1, <3>3, <4>5, SMTT(60) DEF Count
        <5>2. QED
          BY <4>1, <4>2, <4>3, <5>1, SMTT(60)
      <4>6. QED
        BY <4>4, <4>5
    <3>4. QED
      BY <1>8, <1>9, <3>1, <3>2, <3>3, ZenonT(60)
  <2>4. k[b.kid[v][z]] \in Nat /\ Count(z \notin R) \in Nat
    <3>1. b.kid[v][z] \in Keys \cup {Null}
      BY <1>8, KidIs, SMTT(60)
    <3>2. QED
      BY <1>14, <3>1 DEF Count
  <2>5. QED
    BY <1>8, <2>2, <2>3, <2>4
<1>17. Balanced(b, k, Null, s)
  BY <1>14, <1>16 DEF Balanced
<1>18. \E l : Balanced(n, l, Null, s)
  BY <1>2, <1>8, <1>17, BlackRoot
<1>19. /\ Linked(n) /\ Tr(n) = Tr(b) /\ n.kid = b.kid /\ n.root = b.root
       /\ n.red = b.red \ {b.root}
  BY <1>8, Painted DEF WritesRed
<1>20. RedRule(n, Null, Null) /\ n.root \notin n.red
  BY <1>11, <1>19 DEF RedRule
<1>21. QED
  BY <1>1, <1>8, <1>18, <1>19, <1>20 DEF Holds

-----------------------------------------------------------------------------
(* The way down.                                                           *)

\* What is under z, is z or hangs on to something under z.
LEMMA ParUnder ==
  ASSUME NEW t, Linked(t), NEW z \in Tr(t), NEW x \in Tr(t), NEW v \in Sides,
         t.kid[v][x] \in Below(t.kid, z), t.kid[v][x] # z
  PROVE  x \in Below(t.kid, z)
<1> DEFINE m == t.kid
           c == m[v][x]
           S == {y \in Below(m, z) : y = z \/ \E w \in Below(m, z), s \in Sides : m[s][w] = y}
<1>1. z \in Keys /\ Null \notin Keys
  BY RootIs, Sorts
<1>2. z \in Below(m, z) /\ Below(m, z) \subseteq Keys /\ Closed(m, Below(m, z)) /\ Below(m, z) \subseteq Tr(t)
  BY <1>1, UnderIs, UnderPart DEF Tr
<1>3. Closed(m, S) /\ z \in S /\ S \in SUBSET Keys
  BY <1>2 DEF Closed
<1>4. c \in S
  <2> HIDE DEF S
  <2>1. Below(m, z) \subseteq S
    BY <1>1, <1>3, UnderIs
  <2>2. QED
    BY <2>1
<1>5. PICK w \in Below(m, z), s \in Sides : m[s][w] = c
  BY <1>4
<1>6. w \in Tr(t) /\ c # Null
  BY <1>1, <1>2
<1>7. w = x
  BY <1>5, <1>6, OnePlace
<1>8. QED
  BY <1>7

\* The root is below nothing.
LEMMA RootAbove ==
  ASSUME NEW t, Linked(t), NEW y \in Tr(t), NEW u \in Sides
  PROVE  t.root \notin Below(t.kid, t.kid[u][y])
<1>1. ASSUME t.root \in Below(t.kid, t.kid[u][y]) PROVE FALSE
  <2>1. Below(t.kid, t.root) \subseteq Below(t.kid, t.kid[u][y])
    BY <1>1, UnderPart
  <2>2. y \in Keys /\ Good(t.kid, y)
    BY RootIs, GoodPart DEF Linked, Tr
  <2>3. y \notin Below(t.kid, t.kid[u][y])
    BY <2>2, GoodRoot
  <2>4. QED
    BY <2>1, <2>3 DEF Tr
<1>2. QED
  BY <1>1

LEMMA SideOfKey ==
  ASSUME NEW k \in Keys, NEW x \in Keys, k # x,
         NEW v, v = IF k < x THEN "left" ELSE "right"
  PROVE  v \in Sides /\ On(v, k, x) /\ \A s \in Sides : On(s, k, x) => s = v
  BY DEF Keys, On, Sides

LEMMA DescendIs ==
  ASSUME NEW t, Linked(t), t.root # Null, NEW k \in Keys,
         NEW p, p = Descend(t, k)
  PROVE  /\ p \in Tr(t) /\ p \in Keys
         /\ \A y \in Tr(t), u \in Sides : p \in Below(t.kid, t.kid[u][y]) => On(u, k, y)
         /\ k \in Tr(t) <=> p = k
         /\ p # k => t.kid[IF k < p THEN "left" ELSE "right"][p] = Null
<1> DEFINE m == t.kid
           side(x) == IF k < x THEN "left" ELSE "right"
           step == [x \in Keys |-> IF x = k THEN Null ELSE m[side(x)][x]]
           S == {x \in Tr(t) :
                   /\ \A y \in Tr(t), u \in Sides : x \in Below(m, m[u][y]) => On(u, k, y)
                   /\ k \in Tr(t) => k \in Below(m, x)}
<1>1. /\ Good(m, t.root) /\ t.root \in Keys /\ t.root \in Tr(t) /\ Tr(t) \subseteq Keys
      /\ Null \notin Keys
  BY RootIs, Sorts DEF Linked
<1>2. p = Last(step, t.root)
  <2>1. p = Last([x \in Keys |-> IF x = k THEN Null ELSE m[side(x)][x]], t.root)
    BY Fields DEF Descend
  <2>2. QED
    BY <2>1, Fields
<1>3. t.root \in S
  BY <1>1, RootAbove DEF Tr
<1>4. ASSUME NEW x \in S, step[x] \in Keys
      PROVE  step[x] \in S /\ Size(m)[step[x]] < Size(m)[x]
  <2>1. x \in Keys /\ x \in Tr(t) /\ x # k /\ step[x] = m[side(x)][x]
    BY <1>1, <1>4
  <2>2. PICK v \in Sides : v = side(x) /\ On(v, k, x)
    BY <2>1, SideOfKey
  <2> DEFINE c == m[v][x]
  <2>3. step[x] = c /\ c \in Keys /\ c # Null
    BY <1>1, <1>4, <2>1, <2>2
  <2>4. c \in Tr(t) /\ c # x /\ Size(m)[c] < Size(m)[x]
    BY <1>1, <2>1, <2>3, KidIs, SizeIs DEF Tr
  <2>5. Good(m, x) /\ Other(v) \in Sides
    BY <1>1, <2>1, GoodPart, Opposite DEF Tr
  <2>6. /\ Below(m, m[v][x]) \cap Below(m, m[Other(v)][x]) = {}
        /\ \A z \in Below(m, m[Other(v)][x]) : On(Other(v), z, x)
    BY <2>1, <2>5, GoodRoot
  <2>7. ASSUME NEW y \in Tr(t), NEW u \in Sides, c \in Below(m, m[u][y]) PROVE On(u, k, y)
    <3>1. CASE y = x
      <4>1. c \in Below(m, m[v][x])
        BY <2>3, UnderIs
      <4>2. u = v
        BY <2>6, <2>7, <3>1, <4>1, Opposite
      <4>3. QED
        BY <2>2, <3>1, <4>2
    <3>2. CASE y # x
      <4>1. m[u][y] \in Keys /\ m[u][y] \in Tr(t)
        <5>1. m[u][y] \in Keys
          BY <2>7, UnderNothing
        <5>2. QED
          BY <1>1, <5>1, KidIs
      <4>2. m[u][y] # c
        BY <2>1, <2>3, <3>2, OnePlace
      <4>3. x \in Below(m, m[u][y])
        BY <2>1, <2>7, <4>1, <4>2, ParUnder
      <4>4. QED
        BY <4>3
    <3>3. QED
      BY <3>1, <3>2
  <2>8. ASSUME k \in Tr(t) PROVE k \in Below(m, c)
    <3>1. k \in Below(m, x)
      BY <2>8
    <3>2. Below(m, x) = {x} \cup Below(m, m[v][x]) \cup Below(m, m[Other(v)][x])
      BY <2>1, Unfold
    <3>3. k \notin Below(m, m[Other(v)][x])
      <4>1. ~On(Other(v), k, x)
        <5>1. k \in Values /\ x \in Values
          BY <2>1, Sorts
        <5>2. QED
          BY <2>2, <5>1, Order
      <4>2. QED
        BY <2>6, <4>1
    <3>4. QED
      BY <2>1, <3>1, <3>2, <3>3
  <2>9. c \in S
    BY <2>4, <2>7, <2>8
  <2>10. QED
    BY <2>3, <2>4, <2>9
<1>5. \A x \in S : Size(m)[x] \in Nat
  <2>1. ASSUME NEW x \in S PROVE Size(m)[x] \in Nat
    <3>1. "left" \in Sides /\ x \in Below(m, t.root)
      BY DEF Sides, Tr
    <3>2. Size(m)[x] \in 0..N
      BY <1>1, <3>1, SizeIs
    <3>3. QED
      BY <3>2
  <2>2. QED
    BY <2>1
<1>6. S \in SUBSET Keys
  BY <1>1
<1> DEFINE rank == Size(m)
<1>7. p \in S /\ step[p] \notin Keys
  <2> HIDE DEF S, step, rank
  <2>1. (\A x \in S : rank[x] \in Nat) /\ \A x \in S : step[x] \in Keys => step[x] \in S /\ rank[step[x]] < rank[x]
    BY <1>4, <1>5 DEF rank
  <2>2. QED
    BY <1>1, <1>2, <1>3, <1>6, <2>1, LastIs
<1>8. p \in Tr(t) /\ p \in Keys
  BY <1>1, <1>7
<1>9. ASSUME p # k PROVE m[side(p)][p] = Null /\ k \notin Tr(t)
  <2>1. PICK v \in Sides : v = side(p) /\ On(v, k, p)
    BY <1>8, <1>9, SideOfKey
  <2>2. m[v][p] = Null
    <3>1. m[v][p] \notin Keys
      BY <1>7, <1>8, <1>9, <2>1
    <3>2. QED
      BY <1>8, <3>1, KidIs
  <2>3. ASSUME k \in Tr(t) PROVE FALSE
    <3>1. k \in Below(m, p)
      BY <1>7, <2>3
    <3>2. Below(m, p) = {p} \cup Below(m, m[v][p]) \cup Below(m, m[Other(v)][p])
      BY <1>8, Unfold
    <3>3. Below(m, m[v][p]) = {}
      BY <1>1, <2>2, UnderNothing
    <3>4. Good(m, p) /\ Other(v) \in Sides
      BY <1>1, <1>8, GoodPart, Opposite DEF Tr
    <3>5. On(Other(v), k, p)
      BY <1>8, <1>9, <3>1, <3>2, <3>3, <3>4, GoodRoot
    <3>6. k \in Values /\ p \in Values
      BY <1>8, Sorts
    <3>7. QED
      BY <2>1, <3>5, <3>6, Order
  <2>4. QED
    BY <2>1, <2>2, <2>3
<1>10. QED
  BY <1>7, <1>8, <1>9

LEMMA FindIs ==
  ASSUME NEW t, Linked(t), NEW k \in Keys
  PROVE  Find(t, k) = IF k \in Tr(t) THEN k ELSE Null
<1>1. Find(t, k) = IF Descend(t, k) = k THEN k ELSE Null
  BY Fields DEF Find
<1>2. CASE t.root = Null
  <2>1. Descend(t, k) = Null /\ k # Null
    BY <1>2, Fields DEF Descend
  <2>2. Tr(t) = {}
    BY <1>2, RootIs
  <2>3. QED
    BY <1>1, <2>1, <2>2
<1>3. CASE t.root # Null
  BY <1>1, <1>3, DescendIs
<1>4. QED
  BY <1>2, <1>3

-----------------------------------------------------------------------------
(* Insertion.                                                              *)

\* n is t with the red leaf k on side s of p.
IsHung(t, n, k, p, s) ==
  /\ n \in Trees /\ n.root = (IF p = Null THEN k ELSE t.root) /\ n.red = t.red \cup {k}
  /\ \A v \in Sides : n.kid[v][k] = Null
  /\ p # Null => n.kid[s][p] = k
  /\ \A z \in Keys, v \in Sides : z = k \/ (z = p /\ v = s) \/ n.kid[v][z] = t.kid[v][z]
  /\ n.par[k] = p /\ \A z \in Keys : z = k \/ n.par[z] = t.par[z]

LEMMA HungIs ==
  ASSUME NEW t, t \in Trees, NEW k \in Keys, NEW p \in Keys \cup {Null}, p # k,
         NEW s \in Sides, NEW a, a = RB_SET(t, k, p),
         NEW n, n = IF p = Null THEN [a EXCEPT !.root = k]
                    ELSE [a EXCEPT !.kid[s][p] = k]
  PROVE  IsHung(t, n, k, p, s)
<1> DEFINE t1 == [t EXCEPT !.par[k] = p]
           t2 == [t1 EXCEPT !.kid["left"][k] = Null]
           t3 == [t2 EXCEPT !.kid["right"][k] = Null]
           t4 == [t3 EXCEPT !.red = t3.red \cup {k}]
<1>1. /\ Null \in RbNodes /\ Keys \subseteq RbNodes /\ "left" \in Sides /\ "right" \in Sides
      /\ \A v \in Sides : v = "left" \/ v = "right"
      /\ Null \notin Keys
  BY Fields DEF Sides
<1>2. a = t4
  BY Fields DEF RB_SET
<1>3. WritesPar(t, t1, k, p)
  BY <1>1, Writes
<1> HIDE DEF t1
<1>4. WritesKid(t1, t2, "left", k, Null)
  BY <1>1, <1>3, Writes DEF WritesPar
<1> HIDE DEF t2
<1>5. WritesKid(t2, t3, "right", k, Null)
  <2>1. t2 \in Trees
    BY <1>4 DEF WritesKid
  <2>2. QED
    BY <1>1, <2>1, Writes
<1> HIDE DEF t3
<1>6. WritesRed(t3, t4, t3.red \cup {k})
  <2>1. t3 \in Trees
    BY <1>5 DEF WritesKid
  <2>2. t3.red \cup {k} \in SUBSET Keys
    BY <2>1, TreeTypes
  <2>3. QED
    BY <2>1, <2>2, Writes
<1> HIDE DEF t4
<1>7. /\ a \in Trees /\ a.root = t.root /\ a.red = t.red \cup {k}
      /\ \A v \in Sides : a.kid[v][k] = Null
      /\ \A z \in Keys, v \in Sides : z = k \/ a.kid[v][z] = t.kid[v][z]
      /\ a.par[k] = p /\ \A z \in Keys : z = k \/ a.par[z] = t.par[z]
  BY <1>1, <1>2, <1>3, <1>4, <1>5, <1>6 DEF WritesPar, WritesKid, WritesRed
<1>8. CASE p = Null
  <2>1. WritesRoot(a, n, k)
    BY <1>7, <1>8, Writes
  <2>2. QED
    BY <1>1, <1>7, <1>8, <2>1 DEF WritesRoot, IsHung
<1>9. CASE p # Null
  <2>1. WritesKid(a, n, s, p, k)
    BY <1>1, <1>7, <1>9, Writes
  <2>2. QED
    BY <1>1, <1>7, <1>9, <2>1 DEF WritesKid, IsHung
<1>10. QED
  BY <1>8, <1>9

LEMMA HungHolds ==
  ASSUME NEW t, Holds(t, "idle", Null, Null), NEW k \in Keys, k \notin Tr(t),
         NEW p, NEW s \in Sides,
         \/ p = Null /\ t.root = Null
         \/ /\ p \in Tr(t) /\ On(s, k, p) /\ t.kid[s][p] = Null
            /\ \A y \in Tr(t), u \in Sides : p \in Below(t.kid, t.kid[u][y]) => On(u, k, y),
         NEW n, IsHung(t, n, k, p, s)
  PROVE  Holds(n, "insert", k, Null) /\ Tr(n) = Tr(t) \cup {k}
<1> DEFINE m == t.kid
           l == n.kid
           T == Tr(t)
<1>1. /\ Linked(t) /\ RedRule(t, Null, Null) /\ t.root \notin t.red
      /\ Good(m, t.root) /\ T \subseteq Keys /\ Null \notin T /\ Null \notin Keys
      /\ t.red \subseteq Keys /\ t.root \in Keys \cup {Null}
      /\ t.root # Null => t.root \in T
  BY HoldsTypes, RootIs, Sorts DEF Holds, Linked
<1>2. /\ n \in Trees /\ n.root = (IF p = Null THEN k ELSE t.root) /\ n.red = t.red \cup {k}
      /\ \A v \in Sides : l[v][k] = Null
      /\ p # Null => l[s][p] = k
      /\ \A z \in Keys, v \in Sides : z = k \/ (z = p /\ v = s) \/ l[v][z] = m[v][z]
      /\ n.par[k] = p /\ \A z \in Keys : z = k \/ n.par[z] = t.par[z]
  BY DEF IsHung
<1>3. Good(l, k) /\ Below(l, k) = {k}
  <2>1. "left" \in Sides /\ Other("left") \in Sides
    BY DEF Sides, Other
  <2>2. l["left"][k] = Null /\ l[Other("left")][k] = Null
    BY <1>2, <2>1
  <2>3. Below(l, Null) = {} /\ Good(l, Null)
    BY NothingUnderNull
  <2>4. Below(l, k) = {k} \cup Below(l, l["left"][k]) \cup Below(l, l[Other("left")][k])
    BY <2>1, Unfold
  <2>5. Good(l, k)
    BY <2>1, <2>2, <2>3, GoodBuild
  <2>6. QED
    BY <2>2, <2>3, <2>4, <2>5
<1>4. Good(l, n.root) /\ Tr(n) = T \cup {k}
  <2>1. CASE p = Null
    BY <1>1, <1>2, <1>3, <2>1, RootIs DEF Tr
  <2>2. CASE p # Null
    <3>1. /\ p \in T /\ On(s, k, p) /\ m[s][p] = Null /\ n.root = t.root
          /\ \A y \in T, u \in Sides : p \in Below(m, m[u][y]) => On(u, k, y)
      BY <1>2, <2>2
    <3>2. Below(m, m[s][p]) = {}
      BY <3>1, NothingUnderNull
    <3>3. l[s][p] = k /\ \A y \in T, u \in Sides : (y = p /\ u = s) \/ l[u][y] = m[u][y]
      BY <1>1, <1>2, <2>2
    <3>4. Replaces(m, l, t.root, p, s)
      BY <1>1, <1>3, <3>1, <3>3 DEF Replaces, Tr
    <3>5. Good(l, t.root) /\ Below(l, t.root) = (T \ {}) \cup {k}
      BY <1>3, <3>2, <3>3, <3>4, Replace DEF Tr
    <3>6. QED
      BY <3>1, <3>5 DEF Tr
  <2>3. QED
    BY <2>1, <2>2
<1>5. ASSUME NEW z \in Tr(n), NEW v \in Sides
      PROVE  \/ z = k /\ l[v][z] = Null
             \/ z \in T /\ z # k /\ z = p /\ v = s /\ p # Null /\ l[v][z] = k /\ m[v][z] = Null
             \/ z \in T /\ z # k /\ l[v][z] = m[v][z] /\ m[v][z] # k
                /\ m[v][z] \in Keys \cup {Null}
  <2>1. CASE z = k
    BY <1>2, <2>1
  <2>2. CASE z # k
    <3>1. z \in T /\ z \in Keys
      BY <1>1, <1>4, <2>2
    <3>2. m[v][z] # k /\ m[v][z] \in Keys \cup {Null}
      BY <1>1, <3>1, KidIs
    <3>3. CASE z = p /\ v = s
      BY <1>1, <1>2, <2>2, <3>1, <3>3
    <3>4. CASE ~(z = p /\ v = s)
      BY <1>2, <2>2, <3>1, <3>2, <3>4
    <3>5. QED
      BY <3>3, <3>4
  <2>3. QED
    BY <2>1, <2>2
<1>6. Linked(n)
  <2>1. n.root # Null => n.par[n.root] = Null
    <3>1. CASE p = Null
      BY <1>2, <3>1
    <3>2. CASE p # Null
      BY <1>1, <1>2, <3>2, RootIs
    <3>3. QED
      BY <3>1, <3>2
  <2>2. ASSUME NEW z \in Tr(n), NEW v \in Sides, l[v][z] # Null PROVE n.par[l[v][z]] = z
    <3>1. CASE z = p /\ l[v][z] = k
      BY <1>2, <3>1
    <3>2. CASE z \in T /\ l[v][z] = m[v][z] /\ m[v][z] # k
      BY <1>1, <1>2, <2>2, <3>2, KidIs
    <3>3. QED
      BY <1>5, <2>2, <3>1, <3>2
  <2>3. QED
    BY <1>2, <1>4, <2>1, <2>2 DEF Linked
<1>7. RedRule(n, k, Null)
  <2>1. ASSUME NEW z \in Tr(n) \cap n.red, NEW v \in Sides, l[v][z] \in n.red, l[v][z] # k
        PROVE  FALSE
    <3>1. z \in T /\ z \in t.red /\ m[v][z] \in t.red /\ m[v][z] \in Keys
      BY <1>1, <1>2, <1>5, <2>1
    <3>2. QED
      BY <1>1, <3>1 DEF RedRule
  <2>2. QED
    BY <2>1 DEF RedRule
<1>8. n.root \in n.red => n.root = k
  BY <1>1, <1>2
<1>9. \E j, u : u \in Sides /\ Balanced(n, j, Null, u)
  <2>1. PICK h, u : u \in Sides /\ Balanced(t, h, Null, u)
    BY DEF Holds
  <2> DEFINE j == [h EXCEPT ![k] = 0]
  <2>2. /\ h \in [Keys \cup {Null} -> Nat] /\ h[Null] = 0
        /\ \A z \in T, v \in Sides :
             h[z] = h[m[v][z]] + Count(z = Null /\ v = u) + Count(z \notin t.red)
    BY <2>1 DEF Balanced
  <2>3. /\ j \in [Keys \cup {Null} -> Nat] /\ j[Null] = 0 /\ j[k] = 0
        /\ \A z \in Keys \cup {Null} : z # k => j[z] = h[z]
    BY <1>1, <2>2
  <2> HIDE DEF j
  <2>4. ASSUME NEW z \in Tr(n), NEW v \in Sides
        PROVE  j[z] = j[l[v][z]] + Count(z = Null /\ v = u) + Count(z \notin n.red)
    <3>1. CASE z = k /\ l[v][z] = Null
      <4>1. Count(z = Null /\ v = u) = 0 /\ Count(z \notin n.red) = 0
        BY <1>1, <1>2, <3>1 DEF Count
      <4>2. QED
        BY <2>3, <3>1, <4>1
    <3>2. CASE z \in T /\ z # k
      <4>1. Count(z \notin n.red) = Count(z \notin t.red)
        BY <1>2, <3>2 DEF Count
      <4>2. j[z] = h[z] /\ j[l[v][z]] = h[m[v][z]]
        BY <1>1, <1>5, <2>2, <2>3, <3>2
      <4>3. h[z] = h[m[v][z]] + Count(z = Null /\ v = u) + Count(z \notin t.red)
        BY <2>2, <3>2
      <4>4. QED
        BY <4>1, <4>2, <4>3
    <3>3. QED
      BY <1>5, <3>1, <3>2
  <2>5. Balanced(n, j, Null, u)
    BY <2>3, <2>4 DEF Balanced
  <2>6. QED
    BY <2>1, <2>5
<1>10. k \in Tr(n) /\ k \in n.red
  BY <1>2, <1>4
<1>11. QED
  BY <1>4, <1>6, <1>7, <1>8, <1>9, <1>10 DEF Holds

-----------------------------------------------------------------------------
(* Removal.                                                                *)

LEMMA FreedIs ==
  ASSUME NEW t, t \in Trees, NEW k \in Keys, NEW n, n = Freed(t, k)
  PROVE  /\ n \in Trees /\ n.root = t.root /\ n.red = t.red \ {k}
         /\ \A z \in Keys : z = k \/ n.par[z] = t.par[z]
         /\ \A z \in Keys, v \in Sides : z = k \/ n.kid[v][z] = t.kid[v][z]
<1> DEFINE J == Junk
           t1 == [t EXCEPT !.kid["left"][k] = J]
           t2 == [t1 EXCEPT !.kid["right"][k] = J]
           t3 == [t2 EXCEPT !.par[k] = J]
           t4 == [t3 EXCEPT !.red = t3.red \ {k}]
<1>1. J \in RbNodes /\ "left" \in Sides /\ "right" \in Sides
  BY Fields DEF Sides, RbNodes, Junk
<1>2. n = t4
  BY DEF Freed, Junk
<1> HIDE DEF J
<1>3. WritesKid(t, t1, "left", k, J)
  BY <1>1, Writes
<1> HIDE DEF t1
<1>4. WritesKid(t1, t2, "right", k, J)
  <2>1. t1 \in Trees
    BY <1>3 DEF WritesKid
  <2>2. QED
    BY <1>1, <2>1, Writes
<1> HIDE DEF t2
<1>5. WritesPar(t2, t3, k, J)
  <2>1. t2 \in Trees
    BY <1>4 DEF WritesKid
  <2>2. QED
    BY <1>1, <2>1, Writes
<1> HIDE DEF t3
<1>6. WritesRed(t3, t4, t3.red \ {k})
  <2>1. t3 \in Trees
    BY <1>5 DEF WritesPar
  <2>2. t3.red \ {k} \in SUBSET Keys
    BY <2>1, TreeTypes
  <2>3. QED
    BY <2>1, <2>2, Writes
<1> HIDE DEF t4
<1>7. QED
  BY <1>2, <1>3, <1>4, <1>5, <1>6 DEF WritesKid, WritesPar, WritesRed

\* An element that is out of the tree may be freed.
LEMMA FreedHolds ==
  ASSUME NEW t, NEW c, NEW e, NEW p, Holds(t, c, e, p), NEW k \in Keys, k \notin Tr(t),
         NEW n, n = Freed(t, k)
  PROVE  Holds(n, c, e, p) /\ Tr(n) = Tr(t)
<1>1. /\ Linked(t) /\ t \in Trees /\ Tr(t) \subseteq Keys /\ Good(t.kid, t.root)
      /\ t.root # Null <=> t.root \in Tr(t)
  BY HoldsTypes, RootIs DEF Linked
<1>2. /\ n \in Trees /\ n.root = t.root /\ n.red = t.red \ {k}
      /\ \A z \in Keys : z = k \/ n.par[z] = t.par[z]
      /\ \A z \in Keys, v \in Sides : z = k \/ n.kid[v][z] = t.kid[v][z]
  BY <1>1, FreedIs
<1>3. \A z \in Tr(t) : z # k /\ z \in Keys /\ n.par[z] = t.par[z]
  BY <1>1, <1>2
<1>4. \A z \in Tr(t), v \in Sides : n.kid[v][z] = t.kid[v][z]
  BY <1>1, <1>2
<1>5. Tr(n) = Tr(t) /\ Good(n.kid, n.root)
  BY <1>1, <1>2, <1>4, SameUnder, GoodSame DEF Tr
<1>6. Linked(n)
  <2>1. n.root # Null => n.par[n.root] = Null
    BY <1>1, <1>2, <1>3, RootIs
  <2>2. ASSUME NEW x \in Tr(n), NEW v \in Sides, n.kid[v][x] # Null
        PROVE  n.par[n.kid[v][x]] = x
    BY <1>1, <1>3, <1>4, <1>5, <2>2, KidIs
  <2>3. QED
    BY <1>2, <1>5, <2>1, <2>2 DEF Linked
<1>7. ASSUME NEW h, NEW s, Balanced(t, h, p, s) PROVE Balanced(n, h, p, s)
  <2>1. \A z \in Tr(t) : Count(z \notin n.red) = Count(z \notin t.red)
    BY <1>2, <1>3 DEF Count
  <2>2. QED
    BY <1>4, <1>5, <1>7, <2>1 DEF Balanced
<1>8. ASSUME NEW a, NEW b, RedRule(t, a, b) PROVE RedRule(n, a, b)
  BY <1>2, <1>4, <1>5, <1>8 DEF RedRule
<1>9. \E h, s : s \in Sides /\ Balanced(n, h, p, s) /\ (p # Null => n.kid[s][p] = e)
  <2>1. PICK h, s : s \in Sides /\ Balanced(t, h, p, s) /\ (p # Null => t.kid[s][p] = e)
    BY DEF Holds
  <2>2. p # Null => n.kid[s][p] = e
    <3>1. p # Null => p \in Tr(t)
      <4>1. c = "idle" => p = Null
        BY DEF Holds
      <4>2. c = "insert" => p = Null
        BY DEF Holds
      <4>3. c \in {"idle", "insert", "remove"} /\ (c = "remove" => p = Null \/ p \in Tr(t))
        BY DEF Holds
      <4>4. QED
        BY <4>1, <4>2, <4>3
    <3>2. QED
      BY <1>4, <2>1, <3>1
  <2>3. QED
    BY <1>7, <2>1, <2>2
<1>10. RedRule(n, e, IF c = "remove" THEN e ELSE Null)
  BY <1>8 DEF Holds
<1>11. /\ c = "insert" => e \in n.red
       /\ n.root \in n.red => c # "idle" /\ e = n.root
  BY <1>2, <1>3 DEF Holds
<1>12. QED
  BY <1>2, <1>5, <1>6, <1>9, <1>10, <1>11 DEF Holds

\* n is t with c in the place of y, whose parent is g.
IsUnlinked(t, n, y, c, g) ==
  /\ n \in Trees /\ n.root = (IF g = Null THEN c ELSE t.root) /\ n.red = t.red
  /\ g # Null => n.kid[Side(t, y)][g] = c
  /\ \A z \in Keys, v \in Sides :
       (z = g /\ v = Side(t, y)) \/ n.kid[v][z] = t.kid[v][z]
  /\ c # Null => n.par[c] = g
  /\ \A z \in Keys : z = c \/ n.par[z] = t.par[z]

LEMMA UnlinkIs ==
  ASSUME NEW t, Linked(t), NEW y \in Tr(t), NEW c \in Keys \cup {Null}, c # y,
         NEW g, g = t.par[y], NEW n, n = Unlink(t, y, c)
  PROVE  IsUnlinked(t, n, y, c, g)
<1> DEFINE a == SetParent(t, c, g)
<1>1. /\ t \in Trees /\ y \in Keys /\ Null \notin Keys /\ g \in Keys \cup {Null}
      /\ g \in RbNodes
  BY ParIs, Fields DEF Linked
<1>2. n = Relink(a, y, c)
  BY DEF Unlink
<1>3. /\ c = Null => a = t
      /\ c # Null => WritesPar(t, a, c, g)
  BY <1>1, SetParentIs
<1> HIDE DEF a
<1>4. /\ a \in Trees /\ a.root = t.root /\ a.red = t.red /\ a.kid = t.kid /\ a.par[y] = g
      /\ c # Null => a.par[c] = g
      /\ \A z \in Keys : z = c \/ a.par[z] = t.par[z]
  BY <1>1, <1>3 DEF WritesPar
<1>5. Side(a, y) = Side(t, y)
  BY <1>4 DEF Side
<1>6. CASE g = Null
  <2>1. WritesRoot(a, n, c)
    BY <1>1, <1>2, <1>4, <1>6, RelinkIs
  <2>2. QED
    BY <1>1, <1>4, <1>6, <2>1 DEF WritesRoot, IsUnlinked
<1>7. CASE g # Null
  <2>1. WritesKid(a, n, Side(t, y), g, c)
    BY <1>1, <1>2, <1>4, <1>5, <1>7, RelinkIs
  <2>2. QED
    BY <1>1, <1>4, <1>7, <2>1 DEF WritesKid, IsUnlinked
<1>8. QED
  BY <1>6, <1>7

LEMMA UnlinkLinked ==
  ASSUME NEW t, Linked(t), NEW y \in Tr(t), NEW s \in Sides, t.kid[s][y] = Null,
         NEW c, c = t.kid[Other(s)][y], NEW g, g = t.par[y],
         NEW n, IsUnlinked(t, n, y, c, g)
  PROVE  /\ Linked(n) /\ Tr(n) = Tr(t) \ {y}
         /\ g # Null => g \in Tr(n) /\ n.kid[Side(t, y)][g] = c
         /\ g = Null => n.root = c
         /\ \A z \in Tr(n), v \in Sides :
              \/ /\ z = g /\ v = Side(t, y) /\ t.kid[v][z] = y /\ n.kid[v][z] = c
                 /\ g # Null
              \/ /\ ~(z = g /\ v = Side(t, y)) /\ n.kid[v][z] = t.kid[v][z]
                 /\ t.kid[v][z] # y /\ (c # Null => t.kid[v][z] # c)
<1> DEFINE m == t.kid
           l == n.kid
           T == Tr(t)
           u == Side(t, y)
           o == Other(s)
<1>1. /\ Good(m, t.root) /\ T \subseteq Keys /\ Null \notin T /\ Null \notin Keys
      /\ t.root \in Keys /\ t.root \in T /\ o \in Sides /\ Other(o) = s /\ y \in Keys
  BY RootIs, Sorts, Opposite DEF Linked
<1>2. /\ c \in Keys \cup {Null} /\ c # y
      /\ c # Null => c \in T /\ c # t.root /\ t.par[c] = y
      /\ y \notin Below(m, c)
  <2>1. /\ c \in Keys \cup {Null}
        /\ c # Null => c \in T /\ c # t.root /\ t.par[c] = y /\ c # y /\ y \notin Below(m, c)
    BY <1>1, KidIs
  <2>2. QED
    BY <1>1, <2>1, NothingUnderNull
<1>3. /\ g \in Keys \cup {Null} /\ g # y /\ (g = Null <=> y = t.root)
      /\ (g # Null => g \in T /\ u \in Sides /\ m[u][g] = y /\ g \in Keys)
  BY <1>1, ParIs
<1>4. /\ n \in Trees /\ n.root = (IF g = Null THEN c ELSE t.root) /\ n.red = t.red
      /\ g # Null => l[u][g] = c
      /\ \A z \in Keys, v \in Sides : (z = g /\ v = u) \/ l[v][z] = m[v][z]
      /\ c # Null => n.par[c] = g
      /\ \A z \in Keys : z = c \/ n.par[z] = t.par[z]
  BY DEF IsUnlinked
<1>5. Below(m, y) = {y} \cup Below(m, c) /\ Good(m, c) /\ Below(m, c) \subseteq T
  <2>1. Below(m, y) = {y} \cup Below(m, m[s][y]) \cup Below(m, m[o][y])
    BY <1>1, Unfold
  <2>2. Below(m, m[s][y]) = {}
    BY NothingUnderNull
  <2>3. Good(m, c) /\ Below(m, c) \subseteq T
    BY <1>1, GoodPart, UnderPart DEF Tr
  <2>4. QED
    BY <2>1, <2>2, <2>3
<1>6. Below(l, c) = Below(m, c) /\ Good(l, c)
  <2>1. g \notin Below(m, c)
    <3>1. CASE g = Null
      BY <1>1, <1>5, <3>1
    <3>2. CASE g # Null
      <4>1. g \notin Below(m, y)
        BY <1>1, <1>3, <3>2, KidIs
      <4>2. QED
        BY <1>5, <4>1
    <3>3. QED
      BY <3>1, <3>2
  <2>2. \A z \in Below(m, c), v \in Sides : l[v][z] = m[v][z]
    BY <1>1, <1>4, <1>5, <2>1
  <2>3. QED
    BY <1>5, <2>2, SameUnder, GoodSame
<1>7. Good(l, n.root) /\ Tr(n) = T \ {y}
  <2>1. CASE g = Null
    BY <1>2, <1>3, <1>4, <1>5, <1>6, <2>1 DEF Tr
  <2>2. CASE g # Null
    <3>1. l[u][g] = c /\ m[u][g] = y /\ g \in T /\ u \in Sides /\ n.root = t.root
      BY <1>3, <1>4, <2>2
    <3>2. \A z \in T \ Below(m, y) : \A v \in Sides : (z = g /\ v = u) \/ l[v][z] = m[v][z]
      BY <1>1, <1>4
    <3>3. Replaces(m, l, t.root, g, u)
      BY <1>1, <1>5, <1>6, <3>1, <3>2 DEF Replaces, Tr
    <3>4. Good(l, t.root) /\ Below(l, t.root) = (T \ Below(m, y)) \cup Below(l, c)
      BY <3>1, <3>3, Replace DEF Tr
    <3>5. T \ {y} = (T \ Below(m, y)) \cup Below(l, c)
      BY <1>2, <1>5, <1>6
    <3>6. QED
      BY <3>1, <3>4, <3>5 DEF Tr
  <2>3. QED
    BY <2>1, <2>2
<1>8. ASSUME NEW z \in Tr(n), NEW v \in Sides
      PROVE  \/ /\ z = g /\ v = u /\ m[v][z] = y /\ l[v][z] = c
                /\ g # Null
             \/ /\ ~(z = g /\ v = u) /\ l[v][z] = m[v][z]
                /\ m[v][z] # y /\ (c # Null => m[v][z] # c)
  <2>1. z \in T /\ z # y /\ z \in Keys
    BY <1>1, <1>7
  <2>2. CASE z = g /\ v = u
    BY <1>1, <1>3, <1>4, <2>1, <2>2
  <2>3. CASE ~(z = g /\ v = u)
    <3>1. l[v][z] = m[v][z]
      BY <1>4, <2>1, <2>3
    <3>2. m[v][z] # y
      <4>1. CASE g = Null
        BY <1>1, <1>3, <2>1, <4>1, KidIs
      <4>2. CASE g # Null
        BY <1>1, <1>3, <2>1, <2>3, <4>2, OnePlace
      <4>3. QED
        BY <4>1, <4>2
    <3>3. c # Null => m[v][z] # c
      BY <1>1, <2>1, OnePlace
    <3>4. QED
      BY <2>3, <3>1, <3>2, <3>3
  <2>4. QED
    BY <2>2, <2>3
<1>9. Linked(n)
  <2>1. n.root # Null => n.par[n.root] = Null
    <3>1. CASE g = Null
      BY <1>4, <3>1
    <3>2. CASE g # Null
      BY <1>1, <1>2, <1>4, <3>2, RootIs
    <3>3. QED
      BY <3>1, <3>2
  <2>2. ASSUME NEW z \in Tr(n), NEW v \in Sides, l[v][z] # Null PROVE n.par[l[v][z]] = z
    <3>1. CASE z = g /\ l[v][z] = c
      BY <1>4, <2>2, <3>1
    <3>2. CASE l[v][z] = m[v][z] /\ (c # Null => m[v][z] # c)
      <4>1. z \in T
        BY <1>7
      <4>2. m[v][z] \in Keys /\ t.par[m[v][z]] = z
        BY <2>2, <3>2, <4>1, KidIs
      <4>3. m[v][z] # c
        BY <2>2, <3>2
      <4>4. QED
        BY <1>4, <3>2, <4>2, <4>3
    <3>3. QED
      BY <1>8, <3>1, <3>2
  <2>3. QED
    BY <1>4, <1>7, <2>1, <2>2 DEF Linked
<1>10. QED
  BY <1>3, <1>4, <1>7, <1>8, <1>9

LEMMA UnlinkHolds ==
  ASSUME NEW t, Holds(t, "idle", Null, Null), NEW y \in Tr(t), NEW s \in Sides,
         t.kid[s][y] = Null, NEW c, c = t.kid[Other(s)][y], NEW g, g = t.par[y],
         NEW n, n = Unlink(t, y, c)
  PROVE  /\ Tr(n) = Tr(t) \ {y} /\ n.red = t.red
         /\ y \in t.red => Holds(n, "idle", Null, Null)
         /\ y \notin t.red => Holds(n, "remove", c, g)
<1> DEFINE u == Side(t, y)
           r == y \notin t.red
<1>1. /\ Linked(t) /\ RedRule(t, Null, Null) /\ t.root \notin t.red /\ t.red \subseteq Keys
      /\ Null \notin Keys /\ Null \notin Tr(t) /\ Tr(t) \subseteq Keys /\ y \in Keys
      /\ Other(s) \in Sides /\ Other(Other(s)) = s /\ Other(s) # s
  <2>1. Linked(t) /\ RedRule(t, Null, Null) /\ t.root \notin t.red
    BY DEF Holds
  <2>2. t.red \subseteq Keys
    BY <2>1, TreeTypes DEF Linked
  <2>3. QED
    BY <2>1, <2>2, RootIs, Sorts, Opposite
<1>2. c \in Keys \cup {Null} /\ c # y
  BY <1>1, KidIs
<1>3. IsUnlinked(t, n, y, c, g)
  BY <1>1, <1>2, UnlinkIs, SMTT(60)
<1>4. /\ Linked(n) /\ Tr(n) = Tr(t) \ {y} /\ u \in Sides
      /\ g # Null => g \in Tr(n) /\ n.kid[u][g] = c
      /\ g = Null => n.root = c
      /\ \A z \in Tr(n), v \in Sides :
           \/ z = g /\ v = u /\ t.kid[v][z] = y /\ n.kid[v][z] = c /\ g # Null
           \/ ~(z = g /\ v = u) /\ n.kid[v][z] = t.kid[v][z] /\ t.kid[v][z] # y
  <2>1. u \in Sides
    BY DEF Side, Sides
  <2>2. QED
    BY <1>1, <1>3, <2>1, UnlinkLinked
<1>5. n.red = t.red /\ n.root = IF g = Null THEN c ELSE t.root
  BY <1>3 DEF IsUnlinked
<1>6. /\ g \in Keys \cup {Null} /\ (g = Null <=> y = t.root)
      /\ y \in t.red => g # Null /\ c \notin t.red
  <2>1. g \in Keys \cup {Null} /\ (g = Null <=> y = t.root)
    BY <1>1, ParIs
  <2>2. y \in t.red => c \notin t.red
    BY <1>1, SMTT(60) DEF RedRule
  <2>3. QED
    BY <1>1, <2>1, <2>2
<1>7. ASSUME NEW z \in Tr(n) \cap n.red, NEW v \in Sides, n.kid[v][z] \in n.red
      PROVE  r /\ n.kid[v][z] = c
  <2>1. z \in Tr(t) /\ z \in t.red /\ n.kid[v][z] \in t.red
    BY <1>4, <1>5, <1>7
  <2>2. CASE n.kid[v][z] = c
    BY <1>6, <2>1, <2>2
  <2>3. CASE n.kid[v][z] = t.kid[v][z]
    BY <1>1, <2>1, <2>3 DEF RedRule
  <2>4. QED
    BY <1>4, <2>2, <2>3, SMTT(60)
<1>8. n.root \in n.red => r /\ n.root = c
  BY <1>1, <1>5, <1>6
<1>9. PICK h, w : w \in Sides /\ Balanced(t, h, Null, w)
  BY DEF Holds
<1>10. /\ h \in [Keys \cup {Null} -> Nat] /\ h[Null] = 0
       /\ \A z \in Tr(t), v \in Sides :
            h[z] = h[t.kid[v][z]] + Count(z = Null /\ v = w) + Count(z \notin t.red)
  BY <1>9 DEF Balanced
<1>11. ASSUME NEW z \in Tr(t), NEW v \in Sides
       PROVE  /\ h[z] = h[t.kid[v][z]] + Count(z \notin t.red)
              /\ h[z] \in Nat /\ h[t.kid[v][z]] \in Nat /\ Count(z \notin t.red) \in Nat
  <2>1. z \in Keys /\ t.kid[v][z] \in Keys \cup {Null} /\ z # Null
    BY <1>1, KidIs
  <2>2. Count(z = Null /\ v = w) = 0 /\ Count(z \notin t.red) \in Nat
    BY <2>1 DEF Count
  <2>3. h[z] = h[t.kid[v][z]] + Count(z = Null /\ v = w) + Count(z \notin t.red)
    BY <1>10
  <2>4. h[z] \in Nat /\ h[t.kid[v][z]] \in Nat
    BY <1>10, <2>1
  <2>5. QED
    BY <2>2, <2>3, <2>4
<1>12. /\ h[y] = h[c] + Count(r) /\ h[c] \in Nat /\ Count(r) \in Nat
  BY <1>1, <1>11, SMTT(60)
<1> DEFINE q == IF r THEN g ELSE Null
<1>13. Balanced(n, h, q, u)
  <2>1. ASSUME NEW z \in Tr(n), NEW v \in Sides
        PROVE  h[z] = h[n.kid[v][z]] + Count(z = q /\ v = u) + Count(z \notin n.red)
    <3>1. /\ z \in Tr(t) /\ z # Null
          /\ h[z] = h[t.kid[v][z]] + Count(z \notin t.red)
          /\ h[z] \in Nat /\ h[t.kid[v][z]] \in Nat /\ Count(z \notin t.red) \in Nat
      BY <1>1, <1>4, <1>11
    <3>2. CASE z = g /\ v = u /\ t.kid[v][z] = y /\ n.kid[v][z] = c /\ g # Null
      <4>1. Count(z = q /\ v = u) = Count(r)
        BY <3>1, <3>2 DEF Count
      <4> HIDE DEF q, r, u
      <4>2. QED
        BY <1>5, <1>12, <3>1, <3>2, <4>1
    <3>3. CASE ~(z = g /\ v = u) /\ n.kid[v][z] = t.kid[v][z]
      <4>1. Count(z = q /\ v = u) = 0
        BY <3>1, <3>3, SMTT(60) DEF Count
      <4> HIDE DEF q, r, u
      <4>2. QED
        BY <1>5, <3>1, <3>3, <4>1
    <3>4. QED
      BY <1>4, <3>2, <3>3, ZenonT(60)
  <2>2. QED
    BY <1>10, <2>1, ZenonT(60) DEF Balanced
<1>14. CASE y \in t.red
  <2>1. RedRule(n, Null, Null) /\ n.root \notin n.red
    BY <1>7, <1>8, <1>14 DEF RedRule
  <2>2. Balanced(n, h, Null, u)
    BY <1>13, <1>14, SMTT(60)
  <2>3. Holds(n, "idle", Null, Null)
    BY <1>4, <2>1, <2>2, SMTT(60) DEF Holds
  <2>4. QED
    BY <1>4, <1>5, <1>14, <2>3
<1>15. CASE y \notin t.red
  <2>1. RedRule(n, c, c)
    BY <1>7 DEF RedRule
  <2>2. Balanced(n, h, g, u)
    BY <1>13, <1>15
  <2> HIDE DEF u
  <2>3. /\ "remove" \in {"idle", "insert", "remove"}
        /\ (g = Null /\ c = n.root) \/ g \in Tr(n)
        /\ n.root \in n.red => c = n.root
    BY <1>4, <1>8, SMTT(60)
  <2>4. Holds(n, "remove", c, g)
    BY <1>2, <1>4, <1>6, <2>1, <2>2, <2>3, ZenonT(60) DEF Holds
  <2>5. QED
    BY <1>4, <1>5, <1>15, <2>4
<1>16. QED
  BY <1>14, <1>15

\* n is t with y in the place of k.
IsTaken(t, n, y, k) ==
  /\ n \in Trees /\ n.root = (IF t.par[k] = Null THEN y ELSE t.root)
  /\ n.red = IF k \in t.red THEN t.red \cup {y} ELSE t.red \ {y}
  /\ \A v \in Sides : n.kid[v][y] = t.kid[v][k]
  /\ t.par[k] # Null => n.kid[Side(t, k)][t.par[k]] = y
  /\ \A z \in Keys, v \in Sides :
       z = y \/ (z = t.par[k] /\ v = Side(t, k)) \/ n.kid[v][z] = t.kid[v][z]
  /\ n.par[y] = t.par[k]
  /\ \A v \in Sides : t.kid[v][k] # Null => n.par[t.kid[v][k]] = y
  /\ \A z \in Keys : z = y \/ (\E v \in Sides : z = t.kid[v][k]) \/ n.par[z] = t.par[z]

LEMMA TakenIs ==
  ASSUME NEW t, Linked(t), NEW k \in Tr(t), NEW y \in Keys, y \notin Tr(t),
         NEW n, n = TakePlace(t, y, k)
  PROVE  IsTaken(t, n, y, k)
<1> DEFINE g == t.par[k]
           L == t.kid["left"][k]
           R == t.kid["right"][k]
           Q == IF k \in t.red THEN t.red \cup {y} ELSE t.red \ {y}
           a1 == [t EXCEPT !.par[y] = g]
           a2 == [a1 EXCEPT !.kid["left"][y] = L]
           a3 == [a2 EXCEPT !.kid["right"][y] = R]
           a4 == [a3 EXCEPT !.red = Q]
           b1 == Relink(a4, k, y)
           b2 == SetParent(b1, L, y)
           b3 == SetParent(b2, R, y)
           u == Side(t, k)
<1>1. /\ t \in Trees /\ Tr(t) \subseteq Keys /\ k \in Keys /\ Null \notin Keys /\ k # y
      /\ "left" \in Sides /\ "right" \in Sides /\ Other("left") = "right"
      /\ \A v \in Sides : v = "left" \/ v = "right"
      /\ Keys \cup {Null} \subseteq RbNodes /\ Q \in SUBSET Keys
  <2>1. t.red \subseteq Keys
    BY TreeTypes DEF Linked
  <2>2. Tr(t) \subseteq Keys /\ k \in Keys /\ k # y /\ t \in Trees /\ Null \notin Keys
    BY RootIs, Sorts DEF Linked
  <2>3. Q \in SUBSET Keys
    BY <2>1
  <2>4. QED
    BY <2>2, <2>3, Fields DEF Sides, Other
<1>2. /\ L \in Keys \cup {Null} /\ R \in Keys \cup {Null} /\ L # k /\ R # k /\ L # y /\ R # y
      /\ L # Null => L # R
  <2>1. /\ L \in Keys \cup {Null}
        /\ L # Null => L \in Tr(t) /\ L # k /\ L # R
    BY <1>1, KidIs
  <2>2. /\ R \in Keys \cup {Null}
        /\ R # Null => R \in Tr(t) /\ R # k
    BY <1>1, KidIs
  <2>3. QED
    BY <1>1, <2>1, <2>2
<1>3. g \in Keys \cup {Null} /\ g # k /\ g # y /\ u \in Sides
  <2>1. g \in Keys \cup {Null} /\ g # k /\ g # y
    BY <1>1, ParIs
  <2>2. QED
    BY <1>1, <2>1 DEF Side
<1> HIDE DEF Q
<1>4. WritesPar(t, a1, y, g)
  BY <1>1, <1>3, Writes
<1> HIDE DEF a1
<1>5. WritesKid(a1, a2, "left", y, L)
  <2>1. a1 \in Trees
    BY <1>4 DEF WritesPar
  <2>2. QED
    BY <1>1, <1>2, <2>1, Writes
<1> HIDE DEF a2
<1>6. WritesKid(a2, a3, "right", y, R)
  <2>1. a2 \in Trees
    BY <1>5 DEF WritesKid
  <2>2. QED
    BY <1>1, <1>2, <2>1, Writes
<1> HIDE DEF a3
<1>7. WritesRed(a3, a4, Q)
  <2>1. a3 \in Trees
    BY <1>6, SMTT(60) DEF WritesKid
  <2>2. QED
    BY <1>1, <2>1, Writes
<1>8. n = SetParent(SetParent(b1, b1.kid["left"][k], y), b1.kid["right"][k], y)
  <2>1. a4 = [t EXCEPT !.par[y] = t.par[k], !.kid["left"][y] = t.kid["left"][k],
                       !.kid["right"][y] = t.kid["right"][k],
                       !.red = IF k \in t.red THEN @ \cup {y} ELSE @ \ {y}]
    BY DEF a1, a2, a3, Q
  <2> HIDE DEF a4
  <2>2. QED
    BY <2>1 DEF TakePlace
<1> HIDE DEF a4
<1>9. /\ a4 \in Trees /\ a4.root = t.root /\ a4.red = Q
      /\ a4.kid["left"][y] = L /\ a4.kid["right"][y] = R /\ a4.par[y] = g
      /\ \A z \in Keys, v \in Sides : z = y \/ a4.kid[v][z] = t.kid[v][z]
      /\ \A z \in Keys : z = y \/ a4.par[z] = t.par[z]
  <2>1. /\ a4 \in Trees /\ a4.root = t.root /\ a4.red = Q /\ a4.kid = a3.kid /\ a4.par = a1.par
        /\ a1.kid = t.kid
    BY <1>4, <1>5, <1>6, <1>7 DEF WritesPar, WritesKid, WritesRed
  <2>2. a4.par[y] = g /\ \A z \in Keys : z = y \/ a4.par[z] = t.par[z]
    BY <1>4, <2>1 DEF WritesPar
  <2>3. \A z \in Keys, v \in Sides : z = y \/ a3.kid[v][z] = t.kid[v][z]
    BY <1>5, <1>6, <2>1 DEF WritesKid
  <2>4. a3.kid["left"][y] = L /\ a3.kid["right"][y] = R
    BY <1>1, <1>5, <1>6 DEF WritesKid
  <2>5. QED
    BY <2>1, <2>2, <2>3, <2>4
<1>10. a4.par[k] = g /\ (g # Null => Side(a4, k) = u)
  <2>1. a4.par[k] = g
    BY <1>1, <1>9
  <2>2. g # Null => a4.kid["left"][g] = t.kid["left"][g]
    BY <1>1, <1>3, <1>9
  <2>3. QED
    BY <2>1, <2>2 DEF Side
<1> HIDE DEF b1, u
<1>11. /\ g = Null => WritesRoot(a4, b1, y)
       /\ g # Null => WritesKid(a4, b1, u, g, y)
  BY <1>1, <1>3, <1>9, <1>10, RelinkIs DEF b1
<1> HIDE DEF g, L, R
<1>12. /\ b1 \in Trees /\ b1.root = (IF g = Null THEN y ELSE t.root) /\ b1.red = Q
       /\ b1.par = a4.par
       /\ g # Null => b1.kid[u][g] = y
       /\ \A z \in Keys, v \in Sides : (z = g /\ v = u) \/ b1.kid[v][z] = a4.kid[v][z]
  BY <1>1, <1>9, <1>11 DEF WritesRoot, WritesKid
<1>13. b1.kid["left"][k] = L /\ b1.kid["right"][k] = R
  BY <1>1, <1>3, <1>9, <1>12 DEF L, R
<1> HIDE DEF b2
<1>14. n = b3
  BY <1>8, <1>13 DEF b2
<1>15. /\ L = Null => b2 = b1
       /\ L # Null => WritesPar(b1, b2, L, y)
  BY <1>1, <1>2, <1>12, SetParentIs DEF b2
<1>16. /\ b2 \in Trees /\ b2.root = b1.root /\ b2.red = b1.red /\ b2.kid = b1.kid
       /\ L # Null => b2.par[L] = y
       /\ \A z \in Keys : z = L \/ b2.par[z] = b1.par[z]
  BY <1>12, <1>15 DEF WritesPar
<1>17. /\ R = Null => b3 = b2
       /\ R # Null => WritesPar(b2, b3, R, y)
  BY <1>1, <1>2, <1>16, SetParentIs
<1> HIDE DEF b3
<1>18. /\ b3 \in Trees /\ b3.root = b1.root /\ b3.red = b1.red /\ b3.kid = b1.kid
       /\ R # Null => b3.par[R] = y
       /\ \A z \in Keys : z = R \/ b3.par[z] = b2.par[z]
  BY <1>16, <1>17 DEF WritesPar
<1>19. \A v \in Sides : n.kid[v][y] = t.kid[v][k]
  BY <1>1, <1>3, <1>9, <1>12, <1>14, <1>18 DEF L, R
<1>20. /\ n.par[y] = g
       /\ L # Null => n.par[L] = y
       /\ R # Null => n.par[R] = y
       /\ \A z \in Keys : z = y \/ z = L \/ z = R \/ n.par[z] = t.par[z]
  BY <1>2, <1>9, <1>12, <1>14, <1>16, <1>18
<1>21. \A z \in Keys, v \in Sides :
         z = y \/ (z = g /\ v = u) \/ n.kid[v][z] = t.kid[v][z]
  BY <1>9, <1>12, <1>14, <1>18
<1>22. /\ \A v \in Sides : t.kid[v][k] # Null => n.par[t.kid[v][k]] = y
       /\ \A z \in Keys : z = y \/ (\E v \in Sides : z = t.kid[v][k]) \/ n.par[z] = t.par[z]
  BY <1>1, <1>20 DEF L, R
<1>23. /\ n \in Trees /\ n.root = (IF g = Null THEN y ELSE t.root) /\ n.red = Q
       /\ g # Null => n.kid[u][g] = y
  BY <1>12, <1>14, <1>18
<1>24. QED
  BY <1>19, <1>20, <1>21, <1>22, <1>23 DEF IsTaken, g, u, Q

LEMMA TakenLinked ==
  ASSUME NEW t, Linked(t), NEW k \in Tr(t), NEW y \in Keys, y \notin Tr(t),
         On("left", k, y), \A x \in Tr(t) : ~(On("left", k, x) /\ On("left", x, y)),
         NEW n, IsTaken(t, n, y, k)
  PROVE  /\ Linked(n) /\ Tr(n) = (Tr(t) \ {k}) \cup {y}
         /\ \A v \in Sides : t.kid[v][k] # k /\ t.kid[v][k] # y
         /\ \A z \in Tr(n), v \in Sides :
              \/ z = y /\ n.kid[v][z] = t.kid[v][k]
              \/ z # y /\ z \in Tr(t) /\ z # k /\ t.kid[v][z] = k /\ n.kid[v][z] = y
              \/ z # y /\ z \in Tr(t) /\ z # k /\ n.kid[v][z] = t.kid[v][z]
                 /\ t.kid[v][z] # k /\ t.kid[v][z] # y
<1> DEFINE m == t.kid
           l == n.kid
           T == Tr(t)
           g == t.par[k]
           u == Side(t, k)
<1>1. /\ Good(m, t.root) /\ T \subseteq Keys /\ Null \notin T /\ Null \notin Keys
      /\ t.root \in Keys /\ t.root \in T /\ k \in Keys /\ k # y
      /\ "left" \in Sides /\ "right" \in Sides /\ Other("left") = "right"
      /\ \A v \in Sides : v = "left" \/ v = "right"
  BY RootIs, Sorts DEF Linked, Sides, Other
<1>2. /\ g \in Keys \cup {Null} /\ g # k /\ g # y /\ (g = Null <=> k = t.root)
      /\ (g # Null => g \in T /\ u \in Sides /\ m[u][g] = k /\ g \in Keys)
  BY <1>1, ParIs
<1>3. /\ n \in Trees /\ n.root = (IF g = Null THEN y ELSE t.root)
      /\ \A v \in Sides : l[v][y] = m[v][k]
      /\ g # Null => l[u][g] = y
      /\ \A z \in Keys, v \in Sides : z = y \/ (z = g /\ v = u) \/ l[v][z] = m[v][z]
      /\ n.par[y] = g
      /\ \A v \in Sides : m[v][k] # Null => n.par[m[v][k]] = y
      /\ \A z \in Keys : z = y \/ (\E v \in Sides : z = m[v][k]) \/ n.par[z] = t.par[z]
  BY DEF IsTaken
<1>4. ASSUME NEW z \in T, NEW v \in Sides
      PROVE  /\ z \in Keys /\ z # y /\ m[v][z] \in Keys \cup {Null} /\ m[v][z] # z /\ m[v][z] # y
             /\ m[v][z] # Null => m[v][z] \in T /\ t.par[m[v][z]] = z /\ m[v][z] # t.root
  <2>1. /\ z \in Keys /\ m[v][z] \in Keys \cup {Null}
        /\ m[v][z] # Null => m[v][z] \in T /\ t.par[m[v][z]] = z /\ m[v][z] # t.root /\ m[v][z] # z
    BY KidIs
  <2>2. m[v][z] # y /\ m[v][z] # z
    BY <1>1, <2>1
  <2>3. z # y
    BY <1>4
  <2>4. QED
    BY <2>1, <2>2, <2>3
<1>5. Good(m, k) /\ k \in Below(m, k)
  BY <1>1, GoodPart, UnderIs DEF Tr
<1>6. ASSUME NEW v \in Sides
      PROVE  /\ Below(l, m[v][k]) = Below(m, m[v][k]) /\ Good(l, m[v][k])
             /\ \A z \in Below(m, m[v][k]) : z \in T /\ z # k /\ On(v, z, k)
             /\ Below(m, m[v][k]) \subseteq Below(m, k)
  <2>1. /\ Good(m, m[v][k]) /\ Below(m, m[v][k]) \subseteq Below(m, k) /\ Below(m, k) \subseteq T
        /\ \A z \in Below(m, m[v][k]) : On(v, z, k) /\ z # k
    BY <1>1, <1>5, GoodRoot, UnderPart DEF Tr
  <2>2. g \notin Below(m, m[v][k])
    <3>1. CASE g = Null
      BY <1>1, <2>1, <3>1
    <3>2. CASE g # Null
      <4>1. g \notin Below(m, k)
        BY <1>1, <1>2, <3>2, KidIs
      <4>2. QED
        BY <2>1, <4>1
    <3>3. QED
      BY <3>1, <3>2
  <2>3. \A z \in Below(m, m[v][k]), w \in Sides : l[w][z] = m[w][z]
    BY <1>1, <1>3, <2>1, <2>2
  <2>4. QED
    BY <2>1, <2>3, SameUnder, GoodSame
<1>7. ASSUME NEW x \in T, NEW v \in Sides, On(v, k, x) PROVE On(v, y, x)
  <2>1. x \in Values /\ y \in Values /\ k \in Values /\ x # y
    BY <1>1, Sorts
  <2>2. CASE v = "left"
    BY <1>1, <1>7, <2>1, <2>2, Order
  <2>3. CASE v = "right"
    <3>1. On("left", x, k)
      BY <1>1, <1>7, <2>1, <2>3, Order
    <3>2. On("left", x, y)
      BY <1>1, <2>1, <3>1, Order
    <3>3. QED
      BY <1>1, <2>1, <2>3, <3>2, Order
  <2>4. QED
    BY <1>1, <2>2, <2>3
<1>8. Good(l, y) /\ Below(l, y) = (Below(m, k) \ {k}) \cup {y}
  <2>1. \A z \in Below(m, m["left"][k]) : On("left", z, y)
    <3>1. ASSUME NEW z \in Below(m, m["left"][k]) PROVE On("left", z, y)
      <4>1. z \in Values /\ k \in Values /\ y \in Values /\ On("left", z, k)
        BY <1>1, <1>6, Sorts
      <4>2. QED
        BY <1>1, <4>1, Order
    <3>2. QED
      BY <3>1
  <2>2. \A z \in Below(m, m["right"][k]) : On("right", z, y)
    <3>1. ASSUME NEW z \in Below(m, m["right"][k]) PROVE On("right", z, y)
      <4>1. z \in T /\ z \in Values /\ k \in Values /\ y \in Values /\ On("right", z, k) /\ z # y
        BY <1>1, <1>6, Sorts
      <4>2. On("left", k, z)
        BY <1>1, <4>1, Order
      <4>3. ~On("left", z, y)
        BY <4>1, <4>2
      <4>4. QED
        BY <1>1, <4>1, <4>3, Order
    <3>2. QED
      BY <3>1
  <2>3. Good(l, y)
    <3>1. l["left"][y] = m["left"][k] /\ l[Other("left")][y] = m["right"][k]
      BY <1>1, <1>3
    <3>2. Good(l, l["left"][y]) /\ Good(l, l[Other("left")][y])
      BY <1>1, <1>6, <3>1
    <3>3. /\ \A z \in Below(l, l["left"][y]) : On("left", z, y)
          /\ \A z \in Below(l, l[Other("left")][y]) : On(Other("left"), z, y)
      BY <1>1, <1>6, <2>1, <2>2, <3>1
    <3>4. QED
      BY <1>1, <3>2, <3>3, GoodBuild
  <2>4. Below(l, y) = {y} \cup Below(l, l["left"][y]) \cup Below(l, l[Other("left")][y])
    BY <1>1, Unfold
  <2>5. Below(m, k) = {k} \cup Below(m, m["left"][k]) \cup Below(m, m[Other("left")][k])
    BY <1>1, Unfold
  <2>6. /\ Below(l, l["left"][y]) = Below(m, m["left"][k]) /\ k \notin Below(m, m["left"][k])
        /\ Below(l, l[Other("left")][y]) = Below(m, m["right"][k]) /\ k \notin Below(m, m["right"][k])
    BY <1>1, <1>3, <1>6
  <2>7. QED
    BY <1>1, <2>3, <2>4, <2>5, <2>6
<1>9. Good(l, n.root) /\ Tr(n) = (T \ {k}) \cup {y}
  <2>1. CASE g = Null
    BY <1>2, <1>3, <1>8, <2>1 DEF Tr
  <2>2. CASE g # Null
    <3>1. l[u][g] = y /\ m[u][g] = k /\ g \in T /\ u \in Sides /\ n.root = t.root
      BY <1>2, <1>3, <2>2
    <3>2. \A x \in T \ Below(m, k) : \A v \in Sides : (x = g /\ v = u) \/ l[v][x] = m[v][x]
      BY <1>1, <1>3
    <3>3. ASSUME NEW x \in T, NEW v \in Sides, k \in Below(m, m[v][x]) PROVE On(v, y, x)
      <4>1. Good(m, x) /\ x \in Keys
        BY <1>1, GoodPart DEF Tr
      <4>2. On(v, k, x)
        BY <3>3, <4>1, GoodRoot
      <4>3. QED
        BY <1>7, <4>2
    <3>4. On(u, y, g)
      BY <1>5, <3>1, <3>3
    <3>5. ASSUME NEW x \in T, NEW v \in Sides, g \in Below(m, m[v][x]) PROVE On(v, y, x)
      <4>1. Below(m, m[u][g]) \subseteq Below(m, m[v][x])
        BY <3>1, <3>5, UnderPart
      <4>2. QED
        BY <1>5, <3>1, <3>3, <4>1
    <3>6. \A z \in Below(l, y) : z \in Below(m, k) \/ z = y
      BY <1>8
    <3>7. Replaces(m, l, t.root, g, u)
      BY <1>1, <1>8, <3>1, <3>2, <3>4, <3>5, <3>6 DEF Replaces, Tr
    <3>8. Good(l, t.root) /\ Below(l, t.root) = (T \ Below(m, k)) \cup Below(l, y)
      BY <3>1, <3>7, Replace DEF Tr
    <3>9. Below(m, k) \subseteq T /\ k \in Below(m, k)
      BY <1>5, UnderPart DEF Tr
    <3>10. QED
      BY <1>8, <3>1, <3>8, <3>9 DEF Tr
  <2>3. QED
    BY <2>1, <2>2
<1>10. ASSUME NEW z \in Tr(n), NEW v \in Sides
       PROVE  \/ z = y /\ l[v][z] = m[v][k]
              \/ z # y /\ z \in T /\ z # k /\ m[v][z] = k /\ l[v][z] = y /\ z = g
              \/ z # y /\ z \in T /\ z # k /\ l[v][z] = m[v][z] /\ m[v][z] # k /\ m[v][z] # y
  <2>1. CASE z = y
    BY <1>3, <2>1
  <2>2. CASE z # y
    <3>1. z \in T /\ z # k /\ z \in Keys /\ m[v][z] # y
      BY <1>1, <1>4, <1>9, <2>2
    <3>2. CASE z = g /\ v = u
      BY <1>1, <1>2, <1>3, <2>2, <3>1, <3>2
    <3>3. CASE ~(z = g /\ v = u)
      <4>1. l[v][z] = m[v][z]
        BY <1>3, <2>2, <3>1, <3>3
      <4>2. m[v][z] # k
        <5>1. ASSUME m[v][z] = k PROVE FALSE
          <6>1. k # Null /\ k # t.root
            BY <1>1, <1>4, <3>1, <5>1
          <6>2. g # Null /\ g \in Tr(t) /\ u \in Sides /\ t.kid[v][z] = t.kid[u][g]
                /\ z \in Tr(t) /\ t.kid[v][z] # Null
            BY <1>2, <3>1, <5>1, <6>1
          <6> HIDE DEF g, u, T
          <6>3. z = g /\ v = u
            BY <6>2, OnePlace
          <6>4. QED
            BY <3>3, <6>3
        <5>2. QED
          BY <5>1
      <4>3. QED
        BY <2>2, <3>1, <4>1, <4>2
    <3>4. QED
      BY <3>2, <3>3
  <2>3. QED
    BY <2>1, <2>2
<1>11. Linked(n)
  <2>1. n.root # Null => n.par[n.root] = Null
    <3>1. CASE g = Null
      BY <1>3, <3>1
    <3>2. CASE g # Null
      <4>1. n.root = t.root /\ t.root # y /\ t.par[t.root] = Null
        BY <1>1, <1>3, <3>2, RootIs
      <4>2. \A v \in Sides : t.root # m[v][k]
        BY <1>1, <1>4
      <4>3. QED
        BY <1>1, <1>3, <4>1, <4>2
    <3>3. QED
      BY <3>1, <3>2
  <2>2. ASSUME NEW z \in Tr(n), NEW v \in Sides, l[v][z] # Null PROVE n.par[l[v][z]] = z
    <3>1. CASE z = y /\ l[v][z] = m[v][k]
      BY <1>3, <2>2, <3>1
    <3>2. CASE z = g /\ l[v][z] = y
      BY <1>3, <3>2
    <3>3. CASE z # k /\ z \in T /\ l[v][z] = m[v][z]
      <4>1. m[v][z] \in Keys /\ t.par[m[v][z]] = z /\ m[v][z] # y
        BY <1>4, <2>2, <3>3
      <4>2. \A w \in Sides : m[v][z] # m[w][k]
        BY <1>4, <2>2, <3>3, OnePlace
      <4>3. QED
        BY <1>3, <3>3, <4>1, <4>2
    <3>4. QED
      BY <1>10, <3>1, <3>2, <3>3
  <2>3. QED
    BY <1>3, <1>9, <2>1, <2>2 DEF Linked
<1>12. QED
  BY <1>4, <1>9, <1>10, <1>11

LEMMA TakenHolds ==
  ASSUME NEW t, NEW c, NEW e, NEW p, Holds(t, c, e, p), c # "insert",
         NEW k \in Tr(t), e # k, NEW y \in Keys, y \notin Tr(t),
         On("left", k, y), \A x \in Tr(t) : ~(On("left", k, x) /\ On("left", x, y)),
         NEW n, n = TakePlace(t, y, k),
         NEW q, q = IF p = k THEN y ELSE p
  PROVE  Holds(n, c, e, q) /\ Tr(n) = (Tr(t) \ {k}) \cup {y}
<1> DEFINE b == IF c = "remove" THEN e ELSE Null
<1>1. Linked(t)
  BY DEF Holds
<1>2. /\ Null \notin Keys /\ Tr(t) \subseteq Keys /\ Null \notin Tr(t) /\ t.red \subseteq Keys
      /\ t.root \in Tr(t) /\ k \in Keys /\ k # y
  BY <1>1, RootIs, Sorts, TreeTypes DEF Linked
<1>3. /\ c \in {"idle", "remove"} /\ e \in Keys \cup {Null}
      /\ p \in Tr(t) \cup {Null}
      /\ c = "idle" => e = Null /\ p = Null
      /\ c = "remove" => (p = Null /\ e = t.root) \/ p \in Tr(t)
      /\ RedRule(t, e, b) /\ b # k
      /\ t.root \in t.red => c # "idle" /\ e = t.root
  BY <1>2 DEF Holds
<1>4. PICK h, w : /\ w \in Sides /\ Balanced(t, h, p, w)
                  /\ p # Null => t.kid[w][p] = e
  BY DEF Holds
<1> HIDE DEF b
<1>5. IsTaken(t, n, y, k)
  BY <1>1, TakenIs
<1>6. /\ Linked(n) /\ Tr(n) = (Tr(t) \ {k}) \cup {y}
      /\ \A v \in Sides : t.kid[v][k] # k /\ t.kid[v][k] # y
      /\ \A z \in Tr(n), v \in Sides :
           \/ z = y /\ n.kid[v][z] = t.kid[v][k]
           \/ z # y /\ z \in Tr(t) /\ z # k /\ t.kid[v][z] = k /\ n.kid[v][z] = y
           \/ z # y /\ z \in Tr(t) /\ z # k /\ n.kid[v][z] = t.kid[v][z]
              /\ t.kid[v][z] # k /\ t.kid[v][z] # y
  BY <1>1, <1>5, TakenLinked
<1>7. /\ y \in n.red <=> k \in t.red
      /\ \A z : z # y => (z \in n.red <=> z \in t.red)
      /\ n.root = IF t.par[k] = Null THEN y ELSE t.root
  BY <1>5 DEF IsTaken
<1>8. t.par[k] = Null <=> k = t.root
  BY <1>1, ParIs
<1>9. RedRule(n, e, b)
  <2>1. ASSUME NEW z \in Tr(n) \cap n.red, NEW v \in Sides, n.kid[v][z] \in n.red
        PROVE  n.kid[v][z] = e \/ z = b
    <3>1. CASE z = y /\ n.kid[v][z] = t.kid[v][k]
      <4>1. k \in Tr(t) \cap t.red /\ t.kid[v][k] \in t.red
        BY <1>6, <1>7, <2>1, <3>1
      <4>2. QED
        BY <1>3, <3>1, <4>1 DEF RedRule
    <3>2. CASE z # y /\ z \in Tr(t) /\ t.kid[v][z] = k /\ n.kid[v][z] = y
      <4>1. z \in Tr(t) \cap t.red /\ t.kid[v][z] \in t.red /\ t.kid[v][z] # e
        BY <1>7, <2>1, <3>2
      <4>2. QED
        BY <1>3, <4>1 DEF RedRule
    <3>3. CASE z # y /\ z \in Tr(t) /\ n.kid[v][z] = t.kid[v][z] /\ t.kid[v][z] # y
      <4>1. z \in Tr(t) \cap t.red /\ t.kid[v][z] \in t.red
        BY <1>7, <2>1, <3>3
      <4>2. QED
        BY <1>3, <3>3, <4>1 DEF RedRule
    <3>4. QED
      BY <1>6, <3>1, <3>2, <3>3
  <2>2. QED
    BY <2>1 DEF RedRule
<1>10. n.root \in n.red => c # "idle" /\ e = n.root
  <2>1. CASE k = t.root
    BY <1>3, <1>7, <1>8, <2>1
  <2>2. CASE k # t.root
    BY <1>2, <1>3, <1>7, <1>8, <2>2
  <2>3. QED
    BY <2>1, <2>2
<1>11. /\ q \in Keys \cup {Null}
       /\ c = "idle" => q = Null
       /\ c = "remove" => (q = Null /\ e = n.root) \/ q \in Tr(n)
  <2>1. q \in Keys \cup {Null} /\ (c = "idle" => q = Null)
    BY <1>2, <1>3
  <2>2. p \in Tr(t) => q \in Tr(n)
    BY <1>6
  <2>3. p = Null /\ e = t.root => q = Null /\ e = n.root
    BY <1>2, <1>7, <1>8
  <2>4. QED
    BY <1>3, <2>1, <2>2, <2>3
<1>12. q # Null => n.kid[w][q] = e
  <2>1. CASE p = k
    BY <1>2, <1>4, <1>5, <2>1 DEF IsTaken
  <2>2. CASE p # k
    <3>1. ASSUME p # Null PROVE n.kid[w][p] = e
      <4>1. p \in Tr(n) /\ p # y /\ t.kid[w][p] = e
        BY <1>3, <1>4, <1>6, <2>2, <3>1
      <4>2. QED
        BY <1>4, <1>6, <4>1
    <3>2. QED
      BY <2>2, <3>1
  <2>3. QED
    BY <2>1, <2>2
<1> DEFINE j == [h EXCEPT ![y] = h[k]]
<1>13. /\ h \in [Keys \cup {Null} -> Nat] /\ h[Null] = 0
       /\ \A z \in Tr(t), v \in Sides :
            h[z] = h[t.kid[v][z]] + Count(z = p /\ v = w) + Count(z \notin t.red)
  BY <1>4 DEF Balanced
<1>14. /\ j \in [Keys \cup {Null} -> Nat] /\ j[Null] = 0 /\ j[y] = h[k]
       /\ \A z \in Keys \cup {Null} : z # y => j[z] = h[z]
  BY <1>2, <1>13
<1> HIDE DEF j
<1>15. \A z \in Tr(t), v \in Sides : t.kid[v][z] \in Keys \cup {Null}
  BY <1>1, KidIs
<1>16. ASSUME NEW z \in Tr(n), NEW v \in Sides
       PROVE  j[z] = j[n.kid[v][z]] + Count(z = q /\ v = w) + Count(z \notin n.red)
  <2>1. CASE z = y /\ n.kid[v][z] = t.kid[v][k]
    <3>1. y = q <=> k = p
      BY <1>2, <1>3
    <3>2. Count(z = q /\ v = w) = Count(k = p /\ v = w) /\ Count(z \notin n.red) = Count(k \notin t.red)
      BY <1>7, <2>1, <3>1 DEF Count
    <3>3. j[z] = h[k] /\ j[n.kid[v][z]] = h[t.kid[v][k]]
      BY <1>6, <1>14, <1>15, <2>1
    <3>4. h[k] = h[t.kid[v][k]] + Count(k = p /\ v = w) + Count(k \notin t.red)
      BY <1>13
    <3>5. QED
      BY <3>2, <3>3, <3>4
  <2>2. CASE z # y /\ z \in Tr(t) /\ z # k
    <3>1. z = q <=> z = p
      BY <2>2
    <3>2. Count(z = q /\ v = w) = Count(z = p /\ v = w) /\ Count(z \notin n.red) = Count(z \notin t.red)
      BY <1>7, <2>2, <3>1 DEF Count
    <3>3. j[z] = h[z] /\ j[n.kid[v][z]] = h[t.kid[v][z]]
      BY <1>2, <1>6, <1>14, <1>15, <2>2
    <3>4. h[z] = h[t.kid[v][z]] + Count(z = p /\ v = w) + Count(z \notin t.red)
      BY <1>13, <2>2
    <3>5. QED
      BY <3>2, <3>3, <3>4
  <2>3. QED
    BY <1>6, <2>1, <2>2
<1>17. Balanced(n, j, q, w)
  BY <1>14, <1>16 DEF Balanced
<1>18. Holds(n, c, e, q)
  <2>1. \E h1, s1 : /\ s1 \in Sides /\ Balanced(n, h1, q, s1)
                    /\ q # Null => n.kid[s1][q] = e
    BY <1>4, <1>12, <1>17
  <2> HIDE DEF b
  <2>2. RedRule(n, e, IF c = "remove" THEN e ELSE Null)
    BY <1>9 DEF b
  <2>3. QED
    BY <1>3, <1>6, <1>10, <1>11, <2>1, <2>2 DEF Holds
<1>19. QED
  BY <1>6, <1>18

-----------------------------------------------------------------------------
(* The next element.                                                       *)

\* Two elements are one below the other, or on different sides of a third.
LEMMA Meet ==
  ASSUME NEW m, NEW r, Good(m, r), NEW x \in Below(m, r), NEW y \in Below(m, r)
  PROVE  \/ x \in Below(m, y)
         \/ y \in Below(m, x)
         \/ \E z \in Below(m, r), s \in Sides : x \in Below(m, m[s][z]) /\ y \in Below(m, m[Other(s)][z])
<1> DEFINE W == {z \in Below(m, r) : x \in Below(m, z) /\ y \in Below(m, z)}
           rank == Size(m)
<1>1. r \in Keys /\ Below(m, r) \subseteq Keys /\ "left" \in Sides
  BY UnderNothing, UnderKeys DEF Sides
<1>2. W # {}
  BY <1>1, UnderIs
<1>3. \A z \in W : rank[z] \in Nat
  <2>1. ASSUME NEW z \in W PROVE rank[z] \in Nat
    <3>1. Size(m)[z] \in 0..N
      BY <1>1, SizeIs
    <3>2. QED
      BY <3>1
  <2>2. QED
    BY <2>1
<1>4. PICK z \in W : \A v \in W : ~(rank[v] < rank[z])
  <2> HIDE DEF W, rank
  <2>1. QED
    BY <1>2, <1>3, Lowest
<1>5. z \in Below(m, r) /\ z \in Keys /\ x \in Below(m, z) /\ y \in Below(m, z)
  BY <1>1, <1>4
<1>6. ASSUME NEW s \in Sides, x \in Below(m, m[s][z]), y \in Below(m, m[s][z]) PROVE FALSE
  <2>1. m[s][z] \in Keys
    BY <1>6, UnderNothing
  <2>2. m[s][z] \in W /\ rank[m[s][z]] < rank[z]
    BY <1>5, <1>6, <2>1, SizeIs
  <2>3. QED
    BY <1>4, <2>2
<1>7. Below(m, z) = {z} \cup Below(m, m["left"][z]) \cup Below(m, m[Other("left")][z])
  BY <1>1, <1>5, Unfold
<1>8. Other("left") \in Sides /\ Other(Other("left")) = "left"
  BY <1>1, Opposite
<1>9. CASE x = z \/ y = z
  BY <1>5, <1>9
<1>10. CASE x # z /\ y # z
  BY <1>1, <1>5, <1>6, <1>7, <1>8, <1>10
<1>11. QED
  BY <1>9, <1>10

\* The leftmost element to the right of k is the next one.
LEMMA NextBelow ==
  ASSUME NEW m, NEW r, Good(m, r), NEW k \in Below(m, r), m["right"][k] # Null,
         NEW y, y = Last(m["left"], m["right"][k])
  PROVE  /\ y \in Below(m, m["right"][k]) /\ y \in Below(m, r) /\ y \in Keys /\ y # k
         /\ m["left"][y] = Null /\ On("left", k, y)
         /\ \A x \in Below(m, r) : ~(On("left", k, x) /\ On("left", x, y))
<1> DEFINE R == m["right"][k]
<1>1. /\ "left" \in Sides /\ "right" \in Sides /\ Other("left") = "right" /\ Other("right") = "left"
      /\ k \in Keys /\ Below(m, r) \subseteq Keys
  BY UnderKeys DEF Sides, Other
<1>2. /\ Good(m, k) /\ Good(m, R) /\ R \in Keys /\ Below(m, R) \subseteq Below(m, r)
      /\ Below(m, R) \subseteq Below(m, k)
  <2>1. Good(m, k) /\ Good(m, R) /\ Below(m, R) \subseteq Below(m, r)
    BY <1>1, GoodPart, UnderPart
  <2>2. R \in Keys
    BY <1>1, <2>1, UnderIs DEF Good
  <2>3. Below(m, R) \subseteq Below(m, k)
    BY <1>1, <2>1, GoodRoot
  <2>4. QED
    BY <2>1, <2>2, <2>3
<1> HIDE DEF R
<1>3. /\ y \in Below(m, R) /\ m["left"][y] = Null
      /\ \A z \in Below(m, R) : z = y \/ On("right", z, y)
  BY <1>1, <1>2, EndIs DEF R
<1>4. /\ \A z \in Below(m, R) : On("right", z, k) /\ z # k
      /\ y \in Keys /\ y \in Below(m, r) /\ y # k
  <2>1. \A z \in Below(m, R) : On("right", z, k) /\ z # k
    BY <1>1, <1>2, GoodRoot DEF R
  <2>2. QED
    BY <1>1, <1>2, <1>3, <2>1
<1>5. Keys \subseteq Values
  BY Sorts
<1>6. On("left", k, y)
  <2>1. On("right", y, k) /\ y \in Values /\ k \in Values
    BY <1>1, <1>3, <1>4, <1>5
  <2>2. QED
    BY <1>1, <2>1, Order
<1>7. ASSUME NEW x \in Below(m, r), On("left", k, x), On("left", x, y) PROVE FALSE
  <2>1. x \in Values /\ y \in Values /\ k \in Values /\ x # k /\ x # y
    <3>1. x \in Values /\ y \in Values /\ k \in Values
      BY <1>1, <1>4, <1>5
    <3>2. QED
      BY <1>1, <1>7, <3>1, Order
  <2>2. x \notin Below(m, R)
    <3>1. ASSUME x \in Below(m, R) PROVE FALSE
      <4>1. On("right", x, y)
        BY <1>3, <2>1, <3>1
      <4>2. QED
        BY <1>1, <1>7, <2>1, <4>1, Order
    <3>2. QED
      BY <3>1
  <2>3. x \notin Below(m, k)
    <3>1. Below(m, k) = {k} \cup Below(m, m["left"][k]) \cup Below(m, R)
      BY <1>1, Unfold DEF R
    <3>2. ASSUME x \in Below(m, m["left"][k]) PROVE FALSE
      <4>1. On("left", x, k)
        BY <1>1, <1>2, <3>2, GoodRoot
      <4>2. QED
        BY <1>1, <1>7, <2>1, <4>1, Order
    <3>3. QED
      BY <2>1, <2>2, <3>1, <3>2
  <2>4. k \notin Below(m, x)
    <3>1. ASSUME k \in Below(m, x) PROVE FALSE
      <4>1. x \in Keys /\ Good(m, x)
        BY <1>1, GoodPart
      <4>2. Below(m, x) = {x} \cup Below(m, m["left"][x]) \cup Below(m, m["right"][x])
        BY <1>1, <4>1, Unfold
      <4>3. PICK v \in Sides : k \in Below(m, m[v][x])
        BY <1>1, <2>1, <3>1, <4>2
      <4>4. Below(m, k) \subseteq Below(m, m[v][x])
        BY <4>3, UnderPart
      <4>5. On(v, k, x) /\ On(v, y, x)
        BY <1>2, <1>3, <4>1, <4>3, <4>4, GoodRoot
      <4>6. v = "left" \/ v = "right"
        BY DEF Sides
      <4>7. QED
        BY <1>1, <1>7, <2>1, <4>5, <4>6, Order
    <3>2. QED
      BY <3>1
  <2>5. PICK z \in Below(m, r), v \in Sides :
          k \in Below(m, m[v][z]) /\ x \in Below(m, m[Other(v)][z])
    BY <2>3, <2>4, Meet
  <2>6. z \in Keys /\ Good(m, z) /\ Below(m, k) \subseteq Below(m, m[v][z])
    BY <1>1, <2>5, GoodPart, UnderPart
  <2>7. Other(v) \in Sides /\ z \in Values
    BY <1>5, <2>6, Opposite
  <2>8. On(v, k, z) /\ On(v, y, z) /\ On(Other(v), x, z)
    BY <1>2, <1>3, <2>5, <2>6, <2>7, GoodRoot
  <2>9. On(v, k, x) /\ On(v, y, x)
    <3>1. On(v, z, x)
      BY <2>1, <2>7, <2>8, Order
    <3>2. QED
      BY <2>1, <2>7, <2>8, <3>1, Order
  <2>10. v = "left" \/ v = "right"
    BY DEF Sides
  <2>11. QED
    BY <1>1, <1>7, <2>1, <2>9, <2>10, Order
<1>8. QED
  BY <1>3, <1>4, <1>6, <1>7 DEF R

-----------------------------------------------------------------------------
(* RB_REMOVE.                                                              *)

LEMMA RemoveOne ==
  ASSUME NEW t, Holds(t, "idle", Null, Null), NEW k \in Tr(t), NEW s \in Sides,
         t.kid[s][k] = Null, NEW c, c = t.kid[Other(s)][k],
         NEW n, n = Freed(Unlink(t, k, c), k)
  PROVE  /\ Tr(n) = Tr(t) \ {k}
         /\ k \in t.red => Holds(n, "idle", Null, Null)
         /\ k \notin t.red => Holds(n, "remove", c, t.par[k])
<1> DEFINE a == Unlink(t, k, c)
           g == t.par[k]
<1>1. g = t.par[k] /\ n = Freed(a, k) /\ a = Unlink(t, k, c)
  OBVIOUS
<1>2. k \in Keys
  BY RootIs DEF Holds
<1> HIDE DEF a, g
<1>3. /\ Tr(a) = Tr(t) \ {k}
      /\ k \in t.red => Holds(a, "idle", Null, Null)
      /\ k \notin t.red => Holds(a, "remove", c, g)
  BY <1>1, UnlinkHolds
<1>4. k \notin Tr(a)
  BY <1>3
<1>5. CASE k \in t.red
  BY <1>1, <1>2, <1>3, <1>4, <1>5, FreedHolds
<1>6. CASE k \notin t.red
  BY <1>1, <1>2, <1>3, <1>4, <1>6, FreedHolds
<1>7. QED
  BY <1>5, <1>6

LEMMA TakenFreed ==
  ASSUME NEW t, NEW c, NEW e, NEW p, Holds(t, c, e, p), c # "insert",
         NEW k \in Tr(t), e # k, NEW y \in Keys, y \notin Tr(t),
         On("left", k, y), \A x \in Tr(t) : ~(On("left", k, x) /\ On("left", x, y)),
         NEW n, n = Freed(TakePlace(t, y, k), k)
  PROVE  Holds(n, c, e, IF p = k THEN y ELSE p) /\ Tr(n) = (Tr(t) \ {k}) \cup {y}
<1>1. PICK b : b = TakePlace(t, y, k)
  OBVIOUS
<1>2. PICK q : q = IF p = k THEN y ELSE p
  OBVIOUS
<1>3. Holds(b, c, e, q) /\ Tr(b) = (Tr(t) \ {k}) \cup {y}
  BY <1>1, <1>2, TakenHolds
<1>4. k \notin Tr(b) /\ k \in Keys
  <2>1. k \in Keys
    BY RootIs DEF Holds
  <2>2. QED
    BY <1>3, <2>1
<1>5. n = Freed(b, k)
  BY <1>1
<1>6. Holds(n, c, e, q) /\ Tr(n) = Tr(b)
  BY <1>3, <1>4, <1>5, FreedHolds, SMTT(60)
<1>7. QED
  BY <1>2, <1>3, <1>6

LEMMA RemoveTwo ==
  ASSUME NEW t, Holds(t, "idle", Null, Null), NEW k \in Tr(t), t.kid["right"][k] # Null,
         NEW y, y = Last(t.kid["left"], t.kid["right"][k]),
         NEW c, c = t.kid["right"][y],
         NEW n, n = Freed(TakePlace(Unlink(t, y, c), y, k), k)
  PROVE  /\ Tr(n) = Tr(t) \ {k} /\ y \in Tr(t) /\ t.kid["left"][y] = Null
         /\ y \in t.red => Holds(n, "idle", Null, Null)
         /\ y \notin t.red => Holds(n, "remove", c, IF t.par[y] = k THEN y ELSE t.par[y])
<1> DEFINE a == Unlink(t, y, c)
           g == t.par[y]
<1>1. g = t.par[y] /\ a = Unlink(t, y, c) /\ n = Freed(TakePlace(a, y, k), k)
  OBVIOUS
<1>2. /\ Linked(t) /\ Good(t.kid, t.root) /\ k \in Keys /\ Tr(t) \subseteq Keys
      /\ Null \notin Keys /\ "left" \in Sides /\ "right" \in Sides /\ Other("left") = "right"
      /\ Keys \subseteq Values
  BY RootIs, Sorts, SMTT(60) DEF Holds, Linked, Sides, Other
<1>3. /\ y \in Tr(t) /\ y \in Keys /\ y # k /\ t.kid["left"][y] = Null /\ On("left", k, y)
      /\ \A x \in Tr(t) : ~(On("left", k, x) /\ On("left", x, y))
  BY <1>2, NextBelow DEF Tr
<1>4. c # k
  <2>1. ASSUME c = k PROVE FALSE
    <3>1. On("right", c, y) /\ k \in Values /\ y \in Values
      <4>1. c # Null
        BY <1>2, <2>1
      <4>2. On("right", c, y)
        BY <1>2, <1>3, <4>1, KidIs, SMTT(60)
      <4>3. QED
        BY <1>2, <1>3, <4>2
    <3>2. QED
      BY <1>2, <1>3, <2>1, <3>1, Order
  <2>2. QED
    BY <2>1
<1> HIDE DEF a, g
<1>5. /\ Tr(a) = Tr(t) \ {y}
      /\ y \in t.red => Holds(a, "idle", Null, Null)
      /\ y \notin t.red => Holds(a, "remove", c, g)
  BY <1>1, <1>2, <1>3, UnlinkHolds
<1>6. /\ k \in Tr(a) /\ y \notin Tr(a)
      /\ \A x \in Tr(a) : ~(On("left", k, x) /\ On("left", x, y))
  BY <1>3, <1>5, SMTT(60)
<1>7. n = Freed(TakePlace(a, y, k), k)
  BY <1>1
<1>8. ASSUME NEW x, NEW e, NEW p, Holds(a, x, e, p), x # "insert", e # k
      PROVE  Holds(n, x, e, IF p = k THEN y ELSE p) /\ Tr(n) = (Tr(a) \ {k}) \cup {y}
  BY <1>3, <1>6, <1>7, <1>8, TakenFreed
<1>9. (Tr(a) \ {k}) \cup {y} = Tr(t) \ {k}
  BY <1>3, <1>5, SMTT(60)
<1>10. CASE y \in t.red
  <2>1. Null # k
    BY <1>2
  <2>2. Holds(a, "idle", Null, Null) /\ "idle" # "insert"
    BY <1>5, <1>10
  <2>3. Holds(n, "idle", Null, IF Null = k THEN y ELSE Null) /\ Tr(n) = Tr(t) \ {k}
    BY <1>8, <1>9, <2>1, <2>2
  <2>4. QED
    BY <1>3, <1>10, <2>1, <2>3
<1>11. CASE y \notin t.red
  <2>1. Holds(a, "remove", c, g) /\ "remove" # "insert"
    BY <1>5, <1>11, SMTT(60)
  <2>2. Holds(n, "remove", c, IF g = k THEN y ELSE g) /\ Tr(n) = Tr(t) \ {k}
    BY <1>4, <1>8, <1>9, <2>1
  <2>3. QED
    BY <1>1, <1>3, <1>11, <2>2, ZenonT(60)
<1>12. QED
  BY <1>10, <1>11

-----------------------------------------------------------------------------
(* The steps of the specification.                                         *)

LEMMA TreeKeys == rbKeys = Tr(tree)
  BY Fields DEF rbKeys, Tr

LEMMA ColourIs ==
  ASSUME NEW t, t.red \subseteq Keys, NEW x
  PROVE  Black(t, x) <=> x \notin t.red
  BY Fields DEF Black

LEMMA InsertStep ==
  ASSUME BalanceInv, NEW k \in Keys, Insert(k)
  PROVE  BalanceInv' /\ Tr(tree)' = Tr(tree) \cup {k}
<1> DEFINE p == Descend(tree, k)
           a == RB_SET(tree, k, p)
           s == IF k < p THEN "left" ELSE "right"
<1>1. /\ pc = "idle" /\ Find(tree, k) = Null
      /\ tree' = IF p = Null THEN [a EXCEPT !.root = k] ELSE [a EXCEPT !.kid[s][p] = k]
      /\ pc' = "insert" /\ elm' = k /\ parent' = parent
  BY Fields DEF Insert
<1>2. Holds(tree, pc, elm, parent)
  BY DEF BalanceInv
<1>3. /\ elm = Null /\ parent = Null /\ Holds(tree, "idle", Null, Null) /\ Linked(tree)
      /\ tree \in Trees
  BY <1>1, <1>2 DEF Holds, Linked
<1>4. k \notin Tr(tree) /\ Null \notin Keys
  BY <1>1, <1>3, FindIs, Sorts
<1>5. s \in Sides
  BY DEF Sides
<1>6. /\ p \in Keys \cup {Null} /\ p # k
      /\ \/ p = Null /\ tree.root = Null
         \/ /\ p \in Tr(tree) /\ On(s, k, p) /\ tree.kid[s][p] = Null
            /\ \A y \in Tr(tree), u \in Sides :
                 p \in Below(tree.kid, tree.kid[u][y]) => On(u, k, y)
  <2>1. CASE tree.root = Null
    <3>1. p = Null
      BY <2>1, Fields DEF Descend
    <3>2. QED
      BY <1>4, <2>1, <3>1
  <2>2. CASE tree.root # Null
    <3>1. /\ p \in Tr(tree) /\ p \in Keys /\ p # k /\ tree.kid[s][p] = Null
          /\ \A y \in Tr(tree), u \in Sides :
               p \in Below(tree.kid, tree.kid[u][y]) => On(u, k, y)
      BY <1>3, <1>4, <2>2, DescendIs
    <3>2. On(s, k, p)
      BY <3>1, SideOfKey
    <3>3. QED
      BY <3>1, <3>2
  <2>3. QED
    BY <2>1, <2>2
<1>7. IsHung(tree, tree', k, p, s)
  <2>1. a = RB_SET(tree, k, p)
    OBVIOUS
  <2> HIDE DEF a, s, p
  <2>2. QED
    BY <1>1, <1>3, <1>5, <1>6, <2>1, HungIs
<1> HIDE DEF a, s, p
<1>8. Holds(tree', "insert", k, Null) /\ Tr(tree') = Tr(tree) \cup {k}
  BY <1>3, <1>4, <1>5, <1>6, <1>7, HungHolds
<1>9. QED
  BY <1>1, <1>3, <1>8 DEF BalanceInv

LEMMA RemoveStep ==
  ASSUME BalanceInv, NEW k \in Keys, Remove(k)
  PROVE  BalanceInv' /\ Tr(tree)' = Tr(tree) \ {k}
<1> DEFINE two == \A s \in Sides : tree.kid[s][k] # Null
           y == IF two THEN Last(tree.kid["left"], tree.kid["right"][k]) ELSE k
           c == IF tree.kid["left"][y] = Null THEN tree.kid["right"][y]
                ELSE tree.kid["left"][y]
           a == Unlink(tree, y, c)
<1>1. /\ pc = "idle" /\ Find(tree, k) = k
      /\ tree' = Freed(IF two THEN TakePlace(a, y, k) ELSE a, k)
      /\ IF Black(tree, y)
         THEN /\ pc' = "remove" /\ elm' = c
              /\ parent' = IF two /\ tree.par[y] = k THEN y ELSE tree.par[y]
         ELSE pc' = pc /\ elm' = elm /\ parent' = parent
  BY Fields, ZenonT(60) DEF Remove, Outermost
<1>2. Holds(tree, pc, elm, parent)
  BY DEF BalanceInv
<1>3. /\ elm = Null /\ parent = Null /\ Holds(tree, "idle", Null, Null) /\ Linked(tree)
      /\ tree.red \subseteq Keys
  <2>1. elm = Null /\ parent = Null
    BY <1>1, <1>2, ZenonT(60) DEF Holds
  <2>2. Holds(tree, "idle", Null, Null)
    BY <1>1, <1>2, <2>1, ZenonT(60)
  <2>3. QED
    BY <2>1, <2>2, HoldsTypes
<1>4. k \in Tr(tree)
  BY <1>1, <1>3, FindIs, Sorts, ZenonT(60)
<1>5. "left" \in Sides /\ "right" \in Sides /\ Other("left") = "right" /\ Other("right") = "left"
  BY DEF Sides, Other
<1>6. CASE ~two
  <2>1. y = k
    BY <1>6
  <2>2. PICK s \in Sides : tree.kid[s][k] = Null /\ c = tree.kid[Other(s)][k]
    <3>1. CASE tree.kid["left"][k] = Null
      BY <1>5, <2>1, <3>1
    <3>2. CASE tree.kid["left"][k] # Null
      <4>1. tree.kid["right"][k] = Null
        BY <1>6, <3>2 DEF Sides
      <4>2. QED
        BY <1>5, <2>1, <3>2, <4>1
    <3>3. QED
      BY <3>1, <3>2
  <2>3. tree' = Freed(Unlink(tree, k, c), k)
    BY <1>1, <1>6, <2>1
  <2>4. /\ Black(tree, k) => pc' = "remove" /\ elm' = c /\ parent' = tree.par[k]
        /\ ~Black(tree, k) => pc' = "idle" /\ elm' = Null /\ parent' = Null
    BY <1>1, <1>3, <1>6, <2>1
  <2> HIDE DEF c, two, y
  <2>5. /\ Tr(tree') = Tr(tree) \ {k}
        /\ k \in tree.red => Holds(tree', "idle", Null, Null)
        /\ k \notin tree.red => Holds(tree', "remove", c, tree.par[k])
    BY <1>3, <1>4, <2>2, <2>3, RemoveOne
  <2>6. QED
    BY <1>3, <2>4, <2>5, ColourIs DEF BalanceInv
<1>7. CASE two
  <2>1. y = Last(tree.kid["left"], tree.kid["right"][k]) /\ tree.kid["right"][k] # Null
    BY <1>5, <1>7
  <2>2. tree' = Freed(TakePlace(Unlink(tree, y, c), y, k), k)
    BY <1>1, <1>7, ZenonT(60)
  <2>3. /\ Black(tree, y) =>
             /\ pc' = "remove" /\ elm' = c
             /\ parent' = IF tree.par[y] = k THEN y ELSE tree.par[y]
        /\ ~Black(tree, y) => pc' = "idle" /\ elm' = Null /\ parent' = Null
    BY <1>1, <1>3, <1>7, ZenonT(60)
  <2>4. tree.kid["left"][y] = Null
    <3> HIDE DEF y, two
    <3>1. Good(tree.kid, tree.root) /\ k \in Below(tree.kid, tree.root)
      BY <1>3, <1>4 DEF Linked, Tr
    <3>2. QED
      BY <2>1, <3>1, NextBelow
  <2>5. c = tree.kid["right"][y]
    BY <2>4
  <2> HIDE DEF c, two, y
  <2>6. /\ Tr(tree') = Tr(tree) \ {k}
        /\ y \in tree.red => Holds(tree', "idle", Null, Null)
        /\ y \notin tree.red =>
             Holds(tree', "remove", c, IF tree.par[y] = k THEN y ELSE tree.par[y])
    BY <1>3, <1>4, <2>1, <2>2, <2>5, RemoveTwo
  <2>7. QED
    BY <1>3, <2>3, <2>6, ColourIs DEF BalanceInv
<1>8. QED
  BY <1>6, <1>7

LEMMA ClashNow ==
  ASSUME BalanceInv, InsertClash
  PROVE  /\ Clash(tree, elm, ElmParent, Gparent, Side(tree, ElmParent), Side(tree, elm))
         /\ pc = "insert" /\ parent = Null /\ tree.par[ElmParent] = Gparent
         /\ Uncle = tree.kid[Other(Side(tree, ElmParent))][Gparent]
         /\ tree \in Trees /\ tree.red \subseteq Keys /\ Null \notin Keys
         /\ ElmParent \in Keys /\ Gparent \in Keys
<1> DEFINE q == tree.par[elm]
           g == tree.par[q]
<1>1. Holds(tree, "insert", elm, parent) /\ tree.red \subseteq Keys /\ tree \in Trees
  BY HoldsTypes DEF BalanceInv, InsertClash
<1>2. ElmParent = q /\ Gparent = g
  BY DEF ElmParent, Gparent
<1>3. q # Null /\ q \in tree.red
  BY <1>1, <1>2, Fields, ColourIs DEF InsertClash
<1> HIDE DEF q, g
<1>4. q = tree.par[elm] /\ g = tree.par[q]
  BY DEF q, g
<1>5. /\ Clash(tree, elm, q, g, Side(tree, q), Side(tree, elm))
      /\ tree.par[q] = g /\ parent = Null
  BY <1>1, <1>3, <1>4, ClashIs
<1>6. q \in Keys /\ g \in Keys
  BY <1>5, RootIs DEF Clash
<1>7. QED
  BY <1>1, <1>2, <1>5, <1>6, Fields DEF InsertClash, Uncle

LEMMA InsertRecolourStep ==
  ASSUME BalanceInv, InsertRecolour
  PROVE  BalanceInv' /\ Tr(tree)' = Tr(tree)
<1> DEFINE q == ElmParent
           g == Gparent
           w == Uncle
           a == [tree EXCEPT !.red = tree.red \ {w}]
           n == Paint(a, q, g)
<1>1. InsertClash /\ ~Black(tree, w) /\ elm' = g /\ pc' = pc /\ parent' = parent
      /\ tree' = Paint([tree EXCEPT !.red = @ \ {w}], q, g)
  BY DEF InsertRecolour
<1>2. tree' = n
  BY <1>1
<1> HIDE DEF q, g, w
<1>3. /\ Clash(tree, elm, q, g, Side(tree, q), Side(tree, elm))
      /\ pc = "insert" /\ parent = Null
      /\ w = tree.kid[Other(Side(tree, q))][g]
      /\ tree \in Trees /\ tree.red \subseteq Keys
      /\ q \in Keys /\ g \in Keys
  BY <1>1, ClashNow DEF q, g, w
<1>4. w \in tree.red
  BY <1>1, <1>3, ColourIs
<1>5. WritesRed(tree, a, tree.red \ {w})
  <2>1. tree.red \ {w} \in SUBSET Keys
    BY <1>3
  <2>2. QED
    BY <1>3, <2>1, Writes
<1> HIDE DEF a
<1>6. WritesRed(a, n, (a.red \ {q}) \cup {g})
  <2>1. a \in Trees
    BY <1>5 DEF WritesRed
  <2>2. QED
    BY <1>3, <2>1, PaintIs
<1> HIDE DEF n
<1>7. WritesRed(tree, n, (tree.red \ {w, q}) \cup {g})
  <2>1. (a.red \ {q}) \cup {g} = (tree.red \ {w, q}) \cup {g}
    BY <1>5 DEF WritesRed
  <2>2. QED
    BY <1>5, <1>6, <2>1 DEF WritesRed
<1>8. Holds(n, "insert", g, Null) /\ Tr(n) = Tr(tree)
  BY <1>3, <1>4, <1>7, InsertRecolours
<1>9. QED
  BY <1>1, <1>2, <1>3, <1>8 DEF BalanceInv

LEMMA InsertRotateStep ==
  ASSUME BalanceInv, InsertRotate
  PROVE  BalanceInv' /\ Tr(tree)' = Tr(tree)
<1> DEFINE q == ElmParent
           g == Gparent
           w == Uncle
           s == Side(tree, q)
           o == Other(s)
           u == Side(tree, elm)
           b == Rotate(tree, s, q)
<1>1. /\ InsertClash /\ Black(tree, w) /\ pc' = pc /\ parent' = parent
      /\ tree' = Inserted(tree, s)
      /\ elm' = IF tree.kid[o][q] = elm THEN q ELSE elm
  BY Fields DEF InsertRotate
<1>2. tree' = IF tree.kid[o][q] = elm
              THEN Rotate(Paint(b, elm, g), o, g)
              ELSE Rotate(Paint(tree, q, g), o, g)
  BY <1>1, Fields DEF Inserted
<1>3. b = Rotate(tree, s, q)
  OBVIOUS
<1> HIDE DEF q, g, w, s, o, u, b
<1>4. /\ Clash(tree, elm, q, g, s, u) /\ pc = "insert" /\ parent = Null
      /\ tree.par[q] = g /\ w = tree.kid[o][g]
      /\ tree \in Trees /\ tree.red \subseteq Keys
      /\ q \in Keys /\ g \in Keys /\ o = Other(s) /\ Null \notin Keys
  BY <1>1, ClashNow DEF q, g, w, s, o, u
<1>5. tree.kid[o][g] \notin tree.red
  BY <1>1, <1>4, ColourIs
<1>6. /\ Linked(tree) /\ q \in Tr(tree) /\ elm \in Tr(tree) /\ s \in Sides /\ u \in Sides
      /\ tree.kid[u][q] = elm /\ o \in Sides /\ elm # Null /\ (u = s \/ u = o)
  <2>1. /\ Linked(tree) /\ q \in Tr(tree) /\ elm \in Tr(tree) /\ s \in Sides /\ u \in Sides
        /\ tree.kid[u][q] = elm /\ elm \in tree.red
    BY <1>4 DEF Clash
  <2>2. o \in Sides /\ (u = s \/ u = o)
    BY <1>4, <2>1, Opposite
  <2>3. QED
    BY <1>4, <2>1, <2>2
<1>7. CASE tree.kid[o][q] = elm
  <2>1. u = o
    BY <1>6, <1>7, OnePlace
  <2>2. /\ Clash(b, q, elm, g, s, s) /\ Tr(b) = Tr(tree) /\ b.red = tree.red
        /\ b.kid[o][g] = tree.kid[o][g]
    BY <1>3, <1>4, <2>1, InnerRotates
  <2> DEFINE a == Paint(b, elm, g)
  <2>3. WritesRed(b, a, (b.red \ {elm}) \cup {g})
    <3>1. b \in Trees
      BY <2>2 DEF Clash, Linked
    <3>2. QED
      BY <1>4, <3>1, PaintIs
  <2>4. tree' = Rotate(a, o, g)
    BY <1>2, <1>7
  <2> HIDE DEF a
  <2>5. b.kid[Other(s)][g] \notin b.red /\ tree' = Rotate(a, Other(s), g)
    BY <1>4, <1>5, <2>2, <2>4
  <2>6. Holds(tree', "insert", q, Null) /\ Tr(tree') = Tr(b)
    BY <2>2, <2>3, <2>5, OuterRotates
  <2>7. elm' = q
    BY <1>1, <1>7 DEF o, s, q
  <2>8. QED
    BY <1>1, <1>4, <2>2, <2>6, <2>7 DEF BalanceInv
<1>8. CASE tree.kid[o][q] # elm
  <2>1. u = s
    BY <1>6, <1>8
  <2>2. Clash(tree, elm, q, g, s, s)
    BY <1>4, <2>1
  <2> DEFINE a == Paint(tree, q, g)
  <2>3. WritesRed(tree, a, (tree.red \ {q}) \cup {g})
    BY <1>4, PaintIs
  <2>4. tree' = Rotate(a, Other(s), g)
    BY <1>2, <1>4, <1>8
  <2> HIDE DEF a
  <2>5. tree.kid[Other(s)][g] \notin tree.red
    BY <1>4, <1>5
  <2>6. Holds(tree', "insert", elm, Null) /\ Tr(tree') = Tr(tree)
    BY <2>2, <2>3, <2>4, <2>5, OuterRotates
  <2>7. elm' = elm
    BY <1>1, <1>8 DEF o, s, q
  <2>8. QED
    BY <1>1, <1>4, <2>6, <2>7 DEF BalanceInv
<1>9. QED
  BY <1>7, <1>8

LEMMA InsertDoneStep ==
  ASSUME BalanceInv, InsertDone
  PROVE  BalanceInv' /\ Tr(tree)' = Tr(tree)
<1>1. /\ pc = "insert" /\ ~InsertClash
      /\ tree' = [tree EXCEPT !.red = tree.red \ {tree.root}]
      /\ pc' = "idle" /\ elm' = Null /\ parent' = Null
  BY Fields DEF InsertDone
<1>2. Holds(tree, "insert", elm, parent) /\ tree.red \subseteq Keys /\ tree \in Trees
  BY <1>1, HoldsTypes DEF BalanceInv
<1>3. tree.par[elm] # Null => tree.par[elm] \notin tree.red
  BY <1>1, <1>2, Fields, ColourIs DEF InsertClash, ElmParent
<1>4. WritesRed(tree, tree', tree.red \ {tree.root})
  <2>1. tree.red \ {tree.root} \in SUBSET Keys
    BY <1>2
  <2>2. QED
    BY <1>1, <1>2, <2>1, Writes
<1>5. Holds(tree', "idle", Null, Null) /\ Tr(tree') = Tr(tree)
  BY <1>2, <1>3, <1>4, InsertEnds
<1>6. QED
  BY <1>1, <1>5 DEF BalanceInv

LEMMA RemoveDoneStep ==
  ASSUME BalanceInv, RemoveDone
  PROVE  BalanceInv' /\ Tr(tree)' = Tr(tree)
<1>1. /\ pc = "remove" /\ ~RemoveShort
      /\ tree' = [tree EXCEPT !.red = tree.red \ {elm}]
      /\ pc' = "idle" /\ elm' = Null /\ parent' = Null
  BY Fields DEF RemoveDone
<1>2. Holds(tree, "remove", elm, parent) /\ tree.red \subseteq Keys /\ tree \in Trees
  BY <1>1, HoldsTypes DEF BalanceInv
<1>3. elm \in tree.red \/ elm = tree.root
  BY <1>1, <1>2, ColourIs DEF RemoveShort
<1>4. WritesRed(tree, tree', tree.red \ {elm})
  <2>1. tree.red \ {elm} \in SUBSET Keys
    BY <1>2
  <2>2. QED
    BY <1>1, <1>2, <2>1, Writes
<1>5. Holds(tree', "idle", Null, Null) /\ Tr(tree') = Tr(tree)
  BY <1>2, <1>3, <1>4, RemoveEnds
<1>6. QED
  BY <1>1, <1>5 DEF BalanceInv

LEMMA BlackSiblingNow ==
  ASSUME BalanceInv, RemoveShort,
         NEW s, s = ShortSide, NEW b, b = BlackSibling
  PROVE  /\ Short(b, elm, parent, s) /\ Tr(b) = Tr(tree) /\ s \in Sides
         /\ b \in Trees /\ b.red \subseteq Keys /\ Linked(b) /\ pc = "remove"
         /\ parent \in Keys /\ b.kid[Other(s)][parent] \notin b.red
         /\ b.kid[Other(s)][parent] \in Keys /\ tree.kid[Other(s)][parent] # Null
<1> DEFINE w == tree.kid[Other(s)][parent]
           a == Paint(tree, w, parent)
<1>1. Holds(tree, "remove", elm, parent) /\ tree.red \subseteq Keys /\ tree \in Trees
      /\ pc = "remove"
  BY HoldsTypes DEF BalanceInv, RemoveShort
<1>2. elm \notin tree.red /\ elm # tree.root
  BY <1>1, ColourIs DEF RemoveShort
<1>3. s = SideOf(tree, elm, parent)
  BY DEF ShortSide, SideOf
<1>4. Short(tree, elm, parent, s)
  BY <1>1, <1>2, <1>3, ShortIs
<1>5. b = IF Black(tree, w) THEN tree ELSE Rotate(a, s, parent)
  BY Fields DEF BlackSibling, Sibling
<1>6. parent \in Keys /\ s \in Sides /\ w # Null
  BY <1>4, RootIs DEF Short
<1>7. WritesRed(tree, a, (tree.red \ {w}) \cup {parent})
  BY <1>1, <1>6, PaintIs
<1> HIDE DEF a
<1>8. Short(b, elm, parent, s) /\ Tr(b) = Tr(tree) /\ b.kid[Other(s)][parent] \notin b.red
  <2>1. CASE w \notin tree.red
    <3>1. b = tree
      BY <1>1, <1>5, <2>1, ColourIs
    <3>2. QED
      BY <1>4, <2>1, <3>1
  <2>2. CASE w \in tree.red
    <3>1. b = Rotate(a, s, parent)
      BY <1>1, <1>5, <2>2, ColourIs
    <3>2. w = tree.kid[Other(s)][parent]
      OBVIOUS
    <3> HIDE DEF w
    <3>3. QED
      BY <1>4, <1>7, <2>2, <3>1, <3>2, SiblingTurns
  <2>3. QED
    BY <2>1, <2>2
<1>9. Linked(b) /\ b \in Trees /\ b.red \subseteq Keys
  BY <1>8, TreeTypes DEF Short, Linked
<1>10. b.kid[Other(s)][parent] \in Keys
  <2>1. parent \in Tr(b) /\ b.kid[Other(s)][parent] # Null /\ Other(s) \in Sides
    BY <1>6, <1>8, Opposite DEF Short
  <2>2. QED
    BY <1>9, <2>1, KidIs
<1>11. QED
  BY <1>1, <1>6, <1>8, <1>9, <1>10

LEMMA RemoveRecolourStep ==
  ASSUME BalanceInv, RemoveRecolour
  PROVE  BalanceInv' /\ Tr(tree)' = Tr(tree)
<1> DEFINE b == BlackSibling
           s == ShortSide
           w == Sibling(b)
<1>1. /\ RemoveShort /\ BothBlack(b, w) /\ pc' = pc
      /\ tree' = [b EXCEPT !.red = b.red \cup {w}]
      /\ elm' = parent /\ parent' = b.par[parent]
  BY DEF RemoveRecolour
<1>2. w = b.kid[Other(s)][parent]
  BY Fields DEF Sibling
<1> HIDE DEF b, s, w
<1>3. /\ Short(b, elm, parent, s) /\ Tr(b) = Tr(tree) /\ b \in Trees /\ b.red \subseteq Keys
      /\ w \notin b.red /\ w \in Keys /\ pc = "remove" /\ parent \in Keys
  <2>1. s = ShortSide /\ b = BlackSibling
    BY DEF s, b
  <2>2. QED
    BY <1>1, <1>2, <2>1, BlackSiblingNow
<1>4. \A v \in Sides : b.kid[v][w] \notin b.red
  BY <1>1, <1>3, ColourIs, Fields DEF BothBlack
<1>5. WritesRed(b, tree', b.red \cup {w})
  <2>1. b.red \cup {w} \in SUBSET Keys
    BY <1>3
  <2>2. QED
    BY <1>1, <1>3, <2>1, Writes
<1>6. Holds(tree', "remove", parent, b.par[parent]) /\ Tr(tree') = Tr(b)
  BY <1>2, <1>3, <1>4, <1>5, ShortRecolours
<1>7. QED
  BY <1>1, <1>3, <1>6 DEF BalanceInv

LEMMA RemoveRotateStep ==
  ASSUME BalanceInv, RemoveRotate
  PROVE  BalanceInv' /\ Tr(tree)' = Tr(tree)
<1> DEFINE b == BlackSibling
           s == ShortSide
           v == b.kid[Other(s)][parent]
           y == b.kid[s][v]
           a1 == Paint(b, y, v)
           t == OuterRed(b)
           w == t.kid[Other(s)][parent]
           c == t.kid[Other(s)][w]
           C == IF parent \in t.red THEN {w} ELSE {}
           a == [t EXCEPT !.red = (t.red \ {w, parent, c}) \cup C]
           u == Rotate(a, s, parent)
<1>1. /\ RemoveShort /\ ~BothBlack(b, v)
      /\ tree' = [u EXCEPT !.red = u.red \ {u.root}]
      /\ pc' = "idle" /\ elm' = Null /\ parent' = Null
  BY Fields DEF RemoveRotate, Sibling
<1>2. t = IF Black(b, b.kid[Other(s)][v]) THEN Rotate(a1, Other(s), v) ELSE b
  BY Fields, SMTT(60) DEF OuterRed, Sibling
<1>3. s = ShortSide /\ b = BlackSibling
  OBVIOUS
<1> HIDE DEF b, s, t
<1>4. /\ Short(b, elm, parent, s) /\ Tr(b) = Tr(tree) /\ b \in Trees /\ b.red \subseteq Keys
      /\ v \notin b.red /\ v \in Keys /\ pc = "remove" /\ parent \in Keys /\ s \in Sides
  BY <1>1, <1>3, BlackSiblingNow, SMTT(60)
<1>5. \E q \in Sides : b.kid[q][v] \in b.red
  BY <1>1, <1>4, ColourIs, Fields DEF BothBlack
<1>6. /\ Short(t, elm, parent, s) /\ Tr(t) = Tr(tree)
      /\ w \notin t.red /\ c \in t.red
  <2>1. CASE b.kid[Other(s)][v] \in b.red
    <3>1. t = b
      BY <1>2, <1>4, <2>1, ColourIs
    <3>2. QED
      BY <1>4, <2>1, <3>1
  <2>2. CASE b.kid[Other(s)][v] \notin b.red
    <3>1. t = Rotate(a1, Other(s), v)
      BY <1>2, <1>4, <2>2, ColourIs
    <3>2. y \in b.red
      BY <1>4, <1>5, <2>2, Opposite
    <3>3. WritesRed(b, a1, (b.red \ {y}) \cup {v})
      BY <1>4, PaintIs
    <3>4. v = b.kid[Other(s)][parent] /\ y = b.kid[s][v]
      OBVIOUS
    <3> HIDE DEF a1, v, y, w, c, C, a, u
    <3>5. /\ Short(t, elm, parent, s) /\ Tr(t) = Tr(b)
          /\ t.kid[Other(s)][parent] = y /\ y \notin t.red
          /\ t.kid[Other(s)][y] = v /\ v \in t.red
      <4>1. /\ Short(b, elm, parent, s) /\ v \notin b.red /\ b.kid[Other(s)][v] \notin b.red
            /\ Tr(b) = Tr(tree)
        BY <1>4, <2>2
      <4>2. QED
        BY <3>1, <3>2, <3>3, <3>4, <4>1, OuterTurns, SMTT(60)
    <3>6. QED
      BY <1>4, <3>5 DEF w, c
  <2>3. QED
    BY <2>1, <2>2
<1>7. /\ Linked(t) /\ t \in Trees /\ t.red \subseteq Keys /\ w \in Keys /\ w # Null
      /\ parent \in Tr(t)
  <2>1. /\ Linked(t) /\ parent \in Tr(t) /\ w # Null
    BY <1>6 DEF Short
  <2>2. Other(s) \in Sides
    BY <1>4, Opposite
  <2>3. w \in Keys
    BY <2>1, <2>2, KidIs
  <2>4. t \in Trees
    BY <2>1 DEF Linked
  <2>5. QED
    BY <2>1, <2>3, <2>4, TreeTypes
<1>8. WritesRed(t, a, (t.red \ {w, parent, c}) \cup C)
  <2>1. (t.red \ {w, parent, c}) \cup C \in SUBSET Keys
    BY <1>7
  <2> HIDE DEF w, c, C
  <2>2. QED
    BY <1>7, <2>1, Writes
<1>9. u = Rotate(a, s, parent) /\ w = t.kid[Other(s)][parent] /\ c = t.kid[Other(s)][w]
  OBVIOUS
<1>10. WritesRed(t, a, (t.red \ {w, parent, c}) \cup (IF parent \in t.red THEN {w} ELSE {}))
  BY <1>8
<1> HIDE DEF w, c, C, a, u
<1>11. u \in Trees
  <2>1. Linked(a) /\ Tr(a) = Tr(t) /\ a.kid = t.kid /\ a.par = t.par
    BY <1>7, <1>8, Painted DEF WritesRed
  <2>2. w # Null /\ w = a.kid[Other(s)][parent]
    BY <1>7, <1>9, <2>1
  <2>3. IsTurned(a, u, s, parent, w, a.kid[s][w], a.par[parent])
    BY <1>4, <1>7, <1>9, <2>1, <2>2, RotateIs
  <2>4. QED
    BY <2>3 DEF IsTurned
<1>12. WritesRed(u, tree', u.red \ {u.root})
  <2>1. u.red \ {u.root} \in SUBSET Keys
    BY <1>11, TreeTypes
  <2>2. QED
    BY <1>1, <1>11, <2>1, Writes
<1>13. Holds(tree', "idle", Null, Null) /\ Tr(tree') = Tr(t)
  BY <1>6, <1>9, <1>10, <1>12, LastTurn
<1>14. QED
  BY <1>1, <1>6, <1>13, SMTT(60) DEF BalanceInv


\* Some step of the specification, and the keys it changes.
LEMMA StepIs ==
  ASSUME BalanceInv, [RbNext]_rbVars
  PROVE  /\ BalanceInv'
         /\ \/ Tr(tree)' = Tr(tree)
            \/ \E k \in Keys : Tr(tree)' = Tr(tree) \cup {k} \/ Tr(tree)' = Tr(tree) \ {k}
         /\ pc # "idle" => Tr(tree)' = Tr(tree)
<1>1. CASE UNCHANGED rbVars
  <2>1. tree' = tree /\ pc' = pc /\ elm' = elm /\ parent' = parent
    BY <1>1 DEF rbVars
  <2>2. Tr(tree') = Tr(tree)
    BY <2>1
  <2>3. QED
    BY <2>1, <2>2 DEF BalanceInv
<1>2. ASSUME NEW k \in Keys, Insert(k)
      PROVE  BalanceInv' /\ Tr(tree)' = Tr(tree) \cup {k} /\ pc = "idle"
  BY <1>2, InsertStep DEF Insert
<1>3. ASSUME NEW k \in Keys, Remove(k)
      PROVE  BalanceInv' /\ Tr(tree)' = Tr(tree) \ {k} /\ pc = "idle"
  BY <1>3, RemoveStep DEF Remove
<1>4. CASE InsertRecolour
  BY <1>4, InsertRecolourStep
<1>5. CASE InsertRotate
  BY <1>5, InsertRotateStep
<1>6. CASE InsertDone
  BY <1>6, InsertDoneStep
<1>7. CASE RemoveRecolour
  BY <1>7, RemoveRecolourStep
<1>8. CASE RemoveRotate
  BY <1>8, RemoveRotateStep
<1>9. CASE RemoveDone
  BY <1>9, RemoveDoneStep
<1>10. CASE RbNext
  <2>1. \/ \E k \in Keys : Insert(k) \/ Remove(k)
        \/ InsertRecolour \/ InsertRotate \/ InsertDone
        \/ RemoveRecolour \/ RemoveRotate \/ RemoveDone
    BY <1>10, Fields DEF RbNext
  <2>2. QED
    BY <2>1, <1>2, <1>3, <1>4, <1>5, <1>6, <1>7, <1>8, <1>9
<1>11. QED
  BY <1>1, <1>10

LEMMA InitIs ==
  ASSUME RbInit
  PROVE  BalanceInv /\ Tr(tree) = {}
<1>1. /\ tree = [root |-> Null, kid |-> [s \in Sides |-> [x \in Keys |-> Junk]],
                 par |-> [x \in Keys |-> Junk], red |-> {}]
      /\ pc = "idle" /\ elm = Null /\ parent = Null
  BY Fields DEF RbInit, Junk
<1>2. tree \in Trees /\ tree.root = Null /\ tree.red = {}
  BY <1>1, Fields DEF Trees
<1>3. Tr(tree) = {} /\ Good(tree.kid, tree.root)
  BY <1>2, UnderNothing, Sorts DEF Tr, Good
<1>4. Linked(tree)
  BY <1>2, <1>3 DEF Linked
<1>5. Balanced(tree, [x \in Keys \cup {Null} |-> 0], Null, "left") /\ "left" \in Sides
  BY <1>3 DEF Balanced, Sides
<1>6. Holds(tree, "idle", Null, Null)
  BY <1>2, <1>3, <1>4, <1>5 DEF Holds, RedRule
<1>7. QED
  BY <1>1, <1>3, <1>6 DEF BalanceInv

\* The balance, in the form that every step of the two loops preserves.
THEOREM BalanceKept ==
  RbSpec => []BalanceInv
<1>1. RbInit => BalanceInv
  BY InitIs
<1>2. BalanceInv /\ [RbNext]_rbVars => BalanceInv'
  BY StepIs
<1>3. QED
  BY <1>1, <1>2, PTL DEF RbSpec

\* RB_INSERT adds its key to the tree's and RB_REMOVE takes its key from them, in
\* one step each; no rotation, and neither recolouring loop, loses or adds one.
THEOREM ImplementsSet ==
  RbSpec => RbImplementsOrderedSet
<1>1. RbInit => RbOS!Init
  BY InitIs, TreeKeys DEF RbOS!Init
<1>2. BalanceInv /\ [RbNext]_rbVars => [RbOS!Next]_(rbKeys) /\ RbAsCalled
  <2>1. SUFFICES ASSUME BalanceInv, [RbNext]_rbVars PROVE [RbOS!Next]_(rbKeys) /\ RbAsCalled
    OBVIOUS
  <2>2. /\ \/ Tr(tree)' = Tr(tree)
           \/ \E k \in Keys : Tr(tree)' = Tr(tree) \cup {k} \/ Tr(tree)' = Tr(tree) \ {k}
        /\ pc # "idle" => Tr(tree)' = Tr(tree)
    BY <2>1, StepIs
  <2>3. rbKeys = Tr(tree) /\ rbKeys' = Tr(tree)' /\ Keys = Keys
    <3>1. (rbKeys = Tr(tree))'
      BY TreeKeys, PTL
    <3>2. QED
      BY <3>1, TreeKeys, Fields
  <2>4. [RbOS!Next]_(rbKeys)
    BY <2>2, <2>3 DEF RbOS!Next, RbOS!Insert, RbOS!Remove
  <2>5. ASSUME NEW k \in Keys
        PROVE  /\ Insert(k) => RbOS!Insert(k)
               /\ Remove(k) => RbOS!Remove(k)
    <3>1. /\ Insert(k) => Tr(tree)' = Tr(tree) \cup {k}
          /\ Remove(k) => Tr(tree)' = Tr(tree) \ {k}
      BY <2>1, InsertStep, RemoveStep
    <3>2. QED
      BY <2>3, <3>1 DEF RbOS!Insert, RbOS!Remove
  <2>6. QED
    BY <2>2, <2>3, <2>4, <2>5 DEF RbAsCalled
<1>3. QED
  BY <1>1, <1>2, BalanceKept, PTL DEF RbSpec, RbImplementsOrderedSet, RbOS!Spec


-----------------------------------------------------------------------------
(* What the invariant says of the properties.                              *)

LEMMA PointersHold ==
  ASSUME BalanceInv
  PROVE  RbTypeOK /\ ParentLinks
<1>1. /\ Holds(tree, pc, elm, parent) /\ Linked(tree) /\ tree \in Trees
      /\ elm \in Keys \cup {Null} /\ parent \in Keys \cup {Null}
  BY HoldsTypes DEF BalanceInv
<1>2. pc \in {"idle", "insert", "remove"}
  BY <1>1 DEF Holds
<1>3. tree \in [root : Keys \cup {Null}, kid : [Sides -> [Keys -> RbNodes]],
                par : [Keys -> RbNodes], red : SUBSET Keys]
  BY <1>1 DEF Trees
<1>4. ASSUME NEW x \in rbKeys
      PROVE  tree.par[x] # Junk /\ \A s \in Sides : tree.kid[s][x] # Junk
  <2>1. x \in Tr(tree)
    BY TreeKeys
  <2>2. tree.par[x] \in Keys \cup {Null}
    BY <1>1, <2>1, ParIs
  <2>3. \A s \in Sides : tree.kid[s][x] \in Keys \cup {Null}
    BY <1>1, <2>1, KidIs
  <2>4. QED
    BY <2>2, <2>3, Fields
<1>5. RbTypeOK
  <2>1. Junk = Junk
    BY DEF Junk
  <2>2. /\ tree \in [root : Keys \cup {Null}, kid : [Sides -> [Keys -> RbNodes]],
                     par : [Keys -> RbNodes], red : SUBSET Keys]
        /\ elm \in Keys \cup {Null} /\ parent \in Keys \cup {Null}
    BY <1>1, <1>3, Fields
  <2>3. \A x \in rbKeys : /\ tree.par[x] # Junk
                           /\ \A s \in Sides : tree.kid[s][x] # Junk
    BY <1>4, <2>1, Fields
  <2>4. QED
    BY <1>2, <2>2, <2>3 DEF RbTypeOK
<1>6. ParentLinks
  <2>1. /\ tree.root # Null => tree.par[tree.root] = Null
        /\ \A x \in Tr(tree), s \in Sides :
             tree.kid[s][x] # Null => tree.par[tree.kid[s][x]] = x
    BY <1>1 DEF Linked
  <2>2. QED
    BY <2>1, TreeKeys, Fields DEF ParentLinks
<1>7. QED
  BY <1>5, <1>6

\* RB_INSERT_COLOR and RB_REMOVE_COLOR read the colour of the grandparent and of the
\* sibling without asking whether there is one: there always is.
THEOREM LoopsFollowNoNull ==
  RbSpec => []NoNullFollowed
<1>1. ASSUME BalanceInv, InsertClash PROVE Gparent # Null
  BY <1>1, ClashNow, Fields
<1>2. ASSUME BalanceInv, RemoveShort
      PROVE  /\ parent # Null /\ Sibling(tree) # Null
             /\ Sibling(BlackSibling) # Null
  <2> DEFINE b == BlackSibling
             s == ShortSide
  <2>1. b = BlackSibling /\ s = ShortSide
    OBVIOUS
  <2>2. /\ Sibling(tree) = tree.kid[Other(s)][parent]
        /\ Sibling(b) = b.kid[Other(s)][parent]
    BY Fields DEF Sibling
  <2> HIDE DEF b, s
  <2>3. /\ parent \in Keys /\ b.kid[Other(s)][parent] \in Keys
        /\ tree.kid[Other(s)][parent] # Null
    BY <1>2, <2>1, BlackSiblingNow
  <2>4. QED
    BY <2>1, <2>2, <2>3, Fields
<1>3. BalanceInv => NoNullFollowed
  BY <1>1, <1>2 DEF NoNullFollowed
<1>4. QED
  BY <1>3, BalanceKept, PTL


\* The elements from x up to the root.
Up(t, x) == Under(Line(t.par), {x})

LEMMA UpIs ==
  ASSUME NEW t, Linked(t), NEW x \in Tr(t)
  PROVE  /\ x \in Up(t, x) /\ Up(t, x) \subseteq Tr(t)
         /\ \A z \in Up(t, x) : x \in Below(t.kid, z)
         /\ x = t.root => Up(t, x) = {x}
         /\ x # t.root => Up(t, x) = {x} \cup Up(t, t.par[x]) /\ x \notin Up(t, t.par[x])
<1> DEFINE m == t.kid
<1>1. Tr(t) \subseteq Keys /\ Null \notin Keys /\ x \in Keys
  BY RootIs, Sorts
<1>2. ASSUME NEW y \in Tr(t)
      PROVE  /\ y \in Up(t, y) /\ Up(t, y) \subseteq Keys
             /\ \A z \in Up(t, y) : t.par[z] \in Keys => t.par[z] \in Up(t, y)
             /\ \A S \in SUBSET Keys :
                  y \in S /\ (\A z \in S : t.par[z] \in Keys => t.par[z] \in S)
                    => Up(t, y) \subseteq S
  <2>1. y \in Keys
    BY <1>1
  <2>2. QED
    BY <2>1, LineIs DEF Up
<1>3. ASSUME NEW y \in Tr(t)
      PROVE  Up(t, y) \subseteq {z \in Tr(t) : y \in Below(m, z)}
  <2> DEFINE S == {z \in Tr(t) : y \in Below(m, z)}
  <2>1. y \in S
    BY <1>1, UnderIs
  <2>2. ASSUME NEW z \in S, t.par[z] \in Keys PROVE t.par[z] \in S
    <3> DEFINE q == t.par[z]
    <3>1. z # t.root
      BY <1>1, <2>2, ParIs
    <3>2. q \in Tr(t) /\ q \in Keys /\ Side(t, z) \in Sides /\ m[Side(t, z)][q] = z
      BY <3>1, ParIs
    <3>3. q \in Below(m, q)
      BY <3>2, UnderIs
    <3>4. Below(m, z) \subseteq Below(m, q)
      BY <3>2, <3>3, UnderPart
    <3>5. QED
      BY <3>2, <3>4
  <2>3. S \in SUBSET Keys
    BY <1>1
  <2> HIDE DEF S
  <2>4. Up(t, y) \subseteq S
    BY <1>2, <2>1, <2>2, <2>3
  <2>5. QED
    BY <2>4 DEF S
<1>4. x \in Up(t, x) /\ Up(t, x) \subseteq Tr(t) /\ \A z \in Up(t, x) : x \in Below(m, z)
  BY <1>2, <1>3
<1>5. CASE x = t.root
  <2>1. t.par[x] \notin Keys /\ {x} \in SUBSET Keys
    BY <1>1, <1>5, ParIs
  <2>2. Up(t, x) \subseteq {x}
    BY <1>2, <2>1
  <2>3. QED
    BY <1>4, <1>5, <2>2
<1>6. CASE x # t.root
  <2> DEFINE q == t.par[x]
             T == {x} \cup Up(t, q)
  <2>1. q \in Tr(t) /\ q \in Keys /\ Side(t, x) \in Sides /\ m[Side(t, x)][q] = x
    BY <1>6, ParIs
  <2>2. x \in T /\ T \in SUBSET Keys /\ \A z \in T : t.par[z] \in Keys => t.par[z] \in T
    BY <1>1, <1>2, <2>1
  <2>3. Up(t, x) \subseteq T
    <3> HIDE DEF T
    <3>1. QED
      BY <1>2, <2>2
  <2>4. Up(t, q) \subseteq Up(t, x)
    <3>1. q \in Up(t, x) /\ Up(t, x) \in SUBSET Keys
      BY <1>2, <2>1
    <3>2. QED
      BY <1>2, <2>1, <3>1
  <2>5. q \notin Below(m, x)
    BY <1>1, <2>1, KidIs
  <2>6. x \notin Up(t, q)
    BY <1>3, <2>1, <2>5
  <2>7. QED
    BY <1>4, <1>6, <2>3, <2>4, <2>6
<1>7. QED
  BY <1>4, <1>5, <1>6

\* How many black elements there are on the way up.
Blacks(t, x) == Cardinality({z \in Up(t, x) : z \notin t.red})

LEMMA BlacksIs ==
  ASSUME NEW t, Linked(t), NEW x \in Tr(t)
  PROVE  /\ Blacks(t, x) \in Nat
         /\ x = t.root => Blacks(t, x) = Count(x \notin t.red)
         /\ x # t.root => Blacks(t, x) = Blacks(t, t.par[x]) + Count(x \notin t.red)
<1> DEFINE B(y) == {z \in Up(t, y) : z \notin t.red}
<1>1. ASSUME NEW y \in Tr(t) PROVE IsFiniteSet(B(y)) /\ Cardinality(B(y)) \in Nat
  <2>1. B(y) \subseteq Keys
    BY UpIs, RootIs
  <2>2. IsFiniteSet(Keys)
    BY PointersAssumption, FS_Interval DEF Keys
  <2> HIDE DEF B
  <2>3. IsFiniteSet(B(y))
    BY <2>1, <2>2, FS_Subset
  <2>4. QED
    BY <2>3, FS_CardinalityType
<1>2. CASE x = t.root
  <2>1. B(x) = IF x \in t.red THEN {} ELSE {x}
    BY <1>2, UpIs
  <2>2. Cardinality({}) = 0 /\ Cardinality({x}) = 1
    BY FS_EmptySet, FS_Singleton
  <2>3. Cardinality(B(x)) = Count(x \notin t.red)
    BY <2>1, <2>2 DEF Count
  <2>4. QED
    BY <1>1, <1>2, <2>3 DEF Blacks
<1>3. CASE x # t.root
  <2> DEFINE q == t.par[x]
  <2>1. q \in Tr(t) /\ Up(t, x) = {x} \cup Up(t, q) /\ x \notin Up(t, q)
    BY <1>3, UpIs, ParIs
  <2>2. B(x) = (IF x \in t.red THEN B(q) ELSE B(q) \cup {x}) /\ x \notin B(q)
    BY <2>1
  <2>3. IsFiniteSet(B(q)) /\ Cardinality(B(q)) \in Nat
    BY <1>1, <2>1
  <2>4. Blacks(t, x) = Cardinality(B(x)) /\ Blacks(t, q) = Cardinality(B(q))
    BY DEF Blacks
  <2> DEFINE C == B(q)
  <2>5. C = B(q)
    OBVIOUS
  <2> HIDE DEF B, C
  <2>6. Cardinality(C \cup {x}) = Cardinality(C) + 1
    BY <2>2, <2>3, <2>5, FS_AddElement
  <2>7. Cardinality(B(x)) = Cardinality(B(q)) + Count(x \notin t.red)
    BY <2>2, <2>3, <2>5, <2>6 DEF Count
  <2>8. QED
    BY <1>1, <1>3, <2>4, <2>7 DEF Blacks, B
<1>4. QED
  BY <1>2, <1>3

LEMMA Sums ==
  ASSUME NEW bc, NEW bz \in Nat, NEW hz \in Nat, NEW hc \in Nat, NEW ec, NEW ez \in Nat,
         NEW kz \in Nat, NEW kc \in Nat, NEW g \in Nat, NEW r \in Nat,
         bz + hz + ez = r + kz, bc = bz + kc, ec = ez + g, hz = hc + g + kz
  PROVE  bc + hc + ec = r + kc
  OBVIOUS

\* The ways down from an element make up for those black elements.  The ways that go
\* through e, below p, count one more.
LEMMA BlacksBalance ==
  ASSUME NEW t, Linked(t), NEW h, NEW p, NEW s \in Sides, Balanced(t, h, p, s),
         p = Null \/ p \in Tr(t), NEW e, p # Null => t.kid[s][p] = e
  PROVE  \A x \in Tr(t) :
           Blacks(t, x) + h[x] + Count(p # Null /\ e \in Up(t, x))
             = h[t.root] + Count(x \notin t.red)
<1> DEFINE m == t.kid
           K(x) == Count(x \notin t.red)
           E(x) == Count(p # Null /\ e \in Up(t, x))
           S == {x \in Tr(t) : Blacks(t, x) + h[x] + E(x) = h[t.root] + K(x)}
<1>1. /\ Tr(t) \subseteq Keys /\ Null \notin Keys /\ Null \notin Tr(t)
      /\ t.root \in Keys \cup {Null}
  BY RootIs, Sorts
<1>2. SUFFICES ASSUME t.root # Null PROVE Tr(t) \subseteq S
  <2>1. CASE t.root = Null
    BY <2>1, RootIs
  <2>2. QED
    BY <1>2, <2>1
<1>3. t.root \in Tr(t) /\ t.root \in Keys
  BY <1>1, <1>2, RootIs
<1>4. /\ h \in [Keys \cup {Null} -> Nat] /\ h[Null] = 0
      /\ \A z \in Tr(t), v \in Sides : h[z] = h[m[v][z]] + Count(z = p /\ v = s) + K(z)
  BY DEF Balanced
<1>5. t.root \in S
  <2>1. Blacks(t, t.root) = K(t.root)
    BY <1>3, BlacksIs
  <2>2. ASSUME p # Null, e \in Up(t, t.root) PROVE FALSE
    <3>1. e = t.root
      BY <1>3, <2>2, UpIs
    <3>2. t.kid[s][p] = e /\ p \in Tr(t)
      BY <2>2
    <3>3. QED
      BY <1>1, <1>3, <3>1, <3>2, KidIs
  <2>3. E(t.root) = 0
    BY <2>2 DEF Count
  <2>4. K(t.root) \in Nat /\ h[t.root] \in Nat
    BY <1>3, <1>4 DEF Count
  <2> HIDE DEF E, K
  <2>5. Blacks(t, t.root) + h[t.root] + E(t.root) = h[t.root] + K(t.root)
    BY <2>1, <2>3, <2>4
  <2>6. QED
    BY <1>3, <2>5
<1>6. ASSUME NEW z \in S, NEW v \in Sides, m[v][z] \in Keys PROVE m[v][z] \in S
  <2> DEFINE c == m[v][z]
  <2>1. z \in Tr(t) /\ z \in Keys /\ Blacks(t, z) + h[z] + E(z) = h[t.root] + K(z)
    BY <1>1, <1>6
  <2>2. c \in Keys /\ c \in Tr(t) /\ c # t.root /\ t.par[c] = z /\ c # Null
    BY <1>1, <1>6, <2>1, KidIs
  <2>3. Up(t, c) = {c} \cup Up(t, z) /\ c \notin Up(t, z)
    BY <2>2, UpIs
  <2>4. Blacks(t, c) = Blacks(t, z) + K(c) /\ Blacks(t, z) \in Nat
    BY <2>1, <2>2, BlacksIs
  <2>5. (p # Null /\ e = c) <=> (z = p /\ v = s)
    <3>1. ASSUME p # Null, e = c PROVE z = p /\ v = s
      <4>1. p \in Tr(t) /\ t.kid[s][p] = t.kid[v][z] /\ t.kid[s][p] # Null
        BY <2>2, <3>1
      <4>2. QED
        BY <2>1, <4>1, OnePlace
    <3>2. ASSUME z = p, v = s PROVE p # Null /\ e = c
      BY <1>1, <2>1, <3>2
    <3>3. QED
      BY <3>1, <3>2
  <2>6. E(c) = E(z) + Count(z = p /\ v = s)
    <3>1. CASE z = p /\ v = s
      <4>1. e \in Up(t, c) /\ p # Null /\ e \notin Up(t, z)
        BY <2>3, <2>5, <3>1
      <4>2. QED
        BY <3>1, <4>1 DEF Count
    <3>2. CASE ~(z = p /\ v = s)
      <4>1. (p # Null /\ e \in Up(t, c)) <=> (p # Null /\ e \in Up(t, z))
        BY <2>3, <2>5, <3>2
      <4>2. QED
        BY <3>2, <4>1 DEF Count
    <3>3. QED
      BY <3>1, <3>2
  <2>7. h[z] = h[c] + Count(z = p /\ v = s) + K(z)
    BY <1>4, <2>1
  <2>8. /\ h[z] \in Nat /\ h[c] \in Nat /\ h[t.root] \in Nat /\ K(z) \in Nat /\ K(c) \in Nat
        /\ E(z) \in Nat /\ Count(z = p /\ v = s) \in Nat
    BY <1>3, <1>4, <2>1, <2>2 DEF Count
  <2> DEFINE g == Count(z = p /\ v = s)
  <2> HIDE DEF E, K, c, g
  <2>9. Blacks(t, c) + h[c] + E(c) = h[t.root] + K(c)
    <3>1. E(c) = E(z) + g /\ h[z] = h[c] + g + K(z) /\ g \in Nat
      BY <2>6, <2>7, <2>8 DEF g
    <3>2. QED
      BY <2>1, <2>4, <2>8, <3>1, Sums
  <2>10. QED
    BY <2>2, <2>9 DEF c
<1>7. S \in SUBSET Keys
  BY <1>1
<1>8. Closed(m, S)
  <2> HIDE DEF S
  <2>1. QED
    BY <1>6 DEF Closed
<1>9. Below(m, t.root) \subseteq S
  <2> HIDE DEF S
  <2>1. QED
    BY <1>3, <1>5, <1>7, <1>8, UnderIs
<1>10. QED
  BY <1>9 DEF Tr


LEMMA RootUp ==
  ASSUME NEW t, Linked(t), NEW x \in Tr(t)
  PROVE  t.root \in Up(t, x)
<1> DEFINE S == {z \in Tr(t) : t.root \in Up(t, z)}
<1>1. Tr(t) \subseteq Keys /\ Null \notin Keys /\ t.root \in Keys
  BY RootIs, Sorts
<1>2. t.root \in S
  BY <1>1, RootIs, UpIs, Sorts
<1>3. ASSUME NEW z \in S, NEW v \in Sides, t.kid[v][z] \in Keys PROVE t.kid[v][z] \in S
  <2> DEFINE c == t.kid[v][z]
  <2>1. c \in Tr(t) /\ c # t.root /\ t.par[c] = z
    BY <1>1, <1>3, KidIs
  <2>2. Up(t, c) = {c} \cup Up(t, z)
    BY <2>1, UpIs
  <2>3. QED
    BY <2>1, <2>2
<1>4. S \in SUBSET Keys
  BY <1>1
<1> HIDE DEF S
<1>5. Closed(t.kid, S)
  BY <1>3 DEF Closed
<1>6. Below(t.kid, t.root) \subseteq S
  BY <1>1, <1>2, <1>4, <1>5, UnderIs
<1>7. x \in S
  BY <1>6 DEF Tr
<1>8. QED
  BY <1>7 DEF S

\* Which ways count one more in RB_REMOVE_COLOR: those through the loop's variable.
Shorter(y, v) ==
  /\ pc = "remove"
  /\ IF elm = Null THEN y = parent /\ v = SideOf(tree, elm, parent) ELSE elm \in Up(tree, y)

LEMMA WaysAgree ==
  ASSUME BalanceInv
  PROVE  \E n : \A y \in Tr(tree), v \in Sides :
           tree.kid[v][y] = Null => Blacks(tree, y) + Count(Shorter(y, v)) = n
<1> DEFINE T == Tr(tree)
           m == tree.kid
<1>1. /\ Linked(tree) /\ elm \in Keys \cup {Null} /\ pc \in {"idle", "insert", "remove"}
      /\ pc # "remove" => parent = Null
      /\ pc = "remove" => (parent = Null /\ elm = tree.root) \/ parent \in T
      /\ parent = Null \/ parent \in T
      /\ \E h, s : /\ s \in Sides /\ Balanced(tree, h, parent, s)
                   /\ parent # Null => m[s][parent] = elm
  BY DEF BalanceInv, Holds
<1>2. PICK h, s : /\ s \in Sides /\ Balanced(tree, h, parent, s)
                  /\ parent # Null => m[s][parent] = elm
  BY <1>1
<1>3. /\ T \subseteq Keys /\ Null \notin T /\ Null \notin Keys
      /\ tree.root \in Keys \cup {Null} /\ (tree.root = Null => T = {})
  BY <1>1, RootIs, Sorts
<1> DEFINE n == IF pc = "remove" /\ parent = Null THEN h[tree.root] + 1 ELSE h[tree.root]
<1>4. ASSUME NEW y \in T, NEW v \in Sides, m[v][y] = Null
      PROVE  Blacks(tree, y) + Count(Shorter(y, v)) = n
  <2> DEFINE g == Count(y = parent /\ v = s)
             k == Count(y \notin tree.red)
             u == Count(parent # Null /\ elm \in Up(tree, y))
             b == Blacks(tree, y)
             r == h[tree.root]
  <2>1. /\ h \in [Keys \cup {Null} -> Nat] /\ h[Null] = 0
        /\ h[y] = h[m[v][y]] + g + k
    BY <1>2 DEF Balanced
  <2>2. b + h[y] + u = r + k
    BY <1>1, <1>2, BlacksBalance
  <2>3. b \in Nat /\ r \in Nat /\ h[y] \in Nat /\ g \in Nat /\ k \in Nat /\ u \in Nat
    <3>1. b \in Nat
      BY <1>1, BlacksIs
    <3>2. r \in Nat /\ h[y] \in Nat
      BY <1>3, <2>1
    <3>3. QED
      BY <3>1, <3>2 DEF Count
  <2>4. h[y] = g + k
    BY <1>4, <2>1, <2>3
  <2>5. CASE pc # "remove"
    <3>1. g = 0 /\ u = 0 /\ Count(Shorter(y, v)) = 0
      BY <1>1, <1>3, <2>5 DEF Count, Shorter
    <3>2. n = r
      BY <2>5
    <3> HIDE DEF g, k, u, b, r, n
    <3>3. b + Count(Shorter(y, v)) = n
      BY <2>2, <2>3, <2>4, <3>1, <3>2
    <3>4. QED
      BY <3>3 DEF b
  <2>6. CASE pc = "remove" /\ parent = Null
    <3>1. elm = tree.root /\ elm # Null
      BY <1>1, <1>3, <2>6
    <3>2. elm \in Up(tree, y)
      BY <1>1, <3>1, RootUp
    <3>3. g = 0 /\ u = 0 /\ Count(Shorter(y, v)) = 1
      BY <1>3, <2>6, <3>1, <3>2 DEF Count, Shorter
    <3>4. n = r + 1
      BY <2>6
    <3> HIDE DEF g, k, u, b, r, n
    <3>5. b + Count(Shorter(y, v)) = n
      BY <2>2, <2>3, <2>4, <3>3, <3>4
    <3>6. QED
      BY <3>5 DEF b
  <2>7. CASE pc = "remove" /\ parent # Null
    <3>1. parent \in T /\ m[s][parent] = elm /\ n = r
      BY <1>1, <1>2, <2>7
    <3>2. g + u = Count(Shorter(y, v))
      <4>1. CASE elm = Null
        <5>1. m[Other(s)][parent] # elm
          BY <1>1, <1>2, <3>1, Deficit
        <5>2. SideOf(tree, elm, parent) = s
          BY <1>2, <3>1, <5>1 DEF SideOf, Sides, Other
        <5>3. elm \notin Up(tree, y)
          BY <1>1, <1>3, <4>1, UpIs
        <5>4. Shorter(y, v) <=> y = parent /\ v = s
          BY <2>7, <4>1, <5>2 DEF Shorter
        <5>5. QED
          BY <5>3, <5>4 DEF Count
      <4>2. CASE elm # Null
        <5>1. ~(y = parent /\ v = s)
          BY <1>4, <3>1, <4>2
        <5>2. Shorter(y, v) <=> elm \in Up(tree, y)
          BY <2>7, <4>2 DEF Shorter
        <5>3. QED
          BY <2>7, <5>1, <5>2 DEF Count
      <4>3. QED
        BY <4>1, <4>2
    <3> DEFINE q == Count(Shorter(y, v))
    <3>3. g + u = q
      BY <3>2
    <3> HIDE DEF g, k, u, b, r, n, q
    <3>4. b + q = n
      BY <2>2, <2>3, <2>4, <3>1, <3>3
    <3>5. QED
      BY <3>4 DEF b, q
  <2>8. QED
    BY <2>5, <2>6, <2>7
<1>5. QED
  BY <1>4

\* The same as BlackCounts has it.
LEMMA CountsAre ==
  ASSUME BalanceInv, NEW a \in BlackCounts
  PROVE  \E y \in Tr(tree), v \in Sides :
           tree.kid[v][y] = Null /\ a = Blacks(tree, y) + Count(Shorter(y, v))
<1> DEFINE short(y, v) == /\ pc = "remove"
                          /\ IF elm = Null THEN y = parent /\ v = ShortSide
                             ELSE elm \in Way(y)
           V == {v \in rbKeys \X Sides : tree.kid[v[2]][v[1]] = Null}
           f(w) == Cardinality({z \in Way(w[1]) : Black(tree, z)})
                     + (IF short(w[1], w[2]) THEN 1 ELSE 0)
<1>0. BlackCounts = {f(w) : w \in V}
  BY Zenon DEF BlackCounts
<1>1. PICK w \in V : a = f(w)
  <2> HIDE DEF V, f
  <2>1. QED
    BY <1>0
<1> DEFINE y == w[1]
           v == w[2]
<1>2. y \in Tr(tree) /\ v \in Sides /\ tree.kid[v][y] = Null
  BY <1>1, TreeKeys, Fields
<1>3. Way(y) = Up(tree, y)
  BY Fields DEF Way, Up, Line
<1>4. tree.red \subseteq Keys
  BY HoldsTypes DEF BalanceInv
<1>5. \A z : Black(tree, z) <=> z \notin tree.red
  BY <1>4, ColourIs
<1>6. {z \in Way(y) : Black(tree, z)} = {z \in Up(tree, y) : z \notin tree.red}
  BY <1>3, <1>5
<1>7. short(y, v) <=> Shorter(y, v)
  BY <1>3, Fields DEF Shorter, SideOf, ShortSide
<1>8. a = Blacks(tree, y) + Count(Shorter(y, v))
  BY <1>1, <1>6, <1>7 DEF Blacks, Count
<1>9. QED
  BY <1>2, <1>8

LEMMA RedBlackHolds ==
  ASSUME BalanceInv
  PROVE  RedBlack
<1>1. /\ Holds(tree, pc, elm, parent) /\ Linked(tree) /\ tree.red \subseteq Keys
      /\ Null \notin tree.red
  BY HoldsTypes DEF BalanceInv
<1>2. /\ pc \in {"idle", "insert", "remove"} /\ (pc = "idle" => elm = Null)
      /\ RedRule(tree, elm, IF pc = "remove" THEN elm ELSE Null)
      /\ tree.root \in tree.red => pc # "idle"
  BY <1>1 DEF Holds
<1>3. \A a, b \in BlackCounts : a = b
  BY WaysAgree, CountsAre
<1>4. ASSUME NEW x \in Tr(tree), x \in tree.red, tree.par[x] # Null, tree.par[x] \in tree.red
      PROVE  (pc # "idle" /\ x = elm) \/ (pc = "remove" /\ tree.par[x] = elm)
  <2> DEFINE z == tree.par[x]
             v == Side(tree, x)
  <2>1. z \in Tr(tree) /\ v \in Sides /\ tree.kid[v][z] = x /\ z # Null /\ x # Null
    BY <1>1, <1>4, ParIs
  <2>2. x = elm \/ z = IF pc = "remove" THEN elm ELSE Null
    BY <1>2, <1>4, <2>1 DEF RedRule
  <2>3. QED
    BY <1>2, <2>1, <2>2
<1>5. \A x : Black(tree, x) <=> x \notin tree.red
  BY <1>1, ColourIs
<1>6. \A x \in rbKeys \cap tree.red :
        \/ tree.par[x] = Null \/ Black(tree, tree.par[x])
        \/ pc # "idle" /\ x = elm
        \/ pc = "remove" /\ tree.par[x] = elm
  BY <1>4, <1>5, TreeKeys, Fields
<1>7. pc = "idle" => Black(tree, tree.root)
  BY <1>2, <1>5
<1>8. QED
  BY <1>3, <1>6, <1>7 DEF RedBlack

\* tree.h:46-51: between any two iterations of the loops every way down has the same
\* number of black elements, but for the one place where the loop is, a red element
\* has a black parent, but for the same place, and the parent pointers are right; so
\* after RB_INSERT and RB_REMOVE the tree is a red-black tree.
THEOREM StaysRedBlack ==
  RbSpec => []RbWellFormed
<1>1. BalanceInv => RbWellFormed
  BY PointersHold, RedBlackHolds DEF RbWellFormed
<1>2. QED
  BY <1>1, BalanceKept, PTL


-----------------------------------------------------------------------------
(* Queries.                                                                *)

LEMMA Numbers ==
  ASSUME NEW s \in Sides, NEW x \in Keys, NEW y \in Keys
  PROVE  /\ x \in Nat /\ y \in Nat
         /\ On("left", x, y) <=> x < y
         /\ On("right", x, y) <=> y < x
         /\ (s = "left" /\ (On(s, x, y) <=> x < y)) \/ (s = "right" /\ (On(s, x, y) <=> y < x))
  BY PointersAssumption DEF Keys, On, Sides

\* y is the lowest element of whose left part k is one, and there is nothing in that
\* part beyond k.
LEMMA NextAbove ==
  ASSUME NEW m, NEW r, Good(m, r), NEW k \in Below(m, r), NEW y \in Below(m, r),
         k \in Below(m, m["left"][y]), \A x \in Below(m, m["left"][y]) : ~(k < x)
  PROVE  /\ k \in Keys /\ y \in Keys /\ k < y
         /\ \A x \in Below(m, r) : ~(k < x /\ x < y)
<1>1. /\ Below(m, r) \subseteq Keys /\ k \in Keys /\ y \in Keys /\ Good(m, y)
      /\ "left" \in Sides /\ "right" \in Sides
      /\ Other("left") = "right" /\ Other("right") = "left"
  BY UnderKeys, GoodPart DEF Sides, Other
<1>2. k < y
  <2>1. On("left", k, y)
    BY <1>1, GoodRoot
  <2>2. QED
    BY <1>1, <2>1, Numbers
<1>3. k \in Below(m, y)
  BY <1>1, GoodRoot
<1>4. ASSUME NEW x \in Below(m, r), k < x, x < y PROVE FALSE
  <2>1. x \in Keys /\ Good(m, x) /\ x \in Nat /\ y \in Nat /\ k \in Nat /\ x # y /\ x # k
    <3>1. x \in Keys /\ Good(m, x)
      BY <1>1, GoodPart
    <3>2. x \in Nat /\ y \in Nat /\ k \in Nat
      BY <1>1, <3>1, Numbers
    <3>3. QED
      BY <1>4, <3>1, <3>2
  <2>2. x \notin Below(m, y)
    <3>1. Below(m, y) = {y} \cup Below(m, m["left"][y]) \cup Below(m, m["right"][y])
      BY <1>1, Unfold
    <3>2. x \notin Below(m, m["left"][y])
      BY <1>4
    <3>3. ASSUME x \in Below(m, m["right"][y]) PROVE FALSE
      <4>1. On("right", x, y)
        BY <1>1, <3>3, GoodRoot
      <4>2. y < x
        BY <1>1, <2>1, <4>1, Numbers
      <4>3. QED
        BY <1>4, <2>1, <4>2
    <3>4. QED
      BY <2>1, <3>1, <3>2, <3>3
  <2>3. ASSUME NEW z \in Keys, NEW v \in Sides, Good(m, z), y \in Below(m, m[v][z])
        PROVE  On(v, k, z) /\ On(v, y, z)
    <3>1. Below(m, y) \subseteq Below(m, m[v][z])
      BY <2>3, UnderPart
    <3>2. QED
      BY <1>3, <2>3, <3>1, GoodRoot
  <2>4. y \notin Below(m, x)
    <3>1. ASSUME y \in Below(m, x) PROVE FALSE
      <4>1. Below(m, x) = {x} \cup Below(m, m["left"][x]) \cup Below(m, m["right"][x])
        BY <1>1, <2>1, Unfold
      <4>2. PICK v \in Sides : y \in Below(m, m[v][x])
        BY <1>1, <2>1, <3>1, <4>1
      <4>3. On(v, k, x) /\ On(v, y, x)
        BY <2>1, <2>3, <4>2
      <4>4. (k < x /\ y < x) \/ (x < k /\ x < y)
        <5>1. \/ v = "left" /\ (On(v, k, x) <=> k < x)
              \/ v = "right" /\ (On(v, k, x) <=> x < k)
          BY <1>1, <2>1, Numbers
        <5>2. \/ v = "left" /\ (On(v, y, x) <=> y < x)
              \/ v = "right" /\ (On(v, y, x) <=> x < y)
          BY <1>1, <2>1, Numbers
        <5>3. QED
          BY <4>3, <5>1, <5>2
      <4>5. QED
        BY <1>4, <2>1, <4>4
    <3>2. QED
      BY <3>1
  <2>5. PICK z \in Below(m, r), v \in Sides :
          y \in Below(m, m[v][z]) /\ x \in Below(m, m[Other(v)][z])
    BY <2>2, <2>4, Meet
  <2>6. z \in Keys /\ Good(m, z) /\ z \in Nat /\ Other(v) \in Sides
    <3>1. z \in Keys /\ Good(m, z) /\ Other(v) \in Sides
      BY <1>1, GoodPart, Opposite
    <3>2. QED
      BY <1>1, <3>1, Numbers
  <2>7. On(v, k, z) /\ On(v, y, z) /\ On(Other(v), x, z)
    BY <2>3, <2>5, <2>6, GoodRoot
  <2>8. (k < z /\ y < z /\ z < x) \/ (z < k /\ z < y /\ x < z)
    <3>1. CASE v = "left"
      BY <1>1, <2>1, <2>6, <2>7, <3>1, Numbers
    <3>2. CASE v = "right"
      BY <1>1, <2>1, <2>6, <2>7, <3>2, Numbers
    <3>3. QED
      BY <3>1, <3>2 DEF Sides
  <2>9. QED
    BY <1>4, <2>1, <2>6, <2>8
<1>5. QED
  BY <1>1, <1>2, <1>4

\* The end of RB_NEXT's way up.
LEMMA WayUpIs ==
  ASSUME NEW t, Linked(t), NEW k \in Tr(t), t.kid["right"][k] = Null,
         NEW up, \A z \in Keys : up[z] = IF t.par[z] \in Keys /\ z = t.kid["right"][t.par[z]]
                                         THEN t.par[z] ELSE Null,
         NEW y, y = Last(up, k)
  PROVE  /\ y \in Tr(t) /\ k \in Below(t.kid, y) /\ \A x \in Below(t.kid, y) : ~(k < x)
         /\ t.par[y] \in Keys => y # t.kid["right"][t.par[y]]
<1> DEFINE m == t.kid
           S == {z \in Tr(t) : k \in Below(m, z) /\ \A x \in Below(m, z) : ~(k < x)}
           rank == [z \in Keys |-> N - Size(m)[z]]
<1>1. /\ Good(m, t.root) /\ Tr(t) \subseteq Keys /\ Null \notin Keys /\ k \in Keys
      /\ "left" \in Sides /\ "right" \in Sides
      /\ Other("left") = "right" /\ Other("right") = "left"
  BY RootIs, Sorts DEF Linked, Sides, Other
<1>2. ASSUME NEW z \in Tr(t)
      PROVE  z \in Keys /\ z \in Nat /\ Good(m, z) /\ \A x \in Below(m, m["left"][z]) : x < z
  <2>1. z \in Keys /\ Good(m, z)
    BY <1>1, GoodPart DEF Tr
  <2>2. ASSUME NEW x \in Below(m, m["left"][z]) PROVE x < z
    <3>1. On("left", x, z) /\ x \in Keys
      BY <1>1, <2>1, GoodRoot, UnderKeys
    <3>2. QED
      BY <1>1, <2>1, <3>1, Numbers
  <2>3. z \in Nat
    BY <1>1, <2>1, Numbers
  <2>4. QED
    BY <2>1, <2>2, <2>3
<1>3. k \in S
  <2>1. Below(m, k) = {k} \cup Below(m, m["left"][k]) \cup Below(m, m["right"][k])
    BY <1>1, Unfold
  <2>2. Below(m, m["right"][k]) = {}
    BY <1>1, UnderNothing
  <2>3. ASSUME NEW x \in Below(m, k) PROVE ~(k < x)
    <3>1. x = k \/ x < k
      BY <1>2, <2>1, <2>2
    <3>2. x \in Nat /\ k \in Nat
      <4>1. x \in Keys
        BY UnderKeys
      <4>2. QED
        BY <1>1, <4>1, Numbers
    <3>3. QED
      BY <3>1, <3>2
  <2>4. QED
    BY <2>1, <2>3
<1>4. ASSUME NEW z \in S, up[z] \in Keys PROVE up[z] \in S /\ rank[up[z]] < rank[z]
  <2> DEFINE p == t.par[z]
  <2>1. z \in Keys /\ z \in Tr(t)
    BY <1>1
  <2>2. up[z] = p /\ p \in Keys /\ z = m["right"][p]
    BY <1>1, <1>4, <2>1
  <2>3. p \in Tr(t)
    <3>1. z # t.root
      BY <1>1, <2>1, <2>2, ParIs
    <3>2. QED
      BY <2>1, <3>1, ParIs
  <2>4. Below(m, p) = {p} \cup Below(m, m["left"][p]) \cup Below(m, z)
    BY <1>1, <2>2, Unfold
  <2>5. k \in Below(m, z) /\ \A x \in Below(m, z) : ~(k < x)
    OBVIOUS
  <2>6. p < k /\ p \in Nat /\ k \in Nat
    <3>1. On("right", k, p)
      BY <1>1, <1>2, <2>2, <2>3, <2>5, GoodRoot
    <3>2. QED
      BY <1>1, <2>2, <3>1, Numbers
  <2>7. ASSUME NEW x \in Below(m, p) PROVE ~(k < x)
    <3>1. x \in Keys /\ x \in Nat
      <4>1. x \in Keys
        BY UnderKeys
      <4>2. QED
        BY <1>1, <4>1, Numbers
    <3>2. CASE x = p
      BY <2>6, <3>2
    <3>3. CASE x \in Below(m, m["left"][p])
      <4>1. x < p
        BY <1>2, <2>3, <3>3
      <4>2. QED
        BY <2>6, <3>1, <4>1
    <3>4. CASE x \in Below(m, z)
      BY <2>5, <3>4
    <3>5. QED
      BY <2>4, <3>2, <3>3, <3>4
  <2>8. p \in S
    BY <2>3, <2>4, <2>5, <2>7
  <2>9. Size(m)[z] \in 0..N /\ Size(m)[p] \in 0..N /\ Size(m)[z] < Size(m)[p]
    BY <1>1, <2>1, <2>2, <2>3, SizeIs DEF Tr
  <2>10. rank[p] = N - Size(m)[p] /\ rank[z] = N - Size(m)[z] /\ N \in Nat
    BY <2>1, <2>2, PointersAssumption
  <2> HIDE DEF rank
  <2>11. rank[p] < rank[z]
    BY <2>9, <2>10
  <2>12. QED
    BY <2>2, <2>8, <2>11
<1>5. \A z \in S : rank[z] \in Nat
  <2>1. ASSUME NEW z \in S PROVE rank[z] \in Nat
    <3>1. Size(m)[z] \in 0..N /\ z \in Keys /\ N \in Nat
      BY <1>1, SizeIs, PointersAssumption DEF Tr
    <3>2. QED
      BY <3>1
  <2>2. QED
    BY <2>1
<1>6. S \in SUBSET Keys
  BY <1>1
<1>7. y \in S /\ up[y] \notin Keys
  <2> HIDE DEF S, rank
  <2>1. /\ \A z \in S : rank[z] \in Nat
        /\ \A z \in S : up[z] \in Keys => up[z] \in S /\ rank[up[z]] < rank[z]
    BY <1>4, <1>5
  <2>2. QED
    BY <1>1, <1>3, <1>6, <2>1, LastIs
<1>8. t.par[y] \in Keys => y # t.kid["right"][t.par[y]]
  BY <1>1, <1>7
<1>9. QED
  BY <1>7, <1>8

\* RB_NEXT gives the least element beyond k.
LEMMA NextIs ==
  ASSUME NEW t, Linked(t), NEW k \in Tr(t), NEW w, w = NextElm(t, k)
  PROVE  \/ w = Null /\ \A x \in Tr(t) : ~(k < x)
         \/ w \in Tr(t) /\ k < w /\ \A x \in Tr(t) : ~(k < x /\ x < w)
<1> DEFINE m == t.kid
           up == [y \in Keys |-> IF t.par[y] \in Keys /\ y = m["right"][t.par[y]]
                                 THEN t.par[y] ELSE Null]
           y == Last(up, k)
<1>1. /\ Good(m, t.root) /\ Tr(t) \subseteq Keys /\ Null \notin Keys /\ k \in Keys
      /\ "left" \in Sides /\ "right" \in Sides /\ k \in Below(m, t.root)
  BY RootIs, Sorts DEF Linked, Sides, Tr
<1>2. w = IF m["right"][k] # Null THEN Last(m["left"], m["right"][k]) ELSE t.par[y]
  <2>1. w = IF m["right"][k] # Null THEN Last(m["left"], m["right"][k])
            ELSE t.par[Last([z \in Keys |->
                   IF t.par[z] \in Keys /\ z = m["right"][t.par[z]]
                   THEN t.par[z] ELSE Null], k)]
    BY DEF NextElm, Outermost
  <2>2. QED
    BY <2>1, Fields
<1>3. CASE m["right"][k] # Null
  <2>1. w = Last(m["left"], m["right"][k])
    BY <1>2, <1>3
  <2>2. /\ w \in Below(m, t.root) /\ w \in Keys /\ On("left", k, w)
        /\ \A x \in Below(m, t.root) : ~(On("left", k, x) /\ On("left", x, w))
    BY <1>1, <1>3, <2>1, NextBelow
  <2>3. QED
    BY <2>2 DEF Tr, On
<1>4. CASE m["right"][k] = Null
  <2>1. y = Last(up, k) /\ w = t.par[y]
    BY <1>2, <1>4
  <2>2. \A z \in Keys : up[z] = IF t.par[z] \in Keys /\ z = t.kid["right"][t.par[z]]
                                THEN t.par[z] ELSE Null
    OBVIOUS
  <2> HIDE DEF up, y
  <2>3. /\ y \in Tr(t) /\ k \in Below(m, y) /\ \A x \in Below(m, y) : ~(k < x)
        /\ w \in Keys => y # m["right"][w]
    BY <1>4, <2>1, <2>2, WayUpIs
  <2>4. CASE y = t.root
    <3>1. w = Null
      BY <2>1, <2>3, <2>4, ParIs
    <3>2. QED
      BY <2>3, <2>4, <3>1 DEF Tr
  <2>5. CASE y # t.root
    <3>1. /\ w \in Tr(t) /\ w \in Keys /\ Side(t, y) \in Sides /\ m[Side(t, y)][w] = y
      BY <2>1, <2>3, <2>5, ParIs
    <3>2. m["left"][w] = y
      BY <2>3, <3>1 DEF Sides
    <3>3. /\ w \in Below(m, t.root) /\ k \in Below(m, m["left"][w])
          /\ \A x \in Below(m, m["left"][w]) : ~(k < x)
      BY <2>3, <3>1, <3>2 DEF Tr
    <3>4. k < w /\ \A x \in Below(m, t.root) : ~(k < x /\ x < w)
      BY <1>1, <3>3, NextAbove
    <3>5. QED
      BY <3>1, <3>4 DEF Tr
  <2>6. QED
    BY <2>4, <2>5
<1>5. QED
  BY <1>3, <1>4


LEMMA MinMaxIs ==
  ASSUME NEW t, Linked(t)
  PROVE  MinMax(t, "left") = Least(Tr(t)) /\ MinMax(t, "right") = Most(Tr(t))
<1>1. /\ Good(t.kid, t.root) /\ Tr(t) \subseteq Keys /\ Null \notin Keys
      /\ "left" \in Sides /\ "right" \in Sides
      /\ Other("left") = "right" /\ Other("right") = "left"
  BY RootIs, Sorts DEF Linked, Sides, Other
<1>2. \A s \in Sides :
        MinMax(t, s) = IF t.root = Null THEN Null ELSE Last(t.kid[s], t.root)
  BY Fields DEF MinMax, Outermost
<1>3. CASE t.root = Null
  BY <1>1, <1>2, <1>3, RootIs DEF Least, Most
<1>4. CASE t.root # Null
  <2>1. t.root \in Keys
    BY <1>4, RootIs
  <2> DEFINE a == Last(t.kid["left"], t.root)
             b == Last(t.kid["right"], t.root)
  <2>2. a = Last(t.kid["left"], t.root) /\ b = Last(t.kid["right"], t.root)
    OBVIOUS
  <2>3. MinMax(t, "left") = a /\ MinMax(t, "right") = b
    BY <1>1, <1>2, <1>4
  <2> HIDE DEF a, b
  <2>4. a \in Tr(t) /\ \A z \in Tr(t) : z = a \/ On("right", z, a)
    BY <1>1, <2>1, <2>2, EndIs DEF Tr
  <2>5. b \in Tr(t) /\ \A z \in Tr(t) : z = b \/ On("left", z, b)
    BY <1>1, <2>1, <2>2, EndIs DEF Tr
  <2>6. \A z \in Tr(t) : a <= z
    <3>1. ASSUME NEW z \in Tr(t) PROVE a <= z
      <4>1. a \in Nat /\ z \in Nat /\ (On("right", z, a) <=> a < z)
        BY <1>1, <2>4, Numbers
      <4>2. QED
        BY <2>4, <4>1
    <3>2. QED
      BY <3>1
  <2>7. \A z \in Tr(t) : z <= b
    <3>1. ASSUME NEW z \in Tr(t) PROVE z <= b
      <4>1. b \in Nat /\ z \in Nat /\ (On("left", z, b) <=> z < b)
        BY <1>1, <2>5, Numbers
      <4>2. QED
        BY <2>5, <4>1
    <3>2. QED
      BY <3>1
  <2>8. Tr(t) \in SUBSET Keys
    BY <1>1
  <2>9. Least(Tr(t)) = a /\ Most(Tr(t)) = b
    BY <2>4, <2>5, <2>6, <2>7, <2>8, LeastIs, MostIs
  <2>10. QED
    BY <2>3, <2>9
<1>5. QED
  BY <1>3, <1>4

LEMMA NextLeast ==
  ASSUME NEW t, Linked(t), NEW k \in Tr(t)
  PROVE  NextElm(t, k) = Least({x \in Tr(t) : x > k})
<1> DEFINE w == NextElm(t, k)
           S == {x \in Tr(t) : x > k}
<1>1. /\ Tr(t) \subseteq Keys /\ "left" \in Sides /\ k \in Keys
  BY RootIs DEF Sides
<1>2. ASSUME NEW x \in Tr(t) PROVE x \in Nat /\ k \in Nat /\ (x > k <=> k < x)
  <2>1. x \in Nat /\ k \in Nat
    BY <1>1, Numbers
  <2>2. QED
    BY <2>1
<1>3. \/ w = Null /\ \A x \in Tr(t) : ~(k < x)
      \/ w \in Tr(t) /\ k < w /\ \A x \in Tr(t) : ~(k < x /\ x < w)
  BY NextIs
<1> HIDE DEF w
<1>4. CASE w = Null /\ \A x \in Tr(t) : ~(k < x)
  <2>1. S = {}
    BY <1>2, <1>4
  <2>2. QED
    BY <1>4, <2>1 DEF Least, w
<1>5. CASE w \in Tr(t) /\ k < w /\ \A x \in Tr(t) : ~(k < x /\ x < w)
  <2>1. S \in SUBSET Keys /\ w \in S
    BY <1>1, <1>2, <1>5
  <2>2. \A x \in S : w <= x
    <3>1. ASSUME NEW x \in S PROVE w <= x
      <4>1. x \in Tr(t) /\ x \in Nat /\ w \in Nat /\ k < x
        BY <1>2, <1>5
      <4>2. QED
        BY <1>5, <4>1
    <3>2. QED
      BY <3>1
  <2> HIDE DEF S
  <2>3. Least(S) = w
    BY <2>1, <2>2, LeastIs
  <2>4. QED
    BY <2>3 DEF S, w
<1>6. QED
  BY <1>3, <1>4, <1>5

\* Between two calls RB_FIND finds exactly the elements that are in the tree, RB_MIN
\* and RB_MAX are the least and the greatest, and RB_NEXT, which climbs by the parent
\* pointers, gives the next greater one: an RB_FOREACH visits the elements in order.
THEOREM QueriesAgree ==
  RbSpec => []LookupsAgree
<1>1. ASSUME BalanceInv PROVE LookupsAgree
  <2>1. Linked(tree)
    BY <1>1 DEF BalanceInv, Holds
  <2>2. \A S : Least(S) = Least(S) /\ Most(S) = Most(S)
    BY Zenon DEF Least, Least, Most, Most, Null, Null
  <2>3. \A k \in Keys : Find(tree, k) = IF k \in rbKeys THEN k ELSE Null
    BY <2>1, FindIs, TreeKeys, Fields
  <2>4. /\ MinMax(tree, "left") = Least(rbKeys)
        /\ MinMax(tree, "right") = Most(rbKeys)
    BY <2>1, <2>2, MinMaxIs, TreeKeys
  <2>5. \A k \in rbKeys : NextElm(tree, k) = Least({x \in rbKeys : x > k})
    BY <2>1, <2>2, NextLeast, TreeKeys
  <2>6. QED
    BY <2>3, <2>4, <2>5 DEF LookupsAgree
<1>2. BalanceInv => LookupsAgree
  BY <1>1
<1>3. QED
  BY <1>2, BalanceKept, PTL

=============================================================================

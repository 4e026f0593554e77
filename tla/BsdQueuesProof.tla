--------------------------- MODULE BsdQueuesProof --------------------------
(***************************************************************************)
(* Proofs about BsdQueues for every finite set of elements: each macro     *)
(* inserts or removes the one element it is named for, the second way      *)
(* through a list stays consistent with the first, and a FOREACH visits    *)
(* what there was when it started.                                         *)
(***************************************************************************)
EXTENDS BsdQueues, SequenceTheorems, FiniteSetTheorems, WellFoundedInduction, TLAPS

-----------------------------------------------------------------------------
(* Sequences without repetition, and With and Without of Items.            *)

Distinct(s) == \A i, j \in 1..Len(s) : s[i] = s[j] => i = j

\* What holds at 0 and of each next number holds of all.
LEMMA NatSet ==
  ASSUME NEW S, 0 \in S, \A n \in Nat : n \in S => n + 1 \in S
  PROVE  Nat \subseteq S
<1> SUFFICES ASSUME Nat \ S # {} PROVE FALSE
  OBVIOUS
<1> DEFINE T == Nat \ S
           R == OpToRel(<, Nat)
<1>1. \A x, y \in Nat : x < y => <<x, y>> \in R
  BY Zenon DEF OpToRel
<1>2. PICK m \in T : \A x \in T : ~(x < m)
  <2>1. IsWellFoundedOn(R, Nat)
    BY NatLessThanWellFounded
  <2>2. T \subseteq Nat /\ T # {}
    OBVIOUS
  <2> HIDE DEF R, T
  <2>3. PICK m \in T : \A x \in T : ~ (<<x, m>> \in R)
    BY <2>1, <2>2, WFMin
  <2>4. QED
    BY <1>1, <2>2, <2>3
<1>3. m \in Nat /\ m # 0 /\ m \notin S
  BY <1>2
<1>4. m - 1 \in Nat /\ m - 1 < m /\ (m - 1) + 1 = m
  BY <1>3
<1>5. m - 1 \in S
  BY <1>2, <1>4
<1>6. QED
  BY <1>3, <1>4, <1>5

\* A sequence without repetition is no longer than there are elements.
LEMMA DistinctLength ==
  ASSUME NEW s \in Seq(Elements), Distinct(s)
  PROVE  Len(s) \in 0..Cardinality(Elements) /\ Cardinality(Elements) \in Nat
<1>1. IsFiniteSet(Elements) /\ Cardinality(Elements) \in Nat
  BY BsdQueuesAssumption, FS_CardinalityType
<1>2. Len(s) \in Nat /\ s \in [1..Len(s) -> Elements]
  BY LenProperties
<1>3. s \in Injection(1..Len(s), Elements)
  BY <1>2 DEF Distinct, Injection, IsInjective
<1>4. Cardinality(1..Len(s)) <= Cardinality(Elements)
  BY <1>1, <1>3, FS_Injection
<1>5. Cardinality(1..Len(s)) = Len(s)
  BY <1>2, FS_Interval
<1>6. QED
  BY <1>1, <1>2, <1>4, <1>5

LEMMA WithIs ==
  ASSUME NEW s \in Seq(Elements), NEW p \in 0..Len(s), NEW e \in Elements
  PROVE  /\ I!With(s, p, e) \in Seq(Elements)
         /\ Len(I!With(s, p, e)) = Len(s) + 1
         /\ \A i \in 1..(Len(s) + 1) :
              I!With(s, p, e)[i] = IF i <= p THEN s[i] ELSE IF i = p + 1 THEN e ELSE s[i - 1]
<1> DEFINE a == SubSeq(s, 1, p)
           b == SubSeq(s, p + 1, Len(s))
<1>1. Len(s) \in Nat /\ p \in Nat /\ p <= Len(s) /\ s \in [1..Len(s) -> Elements]
  BY LenProperties
<1>2. a \in Seq(Elements) /\ Len(a) = p /\ \A i \in 1..p : a[i] = s[i]
  <2>1. \A i \in 1..p : s[i] \in Elements
    BY <1>1
  <2>2. /\ a \in Seq(Elements)
        /\ Len(a) = IF 1 <= p THEN p - 1 + 1 ELSE 0
        /\ \A i \in 1..(p - 1 + 1) : a[i] = s[1 + i - 1]
    BY <1>1, <2>1, SubSeqProperties
  <2> HIDE DEF a
  <2>3. QED
    BY <1>1, <2>2
<1>3. b \in Seq(Elements) /\ Len(b) = Len(s) - p /\ \A i \in 1..(Len(s) - p) : b[i] = s[p + i]
  <2>1. \A i \in (p + 1)..Len(s) : s[i] \in Elements
    BY <1>1
  <2>2. p + 1 \in Int /\ Len(s) \in Int
    BY <1>1
  <2>3. /\ b \in Seq(Elements)
        /\ Len(b) = IF p + 1 <= Len(s) THEN Len(s) - (p + 1) + 1 ELSE 0
        /\ \A i \in 1..(Len(s) - (p + 1) + 1) : b[i] = s[(p + 1) + i - 1]
    BY <2>1, <2>2, SubSeqProperties
  <2> HIDE DEF b
  <2>4. Len(s) - (p + 1) + 1 = Len(s) - p
    BY <1>1
  <2>5. Len(b) = Len(s) - p
    <3>1. CASE p + 1 <= Len(s)
      BY <2>3, <2>4, <3>1
    <3>2. CASE ~(p + 1 <= Len(s))
      <4>1. Len(s) \in Int /\ p \in Int /\ p <= Len(s)
        BY <1>1
      <4>2. Len(s) - p = 0
        BY <3>2, <4>1
      <4>3. QED
        BY <2>3, <3>2, <4>2
    <3>3. QED
      BY <3>1, <3>2
  <2>6. ASSUME NEW i \in 1..(Len(s) - p) PROVE b[i] = s[p + i]
    <3>1. (p + 1) + i - 1 = p + i
      BY <1>1
    <3>2. QED
      BY <2>3, <2>4, <3>1
  <2>7. QED
    BY <2>3, <2>5, <2>6
<1>4. I!With(s, p, e) = (a \o <<e>>) \o b
  BY DEF I!With
<1> HIDE DEF a, b
<1>5. <<e>> \in Seq(Elements) /\ Len(<<e>>) = 1 /\ <<e>>[1] = e
  OBVIOUS
<1>6. /\ a \o <<e>> \in Seq(Elements)
      /\ Len(a \o <<e>>) = p + 1
      /\ \A i \in 1..(p + 1) : (a \o <<e>>)[i] = IF i <= p THEN s[i] ELSE e
  <2>1. /\ a \o <<e>> \in Seq(Elements)
        /\ Len(a \o <<e>>) = Len(a) + 1
        /\ \A i \in 1..(Len(a) + 1) : (a \o <<e>>)[i] = IF i <= Len(a) THEN a[i] ELSE <<e>>[i - Len(a)]
    BY <1>2, <1>5, ConcatProperties
  <2>2. ASSUME NEW i \in 1..(p + 1)
        PROVE  (a \o <<e>>)[i] = IF i <= p THEN s[i] ELSE e
    <3>1. CASE i <= p
      BY <1>1, <1>2, <2>1, <3>1
    <3>2. CASE i = p + 1
      <4>1. i - p = 1 /\ ~(i <= p)
        BY <1>1, <3>2
      <4>2. QED
        BY <1>2, <1>5, <2>1, <4>1
    <3>3. i <= p \/ i = p + 1
      BY <1>1
    <3>4. QED
      BY <3>1, <3>2, <3>3
  <2>3. QED
    BY <1>2, <2>1, <2>2
<1> DEFINE c == a \o <<e>>
<1> HIDE DEF c
<1>7. /\ c \o b \in Seq(Elements)
      /\ Len(c \o b) = (p + 1) + (Len(s) - p)
      /\ \A i \in 1..((p + 1) + (Len(s) - p)) :
           (c \o b)[i] = IF i <= p + 1 THEN c[i] ELSE b[i - (p + 1)]
  <2>1. c \in Seq(Elements) /\ Len(c) = p + 1
    BY <1>6 DEF c
  <2>2. /\ c \o b \in Seq(Elements)
        /\ Len(c \o b) = Len(c) + Len(b)
        /\ \A i \in 1..(Len(c) + Len(b)) :
             (c \o b)[i] = IF i <= Len(c) THEN c[i] ELSE b[i - Len(c)]
    BY <1>3, <2>1, ConcatProperties
  <2>3. QED
    BY <1>3, <2>1, <2>2, Zenon
<1>8. (p + 1) + (Len(s) - p) = Len(s) + 1
  BY <1>1
<1>9. ASSUME NEW i \in 1..(Len(s) + 1)
      PROVE  (c \o b)[i] = IF i <= p THEN s[i] ELSE IF i = p + 1 THEN e ELSE s[i - 1]
  <2>1. CASE i <= p + 1
    <3>1. i \in 1..(p + 1) /\ (i <= p \/ i = p + 1)
      BY <1>1, <2>1
    <3>2. (c \o b)[i] = c[i]
      BY <1>7, <1>8, <2>1
    <3>3. QED
      BY <1>1, <1>6, <3>1, <3>2 DEF c
  <2>2. CASE ~(i <= p + 1)
    <3>1. i - (p + 1) \in 1..(Len(s) - p) /\ p + (i - (p + 1)) = i - 1 /\ ~(i <= p) /\ i # p + 1
      BY <1>1, <2>2
    <3>2. (c \o b)[i] = b[i - (p + 1)]
      BY <1>7, <1>8, <2>2
    <3>3. b[i - (p + 1)] = s[p + (i - (p + 1))]
      BY <1>3, <3>1
    <3>4. QED
      BY <3>1, <3>2, <3>3
  <2>3. QED
    BY <2>1, <2>2
<1>10. QED
  BY <1>4, <1>7, <1>8, <1>9 DEF c

LEMMA WithoutIs ==
  ASSUME NEW s \in Seq(Elements), NEW p \in 1..Len(s)
  PROVE  /\ I!Without(s, p) \in Seq(Elements)
         /\ Len(I!Without(s, p)) = Len(s) - 1
         /\ \A i \in 1..(Len(s) - 1) :
              I!Without(s, p)[i] = IF i < p THEN s[i] ELSE s[i + 1]
<1> DEFINE a == SubSeq(s, 1, p - 1)
           b == SubSeq(s, p + 1, Len(s))
<1>1. Len(s) \in Nat /\ p \in Nat /\ 1 <= p /\ p <= Len(s) /\ s \in [1..Len(s) -> Elements]
  BY LenProperties
<1>2. a \in Seq(Elements) /\ Len(a) = p - 1 /\ \A i \in 1..(p - 1) : a[i] = s[i]
  <2>1. \A i \in 1..(p - 1) : s[i] \in Elements
    BY <1>1
  <2>2. p - 1 \in Int
    BY <1>1
  <2>3. /\ a \in Seq(Elements)
        /\ Len(a) = IF 1 <= p - 1 THEN (p - 1) - 1 + 1 ELSE 0
        /\ \A i \in 1..((p - 1) - 1 + 1) : a[i] = s[1 + i - 1]
    BY <2>1, <2>2, SubSeqProperties
  <2> HIDE DEF a
  <2>4. QED
    BY <1>1, <2>3
<1>3. b \in Seq(Elements) /\ Len(b) = Len(s) - p /\ \A i \in 1..(Len(s) - p) : b[i] = s[p + i]
  <2>1. \A i \in (p + 1)..Len(s) : s[i] \in Elements
    BY <1>1
  <2>2. p + 1 \in Int /\ Len(s) \in Int
    BY <1>1
  <2>3. /\ b \in Seq(Elements)
        /\ Len(b) = IF p + 1 <= Len(s) THEN Len(s) - (p + 1) + 1 ELSE 0
        /\ \A i \in 1..(Len(s) - (p + 1) + 1) : b[i] = s[(p + 1) + i - 1]
    BY <2>1, <2>2, SubSeqProperties
  <2> HIDE DEF b
  <2>4. Len(s) - (p + 1) + 1 = Len(s) - p
    BY <1>1
  <2>5. Len(b) = Len(s) - p
    <3>1. CASE p + 1 <= Len(s)
      BY <2>3, <2>4, <3>1
    <3>2. CASE ~(p + 1 <= Len(s))
      <4>1. Len(s) \in Int /\ p \in Int /\ p <= Len(s)
        BY <1>1
      <4>2. Len(s) - p = 0
        BY <3>2, <4>1
      <4>3. QED
        BY <2>3, <3>2, <4>2
    <3>3. QED
      BY <3>1, <3>2
  <2>6. ASSUME NEW i \in 1..(Len(s) - p) PROVE b[i] = s[p + i]
    <3>1. (p + 1) + i - 1 = p + i
      BY <1>1
    <3>2. QED
      BY <2>3, <2>4, <3>1
  <2>7. QED
    BY <2>3, <2>5, <2>6
<1>4. I!Without(s, p) = a \o b
  BY DEF I!Without
<1> HIDE DEF a, b
<1>5. /\ a \o b \in Seq(Elements)
      /\ Len(a \o b) = (p - 1) + (Len(s) - p)
      /\ \A i \in 1..((p - 1) + (Len(s) - p)) :
           (a \o b)[i] = IF i <= p - 1 THEN a[i] ELSE b[i - (p - 1)]
  <2>1. /\ a \o b \in Seq(Elements)
        /\ Len(a \o b) = Len(a) + Len(b)
        /\ \A i \in 1..(Len(a) + Len(b)) :
             (a \o b)[i] = IF i <= Len(a) THEN a[i] ELSE b[i - Len(a)]
    BY <1>2, <1>3, ConcatProperties
  <2>2. QED
    BY <1>2, <1>3, <2>1, Zenon
<1>6. (p - 1) + (Len(s) - p) = Len(s) - 1
  BY <1>1
<1>7. ASSUME NEW i \in 1..(Len(s) - 1)
      PROVE  (a \o b)[i] = IF i < p THEN s[i] ELSE s[i + 1]
  <2>1. CASE i < p
    <3>1. i \in 1..(p - 1) /\ i <= p - 1
      BY <1>1, <2>1
    <3>2. QED
      BY <1>2, <1>5, <1>6, <2>1, <3>1
  <2>2. CASE ~(i < p)
    <3>1. i - (p - 1) \in 1..(Len(s) - p) /\ p + (i - (p - 1)) = i + 1 /\ ~(i <= p - 1)
      BY <1>1, <2>2
    <3>2. (a \o b)[i] = b[i - (p - 1)]
      BY <1>5, <1>6, <3>1
    <3>3. b[i - (p - 1)] = s[p + (i - (p - 1))]
      BY <1>3, <3>1
    <3>4. QED
      BY <2>2, <3>1, <3>2, <3>3
  <2>3. QED
    BY <2>1, <2>2
<1>8. QED
  BY <1>4, <1>5, <1>6, <1>7

-----------------------------------------------------------------------------
(* What the memory of a list is.                                           *)

\* The pointer to the element behind the i-th of s, and what it holds.
Slot(s, i) == IF i = 0 THEN First ELSE Nxt(s[i])
End(k) == IF k = "CIRCLEQ" THEN ListHead ELSE Null
Target(k, s, i) == IF i < Len(s) THEN s[i + 1] ELSE End(k)

\* The kinds whose elements, and those whose heads, point back, and what to:
\* the prev field of the i-th element, or the head's last for i = Len(s) + 1.
BackKinds == {"LIST", "TAILQ", "CIRCLEQ"}
LastKinds == {"SIMPLEQ", "TAILQ", "CIRCLEQ"}
BackVal(k, s, i) ==
  IF k = "CIRCLEQ" THEN (IF i = 1 THEN ListHead ELSE s[i - 1]) ELSE Slot(s, i - 1)

Linked(k, m, s) ==
  /\ \A i \in 0..Len(s) : m[Slot(s, i)] = Target(k, s, i)
  /\ k \in BackKinds => \A i \in 1..Len(s) : m[Prv(s[i])] = BackVal(k, s, i)
  /\ k \in LastKinds => m[Last] = BackVal(k, s, Len(s) + 1)

\* Two ways from the head that both end are the same.
LEMMA OneWay ==
  ASSUME NEW m, NEW s \in Seq(Elements), NEW t \in Seq(Elements),
         Follows(m, s), Follows(m, t),
         Beyond(m, s) \notin Elements,
         Len(t) >= Len(s) \/ Beyond(m, t) \notin Elements
  PROVE  t = s
<1>1. Len(s) \in Nat /\ Len(t) \in Nat
      /\ s \in [1..Len(s) -> Elements] /\ t \in [1..Len(t) -> Elements]
  BY LenProperties
<1> DEFINE S == {n \in Nat : n <= Len(s) /\ n <= Len(t) => \A i \in 1..n : s[i] = t[i]}
<1>2. 0 \in S
  OBVIOUS
<1>3. ASSUME NEW n \in Nat, n \in S PROVE n + 1 \in S
  <2> SUFFICES ASSUME n + 1 <= Len(s), n + 1 <= Len(t)
               PROVE  \A i \in 1..(n + 1) : s[i] = t[i]
    OBVIOUS
  <2>1. \A i \in 1..n : s[i] = t[i]
    BY <1>1, <1>3
  <2>2. n + 1 \in 1..Len(s) /\ n + 1 \in 1..Len(t) /\ (n + 1) - 1 = n
    BY <1>1
  <2>3. s[n + 1] = IF n + 1 = 1 THEN m[First] ELSE m[Nxt(s[n])]
    BY <2>2 DEF Follows
  <2>4. t[n + 1] = IF n + 1 = 1 THEN m[First] ELSE m[Nxt(t[n])]
    BY <2>2 DEF Follows
  <2>5. n + 1 # 1 => s[n] = t[n]
    BY <2>1
  <2>6. s[n + 1] = t[n + 1]
    BY <2>3, <2>4, <2>5
  <2>7. QED
    BY <2>1, <2>6
<1> HIDE DEF S
<1>4. Nat \subseteq S
  BY <1>2, <1>3, NatSet
<1>5. ASSUME NEW n \in Nat, n <= Len(s), n <= Len(t), NEW i \in 1..n PROVE s[i] = t[i]
  BY <1>4, <1>5 DEF S
<1>6. Len(s) <= Len(t)
  <2> SUFFICES ASSUME Len(t) < Len(s) PROVE FALSE
    BY <1>1
  <2>1. Beyond(m, t) = s[Len(t) + 1]
    <3>1. Len(t) + 1 \in 1..Len(s) /\ (Len(t) + 1) - 1 = Len(t)
      BY <1>1
    <3>2. s[Len(t) + 1] = IF Len(t) + 1 = 1 THEN m[First] ELSE m[Nxt(s[Len(t)])]
      BY <3>1 DEF Follows
    <3>3. CASE Len(t) = 0
      <4>1. t = <<>>
        BY <3>3, EmptySeq
      <4>2. QED
        BY <3>2, <3>3, <4>1 DEF Beyond
    <3>4. CASE Len(t) # 0
      <4>1. t # <<>> /\ Len(t) \in 1..Len(t) /\ Len(t) + 1 # 1
        BY <1>1, <3>4, EmptySeq
      <4>2. s[Len(t)] = t[Len(t)]
        BY <1>1, <1>5, <4>1
      <4>3. QED
        BY <3>2, <4>1, <4>2 DEF Beyond
    <3>5. QED
      BY <3>3, <3>4
  <2>2. s[Len(t) + 1] \in Elements
    BY <1>1
  <2>3. QED
    BY <1>1, <2>1, <2>2
<1>7. Len(t) <= Len(s)
  <2> SUFFICES ASSUME Len(s) < Len(t) PROVE FALSE
    BY <1>1
  <2>1. Beyond(m, s) = t[Len(s) + 1]
    <3>1. Len(s) + 1 \in 1..Len(t) /\ (Len(s) + 1) - 1 = Len(s)
      BY <1>1
    <3>2. t[Len(s) + 1] = IF Len(s) + 1 = 1 THEN m[First] ELSE m[Nxt(t[Len(s)])]
      BY <3>1 DEF Follows
    <3>3. CASE Len(s) = 0
      <4>1. s = <<>>
        BY <3>3, EmptySeq
      <4>2. QED
        BY <3>2, <3>3, <4>1 DEF Beyond
    <3>4. CASE Len(s) # 0
      <4>1. s # <<>> /\ Len(s) \in 1..Len(s) /\ Len(s) + 1 # 1
        BY <1>1, <3>4, EmptySeq
      <4>2. s[Len(s)] = t[Len(s)]
        BY <1>1, <1>5, <4>1
      <4>3. QED
        BY <3>2, <4>1, <4>2 DEF Beyond
    <3>5. QED
      BY <3>3, <3>4
  <2>2. t[Len(s) + 1] \in Elements
    BY <1>1
  <2>3. QED
    BY <1>1, <2>1, <2>2
<1>8. Len(s) = Len(t)
  <2>1. Len(s) \in Int /\ Len(t) \in Int
    BY <1>1
  <2>2. QED
    BY <1>6, <1>7, <2>1
<1>9. \A i \in 1..Len(t) : t[i] = s[i]
  BY <1>1, <1>5, <1>8
<1>10. QED
  BY <1>8, <1>9, SeqEqual

\* A list that is linked as s has the elements of s.
LEMMA ChainIs ==
  ASSUME NEW k, NEW m, NEW s \in Seq(Elements), Distinct(s), Linked(k, m, s)
  PROVE  Chain(m) = s
<1> DEFINE N == Cardinality(Elements)
           U == UNION {[1..n -> Elements] : n \in 0..N}
           P(t) == Follows(m, t) /\ (Len(t) = N \/ Beyond(m, t) \in {Null, ListHead})
<1>1. Len(s) \in 0..N /\ N \in Nat /\ s \in [1..Len(s) -> Elements]
  BY DistinctLength, LenProperties
<1>2. s \in U
  BY <1>1
<1>3. \A i \in 0..Len(s) : m[Slot(s, i)] = Target(k, s, i)
  BY DEF Linked
<1>4. Follows(m, s)
  <2> SUFFICES ASSUME NEW i \in 1..Len(s)
               PROVE  s[i] = IF i = 1 THEN m[First] ELSE m[Nxt(s[i - 1])]
    BY DEF Follows
  <2>1. i - 1 \in 0..Len(s) /\ i - 1 < Len(s) /\ (i - 1) + 1 = i
    BY <1>1
  <2>2. m[Slot(s, i - 1)] = s[i]
    BY <1>3, <2>1 DEF Target
  <2>3. Slot(s, i - 1) = IF i = 1 THEN First ELSE Nxt(s[i - 1])
    BY <1>1 DEF Slot
  <2>4. QED
    BY <2>2, <2>3
<1>5. Beyond(m, s) = End(k)
  <2>1. Len(s) \in 0..Len(s) /\ ~(Len(s) < Len(s))
    BY <1>1
  <2>2. m[Slot(s, Len(s))] = End(k)
    BY <1>3, <2>1 DEF Target
  <2>3. s = <<>> <=> Len(s) = 0
    BY EmptySeq
  <2>4. Beyond(m, s) = m[Slot(s, Len(s))]
    BY <2>3 DEF Beyond, Slot
  <2>5. QED
    BY <2>2, <2>4
<1>6. End(k) \in {Null, ListHead} /\ Null \notin Elements /\ ListHead \notin Elements
  BY BsdQueuesAssumption DEF End
<1>7. P(s)
  BY <1>4, <1>5, <1>6
<1>8. ASSUME NEW t \in U, P(t) PROVE t = s
  <2>1. PICK n \in 0..N : t \in [1..n -> Elements]
    BY <1>8
  <2>2. t \in Seq(Elements) /\ Len(t) \in Nat
    <3>1. n \in Nat
      BY <1>1
    <3>2. t \in Seq(Elements)
      BY <2>1, <3>1, SeqDef
    <3>3. QED
      BY <3>2, LenProperties
  <2>3. Len(t) >= Len(s) \/ Beyond(m, t) \notin Elements
    BY <1>1, <1>6, <1>8, <2>2
  <2>4. QED
    BY <1>4, <1>5, <1>6, <1>8, <2>2, <2>3, OneWay
<1>9. Chain(m) = CHOOSE t \in U : P(t)
  BY Zenon DEF Chain
<1> HIDE DEF U, P
<1>10. QED
  BY <1>2, <1>7, <1>8, <1>9, Zenon

-----------------------------------------------------------------------------
(* The macros, each as what it does to the pointers around one place.      *)

LEMMA Locations ==
  /\ First \in Locs /\ Last \in Locs /\ First # Last
  /\ \A x \in Elements :
       /\ Nxt(x) \in Locs /\ Nxt(x) # First /\ Nxt(x) # Last
       /\ Prv(x) \in Locs /\ Prv(x) # First /\ Prv(x) # Last
  /\ \A x, y \in Elements :
       /\ Nxt(x) # Prv(y)
       /\ Nxt(x) = Nxt(y) => x = y
       /\ Prv(x) = Prv(y) => x = y
  BY DEF First, Last, Nxt, Prv, Locs

LEMMA PointersAre ==
  /\ First \in Pointers /\ Null \in Pointers /\ ListHead \in Pointers
  /\ \A x \in Elements : x \in Pointers /\ Nxt(x) \in Pointers
  /\ Null \notin Elements /\ ListHead \notin Elements /\ Null # ListHead
  BY BsdQueuesAssumption, Locations DEF Pointers

\* The place behind the pointer at: it points to q, and back is what points
\* back there, from q or, behind the last element, from the head.
Gap(k, m, at, q, back) ==
  /\ m \in [Locs -> Pointers]
  /\ m[at] = q
  /\ q \in Elements \/ q = End(k)
  /\ at = First \/ (\E l \in Elements : at = Nxt(l))
  /\ (k \in BackKinds /\ q \in Elements) => m[Prv(q)] = back
  /\ (k \in LastKinds /\ q \notin Elements) => m[Last] = back
  /\ k # "CIRCLEQ" => back = at
  /\ (k = "CIRCLEQ" /\ at = First) => back = ListHead
  /\ (k = "CIRCLEQ" /\ at # First) => back \in Elements /\ at = Nxt(back)

\* What points back to e.
BackTo(k, e) == IF k = "CIRCLEQ" THEN e ELSE Nxt(e)

\* n is m with e put at such a place: the pointers of e and those to it, and no
\* others.
Inserts(k, m, n, at, q, back, e) ==
  /\ n \in [Locs -> Pointers]
  /\ n[at] = e /\ n[Nxt(e)] = q
  /\ \A x \in Elements : Nxt(x) # at /\ x # e => n[Nxt(x)] = m[Nxt(x)]
  /\ at # First => n[First] = m[First]
  /\ k \in BackKinds =>
       /\ n[Prv(e)] = back
       /\ q \in Elements => n[Prv(q)] = BackTo(k, e)
       /\ \A x \in Elements : x # e /\ x # q => n[Prv(x)] = m[Prv(x)]
  /\ k \in LastKinds => n[Last] = IF q \in Elements THEN m[Last] ELSE BackTo(k, e)

\* n is m with the element at such a place, which is followed by q, taken out.
Takes(k, m, n, at, q, back) ==
  /\ n \in [Locs -> Pointers]
  /\ n[at] = q
  /\ \A x \in Elements : Nxt(x) # at => n[Nxt(x)] = m[Nxt(x)]
  /\ at # First => n[First] = m[First]
  /\ k \in BackKinds =>
       /\ q \in Elements => n[Prv(q)] = back
       /\ \A x \in Elements : x # q => n[Prv(x)] = m[Prv(x)]
  /\ k \in LastKinds => n[Last] = IF q \in Elements THEN m[Last] ELSE back

\* A place for e, which is not in the list.
LEMMA GapFacts ==
  ASSUME NEW k \in Kinds, NEW m, NEW at, NEW q, NEW back, Gap(k, m, at, q, back)
  PROVE  /\ m \in [Locs -> Pointers] /\ at \in Locs /\ q \in Pointers /\ back \in Pointers
         /\ at # Last /\ \A x \in Elements : at # Prv(x)
         /\ k # "CIRCLEQ" => (q # Null <=> q \in Elements)
         /\ k = "CIRCLEQ" => (q # ListHead <=> q \in Elements)
         /\ End(k) \notin Elements
<1>1. at \in Locs /\ at # Last /\ \A x \in Elements : at # Prv(x)
  BY Locations DEF Gap
<1>2. q \in Pointers /\ End(k) \notin Elements
  BY PointersAre DEF Gap, End
<1>3. back \in Pointers
  BY <1>1, PointersAre DEF Gap
<1>4. /\ k # "CIRCLEQ" => (q # Null <=> q \in Elements)
      /\ k = "CIRCLEQ" => (q # ListHead <=> q \in Elements)
  BY PointersAre DEF Gap, End
<1>5. QED
  BY <1>1, <1>2, <1>3, <1>4 DEF Gap

\* What the macros' proofs know of the memory around a place for e.
LEMMA Around ==
  ASSUME NEW k \in Kinds, NEW m, NEW at, NEW q, NEW back, Gap(k, m, at, q, back),
         NEW e \in Elements
  PROVE  /\ m \in [Locs -> Pointers] /\ m[at] = q
         /\ at \in Locs /\ at \in Pointers /\ q \in Pointers /\ back \in Pointers
         /\ First \in Locs /\ Last \in Locs
         /\ e \in Pointers /\ Nxt(e) \in Pointers /\ Nxt(e) \in Locs /\ Prv(e) \in Locs
         /\ q \in Elements => Nxt(q) \in Locs /\ Prv(q) \in Locs
         /\ Null \in Pointers /\ ListHead \in Pointers /\ First \in Pointers
         /\ at # Last /\ \A x \in Elements : at # Prv(x)
<1>1. at \in Pointers
  BY Locations DEF Gap, Pointers
<1>2. QED
  BY <1>1, GapFacts, Locations, PointersAre DEF Gap

LEMMA ListInsertHead ==
  ASSUME NEW m, NEW q, NEW e \in Elements, e # q, Gap("LIST", m, First, q, First)
  PROVE  Inserts("LIST", m, LIST_INSERT_HEAD(m, e), First, q, First, e)
<1>1. "LIST" \in Kinds
  BY DEF Kinds
<1>2. /\ m \in [Locs -> Pointers] /\ m[First] = q /\ q \in Pointers
      /\ (q # Null <=> q \in Elements)
  BY <1>1, Around, GapFacts
<1>3. LIST_INSERT_HEAD(m, e) =
        LET m1 == [m EXCEPT ![Nxt(e)] = q]
            m2 == IF q \in Elements THEN [m1 EXCEPT ![Prv(q)] = Nxt(e)] ELSE m1
        IN  [[m2 EXCEPT ![First] = e] EXCEPT ![Prv(e)] = First]
  BY <1>1, <1>2, Locations DEF LIST_INSERT_HEAD, Put
<1>4. QED
  BY <1>1, <1>3, Around, Locations DEF Inserts, BackKinds, LastKinds, BackTo

LEMMA ListInsertAfter ==
  ASSUME NEW m, NEW q, NEW l \in Elements, NEW e \in Elements, e # l, e # q,
         Gap("LIST", m, Nxt(l), q, Nxt(l))
  PROVE  Inserts("LIST", m, LIST_INSERT_AFTER(m, l, e), Nxt(l), q, Nxt(l), e)
<1>1. "LIST" \in Kinds
  BY DEF Kinds
<1>2. /\ m \in [Locs -> Pointers] /\ m[Nxt(l)] = q /\ q \in Pointers
      /\ (q # Null <=> q \in Elements)
  BY <1>1, Around, GapFacts
<1>3. LIST_INSERT_AFTER(m, l, e) =
        LET m1 == [m EXCEPT ![Nxt(e)] = q]
            m2 == IF q \in Elements THEN [m1 EXCEPT ![Prv(q)] = Nxt(e)] ELSE m1
        IN  [[m2 EXCEPT ![Nxt(l)] = e] EXCEPT ![Prv(e)] = Nxt(l)]
  BY <1>1, <1>2, Locations DEF LIST_INSERT_AFTER, Put
<1>4. QED
  BY <1>1, <1>3, Around, Locations DEF Inserts, BackKinds, LastKinds, BackTo

LEMMA ListInsertBefore ==
  ASSUME NEW k \in {"LIST", "TAILQ"}, NEW m, NEW at, NEW l \in Elements, NEW e \in Elements,
         e # l, at # Nxt(e), Gap(k, m, at, l, at)
  PROVE  Inserts(k, m, LIST_INSERT_BEFORE(m, l, e), at, l, at, e)
<1>1. k \in Kinds /\ m[Prv(l)] = at
  BY DEF Kinds, Gap, BackKinds
<1>2. LIST_INSERT_BEFORE(m, l, e) =
        LET m1 == [[m EXCEPT ![Prv(e)] = at] EXCEPT ![Nxt(e)] = l]
        IN  [[m1 EXCEPT ![at] = e] EXCEPT ![Prv(l)] = Nxt(e)]
  BY <1>1, Around, Locations DEF LIST_INSERT_BEFORE, Put
<1>3. QED
  BY <1>1, <1>2, Around, Locations DEF Inserts, BackKinds, LastKinds, BackTo

LEMMA SlistInsertHead ==
  ASSUME NEW m, NEW q, NEW e \in Elements, e # q, Gap("SLIST", m, First, q, First)
  PROVE  Inserts("SLIST", m, SLIST_INSERT_HEAD(m, e), First, q, First, e)
<1>1. "SLIST" \in Kinds
  BY DEF Kinds
<1>2. SLIST_INSERT_HEAD(m, e) = [[m EXCEPT ![Nxt(e)] = q] EXCEPT ![First] = e]
  BY <1>1, Around DEF SLIST_INSERT_HEAD, Put
<1>3. QED
  BY <1>1, <1>2, Around, Locations DEF Inserts, BackKinds, LastKinds, BackTo

LEMMA SlistInsertAfter ==
  ASSUME NEW m, NEW q, NEW l \in Elements, NEW e \in Elements, e # l, e # q,
         Gap("SLIST", m, Nxt(l), q, Nxt(l))
  PROVE  Inserts("SLIST", m, SLIST_INSERT_AFTER(m, l, e), Nxt(l), q, Nxt(l), e)
<1>1. "SLIST" \in Kinds
  BY DEF Kinds
<1>2. SLIST_INSERT_AFTER(m, l, e) = [[m EXCEPT ![Nxt(e)] = q] EXCEPT ![Nxt(l)] = e]
  BY <1>1, Around DEF SLIST_INSERT_AFTER, Put
<1>3. QED
  BY <1>1, <1>2, Around, Locations DEF Inserts, BackKinds, LastKinds, BackTo

LEMMA SimpleqInsertHead ==
  ASSUME NEW m, NEW q, NEW e \in Elements, e # q, Gap("SIMPLEQ", m, First, q, First)
  PROVE  Inserts("SIMPLEQ", m, SIMPLEQ_INSERT_HEAD(m, e), First, q, First, e)
<1>1. "SIMPLEQ" \in Kinds
  BY DEF Kinds
<1>2. /\ m \in [Locs -> Pointers] /\ m[First] = q /\ q \in Pointers
      /\ (q # Null <=> q \in Elements)
  BY <1>1, Around, GapFacts
<1>3. SIMPLEQ_INSERT_HEAD(m, e) =
        LET m1 == [m EXCEPT ![Nxt(e)] = q]
            m2 == IF q \notin Elements THEN [m1 EXCEPT ![Last] = Nxt(e)] ELSE m1
        IN  [m2 EXCEPT ![First] = e]
  BY <1>1, <1>2, Locations DEF SIMPLEQ_INSERT_HEAD, Put
<1>4. QED
  BY <1>1, <1>3, Around, Locations DEF Inserts, BackKinds, LastKinds, BackTo

LEMMA SimpleqInsertAfter ==
  ASSUME NEW m, NEW q, NEW l \in Elements, NEW e \in Elements, e # l, e # q,
         Gap("SIMPLEQ", m, Nxt(l), q, Nxt(l))
  PROVE  Inserts("SIMPLEQ", m, SIMPLEQ_INSERT_AFTER(m, l, e), Nxt(l), q, Nxt(l), e)
<1>1. "SIMPLEQ" \in Kinds
  BY DEF Kinds
<1>2. /\ m \in [Locs -> Pointers] /\ m[Nxt(l)] = q /\ q \in Pointers
      /\ (q # Null <=> q \in Elements)
  BY <1>1, Around, GapFacts
<1>3. SIMPLEQ_INSERT_AFTER(m, l, e) =
        LET m1 == [m EXCEPT ![Nxt(e)] = q]
            m2 == IF q \notin Elements THEN [m1 EXCEPT ![Last] = Nxt(e)] ELSE m1
        IN  [m2 EXCEPT ![Nxt(l)] = e]
  BY <1>1, <1>2, Locations DEF SIMPLEQ_INSERT_AFTER, Put
<1>4. QED
  BY <1>1, <1>3, Around, Locations DEF Inserts, BackKinds, LastKinds, BackTo

LEMMA SimpleqInsertTail ==
  ASSUME NEW m, NEW at, NEW e \in Elements, at # Nxt(e), Gap("SIMPLEQ", m, at, Null, at)
  PROVE  Inserts("SIMPLEQ", m, SIMPLEQ_INSERT_TAIL(m, e), at, Null, at, e)
<1>1. "SIMPLEQ" \in Kinds /\ Null \notin Elements /\ m[Last] = at
  BY PointersAre DEF Kinds, Gap, LastKinds
<1>2. SIMPLEQ_INSERT_TAIL(m, e) =
        [[[m EXCEPT ![Nxt(e)] = Null] EXCEPT ![at] = e] EXCEPT ![Last] = Nxt(e)]
  BY <1>1, Around, Locations, ZenonT(60) DEF SIMPLEQ_INSERT_TAIL, Put
<1>3. QED
  BY <1>1, <1>2, Around, Locations DEF Inserts, BackKinds, LastKinds, BackTo

LEMMA TailqInsertHead ==
  ASSUME NEW m, NEW q, NEW e \in Elements, e # q, Gap("TAILQ", m, First, q, First)
  PROVE  Inserts("TAILQ", m, TAILQ_INSERT_HEAD(m, e), First, q, First, e)
<1>1. "TAILQ" \in Kinds
  BY DEF Kinds
<1>2. /\ m \in [Locs -> Pointers] /\ m[First] = q /\ q \in Pointers
      /\ (q # Null <=> q \in Elements)
  BY <1>1, Around, GapFacts
<1>3. TAILQ_INSERT_HEAD(m, e) =
        LET m1 == [m EXCEPT ![Nxt(e)] = q]
            m2 == IF q \in Elements THEN [m1 EXCEPT ![Prv(q)] = Nxt(e)]
                  ELSE [m1 EXCEPT ![Last] = Nxt(e)]
        IN  [[m2 EXCEPT ![First] = e] EXCEPT ![Prv(e)] = First]
  BY <1>1, <1>2, Locations DEF TAILQ_INSERT_HEAD, Put
<1>4. QED
  BY <1>1, <1>3, Around, Locations DEF Inserts, BackKinds, LastKinds, BackTo

LEMMA TailqInsertAfter ==
  ASSUME NEW m, NEW q, NEW l \in Elements, NEW e \in Elements, e # l, e # q,
         Gap("TAILQ", m, Nxt(l), q, Nxt(l))
  PROVE  Inserts("TAILQ", m, TAILQ_INSERT_AFTER(m, l, e), Nxt(l), q, Nxt(l), e)
<1>1. "TAILQ" \in Kinds
  BY DEF Kinds
<1>2. /\ m \in [Locs -> Pointers] /\ m[Nxt(l)] = q /\ q \in Pointers
      /\ (q # Null <=> q \in Elements)
  BY <1>1, Around, GapFacts
<1>3. TAILQ_INSERT_AFTER(m, l, e) =
        LET m1 == [m EXCEPT ![Nxt(e)] = q]
            m2 == IF q \in Elements THEN [m1 EXCEPT ![Prv(q)] = Nxt(e)]
                  ELSE [m1 EXCEPT ![Last] = Nxt(e)]
        IN  [[m2 EXCEPT ![Nxt(l)] = e] EXCEPT ![Prv(e)] = Nxt(l)]
  BY <1>1, <1>2, Locations DEF TAILQ_INSERT_AFTER, Put
<1>4. QED
  BY <1>1, <1>3, Around, Locations DEF Inserts, BackKinds, LastKinds, BackTo

LEMMA TailqInsertTail ==
  ASSUME NEW m, NEW at, NEW e \in Elements, at # Nxt(e), Gap("TAILQ", m, at, Null, at)
  PROVE  Inserts("TAILQ", m, TAILQ_INSERT_TAIL(m, e), at, Null, at, e)
<1>1. "TAILQ" \in Kinds /\ Null \notin Elements /\ m[Last] = at
  BY PointersAre DEF Kinds, Gap, LastKinds
<1>2. /\ m \in [Locs -> Pointers] /\ Nxt(e) \in Locs /\ Prv(e) \in Locs /\ at \in Locs
      /\ at # Last /\ at # Prv(e) /\ at \in Pointers /\ Null \in Pointers /\ e \in Pointers
  BY <1>1, Around
<1>3. TAILQ_INSERT_TAIL(m, e) =
        LET m1 == [[m EXCEPT ![Nxt(e)] = Null] EXCEPT ![Prv(e)] = at]
        IN  [[m1 EXCEPT ![at] = e] EXCEPT ![Last] = Nxt(e)]
  BY <1>1, <1>2, Locations DEF TAILQ_INSERT_TAIL, Put
<1>4. QED
  BY <1>1, <1>3, Around, Locations DEF Inserts, BackKinds, LastKinds, BackTo

\* The head of a circular queue is one of its neighbours, so an insertion at an
\* end asks the other end whether the queue is empty.
LEMMA CircleqInsertHead ==
  ASSUME NEW m, NEW q, NEW e \in Elements, e # q, Gap("CIRCLEQ", m, First, q, ListHead),
         m[Last] = ListHead <=> q \notin Elements
  PROVE  Inserts("CIRCLEQ", m, CIRCLEQ_INSERT_HEAD(m, e), First, q, ListHead, e)
<1>1. "CIRCLEQ" \in Kinds
  BY DEF Kinds
<1>2. /\ m \in [Locs -> Pointers] /\ m[First] = q /\ q \in Pointers
      /\ (q # ListHead <=> q \in Elements)
  BY <1>1, Around, GapFacts
<1>3. CIRCLEQ_INSERT_HEAD(m, e) =
        LET m1 == [[m EXCEPT ![Nxt(e)] = q] EXCEPT ![Prv(e)] = ListHead]
            m2 == IF q \in Elements THEN [m1 EXCEPT ![Prv(q)] = e]
                  ELSE [m1 EXCEPT ![Last] = e]
        IN  [m2 EXCEPT ![First] = e]
  BY <1>1, <1>2, Locations DEF CIRCLEQ_INSERT_HEAD, Put
<1>4. QED
  BY <1>1, <1>3, Around, Locations DEF Inserts, BackKinds, LastKinds, BackTo

LEMMA CircleqInsertAfter ==
  ASSUME NEW m, NEW q, NEW l \in Elements, NEW e \in Elements, e # l, e # q,
         Gap("CIRCLEQ", m, Nxt(l), q, l)
  PROVE  Inserts("CIRCLEQ", m, CIRCLEQ_INSERT_AFTER(m, l, e), Nxt(l), q, l, e)
<1>1. "CIRCLEQ" \in Kinds
  BY DEF Kinds
<1>2. /\ m \in [Locs -> Pointers] /\ m[Nxt(l)] = q /\ q \in Pointers
      /\ (q # ListHead <=> q \in Elements)
  BY <1>1, Around, GapFacts
<1>3. CIRCLEQ_INSERT_AFTER(m, l, e) =
        LET m1 == [[m EXCEPT ![Nxt(e)] = q] EXCEPT ![Prv(e)] = l]
            m2 == IF q \in Elements THEN [m1 EXCEPT ![Prv(q)] = e]
                  ELSE [m1 EXCEPT ![Last] = e]
        IN  [m2 EXCEPT ![Nxt(l)] = e]
  BY <1>1, <1>2, Locations DEF CIRCLEQ_INSERT_AFTER, Put
<1>4. QED
  BY <1>1, <1>3, Around, Locations DEF Inserts, BackKinds, LastKinds, BackTo

\* back is the element before l, or the head.
LEMMA CircleqInsertBefore ==
  ASSUME NEW m, NEW at, NEW back, NEW l \in Elements, NEW e \in Elements,
         e # l, at # Nxt(e), Gap("CIRCLEQ", m, at, l, back)
  PROVE  Inserts("CIRCLEQ", m, CIRCLEQ_INSERT_BEFORE(m, l, e), at, l, back, e)
<1>1. "CIRCLEQ" \in Kinds /\ m[Prv(l)] = back
  BY DEF Kinds, Gap, BackKinds
<1>2. /\ back = ListHead => at = First
      /\ back # ListHead => at = Nxt(back)
  BY PointersAre DEF Gap
<1>3. CIRCLEQ_INSERT_BEFORE(m, l, e) =
        LET m1 == [[m EXCEPT ![Nxt(e)] = l] EXCEPT ![Prv(e)] = back]
        IN  [[m1 EXCEPT ![at] = e] EXCEPT ![Prv(l)] = e]
  BY <1>1, <1>2, Around, Locations DEF CIRCLEQ_INSERT_BEFORE, Put
<1>4. QED
  BY <1>1, <1>3, Around, Locations DEF Inserts, BackKinds, LastKinds, BackTo

LEMMA CircleqInsertTail ==
  ASSUME NEW m, NEW at, NEW back, NEW e \in Elements, at # Nxt(e),
         Gap("CIRCLEQ", m, at, ListHead, back),
         m[First] = ListHead <=> at = First
  PROVE  Inserts("CIRCLEQ", m, CIRCLEQ_INSERT_TAIL(m, e), at, ListHead, back, e)
<1>1. "CIRCLEQ" \in Kinds /\ ListHead \notin Elements /\ m[Last] = back
  BY PointersAre DEF Kinds, Gap, LastKinds
<1>2. at # First => at = Nxt(back)
  BY DEF Gap
<1>3. CIRCLEQ_INSERT_TAIL(m, e) =
        LET m1 == [[m EXCEPT ![Nxt(e)] = ListHead] EXCEPT ![Prv(e)] = back]
        IN  [[m1 EXCEPT ![at] = e] EXCEPT ![Last] = e]
  BY <1>1, <1>2, Around, Locations, ZenonT(60) DEF CIRCLEQ_INSERT_TAIL, Put
<1>4. QED
  BY <1>1, <1>3, Around, Locations DEF Inserts, BackKinds, LastKinds, BackTo

\* The removals: e is at the place behind at, and q behind e.
LEMMA ListTake ==
  ASSUME NEW m, NEW at, NEW q, NEW e \in Elements, at # Nxt(e), e # q,
         Gap("LIST", m, at, e, at), Gap("LIST", m, Nxt(e), q, Nxt(e))
  PROVE  Takes("LIST", m, LIST_REMOVE(m, e), at, q, at)
<1>1. "LIST" \in Kinds /\ m[Prv(e)] = at
  BY DEF Kinds, Gap, BackKinds
<1>2. /\ m \in [Locs -> Pointers] /\ m[Nxt(e)] = q /\ q \in Pointers
      /\ (q # Null <=> q \in Elements)
  BY <1>1, Around, GapFacts
<1>3. LIST_REMOVE(m, e) =
        LET m1 == IF q \in Elements THEN [m EXCEPT ![Prv(q)] = at] ELSE m
        IN  [m1 EXCEPT ![at] = q]
  BY <1>1, <1>2, Locations DEF LIST_REMOVE, Put
<1>4. QED
  BY <1>1, <1>2, <1>3, Around, Locations DEF Takes, BackKinds, LastKinds

LEMMA SlistTakeFirst ==
  ASSUME NEW m, NEW q, NEW e \in Elements, e # q,
         Gap("SLIST", m, First, e, First), Gap("SLIST", m, Nxt(e), q, Nxt(e))
  PROVE  Takes("SLIST", m, SLIST_REMOVE(m, e), First, q, First)
<1>1. "SLIST" \in Kinds
  BY DEF Kinds
<1>2. m \in [Locs -> Pointers] /\ m[Nxt(e)] = q /\ q \in Pointers /\ m[First] = e
  BY <1>1, Around
<1>3. SLIST_REMOVE(m, e) = [m EXCEPT ![First] = q]
  BY <1>2 DEF SLIST_REMOVE, SLIST_REMOVE_HEAD, Put
<1>4. QED
  BY <1>1, <1>2, <1>3, Around, Locations DEF Takes, BackKinds, LastKinds

LEMMA SlistTakeAfter ==
  ASSUME NEW m, NEW q, NEW l \in Elements, NEW e \in Elements, e # q, l # e,
         m[First] # e, Before(m, e) = l,
         Gap("SLIST", m, Nxt(l), e, Nxt(l)), Gap("SLIST", m, Nxt(e), q, Nxt(e))
  PROVE  Takes("SLIST", m, SLIST_REMOVE(m, e), Nxt(l), q, Nxt(l))
<1>1. "SLIST" \in Kinds
  BY DEF Kinds
<1>2. m \in [Locs -> Pointers] /\ m[Nxt(e)] = q /\ q \in Pointers
  BY <1>1, Around
<1>3. SLIST_REMOVE(m, e) = [m EXCEPT ![Nxt(l)] = q]
  BY <1>2 DEF SLIST_REMOVE, Put
<1>4. QED
  BY <1>1, <1>2, <1>3, Around, Locations DEF Takes, BackKinds, LastKinds

LEMMA SimpleqTakeFirst ==
  ASSUME NEW m, NEW q, NEW e \in Elements, e # q,
         Gap("SIMPLEQ", m, First, e, First), Gap("SIMPLEQ", m, Nxt(e), q, Nxt(e))
  PROVE  Takes("SIMPLEQ", m, SIMPLEQ_REMOVE_HEAD(m, e), First, q, First)
<1>1. "SIMPLEQ" \in Kinds
  BY DEF Kinds
<1>2. /\ m \in [Locs -> Pointers] /\ m[Nxt(e)] = q /\ q \in Pointers /\ First \in Locs
      /\ (q # Null <=> q \in Elements)
  BY <1>1, Around, GapFacts
<1>3. SIMPLEQ_REMOVE_HEAD(m, e) =
        LET m1 == [m EXCEPT ![First] = q]
        IN  IF q \notin Elements THEN [m1 EXCEPT ![Last] = First] ELSE m1
  BY <1>2 DEF SIMPLEQ_REMOVE_HEAD, Put
<1>4. QED
  BY <1>1, <1>2, <1>3, Around, Locations DEF Takes, BackKinds, LastKinds

LEMMA TailqTake ==
  ASSUME NEW m, NEW at, NEW q, NEW e \in Elements, at # Nxt(e), e # q,
         Gap("TAILQ", m, at, e, at), Gap("TAILQ", m, Nxt(e), q, Nxt(e))
  PROVE  Takes("TAILQ", m, TAILQ_REMOVE(m, e), at, q, at)
<1>1. "TAILQ" \in Kinds /\ m[Prv(e)] = at
  BY DEF Kinds, Gap, BackKinds
<1>2. /\ m \in [Locs -> Pointers] /\ m[Nxt(e)] = q /\ q \in Pointers
      /\ (q # Null <=> q \in Elements)
  BY <1>1, Around, GapFacts
<1>3. TAILQ_REMOVE(m, e) =
        LET m1 == IF q \in Elements THEN [m EXCEPT ![Prv(q)] = at]
                  ELSE [m EXCEPT ![Last] = at]
        IN  [m1 EXCEPT ![at] = q]
  BY <1>1, <1>2, Locations DEF TAILQ_REMOVE, Put
<1>4. QED
  BY <1>1, <1>2, <1>3, Around, Locations DEF Takes, BackKinds, LastKinds

LEMMA CircleqTake ==
  ASSUME NEW m, NEW at, NEW q, NEW back, NEW e \in Elements, at # Nxt(e), e # q,
         Gap("CIRCLEQ", m, at, e, back), Gap("CIRCLEQ", m, Nxt(e), q, e)
  PROVE  Takes("CIRCLEQ", m, CIRCLEQ_REMOVE(m, e), at, q, back)
<1>1. "CIRCLEQ" \in Kinds /\ m[Prv(e)] = back
  BY DEF Kinds, Gap, BackKinds
<1>2. /\ m \in [Locs -> Pointers] /\ m[Nxt(e)] = q /\ q \in Pointers
      /\ (q # ListHead <=> q \in Elements)
  BY <1>1, Around, GapFacts
<1>3. /\ back = ListHead => at = First
      /\ back # ListHead => at = Nxt(back)
  BY PointersAre DEF Gap
<1>4. CIRCLEQ_REMOVE(m, e) =
        LET m1 == IF q \in Elements THEN [m EXCEPT ![Prv(q)] = back]
                  ELSE [m EXCEPT ![Last] = back]
        IN  [m1 EXCEPT ![at] = q]
  BY <1>1, <1>2, <1>3, Locations DEF CIRCLEQ_REMOVE, Put
<1>5. QED
  BY <1>1, <1>2, <1>4, Around, Locations DEF Takes, BackKinds, LastKinds

-----------------------------------------------------------------------------
(* From the pointers around one place to the whole list.                   *)

LEMMA SlotIs ==
  ASSUME NEW s \in Seq(Elements), NEW i \in 0..Len(s)
  PROVE  /\ i = 0 => Slot(s, i) = First
         /\ i # 0 => s[i] \in Elements /\ Slot(s, i) = Nxt(s[i])
<1>1. Len(s) \in Nat /\ s \in [1..Len(s) -> Elements]
  BY LenProperties
<1>2. i # 0 => i \in 1..Len(s)
  BY <1>1
<1>3. QED
  BY <1>1, <1>2 DEF Slot

LEMMA SlotsDiffer ==
  ASSUME NEW s \in Seq(Elements), Distinct(s), NEW i \in 0..Len(s), NEW j \in 0..Len(s), i # j
  PROVE  Slot(s, i) # Slot(s, j)
<1>1. Len(s) \in Nat
  BY LenProperties
<1>2. i # 0 => i \in 1..Len(s)
  BY <1>1
<1>3. j # 0 => j \in 1..Len(s)
  BY <1>1
<1>4. i # 0 /\ j # 0 => s[i] # s[j]
  BY <1>2, <1>3 DEF Distinct
<1>5. QED
  BY <1>4, SlotIs, Locations

LEMMA GapOf ==
  ASSUME NEW k \in Kinds, NEW m \in [Locs -> Pointers], NEW s \in Seq(Elements),
         Linked(k, m, s), NEW p \in 0..Len(s)
  PROVE  Gap(k, m, Slot(s, p), Target(k, s, p), BackVal(k, s, p + 1))
<1> DEFINE q == Target(k, s, p)
           back == BackVal(k, s, p + 1)
<1>1. Len(s) \in Nat /\ s \in [1..Len(s) -> Elements] /\ p \in Nat /\ (p + 1) - 1 = p
  BY LenProperties
<1>2. m[Slot(s, p)] = q
  BY DEF Linked
<1>3. Slot(s, p) = First \/ \E l \in Elements : Slot(s, p) = Nxt(l)
  BY SlotIs
<1>4. p < Len(s) => p + 1 \in 1..Len(s) /\ q = s[p + 1] /\ q \in Elements
  <2> SUFFICES ASSUME p < Len(s) PROVE p + 1 \in 1..Len(s) /\ q = s[p + 1] /\ q \in Elements
    OBVIOUS
  <2>1. p + 1 \in 1..Len(s)
    BY <1>1
  <2>2. q = s[p + 1]
    BY DEF Target
  <2>3. QED
    BY <1>1, <2>1, <2>2
<1>5. ~(p < Len(s)) => p = Len(s) /\ q = End(k) /\ q \notin Elements
  <2> SUFFICES ASSUME ~(p < Len(s)) PROVE p = Len(s) /\ q = End(k) /\ q \notin Elements
    OBVIOUS
  <2>1. p \in Int /\ Len(s) \in Int /\ p <= Len(s)
    BY <1>1
  <2>2. p = Len(s)
    BY <2>1
  <2>3. q = End(k)
    BY DEF Target
  <2>4. End(k) \notin Elements
    BY PointersAre DEF End
  <2>5. QED
    BY <2>2, <2>3, <2>4
<1>6. (k \in BackKinds /\ q \in Elements) => m[Prv(q)] = back
  BY <1>4, <1>5 DEF Linked
<1>7. (k \in LastKinds /\ q \notin Elements) => m[Last] = back
  BY <1>4, <1>5 DEF Linked
<1>8. k # "CIRCLEQ" => back = Slot(s, p)
  BY <1>1 DEF BackVal
<1>9. k = "CIRCLEQ" =>
        /\ Slot(s, p) = First => back = ListHead
        /\ Slot(s, p) # First => back \in Elements /\ Slot(s, p) = Nxt(back)
  <2>1. CASE p = 0
    BY <2>1, SlotIs DEF BackVal
  <2>2. CASE p # 0
    <3>1. p + 1 # 1 /\ Slot(s, p) = Nxt(s[p]) /\ s[p] \in Elements
      BY <1>1, <2>2, SlotIs
    <3>2. k = "CIRCLEQ" => back = s[p]
      BY <1>1, <3>1 DEF BackVal
    <3>3. QED
      BY <3>1, <3>2, Locations
  <2>3. QED
    BY <2>1, <2>2
<1> HIDE DEF q, back
<1>10. q \in Elements \/ q = End(k)
  BY <1>4, <1>5
<1>11. Gap(k, m, Slot(s, p), q, back)
  BY <1>2, <1>3, <1>6, <1>7, <1>8, <1>9, <1>10 DEF Gap
<1>12. QED
  BY <1>11 DEF q, back

\* The places of s with e put behind its first p elements.
LEMMA WithPlaces ==
  ASSUME NEW k, NEW s \in Seq(Elements), NEW p \in 0..Len(s), NEW e \in Elements,
         NEW t \in Seq(Elements), t = I!With(s, p, e)
  PROVE  /\ Len(t) = Len(s) + 1
         /\ \A i \in 0..Len(t) :
              /\ i <= p => Slot(t, i) = Slot(s, i)
              /\ i = p + 1 => Slot(t, i) = Nxt(e)
              /\ i > p + 1 => Slot(t, i) = Slot(s, i - 1)
         /\ \A i \in 0..Len(t) :
              /\ i < p => Target(k, t, i) = Target(k, s, i)
              /\ i = p => Target(k, t, i) = e
              /\ i = p + 1 => Target(k, t, i) = Target(k, s, p)
              /\ i > p + 1 => Target(k, t, i) = Target(k, s, i - 1)
         /\ \A i \in 1..(Len(t) + 1) :
              /\ i <= p + 1 => BackVal(k, t, i) = BackVal(k, s, i)
              /\ i = p + 2 => BackVal(k, t, i) = BackTo(k, e)
              /\ i > p + 2 => BackVal(k, t, i) = BackVal(k, s, i - 1)
<1>1. Len(s) \in Nat /\ p \in Nat /\ p <= Len(s)
  BY LenProperties
<1>2. Len(t) = Len(s) + 1
  BY WithIs
<1>8. \A i \in 1..(Len(s) + 1) :
        I!With(s, p, e)[i] = IF i <= p THEN s[i] ELSE IF i = p + 1 THEN e ELSE s[i - 1]
  BY WithIs, ZenonT(60)
<1>3. ASSUME NEW i \in 1..Len(t)
      PROVE  t[i] = IF i <= p THEN s[i] ELSE IF i = p + 1 THEN e ELSE s[i - 1]
  BY <1>2, <1>8
<1>4. ASSUME NEW i \in 0..Len(t)
      PROVE  /\ i <= p => Slot(t, i) = Slot(s, i)
             /\ i = p + 1 => Slot(t, i) = Nxt(e)
             /\ i > p + 1 => Slot(t, i) = Slot(s, i - 1)
  <2>1. CASE i = 0
    BY <1>1, <2>1 DEF Slot
  <2>2. CASE i # 0
    <3>1. i \in 1..Len(t) /\ (i > p + 1 => i - 1 # 0 /\ ~(i <= p) /\ i # p + 1)
          /\ (i = p + 1 => ~(i <= p))
      BY <1>1, <1>2, <2>2
    <3>2. Slot(t, i) = Nxt(t[i])
      BY <2>2 DEF Slot
    <3>3. QED
      BY <1>3, <2>2, <3>1, <3>2 DEF Slot
  <2>3. QED
    BY <2>1, <2>2
<1>5. ASSUME NEW i \in 0..Len(t)
      PROVE  /\ i < p => Target(k, t, i) = Target(k, s, i)
             /\ i = p => Target(k, t, i) = e
             /\ i = p + 1 => Target(k, t, i) = Target(k, s, p)
             /\ i > p + 1 => Target(k, t, i) = Target(k, s, i - 1)
  <2>1. CASE i < Len(t)
    <3>1. i + 1 \in 1..Len(t) /\ (i + 1) - 1 = i
      BY <1>1, <1>2, <2>1
    <3>2. Target(k, t, i) = t[i + 1]
      BY <2>1 DEF Target
    <3>3. t[i + 1] = IF i + 1 <= p THEN s[i + 1] ELSE IF i + 1 = p + 1 THEN e ELSE s[i]
      BY <1>3, <3>1
    <3>4. i < p => Target(k, t, i) = Target(k, s, i)
      BY <1>1, <3>2, <3>3 DEF Target
    <3>5. i = p => Target(k, t, i) = e
      BY <1>1, <3>2, <3>3
    <3>6. i = p + 1 => Target(k, t, i) = Target(k, s, p)
      BY <1>1, <1>2, <2>1, <3>2, <3>3 DEF Target
    <3>7. i > p + 1 => Target(k, t, i) = Target(k, s, i - 1)
      <4> SUFFICES ASSUME i > p + 1 PROVE Target(k, t, i) = Target(k, s, i - 1)
        OBVIOUS
      <4>1. i - 1 < Len(s) /\ (i - 1) + 1 = i /\ ~(i + 1 <= p) /\ i + 1 # p + 1
        BY <1>1, <1>2, <2>1
      <4>2. QED
        BY <3>2, <3>3, <4>1 DEF Target
    <3>8. QED
      BY <3>4, <3>5, <3>6, <3>7
  <2>2. CASE i = Len(t)
    <3>1. ~(i < p) /\ i # p /\ ~(i < Len(t)) /\ ~(i - 1 < Len(s)) /\ (i = p + 1 => ~(p < Len(s)))
      BY <1>1, <1>2, <2>2
    <3>2. QED
      BY <3>1 DEF Target
  <2>3. QED
    BY <1>1, <1>2, <2>1, <2>2
<1>6. ASSUME NEW i \in 1..(Len(t) + 1)
      PROVE  /\ i <= p + 1 => BackVal(k, t, i) = BackVal(k, s, i)
             /\ i = p + 2 => BackVal(k, t, i) = BackTo(k, e)
             /\ i > p + 2 => BackVal(k, t, i) = BackVal(k, s, i - 1)
  <2>1. i - 1 \in 0..Len(t)
    BY <1>1, <1>2
  <2>2. CASE k = "CIRCLEQ"
    <3>1. i # 1 => i - 1 \in 1..Len(t)
      BY <2>1
    <3>2. i # 1 => t[i - 1] = IF i - 1 <= p THEN s[i - 1]
                              ELSE IF i - 1 = p + 1 THEN e ELSE s[(i - 1) - 1]
      BY <1>3, <3>1
    <3>3. CASE i <= p + 1
      BY <1>1, <2>2, <3>2, <3>3 DEF BackVal
    <3>4. CASE i = p + 2
      <4>1. i # 1 /\ ~(i - 1 <= p) /\ i - 1 = p + 1 /\ ~(i <= p + 1) /\ ~(i > p + 2)
        BY <1>1, <3>4
      <4>2. QED
        BY <2>2, <3>2, <4>1 DEF BackVal, BackTo
    <3>5. CASE i > p + 2
      <4>1. i # 1 /\ ~(i - 1 <= p) /\ i - 1 # p + 1 /\ ~(i <= p + 1) /\ i # p + 2 /\ i - 1 # 1
        BY <1>1, <3>5
      <4>2. QED
        BY <2>2, <3>2, <4>1 DEF BackVal
    <3>6. QED
      BY <1>1, <3>3, <3>4, <3>5
  <2>3. CASE k # "CIRCLEQ"
    <3>1. BackVal(k, t, i) = Slot(t, i - 1)
      BY <2>3 DEF BackVal
    <3>2. CASE i <= p + 1
      <4>1. i - 1 <= p /\ i # p + 2 /\ ~(i > p + 2)
        BY <1>1, <3>2
      <4>2. Slot(t, i - 1) = Slot(s, i - 1)
        BY <1>4, <2>1, <4>1
      <4>3. QED
        BY <2>3, <3>1, <4>1, <4>2 DEF BackVal
    <3>3. CASE i = p + 2
      <4>1. i - 1 = p + 1 /\ ~(i <= p + 1) /\ ~(i > p + 2)
        BY <1>1, <3>3
      <4>2. Slot(t, i - 1) = Nxt(e)
        BY <1>4, <2>1, <4>1
      <4>3. QED
        BY <2>3, <3>1, <4>1, <4>2 DEF BackTo
    <3>4. CASE i > p + 2
      <4>1. i - 1 > p + 1 /\ ~(i <= p + 1) /\ i # p + 2
        BY <1>1, <3>4
      <4>2. Slot(t, i - 1) = Slot(s, (i - 1) - 1)
        BY <1>4, <2>1, <4>1
      <4>3. QED
        BY <2>3, <3>1, <4>1, <4>2 DEF BackVal
    <3>5. QED
      BY <1>1, <3>2, <3>3, <3>4
  <2>4. QED
    BY <2>2, <2>3
<1>7. QED
  BY <1>2, <1>4, <1>5, <1>6

LEMMA WithDistinct ==
  ASSUME NEW s \in Seq(Elements), Distinct(s), NEW p \in 0..Len(s), NEW e \in Elements,
         \A i \in 1..Len(s) : s[i] # e
  PROVE  Distinct(I!With(s, p, e))
<1> DEFINE t == I!With(s, p, e)
<1>1. Len(s) \in Nat /\ p \in Nat /\ p <= Len(s)
  BY LenProperties
<1>2. /\ Len(t) = Len(s) + 1
      /\ \A i \in 1..(Len(s) + 1) :
           t[i] = IF i <= p THEN s[i] ELSE IF i = p + 1 THEN e ELSE s[i - 1]
  BY WithIs
<1> HIDE DEF t
\* The i-th of the longer sequence was the old(i)-th, or is e.
<1> DEFINE old(i) == IF i <= p THEN i ELSE i - 1
<1>3. ASSUME NEW i \in 1..(Len(s) + 1)
      PROVE  i # p + 1 => old(i) \in 1..Len(s) /\ t[i] = s[old(i)]
  <2>1. CASE i <= p
    BY <1>1, <1>2, <2>1
  <2>2. CASE ~(i <= p)
    BY <1>1, <1>2, <2>2
  <2>3. QED
    BY <2>1, <2>2
<1>4. ASSUME NEW i \in 1..(Len(s) + 1), NEW j \in 1..(Len(s) + 1), t[i] = t[j]
      PROVE  i = j
  <2>1. CASE i = p + 1
    <3>1. t[i] = e
      BY <1>1, <1>2, <2>1
    <3>2. j = p + 1
      BY <1>3, <1>4, <3>1
    <3>3. QED
      BY <2>1, <3>2
  <2>2. CASE i # p + 1
    <3>1. old(i) \in 1..Len(s) /\ t[i] = s[old(i)]
      BY <1>3, <2>2
    <3>2. j # p + 1
      <4> SUFFICES ASSUME j = p + 1 PROVE FALSE
        OBVIOUS
      <4>1. t[j] = e
        BY <1>1, <1>2
      <4>2. QED
        BY <1>4, <3>1, <4>1
    <3>3. old(j) \in 1..Len(s) /\ t[j] = s[old(j)]
      BY <1>3, <3>2
    <3>4. old(i) = old(j)
      BY <1>4, <3>1, <3>3 DEF Distinct
    <3>5. QED
      BY <1>1, <2>2, <3>2, <3>4
  <2>3. QED
    BY <2>1, <2>2
<1>5. QED
  BY <1>2, <1>4 DEF Distinct, t

\* An insertion at one place inserts into the list.
LEMMA InsertKeeps ==
  ASSUME NEW k \in Kinds, NEW m \in [Locs -> Pointers], NEW s \in Seq(Elements), Distinct(s),
         Linked(k, m, s), NEW p \in 0..Len(s), NEW e \in Elements,
         \A i \in 1..Len(s) : s[i] # e,
         NEW n, Inserts(k, m, n, Slot(s, p), Target(k, s, p), BackVal(k, s, p + 1), e)
  PROVE  /\ n \in [Locs -> Pointers]
         /\ I!With(s, p, e) \in Seq(Elements) /\ Distinct(I!With(s, p, e))
         /\ Linked(k, n, I!With(s, p, e))
<1> DEFINE t == I!With(s, p, e)
<1>1. t \in Seq(Elements) /\ Distinct(t)
  BY WithIs, WithDistinct
<1>2. /\ Len(s) \in Nat /\ p \in Nat /\ p <= Len(s)
      /\ s \in [1..Len(s) -> Elements]
  BY LenProperties
<1>3. /\ Len(t) = Len(s) + 1
      /\ \A i \in 0..Len(t) :
           /\ i <= p => Slot(t, i) = Slot(s, i)
           /\ i = p + 1 => Slot(t, i) = Nxt(e)
           /\ i > p + 1 => Slot(t, i) = Slot(s, i - 1)
      /\ \A i \in 0..Len(t) :
           /\ i < p => Target(k, t, i) = Target(k, s, i)
           /\ i = p => Target(k, t, i) = e
           /\ i = p + 1 => Target(k, t, i) = Target(k, s, p)
           /\ i > p + 1 => Target(k, t, i) = Target(k, s, i - 1)
      /\ \A i \in 1..(Len(t) + 1) :
           /\ i <= p + 1 => BackVal(k, t, i) = BackVal(k, s, i)
           /\ i = p + 2 => BackVal(k, t, i) = BackTo(k, e)
           /\ i > p + 2 => BackVal(k, t, i) = BackVal(k, s, i - 1)
  BY <1>1, WithPlaces, ZenonT(60)
<1>4. \A i \in 1..Len(t) : t[i] = IF i <= p THEN s[i] ELSE IF i = p + 1 THEN e ELSE s[i - 1]
  <2>1. \A i \in 1..(Len(s) + 1) :
          I!With(s, p, e)[i] = IF i <= p THEN s[i] ELSE IF i = p + 1 THEN e ELSE s[i - 1]
    BY WithIs, ZenonT(60)
  <2>2. QED
    BY <1>3, <2>1
<1> HIDE DEF t
<1>5. ASSUME NEW i \in 0..Len(s), i # p PROVE n[Slot(s, i)] = Target(k, s, i)
  <2>1. Slot(s, i) # Slot(s, p)
    BY <1>5, SlotsDiffer
  <2>2. m[Slot(s, i)] = Target(k, s, i)
    BY DEF Linked
  <2>3. n[Slot(s, i)] = m[Slot(s, i)]
    <3>1. CASE i = 0
      BY <2>1, <3>1, SlotIs DEF Inserts
    <3>2. CASE i # 0
      <4>1. i \in 1..Len(s) /\ s[i] \in Elements /\ Slot(s, i) = Nxt(s[i])
        BY <1>2, <3>2, SlotIs
      <4>2. s[i] # e
        BY <4>1
      <4>3. QED
        BY <2>1, <4>1, <4>2 DEF Inserts
    <3>3. QED
      BY <3>1, <3>2
  <2>4. QED
    BY <2>2, <2>3
<1>6. ASSUME NEW i \in 0..Len(t) PROVE n[Slot(t, i)] = Target(k, t, i)
  <2>1. CASE i < p
    <3>1. i \in 0..Len(s) /\ i # p /\ i <= p
      BY <1>2, <2>1
    <3>2. QED
      BY <1>3, <1>5, <2>1, <3>1
  <2>2. CASE i = p
    BY <1>2, <1>3, <2>2 DEF Inserts
  <2>3. CASE i = p + 1
    BY <1>2, <1>3, <2>3 DEF Inserts
  <2>4. CASE i > p + 1
    <3>1. i - 1 \in 0..Len(s) /\ i - 1 # p
      BY <1>2, <1>3, <2>4
    <3>2. QED
      BY <1>3, <1>5, <2>4, <3>1
  <2>5. QED
    BY <1>2, <2>1, <2>2, <2>3, <2>4
\* The element behind the place, if there is one, is the next of s.
<1>7. /\ p < Len(s) => Target(k, s, p) = s[p + 1] /\ s[p + 1] \in Elements
      /\ p = Len(s) => Target(k, s, p) \notin Elements
  <2>1. p < Len(s) => p + 1 \in 1..Len(s)
    BY <1>2
  <2>2. p < Len(s) => Target(k, s, p) = s[p + 1] /\ s[p + 1] \in Elements
    BY <1>2, <2>1 DEF Target
  <2>3. p = Len(s) => ~(p < Len(s))
    BY <1>2
  <2>4. p = Len(s) => Target(k, s, p) \notin Elements
    BY <2>3, PointersAre DEF Target, End
  <2>5. QED
    BY <2>2, <2>4
<1>8. ASSUME k \in BackKinds, NEW i \in 1..Len(s), i # p + 1
      PROVE  n[Prv(s[i])] = BackVal(k, s, i)
  <2>1. s[i] \in Elements /\ s[i] # e
    BY <1>2
  <2>2. s[i] # Target(k, s, p)
    <3>1. CASE p < Len(s)
      <4>1. p + 1 \in 1..Len(s)
        BY <1>2, <3>1
      <4>2. QED
        BY <1>7, <1>8, <3>1, <4>1 DEF Distinct
    <3>2. CASE p = Len(s)
      BY <1>7, <2>1, <3>2
    <3>3. QED
      BY <1>2, <3>1, <3>2
  <2>3. n[Prv(s[i])] = m[Prv(s[i])]
    BY <1>8, <2>1, <2>2 DEF Inserts
  <2>4. QED
    BY <1>8, <2>3 DEF Linked
<1>9. ASSUME k \in BackKinds, NEW i \in 1..Len(t) PROVE n[Prv(t[i])] = BackVal(k, t, i)
  <2>1. CASE i <= p
    <3>1. i \in 1..Len(s) /\ i # p + 1 /\ i <= p + 1 /\ i \in 1..(Len(t) + 1)
      BY <1>2, <1>3, <2>1
    <3>2. t[i] = s[i] /\ BackVal(k, t, i) = BackVal(k, s, i)
      BY <1>3, <1>4, <2>1, <3>1
    <3>3. QED
      BY <1>8, <1>9, <3>1, <3>2
  <2>2. CASE i = p + 1
    <3>1. ~(i <= p) /\ i <= p + 1 /\ i \in 1..(Len(t) + 1)
      BY <1>2, <1>3, <2>2
    <3>2. t[i] = e /\ BackVal(k, t, i) = BackVal(k, s, p + 1)
      BY <1>3, <1>4, <2>2, <3>1
    <3>3. QED
      BY <1>9, <3>2 DEF Inserts
  <2>3. CASE i = p + 2
    <3>1. ~(i <= p) /\ i # p + 1 /\ i - 1 = p + 1 /\ i \in 1..(Len(t) + 1) /\ p < Len(s)
      BY <1>2, <1>3, <2>3
    <3>2. t[i] = s[p + 1] /\ BackVal(k, t, i) = BackTo(k, e)
      BY <1>3, <1>4, <2>3, <3>1
    <3>3. QED
      BY <1>7, <1>9, <3>1, <3>2 DEF Inserts
  <2>4. CASE i > p + 2
    <3>1. ~(i <= p) /\ i # p + 1 /\ i \in 1..(Len(t) + 1) /\ i - 1 \in 1..Len(s) /\ i - 1 # p + 1
      BY <1>2, <1>3, <2>4
    <3>2. t[i] = s[i - 1] /\ BackVal(k, t, i) = BackVal(k, s, i - 1)
      BY <1>3, <1>4, <2>4, <3>1
    <3>3. QED
      BY <1>8, <1>9, <3>1, <3>2
  <2>5. QED
    BY <1>2, <1>3, <2>1, <2>2, <2>3, <2>4
<1>10. ASSUME k \in LastKinds PROVE n[Last] = BackVal(k, t, Len(t) + 1)
  <2>1. Len(t) + 1 \in 1..(Len(t) + 1) /\ Len(t) + 1 = Len(s) + 2 /\ (Len(t) + 1) - 1 = Len(s) + 1
    BY <1>2, <1>3
  <2>2. CASE p = Len(s)
    <3>1. Len(t) + 1 = p + 2
      BY <2>1, <2>2
    <3>2. BackVal(k, t, Len(t) + 1) = BackTo(k, e)
      BY <1>3, <2>1, <3>1
    <3>3. QED
      BY <1>7, <1>10, <2>2, <3>2 DEF Inserts
  <2>3. CASE p < Len(s)
    <3>1. Len(t) + 1 > p + 2
      BY <1>2, <2>1, <2>3
    <3>2. BackVal(k, t, Len(t) + 1) = BackVal(k, s, Len(s) + 1)
      BY <1>3, <2>1, <3>1
    <3>3. n[Last] = m[Last]
      BY <1>7, <1>10, <2>3 DEF Inserts
    <3>4. QED
      BY <1>10, <3>2, <3>3 DEF Linked
  <2>4. QED
    BY <1>2, <2>2, <2>3
<1>11. Linked(k, n, t)
  BY <1>6, <1>9, <1>10 DEF Linked
<1>12. QED
  BY <1>1, <1>11 DEF t, Inserts

\* The places of s without its p-th element.
LEMMA WithoutPlaces ==
  ASSUME NEW k, NEW s \in Seq(Elements), NEW p \in 1..Len(s),
         NEW t \in Seq(Elements), t = I!Without(s, p)
  PROVE  /\ Len(t) = Len(s) - 1
         /\ \A i \in 1..Len(t) : t[i] = IF i < p THEN s[i] ELSE s[i + 1]
         /\ \A i \in 0..Len(t) :
              /\ i < p => Slot(t, i) = Slot(s, i)
              /\ i >= p => Slot(t, i) = Slot(s, i + 1)
         /\ \A i \in 0..Len(t) :
              /\ i < p - 1 => Target(k, t, i) = Target(k, s, i)
              /\ i >= p - 1 => Target(k, t, i) = Target(k, s, i + 1)
         /\ \A i \in 1..(Len(t) + 1) :
              /\ i <= p => BackVal(k, t, i) = BackVal(k, s, i)
              /\ i > p => BackVal(k, t, i) = BackVal(k, s, i + 1)
<1>1. Len(s) \in Nat /\ p \in Nat /\ 1 <= p /\ p <= Len(s)
  BY LenProperties
<1>2. /\ Len(t) = Len(s) - 1
      /\ \A i \in 1..(Len(s) - 1) : I!Without(s, p)[i] = IF i < p THEN s[i] ELSE s[i + 1]
  BY WithoutIs
<1>3. ASSUME NEW i \in 1..Len(t) PROVE t[i] = IF i < p THEN s[i] ELSE s[i + 1]
  BY <1>2
<1>4. ASSUME NEW i \in 0..Len(t)
      PROVE  /\ i < p => Slot(t, i) = Slot(s, i)
             /\ i >= p => Slot(t, i) = Slot(s, i + 1)
  <2>1. CASE i = 0
    BY <1>1, <2>1 DEF Slot
  <2>2. CASE i # 0
    <3>1. i \in 1..Len(t) /\ i + 1 # 0
      BY <1>1, <1>2, <2>2
    <3>2. Slot(t, i) = Nxt(t[i])
      BY <2>2 DEF Slot
    <3>3. i < p => t[i] = s[i]
      BY <1>3, <3>1
    <3>4. i >= p => t[i] = s[i + 1]
      BY <1>1, <1>3, <3>1
    <3>5. QED
      BY <2>2, <3>1, <3>2, <3>3, <3>4 DEF Slot
  <2>3. QED
    BY <2>1, <2>2
<1>5. ASSUME NEW i \in 0..Len(t)
      PROVE  /\ i < p - 1 => Target(k, t, i) = Target(k, s, i)
             /\ i >= p - 1 => Target(k, t, i) = Target(k, s, i + 1)
  <2>1. CASE i < Len(t)
    <3>1. i + 1 \in 1..Len(t)
      BY <1>1, <1>2, <2>1
    <3>2. Target(k, t, i) = t[i + 1]
      BY <2>1 DEF Target
    <3>3. t[i + 1] = IF i + 1 < p THEN s[i + 1] ELSE s[(i + 1) + 1]
      BY <1>3, <3>1
    <3>4. i < Len(s) /\ i + 1 < Len(s)
      BY <1>1, <1>2, <2>1
    <3>5. i < p - 1 => i + 1 < p
      BY <1>1
    <3>6. i >= p - 1 => ~(i + 1 < p)
      BY <1>1
    <3>7. QED
      BY <3>2, <3>3, <3>4, <3>5, <3>6 DEF Target
  <2>2. CASE i = Len(t)
    <3>1. ~(i < p - 1) /\ ~(i < Len(t)) /\ ~(i + 1 < Len(s))
      BY <1>1, <1>2, <2>2
    <3>2. QED
      BY <3>1 DEF Target
  <2>3. i < Len(t) \/ i = Len(t)
    BY <1>1, <1>2
  <2>4. QED
    BY <2>1, <2>2, <2>3
<1>6. ASSUME NEW i \in 1..(Len(t) + 1)
      PROVE  /\ i <= p => BackVal(k, t, i) = BackVal(k, s, i)
             /\ i > p => BackVal(k, t, i) = BackVal(k, s, i + 1)
  <2>1. i - 1 \in 0..Len(t) /\ (i + 1) - 1 = i /\ i + 1 # 1 /\ (i - 1) + 1 = i
    BY <1>1, <1>2
  <2>2. CASE k = "CIRCLEQ"
    <3>1. i # 1 => i - 1 \in 1..Len(t)
      BY <2>1
    <3>2. i # 1 => t[i - 1] = IF i - 1 < p THEN s[i - 1] ELSE s[(i - 1) + 1]
      BY <1>3, <3>1
    <3>3. CASE i <= p
      <4>1. i - 1 < p /\ ~(i > p)
        BY <1>1, <3>3
      <4>2. QED
        BY <2>2, <3>2, <4>1 DEF BackVal
    <3>4. CASE i > p
      <4>1. ~(i - 1 < p) /\ ~(i <= p) /\ i # 1
        BY <1>1, <3>4
      <4>2. t[i - 1] = s[i]
        BY <2>1, <3>2, <4>1
      <4>3. QED
        BY <2>1, <2>2, <4>1, <4>2 DEF BackVal
    <3>5. QED
      BY <1>1, <3>3, <3>4
  <2>3. CASE k # "CIRCLEQ"
    <3>1. BackVal(k, t, i) = Slot(t, i - 1)
      BY <2>3 DEF BackVal
    <3>2. CASE i <= p
      <4>1. i - 1 < p /\ ~(i > p)
        BY <1>1, <3>2
      <4>2. Slot(t, i - 1) = Slot(s, i - 1)
        BY <1>4, <2>1, <4>1
      <4>3. QED
        BY <2>3, <3>1, <4>1, <4>2 DEF BackVal
    <3>3. CASE i > p
      <4>1. i - 1 >= p /\ ~(i <= p)
        BY <1>1, <3>3
      <4>2. Slot(t, i - 1) = Slot(s, (i - 1) + 1)
        BY <1>4, <2>1, <4>1
      <4>3. QED
        BY <2>1, <2>3, <3>1, <4>1, <4>2 DEF BackVal
    <3>4. QED
      BY <1>1, <3>2, <3>3
  <2>4. QED
    BY <2>2, <2>3
<1>7. QED
  BY <1>2, <1>3, <1>4, <1>5, <1>6

LEMMA WithoutDistinct ==
  ASSUME NEW s \in Seq(Elements), Distinct(s), NEW p \in 1..Len(s)
  PROVE  Distinct(I!Without(s, p))
<1> DEFINE t == I!Without(s, p)
           old(i) == IF i < p THEN i ELSE i + 1
<1>1. Len(s) \in Nat /\ p \in Nat /\ 1 <= p /\ p <= Len(s)
  BY LenProperties
<1>2. /\ Len(t) = Len(s) - 1
      /\ \A i \in 1..(Len(s) - 1) : t[i] = IF i < p THEN s[i] ELSE s[i + 1]
  BY WithoutIs
<1> HIDE DEF t
<1>3. ASSUME NEW i \in 1..Len(t) PROVE old(i) \in 1..Len(s) /\ t[i] = s[old(i)]
  <2>1. i \in 1..(Len(s) - 1)
    BY <1>2
  <2>2. CASE i < p
    BY <1>1, <1>2, <2>1, <2>2
  <2>3. CASE ~(i < p)
    BY <1>1, <1>2, <2>1, <2>3
  <2>4. QED
    BY <2>2, <2>3
<1>4. ASSUME NEW i \in 1..Len(t), NEW j \in 1..Len(t), t[i] = t[j] PROVE i = j
  <2>1. old(i) = old(j)
    BY <1>3, <1>4 DEF Distinct
  <2>2. QED
    BY <1>1, <2>1
<1>5. QED
  BY <1>4 DEF Distinct, t

\* A removal at one place removes from the list.
LEMMA TakeKeeps ==
  ASSUME NEW k \in Kinds, NEW m \in [Locs -> Pointers], NEW s \in Seq(Elements), Distinct(s),
         Linked(k, m, s), NEW p \in 1..Len(s),
         NEW n, Takes(k, m, n, Slot(s, p - 1), Target(k, s, p), BackVal(k, s, p))
  PROVE  /\ n \in [Locs -> Pointers]
         /\ I!Without(s, p) \in Seq(Elements) /\ Distinct(I!Without(s, p))
         /\ Linked(k, n, I!Without(s, p))
<1> DEFINE t == I!Without(s, p)
<1>1. t \in Seq(Elements) /\ Distinct(t)
  BY WithoutIs, WithoutDistinct
<1>2. /\ Len(s) \in Nat /\ p \in Nat /\ 1 <= p /\ p <= Len(s) /\ p - 1 \in 0..Len(s)
      /\ s \in [1..Len(s) -> Elements]
  BY LenProperties
<1>12. p < Len(s) \/ p = Len(s)
  <2>1. p \in Int /\ Len(s) \in Int /\ p <= Len(s)
    BY <1>2
  <2>2. QED
    BY <2>1
<1>3. /\ Len(t) = Len(s) - 1
      /\ \A i \in 1..Len(t) : t[i] = IF i < p THEN s[i] ELSE s[i + 1]
      /\ \A i \in 0..Len(t) :
           /\ i < p => Slot(t, i) = Slot(s, i)
           /\ i >= p => Slot(t, i) = Slot(s, i + 1)
      /\ \A i \in 0..Len(t) :
           /\ i < p - 1 => Target(k, t, i) = Target(k, s, i)
           /\ i >= p - 1 => Target(k, t, i) = Target(k, s, i + 1)
      /\ \A i \in 1..(Len(t) + 1) :
           /\ i <= p => BackVal(k, t, i) = BackVal(k, s, i)
           /\ i > p => BackVal(k, t, i) = BackVal(k, s, i + 1)
  BY <1>1, WithoutPlaces
<1> HIDE DEF t
<1>4. ASSUME NEW i \in 0..Len(s), i # p - 1 PROVE n[Slot(s, i)] = Target(k, s, i)
  <2>1. Slot(s, i) # Slot(s, p - 1)
    BY <1>2, <1>4, SlotsDiffer
  <2>2. m[Slot(s, i)] = Target(k, s, i)
    BY DEF Linked
  <2>3. n[Slot(s, i)] = m[Slot(s, i)]
    <3>1. CASE i = 0
      BY <2>1, <3>1, SlotIs DEF Takes
    <3>2. CASE i # 0
      <4>1. s[i] \in Elements /\ Slot(s, i) = Nxt(s[i])
        BY <3>2, SlotIs
      <4>2. QED
        BY <2>1, <4>1 DEF Takes
    <3>3. QED
      BY <3>1, <3>2
  <2>4. QED
    BY <2>2, <2>3
<1>5. ASSUME NEW i \in 0..Len(t) PROVE n[Slot(t, i)] = Target(k, t, i)
  <2>1. CASE i < p - 1
    <3>1. i \in 0..Len(s) /\ i # p - 1 /\ i < p
      BY <1>2, <1>3, <2>1
    <3>2. QED
      BY <1>3, <1>4, <2>1, <3>1
  <2>2. CASE i = p - 1
    <3>1. i < p /\ i >= p - 1 /\ i + 1 = p
      BY <1>2, <2>2
    <3>2. Slot(t, i) = Slot(s, p - 1) /\ Target(k, t, i) = Target(k, s, p)
      BY <1>3, <2>2, <3>1
    <3>3. QED
      BY <3>2 DEF Takes
  <2>3. CASE i > p - 1
    <3>1. i >= p /\ i >= p - 1 /\ i + 1 \in 0..Len(s) /\ i + 1 # p - 1
      BY <1>2, <1>3, <2>3
    <3>2. QED
      BY <1>3, <1>4, <3>1
  <2>4. QED
    BY <1>2, <2>1, <2>2, <2>3
<1>6. /\ p < Len(s) => Target(k, s, p) = s[p + 1] /\ s[p + 1] \in Elements
      /\ p = Len(s) => Target(k, s, p) \notin Elements
  <2>1. p < Len(s) => p + 1 \in 1..Len(s)
    BY <1>2
  <2>2. p < Len(s) => Target(k, s, p) = s[p + 1] /\ s[p + 1] \in Elements
    BY <1>2, <2>1 DEF Target
  <2>3. p = Len(s) => ~(p < Len(s))
    BY <1>2
  <2>4. p = Len(s) => Target(k, s, p) \notin Elements
    BY <2>3, PointersAre DEF Target, End
  <2>5. QED
    BY <2>2, <2>4
<1>7. ASSUME k \in BackKinds, NEW i \in 1..Len(s), i # p + 1
      PROVE  n[Prv(s[i])] = BackVal(k, s, i)
  <2>1. s[i] \in Elements
    BY <1>2
  <2>2. s[i] # Target(k, s, p)
    <3>1. CASE p < Len(s)
      <4>1. p + 1 \in 1..Len(s)
        BY <1>2, <3>1
      <4>2. QED
        BY <1>6, <1>7, <3>1, <4>1 DEF Distinct
    <3>2. CASE p = Len(s)
      BY <1>6, <2>1, <3>2
    <3>3. QED
      BY <1>12, <3>1, <3>2
  <2>3. n[Prv(s[i])] = m[Prv(s[i])]
    BY <1>7, <2>1, <2>2 DEF Takes
  <2>4. QED
    BY <1>7, <2>3 DEF Linked
<1>8. ASSUME k \in BackKinds, NEW i \in 1..Len(t) PROVE n[Prv(t[i])] = BackVal(k, t, i)
  <2>1. CASE i < p
    <3>1. i \in 1..Len(s) /\ i # p + 1 /\ i <= p /\ i \in 1..(Len(t) + 1)
      BY <1>2, <1>3, <2>1
    <3>2. t[i] = s[i] /\ BackVal(k, t, i) = BackVal(k, s, i)
      BY <1>3, <2>1, <3>1
    <3>3. QED
      BY <1>7, <1>8, <3>1, <3>2
  <2>2. CASE i = p
    <3>1. ~(i < p) /\ i <= p /\ i \in 1..(Len(t) + 1) /\ p < Len(s)
      BY <1>2, <1>3, <2>2
    <3>2. t[i] = s[p + 1] /\ BackVal(k, t, i) = BackVal(k, s, p)
      BY <1>3, <2>2, <3>1
    <3>3. QED
      BY <1>6, <1>8, <3>1, <3>2 DEF Takes
  <2>3. CASE i > p
    <3>1. ~(i < p) /\ i \in 1..(Len(t) + 1) /\ i + 1 \in 1..Len(s) /\ i + 1 # p + 1
      BY <1>2, <1>3, <2>3
    <3>2. t[i] = s[i + 1] /\ BackVal(k, t, i) = BackVal(k, s, i + 1)
      BY <1>3, <2>3, <3>1
    <3>3. QED
      BY <1>7, <1>8, <3>1, <3>2
  <2>4. QED
    BY <1>2, <2>1, <2>2, <2>3
<1>9. ASSUME k \in LastKinds PROVE n[Last] = BackVal(k, t, Len(t) + 1)
  <2>1. Len(t) + 1 \in 1..(Len(t) + 1) /\ Len(t) + 1 = Len(s)
    BY <1>2, <1>3
  <2>2. CASE p = Len(s)
    <3>1. Len(t) + 1 <= p
      BY <1>2, <2>1, <2>2
    <3>2. BackVal(k, t, Len(t) + 1) = BackVal(k, s, p)
      BY <1>3, <2>1, <2>2, <3>1
    <3>3. QED
      BY <1>6, <1>9, <2>2, <3>2 DEF Takes
  <2>3. CASE p < Len(s)
    <3>1. Len(t) + 1 > p
      BY <1>2, <2>1, <2>3
    <3>2. BackVal(k, t, Len(t) + 1) = BackVal(k, s, Len(s) + 1)
      BY <1>3, <2>1, <3>1
    <3>3. n[Last] = m[Last]
      BY <1>6, <1>9, <2>3 DEF Takes
    <3>4. QED
      BY <1>9, <3>2, <3>3 DEF Linked
  <2>4. QED
    BY <1>12, <2>2, <2>3
<1>10. Linked(k, n, t)
  BY <1>5, <1>8, <1>9 DEF Linked
<1>11. QED
  BY <1>1, <1>10 DEF t, Takes

-----------------------------------------------------------------------------
(* The operations.                                                         *)

\* The list's memory is linked as the elements that FOREACH comes by, none of
\* them twice.
ListInv ==
  /\ kind \in Kinds
  /\ mem \in [Locs -> Pointers]
  /\ items \in Seq(Elements)
  /\ Distinct(items)
  /\ Linked(kind, mem, items)

\* A place of the list as an element that is not in it sees it.
LEMMA PlaceFacts ==
  ASSUME ListInv, NEW p \in 0..Len(items), NEW e \in Elements, e \notin Members
  PROVE  /\ Gap(kind, mem, Slot(items, p), Target(kind, items, p), BackVal(kind, items, p + 1))
         /\ Slot(items, p) # Nxt(e) /\ Target(kind, items, p) # e
         /\ \A i \in 1..Len(items) : items[i] # e
<1>1. \A i \in 1..Len(items) : items[i] # e
  BY DEF Members
<1>2. Len(items) \in Nat /\ p \in Nat
  BY LenProperties DEF ListInv
<1>3. Slot(items, p) # Nxt(e)
  <2>1. p # 0 => p \in 1..Len(items)
    BY <1>2
  <2>2. QED
    BY <1>1, <2>1, SlotIs, Locations DEF ListInv
<1>4. Target(kind, items, p) # e
  <2>1. CASE p < Len(items)
    <3>1. p + 1 \in 1..Len(items)
      BY <1>2, <2>1
    <3>2. QED
      BY <1>1, <2>1, <3>1 DEF Target
  <2>2. CASE ~(p < Len(items))
    BY <2>2, PointersAre DEF Target, End
  <2>3. QED
    BY <2>1, <2>2
<1>5. Gap(kind, mem, Slot(items, p), Target(kind, items, p), BackVal(kind, items, p + 1))
  BY GapOf DEF ListInv
<1>6. QED
  BY <1>1, <1>3, <1>4, <1>5

\* What a macro that inserts at a place does to the list.
LEMMA Inserted ==
  ASSUME ListInv, NEW p \in 0..Len(items), NEW e \in Elements, e \notin Members, kind' = kind,
         Inserts(kind, mem, mem', Slot(items, p), Target(kind, items, p),
                 BackVal(kind, items, p + 1), e)
  PROVE  ListInv' /\ items' = I!With(items, p, e)
<1> DEFINE t == I!With(items, p, e)
<1>1. \A i \in 1..Len(items) : items[i] # e
  BY DEF Members
<1>2. mem' \in [Locs -> Pointers] /\ t \in Seq(Elements) /\ Distinct(t) /\ Linked(kind, mem', t)
  BY <1>1, InsertKeeps DEF ListInv
<1> HIDE DEF t
<1>3. Chain(mem') = t
  BY <1>2, ChainIs
<1>4. items' = t
  BY <1>3 DEF items
<1>5. ListInv'
  BY <1>2, <1>4 DEF ListInv
<1>6. QED
  BY <1>4, <1>5 DEF t

LEMMA HeadInserts ==
  ASSUME ListInv, NEW e \in Elements, e \notin Members
  PROVE  Inserts(kind, mem, InsertedAtHead(e), Slot(items, 0), Target(kind, items, 0),
                 BackVal(kind, items, 0 + 1), e)
<1> DEFINE q == Target(kind, items, 0)
<1>1. Len(items) \in Nat /\ items \in [1..Len(items) -> Elements] /\ 0 \in 0..Len(items)
  BY LenProperties DEF ListInv
<1>2. Slot(items, 0) = First /\ BackVal(kind, items, 0 + 1) = IF kind = "CIRCLEQ" THEN ListHead ELSE First
  BY DEF Slot, BackVal
<1>3. Gap(kind, mem, First, q, BackVal(kind, items, 0 + 1)) /\ e # q
  BY <1>1, <1>2, PlaceFacts
<1>4. kind = "CIRCLEQ" => (mem[Last] = ListHead <=> q \notin Elements)
  <2> SUFFICES ASSUME kind = "CIRCLEQ" PROVE mem[Last] = ListHead <=> q \notin Elements
    OBVIOUS
  <2>1. mem[Last] = BackVal(kind, items, Len(items) + 1)
    BY DEF ListInv, Linked, LastKinds
  <2>2. CASE Len(items) = 0
    BY <2>1, <2>2, PointersAre DEF BackVal, Target, End
  <2>3. CASE Len(items) # 0
    <3>1. /\ 1 \in 1..Len(items) /\ 0 < Len(items) /\ 0 + 1 = 1
          /\ Len(items) \in 1..Len(items) /\ Len(items) + 1 # 1 /\ (Len(items) + 1) - 1 = Len(items)
      BY <1>1, <2>3
    <3>2. q = items[1] /\ mem[Last] = items[Len(items)]
      BY <2>1, <3>1 DEF BackVal, Target
    <3>3. QED
      BY <1>1, <3>1, <3>2, PointersAre
  <2>4. QED
    BY <2>2, <2>3
<1> HIDE DEF q
<1>5. CASE kind = "SLIST"
  <2>1. InsertedAtHead(e) = SLIST_INSERT_HEAD(mem, e)
    BY <1>5 DEF InsertedAtHead
  <2>2. QED
    BY <1>2, <1>3, <1>5, <2>1, SlistInsertHead DEF q
<1>6. CASE kind = "LIST"
  <2>1. InsertedAtHead(e) = LIST_INSERT_HEAD(mem, e)
    BY <1>6 DEF InsertedAtHead
  <2>2. QED
    BY <1>2, <1>3, <1>6, <2>1, ListInsertHead DEF q
<1>7. CASE kind = "SIMPLEQ"
  <2>1. InsertedAtHead(e) = SIMPLEQ_INSERT_HEAD(mem, e)
    BY <1>7 DEF InsertedAtHead
  <2>2. QED
    BY <1>2, <1>3, <1>7, <2>1, SimpleqInsertHead DEF q
<1>8. CASE kind = "TAILQ"
  <2>1. InsertedAtHead(e) = TAILQ_INSERT_HEAD(mem, e)
    BY <1>8 DEF InsertedAtHead
  <2>2. QED
    BY <1>2, <1>3, <1>8, <2>1, TailqInsertHead DEF q
<1>9. CASE kind = "CIRCLEQ"
  <2>1. InsertedAtHead(e) = CIRCLEQ_INSERT_HEAD(mem, e)
    BY <1>9 DEF InsertedAtHead
  <2>2. QED
    BY <1>2, <1>3, <1>4, <1>9, <2>1, CircleqInsertHead DEF q
<1>10. QED
  BY <1>5, <1>6, <1>7, <1>8, <1>9 DEF ListInv, Kinds

LEMMA AfterInserts ==
  ASSUME ListInv, NEW e \in Elements, e \notin Members, NEW p \in 1..Len(items)
  PROVE  Inserts(kind, mem, InsertedAfter(items[p], e), Slot(items, p), Target(kind, items, p),
                 BackVal(kind, items, p + 1), e)
<1> DEFINE q == Target(kind, items, p)
           l == items[p]
<1>1. Len(items) \in Nat /\ items \in [1..Len(items) -> Elements] /\ p \in 0..Len(items) /\ p # 0
  BY LenProperties DEF ListInv
<1>2. l \in Elements /\ e # l
  BY <1>1 DEF Members
<1>3. p + 1 # 1 /\ (p + 1) - 1 = p
  BY <1>1
<1>4. Slot(items, p) = Nxt(l) /\ BackVal(kind, items, p + 1) = IF kind = "CIRCLEQ" THEN l ELSE Nxt(l)
  BY <1>1, <1>3 DEF Slot, BackVal
<1>5. Gap(kind, mem, Nxt(l), q, BackVal(kind, items, p + 1)) /\ e # q
  BY <1>1, <1>4, PlaceFacts
<1> HIDE DEF q, l
<1>6. SUFFICES Inserts(kind, mem, InsertedAfter(l, e), Nxt(l), q, BackVal(kind, items, p + 1), e)
  BY <1>4 DEF q, l
<1>7. CASE kind = "SLIST"
  <2>1. InsertedAfter(l, e) = SLIST_INSERT_AFTER(mem, l, e)
    BY <1>7 DEF InsertedAfter
  <2>2. QED
    BY <1>2, <1>4, <1>5, <1>7, <2>1, SlistInsertAfter
<1>8. CASE kind = "LIST"
  <2>1. InsertedAfter(l, e) = LIST_INSERT_AFTER(mem, l, e)
    BY <1>8 DEF InsertedAfter
  <2>2. QED
    BY <1>2, <1>4, <1>5, <1>8, <2>1, ListInsertAfter
<1>9. CASE kind = "SIMPLEQ"
  <2>1. InsertedAfter(l, e) = SIMPLEQ_INSERT_AFTER(mem, l, e)
    BY <1>9 DEF InsertedAfter
  <2>2. QED
    BY <1>2, <1>4, <1>5, <1>9, <2>1, SimpleqInsertAfter
<1>10. CASE kind = "TAILQ"
  <2>1. InsertedAfter(l, e) = TAILQ_INSERT_AFTER(mem, l, e)
    BY <1>10 DEF InsertedAfter
  <2>2. QED
    BY <1>2, <1>4, <1>5, <1>10, <2>1, TailqInsertAfter
<1>11. CASE kind = "CIRCLEQ"
  <2>1. InsertedAfter(l, e) = CIRCLEQ_INSERT_AFTER(mem, l, e)
    BY <1>11 DEF InsertedAfter
  <2>2. QED
    BY <1>2, <1>4, <1>5, <1>11, <2>1, CircleqInsertAfter
<1>12. QED
  BY <1>7, <1>8, <1>9, <1>10, <1>11 DEF ListInv, Kinds

\* In front of the element that follows the place.
LEMMA BeforeInserts ==
  ASSUME ListInv, NEW e \in Elements, e \notin Members,
         NEW p \in 0..Len(items), NEW l \in Elements, Target(kind, items, p) = l,
         NEW n, \/ kind \in {"LIST", "TAILQ"} /\ n = LIST_INSERT_BEFORE(mem, l, e)
                \/ kind = "CIRCLEQ" /\ n = CIRCLEQ_INSERT_BEFORE(mem, l, e)
  PROVE  Inserts(kind, mem, n, Slot(items, p), l, BackVal(kind, items, p + 1), e)
<1> DEFINE at == Slot(items, p)
           back == BackVal(kind, items, p + 1)
<1>1. Gap(kind, mem, at, l, back) /\ at # Nxt(e) /\ l # e
  BY PlaceFacts
<1> HIDE DEF at, back
<1>2. SUFFICES Inserts(kind, mem, n, at, l, back, e)
  BY DEF at, back
<1>3. CASE kind \in {"LIST", "TAILQ"} /\ n = LIST_INSERT_BEFORE(mem, l, e)
  <2>1. back = at
    BY <1>1, <1>3 DEF Gap
  <2>2. QED
    BY <1>1, <1>3, <2>1, ListInsertBefore
<1>4. CASE kind = "CIRCLEQ" /\ n = CIRCLEQ_INSERT_BEFORE(mem, l, e)
  BY <1>1, <1>4, CircleqInsertBefore
<1>5. QED
  BY <1>3, <1>4

LEMMA TailInserts ==
  ASSUME ListInv, NEW e \in Elements, e \notin Members,
         NEW n, \/ kind = "SIMPLEQ" /\ n = SIMPLEQ_INSERT_TAIL(mem, e)
                \/ kind = "TAILQ" /\ n = TAILQ_INSERT_TAIL(mem, e)
                \/ kind = "CIRCLEQ" /\ n = CIRCLEQ_INSERT_TAIL(mem, e)
  PROVE  Inserts(kind, mem, n, Slot(items, Len(items)), Target(kind, items, Len(items)),
                 BackVal(kind, items, Len(items) + 1), e)
<1> DEFINE at == Slot(items, Len(items))
           back == BackVal(kind, items, Len(items) + 1)
<1>1. /\ Len(items) \in Nat /\ items \in [1..Len(items) -> Elements]
      /\ Len(items) \in 0..Len(items) /\ ~(Len(items) < Len(items))
  BY LenProperties DEF ListInv
<1>2. Target(kind, items, Len(items)) = End(kind)
  BY <1>1 DEF Target
<1>3. Gap(kind, mem, at, End(kind), back) /\ at # Nxt(e)
  BY <1>1, <1>2, PlaceFacts
<1>4. kind = "CIRCLEQ" => (mem[First] = ListHead <=> at = First)
  <2> SUFFICES ASSUME kind = "CIRCLEQ" PROVE mem[First] = ListHead <=> at = First
    OBVIOUS
  <2>1. 0 \in 0..Len(items)
    BY <1>1
  <2>2. mem[First] = Target(kind, items, 0)
    BY <2>1 DEF ListInv, Linked, Slot
  <2>3. CASE Len(items) = 0
    BY <2>2, <2>3 DEF Slot, Target, End
  <2>4. CASE Len(items) # 0
    <3>1. 0 < Len(items) /\ 0 + 1 = 1 /\ 1 \in 1..Len(items) /\ Len(items) \in 1..Len(items)
      BY <1>1, <2>4
    <3>2. mem[First] = items[1] /\ at = Nxt(items[Len(items)])
      BY <2>2, <2>4, <3>1 DEF Slot, Target
    <3>3. QED
      BY <1>1, <3>1, <3>2, PointersAre, Locations
  <2>5. QED
    BY <2>3, <2>4
<1> HIDE DEF at, back
<1>5. SUFFICES Inserts(kind, mem, n, at, End(kind), back, e)
  BY <1>2 DEF at, back
<1>6. CASE kind = "SIMPLEQ" /\ n = SIMPLEQ_INSERT_TAIL(mem, e)
  <2>1. back = at /\ End(kind) = Null
    BY <1>3, <1>6 DEF Gap, End
  <2>2. QED
    BY <1>3, <1>6, <2>1, SimpleqInsertTail
<1>7. CASE kind = "TAILQ" /\ n = TAILQ_INSERT_TAIL(mem, e)
  <2>1. back = at /\ End(kind) = Null
    BY <1>3, <1>7 DEF Gap, End
  <2>2. QED
    BY <1>3, <1>7, <2>1, TailqInsertTail
<1>8. CASE kind = "CIRCLEQ" /\ n = CIRCLEQ_INSERT_TAIL(mem, e)
  <2>1. End(kind) = ListHead
    BY <1>8 DEF End
  <2>2. QED
    BY <1>3, <1>4, <1>8, <2>1, CircleqInsertTail
<1>9. QED
  BY <1>6, <1>7, <1>8

\* What a removal does to the list and to the element it takes out.
LEMMA RemovedIs ==
  ASSUME ListInv, NEW p \in 1..Len(items), CanRemove(items[p])
  PROVE  /\ Takes(kind, mem, Removed(items[p]), Slot(items, p - 1), Target(kind, items, p),
                  BackVal(kind, items, p))
         /\ Removed(items[p])[Nxt(items[p])] = Target(kind, items, p)
<1> DEFINE at == Slot(items, p - 1)
           q == Target(kind, items, p)
           back == BackVal(kind, items, p)
           e == items[p]
<1>1. /\ Len(items) \in Nat /\ items \in [1..Len(items) -> Elements]
      /\ p \in Nat /\ p # 0 /\ p \in 0..Len(items) /\ p - 1 \in 0..Len(items) /\ p - 1 < Len(items)
      /\ (p - 1) + 1 = p /\ p # p - 1 /\ (p + 1) - 1 = p /\ p + 1 # 1
  BY LenProperties DEF ListInv
<1>2. e \in Elements /\ Slot(items, p) = Nxt(e) /\ Target(kind, items, p - 1) = e
  BY <1>1 DEF Slot, Target
<1>3. Gap(kind, mem, at, e, back)
  BY <1>1, <1>2, GapOf DEF ListInv
<1>4. Gap(kind, mem, Nxt(e), q, BackVal(kind, items, p + 1))
  BY <1>1, <1>2, GapOf DEF ListInv
<1>5. BackVal(kind, items, p + 1) = IF kind = "CIRCLEQ" THEN e ELSE Nxt(e)
  BY <1>1, <1>2 DEF BackVal
<1>6. at # Nxt(e)
  BY <1>1, <1>2, SlotsDiffer DEF ListInv
<1>7. e # q
  <2>1. CASE p < Len(items)
    <3>1. p + 1 \in 1..Len(items) /\ p + 1 # p
      BY <1>1, <2>1
    <3>2. q = items[p + 1]
      BY <2>1 DEF Target
    <3>3. QED
      BY <3>1, <3>2 DEF ListInv, Distinct
  <2>2. CASE ~(p < Len(items))
    BY <1>2, <2>2, PointersAre DEF Target, End
  <2>3. QED
    BY <2>1, <2>2
<1>8. kind # "CIRCLEQ" => back = at
  BY <1>3 DEF Gap
<1>9. at = First <=> p = 1
  <2>1. p - 1 = 0 <=> p = 1
    BY <1>1
  <2>2. QED
    BY <1>1, <2>1, SlotIs, Locations DEF ListInv
<1>10. /\ p = 1 => mem[First] = e
       /\ p # 1 => /\ p - 1 \in 1..Len(items) /\ items[p - 1] \in Elements
                   /\ at = Nxt(items[p - 1])
                   /\ mem[First] # e /\ items[p - 1] # e
  <2>1. mem[at] = e
    BY <1>3 DEF Gap
  <2>2. p # 1 => p - 1 \in 1..Len(items) /\ at = Nxt(items[p - 1]) /\ items[p - 1] \in Elements
    <3>1. p # 1 => p - 1 \in 1..Len(items) /\ p - 1 # 0
      BY <1>1
    <3>2. QED
      BY <1>1, <3>1 DEF Slot
  <2>3. p # 1 => mem[First] # e
    <3>1. p # 1 => 0 < Len(items) /\ 0 + 1 = 1 /\ 1 \in 1..Len(items) /\ 0 \in 0..Len(items)
      BY <1>1
    <3>2. p # 1 => mem[First] = items[1]
      BY <3>1 DEF ListInv, Linked, Slot, Target
    <3>3. QED
      BY <3>1, <3>2 DEF ListInv, Distinct
  <2>4. p # 1 => items[p - 1] # e
    BY <1>1, <2>2 DEF ListInv, Distinct
  <2>5. QED
    BY <1>9, <2>1, <2>2, <2>3, <2>4
<1>11. Chain(mem) = items
  BY DEF items
<1>12. p # 1 => Before(mem, e) = items[p - 1]
  <2> SUFFICES ASSUME p # 1 PROVE Before(mem, e) = items[p - 1]
    OBVIOUS
  <2>1. p - 1 \in 1..Len(items) /\ mem[Nxt(items[p - 1])] = e
    BY <1>3, <1>10 DEF Gap
  <2>2. ASSUME NEW i \in 1..Len(items), mem[Nxt(items[i])] = e PROVE i = p - 1
    <3>1. i \in 0..Len(items) /\ i # 0 /\ i \in Nat
      BY <1>1
    <3>2. mem[Slot(items, i)] = Target(kind, items, i) /\ Slot(items, i) = Nxt(items[i])
      BY <3>1 DEF ListInv, Linked, Slot
    <3>3. i < Len(items) /\ items[i + 1] = e
      BY <1>2, <2>2, <3>2, PointersAre DEF Target, End
    <3>4. i + 1 \in 1..Len(items)
      BY <1>1, <3>1, <3>3
    <3>5. i + 1 = p
      BY <3>3, <3>4 DEF ListInv, Distinct
    <3>6. QED
      BY <1>1, <3>1, <3>5
  <2> DEFINE P(i) == mem[Nxt(items[i])] = e
             D == 1..Len(items)
             c == CHOOSE i \in D : P(i)
  <2>3. P(p - 1) /\ p - 1 \in D /\ \A i \in D : P(i) => i = p - 1
    BY <2>1, <2>2
  <2>4. Before(mem, e) = items[c]
    BY <1>11, Zenon DEF Before
  <2> HIDE DEF P, D, e
  <2>5. c = p - 1
    BY <2>3, Zenon
  <2> HIDE DEF c
  <2>6. QED
    BY <2>4, <2>5
<1>13. CanRemove(e)
  OBVIOUS
<1> HIDE DEF at, q, back, e
<1>14. Takes(kind, mem, Removed(e), at, q, back)
  <2>1. CASE kind = "SLIST"
    <3>1. Removed(e) = SLIST_REMOVE(mem, e)
      BY <2>1 DEF Removed
    <3>2. CASE p = 1
      BY <1>2, <1>3, <1>4, <1>5, <1>7, <1>8, <1>9, <2>1, <3>1, <3>2, SlistTakeFirst
    <3>3. CASE p # 1
      BY <1>2, <1>3, <1>4, <1>5, <1>7, <1>8, <1>10, <1>12, <2>1, <3>1, <3>3, SlistTakeAfter
    <3>4. QED
      BY <3>2, <3>3
  <2>2. CASE kind = "LIST"
    <3>1. Removed(e) = LIST_REMOVE(mem, e)
      BY <2>2 DEF Removed
    <3>2. QED
      BY <1>2, <1>3, <1>4, <1>5, <1>6, <1>7, <1>8, <2>2, <3>1, ListTake
  <2>3. CASE kind = "SIMPLEQ"
    <3>1. Removed(e) = SIMPLEQ_REMOVE_HEAD(mem, e)
      BY <2>3 DEF Removed
    <3>2. p = 1
      BY <1>10, <1>13, <2>3 DEF CanRemove
    <3>3. QED
      BY <1>2, <1>3, <1>4, <1>5, <1>7, <1>8, <1>9, <2>3, <3>1, <3>2, SimpleqTakeFirst
  <2>4. CASE kind = "TAILQ"
    <3>1. Removed(e) = TAILQ_REMOVE(mem, e)
      BY <2>4 DEF Removed
    <3>2. QED
      BY <1>2, <1>3, <1>4, <1>5, <1>6, <1>7, <1>8, <2>4, <3>1, TailqTake
  <2>5. CASE kind = "CIRCLEQ"
    <3>1. Removed(e) = CIRCLEQ_REMOVE(mem, e)
      BY <2>5 DEF Removed
    <3>2. QED
      BY <1>2, <1>3, <1>4, <1>5, <1>6, <1>7, <2>5, <3>1, CircleqTake
  <2>6. QED
    BY <2>1, <2>2, <2>3, <2>4, <2>5 DEF ListInv, Kinds
<1>15. Removed(e)[Nxt(e)] = mem[Nxt(e)] /\ mem[Nxt(e)] = q
  BY <1>2, <1>4, <1>6, <1>14 DEF Takes, Gap
<1>16. QED
  BY <1>14, <1>15 DEF at, q, back, e

\* What a removal does to the list.
LEMMA Taken ==
  ASSUME ListInv, NEW p \in 1..Len(items), CanRemove(items[p]),
         kind' = kind, mem' = Removed(items[p])
  PROVE  /\ ListInv' /\ items' = I!Without(items, p)
         /\ mem'[Nxt(items[p])] = Target(kind, items, p)
<1> DEFINE t == I!Without(items, p)
<1>1. /\ Takes(kind, mem, mem', Slot(items, p - 1), Target(kind, items, p), BackVal(kind, items, p))
      /\ mem'[Nxt(items[p])] = Target(kind, items, p)
  BY RemovedIs
<1>2. mem' \in [Locs -> Pointers] /\ t \in Seq(Elements) /\ Distinct(t) /\ Linked(kind, mem', t)
  BY <1>1, TakeKeeps DEF ListInv
<1> HIDE DEF t
<1>3. items' = t
  BY <1>2, ChainIs DEF items
<1>4. ListInv'
  BY <1>2, <1>3 DEF ListInv
<1>5. QED
  BY <1>1, <1>3, <1>4 DEF t

\* INIT leaves an empty list.
LEMMA InitList ==
  Init => ListInv /\ items = <<>>
<1> SUFFICES ASSUME Init PROVE ListInv /\ items = <<>>
  OBVIOUS
<1>1. kind \in Kinds /\ mem = Fresh(kind)
  BY DEF Init
<1>2. mem[First] = End(kind)
  <2>1. mem[First] = IF kind = "CIRCLEQ" THEN ListHead ELSE Null
    BY <1>1, Locations, Zenon DEF Fresh
  <2>2. QED
    BY <2>1 DEF End
<1>3. kind \in LastKinds => mem[Last] = IF kind = "CIRCLEQ" THEN ListHead ELSE First
  <2>1. mem[Last] = CASE Last = First -> IF kind = "CIRCLEQ" THEN ListHead ELSE Null
                      [] Last = Last /\ kind = "CIRCLEQ" -> ListHead
                      [] Last = Last /\ kind \in {"SIMPLEQ", "TAILQ"} -> First
                      [] OTHER -> Junk
    BY <1>1, Locations, Zenon DEF Fresh
  <2>2. First # Last
    BY Locations
  <2>3. CASE kind = "CIRCLEQ"
    BY <2>1, <2>2, <2>3
  <2>4. CASE kind \in {"SIMPLEQ", "TAILQ"}
    BY <2>1, <2>2, <2>4
  <2>5. QED
    BY <2>3, <2>4 DEF LastKinds
<1>4. mem \in [Locs -> Pointers]
  <2> DEFINE F(loc) ==
               CASE loc = First -> IF kind = "CIRCLEQ" THEN ListHead ELSE Null
                 [] loc = Last /\ kind = "CIRCLEQ" -> ListHead
                 [] loc = Last /\ kind \in {"SIMPLEQ", "TAILQ"} -> First
                 [] OTHER -> Junk
  <2>1. ASSUME NEW loc \in Locs PROVE F(loc) \in Pointers
    <3>2. Null \in Pointers /\ ListHead \in Pointers /\ First \in Pointers /\ Junk \in Pointers
      BY PointersAre DEF Pointers
    <3>3. CASE loc = First
      BY <3>2, <3>3, Locations
    <3>4. CASE loc = Last
      <4>1. CASE kind = "CIRCLEQ"
        BY <3>2, <3>4, <4>1, Locations
      <4>2. CASE kind \in {"SIMPLEQ", "TAILQ"}
        BY <3>2, <3>4, <4>2, Locations
      <4>3. CASE kind \notin {"SIMPLEQ", "TAILQ", "CIRCLEQ"}
        BY <3>2, <3>4, <4>3, Locations
      <4>4. QED
        BY <4>1, <4>2, <4>3
    <3>5. CASE loc # First /\ loc # Last
      BY <3>2, <3>5
    <3>6. QED
      BY <3>3, <3>4, <3>5
  <2>2. Fresh(kind) = [loc \in Locs |-> F(loc)]
    BY Zenon DEF Fresh
  <2> HIDE DEF F
  <2>3. QED
    BY <1>1, <2>1, <2>2
<1>5. <<>> \in Seq(Elements) /\ Len(<<>>) = 0 /\ Distinct(<<>>)
  BY EmptySeq DEF Distinct
<1>6. Linked(kind, mem, <<>>)
  BY <1>2, <1>3, <1>5 DEF Linked, Slot, Target, BackVal
<1>7. items = <<>>
  BY <1>5, <1>6, ChainIs DEF items
<1>8. QED
  BY <1>1, <1>4, <1>5, <1>6, <1>7 DEF ListInv

LEMMA InsertHeadList ==
  ASSUME ListInv, NEW e \in Elements, InsertHead(e)
  PROVE  ListInv' /\ I!InsertHead(e)
<1>1. e \notin Members /\ mem' = InsertedAtHead(e) /\ kind' = kind
  BY DEF InsertHead, KeepLoop
<1>2. 0 \in 0..Len(items)
  BY LenProperties DEF ListInv
<1>3. ListInv' /\ items' = I!With(items, 0, e)
  BY <1>1, <1>2, HeadInserts, Inserted
<1>4. QED
  BY <1>1, <1>2, <1>3, Zenon DEF I!InsertHead, I!Members, Members

LEMMA InsertAfterList ==
  ASSUME ListInv, NEW e \in Elements, NEW l \in Elements, InsertAfter(l, e)
  PROVE  ListInv' /\ I!InsertAfter(l, e)
<1>1. e \notin Members /\ l \in Members /\ mem' = InsertedAfter(l, e) /\ kind' = kind
  BY DEF InsertAfter, KeepLoop
<1>2. PICK p \in 1..Len(items) : items[p] = l
  BY <1>1 DEF Members
<1>3. p \in 0..Len(items)
  BY LenProperties DEF ListInv
<1>4. ListInv' /\ items' = I!With(items, p, e)
  BY <1>1, <1>2, <1>3, AfterInserts, Inserted
<1>5. QED
  BY <1>1, <1>2, <1>4, Zenon DEF I!InsertAfter, I!Members, Members

LEMMA InsertBeforeList ==
  ASSUME ListInv, NEW e \in Elements, NEW l \in Elements, InsertBefore(l, e)
  PROVE  ListInv' /\ I!InsertBefore(l, e)
<1>1. /\ e \notin Members /\ l \in Members /\ kind' = kind
      /\ \/ kind \in {"LIST", "TAILQ"} /\ mem' = LIST_INSERT_BEFORE(mem, l, e)
         \/ kind = "CIRCLEQ" /\ mem' = CIRCLEQ_INSERT_BEFORE(mem, l, e)
  BY DEF InsertBefore, KeepLoop
<1>2. PICK p \in 1..Len(items) : items[p] = l
  BY <1>1 DEF Members
<1>3. p - 1 \in 0..Len(items) /\ p - 1 < Len(items) /\ (p - 1) + 1 = p
  BY LenProperties DEF ListInv
<1>4. Target(kind, items, p - 1) = l
  BY <1>2, <1>3 DEF Target
<1>5. ListInv' /\ items' = I!With(items, p - 1, e)
  BY <1>1, <1>3, <1>4, BeforeInserts, Inserted
<1>6. QED
  BY <1>1, <1>2, <1>5, Zenon DEF I!InsertBefore, I!Members, Members

LEMMA InsertTailList ==
  ASSUME ListInv, NEW e \in Elements, InsertTail(e)
  PROVE  ListInv' /\ I!InsertTail(e)
<1>1. /\ e \notin Members /\ kind' = kind
      /\ \/ kind = "SIMPLEQ" /\ mem' = SIMPLEQ_INSERT_TAIL(mem, e)
         \/ kind = "TAILQ" /\ mem' = TAILQ_INSERT_TAIL(mem, e)
         \/ kind = "CIRCLEQ" /\ mem' = CIRCLEQ_INSERT_TAIL(mem, e)
  BY DEF InsertTail, KeepLoop
<1>2. Len(items) \in 0..Len(items)
  BY LenProperties DEF ListInv
<1>3. ListInv' /\ items' = I!With(items, Len(items), e)
  BY <1>1, <1>2, TailInserts, Inserted
<1>4. QED
  BY <1>1, <1>2, <1>3, Zenon DEF I!InsertTail, I!Members, Members

LEMMA RemoveList ==
  ASSUME ListInv, NEW e \in Elements, Remove(e)
  PROVE  ListInv' /\ I!Remove(e)
<1>1. CanRemove(e) /\ mem' = Removed(e) /\ kind' = kind
  BY DEF Remove, KeepLoop
<1>2. PICK p \in 1..Len(items) : items[p] = e
  BY <1>1 DEF CanRemove, Members
<1>3. ListInv' /\ items' = I!Without(items, p)
  BY <1>1, <1>2, Taken
<1>4. QED
  BY <1>2, <1>3, Zenon DEF I!Remove

LEMMA BodyRemovesList ==
  ASSUME ListInv, kind' = kind, BodyRemoves
  PROVE  ListInv' /\ I!Remove(cur)
<1>1. CanRemove(cur) /\ mem' = Removed(cur)
  BY DEF BodyRemoves
<1>2. PICK p \in 1..Len(items) : items[p] = cur
  BY <1>1 DEF CanRemove, Members
<1>3. ListInv' /\ items' = I!Without(items, p)
  BY <1>1, <1>2, Taken
<1>4. QED
  BY <1>2, <1>3, Zenon DEF I!Remove

LEMMA BodyInsertsList ==
  ASSUME ListInv, kind' = kind, NEW e \in Elements, BodyInserts(e)
  PROVE  /\ ListInv' /\ I!InsertHead(e) /\ items' = I!With(items, 0, e)
         /\ Inserts(kind, mem, mem', Slot(items, 0), Target(kind, items, 0), BackVal(kind, items, 0 + 1), e)
<1>1. e \notin Members /\ mem' = InsertedAtHead(e)
  BY DEF BodyInserts
<1>2. 0 \in 0..Len(items)
  BY LenProperties DEF ListInv
<1>3. Inserts(kind, mem, mem', Slot(items, 0), Target(kind, items, 0), BackVal(kind, items, 0 + 1), e)
  BY <1>1, HeadInserts
<1>4. ListInv' /\ items' = I!With(items, 0, e)
  BY <1>1, <1>2, <1>3, Inserted
<1>5. QED
  BY <1>1, <1>3, <1>4, Zenon DEF I!InsertHead, I!Members, Members

\* What a macro does depends on the list it finds, not on the history.
LEMMA NamesKept ==
  ASSUME ListInv
  PROVE  AsNamed
<1>1. ASSUME NEW e \in Elements
      PROVE  /\ InsertHead(e) => I!InsertHead(e)
             /\ InsertTail(e) => I!InsertTail(e)
             /\ Remove(e) => I!Remove(e)
  BY InsertHeadList, InsertTailList, RemoveList
<1>2. ASSUME NEW e \in Elements, NEW l \in Elements
      PROVE  /\ InsertAfter(l, e) => I!InsertAfter(l, e)
             /\ InsertBefore(l, e) => I!InsertBefore(l, e)
  BY InsertAfterList, InsertBeforeList
<1>3. ForeachNext => kind' = kind
  BY DEF ForeachNext
<1>4. ASSUME NEW e \in Elements, ForeachNext, BodyInserts(e)
      PROVE  I!InsertHead(e)
  BY <1>3, <1>4, BodyInsertsList
<1>5. ASSUME ForeachNext, BodyRemoves
      PROVE  I!Remove(cur)
  BY <1>3, <1>5, BodyRemovesList
<1>6. QED
  BY <1>1, <1>2, <1>4, <1>5 DEF AsNamed

-----------------------------------------------------------------------------
(* The loop.                                                               *)

\* s has, from its p-th element on, what t has from its k-th on.
SameRest(s, p, t, k) ==
  /\ p \in 1..Len(s) /\ Len(s) - p = Len(t) - k
  /\ \A i \in 0..(Len(t) - k) : s[p + i] = t[k + i]

\* What a FOREACH has visited is the beginning of what there was when it
\* started; the list has, from its current element on, the rest of that.
LoopInv ==
  /\ cur \in Elements \cup {Null} /\ seen \in Seq(Elements) /\ want \in Seq(Elements)
  /\ Distinct(want)
  /\ Len(seen) <= Len(want)
  /\ \A i \in 1..Len(seen) : seen[i] = want[i]
  /\ cur = Null => Len(seen) = Len(want)
  /\ cur # Null =>
       /\ 1 <= Len(seen) /\ cur = want[Len(seen)]
       /\ \E p \in 1..Len(items) : SameRest(items, p, want, Len(seen))

LEMMA InitLoop ==
  Init => LoopInv
  BY EmptySeq DEF Init, LoopInv, Distinct

LEMMA ForeachLoop ==
  ASSUME ListInv, Foreach
  PROVE  ListInv' /\ LoopInv' /\ items' = items
<1>1. mem' = mem /\ kind' = kind /\ items # <<>>
      /\ cur' = mem[First] /\ seen' = <<mem[First]>> /\ want' = items
  BY DEF Foreach
<1>2. items' = items
  BY <1>1 DEF items
<1>3. ListInv'
  BY <1>1, <1>2 DEF ListInv
<1>4. /\ Len(items) \in Nat /\ 1 <= Len(items) /\ 1 \in 1..Len(items)
      /\ items \in Seq(Elements) /\ items[1] \in Elements
  <2>1. Len(items) \in Nat /\ Len(items) # 0 /\ items \in [1..Len(items) -> Elements]
    BY <1>1, EmptySeq, LenProperties DEF ListInv
  <2>2. 1 <= Len(items) /\ 1 \in 1..Len(items)
    BY <2>1
  <2>3. QED
    BY <2>1, <2>2 DEF ListInv
<1>5. mem[First] = items[1]
  <2>1. 0 \in 0..Len(items) /\ 0 < Len(items) /\ 0 + 1 = 1
    BY <1>4
  <2>2. QED
    BY <2>1 DEF ListInv, Linked, Slot, Target
<1>6. /\ seen' \in Seq(Elements) /\ Len(seen') = 1 /\ seen'[1] = items[1]
  BY <1>1, <1>4, <1>5
<1>7. cur' # Null /\ cur' \in Elements
  BY <1>1, <1>4, <1>5, PointersAre
<1>8. SameRest(items, 1, items, 1)
  BY <1>4 DEF SameRest
<1>9. \A i \in 1..1 : seen'[i] = items[i]
  <2>1. \A i \in 1..1 : i = 1
    OBVIOUS
  <2>2. QED
    BY <1>6, <2>1
<1>10. Distinct(items)
  BY DEF ListInv
<1>11. \E p \in 1..Len(items') : SameRest(items', p, want', Len(seen'))
  BY <1>1, <1>2, <1>4, <1>6, <1>8
<1>12. LoopInv'
  BY <1>1, <1>4, <1>5, <1>6, <1>7, <1>9, <1>10, <1>11 DEF LoopInv
<1>13. QED
  BY <1>2, <1>3, <1>12

\* What the body of the loop may do to the list, and what the loop then reads
\* in the element it was at.
LEMMA BodyLoop ==
  ASSUME ListInv, LoopInv, ForeachNext,
         NEW p \in 1..Len(items), SameRest(items, p, want, Len(seen))
  PROVE  /\ ListInv' /\ (I!Next \/ items' = items)
         /\ mem'[Nxt(cur)] = Target(kind, items, p)
         /\ p < Len(items) =>
              \E r \in 1..Len(items') : SameRest(items', r, want, Len(seen) + 1)
<1> DEFINE k == Len(seen)
           n == Len(want)
<1>1. /\ Len(items) \in Nat /\ items \in [1..Len(items) -> Elements] /\ items \in Seq(Elements)
      /\ p \in Nat /\ p # 0 /\ p \in 0..Len(items)
      /\ k \in Nat /\ n \in Nat /\ Len(items) - p = n - k
  BY LenProperties DEF ListInv, LoopInv, SameRest
<1>2. cur # Null /\ kind' = kind /\ cur = items[p] /\ cur \in Elements
  <2>1. cur # Null /\ kind' = kind /\ cur = want[k]
    BY DEF ForeachNext, LoopInv
  <2>2. 0 \in 0..(n - k) /\ p + 0 = p /\ k + 0 = k
    BY <1>1
  <2>3. items[p + 0] = want[k + 0]
    BY <2>2 DEF SameRest
  <2>4. QED
    BY <1>1, <2>1, <2>2, <2>3
<1>3. mem[Nxt(cur)] = Target(kind, items, p)
  BY <1>1, <1>2 DEF ListInv, Linked, Slot
<1>4. ASSUME p < Len(items), NEW i \in 0..(n - (k + 1))
      PROVE  p + 1 + i \in 1..Len(items) /\ items[p + 1 + i] = want[k + 1 + i]
  <2>1. /\ p + 1 + i \in 1..Len(items) /\ i + 1 \in 0..(n - k)
        /\ p + (i + 1) = p + 1 + i /\ k + (i + 1) = k + 1 + i
    BY <1>1, <1>4
  <2>2. \A j \in 0..(n - k) : items[p + j] = want[k + j]
    BY DEF SameRest
  <2> HIDE DEF k, n
  <2>3. items[p + (i + 1)] = want[k + (i + 1)]
    BY <2>1, <2>2
  <2>4. QED
    BY <2>1, <2>3
<1> HIDE DEF k, n
<1>5. CASE UNCHANGED mem
  <2>1. items' = items
    BY <1>5 DEF items
  <2>2. ListInv'
    BY <1>2, <1>5, <2>1 DEF ListInv
  <2>3. ASSUME p < Len(items) PROVE SameRest(items, p + 1, want, k + 1) /\ p + 1 \in 1..Len(items)
    <3>1. p + 1 \in 1..Len(items) /\ Len(items) - (p + 1) = n - (k + 1)
      BY <1>1, <2>3
    <3>2. QED
      BY <1>4, <2>3, <3>1 DEF SameRest, n
  <2>4. QED
    BY <1>3, <1>5, <2>1, <2>2, <2>3 DEF k
<1>6. CASE BodyRemoves
  <2>1. /\ ListInv' /\ items' = I!Without(items, p)
        /\ mem'[Nxt(cur)] = Target(kind, items, p)
    BY <1>2, <1>6, Taken DEF BodyRemoves
  <2>2. I!Next
    <3>1. I!Remove(cur)
      BY <1>2, <1>6, BodyRemovesList
    <3>2. QED
      BY <1>2, <3>1 DEF I!Next
  <2>3. /\ Len(items') = Len(items) - 1
        /\ \A i \in 1..(Len(items) - 1) : items'[i] = IF i < p THEN items[i] ELSE items[i + 1]
    BY <1>1, <2>1, WithoutIs
  <2>4. ASSUME p < Len(items) PROVE SameRest(items', p, want, k + 1) /\ p \in 1..Len(items')
    <3>1. p \in 1..(Len(items) - 1) /\ (Len(items) - 1) - p = n - (k + 1)
      BY <1>1, <2>4
    <3>2. ASSUME NEW i \in 0..(n - (k + 1)) PROVE items'[p + i] = want[k + 1 + i]
      <4>1. p + i \in 1..(Len(items) - 1) /\ ~(p + i < p) /\ (p + i) + 1 = p + 1 + i
        BY <1>1, <2>4
      <4>2. items'[p + i] = items[p + 1 + i]
        BY <2>3, <4>1
      <4>3. QED
        BY <1>4, <2>4, <4>2
    <3>3. QED
      BY <2>3, <3>1, <3>2 DEF SameRest, n
  <2>5. QED
    BY <2>1, <2>2, <2>4 DEF k
<1>7. CASE \E e \in Elements : BodyInserts(e)
  <2>1. PICK e \in Elements : BodyInserts(e)
    BY <1>7
  <2>2. 0 \in 0..Len(items)
    BY <1>1
  <2>3. /\ ListInv' /\ I!InsertHead(e) /\ items' = I!With(items, 0, e)
        /\ Inserts(kind, mem, mem', Slot(items, 0), Target(kind, items, 0), BackVal(kind, items, 0 + 1), e)
    BY <1>2, <2>1, BodyInsertsList
  <2>4. e \notin Members
    BY <2>1 DEF BodyInserts
  <2>5. I!Next
    BY <2>3 DEF I!Next
  <2>6. mem'[Nxt(cur)] = mem[Nxt(cur)]
    <3>1. cur # e
      BY <1>2, <2>4 DEF Members
    <3>2. Nxt(cur) # Slot(items, 0)
      BY <1>2, Locations DEF Slot
    <3>3. QED
      BY <1>2, <2>3, <3>1, <3>2 DEF Inserts
  <2>7. /\ Len(items') = Len(items) + 1
        /\ \A i \in 1..(Len(items) + 1) :
             items'[i] = IF i <= 0 THEN items[i] ELSE IF i = 0 + 1 THEN e ELSE items[i - 1]
    <3>1. /\ Len(I!With(items, 0, e)) = Len(items) + 1
          /\ \A i \in 1..(Len(items) + 1) :
               I!With(items, 0, e)[i] = IF i <= 0 THEN items[i] ELSE IF i = 0 + 1 THEN e ELSE items[i - 1]
      <4>1. e \in Elements
        BY <2>1
      <4>2. QED
        BY <1>1, <2>2, <4>1, WithIs, ZenonT(60)
    <3>2. QED
      BY <2>3, <3>1, Zenon
  <2>8. ASSUME p < Len(items)
        PROVE  SameRest(items', p + 2, want, k + 1) /\ p + 2 \in 1..Len(items')
    <3>1. p + 2 \in 1..(Len(items) + 1) /\ (Len(items) + 1) - (p + 2) = n - (k + 1)
      BY <1>1, <2>8
    <3>2. ASSUME NEW i \in 0..(n - (k + 1)) PROVE items'[p + 2 + i] = want[k + 1 + i]
      <4>1. /\ p + 2 + i \in 1..(Len(items) + 1) /\ ~(p + 2 + i <= 0) /\ p + 2 + i # 0 + 1
            /\ (p + 2 + i) - 1 = p + 1 + i
        BY <1>1, <2>8
      <4>2. items'[p + 2 + i] = items[p + 1 + i]
        BY <2>7, <4>1
      <4>3. QED
        BY <1>4, <2>8, <4>2
    <3>3. QED
      BY <2>7, <3>1, <3>2 DEF SameRest, n
  <2>9. QED
    BY <1>3, <2>3, <2>5, <2>6, <2>8 DEF k
<1>8. QED
  BY <1>5, <1>6, <1>7 DEF ForeachNext

LEMMA ForeachNextLoop ==
  ASSUME ListInv, LoopInv, ForeachNext
  PROVE  ListInv' /\ LoopInv' /\ (I!Next \/ items' = items)
<1> DEFINE k == Len(seen)
           n == Len(want)
           next == mem'[Nxt(cur)]
<1>1. cur # Null /\ want' = want
  BY DEF ForeachNext
<1>2. PICK p \in 1..Len(items) : SameRest(items, p, want, k)
  BY <1>1 DEF LoopInv
<1>3. /\ ListInv' /\ (I!Next \/ items' = items)
      /\ next = Target(kind, items, p)
      /\ p < Len(items) => \E r \in 1..Len(items') : SameRest(items', r, want, k + 1)
  BY <1>2, BodyLoop
<1>4. /\ Len(items) \in Nat /\ items \in [1..Len(items) -> Elements] /\ p \in Nat
      /\ k \in Nat /\ n \in Nat /\ Len(items) - p = n - k /\ p <= Len(items)
      /\ seen \in Seq(Elements) /\ want \in Seq(Elements) /\ want \in [1..n -> Elements]
  BY <1>2, LenProperties DEF ListInv, LoopInv, SameRest
<1>5. IF next \in {Null, ListHead} THEN cur' = Null /\ UNCHANGED seen
      ELSE cur' = next /\ seen' = Append(seen, next)
  BY DEF ForeachNext
<1>6. /\ Distinct(want) /\ k <= n /\ \A i \in 1..k : seen[i] = want[i]
  BY DEF LoopInv
<1>7. CASE p < Len(items)
  <2>1. p + 1 \in 1..Len(items) /\ k + 1 \in 1..n /\ 1 \in 0..(n - k) /\ k + 1 <= n /\ 1 <= k + 1
    BY <1>4, <1>7
  <2>2. items[p + 1] = want[k + 1]
    BY <1>2, <2>1 DEF SameRest
  <2>3. next = want[k + 1] /\ want[k + 1] \in Elements
    BY <1>3, <1>4, <1>7, <2>1, <2>2 DEF Target
  <2> HIDE DEF next, k, n
  <2>4. cur' = want[k + 1] /\ seen' = Append(seen, want[k + 1]) /\ cur' \in Elements /\ cur' # Null
    BY <1>5, <2>3, PointersAre
  <2>5. /\ seen' \in Seq(Elements) /\ Len(seen') = k + 1
        /\ \A i \in 1..k : seen'[i] = seen[i]
        /\ seen'[k + 1] = want[k + 1]
    BY <1>4, <2>3, <2>4, AppendProperties DEF k
  <2>6. ASSUME NEW i \in 1..(k + 1) PROVE seen'[i] = want[i]
    <3>1. i \in 1..k \/ i = k + 1
      BY <1>4
    <3>2. QED
      BY <1>6, <2>5, <3>1
  <2>7. \E r \in 1..Len(items') : SameRest(items', r, want', Len(seen'))
    BY <1>1, <1>3, <1>7, <2>5
  <2>8. Len(want') = n /\ want' \in Seq(Elements) /\ Distinct(want')
    BY <1>1, <1>4, <1>6 DEF n
  <2>9. cur' = want'[Len(seen')] /\ 1 <= Len(seen') /\ Len(seen') <= Len(want')
    BY <1>1, <2>1, <2>4, <2>5, <2>8
  <2>10. \A i \in 1..Len(seen') : seen'[i] = want'[i]
    BY <1>1, <2>5, <2>6
  <2>11. LoopInv'
    BY <2>4, <2>5, <2>7, <2>8, <2>9, <2>10 DEF LoopInv
  <2>12. QED
    BY <1>3, <2>11
<1>8. CASE ~(p < Len(items))
  <2>1. k = n
    BY <1>4, <1>8
  <2>2. next \in {Null, ListHead}
    BY <1>3, <1>8 DEF Target, End
  <2> HIDE DEF next
  <2>3. cur' = Null /\ seen' = seen
    BY <1>5, <2>2
  <2>4. LoopInv'
    BY <1>1, <1>4, <1>6, <2>1, <2>3 DEF LoopInv
  <2>5. QED
    BY <1>3, <2>4
<1>9. QED
  BY <1>7, <1>8

\* No other action runs while a loop does, and none touches what a loop left.
LEMMA KeepLoopKeeps ==
  ASSUME LoopInv, NoLoop, KeepLoop
  PROVE  LoopInv'
  BY DEF LoopInv, NoLoop, KeepLoop

\* Every step keeps the list and the loop, and changes the items as Items does.
LEMMA StepKeeps ==
  ASSUME ListInv, LoopInv, [Next]_vars
  PROVE  ListInv' /\ LoopInv' /\ (I!Next \/ items' = items)
<1>1. ASSUME NEW e \in Elements, InsertHead(e)
      PROVE  ListInv' /\ LoopInv' /\ (I!Next \/ items' = items)
  <2>1. LoopInv'
    BY <1>1, KeepLoopKeeps DEF InsertHead
  <2>2. QED
    BY <1>1, <2>1, InsertHeadList DEF I!Next
<1>2. ASSUME NEW e \in Elements, InsertTail(e)
      PROVE  ListInv' /\ LoopInv' /\ (I!Next \/ items' = items)
  <2>1. LoopInv'
    BY <1>2, KeepLoopKeeps DEF InsertTail
  <2>2. QED
    BY <1>2, <2>1, InsertTailList DEF I!Next
<1>3. ASSUME NEW e \in Elements, Remove(e)
      PROVE  ListInv' /\ LoopInv' /\ (I!Next \/ items' = items)
  <2>1. LoopInv'
    BY <1>3, KeepLoopKeeps DEF Remove
  <2>2. QED
    BY <1>3, <2>1, RemoveList DEF I!Next
<1>4. ASSUME NEW e \in Elements, NEW l \in Elements, InsertAfter(l, e)
      PROVE  ListInv' /\ LoopInv' /\ (I!Next \/ items' = items)
  <2>1. LoopInv'
    BY <1>4, KeepLoopKeeps DEF InsertAfter
  <2>2. QED
    BY <1>4, <2>1, InsertAfterList DEF I!Next
<1>5. ASSUME NEW e \in Elements, NEW l \in Elements, InsertBefore(l, e)
      PROVE  ListInv' /\ LoopInv' /\ (I!Next \/ items' = items)
  <2>1. LoopInv'
    BY <1>5, KeepLoopKeeps DEF InsertBefore
  <2>2. QED
    BY <1>5, <2>1, InsertBeforeList DEF I!Next
<1>6. CASE Foreach
  BY <1>6, ForeachLoop
<1>7. CASE ForeachNext
  BY <1>7, ForeachNextLoop
<1>8. CASE UNCHANGED vars
  <2>1. kind' = kind /\ mem' = mem /\ cur' = cur /\ seen' = seen /\ want' = want
    BY <1>8 DEF vars
  <2>2. items' = items
    BY <2>1 DEF items
  <2>3. ListInv' /\ LoopInv'
    BY <2>1, <2>2 DEF ListInv, LoopInv
  <2>4. QED
    BY <2>2, <2>3
<1>9. QED
  BY <1>1, <1>2, <1>3, <1>4, <1>5, <1>6, <1>7, <1>8 DEF Next

LEMMA AlwaysLinked ==
  Spec => [](ListInv /\ LoopInv)
<1>1. Init => ListInv /\ LoopInv
  BY InitList, InitLoop
<1>2. ListInv /\ LoopInv /\ [Next]_vars => (ListInv /\ LoopInv)'
  BY StepKeeps
<1>3. QED
  BY <1>1, <1>2, PTL DEF Spec

-----------------------------------------------------------------------------
(* What a list's user can rely on.                                         *)

\* Every insertion and removal macro of the five kinds of list in list.h, and
\* every one a FOREACH body makes, changes the sequence of elements that
\* FOREACH sees by the one insertion or removal it is named for: the pointers
\* of SLIST, LIST, SIMPLEQ, TAILQ and CIRCLEQ implement Items.
THEOREM MacrosImplementItems ==
  Spec => ImplementsItems
<1>1. Init => I!Init
  BY InitList DEF I!Init
<1>2. ListInv /\ LoopInv /\ [Next]_vars => [I!Next]_items
  BY StepKeeps
<1>3. ListInv => [AsNamed]_vars
  BY NamesKept
<1>4. QED
  BY <1>1, <1>2, <1>3, AlwaysLinked, PTL DEF Spec, ImplementsItems, I!Spec

\* What lies behind the place of the j-th element of a tail queue points to the
\* place of its predecessor, so the cast of TAILQ_LAST and TAILQ_PREV gives it.
LEMMA CastGives ==
  ASSUME ListInv, kind = "TAILQ", NEW j \in 0..Len(items)
  PROVE  mem[mem[Behind(Slot(items, j))]] = IF j = 0 THEN Null ELSE items[j]
<1>1. /\ Len(items) \in Nat /\ j \in Nat /\ Len(items) \in 0..Len(items) /\ ~(Len(items) < Len(items))
      /\ (Len(items) + 1) - 1 = Len(items)
      /\ items \in [1..Len(items) -> Elements]
  BY LenProperties DEF ListInv
<1>2. CASE j = 0
  <2>1. Behind(Slot(items, j)) = Last
    BY <1>2 DEF Slot, Behind
  <2>2. mem[Last] = Slot(items, Len(items))
    BY <1>1 DEF ListInv, Linked, LastKinds, BackVal
  <2>3. mem[Slot(items, Len(items))] = Null
    BY <1>1 DEF ListInv, Linked, Target, End
  <2>4. QED
    BY <1>2, <2>1, <2>2, <2>3
<1>3. CASE j # 0
  <2>1. j \in 1..Len(items) /\ j - 1 \in 0..Len(items) /\ j - 1 < Len(items) /\ (j - 1) + 1 = j
    BY <1>1, <1>3
  <2>2. items[j] \in Elements
    BY <1>1, <2>1
  <2>3. Behind(Slot(items, j)) = Prv(items[j])
    <3>1. Slot(items, j) = Nxt(items[j]) /\ Nxt(items[j]) # First
      BY <1>3, <2>2, Locations DEF Slot
    <3>2. Nxt(items[j])[2] = items[j]
      BY DEF Nxt
    <3>3. QED
      BY <3>1, <3>2 DEF Behind
  <2>4. mem[Prv(items[j])] = Slot(items, j - 1)
    BY <2>1 DEF ListInv, Linked, BackKinds, BackVal
  <2>5. mem[Slot(items, j - 1)] = items[j]
    BY <2>1 DEF ListInv, Linked, Target
  <2>6. QED
    BY <1>3, <2>3, <2>4, <2>5
<1>4. QED
  BY <1>2, <1>3

LEMMA SlotBefore ==
  ASSUME ListInv, NEW i \in 1..Len(items)
  PROVE  Slot(items, i - 1) = IF i = 1 THEN First ELSE Nxt(items[i - 1])
  BY LenProperties DEF ListInv, Slot

LEMMA SlotLast ==
  ASSUME ListInv
  PROVE  Slot(items, Len(items)) = IF items = <<>> THEN First ELSE Nxt(items[Len(items)])
  BY EmptySeq, LenProperties DEF ListInv, Slot

LEMMA LinkedIsWellLinked ==
  ASSUME ListInv, LoopInv
  PROVE  WellLinked
<1>1. /\ Len(items) \in Nat /\ items \in [1..Len(items) -> Elements]
      /\ 0 \in 0..Len(items) /\ Len(items) \in 0..Len(items) /\ 0 + 1 = 1
      /\ (Len(items) + 1) - 1 = Len(items) /\ ~(Len(items) < Len(items))
  BY LenProperties DEF ListInv
<1>2. kind \in LastKinds =>
        mem[Last] = IF kind = "CIRCLEQ" THEN (IF Len(items) = 0 THEN ListHead ELSE items[Len(items)])
                    ELSE Slot(items, Len(items))
  <2>1. Len(items) + 1 = 1 <=> Len(items) = 0
    BY <1>1
  <2>2. QED
    BY <1>1, <2>1 DEF ListInv, Linked, BackVal
<1>3. Len(items) # 0 => Len(items) \in 1..Len(items) /\ items[Len(items)] \in Elements
  BY <1>1
<1>4. TypeOK
  <2>1. mem[First] \in Elements \cup {IF kind = "CIRCLEQ" THEN ListHead ELSE Null}
    <3>1. mem[First] = Target(kind, items, 0)
      BY <1>1 DEF ListInv, Linked, Slot
    <3>2. 0 < Len(items) => 1 \in 1..Len(items)
      BY <1>1
    <3>3. QED
      BY <1>1, <3>1, <3>2 DEF Target, End
  <2>2. kind = "CIRCLEQ" => mem[Last] \in Elements \cup {ListHead}
    BY <1>2, <1>3 DEF LastKinds
  <2>3. kind \in {"SIMPLEQ", "TAILQ"} => mem[Last] \in {First} \cup {Nxt(e) : e \in Elements}
    <3>1. Slot(items, Len(items)) \in {First} \cup {Nxt(e) : e \in Elements}
      BY <1>3 DEF Slot
    <3>2. QED
      BY <1>2, <3>1 DEF LastKinds
  <2>4. Len(seen) <= Cardinality(Elements)
    <3>1. Len(want) \in 0..Cardinality(Elements) /\ Cardinality(Elements) \in Nat
      BY DistinctLength DEF LoopInv
    <3>2. Len(seen) \in Nat /\ Len(seen) <= Len(want)
      BY LenProperties DEF LoopInv
    <3>3. QED
      BY <3>1, <3>2
  <2>5. QED
    BY <2>1, <2>2, <2>3, <2>4 DEF TypeOK, ListInv, LoopInv
<1>5. BackLinks
  <2> SUFFICES ASSUME NEW i \in 1..Len(items)
               PROVE  /\ kind \in {"LIST", "TAILQ"} =>
                           mem[Prv(items[i])] = IF i = 1 THEN First ELSE Nxt(items[i - 1])
                      /\ kind = "CIRCLEQ" =>
                           mem[Prv(items[i])] = IF i = 1 THEN ListHead ELSE items[i - 1]
    BY DEF BackLinks
  <2>1. kind \in BackKinds => mem[Prv(items[i])] = BackVal(kind, items, i)
    BY DEF ListInv, Linked
  <2>2. QED
    BY <2>1, SlotBefore DEF BackKinds, BackVal
<1>6. TailPointer
  BY <1>2, SlotLast DEF TailPointer, LastKinds
<1>7. ReverseOrder
  <2>1. kind = "TAILQ" => TAILQ_LAST(mem) = IF Len(items) = 0 THEN Null ELSE items[Len(items)]
    BY <1>1, <1>2, CastGives DEF TAILQ_LAST, LastKinds
  <2>2. ASSUME kind = "TAILQ", NEW i \in 1..Len(items)
        PROVE  TAILQ_PREV(mem, items[i]) = IF i = 1 THEN Null ELSE items[i - 1]
    <3>1. i - 1 \in 0..Len(items) /\ (i - 1 = 0 <=> i = 1)
      BY <1>1
    <3>2. mem[Prv(items[i])] = Slot(items, i - 1)
      BY <2>2 DEF ListInv, Linked, BackKinds, BackVal
    <3>3. QED
      BY <2>2, <3>1, <3>2, CastGives DEF TAILQ_PREV
  <2>3. kind = "CIRCLEQ" => mem[Last] = IF Len(items) = 0 THEN ListHead ELSE items[Len(items)]
    BY <1>2 DEF LastKinds
  <2>4. QED
    BY <2>1, <2>2, <2>3 DEF ReverseOrder
<1>8. QED
  BY <1>4, <1>5, <1>6, <1>7 DEF WellLinked

\* The second way through each list agrees with the first after every macro:
\* prev points to where the element is pointed to from (or, in a circular
\* queue, to its neighbour), the tail pointer of a simple or tail queue is the
\* place of the null that ends it, and FOREACH_REVERSE, through the casts of
\* TAILQ_LAST and TAILQ_PREV, comes by the same elements from the last to the
\* first.
THEOREM SecondWayAgrees ==
  Spec => []WellLinked
<1>1. ListInv /\ LoopInv => WellLinked
  BY LinkedIsWellLinked
<1>2. QED
  BY <1>1, AlwaysLinked, PTL

LEMMA LoopVisits ==
  ASSUME LoopInv
  PROVE  ForeachVisitsAll
<1>1. /\ seen \in Seq(Elements) /\ want \in Seq(Elements) /\ Len(seen) \in Nat /\ Len(want) \in Nat
      /\ want \in [1..Len(want) -> Elements] /\ Len(seen) <= Len(want)
      /\ \A i \in 1..Len(seen) : seen[i] = want[i]
  BY LenProperties DEF LoopInv
<1> DEFINE b == SubSeq(want, 1, Len(seen))
<1>2. b \in Seq(Elements) /\ Len(b) = Len(seen) /\ \A i \in 1..Len(seen) : b[i] = want[i]
  <2>1. \A i \in 1..Len(seen) : want[i] \in Elements
    BY <1>1
  <2>2. /\ b \in Seq(Elements)
        /\ Len(b) = IF 1 <= Len(seen) THEN Len(seen) - 1 + 1 ELSE 0
        /\ \A i \in 1..(Len(seen) - 1 + 1) : b[i] = want[1 + i - 1]
    BY <1>1, <2>1, SubSeqProperties
  <2> HIDE DEF b
  <2>3. QED
    BY <1>1, <2>2
<1> HIDE DEF b
<1>3. seen = b
  BY <1>1, <1>2, SeqEqual
<1>4. NoLoop => seen = want
  BY <1>1, SeqEqual DEF NoLoop, LoopInv
<1>5. QED
  BY <1>1, <1>3, <1>4 DEF ForeachVisitsAll, b

\* A FOREACH comes by every element there was when it started, in their order
\* though its body takes the current element out, as
\* delete_pool_obj does in the loop over the pool, or puts others at the head.
THEOREM LoopVisitsAll ==
  Spec => []ForeachVisitsAll
<1>1. LoopInv => ForeachVisitsAll
  BY LoopVisits
<1>2. QED
  BY <1>1, AlwaysLinked, PTL

=============================================================================

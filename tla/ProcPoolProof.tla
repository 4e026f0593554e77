---------------------------- MODULE ProcPoolProof ----------------------------
(***************************************************************************)
(* Proofs about ProcPool for every size of the table, every number of      *)
(* children forked and every number of notices.                            *)
(***************************************************************************)
EXTENDS ProcPool, SequenceTheorems, WellFoundedInduction, TLAPS

-----------------------------------------------------------------------------
(* Choosing an index of the table.                                         *)

LEMMA LeastIndex ==
  ASSUME NEW S, NEW k \in S, \A j \in S : k <= j, S \subseteq Nat
  PROVE  Min(S) = k
<1>1. \A x \in S : (\A y \in S : x <= y) => x = k
  OBVIOUS
<1>2. QED
  BY <1>1 DEF Min

LEMMA LeastNatural ==
  ASSUME NEW T, T \subseteq Nat, T # {}
  PROVE  \E m \in T : \A x \in T : ~(x < m)
<1> DEFINE R == OpToRel(<, Nat)
<1>1. \A x, y \in Nat : x < y => <<x, y>> \in R
  BY Zenon DEF OpToRel
<1>2. IsWellFoundedOn(R, Nat)
  BY NatLessThanWellFounded
<1> HIDE DEF R
<1>3. PICK m \in T : \A x \in T : ~ (<<x, m>> \in R)
  BY <1>2, WFMin
<1>4. QED
  BY <1>1, <1>3

\* A set of indices has a greatest one.
LEMMA GreatestIndex ==
  ASSUME NEW n \in Nat, NEW S, S \subseteq 1..n, S # {}
  PROVE  Max(S) \in S /\ \A j \in S : j <= Max(S)
<1> DEFINE T == {n - j : j \in S}
<1>1. T \subseteq Nat /\ T # {}
  <2>1. \A j \in S : n - j \in Nat
    OBVIOUS
  <2>2. PICK j \in S : TRUE
    OBVIOUS
  <2>3. QED
    BY <2>1, <2>2
<1>2. PICK m \in T : \A x \in T : ~(x < m)
  BY <1>1, LeastNatural
<1>3. PICK k \in S : m = n - k
  BY <1>2
<1>4. \A j \in S : k >= j
  <2> TAKE j \in S
  <2>1. n - j \in T /\ j \in Int /\ k \in Int
    OBVIOUS
  <2>2. ~(n - j < n - k)
    BY <1>2, <1>3, <2>1
  <2>3. QED
    BY <2>1, <2>2
<1>5. Max(S) \in S /\ \A j \in S : Max(S) >= j
  BY <1>4 DEF Max
<1>6. QED
  BY <1>5

\* The node without a pid that insert_pool_obj fills.
LEMMA FirstFree ==
  ASSUME NEW k \in 1..Len(pool), Len(pool) \in Nat, pool[k].pid = NoPid,
         \A j \in 1..Len(pool) : j < k => pool[j].pid # NoPid
  PROVE  SelectInSeq(pool, LAMBDA n : n.pid = NoPid) = k
<1> DEFINE I == {i \in 1..Len(pool) : pool[i].pid = NoPid}
<1>1. k \in I /\ (\A j \in I : k <= j) /\ I \subseteq Nat /\ I # {}
  OBVIOUS
<1>2. Min(I) = k
  BY <1>1, LeastIndex
<1>3. QED
  BY <1>1, <1>2 DEF SelectInSeq

-----------------------------------------------------------------------------
(* Sequences of nodes.                                                     *)

Nodes == [pid : {NoPid} \cup 1..MaxPid, nleft : Int, status : {0, 1}]

LEMMA NodeType == \A p \in 1..MaxPid : Node(p) \in Nodes /\ Node(p).pid = p
  BY ProcPoolAssumption DEF Node, Nodes

\* A sequence of nodes as the function it is.
LEMMA SeqIsFunction ==
  ASSUME NEW s \in Seq(Nodes)
  PROVE  Len(s) \in Nat /\ s \in [1..Len(s) -> Nodes]
  BY LenProperties

LEMMA FunctionIsSeq ==
  ASSUME NEW n \in Nat, NEW s \in [1..n -> Nodes]
  PROVE  s \in Seq(Nodes) /\ Len(s) = n
  BY IsASeq

\* delete_pool_obj with the only node of p at k: the others move up.
LEMMA Deleted ==
  ASSUME pool \in Seq(Nodes), NEW k \in 1..Len(pool), NEW p, pool[k].pid = p,
         \A j \in 1..Len(pool) : j # k => pool[j].pid # p
  PROVE  /\ DeletedPool(p) \in Seq(Nodes) /\ Len(DeletedPool(p)) = Len(pool) - 1
         /\ \A i \in 1..(Len(pool) - 1) :
              DeletedPool(p)[i] = IF i < k THEN pool[i] ELSE pool[i + 1]
<1>0. Len(pool) \in Nat /\ k \in 1..Len(pool) /\ Len(pool) - 1 \in Nat
  BY SeqIsFunction
<1>1. SelectInSeq(pool, LAMBDA n : n.pid = p) = k
  <2> DEFINE I == {i \in 1..Len(pool) : pool[i].pid = p}
  <2>1. I = {k}
    OBVIOUS
  <2>2. Min(I) = k
    <3>1. k \in I /\ (\A j \in I : k <= j) /\ I \subseteq Nat
      BY <1>0, <2>1
    <3>2. QED
      BY <3>1, LeastIndex
  <2>3. QED
    BY <2>1, <2>2 DEF SelectInSeq
<1>2. DeletedPool(p) = SubSeq(pool, 1, k - 1) \o SubSeq(pool, k + 1, Len(pool))
  BY <1>1 DEF DeletedPool, RemoveFirstMatch, RemoveAt
<1> DEFINE a == SubSeq(pool, 1, k - 1)
           b == SubSeq(pool, k + 1, Len(pool))
<1>3. /\ a \in Seq(Nodes) /\ Len(a) = k - 1
      /\ \A i \in 1..(k - 1) : a[i] = pool[i]
  <2>1. a = [i \in 1..(k - 1) |-> pool[i]]
    BY <1>0, SubSeqProperties
  <2>2. a \in [1..(k - 1) -> Nodes]
    <3>1. \A i \in 1..(k - 1) : pool[i] \in Nodes
      BY <1>0, SeqIsFunction
    <3>2. QED
      BY <2>1, <3>1
  <2>3. QED
    BY <1>0, <2>1, <2>2, FunctionIsSeq
<1>4. /\ b \in Seq(Nodes) /\ Len(b) = Len(pool) - k
      /\ \A i \in 1..(Len(pool) - k) : b[i] = pool[k + i]
  <2>1. b = [i \in 1..(Len(pool) - k) |-> pool[k + i]]
    BY <1>0
  <2>2. b \in [1..(Len(pool) - k) -> Nodes]
    <3>1. \A i \in 1..(Len(pool) - k) : k + i \in 1..Len(pool)
      BY <1>0
    <3>2. \A i \in 1..(Len(pool) - k) : pool[k + i] \in Nodes
      BY <1>0, <3>1, ElementOfSeq
    <3>3. QED
      BY <2>1, <3>2
  <2>3. QED
    BY <1>0, <2>1, <2>2, FunctionIsSeq
<1> HIDE DEF a, b
<1>5. /\ a \o b \in Seq(Nodes) /\ Len(a \o b) = Len(a) + Len(b)
      /\ \A i \in 1..(Len(a) + Len(b)) : (a \o b)[i] = IF i <= Len(a) THEN a[i] ELSE b[i - Len(a)]
  BY <1>3, <1>4, ConcatProperties
<1>6. DeletedPool(p) = a \o b
  BY <1>2 DEF a, b
<1>7. ASSUME NEW i \in 1..(Len(pool) - 1)
      PROVE  DeletedPool(p)[i] = IF i < k THEN pool[i] ELSE pool[i + 1]
  <2>1. DeletedPool(p)[i] = IF i <= k - 1 THEN a[i] ELSE b[i - (k - 1)]
    BY <1>0, <1>3, <1>4, <1>5, <1>6
  <2>2. CASE i < k
    BY <1>0, <1>3, <2>1, <2>2
  <2>3. CASE ~(i < k)
    <3>1. i - (k - 1) \in 1..(Len(pool) - k) /\ k + (i - (k - 1)) = i + 1
      BY <1>0, <2>3
    <3>2. QED
      BY <1>0, <1>4, <2>1, <2>3, <3>1
  <2>4. QED
    BY <2>2, <2>3
<1>8. QED
  BY <1>0, <1>3, <1>4, <1>5, <1>6, <1>7

\* insert_pool puts the new node first.
LEMMA Consed ==
  ASSUME NEW s \in Seq(Nodes), NEW n \in Nodes
  PROVE  /\ <<n>> \o s \in Seq(Nodes) /\ Len(<<n>> \o s) = Len(s) + 1
         /\ (<<n>> \o s)[1] = n
         /\ \A i \in 2..(Len(s) + 1) : (<<n>> \o s)[i] = s[i - 1]
<1>1. <<n>> \in Seq(Nodes) /\ Len(<<n>>) = 1 /\ <<n>>[1] = n /\ Len(s) \in Nat
  BY SeqIsFunction
<1>2. /\ <<n>> \o s \in Seq(Nodes) /\ Len(<<n>> \o s) = 1 + Len(s)
      /\ \A i \in 1..(1 + Len(s)) : (<<n>> \o s)[i] = IF i <= 1 THEN <<n>>[i] ELSE s[i - 1]
  BY <1>1, ConcatProperties
<1>3. QED
  BY <1>1, <1>2

-----------------------------------------------------------------------------
(* The table.                                                              *)

\* While the pool is made, the first nodes hold the children in the order of
\* their forks, and the counter is their number.
Filling ==
  /\ Len(pool) = NProc /\ n_proc = lastPid /\ lastPid < NProc
  /\ \A k \in 1..Len(pool) :
       pool[k].pid = (IF k <= lastPid THEN k ELSE NoPid) /\ pool[k].nleft = MaxFd

\* Afterwards no node is free and each living child has one.
Filled ==
  /\ Len(pool) = NProc /\ NProc <= lastPid
  /\ NoPid \notin Pids /\ alive \subseteq Pids

\* The pids in the table and the children alive were forked; n_proc, which only
\* goes down once the table is full, never keeps a new node out.  No node's nleft
\* exceeds that of a new one.
PoolInv ==
  /\ TypeOK
  /\ alive \subseteq 1..lastPid
  /\ \A k \in 1..Len(pool) : pool[k].pid = NoPid \/ pool[k].pid \in 1..lastPid
  /\ OneNodePerChild /\ DealtEvenly
  /\ \A k \in 1..Len(pool) : pool[k].nleft <= MaxFd
  /\ mpc = "init" => Filling
  /\ mpc = "run" => Filled

LEMMA Basics ==
  ASSUME PoolInv
  PROVE  /\ pool \in Seq(Nodes) /\ Len(pool) \in Nat
         /\ \A k \in 1..Len(pool) : pool[k] \in Nodes /\ pool[k].nleft \in Int
         /\ lastPid \in 0..MaxPid /\ n_proc \in Int /\ notices \in 0..MaxNotices
         /\ mpc \in {"init", "run", "exit"} /\ Len(pool) <= NProc /\ n_proc <= NProc
<1>1. pool \in Seq(Nodes)
  BY DEF PoolInv, TypeOK, Nodes
<1>2. Len(pool) \in Nat /\ \A k \in 1..Len(pool) : pool[k] \in Nodes
  BY <1>1, SeqIsFunction
<1>3. \A k \in 1..Len(pool) : pool[k].nleft \in Int
  BY <1>2 DEF Nodes
<1>4. QED
  BY <1>1, <1>2, <1>3 DEF PoolInv, TypeOK

LEMMA InitPoolInv == Init => PoolInv
<1> SUFFICES ASSUME Init PROVE PoolInv
  OBVIOUS
<1>1. Node(NoPid) \in Nodes /\ Node(NoPid).pid = NoPid /\ Node(NoPid).nleft = MaxFd
  BY ProcPoolAssumption DEF Node, Nodes
<1>2. pool \in [1..NProc -> Nodes] /\ \A k \in 1..NProc : pool[k] = Node(NoPid)
  BY <1>1 DEF Init
<1>3. pool \in Seq(Nodes) /\ Len(pool) = NProc
  BY <1>2, FunctionIsSeq, ProcPoolAssumption
<1>4. TypeOK
  BY <1>3, ProcPoolAssumption DEF Init, TypeOK, Nodes
<1>5. Filling
  BY <1>1, <1>2, <1>3, ProcPoolAssumption DEF Init, Filling
<1>6. OneNodePerChild /\ DealtEvenly
  BY <1>1, <1>2, <1>3, ProcPoolAssumption DEF OneNodePerChild, DealtEvenly
<1>7. \A k \in 1..Len(pool) : pool[k].pid = NoPid /\ pool[k].nleft <= MaxFd
  BY <1>1, <1>2, <1>3, ProcPoolAssumption
<1>8. QED
  BY <1>4, <1>5, <1>6, <1>7 DEF PoolInv, Init

\* A round of the loop fills the next free node.
LEMMA FillsNext ==
  ASSUME PoolInv, mpc = "init", Fork, InsertPoolObj(lastPid + 1),
         mpc' = IF lastPid + 1 = NProc THEN "run" ELSE "init", UNCHANGED notices
  PROVE  PoolInv'
<1>0. /\ pool \in Seq(Nodes) /\ Len(pool) = NProc /\ NProc \in Nat \ {0}
      /\ n_proc = lastPid /\ lastPid \in 0..MaxPid /\ lastPid < NProc
      /\ lastPid + 1 \in 1..NProc /\ lastPid + 1 \in 1..MaxPid
      /\ \A k \in 1..NProc : /\ pool[k].pid = (IF k <= lastPid THEN k ELSE NoPid)
                             /\ pool[k].nleft = MaxFd /\ pool[k] \in Nodes
  BY Basics, ProcPoolAssumption DEF PoolInv, Filling
<1>1. SelectInSeq(pool, LAMBDA n : n.pid = NoPid) = lastPid + 1
  <2>1. /\ lastPid + 1 \in 1..Len(pool) /\ Len(pool) \in Nat /\ pool[lastPid + 1].pid = NoPid
        /\ \A j \in 1..Len(pool) : j < lastPid + 1 => pool[j].pid # NoPid
    BY <1>0 DEF NoPid
  <2>2. QED
    BY <2>1, FirstFree
<1>2. pool' = [pool EXCEPT ![lastPid + 1].pid = lastPid + 1] /\ n_proc' = n_proc + 1
  <2> DEFINE k == SelectInSeq(pool, LAMBDA n : n.pid = NoPid)
  <2>1. /\ pool' = IF k = 0 THEN pool ELSE [pool EXCEPT ![k].pid = lastPid + 1]
        /\ n_proc' = IF k = 0 THEN n_proc ELSE n_proc + 1
    BY Zenon DEF InsertPoolObj
  <2>2. k = lastPid + 1
    BY <1>1
  <2> HIDE DEF k
  <2>3. k # 0
    BY <1>0, <2>2
  <2>4. QED
    BY <2>1, <2>2, <2>3
<1>3. lastPid' = lastPid + 1 /\ alive' = alive \cup {lastPid + 1}
  BY DEF Fork
<1>4. pool' \in [1..NProc -> Nodes]
  <2>1. pool \in [1..NProc -> Nodes]
    BY <1>0, SeqIsFunction
  <2>2. [pool[lastPid + 1] EXCEPT !.pid = lastPid + 1] \in Nodes
    BY <1>0 DEF Nodes
  <2>3. QED
    BY <1>0, <1>2, <2>1, <2>2
<1>5. pool' \in Seq(Nodes) /\ Len(pool') = NProc
  BY <1>0, <1>4, FunctionIsSeq
<1>6. \A k \in 1..NProc : /\ pool'[k].pid = (IF k <= lastPid + 1 THEN k ELSE NoPid)
                          /\ pool'[k].nleft = MaxFd
  <2> TAKE k \in 1..NProc
  <2>1. CASE k = lastPid + 1
    <3>1. pool'[k] = [pool[k] EXCEPT !.pid = lastPid + 1]
      BY <1>0, <1>2, <2>1, SeqIsFunction
    <3>2. pool[k] \in Nodes
      BY <1>0
    <3>3. pool'[k].pid = lastPid + 1 /\ pool'[k].nleft = pool[k].nleft
      BY <3>1, <3>2 DEF Nodes
    <3>4. QED
      BY <1>0, <2>1, <3>3
  <2>2. CASE k # lastPid + 1
    <3>1. pool'[k] = pool[k]
      BY <1>0, <1>2, <2>2, SeqIsFunction
    <3>2. QED
      BY <1>0, <2>2, <3>1
  <2>3. QED
    BY <2>1, <2>2
<1>7. TypeOK'
  BY <1>0, <1>2, <1>3, <1>5, Basics DEF PoolInv, TypeOK, Nodes
<1>8. alive' \subseteq 1..lastPid'
  <2>1. alive \subseteq 1..lastPid
    BY DEF PoolInv
  <2>2. \A p \in alive \cup {lastPid + 1} : p \in 1..(lastPid + 1)
    BY <1>0, <2>1
  <2>3. QED
    BY <1>3, <2>2
<1>9. OneNodePerChild' /\ DealtEvenly' /\ \A k \in 1..Len(pool') : pool'[k].nleft <= MaxFd
  <2>1. ASSUME NEW j \in 1..Len(pool'), NEW k \in 1..Len(pool'), j # k, pool'[j].pid # NoPid
        PROVE  pool'[j].pid # pool'[k].pid
    <3>1. j \in 1..NProc /\ k \in 1..NProc
      BY <1>5
    <3>2. /\ pool'[j].pid = (IF j <= lastPid + 1 THEN j ELSE NoPid)
          /\ pool'[k].pid = (IF k <= lastPid + 1 THEN k ELSE NoPid)
      BY <1>6, <3>1
    <3>3. QED
      BY <1>0, <2>1, <3>1, <3>2 DEF NoPid
  <2>2. ASSUME NEW j \in 1..Len(pool'), NEW k \in 1..Len(pool')
        PROVE  pool'[j].nleft - pool'[k].nleft <= 1 /\ pool'[k].nleft <= MaxFd
    <3>1. pool'[j].nleft = MaxFd /\ pool'[k].nleft = MaxFd
      BY <1>5, <1>6
    <3>2. QED
      BY <3>1, ProcPoolAssumption
  <2>3. QED
    BY <2>1, <2>2 DEF OneNodePerChild, DealtEvenly
<1>10. CASE lastPid + 1 = NProc
  <2>1. \A k \in 1..NProc : pool'[k].pid = k
    BY <1>0, <1>6, <1>10
  <2>2. Pids' = 1..NProc
    BY <1>5, <2>1 DEF Pids
  <2>3. Filled'
    BY <1>0, <1>3, <1>5, <1>8, <1>10, <2>2 DEF Filled, NoPid
  <2>4. QED
    BY <1>0, <1>3, <1>5, <1>6, <1>7, <1>8, <1>9, <1>10, <2>3 DEF PoolInv
<1>11. CASE lastPid + 1 # NProc
  <2>1. Filling'
    BY <1>0, <1>2, <1>3, <1>5, <1>6, <1>11 DEF Filling
  <2>2. QED
    BY <1>0, <1>3, <1>5, <1>6, <1>7, <1>8, <1>9, <1>11, <2>1 DEF PoolInv
<1>12. QED
  BY <1>10, <1>11

\* delete_pool_obj of a child that died, followed by insert_pool: the others keep
\* their nodes.
LEMMA Replaces ==
  ASSUME PoolInv, mpc = "run", NEW p \in 1..lastPid, p \in Pids, p \notin alive,
         lastPid < MaxPid, Fork, ReplacePoolObj(p, lastPid + 1),
         UNCHANGED <<mpc, notices>>
  PROVE  PoolInv'
<1>0. /\ pool \in Seq(Nodes) /\ Len(pool) = NProc /\ NProc \in Nat \ {0}
      /\ lastPid \in 0..MaxPid /\ NProc <= lastPid /\ n_proc \in Int /\ n_proc <= NProc
      /\ NoPid \notin Pids /\ alive \subseteq Pids /\ alive \subseteq 1..lastPid
      /\ OneNodePerChild /\ \A k \in 1..NProc : pool[k].pid # NoPid
      /\ lastPid + 1 \in 1..MaxPid /\ MaxPid \in Nat
  BY Basics, ProcPoolAssumption DEF PoolInv, Filled, Pids
<1>1. PICK k \in 1..NProc : pool[k].pid = p
  BY <1>0 DEF Pids
<1>2. \A j \in 1..NProc : j # k => pool[j].pid # p
  BY <1>0, <1>1 DEF OneNodePerChild
<1> DEFINE d == DeletedPool(p)
<1>3. /\ d \in Seq(Nodes) /\ Len(d) = NProc - 1
      /\ \A i \in 1..(NProc - 1) : d[i] = IF i < k THEN pool[i] ELSE pool[i + 1]
  <2>1. /\ pool \in Seq(Nodes) /\ k \in 1..Len(pool) /\ pool[k].pid = p
        /\ \A j \in 1..Len(pool) : j # k => pool[j].pid # p
    BY <1>0, <1>1, <1>2
  <2>2. /\ DeletedPool(p) \in Seq(Nodes) /\ Len(DeletedPool(p)) = Len(pool) - 1
        /\ \A i \in 1..(Len(pool) - 1) :
             DeletedPool(p)[i] = IF i < k THEN pool[i] ELSE pool[i + 1]
    <3> HIDE DEF d
    <3>1. QED
      BY <2>1, Deleted, ZenonT(60)
  <2>3. QED
    BY <1>0, <2>2
<1>4. pool' = <<Node(lastPid + 1)>> \o d /\ n_proc' = n_proc - 1
  <2>1. n_proc - 1 < NProc
    BY <1>0
  <2>2. QED
    BY <2>1 DEF ReplacePoolObj
<1>5. lastPid' = lastPid + 1 /\ alive' = alive \cup {lastPid + 1}
  BY DEF Fork
<1> HIDE DEF d
<1>6. Node(lastPid + 1) \in Nodes /\ Node(lastPid + 1).pid = lastPid + 1
  BY <1>0, NodeType
<1>7. /\ pool' \in Seq(Nodes) /\ Len(pool') = NProc
      /\ pool'[1] = Node(lastPid + 1) /\ \A i \in 2..NProc : pool'[i] = d[i - 1]
  BY <1>0, <1>3, <1>4, <1>6, Consed
\* The node at i was the one at From(i).
<1> DEFINE From(i) == IF i - 1 < k THEN i - 1 ELSE i
<1>8. ASSUME NEW i \in 2..NProc
      PROVE  From(i) \in 1..NProc /\ From(i) # k /\ pool'[i] = pool[From(i)]
  <2>1. i - 1 \in 1..(NProc - 1)
    BY <1>0
  <2>2. pool'[i] = IF i - 1 < k THEN pool[i - 1] ELSE pool[i]
    BY <1>3, <1>7, <2>1
  <2>3. QED
    BY <1>0, <1>1, <2>2
<1>9. \A i, j \in 2..NProc : From(i) = From(j) => i = j
  BY <1>0, <1>1
<1> HIDE DEF From
<1>10. \A j \in 1..NProc : pool[j].pid \in 1..lastPid
  BY <1>0 DEF PoolInv
<1>11. \A i \in 2..NProc : pool'[i].pid \in 1..lastPid
  BY <1>8, <1>10
<1>12. pool'[1].pid = lastPid + 1
  BY <1>6, <1>7
<1>13. OneNodePerChild'
  <2> SUFFICES ASSUME NEW i \in 1..NProc, NEW j \in 1..NProc, i # j
               PROVE  pool'[i].pid # pool'[j].pid
    BY <1>7 DEF OneNodePerChild
  <2>1. CASE i = 1 \/ j = 1
    <3>1. \A n \in 1..lastPid : n # lastPid + 1
      BY <1>0
    <3>2. i = 1 => j \in 2..NProc
      OBVIOUS
    <3>3. j = 1 => i \in 2..NProc
      OBVIOUS
    <3>4. QED
      BY <1>11, <1>12, <2>1, <3>1, <3>2, <3>3
  <2>2. CASE i # 1 /\ j # 1
    <3>1. i \in 2..NProc /\ j \in 2..NProc
      BY <2>2
    <3>2. From(i) # From(j) /\ From(i) \in 1..NProc /\ From(j) \in 1..NProc
      BY <1>8, <1>9, <3>1
    <3>3. pool[From(i)].pid # pool[From(j)].pid
      BY <1>0, <3>2 DEF OneNodePerChild
    <3>4. QED
      BY <1>8, <3>1, <3>3
  <2>3. QED
    BY <2>1, <2>2
<1>14. alive' \subseteq Pids'
  <2>1. 1 \in 1..NProc
    BY <1>0
  <2>2. lastPid + 1 \in Pids'
    BY <1>7, <1>12, <2>1 DEF Pids
  <2>3. ASSUME NEW a \in alive PROVE a \in Pids'
    <3>1. PICK j \in 1..NProc : pool[j].pid = a
      BY <1>0 DEF Pids
    <3>2. j # k
      BY <1>1, <3>1
    <3>3. PICK i \in 2..NProc : From(i) = j
      <4>1. CASE j < k
        <5>1. j + 1 \in 2..NProc /\ From(j + 1) = j
          BY <1>0, <1>1, <4>1 DEF From
        <5>2. QED
          BY <5>1
      <4>2. CASE j > k
        <5>1. j \in 2..NProc /\ From(j) = j
          BY <1>0, <1>1, <4>2 DEF From
        <5>2. QED
          BY <5>1
      <4>3. QED
        BY <1>0, <1>1, <3>2, <4>1, <4>2
    <3>4. i \in 1..NProc /\ pool'[i].pid = a
      BY <1>8, <3>1, <3>3
    <3>5. QED
      BY <1>7, <3>4 DEF Pids
  <2>4. QED
    BY <1>5, <2>2, <2>3
<1>15. \A i \in 1..NProc : pool'[i].pid \in 1..(lastPid + 1)
  <2> TAKE i \in 1..NProc
  <2>1. CASE i = 1
    BY <1>0, <1>12, <2>1
  <2>2. CASE i # 1
    <3>1. pool'[i].pid \in 1..lastPid
      BY <1>11, <2>2
    <3>2. QED
      BY <1>0, <3>1
  <2>3. QED
    BY <2>1, <2>2
<1>16. NoPid \notin Pids'
  BY <1>0, <1>7, <1>15 DEF Pids, NoPid
<1>17. alive' \subseteq 1..lastPid'
  <2>1. \A a \in alive \cup {lastPid + 1} : a \in 1..(lastPid + 1)
    BY <1>0
  <2>2. QED
    BY <1>5, <2>1
<1>18. Filled'
  BY <1>0, <1>5, <1>7, <1>14, <1>16 DEF Filled
<1>19. TypeOK'
  <2>1. /\ lastPid' \in 0..MaxPid /\ alive' \subseteq 1..MaxPid
        /\ n_proc' \in Int /\ n_proc' <= NProc
    BY <1>0, <1>4, <1>5, <1>17
  <2>2. QED
    BY <1>0, <1>7, <2>1, Basics DEF TypeOK, Nodes
<1>20. pool'[1].nleft = MaxFd /\ MaxFd \in Nat
  BY <1>7, ProcPoolAssumption DEF Node
<1>21. ASSUME NEW i \in 2..NProc
       PROVE  /\ From(i) \in 1..NProc /\ pool'[i] = pool[From(i)]
              /\ pool'[i].nleft \in Int /\ pool'[i].nleft <= MaxFd
  BY <1>0, <1>8, Basics DEF PoolInv
<1>22. \A i \in 1..NProc : pool'[i].nleft <= MaxFd
  <2> TAKE i \in 1..NProc
  <2>1. i = 1 \/ i \in 2..NProc
    OBVIOUS
  <2>2. QED
    BY <1>20, <1>21, <2>1
<1>23. DealtEvenly'
  <2> SUFFICES ASSUME NEW i \in 1..NProc, NEW j \in 1..NProc,
                      pool'[i].pid <= NProc \/ pool'[i].pid <= pool'[j].pid
               PROVE  pool'[i].nleft - pool'[j].nleft <= 1
    BY <1>7 DEF DealtEvenly
  <2>1. CASE j = 1
    <3>1. pool'[i].nleft \in Int /\ pool'[i].nleft <= MaxFd
      <4>1. i = 1 \/ i \in 2..NProc
        OBVIOUS
      <4>2. QED
        BY <1>20, <1>21, <4>1
    <3>2. QED
      BY <1>20, <2>1, <3>1
  <2>2. CASE i = 1 /\ j # 1
    <3>1. j \in 2..NProc
      BY <2>2
    <3>2. pool'[j].pid \in 1..lastPid /\ pool'[i].pid = lastPid + 1
      BY <1>11, <1>12, <2>2, <3>1
    <3>3. ~(pool'[i].pid <= NProc) /\ ~(pool'[i].pid <= pool'[j].pid)
      BY <1>0, <3>2
    <3>4. QED
      BY <3>3
  <2>3. CASE i # 1 /\ j # 1
    <3>1. i \in 2..NProc /\ j \in 2..NProc
      BY <2>3
    <3>2. /\ From(i) \in 1..NProc /\ From(j) \in 1..NProc
          /\ pool'[i] = pool[From(i)] /\ pool'[j] = pool[From(j)]
      BY <1>21, <3>1
    <3>3. QED
      BY <1>0, <3>2 DEF PoolInv, DealtEvenly
  <2>4. QED
    BY <2>1, <2>2, <2>3
<1>24. QED
  BY <1>5, <1>7, <1>13, <1>15, <1>17, <1>18, <1>19, <1>22, <1>23 DEF PoolInv

\* delete_pool_obj of a child that died, when no other can be forked.
LEMMA LosesNode ==
  ASSUME PoolInv, mpc = "run", NEW p \in 1..lastPid, p \in Pids,
         pool' = DeletedPool(p), n_proc' = n_proc - 1, mpc' = "exit",
         UNCHANGED <<alive, lastPid, notices>>
  PROVE  PoolInv'
<1>0. /\ pool \in Seq(Nodes) /\ Len(pool) = NProc /\ NProc \in Nat \ {0}
      /\ n_proc \in Int /\ n_proc <= NProc /\ OneNodePerChild
      /\ \A k \in 1..NProc : pool[k].pid # NoPid
  BY Basics, ProcPoolAssumption DEF PoolInv, Filled, Pids
<1>1. PICK k \in 1..NProc : pool[k].pid = p
  BY <1>0 DEF Pids
<1>2. /\ pool \in Seq(Nodes) /\ k \in 1..Len(pool) /\ pool[k].pid = p
      /\ \A j \in 1..Len(pool) : j # k => pool[j].pid # p
  BY <1>0, <1>1 DEF OneNodePerChild
<1>3. /\ pool' \in Seq(Nodes) /\ Len(pool') = Len(pool) - 1
      /\ \A i \in 1..(Len(pool) - 1) : pool'[i] = IF i < k THEN pool[i] ELSE pool[i + 1]
  BY <1>2, Deleted
<1> DEFINE From(i) == IF i < k THEN i ELSE i + 1
<1>4. ASSUME NEW i \in 1..(NProc - 1)
      PROVE  From(i) \in 1..NProc /\ pool'[i] = pool[From(i)]
  BY <1>0, <1>1, <1>3
<1>5. \A i, j \in 1..(NProc - 1) : From(i) = From(j) => i = j
  BY <1>0, <1>1
<1>6. Len(pool') = NProc - 1
  BY <1>0, <1>3
<1> HIDE DEF From
<1>7. OneNodePerChild'
  <2> SUFFICES ASSUME NEW i \in 1..(NProc - 1), NEW j \in 1..(NProc - 1), i # j
               PROVE  pool'[i].pid # pool'[j].pid
    BY <1>6 DEF OneNodePerChild
  <2>1. From(i) # From(j) /\ From(i) \in 1..NProc /\ From(j) \in 1..NProc
    BY <1>4, <1>5
  <2>2. pool[From(i)].pid # pool[From(j)].pid
    BY <1>0, <2>1 DEF OneNodePerChild
  <2>3. QED
    BY <1>4, <2>2
<1>8. DealtEvenly'
  <2> SUFFICES ASSUME NEW i \in 1..(NProc - 1), NEW j \in 1..(NProc - 1),
                      pool'[i].pid <= NProc \/ pool'[i].pid <= pool'[j].pid
               PROVE  pool'[i].nleft - pool'[j].nleft <= 1
    BY <1>6 DEF DealtEvenly
  <2>1. /\ From(i) \in 1..NProc /\ pool'[i] = pool[From(i)]
        /\ From(j) \in 1..NProc /\ pool'[j] = pool[From(j)]
    BY <1>4
  <2>2. QED
    BY <1>0, <2>1 DEF PoolInv, DealtEvenly
<1>9. \A i \in 1..(NProc - 1) : /\ pool'[i].pid = NoPid \/ pool'[i].pid \in 1..lastPid
                                /\ pool'[i].nleft <= MaxFd
  BY <1>0, <1>4 DEF PoolInv
<1>10. TypeOK'
  BY <1>0, <1>3, <1>6, Basics DEF PoolInv, TypeOK, Nodes
<1>11. QED
  BY <1>6, <1>7, <1>8, <1>9, <1>10 DEF PoolInv

\* notice_child takes one from a node that has the most.
LEMMA NoticeIsEven ==
  ASSUME PoolInv, NoticeChild
  PROVE  PoolInv'
<1>0. /\ pool \in Seq(Nodes) /\ Len(pool) = NProc /\ NProc \in Nat \ {0} /\ Len(pool) \in Nat
      /\ pool \in [1..NProc -> Nodes] /\ mpc = "run"
      /\ \A k \in 1..NProc : pool[k] \in Nodes /\ pool[k].nleft \in Int
      /\ pool' = [pool EXCEPT ![Chosen].nleft = @ - 1]
      /\ notices < MaxNotices /\ notices' = notices + 1
      /\ UNCHANGED <<n_proc, alive, lastPid, mpc>>
  BY Basics, SeqIsFunction, ProcPoolAssumption DEF PoolInv, Filled, NoticeChild
<1>1. pool' \in [1..NProc -> Nodes]
      /\ \A k \in 1..NProc :
           /\ pool'[k].pid = pool[k].pid
           /\ pool'[k].nleft = IF k = Chosen THEN pool[k].nleft - 1 ELSE pool[k].nleft
  <2> DEFINE c == Chosen
  <2> HIDE DEF c
  <2>1. pool' = [pool EXCEPT ![c] = [pool[c] EXCEPT !.nleft = pool[c].nleft - 1]]
    BY <1>0 DEF c
  <2>2. ASSUME NEW k \in 1..NProc
        PROVE  /\ [pool[k] EXCEPT !.nleft = pool[k].nleft - 1] \in Nodes
               /\ [pool[k] EXCEPT !.nleft = pool[k].nleft - 1].pid = pool[k].pid
               /\ [pool[k] EXCEPT !.nleft = pool[k].nleft - 1].nleft = pool[k].nleft - 1
    <3> DEFINE d == pool[k].nleft - 1
    <3>1. pool[k] \in Nodes /\ d \in Int
      BY <1>0
    <3> HIDE DEF d
    <3>2. /\ [pool[k] EXCEPT !.nleft = d] \in Nodes
          /\ [pool[k] EXCEPT !.nleft = d].pid = pool[k].pid
          /\ [pool[k] EXCEPT !.nleft = d].nleft = d
      BY <3>1 DEF Nodes
    <3>3. QED
      BY <3>2 DEF d
  <2>3. ASSUME NEW k \in 1..NProc
        PROVE  pool'[k] = IF k = c THEN [pool[k] EXCEPT !.nleft = pool[k].nleft - 1] ELSE pool[k]
    BY <1>0, <2>1
  <2>4. pool' \in [1..NProc -> Nodes]
    <3>1. \A k \in 1..NProc : pool'[k] \in Nodes
      BY <1>0, <2>2, <2>3
    <3>2. DOMAIN pool' = 1..NProc /\ pool' = [k \in 1..NProc |-> pool'[k]]
      BY <1>0, <2>1
    <3>3. QED
      BY <3>1, <3>2
  <2>5. ASSUME NEW k \in 1..NProc
        PROVE  /\ pool'[k].pid = pool[k].pid
               /\ pool'[k].nleft = IF k = c THEN pool[k].nleft - 1 ELSE pool[k].nleft
    <3>1. CASE k = c
      BY <2>2, <2>3, <3>1
    <3>2. CASE k # c
      BY <2>3, <3>2
    <3>3. QED
      BY <3>1, <3>2
  <2>6. QED
    BY <2>4, <2>5 DEF c
<1>2. pool' \in Seq(Nodes) /\ Len(pool') = NProc
  BY <1>0, <1>1, FunctionIsSeq
<1>3. Pids' = Pids
  BY <1>0, <1>1, <1>2 DEF Pids
<1>4. OneNodePerChild' /\ \A k \in 1..NProc : pool'[k].pid = NoPid \/ pool'[k].pid \in 1..lastPid
  BY <1>0, <1>1, <1>2 DEF PoolInv, OneNodePerChild
<1>5. DealtEvenly' /\ \A k \in 1..NProc : pool'[k].nleft <= MaxFd
  <2> SUFFICES ASSUME NEW i \in 1..NProc, NEW j \in 1..NProc
               PROVE  /\ pool'[i].nleft <= MaxFd
                      /\ (pool'[i].pid <= NProc \/ pool'[i].pid <= pool'[j].pid) =>
                           pool'[i].nleft - pool'[j].nleft <= 1
    BY <1>0, <1>2 DEF DealtEvenly
  <2>1. MaxFd \in Nat /\ \A k \in 1..NProc : pool[k].nleft \in Int /\ pool[k].nleft <= MaxFd
    BY <1>0, ProcPoolAssumption DEF PoolInv
  \* There is a greatest nleft, for all are bounded by MaxFd.
  <2>2. PICK t \in 1..NProc : \A k \in 1..NProc : pool[k].nleft <= pool[t].nleft
    <3> DEFINE T == {MaxFd - pool[k].nleft : k \in 1..NProc}
    <3>1. T \subseteq Nat /\ T # {}
      <4>1. \A k \in 1..NProc : MaxFd - pool[k].nleft \in Nat
        BY <2>1
      <4>2. 1 \in 1..NProc
        BY <1>0
      <4>3. QED
        BY <4>1, <4>2
    <3>2. PICK m \in T : \A x \in T : ~(x < m)
      BY <3>1, LeastNatural
    <3>3. PICK t \in 1..NProc : m = MaxFd - pool[t].nleft
      BY <3>2
    <3>4. ASSUME NEW k \in 1..NProc PROVE pool[k].nleft <= pool[t].nleft
      <4>1. ~(MaxFd - pool[k].nleft < MaxFd - pool[t].nleft)
        BY <3>2, <3>3
      <4>2. QED
        BY <2>1, <4>1
    <3>5. QED
      BY <3>4
  <2>3. Chosen \in 1..NProc /\ \A k \in 1..NProc : pool[k].nleft <= pool[Chosen].nleft
    <3> DEFINE S == {x \in 1..Len(pool) : \A k \in 1..Len(pool) : pool[k].nleft <= pool[x].nleft}
    <3>1. t \in S /\ S \subseteq 1..NProc
      BY <1>0, <2>2
    <3>2. Max(S) \in S
      <4> HIDE DEF S
      <4>1. NProc \in Nat /\ S # {}
        BY <1>0, <3>1
      <4>2. QED
        BY <3>1, <4>1, GreatestIndex
    <3>3. Chosen = IF S # {} THEN Max(S) ELSE 0
      BY Zenon DEF Chosen, SelectLastInSeq
    <3>4. Chosen \in S
      <4> HIDE DEF S
      <4>1. QED
        BY <3>1, <3>2, <3>3
    <3>5. QED
      BY <1>0, <3>4
  <2> DEFINE c == Chosen
  <2> HIDE DEF c
  <2>4. /\ pool[i].nleft \in Int /\ pool[j].nleft \in Int /\ pool[i].nleft <= MaxFd
        /\ pool[i].nleft <= pool[c].nleft
        /\ pool'[i].pid = pool[i].pid /\ pool'[j].pid = pool[j].pid
        /\ pool'[i].nleft = IF i = c THEN pool[i].nleft - 1 ELSE pool[i].nleft
        /\ pool'[j].nleft = IF j = c THEN pool[j].nleft - 1 ELSE pool[j].nleft
    BY <1>0, <1>1, <2>1, <2>3 DEF c
  <2>5. pool'[i].nleft <= MaxFd
    BY <2>1, <2>4
  <2>6. ASSUME pool'[i].pid <= NProc \/ pool'[i].pid <= pool'[j].pid
        PROVE  pool'[i].nleft - pool'[j].nleft <= 1
    <3>1. CASE j = c
      BY <2>4, <3>1
    <3>2. CASE j # c
      <4>1. pool[i].nleft - pool[j].nleft <= 1
        BY <1>0, <2>4, <2>6 DEF PoolInv, DealtEvenly
      <4>2. QED
        BY <2>4, <3>2, <4>1
    <3>3. QED
      BY <3>1, <3>2
  <2>7. QED
    BY <2>5, <2>6
<1>6. TypeOK'
  <2>1. TypeOK /\ notices \in 0..MaxNotices /\ MaxNotices \in Nat
    BY ProcPoolAssumption DEF PoolInv, TypeOK
  <2>2. notices' \in 0..MaxNotices
    BY <1>0, <2>1
  <2>3. pool' \in Seq(Nodes) /\ Len(pool') <= NProc
    BY <1>0, <1>2
  <2>4. QED
    BY <1>0, <2>1, <2>2, <2>3 DEF TypeOK, Nodes
<1>7. Filled'
  BY <1>0, <1>2, <1>3 DEF PoolInv, Filled
<1>8. QED
  BY <1>0, <1>2, <1>4, <1>5, <1>6, <1>7 DEF PoolInv

\* set_status_ok changes no pid and no nleft.
LEMMA StatusOnly ==
  ASSUME PoolInv, NEW p \in 1..lastPid, SetStatusOk(p)
  PROVE  PoolInv'
<1>0. /\ pool \in Seq(Nodes) /\ Len(pool) \in Nat /\ mpc = "run"
      /\ pool \in [1..Len(pool) -> Nodes]
      /\ pool' = [k \in 1..Len(pool) |->
                    IF pool[k].pid = p THEN [pool[k] EXCEPT !.status = 1] ELSE pool[k]]
      /\ UNCHANGED <<n_proc, alive, lastPid, mpc, notices>>
  BY Basics, SeqIsFunction DEF SetStatusOk
<1>1. ASSUME NEW k \in 1..Len(pool)
      PROVE  pool'[k] \in Nodes /\ pool'[k].pid = pool[k].pid /\ pool'[k].nleft = pool[k].nleft
  BY <1>0 DEF Nodes
<1>2. pool' \in [1..Len(pool) -> Nodes]
  BY <1>0, <1>1
<1>3. pool' \in Seq(Nodes) /\ Len(pool') = Len(pool)
  BY <1>0, <1>2, FunctionIsSeq
<1>4. Pids' = Pids
  BY <1>1, <1>3 DEF Pids
<1>5. OneNodePerChild' /\ DealtEvenly'
  BY <1>0, <1>1, <1>3 DEF PoolInv, OneNodePerChild, DealtEvenly
<1>6. TypeOK'
  BY <1>0, <1>3, Basics DEF PoolInv, TypeOK, Nodes
<1>7. Filled'
  BY <1>0, <1>3, <1>4 DEF PoolInv, Filled
<1>8. \A k \in 1..Len(pool') : pool'[k].pid = NoPid \/ pool'[k].pid \in 1..lastPid'
  BY <1>0, <1>1, <1>3 DEF PoolInv
<1>9. QED
  BY <1>0, <1>5, <1>6, <1>7, <1>8 DEF PoolInv

LEMMA NextPoolInv ==
  ASSUME PoolInv, [Next]_vars
  PROVE  PoolInv'
<1>1. CASE InitManagerProc
  <2>1. CASE mpc' = "exit" /\ UNCHANGED <<pool, n_proc, alive, lastPid, notices>>
    BY <2>1 DEF PoolInv, TypeOK, OneNodePerChild, DealtEvenly
  <2>2. CASE /\ Fork /\ InsertPoolObj(lastPid + 1)
             /\ mpc' = IF lastPid + 1 = NProc THEN "run" ELSE "init"
    BY <1>1, <2>2, FillsNext DEF InitManagerProc
  <2>3. QED
    BY <1>1, <2>1, <2>2 DEF InitManagerProc
<1>2. ASSUME NEW p \in 1..lastPid, ChildDies(p) PROVE PoolInv'
  <2>1. /\ alive' = alive \ {p} /\ UNCHANGED <<pool, n_proc, lastPid, mpc, notices>>
        /\ Pids' = Pids
    BY <1>2 DEF ChildDies, Pids
  <2>2. QED
    BY <2>1 DEF PoolInv, TypeOK, OneNodePerChild, DealtEvenly, Filling, Filled
<1>3. ASSUME NEW p \in 1..lastPid, HandlerDeadProcessor(p) PROVE PoolInv'
  <2>1. /\ mpc = "run" /\ p \in Pids /\ p \notin alive /\ notices' = notices
        /\ \/ /\ lastPid < MaxPid /\ Fork /\ ReplacePoolObj(p, lastPid + 1) /\ UNCHANGED mpc
           \/ /\ pool' = DeletedPool(p) /\ n_proc' = n_proc - 1 /\ mpc' = "exit"
              /\ UNCHANGED <<alive, lastPid>>
    BY <1>3 DEF HandlerDeadProcessor
  <2>2. QED
    BY <2>1, Replaces, LosesNode
<1>4. CASE TellChldExit
  <2>1. NoPid \notin Pids /\ alive \subseteq Pids
    BY <1>4 DEF TellChldExit, PoolInv, Filled
  <2>2. /\ alive' = alive \ Pids /\ UNCHANGED <<pool, n_proc, lastPid, mpc, notices>>
        /\ Pids' = Pids
    BY <1>4, <2>1 DEF TellChldExit, Pids
  <2>3. QED
    BY <2>2 DEF PoolInv, TypeOK, OneNodePerChild, DealtEvenly, Filling, Filled
<1>5. CASE UNCHANGED vars
  BY <1>5 DEF vars, PoolInv, TypeOK, OneNodePerChild, DealtEvenly, Filling, Filled, Pids
<1>6. QED
  BY <1>1, <1>2, <1>3, <1>4, <1>5, NoticeIsEven, StatusOnly DEF Next

THEOREM PoolInvariant == Spec => []PoolInv
  BY InitPoolInv, NextPoolInv, PTL DEF Spec

\* The table never grows beyond NPROC_MAX_NUM nodes, nor its counter above it,
\* however many children die and are replaced.
THEOREM TypeCorrect == Spec => []TypeOK
<1>1. PoolInv => TypeOK
  BY DEF PoolInv
<1>2. QED
  BY <1>1, PoolInvariant, PTL

\* insert_pool turns no child away: each that lives is in the table.
THEOREM ChildrenRecorded == Spec => []LiveChildrenRecorded
<1>1. PoolInv => LiveChildrenRecorded
  BY DEF PoolInv, Filled, LiveChildrenRecorded
<1>2. QED
  BY <1>1, PoolInvariant, PTL

\* delete_pool_obj finds the only node of the dead child.
THEOREM NodesDistinct == Spec => []OneNodePerChild
<1>1. PoolInv => OneNodePerChild
  BY DEF PoolInv
<1>2. QED
  BY <1>1, PoolInvariant, PTL

\* notice_child deals evenly among the children of the table, the later ones put
\* in for dead ones included.
THEOREM Evenly == Spec => []DealtEvenly
<1>1. PoolInv => DealtEvenly
  BY DEF PoolInv
<1>2. QED
  BY <1>1, PoolInvariant, PTL

\* tell_chld_exit kills no process but the children, and all of them.
THEOREM TellsChildren == Spec => TellEndsChildrenOnly
<1>1. PoolInv /\ TellChldExit => NoPid \notin Pids /\ alive' = {}
  <2> SUFFICES ASSUME PoolInv, TellChldExit PROVE NoPid \notin Pids /\ alive' = {}
    OBVIOUS
  <2>1. NoPid \notin Pids /\ alive \subseteq Pids
    BY DEF TellChldExit, PoolInv, Filled
  <2>2. QED
    BY <2>1 DEF TellChldExit
<1>2. PoolInv /\ [Next]_vars => [TellChldExit => NoPid \notin Pids /\ alive' = {}]_vars
  BY <1>1
<1>3. QED
  BY <1>2, PoolInvariant, PTL DEF TellEndsChildrenOnly, Spec

=============================================================================

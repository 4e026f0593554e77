--------------------------- MODULE MsgQueuesProof ---------------------------
(***************************************************************************)
(* Proofs about MsgQueues for every set of children, every capacity of a   *)
(* queue, every number of runs and whatever identifiers the kernel gives.  *)
(***************************************************************************)
EXTENDS MsgQueues, SequenceTheorems, TLAPS

-----------------------------------------------------------------------------
(* The stack of handlers.                                                  *)

Frames == [Procs -> Seq(0..2)]

LEMMA TopOfFrames ==
  ASSUME frames \in Frames, NEW p \in Procs, frames[p] # <<>>
  PROVE  Len(frames[p]) \in Nat \ {0} /\ Index(p) \in 0..2
<1>1. frames[p] \in Seq(0..2)
  BY DEF Frames
<1>2. QED
  BY <1>1 DEF Index

\* A signal puts a handler on top that is at its first queue.
LEMMA PushFrame ==
  ASSUME frames \in Frames, NEW p \in Procs,
         frames' = [frames EXCEPT ![p] = Append(@, 0)]
  PROVE  /\ frames' \in Frames
         /\ frames'[p] # <<>> /\ Index(p)' = 0
         /\ \A q \in Procs \ {p} : frames'[q] = frames[q]
<1>1. frames[p] \in Seq(0..2)
  BY DEF Frames
<1>2. frames'[p] = Append(frames[p], 0) /\ \A q \in Procs \ {p} : frames'[q] = frames[q]
  BY DEF Frames
<1>3. /\ Append(frames[p], 0) \in Seq(0..2)
      /\ Len(Append(frames[p], 0)) = Len(frames[p]) + 1
      /\ Append(frames[p], 0)[Len(frames[p]) + 1] = 0
      /\ Len(frames[p]) \in Nat
  BY <1>1, AppendProperties
<1>4. frames' \in Frames
  BY <1>3 DEF Frames
<1>5. Index(p)' = 0 /\ frames'[p] # <<>>
  BY <1>2, <1>3, SMTT(30) DEF Index
<1>6. QED
  BY <1>2, <1>4, <1>5

\* A removal moves the innermost handler on by one.
LEMMA AdvanceFrame ==
  ASSUME frames \in Frames, NEW p \in Procs, frames[p] # <<>>, Index(p) # 2,
         frames' = [frames EXCEPT ![p][Len(frames[p])] = @ + 1]
  PROVE  /\ frames' \in Frames
         /\ frames'[p] # <<>> /\ Index(p)' = Index(p) + 1
         /\ \A q \in Procs \ {p} : frames'[q] = frames[q]
<1>1. frames[p] \in Seq(0..2) /\ Len(frames[p]) \in Nat \ {0} /\ Index(p) \in 0..2
  BY TopOfFrames DEF Frames
<1> DEFINE s == [frames[p] EXCEPT ![Len(frames[p])] = @ + 1]
<1>2. s \in Seq(0..2) /\ Len(s) = Len(frames[p]) /\ s[Len(s)] = Index(p) + 1
  <2>1. Index(p) + 1 \in 0..2
    BY <1>1
  <2>2. s = [frames[p] EXCEPT ![Len(frames[p])] = Index(p) + 1]
    BY DEF Index
  <2>3. QED
    BY <1>1, <2>1, <2>2, ExceptSeq
<1>3. frames'[p] = s /\ \A q \in Procs \ {p} : frames'[q] = frames[q]
  BY DEF Frames
<1>4. frames' \in Frames
  BY <1>2 DEF Frames
<1> HIDE DEF s
<1>5. Index(p)' = Index(p) + 1 /\ frames'[p] # <<>>
  BY <1>1, <1>2, <1>3 DEF Index
<1>6. QED
  BY <1>3, <1>4, <1>5

LEMMA DropFrames ==
  ASSUME frames \in Frames, NEW p \in Procs,
         frames' = [frames EXCEPT ![p] = <<>>]
  PROVE  /\ frames' \in Frames
         /\ frames'[p] = <<>>
         /\ \A q \in Procs \ {p} : frames'[q] = frames[q]
  BY EmptySeq DEF Frames

-----------------------------------------------------------------------------
(* Types, and what a process may know of the queues.                       *)

PcType == [Procs -> {"new", "run", "msgget", "assign", "send", "rcv", "exited"}]

\* create_queue fills the main process's array from the left; a child has the full
\* array or the zeroed one; who sends or receives has the full one; who is not
\* there is in no handler.
ArrInv ==
  /\ pc[Main] # "new"
  /\ pc[Main] \in {"msgget", "assign"} => made[Main] < 3
  /\ pc[Main] = "run" => made[Main] \in {0, 3}
  /\ \A i \in 0..2 : made[Main] <= i => arr[Main][i] = 0
  /\ \A c \in Children :
       \/ made[c] = 0 /\ arr[c] = ZeroArr
       \/ made[c] = 3 /\ made[Main] = 3 /\ arr[c] = arr[Main]
  /\ \A p \in Procs :
       /\ pc[p] \in {"send", "rcv"} => made[p] = 3
       /\ pc[p] \in {"new", "exited"} => frames[p] = <<>>

StateInv == TypeOK /\ ArrInv

LEMMA InitStateInv == Init => StateInv
<1> SUFFICES ASSUME Init PROVE StateInv
  OBVIOUS
<1>1. Main \in Procs /\ Children \subseteq Procs /\ Main \notin Children
  BY MsgQueuesAssumption DEF Procs
<1>2. \A S : <<>> \in Seq(S)
  BY EmptySeq
<1>3. ZeroArr \in [0..2 -> Nat] /\ \A i \in 0..2 : ZeroArr[i] = 0
  BY DEF ZeroArr
<1>4. TypeOK
  <2>1. run \in 1..MaxRun /\ qid \in Nat /\ live \subseteq Keys /\ orphans \subseteq Keys
    BY MsgQueuesAssumption DEF Init
  <2>2. frames \in [Procs -> Seq(0..2)] /\ msgs \in [Keys -> Seq(1..MaxRun)]
    BY <1>2 DEF Init
  <2>3. pc \in PcType
    BY DEF Init, PcType
  <2>4. arr \in [Procs -> [0..2 -> Nat]]
    BY <1>3 DEF Init
  <2>5. arg \in [Procs -> 0..2] /\ made \in [Procs -> 0..3] /\ id \in [Keys -> Nat]
    BY DEF Init
  <2>6. QED
    BY <2>1, <2>2, <2>3, <2>4, <2>5 DEF TypeOK, PcType, Init
<1>5. ArrInv
  <2>1. /\ pc[Main] = "run" /\ made[Main] = 0 /\ arr[Main] = ZeroArr
        /\ \A p \in Procs : /\ pc[p] \in {"run", "new"} /\ frames[p] = <<>>
                            /\ made[p] = 0 /\ arr[p] = ZeroArr
    BY <1>1 DEF Init
  <2>2. QED
    BY <1>1, <1>3, <2>1 DEF ArrInv
<1>6. QED
  BY <1>4, <1>5 DEF StateInv

\* The facts of StateInv that the proofs below use.
LEMMA StateFacts ==
  ASSUME StateInv
  PROVE  /\ pc \in PcType
         /\ arg \in [Procs -> 0..2] /\ arr \in [Procs -> [0..2 -> Nat]]
         /\ made \in [Procs -> 0..3]
         /\ frames \in Frames /\ frames \in [Procs -> Seq(0..2)]
         /\ live \subseteq Keys /\ id \in [Keys -> Nat] /\ other \in BOOLEAN
         /\ orphans \subseteq Keys /\ qid \in Nat
         /\ Main \in Procs /\ Children \subseteq Procs /\ Main \notin Children
         /\ \A p \in Procs : p = Main \/ p \in Children
  BY MsgQueuesAssumption DEF StateInv, TypeOK, Frames, Procs, PcType

\* A process that has identifiers has those of the main process; one that has
\* none has a zeroed array.
LEMMA ArrOf ==
  ASSUME StateInv, NEW p \in Procs
  PROVE  /\ made[p] > 0 => made[p] = made[Main] /\ arr[p] = arr[Main]
         /\ made[p] = 0 => \A i \in 0..2 : arr[p][i] = 0
         /\ made[Main] < 3 /\ p # Main => made[p] = 0
<1>1. \A i \in 0..2 : ZeroArr[i] = 0
  BY DEF ZeroArr
<1>2. made[p] \in 0..3 /\ made[Main] \in 0..3
  BY StateFacts
<1>3. CASE p = Main
  BY <1>2, <1>3 DEF StateInv, ArrInv
<1>4. CASE p \in Children
  BY <1>1, <1>2, <1>4 DEF StateInv, ArrInv
<1>5. QED
  BY <1>3, <1>4, StateFacts

\* A process that ends: check(), the end of a handler, a kill.
LEMMA ExitFacts ==
  ASSUME StateInv, NEW p \in Procs, Exit(p)
  PROVE  /\ pc' \in PcType /\ arg' \in [Procs -> 0..2] /\ frames' \in [Procs -> Seq(0..2)]
         /\ pc'[p] = "exited" /\ frames'[p] = <<>>
         /\ \A q \in Procs \ {p} : pc'[q] = pc[q] /\ frames'[q] = frames[q]
<1>1. frames' \in Frames /\ frames'[p] = <<>> /\ \A q \in Procs \ {p} : frames'[q] = frames[q]
  BY DropFrames, StateFacts DEF Exit
<1>2. pc' \in PcType /\ arg' \in [Procs -> 0..2] /\ pc'[p] = "exited"
      /\ \A q \in Procs \ {p} : pc'[q] = pc[q]
  <2>1. pc \in PcType /\ arg \in [Procs -> 0..2]
    BY StateFacts
  <2>2. pc' = [pc EXCEPT ![p] = "exited"] /\ arg' = [arg EXCEPT ![p] = 0]
    BY DEF Exit
  <2>3. pc' \in PcType
    BY <2>1, <2>2 DEF PcType
  <2>4. arg' \in [Procs -> 0..2]
    BY <2>1, <2>2
  <2>5. QED
    BY <2>1, <2>2, <2>3, <2>4 DEF PcType
<1>3. QED
  BY <1>1, <1>2 DEF Frames

\* The loop of destroy_queue goes on or ends.
LEMMA GoOnFacts ==
  ASSUME StateInv, NEW p \in Procs, frames[p] # <<>>, GoOn(p, 2)
  PROVE  /\ pc' \in PcType /\ arg' \in [Procs -> 0..2] /\ frames' \in [Procs -> Seq(0..2)]
         /\ \A q \in Procs \ {p} : pc'[q] = pc[q] /\ frames'[q] = frames[q]
         /\ \/ Index(p) = 2 /\ Exit(p)
            \/ /\ Index(p) # 2 /\ pc' = pc
               /\ frames'[p] # <<>> /\ Index(p)' = Index(p) + 1
<1>1. CASE Index(p) = 2
  BY <1>1, ExitFacts DEF GoOn
<1>2. CASE Index(p) # 2
  <2>1. pc' = pc /\ arg' = arg /\ frames' = [frames EXCEPT ![p][Len(frames[p])] = @ + 1]
    BY <1>2 DEF GoOn
  <2>2. frames' \in Frames /\ frames'[p] # <<>> /\ Index(p)' = Index(p) + 1
        /\ \A q \in Procs \ {p} : frames'[q] = frames[q]
    BY <1>2, <2>1, AdvanceFrame, StateFacts
  <2>3. QED
    BY <1>2, <2>1, <2>2, StateFacts DEF Frames
<1>3. QED
  BY <1>1, <1>2

\* What a removal may hit.
HitsOurs(p, k) ==
  /\ k \in live /\ id[k] = arr[p][Index(p)]
  /\ live' = live \ {k} /\ id' = [id EXCEPT ![k] = 0] /\ other' = other
  /\ msgs' = [msgs EXCEPT ![k] = <<>>]
  /\ orphans' = IF made[p] = 0 /\ k \in OfThisRun THEN Keys ELSE orphans
  /\ GoOn(p, 2)

HitsOther(p) ==
  /\ other /\ arr[p][Index(p)] = 0 /\ other' = FALSE
  /\ UNCHANGED <<live, id, msgs, orphans>> /\ GoOn(p, 2)

HitsNone(p) ==
  /\ \A k \in live : id[k] # arr[p][Index(p)]
  /\ UNCHANGED <<live, id, msgs, other, orphans>> /\ Exit(p)

LEMMA RemoveFacts ==
  ASSUME StateInv, NEW p \in Procs, Remove(p)
  PROVE  /\ frames[p] # <<>> /\ Index(p) \in 0..2
         /\ pc[p] \notin {"new", "exited"}
         /\ UNCHANGED <<run, arr, made, qid>>
         /\ (\E k \in Keys : HitsOurs(p, k)) \/ HitsOther(p) \/ HitsNone(p)
<1>1. frames[p] # <<>> /\ Index(p) \in 0..2
  BY StateFacts, TopOfFrames DEF Remove
<1>2. pc[p] \notin {"new", "exited"}
  BY <1>1 DEF StateInv, ArrInv
<1>3. RemoveMessage(p, arr[p][Index(p)], 2)
  BY DEF Remove
<1>4. UNCHANGED <<run, arr, made, qid>>
  BY <1>3 DEF RemoveMessage
<1>5. (\E k \in Keys : HitsOurs(p, k)) \/ HitsOther(p) \/ HitsNone(p)
  <2> DEFINE i == arr[p][Index(p)]
  <2>1. Named(i) = {k \in live : id[k] = i} /\ live \subseteq Keys
    BY StateFacts DEF Named
  <2>2. ASSUME NEW k \in Named(i),
               live' = live \ {k} /\ id' = [id EXCEPT ![k] = 0],
               msgs' = [msgs EXCEPT ![k] = <<>>],
               orphans' = IF made[p] = 0 /\ k \in OfThisRun THEN Keys ELSE orphans,
               GoOn(p, 2), UNCHANGED other
        PROVE  \E j \in Keys : HitsOurs(p, j)
    BY <2>1, <2>2 DEF HitsOurs
  <2>3. CASE /\ other /\ i = 0 /\ other' = FALSE
             /\ GoOn(p, 2) /\ UNCHANGED <<live, id, msgs, orphans>>
    BY <2>3 DEF HitsOther
  <2>4. CASE /\ Named(i) = {} /\ Exit(p)
             /\ UNCHANGED <<live, id, msgs, other, orphans>>
    BY <2>1, <2>4 DEF HitsNone
  <2>5. RemoveMessage(p, i, 2)
    BY <1>3
  <2> HIDE DEF i
  <2>6. QED
    BY <2>2, <2>3, <2>4, <2>5 DEF RemoveMessage
<1>6. QED
  BY <1>1, <1>2, <1>4, <1>5

\* In every case the process ends, or only its innermost handler moves.
LEMMA RemoveMoves ==
  ASSUME StateInv, NEW p \in Procs, Remove(p)
  PROVE  /\ pc' \in PcType /\ arg' \in [Procs -> 0..2] /\ frames' \in [Procs -> Seq(0..2)]
         /\ \A q \in Procs \ {p} : pc'[q] = pc[q] /\ frames'[q] = frames[q]
         /\ \/ Exit(p) /\ pc'[p] = "exited" /\ frames'[p] = <<>>
            \/ /\ Index(p) # 2 /\ pc' = pc
               /\ frames'[p] # <<>> /\ Index(p)' = Index(p) + 1
<1>1. frames[p] # <<>>
  BY RemoveFacts
<1>2. GoOn(p, 2) \/ Exit(p)
  BY RemoveFacts DEF HitsOurs, HitsOther, HitsNone
<1>3. QED
  BY <1>1, <1>2, GoOnFacts, ExitFacts

\* A message sent or received.
LEMMA TransferFacts ==
  ASSUME StateInv, NEW p \in Procs, Transfer(p)
  PROVE  /\ Runs(p) /\ pc[p] \in {"send", "rcv"}
         /\ pc' = [pc EXCEPT ![p] = "run"] /\ arg' = [arg EXCEPT ![p] = 0]
         /\ UNCHANGED <<run, arr, made, qid, frames, live, id, other, orphans>>
         /\ \E k \in Keys : \/ msgs' = [msgs EXCEPT ![k] = Append(@, run)]
                            \/ msgs[k] # <<>> /\ msgs' = [msgs EXCEPT ![k] = Tail(@)]
<1>1. Named(Queue(p)) \subseteq Keys
  BY StateFacts DEF Named
<1>2. QED
  BY <1>1 DEF Transfer

\* A queue made or found by msgget.
LEMMA MsggetFacts ==
  ASSUME StateInv, Msgget
  PROVE  /\ pc[Main] = "msgget" /\ Runs(Main) /\ Current = made[Main] + 1
         /\ Current \in Keys /\ live' = live \cup {Current}
         /\ id' \in [Keys -> Nat] /\ qid' = id'[Current]
         /\ \A k \in live : id'[k] = id[k]
         /\ Current \in live \/ \A k \in live : id[k] # id'[Current]
         /\ Current \in live \/ ~(other /\ id'[Current] = 0)
         /\ pc' = [pc EXCEPT ![Main] = "assign"]
         /\ UNCHANGED <<run, arg, arr, made, frames, other, msgs, orphans>>
<1>1. pc[Main] = "msgget" /\ made[Main] \in 0..2
  BY StateFacts DEF Msgget, StateInv, ArrInv
<1>2. Current \in Keys
  BY <1>1 DEF Current, Keys
<1>3. CASE Current \in live /\ UNCHANGED <<live, id>>
  BY <1>1, <1>2, <1>3, StateFacts DEF Msgget, Current
<1>4. ASSUME Current \notin live, live' = live \cup {Current},
             NEW i \in Ids[Current], Named(i) = {}, ~(other /\ i = 0),
             id' = [id EXCEPT ![Current] = i]
      PROVE  /\ id' \in [Keys -> Nat] /\ id'[Current] = i
             /\ \A k \in live : id'[k] = id[k] /\ id[k] # i
  <2>1. i \in Nat
    BY <1>2, MsgQueuesAssumption DEF Keys
  <2>2. \A k \in live : id[k] # i
    BY <1>4 DEF Named
  <2>3. QED
    BY <1>2, <1>4, <2>1, <2>2, StateFacts
<1>5. QED
  <2>1. \/ Current \in live /\ UNCHANGED <<live, id>>
        \/ /\ Current \notin live /\ live' = live \cup {Current}
           /\ \E i \in Ids[Current] :
                /\ Named(i) = {} /\ ~(other /\ i = 0)
                /\ id' = [id EXCEPT ![Current] = i]
    BY DEF Msgget
  <2>2. CASE /\ Current \notin live /\ live' = live \cup {Current}
             /\ \E i \in Ids[Current] :
                  /\ Named(i) = {} /\ ~(other /\ i = 0)
                  /\ id' = [id EXCEPT ![Current] = i]
    BY <1>1, <1>2, <1>4, <2>2 DEF Msgget, Current
  <2>3. QED
    BY <1>3, <2>1, <2>2

LEMMA AssignFacts ==
  ASSUME StateInv, Assign
  PROVE  /\ pc[Main] = "assign" /\ Runs(Main) /\ Current = made[Main] + 1
         /\ made[Main] \in 0..2 /\ Current \in Keys
         /\ made' = [made EXCEPT ![Main] = Current]
         /\ arr' = [arr EXCEPT ![Main][made[Main]] = qid]
         /\ \A i \in 0..2 : arr'[Main][i] = IF i = made[Main] THEN qid ELSE arr[Main][i]
         /\ arr' \in [Procs -> [0..2 -> Nat]] /\ made' \in [Procs -> 0..3]
         /\ \A p \in Procs \ {Main} : arr'[p] = arr[p] /\ made'[p] = made[p] /\ pc'[p] = pc[p]
         /\ pc' \in PcType
         /\ pc'[Main] = IF Current = 3 THEN "run" ELSE "msgget"
         /\ UNCHANGED <<run, arg, qid, frames, live, id, other, msgs, orphans>>
<1>1. pc[Main] = "assign" /\ made[Main] \in 0..2
  BY StateFacts DEF Assign, StateInv, ArrInv
<1>2. Current = made[Main] + 1 /\ Current \in Keys
  BY <1>1 DEF Current, Keys
<1>3. Current \in 0..3
  BY <1>2 DEF Keys
<1>4. /\ arr' = [arr EXCEPT ![Main][made[Main]] = qid]
      /\ made' = [made EXCEPT ![Main] = Current]
      /\ pc' = [pc EXCEPT ![Main] = IF Current = 3 THEN "run" ELSE "msgget"]
      /\ UNCHANGED <<run, arg, qid, frames, live, id, other, msgs, orphans>>
      /\ Runs(Main)
  BY DEF Assign, kernel
<1>5. /\ arr' \in [Procs -> [0..2 -> Nat]]
      /\ \A i \in 0..2 : arr'[Main][i] = IF i = made[Main] THEN qid ELSE arr[Main][i]
      /\ \A p \in Procs \ {Main} : arr'[p] = arr[p]
  <2>1. arr[Main] \in [0..2 -> Nat] /\ qid \in Nat /\ Main \in Procs
        /\ arr \in [Procs -> [0..2 -> Nat]]
    BY StateFacts
  <2> DEFINE a == [arr[Main] EXCEPT ![made[Main]] = qid]
  <2>2. a \in [0..2 -> Nat] /\ \A i \in 0..2 : a[i] = IF i = made[Main] THEN qid ELSE arr[Main][i]
    BY <1>1, <2>1
  <2>3. arr' = [arr EXCEPT ![Main] = a]
    BY <1>4
  <2> HIDE DEF a
  <2>4. arr' \in [Procs -> [0..2 -> Nat]]
    BY <2>1, <2>2, <2>3
  <2>5. arr'[Main] = a /\ \A p \in Procs \ {Main} : arr'[p] = arr[p]
    BY <2>1, <2>3
  <2>6. QED
    BY <2>2, <2>4, <2>5
<1>6. pc' \in PcType /\ pc'[Main] = (IF Current = 3 THEN "run" ELSE "msgget")
      /\ \A p \in Procs \ {Main} : pc'[p] = pc[p]
  BY <1>4, StateFacts DEF PcType
<1>7. made' \in [Procs -> 0..3] /\ \A p \in Procs \ {Main} : made'[p] = made[p]
  BY <1>3, <1>4, StateFacts
<1>8. QED
  BY <1>1, <1>2, <1>4, <1>5, <1>6, <1>7

LEMMA NextType ==
  ASSUME StateInv, Next
  PROVE  TypeOK'
<1> USE StateFacts
<1>0. run \in 1..MaxRun /\ msgs \in [Keys -> Seq(1..MaxRun)]
  BY DEF StateInv, TypeOK
<1>1. CASE CreateQueue
  <2>1. pc' \in PcType
    BY <1>1 DEF CreateQueue, PcType
  <2>2. QED
    BY <1>0, <1>1, <2>1 DEF CreateQueue, TypeOK, PcType, kernel
<1>2. CASE Msgget
  <2>1. pc' \in PcType
    BY <1>2, MsggetFacts DEF PcType
  <2>2. qid' \in Nat /\ live' \subseteq Keys
    BY <1>2, MsggetFacts
  <2>3. QED
    BY <1>0, <1>2, <2>1, <2>2, MsggetFacts DEF TypeOK, PcType
<1>3. CASE MsggetFails
  <2>0. made[Main] \in 0..3
    OBVIOUS
  <2>1. orphans' \subseteq Keys
    BY <1>3, <2>0 DEF MsggetFails, Keys
  <2>2. pc' \in PcType /\ arg' \in [Procs -> 0..2] /\ frames' \in [Procs -> Seq(0..2)]
    BY <1>3, ExitFacts DEF MsggetFails
  <2>3. QED
    BY <1>0, <1>3, <2>1, <2>2 DEF MsggetFails, TypeOK, PcType, kernel
<1>4. CASE Assign
  BY <1>0, <1>4, AssignFacts DEF TypeOK, PcType
<1>5. ASSUME NEW c \in Children, Fork(c) PROVE TypeOK'
  <2>1. arr' \in [Procs -> [0..2 -> Nat]] /\ made' \in [Procs -> 0..3]
    BY <1>5 DEF Fork
  <2>2. pc' \in PcType
    BY <1>5 DEF Fork, PcType
  <2>3. QED
    BY <1>0, <1>5, <2>1, <2>2 DEF Fork, TypeOK, PcType, kernel
<1>6. ASSUME NEW p \in Procs, Call(p) PROVE TypeOK'
  <2>1. PICK i \in 0..2, what \in {"send", "rcv"} :
          arg' = [arg EXCEPT ![p] = i] /\ pc' = [pc EXCEPT ![p] = what]
    BY <1>6 DEF Call
  <2>2. pc' \in PcType /\ arg' \in [Procs -> 0..2]
    BY <2>1 DEF PcType
  <2>3. QED
    BY <1>0, <1>6, <2>2 DEF Call, TypeOK, PcType, kernel
<1>7. ASSUME NEW p \in Procs, Transfer(p) PROVE TypeOK'
  <2>1. PICK k \in Keys : \/ msgs' = [msgs EXCEPT ![k] = Append(@, run)]
                          \/ msgs[k] # <<>> /\ msgs' = [msgs EXCEPT ![k] = Tail(@)]
    BY <1>7, TransferFacts
  <2>2. msgs[k] \in Seq(1..MaxRun)
    BY <1>0
  <2>3. Append(msgs[k], run) \in Seq(1..MaxRun)
    BY <1>0, <2>2, AppendProperties
  <2>4. msgs[k] # <<>> => Tail(msgs[k]) \in Seq(1..MaxRun)
    BY <2>2, HeadTailProperties
  <2>5. msgs' \in [Keys -> Seq(1..MaxRun)]
    <3>1. CASE msgs' = [msgs EXCEPT ![k] = Append(@, run)]
      BY <1>0, <2>3, <3>1
    <3>2. CASE msgs[k] # <<>> /\ msgs' = [msgs EXCEPT ![k] = Tail(@)]
      BY <1>0, <2>4, <3>2
    <3>3. QED
      BY <2>1, <3>1, <3>2
  <2>6. pc' \in PcType /\ arg' \in [Procs -> 0..2]
    <3>1. pc' = [pc EXCEPT ![p] = "run"] /\ arg' = [arg EXCEPT ![p] = 0]
      BY <1>7, TransferFacts
    <3>2. pc' \in PcType
      BY <3>1 DEF PcType
    <3>3. QED
      BY <3>1, <3>2
  <2>7. QED
    BY <1>0, <1>7, <2>5, <2>6, TransferFacts DEF TypeOK, PcType
<1>8. ASSUME NEW p \in Procs, TransferFails(p) PROVE TypeOK'
  BY <1>0, <1>8, ExitFacts DEF TransferFails, TypeOK, PcType, kernel
<1>9. ASSUME NEW p \in Procs, Remove(p) PROVE TypeOK'
  <2>1. live' \subseteq Keys /\ id' \in [Keys -> Nat] /\ other' \in BOOLEAN
        /\ orphans' \subseteq Keys
    <3>1. ASSUME NEW k \in Keys, HitsOurs(p, k)
          PROVE  /\ live' \subseteq Keys /\ id' \in [Keys -> Nat] /\ other' \in BOOLEAN
                 /\ orphans' \subseteq Keys
      BY <3>1 DEF HitsOurs
    <3>2. CASE HitsOther(p)
      BY <3>2 DEF HitsOther
    <3>3. CASE HitsNone(p)
      BY <3>3 DEF HitsNone
    <3>4. QED
      BY <1>9, <3>1, <3>2, <3>3, RemoveFacts
  <2>2. msgs' \in [Keys -> Seq(1..MaxRun)]
    <3>1. <<>> \in Seq(1..MaxRun)
      BY EmptySeq
    <3>2. UNCHANGED msgs \/ \E k \in Keys : msgs' = [msgs EXCEPT ![k] = <<>>]
      BY <1>9, RemoveFacts DEF HitsOurs, HitsOther, HitsNone
    <3>3. QED
      BY <1>0, <3>1, <3>2
  <2>3. UNCHANGED <<run, arr, made, qid>>
    BY <1>9, RemoveFacts
  <2>4. pc' \in PcType /\ arg' \in [Procs -> 0..2] /\ frames' \in [Procs -> Seq(0..2)]
    BY <1>9, RemoveMoves
  <2>5. QED
    BY <1>0, <2>1, <2>2, <2>3, <2>4 DEF TypeOK, PcType
<1>10. ASSUME NEW p \in Procs PROVE Rest(p) \subseteq Keys
  <2>1. frames[p] # <<>> => Index(p) \in 0..2
    BY TopOfFrames
  <2>2. CASE made[p] > 0 /\ frames[p] # <<>> /\ Index(p) > 0
    BY <2>1, <2>2 DEF Rest, Keys
  <2>3. CASE ~(made[p] > 0 /\ frames[p] # <<>> /\ Index(p) > 0)
    BY <2>3 DEF Rest
  <2>4. QED
    BY <2>2, <2>3
<1>11. ASSUME NEW p \in Procs, Signal(p) PROVE TypeOK'
  <2>1. frames' \in [Procs -> Seq(0..2)]
    BY <1>11, PushFrame DEF Signal, Frames
  <2>2. orphans' \subseteq Keys
    BY <1>10, <1>11 DEF Signal
  <2>3. QED
    BY <1>0, <1>11, <2>1, <2>2 DEF Signal, TypeOK, PcType, kernel
<1>12. ASSUME NEW p \in Procs, Killed(p) PROVE TypeOK'
  <2>0. made[p] \in 0..3
    OBVIOUS
  <2>1. 1..made[p] \subseteq Keys
    BY <2>0 DEF Keys
  <2>2. orphans' \subseteq Keys
    BY <1>10, <1>12, <2>1 DEF Killed
  <2>3. pc' \in PcType /\ arg' \in [Procs -> 0..2] /\ frames' \in [Procs -> Seq(0..2)]
    BY <1>12, ExitFacts DEF Killed
  <2>4. QED
    BY <1>0, <1>12, <2>2, <2>3 DEF Killed, TypeOK, PcType, kernel
<1>13. CASE Restart
  <2>1. run' \in 1..MaxRun
    BY <1>0, <1>13, MsgQueuesAssumption DEF Restart
  <2>2. arr' \in [Procs -> [0..2 -> Nat]] /\ made' \in [Procs -> 0..3] /\ pc' \in PcType
    BY <1>13 DEF Restart, ZeroArr, PcType
  <2>3. QED
    BY <1>0, <1>13, <2>1, <2>2 DEF Restart, TypeOK, PcType, kernel
<1>14. QED
  BY <1>1, <1>2, <1>3, <1>4, <1>5, <1>6, <1>7, <1>8, <1>9, <1>11, <1>12, <1>13
     DEF Next, Step

\* A process ends and nothing else changes that ArrInv speaks of.
LEMMA ExitState ==
  ASSUME StateInv, NEW p \in Procs, Exit(p), pc[p] # "new", UNCHANGED <<arr, made>>
  PROVE  ArrInv'
<1>1. /\ pc'[p] = "exited" /\ frames'[p] = <<>>
      /\ \A q \in Procs \ {p} : pc'[q] = pc[q] /\ frames'[q] = frames[q]
  BY ExitFacts
<1>2. ArrInv
  BY DEF StateInv
<1>3. /\ pc'[Main] # "new"
      /\ pc'[Main] \in {"msgget", "assign"} => made[Main] < 3
      /\ pc'[Main] = "run" => made[Main] \in {0, 3}
  BY <1>1, <1>2, StateFacts DEF ArrInv
<1>4. \A q \in Procs : /\ pc'[q] \in {"send", "rcv"} => made[q] = 3
                       /\ pc'[q] \in {"new", "exited"} => frames'[q] = <<>>
  BY <1>1, <1>2 DEF ArrInv
<1>5. QED
  BY <1>2, <1>3, <1>4 DEF ArrInv

\* Every step keeps StateInv.
LEMMA NextStateInv ==
  ASSUME StateInv, [Next]_vars
  PROVE  StateInv'
<1>1. CASE UNCHANGED vars
  BY <1>1 DEF vars, procs, kernel, StateInv, TypeOK, ArrInv
<1> SUFFICES ASSUME Next PROVE ArrInv'
  BY <1>1, NextType DEF StateInv
<1> USE StateFacts
<1>0. ArrInv
  BY DEF StateInv
<1>2. CASE CreateQueue
  <2>1. pc'[Main] = "msgget" /\ made[Main] = 0 /\ \A p \in Procs \ {Main} : pc'[p] = pc[p]
    BY <1>2 DEF CreateQueue, PcType
  <2>2. UNCHANGED <<arr, made, frames>>
    BY <1>2 DEF CreateQueue
  <2>3. /\ pc'[Main] # "new"
        /\ pc'[Main] \in {"msgget", "assign"} => made[Main] < 3
        /\ pc'[Main] = "run" => made[Main] \in {0, 3}
    BY <2>1
  <2>4. \A p \in Procs : /\ pc'[p] \in {"send", "rcv"} => made[p] = 3
                         /\ pc'[p] \in {"new", "exited"} => frames[p] = <<>>
    BY <1>0, <2>1 DEF ArrInv
  <2>5. QED
    BY <1>0, <2>2, <2>3, <2>4 DEF ArrInv
<1>3. CASE Msgget
  <2>1. pc[Main] = "msgget" /\ pc'[Main] = "assign" /\ \A p \in Procs \ {Main} : pc'[p] = pc[p]
    BY <1>3, MsggetFacts DEF PcType
  <2>2. UNCHANGED <<arr, made, frames>>
    BY <1>3, MsggetFacts
  <2>3. /\ pc'[Main] # "new"
        /\ pc'[Main] \in {"msgget", "assign"} => made[Main] < 3
        /\ pc'[Main] = "run" => made[Main] \in {0, 3}
    BY <1>0, <2>1 DEF ArrInv
  <2>4. \A p \in Procs : /\ pc'[p] \in {"send", "rcv"} => made[p] = 3
                         /\ pc'[p] \in {"new", "exited"} => frames[p] = <<>>
    BY <1>0, <2>1 DEF ArrInv
  <2>5. QED
    BY <1>0, <2>2, <2>3, <2>4 DEF ArrInv
<1>4. CASE MsggetFails
  BY <1>4, ExitState DEF MsggetFails
<1>5. CASE Assign
  <2>1. /\ pc[Main] = "assign" /\ Current = made[Main] + 1
        /\ made[Main] \in 0..2 /\ made'[Main] = Current
        /\ pc'[Main] = (IF Current = 3 THEN "run" ELSE "msgget")
        /\ frames' = frames
    BY <1>5, AssignFacts
  <2>2. /\ \A i \in 0..2 : arr'[Main][i] = IF i = made[Main] THEN qid ELSE arr[Main][i]
        /\ \A p \in Procs \ {Main} : arr'[p] = arr[p] /\ made'[p] = made[p] /\ pc'[p] = pc[p]
    BY <1>5, AssignFacts
  <2>3. \A i \in 0..2 : made'[Main] <= i => arr'[Main][i] = 0
    BY <1>0, <2>1, <2>2 DEF ArrInv
  <2>4. ASSUME NEW c \in Children PROVE made'[c] = 0 /\ arr'[c] = ZeroArr
    <3>1. made[Main] # 3
      BY <2>1
    <3>2. made[c] = 0 /\ arr[c] = ZeroArr
      BY <1>0, <3>1 DEF ArrInv
    <3>3. QED
      BY <2>2, <3>2
  <2>5. /\ pc'[Main] # "new"
        /\ pc'[Main] \in {"msgget", "assign"} => made'[Main] < 3
        /\ pc'[Main] = "run" => made'[Main] \in {0, 3}
    BY <2>1
  <2>6. \A p \in Procs : /\ pc'[p] \in {"send", "rcv"} => made'[p] = 3
                         /\ pc'[p] \in {"new", "exited"} => frames'[p] = <<>>
    BY <1>0, <2>1, <2>2 DEF ArrInv
  <2>7. QED
    BY <2>3, <2>4, <2>5, <2>6 DEF ArrInv
<1>6. ASSUME NEW c \in Children, Fork(c) PROVE ArrInv'
  <2>1. /\ arr'[c] = arr[Main] /\ made'[c] = made[Main] /\ pc'[c] = "run"
        /\ \A p \in Procs \ {c} : arr'[p] = arr[p] /\ made'[p] = made[p] /\ pc'[p] = pc[p]
        /\ pc[Main] = "run" /\ frames' = frames
    BY <1>6 DEF Fork, PcType
  <2>2. made[Main] = 0 => arr[Main] = ZeroArr
    BY <1>0 DEF ArrInv, ZeroArr
  <2>3. c # Main
    OBVIOUS
  <2>4. QED
    BY <1>0, <2>1, <2>2, <2>3 DEF ArrInv
<1>7. ASSUME NEW p \in Procs, Call(p) PROVE ArrInv'
  <2>1. /\ pc'[p] \in {"send", "rcv"} /\ \A q \in Procs \ {p} : pc'[q] = pc[q]
        /\ made[p] = 3 /\ UNCHANGED <<arr, made, frames>>
    BY <1>7 DEF Call, PcType
  <2>2. QED
    BY <1>0, <2>1 DEF ArrInv
<1>8. ASSUME NEW p \in Procs, Transfer(p) PROVE ArrInv'
  <2>1. pc' = [pc EXCEPT ![p] = "run"] /\ pc[p] \in {"send", "rcv"}
        /\ UNCHANGED <<arr, made, frames>>
    BY <1>8, TransferFacts
  <2>2. pc'[p] = "run" /\ \A q \in Procs \ {p} : pc'[q] = pc[q]
    BY <2>1 DEF PcType
  <2>3. made[p] = 3
    BY <1>0, <2>1 DEF ArrInv
  <2>4. QED
    BY <1>0, <2>1, <2>2, <2>3 DEF ArrInv
<1>9. ASSUME NEW p \in Procs, TransferFails(p) PROVE ArrInv'
  BY <1>9, ExitState DEF TransferFails, Waits
<1>10. ASSUME NEW p \in Procs, Remove(p) PROVE ArrInv'
  <2>1. UNCHANGED <<arr, made>> /\ pc[p] \notin {"new", "exited"}
    BY <1>10, RemoveFacts
  <2>2. CASE Exit(p)
    BY <2>1, <2>2, ExitState
  <2>3. CASE pc' = pc /\ \A q \in Procs \ {p} : frames'[q] = frames[q]
    BY <1>0, <2>1, <2>3 DEF ArrInv
  <2>4. QED
    BY <1>10, <2>2, <2>3, RemoveMoves
<1>11. ASSUME NEW p \in Procs, Signal(p) PROVE ArrInv'
  <2>1. \A q \in Procs \ {p} : frames'[q] = frames[q]
    BY <1>11, PushFrame DEF Signal
  <2>2. UNCHANGED <<arr, made, pc>> /\ pc[p] \notin {"new", "exited"}
    BY <1>11 DEF Signal, Alive
  <2>3. QED
    BY <1>0, <2>1, <2>2 DEF ArrInv
<1>12. ASSUME NEW p \in Procs, Killed(p) PROVE ArrInv'
  BY <1>12, ExitState DEF Killed, Alive
<1>13. CASE Restart
  <2>1. \A p \in Procs : arr'[p] = ZeroArr /\ made'[p] = 0
    BY <1>13 DEF Restart
  <2>2. \A i \in 0..2 : ZeroArr[i] = 0
    BY DEF ZeroArr
  <2>3. \A p \in Procs : pc'[p] = (IF p = Main THEN "run" ELSE "new") /\ frames'[p] = frames[p]
    BY <1>13 DEF Restart
  <2>4. \A p \in Procs : frames[p] = <<>>
    BY <1>0, <1>13 DEF Restart, Over, Alive, ArrInv
  <2>5. QED
    BY <2>1, <2>2, <2>3, <2>4 DEF ArrInv
<1>14. QED
  BY <1>2, <1>3, <1>4, <1>5, <1>6, <1>7, <1>8, <1>9, <1>10, <1>11, <1>12, <1>13
     DEF Next, Step

\* The variables keep their types: among them, an index of arr that is in range
\* in every handler, and at most three assignments to it.
THEOREM TypeCorrect == Spec => []TypeOK
<1>1. StateInv => TypeOK
  BY DEF StateInv
<1>2. QED
  BY <1>1, InitStateInv, NextStateInv, PTL DEF Spec

-----------------------------------------------------------------------------
(* Identifiers.                                                            *)

\* No two queues of the kernel share an identifier, arr holds the identifiers of
\* the queues that are still there, and another program's is not among them.
IdInv ==
  /\ \A j, k \in live : id[j] = id[k] => j = k
  /\ other => \A k \in live : id[k] # 0
  /\ \A k \in live : k <= made[Main] => id[k] = arr[Main][k - 1]
  /\ other => \A i \in 0..2 : i < made[Main] => arr[Main][i] # 0
  /\ pc[Main] = "assign" => /\ Current \in live => id[Current] = qid
                            /\ other => qid # 0

\* While create_queue runs, a queue that it made can only have gone by a zeroed
\* array: nobody else knows of it, and the main process does not return from a
\* handler.  So two entries of arr are the same only if they are 0.
CreatedInv ==
  /\ pc[Main] \in {"msgget", "assign"} /\ Runs(Main) =>
       /\ \A k \in Keys : k <= made[Main] /\ k \notin live => arr[Main][k - 1] = 0
       /\ pc[Main] = "assign" /\ Current \notin live => qid = 0
  /\ \A i, j \in 0..2 :
       i # j /\ i < made[Main] /\ j < made[Main] /\ arr[Main][i] = arr[Main][j] =>
         arr[Main][i] = 0

\* What a handler with the full array has behind it is gone.
BehindInv ==
  \A p \in Procs : made[p] = 3 /\ frames[p] # <<>> =>
    \A k \in Keys : k <= Index(p) => k \notin live

OrderInv == StateInv /\ IdInv /\ CreatedInv /\ RemovedInOrder /\ BehindInv

LEMMA InitOrderInv == Init => OrderInv
<1> SUFFICES ASSUME Init PROVE OrderInv
  OBVIOUS
<1>1. StateInv
  BY InitStateInv
<1>2. /\ pc[Main] = "run" /\ live = {} /\ made[Main] = 0
      /\ \A p \in Procs : made[p] = 0
  BY <1>1, StateFacts DEF Init
<1>3. IdInv /\ CreatedInv /\ RemovedInOrder /\ BehindInv
  BY <1>2 DEF IdInv, CreatedInv, RemovedInOrder, BehindInv
<1>4. QED
  BY <1>1, <1>3 DEF OrderInv

\* Steps that leave the kernel's queues, arr and made as they are.
LEMMA QuietIds ==
  ASSUME IdInv, UNCHANGED <<live, id, other, arr, made, qid>>,
         pc'[Main] = "assign" => pc[Main] = "assign"
  PROVE  IdInv'
  BY DEF IdInv, Current

LEMMA QuietCreated ==
  ASSUME CreatedInv, UNCHANGED <<live, arr, made, qid>>,
         pc'[Main] \in {"msgget", "assign"} /\ Runs(Main)' =>
           pc'[Main] = pc[Main] /\ Runs(Main)
  PROVE  CreatedInv'
  BY DEF CreatedInv, Current

\* They start or end handlers at most.
LEMMA QuietOrder ==
  ASSUME OrderInv, UNCHANGED <<live, arr, made>>,
         \A p \in Procs : frames'[p] = frames[p] \/ frames'[p] = <<>> \/ Index(p)' = 0
  PROVE  RemovedInOrder' /\ BehindInv'
<1>1. RemovedInOrder'
  BY DEF RemovedInOrder, OrderInv
<1>2. BehindInv'
  <2> SUFFICES ASSUME NEW p \in Procs, made[p] = 3, frames'[p] # <<>>,
                      NEW k \in Keys, k <= Index(p)'
               PROVE  k \notin live
    BY DEF BehindInv
  <2>1. CASE frames'[p] = frames[p]
    BY <2>1 DEF Index, OrderInv, BehindInv
  <2>2. CASE Index(p)' = 0
    BY <2>2 DEF Keys
  <2>3. QED
    BY <2>1, <2>2
<1>3. QED
  BY <1>1, <1>2

\* What a removal takes away: a process with the full array takes the queue at its
\* index, if that entry is not 0; every other one takes a queue with identifier 0.
LEMMA RemovesWhat ==
  ASSUME OrderInv, NEW p \in Procs, Remove(p), NEW k \in Keys, HitsOurs(p, k)
  PROVE  /\ k \in live /\ live' = live \ {k}
         /\ made[p] = 0 => id[k] = 0
         /\ made[p] = 3 => k <= made[Main] /\ id[k] = arr[Main][k - 1]
         /\ made[p] = 3 /\ id[k] # 0 => k = Index(p) + 1
<1>1. StateInv /\ IdInv /\ CreatedInv
  BY DEF OrderInv
<1>2. k \in live /\ live' = live \ {k} /\ id[k] = arr[p][Index(p)] /\ Index(p) \in 0..2
  BY <1>1, RemoveFacts DEF HitsOurs
<1>3. made[p] = 0 => id[k] = 0
  BY <1>1, <1>2, ArrOf
<1>4. ASSUME made[p] = 3
      PROVE  k <= made[Main] /\ id[k] = arr[Main][k - 1]
  BY <1>1, <1>2, <1>4, ArrOf DEF IdInv, Keys
<1>5. ASSUME made[p] = 3, id[k] # 0
      PROVE  k = Index(p) + 1
  <2>1. arr[Main][k - 1] = arr[Main][Index(p)] /\ made[Main] = 3
    BY <1>1, <1>2, <1>4, <1>5, ArrOf
  <2>2. k - 1 \in 0..2
    BY DEF Keys
  <2>3. k - 1 = Index(p)
    BY <1>1, <1>2, <1>4, <1>5, <2>1, <2>2 DEF CreatedInv
  <2>4. QED
    BY <1>2, <2>3 DEF Keys
<1>6. QED
  BY <1>2, <1>3, <1>4, <1>5

LEMMA RemoveIds ==
  ASSUME OrderInv, NEW p \in Procs, Remove(p)
  PROVE  IdInv'
<1>1. StateInv /\ IdInv
  BY DEF OrderInv
<1>2. UNCHANGED <<arr, made, qid>> /\ live' \subseteq live /\ (other' => other)
      /\ \A k \in live' : id'[k] = id[k]
  <2>1. UNCHANGED <<arr, made, qid>>
    BY <1>1, RemoveFacts
  <2>2. ASSUME NEW k \in Keys, HitsOurs(p, k)
        PROVE  live' \subseteq live /\ (other' => other) /\ \A j \in live' : id'[j] = id[j]
    <3>1. live' = live \ {k} /\ id' = [id EXCEPT ![k] = 0] /\ other' = other
      BY <2>2 DEF HitsOurs
    <3>2. QED
      BY <1>1, <3>1, StateFacts
  <2>3. HitsOther(p) \/ HitsNone(p) => live' = live /\ id' = id /\ (other' => other)
    BY DEF HitsOther, HitsNone
  <2>4. QED
    BY <1>1, <2>1, <2>2, <2>3, RemoveFacts
<1>3. pc'[Main] = "assign" => pc[Main] = "assign"
  BY <1>1, RemoveMoves, StateFacts
<1>4. QED
  BY <1>1, <1>2, <1>3 DEF IdInv, Current

LEMMA RemoveOrder ==
  ASSUME OrderInv, NEW p \in Procs, Remove(p)
  PROVE  CreatedInv' /\ RemovedInOrder' /\ BehindInv'
<1>1. StateInv /\ IdInv /\ CreatedInv
  BY DEF OrderInv
<1> USE <1>1, StateFacts
<1>2. UNCHANGED <<arr, made, qid>> /\ Index(p) \in 0..2 /\ frames[p] # <<>>
      /\ pc[p] \notin {"new", "exited"}
  BY RemoveFacts
<1>3. /\ \A q \in Procs \ {p} : pc'[q] = pc[q] /\ frames'[q] = frames[q]
      /\ \/ pc'[p] = "exited" /\ frames'[p] = <<>>
         \/ pc' = pc /\ frames'[p] # <<>> /\ Index(p)' = Index(p) + 1
  BY RemoveMoves
<1>4. pc'[Main] \in {"msgget", "assign"} /\ Runs(Main)' =>
        pc'[Main] = pc[Main] /\ Runs(Main) /\ p # Main /\ made[p] = 0
  <2>1. pc'[Main] \in {"msgget", "assign"} /\ Runs(Main)' =>
          pc'[Main] = pc[Main] /\ Runs(Main) /\ p # Main
    BY <1>3 DEF Runs
  <2>2. pc[Main] \in {"msgget", "assign"} => made[Main] < 3
    BY DEF StateInv, ArrInv
  <2>3. QED
    BY <2>1, <2>2, ArrOf
<1>5. ASSUME NEW k \in Keys, HitsOurs(p, k)
      PROVE  CreatedInv' /\ RemovedInOrder' /\ BehindInv'
  <2>1. /\ k \in live /\ live' = live \ {k}
        /\ made[p] = 0 => id[k] = 0
        /\ made[p] = 3 => k <= made[Main] /\ id[k] = arr[Main][k - 1]
        /\ made[p] = 3 /\ id[k] # 0 => k = Index(p) + 1
    BY <1>5, RemovesWhat
  <2>2. k <= made[Main] => id[k] = arr[Main][k - 1]
    BY <2>1 DEF IdInv
  <2>3. CreatedInv'
    <3>1. pc'[Main] \in {"msgget", "assign"} /\ Runs(Main)' =>
            /\ \A j \in Keys : j <= made[Main] /\ j \notin live' => arr[Main][j - 1] = 0
            /\ pc'[Main] = "assign" /\ Current \notin live' => qid = 0
      <4> SUFFICES ASSUME pc'[Main] \in {"msgget", "assign"}, Runs(Main)'
                   PROVE  /\ \A j \in Keys : j <= made[Main] /\ j \notin live' =>
                                               arr[Main][j - 1] = 0
                          /\ pc'[Main] = "assign" /\ Current \notin live' => qid = 0
        OBVIOUS
      <4>1. pc'[Main] = pc[Main] /\ Runs(Main) /\ id[k] = 0
        BY <1>4, <2>1
      <4>2. \A j \in Keys : j <= made[Main] /\ j \notin live' => arr[Main][j - 1] = 0
        BY <2>1, <2>2, <4>1 DEF CreatedInv
      <4>3. pc'[Main] = "assign" /\ Current \notin live' => qid = 0
        BY <2>1, <4>1 DEF CreatedInv, IdInv
      <4>4. QED
        BY <4>2, <4>3
    <3>2. QED
      BY <1>2, <3>1 DEF CreatedInv, Current
  <2>4. CASE made[p] # 3
    <3>1. made[Main] = 3 => made[p] = 0
      <4>1. made[p] \in 0..3 /\ (made[p] > 0 => made[p] = made[Main])
        BY ArrOf
      <4>2. QED
        BY <2>4, <4>1
    <3>2. RemovedInOrder'
      <4> SUFFICES ASSUME made[Main] = 3, NEW i \in Keys, NEW j \in Keys,
                          i < j, j \notin live', arr[Main][j - 1] # 0
                   PROVE  i \notin live'
        BY <1>2 DEF RemovedInOrder
      <4>1. k <= made[Main]
        BY DEF Keys
      <4>2. arr[Main][k - 1] = 0
        BY <2>1, <2>2, <3>1, <4>1
      <4>3. j \notin live
        BY <2>1, <4>2
      <4>4. QED
        BY <2>1, <4>3 DEF RemovedInOrder, OrderInv
    <3>3. BehindInv'
      BY <1>2, <1>3, <2>1, <2>4 DEF BehindInv, OrderInv, Index
    <3>4. QED
      BY <2>3, <3>2, <3>3
  <2>5. CASE made[p] = 3
    <3>1. made[Main] = 3 /\ arr[p] = arr[Main]
      BY <2>5, ArrOf
    <3>2. \A j \in Keys : j <= Index(p) => j \notin live
      BY <1>2, <2>5 DEF OrderInv, BehindInv
    <3>3. RemovedInOrder'
      <4> SUFFICES ASSUME NEW i \in Keys, NEW j \in Keys,
                          i < j, j \notin live', arr[Main][j - 1] # 0
                   PROVE  i \notin live'
        BY <1>2 DEF RemovedInOrder
      <4>1. CASE j # k
        BY <2>1, <3>1, <4>1 DEF OrderInv, RemovedInOrder
      <4>2. CASE j = k
        <5>1. i <= Index(p)
          BY <1>2, <2>1, <2>5, <4>2 DEF Keys
        <5>2. QED
          BY <2>1, <3>2, <5>1
      <4>3. QED
        BY <4>1, <4>2
    <3>4. Index(p) + 1 \in Keys /\ Index(p) + 1 \notin live'
      <4>1. Index(p) + 1 \in Keys /\ Index(p) + 1 - 1 = Index(p) /\ Index(p) + 1 <= 3
        BY <1>2 DEF Keys
      <4>2. ASSUME Index(p) + 1 \in live PROVE Index(p) + 1 = k
        <5>1. id[Index(p) + 1] = arr[Main][Index(p)]
          <6>1. \A j \in live : j <= made[Main] => id[j] = arr[Main][j - 1]
            BY DEF IdInv
          <6>2. Index(p) + 1 <= made[Main]
            BY <3>1, <4>1
          <6>3. id[Index(p) + 1] = arr[Main][(Index(p) + 1) - 1]
            BY <4>2, <6>1, <6>2
          <6>4. ((Index(p) + 1) - 1) = Index(p)
            BY <1>2
          <6>5. QED
            BY <6>3, <6>4, Zenon
        <5>2. id[k] = arr[Main][Index(p)]
          BY <1>5, <3>1 DEF HitsOurs
        <5>3. QED
          BY <2>1, <4>2, <5>1, <5>2 DEF IdInv
      <4>3. QED
        BY <2>1, <4>1, <4>2
    <3>5. BehindInv'
      <4> SUFFICES ASSUME NEW q \in Procs, made[q] = 3, frames'[q] # <<>>,
                          NEW j \in Keys, j <= Index(q)'
                   PROVE  j \notin live'
        BY <1>2 DEF BehindInv
      <4>1. CASE q = p
        <5>1. j <= Index(p) \/ j = Index(p) + 1
          BY <1>2, <1>3, <4>1 DEF Keys
        <5>2. QED
          BY <2>1, <3>2, <3>4, <5>1
      <4>2. CASE q # p
        BY <1>3, <2>1, <4>2 DEF Index, OrderInv, BehindInv
      <4>3. QED
        BY <4>1, <4>2
    <3>6. QED
      BY <2>3, <3>3, <3>5
  <2>6. QED
    BY <2>4, <2>5
<1>6. CASE HitsOther(p)
  <2>1. live' = live
    BY <1>6 DEF HitsOther
  <2>2. CreatedInv'
    BY <1>2, <1>4, <2>1, QuietCreated
  <2>3. RemovedInOrder'
    BY <1>2, <2>1 DEF RemovedInOrder, OrderInv
  <2>4. made[p] # 3
    <3>1. other /\ arr[p][Index(p)] = 0
      BY <1>6 DEF HitsOther
    <3>2. QED
      BY <1>2, <3>1, ArrOf DEF IdInv
  <2>5. BehindInv'
    BY <1>2, <1>3, <2>1, <2>4 DEF BehindInv, OrderInv, Index
  <2>6. QED
    BY <2>2, <2>3, <2>5
<1>7. CASE HitsNone(p)
  <2>1. live' = live /\ frames'[p] = <<>>
    BY <1>7, ExitFacts DEF HitsNone
  <2>2. CreatedInv'
    BY <1>2, <1>4, <2>1, QuietCreated
  <2>3. QED
    BY <1>2, <1>3, <2>1, <2>2, QuietOrder
<1>8. QED
  BY <1>5, <1>6, <1>7, RemoveFacts

LEMMA NextOrderInv ==
  ASSUME OrderInv, [Next]_vars
  PROVE  OrderInv'
<1>0. StateInv /\ StateInv' /\ IdInv /\ CreatedInv
  BY NextStateInv DEF OrderInv
<1> USE <1>0, StateFacts
<1>1. CASE UNCHANGED vars
  <2>1. UNCHANGED <<live, id, other, arr, made, qid, pc, frames>>
    BY <1>1 DEF vars, procs, kernel
  <2>2. IdInv' /\ CreatedInv'
    BY <2>1, QuietIds, QuietCreated DEF Runs
  <2>3. RemovedInOrder' /\ BehindInv'
    BY <2>1, QuietOrder
  <2>4. QED
    BY <2>2, <2>3 DEF OrderInv
\* A process ends, and the queues stay.
<1>2. ASSUME NEW p \in Procs, Exit(p), UNCHANGED <<live, id, other, arr, made, qid>>
      PROVE  OrderInv'
  <2>1. /\ pc'[p] = "exited" /\ frames'[p] = <<>>
        /\ \A q \in Procs \ {p} : pc'[q] = pc[q] /\ frames'[q] = frames[q]
    BY <1>2, ExitFacts
  <2>2. IdInv'
    BY <1>2, <2>1, QuietIds
  <2>3. pc'[Main] \in {"msgget", "assign"} /\ Runs(Main)' => pc'[Main] = pc[Main] /\ Runs(Main)
    BY <2>1 DEF Runs
  <2>4. CreatedInv'
    BY <1>2, <2>3, QuietCreated
  <2>5. RemovedInOrder' /\ BehindInv'
    BY <1>2, <2>1, QuietOrder
  <2>6. QED
    BY <2>2, <2>4, <2>5 DEF OrderInv
\* No handler moves, and the main process stays out of create_queue or goes on.
<1>3. ASSUME UNCHANGED <<live, id, other, arr, made, qid, frames>>,
             pc'[Main] \in {"msgget", "assign"} => pc'[Main] = pc[Main]
      PROVE  OrderInv'
  <2>1. IdInv'
    BY <1>3, QuietIds
  <2>2. CreatedInv'
    BY <1>3, QuietCreated DEF Runs
  <2>3. RemovedInOrder' /\ BehindInv'
    BY <1>3, QuietOrder
  <2>4. QED
    BY <2>1, <2>2, <2>3 DEF OrderInv
<1>4. CASE CreateQueue
  <2>1. UNCHANGED <<live, id, other, arr, made, qid, frames>> /\ made[Main] = 0
        /\ pc'[Main] = "msgget"
    BY <1>4 DEF CreateQueue, kernel, PcType
  <2>2. IdInv'
    BY <2>1, QuietIds
  <2>3. CreatedInv'
    BY <2>1 DEF CreatedInv, Keys
  <2>4. RemovedInOrder' /\ BehindInv'
    BY <2>1, QuietOrder
  <2>5. QED
    BY <2>2, <2>3, <2>4 DEF OrderInv
<1>5. CASE Msgget
  <2>1. /\ pc[Main] = "msgget" /\ pc'[Main] = "assign" /\ Runs(Main)
        /\ Current = made[Main] + 1 /\ made[Main] < 3 /\ made[Main] \in 0..3
        /\ Current \in Keys /\ live' = live \cup {Current} /\ qid' = id'[Current]
        /\ UNCHANGED <<arr, made, frames, other>>
    BY <1>5, MsggetFacts DEF PcType, StateInv, ArrInv
  <2>2. /\ \A k \in live : id'[k] = id[k]
        /\ Current \in live \/ \A k \in live : id[k] # id'[Current]
        /\ Current \in live \/ ~(other /\ id'[Current] = 0)
    BY <1>5, MsggetFacts
  <2>3. Current' = Current
    BY <2>1 DEF Current
  <2>4. IdInv'
    <3>1. \A j, k \in live' : id'[j] = id'[k] => j = k
      BY <2>1, <2>2 DEF IdInv
    <3>2. other' => \A k \in live' : id'[k] # 0
      BY <2>1, <2>2 DEF IdInv
    <3>3. \A k \in live' : k <= made'[Main] => id'[k] = arr'[Main][k - 1]
      BY <2>1, <2>2 DEF IdInv
    <3>4. other' => qid' # 0
      BY <2>1, <3>2
    <3>5. other' => \A i \in 0..2 : i < made'[Main] => arr'[Main][i] # 0
      BY <2>1 DEF IdInv
    <3>6. QED
      BY <2>1, <2>3, <3>1, <3>2, <3>3, <3>4, <3>5 DEF IdInv
  <2>5. CreatedInv'
    BY <2>1, <2>3 DEF CreatedInv
  <2>6. RemovedInOrder' /\ BehindInv'
    <3>1. \A p \in Procs : made[p] # 3
      <4>1. \A p \in Procs : made[p] = 0 \/ p = Main
        BY <2>1, ArrOf
      <4>2. QED
        BY <2>1, <4>1
    <3>2. QED
      BY <2>1, <3>1 DEF RemovedInOrder, BehindInv
  <2>7. QED
    BY <2>4, <2>5, <2>6 DEF OrderInv
<1>6. CASE MsggetFails
  BY <1>2, <1>6 DEF MsggetFails, kernel
<1>7. CASE Assign
  <2>1. /\ pc[Main] = "assign" /\ Runs(Main) /\ Current = made[Main] + 1
        /\ made[Main] \in 0..2 /\ Current \in Keys /\ made'[Main] = Current
        /\ pc'[Main] # "assign"
        /\ UNCHANGED <<live, id, other, qid, frames>>
    BY <1>7, AssignFacts
  <2>2. /\ \A i \in 0..2 : arr'[Main][i] = IF i = made[Main] THEN qid ELSE arr[Main][i]
        /\ \A p \in Procs \ {Main} : made'[p] = made[p]
    BY <1>7, AssignFacts
  <2>3. \A k \in Keys : /\ k - 1 \in 0..2
                        /\ k <= Current => k = Current \/ k <= made[Main]
                        /\ k - 1 = made[Main] => k = Current
                        /\ k = Current => k - 1 = made[Main]
    BY <2>1 DEF Keys
  <2>4. \A k \in Keys : arr'[Main][k - 1] = IF k = Current THEN qid ELSE arr[Main][k - 1]
    BY <2>2, <2>3
  <2>5. \A i \in 0..2 : i < Current => i = made[Main] \/ i < made[Main]
    BY <2>1
  <2>6. IdInv'
    <3>1. \A k \in live : k <= Current => id[k] = arr'[Main][k - 1]
      BY <2>1, <2>3, <2>4 DEF IdInv
    <3>2. other => \A i \in 0..2 : i < Current => arr'[Main][i] # 0
      BY <2>1, <2>2, <2>5 DEF IdInv
    <3>3. QED
      BY <2>1, <3>1, <3>2 DEF IdInv
  <2>7. \A k \in Keys : k <= Current /\ k \notin live => arr'[Main][k - 1] = 0
    BY <2>1, <2>3, <2>4 DEF CreatedInv
  \* An entry that is assigned already: its queue has another identifier.
  <2>8. ASSUME NEW i \in 0..2, i < made[Main], arr[Main][i] = qid
        PROVE  qid = 0
    <3>1. i + 1 \in Keys /\ i + 1 <= made[Main] /\ (i + 1) - 1 = i /\ i + 1 # Current
      BY <2>1, <2>8 DEF Keys
    <3>2. CASE i + 1 \notin live
      <4>1. arr[Main][(i + 1) - 1] = 0
        BY <2>1, <3>1, <3>2 DEF CreatedInv
      <4>2. QED
        BY <2>8, <3>1, <4>1
    <3>3. CASE i + 1 \in live /\ Current \in live
      <4>1. id[i + 1] = arr[Main][(i + 1) - 1]
        BY <3>1, <3>3 DEF IdInv
      <4>2. id[i + 1] = id[Current]
        BY <2>1, <2>8, <3>1, <3>3, <4>1 DEF IdInv
      <4>3. QED
        BY <3>1, <3>3, <4>2 DEF IdInv
    <3>4. CASE Current \notin live
      BY <2>1, <3>4 DEF CreatedInv
    <3>5. QED
      BY <3>2, <3>3, <3>4
  <2>9. ASSUME NEW i \in 0..2, NEW j \in 0..2, i # j, i < Current, j < Current,
               arr'[Main][i] = arr'[Main][j]
        PROVE  arr'[Main][i] = 0
    <3>1. CASE i = made[Main]
      BY <2>2, <2>5, <2>8, <2>9, <3>1
    <3>2. CASE j = made[Main]
      BY <2>2, <2>5, <2>8, <2>9, <3>2
    <3>3. CASE i < made[Main] /\ j < made[Main]
      BY <2>1, <2>2, <2>9, <3>3 DEF CreatedInv
    <3>4. QED
      BY <2>5, <2>9, <3>1, <3>2, <3>3
  <2>10. CreatedInv'
    BY <2>1, <2>7, <2>9 DEF CreatedInv
  <2>11. RemovedInOrder'
    <3> SUFFICES ASSUME made'[Main] = 3, NEW j \in Keys, NEW k \in Keys,
                        j < k, k \notin live', arr'[Main][k - 1] # 0
                 PROVE  j \notin live'
      BY DEF RemovedInOrder
    <3>1. k <= Current
      BY <2>1 DEF Keys
    <3>2. QED
      BY <2>1, <2>7, <3>1
  <2>12. BehindInv'
    <3>1. \A p \in Procs : p # Main => made'[p] = 0
      BY <2>1, <2>2, ArrOf
    <3>2. frames'[Main] = <<>>
      BY <2>1 DEF Runs
    <3>3. \A p \in Procs : ~(made'[p] = 3 /\ frames'[p] # <<>>)
      <4>1. 0 # 3
        OBVIOUS
      <4>2. QED
        BY <3>1, <3>2, <4>1, Zenon
    <3>4. QED
      BY <3>3 DEF BehindInv
  <2>13. QED
    BY <2>6, <2>10, <2>11, <2>12 DEF OrderInv
<1>8. ASSUME NEW c \in Children, Fork(c) PROVE OrderInv'
  <2>1. /\ c # Main /\ pc[c] = "new"
        /\ pc'[Main] = pc[Main] /\ arr'[Main] = arr[Main] /\ made'[Main] = made[Main]
        /\ \A p \in Procs \ {c} : made'[p] = made[p]
        /\ UNCHANGED <<live, id, other, qid, frames>>
    BY <1>8 DEF Fork, kernel, PcType
  <2>2. frames[c] = <<>>
    BY <2>1 DEF StateInv, ArrInv
  <2>3. IdInv'
    BY <2>1 DEF IdInv, Current
  <2>4. CreatedInv'
    BY <2>1 DEF CreatedInv, Current, Runs
  <2>5. RemovedInOrder'
    BY <2>1 DEF OrderInv, RemovedInOrder
  <2>6. BehindInv'
    BY <2>1, <2>2 DEF OrderInv, BehindInv, Index
  <2>7. QED
    BY <2>3, <2>4, <2>5, <2>6 DEF OrderInv
<1>9. ASSUME NEW p \in Procs, Call(p) PROVE OrderInv'
  BY <1>3, <1>9 DEF Call, kernel, PcType
<1>10. ASSUME NEW p \in Procs, Transfer(p) PROVE OrderInv'
  <2>1. pc' = [pc EXCEPT ![p] = "run"]
        /\ UNCHANGED <<live, id, other, arr, made, qid, frames>>
    BY <1>10, TransferFacts
  <2>2. pc'[Main] \in {"msgget", "assign"} => pc'[Main] = pc[Main]
    BY <2>1 DEF PcType
  <2>3. QED
    BY <1>3, <2>1, <2>2
<1>11. ASSUME NEW p \in Procs, TransferFails(p) PROVE OrderInv'
  BY <1>2, <1>11 DEF TransferFails, kernel
<1>12. ASSUME NEW p \in Procs, Remove(p) PROVE OrderInv'
  BY <1>12, RemoveIds, RemoveOrder DEF OrderInv
<1>13. ASSUME NEW p \in Procs, Signal(p) PROVE OrderInv'
  <2>1. UNCHANGED <<live, id, other, arr, made, qid, pc>>
        /\ frames' = [frames EXCEPT ![p] = Append(@, 0)]
    BY <1>13 DEF Signal, kernel
  <2>2. /\ frames'[p] # <<>> /\ Index(p)' = 0
        /\ \A q \in Procs \ {p} : frames'[q] = frames[q]
    BY <2>1, PushFrame
  <2>3. IdInv'
    BY <2>1, QuietIds
  <2>4. Runs(Main)' => Runs(Main)
    BY <2>2 DEF Runs
  <2>5. CreatedInv'
    BY <2>1, <2>4, QuietCreated
  <2>6. RemovedInOrder' /\ BehindInv'
    BY <2>1, <2>2, QuietOrder
  <2>7. QED
    BY <2>3, <2>5, <2>6 DEF OrderInv
<1>14. ASSUME NEW p \in Procs, Killed(p) PROVE OrderInv'
  BY <1>2, <1>14 DEF Killed, kernel
<1>15. CASE Restart
  <2>1. /\ pc'[Main] = "run" /\ \A p \in Procs : made'[p] = 0
        /\ UNCHANGED <<live, id, other>>
    BY <1>15 DEF Restart, kernel
  <2>2. \A k \in Keys : ~(k <= 0)
    BY DEF Keys
  <2>3. IdInv'
    BY <2>1, <2>2 DEF IdInv
  <2>4. CreatedInv' /\ RemovedInOrder' /\ BehindInv'
    BY <2>1 DEF CreatedInv, RemovedInOrder, BehindInv
  <2>5. QED
    BY <2>3, <2>4 DEF OrderInv
<1>16. QED
  BY <1>1, <1>4, <1>5, <1>6, <1>7, <1>8, <1>9, <1>10, <1>11, <1>12, <1>13, <1>14, <1>15
     DEF Next, Step

\* Whatever interrupts whom, however many processes run destroy_queue, and whichever
\* identifiers the kernel gave, the queues of a complete array go from the first to
\* the last; only one with identifier 0 may go before its turn.
THEOREM QueuesGoInOrder == Spec => []RemovedInOrder
<1>1. OrderInv => RemovedInOrder
  BY DEF OrderInv
<1>2. QED
  BY <1>1, InitOrderInv, NextOrderInv, PTL DEF Spec

\* destroy_queue takes another program's queue only by an entry of arr that was not
\* assigned: create_queue never stored that identifier.
THEOREM OthersSpared == Spec => SparesOthers
<1>1. ASSUME OrderInv, [Next]_vars
      PROVE  [\A p \in Procs : Remove(p) /\ other' # other => Index(p) >= made[p]]_vars
  <2> SUFFICES ASSUME NEW p \in Procs, Remove(p), other' # other
               PROVE  Index(p) >= made[p]
    OBVIOUS
  <2>1. StateInv /\ IdInv
    BY <1>1 DEF OrderInv
  <2>2. Index(p) \in 0..2 /\ other /\ arr[p][Index(p)] = 0
    BY <2>1, RemoveFacts DEF HitsOurs, HitsOther, HitsNone
  <2>3. made[p] \in 0..3 /\ (made[p] > 0 => made[p] = made[Main] /\ arr[p] = arr[Main])
    BY <2>1, StateFacts, ArrOf
  <2>4. ~(Index(p) < made[p])
    BY <2>1, <2>2, <2>3 DEF IdInv
  <2>5. QED
    BY <2>2, <2>3, <2>4
<1>2. QED
  BY <1>1, InitOrderInv, NextOrderInv, PTL DEF Spec, SparesOthers

-----------------------------------------------------------------------------
(* Nothing is left behind but the orphans.                                 *)

\* No zeroed array hit a queue of this run.
Whole == \E k \in Keys : k \notin orphans

\* Then, while create_queue runs, what it made is there,
StandingInv ==
  pc[Main] \in {"msgget", "assign"} /\ Runs(Main) =>
    /\ \A k \in Keys : k <= made[Main] => k \in live
    /\ pc[Main] = "assign" => Current \in live

\* and the identifier of a queue that is gone was not given again.
UniqueInv ==
  \A k \in Keys : \A j \in live :
    k <= made[Main] /\ id[j] = arr[Main][k - 1] => j = k

\* A process whose handler has removed the first queue.
Sweeper(p) == made[p] > 0 /\ frames[p] # <<>> /\ Index(p) > 0

\* Whatever create_queue stored and is left is an orphan; or all is there, and
\* the main process; or one handler has removed what is behind its index and is to
\* remove the rest.
Done == \A k \in live : k <= made[Main] => k \in orphans

NoneYet ==
  /\ Alive(Main)
  /\ \A k \in Keys : k <= made[Main] => k \in live
  /\ \A p \in Procs : ~Sweeper(p)

OnlySweeper(p) ==
  /\ Sweeper(p)
  /\ \A q \in Procs : Sweeper(q) => q = p
  /\ \A k \in Keys : k <= made[Main] => (k \in live <=> Index(p) < k)

PhaseInv == Done \/ NoneYet \/ \E p \in Procs : OnlySweeper(p)

CleanInv == OrderInv /\ (Whole => StandingInv /\ UniqueInv /\ PhaseInv)

LEMMA InitCleanInv == Init => CleanInv
<1> SUFFICES ASSUME Init PROVE CleanInv
  OBVIOUS
<1>1. OrderInv /\ StateInv
  BY InitOrderInv, InitStateInv
<1>2. pc[Main] = "run" /\ live = {}
  BY <1>1, StateFacts DEF Init
<1>3. StandingInv /\ UniqueInv /\ Done
  BY <1>2 DEF StandingInv, UniqueInv, Done
<1>4. QED
  BY <1>1, <1>3 DEF CleanInv, PhaseInv

\* Steps that leave the queues, arr and made as they are.
LEMMA QuietStanding ==
  ASSUME StandingInv, UniqueInv, UNCHANGED <<live, id, arr, made>>,
         pc'[Main] \in {"msgget", "assign"} /\ Runs(Main)' =>
           pc'[Main] = pc[Main] /\ Runs(Main)
  PROVE  StandingInv' /\ UniqueInv'
  BY DEF StandingInv, UniqueInv, Current

LEMMA QuietDone ==
  ASSUME Done, live' \subseteq live, made'[Main] = made[Main], orphans \subseteq orphans'
  PROVE  Done'
  BY DEF Done

LEMMA QuietNoneYet ==
  ASSUME NoneYet, UNCHANGED <<live, made>>, Alive(Main)',
         \A p \in Procs : Sweeper(p)' => Sweeper(p)
  PROVE  NoneYet'
  BY DEF NoneYet

LEMMA QuietSweeper ==
  ASSUME NEW p \in Procs, OnlySweeper(p), UNCHANGED <<live, made>>,
         Sweeper(p)', Index(p)' = Index(p),
         \A q \in Procs : Sweeper(q)' => Sweeper(q)
  PROVE  OnlySweeper(p)'
  BY DEF OnlySweeper

\* Who keeps his handlers and his copy of arr is a sweeper as before.
LEMMA SameSweeper ==
  ASSUME NEW p, frames'[p] = frames[p], made'[p] = made[p]
  PROVE  Sweeper(p)' = Sweeper(p) /\ Index(p)' = Index(p)
  BY DEF Sweeper, Index

\* While create_queue runs nobody is one.
LEMMA NoSweeper ==
  ASSUME StateInv, pc[Main] \in {"msgget", "assign"}, Runs(Main)
  PROVE  /\ \A p \in Procs : ~Sweeper(p)
         /\ \A p \in Procs \ {Main} : made[p] = 0
         /\ made[Main] < 3
<1>1. made[Main] < 3
  BY DEF StateInv, ArrInv
<1>2. \A p \in Procs \ {Main} : made[p] = 0
  BY <1>1, ArrOf
<1>3. ~Sweeper(Main)
  BY DEF Sweeper, Runs
<1>4. QED
  BY <1>1, <1>2, <1>3 DEF Sweeper

\* What is behind a sweeper's index is gone.
LEMMA BehindSweeper ==
  ASSUME PhaseInv, ~Done, NEW p \in Procs, Sweeper(p)
  PROVE  OnlySweeper(p)
  BY DEF PhaseInv, NoneYet, OnlySweeper

\* A process ends that is not in a handler that removed something, and if it is
\* the main process then the rest is accounted for.
LEMMA QuietExit ==
  ASSUME StateInv, Whole => StandingInv /\ UniqueInv /\ PhaseInv, Whole' => Whole,
         NEW p \in Procs, Exit(p), ~Sweeper(p),
         UNCHANGED <<live, id, arr, made>>, orphans \subseteq orphans',
         p = Main /\ Whole => Done' \/ \E q \in Procs : OnlySweeper(q)
  PROVE  Whole' => StandingInv' /\ UniqueInv' /\ PhaseInv'
<1> SUFFICES ASSUME Whole' PROVE StandingInv' /\ UniqueInv' /\ PhaseInv'
  OBVIOUS
<1>1. /\ pc'[p] = "exited" /\ frames'[p] = <<>>
      /\ \A q \in Procs \ {p} : pc'[q] = pc[q] /\ frames'[q] = frames[q]
  BY ExitFacts
<1>2. StandingInv' /\ UniqueInv'
  <2>1. pc'[Main] \in {"msgget", "assign"} /\ Runs(Main)' =>
          pc'[Main] = pc[Main] /\ Runs(Main)
    BY <1>1, StateFacts DEF Runs
  <2>2. QED
    BY <2>1, QuietStanding
<1>3. \A q \in Procs : Sweeper(q)' => Sweeper(q)
  <2>1. ~Sweeper(p)'
    BY <1>1 DEF Sweeper
  <2>2. \A q \in Procs \ {p} : Sweeper(q)' = Sweeper(q)
    BY <1>1, SameSweeper
  <2>3. QED
    BY <2>1, <2>2
<1>4. CASE Done
  <2>1. live' \subseteq live /\ made'[Main] = made[Main]
    OBVIOUS
  <2>2. Done'
    BY <1>4, <2>1, QuietDone
  <2>3. QED
    BY <1>2, <2>2 DEF PhaseInv
<1>5. CASE NoneYet /\ ~Done
  <2>1. p = Main => Done'
    BY <1>5 DEF NoneYet, OnlySweeper
  <2>2. p # Main => Alive(Main)'
    BY <1>1, <1>5, StateFacts DEF NoneYet, Alive
  <2>3. p # Main => NoneYet'
    BY <1>3, <1>5, <2>2, QuietNoneYet
  <2>4. QED
    BY <1>2, <2>1, <2>3 DEF PhaseInv
<1>6. ASSUME NEW q \in Procs, OnlySweeper(q)
      PROVE  PhaseInv'
  <2>1. q # p
    BY <1>6 DEF OnlySweeper
  <2>2. Sweeper(q)' = Sweeper(q) /\ Index(q)' = Index(q)
    BY <1>1, <2>1, SameSweeper
  <2>3. OnlySweeper(q)'
    BY <1>3, <1>6, <2>2, QuietSweeper DEF OnlySweeper
  <2>4. QED
    BY <2>3 DEF PhaseInv
<1>7. QED
  BY <1>2, <1>4, <1>5, <1>6 DEF PhaseInv

\* One round of destroy_queue's loop.
LEMMA RemoveClean ==
  ASSUME CleanInv, NEW p \in Procs, Remove(p), Whole'
  PROVE  StandingInv' /\ UniqueInv' /\ PhaseInv'
<1>1. OrderInv /\ StateInv /\ IdInv
  BY DEF CleanInv, OrderInv
<1> USE <1>1, StateFacts
<1>2. /\ UNCHANGED <<arr, made>> /\ Index(p) \in 0..2 /\ frames[p] # <<>>
      /\ pc[p] \notin {"new", "exited"}
      /\ (\E k \in Keys : HitsOurs(p, k)) \/ HitsOther(p) \/ HitsNone(p)
  BY RemoveFacts
<1>3. /\ \A q \in Procs \ {p} : pc'[q] = pc[q] /\ frames'[q] = frames[q]
      /\ \/ Exit(p) /\ pc'[p] = "exited" /\ frames'[p] = <<>>
         \/ Index(p) # 2 /\ pc' = pc /\ frames'[p] # <<>> /\ Index(p)' = Index(p) + 1
  BY RemoveMoves
<1>4. orphans' = orphans \/ orphans' = Keys
  BY <1>2 DEF HitsOurs, HitsOther, HitsNone
<1>5. Whole /\ orphans' = orphans
  BY <1>4 DEF Whole
<1>6. StandingInv /\ UniqueInv /\ PhaseInv
  BY <1>5 DEF CleanInv
<1>7. made[p] \in 0..3 /\ made[Main] \in 0..3
      /\ (made[p] > 0 => made[p] = made[Main] /\ arr[p] = arr[Main])
  BY ArrOf
<1>8. pc'[Main] \in {"msgget", "assign"} /\ Runs(Main)' =>
        pc'[Main] = pc[Main] /\ Runs(Main) /\ p # Main /\ made[p] = 0
  <2>1. pc'[Main] \in {"msgget", "assign"} /\ Runs(Main)' =>
          pc'[Main] = pc[Main] /\ Runs(Main) /\ p # Main
    BY <1>3 DEF Runs
  <2>2. pc[Main] \in {"msgget", "assign"} => made[Main] < 3
    BY DEF StateInv, ArrInv
  <2>3. QED
    BY <2>1, <2>2, ArrOf
<1>9. made[p] = 0 => ~Sweeper(p)' /\ ~Sweeper(p)
  BY <1>2 DEF Sweeper
<1>10. \A q \in Procs \ {p} : Sweeper(q)' = Sweeper(q) /\ Index(q)' = Index(q)
  BY <1>2, <1>3, SameSweeper
<1>0. \A k \in live : k \in 1..3
  BY DEF Keys
<1>11. made[Main] = 0 => Done
  <2>1. \A k \in 1..3 : ~(k <= 0)
    OBVIOUS
  <2>2. \A k \in live : ~(k <= 0)
    BY <1>0, <2>1, Zenon
  <2>3. QED
    BY <2>2 DEF Done
<1>12. live' \subseteq live
  BY <1>2 DEF HitsOurs, HitsOther, HitsNone
<1>13. Done => Done'
  BY <1>2, <1>5, <1>12, QuietDone
\* The entry at the index of a handler that is a sweeper's or the first one.
<1>14. ASSUME made[p] > 0, ~Done
       PROVE  Index(p) < made[Main]
  <2> SUFFICES ASSUME ~(Index(p) < made[Main]) PROVE FALSE
    OBVIOUS
  <2>1. Sweeper(p)
    BY <1>2, <1>7, <1>14 DEF Sweeper
  <2>2. OnlySweeper(p)
    BY <1>6, <1>14, <2>1, BehindSweeper
  <2>3. \A k \in live : k <= made[Main] => Index(p) < k
    BY <2>2 DEF OnlySweeper
  <2>4. ASSUME NEW k \in live PROVE ~(k <= made[Main])
    <3>1. k \in 1..3 /\ (k <= made[Main] => Index(p) < k)
      BY <1>0, <2>3
    <3>2. QED
      BY <1>2, <1>7, <3>1
  <2>5. QED
    BY <1>14, <2>4 DEF Done
<1>15. ASSUME Index(p) < made[Main]
       PROVE  Index(p) + 1 \in Keys /\ Index(p) + 1 <= made[Main]
  BY <1>2, <1>7, <1>15 DEF Keys
<1>16. \A k \in live : k <= made[Main] => id[k] = arr[Main][k - 1]
  BY DEF IdInv
\* In a state that is not done, a handler with identifiers finds its queue, or
\* somebody else removed it.
<1>17. ASSUME made[p] > 0, ~Done
       PROVE  \/ Index(p) + 1 \in live /\ id[Index(p) + 1] = arr[p][Index(p)]
              \/ Index(p) = 0 /\ \E q \in Procs : OnlySweeper(q) /\ q # p
  <2>1. Index(p) + 1 \in Keys /\ Index(p) + 1 <= made[Main] /\ arr[p] = arr[Main]
    BY <1>7, <1>14, <1>15, <1>17
  <2>2. ASSUME Index(p) + 1 \in live
        PROVE  id[Index(p) + 1] = arr[p][Index(p)]
    <3>1. id[Index(p) + 1] = arr[Main][(Index(p) + 1) - 1]
      BY <1>16, <2>1, <2>2
    <3>2. (Index(p) + 1) - 1 = Index(p)
      BY <1>2
    <3>3. QED
      BY <2>1, <3>1, <3>2, Zenon
  <2>3. CASE NoneYet
    BY <2>1, <2>2, <2>3 DEF NoneYet
  <2>4. CASE OnlySweeper(p)
    <3>1. Index(p) < Index(p) + 1
      BY <1>2
    <3>2. Index(p) + 1 \in live
      BY <2>1, <2>4, <3>1 DEF OnlySweeper
    <3>3. QED
      BY <2>2, <3>2
  <2>5. ASSUME NEW q \in Procs, OnlySweeper(q), q # p
        PROVE  Index(p) = 0
    BY <1>2, <1>17, <2>5 DEF OnlySweeper, Sweeper
  <2>6. QED
    BY <1>6, <1>17, <2>2, <2>3, <2>4, <2>5 DEF PhaseInv
<1>18. CASE HitsNone(p)
  <2>1. UNCHANGED <<live, id>> /\ Exit(p) /\ \A k \in live : id[k] # arr[p][Index(p)]
    BY <1>18 DEF HitsNone
  <2>2. CASE Done
    <3>1. StandingInv' /\ UniqueInv'
      BY <1>2, <1>6, <1>8, <2>1, QuietStanding
    <3>2. QED
      BY <1>13, <2>2, <3>1 DEF PhaseInv
  <2>3. CASE ~Done
    <3>1. ~Sweeper(p)
      <4> SUFFICES ASSUME Sweeper(p) PROVE FALSE
        OBVIOUS
      <4>1. made[p] > 0 /\ Index(p) # 0
        BY <1>2 DEF Sweeper
      <4>2. QED
        BY <1>17, <2>1, <2>3, <4>1
    <3>2. p = Main => \E q \in Procs : OnlySweeper(q)
      <4>1. p = Main => made[p] > 0
        BY <1>7, <1>11, <2>3
      <4>2. QED
        BY <1>17, <2>1, <2>3, <4>1
    <3>3. Whole' => StandingInv' /\ UniqueInv' /\ PhaseInv'
      BY <1>2, <1>5, <1>6, <2>1, <3>1, <3>2, QuietExit
    <3>4. QED
      BY <3>3
  <2>4. QED
    BY <2>2, <2>3
<1>19. CASE HitsOther(p)
  <2>1. UNCHANGED <<live, id>> /\ other /\ arr[p][Index(p)] = 0
    BY <1>19 DEF HitsOther
  <2>2. StandingInv' /\ UniqueInv'
    BY <1>2, <1>6, <1>8, <2>1, QuietStanding
  <2>3. made[p] > 0 => Done
    <3>1. made[p] > 0 => ~(Index(p) < made[Main])
      BY <1>2, <1>7, <2>1 DEF IdInv
    <3>2. QED
      BY <1>14, <3>1
  <2>4. CASE Done
    BY <1>13, <2>2, <2>4 DEF PhaseInv
  <2>5. CASE ~Done
    <3>1. made[p] = 0 /\ p # Main
      BY <1>7, <1>11, <2>3, <2>5
    <3>2. \A q \in Procs : Sweeper(q)' => Sweeper(q)
      BY <1>9, <1>10, <3>1
    <3>3. NoneYet => NoneYet'
      <4>1. NoneYet => Alive(Main)'
        BY <1>3, <3>1 DEF NoneYet, Alive
      <4>2. QED
        BY <1>2, <2>1, <3>2, <4>1, QuietNoneYet
    <3>4. ASSUME NEW q \in Procs, OnlySweeper(q)
          PROVE  OnlySweeper(q)'
      <4>1. Sweeper(q) /\ q # p
        BY <1>9, <3>1, <3>4 DEF OnlySweeper
      <4>2. Sweeper(q)' /\ Index(q)' = Index(q)
        BY <1>10, <4>1
      <4>3. QED
        BY <1>2, <2>1, <3>2, <3>4, <4>2, QuietSweeper
    <3>5. QED
      BY <1>6, <2>2, <2>5, <3>3, <3>4 DEF PhaseInv
  <2>6. QED
    BY <2>4, <2>5
<1>20. ASSUME NEW k \in Keys, HitsOurs(p, k)
       PROVE  StandingInv' /\ UniqueInv' /\ PhaseInv'
  <2>1. /\ k \in live /\ id[k] = arr[p][Index(p)]
        /\ live' = live \ {k} /\ \A j \in live' : id'[j] = id[j]
        /\ orphans' = IF made[p] = 0 /\ k \in OfThisRun THEN Keys ELSE orphans
    BY <1>20 DEF HitsOurs
  <2>2. made[p] = 0 => k \notin OfThisRun
    BY <2>1 DEF Whole
  <2>3. made[p] = 0 => ~(k <= made[Main]) /\ (pc[Main] = "assign" => k # Current)
    BY <2>2 DEF OfThisRun
  <2>4. StandingInv'
    <3> SUFFICES ASSUME pc'[Main] \in {"msgget", "assign"}, Runs(Main)'
                 PROVE  /\ \A j \in Keys : j <= made[Main] => j \in live'
                        /\ pc'[Main] = "assign" => Current \in live'
      BY <1>2 DEF StandingInv, Current
    <3>1. pc'[Main] = pc[Main] /\ Runs(Main) /\ made[p] = 0
      BY <1>8
    <3>2. QED
      BY <1>6, <2>1, <2>3, <3>1 DEF StandingInv
  <2>5. UniqueInv'
    BY <1>2, <1>6, <1>12, <2>1 DEF UniqueInv
  <2>6. CASE Done
    BY <1>13, <2>4, <2>5, <2>6 DEF PhaseInv
  <2>7. CASE ~Done /\ made[p] = 0
    <3>1. p # Main
      BY <1>11, <2>7
    <3>2. \A j \in Keys : j <= made[Main] => (j \in live' <=> j \in live)
      BY <2>1, <2>3, <2>7
    <3>3. \A q \in Procs : Sweeper(q)' => Sweeper(q)
      BY <1>9, <1>10, <2>7
    <3>4. NoneYet => NoneYet'
      <4>1. NoneYet => Alive(Main)'
        BY <1>3, <3>1 DEF NoneYet, Alive
      <4>2. QED
        BY <1>2, <3>2, <3>3, <4>1 DEF NoneYet
    <3>5. ASSUME NEW q \in Procs, OnlySweeper(q)
          PROVE  OnlySweeper(q)'
      <4>1. Sweeper(q) /\ q # p
        BY <1>9, <2>7, <3>5 DEF OnlySweeper
      <4>2. Sweeper(q)' /\ Index(q)' = Index(q)
        BY <1>10, <4>1
      <4>3. QED
        BY <1>2, <3>2, <3>3, <3>5, <4>2 DEF OnlySweeper
    <3>6. QED
      BY <1>6, <2>4, <2>5, <2>7, <3>4, <3>5 DEF PhaseInv
  <2>8. CASE ~Done /\ made[p] > 0
    <3>1. /\ made[p] = made[Main] /\ arr[p] = arr[Main] /\ Index(p) < made[Main]
          /\ Index(p) + 1 \in Keys /\ Index(p) + 1 <= made[Main]
      BY <1>7, <1>14, <1>15, <2>8
    <3>2. k = Index(p) + 1
      <4>1. (Index(p) + 1) - 1 = Index(p)
        BY <1>2
      <4>2. id[k] = arr[Main][(Index(p) + 1) - 1]
        BY <2>1, <3>1, <4>1, Zenon
      <4>3. QED
        BY <1>6, <2>1, <3>1, <4>2 DEF UniqueInv
    <3>3. NoneYet \/ OnlySweeper(p)
      <4>1. ASSUME NEW q \in Procs, OnlySweeper(q), q # p
            PROVE  FALSE
        <5>1. Index(p) = 0 /\ Index(q) > 0
          BY <1>2, <2>8, <4>1 DEF OnlySweeper, Sweeper
        <5>2. Index(q) \in 0..2
          BY <4>1, TopOfFrames DEF OnlySweeper, Sweeper
        <5>3. k = 1 /\ 1 <= made[Main]
          BY <3>1, <3>2, <5>1
        <5>4. Index(q) < 1
          BY <2>1, <4>1, <5>3 DEF OnlySweeper
        <5>5. QED
          BY <5>1, <5>2, <5>4
      <4>2. QED
        BY <1>6, <2>8, <4>1 DEF PhaseInv
    <3>4. \A q \in Procs : Sweeper(q) => q = p
      BY <3>3 DEF NoneYet, OnlySweeper
    <3>5. \A j \in Keys : j <= made[Main] => (j \in live <=> Index(p) < j)
      <4>1. CASE OnlySweeper(p)
        BY <4>1 DEF OnlySweeper
      <4>2. CASE NoneYet
        <5>1. Index(p) = 0
          BY <1>2, <2>8, <4>2 DEF NoneYet, Sweeper
        <5>2. QED
          BY <4>2, <5>1 DEF NoneYet, Keys
      <4>3. QED
        BY <3>3, <4>1, <4>2
    <3>6. \A j \in Keys : j <= made[Main] => (j \in live' <=> Index(p) + 1 < j)
      BY <1>2, <2>1, <3>2, <3>5 DEF Keys
    <3>7. CASE pc' = pc /\ frames'[p] # <<>> /\ Index(p)' = Index(p) + 1
      <4>1. Sweeper(p)'
        BY <1>2, <2>8, <3>7 DEF Sweeper
      <4>2. OnlySweeper(p)'
        BY <1>2, <1>10, <3>4, <3>6, <3>7, <4>1 DEF OnlySweeper
      <4>3. QED
        BY <2>4, <2>5, <4>2 DEF PhaseInv
    <3>8. CASE Index(p) = 2
      <4>1. ASSUME NEW j \in live' PROVE ~(j <= made[Main])
        <5>1. j \in 1..3 /\ j \in Keys
          BY <1>0, <1>12 DEF Keys
        <5>2. ~(2 + 1 < j)
          BY <5>1
        <5>3. QED
          BY <3>6, <3>8, <5>1, <5>2
      <4>2. Done'
        BY <1>2, <4>1 DEF Done
      <4>3. QED
        BY <2>4, <2>5, <4>2 DEF PhaseInv
    <3>9. GoOn(p, 2)
      BY <1>20 DEF HitsOurs
    <3>10. QED
      BY <1>2, <3>7, <3>8, <3>9, GoOnFacts
  <2>9. QED
    BY <1>7, <2>6, <2>7, <2>8
<1>21. QED
  BY <1>2, <1>18, <1>19, <1>20

LEMMA NextCleanInv ==
  ASSUME CleanInv, [Next]_vars
  PROVE  CleanInv'
<1>0. OrderInv /\ OrderInv' /\ StateInv /\ IdInv /\ (Whole => StandingInv /\ UniqueInv /\ PhaseInv)
  BY NextOrderInv DEF CleanInv, OrderInv
<1> USE <1>0, StateFacts
<1> SUFFICES Whole' => StandingInv' /\ UniqueInv' /\ PhaseInv'
  BY DEF CleanInv
\* No queue goes or comes, no handler moves, the main process stays.
<1>1. ASSUME UNCHANGED <<live, id, arr, made, frames, orphans>>,
             Alive(Main) => Alive(Main)',
             pc'[Main] \in {"msgget", "assign"} => pc'[Main] = pc[Main]
      PROVE  Whole' => StandingInv' /\ UniqueInv' /\ PhaseInv'
  <2> SUFFICES ASSUME Whole' PROVE StandingInv' /\ UniqueInv' /\ PhaseInv'
    OBVIOUS
  <2>1. StandingInv /\ UniqueInv /\ PhaseInv
    BY <1>1 DEF Whole
  <2>2. StandingInv' /\ UniqueInv'
    BY <1>1, <2>1, QuietStanding DEF Runs
  <2>3. \A p \in Procs : Sweeper(p)' = Sweeper(p) /\ Index(p)' = Index(p)
    BY <1>1, SameSweeper
  <2>4. Done => Done'
    BY <1>1 DEF Done
  <2>5. NoneYet => NoneYet'
    BY <1>1, <2>3 DEF NoneYet
  <2>6. \A p \in Procs : OnlySweeper(p) => OnlySweeper(p)'
    BY <1>1, <2>3 DEF OnlySweeper
  <2>7. PhaseInv'
    BY <2>1, <2>4, <2>5, <2>6 DEF PhaseInv
  <2>8. QED
    BY <2>2, <2>7
<1>2. CASE UNCHANGED vars
  BY <1>1, <1>2 DEF vars, procs, kernel, Alive
<1>3. CASE CreateQueue
  <2> SUFFICES ASSUME Whole' PROVE StandingInv' /\ UniqueInv' /\ PhaseInv'
    OBVIOUS
  <2>1. /\ UNCHANGED <<live, id, arr, made, frames, orphans>> /\ made[Main] = 0
        /\ pc'[Main] = "msgget"
    BY <1>3 DEF CreateQueue, kernel, PcType
  <2>2. \A k \in Keys : ~(k <= 0)
    BY DEF Keys
  <2>3. StandingInv' /\ UniqueInv'
    BY <2>1, <2>2 DEF StandingInv, UniqueInv
  <2>4. Done'
    BY <2>1, <2>2 DEF Done
  <2>5. QED
    BY <2>3, <2>4 DEF PhaseInv
<1>4. CASE Msgget
  <2> SUFFICES ASSUME Whole' PROVE StandingInv' /\ UniqueInv' /\ PhaseInv'
    OBVIOUS
  <2>1. /\ pc[Main] = "msgget" /\ pc'[Main] = "assign" /\ Runs(Main)
        /\ Current = made[Main] + 1 /\ Current \in Keys /\ live' = live \cup {Current}
        /\ UNCHANGED <<arr, made, frames, orphans>>
    BY <1>4, MsggetFacts DEF PcType
  <2>2. /\ \A k \in live : id'[k] = id[k]
        /\ Current \in live \/ \A k \in live : id[k] # id'[Current]
    BY <1>4, MsggetFacts
  <2>3. StandingInv /\ UniqueInv /\ Current' = Current /\ made[Main] \in 0..3
    BY <2>1 DEF Whole, Current
  <2>4. \A k \in Keys : k <= made[Main] => k \in live /\ k # Current
    BY <2>1, <2>3 DEF StandingInv
  <2>5. StandingInv'
    BY <2>1, <2>3, <2>4 DEF StandingInv
  <2>6. UniqueInv'
    <3> SUFFICES ASSUME NEW k \in Keys, NEW j \in live', k <= made[Main],
                        id'[j] = arr[Main][k - 1]
                 PROVE  j = k
      BY <2>1 DEF UniqueInv
    <3>1. k \in live /\ id[k] = arr[Main][k - 1]
      BY <2>4 DEF IdInv
    <3>2. CASE j \in live
      BY <2>2, <2>3, <3>2 DEF UniqueInv
    <3>3. CASE j = Current /\ Current \notin live
      BY <2>2, <3>1, <3>3
    <3>4. QED
      BY <2>1, <3>2, <3>3
  <2>7. NoneYet'
    <3>1. \A p \in Procs : ~Sweeper(p)'
      BY <2>1, NoSweeper, SameSweeper
    <3>2. Alive(Main)'
      BY <2>1 DEF Alive
    <3>3. QED
      BY <2>1, <2>4, <3>1, <3>2 DEF NoneYet
  <2>8. QED
    BY <2>5, <2>6, <2>7 DEF PhaseInv
<1>5. CASE MsggetFails
  <2>1. /\ pc[Main] = "msgget" /\ Runs(Main) /\ Exit(Main)
        /\ orphans' = orphans \cup 1..made[Main]
        /\ UNCHANGED <<live, id, arr, made>>
    BY <1>5 DEF MsggetFails, kernel
  <2>2. ~Sweeper(Main) /\ (Whole' => Whole) /\ made[Main] \in 0..3
    BY <2>1, NoSweeper DEF Whole
  <2>3. Done'
    <3>1. \A k \in Keys : k <= made[Main] => k \in 1..made[Main]
      BY <2>2 DEF Keys
    <3>2. QED
      BY <2>1, <3>1 DEF Done
  <2>4. QED
    BY <2>1, <2>2, <2>3, QuietExit
<1>6. CASE Assign
  <2> SUFFICES ASSUME Whole' PROVE StandingInv' /\ UniqueInv' /\ PhaseInv'
    OBVIOUS
  <2>1. /\ pc[Main] = "assign" /\ Runs(Main) /\ Current = made[Main] + 1
        /\ made[Main] \in 0..2 /\ Current \in Keys /\ made'[Main] = Current
        /\ pc'[Main] \in {"run", "msgget"}
        /\ UNCHANGED <<live, id, frames, orphans>>
    BY <1>6, AssignFacts
  <2>2. /\ \A i \in 0..2 : arr'[Main][i] = IF i = made[Main] THEN qid ELSE arr[Main][i]
        /\ \A p \in Procs \ {Main} : made'[p] = made[p]
    BY <1>6, AssignFacts
  <2>3. \A k \in Keys : /\ k - 1 \in 0..2
                        /\ k <= Current => k = Current \/ k <= made[Main]
                        /\ k - 1 = made[Main] => k = Current
    BY <2>1 DEF Keys
  <2>4. StandingInv /\ UniqueInv
    BY <2>1 DEF Whole
  <2>5. \A k \in Keys : k <= Current => k \in live
    BY <2>1, <2>3, <2>4 DEF StandingInv
  <2>6. UniqueInv'
    <3>1. \A k \in live : k <= Current => id[k] = arr'[Main][k - 1]
      BY <2>1 DEF OrderInv, IdInv
    <3>2. QED
      BY <2>1, <2>5, <3>1 DEF UniqueInv, IdInv
  <2>7. StandingInv'
    BY <2>1, <2>5 DEF StandingInv
  <2>8. \A p \in Procs : ~Sweeper(p)'
    <3>1. \A p \in Procs \ {Main} : made'[p] = 0
      BY <2>1, <2>2, NoSweeper
    <3>2. frames'[Main] = <<>>
      BY <2>1 DEF Runs
    <3>3. ~Sweeper(Main)'
      BY <3>2 DEF Sweeper
    <3>4. \A p \in Procs \ {Main} : ~Sweeper(p)'
      BY <3>1 DEF Sweeper
    <3>5. QED
      BY <3>3, <3>4
  <2>9. NoneYet'
    <3>1. Alive(Main)'
      BY <2>1 DEF Alive
    <3>2. QED
      BY <2>1, <2>5, <2>8, <3>1 DEF NoneYet
  <2>10. QED
    BY <2>6, <2>7, <2>9 DEF PhaseInv
<1>7. ASSUME NEW c \in Children, Fork(c)
      PROVE  Whole' => StandingInv' /\ UniqueInv' /\ PhaseInv'
  <2> SUFFICES ASSUME Whole' PROVE StandingInv' /\ UniqueInv' /\ PhaseInv'
    OBVIOUS
  <2>1. /\ c # Main /\ pc[c] = "new"
        /\ pc'[Main] = pc[Main] /\ arr'[Main] = arr[Main] /\ made'[Main] = made[Main]
        /\ \A p \in Procs \ {c} : made'[p] = made[p]
        /\ UNCHANGED <<live, id, frames, orphans>>
    BY <1>7 DEF Fork, kernel, PcType
  <2>2. StandingInv /\ UniqueInv /\ PhaseInv
    BY <2>1 DEF Whole
  <2>3. frames[c] = <<>>
    BY <2>1 DEF StateInv, ArrInv
  <2>4. \A p \in Procs : (Sweeper(p)' <=> Sweeper(p)) /\ Index(p)' = Index(p)
    <3>1. ~Sweeper(c) /\ ~Sweeper(c)' /\ Index(c)' = Index(c)
      BY <2>1, <2>3 DEF Sweeper, Index
    <3>2. \A p \in Procs \ {c} : (Sweeper(p)' <=> Sweeper(p)) /\ Index(p)' = Index(p)
      BY <2>1, SameSweeper
    <3>3. QED
      BY <3>1, <3>2
  <2>5. StandingInv' /\ UniqueInv'
    BY <2>1, <2>2 DEF StandingInv, UniqueInv, Current, Runs
  <2>6. Done => Done'
    BY <2>1 DEF Done
  <2>7. NoneYet => NoneYet'
    BY <2>1, <2>4 DEF NoneYet, Alive
  <2>8. \A p \in Procs : OnlySweeper(p) => OnlySweeper(p)'
    BY <2>1, <2>4 DEF OnlySweeper
  <2>9. QED
    BY <2>2, <2>5, <2>6, <2>7, <2>8 DEF PhaseInv
<1>8. ASSUME NEW p \in Procs, Call(p)
      PROVE  Whole' => StandingInv' /\ UniqueInv' /\ PhaseInv'
  <2>1. UNCHANGED <<live, id, arr, made, frames, orphans>>
    BY <1>8 DEF Call, kernel
  <2>2. pc'[Main] = pc[Main] \/ pc'[Main] \in {"send", "rcv"}
    BY <1>8 DEF Call, PcType
  <2>3. QED
    BY <1>1, <2>1, <2>2 DEF Alive
<1>9. ASSUME NEW p \in Procs, Transfer(p)
      PROVE  Whole' => StandingInv' /\ UniqueInv' /\ PhaseInv'
  <2>1. UNCHANGED <<live, id, arr, made, frames, orphans>> /\ pc' = [pc EXCEPT ![p] = "run"]
    BY <1>9, TransferFacts
  <2>2. pc'[Main] = pc[Main] \/ pc'[Main] = "run"
    BY <2>1 DEF PcType
  <2>3. QED
    BY <1>1, <2>1, <2>2 DEF Alive
<1>10. ASSUME NEW p \in Procs, TransferFails(p)
       PROVE  Whole' => StandingInv' /\ UniqueInv' /\ PhaseInv'
  <2>1. /\ Exit(p) /\ Runs(p) /\ pc[p] \in {"send", "rcv"} /\ Named(Queue(p)) = {}
        /\ UNCHANGED <<live, id, arr, made, orphans>>
    BY <1>10 DEF TransferFails, kernel, Waits
  <2>2. ~Sweeper(p) /\ (Whole' => Whole)
    BY <2>1 DEF Sweeper, Runs, Whole
  \* The queue of its call is gone: somebody has begun.
  <2>3. ASSUME p = Main, Whole
        PROVE  Done' \/ \E q \in Procs : OnlySweeper(q)
    <3>1. made[Main] = 3 /\ arg[Main] \in 0..2
      BY <2>1, <2>3 DEF StateInv, ArrInv
    <3>2. arg[Main] + 1 \in Keys /\ arg[Main] + 1 <= 3 /\ (arg[Main] + 1) - 1 = arg[Main]
      BY <3>1 DEF Keys
    <3>3. arg[Main] + 1 \notin live
      <4> SUFFICES ASSUME arg[Main] + 1 \in live PROVE FALSE
        OBVIOUS
      <4>1. id[arg[Main] + 1] = arr[Main][(arg[Main] + 1) - 1]
        BY <3>1, <3>2 DEF IdInv
      <4>2. id[arg[Main] + 1] = Queue(Main)
        BY <3>2, <4>1, Zenon DEF Queue
      <4>3. QED
        BY <2>1, <2>3, <4>2 DEF Named
    <3>4. ~NoneYet
      BY <3>1, <3>2, <3>3 DEF NoneYet
    <3>5. Done => Done'
      BY <2>1 DEF Done
    <3>6. QED
      BY <2>3, <3>4, <3>5 DEF PhaseInv
  <2>4. QED
    BY <2>1, <2>2, <2>3, QuietExit
<1>11. ASSUME NEW p \in Procs, Remove(p)
       PROVE  Whole' => StandingInv' /\ UniqueInv' /\ PhaseInv'
  BY <1>11, RemoveClean
\* A sweeper that is interrupted or killed leaves orphans.
<1>12. ASSUME NEW p \in Procs, Sweeper(p), UNCHANGED <<live, id, arr, made>>,
              orphans' \in SUBSET Keys, orphans \cup Rest(p) \subseteq orphans', Whole,
              pc'[Main] \in {"msgget", "assign"} /\ Runs(Main)' =>
                pc'[Main] = pc[Main] /\ Runs(Main)
       PROVE  StandingInv' /\ UniqueInv' /\ PhaseInv'
  <2>1. StandingInv' /\ UniqueInv'
    BY <1>12, QuietStanding
  <2>2. Done'
    <3>1. CASE Done
      BY <1>12, <3>1 DEF Done
    <3>2. CASE ~Done
      <4>1. OnlySweeper(p)
        BY <1>12, <3>2, BehindSweeper
      <4>2. Index(p) \in 0..2 /\ Rest(p) = (Index(p) + 1)..3
        BY <1>12, TopOfFrames DEF Rest, Sweeper
      <4>3. ASSUME NEW k \in live, k <= made[Main]
            PROVE  k \in Rest(p)
        <5>1. Index(p) < k /\ k \in 1..3
          BY <4>1, <4>3 DEF OnlySweeper, Keys
        <5>2. QED
          BY <4>2, <5>1
      <4>4. QED
        BY <1>12, <4>3 DEF Done
    <3>3. QED
      BY <3>1, <3>2
  <2>3. QED
    BY <2>1, <2>2 DEF PhaseInv
<1>13. ASSUME NEW p \in Procs, Signal(p)
       PROVE  Whole' => StandingInv' /\ UniqueInv' /\ PhaseInv'
  <2> SUFFICES ASSUME Whole' PROVE StandingInv' /\ UniqueInv' /\ PhaseInv'
    OBVIOUS
  <2>1. UNCHANGED <<live, id, arr, made, pc>>
        /\ frames' = [frames EXCEPT ![p] = Append(@, 0)]
        /\ orphans' = orphans \cup Rest(p)
    BY <1>13 DEF Signal, kernel
  <2>2. /\ frames'[p] # <<>> /\ Index(p)' = 0
        /\ \A q \in Procs \ {p} : frames'[q] = frames[q]
    BY <2>1, PushFrame
  <2>3. Whole /\ orphans' \in SUBSET Keys
    BY <2>1, <1>0 DEF Whole, OrderInv, StateInv, TypeOK
  <2>4. pc'[Main] \in {"msgget", "assign"} /\ Runs(Main)' => pc'[Main] = pc[Main] /\ Runs(Main)
    BY <2>1, <2>2 DEF Runs
  <2>5. CASE Sweeper(p)
    BY <1>12, <2>1, <2>3, <2>4, <2>5
  <2>6. CASE ~Sweeper(p)
    <3>1. StandingInv' /\ UniqueInv'
      BY <2>1, <2>3, <2>4, QuietStanding
    <3>2. ~Sweeper(p)'
      BY <2>2 DEF Sweeper
    <3>3. \A q \in Procs \ {p} : Sweeper(q)' = Sweeper(q) /\ Index(q)' = Index(q)
      BY <2>1, <2>2, SameSweeper
    <3>4. \A q \in Procs : Sweeper(q)' => Sweeper(q)
      BY <3>2, <3>3
    <3>5. Done => Done'
      BY <2>1 DEF Done
    <3>6. NoneYet => NoneYet'
      BY <2>1, <3>4, QuietNoneYet DEF NoneYet, Alive
    <3>7. ASSUME NEW q \in Procs, OnlySweeper(q)
          PROVE  OnlySweeper(q)'
      <4>1. q # p /\ Sweeper(q)
        BY <2>6, <3>7 DEF OnlySweeper
      <4>2. Sweeper(q)' /\ Index(q)' = Index(q)
        BY <3>3, <4>1
      <4>3. QED
        BY <2>1, <3>4, <3>7, <4>2, QuietSweeper
    <3>8. QED
      BY <2>3, <3>1, <3>5, <3>6, <3>7 DEF PhaseInv
  <2>7. QED
    BY <2>5, <2>6
<1>14. ASSUME NEW p \in Procs, Killed(p)
       PROVE  Whole' => StandingInv' /\ UniqueInv' /\ PhaseInv'
  <2>1. /\ Exit(p) /\ UNCHANGED <<live, id, arr, made>>
        /\ orphans' = orphans \cup Rest(p) \cup (IF p = Main THEN 1..made[p] ELSE {})
    BY <1>14 DEF Killed, kernel
  <2>2. /\ pc'[p] = "exited" /\ frames'[p] = <<>>
        /\ \A q \in Procs \ {p} : pc'[q] = pc[q] /\ frames'[q] = frames[q]
    BY <2>1, ExitFacts
  <2>3. Whole' => Whole
    BY <2>1 DEF Whole
  <2>4. CASE Sweeper(p)
    <3>1. pc'[Main] \in {"msgget", "assign"} /\ Runs(Main)' =>
            pc'[Main] = pc[Main] /\ Runs(Main)
      BY <2>2 DEF Runs
    <3>2. orphans' \in SUBSET Keys
      BY <1>0 DEF OrderInv, StateInv, TypeOK
    <3>3. orphans \cup Rest(p) \subseteq orphans'
      BY <2>1
    <3>4. QED
      BY <1>12, <2>1, <2>3, <2>4, <3>1, <3>2, <3>3
  <2>5. CASE ~Sweeper(p)
    <3>1. p = Main => Done'
      <4>1. made[Main] \in 0..3
        OBVIOUS
      <4>2. \A k \in Keys : k <= made[Main] => k \in 1..made[Main]
        BY <4>1 DEF Keys
      <4>3. QED
        BY <2>1, <4>2 DEF Done
    <3>2. orphans \subseteq orphans'
      BY <2>1
    <3>3. QED
      BY <2>1, <2>3, <2>5, <3>1, <3>2, QuietExit
  <2>6. QED
    BY <2>4, <2>5
<1>15. CASE Restart
  <2>1. pc'[Main] = "run" /\ made'[Main] = 0 /\ live' = live
    BY <1>15 DEF Restart, kernel
  <2>2. \A k \in Keys : ~(k <= 0)
    BY DEF Keys
  <2>3. StandingInv' /\ UniqueInv' /\ Done'
    BY <2>1, <2>2 DEF StandingInv, UniqueInv, Done
  <2>4. QED
    BY <2>3 DEF PhaseInv
<1>16. QED
  BY <1>2, <1>3, <1>4, <1>5, <1>6, <1>7, <1>8, <1>9, <1>10, <1>11, <1>13, <1>14, <1>15
     DEF Next, Step

\* When a run is over, a queue that create_queue stored in arr is gone, or it is
\* one of those that a kill, an interrupted handler, a failing msgget or a zeroed
\* array left: whatever identifiers the kernel gave, whatever the last run left,
\* and however many processes ran destroy_queue at once.
THEOREM NothingLeft == Spec => []NoQueueLeft
<1>1. ASSUME CleanInv PROVE NoQueueLeft
  <2> SUFFICES ASSUME Over, NEW k \in live, k \notin orphans PROVE k > made[Main]
    BY DEF NoQueueLeft
  <2>1. StateInv /\ Main \in Procs /\ k \in Keys /\ made[Main] \in 0..3
    BY <1>1, StateFacts DEF CleanInv, OrderInv
  <2>2. PhaseInv
    BY <1>1, <2>1 DEF CleanInv, Whole
  <2>3. ~NoneYet
    BY <2>1 DEF NoneYet, Over
  <2>4. \A p \in Procs : ~OnlySweeper(p)
    BY <2>1 DEF OnlySweeper, Sweeper, Over, Alive, StateInv, ArrInv
  <2>5. ~(k <= made[Main])
    BY <2>2, <2>3, <2>4 DEF PhaseInv, Done
  <2>6. QED
    BY <2>1, <2>5 DEF Keys
<1>2. QED
  BY <1>1, InitCleanInv, NextCleanInv, PTL DEF Spec

=============================================================================

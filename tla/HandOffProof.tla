---------------------------- MODULE HandOffProof ----------------------------
(***************************************************************************)
(* Proofs about HandOff for every set of clients, every finite set of      *)
(* workers and every capacity.                                             *)
(***************************************************************************)
EXTENDS HandOff, FiniteSetTheorems, SequenceTheorems, TLAPS

-----------------------------------------------------------------------------
(* Types.                                                                  *)

LEMMA InitTypeOK == Init => TypeOK
  BY HandOffAssumption, SMT
  DEF Init, TypeOK, MasterStates, WorkerStates, Sending, InFlight

\* Each action keeps the types; the bounds on the history are the guards of
\* Accept, SendOk, Resend and Recv.
LEMMA NextTypeOK == TypeOK /\ [Next]_vars => TypeOK'
<1> SUFFICES ASSUME TypeOK, [Next]_vars PROVE TypeOK'
  OBVIOUS
<1> USE HandOffAssumption
<1> USE DEF TypeOK, MasterStates, WorkerStates, Sending, InFlight
<1>1. CASE Fork
  BY <1>1 DEF Fork
<1>2. CASE Listen
  BY <1>2 DEF Listen
<1>3. CASE EpollWait
  BY <1>3 DEF EpollWait
<1>4. CASE Accept
  BY <1>4, SMTT(30) DEF Accept
<1>5. CASE AcceptFail
  BY <1>5 DEF AcceptFail
<1>6. CASE SendOk
  BY <1>6 DEF SendOk
<1>7. CASE SendFail
  BY <1>7 DEF SendFail
<1>8. CASE Resend
  <2>1. CASE InFlight < ChanCap /\ sent' = Append(sent, clientfd)
    <3>1. sent' \in Seq(Clients) /\ Len(sent') = Len(sent) + 1
      BY <1>8, <2>1 DEF Resend
    <3>2. took' \in [Workers -> 0..Len(sent')]
      BY <1>8, <3>1 DEF Resend
    <3>3. QED
      BY <1>8, <2>1, <3>1, <3>2 DEF Resend
  <2>2. CASE UNCHANGED sent
    BY <1>8, <2>2 DEF Resend
  <2>3. QED
    BY <1>8, <2>1, <2>2 DEF Resend
<1>9. CASE MasterSignal
  BY <1>9 DEF MasterSignal
<1>10. ASSUME NEW w \in Workers, Wake(w) PROVE TypeOK'
  BY <1>10 DEF Wake
<1>11. ASSUME NEW w \in Workers, Recv(w) PROVE TypeOK'
  <2>1. CASE InFlight > 0
    <3>1. head' = head + 1 /\ head + 1 \in 0..Len(sent)
      BY <1>11, <2>1 DEF Recv
    <3>2. took' \in [Workers -> 0..Len(sent)]
      BY <1>11, <2>1, <3>1 DEF Recv
    <3>3. wpc' \in [Workers -> WorkerStates]
      BY <1>11, <2>1 DEF Recv
    <3>4. UNCHANGED <<mpc, backlog, clientfd, accepted, sent, nfail>>
      BY <1>11 DEF Recv
    <3>5. InFlight' <= ChanCap
      BY <3>1, <3>4
    <3>6. QED
      BY <3>1, <3>2, <3>3, <3>4, <3>5
  <2>2. CASE ~(InFlight > 0)
    BY <1>11, <2>2 DEF Recv
  <2>3. QED
    BY <2>1, <2>2
<1>12. ASSUME NEW w \in Workers, WorkerDies(w) PROVE TypeOK'
  BY <1>12 DEF WorkerDies
<1>13. ASSUME NEW c \in Clients, Connect(c) PROVE TypeOK'
  BY <1>13 DEF Connect
<1>14. CASE UNCHANGED vars
  BY <1>14 DEF vars
<1>15. QED
  BY <1>1, <1>2, <1>3, <1>4, <1>5, <1>6, <1>7, <1>8, <1>9, <1>10, <1>11,
     <1>12, <1>13, <1>14 DEF Next

\* The state variables keep their types and the socketpair its capacity.
THEOREM TypeCorrect == Spec => []TypeOK
<1>1. QED
  BY InitTypeOK, NextTypeOK, PTL DEF Spec

-----------------------------------------------------------------------------
(* The workers' end of the socketpair.                                     *)

\* What keeps two workers from one message is the read index: whatever was
\* taken lies at or below it, and the next message lies above.  A worker that
\* can receive has taken nothing yet.
TakenInv ==
  /\ \A w \in Workers : wpc[w] \in {"unborn", "sleep", "recv"} => took[w] = 0
  /\ \A w \in Workers : took[w] <= head
  /\ OneTakerPerMessage
  /\ NoWorkerReturns

LEMMA InitTakenInv == Init => TakenInv
  BY DEF Init, TakenInv, OneTakerPerMessage, NoWorkerReturns

LEMMA NextTakenInv == TypeOK /\ TakenInv /\ [Next]_vars => TakenInv'
<1> SUFFICES ASSUME TypeOK, TakenInv, [Next]_vars PROVE TakenInv'
  OBVIOUS
<1> USE DEF TakenInv, OneTakerPerMessage, NoWorkerReturns
<1>a. /\ wpc \in [Workers -> WorkerStates]
      /\ took \in [Workers -> Nat]
      /\ head \in Nat
  BY DEF TypeOK
<1>1. CASE UNCHANGED <<wpc, took, head>>
  BY <1>1
<1>2. CASE Fork
  BY <1>2, <1>a DEF Fork
<1>3. ASSUME NEW w \in Workers, Wake(w) PROVE TakenInv'
  BY <1>3, <1>a DEF Wake
<1>4. ASSUME NEW w \in Workers, Recv(w) PROVE TakenInv'
  <2>1. InFlight > 0
    \* w is alive and holds the writing end, so NoWriter is false.
    BY <1>4 DEF Recv, CanRecv, NoWriter, WorkerHoldsWriteEnd, Alive
  <2>2. /\ head' = head + 1
        /\ took' = [took EXCEPT ![w] = head + 1]
        /\ wpc' = [wpc EXCEPT ![w] = "serving"]
    BY <1>4, <2>1 DEF Recv
  <2>3. \A v \in Workers : took'[v] = IF v = w THEN head + 1 ELSE took[v]
    BY <2>2, <1>a
  <2>4. QED
    BY <2>2, <2>3, <1>a
<1>5. ASSUME NEW w \in Workers, WorkerDies(w) PROVE TakenInv'
  BY <1>5, <1>a DEF WorkerDies
<1>6. QED
  BY <1>1, <1>2, <1>3, <1>4, <1>5
  DEF Next, vars, Listen, EpollWait, Accept, AcceptFail, SendOk, SendFail,
      Resend, MasterSignal, Connect

LEMMA TakenInvariant == Spec => []TakenInv
  BY InitTakenInv, NextTakenInv, TypeCorrect, PTL DEF Spec

\* No message of the socketpair is read by two workers.
THEOREM TakenOnce == Spec => []OneTakerPerMessage
<1>1. TakenInv => OneTakerPerMessage
  BY DEF TakenInv
<1>2. QED
  BY <1>1, TakenInvariant, PTL

\* No worker falls out of jump_task_pool_obj into the forking loop.
THEOREM WorkersStay == Spec => []NoWorkerReturns
<1>1. TakenInv => NoWorkerReturns
  BY DEF TakenInv
<1>2. QED
  BY <1>1, TakenInvariant, PTL

-----------------------------------------------------------------------------
(* One message per worker.                                                 *)

Takers == {w \in Workers : took[w] # 0}

LEMMA InitOneMessage == Init => OneMessagePerWorker
<1> SUFFICES ASSUME Init PROVE OneMessagePerWorker
  OBVIOUS
<1>1. {w \in Workers : took[w] # 0} = {}
  BY DEF Init
<1>2. QED
  BY <1>1, FS_EmptySet DEF Init, OneMessagePerWorker

LEMMA NextOneMessage ==
  TypeOK /\ TakenInv /\ OneMessagePerWorker /\ [Next]_vars => OneMessagePerWorker'
<1> SUFFICES ASSUME TypeOK, TakenInv, OneMessagePerWorker, [Next]_vars
             PROVE  OneMessagePerWorker'
  OBVIOUS
<1>a. took \in [Workers -> Nat] /\ head \in Nat
  BY DEF TypeOK
<1>1. CASE UNCHANGED <<took, head>>
  BY <1>1 DEF OneMessagePerWorker
<1>2. ASSUME NEW w \in Workers, Recv(w) PROVE OneMessagePerWorker'
  <2>1. InFlight > 0
    BY <1>2 DEF Recv, CanRecv, NoWriter, WorkerHoldsWriteEnd, Alive
  <2>2. head' = head + 1 /\ took' = [took EXCEPT ![w] = head + 1] /\ took[w] = 0
    BY <1>2, <2>1 DEF Recv, CanRecv, TakenInv
  <2>3. \A v \in Workers : took'[v] = IF v = w THEN head + 1 ELSE took[v]
    BY <2>2, <1>a
  <2>4. Takers' = Takers \cup {w} /\ w \notin Takers
    BY <2>2, <2>3, <1>a DEF Takers
  <2>5. IsFiniteSet(Takers)
    BY HandOffAssumption, FS_Subset DEF Takers
  <2>6. Cardinality(Takers') = Cardinality(Takers) + 1
    BY <2>4, <2>5, FS_AddElement
  <2>7. head' = Cardinality(Takers')
    BY <2>2, <2>6 DEF OneMessagePerWorker, Takers
  <2>8. \A i \in 1..head' : \E v \in Workers : took'[v] = i
    BY <2>2, <2>3, <1>a DEF OneMessagePerWorker
  <2>9. QED
    BY <2>7, <2>8 DEF OneMessagePerWorker, Takers
<1>3. QED
  BY <1>1, <1>2
  DEF Next, vars, Fork, Listen, EpollWait, Accept, AcceptFail, SendOk, SendFail,
      Resend, MasterSignal, Connect, Wake, WorkerDies

\* The pool reads one message per worker and no more.
THEOREM OneRound == Spec => []OneMessagePerWorker
  BY InitOneMessage, NextOneMessage, TypeCorrect, TakenInvariant, PTL DEF Spec

\* Each message that Sock_fd_read gives to the pool is served by one worker,
\* which serves no other and stays in do_epoll.
THEOREM ServesOnce == Spec => []ServedOnce
<1>1. TakenInv /\ OneMessagePerWorker => ServedOnce
  BY DEF TakenInv, ServedOnce
<1>2. QED
  BY <1>1, TakenInvariant, OneRound, PTL

\* So NPROC_MAX_NUM bounds what is ever taken, whatever arrives.
THEOREM CapacityBound == Spec => [](head <= Cardinality(Workers))
<1>1. TypeOK /\ OneMessagePerWorker => head <= Cardinality(Workers)
  BY HandOffAssumption, FS_Subset DEF OneMessagePerWorker, TypeOK
<1>2. QED
  BY <1>1, TypeCorrect, OneRound, PTL

-----------------------------------------------------------------------------
(* The master's end of the socketpair.                                     *)

\* While the master sends, clientfd is the connection it accepted last; so
\* going back to accept, which only SendOk does, leaves none behind unsent.
HoldInv ==
  /\ Sending => Len(accepted) > 0 /\ accepted[Len(accepted)] = clientfd
  /\ NothingLost

LEMMA InitHoldInv == Init => HoldInv
  BY DEF Init, HoldInv, NothingLost, Sending

LEMMA NextHoldInv == TypeOK /\ HoldInv /\ [Next]_vars => HoldInv'
<1> SUFFICES ASSUME TypeOK, HoldInv, [Next]_vars PROVE HoldInv'
  OBVIOUS
<1> USE DEF HoldInv, NothingLost, Sending
<1>a. /\ accepted \in Seq(Clients) /\ sent \in Seq(Clients)
      /\ Sending => clientfd \in Clients
      /\ backlog \in Seq(Clients)
  BY DEF TypeOK
<1>1. CASE UNCHANGED <<mpc, clientfd, accepted, sent>>
  BY <1>1
<1>2. CASE Fork
  BY <1>2 DEF Fork
<1>3. CASE Listen
  BY <1>3 DEF Listen
<1>4. CASE EpollWait
  BY <1>4 DEF EpollWait
<1>5. CASE Accept
  <2>1. /\ accepted' = Append(accepted, clientfd') /\ clientfd' \in Clients
        /\ mpc' = "send" /\ sent' = sent /\ mpc = "accept"
    BY <1>5, <1>a DEF Accept
  <2>2. /\ Len(accepted') = Len(accepted) + 1
        /\ accepted'[Len(accepted')] = clientfd'
        /\ \A k \in 1..Len(accepted) : accepted'[k] = accepted[k]
    BY <2>1, <1>a
  <2>3. QED
    BY <2>1, <2>2, <1>a
<1>6. CASE AcceptFail
  BY <1>6 DEF AcceptFail
<1>7. CASE sent' = Append(sent, clientfd) /\ Sending /\ UNCHANGED <<clientfd, accepted>>
  <2>1. /\ Len(sent') = Len(sent) + 1
        /\ sent'[Len(sent')] = clientfd
        /\ \A i \in 1..Len(sent) : sent'[i] = sent[i]
    BY <1>7, <1>a
  <2>2. ASSUME NEW k \in 1..Len(accepted)
        PROVE  \E i \in 1..Len(sent') : sent'[i] = accepted[k]
    <3>1. CASE k = Len(accepted)
      BY <1>7, <1>a, <2>1, <3>1
    <3>2. CASE k # Len(accepted)
      <4>1. PICK i \in 1..Len(sent) : sent[i] = accepted[k]
        BY <3>2
      <4>2. i \in 1..Len(sent') /\ sent'[i] = accepted[k]
        BY <2>1, <4>1, <1>a
      <4>3. QED
        BY <4>2
    <3>3. QED
      BY <3>1, <3>2
  <2>3. QED
    BY <1>7, <2>2
<1>8. CASE SendOk
  BY <1>7, <1>8 DEF SendOk
<1>9. CASE SendFail
  BY <1>9 DEF SendFail
<1>10. CASE Resend
  BY <1>7, <1>10 DEF Resend
<1>11. CASE MasterSignal
  BY <1>11 DEF MasterSignal
<1>12. QED
  BY <1>1, <1>2, <1>3, <1>4, <1>5, <1>6, <1>8, <1>9, <1>10, <1>11
  DEF Next, vars, Wake, Recv, WorkerDies, Connect

LEMMA HoldInvariant == Spec => []HoldInv
  BY InitHoldInv, NextHoldInv, TypeCorrect, PTL DEF Spec

\* Every connection the master accepted and let go of was sent.
THEOREM Kept == Spec => []NothingLost
<1>1. HoldInv => NothingLost
  BY DEF HoldInv
<1>2. QED
  BY <1>1, HoldInvariant, PTL

-----------------------------------------------------------------------------
(* Copies.                                                                 *)

\* Accepting is fresh: no connection is queued twice or again, and nothing is
\* sent that was not accepted.
FreshInv ==
  /\ \A i, j \in 1..Len(backlog) : i # j => backlog[i] # backlog[j]
  /\ \A i, j \in 1..Len(accepted) : i # j => accepted[i] # accepted[j]
  /\ \A i \in 1..Len(backlog), j \in 1..Len(accepted) : backlog[i] # accepted[j]
  /\ \A i \in 1..Len(sent) : \E k \in 1..Len(accepted) : sent[i] = accepted[k]

LEMMA InitFreshInv == Init => FreshInv
  BY DEF Init, FreshInv

LEMMA NextFreshInv == TypeOK /\ HoldInv /\ FreshInv /\ [Next]_vars => FreshInv'
<1> SUFFICES ASSUME TypeOK, HoldInv, FreshInv, [Next]_vars PROVE FreshInv'
  OBVIOUS
<1> USE DEF FreshInv
<1>a. /\ backlog \in Seq(Clients) /\ accepted \in Seq(Clients)
      /\ sent \in Seq(Clients) /\ Sending => clientfd \in Clients
  BY DEF TypeOK
<1>1. CASE UNCHANGED <<backlog, accepted, sent>>
  BY <1>1
<1>2. CASE Accept
  <2>1. /\ backlog # <<>> /\ backlog' = Tail(backlog)
        /\ accepted' = Append(accepted, Head(backlog)) /\ sent' = sent
    BY <1>2 DEF Accept
  <2>2. /\ Len(backlog') = Len(backlog) - 1 /\ Len(backlog) > 0
        /\ \A i \in 1..Len(backlog') : i+1 \in 1..Len(backlog) /\ backlog'[i] = backlog[i+1]
        /\ Head(backlog) = backlog[1]
    BY <2>1, <1>a
  <2>3. /\ Len(accepted') = Len(accepted) + 1
        /\ accepted'[Len(accepted) + 1] = backlog[1]
        /\ \A k \in 1..Len(accepted) : accepted'[k] = accepted[k]
    BY <2>1, <2>2, <1>a
  <2>4. \A i, j \in 1..Len(backlog') : i # j => backlog'[i] # backlog'[j]
    BY <2>2, <1>a
  <2>5. \A i, j \in 1..Len(accepted') : i # j => accepted'[i] # accepted'[j]
    BY <2>2, <2>3, <1>a
  <2>6. \A i \in 1..Len(backlog'), j \in 1..Len(accepted') : backlog'[i] # accepted'[j]
    <3>1. SUFFICES ASSUME NEW i \in 1..Len(backlog'), NEW j \in 1..Len(accepted')
                   PROVE  backlog'[i] # accepted'[j]
      OBVIOUS
    <3>2. i + 1 \in 1..Len(backlog) /\ backlog'[i] = backlog[i + 1] /\ i + 1 # 1
      BY <2>2, <1>a
    <3>3. CASE j = Len(accepted) + 1
      BY <2>2, <2>3, <3>2, <3>3
    <3>4. CASE j \in 1..Len(accepted)
      BY <2>3, <3>2, <3>4
    <3>5. QED
      BY <2>3, <3>3, <3>4, <1>a
  <2>7. \A i \in 1..Len(sent') : \E k \in 1..Len(accepted') : sent'[i] = accepted'[k]
    BY <2>1, <2>3, <1>a
  <2>8. QED
    BY <2>4, <2>5, <2>6, <2>7
<1>3. CASE sent' = Append(sent, clientfd) /\ Sending /\ UNCHANGED <<backlog, accepted>>
  <2>1. /\ Len(sent') = Len(sent) + 1
        /\ sent'[Len(sent')] = clientfd
        /\ \A i \in 1..Len(sent) : sent'[i] = sent[i]
    BY <1>3, <1>a
  <2>2. Len(accepted) \in 1..Len(accepted) /\ accepted[Len(accepted)] = clientfd
    BY <1>3, <1>a DEF HoldInv
  <2>3. QED
    BY <1>3, <2>1, <2>2, <1>a
<1>4. CASE SendOk
  BY <1>3, <1>4 DEF SendOk, Sending
<1>5. CASE Resend
  BY <1>1, <1>3, <1>5 DEF Resend, Sending
<1>6. ASSUME NEW c \in Clients, Connect(c) PROVE FreshInv'
  <2>1. /\ backlog' = Append(backlog, c)
        /\ \A k \in 1..Len(backlog) : backlog[k] # c
        /\ \A k \in 1..Len(accepted) : accepted[k] # c
        /\ UNCHANGED <<accepted, sent>>
    BY <1>6 DEF Connect
  <2>2. /\ Len(backlog') = Len(backlog) + 1
        /\ backlog'[Len(backlog')] = c
        /\ \A i \in 1..Len(backlog) : backlog'[i] = backlog[i]
    BY <2>1, <1>a
  <2>3. QED
    BY <2>1, <2>2, <1>a
<1>7. QED
  BY <1>1, <1>2, <1>4, <1>5, <1>6
  DEF Next, vars, Fork, Listen, EpollWait, AcceptFail, SendFail, MasterSignal,
      Wake, Recv, WorkerDies

LEMMA FreshInvariant == Spec => []FreshInv
  BY InitFreshInv, NextFreshInv, TypeCorrect, HoldInvariant, PTL DEF Spec

LEMMA CopiesType ==
  ASSUME TypeOK, NEW c \in Clients
  PROVE  Copies(c) \in Nat /\ IsFiniteSet({i \in 1..Len(sent) : sent[i] = c})
<1>1. Len(sent) \in Nat
  BY DEF TypeOK
<1>2. IsFiniteSet(1..Len(sent))
  BY <1>1, FS_Interval
<1>3. IsFiniteSet({i \in 1..Len(sent) : sent[i] = c})
  BY <1>2, FS_Subset
<1>4. QED
  BY <1>3, FS_CardinalityType DEF Copies

\* A send adds one copy of the connection sent and none of another.
LEMMA CopiesAppend ==
  ASSUME TypeOK, Sending, sent' = Append(sent, clientfd), NEW c \in Clients
  PROVE  Copies(c)' = IF c = clientfd THEN Copies(c) + 1 ELSE Copies(c)
<1> DEFINE S == {i \in 1..Len(sent) : sent[i] = c}
           T == {i \in 1..Len(sent') : sent'[i] = c}
<1>1. sent \in Seq(Clients) /\ clientfd \in Clients
  BY DEF TypeOK
<1>2. /\ Len(sent') = Len(sent) + 1 /\ Len(sent) \in Nat
      /\ sent'[Len(sent) + 1] = clientfd
      /\ \A i \in 1..Len(sent) : sent'[i] = sent[i]
  BY <1>1
<1>3. CASE c = clientfd
  <2>1. T = S \cup {Len(sent) + 1} /\ (Len(sent) + 1) \notin S
    BY <1>2, <1>3
  <2>2. Cardinality(T) = Cardinality(S) + 1
    BY <2>1, CopiesType, FS_AddElement
  <2>3. QED
    BY <1>3, <2>2 DEF Copies
<1>4. CASE c # clientfd
  <2>1. T = S
    BY <1>2, <1>4
  <2>2. QED
    BY <1>4, <2>1 DEF Copies
<1>5. QED
  BY <1>3, <1>4

\* In the loop's condition every earlier copy is paid for by a failed send, in
\* its body one failed send is still to be paid back.
CopyInv ==
  /\ CopiesBounded
  /\ mpc = "send" => Copies(clientfd) <= nfail[clientfd]
  /\ mpc = "resend" => Copies(clientfd) + 1 <= nfail[clientfd]

LEMMA NoCopies ==
  ASSUME TypeOK, NEW c \in Clients, \A i \in 1..Len(sent) : sent[i] # c
  PROVE  Copies(c) = 0
<1>1. {i \in 1..Len(sent) : sent[i] = c} = {}
  OBVIOUS
<1>2. QED
  BY <1>1, FS_EmptySet DEF Copies

LEMMA InitCopyInv == Init => CopyInv
<1> SUFFICES ASSUME Init PROVE CopyInv
  OBVIOUS
<1>1. \A c \in Clients : Copies(c) = 0
  BY InitTypeOK, NoCopies DEF Init
<1>2. QED
  BY <1>1 DEF Init, CopyInv, CopiesBounded

LEMMA NextCopyInv ==
  TypeOK /\ FreshInv /\ CopyInv /\ [Next]_vars => CopyInv'
<1> SUFFICES ASSUME TypeOK, FreshInv, CopyInv, [Next]_vars PROVE CopyInv'
  OBVIOUS
<1> USE DEF CopyInv, CopiesBounded
<1>a. /\ nfail \in [Clients -> Nat]
      /\ mpc \in {"send", "resend"} => clientfd \in Clients
      /\ \A c \in Clients : Copies(c) \in Nat
  <2>1. nfail \in [Clients -> Nat]
    BY HandOffAssumption DEF TypeOK
  <2>2. mpc \in {"send", "resend"} => clientfd \in Clients
    BY DEF TypeOK, Sending
  <2>3. \A c \in Clients : Copies(c) \in Nat
    BY CopiesType
  <2>4. QED
    BY <2>1, <2>2, <2>3
<1>b. UNCHANGED sent => \A c : Copies(c)' = Copies(c)
  BY DEF Copies
<1>1. CASE UNCHANGED <<sent, nfail>> /\ mpc' \notin {"send", "resend"}
  BY <1>1, <1>b
<1>2. CASE UNCHANGED <<mpc, clientfd, sent, nfail>>
  BY <1>2, <1>a, <1>b
<1>3. CASE Fork
  BY <1>3, <1>1 DEF Fork
<1>4. CASE Listen
  BY <1>4, <1>1 DEF Listen
<1>5. CASE Accept
  <2>1. /\ clientfd' = Head(backlog) /\ backlog # <<>> /\ backlog \in Seq(Clients)
        /\ mpc' = "send" /\ UNCHANGED <<sent, nfail>>
    BY <1>5 DEF Accept, TypeOK
  <2>2. clientfd' \in Clients /\ \A i \in 1..Len(sent) : sent[i] # clientfd'
    BY <2>1 DEF FreshInv
  <2>3. Copies(clientfd') = 0
    BY <2>2, NoCopies
  <2>4. Copies(clientfd)' = 0
    BY <2>1, <2>3 DEF Copies
  <2>5. QED
    BY <2>1, <2>2, <2>4, <1>a, <1>b
<1>6. CASE SendOk
  <2>1. \A c \in Clients :
           Copies(c)' = IF c = clientfd THEN Copies(c) + 1 ELSE Copies(c)
    BY <1>6, CopiesAppend DEF SendOk, Sending
  <2>2. QED
    BY <1>6, <1>a, <2>1 DEF SendOk
<1>7. CASE SendFail
  <2>1. /\ clientfd \in Clients /\ clientfd' = clientfd /\ mpc = "send" /\ mpc' = "resend"
        /\ \A c \in Clients : nfail'[c] = IF c = clientfd THEN nfail[c] + 1 ELSE nfail[c]
        /\ \A c \in Clients : Copies(c)' = Copies(c)
    BY <1>7, <1>a, <1>b DEF SendFail
  <2>2. Copies(clientfd)' = Copies(clientfd)
    BY <1>7, <1>b DEF SendFail, Copies
  <2>3. QED
    BY <1>a, <2>1, <2>2
<1>8. CASE Resend
  <2>1. CASE sent' = Append(sent, clientfd)
    <3>1. \A c \in Clients :
             Copies(c)' = IF c = clientfd THEN Copies(c) + 1 ELSE Copies(c)
      BY <1>8, <2>1, CopiesAppend DEF Resend, Sending
    <3>2. clientfd \in Clients /\ clientfd' = clientfd /\ nfail' = nfail
      BY <1>8, <1>a DEF Resend
    <3>3. Copies(clientfd)' = Copies(clientfd) + 1
      BY <2>1, <1>8, <3>2, CopiesAppend DEF Resend, Sending, Copies
    <3>4. QED
      BY <1>8, <1>a, <3>1, <3>2, <3>3 DEF Resend
  <2>2. CASE UNCHANGED sent
    <3>1. /\ clientfd \in Clients /\ clientfd' = clientfd /\ nfail' = nfail
          /\ mpc = "resend" /\ mpc' = "send"
      BY <1>8, <1>a DEF Resend
    <3>2. Copies(clientfd)' = Copies(clientfd)
      BY <3>1, <2>2 DEF Copies
    <3>3. QED
      BY <1>a, <1>b, <2>2, <3>1, <3>2
  <2>3. QED
    BY <1>8, <2>1, <2>2 DEF Resend
<1>9. QED
  BY <1>1, <1>2, <1>3, <1>4, <1>5, <1>6, <1>7, <1>8
  DEF Next, vars, EpollWait, AcceptFail, MasterSignal, Wake, Recv, WorkerDies,
      Connect

\* A connection is handed over at most once more than sends of it failed.
THEOREM CopiesPaidFor == Spec => []CopiesBounded
<1>1. CopyInv => CopiesBounded
  BY DEF CopyInv
<1>2. Spec => []CopyInv
  BY InitCopyInv, NextCopyInv, TypeCorrect, FreshInvariant, PTL DEF Spec
<1>3. QED
  BY <1>1, <1>2, PTL

-----------------------------------------------------------------------------
(* The refinement.                                                         *)

InHand  == IF Sending THEN clientfd ELSE NoClient
Mailbox == SubSeq(sent, head + 1, Len(sent))
Owner   == [w \in Workers |-> IF took[w] = 0 THEN NoClient ELSE sent[took[w]]]

LEMMA RefinesInit == Init => D!Init
<1> SUFFICES ASSUME Init PROVE D!Init
  OBVIOUS
<1>1. SubSeq(sent, head + 1, Len(sent)) = <<>>
  BY SubSeqEmpty DEF Init
<1>2. QED
  BY <1>1 DEF Init, D!Init, Sending, MasterUp

\* A send puts clientfd at the end of the mailbox and changes no worker's
\* connection.
LEMMA SendPosts ==
  ASSUME TypeOK, Sending, sent' = Append(sent, clientfd), UNCHANGED <<head, took>>
  PROVE  Mailbox' = Append(Mailbox, clientfd) /\ Owner' = Owner
<1>1. /\ sent \in Seq(Clients) /\ head \in 0..Len(sent) /\ clientfd \in Clients
      /\ took \in [Workers -> 0..Len(sent)] /\ sent' \in Seq(Clients)
      /\ Len(sent) \in Nat
  BY DEF TypeOK
<1>2. /\ Len(sent') = Len(sent) + 1
      /\ sent'[Len(sent) + 1] = clientfd
      /\ \A i \in 1..Len(sent) : sent'[i] = sent[i]
  BY <1>1
<1>3. Mailbox' = Append(Mailbox, clientfd)
  <2>1. /\ Mailbox \in Seq(Clients) /\ Len(Mailbox) = Len(sent) - head
        /\ \A i \in 1..(Len(sent) - head) : Mailbox[i] = sent[head + i]
    BY <1>1 DEF Mailbox
  <2>2. /\ Mailbox' \in Seq(Clients) /\ Len(Mailbox') = Len(sent) + 1 - head
        /\ \A i \in 1..(Len(sent) + 1 - head) : Mailbox'[i] = sent'[head + i]
    BY <1>1, <1>2 DEF Mailbox
  <2>3. /\ Append(Mailbox, clientfd) \in Seq(Clients)
        /\ Len(Append(Mailbox, clientfd)) = Len(sent) + 1 - head
        /\ \A i \in 1..(Len(sent) + 1 - head) :
             Append(Mailbox, clientfd)[i] = sent'[head + i]
    BY <1>1, <1>2, <2>1
  <2>4. QED
    BY <2>2, <2>3, SeqEqual
<1>4. Owner' = Owner
  BY <1>1, <1>2 DEF Owner
<1>5. QED
  BY <1>3, <1>4

\* A receive moves the head of the mailbox to the worker.
LEMMA RecvTakes ==
  ASSUME TypeOK, TakenInv, NEW w \in Workers, Recv(w)
  PROVE  D!Take(w)
<1>1. /\ sent \in Seq(Clients) /\ head \in 0..Len(sent) /\ Len(sent) \in Nat
      /\ took \in [Workers -> 0..Len(sent)]
  BY DEF TypeOK
<1>2. InFlight > 0
  BY DEF Recv, CanRecv, NoWriter, WorkerHoldsWriteEnd, Alive
<1>3. /\ head' = head + 1 /\ head + 1 \in 1..Len(sent)
      /\ took' = [took EXCEPT ![w] = head + 1] /\ took[w] = 0
      /\ UNCHANGED <<mpc, clientfd, accepted, sent>>
  BY <1>1, <1>2 DEF Recv, CanRecv, TakenInv, InFlight
<1>4. /\ Mailbox \in Seq(Clients) /\ Len(Mailbox) = Len(sent) - head
      /\ \A i \in 1..(Len(sent) - head) : Mailbox[i] = sent[head + i]
  BY <1>1 DEF Mailbox
<1>5. Mailbox # <<>> /\ Head(Mailbox) = sent[head + 1]
  BY <1>1, <1>3, <1>4
<1>6. Mailbox' = Tail(Mailbox)
  <2>1. /\ Mailbox' \in Seq(Clients) /\ Len(Mailbox') = Len(sent) - (head + 1)
        /\ \A i \in 1..(Len(sent) - (head + 1)) : Mailbox'[i] = sent[head + 1 + i]
    BY <1>1, <1>3 DEF Mailbox
  <2>2. /\ Tail(Mailbox) \in Seq(Clients) /\ Len(Tail(Mailbox)) = Len(sent) - (head + 1)
        /\ \A i \in 1..(Len(sent) - (head + 1)) : Tail(Mailbox)[i] = sent[head + 1 + i]
    BY <1>1, <1>3, <1>4, <1>5
  <2>3. QED
    BY <2>1, <2>2, SeqEqual
<1>7. Owner[w] = NoClient /\ Owner' = [Owner EXCEPT ![w] = Head(Mailbox)]
  <2>1. \A v \in Workers : took'[v] = IF v = w THEN head + 1 ELSE took[v]
    BY <1>1, <1>3
  <2>2. Owner[w] = NoClient
    BY <1>3 DEF Owner
  <2>3. \A v \in Workers : Owner'[v] = IF v = w THEN sent[head + 1] ELSE Owner[v]
    BY <1>1, <1>3, <2>1 DEF Owner
  <2>4. Owner' = [Owner EXCEPT ![w] = sent[head + 1]]
    BY <2>3 DEF Owner
  <2>5. QED
    BY <1>5, <2>2, <2>4
<1>8. UNCHANGED <<accepted, InHand, MasterUp>>
  BY <1>3 DEF InHand, Sending, MasterUp
<1>9. QED
  BY <1>5, <1>6, <1>7, <1>8 DEF D!Take, Mailbox, Owner, InHand

LEMMA RefinesNext ==
  TypeOK /\ TakenInv /\ FreshInv /\ [Next]_vars => [D!Next]_(D!vars)
<1> SUFFICES ASSUME TypeOK, TakenInv, FreshInv, [Next]_vars
             PROVE  [D!Next]_(D!vars)
  OBVIOUS
<1>1. CASE UNCHANGED <<accepted, sent, head, took>> /\ UNCHANGED InHand /\ UNCHANGED MasterUp
  \* A stutter of the mailbox.
  BY <1>1 DEF D!vars, InHand
<1>2. CASE UNCHANGED <<accepted, sent, head, took>> /\ MasterUp /\ mpc' \in {"exit", "sigexit"}
  <2>1. D!Stop
    BY <1>2 DEF D!Stop, Sending, MasterUp
  <2>2. QED
    BY <2>1 DEF D!Next
<1>3. CASE Fork
  BY <1>1, <1>2, <1>3 DEF Fork, InHand, Sending, MasterUp
<1>4. CASE Listen
  BY <1>1, <1>2, <1>4 DEF Listen, InHand, Sending, MasterUp
<1>5. CASE EpollWait
  BY <1>1, <1>2, <1>5 DEF EpollWait, InHand, Sending, MasterUp
<1>6. CASE Accept
  <2>1. /\ backlog \in Seq(Clients) /\ backlog # <<>>
        /\ Head(backlog) \in Clients /\ Head(backlog) = backlog[1]
        /\ 1 \in 1..Len(backlog)
    BY <1>6 DEF Accept, TypeOK
  <2>2. \A k \in 1..Len(accepted) : accepted[k] # Head(backlog)
    BY <2>1 DEF FreshInv
  <2>3. D!Accept(Head(backlog))
    BY <1>6, <2>2 DEF Accept, D!Accept, Sending, MasterUp
  <2>4. QED
    BY <2>1, <2>3 DEF D!Next
<1>7. CASE AcceptFail
  BY <1>2, <1>7 DEF AcceptFail, MasterUp
<1>8. CASE SendOk
  <2>1. Mailbox' = Append(Mailbox, clientfd) /\ Owner' = Owner
    BY <1>8, SendPosts DEF SendOk, Sending
  <2>2. clientfd \in Clients
    BY <1>8 DEF SendOk, Sending, TypeOK
  <2>3. D!PostAndRelease
    BY <1>8, <2>1, <2>2, HandOffAssumption
    DEF SendOk, D!PostAndRelease, Sending, MasterUp, Mailbox, Owner
  <2>4. QED
    BY <2>3 DEF D!Next
<1>9. CASE SendFail
  BY <1>1, <1>9 DEF SendFail, InHand, Sending, MasterUp
<1>10. CASE Resend
  <2>1. CASE sent' = Append(sent, clientfd)
    <3>1. Mailbox' = Append(Mailbox, clientfd) /\ Owner' = Owner
      BY <1>10, <2>1, SendPosts DEF Resend, Sending
    <3>2. clientfd \in Clients
      BY <1>10 DEF Resend, Sending, TypeOK
    <3>3. D!Post
      BY <1>10, <3>1, <3>2, HandOffAssumption
      DEF Resend, D!Post, Sending, MasterUp, Mailbox, Owner
    <3>4. QED
      BY <3>3 DEF D!Next
  <2>2. CASE UNCHANGED sent
    BY <1>1, <1>10, <2>2 DEF Resend, InHand, Sending, MasterUp
  <2>3. QED
    BY <1>10, <2>1, <2>2 DEF Resend
<1>11. CASE MasterSignal
  BY <1>2, <1>11 DEF MasterSignal
<1>12. ASSUME NEW w \in Workers, Wake(w) PROVE [D!Next]_(D!vars)
  BY <1>1, <1>12 DEF Wake, InHand, Sending, MasterUp
<1>13. ASSUME NEW w \in Workers, Recv(w) PROVE [D!Next]_(D!vars)
  BY <1>13, RecvTakes DEF D!Next
<1>14. ASSUME NEW w \in Workers, WorkerDies(w) PROVE [D!Next]_(D!vars)
  BY <1>1, <1>14 DEF WorkerDies, InHand, Sending, MasterUp
<1>15. ASSUME NEW c \in Clients, Connect(c) PROVE [D!Next]_(D!vars)
  BY <1>1, <1>15 DEF Connect, InHand, Sending, MasterUp
<1>16. CASE UNCHANGED vars
  BY <1>1, <1>16 DEF vars, InHand, Sending, MasterUp
<1>17. QED
  BY <1>3, <1>4, <1>5, <1>6, <1>7, <1>8, <1>9, <1>10, <1>11, <1>12, <1>13,
     <1>14, <1>15, <1>16 DEF Next

\* The accept loop, the retry loop and the workers' recvmsg implement the FIFO
\* mailbox, for any number of clients and workers.
THEOREM Refinement == Spec => ImplementsDispatch
<1>1. Spec => D!Spec
  BY RefinesInit, RefinesNext, TypeCorrect, TakenInvariant, FreshInvariant, PTL
  DEF Spec, D!Spec
<1>2. QED
  BY <1>1 DEF ImplementsDispatch

=============================================================================

--------------------------- MODULE HttpWorkerProof ---------------------------
(***************************************************************************)
(* Proofs about HttpWorker for every set of readers, every set of requests *)
(* and every size of the buffers.                                          *)
(***************************************************************************)
EXTENDS HttpWorker, SequenceTheorems, FiniteSetTheorems, FunctionTheorems,
        WellFoundedInduction, TLAPS

Codes == {200, 404, 501}
PartNames == {"status", "head", "page", "body"}

-----------------------------------------------------------------------------
(* Where the control of a worker may be.                                   *)

\* The places of a worker and what of its state they rest on: the connection is
\* open wherever the request code runs; before accept_request has returned there
\* is no status and no part of a response, and after it there is one; what is
\* copied is a file.
PlaceInv ==
  /\ wpc \in [Readers -> WorkerStates]
  /\ clientOpen \in [Readers -> BOOLEAN]
  /\ status \in [Readers -> {0} \cup Codes]
  /\ file \in [Readers -> {"none", "file", "failed"}]
  /\ part \in [Readers -> 0..3]
  /\ \A w \in Readers :
       /\ wpc[w] \in {"read", "parse", "stat", "open", "answer", "copy", "close"}
            => clientOpen[w]
       /\ wpc[w] \in {"read", "spin_eof", "parse", "stat"} => status[w] = 0
       /\ wpc[w] = "wait" /\ clientOpen[w] => status[w] = 0
       /\ wpc[w] \in {"open", "answer", "copy", "close"} => status[w] # 0
       /\ wpc[w] = "copy" => file[w] = "file"
       /\ wpc[w] \notin {"answer", "dead"} => part[w] = 0

LEMMA InitPlaceInv == Init => PlaceInv
  BY DEF Init, PlaceInv, WorkerStates

LEMMA PartsLength ==
  ASSUME NEW s \in Codes
  PROVE  Len(Parts(s)) \in 2..3
  BY DEF Parts, Codes

\* What a step of w does to the variables of PlaceInv, when it moves from one
\* place to another, leaves the others' alone.
LEMMA StepPlaceInv ==
  ASSUME PlaceInv, NEW w \in Readers, WorkerStep(w) \/ Killed(w)
  PROVE  PlaceInv'
<1> USE DEF PlaceInv, WorkerStates, Codes, Goto
<1>1. CASE Wait(w)
  BY <1>1 DEF Wait, output
<1>2. CASE WaitFails(w)
  BY <1>2 DEF WaitFails, output
<1>3. CASE ReadUnit(w)
  BY <1>3 DEF ReadUnit, TakeUnit, output
<1>4. CASE ReadEmptyLine(w)
  BY <1>4 DEF ReadEmptyLine, TakeUnit, output
<1>5. CASE ReadError(w)
  BY <1>5 DEF ReadError, output
<1>6. CASE ReadEof(w)
  BY <1>6 DEF ReadEof, output
<1>7. CASE Parse(w)
  BY <1>7 DEF Parse, Answer, output
<1>8. CASE Stat(w)
  BY <1>8 DEF Stat, Answer, output
<1>9. CASE Open(w)
  BY <1>9 DEF Open, output
<1>10. CASE SendPart(w)
  <2>1. wpc[w] = "answer" /\ part[w] < Len(Parts(status[w]))
    BY <1>10 DEF SendPart
  <2>2. status[w] \in Codes
    BY <2>1
  <2>3. part[w] + 1 \in 0..3
    <3>1. part[w] \in 0..3
      OBVIOUS
    <3>2. Len(Parts(status[w])) \in 2..3
      BY <2>2, PartsLength
    <3>3. ASSUME NEW p \in 0..3, NEW n \in 2..3, p < n PROVE p + 1 \in 0..3
      BY <3>3
    <3>4. QED
      BY <2>1, <3>1, <3>2, <3>3 DEF Parts
  <2>4. /\ part' = [part EXCEPT ![w] = @ + 1]
        /\ UNCHANGED <<wpc, clientOpen, status, file>>
    BY <1>10 DEF SendPart
  <2>5. part' \in [Readers -> 0..3]
    BY <2>3, <2>4
  <2>6. \A v \in Readers : v # w => part'[v] = part[v]
    BY <2>4
  <2>7. QED
    BY <2>1, <2>4, <2>5, <2>6
<1>11. CASE Answered(w)
  <2>1. /\ wpc[w] = "answer"
        /\ part' = [part EXCEPT ![w] = 0]
        /\ UNCHANGED <<status, file>>
    BY <1>11 DEF Answered
  <2>2. CASE Goto(w, "close") /\ UNCHANGED clientOpen
    BY <2>1, <2>2
  <2>3. CASE file[w] = "file" /\ Goto(w, "copy") /\ UNCHANGED clientOpen
    BY <2>1, <2>3
  <2>4. CASE Goto(w, "dead") /\ clientOpen' = [clientOpen EXCEPT ![w] = FALSE]
    BY <2>1, <2>4
  <2>5. QED
    BY <1>11, <2>2, <2>3, <2>4 DEF Answered
<1>12. CASE CopyFile(w)
  BY <1>12 DEF CopyFile
<1>13. CASE Close(w)
  BY <1>13 DEF Close, output
<1>14. CASE Killed(w)
  BY <1>14 DEF Killed, output
<1>15. QED
  BY <1>1, <1>2, <1>3, <1>4, <1>5, <1>6, <1>7, <1>8, <1>9, <1>10, <1>11,
     <1>12, <1>13, <1>14 DEF WorkerStep

LEMMA NextPlaceInv == PlaceInv /\ [Next]_vars => PlaceInv'
<1> SUFFICES ASSUME PlaceInv, [Next]_vars PROVE PlaceInv'
  OBVIOUS
<1>1. CASE UNCHANGED <<wpc, clientOpen, status, file, part>>
  BY <1>1 DEF PlaceInv
<1>2. CASE Environment
  BY <1>1, <1>2
  DEF Environment, Arrive, PeerCloses, PeerReads, MasterEnds, DocChanges, readers
<1>3. CASE UNCHANGED vars
  BY <1>1, <1>3 DEF vars, output
<1>4. QED
  BY <1>2, <1>3, StepPlaceInv DEF Next

LEMMA PlaceInvariant == Spec => []PlaceInv
  BY InitPlaceInv, NextPlaceInv, PTL DEF Spec

\* The request code never runs on a closed descriptor, also when the
\* registration of a connection outlives it.
THEOREM OpenDescriptor == Spec => []WorksOnOpenDescriptor
<1>1. PlaceInv => WorksOnOpenDescriptor
  BY DEF PlaceInv, WorksOnOpenDescriptor
<1>2. QED
  BY <1>1, PlaceInvariant, PTL

-----------------------------------------------------------------------------
(* One response for each reader.                                           *)

\* Why a reader answers once: whatever it sent belongs to the status it has
\* now, it has sent nothing before it has one, and while it answers all of it
\* are parts that come before the next one.
OutInv ==
  /\ out \in Seq(Readers \X Codes \X PartNames)
  /\ \A i \in 1..Len(out) :
       /\ status[out[i][1]] = out[i][2]
       /\ wpc[out[i][1]] # "open"
       /\ wpc[out[i][1]] = "answer" => PartNumber[out[i][3]] <= part[out[i][1]]
  /\ OneResponse

LEMMA InitOutInv == Init => OutInv
  BY DEF Init, OutInv, OneResponse

\* The k-th part of a response has number k.
LEMMA PartsInOrder ==
  ASSUME NEW s \in Codes, NEW k \in 1..Len(Parts(s))
  PROVE  Parts(s)[k] \in PartNames /\ PartNumber[Parts(s)[k]] = k
<1>1. CASE s = 200
  <2>1. Parts(s) = <<"status", "head">>
    BY <1>1 DEF Parts
  <2>2. k = 1 \/ k = 2
    BY <2>1
  <2>3. QED
    BY <2>1, <2>2 DEF PartNames, PartNumber
<1>2. CASE s # 200
  <2>1. Parts(s) = <<"status", "head", "page">>
    BY <1>2 DEF Parts
  <2>2. k = 1 \/ k = 2 \/ k = 3
    BY <2>1
  <2>3. QED
    BY <2>1, <2>2 DEF PartNames, PartNumber
<1>3. QED
  BY <1>1, <1>2

\* A step of w that sends nothing leaves OutInv alone if w keeps its status, or
\* had none, or is about to send the first part, unless it goes to a place that
\* speaks about what was sent.
LEMMA SilentStep ==
  ASSUME PlaceInv, OutInv, NEW w \in Readers, UNCHANGED out,
         \A v \in Readers \ {w} :
           wpc'[v] = wpc[v] /\ status'[v] = status[v] /\ part'[v] = part[v],
         status[w] # 0 /\ wpc[w] # "open" =>
           /\ status'[w] = status[w]
           /\ wpc'[w] \notin {"open", "answer"} \/ UNCHANGED <<wpc, part>>
  PROVE  OutInv'
<1>1. ASSUME NEW i \in 1..Len(out)
      PROVE  /\ out[i][1] \in Readers /\ out[i][2] \in Codes
             /\ status[out[i][1]] = out[i][2] /\ status[out[i][1]] # 0
             /\ wpc[out[i][1]] # "open"
             /\ wpc[out[i][1]] = "answer" => PartNumber[out[i][3]] <= part[out[i][1]]
  BY <1>1 DEF OutInv, Codes
<1>2. ASSUME NEW i \in 1..Len(out)
      PROVE  /\ status'[out[i][1]] = out[i][2]
             /\ wpc'[out[i][1]] # "open"
             /\ wpc'[out[i][1]] = "answer" => PartNumber[out[i][3]] <= part'[out[i][1]]
  BY <1>1
<1>3. QED
  BY <1>2, SMTT(30) DEF OutInv, OneResponse

LEMMA StepOutInv ==
  ASSUME PlaceInv, OutInv, NEW w \in Readers, WorkerStep(w) \/ Killed(w)
  PROVE  OutInv'
<1>a. /\ wpc \in [Readers -> WorkerStates] /\ status \in [Readers -> {0} \cup Codes]
      /\ part \in [Readers -> 0..3] /\ clientOpen \in [Readers -> BOOLEAN]
  BY DEF PlaceInv
<1>1. CASE SendPart(w)
  <2>1. CASE UNCHANGED out
    <3>1. /\ UNCHANGED <<wpc, status>>
          /\ part' = [part EXCEPT ![w] = @ + 1]
      BY <1>1 DEF SendPart
    <3>2. \A v \in Readers : part[v] \in 0..3 /\ part'[v] \in {part[v], part[v] + 1}
      BY <1>a, <3>1
    <3>3. ASSUME NEW i \in 1..Len(out)
          PROVE  /\ status[out[i][1]] = out[i][2]
                 /\ wpc[out[i][1]] # "open"
                 /\ wpc[out[i][1]] = "answer" => PartNumber[out[i][3]] <= part'[out[i][1]]
      <4>1. out[i][1] \in Readers /\ PartNumber[out[i][3]] \in 1..4
        BY DEF OutInv, PartNames, PartNumber
      <4>2. /\ part[out[i][1]] \in 0..3
            /\ part'[out[i][1]] \in {part[out[i][1]], part[out[i][1]] + 1}
        BY <3>2, <4>1
      <4>3. /\ status[out[i][1]] = out[i][2]
            /\ wpc[out[i][1]] # "open"
            /\ wpc[out[i][1]] = "answer" => PartNumber[out[i][3]] <= part[out[i][1]]
        BY DEF OutInv
      <4>4. QED
        BY <4>1, <4>2, <4>3
    <3>4. QED
      BY <2>1, <3>1, <3>3 DEF OutInv, OneResponse
  <2>2. CASE out' = Append(out, <<w, status[w], Parts(status[w])[part[w] + 1]>>)
    <3> DEFINE k == part[w] + 1
               p == Parts(status[w])[k]
    <3>1. /\ UNCHANGED <<wpc, status>>
          /\ part' = [part EXCEPT ![w] = k]
          /\ wpc[w] = "answer" /\ part[w] < Len(Parts(status[w]))
      BY <1>1 DEF SendPart
    <3>2. status[w] \in Codes
      BY <3>1, <1>a DEF PlaceInv
    <3>3. part[w] \in 0..3 /\ Len(Parts(status[w])) \in 2..3
      BY <1>a, <3>2, PartsLength
    <3>4. k \in 1..Len(Parts(status[w])) /\ part[w] < k
      BY <3>1, <3>3
    <3>5. p \in PartNames /\ PartNumber[p] = k
      BY <3>2, <3>4, PartsInOrder
    <3>6. /\ out' \in Seq(Readers \X Codes \X PartNames)
          /\ Len(out') = Len(out) + 1
          /\ out'[Len(out) + 1] = <<w, status[w], p>>
          /\ \A i \in 1..Len(out) : out'[i] = out[i]
      BY <2>2, <3>2, <3>5, AppendProperties DEF OutInv
    <3>7. part'[w] = k /\ \A v \in Readers \ {w} : part'[v] = part[v]
      BY <1>a, <3>1
    <3>8. ASSUME NEW i \in 1..Len(out)
          PROVE  /\ out[i][1] \in Readers /\ PartNumber[out[i][3]] \in 1..4
                 /\ status[out[i][1]] = out[i][2]
                 /\ wpc[out[i][1]] # "open"
                 /\ wpc[out[i][1]] = "answer" => PartNumber[out[i][3]] <= part[out[i][1]]
      BY DEF OutInv, PartNames, PartNumber
    <3>9. ASSUME NEW i \in 1..Len(out)
          PROVE  /\ wpc[out[i][1]] = "answer" => PartNumber[out[i][3]] <= part'[out[i][1]]
                 /\ out[i][1] = w => PartNumber[out[i][3]] < k /\ out[i][2] = status[w]
      BY <3>1, <3>3, <3>4, <3>7, <3>8
    <3> HIDE DEF k, p
    <3>10. Len(out) \in Nat
      BY DEF OutInv
    <3>11. ASSUME NEW i \in 1..Len(out')
           PROVE  /\ status[out'[i][1]] = out'[i][2]
                  /\ wpc[out'[i][1]] # "open"
                  /\ wpc[out'[i][1]] = "answer" => PartNumber[out'[i][3]] <= part'[out'[i][1]]
      <4>1. CASE i \in 1..Len(out)
        BY <4>1, <3>6, <3>8, <3>9
      <4>2. CASE i = Len(out) + 1
        <5>1. out'[i][1] = w /\ out'[i][2] = status[w] /\ out'[i][3] = p
          BY <4>2, <3>6
        <5>2. k \in Nat
          BY <3>3, <3>4
        <5>3. QED
          BY <5>1, <5>2, <3>1, <3>5, <3>7
      <4>3. QED
        BY <4>1, <4>2, <3>6, <3>10
    <3>12. OneResponse'
      <4> SUFFICES ASSUME NEW i \in 1..Len(out'), NEW j \in 1..Len(out'),
                          i < j, out'[i][1] = out'[j][1]
                   PROVE  /\ out'[i][2] = out'[j][2]
                          /\ PartNumber[out'[i][3]] < PartNumber[out'[j][3]]
        BY DEF OneResponse
      <4>1. i \in 1..Len(out) /\ out'[i] = out[i]
        BY <3>6, <3>10
      <4>2. CASE j \in 1..Len(out)
        BY <4>1, <4>2, <3>6, ZenonT(60) DEF OutInv, OneResponse
      <4>3. CASE j = Len(out) + 1
        <5>1. out'[j][1] = w /\ out'[j][2] = status[w] /\ out'[j][3] = p
          BY <4>3, <3>6
        <5>2. QED
          BY <4>1, <5>1, <3>5, <3>9
      <4>4. QED
        BY <4>2, <4>3, <3>6, <3>10
    <3>13. QED
      BY <3>1, <3>6, <3>11, <3>12 DEF OutInv
  <2>3. QED
    BY <1>1, <2>1, <2>2 DEF SendPart, Sent
<1>2. CASE Wait(w) \/ WaitFails(w) \/ Killed(w)
  <2>1. UNCHANGED <<out, status, part>>
    BY <1>2 DEF Wait, WaitFails, Killed, output
  <2>2. \A v \in Readers \ {w} : wpc'[v] = wpc[v]
    BY <1>2, <1>a DEF Wait, WaitFails, Killed, Goto
  <2>3. wpc'[w] \in {"read", "spin_fdopen", "dead"}
    BY <1>2, <1>a DEF Wait, WaitFails, Killed, Goto
  <2>4. QED
    BY <2>1, <2>2, <2>3, SilentStep
<1>3. CASE ReadUnit(w) \/ ReadEmptyLine(w) \/ ReadError(w) \/ ReadEof(w)
  <2>1. UNCHANGED <<out, status, part>> /\ wpc[w] = "read"
    BY <1>3 DEF ReadUnit, ReadEmptyLine, ReadError, ReadEof, TakeUnit, output
  <2>2. \A v \in Readers \ {w} : wpc'[v] = wpc[v]
    BY <1>3, <1>a DEF ReadUnit, ReadEmptyLine, ReadError, ReadEof, Goto
  <2>3. status[w] = 0
    BY <2>1 DEF PlaceInv
  <2>4. QED
    BY <2>1, <2>2, <2>3, SilentStep
<1>4. CASE Parse(w) \/ Stat(w) \/ Open(w)
  <2>1. UNCHANGED <<out, part>> /\ wpc[w] \in {"parse", "stat", "open"}
    BY <1>4 DEF Parse, Stat, Open, output
  <2>2. \A v \in Readers \ {w} : wpc'[v] = wpc[v] /\ status'[v] = status[v]
    BY <1>4, <1>a DEF Parse, Stat, Open, Goto, Answer
  <2>3. status[w] = 0 \/ wpc[w] = "open"
    BY <2>1 DEF PlaceInv
  <2>4. QED
    BY <2>1, <2>2, <2>3, SilentStep
<1>5. CASE Answered(w)
  <2>1. UNCHANGED <<out, status>> /\ part' = [part EXCEPT ![w] = 0]
    BY <1>5 DEF Answered
  <2>2. wpc' = [wpc EXCEPT ![w] = wpc'[w]] /\ wpc'[w] \in {"close", "copy", "dead"}
    BY <1>5, <1>a DEF Answered, Goto
  <2>3. \A v \in Readers \ {w} : wpc'[v] = wpc[v] /\ part'[v] = part[v]
    BY <2>1, <2>2, <1>a
  <2>4. QED
    BY <2>1, <2>2, <2>3, SilentStep
<1>6. CASE CopyFile(w)
  <2>1. wpc[w] = "copy" /\ HttpRcv(file[w]) = {"error"}
    BY <1>6 DEF CopyFile, PlaceInv, HttpRcv
  <2>2. UNCHANGED <<out, status, part>> /\ Goto(w, "spin_recv")
    BY <1>6, <2>1 DEF CopyFile
  <2>3. wpc'[w] = "spin_recv" /\ \A v \in Readers \ {w} : wpc'[v] = wpc[v]
    BY <2>2, <1>a DEF Goto
  <2>4. QED
    BY <2>2, <2>3, SilentStep
<1>7. CASE Close(w)
  <2>1. UNCHANGED <<out, status, part>> /\ Goto(w, "wait")
    BY <1>7 DEF Close, output
  <2>2. wpc'[w] = "wait" /\ \A v \in Readers \ {w} : wpc'[v] = wpc[v]
    BY <2>1, <1>a DEF Goto
  <2>3. QED
    BY <2>1, <2>2, SilentStep
<1>8. QED
  BY <1>1, <1>2, <1>3, <1>4, <1>5, <1>6, <1>7 DEF WorkerStep

LEMMA NextOutInv == PlaceInv /\ OutInv /\ [Next]_vars => OutInv'
<1> SUFFICES ASSUME PlaceInv, OutInv, [Next]_vars PROVE OutInv'
  OBVIOUS
<1>1. CASE UNCHANGED <<out, wpc, status, part>>
  BY <1>1 DEF OutInv, OneResponse
<1>2. CASE Environment
  BY <1>1, <1>2
  DEF Environment, Arrive, PeerCloses, PeerReads, MasterEnds, DocChanges, readers
<1>3. CASE UNCHANGED vars
  BY <1>1, <1>3 DEF vars, output
<1>4. QED
  BY <1>2, <1>3, StepOutInv DEF Next

\* Each worker that received the connection sends parts of one response, in order
\* and none twice.
THEOREM AnswersOnce == Spec => []OneResponse
<1>1. OutInv => OneResponse
  BY DEF OutInv
<1>2. QED
  BY <1>1, InitOutInv, NextOutInv, PlaceInvariant, PTL DEF Spec

-----------------------------------------------------------------------------
(* The connection and the readers' buffers.                                *)

SocketInv ==
  /\ request \in Requests
  /\ arrived \in 0..Len(request) /\ got \in 0..arrived
  /\ peer \in {"open", "fin", "reset", "gone"}
  /\ masterHolds \in BOOLEAN
  /\ room \in 0..SendRoom
  /\ doc \in Docs
  /\ discarded \in [Readers -> BOOLEAN]
  /\ epollOpen \in [Readers -> BOOLEAN]

LEMMA RequestLength == \A r \in Requests : Len(r) \in Nat
  BY HttpWorkerAssumption, LenProperties

LEMMA InitSocketInv == Init => SocketInv
  BY RequestLength, HttpWorkerAssumption DEF Init, SocketInv

LEMMA StepSocketInv ==
  ASSUME SocketInv, NEW w \in Readers, WorkerStep(w) \/ Killed(w)
  PROVE  SocketInv'
<1>a. Len(request) \in Nat
  BY RequestLength DEF SocketInv
<1>1. CASE Wait(w) \/ WaitFails(w) \/ Parse(w) \/ Stat(w) \/ Open(w) \/ ReadEof(w)
  BY <1>1
  DEF Wait, WaitFails, Parse, Stat, Open, ReadEof, sock, input, output, SocketInv
<1>2. CASE ReadUnit(w) \/ ReadEmptyLine(w)
  <2>1. got' = got + 1 /\ got < arrived
    BY <1>2 DEF ReadUnit, ReadEmptyLine, TakeUnit, Unread
  <2>2. UNCHANGED <<sock, discarded, room, doc, epollOpen>>
    BY <1>2 DEF ReadUnit, ReadEmptyLine, output
  <2>3. QED
    BY <1>a, <2>1, <2>2 DEF SocketInv, sock
<1>3. CASE ReadError(w)
  BY <1>3 DEF ReadError, SocketInv, output
<1>4. CASE SendPart(w) \/ CopyFile(w)
  <2>1. UNCHANGED <<sock, input, doc, epollOpen>>
    BY <1>4 DEF SendPart, CopyFile
  <2>2. room' = room \/ (room > 0 /\ room' = room - 1)
    BY <1>4 DEF SendPart, CopyFile, Sent
  <2>3. room' \in 0..SendRoom
    BY <2>2, HttpWorkerAssumption DEF SocketInv
  <2>4. QED
    BY <2>1, <2>3 DEF SocketInv, sock, input
<1>5. CASE Answered(w)
  BY <1>5 DEF Answered, SocketInv, sock, input
<1>6. CASE Close(w)
  <2>1. UNCHANGED <<sock, input, output, doc>>
    BY <1>6 DEF Close
  <2>2. epollOpen' \in [Readers -> BOOLEAN]
    BY <1>6 DEF Close, SocketInv
  <2>3. QED
    BY <2>1, <2>2 DEF SocketInv, sock, input, output
<1>7. CASE Killed(w)
  BY <1>7 DEF Killed, SocketInv, sock, input, output
<1>8. QED
  BY <1>1, <1>2, <1>3, <1>4, <1>5, <1>6, <1>7 DEF WorkerStep

LEMMA NextSocketInv == SocketInv /\ [Next]_vars => SocketInv'
<1> SUFFICES ASSUME SocketInv, [Next]_vars PROVE SocketInv'
  OBVIOUS
<1>a. Len(request) \in Nat
  BY RequestLength DEF SocketInv
<1>1. CASE Arrive
  BY <1>1, <1>a DEF Arrive, SocketInv, readers, input
<1>2. CASE PeerCloses \/ MasterEnds \/ DocChanges
  BY <1>2 DEF PeerCloses, MasterEnds, DocChanges, SocketInv, readers, input, sock
<1>3. CASE PeerReads
  BY <1>3, HttpWorkerAssumption DEF PeerReads, SocketInv, readers, input, sock
<1>4. CASE UNCHANGED vars
  BY <1>4 DEF SocketInv, vars, sock, input, output
<1>5. QED
  BY <1>1, <1>2, <1>3, <1>4, StepSocketInv DEF Next, Environment

LEMMA SocketInvariant == Spec => []SocketInv
  BY InitSocketInv, NextSocketInv, PTL DEF Spec

\* No byte of the request is in two buffers, or twice in one: whoever reads it
\* takes it from the others.
NoByteTwice ==
  \A v, w \in Readers : \A i \in 1..Len(line[v]), j \in 1..Len(line[w]) :
    line[v][i] = line[w][j] => v = w /\ i = j

\* Whatever is in a buffer has been read, and the next byte that is read is in
\* none of them.  While readline runs its buffer has room.
LineInv ==
  /\ line \in [Readers -> Seq(1..got)]
  /\ \A w \in Readers :
       /\ Len(line[w]) <= MaxLine
       /\ wpc[w] = "read" => Len(line[w]) < MaxLine
  /\ NoByteTwice

LEMMA InitLineInv == Init => LineInv
<1> SUFFICES ASSUME Init PROVE LineInv
  OBVIOUS
<1>1. /\ line \in [Readers -> Seq(1..got)]
      /\ \A w \in Readers : line[w] = <<>> /\ Len(line[w]) = 0
  BY DEF Init
<1>2. QED
  BY <1>1, HttpWorkerAssumption DEF LineInv, NoByteTwice

\* A step that empties the buffer of w or leaves it, and lets w go to readline
\* with an empty one only.
LEMMA NothingRead ==
  ASSUME LineInv, SocketInv, PlaceInv, NEW w \in Readers, UNCHANGED got,
         line' = line \/ line' = [line EXCEPT ![w] = <<>>],
         \A v \in Readers \ {w} : wpc'[v] = wpc[v],
         wpc'[w] = "read" => line'[w] = <<>> \/ UNCHANGED <<wpc, line>>
  PROVE  LineInv'
<1>a. line \in [Readers -> Seq(1..got)]
  BY DEF LineInv
<1>1. ASSUME NEW v \in Readers
      PROVE  line'[v] = line[v] \/ (v = w /\ line'[v] = <<>>)
  BY <1>a
<1>2. line' \in [Readers -> Seq(1..got)]
  <2>1. <<>> \in Seq(1..got)
    BY EmptySeq
  <2>2. QED
    BY <1>a, <2>1
<1>3. ASSUME NEW v \in Readers
      PROVE  /\ Len(line'[v]) <= MaxLine
             /\ wpc'[v] = "read" => Len(line'[v]) < MaxLine
  <2>1. CASE line'[v] = <<>>
    BY <2>1, HttpWorkerAssumption
  <2>2. CASE line'[v] = line[v] /\ line'[v] # <<>>
    BY <2>2 DEF LineInv
  <2>3. QED
    BY <1>1, <2>1, <2>2
<1>4. ASSUME NEW v \in Readers
      PROVE  /\ Len(line'[v]) <= Len(line[v])
             /\ \A i \in 1..Len(line'[v]) : i \in 1..Len(line[v]) /\ line'[v][i] = line[v][i]
  <2>1. line[v] \in Seq(1..got)
    BY <1>a
  <2>2. CASE line'[v] = line[v]
    BY <2>1, <2>2
  <2>3. CASE line'[v] = <<>>
    BY <2>1, <2>3
  <2>4. QED
    BY <1>1, <2>2, <2>3
<1>5. NoByteTwice'
  BY <1>4 DEF LineInv, NoByteTwice
<1>6. QED
  BY <1>2, <1>3, <1>5 DEF LineInv

\* The next unit is appended to the buffer of w.
LEMMA UnitRead ==
  ASSUME LineInv, SocketInv, PlaceInv, NEW w \in Readers, ReadUnit(w)
  PROVE  LineInv'
<1>a. /\ line \in [Readers -> Seq(1..got)] /\ wpc \in [Readers -> WorkerStates]
      /\ got \in Nat /\ MaxLine \in Nat
  BY HttpWorkerAssumption, RequestLength DEF LineInv, PlaceInv, SocketInv
<1>1. /\ wpc[w] = "read" /\ got' = got + 1
      /\ line' = [line EXCEPT ![w] = Append(@, got + 1)]
      /\ wpc' = [wpc EXCEPT ![w] = wpc'[w]]
      /\ wpc'[w] = "read" => Len(line'[w]) # MaxLine
  BY <1>a DEF ReadUnit, TakeUnit, Goto, BufferFull
<1>2. Seq(1..got) \subseteq Seq(1..(got + 1))
  BY <1>a, SeqMonotonic
<1>3. /\ line[w] \in Seq(1..(got + 1)) /\ line'[w] = Append(line[w], got + 1)
      /\ \A v \in Readers \ {w} : line'[v] = line[v] /\ wpc'[v] = wpc[v]
  BY <1>a, <1>1, <1>2
<1>4. /\ line'[w] \in Seq(1..(got + 1)) /\ Len(line'[w]) = Len(line[w]) + 1
      /\ line'[w][Len(line[w]) + 1] = got + 1
      /\ \A i \in 1..Len(line[w]) : line'[w][i] = line[w][i]
  BY <1>a, <1>3, AppendProperties
<1>5. line' \in [Readers -> Seq(1..got')]
  BY <1>a, <1>1, <1>2, <1>4
<1>6. ASSUME NEW v \in Readers
      PROVE  Len(line[v]) \in Nat /\ \A i \in 1..Len(line[v]) : line[v][i] \in 1..got
  <2>1. line[v] \in Seq(1..got)
    BY <1>a
  <2>2. QED
    BY <2>1, ElementOfSeq, LenProperties
<1>7. ASSUME NEW v \in Readers
      PROVE  /\ Len(line'[v]) <= MaxLine
             /\ wpc'[v] = "read" => Len(line'[v]) < MaxLine
  <2>1. CASE v = w
    <3>1. Len(line[w]) < MaxLine
      BY <1>1 DEF LineInv
    <3>2. QED
      BY <2>1, <3>1, <1>1, <1>4, <1>6, <1>a
  <2>2. CASE v # w
    BY <2>2, <1>3 DEF LineInv
  <2>3. QED
    BY <2>1, <2>2
\* A position of a new buffer is one of the old buffer or the last one of w.
<1>8. ASSUME NEW v \in Readers, NEW i \in 1..Len(line'[v])
      PROVE  \/ i \in 1..Len(line[v]) /\ line'[v][i] = line[v][i] /\ line[v][i] \in 1..got
             \/ v = w /\ i = Len(line[w]) + 1 /\ line'[v][i] = got + 1
  <2>1. CASE v = w
    <3>1. i \in 1..Len(line[w]) \/ i = Len(line[w]) + 1
      BY <2>1, <1>4, <1>6
    <3>2. QED
      BY <2>1, <3>1, <1>4, <1>6
  <2>2. CASE v # w
    BY <2>2, <1>3, <1>6
  <2>3. QED
    BY <2>1, <2>2
<1>9. NoByteTwice'
  <2> SUFFICES ASSUME NEW u \in Readers, NEW v \in Readers,
                      NEW i \in 1..Len(line'[u]), NEW j \in 1..Len(line'[v]),
                      line'[u][i] = line'[v][j]
               PROVE  u = v /\ i = j
    BY DEF NoByteTwice
  <2>1. got + 1 \notin 1..got
    BY <1>a
  <2>2. CASE i \in 1..Len(line[u]) /\ line'[u][i] = line[u][i] /\ line[u][i] \in 1..got
    <3>1. j \in 1..Len(line[v]) /\ line'[v][j] = line[v][j]
      BY <2>1, <2>2, <1>8
    <3>2. line[u][i] = line[v][j]
      BY <2>2, <3>1
    <3>3. NoByteTwice
      BY DEF LineInv
    <3>4. QED
      BY <2>2, <3>1, <3>2, <3>3 DEF NoByteTwice
  <2>3. CASE u = w /\ i = Len(line[w]) + 1 /\ line'[u][i] = got + 1
    BY <2>1, <2>3, <1>8
  <2>4. QED
    BY <2>2, <2>3, <1>8
<1>10. QED
  BY <1>5, <1>7, <1>9 DEF LineInv

\* A line feed that is dropped: the buffers stay as they are.
LEMMA EmptyLineRead ==
  ASSUME LineInv, SocketInv, NEW w \in Readers, ReadEmptyLine(w)
  PROVE  LineInv'
<1>1. got \in Nat /\ got' = got + 1 /\ UNCHANGED <<line, wpc>>
  BY RequestLength DEF ReadEmptyLine, TakeUnit, SocketInv
<1>2. Seq(1..got) \subseteq Seq(1..got')
  BY <1>1, SeqMonotonic
<1>3. QED
  BY <1>1, <1>2 DEF LineInv, NoByteTwice

LEMMA NextLineInv ==
  SocketInv /\ PlaceInv /\ LineInv /\ [Next]_vars => LineInv'
<1> SUFFICES ASSUME SocketInv, PlaceInv, LineInv, [Next]_vars PROVE LineInv'
  OBVIOUS
<1>a. wpc \in [Readers -> WorkerStates] /\ line \in [Readers -> Seq(1..got)]
  BY DEF PlaceInv, LineInv
<1>1. ASSUME NEW w \in Readers, ReadUnit(w) \/ ReadEmptyLine(w) PROVE LineInv'
  BY <1>1, UnitRead, EmptyLineRead
<1>2. ASSUME NEW w \in Readers, Wait(w) \/ ReadError(w) PROVE LineInv'
  <2>1. UNCHANGED got
    BY <1>2 DEF Wait, ReadError
  <2>2. line' = line \/ line' = [line EXCEPT ![w] = <<>>]
    BY <1>2 DEF Wait, ReadError
  <2>3. \A v \in Readers \ {w} : wpc'[v] = wpc[v]
    BY <1>2, <1>a DEF Wait, ReadError, Goto
  <2>4. wpc'[w] = "read" => line'[w] = <<>>
    BY <1>2, <1>a DEF Wait, ReadError, Goto
  <2>5. QED
    BY <2>1, <2>2, <2>3, <2>4, NothingRead
<1>3. ASSUME NEW w \in Readers,
             \/ WaitFails(w) \/ ReadEof(w) \/ Parse(w) \/ Stat(w) \/ Open(w)
             \/ SendPart(w) \/ Answered(w) \/ CopyFile(w) \/ Close(w) \/ Killed(w)
      PROVE  LineInv'
  <2>1. UNCHANGED <<got, line>>
    BY <1>3
    DEF WaitFails, ReadEof, Parse, Stat, Open, SendPart, Answered, CopyFile,
        Close, Killed, input
  <2>2. \/ UNCHANGED wpc
        \/ \E s \in WorkerStates \ {"read"} : Goto(w, s)
    <3>1. CASE WaitFails(w) \/ ReadEof(w) \/ Parse(w) \/ Close(w) \/ Killed(w)
      BY <3>1 DEF WaitFails, ReadEof, Parse, Answer, Close, Killed, WorkerStates
    <3>2. CASE Stat(w) \/ Open(w)
      BY <3>2 DEF Stat, Answer, Open, WorkerStates
    <3>3. CASE SendPart(w) \/ Answered(w) \/ CopyFile(w)
      BY <3>3 DEF SendPart, Answered, CopyFile, WorkerStates
    <3>4. QED
      BY <1>3, <3>1, <3>2, <3>3
  <2>3. CASE UNCHANGED wpc
    BY <2>1, <2>3, NothingRead
  <2>4. ASSUME NEW s \in WorkerStates \ {"read"}, Goto(w, s) PROVE LineInv'
    <3>1. wpc'[w] # "read" /\ \A v \in Readers \ {w} : wpc'[v] = wpc[v]
      BY <2>4, <1>a DEF Goto
    <3>2. QED
      BY <2>1, <3>1, NothingRead
  <2>5. QED
    BY <2>2, <2>3, <2>4
<1>4. CASE UNCHANGED <<line, got, wpc>>
  BY <1>4 DEF LineInv, NoByteTwice
<1>5. CASE Environment
  BY <1>4, <1>5
  DEF Environment, Arrive, PeerCloses, PeerReads, MasterEnds, DocChanges, readers, input
<1>6. CASE UNCHANGED vars
  BY <1>4, <1>6 DEF vars, input
<1>7. QED
  BY <1>1, <1>2, <1>3, <1>5, <1>6 DEF Next, WorkerStep

LEMMA LineInvariant == Spec => []LineInv
  BY InitLineInv, NextLineInv, SocketInvariant, PlaceInvariant, PTL DEF Spec


LEMMA OutInvariant == Spec => []OutInv
  BY InitOutInv, NextOutInv, PlaceInvariant, PTL DEF Spec

\* The state variables keep their types; no line is longer than readline's
\* buffer, so that its terminator goes one past the end at most.
THEOREM TypeCorrect == Spec => []TypeOK
<1>1. PlaceInv /\ SocketInv /\ LineInv /\ OutInv => TypeOK
  BY DEF PlaceInv, SocketInv, LineInv, OutInv, TypeOK, Codes, PartNames
<1>2. QED
  BY <1>1, PlaceInvariant, SocketInvariant, LineInvariant, OutInvariant, PTL

-----------------------------------------------------------------------------
(* The request's method.                                                   *)

LEMMA Least ==
  ASSUME NEW T, T \subseteq Nat, T # {}
  PROVE  \E m \in T : \A x \in T : m <= x
<1> DEFINE R == OpToRel(<, Nat)
<1>1. \A x, y \in Nat : x < y => <<x, y>> \in R
  BY Zenon DEF OpToRel
<1>2. IsWellFoundedOn(R, Nat)
  BY NatLessThanWellFounded
<1> HIDE DEF R
<1>3. PICK m \in T : \A x \in T : ~ (<<x, m>> \in R)
  BY <1>2, WFMin
<1>4. ASSUME NEW x \in T PROVE m <= x
  <2>1. x \in Nat /\ m \in Nat /\ ~(x < m)
    BY <1>1, <1>3
  <2>2. QED
    BY <2>1
<1>5. QED
  BY <1>4

\* From k on there is a first number in S, or none up to n.
LEMMA FirstIn ==
  ASSUME NEW n \in Nat, NEW k \in 1..(n + 1), NEW S
  PROVE  \E i \in k..(n + 1) : (i <= n => i \in S) /\ \A j \in k..(i - 1) : j \notin S
<1> DEFINE T == {i \in k..(n + 1) : i <= n => i \in S}
<1>1. n + 1 \in T
  OBVIOUS
<1>2. PICK m \in T : \A x \in T : m <= x
  <2>1. T \subseteq Nat /\ T # {}
    BY <1>1
  <2> HIDE DEF T
  <2>2. QED
    BY <2>1, Least
<1>3. ASSUME NEW j \in k..(m - 1) PROVE j \notin S
  <2>1. j \in k..(n + 1) /\ j < m /\ m \in Nat /\ j \in Nat
    BY <1>2
  <2>2. j \notin T
    BY <1>2, <2>1
  <2>3. QED
    BY <2>1, <2>2
<1>4. QED
  BY <1>2, <1>3

\* accept_request's first scan ends at the first blank or at the line's end.
LEMMA ScanIs ==
  ASSUME NEW l \in Seq(STRING)
  PROVE  /\ ScanTo(l, 1, TRUE) \in 1..(Len(l) + 1)
         /\ ScanTo(l, 1, TRUE) <= Len(l) => IsSpace(l[ScanTo(l, 1, TRUE)])
         /\ \A j \in 1..(ScanTo(l, 1, TRUE) - 1) : ~IsSpace(l[j])
<1> DEFINE D == 1..(Len(l) + 1)
           P(i) == /\ i <= Len(l) => IsSpace(l[i]) = TRUE
                   /\ \A j \in 1..(i - 1) : IsSpace(l[j]) # TRUE
           S == {i \in Nat : IsSpace(l[i])}
           b == ScanTo(l, 1, TRUE)
<1>1. Len(l) \in Nat /\ 1 \in D
  BY LenProperties
<1>2. \E i \in D : (i <= Len(l) => i \in S) /\ \A j \in 1..(i - 1) : j \notin S
  <2> HIDE DEF S
  <2>1. QED
    BY <1>1, FirstIn
<1>3. \E i \in D : P(i)
  <2>1. PICK i \in D : (i <= Len(l) => i \in S) /\ \A j \in 1..(i - 1) : j \notin S
    BY <1>2
  <2>2. i <= Len(l) => IsSpace(l[i])
    BY <2>1
  <2>3. ASSUME NEW j \in 1..(i - 1) PROVE ~IsSpace(l[j])
    <3>1. j \in Nat
      BY <1>1, <2>1
    <3>2. QED
      BY <2>1, <3>1
  <2>4. QED
    BY <2>2, <2>3
<1>4. b = CHOOSE i \in D : P(i)
  BY Zenon DEF ScanTo
<1>5. b \in D /\ P(b)
  <2> HIDE DEF b, P, D
  <2>1. QED
    BY <1>3, <1>4, Zenon
<1>6. QED
  BY <1>5

LEMMA PairIs ==
  ASSUME NEW S, NEW m \in Seq(S)
  PROVE  \A x, y : m = <<x, y>> <=> Len(m) = 2 /\ m[1] = x /\ m[2] = y
<1> SUFFICES ASSUME NEW x, NEW y PROVE m = <<x, y>> <=> Len(m) = 2 /\ m[1] = x /\ m[2] = y
  OBVIOUS
<1>1. ASSUME Len(m) = 2, m[1] = x, m[2] = y PROVE m = <<x, y>>
  <2>1. m \in [1..Len(m) -> S] /\ 1 \in 1..2 /\ 2 \in 1..2
    BY LenProperties
  <2>2. x \in S /\ y \in S
    BY <1>1, <2>1
  <2>3. <<x, y>> \in Seq(S) /\ Len(<<x, y>>) = 2
    BY <2>2
  <2>4. \A i \in 1..2 : i = 1 \/ i = 2
    OBVIOUS
  <2>5. \A i \in 1..2 : m[i] = <<x, y>>[i]
    BY <1>1, <2>4
  <2>6. QED
    BY <1>1, <2>3, <2>5, SeqEqual
<1>2. m = <<x, y>> => Len(m) = 2 /\ m[1] = x /\ m[2] = y
  OBVIOUS
<1>3. QED
  BY <1>1, <1>2

\* What comes out of it is a method that is known.
LEMMA MethodIs ==
  ASSUME NEW l \in Seq(STRING)
  PROVE  Method(l) \in Methods <=>
           Len(l) >= 2 /\ l[1] = "GE" /\ l[2] = "T" /\ (Len(l) > 2 => IsSpace(l[3]))
<1> DEFINE b == ScanTo(l, 1, TRUE)
           m == SubSeq(l, 1, b - 1)
<1>1. Len(l) \in Nat /\ l \in [1..Len(l) -> STRING]
  BY LenProperties
<1>2. /\ b \in 1..(Len(l) + 1)
      /\ b <= Len(l) => IsSpace(l[b])
      /\ \A j \in 1..(b - 1) : ~IsSpace(l[j])
  BY ScanIs
<1> HIDE DEF b
<1>3. m \in Seq(STRING) /\ Len(m) = b - 1 /\ \A i \in 1..(b - 1) : m[i] = l[i]
  <2>1. /\ 1 \in Int /\ b - 1 \in Int
        /\ \A i \in 1..(b - 1) : l[i] \in STRING
    BY <1>1, <1>2
  <2>2. /\ m \in Seq(STRING)
        /\ Len(m) = IF 1 <= b - 1 THEN (b - 1) - 1 + 1 ELSE 0
        /\ \A i \in 1..((b - 1) - 1 + 1) : m[i] = l[1 + i - 1]
    BY <2>1, SubSeqProperties
  <2> HIDE DEF m
  <2>3. QED
    BY <1>1, <1>2, <2>2
<1>4. Method(l) = m
  BY DEF Method, b
<1> HIDE DEF m
<1>5. m = <<"GE", "T">> <=> b = 3 /\ l[1] = "GE" /\ l[2] = "T"
  <2>1. m = <<"GE", "T">> <=> Len(m) = 2 /\ m[1] = "GE" /\ m[2] = "T"
    <3>1. m \in Seq(STRING)
      BY <1>3
    <3>2. QED
      BY <3>1, PairIs
  <2>2. b \in Int
    BY <1>1, <1>2
  <2>3. Len(m) = 2 <=> b = 3
    BY <1>3, <2>2
  <2>4. b = 3 => m[1] = l[1] /\ m[2] = l[2]
    BY <1>3
  <2>5. QED
    BY <2>1, <2>3, <2>4
<1>6. ASSUME b = 3 PROVE Len(l) >= 2 /\ (Len(l) > 2 => IsSpace(l[3]))
  <2>1. Len(l) >= 2 /\ (Len(l) > 2 => 3 <= Len(l))
    BY <1>1, <1>2, <1>6
  <2>2. QED
    BY <1>2, <1>6, <2>1
<1>7. ASSUME Len(l) >= 2, l[1] = "GE", l[2] = "T", Len(l) > 2 => IsSpace(l[3]) PROVE b = 3
  <2>1. ~IsSpace(l[1]) /\ ~IsSpace(l[2])
    BY <1>7 DEF IsSpace
  <2>2. b # 1 /\ b # 2
    BY <1>1, <1>2, <1>7, <2>1
  <2>3. ASSUME b > 3 PROVE FALSE
    <3>1. 3 \in 1..(b - 1) /\ Len(l) > 2
      BY <1>1, <1>2, <2>3
    <3>2. QED
      BY <1>2, <1>7, <3>1
  <2>4. b \in Nat
    BY <1>1, <1>2
  <2>5. QED
    BY <1>2, <2>2, <2>3, <2>4
<1>8. Method(l) \in Methods <=> m = <<"GE", "T">>
  BY <1>4 DEF Methods
<1>9. QED
  BY <1>5, <1>6, <1>7, <1>8

\* No step leads a worker back to its first wait, and none changes another's
\* place.
LEMMA OthersStay ==
  ASSUME SocketInv, PlaceInv, NEW v \in Readers, WorkerStep(v) \/ Killed(v)
  PROVE  /\ ~(wpc'[v] = "wait" /\ status'[v] = 0)
         /\ \A w \in Readers \ {v} :
              wpc'[w] = wpc[w] /\ status'[w] = status[w] /\ discarded'[w] = discarded[w]
         /\ discarded' = discarded \/ ReadError(v)
<1>a. /\ wpc \in [Readers -> WorkerStates] /\ status \in [Readers -> {0} \cup Codes]
      /\ wpc[v] = "close" => status[v] # 0
  BY DEF PlaceInv
<1>1. CASE Wait(v) \/ WaitFails(v) \/ Killed(v)
  BY <1>1, <1>a DEF Wait, WaitFails, Killed, Goto, output, input
<1>2. CASE ReadUnit(v) \/ ReadEmptyLine(v) \/ ReadEof(v)
  BY <1>2, <1>a DEF ReadUnit, ReadEmptyLine, ReadEof, TakeUnit, Goto, output, input
<1>3. CASE ReadError(v)
  <2>1. wpc[v] = "read" /\ UNCHANGED <<wpc, status>>
    BY <1>3 DEF ReadError
  <2>2. \A w \in Readers \ {v} : discarded'[w] = discarded[w]
    <3>1. discarded' = [discarded EXCEPT ![v] = @ \/ line[v] # <<>>]
      BY <1>3 DEF ReadError
    <3>2. discarded \in [Readers -> BOOLEAN]
      BY DEF SocketInv
    <3>3. QED
      BY <3>1, <3>2, Zenon
  <2>3. QED
    BY <1>3, <2>1, <2>2
<1>4. CASE Parse(v) \/ Stat(v) \/ Open(v)
  BY <1>4, <1>a DEF Parse, Stat, Open, Answer, Goto, output, input
<1>5. CASE SendPart(v)
  <2>1. wpc[v] = "answer" /\ UNCHANGED <<wpc, status, discarded>>
    BY <1>5 DEF SendPart, input
  <2>2. QED
    BY <2>1
<1>6. CASE Answered(v)
  <2>1. wpc' = [wpc EXCEPT ![v] = wpc'[v]] /\ wpc'[v] \in {"close", "copy", "dead"}
    BY <1>6, <1>a DEF Answered, Goto
  <2>2. UNCHANGED <<status, discarded>>
    BY <1>6 DEF Answered, input
  <2>3. \A w \in Readers \ {v} : wpc'[w] = wpc[w]
    BY <1>a, <2>1
  <2>4. QED
    BY <2>1, <2>2, <2>3
<1>7. CASE CopyFile(v)
  <2>1. UNCHANGED <<status, discarded>> /\ wpc[v] = "copy"
    BY <1>7 DEF CopyFile, input
  <2>2. UNCHANGED wpc \/ Goto(v, "spin_recv")
    BY <1>7 DEF CopyFile
  <2>3. QED
    BY <1>a, <2>1, <2>2 DEF Goto
<1>8. CASE Close(v)
  BY <1>8, <1>a DEF Close, Goto, output, input
<1>9. QED
  BY <1>1, <1>2, <1>3, <1>4, <1>5, <1>6, <1>7, <1>8 DEF WorkerStep

\* The buffer of a reader whose answer is a page, or that is about to look for
\* the page, still begins with the pieces of a method.
PageInv ==
  \A w \in Readers : wpc[w] = "stat" \/ status[w] \in {200, 404} =>
    Len(line[w]) >= 2 /\ request[line[w][1]] = "GE" /\ request[line[w][2]] = "T"

LEMMA StepPageInv ==
  ASSUME SocketInv, PlaceInv, LineInv, PageInv, NEW v \in Readers, NEW w \in Readers,
         WorkerStep(v) \/ Killed(v), wpc'[w] = "stat" \/ status'[w] \in {200, 404}
  PROVE  Len(line'[w]) >= 2 /\ request'[line'[w][1]] = "GE" /\ request'[line'[w][2]] = "T"
<1>a. /\ wpc \in [Readers -> WorkerStates] /\ status \in [Readers -> {0} \cup Codes]
      /\ line \in [Readers -> Seq(1..got)] /\ clientOpen \in [Readers -> BOOLEAN]
      /\ wpc[w] = "read" => status[w] = 0
      /\ wpc[w] = "wait" /\ clientOpen[w] => status[w] = 0
  BY DEF PlaceInv, LineInv
<1>1. UNCHANGED request
  BY DEF WorkerStep, Wait, WaitFails, ReadUnit, ReadEmptyLine, ReadError, ReadEof, Parse,
         Stat, Open, SendPart, Answered, CopyFile, Close, Killed, sock
<1>2. ASSUME line'[w] = line[w], wpc[w] = "stat" \/ status[w] \in {200, 404}
      PROVE  Len(line'[w]) >= 2 /\ request'[line'[w][1]] = "GE" /\ request'[line'[w][2]] = "T"
  BY <1>1, <1>2 DEF PageInv
<1>3. CASE w # v
  <2>1. wpc'[w] = wpc[w] /\ status'[w] = status[w]
    BY <1>3, OthersStay
  <2>2. \/ UNCHANGED line
        \/ \E l : line' = [line EXCEPT ![v] = l]
    <3>1. CASE Wait(v) \/ WaitFails(v) \/ ReadEmptyLine(v) \/ ReadEof(v)
      BY <3>1 DEF Wait, WaitFails, ReadEmptyLine, ReadEof, input
    <3>2. CASE ReadUnit(v)
      BY <3>2 DEF ReadUnit
    <3>3. CASE ReadError(v)
      BY <3>3 DEF ReadError
    <3>4. CASE Parse(v) \/ Stat(v) \/ Open(v) \/ SendPart(v) \/ Answered(v) \/ CopyFile(v)
                 \/ Close(v) \/ Killed(v)
      BY <3>4 DEF Parse, Stat, Open, SendPart, Answered, CopyFile, Close, Killed, input
    <3>5. QED
      BY <3>1, <3>2, <3>3, <3>4 DEF WorkerStep
  <2>3. line'[w] = line[w]
    BY <1>a, <1>3, <2>2
  <2>4. QED
    BY <1>2, <2>1, <2>3
<1>4. CASE w = v
  <2>1. CASE ReadUnit(w) \/ ReadEmptyLine(w) \/ ReadError(w)
    <3>1. wpc[w] = "read" /\ UNCHANGED status
      BY <2>1 DEF ReadUnit, ReadEmptyLine, ReadError, TakeUnit
    <3>2. wpc'[w] \in {"read", "parse"}
      BY <1>a, <2>1, <3>1 DEF ReadUnit, ReadEmptyLine, ReadError, Goto
    <3>3. QED
      BY <1>a, <3>1, <3>2
  <2>2. CASE Wait(w)
    <3>1. UNCHANGED status /\ wpc[w] = "wait" /\ wpc'[w] \in {"read", "spin_fdopen"}
      BY <1>a, <2>2 DEF Wait, Goto
    <3>2. ~clientOpen[w]
      BY <1>a, <3>1
    <3>3. UNCHANGED line
      BY <2>2, <3>2 DEF Wait
    <3>4. QED
      BY <1>2, <3>1, <3>3
  <2>3. CASE Parse(w)
    <3>1. UNCHANGED line /\ wpc[w] = "parse" /\ status[w] = 0
      BY <2>3 DEF Parse, PlaceInv, input
    <3>2. Method(Text(w)) \in Methods
      BY <1>a, <2>3, <3>1 DEF Parse, Answer, Goto
    <3>3. Text(w) \in Seq(STRING) /\ Len(Text(w)) = Len(line[w])
          /\ \A i \in 1..Len(line[w]) : Text(w)[i] = request[line[w][i]]
      <4>1. /\ request \in Seq(STRING) /\ request \in [1..Len(request) -> STRING]
            /\ Len(request) \in Nat /\ got \in Nat /\ got <= Len(request)
        BY HttpWorkerAssumption, LenProperties, RequestLength DEF SocketInv
      <4>2. Len(line[w]) \in Nat /\ line[w] \in [1..Len(line[w]) -> 1..got]
        <5>1. line[w] \in Seq(1..got)
          BY <1>a
        <5>2. \A S : \A s \in Seq(S) : Len(s) \in Nat /\ s \in [1..Len(s) -> S]
          BY LenProperties
        <5>3. QED
          BY <5>1, <5>2, Zenon
      <4>3. \A i \in 1..Len(line[w]) : request[line[w][i]] \in STRING
        BY <4>1, <4>2
      <4> DEFINE n == Len(line[w])
                 t == Text(w)
      <4>4. t = [i \in 1..n |-> request[line[w][i]]]
        BY DEF Text
      <4>5. \A i \in 1..n : t[i] = request[line[w][i]]
        BY <4>4
      <4> HIDE DEF n, t
      <4>6. t \in [1..n -> STRING] /\ n \in Nat
        BY <4>2, <4>3, <4>4 DEF n
      <4>7. t \in Seq(STRING) /\ Len(t) = n
        BY <4>6, SeqDef, LenProperties
      <4>8. QED
        BY <4>5, <4>7 DEF n, t
    <3>4. Len(line[w]) >= 2 /\ Text(w)[1] = "GE" /\ Text(w)[2] = "T"
      BY <3>2, <3>3, MethodIs
    <3>5. 1 \in 1..Len(line[w]) /\ 2 \in 1..Len(line[w])
      BY <1>a, <3>4, LenProperties
    <3>6. QED
      BY <1>1, <3>1, <3>3, <3>4, <3>5
  <2>4. CASE Stat(w)
    <3>1. UNCHANGED line /\ wpc[w] = "stat"
      BY <2>4 DEF Stat, input
    <3>2. QED
      BY <1>2, <3>1
  <2>5. CASE WaitFails(w) \/ ReadEof(w) \/ Open(w) \/ SendPart(w) \/ Answered(w)
               \/ CopyFile(w) \/ Close(w) \/ Killed(w)
    <3>1. UNCHANGED <<line, status>>
      BY <2>5 DEF WaitFails, ReadEof, Open, SendPart, Answered, CopyFile, Close, Killed, input
    <3>2. wpc'[w] # "stat" \/ wpc' = wpc
      BY <1>a, <2>5
      DEF WaitFails, ReadEof, Open, SendPart, Answered, CopyFile, Close, Killed, Goto
    <3>3. QED
      BY <1>2, <3>1, <3>2
  <2>6. QED
    BY <1>4, <2>1, <2>2, <2>3, <2>4, <2>5 DEF WorkerStep
<1>5. QED
  BY <1>3, <1>4

LEMMA PageInvariant == Spec => []PageInv
<1>1. Init => PageInv
  BY DEF Init, PageInv
<1>2. SocketInv /\ PlaceInv /\ LineInv /\ PageInv /\ [Next]_vars => PageInv'
  <2> SUFFICES ASSUME SocketInv, PlaceInv, LineInv, PageInv, [Next]_vars PROVE PageInv'
    OBVIOUS
  <2>1. CASE UNCHANGED <<line, request, wpc, status>>
    BY <2>1 DEF PageInv
  <2>2. CASE Environment \/ UNCHANGED vars
    BY <2>1, <2>2
    DEF Environment, Arrive, PeerCloses, PeerReads, MasterEnds, DocChanges, readers, input,
        vars, sock
  <2>3. ASSUME NEW v \in Readers, WorkerStep(v) \/ Killed(v) PROVE PageInv'
    BY <2>3, StepPageInv DEF PageInv
  <2>4. QED
    BY <2>2, <2>3 DEF Next
<1>3. QED
  BY <1>1, <1>2, SocketInvariant, PlaceInvariant, LineInvariant, PTL DEF Spec

\* However many workers share a connection, and whatever they make of the pieces
\* of its lines: those that answer with a page, or that there is none, are not
\* more than the client has sent of each piece of a method's name.
THEOREM PagesHaveMethods == Spec => []OnePagePerMethod
<1>1. SocketInv /\ LineInv /\ PageInv => OnePagePerMethod
  <2> SUFFICES ASSUME SocketInv, LineInv, PageInv, NEW u \in {"GE", "T"}
               PROVE  Cardinality(Pages) <= Cardinality({i \in 1..got : request[i] = u})
    BY DEF OnePagePerMethod
  <2> DEFINE n == IF u = "GE" THEN 1 ELSE 2
             T == {i \in 1..got : request[i] = u}
             f == [w \in Pages |-> line[w][n]]
  <2>1. got \in Nat /\ IsFiniteSet(T)
    <3>1. got \in Nat
      BY RequestLength DEF SocketInv
    <3>2. IsFiniteSet(1..got)
      BY <3>1, FS_Interval
    <3>3. QED
      BY <3>1, <3>2, FS_Subset
  <2>2. ASSUME NEW w \in Pages
        PROVE  n \in 1..Len(line[w]) /\ line[w][n] \in T
    <3>1. w \in Readers /\ line[w] \in Seq(1..got) /\ Len(line[w]) \in Nat
      BY LenProperties DEF Pages, LineInv
    <3>2. Len(line[w]) >= 2 /\ request[line[w][1]] = "GE" /\ request[line[w][2]] = "T"
      BY DEF Pages, PageInv
    <3>3. n \in 1..Len(line[w]) /\ request[line[w][n]] = u
      BY <3>1, <3>2
    <3> HIDE DEF n
    <3>4. line[w][n] \in 1..got
      BY <3>1, <3>3, ElementOfSeq
    <3>5. QED
      BY <3>3, <3>4
  <2>3. ASSUME NEW v \in Pages, NEW w \in Pages, line[v][n] = line[w][n]
        PROVE  v = w
    <3>1. n \in 1..Len(line[v]) /\ n \in 1..Len(line[w]) /\ v \in Readers /\ w \in Readers
      BY <2>2 DEF Pages
    <3> HIDE DEF n
    <3>2. QED
      BY <2>3, <3>1 DEF LineInv, NoByteTwice
  <2> HIDE DEF n, T
  <2>4. f \in [Pages -> T] /\ \A v, w \in Pages : f[v] = f[w] => v = w
    BY <2>2, <2>3
  <2> HIDE DEF f
  <2>5. f \in Injection(Pages, T)
    BY <2>4, Fun_IsInj
  <2>6. QED
    BY <2>1, <2>5, FS_Injection DEF T
<1>2. QED
  BY <1>1, SocketInvariant, LineInvariant, PageInvariant, PTL

LEMMA NamesMethodIs ==
  ASSUME NEW f \in Seq(STRING)
  PROVE  NamesMethod(f) <=>
           Len(f) >= 2 /\ f[1] = "GE" /\ f[2] = "T" /\ (Len(f) > 2 => f[3] = "_")
<1> DEFINE m == SubSeq(f, 1, 2)
<1>1. Len(f) \in Nat /\ f \in [1..Len(f) -> STRING]
  BY LenProperties
<1>2. Len(<<"GE", "T">>) = 2 /\ 2 + 1 = 3
  OBVIOUS
<1>3. NamesMethod(f) <=> 2 <= Len(f) /\ m = <<"GE", "T">> /\ (2 < Len(f) => f[3] = "_")
  BY <1>2 DEF NamesMethod, Methods
<1>4. ASSUME 2 <= Len(f)
      PROVE  m \in Seq(STRING) /\ Len(m) = 2 /\ m[1] = f[1] /\ m[2] = f[2]
  <2>1. \A i \in 1..2 : f[i] \in STRING
    BY <1>1, <1>4
  <2>2. /\ m \in Seq(STRING)
        /\ Len(m) = IF 1 <= 2 THEN 2 - 1 + 1 ELSE 0
        /\ \A i \in 1..(2 - 1 + 1) : m[i] = f[1 + i - 1]
    BY <2>1, SubSeqProperties
  <2> HIDE DEF m
  <2>3. QED
    BY <2>2
<1> HIDE DEF m
<1>5. ASSUME 2 <= Len(f) PROVE m = <<"GE", "T">> <=> f[1] = "GE" /\ f[2] = "T"
  BY <1>4, <1>5, PairIs
<1>6. QED
  BY <1>1, <1>3, <1>5

\* The first line of what has arrived, if a is where its first unit is.
LEMMA FirstLineIs ==
  ASSUME SocketInv, NEW a \in 1..arrived, request[a] # "N",
         \A j \in 1..(a - 1) : request[j] = "N"
  PROVE  \E e \in a..(arrived + 1) :
           /\ e <= arrived => request[e] = "N"
           /\ \A j \in a..(e - 1) : request[j] # "N"
           /\ FirstLine \in Seq(STRING) /\ Len(FirstLine) = e - a
           /\ \A i \in 1..(e - a) : FirstLine[i] = request[(a - 1) + i]
<1> DEFINE s == SubSeq(request, 1, arrived)
           A(i) == (i <= Len(s) => s[i] # "N") /\ \A j \in 1..(i - 1) : s[j] = "N"
           start == CHOOSE i \in 1..(Len(s) + 1) : A(i)
           Z(i) == (i <= Len(s) => s[i] = "N") /\ \A j \in start..(i - 1) : s[j] # "N"
           end == CHOOSE i \in start..(Len(s) + 1) : Z(i)
<1>1. /\ Len(request) \in Nat /\ request \in [1..Len(request) -> STRING]
      /\ arrived \in Nat /\ arrived <= Len(request) /\ a \in Nat /\ 1 <= a /\ a <= arrived
  BY HttpWorkerAssumption, LenProperties DEF SocketInv
<1>2. Len(s) = arrived /\ \A i \in 1..arrived : s[i] = request[i] /\ request[i] \in STRING
  <2>1. \A i \in 1..arrived : request[i] \in STRING
    BY <1>1
  <2>2. /\ Len(s) = IF 1 <= arrived THEN arrived - 1 + 1 ELSE 0
        /\ \A i \in 1..(arrived - 1 + 1) : s[i] = request[1 + i - 1]
    BY <1>1, <2>1, SubSeqProperties
  <2> HIDE DEF s
  <2>3. QED
    BY <1>1, <2>1, <2>2
<1>3. FirstLine = SubSeq(s, start, end - 1)
  BY Zenon DEF FirstLine
<1> HIDE DEF s
<1>4. start = a
  <2>1. a \in 1..(Len(s) + 1) /\ A(a)
    <3>1. \A j \in 1..(a - 1) : j \in 1..arrived
      BY <1>1
    <3>2. QED
      BY <1>1, <1>2, <3>1
  <2>2. ASSUME NEW i \in 1..(Len(s) + 1), A(i) PROVE i = a
    <3>1. CASE i < a
      <4>1. i <= Len(s) /\ i \in 1..(a - 1) /\ i \in 1..arrived
        BY <1>1, <1>2, <3>1
      <4>2. QED
        BY <1>2, <2>2, <4>1
    <3>2. CASE i > a
      <4>1. a \in 1..(i - 1)
        BY <1>1, <1>2, <3>2
      <4>2. QED
        BY <1>2, <2>2, <4>1
    <3>3. QED
      BY <1>1, <1>2, <3>1, <3>2
  <2> DEFINE D == 1..(Len(s) + 1)
  <2>3. a \in D /\ A(a) /\ \A i \in D : A(i) => i = a
    BY <2>1, <2>2
  <2>4. start = CHOOSE i \in D : A(i)
    OBVIOUS
  <2> HIDE DEF A, D, start
  <2>5. QED
    BY <2>3, <2>4, Zenon
<1> HIDE DEF start
<1>5. end \in a..(arrived + 1) /\ Z(end)
  <2> DEFINE D == start..(Len(s) + 1)
             N == {i \in Nat : s[i] = "N"}
  <2>1. \E i \in D : Z(i)
    <3>1. a \in 1..(arrived + 1) /\ arrived \in Nat
      BY <1>1
    <3>2. \E i \in a..(arrived + 1) : (i <= arrived => i \in N) /\ \A j \in a..(i - 1) : j \notin N
      <4> HIDE DEF N
      <4>1. QED
        BY <3>1, FirstIn
    <3>3. PICK i \in a..(arrived + 1) : (i <= arrived => i \in N) /\ \A j \in a..(i - 1) : j \notin N
      BY <3>2
    <3>4. i <= arrived => s[i] = "N"
      BY <3>3
    <3>5. ASSUME NEW j \in a..(i - 1) PROVE s[j] # "N"
      <4>1. j \in Nat
        BY <1>1, <3>3
      <4>2. QED
        BY <3>3, <4>1
    <3>6. i \in D /\ Z(i)
      BY <1>2, <1>4, <3>4, <3>5
    <3>7. QED
      BY <3>6
  <2>2. end = CHOOSE i \in D : Z(i)
    OBVIOUS
  <2>3. end \in D /\ Z(end)
    <3> HIDE DEF Z, D, end
    <3>1. QED
      BY <2>1, <2>2, Zenon
  <2>4. QED
    BY <1>2, <1>4, <2>3
<1>6. /\ end <= arrived => s[end] = "N"
      /\ \A j \in a..(end - 1) : s[j] # "N"
  BY <1>2, <1>4, <1>5
<1> HIDE DEF end, Z, A
<1>7. /\ FirstLine \in Seq(STRING) /\ Len(FirstLine) = end - a
      /\ \A i \in 1..(end - a) : FirstLine[i] = s[(a - 1) + i]
  <2>1. end \in Int /\ end - 1 \in Int /\ a \in Int /\ a <= end /\ end <= arrived + 1
    BY <1>1, <1>5
  <2>2. \A i \in a..(end - 1) : s[i] \in STRING
    <3>1. \A i \in a..(end - 1) : i \in 1..arrived
      BY <1>1, <2>1
    <3>2. QED
      BY <1>2, <3>1
  <2> DEFINE f == SubSeq(s, a, end - 1)
  <2>3. /\ f \in Seq(STRING)
        /\ Len(f) = IF a <= end - 1 THEN (end - 1) - a + 1 ELSE 0
        /\ \A i \in 1..((end - 1) - a + 1) : f[i] = s[a + i - 1]
    BY <2>1, <2>2, SubSeqProperties
  <2>4. FirstLine = f
    BY <1>3, <1>4
  <2> HIDE DEF f
  <2>5. (end - 1) - a + 1 = end - a
    BY <2>1
  <2>6. Len(f) = end - a
    BY <2>1, <2>3
  <2>7. ASSUME NEW i \in 1..(end - a) PROVE f[i] = s[(a - 1) + i]
    <3>1. a + i - 1 = (a - 1) + i
      BY <2>1
    <3>2. QED
      BY <2>3, <2>5, <3>1
  <2>8. QED
    BY <2>3, <2>4, <2>6, <2>7
<1>8. ASSUME NEW j \in a..(end - 1) PROVE request[j] # "N"
  <2>1. j \in 1..arrived
    BY <1>1, <1>5
  <2>2. QED
    BY <1>2, <1>6, <2>1
<1>9. end <= arrived => request[end] = "N"
  <2>1. end <= arrived => end \in 1..arrived
    BY <1>1, <1>5
  <2>2. QED
    BY <1>2, <1>6, <2>1
<1>10. ASSUME NEW i \in 1..(end - a) PROVE FirstLine[i] = request[(a - 1) + i]
  <2>1. (a - 1) + i \in 1..arrived
    BY <1>1, <1>5
  <2>2. QED
    BY <1>2, <1>7, <2>1
<1>11. QED
  BY <1>5, <1>7, <1>8, <1>9, <1>10

\* What readline has skipped before the line of w, and that the line is all it
\* has read since: only empty lines before it, no line feed but at its end.
Skipped(w) == got - Len(line[w])
InOnePiece(w) ==
  /\ Len(line[w]) <= got
  /\ \A i \in 1..Len(line[w]) : line[w][i] = Skipped(w) + i
  /\ \A j \in 1..Skipped(w) : request[j] = "N"
  /\ \A i \in 1..Len(line[w]) : i = 1 \/ i < Len(line[w]) => request[line[w][i]] # "N"

\* readline has returned it.
Over(w) ==
  /\ line[w] # <<>>
  /\ request[got] = "N" \/ Len(line[w]) = MaxLine \/ (got = arrived /\ peer # "open")

\* What is true of a worker that is alone with the connection and has given up
\* no line: the line and the status stay in step from readline on.
FirstLineFacts(w) ==
  /\ wpc[w] = "wait" /\ status[w] = 0 => got = 0
  /\ wpc[w] = "read" => InOnePiece(w) /\ (line[w] # <<>> => request[got] # "N")
  /\ wpc[w] \in {"parse", "stat"} \/ status[w] # 0 => InOnePiece(w) /\ Over(w)
  /\ wpc[w] = "stat" \/ status[w] \in {200, 404} => Method(Text(w)) \in Methods
  /\ status[w] = 501 => Method(Text(w)) \notin Methods

FirstLineInv ==
  \A w \in Readers : Alone(w) /\ ~discarded[w] => FirstLineFacts(w)

\* The method that is found in such a line is that of the first line that is
\* not empty: a buffer that ends within the line holds more than a method.
LEMMA MethodOfFirstLine ==
  ASSUME MaxLine > 2, SocketInv, LineInv, NEW w \in Readers, InOnePiece(w), Over(w)
  PROVE  Method(Text(w)) \in Methods <=> NamesMethod(FirstLine)
<1> DEFINE n == Len(line[w])
           k == Skipped(w)
           a == k + 1
           t == Text(w)
           f == FirstLine
<1>1. /\ line[w] \in Seq(1..got) /\ n \in Nat /\ line[w] \in [1..n -> 1..got]
      /\ n # 0 /\ got \in Nat /\ arrived \in Nat /\ got <= arrived /\ arrived <= Len(request)
      /\ Len(request) \in Nat /\ request \in [1..Len(request) -> STRING] /\ MaxLine \in Nat
  <2>1. line[w] \in Seq(1..got)
    BY DEF LineInv
  <2>2. n \in Nat /\ line[w] \in [1..n -> 1..got]
    BY <2>1, LenProperties
  <2>3. n # 0
    BY <2>1, EmptySeq DEF Over
  <2>4. request \in Seq(STRING)
    BY HttpWorkerAssumption DEF SocketInv
  <2>5. Len(request) \in Nat /\ request \in [1..Len(request) -> STRING]
    BY <2>4, LenProperties
  <2>6. got \in Nat /\ arrived \in Nat /\ got <= arrived /\ arrived <= Len(request)
    BY <2>5 DEF SocketInv
  <2>7. QED
    BY <2>1, <2>2, <2>3, <2>5, <2>6, HttpWorkerAssumption
<1>2. n <= got /\ k = got - n
  BY DEF InOnePiece, Skipped
<1>3. /\ \A i \in 1..n : line[w][i] = k + i
      /\ \A j \in 1..k : request[j] = "N"
      /\ \A i \in 1..n : i = 1 \/ i < n => request[line[w][i]] # "N"
  BY DEF InOnePiece
<1>4. request[got] = "N" \/ n = MaxLine \/ got = arrived
  BY DEF Over
<1>5. t \in Seq(STRING) /\ Len(t) = n /\ \A i \in 1..n : t[i] = request[k + i]
  <2>1. t = [i \in 1..n |-> request[line[w][i]]]
    BY DEF Text
  <2>2. \A i \in 1..n : request[line[w][i]] \in STRING
    <3>1. \A i \in 1..n : line[w][i] \in 1..Len(request)
      BY <1>1
    <3>2. QED
      BY <1>1, <3>1
  <2>3. \A i \in 1..n : t[i] = request[k + i]
    BY <1>3, <2>1
  <2> HIDE DEF n, k, t
  <2>4. t \in [1..n -> STRING]
    BY <2>1, <2>2
  <2>5. t \in Seq(STRING) /\ Len(t) = n
    BY <1>1, <2>4, SeqDef, LenProperties
  <2>6. QED
    BY <2>3, <2>5
<1> HIDE DEF n, k, t, f
<1>6. /\ k \in Nat /\ got = k + n /\ 1 <= n /\ a \in 1..arrived /\ a - 1 = k /\ n - 1 \in Nat
  BY <1>1, <1>2
<1>7. \A i \in 1..n : i = 1 \/ i < n => request[k + i] # "N"
  BY <1>3
<1>8. request[a] # "N" /\ \A j \in 1..(a - 1) : request[j] = "N"
  <2>1. 1 \in 1..n
    BY <1>6
  <2>2. QED
    BY <1>3, <1>6, <1>7, <2>1
<1>9. PICK e \in a..(arrived + 1) :
        /\ e <= arrived => request[e] = "N"
        /\ \A j \in a..(e - 1) : request[j] # "N"
        /\ f \in Seq(STRING) /\ Len(f) = e - a
        /\ \A i \in 1..(e - a) : f[i] = request[(a - 1) + i]
  BY <1>6, <1>8, FirstLineIs DEF f
<1>10. /\ e \in Nat /\ arrived \in Nat /\ k \in Nat
       /\ a <= e /\ e <= arrived + 1 /\ a = k + 1
  BY <1>1, <1>6, <1>9
<1> HIDE DEF a
<1>11. \A i \in 1..(e - a) : f[i] = request[k + i]
  BY <1>6, <1>9
<1>12. Method(t) \in Methods <=>
         n >= 2 /\ t[1] = "GE" /\ t[2] = "T" /\ (n > 2 => IsSpace(t[3]))
  BY <1>5, MethodIs
<1>13. NamesMethod(f) <=>
         e - a >= 2 /\ f[1] = "GE" /\ f[2] = "T" /\ (e - a > 2 => f[3] = "_")
  <2>1. f \in Seq(STRING) /\ Len(f) = e - a
    BY <1>9
  <2>2. QED
    BY <2>1, NamesMethodIs
<1>14. ASSUME n >= 2, t[1] = "GE", t[2] = "T", n > 2 => IsSpace(t[3])
       PROVE  e - a >= 2 /\ f[1] = "GE" /\ f[2] = "T" /\ (e - a > 2 => f[3] = "_")
  <2>1. 1 \in 1..n /\ 2 \in 1..n /\ k + 1 <= arrived /\ k + 2 <= arrived
    BY <1>1, <1>6, <1>14
  <2>2. request[k + 1] = "GE" /\ request[k + 2] = "T"
    BY <1>5, <1>14, <2>1
  <2>3. e # k + 1 /\ e # k + 2
    BY <1>9, <2>1, <2>2
  <2>4. e - a >= 2 /\ 1 \in 1..(e - a) /\ 2 \in 1..(e - a)
    BY <1>6, <1>10, <2>3
  <2>5. f[1] = "GE" /\ f[2] = "T"
    BY <1>11, <2>2, <2>4
  <2>6. ASSUME e - a > 2 PROVE f[3] = "_"
    <3>1. 3 \in 1..(e - a) /\ k + 3 \in a..(e - 1) /\ k + 3 <= arrived
      BY <1>10, <2>6
    <3>2. f[3] = request[k + 3] /\ request[k + 3] # "N"
      BY <1>9, <1>11, <3>1
    <3>3. CASE n > 2
      <4>1. 3 \in 1..n
        BY <1>1, <3>3
      <4>2. QED
        BY <1>5, <1>14, <3>2, <3>3, <4>1 DEF IsSpace
    <3>4. CASE ~(n > 2)
      <4>1. n = 2 /\ got = k + 2
        BY <1>1, <1>6, <1>14, <3>4
      <4>2. request[got] # "N" /\ n # MaxLine /\ got # arrived
        BY <1>6, <2>2, <3>1, <4>1
      <4>3. QED
        BY <1>4, <4>2
    <3>5. QED
      BY <3>3, <3>4
  <2>7. QED
    BY <2>4, <2>5, <2>6
<1>15. ASSUME e - a >= 2, f[1] = "GE", f[2] = "T", e - a > 2 => f[3] = "_"
       PROVE  n >= 2 /\ t[1] = "GE" /\ t[2] = "T" /\ (n > 2 => IsSpace(t[3]))
  <2>0. e - a >= 2
    BY <1>15
  <2>1. 1 \in 1..(e - a) /\ 2 \in 1..(e - a) /\ k + 2 <= arrived
    BY <1>10, <2>0
  <2>2. request[k + 1] = "GE" /\ request[k + 2] = "T"
    BY <1>11, <1>15, <2>1
  <2>3. n # 1
    <3> SUFFICES ASSUME n = 1 PROVE FALSE
      OBVIOUS
    <3>1. got = k + 1
      BY <1>6
    <3>2. request[got] # "N" /\ n # MaxLine /\ got # arrived
      BY <1>6, <2>1, <2>2, <3>1
    <3>3. QED
      BY <1>4, <3>2
  <2>4. n >= 2 /\ 1 \in 1..n /\ 2 \in 1..n
    BY <1>1, <1>6, <2>3
  <2>5. t[1] = "GE" /\ t[2] = "T"
    BY <1>5, <2>2, <2>4
  <2>6. ASSUME n > 2 PROVE IsSpace(t[3])
    <3>1. 3 \in 1..n /\ k + 3 <= arrived
      BY <1>1, <1>6, <2>6
    <3>2. t[3] = request[k + 3]
      BY <1>5, <3>1
    <3>3. CASE e - a > 2
      <4>1. 3 \in 1..(e - a)
        BY <1>6, <1>10, <3>3
      <4>2. QED
        BY <1>11, <1>15, <3>2, <3>3, <4>1 DEF IsSpace
    <3>4. CASE ~(e - a > 2)
      <4>1. e = k + 3
        BY <1>10, <2>0, <3>4
      <4>2. QED
        BY <1>9, <3>1, <3>2, <4>1 DEF IsSpace
    <3>5. QED
      BY <3>3, <3>4
  <2>7. QED
    BY <2>4, <2>5, <2>6
<1>16. Method(t) \in Methods <=> NamesMethod(f)
  BY <1>12, <1>13, <1>14, <1>15
<1>17. QED
  BY <1>16 DEF t, f

LEMMA InitFirstLineInv == Init => FirstLineInv
  BY DEF Init, FirstLineInv, FirstLineFacts

\* What the others do after their first wait, and the environment always, leaves
\* the line of w as it is.
LEMMA LineStays ==
  ASSUME NEW w \in Readers, UNCHANGED <<request, got, line>>,
         peer # "open" => peer' # "open" /\ arrived' = arrived
  PROVE  /\ InOnePiece(w)' <=> InOnePiece(w)
         /\ Over(w) => Over(w)'
         /\ Text(w)' = Text(w)
<1>1. InOnePiece(w)' <=> InOnePiece(w)
  BY DEF InOnePiece, Skipped
<1>2. Over(w) => Over(w)'
  BY DEF Over
<1>3. Text(w)' = Text(w)
  BY DEF Text
<1>4. QED
  BY <1>1, <1>2, <1>3

\* One more unit of the line is read.
LEMMA UnitInOnePiece ==
  ASSUME SocketInv, PlaceInv, LineInv, NEW w \in Readers, FirstLineFacts(w), ReadUnit(w)
  PROVE  FirstLineFacts(w)'
<1> DEFINE n == Len(line[w])
<1>1. /\ wpc[w] = "read" /\ status[w] = 0 /\ status' = status
      /\ got' = got + 1 /\ request' = request
      /\ line' = [line EXCEPT ![w] = Append(@, got + 1)]
      /\ request[got + 1] # "N" \/ line[w] # <<>>
      /\ wpc' = [wpc EXCEPT ![w] =
           IF request[got + 1] = "N" \/ Len(line'[w]) = MaxLine THEN "parse" ELSE "read"]
  BY DEF ReadUnit, TakeUnit, Goto, BufferFull, PlaceInv, sock
<1>2. /\ line \in [Readers -> Seq(1..got)] /\ line[w] \in Seq(1..got)
      /\ wpc \in [Readers -> WorkerStates]
      /\ n \in Nat /\ got \in Nat
  <2>1. line[w] \in Seq(1..got)
    BY DEF LineInv
  <2>2. QED
    BY <2>1, LenProperties, RequestLength DEF LineInv, PlaceInv, SocketInv
<1>3. InOnePiece(w) /\ (line[w] # <<>> => request[got] # "N")
  BY <1>1 DEF FirstLineFacts
<1>4. /\ n <= got
      /\ \A i \in 1..n : line[w][i] = Skipped(w) + i
      /\ \A j \in 1..Skipped(w) : request[j] = "N"
      /\ \A i \in 1..n : i = 1 \/ i < n => request[line[w][i]] # "N"
      /\ Skipped(w) = got - n
  BY <1>3 DEF InOnePiece, Skipped
<1>5. /\ Len(line'[w]) = n + 1 /\ line'[w][n + 1] = got + 1
      /\ \A i \in 1..n : line'[w][i] = line[w][i]
      /\ line'[w] # <<>>
  <2>1. line'[w] = Append(line[w], got + 1)
    BY <1>1, <1>2
  <2>2. Seq(1..got) \subseteq Seq(1..(got + 1)) /\ got + 1 \in 1..(got + 1)
    BY <1>2, SeqMonotonic
  <2>3. /\ Append(line[w], got + 1) \in Seq(1..(got + 1))
        /\ Len(Append(line[w], got + 1)) = n + 1
        /\ Append(line[w], got + 1)[n + 1] = got + 1
        /\ \A i \in 1..n : Append(line[w], got + 1)[i] = line[w][i]
    BY <1>2, <2>2, AppendProperties
  <2>4. Append(line[w], got + 1) # <<>>
    <3>1. Len(<<>>) = 0 /\ n + 1 # 0
      BY <1>2
    <3>2. QED
      BY <2>3, <3>1
  <2>5. QED
    BY <2>1, <2>3, <2>4
<1>6. Skipped(w)' = Skipped(w) /\ Skipped(w) \in Nat /\ got = Skipped(w) + n
  BY <1>1, <1>2, <1>4, <1>5 DEF Skipped
<1>7. InOnePiece(w)'
  <2>1. Len(line'[w]) <= got'
    BY <1>1, <1>2, <1>4, <1>5
  <2>2. ASSUME NEW i \in 1..(n + 1) PROVE line'[w][i] = Skipped(w) + i
    <3>1. CASE i = n + 1
      <4>1. got + 1 = Skipped(w) + i
        BY <1>2, <1>6, <3>1
      <4>2. QED
        BY <1>5, <3>1, <4>1
    <3>2. CASE i # n + 1
      <4>1. i \in 1..n
        BY <1>2, <3>2
      <4>2. QED
        BY <1>4, <1>5, <4>1
    <3>3. QED
      BY <3>1, <3>2
  <2>3. ASSUME NEW i \in 1..(n + 1), i = 1 \/ i < n + 1 PROVE request[line'[w][i]] # "N"
    <3>1. CASE i = n + 1
      <4>1. n = 0
        BY <1>2, <2>3, <3>1
      <4>2. line[w] = <<>>
        BY <1>2, <4>1, EmptySeq
      <4>3. QED
        BY <1>1, <1>5, <3>1, <4>2
    <3>2. CASE i # n + 1
      <4>1. i \in 1..n /\ (i = n \/ i < n) /\ n # 0
        BY <1>2, <3>2
      <4>2. line'[w][i] = line[w][i]
        BY <1>5, <4>1
      <4>3. CASE i < n
        BY <1>4, <4>1, <4>2, <4>3
      <4>4. CASE i = n
        <5>1. line[w][i] = got
          BY <1>4, <1>6, <4>1, <4>4
        <5>2. line[w] # <<>>
          BY <1>2, <4>1, EmptySeq
        <5>3. QED
          BY <1>3, <4>2, <5>1, <5>2
      <4>5. QED
        BY <4>1, <4>3, <4>4
    <3>3. QED
      BY <3>1, <3>2
  <2>4. QED
    BY <1>1, <1>4, <1>5, <1>6, <2>1, <2>2, <2>3 DEF InOnePiece
<1>8. CASE request[got + 1] = "N" \/ Len(line'[w]) = MaxLine
  <2>1. wpc'[w] = "parse"
    BY <1>1, <1>2, <1>8
  <2>2. Over(w)'
    BY <1>1, <1>5, <1>8 DEF Over
  <2>3. status'[w] = 0
    BY <1>1
  <2>4. QED
    BY <1>7, <2>1, <2>2, <2>3 DEF FirstLineFacts
<1>9. CASE ~(request[got + 1] = "N" \/ Len(line'[w]) = MaxLine)
  <2>1. wpc'[w] = "read"
    BY <1>1, <1>2, <1>9
  <2>2. request'[got'] # "N"
    BY <1>1, <1>9
  <2>3. status'[w] = 0
    BY <1>1
  <2>4. QED
    BY <1>7, <2>1, <2>2, <2>3 DEF FirstLineFacts
<1>10. QED
  BY <1>8, <1>9

\* A step after which w does not look at its line anew.
LEMMA FactsStay ==
  ASSUME NEW w \in Readers, FirstLineFacts(w), UNCHANGED <<request, got, line>>,
         peer # "open" => peer' # "open" /\ arrived' = arrived,
         status'[w] = status[w],
         wpc'[w] = wpc[w] \/ wpc'[w] \notin {"wait", "read", "parse", "stat"}
           \/ (wpc'[w] = "wait" /\ status[w] # 0)
  PROVE  FirstLineFacts(w)'
<1>1. /\ InOnePiece(w)' <=> InOnePiece(w)
      /\ Over(w) => Over(w)'
      /\ Text(w)' = Text(w)
  BY LineStays
<1>2. Method(Text(w))' = Method(Text(w))
  BY <1>1 DEF Method, ScanTo
<1>3. (FirstLineFacts(w))' <=>
         /\ wpc'[w] = "wait" /\ status'[w] = 0 => got' = 0
         /\ wpc'[w] = "read" => InOnePiece(w)' /\ (line'[w] # <<>> => request'[got'] # "N")
         /\ wpc'[w] \in {"parse", "stat"} \/ status'[w] # 0 => InOnePiece(w)' /\ Over(w)'
         /\ wpc'[w] = "stat" \/ status'[w] \in {200, 404} => Method(Text(w))' \in Methods
         /\ status'[w] = 501 => Method(Text(w))' \notin Methods
  BY DEF FirstLineFacts
<1>4. QED
  BY <1>1, <1>2, <1>3 DEF FirstLineFacts

LEMMA StepFirstLine ==
  ASSUME SocketInv, PlaceInv, LineInv, NEW w \in Readers, FirstLineFacts(w),
         WorkerStep(w) \/ Killed(w), ~discarded'[w]
  PROVE  FirstLineFacts(w)'
<1>a. /\ wpc \in [Readers -> WorkerStates] /\ status \in [Readers -> {0} \cup Codes]
      /\ line \in [Readers -> Seq(1..got)] /\ got \in Nat
      /\ wpc[w] \in {"read", "parse", "stat"} => status[w] = 0
      /\ wpc[w] \in {"open", "answer", "copy", "close"} => status[w] # 0
      /\ wpc[w] = "wait" /\ clientOpen[w] => status[w] = 0
  BY RequestLength DEF PlaceInv, LineInv, SocketInv
<1>1. CASE Wait(w)
  <2>1. UNCHANGED <<request, got, arrived, peer, status>> /\ wpc[w] = "wait"
    BY <1>1 DEF Wait, sock
  <2>2. CASE clientOpen[w]
    <3>1. wpc'[w] = "read" /\ line'[w] = <<>> /\ status'[w] = 0 /\ got' = 0
      BY <1>1, <1>a, <2>1, <2>2 DEF Wait, Goto, FirstLineFacts
    <3>2. InOnePiece(w)'
      BY <3>1 DEF InOnePiece, Skipped
    <3>3. QED
      BY <3>1, <3>2 DEF FirstLineFacts
  <2>3. CASE ~clientOpen[w]
    <3>1. wpc'[w] = "spin_fdopen" /\ UNCHANGED line
      BY <1>1, <1>a, <2>3 DEF Wait, Goto
    <3>2. QED
      BY <2>1, <3>1, FactsStay
  <2>4. QED
    BY <2>2, <2>3
<1>2. CASE WaitFails(w) \/ Killed(w)
  <2>1. UNCHANGED <<request, got, line, arrived, peer, status>> /\ wpc'[w] = "dead"
    BY <1>2, <1>a DEF WaitFails, Killed, Goto, sock, input
  <2>2. QED
    BY <2>1, FactsStay
<1>3. CASE ReadUnit(w)
  BY <1>3, UnitInOnePiece
<1>4. CASE ReadEmptyLine(w)
  <2>1. /\ wpc[w] = "read" /\ got' = got + 1 /\ request[got + 1] = "N" /\ line[w] = <<>>
        /\ UNCHANGED <<request, line, wpc, status>>
    BY <1>4 DEF ReadEmptyLine, TakeUnit, sock
  <2>2. InOnePiece(w)
    BY <2>1 DEF FirstLineFacts
  <2>3. Len(line[w]) = 0 /\ line[w] = <<>>
    BY <2>1
  <2>4. \A j \in 1..got : request[j] = "N"
    <3>1. Skipped(w) = got
      BY <1>a, <2>3 DEF Skipped
    <3>2. QED
      BY <2>2, <3>1 DEF InOnePiece
  <2>5. \A j \in 1..(got + 1) : request[j] = "N"
    <3>1. \A j \in 1..(got + 1) : j \in 1..got \/ j = got + 1
      BY <1>a
    <3>2. QED
      BY <2>1, <2>4, <3>1
  <2>6. Skipped(w)' = got + 1
    BY <1>a, <2>1, <2>3 DEF Skipped
  <2>7. InOnePiece(w)'
    BY <1>a, <2>1, <2>3, <2>5, <2>6 DEF InOnePiece
  <2>8. wpc'[w] = "read" /\ status'[w] = 0 /\ line'[w] = <<>>
    BY <1>a, <2>1
  <2>9. QED
    BY <2>7, <2>8 DEF FirstLineFacts
<1>5. CASE ReadError(w)
  <2>1. /\ wpc[w] = "read" /\ UNCHANGED <<request, got, arrived, wpc, status>>
        /\ discarded' = [discarded EXCEPT ![w] = @ \/ line[w] # <<>>]
        /\ line' = [line EXCEPT ![w] = <<>>]
        /\ (peer = "open" /\ peer' = "open") \/ (peer = "reset" /\ peer' = "gone")
    BY <1>5 DEF ReadError
  <2>2. line[w] = <<>>
    <3>1. discarded \in [Readers -> BOOLEAN]
      BY DEF SocketInv
    <3>2. discarded'[w] <=> (discarded[w] \/ line[w] # <<>>)
      BY <2>1, <3>1, Zenon
    <3>3. QED
      BY <3>2
  <2>3. line' = line
    BY <1>a, <2>1, <2>2
  <2>4. QED
    BY <2>1, <2>3, FactsStay
<1>6. CASE ReadEof(w)
  <2>1. /\ wpc[w] = "read" /\ ~(got < arrived) /\ peer \in {"fin", "gone"}
        /\ UNCHANGED <<request, got, line, arrived, peer, status>>
        /\ wpc' = [wpc EXCEPT ![w] = IF line[w] = <<>> THEN "spin_eof" ELSE "parse"]
    BY <1>6 DEF ReadEof, Unread, Goto, sock, input
  <2>2. got = arrived
    BY <2>1, RequestLength DEF SocketInv
  <2>3. CASE line[w] = <<>>
    <3>1. wpc'[w] = "spin_eof"
      BY <1>a, <2>1, <2>3
    <3>2. QED
      BY <2>1, <3>1, FactsStay
  <2>4. CASE line[w] # <<>>
    <3>1. wpc'[w] = "parse" /\ status'[w] = 0
      BY <1>a, <2>1, <2>4
    <3>2. InOnePiece(w)
      BY <2>1 DEF FirstLineFacts
    <3>3. Over(w)
      BY <2>1, <2>2, <2>4 DEF Over
    <3>4. InOnePiece(w)' /\ Over(w)'
      BY <2>1, <3>2, <3>3, LineStays
    <3>5. QED
      BY <3>1, <3>4 DEF FirstLineFacts
  <2>5. QED
    BY <2>3, <2>4
<1>7. CASE Parse(w) \/ Stat(w)
  <2>1. UNCHANGED <<request, got, line, arrived, peer>> /\ wpc[w] \in {"parse", "stat"}
    BY <1>7 DEF Parse, Stat, sock, input
  <2>2. InOnePiece(w) /\ Over(w)
    BY <2>1 DEF FirstLineFacts
  <2>3. InOnePiece(w)' /\ Over(w)' /\ Text(w)' = Text(w)
    BY <2>1, <2>2, LineStays
  <2>4. Method(Text(w))' = Method(Text(w))
    BY <2>3 DEF Method, ScanTo
  <2>5. \/ wpc'[w] = "stat" /\ status'[w] = 0 /\ Method(Text(w)) \in Methods
        \/ wpc'[w] = "answer" /\ status'[w] = 501 /\ Method(Text(w)) \notin Methods
        \/ wpc'[w] \in {"answer", "open"} /\ status'[w] \in {200, 404} /\ Method(Text(w)) \in Methods
    <3>1. CASE Parse(w)
      BY <1>a, <3>1 DEF Parse, Answer, Goto
    <3>2. CASE Stat(w)
      <4>1. Method(Text(w)) \in Methods
        BY <3>2 DEF Stat, FirstLineFacts
      <4>2. wpc'[w] \in {"answer", "open"} /\ status'[w] \in {200, 404}
        BY <1>a, <3>2 DEF Stat, Answer, Goto
      <4>3. QED
        BY <4>1, <4>2
    <3>3. QED
      BY <1>7, <3>1, <3>2
  <2>6. (FirstLineFacts(w))' <=>
           /\ wpc'[w] = "wait" /\ status'[w] = 0 => got' = 0
           /\ wpc'[w] = "read" => InOnePiece(w)' /\ (line'[w] # <<>> => request'[got'] # "N")
           /\ wpc'[w] \in {"parse", "stat"} \/ status'[w] # 0 => InOnePiece(w)' /\ Over(w)'
           /\ wpc'[w] = "stat" \/ status'[w] \in {200, 404} => Method(Text(w))' \in Methods
           /\ status'[w] = 501 => Method(Text(w))' \notin Methods
    BY DEF FirstLineFacts
  <2>7. QED
    BY <2>3, <2>4, <2>5, <2>6
<1>8. CASE Open(w) \/ SendPart(w) \/ Answered(w) \/ CopyFile(w) \/ Close(w)
  <2>1. /\ UNCHANGED <<request, got, line, arrived, peer, status>>
        /\ wpc[w] \in {"open", "answer", "copy", "close"}
    BY <1>8 DEF Open, SendPart, Answered, CopyFile, Close, sock, input
  <2>2. status[w] # 0
    BY <1>a, <2>1
  <2>3. wpc'[w] \in {wpc[w], "answer", "close", "copy", "dead", "spin_recv", "wait"}
    <3>1. CASE Open(w) \/ Close(w)
      BY <1>a, <3>1 DEF Open, Close, Goto
    <3>2. CASE SendPart(w)
      BY <3>2 DEF SendPart
    <3>3. CASE Answered(w)
      BY <1>a, <3>3 DEF Answered, Goto
    <3>4. CASE CopyFile(w)
      BY <1>a, <3>4 DEF CopyFile, Goto
    <3>5. QED
      BY <1>8, <3>1, <3>2, <3>3, <3>4
  <2>4. QED
    BY <2>1, <2>2, <2>3, FactsStay
<1>9. QED
  BY <1>1, <1>2, <1>3, <1>4, <1>5, <1>6, <1>7, <1>8 DEF WorkerStep

LEMMA NextFirstLineInv ==
  SocketInv /\ PlaceInv /\ LineInv /\ FirstLineInv /\ [Next]_vars => FirstLineInv'
<1> SUFFICES ASSUME SocketInv, PlaceInv, LineInv, FirstLineInv, [Next]_vars,
                    NEW w \in Readers, Alone(w)', ~discarded'[w]
             PROVE  FirstLineFacts(w)'
  BY DEF FirstLineInv
<1>1. ASSUME NEW v \in Readers, WorkerStep(v) \/ Killed(v) PROVE FirstLineFacts(w)'
  <2>1. v = w
    <3>1. v # w => wpc'[v] = "wait" /\ status'[v] = 0
      BY DEF Alone
    <3>2. QED
      BY <1>1, <3>1, OthersStay
  <2>2. Alone(w)
    BY <1>1, <2>1, OthersStay DEF Alone
  <2>3. ~discarded[w]
    <3>1. CASE discarded' = discarded
      BY <3>1
    <3>2. CASE ReadError(v)
      <4>1. discarded' = [discarded EXCEPT ![w] = @ \/ line[w] # <<>>]
        BY <2>1, <3>2 DEF ReadError
      <4>2. discarded \in [Readers -> BOOLEAN]
        BY DEF SocketInv
      <4>3. discarded'[w] <=> (discarded[w] \/ line[w] # <<>>)
        BY <4>1, <4>2, Zenon
      <4>4. QED
        BY <4>3
    <3>3. QED
      BY <1>1, <3>1, <3>2, OthersStay
  <2>4. FirstLineFacts(w)
    BY <2>2, <2>3 DEF FirstLineInv
  <2>5. QED
    BY <1>1, <2>1, <2>4, StepFirstLine
<1>2. CASE Environment \/ UNCHANGED vars
  <2>1. UNCHANGED <<request, got, line, discarded, wpc, status>>
    BY <1>2 DEF Environment, Arrive, PeerCloses, PeerReads, MasterEnds, DocChanges,
                readers, input, sock, vars
  <2>2. peer # "open" => peer' # "open" /\ arrived' = arrived
    BY <1>2 DEF Environment, Arrive, PeerCloses, PeerReads, MasterEnds, DocChanges,
                sock, vars
  <2>3. Alone(w) /\ ~discarded[w]
    BY <2>1 DEF Alone
  <2>4. FirstLineFacts(w)
    BY <2>3 DEF FirstLineInv
  <2>5. QED
    BY <2>1, <2>2, <2>4, FactsStay
<1>3. QED
  BY <1>1, <1>2 DEF Next

LEMMA MethodFacts ==
  ASSUME MaxLine > 2, SocketInv, PlaceInv, LineInv, FirstLineInv
  PROVE  MethodIsReadUnlessDiscarded
<1> SUFFICES ASSUME NEW w \in Readers, ~discarded[w], Alone(w), status[w] # 0
             PROVE  status[w] = 501 <=> ~NamesMethod(FirstLine)
  BY DEF MethodIsReadUnlessDiscarded, MethodIsRead
<1>1. FirstLineFacts(w)
  BY DEF FirstLineInv
<1>2. InOnePiece(w) /\ Over(w)
  BY <1>1 DEF FirstLineFacts
<1>3. status[w] \in {200, 404, 501}
  BY DEF PlaceInv, Codes
<1>4. status[w] = 501 <=> Method(Text(w)) \notin Methods
  BY <1>1, <1>3 DEF FirstLineFacts
<1>5. QED
  BY <1>2, <1>4, MethodOfFirstLine

\* A worker that is alone with its connection, and whose readline dropped no
\* beginning of a line, answers 501 exactly when the first line of the request
\* that is not empty names no known method, however the request is cut up and
\* whatever arrives behind that line; MaxLine > 2 says that BUFFSIZE holds a
\* method's name and the blank behind it.
THEOREM MethodOfRequest ==
  ASSUME MaxLine > 2
  PROVE  Spec => []MethodIsReadUnlessDiscarded
<1>1. SocketInv /\ PlaceInv /\ LineInv /\ FirstLineInv => MethodIsReadUnlessDiscarded
  BY MethodFacts
<1>2. Spec => []FirstLineInv
  BY InitFirstLineInv, NextFirstLineInv, SocketInvariant, PlaceInvariant, LineInvariant,
     PTL DEF Spec
<1>3. QED
  BY <1>1, <1>2, SocketInvariant, PlaceInvariant, LineInvariant, PTL

=============================================================================

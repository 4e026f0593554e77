----------------------------- MODULE HttpWorker -----------------------------
(***************************************************************************)
(* The workers that received one connection: do_epoll's endless loop       *)
(* (inc/http_io_base.h) and the request code it runs on the nonblocking    *)
(* socket (http_module/http_module.h).  HandOff gives a connection to one  *)
(* worker, or to several when a send of it failed (its CopiesBounded);     *)
(* these then share the socket, each with a descriptor of its own.         *)
(*                                                                         *)
(* Bytes come in units, each one a run of bytes that arrives whole: "_" is *)
(* blank space, "N" a line feed, anything else a piece of a word.  The     *)
(* request is fixed at the start; `arrived' units of it are in the socket  *)
(* or have been read, `got' have been read.  A response is a sequence of   *)
(* parts; a part that is cut short by a full send buffer counts as lost,   *)
(* like one that is not sent at all.                                       *)
(*                                                                         *)
(* Variants are definitions with a plausible mistake, as in HandOff.       *)
(***************************************************************************)
EXTENDS Naturals, Sequences, FiniteSets

CONSTANTS
  Readers,   \* the workers that received the connection
  Requests,  \* what the client may send: sequences of units
  MaxLine,   \* units that fit readline's buffer (BUFFSIZE)
  Docs,      \* what the file system may have at the document's path
  SendRoom   \* parts the socket's send buffer holds

ASSUME HttpWorkerAssumption ==
  /\ IsFiniteSet(Readers) /\ Readers # {}
  /\ Requests \subseteq Seq(STRING)
  /\ MaxLine \in Nat \ {0}
  /\ Docs \subseteq {"absent", "openable", "unopenable"} /\ Docs # {}
  /\ SendRoom \in Nat \ {0}

VARIABLES
  \* The connection, one for all readers.
  request,     \* what this client sends
  arrived,     \* units that have reached the socket
  got,         \* units that have been read from it
  peer,        \* the client's side of the connection
  masterHolds, \* the master still has the connection open
  room,        \* free space in the send buffer
  out,         \* history: parts sent, as <<reader, status, part>>
  doc,         \* what the file system has at the document's path
  \* Each reader's own.
  wpc,         \* where it is
  line,        \* what readline has put into its buffer, as positions in request
  discarded,   \* history: readline gave up a partial line
  clientOpen,  \* its descriptor of the connection is open
  epollOpen,   \* its epoll descriptor is open
  status,      \* the code accept_request returned, 0 before
  file,        \* what open() gave for the document
  part         \* parts of the response tried so far

sock == <<request, arrived, peer, masterHolds>>
input == <<got, line, discarded>>
output == <<part, room, out>>
vars == <<sock, input, output, wpc, clientOpen, epollOpen, doc, status, file>>

WorkerStates ==
  {"wait",         \* Epoll_wait
   "read",         \* readline, and the loop of accept_request around it
   "spin_eof",     \* that loop, when readline can only return -1
   "parse",        \* accept_request after readline
   "stat", "open", \* stat and open of the local path
   "answer",       \* response_ok, unknow, error_method
   "copy",         \* the loop that copies the file
   "spin_recv",    \* that loop, when http_rcv can only fail
   "close",        \* the end of http_module_handler_response
   "spin_fdopen",  \* do_read's loop on a descriptor that is closed
   "dead"}

IsSpace(u) == u \in {"_", "N"}

\* GET and POST; the unit "GE" stands for a proper prefix of a method's name.
Methods == {<<"GE", "T">>}
DocUrl == <<"U">>

-----------------------------------------------------------------------------
(* accept_request's two scans of the line.                                 *)

\* Index of the first unit from k on that is (not) blank, Len(s) + 1 if none.
ScanTo(s, k, blank) ==
  CHOOSE i \in k..(Len(s) + 1) :
    /\ i <= Len(s) => IsSpace(s[i]) = blank
    /\ \A j \in k..(i - 1) : IsSpace(s[j]) # blank

Method(l) == SubSeq(l, 1, ScanTo(l, 1, TRUE) - 1)

Url(l) ==
  LET b == ScanTo(l, ScanTo(l, 1, TRUE), FALSE)
  IN  SubSeq(l, b, ScanTo(l, b, TRUE) - 1)

\* What the buffer holds.
Text(w) == [i \in 1..Len(line[w]) |-> request[line[w][i]]]

\* The parts of a response: the status line, SERVER_TYPE and the header, and
\* for an error the page.
Parts(s) == IF s = 200 THEN <<"status", "head">> ELSE <<"status", "head", "page">>

\* http_rcv keeps the outcome of a comparison instead of recv's result: it
\* gives -1 (here "error") or 0, and on a file recv fails always.
HttpRcv(kind) == IF kind = "socket" THEN {"error", 0} ELSE {"error"}

Init ==
  /\ request \in Requests
  /\ arrived = 0 /\ got = 0
  /\ peer = "open"
  /\ masterHolds \in BOOLEAN
  /\ room = SendRoom /\ out = <<>>
  /\ doc \in Docs
  /\ wpc = [w \in Readers |-> "wait"]
  /\ line = [w \in Readers |-> <<>>]
  /\ discarded = [w \in Readers |-> FALSE]
  /\ clientOpen = [w \in Readers |-> TRUE]
  /\ epollOpen = [w \in Readers |-> TRUE]
  /\ status = [w \in Readers |-> 0]
  /\ file = [w \in Readers |-> "none"]
  /\ part = [w \in Readers |-> 0]

\* The control of w goes to a state.
Goto(w, state) == wpc' = [wpc EXCEPT ![w] = state]

-----------------------------------------------------------------------------
(* do_epoll and do_read.                                                   *)

Unread == got < arrived
\* Variant: the loop waits for the end of file only.
ReadableAtEof == peer # "open"

Readable == Unread \/ peer # "open"

\* The registration belongs to the open connection, not to the descriptor: it
\* lasts while any process holds the connection.
Registered == masterHolds \/ \E w \in Readers : clientOpen[w]

\* Epoll_wait exits when its own descriptor is gone.
WaitFails(w) ==
  /\ wpc[w] = "wait" /\ ~epollOpen[w]
  /\ Goto(w, "dead")
  /\ clientOpen' = [clientOpen EXCEPT ![w] = FALSE]
  /\ UNCHANGED <<sock, input, output, epollOpen, doc, status, file>>

\* Variant: do_read goes on when fdopen fails.
WaitAnyDescriptor(w) ==
  /\ wpc[w] = "wait" /\ epollOpen[w] /\ Registered /\ Readable
  /\ Goto(w, "read")
  /\ line' = [line EXCEPT ![w] = <<>>]
  /\ UNCHANGED <<sock, got, discarded, output, clientOpen, epollOpen, doc, status, file>>

\* Variant: do_read returns to Epoll_wait when fdopen fails.
WaitReturns(w) ==
  /\ wpc[w] = "wait" /\ epollOpen[w] /\ Registered /\ Readable
  /\ Goto(w, IF clientOpen[w] THEN "read" ELSE "wait")
  /\ line' = [line EXCEPT ![w] = <<>>]
  /\ UNCHANGED <<sock, got, discarded, output, clientOpen, epollOpen, doc, status, file>>

\* A readable connection leads into do_read, whose fdopen succeeds or is
\* retried for ever.
Wait(w) ==
  /\ wpc[w] = "wait" /\ epollOpen[w] /\ Registered /\ Readable
  /\ IF clientOpen[w]
     THEN Goto(w, "read") /\ line' = [line EXCEPT ![w] = <<>>]
     ELSE Goto(w, "spin_fdopen") /\ UNCHANGED line
  /\ UNCHANGED <<sock, got, discarded, output, clientOpen, epollOpen, doc, status, file>>

\* readline stops after maxlen characters.
BufferFull(n) == n = MaxLine

\* readline's read(fd, &c, 1): the next unit of the request, for whichever
\* reader comes first.
TakeUnit(w) == wpc[w] = "read" /\ Unread /\ got' = got + 1

\* Variant: an empty line is returned like any other.
ReadUnitEmptyLine(w) ==
  /\ TakeUnit(w)
  /\ line' = [line EXCEPT ![w] = Append(@, got + 1)]
  /\ Goto(w, IF request[got + 1] = "N" \/ BufferFull(Len(line'[w])) THEN "parse" ELSE "read")
  /\ UNCHANGED <<sock, discarded, output, clientOpen, epollOpen, doc, status, file>>

\* A line feed ends the line, and so does the end of the buffer.
ReadUnit(w) ==
  /\ TakeUnit(w)
  /\ request[got + 1] # "N" \/ line[w] # <<>>
  /\ line' = [line EXCEPT ![w] = Append(@, got + 1)]
  /\ Goto(w, IF request[got + 1] = "N" \/ BufferFull(Len(line'[w])) THEN "parse" ELSE "read")
  /\ UNCHANGED <<sock, discarded, output, clientOpen, epollOpen, doc, status, file>>

\* For a line feed at the head of the buffer readline returns i-1 = -1 and is
\* called again.
ReadEmptyLine(w) ==
  /\ TakeUnit(w)
  /\ request[got + 1] = "N" /\ line[w] = <<>>
  /\ UNCHANGED <<sock, line, discarded, output, wpc, clientOpen, epollOpen, doc,
                 status, file>>

\* Nothing there (EAGAIN) or a reset, reported once: readline returns -1 and
\* starts again at the beginning of its buffer.
ReadError(w) ==
  /\ wpc[w] = "read" /\ ~Unread
  /\ \/ peer = "open" /\ line[w] # <<>> /\ UNCHANGED peer
     \/ peer = "reset" /\ peer' = "gone"
  /\ line' = [line EXCEPT ![w] = <<>>]
  /\ discarded' = [discarded EXCEPT ![w] = @ \/ line[w] # <<>>]
  /\ UNCHANGED <<request, arrived, masterHolds, got, output, wpc, clientOpen,
                 epollOpen, doc, status, file>>

\* End of file ends the line, but an empty line gives -1 for ever.
ReadEof(w) ==
  /\ wpc[w] = "read" /\ ~Unread
  /\ peer \in {"fin", "gone"}
  /\ Goto(w, IF line[w] = <<>> THEN "spin_eof" ELSE "parse")
  /\ UNCHANGED <<sock, input, output, clientOpen, epollOpen, doc, status, file>>

-----------------------------------------------------------------------------
(* accept_request after readline, http_module_handler_response.            *)

\* accept_request returns a code.
Answer(w, code) ==
  /\ status' = [status EXCEPT ![w] = code]
  /\ Goto(w, IF code = 200 THEN "open" ELSE "answer")

\* Variant: the comparison stops where the word stops.
ParsePrefix(w) ==
  /\ wpc[w] = "parse"
  /\ IF \E m \in Methods, n \in 0..2 : Method(Text(w)) = SubSeq(m, 1, n)
     THEN Goto(w, "stat") /\ UNCHANGED status
     ELSE Answer(w, 501)
  /\ UNCHANGED <<sock, input, output, clientOpen, epollOpen, doc, file>>

Parse(w) ==
  /\ wpc[w] = "parse"
  /\ IF Method(Text(w)) \in Methods
     THEN Goto(w, "stat") /\ UNCHANGED status
     ELSE Answer(w, 501)
  /\ UNCHANGED <<sock, input, output, clientOpen, epollOpen, doc, file>>

\* Another path than the document's, or one read from the uninitialized rest
\* of the buffer, may name anything.
Stat(w) ==
  /\ wpc[w] = "stat"
  /\ \/ (doc = "absent" \/ Url(Text(w)) # DocUrl) /\ Answer(w, 404)
     \/ (doc # "absent" \/ Url(Text(w)) # DocUrl) /\ Answer(w, 200)
  /\ UNCHANGED <<sock, input, output, clientOpen, epollOpen, doc, file>>

Open(w) ==
  /\ wpc[w] = "open"
  /\ \/ /\ doc = "openable" \/ Url(Text(w)) # DocUrl
        /\ file' = [file EXCEPT ![w] = "file"]
     \/ /\ doc # "openable" \/ Url(Text(w)) # DocUrl
        /\ file' = [file EXCEPT ![w] = "failed"]
  /\ Goto(w, "answer")
  /\ UNCHANGED <<sock, input, output, clientOpen, epollOpen, doc, status>>

\* Data goes out if it finds room and a peer.
Sent(w, p) ==
  /\ out' = Append(out, <<w, status[w], p>>)
  /\ room' = room - 1

\* One http_send, or send, of a response.  Its result is ignored: a part that
\* finds the buffer full or the connection reset is skipped.
SendPart(w) ==
  /\ wpc[w] = "answer" /\ part[w] < Len(Parts(status[w]))
  /\ part' = [part EXCEPT ![w] = @ + 1]
  /\ IF room > 0 /\ peer \in {"open", "fin"}
     THEN Sent(w, Parts(status[w])[part[w] + 1])
     ELSE UNCHANGED <<out, room>>
  /\ UNCHANGED <<sock, input, wpc, clientOpen, epollOpen, doc, status, file>>

\* After the last part: fdopen(-1) gives NULL and feof(NULL) ends the worker;
\* a file is copied; an error response is over.
Answered(w) ==
  /\ wpc[w] = "answer" /\ part[w] = Len(Parts(status[w]))
  /\ \/ status[w] # 200 /\ Goto(w, "close") /\ UNCHANGED clientOpen
     \/ status[w] = 200 /\ file[w] = "file" /\ Goto(w, "copy") /\ UNCHANGED clientOpen
     \/ /\ status[w] = 200 /\ file[w] # "file" /\ Goto(w, "dead")
        /\ clientOpen' = [clientOpen EXCEPT ![w] = FALSE]
  /\ part' = [part EXCEPT ![w] = 0]
  /\ UNCHANGED <<sock, input, room, out, epollOpen, doc, status, file>>

\* The copying loop: http_rcv is called again and again while it fails, which
\* changes nothing; otherwise the whole buffer is sent.
CopyFile(w) ==
  /\ wpc[w] = "copy"
  /\ \E r \in HttpRcv(file[w]) :
       IF r = "error"
       THEN Goto(w, "spin_recv") /\ UNCHANGED <<room, out>>
       ELSE /\ room > 0 /\ peer \in {"open", "fin"}
            /\ Sent(w, "body")
            /\ UNCHANGED wpc
  /\ UNCHANGED <<sock, input, part, clientOpen, epollOpen, doc, status, file>>

\* Variant: the connection stays open for another request.
CloseKeepsClient(w) ==
  /\ wpc[w] = "close"
  /\ Goto(w, "wait")
  /\ UNCHANGED <<sock, input, output, clientOpen, epollOpen, doc, status, file>>

\* close(fd) with fd never assigned closes whatever the stack slot names: the
\* epoll descriptor, the connection, or one the worker does not miss.
Close(w) ==
  /\ wpc[w] = "close"
  /\ \E victim \in {"other", "epoll", "client"} :
       epollOpen' = [epollOpen EXCEPT ![w] = @ /\ victim # "epoll"]
  /\ clientOpen' = [clientOpen EXCEPT ![w] = FALSE]
  /\ Goto(w, "wait")
  /\ UNCHANGED <<sock, input, output, doc, status, file>>

\* A worker is killed.
Killed(w) ==
  /\ wpc[w] # "dead"
  /\ Goto(w, "dead")
  /\ clientOpen' = [clientOpen EXCEPT ![w] = FALSE]
  /\ UNCHANGED <<sock, input, output, epollOpen, doc, status, file>>

-----------------------------------------------------------------------------
(* The client, the master, the file system.                                *)

readers == <<input, wpc, clientOpen, epollOpen, status, file, part, out>>

\* A segment of one or more units.
Arrive ==
  /\ peer = "open"
  /\ arrived' \in (arrived + 1)..Len(request)
  /\ UNCHANGED <<request, peer, masterHolds, readers, room, doc>>

\* The client closes its sending side, or the whole connection, at any point;
\* data sent to a client that is gone is answered by a reset.
PeerCloses ==
  /\ \/ peer = "open" /\ peer' \in {"fin", "reset"}
     \/ peer = "fin" /\ peer' = "reset"
  /\ UNCHANGED <<request, arrived, masterHolds, readers, room, doc>>

PeerReads ==
  /\ room < SendRoom
  /\ room' = SendRoom
  /\ UNCHANGED <<sock, readers, doc>>

\* The master ends; that is the only way it ever closes a connection.
MasterEnds ==
  /\ masterHolds
  /\ masterHolds' = FALSE
  /\ UNCHANGED <<request, arrived, peer, readers, room, doc>>

DocChanges ==
  /\ doc' \in Docs \ {doc}
  /\ UNCHANGED <<sock, readers, room>>

WorkerStep(w) ==
  \/ Wait(w) \/ WaitFails(w)
  \/ ReadUnit(w) \/ ReadEmptyLine(w) \/ ReadError(w) \/ ReadEof(w)
  \/ Parse(w) \/ Stat(w) \/ Open(w)
  \/ SendPart(w) \/ Answered(w) \/ CopyFile(w) \/ Close(w)

Environment == Arrive \/ PeerCloses \/ PeerReads \/ MasterEnds \/ DocChanges

Next == (\E w \in Readers : WorkerStep(w) \/ Killed(w)) \/ Environment

Spec == Init /\ [][Next]_vars

\* The workers are scheduled; nothing is assumed of anyone else.
FairSpec == Spec /\ \A w \in Readers : WF_vars(WorkerStep(w))

-----------------------------------------------------------------------------
(* Safety.                                                                 *)

\* Types; a line never outgrows readline's buffer, so that the terminator is
\* written one past the buffer at most.
TypeOK ==
  /\ request \in Requests
  /\ arrived \in 0..Len(request) /\ got \in 0..arrived
  /\ peer \in {"open", "fin", "reset", "gone"}
  /\ masterHolds \in BOOLEAN
  /\ room \in 0..SendRoom
  /\ out \in Seq(Readers \X {200, 404, 501} \X {"status", "head", "page", "body"})
  /\ doc \in Docs
  /\ wpc \in [Readers -> WorkerStates]
  /\ line \in [Readers -> Seq(1..got)] /\ \A w \in Readers : Len(line[w]) <= MaxLine
  /\ discarded \in [Readers -> BOOLEAN]
  /\ clientOpen \in [Readers -> BOOLEAN] /\ epollOpen \in [Readers -> BOOLEAN]
  /\ status \in [Readers -> {0, 200, 404, 501}]
  /\ file \in [Readers -> {"none", "file", "failed"}]
  /\ part \in [Readers -> 0..3]

PartNumber == [status |-> 1, head |-> 2, page |-> 3, body |-> 4]

\* A reader sends parts of one response, in order and none twice, however the
\* request is cut up and whatever follows its first line: the header lines left
\* in the socket are never taken for another request by the same worker.  A
\* connection so gets one response for each worker that received it.
OneResponse ==
  \A i, j \in 1..Len(out) : i < j /\ out[i][1] = out[j][1] =>
    /\ out[i][2] = out[j][2]
    /\ PartNumber[out[i][3]] < PartNumber[out[j][3]]

\* Workers that share a connection tear its lines apart, and what each of them
\* puts together is a line nobody sent.  All the same, one method brings one
\* page at most: the answers 200 and 404 are not more than the times the client
\* has sent each piece of a method's name, though the connection was given out
\* twice.
Pages == {w \in Readers : status[w] \in {200, 404}}

OnePagePerMethod ==
  \A u \in {"GE", "T"} : Cardinality(Pages) <= Cardinality({i \in 1..got : request[i] = u})

\* The reference for the request line: the first line of what the client sent
\* that is not empty.
FirstLine ==
  LET s == SubSeq(request, 1, arrived)
      start == CHOOSE i \in 1..(Len(s) + 1) :
                 (i <= Len(s) => s[i] # "N") /\ \A j \in 1..(i - 1) : s[j] = "N"
      end == CHOOSE i \in start..(Len(s) + 1) :
               (i <= Len(s) => s[i] = "N") /\ \A j \in start..(i - 1) : s[j] # "N"
  IN  SubSeq(s, start, end - 1)

NamesMethod(l) ==
  \E m \in Methods :
    /\ Len(m) <= Len(l) /\ SubSeq(l, 1, Len(m)) = m
    /\ Len(m) < Len(l) => l[Len(m) + 1] = "_"

\* http_module.h:58 says of the buffer accept_request compares with GET and
\* POST that it holds the request's method: so 501 goes to the requests whose
\* first line names no known method, and to them alone.
MethodIsRead(w) == status[w] # 0 => (status[w] = 501 <=> ~NamesMethod(FirstLine))

\* The others are still in their first Epoll_wait.
Alone(w) == \A v \in Readers \ {w} : wpc[v] = "wait" /\ status[v] = 0

\* What is true of it: it holds of a worker that is alone with the connection,
\* unless readline started over and dropped the beginning of a line that
\* arrived in pieces.
MethodIsReadUnlessDiscarded ==
  \A w \in Readers : ~discarded[w] /\ Alone(w) => MethodIsRead(w)

\* The request code runs only on a descriptor that is open: a number that was
\* closed, and may come to mean another connection, is never read or written.
WorksOnOpenDescriptor ==
  \A w \in Readers :
    wpc[w] \in {"read", "parse", "stat", "open", "answer", "copy", "close"}
      => clientOpen[w]

-----------------------------------------------------------------------------
(* Liveness.                                                               *)

LineArrived == \E i \in 1..arrived : i > 1 /\ request[i] = "N" /\ request[i-1] # "N"

\* A request line that reaches the workers in one go gets a status.
LineIsAnswered ==
  LineArrived ~> \E w \in Readers : status[w] # 0 \/ discarded[w] \/ wpc[w] = "dead"

Stuck(w) == wpc[w] \in {"spin_eof", "spin_recv", "spin_fdopen", "dead"}

\* A worker never comes to rest after its client is gone: the end of file wakes
\* it, and every path ends in a loop without exit or in the worker's death;
\* unless its last answer is out and the connection closed everywhere.
StuckAfterPeerCloses ==
  \A w \in Readers : (peer # "open") ~> [](Stuck(w) \/ ~Registered)

\* http_module.h:37 calls the server "httpd of file get and sent system": a
\* document that was found and opened is sent, if the client waits for it.
FileIsSent ==
  \A w \in Readers :
    (file[w] = "file") ~>
      \/ \E i \in 1..Len(out) : out[i][3] = "body"
      \/ peer # "open" \/ wpc[w] = "dead"

=============================================================================

------------------------------- MODULE HandOff -------------------------------
(***************************************************************************)
(* The core of the server: start() (src/src/core/epoll_circle.h) accepts   *)
(* connections and passes each descriptor to a pool of forked workers      *)
(* through one AF_UNIX stream socketpair (inc/http_task.h, inc/sock.h).    *)
(*                                                                         *)
(* The socketpair is an immutable sequence `sent' with a read index        *)
(* `head': message i is in flight iff head < i <= Len(sent).  Every        *)
(* message is two bytes and carries one SCM_RIGHTS descriptor, so a read   *)
(* never splits or joins messages.                                         *)
(*                                                                         *)
(* What a worker does with its connection is the module HttpWorker; here   *)
(* it is the state "serving", which do_epoll's for(;;) never leaves.       *)
(*                                                                         *)
(* The definitions called variants are no part of the specification: each  *)
(* is what a definition after it would be with a plausible mistake, and    *)
(* the properties tell the two apart.                                      *)
(***************************************************************************)
EXTENDS Naturals, Sequences, FiniteSets

CONSTANTS
  Clients,    \* connections that may arrive
  Workers,    \* the NPROC_MAX_NUM children of init_manager_proc
  NoClient,   \* "no connection"
  MaxHeld,    \* connections the master's descriptor table has room for
  ChanCap,    \* messages the socketpair buffers before sendmsg blocks
  MaxFail     \* bound: failed first sends (ENOBUFS, ETOOMANYREFS) per client

ASSUME HandOffAssumption ==
  /\ IsFiniteSet(Workers) /\ Workers # {}
  /\ NoClient \notin Clients
  /\ MaxHeld \in Nat \ {0}
  /\ ChanCap \in Nat \ {0}
  /\ MaxFail \in Nat

VARIABLES
  mpc,       \* where the master is in start()
  wpc,       \* where each worker is
  backlog,   \* established connections the listening socket queues
  clientfd,  \* start()'s local: the connection last accepted
  accepted,  \* history: connections accepted, oldest first; the master
             \* closes none of them, so these are also the ones it holds
  sent,      \* history: descriptors sent over the socketpair
  head,      \* messages read from the socketpair so far
  took,      \* took[w]: index in sent of the message w read, 0 for none
  nfail      \* nfail[c]: sends of the loop condition that failed for c

vars == <<mpc, wpc, backlog, clientfd, accepted, sent, head, took, nfail>>

MasterStates ==
  {"fork",    \* init_manager_proc's loop
   "listen",  \* open_listenfd, Epoll_create, Epoll_ctl
   "wait",    \* Epoll_wait
   "accept",  \* top of the accept loop, which never ends
   "send",    \* Sock_fd_write in the retry loop's condition
   "resend",  \* Sock_fd_write in the retry loop's body
   "exit",    \* unix_error
   "sigexit"} \* sig_int_kill or sig_quit

WorkerStates ==
  {"unborn",
   "sleep",    \* sleep(2) after fork
   "recv",     \* Sock_fd_read on fd[0]
   "serving",  \* inside Open_epoll
   "returned", \* jump_task_pool_obj returned: back in the forking loop
   "dead"}

MasterUp  == mpc \notin {"exit", "sigexit"}
Listening == mpc \in {"wait", "accept", "send", "resend"}
Sending   == mpc \in {"send", "resend"}
Alive(w)  == wpc[w] \notin {"unborn", "dead"}
Free(w)   == wpc[w] \in {"sleep", "recv"}

\* Messages in flight.
InFlight == Len(sent) - head

\* The socketpair reports end of file only when no process holds fd[1]; the
\* master never closes it, and every worker inherits it and keeps it too.
WorkerHoldsWriteEnd(w) == Alive(w)
NoWriter == ~MasterUp /\ \A w \in Workers : ~WorkerHoldsWriteEnd(w)

Init ==
  /\ mpc = "fork"
  /\ wpc = [w \in Workers |-> "unborn"]
  /\ backlog = <<>>
  /\ clientfd = NoClient
  /\ accepted = <<>>
  /\ sent = <<>>
  /\ head = 0
  /\ took = [w \in Workers |-> 0]
  /\ nfail = [c \in Clients |-> 0]

-----------------------------------------------------------------------------
(* The master.                                                             *)

\* One round of init_manager_proc's loop.  The child starts in sleep(2) while
\* the master goes on; a failing fork ends the master and leaves the children
\* forked so far behind.
Fork ==
  /\ mpc = "fork"
  /\ \/ \E w \in Workers :
          /\ wpc[w] = "unborn"
          /\ wpc' = [wpc EXCEPT ![w] = "sleep"]
          /\ mpc' = IF \E v \in Workers \ {w} : wpc[v] = "unborn"
                    THEN "fork" ELSE "listen"
     \/ /\ mpc' = "exit"
        /\ UNCHANGED wpc
  /\ UNCHANGED <<backlog, clientfd, accepted, sent, head, took, nfail>>

\* open_listenfd: bind fails when the port is taken and SO_REUSEADDR, set from
\* an uninitialized optval, happens to be off; every failure is an exit.
Listen ==
  /\ mpc = "listen"
  /\ mpc' \in {"wait", "exit"}
  /\ UNCHANGED <<wpc, backlog, clientfd, accepted, sent, head, took, nfail>>

\* The first readiness of the listening socket leads into the accept loop;
\* Epoll_wait is never called again.  EPOLLERR, EPOLLHUP and a failure of
\* Epoll_wait itself end the master.
EpollWait ==
  /\ mpc = "wait"
  /\ \/ backlog # <<>> /\ mpc' = "accept"
     \/ mpc' = "exit"
  /\ UNCHANGED <<wpc, backlog, clientfd, accepted, sent, head, took, nfail>>

\* Accept and Setnoblock.
Accept ==
  /\ mpc = "accept"
  /\ backlog # <<>>
  /\ Len(accepted) < MaxHeld
  /\ clientfd' = Head(backlog)
  /\ backlog' = Tail(backlog)
  /\ accepted' = Append(accepted, Head(backlog))
  /\ mpc' = "send"
  /\ UNCHANGED <<wpc, sent, head, took, nfail>>

\* accept fails: no descriptor is left for the new connection, or the pending
\* connection is in error.  The wrapper exits.
AcceptFail ==
  /\ mpc = "accept"
  /\ Len(accepted) = MaxHeld \/ backlog # <<>>
  /\ mpc' = "exit"
  /\ UNCHANGED <<wpc, backlog, clientfd, accepted, sent, head, took, nfail>>

\* Variant: the result of the condition is compared the wrong way round.
SendOkSendsAgain ==
  /\ mpc = "send"
  /\ InFlight < ChanCap
  /\ sent' = Append(sent, clientfd)
  /\ mpc' = "resend"
  /\ UNCHANGED <<wpc, backlog, clientfd, accepted, head, took, nfail>>

\* The send of the loop condition; it blocks while the socketpair is full.
SendOk ==
  /\ mpc = "send"
  /\ InFlight < ChanCap
  /\ sent' = Append(sent, clientfd)
  /\ mpc' = "accept"
  /\ UNCHANGED <<wpc, backlog, clientfd, accepted, head, took, nfail>>

SendFail ==
  /\ mpc = "send"
  /\ nfail[clientfd] < MaxFail
  /\ nfail' = [nfail EXCEPT ![clientfd] = @ + 1]
  /\ mpc' = "resend"
  /\ UNCHANGED <<wpc, backlog, clientfd, accepted, sent, head, took>>

\* Variant: the send of the body is the last one, whatever came of it.
ResendTrusted ==
  /\ mpc = "resend"
  /\ \/ /\ InFlight < ChanCap
        /\ sent' = Append(sent, clientfd)
     \/ UNCHANGED sent
  /\ mpc' = "accept"
  /\ UNCHANGED <<wpc, backlog, clientfd, accepted, head, took, nfail>>

\* The send of the loop body.  Its result is not looked at: whether or not it
\* succeeds, the condition sends again.
Resend ==
  /\ mpc = "resend"
  /\ \/ /\ InFlight < ChanCap
        /\ sent' = Append(sent, clientfd)
     \/ UNCHANGED sent
  /\ mpc' = "send"
  /\ UNCHANGED <<wpc, backlog, clientfd, accepted, head, took, nfail>>

\* SIGINT or SIGQUIT to the master alone: destroy_queue and exit.
MasterSignal ==
  /\ MasterUp
  /\ mpc' = "sigexit"
  /\ UNCHANGED <<wpc, backlog, clientfd, accepted, sent, head, took, nfail>>

-----------------------------------------------------------------------------
(* The workers.                                                            *)

Wake(w) ==
  /\ wpc[w] = "sleep"
  /\ wpc' = [wpc EXCEPT ![w] = "recv"]
  /\ UNCHANGED <<mpc, backlog, clientfd, accepted, sent, head, took, nfail>>

\* Variant: receiving needs a lock that a worker killed in recvmsg keeps.
CanRecvUnderLock(w) ==
  /\ wpc[w] = "recv"
  /\ InFlight > 0 \/ NoWriter
  /\ \A v \in Workers : wpc[v] = "dead" => took[v] # 0

\* recvmsg on fd[0] blocks until there is a message or end of file.
CanRecv(w) ==
  /\ wpc[w] = "recv"
  /\ InFlight > 0 \/ NoWriter

\* Variant: the latest message is read first.
RecvNewest(w) ==
  /\ CanRecv(w) /\ InFlight > 0
  /\ head' = head + 1
  /\ took' = [took EXCEPT ![w] = Len(sent)]
  /\ wpc' = [wpc EXCEPT ![w] = "serving"]
  /\ UNCHANGED <<mpc, backlog, clientfd, accepted, sent, nfail>>

\* Variant: Open_epoll returns and the worker receives again.
RecvRepeats(w) ==
  /\ CanRecv(w) /\ InFlight > 0
  /\ head' = head + 1
  /\ took' = [took EXCEPT ![w] = head + 1]
  /\ UNCHANGED <<wpc, mpc, backlog, clientfd, accepted, sent, nfail>>

\* Sock_fd_read returns 2 with a descriptor, or 0 at end of file.  With a
\* descriptor the worker enters Open_epoll; at end of file it breaks out of
\* its loop and returns into init_manager_proc.
Recv(w) ==
  /\ CanRecv(w)
  /\ IF InFlight > 0
     THEN /\ head' = head + 1
          /\ took' = [took EXCEPT ![w] = head + 1]
          /\ wpc' = [wpc EXCEPT ![w] = "serving"]
     ELSE /\ wpc' = [wpc EXCEPT ![w] = "returned"]
          /\ UNCHANGED <<head, took>>
  /\ UNCHANGED <<mpc, backlog, clientfd, accepted, sent, nfail>>

\* A signal, a fatal error or a crash in the request code ends a worker; the
\* master leaves SIGCHLD at its default and starts no replacement.
WorkerDies(w) ==
  /\ Alive(w)
  /\ wpc' = [wpc EXCEPT ![w] = "dead"]
  /\ UNCHANGED <<mpc, backlog, clientfd, accepted, sent, head, took, nfail>>

-----------------------------------------------------------------------------
(* The network.                                                            *)

\* A new connection is established and queued by the kernel.
Connect(c) ==
  /\ Listening
  /\ \A k \in 1..Len(backlog) : backlog[k] # c
  /\ \A k \in 1..Len(accepted) : accepted[k] # c
  /\ backlog' = Append(backlog, c)
  /\ UNCHANGED <<mpc, wpc, clientfd, accepted, sent, head, took, nfail>>

MasterSend == SendOk \/ SendFail \/ Resend

Next ==
  \/ Fork \/ Listen \/ EpollWait
  \/ Accept \/ AcceptFail
  \/ SendOk \/ SendFail \/ Resend
  \/ MasterSignal
  \/ \E w \in Workers : Wake(w) \/ Recv(w) \/ WorkerDies(w)
  \/ \E c \in Clients : Connect(c)

Spec == Init /\ [][Next]_vars

\* The kernel runs a process that can run: the sends and the workers' own
\* steps happen; arrivals, signals and crashes need not.
Fairness ==
  /\ WF_vars(MasterSend)
  /\ \A w \in Workers : WF_vars(Wake(w)) /\ WF_vars(Recv(w))

FairSpec == Spec /\ Fairness

-----------------------------------------------------------------------------
(* Safety.                                                                 *)

\* Types, and the ranges the other properties lean on: a connection is in the
\* master's hand whenever it is inside Sock_fd_write, the socketpair never
\* holds more than it can buffer, the descriptor table never overflows.
TypeOK ==
  /\ mpc \in MasterStates
  /\ wpc \in [Workers -> WorkerStates]
  /\ backlog \in Seq(Clients)
  /\ clientfd \in Clients \cup {NoClient}
  /\ Sending => clientfd \in Clients
  /\ accepted \in Seq(Clients) /\ Len(accepted) <= MaxHeld
  /\ sent \in Seq(Clients)
  /\ head \in 0..Len(sent) /\ InFlight <= ChanCap
  /\ took \in [Workers -> 0..Len(sent)]
  /\ nfail \in [Clients -> 0..MaxFail]

\* All workers block in recvmsg on the same inherited fd[0], with no lock
\* around it: still no message is read by two of them.
OneTakerPerMessage ==
  \A v, w \in Workers : v # w /\ took[v] # 0 => took[v] # took[w]

Copies(c) == Cardinality({i \in 1..Len(sent) : sent[i] = c})

\* The retry loop around Sock_fd_write sends in its condition and again in its
\* body, so one connection may be handed to several workers; but only one copy
\* more than the sends that failed, never a duplicate out of nothing.
CopiesBounded == \A c \in Clients : Copies(c) <= 1 + nfail[c]

\* start() goes back to accept only after a send that succeeded: an accepted
\* connection has been sent, unless it is the one the master is still holding
\* or was holding when it ended.
NothingLost ==
  \A k \in 1..Len(accepted) :
    \/ \E i \in 1..Len(sent) : sent[i] = accepted[k]
    \/ k = Len(accepted) /\ mpc \in {"send", "resend", "exit", "sigexit"}

\* The pool has no second round: do_epoll never returns, so each worker takes
\* one message in its life and NPROC_MAX_NUM messages are all that are ever
\* read, duplicates of one connection included.
OneMessagePerWorker ==
  /\ head = Cardinality({w \in Workers : took[w] # 0})
  /\ \A i \in 1..head : \E w \in Workers : took[w] = i

\* A worker that left jump_task_pool_obj would run on in init_manager_proc's
\* loop and fork workers of its own, then listen.  None does, even after the
\* master is gone: each worker keeps fd[1] open itself and so never sees the
\* end of file it waits for.
NoWorkerReturns == \A w \in Workers : wpc[w] # "returned"

\* No message is served twice, no worker serves twice, and none is left over to
\* become a second master.
ServedOnce == OneTakerPerMessage /\ OneMessagePerWorker /\ NoWorkerReturns

-----------------------------------------------------------------------------
(* Liveness.                                                               *)

NoFreeWorker == \A w \in Workers : ~Free(w)

\* A connection that is in the socketpair reaches a worker as long as one is
\* left to receive it, whatever happens to the master meanwhile.
InFlightIsTaken ==
  \A i \in 1..(Cardinality(Clients) * (MaxFail + 1)) :
    (head < i /\ i <= Len(sent)) ~> (head >= i \/ NoFreeWorker)

\* The master leaves the retry loop: it is stuck in Sock_fd_write only when no
\* worker is left to drain the socketpair.
SendingEnds == Sending ~> (~Sending \/ NoFreeWorker)

\* http_task.h:252 says of tell_chld_exit "TELL CHLD TO EXIT WHEN ACCEPT SIGINT
\* SIGNAL"; sig_int_kill does not call it.
SigintReachesWorkers == (mpc = "sigexit") ~> (\A w \in Workers : ~Alive(w))

-----------------------------------------------------------------------------
(* The abstract mailbox.                                                   *)

D == INSTANCE Dispatch WITH
  seen    <- accepted,
  inHand  <- IF Sending THEN clientfd ELSE NoClient,
  mailbox <- SubSeq(sent, head + 1, Len(sent)),
  owner   <- [w \in Workers |-> IF took[w] = 0 THEN NoClient ELSE sent[took[w]]],
  up      <- MasterUp

\* The accept loop, the retry loop and the workers' recvmsg together behave as
\* the FIFO mailbox of Dispatch.
ImplementsDispatch == D!Spec

=============================================================================

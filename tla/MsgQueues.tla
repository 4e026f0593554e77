----------------------------- MODULE MsgQueues ------------------------------
(***************************************************************************)
(* The three System V message queues of inc/http_ipc.h and the processes   *)
(* that share them: a main process that may call create_queue, children it *)
(* forks, signal handlers that call destroy_queue (epoll_circle.h).        *)
(*                                                                         *)
(* The queues live in the kernel and outlast the processes; Restart is the *)
(* next run of the program, up to MaxRun.  Queue k is what key Ftok(k)     *)
(* names.  Its identifier is any number that the kernel has free, and may  *)
(* be 0, which the zeroed array arr holds as well; or 0 is the queue of    *)
(* another program.                                                        *)
(*                                                                         *)
(* Variants are definitions with a plausible mistake, as in HandOff.       *)
(***************************************************************************)
EXTENDS Naturals, Sequences

CONSTANTS
  Main,      \* the process that runs start()
  Children,  \* the processes it forks
  Ids,       \* the identifiers that the kernel may give each queue
  Cap,       \* messages that fit a queue
  MaxRun     \* bound on the runs of the program

ASSUME MsgQueuesAssumption ==
  /\ Main \notin Children
  /\ Ids \in [1..3 -> SUBSET Nat]
  /\ Cap \in Nat \ {0} /\ MaxRun \in Nat \ {0}

Procs == {Main} \cup Children
Keys == 1..3

VARIABLES
  run,      \* number of this run
  pc,       \* "new", "run", "msgget", "assign", "send", "rcv", "exited"
  arg,      \* the index into arr of a process that sends or receives
  arr,      \* each process's copy of the identifiers
  made,     \* history: how many entries of its copy were assigned
  qid,      \* create_queue's local variable
  frames,   \* destroy_queue's i in each running signal handler, outermost first
  live,     \* the program's queues that the kernel has
  id,       \* their identifiers
  other,    \* identifier 0 is another program's queue
  msgs,     \* the messages of each queue: the run that sent it
  orphans   \* history: queues of this run that no handler may be left to remove

procs == <<pc, arg, arr, made, frames>>
kernel == <<live, id, other, msgs>>
vars == <<run, procs, qid, kernel, orphans>>

ZeroArr == [i \in 0..2 |-> 0]

Init ==
  /\ run = 1
  /\ pc = [p \in Procs |-> IF p = Main THEN "run" ELSE "new"]
  /\ arg = [p \in Procs |-> 0]
  /\ arr = [p \in Procs |-> ZeroArr]
  /\ made = [p \in Procs |-> 0]
  /\ qid = 0
  /\ frames = [p \in Procs |-> <<>>]
  /\ live = {} /\ id = [k \in Keys |-> 0]
  /\ other \in BOOLEAN
  /\ msgs = [k \in Keys |-> <<>>]
  /\ orphans = {}

\* p executes its own code, not a handler.
Runs(p) == frames[p] = <<>>

\* check() ends the process, whatever it was doing.
Exit(p) ==
  /\ pc' = [pc EXCEPT ![p] = "exited"]
  /\ arg' = [arg EXCEPT ![p] = 0]
  /\ frames' = [frames EXCEPT ![p] = <<>>]

\* The program's queue with identifier i, if there is one.
Named(i) == {k \in live : id[k] = i}

-----------------------------------------------------------------------------
(* create_queue, in the main process.                                      *)

CreateQueue ==
  /\ pc[Main] = "run" /\ Runs(Main) /\ made[Main] = 0
  /\ pc' = [pc EXCEPT ![Main] = "msgget"]
  /\ UNCHANGED <<run, arg, arr, made, qid, frames, kernel, orphans>>

\* The queue that create_queue asks for or has just got.
Current == made[Main] + 1

\* msgget without IPC_EXCL: a queue that an earlier run left is taken over with
\* the messages in it.
Msgget ==
  /\ pc[Main] = "msgget" /\ Runs(Main)
  /\ \/ Current \in live /\ UNCHANGED <<live, id>>
     \/ /\ Current \notin live /\ live' = live \cup {Current}
        /\ \E i \in Ids[Current] :
             /\ Named(i) = {} /\ ~(other /\ i = 0)
             /\ id' = [id EXCEPT ![Current] = i]
  /\ qid' = id'[Current]
  /\ pc' = [pc EXCEPT ![Main] = "assign"]
  /\ UNCHANGED <<run, arg, arr, made, frames, other, msgs, orphans>>

\* ftok or msgget fails: check() leaves the queues made before.
MsggetFails ==
  /\ pc[Main] = "msgget" /\ Runs(Main)
  /\ Exit(Main)
  /\ orphans' = orphans \cup 1..made[Main]
  /\ UNCHANGED <<run, arr, made, qid, kernel>>

\* Variant: every identifier goes to the same place.
AssignFirst ==
  /\ pc[Main] = "assign" /\ Runs(Main)
  /\ arr' = [arr EXCEPT ![Main][0] = qid]
  /\ made' = [made EXCEPT ![Main] = Current]
  /\ pc' = [pc EXCEPT ![Main] = IF Current = 3 THEN "run" ELSE "msgget"]
  /\ UNCHANGED <<run, arg, qid, frames, kernel, orphans>>

\* The main process's handlers know of the queue now.
Assign ==
  /\ pc[Main] = "assign" /\ Runs(Main)
  /\ arr' = [arr EXCEPT ![Main][made[Main]] = qid]
  /\ made' = [made EXCEPT ![Main] = Current]
  /\ pc' = [pc EXCEPT ![Main] = IF Current = 3 THEN "run" ELSE "msgget"]
  /\ UNCHANGED <<run, arg, qid, frames, kernel, orphans>>

\* A child gets a copy of arr as it is now.
Fork(c) ==
  /\ pc[Main] = "run" /\ Runs(Main) /\ pc[c] = "new"
  /\ pc' = [pc EXCEPT ![c] = "run"]
  /\ arr' = [arr EXCEPT ![c] = arr[Main]]
  /\ made' = [made EXCEPT ![c] = made[Main]]
  /\ UNCHANGED <<run, arg, qid, frames, kernel, orphans>>

-----------------------------------------------------------------------------
(* send_queue and rcv_queue, by a process that has identifiers.            *)

Call(p) ==
  /\ pc[p] = "run" /\ Runs(p) /\ made[p] = 3
  /\ \E i \in 0..2, what \in {"send", "rcv"} :
       /\ arg' = [arg EXCEPT ![p] = i]
       /\ pc' = [pc EXCEPT ![p] = what]
  /\ UNCHANGED <<run, arr, made, qid, frames, kernel, orphans>>

Queue(p) == arr[p][arg[p]]

\* msgsnd and msgrcv wait for room and for a message.
Transfer(p) ==
  /\ Runs(p)
  /\ \E k \in Named(Queue(p)) :
       \/ /\ pc[p] = "send" /\ Len(msgs[k]) < Cap
          /\ msgs' = [msgs EXCEPT ![k] = Append(@, run)]
       \/ /\ pc[p] = "rcv" /\ msgs[k] # <<>>
          /\ msgs' = [msgs EXCEPT ![k] = Tail(@)]
  /\ pc' = [pc EXCEPT ![p] = "run"]
  /\ arg' = [arg EXCEPT ![p] = 0]
  /\ UNCHANGED <<run, arr, made, qid, frames, live, id, other, orphans>>

Waits(p) == pc[p] \in {"send", "rcv"}

\* Variant: the call is repeated when it fails.
TransferFailsRetry(p) ==
  /\ Runs(p) /\ Waits(p) /\ Named(Queue(p)) = {}
  /\ UNCHANGED vars

\* The queue is removed while the process waits, or was before: check().
TransferFails(p) ==
  /\ Runs(p) /\ Waits(p) /\ Named(Queue(p)) = {}
  /\ Exit(p)
  /\ UNCHANGED <<run, arr, made, qid, kernel, orphans>>

-----------------------------------------------------------------------------
(* Signals and destroy_queue.                                              *)

Alive(p) == pc[p] \notin {"new", "exited"}

\* i of p's innermost handler.
Index(p) == frames[p][Len(frames[p])]

\* What is left if p ends in a handler that has removed the first queue.
Rest(p) ==
  IF made[p] > 0 /\ frames[p] # <<>> /\ Index(p) > 0 THEN (Index(p) + 1)..3 ELSE {}

\* SIGINT and SIGQUIT have a handler each, which only the other one interrupts.
\* The second one fails on the queue that the first removed, and the first does
\* not go on.
Signal(p) ==
  /\ Alive(p) /\ Len(frames[p]) < 2
  /\ frames' = [frames EXCEPT ![p] = Append(@, 0)]
  /\ orphans' = orphans \cup Rest(p)
  /\ UNCHANGED <<run, pc, arg, arr, made, qid, kernel>>

\* The loop goes on, or ends behind index last and with it the process and a
\* handler that was interrupted.
GoOn(p, last) ==
  IF Index(p) = last THEN Exit(p)
  ELSE /\ frames' = [frames EXCEPT ![p][Len(frames[p])] = @ + 1]
       /\ UNCHANGED <<pc, arg>>

\* The queues of this run: the last one may not be in arr yet.
OfThisRun == {k \in Keys : k <= made[Main] \/ (pc[Main] = "assign" /\ k = Current)}

\* remove_message of identifier i: a queue of this program, and when a process
\* without identifiers hits it by its zeroed array no handler gets past it; or
\* another program's; or none, or one that is not ours to remove, and check()
\* ends the process.
RemoveMessage(p, i, last) ==
  /\ \/ /\ \E k \in Named(i) :
             /\ live' = live \ {k} /\ id' = [id EXCEPT ![k] = 0]
             /\ msgs' = [msgs EXCEPT ![k] = <<>>]
             /\ orphans' = IF made[p] = 0 /\ k \in OfThisRun THEN Keys ELSE orphans
        /\ GoOn(p, last)
        /\ UNCHANGED other
     \/ /\ other /\ i = 0 /\ other' = FALSE
        /\ GoOn(p, last)
        /\ UNCHANGED <<live, id, msgs, orphans>>
     \/ /\ Named(i) = {}
        /\ Exit(p)
        /\ UNCHANGED <<live, id, msgs, other, orphans>>
  /\ UNCHANGED <<run, arr, made, qid>>

\* Variants: from the last to the first; one queue short.
RemoveBackwards(p) == frames[p] # <<>> /\ RemoveMessage(p, arr[p][2 - Index(p)], 2)
RemoveTwo(p) == frames[p] # <<>> /\ RemoveMessage(p, arr[p][Index(p)], 1)

\* One round of destroy_queue's loop.
Remove(p) == frames[p] # <<>> /\ RemoveMessage(p, arr[p][Index(p)], 2)

\* SIGKILL, or a crash.
Killed(p) ==
  /\ Alive(p)
  /\ Exit(p)
  /\ orphans' = orphans \cup Rest(p) \cup (IF p = Main THEN 1..made[p] ELSE {})
  /\ UNCHANGED <<run, arr, made, qid, kernel>>

\* The program is started again when all its processes have ended.
Over == \A p \in Procs : ~Alive(p)

Restart ==
  /\ Over /\ run < MaxRun
  /\ run' = run + 1
  /\ pc' = [p \in Procs |-> IF p = Main THEN "run" ELSE "new"]
  /\ arr' = [p \in Procs |-> ZeroArr]
  /\ made' = [p \in Procs |-> 0]
  /\ qid' = 0
  /\ orphans' = {}
  /\ UNCHANGED <<arg, frames, kernel>>

Step(p) == Transfer(p) \/ TransferFails(p) \/ Remove(p)

Next ==
  \/ CreateQueue \/ Msgget \/ MsggetFails \/ Assign
  \/ \E c \in Children : Fork(c)
  \/ \E p \in Procs : Call(p) \/ Step(p) \/ Signal(p) \/ Killed(p)
  \/ Restart

Spec == Init /\ [][Next]_vars

\* Every process is scheduled.
FairSpec == Spec /\ \A p \in Procs : WF_vars(Step(p))

-----------------------------------------------------------------------------
TypeOK ==
  /\ run \in 1..MaxRun
  /\ pc \in [Procs -> {"new", "run", "msgget", "assign", "send", "rcv", "exited"}]
  /\ arg \in [Procs -> 0..2]
  /\ arr \in [Procs -> [0..2 -> Nat]] /\ made \in [Procs -> 0..3]
  /\ qid \in Nat
  /\ frames \in [Procs -> Seq(0..2)]
  /\ live \subseteq Keys /\ id \in [Keys -> Nat] /\ other \in BOOLEAN
  /\ msgs \in [Keys -> Seq(1..MaxRun)]
  /\ orphans \subseteq Keys

\* What a run leaves behind, however many processes run destroy_queue at once and
\* whatever the last run left: queues that create_queue did not come to store in
\* arr, and so the one between msgget and the assignment; those made before a
\* failing msgget; those behind the index of a handler that was interrupted by the
\* other one or killed; those of a killed main process; those of a run in which a
\* process forked before create_queue hit one by its zeroed array; and no other.
NoQueueLeft == Over => \A k \in live : k \in orphans \/ k > made[Main]

\* Created, the queues go in the order of arr: so a second process finds the
\* first one gone and ends at once, and the process that removed it is the only
\* one that can remove the rest.  Only the queue with identifier 0, which is in
\* the zeroed arrays of earlier children, may go before its turn.
RemovedInOrder ==
  made[Main] = 3 =>
    \A j, k \in Keys :
      j < k /\ k \notin live /\ arr[Main][k - 1] # 0 => j \notin live

\* Whatever identifiers the kernel gave, 0 included: destroy_queue removes another
\* program's queue through an entry of arr that was never assigned, and so never
\* in a process that has its three identifiers.
SparesOthers ==
  [][\A p \in Procs : Remove(p) /\ other' # other => Index(p) >= made[p]]_vars

\* A process that waits on a queue does not survive its removal.
WaiterIsReleased ==
  \A p \in Procs : (Waits(p) /\ Named(Queue(p)) = {}) ~> (pc[p] = "exited")

=============================================================================

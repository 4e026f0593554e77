------------------------------ MODULE ProcPool ------------------------------
(***************************************************************************)
(* The master's table of its children (inc/http_task.h): the singly linked *)
(* list proc_pool with its counter n_proc, the functions that change it    *)
(* and the children they fork.                                             *)
(*                                                                         *)
(* start() runs init_manager_proc only.  handler_dead_processor,           *)
(* notice_child, set_status_ok and tell_chld_exit are the table's          *)
(* operations for the master's later life; nothing calls them yet.  They   *)
(* are modelled as the master would call them between two statements of    *)
(* its own: for a child that was reaped, once.                             *)
(*                                                                         *)
(* Variants are definitions with a plausible mistake, as in HandOff.       *)
(***************************************************************************)
EXTENDS Integers, Sequences, SequencesExt

CONSTANTS
  NProc,      \* NPROC_MAX_NUM
  MaxFd,      \* MAX_FD_NUM, a new node's nleft
  MaxPid,     \* bound: children forked in all
  MaxNotices  \* bound: calls of notice_child

ASSUME ProcPoolAssumption ==
  /\ NProc \in Nat \ {0}
  /\ MaxFd \in Nat
  /\ MaxPid \in Nat /\ MaxPid >= NProc
  /\ MaxNotices \in Nat

VARIABLES
  pool,     \* the list, first node first
  n_proc,   \* its counter
  alive,    \* children that run
  lastPid,  \* children forked so far; fork gives lastPid + 1
  mpc,      \* "init", "run" or "exit"
  notices   \* calls of notice_child so far

vars == <<pool, n_proc, alive, lastPid, mpc, notices>>

NoPid == -1
Node(p) == [pid |-> p, nleft |-> MaxFd, status |-> 0]
Pids == {pool[k].pid : k \in 1..Len(pool)}

\* create_proc_pool
Init ==
  /\ pool = [k \in 1..NProc |-> Node(NoPid)]
  /\ n_proc = 0
  /\ alive = {}
  /\ lastPid = 0
  /\ mpc = "init"
  /\ notices = 0

\* Variant: insert_pool_obj's loop without its break.
InsertPoolObjEverywhere(p) ==
  /\ pool' = [k \in 1..Len(pool) |->
               IF pool[k].pid = NoPid THEN [pool[k] EXCEPT !.pid = p] ELSE pool[k]]
  /\ n_proc' = n_proc + Cardinality({k \in 1..Len(pool) : pool[k].pid = NoPid})

\* insert_pool_obj: the first node without a pid gets p.
InsertPoolObj(p) ==
  LET k == SelectInSeq(pool, LAMBDA n : n.pid = NoPid)
  IN  /\ pool' = IF k = 0 THEN pool ELSE [pool EXCEPT ![k].pid = p]
      /\ n_proc' = IF k = 0 THEN n_proc ELSE n_proc + 1

\* delete_pool_obj unlinks the first node of p.
DeletedPool(p) == RemoveFirstMatch(pool, LAMBDA n : n.pid = p)

\* Variant: the counter is kept right on insertion and forgotten on deletion.
ReplaceWithoutDecrement(p, q) ==
  /\ pool' = IF n_proc < NProc THEN <<Node(q)>> \o DeletedPool(p) ELSE DeletedPool(p)
  /\ n_proc' = n_proc

\* delete_pool_obj followed by insert_pool: the counter goes down whether or
\* not p is found, the new node is put first and is not counted.
ReplacePoolObj(p, q) ==
  /\ pool' = IF n_proc - 1 < NProc THEN <<Node(q)>> \o DeletedPool(p)
             ELSE DeletedPool(p)
  /\ n_proc' = n_proc - 1

Fork == alive' = alive \cup {lastPid + 1} /\ lastPid' = lastPid + 1

\* Variant: the loop ends a round early.
InitOneShort ==
  /\ mpc = "init"
  /\ Fork
  /\ InsertPoolObj(lastPid + 1)
  /\ mpc' = IF lastPid + 2 >= NProc THEN "run" ELSE "init"
  /\ UNCHANGED notices

\* A round of init_manager_proc's loop; the failure of fork ends the master.
InitManagerProc ==
  /\ mpc = "init"
  /\ \/ /\ Fork
        /\ InsertPoolObj(lastPid + 1)
        /\ mpc' = IF lastPid + 1 = NProc THEN "run" ELSE "init"
     \/ /\ mpc' = "exit"
        /\ UNCHANGED <<pool, n_proc, alive, lastPid>>
  /\ UNCHANGED notices

ChildDies(p) ==
  /\ p \in alive
  /\ alive' = alive \ {p}
  /\ UNCHANGED <<pool, n_proc, lastPid, mpc, notices>>

\* handler_dead_processor for a child that was reaped.
HandlerDeadProcessor(p) ==
  /\ mpc = "run" /\ p \in Pids /\ p \notin alive
  /\ \/ /\ lastPid < MaxPid
        /\ Fork
        /\ ReplacePoolObj(p, lastPid + 1)
        /\ UNCHANGED mpc
     \/ /\ pool' = DeletedPool(p)
        /\ n_proc' = n_proc - 1
        /\ mpc' = "exit"
        /\ UNCHANGED <<alive, lastPid>>
  /\ UNCHANGED notices

\* Variant: the comparison the other way round.
ChosenLeast ==
  SelectLastInSeq(pool, LAMBDA n : \A k \in 1..Len(pool) : pool[k].nleft >= n.nleft)

\* notice_child chooses the last of the nodes with the greatest nleft.
Chosen ==
  SelectLastInSeq(pool, LAMBDA n : \A k \in 1..Len(pool) : pool[k].nleft <= n.nleft)

NoticeChild ==
  /\ mpc = "run" /\ notices < MaxNotices
  /\ pool' = [pool EXCEPT ![Chosen].nleft = @ - 1]
  /\ notices' = notices + 1
  /\ UNCHANGED <<n_proc, alive, lastPid, mpc>>

SetStatusOk(p) ==
  /\ mpc = "run"
  /\ pool' = [k \in 1..Len(pool) |->
               IF pool[k].pid = p THEN [pool[k] EXCEPT !.status = 1] ELSE pool[k]]
  /\ UNCHANGED <<n_proc, alive, lastPid, mpc, notices>>

\* kill(pid, SIGINT) for every node; pid -1 would reach every process that the
\* caller may signal, but not the caller.
TellChldExit ==
  /\ mpc = "run"
  /\ alive' = IF NoPid \in Pids THEN {} ELSE alive \ Pids
  /\ UNCHANGED <<pool, n_proc, lastPid, notices, mpc>>

Next ==
  \/ InitManagerProc
  \/ \E p \in 1..lastPid :
       ChildDies(p) \/ HandlerDeadProcessor(p) \/ SetStatusOk(p)
  \/ NoticeChild
  \/ TellChldExit

Spec == Init /\ [][Next]_vars

-----------------------------------------------------------------------------
(* Properties.                                                             *)

\* Types; the counter never exceeds the table's size.
TypeOK ==
  /\ pool \in Seq([pid : {NoPid} \cup 1..MaxPid, nleft : Int, status : {0, 1}])
  /\ Len(pool) <= NProc
  /\ n_proc \in Int /\ n_proc <= NProc
  /\ alive \subseteq 1..MaxPid
  /\ lastPid \in 0..MaxPid
  /\ mpc \in {"init", "run", "exit"}
  /\ notices \in 0..MaxNotices

\* No child is ever out of the table's reach: insert_pool's test of n_proc,
\* which counts something else than nodes after the first replacement, never
\* turns a new child away.
LiveChildrenRecorded == mpc = "run" => alive \subseteq Pids

\* One node per child, so that delete_pool_obj, which stops at the first node
\* it finds, leaves none of a dead child behind.
OneNodePerChild ==
  \A j, k \in 1..Len(pool) :
    j # k /\ pool[j].pid # NoPid => pool[j].pid # pool[k].pid

\* tell_chld_exit ends the children and only them: it never calls kill(-1),
\* and no child is left running when it is done.
TellEndsChildrenOnly ==
  [][TellChldExit => NoPid \notin Pids /\ alive' = {}]_vars

\* notice_child deals connections out evenly, whatever children report, die and
\* are replaced meanwhile: the numbers of free descriptors of the first children
\* differ by one at most, and no child has more than one free descriptor more
\* than a child forked after it.
DealtEvenly ==
  \A j, k \in 1..Len(pool) :
    (pool[j].pid <= NProc \/ pool[j].pid <= pool[k].pid) =>
      pool[j].nleft - pool[k].nleft <= 1

=============================================================================

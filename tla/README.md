# unix725: a verification project

unix725 is a small pre-forking HTTP server in C. One master process accepts
connections and hands each descriptor to one of ten forked workers through a
UNIX-domain socketpair; a worker reads a request from the nonblocking
connection and answers it. Most of the code is in header files.

Paths below are relative to the repository (`src/core` is the directory of the
same name under its `src`).

## 1. Inventory

| Component | Source | State | Operations |
|---|---|---|---|
| master | `src/core/epoll_circle.h` `start`, signal handlers | position in `start`, `clientfd`, open descriptors | fork the pool, listen, accept, send, send again, exit |
| descriptor passing | `inc/sock.h` `S_pipe`, `Sock_fd_write`, `Sock_fd_read` | messages in the socketpair, who holds its ends | send, receive, end of file |
| worker pool | `inc/http_task.h` | the list `proc_pool`, `n_proc`, the children | fork and record, delete, replace, choose, mark, tell to exit |
| worker event loop | `inc/http_io_base.h`, `inc/http_epoll.h`, `inc/epoll_inc.h` | `epollfd`, registrations | wait, read event |
| request handling | `http_module/http_module.h` | line buffer, status, response, file | `readline`, `accept_request`, responses, copy, close |
| message queues | `inc/http_ipc.h` | three System V queues | open, send, receive, peek, remove |
| I/O helpers | `utils/rio_r_w.h`, `utils/http_io.c`, `inc/common.h`, `inc/sock.h` `Read_s`/`Write_s` | buffer, counters | read and write in full, read a line |
| utilities | `utils/utils.h`, `inc/unix_error.h`, `inc/http_config.h` | configured address | wrappers that exit, configuration file |
| lists | `inc/list.h` | pointers of five kinds of list | insert, remove, walk |
| trees | `utils/tree.h`, `src/rb_tree.c` | pointers, colours | insert, remove, rebalance, splay, look up |

How they interact: `start` calls `init_manager_proc`, which forks the workers;
master and workers share the socketpair and nothing else, except that both
hold every connection that was handed over, since the master never closes its
copy. A worker calls `Open_epoll` from `jump_task_pool_obj`; the event loop
calls the request code and never returns.

What is hard about it:

* ten processes receive on one descriptor, the master sends on another that
  may be full, fail, or outlive the master;
* the retry loop around `Sock_fd_write` can send one connection twice;
* processes may be killed between any two steps; nothing is restarted;
* the request line may arrive in pieces on a nonblocking socket, the client may
  close or reset at any moment, the send buffer may be full, the file may
  change between `stat` and `open`;
* closing the connection in the worker neither ends it nor its epoll
  registration while the master holds it;
* the helpers must give a caller the whole stream through short reads and
  writes, interruptions and errors, with counters whose types cannot hold -1;
* signal handlers of several processes, nested in one process, remove the same
  three kernel queues, which outlast the program;
* a connection sent twice is read by two workers, each with its own buffer and
  its own copy of the descriptor;
* the list macros write through pointers that they change on the way, and a loop
  may remove the element it stands on; the tree macros rely on a balance that
  only all earlier calls together established, and a splay tree is in three
  pieces during every call, also during a lookup.

What makes each part correct:

* master and descriptor passing: every accepted connection is sent
  (`NothingLost`), at most once more than sends of it failed (`CopiesBounded`); each
  message is read by one worker, in order (`ServedOnce`, `ImplementsDispatch`),
  and reaches one while workers are free
  (`InFlightIsTaken`, `SendingEnds`);
* worker pool: a worker stays a worker and serves the one message it took
  (`ServedOnce`); the table names the living children, each once, and
  shares the work evenly, over deaths and replacements
  (`LiveChildrenRecorded`, `OneNodePerChild`, `DealtEvenly`);
  signals go to children only (`TellEndsChildrenOnly`);
* event loop and requests: one response, on the connection it belongs to, chosen
  by the method the client sent (`OneResponse`, `WorksOnOpenDescriptor`,
  `MethodIsReadUnlessDiscarded`), and given in the end (`LineIsAnswered`); workers
  that share a connection, and tear its lines apart, send no more pages than the
  client sent methods (`OnePagePerMethod`);
* message queues: removed in order, by whoever ends (`RemovedInOrder`), but for
  those that no handler could get at (`NoQueueLeft`); another program's queue is
  spared by whoever has its three identifiers (`SparesOthers`), and nobody waits
  on a removed one (`WaiterIsReleased`);
* I/O helpers: the counts they return describe what happened to the stream
  (`GivesTheStream`, `SendsTheText`, `NothingSkipped`, `ExtraPerFailure`), a line helper
  returns one line (`OneLinePerCall`), and every call returns (`CallReturns`);
* lists: each macro is the insertion or removal it is named for, of its element
  and at its place in a sequence (`ImplementsItems`), on links that agree with each
  other (`WellLinked`), and a loop visits all (`ForeachVisitsAll`);
* trees: an insertion or removal changes a set of keys by its own key, in one of
  its steps, and nothing else changes it (`ImplementsOrderedSet`,
  `RbImplementsOrderedSet`), on a tree that keeps its shape (`WellFormed`,
  `RbWellFormed`); lookups answer for that set
  (`LookupsAgree`, `Answers`); the colour loops follow no null pointer
  (`NoNullFollowed`) and SPLAY's loop ends (`CallReturns`);
* utilities: see section 5.

## 2. Modules

| Module | Models | Read first |
|---|---|---|
| `Dispatch` | the abstract promise: a FIFO mailbox between one dispatcher and the workers | |
| `HandOff` | master, socketpair, workers up to `Open_epoll`; refinement mapping to `Dispatch` | `start`, `init_manager_proc`, `jump_task_pool_obj` |
| `HandOffProof` | theorems about `HandOff` and their proofs | |
| `HttpWorker` | the workers that received one connection: event loop and request code | `do_epoll`, `http_module.h` |
| `HttpWorkerProof` | theorems about `HttpWorker` and their proofs | |
| `ProcPool` | the table of children and its operations | `http_task.h:20-110, 215-296` |
| `ProcPoolProof` | theorems about `ProcPool` and their proofs | |
| `ReadIo` | the reading helpers, one caller that reads a stream through one of them | `rio_read`, `http_Readn`, `Read_s`, `http_Fgets_s`, `http_Fgets` |
| `ReadIoProof` | theorems about `ReadIo` and their proofs | |
| `WriteIo` | the writing helpers, one caller that writes a text through one of them | `rio_write`, `http_Writen`, `Write_s` |
| `WriteIoProof` | theorems about `WriteIo` and their proofs | |
| `MsgQueues` | the three queues, the processes and handlers that use them, over several runs | `http_ipc.h`, `epoll_circle.h:9-20` |
| `MsgQueuesProof` | theorems about `MsgQueues` and their proofs | |
| `Items` | the abstract promise of a list: a sequence, and the insertion or removal each macro is named for | |
| `BsdQueues` | the list macros on a memory of pointers; refinement mapping to `Items` | `list.h` |
| `BsdQueuesProof` | theorems about `BsdQueues` and their proofs | |
| `OrderedSet` | the abstract promise of a tree: a set of keys, and the insertion and removal of one | |
| `Pointers` | what both trees have in common: elements with a left and a right pointer, and where one comes by them | |
| `RbTree` | the red-black tree, one step for each iteration of its colour loops; refinement mapping to `OrderedSet` | `tree.h:330-769` |
| `SplayTree` | the splay tree, one step for each iteration of `SPLAY`; refinement mapping to `OrderedSet` | `tree.h:60-327` |
| `TreesProof` | theorems about `SplayTree` and `RbTree`, the lemmas on trees in memory they share, and their proofs | |
| `MCHttpWorker`, `MCReadIo`, `MCMsgQueues` | small sets of requests, symmetry, a stream, queue identifiers for TLC | |

`PROJECT.json` maps each definition to the lines it stands for.

**HandOff.** `mpc` is the place in `start`: the two sends of the retry loop are
the states `"send"` (its condition) and `"resend"` (its body). `sent` is
everything ever sent and `head` the read index, so the socketpair is
`SubSeq(sent, head+1, Len(sent))`; this keeps the whole history available to
the properties. `took[w]` is the index of the message worker `w` read.
`accepted` is both the history of accepts and the set of connections the master
holds, because it closes none. `Recv` is one `recvmsg` with what follows it: a
descriptor leads into `"serving"`, which nothing but death leaves, end of file
into `"returned"`. `NoWriter` is the kernel's condition for end of file. `EpollWait` is the
master's wait and the tests behind it: it leads into the accept loop or ends the
master (a failing `epoll_wait`, `EPOLLERR`, `EPOLLHUP`).

**HttpWorker.** The module stands for one connection and all workers that
received it (`Readers`). `HandOff` says who they are: one worker, or as many as
the connection has copies, which `CopiesBounded` bounds by the failed sends, and
`masterHolds` is true because its master closes nothing. The connection
(`request`, `arrived`, `got`, `peer`, `room`, `out`) is shared; the place, the
buffer, the descriptors and the status are each worker's own. A request is a
sequence of units (see the module's header); a segment brings one or more of
them. `got` counts what `read(fd, &c, 1)` has consumed, and `line[w]` is what
`readline` of `w` has in its buffer, as positions in `request`, so that a byte's
place in the stream stays visible when two workers tear a line apart. A restart
of `readline` empties it. `out` collects the parts of the responses with the
worker that sent them. The loops without exit are the states `spin_eof`
(`accept_request`, when `readline` can only return -1), `spin_recv` (the copying
loop), `spin_fdopen` (`do_read` on a closed descriptor). `close(fd)` with `fd`
never assigned is a choice of what it hits; a path taken from the uninitialized
rest of the buffer is a choice of what `stat` and `open` say.

**ProcPool.** `pool` is the list, first node first. Of its operations only
`init_manager_proc` is called by the server today. The others are modelled as
`start` could call them: between its own statements, `handler_dead_processor`
once for each child that was reaped.

**ReadIo, WriteIo.** A byte is its position in the stream or text and 0 is memory
that holds none of it, so that order, loss and repetition can be stated without
looking at content. A step is one system call with the code up to the next; the
size of what `read` or `write` returns is chosen. `given` (`ReadIo`) is what the
caller took out of its buffers by the counts it got, `wire` (`WriteIo`) is what the
receiver got. `http_Fgets` reads through stdio, whose buffer is left out: its
`GetChar` takes from the stream, and `taken` counts what left stdio. `Call` chooses
lengths of 2 and more, since `http_Fgets` with 1 compares a character it never
assigned. Counters are taken modulo `SizeT` where the code's type is
`size_t`; a failing call's -1 then shows as the counter's step in the wrong
direction. `uneven`, `cut` and `fails` record that a helper met a case it does not
handle; `GivesTheStream` and the promises of `WriteIo` say nothing behind it, and
which cases those are is part of them. `OneLinePerCall` holds behind it too.

**MsgQueues.** `frames[p]` is the stack of signal handlers of process p: for each,
`destroy_queue`'s loop index. A step of the loop is one `msgctl`. `arr[p]` is p's
copy of the array, made by `fork`. A queue has a key, 1 to 3, and an identifier,
which `Msgget` takes from `Ids`: any number that the kernel has free, 0 included,
which is what the array holds before it is assigned. So a process without
identifiers may remove this program's own queue, or another program's, which
`other` says has the identifier 0; the model assumes that no other program makes
a queue while this one runs. `made[p]` counts the entries that were assigned.
`Restart` is the program's next run, on the queues that the last one left.
`orphans` records which queues of a run have no handler that is sure to remove
them: those made before a failing `msgget`, those of a killed main process, those
behind the index of a handler that was killed or that the other one interrupted,
and all once a zeroed array has hit one of them. The queue that `msgget` has made
and `create_queue` has not stored yet may stay too: for `NoQueueLeft` it is one with
`k > made[Main]`.

**BsdQueues.** `mem` maps locations to values; the location of a field is a pair of
its name and its owner, so that `le_prev` and the `last` fields, which point to
pointers, can be written through. Each macro is an operator on the memory, with
one `Put` for each assignment of the C text. The cast in `TAILQ_LAST` is `Behind`.
`Chain(mem)` is the order of `FOREACH` and the refinement mapping to `Items`: the
sequence that follows the next fields from the head to where they end, stated
by what it is, without recursion. `AsNamed` ties each macro to the action of `Items`
with its name and its arguments: `INSERT_TAIL(e)` appends e, `INSERT_BEFORE(l, e)`
puts it in front of l.

**RbTree.** `tree` holds the root, the pointers of each element and the set of the
red ones. `RB_INSERT` and `RB_REMOVE` up to their colour loop are one action each
(`Insert`, `Remove`); every way through the body of `RB_INSERT_COLOR` and
`RB_REMOVE_COLOR` is an action, with `elm` and `parent` as the code's variables, so
that `RbWellFormed` can say what holds in the middle of the loop: the tree is right
everywhere but at the one place the loop stands at. The code writes each case
twice, for left and right; here the side is a parameter. The fields of a removed
element become `Junk`. Lookups (`Find`, `NextElm`, `MinMax`) change nothing and are
operators. `NoNullFollowed` follows the pointers that the loop reads without a
test for NULL. `RbAsCalled` ties `Insert(k)` and `Remove(k)` to the change of the set of
keys by k, and the steps of the colour loops to none. `TreesProof` extends `RbTree`
and `SplayTree`; of the names that
both have, those of `RbTree` begin with `Rb`.

**SplayTree.** One action is one iteration of `SPLAY`; `Header` is its local `__node`,
`end` its two variables `__left` and `__right`. `AtEnd` is the loop's way out between
a rotation and a link. The last action of a call is `SPLAY_ASSEMBLE` with the
rest of the calling macro; `SPLAY_REMOVE` calls `SPLAY` a second time with one subtree
in `saved`. Every lookup is such a call. `AsCalled` says which step of a call changes
the set of keys, by the call's key: the insertion's last, the removal's unlinking
of the root; no step of `SPLAY`, no second splaying and no lookup changes it.

**Pointers.** What hangs on to an element (`Under`, `Below`) is the smallest set that
is closed under the pointers, computed as a recursive function on the sets of
elements: it grows with every call, so it ends on any memory, one with a cycle
included. `Last` is where a `while` loop over a pointer ends.

## 3. Runs

| Run | Instance | Shows |
|---|---|---|
| `handoff` | 3 clients, 3 workers, socketpair of 2, table of 2, one failing send per client | `CopiesBounded`, `NothingLost`, `ServedOnce`, `ImplementsDispatch`, `InFlightIsTaken`, `SendingEnds` |
| `sigint` | 2 workers, socketpair of 1 | violated: workers run on after SIGINT to the master |
| `worker` | six requests, one reader, line buffer of 5 units, send buffer of 2 parts | `OneResponse`, `MethodIsReadUnlessDiscarded`, `WorksOnOpenDescriptor`, `LineIsAnswered`, `StuckAfterPeerCloses` |
| `shared` | one request, two readers, line buffer of 4, send buffer of 1 | `OnePagePerMethod`, `WorksOnOpenDescriptor` |
| `worker_file` | as `worker`, send buffer of 3 | violated: an opened document is never sent |
| `read_io` | a stream of 8 bytes with line feeds and 0xFF, buffers of 2 to 4, rio buffer of 5, 2 failures | `TypeOK`, `GivesTheStream`, `OneLinePerCall`, `CallReturns` |
| `write_io` | text of 6, buffers of up to 4, 3 failures, 10 bytes on the wire | `SendsTheText`, `NothingSkipped`, `ExtraPerFailure`, `CallReturns` |
| `queues` | main process and a child, each queue's identifier 0 or its own number, queues of 1 message, 2 runs | `NoQueueLeft`, `RemovedInOrder`, `SparesOthers`, `WaiterIsReleased` |
| `lists` | 3 elements, each kind of list | `WellLinked`, `ForeachVisitsAll`, `ImplementsItems` |
| `rb_tree` | 9 keys | `RbWellFormed`, `NoNullFollowed`, `LookupsAgree`, `RbImplementsOrderedSet` |
| `splay_tree` | 6 keys | `WellFormed`, `Answers`, `CallReturns`, `ImplementsOrderedSet` |
| `pool` | table of 3, 3 replacements, 4 notices, 1 free descriptor per child | `LiveChildrenRecorded`, `OneNodePerChild`, `DealtEvenly`, `TellEndsChildrenOnly` |

`TypeOK` of `HandOff`, `HttpWorker`, `WriteIo`, `MsgQueues` and `ProcPool` is proved
(section 4) and no longer run; in `BsdQueues`, `RbTree` and `SplayTree` it is the
first conjunct of `WellLinked`, `RbWellFormed` or `WellFormed`.

**Bounds.** `handoff` sends up to four messages (each of the two connections
that its descriptor table has room for twice) to three workers over a socketpair
of two: the socketpair fills, the table is full when the third client comes,
workers run out, duplicates go to different workers, and every process may die
at any point. `MaxFail` bounds the sends that fail; in the code they may fail
without end, and then the master stays in its loop. The line buffer of
`HttpWorker` is shorter than one of the requests and exactly as long as
another's first line. In `shared` the request is a line and the beginning of what
looks like another, so that two readers could both find a method if a piece of
it could be read twice, and the buffer holds all of it. `ProcPool`'s
bounds allow every node to be replaced once, and `nleft` to go below zero.
`ReadIo`'s buffers are shorter than a line, as long, and longer, and its rio
buffer is filled twice; `SizeT` is small enough to wrap and larger than every
honest count. `WriteIo`'s `MaxWire` cuts off `http_Writen` where it writes on
and on; the other two never reach it. Two runs and two nested handlers per
process are what `MsgQueues` needs for every overlap of two removals and for
what one run leaves to the next. Of the identifiers only 0 is special to the
code, and the other ones differ, so 0 or k for queue k are all cases. Three
elements give a list macro a first, a
middle and a last one. Nine keys let both colour loops of the red-black tree go
on after a recolouring further down and go through every one of their cases; six
give the splay tree paths with every combination of turns, and a `SPLAY_REMOVE`
between two subtrees that are not empty.

**Fairness.** `HandOff`: weak fairness of the master's sends and of each
worker's own steps, which the kernel's scheduler gives to a process that can
run; none for arrivals, signals and crashes. `HttpWorker`: weak fairness of the
worker alone. `ReadIo`: the sender sends and closes in the end. `WriteIo`: the
receiver reads on. `MsgQueues`: every process is scheduled.
`SplayTree`: a call that runs goes on (`Running`), being one sequential program.
`RbTree`, `BsdQueues`, `ProcPool` need none.

**Deadlock** is checked where the system cannot stop (`HttpWorker`, whose file
system always may change) and not where every process may have been killed
(`HandOff`, `ProcPool`, `MsgQueues`) or the text ends (`ReadIo`, where `rio_read`
may also end the process, and `WriteIo`). `HttpWorker`'s shared run stops when all
readers are dead. In `BsdQueues`, `RbTree` and `SplayTree` it is checked.

### What the violations show

* `SigintReachesWorkers`: `inc/http_task.h:252` says of `tell_chld_exit` "TELL
  CHLD TO EXIT WHEN ACCEPT SIGINT SIGNAL"; `sig_int_kill` does not call it.
* `FileIsSent`: `http_module.h:37` calls the server "httpd of file get and sent
  system"; `http_rcv` cannot read a file.

The models also show, without a run that expects it: after a restart of `readline`
the buffer holds the rest of a line and a request that arrives in two segments is
answered 501 (`ReadError`; `MethodIsReadUnlessDiscarded` excludes it); a second
`rio_read` repeats the bytes of the first, since it copies from the start of its
buffer (`RioTake`; `GivesTheStream` excludes it); an interrupted read makes
`rio_read` copy (size_t)-1 bytes (`RioReadFails`); the error branches of
`http_Readn`, `http_Writen` and `http_Fgets_s` are never taken, their results being
`size_t` (`ReadFails`, `FailureGoesBack`, `GetFails`); the server's handlers remove the
identifier 0, since nothing calls `create_queue` (`Remove` with a zeroed `arr`): that
queue may be another program's, or this program's own if `create_queue` were
called after a child was forked, and then the main process's handler ends where it
comes to it and leaves the rest.

## 4. Proofs

`HandOffProof` proves about `Spec` of `HandOff`, for every set of clients, every
finite nonempty set of workers and all capacities (`HandOffAssumption`):
`TypeOK`, every safety invariant the run `handoff` checks, the bound on what is
ever taken, and the refinement of `Dispatch`. The argument has four inductive
invariants, each preserved action by action:

* `TakenInv` (with `TypeOK`): what was taken lies at or below `head`, and a
  worker that can receive has taken nothing. `OneTakerPerMessage` alone is not
  inductive: without the bound by `head` the next message could already have a
  taker. It also holds `NoWorkerReturns`, because the receiving worker itself
  is a holder of the writing end.
* `OneMessagePerWorker`: by the cardinality of the set of takers, which grows
  by the receiving worker.
* `HoldInv`: while the master sends, `clientfd` is the connection accepted last.
* `FreshInv` and `CopyInv`: nothing is accepted twice, only accepted connections
  are sent; in the loop's condition each earlier copy is paid for by a failed
  send, in its body one failure more than that is on account.

The refinement uses `TypeOK`, `TakenInv` and `FreshInv`: a successful `resend` is
`Post`, a successful `send` is `PostAndRelease`, `Recv` is `Take`, the ends of
the master are `Stop`, everything else stutters.

`WriteIoProof` proves about `Spec` of `WriteIo`, for every subset of the helpers,
every length of text and buffer, every number of failures and every `size_t` that
holds twice their sum (`WriteIoAssumption`): the three safety invariants of the
run `write_io`.

* `CallInv`: in a running call of `rio_write` or `Write_s` pointer and counter add up
  to the length, the counter is positive, and the pointer is in front of the
  buffer by the number of failures at most. With the assumption on `SizeT` this
  makes the arithmetic modulo `SizeT` exact, and a count that is negative look
  negative to the caller (`ModSmall`, `ModNegative`, `ReturnCounts`).
* `ExtraInv`, `SkipInv`, `TextInv`: the three invariants with the place of the
  pointer in a running call, which the promises between calls do not speak of
  and without which they are not inductive. `WireGrows` says what a write adds to
  the wire, from the library's facts about concatenation.

`HttpWorkerProof` proves about `Spec` of `HttpWorker`, for every finite set of readers,
every set of requests, every line buffer and send buffer (`HttpWorkerAssumption`):
`TypeOK` and every safety invariant of the runs `worker` and `shared`.

* `PlaceInv`: which places need the connection to be open, and where a status
  exists already or not yet. `WorksOnOpenDescriptor` is part of it; what makes it
  inductive is that `Close` leads to `"wait"` with the descriptor closed, from where
  `Wait` can only reach `spin_fdopen`.
* `OutInv`: everything a reader sent belongs to its present status, and while it
  answers, to the parts before the next one. With `PlaceInv` a second status, and
  so a second response, cannot come: `"wait"` with an open connection has none.
* `LineInv` (with `SocketInv`): what is in any buffer has been read, at or below
  `got`, so that the unit read next is in none, and no unit is in two buffers
  (`NoByteTwice`); and a buffer has room while `readline` runs, which bounds it by
  `MaxLine`.
* `PageInv`: a reader that answers with a page, or is about to look for one, has the
  two pieces of a method at the start of its buffer, whatever else it put together
  there, and its buffer does not change any more. With `LineInv` two such readers
  have different pieces, and so there are as many of them in what the client sent
  (`PagesHaveMethods`).
* `FirstLineInv`: a reader that is alone with what arrives and has dropped no full
  buffer holds one unbroken piece of the request that begins behind nothing but
  empty lines (`InOnePiece`); when it is parsed, the line is over (`Over`), and its
  status goes with the method in it. `MethodOfFirstLine` then shows that the method
  of what the buffer holds is that of the request's first line, whatever follows
  the line and wherever the buffer ended. `MethodOfRequest` assumes `MaxLine > 2`,
  which `BUFFSIZE` (1024, `http_module.h:38`) satisfies: in a buffer of one or two
  characters no method could be told from the next word.

`ProcPoolProof` proves about `Spec` of `ProcPool`, for a table of any size and any
number of children and notices (`ProcPoolAssumption`): `TypeOK`, the three
invariants and the action property of the run `pool`. `PoolInv` says what
`init_manager_proc` has filled so far (`Filling`), and afterwards that the table
has all its nodes (`Filled`); it bounds `n_proc` by the number of nodes, which is
why the test in `insert_pool` never turns a child away although the counter
drifts. `DealtEvenly` needs that `notice_child` finds a node with the most
descriptors: `GreatestIndex` and `LeastIndex` show that the choice is made, by the
library's well-foundedness of the naturals (`LeastNatural`). For replacements it needs
that no node has more than `MaxFd` descriptors: a new child starts with these, so no
earlier one has more.

`MsgQueuesProof` proves about `Spec` of `MsgQueues`, for every set of children, every
set of identifiers for each queue, every capacity and every number of runs
(`MsgQueuesAssumption`): `TypeOK` and all that the run `queues` checks but its liveness.

* `StateInv` (`TypeOK` and `ArrInv`): the main process's array is filled from the
  left, and a child's is the zeroed one or the full one.
* `OrderInv` is `RemovedInOrder` with what makes it inductive. `IdInv`: what the kernel
  has at one time differs in its identifiers, and `arr` holds those of the queues that
  are still there. `CreatedInv`: while `create_queue` runs, a queue it made can only
  have gone by a zeroed array, so that two entries of `arr` are the same only if they
  are 0. `BehindInv`: what a handler with the full array has behind its index is gone.
  `QueuesGoInOrder` and `OthersSpared` follow.
* `CleanInv`: `NoQueueLeft` asks who removes what is left. If a zeroed array hit a queue
  of this run, nobody may be left to, and all are orphans. Otherwise (`Whole`) nothing
  that `create_queue` made goes while it runs (`StandingInv`), the identifier of a queue
  that is gone is not given again (`UniqueInv`), and of three cases one holds
  (`PhaseInv`): all that is left is an orphan; or all queues are there and the main
  process lives; or just one handler has begun to remove them (`Sweeper`), with those
  up to its index gone and the rest there. `NothingLeft` follows.

`ReadIoProof` proves about `Spec` of `ReadIo`, for every stream, every length of the
buffers, every number of failures and every `size_t` that holds them
(`ReadIoAssumption`): `TypeOK` and the two other invariants of the run `read_io`.

* `CallInv`: in a running call pointer and counter add up to the length, so that no
  counter wraps but where `http_Readn` has met its second read or a failure, and
  what the rio buffer holds is of the stream.
* `GivesInv`: `GivesTheStream` speaks of what was given; what makes it inductive is
  what the running call has: the bytes at the start of its buffer (`Has`) are
  the next ones of the stream, and given and held are all that was taken.
  `http_Readn` reads to the start of its buffer each time, so for it the count is
  `len - nleft` and not the pointer.
* `LineInv`: the characters in the buffer of a running call contain no line feed, and
  those of a finished one, which were given, none but the last; `EndedBy` says of the
  last one why the call could end there. It does not need `GivesInv`: it holds through
  a failing read, which stores a character again, or one that was never assigned.

`BsdQueuesProof` proves about `Spec` of `BsdQueues`, for every finite set of elements
and each kind of list (`BsdQueuesAssumption`): both invariants of the run `lists` and
the refinement of `Items`, with each macro the change it is named for (`AsNamed`).

* `ListInv`: there is a sequence without repetition that the memory is linked as
  (`Linked`): next fields, back pointers, tail pointer. That the next fields lead
  along one sequence only (`OneWay`) makes `Chain` this sequence (`ChainIs`).
* Each macro is reduced to what it does at one place of the memory: `Gap` describes
  the pointers around that place, `Inserts` and `Takes` what a macro must change
  there and what it must leave alone. One lemma per macro shows that its assignments,
  in their order, do that; `InsertKeeps` and `TakeKeeps` show, once for all macros,
  that the memory is then linked as the sequence with the element added or removed.
* `LoopInv`: what a `FOREACH` has visited is the beginning of what there was, and from
  its current element on the list has the rest. `ForeachVisitsAll` alone does not say
  where the loop stands, and is not inductive.

`TreesProof` proves about `Spec` of `SplayTree`, for every number of keys
(`PointersAssumption`): the invariant `WellFormed`, the action property `Answers` and
the refinement of `OrderedSet`, all that the run `splay_tree` checks but its liveness.
That each call changes the set of keys by its own key, in the one step that `AsCalled`
names, and no other step changes it, is `CalledKeeps`.

* `WellFormed` speaks of the tree between calls, and in a call the memory itself is no
  tree: behind an open end of a piece `SPLAY_LINK` leaves the pointer that the
  next link or the assembly will set, and it leads into another piece. So
  `PiecesInv` looks at the memory with these two pointers cut (`Cut`). There the
  pieces are search trees, what is on one side of SPLAY's node is beyond the key
  and beyond the rest, and each open end is the outermost element of its piece
  (`Loose`, `OpenAt`). Of the pointers that were cut it says that they lead to some
  element, which is why through the memory as it is, too, one reaches exactly the
  elements of the pieces (`KeysAre`).
* What hangs on to an element is the least closed set (`UnderIs`), so that facts
  about it follow from closed sets instead of induction: an element and its
  two subtrees make up a tree (`Unfold`), and a change of a pointer elsewhere leaves
  it alone (`SameUnder`). `Turn`, `Link` and `Assembly` say once, for any memory, what
  `SPLAY_ROTATE`, `SPLAY_LINK` and `SPLAY_ASSEMBLE` do to such trees, for both sides
  (`Attach` puts a tree at an open end).
* `AssembledIs`: at the loop's end the tree is whole, over the same elements, and
  no element lies between the key and the root. Each call's end follows from it:
  `NewRoot` puts an inserted element over root and subtree, in `JoinEndKeeps` the
  splayed left subtree has no right child to lose, and the lookups' answers are at
  the root, or the leftmost element of its right subtree (`LeftmostIs`, by the
  well-foundedness of the naturals).

About `RbSpec` of `RbTree` it proves, for every number of keys, all that the run
`rb_tree` checks: the refinement of `OrderedSet` with `RbAsCalled` (`ImplementsSet`)
and the invariants
`NoNullFollowed`, `RbWellFormed` and `LookupsAgree`.

* None of them is inductive: that a red parent has a parent, or the short side a
  sibling, follows from the balance of the whole tree. `BalanceInv` states it in the
  form that each step preserves: `Linked`, a search tree with its parent
  pointers; `RedRule`, a red element has no red child, but for `elm` (below a red
  parent in `RB_INSERT_COLOR`, or itself red in `RB_REMOVE_COLOR`); `Balanced`, there
  are black heights, and the way through one pointer, the one from `parent` to `elm`
  in `RB_REMOVE_COLOR`, is one short.
* Heights are claimed to exist, they are not computed: a step's proof names the
  heights after it (`BalancedTurn`: a rotation with its exchange of colours
  changes those of two elements, at most), and no induction over the tree is needed.
  `RotateIs` and `TurnLinked` show what a rotation does, with the pointer in the
  parent or the root; each action's lemma (`InsertRecolours`, `OuterRotates`,
  `InnerRotates`, `ShortRecolours`, `SiblingTurns`, `OuterTurns`, `LastTurn`) is about any
  tree, element and side, and `InsertRotateStep`, `RemoveRotateStep` and the like
  apply it to the variables.
* A removal is taken apart as the code does it: unlinking (`UnlinkHolds`), the
  successor taking the place (`TakenHolds`, with the successor a child of the
  element or further down, `RemoveTwo`), freeing (`FreedHolds`).
* `RbWellFormed` counts black elements on the ways up, by parent pointers;
  `BalanceInv` has heights, on the ways down. `BlacksBalance` shows that the number of
  black elements above an element and its height add up to the same everywhere
  but below the one short pointer, where it is one less; `RootUp` and `WaysAgree` that all ways start from the root.
* `LookupsAgree`: `DescendIs` (the descent ends at the key or where it would be
  hung), `MinMaxIs`, and for `RB_NEXT` `WayUpIs` and `NextIs`: climbing from a right
  child passes smaller elements only.

Only model-checked: liveness and fairness (out of the prover's reach): `InFlightIsTaken`,
`SendingEnds`, `LineIsAnswered`, `StuckAfterPeerCloses`, `CallReturns`, `WaiterIsReleased`.

## 5. Not modelled

* `epoll_circle.h:112-135`, `do_write`, `handle_accpet`, the 100/303/400/411/505
  pages, `http_module_error`, `pthread_handler`, `open_max_fd`: unreachable.
* `cross_ok`: its only caller is commented out; it assigns to `item->pid` where
  it should compare.
* `src/rb_tree.c`: an unfinished red-black tree that does not compile (`alloc_node`
  returns nothing, no insertion or removal), whose rotations (50-92) never set
  `node->parent`. Configuration and wrappers: they exit on error, which the
  modules above show as exits.
* The body of a tree's FOREACH that frees the current element: the code offers no
  safe variant, and the next step reads freed memory.
* `peek_message`, which changes no state; message types; the one byte that
  `http_Fgets_s` and `readline` write behind a full buffer.
* A response part that is cut short counts as lost; lengths of methods and urls
  (`PARTSIZE`) and memory beyond buffers are not represented.

## 6. Plan

1. done: `Dispatch`, `HandOff`, `HandOffProof`, `HttpWorker`, `ProcPool`.
2. done: `ReadIo`, `WriteIo`, `WriteIoProof`, `MsgQueues`, `Items`, `BsdQueues`.
3. done: several readers of one connection in `HttpWorker`; `OrderedSet`, `RbTree`,
   `SplayTree`; `HttpWorkerProof`, `ProcPoolProof`, `MsgQueuesProof`.
4. `Listen`: the address loops of `open_listenfd` and `open_clientfd`
   (`sock.h:183-257`), whose wrappers exit where the loop would try the next one.
5. done: `ReadIoProof`, `BsdQueuesProof`, `MethodOfRequest` in `HttpWorkerProof`.
6. done: `TreesProof`, for both trees.

------------------------------ MODULE BsdQueues -----------------------------
(***************************************************************************)
(* The list macros of inc/list.h as what they do to memory: singly linked  *)
(* lists, lists, simple queues, tail queues, circular queues.  The pool of *)
(* children (inc/http_task.h) is an SLIST.                                 *)
(*                                                                         *)
(* Memory maps locations to values.  The location of a field is a pair of  *)
(* its name and its owner; a pointer to an element is the element, a       *)
(* pointer to a pointer is a location.  A macro is an operator that takes  *)
(* the memory before it to the memory after it, one assignment at a time.  *)
(* The QUEUEDEBUG macros are empty in this build; what they check is       *)
(* stated as properties.                                                   *)
(*                                                                         *)
(* Variants are definitions with a plausible mistake, as in HandOff.       *)
(***************************************************************************)
EXTENDS Naturals, Sequences, FiniteSets

CONSTANTS
  Elements,
  Null,     \* the null pointer
  ListHead, \* the list's head, as CIRCLEQ casts it
  Junk      \* what a field holds that was never assigned

ASSUME BsdQueuesAssumption ==
  /\ IsFiniteSet(Elements)
  /\ Null \notin Elements /\ ListHead \notin Elements /\ Junk \notin Elements
  /\ Null # ListHead /\ Null # Junk /\ ListHead # Junk

Kinds == {"SLIST", "LIST", "SIMPLEQ", "TAILQ", "CIRCLEQ"}

VARIABLES
  kind,   \* which macros are used on this list
  mem,    \* the memory
  cur,    \* the variable of a running FOREACH, Null when there is none
  seen,   \* history: the elements the running FOREACH has visited
  want    \* history: the elements there were when it started

vars == <<kind, mem, cur, seen, want>>

First == <<"first", ListHead>>
Last == <<"last", ListHead>>
Nxt(e) == <<"next", e>>
Prv(e) == <<"prev", e>>

Locs == {First, Last} \cup ({"next", "prev"} \X Elements)

\* Two assignments are Put(Put(m, a, x), b, y).
Put(m, loc, val) == [m EXCEPT ![loc] = val]

\* s is a way from the head along the next fields; what lies behind its end.
Follows(m, s) ==
  \A i \in 1..Len(s) : s[i] = IF i = 1 THEN m[First] ELSE m[Nxt(s[i - 1])]

Beyond(m, s) == IF s = <<>> THEN m[First] ELSE m[Nxt(s[Len(s)])]

\* The elements in the order of FOREACH; a way that goes in a circle is cut off
\* where it has as many as there are.
Chain(m) ==
  LET N == Cardinality(Elements)
  IN  CHOOSE s \in UNION {[1..n -> Elements] : n \in 0..N} :
        /\ Follows(m, s)
        /\ Len(s) = N \/ Beyond(m, s) \in {Null, ListHead}

items == Chain(mem)
Members == {items[i] : i \in 1..Len(items)}

-----------------------------------------------------------------------------
(* Lists.                                                                  *)

LIST_INSERT_AFTER(m, l, e) ==
  LET m1 == Put(m, Nxt(e), m[Nxt(l)])
      m2 == IF m1[Nxt(e)] # Null THEN Put(m1, Prv(m1[Nxt(l)]), Nxt(e)) ELSE m1
  IN  Put(Put(m2, Nxt(l), e), Prv(e), Nxt(l))

\* Also TAILQ_INSERT_BEFORE.
LIST_INSERT_BEFORE(m, l, e) ==
  LET m1 == Put(Put(m, Prv(e), m[Prv(l)]), Nxt(e), l)
  IN  Put(Put(m1, m1[Prv(l)], e), Prv(l), Nxt(e))

LIST_INSERT_HEAD(m, e) ==
  LET m1 == Put(m, Nxt(e), m[First])
      m2 == IF m1[Nxt(e)] # Null THEN Put(m1, Prv(m1[First]), Nxt(e)) ELSE m1
  IN  Put(Put(m2, First, e), Prv(e), First)

\* Variant: the successor's prev is left where it was.
LIST_REMOVE_ForwardOnly(m, e) == Put(m, m[Prv(e)], m[Nxt(e)])

LIST_REMOVE(m, e) ==
  LET m1 == IF m[Nxt(e)] # Null THEN Put(m, Prv(m[Nxt(e)]), m[Prv(e)]) ELSE m
  IN  Put(m1, m1[Prv(e)], m1[Nxt(e)])

-----------------------------------------------------------------------------
(* Singly linked lists.                                                    *)

SLIST_INSERT_AFTER(m, l, e) == Put(Put(m, Nxt(e), m[Nxt(l)]), Nxt(l), e)

SLIST_INSERT_HEAD(m, e) == Put(Put(m, Nxt(e), m[First]), First, e)

SLIST_REMOVE_HEAD(m) == Put(m, First, m[Nxt(m[First])])

\* The while loop goes along the chain to the element before e.
Before(m, e) ==
  Chain(m)[CHOOSE i \in 1..Len(Chain(m)) : m[Nxt(Chain(m)[i])] = e]

\* Variant: the removed element is cut off from its successors.
SLIST_REMOVE_Clears(m, e) ==
  IF m[First] = e THEN Put(SLIST_REMOVE_HEAD(m), Nxt(e), Null)
  ELSE Put(Put(m, Nxt(Before(m, e)), m[Nxt(e)]), Nxt(e), Null)

SLIST_REMOVE(m, e) ==
  IF m[First] = e THEN SLIST_REMOVE_HEAD(m)
  ELSE Put(m, Nxt(Before(m, e)), m[Nxt(e)])

-----------------------------------------------------------------------------
(* Simple queues.                                                          *)

SIMPLEQ_INSERT_HEAD(m, e) ==
  LET m1 == Put(m, Nxt(e), m[First])
      m2 == IF m1[Nxt(e)] = Null THEN Put(m1, Last, Nxt(e)) ELSE m1
  IN  Put(m2, First, e)

SIMPLEQ_INSERT_TAIL(m, e) ==
  LET m1 == Put(m, Nxt(e), Null) IN Put(Put(m1, m1[Last], e), Last, Nxt(e))

SIMPLEQ_INSERT_AFTER(m, l, e) ==
  LET m1 == Put(m, Nxt(e), m[Nxt(l)])
      m2 == IF m1[Nxt(e)] = Null THEN Put(m1, Last, Nxt(e)) ELSE m1
  IN  Put(m2, Nxt(l), e)

\* Variant: the tail pointer of an emptied queue is left in the element.
SIMPLEQ_REMOVE_HEAD_KeepsLast(m, e) == Put(m, First, m[Nxt(e)])

\* e is the first element.
SIMPLEQ_REMOVE_HEAD(m, e) ==
  LET m1 == Put(m, First, m[Nxt(e)])
  IN  IF m1[First] = Null THEN Put(m1, Last, First) ELSE m1

-----------------------------------------------------------------------------
(* Tail queues.                                                            *)

TAILQ_INSERT_HEAD(m, e) ==
  LET m1 == Put(m, Nxt(e), m[First])
      m2 == IF m1[Nxt(e)] # Null THEN Put(m1, Prv(m1[First]), Nxt(e))
            ELSE Put(m1, Last, Nxt(e))
  IN  Put(Put(m2, First, e), Prv(e), First)

TAILQ_INSERT_TAIL(m, e) ==
  LET m1 == Put(Put(m, Nxt(e), Null), Prv(e), m[Last])
  IN  Put(Put(m1, m1[Last], e), Last, Nxt(e))

TAILQ_INSERT_AFTER(m, l, e) ==
  LET m1 == Put(m, Nxt(e), m[Nxt(l)])
      m2 == IF m1[Nxt(e)] # Null THEN Put(m1, Prv(m1[Nxt(e)]), Nxt(e))
            ELSE Put(m1, Last, Nxt(e))
  IN  Put(Put(m2, Nxt(l), e), Prv(e), Nxt(l))

TAILQ_REMOVE(m, e) ==
  LET m1 == IF m[Nxt(e)] # Null THEN Put(m, Prv(m[Nxt(e)]), m[Prv(e)])
            ELSE Put(m, Last, m[Prv(e)])
  IN  Put(m1, m1[Prv(e)], m1[Nxt(e)])

\* The cast to a head: what lies behind a pointer field is read as tqh_last,
\* the prev field of an element or the head's own.
Behind(loc) == IF loc = First THEN Last ELSE Prv(loc[2])

TAILQ_LAST(m) == m[m[Behind(m[Last])]]
TAILQ_PREV(m, e) == m[m[Behind(m[Prv(e)])]]

-----------------------------------------------------------------------------
(* Circular queues.                                                        *)

CIRCLEQ_INSERT_AFTER(m, l, e) ==
  LET m1 == Put(Put(m, Nxt(e), m[Nxt(l)]), Prv(e), l)
      m2 == IF m1[Nxt(l)] = ListHead THEN Put(m1, Last, e) ELSE Put(m1, Prv(m1[Nxt(l)]), e)
  IN  Put(m2, Nxt(l), e)

CIRCLEQ_INSERT_BEFORE(m, l, e) ==
  LET m1 == Put(Put(m, Nxt(e), l), Prv(e), m[Prv(l)])
      m2 == IF m1[Prv(l)] = ListHead THEN Put(m1, First, e) ELSE Put(m1, Nxt(m1[Prv(l)]), e)
  IN  Put(m2, Prv(l), e)

CIRCLEQ_INSERT_HEAD(m, e) ==
  LET m1 == Put(Put(m, Nxt(e), m[First]), Prv(e), ListHead)
      m2 == IF m1[Last] = ListHead THEN Put(m1, Last, e) ELSE Put(m1, Prv(m1[First]), e)
  IN  Put(m2, First, e)

CIRCLEQ_INSERT_TAIL(m, e) ==
  LET m1 == Put(Put(m, Nxt(e), ListHead), Prv(e), m[Last])
      m2 == IF m1[First] = ListHead THEN Put(m1, First, e) ELSE Put(m1, Nxt(m1[Last]), e)
  IN  Put(m2, Last, e)

CIRCLEQ_REMOVE(m, e) ==
  LET m1 == IF m[Nxt(e)] = ListHead THEN Put(m, Last, m[Prv(e)])
            ELSE Put(m, Prv(m[Nxt(e)]), m[Prv(e)])
  IN  IF m1[Prv(e)] = ListHead THEN Put(m1, First, m1[Nxt(e)])
      ELSE Put(m1, Nxt(m1[Prv(e)]), m1[Nxt(e)])

-----------------------------------------------------------------------------
(* The operations of each kind of list.                                    *)

\* The memory after INIT: SLIST and LIST have no last.
Fresh(k) ==
  [loc \in Locs |->
     CASE loc = First -> IF k = "CIRCLEQ" THEN ListHead ELSE Null
       [] loc = Last /\ k = "CIRCLEQ" -> ListHead
       [] loc = Last /\ k \in {"SIMPLEQ", "TAILQ"} -> First
       [] OTHER -> Junk]

Init ==
  /\ kind \in Kinds
  /\ mem = Fresh(kind)
  /\ cur = Null /\ seen = <<>> /\ want = <<>>

InsertedAtHead(e) ==
  CASE kind = "SLIST"   -> SLIST_INSERT_HEAD(mem, e)
    [] kind = "LIST"    -> LIST_INSERT_HEAD(mem, e)
    [] kind = "SIMPLEQ" -> SIMPLEQ_INSERT_HEAD(mem, e)
    [] kind = "TAILQ"   -> TAILQ_INSERT_HEAD(mem, e)
    [] kind = "CIRCLEQ" -> CIRCLEQ_INSERT_HEAD(mem, e)

InsertedAfter(l, e) ==
  CASE kind = "SLIST"   -> SLIST_INSERT_AFTER(mem, l, e)
    [] kind = "LIST"    -> LIST_INSERT_AFTER(mem, l, e)
    [] kind = "SIMPLEQ" -> SIMPLEQ_INSERT_AFTER(mem, l, e)
    [] kind = "TAILQ"   -> TAILQ_INSERT_AFTER(mem, l, e)
    [] kind = "CIRCLEQ" -> CIRCLEQ_INSERT_AFTER(mem, l, e)

\* A simple queue is only ever shortened at its head.
CanRemove(e) == e \in Members /\ (kind = "SIMPLEQ" => mem[First] = e)

Removed(e) ==
  CASE kind = "SLIST"   -> SLIST_REMOVE(mem, e)
    [] kind = "LIST"    -> LIST_REMOVE(mem, e)
    [] kind = "SIMPLEQ" -> SIMPLEQ_REMOVE_HEAD(mem, e)
    [] kind = "TAILQ"   -> TAILQ_REMOVE(mem, e)
    [] kind = "CIRCLEQ" -> CIRCLEQ_REMOVE(mem, e)

NoLoop == cur = Null
KeepLoop == UNCHANGED <<kind, cur, seen, want>>

InsertHead(e) ==
  NoLoop /\ e \notin Members /\ mem' = InsertedAtHead(e) /\ KeepLoop

InsertAfter(l, e) ==
  /\ NoLoop /\ e \notin Members /\ l \in Members
  /\ mem' = InsertedAfter(l, e)
  /\ KeepLoop

InsertBefore(l, e) ==
  /\ NoLoop /\ e \notin Members /\ l \in Members
  /\ \/ kind \in {"LIST", "TAILQ"} /\ mem' = LIST_INSERT_BEFORE(mem, l, e)
     \/ kind = "CIRCLEQ" /\ mem' = CIRCLEQ_INSERT_BEFORE(mem, l, e)
  /\ KeepLoop

InsertTail(e) ==
  /\ NoLoop /\ e \notin Members
  /\ \/ kind = "SIMPLEQ" /\ mem' = SIMPLEQ_INSERT_TAIL(mem, e)
     \/ kind = "TAILQ" /\ mem' = TAILQ_INSERT_TAIL(mem, e)
     \/ kind = "CIRCLEQ" /\ mem' = CIRCLEQ_INSERT_TAIL(mem, e)
  /\ KeepLoop

Remove(e) == NoLoop /\ CanRemove(e) /\ mem' = Removed(e) /\ KeepLoop

\* FOREACH: the variable gets the first element.
Foreach ==
  /\ NoLoop /\ items # <<>>
  /\ cur' = mem[First] /\ seen' = <<mem[First]>> /\ want' = items
  /\ UNCHANGED <<kind, mem>>

\* The body may take the current element out, as delete_pool_obj does, or put
\* one at the head that was not there when the loop started.
BodyRemoves == CanRemove(cur) /\ mem' = Removed(cur)

BodyInserts(e) ==
  /\ e \notin Members /\ \A i \in 1..Len(want) : want[i] # e
  /\ mem' = InsertedAtHead(e)

\* Then the next field of the current element is read, whether it is still in
\* the list or not.
ForeachNext ==
  /\ cur # Null
  /\ UNCHANGED mem \/ BodyRemoves \/ \E e \in Elements : BodyInserts(e)
  /\ LET next == mem'[Nxt(cur)]
     IN  IF next \in {Null, ListHead}
         THEN cur' = Null /\ UNCHANGED seen
         ELSE cur' = next /\ seen' = Append(seen, next)
  /\ UNCHANGED <<kind, want>>

Next ==
  \/ \E e \in Elements :
       \/ InsertHead(e) \/ InsertTail(e) \/ Remove(e)
       \/ \E l \in Elements : InsertAfter(l, e) \/ InsertBefore(l, e)
  \/ Foreach \/ ForeachNext

Spec == Init /\ [][Next]_vars

-----------------------------------------------------------------------------
Pointers == Elements \cup {Null, ListHead, Junk} \cup Locs

TypeOK ==
  /\ kind \in Kinds
  /\ mem \in [Locs -> Pointers]
  /\ mem[First] \in Elements \cup {IF kind = "CIRCLEQ" THEN ListHead ELSE Null}
  /\ kind = "CIRCLEQ" => mem[Last] \in Elements \cup {ListHead}
  /\ kind \in {"SIMPLEQ", "TAILQ"} => mem[Last] \in {First} \cup {Nxt(e) : e \in Elements}
  /\ cur \in Elements \cup {Null}
  /\ seen \in Seq(Elements) /\ want \in Seq(Elements)
  /\ Len(seen) <= Cardinality(Elements)

I == INSTANCE Items

\* A macro changes the list by its element and at its place, in the body of a
\* loop as well.
AsNamed ==
  /\ \A e \in Elements :
       /\ InsertHead(e) => I!InsertHead(e)
       /\ InsertTail(e) => I!InsertTail(e)
       /\ Remove(e) => I!Remove(e)
       /\ \A l \in Elements :
            /\ InsertAfter(l, e) => I!InsertAfter(l, e)
            /\ InsertBefore(l, e) => I!InsertBefore(l, e)
       /\ ForeachNext /\ BodyInserts(e) => I!InsertHead(e)
  /\ ForeachNext /\ BodyRemoves => I!Remove(cur)

\* The list is a sequence of distinct elements, and every macro changes it by
\* the one insertion or removal it is named for.
ImplementsItems == I!Spec /\ [][AsNamed]_vars

\* QUEUEDEBUG_LIST_OP and QUEUEDEBUG_TAILQ_OP: what points to an element is
\* where its prev says; so are the elements of a circular queue its
\* neighbours' neighbours.
BackLinks ==
  \A i \in 1..Len(items) :
    /\ kind \in {"LIST", "TAILQ"} =>
         mem[Prv(items[i])] = IF i = 1 THEN First ELSE Nxt(items[i - 1])
    /\ kind = "CIRCLEQ" =>
         mem[Prv(items[i])] = IF i = 1 THEN ListHead ELSE items[i - 1]

\* QUEUEDEBUG_TAILQ_INSERT_TAIL: the tail pointer is the location of the null
\* pointer that ends the chain.
TailPointer ==
  kind \in {"SIMPLEQ", "TAILQ"} =>
    mem[Last] = IF items = <<>> THEN First ELSE Nxt(items[Len(items)])

\* FOREACH_REVERSE gives the elements of FOREACH from the last to the first,
\* in a tail queue through the cast of TAILQ_LAST and TAILQ_PREV.
ReverseOrder ==
  LET n == Len(items) IN
  /\ kind = "TAILQ" =>
       /\ TAILQ_LAST(mem) = IF n = 0 THEN Null ELSE items[n]
       /\ \A i \in 1..n :
            TAILQ_PREV(mem, items[i]) = IF i = 1 THEN Null ELSE items[i - 1]
  /\ kind = "CIRCLEQ" => mem[Last] = IF n = 0 THEN ListHead ELSE items[n]

\* The second way through each list agrees with the first after every macro:
\* back pointers, tail pointer and FOREACH_REVERSE.
WellLinked == TypeOK /\ BackLinks /\ TailPointer /\ ReverseOrder

\* A FOREACH visits the elements there were when it started, all and in order,
\* though its body removes the current one or inserts others at the head.
ForeachVisitsAll ==
  /\ Len(seen) <= Len(want) /\ seen = SubSeq(want, 1, Len(seen))
  /\ NoLoop => seen = want

=============================================================================

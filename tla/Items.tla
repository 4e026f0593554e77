-------------------------------- MODULE Items -------------------------------
(***************************************************************************)
(* What a list promises: a sequence of distinct elements, changed by one   *)
(* insertion or removal at a time.  BsdQueues implements it with pointers. *)
(***************************************************************************)
EXTENDS Naturals, Sequences

CONSTANT Elements

VARIABLE items

Members == {items[i] : i \in 1..Len(items)}

\* s with e behind its first i elements; s without its i-th.
With(s, i, e) == SubSeq(s, 1, i) \o <<e>> \o SubSeq(s, i + 1, Len(s))
Without(s, i) == SubSeq(s, 1, i - 1) \o SubSeq(s, i + 1, Len(s))

Init == items = <<>>

\* What each macro does to the list, by the end of its name.
InsertHead(e) == e \in Elements \ Members /\ items' = With(items, 0, e)
InsertTail(e) == e \in Elements \ Members /\ items' = With(items, Len(items), e)

InsertAfter(l, e) ==
  /\ e \in Elements \ Members
  /\ \E i \in 1..Len(items) : items[i] = l /\ items' = With(items, i, e)

InsertBefore(l, e) ==
  /\ e \in Elements \ Members
  /\ \E i \in 1..Len(items) : items[i] = l /\ items' = With(items, i - 1, e)

Remove(e) ==
  \E i \in 1..Len(items) : items[i] = e /\ items' = Without(items, i)

Next ==
  \E e \in Elements :
    \/ InsertHead(e) \/ InsertTail(e) \/ Remove(e)
    \/ \E l \in Elements : InsertAfter(l, e) \/ InsertBefore(l, e)

Spec == Init /\ [][Next]_items

=============================================================================

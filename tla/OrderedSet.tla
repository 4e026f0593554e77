----------------------------- MODULE OrderedSet -----------------------------
(***************************************************************************)
(* What a search tree promises: a set of keys that changes by one key at a *)
(* time.  RbTree and SplayTree implement it with nodes and pointers.       *)
(***************************************************************************)
CONSTANT Keys

VARIABLE keys

Init == keys = {}

Insert(k) == keys' = keys \cup {k}

Remove(k) == keys' = keys \ {k}

Next == \E k \in Keys : Insert(k) \/ Remove(k)

Spec == Init /\ [][Next]_keys

=============================================================================

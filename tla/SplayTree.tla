------------------------------ MODULE SplayTree -----------------------------
(***************************************************************************)
(* The splay tree of utils/tree.h.  Every call first runs SPLAY, which     *)
(* takes the tree apart on its way down: what is smaller than the key      *)
(* hangs off one side of a local node, what is greater off the other, and  *)
(* SPLAY_ASSEMBLE puts the three trees together again.  One action is one  *)
(* iteration of that loop; the last one is the rest of the call.           *)
(*                                                                         *)
(* An element is its key: cmp compares the numbers.  SPLAY_MINMAX is SPLAY *)
(* with a key that is smaller or greater than all.  A removed element is   *)
(* freed by its owner, its fields then hold Junk.                          *)
(*                                                                         *)
(* Variants are definitions with a plausible mistake, as in HandOff.       *)
(***************************************************************************)
EXTENDS Pointers

Header == N + 2   \* SPLAY's local __node
Nodes == Keys \cup {Null, Header, Junk}

VARIABLES
  root,  \* sph_root
  kid,   \* kid[s][x]: the pointers of element x, or of SPLAY's node
  op,    \* "idle", or the call that runs
  arg,   \* the key it was called with
  end,   \* SPLAY's __left and __right
  saved, \* SPLAY_REMOVE's __tmp
  ret    \* what the last call returned

vars == <<root, kid, op, arg, end, saved, ret>>

\* The keys in all the pieces.
keys == Under(Kids(kid), {root, saved, kid["left"][Header], kid["right"][Header]})

-----------------------------------------------------------------------------
(* One iteration of SPLAY.                                                 *)

Toward(x) == IF arg < x THEN "left" ELSE "right"

Child == kid[Toward(root)][root]

\* SPLAY_ROTATE_LEFT, SPLAY_ROTATE_RIGHT, when the way goes twice to one side.
Turned ==
  LET s == Toward(root)
      o == Other(s)
  IN  IF arg # root /\ Child # Null /\ arg # Child /\ Toward(Child) = s
      THEN [root |-> Child,
            kid |-> [kid EXCEPT ![s][root] = kid[o][Child], ![o][Child] = root]]
      ELSE [root |-> root, kid |-> kid]

\* Variant: after a rotation the loop is left in any case.
AtEndAfterTurn == arg = root \/ Child = Null \/ Turned.root # root

AtEnd ==
  arg = root \/ Child = Null \/ Turned.kid[Toward(root)][Turned.root] = Null

\* Variant: the loop rotates only.
SplayTurns ==
  /\ op # "idle" /\ ~AtEnd
  /\ kid' = Turned.kid /\ root' = Turned.root
  /\ UNCHANGED <<op, arg, end, saved, ret>>

\* SPLAY_LINKLEFT, SPLAY_LINKRIGHT.
Splay ==
  LET s == Toward(root)
      o == Other(s)
  IN  /\ op # "idle" /\ ~AtEnd
      /\ kid' = [Turned.kid EXCEPT ![s][end[o]] = Turned.root]
      /\ end' = [end EXCEPT ![o] = Turned.root]
      /\ root' = Turned.kid[s][Turned.root]
      /\ UNCHANGED <<op, arg, saved, ret>>

\* Variant: the pieces change sides.
AssembledCrossed ==
  LET r == Turned.root
      m == [Turned.kid EXCEPT !["right"][end["left"]] = Turned.kid["left"][r],
                              !["left"][end["right"]] = Turned.kid["right"][r]]
  IN  [m EXCEPT !["left"][r] = m["left"][Header], !["left"][Header] = Null,
                !["right"][r] = m["right"][Header], !["right"][Header] = Null]

\* SPLAY_ASSEMBLE; the local node is gone.
Assembled ==
  LET r == Turned.root
      m == [Turned.kid EXCEPT !["right"][end["left"]] = Turned.kid["left"][r],
                              !["left"][end["right"]] = Turned.kid["right"][r]]
  IN  [m EXCEPT !["left"][r] = m["right"][Header], !["left"][Header] = Null,
                !["right"][r] = m["left"][Header], !["right"][Header] = Null]

-----------------------------------------------------------------------------
(* The calls.                                                              *)

Init ==
  /\ root = Null /\ op = "idle" /\ arg = Null /\ saved = Null /\ ret = Null
  /\ kid = [s \in Sides |-> [x \in Keys \cup {Header} |->
                               IF x = Header THEN Null ELSE Junk]]
  /\ end = [s \in Sides |-> Header]

\* An empty tree takes the element as its root, and gives the other calls Null.
InsertFirst(k) ==
  /\ op = "idle" /\ root = Null
  /\ kid' = [kid EXCEPT !["left"][k] = Null, !["right"][k] = Null]
  /\ root' = k /\ ret' = Null
  /\ UNCHANGED <<op, arg, end, saved>>

\* SPLAY_NEXT is for an element of the tree.
Call(o, k) ==
  /\ op = "idle" /\ root # Null
  /\ o = "next" => k \in keys
  /\ op' = o /\ ret' = Null
  /\ arg' = CASE o = "min" -> 0 [] o = "max" -> N + 1 [] OTHER -> k
  /\ UNCHANGED <<root, kid, end, saved>>

Return(value) ==
  /\ op' = "idle" /\ arg' = Null /\ saved' = Null /\ ret' = value
  /\ end' = [s \in Sides |-> Header]

\* The old root and the subtree between go to the new element's two sides.
InsertEnd ==
  LET r == Turned.root
      s == Toward(r)
      m == Assembled
  IN  /\ op = "insert" /\ AtEnd
      /\ IF arg = r THEN root' = r /\ kid' = m
         ELSE /\ root' = arg
              /\ kid' = [m EXCEPT ![s][arg] = m[s][r], ![Other(s)][arg] = r,
                                  ![s][r] = Null]
      /\ Return(Null)

\* Variant: the left subtree is not splayed before the right one is hung on it.
RemoveEndAtOnce ==
  LET m    == Assembled
      gone == [m EXCEPT !["left"][arg] = Junk, !["right"][arg] = Junk]
  IN  /\ op = "remove" /\ AtEnd
      /\ IF arg # Turned.root THEN root' = Turned.root /\ kid' = m
         ELSE IF m["left"][arg] = Null
         THEN root' = m["right"][arg] /\ kid' = gone
         ELSE /\ root' = m["left"][arg]
              /\ kid' = [gone EXCEPT !["right"][m["left"][arg]] = m["right"][arg]]
      /\ Return(Null)

\* With a left subtree the call goes on: that one is splayed for the same key.
RemoveEnd ==
  LET m    == Assembled
      gone == [m EXCEPT !["left"][arg] = Junk, !["right"][arg] = Junk]
  IN  /\ op = "remove" /\ AtEnd
      /\ IF arg # Turned.root THEN root' = Turned.root /\ kid' = m /\ Return(Null)
         ELSE IF m["left"][arg] = Null
         THEN root' = m["right"][arg] /\ kid' = gone /\ Return(Null)
         ELSE /\ root' = m["left"][arg] /\ kid' = gone
              /\ op' = "join" /\ saved' = m["right"][arg]
              /\ end' = [s \in Sides |-> Header]
              /\ UNCHANGED <<arg, ret>>

JoinEnd ==
  /\ op = "join" /\ AtEnd
  /\ root' = Turned.root
  /\ kid' = [Assembled EXCEPT !["right"][Turned.root] = saved]
  /\ Return(Null)

FindEnd ==
  /\ op = "find" /\ AtEnd
  /\ root' = Turned.root /\ kid' = Assembled
  /\ Return(IF arg = Turned.root THEN arg ELSE Null)

\* The while loop goes along the left pointers to where they end.
Leftmost(m, x) == Last(m["left"], x)

\* The element's own right subtree is searched, for it is the root now.
NextEnd ==
  /\ op = "next" /\ AtEnd
  /\ root' = Turned.root /\ kid' = Assembled
  /\ Return(IF Assembled["right"][arg] = Null THEN Null
            ELSE Leftmost(Assembled, Assembled["right"][arg]))

MinMaxEnd ==
  /\ op \in {"min", "max"} /\ AtEnd
  /\ root' = Turned.root /\ kid' = Assembled
  /\ Return(Turned.root)

Running ==
  Splay \/ InsertEnd \/ RemoveEnd \/ JoinEnd \/ FindEnd \/ NextEnd \/ MinMaxEnd

Next ==
  \/ \E k \in Keys :
       InsertFirst(k) \/ \E o \in {"insert", "remove", "find", "next"} : Call(o, k)
  \/ Call("min", Null) \/ Call("max", Null)
  \/ Running

\* A call runs to its end, for it waits for nothing.
Spec == Init /\ [][Next]_vars /\ WF_vars(Running)

-----------------------------------------------------------------------------
TypeOK ==
  /\ root \in Keys \cup {Null} /\ saved \in Keys \cup {Null}
  /\ kid \in [Sides -> [Keys \cup {Header} -> Nodes]]
  /\ op \in {"idle", "insert", "remove", "join", "find", "next", "min", "max"}
  /\ arg \in 0..N + 1
  /\ end \in [Sides -> Keys \cup {Header}]
  /\ ret \in Keys \cup {Null}
  /\ \A x \in keys, s \in Sides : kid[s][x] \in Keys \cup {Null}

OS == INSTANCE OrderedSet

\* SPLAY_INSERT adds its key and SPLAY_REMOVE removes its key, in one step; no
\* rotation, link or assembly drops a piece or picks one up, and neither does
\* the second SPLAY of a removal, nor a lookup.
AsCalled ==
  /\ \A k \in Keys : InsertFirst(k) => OS!Insert(k)
  /\ InsertEnd => OS!Insert(arg)
  /\ RemoveEnd => OS!Remove(arg)
  /\ \A o \in {"insert", "remove", "find", "next", "min", "max"}, k \in Keys :
       Call(o, k) => UNCHANGED keys
  /\ Splay \/ JoinEnd \/ FindEnd \/ NextEnd \/ MinMaxEnd => UNCHANGED keys

\* The elements are a set of keys that changes as the calls are named.
ImplementsOrderedSet == OS!Spec /\ [][AsCalled]_vars

\* Everything left of an element is smaller, everything right of it greater,
\* as soon as the tree is whole again.
SearchOrder ==
  op = "idle" =>
    \A x \in keys :
      /\ \A y \in Below(kid, kid["left"][x]) : y < x
      /\ \A y \in Below(kid, kid["right"][x]) : y > x

\* A search tree of elements that are all there, whenever no call runs.
WellFormed == TypeOK /\ SearchOrder

\* x lies between a and b, or at a itself.
Between(x, a, b) == (a <= x /\ x < b) \/ (b < x /\ x <= a)

\* What SPLAY_FIND, SPLAY_NEXT, SPLAY_MIN and SPLAY_MAX give is what the set of
\* keys says.  So a SPLAY_FOREACH visits the keys in order, though each of its
\* steps, and each lookup in its body, changes the tree.  And as tree.h:224 says,
\* SPLAY "Moves node close to the key of elm to top": no key lies between the
\* one looked for and the root.
Answers ==
  [][op # "idle" /\ op' = "idle" =>
       /\ op = "find" => ret' = IF arg \in keys THEN arg ELSE Null
       /\ op = "next" => ret' = Least({x \in keys : x > arg})
       /\ op = "min" => ret' = Least(keys)
       /\ op = "max" => ret' = Most(keys)
       /\ op \in {"find", "next"} => {x \in keys : Between(x, arg, root')} = {}]_vars

\* The loop reaches its end: each call returns.
CallReturns == op # "idle" ~> op = "idle"

=============================================================================

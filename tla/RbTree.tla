------------------------------- MODULE RbTree -------------------------------
(***************************************************************************)
(* The red-black tree of utils/tree.h.  RB_INSERT and RB_REMOVE change the *)
(* tree in one action; the loops of RB_INSERT_COLOR and RB_REMOVE_COLOR    *)
(* that restore the balance are one action for each way through their      *)
(* body.  The code writes every case twice, once for each side; here the   *)
(* side is a parameter.                                                    *)
(*                                                                         *)
(* An element is its key: cmp compares the numbers.  RB_AUGMENT is empty.  *)
(* A removed element is freed by its owner, its fields then hold Junk.     *)
(*                                                                         *)
(* Names that SplayTree has as well begin with Rb here, as they do in the  *)
(* macros: TreesProof extends both modules.                                *)
(*                                                                         *)
(* Variants are definitions with a plausible mistake, as in HandOff.       *)
(***************************************************************************)
EXTENDS Pointers, FiniteSets

RbNodes == Keys \cup {Null, Junk}

VARIABLES
  tree,   \* root; kid[s][x], par[x]: the pointers of element x; red: the red ones
  pc,     \* "idle", or the loop that runs: "insert", "remove"
  elm,    \* the loop's variable
  parent  \* RB_REMOVE_COLOR's second variable

rbVars == <<tree, pc, elm, parent>>

Black(t, x) == x = Null \/ x \notin t.red

Paint(t, black, red) == [t EXCEPT !.red = (@ \ {black}) \cup {red}]

-----------------------------------------------------------------------------
(* The elements, for the properties.                                       *)

rbKeys == Below(tree.kid, tree.root)

-----------------------------------------------------------------------------
(* Pointers.                                                               *)

Side(t, x) == IF t.kid["left"][t.par[x]] = x THEN "left" ELSE "right"

\* The pointer to x, in its parent or the root, now points to y.
Relink(t, x, y) ==
  IF t.par[x] = Null THEN [t EXCEPT !.root = y]
  ELSE [t EXCEPT !.kid[Side(t, x)][t.par[x]] = y]

SetParent(t, x, p) == IF x = Null THEN t ELSE [t EXCEPT !.par[x] = p]

\* Variant: the subtree that changes sides keeps its parent.
RotateHalf(t, s, x) ==
  LET y  == t.kid[Other(s)][x]
      t1 == [t EXCEPT !.kid[Other(s)][x] = t.kid[s][y]]
      t2 == Relink([t1 EXCEPT !.par[y] = t1.par[x]], x, y)
  IN  [t2 EXCEPT !.kid[s][y] = x, !.par[x] = y]

\* RB_ROTATE_LEFT and RB_ROTATE_RIGHT.
Rotate(t, s, x) ==
  LET y  == t.kid[Other(s)][x]
      c  == t.kid[s][y]
      t1 == SetParent([t EXCEPT !.kid[Other(s)][x] = c], c, x)
      t2 == Relink([t1 EXCEPT !.par[y] = t1.par[x]], x, y)
  IN  [t2 EXCEPT !.kid[s][y] = x, !.par[x] = y]

\* Variant: the loop is an if.
OutermostOne(t, s, x) == IF t.kid[s][x] = Null THEN x ELSE t.kid[s][x]

\* The outermost element on side s below x.
Outermost(t, s, x) == Last(t.kid[s], x)

-----------------------------------------------------------------------------
(* Queries: RB_FIND, RB_MINMAX, RB_NEXT.                                   *)

\* The descent of RB_FIND and RB_INSERT: the element with key k, or the last
\* one before the null pointer.
Descend(t, k) ==
  LET step == [x \in Keys |-> IF x = k THEN Null
                              ELSE t.kid[IF k < x THEN "left" ELSE "right"][x]]
  IN  IF t.root = Null THEN Null ELSE Last(step, t.root)

Find(t, k) == IF Descend(t, k) = k THEN k ELSE Null

MinMax(t, s) == IF t.root = Null THEN Null ELSE Outermost(t, s, t.root)

\* Variant: the way up stops at the parent.
NextOfParent(t, x) ==
  IF t.kid["right"][x] # Null THEN Outermost(t, "left", t.kid["right"][x])
  ELSE t.par[x]

\* Up while x is a right child, then once more; the code's extra case, x a
\* left child, takes no step of the loop.
NextElm(t, x) ==
  LET up == [y \in Keys |-> IF t.par[y] \in Keys /\ y = t.kid["right"][t.par[y]]
                            THEN t.par[y] ELSE Null]
  IN  IF t.kid["right"][x] # Null THEN Outermost(t, "left", t.kid["right"][x])
      ELSE t.par[Last(up, x)]

-----------------------------------------------------------------------------
(* Insertion.                                                              *)

RbInit ==
  /\ tree = [root |-> Null, kid |-> [s \in Sides |-> [x \in Keys |-> Junk]],
             par |-> [x \in Keys |-> Junk], red |-> {}]
  /\ pc = "idle" /\ elm = Null /\ parent = Null

RB_SET(t, x, p) ==
  [t EXCEPT !.par[x] = p, !.kid["left"][x] = Null, !.kid["right"][x] = Null,
            !.red = @ \cup {x}]

\* An equal element is given back, and the tree is left as it is.
Insert(k) ==
  /\ pc = "idle" /\ Find(tree, k) = Null
  /\ LET p  == Descend(tree, k)
         t1 == RB_SET(tree, k, p)
     IN  tree' = IF p = Null THEN [t1 EXCEPT !.root = k]
                 ELSE [t1 EXCEPT !.kid[IF k < p THEN "left" ELSE "right"][p] = k]
  /\ pc' = "insert" /\ elm' = k
  /\ UNCHANGED parent

ElmParent == tree.par[elm]
Gparent == tree.par[ElmParent]
Uncle == tree.kid[Other(Side(tree, ElmParent))][Gparent]

InsertClash == pc = "insert" /\ ElmParent # Null /\ ~Black(tree, ElmParent)

InsertRecolour ==
  /\ InsertClash /\ ~Black(tree, Uncle)
  /\ tree' = Paint([tree EXCEPT !.red = @ \ {Uncle}], ElmParent, Gparent)
  /\ elm' = Gparent
  /\ UNCHANGED <<pc, parent>>

\* One rotation when elm is an outer grandchild, two when it is an inner one.
Inserted(t, s) ==
  IF t.kid[Other(s)][ElmParent] = elm
  THEN Rotate(Paint(Rotate(t, s, ElmParent), elm, Gparent), Other(s), Gparent)
  ELSE Rotate(Paint(t, ElmParent, Gparent), Other(s), Gparent)

InsertRotate ==
  /\ InsertClash /\ Black(tree, Uncle)
  /\ tree' = Inserted(tree, Side(tree, ElmParent))
  /\ elm' = IF tree.kid[Other(Side(tree, ElmParent))][ElmParent] = elm THEN ElmParent ELSE elm
  /\ UNCHANGED <<pc, parent>>

InsertDone ==
  /\ pc = "insert" /\ ~InsertClash
  /\ tree' = [tree EXCEPT !.red = @ \ {tree.root}]
  /\ pc' = "idle" /\ elm' = Null /\ parent' = Null

-----------------------------------------------------------------------------
(* Removal.                                                                *)

\* y has one child at most: the child takes its place.
Unlink(t, y, child) == Relink(SetParent(t, child, t.par[y]), y, child)

\* (elm)->field = (old)->field, and the pointers to old now point to y.
TakePlace(t, y, old) ==
  LET t1 == [t EXCEPT !.par[y] = t.par[old],
                      !.kid["left"][y] = t.kid["left"][old],
                      !.kid["right"][y] = t.kid["right"][old],
                      !.red = IF old \in t.red THEN @ \cup {y} ELSE @ \ {y}]
      t2 == Relink(t1, old, y)
  IN  SetParent(SetParent(t2, t2.kid["left"][old], y), t2.kid["right"][old], y)

Freed(t, k) ==
  [t EXCEPT !.kid["left"][k] = Junk, !.kid["right"][k] = Junk, !.par[k] = Junk,
            !.red = @ \ {k}]

\* An element with two children is replaced by its successor, which has none
\* on the left.
Remove(k) ==
  LET two   == \A s \in Sides : tree.kid[s][k] # Null
      y     == IF two THEN Outermost(tree, "left", tree.kid["right"][k]) ELSE k
      child == IF tree.kid["left"][y] = Null THEN tree.kid["right"][y]
               ELSE tree.kid["left"][y]
      t1    == Unlink(tree, y, child)
  IN  /\ pc = "idle" /\ Find(tree, k) = k
      /\ tree' = Freed(IF two THEN TakePlace(t1, y, k) ELSE t1, k)
      /\ IF Black(tree, y)
         THEN /\ pc' = "remove" /\ elm' = child
              /\ parent' = IF two /\ tree.par[y] = k THEN y ELSE tree.par[y]
         ELSE UNCHANGED <<pc, elm, parent>>

RemoveShort == pc = "remove" /\ Black(tree, elm) /\ elm # tree.root

ShortSide == IF tree.kid["left"][parent] = elm THEN "left" ELSE "right"
Sibling(t) == t.kid[Other(ShortSide)][parent]

\* Variant: a red sibling stays where it is.
BlackSiblingAsIs == tree

\* A red sibling first changes place with the parent.
BlackSibling ==
  IF Black(tree, Sibling(tree)) THEN tree
  ELSE Rotate(Paint(tree, Sibling(tree), parent), ShortSide, parent)

BothBlack(t, x) == \A s \in Sides : Black(t, t.kid[s][x])

RemoveRecolour ==
  LET t == BlackSibling IN
  /\ RemoveShort /\ BothBlack(t, Sibling(t))
  /\ tree' = [t EXCEPT !.red = @ \cup {Sibling(t)}]
  /\ elm' = parent /\ parent' = t.par[parent]
  /\ UNCHANGED pc

\* The sibling's outer child is made red, if need be by a rotation.
OuterRed(t) ==
  LET tmp == Sibling(t)
      in  == t.kid[ShortSide][tmp]
  IN  IF Black(t, t.kid[Other(ShortSide)][tmp])
      THEN Rotate(Paint(t, in, tmp), Other(ShortSide), tmp)
      ELSE t

\* The loop is left with elm at the root, which the last line makes black.
RemoveRotate ==
  LET t == OuterRed(BlackSibling)
      w == Sibling(t)
      o == t.kid[Other(ShortSide)][w]
      c == IF parent \in t.red THEN {w} ELSE {}
      u == Rotate([t EXCEPT !.red = (@ \ {w, parent, o}) \cup c], ShortSide, parent)
  IN  /\ RemoveShort /\ ~BothBlack(BlackSibling, Sibling(BlackSibling))
      /\ tree' = [u EXCEPT !.red = @ \ {u.root}]
      /\ pc' = "idle" /\ elm' = Null /\ parent' = Null

RemoveDone ==
  /\ pc = "remove" /\ ~RemoveShort
  /\ tree' = [tree EXCEPT !.red = @ \ {elm}]
  /\ pc' = "idle" /\ elm' = Null /\ parent' = Null

RbNext ==
  \/ \E k \in Keys : Insert(k) \/ Remove(k)
  \/ InsertRecolour \/ InsertRotate \/ InsertDone
  \/ RemoveRecolour \/ RemoveRotate \/ RemoveDone

RbSpec == RbInit /\ [][RbNext]_rbVars

-----------------------------------------------------------------------------
RbTypeOK ==
  /\ tree \in [root : Keys \cup {Null}, kid : [Sides -> [Keys -> RbNodes]],
               par : [Keys -> RbNodes], red : SUBSET Keys]
  /\ \A x \in rbKeys :
       /\ tree.par[x] # Junk
       /\ \A s \in Sides : tree.kid[s][x] # Junk
  /\ pc \in {"idle", "insert", "remove"}
  /\ elm \in Keys \cup {Null} /\ parent \in Keys \cup {Null}

RbOS == INSTANCE OrderedSet WITH keys <- rbKeys

\* RB_INSERT adds its key and RB_REMOVE removes its key, in one step; the
\* rotations and recolourings of their loops leave the set alone.
RbAsCalled ==
  /\ \A k \in Keys :
       /\ Insert(k) => RbOS!Insert(k)
       /\ Remove(k) => RbOS!Remove(k)
  /\ pc # "idle" => UNCHANGED rbKeys

\* The elements are a set of keys that changes as the calls are named.
RbImplementsOrderedSet == RbOS!Spec /\ [][RbAsCalled]_rbVars

\* RB_PARENT of a child is the element it is a child of, also between two
\* rotations; RB_NEXT and both loops climb by it.
ParentLinks ==
  /\ tree.root # Null => tree.par[tree.root] = Null
  /\ \A x \in rbKeys : \A s \in Sides :
       tree.kid[s][x] # Null => tree.par[tree.kid[s][x]] = x

\* The elements from the root to y.
Way(y) == Under([x \in Keys |-> {tree.par[x]}], {y})

\* The numbers of black elements on the ways from the root to a null pointer; in
\* RB_REMOVE_COLOR the ways through elm count one more.
BlackCounts ==
  LET short(y, s) == /\ pc = "remove"
                     /\ IF elm = Null THEN y = parent /\ s = ShortSide
                        ELSE elm \in Way(y)
  IN  {Cardinality({z \in Way(w[1]) : Black(tree, z)})
         + (IF short(w[1], w[2]) THEN 1 ELSE 0) :
         w \in {v \in rbKeys \X Sides : tree.kid[v[2]][v[1]] = Null}}

\* tree.h:46-51: every way down has the same number of black elements, and a
\* red one has a black parent.  Between two iterations of a loop this is wrong
\* in one place only: the elm of RB_INSERT_COLOR may be red below a red parent;
\* that of RB_REMOVE_COLOR may be red next to red ones, and the ways through it
\* are one black element short.
RedBlack ==
  /\ \A a, b \in BlackCounts : a = b
  /\ \A x \in rbKeys \cap tree.red :
       \/ tree.par[x] = Null \/ Black(tree, tree.par[x])
       \/ pc # "idle" /\ x = elm
       \/ pc = "remove" /\ tree.par[x] = elm
  /\ pc = "idle" => Black(tree, tree.root)

\* The tree of tree.h:46-51 with its parent pointers, between any two iterations.
RbWellFormed == RbTypeOK /\ ParentLinks /\ RedBlack

\* Neither loop looks at the colour of a null pointer: a red parent has a
\* parent, and the short side has a sibling, black or after the rotation.
NoNullFollowed ==
  /\ InsertClash => Gparent # Null
  /\ RemoveShort =>
       /\ parent # Null
       /\ Sibling(tree) # Null
       /\ Sibling(BlackSibling) # Null

\* What RB_FIND, RB_MIN, RB_MAX and RB_NEXT give is what the set of keys says.
\* So an RB_FOREACH visits the keys in order, whatever its body inserts, and
\* removes except the current one.
LookupsAgree ==
  pc = "idle" =>
    /\ \A k \in Keys : Find(tree, k) = IF k \in rbKeys THEN k ELSE Null
    /\ MinMax(tree, "left") = Least(rbKeys) /\ MinMax(tree, "right") = Most(rbKeys)
    /\ \A k \in rbKeys : NextElm(tree, k) = Least({x \in rbKeys : x > k})

=============================================================================

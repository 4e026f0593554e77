------------------------------ MODULE Pointers ------------------------------
(***************************************************************************)
(* What the trees of utils/tree.h have in common: elements with a left and *)
(* a right pointer, and where one comes from an element by its pointers.   *)
(***************************************************************************)
EXTENDS Naturals

CONSTANT N   \* the keys are 1..N

ASSUME PointersAssumption == N \in Nat \ {0}

Keys == 1..N
Null == 0
Junk == N + 1   \* what the fields of a freed element hold

Sides == {"left", "right"}
Other(s) == IF s = "left" THEN "right" ELSE "left"

\* The elements among X and what they lead to, next[y] being where y points to.
Under(next, X) ==
  LET all[S \in SUBSET Keys] ==
        LET T == S \cup ((UNION {next[y] : y \in S}) \cap Keys)
        IN  IF T = S THEN S ELSE all[T]
  IN  all[X \cap Keys]

Kids(m) == [y \in Keys |-> {m[s][y] : s \in Sides}]

Below(m, x) == Under(Kids(m), {x})

\* Where a while loop ends that goes from x to step[x] as long as there is one.
Last(step, x) ==
  CHOOSE y \in Under([z \in Keys |-> {step[z]}], {x}) : step[y] \notin Keys

Least(S) == IF S = {} THEN Null ELSE CHOOSE x \in S : \A y \in S : x <= y
Most(S) == IF S = {} THEN Null ELSE CHOOSE x \in S : \A y \in S : x >= y

=============================================================================

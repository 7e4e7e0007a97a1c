--------------------------- MODULE BlockDecision ---------------------------
(***************************************************************************)
(* What the ordering stage of all nodes promises, without views, messages  *)
(* and caches: for every block number one proposal is chosen, and a node   *)
(* hands to execution only what has been chosen.  A number at which too    *)
(* many nodes have lost their locks is broken, and nothing is promised for *)
(* it.  PBFTDecision shows that PBFTOrdering implements this.              *)
(***************************************************************************)
CONSTANTS Node, Index, Hash

VARIABLES
  chosen,    \* chosen[i]: the proposals chosen for number i
  learned,   \* <<n, i, h>> when node n has handed h to execution for i
  broken     \* the numbers nothing is promised for

vars == <<chosen, learned, broken>>

Init ==
  /\ chosen = [i \in Index |-> {}]
  /\ learned = {}
  /\ broken = {}

\* a number breaks, and stays broken
Break == broken \subseteq broken'

\* proposals are chosen for ever, and one for a number that is not broken
Choose ==
  \A i \in Index :
    /\ chosen[i] \subseteq chosen'[i]
    /\ i \in broken' \/ \A g, h \in chosen'[i] : g = h

\* what is learned has been chosen, at the latest in the same step
Learn ==
  /\ learned \subseteq learned'
  /\ \A x \in learned' \ learned : x[3] \in chosen'[x[2]]

Next == Break /\ Choose /\ Learn

Spec == Init /\ [][Next]_vars

=============================================================================

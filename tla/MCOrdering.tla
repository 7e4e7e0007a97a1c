----------------------------- MODULE MCOrdering -----------------------------
(***************************************************************************)
(* Small instances of PBFTOrdering for TLC: the node weights a .cfg picks. *)
(***************************************************************************)
EXTENDS PBFTDecision

\* two equal nodes: f = 0, the quorum is both
TwoEqual == [n \in 0 .. 1 |-> 1]

\* total 4, f = 1, quorum 3: {0, 2} and {1, 2} are quorums, {0, 1} is not
OneHeavy == [n \in 0 .. 2 |-> IF n = 2 THEN 2 ELSE 1]

\* total 5, f = 1, quorum 4: node 1 alone is a quorum, node 0 follows
OneDominant == [n \in 0 .. 1 |-> IF n = 1 THEN 4 ELSE 1]

\* node 1, which leads number 1 in view 0: its own proposal, until it crashes, and
\* the prepares it gets in that view may wait for m_mutex
SlowLeader == {<<1, "PrePrepare", 0, 0>>, <<1, "Prepare", 0, 0>>, <<1, "Prepare", 0, 1>>}

=============================================================================

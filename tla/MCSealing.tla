----------------------------- MODULE MCSealing -----------------------------
(***************************************************************************)
(* Small instances of PBFTSealing for TLC: two nodes, and how often each   *)
(* fault and outside event may happen.                                     *)
(***************************************************************************)
EXTENDS PBFTSealing

TwoEqual == [n \in 0 .. 1 |-> 1]

\* the faults of F happen at most m times, the others do not happen
Limit(F, m) == [k \in Faults |-> IF k \in F THEN m ELSE 0]

\* views change, NewViews come late, verifications fail
ViewFaults == {Limit({"timeout", "late", "recover", "verify", "ahead"}, 1)}

\* the sealer and the pool fail, blocks are synchronised
PoolFaults ==
  {Limit({"notify", "mark", "sync"}, 1), Limit({"behind", "sync", "syncing"}, 1),
   [Limit({"reset"}, 1) EXCEPT !["mark"] = 4]}

=============================================================================

---------------------------- MODULE MCExecution ----------------------------
(***************************************************************************)
(* Small instances of PBFTPipeline for TLC: the node weights, and how      *)
(* often each fault and outside event may happen.                          *)
(***************************************************************************)
EXTENDS PBFTStages

\* two equal nodes: f = 0, the quorum is both
TwoEqual == [n \in 0 .. 1 |-> 1]

\* the faults of F happen at most m times, the others do not happen
Limit(F, m) == [k \in Faults |-> IF k \in F THEN m ELSE 0]

\* executions, commits and verifications fail, requests are answered with nothing, blocks
\* are synchronised, views change
SupplyFaults ==
  {Limit({"execute", "newView", "restart"}, 1), Limit({"newView", "empty", "load", "restart"}, 1),
   Limit({"execute", "commit", "sync"}, 1), Limit({"commit", "sync", "restart"}, 1),
   [Limit({"restart"}, 1) EXCEPT !["sync"] = 2]}

\* requests, writes and reads fail; or executions fail and a view changes
LiveFaults ==
  {Limit({"fetch", "put", "read", "restart"}, 1),
   [Limit({"newView"}, 1) EXCEPT !["execute"] = 2]}

Redelivery == {[Limit({"newView"}, 1) EXCEPT !["execute"] = 2]}
OneSync == {Limit({"sync"}, 1)}

=============================================================================

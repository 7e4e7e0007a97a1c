------------------------------ MODULE MCTimer ------------------------------
(***************************************************************************)
(* Small instances of PBFTTimeout for TLC: three nodes, and how often each *)
(* fault and outside event may happen.                                     *)
(***************************************************************************)
EXTENDS PBFTTimeout

ThreeEqual == [n \in 0 .. 2 |-> 1]

\* the faults of F happen at most m times, the others do not happen
Limit(F, m) == [k \in Faults |-> IF k \in F THEN m ELSE 0]

TimerFaults ==
  {[Limit({"execute", "sync"}, 1) EXCEPT !["txs"] = 2],
   Limit({"txs", "sync", "newView"}, 1),
   Limit({"txs", "connect", "newView"}, 1),
   Limit({"sync", "connect"}, 1),
   Limit({"txs", "execute", "recover", "verify"}, 1),
   Limit({"txs", "join", "newView"}, 1)}

=============================================================================

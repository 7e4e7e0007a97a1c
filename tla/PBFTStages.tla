----------------------------- MODULE PBFTStages -----------------------------
(***************************************************************************)
(* PBFTPipeline implements StagedLedger.                                   *)
(***************************************************************************)
EXTENDS PBFTPipeline

\* the blocks that are executed, or whose result waits for the worker
Begun ==
  {i \in Index : \/ node.running[i] > 0
                 \/ \E k \in 1 .. Len(node.results) : node.results[k].index = i}

AppliedAbove == {i \in Index : i > node.committed /\ Applied(i)}

AgreedOn == {i \in Index : Me \in reported[i] /\ IsQuorum(reported[i])}

Stages == INSTANCE StagedLedger
            WITH ledger <- Ledger(node), last <- node.committed, begun <- Begun,
                 applied <- AppliedAbove, agreed <- AgreedOn

(***************************************************************************)
(* Whatever executions, commits, writes and crashes fail and however often *)
(* proposals are delivered again, every execution begins on the last block *)
(* or on a result of its predecessor, and the node's ledger grows block by *)
(* block, each one executed by the node and agreed on by a quorum: every   *)
(* step of the queues and caches of PBFTCacheProcessor, of the worker and  *)
(* of LedgerStorage is a step of StagedLedger or leaves it unchanged.      *)
(***************************************************************************)
ImplementsStages == Stages!Spec

=============================================================================

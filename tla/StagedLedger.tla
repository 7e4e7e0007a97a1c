---------------------------- MODULE StagedLedger ----------------------------
(***************************************************************************)
(* What the second stage of a node promises, without its queues, caches,   *)
(* threads and storage: the execution of a block begins on the last block  *)
(* or on a result of its predecessor, a quorum agrees on results, and the  *)
(* node extends the ledger by the next block when it has executed it and a *)
(* quorum agrees with the result.  Executions and results may be lost, and *)
(* block synchronisation may extend the ledger by blocks that the node     *)
(* takes over afterwards.  PBFTStages shows that PBFTPipeline implements   *)
(* this.                                                                   *)
(***************************************************************************)
EXTENDS Naturals

CONSTANT MaxIndex      \* bound: block numbers 1..MaxIndex

VARIABLES
  ledger,    \* the number of the last block on the ledger
  last,      \* the last block the node has written or taken over
  begun,     \* the blocks whose execution has begun and is not given up
  applied,   \* the blocks above the last one whose result the node has
  agreed     \* the blocks whose result the node and a quorum have reported

vars == <<ledger, last, begun, applied, agreed>>

Init == ledger = 0 /\ last = 0 /\ begun = {} /\ applied = {} /\ agreed = {}

\* executions that begin in a step have a predecessor to begin on
Grounded ==
  \A i \in begun' \ begun : i - 1 = last' \/ i - 1 \in applied \cup applied'

\* an execution ends; its result may be the last one of a quorum
Apply(i) ==
  /\ i \in begun /\ i > last
  /\ applied' = applied \cup {i}
  /\ agreed' \in {agreed, agreed \cup {i}}
  /\ UNCHANGED <<ledger, last>>

\* a quorum has reported the result of block i
Agree(i) ==
  /\ agreed' = agreed \cup {i}
  /\ UNCHANGED <<ledger, last, applied>>

\* the block after the last one is written
Commit ==
  /\ ledger = last
  /\ last + 1 \in applied \cap agreed
  /\ ledger' = ledger + 1 /\ last' = last + 1
  /\ applied' = applied \ {last + 1}
  /\ UNCHANGED agreed

\* executions begin or are given up, results are lost
Proceed ==
  /\ applied' \subseteq applied
  /\ UNCHANGED <<ledger, last, agreed>>

\* block synchronisation writes the blocks up to k
Synchronise(k) ==
  /\ k > ledger
  /\ ledger' = k
  /\ UNCHANGED <<last, applied, agreed>>

\* the node takes a synchronised block over; its own results may be lost
TakeOver(k) ==
  /\ last < k /\ k <= ledger
  /\ last' = k
  /\ applied' \subseteq {i \in applied : i > k}
  /\ UNCHANGED <<ledger, agreed>>

Next ==
  /\ Grounded
  /\ \/ \E i \in 1 .. MaxIndex : Apply(i)
     \/ \E i \in 1 .. MaxIndex : Agree(i)
     \/ Commit
     \/ Proceed
     \/ \E k \in 1 .. MaxIndex : Synchronise(k)
     \/ \E k \in 1 .. MaxIndex : TakeOver(k)

Spec == Init /\ [][Next]_vars

=============================================================================

----------------------------- MODULE PBFTQuorum -----------------------------
(***************************************************************************)
(* The consensus-node list and what PBFTConfig derives from it: the vote   *)
(* weight of a set of nodes, the quorum sizes of updateQuorum, and the     *)
(* leader of a block number in a view.                                     *)
(*                                                                         *)
(* Nodes are the positions of the sorted consensus-node list, 0..N-1, as   *)
(* in the code (IndexType).  The list is fixed: no run changes it.         *)
(***************************************************************************)
EXTENDS Integers, FiniteSets

CONSTANTS
  NumNodes,           \* m_consensusNodeNum
  NodeWeight,         \* NodeWeight[n]: the vote weight of node n
  MaxNodeWeight,      \* a bound on the weights
  LeaderSwitchPeriod  \* m_leaderSwitchPeriod: consecutive blocks per leader

Node == 0 .. NumNodes - 1

(***************************************************************************)
(* setConsensusNodeList throws on an empty list; a list whose weights are  *)
(* all zero would make updateQuorum compute (0 - 1) / 3 on unsigned        *)
(* integers, so one positive weight is required.                           *)
(***************************************************************************)
ASSUME NodeAssumption ==
  /\ NumNodes \in Nat \ {0}
  /\ MaxNodeWeight \in Nat
  /\ NodeWeight \in [Node -> 0 .. MaxNodeWeight]
  /\ \E n \in Node : NodeWeight[n] > 0

ASSUME PeriodAssumption == LeaderSwitchPeriod \in Nat \ {0}

-----------------------------------------------------------------------------

(***************************************************************************)
(* A node of weight w casts w votes.  The weight of a set of nodes is the  *)
(* number of votes its members cast, i.e. the sum of their weights.        *)
(***************************************************************************)
Votes(S) ==
  {u \in Node \X (1 .. MaxNodeWeight) : u[1] \in S /\ u[2] <= NodeWeight[u[1]]}

Weight(S) == Cardinality(Votes(S))

TotalQuorum == Weight(Node)

MaxFaultyQuorum == (TotalQuorum - 1) \div 3

MinRequiredQuorum == TotalQuorum - MaxFaultyQuorum

IsQuorum(S) == Weight(S) >= MinRequiredQuorum

(***************************************************************************)
(* leaderIndexInNewViewPeriod(index, view); leaderIndex(index) is the same *)
(* expression with the node's own view.                                    *)
(***************************************************************************)
LeaderIndex(i, v) == ((i \div LeaderSwitchPeriod) + v) % NumNodes

=============================================================================

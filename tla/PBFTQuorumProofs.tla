-------------------------- MODULE PBFTQuorumProofs --------------------------
(***************************************************************************)
(* What the weights of updateQuorum guarantee, for every node list: the    *)
(* weight of a set of nodes is additive and monotonic, and two quorums     *)
(* share more weight than MaxFaultyQuorum.                                 *)
(***************************************************************************)
EXTENDS PBFTQuorum, FiniteSetTheorems, WellFoundedInduction, TLAPS

\* A non-empty set of natural numbers has a least element.
LEMMA NatLowest ==
  ASSUME NEW T \in SUBSET Nat, T # {}
  PROVE  \E x \in T : \A y \in T : x <= y
<1> DEFINE R == OpToRel(<, Nat)
<1>1. IsWellFoundedOn(R, Nat)
  BY NatLessThanWellFounded
<1>2. \A x, y \in Nat : y < x => <<y, x>> \in R
  BY DEF OpToRel
<1> HIDE DEF R
<1>3. PICK x \in T : \A y \in T : ~(<<y, x>> \in R)
  BY <1>1, WFMin
<1>4. \A y \in T : ~(y < x)
  BY <1>2, <1>3
<1> QED
  BY <1>4

\* The votes of a set of nodes are finitely many.
LEMMA VotesFinite ==
  ASSUME NEW S
  PROVE  IsFiniteSet(Votes(S))
<1>1. IsFiniteSet(Node) /\ IsFiniteSet(1 .. MaxNodeWeight)
  BY NodeAssumption, FS_Interval DEF Node
<1>2. IsFiniteSet(Node \X (1 .. MaxNodeWeight))
  BY <1>1, FS_Product
<1>3. Votes(S) \subseteq Node \X (1 .. MaxNodeWeight)
  BY DEF Votes
<1> QED
  BY <1>2, <1>3, FS_Subset

\* A weight is a natural number.
LEMMA WeightType ==
  ASSUME NEW S
  PROVE  Weight(S) \in Nat
  BY VotesFinite, FS_CardinalityType DEF Weight

\* A larger set of nodes has at least the weight.
LEMMA WeightMonotonic ==
  ASSUME NEW S, NEW T, S \subseteq T
  PROVE  Weight(S) <= Weight(T)
<1>1. Votes(S) \subseteq Votes(T)
  BY DEF Votes
<1> QED
  BY <1>1, VotesFinite, FS_Subset DEF Weight

\* The weights of two sets of nodes add up to those of union and intersection.
LEMMA WeightUnion ==
  ASSUME NEW S, NEW T
  PROVE  Weight(S \cup T) + Weight(S \cap T) = Weight(S) + Weight(T)
<1>1. Votes(S \cup T) = Votes(S) \cup Votes(T)
  BY DEF Votes
<1>2. Votes(S \cap T) = Votes(S) \cap Votes(T)
  BY DEF Votes
<1>3. Cardinality(Votes(S) \cup Votes(T)) =
        Cardinality(Votes(S)) + Cardinality(Votes(T)) - Cardinality(Votes(S) \cap Votes(T))
  BY VotesFinite, FS_Union
<1>4. /\ Weight(S) \in Nat /\ Weight(T) \in Nat
      /\ Weight(S \cup T) \in Nat /\ Weight(S \cap T) \in Nat
  BY WeightType
<1>5. /\ Weight(S \cup T) = Cardinality(Votes(S) \cup Votes(T))
      /\ Weight(S \cap T) = Cardinality(Votes(S) \cap Votes(T))
      /\ Weight(S) = Cardinality(Votes(S)) /\ Weight(T) = Cardinality(Votes(T))
  BY <1>1, <1>2, Zenon DEF Weight
<1> QED
  BY <1>3, <1>4, <1>5

\* One node has a positive weight, so the total is positive.
LEMMA TotalPositive == TotalQuorum \in Nat \ {0}
<1>1. PICK n \in Node : NodeWeight[n] > 0
  BY NodeAssumption
<1>2. <<n, 1>> \in Votes(Node)
  BY <1>1, NodeAssumption DEF Votes
<1>3. Cardinality(Votes(Node)) # 0
  BY <1>2, VotesFinite, FS_EmptySet
<1> QED
  BY <1>3, WeightType DEF TotalQuorum, Weight

\* A set that contains a quorum is one.
LEMMA QuorumMonotonic ==
  ASSUME NEW S, NEW T, S \subseteq T, IsQuorum(S)
  PROVE  IsQuorum(T)
<1>1. Weight(S) <= Weight(T) /\ Weight(S) \in Nat /\ Weight(T) \in Nat
  BY WeightMonotonic, WeightType
<1>2. MinRequiredQuorum \in Int
  <2>1. TotalQuorum \in Nat
    BY WeightType DEF TotalQuorum
  <2> QED BY <2>1 DEF MinRequiredQuorum, MaxFaultyQuorum
<1> QED BY <1>1, <1>2 DEF IsQuorum

\* No nodes at all are no quorum.
LEMMA EmptyNoQuorum ==
  /\ Weight({}) = 0
  /\ MaxFaultyQuorum \in Nat
  /\ ~IsQuorum({})
<1>1. Votes({}) = {}
  BY DEF Votes
<1>2. Weight({}) = 0
  BY <1>1, FS_EmptySet DEF Weight
<1>3. TotalQuorum \in Nat \ {0}
  BY TotalPositive
<1>4. MaxFaultyQuorum \in Nat /\ MinRequiredQuorum \in Nat \ {0}
  BY <1>3 DEF MaxFaultyQuorum, MinRequiredQuorum
<1> QED BY <1>2, <1>4 DEF IsQuorum

(***************************************************************************)
(* Two quorums, as updateQuorum sizes them, share nodes of more weight     *)
(* than MaxFaultyQuorum, for every list of nodes and weights.              *)
(***************************************************************************)
THEOREM QuorumIntersection ==
  ASSUME NEW S \in SUBSET Node, NEW T \in SUBSET Node, IsQuorum(S), IsQuorum(T)
  PROVE  Weight(S \cap T) > MaxFaultyQuorum
<1>1. Weight(S \cup T) + Weight(S \cap T) = Weight(S) + Weight(T)
  BY WeightUnion
<1>2. Weight(S \cup T) <= TotalQuorum
  BY WeightMonotonic DEF TotalQuorum
<1>3. Weight(S) \in Nat /\ Weight(T) \in Nat /\ Weight(S \cup T) \in Nat /\ Weight(S \cap T) \in Nat
  BY WeightType
<1>4. TotalQuorum \in Nat \ {0}
  BY TotalPositive
<1>5. MaxFaultyQuorum \in Nat /\ 3 * MaxFaultyQuorum <= TotalQuorum - 1
  BY <1>4 DEF MaxFaultyQuorum
<1> QED
  BY <1>1, <1>2, <1>3, <1>4, <1>5 DEF IsQuorum, MinRequiredQuorum

=============================================================================

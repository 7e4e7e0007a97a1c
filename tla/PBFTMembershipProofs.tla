------------------------ MODULE PBFTMembershipProofs ------------------------
(***************************************************************************)
(* A node list that changes, for every chain of lists, weights and leader  *)
(* periods and every set of offered blocks: type correctness, and that     *)
(* votes and signatures are judged by the list of their number.            *)
(***************************************************************************)
EXTENDS PBFTMembership, FiniteSetTheorems, TLAPS

-----------------------------------------------------------------------------
(* The invariant *)

\* no register of the update has been set
Before(s) == s.update.stage \in {"idle", "committed"}

\* resetConfig has set the registers in turn: each one fits the list and the
\* ledger, but for those whose turn is still to come
Fits(s) ==
  LET c == Conf[s.committed]
      pending(stages) == s.update.stage \in stages
  IN
  /\ s.update.stage # "idle" => s.update.number \in Index
  /\ s.update.stage = "committed" => s.update.number > s.committed
  /\ ~Before(s) => s.update.number = s.committed
  /\ ~pending({"list"}) => s.list = c.list
  /\ ~pending({"num"}) => s.nodeNum = Len(s.list)
  /\ ~pending({"num", "index"}) => s.nodeIndex = getNodeIndexByNodeID(s.list, Me)
  /\ ~pending({"num", "index", "quorum"}) => s.quorum = Quorum(s.list)
  /\ ~pending({"list", "num", "index", "quorum", "period"}) => s.period = c.period

HasVotes(s, i) == \E kind \in Kind, n \in Slot : s.votes[kind][i][n] # None

\* a number in the commit queue or in execution was ordered by votes that are
\* still counted, has no result, and reports once
Ordered(s) ==
  /\ s.stable \subseteq s.executed
  /\ \A i \in Index : i > s.committed =>
       /\ i \in s.executed => i \in s.submitted
       /\ i \in s.queue \/ i \in s.executing =>
            i \in s.submitted /\ i \notin s.executed /\ HasVotes(s, i)
       /\ ~(i \in s.queue /\ i \in s.executing)
  /\ \A r \in s.reports : r.number \in s.executing
  /\ \A q, r \in s.reports : q.number = r.number => q = r

\* the vote of the node at position n of the list of number i
OwnVote(i, n) == [from |-> At(Conf[i - 1].list, n).id, weight |-> At(Conf[i - 1].list, n).weight]

\* a number outside E has votes only while its list is in force, and they are
\* the votes of the nodes of that list
OwnVotes(s, E) ==
  \A i \in Index, kind \in Kind, n \in Slot :
    i > s.committed /\ i \notin E /\ s.votes[kind][i][n] # None =>
      /\ s.committed = i - 1 /\ Before(s)
      /\ Valid(Conf[i - 1].list, n) /\ s.votes[kind][i][n] = OwnVote(i, n)

\* this node's own CheckPoint names its position in the list of the number
OwnReports(s, E) ==
  \A r \in s.reports : r.number > s.committed /\ r.number \notin E =>
    r.slot = getNodeIndexByNodeID(Conf[r.number - 1].list, Me)

\* the positions of the list of number i whose own node's CheckPoint is counted
SignersIn(s, i) ==
  LET list == Conf[i - 1].list IN
  {n \in Slot : Valid(list, n) /\ s.votes["checkpoint"][i][n].from = At(list, n).id}

\* StableByOwnListUnlessEarly of a state
StableOwn(s, E) ==
  \A i \in s.stable : i > s.committed /\ i \notin E =>
    WeightOf(Conf[i - 1].list, SignersIn(s, i)) >= Quorum(Conf[i - 1].list)

Counted(s, E) == Ordered(s) /\ OwnVotes(s, E) /\ OwnReports(s, E) /\ StableOwn(s, E)

\* the positions whose signatures a check has verified
Verified(t) == {t.block.signatures[k] : k \in 1 .. t.verified}

\* a check during which no register changed has seen the list of its block, and
\* has added up the weights of the signatures it verified, which are those of
\* their positions when no position signs twice
CheckInv ==
  /\ check.verified <= Len(check.block.signatures)
  /\ check.stage \in {"number", "sealer", "list"} => check.verified = 0 /\ check.weight = 0
  /\ check.stage # "idle" /\ ~raced => Before(node)
  /\ check.stage = "signatures" /\ ~raced =>
       /\ node.list = OwnList(check.block)
       /\ IsInjective(check.block.signatures) => check.weight = WeightOf(node.list, Verified(check))

MembershipInv == Fits(node) /\ Counted(node, early) /\ CheckInv /\ AcceptedIsSignedUnlessRepeated

-----------------------------------------------------------------------------
(* Lists and weights *)

\* The constants, and the lists of the chain.
LEMMA Constants ==
  /\ Me \in Nat \ {0} /\ Voters \subseteq Nat \ {0}
  /\ MaxIndex \in Nat \ {0} /\ MaxNodes \in Nat \ {0} /\ MaxWeight \in Nat
  /\ WaterMarkLimit \in Nat \ {0}
  /\ \A i \in 0 .. MaxIndex : Conf[i].period \in Nat \ {0} /\ Conf[i].list \in Lists
  /\ \A list \in Lists :
       /\ list \in Seq(ConsensusNode) /\ Len(list) \in 1 .. MaxNodes
       /\ \E k \in DOMAIN list : list[k].weight > 0
<1>1. \A i \in 0 .. MaxIndex : Conf[i].list \in Lists
  BY DEF Lists
<1>2. 0 \in 0 .. MaxIndex
  BY MembershipAssumption
<1>3. MaxNodes \in Nat \ {0}
  BY <1>2, MembershipAssumption
<1> QED BY <1>1, <1>3, MembershipAssumption DEF Lists

\* Every number and its predecessor have a list.
LEMMA OwnListIs ==
  ASSUME NEW i \in Index
  PROVE  i - 1 \in 0 .. MaxIndex /\ i \in 0 .. MaxIndex /\ Conf[i - 1].list \in Lists
  BY Constants DEF Index

\* A valid position is a slot, and holds a node.
LEMMA Positions ==
  ASSUME NEW list \in Lists
  PROVE  /\ Len(list) \in Nat /\ 1 <= Len(list) /\ Len(list) <= MaxNodes
         /\ \A n : Valid(list, n) => n \in Slot /\ n # NonConsensus /\ At(list, n) \in ConsensusNode
<1>1. list \in Seq(ConsensusNode) /\ Len(list) \in Nat /\ 1 <= Len(list) /\ Len(list) <= MaxNodes
  BY Constants
<1>2. ASSUME NEW n, Valid(list, n)
      PROVE  n \in Slot /\ n # NonConsensus /\ At(list, n) \in ConsensusNode
  <2>1. n \in Int /\ 0 <= n /\ n <= Len(list) - 1
    BY <1>1, <1>2 DEF Valid
  <2>2. n \in Slot /\ n # NonConsensus
    BY <1>1, <2>1, Constants DEF Slot, NonConsensus
  <2>3. n + 1 \in 1 .. Len(list)
    BY <1>1, <2>1
  <2> QED BY <1>1, <2>2, <2>3 DEF At
<1> QED BY <1>1, <1>2

\* getNodeIndexByNodeID returns the position of the node, if there is one.
LEMMA IndexFound ==
  ASSUME NEW list \in Lists, NEW id
  PROVE  LET n == getNodeIndexByNodeID(list, id) IN
         /\ n \in Slot \cup {NonConsensus}
         /\ Valid(list, n) => At(list, n).id = id
<1>1. CASE \E n \in Slot : Valid(list, n) /\ At(list, n).id = id
  BY <1>1 DEF getNodeIndexByNodeID
<1>2. CASE ~(\E n \in Slot : Valid(list, n) /\ At(list, n).id = id)
  <2>1. getNodeIndexByNodeID(list, id) = NonConsensus
    BY <1>2 DEF getNodeIndexByNodeID
  <2>2. ~Valid(list, NonConsensus)
    BY Positions
  <2> QED BY <2>1, <2>2
<1> QED BY <1>1, <1>2

\* Finitely many nodes cast finitely many votes.
LEMMA WeightType ==
  ASSUME NEW w, IsFiniteSet(DOMAIN w)
  PROVE  IsFiniteSet(Votes(w)) /\ Weight(w) \in Nat
<1>1. IsFiniteSet(1 .. MaxWeight)
  BY Constants, FS_Interval
<1>2. IsFiniteSet((DOMAIN w) \X (1 .. MaxWeight))
  BY <1>1, FS_Product
<1>3. Votes(w) \subseteq (DOMAIN w) \X (1 .. MaxWeight)
  BY DEF Votes
<1>4. IsFiniteSet(Votes(w))
  BY <1>2, <1>3, FS_Subset
<1> QED BY <1>4, FS_CardinalityType DEF Weight

\* Slots and sets of slots are finite.
LEMMA SlotsFinite == IsFiniteSet(Slot) /\ \A S \in SUBSET Slot : IsFiniteSet(S)
<1>1. IsFiniteSet(Slot)
  BY Constants, FS_Interval DEF Slot
<1> QED BY <1>1, FS_Subset

\* updateQuorum: the quorum of a list is positive and at most the whole weight.
LEMMA QuorumType ==
  ASSUME NEW list \in Lists
  PROVE  Quorum(list) \in 1 .. MaxNodes * MaxWeight
<1> DEFINE w == [k \in DOMAIN list |-> list[k].weight]
           T == Total(list)
           B == (1 .. MaxNodes) \X (1 .. MaxWeight)
<1>1. /\ list \in Seq(ConsensusNode) /\ DOMAIN list = 1 .. Len(list)
      /\ Len(list) \in Nat /\ Len(list) <= MaxNodes
  BY Constants
<1>2. IsFiniteSet(DOMAIN list)
  BY <1>1, FS_Interval
<1>3. DOMAIN w = DOMAIN list
  OBVIOUS
<1>4. IsFiniteSet(Votes(w)) /\ T \in Nat /\ T = Cardinality(Votes(w))
  <2>1. IsFiniteSet(DOMAIN w)
    BY <1>2, <1>3
  <2> HIDE DEF w
  <2>2. IsFiniteSet(Votes(w)) /\ Weight(w) \in Nat
    BY <2>1, WeightType
  <2>3. T = Weight(w)
    BY DEF Total, w
  <2> QED BY <2>2, <2>3 DEF Weight
<1>5. T # 0
  <2>1. PICK k \in DOMAIN list : list[k].weight > 0
    BY Constants
  <2>2. list[k].weight \in 0 .. MaxWeight
    <3>1. list[k] \in ConsensusNode
      BY <1>1, <2>1
    <3> QED BY <3>1 DEF ConsensusNode
  <2>3. <<k, 1>> \in Votes(w)
    BY <2>1, <2>2, Constants DEF Votes
  <2> HIDE DEF w
  <2> QED BY <1>4, <2>3, FS_EmptySet
<1>6. T <= MaxNodes * MaxWeight
  <2>1. IsFiniteSet(1 .. MaxNodes) /\ Cardinality(1 .. MaxNodes) = MaxNodes
    BY Constants, FS_Interval
  <2>2. IsFiniteSet(1 .. MaxWeight) /\ Cardinality(1 .. MaxWeight) = MaxWeight
    BY Constants, FS_Interval
  <2>3. IsFiniteSet(B) /\ Cardinality(B) = MaxNodes * MaxWeight
    <3> DEFINE X == 1 .. MaxNodes
               Y == 1 .. MaxWeight
    <3> HIDE DEF X, Y
    <3>1. IsFiniteSet(X \X Y) /\ Cardinality(X \X Y) = Cardinality(X) * Cardinality(Y)
      BY <2>1, <2>2, FS_Product DEF X, Y
    <3>2. Cardinality(X) = MaxNodes /\ Cardinality(Y) = MaxWeight
      BY <2>1, <2>2 DEF X, Y
    <3>3. B = X \X Y
      BY DEF X, Y
    <3> QED BY <3>1, <3>2, <3>3
  <2>4. 1 .. Len(list) \subseteq 1 .. MaxNodes
    BY <1>1, Constants
  <2>5. Votes(w) \subseteq B
    BY <1>1, <1>3, <2>4 DEF Votes
  <2> HIDE DEF B, w
  <2>6. Cardinality(Votes(w)) <= Cardinality(B)
    BY <2>3, <2>5, FS_Subset
  <2> QED BY <1>4, <2>3, <2>6
<1>7. MaxNodes * MaxWeight \in Nat
  BY Constants
<1> DEFINE P == MaxNodes * MaxWeight
<1>8. Quorum(list) = T - (T - 1) \div 3 /\ T <= P /\ P \in Nat /\ T \in Nat /\ T # 0
  BY <1>4, <1>5, <1>6, <1>7 DEF Quorum
<1> HIDE DEF T, P
<1>9. (T - 1) \div 3 \in Int /\ 0 <= (T - 1) \div 3 /\ (T - 1) \div 3 <= T - 1
  BY <1>8
<1>10. Quorum(list) \in 1 .. P
  BY <1>8, <1>9
<1> QED BY <1>10 DEF P

\* A set of positions has a weight.
LEMMA WeightOfType ==
  ASSUME NEW list \in Lists, NEW S \in SUBSET Slot
  PROVE  WeightOf(list, S) \in Nat
<1> DEFINE D == {m \in S : Valid(list, m)}
           w == [n \in D |-> At(list, n).weight]
<1>1. IsFiniteSet(D)
  BY SlotsFinite
<1>2. DOMAIN w = D
  OBVIOUS
<1>3. WeightOf(list, S) = Weight(w)
  BY DEF WeightOf
<1> HIDE DEF w
<1> QED BY <1>1, <1>2, <1>3, WeightType

\* checkSignatureList adds up weights: one more position adds its weight.
LEMMA WeightAdds ==
  ASSUME NEW list \in Lists, NEW S \in SUBSET Slot, NEW n \in Slot, n \notin S, Valid(list, n)
  PROVE  WeightOf(list, S \cup {n}) = WeightOf(list, S) + At(list, n).weight
<1> DEFINE D == {m \in S : Valid(list, m)}
           E == {m \in S \cup {n} : Valid(list, m)}
           w == [m \in D |-> At(list, m).weight]
           v == [m \in E |-> At(list, m).weight]
           a == At(list, n).weight
           N == {n} \X (1 .. a)
<1>1. a \in Nat /\ a <= MaxWeight
  <2>1. At(list, n) \in ConsensusNode
    BY Positions
  <2> QED BY <2>1, Constants DEF ConsensusNode
<1>2. E = D \cup {n} /\ n \notin D
  OBVIOUS
<1>3. Votes(v) = Votes(w) \cup N
  <2>1. Votes(v) = {u \in E \X (1 .. MaxWeight) : u[2] <= At(list, u[1]).weight}
    BY DEF Votes
  <2>2. Votes(w) = {u \in D \X (1 .. MaxWeight) : u[2] <= At(list, u[1]).weight}
    BY DEF Votes
  <2>3. N = {u \in {n} \X (1 .. MaxWeight) : u[2] <= At(list, u[1]).weight}
    BY <1>1, Constants
  <2> HIDE DEF E, D, N, w, v
  <2> QED BY <1>2, <2>1, <2>2, <2>3
<1>4. Votes(w) \cap N = {}
  <2>1. \A u \in Votes(w) : u[1] \in D
    BY DEF Votes
  <2>2. \A u \in N : u[1] = n
    OBVIOUS
  <2> QED BY <1>2, <2>1, <2>2
<1>5. IsFiniteSet(N) /\ Cardinality(N) = a
  <2>1. IsFiniteSet({n}) /\ Cardinality({n}) = 1
    BY FS_Singleton
  <2> DEFINE X == {n}
             Y == 1 .. a
  <2> HIDE DEF a
  <2>2. 1 \in Int /\ a \in Int /\ a - 1 + 1 = a /\ (1 > a => a = 0)
    BY <1>1
  <2>3. IsFiniteSet(Y) /\ Cardinality(Y) = a
    BY <2>2, FS_Interval
  <2>4. N = X \X Y
    OBVIOUS
  <2> HIDE DEF X, Y, N
  <2>5. IsFiniteSet(X) /\ Cardinality(X) = 1
    BY <2>1 DEF X
  <2>6. IsFiniteSet(N) /\ Cardinality(N) = Cardinality(X) * Cardinality(Y)
    BY <2>3, <2>4, <2>5, FS_Product
  <2> QED BY <1>1, <2>3, <2>5, <2>6
<1>6. IsFiniteSet(Votes(w))
  <2>1. IsFiniteSet(D) /\ DOMAIN w = D
    BY SlotsFinite
  <2> HIDE DEF D, w
  <2> QED BY <2>1, WeightType
<1>7. WeightOf(list, S) = Cardinality(Votes(w)) /\ WeightOf(list, S \cup {n}) = Cardinality(Votes(v))
  BY DEF WeightOf, Weight
<1> HIDE DEF w, v, N, a
<1>8. Cardinality(Votes(w) \cup N) = Cardinality(Votes(w)) + Cardinality(N)
  <2>1. Cardinality(Votes(w) \cup N) = Cardinality(Votes(w)) + Cardinality(N) - Cardinality(Votes(w) \cap N)
    BY <1>5, <1>6, FS_Union
  <2>2. Cardinality(Votes(w) \cap N) = 0
    BY <1>4, FS_EmptySet
  <2>3. Cardinality(Votes(w)) \in Nat /\ Cardinality(N) \in Nat
    BY <1>5, <1>6, FS_CardinalityType
  <2> QED BY <2>1, <2>2, <2>3
<1> QED BY <1>3, <1>5, <1>7, <1>8 DEF a

\* No positions have no weight.
LEMMA NoWeight ==
  ASSUME NEW list
  PROVE  WeightOf(list, {}) = 0
<1> DEFINE w == [n \in {m \in {} : Valid(list, m)} |-> At(list, n).weight]
<1>1. Votes(w) = {}
  BY DEF Votes
<1>2. WeightOf(list, {}) = Cardinality(Votes(w))
  BY DEF WeightOf, Weight
<1> QED BY <1>1, <1>2, FS_EmptySet


-----------------------------------------------------------------------------
(* States *)

\* The types of the registers of a state.
LEMMA Registers ==
  ASSUME NEW s \in State
  PROVE  /\ s.committed \in 0 .. MaxIndex /\ s.expected \in 1 .. MaxIndex + 1 /\ s.list \in Lists
         /\ s.nodeIndex \in Slot \cup {NonConsensus} /\ s.quorum \in 1 .. MaxNodes * MaxWeight
         /\ s.waitSeal \in 0 .. MaxIndex
         /\ s.update \in [stage : UpdateStage, number : 0 .. MaxIndex, synced : BOOLEAN]
         /\ s.proposed \in SUBSET Index /\ s.votes \in [Kind -> [Index -> [Slot -> Vote]]]
         /\ s.submitted \in SUBSET Index /\ s.queue \in SUBSET Index
         /\ s.executing \in SUBSET Index
         /\ s.reports \in SUBSET [number : Index, slot : Slot \cup {NonConsensus}, at : 0 .. MaxIndex]
         /\ s.executed \in SUBSET Index /\ s.stable \in SUBSET Index
         /\ s.stableQueue \in SUBSET Index /\ s.committing \in SUBSET Index
  BY DEF State

\* Block numbers and the registers that hold one are integers.
LEMMA Numbers ==
  /\ \A i : i \in Index <=> i \in Int /\ 1 <= i /\ i <= MaxIndex
  /\ \A s \in State : /\ s.committed \in Int /\ 0 <= s.committed /\ s.committed <= MaxIndex
                      /\ s.expected \in Int /\ 1 <= s.expected /\ s.expected <= MaxIndex + 1
<1>1. MaxIndex \in Nat
  BY Constants
<1> QED BY <1>1, Registers DEF Index

\* A quorum is collected by some vote.
LEMMA CollectedSome ==
  ASSUME NEW s \in State, NEW kind \in Kind, NEW i \in Index, collectEnoughQuorum(s, kind, i)
  PROVE  HasVotes(s, i)
<1> DEFINE w == [n \in Slot |-> s.votes[kind][i][n].weight]
<1>1. SUFFICES ASSUME \A n \in Slot : s.votes[kind][i][n] = None
               PROVE  FALSE
  BY DEF HasVotes
<1>2. \A n \in Slot : w[n] = 0
  BY <1>1 DEF None
<1>3. Weight(w) >= s.quorum
  BY DEF collectEnoughQuorum
<1>4. DOMAIN w = Slot
  OBVIOUS
<1> HIDE DEF w
<1>5. Votes(w) = {}
  <2>1. \A u \in Votes(w) : u[1] \in Slot /\ u[2] \in 1 .. MaxWeight /\ u[2] <= w[u[1]]
    BY <1>4 DEF Votes
  <2>2. \A u \in Votes(w) : FALSE
    BY <1>2, <2>1, Constants
  <2> QED BY <2>2
<1>6. Weight(w) = 0
  BY <1>5, FS_EmptySet DEF Weight
<1>7. s.quorum >= 1
  BY Registers, Constants
<1>8. s.quorum \in Int
  BY Registers, Constants
<1> QED BY <1>3, <1>6, <1>7, <1>8

\* A quorum of the votes of a list is collected from nodes that make up a
\* quorum of the list.
LEMMA CollectedOwn ==
  ASSUME NEW s \in State, NEW i \in Index, collectEnoughQuorum(s, "checkpoint", i),
         s.quorum = Quorum(Conf[i - 1].list),
         \A n \in Slot : s.votes["checkpoint"][i][n] # None =>
           Valid(Conf[i - 1].list, n) /\ s.votes["checkpoint"][i][n] = OwnVote(i, n)
  PROVE  WeightOf(Conf[i - 1].list, SignersIn(s, i)) >= Quorum(Conf[i - 1].list)
<1> DEFINE list == Conf[i - 1].list
           S == SignersIn(s, i)
           D == {m \in S : Valid(list, m)}
           w == [n \in Slot |-> s.votes["checkpoint"][i][n].weight]
           v == [n \in D |-> At(list, n).weight]
<1>1. list \in Lists
  BY OwnListIs
<1>2. S \in SUBSET Slot /\ IsFiniteSet(D)
  BY SlotsFinite DEF SignersIn
<1>3. IsFiniteSet(Votes(v)) /\ Weight(v) \in Nat
  <2>1. DOMAIN v = D
    OBVIOUS
  <2> HIDE DEF D, v
  <2> QED BY <1>2, <2>1, WeightType
<1>4. Votes(w) \subseteq Votes(v)
  <2>1. SUFFICES ASSUME NEW u \in Votes(w)
                 PROVE  u \in Votes(v)
    OBVIOUS
  <2>2. u \in Slot \X (1 .. MaxWeight) /\ u[2] <= s.votes["checkpoint"][i][u[1]].weight
    BY DEF Votes
  <2>3. u = <<u[1], u[2]>> /\ u[1] \in Slot /\ u[2] \in 1 .. MaxWeight
    BY <2>2
  <2>4. s.votes["checkpoint"][i][u[1]] # None
    BY <2>2, <2>3, Constants DEF None
  <2>5. Valid(list, u[1]) /\ s.votes["checkpoint"][i][u[1]] = OwnVote(i, u[1])
    BY <2>3, <2>4
  <2>6. s.votes["checkpoint"][i][u[1]].from = At(list, u[1]).id
        /\ s.votes["checkpoint"][i][u[1]].weight = At(list, u[1]).weight
    BY <2>5 DEF OwnVote
  <2>7. u[1] \in D
    BY <2>3, <2>5, <2>6 DEF SignersIn
  <2>8. u[2] <= v[u[1]]
    BY <2>2, <2>6, <2>7
  <2> HIDE DEF D, v
  <2>9. DOMAIN v = D
    BY DEF v
  <2> QED BY <2>3, <2>7, <2>8, <2>9 DEF Votes
<1>5. Cardinality(Votes(w)) <= Cardinality(Votes(v)) /\ Cardinality(Votes(w)) \in Nat
  <2> HIDE DEF w, v
  <2>1. IsFiniteSet(Votes(w))
    BY <1>3, <1>4, FS_Subset
  <2> QED BY <1>3, <1>4, <2>1, FS_Subset, FS_CardinalityType
<1>6. Cardinality(Votes(w)) >= s.quorum
  BY DEF collectEnoughQuorum, Weight
<1>7. WeightOf(list, S) = Cardinality(Votes(v)) /\ Cardinality(Votes(v)) \in Nat
  BY <1>3 DEF WeightOf, Weight
<1>8. s.quorum \in Int
  BY Registers, Constants
<1> HIDE DEF w, v, S
<1>9. WeightOf(list, S) >= s.quorum
  BY <1>5, <1>6, <1>7, <1>8
<1> QED BY <1>9 DEF S

\* the registers of resetConfig are the same
SameConfig(s, t) ==
  /\ t.committed = s.committed /\ t.list = s.list /\ t.nodeNum = s.nodeNum
  /\ t.nodeIndex = s.nodeIndex /\ t.quorum = s.quorum /\ t.period = s.period
  /\ t.update = s.update

\* what the caches have counted is the same
SameVotes(s, t) ==
  /\ t.votes = s.votes /\ t.submitted = s.submitted /\ t.executed = s.executed
  /\ t.stable = s.stable /\ t.reports = s.reports

\* The registers fit as before.
LEMMA FitsKept ==
  ASSUME NEW s, NEW t, SameConfig(s, t), Fits(s)
  PROVE  Fits(t)
  BY DEF SameConfig, Fits, Before

\* More numbers may be early.
LEMMA CountedMore ==
  ASSUME NEW s, NEW E, NEW F, E \subseteq F, Counted(s, E)
  PROVE  Counted(s, F)
<1>1. OwnVotes(s, F)
  BY DEF Counted, OwnVotes
<1>2. OwnReports(s, F)
  BY DEF Counted, OwnReports
<1>3. StableOwn(s, F)
  BY DEF Counted, StableOwn
<1> QED BY <1>1, <1>2, <1>3 DEF Counted

\* The parts that depend on the votes alone.
LEMMA VotesKept ==
  ASSUME NEW s, NEW t, NEW E, SameVotes(s, t), t.committed = s.committed, t.update = s.update,
         Counted(s, E)
  PROVE  OwnVotes(t, E) /\ OwnReports(t, E) /\ StableOwn(t, E)
<1>1. OwnVotes(t, E)
  BY DEF Counted, OwnVotes, SameVotes, Before
<1>2. OwnReports(t, E)
  BY DEF Counted, OwnReports, SameVotes
<1>3. \A i : SignersIn(t, i) = SignersIn(s, i)
  BY DEF SignersIn, SameVotes
<1>4. StableOwn(t, E)
  BY <1>3 DEF Counted, StableOwn, SameVotes
<1> QED BY <1>1, <1>2, <1>4


-----------------------------------------------------------------------------
(* The operators *)

\* numbers of the queue are started, or dropped from it
Starts(s, t) ==
  /\ SameConfig(s, t) /\ SameVotes(s, t)
  /\ t.queue \subseteq s.queue /\ s.executing \subseteq t.executing
  /\ \A j \in t.executing : j \in s.executing \/ (j \in s.queue /\ j \notin t.queue)

\* tryToApplyCommitQueue starts at most one number of the queue.
LEMMA ApplyStarts ==
  ASSUME NEW s \in State
  PROVE  LET t == tryToApplyCommitQueue(s) IN
         t \in State /\ Starts(s, t) /\ t.expected = s.expected
<1> DEFINE t == tryToApplyCommitQueue(s)
           i == s.expected
           valid == {j \in s.queue : j >= i}
           a == [s EXCEPT !.queue = valid]
           W == IF System(i) /\ i > s.waitSeal THEN i ELSE s.waitSeal
           b == [s EXCEPT !.queue = valid \ {i}, !.executing = s.executing \cup {i}, !.waitSeal = W]
<1>1. \/ t = a
      \/ i \in valid /\ i \notin s.executing /\ t = b
  BY DEF tryToApplyCommitQueue
<1>2. valid \in SUBSET Index /\ valid \subseteq s.queue
  BY Registers
<1>3. ASSUME i \in valid
      PROVE  W \in 0 .. MaxIndex /\ i \in Index
  <2>1. i \in Index
    BY <1>2, <1>3
  <2>2. i \in 0 .. MaxIndex
    BY <2>1, Numbers, Constants
  <2> QED BY <2>1, <2>2, Registers
<1> HIDE DEF i, valid, W
<1>4. /\ a \in State /\ SameConfig(s, a) /\ SameVotes(s, a) /\ a.expected = s.expected
      /\ a.queue = valid /\ a.executing = s.executing
  BY <1>2 DEF State, SameConfig, SameVotes
<1>5. i \in valid =>
      /\ b \in State /\ SameConfig(s, b) /\ SameVotes(s, b) /\ b.expected = s.expected
      /\ b.queue = valid \ {i} /\ b.executing = s.executing \cup {i}
  <2>1. SUFFICES ASSUME i \in valid
                 PROVE  /\ b \in State /\ SameConfig(s, b) /\ SameVotes(s, b)
                        /\ b.expected = s.expected
                        /\ b.queue = valid \ {i} /\ b.executing = s.executing \cup {i}
    OBVIOUS
  <2>2. W \in 0 .. MaxIndex /\ s.executing \cup {i} \in SUBSET Index /\ valid \ {i} \in SUBSET Index
    BY <1>2, <1>3, <2>1, Registers
  <2>3. b \in State
    BY <2>2 DEF State
  <2> QED BY <2>3 DEF State, SameConfig, SameVotes
<1> HIDE DEF a, b, t
<1> QED BY <1>1, <1>2, <1>4, <1>5 DEF Starts, t

\* Starting numbers of the queue changes no vote.
LEMMA Started ==
  ASSUME NEW s \in State, NEW t \in State, NEW E, Counted(s, E), Starts(s, t)
  PROVE  Counted(t, E)
<1>1. Ordered(t)
  <2>1. Ordered(s)
    BY DEF Counted
  <2>2. \A j : HasVotes(s, j) => HasVotes(t, j)
    BY DEF HasVotes, Starts, SameVotes
  <2>3. t.stable \subseteq t.executed
    BY <2>1 DEF Ordered, Starts, SameVotes
  <2>4. ASSUME NEW j \in Index, j > t.committed
        PROVE  /\ j \in t.executed => j \in t.submitted
               /\ j \in t.queue \/ j \in t.executing =>
                    j \in t.submitted /\ j \notin t.executed /\ HasVotes(t, j)
               /\ ~(j \in t.queue /\ j \in t.executing)
    BY <2>1, <2>2, <2>4 DEF Ordered, Starts, SameVotes, SameConfig
  <2>5. /\ \A r \in t.reports : r.number \in t.executing
        /\ \A q, r \in t.reports : q.number = r.number => q = r
    BY <2>1 DEF Ordered, Starts, SameVotes
  <2> QED BY <2>3, <2>4, <2>5 DEF Ordered
<1>2. SameVotes(s, t) /\ t.committed = s.committed /\ t.update = s.update
  BY DEF Starts, SameConfig
<1> QED BY <1>1, <1>2, VotesKept DEF Counted

\* checkAndCommit queues a number that is ordered.
LEMMA CheckedCommit ==
  ASSUME NEW s \in State, NEW E, Counted(s, E), NEW i \in Index
  PROVE  LET t == checkAndCommit(s, i) IN
         t \in State /\ SameConfig(s, t) /\ Counted(t, E)
<1> DEFINE t == checkAndCommit(s, i)
           a == [s EXCEPT !.submitted = s.submitted \cup {i}, !.queue = s.queue \cup {i}]
<1>1. \/ t = s
      \/ i \notin s.submitted /\ collectEnoughQuorum(s, "commit", i) /\ t = tryToApplyCommitQueue(a)
  BY DEF checkAndCommit
<1>2. CASE t = s
  BY <1>2 DEF SameConfig
<1>3. CASE i \notin s.submitted /\ collectEnoughQuorum(s, "commit", i) /\ t = tryToApplyCommitQueue(a)
  <2>1. HasVotes(s, i)
    BY <1>3, CollectedSome DEF Kind
  <2>2. s.submitted \cup {i} \in SUBSET Index /\ s.queue \cup {i} \in SUBSET Index
    BY Registers
  <2>3. /\ a \in State /\ SameConfig(s, a) /\ a.votes = s.votes /\ a.executed = s.executed
        /\ a.stable = s.stable /\ a.reports = s.reports /\ a.executing = s.executing
        /\ a.submitted = s.submitted \cup {i} /\ a.queue = s.queue \cup {i}
    BY <2>2 DEF State, SameConfig
  <2> HIDE DEF a
  <2>4. Ordered(a)
    <3>1. Ordered(s)
      BY DEF Counted
    <3>2. \A j : HasVotes(s, j) => HasVotes(a, j)
      BY <2>3 DEF HasVotes
    <3>3. ASSUME NEW j \in Index, j > a.committed
          PROVE  /\ j \in a.executed => j \in a.submitted
                 /\ j \in a.queue \/ j \in a.executing =>
                      j \in a.submitted /\ j \notin a.executed /\ HasVotes(a, j)
                 /\ ~(j \in a.queue /\ j \in a.executing)
      BY <1>3, <2>1, <2>3, <3>1, <3>2, <3>3 DEF Ordered, SameConfig
    <3> QED BY <2>3, <3>1, <3>3 DEF Ordered
  <2>5. OwnVotes(a, E)
    BY <2>3 DEF Counted, OwnVotes, Before, SameConfig
  <2>6. OwnReports(a, E)
    BY <2>3 DEF Counted, OwnReports, SameConfig
  <2>7. StableOwn(a, E)
    <3>1. \A j : SignersIn(a, j) = SignersIn(s, j)
      BY <2>3 DEF SignersIn
    <3> QED BY <2>3, <3>1 DEF Counted, StableOwn, SameConfig
  <2>8. Counted(a, E)
    BY <2>4, <2>5, <2>6, <2>7 DEF Counted
  <2>9. t \in State /\ SameConfig(a, t) /\ Counted(t, E)
    BY <1>3, <2>3, <2>8, ApplyStarts, Started DEF Starts
  <2> HIDE DEF t
  <2>10. SameConfig(s, t)
    BY <2>3, <2>9 DEF SameConfig
  <2> QED BY <2>9, <2>10 DEF t
<1> QED BY <1>1, <1>2, <1>3

\* tryToCommitStableCheckPoint moves stable numbers only.
LEMMA StableCommitted ==
  ASSUME NEW s \in State, NEW E
  PROVE  LET t == tryToCommitStableCheckPoint(s) IN
         /\ t \in State /\ SameConfig(s, t) /\ SameVotes(s, t) /\ t.expected = s.expected
         /\ t.queue = s.queue /\ t.executing = s.executing
         /\ Counted(s, E) => Counted(t, E)
<1> DEFINE valid == {i \in s.stableQueue : i > s.committed}
           next == valid \cap {s.committed + 1}
           Q == valid \ next
           C == s.committing \cup next
           t == [s EXCEPT !.stableQueue = Q, !.committing = C]
<1>1. tryToCommitStableCheckPoint(s) = t
  BY DEF tryToCommitStableCheckPoint
<1>2. Q \in SUBSET Index /\ C \in SUBSET Index
  BY Registers
<1> HIDE DEF Q, C
<1>3. /\ t \in State /\ SameConfig(s, t) /\ SameVotes(s, t) /\ t.expected = s.expected
      /\ t.queue = s.queue /\ t.executing = s.executing
  BY <1>2 DEF State, SameConfig, SameVotes
<1> HIDE DEF t
<1>4. ASSUME Counted(s, E)
      PROVE  Counted(t, E)
  <2>1. Ordered(t)
    BY <1>3, <1>4 DEF Counted, Ordered, HasVotes, SameVotes, SameConfig
  <2> QED BY <1>3, <1>4, <2>1, VotesKept DEF Counted, SameConfig
<1> QED BY <1>1, <1>3, <1>4

\* results with a collected quorum become stable
Stabilizes(s, t) ==
  /\ SameConfig(s, t) /\ t.votes = s.votes /\ t.executed = s.executed
  /\ t.reports = s.reports /\ t.submitted = s.submitted
  /\ t.queue = s.queue /\ t.executing = s.executing
  /\ t.stable \in SUBSET Index
  /\ \A i \in t.stable :
       i \in s.stable \/ (i \in s.executed /\ collectEnoughQuorum(s, "checkpoint", i))

\* checkAndCommitStableCheckPoint counts the CheckPoint votes of executed numbers.
LEMMA StableStabilizes ==
  ASSUME NEW s \in State
  PROVE  LET t == checkAndCommitStableCheckPoint(s) IN
         t \in State /\ Stabilizes(s, t) /\ t.expected = s.expected
<1> DEFINE t == checkAndCommitStableCheckPoint(s)
           new == {i \in s.executed \ s.stable : collectEnoughQuorum(s, "checkpoint", i)}
           S == s.stable \cup new
           Q == s.stableQueue \cup {i \in new : i > s.committed}
           a == [s EXCEPT !.stable = S, !.stableQueue = Q]
<1>1. t = s \/ t = tryToCommitStableCheckPoint(a)
  BY DEF checkAndCommitStableCheckPoint
<1>2. S \in SUBSET Index /\ Q \in SUBSET Index
  BY Registers
<1>3. \A i \in S : i \in s.stable \/ (i \in s.executed /\ collectEnoughQuorum(s, "checkpoint", i))
  OBVIOUS
<1> HIDE DEF S, Q, new
<1>4. /\ a \in State /\ SameConfig(s, a) /\ a.votes = s.votes /\ a.executed = s.executed
      /\ a.stable = S /\ a.reports = s.reports /\ a.executing = s.executing /\ a.queue = s.queue
      /\ a.submitted = s.submitted /\ a.expected = s.expected
  BY <1>2 DEF State, SameConfig
<1> HIDE DEF a
<1>5. CASE t = s
  BY <1>5, Registers DEF SameConfig, Stabilizes
<1>6. CASE t = tryToCommitStableCheckPoint(a)
  <2>1. /\ t \in State /\ SameConfig(a, t) /\ SameVotes(a, t) /\ t.expected = a.expected
        /\ t.queue = a.queue /\ t.executing = a.executing
    BY <1>4, <1>6, StableCommitted
  <2> HIDE DEF t
  <2>2. SameConfig(s, t)
    BY <1>4, <2>1 DEF SameConfig
  <2>3. Stabilizes(s, t)
    BY <1>2, <1>3, <1>4, <2>1, <2>2 DEF SameVotes, Stabilizes
  <2> QED BY <1>4, <2>1, <2>3 DEF t
<1> QED BY <1>1, <1>5, <1>6

\* A number that becomes stable, and is not early, has a quorum of its own list.
LEMMA Stabilized ==
  ASSUME NEW s \in State, NEW t \in State, NEW E, Counted(s, E), Fits(s), Stabilizes(s, t)
  PROVE  Counted(t, E)
<1>1. Ordered(t)
  BY DEF Counted, Ordered, HasVotes, SameConfig, Stabilizes
<1>2. OwnVotes(t, E)
  BY DEF Counted, OwnVotes, Before, SameConfig, Stabilizes
<1>3. OwnReports(t, E)
  BY DEF Counted, OwnReports, SameConfig, Stabilizes
<1>4. StableOwn(t, E)
  <2>1. SUFFICES ASSUME NEW i \in t.stable, i > s.committed, i \notin E
                 PROVE  WeightOf(Conf[i - 1].list, SignersIn(t, i)) >= Quorum(Conf[i - 1].list)
    BY DEF StableOwn, SameConfig, Stabilizes
  <2>2. SignersIn(t, i) = SignersIn(s, i)
    BY DEF SignersIn, Stabilizes
  <2>3. CASE i \in s.stable
    BY <2>1, <2>2, <2>3 DEF Counted, StableOwn
  <2>4. CASE i \in s.executed /\ collectEnoughQuorum(s, "checkpoint", i)
    <3>1. i \in Index
      BY Registers
    <3>2. HasVotes(s, i)
      BY <2>4, <3>1, CollectedSome DEF Kind
    <3>3. s.committed = i - 1 /\ Before(s)
      BY <2>1, <3>1, <3>2 DEF Counted, OwnVotes, HasVotes
    <3>4. s.quorum = Quorum(Conf[i - 1].list)
      BY <3>3 DEF Fits, Before
    <3>5. \A n \in Slot : s.votes["checkpoint"][i][n] # None =>
            Valid(Conf[i - 1].list, n) /\ s.votes["checkpoint"][i][n] = OwnVote(i, n)
      BY <2>1, <3>1 DEF Counted, OwnVotes, Kind
    <3> QED BY <2>2, <2>4, <3>1, <3>4, <3>5, CollectedOwn
  <2> QED BY <2>3, <2>4 DEF Stabilizes
<1> QED BY <1>1, <1>2, <1>3, <1>4 DEF Counted

\* More positions weigh no less.
LEMMA WeightMonotonic ==
  ASSUME NEW list \in Lists, NEW S \in SUBSET Slot, NEW T \in SUBSET Slot, S \subseteq T
  PROVE  WeightOf(list, S) <= WeightOf(list, T)
<1> DEFINE D == {m \in S : Valid(list, m)}
           E == {m \in T : Valid(list, m)}
           w == [m \in D |-> At(list, m).weight]
           v == [m \in E |-> At(list, m).weight]
<1>1. Votes(w) \subseteq Votes(v)
  <2>1. Votes(v) = {u \in E \X (1 .. MaxWeight) : u[2] <= At(list, u[1]).weight}
    BY DEF Votes
  <2>2. Votes(w) = {u \in D \X (1 .. MaxWeight) : u[2] <= At(list, u[1]).weight}
    BY DEF Votes
  <2>3. D \subseteq E
    OBVIOUS
  <2> HIDE DEF D, E, w, v
  <2> QED BY <2>1, <2>2, <2>3
<1>2. IsFiniteSet(Votes(v))
  <2>1. IsFiniteSet(E) /\ DOMAIN v = E
    BY SlotsFinite
  <2> HIDE DEF E, v
  <2> QED BY <2>1, WeightType
<1>3. WeightOf(list, S) = Cardinality(Votes(w)) /\ WeightOf(list, T) = Cardinality(Votes(v))
  BY DEF WeightOf, Weight
<1> HIDE DEF w, v
<1> QED BY <1>1, <1>2, <1>3, FS_Subset

\* what is queued and executed is the same
SameWork(s, t) ==
  /\ t.submitted = s.submitted /\ t.executed = s.executed /\ t.stable = s.stable
  /\ t.reports = s.reports /\ t.queue = s.queue /\ t.executing = s.executing
  /\ t.expected = s.expected

\* addCache counts a vote that is not there yet, and overwrites none.  A vote
\* that is right, or of an early number, keeps the votes in order.
LEMMA AddCached ==
  ASSUME NEW s \in State, NEW E, NEW F, E \subseteq F, Counted(s, E),
         NEW kind \in Kind, NEW i \in Index, NEW n \in Slot \cup {NonConsensus},
         NEW id \in Nat \ {0},
         i > s.committed /\ i \notin F /\ Valid(s.list, n) =>
           /\ s.committed = i - 1 /\ Before(s) /\ s.list = Conf[i - 1].list
           /\ At(s.list, n).id = id
  PROVE  LET t == addCache(s, kind, i, n, id) IN
         t \in State /\ SameConfig(s, t) /\ SameWork(s, t) /\ Counted(t, F)
<1> DEFINE t == addCache(s, kind, i, n, id)
           v == [from |-> id, weight |-> At(s.list, n).weight]
           V == [s.votes EXCEPT ![kind][i][n] = v]
           a == [s EXCEPT !.votes = V]
<1>1. Counted(s, F)
  BY CountedMore
<1>2. \/ t = s
      \/ Valid(s.list, n) /\ s.votes[kind][i][n] = None /\ t = a
  BY DEF addCache
<1>3. CASE t = s
  BY <1>1, <1>3 DEF SameConfig, SameWork
<1>4. CASE Valid(s.list, n) /\ s.votes[kind][i][n] = None /\ t = a
  <2>1. s.list \in Lists /\ s.votes \in [Kind -> [Index -> [Slot -> Vote]]]
    BY Registers
  <2>2. n \in Slot /\ At(s.list, n) \in ConsensusNode
    BY <1>4, <2>1, Positions
  <2>3. v \in Vote /\ v # None
    BY <2>2 DEF ConsensusNode, Vote, None
  <2> HIDE DEF v
  <2>4. V \in [Kind -> [Index -> [Slot -> Vote]]]
    BY <2>1, <2>2, <2>3
  <2>5. V[kind][i][n] = v
    BY <2>1, <2>2
  <2>6. \A k \in Kind, j \in Index, m \in Slot :
          k # kind \/ j # i \/ m # n => V[k][j][m] = s.votes[k][j][m]
    BY <2>1, <2>2
  <2> HIDE DEF V
  <2>7. a \in State /\ SameConfig(s, a) /\ SameWork(s, a) /\ a.votes = V
    BY <2>4 DEF State, SameConfig, SameWork
  <2> HIDE DEF a
  <2>8. \A j \in Index : HasVotes(s, j) => HasVotes(a, j)
    <3>1. \A k \in Kind, j \in Index, m \in Slot :
            s.votes[k][j][m] # None => V[k][j][m] = s.votes[k][j][m]
      BY <1>4, <2>6
    <3> QED BY <2>7, <3>1 DEF HasVotes
  <2>9. Ordered(a)
    BY <1>1, <2>7, <2>8 DEF Counted, Ordered, SameWork, SameConfig
  <2>10. OwnVotes(a, F)
    <3>1. SUFFICES ASSUME NEW j \in Index, NEW k \in Kind, NEW m \in Slot,
                          j > a.committed, j \notin F, a.votes[k][j][m] # None
                   PROVE  /\ a.committed = j - 1 /\ Before(a)
                          /\ Valid(Conf[j - 1].list, m) /\ a.votes[k][j][m] = OwnVote(j, m)
      BY DEF OwnVotes
    <3>2. j > s.committed /\ a.committed = s.committed /\ (Before(a) <=> Before(s))
      BY <2>7, <3>1 DEF SameConfig, Before
    <3>3. CASE k = kind /\ j = i /\ m = n
      <4>1. /\ s.committed = i - 1 /\ Before(s) /\ s.list = Conf[i - 1].list
            /\ At(s.list, n).id = id
        BY <1>4, <3>1, <3>2, <3>3
      <4>2. v = OwnVote(i, n)
        BY <4>1 DEF v, OwnVote
      <4> QED BY <1>4, <2>5, <2>7, <3>2, <3>3, <4>1, <4>2
    <3>4. CASE ~(k = kind /\ j = i /\ m = n)
      <4>1. a.votes[k][j][m] = s.votes[k][j][m]
        BY <2>6, <2>7, <3>4
      <4> QED BY <1>1, <3>1, <3>2, <4>1 DEF Counted, OwnVotes
    <3> QED BY <3>3, <3>4
  <2>11. OwnReports(a, F)
    BY <1>1, <2>7 DEF Counted, OwnReports, SameConfig, SameWork
  <2>12. StableOwn(a, F)
    <3>1. SUFFICES ASSUME NEW j \in s.stable, j > s.committed, j \notin F
                   PROVE  WeightOf(Conf[j - 1].list, SignersIn(a, j)) >= Quorum(Conf[j - 1].list)
      BY <2>7 DEF StableOwn, SameConfig, SameWork
    <3>2. j \in Index
      BY Registers
    <3>3. Conf[j - 1].list \in Lists
      BY <3>2, OwnListIs
    <3>4. SignersIn(s, j) \in SUBSET Slot /\ SignersIn(a, j) \in SUBSET Slot
      BY DEF SignersIn
    <3>5. SignersIn(s, j) \subseteq SignersIn(a, j)
      <4>1. SUFFICES ASSUME NEW m \in SignersIn(s, j)
                     PROVE  m \in SignersIn(a, j)
        OBVIOUS
      <4>2. m \in Slot /\ Valid(Conf[j - 1].list, m)
            /\ s.votes["checkpoint"][j][m].from = At(Conf[j - 1].list, m).id
        BY DEF SignersIn
      <4>3. At(Conf[j - 1].list, m).id # 0
        BY <3>3, <4>2, Positions DEF ConsensusNode
      <4>4. s.votes["checkpoint"][j][m] # None
        BY <4>2, <4>3 DEF None
      <4>5. a.votes["checkpoint"][j][m] = s.votes["checkpoint"][j][m]
        BY <1>4, <2>6, <2>7, <3>2, <4>2, <4>4 DEF Kind
      <4> QED BY <4>2, <4>5 DEF SignersIn
    <3>6. WeightOf(Conf[j - 1].list, SignersIn(s, j)) >= Quorum(Conf[j - 1].list)
      BY <1>1, <3>1 DEF Counted, StableOwn
    <3>7. WeightOf(Conf[j - 1].list, SignersIn(s, j)) <= WeightOf(Conf[j - 1].list, SignersIn(a, j))
      BY <3>3, <3>4, <3>5, WeightMonotonic
    <3>8. /\ WeightOf(Conf[j - 1].list, SignersIn(s, j)) \in Int
          /\ WeightOf(Conf[j - 1].list, SignersIn(a, j)) \in Int
      BY <3>3, <3>4, WeightOfType
    <3>9. Quorum(Conf[j - 1].list) \in Int
      BY <3>3, QuorumType, Constants
    <3> QED BY <3>6, <3>7, <3>8, <3>9
  <2>13. Counted(a, F)
    BY <2>9, <2>10, <2>11, <2>12 DEF Counted
  <2> QED BY <1>4, <2>7, <2>13
<1> QED BY <1>2, <1>3, <1>4

\* Dropping the caches of numbers that are committed or executed.
LEMMA Dropped ==
  ASSUME NEW s \in State, NEW E, Counted(s, E), NEW S \in SUBSET Index,
         \A i \in S : i <= s.committed \/ i \in s.executed
  PROVE  LET t == Drop(s, S) IN
         /\ t \in State /\ SameConfig(s, t) /\ Counted(t, E)
         /\ t.stable = s.stable \ S /\ t.executed = s.executed \ S
         /\ t.queue = s.queue /\ t.executing = s.executing /\ t.expected = s.expected
<1> DEFINE t == Drop(s, S)
           V == [kind \in Kind |-> [i \in Index |->
                   IF i \in S THEN [n \in Slot |-> None] ELSE s.votes[kind][i]]]
           a == [s EXCEPT !.proposed = s.proposed \ S, !.submitted = s.submitted \ S,
                          !.executed = s.executed \ S, !.stable = s.stable \ S, !.votes = V]
<1>1. t = a
  BY DEF Drop
<1>2. None \in Vote
  BY Constants DEF None, Vote
<1>3. V \in [Kind -> [Index -> [Slot -> Vote]]]
  BY <1>2, Registers
<1>4. \A k \in Kind, j \in Index, m \in Slot :
        V[k][j][m] = IF j \in S THEN None ELSE s.votes[k][j][m]
  OBVIOUS
<1> HIDE DEF V
<1>5. /\ s.proposed \ S \in SUBSET Index /\ s.submitted \ S \in SUBSET Index
      /\ s.executed \ S \in SUBSET Index /\ s.stable \ S \in SUBSET Index
  BY Registers
<1>6. /\ a \in State /\ SameConfig(s, a) /\ a.votes = V
      /\ a.submitted = s.submitted \ S /\ a.executed = s.executed \ S
      /\ a.stable = s.stable \ S
      /\ a.queue = s.queue /\ a.executing = s.executing /\ a.expected = s.expected
      /\ a.reports = s.reports
  BY <1>3, <1>5 DEF State, SameConfig
<1> HIDE DEF a
<1>7. Ordered(a)
  <2>1. Ordered(s)
    BY DEF Counted
  <2>2. \A j \in Index : j \notin S /\ HasVotes(s, j) => HasVotes(a, j)
    BY <1>4, <1>6 DEF HasVotes
  <2>3. ASSUME NEW j \in Index, j > a.committed
        PROVE  /\ j \in a.executed => j \in a.submitted
               /\ j \in a.queue \/ j \in a.executing =>
                    j \in a.submitted /\ j \notin a.executed /\ HasVotes(a, j)
               /\ ~(j \in a.queue /\ j \in a.executing)
    <3>1. j > s.committed /\ (j \in S => j \in s.executed)
      <4>1. j > s.committed /\ j \in Int /\ s.committed \in Int
        BY <1>6, <2>3, Numbers DEF SameConfig
      <4> QED BY <4>1
    <3> QED BY <1>6, <2>1, <2>2, <3>1 DEF Ordered
  <2> QED BY <1>6, <2>1, <2>3 DEF Ordered
<1>8. OwnVotes(a, E)
  BY <1>4, <1>6 DEF Counted, OwnVotes, SameConfig, Before
<1>9. OwnReports(a, E)
  BY <1>6 DEF Counted, OwnReports, SameConfig
<1>10. StableOwn(a, E)
  <2>1. \A j \in Index : j \notin S => SignersIn(a, j) = SignersIn(s, j)
    BY <1>4, <1>6 DEF SignersIn, Kind
  <2>2. s.stable \subseteq Index
    BY Registers
  <2> QED BY <1>6, <2>1, <2>2 DEF Counted, StableOwn, SameConfig
<1> QED BY <1>1, <1>6, <1>7, <1>8, <1>9, <1>10 DEF Counted


-----------------------------------------------------------------------------
(* Handlers *)

\* What is counted depends on the work and the votes.
LEMMA CountedSame ==
  ASSUME NEW s, NEW t, NEW E, Counted(s, E), SameConfig(s, t), SameWork(s, t), t.votes = s.votes
  PROVE  Counted(t, E)
<1>1. Ordered(t)
  BY DEF Counted, Ordered, HasVotes, SameConfig, SameWork
<1>2. SameVotes(s, t)
  BY DEF SameVotes, SameWork
<1> QED BY <1>1, <1>2, VotesKept DEF Counted, SameConfig

\* A step that leaves the registers alone keeps the invariant when it keeps the
\* votes in order.
LEMMA HandlerKeeps ==
  ASSUME TypeOK, MembershipInv, node' \in State, SameConfig(node, node'),
         Counted(node', early'), early' \subseteq Index, UNCHANGED <<check, raced>>
  PROVE  TypeOK' /\ MembershipInv'
<1>1. TypeOK'
  BY DEF TypeOK, Idle, SameConfig
<1>2. Fits(node')
  BY FitsKept DEF MembershipInv
<1>3. CheckInv'
  BY DEF MembershipInv, CheckInv, SameConfig, Before
<1>4. AcceptedIsSignedUnlessRepeated'
  BY DEF MembershipInv, AcceptedIsSignedUnlessRepeated
<1> QED BY <1>1, <1>2, <1>3, <1>4 DEF MembershipInv

\* A handler counts a vote of number i, above the committed one: i is early, or
\* its list is in force.
LEMMA Noted ==
  ASSUME TypeOK, MembershipInv, Idle, NEW i \in Index, i > node.committed,
         Note(i, node.committed)
  PROVE  /\ early \subseteq early' /\ early' \subseteq Index
         /\ i \notin early' => /\ node.committed = i - 1 /\ Before(node)
                               /\ node.list = Conf[i - 1].list
<1>1. early \subseteq early' /\ early' \subseteq Index
  BY DEF Note, TypeOK
<1>2. ASSUME i \notin early'
      PROVE  node.committed = i - 1
  <2>1. ~(node.committed < i - 1)
    BY <1>2 DEF Note
  <2>2. i \in Int /\ node.committed \in Int
    BY Numbers DEF TypeOK
  <2> QED BY <2>1, <2>2
<1>3. Before(node) /\ node.list = Conf[node.committed].list
  BY DEF MembershipInv, Fits, Before, Idle
<1> QED BY <1>1, <1>2, <1>3

LEMMA HandlePrePrepareKeeps ==
  ASSUME TypeOK, MembershipInv, NEW i \in Index, HandlePrePrepare(i)
  PROVE  TypeOK' /\ MembershipInv'
<1> DEFINE a == [node EXCEPT !.proposed = node.proposed \cup {i}]
           n == node.nodeIndex
           b == addCache(a, "commit", i, n, Me)
<1>1. /\ Idle /\ i > node.committed /\ Note(i, node.committed) /\ UNCHANGED <<check, raced>>
      /\ node' = checkAndCommit(b, i)
  BY DEF HandlePrePrepare, AcceptsIndex
<1>2. node \in State /\ Counted(node, early) /\ Fits(node)
  BY DEF TypeOK, MembershipInv
<1>3. node.proposed \cup {i} \in SUBSET Index
  BY <1>2, Registers
<1>4. a \in State /\ SameConfig(node, a) /\ SameWork(node, a) /\ a.votes = node.votes
  BY <1>2, <1>3 DEF State, SameConfig, SameWork
<1> HIDE DEF a
<1>5. Counted(a, early)
  BY <1>2, <1>4, CountedSame
<1>6. n \in Slot \cup {NonConsensus} /\ (Valid(node.list, n) => At(node.list, n).id = Me)
  <2>1. node.list \in Lists /\ n = getNodeIndexByNodeID(node.list, Me)
    BY <1>1, <1>2, Registers DEF Fits, Idle
  <2> QED BY <2>1, IndexFound
<1>7. /\ early \subseteq early' /\ early' \subseteq Index
      /\ i \notin early' => /\ node.committed = i - 1 /\ Before(node)
                            /\ node.list = Conf[i - 1].list
  BY <1>1, Noted
<1>8. i > a.committed /\ i \notin early' /\ Valid(a.list, n) =>
        /\ a.committed = i - 1 /\ Before(a) /\ a.list = Conf[i - 1].list /\ At(a.list, n).id = Me
  BY <1>4, <1>6, <1>7 DEF SameConfig, Before
<1> HIDE DEF n, b
<1>9. b \in State /\ SameConfig(a, b) /\ Counted(b, early')
  BY <1>4, <1>5, <1>6, <1>7, <1>8, Constants, AddCached DEF Kind, b
<1>10. node' \in State /\ SameConfig(b, node') /\ Counted(node', early')
  BY <1>1, <1>9, CheckedCommit
<1>11. SameConfig(node, node')
  BY <1>4, <1>9, <1>10 DEF SameConfig
<1> QED BY <1>1, <1>7, <1>10, <1>11, HandlerKeeps

LEMMA HandleCommitKeeps ==
  ASSUME TypeOK, MembershipInv, NEW i \in Index, NEW id \in Voters, NEW n \in Slot,
         HandleCommit(i, id, n)
  PROVE  TypeOK' /\ MembershipInv'
<1> DEFINE b == addCache(node, "commit", i, n, id)
<1>1. /\ Idle /\ i > node.committed /\ Note(i, node.committed) /\ UNCHANGED <<check, raced>>
      /\ At(node.list, n).id = id /\ node' = checkAndCommit(b, i)
  BY DEF HandleCommit, AcceptsIndex, SentFrom
<1>2. node \in State /\ Counted(node, early) /\ Fits(node) /\ id \in Nat \ {0}
  BY Constants DEF TypeOK, MembershipInv
<1>3. /\ early \subseteq early' /\ early' \subseteq Index
      /\ i \notin early' => /\ node.committed = i - 1 /\ Before(node)
                            /\ node.list = Conf[i - 1].list
  BY <1>1, Noted
<1>4. b \in State /\ SameConfig(node, b) /\ Counted(b, early')
  BY <1>1, <1>2, <1>3, AddCached DEF Kind
<1> HIDE DEF b
<1>5. node' \in State /\ SameConfig(b, node') /\ Counted(node', early')
  BY <1>1, <1>4, CheckedCommit
<1>6. SameConfig(node, node')
  BY <1>4, <1>5 DEF SameConfig
<1> QED BY <1>1, <1>3, <1>5, <1>6, HandlerKeeps

LEMMA HandleCheckPointKeeps ==
  ASSUME TypeOK, MembershipInv, NEW i \in Index, NEW id \in Voters, NEW n \in Slot,
         HandleCheckPoint(i, id, n)
  PROVE  TypeOK' /\ MembershipInv'
<1> DEFINE b == addCache(node, "checkpoint", i, n, id)
           c == tryToApplyCommitQueue(b)
<1>1. /\ Idle /\ i > node.committed /\ Note(i, node.committed) /\ UNCHANGED <<check, raced>>
      /\ At(node.list, n).id = id /\ node' = checkAndCommitStableCheckPoint(c)
  BY DEF HandleCheckPoint, SentFrom
<1>2. node \in State /\ Counted(node, early) /\ Fits(node) /\ id \in Nat \ {0}
  BY Constants DEF TypeOK, MembershipInv
<1>3. /\ early \subseteq early' /\ early' \subseteq Index
      /\ i \notin early' => /\ node.committed = i - 1 /\ Before(node)
                            /\ node.list = Conf[i - 1].list
  BY <1>1, Noted
<1>4. b \in State /\ SameConfig(node, b) /\ Counted(b, early')
  BY <1>1, <1>2, <1>3, AddCached DEF Kind
<1> HIDE DEF b
<1>5. c \in State /\ SameConfig(b, c) /\ Counted(c, early')
  BY <1>4, ApplyStarts, Started DEF Starts
<1> HIDE DEF c
<1>6. SameConfig(node, c)
  BY <1>4, <1>5 DEF SameConfig
<1>7. Fits(c)
  BY <1>2, <1>6, FitsKept
<1>8. node' \in State /\ SameConfig(c, node') /\ Counted(node', early')
  BY <1>1, <1>5, <1>7, StableStabilizes, Stabilized DEF Stabilizes
<1>9. SameConfig(node, node')
  BY <1>6, <1>8 DEF SameConfig
<1> QED BY <1>1, <1>3, <1>8, <1>9, HandlerKeeps

\* A number above the committed one that executes, and is not early, has its
\* list in force.
LEMMA Executing ==
  ASSUME TypeOK, MembershipInv, NEW i \in node.executing, i > node.committed, i \notin early
  PROVE  /\ node.committed = i - 1 /\ Before(node) /\ node.list = Conf[i - 1].list
         /\ node.nodeIndex = getNodeIndexByNodeID(Conf[i - 1].list, Me)
<1>1. node \in State /\ Counted(node, early) /\ Fits(node)
  BY DEF TypeOK, MembershipInv
<1>2. i \in Index
  BY <1>1, Registers
<1>3. HasVotes(node, i)
  BY <1>1, <1>2 DEF Counted, Ordered
<1>4. node.committed = i - 1 /\ Before(node)
  BY <1>1, <1>2, <1>3 DEF Counted, OwnVotes, HasVotes
<1> QED BY <1>1, <1>4 DEF Fits, Before

LEMMA ExecuteFinishedKeeps ==
  ASSUME TypeOK, MembershipInv, NEW i \in Index, ExecuteFinished(i)
  PROVE  TypeOK' /\ MembershipInv'
<1> DEFINE a == [node EXCEPT !.executing = node.executing \ {i}]
           q == [number |-> i, slot |-> node.nodeIndex, at |-> node.committed]
           b == [node EXCEPT !.reports = node.reports \cup {q}]
<1>1. /\ i \in node.executing /\ \A r \in node.reports : r.number # i
      /\ UNCHANGED <<check, early, raced>>
      /\ (i <= node.committed /\ node' = a) \/ (~(i <= node.committed) /\ node' = b)
  BY DEF ExecuteFinished
<1>2. node \in State /\ Counted(node, early) /\ Fits(node) /\ early \subseteq Index
  BY DEF TypeOK, MembershipInv
<1>3. CASE i <= node.committed /\ node' = a
  <2>1. node.executing \ {i} \in SUBSET Index
    BY <1>2, Registers
  <2>2. /\ a \in State /\ SameConfig(node, a) /\ SameVotes(node, a) /\ a.queue = node.queue
        /\ a.executing = node.executing \ {i}
    BY <1>2, <2>1 DEF State, SameConfig, SameVotes
  <2> HIDE DEF a
  <2>3. Ordered(a)
    BY <1>1, <1>2, <2>2 DEF Counted, Ordered, HasVotes, SameConfig, SameVotes
  <2>4. Counted(a, early)
    BY <1>2, <2>2, <2>3, VotesKept DEF Counted, SameConfig
  <2> QED BY <1>1, <1>2, <1>3, <2>2, <2>4, HandlerKeeps
<1>4. CASE ~(i <= node.committed) /\ node' = b
  <2>1. i > node.committed
    BY <1>2, <1>4, Numbers
  <2>2. q \in [number : Index, slot : Slot \cup {NonConsensus}, at : 0 .. MaxIndex]
    BY <1>2, Registers
  <2>3. node.reports \cup {q}
          \in SUBSET [number : Index, slot : Slot \cup {NonConsensus}, at : 0 .. MaxIndex]
    BY <1>2, <2>2, Registers
  <2>4. q.number = i /\ q.slot = node.nodeIndex
    OBVIOUS
  <2> HIDE DEF q
  <2>5. /\ b \in State /\ SameConfig(node, b) /\ b.reports = node.reports \cup {q}
        /\ b.votes = node.votes /\ b.submitted = node.submitted /\ b.executed = node.executed
        /\ b.stable = node.stable /\ b.queue = node.queue /\ b.executing = node.executing
    BY <1>2, <2>3 DEF State, SameConfig
  <2> HIDE DEF b
  <2>6. Ordered(b)
    <3>1. Ordered(node)
      BY <1>2 DEF Counted
    <3>2. \A j : HasVotes(node, j) => HasVotes(b, j)
      BY <2>5 DEF HasVotes
    <3>3. \A r \in b.reports : r.number \in b.executing
      BY <1>1, <2>4, <2>5, <3>1 DEF Ordered
    <3>4. \A p, r \in b.reports : p.number = r.number => p = r
      BY <1>1, <2>4, <2>5, <3>1 DEF Ordered
    <3> QED BY <2>5, <3>1, <3>2, <3>3, <3>4 DEF Ordered, SameConfig
  <2>7. OwnVotes(b, early)
    BY <1>2, <2>5 DEF Counted, OwnVotes, SameConfig, Before
  <2>8. OwnReports(b, early)
    <3>1. i \notin early => q.slot = getNodeIndexByNodeID(Conf[q.number - 1].list, Me)
      BY <1>1, <2>1, <2>4, Executing
    <3> QED BY <1>2, <2>4, <2>5, <3>1 DEF Counted, OwnReports, SameConfig
  <2>9. StableOwn(b, early)
    <3>1. \A j : SignersIn(b, j) = SignersIn(node, j)
      BY <2>5 DEF SignersIn
    <3> QED BY <1>2, <2>5, <3>1 DEF Counted, StableOwn, SameConfig
  <2>10. Counted(b, early)
    BY <2>6, <2>7, <2>8, <2>9 DEF Counted
  <2> QED BY <1>1, <1>2, <1>4, <2>5, <2>10, HandlerKeeps
<1> QED BY <1>1, <1>3, <1>4


\* number i is no longer in execution
Done(s, i) == [s EXCEPT !.executing = s.executing \ {i}]

LEMMA DoneIs ==
  ASSUME NEW s \in State, NEW i
  PROVE  LET t == Done(s, i) IN
         /\ t \in State /\ SameConfig(s, t) /\ SameVotes(s, t) /\ t.queue = s.queue
         /\ t.executing = s.executing \ {i}
<1>1. s.executing \ {i} \in SUBSET Index
  BY Registers
<1> QED BY <1>1 DEF Done, State, SameConfig, SameVotes

\* onProposalApplySuccess, second half: the node's own vote is that of its
\* position in the list of the number, or the number is early.
LEMMA ApplySuccessKeeps ==
  ASSUME TypeOK, MembershipInv, ApplySuccess
  PROVE  TypeOK' /\ MembershipInv'
<1>1. PICK r \in node.reports :
        LET i  == r.number
            s1 == addCache([node EXCEPT !.reports = @ \ {r}], "checkpoint", i, r.slot, Me)
            s2 == [s1 EXCEPT !.executed = IF i > s1.committed THEN @ \cup {i} ELSE @,
                             !.expected = IF i + 1 > s1.committed THEN i + 1 ELSE @]
        IN  /\ node' = [tryToApplyCommitQueue(checkAndCommitStableCheckPoint(s2)) EXCEPT
                          !.executing = @ \ {i}]
            /\ Note(i, r.at)
  BY DEF ApplySuccess
<1>2. UNCHANGED <<check, raced>>
  BY DEF ApplySuccess
<1> DEFINE i == r.number
           a == [node EXCEPT !.reports = node.reports \ {r}]
           b == addCache(a, "checkpoint", i, r.slot, Me)
           X == IF i > b.committed THEN b.executed \cup {i} ELSE b.executed
           Y == IF i + 1 > b.committed THEN i + 1 ELSE b.expected
           c == [b EXCEPT !.executed = X, !.expected = Y]
           d == checkAndCommitStableCheckPoint(c)
           e == tryToApplyCommitQueue(d)
<1>3. node' = Done(e, i) /\ Note(i, r.at)
  BY <1>1 DEF Done
<1>4. node \in State /\ Counted(node, early) /\ Fits(node) /\ early \subseteq Index
  BY DEF TypeOK, MembershipInv
<1>5. i \in Index /\ r.slot \in Slot \cup {NonConsensus} /\ i \in node.executing
  BY <1>4, Registers DEF Counted, Ordered
<1>6. node.reports \ {r}
        \in SUBSET [number : Index, slot : Slot \cup {NonConsensus}, at : 0 .. MaxIndex]
  BY <1>4, Registers
<1>7. /\ a \in State /\ SameConfig(node, a) /\ a.reports = node.reports \ {r}
      /\ a.votes = node.votes /\ a.submitted = node.submitted /\ a.executed = node.executed
      /\ a.stable = node.stable /\ a.queue = node.queue /\ a.executing = node.executing
  BY <1>4, <1>6 DEF State, SameConfig
<1>8. early \subseteq early' /\ early' \subseteq Index
  BY <1>3, <1>4, <1>5 DEF Note
<1> HIDE DEF a, i
<1>9. \A q \in a.reports : q.number # i
  BY <1>4, <1>7 DEF Counted, Ordered, i
<1>10. Counted(a, early)
  <2>1. Ordered(a)
    BY <1>4, <1>7 DEF Counted, Ordered, HasVotes, SameConfig
  <2>2. OwnVotes(a, early)
    BY <1>4, <1>7 DEF Counted, OwnVotes, SameConfig, Before
  <2>3. OwnReports(a, early)
    BY <1>4, <1>7 DEF Counted, OwnReports, SameConfig
  <2>4. StableOwn(a, early)
    <3>1. \A j : SignersIn(a, j) = SignersIn(node, j)
      BY <1>7 DEF SignersIn
    <3> QED BY <1>4, <1>7, <3>1 DEF Counted, StableOwn, SameConfig
  <2> QED BY <2>1, <2>2, <2>3, <2>4 DEF Counted
<1>11. i > a.committed /\ i \notin early' /\ Valid(a.list, r.slot) =>
         /\ a.committed = i - 1 /\ Before(a) /\ a.list = Conf[i - 1].list
         /\ At(a.list, r.slot).id = Me
  <2>1. SUFFICES ASSUME i > node.committed, i \notin early, Valid(node.list, r.slot)
                 PROVE  /\ node.committed = i - 1 /\ Before(node) /\ node.list = Conf[i - 1].list
                        /\ At(node.list, r.slot).id = Me
    BY <1>7, <1>8 DEF SameConfig, Before
  <2>2. node.committed = i - 1 /\ Before(node) /\ node.list = Conf[i - 1].list
    BY <1>5, <2>1, Executing
  <2>3. r.slot = getNodeIndexByNodeID(Conf[i - 1].list, Me)
    BY <1>4, <2>1 DEF Counted, OwnReports, i
  <2>4. node.list \in Lists
    BY <1>4, Registers
  <2> QED BY <2>1, <2>2, <2>3, <2>4, IndexFound
<1>12. b \in State /\ SameConfig(a, b) /\ SameWork(a, b) /\ Counted(b, early')
  BY <1>5, <1>7, <1>8, <1>10, <1>11, Constants, AddCached DEF Kind
<1> HIDE DEF b
<1>13. X \in SUBSET Index /\ Y \in 1 .. MaxIndex + 1
  <2>1. i + 1 \in 1 .. MaxIndex + 1
    BY <1>5, Numbers, Constants
  <2> QED BY <1>5, <1>12, <2>1, Registers
<1>14. b.executed \subseteq X /\ (i > b.committed => i \in X) /\ X \subseteq b.executed \cup {i}
  OBVIOUS
<1> HIDE DEF X, Y
<1>15. /\ c \in State /\ SameConfig(b, c) /\ c.executed = X /\ c.votes = b.votes
       /\ c.submitted = b.submitted /\ c.stable = b.stable /\ c.reports = b.reports
       /\ c.queue = b.queue /\ c.executing = b.executing
  BY <1>12, <1>13 DEF State, SameConfig
<1> HIDE DEF c
<1>16. d \in State /\ Stabilizes(c, d)
  BY <1>15, StableStabilizes
<1> HIDE DEF d
<1>17. e \in State /\ Starts(d, e)
  BY <1>16, ApplyStarts
<1> HIDE DEF e
<1> DEFINE p == Done(c, i)
           q == Done(d, i)
<1>18. /\ p \in State /\ SameConfig(c, p) /\ SameVotes(c, p) /\ p.queue = c.queue
       /\ p.executing = c.executing \ {i}
  BY <1>15, DoneIs
<1>19. /\ q \in State /\ SameConfig(d, q) /\ SameVotes(d, q) /\ q.queue = d.queue
       /\ q.executing = d.executing \ {i}
  BY <1>16, DoneIs
<1>20. /\ node' \in State /\ SameConfig(e, node') /\ SameVotes(e, node') /\ node'.queue = e.queue
       /\ node'.executing = e.executing \ {i}
  BY <1>3, <1>17, DoneIs
<1> HIDE DEF p, q
<1>21. Counted(p, early')
  <2>1. Ordered(b) /\ b.executing = node.executing /\ b.reports = a.reports
    BY <1>7, <1>12 DEF Counted, SameWork
  <2>2. \A j : HasVotes(b, j) => HasVotes(p, j)
    BY <1>15, <1>18 DEF HasVotes, SameVotes
  <2>3. p.stable \subseteq p.executed
    BY <1>14, <1>15, <1>18, <2>1 DEF SameVotes, Ordered
  <2>4. ASSUME NEW j \in Index, j > p.committed
        PROVE  /\ j \in p.executed => j \in p.submitted
               /\ j \in p.queue \/ j \in p.executing =>
                    j \in p.submitted /\ j \notin p.executed /\ HasVotes(p, j)
               /\ ~(j \in p.queue /\ j \in p.executing)
    <3>1. j > b.committed
      BY <1>15, <1>18, <2>4 DEF SameConfig
    <3>2. /\ j \in b.executed => j \in b.submitted
          /\ j \in b.queue \/ j \in b.executing =>
               j \in b.submitted /\ j \notin b.executed /\ HasVotes(b, j)
          /\ ~(j \in b.queue /\ j \in b.executing)
      BY <2>1, <3>1 DEF Ordered
    <3>3. /\ p.executed = X /\ p.submitted = b.submitted /\ p.queue = b.queue
          /\ p.executing = b.executing \ {i}
      BY <1>15, <1>18 DEF SameVotes
    <3> QED BY <1>5, <1>14, <2>1, <2>2, <3>2, <3>3
  <2>5. /\ \A x \in p.reports : x.number \in p.executing
        /\ \A x, y \in p.reports : x.number = y.number => x = y
    BY <1>9, <1>15, <1>18, <2>1 DEF SameVotes, Ordered
  <2>6. Ordered(p)
    BY <2>3, <2>4, <2>5 DEF Ordered
  <2>7. /\ p.votes = b.votes /\ p.stable = b.stable /\ p.reports = b.reports
        /\ p.committed = b.committed /\ p.update = b.update
    BY <1>15, <1>18 DEF SameVotes, SameConfig
  <2>8. OwnVotes(p, early')
    BY <1>12, <2>7 DEF Counted, OwnVotes, Before
  <2>9. OwnReports(p, early')
    BY <1>12, <2>7 DEF Counted, OwnReports
  <2>10. StableOwn(p, early')
    <3>1. \A j : SignersIn(p, j) = SignersIn(b, j)
      BY <2>7 DEF SignersIn
    <3> QED BY <1>12, <2>7, <3>1 DEF Counted, StableOwn
  <2> QED BY <2>6, <2>8, <2>9, <2>10 DEF Counted
<1>22. SameConfig(node, p)
  BY <1>7, <1>12, <1>15, <1>18 DEF SameConfig
<1>23. Stabilizes(p, q)
  <2>1. \A j : collectEnoughQuorum(c, "checkpoint", j) => collectEnoughQuorum(p, "checkpoint", j)
    BY <1>18 DEF collectEnoughQuorum, SameVotes, SameConfig
  <2> QED BY <1>16, <1>18, <1>19, <2>1 DEF Stabilizes, SameVotes, SameConfig
<1>24. Counted(q, early')
  BY <1>4, <1>18, <1>19, <1>21, <1>22, <1>23, FitsKept, Stabilized
<1>25. Starts(q, node')
  BY <1>17, <1>19, <1>20 DEF Starts, SameVotes, SameConfig
<1>26. Counted(node', early')
  BY <1>19, <1>20, <1>24, <1>25, Started
<1>27. SameConfig(node, node')
  BY <1>22, <1>23, <1>25 DEF Stabilizes, Starts, SameConfig
<1> QED BY <1>2, <1>8, <1>20, <1>26, <1>27, HandlerKeeps


-----------------------------------------------------------------------------
(* Updates of the configuration *)

\* What is counted, when the stage of the update or a register of the list changes.
LEMMA CountedBefore ==
  ASSUME NEW s, NEW t, NEW E, Counted(s, E), SameWork(s, t), t.votes = s.votes,
         t.committed = s.committed, Before(s) => Before(t)
  PROVE  Counted(t, E)
<1>1. Ordered(t)
  BY DEF Counted, Ordered, HasVotes, SameWork
<1>2. OwnVotes(t, E)
  BY DEF Counted, OwnVotes
<1>3. OwnReports(t, E)
  BY DEF Counted, OwnReports, SameWork
<1>4. \A i : SignersIn(t, i) = SignersIn(s, i)
  BY DEF SignersIn
<1>5. StableOwn(t, E)
  BY <1>4 DEF Counted, StableOwn, SameWork
<1> QED BY <1>1, <1>2, <1>3, <1>5 DEF Counted

\* An update begins: no register has been set.
LEMMA BeginKeeps ==
  ASSUME TypeOK, MembershipInv, Idle, node' \in State, NEW k \in Index, k > node.committed,
         node'.update.stage = "committed", node'.update.number = k,
         node'.committed = node.committed, node'.list = node.list,
         node'.nodeNum = node.nodeNum, node'.nodeIndex = node.nodeIndex,
         node'.quorum = node.quorum, node'.period = node.period,
         SameWork(node, node'), node'.votes = node.votes,
         UNCHANGED <<early, raced>>,
         check' \in Task, check'.stage \in {check.stage, "idle"},
         check'.block = check.block, check'.verified = check.verified, check'.weight = check.weight
  PROVE  TypeOK' /\ MembershipInv'
<1>1. TypeOK'
  BY DEF TypeOK, Idle
<1>2. Before(node) /\ Before(node')
  BY DEF Idle, Before
<1>3. Fits(node')
  BY <1>2 DEF MembershipInv, Fits, Idle
<1>4. Counted(node', early)
  BY <1>2, CountedBefore DEF MembershipInv
<1>5. CheckInv'
  <2>1. Verified(check') = Verified(check) /\ OwnList(check'.block) = OwnList(check.block)
    BY DEF Verified, OwnList
  <2> QED BY <1>2, <2>1 DEF MembershipInv, CheckInv
<1>6. AcceptedIsSignedUnlessRepeated'
  BY DEF MembershipInv, AcceptedIsSignedUnlessRepeated, OwnList
<1> QED BY <1>1, <1>3, <1>4, <1>5, <1>6 DEF MembershipInv

LEMMA CommitSucceedsKeeps ==
  ASSUME TypeOK, MembershipInv, NEW k \in Index, CommitSucceeds(k)
  PROVE  TypeOK' /\ MembershipInv'
<1> DEFINE C == node.committing \ {k}
           U == [stage |-> "committed", number |-> k, synced |-> FALSE]
           a == [node EXCEPT !.committing = C]
           b == [node EXCEPT !.committing = C, !.update = U]
<1>1. /\ Idle /\ UNCHANGED <<check, early, raced>>
      /\ node' = a \/ (k = node.committed + 1 /\ node' = b)
  BY DEF CommitSucceeds
<1>2. node \in State /\ Counted(node, early) /\ early \subseteq Index /\ check \in Task
  BY DEF TypeOK, MembershipInv
<1>3. C \in SUBSET Index
  BY <1>2, Registers
<1>4. U \in [stage : UpdateStage, number : 0 .. MaxIndex, synced : BOOLEAN]
  BY OwnListIs DEF UpdateStage
<1>5. U.stage = "committed" /\ U.number = k
  OBVIOUS
<1> HIDE DEF C, U
<1>6. CASE node' = a
  <2>1. a \in State /\ SameConfig(node, a) /\ SameWork(node, a) /\ a.votes = node.votes
    BY <1>2, <1>3 DEF State, SameConfig, SameWork
  <2>2. Counted(a, early)
    BY <1>2, <2>1, CountedSame
  <2> QED BY <1>1, <1>2, <1>6, <2>1, <2>2, HandlerKeeps
<1>7. CASE k = node.committed + 1 /\ node' = b
  <2>1. /\ b \in State /\ b.update = U /\ b.committed = node.committed /\ b.list = node.list
        /\ b.nodeNum = node.nodeNum /\ b.nodeIndex = node.nodeIndex
        /\ b.quorum = node.quorum /\ b.period = node.period
        /\ SameWork(node, b) /\ b.votes = node.votes
    BY <1>2, <1>3, <1>4 DEF State, SameWork
  <2>2. k > node.committed
    BY <1>2, <1>7, Numbers
  <2> HIDE DEF b
  <2> QED BY <1>1, <1>2, <1>5, <1>7, <2>1, <2>2, BeginKeeps
<1> QED BY <1>1, <1>6, <1>7

LEMMA SyncBlockKeeps ==
  ASSUME TypeOK, MembershipInv, SyncBlock
  PROVE  TypeOK' /\ MembershipInv'
<1> DEFINE k == check.block.number
           U == [stage |-> "committed", synced |-> TRUE, number |-> k]
           b == [node EXCEPT !.update = U]
           z == [check EXCEPT !.stage = "idle"]
<1>1. /\ Idle /\ UNCHANGED <<early, raced>> /\ check' = z
      /\ node' = node \/ (~(k <= node.committed) /\ node' = b)
  BY DEF SyncBlock
<1>2. node \in State /\ check \in Task
  BY DEF TypeOK
<1>3. k \in Index
  BY <1>2 DEF Task, Block
<1>4. /\ z \in Task /\ z.stage = "idle" /\ z.block = check.block /\ z.verified = check.verified
      /\ z.weight = check.weight
  BY <1>2 DEF Task, CheckStage
<1>5. U \in [stage : UpdateStage, number : 0 .. MaxIndex, synced : BOOLEAN]
  BY <1>3, OwnListIs DEF UpdateStage
<1>6. U.stage = "committed" /\ U.number = k
  OBVIOUS
<1> HIDE DEF U, k, z
<1>7. CASE node' = node
  <2>1. TypeOK'
    BY <1>1, <1>4, <1>7 DEF TypeOK, Idle
  <2>2. CheckInv'
    BY <1>1, <1>4, <1>7 DEF MembershipInv, CheckInv
  <2>3. AcceptedIsSignedUnlessRepeated'
    BY <1>1, <1>4 DEF AcceptedIsSignedUnlessRepeated
  <2> QED BY <1>1, <1>7, <2>1, <2>2, <2>3 DEF MembershipInv
<1>8. CASE ~(k <= node.committed) /\ node' = b
  <2>1. /\ b \in State /\ b.update = U /\ b.committed = node.committed /\ b.list = node.list
        /\ b.nodeNum = node.nodeNum /\ b.nodeIndex = node.nodeIndex
        /\ b.quorum = node.quorum /\ b.period = node.period
        /\ SameWork(node, b) /\ b.votes = node.votes
    BY <1>2, <1>5 DEF State, SameWork
  <2>2. k > node.committed
    BY <1>2, <1>3, <1>8, Numbers
  <2> HIDE DEF b
  <2> QED BY <1>1, <1>3, <1>4, <1>6, <1>8, <2>1, <2>2, BeginKeeps
<1> QED BY <1>1, <1>7, <1>8

\* A stage of the update sets one register and goes on to the next stage.
LEMMA Staged ==
  ASSUME NEW c \in State, NEW stage \in UpdateStage
  PROVE  LET t == [c EXCEPT !.update.stage = stage] IN
         /\ t \in State /\ t.update.stage = stage /\ t.update.number = c.update.number
         /\ t.committed = c.committed /\ t.list = c.list /\ t.nodeNum = c.nodeNum
         /\ t.nodeIndex = c.nodeIndex /\ t.quorum = c.quorum /\ t.period = c.period
         /\ SameWork(c, t) /\ t.votes = c.votes
<1> DEFINE U == [c.update EXCEPT !.stage = stage]
           t == [c EXCEPT !.update = U]
<1>1. /\ U \in [stage : UpdateStage, number : 0 .. MaxIndex, synced : BOOLEAN]
      /\ U.stage = stage /\ U.number = c.update.number
  BY Registers
<1> HIDE DEF U
<1>2. /\ t \in State /\ t.update = U
      /\ t.committed = c.committed /\ t.list = c.list /\ t.nodeNum = c.nodeNum
      /\ t.nodeIndex = c.nodeIndex /\ t.quorum = c.quorum /\ t.period = c.period
      /\ SameWork(c, t) /\ t.votes = c.votes
  BY <1>1 DEF State, SameWork
<1>3. t = [c EXCEPT !.update.stage = stage]
  BY DEF U
<1> HIDE DEF t
<1> QED BY <1>1, <1>2, <1>3

\* The checks that are under way are marked, so a stage has the registers and
\* the votes to account for.
LEMMA UpdateKeeps ==
  ASSUME TypeOK, MembershipInv, node' \in State, Fits(node'), Counted(node', early), ~Idle',
         raced' = (raced \/ check.stage # "idle"), UNCHANGED <<check, early>>
  PROVE  TypeOK' /\ MembershipInv'
<1>1. TypeOK'
  BY DEF TypeOK
<1>2. CheckInv'
  BY DEF MembershipInv, CheckInv
<1>3. AcceptedIsSignedUnlessRepeated'
  BY DEF AcceptedIsSignedUnlessRepeated
<1> QED BY <1>1, <1>2, <1>3 DEF MembershipInv

LEMMA SetCommittedKeeps ==
  ASSUME TypeOK, MembershipInv, SetCommitted
  PROVE  TypeOK' /\ MembershipInv'
<1> DEFINE k == node.update.number
           X == IF k + 1 > node.expected THEN k + 1 ELSE node.expected
           c == [node EXCEPT !.committed = k, !.expected = X]
<1>1. /\ node.update.stage = "committed" /\ node' = [c EXCEPT !.update.stage = "list"]
      /\ raced' = (raced \/ check.stage # "idle") /\ UNCHANGED <<check, early>>
  BY DEF SetCommitted, Update
<1>2. node \in State /\ Counted(node, early) /\ Fits(node)
  BY DEF TypeOK, MembershipInv
<1>3. k \in Index /\ k > node.committed /\ k \in 0 .. MaxIndex
  BY <1>1, <1>2, OwnListIs DEF Fits
<1>4. X \in 1 .. MaxIndex + 1
  BY <1>2, <1>3, Numbers, Constants
<1> HIDE DEF X
<1>5. /\ c \in State /\ c.committed = k /\ c.update = node.update /\ c.list = node.list
      /\ c.nodeNum = node.nodeNum /\ c.nodeIndex = node.nodeIndex /\ c.quorum = node.quorum
      /\ c.submitted = node.submitted /\ c.executed = node.executed /\ c.stable = node.stable
      /\ c.reports = node.reports /\ c.queue = node.queue /\ c.executing = node.executing
      /\ c.votes = node.votes
  BY <1>2, <1>3, <1>4 DEF State
<1> HIDE DEF c
<1>6. /\ node' \in State /\ node'.update.stage = "list" /\ node'.update.number = k
      /\ node'.committed = k /\ node'.list = node.list /\ node'.nodeNum = node.nodeNum
      /\ node'.nodeIndex = node.nodeIndex /\ node'.quorum = node.quorum
      /\ SameVotes(node, node') /\ node'.queue = node.queue /\ node'.executing = node.executing
  <2>1. "list" \in UpdateStage
    BY DEF UpdateStage
  <2>2. /\ node' \in State /\ node'.update.stage = "list" /\ node'.update.number = c.update.number
        /\ node'.committed = c.committed /\ node'.list = c.list /\ node'.nodeNum = c.nodeNum
        /\ node'.nodeIndex = c.nodeIndex /\ node'.quorum = c.quorum
        /\ SameWork(c, node') /\ node'.votes = c.votes
    BY <1>1, <1>5, <2>1, Staged
  <2> QED BY <1>5, <2>2 DEF SameWork, SameVotes
<1>7. Fits(node')
  BY <1>1, <1>2, <1>3, <1>6 DEF Fits, Before
<1>8. \A j \in Index : j > k => j > node.committed /\ j - 1 # node.committed
  BY <1>2, <1>3, Numbers
<1>9. Ordered(node')
  BY <1>2, <1>6, <1>8 DEF Counted, Ordered, SameVotes, HasVotes
<1>10. OwnVotes(node', early)
  BY <1>2, <1>6, <1>8 DEF Counted, OwnVotes, SameVotes
<1>11. OwnReports(node', early)
  <2>1. \A r \in node.reports : r.number \in Index
    BY <1>2, Registers
  <2> QED BY <1>2, <1>6, <1>8, <2>1 DEF Counted, OwnReports, SameVotes
<1>12. StableOwn(node', early)
  <2>1. \A j : SignersIn(node', j) = SignersIn(node, j)
    BY <1>6 DEF SignersIn, SameVotes
  <2>2. node.stable \subseteq Index
    BY <1>2, Registers
  <2> QED BY <1>2, <1>6, <1>8, <2>1, <2>2 DEF Counted, StableOwn, SameVotes
<1>13. ~Idle'
  BY <1>6 DEF Idle
<1> QED BY <1>1, <1>6, <1>7, <1>9, <1>10, <1>11, <1>12, <1>13, UpdateKeeps DEF Counted


\* A stage after setCommittedProposal: the registers set so far fit the new list.
LEMMA StageKeeps ==
  ASSUME TypeOK, MembershipInv, ~Before(node),
         NEW stage \in {"num", "index", "quorum", "period", "finish"},
         NEW c \in State, Update(stage, c), c.update = node.update,
         c.committed = node.committed, SameWork(node, c), c.votes = node.votes,
         c.list = Conf[c.committed].list,
         stage # "num" => c.nodeNum = Len(c.list),
         stage \notin {"num", "index"} => c.nodeIndex = getNodeIndexByNodeID(c.list, Me),
         stage \notin {"num", "index", "quorum"} => c.quorum = Quorum(c.list),
         stage = "finish" => c.period = Conf[c.committed].period
  PROVE  TypeOK' /\ MembershipInv'
<1>1. /\ node' = [c EXCEPT !.update.stage = stage]
      /\ raced' = (raced \/ check.stage # "idle") /\ UNCHANGED <<check, early>>
  BY DEF Update
<1>2. stage \in UpdateStage
  BY DEF UpdateStage
<1>3. /\ node' \in State /\ node'.update.stage = stage /\ node'.update.number = c.update.number
      /\ node'.committed = c.committed /\ node'.list = c.list /\ node'.nodeNum = c.nodeNum
      /\ node'.nodeIndex = c.nodeIndex /\ node'.quorum = c.quorum /\ node'.period = c.period
      /\ SameWork(c, node') /\ node'.votes = c.votes
  BY <1>1, <1>2, Staged
<1>4. node.update.number \in Index /\ node.update.number = node.committed
  BY DEF MembershipInv, Fits, Before
<1>5. Fits(node')
  BY <1>3, <1>4 DEF Fits, Before
<1>6. Counted(node', early)
  <2>1. SameWork(node, node')
    BY <1>3 DEF SameWork
  <2> QED BY <1>3, <2>1, CountedBefore DEF MembershipInv
<1>7. ~Idle'
  BY <1>3 DEF Idle
<1> QED BY <1>1, <1>3, <1>5, <1>6, <1>7, UpdateKeeps

\* setConsensusNodeList returns early only when the registers fit already.
LEMMA SetListKeeps ==
  ASSUME TypeOK, MembershipInv, SetList
  PROVE  TypeOK' /\ MembershipInv'
<1> DEFINE new == Conf[node.update.number].list
           c == [node EXCEPT !.list = new]
           stage == IF new = node.list THEN "period" ELSE "num"
<1>1. node.update.stage = "list" /\ Update(stage, c)
  BY DEF SetList
<1>2. node \in State /\ Fits(node)
  BY DEF TypeOK, MembershipInv
<1>3. ~Before(node) /\ node.update.number = node.committed
  BY <1>1, <1>2 DEF Fits, Before
<1>4. new \in Lists /\ new = Conf[node.committed].list
  BY <1>2, <1>3, Registers, Constants
<1> HIDE DEF new
<1>5. /\ c \in State /\ c.update = node.update /\ c.committed = node.committed /\ c.list = new
      /\ c.nodeNum = node.nodeNum /\ c.nodeIndex = node.nodeIndex /\ c.quorum = node.quorum
      /\ SameWork(node, c) /\ c.votes = node.votes
  <2>1. c \in State
    BY <1>2, <1>4 DEF State
  <2> QED BY <1>2, <2>1 DEF State, SameWork
<1> HIDE DEF c
<1>6. /\ node.nodeNum = Len(node.list) /\ node.quorum = Quorum(node.list)
      /\ node.nodeIndex = getNodeIndexByNodeID(node.list, Me)
  BY <1>1, <1>2 DEF Fits
<1>7. CASE new = node.list
  <2>1. Update("period", c)
    BY <1>1, <1>7
  <2> QED BY <1>3, <1>4, <1>5, <1>6, <1>7, <2>1, StageKeeps
<1>8. CASE new # node.list
  <2>1. Update("num", c)
    BY <1>1, <1>8
  <2> QED BY <1>3, <1>4, <1>5, <2>1, StageKeeps
<1> QED BY <1>7, <1>8

LEMMA SetNodeNumKeeps ==
  ASSUME TypeOK, MembershipInv, SetNodeNum
  PROVE  TypeOK' /\ MembershipInv'
<1> DEFINE x == Len(node.list)
           c == [node EXCEPT !.nodeNum = x]
<1>1. node.update.stage = "num" /\ Update("index", c)
  BY DEF SetNodeNum
<1>2. node \in State /\ Fits(node)
  BY DEF TypeOK, MembershipInv
<1>3. ~Before(node) /\ node.list = Conf[node.committed].list
  BY <1>1, <1>2 DEF Fits, Before
<1>4. x \in 1 .. MaxNodes
  BY <1>2, Registers, Constants
<1> HIDE DEF x
<1>5. /\ c \in State /\ c.update = node.update /\ c.committed = node.committed
      /\ c.list = node.list /\ c.nodeNum = x /\ SameWork(node, c) /\ c.votes = node.votes
  <2>1. c \in State
    BY <1>2, <1>4 DEF State
  <2> QED BY <1>2, <2>1 DEF State, SameWork
<1> HIDE DEF c
<1>6. c.nodeNum = Len(c.list)
  BY <1>5 DEF x
<1> QED BY <1>1, <1>3, <1>5, <1>6, StageKeeps

LEMMA SetNodeIndexKeeps ==
  ASSUME TypeOK, MembershipInv, SetNodeIndex
  PROVE  TypeOK' /\ MembershipInv'
<1> DEFINE x == getNodeIndexByNodeID(node.list, Me)
           c == [node EXCEPT !.nodeIndex = x]
<1>1. node.update.stage = "index" /\ Update("quorum", c)
  BY DEF SetNodeIndex
<1>2. node \in State /\ Fits(node)
  BY DEF TypeOK, MembershipInv
<1>3. /\ ~Before(node) /\ node.list = Conf[node.committed].list
      /\ node.nodeNum = Len(node.list)
  BY <1>1, <1>2 DEF Fits, Before
<1>4. x \in Slot \cup {NonConsensus}
  BY <1>2, Registers, IndexFound
<1> HIDE DEF x
<1>5. /\ c \in State /\ c.update = node.update /\ c.committed = node.committed
      /\ c.list = node.list /\ c.nodeNum = node.nodeNum /\ c.nodeIndex = x
      /\ SameWork(node, c) /\ c.votes = node.votes
  <2>1. c \in State
    BY <1>2, <1>4 DEF State
  <2> QED BY <1>2, <2>1 DEF State, SameWork
<1> HIDE DEF c
<1>6. c.nodeIndex = getNodeIndexByNodeID(c.list, Me)
  BY <1>5 DEF x
<1> QED BY <1>1, <1>3, <1>5, <1>6, StageKeeps

LEMMA updateQuorumKeeps ==
  ASSUME TypeOK, MembershipInv, updateQuorum
  PROVE  TypeOK' /\ MembershipInv'
<1> DEFINE x == Quorum(node.list)
           c == [node EXCEPT !.quorum = x]
<1>1. node.update.stage = "quorum" /\ Update("period", c)
  BY DEF updateQuorum
<1>2. node \in State /\ Fits(node)
  BY DEF TypeOK, MembershipInv
<1>3. /\ ~Before(node) /\ node.list = Conf[node.committed].list
      /\ node.nodeNum = Len(node.list)
      /\ node.nodeIndex = getNodeIndexByNodeID(node.list, Me)
  BY <1>1, <1>2 DEF Fits, Before
<1>4. x \in 1 .. MaxNodes * MaxWeight
  BY <1>2, Registers, QuorumType
<1> HIDE DEF x
<1>5. /\ c \in State /\ c.update = node.update /\ c.committed = node.committed
      /\ c.list = node.list /\ c.nodeNum = node.nodeNum /\ c.nodeIndex = node.nodeIndex
      /\ c.quorum = x /\ SameWork(node, c) /\ c.votes = node.votes
  <2>1. c \in State
    BY <1>2, <1>4 DEF State
  <2> QED BY <1>2, <2>1 DEF State, SameWork
<1> HIDE DEF c
<1>6. c.quorum = Quorum(c.list)
  BY <1>5 DEF x
<1> QED BY <1>1, <1>3, <1>5, <1>6, StageKeeps

LEMMA SetPeriodKeeps ==
  ASSUME TypeOK, MembershipInv, SetPeriod
  PROVE  TypeOK' /\ MembershipInv'
<1> DEFINE x == Conf[node.update.number].period
           c == [node EXCEPT !.period = x]
<1>1. node.update.stage = "period" /\ Update("finish", c)
  BY DEF SetPeriod
<1>2. node \in State /\ Fits(node)
  BY DEF TypeOK, MembershipInv
<1>3. /\ ~Before(node) /\ node.list = Conf[node.committed].list
      /\ node.nodeNum = Len(node.list) /\ node.quorum = Quorum(node.list)
      /\ node.nodeIndex = getNodeIndexByNodeID(node.list, Me)
      /\ node.update.number = node.committed
  BY <1>1, <1>2 DEF Fits, Before
<1>4. x \in Nat /\ x = Conf[node.committed].period
  BY <1>2, <1>3, Registers, Constants
<1> HIDE DEF x
<1>5. /\ c \in State /\ c.update = node.update /\ c.committed = node.committed
      /\ c.list = node.list /\ c.nodeNum = node.nodeNum /\ c.nodeIndex = node.nodeIndex
      /\ c.quorum = node.quorum /\ c.period = x /\ SameWork(node, c) /\ c.votes = node.votes
  <2>1. c \in State
    BY <1>2, <1>4 DEF State
  <2> QED BY <1>2, <2>1 DEF State, SameWork
<1> HIDE DEF c
<1> QED BY <1>1, <1>3, <1>4, <1>5, StageKeeps

\* The rest of finalizeConsensus.  No number above the committed one stays
\* stable, and a number whose votes are kept was early.
LEMMA FinishKeeps ==
  ASSUME TypeOK, MembershipInv, Finish
  PROVE  TypeOK' /\ MembershipInv'
<1> DEFINE a == tryToApplyCommitQueue(node)
           S == {i \in Index : i <= a.committed \/ i \in a.stable}
           b == Drop(a, S)
           c == tryToCommitStableCheckPoint(b)
           p == Drop(c, c.executed)
           x == c.committed + 1
           f == [p EXCEPT !.expected = x, !.queue = {}, !.stableQueue = {}]
           d == IF node.update.synced THEN f ELSE c
           U == [stage |-> "idle", number |-> 0, synced |-> FALSE]
<1>1. /\ node.update.stage = "finish" /\ UNCHANGED <<check, raced>>
      /\ node' = [d EXCEPT !.update = U]
      /\ early' = {i \in early : ~\A kind \in Kind, n \in Slot : d.votes[kind][i][n] = None}
  BY DEF Finish, removeConsensusedCache, removeFutureProposals
<1>2. node \in State /\ Counted(node, early) /\ Fits(node) /\ early \subseteq Index /\ check \in Task
      /\ raced \in BOOLEAN
  BY DEF TypeOK, MembershipInv
<1>3. a \in State /\ SameConfig(node, a) /\ Counted(a, early)
  BY <1>2, ApplyStarts, Started DEF Starts
<1> HIDE DEF a
<1>4. S \in SUBSET Index /\ (\A i \in S : i <= a.committed \/ i \in a.executed) /\ a.stable \subseteq S
  BY <1>3, Registers DEF Counted, Ordered
<1> HIDE DEF S
<1>5. b \in State /\ SameConfig(a, b) /\ Counted(b, early) /\ b.stable = a.stable \ S
  BY <1>3, <1>4, Dropped
<1> HIDE DEF b
<1>6. c \in State /\ SameConfig(b, c) /\ Counted(c, early) /\ c.stable = b.stable
  BY <1>5, StableCommitted DEF SameVotes
<1> HIDE DEF c
<1>7. c.executed \in SUBSET Index
  BY <1>6, Registers
<1>8. p \in State /\ SameConfig(c, p) /\ Counted(p, early) /\ p.stable = c.stable \ c.executed
  BY <1>6, <1>7, Dropped
<1> HIDE DEF p
<1>9. x \in 1 .. MaxIndex + 1
  BY <1>6, Numbers, Constants
<1> HIDE DEF x
<1>10. /\ f \in State /\ SameConfig(p, f) /\ SameVotes(p, f) /\ f.queue = {}
       /\ f.executing = p.executing
  BY <1>8, <1>9 DEF State, SameConfig, SameVotes
<1> HIDE DEF f
<1>11. Counted(f, early)
  BY <1>8, <1>10, Started DEF Starts
<1>12. SameConfig(node, c) /\ SameConfig(node, f)
  BY <1>3, <1>5, <1>6, <1>8, <1>10 DEF SameConfig
<1>13. d \in State /\ SameConfig(node, d) /\ Counted(d, early) /\ d.stable = {}
  BY <1>4, <1>5, <1>6, <1>8, <1>10, <1>11, <1>12 DEF SameVotes
<1> HIDE DEF d
<1>14. U \in [stage : UpdateStage, number : 0 .. MaxIndex, synced : BOOLEAN] /\ U.stage = "idle"
  BY Constants DEF UpdateStage
<1> HIDE DEF U
<1>15. /\ node' \in State /\ node'.update = U /\ node'.committed = d.committed
       /\ node'.list = d.list /\ node'.nodeNum = d.nodeNum /\ node'.nodeIndex = d.nodeIndex
       /\ node'.quorum = d.quorum /\ node'.period = d.period
       /\ SameWork(d, node') /\ node'.votes = d.votes
  BY <1>1, <1>13, <1>14 DEF State, SameWork
<1>16. Fits(node')
  BY <1>1, <1>2, <1>13, <1>14, <1>15 DEF Fits, Before, SameConfig
<1>17. early' \subseteq early /\ \A i \in early : HasVotes(d, i) => i \in early'
  BY <1>1 DEF HasVotes
<1>18. ~Before(d)
  BY <1>1, <1>13 DEF SameConfig, Before
<1>19. Ordered(node')
  BY <1>13, <1>15 DEF Counted, Ordered, SameWork, HasVotes
<1>20. OwnVotes(node', early')
  <2>1. \A i \in Index : i > d.committed /\ HasVotes(d, i) => i \in early
    BY <1>13, <1>18 DEF Counted, OwnVotes, HasVotes
  <2>2. \A i \in Index : i > d.committed /\ HasVotes(d, i) => i \in early'
    BY <1>17, <2>1
  <2> QED BY <1>15, <2>2 DEF OwnVotes, HasVotes
<1>21. OwnReports(node', early')
  <2>1. \A r \in d.reports : r.number \in Index /\ r.number \in d.executing
    BY <1>13, Registers DEF Counted, Ordered
  <2>2. \A r \in d.reports : r.number > d.committed => HasVotes(d, r.number)
    BY <1>13, <2>1 DEF Counted, Ordered
  <2> QED BY <1>13, <1>15, <1>17, <2>2 DEF Counted, OwnReports, SameWork
<1>22. StableOwn(node', early')
  BY <1>13, <1>15 DEF StableOwn, SameWork
<1>23. TypeOK'
  <2>1. Idle' => LET z == Conf[node'.committed] IN
          /\ node'.list = z.list /\ node'.nodeNum = Len(z.list) /\ node'.period = z.period
          /\ node'.quorum = Quorum(z.list)
          /\ node'.nodeIndex = getNodeIndexByNodeID(z.list, Me)
    BY <1>16 DEF Fits, Idle
  <2> QED BY <1>1, <1>2, <1>15, <1>17, <2>1 DEF TypeOK
<1>24. CheckInv'
  <2>1. ~Before(node)
    BY <1>1 DEF Before
  <2> QED BY <1>1, <2>1 DEF MembershipInv, CheckInv
<1>25. AcceptedIsSignedUnlessRepeated'
  BY <1>1 DEF MembershipInv, AcceptedIsSignedUnlessRepeated
<1> QED BY <1>16, <1>19, <1>20, <1>21, <1>22, <1>23, <1>24, <1>25 DEF MembershipInv, Counted


-----------------------------------------------------------------------------
(* BlockValidator *)

\* A step of a check has its own state to account for.
LEMMA CheckKeeps ==
  ASSUME TypeOK, MembershipInv, UNCHANGED <<node, early>>, raced' \in BOOLEAN,
         check' \in Task, CheckInv', AcceptedIsSignedUnlessRepeated'
  PROVE  TypeOK' /\ MembershipInv'
<1>1. TypeOK'
  BY DEF TypeOK, Idle
<1> QED BY <1>1 DEF MembershipInv

\* A check that ends, by a rejection.
LEMMA RejectKeeps ==
  ASSUME TypeOK, MembershipInv, UNCHANGED <<node, early, raced>>,
         check' = [check EXCEPT !.stage = "idle"]
  PROVE  TypeOK' /\ MembershipInv'
<1>1. /\ check' \in Task /\ check'.stage = "idle"
      /\ check'.verified = check.verified /\ check'.block = check.block
  BY DEF TypeOK, Task, CheckStage
<1>2. CheckInv'
  BY <1>1 DEF MembershipInv, CheckInv
<1>3. AcceptedIsSignedUnlessRepeated'
  BY <1>1 DEF AcceptedIsSignedUnlessRepeated
<1>4. raced' \in BOOLEAN
  BY DEF TypeOK
<1> QED BY <1>1, <1>2, <1>3, <1>4, CheckKeeps

\* A check that goes on to its next stage.
LEMMA CheckedIs ==
  ASSUME TypeOK, NEW ok \in BOOLEAN, NEW stage \in CheckStage, Checked(ok, stage)
  PROVE  /\ UNCHANGED <<node, early, raced>>
         /\ \/ check' = [check EXCEPT !.stage = "idle"]
            \/ /\ ok /\ check' \in Task /\ check'.stage = stage /\ check'.block = check.block
               /\ check'.verified = check.verified /\ check'.weight = check.weight
<1>1. CASE ok
  BY <1>1 DEF Checked, TypeOK, Task
<1>2. CASE ~ok
  BY <1>2 DEF Checked
<1> QED BY <1>1, <1>2

LEMMA asyncCheckBlockKeeps ==
  ASSUME TypeOK, MembershipInv, NEW b \in Offered, asyncCheckBlock(b)
  PROVE  TypeOK' /\ MembershipInv'
<1>1. /\ check' = [stage |-> "number", block |-> b, verified |-> 0, weight |-> 0]
      /\ raced' = ~Idle /\ UNCHANGED <<node, early>>
  BY DEF asyncCheckBlock
<1>2. b \in Block /\ b.signatures \in Seq(Slot)
  BY MembershipAssumption DEF Block
<1>3. /\ check' \in Task /\ check'.stage = "number" /\ check'.block = b
      /\ check'.verified = 0 /\ check'.weight = 0
  BY <1>1, <1>2 DEF Task, CheckStage
<1>4. ~raced' => Before(node')
  BY <1>1 DEF Idle, Before
<1>5. CheckInv'
  BY <1>2, <1>3, <1>4 DEF CheckInv
<1>6. AcceptedIsSignedUnlessRepeated'
  BY <1>3 DEF AcceptedIsSignedUnlessRepeated
<1>7. raced' \in BOOLEAN
  BY <1>1
<1> QED BY <1>1, <1>3, <1>5, <1>6, <1>7, CheckKeeps

LEMMA CheckNumberKeeps ==
  ASSUME TypeOK, MembershipInv, CheckNumber
  PROVE  TypeOK' /\ MembershipInv'
<1> DEFINE stage == IF check.block.txs THEN "sealer" ELSE "accepted"
           ok == check.block.number > node.committed
<1>1. check.stage = "number" /\ Checked(ok, stage) /\ ok \in BOOLEAN /\ stage \in CheckStage
  BY DEF CheckNumber, CheckStage
<1>2. stage = "accepted" => ~check.block.txs
  OBVIOUS
<1>3. stage \in {"sealer", "accepted"}
  OBVIOUS
<1> HIDE DEF stage, ok
<1>4. /\ UNCHANGED <<node, early, raced>>
      /\ \/ check' = [check EXCEPT !.stage = "idle"]
         \/ /\ ok /\ check' \in Task /\ check'.stage = stage /\ check'.block = check.block
            /\ check'.verified = check.verified /\ check'.weight = check.weight
  BY <1>1, CheckedIs
<1>5. CASE check' = [check EXCEPT !.stage = "idle"]
  BY <1>4, <1>5, RejectKeeps
<1>6. CASE /\ check' \in Task /\ check'.stage = stage /\ check'.block = check.block
           /\ check'.verified = check.verified /\ check'.weight = check.weight
  <2>1. CheckInv'
    BY <1>1, <1>3, <1>4, <1>6 DEF MembershipInv, CheckInv
  <2>2. AcceptedIsSignedUnlessRepeated'
    BY <1>2, <1>6 DEF AcceptedIsSignedUnlessRepeated
  <2>3. raced' \in BOOLEAN
    BY <1>4 DEF TypeOK
  <2> QED BY <1>4, <1>6, <2>1, <2>2, <2>3, CheckKeeps
<1> QED BY <1>4, <1>5, <1>6

LEMMA CheckSealerKeeps ==
  ASSUME TypeOK, MembershipInv, CheckSealer
  PROVE  TypeOK' /\ MembershipInv'
<1> DEFINE ok == Valid(node.list, check.block.sealer)
<1>1. check.stage = "sealer" /\ Checked(ok, "list") /\ ok \in BOOLEAN /\ "list" \in CheckStage
  BY DEF CheckSealer, CheckStage, Valid
<1> HIDE DEF ok
<1>2. /\ UNCHANGED <<node, early, raced>>
      /\ \/ check' = [check EXCEPT !.stage = "idle"]
         \/ /\ ok /\ check' \in Task /\ check'.stage = "list" /\ check'.block = check.block
            /\ check'.verified = check.verified /\ check'.weight = check.weight
  BY <1>1, CheckedIs
<1>3. CASE check' = [check EXCEPT !.stage = "idle"]
  BY <1>2, <1>3, RejectKeeps
<1>4. CASE /\ check' \in Task /\ check'.stage = "list" /\ check'.block = check.block
           /\ check'.verified = check.verified /\ check'.weight = check.weight
  <2>1. CheckInv'
    BY <1>1, <1>2, <1>4 DEF MembershipInv, CheckInv
  <2>2. AcceptedIsSignedUnlessRepeated'
    BY <1>4 DEF AcceptedIsSignedUnlessRepeated
  <2>3. raced' \in BOOLEAN
    BY <1>2 DEF TypeOK
  <2> QED BY <1>2, <1>4, <2>1, <2>2, <2>3, CheckKeeps
<1> QED BY <1>2, <1>3, <1>4

\* checkSealerListAndWeightList has compared the lists; no signature is counted yet.
LEMMA CheckSealerListKeeps ==
  ASSUME TypeOK, MembershipInv, CheckSealerList
  PROVE  TypeOK' /\ MembershipInv'
<1> DEFINE ok == node.list = OwnList(check.block)
<1>1. /\ check.stage = "list" /\ Checked(ok, "signatures") /\ ok \in BOOLEAN
      /\ "signatures" \in CheckStage
  BY DEF CheckSealerList, CheckStage
<1>2. ok <=> node.list = OwnList(check.block)
  OBVIOUS
<1> HIDE DEF ok
<1>3. /\ UNCHANGED <<node, early, raced>>
      /\ \/ check' = [check EXCEPT !.stage = "idle"]
         \/ /\ ok /\ check' \in Task /\ check'.stage = "signatures" /\ check'.block = check.block
            /\ check'.verified = check.verified /\ check'.weight = check.weight
  BY <1>1, CheckedIs
<1>4. CASE check' = [check EXCEPT !.stage = "idle"]
  BY <1>3, <1>4, RejectKeeps
<1>5. CASE /\ ok /\ check' \in Task /\ check'.stage = "signatures" /\ check'.block = check.block
           /\ check'.verified = check.verified /\ check'.weight = check.weight
  <2>1. check.verified = 0 /\ check.weight = 0
    BY <1>1 DEF MembershipInv, CheckInv
  <2>2. Verified(check') = {}
    BY <1>5, <2>1 DEF Verified
  <2>3. check'.weight = WeightOf(node'.list, Verified(check'))
    BY <1>5, <2>1, <2>2, NoWeight
  <2>4. node'.list = OwnList(check'.block)
    BY <1>2, <1>3, <1>5
  <2>5. CheckInv'
    BY <1>1, <1>3, <1>5, <2>1, <2>3, <2>4 DEF MembershipInv, CheckInv
  <2>6. AcceptedIsSignedUnlessRepeated'
    BY <1>5 DEF AcceptedIsSignedUnlessRepeated
  <2>7. raced' \in BOOLEAN
    BY <1>3 DEF TypeOK
  <2> QED BY <1>3, <1>5, <2>5, <2>6, <2>7, CheckKeeps
<1> QED BY <1>3, <1>4, <1>5

\* One more signature is verified, and adds the weight of its position.
LEMMA CheckSignatureKeeps ==
  ASSUME TypeOK, MembershipInv, CheckSignature
  PROVE  TypeOK' /\ MembershipInv'
<1> DEFINE q == check.block.signatures
           v == check.verified
           n == q[v + 1]
           W == check.weight + At(node.list, n).weight
<1>1. /\ check.stage = "signatures" /\ v < Len(q) /\ UNCHANGED <<node, early, raced>>
      /\ \/ check' = [check EXCEPT !.stage = "idle"]
         \/ Valid(node.list, n) /\ check' = [check EXCEPT !.verified = v + 1, !.weight = W]
  BY DEF CheckSignature, Verifies
<1>2. CASE check' = [check EXCEPT !.stage = "idle"]
  BY <1>1, <1>2, RejectKeeps
<1>3. CASE Valid(node.list, n) /\ check' = [check EXCEPT !.verified = v + 1, !.weight = W]
  <2>1. node \in State /\ check \in Task /\ node.list \in Lists
    BY Registers DEF TypeOK
  <2>2. q \in Seq(Slot) /\ v \in Nat /\ check.weight \in Nat
    BY <2>1 DEF Task, Block
  <2>3. Len(q) \in Nat /\ DOMAIN q = 1 .. Len(q) /\ v + 1 \in 1 .. Len(q) /\ n \in Slot
    BY <1>1, <2>2
  <2>4. At(node.list, n).weight \in Nat
    <3>1. At(node.list, n) \in ConsensusNode
      BY <1>3, <2>1, Positions
    <3> QED BY <3>1, Constants DEF ConsensusNode
  <2>5. v + 1 \in Nat /\ W \in Nat
    BY <2>2, <2>4
  <2> HIDE DEF W, n
  <2>6. /\ check' \in Task /\ check'.stage = "signatures" /\ check'.block = check.block
        /\ check'.verified = v + 1 /\ check'.weight = W
    BY <1>1, <1>3, <2>1, <2>5 DEF Task
  <2>7. ASSUME ~raced
        PROVE  /\ Before(node) /\ node.list = OwnList(check.block)
               /\ IsInjective(q) => W = WeightOf(node.list, Verified(check'))
    <3>1. /\ Before(node) /\ node.list = OwnList(check.block)
          /\ IsInjective(q) => check.weight = WeightOf(node.list, Verified(check))
      BY <1>1, <2>7 DEF MembershipInv, CheckInv
    <3>2. ASSUME IsInjective(q)
          PROVE  W = WeightOf(node.list, Verified(check'))
      <4> DEFINE S == Verified(check)
      <4>1. S \in SUBSET Slot
        <5>1. \A k \in 1 .. v : k \in DOMAIN q /\ q[k] \in Slot
          BY <1>1, <2>2, <2>3
        <5> QED BY <5>1 DEF Verified
      <4>2. n \notin S
        <5>1. \A k \in 1 .. v : k \in DOMAIN q /\ v + 1 \in DOMAIN q /\ k # v + 1
          BY <1>1, <2>2, <2>3
        <5>2. \A k \in 1 .. v : q[k] # n
          BY <3>2, <5>1 DEF IsInjective, n
        <5> QED BY <5>2 DEF Verified
      <4>3. Verified(check') = S \cup {n}
        <5>1. Verified(check') = {q[k] : k \in 1 .. v + 1}
          BY <2>6 DEF Verified
        <5>2. 1 .. v + 1 = (1 .. v) \cup {v + 1}
          BY <2>2
        <5> QED BY <5>1, <5>2 DEF Verified, n
      <4> HIDE DEF S
      <4>4. WeightOf(node.list, S \cup {n}) = WeightOf(node.list, S) + At(node.list, n).weight
        BY <1>3, <2>1, <2>3, <4>1, <4>2, WeightAdds
      <4> QED BY <3>1, <3>2, <4>3, <4>4 DEF S, W
    <3> QED BY <3>1, <3>2
  <2>8. v + 1 <= Len(q)
    BY <1>1, <2>2, <2>3
  <2>9. CheckInv'
    BY <1>1, <2>6, <2>7, <2>8 DEF CheckInv
  <2>10. AcceptedIsSignedUnlessRepeated'
    BY <2>6 DEF AcceptedIsSignedUnlessRepeated
  <2>11. raced' \in BOOLEAN
    BY <1>1 DEF TypeOK
  <2> QED BY <1>1, <2>6, <2>9, <2>10, <2>11, CheckKeeps
<1> QED BY <1>1, <1>2, <1>3

\* checkSignatureList compares the sum with the quorum of the same list.
LEMMA CheckWeightKeeps ==
  ASSUME TypeOK, MembershipInv, CheckWeight
  PROVE  TypeOK' /\ MembershipInv'
<1> DEFINE q == check.block.signatures
           ok == check.weight >= node.quorum
<1>1. /\ check.stage = "signatures" /\ check.verified = Len(q) /\ Checked(ok, "accepted")
      /\ ok \in BOOLEAN /\ "accepted" \in CheckStage
  BY DEF CheckWeight, CheckStage
<1>2. ok => check.weight >= node.quorum
  OBVIOUS
<1> HIDE DEF ok
<1>3. /\ UNCHANGED <<node, early, raced>>
      /\ \/ check' = [check EXCEPT !.stage = "idle"]
         \/ /\ ok /\ check' \in Task /\ check'.stage = "accepted" /\ check'.block = check.block
            /\ check'.verified = check.verified /\ check'.weight = check.weight
  BY <1>1, CheckedIs
<1>4. CASE check' = [check EXCEPT !.stage = "idle"]
  BY <1>3, <1>4, RejectKeeps
<1>5. CASE /\ ok /\ check' \in Task /\ check'.stage = "accepted" /\ check'.block = check.block
           /\ check'.verified = check.verified /\ check'.weight = check.weight
  <2>1. CheckInv'
    BY <1>1, <1>3, <1>5 DEF MembershipInv, CheckInv
  <2>2. ASSUME ~raced, IsInjective(q)
        PROVE  WeightOf(OwnList(check.block), Range(q)) >= Quorum(OwnList(check.block))
    <3>1. /\ Before(node) /\ node.list = OwnList(check.block)
          /\ check.weight = WeightOf(node.list, Verified(check))
      BY <1>1, <2>2 DEF MembershipInv, CheckInv
    <3>2. node.quorum = Quorum(node.list)
      BY <3>1 DEF MembershipInv, Fits, Before
    <3>3. Verified(check) = Range(q)
      <4>1. q \in Seq(Slot)
        BY DEF TypeOK, Task, Block
      <4>2. DOMAIN q = 1 .. check.verified
        BY <1>1, <4>1
      <4> QED BY <4>2 DEF Verified, Range
    <3> QED BY <1>2, <1>5, <3>1, <3>2, <3>3
  <2>3. AcceptedIsSignedUnlessRepeated'
    BY <1>3, <1>5, <2>2 DEF AcceptedIsSignedUnlessRepeated
  <2>4. raced' \in BOOLEAN
    BY <1>3 DEF TypeOK
  <2> QED BY <1>3, <1>5, <2>1, <2>3, <2>4, CheckKeeps
<1> QED BY <1>3, <1>4, <1>5

-----------------------------------------------------------------------------
(* Theorems *)

LEMMA InitKeeps ==
  ASSUME Init
  PROVE  TypeOK /\ MembershipInv
<1> DEFINE list == Conf[0].list
           x == getNodeIndexByNodeID(list, Me)
           V == [kind \in Kind |-> [i \in Index |-> [n \in Slot |-> None]]]
           U == [stage |-> "idle", number |-> 0, synced |-> FALSE]
           b == [number |-> 1, sealer |-> 0, signatures |-> <<>>, txs |-> FALSE]
<1>1. 0 \in 0 .. MaxIndex /\ 1 \in Index /\ 0 \in Slot /\ 1 \in 1 .. MaxIndex + 1
  BY Constants DEF Index, Slot
<1>2. list \in Lists /\ Conf[0].period \in Nat
  BY <1>1, Constants
<1>3. Len(list) \in 1 .. MaxNodes /\ Quorum(list) \in 1 .. MaxNodes * MaxWeight
  BY <1>2, Constants, QuorumType
<1>4. x \in Slot \cup {NonConsensus}
  BY <1>2, IndexFound
<1>5. V \in [Kind -> [Index -> [Slot -> Vote]]]
  BY Constants DEF Vote, None
<1>6. \A kind \in Kind, i \in Index, n \in Slot : V[kind][i][n] = None
  OBVIOUS
<1>7. U \in [stage : UpdateStage, number : 0 .. MaxIndex, synced : BOOLEAN] /\ U.stage = "idle"
  BY <1>1 DEF UpdateStage
<1>8. b \in Block /\ Len(b.signatures) = 0
  BY <1>1 DEF Block
<1> HIDE DEF V, U, x, list, b
<1>9. node = [committed |-> 0, expected |-> 1, list |-> list,
             nodeNum |-> Len(list), nodeIndex |-> x,
             quorum |-> Quorum(list), period |-> Conf[0].period, waitSeal |-> 0,
             update |-> U, proposed |-> {}, votes |-> V,
             submitted |-> {}, queue |-> {}, executing |-> {}, reports |-> {},
             executed |-> {}, stable |-> {}, stableQueue |-> {}, committing |-> {}]
  BY DEF Init, V, U, x, list
<1>10. node \in State
  BY <1>1, <1>2, <1>3, <1>4, <1>5, <1>7, <1>9 DEF State
<1>11. /\ node.committed = 0 /\ node.list = list /\ node.nodeNum = Len(list)
       /\ node.nodeIndex = x /\ node.quorum = Quorum(list) /\ node.period = Conf[0].period
       /\ node.update = U /\ node.votes = V /\ node.queue = {} /\ node.executing = {}
       /\ node.reports = {} /\ node.executed = {} /\ node.stable = {}
  BY <1>9
<1>12. check = [stage |-> "idle", weight |-> 0, verified |-> 0, block |-> b] /\ early = {} /\ raced = FALSE
  BY DEF Init, b
<1>13. check \in Task /\ check.stage = "idle" /\ check.verified = 0 /\ check.block = b
  BY <1>8, <1>12 DEF Task, CheckStage
<1>14. TypeOK
  BY <1>10, <1>11, <1>12, <1>13 DEF TypeOK, x, list
<1>15. Fits(node)
  BY <1>7, <1>11 DEF Fits, Before, x, list
<1>16. Counted(node, early)
  <2>1. Ordered(node)
    BY <1>11 DEF Ordered
  <2>2. OwnVotes(node, early)
    BY <1>6, <1>11 DEF OwnVotes
  <2>3. OwnReports(node, early) /\ StableOwn(node, early)
    BY <1>11 DEF OwnReports, StableOwn
  <2> QED BY <2>1, <2>2, <2>3 DEF Counted
<1>17. CheckInv /\ AcceptedIsSignedUnlessRepeated
  BY <1>8, <1>13 DEF CheckInv, AcceptedIsSignedUnlessRepeated
<1> QED BY <1>14, <1>15, <1>16, <1>17 DEF MembershipInv

\* One lemma per action of the node, of its update and of the validator.
LEMMA NextKeeps ==
  ASSUME TypeOK, MembershipInv, Next
  PROVE  TypeOK' /\ MembershipInv'
  BY HandlePrePrepareKeeps, HandleCommitKeeps, HandleCheckPointKeeps, ExecuteFinishedKeeps,
     ApplySuccessKeeps, CommitSucceedsKeeps, SyncBlockKeeps, SetCommittedKeeps, SetListKeeps,
     SetNodeNumKeeps, SetNodeIndexKeeps, updateQuorumKeeps, SetPeriodKeeps, FinishKeeps,
     asyncCheckBlockKeeps, CheckNumberKeeps, CheckSealerKeeps, CheckSealerListKeeps,
     CheckSignatureKeeps, CheckWeightKeeps, Zenon DEF Next

LEMMA StutterKeeps ==
  ASSUME TypeOK, MembershipInv, UNCHANGED vars
  PROVE  TypeOK' /\ MembershipInv'
<1>1. UNCHANGED <<node, check, early, raced>>
  BY DEF vars
<1>2. node' \in State /\ Counted(node', early') /\ early' \subseteq Index /\ SameConfig(node, node')
  BY <1>1 DEF TypeOK, MembershipInv, SameConfig
<1> QED BY <1>1, <1>2, HandlerKeeps

\* The invariant: resetConfig's registers fit the list and the ledger up to the
\* stage it has reached; a vote of a number that is not early is counted while
\* the list of the number is in force, from a node of that list and with its
\* weight; a check that no update raced with has added up weights of the list
\* of its block.
THEOREM MembershipInvariant == Spec => [](TypeOK /\ MembershipInv)
<1>1. Init => TypeOK /\ MembershipInv
  BY InitKeeps
<1>2. TypeOK /\ MembershipInv /\ [Next]_vars => (TypeOK /\ MembershipInv)'
  BY NextKeeps, StutterKeeps
<1> QED BY <1>1, <1>2, PTL DEF Spec

\* The registers keep their types, and outside an update those derived from the
\* list (setConsensusNodeList, updateQuorum, setLeaderSwitchPeriod) fit the list
\* of the committed block.
THEOREM MembershipTyped == Spec => []TypeOK
  BY MembershipInvariant, PTL

\* A result becomes stable (PBFTCache::checkAndCommitStableCheckPoint) only with
\* the votes of a quorum of the list of its number, at their positions in it,
\* unless a vote of the number was counted under an earlier list.
THEOREM StableByOwnListHolds == Spec => []StableByOwnListUnlessEarly
<1>1. TypeOK /\ MembershipInv => StableByOwnListUnlessEarly
  <2>1. SUFFICES ASSUME TypeOK, MembershipInv, NEW i \in node.stable \ early, i > node.committed
                 PROVE  QuorumOfOwnList("checkpoint", i)
    BY DEF StableByOwnListUnlessEarly
  <2>2. WeightOf(Conf[i - 1].list, SignersIn(node, i)) >= Quorum(Conf[i - 1].list)
    BY <2>1 DEF MembershipInv, Counted, StableOwn
  <2>3. SignersIn(node, i) = Signers("checkpoint", i)
    BY DEF SignersIn, Signers
  <2> QED BY <2>2, <2>3 DEF QuorumOfOwnList
<1> QED BY <1>1, MembershipInvariant, PTL

\* A block with transactions that BlockValidator accepts is signed by a quorum of
\* the list of its number, if no register changed during the check and no position
\* is named twice in its signatureList: checkSignatureList adds up every entry.
THEOREM AcceptedIsSignedHolds == Spec => []AcceptedIsSignedUnlessRepeated
<1>1. MembershipInv => AcceptedIsSignedUnlessRepeated
  BY DEF MembershipInv
<1> QED BY <1>1, MembershipInvariant, PTL

=============================================================================

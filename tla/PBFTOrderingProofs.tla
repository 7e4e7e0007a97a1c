------------------------- MODULE PBFTOrderingProofs -------------------------
(***************************************************************************)
(* Type correctness and agreement of PBFTOrdering, for any number of       *)
(* nodes, any weights and any bounds.                                      *)
(*                                                                         *)
(* The first half proves that every handler keeps the types, and what it   *)
(* leaves alone.  The second half shows OrderingInv to be inductive: most  *)
(* handlers are inert for it, they keep or drop caches and send neither    *)
(* prepares nor commits; the others (accepting a proposal, precommitting,  *)
(* submitting) are the ones the lock protects.                             *)
(***************************************************************************)
EXTENDS PBFTDecision, PBFTQuorumProofs

\* Lowest is the least element of a bounded, non-empty set of integers.
LEMMA LowestIn ==
  ASSUME NEW a \in Int, NEW b \in Int, NEW S \in SUBSET (a .. b), S # {}
  PROVE  Lowest(S) \in S /\ \A j \in S : Lowest(S) <= j
<1> DEFINE T == {x \in Nat : a + x \in S}
<1>1. T \in SUBSET Nat /\ T # {}
  <2>1. PICK s \in S : TRUE
    OBVIOUS
  <2>2. s - a \in Nat /\ a + (s - a) = s
    OBVIOUS
  <2> QED BY <2>2
<1>2. PICK x \in T : \A y \in T : x <= y
  <2> HIDE DEF T
  <2> QED BY <1>1, NatLowest
<1>3. \A j \in S : a + x <= j
  <2> SUFFICES ASSUME NEW j \in S PROVE a + x <= j
    OBVIOUS
  <2>2. j - a \in Nat /\ a + (j - a) = j
    OBVIOUS
  <2>3. j - a \in T
    BY <2>2
  <2>4. x <= j - a
    BY <1>2, <2>3
  <2> QED BY <2>4
<1>4. \E k \in S : \A j \in S : k <= j
  BY <1>3
<1> QED
  BY <1>4 DEF Lowest

\* Highest is the greatest element of a bounded, non-empty set of integers.
LEMMA HighestIn ==
  ASSUME NEW a \in Int, NEW b \in Int, NEW S \in SUBSET (a .. b), S # {}
  PROVE  Highest(S) \in S /\ \A j \in S : j <= Highest(S)
<1> DEFINE T == {x \in Nat : b - x \in S}
<1>1. T \in SUBSET Nat /\ T # {}
  <2>1. PICK s \in S : TRUE
    OBVIOUS
  <2>2. b - s \in Nat /\ b - (b - s) = s
    OBVIOUS
  <2> QED BY <2>2
<1>2. PICK x \in T : \A y \in T : x <= y
  <2> HIDE DEF T
  <2> QED BY <1>1, NatLowest
<1>3. \A j \in S : j <= b - x
  <2> SUFFICES ASSUME NEW j \in S PROVE j <= b - x
    OBVIOUS
  <2>2. b - j \in Nat /\ b - (b - j) = j
    OBVIOUS
  <2>3. b - j \in T
    BY <2>2
  <2>4. x <= b - j
    BY <1>2, <2>3
  <2> QED BY <2>4
<1>4. \E k \in S : \A j \in S : j <= k
  BY <1>3
<1> QED
  BY <1>4 DEF Highest

\* The higher of two numbers.
LEMMA HighestPair ==
  ASSUME NEW a \in Int, NEW b \in Int
  PROVE  Highest({a, b}) \in {a, b} /\ a <= Highest({a, b}) /\ b <= Highest({a, b})
<1>1. \E k \in {a, b} : \A j \in {a, b} : j <= k
  OBVIOUS
<1>2. Highest({a, b}) \in {a, b} /\ \A j \in {a, b} : j <= Highest({a, b})
  BY <1>1 DEF Highest
<1> QED BY <1>2

-----------------------------------------------------------------------------
(* The operators on one cache *)

\* A new cache is a cache.
LEMMA EmptyCacheType == EmptyCache \in Cache
  BY DEF EmptyCache, Cache

\* checkAndCommit and checkAndPreCommit keep the type of the cache.
LEMMA CheckOps ==
  ASSUME NEW c \in Cache, NEW n \in Node, NEW v \in View
  PROVE  /\ checkAndCommit(c, v) \in Cache
         /\ checkAndPreCommit(c, n, v) \in Cache
<1>1. ASSUME NEW d \in Cache PROVE checkAndCommit(d, v) \in Cache
  BY DEF checkAndCommit, Cache
<1>2. ASSUME CanPreCommit(c, v) PROVE intoPrecommit(c, n, v) \in Cache
  <2>1. c.prePrepare \in Proposal
    BY <1>2 DEF CanPreCommit, PrePreparedIn, Cache
  <2>2. c.prePrepare.hash \in Hash
    BY <2>1 DEF Proposal
  <2>3. [from |-> n, hash |-> c.prePrepare.hash, view |-> v] \in Vote
    BY <2>2 DEF Vote
  <2>4. addCache(c.commits, [from |-> n, hash |-> c.prePrepare.hash, view |-> v]) \in SUBSET Vote
    BY <2>3 DEF addCache, Cache
  <2> QED
    BY <2>1, <2>4 DEF intoPrecommit, Cache
<1> QED
  BY <1>1, <1>2 DEF checkAndPreCommit

-----------------------------------------------------------------------------
(* The local state a handler works on *)

LocalState ==
  [ctl : Registers, caches : [Index -> Cache], pending : SUBSET Pending,
   out : SUBSET Message, done : SUBSET (Index \X Hash)]

\* Starting what can be executed keeps the type.
LEMMA ApplyType ==
  ASSUME NEW l \in LocalState
  PROVE  tryToApplyCommitQueue(l) \in LocalState
<1> DEFINE valid == {e \in l.ctl.queue : e[1] >= l.ctl.expected}
           x == CHOOSE e \in Applicable(l) : TRUE
<1>1. l.ctl \in Registers /\ l.ctl.queue \subseteq Index \X Hash
  BY DEF LocalState, Registers
<1>2. valid \subseteq Index \X Hash
  BY <1>1
<1>3. CASE Applicable(l) = {}
  <2>1. tryToApplyCommitQueue(l) = [l EXCEPT !.ctl.queue = valid]
    BY <1>3 DEF tryToApplyCommitQueue
  <2> HIDE DEF valid
  <2>2. [l.ctl EXCEPT !.queue = valid] \in Registers
    BY <1>1, <1>2 DEF Registers
  <2> QED
    BY <2>1, <2>2 DEF LocalState
<1>4. CASE Applicable(l) # {}
  <2>1. tryToApplyCommitQueue(l) =
          [l EXCEPT !.ctl.queue = valid \ {x}, !.ctl.executing = @ \cup {x}]
    BY <1>4 DEF tryToApplyCommitQueue
  <2>2. x \in Index \X Hash
    BY <1>1, <1>4 DEF Applicable
  <2> HIDE DEF valid, x
  <2>3. [l.ctl EXCEPT !.queue = valid \ {x}, !.executing = @ \cup {x}] \in Registers
    BY <1>1, <1>2, <2>2 DEF Registers
  <2>4. [l EXCEPT !.ctl.queue = valid \ {x}, !.ctl.executing = @ \cup {x}] =
          [l EXCEPT !.ctl = [l.ctl EXCEPT !.queue = valid \ {x}, !.executing = @ \cup {x}]]
    BY DEF LocalState, Registers
  <2> QED
    BY <2>1, <2>3, <2>4 DEF LocalState
<1> QED BY <1>3, <1>4

\* The parts of a local state have their types.
LEMMA LocalFields ==
  ASSUME NEW l \in LocalState
  PROVE  /\ l.ctl \in Registers /\ l.caches \in [Index -> Cache]
         /\ l.pending \subseteq Pending /\ l.out \subseteq Message
         /\ l.ctl.view \in View /\ l.ctl.toView \in View /\ l.ctl.committed \in 0 .. MaxIndex
         /\ l.ctl.expected \in 1 .. MaxIndex + 1 /\ l.ctl.low \in 1 .. MaxIndex + 1
         /\ l.ctl.syncing \in 0 .. MaxIndex
         /\ l.ctl.viewChanges \subseteq ViewChangeMsg
         /\ l.ctl.maxCommitted \in [View -> None .. MaxIndex]
         /\ l.ctl.maxPrecommit \in [View -> None .. MaxIndex]
         /\ l.ctl.queue \subseteq Index \X Hash /\ l.ctl.executing \subseteq Index \X Hash
         /\ l.done \subseteq Index \X Hash
  BY DEF LocalState, Registers

\* Handing proposals to execution keeps the type.
LEMMA CommitQueueType ==
  ASSUME NEW l \in LocalState, NEW S \in SUBSET (Index \X Hash)
  PROVE  updateCommitQueue(l, S) \in LocalState
<1> DEFINE new == S \ l.ctl.executing
           l1  == [l EXCEPT !.ctl.queue = @ \cup new, !.done = @ \cup S]
<1>1. new \subseteq Index \X Hash
  OBVIOUS
<1>2. l1 \in LocalState
  <2> HIDE DEF new
  <2>1. [l.ctl EXCEPT !.queue = @ \cup new] \in Registers
    BY <1>1 DEF LocalState, Registers
  <2> QED BY <2>1 DEF LocalState
<1>3. updateCommitQueue(l, S) = IF new = {} THEN l1 ELSE tryToApplyCommitQueue(l1)
  BY DEF updateCommitQueue
<1> HIDE DEF new, l1
<1> QED BY <1>2, <1>3, ApplyType

\* Precommitting every cache that can, with the commit votes it sends, keeps
\* the type.
LEMMA PreCommitType ==
  ASSUME NEW n \in Node, NEW l \in LocalState
  PROVE  PreCommitAll(n, l) \in LocalState
<1> DEFINE v    == l.ctl.view
           S    == {i \in Index : CanPreCommit(l.caches[i], v)}
           new  == [i \in Index |-> checkAndPreCommit(l.caches[i], n, v)]
           sent == {ConsensusMsg("Commit", n, i, v, l.caches[i].prePrepare.hash) : i \in S}
           subm == {i \in S : new[i].submitted /\ ~l.caches[i].submitted}
           l1   == [l EXCEPT !.caches = new, !.out = @ \cup sent]
           Q    == {<<i, new[i].precommit.hash>> : i \in subm}
<1>0. v \in View /\ \A i \in Index : l.caches[i] \in Cache
  BY LocalFields
<1>1. \A i \in Index : new[i] \in Cache
  BY <1>0, CheckOps
<1>2. new \in [Index -> Cache]
  BY <1>1
<1>3. ASSUME NEW i \in S
      PROVE  l.caches[i].prePrepare \in Proposal /\ l.caches[i].prePrepare.hash \in Hash
  BY <1>0 DEF CanPreCommit, PrePreparedIn, Cache, Proposal
<1>4. sent \subseteq Message
  BY <1>0, <1>3 DEF ConsensusMsg, Message
<1>5. l1 \in LocalState
  <2> HIDE DEF new, sent
  <2> QED BY <1>2, <1>4 DEF LocalState
<1>6. ASSUME NEW i \in S PROVE new[i].precommit.hash \in Hash
  <2>1. new[i] = checkAndCommit(intoPrecommit(l.caches[i], n, v), v)
    BY DEF checkAndPreCommit
  <2>2. l.caches[i] \in Cache
    BY <1>0
  <2>3. intoPrecommit(l.caches[i], n, v).precommit = l.caches[i].prePrepare
    BY <2>2 DEF intoPrecommit, Cache
  <2>4. new[i].precommit = l.caches[i].prePrepare
    BY <2>1, <2>3, <2>2 DEF checkAndCommit, intoPrecommit, Cache
  <2> QED BY <2>4, <1>3
<1>7. Q \in SUBSET (Index \X Hash)
  <2> HIDE DEF new
  <2> QED BY <1>6
<1>8. PreCommitAll(n, l) = updateCommitQueue(l1, Q)
  BY DEF PreCommitAll
<1> HIDE DEF l1, Q
<1> QED BY <1>5, <1>7, <1>8, CommitQueueType

\* Submitting every cache with a quorum of commits keeps the type.
LEMMA CommitType ==
  ASSUME NEW l \in LocalState
  PROVE  CommitAll(l) \in LocalState
<1> DEFINE v    == l.ctl.view
           S    == {i \in Index : CanCommit(l.caches[i], v)}
           new  == [i \in Index |-> checkAndCommit(l.caches[i], v)]
           l1   == [l EXCEPT !.caches = new]
           Q    == {<<i, l.caches[i].precommit.hash>> : i \in S}
           next == updateCommitQueue(l1, Q)
<1>0. v \in View /\ \A i \in Index : l.caches[i] \in Cache
  BY LocalFields
<1>1. \A i \in Index : new[i] \in Cache
  BY <1>0 DEF checkAndCommit, Cache
<1>2. new \in [Index -> Cache]
  BY <1>1
<1>3. ASSUME NEW i \in S PROVE l.caches[i].precommit.hash \in Hash
  BY <1>0 DEF CanCommit, Cache, Proposal
<1>4. Q \in SUBSET (Index \X Hash)
  BY <1>3
<1>5. l1 \in LocalState
  <2> HIDE DEF new
  <2> QED BY <1>2 DEF LocalState
<1>6. next \in LocalState
  <2> HIDE DEF l1, Q
  <2> QED BY <1>4, <1>5, CommitQueueType
<1>7. CommitAll(l) = IF S = {} THEN l ELSE [next EXCEPT !.ctl.toView = v]
  BY DEF CommitAll
<1> HIDE DEF next
<1>8. [next.ctl EXCEPT !.toView = v] \in Registers
  BY <1>0, <1>6 DEF LocalState, Registers
<1>9. [next EXCEPT !.ctl.toView = v] \in LocalState
  BY <1>6, <1>8 DEF LocalState
<1> QED BY <1>7, <1>9

\* A consensus message, or what is kept of it while it is being verified.
Carries(m) == m.index \in Index /\ m.view \in View /\ m.hash \in Hash /\ m.from \in Node

\* Accepting a verified proposal keeps the type.
LEMMA AddProposalType ==
  ASSUME NEW n \in Node, NEW l \in LocalState, NEW m, Carries(m)
  PROVE  AddProposal(n, l, m) \in LocalState
<1> DEFINE p    == [view |-> m.view, hash |-> m.hash, from |-> m.from]
           vote == [from |-> n, hash |-> m.hash, view |-> l.ctl.view]
           c    == addPrepareCache(addPrePrepareCache(l.caches[m.index], p), vote)
           x    == ConsensusMsg("Prepare", n, m.index, l.ctl.view, m.hash)
           l1   == [l EXCEPT !.caches[m.index] = c, !.out = @ \cup {x}]
<1>1. l.ctl.view \in View /\ l.caches[m.index] \in Cache
  BY LocalFields DEF Carries
<1>2. p \in Proposal /\ vote \in Vote /\ x \in Message
  BY <1>1 DEF Carries, Proposal, Vote, Message, ConsensusMsg
<1>3. c \in Cache
  <2>1. addPrePrepareCache(l.caches[m.index], p) \in Cache
    BY <1>1, <1>2 DEF addPrePrepareCache, Cache
  <2> HIDE DEF p, vote
  <2> QED BY <1>2, <2>1 DEF addPrepareCache, addCache, Cache
<1>4. l1 \in LocalState
  <2> HIDE DEF c, x
  <2> QED BY <1>2, <1>3 DEF LocalState, Carries
<1>5. AddProposal(n, l, m) = PreCommitAll(n, l1)
  BY DEF AddProposal
<1> HIDE DEF l1
<1> QED BY <1>4, <1>5, PreCommitType

-----------------------------------------------------------------------------
(* View change *)

\* Dropping old view changes keeps the type.
LEMMA RemoveInvalidType ==
  ASSUME NEW l \in LocalState, NEW v, NEW k
  PROVE  removeInvalidViewChange(l, v, k) \in LocalState
<1> DEFINE S == {m \in l.ctl.viewChanges : m.view > v /\ m.committed >= k}
<1>1. S \subseteq ViewChangeMsg
  BY LocalFields
<1>2. removeInvalidViewChange(l, v, k) = [l EXCEPT !.ctl.viewChanges = S]
  BY DEF removeInvalidViewChange
<1> HIDE DEF S
<1>3. [l.ctl EXCEPT !.viewChanges = S] \in Registers
  BY <1>1 DEF LocalState, Registers
<1> QED BY <1>2, <1>3 DEF LocalState

\* Dropping the maxima of the view changes keeps the type.
LEMMA ClearType ==
  ASSUME NEW l \in LocalState
  PROVE  ClearNewViewState(l) \in LocalState
<1> DEFINE f == [v \in View |-> None]
<1>1. f \in [View -> None .. MaxIndex]
  BY BoundAssumption DEF None
<1>2. ClearNewViewState(l) =
        [l EXCEPT !.ctl.maxCommitted = f, !.ctl.maxPrecommit = f, !.ctl.newViewGenerated = FALSE]
  BY DEF ClearNewViewState
<1> HIDE DEF f
<1>3. [l.ctl EXCEPT !.maxCommitted = f, !.maxPrecommit = f, !.newViewGenerated = FALSE] \in Registers
  BY <1>1 DEF LocalState, Registers
<1>4. [l EXCEPT !.ctl.maxCommitted = f, !.ctl.maxPrecommit = f, !.ctl.newViewGenerated = FALSE] =
      [l EXCEPT !.ctl = [l.ctl EXCEPT !.maxCommitted = f, !.maxPrecommit = f, !.newViewGenerated = FALSE]]
  BY DEF LocalState, Registers
<1> QED BY <1>2, <1>3, <1>4 DEF LocalState

\* A generated view change is one.
LEMMA GenerateType ==
  ASSUME NEW n \in Node, NEW l \in LocalState, NEW dest \in SUBSET Node
  PROVE  /\ generateViewChange(n, l, dest) \in ViewChangeMsg
         /\ generateViewChange(n, l, dest) \in Message
<1> DEFINE J == {j \in Index : l.caches[j].precommit # NoProposal}
           P == {[index |-> i, view |-> l.caches[i].precommit.view,
                   hash  |-> l.caches[i].precommit.hash,
                   from  |-> l.caches[i].precommit.from] : i \in J}
<1>1. ASSUME NEW i \in J PROVE l.caches[i].precommit \in Proposal
  BY LocalFields DEF Cache
<1>2. P \subseteq Prepared
  BY <1>1 DEF Prepared, Proposal
<1>3. generateViewChange(n, l, dest) =
        [type |-> "ViewChange", from |-> n, to |-> dest, view |-> l.ctl.toView,
         committed |-> l.ctl.committed, prepared |-> P]
  BY DEF generateViewChange
<1> HIDE DEF P
<1>4. generateViewChange(n, l, dest) \in ViewChangeMsg
  BY <1>2, <1>3, LocalFields DEF ViewChangeMsg
<1> QED BY <1>4 DEF Message

\* Storing a view change keeps the type.
LEMMA AddViewChangeType ==
  ASSUME NEW l \in LocalState, NEW m \in ViewChangeMsg
  PROVE  addViewChangeReq(l, m) \in LocalState
<1> DEFINE a == Highest({l.ctl.maxCommitted[m.view], m.committed})
           I == {l.ctl.maxPrecommit[m.view]} \cup {p.index : p \in m.prepared}
           b == Highest(I)
           V == l.ctl.viewChanges \cup {m}
<1>0. m.view \in View /\ m.committed \in 0 .. MaxIndex /\ m.prepared \subseteq Prepared
  BY DEF ViewChangeMsg
<1>1. None \in Int /\ MaxIndex \in Int /\ None = -1
  BY BoundAssumption DEF None
<1>2. a \in None .. MaxIndex
  <2>1. {l.ctl.maxCommitted[m.view], m.committed} \in SUBSET (None .. MaxIndex)
    BY <1>0, <1>1, LocalFields
  <2> QED BY <2>1, <1>1, HighestIn
<1>3. b \in None .. MaxIndex
  <2>1. I \in SUBSET (None .. MaxIndex)
    BY <1>0, <1>1, LocalFields DEF Prepared, Index
  <2>2. I # {}
    OBVIOUS
  <2> HIDE DEF I
  <2> QED BY <2>1, <2>2, <1>1, HighestIn
<1>4. V \subseteq ViewChangeMsg
  BY LocalFields
<1>5. addViewChangeReq(l, m) \in
        {l, [l EXCEPT !.ctl.viewChanges = V, !.ctl.maxCommitted[m.view] = a,
                      !.ctl.maxPrecommit[m.view] = b]}
  BY DEF addViewChangeReq
<1> HIDE DEF a, b, V
<1>6. [l.ctl EXCEPT !.viewChanges = V, !.maxCommitted[m.view] = a, !.maxPrecommit[m.view] = b]
        \in Registers
  <2> DEFINE f == [l.ctl.maxCommitted EXCEPT ![m.view] = a]
             g == [l.ctl.maxPrecommit EXCEPT ![m.view] = b]
  <2>1. f \in [View -> None .. MaxIndex] /\ g \in [View -> None .. MaxIndex]
    BY <1>0, <1>2, <1>3, LocalFields
  <2> HIDE DEF f, g
  <2>2. [l.ctl EXCEPT !.viewChanges = V, !.maxCommitted = f, !.maxPrecommit = g] \in Registers
    BY <1>4, <2>1 DEF LocalState, Registers
  <2> QED BY <2>2 DEF f, g
<1>7. [l EXCEPT !.ctl.viewChanges = V, !.ctl.maxCommitted[m.view] = a, !.ctl.maxPrecommit[m.view] = b]
      = [l EXCEPT !.ctl = [l.ctl EXCEPT !.viewChanges = V, !.maxCommitted[m.view] = a,
                                        !.maxPrecommit[m.view] = b]]
  BY DEF LocalState, Registers
<1> QED BY <1>5, <1>6, <1>7 DEF LocalState

\* Entering a view keeps the type.
LEMMA ResetViewType ==
  ASSUME NEW l \in LocalState, NEW v \in View
  PROVE  resetNewViewState(l, v) \in LocalState
<1>1. [l.ctl EXCEPT !.view = v, !.toView = v, !.timeout = FALSE, !.startRecovered = TRUE]
        \in Registers
  <2> DEFINE r == [l.ctl EXCEPT !.view = v, !.toView = v]
  <2>1. r \in Registers
    <3> DEFINE c == l.ctl
               q == [c EXCEPT !.view = v]
    <3>1. c \in Registers
      BY DEF LocalState
    <3>2. r = [q EXCEPT !.toView = v]
      OBVIOUS
    <3> HIDE DEF c
    <3>3. q \in Registers
      BY <3>1 DEF Registers
    <3> HIDE DEF q
    <3>4. [q EXCEPT !.toView = v] \in Registers
      BY <3>3 DEF Registers
    <3> QED BY <3>2, <3>4
  <2>2. [l.ctl EXCEPT !.view = v, !.toView = v, !.timeout = FALSE, !.startRecovered = TRUE]
        = [r EXCEPT !.timeout = FALSE, !.startRecovered = TRUE]
    OBVIOUS
  <2> HIDE DEF r
  <2>3. [r EXCEPT !.timeout = FALSE] \in Registers
    BY <2>1 DEF Registers
  <2>4. [[r EXCEPT !.timeout = FALSE] EXCEPT !.startRecovered = TRUE] \in Registers
    BY <2>3 DEF Registers
  <2> QED BY <2>2, <2>4
<1>2. [l EXCEPT !.ctl.view = v, !.ctl.toView = v, !.ctl.timeout = FALSE, !.ctl.startRecovered = TRUE]
      = [l EXCEPT !.ctl = [l.ctl EXCEPT !.view = v, !.toView = v, !.timeout = FALSE,
                                        !.startRecovered = TRUE]]
  BY DEF LocalState, Registers
<1> QED BY <1>1, <1>2 DEF LocalState, resetNewViewState

\* Resetting the caches after a view change keeps the type.
LEMMA ResetCachesType ==
  ASSUME NEW l \in LocalState, NEW v \in View
  PROVE  resetCacheAfterViewChange(l, v) \in LocalState
<1> DEFINE C  == [i \in Index |-> resetCache(l.caches[i], v)]
           R  == {r \in l.ctl.recover : r[1] > v}
           l1 == [l EXCEPT !.caches = C, !.ctl.recover = R]
<1>1. C \in [Index -> Cache]
  <2>1. \A c \in Cache : resetCache(c, v) \in Cache
    BY DEF resetCache, Cache
  <2>2. \A i \in Index : l.caches[i] \in Cache
    BY LocalFields
  <2> QED BY <2>1, <2>2
<1>2. [l.ctl EXCEPT !.recover = R] \in Registers
  <2>1. R \subseteq View \X Node
    BY DEF LocalState, Registers
  <2> HIDE DEF R
  <2> QED BY <2>1 DEF LocalState, Registers
<1>3. l1 \in LocalState
  <2> HIDE DEF C, R
  <2> QED BY <1>1, <1>2 DEF LocalState
<1>4. resetCacheAfterViewChange(l, v) =
        removeInvalidViewChange(ClearNewViewState(l1), v, l.ctl.committed)
  BY DEF resetCacheAfterViewChange
<1> HIDE DEF l1
<1>5. ClearNewViewState(l1) \in LocalState
  BY <1>3, ClearType
<1> QED BY <1>4, <1>5, RemoveInvalidType

\* Reaching a new view keeps the type.
LEMMA ReachType ==
  ASSUME NEW l \in LocalState, NEW v \in View
  PROVE  reachNewView(l, v) \in LocalState
<1>1. resetNewViewState(l, v) \in LocalState
  BY ResetViewType
<1>2. resetNewViewState(l, v).ctl.view \in View
  BY <1>1, LocalFields
<1> QED BY <1>1, <1>2, ResetCachesType DEF reachNewView

NewViewMsg ==
  [type : {"NewView"}, from : Node, view : View, index : 0 .. MaxIndex,
   viewChanges : SUBSET ViewChangeMsg, prePrepares : SUBSET NewProposal]

\* Entering a new view and taking up its proposals keeps the type.
LEMMA ReHandleType ==
  ASSUME NEW l \in LocalState, NEW m \in NewViewMsg
  PROVE  reHandlePrePrepareProposals(l, m) \in LocalState
<1> DEFINE l1     == reachNewView(l, m.view)
           verify == {p \in m.prePrepares : HoldsProposal(l1, p) /\ AcceptProposal(l1, p, TRUE)}
           fetch  == {p \in m.prePrepares : ~HoldsProposal(l1, p)}
           P == l1.pending \cup {PendingOf(p, "verify", TRUE) : p \in verify}
                           \cup {PendingOf(p, "fetch", TRUE) : p \in fetch}
           I == {l.ctl.committed} \cup {p.index : p \in m.prePrepares}
           w == IF m.prePrepares = {} THEN l1.ctl.waitReseal ELSE Highest(I)
<1>1. l1 \in LocalState
  BY ReachType DEF NewViewMsg
<1>2. m.prePrepares \subseteq NewProposal
  BY DEF NewViewMsg
<1>3. P \subseteq Pending
  <2>1. \A p \in NewProposal : /\ PendingOf(p, "verify", TRUE) \in Pending
                               /\ PendingOf(p, "fetch", TRUE) \in Pending
    BY DEF NewProposal, Pending, PendingOf
  <2>2. l1.pending \subseteq Pending
    BY <1>1, LocalFields
  <2>3. verify \subseteq NewProposal /\ fetch \subseteq NewProposal
    BY <1>2
  <2> HIDE DEF l1, verify, fetch
  <2> QED BY <2>1, <2>2, <2>3
<1>4. w \in 0 .. MaxIndex
  <2>1. I \in SUBSET (0 .. MaxIndex)
    BY <1>2, LocalFields, BoundAssumption DEF NewProposal, Index
  <2>2. I # {} /\ 0 \in Int /\ MaxIndex \in Int
    BY BoundAssumption
  <2>3. l1.ctl.waitReseal \in 0 .. MaxIndex
    BY <1>1 DEF LocalState, Registers
  <2> HIDE DEF I, l1
  <2>4. Highest(I) \in 0 .. MaxIndex
    BY <2>1, <2>2, HighestIn
  <2> QED BY <2>3, <2>4
<1>5. reHandlePrePrepareProposals(l, m) = [l1 EXCEPT !.pending = P, !.ctl.waitReseal = w]
  BY DEF reHandlePrePrepareProposals
<1> HIDE DEF l1, P, w
<1>6. [l1.ctl EXCEPT !.waitReseal = w] \in Registers
  BY <1>1, <1>4 DEF LocalState, Registers
<1> QED BY <1>1, <1>3, <1>5, <1>6 DEF LocalState

\* The NewView message a leader generates is one.
LEMMA NewViewType ==
  ASSUME NEW n \in Node, NEW l \in LocalState
  PROVE  newViewMsg(n, l) \in NewViewMsg
<1> DEFINE v == l.ctl.toView
           S == ViewChangesFor(l, v)
<1>1. v \in View /\ S \subseteq ViewChangeMsg
  BY LocalFields DEF ViewChangesFor
<1>2. Candidates(S) \subseteq Prepared
  <2> SUFFICES ASSUME NEW x \in Candidates(S) PROVE x \in Prepared
    OBVIOUS
  <2>1. PICK m \in S : x \in UNION {{p, [p EXCEPT !.from = m.from]} : p \in m.prepared}
    BY Zenon DEF Candidates
  <2>2. PICK p \in m.prepared : x \in {p, [p EXCEPT !.from = m.from]}
    BY <2>1, Zenon
  <2>3. m \in ViewChangeMsg
    BY <1>1
  <2>4. p \in Prepared /\ m.from \in Node
    BY <2>3 DEF ViewChangeMsg
  <2> QED BY <2>2, <2>4 DEF Prepared
<1>3. generatePrePrepareMsg(n, l) \subseteq NewProposal
  <2> SUFFICES ASSUME NEW x \in generatePrePrepareMsg(n, l) PROVE x \in NewProposal
    OBVIOUS
  <2>1. \/ \E p \in Candidates(S) :
             x = [index |-> p.index, view |-> v, hash |-> p.hash, from |-> p.from, data |-> FALSE]
        \/ \E i \in Index :
             x = [index |-> i, view |-> v, hash |-> EmptyProposal(n), from |-> n, data |-> TRUE]
    BY DEF generatePrePrepareMsg
  <2>2. EmptyProposal(n) \in Hash
    BY CacheAssumption DEF EmptyProposal, Hash
  <2>3. ASSUME NEW p \in Candidates(S),
             x = [index |-> p.index, view |-> v, hash |-> p.hash, from |-> p.from, data |-> FALSE]
        PROVE x \in NewProposal
    <3>1. p \in Prepared
      BY <1>2
    <3> QED BY <2>3, <3>1, <1>1 DEF NewProposal, Prepared
  <2>4. ASSUME NEW i \in Index,
             x = [index |-> i, view |-> v, hash |-> EmptyProposal(n), from |-> n, data |-> TRUE]
        PROVE x \in NewProposal
    BY <2>2, <2>4, <1>1 DEF NewProposal
  <2> QED BY <2>1, <2>3, <2>4
<1> QED BY <1>1, <1>3, LocalFields DEF newViewMsg, NewViewMsg

\* Generating a NewView keeps the type.
LEMMA IntoNewViewType ==
  ASSUME NEW n \in Node, NEW l \in LocalState
  PROVE  checkAndTryIntoNewView(n, l) \in LocalState
<1> DEFINE m  == newViewMsg(n, l)
           l1 == [l EXCEPT !.out = @ \cup {m}, !.ctl.newViewGenerated = TRUE]
<1>1. m \in NewViewMsg
  BY NewViewType
<1>2. m \in Message
  BY <1>1 DEF Message, NewViewMsg
<1>3. l1 \in LocalState
  <2>1. [l.ctl EXCEPT !.newViewGenerated = TRUE] \in Registers
    BY DEF LocalState, Registers
  <2> HIDE DEF m
  <2> QED BY <1>2, <2>1 DEF LocalState
<1>4. checkAndTryIntoNewView(n, l) \in {l, reHandlePrePrepareProposals(l1, m)}
  BY DEF checkAndTryIntoNewView
<1> HIDE DEF l1, m
<1> QED BY <1>1, <1>3, <1>4, ReHandleType

\* Sending a view change, and what follows from it, keeps the type.
LEMMA SendViewChangeType ==
  ASSUME NEW n \in Node, NEW l \in LocalState, NEW dest \in SUBSET Node
  PROVE  SendViewChange(n, l, dest) \in LocalState
<1> DEFINE m  == generateViewChange(n, l, dest)
           l1 == [l EXCEPT !.out = @ \cup {m}]
<1>1. m \in ViewChangeMsg /\ m \in Message
  BY GenerateType
<1>2. l1 \in LocalState
  <2> HIDE DEF m
  <2> QED BY <1>1 DEF LocalState
<1>3. SendViewChange(n, l, dest) = checkAndTryIntoNewView(n, addViewChangeReq(l1, m))
  BY DEF SendViewChange
<1> HIDE DEF l1, m
<1>4. addViewChangeReq(l1, m) \in LocalState
  BY <1>1, <1>2, AddViewChangeType
<1> QED BY <1>3, <1>4, IntoNewViewType

\* A timeout below the bound on views keeps the type.
LEMMA TimeoutType ==
  ASSUME NEW n \in Node, NEW l \in LocalState, NEW v \in View, v < MaxView
  PROVE  triggerTimeout(n, [l EXCEPT !.ctl.toView = v]) \in LocalState
<1> DEFINE l0 == [l EXCEPT !.ctl.toView = v]
           l1 == [l0 EXCEPT !.ctl.timeout = TRUE, !.ctl.toView = @ + 1]
           l2 == removeInvalidViewChange(l1, l0.ctl.view, l0.ctl.committed)
<1>1. v + 1 \in View
  BY CacheAssumption DEF View
<1>2. l1 \in LocalState
  <2>1. l1 = [l EXCEPT !.ctl = [l.ctl EXCEPT !.timeout = TRUE, !.toView = v + 1]]
    BY DEF LocalState, Registers
  <2>2. [l.ctl EXCEPT !.timeout = TRUE, !.toView = v + 1] \in Registers
    BY <1>1 DEF LocalState, Registers
  <2> QED BY <2>1, <2>2 DEF LocalState
<1>3. l2 \in LocalState
  <2> HIDE DEF l1, l0
  <2> QED BY <1>2, RemoveInvalidType
<1>4. triggerTimeout(n, l0) = SendViewChange(n, l2, Node \ {n})
  BY DEF triggerTimeout
<1>5. Node \ {n} \in SUBSET Node
  OBVIOUS
<1> HIDE DEF l0, l2
<1>6. SendViewChange(n, l2, Node \ {n}) \in LocalState
  BY <1>3, <1>5, SendViewChangeType
<1> QED BY <1>4, <1>6 DEF l0

\* The answer to a node that falls behind keeps the type.
LEMMA ReplyType ==
  ASSUME NEW n \in Node, NEW l \in LocalState, NEW m, NEW sender \in Node
  PROVE  ReplyFallingBehind(n, l, m, sender) \in LocalState
<1> DEFINE x == [type |-> "RecoverResponse", from |-> n, to |-> {sender}, view |-> l.ctl.view]
           l1 == [l EXCEPT !.out = @ \cup {x}]
<1>1. x \in Message
  BY LocalFields DEF Message
<1>2. l1 \in LocalState
  <2> HIDE DEF x
  <2> QED BY <1>1 DEF LocalState
<1>3. SendViewChange(n, l, {sender}) \in LocalState
  BY SendViewChangeType
<1>4. ReplyFallingBehind(n, l, m, sender) \in {l, SendViewChange(n, l, {sender}), l1}
  BY DEF ReplyFallingBehind
<1> QED BY <1>2, <1>3, <1>4

\* A node joins the view change of others for the lowest view they ask for.
LEMMA FastTarget ==
  ASSUME NEW n \in Node, NEW l \in LocalState, NEW m
  PROVE  \/ FastViewChange(n, l, m) = l
         \/ \E v \in View : /\ v < MaxView
                            /\ FastViewChange(n, l, m) = triggerTimeout(n, [l EXCEPT !.ctl.toView = v])
<1> DEFINE S == {x \in l.ctl.viewChanges : x.view > l.ctl.toView}
           T == {x.view : x \in S}
           v == Lowest(T) - 1
<1>1. ASSUME tryToTriggerFastViewChange(l)
      PROVE  v \in View /\ v < MaxView
  <2>1. S # {}
    BY <1>1 DEF tryToTriggerFastViewChange
  <2>2. T \in SUBSET (0 .. MaxView) /\ T # {}
    BY <2>1, LocalFields DEF ViewChangeMsg, View
  <2>3. Lowest(T) \in T
    <3> HIDE DEF T
    <3>1. 0 \in Int /\ MaxView \in Int
      BY CacheAssumption
    <3> QED BY <2>2, <3>1, LowestIn
  <2>4. PICK x \in S : Lowest(T) = x.view
    BY <2>3
  <2>5. x.view \in View /\ x.view > l.ctl.toView /\ l.ctl.toView \in View
    BY LocalFields DEF ViewChangeMsg
  <2> QED BY <2>4, <2>5, CacheAssumption DEF View
<1>2. FastViewChange(n, l, m) = l
      \/ /\ tryToTriggerFastViewChange(l)
         /\ FastViewChange(n, l, m) = triggerTimeout(n, [l EXCEPT !.ctl.toView = v])
  BY DEF FastViewChange
<1> HIDE DEF v
<1> QED BY <1>1, <1>2

\* Joining the view change of others keeps the type.
LEMMA FastType ==
  ASSUME NEW n \in Node, NEW l \in LocalState, NEW m
  PROVE  FastViewChange(n, l, m) \in LocalState
<1>1. CASE FastViewChange(n, l, m) = l
  BY <1>1
<1>2. ASSUME NEW v \in View, v < MaxView,
             FastViewChange(n, l, m) = triggerTimeout(n, [l EXCEPT !.ctl.toView = v])
      PROVE  FastViewChange(n, l, m) \in LocalState
  BY <1>2, TimeoutType
<1> QED BY <1>1, <1>2, FastTarget

\* Handling a view change keeps the type.
LEMMA HandleViewChangeType ==
  ASSUME NEW n \in Node, NEW l \in LocalState, NEW m \in ViewChangeMsg
  PROVE  handleViewChangeMsg(n, l, m) \in LocalState
<1> DEFINE l1 == ReplyFallingBehind(n, l, m, m.from)
           l2 == addViewChangeReq(l1, m)
           l3 == FastViewChange(n, l2, m)
<1>1. m.from \in Node
  BY DEF ViewChangeMsg
<1>2. l1 \in LocalState
  BY <1>1, ReplyType
<1>3. l2 \in LocalState
  <2> HIDE DEF l1
  <2> QED BY <1>2, AddViewChangeType
<1>4. l3 \in LocalState
  <2> HIDE DEF l2
  <2> QED BY <1>3, FastType
<1>5. handleViewChangeMsg(n, l, m) \in {l, l1, checkAndTryIntoNewView(n, l3)}
  BY DEF handleViewChangeMsg
<1> HIDE DEF l1, l3
<1> QED BY <1>2, <1>4, <1>5, IntoNewViewType

\* Handling a NewView keeps the type.
LEMMA HandleNewViewType ==
  ASSUME NEW n \in Node, NEW l \in LocalState, NEW m \in NewViewMsg
  PROVE  handleNewViewMsg(n, l, m) \in LocalState
<1> DEFINE x  == FirstViewChange(m)
           l1 == IF x.committed < l.ctl.committed THEN l ELSE ReplyFallingBehind(n, l, x, m.from)
<1>1. m.from \in Node
  BY DEF NewViewMsg
<1>2. l1 \in LocalState
  <2> HIDE DEF x
  <2> QED BY <1>1, ReplyType
<1>3. handleNewViewMsg(n, l, m) \in {l, l1, reHandlePrePrepareProposals(l1, m)}
  BY DEF handleNewViewMsg
<1> HIDE DEF l1
<1> QED BY <1>2, <1>3, ReHandleType

\* Recovering the view from the answers of a quorum keeps the type.
LEMMA RecoverType ==
  ASSUME NEW l \in LocalState
  PROVE  checkAndTryToRecover(l) \in LocalState
<1> DEFINE R == {v \in View : v > 0 /\ IsQuorum({r[2] : r \in {x \in l.ctl.recover : x[1] = v}})}
           v == Highest(R)
           l1 == resetNewViewState(l, v)
           l2 == resetCacheAfterViewChange(l1, v)
<1>1. ASSUME R # {} PROVE v \in View
  <2>1. R \in SUBSET (0 .. MaxView)
    BY DEF View
  <2> HIDE DEF R
  <2>2. 0 \in Int /\ MaxView \in Int
    BY CacheAssumption
  <2>3. v \in R
    BY <1>1, <2>1, <2>2, HighestIn
  <2> QED BY <2>1, <2>3 DEF View
<1>2. ASSUME R # {} PROVE l2 \in LocalState
  <2> HIDE DEF v
  <2>1. l1 \in LocalState
    BY <1>1, <1>2, ResetViewType
  <2> HIDE DEF l1
  <2> QED BY <1>1, <1>2, <2>1, ResetCachesType
<1>3. ASSUME R # {} PROVE [l2 EXCEPT !.ctl.recover = {}] \in LocalState
  <2> HIDE DEF l2, R
  <2>0. l2 \in LocalState
    BY <1>2, <1>3
  <2>1. [l2.ctl EXCEPT !.recover = {}] \in Registers
    BY <2>0 DEF LocalState, Registers
  <2> QED BY <2>0, <2>1 DEF LocalState
<1>4. checkAndTryToRecover(l) = IF R = {} THEN l ELSE [l2 EXCEPT !.ctl.recover = {}]
  BY DEF checkAndTryToRecover
<1> HIDE DEF R, l2
<1> QED BY <1>3, <1>4

-----------------------------------------------------------------------------
(* Commit to the ledger *)

\* Moving the registers to a committed number keeps the type.
LEMMA ResetConfigType ==
  ASSUME NEW l \in LocalState, NEW k \in Index
  PROVE  resetConfig(l, k) \in LocalState
<1> DEFINE e == Highest({l.ctl.expected, k + 1})
           w == Highest({l.ctl.low, k + 1})
           t == l.ctl.syncing > k
           r == [l.ctl EXCEPT !.committed = k, !.expected = e, !.low = w, !.timeout = t]
<1>1. 1 \in Int /\ MaxIndex + 1 \in Int /\ k \in 0 .. MaxIndex /\ k + 1 \in 1 .. MaxIndex + 1
  BY BoundAssumption DEF Index
<1>2. e \in 1 .. MaxIndex + 1 /\ w \in 1 .. MaxIndex + 1
  <2>1. /\ {l.ctl.expected, k + 1} \in SUBSET (1 .. MaxIndex + 1)
        /\ {l.ctl.low, k + 1} \in SUBSET (1 .. MaxIndex + 1)
    BY <1>1, LocalFields
  <2> QED BY <1>1, <2>1, HighestIn
<1>3. t \in BOOLEAN
  OBVIOUS
<1>4. resetConfig(l, k) = [l EXCEPT !.ctl = r]
  BY DEF resetConfig, LocalState, Registers
<1>5. r \in Registers
  <2> HIDE DEF e, w, t
  <2>1. [l.ctl EXCEPT !.committed = k, !.expected = e, !.low = w] \in Registers
    BY <1>1, <1>2 DEF LocalState, Registers
  <2>2. [[l.ctl EXCEPT !.committed = k, !.expected = e, !.low = w] EXCEPT !.timeout = t] \in Registers
    BY <1>3, <2>1 DEF Registers
  <2> QED BY <2>2
<1> HIDE DEF r
<1> QED BY <1>4, <1>5 DEF LocalState

\* Dropping the caches of committed numbers keeps the type.
LEMMA RemoveConsensusedType ==
  ASSUME NEW l \in LocalState, NEW k
  PROVE  removeConsensusedCache(l, k) \in LocalState
<1> DEFINE C == [i \in Index |-> IF i <= k \/ l.caches[i].stable THEN EmptyCache ELSE l.caches[i]]
           l1 == [l EXCEPT !.caches = C]
           l2 == removeInvalidViewChange(l1, l.ctl.view, k)
<1>1. C \in [Index -> Cache]
  BY EmptyCacheType, LocalFields
<1>2. l1 \in LocalState
  <2> HIDE DEF C
  <2> QED BY <1>1 DEF LocalState
<1>3. l2 \in LocalState
  <2> HIDE DEF l1
  <2> QED BY <1>2, RemoveInvalidType
<1>4. removeConsensusedCache(l, k) = ClearNewViewState(l2)
  BY DEF removeConsensusedCache
<1> HIDE DEF l2
<1> QED BY <1>3, <1>4, ClearType

\* Restricting the queue of stable proposals keeps the type.
LEMMA StableQueueType ==
  ASSUME NEW l \in LocalState, NEW S \in SUBSET Index
  PROVE  [l EXCEPT !.ctl.stableQueue = S] \in LocalState
<1>1. [l.ctl EXCEPT !.stableQueue = S] \in Registers
  BY DEF LocalState, Registers
<1> QED BY <1>1 DEF LocalState

\* Dropping the executed proposals after a synchronised block keeps the type.
LEMMA RemoveFutureType ==
  ASSUME NEW l \in LocalState
  PROVE  removeFutureProposals(l) \in LocalState
<1> DEFINE C == [i \in Index |-> IF l.caches[i].checkpoint # NoHash THEN EmptyCache ELSE l.caches[i]]
           S == l.ctl.stableQueue \cap {l.ctl.committed + 1}
           r == [l.ctl EXCEPT !.expected = l.ctl.committed + 1, !.queue = {}, !.stableQueue = S]
<1>1. C \in [Index -> Cache]
  BY EmptyCacheType, LocalFields
<1>2. S \subseteq Index
  BY DEF LocalState, Registers
<1>3. l.ctl.committed + 1 \in 1 .. MaxIndex + 1
  BY BoundAssumption, LocalFields
<1>4. removeFutureProposals(l) = [l EXCEPT !.ctl = r, !.caches = C]
  BY DEF removeFutureProposals, LocalState, Registers
<1>5. r \in Registers
  <2> HIDE DEF S
  <2> QED BY <1>2, <1>3 DEF LocalState, Registers
<1> HIDE DEF C, r
<1> QED BY <1>1, <1>4, <1>5 DEF LocalState

\* Finalizing the consensus of a number keeps the type.
LEMMA FinalizeType ==
  ASSUME NEW l \in LocalState, NEW k \in Index, NEW synced \in BOOLEAN
  PROVE  finalizeConsensus(l, k, synced) \in LocalState
<1> DEFINE l0 == resetConfig(l, k)
           l1 == tryToApplyCommitQueue(l0)
           l2 == removeConsensusedCache(l1, k)
           S  == {i \in l2.ctl.stableQueue : i > k}
           l3 == [l2 EXCEPT !.ctl.stableQueue = S]
<1>1. l0 \in LocalState
  BY ResetConfigType
<1>2. l1 \in LocalState
  <2> HIDE DEF l0
  <2> QED BY <1>1, ApplyType
<1>3. l2 \in LocalState
  <2> HIDE DEF l1
  <2> QED BY <1>2, RemoveConsensusedType
<1>4. l3 \in LocalState
  <2> HIDE DEF l2
  <2>1. S \subseteq Index
    BY <1>3 DEF LocalState, Registers
  <2> HIDE DEF S
  <2> QED BY <1>3, <2>1, StableQueueType
<1>5. finalizeConsensus(l, k, synced) \in {l3, removeFutureProposals(l3)}
  BY DEF finalizeConsensus
<1> HIDE DEF l3
<1> QED BY <1>4, <1>5, RemoveFutureType

\* The end of an execution keeps the type.
LEMMA ApplySuccessType ==
  ASSUME NEW n \in Node, NEW l \in LocalState, NEW e \in Index \X Hash
  PROVE  onProposalApplySuccess(n, l, e) \in LocalState
<1> DEFINE x == [type |-> "CheckPoint", from |-> n, index |-> e[1], hash |-> e[2]]
           c == setCheckPointProposal(l.caches[e[1]], e[1], l.ctl.committed, e[2])
           k == Highest({l.ctl.committed, e[1]})
           l1 == [l EXCEPT !.out = @ \cup {x}, !.caches[e[1]] = c, !.ctl.expected = k + 1]
           l2 == tryToApplyCommitQueue(l1)
<1>0. l.ctl.committed \in 0 .. MaxIndex
  BY LocalFields DEF Registers
<1>1. e[1] \in Index /\ e[2] \in Hash /\ k + 1 \in 1 .. MaxIndex + 1
  <2>1. e[1] \in Index /\ e[2] \in Hash
    OBVIOUS
  <2>2. k \in {l.ctl.committed, e[1]}
    <3>1. l.ctl.committed \in Int /\ e[1] \in Int
      BY <1>0, <2>1, BoundAssumption DEF Index
    <3> QED BY <3>1, HighestPair
  <2> HIDE DEF k
  <2> QED BY <1>0, <2>1, <2>2, BoundAssumption DEF Index
<1>2. x \in Message
  BY <1>1 DEF Message
<1>3. c \in Cache
  <2>1. l.caches[e[1]] \in Cache
    BY <1>1, LocalFields
  <2> QED BY <1>1, <2>1 DEF setCheckPointProposal, Cache
<1>4. l1 \in LocalState
  <2> HIDE DEF x, c, k
  <2>1. [l.ctl EXCEPT !.expected = k + 1] \in Registers
    BY <1>1 DEF LocalState, Registers
  <2> QED BY <1>1, <1>2, <1>3, <2>1 DEF LocalState
<1>5. l2 \in LocalState
  <2> HIDE DEF l1
  <2> QED BY <1>4, ApplyType
<1>6. onProposalApplySuccess(n, l, e) = [l2 EXCEPT !.ctl.executing = @ \ {e}]
  BY DEF onProposalApplySuccess
<1> HIDE DEF l2
<1>7. [l2.ctl EXCEPT !.executing = @ \ {e}] \in Registers
  BY <1>5 DEF LocalState, Registers
<1> QED BY <1>5, <1>6, <1>7 DEF LocalState

-----------------------------------------------------------------------------
(* Steps *)

\* A handler starts from a local state.
LEMMA LocalType ==
  ASSUME TypeOK, NEW n \in Node
  PROVE  Local(n) \in LocalState
  BY DEF TypeOK, Local, LocalState

\* A node that moves to a local state keeps the type of the global state.
LEMMA StepType ==
  ASSUME TypeOK, NEW n \in Node, NEW l \in LocalState, Step(n, l),
         taken' \in [Node -> SUBSET Message], restarts' \in 0 .. MaxRestart
  PROVE  TypeOK'
<1>1. /\ l.ctl \in Registers /\ l.caches \in [Index -> Cache] /\ l.pending \subseteq Pending
      /\ l.out \subseteq Message /\ l.done \subseteq Index \X Hash
  BY LocalFields
<1>2. ctl' \in [Node -> Registers] /\ caches' \in [Node -> [Index -> Cache]]
  BY <1>1 DEF TypeOK, Step
<1>3. pending' \in [Node -> SUBSET Pending] /\ msgs' \subseteq Message
  BY <1>1 DEF TypeOK, Step
<1>4. ordered' \subseteq Node \X Index \X Hash
  <2>1. \A e \in l.done : <<n, e[1], e[2]>> \in Node \X Index \X Hash
    BY <1>1
  <2> QED BY <2>1 DEF TypeOK, Step
<1>5. forgotten' \subseteq Node \X Index
  BY DEF TypeOK, Step, Forgets
<1> QED BY <1>2, <1>3, <1>4, <1>5 DEF TypeOK

\* The same for a step that is not a restart.
LEMMA RunType ==
  ASSUME TypeOK, NEW n \in Node, NEW l \in LocalState, Run(n, l)
  PROVE  TypeOK'
  BY StepType DEF Run, TypeOK

\* The same for a step that ends the wait of a message.
LEMMA HandledType ==
  ASSUME TypeOK, NEW n \in Node, NEW m, NEW l \in LocalState, Handled(n, m, l)
  PROVE  TypeOK'
<1>1. taken' \in [Node -> SUBSET Message] /\ restarts' \in 0 .. MaxRestart
  BY DEF Handled, TypeOK
<1> QED BY <1>1, StepType DEF Handled

\* What a message of each type carries.
LEMMA MessageFields ==
  ASSUME NEW m \in Message
  PROVE  /\ m.type \in {"PrePrepare", "Prepare", "Commit"} => Carries(m)
         /\ m.type = "ViewChange" => m \in ViewChangeMsg
         /\ m.type = "NewView" => m \in NewViewMsg
         /\ m.type = "RecoverResponse" => m.from \in Node /\ m.view \in View
         /\ m.type = "CheckPoint" => m.from \in Node /\ m.index \in Index /\ m.hash \in Hash
  BY DEF Message, Carries, ViewChangeMsg, NewViewMsg

\* Removing a pending proposal, or adding one, keeps the type.
LEMMA PendingType ==
  ASSUME NEW l \in LocalState, NEW P \in SUBSET Pending
  PROVE  [l EXCEPT !.pending = P] \in LocalState
  BY DEF LocalState

\* A sealed block is a pre-prepare.
LEMMA SealedType ==
  ASSUME NEW n \in Node, NEW i \in Index, NEW v \in View, NEW s \in 1 .. MaxSeal
  PROVE  Sealed(n, i, v, s) \in Message /\ Carries(Sealed(n, i, v, s))
<1>1. <<n, s>> \in Hash
  BY CacheAssumption DEF Hash
<1> QED BY <1>1 DEF Sealed, ConsensusMsg, Message, Carries

\* A thread of n starts to wait for m_mutex with a message, or drops the message.
Waits(n) ==
  \/ \E m \in msgs : Take(n, m)
  \/ \E i \in Index, v \in View, s \in 1 .. MaxSeal : TakeSealed(n, i, v, s)
  \/ \E m \in taken[n] : Refuse(n, m)

\* A wait changes nothing else, and keeps the type.
LEMMA WaitsType ==
  ASSUME TypeOK, NEW n \in Node, Waits(n)
  PROVE  /\ UNCHANGED <<ctl, caches, pending, msgs, ordered, forgotten, restarts>>
         /\ TypeOK'
<1> DEFINE Becomes(M) == /\ taken' = [taken EXCEPT ![n] = M]
                         /\ UNCHANGED <<ctl, caches, pending, msgs, ordered, forgotten, restarts>>
<1>1. PICK M \in SUBSET Message : Becomes(M)
  <2>1. ASSUME NEW m \in msgs, Take(n, m) PROVE \E M \in SUBSET Message : Becomes(M)
    <3>1. m \in Message /\ taken[n] \in SUBSET Message
      BY DEF TypeOK
    <3>2. taken[n] \cup {m} \in SUBSET Message
      BY <3>1
    <3>3. Becomes(taken[n] \cup {m})
      BY <2>1 DEF Take, Wait
    <3> HIDE DEF Becomes
    <3> QED BY <3>2, <3>3
  <2>2. ASSUME NEW i \in Index, NEW v \in View, NEW s \in 1 .. MaxSeal, TakeSealed(n, i, v, s)
        PROVE  \E M \in SUBSET Message : Becomes(M)
    <3>1. Sealed(n, i, v, s) \in Message /\ taken[n] \in SUBSET Message
      BY SealedType DEF TypeOK
    <3>2. taken[n] \cup {Sealed(n, i, v, s)} \in SUBSET Message
      BY <3>1
    <3>3. Becomes(taken[n] \cup {Sealed(n, i, v, s)})
      BY <2>2 DEF TakeSealed, Wait
    <3> HIDE DEF Becomes
    <3> QED BY <3>2, <3>3
  <2>3. ASSUME NEW m \in taken[n], Refuse(n, m) PROVE \E M \in SUBSET Message : Becomes(M)
    <3>1. taken[n] \ {m} \in SUBSET Message
      BY DEF TypeOK
    <3>2. Becomes(taken[n] \ {m})
      BY <2>3 DEF Refuse
    <3> HIDE DEF Becomes
    <3> QED BY <3>1, <3>2
  <2> HIDE DEF Becomes
  <2> QED BY <2>1, <2>2, <2>3 DEF Waits
<1> QED BY <1>1 DEF TypeOK

\* A proposal of the own sealer keeps the type.
LEMMA SubmitProposalType ==
  ASSUME TypeOK, NEW n \in Node, NEW i \in Index, NEW v \in View, NEW s \in 1 .. MaxSeal,
         SubmitProposal(n, i, v, s)
  PROVE  TypeOK'
<1> DEFINE m == Sealed(n, i, v, s)
           l == [Local(n) EXCEPT !.out = {m}]
<1>1. Local(n) \in LocalState
  BY LocalType
<1>3. m \in Message /\ Carries(m)
  BY SealedType
<1>4. l \in LocalState
  <2> HIDE DEF m
  <2> QED BY <1>1, <1>3 DEF LocalState
<1>5. Handled(n, m, AddProposal(n, l, m))
  BY DEF SubmitProposal
<1> HIDE DEF l, m
<1> QED BY <1>3, <1>4, <1>5, AddProposalType, HandledType

\* Receiving a pre-prepare keeps the type.
LEMMA HandlePrePrepareType ==
  ASSUME TypeOK, NEW n \in Node, NEW m \in msgs, HandlePrePrepare(n, m)
  PROVE  TypeOK'
<1> DEFINE P == Local(n).pending \cup {PendingOf(m, "verify", FALSE)}
<1>1. Carries(m)
  BY MessageFields DEF HandlePrePrepare, TypeOK
<1>2. PendingOf(m, "verify", FALSE) \in Pending
  BY <1>1 DEF Carries, PendingOf, Pending
<1>3. Local(n) \in LocalState /\ P \in SUBSET Pending
  BY <1>2, LocalType, LocalFields
<1>4. Handled(n, m, [Local(n) EXCEPT !.pending = P])
  BY DEF HandlePrePrepare
<1> HIDE DEF P
<1> QED BY <1>3, <1>4, PendingType, HandledType

\* The answers of the validator and of the holder of a proposal keep the type.
LEMMA VerifyType ==
  ASSUME TypeOK, NEW n \in Node, NEW p \in pending[n],
         VerifySucceeds(n, p) \/ VerifyFails(n, p) \/ PrecommitResponse(n, p)
  PROVE  TypeOK'
<1> DEFINE P == Local(n).pending \ {p}
           l == [Local(n) EXCEPT !.pending = P]
           q == [p EXCEPT !.stage = "verify"]
<1>1. p \in Pending /\ Carries(p)
  BY DEF TypeOK, Pending, Carries
<1>2. Local(n) \in LocalState /\ P \in SUBSET Pending
  BY LocalType, LocalFields
<1>3. l \in LocalState
  <2> HIDE DEF P
  <2> QED BY <1>2, PendingType
<1>4. CASE VerifySucceeds(n, p)
  <2>1. Run(n, l) \/ Run(n, AddProposal(n, l, p))
    BY <1>4 DEF VerifySucceeds
  <2> HIDE DEF l
  <2> QED BY <1>1, <1>3, <2>1, AddProposalType, RunType
<1>5. CASE VerifyFails(n, p)
  BY <1>3, <1>5, RunType DEF VerifyFails
<1>6. CASE PrecommitResponse(n, p)
  <2>1. Run(n, l) \/ Run(n, [l EXCEPT !.pending = @ \cup {q}])
    BY <1>6 DEF PrecommitResponse
  <2>2. q \in Pending
    BY <1>1 DEF Pending
  <2>3. l.pending \cup {q} \in SUBSET Pending
    BY <1>3, <2>2, LocalFields
  <2> HIDE DEF l, q
  <2>4. [l EXCEPT !.pending = @ \cup {q}] \in LocalState
    BY <1>3, <2>3, PendingType
  <2> QED BY <1>3, <2>1, <2>4, RunType
<1> QED BY <1>4, <1>5, <1>6

\* Prepare and commit messages keep the type.
LEMMA HandleVoteType ==
  ASSUME TypeOK, NEW n \in Node, NEW m \in msgs, HandlePrepare(n, m) \/ HandleCommit(n, m)
  PROVE  TypeOK'
<1> DEFINE l == Local(n)
           c == addPrepareCache(l.caches[m.index], VoteOf(m))
           d == addCommitCache(l.caches[m.index], VoteOf(m))
           lp == [l EXCEPT !.caches[m.index] = c]
           lc == [l EXCEPT !.caches[m.index] = d]
<1>1. Carries(m)
  BY MessageFields DEF HandlePrepare, HandleCommit, TypeOK
<1>2. VoteOf(m) \in Vote
  BY <1>1 DEF Carries, VoteOf, Vote
<1>3. l \in LocalState
  BY LocalType
<1>4. l.caches[m.index] \in Cache
  BY <1>1, <1>3, LocalFields DEF Carries
<1>5. c \in Cache /\ d \in Cache
  <2> HIDE DEF l
  <2>1. addCache(l.caches[m.index].prepares, VoteOf(m)) \in SUBSET Vote
    BY <1>2, <1>4 DEF addCache, Cache
  <2>2. addCache(l.caches[m.index].commits, VoteOf(m)) \in SUBSET Vote
    BY <1>2, <1>4 DEF addCache, Cache
  <2> QED BY <1>4, <2>1, <2>2 DEF addPrepareCache, addCommitCache, Cache
<1>6. lp \in LocalState /\ lc \in LocalState
  <2> HIDE DEF c, d, l
  <2> QED BY <1>1, <1>3, <1>5 DEF Carries, LocalState
<1>7. Handled(n, m, PreCommitAll(n, lp)) \/ Handled(n, m, CommitAll(lc))
  BY DEF HandlePrepare, HandleCommit
<1> HIDE DEF lp, lc
<1> QED BY <1>6, <1>7, PreCommitType, CommitType, HandledType

\* A timeout keeps the type.
LEMMA OnTimeoutType ==
  ASSUME TypeOK, NEW n \in Node, OnTimeout(n)
  PROVE  TypeOK'
<1> DEFINE l == tryToApplyCommitQueue(Local(n))
           busy == {e \in l.ctl.executing : e[1] > l.ctl.committed}
           idle == [l EXCEPT !.ctl.executing = busy]
<1>1. Local(n) \in LocalState /\ l \in LocalState
  BY LocalType, ApplyType
<1>2. Run(n, l) \/ Run(n, idle) \/ Run(n, triggerTimeout(n, idle))
  BY DEF OnTimeout
<1>3. idle \in LocalState
  <2> HIDE DEF l
  <2>1. busy \subseteq Index \X Hash
    BY <1>1, LocalFields
  <2> HIDE DEF busy
  <2>2. [l.ctl EXCEPT !.executing = busy] \in Registers
    BY <1>1, <2>1 DEF LocalState, Registers
  <2> QED BY <1>1, <2>2 DEF LocalState
<1>4. idle.ctl.toView = ctl[n].toView
  <2>1. l.ctl.toView = Local(n).ctl.toView
    BY <1>1 DEF tryToApplyCommitQueue, LocalState, Registers
  <2>2. Local(n).ctl = ctl[n]
    BY DEF Local
  <2> HIDE DEF l, busy
  <2>3. idle.ctl.toView = l.ctl.toView
    BY <1>1 DEF LocalState, Registers
  <2> QED BY <2>1, <2>2, <2>3
<1>5. ctl[n].toView < MaxView /\ ctl[n].toView \in View
  BY DEF OnTimeout, TypeOK, Registers
<1> HIDE DEF l, idle
<1>6. [idle EXCEPT !.ctl.toView = ctl[n].toView] = idle
  BY <1>3, <1>4 DEF LocalState, Registers
<1>7. triggerTimeout(n, idle) \in LocalState
  BY <1>3, <1>5, <1>6, TimeoutType
<1> QED BY <1>1, <1>2, <1>3, <1>7, RunType

\* View changes, new views and recover responses keep the type.
LEMMA HandleViewType ==
  ASSUME TypeOK, NEW n \in Node, NEW m \in msgs,
         HandleViewChange(n, m) \/ HandleNewView(n, m) \/ HandleRecoverResponse(n, m)
  PROVE  TypeOK'
<1> DEFINE l == Local(n)
           R == l.ctl.recover \cup {<<m.view, m.from>>}
           l1 == [l EXCEPT !.ctl.recover = R]
<1>1. l \in LocalState /\ m \in Message
  BY LocalType DEF TypeOK
<1>2. CASE HandleViewChange(n, m)
  <2>1. m \in ViewChangeMsg
    BY <1>1, <1>2, MessageFields DEF HandleViewChange
  <2>2. Handled(n, m, handleViewChangeMsg(n, l, m))
    BY <1>2 DEF HandleViewChange
  <2> HIDE DEF l
  <2> QED BY <1>1, <2>1, <2>2, HandleViewChangeType, HandledType
<1>3. CASE HandleNewView(n, m)
  <2>1. m \in NewViewMsg
    BY <1>1, <1>3, MessageFields DEF HandleNewView
  <2>2. Handled(n, m, handleNewViewMsg(n, l, m))
    BY <1>3 DEF HandleNewView
  <2> HIDE DEF l
  <2> QED BY <1>1, <2>1, <2>2, HandleNewViewType, HandledType
<1>4. CASE HandleRecoverResponse(n, m)
  <2>1. m.from \in Node /\ m.view \in View
    BY <1>1, <1>4, MessageFields DEF HandleRecoverResponse
  <2>2. Handled(n, m, checkAndTryToRecover(l1))
    BY <1>4 DEF HandleRecoverResponse
  <2> HIDE DEF l
  <2>3. R \subseteq View \X Node
    BY <1>1, <2>1 DEF LocalState, Registers
  <2> HIDE DEF R
  <2>4. [l.ctl EXCEPT !.recover = R] \in Registers
    BY <1>1, <2>3 DEF LocalState, Registers
  <2>5. l1 \in LocalState
    BY <1>1, <2>4 DEF LocalState
  <2> HIDE DEF l1
  <2> QED BY <2>2, <2>5, RecoverType, HandledType
<1> QED BY <1>2, <1>3, <1>4

\* Execution, checkpoints, commits and synchronisation keep the type.
LEMMA LedgerType ==
  ASSUME TypeOK, NEW n \in Node,
         \/ \E e \in ctl[n].executing : ApplySuccess(n, e)
         \/ \E i \in Index : StableCheckPoint(n, i)
         \/ CommitStable(n)
         \/ \E k \in Index : SyncBlock(n, k)
         \/ \E k \in Index : NotifySyncing(n, k)
  PROVE  TypeOK'
<1> DEFINE l == Local(n)
<1>1. l \in LocalState
  BY LocalType
<1>0. l.ctl = ctl[n] /\ l.caches = caches[n]
  BY DEF Local
<1> HIDE DEF l
<1>2. ASSUME NEW e \in ctl[n].executing, ApplySuccess(n, e) PROVE TypeOK'
  <2>1. e \in Index \X Hash
    BY <1>0, <1>1, LocalFields
  <2>2. Run(n, onProposalApplySuccess(n, l, e))
    BY <1>2 DEF ApplySuccess, l
  <2> QED BY <1>1, <2>1, <2>2, ApplySuccessType, RunType
<1>3. ASSUME NEW i \in Index, StableCheckPoint(n, i) PROVE TypeOK'
  <2> DEFINE c == [l.caches[i] EXCEPT !.stable = TRUE]
             Q == l.ctl.stableQueue \cup {i}
             l1 == [l EXCEPT !.caches[i] = c, !.ctl.stableQueue = Q]
  <2>0. l.caches[i] \in Cache
    BY <1>1, LocalFields
  <2>1. c \in Cache
    BY <2>0 DEF Cache
  <2>2. Q \subseteq Index
    BY <1>1 DEF LocalState, Registers
  <2>3. Run(n, [l EXCEPT !.caches[i].stable = TRUE, !.ctl.stableQueue = @ \cup {i}])
    BY <1>3 DEF StableCheckPoint, l
  <2>4. [l EXCEPT !.caches[i].stable = TRUE, !.ctl.stableQueue = @ \cup {i}] = l1
    BY <1>1 DEF LocalState
  <2> HIDE DEF c, Q
  <2>5. [l.ctl EXCEPT !.stableQueue = Q] \in Registers
    BY <1>1, <2>2 DEF LocalState, Registers
  <2>6. l1 \in LocalState
    BY <1>1, <2>1, <2>5 DEF LocalState
  <2> HIDE DEF l1
  <2> QED BY <2>3, <2>4, <2>6, RunType
<1>4. ASSUME CommitStable(n) PROVE TypeOK'
  <2>1. ctl[n].committed + 1 \in Index
    BY <1>0, <1>1, <1>4 DEF CommitStable, LocalState, Registers
  <2>2. Run(n, finalizeConsensus(l, ctl[n].committed + 1, FALSE))
    BY <1>4 DEF CommitStable, l
  <2>3. finalizeConsensus(l, ctl[n].committed + 1, FALSE) \in LocalState
    BY <1>1, <2>1, FinalizeType
  <2> QED BY <2>2, <2>3, RunType
<1>5. ASSUME NEW k \in Index, SyncBlock(n, k) PROVE TypeOK'
  <2>2. Run(n, finalizeConsensus(l, k, TRUE))
    BY <1>5 DEF SyncBlock, l
  <2>3. finalizeConsensus(l, k, TRUE) \in LocalState
    BY <1>1, FinalizeType
  <2> QED BY <2>2, <2>3, RunType
<1>6. ASSUME NEW k \in Index, NotifySyncing(n, k) PROVE TypeOK'
  <2>1. k \in 0 .. MaxIndex
    BY BoundAssumption DEF Index
  <2>2. Run(n, [l EXCEPT !.ctl.syncing = k])
    BY <1>6 DEF NotifySyncing, l
  <2>3. [l.ctl EXCEPT !.syncing = k] \in Registers
    BY <1>1, <2>1 DEF LocalState, Registers
  <2>4. [l EXCEPT !.ctl.syncing = k] \in LocalState
    BY <1>1, <2>3 DEF LocalState
  <2> QED BY <2>2, <2>4, RunType
<1> QED BY <1>2, <1>3, <1>4, <1>5, <1>6

\* The registers and the caches of a node that starts have their types.
LEMMA StartType ==
  ASSUME NEW k \in 0 .. MaxIndex, NEW w \in 1 .. MaxIndex + 1, NEW Q \in SUBSET (Index \X Hash)
  PROVE  /\ StartRegisters(k, w, Q) \in Registers
         /\ [i \in Index |-> EmptyCache] \in [Index -> Cache]
<1> DEFINE f == [v \in View |-> None]
<1>1. f \in [View -> None .. MaxIndex]
  BY BoundAssumption DEF None
<1>2. 0 \in View /\ k + 1 \in 1 .. MaxIndex + 1 /\ 0 \in 0 .. MaxIndex
  BY BoundAssumption, CacheAssumption DEF View
<1>3. StartRegisters(k, w, Q) \in Registers
  <2>1. StartRegisters(k, w, Q) =
         [view |-> 0, toView |-> 0, timeout |-> FALSE, startRecovered |-> FALSE,
          committed |-> k, expected |-> k + 1, low |-> w, syncing |-> 0,
          waitReseal |-> 0, newViewGenerated |-> FALSE, viewChanges |-> {},
          maxCommitted |-> f, maxPrecommit |-> f,
          recover |-> {}, queue |-> Q, executing |-> {}, stableQueue |-> {}]
    BY DEF StartRegisters
  <2> HIDE DEF f
  <2> QED BY <1>1, <1>2, <2>1 DEF Registers
<1>4. [i \in Index |-> EmptyCache] \in [Index -> Cache]
  BY EmptyCacheType
<1> QED BY <1>3, <1>4

\* A restart keeps the type.
LEMMA RestartType ==
  ASSUME TypeOK, NEW n \in Node, NEW j \in 0 .. MaxIndex, Restart(n, j)
  PROVE  TypeOK'
<1> DEFINE k == ctl[n].committed
           M == {x \in msgs : x.type = "CheckPoint" /\ x.from = n /\ x.index > k /\ x.index <= j}
           Q == {<<m.index, m.hash>> : m \in M}
           l == [ctl |-> StartRegisters(k, j + 1, Q), caches |-> [i \in Index |-> EmptyCache],
                 pending |-> {}, out |-> {}, done |-> {}]
<1>1. k \in 0 .. MaxIndex /\ j + 1 \in 1 .. MaxIndex + 1
  BY BoundAssumption DEF TypeOK, Registers
<1>2. Q \in SUBSET (Index \X Hash)
  <2>1. \A m \in M : m.index \in Index /\ m.hash \in Hash
    BY MessageFields DEF TypeOK
  <2> HIDE DEF M
  <2> QED BY <2>1
<1>3. l \in LocalState
  <2> HIDE DEF Q, k
  <2>1. StartRegisters(k, j + 1, Q) \in Registers /\ [i \in Index |-> EmptyCache] \in [Index -> Cache]
    BY <1>1, <1>2, StartType
  <2> QED BY <2>1 DEF LocalState
<1>4. Step(n, tryToApplyCommitQueue(l))
  BY DEF Restart
<1>5. restarts' \in 0 .. MaxRestart
  BY BoundAssumption DEF TypeOK, Restart
<1> HIDE DEF l
<1>6. tryToApplyCommitQueue(l) \in LocalState
  BY <1>3, ApplyType
<1>7. taken' \in [Node -> SUBSET Message]
  BY DEF TypeOK, Restart
<1> QED BY <1>4, <1>5, <1>6, <1>7, StepType

\* The initial state has its type.
LEMMA InitType == Init => TypeOK
<1> SUFFICES ASSUME Init PROVE TypeOK
  OBVIOUS
<1>1. 0 \in 0 .. MaxIndex /\ 1 \in 1 .. MaxIndex + 1 /\ {} \in SUBSET (Index \X Hash)
      /\ 0 \in 0 .. MaxRestart
  BY BoundAssumption
<1>2. StartRegisters(0, 1, {}) \in Registers /\ [i \in Index |-> EmptyCache] \in [Index -> Cache]
  BY <1>1, StartType
<1> QED BY <1>1, <1>2 DEF Init, TypeOK

\* Every step of Next, or a stuttering step, keeps the type.
LEMMA NextType == TypeOK /\ [Next]_vars => TypeOK'
<1> SUFFICES ASSUME TypeOK, [Next]_vars PROVE TypeOK'
  OBVIOUS
<1>1. CASE UNCHANGED vars
  BY <1>1 DEF vars, TypeOK
<1>2. CASE Next
  <2>1. PICK n \in Running :
          \/ Waits(n)
          \/ \E i \in Index, v \in View, s \in 1 .. MaxSeal : SubmitProposal(n, i, v, s)
          \/ \E m \in msgs : HandlePrePrepare(n, m)
          \/ \E m \in msgs : HandlePrepare(n, m) \/ HandleCommit(n, m)
          \/ \E m \in msgs : \/ HandleViewChange(n, m) \/ HandleNewView(n, m)
                             \/ HandleRecoverResponse(n, m)
          \/ \E p \in pending[n] : \/ VerifySucceeds(n, p) \/ VerifyFails(n, p)
                                   \/ PrecommitResponse(n, p)
          \/ OnTimeout(n)
          \/ \/ \E e \in ctl[n].executing : ApplySuccess(n, e)
             \/ \E i \in Index : StableCheckPoint(n, i)
             \/ CommitStable(n)
             \/ \E k \in Index : SyncBlock(n, k)
             \/ \E k \in Index : NotifySyncing(n, k)
          \/ \E j \in 0 .. MaxIndex : Restart(n, j)
    BY <1>2, Zenon DEF Next, Waits
  <2>2. n \in Node
    BY BoundAssumption
  <2> QED
    BY <2>1, <2>2, WaitsType, SubmitProposalType, HandlePrePrepareType, HandleVoteType, HandleViewType,
       VerifyType, OnTimeoutType, LedgerType, RestartType
<1> QED BY <1>1, <1>2

(***************************************************************************)
(* TypeOK is an invariant: whatever the number of nodes and the bounds, no *)
(* handler of PBFTEngine moves a block number, a view or a queue entry out *)
(* of its range, and only well-formed messages are sent.                   *)
(***************************************************************************)
THEOREM TypeInvariant == Spec => []TypeOK
  BY InitType, NextType, PTL DEF Spec

-----------------------------------------------------------------------------
(* Inert changes of a local state *)

KeepsCache(c, d) ==
  \/ /\ d.prePrepare = NoProposal /\ d.precommit = NoProposal
     /\ d.prepares = {} /\ d.commits = {}
  \/ /\ d.prePrepare = c.prePrepare /\ d.precommit = c.precommit
     /\ d.prepares \subseteq c.prepares /\ d.commits \subseteq c.commits

Ahead(l) == l.ctl.expected > l.ctl.committed

Inert(l, k) ==
  /\ \A i \in Index : KeepsCache(l.caches[i], k.caches[i])
  /\ k.done = l.done
  /\ l.out \subseteq k.out
  /\ \A m \in k.out \ l.out : m.type \notin {"Prepare", "Commit"}
  /\ Ahead(l) => Ahead(k)

\* Two inert changes make one.
LEMMA InertTransitive ==
  ASSUME NEW a, NEW b, NEW c, Inert(a, b), Inert(b, c)
  PROVE  Inert(a, c)
<1>1. \A i \in Index : KeepsCache(a.caches[i], c.caches[i])
  <2> SUFFICES ASSUME NEW i \in Index PROVE KeepsCache(a.caches[i], c.caches[i])
    OBVIOUS
  <2>1. KeepsCache(a.caches[i], b.caches[i]) /\ KeepsCache(b.caches[i], c.caches[i])
    BY DEF Inert
  <2> QED BY <2>1 DEF KeepsCache
<1> QED BY <1>1 DEF Inert

\* Changing registers only is inert, if the next number to execute stays ahead.
LEMMA InertRegisters ==
  ASSUME NEW l, NEW k, k.caches = l.caches, k.done = l.done, k.out = l.out, Ahead(l) => Ahead(k)
  PROVE  Inert(l, k)
  BY DEF Inert, KeepsCache

\* Sending anything but prepares and commits is inert.
LEMMA InertSend ==
  ASSUME NEW l \in LocalState, NEW m, m.type \notin {"Prepare", "Commit"}
  PROVE  Inert(l, [l EXCEPT !.out = @ \cup {m}])
  BY DEF Inert, KeepsCache, Ahead, LocalState

\* Changing what is being verified is inert.
LEMMA InertPending ==
  ASSUME NEW l \in LocalState, NEW P
  PROVE  Inert(l, [l EXCEPT !.pending = P])
  BY DEF Inert, KeepsCache, Ahead, LocalState

\* Starting what can be executed is inert.
LEMMA InertApply ==
  ASSUME NEW l \in LocalState
  PROVE  Inert(l, tryToApplyCommitQueue(l))
<1> DEFINE k == tryToApplyCommitQueue(l)
<1>1. k.caches = l.caches /\ k.done = l.done /\ k.out = l.out
  BY DEF tryToApplyCommitQueue, LocalState
<1>2. k.ctl.expected = l.ctl.expected /\ k.ctl.committed = l.ctl.committed
  BY DEF tryToApplyCommitQueue, LocalState, Registers
<1> HIDE DEF k
<1>3. Ahead(l) => Ahead(k)
  BY <1>2 DEF Ahead
<1>4. Inert(l, k)
  BY <1>1, <1>3, InertRegisters
<1> QED BY <1>4 DEF k

\* Dropping old view changes is inert.
LEMMA InertRemoveInvalid ==
  ASSUME NEW l \in LocalState, NEW v, NEW c
  PROVE  Inert(l, removeInvalidViewChange(l, v, c))
<1> DEFINE k == removeInvalidViewChange(l, v, c)
<1>1. k.caches = l.caches /\ k.done = l.done /\ k.out = l.out
  BY DEF removeInvalidViewChange, LocalState
<1>2. k.ctl.expected = l.ctl.expected /\ k.ctl.committed = l.ctl.committed
  BY DEF removeInvalidViewChange, LocalState, Registers
<1> HIDE DEF k
<1>3. Ahead(l) => Ahead(k)
  BY <1>2 DEF Ahead
<1>4. Inert(l, k)
  BY <1>1, <1>3, InertRegisters
<1> QED BY <1>4 DEF k

\* Dropping the maxima of the view changes is inert.
LEMMA InertClear ==
  ASSUME NEW l \in LocalState
  PROVE  Inert(l, ClearNewViewState(l))
<1> DEFINE k == ClearNewViewState(l)
<1>1. k.caches = l.caches /\ k.done = l.done /\ k.out = l.out
  BY DEF ClearNewViewState, LocalState
<1>2. k.ctl.expected = l.ctl.expected /\ k.ctl.committed = l.ctl.committed
  BY DEF ClearNewViewState, LocalState, Registers
<1> HIDE DEF k
<1>3. Ahead(l) => Ahead(k)
  BY <1>2 DEF Ahead
<1>4. Inert(l, k)
  BY <1>1, <1>3, InertRegisters
<1> QED BY <1>4 DEF k

\* Storing a view change is inert.
LEMMA InertAddViewChange ==
  ASSUME NEW l \in LocalState, NEW m
  PROVE  Inert(l, addViewChangeReq(l, m))
<1> DEFINE k == addViewChangeReq(l, m)
<1>1. k.caches = l.caches /\ k.done = l.done /\ k.out = l.out
  BY DEF addViewChangeReq, LocalState
<1>2. k.ctl.expected = l.ctl.expected /\ k.ctl.committed = l.ctl.committed
  BY DEF addViewChangeReq, LocalState, Registers
<1> HIDE DEF k
<1>3. Ahead(l) => Ahead(k)
  BY <1>2 DEF Ahead
<1>4. Inert(l, k)
  BY <1>1, <1>3, InertRegisters
<1> QED BY <1>4 DEF k

\* Entering a view is inert.
LEMMA InertResetView ==
  ASSUME NEW l \in LocalState, NEW v
  PROVE  Inert(l, resetNewViewState(l, v))
<1> DEFINE k == resetNewViewState(l, v)
<1>1. k.caches = l.caches /\ k.done = l.done /\ k.out = l.out
  BY DEF resetNewViewState, LocalState
<1>2. k.ctl.expected = l.ctl.expected /\ k.ctl.committed = l.ctl.committed
  BY DEF resetNewViewState, LocalState, Registers
<1> HIDE DEF k
<1>3. Ahead(l) => Ahead(k)
  BY <1>2 DEF Ahead
<1>4. Inert(l, k)
  BY <1>1, <1>3, InertRegisters
<1> QED BY <1>4 DEF k

\* Resetting the caches after a view change is inert: the locks stay.
LEMMA InertResetCaches ==
  ASSUME NEW l \in LocalState, NEW v \in View
  PROVE  Inert(l, resetCacheAfterViewChange(l, v))
<1> DEFINE C  == [i \in Index |-> resetCache(l.caches[i], v)]
           R  == {r \in l.ctl.recover : r[1] > v}
           l1 == [l EXCEPT !.caches = C, !.ctl.recover = R]
           l2 == ClearNewViewState(l1)
<1>1. C \in [Index -> Cache] /\ \A i \in Index : KeepsCache(l.caches[i], C[i])
  <2>1. \A c \in Cache : resetCache(c, v) \in Cache
    BY DEF resetCache, Cache
  <2>2. \A c \in Cache : KeepsCache(c, resetCache(c, v))
    BY DEF resetCache, Cache, KeepsCache
  <2>3. \A i \in Index : l.caches[i] \in Cache
    BY LocalFields
  <2> QED BY <2>1, <2>2, <2>3
<1>2. [l.ctl EXCEPT !.recover = R] \in Registers
  <2>1. R \subseteq View \X Node
    BY DEF LocalState, Registers
  <2> HIDE DEF R
  <2> QED BY <2>1 DEF LocalState, Registers
<1>3. l1 \in LocalState
  <2> HIDE DEF C, R
  <2> QED BY <1>1, <1>2 DEF LocalState
<1>4. Inert(l, l1)
  <2> HIDE DEF C, R
  <2>1. l1.caches = C /\ l1.done = l.done /\ l1.out = l.out
    BY DEF LocalState
  <2>2. l1.ctl.expected = l.ctl.expected /\ l1.ctl.committed = l.ctl.committed
    BY DEF LocalState, Registers
  <2> HIDE DEF l1
  <2> QED BY <1>1, <2>1, <2>2 DEF Inert, Ahead
<1>5. resetCacheAfterViewChange(l, v) = removeInvalidViewChange(l2, v, l.ctl.committed)
  BY DEF resetCacheAfterViewChange
<1> HIDE DEF l1
<1>6. l2 \in LocalState /\ Inert(l1, l2)
  BY <1>3, ClearType, InertClear
<1> HIDE DEF l2
<1>7. Inert(l2, removeInvalidViewChange(l2, v, l.ctl.committed))
  BY <1>6, InertRemoveInvalid
<1>8. Inert(l, l2)
  BY <1>4, <1>6, InertTransitive
<1> QED BY <1>5, <1>7, <1>8, InertTransitive

\* Reaching a new view is inert.
LEMMA InertReach ==
  ASSUME NEW l \in LocalState, NEW v \in View
  PROVE  Inert(l, reachNewView(l, v))
<1> DEFINE l1 == resetNewViewState(l, v)
<1>1. l1 \in LocalState /\ Inert(l, l1)
  BY ResetViewType, InertResetView
<1>2. reachNewView(l, v) = resetCacheAfterViewChange(l1, l1.ctl.view)
  BY DEF reachNewView
<1> HIDE DEF l1
<1>3. l1.ctl.view \in View
  BY <1>1, LocalFields
<1>4. Inert(l1, resetCacheAfterViewChange(l1, l1.ctl.view))
  BY <1>1, <1>3, InertResetCaches
<1> QED BY <1>1, <1>2, <1>4, InertTransitive

\* Taking up the proposals of a new view is inert: they are verified first.
LEMMA InertReHandle ==
  ASSUME NEW l \in LocalState, NEW m \in NewViewMsg
  PROVE  Inert(l, reHandlePrePrepareProposals(l, m))
<1> DEFINE l1 == reachNewView(l, m.view)
           k  == reHandlePrePrepareProposals(l, m)
<1>1. l1 \in LocalState /\ Inert(l, l1)
  BY ReachType, InertReach DEF NewViewMsg
<1>2. PICK P, w : k = [l1 EXCEPT !.pending = P, !.ctl.waitReseal = w]
  BY DEF reHandlePrePrepareProposals
<1> HIDE DEF l1, k
<1>3. k.caches = l1.caches /\ k.done = l1.done /\ k.out = l1.out
  BY <1>1, <1>2 DEF LocalState
<1>4. k.ctl.expected = l1.ctl.expected /\ k.ctl.committed = l1.ctl.committed
  BY <1>1, <1>2 DEF LocalState, Registers
<1>5. Ahead(l1) => Ahead(k)
  BY <1>4 DEF Ahead
<1>6. Inert(l1, k)
  BY <1>3, <1>5, InertRegisters
<1>7. Inert(l, k)
  BY <1>1, <1>6, InertTransitive
<1> QED BY <1>7 DEF k

\* Generating a NewView is inert.
LEMMA InertIntoNewView ==
  ASSUME NEW n \in Node, NEW l \in LocalState
  PROVE  Inert(l, checkAndTryIntoNewView(n, l))
<1> DEFINE m  == newViewMsg(n, l)
           l0 == [l EXCEPT !.out = @ \cup {m}]
           l1 == [l EXCEPT !.out = @ \cup {m}, !.ctl.newViewGenerated = TRUE]
<1>1. m \in NewViewMsg
  BY NewViewType
<1>2. m \in Message /\ m.type = "NewView"
  BY <1>1 DEF Message, NewViewMsg
<1>3. checkAndTryIntoNewView(n, l) \in {l, reHandlePrePrepareProposals(l1, m)}
  BY DEF checkAndTryIntoNewView
<1> HIDE DEF m
<1>4. l1 \in LocalState
  <2>1. [l.ctl EXCEPT !.newViewGenerated = TRUE] \in Registers
    BY DEF LocalState, Registers
  <2> QED BY <1>2, <2>1 DEF LocalState
<1>5. Inert(l, l0)
  BY <1>2, InertSend
<1>6. Inert(l0, l1)
  <2>1. l1.caches = l0.caches /\ l1.done = l0.done /\ l1.out = l0.out
    BY DEF LocalState
  <2>2. l1.ctl.expected = l0.ctl.expected /\ l1.ctl.committed = l0.ctl.committed
    BY DEF LocalState, Registers
  <2> HIDE DEF l0, l1
  <2> QED BY <2>1, <2>2, InertRegisters DEF Ahead
<1>7. Inert(l, l1)
  BY <1>5, <1>6, InertTransitive
<1> HIDE DEF l1
<1>8. Inert(l1, reHandlePrePrepareProposals(l1, m))
  BY <1>1, <1>4, InertReHandle
<1>9. Inert(l, reHandlePrePrepareProposals(l1, m))
  BY <1>7, <1>8, InertTransitive
<1>10. Inert(l, l)
  BY InertRegisters
<1> QED BY <1>3, <1>9, <1>10

\* Sending a view change is inert.
LEMMA InertSendViewChange ==
  ASSUME NEW n \in Node, NEW l \in LocalState, NEW dest \in SUBSET Node
  PROVE  Inert(l, SendViewChange(n, l, dest))
<1> DEFINE m  == generateViewChange(n, l, dest)
           l1 == [l EXCEPT !.out = @ \cup {m}]
           l2 == addViewChangeReq(l1, m)
<1>1. m \in ViewChangeMsg /\ m \in Message
  BY GenerateType
<1>2. m.type \notin {"Prepare", "Commit"}
  BY <1>1 DEF ViewChangeMsg
<1>3. SendViewChange(n, l, dest) = checkAndTryIntoNewView(n, l2)
  BY DEF SendViewChange
<1> HIDE DEF m
<1>4. l1 \in LocalState
  BY <1>1 DEF LocalState
<1>5. Inert(l, l1)
  BY <1>2, InertSend
<1> HIDE DEF l1
<1>6. l2 \in LocalState /\ Inert(l1, l2)
  BY <1>1, <1>4, AddViewChangeType, InertAddViewChange
<1> HIDE DEF l2
<1>7. Inert(l2, checkAndTryIntoNewView(n, l2))
  BY <1>6, InertIntoNewView
<1>8. Inert(l, l2)
  BY <1>5, <1>6, InertTransitive
<1> QED BY <1>3, <1>7, <1>8, InertTransitive

\* A timeout is inert.
LEMMA InertTimeout ==
  ASSUME NEW n \in Node, NEW l \in LocalState, NEW v \in View, v < MaxView
  PROVE  Inert(l, triggerTimeout(n, [l EXCEPT !.ctl.toView = v]))
<1> DEFINE l0 == [l EXCEPT !.ctl.toView = v]
           l1 == [l0 EXCEPT !.ctl.timeout = TRUE, !.ctl.toView = @ + 1]
           l2 == removeInvalidViewChange(l1, l0.ctl.view, l0.ctl.committed)
<1>1. v + 1 \in View
  BY CacheAssumption DEF View
<1>2. l1 = [l EXCEPT !.ctl = [l.ctl EXCEPT !.timeout = TRUE, !.toView = v + 1]]
  BY DEF LocalState, Registers
<1>3. l1 \in LocalState
  <2>1. [l.ctl EXCEPT !.timeout = TRUE, !.toView = v + 1] \in Registers
    BY <1>1, ZenonT(30) DEF LocalState, Registers
  <2> QED BY <1>2, <2>1 DEF LocalState
<1>4. Inert(l, l1)
  <2> HIDE DEF l1
  <2>1. l1.caches = l.caches /\ l1.done = l.done /\ l1.out = l.out
    BY <1>2 DEF LocalState
  <2>2. l1.ctl.expected = l.ctl.expected /\ l1.ctl.committed = l.ctl.committed
    BY <1>2 DEF LocalState, Registers
  <2> QED BY <2>1, <2>2, InertRegisters DEF Ahead
<1>5. triggerTimeout(n, l0) = SendViewChange(n, l2, Node \ {n})
  BY DEF triggerTimeout
<1> HIDE DEF l1, l0
<1>6. l2 \in LocalState /\ Inert(l1, l2)
  BY <1>3, RemoveInvalidType, InertRemoveInvalid
<1> HIDE DEF l2
<1>7. Node \ {n} \in SUBSET Node
  OBVIOUS
<1>8. Inert(l2, SendViewChange(n, l2, Node \ {n}))
  BY <1>6, <1>7, InertSendViewChange
<1>9. Inert(l, l2)
  BY <1>4, <1>6, InertTransitive
<1>10. Inert(l, triggerTimeout(n, l0))
  BY <1>5, <1>8, <1>9, InertTransitive
<1> QED BY <1>10 DEF l0

\* The answer to a node that falls behind is inert.
LEMMA InertReply ==
  ASSUME NEW n \in Node, NEW l \in LocalState, NEW m, NEW sender \in Node
  PROVE  Inert(l, ReplyFallingBehind(n, l, m, sender))
<1> DEFINE x == [type |-> "RecoverResponse", from |-> n, to |-> {sender}, view |-> l.ctl.view]
           l1 == [l EXCEPT !.out = @ \cup {x}]
<1>1. x.type \notin {"Prepare", "Commit"}
  OBVIOUS
<1>2. Inert(l, l1)
  <2> HIDE DEF x
  <2> QED BY <1>1, InertSend
<1>3. Inert(l, SendViewChange(n, l, {sender}))
  BY InertSendViewChange
<1>4. ReplyFallingBehind(n, l, m, sender) \in {l, SendViewChange(n, l, {sender}), l1}
  BY DEF ReplyFallingBehind
<1>5. Inert(l, l)
  BY InertRegisters
<1> HIDE DEF l1
<1> QED BY <1>2, <1>3, <1>4, <1>5

\* Joining the view change of others is inert.
LEMMA InertFast ==
  ASSUME NEW n \in Node, NEW l \in LocalState, NEW m
  PROVE  Inert(l, FastViewChange(n, l, m))
<1>1. \/ FastViewChange(n, l, m) = l
      \/ \E v \in View : /\ v < MaxView
                         /\ FastViewChange(n, l, m) = triggerTimeout(n, [l EXCEPT !.ctl.toView = v])
  BY FastTarget
<1>2. Inert(l, l)
  BY InertRegisters
<1> QED BY <1>1, <1>2, InertTimeout

\* Handling a view change is inert.
LEMMA InertHandleViewChange ==
  ASSUME NEW n \in Node, NEW l \in LocalState, NEW m \in ViewChangeMsg
  PROVE  Inert(l, handleViewChangeMsg(n, l, m))
<1> DEFINE l1 == ReplyFallingBehind(n, l, m, m.from)
           l2 == addViewChangeReq(l1, m)
           l3 == FastViewChange(n, l2, m)
           l4 == checkAndTryIntoNewView(n, l3)
<1>0. m.from \in Node
  BY DEF ViewChangeMsg
<1>1. handleViewChangeMsg(n, l, m) \in {l, l1, l4}
  BY DEF handleViewChangeMsg
<1>2. l1 \in LocalState /\ Inert(l, l1) /\ Inert(l, l)
  BY <1>0, ReplyType, InertReply, InertRegisters
<1> HIDE DEF l1
<1>3. l2 \in LocalState /\ Inert(l1, l2)
  BY <1>2, AddViewChangeType, InertAddViewChange
<1> HIDE DEF l2
<1>4. l3 \in LocalState /\ Inert(l2, l3)
  BY <1>3, FastType, InertFast
<1> HIDE DEF l3
<1>5. Inert(l3, l4)
  BY <1>4, InertIntoNewView
<1> HIDE DEF l4
<1>6. Inert(l, l4)
  BY <1>2, <1>3, <1>4, <1>5, InertTransitive
<1> QED BY <1>1, <1>2, <1>6

\* Handling a NewView is inert.
LEMMA InertHandleNewView ==
  ASSUME NEW n \in Node, NEW l \in LocalState, NEW m \in NewViewMsg
  PROVE  Inert(l, handleNewViewMsg(n, l, m))
<1> DEFINE x  == FirstViewChange(m)
           l1 == IF x.committed < l.ctl.committed THEN l ELSE ReplyFallingBehind(n, l, x, m.from)
           l2 == reHandlePrePrepareProposals(l1, m)
<1>0. m.from \in Node
  BY DEF NewViewMsg
<1>1. handleNewViewMsg(n, l, m) \in {l, l1, l2}
  BY DEF handleNewViewMsg
<1>2. l1 \in LocalState /\ Inert(l, l1) /\ Inert(l, l)
  <2> HIDE DEF x
  <2> QED BY <1>0, ReplyType, InertReply, InertRegisters
<1> HIDE DEF l1
<1>3. Inert(l1, l2)
  BY <1>2, InertReHandle
<1> HIDE DEF l2
<1>4. Inert(l, l2)
  BY <1>2, <1>3, InertTransitive
<1> QED BY <1>1, <1>2, <1>4

\* Recovering the view is inert.
LEMMA InertRecover ==
  ASSUME NEW l \in LocalState
  PROVE  Inert(l, checkAndTryToRecover(l))
<1> DEFINE R == {v \in View : v > 0 /\ IsQuorum({r[2] : r \in {x \in l.ctl.recover : x[1] = v}})}
           v == Highest(R)
           l1 == resetNewViewState(l, v)
           l2 == resetCacheAfterViewChange(l1, v)
           l3 == [l2 EXCEPT !.ctl.recover = {}]
<1>0. Inert(l, l)
  BY InertRegisters
<1>1. checkAndTryToRecover(l) = IF R = {} THEN l ELSE l3
  BY DEF checkAndTryToRecover
<1>2. ASSUME R # {} PROVE v \in View
  <2>1. R \in SUBSET (0 .. MaxView)
    BY DEF View
  <2> HIDE DEF R
  <2>2. 0 \in Int /\ MaxView \in Int
    BY CacheAssumption
  <2>3. v \in R
    BY <1>2, <2>1, <2>2, HighestIn
  <2> QED BY <2>1, <2>3 DEF View
<1>3. ASSUME R # {} PROVE Inert(l, l3)
  <2> HIDE DEF R
  <2>0. v \in View
    BY <1>2, <1>3
  <2> HIDE DEF v
  <2>1. l1 \in LocalState /\ Inert(l, l1)
    BY <2>0, ResetViewType, InertResetView
  <2> HIDE DEF l1
  <2>2. l2 \in LocalState /\ Inert(l1, l2)
    BY <2>0, <2>1, ResetCachesType, InertResetCaches
  <2> HIDE DEF l2
  <2>3. l3.caches = l2.caches /\ l3.done = l2.done /\ l3.out = l2.out
    BY <2>2 DEF LocalState
  <2>4. l3.ctl.expected = l2.ctl.expected /\ l3.ctl.committed = l2.ctl.committed
    BY <2>2 DEF LocalState, Registers
  <2> HIDE DEF l3
  <2>5. Inert(l2, l3)
    BY <2>3, <2>4, InertRegisters DEF Ahead
  <2> QED BY <2>1, <2>2, <2>5, InertTransitive
<1> HIDE DEF R, l3
<1> QED BY <1>0, <1>1, <1>3

\* Dropping caches is inert.
LEMMA InertDrop ==
  ASSUME NEW l \in LocalState, NEW D, NEW C,
         C = [i \in Index |-> IF D[i] THEN EmptyCache ELSE l.caches[i]]
  PROVE  Inert(l, [l EXCEPT !.caches = C])
<1>1. \A i \in Index : KeepsCache(l.caches[i], C[i])
  BY DEF KeepsCache, EmptyCache
<1> QED BY <1>1 DEF Inert, Ahead, LocalState

\* Moving the registers to a committed number is inert.
LEMMA InertResetConfig ==
  ASSUME NEW l \in LocalState, NEW k \in Index
  PROVE  Inert(l, resetConfig(l, k))
<1> DEFINE e == Highest({l.ctl.expected, k + 1})
           r == resetConfig(l, k)
<1>1. e \in Int /\ e >= k + 1
  <2>1. 1 \in Int /\ MaxIndex + 1 \in Int /\ k + 1 \in 1 .. MaxIndex + 1
    BY BoundAssumption DEF Index
  <2>2. {l.ctl.expected, k + 1} \in SUBSET (1 .. MaxIndex + 1)
    BY <2>1, LocalFields
  <2>3. e \in {l.ctl.expected, k + 1} /\ \A j \in {l.ctl.expected, k + 1} : j <= e
    BY <2>1, <2>2, HighestIn
  <2>4. l.ctl.expected \in Int
    BY LocalFields
  <2> QED BY <2>1, <2>3, <2>4
<1>3. r.ctl.expected = e /\ r.ctl.committed = k
  BY DEF resetConfig, LocalState, Registers
<1>4. r.caches = l.caches /\ r.done = l.done /\ r.out = l.out
  BY DEF resetConfig, LocalState
<1> HIDE DEF e, r
<1>5. Ahead(r)
  BY <1>1, <1>3 DEF Ahead, Index
<1>6. Inert(l, r)
  BY <1>4, <1>5, InertRegisters
<1> QED BY <1>6 DEF r

\* Dropping the caches of committed numbers is inert.
LEMMA InertRemoveConsensused ==
  ASSUME NEW l \in LocalState, NEW k \in Index
  PROVE  Inert(l, removeConsensusedCache(l, k))
<1> DEFINE D  == [i \in Index |-> i <= k \/ l.caches[i].stable]
           C  == [i \in Index |-> IF D[i] THEN EmptyCache ELSE l.caches[i]]
           l1 == [l EXCEPT !.caches = C]
           l2 == removeInvalidViewChange(l1, l.ctl.view, k)
<1>1. C \in [Index -> Cache]
  BY EmptyCacheType, LocalFields
<1>2. removeConsensusedCache(l, k) = ClearNewViewState(l2)
  <2>1. C = [i \in Index |-> IF i <= k \/ l.caches[i].stable THEN EmptyCache ELSE l.caches[i]]
    OBVIOUS
  <2> HIDE DEF C
  <2> QED BY <2>1 DEF removeConsensusedCache
<1>3. l1 \in LocalState /\ Inert(l, l1)
  <2>1. Inert(l, l1)
    <3> HIDE DEF D
    <3> QED BY InertDrop
  <2> HIDE DEF C
  <2> QED BY <1>1, <2>1 DEF LocalState
<1> HIDE DEF l1
<1>4. l2 \in LocalState /\ Inert(l1, l2)
  BY <1>3, RemoveInvalidType, InertRemoveInvalid
<1> HIDE DEF l2
<1>5. Inert(l2, ClearNewViewState(l2))
  BY <1>4, InertClear
<1> QED BY <1>2, <1>3, <1>4, <1>5, InertTransitive

\* Dropping the executed proposals after a synchronised block is inert.
LEMMA InertRemoveFuture ==
  ASSUME NEW l \in LocalState
  PROVE  Inert(l, removeFutureProposals(l))
<1> DEFINE D  == [i \in Index |-> l.caches[i].checkpoint # NoHash]
           C  == [i \in Index |-> IF D[i] THEN EmptyCache ELSE l.caches[i]]
           l1 == [l EXCEPT !.caches = C]
           k  == removeFutureProposals(l)
<1>1. C = [i \in Index |-> IF l.caches[i].checkpoint # NoHash THEN EmptyCache ELSE l.caches[i]]
  OBVIOUS
<1>2. Inert(l, l1)
  <2> HIDE DEF D
  <2> QED BY InertDrop
<1> HIDE DEF C
<1>3. k.caches = l1.caches /\ k.done = l1.done /\ k.out = l1.out
  BY <1>1 DEF removeFutureProposals, LocalState
<1>4. k.ctl.expected = l.ctl.committed + 1 /\ k.ctl.committed = l.ctl.committed
  BY DEF removeFutureProposals, LocalState, Registers
<1> HIDE DEF k, l1
<1>5. Ahead(k)
  BY <1>4, LocalFields DEF Ahead
<1>6. Inert(l1, k)
  BY <1>3, <1>5, InertRegisters
<1>7. Inert(l, k)
  BY <1>2, <1>6, InertTransitive
<1> QED BY <1>7 DEF k

\* Finalizing the consensus of a number is inert.
LEMMA InertFinalize ==
  ASSUME NEW l \in LocalState, NEW k \in Index, NEW synced \in BOOLEAN
  PROVE  Inert(l, finalizeConsensus(l, k, synced))
<1> DEFINE l0 == resetConfig(l, k)
           l1 == tryToApplyCommitQueue(l0)
           l2 == removeConsensusedCache(l1, k)
           S  == {i \in l2.ctl.stableQueue : i > k}
           l3 == [l2 EXCEPT !.ctl.stableQueue = S]
           l4 == removeFutureProposals(l3)
<1>1. finalizeConsensus(l, k, synced) \in {l3, l4}
  BY DEF finalizeConsensus
<1>2. l0 \in LocalState /\ Inert(l, l0)
  BY ResetConfigType, InertResetConfig
<1> HIDE DEF l0
<1>3. l1 \in LocalState /\ Inert(l0, l1)
  BY <1>2, ApplyType, InertApply
<1> HIDE DEF l1
<1>4. l2 \in LocalState /\ Inert(l1, l2)
  BY <1>3, RemoveConsensusedType, InertRemoveConsensused
<1> HIDE DEF l2
<1>5. l3 \in LocalState /\ Inert(l2, l3)
  <2>1. S \subseteq Index
    BY <1>4 DEF LocalState, Registers
  <2> HIDE DEF S
  <2>2. l3 \in LocalState
    BY <1>4, <2>1, StableQueueType
  <2>3. l3.caches = l2.caches /\ l3.done = l2.done /\ l3.out = l2.out
    BY <1>4 DEF LocalState
  <2>4. l3.ctl.expected = l2.ctl.expected /\ l3.ctl.committed = l2.ctl.committed
    BY <1>4 DEF LocalState, Registers
  <2> HIDE DEF l3
  <2> QED BY <2>2, <2>3, <2>4, InertRegisters DEF Ahead
<1> HIDE DEF l3
<1>6. Inert(l3, l4)
  BY <1>5, InertRemoveFuture
<1> HIDE DEF l4
<1>7. Inert(l, l3)
  BY <1>2, <1>3, <1>4, <1>5, InertTransitive
<1>8. Inert(l, l4)
  BY <1>6, <1>7, InertTransitive
<1> QED BY <1>1, <1>7, <1>8

\* The end of an execution is inert.
LEMMA InertApplySuccess ==
  ASSUME NEW n \in Node, NEW l \in LocalState, NEW e \in Index \X Hash
  PROVE  Inert(l, onProposalApplySuccess(n, l, e))
<1> DEFINE x == [type |-> "CheckPoint", from |-> n, index |-> e[1], hash |-> e[2]]
           c == setCheckPointProposal(l.caches[e[1]], e[1], l.ctl.committed, e[2])
           k == Highest({l.ctl.committed, e[1]})
           l1 == [l EXCEPT !.out = @ \cup {x}, !.caches[e[1]] = c, !.ctl.expected = k + 1]
           l2 == tryToApplyCommitQueue(l1)
           l3 == [l2 EXCEPT !.ctl.executing = @ \ {e}]
<1>0. l.ctl.committed \in 0 .. MaxIndex
  BY LocalFields DEF Registers
<1>1. /\ e[1] \in Index /\ e[2] \in Hash
      /\ k \in 0 .. MaxIndex /\ k + 1 \in 1 .. MaxIndex + 1 /\ l.ctl.committed <= k
  <2>1. e[1] \in Index /\ e[2] \in Hash
    OBVIOUS
  <2>2. k \in {l.ctl.committed, e[1]} /\ l.ctl.committed <= k
    <3>1. l.ctl.committed \in Int /\ e[1] \in Int
      BY <1>0, <2>1, BoundAssumption DEF Index
    <3> QED BY <3>1, HighestPair
  <2> HIDE DEF k
  <2> QED BY <1>0, <2>1, <2>2, BoundAssumption DEF Index
<1>2. x \in Message /\ x.type \notin {"Prepare", "Commit"}
  BY <1>1 DEF Message
<1>3. c \in Cache /\ KeepsCache(l.caches[e[1]], c)
  <2>1. l.caches[e[1]] \in Cache
    BY <1>1, LocalFields
  <2> QED BY <1>1, <2>1 DEF setCheckPointProposal, Cache, KeepsCache
<1>4. onProposalApplySuccess(n, l, e) = l3
  BY DEF onProposalApplySuccess
<1> HIDE DEF x, c, k
<1>5. l1 \in LocalState
  <2>1. [l.ctl EXCEPT !.expected = k + 1] \in Registers
    BY <1>1 DEF LocalState, Registers
  <2> QED BY <1>1, <1>2, <1>3, <2>1 DEF LocalState
<1>6. Inert(l, l1)
  <2>1. l1.caches = [l.caches EXCEPT ![e[1]] = c] /\ l1.done = l.done /\ l1.out = l.out \cup {x}
    BY DEF LocalState
  <2>2. l1.ctl.expected = k + 1 /\ l1.ctl.committed = l.ctl.committed
    BY DEF LocalState, Registers
  <2>3. Ahead(l1)
    BY <1>0, <1>1, <2>2, BoundAssumption DEF Ahead
  <2> HIDE DEF l1
  <2>4. \A i \in Index : KeepsCache(l.caches[i], l1.caches[i])
    <3> SUFFICES ASSUME NEW i \in Index PROVE KeepsCache(l.caches[i], l1.caches[i])
      OBVIOUS
    <3>1. i # e[1] => l1.caches[i] = l.caches[i]
      BY <2>1, LocalFields
    <3>2. i = e[1] => l1.caches[i] = c
      BY <2>1, LocalFields
    <3>3. KeepsCache(l.caches[i], l.caches[i])
      BY DEF KeepsCache
    <3> QED BY <3>1, <3>2, <3>3, <1>3
  <2> QED BY <1>2, <2>1, <2>3, <2>4 DEF Inert
<1> HIDE DEF l1
<1>7. l2 \in LocalState /\ Inert(l1, l2)
  BY <1>5, ApplyType, InertApply
<1> HIDE DEF l2
<1>8. l3.caches = l2.caches /\ l3.done = l2.done /\ l3.out = l2.out
  BY <1>7 DEF LocalState
<1>9. l3.ctl.expected = l2.ctl.expected /\ l3.ctl.committed = l2.ctl.committed
  BY <1>7 DEF LocalState, Registers
<1> HIDE DEF l3
<1>10. Inert(l2, l3)
  BY <1>8, <1>9, InertRegisters DEF Ahead
<1> QED BY <1>4, <1>6, <1>7, <1>10, InertTransitive

-----------------------------------------------------------------------------
(* The invariant on a local state *)

\* OrderingInv for node n in the middle of a handler: l.out is already sent and
\* l.done already ordered.
LocalInv(n, l) ==
  /\ Ahead(l)
  /\ \A i \in Index : CacheInv(msgs \cup l.out, n, i, l.caches[i])
  /\ \A x, y \in msgs \cup l.out :
       /\ x.type = "Commit" /\ y.type = "Commit" /\ x.from = n /\ y.from = n
       /\ x.index = y.index /\ <<n, x.index>> \notin forgotten
       => x.hash = y.hash
  /\ \A e \in l.done : IsQuorum({m.from : m \in SentIn(msgs \cup l.out, "Commit", e[1], e[2])})
  /\ \A m \in l.out : m.type \in {"Prepare", "Commit"} => m.from = n

\* More messages do not take a quorum of senders away.
LEMMA SendersMonotonic ==
  ASSUME NEW M, NEW N, M \subseteq N, NEW type, NEW i, NEW h,
         IsQuorum({m.from : m \in SentIn(M, type, i, h)})
  PROVE  IsQuorum({m.from : m \in SentIn(N, type, i, h)})
<1>1. {m.from : m \in SentIn(M, type, i, h)} \subseteq {m.from : m \in SentIn(N, type, i, h)}
  BY DEF SentIn
<1> QED BY <1>1, QuorumMonotonic

\* Messages that are no commit votes of n do not disturb the cache of n.
LEMMA CacheInvGrows ==
  ASSUME NEW M, NEW N, M \subseteq N, NEW n, NEW i, NEW c, CacheInv(M, n, i, c),
         CommitsOf(N, n, i) \subseteq M
  PROVE  CacheInv(N, n, i, c)
<1>1. CommitsOf(N, n, i) = CommitsOf(M, n, i)
  BY DEF CommitsOf
<1>2. c.precommit # NoProposal =>
        IsQuorum({m.from : m \in SentIn(N, "Prepare", i, c.precommit.hash)})
  BY SendersMonotonic DEF CacheInv
<1>3. \A u : /\ VoteSent(M, "Prepare", i, u) => VoteSent(N, "Prepare", i, u)
             /\ VoteSent(M, "Commit", i, u) => VoteSent(N, "Commit", i, u)
  BY DEF VoteSent
<1> QED BY <1>1, <1>2, <1>3 DEF CacheInv

\* A kept or dropped cache keeps the invariant.
LEMMA CacheInvKept ==
  ASSUME NEW M, NEW n, NEW i, NEW c, NEW d, CacheInv(M, n, i, c), KeepsCache(c, d)
  PROVE  CacheInv(M, n, i, d)
  BY DEF CacheInv, KeepsCache

\* Inert changes keep the invariant.
LEMMA InertKeeps ==
  ASSUME NEW n \in Node, NEW l, NEW k, LocalInv(n, l), Inert(l, k)
  PROVE  LocalInv(n, k)
<1> DEFINE M == msgs \cup l.out
           N == msgs \cup k.out
<1>1. M \subseteq N /\ \A m \in N \ M : m.type \notin {"Prepare", "Commit"}
  BY DEF Inert
<1>2. \A i \in Index : CacheInv(N, n, i, k.caches[i])
  <2> SUFFICES ASSUME NEW i \in Index PROVE CacheInv(N, n, i, k.caches[i])
    OBVIOUS
  <2>1. CacheInv(M, n, i, l.caches[i])
    BY DEF LocalInv
  <2>2. KeepsCache(l.caches[i], k.caches[i])
    BY DEF Inert
  <2>3. CommitsOf(N, n, i) \subseteq M
    BY <1>1 DEF CommitsOf
  <2> HIDE DEF M, N
  <2>4. CacheInv(M, n, i, k.caches[i])
    BY <2>1, <2>2, CacheInvKept
  <2> QED BY <1>1, <2>3, <2>4, CacheInvGrows
<1>3. \A e \in k.done : IsQuorum({m.from : m \in SentIn(N, "Commit", e[1], e[2])})
  <2>1. \A e \in l.done : IsQuorum({m.from : m \in SentIn(M, "Commit", e[1], e[2])})
    BY DEF LocalInv
  <2>2. k.done = l.done
    BY DEF Inert
  <2> HIDE DEF M, N
  <2> QED BY <1>1, <2>1, <2>2, SendersMonotonic
<1>4. \A x, y \in N :
       /\ x.type = "Commit" /\ y.type = "Commit" /\ x.from = n /\ y.from = n
       /\ x.index = y.index /\ <<n, x.index>> \notin forgotten
       => x.hash = y.hash
  <2>1. \A x, y \in M :
       /\ x.type = "Commit" /\ y.type = "Commit" /\ x.from = n /\ y.from = n
       /\ x.index = y.index /\ <<n, x.index>> \notin forgotten
       => x.hash = y.hash
    BY DEF LocalInv
  <2> HIDE DEF M, N
  <2> QED BY <1>1, <2>1
<1>5. Ahead(k) /\ \A m \in k.out : m.type \in {"Prepare", "Commit"} => m.from = n
  BY DEF LocalInv, Inert
<1> QED BY <1>2, <1>3, <1>4, <1>5 DEF LocalInv

\* Handing proposals with a quorum of commits to execution.
LEMMA CommitQueueKeeps ==
  ASSUME NEW n \in Node, NEW l \in LocalState, LocalInv(n, l), NEW S \in SUBSET (Index \X Hash),
         \A e \in S : IsQuorum({m.from : m \in SentIn(msgs \cup l.out, "Commit", e[1], e[2])})
  PROVE  LocalInv(n, updateCommitQueue(l, S))
<1> DEFINE new == S \ l.ctl.executing
           l1  == [l EXCEPT !.ctl.queue = @ \cup new, !.done = @ \cup S]
<1>1. updateCommitQueue(l, S) = IF new = {} THEN l1 ELSE tryToApplyCommitQueue(l1)
  BY DEF updateCommitQueue
<1>2. l1 \in LocalState
  <2>0. new \subseteq Index \X Hash
    OBVIOUS
  <2> HIDE DEF new
  <2>1. [l.ctl EXCEPT !.queue = @ \cup new] \in Registers
    BY <2>0 DEF LocalState, Registers
  <2> QED BY <2>1 DEF LocalState
<1>3. l1.caches = l.caches /\ l1.out = l.out /\ l1.done = l.done \cup S
  BY DEF LocalState
<1>4. l1.ctl.expected = l.ctl.expected /\ l1.ctl.committed = l.ctl.committed
  BY DEF LocalState, Registers
<1> HIDE DEF l1, new
<1>5. LocalInv(n, l1)
  BY <1>3, <1>4 DEF LocalInv, Ahead
<1>6. LocalInv(n, tryToApplyCommitQueue(l1))
  BY <1>2, <1>5, InertApply, InertKeeps
<1> QED BY <1>1, <1>5, <1>6

-----------------------------------------------------------------------------
(* The steps the lock protects *)

\* A quorum of cached votes is a quorum of senders.
LEMMA VotersSent ==
  ASSUME NEW M, NEW type, NEW i, NEW h, NEW votes,
         \A u \in votes : VoteSent(M, type, i, u), collectEnoughQuorum(votes, h)
  PROVE  IsQuorum({m.from : m \in SentIn(M, type, i, h)})
<1>1. Voters(votes, h) \subseteq {m.from : m \in SentIn(M, type, i, h)}
  BY DEF Voters, VoteSent, SentIn
<1> QED BY <1>1, QuorumMonotonic DEF collectEnoughQuorum

\* What precommitting does to one cache: M0 was sent before, M contains the
\* commit vote of n.
LEMMA PreCommitCache ==
  ASSUME NEW n \in Node, NEW i \in Index, NEW v \in View, NEW c \in Cache, NEW M0, NEW M,
         M0 \subseteq M, CacheInv(M0, n, i, c),
         \A m \in CommitsOf(M, n, i) \ M0 :
           CanPreCommit(c, v) /\ m = ConsensusMsg("Commit", n, i, v, c.prePrepare.hash),
         CanPreCommit(c, v) => ConsensusMsg("Commit", n, i, v, c.prePrepare.hash) \in M
  PROVE  /\ CacheInv(M, n, i, checkAndPreCommit(c, n, v))
         /\ CanPreCommit(c, v) =>
              /\ checkAndPreCommit(c, n, v).precommit = c.prePrepare
              /\ <<n, i>> \notin forgotten =>
                   \A m \in CommitsOf(M, n, i) : m.hash = c.prePrepare.hash
         /\ CanPreCommit(c, v) /\ checkAndPreCommit(c, n, v).submitted /\ ~c.submitted =>
              IsQuorum({m.from : m \in SentIn(M, "Commit", i, checkAndPreCommit(c, n, v).precommit.hash)})
<1> DEFINE own == ConsensusMsg("Commit", n, i, v, c.prePrepare.hash)
           vote == [from |-> n, hash |-> c.prePrepare.hash, view |-> v]
           b == intoPrecommit(c, n, v)
           d == checkAndPreCommit(c, n, v)
<1>1. CASE ~CanPreCommit(c, v)
  <2>1. d = c
    BY <1>1 DEF checkAndPreCommit
  <2>2. CommitsOf(M, n, i) \subseteq M0
    BY <1>1
  <2>3. CacheInv(M, n, i, c)
    BY <2>2, CacheInvGrows
  <2> HIDE DEF d
  <2> QED BY <1>1, <2>1, <2>3 DEF d
<1>2. CASE CanPreCommit(c, v)
  <2>1. c.prePrepare # NoProposal /\ collectEnoughQuorum(c.prepares, c.prePrepare.hash)
    BY <1>2 DEF CanPreCommit, PrePreparedIn
  <2>2. /\ b.prePrepare = c.prePrepare /\ b.precommit = c.prePrepare
        /\ b.prepares = c.prepares /\ b.commits = addCache(c.commits, vote)
        /\ b.submitted = c.submitted
    BY DEF intoPrecommit, Cache
  <2>3. d = checkAndCommit(b, v)
    BY <1>2 DEF checkAndPreCommit
  <2>4. /\ d.prePrepare = b.prePrepare /\ d.precommit = b.precommit
        /\ d.prepares = b.prepares /\ d.commits = b.commits
        /\ d.submitted /\ ~b.submitted => CanCommit(b, v)
    BY <2>3 DEF checkAndCommit, intoPrecommit, Cache
  <2>5. own.type = "Commit" /\ own.from = n /\ own.index = i /\ own.hash = c.prePrepare.hash
    BY DEF ConsensusMsg
  <2>6. vote.from = n /\ vote.hash = c.prePrepare.hash
    OBVIOUS
  <2>7. own \in M /\ CommitsOf(M, n, i) \subseteq M0 \cup {own}
    BY <1>2
  <2> HIDE DEF own, vote, b, d
  <2>8. <<n, i>> \notin forgotten => \A m \in CommitsOf(M, n, i) : m.hash = c.prePrepare.hash
    <3> SUFFICES ASSUME <<n, i>> \notin forgotten, NEW m \in CommitsOf(M, n, i)
                 PROVE  m.hash = c.prePrepare.hash
      OBVIOUS
    <3>1. CASE m = own
      BY <2>5, <3>1
    <3>2. CASE m \in M0
      <4>1. m \in CommitsOf(M0, n, i)
        BY <3>2 DEF CommitsOf
      <4>2. IF c.precommit = NoProposal THEN c.prePrepare = NoProposal ELSE m.hash = c.precommit.hash
        BY <4>1 DEF CacheInv
      <4>3. c.precommit # NoProposal => c.prePrepare.hash = c.precommit.hash
        BY DEF CacheInv
      <4> QED BY <2>1, <4>2, <4>3
    <3> QED BY <2>7, <3>1, <3>2
  <2>9. \A u \in c.prepares : VoteSent(M, "Prepare", i, u)
    BY DEF CacheInv, VoteSent
  <2>10. \A u \in b.commits : VoteSent(M, "Commit", i, u)
    <3>1. \A u \in c.commits : VoteSent(M, "Commit", i, u)
      BY DEF CacheInv, VoteSent
    <3>2. VoteSent(M, "Commit", i, vote)
      BY <2>5, <2>6, <2>7 DEF VoteSent
    <3> QED BY <2>2, <3>1, <3>2 DEF addCache
  <2>11. IsQuorum({m.from : m \in SentIn(M, "Prepare", i, c.prePrepare.hash)})
    BY <2>1, <2>9, VotersSent
  <2>12. CacheInv(M, n, i, d)
    BY <2>1, <2>2, <2>4, <2>8, <2>9, <2>10, <2>11 DEF CacheInv
  <2>13. d.submitted /\ ~c.submitted =>
           IsQuorum({m.from : m \in SentIn(M, "Commit", i, d.precommit.hash)})
    <3> SUFFICES ASSUME d.submitted, ~c.submitted
                 PROVE  IsQuorum({m.from : m \in SentIn(M, "Commit", i, d.precommit.hash)})
      OBVIOUS
    <3>1. collectEnoughQuorum(b.commits, b.prePrepare.hash)
      BY <2>2, <2>4 DEF CanCommit
    <3> QED BY <2>2, <2>4, <2>10, <3>1, VotersSent
  <2> QED BY <2>2, <2>4, <2>8, <2>12, <2>13 DEF d
<1> QED BY <1>1, <1>2

\* Precommitting every cache that can.
LEMMA PreCommitKeeps ==
  ASSUME NEW n \in Node, NEW l \in LocalState, LocalInv(n, l)
  PROVE  LocalInv(n, PreCommitAll(n, l))
<1> DEFINE v    == l.ctl.view
           own(i) == ConsensusMsg("Commit", n, i, v, l.caches[i].prePrepare.hash)
           S    == {i \in Index : CanPreCommit(l.caches[i], v)}
           new  == [i \in Index |-> checkAndPreCommit(l.caches[i], n, v)]
           sent == {ConsensusMsg("Commit", n, i, v, l.caches[i].prePrepare.hash) : i \in S}
           subm == {i \in S : new[i].submitted /\ ~l.caches[i].submitted}
           l1   == [l EXCEPT !.caches = new, !.out = @ \cup sent]
           Q    == {<<i, new[i].precommit.hash>> : i \in subm}
           M0   == msgs \cup l.out
           M    == msgs \cup (l.out \cup sent)
<1>1. v \in View /\ \A i \in Index : l.caches[i] \in Cache
  BY LocalFields
<1>2. new \in [Index -> Cache]
  BY <1>1, CheckOps
<1>3. ASSUME NEW i \in S
      PROVE  l.caches[i].prePrepare \in Proposal /\ l.caches[i].prePrepare.hash \in Hash
  BY <1>1 DEF CanPreCommit, PrePreparedIn, Cache, Proposal
<1>4. sent \subseteq Message
  BY <1>1, <1>3 DEF ConsensusMsg, Message
<1>5. \A m \in sent : /\ m.type = "Commit" /\ m.from = n /\ m.index \in S
                      /\ m = own(m.index)
  BY DEF ConsensusMsg
<1>6. l1 \in LocalState /\ l1.caches = new /\ l1.out = l.out \cup sent /\ l1.done = l.done
      /\ l1.ctl = l.ctl
  <2> HIDE DEF new, sent
  <2> QED BY <1>2, <1>4 DEF LocalState
<1>7. M0 \subseteq M
  OBVIOUS
<1>8. ASSUME NEW i \in Index
      PROVE  /\ CacheInv(M, n, i, new[i])
             /\ i \in S => /\ new[i].precommit = l.caches[i].prePrepare
                           /\ <<n, i>> \notin forgotten =>
                                \A m \in CommitsOf(M, n, i) : m.hash = l.caches[i].prePrepare.hash
             /\ i \in subm => IsQuorum({m.from : m \in SentIn(M, "Commit", i, new[i].precommit.hash)})
  <2>1. l.caches[i] \in Cache /\ CacheInv(M0, n, i, l.caches[i])
    BY <1>1 DEF LocalInv
  <2>2. \A m \in CommitsOf(M, n, i) \ M0 :
          /\ CanPreCommit(l.caches[i], v)
          /\ m = ConsensusMsg("Commit", n, i, v, l.caches[i].prePrepare.hash)
    <3> SUFFICES ASSUME NEW m \in CommitsOf(M, n, i), m \notin M0
                 PROVE  i \in S /\ m = own(i)
      OBVIOUS
    <3>1. m \in sent /\ m.index = i
      BY DEF CommitsOf
    <3> QED BY <1>5, <3>1
  <2>3. CanPreCommit(l.caches[i], v) =>
          ConsensusMsg("Commit", n, i, v, l.caches[i].prePrepare.hash) \in M
    OBVIOUS
  <2>4. new[i] = checkAndPreCommit(l.caches[i], n, v)
    OBVIOUS
  <2>5. i \in S <=> CanPreCommit(l.caches[i], v)
    OBVIOUS
  <2>6. i \in subm <=> i \in S /\ new[i].submitted /\ ~l.caches[i].submitted
    OBVIOUS
  <2> DEFINE c == l.caches[i]
  <2> HIDE DEF M, M0, new, S, subm, v, c
  <2>7. /\ CacheInv(M, n, i, checkAndPreCommit(c, n, v))
        /\ CanPreCommit(c, v) =>
             /\ checkAndPreCommit(c, n, v).precommit = c.prePrepare
             /\ <<n, i>> \notin forgotten =>
                  \A m \in CommitsOf(M, n, i) : m.hash = c.prePrepare.hash
        /\ CanPreCommit(c, v) /\ checkAndPreCommit(c, n, v).submitted /\ ~c.submitted =>
             IsQuorum({m.from : m \in SentIn(M, "Commit", i, checkAndPreCommit(c, n, v).precommit.hash)})
    <3>1. c \in Cache /\ CacheInv(M0, n, i, c) /\ v \in View
      BY <1>1, <2>1 DEF c
    <3>2. \A m \in CommitsOf(M, n, i) \ M0 :
            CanPreCommit(c, v) /\ m = ConsensusMsg("Commit", n, i, v, c.prePrepare.hash)
      BY <2>2 DEF c
    <3>3. CanPreCommit(c, v) => ConsensusMsg("Commit", n, i, v, c.prePrepare.hash) \in M
      BY <2>3 DEF c
    <3> QED BY <1>7, <3>1, <3>2, <3>3, PreCommitCache
  <2> QED BY <2>4, <2>5, <2>6, <2>7 DEF c
<1>9. \A x, y \in M :
        /\ x.type = "Commit" /\ y.type = "Commit" /\ x.from = n /\ y.from = n
        /\ x.index = y.index /\ <<n, x.index>> \notin forgotten
        => x.hash = y.hash
  <2> SUFFICES ASSUME NEW x \in M, NEW y \in M,
                      x.type = "Commit", y.type = "Commit", x.from = n, y.from = n,
                      x.index = y.index, <<n, x.index>> \notin forgotten
               PROVE  x.hash = y.hash
    OBVIOUS
  <2>1. CASE x \in M0 /\ y \in M0
    BY <2>1 DEF LocalInv
  <2>2. CASE x.index \in S
    <3>1. x \in CommitsOf(M, n, x.index) /\ y \in CommitsOf(M, n, x.index)
      BY DEF CommitsOf
    <3>2. x.index \in Index
      BY <2>2
    <3> HIDE DEF M, M0, S, new
    <3> QED BY <1>8, <2>2, <3>1, <3>2
  <2>3. x \notin M0 => x \in sent
    OBVIOUS
  <2>4. y \notin M0 => y \in sent
    OBVIOUS
  <2> QED
    BY <1>5, <2>1, <2>2, <2>3, <2>4
<1>10. LocalInv(n, l1)
  <2>1. msgs \cup l1.out = M
    BY <1>6
  <2>2. Ahead(l1)
    BY <1>6 DEF Ahead, LocalInv
  <2>3. \A e \in l.done : IsQuorum({m.from : m \in SentIn(M, "Commit", e[1], e[2])})
    <3>1. \A e \in l.done : IsQuorum({m.from : m \in SentIn(M0, "Commit", e[1], e[2])})
      BY DEF LocalInv
    <3> HIDE DEF M, M0
    <3> QED BY <1>7, <3>1, SendersMonotonic
  <2>4. \A m \in l1.out : m.type \in {"Prepare", "Commit"} => m.from = n
    BY <1>5, <1>6 DEF LocalInv
  <2> HIDE DEF M, l1, new
  <2> QED BY <1>6, <1>8, <1>9, <2>1, <2>2, <2>3, <2>4 DEF LocalInv
<1>11. ASSUME NEW i \in subm PROVE new[i].precommit.hash \in Hash
  <2>1. i \in S /\ i \in Index
    OBVIOUS
  <2>2. new[i].precommit = l.caches[i].prePrepare
    <3> HIDE DEF new, S, M
    <3> QED BY <1>8, <2>1
  <2> QED BY <1>3, <2>1, <2>2
<1>12. Q \in SUBSET (Index \X Hash)
  <2> HIDE DEF new
  <2> QED BY <1>11
<1>13. \A e \in Q : IsQuorum({m.from : m \in SentIn(msgs \cup l1.out, "Commit", e[1], e[2])})
  <2> SUFFICES ASSUME NEW e \in Q
               PROVE  IsQuorum({m.from : m \in SentIn(M, "Commit", e[1], e[2])})
    <3>1. msgs \cup l1.out = M
      BY <1>6
    <3> HIDE DEF l1, M, Q
    <3> QED BY <3>1
  <2>1. PICK i \in subm : e = <<i, new[i].precommit.hash>>
    OBVIOUS
  <2>2. i \in Index
    OBVIOUS
  <2> HIDE DEF M, new, subm, S, Q
  <2>3. IsQuorum({m.from : m \in SentIn(M, "Commit", i, new[i].precommit.hash)})
    BY <1>8, <2>2
  <2>4. e[1] = i /\ e[2] = new[i].precommit.hash
    BY <2>1
  <2> QED BY <2>3, <2>4
<1>14. PreCommitAll(n, l) = updateCommitQueue(l1, Q)
  BY DEF PreCommitAll
<1> HIDE DEF l1, Q
<1> QED BY <1>6, <1>10, <1>12, <1>13, <1>14, CommitQueueKeeps

\* Submitting every cache with a quorum of commits.
LEMMA CommitKeeps ==
  ASSUME NEW n \in Node, NEW l \in LocalState, LocalInv(n, l)
  PROVE  LocalInv(n, CommitAll(l))
<1> DEFINE v    == l.ctl.view
           S    == {i \in Index : CanCommit(l.caches[i], v)}
           new  == [i \in Index |-> checkAndCommit(l.caches[i], v)]
           l1   == [l EXCEPT !.caches = new]
           Q    == {<<i, l.caches[i].precommit.hash>> : i \in S}
           next == updateCommitQueue(l1, Q)
           l2   == [next EXCEPT !.ctl.toView = v]
<1>1. v \in View /\ \A i \in Index : l.caches[i] \in Cache
  BY LocalFields
<1>2. CommitAll(l) = IF S = {} THEN l ELSE l2
  BY DEF CommitAll
<1>3. new \in [Index -> Cache] /\ \A i \in Index : KeepsCache(l.caches[i], new[i])
  <2>1. \A c \in Cache : checkAndCommit(c, v) \in Cache /\ KeepsCache(c, checkAndCommit(c, v))
    BY ZenonT(30) DEF checkAndCommit, Cache, KeepsCache
  <2> QED BY <1>1, <2>1
<1>4. ASSUME NEW i \in S
      PROVE  /\ l.caches[i].precommit.hash \in Hash
             /\ IsQuorum({m.from : m \in SentIn(msgs \cup l.out, "Commit", i, l.caches[i].precommit.hash)})
  <2>1. l.caches[i] \in Cache /\ l.caches[i].precommit # NoProposal
        /\ collectEnoughQuorum(l.caches[i].commits, l.caches[i].prePrepare.hash)
    BY <1>1 DEF CanCommit
  <2>2. CacheInv(msgs \cup l.out, n, i, l.caches[i])
    BY DEF LocalInv
  <2>3. /\ l.caches[i].prePrepare.hash = l.caches[i].precommit.hash
        /\ \A u \in l.caches[i].commits : VoteSent(msgs \cup l.out, "Commit", i, u)
    BY <2>1, <2>2 DEF CacheInv
  <2>4. l.caches[i].precommit.hash \in Hash
    BY <2>1 DEF Cache, Proposal
  <2> QED BY <2>1, <2>3, <2>4, VotersSent
<1>5. Q \in SUBSET (Index \X Hash)
  <2>1. \A i \in S : i \in Index /\ l.caches[i].precommit.hash \in Hash
    BY <1>4
  <2> HIDE DEF S
  <2> QED BY <2>1
<1>6. l1 \in LocalState /\ l1.out = l.out /\ Inert(l, l1)
  <2> HIDE DEF new
  <2>1. l1 \in LocalState /\ l1.caches = new /\ l1.out = l.out /\ l1.done = l.done /\ l1.ctl = l.ctl
    BY <1>3 DEF LocalState
  <2> HIDE DEF l1
  <2> QED BY <1>3, <2>1 DEF Inert, Ahead
<1>7. \A e \in Q : IsQuorum({m.from : m \in SentIn(msgs \cup l1.out, "Commit", e[1], e[2])})
  <2> SUFFICES ASSUME NEW e \in Q
               PROVE  IsQuorum({m.from : m \in SentIn(msgs \cup l1.out, "Commit", e[1], e[2])})
    OBVIOUS
  <2>1. PICK i \in S : e = <<i, l.caches[i].precommit.hash>>
    OBVIOUS
  <2>2. e[1] = i /\ e[2] = l.caches[i].precommit.hash
    BY <2>1
  <2>3. IsQuorum({m.from : m \in SentIn(msgs \cup l.out, "Commit", i, l.caches[i].precommit.hash)})
    BY <1>4
  <2> HIDE DEF l1
  <2> QED BY <1>6, <2>2, <2>3
<1> HIDE DEF l1, Q
<1>8. LocalInv(n, l1)
  BY <1>6, InertKeeps
<1>9. next \in LocalState /\ LocalInv(n, next)
  BY <1>5, <1>6, <1>7, <1>8, CommitQueueKeeps, CommitQueueType
<1> HIDE DEF next
<1>10. LocalInv(n, l2)
  <2>1. l2.caches = next.caches /\ l2.done = next.done /\ l2.out = next.out
    BY <1>9 DEF LocalState
  <2>2. l2.ctl.expected = next.ctl.expected /\ l2.ctl.committed = next.ctl.committed
    BY <1>9 DEF LocalState, Registers
  <2> HIDE DEF l2
  <2>3. Inert(next, l2)
    BY <2>1, <2>2, InertRegisters DEF Ahead
  <2> QED BY <1>9, <2>3, InertKeeps
<1> QED BY <1>2, <1>10

\* Storing a prepare or commit vote that was sent.
LEMMA AddVoteKeeps ==
  ASSUME NEW n \in Node, NEW l \in LocalState, LocalInv(n, l), NEW m \in msgs, Carries(m)
  PROVE  /\ m.type = "Prepare" =>
              LocalInv(n, [l EXCEPT !.caches[m.index] = addPrepareCache(@, VoteOf(m))])
         /\ m.type = "Commit" =>
              LocalInv(n, [l EXCEPT !.caches[m.index] = addCommitCache(@, VoteOf(m))])
<1> DEFINE M == msgs \cup l.out
           c == l.caches[m.index]
<1>1. c \in Cache /\ CacheInv(M, n, m.index, c)
  BY LocalFields DEF Carries, LocalInv
<1>2. VoteSent(M, m.type, m.index, VoteOf(m))
  BY DEF VoteSent, VoteOf
<1>3. ASSUME NEW d, CacheInv(M, n, m.index, d)
      PROVE  LocalInv(n, [l EXCEPT !.caches[m.index] = d])
  <2> DEFINE k == [l EXCEPT !.caches[m.index] = d]
  <2>1. k.out = l.out /\ k.done = l.done /\ k.ctl = l.ctl
        /\ \A i \in Index : k.caches[i] = IF i = m.index THEN d ELSE l.caches[i]
    BY DEF LocalState, Carries
  <2> HIDE DEF k
  <2>2. \A i \in Index : CacheInv(msgs \cup k.out, n, i, k.caches[i])
    BY <1>3, <2>1 DEF LocalInv
  <2>3. Ahead(k)
    BY <2>1 DEF LocalInv, Ahead
  <2>4. msgs \cup k.out = msgs \cup l.out
    BY <2>1
  <2>5. LocalInv(n, k)
    BY <2>1, <2>2, <2>3, <2>4, Zenon DEF LocalInv
  <2> QED BY <2>5 DEF k
<1>4. ASSUME m.type = "Prepare" PROVE CacheInv(M, n, m.index, addPrepareCache(c, VoteOf(m)))
  <2> DEFINE d == addPrepareCache(c, VoteOf(m))
  <2>1. /\ d.prePrepare = c.prePrepare /\ d.precommit = c.precommit /\ d.commits = c.commits
        /\ d.prepares = addCache(c.prepares, VoteOf(m))
    BY <1>1 DEF addPrepareCache, Cache
  <2>2. \A u \in d.prepares : VoteSent(M, "Prepare", m.index, u)
    BY <1>1, <1>2, <1>4, <2>1 DEF addCache, CacheInv
  <2> HIDE DEF d, c, M
  <2>3. CacheInv(M, n, m.index, d)
    BY <1>1, <2>1, <2>2 DEF CacheInv
  <2> QED BY <2>3 DEF d
<1>5. ASSUME m.type = "Commit" PROVE CacheInv(M, n, m.index, addCommitCache(c, VoteOf(m)))
  <2> DEFINE d == addCommitCache(c, VoteOf(m))
  <2>1. /\ d.prePrepare = c.prePrepare /\ d.precommit = c.precommit /\ d.prepares = c.prepares
        /\ d.commits = addCache(c.commits, VoteOf(m))
    BY <1>1 DEF addCommitCache, Cache
  <2>2. \A u \in d.commits : VoteSent(M, "Commit", m.index, u)
    BY <1>1, <1>2, <1>5, <2>1 DEF addCache, CacheInv
  <2> HIDE DEF d, c, M
  <2>3. CacheInv(M, n, m.index, d)
    BY <1>1, <2>1, <2>2 DEF CacheInv
  <2> QED BY <2>3 DEF d
<1> HIDE DEF M
<1> QED BY <1>3, <1>4, <1>5

\* Accepting a verified proposal: the lock and the watermarks keep the
\* invariant, if n answers for no number it voted for without holding the lock.
LEMMA AddProposalKeeps ==
  ASSUME NEW n \in Node, NEW l \in LocalState, LocalInv(n, l), NEW m, Carries(m),
         NEW b, AcceptProposal(l, m, b),
         /\ <<n, m.index>> \notin forgotten
         /\ CommitsOf(msgs \cup l.out, n, m.index) # {}
         /\ l.caches[m.index].precommit = NoProposal
         => m.index < LowIndex(l.ctl)
  PROVE  LocalInv(n, AddProposal(n, l, m))
<1> DEFINE p    == [view |-> m.view, hash |-> m.hash, from |-> m.from]
           vote == [from |-> n, hash |-> m.hash, view |-> l.ctl.view]
           c0   == l.caches[m.index]
           c1   == addPrePrepareCache(c0, p)
           c    == addPrepareCache(c1, vote)
           x    == ConsensusMsg("Prepare", n, m.index, l.ctl.view, m.hash)
           l1   == [l EXCEPT !.caches[m.index] = c, !.out = @ \cup {x}]
           M0   == msgs \cup l.out
           M    == msgs \cup (l.out \cup {x})
<1>0. AddProposal(n, l, m) = PreCommitAll(n, l1)
  BY DEF AddProposal
<1>1. l.ctl.view \in View /\ c0 \in Cache /\ CacheInv(M0, n, m.index, c0)
  BY LocalFields DEF Carries, LocalInv
<1>2. p \in Proposal /\ vote \in Vote /\ x \in Message /\ p # NoProposal
  BY <1>1 DEF Carries, Proposal, Vote, Message, ConsensusMsg, NoProposal, Node
<1>3. /\ p.hash = m.hash /\ vote.from = n /\ vote.hash = m.hash
      /\ x.type = "Prepare" /\ x.from = n /\ x.index = m.index /\ x.hash = m.hash
  BY DEF ConsensusMsg
<1>4. m.index >= LowIndex(l.ctl) /\ ~conflictWithPrecommitReq(c0, m.index, progressedIndex(l), m)
  BY DEF AcceptProposal, checkPrePrepareMsg, checkPBFTMsgState
<1>5. m.index >= progressedIndex(l)
  <2>1. l.ctl.expected > l.ctl.committed
    BY DEF LocalInv, Ahead
  <2> QED BY <1>4, <2>1, LocalFields, BoundAssumption DEF LowIndex, progressedIndex, Carries, Index
<1>6. c0.precommit # NoProposal => m.hash = c0.precommit.hash
  BY <1>4, <1>5 DEF conflictWithPrecommitReq
<1>7. ~(m.index < LowIndex(l.ctl))
  BY <1>4, LocalFields, BoundAssumption DEF LowIndex, Carries, Index
<1> HIDE DEF p, vote, x
<1>8. c1 \in Cache /\ c1.precommit = c0.precommit /\ c1.prepares = c0.prepares
      /\ c1.commits = c0.commits /\ (c1.prePrepare = c0.prePrepare \/ c1.prePrepare = p)
  BY <1>1, <1>2 DEF addPrePrepareCache, Cache
<1> HIDE DEF c1
<1>9. c \in Cache /\ c.precommit = c0.precommit /\ c.prepares = addCache(c0.prepares, vote)
      /\ c.commits = c0.commits /\ c.prePrepare = c1.prePrepare
  <2>1. addCache(c1.prepares, vote) \in SUBSET Vote
    BY <1>2, <1>8 DEF addCache, Cache
  <2> QED BY <1>8, <2>1 DEF addPrepareCache, Cache
<1> HIDE DEF c
<1>10. M0 \subseteq M /\ x \in M /\ \A y \in M \ M0 : y = x
  OBVIOUS
<1>11. l1 \in LocalState /\ l1.out = l.out \cup {x} /\ l1.done = l.done /\ l1.ctl = l.ctl
       /\ \A i \in Index : l1.caches[i] = IF i = m.index THEN c ELSE l.caches[i]
  BY <1>2, <1>9 DEF LocalState, Carries
<1>12. \A i \in Index : CommitsOf(M, n, i) \subseteq M0
  BY <1>3, <1>10 DEF CommitsOf
<1>13. CacheInv(M0, n, m.index, c0) /\ CacheInv(M, n, m.index, c0)
  <2>1. m.index \in Index
    BY DEF Carries
  <2> HIDE DEF M, M0, c0
  <2> QED BY <1>1, <1>10, <1>12, <2>1, CacheInvGrows
<1>14. <<n, m.index>> \notin forgotten =>
         \A y \in CommitsOf(M, n, m.index) :
           c0.precommit # NoProposal /\ y.hash = c0.precommit.hash
  <2> SUFFICES ASSUME <<n, m.index>> \notin forgotten, NEW y \in CommitsOf(M, n, m.index)
               PROVE  c0.precommit # NoProposal /\ y.hash = c0.precommit.hash
    OBVIOUS
  <2>1. y \in CommitsOf(M0, n, m.index)
    BY <1>12 DEF CommitsOf, Carries
  <2>2. c0.precommit # NoProposal
    BY <1>7, <2>1
  <2> QED BY <1>13, <2>1, <2>2 DEF CacheInv
<1>15. CacheInv(M, n, m.index, c)
  <2> HIDE DEF M, M0, c0
  <2>1. c.precommit # NoProposal =>
          /\ c.prePrepare # NoProposal
          /\ c.prePrepare.hash = c.precommit.hash
          /\ IsQuorum({y.from : y \in SentIn(M, "Prepare", m.index, c.precommit.hash)})
    BY <1>2, <1>3, <1>6, <1>8, <1>9, <1>13 DEF CacheInv
  <2>2. \A u \in c.prepares : VoteSent(M, "Prepare", m.index, u)
    <3>1. \A u \in c0.prepares : VoteSent(M, "Prepare", m.index, u)
      BY <1>13 DEF CacheInv
    <3>2. VoteSent(M, "Prepare", m.index, vote)
      BY <1>3, <1>10 DEF VoteSent
    <3> QED BY <1>9, <3>1, <3>2 DEF addCache
  <2>3. \A u \in c.commits : VoteSent(M, "Commit", m.index, u)
    BY <1>9, <1>13 DEF CacheInv
  <2>4. <<n, m.index>> \notin forgotten =>
          \A y \in CommitsOf(M, n, m.index) :
            IF c.precommit = NoProposal THEN c.prePrepare = NoProposal
            ELSE y.hash = c.precommit.hash
    BY <1>9, <1>14
  <2> QED BY <2>1, <2>2, <2>3, <2>4 DEF CacheInv
<1>16. LocalInv(n, l1)
  <2>1. msgs \cup l1.out = M /\ Ahead(l1)
    BY <1>11 DEF LocalInv, Ahead
  <2>2. \A i \in Index : CacheInv(M, n, i, l1.caches[i])
    <3> SUFFICES ASSUME NEW i \in Index, i # m.index PROVE CacheInv(M, n, i, l.caches[i])
      BY <1>11, <1>15
    <3>1. CacheInv(M0, n, i, l.caches[i])
      BY DEF LocalInv
    <3> HIDE DEF M, M0
    <3> QED BY <1>10, <1>12, <3>1, CacheInvGrows
  <2>3. \A e \in l1.done : IsQuorum({y.from : y \in SentIn(M, "Commit", e[1], e[2])})
    <3>1. \A e \in l.done : IsQuorum({y.from : y \in SentIn(M0, "Commit", e[1], e[2])})
      BY DEF LocalInv
    <3> HIDE DEF M, M0
    <3> QED BY <1>10, <1>11, <3>1, SendersMonotonic
  <2>4. \A y \in l1.out : y.type \in {"Prepare", "Commit"} => y.from = n
    BY <1>3, <1>11 DEF LocalInv
  <2>5. \A y, z \in M :
          /\ y.type = "Commit" /\ z.type = "Commit" /\ y.from = n /\ z.from = n
          /\ y.index = z.index /\ <<n, y.index>> \notin forgotten
          => y.hash = z.hash
    <3>1. \A y, z \in M0 :
            /\ y.type = "Commit" /\ z.type = "Commit" /\ y.from = n /\ z.from = n
            /\ y.index = z.index /\ <<n, y.index>> \notin forgotten
            => y.hash = z.hash
      BY DEF LocalInv
    <3> HIDE DEF M, M0
    <3> QED BY <1>3, <1>10, <3>1
  <2> HIDE DEF l1, M
  <2> QED BY <2>1, <2>2, <2>3, <2>4, <2>5 DEF LocalInv
<1> HIDE DEF l1
<1> QED BY <1>0, <1>11, <1>16, PreCommitKeeps

-----------------------------------------------------------------------------
(* Steps *)

\* A handler starts from a local state that satisfies the invariant.
LEMMA LocalStart ==
  ASSUME TypeOK, OrderingInv, NEW n \in Node
  PROVE  /\ Local(n) \in LocalState /\ LocalInv(n, Local(n))
         /\ \A i \in Index :
              /\ <<n, i>> \notin forgotten
              /\ CommitsOf(msgs, n, i) # {}
              /\ Local(n).caches[i].precommit = NoProposal
              => i < LowIndex(Local(n).ctl)
<1> DEFINE l == Local(n)
<1>1. l.ctl = ctl[n] /\ l.caches = caches[n] /\ l.out = {} /\ l.done = {}
  BY DEF Local
<1>2. l \in LocalState
  BY LocalType
<1> HIDE DEF l
<1>3. msgs \cup l.out = msgs
  BY <1>1
<1>4. LocalInv(n, l)
  <2>1. Ahead(l)
    BY <1>1 DEF Ahead, OrderingInv
  <2>2. \A i \in Index : CacheInv(msgs, n, i, l.caches[i])
    BY <1>1 DEF OrderingInv
  <2>3. \A x, y \in msgs :
          /\ x.type = "Commit" /\ y.type = "Commit" /\ x.from = n /\ y.from = n
          /\ x.index = y.index /\ <<n, x.index>> \notin forgotten
          => x.hash = y.hash
    BY DEF OrderingInv, OneCommitVote
  <2> QED BY <1>1, <1>3, <2>1, <2>2, <2>3 DEF LocalInv
<1>5. \A i \in Index :
        /\ <<n, i>> \notin forgotten
        /\ CommitsOf(msgs, n, i) # {}
        /\ l.caches[i].precommit = NoProposal
        => i < LowIndex(l.ctl)
  BY <1>1 DEF OrderingInv, VotedIsClosed
<1> QED BY <1>2, <1>4, <1>5 DEF l

\* A node that moves to a local state with the invariant keeps OrderingInv.
LEMMA StepKeeps ==
  ASSUME TypeOK, OrderingInv, NEW n \in Node, NEW l \in LocalState, LocalInv(n, l), Step(n, l)
  PROVE  OrderingInv'
<1>1. /\ ctl'[n] = l.ctl /\ caches'[n] = l.caches
      /\ \A k \in Node \ {n} : ctl'[k] = ctl[k] /\ caches'[k] = caches[k]
  BY DEF Step, TypeOK
<1>2. /\ msgs' = msgs \cup l.out
      /\ forgotten' = forgotten \cup {<<n, i>> : i \in Forgets(n, l)}
      /\ ordered' = ordered \cup {<<n, e[1], e[2]>> : e \in l.done}
  BY DEF Step
<1>3. \A m \in msgs' \ msgs : m.type \in {"Prepare", "Commit"} => m.from = n
  BY <1>2 DEF LocalInv
<1>4. msgs \subseteq msgs' /\ forgotten \subseteq forgotten'
  BY <1>2
<1>5. ASSUME NEW k \in Node PROVE ctl'[k].expected > ctl'[k].committed
  BY <1>1 DEF OrderingInv, LocalInv, Ahead
<1>6. ASSUME NEW k \in Node, NEW i \in Index PROVE CacheInv(msgs, k, i, caches[k][i])'
  <2>1. CASE k = n
    <3>1. CacheInv(msgs', n, i, l.caches[i])
      BY <1>2 DEF LocalInv
    <3>2. caches'[k][i] = l.caches[i]
      BY <1>1, <2>1
    <3> QED BY <1>4, <2>1, <3>1, <3>2 DEF CacheInv
  <2>2. CASE k # n
    <3>1. CacheInv(msgs, k, i, caches[k][i])
      BY DEF OrderingInv
    <3>2. CommitsOf(msgs', k, i) \subseteq msgs
      BY <1>3, <2>2 DEF CommitsOf
    <3>3. CacheInv(msgs', k, i, caches[k][i])
      BY <1>4, <3>1, <3>2, CacheInvGrows
    <3>4. caches'[k][i] = caches[k][i]
      BY <1>1, <2>2
    <3> QED BY <1>4, <3>3, <3>4 DEF CacheInv
  <2> QED BY <2>1, <2>2
<1>7. ASSUME NEW k \in Node PROVE VotedIsClosed(k)'
  <2>1. CASE k = n
    <3> SUFFICES ASSUME NEW i \in Index, <<n, i>> \notin forgotten',
                        CommitsOf(msgs', n, i) # {}, l.caches[i].precommit = NoProposal
                 PROVE  i < LowIndex(l.ctl)
      BY <1>1, <2>1 DEF VotedIsClosed, CommitsOf, LowIndex
    <3>1. i \notin Forgets(n, l)
      BY <1>2
    <3>2. ~(i >= LowIndex(l.ctl))
      BY <1>2, <3>1 DEF Forgets, CommitsOf
    <3> QED BY <3>2, LocalFields DEF LowIndex, Index
  <2>2. CASE k # n
    <3> SUFFICES ASSUME NEW i \in Index, <<k, i>> \notin forgotten',
                        CommitsOf(msgs', k, i) # {}, caches[k][i].precommit = NoProposal
                 PROVE  i < LowIndex(ctl[k])
      BY <1>1, <2>2 DEF VotedIsClosed, CommitsOf, LowIndex
    <3>1. CommitsOf(msgs, k, i) # {}
      BY <1>3, <2>2 DEF CommitsOf
    <3> QED BY <1>4, <3>1 DEF OrderingInv, VotedIsClosed
  <2> QED BY <2>1, <2>2
<1>8. OneCommitVote'
  <2> SUFFICES ASSUME NEW x \in msgs', NEW y \in msgs', x.type = "Commit", y.type = "Commit",
                      x.from = y.from, x.index = y.index, <<x.from, x.index>> \notin forgotten'
               PROVE  x.hash = y.hash
    BY DEF OneCommitVote
  <2>1. CASE x.from = n
    BY <1>2, <1>4, <2>1 DEF LocalInv
  <2>2. CASE x.from # n
    <3>1. x \in msgs /\ y \in msgs
      BY <1>3, <2>2
    <3> QED BY <1>4, <3>1 DEF OrderingInv, OneCommitVote
  <2> QED BY <2>1, <2>2
<1>9. OrderedByQuorum'
  <2> SUFFICES ASSUME NEW x \in ordered'
               PROVE  IsQuorum({m.from : m \in SentIn(msgs', "Commit", x[2], x[3])})
    BY DEF OrderedByQuorum, Sent, SentIn
  <2>1. CASE x \in ordered
    <3>1. IsQuorum({m.from : m \in SentIn(msgs, "Commit", x[2], x[3])})
      BY <2>1 DEF OrderingInv, OrderedByQuorum, Sent, SentIn
    <3> QED BY <1>4, <3>1, SendersMonotonic
  <2>2. CASE x \notin ordered
    <3>1. PICK e \in l.done : x = <<n, e[1], e[2]>>
      BY <1>2, <2>2
    <3>2. x[2] = e[1] /\ x[3] = e[2]
      BY <3>1
    <3> QED BY <1>2, <3>2 DEF LocalInv
  <2> QED BY <2>1, <2>2
<1> QED BY <1>5, <1>6, <1>7, <1>8, <1>9 DEF OrderingInv

\* An inert step keeps OrderingInv.
LEMMA InertStep ==
  ASSUME TypeOK, OrderingInv, NEW n \in Node, NEW l \in LocalState, Inert(Local(n), l), Step(n, l)
  PROVE  OrderingInv'
  BY LocalStart, InertKeeps, StepKeeps

\* A proposal of the own sealer keeps OrderingInv.
LEMMA SubmitProposalKeeps ==
  ASSUME TypeOK, OrderingInv, NEW n \in Node, NEW i \in Index, NEW v \in View,
         NEW s \in 1 .. MaxSeal, SubmitProposal(n, i, v, s)
  PROVE  OrderingInv'
<1> DEFINE k == Local(n)
           m == Sealed(n, i, v, s)
           l == [k EXCEPT !.out = {m}]
<1>1. k \in LocalState /\ LocalInv(n, k) /\ k.out = {}
  BY LocalStart DEF Local
<1>3. m \in Message /\ Carries(m) /\ m.type = "PrePrepare" /\ m.index = i
  BY SealedType DEF Sealed, ConsensusMsg
<1>4. Step(n, AddProposal(n, l, m)) /\ AcceptProposal(k, m, FALSE)
  BY DEF SubmitProposal, Handled
<1>5. \A j \in Index :
        /\ <<n, j>> \notin forgotten /\ CommitsOf(msgs, n, j) # {}
        /\ k.caches[j].precommit = NoProposal
        => j < LowIndex(k.ctl)
  BY LocalStart
<1> HIDE DEF m, k
<1>6. l = [k EXCEPT !.out = @ \cup {m}]
  BY <1>1
<1>7. l \in LocalState /\ l.ctl = k.ctl /\ l.caches = k.caches /\ l.out = {m}
  BY <1>1, <1>3 DEF LocalState
<1>8. LocalInv(n, l)
  <2>1. Inert(k, l)
    BY <1>1, <1>3, <1>6, InertSend
  <2> HIDE DEF l
  <2> QED BY <1>1, <2>1, InertKeeps
<1> HIDE DEF l
<1>9. AcceptProposal(l, m, FALSE)
  BY <1>4, <1>7 DEF AcceptProposal, checkPrePrepareMsg, progressedIndex
<1>10. CommitsOf(msgs \cup l.out, n, m.index) = CommitsOf(msgs, n, m.index)
  BY <1>3, <1>7 DEF CommitsOf
<1>11. LocalInv(n, AddProposal(n, l, m)) /\ AddProposal(n, l, m) \in LocalState
  BY <1>3, <1>5, <1>7, <1>8, <1>9, <1>10, AddProposalKeeps, AddProposalType
<1> QED BY <1>4, <1>11, StepKeeps

\* Receiving a pre-prepare keeps OrderingInv.
LEMMA HandlePrePrepareKeeps ==
  ASSUME TypeOK, OrderingInv, NEW n \in Node, NEW m \in msgs, HandlePrePrepare(n, m)
  PROVE  OrderingInv'
<1> DEFINE P == Local(n).pending \cup {PendingOf(m, "verify", FALSE)}
           l == [Local(n) EXCEPT !.pending = P]
<1>1. Carries(m)
  BY MessageFields DEF HandlePrePrepare, TypeOK
<1>2. PendingOf(m, "verify", FALSE) \in Pending
  BY <1>1 DEF Carries, PendingOf, Pending
<1>3. Local(n) \in LocalState /\ P \in SUBSET Pending
  BY <1>2, LocalType, LocalFields
<1>4. Step(n, l)
  BY DEF HandlePrePrepare, Handled
<1> HIDE DEF P
<1>5. l \in LocalState /\ Inert(Local(n), l)
  BY <1>3, PendingType, InertPending
<1> HIDE DEF l
<1> QED BY <1>4, <1>5, InertStep

\* The answers of the validator and of the holder of a proposal keep OrderingInv.
LEMMA VerifyKeeps ==
  ASSUME TypeOK, OrderingInv, NEW n \in Node, NEW p \in pending[n],
         VerifySucceeds(n, p) \/ VerifyFails(n, p) \/ PrecommitResponse(n, p)
  PROVE  OrderingInv'
<1> DEFINE k == Local(n)
           P == k.pending \ {p}
           l == [k EXCEPT !.pending = P]
           q == [p EXCEPT !.stage = "verify"]
           l1 == [l EXCEPT !.pending = @ \cup {q}]
<1>1. p \in Pending /\ Carries(p) /\ q \in Pending
  BY DEF TypeOK, Pending, Carries
<1>2. k \in LocalState /\ LocalInv(n, k) /\ P \in SUBSET Pending /\ k.out = {}
  BY LocalStart, LocalFields DEF Local
<1>3. \A j \in Index :
        /\ <<n, j>> \notin forgotten /\ CommitsOf(msgs, n, j) # {}
        /\ k.caches[j].precommit = NoProposal
        => j < LowIndex(k.ctl)
  BY LocalStart
<1>4. \/ Step(n, l) \/ Step(n, l1)
      \/ AcceptProposal(l, p, p.newView) /\ Step(n, AddProposal(n, l, p))
  BY DEF VerifySucceeds, VerifyFails, PrecommitResponse, Run
<1> HIDE DEF P, k, q
<1>5. l \in LocalState /\ Inert(k, l)
  BY <1>2, PendingType, InertPending
<1>6. l.ctl = k.ctl /\ l.caches = k.caches /\ l.out = {} /\ l.pending = P
  BY <1>2 DEF LocalState
<1> HIDE DEF l
<1>7. l1 \in LocalState /\ Inert(l, l1)
  <2>1. l.pending \cup {q} \in SUBSET Pending
    BY <1>1, <1>2, <1>6
  <2> QED BY <1>5, <2>1, PendingType, InertPending
<1>8. LocalInv(n, l)
  BY <1>2, <1>5, InertKeeps
<1>9. LocalInv(n, l1)
  BY <1>7, <1>8, InertKeeps
<1> HIDE DEF l1
<1>10. ASSUME AcceptProposal(l, p, p.newView)
       PROVE  LocalInv(n, AddProposal(n, l, p)) /\ AddProposal(n, l, p) \in LocalState
  <2>1. msgs \cup l.out = msgs /\ p.index \in Index
    BY <1>1, <1>6 DEF Carries
  <2> QED BY <1>1, <1>3, <1>5, <1>6, <1>8, <1>10, <2>1, AddProposalKeeps, AddProposalType
<1> QED BY <1>4, <1>5, <1>7, <1>8, <1>9, <1>10, StepKeeps

\* Prepare and commit messages keep OrderingInv.
LEMMA HandleVoteKeeps ==
  ASSUME TypeOK, OrderingInv, NEW n \in Node, NEW m \in msgs, HandlePrepare(n, m) \/ HandleCommit(n, m)
  PROVE  OrderingInv'
<1> DEFINE k == Local(n)
           c == addPrepareCache(k.caches[m.index], VoteOf(m))
           d == addCommitCache(k.caches[m.index], VoteOf(m))
           lp == [k EXCEPT !.caches[m.index] = c]
           lc == [k EXCEPT !.caches[m.index] = d]
<1>1. Carries(m)
  BY MessageFields DEF HandlePrepare, HandleCommit, TypeOK
<1>2. VoteOf(m) \in Vote
  BY <1>1 DEF Carries, VoteOf, Vote
<1>3. k \in LocalState /\ LocalInv(n, k)
  BY LocalStart
<1>4. \/ m.type = "Prepare" /\ Step(n, PreCommitAll(n, lp))
      \/ m.type = "Commit" /\ Step(n, CommitAll(lc))
  BY DEF HandlePrepare, HandleCommit, Handled
<1> HIDE DEF k
<1>5. k.caches[m.index] \in Cache
  BY <1>1, <1>3, LocalFields DEF Carries
<1>6. c \in Cache /\ d \in Cache
  <2>1. addCache(k.caches[m.index].prepares, VoteOf(m)) \in SUBSET Vote
    BY <1>2, <1>5 DEF addCache, Cache
  <2>2. addCache(k.caches[m.index].commits, VoteOf(m)) \in SUBSET Vote
    BY <1>2, <1>5 DEF addCache, Cache
  <2> QED BY <1>5, <2>1, <2>2 DEF addPrepareCache, addCommitCache, Cache
<1>7. /\ m.type = "Prepare" => LocalInv(n, lp)
      /\ m.type = "Commit" => LocalInv(n, lc)
  BY <1>1, <1>3, AddVoteKeeps
<1>8. lp \in LocalState /\ lc \in LocalState
  <2> HIDE DEF c, d
  <2> QED BY <1>1, <1>3, <1>6 DEF Carries, LocalState
<1> HIDE DEF lp, lc
<1>9. m.type = "Prepare" => LocalInv(n, PreCommitAll(n, lp)) /\ PreCommitAll(n, lp) \in LocalState
  BY <1>7, <1>8, PreCommitKeeps, PreCommitType
<1>10. m.type = "Commit" => LocalInv(n, CommitAll(lc)) /\ CommitAll(lc) \in LocalState
  BY <1>7, <1>8, CommitKeeps, CommitType
<1> QED BY <1>4, <1>9, <1>10, StepKeeps

\* A timeout keeps OrderingInv.
LEMMA OnTimeoutKeeps ==
  ASSUME TypeOK, OrderingInv, NEW n \in Node, OnTimeout(n)
  PROVE  OrderingInv'
<1> DEFINE k == Local(n)
           l == tryToApplyCommitQueue(k)
           busy == {e \in l.ctl.executing : e[1] > l.ctl.committed}
           idle == [l EXCEPT !.ctl.executing = busy]
<1>1. k \in LocalState /\ k.ctl = ctl[n]
  BY LocalType DEF Local
<1>2. Step(n, l) \/ Step(n, idle) \/ Step(n, triggerTimeout(n, idle))
  BY DEF OnTimeout, Run
<1>3. ctl[n].toView < MaxView /\ ctl[n].toView \in View
  BY DEF OnTimeout, TypeOK, Registers
<1>4. l.ctl.toView = ctl[n].toView
  BY <1>1 DEF tryToApplyCommitQueue, LocalState, Registers
<1>5. l \in LocalState /\ Inert(k, l)
  <2> HIDE DEF k
  <2> QED BY <1>1, ApplyType, InertApply
<1> HIDE DEF l
<1>6. idle \in LocalState /\ Inert(l, idle) /\ idle.ctl.toView = ctl[n].toView
  <2>1. busy \subseteq Index \X Hash
    BY <1>5, LocalFields
  <2> HIDE DEF busy
  <2>2. [l.ctl EXCEPT !.executing = busy] \in Registers
    BY <1>5, <2>1 DEF LocalState, Registers
  <2>3. idle \in LocalState
    BY <1>5, <2>2 DEF LocalState
  <2>4. idle.caches = l.caches /\ idle.done = l.done /\ idle.out = l.out
    BY <1>5 DEF LocalState
  <2>5. /\ idle.ctl.expected = l.ctl.expected /\ idle.ctl.committed = l.ctl.committed
        /\ idle.ctl.toView = l.ctl.toView
    BY <1>5 DEF LocalState, Registers
  <2> HIDE DEF idle
  <2> QED BY <1>4, <2>3, <2>4, <2>5, InertRegisters DEF Ahead
<1> HIDE DEF idle, k
<1>7. [idle EXCEPT !.ctl.toView = ctl[n].toView] = idle
  BY <1>6 DEF LocalState, Registers
<1>8. triggerTimeout(n, idle) \in LocalState /\ Inert(idle, triggerTimeout(n, idle))
  BY <1>3, <1>6, <1>7, TimeoutType, InertTimeout
<1>9. Inert(k, idle)
  BY <1>5, <1>6, InertTransitive
<1>10. Inert(k, triggerTimeout(n, idle))
  BY <1>8, <1>9, InertTransitive
<1> QED BY <1>2, <1>5, <1>6, <1>8, <1>9, <1>10, InertStep DEF k

\* View changes, new views and recover responses keep OrderingInv.
LEMMA HandleViewKeeps ==
  ASSUME TypeOK, OrderingInv, NEW n \in Node, NEW m \in msgs,
         HandleViewChange(n, m) \/ HandleNewView(n, m) \/ HandleRecoverResponse(n, m)
  PROVE  OrderingInv'
<1> DEFINE k == Local(n)
           R == k.ctl.recover \cup {<<m.view, m.from>>}
           l1 == [k EXCEPT !.ctl.recover = R]
<1>1. k \in LocalState /\ m \in Message
  BY LocalType DEF TypeOK
<1>2. CASE HandleViewChange(n, m)
  <2>1. m \in ViewChangeMsg
    BY <1>1, <1>2, MessageFields DEF HandleViewChange
  <2>2. Step(n, handleViewChangeMsg(n, k, m))
    BY <1>2 DEF HandleViewChange, Handled
  <2>3. handleViewChangeMsg(n, k, m) \in LocalState /\ Inert(k, handleViewChangeMsg(n, k, m))
    <3> HIDE DEF k
    <3> QED BY <1>1, <2>1, HandleViewChangeType, InertHandleViewChange
  <2> QED BY <2>2, <2>3, InertStep
<1>3. CASE HandleNewView(n, m)
  <2>1. m \in NewViewMsg
    BY <1>1, <1>3, MessageFields DEF HandleNewView
  <2>2. Step(n, handleNewViewMsg(n, k, m))
    BY <1>3 DEF HandleNewView, Handled
  <2>3. handleNewViewMsg(n, k, m) \in LocalState /\ Inert(k, handleNewViewMsg(n, k, m))
    <3> HIDE DEF k
    <3> QED BY <1>1, <2>1, HandleNewViewType, InertHandleNewView
  <2> QED BY <2>2, <2>3, InertStep
<1>4. CASE HandleRecoverResponse(n, m)
  <2>1. m.from \in Node /\ m.view \in View
    BY <1>1, <1>4, MessageFields DEF HandleRecoverResponse
  <2>2. Step(n, checkAndTryToRecover(l1))
    BY <1>4 DEF HandleRecoverResponse, Handled
  <2> HIDE DEF k
  <2>3. R \subseteq View \X Node
    BY <1>1, <2>1 DEF LocalState, Registers
  <2> HIDE DEF R
  <2>4. [k.ctl EXCEPT !.recover = R] \in Registers
    BY <1>1, <2>3 DEF LocalState, Registers
  <2>5. l1 \in LocalState
    BY <1>1, <2>4 DEF LocalState
  <2>6. l1.caches = k.caches /\ l1.done = k.done /\ l1.out = k.out
    BY <1>1 DEF LocalState
  <2>7. l1.ctl.expected = k.ctl.expected /\ l1.ctl.committed = k.ctl.committed
    BY <1>1 DEF LocalState, Registers
  <2> HIDE DEF l1
  <2>8. Inert(k, l1)
    BY <2>6, <2>7, InertRegisters DEF Ahead
  <2>9. checkAndTryToRecover(l1) \in LocalState /\ Inert(k, checkAndTryToRecover(l1))
    BY <2>5, <2>8, RecoverType, InertRecover, InertTransitive
  <2> QED BY <2>2, <2>9, InertStep DEF k
<1> QED BY <1>2, <1>3, <1>4

\* Execution, checkpoints, commits and synchronisation keep OrderingInv.
LEMMA LedgerKeeps ==
  ASSUME TypeOK, OrderingInv, NEW n \in Node,
         \/ \E e \in ctl[n].executing : ApplySuccess(n, e)
         \/ \E i \in Index : StableCheckPoint(n, i)
         \/ CommitStable(n)
         \/ \E k \in Index : SyncBlock(n, k)
         \/ \E k \in Index : NotifySyncing(n, k)
  PROVE  OrderingInv'
<1> DEFINE l == Local(n)
<1>1. l \in LocalState /\ l.ctl = ctl[n] /\ l.caches = caches[n]
  BY LocalType DEF Local
<1> HIDE DEF l
<1>2. ASSUME NEW e \in ctl[n].executing, ApplySuccess(n, e) PROVE OrderingInv'
  <2>1. e \in Index \X Hash
    BY <1>1, LocalFields
  <2>2. Step(n, onProposalApplySuccess(n, l, e))
    BY <1>2 DEF ApplySuccess, Run, l
  <2>3. onProposalApplySuccess(n, l, e) \in LocalState /\ Inert(l, onProposalApplySuccess(n, l, e))
    BY <1>1, <2>1, ApplySuccessType, InertApplySuccess
  <2> QED BY <2>2, <2>3, InertStep DEF l
<1>3. ASSUME NEW i \in Index, StableCheckPoint(n, i) PROVE OrderingInv'
  <2> DEFINE c == [l.caches[i] EXCEPT !.stable = TRUE]
             Q == l.ctl.stableQueue \cup {i}
             l0 == [l EXCEPT !.caches[i] = c]
             l1 == [l EXCEPT !.caches[i] = c, !.ctl.stableQueue = Q]
  <2>0. l.caches[i] \in Cache
    BY <1>1, LocalFields
  <2>1. c \in Cache /\ KeepsCache(l.caches[i], c)
    BY <2>0 DEF Cache, KeepsCache
  <2>2. Q \subseteq Index
    BY <1>1 DEF LocalState, Registers
  <2>3. Step(n, [l EXCEPT !.caches[i].stable = TRUE, !.ctl.stableQueue = @ \cup {i}])
    BY <1>3 DEF StableCheckPoint, Run, l
  <2>4. [l EXCEPT !.caches[i].stable = TRUE, !.ctl.stableQueue = @ \cup {i}] = l1
    BY <1>1 DEF LocalState
  <2> HIDE DEF c, Q
  <2>5. [l.ctl EXCEPT !.stableQueue = Q] \in Registers
    BY <1>1, <2>2 DEF LocalState, Registers
  <2>6. l1 \in LocalState
    BY <1>1, <2>1, <2>5 DEF LocalState
  <2>7. /\ l1.done = l.done /\ l1.out = l.out
        /\ \A j \in Index : l1.caches[j] = IF j = i THEN c ELSE l.caches[j]
    BY <1>1 DEF LocalState
  <2>8. l1.ctl.expected = l.ctl.expected /\ l1.ctl.committed = l.ctl.committed
    BY <1>1 DEF LocalState, Registers
  <2> HIDE DEF l1
  <2>9. \A j \in Index : KeepsCache(l.caches[j], l1.caches[j])
    <3>1. \A j \in Index : KeepsCache(l.caches[j], l.caches[j])
      BY DEF KeepsCache
    <3> QED BY <2>1, <2>7, <3>1
  <2>10. Inert(l, l1)
    BY <2>7, <2>8, <2>9 DEF Inert, Ahead
  <2> QED BY <2>3, <2>4, <2>6, <2>10, InertStep DEF l
<1>4. ASSUME CommitStable(n) PROVE OrderingInv'
  <2> DEFINE k == ctl[n].committed + 1
  <2>1. k \in Index
    BY <1>1, <1>4 DEF CommitStable, LocalState, Registers
  <2>2. Step(n, finalizeConsensus(l, k, FALSE))
    BY <1>4 DEF CommitStable, Run, l
  <2> HIDE DEF k
  <2>3. finalizeConsensus(l, k, FALSE) \in LocalState /\ Inert(l, finalizeConsensus(l, k, FALSE))
    BY <1>1, <2>1, FinalizeType, InertFinalize
  <2> QED BY <2>2, <2>3, InertStep DEF l
<1>5. ASSUME NEW k \in Index, SyncBlock(n, k) PROVE OrderingInv'
  <2>2. Step(n, finalizeConsensus(l, k, TRUE))
    BY <1>5 DEF SyncBlock, Run, l
  <2>3. finalizeConsensus(l, k, TRUE) \in LocalState /\ Inert(l, finalizeConsensus(l, k, TRUE))
    BY <1>1, FinalizeType, InertFinalize
  <2> QED BY <2>2, <2>3, InertStep DEF l
<1>6. ASSUME NEW k \in Index, NotifySyncing(n, k) PROVE OrderingInv'
  <2> DEFINE l1 == [l EXCEPT !.ctl.syncing = k]
  <2>1. k \in 0 .. MaxIndex
    BY BoundAssumption DEF Index
  <2>2. Step(n, l1)
    BY <1>6 DEF NotifySyncing, Run, l
  <2>3. [l.ctl EXCEPT !.syncing = k] \in Registers
    BY <1>1, <2>1 DEF LocalState, Registers
  <2>4. l1 \in LocalState
    BY <1>1, <2>3 DEF LocalState
  <2>5. l1.caches = l.caches /\ l1.done = l.done /\ l1.out = l.out
    BY <1>1 DEF LocalState
  <2>6. l1.ctl.expected = l.ctl.expected /\ l1.ctl.committed = l.ctl.committed
    BY <1>1 DEF LocalState, Registers
  <2> HIDE DEF l1
  <2>7. Inert(l, l1)
    BY <2>5, <2>6, InertRegisters DEF Ahead
  <2> QED BY <2>2, <2>4, <2>7, InertStep DEF l
<1> QED BY <1>2, <1>3, <1>4, <1>5, <1>6

\* A restart keeps OrderingInv: what is lost is recorded as forgotten.
LEMMA RestartKeeps ==
  ASSUME TypeOK, OrderingInv, NEW n \in Node, NEW j \in 0 .. MaxIndex, Restart(n, j)
  PROVE  OrderingInv'
<1> DEFINE k == ctl[n].committed
           M == {x \in msgs : x.type = "CheckPoint" /\ x.from = n /\ x.index > k /\ x.index <= j}
           Q == {<<m.index, m.hash>> : m \in M}
           l == [ctl |-> StartRegisters(k, j + 1, Q), caches |-> [i \in Index |-> EmptyCache],
                 pending |-> {}, out |-> {}, done |-> {}]
           l1 == tryToApplyCommitQueue(l)
<1>1. k \in 0 .. MaxIndex /\ j + 1 \in 1 .. MaxIndex + 1
  BY BoundAssumption DEF TypeOK, Registers
<1>2. Q \in SUBSET (Index \X Hash)
  <2>1. \A m \in M : m.index \in Index /\ m.hash \in Hash
    BY MessageFields DEF TypeOK
  <2> HIDE DEF M
  <2> QED BY <2>1
<1>3. Step(n, l1)
  BY DEF Restart
<1> HIDE DEF Q, k
<1>4. l \in LocalState
  <2>1. StartRegisters(k, j + 1, Q) \in Registers /\ [i \in Index |-> EmptyCache] \in [Index -> Cache]
    BY <1>1, <1>2, StartType
  <2> QED BY <2>1 DEF LocalState
<1>5. LocalInv(n, l)
  <2>1. l.out = {} /\ l.done = {} /\ l.ctl.expected = k + 1 /\ l.ctl.committed = k
        /\ \A i \in Index : l.caches[i] = EmptyCache
    BY DEF StartRegisters
  <2>2. Ahead(l)
    BY <1>1, <2>1 DEF Ahead
  <2>3. \A i \in Index : CacheInv(msgs, n, i, EmptyCache)
    BY DEF CacheInv, EmptyCache
  <2>4. \A x, y \in msgs :
          /\ x.type = "Commit" /\ y.type = "Commit" /\ x.from = n /\ y.from = n
          /\ x.index = y.index /\ <<n, x.index>> \notin forgotten
          => x.hash = y.hash
    BY DEF OrderingInv, OneCommitVote
  <2>5. msgs \cup l.out = msgs
    BY <2>1
  <2> HIDE DEF l
  <2> QED BY <2>1, <2>2, <2>3, <2>4, <2>5 DEF LocalInv
<1> HIDE DEF l
<1>6. l1 \in LocalState /\ LocalInv(n, l1)
  BY <1>4, <1>5, ApplyType, InertApply, InertKeeps
<1> HIDE DEF l1
<1> QED BY <1>3, <1>6, StepKeeps

\* OrderingInv holds initially.
LEMMA InitKeeps == Init => OrderingInv
<1> SUFFICES ASSUME Init PROVE OrderingInv
  OBVIOUS
<1>1. \A n \in Node : ctl[n].expected > ctl[n].committed
  BY DEF Init, StartRegisters
<1>2. \A n \in Node, i \in Index : caches[n][i] = EmptyCache
  BY DEF Init
<1>3. \A n \in Node, i \in Index : CacheInv(msgs, n, i, EmptyCache)
  BY DEF CacheInv, EmptyCache
<1>4. \A n \in Node : VotedIsClosed(n)
  BY DEF Init, VotedIsClosed, CommitsOf
<1>5. OneCommitVote /\ OrderedByQuorum
  BY DEF Init, OneCommitVote, OrderedByQuorum
<1> QED BY <1>1, <1>2, <1>3, <1>4, <1>5 DEF OrderingInv

\* Every step of Next, or a stuttering step, keeps OrderingInv.
LEMMA NextKeeps == TypeOK /\ OrderingInv /\ [Next]_vars => OrderingInv'
<1> SUFFICES ASSUME TypeOK, OrderingInv, [Next]_vars PROVE OrderingInv'
  OBVIOUS
<1>1. CASE UNCHANGED <<ctl, caches, msgs, ordered, forgotten>>
  <2>1. OneCommitVote' /\ OrderedByQuorum'
    BY <1>1 DEF OrderingInv, OneCommitVote, OrderedByQuorum, Sent
  <2>2. \A n \in Node, i \in Index : CacheInv(msgs, n, i, caches[n][i])'
    BY <1>1 DEF OrderingInv, CacheInv
  <2>3. \A n \in Node : VotedIsClosed(n)'
    BY <1>1 DEF OrderingInv, VotedIsClosed
  <2> QED BY <1>1, <2>1, <2>2, <2>3 DEF OrderingInv
<1>2. CASE Next
  <2>1. PICK n \in Running :
          \/ Waits(n)
          \/ \E i \in Index, v \in View, s \in 1 .. MaxSeal : SubmitProposal(n, i, v, s)
          \/ \E m \in msgs : HandlePrePrepare(n, m)
          \/ \E m \in msgs : HandlePrepare(n, m) \/ HandleCommit(n, m)
          \/ \E m \in msgs : \/ HandleViewChange(n, m) \/ HandleNewView(n, m)
                             \/ HandleRecoverResponse(n, m)
          \/ \E p \in pending[n] : \/ VerifySucceeds(n, p) \/ VerifyFails(n, p)
                                   \/ PrecommitResponse(n, p)
          \/ OnTimeout(n)
          \/ \/ \E e \in ctl[n].executing : ApplySuccess(n, e)
             \/ \E i \in Index : StableCheckPoint(n, i)
             \/ CommitStable(n)
             \/ \E k \in Index : SyncBlock(n, k)
             \/ \E k \in Index : NotifySyncing(n, k)
          \/ \E j \in 0 .. MaxIndex : Restart(n, j)
    BY <1>2, Zenon DEF Next, Waits
  <2>2. n \in Node
    BY BoundAssumption
  <2> QED
    BY <1>1, <2>1, <2>2, WaitsType, SubmitProposalKeeps, HandlePrePrepareKeeps, HandleVoteKeeps, HandleViewKeeps,
       VerifyKeeps, OnTimeoutKeeps, LedgerKeeps, RestartKeeps
<1> QED BY <1>1, <1>2 DEF vars

(***************************************************************************)
(* OrderingInv is an invariant: through every handler, callback, view      *)
(* change, commit, synchronisation and restart, the caches of a node agree *)
(* with the votes it sent.                                                 *)
(***************************************************************************)
THEOREM OrderingInvariant == Spec => []OrderingInv
<1>1. Init => TypeOK /\ OrderingInv
  BY InitType, InitKeeps
<1>2. (TypeOK /\ OrderingInv) /\ [Next]_vars => (TypeOK /\ OrderingInv)'
  BY NextType, NextKeeps
<1> QED BY <1>1, <1>2, PTL DEF Spec

(***************************************************************************)
(* A node is locked on the proposal in consensus (LockedProposal), on what *)
(* a quorum prepared (PreparedByQuorum), and votes for one proposal per    *)
(* block number (OneCommitVote); what is executed has a quorum of commits  *)
(* (OrderedByQuorum).                                                      *)
(***************************************************************************)
THEOREM LocksHold ==
  Spec => [](LockedProposal /\ PreparedByQuorum /\ OneCommitVote /\ OrderedByQuorum)
<1>1. OrderingInv => LockedProposal /\ PreparedByQuorum /\ OneCommitVote /\ OrderedByQuorum
  <2> SUFFICES ASSUME OrderingInv PROVE LockedProposal /\ PreparedByQuorum
    BY DEF OrderingInv
  <2>1. \A n \in Node, i \in Index : CacheInv(msgs, n, i, caches[n][i])
    BY DEF OrderingInv
  <2>2. LockedProposal
    BY <2>1 DEF CacheInv, LockedProposal
  <2>3. PreparedByQuorum
    BY <2>1 DEF CacheInv, PreparedByQuorum, Sent, SentIn
  <2> QED BY <2>2, <2>3
<1> QED BY <1>1, OrderingInvariant, PTL

\* Two quorums of commit votes for different proposals share only nodes that
\* voted twice, and these lost their lock in between.
LEMMA QuorumsForget ==
  ASSUME TypeOK, OneCommitVote, NEW i, NEW h, NEW g, h # g,
         IsQuorum({m.from : m \in Sent("Commit", i, h)}),
         IsQuorum({m.from : m \in Sent("Commit", i, g)})
  PROVE  Weight(ForgottenAt(i)) > MaxFaultyQuorum
<1> DEFINE S == {m.from : m \in Sent("Commit", i, h)}
           T == {m.from : m \in Sent("Commit", i, g)}
<1>1. \A m \in msgs : m.type = "Commit" => m.from \in Node
  BY MessageFields DEF TypeOK, Carries
<1>2. S \in SUBSET Node /\ T \in SUBSET Node
  BY <1>1 DEF Sent
<1>3. S \cap T \subseteq ForgottenAt(i)
  <2> SUFFICES ASSUME NEW n \in S, n \in T PROVE n \in ForgottenAt(i)
    OBVIOUS
  <2>1. PICK x \in msgs : x.type = "Commit" /\ x.index = i /\ x.hash = h /\ x.from = n
    BY DEF Sent
  <2>2. PICK y \in msgs : y.type = "Commit" /\ y.index = i /\ y.hash = g /\ y.from = n
    BY DEF Sent
  <2>3. <<n, i>> \in forgotten
    BY <2>1, <2>2 DEF OneCommitVote
  <2> QED BY <1>2, <2>3 DEF ForgottenAt
<1>4. IsQuorum(S) /\ IsQuorum(T)
  OBVIOUS
<1> HIDE DEF S, T
<1>5. Weight(S \cap T) > MaxFaultyQuorum
  BY <1>2, <1>4, QuorumIntersection
<1>6. Weight(S \cap T) <= Weight(ForgottenAt(i))
  BY <1>3, WeightMonotonic
<1>7. Weight(S \cap T) \in Nat /\ Weight(ForgottenAt(i)) \in Nat /\ TotalQuorum \in Nat
  BY WeightType, TotalPositive
<1> QED BY <1>5, <1>6, <1>7 DEF MaxFaultyQuorum

(***************************************************************************)
(* Agreement, for every number of nodes, every distribution of weights and *)
(* every bound: two nodes hand different proposals for a block number to   *)
(* execution only if nodes of more weight than MaxFaultyQuorum voted for   *)
(* that number and lost their lock.                                        *)
(***************************************************************************)
THEOREM AgreementHolds == Spec => []Agreement
<1>1. TypeOK /\ OrderingInv => Agreement
  <2> SUFFICES ASSUME TypeOK, OrderingInv, NEW x \in ordered, NEW y \in ordered,
                      x[2] = y[2], x[3] # y[3]
               PROVE  Weight(ForgottenAt(x[2])) > MaxFaultyQuorum
    BY DEF Agreement
  <2>1. OneCommitVote /\ OrderedByQuorum
    BY DEF OrderingInv
  <2>2. /\ IsQuorum({m.from : m \in Sent("Commit", x[2], x[3])})
        /\ IsQuorum({m.from : m \in Sent("Commit", x[2], y[3])})
    BY <2>1 DEF OrderedByQuorum
  <2> QED BY <2>1, <2>2, QuorumsForget
<1> QED BY <1>1, TypeInvariant, OrderingInvariant, PTL

(***************************************************************************)
(* A node that has not lost its lock votes for one proposal per block      *)
(* number, over all views (conflictWithPrecommitReq).                      *)
(***************************************************************************)
COROLLARY OneCommitVoteHolds == Spec => []OneCommitVote
<1> QED BY LocksHold, PTL

(***************************************************************************)
(* What a node hands to execution was voted for by a quorum of commit      *)
(* messages, although the caches count the votes of several views.         *)
(***************************************************************************)
COROLLARY OrderedByQuorumHolds == Spec => []OrderedByQuorum
<1> QED BY LocksHold, PTL

-----------------------------------------------------------------------------
(* The refinement: PBFTOrdering implements BlockDecision *)

\* What a step of any action does to the histories: they only grow.
LEMMA HistoriesGrow ==
  ASSUME [Next]_vars
  PROVE  msgs \subseteq msgs' /\ ordered \subseteq ordered' /\ forgotten \subseteq forgotten'
<1>1. CASE UNCHANGED vars
  BY <1>1 DEF vars
<1>2. ASSUME NEW n, NEW l, Step(n, l)
      PROVE  msgs \subseteq msgs' /\ ordered \subseteq ordered' /\ forgotten \subseteq forgotten'
  BY <1>2 DEF Step
<1>3. CASE Next
  <2>1. PICK n \in Running :
          \/ Waits(n)
          \/ \E i \in Index, v \in View, s \in 1 .. MaxSeal : SubmitProposal(n, i, v, s)
          \/ \E m \in msgs : \/ HandlePrePrepare(n, m) \/ HandlePrepare(n, m)
                             \/ HandleCommit(n, m) \/ HandleViewChange(n, m)
                             \/ HandleNewView(n, m) \/ HandleRecoverResponse(n, m)
          \/ \E p \in pending[n] : \/ VerifySucceeds(n, p) \/ VerifyFails(n, p)
                                   \/ PrecommitResponse(n, p)
          \/ OnTimeout(n) \/ CommitStable(n)
          \/ \E e \in ctl[n].executing : ApplySuccess(n, e)
          \/ \E i \in Index : \/ StableCheckPoint(n, i) \/ SyncBlock(n, i)
                              \/ NotifySyncing(n, i)
          \/ \E j \in 0 .. MaxIndex : Restart(n, j)
    BY <1>3, Zenon DEF Next, Waits
  <2>2. ASSUME NEW i \in Index, NEW v \in View, NEW s \in 1 .. MaxSeal, SubmitProposal(n, i, v, s)
        PROVE  \E l : Step(n, l)
    BY <2>2, Zenon DEF SubmitProposal, Handled
  <2>3. ASSUME NEW m \in msgs,
               \/ HandlePrePrepare(n, m) \/ HandlePrepare(n, m) \/ HandleCommit(n, m)
               \/ HandleViewChange(n, m) \/ HandleNewView(n, m) \/ HandleRecoverResponse(n, m)
        PROVE  \E l : Step(n, l)
    BY <2>3, Zenon DEF HandlePrePrepare, HandlePrepare, HandleCommit, HandleViewChange,
       HandleNewView, HandleRecoverResponse, Handled
  <2>4. ASSUME NEW p \in pending[n],
               VerifySucceeds(n, p) \/ VerifyFails(n, p) \/ PrecommitResponse(n, p)
        PROVE  \E l : Step(n, l)
    BY <2>4, Zenon DEF VerifySucceeds, VerifyFails, PrecommitResponse, Run
  <2>5. ASSUME OnTimeout(n) \/ CommitStable(n) PROVE \E l : Step(n, l)
    BY <2>5, Zenon DEF OnTimeout, CommitStable, Run
  <2>6. ASSUME NEW e \in ctl[n].executing, ApplySuccess(n, e) PROVE \E l : Step(n, l)
    BY <2>6, Zenon DEF ApplySuccess, Run
  <2>7. ASSUME NEW i \in Index, StableCheckPoint(n, i) \/ SyncBlock(n, i) \/ NotifySyncing(n, i)
        PROVE  \E l : Step(n, l)
    BY <2>7, Zenon DEF StableCheckPoint, SyncBlock, NotifySyncing, Run
  <2>8. ASSUME NEW j \in 0 .. MaxIndex, Restart(n, j) PROVE \E l : Step(n, l)
    BY <2>8, Zenon DEF Restart
  <2>0. ASSUME Waits(n) PROVE UNCHANGED <<msgs, ordered, forgotten>>
    BY <2>0, Zenon DEF Waits, Take, TakeSealed, Wait, Refuse
  <2>9. Waits(n) \/ \E l : Step(n, l)
    BY <2>1, <2>2, <2>3, <2>4, <2>5, <2>6, <2>7, <2>8
  <2> QED BY <1>2, <2>0, <2>9
<1> QED BY <1>1, <1>3

\* A quorum of commit votes for a block number is for one proposal, unless
\* the number is broken.
LEMMA OneChosen ==
  ASSUME TypeOK, OneCommitVote, NEW i \in Index
  PROVE  i \in Broken \/ \A g, h \in Chosen[i] : g = h
<1> SUFFICES ASSUME i \notin Broken PROVE \A g, h \in Chosen[i] : g = h
  OBVIOUS
<1>1. ~(Weight(ForgottenAt(i)) > MaxFaultyQuorum)
  BY DEF Broken
<1>2. \A h \in Chosen[i] : h \in Hash /\ IsQuorum({m.from : m \in Sent("Commit", i, h)})
  <2>1. \A m \in msgs : m.type = "Commit" => m.hash \in Hash
    BY MessageFields DEF TypeOK, Carries
  <2> QED BY <2>1 DEF Chosen
<1> QED BY <1>1, <1>2, QuorumsForget

\* The initial states map to initial states of BlockDecision.
LEMMA DecisionInit == Init => Decision!Init
<1> SUFFICES ASSUME Init PROVE Decision!Init
  OBVIOUS
<1>3. \A i \in Index : ~(Weight(ForgottenAt(i)) > MaxFaultyQuorum)
  <2>1. \A i \in Index : ForgottenAt(i) = {}
    BY DEF Init, ForgottenAt
  <2>2. Weight({}) = 0 /\ MaxFaultyQuorum \in Nat
    BY EmptyNoQuorum
  <2> QED BY <2>1, <2>2
<1>4. Chosen = [i \in Index |-> {}]
  BY DEF Chosen, Init
<1>5. Broken = {}
  BY <1>3 DEF Broken
<1> QED BY <1>4, <1>5 DEF Init, Decision!Init

\* Every step maps to a step of BlockDecision.
LEMMA DecisionStep ==
  TypeOK /\ TypeOK' /\ OrderingInv' /\ [Next]_vars => Decision!Next
<1> SUFFICES ASSUME TypeOK, TypeOK', OrderingInv', [Next]_vars PROVE Decision!Next
  OBVIOUS
<1>1. msgs \subseteq msgs' /\ ordered \subseteq ordered' /\ forgotten \subseteq forgotten'
  BY HistoriesGrow
<1>2. OneCommitVote' /\ OrderedByQuorum'
  BY DEF OrderingInv
<1>3. Broken \subseteq Broken'
  <2> SUFFICES ASSUME NEW i \in Broken PROVE i \in Broken'
    OBVIOUS
  <2>1. ForgottenAt(i) \subseteq ForgottenAt(i)'
    BY <1>1 DEF ForgottenAt
  <2>2. Weight(ForgottenAt(i)) <= Weight(ForgottenAt(i)')
    BY <2>1, WeightMonotonic
  <2>3. Weight(ForgottenAt(i)) \in Nat /\ Weight(ForgottenAt(i)') \in Nat /\ MaxFaultyQuorum \in Nat
    BY WeightType, EmptyNoQuorum
  <2>4. i \in Index /\ Weight(ForgottenAt(i)) > MaxFaultyQuorum
    BY DEF Broken
  <2>5. Weight(ForgottenAt(i)') > MaxFaultyQuorum
    BY <2>2, <2>3, <2>4
  <2> QED BY <2>4, <2>5 DEF Broken
<1>4. \A i \in Index : Chosen[i] \subseteq Chosen'[i]
  <2> SUFFICES ASSUME NEW i \in Index, NEW h \in Chosen[i] PROVE h \in Chosen'[i]
    OBVIOUS
  <2>1. /\ \E m \in msgs : m.type = "Commit" /\ m.index = i /\ m.hash = h
        /\ IsQuorum({m.from : m \in SentIn(msgs, "Commit", i, h)})
    BY DEF Chosen, Sent, SentIn
  <2>2. IsQuorum({m.from : m \in SentIn(msgs', "Commit", i, h)})
    BY <1>1, <2>1, SendersMonotonic
  <2> QED BY <1>1, <2>1, <2>2 DEF Chosen, Sent, SentIn
<1>5. \A i \in Index : i \in Broken' \/ \A g, h \in Chosen'[i] : g = h
  <2>1. ASSUME NEW i \in Index PROVE (i \in Broken \/ \A g, h \in Chosen[i] : g = h)'
    BY <1>2, OneChosen, PTL
  <2> QED BY <2>1
<1>6. \A x \in ordered' : x[3] \in Chosen'[x[2]]
  <2> SUFFICES ASSUME NEW x \in ordered' PROVE x[3] \in Chosen'[x[2]]
    OBVIOUS
  <2>1. x[2] \in Index
    BY DEF TypeOK
  <2>2. IsQuorum({m.from : m \in Sent("Commit", x[2], x[3])'})
    BY <1>2 DEF OrderedByQuorum
  <2>3. \E m \in msgs' : m.type = "Commit" /\ m.index = x[2] /\ m.hash = x[3]
    <3>1. {m.from : m \in Sent("Commit", x[2], x[3])'} # {}
      BY <2>2, EmptyNoQuorum
    <3> QED BY <3>1 DEF Sent
  <2> QED BY <2>1, <2>2, <2>3 DEF Chosen
<1>7. Decision!Break
  BY <1>3 DEF Decision!Break
<1>8. Decision!Choose
  BY <1>4, <1>5 DEF Decision!Choose
<1>9. Decision!Learn
  BY <1>1, <1>6 DEF Decision!Learn
<1> QED BY <1>7, <1>8, <1>9 DEF Decision!Next

(***************************************************************************)
(* PBFTOrdering implements BlockDecision, for every number of nodes and    *)
(* every distribution of weights: once a quorum has voted for a proposal   *)
(* no other one is chosen for its block number, unless too many nodes lost *)
(* their locks there, and no node executes what is not chosen.             *)
(***************************************************************************)
THEOREM DecisionRefined == Spec => ImplementsDecision
<1>1. Init => Decision!Init
  BY DecisionInit
<1>2. TypeOK /\ TypeOK' /\ OrderingInv' /\ [Next]_vars => [Decision!Next]_(Decision!vars)
  BY DecisionStep
<1> QED BY <1>1, <1>2, TypeInvariant, OrderingInvariant, PTL DEF Spec, ImplementsDecision, Decision!Spec

=============================================================================

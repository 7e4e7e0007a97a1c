---------------------------- MODULE PBFTOrdering ----------------------------
(***************************************************************************)
(* The ordering stage of bcos-pbft on a group of consensus nodes: sealed   *)
(* proposals, pre-prepare, prepare and commit, view change and new view,   *)
(* view recovery, block synchronisation and restarts (PBFTEngine and       *)
(* PBFTCacheProcessor, with the registers of PBFTConfig).                  *)
(*                                                                         *)
(* Nodes follow the code.  Messages live in the set msgs for ever: a       *)
(* message may be handled late, never, more than once and in any order.    *)
(* Every handler runs under the engine's m_mutex and is one step; what the *)
(* code does asynchronously (proposal verification, fetching a missing     *)
(* proposal, execution) is a separate step that starts from what the       *)
(* handler left in the node's state.  The worker and the sealer's thread   *)
(* look at the timeout state before they take m_mutex: a message they have *)
(* taken may wait while the node times out.                                *)
(*                                                                         *)
(* The second stage is reduced to what ordering depends on: proposals are  *)
(* executed in order, a quorum of CheckPoint messages makes an executed    *)
(* proposal stable, and a stable proposal is committed to the ledger.      *)
(***************************************************************************)
EXTENDS PBFTCache

CONSTANTS
  MaxIndex,         \* bound: block numbers 1..MaxIndex are proposed
  MaxRestart,       \* bound: restarts in a behaviour
  Running,          \* the nodes that run; the others are down throughout
  Sealers,          \* bound: the nodes whose sealer has transactions
  Crashers,         \* bound: the nodes that may crash and restart
  Slow,             \* bound: <<n, type, v, r>> when packets of this type and view may wait
                    \* at n, after r restarts, between the tests of their thread and m_mutex
  WaterMarkLimit    \* m_warterMarkLimit: block numbers in consensus at once

ASSUME BoundAssumption ==
  /\ MaxIndex \in Nat /\ MaxRestart \in Nat
  /\ WaterMarkLimit \in Nat \ {0}
  /\ Running \subseteq Node

Index == 1 .. MaxIndex
None == -1

VARIABLES
  ctl,        \* ctl[n]: the registers of node n (PBFTConfig) and its
              \* view-change, recover and commit queues (PBFTCacheProcessor)
  caches,     \* caches[n][i]: the PBFTCache of block number i (m_caches)
  pending,    \* pending[n]: proposals being verified or fetched by n
  taken,      \* taken[n]: messages that wait for m_mutex with n's worker, and own
              \* proposals that wait for it with the thread of n's sealer
  msgs,       \* every message sent
  ordered,    \* history: <<n, i, h>> when n hands proposal h to execution
  forgotten,  \* history: <<n, i>> when n voted at i and lost the lock
  restarts    \* history: number of restarts

vars == <<ctl, caches, pending, taken, msgs, ordered, forgotten, restarts>>

-----------------------------------------------------------------------------
(* Messages.  A broadcast goes to every other node (consensusNodeIDList).  *)

ConsensusMsg(type, n, i, v, h) ==
  [type |-> type, from |-> n, index |-> i, view |-> v, hash |-> h]

\* a prepared proposal as carried by a view change (precommitWithoutData)
Prepared == [index : Index, view : View, hash : Hash, from : Node]

ViewChangeMsg ==
  [type : {"ViewChange"}, from : Node, to : SUBSET Node, view : View,
   committed : 0 .. MaxIndex, prepared : SUBSET Prepared]

\* a pre-prepare of a new view; data tells whether it carries the block
NewProposal == [index : Index, view : View, hash : Hash, from : Node, data : BOOLEAN]

Message ==
  [type : {"PrePrepare", "Prepare", "Commit"}, from : Node, index : Index,
   view : View, hash : Hash]
  \cup [type : {"CheckPoint"}, from : Node, index : Index, hash : Hash]
  \cup ViewChangeMsg
  \cup [type : {"NewView"}, from : Node, view : View, index : 0 .. MaxIndex,
        viewChanges : SUBSET ViewChangeMsg, prePrepares : SUBSET NewProposal]
  \cup [type : {"RecoverResponse"}, from : Node, to : SUBSET Node, view : View]

\* stage "verify": handed to the validator; "fetch": requested from its holder
Pending == [stage : {"verify", "fetch"}, index : Index, view : View,
            hash : Hash, from : Node, newView : BOOLEAN]

Registers ==
  [view : View, toView : View, timeout : BOOLEAN, startRecovered : BOOLEAN,
   committed : 0 .. MaxIndex,           \* m_committedProposal->index()
   expected : 1 .. MaxIndex + 1,        \* m_expectedCheckPoint
   low : 1 .. MaxIndex + 1,             \* m_lowWaterMark
   syncing : 0 .. MaxIndex,             \* m_syncingHighestNumber
   waitReseal : 0 .. MaxIndex,          \* m_waitResealUntil
   newViewGenerated : BOOLEAN,
   viewChanges : SUBSET ViewChangeMsg,  \* m_viewChangeCache
   maxCommitted : [View -> None .. MaxIndex],   \* m_maxCommittedIndex
   maxPrecommit : [View -> None .. MaxIndex],   \* m_maxPrecommitIndex
   recover : SUBSET (View \X Node),     \* m_recoverReqCache
   queue : SUBSET (Index \X Hash),      \* m_committedQueue
   executing : SUBSET (Index \X Hash),  \* m_executingProposals
   stableQueue : SUBSET Index]          \* m_stableCheckPointQueue and the
                                        \* commit of it that is in flight

\* A node that starts with k blocks on the ledger and the executed proposals
\* up to l - 1 in its storage (PBFTImpl::init).
StartRegisters(k, l, reloaded) ==
  [view |-> 0, toView |-> 0, timeout |-> FALSE, startRecovered |-> FALSE,
   committed |-> k, expected |-> k + 1, low |-> l, syncing |-> 0,
   waitReseal |-> 0, newViewGenerated |-> FALSE, viewChanges |-> {},
   maxCommitted |-> [v \in View |-> None], maxPrecommit |-> [v \in View |-> None],
   recover |-> {}, queue |-> reloaded, executing |-> {}, stableQueue |-> {}]

-----------------------------------------------------------------------------
(* A handler transforms the local state of its node, step by step, as the  *)
(* code does, and accumulates what it sends and what it orders.            *)

Local(n) == [ctl |-> ctl[n], caches |-> caches[n], pending |-> pending[n],
             out |-> {}, done |-> {}]

progressedIndex(l) == l.ctl.committed + 1

\* a node answers for block numbers from here on
LowIndex(c) == IF c.low > c.expected THEN c.low ELSE c.expected

isSyncingHigher(c) == c.syncing >= c.committed + WaterMarkLimit

canHandleNewProposal(c, i) ==
  \/ c.waitReseal <= c.committed
  \/ i <= c.committed
  \/ i <= c.waitReseal

\* a mutant of checkPBFTMsgState: the watermark of a restart is ignored
IgnoreLowWaterMark(c, m) ==
  /\ m.index >= c.expected
  /\ m.index < c.committed + 1 + WaterMarkLimit
  /\ m.index > c.syncing
  /\ m.view >= c.view

checkPBFTMsgState(c, m) ==
  /\ m.index >= LowIndex(c)
  /\ m.index < c.committed + 1 + WaterMarkLimit
  /\ m.index > c.syncing
  /\ m.view >= c.view

checkPrePrepareMsg(l, m) ==
  LET c == l.caches[m.index] IN
  /\ checkPBFTMsgState(l.ctl, m)
  /\ ~existPrePrepare(c, m)
  /\ ~conflictWithProcessedReq(c, l.ctl.view, m)
  /\ ~conflictWithPrecommitReq(c, m.index, progressedIndex(l), m)

\* the checks of handlePrePrepareMsg that do not depend on the caller
AcceptProposal(l, m, newView) ==
  /\ ~isSyncingHigher(l.ctl)
  /\ <<m.index, m.hash>> \notin l.ctl.executing
  /\ checkPrePrepareMsg(l, m)
  /\ newView \/ m.from = LeaderIndex(m.index, l.ctl.view)

-----------------------------------------------------------------------------
(* Execution queue *)

\* getAppliedCheckPointProposal(expected - 1) finds a proposal
LastApplied(l) ==
  \/ l.ctl.expected - 1 = l.ctl.committed
  \/ /\ l.ctl.expected - 1 \in Index
     /\ l.caches[l.ctl.expected - 1].checkpoint # NoHash

\* the proposals tryToApplyCommitQueue may start
Applicable(l) ==
  {e \in l.ctl.queue : e[1] = l.ctl.expected /\ LastApplied(l) /\ e \notin l.ctl.executing}

tryToApplyCommitQueue(l) ==
  LET valid == {e \in l.ctl.queue : e[1] >= l.ctl.expected}
      ready == Applicable(l)
  IN  IF ready = {}
      THEN [l EXCEPT !.ctl.queue = valid]
      ELSE LET e == CHOOSE x \in ready : TRUE IN
           [l EXCEPT !.ctl.queue = valid \ {e}, !.ctl.executing = @ \cup {e}]

\* for every proposal of S; a proposal being executed is not queued again
updateCommitQueue(l, S) ==
  LET new == S \ l.ctl.executing
      l1  == [l EXCEPT !.ctl.queue = @ \cup new, !.done = @ \cup S]
  IN  IF new = {} THEN l1 ELSE tryToApplyCommitQueue(l1)

\* PBFTCacheProcessor::checkAndPreCommit: every cache that can precommit does
PreCommitAll(n, l) ==
  LET v    == l.ctl.view
      S    == {i \in Index : CanPreCommit(l.caches[i], v)}
      new  == [i \in Index |-> checkAndPreCommit(l.caches[i], n, v)]
      sent == {ConsensusMsg("Commit", n, i, v, l.caches[i].prePrepare.hash) : i \in S}
      subm == {i \in S : new[i].submitted /\ ~l.caches[i].submitted}
  IN  updateCommitQueue([l EXCEPT !.caches = new, !.out = @ \cup sent],
                        {<<i, new[i].precommit.hash>> : i \in subm})

\* PBFTCacheProcessor::checkAndCommit
CommitAll(l) ==
  LET v    == l.ctl.view
      S    == {i \in Index : CanCommit(l.caches[i], v)}
      new  == [i \in Index |-> checkAndCommit(l.caches[i], v)]
      next == updateCommitQueue([l EXCEPT !.caches = new],
                                {<<i, l.caches[i].precommit.hash>> : i \in S})
  IN  IF S = {} THEN l ELSE [next EXCEPT !.ctl.toView = v]

(***************************************************************************)
(* handlePrePrepareMsg after verification: the proposal enters the cache   *)
(* and the node's prepare vote, in its own view, is broadcast.             *)
(***************************************************************************)
AddProposal(n, l, m) ==
  LET p    == [view |-> m.view, hash |-> m.hash, from |-> m.from]
      vote == [from |-> n, hash |-> m.hash, view |-> l.ctl.view]
      c    == addPrepareCache(addPrePrepareCache(l.caches[m.index], p), vote)
  IN  PreCommitAll(n,
        [l EXCEPT !.caches[m.index] = c,
                  !.out = @ \cup {ConsensusMsg("Prepare", n, m.index, l.ctl.view, m.hash)}])

-----------------------------------------------------------------------------
(* View change *)

Highest(S) == CHOOSE k \in S : \A j \in S : j <= k
Lowest(S) == CHOOSE k \in S : \A j \in S : k <= j

removeInvalidViewChange(l, v, k) ==
  [l EXCEPT !.ctl.viewChanges = {m \in @ : m.view > v /\ m.committed >= k}]

\* the maxima derived from the view changes are dropped with m_newViewGenerated
ClearNewViewState(l) ==
  [l EXCEPT !.ctl.maxCommitted = [v \in View |-> None],
            !.ctl.maxPrecommit = [v \in View |-> None],
            !.ctl.newViewGenerated = FALSE]

generateViewChange(n, l, dest) ==
  [type |-> "ViewChange", from |-> n, to |-> dest, view |-> l.ctl.toView,
   committed |-> l.ctl.committed,
   prepared  |-> {[index |-> i, view |-> l.caches[i].precommit.view,
                   hash  |-> l.caches[i].precommit.hash,
                   from  |-> l.caches[i].precommit.from] :
                    i \in {j \in Index : l.caches[j].precommit # NoProposal}}]

\* one view change per view and sender; the first one is kept
addViewChangeReq(l, m) ==
  IF \E x \in l.ctl.viewChanges : x.view = m.view /\ x.from = m.from
  THEN l
  ELSE [l EXCEPT
         !.ctl.viewChanges = @ \cup {m},
         !.ctl.maxCommitted[m.view] = Highest({@, m.committed}),
         !.ctl.maxPrecommit[m.view] = Highest({@} \cup {p.index : p \in m.prepared})]

ViewChangesFor(l, v) == {m \in l.ctl.viewChanges : m.view = v}
Senders(S) == {m.from : m \in S}

(***************************************************************************)
(* generatePrePrepareMsg walks the view changes in the order of their      *)
(* senders.  For each block number it keeps the first prepared proposal,   *)
(* taking the sender of the view change as its holder, and replaces it by  *)
(* a later one only if that one has another hash and a higher view.        *)
(***************************************************************************)
NoPrepared == [index |-> None, view |-> None, hash |-> NoHash, from |-> None]

MergePrepared(kept, p, sender) ==
  IF kept = NoPrepared THEN [p EXCEPT !.from = sender]
  ELSE IF p.hash # kept.hash /\ kept.view < p.view THEN p ELSE kept

PreparedBy(S, k, i) == {p \in UNION {m.prepared : m \in {x \in S : x.from = k}} : p.index = i}

KeptPrepared(S, i) ==
  LET keep[k \in 0 .. NumNodes] ==
        IF k = 0 THEN NoPrepared
        ELSE IF PreparedBy(S, k - 1, i) = {} THEN keep[k - 1]
        ELSE MergePrepared(keep[k - 1], CHOOSE p \in PreparedBy(S, k - 1, i) : TRUE, k - 1)
  IN  keep[NumNodes]

\* the prepared proposals of the view changes, as found and with their sender
Candidates(S) ==
  UNION {UNION {{p, [p EXCEPT !.from = m.from]} : p \in m.prepared} : m \in S}

generatePrePrepareMsg(n, l) ==
  LET v     == l.ctl.toView
      S     == ViewChangesFor(l, v)
      first == 1 + (IF l.ctl.maxCommitted[v] = None THEN l.ctl.committed ELSE l.ctl.maxCommitted[v])
      last  == IF l.ctl.maxPrecommit[v] = None THEN progressedIndex(l) ELSE l.ctl.maxPrecommit[v]
      range == {i \in Index : first <= i /\ i <= last}
      kept  == {p \in Candidates(S) : p.index \in range /\ p = KeptPrepared(S, p.index)}
      empty == {i \in range : \A p \in Candidates(S) : p.index # i}
  IN  {[index |-> p.index, view |-> v, hash |-> p.hash, from |-> p.from, data |-> FALSE] : p \in kept}
      \cup {[index |-> i, view |-> v, hash |-> EmptyProposal(n), from |-> n, data |-> TRUE] : i \in empty}

\* a mutant of resetNewViewState: an older view is taken over too
EnterAnyView(l, v) ==
  [l EXCEPT !.ctl.view = v, !.ctl.toView = v, !.ctl.timeout = FALSE, !.ctl.startRecovered = TRUE]

(***************************************************************************)
(* resetNewViewState and PBFTCacheProcessor::resetCacheAfterViewChange.    *)
(* A node never goes back to a lower view; its caches are reset anyway.    *)
(***************************************************************************)
resetNewViewState(l, v) ==
  IF l.ctl.view > v THEN l
  ELSE [l EXCEPT !.ctl.view = v, !.ctl.toView = v, !.ctl.timeout = FALSE,
                 !.ctl.startRecovered = TRUE]

resetCacheAfterViewChange(l, v) ==
  removeInvalidViewChange(
    ClearNewViewState(
      [l EXCEPT !.caches = [i \in Index |-> resetCache(l.caches[i], v)],
                !.ctl.recover = {r \in @ : r[1] > v}]),
    v, l.ctl.committed)

reachNewView(l, v) ==
  LET l1 == resetNewViewState(l, v) IN resetCacheAfterViewChange(l1, l1.ctl.view)

\* tryToFillProposal: the node has precommitted this very proposal
HoldsProposal(l, p) == p.data \/ l.caches[p.index].precommit.hash = p.hash

PendingOf(p, stage, newView) ==
  [stage |-> stage, index |-> p.index, view |-> p.view, hash |-> p.hash,
   from |-> p.from, newView |-> newView]

reHandlePrePrepareProposals(l, m) ==
  LET l1     == reachNewView(l, m.view)
      verify == {p \in m.prePrepares : HoldsProposal(l1, p) /\ AcceptProposal(l1, p, TRUE)}
      fetch  == {p \in m.prePrepares : ~HoldsProposal(l1, p)}
  IN  [l1 EXCEPT
        !.pending = @ \cup {PendingOf(p, "verify", TRUE) : p \in verify}
                      \cup {PendingOf(p, "fetch", TRUE) : p \in fetch},
        !.ctl.waitReseal = IF m.prePrepares = {} THEN @
                           ELSE Highest({l.ctl.committed} \cup {p.index : p \in m.prePrepares})]

CanGenerateNewView(n, l) ==
  /\ l.ctl.committed >= l.ctl.syncing
  /\ ~l.ctl.newViewGenerated
  /\ LeaderIndex(progressedIndex(l), l.ctl.toView) = n
  /\ IsQuorum(Senders(ViewChangesFor(l, l.ctl.toView)))

newViewMsg(n, l) ==
  [type |-> "NewView", from |-> n, view |-> l.ctl.toView, index |-> l.ctl.committed,
   viewChanges |-> ViewChangesFor(l, l.ctl.toView),
   prePrepares |-> generatePrePrepareMsg(n, l)]

\* checkAndTryIntoNewView; the leader enters the view it announces
checkAndTryIntoNewView(n, l) ==
  LET m == newViewMsg(n, l) IN
  IF CanGenerateNewView(n, l)
  THEN reHandlePrePrepareProposals(
         [l EXCEPT !.out = @ \cup {m}, !.ctl.newViewGenerated = TRUE], m)
  ELSE l

\* broadcastViewChangeReq and sendViewChange
SendViewChange(n, l, dest) ==
  LET m == generateViewChange(n, l, dest) IN
  checkAndTryIntoNewView(n, addViewChangeReq([l EXCEPT !.out = @ \cup {m}], m))

triggerTimeout(n, l) ==
  SendViewChange(n,
    removeInvalidViewChange([l EXCEPT !.ctl.timeout = TRUE, !.ctl.toView = @ + 1],
                            l.ctl.view, l.ctl.committed),
    Node \ {n})

\* isValidViewChangeMsg, first part: the answer to a sender that falls behind
ReplyFallingBehind(n, l, m, sender) ==
  IF ~(m.view < l.ctl.view \/ m.view + 1 < l.ctl.toView) THEN l
  ELSE IF l.ctl.timeout THEN SendViewChange(n, l, {sender})
  ELSE [l EXCEPT !.out = @ \cup {[type |-> "RecoverResponse", from |-> n,
                                  to |-> {sender}, view |-> l.ctl.view]}]

\* isValidViewChangeMsg, the checks; a precommit proof is as new as the view
isValidViewChangeMsg(l, m) ==
  /\ m.committed >= l.ctl.committed
  /\ m.view >= l.ctl.view
  /\ l.ctl.startRecovered => \A p \in m.prepared : p.view <= l.ctl.view

\* the weight of the view changes for views above toView, a node that asks for
\* several views counted for each
tryToTriggerFastViewChange(l) ==
  LET S == {m \in l.ctl.viewChanges : m.view > l.ctl.toView} IN
  /\ S # {}
  /\ Cardinality(UNION {{m.view} \X Votes({m.from}) : m \in S}) >= MaxFaultyQuorum + 1

FastViewChange(n, l, m) ==
  LET S == {x \in l.ctl.viewChanges : x.view > l.ctl.toView}
      leader == LeaderIndex(Highest({l.ctl.expected, progressedIndex(l)}), l.ctl.view)
  IN  IF m.from = leader /\ tryToTriggerFastViewChange(l)
      THEN triggerTimeout(n, [l EXCEPT !.ctl.toView = Lowest({x.view : x \in S}) - 1])
      ELSE l

handleViewChangeMsg(n, l, m) ==
  LET l1 == ReplyFallingBehind(n, l, m, m.from) IN
  IF m.committed < l.ctl.committed THEN l
  ELSE IF ~isValidViewChangeMsg(l1, m) THEN l1
  ELSE checkAndTryIntoNewView(n, FastViewChange(n, addViewChangeReq(l1, m), m))

(***************************************************************************)
(* handleNewViewMsg: the view changes are checked in the order of their    *)
(* senders, and the first may be answered to the sender of the NewView.    *)
(***************************************************************************)
FirstViewChange(m) == CHOOSE x \in m.viewChanges : \A y \in m.viewChanges : x.from <= y.from

handleNewViewMsg(n, l, m) ==
  LET x  == FirstViewChange(m)
      l1 == IF x.committed < l.ctl.committed THEN l ELSE ReplyFallingBehind(n, l, x, m.from)
  IN  IF m.from # LeaderIndex(m.index + 1, m.view) \/ m.view <= l.ctl.view THEN l
      ELSE IF /\ \A y \in m.viewChanges : isValidViewChangeMsg(l1, y)
              /\ IsQuorum(Senders(m.viewChanges))
      THEN reHandlePrePrepareProposals(l1, m)
      ELSE l1

\* a mutant of checkAndTryToRecover: the node enters the view it asked for
RecoverToView(l) ==
  LET R == {v \in View : v > 0 /\ IsQuorum({r[2] : r \in {x \in l.ctl.recover : x[1] = v}})}
      v == Highest(R \cup {l.ctl.toView})
  IN  IF R = {} THEN l
      ELSE [resetCacheAfterViewChange(resetNewViewState(l, v), v) EXCEPT !.ctl.recover = {}]

\* the highest view a quorum answered with; views start at 0, so 0 is none
checkAndTryToRecover(l) ==
  LET R == {v \in View : v > 0 /\ IsQuorum({r[2] : r \in {x \in l.ctl.recover : x[1] = v}})}
      v == Highest(R)
  IN  IF R = {} THEN l
      ELSE [resetCacheAfterViewChange(resetNewViewState(l, v), v) EXCEPT !.ctl.recover = {}]

-----------------------------------------------------------------------------
(* Commit to the ledger: finalizeConsensus.  synced tells a block that     *)
(* came from the sync module from one this node executed.                  *)

resetConfig(l, k) ==
  [l EXCEPT !.ctl.committed = k,
            !.ctl.expected  = Highest({@, k + 1}),
            !.ctl.low       = Highest({@, k + 1}),
            !.ctl.timeout   = l.ctl.syncing > k]

\* a mutant of removeFutureProposals: every later cache is dropped
RemoveAllFuture(l) ==
  [l EXCEPT !.ctl.expected    = l.ctl.committed + 1,
            !.ctl.queue       = {},
            !.ctl.stableQueue = @ \cap {l.ctl.committed + 1},
            !.caches = [i \in Index |-> EmptyCache]]

removeConsensusedCache(l, k) ==
  ClearNewViewState(removeInvalidViewChange(
    [l EXCEPT !.caches = [i \in Index |->
       IF i <= k \/ l.caches[i].stable THEN EmptyCache ELSE l.caches[i]]],
    l.ctl.view, k))

\* the commit of k + 1, if stable, has been started and goes on
removeFutureProposals(l) ==
  [l EXCEPT !.ctl.expected    = l.ctl.committed + 1,
            !.ctl.queue       = {},
            !.ctl.stableQueue = @ \cap {l.ctl.committed + 1},
            !.caches = [i \in Index |->
               IF l.caches[i].checkpoint # NoHash THEN EmptyCache ELSE l.caches[i]]]

finalizeConsensus(l, k, synced) ==
  LET l1 == tryToApplyCommitQueue(resetConfig(l, k))
      l2 == removeConsensusedCache(l1, k)
      l3 == [l2 EXCEPT !.ctl.stableQueue = {i \in @ : i > k}]
  IN  IF synced THEN removeFutureProposals(l3) ELSE l3

\* a mutant of onProposalApplySuccess: a number is skipped
SkipNextNumber(n, l, e) ==
  LET l1 == [l EXCEPT
              !.out = @ \cup {[type |-> "CheckPoint", from |-> n, index |-> e[1], hash |-> e[2]]},
              !.caches[e[1]] = setCheckPointProposal(@, e[1], l.ctl.committed, e[2]),
              !.ctl.expected = Highest({l.ctl.committed, e[1]}) + 2]
  IN  [tryToApplyCommitQueue(l1) EXCEPT !.ctl.executing = @ \ {e}]

\* onProposalApplySuccess, up to the CheckPoint messages of the others; the number may
\* have been committed since applyStateMachine compared it
onProposalApplySuccess(n, l, e) ==
  LET l1 == [l EXCEPT
              !.out = @ \cup {[type |-> "CheckPoint", from |-> n, index |-> e[1], hash |-> e[2]]},
              !.caches[e[1]] = setCheckPointProposal(@, e[1], l.ctl.committed, e[2]),
              !.ctl.expected = Highest({l.ctl.committed, e[1]}) + 1]
  IN  [tryToApplyCommitQueue(l1) EXCEPT !.ctl.executing = @ \ {e}]

-----------------------------------------------------------------------------
(* Steps *)

\* n voted to commit at i and neither holds the lock nor refuses to vote again
Forgets(n, l) ==
  {i \in Index : /\ l.caches[i].precommit = NoProposal
                 /\ i >= LowIndex(l.ctl)
                 /\ \E m \in msgs \cup l.out : m.type = "Commit" /\ m.from = n /\ m.index = i}

\* node n moves to local state l
Step(n, l) ==
  /\ ctl' = [ctl EXCEPT ![n] = l.ctl]
  /\ caches' = [caches EXCEPT ![n] = l.caches]
  /\ pending' = [pending EXCEPT ![n] = l.pending]
  /\ msgs' = msgs \cup l.out
  /\ ordered' = ordered \cup {<<n, e[1], e[2]>> : e \in l.done}
  /\ forgotten' = forgotten \cup {<<n, i>> : i \in Forgets(n, l)}

Run(n, l) == Step(n, l) /\ UNCHANGED <<taken, restarts>>

\* the thread that has taken message m enters m_mutex, and n moves to l
Handled(n, m, l) ==
  /\ Step(n, l)
  /\ taken' = [taken EXCEPT ![n] = @ \ {m}]
  /\ UNCHANGED restarts

\* n's thread for m (its worker, or the sealer's thread for an own proposal) is free
Free(n, m) == ~\E x \in taken[n] : (x.from = n) <=> (m.from = n)

\* the thread waits with message m, which has passed its tests
Wait(n, m) ==
  /\ \E s \in Slow : s[1] = n /\ s[2] = m.type /\ s[3] = m.view /\ s[4] = restarts
  /\ Free(n, m)
  /\ taken' = [taken EXCEPT ![n] = @ \cup {m}]
  /\ UNCHANGED <<ctl, caches, pending, msgs, ordered, forgotten, restarts>>

ConsensusPacket == {"PrePrepare", "Prepare", "Commit"}

\* a mutant of Passes: the timeout state is not looked at
PassInTimeout(n, m) ==
  /\ ~isSyncingHigher(ctl[n])
  /\ m.from # n
  /\ m.type \in ConsensusPacket => canHandleNewProposal(ctl[n], m.index)

\* executeWorker, without m_mutex: whether message m is to be handled
Passes(n, m) ==
  /\ ~isSyncingHigher(ctl[n])
  /\ m.from # n
  /\ m.type \in ConsensusPacket => ~ctl[n].timeout /\ canHandleNewProposal(ctl[n], m.index)

Take(n, m) == Passes(n, m) /\ Wait(n, m)

\* handleMsg: the worker has taken m, or takes it and gets m_mutex at once
Handles(n, m) ==
  /\ m.from # n
  /\ m \in taken[n] \/ (Free(n, m) /\ Passes(n, m))

\* the sealer of n has sealed block <<n, s>> of number i; its blocks are named in the
\* order in which they are first proposed
Sealed(n, i, v, s) == ConsensusMsg("PrePrepare", n, i, v, <<n, s>>)

\* onRecvProposal, without m_mutex: whether proposal m of n is to be handled
MaySubmit(n, m) ==
  LET c == ctl[n] IN
  /\ n \in Sealers
  /\ m.hash[2] > 1 => \E x \in msgs : /\ x.type = "PrePrepare" /\ x.index = m.index
                                      /\ x.hash = <<n, m.hash[2] - 1>>
  /\ m.index > c.syncing /\ m.index > c.committed /\ m.index >= LowIndex(c)
  /\ LeaderIndex(m.index, c.view) = n
  /\ ~c.timeout
  /\ m.view = c.view

TakeSealed(n, i, v, s) == LET m == Sealed(n, i, v, s) IN MaySubmit(n, m) /\ Wait(n, m)

\* onRecvProposal, with m_mutex
SubmitProposal(n, i, v, s) ==
  LET l == Local(n)
      m == Sealed(n, i, v, s)
  IN  /\ m \in taken[n] \/ (Free(n, m) /\ MaySubmit(n, m))
      /\ AcceptProposal(l, m, FALSE)
      /\ Handled(n, m, AddProposal(n, [l EXCEPT !.out = {m}], m))

HandlePrePrepare(n, m) ==
  LET l == Local(n) IN
  /\ m.type = "PrePrepare" /\ Handles(n, m)
  /\ AcceptProposal(l, m, FALSE)
  /\ Handled(n, m, [l EXCEPT !.pending = @ \cup {PendingOf(m, "verify", FALSE)}])

\* the validator answers: the proposal is checked again against the node's
\* state, which has moved on while the lock was not held
VerifySucceeds(n, p) ==
  LET l == [Local(n) EXCEPT !.pending = @ \ {p}] IN
  /\ p.stage = "verify"
  /\ Run(n, IF p.index > l.ctl.committed /\ AcceptProposal(l, p, p.newView)
            THEN AddProposal(n, l, p) ELSE l)

VerifyFails(n, p) ==
  /\ p.stage = "verify"
  /\ Run(n, [Local(n) EXCEPT !.pending = @ \ {p}])

\* the precommit request of a new view reaches a holder of the proposal
PrecommitResponse(n, p) ==
  LET l == [Local(n) EXCEPT !.pending = @ \ {p}]
      c == caches[p.from][p.index].precommit
  IN  /\ p.stage = "fetch" /\ c.hash = p.hash
      /\ Run(n, IF /\ l.ctl.startRecovered => c.view <= l.ctl.view
                   /\ AcceptProposal(l, p, TRUE)
                THEN [l EXCEPT !.pending = @ \cup {[p EXCEPT !.stage = "verify"]}]
                ELSE l)

checkPBFTMsg(n, l, m) ==
  /\ checkPBFTMsgState(l.ctl, m)
  /\ m.from # n
  /\ existPrePrepare(l.caches[m.index], m) =>
       ~conflictWithProcessedReq(l.caches[m.index], l.ctl.view, m)

VoteOf(m) == [from |-> m.from, hash |-> m.hash, view |-> m.view]

HandlePrepare(n, m) ==
  LET l == Local(n) IN
  /\ m.type = "Prepare" /\ Handles(n, m) /\ checkPBFTMsg(n, l, m)
  /\ Handled(n, m, PreCommitAll(n, [l EXCEPT !.caches[m.index] = addPrepareCache(@, VoteOf(m))]))

HandleCommit(n, m) ==
  LET l == Local(n) IN
  /\ m.type = "Commit" /\ Handles(n, m) /\ checkPBFTMsg(n, l, m)
  /\ Handled(n, m, CommitAll([l EXCEPT !.caches[m.index] = addCommitCache(@, VoteOf(m))]))

\* the checks under m_mutex fail for a message that has waited: it is dropped
Refuse(n, m) ==
  /\ IF m.type = "PrePrepare" THEN ~AcceptProposal(Local(n), m, FALSE)
     ELSE m.type \in {"Prepare", "Commit"} /\ ~checkPBFTMsg(n, Local(n), m)
  /\ taken' = [taken EXCEPT ![n] = @ \ {m}]
  /\ UNCHANGED <<ctl, caches, pending, msgs, ordered, forgotten, restarts>>

\* onTimeout; a node with proposals to execute does not ask for a view
OnTimeout(n) ==
  LET l == tryToApplyCommitQueue(Local(n))
      busy == {e \in l.ctl.executing : e[1] > l.ctl.committed}
      idle == [l EXCEPT !.ctl.executing = busy]
  IN  /\ ctl[n].toView < MaxView
      /\ Run(n, IF Applicable(Local(n)) # {} THEN l
                ELSE IF busy # {} THEN idle ELSE triggerTimeout(n, idle))

HandleViewChange(n, m) ==
  /\ m.type = "ViewChange" /\ n \in m.to /\ Handles(n, m)
  /\ Handled(n, m, handleViewChangeMsg(n, Local(n), m))

HandleNewView(n, m) ==
  /\ m.type = "NewView" /\ Handles(n, m)
  /\ Handled(n, m, handleNewViewMsg(n, Local(n), m))

HandleRecoverResponse(n, m) ==
  /\ m.type = "RecoverResponse" /\ n \in m.to /\ Handles(n, m)
  /\ Handled(n, m, checkAndTryToRecover(
       [Local(n) EXCEPT !.ctl.recover = @ \cup {<<m.view, m.from>>}]))

ApplySuccess(n, e) == Run(n, onProposalApplySuccess(n, Local(n), e))

\* a quorum of CheckPoint messages for what n executed has arrived
StableCheckPoint(n, i) ==
  LET c == caches[n][i] IN
  /\ c.checkpoint # NoHash /\ ~c.stable /\ i > ctl[n].committed
  /\ IsQuorum({m.from : m \in {x \in msgs : /\ x.type = "CheckPoint" /\ x.index = i
                                            /\ x.hash = c.checkpoint}})
  /\ Run(n, [Local(n) EXCEPT !.caches[i].stable = TRUE, !.ctl.stableQueue = @ \cup {i}])

CommitStable(n) ==
  LET k == ctl[n].committed + 1 IN
  /\ k \in ctl[n].stableQueue
  /\ Run(n, finalizeConsensus(Local(n), k, FALSE))

\* asyncNotifyNewBlock: the sync module has fetched block k from another node
SyncBlock(n, k) ==
  /\ k > ctl[n].committed
  /\ \E p \in Node : ctl[p].committed >= k
  /\ Run(n, finalizeConsensus(Local(n), k, TRUE))

\* notifyHighestSyncingNumber: the sync module starts to fetch blocks up to k
NotifySyncing(n, k) ==
  /\ k > ctl[n].committed
  /\ \E p \in Node : ctl[p].committed >= k
  /\ Run(n, [Local(n) EXCEPT !.ctl.syncing = k])

(***************************************************************************)
(* A crash and the restart: the ledger and the executed proposals that     *)
(* reached the storage, up to number j, survive; the caches do not.        *)
(***************************************************************************)
Restart(n, j) ==
  LET k == ctl[n].committed
      reloaded == {<<m.index, m.hash>> : m \in {x \in msgs : /\ x.type = "CheckPoint"
                     /\ x.from = n /\ x.index > k /\ x.index <= j}}
  IN  /\ restarts < MaxRestart /\ n \in Crashers
      /\ k <= j /\ j < ctl[n].expected
      /\ Step(n, tryToApplyCommitQueue(
                  [ctl |-> StartRegisters(k, j + 1, reloaded),
                   caches |-> [i \in Index |-> EmptyCache],
                   pending |-> {}, out |-> {}, done |-> {}]))
      /\ taken' = [taken EXCEPT ![n] = {}]
      /\ restarts' = restarts + 1

-----------------------------------------------------------------------------

Init ==
  /\ ctl = [n \in Node |-> StartRegisters(0, 1, {})]
  /\ caches = [n \in Node |-> [i \in Index |-> EmptyCache]]
  /\ pending = [n \in Node |-> {}]
  /\ taken = [n \in Node |-> {}]
  /\ msgs = {}
  /\ ordered = {}
  /\ forgotten = {}
  /\ restarts = 0

Next ==
  \E n \in Running :
    \/ \E m \in msgs : Take(n, m)
    \/ \E i \in Index, v \in View, s \in 1 .. MaxSeal : TakeSealed(n, i, v, s)
    \/ \E m \in taken[n] : Refuse(n, m)
    \/ \E i \in Index, v \in View, s \in 1 .. MaxSeal : SubmitProposal(n, i, v, s)
    \/ \E m \in msgs : HandlePrePrepare(n, m)
    \/ \E m \in msgs : HandlePrepare(n, m)
    \/ \E m \in msgs : HandleCommit(n, m)
    \/ \E m \in msgs : HandleViewChange(n, m)
    \/ \E m \in msgs : HandleNewView(n, m)
    \/ \E m \in msgs : HandleRecoverResponse(n, m)
    \/ \E p \in pending[n] : VerifySucceeds(n, p)
    \/ \E p \in pending[n] : VerifyFails(n, p)
    \/ \E p \in pending[n] : PrecommitResponse(n, p)
    \/ OnTimeout(n)
    \/ \E e \in ctl[n].executing : ApplySuccess(n, e)
    \/ \E i \in Index : StableCheckPoint(n, i)
    \/ CommitStable(n)
    \/ \E k \in Index : SyncBlock(n, k)
    \/ \E k \in Index : NotifySyncing(n, k)
    \/ \E j \in 0 .. MaxIndex : Restart(n, j)

Spec == Init /\ [][Next]_vars

-----------------------------------------------------------------------------
(* Properties *)

(***************************************************************************)
(* Every register, cache, message and history value has its type: in       *)
(* particular no handler moves a number or a view out of its range.        *)
(***************************************************************************)
TypeOK ==
  /\ ctl \in [Node -> Registers]
  /\ caches \in [Node -> [Index -> Cache]]
  /\ pending \in [Node -> SUBSET Pending]
  /\ taken \in [Node -> SUBSET Message]
  /\ msgs \subseteq Message
  /\ ordered \subseteq Node \X Index \X Hash
  /\ forgotten \subseteq Node \X Index
  /\ restarts \in 0 .. MaxRestart

Sent(type, i, h) == {m \in msgs : m.type = type /\ m.index = i /\ m.hash = h}

ForgottenAt(i) == {n \in Node : <<n, i>> \in forgotten}

(***************************************************************************)
(* Two nodes never hand different proposals for one block number to        *)
(* execution, in whatever views they did (checkAndCommit,                  *)
(* updateCommitQueue), unless nodes of more weight than MaxFaultyQuorum    *)
(* voted to commit at that number and lost the lock afterwards, in a       *)
(* restart or in removeFutureProposals.                                    *)
(***************************************************************************)
Agreement ==
  \A x, y \in ordered :
    x[2] = y[2] /\ x[3] # y[3] => Weight(ForgottenAt(x[2])) > MaxFaultyQuorum

(***************************************************************************)
(* A node votes to commit at most one proposal per block number, over all  *)
(* views, unless it lost its lock in between: what the lock of             *)
(* conflictWithPrecommitReq is for, across verification callbacks, view    *)
(* changes and restarts.                                                   *)
(***************************************************************************)
OneCommitVote ==
  \A m1, m2 \in {m \in msgs : m.type = "Commit"} :
    /\ m1.from = m2.from /\ m1.index = m2.index
    /\ <<m1.from, m1.index>> \notin forgotten
    => m1.hash = m2.hash

(***************************************************************************)
(* A proposal handed to execution was voted for, with commit messages, by  *)
(* a quorum, although commit votes are kept over views and counted per     *)
(* hash only (PBFTCache::addCache, collectEnoughCommitReq).                *)
(***************************************************************************)
OrderedByQuorum ==
  \A x \in ordered : IsQuorum({m.from : m \in Sent("Commit", x[2], x[3])})

(***************************************************************************)
(* A precommitted proposal, which a view change reports with its proof,    *)
(* was prepared by a quorum of nodes (checkPrecommitWeight relies on it).  *)
(***************************************************************************)
PreparedByQuorum ==
  \A n \in Node, i \in Index :
    LET p == caches[n][i].precommit IN
    p # NoProposal => IsQuorum({m.from : m \in Sent("Prepare", i, p.hash)})

(***************************************************************************)
(* The proposal in consensus is the one the node is locked on: so the      *)
(* proposal checkAndCommit finds a quorum of commits for (m_prePrepare) is *)
(* the one it hands to execution (m_precommit).                            *)
(***************************************************************************)
LockedProposal ==
  \A n \in Node, i \in Index :
    LET c == caches[n][i] IN
    c.precommit # NoProposal => c.prePrepare.hash = c.precommit.hash

(***************************************************************************)
(* A node enters a view only if a quorum asked for this very view, whether *)
(* it entered by generating a NewView, by receiving one or by recover      *)
(* responses.                                                              *)
(***************************************************************************)
ViewBackedByQuorum ==
  \A n \in Node :
    ctl[n].view > 0 =>
      IsQuorum({m.from : m \in {x \in msgs : x.type = "ViewChange" /\ x.view = ctl[n].view}})

(***************************************************************************)
(* A committed block number is closed: the node takes no more votes for it *)
(* and no late vote or verification, and no execution that ends after the  *)
(* commit, puts a proposal, a vote or a result into its cache again.       *)
(* (onProposalApplySuccess does create the cache again and put the node's  *)
(* CheckPoint into it, which is not seen here.)                            *)
(***************************************************************************)
CommittedIsClosed ==
  \A n \in Node :
    /\ LowIndex(ctl[n]) > ctl[n].committed
    /\ \A i \in Index : i <= ctl[n].committed => caches[n][i] = EmptyCache

(***************************************************************************)
(* While it runs, a node never loses or changes its lock on a proposal it  *)
(* has not executed, before the number is committed: neither a new view,   *)
(* nor the commit or the synchronisation of an earlier number drops it.    *)
(***************************************************************************)
LockKept ==
  [][restarts' = restarts =>
       \A n \in Node, i \in Index :
         LET c == caches[n][i] IN
         c.precommit # NoProposal /\ c.checkpoint = NoHash /\ i > ctl'[n].committed
         => caches'[n][i].precommit.hash = c.precommit.hash]_vars

(***************************************************************************)
(* While it runs, a node never goes back to a lower view, although recover *)
(* responses of older views arrive late (resetNewViewState).               *)
(***************************************************************************)
ViewMonotonic ==
  [][restarts' = restarts => \A n \in Node : ctl'[n].view >= ctl[n].view]_vars

\* n took proposal h of number i ahead of the proposal's view, and the vote it cast
\* in the view it was in then has been dropped on entering that view (resetCache)
TakenAhead(n, i, h) ==
  LET c == caches[n][i] IN
  /\ c.prePrepare.hash = h /\ c.prePrepare.view = ctl[n].view
  /\ n \notin Voters(c.prepares, h)

(***************************************************************************)
(* A node in the timeout state sends no prepare and no commit vote, as     *)
(* executeWorker says ("Pre-prepare, prepare and commit type message       *)
(* packets are not allowed to be processed in the timeout state"), except  *)
(* for a proposal it took earlier: one whose verification ends meanwhile   *)
(* (the callback of verifyProposal does not look at the timeout state);    *)
(* one whose prepare, or which itself, sealed by this node, was waiting    *)
(* for m_mutex when the timeout came (executeWorker and onRecvProposal     *)
(* look at the timeout state before); and, with one of these, one it took  *)
(* ahead of its view, whose prepares were a quorum when it entered the     *)
(* view (checkAndPreCommit looks at all caches, and entering a view does   *)
(* not).                                                                   *)
(***************************************************************************)
QuietInTimeoutUnlessTaken ==
  [][\A n \in Node :
       ctl[n].timeout /\ ctl'[n].timeout =>
         \A m \in msgs' \ msgs :
           m.from = n /\ m.type \in {"Prepare", "Commit"}
           => \/ \E p \in pending[n] : p.index = m.index /\ p.hash = m.hash
              \/ \E x \in taken[n] : /\ x.type \in {"PrePrepare", "Prepare"}
                                     /\ x.index = m.index /\ x.hash = m.hash
              \/ m.type = "Commit" /\ TakenAhead(n, m.index, m.hash)]_vars

-----------------------------------------------------------------------------
(* The inductive invariant behind Agreement *)

SentIn(M, type, i, h) == {m \in M : m.type = type /\ m.index = i /\ m.hash = h}
CommitsOf(M, n, i) == {m \in M : m.type = "Commit" /\ m.from = n /\ m.index = i}

\* a cached vote was sent by its sender
VoteSent(M, type, i, u) ==
  \E m \in M : m.type = type /\ m.from = u.from /\ m.index = i /\ m.hash = u.hash

(***************************************************************************)
(* The cache c of node n for number i, when the messages M were sent:      *)
(* a lock is on the proposal in consensus and backed by a quorum of        *)
(* prepares; what n voted to commit is its lock, or the number is closed   *)
(* and holds no proposal; every cached vote was sent.                      *)
(***************************************************************************)
CacheInv(M, n, i, c) ==
  /\ c.precommit # NoProposal =>
       /\ c.prePrepare # NoProposal
       /\ c.prePrepare.hash = c.precommit.hash
       /\ IsQuorum({m.from : m \in SentIn(M, "Prepare", i, c.precommit.hash)})
  /\ <<n, i>> \notin forgotten =>
       \A m \in CommitsOf(M, n, i) :
         IF c.precommit = NoProposal THEN c.prePrepare = NoProposal
         ELSE m.hash = c.precommit.hash
  /\ \A u \in c.prepares : VoteSent(M, "Prepare", i, u)
  /\ \A u \in c.commits : VoteSent(M, "Commit", i, u)

\* n does not answer any more for numbers it voted for without holding the lock
VotedIsClosed(n) ==
  \A i \in Index :
    /\ <<n, i>> \notin forgotten
    /\ CommitsOf(msgs, n, i) # {}
    /\ caches[n][i].precommit = NoProposal
    => i < LowIndex(ctl[n])

(***************************************************************************)
(* What makes Agreement inductive: the caches of all nodes agree with the  *)
(* messages they sent, through verification callbacks, view changes,       *)
(* commits, synchronisation and restarts.                                  *)
(***************************************************************************)
OrderingInv ==
  /\ \A n \in Node : ctl[n].expected > ctl[n].committed
  /\ \A n \in Node, i \in Index : CacheInv(msgs, n, i, caches[n][i])
  /\ \A n \in Node : VotedIsClosed(n)
  /\ OneCommitVote
  /\ OrderedByQuorum

-----------------------------------------------------------------------------
(* The inductive invariants behind ViewBackedByQuorum, CommittedIsClosed   *)
(* and LockKept                                                            *)

\* a quorum asked for view v with the messages M; nobody asks for view 0
Backed(M, v) ==
  v = 0 \/ IsQuorum({m.from : m \in {x \in M : x.type = "ViewChange" /\ x.view = v}})

\* a message that lets others enter a view tells the truth about it
Truthful(M, m) ==
  /\ m.type = "NewView" => m.viewChanges \subseteq M /\ \A x \in m.viewChanges : x.view = m.view
  /\ m.type = "RecoverResponse" => Backed(M, m.view)

(***************************************************************************)
(* The view of a node, and every view it may still enter because of the    *)
(* view changes and recover responses it collected, or of a NewView or     *)
(* RecoverResponse in flight, has been asked for by a quorum.              *)
(***************************************************************************)
ViewInv ==
  /\ \A n \in Node :
       /\ Backed(msgs, ctl[n].view)
       /\ ctl[n].viewChanges \subseteq msgs
       /\ \A r \in ctl[n].recover : Backed(msgs, r[1])
  /\ \A m \in msgs : Truthful(msgs, m)

(***************************************************************************)
(* The cache of a committed number is empty, and only an executed proposal *)
(* is stable: so removeConsensusedCache drops no lock of an open number    *)
(* whose proposal has not been executed.                                   *)
(***************************************************************************)
ClosedInv ==
  \A n \in Node, i \in Index :
    /\ i <= ctl[n].committed => caches[n][i] = EmptyCache
    /\ caches[n][i].stable => caches[n][i].checkpoint # NoHash

\* the own prepare votes among those of cache c, and the mark of a precommit, are
\* not of a later or an earlier view than n's view v
OwnVotes(n, c, v) ==
  /\ \A u \in c.prepares : u.from = n => u.view <= v
  /\ c.precommitted => c.precommit.view = v

(***************************************************************************)
(* Between two handlers no proposal waits to be precommitted with the      *)
(* node's own vote among its prepares: it is behind                        *)
(* QuietInTimeoutUnlessTaken.                                              *)
(***************************************************************************)
TallyInv ==
  \A n \in Node, i \in Index :
    LET c == caches[n][i]
        v == ctl[n].view
    IN  /\ OwnVotes(n, c, v)
        /\ CanPreCommit(c, v) => n \notin Voters(c.prepares, c.prePrepare.hash)

=============================================================================

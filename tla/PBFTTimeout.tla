---------------------------- MODULE PBFTTimeout ----------------------------
(***************************************************************************)
(* When the consensus timer of one node runs: the timer and its back-off   *)
(* (PBFTTimer), the registers of PBFTConfig that decide about it, and the  *)
(* events of the engine that start, restart or stop it.  The timer is what *)
(* gets a stalled node into a view change; a node whose timer stands still *)
(* waits for others.                                                       *)
(*                                                                         *)
(* Handlers hold m_mutex and are one step, with three exceptions that the  *)
(* code does not protect: a handler whose last call is freshTimer reads    *)
(* the number of unsealed transactions before it stops the timer; the      *)
(* worker tests the timeout state before it takes the mutex to handle a    *)
(* commit message; the timer fires and then waits for the mutex.  Time     *)
(* itself is left out: a running timer may fire.  The node stays in the    *)
(* consensus-node list.                                                    *)
(***************************************************************************)
EXTENDS PBFTQuorum, FiniteSetsExt

CONSTANTS
  Me,              \* this node
  MaxIndex,        \* bound: block numbers 1..MaxIndex
  MaxView,         \* bound: views 0..MaxView
  MaxChangeCycle,  \* c_maxChangeCycle
  WaterMarkLimit,  \* m_warterMarkLimit
  FaultLimits      \* bound: how often faults and outside events happen together

Faults == {"verify", "execute", "sync", "txs", "newView", "recover", "join", "connect"}

ASSUME TimeoutAssumption ==
  /\ Me \in Node
  /\ MaxIndex \in Nat /\ MaxView \in Nat /\ MaxChangeCycle \in Nat
  /\ WaterMarkLimit \in Nat \ {0}
  /\ FaultLimits \subseteq [Faults -> Nat]

Index == 1 .. MaxIndex
View == 0 .. MaxView

VARIABLES
  node,     \* the timer, the registers and the stage of every number
  faults,   \* history: how often each fault and outside event happened
  waited,   \* history: expired timers since the view began or a number was ordered
  raced,    \* history: transactions arrived while freshTimer was at work
  late      \* history: a commit message was handled in the timeout state

vars == <<node, faults, waited, raced, late>>

(***************************************************************************)
(* The cache of a number: none, with votes only, with a pre-prepare of an  *)
(* earlier view, with a pre-prepare of this view, submitted.               *)
(***************************************************************************)
CacheState == {"none", "votes", "carried", "proposed", "submitted"}

State ==
  [phase : {"built", "ready", "started"},
   running : BOOLEAN,                \* the timer runs
   cycle : 0 .. MaxChangeCycle,      \* m_changeCycle
   stopping : BOOLEAN,               \* freshTimer has found no transactions
   fired : BOOLEAN,                  \* onTimeout waits for m_mutex
   popped : BOOLEAN,                 \* a commit message waits for m_mutex
   unsealed : BOOLEAN,               \* m_unsealedTxsSize > 0
   connected : SUBSET Node,          \* m_connectedNodeList
   timeout : BOOLEAN, view : View, toView : View,
   committed : 0 .. MaxIndex, expected : 1 .. MaxIndex + 1,
   syncing : 0 .. MaxIndex,          \* m_syncingHighestNumber
   syncState : BOOLEAN,              \* m_syncingState
   verifying : SUBSET Index,         \* with the validator, of this view
   caches : [Index -> CacheState],
   queue : SUBSET Index,             \* m_committedQueue
   executing : SUBSET Index,         \* marks of m_executingProposals
   runs : SUBSET Index]              \* executions under way

Larger(a, b) == IF a > b THEN a ELSE b
Smaller(a, b) == IF a < b THEN a ELSE b

-----------------------------------------------------------------------------
(* The timer *)

Restart(s) == [s EXCEPT !.running = TRUE]

incChangeCycle(s) == [s EXCEPT !.cycle = Smaller(@ + 1, MaxChangeCycle)]

resetToView(s) == [s EXCEPT !.toView = s.view, !.cycle = 0]

\* a mutant of freshTimer: the back-off starts anew
FreshCycle(s) ==
  IF s.unsealed THEN Restart([s EXCEPT !.cycle = 0]) ELSE [s EXCEPT !.stopping = TRUE, !.cycle = 0]

\* freshTimer as the last call of a handler: the stop is a step of its own
freshTimer(s) == IF s.unsealed THEN Restart(s) ELSE [s EXCEPT !.stopping = TRUE]

\* the view of a timeout may not pass the bound
CanTimeOut(s) == s.toView < MaxView

\* a mutant of resetTimeoutState: the timer, which has fired, is not restarted
TimeOutOnce(s, inc) ==
  LET s1 == IF inc THEN incChangeCycle(s) ELSE s
  IN  [s1 EXCEPT !.timeout = TRUE, !.toView = @ + 1, !.running = FALSE]

resetTimeoutState(s, inc) ==
  LET s1 == IF inc THEN incChangeCycle(s) ELSE s
  IN  Restart([s1 EXCEPT !.timeout = TRUE, !.toView = @ + 1])

(***************************************************************************)
(* tryTriggerFastViewChange: as long as the leader is another node and not *)
(* connected, the node times out at once, without back-off, for the next   *)
(* view.                                                                   *)
(***************************************************************************)
sealStartIndex(s) == Larger(s.expected, s.committed + 1)

LeaderGone(s, l) == s.connected # {} /\ l # Me /\ l \notin s.connected

FastViews(s) ==
  IF ~LeaderGone(s, LeaderIndex(sealStartIndex(s), s.view)) THEN 0
  ELSE Min({k \in 1 .. NumNodes : ~LeaderGone(s, LeaderIndex(s.committed + 1, s.toView + k))})

tryTriggerFastViewChange(s) ==
  IF FastViews(s) = 0 \/ s.toView + FastViews(s) > MaxView THEN s
  ELSE Restart([s EXCEPT !.timeout = TRUE, !.stopping = FALSE, !.toView = @ + FastViews(s)])

\* shouldStopTimer is false for the cache of some number
InConsensus(s) == {i \in Index : i > s.committed /\ s.caches[i] \notin {"none", "submitted"}}

\* a mutant of resetTimer: the numbers in consensus do not count
IgnoreCaches(s) == tryTriggerFastViewChange(freshTimer(s))

\* PBFTCacheProcessor::resetTimer
resetTimer(s) ==
  IF InConsensus(s) # {} THEN Restart(s)
  ELSE tryTriggerFastViewChange(freshTimer(s))

\* tryToApplyCommitQueue returns true.  Left out: it waits when the predecessor's
\* cache has been dropped as stable and its block is still being written
CanApply(s) == s.expected \in s.queue /\ s.expected \notin s.executing

tryToApplyCommitQueue(s) ==
  LET s1 == [s EXCEPT !.queue = {i \in @ : i >= s.expected}] IN
  IF CanApply(s)
  THEN [s1 EXCEPT !.queue = @ \ {s.expected}, !.executing = @ \cup {s.expected},
                  !.runs = @ \cup {s.expected}]
  ELSE IF s.expected \in s.queue THEN Restart(s1) ELSE s1

-----------------------------------------------------------------------------
(* resetConfig, finalizeConsensus, new views *)

\* a node that is behind the number it synchronises to counts as timed out
resetConfig(s, k) ==
  LET s1 == [s EXCEPT !.committed = k, !.expected = Larger(@, k + 1),
                      !.timeout = FALSE, !.running = s.unsealed]
  IN  IF s.syncing > k THEN [s1 EXCEPT !.timeout = TRUE, !.syncState = TRUE]
      ELSE [(IF s.syncState THEN Restart(s1) ELSE s1) EXCEPT !.syncState = FALSE]

removeFutureProposals(s, executed) ==
  [s EXCEPT !.expected = s.committed + 1, !.queue = {},
            !.caches = [i \in Index |->
               IF i <= s.committed \/ i \in executed THEN "none" ELSE s.caches[i]]]

finalizeConsensus(s, k, synced) ==
  LET s1 == tryToApplyCommitQueue(resetConfig(s, k))
      s2 == [s1 EXCEPT !.caches = [i \in Index |-> IF i <= k THEN "none" ELSE @[i]]]
      s3 == resetTimer(s2)
  IN  IF synced THEN removeFutureProposals(s3, k + 1 .. s2.expected - 1) ELSE s3

\* a mutant of resetNewViewState: the view aimed at is left alone
ForgetToView(s, v) ==
  IF s.view > v THEN s
  ELSE freshTimer([s EXCEPT !.cycle = 0, !.view = v, !.timeout = FALSE])

resetNewViewState(s, v) ==
  IF s.view > v THEN s
  ELSE freshTimer([s EXCEPT !.cycle = 0, !.view = v, !.toView = v, !.timeout = FALSE])

\* resetCacheAfterViewChange, and the proposals S of the NewView are verified
EnterView(s, v, S) ==
  [resetNewViewState(s, v) EXCEPT
     !.verifying = S \ s.executing,
     !.caches = [i \in Index |->
        IF s.caches[i] \in {"none", "votes"} THEN s.caches[i] ELSE "carried"]]

-----------------------------------------------------------------------------
(* Steps *)

Free == ~node.stopping     \* m_mutex is free
Working == node.phase = "started" /\ Free

Step(s) == node' = s /\ UNCHANGED <<faults, waited, raced, late>>

\* the faults and outside events together stay within one of the limits
Fault(k) ==
  /\ faults' = [faults EXCEPT ![k] = @ + 1]
  /\ \E limit \in FaultLimits : \A l \in Faults : faults'[l] <= limit[l]

Event(k, s) == Fault(k) /\ node' = s /\ UNCHANGED <<waited, raced, late>>

\* PBFTImpl::init
InitNode ==
  /\ node.phase = "built"
  /\ Step([Restart(resetConfig(node, 0)) EXCEPT !.phase = "ready"])

\* PBFTEngine::start
Start ==
  /\ node.phase = "ready"
  /\ Step([Restart(node) EXCEPT !.phase = "started"])

\* the end of freshTimer
StopTimer ==
  /\ node.stopping
  /\ Step([node EXCEPT !.stopping = FALSE, !.running = FALSE])

\* a mutant of setUnSealedTxsSize: the timer is not started
OnlyCount(more) ==
  /\ node.phase = "started" /\ more # node.unsealed
  /\ Fault("txs")
  /\ node' = [node EXCEPT !.unsealed = more]
  /\ raced' = (more /\ node.stopping)
  /\ UNCHANGED <<waited, late>>

\* setUnSealedTxsSize, a call of the txpool that takes no mutex
setUnSealedTxsSize(more) ==
  /\ node.phase = "started" /\ more # node.unsealed
  /\ Fault("txs")
  /\ node' = [node EXCEPT !.unsealed = more, !.running = @ \/ more]
  /\ raced' = (more /\ node.stopping)
  /\ UNCHANGED <<waited, late>>

\* setConnectedNodeList
SetConnected(S) ==
  /\ node.phase = "started" /\ S # node.connected
  /\ Event("connect", [node EXCEPT !.connected = S])

\* a pre-prepare passes its checks and goes to the validator
ReceiveProposal(i) ==
  /\ Working /\ ~node.timeout
  /\ i >= node.expected /\ i > node.syncing /\ i < node.committed + 1 + WaterMarkLimit
  /\ node.caches[i] \notin {"proposed", "submitted"} /\ i \notin node.verifying
  /\ Step([node EXCEPT !.verifying = @ \cup {i}])

\* a prepare message without its pre-prepare
ReceiveVote(i) ==
  /\ Working /\ ~node.timeout
  /\ i >= node.expected /\ i > node.syncing /\ i < node.committed + 1 + WaterMarkLimit
  /\ node.caches[i] = "none"
  /\ Step([node EXCEPT !.caches[i] = "votes"])

VerifySucceeds(i) ==
  /\ Working /\ i \in node.verifying
  /\ LET s == [node EXCEPT !.verifying = @ \ {i}] IN
     Step(IF i < node.expected \/ i <= node.syncing THEN s
          ELSE Restart([s EXCEPT !.caches[i] = "proposed"]))

VerifyFails(i) ==
  /\ i \in node.verifying
  /\ Event("verify", [node EXCEPT !.verifying = @ \ {i}])

\* number i is ordered: checkAndCommit, updateCommitQueue
Ordered(i) ==
  tryToApplyCommitQueue([node EXCEPT !.caches[i] = "submitted", !.queue = @ \cup {i}])

\* the last vote to arrive is a prepare (checkAndPreCommit)
OrderByPrepare(i) ==
  /\ Working /\ ~node.timeout /\ node.caches[i] = "proposed"
  /\ node' = Ordered(i) /\ waited' = 0
  /\ UNCHANGED <<faults, raced, late>>

\* executeWorker takes a commit message outside the timeout state
PopCommit ==
  /\ Working /\ ~node.timeout /\ ~node.popped
  /\ Step([node EXCEPT !.popped = TRUE])

\* handleCommitMsg: the vote is not enough, or completes number i
HandleCommit ==
  /\ Working /\ node.popped
  /\ node' = resetTimer([node EXCEPT !.popped = FALSE])
  /\ late' = node.timeout
  /\ UNCHANGED <<faults, waited, raced>>

OrderByCommit(i) ==
  /\ Working /\ node.popped /\ node.caches[i] = "proposed"
  /\ node' = resetTimer(resetToView(Restart([Ordered(i) EXCEPT !.popped = FALSE])))
  /\ waited' = 0 /\ late' = node.timeout
  /\ UNCHANGED <<faults, raced>>

ExecuteSucceeds(i) ==
  /\ Working /\ i \in node.runs
  /\ LET s == [node EXCEPT !.runs = @ \ {i}] IN
     Step(IF i <= node.committed THEN s
          ELSE [tryToApplyCommitQueue([s EXCEPT !.expected = i + 1]) EXCEPT
                  !.executing = @ \ {i}])

\* the mark is erased although the proposal may be executed again
ExecuteFails(i) ==
  /\ Working /\ i \in node.runs
  /\ LET s  == [node EXCEPT !.runs = @ \ {i}]
         s1 == [s EXCEPT !.executing = @ \ {i}, !.queue = @ \cup {i}]
     IN  Event("execute",
           IF i <= node.committed THEN s
           ELSE [tryToApplyCommitQueue(Restart(s1)) EXCEPT
                   !.expected = node.committed + 1, !.executing = @ \ {i}])

\* the next number is executed, stable and written to the ledger
Commit ==
  /\ Working /\ node.expected > node.committed + 1
  /\ Step(finalizeConsensus(node, node.committed + 1, FALSE))

\* asyncNotifyNewBlock
SyncBlock(k) ==
  /\ Working /\ k > node.committed
  /\ Event("sync", finalizeConsensus(node, k, TRUE))

\* notifyHighestSyncingNumber
NotifySyncing(k) ==
  /\ node.phase = "started" /\ k > node.committed /\ k # node.syncing
  /\ Event("sync", [node EXCEPT !.syncing = k])

TimerFires ==
  /\ node.phase = "started" /\ node.running /\ ~node.fired
  /\ Step([node EXCEPT !.fired = TRUE])

(***************************************************************************)
(* onTimeout: every branch restarts the timer; the node times out unless   *)
(* there is something to execute or being executed.                        *)
(***************************************************************************)
OnTimeout ==
  LET s    == [tryToApplyCommitQueue(node) EXCEPT !.fired = FALSE]
      busy == {i \in s.executing : i > s.committed}
  IN  /\ Working /\ node.fired
      /\ CanApply(node) \/ busy # {} \/ CanTimeOut(node)
      /\ node' = IF CanApply(node) THEN Restart(s)
                 ELSE IF busy # {} THEN Restart([s EXCEPT !.executing = busy])
                 ELSE resetTimeoutState([s EXCEPT !.executing = {}], TRUE)
      /\ waited' = IF CanApply(node) \/ busy # {} THEN waited ELSE Smaller(waited + 1, MaxView)
      /\ late' = FALSE /\ UNCHANGED <<faults, raced>>

\* handleViewChangeMsg: f + 1 nodes and the leader want view v
JoinViewChange(v) ==
  /\ Working /\ v > node.toView
  /\ Event("join", resetTimeoutState([node EXCEPT !.toView = v - 1], TRUE))

\* reHandlePrePrepareProposals: view v begins with the proposals S
NewView(v, S) ==
  /\ Working /\ v > node.view
  /\ \A i \in S : i >= node.expected /\ i > node.syncing
  /\ Fault("newView") /\ node' = EnterView(node, v, S) /\ waited' = 0
  /\ UNCHANGED <<raced, late>>

\* checkAndTryToRecover
RecoverView(v) ==
  /\ Working /\ v > node.view
  /\ Fault("recover") /\ node' = EnterView(node, v, {}) /\ waited' = 0
  /\ UNCHANGED <<raced, late>>

-----------------------------------------------------------------------------

Init ==
  /\ node = [phase |-> "built", running |-> FALSE, cycle |-> 0, stopping |-> FALSE,
             fired |-> FALSE, popped |-> FALSE, unsealed |-> FALSE, connected |-> {},
             timeout |-> TRUE, view |-> 0, toView |-> 0, committed |-> 0, expected |-> 1,
             syncing |-> 0, syncState |-> FALSE, verifying |-> {},
             caches |-> [i \in Index |-> "none"], queue |-> {}, executing |-> {}, runs |-> {}]
  /\ faults = [k \in Faults |-> 0]
  /\ waited = 0
  /\ raced = FALSE /\ late = FALSE

Next ==
  \/ InitNode \/ Start \/ StopTimer
  \/ \E more \in BOOLEAN : setUnSealedTxsSize(more)
  \/ \E S \in SUBSET Node : SetConnected(S)
  \/ \E i \in Index : ReceiveProposal(i)
  \/ \E i \in Index : ReceiveVote(i)
  \/ \E i \in Index : VerifySucceeds(i)
  \/ \E i \in Index : VerifyFails(i)
  \/ \E i \in Index : OrderByPrepare(i)
  \/ PopCommit
  \/ HandleCommit
  \/ \E i \in Index : OrderByCommit(i)
  \/ \E i \in Index : ExecuteSucceeds(i)
  \/ \E i \in Index : ExecuteFails(i)
  \/ Commit
  \/ \E k \in Index : SyncBlock(k)
  \/ \E k \in Index : NotifySyncing(k)
  \/ TimerFires
  \/ OnTimeout
  \/ \E v \in View : JoinViewChange(v)
  \/ \E v \in View, S \in SUBSET Index : NewView(v, S)
  \/ \E v \in View : RecoverView(v)

Spec == Init /\ [][Next]_vars

(***************************************************************************)
(* A timer that goes on running fires, and the threads of the engine, the  *)
(* validator and the scheduler go on; the other nodes' votes need not      *)
(* arrive, nor new views happen.                                           *)
(***************************************************************************)
FairSpec ==
  /\ Spec
  /\ WF_vars(InitNode) /\ WF_vars(Start) /\ WF_vars(StopTimer)
  /\ WF_vars(TimerFires) /\ WF_vars(OnTimeout)
  /\ WF_vars(HandleCommit \/ \E i \in Index : OrderByCommit(i))
  /\ \A i \in Index : WF_vars(VerifySucceeds(i)) /\ WF_vars(ExecuteSucceeds(i))
  /\ WF_vars(Commit)

-----------------------------------------------------------------------------
(* Properties *)

(***************************************************************************)
(* The registers keep their types; the back-off stays within its limit and *)
(* the view aimed at is never behind the view.                             *)
(***************************************************************************)
TypeOK ==
  /\ node \in State
  /\ node.toView >= node.view
  /\ faults \in [Faults -> Nat] /\ waited \in View
  /\ raced \in BOOLEAN /\ late \in BOOLEAN

(***************************************************************************)
(* While a proposal of this view is in consensus the timer runs, so that a *)
(* leader or a vote that never comes ends in a view change: resetTimer is  *)
(* to "start the timer when there has proposals in consensus".             *)
(***************************************************************************)
ProposalIsTimed ==
  \A i \in Index :
    node.caches[i] = "proposed" /\ i > node.committed => node.running /\ ~node.stopping

(***************************************************************************)
(* While the pool holds transactions nobody has sealed the timer runs, so  *)
(* that a leader that does not seal them is replaced.  It holds unless     *)
(* they arrived between the two steps of freshTimer.                       *)
(***************************************************************************)
TransactionsAreTimedUnlessRaced ==
  node.unsealed /\ node.phase = "started" /\ ~raced => node.running

(***************************************************************************)
(* A node in the timeout state, which takes no proposals and votes, does   *)
(* not stay there with a silent timer: the timer fires again, or the node  *)
(* leaves the state; every timeout is to "start the timer again(the timer  *)
(* here must be restarted)" (resetTimeoutState).  It holds unless a commit *)
(* message, taken before the timeout, is handled in the timeout state,     *)
(* where freshTimer stops the timer, or the node waits for synchronised    *)
(* blocks.                                                                 *)
(***************************************************************************)
KeepsTryingUnlessLate ==
  node.timeout ~> (node.fired \/ ~node.timeout \/ late \/ node.syncState)

(***************************************************************************)
(* However timers, commits, synchronised blocks and failing executions     *)
(* interleave, the waiting time of a view has grown with every timer that  *)
(* expired in vain ("increases exponentially until some requested          *)
(* operation executes", updateAdjustedTimeout).  A new view starts anew,   *)
(* whether or not anything was executed (resetNewViewState).               *)
(***************************************************************************)
BacksOffUntilNewView == node.cycle >= Smaller(waited, MaxChangeCycle)

=============================================================================

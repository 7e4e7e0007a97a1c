---------------------------- MODULE PBFTPipeline ----------------------------
(***************************************************************************)
(* The second stage of one node: the ordered proposals are executed in the *)
(* order of their block numbers, the results are agreed on by CheckPoint   *)
(* messages, and stable results are committed to the ledger                *)
(* (PBFTCacheProcessor, StateMachine, LedgerStorage, PBFTLogSync).         *)
(*                                                                         *)
(* The other nodes, the ordering stage, the scheduler and the sync module  *)
(* are the environment.  Ordering agrees on one proposal per block number  *)
(* (Agreement of PBFTOrdering) and execution is deterministic, so the      *)
(* block number stands for the proposal, for its hash and for its result.  *)
(*                                                                         *)
(* A handler runs under m_mutex and is one step.  Execution, the results   *)
(* waiting for the engine's worker, the two writes of a proposal to the    *)
(* storage, commits to the ledger, requests and verifications are not:     *)
(* other steps happen in between.                                          *)
(***************************************************************************)
EXTENDS PBFTQuorum, Sequences, FiniteSetsExt

CONSTANTS
  Me,              \* this node
  MaxIndex,        \* bound: block numbers 1..MaxIndex are ordered
  WaterMarkLimit,  \* m_warterMarkLimit
  Reserved,        \* c_reservedCheckPointSize
  FaultLimits      \* bound: how often faults and outside events happen together

Faults == {"execute", "commit", "fetch", "empty", "load", "put", "read", "newView",
           "sync", "restart"}

ASSUME PipelineAssumption ==
  /\ Me \in Node
  /\ MaxIndex \in Nat /\ Reserved \in Nat
  /\ WaterMarkLimit \in Nat \ {0}
  /\ FaultLimits \subseteq [Faults -> Nat]

Index == 1 .. MaxIndex

VARIABLES
  node,      \* the node's state
  faults,    \* history: how often each fault and outside event happened
  reported   \* history: the nodes whose CheckPoint of a number was taken

vars == <<node, faults, reported>>

Cache ==
  [submitted : BOOLEAN,      \* m_submitted, or refused in this view
   precommitted : BOOLEAN,   \* m_precommitted
   checkpoint : BOOLEAN,     \* m_checkpointProposal is set
   stable : BOOLEAN,         \* m_stableCommitted
   votes : SUBSET Node]      \* m_checkpointCacheList

EmptyCache == [submitted |-> FALSE, precommitted |-> FALSE, checkpoint |-> FALSE,
               stable |-> FALSE, votes |-> {}]

\* an execution result in the engine's worker: how far it has been handled
Result == [index : Index, state : {"failed", "executed", "indexed", "stored"}]

Count == [Index -> Nat]
Zero == [i \in Index |-> 0]

State ==
  [committed : 0 .. MaxIndex, expected : 1 .. MaxIndex + 1, low : 1 .. MaxIndex + 1,
   syncing : 0 .. MaxIndex, timeout : BOOLEAN,
   caches : [Index -> Cache],
   queue : Count,              \* m_committedQueue
   executing : SUBSET Index,   \* m_executingProposals
   running : Count,            \* executions in the state machine
   results : Seq(Result),      \* the queue of the engine's worker
   stableQueue : Count,        \* m_stableCheckPointQueue
   committing : Count,         \* calls of commitBlock without an answer
   listed : SUBSET Index,      \* m_committedProposalList
   requests : SUBSET Index,    \* requested from another node
   loading : SUBSET Index,     \* being verified by loadAndVerifyProposal
   notified : SUBSET Index,    \* new blocks that asyncNotifyNewBlock has accepted
   maxMem : 0 .. MaxIndex,     \* m_maxCommittedProposalIndex
   maxKey : 0 .. MaxIndex,     \* on disk: max_committed_proposal
   stored : SUBSET Index]      \* on disk: the executed proposals

\* a node that starts with k blocks on the ledger and nothing to reload
StartState(k) ==
  [committed |-> k, expected |-> k + 1, low |-> k + 1, syncing |-> 0, timeout |-> FALSE,
   caches |-> [i \in Index |-> EmptyCache],
   queue |-> Zero, executing |-> {}, running |-> Zero, results |-> <<>>,
   stableQueue |-> Zero, committing |-> Zero, listed |-> {}, requests |-> {},
   loading |-> {}, notified |-> {}, maxMem |-> k, maxKey |-> 0, stored |-> {}]

\* the highest number on the ledger: a synchronised block is there before the
\* node has taken it over
Ledger(s) == Max(s.notified \cup {s.committed})

Larger(a, b) == IF a > b THEN a ELSE b
Smaller(a, b) == IF a < b THEN a ELSE b

-----------------------------------------------------------------------------
(* Execution *)

\* getAppliedCheckPointProposal(expected - 1) finds a proposal
LastApplied(s) ==
  \/ s.expected - 1 = s.committed
  \/ s.expected - 1 \in Index /\ s.caches[s.expected - 1].checkpoint

\* a mutant of CanApply: the mark of a proposal that is executed does not count
ApplyUnmarked(s) ==
  /\ s.expected \in Index /\ s.queue[s.expected] > 0
  /\ LastApplied(s)

CanApply(s) ==
  /\ s.expected \in Index /\ s.queue[s.expected] > 0
  /\ LastApplied(s)
  /\ s.expected \notin s.executing

tryToApplyCommitQueue(s) ==
  LET valid == [i \in Index |-> IF i < s.expected THEN 0 ELSE s.queue[i]]
      i == s.expected
  IN  IF CanApply(s)
      THEN [s EXCEPT !.queue = [valid EXCEPT ![i] = @ - 1],
                     !.executing = @ \cup {i}, !.running[i] = @ + 1]
      ELSE [s EXCEPT !.queue = valid]

updateCommitQueue(s, i) ==
  IF i \in s.executing THEN s
  ELSE tryToApplyCommitQueue([s EXCEPT !.queue[i] = @ + 1, !.listed = @ \cup {i}])

setExpectedCheckPoint(s, i) == [s EXCEPT !.expected = Larger(s.committed + 1, i)]

eraseExecutedProposal(s, i) == [s EXCEPT !.executing = @ \ {i}]

\* a mutant of onProposalApplyFailed: pushed again before its mark is erased
PushBeforeErase(s, i) ==
  LET s1 == IF i >= s.committed \/ i >= s.syncing THEN updateCommitQueue(s, i) ELSE s
  IN  eraseExecutedProposal(setExpectedCheckPoint(s1, s.committed + 1), i)

(***************************************************************************)
(* The failed proposal is pushed again, which may start its execution at   *)
(* once; its mark is erased before and after.                              *)
(***************************************************************************)
onProposalApplyFailed(s, i) ==
  LET s1 == IF i >= s.committed \/ i >= s.syncing
            THEN updateCommitQueue(eraseExecutedProposal(s, i), i) ELSE s
  IN  eraseExecutedProposal(setExpectedCheckPoint(s1, s.committed + 1), i)

-----------------------------------------------------------------------------
(* Stable checkpoints *)

\* a mutant of tryToCommitStableCheckPoint: numbers may be skipped
CommitAnyStable(s) ==
  LET S == {i \in Index : i > s.committed /\ s.stableQueue[i] > 0} IN
  IF S = {} THEN s
  ELSE LET k == CHOOSE i \in S : \A j \in S : i <= j IN
       [s EXCEPT !.stableQueue[k] = @ - 1, !.committing[k] = @ + 1, !.listed = @ \ {k}]

\* numbers committed meanwhile are dropped, the next number is committed
tryToCommitStableCheckPoint(s) ==
  LET old   == {i \in Index : i <= s.committed /\ s.stableQueue[i] > 0}
      valid == [i \in Index |-> IF i <= s.committed THEN 0 ELSE s.stableQueue[i]]
      k     == s.committed + 1
  IN  IF k \in Index /\ s.stableQueue[k] > 0
      THEN [s EXCEPT !.stableQueue = [valid EXCEPT ![k] = @ - 1],
                     !.committing[k] = @ + 1,
                     !.listed = @ \ (old \cup {k})]
      ELSE [s EXCEPT !.stableQueue = valid, !.listed = @ \ old]

\* a mutant of NewlyStable: f + 1 CheckPoint messages are enough
StableOnFaultyPlusOne(s) ==
  {i \in Index : LET c == s.caches[i] IN
     c.checkpoint /\ ~c.stable /\ Weight(c.votes) > MaxFaultyQuorum}

NewlyStable(s) ==
  {i \in Index : LET c == s.caches[i] IN c.checkpoint /\ ~c.stable /\ IsQuorum(c.votes)}

\* checkAndCommitStableCheckPoint; a step makes at most one number stable
checkAndCommitStableCheckPoint(s) ==
  LET S  == NewlyStable(s)
      s1 == [s EXCEPT !.caches = [i \in Index |->
               IF i \in S THEN [s.caches[i] EXCEPT !.stable = TRUE] ELSE s.caches[i]]]
      S1 == {i \in S : i > s.committed}
  IN  IF S1 = {} THEN s1
      ELSE tryToCommitStableCheckPoint(
             [s1 EXCEPT !.stableQueue = [i \in Index |->
                IF i \in S1 THEN s.stableQueue[i] + 1 ELSE s.stableQueue[i]]])

addCheckPointMsg(s, i, p) == [s EXCEPT !.caches[i].votes = @ \cup {p}]

setCheckPointProposal(s, i) ==
  IF i <= s.committed THEN s ELSE [s EXCEPT !.caches[i].checkpoint = TRUE]

\* onProposalApplySuccess, once the proposal has been stored
onProposalApplySuccess(s, i) ==
  LET s1 == setExpectedCheckPoint(setCheckPointProposal(addCheckPointMsg(s, i, Me), i), i + 1)
  IN  eraseExecutedProposal(tryToApplyCommitQueue(checkAndCommitStableCheckPoint(s1)), i)

isSyncingHigher(s) == s.syncing >= s.committed + WaterMarkLimit

\* f + 1 nodes have executed i and this node has not even precommitted it, or
\* the node is in the timeout state
shouldRequestCheckPoint(s, i) ==
  /\ i > s.committed /\ i > s.syncing
  /\ i \notin s.listed
  /\ ~s.caches[i].checkpoint
  /\ s.timeout \/ (~s.caches[i].precommitted /\ Weight(s.caches[i].votes) > MaxFaultyQuorum)

\* one request per number is outstanding; the answer is a step of its own
requestCommittedProposals(s, i) == [s EXCEPT !.requests = @ \cup {i}]

handleCheckPointMsg(s, i, p) ==
  LET s1 == checkAndCommitStableCheckPoint(tryToApplyCommitQueue(addCheckPointMsg(s, i, p)))
  IN  IF shouldRequestCheckPoint(s1, i)
      THEN [requestCommittedProposals(s1, i) EXCEPT
              !.listed = IF s1.timeout THEN @ ELSE @ \cup {i}]
      ELSE s1

-----------------------------------------------------------------------------
(* Commit to the ledger *)

\* a mutant of resetConfig: every commit moves expectedCheckPoint on
CountCommits(s, k) ==
  [s EXCEPT !.committed = k, !.expected = @ + 1, !.low = Larger(@, k + 1),
            !.timeout = s.syncing > k]

resetConfig(s, k) ==
  IF k <= s.committed THEN s
  ELSE [s EXCEPT !.committed = k, !.expected = Larger(@, k + 1), !.low = Larger(@, k + 1),
                 !.timeout = s.syncing > k]

removeConsensusedCache(s, k) ==
  [s EXCEPT !.caches = [i \in Index |->
     IF i <= k \/ s.caches[i].stable THEN EmptyCache ELSE s.caches[i]]]

removeFutureProposals(s) ==
  LET executed == {i \in Index : s.caches[i].checkpoint} IN
  [s EXCEPT !.expected = s.committed + 1, !.queue = Zero, !.listed = {},
            !.stableQueue = Zero,
            !.stored = @ \ executed,
            !.caches = [i \in Index |-> IF i \in executed THEN EmptyCache ELSE s.caches[i]]]

finalizeConsensus(s, k, synced) ==
  LET s1 == tryToCommitStableCheckPoint(
              removeConsensusedCache(tryToApplyCommitQueue(resetConfig(s, k)), k))
  IN  IF synced THEN removeFutureProposals(s1) ELSE s1

-----------------------------------------------------------------------------
(* Steps *)

Step(s) == node' = s /\ UNCHANGED <<faults, reported>>

\* a step that takes the CheckPoint of node p for number i
VoteStep(i, p, s) ==
  /\ node' = s
  /\ reported' = [reported EXCEPT ![i] = @ \cup {p}]
  /\ UNCHANGED faults

\* faults and outside events of the kinds K, together within one of the limits
Events(K, s) ==
  /\ faults' = [k \in Faults |-> IF k \in K THEN faults[k] + 1 ELSE faults[k]]
  /\ \E limit \in FaultLimits : \A k \in Faults : faults'[k] <= limit[k]
  /\ node' = s /\ UNCHANGED reported

Event(k, s) == Events({k}, s)

\* PBFTCache::checkAndCommit: i is ordered, in this view for the first time
OrderProposal(i) ==
  /\ ~isSyncingHigher(node) /\ ~node.timeout
  /\ i >= Larger(node.low, node.expected) /\ i > node.syncing
  /\ i < node.committed + 1 + WaterMarkLimit
  /\ ~node.caches[i].submitted
  /\ Step(updateCommitQueue([node EXCEPT !.caches[i].submitted = TRUE,
                                         !.caches[i].precommitted = TRUE], i))

\* a new view: PBFTCache::resetCache for every cache; handlePrePrepareMsg
\* refuses the NewView's proposal of a number that is being executed
NewView ==
  Event("newView",
    [node EXCEPT !.timeout = FALSE,
                 !.caches = [i \in Index |-> [node.caches[i] EXCEPT
                   !.submitted = i \in node.executing, !.precommitted = FALSE]]])

\* clearExpiredExecutingProposal, then the timeout unless proposals are executed
OnTimeout ==
  LET busy == {i \in node.executing : i > node.committed} IN
  Step(IF CanApply(node) THEN tryToApplyCommitQueue(node)
       ELSE [tryToApplyCommitQueue(node) EXCEPT !.executing = busy,
                                                !.timeout = @ \/ busy = {}])

\* the callback of applyStateMachine; an expired result is given up
ExecuteFinished(i, state) ==
  [node EXCEPT !.running[i] = @ - 1,
               !.results = IF i <= node.committed THEN @
                           ELSE Append(@, [index |-> i, state |-> state])]

ExecuteSucceeds(i) ==
  /\ node.running[i] > 0
  /\ Step(ExecuteFinished(i, "executed"))

ExecuteFails(i) ==
  /\ node.running[i] > 0
  /\ Event("execute", ExecuteFinished(i, "failed"))

\* the worker takes the next result
NextResult(state) == node.results # <<>> /\ Head(node.results).state = state
SetResult(state) == [node EXCEPT !.results[1].state = state]
Handled(s) == [s EXCEPT !.results = Tail(@)]

ApplyFailed ==
  /\ NextResult("failed")
  /\ Step(onProposalApplyFailed(Handled(node), Head(node.results).index))

(***************************************************************************)
(* asyncCommitProposal: the highest number is written before the proposal, *)
(* and neither is written for a number below the highest.                  *)
(***************************************************************************)
StoreIndex ==
  /\ NextResult("executed")
  /\ LET i == Head(node.results).index IN
     Step(IF node.maxMem >= i THEN SetResult("stored")
          ELSE [SetResult("indexed") EXCEPT !.maxMem = i, !.maxKey = i])

StoreProposal ==
  /\ NextResult("indexed")
  /\ Step([SetResult("stored") EXCEPT !.stored = @ \cup {Head(node.results).index}])

\* asyncPutProposal gives a write up after three retries; nobody is told
StoreIndexFails ==
  /\ NextResult("executed")
  /\ LET i == Head(node.results).index IN
     /\ node.maxMem < i
     /\ Event("put", [SetResult("indexed") EXCEPT !.maxMem = i])

StoreProposalFails ==
  /\ NextResult("indexed")
  /\ Event("put", SetResult("stored"))

ApplySuccess ==
  /\ NextResult("stored")
  /\ LET i == Head(node.results).index IN
     VoteStep(i, Me, onProposalApplySuccess(Handled(node), i))

HandleCheckPoint(p, i) ==
  /\ p # Me
  /\ ~isSyncingHigher(node) /\ i > node.committed
  /\ VoteStep(i, p, handleCheckPointMsg(node, i, p))

\* commitBlock succeeds; the proposal Reserved numbers below is not needed more
CommitSucceeds(i) ==
  LET s == [node EXCEPT !.committing[i] = @ - 1] IN
  /\ node.committing[i] > 0 /\ i = node.committed + 1 /\ i > Ledger(node)
  /\ Step([finalizeConsensus(s, i, FALSE) EXCEPT
             !.stored = IF i > Reserved THEN @ \ {i - Reserved} ELSE @])

\* commitBlock fails for a number that is on the ledger, or by a fault
CommitExpired(i) ==
  /\ node.committing[i] > 0 /\ i <= Ledger(node)
  /\ Step([node EXCEPT !.committing[i] = @ - 1])

CommitFails(i) ==
  /\ node.committing[i] > 0
  /\ Event("commit", [node EXCEPT !.committing[i] = @ - 1])

(***************************************************************************)
(* asyncNotifyNewBlock: the sync module has put block k on the ledger.     *)
(* The number is compared before finalizeConsensus waits for m_mutex, so a *)
(* later block may be taken over first.                                    *)
(***************************************************************************)
NotifyNewBlock(k) ==
  /\ k > Ledger(node)
  /\ Event("sync", [node EXCEPT !.notified = @ \cup {k}])

SyncBlock(k) ==
  /\ k \in node.notified
  /\ Step(finalizeConsensus([node EXCEPT !.notified = @ \ {k}], k, TRUE))

NotifySyncing(k) ==
  /\ k > node.committed
  /\ Event("sync", [node EXCEPT !.syncing = k])

-----------------------------------------------------------------------------
(* Requests for committed proposals, and the proposals of the storage      *)

\* onRecvCommittedProposalsResponse; initState skips what is committed
ResponseFound(i) ==
  /\ i \in node.requests
  /\ Step([node EXCEPT !.requests = @ \ {i},
                       !.loading = IF i > node.committed THEN @ \cup {i} ELSE @])

\* the number stays in m_committedProposalList
ResponseEmpty(i) ==
  /\ i \in node.requests
  /\ Event("empty", [node EXCEPT !.requests = @ \ {i}])

ResponseError(i) ==
  /\ i \in node.requests
  /\ Event("fetch", [node EXCEPT !.requests = @ \ {i}, !.listed = @ \ {i}])

\* onLoadAndVerifyProposalSucc
LoadSucceeds(i) ==
  /\ i \in node.loading
  /\ Step(updateCommitQueue([node EXCEPT !.loading = @ \ {i}], i))

\* a mutant of LoadFails: the watermark may fall below the ledger
LowBelowLedger(i) ==
  /\ i \in node.loading
  /\ Event("load", [node EXCEPT !.loading = @ \ {i}, !.low = Smaller(@, i - 1)])

\* a proposal that cannot be verified gives up the watermark of the restart
LoadFails(i) ==
  /\ i \in node.loading
  /\ Event("load", [node EXCEPT !.loading = @ \ {i},
                                !.low = Larger(Smaller(@, i - 1), node.committed + 1)])

\* a verification that has timed out four times is given up, the watermark stays
LoadGivesUp(i) ==
  /\ i \in node.loading
  /\ Event("load", [node EXCEPT !.loading = @ \ {i}])

\* loadState: every number from the ledger to the highest, or none
Reloaded(s) ==
  LET wanted == {i \in Index : Ledger(s) < i /\ i <= s.maxKey} IN
  IF wanted \subseteq s.stored THEN wanted ELSE {}

\* a mutant of Restarted: the highest number counts although nothing is reloaded
KeepHighest(R) ==
  LET k == Ledger(node) IN
  [StartState(k) EXCEPT !.maxKey = node.maxKey, !.stored = node.stored,
                        !.maxMem = Larger(k, node.maxKey),
                        !.low = IF R = {} THEN k + 1 ELSE node.maxKey + 1,
                        !.loading = R]

\* PBFTImpl::init of a node that reloads the numbers R
Restarted(R) ==
  LET k == Ledger(node) IN
  [StartState(k) EXCEPT !.maxKey = node.maxKey, !.stored = node.stored,
                        !.maxMem = IF R = {} THEN k ELSE node.maxKey,
                        !.low = IF R = {} THEN k + 1 ELSE node.maxKey + 1,
                        !.loading = R]

\* a crash and the restart
Restart == Event("restart", Restarted(Reloaded(node)))

(***************************************************************************)
(* asyncGetLatestCommittedProposalIndex looks at the value before it looks *)
(* at the error: a read that fails with no value counts as an empty table. *)
(***************************************************************************)
RestartUnread == Events({"restart", "read"}, Restarted({}))

-----------------------------------------------------------------------------

Init ==
  /\ node = StartState(0)
  /\ faults = [k \in Faults |-> 0]
  /\ reported = [i \in Index |-> {}]

Next ==
  \/ \E i \in Index : OrderProposal(i)
  \/ NewView
  \/ OnTimeout
  \/ \E i \in Index : ExecuteSucceeds(i)
  \/ \E i \in Index : ExecuteFails(i)
  \/ ApplyFailed
  \/ StoreIndex
  \/ StoreProposal
  \/ StoreIndexFails
  \/ StoreProposalFails
  \/ ApplySuccess
  \/ \E p \in Node, i \in Index : HandleCheckPoint(p, i)
  \/ \E i \in Index : CommitSucceeds(i)
  \/ \E i \in Index : CommitExpired(i)
  \/ \E i \in Index : CommitFails(i)
  \/ \E k \in Index : NotifyNewBlock(k)
  \/ \E k \in Index : SyncBlock(k)
  \/ \E k \in Index : NotifySyncing(k)
  \/ \E i \in Index : ResponseFound(i)
  \/ \E i \in Index : ResponseEmpty(i)
  \/ \E i \in Index : ResponseError(i)
  \/ \E i \in Index : LoadSucceeds(i)
  \/ \E i \in Index : LoadFails(i)
  \/ \E i \in Index : LoadGivesUp(i)
  \/ Restart
  \/ RestartUnread

Spec == Init /\ [][Next]_vars

\* the engine's worker handles its next result
Worker == ApplyFailed \/ StoreIndex \/ StoreProposal \/ ApplySuccess

\* a CheckPoint of p for number i has something to tell the node
NewsFrom(p, i) ==
  /\ i > node.committed /\ ~isSyncingHigher(node)
  /\ p \notin reported[i] \/ handleCheckPointMsg(node, i, p) # node

(***************************************************************************)
(* The scheduler answers every execution and every commit, the worker      *)
(* handles its queue, requests and verifications end, and the CheckPoint   *)
(* messages of the other nodes arrive: onCheckPointTimeout sends them      *)
(* again until the sender has committed the block, for which it needs this *)
(* node in the instances checked with this fairness.  Timeouts, new views, *)
(* ordering and faults need not happen.  Each conjunct is weak fairness,   *)
(* with the enabling condition written out: evaluating ENABLED on handlers *)
(* this deep is slow.                                                      *)
(***************************************************************************)
Fairness ==
  /\ \A i \in Index :
       []<>(node.running[i] = 0) \/ []<><<ExecuteSucceeds(i)>>_vars
  /\ []<>(node.results = <<>>) \/ []<><<Worker>>_vars
  /\ \A i \in Index :
       []<>(node.committing[i] = 0 \/ i # Ledger(node) + 1) \/ []<><<CommitSucceeds(i)>>_vars
  /\ \A i \in Index : []<>(i \notin node.requests) \/ []<><<ResponseFound(i)>>_vars
  /\ \A i \in Index : []<>(i \notin node.loading) \/ []<><<LoadSucceeds(i)>>_vars
  /\ \A p \in Node \ {Me}, i \in Index :
       []<>~NewsFrom(p, i) \/ []<><<HandleCheckPoint(p, i)>>_vars

FairSpec == Spec /\ Fairness

-----------------------------------------------------------------------------
(* Properties *)

(***************************************************************************)
(* Every register and queue keeps its type: in particular no late result,  *)
(* failure or synchronised block moves a watermark out of its range.       *)
(***************************************************************************)
TypeOK ==
  /\ node \in State
  /\ faults \in [Faults -> Nat]
  /\ reported \in [Index -> SUBSET Node]

(***************************************************************************)
(* Blocks are submitted to the ledger in the order of their numbers, also  *)
(* when later numbers become stable first, commits fail or blocks are      *)
(* synchronised meanwhile: no number beyond the next one is ever handed to *)
(* commitBlock (tryToCommitStableCheckPoint).                              *)
(***************************************************************************)
CommitsInOrder ==
  \A i \in Index : node.committing[i] > 0 => i <= node.committed + 1

(***************************************************************************)
(* A number waits for its commit or is being committed only if this node   *)
(* and a quorum have reported its execution, although caches, and the      *)
(* CheckPoint messages in them, are dropped and built again                *)
(* (checkAndCommitStableCheckPoint, removeFutureProposals).                *)
(***************************************************************************)
StableByQuorum ==
  \A i \in Index :
    node.stableQueue[i] > 0 \/ node.committing[i] > 0
    => Me \in reported[i] /\ IsQuorum(reported[i])

\* the node holds the execution result of i, or has submitted it
Applied(i) ==
  \/ node.caches[i].checkpoint
  \/ node.stableQueue[i] > 0
  \/ node.committing[i] > 0

(***************************************************************************)
(* What a node votes for is a chain from the ledger upwards: every number  *)
(* between the ledger and expectedCheckPoint has an execution result.  A   *)
(* gap is never filled: the node takes no more votes below                 *)
(* expectedCheckPoint and does not execute on a missing parent.            *)
(* removeFutureProposals is there to keep it so when a block is            *)
(* synchronised ("future proposals need to be cleared here").              *)
(***************************************************************************)
NoGap ==
  \A i \in Index : node.committed < i /\ i < node.expected => Applied(i)

(***************************************************************************)
(* A proposal is not executed while an execution of it is under way: the   *)
(* mark in m_executingProposals is set "in case of the same block execute  *)
(* more than once" (tryToApplyCommitQueue).                                *)
(***************************************************************************)
ExecutedOnce == \A i \in Index : node.running[i] <= 1

(***************************************************************************)
(* No proposal is executed twice at once, through timeouts, new views,     *)
(* redelivery and synchronised blocks, as long as no execution has failed: *)
(* onProposalApplyFailed erases the mark of the repeated execution.        *)
(***************************************************************************)
ExecutedOnceUnlessFailed == faults["execute"] > 0 \/ ExecutedOnce

(***************************************************************************)
(* A gap needs a block synchronised while a later number is executed, or a *)
(* commit that fails after removeConsensusedCache has dropped the number's *)
(* cache with its predecessor's (nobody repeats it).  Failing executions,  *)
(* new views, requests and crashes leave none.                             *)
(***************************************************************************)
NoGapUnlessLost == faults["sync"] > 0 \/ faults["commit"] > 0 \/ NoGap

(***************************************************************************)
(* A proposal whose result the node votes for is in the storage, from      *)
(* which a restart reloads it, until it is on the ledger, although the     *)
(* node may crash between the two writes and execute it again:             *)
(* onProposalApplySuccess is to "commit the proposal when execute          *)
(* success".  It is not there after a write that was given up, nor when    *)
(* removeFutureProposals has removed it: asyncCommitProposal compares with *)
(* the highest number ever stored and does not write it again.             *)
(***************************************************************************)
StoredUnlessRemoved ==
  faults["sync"] = 0 /\ faults["put"] = 0
  => \A i \in Index : node.caches[i].checkpoint => i \in node.stored

(***************************************************************************)
(* Every block gets onto the ledger although executions fail, are          *)
(* redelivered in a new view, time out or finish twice, the node crashes,  *)
(* and requests, writes and reads fail: onProposalApplyFailed sets         *)
(* expectedCheckPoint back and pushes the proposal while its predecessors  *)
(* are in any stage; a node that takes part in no ordering, or loses it in *)
(* a crash, requests each proposal on the CheckPoint messages of the       *)
(* others, again after a request that failed (shouldRequestCheckPoint,     *)
(* onRecvCommittedProposalsResponse), executes it and agrees.              *)
(***************************************************************************)
BlocksGetCommitted == <>(node.committed = MaxIndex)

=============================================================================

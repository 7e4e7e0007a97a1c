# bcos-pbft in TLA+

A model of the two-stage parallel PBFT consensus of FISCO BCOS (`src/bcos-pbft`):
block numbers are ordered in parallel by pre-prepare, prepare and commit; the
ordered blocks are executed one after the other, the results are agreed on by
CheckPoint messages, and stable results are committed to the ledger.  TLC checks
small instances.  TLAPS proves, for any number of nodes, any weights and any
bounds, the agreement of the ordering stage and what its views and locks rest on,
the safety of the second stage, both refinements of an abstract specification, and
the safety of the message queue, of the timer, of the sealing notification and of the
change of the node list.  Every safety property a passing run checks is proved.

## 1. The system

| Component | State | Operations | Correct when |
| --- | --- | --- | --- |
| `ConsensusConfig`, `PBFTConfig` (quorum, leader) | sorted node list, weights, quorums | `setConsensusNodeList`, `updateQuorum`, `leaderIndex` | two quorums share more than f votes |
| `PBFTConfig` (registers) | view, toView, timeout, committed, expectedCheckPoint, lowWaterMark, syncing number | `resetConfig`, `resetTimeoutState`, `resetNewViewState`, `setExpectedCheckPoint` | views only grow; watermarks never fall below the ledger |
| `PBFTCache` (one per block number) | pre-prepare, votes, precommit (the lock), checkpoint, flags | `addPrePrepareCache`, `addCache`, `checkAndPreCommit`, `checkAndCommit`, `resetCache`, `checkAndCommitStableCheckPoint` | one proposal per number is voted for; votes are counted once |
| `PBFTCacheProcessor` | caches, view-change and recover caches, commit queue, executing marks, stable queue, requested numbers | `updateCommitQueue`, `tryToApplyCommitQueue`, `addViewChangeReq`, `generatePrePrepareMsg`, `checkAndTryIntoNewView`, `removeConsensusedCache`, `removeFutureProposals`, `checkAndTryToRecover` | nothing ordered is lost or executed twice; a view needs a quorum |
| `PBFTEngine` | message queue, one recursive mutex | one handler per message, `onTimeout`, `finalizeConsensus`, `onProposalApplied`, verification callbacks | handlers that interleave with callbacks keep the locks |
| `StateMachine` | a pool of one thread | `asyncApply` | results are reported once, expired ones dropped |
| `LedgerStorage` | highest stored number (memory and disk), stored proposals | `asyncCommitProposal`, `asyncCommitStableCheckPoint`, `asyncRemoveStabledCheckPoint`, `loadState` | blocks in order; a restart finds what was executed |
| `PBFTLogSync` | one request thread | `requestCommittedProposals`, `requestPrecommitData` and their answers | a node that missed the ordering still executes |
| `PBFTConfig` (sealing) | the range asked for, waitSealUntil, waitResealUntil | `notifySealer`, `reNotifySealer`, `notifyResetSealing` | the leader's sealer is asked for the next number, for open numbers it leads |
| `TxsValidator` | `m_resettingProposals` | `verifyProposal`, `asyncResetTxsFlag`, `generateEmptyProposal` | marking ends and comes before later sealing |
| `PBFTTimer`, `PBFTConfig` (timer) | running, change cycle, unsealed transactions, connected nodes | `resetTimer`, `freshTimer`, `resetTimeoutState`, `setUnSealedTxsSize`, `tryTriggerFastViewChange` | what is in consensus is timed; a node that has timed out goes on trying |
| `ConsensusConfig`, `BlockValidator` (membership) | list, node number, node index, quorum, period | `resetConfig` register by register, `asyncCheckBlock` | votes and blocks are judged by the list of their number |
| `PBFTEngine`, `ConsensusEngine` (worker) | message queue | `onReceivePBFTMessage`, `executeWorker` | no message of an open number is lost or put back for ever |
| `PBFTImpl`, `PBFTFactory`, protocol | wiring, codec | `init`, `start` | |

**Interaction.**  Messages from the network are queued and taken by the worker
thread (`executeWorker`), which calls the handlers under `m_mutex`.  The sealer
submits blocks (`asyncSubmitProposal`).  The validator, the scheduler, the ledger
and other nodes answer on threads of their own through callbacks that take
`m_mutex` again.  The sync module reports blocks it has put on the ledger
(`asyncNotifyNewBlock`) and the number it is fetching
(`notifyHighestSyncingNumber`).  Timers call `onTimeout`.

**What is hard.**  State is read, the lock is released for a verification, an
execution or a commit, and the answer meets another view, another committed
number or a cleared cache.  Several numbers are in consensus at once.  A crash
loses the caches and keeps the storage.  `PROJECT.json` lists these places under
`hazards`, each with the properties that would notice it going wrong, or a note that
says why none does.

## 2. The modules

| Module | Models |
| --- | --- |
| `PBFTQuorum` | weights, `TotalQuorum`, `MaxFaultyQuorum`, `MinRequiredQuorum`, `LeaderIndex` |
| `PBFTCache` | the ordering fields of one `PBFTCache` and its operations as operators |
| `PBFTOrdering` | the ordering stage on a group of nodes |
| `BlockDecision`, `PBFTDecision` | what the ordering stage promises (one decision per number), and the refinement |
| `PBFTPipeline` | the second stage of one node: execution, storage, CheckPoints, ledger, requests |
| `StagedLedger`, `PBFTStages` | what the second stage promises (an execution begins on a result of its predecessor, the ledger grows by blocks the node executed and a quorum reported), and the refinement |
| `PBFTSealing` | the sealing notification and the validator's marks, of one node |
| `PBFTMembership` | a node list that committed blocks change, votes and block checks meanwhile, of one node |
| `PBFTTimeout` | when the consensus timer of one node runs, and its back-off |
| `PBFTWorker` | the message queue of one node |
| `MCOrdering`, `MCExecution`, `MCSealing`, `MCMembership`, `MCTimer`, `MCWorker` | constants for TLC |
| `PBFTQuorumProofs` | quorums and the numbers they are made of |
| `PBFTOrderingProofs`, `PBFTViewProofs` | the theorems on `PBFTOrdering`: types, locks, agreement and the refinement of `BlockDecision`; views, closed numbers and votes in the timeout state |
| `PBFTPipelineProofs` | the theorems on `PBFTPipeline` and the refinement of `StagedLedger` |
| `PBFTWorkerProofs`, `PBFTTimeoutProofs`, `PBFTSealingProofs`, `PBFTMembershipProofs` | the theorems on these modules of one node |

Each module of one node holds that node's state in the record `node`, whose fields
are named after the members they stand for; the rest of the system is its
environment.  An operator named after a function of the source maps the record to
the record the function leaves behind, and a handler composes them.

`FaultLimits`, where a module has it, is a set of combinations: each says how often
every fault and every outside event (a failing call, a synchronised block, a view
change, a crash) may happen, and a behaviour stays within one of them.  One run
thus covers several mixtures of faults without their product.

### PBFTOrdering

Per node: `ctl[n]` (the registers of `PBFTConfig` and the view-change, recover
and commit queues of `PBFTCacheProcessor`), `caches[n]` (`m_caches`) and
`pending[n]` (proposals with the validator or requested from their holder), and
`taken[n]`: what a thread of the node has taken and waits with for `m_mutex`.
`msgs` holds every message ever sent: messages are lost, delayed, repeated and
reordered by never, late, again or in any order taking them.  `ordered`,
`forgotten` and `restarts` are history variables.

A handler runs under `m_mutex` and is one step.  It is written as a composition of
operators with the names of the source on a record `Local(n)`, which also
collects the messages sent.  What the code does asynchronously is a step of its
own: `VerifySucceeds` and `VerifyFails` (the callback of `handlePrePrepareMsg`,
which checks again), `PrecommitResponse`, `ApplySuccess`, `StableCheckPoint`,
`CommitStable`.  The sync module and crashes are `SyncBlock`, `NotifySyncing`,
`Restart`.

The worker and the sealer's thread look at the timeout state before they take
`m_mutex` (`PBFTEngine.cpp:464`, `:272`).  So a message is either handled at once, or
first taken (`Take`, `TakeSealed`: the tests of `executeWorker` and `onRecvProposal`)
and later handled or, when the checks under `m_mutex` fail, dropped (`Refuse`), with
timeouts, views and commits in between.  Each of the two threads holds one message.
`Slow` bounds which messages may wait; the proofs are for any `Slow`.

Abstractions, besides the bounds:

- A block is named by its sealer and a counter.  The leader's empty block for a
  number without a prepared proposal is a value of its own.
- Nodes follow the code, signatures and precommit proofs are valid, the node list
  does not change, all nodes stay connected (`tryTriggerFastViewChange` of
  `PBFTConfig` does nothing then), and there are no system proposals.
- A sealer may submit whenever `onRecvProposal` would take the block: more than
  the sealing notification allows.
- Execution succeeds and is in order; CheckPoint messages count as soon as a
  quorum of them exists; the ledger commit and the finalisation are one step.
  `PBFTPipeline` looks into all of this.
- A result that arrives after its number was committed is handled as any other
  (`onProposalApplySuccess` does not compare): `setCheckPointProposal` refuses it, the
  CheckPoint is broadcast.  That the node's CheckPoint vote creates the cache again is
  not seen, since CheckPoint votes are not part of a cache here.  A late result whose
  mark `onTimeout` has erased meanwhile is left out.
- `RecoverRequest` has a handler and no sender, and is left out.  Requests for
  committed proposals are in `PBFTPipeline`.
- A NewView is answered at most once per step (the answers are equal).
- Reloading after a restart succeeds up to any number that was executed; a crash
  in between two writes is the case of a lower number.
- `asyncNotifyNewBlock` compares the number in the same step as it finalises.

### PBFTPipeline

The state of one node is the record `node`; the fields carry the names of the
members they stand for.  The ordering stage, the other nodes, the scheduler and
the sync module are the environment.  `faults` counts the faults and outside
events, which `FaultLimits` bounds; `reported` remembers whose CheckPoints were
taken.  Ordering agrees on one proposal per number (`Agreement`) and execution is
deterministic, so a block number stands for its proposal and its result.

Execution (`running`), the results that wait for the engine's worker (`results`),
the two writes of `asyncCommitProposal` (`StoreIndex`, `StoreProposal`), the
commit of a block (`committing`), requests and verifications are under way while
other steps happen.  A result goes through the worker in the order of arrival.

A write may be given up after its retries, a commit may fail or expire, a request
may fail or be answered with nothing, and after a crash the read of the highest
stored number may fail, which counts as an empty storage.  A block that is
synchronised is on the ledger first and taken over by the node in a later step, so
that a commit of its own may overtake the notification.

A verification of a reloaded or requested proposal succeeds, fails (`LoadFails`), or is
given up without a trace after its timeouts (`LoadGivesUp`).

Abstractions: one request and one verification per number is outstanding; the
precommitted proposal and its place in the commit queue are set together, so the wait
at `PBFTCacheProcessor.cpp:933` does not occur; the ledger write of a commit and
`finalizeConsensus` are one step (`LedgerStorage.cpp:300`-`386`); a
CheckPoint of another node may be taken at any time, which covers
`onCheckPointTimeout`; consensus messages may be delivered again, so a number whose
cache was cleared can be ordered again in the same view; a NewView's proposal of a
number that is being executed is refused, as in `handlePrePrepareMsg`.

### PBFTSealing

Between engine and sealer there are two queues, `toSealer` (ranges asked for and
resets) and `answers` (the callbacks of resets, which call `reNotifySealer`);
a notification that fails waits in `retries`.  `todo` is the sealer's own memory of
the numbers it has to seal.  `calls[p]` are the calls of `asyncResetTxsFlag` for a
proposal, each queued, being marked, or waiting to be repeated, up to four times.
Ordering is reduced to a proposal being submitted, verified, accepted, executed and
committed.  The sealer and the pool are external and modelled from their use.  What
may cost the leader its notification is counted in `faults`: a notification that is
enforced over numbers of the node's own that nobody has asked for (`Skipped`) is one
of the losses, `"ahead"`.

Abstractions: callbacks that run without the lock are single steps, so that the
read-modify-write of `m_sealEndIndex` (`PBFTConfig.cpp:257`) is atomic, and in the
callback of a verification the comparison with the committed number
(`PBFTEngine.cpp:768`), `asyncResetTxsFlag` (`:774`) and the handling under the lock
(`:796`) are not interrupted; `notifyResetSealing` sets `m_sealEndIndex` before the
sealer's callback runs (in the code the callback may come first, `PBFTConfig.cpp:146`);
an execution succeeds (what a failing one does to `expectedCheckPoint` is in
`PBFTPipeline` and `PBFTTimeout`).

### PBFTMembership

`resetConfig` runs under the mutex, register by register (`update.stage`);
`BlockValidator` and the first part of `onProposalApplySuccess` read the registers
between these steps.  A counted vote remembers its sender and the weight it was
counted with.  The signatures of a block are a sequence of list positions:
`checkSignatureList` goes through it entry by entry and adds the weight of each, also of
a position it has counted before.  A pre-prepare that the node submits itself or whose
verification ends does not pass the gate of `executeWorker` (`canHandleNewProposal`) and
does not here; a commit vote does.  A commit vote that passed the gate before a system
proposal closed it, and waits for the mutex, is not modelled; such a vote would be among
the `early` ones.  The weight of a set of list positions is the number of their tickets,
pairs (position, ticket), as in `PBFTQuorum`.  The prepare round, views and dissenting
proposals are left out.

### PBFTTimeout

Handlers are one step, except where the code does not protect itself:
`freshTimer` reads the number of unsealed transactions before it stops the timer,
the worker tests the timeout state before it takes the mutex, the timer fires and
then waits for the mutex.  A running timer may fire at any time.

Abstraction: a proposal is executed when it is the next one (`CanApply`), without the
look at the last executed one (`PBFTCacheProcessor.cpp:306`), which makes the code wait
when the cache of the predecessor has been dropped as stable while its block is still
being written.

### PBFTWorker

A vote stands for enough messages to order a number, so that one message has the
effect of a round.  What the handlers do is reduced to the registers that
`executeWorker` looks at.

## 3. Model checking

`tlc -workers 2 -config <run>.cfg <module>`.  Deadlock is not checked: a bounded
behaviour ends when the bounds are used up.

| Run | Instance | Shows |
| --- | --- | --- |
| `MCViewChange` | ordering; 3 nodes of weights 1, 1, 2, node 0 down; one number, both sealing, views 0 and 1, one crash; the first leader's proposal and its prepares may wait for the lock | `TypeOK`, `Agreement`, `OrderedByQuorum`, `LockedProposal`, `OneCommitVote`, `OrderingInv`, `CommittedIsClosed`, `QuietInTimeoutUnlessTaken`, `ImplementsDecision` |
| `MCTwoBlocks` | ordering; 2 nodes, two numbers at once, views 0 and 1, synchronisation | `LockKept` |
| `MCRecover` | ordering; 2 nodes, one with a quorum of its own; no blocks, views 0 to 4 | `ViewMonotonic`, `ViewBackedByQuorum` |
| `MCSupply` | second stage among 2 nodes, two numbers; five combinations of failing executions, commits, verifications (or given up), empty answers, synchronisation, a new view, a crash | `TypeOK`, `CommitsInOrder`, `StableByQuorum`, `NoGapUnlessLost`, `ExecutedOnceUnlessFailed`, `StoredUnlessRemoved`, `ImplementsStages` |
| `MCProgress` | the same under fairness; failing requests, writes and reads with a crash, or two failing executions with a new view | `BlocksGetCommitted` |
| `MCSealing` | 2 nodes that lead in turn, three numbers, views 0 and 1; a timeout, a late NewView, a recovered view, a failing verification | `TypeOK`, `LeaderIsToldUnlessLost`, `SealsOpenUnlessDelayed` |
| `MCPools` | a leader of two numbers, a system block, under fairness; failing notifications, resets and marks (up to four), synchronisation | `ResettingIsTracked`, `LeaderIsToldUnlessLost`, `SealsOwnNumbers`, `MarkedBeforeSealingUnlessFailed`, `MarkingEnds` |
| `MCMembership` | 4 nodes, one of weight 2 leaves with block 1, block 2 raises a weight and the period; block 2 is offered with too few signatures, with one of them twice, and with a quorum; under fairness | `TypeOK`, `StableByOwnListUnlessEarly`, `AcceptedIsSignedUnlessRepeated`, `CatchesUp` |
| `MCTimer` | 3 nodes, two numbers, views 0 and 1, change cycle up to 2, six combinations of faults; under fairness | `TypeOK`, `ProposalIsTimed`, `TransactionsAreTimedUnlessRaced`, `BacksOffUntilNewView`, `KeepsTryingUnlessLate` |
| `MCQueue` | two numbers, the first a system block, views 0 and 1, synchronisation announced once; under fairness | `TypeOK`, `NothingLost`, `EveryMessageHandled` |
| `MCSyncGap`, `MCExecuteOnce` | second stage | counterexamples, see below |

**Bounds.**  Weights 1, 1, 2 give f = 1 and a quorum of 3, which in `MCViewChange`
takes both running nodes: a miscount lets one of them decide alone.  (That any two
quorums of any list meet is proved, `QuorumIntersection`.)  Disagreement needs two
proposals, one view change that tests a lock, and a crash that may lose it; two
numbers let one be closed while the other is open.  A fault happens once in a combination where a
second one multiplies the states without a new kind of step; two sync events let an
announcement precede a block, two failing executions let the second meet an
`expectedCheckPoint` that the first has set back, and marking is given up after four
failures.  `MCSealing` has three numbers so that a leader that returns finds one
number of the other in between.  `MCQueue` leaves out the CheckPoints of the last
number, whose commit holds nothing back.  In `MCViewChange` two kinds of message may
wait, those whose handling in the timeout state sends a vote: the leader's own proposal
(before its crash only) and a prepare.  `MCMembership` has no block without transactions, which the validator
accepts unchecked (`BlockValidator.cpp:54`): only the proofs cover it.

**Fairness.**  Every thread of the node goes on: worker, timers, validator, storage
and the callbacks of scheduler, sealer and pool, each of which answers in the end.
Beyond that

- `PBFTPipeline` assumes that the CheckPoints of the other nodes arrive, which they
  repeat on their timers (`onCheckPointTimeout`), and that an execution, a commit
  and a request that is repeated succeeds in the end;
- `PBFTMembership` assumes that the sync module, which asks several nodes, is not
  given improper blocks for ever (strong fairness);
- `PBFTWorker` assumes that the others end a view change the node waits for, that
  their votes in the new view arrive, and that announced blocks are synchronised;
- `PBFTTimeout` assumes neither votes nor new views: a node keeps trying alone.

Timeouts, faults and outside events are never assumed to happen.

### Where code and comments disagree

Two runs end in a counterexample.

- `MCExecuteOnce` / `ExecutedOnce`: the marks are set "in case of the same block
  execute more than once" (`PBFTCacheProcessor.cpp:324`).  `onProposalApplyFailed`
  erases the mark again after the repetition has been started
  (`PBFTEngine.cpp:155`); a new view then executes the block a second time at once.
- `MCSyncGap` / `NoGap`: "future proposals need to be cleared here"
  (`PBFTCacheProcessor.cpp:959`).  An execution under way when a synchronised block
  arrives is not cleared.  With 1 and 2 executed and 3 under way, block 1 is
  synchronised: 2 is cleared, then 3 arrives, `expectedCheckPoint` becomes 4, and
  2 is neither executed nor voted for until block synchronisation brings it.

The other deviations are delimited by a property that holds apart from them (its
name ends in *Unless* and what is excepted).  TLC found each of them as a
counterexample of the property without the exception, four of them only after an
attempt at a proof had shown where to look: the two enforced notifications, the
notification that is given up, and the proposal taken ahead of its view.  The last one
and the notification enforced over unasked numbers need instances larger than the runs
(2 nodes of weights 4 and 1, period 10, two numbers and views 0 to 3; 2 nodes, period
1, four numbers and watermark limit 4).

| Excepted by | Code | What happens, and what it departs from |
| --- | --- | --- |
| `QuietInTimeoutUnlessTaken` | `PBFTEngine.cpp:757` | a proposal that was with the validator when the timeout fired is voted for ("not allowed to be processed in the timeout state", `:466`) |
| `QuietInTimeoutUnlessTaken` | `PBFTEngine.cpp:464`, `:272` | the worker and the sealer's thread look at the timeout state before they take the lock: a prepare, or the node's own proposal, that was taken before the timeout is handled after it, and the node votes (same comment) |
| `QuietInTimeoutUnlessTaken` | `PBFTCacheProcessor.cpp:192` | a pre-prepare of a later view is accepted (`PBFTEngine.cpp:589`); on entering that view `resetCache` drops the prepare the node cast in the earlier one, and nothing looks whether the others' prepares are a quorum; after a timeout, when the verification of another number ends or a message that waited is handled, `checkAndPreCommit` goes through all caches and sends the commit (same comment) |
| `StoredUnlessRemoved` | `LedgerStorage.cpp:234` | a proposal that was removed and is executed again is not written again ("commit the proposal when execute success", `PBFTEngine.cpp:162`) |
| `NoGapUnlessLost` | `LedgerStorage.cpp:343` | a commit that fails is not repeated once the cache of its number is gone |
| `SealsOpenUnlessDelayed` | `PBFTConfig.cpp:152` | a reset that is answered late asks for a number that is on the ledger (range at `:267`) |
| `MarkedBeforeSealingUnlessFailed` | `Validator.cpp:81` | the hash is erased before the error is looked at ("must ensure asyncResetTxsFlag success before seal new next blocks", `:78`) |
| `MarkedBeforeSealingUnlessFailed` | `PBFTConfig.cpp:254` | a proposal whose verification fails after a view change is asked for with `_enforce`, which passes over the marks (same comment) |
| `ResettingIsTracked` | `Validator.cpp:54` | an empty block stays in `m_resettingProposals` without a call |
| `LeaderIsToldUnlessLost` | `PBFTEngine.cpp:1228` | a NewView that comes after the commit of its highest number makes sealing wait for that commit |
| `LeaderIsToldUnlessLost` | `PBFTEngine.cpp:322` | a leader whose submission is overtaken resets its own sealer ("only notify the non-leader to reset sealing", `PBFTConfig.cpp:128`) and asks for nothing again |
| `LeaderIsToldUnlessLost` | `PBFTConfig.cpp:257` | a proposal whose verification fails is asked for with `_enforce`, and `m_sealEndIndex` rises over lower numbers of the node that were never asked for |
| `LeaderIsToldUnlessLost` | `PBFTConfig.cpp:315` | a notification is given up after four failures, and `m_sealEndIndex` goes on saying that its range was asked for |
| `StableByOwnListUnlessEarly` | `PBFTCacheProcessor.cpp:346` | waitSealUntil is set when a system proposal starts to execute; before that, votes for the next number are counted with the old list ("can't handle the future consensus messages when handling the system proposal", `PBFTEngine.cpp:483`) |
| `AcceptedIsSignedUnlessRepeated` | `BlockValidator.cpp:149` | every entry of `signatureList` counts: a position named twice counts with twice its weight, and the block is accepted without a quorum of signers; and a check during which `resetConfig` changes a register (`raced`) may count under one list what it compares with the quorum of another |
| `KeepsTryingUnlessLate` | `PBFTConfig.h:238` | a commit message taken before the timeout and handled after it stops the timer ("must be restarted", `:200`) |
| `ProposalIsTimed` | `PBFTConfig.h:215` | a proposal of an earlier view that the NewView does not hold is not timed ("start the timer when there has proposals in consensus", `PBFTCacheProcessor.cpp:226`) |
| `BacksOffUntilNewView` | `PBFTConfig.h:217` | the back-off ends with a new view, whether or not anything is executed ("until some requested operation executes", `PBFTTimer.h:54`) |

Three more are visible in the modules and excepted by no property: `PBFTImpl::init`
clears the timeout state the constructor sets "in case of notify-seal before the
PBFTEngine started" (`PBFTImpl.cpp:129`, `PBFTEngine.cpp:57`); the timer that
`resetConfig` starts after synchronisation is stopped by the `resetTimer` of
`finalizeConsensus` (`PBFTConfig.cpp:102`, `PBFTEngine.cpp:1248`); a failing read of
the highest stored number counts as an empty storage (`LedgerStorage.cpp:197`), after
which the node takes part again in numbers whose results it has reported.

## 4. Proofs

`tlapm <module>Proofs.tla`.  All theorems hold for every number of nodes, every weight
function with a positive weight, every leader period, every watermark and every value
of the bounds and of `FaultLimits`.  Assumptions: `NodeAssumption` and
`PeriodAssumption` of `PBFTQuorum`, and the one on its own constants that each module
names (`CacheAssumption`, `BoundAssumption`, `PipelineAssumption`,
`WorkerAssumption`, `TimeoutAssumption`, `SealingAssumption`): they say that bounds
are natural numbers, that the watermark is positive and that the node is in the list.
`MembershipAssumption` says of every list of the chain that it is sorted by node id,
not empty and of positive weight, and asks for no relation between two lists.

The modules share one layout.  Each operator of the model has a lemma that says which
registers it writes and what it keeps; each action has a lemma that it keeps the
inductive invariant, one step per part it can disturb; a lemma collects the actions
of `Next`; the theorems follow by `PTL`.

**Quorums.**  `QuorumIntersection`: votes are modelled as a set of pairs (node,
ticket), so the weight of a set of nodes is a cardinality.  Two quorums have at least
2(T - f) - T = T - 2f > f votes in common because 3f < T, and all votes of a node are
in both or not.

**Ordering.**

- `TypeInvariant`: `Spec => []TypeOK`.
- `OrderingInvariant`: `Spec => []OrderingInv`.  `Agreement` is not inductive: it
  says nothing of a node's cache.  `OrderingInv` adds (`CacheInv`) that a lock is on
  the proposal in consensus and backed by a quorum of prepares, that what a node
  voted to commit is what it is locked on, and that cached votes were sent; and
  (`VotedIsClosed`) that a node which voted and holds no lock refuses to vote at
  that number, or is in `forgotten`.  The last part is where restarts and
  synchronised blocks enter.  `LocksHold`, `OneCommitVoteHolds` and
  `OrderedByQuorumHolds` follow.
- `AgreementHolds`: two ordered proposals of a number have quorums of commit
  votes; these share more than f votes, whose owners voted for both, so by
  `OneCommitVote` they have all forgotten their lock.
- `DecisionRefined`: `Spec => ImplementsDecision`.  A step that orders a proposal
  decides it, or finds it decided by `Agreement`; every other step stutters.
- `ViewInvariant`: `ViewInv` says of every view a node is in, and of every view the
  view changes and recover responses it holds, or a NewView or RecoverResponse in
  flight, can still take a node to, that a quorum of ViewChange messages for it was
  sent.  `ClosedInv` says that the cache of a committed number is empty and that only
  an executed proposal is stable; a late result does not disturb it because
  `setCheckPointProposal` compares with the committed number.  `ViewBackedByQuorumHolds` and
  `CommittedIsClosedHolds` are parts of them; `ViewMonotonicHolds` and
  `LockKeptHolds` are action properties: each handler, as a composition of operators,
  moves views onward only and keeps a lock that is not executed.
- `QuietInTimeoutHolds` needs `TallyInv`: between two handlers no proposal waits to be
  precommitted with the node's own vote among its prepares.  It is inductive together
  with the views of these votes (`OwnVotes`): the own prepares are not of a later view,
  and only a precommit of the current view is marked.  Handlers of votes run
  `checkAndPreCommit` before they end.  Handlers of views only drop votes and marks, and
  on entering a view those of earlier views (`Fades`), so they make nothing ready.  In
  the timeout state a vote is sent only by the callback of a verification or with a
  message taken before (`InHand`), for its own proposal or for one that was ready
  before, which `TallyInv` shows to be one that was taken ahead of its view.

`Agreement` has the clause on `forgotten` on purpose.  A node that crashes before it
executed a precommitted proposal comes back without its lock (the storage holds
executed proposals only), and `removeFutureProposals` drops the lock of executed ones.
Agreement therefore needs that such nodes have at most the weight f at any one number.

**Second stage.**  `PipelineInv` has five parts, three of which hold until the fault
they name happens.

- `Shape`: `expectedCheckPoint` is beyond the ledger, results are above it, and a
  stable number beyond the next one is in the stable queue.  It gives
  `CommitsInOrderHolds`: a number is handed to `commitBlock` from the head of that
  queue only.
- `Voted`: what caches and queues hold was reported, so what is in the queue or being
  committed was reported by the node and a quorum (`StableByQuorumHolds`), also after
  its cache is cleared.
- `Once` (no execution failed): a number is executed at most once at a time, and its
  mark lasts until its only result is handled (`ExecutedOnceHolds`).
- `Kept` (nothing synchronised, no write given up): every number between the ledger
  and the highest stored one is stored or is the one the worker is about to store
  (`StoredHolds`).
- `Chain` (nothing synchronised, no commit lost): every number below
  `expectedCheckPoint` or below an execution has a result, and a stable number is
  never out of both queues (`NoGapHolds`).

`StagesRefined` proves `Spec => ImplementsStages`: each action is `Apply`, `Agree`,
`Commit`, `Synchronise`, `TakeOver` or `Proceed` of `StagedLedger` on the mapped
variables, or a stutter.  An earlier abstract specification demanded that results form
a chain from the ledger on; the proof did not go through because a result above a gap
(see `MCSyncGap`) is accepted, and three numbers give TLC the counterexample.  What
does hold, and `Grounded` says, is that an execution begins on the last block or on a
result of its predecessor.

**Message queue.**  `NothingLost` becomes inductive with the fact that at most one
message waits for the mutex and that what is queued was received (`WorkerInv`).

**Timer.**  `TimerInv` strengthens the three properties with what a `freshTimer`
that has read and not yet stopped may find (`stopping`).  `TimerTyped` needs that
the loop of `tryTriggerFastViewChange` ends, that is, that `FastViews`, the number of
views to the next leader which is connected or is the node itself, exists:
`EveryoneLeads` shows that every node leads one of any `NumNodes` consecutive views.

**Sealing.**  `SealingInv`: what waits for the validator is above the ledger
(`Window`), what waits to be repeated has a try left (`Repeated`, `TryLeft`), every
mark has its call (`Tracked`), and before the first failed marking every call has its
mark and is alone (`SoleCall`).  The three action properties speak of the ranges a
step adds to the queue.  `Sends(s, t, low)` says that the messages of `s` are
followed in `t` by messages that are `Right`: led by this node, below the watermark,
from `low` on, and not beyond the next block while a mark is set.  It holds of
`notifySealer`, `reNotifySealer` and `notifyResetSealing` and composes, so each
handler sends right ranges, and from `committed + 1` on, except the callback of a
reset.  That one leader leads the whole range is `SamePeriod`, about the division in
`leaderIndex`.

`LeaderIsToldHolds` rests on `ToldInv`: until a loss that `Lost` names, every number of
the node's own up to `m_sealEndIndex` is with the sealer, on its way there, being
repeated or in consensus (`Asked`), and if the node may seal the next number, that
number is too, or a reset under way leads back to it (`Due`).  A reset forgets what was
asked for before it, in the sealer and in the queue, so it has to empty the asked range
and to be followed by a notification or answered with one; `Fresh` says which number its
answer leads to.  `notifySealer` asks from the end of the range on, which leaves no
gap; only `_enforce` passes over numbers, hence the loss `"ahead"`.  `Tries` ties the
repetitions of a notification to the failures counted, so that none is given up before
`Lost` says so.

**Membership.**  `MembershipInv` has four parts.

- `Fits`: while `resetConfig` runs, each register fits the list of the committed block,
  except those whose turn is still to come, stage by stage.
- `Counted`: a vote for a number outside `early` was counted while the list of that
  number was in force, with an id and a weight of that list; the node's own CheckPoint
  names its position in it.  So a number that is stable has a quorum of its own list
  (`StableByOwnListHolds`).
- `CheckInv`: a block check during which no register changed has the list of its block
  before it, and if no position is named twice, has summed the weights of exactly the
  signatures it has verified, the first `verified` of the list.
- `AcceptedIsSignedUnlessRepeated` itself (`AcceptedIsSignedHolds`).

With weights as tickets a sum is a cardinality, and adding a signature of a new position
adds a disjoint set of tickets: the theorems on finite sets suffice, where a fold would need induction.

**Only model-checked.**  Liveness, which is out of the prover's reach:
`BlocksGetCommitted`, `MarkingEnds`, `CatchesUp`, `KeepsTryingUnlessLate`,
`EveryMessageHandled`.

## 5. Not modelled

- Cryptography and the codec: a signature is valid or absent (a list of
  signatures may repeat one), messages are records.
- Durations: a running timer may fire at any time, and retries happen some time later.
- Data races on members that threads touch without the lock
  (`eraseCommittedProposalList`): a `std::set` has no outcome a model could choose
  from.  Registers read without the lock are modelled, see `PBFTMembership` and
  `PBFTTimeout`.
- The handler of `RecoverRequest`, which nothing sends; `asyncResetTxPool` and
  `notifyTransactionsResult`, which forward a call; how `PBFTLogSync` answers a
  request from its storage.
- `loadState` waiting for its reads, and a batch read that fails: both end the start.
- Liveness of the view change over all nodes (for instance the prepare votes of a
  newer view that `addCache` drops): it needs assumptions on delivery and timing that
  the code leaves to its environment, and an instance beyond TLC's reach with the
  message set of `PBFTOrdering`.

## 6. Plan

Done: the quorum arithmetic; the ordering stage with view change, recovery,
synchronisation and restarts; the second stage with its failures and its liveness;
sealing, membership, timer and queue of one node; both refinements; the proofs of
section 4.

What could follow:

1. the liveness of a view change over several nodes, once it is settled what delivery
   and timing the code may rely on;
2. the composition of `PBFTOrdering` with `PBFTMembership`, so that lists change while
   proposals are locked;
3. the answers of `PBFTLogSync` from the storage of another node, which `PBFTPipeline`
   takes as correct.

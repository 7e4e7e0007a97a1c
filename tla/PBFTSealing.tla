---------------------------- MODULE PBFTSealing ----------------------------
(***************************************************************************)
(* Who tells the sealer of one node which block numbers to fill, and when: *)
(* notifySealer, reNotifySealer and notifyResetSealing of PBFTConfig, the  *)
(* events of PBFTEngine and PBFTCacheProcessor that call them, and the set *)
(* of proposals whose transactions are being marked (TxsValidator), which  *)
(* holds sealing back.                                                     *)
(*                                                                         *)
(* The sealer is external and asynchronous: it takes notifications in the  *)
(* order they are sent, answers later, and may fail.  Its answers and the  *)
(* answers of the txpool run in threads that do not hold m_mutex, each as  *)
(* one step here.  Consensus is reduced to the events that matter for      *)
(* sealing: proposals are verified, executed in order and committed,       *)
(* blocks are synchronised, views change.  A proposal is named by its      *)
(* number and by whether it has transactions; the blocks without any are   *)
(* the ones a NewView fills gaps with (generateEmptyProposal).             *)
(***************************************************************************)
EXTENDS PBFTQuorum, SequencesExt

CONSTANTS
  Me,              \* this node
  MaxIndex,        \* bound: block numbers 1..MaxIndex
  MaxView,         \* bound: views 0..MaxView
  WaterMarkLimit,  \* m_warterMarkLimit
  System,          \* the numbers whose block has system transactions
  QueueLimit,      \* bound: the sealer submits when fewer messages are under way
  FaultLimits      \* bound: how often faults and outside events happen together

Faults == {"notify", "reset", "mark", "verify", "timeout", "sync", "syncing", "behind",
           "late", "recover", "stale", "ahead"}

ASSUME SealingAssumption ==
  /\ Me \in Node
  /\ MaxIndex \in Nat /\ MaxView \in Nat /\ QueueLimit \in Nat
  /\ WaterMarkLimit \in Nat \ {0}
  /\ FaultLimits \subseteq [Faults -> Nat]

Index == 1 .. MaxIndex
View == 0 .. MaxView
Number == 0 .. MaxIndex + WaterMarkLimit + 1

VARIABLES
  node,     \* the registers of PBFTConfig, the validator and the sealer's messages
  todo,     \* external: the numbers the sealer is to fill
  faults    \* history: how often each fault and outside event happened

vars == <<node, todo, faults>>

Proposal == [index : Index, txs : BOOLEAN]

\* a pre-prepare under way: submitted by the sealer or handed to the validator
Pending == [proposal : Proposal, view : View]

\* a call of asyncResetTxsFlag(data, true): in the pool's queue, in asyncMarkTxs,
\* or failed and about to be repeated
MarkCall == [stage : {"queued", "marking", "failed"}, retry : 0 .. 3]

SealRequest == [op : {"seal"}, start : Number, end : Number, retry : 0 .. 3]

\* a reset; on success the sealer is told to start at back, unless back is 0
ResetRequest == [op : {"reset"}, back : Number, at : 0 .. MaxIndex]

State ==
  [view : View, timeout : BOOLEAN,
   committed : 0 .. MaxIndex,        \* m_committedProposal->index()
   expected : 1 .. MaxIndex + 1,     \* m_expectedCheckPoint
   syncing : 0 .. MaxIndex,          \* m_syncingHighestNumber
   sealEnd : Number,                 \* m_sealEndIndex
   waitSeal : 0 .. MaxIndex,         \* m_waitSealUntil
   waitReseal : 0 .. MaxIndex,       \* m_waitResealUntil
   submitted : SUBSET Pending,       \* onRecvProposal, waiting for m_mutex
   verifying : SUBSET Pending,       \* handed to verifyProposal
   accepted : SUBSET Proposal,       \* in the caches of the numbers in consensus
   executing : SUBSET Index,         \* m_executingProposals
   resetting : SUBSET Proposal,      \* m_resettingProposals
   calls : [Proposal -> Seq(MarkCall)],
   toSealer : Seq(SealRequest \cup ResetRequest),
   answers : Seq(ResetRequest),      \* resets the sealer has done
   retries : SUBSET SealRequest]     \* notifications that wait to be repeated

Larger(a, b) == IF a > b THEN a ELSE b
Smaller(a, b) == IF a < b THEN a ELSE b

highWaterMark(s) == s.committed + 1 + WaterMarkLimit

\* a mutant of sealStartIndex: the last number that is taken
StartAtTaken(s) == Larger(s.expected, s.committed + 1) - 1

sealStartIndex(s) == Larger(s.expected, s.committed + 1)

Indices(S) == {p.index : p \in S}

-----------------------------------------------------------------------------
(* Notifications to the sealer *)

canHandleNewProposal(s) == s.waitSeal <= s.committed /\ s.waitReseal <= s.committed

asyncNotifySealProposal(s, start, end, retry) ==
  IF retry > 3 THEN s
  ELSE [s EXCEPT !.toSealer =
          Append(@, [op |-> "seal", start |-> start, end |-> end, retry |-> retry])]

\* a mutant of endProposalIndex: up to the high watermark, whoever leads
EndAtWatermark(s, i) == highWaterMark(s) - 1

\* the last number of the leader's period that is below the high watermark
endProposalIndex(s, i) ==
  Smaller((i \div LeaderSwitchPeriod + 1) * LeaderSwitchPeriod - 1, highWaterMark(s) - 1)

\* a mutant of notifySealer: proposals that are being marked do not matter
SealWhileMarking(s, i) ==
  LET end   == endProposalIndex(s, i)
      start == Larger(s.sealEnd + 1, i)
  IN  IF /\ LeaderIndex(i, s.view) = Me /\ canHandleNewProposal(s)
         /\ s.sealEnd < end /\ start <= end
      THEN [asyncNotifySealProposal(s, start, end, 0) EXCEPT !.sealEnd = end]
      ELSE s

(***************************************************************************)
(* Numbers up to m_sealEndIndex have been asked for.  Beyond the next      *)
(* block nothing is asked for while transactions are being marked.         *)
(***************************************************************************)
notifySealer(s, i) ==
  LET end   == endProposalIndex(s, i)
      start == Larger(s.sealEnd + 1, i)
  IN  IF /\ LeaderIndex(i, s.view) = Me /\ canHandleNewProposal(s)
         /\ s.sealEnd < end /\ start <= end
         /\ s.resetting = {} \/ start <= s.committed + 1
      THEN [asyncNotifySealProposal(s, start, end, 0) EXCEPT !.sealEnd = end]
      ELSE s

\* notifySealer with _enforce: number i alone
EnforceSealer(s, i) ==
  IF LeaderIndex(i, s.view) = Me /\ canHandleNewProposal(s)
  THEN [asyncNotifySealProposal(s, i, i, 0) EXCEPT !.sealEnd = Larger(@, i)]
  ELSE s

\* a mutant of reNotifySealer: sealing starts one number early
RenotifyEarly(s, i) ==
  IF i >= highWaterMark(s) \/ i < s.committed THEN s
  ELSE notifySealer([s EXCEPT !.sealEnd = i - 2], i)

reNotifySealer(s, i) ==
  IF i >= highWaterMark(s) \/ i < s.committed THEN s
  ELSE notifySealer([s EXCEPT !.sealEnd = i - 1], i)

\* a mutant of notifyResetSealing: what was asked for counts as asked for after a reset
ResetKeepsEnd(s, back) ==
  [s EXCEPT !.toSealer = Append(@, [op |-> "reset", back |-> back, at |-> s.committed])]

notifyResetSealing(s, back) ==
  [s EXCEPT !.toSealer = Append(@, [op |-> "reset", back |-> back, at |-> s.committed]),
            !.sealEnd = sealStartIndex(s) - 1]

\* notifyToSealNextBlock: number i starts to be executed
notifyToSealNextBlock(s, p) ==
  IF p.txs /\ p.index \in System
  THEN [s EXCEPT !.waitSeal = Larger(@, p.index)]
  ELSE IF p.index + 1 < highWaterMark(s) THEN notifySealer(s, p.index + 1) ELSE s

\* the end of resetConfig, after the registers of block k are set
NotifyAfterCommit(s, k) ==
  IF s.syncing > k THEN notifyResetSealing([s EXCEPT !.timeout = TRUE], 0)
  ELSE LET s1 == IF s.waitReseal = k
                 THEN reNotifySealer(s, Larger(sealStartIndex(s), k + 1)) ELSE s
       IN  notifySealer(s1, sealStartIndex(s1))

resetConfig(s, k) ==
  NotifyAfterCommit(
    [s EXCEPT !.committed = k, !.expected = Larger(@, k + 1), !.timeout = FALSE,
              !.verifying = {m \in @ : m.proposal.index > k},
              !.accepted = {p \in @ : p.index > k}], k)

-----------------------------------------------------------------------------
(* TxsValidator *)

asyncResetTxsFlag(s, p) ==
  IF p \in s.resetting THEN s
  ELSE [s EXCEPT !.resetting = @ \cup {p},
                 !.calls[p] = Append(@, [stage |-> "queued", retry |-> 0])]

CallEnds(s, p, j) == [s EXCEPT !.calls[p] = RemoveAt(@, j)]

\* checkPrePrepareMsg, and the checks of handlePrePrepareMsg before it
checkPrePrepareMsg(s, m) ==
  LET i == m.proposal.index IN
  /\ s.expected <= i /\ i < highWaterMark(s) /\ i > s.syncing
  /\ s.syncing < s.committed + WaterMarkLimit
  /\ i \notin s.executing /\ i \notin Indices(s.accepted)
  /\ m.view >= s.view

AddPrePrepare(s, p) == [asyncResetTxsFlag(s, p) EXCEPT !.accepted = @ \cup {p}]

(***************************************************************************)
(* The sealer submits a block for number i: what onRecvProposal checks     *)
(* before it takes m_mutex.  A number that is in consensus or executed is  *)
(* dropped without a word to the sealer.                                   *)
(***************************************************************************)
onRecvProposal(s, i) ==
  LET next == s.committed + 1
      m == [proposal |-> [index |-> i, txs |-> TRUE], view |-> s.view]
  IN  IF i <= s.syncing THEN notifyResetSealing(s, next)
      ELSE IF i < Larger(next, s.expected) THEN s
      ELSE IF LeaderIndex(i, s.view) # Me THEN notifyResetSealing(s, next)
      ELSE IF s.timeout THEN notifyResetSealing(s, 0)
      ELSE [s EXCEPT !.submitted = {m}]

\* what handlePrePrepareMsg checks again with m_mutex
StillMine(s, m) == checkPrePrepareMsg(s, m) /\ LeaderIndex(m.proposal.index, s.view) = Me

-----------------------------------------------------------------------------
(* Steps *)

Step(s) == node' = s /\ UNCHANGED <<todo, faults>>

\* the faults and outside events together stay within one of the limits
Fault(k) ==
  /\ faults' = [faults EXCEPT ![k] = @ + 1]
  /\ \E limit \in FaultLimits : \A l \in Faults \ {"stale"} : faults'[l] <= limit[l]

Event(k, s) == Fault(k) /\ node' = s /\ UNCHANGED todo

\* the sealer takes its next message
NextRequest(op) == node.toSealer # <<>> /\ Head(node.toSealer).op = op
Taken == [node EXCEPT !.toSealer = Tail(@)]

SealerTakesRange ==
  /\ NextRequest("seal")
  /\ LET r == Head(node.toSealer) IN todo' = todo \cup (r.start .. r.end)
  /\ node' = Taken /\ UNCHANGED faults

SealerResets ==
  /\ NextRequest("reset")
  /\ todo' = {}
  /\ node' = [Taken EXCEPT !.answers = Append(@, Head(node.toSealer))]
  /\ UNCHANGED faults

\* a mutant of SealerFails: the notification is not repeated
NeverRepeat ==
  /\ NextRequest("seal")
  /\ Event("notify", Taken)

\* the notification fails, and is repeated after a second
SealerFails ==
  /\ NextRequest("seal")
  /\ LET r == Head(node.toSealer) IN
     Event("notify", [Taken EXCEPT !.retries =
             IF r.retry = 3 THEN @ ELSE @ \cup {[r EXCEPT !.retry = @ + 1]}])

RetryNotification(r) ==
  /\ r \in node.retries
  /\ Step(asyncNotifySealProposal([node EXCEPT !.retries = @ \ {r}], r.start, r.end, r.retry))

ResetFails ==
  /\ NextRequest("reset")
  /\ Event("reset", Taken)

\* the callback of notifyResetSealing
ResetAnswered ==
  /\ node.answers # <<>>
  /\ LET a == Head(node.answers)
         s == [node EXCEPT !.answers = Tail(@)]
     IN  Step(IF a.back # 0 /\ s.waitReseal <= a.at THEN reNotifySealer(s, a.back) ELSE s)

\* the sealer has filled the lowest number it was asked for
SubmitProposal(i) ==
  /\ i \in todo /\ \A j \in todo : i <= j
  /\ node.submitted = {} /\ Len(node.toSealer) + Len(node.answers) < QueueLimit
  /\ todo' = todo \ {i}
  /\ node' = onRecvProposal(node, i) /\ UNCHANGED faults

HandleSubmitted(m) ==
  /\ m \in node.submitted /\ StillMine(node, m)
  /\ Step(AddPrePrepare([node EXCEPT !.submitted = {}], m.proposal))

\* overtaken while it waited for m_mutex: resetSealedTxs
RefuseSubmitted(m) ==
  /\ m \in node.submitted /\ ~StillMine(node, m)
  /\ node' = notifyResetSealing([node EXCEPT !.submitted = {}], 0)
  /\ faults' = [faults EXCEPT !["stale"] = 1] /\ UNCHANGED todo

-----------------------------------------------------------------------------

\* the callback of the validator's pool: nothing to mark in an empty block
StartMarking(p, j) ==
  /\ j \in DOMAIN node.calls[p] /\ node.calls[p][j].stage = "queued"
  /\ Step(IF p.txs THEN [node EXCEPT !.calls[p][j].stage = "marking"]
          ELSE CallEnds(node, p, j))

Erased(p) == [node EXCEPT !.resetting = @ \ {p}]

\* a mutant of MarkSucceeds: the hash is not erased
ForgetErase(p, j) ==
  /\ j \in DOMAIN node.calls[p] /\ node.calls[p][j].stage = "marking"
  /\ Step(CallEnds(node, p, j))

MarkSucceeds(p, j) ==
  /\ j \in DOMAIN node.calls[p] /\ node.calls[p][j].stage = "marking"
  /\ Step(CallEnds(Erased(p), p, j))

\* the hash is erased before the error is looked at, and inserted again after
MarkFails(p, j) ==
  /\ j \in DOMAIN node.calls[p] /\ node.calls[p][j].stage = "marking"
  /\ Event("mark", IF node.calls[p][j].retry = 3 THEN CallEnds(Erased(p), p, j)
                   ELSE [Erased(p) EXCEPT !.calls[p][j].stage = "failed"])

RepeatMarking(p, j) ==
  /\ j \in DOMAIN node.calls[p] /\ node.calls[p][j].stage = "failed"
  /\ Step([node EXCEPT !.resetting = @ \cup {p},
                       !.calls[p][j] = [stage |-> "marking", retry |-> @.retry + 1]])

-----------------------------------------------------------------------------

\* a pre-prepare of another leader is handed to the validator
HandlePrePrepare(i) ==
  LET m == [proposal |-> [index |-> i, txs |-> TRUE], view |-> node.view] IN
  /\ ~node.timeout
  /\ canHandleNewProposal(node) \/ i <= node.waitSeal \/ i <= node.waitReseal
  /\ LeaderIndex(i, node.view) # Me
  /\ checkPrePrepareMsg(node, m)
  /\ Step([node EXCEPT !.verifying = @ \cup {m}])

\* the validator has answered, in time for the number
Verified(m) == asyncResetTxsFlag([node EXCEPT !.verifying = @ \ {m}], m.proposal)

VerifySucceeds(m) ==
  /\ m \in node.verifying
  /\ LET s == Verified(m) IN
     Step(IF checkPrePrepareMsg(s, m) THEN AddPrePrepare(s, m.proposal) ELSE s)

\* this node's numbers that m_sealEndIndex takes in, unasked, when number i is enforced
Skipped(s, i) ==
  {j \in Larger(sealStartIndex(s), s.sealEnd + 1) .. i - 1 : LeaderIndex(j, s.view) = Me}

VerifyFails(m) ==
  /\ m \in node.verifying
  /\ LET i == m.proposal.index
         s == EnforceSealer(Verified(m), i)
     IN  Event(IF s.sealEnd # node.sealEnd /\ Skipped(node, i) # {} THEN "ahead" ELSE "verify", s)

\* applyStateMachine: the next ordered proposal
Execute(p) ==
  /\ p \in node.accepted /\ p.index = node.expected /\ p.index \notin node.executing
  /\ Step([notifyToSealNextBlock(node, p) EXCEPT !.executing = @ \cup {p.index}])

\* setExpectedCheckPoint(index + 1), unless the result is expired
ExecuteFinished(i) ==
  /\ i \in node.executing
  /\ Step([node EXCEPT !.executing = @ \ {i},
                       !.expected = IF i > node.committed THEN Larger(node.committed + 1, i + 1)
                                    ELSE @])

Commit ==
  /\ node.committed + 1 < node.expected
  /\ Step(resetConfig(node, node.committed + 1))

\* a synchronised block k; removeFutureProposals clears what is executed
SyncBlock(k) ==
  /\ k > node.committed
  /\ Event(IF node.expected > k + 1 THEN "behind" ELSE "sync", [resetConfig(node, k) EXCEPT
       !.expected = k + 1, !.accepted = {p \in @ : p.index >= node.expected}])

NotifySyncing(k) ==
  /\ k > node.committed
  /\ Event("syncing", [node EXCEPT !.syncing = k])

Timeout ==
  /\ ~node.timeout
  /\ \A i \in node.executing : i <= node.committed
  /\ Event("timeout", [node EXCEPT !.timeout = TRUE])

\* resetNewViewState and resetCacheAfterViewChange
resetNewViewState(s, v) ==
  [s EXCEPT !.view = v, !.timeout = FALSE,
            !.accepted = {p \in @ : p.index < s.expected \/ p.index \in s.executing}]

(***************************************************************************)
(* A NewView of view v with the proposals L.  It covers what this node has *)
(* ordered beyond the blocks the view changes know to be committed; those  *)
(* may be fewer than this node has committed meanwhile.                    *)
(***************************************************************************)
NewView(s, v, L) ==
  LET top == IF \A p \in L : p.index <= s.committed THEN s.committed ELSE Max(Indices(L))
      s1 == notifyResetSealing(resetNewViewState(s, v), 0)
      M == {[proposal |-> p, view |-> v] : p \in L}
      s2 == [s1 EXCEPT !.verifying = @ \cup {m \in M : checkPrePrepareMsg(s1, m)}]
  IN  IF L = {} THEN reNotifySealer(s2, top + 1) ELSE [s2 EXCEPT !.waitReseal = top]

\* the lists a NewView may carry: a prepared block, and below it prepared or empty ones
NewViewList ==
  {L \in SUBSET {p \in Proposal : p.index > node.committed} :
     /\ Cardinality(L) = Cardinality(Indices(L))
     /\ \A i \in Indices(L) : node.committed + 1 .. i \subseteq Indices(L)
     /\ \A p \in L : p.txs \/ p \in node.accepted \/ \E q \in L : q.index > p.index
     /\ \A p \in node.accepted : p.index \in Indices(L) => p \in L
     /\ \A i \in node.executing \cup (1 .. node.expected - 1) :
          i > node.committed => i \in Indices(L)}

ChangeView ==
  /\ node.view < MaxView
  /\ \E L \in NewViewList : Step(NewView(node, node.view + 1, L))

\* every proposal of the NewView has been committed by this node meanwhile
LateNewView ==
  /\ node.view < MaxView /\ node.committed > 0 /\ node.expected = node.committed + 1
  /\ Event("late", NewView(node, node.view + 1, {[index |-> node.committed, txs |-> TRUE]}))

\* checkAndTryToRecover: the caches follow, the sealer is not told
RecoverView ==
  /\ node.view < MaxView
  /\ Event("recover", resetNewViewState(node, node.view + 1))

-----------------------------------------------------------------------------

\* PBFTImpl::init: resetConfig of the ledger's block 0
Init ==
  /\ node =
       LET s == [view |-> 0, timeout |-> FALSE, committed |-> 0, expected |-> 1, syncing |-> 0,
                 sealEnd |-> 0, waitSeal |-> 0, waitReseal |-> 0, submitted |-> {},
                 verifying |-> {}, accepted |-> {}, executing |-> {}, resetting |-> {},
                 calls |-> [p \in Proposal |-> <<>>],
                 toSealer |-> <<>>, answers |-> <<>>, retries |-> {}]
       IN  notifySealer(notifyResetSealing(s, 1), 1)
  /\ todo = {}
  /\ faults = [k \in Faults |-> 0]

Calls(p) == DOMAIN node.calls[p]

Next ==
  \/ SealerTakesRange \/ SealerResets \/ SealerFails \/ ResetFails \/ ResetAnswered
  \/ \E r \in node.retries : RetryNotification(r)
  \/ \E i \in Index : SubmitProposal(i)
  \/ \E m \in node.submitted : HandleSubmitted(m) \/ RefuseSubmitted(m)
  \/ \E p \in Proposal : \E j \in Calls(p) :
       StartMarking(p, j) \/ MarkSucceeds(p, j) \/ MarkFails(p, j) \/ RepeatMarking(p, j)
  \/ \E i \in Index : HandlePrePrepare(i)
  \/ \E m \in node.verifying : VerifySucceeds(m) \/ VerifyFails(m)
  \/ \E p \in node.accepted : Execute(p)
  \/ \E i \in node.executing : ExecuteFinished(i)
  \/ Commit
  \/ \E k \in Index : SyncBlock(k) \/ NotifySyncing(k)
  \/ Timeout \/ ChangeView \/ LateNewView \/ RecoverView

Spec == Init /\ [][Next]_vars

\* the engine's threads, the pools and the sealer keep working
Fairness ==
  /\ WF_vars(SealerTakesRange) /\ WF_vars(SealerResets) /\ WF_vars(ResetAnswered)
  /\ WF_vars(\E r \in node.retries : RetryNotification(r))
  /\ WF_vars(\E i \in Index : SubmitProposal(i))
  /\ WF_vars(\E m \in node.submitted : HandleSubmitted(m) \/ RefuseSubmitted(m))
  /\ \A p \in Proposal :
       WF_vars(\E j \in Calls(p) : StartMarking(p, j) \/ MarkSucceeds(p, j) \/ RepeatMarking(p, j))

FairSpec == Spec /\ Fairness

-----------------------------------------------------------------------------
(* Properties *)

(***************************************************************************)
(* The registers keep their types; the numbers of every request, and       *)
(* m_sealEndIndex after each reset, stay within the watermarks' range.     *)
(***************************************************************************)
TypeOK == node \in State /\ todo \subseteq Number /\ faults \in [Faults -> Nat]

\* the ranges a step asks for, repetitions left out
SentRanges ==
  {r \in {node'.toSealer[j] : j \in Len(node.toSealer) + 1 .. Len(node'.toSealer)} :
     r.op = "seal" /\ r.retry = 0}

(***************************************************************************)
(* notifySealer looks up the leader of one number and then asks for a      *)
(* whole range: every number of it belongs to this node in the view the    *)
(* range is asked for in, and is below the high watermark.                 *)
(***************************************************************************)
SealsOwnNumbers ==
  [][\A r \in SentRanges : \A i \in r.start .. r.end :
       LeaderIndex(i, node'.view) = Me /\ i < highWaterMark(node')]_vars

(***************************************************************************)
(* No range starts at a committed number, "the valid proposal index range  *)
(* should be [max(lowWaterMark, committedIndex+1, expectedCheckpoint),     *)
(* highWaterMark)" (notifySealer), except when the sealer answers a reset  *)
(* late: the number it is then asked for may have been committed           *)
(* meanwhile, which reNotifySealer does not refuse.                        *)
(***************************************************************************)
SealsOpenUnlessDelayed ==
  [][\A r \in SentRanges : r.start > node'.committed \/ node'.answers # node.answers]_vars

(***************************************************************************)
(* A proposal with transactions stays in m_resettingProposals only while a *)
(* call that will erase it is under way, also when marking fails, is       *)
(* repeated, and races with a second request for the same proposal.        *)
(* Otherwise the node would never again seal ahead of its ledger, which is *)
(* what happens to an empty block: asyncResetTxsFlag returns before the    *)
(* call.                                                                   *)
(***************************************************************************)
ResettingIsTracked ==
  \A p \in node.resetting : p.txs =>
    \E j \in Calls(p) : node.calls[p][j].stage \in {"queued", "marking"}

(***************************************************************************)
(* A block beyond the next one is asked for only when no marking is        *)
(* outstanding: "must ensure asyncResetTxsFlag success before seal new     *)
(* next blocks" (asyncResetTxsFlag).  After a failure this is lost: the    *)
(* hash is erased until the marking is repeated, and notifySealer with     *)
(* _enforce, after a failed verification, does not look at the marks.      *)
(***************************************************************************)
MarkedBeforeSealingUnlessFailed ==
  [][faults["mark"] = 0 /\ (\A k \in {"verify", "ahead"} : faults'[k] = faults[k]) =>
       \A r \in SentRanges : r.start > node'.committed + 1 =>
         \A p \in Proposal : node'.calls[p] = <<>>]_vars

\* nothing is under way between the engine and the sealer
Settled ==
  /\ node.toSealer = <<>> /\ node.answers = <<>>
  /\ node.retries = {} /\ node.submitted = {}

(***************************************************************************)
(* The next block is this node's to seal, nothing forbids it, no proposal  *)
(* for it is in consensus: then the sealer has been asked for it.          *)
(***************************************************************************)
LeaderIsTold ==
  LET i == node.committed + 1 IN
  /\ Settled /\ ~node.timeout /\ node.syncing <= node.committed /\ canHandleNewProposal(node)
  /\ i \in Index /\ LeaderIndex(i, node.view) = Me
  /\ node.expected = i /\ i \notin node.executing
  /\ i \notin Indices({m.proposal : m \in node.verifying} \cup node.accepted)
  => i \in todo

(***************************************************************************)
(* Through timeouts, view changes, failed verifications and repeated       *)
(* notifications the leader is told, as long as none of the seven things   *)
(* happened that lose a notification: a reset that fails, a submission     *)
(* overtaken by another event, a NewView that is behind this node's        *)
(* commits, a recovered view, a synchronised block below executed ones, an *)
(* enforced notification that raises m_sealEndIndex over numbers of this   *)
(* node nobody has asked for, and a notification that fails four times.    *)
(***************************************************************************)
LeaderIsToldUnlessLost ==
  \/ \E k \in {"reset", "stale", "late", "recover", "behind", "ahead"} : faults[k] > 0
  \/ faults["notify"] > 3
  \/ LeaderIsTold

(***************************************************************************)
(* Marking ends, whether it succeeds or is given up after four tries, and  *)
(* sealing is not held back any longer.                                    *)
(***************************************************************************)
MarkingEnds ==
  \A p \in Proposal : p.txs => (p \in node.resetting ~> p \notin node.resetting)

=============================================================================

----------------------------- MODULE PBFTWorker -----------------------------
(***************************************************************************)
(* The message queue of one node and the worker that empties it            *)
(* (PBFTEngine::onReceivePBFTMessage, executeWorker, handleMsg): which     *)
(* messages are handled at once, which go back to the end of the queue     *)
(* until the node leaves the timeout state or has committed a block, and   *)
(* which are dropped.                                                      *)
(*                                                                         *)
(* A "vote" for a number stands for its pre-prepare, prepare and commit    *)
(* messages, enough of them to order it (c_consensusPacket); a "checkpoint"*)
(* for enough CheckPoint messages of the number; a "newView" carries the   *)
(* pre-prepares of the numbers up to its index, or none when that is 0.    *)
(* The worker tests a message without m_mutex and then waits for it.       *)
(* waitSignal waits for at most 5 ms, so that a lost signal delays the     *)
(* worker and no more.                                                     *)
(***************************************************************************)
EXTENDS Naturals, Sequences, FiniteSets

CONSTANTS
  MaxIndex,        \* bound: block numbers 1..MaxIndex
  MaxView,         \* bound: views 0..MaxView
  MaxSync,         \* bound: how often block synchronisation is announced
  WaterMarkLimit,  \* m_warterMarkLimit
  System,          \* the numbers whose proposals contain system transactions
  Reported         \* bound: the numbers whose CheckPoint messages arrive

Index == 1 .. MaxIndex
View == 0 .. MaxView

ASSUME WorkerAssumption ==
  /\ MaxIndex \in Nat /\ MaxView \in Nat /\ MaxSync \in Nat
  /\ WaterMarkLimit \in Nat \ {0}
  /\ System \subseteq Index /\ Reported \subseteq Index

VARIABLES
  node,       \* the registers, the queue and what has been handled
  peers,      \* the view of the other nodes and the NewView that began it
  received,   \* history: the messages received
  handled,    \* history: the messages given to handleMsg
  syncs       \* history: how often block synchronisation was announced

vars == <<node, peers, received, handled, syncs>>

Vote == [type : {"vote"}, index : Index, view : View]
CheckPoint == [type : {"checkpoint"}, index : Reported, view : {0}]
NewView == [type : {"newView"}, index : 0 .. MaxIndex, view : View]
Message == Vote \cup CheckPoint \cup NewView

State ==
  [timeout : BOOLEAN, view : View,
   committed : 0 .. MaxIndex, expected : 1 .. MaxIndex + 1,
   waitSeal : 0 .. MaxIndex,       \* m_waitSealUntil
   waitReseal : 0 .. MaxIndex,     \* m_waitResealUntil
   syncing : 0 .. MaxIndex,        \* m_syncingHighestNumber
   queue : Seq(Message),           \* m_msgQueue
   popped : SUBSET Message,        \* the message that waits for m_mutex
   early : SUBSET (Index \X View), \* votes of views to come
   ordered : SUBSET Index,
   stable : SUBSET Index]          \* a quorum has sent CheckPoints

Larger(a, b) == IF a > b THEN a ELSE b

-----------------------------------------------------------------------------
(* The tests of the worker *)

isSyncingHigher(s) == s.syncing >= s.committed + WaterMarkLimit

\* a mutant of canHandleNewProposal: the last number waited for is kept back
KeepLast(s, m) ==
  \/ s.waitSeal <= s.committed /\ s.waitReseal <= s.committed
  \/ m.index <= s.committed \/ m.index < s.waitSeal \/ m.index < s.waitReseal

canHandleNewProposal(s, m) ==
  \/ s.waitSeal <= s.committed /\ s.waitReseal <= s.committed
  \/ m.index <= s.committed \/ m.index <= s.waitSeal \/ m.index <= s.waitReseal

\* what happens to a message the worker has taken from the queue
Allowed(s, m) ==
  m.type # "vote" \/ (~s.timeout /\ canHandleNewProposal(s, m))

\* in the timeout state a message of a committed number is dropped
Kept(s, m) == ~Allowed(s, m) /\ (~s.timeout \/ m.index > s.committed)

-----------------------------------------------------------------------------
(* The handlers, as far as they change what the tests look at *)

\* checkPBFTMsgState; a pre-prepare of a view to come has another leader
HandleVote(s, m) ==
  IF \/ m.index < s.expected \/ m.index <= s.syncing
     \/ m.index > s.committed + WaterMarkLimit \/ m.view < s.view
  THEN s
  ELSE IF m.view = s.view THEN [s EXCEPT !.ordered = @ \cup {m.index}]
  ELSE [s EXCEPT !.early = @ \cup {<<m.index, m.view>>}]

HandleCheckPoint(s, m) ==
  IF m.index <= s.committed \/ isSyncingHigher(s) THEN s
  ELSE [s EXCEPT !.stable = @ \cup {m.index}]

\* the proposals of the NewView meet the votes that came early
HandleNewView(s, m) ==
  IF m.view <= s.view THEN s
  ELSE [s EXCEPT
          !.view = m.view, !.timeout = FALSE,
          !.waitReseal = IF m.index > 0 THEN Larger(m.index, s.committed) ELSE @,
          !.early = {e \in @ : e[2] >= m.view},
          !.ordered = @ \cup {i \in s.expected .. m.index : <<i, m.view>> \in s.early}]

handleMsg(s, m) ==
  CASE m.type = "vote" -> HandleVote(s, m)
    [] m.type = "checkpoint" -> HandleCheckPoint(s, m)
    [] m.type = "newView" -> HandleNewView(s, m)

\* resetConfig; the stage of the numbers up to k is forgotten
resetConfig(s, k) ==
  [s EXCEPT !.committed = k, !.expected = Larger(@, k + 1), !.timeout = s.syncing > k,
            !.ordered = {i \in @ : i > k}, !.stable = {i \in @ : i > k}]

-----------------------------------------------------------------------------
(* Steps *)

Step(s) == node' = s /\ UNCHANGED <<peers, received, handled, syncs>>

\* onReceivePBFTMessage; the others vote in their view and repeat CheckPoints
CanReceive(m) ==
  /\ m \notin received
  /\ m.type = "vote" => m.view = peers.view
  /\ m.type = "newView" => m = peers.newView /\ m.view > 0

Receive(m) ==
  /\ CanReceive(m)
  /\ received' = received \cup {m}
  /\ node' = [node EXCEPT !.queue = Append(@, m)]
  /\ UNCHANGED <<peers, handled, syncs>>

\* a mutant of Pop: what may not be handled in the timeout state is dropped
DropInTimeout ==
  /\ node.popped = {} /\ node.queue # <<>>
  /\ ~isSyncingHigher(node)
  /\ LET m == Head(node.queue) IN
     Step([node EXCEPT
       !.popped = IF Allowed(node, m) THEN {m} ELSE {},
       !.queue = IF Kept(node, m) /\ ~node.timeout THEN Append(Tail(@), m) ELSE Tail(@)])

\* executeWorker
Pop ==
  /\ node.popped = {} /\ node.queue # <<>>
  /\ ~isSyncingHigher(node)
  /\ LET m == Head(node.queue) IN
     Step([node EXCEPT
       !.popped = IF Allowed(node, m) THEN {m} ELSE {},
       !.queue = IF Kept(node, m) THEN Append(Tail(@), m) ELSE Tail(@)])

\* handleMsg has the mutex
Handle ==
  \E m \in node.popped :
    /\ node' = [handleMsg(node, m) EXCEPT !.popped = {}]
    /\ handled' = handled \cup {m}
    /\ UNCHANGED <<peers, received, syncs>>

\* tryToApplyCommitQueue; with system transactions the sealing waits
Execute ==
  /\ node.expected \in node.ordered
  /\ Step([node EXCEPT !.expected = @ + 1,
                       !.waitSeal = IF node.expected \in System THEN node.expected ELSE @])

\* the next number is stable and written to the ledger
CanCommit == node.committed + 1 < node.expected /\ node.committed + 1 \in node.stable

Commit ==
  /\ CanCommit
  /\ Step(resetConfig(node, node.committed + 1))

OnTimeout ==
  /\ ~node.timeout /\ node.view < MaxView
  /\ Step([node EXCEPT !.timeout = TRUE])

\* the others reach the next view and propose the numbers up to r again
PeersChangeView(r) ==
  /\ peers.view < MaxView
  /\ LET v == peers.view + 1 IN
     peers' = [view |-> v, newView |-> [type |-> "newView", index |-> r, view |-> v]]
  /\ UNCHANGED <<node, received, handled, syncs>>

NotifySyncing(k) ==
  /\ syncs < MaxSync /\ k > node.committed
  /\ syncs' = syncs + 1
  /\ node' = [node EXCEPT !.syncing = Larger(@, k)]
  /\ UNCHANGED <<peers, received, handled>>

\* a mutant of SyncBlock: the queues are cleared before the block is taken over
ClearFirst ==
  /\ node.syncing > node.committed
  /\ Step([resetConfig(node, node.syncing) EXCEPT
             !.expected = node.committed + 1, !.ordered = {},
             !.stable = {i \in @ : i >= node.expected}])

\* the announced block is taken over and the queues are cleared
\* (removeFutureProposals)
SyncBlock ==
  /\ node.syncing > node.committed
  /\ Step([resetConfig(node, node.syncing) EXCEPT
             !.expected = node.syncing + 1, !.ordered = {},
             !.stable = {i \in @ : i >= node.expected}])

-----------------------------------------------------------------------------

Init ==
  /\ node = [timeout |-> FALSE, view |-> 0, committed |-> 0, expected |-> 1,
             waitSeal |-> 0, waitReseal |-> 0, syncing |-> 0, queue |-> <<>>,
             popped |-> {}, early |-> {}, ordered |-> {}, stable |-> {}]
  /\ peers = [view |-> 0, newView |-> [type |-> "newView", index |-> 0, view |-> 0]]
  /\ received = {} /\ handled = {}
  /\ syncs = 0

Next ==
  \/ \E m \in Message : Receive(m)
  \/ Pop
  \/ Handle
  \/ Execute
  \/ Commit
  \/ OnTimeout
  \/ \E r \in 0 .. MaxIndex : PeersChangeView(r)
  \/ \E k \in Index : NotifySyncing(k)
  \/ SyncBlock

Spec == Init /\ [][Next]_vars

\* Pop is enabled and changes something: a lone vote that is put back does not
CanPop ==
  /\ node.popped = {} /\ node.queue # <<>> /\ ~isSyncingHigher(node)
  /\ Len(node.queue) > 1 \/ ~Kept(node, Head(node.queue))

(***************************************************************************)
(* The threads of the node go on, announced blocks arrive, and the others  *)
(* end a view change the node waits for: their NewView arrives, the votes  *)
(* of the view they are in, and the CheckPoint messages, which             *)
(* onCheckPointTimeout repeats.  (A message arrives once, so that weak     *)
(* fairness of all of them together is that of each.)  Each conjunct is    *)
(* weak fairness with the enabling condition written out, which TLC        *)
(* evaluates faster.                                                       *)
(***************************************************************************)
Fairness ==
  /\ []<>~CanPop \/ []<><<Pop>>_vars
  /\ []<>(node.popped = {}) \/ []<><<Handle>>_vars
  /\ []<>(node.expected \notin node.ordered) \/ []<><<Execute>>_vars
  /\ []<>~CanCommit \/ []<><<Commit>>_vars
  /\ []<>(node.syncing <= node.committed) \/ []<><<SyncBlock>>_vars
  /\ []<>~(node.timeout /\ peers.view = node.view /\ peers.view < MaxView)
     \/ []<><<\E r \in 0 .. MaxIndex : PeersChangeView(r)>>_vars
  /\ []<>(\A m \in Message : ~CanReceive(m))
     \/ []<><<\E m \in Message : Receive(m)>>_vars

FairSpec == Spec /\ Fairness

-----------------------------------------------------------------------------
(* Properties *)

InQueue(m) == \E k \in DOMAIN node.queue : node.queue[k] = m

(***************************************************************************)
(* Registers and queue keep their types, expectedCheckPoint is beyond the  *)
(* ledger and at most one message waits for the mutex.                     *)
(***************************************************************************)
TypeOK ==
  /\ node \in State
  /\ node.committed < node.expected /\ Cardinality(node.popped) <= 1
  /\ peers \in [view : View, newView : NewView]
  /\ received \subseteq Message /\ handled \subseteq received
  /\ syncs \in 0 .. MaxSync

(***************************************************************************)
(* However the timeout state, system proposals, new views, commits and     *)
(* block synchronisation follow each other, a message goes astray only if  *)
(* its number is on the ledger: otherwise executeWorker handles it or puts *)
(* it back.                                                                *)
(***************************************************************************)
NothingLost ==
  \A m \in received \ handled :
    InQueue(m) \/ m \in node.popped \/ m.index <= node.committed

(***************************************************************************)
(* A vote is not put back for ever: votes kept back by the timeout state,  *)
(* by a system proposal or by the proposals of a NewView are handled once  *)
(* these are over, which depends itself on messages that wait behind them  *)
(* in the queue.                                                           *)
(***************************************************************************)
EveryMessageHandled ==
  \A m \in Vote :
    m \in received ~> (m \in handled \/ m.index <= node.committed \/ m.view < node.view)

=============================================================================

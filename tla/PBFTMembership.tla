--------------------------- MODULE PBFTMembership ---------------------------
(***************************************************************************)
(* How one node takes a new consensus-node list into use while numbers are *)
(* in consensus and the sync module has blocks checked.                    *)
(*                                                                         *)
(* A system block changes the list, the weights or the leader period from  *)
(* the next number on.  resetConfig runs under m_mutex, as the message     *)
(* handlers do, and sets its registers one after the other; BlockValidator *)
(* and onProposalApplySuccess read them without the mutex.  Votes are      *)
(* counted when they arrive, with the weight and the position in the list  *)
(* of that moment (PBFTCache::addCache), and kept.                         *)
(*                                                                         *)
(* The other nodes are correct: they vote for the one block of a number.   *)
(* The prepare round counts its votes like the commit round and is left    *)
(* out, as are views.                                                      *)
(***************************************************************************)
EXTENDS Integers, Sequences, FiniteSets, Functions

CONSTANTS
  Me,              \* the id of this node
  MaxIndex,        \* bound: block numbers 1..MaxIndex
  MaxNodes,        \* bound: the length of the longest list
  MaxWeight,       \* bound: the largest weight
  WaterMarkLimit,  \* m_warterMarkLimit
  Conf,            \* Conf[i]: the node list and the period in force after block i
  Voters,          \* the ids of the other nodes whose votes may arrive
  Offered          \* the blocks the sync module may ask to check

Index == 1 .. MaxIndex

Slot == 0 .. MaxNodes - 1
NonConsensus == -1

ConsensusNode == [id : Nat \ {0}, weight : 0 .. MaxWeight]

\* a block from another node's ledger; its signatureList, as the positions in the
\* list of its number whose nodes signed, which may name a position twice
Block == [number : Index, sealer : Slot, signatures : Seq(Slot), txs : BOOLEAN]

(***************************************************************************)
(* setConsensusNodeList throws on an empty list and sorts it by node id;   *)
(* updateQuorum needs a positive weight, see PBFTQuorum.                   *)
(***************************************************************************)
ASSUME MembershipAssumption ==
  /\ Me \in Nat \ {0} /\ Voters \subseteq Nat \ {0}
  /\ MaxIndex \in Nat \ {0} /\ MaxNodes \in Nat /\ MaxWeight \in Nat
  /\ WaterMarkLimit \in Nat \ {0}
  /\ \A i \in 0 .. MaxIndex :
       /\ Conf[i].period \in Nat \ {0}
       /\ Conf[i].list \in Seq(ConsensusNode) /\ Len(Conf[i].list) \in 1 .. MaxNodes
       /\ \E k \in DOMAIN Conf[i].list : Conf[i].list[k].weight > 0
       /\ \A k, l \in DOMAIN Conf[i].list :
            k < l => Conf[i].list[k].id < Conf[i].list[l].id
  /\ Offered \subseteq Block

Lists == {Conf[i].list : i \in 0 .. MaxIndex}

\* the block of number i has system transactions
System(i) == Conf[i] # Conf[i - 1]

VARIABLES
  node,    \* the registers of the config and what the caches count
  check,   \* the task of the BlockValidator's thread
  early,   \* history: numbers with a vote counted before their list was in force
  raced    \* history: the config changed during the check

vars == <<node, check, early, raced>>

Kind == {"commit", "checkpoint"}

\* a counted vote: its sender and the weight it was counted with
Vote == [from : Nat, weight : 0 .. MaxWeight]
None == [from |-> 0, weight |-> 0]

UpdateStage == {"idle", "committed", "list", "num", "index", "quorum", "period", "finish"}

State ==
  [committed : 0 .. MaxIndex, expected : 1 .. MaxIndex + 1,
   list : Lists,                     \* m_consensusNodeList
   nodeNum : 1 .. MaxNodes,          \* m_consensusNodeNum
   nodeIndex : Slot \cup {NonConsensus},
   quorum : 1 .. MaxNodes * MaxWeight,   \* m_minRequiredQuorum
   period : Nat,                     \* m_leaderSwitchPeriod
   waitSeal : 0 .. MaxIndex,         \* m_waitSealUntil
   update : [stage : UpdateStage, number : 0 .. MaxIndex, synced : BOOLEAN],
   proposed : SUBSET Index,          \* m_prePrepare is set
   votes : [Kind -> [Index -> [Slot -> Vote]]],
   submitted : SUBSET Index,         \* m_submitted
   queue : SUBSET Index,             \* m_committedQueue
   executing : SUBSET Index,
   reports : SUBSET [number : Index, slot : Slot \cup {NonConsensus}, at : 0 .. MaxIndex],
   executed : SUBSET Index,          \* m_checkpointProposal is set
   stable : SUBSET Index,            \* m_stableCommitted
   stableQueue : SUBSET Index,       \* m_stableCheckPointQueue
   committing : SUBSET Index]        \* handed to the storage

-----------------------------------------------------------------------------
(* Lists and quorums *)

\* getConsensusNodeByIndex; n is a valid position
At(list, n) == list[n + 1]
Valid(list, n) == n \in 0 .. Len(list) - 1

getNodeIndexByNodeID(list, id) ==
  IF \E n \in Slot : Valid(list, n) /\ At(list, n).id = id
  THEN CHOOSE n \in Slot : Valid(list, n) /\ At(list, n).id = id
  ELSE NonConsensus

\* the sum of the weights w[x], as the number of votes cast (see PBFTQuorum)
Votes(w) == {u \in (DOMAIN w) \X (1 .. MaxWeight) : u[2] <= w[u[1]]}
Weight(w) == Cardinality(Votes(w))

Total(list) == Weight([k \in DOMAIN list |-> list[k].weight])

\* the quorum of a list, as updateQuorum computes it
Quorum(list) == Total(list) - (Total(list) - 1) \div 3

\* the weight of a set of positions in a list
WeightOf(list, S) == Weight([n \in {m \in S : Valid(list, m)} |-> At(list, n).weight])

leaderIndex(s, i) == (i \div s.period) % s.nodeNum

highWaterMark(s) == s.committed + 1 + WaterMarkLimit

\* canHandleNewProposal(msg): nothing beyond a system block that is executed
canHandleNewProposal(s, i) == s.waitSeal <= s.committed \/ i <= s.waitSeal

-----------------------------------------------------------------------------
(* Votes *)

\* a mutant of addCache: a repeated vote counts again
CountTwice(s, kind, i, n, id) ==
  IF ~Valid(s.list, n) THEN s
  ELSE [s EXCEPT !.votes[kind][i][n] =
          [from |-> id, weight |-> IF @ = None THEN At(s.list, n).weight ELSE MaxWeight]]

\* a vote is counted once per position, with the weight of that position now
addCache(s, kind, i, n, id) ==
  IF ~Valid(s.list, n) \/ s.votes[kind][i][n] # None THEN s
  ELSE [s EXCEPT !.votes[kind][i][n] = [from |-> id, weight |-> At(s.list, n).weight]]

collectEnoughQuorum(s, kind, i) ==
  Weight([n \in Slot |-> s.votes[kind][i][n].weight]) >= s.quorum

\* executes the next number of the commit queue on an executed predecessor
tryToApplyCommitQueue(s) ==
  LET valid == {i \in s.queue : i >= s.expected}
      i     == s.expected
  IN  IF i \notin valid \/ ~(i - 1 = s.committed \/ i - 1 \in s.executed) \/ i \in s.executing
      THEN [s EXCEPT !.queue = valid]
      ELSE [s EXCEPT !.queue = valid \ {i}, !.executing = @ \cup {i},
                     !.waitSeal = IF System(i) /\ i > @ THEN i ELSE @]

checkAndCommit(s, i) ==
  IF i \in s.submitted \/ i \notin s.proposed \/ ~collectEnoughQuorum(s, "commit", i) THEN s
  ELSE tryToApplyCommitQueue([s EXCEPT !.submitted = @ \cup {i}, !.queue = @ \cup {i}])

tryToCommitStableCheckPoint(s) ==
  LET valid == {i \in s.stableQueue : i > s.committed}
      next  == valid \cap {s.committed + 1}
  IN  [s EXCEPT !.stableQueue = valid \ next, !.committing = @ \cup next]

checkAndCommitStableCheckPoint(s) ==
  LET new == {i \in s.executed \ s.stable : collectEnoughQuorum(s, "checkpoint", i)}
  IN  IF new = {} THEN s
      ELSE tryToCommitStableCheckPoint(
             [s EXCEPT !.stable = @ \cup new,
                       !.stableQueue = @ \cup {i \in new : i > s.committed}])

-----------------------------------------------------------------------------
(* Message handlers: they hold m_mutex, no update is under way *)

Idle == node.update.stage = "idle"

IsMember == node.nodeIndex # NonConsensus

\* the node keeps the vote of number i before the list of i is in force
Note(i, at) == early' = IF at < i - 1 THEN early \cup {i} ELSE early

\* checkPBFTMsgState
AcceptsIndex(i) == i > node.committed /\ i >= node.expected /\ i < highWaterMark(node)

\* the sender is at position n of its list and of this node's list (checkSignature)
SentFrom(id, n, i) ==
  /\ \E c \in 0 .. i - 1 : n = getNodeIndexByNodeID(Conf[c].list, id)
  /\ Valid(node.list, n) /\ At(node.list, n).id = id

\* the pre-prepare of number i from a node that leads i in its own config and
\* in this node's, verified; this node votes.  A submission and the callback of
\* a verification do not pass the gate of executeWorker
HandlePrePrepare(i) ==
  /\ Idle /\ IsMember /\ AcceptsIndex(i) /\ i \notin node.proposed
  /\ \E id \in Voters \cup {Me}, c \in 0 .. i - 1 :
       LET n == getNodeIndexByNodeID(Conf[c].list, id) IN
       /\ n = (i \div Conf[c].period) % Len(Conf[c].list)
       /\ n = leaderIndex(node, i) /\ SentFrom(id, n, i)
  /\ node' = checkAndCommit(
       addCache([node EXCEPT !.proposed = @ \cup {i}], "commit", i, node.nodeIndex, Me), i)
  /\ Note(i, node.committed)
  /\ UNCHANGED <<check, raced>>

\* a commit vote that passed the gate of executeWorker
HandleCommit(i, id, n) ==
  /\ Idle /\ IsMember /\ AcceptsIndex(i) /\ n # node.nodeIndex
  /\ canHandleNewProposal(node, i)
  /\ SentFrom(id, n, i)
  /\ node' = checkAndCommit(addCache(node, "commit", i, n, id), i)
  /\ Note(i, node.committed)
  /\ UNCHANGED <<check, raced>>

HandleCheckPoint(i, id, n) ==
  /\ Idle /\ IsMember /\ i > node.committed
  /\ SentFrom(id, n, i)
  /\ node' = checkAndCommitStableCheckPoint(
               tryToApplyCommitQueue(addCache(node, "checkpoint", i, n, id)))
  /\ Note(i, node.committed)
  /\ UNCHANGED <<check, raced>>

(***************************************************************************)
(* The execution of number i is over.  onProposalApplySuccess writes its   *)
(* CheckPoint message, with the node's position, before it takes m_mutex.  *)
(***************************************************************************)
ExecuteFinished(i) ==
  /\ i \in node.executing
  /\ ~\E r \in node.reports : r.number = i
  /\ node' = IF i <= node.committed THEN [node EXCEPT !.executing = @ \ {i}]
             ELSE [node EXCEPT !.reports =
                     @ \cup {[number |-> i, slot |-> node.nodeIndex, at |-> node.committed]}]
  /\ UNCHANGED <<check, early, raced>>

ApplySuccess ==
  /\ Idle
  /\ \E r \in node.reports :
       LET i  == r.number
           s1 == addCache([node EXCEPT !.reports = @ \ {r}], "checkpoint", i, r.slot, Me)
           s2 == [s1 EXCEPT !.executed = IF i > s1.committed THEN @ \cup {i} ELSE @,
                            !.expected = IF i + 1 > s1.committed THEN i + 1 ELSE @]
       IN  /\ node' = [tryToApplyCommitQueue(checkAndCommitStableCheckPoint(s2)) EXCEPT
                         !.executing = @ \ {i}]
           /\ Note(i, r.at)
  /\ UNCHANGED <<check, raced>>

-----------------------------------------------------------------------------
(* resetConfig and finalizeConsensus for block k, one register after the   *)
(* other; the mutex is held from the first to the last stage               *)

Update(stage, changes) ==
  /\ node' = [changes EXCEPT !.update.stage = stage]
  /\ raced' = (raced \/ check.stage # "idle")
  /\ UNCHANGED <<check, early>>

\* commitBlock has succeeded
CommitSucceeds(k) ==
  /\ Idle /\ k \in node.committing
  /\ IF k # node.committed + 1
     THEN node' = [node EXCEPT !.committing = @ \ {k}]
     ELSE node' = [node EXCEPT !.committing = @ \ {k},
                     !.update = [stage |-> "committed", number |-> k, synced |-> FALSE]]
  /\ UNCHANGED <<check, early, raced>>

\* the sync module has written a block it found valid and notifies it
\* (asyncNotifyNewBlock, shouldResetConfig), or drops it
SyncBlock ==
  /\ Idle /\ check.stage = "accepted"
  /\ node' = IF check.block.number <= node.committed THEN node
             ELSE [node EXCEPT !.update = [stage |-> "committed", synced |-> TRUE,
                                           number |-> check.block.number]]
  /\ check' = [check EXCEPT !.stage = "idle"]
  /\ UNCHANGED <<early, raced>>

\* setCommittedProposal
SetCommitted ==
  /\ node.update.stage = "committed"
  /\ LET k == node.update.number IN
     Update("list", [node EXCEPT !.committed = k,
                                 !.expected = IF k + 1 > @ THEN k + 1 ELSE @])

\* setConsensusNodeList; an unchanged list ends it
SetList ==
  /\ node.update.stage = "list"
  /\ LET new == Conf[node.update.number].list IN
     Update(IF new = node.list THEN "period" ELSE "num", [node EXCEPT !.list = new])

SetNodeNum ==
  /\ node.update.stage = "num"
  /\ Update("index", [node EXCEPT !.nodeNum = Len(node.list)])

SetNodeIndex ==
  /\ node.update.stage = "index"
  /\ Update("quorum", [node EXCEPT !.nodeIndex = getNodeIndexByNodeID(node.list, Me)])

\* a mutant of updateQuorum: the quorum is never lowered
QuorumOnlyGrows ==
  /\ node.update.stage = "quorum"
  /\ Update("period", [node EXCEPT !.quorum = IF Quorum(node.list) > @ THEN Quorum(node.list) ELSE @])

updateQuorum ==
  /\ node.update.stage = "quorum"
  /\ Update("period", [node EXCEPT !.quorum = Quorum(node.list)])

SetPeriod ==
  /\ node.update.stage = "period"
  /\ Update("finish", [node EXCEPT !.period = Conf[node.update.number].period])

\* the caches of the numbers in S are dropped
Drop(s, S) ==
  [s EXCEPT !.proposed = @ \ S, !.submitted = @ \ S, !.executed = @ \ S, !.stable = @ \ S,
            !.votes = [kind \in Kind |-> [i \in Index |->
               IF i \in S THEN [n \in Slot |-> None] ELSE s.votes[kind][i]]]]

removeConsensusedCache(s) == Drop(s, {i \in Index : i <= s.committed \/ i \in s.stable})

removeFutureProposals(s) ==
  [Drop(s, s.executed) EXCEPT !.expected = s.committed + 1, !.queue = {}, !.stableQueue = {}]

\* the rest of finalizeConsensus
Finish ==
  /\ node.update.stage = "finish"
  /\ LET s1 == tryToCommitStableCheckPoint(removeConsensusedCache(tryToApplyCommitQueue(node)))
         s2 == IF node.update.synced THEN removeFutureProposals(s1) ELSE s1
         empty(i) == \A kind \in Kind, n \in Slot : s2.votes[kind][i][n] = None
     IN  /\ node' = [s2 EXCEPT !.update = [stage |-> "idle", number |-> 0, synced |-> FALSE]]
         /\ early' = {i \in early : ~empty(i)}
  /\ UNCHANGED <<check, raced>>

-----------------------------------------------------------------------------
(* BlockValidator, a thread of its own *)

CheckStage == {"idle", "number", "sealer", "list", "signatures", "accepted"}

\* a check: how many signatures are verified, and their weight
Task == [stage : CheckStage, block : Block, verified : Nat, weight : Nat]

\* the next stage, or the rejection; the sync module asks again
Checked(ok, stage) ==
  /\ check' = [check EXCEPT !.stage = IF ok THEN stage ELSE "idle"]
  /\ UNCHANGED <<node, early, raced>>

OwnList(b) == Conf[b.number - 1].list

asyncCheckBlock(b) ==
  /\ check.stage = "idle" /\ b \in Offered
  /\ b.number = node.committed + 1 \/ b.number \in node.committing
  /\ check' = [stage |-> "number", block |-> b, verified |-> 0, weight |-> 0]
  /\ raced' = ~Idle
  /\ UNCHANGED <<node, early>>

\* a block without transactions is taken as it is
CheckNumber ==
  /\ check.stage = "number"
  /\ Checked(check.block.number > node.committed,
             IF check.block.txs THEN "sealer" ELSE "accepted")

CheckSealer ==
  /\ check.stage = "sealer"
  /\ Checked(Valid(node.list, check.block.sealer), "list")

CheckSealerList ==
  /\ check.stage = "list"
  /\ Checked(node.list = OwnList(check.block), "signatures")

\* the node at position n of this node's list is the one that signed b at n
Verifies(b, n) ==
  Valid(node.list, n) /\ Valid(OwnList(b), n) /\ At(node.list, n).id = At(OwnList(b), n).id

\* the next signature of checkSignatureList: its weight is added, also when the
\* position had its turn before
CheckSignature ==
  /\ check.stage = "signatures" /\ check.verified < Len(check.block.signatures)
  /\ LET n == check.block.signatures[check.verified + 1] IN
     check' = IF Verifies(check.block, n)
              THEN [check EXCEPT !.verified = @ + 1, !.weight = @ + At(node.list, n).weight]
              ELSE [check EXCEPT !.stage = "idle"]
  /\ UNCHANGED <<node, early, raced>>

\* a mutant of CheckWeight: the block's own number of signatures
CountSignatures ==
  /\ check.stage = "signatures" /\ check.verified = Len(check.block.signatures)
  /\ Checked(check.verified * MaxWeight >= node.quorum, "accepted")

CheckWeight ==
  /\ check.stage = "signatures" /\ check.verified = Len(check.block.signatures)
  /\ Checked(check.weight >= node.quorum, "accepted")

-----------------------------------------------------------------------------

Init ==
  /\ node = [committed |-> 0, expected |-> 1, list |-> Conf[0].list,
             nodeNum |-> Len(Conf[0].list),
             nodeIndex |-> getNodeIndexByNodeID(Conf[0].list, Me),
             quorum |-> Quorum(Conf[0].list), period |-> Conf[0].period, waitSeal |-> 0,
             update |-> [stage |-> "idle", number |-> 0, synced |-> FALSE],
             proposed |-> {},
             votes |-> [kind \in Kind |-> [i \in Index |-> [n \in Slot |-> None]]],
             submitted |-> {}, queue |-> {}, executing |-> {}, reports |-> {},
             executed |-> {}, stable |-> {}, stableQueue |-> {}, committing |-> {}]
  /\ check = [stage |-> "idle", weight |-> 0, verified |-> 0,
              block |-> [number |-> 1, sealer |-> 0, signatures |-> <<>>, txs |-> FALSE]]
  /\ early = {}
  /\ raced = FALSE

UpdateStep ==
  SetCommitted \/ SetList \/ SetNodeNum \/ SetNodeIndex \/ updateQuorum \/ SetPeriod \/ Finish

CheckStep ==
  CheckNumber \/ CheckSealer \/ CheckSealerList \/ CheckSignature \/ CheckWeight

Next ==
  \/ \E i \in Index : HandlePrePrepare(i)
  \/ \E i \in Index, id \in Voters, n \in Slot : HandleCommit(i, id, n)
  \/ \E i \in Index, id \in Voters, n \in Slot : HandleCheckPoint(i, id, n)
  \/ \E i \in Index : ExecuteFinished(i)
  \/ ApplySuccess
  \/ \E k \in Index : CommitSucceeds(k)
  \/ SyncBlock
  \/ SetCommitted \/ SetList \/ SetNodeNum \/ SetNodeIndex \/ updateQuorum \/ SetPeriod
  \/ Finish
  \/ \E b \in Offered : asyncCheckBlock(b)
  \/ CheckNumber \/ CheckSealer \/ CheckSealerList \/ CheckSignature \/ CheckWeight

Spec == Init /\ [][Next]_vars

\* a block that other nodes have in their ledgers
Proper(b) == ~b.txs \/ WeightOf(OwnList(b), Range(b.signatures)) >= Quorum(OwnList(b))

\* the next block, a proper one, is there to be checked
CanCheck ==
  /\ check.stage = "idle"
  /\ \E b \in Offered : Proper(b) /\ (b.number = node.committed + 1 \/ b.number \in node.committing)

(***************************************************************************)
(* The threads run on: an update, a check and a commit end, the sync       *)
(* module notifies what it has written (weak fairness), and it asks        *)
(* several nodes, so that a block it is given again and again is at last a *)
(* proper one (strong fairness).  The enabling conditions are written out, *)
(* which TLC evaluates faster.                                             *)
(***************************************************************************)
FairSpec ==
  /\ Spec
  /\ []<>Idle \/ []<><<UpdateStep>>_vars
  /\ []<>(check.stage \in {"idle", "accepted"}) \/ []<><<CheckStep>>_vars
  /\ []<>~(Idle /\ node.committing # {}) \/ []<><<\E k \in Index : CommitSucceeds(k)>>_vars
  /\ []<>~(Idle /\ check.stage = "accepted") \/ []<><<SyncBlock>>_vars
  /\ <>[]~CanCheck \/ []<><<\E b \in Offered : Proper(b) /\ asyncCheckBlock(b)>>_vars

-----------------------------------------------------------------------------
(* Properties *)

(***************************************************************************)
(* The registers keep their types, and outside an update the ones derived  *)
(* from the list fit the list of the committed block (setConsensusNodeList *)
(* returns early when the list is unchanged).                              *)
(***************************************************************************)
TypeOK ==
  /\ node \in State
  /\ check \in Task
  /\ early \subseteq Index /\ raced \in BOOLEAN
  /\ Idle => LET c == Conf[node.committed] IN
       /\ node.list = c.list /\ node.nodeNum = Len(c.list) /\ node.period = c.period
       /\ node.quorum = Quorum(c.list)
       /\ node.nodeIndex = getNodeIndexByNodeID(c.list, Me)

\* the positions of the list of number i whose own node's vote is counted
Signers(kind, i) ==
  LET list == Conf[i - 1].list IN
  {n \in Slot : Valid(list, n) /\ node.votes[kind][i][n].from = At(list, n).id}

QuorumOfOwnList(kind, i) ==
  WeightOf(Conf[i - 1].list, Signers(kind, i)) >= Quorum(Conf[i - 1].list)

(***************************************************************************)
(* A result becomes stable only with the votes of a quorum of the list of  *)
(* its number, at their positions in that list: the votes are written to   *)
(* the block as its signatures, which other nodes check against that list. *)
(* It holds unless a vote of the number was counted, or this node's own    *)
(* was written, while the list of an earlier number was in force.          *)
(***************************************************************************)
StableByOwnListUnlessEarly ==
  \A i \in node.stable \ early : i > node.committed => QuorumOfOwnList("checkpoint", i)

(***************************************************************************)
(* A block with transactions that the validator accepts is signed by a     *)
(* quorum of the list of its number: the list, the weights and the quorum  *)
(* are read one by one, while resetConfig may set them.  It holds if no    *)
(* register changed during the check and no position signs twice:          *)
(* checkSignatureList adds the weight of every entry and looks for no      *)
(* repetition.                                                             *)
(***************************************************************************)
AcceptedIsSignedUnlessRepeated ==
  LET b == check.block IN
  check.stage = "accepted" /\ b.txs /\ ~raced /\ IsInjective(b.signatures)
  => WeightOf(OwnList(b), Range(b.signatures)) >= Quorum(OwnList(b))

(***************************************************************************)
(* A node that is offered the blocks of the chain, each signed by a quorum *)
(* of its list, gets to the last one: a check that races with an update    *)
(* may reject a valid block, but not for ever.                             *)
(***************************************************************************)
CatchesUp == <>(node.committed = MaxIndex)

=============================================================================

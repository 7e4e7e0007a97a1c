----------------------------- MODULE PBFTCache ------------------------------
(***************************************************************************)
(* The cache a node keeps for one block number (class PBFTCache): the      *)
(* accepted pre-prepare, the precommitted proposal (the node's lock on the *)
(* block number), the collected prepare and commit votes, and the          *)
(* execution result once the proposal has been applied.                    *)
(*                                                                         *)
(* A cache is a record; every operator maps a cache to a cache or to a     *)
(* Boolean and has the name of the method it models.  v is the view of the *)
(* node that owns the cache (m_config->view()).                            *)
(*                                                                         *)
(* Block contents are abstracted to their hash.  Hash <<n, 0>> is the      *)
(* empty block node n generates in a new view (generateEmptyProposal: its  *)
(* header holds the block number and the sealer only, so it is the same    *)
(* every time); <<n, s>> with s > 0 is a block sealed by n.                *)
(*                                                                         *)
(* CheckPoint votes are not part of the record: a cache that holds nothing *)
(* else, or none, is EmptyCache.                                           *)
(***************************************************************************)
EXTENDS PBFTQuorum

CONSTANTS
  MaxSeal,   \* bound: a node seals at most MaxSeal different blocks per number
  MaxView    \* bound: no node asks for a view above MaxView

ASSUME CacheAssumption == MaxSeal \in Nat /\ MaxView \in Nat

View == 0 .. MaxView

Hash == Node \X (0 .. MaxSeal)
EmptyProposal(n) == <<n, 0>>
NoHash == <<>>

\* A pre-prepare as stored: its view, the proposal's hash, and generatedFrom,
\* the node the proposal's data can be requested from.
NoProposal == [view |-> -1, hash |-> NoHash, from |-> -1]
Proposal == [view : View, hash : Hash, from : Node]

Vote == [from : Node, hash : Hash, view : View]

Cache ==
  [prePrepare   : Proposal \cup {NoProposal},
   precommit    : Proposal \cup {NoProposal},
   prepares     : SUBSET Vote,
   commits      : SUBSET Vote,
   submitted    : BOOLEAN,
   precommitted : BOOLEAN,
   checkpoint   : Hash \cup {NoHash},     \* m_checkpointProposal
   stable       : BOOLEAN]                \* m_stableCommitted

EmptyCache ==
  [prePrepare   |-> NoProposal,
   precommit    |-> NoProposal,
   prepares     |-> {},
   commits      |-> {},
   submitted    |-> FALSE,
   precommitted |-> FALSE,
   checkpoint   |-> NoHash,
   stable       |-> FALSE]

-----------------------------------------------------------------------------
(* Checks on a received pre-prepare, prepare or commit message m. *)

existPrePrepare(c, m) ==
  /\ c.prePrepare # NoProposal
  /\ m.hash = c.prePrepare.hash
  /\ c.prePrepare.view >= m.view

conflictWithProcessedReq(c, v, m) ==
  \/ m.view < v
  \/ /\ c.prePrepare # NoProposal
     /\ \/ m.view < c.prePrepare.view
        \/ m.view = c.prePrepare.view /\ m.hash # c.prePrepare.hash

\* a mutant of conflictWithPrecommitReq: a newer view overrides the lock
LockUntilNewerView(c, i, progressed, m) ==
  /\ c.precommit # NoProposal
  /\ i >= progressed
  /\ m.view <= c.precommit.view
  /\ m.hash # c.precommit.hash

(***************************************************************************)
(* The lock: a node that has precommitted a proposal refuses every other   *)
(* proposal for the block number, whatever its view, until the number is   *)
(* committed (progressed is m_config->progressedIndex()).                  *)
(***************************************************************************)
conflictWithPrecommitReq(c, i, progressed, m) ==
  /\ c.precommit # NoProposal
  /\ i >= progressed
  /\ m.hash # c.precommit.hash

-----------------------------------------------------------------------------
(* Vote collection: per hash and sender, first come first kept, whatever   *)
(* the view; the recorded weight of a hash is the weight of its senders.   *)

addCache(votes, vote) ==
  IF \E u \in votes : u.from = vote.from /\ u.hash = vote.hash
  THEN votes
  ELSE votes \cup {vote}

Voters(votes, h) == {n \in Node : \E u \in votes : u.from = n /\ u.hash = h}

collectEnoughQuorum(votes, h) == IsQuorum(Voters(votes, h))

addPrePrepareCache(c, p) ==
  IF \/ c.stable
     \/ /\ c.checkpoint # NoHash
        /\ c.prePrepare # NoProposal
        /\ p.hash # c.prePrepare.hash
  THEN c
  ELSE [c EXCEPT !.prePrepare = p]

addPrepareCache(c, vote) == [c EXCEPT !.prepares = addCache(@, vote)]

addCommitCache(c, vote) == [c EXCEPT !.commits = addCache(@, vote)]

\* checkPrePrepareProposalStatus
PrePreparedIn(c, v) == c.prePrepare # NoProposal /\ c.prePrepare.view = v

-----------------------------------------------------------------------------
(* checkAndPreCommit and checkAndCommit: the condition under which the     *)
(* method acts, and the cache it leaves.                                   *)

CanPreCommit(c, v) ==
  /\ ~c.precommitted
  /\ c.precommit # NoProposal => c.precommit.view < c.prePrepare.view
  /\ PrePreparedIn(c, v)
  /\ collectEnoughQuorum(c.prepares, c.prePrepare.hash)

\* a mutant of CanCommit: it counts the prepare votes
CommitOnPrepares(c, v) ==
  /\ ~c.submitted
  /\ c.precommit # NoProposal
  /\ PrePreparedIn(c, v)
  /\ collectEnoughQuorum(c.prepares, c.prePrepare.hash)

CanCommit(c, v) ==
  /\ ~c.submitted
  /\ c.precommit # NoProposal
  /\ PrePreparedIn(c, v)
  /\ collectEnoughQuorum(c.commits, c.prePrepare.hash)

checkAndCommit(c, v) ==
  IF CanCommit(c, v) THEN [c EXCEPT !.submitted = TRUE] ELSE c

\* intoPrecommit and the node's own commit vote.  from stays the sender in the
\* encoded header, which populateWithoutProposal decodes for the view changes:
\* setGeneratedFrom does not encode the header again.
intoPrecommit(c, n, v) ==
  [c EXCEPT !.precommit    = c.prePrepare,
            !.commits      = addCache(@, [from |-> n, hash |-> c.prePrepare.hash,
                                          view |-> v]),
            !.precommitted = TRUE]

checkAndPreCommit(c, n, v) ==
  IF CanPreCommit(c, v) THEN checkAndCommit(intoPrecommit(c, n, v), v) ELSE c

(***************************************************************************)
(* resetCache, on reaching view v: the votes of older views are dropped;   *)
(* the pre-prepare and the lock stay.                                      *)
(***************************************************************************)
resetCache(c, v) ==
  [c EXCEPT !.submitted    = FALSE,
            !.precommitted = FALSE,
            !.prepares     = {u \in @ : u.view >= v},
            !.commits      = {u \in @ : u.view >= v}]

\* a mutant of setCheckPointProposal: an expired result is kept
KeepExpiredResult(c, i, committed, h) == [c EXCEPT !.checkpoint = h]

\* the result of number i; it is expired when the number has been committed meanwhile
setCheckPointProposal(c, i, committed, h) ==
  IF i <= committed THEN c ELSE [c EXCEPT !.checkpoint = h]

=============================================================================

------------------------- MODULE PBFTPipelineProofs -------------------------
(***************************************************************************)
(* The second stage of a node, for every list of nodes, every number of    *)
(* blocks and every limit on faults: type correctness, the safety          *)
(* properties of PBFTPipeline, and the refinement of PBFTStages.           *)
(***************************************************************************)
EXTENDS PBFTStages, PBFTQuorumProofs

\* Max is the greatest element of a non-empty set of block numbers.
LEMMA MaxIn ==
  ASSUME NEW S \in SUBSET (0 .. MaxIndex), S # {}
  PROVE  Max(S) \in S /\ \A y \in S : Max(S) >= y
<1> DEFINE T == {x \in Nat : MaxIndex - x \in S}
<1>1. T \in SUBSET Nat /\ T # {}
  <2>1. PICK y \in S : TRUE
    OBVIOUS
  <2>2. MaxIndex - y \in Nat /\ MaxIndex - (MaxIndex - y) = y
    BY PipelineAssumption
  <2> QED BY <2>2
<1>2. PICK x \in T : \A y \in T : x <= y
  <2> HIDE DEF T
  <2> QED BY <1>1, NatLowest
<1>3. \A y \in S : MaxIndex - x >= y
  <2> SUFFICES ASSUME NEW y \in S PROVE MaxIndex - x >= y
    OBVIOUS
  <2>2. MaxIndex - y \in Nat /\ MaxIndex - (MaxIndex - y) = y
    BY PipelineAssumption
  <2>3. MaxIndex - y \in T
    BY <2>2
  <2>4. x <= MaxIndex - y
    BY <1>2, <2>3
  <2> QED BY <2>4, PipelineAssumption
<1>4. \E k \in S : \A y \in S : k >= y
  BY <1>3
<1> QED
  BY <1>4 DEF Max

\* The types of the registers, caches and queues of a state.
LEMMA Fields ==
  ASSUME NEW s \in State
  PROVE  /\ s.committed \in 0 .. MaxIndex /\ s.expected \in 1 .. MaxIndex + 1
         /\ s.low \in 1 .. MaxIndex + 1 /\ s.syncing \in 0 .. MaxIndex
         /\ s.timeout \in BOOLEAN
         /\ s.caches \in [Index -> Cache]
         /\ s.queue \in [Index -> Nat] /\ s.running \in [Index -> Nat]
         /\ s.stableQueue \in [Index -> Nat] /\ s.committing \in [Index -> Nat]
         /\ s.executing \in SUBSET Index /\ s.listed \in SUBSET Index
         /\ s.requests \in SUBSET Index /\ s.loading \in SUBSET Index
         /\ s.notified \in SUBSET Index /\ s.stored \in SUBSET Index
         /\ s.results \in Seq(Result)
         /\ s.maxMem \in 0 .. MaxIndex /\ s.maxKey \in 0 .. MaxIndex
  BY DEF State, Count

\* The flags and the votes of a cache.
LEMMA CacheFields ==
  ASSUME NEW s \in State, NEW i \in Index
  PROVE  /\ s.caches[i] \in Cache
         /\ s.caches[i].checkpoint \in BOOLEAN /\ s.caches[i].stable \in BOOLEAN
         /\ s.caches[i].votes \in SUBSET Node
  BY Fields DEF Cache

\* The numbers between the ledger and the bound.
LEMMA IndexRange ==
  /\ MaxIndex \in Nat /\ 0 \in 0 .. MaxIndex
  /\ \A i : i \in Index <=> i \in Int /\ 1 <= i /\ i <= MaxIndex
  BY PipelineAssumption DEF Index

\* The ledger is as high as the node's last block and every accepted block.
LEMMA LedgerIn ==
  ASSUME NEW s \in State
  PROVE  /\ Ledger(s) \in 0 .. MaxIndex
         /\ Ledger(s) \in s.notified \cup {s.committed}
         /\ Ledger(s) >= s.committed
         /\ \A k \in s.notified : Ledger(s) >= k
<1> DEFINE S == s.notified \cup {s.committed}
<1>1. S \in SUBSET (0 .. MaxIndex) /\ S # {}
  <2>1. s.notified \in SUBSET Index /\ s.committed \in 0 .. MaxIndex
    BY Fields
  <2>2. \A i \in Index : i \in 0 .. MaxIndex
    BY IndexRange
  <2> QED BY <2>1, <2>2
<1>2. Max(S) \in S /\ \A y \in S : Max(S) >= y
  <2> HIDE DEF S
  <2> QED BY <1>1, MaxIn
<1> QED BY <1>1, <1>2 DEF Ledger

-----------------------------------------------------------------------------
(* The operators: what each one may change of what the properties see *)

\* the registers that no handler of the queues below writes
SameRegisters(s, t) ==
  /\ t.committed = s.committed /\ t.results = s.results
  /\ t.notified = s.notified /\ t.maxMem = s.maxMem /\ t.stored = s.stored

\* the caches agree on results, stability and votes
SameCaches(s, t) ==
  \A i \in Index : /\ t.caches[i].checkpoint = s.caches[i].checkpoint
                   /\ t.caches[i].stable = s.caches[i].stable
                   /\ t.caches[i].votes = s.caches[i].votes

SameStable(s, t) == t.stableQueue = s.stableQueue /\ t.committing = s.committing

\* the execution of expectedCheckPoint begins
Begins(s, t) ==
  /\ s.expected \in Index \ s.executing
  /\ LastApplied(s)
  /\ t.running = [s.running EXCEPT ![s.expected] = @ + 1]
  /\ t.executing = s.executing \cup {s.expected}

\* at most one execution begins, nothing else happens
Started(s, t) ==
  /\ SameRegisters(s, t) /\ t.expected = s.expected
  /\ t.caches = s.caches /\ SameStable(s, t)
  /\ \/ t.running = s.running /\ t.executing = s.executing
     \/ Begins(s, t)

\* tryToApplyCommitQueue executes the expected proposal or nothing.
LEMMA ApplyQueue ==
  ASSUME NEW s \in State
  PROVE  /\ tryToApplyCommitQueue(s) \in State
         /\ Started(s, tryToApplyCommitQueue(s))
<1> DEFINE t == tryToApplyCommitQueue(s)
           valid == [i \in Index |-> IF i < s.expected THEN 0 ELSE s.queue[i]]
<1>1. valid \in [Index -> Nat]
  BY Fields
<1>2. CASE CanApply(s)
  <2>1. s.expected \in Index /\ s.queue[s.expected] > 0 /\ valid[s.expected] = s.queue[s.expected]
    BY <1>2, Fields DEF CanApply
  <2>2. [valid EXCEPT ![s.expected] = @ - 1] \in [Index -> Nat]
    <3>1. valid[s.expected] - 1 \in Nat
      BY <2>1, Fields
    <3> HIDE DEF valid
    <3> QED BY <1>1, <3>1
  <2>3. t = [s EXCEPT !.queue = [valid EXCEPT ![s.expected] = @ - 1],
                      !.executing = @ \cup {s.expected}, !.running[s.expected] = @ + 1]
    BY <1>2 DEF tryToApplyCommitQueue
  <2> HIDE DEF t, valid
  <2>4. t \in State
    <3>1. [s.running EXCEPT ![s.expected] = @ + 1] \in [Index -> Nat]
      BY <2>1, Fields
    <3>2. s.executing \cup {s.expected} \in SUBSET Index
      BY <2>1, Fields
    <3> QED BY <2>2, <2>3, <3>1, <3>2 DEF State, Count
  <2>5. SameRegisters(s, t) /\ t.expected = s.expected /\ t.caches = s.caches /\ SameStable(s, t)
    BY <2>3 DEF State, SameRegisters, SameStable
  <2>6. Begins(s, t)
    BY <1>2, <2>1, <2>3 DEF State, Begins, CanApply
  <2> QED BY <2>4, <2>5, <2>6 DEF Started, t
<1>3. CASE ~CanApply(s)
  <2>1. t = [s EXCEPT !.queue = valid]
    BY <1>3 DEF tryToApplyCommitQueue
  <2> HIDE DEF t, valid
  <2> QED BY <1>1, <2>1 DEF State, Count, Started, SameRegisters, SameStable, t
<1> QED BY <1>2, <1>3

\* Pushing a proposal executes the expected one or nothing.
LEMMA UpdateQueue ==
  ASSUME NEW s \in State, NEW i \in Index
  PROVE  /\ updateCommitQueue(s, i) \in State
         /\ Started(s, updateCommitQueue(s, i))
<1> DEFINE r == [s EXCEPT !.queue[i] = @ + 1, !.listed = @ \cup {i}]
<1>1. CASE i \in s.executing
  BY <1>1 DEF updateCommitQueue, Started, SameRegisters, SameStable
<1>2. CASE i \notin s.executing
  <2>1. r \in State
    <3>1. [s.queue EXCEPT ![i] = @ + 1] \in [Index -> Nat]
      BY Fields
    <3>2. s.listed \cup {i} \in SUBSET Index
      BY Fields
    <3> QED BY <3>1, <3>2 DEF State, Count
  <2>2. /\ SameRegisters(s, r) /\ r.expected = s.expected /\ r.caches = s.caches
        /\ SameStable(s, r) /\ r.running = s.running /\ r.executing = s.executing
    BY DEF State, SameRegisters, SameStable
  <2>3. updateCommitQueue(s, i) = tryToApplyCommitQueue(r)
    BY <1>2 DEF updateCommitQueue
  <2> HIDE DEF r
  <2>4. tryToApplyCommitQueue(r) \in State /\ Started(r, tryToApplyCommitQueue(r))
    BY <2>1, ApplyQueue
  <2>5. Started(s, tryToApplyCommitQueue(r))
    BY <2>2, <2>4 DEF Started, SameRegisters, SameStable, Begins, LastApplied
  <2> QED BY <2>3, <2>4, <2>5
<1> QED BY <1>1, <1>2

\* setExpectedCheckPoint and eraseExecutedProposal write one register each.
LEMMA SetExpected ==
  ASSUME NEW s \in State, NEW i \in 1 .. MaxIndex + 1
  PROVE  LET t == setExpectedCheckPoint(s, i) IN
         /\ t \in State /\ t.expected > s.committed /\ t.expected >= i
         /\ t.expected = s.committed + 1 \/ t.expected = i
         /\ SameRegisters(s, t) /\ t.caches = s.caches /\ SameStable(s, t)
         /\ t.running = s.running /\ t.executing = s.executing
<1>1. /\ Larger(s.committed + 1, i) \in 1 .. MaxIndex + 1
      /\ Larger(s.committed + 1, i) > s.committed /\ Larger(s.committed + 1, i) >= i
      /\ Larger(s.committed + 1, i) = s.committed + 1 \/ Larger(s.committed + 1, i) = i
  BY Fields, IndexRange DEF Larger
<1> DEFINE t == setExpectedCheckPoint(s, i)
<1>2. t = [s EXCEPT !.expected = Larger(s.committed + 1, i)]
  BY DEF setExpectedCheckPoint
<1> HIDE DEF t
<1>3. t \in State /\ t.expected = Larger(s.committed + 1, i)
  BY <1>1, <1>2 DEF State
<1>4. /\ SameRegisters(s, t) /\ t.caches = s.caches /\ SameStable(s, t)
      /\ t.running = s.running /\ t.executing = s.executing
  BY <1>2 DEF State, SameRegisters, SameStable
<1> QED BY <1>1, <1>3, <1>4 DEF t

\* Erasing a mark changes nothing else.
LEMMA EraseExecuted ==
  ASSUME NEW s \in State, NEW i \in Index
  PROVE  LET t == eraseExecutedProposal(s, i) IN
         /\ t \in State /\ t.executing = s.executing \ {i}
         /\ SameRegisters(s, t) /\ t.expected = s.expected /\ t.caches = s.caches
         /\ SameStable(s, t) /\ t.running = s.running
  BY DEF eraseExecutedProposal, State, SameRegisters, SameStable

\* stable results move on to their commit: none is lost, only the next number
\* is submitted
Submitted(s, t) ==
  \A i \in Index :
    /\ t.committing[i] > 0 => s.committing[i] > 0 \/ (i = s.committed + 1 /\ s.stableQueue[i] > 0)
    /\ t.stableQueue[i] > 0 => s.stableQueue[i] > 0
    /\ s.committing[i] > 0 => t.committing[i] > 0
    /\ i = s.committed + 1 /\ s.stableQueue[i] > 0 => t.committing[i] > 0
    /\ i > s.committed + 1 /\ s.stableQueue[i] > 0 => t.stableQueue[i] > 0

\* tryToCommitStableCheckPoint submits the next number or nothing.
LEMMA CommitStable ==
  ASSUME NEW s \in State
  PROVE  LET t == tryToCommitStableCheckPoint(s) IN
         /\ t \in State /\ Submitted(s, t)
         /\ SameRegisters(s, t) /\ t.expected = s.expected /\ t.caches = s.caches
         /\ t.running = s.running /\ t.executing = s.executing
<1> DEFINE t == tryToCommitStableCheckPoint(s)
           old == {i \in Index : i <= s.committed /\ s.stableQueue[i] > 0}
           valid == [i \in Index |-> IF i <= s.committed THEN 0 ELSE s.stableQueue[i]]
           k == s.committed + 1
<1>1. valid \in [Index -> Nat] /\ s.listed \ old \in SUBSET Index
  BY Fields
<1>2. CASE k \in Index /\ s.stableQueue[k] > 0
  <2> DEFINE q == [valid EXCEPT ![k] = @ - 1]
             c == [s.committing EXCEPT ![k] = @ + 1]
             d == s.listed \ (old \cup {k})
  <2>1. valid[k] - 1 \in Nat /\ s.committing[k] \in Nat
    BY <1>2, Fields
  <2>2. q \in [Index -> Nat] /\ c \in [Index -> Nat]
    <3> HIDE DEF valid, k
    <3> QED BY <1>1, <1>2, <2>1, Fields
  <2>3. t = [s EXCEPT !.stableQueue = q, !.committing = c, !.listed = d]
    BY <1>2 DEF tryToCommitStableCheckPoint
  <2>4. d \in SUBSET Index
    BY Fields
  <2>5. \A i \in Index :
          /\ c[i] = IF i = k THEN s.committing[i] + 1 ELSE s.committing[i]
          /\ q[i] = IF i = k THEN s.stableQueue[i] - 1
                    ELSE IF i <= s.committed THEN 0 ELSE s.stableQueue[i]
    BY <1>2, Fields
  <2> HIDE DEF t, q, c, d, valid, old
  <2>6. t \in State
    BY <2>2, <2>3, <2>4 DEF State, Count
  <2>7. /\ t.committing = c /\ t.stableQueue = q
        /\ SameRegisters(s, t) /\ t.expected = s.expected /\ t.caches = s.caches
        /\ t.running = s.running /\ t.executing = s.executing
    BY <2>3 DEF State, SameRegisters
  <2>8. Submitted(s, t)
    <3>1. \A i \in Index : i \in Int /\ s.committing[i] \in Nat /\ s.stableQueue[i] \in Nat
      BY Fields, IndexRange
    <3>2. s.committed \in Int
      BY Fields
    <3> QED BY <1>2, <2>5, <2>7, <3>1, <3>2 DEF Submitted
  <2> QED BY <2>6, <2>7, <2>8 DEF t
<1>3. CASE ~(k \in Index /\ s.stableQueue[k] > 0)
  <2>1. t = [s EXCEPT !.stableQueue = valid, !.listed = @ \ old]
    BY <1>3 DEF tryToCommitStableCheckPoint
  <2>2. \A i \in Index : valid[i] = IF i <= s.committed THEN 0 ELSE s.stableQueue[i]
    OBVIOUS
  <2> HIDE DEF t, valid, old
  <2>3. t \in State
    BY <1>1, <2>1 DEF State, Count
  <2>4. /\ t.committing = s.committing /\ t.stableQueue = valid
        /\ SameRegisters(s, t) /\ t.expected = s.expected /\ t.caches = s.caches
        /\ t.running = s.running /\ t.executing = s.executing
    BY <2>1 DEF State, SameRegisters
  <2>5. Submitted(s, t)
    <3>1. \A i \in Index : i \in Int /\ s.committing[i] \in Nat /\ s.stableQueue[i] \in Nat
      BY Fields, IndexRange
    <3>2. s.committed \in Int
      BY Fields
    <3> QED BY <1>3, <2>2, <2>4, <3>1, <3>2 DEF Submitted
  <2> QED BY <2>3, <2>4, <2>5 DEF t
<1> QED BY <1>2, <1>3

\* the numbers of S become stable and wait for their commit
Stabilised(s, t, S) ==
  \A i \in Index :
    /\ t.caches[i].checkpoint = s.caches[i].checkpoint
    /\ t.caches[i].votes = s.caches[i].votes
    /\ t.caches[i].stable <=> s.caches[i].stable \/ i \in S
    /\ t.committing[i] > 0
       => s.committing[i] > 0 \/ (i = s.committed + 1 /\ (s.stableQueue[i] > 0 \/ i \in S))
    /\ t.stableQueue[i] > 0 => s.stableQueue[i] > 0 \/ i \in S
    /\ s.committing[i] > 0 => t.committing[i] > 0
    /\ i > s.committed /\ (s.stableQueue[i] > 0 \/ i \in S)
       => t.stableQueue[i] > 0 \/ t.committing[i] > 0
    /\ i > s.committed + 1 /\ (s.stableQueue[i] > 0 \/ i \in S) => t.stableQueue[i] > 0

\* checkAndCommitStableCheckPoint makes stable what a quorum agrees on.
LEMMA CheckStable ==
  ASSUME NEW s \in State
  PROVE  LET t == checkAndCommitStableCheckPoint(s) IN
         /\ t \in State /\ Stabilised(s, t, NewlyStable(s))
         /\ SameRegisters(s, t) /\ t.expected = s.expected
         /\ t.running = s.running /\ t.executing = s.executing
<1> DEFINE t == checkAndCommitStableCheckPoint(s)
           S == NewlyStable(s)
           c == [i \in Index |-> IF i \in S THEN [s.caches[i] EXCEPT !.stable = TRUE]
                                 ELSE s.caches[i]]
           s1 == [s EXCEPT !.caches = c]
           S1 == {i \in S : i > s.committed}
           q == [i \in Index |-> IF i \in S1 THEN s.stableQueue[i] + 1 ELSE s.stableQueue[i]]
           s2 == [s1 EXCEPT !.stableQueue = q]
<1>1. /\ t = IF S1 = {} THEN s1 ELSE tryToCommitStableCheckPoint(s2)
  BY DEF checkAndCommitStableCheckPoint
<1>2. \A i \in Index :
        /\ s.caches[i] \in Cache /\ i \in Int
        /\ s.committing[i] \in Nat /\ s.stableQueue[i] \in Nat
  BY Fields, IndexRange
<1>3. s.committed \in Int
  BY Fields
<1>4. S \subseteq Index
  BY DEF NewlyStable
<1> HIDE DEF t, S
<1>5. c \in [Index -> Cache]
  <2>1. \A i \in Index : [s.caches[i] EXCEPT !.stable = TRUE] \in Cache
    BY <1>2 DEF Cache
  <2> QED BY <1>2, <2>1
<1>6. \A i \in Index : /\ c[i].checkpoint = s.caches[i].checkpoint
                       /\ c[i].votes = s.caches[i].votes
                       /\ c[i].stable <=> s.caches[i].stable \/ i \in S
  <2>1. \A i \in Index : LET d == [s.caches[i] EXCEPT !.stable = TRUE] IN
          d.checkpoint = s.caches[i].checkpoint /\ d.votes = s.caches[i].votes /\ d.stable
    BY <1>2 DEF Cache
  <2> QED BY <2>1
<1>7. q \in [Index -> Nat] /\ \A i \in Index : q[i] > 0 <=> s.stableQueue[i] > 0 \/ i \in S1
  BY <1>2
<1> HIDE DEF c
<1>8. /\ s1 \in State /\ s1.caches = c /\ SameStable(s, s1) /\ SameRegisters(s, s1)
      /\ s1.expected = s.expected /\ s1.running = s.running /\ s1.executing = s.executing
  BY <1>5 DEF State, SameStable, SameRegisters
<1> HIDE DEF q, s1
<1>9. /\ s2 \in State /\ s2.caches = c /\ SameRegisters(s, s2)
      /\ s2.stableQueue = q /\ s2.committing = s.committing
      /\ s2.expected = s.expected /\ s2.running = s.running /\ s2.executing = s.executing
  BY <1>7, <1>8 DEF State, Count, SameStable, SameRegisters
<1> HIDE DEF s2
<1>10. CASE S1 = {}
  <2>1. \A i \in S : ~(i > s.committed)
    BY <1>10
  <2> HIDE DEF S1
  <2>2. t = s1
    BY <1>1, <1>10
  <2>3. t.caches = c /\ t.stableQueue = s.stableQueue /\ t.committing = s.committing
    BY <1>8, <2>2 DEF SameStable
  <2>4. Stabilised(s, t, S)
    BY <1>2, <1>3, <1>6, <2>1, <2>3 DEF Stabilised
  <2> QED BY <1>8, <2>2, <2>4 DEF t, S
<1>11. CASE S1 # {}
  <2>1. t = tryToCommitStableCheckPoint(s2)
    BY <1>1, <1>11
  <2>2. /\ t \in State /\ Submitted(s2, t)
        /\ SameRegisters(s2, t) /\ t.expected = s2.expected /\ t.caches = s2.caches
        /\ t.running = s2.running /\ t.executing = s2.executing
    BY <1>9, <2>1, CommitStable
  <2>3. s2.committed = s.committed /\ t.caches = c
    BY <1>9, <2>2 DEF SameRegisters
  <2>4. \A i \in Index : s2.stableQueue[i] > 0 <=> s.stableQueue[i] > 0 \/ (i \in S /\ i > s.committed)
    BY <1>7, <1>9
  <2>5. Stabilised(s, t, S)
    <3> SUFFICES ASSUME NEW i \in Index
                 PROVE  Stabilised(s, t, S)!(i)
      BY DEF Stabilised
    <3>1. /\ t.committing[i] > 0
             => s2.committing[i] > 0 \/ (i = s2.committed + 1 /\ s2.stableQueue[i] > 0)
          /\ t.stableQueue[i] > 0 => s2.stableQueue[i] > 0
          /\ s2.committing[i] > 0 => t.committing[i] > 0
          /\ i = s2.committed + 1 /\ s2.stableQueue[i] > 0 => t.committing[i] > 0
          /\ i > s2.committed + 1 /\ s2.stableQueue[i] > 0 => t.stableQueue[i] > 0
      BY <2>2 DEF Submitted
    <3>2. /\ t.caches[i].checkpoint = s.caches[i].checkpoint
          /\ t.caches[i].votes = s.caches[i].votes
          /\ t.caches[i].stable <=> s.caches[i].stable \/ i \in S
      BY <1>6, <2>3
    <3>3. s2.committing[i] = s.committing[i] /\ i \in Int
      BY <1>2, <1>9
    <3> QED BY <1>3, <2>3, <2>4, <3>1, <3>2, <3>3
  <2> QED BY <1>9, <2>2, <2>5 DEF SameRegisters, t, S
<1> QED BY <1>10, <1>11

\* A CheckPoint message of a node is added to the cache of its number.
LEMMA AddCheckPoint ==
  ASSUME NEW s \in State, NEW i \in Index, NEW p \in Node
  PROVE  LET t == addCheckPointMsg(s, i, p) IN
         /\ t \in State
         /\ \A j \in Index : /\ t.caches[j].checkpoint = s.caches[j].checkpoint
                             /\ t.caches[j].stable = s.caches[j].stable
                             /\ t.caches[j].votes = IF j = i THEN s.caches[j].votes \cup {p}
                                                    ELSE s.caches[j].votes
         /\ SameRegisters(s, t) /\ t.expected = s.expected
         /\ SameStable(s, t) /\ t.running = s.running /\ t.executing = s.executing
<1> DEFINE t == addCheckPointMsg(s, i, p)
           d == [s.caches[i] EXCEPT !.votes = @ \cup {p}]
           c == [s.caches EXCEPT ![i] = d]
<1>1. t = [s EXCEPT !.caches = c]
  BY Fields DEF addCheckPointMsg, State
<1>2. /\ d \in Cache /\ d.checkpoint = s.caches[i].checkpoint
      /\ d.stable = s.caches[i].stable /\ d.votes = s.caches[i].votes \cup {p}
  BY CacheFields DEF Cache
<1> HIDE DEF d
<1>3. c \in [Index -> Cache] /\ \A j \in Index : c[j] = IF j = i THEN d ELSE s.caches[j]
  BY <1>2, Fields
<1> HIDE DEF c, t
<1>4. /\ t \in State /\ t.caches = c /\ SameRegisters(s, t) /\ t.expected = s.expected
      /\ SameStable(s, t) /\ t.running = s.running /\ t.executing = s.executing
  BY <1>1, <1>3 DEF State, SameRegisters, SameStable
<1> QED BY <1>2, <1>3, <1>4 DEF t

\* The result of a number above the ledger is noted.
LEMMA SetCheckPoint ==
  ASSUME NEW s \in State, NEW i \in Index
  PROVE  LET t == setCheckPointProposal(s, i) IN
         /\ t \in State
         /\ \A j \in Index : /\ t.caches[j].checkpoint
                                <=> s.caches[j].checkpoint \/ (j = i /\ i > s.committed)
                             /\ t.caches[j].stable = s.caches[j].stable
                             /\ t.caches[j].votes = s.caches[j].votes
         /\ SameRegisters(s, t) /\ t.expected = s.expected
         /\ SameStable(s, t) /\ t.running = s.running /\ t.executing = s.executing
<1> DEFINE t == setCheckPointProposal(s, i)
           d == [s.caches[i] EXCEPT !.checkpoint = TRUE]
           c == [s.caches EXCEPT ![i] = d]
<1>0. i \in Int /\ s.committed \in Int
  BY Fields, IndexRange
<1>1. CASE i <= s.committed
  <2>1. t = s
    BY <1>1 DEF setCheckPointProposal
  <2>2. \A j \in Index : ~(j = i /\ i > s.committed)
    BY <1>0, <1>1
  <2> HIDE DEF t
  <2> QED BY <2>1, <2>2 DEF SameRegisters, SameStable, t
<1>2. CASE ~(i <= s.committed)
  <2>1. t = [s EXCEPT !.caches = c]
    BY <1>2, Fields DEF setCheckPointProposal, State
  <2>2. /\ d \in Cache /\ d.checkpoint
        /\ d.stable = s.caches[i].stable /\ d.votes = s.caches[i].votes
    BY CacheFields DEF Cache
  <2> HIDE DEF d
  <2>3. c \in [Index -> Cache] /\ \A j \in Index : c[j] = IF j = i THEN d ELSE s.caches[j]
    BY <2>2, Fields
  <2> HIDE DEF c, t
  <2>4. /\ t \in State /\ t.caches = c /\ SameRegisters(s, t) /\ t.expected = s.expected
        /\ SameStable(s, t) /\ t.running = s.running /\ t.executing = s.executing
    BY <2>1, <2>3 DEF State, SameRegisters, SameStable
  <2>5. i > s.committed
    BY <1>0, <1>2
  <2> QED BY <2>2, <2>3, <2>4, <2>5 DEF t
<1> QED BY <1>1, <1>2

\* the expected number after the registers are reset to block k
ResetExpected(s, k) == IF k <= s.committed THEN s.expected ELSE Larger(s.expected, k + 1)

\* resetConfig moves the registers on to a later block.
LEMMA ResetConfig ==
  ASSUME NEW s \in State, NEW k \in Index
  PROVE  LET t == resetConfig(s, k) IN
         /\ t \in State /\ t.committed = Larger(s.committed, k)
         /\ t.expected = ResetExpected(s, k)
         /\ t.results = s.results /\ t.notified = s.notified
         /\ t.maxMem = s.maxMem /\ t.stored = s.stored
         /\ t.caches = s.caches /\ SameStable(s, t)
         /\ t.running = s.running /\ t.executing = s.executing
<1>0. /\ k \in Int /\ s.committed \in Int /\ k \in 0 .. MaxIndex
      /\ s.expected \in 1 .. MaxIndex + 1 /\ s.low \in 1 .. MaxIndex + 1
  BY Fields, IndexRange
<1>1. CASE k <= s.committed
  <2>1. resetConfig(s, k) = s
    BY <1>1 DEF resetConfig
  <2>2. Larger(s.committed, k) = s.committed /\ ResetExpected(s, k) = s.expected
    BY <1>0, <1>1 DEF Larger, ResetExpected
  <2> QED BY <2>1, <2>2 DEF SameStable
<1>2. CASE ~(k <= s.committed)
  <2> DEFINE t == resetConfig(s, k)
             e == Larger(s.expected, k + 1)
             w == Larger(s.low, k + 1)
             b == s.syncing > k
  <2>1. t = [s EXCEPT !.committed = k, !.expected = e, !.low = w, !.timeout = b]
    BY <1>2 DEF resetConfig
  <2>2. e \in 1 .. MaxIndex + 1 /\ w \in 1 .. MaxIndex + 1 /\ b \in BOOLEAN
    BY <1>0, IndexRange DEF Larger
  <2>3. Larger(s.committed, k) = k /\ ResetExpected(s, k) = e
    BY <1>0, <1>2 DEF Larger, ResetExpected
  <2> HIDE DEF t, e, w, b
  <2>4. t \in State /\ t.committed = k /\ t.expected = e
    BY <1>0, <2>1, <2>2 DEF State
  <2>5. /\ t.results = s.results /\ t.notified = s.notified
        /\ t.maxMem = s.maxMem /\ t.stored = s.stored
        /\ t.caches = s.caches /\ SameStable(s, t)
        /\ t.running = s.running /\ t.executing = s.executing
    BY <2>1 DEF State, SameStable
  <2> QED BY <2>3, <2>4, <2>5 DEF t
<1> QED BY <1>1, <1>2

\* The empty cache holds no result and no vote.
LEMMA EmptyCacheType ==
  /\ EmptyCache \in Cache /\ EmptyCache.checkpoint = FALSE
  /\ EmptyCache.stable = FALSE /\ EmptyCache.votes = {}
  BY DEF EmptyCache, Cache

\* removeConsensusedCache drops the caches up to k and the stable ones.
LEMMA RemoveConsensused ==
  ASSUME NEW s \in State, NEW k \in Index
  PROVE  LET t == removeConsensusedCache(s, k) IN
         /\ t \in State
         /\ \A i \in Index :
              /\ t.caches[i].checkpoint <=> s.caches[i].checkpoint /\ ~s.caches[i].stable /\ i > k
              /\ ~t.caches[i].stable
              /\ t.caches[i].votes \subseteq s.caches[i].votes
         /\ SameRegisters(s, t) /\ t.expected = s.expected
         /\ SameStable(s, t) /\ t.running = s.running /\ t.executing = s.executing
<1> DEFINE t == removeConsensusedCache(s, k)
           c == [i \in Index |-> IF i <= k \/ s.caches[i].stable THEN EmptyCache ELSE s.caches[i]]
<1>1. t = [s EXCEPT !.caches = c]
  BY DEF removeConsensusedCache
<1>2. c \in [Index -> Cache]
  BY Fields, EmptyCacheType
<1>3. \A i \in Index :
        /\ c[i].checkpoint <=> s.caches[i].checkpoint /\ ~s.caches[i].stable /\ i > k
        /\ ~c[i].stable
        /\ c[i].votes \subseteq s.caches[i].votes
  <2>1. \A i \in Index : i \in Int
    BY IndexRange
  <2> QED BY <2>1, EmptyCacheType
<1> HIDE DEF c, t
<1>4. /\ t \in State /\ t.caches = c /\ SameRegisters(s, t) /\ t.expected = s.expected
      /\ SameStable(s, t) /\ t.running = s.running /\ t.executing = s.executing
  BY <1>1, <1>2 DEF State, SameRegisters, SameStable
<1> QED BY <1>3, <1>4 DEF t

\* removeFutureProposals drops every result and stable number.
LEMMA RemoveFuture ==
  ASSUME NEW s \in State, s.committed < MaxIndex + 1
  PROVE  LET t == removeFutureProposals(s) IN
         /\ t \in State /\ t.expected = s.committed + 1
         /\ \A i \in Index :
              /\ ~t.caches[i].checkpoint
              /\ t.caches[i].stable => s.caches[i].stable
              /\ t.caches[i].votes \subseteq s.caches[i].votes
              /\ t.stableQueue[i] = 0
         /\ t.committed = s.committed /\ t.results = s.results
         /\ t.notified = s.notified /\ t.maxMem = s.maxMem /\ t.stored \subseteq s.stored
         /\ t.committing = s.committing /\ t.running = s.running /\ t.executing = s.executing
<1> DEFINE t == removeFutureProposals(s)
           executed == {i \in Index : s.caches[i].checkpoint}
           c == [i \in Index |-> IF i \in executed THEN EmptyCache ELSE s.caches[i]]
           d == s.stored \ executed
<1>1. t = [s EXCEPT !.expected = s.committed + 1, !.queue = Zero, !.listed = {},
                    !.stableQueue = Zero, !.stored = d, !.caches = c]
  BY DEF removeFutureProposals
<1>2. /\ c \in [Index -> Cache] /\ d \in SUBSET Index /\ d \subseteq s.stored
      /\ s.committed + 1 \in 1 .. MaxIndex + 1 /\ Zero \in [Index -> Nat]
  BY Fields, EmptyCacheType, IndexRange DEF Zero
<1>3. \A i \in Index : /\ ~c[i].checkpoint
                       /\ c[i].stable => s.caches[i].stable
                       /\ c[i].votes \subseteq s.caches[i].votes
                       /\ Zero[i] = 0
  BY EmptyCacheType DEF Zero
<1> HIDE DEF c, t, d
<1>4. /\ t \in State /\ t.caches = c /\ t.expected = s.committed + 1 /\ t.stored = d
      /\ t.stableQueue = Zero
  BY <1>1, <1>2 DEF State, Count
<1>5. /\ t.committed = s.committed /\ t.results = s.results
      /\ t.notified = s.notified /\ t.maxMem = s.maxMem
      /\ t.committing = s.committing /\ t.running = s.running /\ t.executing = s.executing
  BY <1>1 DEF State
<1> QED BY <1>2, <1>3, <1>4, <1>5 DEF t

\* a new last block: what becomes of results, executions and queues
Finalised(s, t, k, synced) ==
  /\ t.committed = Larger(s.committed, k)
  /\ t.expected = IF synced THEN t.committed + 1 ELSE ResetExpected(s, k)
  /\ t.results = s.results /\ t.notified = s.notified /\ t.maxMem = s.maxMem
  /\ t.stored \subseteq s.stored /\ (~synced => t.stored = s.stored)
  /\ \/ t.running = s.running /\ t.executing = s.executing
     \/ LET e == ResetExpected(s, k) IN
        /\ e \in Index \ s.executing
        /\ e - 1 = t.committed \/ (e - 1 \in Index /\ s.caches[e - 1].checkpoint)
        /\ t.running = [s.running EXCEPT ![e] = @ + 1]
        /\ t.executing = s.executing \cup {e}
  /\ \A i \in Index :
       /\ t.caches[i].checkpoint
          <=> ~synced /\ s.caches[i].checkpoint /\ ~s.caches[i].stable /\ i > k
       /\ ~t.caches[i].stable
       /\ t.caches[i].votes \subseteq s.caches[i].votes
       /\ t.committing[i] > 0
          => s.committing[i] > 0 \/ (i = t.committed + 1 /\ s.stableQueue[i] > 0)
       /\ t.stableQueue[i] > 0 => s.stableQueue[i] > 0
       /\ s.committing[i] > 0 => t.committing[i] > 0
       /\ ~synced /\ i = t.committed + 1 /\ s.stableQueue[i] > 0 => t.committing[i] > 0
       /\ ~synced /\ i > t.committed + 1 /\ s.stableQueue[i] > 0 => t.stableQueue[i] > 0

\* finalizeConsensus moves on to block k and, when the block was synchronised,
\* forgets the results of the node.
LEMMA FinalizeConsensus ==
  ASSUME NEW s \in State, NEW k \in Index, NEW synced \in BOOLEAN
  PROVE  LET t == finalizeConsensus(s, k, synced) IN
         t \in State /\ Finalised(s, t, k, synced)
<1> DEFINE a == resetConfig(s, k)
           b == tryToApplyCommitQueue(a)
           c == removeConsensusedCache(b, k)
           d == tryToCommitStableCheckPoint(c)
           t == IF synced THEN removeFutureProposals(d) ELSE d
<1>0. finalizeConsensus(s, k, synced) = t
  BY DEF finalizeConsensus
<1>1. /\ a \in State /\ a.committed = Larger(s.committed, k)
      /\ a.expected = ResetExpected(s, k)
      /\ a.results = s.results /\ a.notified = s.notified
      /\ a.maxMem = s.maxMem /\ a.stored = s.stored
      /\ a.caches = s.caches /\ SameStable(s, a)
      /\ a.running = s.running /\ a.executing = s.executing
  BY ResetConfig
<1> HIDE DEF a
<1>2. b \in State /\ Started(a, b)
  BY <1>1, ApplyQueue
<1> HIDE DEF b
<1>3. /\ c \in State
      /\ \A i \in Index :
           /\ c.caches[i].checkpoint <=> b.caches[i].checkpoint /\ ~b.caches[i].stable /\ i > k
           /\ ~c.caches[i].stable
           /\ c.caches[i].votes \subseteq b.caches[i].votes
      /\ SameRegisters(b, c) /\ c.expected = b.expected
      /\ SameStable(b, c) /\ c.running = b.running /\ c.executing = b.executing
  BY <1>2, RemoveConsensused
<1> HIDE DEF c
<1>4. /\ d \in State /\ Submitted(c, d)
      /\ SameRegisters(c, d) /\ d.expected = c.expected /\ d.caches = c.caches
      /\ d.running = c.running /\ d.executing = c.executing
  BY <1>3, CommitStable
<1> HIDE DEF d
<1>5. /\ d.committed = Larger(s.committed, k) /\ d.expected = ResetExpected(s, k)
      /\ d.results = s.results /\ d.notified = s.notified
      /\ d.maxMem = s.maxMem /\ d.stored = s.stored
      /\ c.committed = d.committed
      /\ c.stableQueue = s.stableQueue /\ c.committing = s.committing
  BY <1>1, <1>2, <1>3, <1>4 DEF Started, SameRegisters, SameStable
<1>6. \/ d.running = s.running /\ d.executing = s.executing
      \/ LET e == ResetExpected(s, k) IN
         /\ e \in Index \ s.executing
         /\ e - 1 = d.committed \/ (e - 1 \in Index /\ s.caches[e - 1].checkpoint)
         /\ d.running = [s.running EXCEPT ![e] = @ + 1]
         /\ d.executing = s.executing \cup {e}
  <2>1. a.committed = d.committed
    BY <1>1, <1>5
  <2> QED BY <1>1, <1>2, <1>3, <1>4, <2>1 DEF Started, Begins, LastApplied
<1>7. \A i \in Index :
        /\ d.caches[i].checkpoint <=> s.caches[i].checkpoint /\ ~s.caches[i].stable /\ i > k
        /\ ~d.caches[i].stable
        /\ d.caches[i].votes \subseteq s.caches[i].votes
  BY <1>1, <1>2, <1>3, <1>4 DEF Started
<1>8. \A i \in Index :
        /\ d.committing[i] > 0
           => s.committing[i] > 0 \/ (i = d.committed + 1 /\ s.stableQueue[i] > 0)
        /\ d.stableQueue[i] > 0 => s.stableQueue[i] > 0
        /\ s.committing[i] > 0 => d.committing[i] > 0
        /\ i = d.committed + 1 /\ s.stableQueue[i] > 0 => d.committing[i] > 0
        /\ i > d.committed + 1 /\ s.stableQueue[i] > 0 => d.stableQueue[i] > 0
  BY <1>4, <1>5 DEF Submitted
<1>9. CASE ~synced
  BY <1>0, <1>4, <1>5, <1>6, <1>7, <1>8, <1>9 DEF Finalised
<1>10. CASE synced
  <2>1. d.committed < MaxIndex + 1
    BY <1>4, Fields, IndexRange
  <2>2. /\ t \in State /\ t.expected = d.committed + 1
        /\ \A i \in Index :
             /\ ~t.caches[i].checkpoint
             /\ t.caches[i].stable => d.caches[i].stable
             /\ t.caches[i].votes \subseteq d.caches[i].votes
             /\ t.stableQueue[i] = 0
        /\ t.committed = d.committed /\ t.results = d.results
        /\ t.notified = d.notified /\ t.maxMem = d.maxMem /\ t.stored \subseteq d.stored
        /\ t.committing = d.committing /\ t.running = d.running /\ t.executing = d.executing
    BY <1>4, <1>10, <2>1, RemoveFuture
  <2> HIDE DEF t
  <2>3. \A i \in Index :
        /\ ~t.caches[i].checkpoint /\ ~t.caches[i].stable
        /\ t.caches[i].votes \subseteq s.caches[i].votes
        /\ t.committing[i] > 0
           => s.committing[i] > 0 \/ (i = t.committed + 1 /\ s.stableQueue[i] > 0)
        /\ ~(t.stableQueue[i] > 0)
        /\ s.committing[i] > 0 => t.committing[i] > 0
    BY <1>7, <1>8, <2>2
  <2>4. Finalised(s, t, k, synced)
    BY <1>5, <1>6, <1>10, <2>2, <2>3 DEF Finalised
  <2> QED BY <1>0, <2>2, <2>4
<1> QED BY <1>9, <1>10

-----------------------------------------------------------------------------
(* The inductive invariant *)

\* a result of number i waits for the worker
Waits(s, i) == \E k \in 1 .. Len(s.results) : s.results[k].index = i

\* the worker has written i as the highest number, and not yet the proposal
Indexed(s, i) ==
  /\ Len(s.results) > 0
  /\ s.results[1].index = i /\ s.results[1].state = "indexed"

HasResult(s, i) == s.caches[i].checkpoint \/ s.stableQueue[i] > 0 \/ s.committing[i] > 0

\* Results are above the ledger, and a stable number is in its queue unless it
\* is the next one, which may have been submitted.
Shape(s) ==
  /\ s.expected > s.committed
  /\ \A i \in Index :
       /\ s.caches[i].checkpoint => i > s.committed
       /\ s.caches[i].stable => s.caches[i].checkpoint
       /\ s.caches[i].stable /\ i > s.committed + 1 => s.stableQueue[i] > 0
       /\ s.committing[i] > 0 => i <= s.committed + 1

\* What is in the caches and in the queues has been reported.
Voted(s, R) ==
  \A i \in Index :
    /\ s.caches[i].votes \subseteq R[i]
    /\ s.caches[i].checkpoint => Me \in R[i]
    /\ s.stableQueue[i] > 0 \/ s.committing[i] > 0 => Me \in R[i] /\ IsQuorum(R[i])

\* A number above the ledger is executed once, its mark lasts until its only
\* result is handled, and no result is a failure.
Once(s) ==
  /\ \A i \in Index :
       /\ s.running[i] <= 1
       /\ s.running[i] > 0 /\ i > s.committed => i \in s.executing /\ ~Waits(s, i)
  /\ \A k \in 1 .. Len(s.results) :
       /\ s.results[k].state # "failed"
       /\ s.results[k].index > s.committed => s.results[k].index \in s.executing
  /\ \A j, k \in 1 .. Len(s.results) :
       s.results[j].index = s.results[k].index /\ s.results[k].index > s.committed => j = k

\* Every number between the ledger and the highest one is stored, but for the
\* one that the worker is about to store, and an execution is at most one
\* number beyond.
Kept(s) ==
  /\ s.notified = {}
  /\ \A i \in Index :
       /\ s.caches[i].checkpoint => i \in s.stored /\ i <= s.maxMem
       /\ s.committed < i /\ i <= s.maxMem => i \in s.stored \/ Indexed(s, i)
       /\ s.running[i] > 0 \/ Waits(s, i) => i <= s.maxMem + 1 \/ i <= s.committed + 1
  /\ \A k \in 1 .. Len(s.results) :
       /\ k > 1 => s.results[k].state \in {"failed", "executed"}
       /\ s.results[k].state \in {"indexed", "stored"} => s.results[k].index <= s.maxMem
       /\ s.results[k].state = "stored" /\ s.results[k].index > s.committed
          => s.results[k].index \in s.stored

\* Below an execution, and below expectedCheckPoint, every number has a result,
\* and a stable number is never out of both queues.
Chain(s) ==
  /\ s.notified = {}
  /\ \A i \in Index : s.committed < i /\ i < s.expected => HasResult(s, i)
  /\ \A i, j \in Index :
       (s.running[i] > 0 \/ Waits(s, i)) /\ s.committed < j /\ j < i => HasResult(s, j)
  /\ \A i \in Index : s.caches[i].stable => s.stableQueue[i] > 0 \/ s.committing[i] > 0

\* a step keeps the parts that depend on which faults have happened
Keeps(s, t) == /\ Once(s) => Once(t)
               /\ Kept(s) => Kept(t)
               /\ Chain(s) => Chain(t)

PipelineInv ==
  /\ Shape(node) /\ Voted(node, reported)
  /\ faults["execute"] = 0 => Once(node)
  /\ faults["sync"] = 0 /\ faults["put"] = 0 => Kept(node)
  /\ faults["sync"] = 0 /\ faults["commit"] = 0 => Chain(node)

\* The numbers of a state are numbers.
LEMMA Numbers ==
  ASSUME NEW s \in State
  PROVE  /\ s.committed \in Int /\ s.expected \in Int /\ s.maxMem \in Int
         /\ Len(s.results) \in Nat
         /\ \A i \in Index : /\ i \in Int /\ s.running[i] \in Nat
                             /\ s.stableQueue[i] \in Nat /\ s.committing[i] \in Nat
         /\ \A k \in 1 .. Len(s.results) : s.results[k].index \in Index
<1>1. s.results \in Seq(Result)
  BY Fields
<1>2. Len(s.results) \in Nat /\ \A k \in 1 .. Len(s.results) : s.results[k] \in Result
  BY <1>1
<1>3. \A k \in 1 .. Len(s.results) : s.results[k].index \in Index
  BY <1>2 DEF Result
<1>4. /\ s.committed \in Int /\ s.expected \in Int /\ s.maxMem \in Int
      /\ \A i \in Index : /\ i \in Int /\ s.running[i] \in Nat
                          /\ s.stableQueue[i] \in Nat /\ s.committing[i] \in Nat
  BY Fields, IndexRange
<1> QED BY <1>2, <1>3, <1>4

\* A step that begins at most one execution and drops no mark above the ledger.
Quiet(s, t) ==
  /\ SameRegisters(s, t) /\ t.expected = s.expected
  /\ SameCaches(s, t) /\ SameStable(s, t)
  /\ \A i \in s.executing : i > s.committed => i \in t.executing
  /\ \/ t.running = s.running
     \/ /\ s.expected \in Index \ s.executing /\ s.expected \in t.executing
        /\ LastApplied(s)
        /\ t.running = [s.running EXCEPT ![s.expected] = @ + 1]

\* The invariant survives quiet steps.
LEMMA QuietKeeps ==
  ASSUME NEW s \in State, NEW t \in State, NEW R, Quiet(s, t), Shape(s), Voted(s, R)
  PROVE  Shape(t) /\ Voted(t, R) /\ Keeps(s, t)
<1>1. Shape(t) /\ Voted(t, R)
  BY DEF Quiet, SameRegisters, SameCaches, SameStable, Shape, Voted
<1>2. \A i \in Index : /\ Waits(t, i) <=> Waits(s, i)
                       /\ Indexed(t, i) <=> Indexed(s, i)
                       /\ HasResult(t, i) <=> HasResult(s, i)
  BY DEF Quiet, SameRegisters, SameCaches, SameStable, Waits, Indexed, HasResult
<1>3. \A i \in Index : \/ t.running[i] = s.running[i]
                       \/ /\ i = s.expected /\ i \notin s.executing /\ i \in t.executing
                          /\ LastApplied(s) /\ t.running[i] = s.running[i] + 1
  BY Fields DEF Quiet
<1>4. ASSUME Once(s) PROVE Once(t)
  <2>1. \A i \in Index : i \notin s.executing /\ i > s.committed => s.running[i] = 0 /\ ~Waits(s, i)
    <3> SUFFICES ASSUME NEW i \in Index, i \notin s.executing, i > s.committed
                 PROVE  s.running[i] = 0 /\ ~Waits(s, i)
      OBVIOUS
    <3>1. s.running[i] = 0
      BY <1>4, Numbers DEF Once
    <3>2. ~Waits(s, i)
      BY <1>4 DEF Once, Waits
    <3> QED BY <3>1, <3>2
  <2>2. \A i \in Index : /\ t.running[i] <= 1
                         /\ t.running[i] > 0 /\ i > t.committed => i \in t.executing /\ ~Waits(t, i)
    <3> SUFFICES ASSUME NEW i \in Index
                 PROVE  /\ t.running[i] <= 1
                        /\ t.running[i] > 0 /\ i > t.committed => i \in t.executing /\ ~Waits(t, i)
      OBVIOUS
    <3>1. t.committed = s.committed /\ s.expected > s.committed
      BY DEF Quiet, SameRegisters, Shape
    <3>2. CASE t.running[i] = s.running[i]
      BY <1>2, <1>4, <3>1, <3>2 DEF Once, Quiet
    <3>3. CASE /\ i = s.expected /\ i \notin s.executing /\ i \in t.executing
               /\ t.running[i] = s.running[i] + 1
      BY <1>2, <2>1, <3>1, <3>3
    <3> QED BY <1>3, <3>2, <3>3
  <2>3. t.results = s.results /\ t.committed = s.committed
    BY DEF Quiet, SameRegisters
  <2> QED BY <1>4, <2>2, <2>3 DEF Once, Quiet
<1>5. ASSUME Kept(s) PROVE Kept(t)
  <2>1. /\ t.results = s.results /\ t.committed = s.committed /\ t.maxMem = s.maxMem
        /\ t.stored = s.stored /\ t.notified = s.notified
        /\ \A i \in Index : t.caches[i].checkpoint = s.caches[i].checkpoint
    BY DEF Quiet, SameRegisters, SameCaches
  <2>2. LastApplied(s) => s.expected <= s.maxMem + 1 \/ s.expected <= s.committed + 1
    BY <1>5, Numbers DEF LastApplied, Kept
  <2> QED BY <1>2, <1>3, <1>5, <2>1, <2>2 DEF Kept
<1>6. ASSUME Chain(s) PROVE Chain(t)
  <2>1. /\ t.committed = s.committed /\ t.notified = s.notified /\ t.expected = s.expected
        /\ \A i \in Index : /\ t.caches[i].stable = s.caches[i].stable
                            /\ t.stableQueue[i] = s.stableQueue[i]
                            /\ t.committing[i] = s.committing[i]
    BY DEF Quiet, SameRegisters, SameCaches, SameStable
  <2> QED BY <1>2, <1>3, <1>6, <2>1 DEF Chain
<1> QED BY <1>1, <1>4, <1>5, <1>6 DEF Keeps

-----------------------------------------------------------------------------
(* Quiet actions *)

\* Faults are counted, never forgotten.
FaultsGrow ==
  /\ faults' \in [Faults -> Nat]
  /\ \A k \in Faults : faults'[k] >= faults[k]

\* An event is counted and writes the given state.
LEMMA EventStep ==
  ASSUME TypeOK, NEW K \in SUBSET Faults, NEW s, Events(K, s)
  PROVE  /\ node' = s /\ reported' = reported /\ FaultsGrow
         /\ \A k \in K : faults'[k] > 0
<1>1. /\ faults' = [k \in Faults |-> IF k \in K THEN faults[k] + 1 ELSE faults[k]]
      /\ faults \in [Faults -> Nat]
  BY DEF Events, TypeOK
<1>2. \A k \in Faults : faults'[k] = IF k \in K THEN faults[k] + 1 ELSE faults[k]
  BY <1>1
<1>3. faults' \in [Faults -> Nat]
  BY <1>1
<1>4. \A k \in Faults : faults[k] \in Nat
  BY <1>1
<1> QED BY <1>2, <1>3, <1>4 DEF Events, FaultsGrow

\* An event of one kind.
LEMMA OneEvent ==
  ASSUME TypeOK, NEW k \in Faults, NEW s, Event(k, s)
  PROVE  node' = s /\ reported' = reported /\ FaultsGrow /\ faults'[k] > 0
<1>1. {k} \in SUBSET Faults /\ Events({k}, s)
  BY DEF Event
<1>2. \A j \in {k} : faults'[j] > 0
  BY <1>1, EventStep
<1> QED BY <1>1, <1>2, EventStep

\* A step without an event writes the given state.
LEMMA PlainStep ==
  ASSUME TypeOK, NEW s, Step(s)
  PROVE  node' = s /\ reported' = reported /\ FaultsGrow
<1>1. faults \in [Faults -> Nat] /\ faults' = faults
  BY DEF TypeOK, Step
<1>2. \A k \in Faults : faults[k] \in Nat /\ faults'[k] = faults[k]
  BY <1>1
<1> QED BY <1>1, <1>2 DEF Step, FaultsGrow

\* A step that takes a CheckPoint writes the given state.
LEMMA ReportStep ==
  ASSUME TypeOK, NEW s, NEW i \in Index, NEW p \in Node, VoteStep(i, p, s)
  PROVE  /\ node' = s /\ FaultsGrow /\ faults' = faults
         /\ reported' \in [Index -> SUBSET Node]
         /\ \A j \in Index : reported'[j] = IF j = i THEN reported[j] \cup {p} ELSE reported[j]
<1>1. faults \in [Faults -> Nat] /\ faults' = faults
  BY DEF TypeOK, VoteStep
<1>2. \A k \in Faults : faults[k] \in Nat /\ faults'[k] = faults[k]
  BY <1>1
<1>3. reported \in [Index -> SUBSET Node] /\ reported' = [reported EXCEPT ![i] = @ \cup {p}]
  BY DEF TypeOK, VoteStep
<1>4. \A j \in Index : reported'[j] = IF j = i THEN reported[j] \cup {p} ELSE reported[j]
  BY <1>3
<1>5. reported' \in [Index -> SUBSET Node]
  BY <1>3
<1>6. node' = s /\ FaultsGrow
  BY <1>1, <1>2 DEF VoteStep, FaultsGrow
<1> QED BY <1>1, <1>4, <1>5, <1>6

\* Each named fault is one of the faults.
LEMMA FaultNames ==
  {"execute", "commit", "fetch", "empty", "load", "put", "read", "newView", "sync", "restart"}
  = Faults
  BY DEF Faults

\* A started execution is a quiet step.
LEMMA StartedQuiet ==
  ASSUME NEW s, NEW t, Started(s, t)
  PROVE  Quiet(s, t)
<1>1. SameRegisters(s, t) /\ t.expected = s.expected /\ SameCaches(s, t) /\ SameStable(s, t)
  BY DEF Started, SameCaches
<1>2. CASE t.running = s.running /\ t.executing = s.executing
  BY <1>1, <1>2 DEF Quiet
<1>3. CASE Begins(s, t)
  BY <1>1, <1>3 DEF Quiet, Begins
<1> QED BY <1>2, <1>3 DEF Started

\* A quiet step of a state that agrees with s on all but flags is one of s.
LEMMA QuietFrom ==
  ASSUME NEW s, NEW r, NEW t, Quiet(r, t),
         SameRegisters(s, r), r.expected = s.expected, SameCaches(s, r), SameStable(s, r),
         r.executing = s.executing, r.running = s.running
  PROVE  Quiet(s, t)
<1>1. LastApplied(r) => LastApplied(s)
  BY DEF LastApplied, SameRegisters, SameCaches
<1> QED BY <1>1 DEF Quiet, SameRegisters, SameCaches, SameStable

\* Ordering a proposal pushes it to the commit queue.
LEMMA OrderQuiet ==
  ASSUME TypeOK, NEW i \in Index, OrderProposal(i)
  PROVE  node' \in State /\ Quiet(node, node') /\ reported' = reported /\ FaultsGrow
<1> DEFINE d == [node.caches[i] EXCEPT !.submitted = TRUE, !.precommitted = TRUE]
           c == [node.caches EXCEPT ![i] = d]
           r == [node EXCEPT !.caches[i].submitted = TRUE, !.caches[i].precommitted = TRUE]
<1>0. node \in State
  BY DEF TypeOK
<1>1. r = [node EXCEPT !.caches = c]
  BY <1>0, Fields DEF State, Cache
<1>2. /\ d \in Cache /\ d.checkpoint = node.caches[i].checkpoint
      /\ d.stable = node.caches[i].stable /\ d.votes = node.caches[i].votes
  BY <1>0, CacheFields DEF Cache
<1>3. Step(updateCommitQueue(r, i))
  BY DEF OrderProposal
<1> HIDE DEF d, r
<1>4. c \in [Index -> Cache] /\ \A j \in Index : c[j] = IF j = i THEN d ELSE node.caches[j]
  BY <1>0, <1>2, Fields
<1> HIDE DEF c
<1>5. /\ r \in State /\ r.caches = c /\ SameRegisters(node, r) /\ r.expected = node.expected
      /\ SameStable(node, r) /\ r.running = node.running /\ r.executing = node.executing
  BY <1>0, <1>1, <1>4 DEF State, SameRegisters, SameStable
<1>6. SameCaches(node, r)
  BY <1>2, <1>4, <1>5 DEF SameCaches
<1>7. updateCommitQueue(r, i) \in State /\ Quiet(r, updateCommitQueue(r, i))
  BY <1>5, UpdateQueue, StartedQuiet
<1>8. Quiet(node, updateCommitQueue(r, i))
  BY <1>5, <1>6, <1>7, QuietFrom
<1> QED BY <1>3, <1>7, <1>8, PlainStep

\* A new view resets flags of the caches only.
LEMMA NewViewQuiet ==
  ASSUME TypeOK, NewView
  PROVE  node' \in State /\ Quiet(node, node') /\ reported' = reported /\ FaultsGrow
<1> DEFINE d(i) == [node.caches[i] EXCEPT !.submitted = i \in node.executing, !.precommitted = FALSE]
           c == [i \in Index |-> d(i)]
           r == [node EXCEPT !.timeout = FALSE, !.caches = c]
<1>0. node \in State
  BY DEF TypeOK
<1>1. node' = r /\ reported' = reported /\ FaultsGrow
  BY FaultNames, OneEvent DEF NewView
<1>2. \A i \in Index : /\ d(i) \in Cache /\ d(i).checkpoint = node.caches[i].checkpoint
                       /\ d(i).stable = node.caches[i].stable /\ d(i).votes = node.caches[i].votes
  <2> SUFFICES ASSUME NEW i \in Index
               PROVE  /\ d(i) \in Cache /\ d(i).checkpoint = node.caches[i].checkpoint
                      /\ d(i).stable = node.caches[i].stable /\ d(i).votes = node.caches[i].votes
    OBVIOUS
  <2>1. node.caches[i] \in Cache
    BY <1>0, CacheFields
  <2>2. (i \in node.executing) \in BOOLEAN
    OBVIOUS
  <2> QED BY <2>1, <2>2 DEF Cache
<1> HIDE DEF d
<1>3. c \in [Index -> Cache] /\ \A i \in Index : c[i] = d(i)
  BY <1>2
<1> HIDE DEF c
<1>4. /\ r \in State /\ r.caches = c /\ SameRegisters(node, r) /\ r.expected = node.expected
      /\ SameStable(node, r) /\ r.running = node.running /\ r.executing = node.executing
  BY <1>0, <1>3 DEF State, SameRegisters, SameStable
<1>5. Quiet(node, r)
  BY <1>2, <1>3, <1>4 DEF Quiet, SameCaches
<1> QED BY <1>1, <1>4, <1>5

\* A timeout keeps the marks of the proposals above the ledger.
LEMMA TimeoutQuiet ==
  ASSUME TypeOK, OnTimeout
  PROVE  node' \in State /\ Quiet(node, node') /\ reported' = reported /\ FaultsGrow
<1> DEFINE a == tryToApplyCommitQueue(node)
           busy == {i \in node.executing : i > node.committed}
           b == a.timeout \/ busy = {}
           t == [a EXCEPT !.executing = busy, !.timeout = b]
<1>0. node \in State
  BY DEF TypeOK
<1>1. node' = (IF CanApply(node) THEN a ELSE t) /\ reported' = reported /\ FaultsGrow
  BY PlainStep DEF OnTimeout
<1>2. a \in State /\ Started(node, a)
  BY <1>0, ApplyQueue
<1>3. ~CanApply(node) => a.running = node.running
  BY <1>0 DEF tryToApplyCommitQueue, State
<1> HIDE DEF a
<1>4. busy \in SUBSET Index /\ b \in BOOLEAN
  BY <1>0, <1>2, Fields
<1> HIDE DEF b
<1>5. /\ t \in State /\ SameRegisters(a, t) /\ t.expected = a.expected
      /\ t.caches = a.caches /\ SameStable(a, t) /\ t.running = a.running
      /\ t.executing = busy
  BY <1>2, <1>4 DEF State, SameRegisters, SameStable
<1> HIDE DEF t
<1>6. ~CanApply(node) => Quiet(node, t)
  BY <1>2, <1>3, <1>5 DEF Quiet, Started, SameRegisters, SameStable, SameCaches
<1>7. Quiet(node, a)
  BY <1>2, StartedQuiet
<1> QED BY <1>1, <1>2, <1>5, <1>6, <1>7

\* Requests, answers and verifications leave results and executions alone,
\* except that a verified proposal is pushed to the commit queue.
LEMMA RequestQuiet ==
  ASSUME TypeOK, NEW i \in Index,
         \/ ResponseFound(i) \/ ResponseEmpty(i) \/ ResponseError(i)
         \/ LoadSucceeds(i) \/ LoadFails(i) \/ LoadGivesUp(i) \/ NotifySyncing(i)
  PROVE  node' \in State /\ Quiet(node, node') /\ reported' = reported /\ FaultsGrow
<1>0. node \in State
  BY DEF TypeOK
<1>1. CASE ResponseFound(i)
  <2> DEFINE l == IF i > node.committed THEN node.loading \cup {i} ELSE node.loading
             q == node.requests \ {i}
             r == [node EXCEPT !.requests = q, !.loading = l]
  <2>1. node' = r /\ reported' = reported /\ FaultsGrow
    BY <1>0, <1>1, PlainStep DEF ResponseFound, State
  <2>2. l \in SUBSET Index /\ q \in SUBSET Index
    BY <1>0, Fields
  <2> HIDE DEF l, q
  <2>3. r \in State /\ Quiet(node, r)
    BY <1>0, <2>2 DEF State, Quiet, SameRegisters, SameCaches, SameStable
  <2> QED BY <2>1, <2>3
<1>2. CASE ResponseEmpty(i)
  <2> DEFINE r == [node EXCEPT !.requests = @ \ {i}]
  <2>1. node' = r /\ reported' = reported /\ FaultsGrow
    BY <1>2, OneEvent, FaultNames DEF ResponseEmpty
  <2>2. r \in State /\ Quiet(node, r)
    BY <1>0 DEF State, Quiet, SameRegisters, SameCaches, SameStable
  <2> QED BY <2>1, <2>2
<1>3. CASE ResponseError(i)
  <2> DEFINE r == [node EXCEPT !.requests = @ \ {i}, !.listed = @ \ {i}]
  <2>1. node' = r /\ reported' = reported /\ FaultsGrow
    BY <1>3, OneEvent, FaultNames DEF ResponseError
  <2>2. r \in State /\ Quiet(node, r)
    BY <1>0 DEF State, Quiet, SameRegisters, SameCaches, SameStable
  <2> QED BY <2>1, <2>2
<1>4. CASE LoadSucceeds(i)
  <2> DEFINE r == [node EXCEPT !.loading = @ \ {i}]
  <2>1. Step(updateCommitQueue(r, i))
    BY <1>4 DEF LoadSucceeds
  <2>2. /\ r \in State /\ SameRegisters(node, r) /\ r.expected = node.expected
        /\ SameCaches(node, r) /\ SameStable(node, r)
        /\ r.running = node.running /\ r.executing = node.executing
    BY <1>0 DEF State, SameRegisters, SameCaches, SameStable
  <2> HIDE DEF r
  <2>3. updateCommitQueue(r, i) \in State /\ Quiet(r, updateCommitQueue(r, i))
    BY <2>2, UpdateQueue, StartedQuiet
  <2>4. Quiet(node, updateCommitQueue(r, i))
    BY <2>2, <2>3, QuietFrom
  <2> QED BY <2>1, <2>3, <2>4, PlainStep
<1>5. CASE LoadFails(i)
  <2> DEFINE w == Larger(Smaller(node.low, i - 1), node.committed + 1)
             r == [node EXCEPT !.loading = @ \ {i}, !.low = w]
  <2>1. node' = r /\ reported' = reported /\ FaultsGrow
    BY <1>0, <1>5, OneEvent, FaultNames DEF LoadFails, State
  <2>2. w \in 1 .. MaxIndex + 1
    BY <1>0, Fields, IndexRange DEF Larger, Smaller
  <2> HIDE DEF w
  <2>3. r \in State /\ Quiet(node, r)
    BY <1>0, <2>2 DEF State, Quiet, SameRegisters, SameCaches, SameStable
  <2> QED BY <2>1, <2>3
<1>6. CASE NotifySyncing(i)
  <2> DEFINE r == [node EXCEPT !.syncing = i]
  <2>1. node' = r /\ reported' = reported /\ FaultsGrow
    BY <1>6, OneEvent, FaultNames DEF NotifySyncing
  <2>2. i \in 0 .. MaxIndex
    BY IndexRange
  <2>3. r \in State /\ Quiet(node, r)
    BY <1>0, <2>2 DEF State, Quiet, SameRegisters, SameCaches, SameStable
  <2> QED BY <2>1, <2>3
<1>7. CASE LoadGivesUp(i)
  <2> DEFINE r == [node EXCEPT !.loading = @ \ {i}]
  <2>1. node' = r /\ reported' = reported /\ FaultsGrow
    BY <1>7, OneEvent, FaultNames DEF LoadGivesUp
  <2>2. r \in State /\ Quiet(node, r)
    BY <1>0 DEF State, Quiet, SameRegisters, SameCaches, SameStable
  <2> QED BY <2>1, <2>2
<1> QED BY <1>1, <1>2, <1>3, <1>4, <1>5, <1>6, <1>7

\* A step that keeps the parts of the invariant keeps the invariant.
LEMMA StepKeeps ==
  ASSUME PipelineInv, FaultsGrow, TypeOK,
         Shape(node)', Voted(node, reported)',
         faults'["execute"] = 0 /\ Once(node) => Once(node)',
         faults'["sync"] = 0 /\ faults'["put"] = 0 /\ Kept(node) => Kept(node)',
         faults'["sync"] = 0 /\ faults'["commit"] = 0 /\ Chain(node) => Chain(node)'
  PROVE  PipelineInv'
<1>1. \A k \in Faults : faults[k] \in Nat /\ faults'[k] \in Nat /\ faults'[k] >= faults[k]
  BY DEF FaultsGrow, TypeOK
<1>2. \A k \in Faults : faults'[k] = 0 => faults[k] = 0
  BY <1>1
<1>3. {"execute", "sync", "put", "commit"} \subseteq Faults
  BY FaultNames
<1> QED BY <1>2, <1>3 DEF PipelineInv

\* The quiet actions keep types and invariant.
LEMMA QuietActions ==
  ASSUME TypeOK, PipelineInv,
         \/ \E i \in Index : OrderProposal(i)
         \/ NewView
         \/ OnTimeout
         \/ \E i \in Index : \/ ResponseFound(i) \/ ResponseEmpty(i) \/ ResponseError(i)
                             \/ LoadSucceeds(i) \/ LoadFails(i) \/ LoadGivesUp(i) \/ NotifySyncing(i)
  PROVE  TypeOK' /\ PipelineInv' /\ Quiet(node, node') /\ reported' = reported
<1>1. node' \in State /\ Quiet(node, node') /\ reported' = reported /\ FaultsGrow
  BY OrderQuiet, NewViewQuiet, TimeoutQuiet, RequestQuiet
<1>2. TypeOK'
  BY <1>1 DEF TypeOK, FaultsGrow
<1>3. node \in State /\ Shape(node) /\ Voted(node, reported)
  BY DEF TypeOK, PipelineInv
<1>4. Shape(node') /\ Voted(node', reported) /\ Keeps(node, node')
  BY <1>1, <1>3, QuietKeeps
<1>5. /\ Shape(node)' /\ Voted(node, reported)'
      /\ Once(node) => Once(node)'
      /\ Kept(node) => Kept(node)'
      /\ Chain(node) => Chain(node)'
  BY <1>1, <1>4 DEF Keeps
<1> QED BY <1>1, <1>2, <1>5, StepKeeps

-----------------------------------------------------------------------------
(* Executions and the results that wait for the worker *)

\* A result at the end of the queue.
LEMMA AppendedResult ==
  ASSUME NEW r \in Seq(Result), NEW e \in Result
  PROVE  LET q == Append(r, e) IN
         /\ q \in Seq(Result) /\ Len(r) \in Nat /\ Len(q) = Len(r) + 1
         /\ \A k \in 1 .. Len(r) : q[k] = r[k]
         /\ q[Len(r) + 1] = e
  OBVIOUS

\* The queue without its first result.
LEMMA RestOfResults ==
  ASSUME NEW r \in Seq(Result), r # <<>>
  PROVE  /\ Head(r) = r[1] /\ r[1] \in Result /\ 1 \in 1 .. Len(r)
         /\ Tail(r) \in Seq(Result) /\ Len(r) \in Nat /\ Len(Tail(r)) = Len(r) - 1
         /\ \A k \in 1 .. Len(Tail(r)) : Tail(r)[k] = r[k + 1] /\ k + 1 \in 1 .. Len(r)
<1>1. Len(r) \in Nat \ {0}
  OBVIOUS
<1>2. 1 \in 1 .. Len(r) /\ r[1] \in Result /\ Head(r) = r[1]
  BY <1>1
<1>3. Tail(r) \in Seq(Result) /\ Len(Tail(r)) = Len(r) - 1
  BY <1>1
<1>4. \A k \in 1 .. Len(Tail(r)) : Tail(r)[k] = r[k + 1] /\ k + 1 \in 1 .. Len(r)
  BY <1>1, <1>3
<1> QED BY <1>1, <1>2, <1>3, <1>4

\* The first result moves on to another state.
LEMMA MovedResult ==
  ASSUME NEW s \in State, s.results # <<>>,
         NEW st \in {"failed", "executed", "indexed", "stored"}
  PROVE  LET q == [s.results EXCEPT ![1].state = st] IN
         /\ q \in Seq(Result) /\ Len(q) = Len(s.results)
         /\ q[1].index = s.results[1].index /\ q[1].state = st
         /\ \A k \in 1 .. Len(s.results) : k # 1 => q[k] = s.results[k]
         /\ 1 \in 1 .. Len(s.results)
<1> DEFINE r == s.results
           e == [r[1] EXCEPT !.state = st]
           q == [r EXCEPT ![1] = e]
<1>1. r \in Seq(Result)
  BY Fields
<1> HIDE DEF r
<1>2. r[1] \in Result /\ 1 \in 1 .. Len(r) /\ Len(r) \in Nat
  BY <1>1, RestOfResults DEF r
<1>3. e \in Result /\ e.index = r[1].index /\ e.state = st
  BY <1>2 DEF Result
<1>4. q = [r EXCEPT ![1].state = st]
  OBVIOUS
<1> HIDE DEF e
<1>5. q \in Seq(Result) /\ Len(q) = Len(r)
  BY <1>1, <1>2, <1>3
<1>6. q[1] = e /\ \A k \in 1 .. Len(r) : k # 1 => q[k] = r[k]
  BY <1>1, <1>2
<1> HIDE DEF q
<1> QED BY <1>2, <1>3, <1>4, <1>5, <1>6 DEF r

\* an execution of i ends; its result waits unless i is on the ledger
Finished(s, t, i, st) ==
  /\ s.running[i] > 0
  /\ t.running = [s.running EXCEPT ![i] = @ - 1]
  /\ t.results = IF i <= s.committed THEN s.results
                 ELSE Append(s.results, [index |-> i, state |-> st])
  /\ t.committed = s.committed /\ t.expected = s.expected /\ t.caches = s.caches
  /\ t.notified = s.notified /\ t.maxMem = s.maxMem /\ t.stored = s.stored
  /\ SameStable(s, t) /\ t.executing = s.executing

\* ExecuteFinished ends an execution.
LEMMA FinishedState ==
  ASSUME TypeOK, NEW i \in Index, NEW st \in {"failed", "executed"}, node.running[i] > 0
  PROVE  ExecuteFinished(i, st) \in State /\ Finished(node, ExecuteFinished(i, st), i, st)
<1> DEFINE e == [index |-> i, state |-> st]
           q == IF i <= node.committed THEN node.results ELSE Append(node.results, e)
           c == [node.running EXCEPT ![i] = @ - 1]
           t == ExecuteFinished(i, st)
<1>0. node \in State
  BY DEF TypeOK
<1>1. q \in Seq(Result)
  <2>1. e \in Result
    BY DEF Result
  <2>2. node.results \in Seq(Result)
    BY <1>0, Fields
  <2> HIDE DEF e
  <2> QED BY <2>1, <2>2
<1>2. c \in [Index -> Nat]
  BY <1>0, Fields
<1>3. t = [node EXCEPT !.running = c, !.results = q]
  BY <1>0 DEF ExecuteFinished, State
<1> HIDE DEF c, t
<1>4. t \in State /\ t.running = c /\ t.results = q
  <2> HIDE DEF q
  <2> QED BY <1>0, <1>1, <1>2, <1>3 DEF State, Count
<1>5. /\ t.committed = node.committed /\ t.expected = node.expected /\ t.caches = node.caches
      /\ t.notified = node.notified /\ t.maxMem = node.maxMem /\ t.stored = node.stored
      /\ SameStable(node, t) /\ t.executing = node.executing
  BY <1>0, <1>3 DEF State, SameStable
<1> QED BY <1>4, <1>5 DEF Finished, c, t

\* The end of an execution keeps the invariant; a failure ends Once.
LEMMA FinishedKeeps ==
  ASSUME NEW s \in State, NEW t \in State, NEW R, NEW i \in Index,
         NEW st \in {"failed", "executed"}, Finished(s, t, i, st), Shape(s), Voted(s, R)
  PROVE  /\ Shape(t) /\ Voted(t, R)
         /\ Once(s) /\ st = "executed" => Once(t)
         /\ Kept(s) => Kept(t)
         /\ Chain(s) => Chain(t)
<1>1. Shape(t) /\ Voted(t, R)
  BY DEF Finished, SameStable, Shape, Voted
<1>2. /\ \A j \in Index : j # i => t.running[j] = s.running[j]
      /\ t.running[i] = s.running[i] - 1 /\ s.running[i] > 0
  BY Fields DEF Finished
<1>3. /\ t.committed = s.committed /\ t.expected = s.expected /\ t.caches = s.caches
      /\ t.notified = s.notified /\ t.maxMem = s.maxMem /\ t.stored = s.stored
      /\ t.stableQueue = s.stableQueue /\ t.committing = s.committing
      /\ t.executing = s.executing
  BY DEF Finished, SameStable
<1>4. \A j \in Index : HasResult(t, j) <=> HasResult(s, j)
  BY <1>3 DEF HasResult
<1>5. CASE i <= s.committed
  <2>1. t.results = s.results
    BY <1>5 DEF Finished
  <2>2. \A j \in Index : (Waits(t, j) <=> Waits(s, j)) /\ (Indexed(t, j) <=> Indexed(s, j))
    BY <2>1 DEF Waits, Indexed
  <2>3. Once(s) => Once(t)
    BY <1>2, <1>3, <1>5, <2>1, <2>2, Numbers DEF Once
  <2>4. Kept(s) => Kept(t)
    BY <1>2, <1>3, <2>1, <2>2, Numbers DEF Kept
  <2>5. Chain(s) => Chain(t)
    BY <1>2, <1>3, <1>4, <2>2, Numbers DEF Chain
  <2> QED BY <1>1, <2>3, <2>4, <2>5
<1>6. CASE ~(i <= s.committed)
  <2> DEFINE n == Len(s.results)
             e == [index |-> i, state |-> st]
  <2>1. t.results = Append(s.results, e)
    BY <1>6 DEF Finished
  <2>2. e \in Result /\ e.index = i /\ e.state = st
    BY DEF Result
  <2> HIDE DEF e
  <2>3. /\ n \in Nat /\ Len(t.results) = n + 1
        /\ \A k \in 1 .. n : t.results[k] = s.results[k]
        /\ t.results[n + 1].index = i /\ t.results[n + 1].state = st
    BY <2>1, <2>2, Fields, AppendedResult
  <2> HIDE DEF n
  <2>4. \A k \in 1 .. Len(t.results) : k \in 1 .. n \/ k = n + 1
    BY <2>3
  <2>5. \A j \in Index : Waits(t, j) <=> Waits(s, j) \/ j = i
    <3>1. \A j \in Index : Waits(t, j) => Waits(s, j) \/ j = i
      BY <2>3, <2>4 DEF Waits, n
    <3>2. \A j \in Index : Waits(s, j) => Waits(t, j)
      <4>1. \A k \in 1 .. n : k \in 1 .. Len(t.results)
        BY <2>3
      <4> QED BY <2>3, <4>1 DEF Waits, n
    <3>3. Waits(t, i)
      <4>1. n + 1 \in 1 .. Len(t.results)
        BY <2>3
      <4> QED BY <2>3, <4>1 DEF Waits
    <3> QED BY <3>1, <3>2, <3>3
  <2>6. \A j \in Index : Indexed(s, j) => Indexed(t, j)
    <3>1. n > 0 => 1 \in 1 .. n /\ Len(t.results) > 0
      BY <2>3
    <3> QED BY <2>3, <3>1 DEF Indexed, n
  <2>7. ASSUME Once(s), st = "executed" PROVE Once(t)
    <3>1. s.running[i] = 1 /\ t.running[i] = 0 /\ i \in s.executing /\ ~Waits(s, i)
      BY <1>2, <1>6, <2>7, Numbers DEF Once
    <3>2. \A j \in Index : /\ t.running[j] <= 1
                           /\ t.running[j] > 0 /\ j > t.committed => j \in t.executing /\ ~Waits(t, j)
      BY <1>2, <1>3, <2>5, <2>7, <3>1 DEF Once
    <3>3. \A k \in 1 .. Len(t.results) :
            /\ t.results[k].state # "failed"
            /\ t.results[k].index > t.committed => t.results[k].index \in t.executing
      BY <1>3, <2>3, <2>4, <2>7, <3>1 DEF Once, n
    <3>4. \A k \in 1 .. n : s.results[k].index # i
      BY <3>1 DEF Waits, n
    <3>5. ASSUME NEW j \in 1 .. Len(t.results), NEW k \in 1 .. Len(t.results),
                 t.results[j].index = t.results[k].index, t.results[k].index > t.committed
          PROVE  j = k
      <4>1. CASE j \in 1 .. n /\ k \in 1 .. n
        BY <1>3, <2>3, <2>7, <3>5, <4>1 DEF Once, n
      <4>2. CASE j = n + 1 \/ k = n + 1
        BY <2>3, <2>4, <3>4, <3>5, <4>2
      <4> QED BY <2>4, <4>1, <4>2
    <3> QED BY <3>2, <3>3, <3>5 DEF Once
  <2>8. ASSUME Kept(s) PROVE Kept(t)
    <3>1. \A j \in Index :
            /\ t.caches[j].checkpoint => j \in t.stored /\ j <= t.maxMem
            /\ t.committed < j /\ j <= t.maxMem => j \in t.stored \/ Indexed(t, j)
      BY <1>3, <2>6, <2>8 DEF Kept
    <3>2. \A j \in Index : t.running[j] > 0 \/ Waits(t, j) => s.running[j] > 0 \/ Waits(s, j)
      BY <1>2, <2>5, Numbers
    <3>3. \A j \in Index :
            t.running[j] > 0 \/ Waits(t, j) => j <= t.maxMem + 1 \/ j <= t.committed + 1
      BY <1>3, <2>8, <3>2 DEF Kept
    <3>4. \A k \in 1 .. Len(t.results) :
            /\ k > 1 => t.results[k].state \in {"failed", "executed"}
            /\ t.results[k].state \in {"indexed", "stored"} => t.results[k].index <= t.maxMem
            /\ t.results[k].state = "stored" /\ t.results[k].index > t.committed
               => t.results[k].index \in t.stored
      BY <1>3, <2>3, <2>4, <2>8 DEF Kept, n
    <3> QED BY <1>3, <2>8, <3>1, <3>3, <3>4 DEF Kept
  <2>9. ASSUME Chain(s) PROVE Chain(t)
    <3>1. \A j \in Index : t.running[j] > 0 \/ Waits(t, j) => s.running[j] > 0 \/ Waits(s, j)
      BY <1>2, <2>5, Numbers
    <3> QED BY <1>3, <1>4, <2>9, <3>1 DEF Chain
  <2> QED BY <1>1, <2>7, <2>8, <2>9
<1> QED BY <1>5, <1>6

\* The end of an execution keeps types and invariant.
LEMMA FinishActions ==
  ASSUME TypeOK, PipelineInv, NEW i \in Index, ExecuteSucceeds(i) \/ ExecuteFails(i)
  PROVE  /\ TypeOK' /\ PipelineInv' /\ reported' = reported
         /\ \E st \in {"failed", "executed"} : Finished(node, node', i, st)
<1>1. node.running[i] > 0
  BY DEF ExecuteSucceeds, ExecuteFails
<1>2. PICK st \in {"failed", "executed"} :
        /\ node' = ExecuteFinished(i, st) /\ reported' = reported /\ FaultsGrow
        /\ st = "executed" \/ faults'["execute"] > 0
  BY PlainStep, OneEvent, FaultNames DEF ExecuteSucceeds, ExecuteFails
<1>3. node' \in State /\ Finished(node, node', i, st)
  BY <1>1, <1>2, FinishedState
<1>4. node \in State /\ Shape(node) /\ Voted(node, reported)
  BY DEF TypeOK, PipelineInv
<1>5. /\ Shape(node') /\ Voted(node', reported)
      /\ Once(node) /\ st = "executed" => Once(node')
      /\ Kept(node) => Kept(node')
      /\ Chain(node) => Chain(node')
  BY <1>3, <1>4, FinishedKeeps
<1>6. /\ Shape(node)' /\ Voted(node, reported)'
      /\ faults'["execute"] = 0 /\ Once(node) => Once(node)'
      /\ Kept(node) => Kept(node)'
      /\ Chain(node) => Chain(node)'
  BY <1>2, <1>5
<1>7. TypeOK'
  BY <1>2, <1>3 DEF TypeOK, FaultsGrow
<1> QED BY <1>2, <1>3, <1>6, <1>7, StepKeeps

\* the first result moves on from state a to state b
Moved(s, t, a, b) ==
  /\ s.results # <<>> /\ s.results[1].state = a
  /\ t.results = [s.results EXCEPT ![1].state = b]
  /\ t.committed = s.committed /\ t.expected = s.expected /\ t.caches = s.caches
  /\ t.notified = s.notified /\ SameStable(s, t)
  /\ t.running = s.running /\ t.executing = s.executing

\* the two writes of a proposal, and the case that it is known
Stores(s, t) ==
  LET i == s.results[1].index IN
  \/ Moved(s, t, "executed", "stored") /\ s.maxMem >= i /\ t.maxMem = s.maxMem /\ t.stored = s.stored
  \/ Moved(s, t, "executed", "indexed") /\ s.maxMem < i /\ t.maxMem = i /\ t.stored = s.stored
  \/ Moved(s, t, "indexed", "stored") /\ t.maxMem = s.maxMem /\ t.stored = s.stored \cup {i}

\* The results of the queue are those before the move, but for a state.
LEMMA MovedFacts ==
  ASSUME NEW s \in State, NEW t \in State, NEW a,
         NEW b \in {"failed", "executed", "indexed", "stored"}, Moved(s, t, a, b)
  PROVE  /\ Len(t.results) = Len(s.results) /\ 1 \in 1 .. Len(s.results)
         /\ \A k \in 1 .. Len(s.results) :
              /\ t.results[k].index = s.results[k].index
              /\ k # 1 => t.results[k].state = s.results[k].state
         /\ s.results[1].state = a /\ t.results[1].state = b
         /\ \A i : Waits(t, i) <=> Waits(s, i)
<1>1. /\ Len(t.results) = Len(s.results) /\ 1 \in 1 .. Len(s.results)
      /\ t.results[1].index = s.results[1].index /\ t.results[1].state = b
      /\ \A k \in 1 .. Len(s.results) : k # 1 => t.results[k] = s.results[k]
  <2> DEFINE q == [s.results EXCEPT ![1].state = b]
  <2>1. s.results # <<>> /\ t.results = q
    BY DEF Moved
  <2>2. /\ Len(q) = Len(s.results) /\ 1 \in 1 .. Len(s.results)
        /\ q[1].index = s.results[1].index /\ q[1].state = b
        /\ \A k \in 1 .. Len(s.results) : k # 1 => q[k] = s.results[k]
    BY <2>1, MovedResult
  <2> HIDE DEF q
  <2> QED BY <2>1, <2>2
<1>2. \A k \in 1 .. Len(s.results) :
        /\ t.results[k].index = s.results[k].index
        /\ k # 1 => t.results[k].state = s.results[k].state
  BY <1>1
<1>3. \A i : Waits(t, i) <=> Waits(s, i)
  BY <1>1, <1>2 DEF Waits
<1> QED BY <1>1, <1>2, <1>3 DEF Moved

\* Moving a result on keeps all but the part on the storage.
LEMMA MovedKeeps ==
  ASSUME NEW s \in State, NEW t \in State, NEW a, NEW R,
         NEW b \in {"executed", "indexed", "stored"}, Moved(s, t, a, b),
         Shape(s), Voted(s, R)
  PROVE  /\ Shape(t) /\ Voted(t, R)
         /\ Once(s) => Once(t)
         /\ Chain(s) => Chain(t)
<1>1. /\ Len(t.results) = Len(s.results) /\ 1 \in 1 .. Len(s.results)
      /\ \A k \in 1 .. Len(s.results) :
           /\ t.results[k].index = s.results[k].index
           /\ k # 1 => t.results[k].state = s.results[k].state
      /\ t.results[1].state = b
      /\ \A i : Waits(t, i) <=> Waits(s, i)
  BY MovedFacts
<1>2. /\ t.committed = s.committed /\ t.expected = s.expected /\ t.caches = s.caches
      /\ t.notified = s.notified /\ t.stableQueue = s.stableQueue
      /\ t.committing = s.committing /\ t.running = s.running /\ t.executing = s.executing
  BY DEF Moved, SameStable
<1>3. Shape(t) /\ Voted(t, R)
  BY <1>2 DEF Shape, Voted
<1>4. ASSUME Once(s) PROVE Once(t)
  <2>1. b # "failed"
    OBVIOUS
  <2> QED BY <1>1, <1>2, <1>4, <2>1 DEF Once
<1>5. Chain(s) => Chain(t)
  BY <1>1, <1>2 DEF Chain, HasResult
<1> QED BY <1>3, <1>4, <1>5

\* Writes that succeed keep the part on the storage.
LEMMA StoresKept ==
  ASSUME NEW s \in State, NEW t \in State, Stores(s, t), Kept(s)
  PROVE  Kept(t)
<1> DEFINE e == s.results[1].index
<1>1. PICK a \in {"executed", "indexed"}, b \in {"indexed", "stored"} : Moved(s, t, a, b)
  BY DEF Stores
<1>2. /\ Len(t.results) = Len(s.results) /\ 1 \in 1 .. Len(s.results)
      /\ \A k \in 1 .. Len(s.results) :
           /\ t.results[k].index = s.results[k].index
           /\ k # 1 => t.results[k].state = s.results[k].state
      /\ s.results[1].state = a /\ t.results[1].state = b
      /\ \A i : Waits(t, i) <=> Waits(s, i)
  BY <1>1, MovedFacts
<1>3. /\ t.committed = s.committed /\ t.caches = s.caches
      /\ t.notified = s.notified /\ t.running = s.running
  BY <1>1 DEF Moved
<1>4. e \in Index /\ e \in Int /\ Waits(s, e) /\ t.results[1].index = e
  BY <1>2, Numbers DEF Waits
<1>5. e <= s.maxMem + 1 \/ e <= s.committed + 1
  BY <1>4 DEF Kept
<1>6. \A i \in Index : Indexed(s, i) <=> i = e /\ a = "indexed"
  BY <1>2 DEF Indexed
<1>7. \A i \in Index : Indexed(t, i) <=> i = e /\ b = "indexed"
  BY <1>2, <1>4 DEF Indexed
<1>8. \A k \in 1 .. Len(s.results) : k \in Int
  OBVIOUS
<1>9. \/ a = "executed" /\ b = "stored" /\ s.maxMem >= e /\ t.maxMem = s.maxMem /\ t.stored = s.stored
      \/ a = "executed" /\ b = "indexed" /\ s.maxMem < e /\ t.maxMem = e /\ t.stored = s.stored
      \/ /\ a = "indexed" /\ b = "stored" /\ t.maxMem = s.maxMem /\ t.stored = s.stored \cup {e}
         /\ e <= s.maxMem
  <2>1. CASE Moved(s, t, "executed", "stored") /\ s.maxMem >= e /\ t.maxMem = s.maxMem /\ t.stored = s.stored
    BY <1>2, <2>1, MovedFacts
  <2>2. CASE Moved(s, t, "executed", "indexed") /\ s.maxMem < e /\ t.maxMem = e /\ t.stored = s.stored
    BY <1>2, <2>2, MovedFacts
  <2>3. CASE Moved(s, t, "indexed", "stored") /\ t.maxMem = s.maxMem /\ t.stored = s.stored \cup {e}
    <3>1. s.results[1].state = "indexed" /\ a = "indexed" /\ b = "stored"
      BY <1>2, <2>3, MovedFacts
    <3>2. e <= s.maxMem
      BY <1>2, <3>1 DEF Kept
    <3> QED BY <2>3, <3>1, <3>2
  <2> QED BY <2>1, <2>2, <2>3 DEF Stores
<1>10. t.maxMem >= s.maxMem /\ s.maxMem \in Int /\ t.maxMem \in Int /\ s.committed \in Int
  BY <1>4, <1>9, Numbers
<1>11. \A i \in Index : t.caches[i].checkpoint => i \in t.stored /\ i <= t.maxMem
  <2>1. \A i \in Index : i \in Int
    BY IndexRange
  <2> QED BY <1>3, <1>9, <1>10, <2>1 DEF Kept
<1>12. ASSUME NEW i \in Index, t.committed < i, i <= t.maxMem
       PROVE  i \in t.stored \/ Indexed(t, i)
  <2>1. i \in Int /\ (i <= s.maxMem => i \in s.stored \/ Indexed(s, i))
    BY <1>3, <1>12, IndexRange DEF Kept
  <2> QED BY <1>3, <1>4, <1>5, <1>6, <1>7, <1>9, <1>10, <1>12, <2>1
<1>13. \A i \in Index : t.running[i] > 0 \/ Waits(t, i) => i <= t.maxMem + 1 \/ i <= t.committed + 1
  <2>1. \A i \in Index : i \in Int
    BY IndexRange
  <2> QED BY <1>2, <1>3, <1>10, <2>1 DEF Kept
<1>14. ASSUME NEW k \in 1 .. Len(t.results)
       PROVE  /\ k > 1 => t.results[k].state \in {"failed", "executed"}
              /\ t.results[k].state \in {"indexed", "stored"} => t.results[k].index <= t.maxMem
              /\ t.results[k].state = "stored" /\ t.results[k].index > t.committed
                 => t.results[k].index \in t.stored
  <2>1. CASE k = 1
    <3>1. t.results[k].index = e /\ t.results[k].state = b
      BY <1>2, <1>4, <2>1
    <3>2. e <= t.maxMem
      BY <1>4, <1>9, <1>10
    <3>3. b = "stored" /\ e > t.committed => e \in t.stored
      <4>1. e > s.committed /\ e <= s.maxMem => e \in s.stored \/ Indexed(s, e)
        BY <1>4 DEF Kept
      <4> QED BY <1>3, <1>4, <1>6, <1>9, <1>10, <4>1
    <3> QED BY <2>1, <3>1, <3>2, <3>3
  <2>2. CASE k # 1
    <3>1. k > 1
      BY <1>2, <1>8, <2>2
    <3>2. s.results[k].state \in {"failed", "executed"} /\ t.results[k].state = s.results[k].state
      BY <1>2, <2>2, <3>1 DEF Kept
    <3> QED BY <3>2
  <2> QED BY <2>1, <2>2
<1> QED BY <1>3, <1>11, <1>12, <1>13, <1>14 DEF Kept

\* The first result of the queue is set to another state.
LEMMA SetResultState ==
  ASSUME NEW st \in {"executed", "indexed", "stored"}, NEW a, TypeOK, NextResult(a)
  PROVE  /\ SetResult(st) \in State /\ Moved(node, SetResult(st), a, st)
         /\ SetResult(st).maxMem = node.maxMem /\ SetResult(st).stored = node.stored
         /\ Head(node.results).index = node.results[1].index
         /\ node.results[1].index \in Index
<1> DEFINE q == [node.results EXCEPT ![1].state = st]
           t == SetResult(st)
<1>0. node \in State /\ node.results # <<>>
  BY DEF TypeOK, NextResult
<1>1. node.results \in Seq(Result)
  BY <1>0, Fields
<1>2. /\ node.results[1].state = a /\ Head(node.results) = node.results[1]
      /\ node.results[1] \in Result
  BY <1>0, <1>1, RestOfResults DEF NextResult
<1>3. q \in Seq(Result)
  BY <1>0, MovedResult
<1>4. t = [node EXCEPT !.results = q]
  BY <1>0 DEF SetResult, State
<1>5. node.results[1].index \in Index
  BY <1>2 DEF Result
<1> HIDE DEF q, t
<1>6. t \in State /\ t.results = q
  BY <1>0, <1>3, <1>4 DEF State
<1>7. /\ t.committed = node.committed /\ t.expected = node.expected /\ t.caches = node.caches
      /\ t.notified = node.notified /\ SameStable(node, t)
      /\ t.running = node.running /\ t.executing = node.executing
      /\ t.maxMem = node.maxMem /\ t.stored = node.stored
  BY <1>0, <1>4 DEF State, SameStable
<1>8. Moved(node, t, a, st)
  BY <1>0, <1>2, <1>6, <1>7 DEF Moved, q
<1> QED BY <1>2, <1>5, <1>6, <1>7, <1>8 DEF t

\* Writing other registers of the storage leaves a move a move.
LEMMA MovedStorage ==
  ASSUME NEW s, NEW r, NEW t, NEW a, NEW b, Moved(s, r, a, b),
         t.results = r.results, t.committed = r.committed, t.expected = r.expected,
         t.caches = r.caches, t.notified = r.notified, SameStable(r, t),
         t.running = r.running, t.executing = r.executing
  PROVE  Moved(s, t, a, b)
  BY DEF Moved, SameStable

\* The worker's writes to the storage, with the failures of asyncPutProposal.
LEMMA StoreMoves ==
  ASSUME TypeOK, StoreIndex \/ StoreProposal \/ StoreIndexFails \/ StoreProposalFails
  PROVE  /\ node' \in State /\ reported' = reported /\ FaultsGrow
         /\ \E a, b \in {"executed", "indexed", "stored"} : Moved(node, node', a, b)
         /\ Stores(node, node') \/ faults'["put"] > 0
<1> DEFINE i == node.results[1].index
           r(st) == SetResult(st)
<1>0. node \in State /\ node.maxKey \in 0 .. MaxIndex /\ node.maxMem \in 0 .. MaxIndex
      /\ node.stored \in SUBSET Index
  BY Fields DEF TypeOK
<1>1. CASE NextResult("executed")
  <2>1. /\ i \in Index /\ i \in 0 .. MaxIndex /\ Head(node.results).index = i
        /\ r("stored") \in State /\ Moved(node, r("stored"), "executed", "stored")
        /\ r("indexed") \in State /\ Moved(node, r("indexed"), "executed", "indexed")
        /\ r("stored").maxMem = node.maxMem /\ r("stored").stored = node.stored
        /\ r("indexed").stored = node.stored
    BY <1>1, SetResultState, IndexRange
  <2> DEFINE x == [r("indexed") EXCEPT !.maxMem = i, !.maxKey = i]
             y == [r("indexed") EXCEPT !.maxMem = i]
  <2>2. /\ x \in State /\ Moved(node, x, "executed", "indexed")
        /\ x.maxMem = i /\ x.stored = node.stored
    <3> HIDE DEF r, i
    <3>1. /\ x \in State /\ x.maxMem = i /\ x.stored = node.stored
          /\ x.results = r("indexed").results /\ x.committed = r("indexed").committed /\ x.expected = r("indexed").expected
          /\ x.caches = r("indexed").caches /\ x.notified = r("indexed").notified /\ SameStable(r("indexed"), x)
          /\ x.running = r("indexed").running /\ x.executing = r("indexed").executing
      BY <2>1 DEF State, SameStable
    <3> HIDE DEF x
    <3> QED BY <2>1, <3>1, MovedStorage
  <2>3. y \in State /\ Moved(node, y, "executed", "indexed")
    <3> HIDE DEF r, i
    <3>1. /\ y \in State
          /\ y.results = r("indexed").results /\ y.committed = r("indexed").committed /\ y.expected = r("indexed").expected
          /\ y.caches = r("indexed").caches /\ y.notified = r("indexed").notified /\ SameStable(r("indexed"), y)
          /\ y.running = r("indexed").running /\ y.executing = r("indexed").executing
      BY <2>1 DEF State, SameStable
    <3> HIDE DEF y
    <3> QED BY <2>1, <3>1, MovedStorage
  <2>4. CASE StoreIndex
    <3>1. /\ node' = IF node.maxMem >= i THEN r("stored") ELSE x
          /\ reported' = reported /\ FaultsGrow
      BY <2>1, <2>4, PlainStep DEF StoreIndex
    <3>2. node.maxMem >= i \/ node.maxMem < i
      BY <1>0, <2>1
    <3> HIDE DEF x, r
    <3> QED BY <1>0, <2>1, <2>2, <3>1, <3>2 DEF Stores
  <2>5. CASE StoreIndexFails
    <3>1. node' = y /\ reported' = reported /\ FaultsGrow /\ faults'["put"] > 0
      BY <2>1, <2>5, OneEvent, FaultNames DEF StoreIndexFails
    <3> HIDE DEF y
    <3> QED BY <2>3, <3>1
  <2>6. "executed" # "indexed"
    OBVIOUS
  <2> QED BY <1>1, <2>4, <2>5, <2>6 DEF NextResult, StoreProposal, StoreProposalFails
<1>2. CASE NextResult("indexed")
  <2>1. /\ i \in Index /\ Head(node.results).index = i
        /\ r("stored") \in State /\ Moved(node, r("stored"), "indexed", "stored")
        /\ r("stored").maxMem = node.maxMem /\ r("stored").stored = node.stored
    BY <1>2, SetResultState
  <2> DEFINE x == [r("stored") EXCEPT !.stored = @ \cup {i}]
  <2>2. /\ x \in State /\ Moved(node, x, "indexed", "stored")
        /\ x.maxMem = node.maxMem /\ x.stored = node.stored \cup {i}
    <3> HIDE DEF r, i
    <3>1. /\ x \in State /\ x.maxMem = node.maxMem /\ x.stored = node.stored \cup {i}
          /\ x.results = r("stored").results /\ x.committed = r("stored").committed /\ x.expected = r("stored").expected
          /\ x.caches = r("stored").caches /\ x.notified = r("stored").notified /\ SameStable(r("stored"), x)
          /\ x.running = r("stored").running /\ x.executing = r("stored").executing
      BY <1>0, <2>1 DEF State, SameStable
    <3> HIDE DEF x
    <3> QED BY <2>1, <3>1, MovedStorage
  <2>3. CASE StoreProposal
    <3>1. node' = x /\ reported' = reported /\ FaultsGrow
      BY <2>1, <2>3, PlainStep DEF StoreProposal
    <3> HIDE DEF x
    <3> QED BY <2>2, <3>1 DEF Stores
  <2>4. CASE StoreProposalFails
    <3>1. node' = r("stored") /\ reported' = reported /\ FaultsGrow /\ faults'["put"] > 0
      BY <2>4, OneEvent, FaultNames DEF StoreProposalFails
    <3> HIDE DEF r
    <3> QED BY <2>1, <3>1
  <2>5. "executed" # "indexed"
    OBVIOUS
  <2> QED BY <1>2, <2>3, <2>4, <2>5 DEF NextResult, StoreIndex, StoreIndexFails
<1> QED BY <1>1, <1>2 DEF StoreIndex, StoreProposal, StoreIndexFails, StoreProposalFails

\* The worker's writes keep types and invariant.
LEMMA StoreActions ==
  ASSUME TypeOK, PipelineInv,
         StoreIndex \/ StoreProposal \/ StoreIndexFails \/ StoreProposalFails
  PROVE  /\ TypeOK' /\ PipelineInv' /\ reported' = reported
         /\ \E a, b \in {"executed", "indexed", "stored"} : Moved(node, node', a, b)
<1>1. /\ node' \in State /\ reported' = reported /\ FaultsGrow
      /\ Stores(node, node') \/ faults'["put"] > 0
  BY StoreMoves
<1>2. PICK a, b \in {"executed", "indexed", "stored"} : Moved(node, node', a, b)
  BY StoreMoves
<1>3. node \in State /\ Shape(node) /\ Voted(node, reported)
  BY DEF TypeOK, PipelineInv
<1>4. /\ Shape(node') /\ Voted(node', reported)
      /\ Once(node) => Once(node')
      /\ Chain(node) => Chain(node')
  BY <1>1, <1>2, <1>3, MovedKeeps
<1>5. Stores(node, node') /\ Kept(node) => Kept(node')
  BY <1>1, <1>3, StoresKept
<1>6. /\ Shape(node)' /\ Voted(node, reported)'
      /\ Once(node) => Once(node)'
      /\ faults'["put"] = 0 /\ Kept(node) => Kept(node)'
      /\ Chain(node) => Chain(node)'
  BY <1>1, <1>4, <1>5
<1>7. TypeOK'
  BY <1>1 DEF TypeOK, FaultsGrow
<1> QED BY <1>1, <1>2, <1>6, <1>7, StepKeeps

\* the worker has taken the first result
Taken(s, t) ==
  /\ s.results # <<>> /\ t.results = Tail(s.results)
  /\ t.committed = s.committed /\ t.notified = s.notified
  /\ t.maxMem = s.maxMem /\ t.stored = s.stored

\* Handled takes the first result and changes nothing else.
LEMMA HandledState ==
  ASSUME TypeOK, NEW a, NextResult(a)
  PROVE  LET t == Handled(node) IN
         /\ t \in State /\ Taken(node, t) /\ t.expected = node.expected
         /\ t.caches = node.caches /\ SameStable(node, t)
         /\ t.running = node.running /\ t.executing = node.executing
         /\ node.results[1].state = a /\ Head(node.results).index = node.results[1].index
         /\ node.results[1].index \in Index
<1> DEFINE t == Handled(node)
<1>0. node \in State /\ node.results # <<>>
  BY DEF TypeOK, NextResult
<1>1. node.results \in Seq(Result)
  BY <1>0, Fields
<1>2. /\ node.results[1].state = a /\ Head(node.results) = node.results[1]
      /\ node.results[1] \in Result /\ Tail(node.results) \in Seq(Result)
  BY <1>0, <1>1, RestOfResults DEF NextResult
<1>3. node.results[1].index \in Index
  BY <1>2 DEF Result
<1>4. t = [node EXCEPT !.results = Tail(node.results)]
  BY <1>0 DEF Handled, State
<1> HIDE DEF t
<1>5. t \in State
  BY <1>0, <1>2, <1>4 DEF State
<1>6. Taken(node, t)
  BY <1>0, <1>4 DEF State, Taken
<1>7. /\ t.expected = node.expected /\ t.caches = node.caches /\ SameStable(node, t)
      /\ t.running = node.running /\ t.executing = node.executing
  BY <1>0, <1>4 DEF State, SameStable
<1> QED BY <1>2, <1>3, <1>5, <1>6, <1>7 DEF t

\* The results that still wait after the first one was taken.
LEMMA TakenFacts ==
  ASSUME NEW s \in State, NEW t \in State, Taken(s, t)
  PROVE  /\ Len(t.results) \in Nat /\ 1 \in 1 .. Len(s.results)
         /\ \A k \in 1 .. Len(t.results) : /\ t.results[k] = s.results[k + 1]
                                           /\ k + 1 \in 1 .. Len(s.results)
                                           /\ k \in Int /\ k >= 1 /\ k + 1 > 1
         /\ \A i : Waits(t, i) => Waits(s, i)
<1>1. s.results \in Seq(Result)
  BY Fields
<1>2. /\ 1 \in 1 .. Len(s.results)
      /\ Tail(s.results) \in Seq(Result)
      /\ \A k \in 1 .. Len(t.results) : t.results[k] = s.results[k + 1] /\ k + 1 \in 1 .. Len(s.results)
  BY <1>1, RestOfResults DEF Taken
<1>3. Len(t.results) \in Nat
  BY Numbers
<1>4. \A k \in 1 .. Len(t.results) : k \in Int /\ k >= 1 /\ k + 1 > 1
  BY <1>3
<1>5. \A i : Waits(t, i) => Waits(s, i)
  BY <1>2 DEF Waits
<1> QED BY <1>2, <1>3, <1>4, <1>5

\* an execution has failed: expectedCheckPoint is set back, and the number that
\* was expected before may be executed
Failed(s, t) ==
  /\ Taken(s, t) /\ s.results[1].state = "failed"
  /\ t.expected = s.committed + 1
  /\ t.caches = s.caches /\ SameStable(s, t)
  /\ \/ t.running = s.running
     \/ /\ s.expected \in Index /\ LastApplied(s)
        /\ t.running = [s.running EXCEPT ![s.expected] = @ + 1]

\* onProposalApplyFailed pushes the proposal again and sets the register back.
LEMMA FailedState ==
  ASSUME TypeOK, ApplyFailed
  PROVE  node' \in State /\ Failed(node, node') /\ reported' = reported /\ FaultsGrow
<1> DEFINE h == Handled(node)
           i == Head(node.results).index
           e == eraseExecutedProposal(h, i)
           u == IF i >= h.committed \/ i >= h.syncing THEN updateCommitQueue(e, i) ELSE h
           x == setExpectedCheckPoint(u, h.committed + 1)
           t == eraseExecutedProposal(x, i)
<1>0. node' = t /\ reported' = reported /\ FaultsGrow
  <2>1. onProposalApplyFailed(h, i) = t
    BY DEF onProposalApplyFailed
  <2> QED BY <2>1, PlainStep DEF ApplyFailed
<1>1. /\ h \in State /\ Taken(node, h) /\ h.expected = node.expected
      /\ h.caches = node.caches /\ SameStable(node, h)
      /\ h.running = node.running /\ h.executing = node.executing
      /\ node.results[1].state = "failed" /\ i \in Index
  BY HandledState DEF ApplyFailed
<1> HIDE DEF h, i
<1>2. /\ e \in State /\ SameRegisters(h, e) /\ e.expected = h.expected /\ e.caches = h.caches
      /\ SameStable(h, e) /\ e.running = h.running
  BY <1>1, EraseExecuted
<1> HIDE DEF e
<1>3. /\ u \in State /\ SameRegisters(h, u) /\ u.caches = h.caches /\ SameStable(h, u)
      /\ \/ u.running = h.running
         \/ /\ h.expected \in Index /\ LastApplied(h)
            /\ u.running = [h.running EXCEPT ![h.expected] = @ + 1]
  <2>1. updateCommitQueue(e, i) \in State /\ Started(e, updateCommitQueue(e, i))
    BY <1>1, <1>2, UpdateQueue
  <2>2. CASE u = updateCommitQueue(e, i)
    <3> HIDE DEF u
    <3>1. LastApplied(e) => LastApplied(h)
      BY <1>2 DEF LastApplied, SameRegisters
    <3> QED BY <1>2, <2>1, <2>2, <3>1 DEF Started, Begins, SameRegisters, SameStable
  <2>3. CASE u = h
    <3> HIDE DEF u
    <3> QED BY <1>1, <2>3 DEF SameRegisters, SameStable
  <2> QED BY <2>2, <2>3
<1> HIDE DEF u
<1>4. u.committed = h.committed /\ h.committed + 1 \in 1 .. MaxIndex + 1
  BY <1>1, <1>3, Fields, IndexRange, SMTT(20) DEF SameRegisters
<1>5. /\ x \in State /\ SameRegisters(u, x) /\ x.caches = u.caches /\ SameStable(u, x)
      /\ x.running = u.running
      /\ x.expected = h.committed + 1
  BY <1>3, <1>4, SetExpected
<1> HIDE DEF x
<1>6. /\ t \in State /\ SameRegisters(x, t) /\ t.expected = x.expected /\ t.caches = x.caches
      /\ SameStable(x, t) /\ t.running = x.running
  BY <1>1, <1>5, EraseExecuted
<1> HIDE DEF t
<1>7. LastApplied(h) => LastApplied(node)
  BY <1>1 DEF LastApplied, Taken
<1>8. Failed(node, t)
  <2>1. /\ Taken(node, t) /\ t.expected = node.committed + 1
        /\ t.caches = node.caches /\ SameStable(node, t)
    BY <1>1, <1>3, <1>5, <1>6 DEF Taken, SameRegisters, SameStable
  <2>2. \/ t.running = node.running
        \/ /\ node.expected \in Index /\ LastApplied(node)
           /\ t.running = [node.running EXCEPT ![node.expected] = @ + 1]
    BY <1>1, <1>3, <1>5, <1>6, <1>7
  <2> QED BY <1>1, <2>1, <2>2 DEF Failed
<1> QED BY <1>0, <1>6, <1>8

\* A failed execution keeps types and invariant.
LEMMA FailActions ==
  ASSUME TypeOK, PipelineInv, ApplyFailed
  PROVE  TypeOK' /\ PipelineInv' /\ reported' = reported /\ Failed(node, node')
<1> DEFINE s == node
           t == node'
<1>1. s \in State /\ t \in State /\ Failed(s, t) /\ reported' = reported /\ FaultsGrow
  BY FailedState DEF TypeOK
<1>2. Shape(s) /\ Voted(s, reported)
  BY DEF PipelineInv
<1> HIDE DEF s, t
<1>3. /\ Taken(s, t) /\ s.results[1].state = "failed" /\ t.expected = s.committed + 1
      /\ t.caches = s.caches /\ t.stableQueue = s.stableQueue /\ t.committing = s.committing
      /\ t.committed = s.committed /\ t.notified = s.notified
      /\ t.maxMem = s.maxMem /\ t.stored = s.stored
  BY <1>1 DEF Failed, SameStable, Taken
<1>4. /\ 1 \in 1 .. Len(s.results)
      /\ \A k \in 1 .. Len(t.results) : /\ t.results[k] = s.results[k + 1]
                                        /\ k + 1 \in 1 .. Len(s.results)
                                        /\ k \in Int /\ k >= 1 /\ k + 1 > 1
      /\ \A i : Waits(t, i) => Waits(s, i)
  BY <1>1, <1>3, TakenFacts
<1>5. ~Once(s)
  BY <1>3, <1>4 DEF Once
<1>6. \A i \in Index : \/ t.running[i] = s.running[i]
                       \/ i = s.expected /\ LastApplied(s)
  BY <1>1, Fields DEF Failed
<1>7. Shape(t) /\ Voted(t, reported)
  <2>1. t.expected > t.committed
    BY <1>1, <1>3, Numbers
  <2> QED BY <1>2, <1>3, <2>1 DEF Shape, Voted
<1>8. ASSUME Kept(s) PROVE Kept(t)
  <2>1. LastApplied(s) => s.expected <= s.maxMem + 1 \/ s.expected <= s.committed + 1
    BY <1>1, <1>8, Numbers DEF LastApplied, Kept
  <2>2. \A i \in Index : t.running[i] > 0 \/ Waits(t, i) => i <= t.maxMem + 1 \/ i <= t.committed + 1
    BY <1>3, <1>4, <1>6, <1>8, <2>1 DEF Kept
  <2>3. \A i \in Index : ~Indexed(s, i)
    BY <1>3 DEF Indexed
  <2>4. \A k \in 1 .. Len(t.results) : t.results[k].state \in {"failed", "executed"}
    BY <1>4, <1>8 DEF Kept
  <2> QED BY <1>3, <1>8, <2>2, <2>3, <2>4 DEF Kept
<1>9. ASSUME Chain(s) PROVE Chain(t)
  <2>1. \A i \in Index : HasResult(t, i) <=> HasResult(s, i)
    BY <1>3 DEF HasResult
  <2>2. \A i \in Index : ~(t.committed < i /\ i < t.expected)
    BY <1>1, <1>3, Numbers
  <2> QED BY <1>3, <1>4, <1>6, <1>9, <2>1, <2>2 DEF Chain
<1>10. TypeOK'
  BY <1>1 DEF TypeOK, FaultsGrow, t
<1>11. /\ Shape(node)' /\ Voted(node, reported)'
       /\ Once(node) => Once(node)'
       /\ Kept(node) => Kept(node)'
       /\ Chain(node) => Chain(node)'
  BY <1>1, <1>5, <1>7, <1>8, <1>9 DEF s, t
<1>12. PipelineInv'
  BY <1>1, <1>11, StepKeeps
<1> QED BY <1>1, <1>10, <1>12 DEF s, t

-----------------------------------------------------------------------------
(* Results and CheckPoint messages *)

\* the number has a result that a quorum agrees with
Agreeing(t, j) == t.caches[j].checkpoint /\ IsQuorum(t.caches[j].votes)

\* what number j is like after node p has reported number i; "done" says that
\* the node itself has the result of i
ReportsAt(s, t, i, p, done, j) ==
  /\ t.caches[j].checkpoint <=> s.caches[j].checkpoint \/ (done /\ j = i /\ i > s.committed)
  /\ t.caches[j].votes = IF j = i THEN s.caches[j].votes \cup {p} ELSE s.caches[j].votes
  /\ t.caches[j].stable /\ ~s.caches[j].stable
     => /\ Agreeing(t, j)
        /\ j > s.committed => t.stableQueue[j] > 0 \/ t.committing[j] > 0
        /\ j > s.committed + 1 => t.stableQueue[j] > 0
  /\ t.committing[j] > 0
     => s.committing[j] > 0 \/ (j = s.committed + 1 /\ (s.stableQueue[j] > 0 \/ Agreeing(t, j)))
  /\ t.stableQueue[j] > 0 => s.stableQueue[j] > 0 \/ Agreeing(t, j)
  /\ s.committing[j] > 0 => t.committing[j] > 0
  /\ j > s.committed /\ s.stableQueue[j] > 0 => t.stableQueue[j] > 0 \/ t.committing[j] > 0
  /\ j > s.committed + 1 /\ s.stableQueue[j] > 0 => t.stableQueue[j] > 0

Reports(s, t, i, p, done) ==
  /\ t.committed = s.committed /\ t.notified = s.notified
  /\ t.maxMem = s.maxMem /\ t.stored = s.stored
  /\ \A j \in Index : ReportsAt(s, t, i, p, done, j)

\* The caches after a vote, and what checkAndCommitStableCheckPoint makes of them.
LEMMA ReportsFrom ==
  ASSUME NEW s \in State, NEW r \in State, NEW t \in State, NEW i \in Index, NEW p, NEW done,
         Stabilised(r, t, NewlyStable(r)),
         r.committed = s.committed, SameStable(s, r),
         t.committed = s.committed, t.notified = s.notified,
         t.maxMem = s.maxMem, t.stored = s.stored,
         \A j \in Index :
           /\ r.caches[j].checkpoint <=> s.caches[j].checkpoint \/ (done /\ j = i /\ i > s.committed)
           /\ r.caches[j].stable = s.caches[j].stable
           /\ r.caches[j].votes = IF j = i THEN s.caches[j].votes \cup {p} ELSE s.caches[j].votes
  PROVE  Reports(s, t, i, p, done)
<1> SUFFICES ASSUME NEW j \in Index
             PROVE  ReportsAt(s, t, i, p, done, j)
  BY DEF Reports
<1>1. Stabilised(r, t, NewlyStable(r))!(j)
  BY DEF Stabilised
<1>2. t.caches[j].checkpoint = r.caches[j].checkpoint /\ t.caches[j].votes = r.caches[j].votes
  BY <1>1
<1>3. j \in NewlyStable(r) => Agreeing(t, j)
  BY <1>2 DEF NewlyStable, Agreeing
<1>4. r.stableQueue = s.stableQueue /\ r.committing = s.committing
  BY DEF SameStable
<1>5. r.committed = s.committed
  OBVIOUS
<1>6. /\ r.caches[j].checkpoint <=> s.caches[j].checkpoint \/ (done /\ j = i /\ i > s.committed)
      /\ r.caches[j].stable = s.caches[j].stable
      /\ r.caches[j].votes = IF j = i THEN s.caches[j].votes \cup {p} ELSE s.caches[j].votes
  OBVIOUS
<1>7. t.caches[j].stable /\ ~s.caches[j].stable => j \in NewlyStable(r)
  BY <1>1, <1>6
<1>8. j \in NewlyStable(r)
      => /\ j > s.committed => t.stableQueue[j] > 0 \/ t.committing[j] > 0
         /\ j > s.committed + 1 => t.stableQueue[j] > 0
  BY <1>1, <1>5
<1>9. /\ t.committing[j] > 0
         => s.committing[j] > 0 \/ (j = s.committed + 1 /\ (s.stableQueue[j] > 0 \/ Agreeing(t, j)))
      /\ t.stableQueue[j] > 0 => s.stableQueue[j] > 0 \/ Agreeing(t, j)
      /\ s.committing[j] > 0 => t.committing[j] > 0
      /\ j > s.committed /\ s.stableQueue[j] > 0 => t.stableQueue[j] > 0 \/ t.committing[j] > 0
      /\ j > s.committed + 1 /\ s.stableQueue[j] > 0 => t.stableQueue[j] > 0
  BY <1>1, <1>3, <1>4, <1>5
<1> QED BY <1>2, <1>3, <1>6, <1>7, <1>8, <1>9 DEF ReportsAt

\* Reports keep Voted and the part of Shape on caches and queues, and lose no
\* result.
LEMMA ReportsKeep ==
  ASSUME NEW s \in State, NEW t \in State, NEW i \in Index, NEW p, NEW done, NEW R, NEW Q,
         \A j \in Index : R[j] \subseteq Q[j], p \in Q[i], done => Me \in Q[i],
         Reports(s, t, i, p, done), Shape(s), Voted(s, R)
  PROVE  /\ t.expected > t.committed => Shape(t)
         /\ Voted(t, Q)
         /\ \A j \in Index : HasResult(s, j) /\ j > s.committed => HasResult(t, j)
         /\ (\A j \in Index : s.caches[j].stable => s.stableQueue[j] > 0 \/ s.committing[j] > 0)
            => \A j \in Index : t.caches[j].stable => t.stableQueue[j] > 0 \/ t.committing[j] > 0
<1>1. \A j \in Index : ReportsAt(s, t, i, p, done, j)
  BY DEF Reports
<1>2. t.committed = s.committed /\ s.committed \in Int
  BY Numbers DEF Reports
<1>3. ASSUME NEW j \in Index
      PROVE  /\ t.caches[j].checkpoint => j > t.committed
             /\ t.caches[j].stable => t.caches[j].checkpoint
             /\ t.caches[j].stable /\ j > t.committed + 1 => t.stableQueue[j] > 0
             /\ t.committing[j] > 0 => j <= t.committed + 1
             /\ HasResult(s, j) /\ j > s.committed => HasResult(t, j)
             /\ (s.caches[j].stable => s.stableQueue[j] > 0 \/ s.committing[j] > 0)
                => (t.caches[j].stable => t.stableQueue[j] > 0 \/ t.committing[j] > 0)
  <2>1. ReportsAt(s, t, i, p, done, j)
    BY <1>1
  <2>2. /\ s.caches[j].checkpoint => j > s.committed
        /\ s.caches[j].stable => s.caches[j].checkpoint
        /\ s.caches[j].stable /\ j > s.committed + 1 => s.stableQueue[j] > 0
        /\ s.committing[j] > 0 => j <= s.committed + 1
    BY DEF Shape
  <2>3. j \in Int
    BY IndexRange
  <2>4. t.caches[j].checkpoint => j > t.committed
    BY <1>2, <2>1, <2>2 DEF ReportsAt
  <2>5. t.caches[j].stable => t.caches[j].checkpoint
    BY <2>1, <2>2 DEF Agreeing, ReportsAt
  <2>6. t.caches[j].stable /\ j > t.committed + 1 => t.stableQueue[j] > 0
    BY <1>2, <2>1, <2>2 DEF ReportsAt
  <2>7. t.committing[j] > 0 => j <= t.committed + 1
    BY <1>2, <2>1, <2>2, <2>3 DEF ReportsAt
  <2>8. HasResult(s, j) /\ j > s.committed => HasResult(t, j)
    BY <2>1 DEF HasResult, ReportsAt
  <2>9. (s.caches[j].stable => s.stableQueue[j] > 0 \/ s.committing[j] > 0)
        => (t.caches[j].stable => t.stableQueue[j] > 0 \/ t.committing[j] > 0)
    BY <1>2, <2>1, <2>4, <2>5 DEF ReportsAt
  <2> QED BY <2>4, <2>5, <2>6, <2>7, <2>8, <2>9
<1>4. ASSUME NEW j \in Index PROVE Voted(t, Q)!(j)
  <2>1. ReportsAt(s, t, i, p, done, j)
    BY <1>1
  <2>2. Voted(s, R)!(j)
    BY DEF Voted
  <2>3. R[j] \subseteq Q[j] /\ (j = i => p \in Q[j] /\ (done => Me \in Q[j]))
    OBVIOUS
  <2>4. t.caches[j].votes \subseteq Q[j]
    BY <2>1, <2>2, <2>3 DEF ReportsAt
  <2>5. t.caches[j].checkpoint => Me \in Q[j]
    BY <2>1, <2>2, <2>3 DEF ReportsAt
  <2>6. IsQuorum(R[j]) => IsQuorum(Q[j])
    BY <2>3, QuorumMonotonic
  <2>7. IsQuorum(t.caches[j].votes) => IsQuorum(Q[j])
    BY <2>4, QuorumMonotonic
  <2>8. t.stableQueue[j] > 0 \/ t.committing[j] > 0 => Me \in Q[j] /\ IsQuorum(Q[j])
    BY <2>1, <2>2, <2>3, <2>5, <2>6, <2>7 DEF Agreeing, ReportsAt
  <2> QED BY <2>4, <2>5, <2>8
<1> QED BY <1>3, <1>4 DEF Shape, Voted

\* an execution begins on the last block or on a result
BeginsAt(s, t, e) ==
  /\ e \in Index \ s.executing
  /\ e - 1 = s.committed \/ (e - 1 \in Index /\ t.caches[e - 1].checkpoint)
  /\ t.running = [s.running EXCEPT ![e] = @ + 1]

\* the worker has taken the result of i into account
Succeeded(s, t, i) ==
  /\ Taken(s, t) /\ s.results[1].state = "stored" /\ s.results[1].index = i
  /\ Reports(s, t, i, Me, TRUE)
  /\ t.expected > s.committed /\ t.expected > i
  /\ t.expected = s.committed + 1 \/ t.expected = i + 1
  /\ s.executing \ {i} \subseteq t.executing
  /\ \/ t.running = s.running
     \/ BeginsAt(s, t, t.expected) /\ t.expected \in t.executing

\* onProposalApplySuccess takes the result of its number into account.
LEMMA SucceededState ==
  ASSUME TypeOK, ApplySuccess
  PROVE  \E i \in Index :
           /\ node' \in State /\ Succeeded(node, node', i) /\ FaultsGrow /\ faults' = faults
           /\ reported' \in [Index -> SUBSET Node]
           /\ \A j \in Index : reported'[j] = IF j = i THEN reported[j] \cup {Me} ELSE reported[j]
<1> DEFINE h == Handled(node)
           i == Head(node.results).index
           a == addCheckPointMsg(h, i, Me)
           b == setCheckPointProposal(a, i)
           r == setExpectedCheckPoint(b, i + 1)
           c == checkAndCommitStableCheckPoint(r)
           d == tryToApplyCommitQueue(c)
           t == eraseExecutedProposal(d, i)
<1>0. VoteStep(i, Me, t)
  BY DEF ApplySuccess, onProposalApplySuccess
<1>1. /\ h \in State /\ Taken(node, h) /\ h.expected = node.expected
      /\ h.caches = node.caches /\ SameStable(node, h)
      /\ h.running = node.running /\ h.executing = node.executing
      /\ node.results[1].state = "stored" /\ i = node.results[1].index /\ i \in Index
  BY HandledState DEF ApplySuccess
<1>2. node \in State /\ Me \in Node
  BY PipelineAssumption DEF TypeOK
<1> HIDE DEF h, i
<1>3. /\ a \in State
      /\ \A j \in Index : /\ a.caches[j].checkpoint = h.caches[j].checkpoint
                          /\ a.caches[j].stable = h.caches[j].stable
                          /\ a.caches[j].votes = IF j = i THEN h.caches[j].votes \cup {Me}
                                                 ELSE h.caches[j].votes
      /\ SameRegisters(h, a) /\ SameStable(h, a) /\ a.running = h.running
      /\ a.executing = h.executing
  <2>1. h \in State /\ i \in Index /\ Me \in Node
    BY <1>1, <1>2
  <2> QED BY <2>1, AddCheckPoint, ZenonT(30)
<1> HIDE DEF a
<1>4. /\ b \in State
      /\ \A j \in Index : /\ b.caches[j].checkpoint
                             <=> a.caches[j].checkpoint \/ (j = i /\ i > a.committed)
                          /\ b.caches[j].stable = a.caches[j].stable
                          /\ b.caches[j].votes = a.caches[j].votes
      /\ SameRegisters(a, b) /\ SameStable(a, b) /\ b.running = a.running
      /\ b.executing = a.executing
  BY <1>1, <1>3, SetCheckPoint
<1> HIDE DEF b
<1>5. i \in Int /\ i + 1 \in 1 .. MaxIndex + 1
  BY <1>1, IndexRange
<1>6. /\ r \in State /\ r.expected > b.committed /\ r.expected >= i + 1
      /\ r.expected = b.committed + 1 \/ r.expected = i + 1
      /\ SameRegisters(b, r) /\ r.caches = b.caches /\ SameStable(b, r)
      /\ r.running = b.running /\ r.executing = b.executing
  BY <1>4, <1>5, SetExpected
<1> HIDE DEF r
<1>7. /\ c \in State /\ Stabilised(r, c, NewlyStable(r))
      /\ SameRegisters(r, c) /\ c.expected = r.expected
      /\ c.running = r.running /\ c.executing = r.executing
  BY <1>6, CheckStable
<1> HIDE DEF c
<1>8. d \in State /\ Started(c, d)
  BY <1>7, ApplyQueue
<1> HIDE DEF d
<1>9. /\ t \in State /\ t.executing = d.executing \ {i}
      /\ SameRegisters(d, t) /\ t.expected = d.expected /\ t.caches = d.caches
      /\ SameStable(d, t) /\ t.running = d.running
  BY <1>1, <1>8, EraseExecuted
<1> HIDE DEF t
<1>10. /\ h.committed = node.committed /\ a.committed = node.committed
       /\ b.committed = node.committed /\ r.committed = node.committed
       /\ c.committed = node.committed /\ t.committed = node.committed
       /\ t.notified = node.notified /\ t.maxMem = node.maxMem /\ t.stored = node.stored
       /\ t.results = Tail(node.results) /\ Taken(node, t)
  BY <1>1, <1>3, <1>4, <1>6, <1>7, <1>8, <1>9 DEF Taken, SameRegisters, Started
<1>11. \A j \in Index :
         /\ r.caches[j].checkpoint <=> node.caches[j].checkpoint \/ (j = i /\ i > node.committed)
         /\ r.caches[j].stable = node.caches[j].stable
         /\ r.caches[j].votes = IF j = i THEN node.caches[j].votes \cup {Me} ELSE node.caches[j].votes
  <2> TAKE j \in Index
  <2>1. r.caches[j] = b.caches[j] /\ h.caches[j] = node.caches[j]
    BY <1>1, <1>6
  <2>2. /\ a.caches[j].checkpoint = h.caches[j].checkpoint
        /\ a.caches[j].stable = h.caches[j].stable
        /\ a.caches[j].votes = IF j = i THEN h.caches[j].votes \cup {Me} ELSE h.caches[j].votes
    BY <1>3, Zenon
  <2>3. /\ b.caches[j].checkpoint <=> a.caches[j].checkpoint \/ (j = i /\ i > node.committed)
        /\ b.caches[j].stable = a.caches[j].stable
        /\ b.caches[j].votes = a.caches[j].votes
    BY <1>4, <1>10, Zenon
  <2> QED BY <2>1, <2>2, <2>3, Zenon
<1>12. SameStable(node, r)
  BY <1>1, <1>3, <1>4, <1>6 DEF SameStable
<1>13. Stabilised(r, t, NewlyStable(r))
  BY <1>7, <1>8, <1>9 DEF Started, SameStable, Stabilised
<1>14. Reports(node, t, i, Me, TRUE)
  <2> DEFINE done == TRUE
  <2>1. \A j \in Index :
         /\ r.caches[j].checkpoint <=> node.caches[j].checkpoint \/ (done /\ j = i /\ i > node.committed)
         /\ r.caches[j].stable = node.caches[j].stable
         /\ r.caches[j].votes = IF j = i THEN node.caches[j].votes \cup {Me} ELSE node.caches[j].votes
    BY <1>11
  <2>2. /\ node \in State /\ r \in State /\ t \in State /\ i \in Index
        /\ r.committed = node.committed /\ SameStable(node, r)
        /\ t.committed = node.committed /\ t.notified = node.notified
        /\ t.maxMem = node.maxMem /\ t.stored = node.stored
    BY <1>1, <1>2, <1>6, <1>9, <1>10, <1>12
  <2> HIDE DEF done
  <2>3. Reports(node, t, i, Me, done)
    BY <1>13, <2>1, <2>2, ReportsFrom, Zenon
  <2> QED BY <2>3 DEF done
<1>15. t.expected = r.expected /\ r.executing = node.executing /\ r.running = node.running
       /\ c.executing = node.executing /\ c.running = node.running /\ c.expected = t.expected
  BY <1>1, <1>3, <1>4, <1>6, <1>7, <1>8, <1>9 DEF Started
<1>16. /\ t.expected > node.committed /\ t.expected > i
       /\ t.expected = node.committed + 1 \/ t.expected = i + 1
  <2>1. r.expected \in Int /\ node.committed \in Int
    BY <1>2, <1>6, Numbers
  <2> QED BY <1>5, <1>6, <1>10, <1>15, <2>1
<1>17. node.executing \ {i} \subseteq t.executing
  <2>1. c.executing \subseteq d.executing
    BY <1>8 DEF Started, Begins
  <2> QED BY <1>9, <1>15, <2>1
<1>18. t.running = node.running \/ (BeginsAt(node, t, t.expected) /\ t.expected \in t.executing)
  <2>1. CASE d.running = c.running
    BY <1>9, <1>15, <2>1
  <2>2. CASE Begins(c, d)
    <3>1. t.expected \in Index \ node.executing /\ t.running = [node.running EXCEPT ![t.expected] = @ + 1]
      BY <1>9, <1>15, <2>2 DEF Begins
    <3>2. t.expected \in t.executing
      BY <1>5, <1>9, <1>15, <1>16, <2>2 DEF Begins
    <3>3. t.caches = c.caches
      BY <1>8, <1>9 DEF Started
    <3>4. \/ t.expected - 1 = node.committed
          \/ t.expected - 1 \in Index /\ t.caches[t.expected - 1].checkpoint
      BY <1>10, <1>15, <2>2, <3>3 DEF Begins, LastApplied
    <3> QED BY <3>1, <3>2, <3>4 DEF BeginsAt
  <2> QED BY <1>8, <2>1, <2>2 DEF Started
<1>19. Succeeded(node, t, i)
  BY <1>1, <1>10, <1>14, <1>16, <1>17, <1>18 DEF Succeeded
<1>20. /\ node' = t /\ FaultsGrow /\ faults' = faults
       /\ reported' \in [Index -> SUBSET Node]
       /\ \A j \in Index : reported'[j] = IF j = i THEN reported[j] \cup {Me} ELSE reported[j]
  BY <1>0, <1>1, <1>2, ReportStep, ZenonT(30)
<1> QED BY <1>1, <1>9, <1>19, <1>20

\* Taking a result into account keeps the invariant.
LEMMA SucceededKeeps ==
  ASSUME NEW s \in State, NEW t \in State, NEW i \in Index, Succeeded(s, t, i),
         NEW R \in [Index -> SUBSET Node], NEW Q \in [Index -> SUBSET Node],
         \A j \in Index : Q[j] = IF j = i THEN R[j] \cup {Me} ELSE R[j],
         Shape(s), Voted(s, R)
  PROVE  Shape(t) /\ Voted(t, Q) /\ Keeps(s, t)
<1>1. /\ t.committed = s.committed /\ t.notified = s.notified
      /\ t.maxMem = s.maxMem /\ t.stored = s.stored
      /\ \A j \in Index : t.caches[j].checkpoint
                          <=> s.caches[j].checkpoint \/ (j = i /\ i > s.committed)
  BY DEF Succeeded, Reports, ReportsAt
<1>2. /\ Shape(t) /\ Voted(t, Q)
      /\ \A j \in Index : HasResult(s, j) /\ j > s.committed => HasResult(t, j)
      /\ (\A j \in Index : s.caches[j].stable => s.stableQueue[j] > 0 \/ s.committing[j] > 0)
         => \A j \in Index : t.caches[j].stable => t.stableQueue[j] > 0 \/ t.committing[j] > 0
  <2> DEFINE done == TRUE
  <2>1. /\ Me \in Node /\ Reports(s, t, i, Me, done) /\ t.expected > t.committed
        /\ Me \in Q[i] /\ (done => Me \in Q[i]) /\ \A j \in Index : R[j] \subseteq Q[j]
    BY <1>1, PipelineAssumption DEF Succeeded
  <2> HIDE DEF done
  <2>2. /\ t.expected > t.committed => Shape(t)
        /\ Voted(t, Q)
        /\ \A j \in Index : HasResult(s, j) /\ j > s.committed => HasResult(t, j)
        /\ (\A j \in Index : s.caches[j].stable => s.stableQueue[j] > 0 \/ s.committing[j] > 0)
           => \A j \in Index : t.caches[j].stable => t.stableQueue[j] > 0 \/ t.committing[j] > 0
    BY <2>1, ReportsKeep, Zenon
  <2> QED BY <2>1, <2>2
<1>3. /\ 1 \in 1 .. Len(s.results)
      /\ \A k \in 1 .. Len(t.results) : /\ t.results[k] = s.results[k + 1]
                                        /\ k + 1 \in 1 .. Len(s.results)
                                        /\ k \in Int /\ k >= 1 /\ k + 1 > 1
      /\ \A j : Waits(t, j) => Waits(s, j)
      /\ s.results[1].index = i /\ s.results[1].state = "stored" /\ Waits(s, i)
  BY TakenFacts DEF Succeeded, Waits
<1>4. \A j \in Index : \/ t.running[j] = s.running[j]
                       \/ /\ j = t.expected /\ j \notin s.executing /\ j \in t.executing
                          /\ t.running[j] = s.running[j] + 1
                          /\ j - 1 = s.committed \/ (j - 1 \in Index /\ t.caches[j - 1].checkpoint)
  BY Fields DEF Succeeded, BeginsAt
<1>5. /\ t.expected > s.committed /\ t.expected > i /\ s.executing \ {i} \subseteq t.executing
      /\ t.expected = s.committed + 1 \/ t.expected = i + 1
  BY DEF Succeeded
<1>6. ASSUME Once(s) PROVE Once(t)
  <2>1. \A j \in Index : Waits(t, j) /\ j > s.committed => j # i
    <3>1. \A k \in 1 .. Len(t.results) : t.results[k].index > s.committed => t.results[k].index # i
      <4> SUFFICES ASSUME NEW k \in 1 .. Len(t.results), t.results[k].index > s.committed,
                          t.results[k].index = i
                   PROVE  FALSE
        OBVIOUS
      <4>1. k + 1 = 1
        BY <1>3, <1>6 DEF Once
      <4> QED BY <1>3, <4>1
    <3> QED BY <3>1 DEF Waits
  <2>2. \A j \in Index : Waits(s, j) /\ j > s.committed => j \in s.executing
    BY <1>6 DEF Once, Waits
  <2>3. ASSUME NEW j \in Index
        PROVE  /\ t.running[j] <= 1
               /\ t.running[j] > 0 /\ j > t.committed => j \in t.executing /\ ~Waits(t, j)
    <3>1. CASE t.running[j] = s.running[j]
      <4>1. s.running[j] > 0 /\ j > s.committed => j \in s.executing /\ ~Waits(s, j) /\ j # i
        BY <1>3, <1>6 DEF Once
      <4>2. s.running[j] <= 1
        BY <1>6 DEF Once
      <4> QED BY <1>1, <1>3, <1>5, <3>1, <4>1, <4>2
    <3>2. CASE j = t.expected /\ j \notin s.executing /\ j \in t.executing /\ t.running[j] = s.running[j] + 1
      <4>1. s.running[j] = 0
        BY <1>5, <1>6, <3>2, Numbers DEF Once
      <4> QED BY <1>3, <1>5, <2>2, <3>2, <4>1
    <3> QED BY <1>4, <3>1, <3>2
  <2>4. \A k \in 1 .. Len(t.results) :
          /\ t.results[k].state # "failed"
          /\ t.results[k].index > t.committed => t.results[k].index \in t.executing
    <3> SUFFICES ASSUME NEW k \in 1 .. Len(t.results)
                 PROVE  /\ t.results[k].state # "failed"
                        /\ t.results[k].index > t.committed => t.results[k].index \in t.executing
      OBVIOUS
    <3>1. t.results[k].index \in Index /\ Waits(t, t.results[k].index)
      BY Numbers DEF Waits
    <3>2. t.results[k].state # "failed"
      BY <1>3, <1>6 DEF Once
    <3> QED BY <1>1, <1>3, <1>5, <2>1, <2>2, <3>1, <3>2
  <2>5. ASSUME NEW j \in 1 .. Len(t.results), NEW k \in 1 .. Len(t.results),
               t.results[j].index = t.results[k].index, t.results[k].index > t.committed
        PROVE  j = k
    <3>1. /\ j + 1 \in 1 .. Len(s.results) /\ k + 1 \in 1 .. Len(s.results)
          /\ s.results[j + 1].index = s.results[k + 1].index
          /\ s.results[k + 1].index > s.committed
      BY <1>1, <1>3, <2>5
    <3>2. \A x, y \in 1 .. Len(s.results) :
            s.results[x].index = s.results[y].index /\ s.results[y].index > s.committed => x = y
      BY <1>6 DEF Once
    <3>3. j + 1 = k + 1
      BY <3>1, <3>2
    <3> QED BY <1>3, <3>3
  <2> QED BY <2>3, <2>4, <2>5 DEF Once
<1>7. ASSUME Kept(s) PROVE Kept(t)
  <2>1. i <= s.maxMem /\ (i > s.committed => i \in s.stored)
    BY <1>3, <1>7 DEF Kept
  <2>2. \A j \in Index : t.caches[j].checkpoint => j \in t.stored /\ j <= t.maxMem
    BY <1>1, <1>7, <2>1 DEF Kept
  <2>3. \A j \in Index : ~Indexed(s, j)
    BY <1>3 DEF Indexed
  <2>4. \A j \in Index : t.running[j] > 0 \/ Waits(t, j) => j <= t.maxMem + 1 \/ j <= t.committed + 1
    <3> SUFFICES ASSUME NEW j \in Index, t.running[j] > 0 \/ Waits(t, j)
                 PROVE  j <= t.maxMem + 1 \/ j <= t.committed + 1
      OBVIOUS
    <3>1. CASE s.running[j] > 0 \/ Waits(s, j)
      BY <1>1, <1>7, <3>1 DEF Kept
    <3>2. CASE j - 1 = s.committed \/ (j - 1 \in Index /\ t.caches[j - 1].checkpoint)
      BY <1>1, <2>2, <3>2, Numbers
    <3> QED BY <1>3, <1>4, <3>1, <3>2
  <2>5. \A k \in 1 .. Len(t.results) : t.results[k].state \in {"failed", "executed"}
    BY <1>3, <1>7 DEF Kept
  <2> QED BY <1>1, <1>7, <2>2, <2>3, <2>4, <2>5 DEF Kept
<1>8. ASSUME Chain(s) PROVE Chain(t)
  <2>1. \A j \in Index : t.committed < j /\ j < t.expected => HasResult(t, j)
    <3> SUFFICES ASSUME NEW j \in Index, t.committed < j, j < t.expected
                 PROVE  HasResult(t, j)
      OBVIOUS
    <3>1. j \in Int /\ i \in Int /\ s.committed \in Int
      BY Numbers
    <3>2. t.expected = i + 1 /\ (j < i \/ j = i)
      BY <1>1, <1>5, <3>1
    <3>3. CASE j < i
      BY <1>1, <1>2, <1>3, <1>8, <3>1, <3>3 DEF Chain
    <3>4. CASE j = i
      BY <1>1, <3>1, <3>4 DEF HasResult
    <3> QED BY <3>2, <3>3, <3>4
  <2>2. ASSUME NEW k \in Index, NEW j \in Index, t.running[k] > 0 \/ Waits(t, k),
               t.committed < j, j < k
        PROVE  HasResult(t, j)
    <3>1. CASE s.running[k] > 0 \/ Waits(s, k)
      <4>1. HasResult(s, j) /\ j > s.committed
        BY <1>1, <1>8, <2>2, <3>1, Numbers DEF Chain
      <4> QED BY <1>2, <4>1
    <3>2. CASE k = t.expected
      BY <2>1, <2>2, <3>2
    <3> QED BY <1>3, <1>4, <2>2, <3>1, <3>2
  <2>3. \A j \in Index : t.caches[j].stable => t.stableQueue[j] > 0 \/ t.committing[j] > 0
    BY <1>2, <1>8 DEF Chain
  <2> QED BY <1>1, <1>8, <2>1, <2>2, <2>3 DEF Chain
<1> QED BY <1>2, <1>6, <1>7, <1>8 DEF Keeps

\* A result taken into account keeps types and invariant.
LEMMA SuccessActions ==
  ASSUME TypeOK, PipelineInv, ApplySuccess
  PROVE  /\ TypeOK' /\ PipelineInv'
         /\ \E i \in Index :
              /\ Succeeded(node, node', i)
              /\ \A j \in Index : reported'[j] = IF j = i THEN reported[j] \cup {Me} ELSE reported[j]
<1>1. PICK i \in Index :
        /\ node' \in State /\ Succeeded(node, node', i) /\ FaultsGrow /\ faults' = faults
        /\ reported' \in [Index -> SUBSET Node]
        /\ \A j \in Index : reported'[j] = IF j = i THEN reported[j] \cup {Me} ELSE reported[j]
  BY SucceededState
<1>2. /\ node \in State /\ Shape(node) /\ Voted(node, reported)
      /\ reported \in [Index -> SUBSET Node]
  BY DEF TypeOK, PipelineInv
<1>3. Shape(node') /\ Voted(node', reported') /\ Keeps(node, node')
  BY <1>1, <1>2, SucceededKeeps
<1>4. /\ Shape(node)' /\ Voted(node, reported)'
      /\ Once(node) => Once(node)'
      /\ Kept(node) => Kept(node)'
      /\ Chain(node) => Chain(node)'
  BY <1>3 DEF Keeps
<1>5. TypeOK'
  BY <1>1 DEF TypeOK, FaultsGrow
<1>6. PipelineInv'
  BY <1>1, <1>4, StepKeeps
<1> QED BY <1>1, <1>5, <1>6

\* the CheckPoint of node p for number i is handled
CheckPointed(s, t, i, p) ==
  /\ Reports(s, t, i, p, FALSE)
  /\ t.results = s.results /\ t.expected = s.expected
  /\ s.executing \subseteq t.executing
  /\ \/ t.running = s.running
     \/ BeginsAt(s, t, t.expected) /\ t.expected \in t.executing

\* handleCheckPointMsg adds the vote, and requests the proposal at most.
LEMMA CheckPointedState ==
  ASSUME TypeOK, NEW p \in Node, NEW i \in Index, HandleCheckPoint(p, i)
  PROVE  /\ node' \in State /\ CheckPointed(node, node', i, p) /\ FaultsGrow /\ faults' = faults
         /\ reported' \in [Index -> SUBSET Node]
         /\ \A j \in Index : reported'[j] = IF j = i THEN reported[j] \cup {p} ELSE reported[j]
<1> DEFINE a == addCheckPointMsg(node, i, p)
           b == tryToApplyCommitQueue(a)
           c == checkAndCommitStableCheckPoint(b)
           t == handleCheckPointMsg(node, i, p)
<1>0. VoteStep(i, p, t) /\ node \in State
  BY DEF HandleCheckPoint, TypeOK
<1>1. /\ a \in State
      /\ \A j \in Index : /\ a.caches[j].checkpoint = node.caches[j].checkpoint
                          /\ a.caches[j].stable = node.caches[j].stable
                          /\ a.caches[j].votes = IF j = i THEN node.caches[j].votes \cup {p}
                                                 ELSE node.caches[j].votes
      /\ SameRegisters(node, a) /\ a.expected = node.expected
      /\ SameStable(node, a) /\ a.running = node.running /\ a.executing = node.executing
  BY <1>0, AddCheckPoint, Zenon
<1>2. b \in State /\ Started(a, b)
  <2> HIDE DEF a
  <2> QED BY <1>1, ApplyQueue
<1>3. /\ c \in State /\ Stabilised(b, c, NewlyStable(b))
      /\ SameRegisters(b, c) /\ c.expected = b.expected
      /\ c.running = b.running /\ c.executing = b.executing
  <2> HIDE DEF b
  <2> QED BY <1>2, CheckStable
<1>4. /\ t \in State /\ SameRegisters(c, t) /\ t.expected = c.expected /\ t.caches = c.caches
      /\ SameStable(c, t) /\ t.running = c.running /\ t.executing = c.executing
  <2> DEFINE l == IF c.timeout THEN c.listed ELSE c.listed \cup {i}
             q == c.requests \cup {i}
             d == [c EXCEPT !.requests = q, !.listed = l]
  <2>1. t = IF shouldRequestCheckPoint(c, i)
            THEN [requestCommittedProposals(c, i) EXCEPT !.listed = IF c.timeout THEN @ ELSE @ \cup {i}]
            ELSE c
    BY DEF handleCheckPointMsg
  <2> HIDE DEF c, t
  <2>2. t = d \/ t = c
    BY <1>3, <2>1 DEF requestCommittedProposals, State
  <2>3. l \in SUBSET Index /\ q \in SUBSET Index
    BY <1>3, Fields
  <2> HIDE DEF l, q
  <2>4. /\ d \in State /\ SameRegisters(c, d) /\ d.expected = c.expected /\ d.caches = c.caches
        /\ SameStable(c, d) /\ d.running = c.running /\ d.executing = c.executing
    BY <1>3, <2>3 DEF State, SameRegisters, SameStable
  <2>5. SameRegisters(c, c) /\ SameStable(c, c)
    BY DEF SameRegisters, SameStable
  <2> HIDE DEF d
  <2> QED BY <1>3, <2>2, <2>4, <2>5
<1> HIDE DEF a, b, c, t
<1>5. /\ t.results = node.results /\ t.expected = node.expected
      /\ t.committed = node.committed /\ t.notified = node.notified
      /\ t.maxMem = node.maxMem /\ t.stored = node.stored
      /\ b.committed = node.committed /\ a.committed = node.committed
      /\ b.caches = a.caches /\ SameStable(node, b)
  BY <1>1, <1>2, <1>3, <1>4 DEF Started, SameRegisters, SameStable
<1>6. Stabilised(b, t, NewlyStable(b))
  BY <1>3, <1>4 DEF SameStable, Stabilised
<1>7. Reports(node, t, i, p, FALSE)
  <2> DEFINE done == FALSE
  <2>1. \A j \in Index :
         /\ b.caches[j].checkpoint <=> node.caches[j].checkpoint \/ (done /\ j = i /\ i > node.committed)
         /\ b.caches[j].stable = node.caches[j].stable
         /\ b.caches[j].votes = IF j = i THEN node.caches[j].votes \cup {p} ELSE node.caches[j].votes
    <3>1. \A j \in Index : a.caches[j].checkpoint \in BOOLEAN /\ node.caches[j].checkpoint \in BOOLEAN
      BY <1>0, <1>1, CacheFields
    <3> QED BY <1>1, <1>5, <3>1
  <2> HIDE DEF done
  <2>2. Reports(node, t, i, p, done)
    BY <1>0, <1>2, <1>4, <1>5, <1>6, <2>1, ReportsFrom, Zenon
  <2> QED BY <2>2 DEF done
<1>8. node.executing \subseteq t.executing
  BY <1>1, <1>2, <1>3, <1>4 DEF Started, Begins
<1>9. t.running = node.running \/ (BeginsAt(node, t, t.expected) /\ t.expected \in t.executing)
  <2>1. CASE b.running = a.running
    BY <1>1, <1>3, <1>4, <2>1
  <2>2. CASE Begins(a, b)
    <3>1. /\ t.expected \in Index \ node.executing /\ t.expected \in t.executing
          /\ t.running = [node.running EXCEPT ![t.expected] = @ + 1]
      BY <1>1, <1>3, <1>4, <1>5, <2>2 DEF Begins
    <3>2. \A j \in Index : t.caches[j].checkpoint = a.caches[j].checkpoint
      BY <1>5, <1>6 DEF Stabilised
    <3>3. \/ t.expected - 1 = node.committed
          \/ t.expected - 1 \in Index /\ t.caches[t.expected - 1].checkpoint
      BY <1>1, <1>5, <2>2, <3>2 DEF Begins, LastApplied
    <3> QED BY <3>1, <3>3 DEF BeginsAt
  <2> QED BY <1>2, <2>1, <2>2 DEF Started
<1>10. CheckPointed(node, t, i, p)
  BY <1>5, <1>7, <1>8, <1>9 DEF CheckPointed
<1> QED BY <1>0, <1>4, <1>10, ReportStep

\* Handling a CheckPoint keeps the invariant.
LEMMA CheckPointedKeeps ==
  ASSUME NEW s \in State, NEW t \in State, NEW i \in Index, NEW p \in Node,
         CheckPointed(s, t, i, p),
         NEW R, NEW Q, \A j \in Index : R[j] \subseteq Q[j], p \in Q[i],
         Shape(s), Voted(s, R)
  PROVE  Shape(t) /\ Voted(t, Q) /\ Keeps(s, t)
<1>1. /\ t.committed = s.committed /\ t.notified = s.notified
      /\ t.maxMem = s.maxMem /\ t.stored = s.stored
      /\ t.results = s.results /\ t.expected = s.expected /\ s.executing \subseteq t.executing
      /\ \A j \in Index : t.caches[j].checkpoint <=> s.caches[j].checkpoint
  BY DEF CheckPointed, Reports, ReportsAt
<1>2. /\ Shape(t) /\ Voted(t, Q)
      /\ \A j \in Index : HasResult(s, j) /\ j > s.committed => HasResult(t, j)
      /\ (\A j \in Index : s.caches[j].stable => s.stableQueue[j] > 0 \/ s.committing[j] > 0)
         => \A j \in Index : t.caches[j].stable => t.stableQueue[j] > 0 \/ t.committing[j] > 0
  <2> DEFINE done == FALSE
  <2>1. Reports(s, t, i, p, done) /\ t.expected > t.committed /\ ~done
    BY <1>1 DEF CheckPointed, Shape
  <2> HIDE DEF done
  <2>2. /\ t.expected > t.committed => Shape(t)
        /\ Voted(t, Q)
        /\ \A j \in Index : HasResult(s, j) /\ j > s.committed => HasResult(t, j)
        /\ (\A j \in Index : s.caches[j].stable => s.stableQueue[j] > 0 \/ s.committing[j] > 0)
           => \A j \in Index : t.caches[j].stable => t.stableQueue[j] > 0 \/ t.committing[j] > 0
    BY <2>1, ReportsKeep, Zenon
  <2> QED BY <2>1, <2>2
<1>3. \A j \in Index : /\ Waits(t, j) <=> Waits(s, j)
                       /\ Indexed(t, j) <=> Indexed(s, j)
  BY <1>1 DEF Waits, Indexed
<1>4. \A j \in Index : \/ t.running[j] = s.running[j]
                       \/ /\ j = s.expected /\ j \notin s.executing /\ j \in t.executing
                          /\ t.running[j] = s.running[j] + 1
                          /\ j - 1 = s.committed \/ (j - 1 \in Index /\ s.caches[j - 1].checkpoint)
  BY <1>1, Fields DEF CheckPointed, BeginsAt
<1>5. ASSUME Once(s) PROVE Once(t)
  <2>1. ASSUME NEW j \in Index
        PROVE  /\ t.running[j] <= 1
               /\ t.running[j] > 0 /\ j > t.committed => j \in t.executing /\ ~Waits(t, j)
    <3>1. CASE t.running[j] = s.running[j]
      BY <1>1, <1>3, <1>5, <3>1 DEF Once
    <3>2. CASE j = s.expected /\ j \notin s.executing /\ j \in t.executing /\ t.running[j] = s.running[j] + 1
      <4>1. j > s.committed
        BY <3>2 DEF Shape
      <4>2. s.running[j] = 0
        BY <1>5, <3>2, <4>1, Numbers DEF Once
      <4>3. ~Waits(s, j)
        BY <1>5, <3>2, <4>1 DEF Once, Waits
      <4> QED BY <1>3, <3>2, <4>2, <4>3
    <3> QED BY <1>4, <3>1, <3>2
  <2> QED BY <1>1, <1>5, <2>1 DEF Once
<1>6. ASSUME Kept(s) PROVE Kept(t)
  <2>1. \A j \in Index : t.running[j] > 0 \/ Waits(t, j) => j <= t.maxMem + 1 \/ j <= t.committed + 1
    <3> SUFFICES ASSUME NEW j \in Index, t.running[j] > 0 \/ Waits(t, j)
                 PROVE  j <= t.maxMem + 1 \/ j <= t.committed + 1
      OBVIOUS
    <3>1. CASE s.running[j] > 0 \/ Waits(s, j)
      BY <1>1, <1>6, <3>1 DEF Kept
    <3>2. CASE j - 1 = s.committed \/ (j - 1 \in Index /\ s.caches[j - 1].checkpoint)
      BY <1>1, <1>6, <3>2, Numbers DEF Kept
    <3> QED BY <1>3, <1>4, <3>1, <3>2
  <2> QED BY <1>1, <1>3, <1>6, <2>1 DEF Kept
<1>7. ASSUME Chain(s) PROVE Chain(t)
  <2>1. \A j \in Index : t.committed < j /\ j < t.expected => HasResult(t, j)
    BY <1>1, <1>2, <1>7, Numbers DEF Chain
  <2>2. ASSUME NEW k \in Index, NEW j \in Index, t.running[k] > 0 \/ Waits(t, k),
               t.committed < j, j < k
        PROVE  HasResult(t, j)
    <3>1. CASE s.running[k] > 0 \/ Waits(s, k)
      <4>1. HasResult(s, j) /\ j > s.committed
        BY <1>1, <1>7, <2>2, <3>1, Numbers DEF Chain
      <4> QED BY <1>2, <4>1
    <3>2. CASE k = s.expected
      BY <1>1, <2>1, <2>2, <3>2
    <3> QED BY <1>3, <1>4, <2>2, <3>1, <3>2
  <2>3. \A j \in Index : t.caches[j].stable => t.stableQueue[j] > 0 \/ t.committing[j] > 0
    BY <1>2, <1>7 DEF Chain
  <2> QED BY <1>1, <1>7, <2>1, <2>2, <2>3 DEF Chain
<1> QED BY <1>2, <1>5, <1>6, <1>7 DEF Keeps

\* A CheckPoint message keeps types and invariant.
LEMMA CheckPointActions ==
  ASSUME TypeOK, PipelineInv, NEW p \in Node, NEW i \in Index, HandleCheckPoint(p, i)
  PROVE  /\ TypeOK' /\ PipelineInv' /\ CheckPointed(node, node', i, p)
         /\ \A j \in Index : reported'[j] = IF j = i THEN reported[j] \cup {p} ELSE reported[j]
<1>1. /\ node' \in State /\ CheckPointed(node, node', i, p) /\ FaultsGrow /\ faults' = faults
      /\ reported' \in [Index -> SUBSET Node]
      /\ \A j \in Index : reported'[j] = IF j = i THEN reported[j] \cup {p} ELSE reported[j]
  BY CheckPointedState
<1>2. /\ node \in State /\ Shape(node) /\ Voted(node, reported)
      /\ \A j \in Index : reported[j] \subseteq reported'[j]
      /\ p \in reported'[i]
  BY <1>1 DEF TypeOK, PipelineInv
<1>3. Shape(node') /\ Voted(node', reported') /\ Keeps(node, node')
  BY <1>1, <1>2, CheckPointedKeeps
<1>4. /\ Shape(node)' /\ Voted(node, reported)'
      /\ Once(node) => Once(node)'
      /\ Kept(node) => Kept(node)'
      /\ Chain(node) => Chain(node)'
  BY <1>3 DEF Keeps
<1>5. TypeOK'
  BY <1>1 DEF TypeOK, FaultsGrow
<1>6. PipelineInv'
  BY <1>1, <1>4, StepKeeps
<1> QED BY <1>1, <1>5, <1>6

-----------------------------------------------------------------------------
(* The ledger *)

\* the numbers up to the last block before and after k is finalised
Finalising(s, t, k) ==
  /\ t.committed >= s.committed /\ t.committed >= k
  /\ t.committed = s.committed \/ t.committed = k
  /\ ResetExpected(s, k) > t.committed
  /\ t.expected > t.committed
  /\ \A i \in Index : \/ t.running[i] = s.running[i]
                      \/ /\ i = ResetExpected(s, k) /\ i \notin s.executing /\ i \in t.executing
                         /\ t.running[i] = s.running[i] + 1
                         /\ \/ i - 1 = t.committed
                            \/ i - 1 \in Index /\ s.caches[i - 1].checkpoint
  /\ s.executing \subseteq t.executing

\* The registers after a new last block.
LEMMA FinalisingFacts ==
  ASSUME NEW s \in State, NEW t \in State, NEW k \in Index, NEW synced \in BOOLEAN,
         Finalised(s, t, k, synced), s.expected > s.committed
  PROVE  Finalising(s, t, k)
<1>1. k \in Int /\ s.committed \in Int /\ s.expected \in Int /\ t.committed \in Int
  BY Numbers
<1>2. /\ t.committed = Larger(s.committed, k)
      /\ t.expected = IF synced THEN t.committed + 1 ELSE ResetExpected(s, k)
  BY DEF Finalised
<1>3. /\ t.committed >= s.committed /\ t.committed >= k
      /\ t.committed = s.committed \/ t.committed = k
      /\ ResetExpected(s, k) > t.committed /\ t.expected > t.committed
  BY <1>1, <1>2 DEF Larger, ResetExpected
<1>4. \A i \in Index : \/ t.running[i] = s.running[i]
                       \/ /\ i = ResetExpected(s, k) /\ i \notin s.executing /\ i \in t.executing
                          /\ t.running[i] = s.running[i] + 1
                          /\ \/ i - 1 = t.committed
                             \/ i - 1 \in Index /\ s.caches[i - 1].checkpoint
  BY Fields DEF Finalised
<1>5. s.executing \subseteq t.executing
  BY DEF Finalised
<1> QED BY <1>3, <1>4, <1>5 DEF Finalising

\* A new last block keeps Shape, Voted and Once.
LEMMA FinalisedKeeps ==
  ASSUME NEW s \in State, NEW t \in State, NEW k \in Index, NEW synced \in BOOLEAN,
         NEW R, Finalised(s, t, k, synced), Shape(s), Voted(s, R)
  PROVE  Shape(t) /\ Voted(t, R) /\ (Once(s) => Once(t))
<1>1. Finalising(s, t, k)
  BY FinalisingFacts DEF Shape
<1>2. \A i \in Index :
       /\ t.caches[i].checkpoint => s.caches[i].checkpoint /\ i > k
       /\ ~t.caches[i].stable
       /\ t.caches[i].votes \subseteq s.caches[i].votes
       /\ t.committing[i] > 0
          => s.committing[i] > 0 \/ (i = t.committed + 1 /\ s.stableQueue[i] > 0)
       /\ t.stableQueue[i] > 0 => s.stableQueue[i] > 0
  BY DEF Finalised
<1>3. s.committed \in Int /\ t.committed \in Int /\ \A i \in Index : i \in Int
  BY Numbers
<1>4. Shape(t)
  <2>1. \A i \in Index : t.caches[i].checkpoint => i > t.committed
    BY <1>1, <1>2, <1>3 DEF Shape, Finalising
  <2>2. \A i \in Index : t.committing[i] > 0 => i <= t.committed + 1
    BY <1>1, <1>2, <1>3 DEF Shape, Finalising
  <2> QED BY <1>1, <1>2, <2>1, <2>2 DEF Shape, Finalising
<1>5. Voted(t, R)
  BY <1>2 DEF Voted
<1>6. ASSUME Once(s) PROVE Once(t)
  <2>1. t.results = s.results /\ \A i \in Index : Waits(t, i) <=> Waits(s, i)
    BY DEF Finalised, Waits
  <2>2. \A i \in Index : i > t.committed => i > s.committed
    BY <1>1, <1>3 DEF Finalising
  <2>3. ASSUME NEW i \in Index
        PROVE  /\ t.running[i] <= 1
               /\ t.running[i] > 0 /\ i > t.committed => i \in t.executing /\ ~Waits(t, i)
    <3>1. CASE t.running[i] = s.running[i]
      BY <1>1, <1>6, <2>1, <2>2, <3>1 DEF Once, Finalising
    <3>2. CASE i = ResetExpected(s, k) /\ i \notin s.executing /\ i \in t.executing
               /\ t.running[i] = s.running[i] + 1
      <4>1. i > s.committed
        BY <1>1, <2>2, <3>2 DEF Finalising
      <4>2. s.running[i] = 0
        BY <1>6, <3>2, <4>1, Numbers DEF Once
      <4>3. ~Waits(s, i)
        BY <1>6, <3>2, <4>1 DEF Once, Waits
      <4> QED BY <2>1, <3>2, <4>2, <4>3
    <3> QED BY <1>1, <3>1, <3>2 DEF Finalising
  <2>4. \A j \in 1 .. Len(t.results) :
          /\ t.results[j].state # "failed"
          /\ t.results[j].index > t.committed => t.results[j].index \in t.executing
    <3>1. \A j \in 1 .. Len(t.results) : t.results[j].index \in Index
      BY Numbers
    <3> QED BY <1>1, <1>6, <2>1, <2>2, <3>1 DEF Once, Finalising
  <2>5. \A i, j \in 1 .. Len(t.results) :
          t.results[i].index = t.results[j].index /\ t.results[j].index > t.committed => i = j
    <3>1. \A j \in 1 .. Len(t.results) : t.results[j].index \in Index
      BY Numbers
    <3> QED BY <1>6, <2>1, <2>2, <3>1 DEF Once
  <2> QED BY <2>3, <2>4, <2>5 DEF Once
<1> QED BY <1>4, <1>5, <1>6

\* The commit of the next block keeps the other parts: results above it stay,
\* in the caches or in a queue.
LEMMA CommitKeeps ==
  ASSUME NEW s \in State, NEW t \in State, NEW k \in Index,
         Finalised(s, t, k, FALSE), Shape(s), k = s.committed + 1
  PROVE  /\ t.committed = k
         /\ \A j \in Index : j > k => (HasResult(t, j) <=> HasResult(s, j))
         /\ Kept(s) => Kept(t)
         /\ (/\ s.notified = {}
             /\ \A i \in Index : k < i /\ i < s.expected => HasResult(s, i)
             /\ \A i, j \in Index :
                  (s.running[i] > 0 \/ Waits(s, i)) /\ k < j /\ j < i => HasResult(s, j))
            => Chain(t)
<1> DEFINE e == ResetExpected(s, k)
<1>0. /\ s.committed \in Int /\ t.committed \in Int /\ s.expected \in Int
      /\ k \in Int /\ \A i \in Index : i \in Int
  BY Numbers
<1>1. Finalising(s, t, k)
  <2> DEFINE synced == FALSE
  <2>1. synced \in BOOLEAN /\ Finalised(s, t, k, synced) /\ s.expected > s.committed
    BY DEF Shape
  <2> HIDE DEF synced
  <2> QED BY <2>1, FinalisingFacts
<1>2. t.committed = k
  BY <1>0, <1>1 DEF Finalising
<1>3. /\ t.results = s.results /\ t.notified = s.notified /\ t.maxMem = s.maxMem
      /\ t.stored = s.stored /\ t.expected = e
      /\ \A i \in Index :
           /\ t.caches[i].checkpoint <=> s.caches[i].checkpoint /\ ~s.caches[i].stable /\ i > k
           /\ ~t.caches[i].stable
           /\ t.committing[i] > 0
              => s.committing[i] > 0 \/ (i = t.committed + 1 /\ s.stableQueue[i] > 0)
           /\ t.stableQueue[i] > 0 => s.stableQueue[i] > 0
           /\ s.committing[i] > 0 => t.committing[i] > 0
           /\ i = t.committed + 1 /\ s.stableQueue[i] > 0 => t.committing[i] > 0
           /\ i > t.committed + 1 /\ s.stableQueue[i] > 0 => t.stableQueue[i] > 0
  BY DEF Finalised
<1>4. \A i \in Index : /\ Waits(t, i) <=> Waits(s, i)
                       /\ Indexed(t, i) <=> Indexed(s, i)
  BY <1>3 DEF Waits, Indexed
<1>5. ASSUME NEW j \in Index, j > k PROVE HasResult(t, j) <=> HasResult(s, j)
  <2>1. /\ s.caches[j].stable => s.stableQueue[j] > 0
        /\ j \in Int
    BY <1>0, <1>5 DEF Shape
  <2>2. s.stableQueue[j] > 0 => t.stableQueue[j] > 0 \/ t.committing[j] > 0
    <3>1. j = t.committed + 1 \/ j > t.committed + 1
      BY <1>0, <1>2, <1>5, <2>1
    <3> QED BY <1>3, <3>1
  <2> QED BY <1>3, <1>5, <2>1, <2>2 DEF HasResult
<1>6. ASSUME Kept(s) PROVE Kept(t)
  <2>1. \A i \in Index : t.running[i] > 0 \/ Waits(t, i) => i <= t.maxMem + 1 \/ i <= t.committed + 1
    <3> SUFFICES ASSUME NEW i \in Index, t.running[i] > 0 \/ Waits(t, i)
                 PROVE  i <= t.maxMem + 1 \/ i <= t.committed + 1
      OBVIOUS
    <3>1. CASE s.running[i] > 0 \/ Waits(s, i)
      BY <1>0, <1>2, <1>3, <1>6, <3>1 DEF Kept
    <3>2. CASE i - 1 = t.committed \/ (i - 1 \in Index /\ s.caches[i - 1].checkpoint)
      BY <1>3, <1>6, <3>2, Numbers DEF Kept
    <3> QED BY <1>1, <1>4, <3>1, <3>2 DEF Finalising
  <2>2. \A i \in Index : i > t.committed => i > s.committed
    BY <1>0, <1>2
  <2>3. \A j \in 1 .. Len(t.results) : t.results[j].index \in Index
    BY Numbers
  <2>4. \A i \in Index :
          /\ t.caches[i].checkpoint => i \in t.stored /\ i <= t.maxMem
          /\ t.committed < i /\ i <= t.maxMem => i \in t.stored \/ Indexed(t, i)
    <3>1. \A i \in Index : t.committed < i => s.committed < i
      BY <1>0, <1>2
    <3> QED BY <1>3, <1>4, <1>6, <3>1 DEF Kept
  <2>5. \A j \in 1 .. Len(t.results) :
          /\ j > 1 => t.results[j].state \in {"failed", "executed"}
          /\ t.results[j].state \in {"indexed", "stored"} => t.results[j].index <= t.maxMem
          /\ t.results[j].state = "stored" /\ t.results[j].index > t.committed
             => t.results[j].index \in t.stored
    BY <1>3, <1>6, <2>2, <2>3 DEF Kept
  <2> QED BY <1>3, <1>6, <2>1, <2>4, <2>5 DEF Kept
<1>7. ASSUME s.notified = {},
             \A i \in Index : k < i /\ i < s.expected => HasResult(s, i),
             \A i, j \in Index :
               (s.running[i] > 0 \/ Waits(s, i)) /\ k < j /\ j < i => HasResult(s, j)
      PROVE  Chain(t)
  <2>1. \A i \in Index : k < i /\ i < e => HasResult(t, i)
    <3>1. \A i \in Index : k < i /\ i < e => i < s.expected
      BY <1>0, <1>2 DEF ResetExpected, Larger
    <3> QED BY <1>0, <1>5, <1>7, <3>1
  <2>2. ASSUME NEW i \in Index, NEW j \in Index, t.running[i] > 0 \/ Waits(t, i), k < j, j < i
        PROVE  HasResult(t, j)
    <3>1. CASE s.running[i] > 0 \/ Waits(s, i)
      BY <1>0, <1>5, <1>7, <2>2, <3>1
    <3>2. CASE i = e
      BY <2>1, <2>2, <3>2
    <3> QED BY <1>1, <1>4, <2>2, <3>1, <3>2 DEF Finalising
  <2> QED BY <1>2, <1>3, <1>7, <2>1, <2>2 DEF Chain
<1> QED BY <1>2, <1>5, <1>6, <1>7

\* the answer to a call of commitBlock for number i is used up
LEMMA AnswerTaken ==
  ASSUME NEW s \in State, NEW i \in Index, s.committing[i] > 0
  PROVE  LET t == [s EXCEPT !.committing[i] = @ - 1] IN
         /\ t \in State
         /\ \A j \in Index : t.committing[j] = IF j = i THEN s.committing[j] - 1 ELSE s.committing[j]
         /\ SameRegisters(s, t) /\ t.expected = s.expected /\ t.caches = s.caches
         /\ t.stableQueue = s.stableQueue /\ t.running = s.running /\ t.executing = s.executing
<1> DEFINE c == [s.committing EXCEPT ![i] = @ - 1]
           t == [s EXCEPT !.committing[i] = @ - 1]
<1>1. s.committing \in [Index -> Nat] /\ s.committing[i] - 1 \in Nat
  BY Fields
<1>2. /\ c \in [Index -> Nat]
      /\ \A j \in Index : c[j] = IF j = i THEN s.committing[j] - 1 ELSE s.committing[j]
  BY <1>1
<1>3. t = [s EXCEPT !.committing = c]
  BY DEF State
<1> HIDE DEF c, t
<1>4. t \in State /\ t.committing = c
  BY <1>2, <1>3 DEF State, Count
<1>5. /\ SameRegisters(s, t) /\ t.expected = s.expected /\ t.caches = s.caches
      /\ t.stableQueue = s.stableQueue /\ t.running = s.running /\ t.executing = s.executing
  BY <1>3 DEF State, SameRegisters
<1> QED BY <1>2, <1>4, <1>5 DEF t

\* An answer used up keeps the invariant, the chain if i was on the ledger.
LEMMA AnswerKeeps ==
  ASSUME NEW s \in State, NEW t \in State, NEW i \in Index, NEW R, s.committing[i] > 0,
         \A j \in Index : t.committing[j] = IF j = i THEN s.committing[j] - 1 ELSE s.committing[j],
         SameRegisters(s, t), t.expected = s.expected, t.caches = s.caches,
         t.stableQueue = s.stableQueue, t.running = s.running, t.executing = s.executing,
         Shape(s), Voted(s, R)
  PROVE  /\ Shape(t) /\ Voted(t, R)
         /\ Once(s) => Once(t)
         /\ Kept(s) => Kept(t)
         /\ Chain(s) /\ i <= s.committed => Chain(t)
         /\ \A j \in Index : HasResult(t, j) => HasResult(s, j)
         /\ \A j \in Index : j # i => (HasResult(t, j) <=> HasResult(s, j))
<1>1. /\ t.committed = s.committed /\ t.results = s.results
      /\ t.notified = s.notified /\ t.maxMem = s.maxMem /\ t.stored = s.stored
  BY DEF SameRegisters
<1>2. \A j \in Index : t.committing[j] > 0 => s.committing[j] > 0
  BY Numbers
<1>3. \A j \in Index : (Waits(t, j) <=> Waits(s, j)) /\ (Indexed(t, j) <=> Indexed(s, j))
  BY <1>1 DEF Waits, Indexed
<1>4. Shape(t) /\ Voted(t, R)
  BY <1>1, <1>2 DEF Shape, Voted
<1>5. Once(s) => Once(t)
  BY <1>1, <1>3 DEF Once
<1>6. Kept(s) => Kept(t)
  BY <1>1, <1>3 DEF Kept
<1>7. \A j \in Index : j # i => (HasResult(t, j) <=> HasResult(s, j))
  BY DEF HasResult
<1>8. ASSUME Chain(s), i <= s.committed PROVE Chain(t)
  <2>1. \A j \in Index : s.committed < j => j # i
    BY <1>8, Numbers
  <2>2. \A j \in Index : s.caches[j].stable => j # i
    BY <2>1 DEF Shape
  <2> QED BY <1>1, <1>3, <1>7, <1>8, <2>1, <2>2 DEF Chain
<1>9. \A j \in Index : HasResult(t, j) => HasResult(s, j)
  BY <1>2 DEF HasResult
<1> QED BY <1>4, <1>5, <1>6, <1>7, <1>8, <1>9

\* the node writes the next block
Commits(s, t, i) ==
  /\ t.committed = i /\ i = s.committed + 1 /\ s.committing[i] > 0
  /\ t.notified = s.notified /\ t.results = s.results
  /\ \A j \in Index : j > i => (HasResult(t, j) <=> HasResult(s, j))
  /\ \A j \in Index : \/ t.running[j] = s.running[j]
                      \/ j - 1 = i \/ (j - 1 \in Index /\ s.caches[j - 1].checkpoint /\ j - 1 > i)

\* The commit of the next block.
LEMMA CommitActions ==
  ASSUME TypeOK, PipelineInv, NEW i \in Index, CommitSucceeds(i)
  PROVE  TypeOK' /\ PipelineInv' /\ reported' = reported /\ Commits(node, node', i)
<1> DEFINE a == [node EXCEPT !.committing[i] = @ - 1]
           b == finalizeConsensus(a, i, FALSE)
           d == IF i > Reserved THEN b.stored \ {i - Reserved} ELSE b.stored
           t == [b EXCEPT !.stored = d]
<1>0. /\ node \in State /\ node.committing[i] > 0 /\ i = node.committed + 1
      /\ Shape(node) /\ Voted(node, reported)
  BY DEF CommitSucceeds, TypeOK, PipelineInv
<1>1. /\ a \in State
      /\ \A j \in Index : a.committing[j] = IF j = i THEN node.committing[j] - 1 ELSE node.committing[j]
      /\ SameRegisters(node, a) /\ a.expected = node.expected /\ a.caches = node.caches
      /\ a.stableQueue = node.stableQueue /\ a.running = node.running
      /\ a.executing = node.executing
  BY <1>0, AnswerTaken
<1> HIDE DEF a
<1>2. /\ Shape(a) /\ Voted(a, reported)
      /\ Once(node) => Once(a)
      /\ Kept(node) => Kept(a)
      /\ \A j \in Index : j # i => (HasResult(a, j) <=> HasResult(node, j))
  BY <1>0, <1>1, AnswerKeeps
<1>3. /\ a.committed = node.committed /\ a.notified = node.notified
      /\ a.results = node.results
  BY <1>1 DEF SameRegisters
<1>4. b \in State /\ Finalised(a, b, i, FALSE)
  <2> DEFINE synced == FALSE
  <2>1. synced \in BOOLEAN
    OBVIOUS
  <2>2. finalizeConsensus(a, i, synced) \in State /\ Finalised(a, finalizeConsensus(a, i, synced), i, synced)
    <3> HIDE DEF synced
    <3> QED BY <1>1, <2>1, FinalizeConsensus
  <2> QED BY <2>2
<1> HIDE DEF b
<1>5. /\ Shape(b) /\ Voted(b, reported) /\ (Once(a) => Once(b)) /\ Finalising(a, b, i)
  <2> DEFINE synced == FALSE
  <2>1. synced \in BOOLEAN /\ Finalised(a, b, i, synced) /\ a.expected > a.committed
    BY <1>2, <1>4 DEF Shape
  <2> HIDE DEF synced
  <2> QED BY <1>1, <1>2, <1>4, <2>1, FinalisedKeeps, FinalisingFacts
<1>6. /\ b.committed = i
      /\ \A j \in Index : j > i => (HasResult(b, j) <=> HasResult(a, j))
      /\ Kept(a) => Kept(b)
      /\ (/\ a.notified = {}
          /\ \A j \in Index : i < j /\ j < a.expected => HasResult(a, j)
          /\ \A k, j \in Index :
               (a.running[k] > 0 \/ Waits(a, k)) /\ i < j /\ j < k => HasResult(a, j))
         => Chain(b)
  <2>1. i = a.committed + 1
    BY <1>0, <1>3
  <2> QED BY <1>1, <1>2, <1>4, <2>1, CommitKeeps, ZenonT(30)
<1>7. node' = t /\ reported' = reported /\ FaultsGrow
  <2>1. Step(t)
    BY <1>4 DEF CommitSucceeds, a, b, State
  <2> QED BY <2>1, PlainStep
<1>8. i \in Int /\ Reserved \in Nat /\ node.committed \in Int /\ \A j \in Index : j \in Int
  BY <1>0, Numbers, PipelineAssumption
<1>9. d \in SUBSET Index /\ \A j \in Index : j > i /\ j \in b.stored => j \in d
  <2>1. b.stored \in SUBSET Index
    BY <1>4, Fields
  <2> QED BY <1>8, <2>1
<1> HIDE DEF d
<1>10. /\ t \in State /\ t.stored = d /\ t.committed = b.committed /\ t.results = b.results
       /\ t.notified = b.notified /\ t.maxMem = b.maxMem /\ t.expected = b.expected
       /\ t.caches = b.caches /\ t.stableQueue = b.stableQueue /\ t.committing = b.committing
       /\ t.running = b.running /\ t.executing = b.executing
  BY <1>4, <1>9 DEF State
<1> HIDE DEF t
<1>11. \A j \in Index : /\ Waits(t, j) <=> Waits(b, j)
                        /\ Indexed(t, j) <=> Indexed(b, j)
                        /\ HasResult(t, j) <=> HasResult(b, j)
  BY <1>10 DEF Waits, Indexed, HasResult
<1>12. Shape(t) /\ Voted(t, reported) /\ (Once(b) => Once(t)) /\ (Chain(b) => Chain(t))
  <2>1. Shape(t) /\ Voted(t, reported)
    BY <1>5, <1>10 DEF Shape, Voted
  <2>2. Once(b) => Once(t)
    BY <1>10, <1>11 DEF Once
  <2>3. Chain(b) => Chain(t)
    BY <1>10, <1>11 DEF Chain
  <2> QED BY <2>1, <2>2, <2>3
<1>13. ASSUME Kept(b) PROVE Kept(t)
  <2>1. \A j \in Index :
          /\ t.caches[j].checkpoint => j \in t.stored /\ j <= t.maxMem
          /\ t.committed < j /\ j <= t.maxMem => j \in t.stored \/ Indexed(t, j)
    <3>1. \A j \in Index : t.caches[j].checkpoint => j > i
      BY <1>5, <1>6, <1>10 DEF Shape
    <3>2. \A j \in Index : t.committed < j => j > i /\ b.committed < j
      BY <1>6, <1>8, <1>10
    <3> QED BY <1>9, <1>10, <1>11, <1>13, <3>1, <3>2 DEF Kept
  <2>2. \A j \in 1 .. Len(t.results) : t.results[j].index \in Index
    BY <1>10, Numbers
  <2>3. \A j \in 1 .. Len(t.results) :
          /\ j > 1 => t.results[j].state \in {"failed", "executed"}
          /\ t.results[j].state \in {"indexed", "stored"} => t.results[j].index <= t.maxMem
          /\ t.results[j].state = "stored" /\ t.results[j].index > t.committed
             => t.results[j].index \in t.stored
    BY <1>6, <1>9, <1>10, <1>13, <2>2 DEF Kept
  <2> QED BY <1>10, <1>11, <1>13, <2>1, <2>3 DEF Kept
<1>14. ASSUME Chain(node) PROVE Chain(t)
  <2>1. a.notified = {}
    BY <1>3, <1>14 DEF Chain
  <2>2. \A j \in Index : i < j /\ j < a.expected => HasResult(a, j)
    BY <1>0, <1>1, <1>2, <1>8, <1>14 DEF Chain
  <2>3. \A k \in Index : (a.running[k] > 0 \/ Waits(a, k)) => (node.running[k] > 0 \/ Waits(node, k))
    BY <1>1, <1>3 DEF Waits
  <2>4. \A k, j \in Index : (a.running[k] > 0 \/ Waits(a, k)) /\ i < j /\ j < k => HasResult(a, j)
    BY <1>0, <1>2, <1>8, <1>14, <2>3 DEF Chain
  <2> QED BY <1>6, <1>12, <2>1, <2>2, <2>4
<1>15. TypeOK'
  BY <1>7, <1>10 DEF TypeOK, FaultsGrow
<1>16. /\ Shape(node)' /\ Voted(node, reported)'
       /\ Once(node) => Once(node)'
       /\ Kept(node) => Kept(node)'
       /\ Chain(node) => Chain(node)'
  BY <1>2, <1>5, <1>6, <1>7, <1>12, <1>13, <1>14
<1>17. PipelineInv'
  BY <1>7, <1>16, StepKeeps
<1>18. Commits(node, t, i)
  <2>1. \A j \in Index : j > i => (HasResult(t, j) <=> HasResult(node, j))
    BY <1>2, <1>6, <1>8, <1>11
  <2>2. t.notified = node.notified /\ t.results = node.results
    BY <1>3, <1>4, <1>10 DEF Finalised
  <2>3. ASSUME NEW j \in Index
        PROVE  \/ t.running[j] = node.running[j]
               \/ j - 1 = i \/ (j - 1 \in Index /\ node.caches[j - 1].checkpoint /\ j - 1 > i)
    <3>1. CASE b.running[j] = a.running[j]
      BY <1>1, <1>10, <3>1
    <3>2. CASE /\ j = ResetExpected(a, i)
               /\ j - 1 = b.committed \/ (j - 1 \in Index /\ a.caches[j - 1].checkpoint)
      <4>1. j > i
        BY <1>5, <1>6, <3>2 DEF Finalising
      <4> QED BY <1>1, <1>6, <1>8, <3>2, <4>1
    <3> QED BY <1>5, <3>1, <3>2 DEF Finalising
  <2> QED BY <1>0, <1>6, <1>10, <2>1, <2>2, <2>3 DEF Commits
<1> QED BY <1>7, <1>15, <1>17, <1>18

\* a call of commitBlock for number i has failed
Drops(s, t, i) ==
  /\ t.committed = s.committed /\ t.notified = s.notified /\ t.results = s.results
  /\ t.running = s.running
  /\ \A j \in Index : HasResult(t, j) => HasResult(s, j)

\* A commit that fails, for a number on the ledger or by a fault.
LEMMA DropActions ==
  ASSUME TypeOK, PipelineInv, NEW i \in Index, CommitExpired(i) \/ CommitFails(i)
  PROVE  TypeOK' /\ PipelineInv' /\ reported' = reported /\ Drops(node, node', i)
<1> DEFINE t == [node EXCEPT !.committing[i] = @ - 1]
<1>0. node \in State /\ node.committing[i] > 0 /\ Shape(node) /\ Voted(node, reported)
  BY DEF CommitExpired, CommitFails, TypeOK, PipelineInv
<1>1. /\ t \in State
      /\ \A j \in Index : t.committing[j] = IF j = i THEN node.committing[j] - 1 ELSE node.committing[j]
      /\ SameRegisters(node, t) /\ t.expected = node.expected /\ t.caches = node.caches
      /\ t.stableQueue = node.stableQueue /\ t.running = node.running
      /\ t.executing = node.executing
  BY <1>0, AnswerTaken
<1>2. /\ node' = t /\ reported' = reported /\ FaultsGrow
      /\ faults'["commit"] > 0 \/ i <= Ledger(node)
  BY PlainStep, OneEvent, FaultNames DEF CommitExpired, CommitFails
<1> HIDE DEF t
<1>3. /\ Shape(t) /\ Voted(t, reported)
      /\ Once(node) => Once(t)
      /\ Kept(node) => Kept(t)
      /\ Chain(node) /\ i <= node.committed => Chain(t)
      /\ \A j \in Index : HasResult(t, j) => HasResult(node, j)
  BY <1>0, <1>1, AnswerKeeps
<1>4. Chain(node) => Ledger(node) = node.committed
  BY <1>0, LedgerIn DEF Chain
<1>5. /\ Shape(node)' /\ Voted(node, reported)'
      /\ Once(node) => Once(node)'
      /\ Kept(node) => Kept(node)'
      /\ faults'["commit"] = 0 /\ Chain(node) => Chain(node)'
  BY <1>2, <1>3, <1>4
<1>6. PipelineInv'
  BY <1>2, <1>5, StepKeeps
<1>7. TypeOK'
  BY <1>1, <1>2 DEF TypeOK, FaultsGrow
<1>8. Drops(node, t, i)
  BY <1>1, <1>3 DEF Drops, SameRegisters
<1> QED BY <1>2, <1>6, <1>7, <1>8

\* a state that differs from s in the accepted blocks only
Renotified(s, t) ==
  /\ t.committed = s.committed /\ t.results = s.results /\ t.maxMem = s.maxMem
  /\ t.stored = s.stored /\ t.expected = s.expected /\ t.caches = s.caches
  /\ SameStable(s, t) /\ t.running = s.running /\ t.executing = s.executing

\* The accepted blocks do not matter to Shape, Voted and Once.
LEMMA RenotifiedKeeps ==
  ASSUME NEW s, NEW t, NEW R, Renotified(s, t), Shape(s), Voted(s, R)
  PROVE  /\ Shape(t) /\ Voted(t, R) /\ (Once(s) => Once(t))
         /\ \A j \in Index : HasResult(t, j) <=> HasResult(s, j)
<1>1. Shape(t) /\ Voted(t, R)
  BY DEF Renotified, SameStable, Shape, Voted
<1>2. Once(s) => Once(t)
  BY DEF Renotified, Once, Waits
<1>3. \A j \in Index : HasResult(t, j) <=> HasResult(s, j)
  BY DEF Renotified, SameStable, HasResult
<1> QED BY <1>1, <1>2, <1>3

\* The sync module has put a block on the ledger.
LEMMA NotifyActions ==
  ASSUME TypeOK, PipelineInv, NEW k \in Index, NotifyNewBlock(k)
  PROVE  /\ TypeOK' /\ PipelineInv' /\ reported' = reported
         /\ Renotified(node, node') /\ node'.notified = node.notified \cup {k}
         /\ \A j \in Index : HasResult(node', j) <=> HasResult(node, j)
<1> DEFINE t == [node EXCEPT !.notified = @ \cup {k}]
<1>0. node \in State /\ Shape(node) /\ Voted(node, reported)
  BY DEF TypeOK, PipelineInv
<1>1. node' = t /\ reported' = reported /\ FaultsGrow /\ faults'["sync"] > 0
  BY OneEvent, FaultNames DEF NotifyNewBlock
<1>2. t \in State /\ Renotified(node, t) /\ t.notified = node.notified \cup {k}
  <2>1. node.notified \cup {k} \in SUBSET Index
    BY <1>0, Fields
  <2> QED BY <1>0, <2>1 DEF State, Renotified, SameStable
<1> HIDE DEF t
<1>3. /\ Shape(t) /\ Voted(t, reported) /\ (Once(node) => Once(t))
      /\ \A j \in Index : HasResult(t, j) <=> HasResult(node, j)
  BY <1>0, <1>2, RenotifiedKeeps
<1>4. PipelineInv'
  <2>1. Shape(node)' /\ Voted(node, reported)' /\ (Once(node) => Once(node)')
    BY <1>1, <1>3
  <2> QED BY <1>1, <2>1, StepKeeps
<1>5. TypeOK'
  BY <1>1, <1>2 DEF TypeOK, FaultsGrow
<1> QED BY <1>1, <1>2, <1>3, <1>4, <1>5

\* the node takes block k over; its results are forgotten, commits stay
TakesOver(s, t, k) ==
  /\ t.committed = Larger(s.committed, k) /\ k \in s.notified
  /\ t.notified = s.notified \ {k} /\ t.results = s.results
  /\ \A j \in Index : j > t.committed /\ HasResult(t, j) => HasResult(s, j)
  /\ \A j \in Index : \/ t.running[j] = s.running[j]
                      \/ /\ j > t.committed
                         /\ j - 1 = t.committed \/ (j - 1 \in Index /\ s.caches[j - 1].checkpoint)

\* A synchronised block is taken over.
LEMMA SyncActions ==
  ASSUME TypeOK, PipelineInv, NEW k \in Index, SyncBlock(k)
  PROVE  TypeOK' /\ PipelineInv' /\ reported' = reported /\ TakesOver(node, node', k)
<1> DEFINE a == [node EXCEPT !.notified = @ \ {k}]
           t == finalizeConsensus(a, k, TRUE)
<1>0. node \in State /\ Shape(node) /\ Voted(node, reported) /\ k \in node.notified
  BY DEF TypeOK, PipelineInv, SyncBlock
<1>1. node' = t /\ reported' = reported /\ FaultsGrow
  BY PlainStep DEF SyncBlock
<1>2. a \in State /\ Renotified(node, a) /\ a.notified = node.notified \ {k}
  BY <1>0 DEF State, Renotified, SameStable
<1> HIDE DEF a
<1>3. /\ Shape(a) /\ Voted(a, reported) /\ (Once(node) => Once(a))
      /\ \A j \in Index : HasResult(a, j) <=> HasResult(node, j)
  BY <1>0, <1>2, RenotifiedKeeps
<1> DEFINE synced == TRUE
<1>4. synced \in BOOLEAN /\ t = finalizeConsensus(a, k, synced) /\ synced
  OBVIOUS
<1> HIDE DEF synced
<1>5. t \in State /\ Finalised(a, t, k, synced)
  BY <1>2, <1>4, FinalizeConsensus
<1> HIDE DEF t
<1>6. Finalising(a, t, k) /\ Shape(t) /\ Voted(t, reported) /\ (Once(a) => Once(t))
  <2>1. a.expected > a.committed
    BY <1>3 DEF Shape
  <2> QED BY <1>2, <1>3, <1>4, <1>5, <2>1, FinalisingFacts, FinalisedKeeps
<1>7. /\ Shape(node)' /\ Voted(node, reported)'
      /\ Once(node) => Once(node)'
      /\ Kept(node) => Kept(node)'
      /\ Chain(node) => Chain(node)'
  <2>1. ~Kept(node) /\ ~Chain(node)
    BY <1>0 DEF Kept, Chain
  <2> QED BY <1>1, <1>3, <1>6, <2>1
<1>8. TypeOK' /\ PipelineInv'
  <2>1. TypeOK'
    BY <1>1, <1>5 DEF TypeOK, FaultsGrow
  <2> QED BY <1>1, <1>7, <2>1, StepKeeps
<1>9. TakesOver(node, t, k)
  <2>1. /\ t.committed = Larger(node.committed, k) /\ t.notified = node.notified \ {k}
        /\ t.results = node.results
    BY <1>2, <1>5 DEF Finalised, Renotified
  <2>2. \A j \in Index : HasResult(t, j) => HasResult(a, j)
    BY <1>5 DEF Finalised, HasResult
  <2>3. \A j \in Index : \/ t.running[j] = node.running[j]
                         \/ /\ j > t.committed
                            /\ j - 1 = t.committed \/ (j - 1 \in Index /\ node.caches[j - 1].checkpoint)
    BY <1>2, <1>6 DEF Finalising, Renotified
  <2> QED BY <1>0, <1>3, <2>1, <2>2, <2>3 DEF TakesOver
<1> QED BY <1>1, <1>8, <1>9

\* the node has started again from its ledger
Restarts(s, t) ==
  /\ t.committed = Ledger(s) /\ t.notified = {} /\ t.results = <<>>
  /\ \A j \in Index : t.running[j] = 0 /\ ~HasResult(t, j)

\* The state after a restart that reloads the numbers R.
LEMMA RestartedState ==
  ASSUME TypeOK, NEW R \in SUBSET Index,
         R = {} \/ \A j \in Index : Ledger(node) < j /\ j <= node.maxKey => j \in node.stored
  PROVE  LET t == Restarted(R) IN
         /\ t \in State /\ Restarts(node, t)
         /\ Shape(t) /\ Voted(t, reported) /\ Once(t) /\ Kept(t) /\ Chain(t)
<1> DEFINE k == Ledger(node)
           m == IF R = {} THEN k ELSE node.maxKey
           w == IF R = {} THEN k + 1 ELSE node.maxKey + 1
           t == Restarted(R)
           c == [i \in Index |-> EmptyCache]
<1>0. node \in State /\ node.maxKey \in 0 .. MaxIndex /\ node.stored \in SUBSET Index
  BY Fields DEF TypeOK
<1>1. k \in 0 .. MaxIndex
  BY <1>0, LedgerIn
<1>2. m \in 0 .. MaxIndex /\ w \in 1 .. MaxIndex + 1 /\ k + 1 \in 1 .. MaxIndex + 1
  BY <1>0, <1>1, IndexRange
<1>3. /\ c \in [Index -> Cache] /\ Zero \in [Index -> Nat] /\ <<>> \in Seq(Result)
      /\ 0 \in 0 .. MaxIndex
  BY EmptyCacheType, IndexRange DEF Zero
<1>4. t = [StartState(k) EXCEPT !.maxKey = node.maxKey, !.stored = node.stored,
                                !.maxMem = m, !.low = w, !.loading = R]
  BY DEF Restarted
<1>5. \A i \in Index : c[i] = EmptyCache /\ Zero[i] = 0
  BY DEF Zero
<1> HIDE DEF k, m, w, t, c
<1>6. t = [committed |-> k, expected |-> k + 1, low |-> w, syncing |-> 0, timeout |-> FALSE,
           caches |-> c, queue |-> Zero, executing |-> {}, running |-> Zero, results |-> <<>>,
           stableQueue |-> Zero, committing |-> Zero, listed |-> {}, requests |-> {},
           loading |-> R, notified |-> {}, maxMem |-> m, maxKey |-> node.maxKey,
           stored |-> node.stored]
  BY <1>4 DEF StartState, c
<1>7. t \in State
  BY <1>0, <1>1, <1>2, <1>3, <1>6 DEF State, Count
<1>8. /\ t.committed = k /\ t.notified = {} /\ t.results = <<>> /\ t.expected = k + 1
      /\ t.maxMem = m /\ t.stored = node.stored /\ Len(t.results) = 0
      /\ \A i \in Index :
           /\ t.running[i] = 0 /\ t.stableQueue[i] = 0 /\ t.committing[i] = 0
           /\ ~t.caches[i].checkpoint /\ ~t.caches[i].stable /\ t.caches[i].votes = {}
  BY <1>5, <1>6, EmptyCacheType
<1>9. \A i \in Index : ~HasResult(t, i) /\ ~Waits(t, i)
  BY <1>8 DEF HasResult, Waits
<1>10. Restarts(node, t)
  BY <1>8, <1>9 DEF Restarts, k
<1>11. Shape(t) /\ Voted(t, reported)
  BY <1>1, <1>8 DEF Shape, Voted
<1>12. Once(t)
  BY <1>8 DEF Once
<1>13. \A i \in Index : k < i /\ i <= m => i \in node.stored
  <2>1. \A i \in Index : i \in Int
    BY IndexRange
  <2> QED BY <1>1, <2>1 DEF k, m
<1>14. Kept(t)
  BY <1>8, <1>9, <1>13 DEF Kept
<1>15. Chain(t)
  <2>1. \A i \in Index : ~(k < i /\ i < k + 1)
    BY <1>1, IndexRange
  <2> QED BY <1>8, <1>9, <2>1 DEF Chain
<1> QED BY <1>7, <1>10, <1>11, <1>12, <1>14, <1>15 DEF t

\* A crash and the restart, with the highest number read or not.
LEMMA RestartActions ==
  ASSUME TypeOK, PipelineInv, Restart \/ RestartUnread
  PROVE  TypeOK' /\ PipelineInv' /\ reported' = reported /\ Restarts(node, node')
<1>1. PICK R \in SUBSET Index :
        /\ R = {} \/ \A j \in Index : Ledger(node) < j /\ j <= node.maxKey => j \in node.stored
        /\ node' = Restarted(R) /\ reported' = reported /\ FaultsGrow
  <2>1. CASE Restart
    <3>1. node' = Restarted(Reloaded(node)) /\ reported' = reported /\ FaultsGrow
      BY <2>1, OneEvent, FaultNames DEF Restart
    <3>2. /\ Reloaded(node) \in SUBSET Index
          /\ \/ Reloaded(node) = {}
             \/ \A j \in Index : Ledger(node) < j /\ j <= node.maxKey => j \in node.stored
      BY DEF Reloaded
    <3> QED BY <3>1, <3>2
  <2>2. CASE RestartUnread
    <3>1. {"restart", "read"} \in SUBSET Faults
      BY FaultNames
    <3>2. node' = Restarted({}) /\ reported' = reported /\ FaultsGrow
      BY <2>2, <3>1, EventStep DEF RestartUnread
    <3> QED BY <3>2
  <2> QED BY <2>1, <2>2
<1>2. /\ node' \in State /\ Restarts(node, node')
      /\ Shape(node') /\ Voted(node', reported) /\ Once(node') /\ Kept(node') /\ Chain(node')
  BY <1>1, RestartedState
<1>3. TypeOK'
  BY <1>1, <1>2 DEF TypeOK, FaultsGrow
<1>4. PipelineInv'
  BY <1>1, <1>2 DEF PipelineInv
<1> QED BY <1>1, <1>2, <1>3, <1>4

-----------------------------------------------------------------------------
(* The safety properties *)

\* The first states have their types and satisfy the invariant.
LEMMA InitPipeline == Init => TypeOK /\ PipelineInv
<1> SUFFICES ASSUME Init PROVE TypeOK /\ PipelineInv
  OBVIOUS
<1> DEFINE c == [i \in Index |-> EmptyCache]
<1>1. node = [committed |-> 0, expected |-> 0 + 1, low |-> 0 + 1, syncing |-> 0, timeout |-> FALSE,
              caches |-> c, queue |-> Zero, executing |-> {}, running |-> Zero, results |-> <<>>,
              stableQueue |-> Zero, committing |-> Zero, listed |-> {}, requests |-> {},
              loading |-> {}, notified |-> {}, maxMem |-> 0, maxKey |-> 0, stored |-> {}]
  BY DEF Init, StartState
<1>2. /\ c \in [Index -> Cache] /\ Zero \in [Index -> Nat] /\ <<>> \in Seq(Result)
      /\ 0 \in 0 .. MaxIndex /\ 0 + 1 \in 1 .. MaxIndex + 1
  BY EmptyCacheType, IndexRange DEF Zero
<1>3. \A i \in Index : c[i] = EmptyCache /\ Zero[i] = 0
  BY DEF Zero
<1> HIDE DEF c
<1>4. node \in State
  BY <1>1, <1>2 DEF State, Count
<1>5. TypeOK
  BY <1>4 DEF TypeOK, Init
<1>6. /\ node.committed = 0 /\ node.notified = {} /\ node.results = <<>> /\ node.expected = 0 + 1
      /\ node.maxMem = 0 /\ Len(node.results) = 0
      /\ \A i \in Index :
           /\ node.running[i] = 0 /\ node.stableQueue[i] = 0 /\ node.committing[i] = 0
           /\ ~node.caches[i].checkpoint /\ ~node.caches[i].stable /\ node.caches[i].votes = {}
  BY <1>1, <1>3, EmptyCacheType
<1>7. \A i \in Index : ~HasResult(node, i) /\ ~Waits(node, i) /\ i \in Int /\ i >= 1
  BY <1>6, IndexRange DEF HasResult, Waits
<1>8. Shape(node) /\ Voted(node, reported)
  BY <1>6 DEF Shape, Voted
<1>9. Once(node)
  BY <1>6 DEF Once
<1>10. Kept(node)
  BY <1>6, <1>7 DEF Kept
<1>11. Chain(node)
  BY <1>6, <1>7 DEF Chain
<1> QED BY <1>5, <1>8, <1>9, <1>10, <1>11 DEF PipelineInv

\* Every step keeps the types and the invariant.
LEMMA NextPipeline == TypeOK /\ PipelineInv /\ [Next]_vars => TypeOK' /\ PipelineInv'
<1> SUFFICES ASSUME TypeOK, PipelineInv, [Next]_vars PROVE TypeOK' /\ PipelineInv'
  OBVIOUS
<1>1. CASE UNCHANGED vars
  BY <1>1 DEF vars, TypeOK, PipelineInv
<1>2. CASE Next
  BY <1>2, QuietActions, FinishActions, FailActions, StoreActions, SuccessActions,
     CheckPointActions, CommitActions, DropActions, NotifyActions, SyncActions, RestartActions,
     Zenon DEF Next
<1> QED BY <1>1, <1>2

(***************************************************************************)
(* Every register and queue of the second stage keeps its type, and the    *)
(* inductive invariant holds, through failures, crashes and synchronised   *)
(* blocks.                                                                 *)
(***************************************************************************)
THEOREM PipelineInvariant == Spec => [](TypeOK /\ PipelineInv)
<1>1. Init => TypeOK /\ PipelineInv
  BY InitPipeline
<1>2. TypeOK /\ PipelineInv /\ [Next]_vars => (TypeOK /\ PipelineInv)'
  BY NextPipeline
<1> QED BY <1>1, <1>2, PTL DEF Spec

(***************************************************************************)
(* The registers and queues of the second stage keep their types.          *)
(***************************************************************************)
THEOREM PipelineTyped == Spec => []TypeOK
  BY PipelineInvariant, PTL

(***************************************************************************)
(* tryToCommitStableCheckPoint never hands a number beyond the next one to *)
(* commitBlock, whatever is synchronised, fails or crashes meanwhile.      *)
(***************************************************************************)
THEOREM CommitsInOrderHolds == Spec => []CommitsInOrder
<1>1. TypeOK /\ PipelineInv => CommitsInOrder
  BY DEF PipelineInv, Shape, CommitsInOrder
<1> QED BY <1>1, PipelineInvariant, PTL

(***************************************************************************)
(* What waits for its commit or is being committed has been reported by    *)
(* the node and by a quorum, although removeFutureProposals and restarts   *)
(* drop the CheckPoint messages that checkAndCommitStableCheckPoint saw.   *)
(***************************************************************************)
THEOREM StableByQuorumHolds == Spec => []StableByQuorum
<1>1. TypeOK /\ PipelineInv => StableByQuorum
  BY DEF PipelineInv, Voted, StableByQuorum
<1> QED BY <1>1, PipelineInvariant, PTL

(***************************************************************************)
(* As long as no execution fails, the mark in m_executingProposals keeps   *)
(* tryToApplyCommitQueue from executing a proposal that is being executed. *)
(***************************************************************************)
THEOREM ExecutedOnceHolds == Spec => []ExecutedOnceUnlessFailed
<1>1. TypeOK /\ PipelineInv => ExecutedOnceUnlessFailed
  <2> SUFFICES ASSUME TypeOK, PipelineInv PROVE ExecutedOnceUnlessFailed
    OBVIOUS
  <2>1. faults["execute"] \in Nat
    BY DEF TypeOK, Faults
  <2>2. faults["execute"] = 0 => ExecutedOnce
    BY DEF PipelineInv, Once, ExecutedOnce
  <2> QED BY <2>1, <2>2 DEF ExecutedOnceUnlessFailed
<1> QED BY <1>1, PipelineInvariant, PTL

(***************************************************************************)
(* Every result the node votes for is in the storage, from which loadState *)
(* reloads it, unless a write was given up or a block was synchronised,    *)
(* although the node may crash between the two writes of a proposal.       *)
(***************************************************************************)
THEOREM StoredHolds == Spec => []StoredUnlessRemoved
<1>1. TypeOK /\ PipelineInv => StoredUnlessRemoved
  BY DEF PipelineInv, Kept, StoredUnlessRemoved
<1> QED BY <1>1, PipelineInvariant, PTL

(***************************************************************************)
(* Without synchronised blocks and lost commits, every number between the  *)
(* ledger and expectedCheckPoint has a result, however often executions    *)
(* fail and the register is set back, and whatever crashes and new views   *)
(* drop.                                                                   *)
(***************************************************************************)
THEOREM NoGapHolds == Spec => []NoGapUnlessLost
<1>1. TypeOK /\ PipelineInv => NoGapUnlessLost
  <2> SUFFICES ASSUME TypeOK, PipelineInv PROVE NoGapUnlessLost
    OBVIOUS
  <2>1. faults["sync"] \in Nat /\ faults["commit"] \in Nat
    BY DEF TypeOK, Faults
  <2>2. faults["sync"] = 0 /\ faults["commit"] = 0 => NoGap
    BY DEF PipelineInv, Chain, HasResult, NoGap, Applied
  <2> QED BY <2>1, <2>2 DEF NoGapUnlessLost
<1> QED BY <1>1, PipelineInvariant, PTL

-----------------------------------------------------------------------------
(* The refinement of StagedLedger *)

BegunIn(s) == {i \in Index : s.running[i] > 0 \/ Waits(s, i)}

AppliedIn(s) == {i \in Index : i > s.committed /\ HasResult(s, i)}

AgreedIn(R) == {i \in Index : Me \in R[i] /\ IsQuorum(R[i])}

\* what Stages!Grounded says of two states
Grounds(s, t) ==
  \A i \in BegunIn(t) \ BegunIn(s) :
    i - 1 = t.committed \/ i - 1 \in AppliedIn(s) \cup AppliedIn(t)

\* The variables of StagedLedger before and after a step.
LEMMA Mapping ==
  /\ Begun = BegunIn(node) /\ AppliedAbove = AppliedIn(node) /\ AgreedOn = AgreedIn(reported)
  /\ Begun' = BegunIn(node') /\ AppliedAbove' = AppliedIn(node')
  /\ AgreedOn' = AgreedIn(reported')
  /\ Ledger(node)' = Ledger(node')
  BY DEF Begun, AppliedAbove, AgreedOn, BegunIn, AppliedIn, AgreedIn, Waits, HasResult, Applied,
         Ledger

\* The ledger's height is the highest number accepted or written.
LEMMA LedgerIs ==
  ASSUME NEW s \in State, NEW m \in s.notified \cup {s.committed},
         \A k \in s.notified \cup {s.committed} : m >= k
  PROVE  Ledger(s) = m
<1>1. /\ Ledger(s) \in s.notified \cup {s.committed} /\ Ledger(s) >= s.committed
      /\ \A k \in s.notified : Ledger(s) >= k /\ k \in Int
      /\ s.committed \in Int /\ Ledger(s) \in Int
  BY LedgerIn, Fields, IndexRange
<1>2. m \in Int /\ Ledger(s) >= m /\ m >= Ledger(s)
  BY <1>1
<1> QED BY <1>1, <1>2

\* The same registers make the same height.
LEMMA SameLedger ==
  ASSUME NEW s, NEW t, t.committed = s.committed, t.notified = s.notified
  PROVE  Ledger(t) = Ledger(s)
  BY DEF Ledger

\* A cached result is above the ledger, so it is one of the applied ones.
LEMMA CachedIsApplied ==
  ASSUME NEW s \in State, Shape(s), NEW i \in Index, s.caches[i].checkpoint
  PROVE  i \in AppliedIn(s)
  BY DEF Shape, AppliedIn, HasResult

\* An execution that begins at most adds its number.
LEMMA BegunMore ==
  ASSUME NEW s \in State, NEW t \in State,
         \A i : Waits(t, i) => Waits(s, i),
         NEW e, t.running = [s.running EXCEPT ![e] = @ + 1]
  PROVE  BegunIn(t) \ BegunIn(s) \subseteq {e}
<1>1. \A i \in Index : i # e => t.running[i] = s.running[i]
  BY Fields
<1> QED BY <1>1 DEF BegunIn

\* No execution begins when none is added to the running ones.
LEMMA BegunSame ==
  ASSUME NEW s, NEW t, \A i : Waits(t, i) => Waits(s, i), t.running = s.running
  PROVE  BegunIn(t) \subseteq BegunIn(s)
  BY DEF BegunIn

\* A step that begins or gives up executions and forgets results.
LEMMA ProceedStep ==
  ASSUME Grounds(node, node'), AppliedIn(node') \subseteq AppliedIn(node),
         Ledger(node') = Ledger(node), node'.committed = node.committed,
         AgreedIn(reported') = AgreedIn(reported)
  PROVE  Stages!Next
<1>1. Stages!Grounded
  BY Mapping DEF Grounds, Stages!Grounded
<1>2. Stages!Proceed
  BY Mapping DEF Stages!Proceed
<1> QED BY <1>1, <1>2 DEF Stages!Next

\* Deliveries, timeouts, new views and requests.
LEMMA QuietStage ==
  ASSUME TypeOK, TypeOK', PipelineInv, Quiet(node, node'), reported' = reported
  PROVE  Stages!Next
<1> DEFINE s == node
           t == node'
<1>1. s \in State /\ t \in State /\ Shape(s)
  BY DEF TypeOK, PipelineInv
<1>2. Quiet(s, t)
  OBVIOUS
<1> HIDE DEF s, t
<1>3. \A i : Waits(t, i) <=> Waits(s, i)
  BY <1>2 DEF Quiet, SameRegisters, Waits
<1>4. \A i \in Index : HasResult(t, i) <=> HasResult(s, i)
  BY <1>2 DEF Quiet, SameCaches, SameStable, HasResult
<1>5. AppliedIn(t) = AppliedIn(s)
  BY <1>2, <1>4 DEF AppliedIn, Quiet, SameRegisters
<1>6. Ledger(t) = Ledger(s) /\ t.committed = s.committed
  BY <1>2, SameLedger DEF Quiet, SameRegisters
<1>7. Grounds(s, t)
  <2>1. CASE t.running = s.running
    BY <2>1, <1>3, BegunSame DEF Grounds
  <2>2. CASE /\ s.expected \in Index /\ LastApplied(s)
             /\ t.running = [s.running EXCEPT ![s.expected] = @ + 1]
    <3>1. BegunIn(t) \ BegunIn(s) \subseteq {s.expected}
      BY <1>1, <1>3, <2>2, BegunMore
    <3>2. s.expected - 1 = t.committed \/ s.expected - 1 \in AppliedIn(s)
      BY <1>1, <1>6, <2>2, CachedIsApplied DEF LastApplied
    <3> QED BY <3>1, <3>2 DEF Grounds
  <2> QED BY <1>2, <2>1, <2>2 DEF Quiet
<1> QED BY <1>5, <1>6, <1>7, ProceedStep DEF s, t

\* The end of an execution, whose result waits for the worker or is given up.
LEMMA FinishedStage ==
  ASSUME TypeOK, TypeOK', NEW i \in Index, NEW st, Finished(node, node', i, st),
         reported' = reported
  PROVE  Stages!Next
<1> DEFINE s == node
           t == node'
<1>1. s \in State /\ t \in State
  BY DEF TypeOK
<1>2. Finished(s, t, i, st)
  OBVIOUS
<1> HIDE DEF s, t
<1>3. \A j \in Index : HasResult(t, j) <=> HasResult(s, j)
  BY <1>2 DEF Finished, SameStable, HasResult
<1>4. AppliedIn(t) = AppliedIn(s)
  BY <1>2, <1>3 DEF AppliedIn, Finished
<1>5. Ledger(t) = Ledger(s) /\ t.committed = s.committed
  BY <1>2, SameLedger DEF Finished
<1>6. BegunIn(t) \subseteq BegunIn(s)
  <2>1. \A j \in Index : t.running[j] > 0 => s.running[j] > 0
    BY <1>1, <1>2, Fields DEF Finished
  <2>2. \A j : Waits(t, j) => Waits(s, j) \/ j = i
    <3>1. CASE i <= s.committed
      BY <1>2, <3>1 DEF Finished, Waits
    <3>2. CASE ~(i <= s.committed)
      <4>1. s.results \in Seq(Result) /\ t.results = Append(s.results, [index |-> i, state |-> st])
        BY <1>1, <1>2, <3>2, Fields DEF Finished
      <4> QED BY <4>1 DEF Waits
    <3> QED BY <3>1, <3>2
  <2>3. i \in BegunIn(s)
    BY <1>2 DEF Finished, BegunIn
  <2> QED BY <2>1, <2>2, <2>3 DEF BegunIn
<1>7. Grounds(s, t)
  BY <1>6 DEF Grounds
<1> QED BY <1>4, <1>5, <1>7, ProceedStep DEF s, t

\* The writes of a proposal.
LEMMA MovedStage ==
  ASSUME TypeOK, TypeOK', NEW a, NEW b \in {"executed", "indexed", "stored"},
         Moved(node, node', a, b), reported' = reported
  PROVE  Stages!Next
<1> DEFINE s == node
           t == node'
<1>1. s \in State /\ t \in State
  BY DEF TypeOK
<1>2. Moved(s, t, a, b)
  OBVIOUS
<1> HIDE DEF s, t
<1>3. \A j \in Index : HasResult(t, j) <=> HasResult(s, j)
  BY <1>2 DEF Moved, SameStable, HasResult
<1>4. AppliedIn(t) = AppliedIn(s)
  BY <1>2, <1>3 DEF AppliedIn, Moved
<1>5. Ledger(t) = Ledger(s) /\ t.committed = s.committed
  BY <1>2, SameLedger DEF Moved
<1>6. \A j : Waits(t, j) => Waits(s, j)
  BY <1>1, <1>2, MovedFacts
<1>7. Grounds(s, t)
  BY <1>2, <1>6, BegunSame DEF Grounds, Moved
<1> QED BY <1>4, <1>5, <1>7, ProceedStep DEF s, t

\* A failed execution is handled.
LEMMA FailedStage ==
  ASSUME TypeOK, TypeOK', PipelineInv, Failed(node, node'), reported' = reported
  PROVE  Stages!Next
<1> DEFINE s == node
           t == node'
<1>1. s \in State /\ t \in State /\ Shape(s)
  BY DEF TypeOK, PipelineInv
<1>2. Failed(s, t)
  OBVIOUS
<1> HIDE DEF s, t
<1>3. \A i : Waits(t, i) => Waits(s, i)
  BY <1>1, <1>2, TakenFacts DEF Failed
<1>4. \A i \in Index : HasResult(t, i) <=> HasResult(s, i)
  BY <1>2 DEF Failed, SameStable, HasResult
<1>5. AppliedIn(t) = AppliedIn(s)
  BY <1>2, <1>4 DEF AppliedIn, Failed, Taken
<1>6. Ledger(t) = Ledger(s) /\ t.committed = s.committed
  BY <1>2, SameLedger DEF Failed, Taken
<1>7. Grounds(s, t)
  <2>1. CASE t.running = s.running
    BY <2>1, <1>3, BegunSame DEF Grounds
  <2>2. CASE /\ s.expected \in Index /\ LastApplied(s)
             /\ t.running = [s.running EXCEPT ![s.expected] = @ + 1]
    <3>1. BegunIn(t) \ BegunIn(s) \subseteq {s.expected}
      BY <1>1, <1>3, <2>2, BegunMore
    <3>2. s.expected - 1 = t.committed \/ s.expected - 1 \in AppliedIn(s)
      BY <1>1, <1>6, <2>2, CachedIsApplied DEF LastApplied
    <3> QED BY <3>1, <3>2 DEF Grounds
  <2> QED BY <1>2, <2>1, <2>2 DEF Failed
<1> QED BY <1>5, <1>6, <1>7, ProceedStep DEF s, t

\* The report of one more node adds its number to the agreed ones, or nothing.
LEMMA AgreedMore ==
  ASSUME NEW R, NEW Q, NEW i \in Index, NEW p,
         \A j \in Index : Q[j] = IF j = i THEN R[j] \cup {p} ELSE R[j]
  PROVE  AgreedIn(Q) \in {AgreedIn(R), AgreedIn(R) \cup {i}}
<1>1. IsQuorum(R[i]) => IsQuorum(Q[i])
  BY QuorumMonotonic
<1>2. \A j \in Index : j # i => Q[j] = R[j]
  OBVIOUS
<1>3. Me \in R[i] => Me \in Q[i]
  OBVIOUS
<1>4. CASE i \in AgreedIn(Q)
  BY <1>1, <1>2, <1>3, <1>4 DEF AgreedIn
<1>5. CASE i \notin AgreedIn(Q)
  BY <1>1, <1>2, <1>3, <1>5 DEF AgreedIn
<1> QED BY <1>4, <1>5

\* What a report does to the applied results.
LEMMA ReportedApplied ==
  ASSUME NEW s \in State, NEW t \in State, NEW i \in Index, NEW p, NEW done \in BOOLEAN,
         Reports(s, t, i, p, done)
  PROVE  AppliedIn(t) = IF done /\ i > s.committed THEN AppliedIn(s) \cup {i} ELSE AppliedIn(s)
<1>1. t.committed = s.committed
  BY DEF Reports
<1>2. ASSUME NEW j \in Index, j > s.committed
      PROVE  HasResult(t, j) <=> HasResult(s, j) \/ (done /\ j = i)
  <2>1. ReportsAt(s, t, i, p, done, j)
    BY DEF Reports
  <2>2. t.caches[j].checkpoint <=> s.caches[j].checkpoint \/ (done /\ j = i)
    BY <1>2, <2>1 DEF ReportsAt
  <2>3. t.committing[j] > 0 \/ t.stableQueue[j] > 0
        => s.committing[j] > 0 \/ s.stableQueue[j] > 0 \/ t.caches[j].checkpoint
    BY <2>1 DEF ReportsAt, Agreeing
  <2>4. s.committing[j] > 0 \/ s.stableQueue[j] > 0
        => t.committing[j] > 0 \/ t.stableQueue[j] > 0
    BY <1>2, <2>1 DEF ReportsAt
  <2> QED BY <2>2, <2>3, <2>4 DEF HasResult
<1> QED BY <1>1, <1>2 DEF AppliedIn

\* A report, and the execution that it may let begin.
LEMMA ReportGrounds ==
  ASSUME NEW s \in State, NEW t \in State, Shape(t), t.committed = s.committed,
         \A j : Waits(t, j) => Waits(s, j),
         t.running = s.running \/ BeginsAt(s, t, t.expected)
  PROVE  Grounds(s, t)
<1>1. CASE t.running = s.running
  BY <1>1, BegunSame DEF Grounds
<1>2. CASE BeginsAt(s, t, t.expected)
  <2>1. BegunIn(t) \ BegunIn(s) \subseteq {t.expected}
    BY <1>2, BegunMore DEF BeginsAt
  <2>2. t.expected - 1 = t.committed \/ t.expected - 1 \in AppliedIn(t)
    BY <1>2, CachedIsApplied DEF BeginsAt
  <2> QED BY <2>1, <2>2 DEF Grounds
<1> QED BY <1>1, <1>2

\* A step that only adds a report.
LEMMA AgreeStep ==
  ASSUME Grounds(node, node'), AppliedIn(node') = AppliedIn(node),
         Ledger(node') = Ledger(node), node'.committed = node.committed,
         NEW i \in Index, AgreedIn(reported') \in {AgreedIn(reported), AgreedIn(reported) \cup {i}}
  PROVE  Stages!Next
<1>1. CASE AgreedIn(reported') = AgreedIn(reported)
  BY <1>1, ProceedStep
<1>2. CASE AgreedIn(reported') = AgreedIn(reported) \cup {i}
  <2>1. Stages!Grounded
    BY Mapping DEF Grounds, Stages!Grounded
  <2>2. Stages!Agree(i)
    BY <1>2, Mapping DEF Stages!Agree
  <2> QED BY <2>1, <2>2 DEF Stages!Next, Index
<1> QED BY <1>1, <1>2

\* The worker takes a result into account.
LEMMA SuccessStage ==
  ASSUME TypeOK, TypeOK', PipelineInv', NEW i \in Index, Succeeded(node, node', i),
         \A j \in Index : reported'[j] = IF j = i THEN reported[j] \cup {Me} ELSE reported[j]
  PROVE  Stages!Next
<1> DEFINE s == node
           t == node'
           done == TRUE
<1>1. s \in State /\ t \in State /\ Shape(t)
  BY DEF TypeOK, PipelineInv
<1>2. Succeeded(s, t, i) /\ Reports(s, t, i, Me, done) /\ done \in BOOLEAN /\ done
  BY DEF Succeeded
<1>3. AgreedIn(reported') \in {AgreedIn(reported), AgreedIn(reported) \cup {i}}
  BY AgreedMore
<1> HIDE DEF s, t, done
<1>4. /\ \A j : Waits(t, j) => Waits(s, j)
      /\ 1 \in 1 .. Len(s.results) /\ s.results[1].index = i
  BY <1>1, <1>2, TakenFacts DEF Succeeded
<1>5. Ledger(t) = Ledger(s) /\ t.committed = s.committed
  BY <1>2, SameLedger DEF Succeeded, Taken
<1>6. Grounds(s, t)
  BY <1>1, <1>2, <1>4, <1>5, ReportGrounds DEF Succeeded
<1>7. i \in BegunIn(s)
  BY <1>4 DEF BegunIn, Waits
<1>8. CASE i > s.committed
  <2>1. AppliedIn(t) = AppliedIn(s) \cup {i}
    BY <1>1, <1>2, <1>8, ReportedApplied
  <2>2. Stages!Grounded
    BY <1>6, Mapping DEF Grounds, Stages!Grounded, s, t
  <2>3. Stages!Apply(i)
    BY <1>3, <1>5, <1>7, <1>8, <2>1, Mapping DEF Stages!Apply, s, t
  <2> QED BY <2>2, <2>3 DEF Stages!Next, Index
<1>9. CASE ~(i > s.committed)
  <2>1. AppliedIn(t) = AppliedIn(s)
    BY <1>1, <1>2, <1>9, ReportedApplied
  <2> QED BY <1>3, <1>5, <1>6, <2>1, AgreeStep DEF s, t
<1> QED BY <1>8, <1>9

\* The CheckPoint of another node.
LEMMA CheckPointStage ==
  ASSUME TypeOK, TypeOK', PipelineInv', NEW i \in Index, NEW p, CheckPointed(node, node', i, p),
         \A j \in Index : reported'[j] = IF j = i THEN reported[j] \cup {p} ELSE reported[j]
  PROVE  Stages!Next
<1> DEFINE s == node
           t == node'
           done == FALSE
<1>1. s \in State /\ t \in State /\ Shape(t)
  BY DEF TypeOK, PipelineInv
<1>2. CheckPointed(s, t, i, p) /\ Reports(s, t, i, p, done) /\ done \in BOOLEAN /\ ~done
  BY DEF CheckPointed
<1>3. AgreedIn(reported') \in {AgreedIn(reported), AgreedIn(reported) \cup {i}}
  BY AgreedMore
<1> HIDE DEF s, t, done
<1>4. \A j : Waits(t, j) => Waits(s, j)
  BY <1>2 DEF CheckPointed, Waits
<1>5. Ledger(t) = Ledger(s) /\ t.committed = s.committed
  BY <1>2, SameLedger DEF Reports
<1>6. Grounds(s, t)
  BY <1>1, <1>2, <1>4, <1>5, ReportGrounds DEF CheckPointed
<1>7. AppliedIn(t) = AppliedIn(s)
  BY <1>1, <1>2, ReportedApplied
<1> QED BY <1>3, <1>5, <1>6, <1>7, AgreeStep DEF s, t

\* The next block is written.
LEMMA CommitStage ==
  ASSUME TypeOK, TypeOK', PipelineInv, NEW i \in Index, Commits(node, node', i),
         i > Ledger(node), reported' = reported
  PROVE  Stages!Next
<1> DEFINE s == node
           t == node'
<1>1. s \in State /\ t \in State /\ Shape(s) /\ Voted(s, reported)
  BY DEF TypeOK, PipelineInv
<1>2. Commits(s, t, i) /\ i > Ledger(s)
  OBVIOUS
<1> HIDE DEF s, t
<1>3. /\ i \in Int /\ s.committed \in Int /\ i = s.committed + 1 /\ t.committed = i
      /\ t.notified = s.notified
  BY <1>1, <1>2, Numbers DEF Commits
<1>4. Ledger(s) = s.committed
  <2>1. Ledger(s) \in Int /\ Ledger(s) >= s.committed
    BY <1>1, LedgerIn
  <2> QED BY <1>2, <1>3, <2>1
<1>5. Ledger(t) = i
  <2>1. \A k \in s.notified : k \in Int /\ Ledger(s) >= k
    BY <1>1, LedgerIn, Fields, IndexRange
  <2>2. \A k \in t.notified \cup {t.committed} : i >= k
    BY <1>3, <1>4, <2>1
  <2> QED BY <1>1, <1>3, <2>2, LedgerIs
<1>6. i \in AppliedIn(s) /\ i \in AgreedIn(reported)
  BY <1>1, <1>2, <1>3 DEF AppliedIn, AgreedIn, HasResult, Voted, Commits
<1>7. AppliedIn(t) = AppliedIn(s) \ {i}
  <2>1. \A j \in Index : j \in Int /\ (j > i => (HasResult(t, j) <=> HasResult(s, j)))
    BY <1>2, IndexRange DEF Commits
  <2>2. \A j \in Index : j > t.committed <=> j > s.committed /\ j # i
    BY <1>3, <2>1
  <2>3. \A j \in Index : j > t.committed => (HasResult(t, j) <=> HasResult(s, j))
    BY <1>3, <2>1
  <2> QED BY <2>2, <2>3 DEF AppliedIn
<1>8. Grounds(s, t)
  <2> SUFFICES ASSUME NEW j \in BegunIn(t) \ BegunIn(s)
               PROVE  j - 1 = t.committed \/ j - 1 \in AppliedIn(s)
    BY DEF Grounds
  <2>1. j \in Index /\ ~(t.running[j] = s.running[j])
    BY <1>2 DEF BegunIn, Waits, Commits
  <2>2. j - 1 = i \/ (j - 1 \in Index /\ s.caches[j - 1].checkpoint)
    BY <1>2, <2>1 DEF Commits
  <2> QED BY <1>1, <1>3, <2>2, CachedIsApplied
<1>9. Stages!Grounded
  BY <1>8, Mapping DEF Grounds, Stages!Grounded, s, t
<1>10. Stages!Commit
  BY <1>3, <1>4, <1>5, <1>6, <1>7, Mapping DEF Stages!Commit, s, t
<1> QED BY <1>9, <1>10 DEF Stages!Next

\* A commit that fails.
LEMMA DropStage ==
  ASSUME TypeOK, TypeOK', NEW i \in Index, Drops(node, node', i), reported' = reported
  PROVE  Stages!Next
<1> DEFINE s == node
           t == node'
<1>1. Drops(s, t, i)
  OBVIOUS
<1> HIDE DEF s, t
<1>2. Ledger(t) = Ledger(s) /\ t.committed = s.committed
  BY <1>1, SameLedger DEF Drops
<1>3. AppliedIn(t) \subseteq AppliedIn(s)
  BY <1>1 DEF Drops, AppliedIn
<1>4. Grounds(s, t)
  BY <1>1, BegunSame DEF Drops, Grounds, Waits
<1> QED BY <1>2, <1>3, <1>4, ProceedStep DEF s, t

\* A block that the sync module has written.
LEMMA NotifyStage ==
  ASSUME TypeOK, TypeOK', NEW k \in Index, k > Ledger(node),
         Renotified(node, node'), node'.notified = node.notified \cup {k},
         \A j \in Index : HasResult(node', j) <=> HasResult(node, j), reported' = reported
  PROVE  Stages!Next
<1> DEFINE s == node
           t == node'
<1>1. /\ s \in State /\ t \in State /\ Renotified(s, t) /\ t.notified = s.notified \cup {k}
      /\ k > Ledger(s) /\ \A j \in Index : HasResult(t, j) <=> HasResult(s, j)
  BY DEF TypeOK
<1> HIDE DEF s, t
<1>2. t.committed = s.committed /\ AppliedIn(t) = AppliedIn(s)
  BY <1>1 DEF Renotified, AppliedIn
<1>3. Ledger(t) = k
  <2>1. /\ Ledger(s) \in Int /\ Ledger(s) >= s.committed /\ s.committed \in Int /\ k \in Int
        /\ \A j \in s.notified : Ledger(s) >= j /\ j \in Int
    BY <1>1, LedgerIn, Fields, IndexRange
  <2>2. \A j \in t.notified \cup {t.committed} : k >= j
    BY <1>1, <1>2, <2>1
  <2> QED BY <1>1, <2>2, LedgerIs
<1>4. Grounds(s, t)
  BY <1>1, BegunSame DEF Renotified, Grounds, Waits
<1>5. Stages!Grounded
  BY <1>4, Mapping DEF Grounds, Stages!Grounded, s, t
<1>6. Stages!Synchronise(k)
  BY <1>1, <1>2, <1>3, Mapping DEF Stages!Synchronise, s, t
<1> QED BY <1>5, <1>6 DEF Stages!Next, Index

\* A synchronised block is taken over.
LEMMA SyncStage ==
  ASSUME TypeOK, TypeOK', PipelineInv, NEW k \in Index, TakesOver(node, node', k),
         reported' = reported
  PROVE  Stages!Next
<1> DEFINE s == node
           t == node'
<1>1. s \in State /\ t \in State /\ Shape(s)
  BY DEF TypeOK, PipelineInv
<1>2. TakesOver(s, t, k)
  OBVIOUS
<1> HIDE DEF s, t
<1>3. /\ k \in Int /\ s.committed \in Int /\ t.committed = Larger(s.committed, k)
      /\ k \in s.notified /\ t.notified = s.notified \ {k}
  BY <1>1, <1>2, Numbers DEF TakesOver
<1>4. /\ t.committed >= s.committed /\ t.committed >= k
      /\ t.committed = s.committed \/ t.committed = k
  BY <1>3 DEF Larger
<1>5. /\ Ledger(s) \in Int /\ Ledger(s) >= s.committed /\ Ledger(s) >= k
      /\ Ledger(s) \in s.notified \cup {s.committed}
      /\ \A j \in s.notified : Ledger(s) >= j
  BY <1>1, <1>3, LedgerIn
<1>6. Ledger(t) = Ledger(s)
  <2>1. Ledger(s) \in t.notified \cup {t.committed}
    BY <1>3, <1>4, <1>5
  <2>2. \A j \in t.notified \cup {t.committed} : Ledger(s) >= j
    BY <1>3, <1>4, <1>5
  <2> QED BY <1>1, <2>1, <2>2, LedgerIs
<1>7. AppliedIn(t) \subseteq {j \in AppliedIn(s) : j > t.committed}
  <2> SUFFICES ASSUME NEW j \in AppliedIn(t) PROVE j \in AppliedIn(s) /\ j > t.committed
    OBVIOUS
  <2>1. j \in Index /\ j \in Int /\ j > t.committed /\ HasResult(s, j)
    BY <1>2, IndexRange DEF AppliedIn, TakesOver
  <2> QED BY <1>3, <1>4, <2>1 DEF AppliedIn
<1>8. Grounds(s, t)
  <2> SUFFICES ASSUME NEW j \in BegunIn(t) \ BegunIn(s)
               PROVE  j - 1 = t.committed \/ j - 1 \in AppliedIn(s)
    BY DEF Grounds
  <2>1. j \in Index /\ ~(t.running[j] = s.running[j])
    BY <1>2 DEF BegunIn, Waits, TakesOver
  <2>2. j - 1 = t.committed \/ (j - 1 \in Index /\ s.caches[j - 1].checkpoint)
    BY <1>2, <2>1 DEF TakesOver
  <2> QED BY <1>1, <2>2, CachedIsApplied
<1>9. CASE k > s.committed
  <2>1. t.committed = k
    BY <1>3, <1>9 DEF Larger
  <2>2. Stages!Grounded
    BY <1>8, Mapping DEF Grounds, Stages!Grounded, s, t
  <2>3. Stages!TakeOver(k)
    BY <1>3, <1>5, <1>6, <1>7, <1>9, <2>1, Mapping DEF Stages!TakeOver, s, t
  <2> QED BY <2>2, <2>3 DEF Stages!Next, Index
<1>10. CASE ~(k > s.committed)
  <2>1. t.committed = s.committed
    BY <1>3, <1>10 DEF Larger
  <2> QED BY <1>6, <1>7, <1>8, <2>1, ProceedStep DEF s, t
<1> QED BY <1>9, <1>10

\* A restart takes over what is on the ledger, and forgets everything else.
LEMMA RestartStage ==
  ASSUME TypeOK, TypeOK', Restarts(node, node'), reported' = reported
  PROVE  Stages!Next
<1> DEFINE s == node
           t == node'
<1>1. s \in State /\ t \in State /\ Restarts(s, t)
  BY DEF TypeOK
<1> HIDE DEF s, t
<1>2. /\ Ledger(s) \in 0 .. MaxIndex /\ Ledger(s) >= s.committed /\ s.committed \in 0 .. MaxIndex
  BY <1>1, LedgerIn, Fields
<1>3. t.committed = Ledger(s) /\ Ledger(t) = Ledger(s)
  <2>1. t.committed = Ledger(s) /\ t.notified \cup {t.committed} = {Ledger(s)}
    BY <1>1 DEF Restarts
  <2>2. \A j \in t.notified \cup {t.committed} : Ledger(s) >= j
    BY <1>2, <2>1
  <2> QED BY <1>1, <2>1, <2>2, LedgerIs
<1>4. BegunIn(t) = {} /\ AppliedIn(t) = {}
  BY <1>1 DEF Restarts, BegunIn, AppliedIn, Waits
<1>5. Grounds(s, t)
  BY <1>4 DEF Grounds
<1>6. CASE Ledger(s) > s.committed
  <2>1. Ledger(s) \in 1 .. MaxIndex
    BY <1>2, <1>6
  <2>2. Stages!Grounded
    BY <1>5, Mapping DEF Grounds, Stages!Grounded, s, t
  <2>3. Stages!TakeOver(Ledger(s))
    BY <1>2, <1>3, <1>4, <1>6, Mapping DEF Stages!TakeOver, s, t
  <2> QED BY <2>1, <2>2, <2>3 DEF Stages!Next
<1>7. CASE ~(Ledger(s) > s.committed)
  <2>1. Ledger(s) = s.committed
    BY <1>2, <1>7
  <2> QED BY <1>3, <1>4, <1>5, <2>1, ProceedStep DEF s, t
<1> QED BY <1>6, <1>7

\* The first state has an empty ledger, and nothing has begun.
LEMMA InitStages == Init => Stages!Init
<1> SUFFICES ASSUME Init PROVE Stages!Init
  OBVIOUS
<1>1. /\ node.committed = 0 /\ node.notified = {} /\ node.results = <<>>
      /\ node.running = Zero /\ node.stableQueue = Zero /\ node.committing = Zero
      /\ node.caches = [i \in Index |-> EmptyCache]
      /\ reported = [i \in Index |-> {}]
  BY DEF Init, StartState
<1>2. \A i \in Index : /\ node.running[i] = 0 /\ node.stableQueue[i] = 0 /\ node.committing[i] = 0
                       /\ ~node.caches[i].checkpoint /\ reported[i] = {}
  BY <1>1 DEF Zero, EmptyCache
<1>3. Begun = {}
  BY <1>1, <1>2 DEF Begun
<1>4. AppliedAbove = {} /\ AgreedOn = {}
  BY <1>2 DEF AppliedAbove, AgreedOn, Applied
<1>5. Ledger(node) = 0
  <2>1. node \in State
    BY InitPipeline DEF TypeOK
  <2>2. \A k \in node.notified \cup {node.committed} : 0 >= k
    BY <1>1
  <2> QED BY <1>1, <2>1, <2>2, LedgerIs
<1> QED BY <1>1, <1>3, <1>4, <1>5 DEF Stages!Init

\* Every step is a step of StagedLedger or leaves its variables unchanged.
LEMMA NextStages ==
  ASSUME TypeOK, PipelineInv, TypeOK', PipelineInv', [Next]_vars
  PROVE  [Stages!Next]_(Stages!vars)
<1>1. CASE UNCHANGED vars
  <2>1. node' = node /\ reported' = reported
    BY <1>1 DEF vars
  <2> QED BY <2>1, Mapping DEF Stages!vars
<1>2. CASE Next
  <2>1. (\E i \in Index : ExecuteSucceeds(i) \/ ExecuteFails(i)) => Stages!Next
    BY FinishActions, FinishedStage
  <2>2. (StoreIndex \/ StoreProposal \/ StoreIndexFails \/ StoreProposalFails) => Stages!Next
    BY StoreActions, MovedStage
  <2>3. ApplyFailed => Stages!Next
    BY FailActions, FailedStage
  <2>4. ApplySuccess => Stages!Next
    BY SuccessActions, SuccessStage
  <2>5. (\E p \in Node, i \in Index : HandleCheckPoint(p, i)) => Stages!Next
    BY CheckPointActions, CheckPointStage
  <2>6. (\E i \in Index : CommitSucceeds(i)) => Stages!Next
    <3>1. \A i \in Index : CommitSucceeds(i) => i > Ledger(node)
      BY DEF CommitSucceeds
    <3> QED BY <3>1, CommitActions, CommitStage
  <2>7. (\E i \in Index : CommitExpired(i) \/ CommitFails(i)) => Stages!Next
    BY DropActions, DropStage
  <2>8. (\E k \in Index : NotifyNewBlock(k)) => Stages!Next
    <3>1. \A k \in Index : NotifyNewBlock(k) => k > Ledger(node)
      BY DEF NotifyNewBlock
    <3> QED BY <3>1, NotifyActions, NotifyStage
  <2>9. (\E k \in Index : SyncBlock(k)) => Stages!Next
    BY SyncActions, SyncStage
  <2>10. Restart \/ RestartUnread => Stages!Next
    BY RestartActions, RestartStage
  <2>11. (\/ \E i \in Index : OrderProposal(i)
          \/ NewView
          \/ OnTimeout
          \/ \E i \in Index : \/ ResponseFound(i) \/ ResponseEmpty(i) \/ ResponseError(i)
                              \/ LoadSucceeds(i) \/ LoadFails(i) \/ LoadGivesUp(i) \/ NotifySyncing(i))
         => Stages!Next
    BY QuietActions, QuietStage
  <2> QED BY <1>2, <2>1, <2>2, <2>3, <2>4, <2>5, <2>6, <2>7, <2>8, <2>9, <2>10, <2>11, Zenon
          DEF Next
<1> QED BY <1>1, <1>2

(***************************************************************************)
(* The second stage implements StagedLedger: whatever fails, crashes or is *)
(* synchronised, an execution begins on the last block or on a result of   *)
(* its predecessor, and the node extends the ledger by the next block only *)
(* when it has executed it and a quorum has reported it                    *)
(* (tryToApplyCommitQueue, checkAndCommitStableCheckPoint,                 *)
(* finalizeConsensus).                                                     *)
(***************************************************************************)
THEOREM StagesRefined == Spec => ImplementsStages
<1>1. Init => Stages!Init
  BY InitStages
<1>2. TypeOK /\ PipelineInv /\ (TypeOK /\ PipelineInv)' /\ [Next]_vars
      => [Stages!Next]_(Stages!vars)
  BY NextStages
<1> QED BY <1>1, <1>2, PipelineInvariant, PTL DEF Spec, ImplementsStages, Stages!Spec

=============================================================================

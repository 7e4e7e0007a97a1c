------------------------- MODULE PBFTTimeoutProofs -------------------------
(***************************************************************************)
(* When the timer of a node runs, for every list of nodes, every number of *)
(* blocks and views and every limit on faults: type correctness and the    *)
(* three safety properties of PBFTTimeout.                                 *)
(***************************************************************************)
EXTENDS PBFTTimeout, PBFTQuorumProofs

\* The types of the registers of a state.
LEMMA Registers ==
  ASSUME NEW s \in State
  PROVE  /\ s.phase \in {"built", "ready", "started"}
         /\ s.running \in BOOLEAN /\ s.stopping \in BOOLEAN /\ s.unsealed \in BOOLEAN
         /\ s.syncState \in BOOLEAN /\ s.timeout \in BOOLEAN
         /\ s.cycle \in 0 .. MaxChangeCycle /\ s.view \in View /\ s.toView \in View
         /\ s.committed \in 0 .. MaxIndex /\ s.expected \in 1 .. MaxIndex + 1
         /\ s.syncing \in 0 .. MaxIndex /\ s.connected \in SUBSET Node
         /\ s.verifying \in SUBSET Index /\ s.caches \in [Index -> CacheState]
         /\ s.queue \in SUBSET Index /\ s.executing \in SUBSET Index /\ s.runs \in SUBSET Index
  BY DEF State

\* Block numbers and views are numbers.
LEMMA Bounds ==
  /\ MaxIndex \in Nat /\ MaxView \in Nat /\ MaxChangeCycle \in Nat
  /\ \A i : i \in Index <=> i \in Int /\ 1 <= i /\ i <= MaxIndex
  /\ \A v : v \in View <=> v \in Int /\ 0 <= v /\ v <= MaxView
  BY TimeoutAssumption DEF Index, View

-----------------------------------------------------------------------------
(* The views that a node without its leader skips *)

\* Division with remainder has one remainder.
LEMMA Remainder ==
  ASSUME NEW N \in Nat \ {0}, NEW q \in Nat, NEW m \in 0 .. N - 1
  PROVE  (N * q + m) % N = m
  OBVIOUS

\* Among NumNodes views in a row there is one that any given node leads.
LEMMA EveryoneLeads ==
  ASSUME NEW x \in Nat, NEW n \in Node
  PROVE  \E k \in 1 .. NumNodes : (x + k) % NumNodes = n
<1> DEFINE q == x \div NumNodes
           r == x % NumNodes
<1>0. NumNodes \in Nat \ {0} /\ n \in 0 .. NumNodes - 1
  BY NodeAssumption DEF Node
<1>1. q \in Nat /\ r \in 0 .. NumNodes - 1 /\ x = NumNodes * q + r
  BY <1>0
<1> HIDE DEF q, r
<1>2. CASE n > r
  <2>1. n - r \in 1 .. NumNodes /\ x + (n - r) = NumNodes * q + n
    BY <1>0, <1>1, <1>2
  <2>2. (x + (n - r)) % NumNodes = n
    BY <1>0, <1>1, <2>1, Remainder
  <2> QED BY <2>1, <2>2
<1>3. CASE ~(n > r)
  <2>1. n - r + NumNodes \in 1 .. NumNodes
    BY <1>0, <1>1, <1>3
  <2>2. x + (n - r + NumNodes) = NumNodes * (q + 1) + n /\ q + 1 \in Nat
    BY <1>0, <1>1
  <2>3. (x + (n - r + NumNodes)) % NumNodes = n
    BY <1>0, <2>2, Remainder
  <2> QED BY <2>1, <2>3
<1> QED BY <1>2, <1>3

\* tryTriggerFastViewChange ends: a view that this node leads is near.
LEMMA FastViewsType ==
  ASSUME NEW s \in State
  PROVE  FastViews(s) \in Nat
<1> DEFINE S == {k \in 1 .. NumNodes : ~LeaderGone(s, LeaderIndex(s.committed + 1, s.toView + k))}
           h == (s.committed + 1) \div LeaderSwitchPeriod
<1>1. s.committed + 1 \in Nat /\ s.toView \in Nat /\ NumNodes \in Nat
  BY Registers, Bounds, NodeAssumption
<1>2. h \in Nat
  BY <1>1, PeriodAssumption
<1>3. PICK k \in 1 .. NumNodes : ((h + s.toView) + k) % NumNodes = Me
  <2> HIDE DEF h
  <2>1. h + s.toView \in Nat /\ Me \in Node
    BY <1>1, <1>2, TimeoutAssumption
  <2> QED BY <2>1, EveryoneLeads
<1>4. (h + s.toView) + k = h + (s.toView + k)
  BY <1>1, <1>2
<1>5. LeaderIndex(s.committed + 1, s.toView + k) = Me
  BY <1>3, <1>4 DEF LeaderIndex
<1>6. k \in S
  BY <1>5 DEF LeaderGone
<1>7. S \in SUBSET Nat /\ S # {}
  BY <1>1, <1>6
<1>8. FastViews(s) = 0 \/ FastViews(s) = Min(S)
  BY DEF FastViews
<1> HIDE DEF S
<1>9. \E x \in S : \A y \in S : x <= y
  BY <1>7, NatLowest
<1>10. Min(S) \in S
  BY <1>9 DEF Min
<1>11. Min(S) \in Nat
  BY <1>7, <1>10, Zenon
<1> QED BY <1>8, <1>11

-----------------------------------------------------------------------------
(* The operators: what each one does to the timer *)

\* the registers that the parts of a handler below do not write
SameStage(s, t) ==
  /\ t.phase = s.phase /\ t.cycle = s.cycle /\ t.unsealed = s.unsealed
  /\ t.view = s.view /\ t.committed = s.committed /\ t.caches = s.caches

\* Restart starts the timer.
LEMMA Restarted ==
  ASSUME NEW s \in State
  PROVE  LET t == Restart(s) IN
         /\ t \in State /\ SameStage(s, t) /\ t.running
         /\ t.stopping = s.stopping /\ t.toView = s.toView /\ t.expected = s.expected
         /\ t.executing = s.executing
  BY DEF Restart, State, SameStage

\* incChangeCycle lengthens the waiting time up to its limit.
LEMMA CycleGrown ==
  ASSUME NEW s \in State
  PROVE  LET t == incChangeCycle(s) IN
         /\ t \in State /\ t.cycle = Smaller(s.cycle + 1, MaxChangeCycle)
         /\ t.phase = s.phase /\ t.unsealed = s.unsealed /\ t.view = s.view
         /\ t.committed = s.committed /\ t.caches = s.caches /\ t.toView = s.toView
         /\ t.stopping = s.stopping
<1>1. Smaller(s.cycle + 1, MaxChangeCycle) \in 0 .. MaxChangeCycle
  BY Registers, Bounds DEF Smaller
<1> QED BY <1>1 DEF incChangeCycle, State

\* freshTimer restarts the timer when there are transactions.
LEMMA Freshened ==
  ASSUME NEW s \in State
  PROVE  LET t == freshTimer(s) IN
         /\ t \in State /\ SameStage(s, t) /\ t.toView = s.toView
         /\ s.unsealed => t.running /\ t.stopping = s.stopping
         /\ ~s.unsealed => t.stopping
         /\ t.running = s.running \/ t.running
<1>1. CASE s.unsealed
  BY <1>1, Restarted DEF freshTimer, SameStage
<1>2. CASE ~s.unsealed
  <2> DEFINE t == [s EXCEPT !.stopping = TRUE]
  <2>1. freshTimer(s) = t
    BY <1>2 DEF freshTimer
  <2>2. t \in State /\ SameStage(s, t) /\ t.toView = s.toView /\ t.stopping /\ t.running = s.running
    BY DEF State, SameStage
  <2> QED BY <1>2, <2>1, <2>2
<1> QED BY <1>1, <1>2

\* tryTriggerFastViewChange times out with a running timer, or does nothing.
LEMMA FastTriggered ==
  ASSUME NEW s \in State
  PROVE  LET t == tryTriggerFastViewChange(s) IN
         /\ t \in State /\ SameStage(s, t) /\ t.toView >= s.toView
         /\ t = s \/ (t.running /\ ~t.stopping)
<1>1. CASE FastViews(s) = 0 \/ s.toView + FastViews(s) > MaxView
  <2>1. tryTriggerFastViewChange(s) = s
    BY <1>1 DEF tryTriggerFastViewChange
  <2> QED BY <2>1, Registers, Bounds DEF SameStage
<1>2. CASE ~(FastViews(s) = 0 \/ s.toView + FastViews(s) > MaxView)
  <2> DEFINE w == s.toView + FastViews(s)
             a == [s EXCEPT !.timeout = TRUE, !.stopping = FALSE, !.toView = w]
  <2>1. w \in View /\ w >= s.toView
    BY <1>2, FastViewsType, Registers, Bounds
  <2>2. tryTriggerFastViewChange(s) = Restart(a)
    BY <1>2 DEF tryTriggerFastViewChange
  <2> HIDE DEF w
  <2>3. a \in State /\ SameStage(s, a) /\ a.toView = w /\ ~a.stopping
    BY <2>1 DEF State, SameStage
  <2> HIDE DEF a
  <2>4. LET t == Restart(a) IN
        t \in State /\ SameStage(a, t) /\ t.running /\ t.stopping = a.stopping /\ t.toView = a.toView
    BY <2>3, Restarted
  <2> QED BY <2>1, <2>2, <2>3, <2>4 DEF SameStage
<1> QED BY <1>1, <1>2

\* a proposal of this view is timed
Timed(s) ==
  \A i \in Index : s.caches[i] = "proposed" /\ i > s.committed => s.running /\ ~s.stopping

\* PBFTCacheProcessor::resetTimer lets the timer run when it has to.
LEMMA TimerReset ==
  ASSUME NEW s \in State, ~s.stopping
  PROVE  LET t == resetTimer(s) IN
         /\ t \in State /\ SameStage(s, t) /\ t.toView >= s.toView
         /\ Timed(t) /\ (t.unsealed => t.running /\ ~t.stopping)
<1>1. CASE InConsensus(s) # {}
  <2>1. resetTimer(s) = Restart(s)
    BY <1>1 DEF resetTimer
  <2>2. LET t == Restart(s) IN
        t \in State /\ SameStage(s, t) /\ t.running /\ t.stopping = s.stopping /\ t.toView = s.toView
    BY Restarted
  <2>3. s.toView >= s.toView
    BY Registers, Bounds
  <2> QED BY <2>1, <2>2, <2>3 DEF Timed
<1>2. CASE InConsensus(s) = {}
  <2> DEFINE a == freshTimer(s)
             t == tryTriggerFastViewChange(a)
  <2>1. resetTimer(s) = t
    BY <1>2 DEF resetTimer
  <2>2. /\ a \in State /\ SameStage(s, a) /\ a.toView = s.toView
        /\ s.unsealed => a.running /\ a.stopping = s.stopping
    BY Freshened
  <2> HIDE DEF a
  <2>3. /\ t \in State /\ SameStage(a, t) /\ t.toView >= a.toView
        /\ t = a \/ (t.running /\ ~t.stopping)
    BY <2>2, FastTriggered
  <2> HIDE DEF t
  <2>4. SameStage(s, t) /\ t.toView >= s.toView
    BY <2>2, <2>3 DEF SameStage
  <2>5. \A i \in Index : i > s.committed => s.caches[i] # "proposed"
    BY <1>2 DEF InConsensus
  <2>6. Timed(t)
    BY <2>4, <2>5 DEF Timed, SameStage
  <2>7. t.unsealed => t.running /\ ~t.stopping
    BY <2>2, <2>3 DEF SameStage
  <2> QED BY <2>1, <2>3, <2>4, <2>6, <2>7
<1> QED BY <1>1, <1>2

\* tryToApplyCommitQueue may start the timer and does not stop it.
LEMMA Applies ==
  ASSUME NEW s \in State
  PROVE  LET t == tryToApplyCommitQueue(s) IN
         /\ t \in State /\ SameStage(s, t) /\ t.stopping = s.stopping
         /\ t.toView = s.toView /\ t.expected = s.expected
         /\ s.running => t.running
<1> DEFINE q == {i \in s.queue : i >= s.expected}
           a == [s EXCEPT !.queue = q]
<1>1. q \in SUBSET Index
  BY Registers
<1> HIDE DEF q
<1>2. /\ a \in State /\ SameStage(s, a) /\ a.stopping = s.stopping /\ a.toView = s.toView
      /\ a.expected = s.expected /\ a.running = s.running
  BY <1>1 DEF State, SameStage
<1>3. CASE CanApply(s)
  <2> DEFINE b == [a EXCEPT !.queue = @ \ {s.expected}, !.executing = @ \cup {s.expected},
                            !.runs = @ \cup {s.expected}]
  <2>1. tryToApplyCommitQueue(s) = b
    BY <1>3 DEF tryToApplyCommitQueue, a, q
  <2>2. s.expected \in Index
    BY <1>3, Registers DEF CanApply
  <2> HIDE DEF a
  <2>3. /\ a.queue \ {s.expected} \in SUBSET Index /\ a.executing \cup {s.expected} \in SUBSET Index
        /\ a.runs \cup {s.expected} \in SUBSET Index
    BY <1>2, <2>2, Registers
  <2>4. /\ b \in State /\ SameStage(a, b) /\ b.stopping = a.stopping /\ b.toView = a.toView
        /\ b.expected = a.expected /\ b.running = a.running
    BY <1>2, <2>3 DEF State, SameStage
  <2> QED BY <1>2, <2>1, <2>4 DEF SameStage
<1>4. CASE ~CanApply(s)
  <2>1. tryToApplyCommitQueue(s) \in {a, Restart(a)}
    BY <1>4 DEF tryToApplyCommitQueue, a, q
  <2> HIDE DEF a
  <2>2. LET t == Restart(a) IN
        /\ t \in State /\ SameStage(a, t) /\ t.running
        /\ t.stopping = a.stopping /\ t.toView = a.toView /\ t.expected = a.expected
    BY <1>2, Restarted
  <2> QED BY <1>2, <2>1, <2>2 DEF SameStage
<1> QED BY <1>3, <1>4

\* resetConfig moves the ledger on; the timer runs if there are transactions.
LEMMA ConfigReset ==
  ASSUME NEW s \in State, NEW k \in 0 .. MaxIndex
  PROVE  LET t == resetConfig(s, k) IN
         /\ t \in State /\ t.committed = k /\ t.phase = s.phase /\ t.cycle = s.cycle
         /\ t.unsealed = s.unsealed /\ t.view = s.view /\ t.toView = s.toView
         /\ t.stopping = s.stopping /\ t.caches = s.caches
         /\ s.unsealed => t.running
<1> DEFINE e == Larger(s.expected, k + 1)
           a == [s EXCEPT !.committed = k, !.expected = e, !.timeout = FALSE, !.running = s.unsealed]
           b == IF s.syncState THEN Restart(a) ELSE a
           c == [a EXCEPT !.timeout = TRUE, !.syncState = TRUE]
           d == [b EXCEPT !.syncState = FALSE]
<1>1. e \in 1 .. MaxIndex + 1 /\ s.unsealed \in BOOLEAN
  BY Registers, Bounds DEF Larger
<1>2. resetConfig(s, k) \in {c, d}
  BY DEF resetConfig
<1> HIDE DEF e
<1>3. /\ a \in State /\ a.committed = k /\ a.phase = s.phase /\ a.cycle = s.cycle
      /\ a.unsealed = s.unsealed /\ a.view = s.view /\ a.toView = s.toView
      /\ a.stopping = s.stopping /\ a.caches = s.caches /\ a.running = s.unsealed
  BY <1>1 DEF State
<1> HIDE DEF a
<1>4. /\ b \in State /\ SameStage(a, b) /\ b.toView = a.toView /\ b.stopping = a.stopping
      /\ a.running => b.running
  BY <1>3, Restarted DEF SameStage
<1> HIDE DEF b
<1>5. /\ c \in State /\ SameStage(a, c) /\ c.toView = a.toView /\ c.stopping = a.stopping
      /\ c.running = a.running
  BY <1>3 DEF State, SameStage
<1>6. /\ d \in State /\ SameStage(b, d) /\ d.toView = b.toView /\ d.stopping = b.stopping
      /\ d.running = b.running
  BY <1>4 DEF State, SameStage
<1> HIDE DEF c, d
<1> QED BY <1>2, <1>3, <1>4, <1>5, <1>6 DEF SameStage

\* what a new last block does to the timer
Finalised(s, t, k) ==
  /\ t \in State /\ t.committed = k /\ t.phase = s.phase /\ t.cycle = s.cycle
  /\ t.unsealed = s.unsealed /\ t.view = s.view /\ t.toView >= s.toView
  /\ Timed(t) /\ (t.unsealed => t.running /\ ~t.stopping)

\* removeFutureProposals drops caches and leaves the timer alone.
LEMMA FutureRemoved ==
  ASSUME NEW s \in State, NEW S, Timed(s)
  PROVE  LET t == removeFutureProposals(s, S) IN
         /\ t \in State /\ Timed(t) /\ t.committed = s.committed /\ t.phase = s.phase
         /\ t.cycle = s.cycle /\ t.unsealed = s.unsealed /\ t.view = s.view
         /\ t.toView = s.toView /\ t.running = s.running /\ t.stopping = s.stopping
<1> DEFINE c == [i \in Index |-> IF i <= s.committed \/ i \in S THEN "none" ELSE s.caches[i]]
           t == [s EXCEPT !.expected = s.committed + 1, !.queue = {}, !.caches = c]
<1>1. c \in [Index -> CacheState] /\ \A i \in Index : c[i] = "proposed" => s.caches[i] = "proposed"
  BY Registers DEF CacheState
<1>2. s.committed + 1 \in 1 .. MaxIndex + 1
  BY Registers, Bounds
<1>3. removeFutureProposals(s, S) = t
  BY DEF removeFutureProposals
<1> HIDE DEF c
<1>4. /\ t \in State /\ t.caches = c /\ t.committed = s.committed /\ t.phase = s.phase
      /\ t.cycle = s.cycle /\ t.unsealed = s.unsealed /\ t.view = s.view
      /\ t.toView = s.toView /\ t.running = s.running /\ t.stopping = s.stopping
  BY <1>1, <1>2 DEF State
<1> HIDE DEF t
<1>5. Timed(t)
  BY <1>1, <1>4 DEF Timed
<1> QED BY <1>3, <1>4, <1>5

\* finalizeConsensus leaves a timer that runs when it has to.
LEMMA ConsensusFinalised ==
  ASSUME NEW s \in State, ~s.stopping, NEW k \in Index, NEW synced \in BOOLEAN
  PROVE  Finalised(s, finalizeConsensus(s, k, synced), k)
<1> DEFINE s0 == resetConfig(s, k)
           s1 == tryToApplyCommitQueue(s0)
           c  == [i \in Index |-> IF i <= k THEN "none" ELSE s1.caches[i]]
           s2 == [s1 EXCEPT !.caches = c]
           s3 == resetTimer(s2)
           S  == k + 1 .. s2.expected - 1
           s4 == removeFutureProposals(s3, S)
<1>1. finalizeConsensus(s, k, synced) = IF synced THEN s4 ELSE s3
  BY DEF finalizeConsensus
<1>2. k \in 0 .. MaxIndex
  BY Bounds
<1>3. /\ s0 \in State /\ s0.committed = k /\ s0.phase = s.phase /\ s0.cycle = s.cycle
      /\ s0.unsealed = s.unsealed /\ s0.view = s.view /\ s0.toView = s.toView
      /\ s0.stopping = s.stopping
  BY <1>2, ConfigReset
<1> HIDE DEF s0
<1>4. s1 \in State /\ SameStage(s0, s1) /\ s1.stopping = s0.stopping /\ s1.toView = s0.toView
  BY <1>3, Applies
<1> HIDE DEF s1
<1>5. c \in [Index -> CacheState]
  BY <1>4, Registers DEF CacheState
<1> HIDE DEF c
<1>6. /\ s2 \in State /\ s2.phase = s1.phase /\ s2.cycle = s1.cycle /\ s2.unsealed = s1.unsealed
      /\ s2.view = s1.view /\ s2.committed = s1.committed /\ s2.toView = s1.toView
      /\ s2.stopping = s1.stopping
  BY <1>4, <1>5 DEF State
<1> HIDE DEF s2
<1>7. /\ s3 \in State /\ SameStage(s2, s3) /\ s3.toView >= s2.toView
      /\ Timed(s3) /\ (s3.unsealed => s3.running /\ ~s3.stopping)
  BY <1>3, <1>4, <1>6, TimerReset DEF SameStage
<1> HIDE DEF s3
<1>8. Finalised(s, s3, k)
  BY <1>3, <1>4, <1>6, <1>7 DEF Finalised, SameStage
<1>9. /\ s4 \in State /\ Timed(s4) /\ s4.committed = s3.committed /\ s4.phase = s3.phase
      /\ s4.cycle = s3.cycle /\ s4.unsealed = s3.unsealed /\ s4.view = s3.view
      /\ s4.toView = s3.toView /\ s4.running = s3.running /\ s4.stopping = s3.stopping
  BY <1>7, FutureRemoved
<1> HIDE DEF s4
<1>10. Finalised(s, s4, k)
  BY <1>8, <1>9 DEF Finalised
<1> QED BY <1>1, <1>8, <1>10

\* what the beginning of view v does to the timer
Entered(s, t, v) ==
  /\ t \in State /\ t.view = v /\ t.toView = v /\ t.cycle = 0
  /\ t.phase = s.phase /\ t.unsealed = s.unsealed /\ t.committed = s.committed
  /\ \A i \in Index : t.caches[i] # "proposed"
  /\ t.unsealed => t.running /\ t.stopping = s.stopping

\* EnterView carries no proposal over as one of the new view.
LEMMA ViewEntered ==
  ASSUME NEW s \in State, NEW v \in View, v > s.view, NEW S \in SUBSET Index
  PROVE  Entered(s, EnterView(s, v, S), v)
<1> DEFINE a == [s EXCEPT !.cycle = 0, !.view = v, !.toView = v, !.timeout = FALSE]
           b == freshTimer(a)
           c == [i \in Index |-> IF s.caches[i] \in {"none", "votes"} THEN s.caches[i] ELSE "carried"]
           w == S \ s.executing
           t == [b EXCEPT !.verifying = w, !.caches = c]
<1>0. v \in Int /\ s.view \in Int
  BY Registers, Bounds
<1>1. EnterView(s, v, S) = t
  <2>1. ~(s.view > v)
    BY <1>0
  <2>2. resetNewViewState(s, v) = b
    BY <2>1 DEF resetNewViewState
  <2> HIDE DEF b
  <2> QED BY <2>2 DEF EnterView
<1>2. c \in [Index -> CacheState] /\ \A i \in Index : c[i] # "proposed"
  BY Registers DEF CacheState
<1>3. w \in SUBSET Index
  OBVIOUS
<1>4. /\ a \in State /\ a.cycle = 0 /\ a.view = v /\ a.toView = v /\ a.phase = s.phase
      /\ a.unsealed = s.unsealed /\ a.committed = s.committed /\ a.stopping = s.stopping
  <2>1. 0 \in 0 .. MaxChangeCycle
    BY Bounds
  <2> QED BY <2>1 DEF State
<1> HIDE DEF a, c, w
<1>5. /\ b \in State /\ SameStage(a, b) /\ b.toView = a.toView
      /\ a.unsealed => b.running /\ b.stopping = a.stopping
  BY <1>4, Freshened
<1> HIDE DEF b
<1>6. /\ t \in State /\ t.caches = c /\ t.cycle = b.cycle /\ t.view = b.view /\ t.toView = b.toView
      /\ t.phase = b.phase /\ t.unsealed = b.unsealed /\ t.committed = b.committed
      /\ t.running = b.running /\ t.stopping = b.stopping
  BY <1>2, <1>3, <1>5 DEF State
<1> HIDE DEF t
<1> QED BY <1>1, <1>2, <1>4, <1>5, <1>6 DEF Entered, SameStage

\* resetTimeoutState lengthens the waiting time and restarts the timer.
LEMMA TimedOut ==
  ASSUME NEW s \in State, s.toView < MaxView
  PROVE  LET t == resetTimeoutState(s, TRUE) IN
         /\ t \in State /\ t.running /\ t.cycle = Smaller(s.cycle + 1, MaxChangeCycle)
         /\ t.toView = s.toView + 1 /\ t.view = s.view /\ t.phase = s.phase
         /\ t.unsealed = s.unsealed /\ t.committed = s.committed /\ t.caches = s.caches
         /\ t.stopping = s.stopping
<1> DEFINE a == incChangeCycle(s)
           b == [a EXCEPT !.timeout = TRUE, !.toView = @ + 1]
           t == Restart(b)
<1>1. /\ a \in State /\ a.cycle = Smaller(s.cycle + 1, MaxChangeCycle)
      /\ a.phase = s.phase /\ a.unsealed = s.unsealed /\ a.view = s.view
      /\ a.committed = s.committed /\ a.caches = s.caches /\ a.toView = s.toView
      /\ a.stopping = s.stopping
  BY CycleGrown
<1>2. resetTimeoutState(s, TRUE) = t
  BY DEF resetTimeoutState
<1> HIDE DEF a
<1>3. a.toView + 1 \in View
  BY <1>1, Registers, Bounds
<1>4. /\ b \in State /\ b.toView = a.toView + 1 /\ SameStage(a, b) /\ b.stopping = a.stopping
  BY <1>1, <1>3 DEF State, SameStage
<1> HIDE DEF b
<1>5. t \in State /\ SameStage(b, t) /\ t.running /\ t.stopping = b.stopping /\ t.toView = b.toView
  BY <1>4, Restarted
<1> HIDE DEF t
<1> QED BY <1>1, <1>2, <1>4, <1>5 DEF SameStage

-----------------------------------------------------------------------------
(* The inductive invariant *)

\* What ties the timer to the rest of the state: r says that transactions arrived
\* while freshTimer was at work, w counts the timers that expired in vain.
StateInv(s, r, w) ==
  /\ Timed(s)
  /\ s.phase # "started" => ~s.stopping
  /\ s.stopping /\ s.unsealed => r
  /\ s.unsealed /\ s.phase = "started" /\ ~r => s.running
  /\ s.cycle >= Smaller(w, MaxChangeCycle)
  /\ s.toView >= s.view

TimerInv == StateInv(node, raced, waited)

\* The invariant's parts are the properties.
LEMMA TimerInvIs ==
  /\ TimerInv => ProposalIsTimed /\ TransactionsAreTimedUnlessRaced /\ BacksOffUntilNewView
  BY DEF TimerInv, StateInv, Timed, ProposalIsTimed, TransactionsAreTimedUnlessRaced,
         BacksOffUntilNewView

\* a step that does not stop the timer, and starts it for every new proposal
Runs(s, t) ==
  /\ t.phase = s.phase /\ t.unsealed = s.unsealed /\ t.stopping = s.stopping
  /\ t.cycle = s.cycle /\ t.view = s.view /\ t.toView = s.toView
  /\ s.running => t.running
  /\ t.committed = s.committed
  /\ \A i \in Index : t.caches[i] = "proposed"
                      => s.caches[i] = "proposed" \/ (t.running /\ ~t.stopping)

\* Such a step keeps the invariant.
LEMMA RunsKeeps ==
  ASSUME NEW s \in State, NEW t \in State, NEW r \in BOOLEAN, NEW w,
         Runs(s, t), StateInv(s, r, w)
  PROVE  StateInv(t, r, w)
<1>1. Timed(t)
  BY DEF Runs, StateInv, Timed
<1> QED BY <1>1 DEF Runs, StateInv

\* The next state from its parts.
LEMMA StepDone ==
  ASSUME TypeOK, node' \in State, StateInv(node', raced', waited'), waited' \in View,
         faults' \in [Faults -> Nat], raced' \in BOOLEAN, late' \in BOOLEAN
  PROVE  TypeOK' /\ TimerInv'
  BY DEF TypeOK, TimerInv, StateInv

\* A fault is counted.
LEMMA FaultCounted ==
  ASSUME TypeOK, NEW k \in Faults, Fault(k)
  PROVE  faults' \in [Faults -> Nat]
<1>1. faults \in [Faults -> Nat] /\ faults' = [faults EXCEPT ![k] = @ + 1]
  BY DEF TypeOK, Fault
<1> QED BY <1>1

\* The steps that are a change of the state alone.
LEMMA Plain ==
  ASSUME TypeOK, TimerInv, NEW s \in State, Runs(node, s),
         Step(s) \/ \E k \in Faults : Event(k, s)
  PROVE  TypeOK' /\ TimerInv'
<1>1. node' = s /\ waited' = waited /\ raced' = raced /\ late' = late
  BY DEF Step, Event
<1>2. faults' \in [Faults -> Nat]
  BY FaultCounted DEF Step, Event, TypeOK
<1>3. StateInv(s, raced, waited)
  BY RunsKeeps DEF TypeOK, TimerInv
<1> QED BY <1>1, <1>2, <1>3, StepDone DEF TypeOK

\* Registers that the timer does not depend on.
LEMMA RegistersKeep ==
  ASSUME TypeOK, TimerInv,
         \/ \E S \in SUBSET Node : SetConnected(S)
         \/ \E i \in Index : ReceiveProposal(i) \/ ReceiveVote(i) \/ VerifyFails(i)
         \/ PopCommit
         \/ \E k \in Index : NotifySyncing(k)
         \/ TimerFires
  PROVE  TypeOK' /\ TimerInv'
<1>0. node \in State
  BY DEF TypeOK
<1>1. ASSUME NEW S \in SUBSET Node, SetConnected(S) PROVE TypeOK' /\ TimerInv'
  <2> DEFINE t == [node EXCEPT !.connected = S]
  <2>1. t \in State /\ Runs(node, t)
    BY <1>0 DEF State, Runs
  <2>2. Event("connect", t) /\ "connect" \in Faults
    BY <1>1 DEF SetConnected, Faults
  <2> HIDE DEF t
  <2> QED BY <2>1, <2>2, Plain
<1>2. ASSUME NEW i \in Index, ReceiveProposal(i) PROVE TypeOK' /\ TimerInv'
  <2> DEFINE t == [node EXCEPT !.verifying = @ \cup {i}]
  <2>0. node.verifying \cup {i} \in SUBSET Index
    BY <1>0, Registers
  <2>1. t \in State /\ Runs(node, t)
    BY <1>0, <2>0 DEF State, Runs
  <2>2. Step(t)
    BY <1>2 DEF ReceiveProposal
  <2> HIDE DEF t
  <2> QED BY <2>1, <2>2, Plain
<1>3. ASSUME NEW i \in Index, ReceiveVote(i) PROVE TypeOK' /\ TimerInv'
  <2> DEFINE c == [node.caches EXCEPT ![i] = "votes"]
             t == [node EXCEPT !.caches = c]
  <2>0. c \in [Index -> CacheState] /\ \A j \in Index : c[j] = "proposed" => node.caches[j] = "proposed"
    BY <1>0, Registers DEF CacheState
  <2>1. Step(t)
    BY <1>3 DEF ReceiveVote
  <2> HIDE DEF c
  <2>2. t \in State /\ t.caches = c
    BY <1>0, <2>0 DEF State
  <2>3. Runs(node, t)
    BY <1>0, <2>0, <2>2 DEF State, Runs
  <2> HIDE DEF t
  <2> QED BY <2>1, <2>2, <2>3, Plain
<1>4. ASSUME NEW i \in Index, VerifyFails(i) PROVE TypeOK' /\ TimerInv'
  <2> DEFINE t == [node EXCEPT !.verifying = @ \ {i}]
  <2>0. node.verifying \ {i} \in SUBSET Index
    BY <1>0, Registers
  <2>1. t \in State /\ Runs(node, t)
    BY <1>0, <2>0 DEF State, Runs
  <2>2. Event("verify", t) /\ "verify" \in Faults
    BY <1>4 DEF VerifyFails, Faults
  <2> HIDE DEF t
  <2> QED BY <2>1, <2>2, Plain
<1>5. CASE PopCommit
  <2> DEFINE t == [node EXCEPT !.popped = TRUE]
  <2>1. t \in State /\ Runs(node, t)
    BY <1>0 DEF State, Runs
  <2>2. Step(t)
    BY <1>5 DEF PopCommit
  <2> HIDE DEF t
  <2> QED BY <2>1, <2>2, Plain
<1>6. ASSUME NEW k \in Index, NotifySyncing(k) PROVE TypeOK' /\ TimerInv'
  <2> DEFINE t == [node EXCEPT !.syncing = k]
  <2>0. k \in 0 .. MaxIndex
    BY Bounds
  <2>1. t \in State /\ Runs(node, t)
    BY <1>0, <2>0 DEF State, Runs
  <2>2. Event("sync", t) /\ "sync" \in Faults
    BY <1>6 DEF NotifySyncing, Faults
  <2> HIDE DEF t
  <2> QED BY <2>1, <2>2, Plain
<1>7. CASE TimerFires
  <2> DEFINE t == [node EXCEPT !.fired = TRUE]
  <2>1. t \in State /\ Runs(node, t)
    BY <1>0 DEF State, Runs
  <2>2. Step(t)
    BY <1>7 DEF TimerFires
  <2> HIDE DEF t
  <2> QED BY <2>1, <2>2, Plain
<1> QED BY <1>1, <1>2, <1>3, <1>4, <1>5, <1>6, <1>7

\* addPrePrepare restarts the timer for the proposal that it puts into a cache.
LEMMA VerifyKeeps ==
  ASSUME TypeOK, TimerInv, NEW i \in Index, VerifySucceeds(i)
  PROVE  TypeOK' /\ TimerInv'
<1> DEFINE s == [node EXCEPT !.verifying = @ \ {i}]
           c == [s.caches EXCEPT ![i] = "proposed"]
           a == [s EXCEPT !.caches = c]
           t == Restart(a)
<1>0. node \in State /\ ~node.stopping
  BY DEF TypeOK, VerifySucceeds, Working, Free
<1>1. Step(s) \/ Step(t)
  BY DEF VerifySucceeds
<1>2. s \in State /\ Runs(node, s)
  <2>1. node.verifying \ {i} \in SUBSET Index
    BY <1>0, Registers
  <2> QED BY <1>0, <2>1 DEF State, Runs
<1> HIDE DEF s
<1>3. c \in [Index -> CacheState]
  BY <1>2, Registers DEF CacheState
<1> HIDE DEF c
<1>4. /\ a \in State /\ a.phase = s.phase /\ a.unsealed = s.unsealed /\ a.stopping = s.stopping
      /\ a.cycle = s.cycle /\ a.view = s.view /\ a.toView = s.toView /\ a.committed = s.committed
  BY <1>2, <1>3 DEF State
<1> HIDE DEF a
<1>5. t \in State /\ SameStage(a, t) /\ t.running /\ t.stopping = a.stopping /\ t.toView = a.toView
  BY <1>4, Restarted
<1> HIDE DEF t
<1>6. Runs(node, t)
  BY <1>0, <1>2, <1>4, <1>5 DEF Runs, SameStage
<1> QED BY <1>1, <1>2, <1>5, <1>6, Plain

\* tryToApplyCommitQueue within a handler.
LEMMA AppliesRuns ==
  ASSUME NEW s \in State
  PROVE  tryToApplyCommitQueue(s) \in State /\ Runs(s, tryToApplyCommitQueue(s))
  BY Applies DEF Runs, SameStage

\* Steps like these one after the other.
LEMMA RunsOn ==
  ASSUME NEW s, NEW t, NEW u, Runs(s, t), Runs(t, u)
  PROVE  Runs(s, u)
  BY DEF Runs

\* Results of executions.
LEMMA ExecutionKeeps ==
  ASSUME TypeOK, TimerInv, NEW i \in Index, ExecuteSucceeds(i) \/ ExecuteFails(i)
  PROVE  TypeOK' /\ TimerInv'
<1> DEFINE s == [node EXCEPT !.runs = @ \ {i}]
<1>0. node \in State /\ i + 1 \in 1 .. MaxIndex + 1 /\ node.committed + 1 \in 1 .. MaxIndex + 1
  BY Registers, Bounds DEF TypeOK
<1>1. s \in State /\ Runs(node, s)
  <2>1. node.runs \ {i} \in SUBSET Index
    BY <1>0, Registers
  <2> QED BY <1>0, <2>1 DEF State, Runs
<1>2. CASE ExecuteSucceeds(i)
  <2> DEFINE a == [s EXCEPT !.expected = i + 1]
             b == tryToApplyCommitQueue(a)
             t == [b EXCEPT !.executing = @ \ {i}]
  <2>1. Step(s) \/ Step(t)
    BY <1>2 DEF ExecuteSucceeds
  <2> HIDE DEF s
  <2>2. a \in State /\ Runs(s, a)
    BY <1>0, <1>1 DEF State, Runs
  <2> HIDE DEF a
  <2>3. b \in State /\ Runs(a, b)
    BY <2>2, AppliesRuns
  <2> HIDE DEF b
  <2>4. t \in State /\ Runs(b, t)
    <3>1. b.executing \ {i} \in SUBSET Index
      BY <2>3, Registers
    <3> QED BY <2>3, <3>1 DEF State, Runs
  <2> HIDE DEF t
  <2>5. Runs(node, t)
    BY <1>1, <2>2, <2>3, <2>4, RunsOn
  <2> QED BY <1>1, <2>1, <2>4, <2>5, Plain
<1>3. CASE ExecuteFails(i)
  <2> DEFINE a == [s EXCEPT !.executing = @ \ {i}, !.queue = @ \cup {i}]
             d == Restart(a)
             b == tryToApplyCommitQueue(d)
             t == [b EXCEPT !.expected = node.committed + 1, !.executing = @ \ {i}]
  <2>1. "execute" \in Faults /\ (Event("execute", s) \/ Event("execute", t))
    BY <1>3 DEF ExecuteFails, Faults
  <2> HIDE DEF s
  <2>2. a \in State /\ Runs(s, a)
    <3>1. s.executing \ {i} \in SUBSET Index /\ s.queue \cup {i} \in SUBSET Index
      BY <1>1, Registers
    <3> QED BY <1>1, <3>1 DEF State, Runs
  <2> HIDE DEF a
  <2>3. d \in State /\ Runs(a, d)
    BY <2>2, Restarted DEF Runs, SameStage
  <2> HIDE DEF d
  <2>4. b \in State /\ Runs(d, b)
    BY <2>3, AppliesRuns
  <2> HIDE DEF b
  <2>5. t \in State /\ Runs(b, t)
    <3>1. b.executing \ {i} \in SUBSET Index
      BY <2>4, Registers
    <3> QED BY <1>0, <2>4, <3>1 DEF State, Runs
  <2> HIDE DEF t
  <2>6. Runs(node, t)
    BY <1>1, <2>2, <2>3, <2>4, <2>5, RunsOn
  <2> QED BY <1>1, <2>1, <2>5, <2>6, Plain
<1> QED BY <1>2, <1>3

\* A count of zero asks for no back-off.
LEMMA NothingWaited ==
  ASSUME NEW s \in State, NEW r, NEW w, StateInv(s, r, w)
  PROVE  StateInv(s, r, 0)
<1>1. s.cycle >= Smaller(0, MaxChangeCycle)
  BY Registers, Bounds DEF Smaller
<1> QED BY <1>1 DEF StateInv

\* checkAndCommit puts the ordered proposal into the queue.
LEMMA OrderedRuns ==
  ASSUME node \in State, NEW i \in Index
  PROVE  Ordered(i) \in State /\ Runs(node, Ordered(i))
<1> DEFINE c == [node.caches EXCEPT ![i] = "submitted"]
           a == [node EXCEPT !.caches = c, !.queue = @ \cup {i}]
<1>1. c \in [Index -> CacheState] /\ \A j \in Index : c[j] = "proposed" => node.caches[j] = "proposed"
  BY Registers DEF CacheState
<1>2. Ordered(i) = tryToApplyCommitQueue(a)
  BY DEF Ordered
<1>3. node.queue \cup {i} \in SUBSET Index
  BY Registers
<1> HIDE DEF c
<1>4. a \in State /\ a.caches = c
  BY <1>1, <1>3 DEF State
<1>5. Runs(node, a)
  BY <1>1, <1>4 DEF State, Runs
<1> HIDE DEF a
<1> QED BY <1>2, <1>4, <1>5, AppliesRuns, RunsOn

\* A number is ordered by a prepare message.
LEMMA PrepareKeeps ==
  ASSUME TypeOK, TimerInv, NEW i \in Index, OrderByPrepare(i)
  PROVE  TypeOK' /\ TimerInv'
<1>1. /\ node' = Ordered(i) /\ waited' = 0 /\ faults' = faults /\ raced' = raced /\ late' = late
  BY DEF OrderByPrepare
<1>2. node' \in State /\ Runs(node, node')
  BY <1>1, OrderedRuns DEF TypeOK
<1>3. StateInv(node', raced, waited)
  BY <1>2, RunsKeeps DEF TypeOK, TimerInv
<1>4. StateInv(node', raced, 0)
  BY <1>2, <1>3, NothingWaited
<1>5. waited' \in View
  BY <1>1, Bounds
<1> QED BY <1>1, <1>2, <1>4, <1>5, StepDone DEF TypeOK

\* resetTimer as the end of a handler.
LEMMA ResetKeeps ==
  ASSUME NEW s \in State, ~s.stopping, s.phase = "started", NEW r, NEW w,
         s.cycle >= Smaller(w, MaxChangeCycle), s.toView >= s.view
  PROVE  resetTimer(s) \in State /\ StateInv(resetTimer(s), r, w)
<1> DEFINE t == resetTimer(s)
<1>1. /\ t \in State /\ SameStage(s, t) /\ t.toView >= s.toView
      /\ Timed(t) /\ (t.unsealed => t.running /\ ~t.stopping)
  BY TimerReset
<1> HIDE DEF t
<1>2. t.toView >= t.view
  <2>1. t.toView \in Int /\ s.toView \in Int /\ s.view \in Int /\ t.view = s.view
    BY <1>1, Registers, Bounds DEF SameStage
  <2> QED BY <1>1, <2>1
<1>3. StateInv(t, r, w)
  BY <1>1, <1>2 DEF StateInv, SameStage
<1> QED BY <1>1, <1>3 DEF t

\* A commit message is handled and orders nothing.
LEMMA CommitMessageKeeps ==
  ASSUME TypeOK, TimerInv, HandleCommit
  PROVE  TypeOK' /\ TimerInv'
<1> DEFINE s == [node EXCEPT !.popped = FALSE]
<1>0. node \in State /\ ~node.stopping /\ node.phase = "started" /\ node.timeout \in BOOLEAN
  BY Registers DEF TypeOK, HandleCommit, Working, Free
<1>1. /\ node' = resetTimer(s) /\ late' = node.timeout
      /\ faults' = faults /\ waited' = waited /\ raced' = raced
  BY DEF HandleCommit
<1>2. /\ s \in State /\ ~s.stopping /\ s.phase = "started" /\ s.cycle = node.cycle
      /\ s.toView = node.toView /\ s.view = node.view
  BY <1>0 DEF State
<1> HIDE DEF s
<1>3. s.cycle >= Smaller(waited, MaxChangeCycle) /\ s.toView >= s.view
  BY <1>2 DEF TimerInv, StateInv
<1>4. node' \in State /\ StateInv(node', raced, waited)
  BY <1>1, <1>2, <1>3, ResetKeeps
<1> QED BY <1>0, <1>1, <1>4, StepDone DEF TypeOK

\* A number is ordered by a commit message.
LEMMA OrderKeeps ==
  ASSUME TypeOK, TimerInv, NEW i \in Index, OrderByCommit(i)
  PROVE  TypeOK' /\ TimerInv'
<1> DEFINE o == Ordered(i)
           a == [o EXCEPT !.popped = FALSE]
           b == Restart(a)
           c == [b EXCEPT !.toView = b.view, !.cycle = 0]
<1>0. node \in State /\ ~node.stopping /\ node.phase = "started" /\ node.timeout \in BOOLEAN
  BY Registers DEF TypeOK, OrderByCommit, Working, Free
<1>1. /\ node' = resetTimer(c) /\ waited' = 0 /\ late' = node.timeout
      /\ faults' = faults /\ raced' = raced
  BY DEF OrderByCommit, resetToView
<1>2. o \in State /\ Runs(node, o)
  BY <1>0, OrderedRuns
<1> HIDE DEF o
<1>3. a \in State /\ a.stopping = o.stopping /\ a.phase = o.phase
  BY <1>2 DEF State
<1> HIDE DEF a
<1>4. b \in State /\ b.stopping = a.stopping /\ b.phase = a.phase
  BY <1>3, Restarted DEF SameStage
<1> HIDE DEF b
<1>5. /\ c \in State /\ c.stopping = b.stopping /\ c.phase = b.phase /\ c.cycle = 0
      /\ c.toView = b.view /\ c.view = b.view /\ b.view \in Int
  <2>1. 0 \in 0 .. MaxChangeCycle /\ b.view \in View /\ b.view \in Int
    BY <1>4, Registers, Bounds
  <2> QED BY <1>4, <2>1 DEF State
<1> HIDE DEF c
<1>6. c.cycle >= Smaller(0, MaxChangeCycle) /\ c.toView >= c.view
  BY <1>5, Bounds DEF Smaller
<1>7. ~c.stopping /\ c.phase = "started"
  BY <1>0, <1>2, <1>3, <1>4, <1>5 DEF Runs
<1>8. node' \in State /\ StateInv(node', raced, 0)
  BY <1>1, <1>5, <1>6, <1>7, ResetKeeps
<1>9. waited' \in View
  BY <1>1, Bounds
<1> QED BY <1>0, <1>1, <1>8, <1>9, StepDone DEF TypeOK

\* A new last block.
LEMMA FinalisedKeeps ==
  ASSUME TypeOK, TimerInv, Working, NEW k \in Index, NEW synced \in BOOLEAN,
         LET t == finalizeConsensus(node, k, synced) IN Step(t) \/ Event("sync", t)
  PROVE  TypeOK' /\ TimerInv'
<1> DEFINE t == finalizeConsensus(node, k, synced)
<1>0. node \in State /\ ~node.stopping /\ node.phase = "started"
  BY DEF TypeOK, Working, Free
<1>1. Finalised(node, t, k)
  BY <1>0, ConsensusFinalised
<1>2. node' = t /\ waited' = waited /\ raced' = raced /\ late' = late
  BY DEF Step, Event
<1>3. faults' \in [Faults -> Nat]
  <2>1. "sync" \in Faults
    BY DEF Faults
  <2> QED BY <2>1, FaultCounted DEF Step, Event, TypeOK
<1> HIDE DEF t
<1>4. t \in State /\ t.toView >= t.view
  <2>1. /\ t \in State /\ t.view = node.view /\ t.toView >= node.toView
        /\ node.toView >= node.view
    BY <1>1 DEF Finalised, TimerInv, StateInv
  <2>2. t.toView \in Int /\ node.toView \in Int /\ node.view \in Int
    BY <1>0, <2>1, Registers, Bounds
  <2> QED BY <2>1, <2>2
<1>5. StateInv(t, raced, waited)
  BY <1>0, <1>1, <1>4 DEF Finalised, TimerInv, StateInv
<1> QED BY <1>2, <1>3, <1>4, <1>5, StepDone DEF TypeOK

\* Blocks that the node writes or takes over.
LEMMA BlocksKeep ==
  ASSUME TypeOK, TimerInv, Commit \/ \E k \in Index : SyncBlock(k)
  PROVE  TypeOK' /\ TimerInv'
<1>1. CASE Commit
  <2> DEFINE k == node.committed + 1
             synced == FALSE
  <2>1. Working /\ Step(finalizeConsensus(node, k, synced))
    BY <1>1 DEF Commit
  <2>2. k \in Index
    <3>1. node.expected > node.committed + 1 /\ node \in State
      BY <1>1 DEF Commit, TypeOK
    <3> QED BY <3>1, Registers, Bounds
  <2>3. synced \in BOOLEAN
    OBVIOUS
  <2> HIDE DEF k, synced
  <2> QED BY <2>1, <2>2, <2>3, FinalisedKeeps
<1>2. ASSUME NEW k \in Index, SyncBlock(k) PROVE TypeOK' /\ TimerInv'
  <2> DEFINE synced == TRUE
  <2>1. Working /\ Event("sync", finalizeConsensus(node, k, synced)) /\ synced \in BOOLEAN
    BY <1>2 DEF SyncBlock
  <2> HIDE DEF synced
  <2> QED BY <2>1, FinalisedKeeps
<1> QED BY <1>1, <1>2

\* The waiting time grows with the timers that expire.
LEMMA CycleFollows ==
  ASSUME NEW c \in 0 .. MaxChangeCycle, NEW w \in View, c >= Smaller(w, MaxChangeCycle)
  PROVE  /\ Smaller(c + 1, MaxChangeCycle) >= Smaller(w, MaxChangeCycle)
         /\ Smaller(c + 1, MaxChangeCycle) >= Smaller(Smaller(w + 1, MaxView), MaxChangeCycle)
         /\ Smaller(w + 1, MaxView) \in View
  BY Bounds DEF Smaller

\* The invariant when the node has timed out.
LEMMA TimedOutInv ==
  ASSUME NEW s \in State, ~s.stopping, s.toView < MaxView, s.toView + 1 >= s.view,
         NEW r, NEW w, Smaller(s.cycle + 1, MaxChangeCycle) >= Smaller(w, MaxChangeCycle)
  PROVE  /\ resetTimeoutState(s, TRUE) \in State
         /\ StateInv(resetTimeoutState(s, TRUE), r, w)
<1> DEFINE t == resetTimeoutState(s, TRUE)
<1>1. /\ t \in State /\ t.running /\ t.cycle = Smaller(s.cycle + 1, MaxChangeCycle)
      /\ t.toView = s.toView + 1 /\ t.view = s.view /\ t.stopping = s.stopping
  BY TimedOut
<1> HIDE DEF t
<1>2. StateInv(t, r, w)
  BY <1>1 DEF StateInv, Timed
<1> QED BY <1>1, <1>2 DEF t

\* onTimeout has the mutex.
LEMMA TimeoutKeeps ==
  ASSUME TypeOK, TimerInv, OnTimeout
  PROVE  TypeOK' /\ TimerInv'
<1> DEFINE a == tryToApplyCommitQueue(node)
           s == [a EXCEPT !.fired = FALSE]
           busy == {i \in s.executing : i > s.committed}
<1>0. node \in State /\ ~node.stopping /\ waited \in View /\ StateInv(node, raced, waited)
  BY DEF TypeOK, OnTimeout, Working, Free, TimerInv
<1>1. /\ late' = FALSE /\ faults' = faults /\ raced' = raced
      /\ CanApply(node) \/ busy # {} \/ CanTimeOut(node)
      /\ node' = IF CanApply(node) THEN Restart(s)
                 ELSE IF busy # {} THEN Restart([s EXCEPT !.executing = busy])
                 ELSE resetTimeoutState([s EXCEPT !.executing = {}], TRUE)
      /\ waited' = IF CanApply(node) \/ busy # {} THEN waited ELSE Smaller(waited + 1, MaxView)
  BY DEF OnTimeout
<1>2. a \in State /\ Runs(node, a)
  BY <1>0, AppliesRuns
<1> HIDE DEF a
<1>3. s \in State /\ Runs(node, s)
  <2>1. s \in State /\ Runs(a, s)
    BY <1>2 DEF State, Runs
  <2> HIDE DEF s
  <2> QED BY <1>2, <2>1, RunsOn
<1> HIDE DEF s
<1>4. busy \in SUBSET Index
  BY <1>3, Registers
<1> HIDE DEF busy
<1>5. CASE CanApply(node) \/ busy # {}
  <2> DEFINE b == IF CanApply(node) THEN s ELSE [s EXCEPT !.executing = busy]
  <2>1. node' = Restart(b) /\ waited' = waited
    BY <1>1, <1>5
  <2>2. b \in State /\ Runs(s, b)
    BY <1>3, <1>4 DEF State, Runs
  <2> HIDE DEF b
  <2>3. Restart(b) \in State /\ Runs(b, Restart(b))
    BY <2>2, Restarted DEF Runs, SameStage
  <2>4. Runs(node, Restart(b))
    BY <1>3, <2>2, <2>3, RunsOn
  <2>5. StateInv(Restart(b), raced, waited)
    BY <1>0, <2>3, <2>4, RunsKeeps DEF TypeOK
  <2> QED BY <1>0, <1>1, <2>1, <2>3, <2>5, StepDone DEF TypeOK
<1>6. CASE ~(CanApply(node) \/ busy # {})
  <2> DEFINE b == [s EXCEPT !.executing = {}]
             w == Smaller(waited + 1, MaxView)
  <2>1. node' = resetTimeoutState(b, TRUE) /\ waited' = w /\ CanTimeOut(node)
    BY <1>1, <1>6
  <2>2. b \in State /\ Runs(s, b)
    BY <1>3 DEF State, Runs
  <2> HIDE DEF b
  <2>3. /\ b.cycle = node.cycle /\ b.toView = node.toView /\ b.view = node.view
        /\ b.stopping = node.stopping
    BY <1>3, <2>2 DEF Runs
  <2>4. b.toView < MaxView /\ b.toView + 1 >= b.view
    BY <1>0, <2>1, <2>2, <2>3, Registers, Bounds DEF CanTimeOut, StateInv
  <2>5. Smaller(b.cycle + 1, MaxChangeCycle) >= Smaller(w, MaxChangeCycle) /\ w \in View
    BY <1>0, <2>3, Registers, CycleFollows DEF StateInv
  <2> HIDE DEF w
  <2>6. node' \in State /\ StateInv(node', raced, w)
    BY <1>0, <2>1, <2>2, <2>3, <2>4, <2>5, TimedOutInv
  <2> QED BY <1>1, <2>1, <2>5, <2>6, StepDone DEF TypeOK
<1> QED BY <1>5, <1>6

\* The node joins the view change of others.
LEMMA JoinKeeps ==
  ASSUME TypeOK, TimerInv, NEW v \in View, JoinViewChange(v)
  PROVE  TypeOK' /\ TimerInv'
<1> DEFINE w == v - 1
           b == [node EXCEPT !.toView = w]
<1>0. /\ node \in State /\ ~node.stopping /\ waited \in View /\ StateInv(node, raced, waited)
      /\ v > node.toView
  BY DEF TypeOK, JoinViewChange, Working, Free, TimerInv
<1>1. Event("join", resetTimeoutState(b, TRUE))
  BY DEF JoinViewChange
<1>2. node' = resetTimeoutState(b, TRUE) /\ waited' = waited /\ raced' = raced /\ late' = late
  BY <1>1 DEF Event
<1>3. faults' \in [Faults -> Nat]
  <2>1. "join" \in Faults
    BY DEF Faults
  <2> QED BY <1>1, <2>1, FaultCounted DEF Event
<1>4. w \in View /\ w < MaxView /\ w + 1 >= node.view
  BY <1>0, Registers, Bounds DEF StateInv
<1> HIDE DEF w
<1>5. /\ b \in State /\ b.stopping = node.stopping /\ b.toView = w /\ b.view = node.view
      /\ b.cycle = node.cycle
  BY <1>0, <1>4 DEF State
<1> HIDE DEF b
<1>6. Smaller(b.cycle + 1, MaxChangeCycle) >= Smaller(waited, MaxChangeCycle)
  BY <1>0, <1>5, Registers, CycleFollows DEF StateInv
<1>7. node' \in State /\ StateInv(node', raced, waited)
  BY <1>0, <1>2, <1>4, <1>5, <1>6, TimedOutInv
<1> QED BY <1>2, <1>3, <1>7, StepDone DEF TypeOK

\* A new view begins.
LEMMA ViewKeeps ==
  ASSUME TypeOK, TimerInv, NEW v \in View,
         (\E S \in SUBSET Index : NewView(v, S)) \/ RecoverView(v)
  PROVE  TypeOK' /\ TimerInv'
<1>0. /\ node \in State /\ ~node.stopping /\ node.phase = "started" /\ v > node.view
      /\ waited' = 0 /\ raced' = raced /\ late' = late
  BY DEF TypeOK, NewView, RecoverView, Working, Free
<1>1. faults' \in [Faults -> Nat]
  <2>1. "newView" \in Faults /\ "recover" \in Faults
    BY DEF Faults
  <2> QED BY <2>1, FaultCounted DEF NewView, RecoverView
<1>2. PICK S \in SUBSET Index : node' = EnterView(node, v, S)
  BY DEF NewView, RecoverView
<1>3. Entered(node, node', v)
  BY <1>0, <1>2, ViewEntered
<1>4. StateInv(node', raced, 0)
  <2>1. v >= v /\ 0 >= Smaller(0, MaxChangeCycle)
    BY Bounds DEF Smaller
  <2>2. Timed(node')
    BY <1>3 DEF Entered, Timed
  <2> QED BY <1>0, <1>3, <2>1, <2>2 DEF Entered, StateInv
<1>5. waited' \in View
  BY <1>0, Bounds
<1> QED BY <1>0, <1>1, <1>3, <1>4, <1>5, StepDone DEF Entered, TypeOK

\* The start of the node, the end of freshTimer and the txpool's call.
LEMMA TimerKeeps ==
  ASSUME TypeOK, TimerInv,
         InitNode \/ Start \/ StopTimer \/ \E more \in BOOLEAN : setUnSealedTxsSize(more)
  PROVE  TypeOK' /\ TimerInv'
<1>0. /\ node \in State /\ waited \in View /\ raced \in BOOLEAN /\ StateInv(node, raced, waited)
  BY DEF TypeOK, TimerInv
<1>1. CASE InitNode
  <2> DEFINE a == resetConfig(node, 0)
             b == Restart(a)
             t == [b EXCEPT !.phase = "ready"]
  <2>1. node' = t /\ UNCHANGED <<faults, waited, raced, late>> /\ node.phase = "built"
    BY <1>1 DEF InitNode, Step
  <2>2. /\ a \in State /\ a.cycle = node.cycle /\ a.view = node.view /\ a.toView = node.toView
        /\ a.stopping = node.stopping
    <3>1. 0 \in 0 .. MaxIndex
      BY Bounds
    <3> QED BY <1>0, <3>1, ConfigReset
  <2> HIDE DEF a
  <2>3. b \in State /\ SameStage(a, b) /\ b.running /\ b.stopping = a.stopping /\ b.toView = a.toView
    BY <2>2, Restarted
  <2> HIDE DEF b
  <2>4. /\ t \in State /\ t.phase = "ready" /\ t.running = b.running /\ t.stopping = b.stopping
        /\ t.cycle = b.cycle /\ t.view = b.view /\ t.toView = b.toView
    BY <2>3 DEF State
  <2> HIDE DEF t
  <2>5. StateInv(t, raced, waited)
    BY <1>0, <2>1, <2>2, <2>3, <2>4 DEF StateInv, Timed, SameStage
  <2> QED BY <2>1, <2>4, <2>5, StepDone DEF TypeOK
<1>2. CASE Start
  <2> DEFINE b == Restart(node)
             t == [b EXCEPT !.phase = "started"]
  <2>1. node' = t /\ UNCHANGED <<faults, waited, raced, late>> /\ node.phase = "ready"
    BY <1>2 DEF Start, Step
  <2>2. /\ b \in State /\ SameStage(node, b) /\ b.running /\ b.stopping = node.stopping
        /\ b.toView = node.toView
    BY <1>0, Restarted
  <2> HIDE DEF b
  <2>3. /\ t \in State /\ t.phase = "started" /\ t.running = b.running /\ t.stopping = b.stopping
        /\ t.cycle = b.cycle /\ t.view = b.view /\ t.toView = b.toView
    BY <2>2 DEF State
  <2> HIDE DEF t
  <2>4. StateInv(t, raced, waited)
    BY <1>0, <2>1, <2>2, <2>3 DEF StateInv, Timed, SameStage
  <2> QED BY <2>1, <2>3, <2>4, StepDone DEF TypeOK
<1>3. CASE StopTimer
  <2> DEFINE t == [node EXCEPT !.stopping = FALSE, !.running = FALSE]
  <2>1. node' = t /\ UNCHANGED <<faults, waited, raced, late>> /\ node.stopping
    BY <1>3 DEF StopTimer, Step
  <2>2. /\ t \in State /\ t.phase = node.phase /\ ~t.running /\ ~t.stopping
        /\ t.cycle = node.cycle /\ t.view = node.view /\ t.toView = node.toView
        /\ t.unsealed = node.unsealed /\ t.caches = node.caches /\ t.committed = node.committed
    BY <1>0 DEF State
  <2> HIDE DEF t
  <2>3. Timed(t)
    BY <1>0, <2>1, <2>2 DEF StateInv, Timed
  <2>4. StateInv(t, raced, waited)
    BY <1>0, <2>1, <2>2, <2>3 DEF StateInv
  <2> QED BY <2>1, <2>2, <2>4, StepDone DEF TypeOK
<1>4. ASSUME NEW more \in BOOLEAN, setUnSealedTxsSize(more) PROVE TypeOK' /\ TimerInv'
  <2> DEFINE g == node.running \/ more
             t == [node EXCEPT !.unsealed = more, !.running = g]
  <2>1. /\ node' = t /\ waited' = waited /\ late' = late /\ node.phase = "started"
        /\ raced' = (more /\ node.stopping) /\ Fault("txs")
    BY <1>4 DEF setUnSealedTxsSize
  <2>2. faults' \in [Faults -> Nat]
    <3>1. "txs" \in Faults
      BY DEF Faults
    <3> QED BY <2>1, <3>1, FaultCounted
  <2>3. g \in BOOLEAN
    BY <1>0, Registers
  <2>4. (node.running => g) /\ (more => g)
    OBVIOUS
  <2> HIDE DEF g
  <2>5. /\ t \in State /\ t.phase = node.phase /\ t.running = g /\ t.stopping = node.stopping
        /\ t.cycle = node.cycle /\ t.view = node.view /\ t.toView = node.toView
        /\ t.unsealed = more /\ t.caches = node.caches /\ t.committed = node.committed
    BY <1>0, <2>3 DEF State
  <2> HIDE DEF t
  <2>6. Timed(t)
    BY <1>0, <2>4, <2>5 DEF StateInv, Timed
  <2>7. StateInv(t, more /\ node.stopping, waited)
    BY <1>0, <2>1, <2>4, <2>5, <2>6 DEF StateInv
  <2>8. (more /\ node.stopping) \in BOOLEAN
    OBVIOUS
  <2>9. raced' \in BOOLEAN /\ StateInv(node', raced', waited')
    BY <2>1, <2>7, <2>8, Zenon
  <2> QED BY <2>1, <2>2, <2>5, <2>9, StepDone DEF TypeOK
<1> QED BY <1>1, <1>2, <1>3, <1>4

\* The timer of a node that has been built stands still, and nothing is proposed.
LEMMA InitTimer == Init => TypeOK /\ TimerInv
<1> SUFFICES ASSUME Init PROVE TypeOK /\ TimerInv
  OBVIOUS
<1> DEFINE c == [i \in Index |-> "none"]
<1>1. /\ c \in [Index -> CacheState] /\ \A i \in Index : c[i] # "proposed"
  BY DEF CacheState
<1>2. 0 \in 0 .. MaxChangeCycle /\ 0 \in View /\ 0 \in 0 .. MaxIndex /\ 1 \in 1 .. MaxIndex + 1
  BY Bounds
<1>3. /\ node = [phase |-> "built", running |-> FALSE, cycle |-> 0, stopping |-> FALSE,
                 fired |-> FALSE, popped |-> FALSE, unsealed |-> FALSE, connected |-> {},
                 timeout |-> TRUE, view |-> 0, toView |-> 0, committed |-> 0, expected |-> 1,
                 syncing |-> 0, syncState |-> FALSE, verifying |-> {},
                 caches |-> c, queue |-> {}, executing |-> {}, runs |-> {}]
      /\ faults = [k \in Faults |-> 0] /\ waited = 0 /\ raced = FALSE /\ late = FALSE
  BY DEF Init
<1> HIDE DEF c
<1>4. /\ node \in State /\ node.caches = c /\ ~node.stopping /\ ~node.unsealed
      /\ node.cycle = 0 /\ node.view = 0 /\ node.toView = 0
  BY <1>1, <1>2, <1>3 DEF State
<1>5. 0 >= Smaller(0, MaxChangeCycle)
  BY Bounds DEF Smaller
<1>6. TimerInv
  BY <1>1, <1>3, <1>4, <1>5 DEF TimerInv, StateInv, Timed
<1>7. TypeOK
  <2>1. faults \in [Faults -> Nat] /\ waited \in View /\ raced \in BOOLEAN /\ late \in BOOLEAN
    BY <1>2, <1>3
  <2>2. node.toView >= node.view
    BY <1>4
  <2> QED BY <1>4, <2>1, <2>2 DEF TypeOK
<1> QED BY <1>6, <1>7

(***************************************************************************)
(* The registers keep their types, tryTriggerFastViewChange ends, and the  *)
(* timer fits the rest of the state, through every interleaving of         *)
(* freshTimer, the worker and the timer's own thread.                      *)
(***************************************************************************)
THEOREM TimerInvariant == Spec => [](TypeOK /\ TimerInv)
<1>1. Init => TypeOK /\ TimerInv
  BY InitTimer
<1>2. TypeOK /\ TimerInv /\ [Next]_vars => (TypeOK /\ TimerInv)'
  <2> SUFFICES ASSUME TypeOK, TimerInv, [Next]_vars PROVE TypeOK' /\ TimerInv'
    OBVIOUS
  <2>1. CASE UNCHANGED vars
    BY <2>1 DEF vars, TypeOK, TimerInv
  <2>2. CASE Next
    BY <2>2, RegistersKeep, VerifyKeeps, ExecutionKeeps, PrepareKeeps, CommitMessageKeeps,
       OrderKeeps, BlocksKeep, TimeoutKeeps, JoinKeeps, ViewKeeps, TimerKeeps, Zenon DEF Next
  <2> QED BY <2>1, <2>2
<1> QED BY <1>1, <1>2, PTL DEF Spec

(***************************************************************************)
(* Types of the timer and its registers; the view aimed at is never behind *)
(* the view.                                                               *)
(***************************************************************************)
THEOREM TimerTyped == Spec => []TypeOK
  BY TimerInvariant, PTL

(***************************************************************************)
(* While a proposal of this view is in consensus the timer runs, and no    *)
(* freshTimer is about to stop it (resetTimer, addPrePrepareCache).        *)
(***************************************************************************)
THEOREM ProposalIsTimedHolds == Spec => []ProposalIsTimed
  BY TimerInvariant, TimerInvIs, PTL

(***************************************************************************)
(* While there are unsealed transactions the timer runs, unless they came  *)
(* between the two steps of freshTimer (setUnSealedTxsSize).               *)
(***************************************************************************)
THEOREM TransactionsAreTimedHolds == Spec => []TransactionsAreTimedUnlessRaced
  BY TimerInvariant, TimerInvIs, PTL

(***************************************************************************)
(* The waiting time of a view has grown with every timer that expired in   *)
(* vain, up to c_maxChangeCycle (incChangeCycle, resetTimeoutState).       *)
(***************************************************************************)
THEOREM BacksOffHolds == Spec => []BacksOffUntilNewView
  BY TimerInvariant, TimerInvIs, PTL

=============================================================================

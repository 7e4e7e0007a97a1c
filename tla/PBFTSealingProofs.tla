------------------------- MODULE PBFTSealingProofs -------------------------
(***************************************************************************)
(* What the sealer of a node is asked for, for every list of nodes, leader *)
(* period, watermark, number of blocks and views and every limit on        *)
(* faults: type correctness, the tracking of marks, the three rules the    *)
(* ranges of notifySealer keep, and that the leader's sealer is told.      *)
(***************************************************************************)
EXTENDS PBFTSealing, PBFTQuorumProofs

-----------------------------------------------------------------------------
(* The invariant *)

\* expectedCheckPoint is beyond the ledger, and what is verified is open
Window(s) ==
  /\ s.expected > s.committed
  /\ \A m \in s.verifying :
       m.proposal.index > s.committed /\ m.proposal.index < highWaterMark(s)

\* only a notification that failed waits to be repeated
Repeated(s) == \A r \in s.retries : r.retry >= 1

\* a marking that waits to be repeated has a try left
TryLeft(s) ==
  \A p \in Proposal : \A j \in DOMAIN s.calls[p] :
    s.calls[p][j].stage = "failed" => s.calls[p][j].retry < 3

\* ResettingIsTracked of a state
Tracked(s) ==
  \A p \in s.resetting : p.txs =>
    \E j \in DOMAIN s.calls[p] : s.calls[p][j].stage \in {"queued", "marking"}

\* a proposal is marked by one call, and is in m_resettingProposals meanwhile
SoleCall(s) ==
  \A p \in Proposal : Len(s.calls[p]) <= 1 /\ (s.calls[p] # <<>> => p \in s.resetting)

StateInv(s) == Window(s) /\ Repeated(s) /\ TryLeft(s) /\ Tracked(s)

SealingInv == StateInv(node) /\ (faults["mark"] = 0 => SoleCall(node))

-----------------------------------------------------------------------------
(* The rules for one step *)

OwnStep ==
  \A r \in SentRanges : \A i \in r.start .. r.end :
    LeaderIndex(i, node'.view) = Me /\ i < highWaterMark(node')

OpenStep == \A r \in SentRanges : r.start > node'.committed \/ node'.answers # node.answers

MarkedStep ==
  faults["mark"] = 0 /\ (\A k \in {"verify", "ahead"} : faults'[k] = faults[k]) =>
    \A r \in SentRanges : r.start > node'.committed + 1 =>
      \A p \in Proposal : node'.calls[p] = <<>>

SealRules == OwnStep /\ OpenStep /\ MarkedStep

\* a range that notifySealer asks for in state s, from number low on
Right(s, r, low) ==
  r.op = "seal" =>
    /\ r.start >= low
    /\ \A i \in r.start .. r.end : LeaderIndex(i, s.view) = Me /\ i < highWaterMark(s)
    /\ r.start > s.committed + 1 => s.resetting = {}

\* the messages of s are followed in t by right ones
Sends(s, t, low) ==
  /\ Len(s.toSealer) <= Len(t.toSealer)
  /\ \A j \in 1 .. Len(s.toSealer) : t.toSealer[j] = s.toSealer[j]
  /\ \A j \in Len(s.toSealer) + 1 .. Len(t.toSealer) : Right(t, t.toSealer[j], low)

\* the registers that the notifications below do not write
SameRest(s, t) ==
  /\ t.view = s.view /\ t.committed = s.committed /\ t.expected = s.expected
  /\ t.syncing = s.syncing /\ t.waitSeal = s.waitSeal /\ t.waitReseal = s.waitReseal
  /\ t.submitted = s.submitted /\ t.verifying = s.verifying /\ t.accepted = s.accepted
  /\ t.executing = s.executing /\ t.resetting = s.resetting /\ t.calls = s.calls
  /\ t.answers = s.answers /\ t.retries = s.retries

-----------------------------------------------------------------------------
(* Types *)

\* Block numbers, views and what is asked for are numbers.
LEMMA Bounds ==
  /\ MaxIndex \in Nat /\ MaxView \in Nat /\ WaterMarkLimit \in Nat \ {0}
  /\ LeaderSwitchPeriod \in Nat \ {0}
  /\ \A i : i \in Index <=> i \in Int /\ 1 <= i /\ i <= MaxIndex
  /\ \A v : v \in View <=> v \in Int /\ 0 <= v /\ v <= MaxView
  /\ \A i : i \in Number <=> i \in Int /\ 0 <= i /\ i <= MaxIndex + WaterMarkLimit + 1
  BY SealingAssumption, PeriodAssumption DEF Index, View, Number

\* The types of the registers of a state.
LEMMA Registers ==
  ASSUME NEW s \in State
  PROVE  /\ s.view \in View /\ s.timeout \in BOOLEAN
         /\ s.committed \in 0 .. MaxIndex /\ s.expected \in 1 .. MaxIndex + 1
         /\ s.syncing \in 0 .. MaxIndex /\ s.sealEnd \in Number
         /\ s.waitSeal \in 0 .. MaxIndex /\ s.waitReseal \in 0 .. MaxIndex
         /\ s.submitted \in SUBSET Pending /\ s.verifying \in SUBSET Pending
         /\ s.accepted \in SUBSET Proposal /\ s.executing \in SUBSET Index
         /\ s.resetting \in SUBSET Proposal /\ s.calls \in [Proposal -> Seq(MarkCall)]
         /\ s.toSealer \in Seq(SealRequest \cup ResetRequest)
         /\ s.answers \in Seq(ResetRequest) /\ s.retries \in SUBSET SealRequest
  BY DEF State

\* The registers that count are integers in their ranges.
LEMMA Numbers ==
  ASSUME NEW s \in State
  PROVE  /\ s.committed \in Int /\ 0 <= s.committed /\ s.committed <= MaxIndex
         /\ s.expected \in Int /\ 1 <= s.expected /\ s.expected <= MaxIndex + 1
         /\ s.sealEnd \in Int /\ 0 <= s.sealEnd /\ s.sealEnd <= MaxIndex + WaterMarkLimit + 1
         /\ highWaterMark(s) = s.committed + 1 + WaterMarkLimit
         /\ sealStartIndex(s) \in Int /\ sealStartIndex(s) >= s.committed + 1
         /\ sealStartIndex(s) >= s.expected /\ sealStartIndex(s) <= MaxIndex + 1
<1>1. /\ s.committed \in Int /\ 0 <= s.committed /\ s.committed <= MaxIndex
      /\ s.expected \in Int /\ 1 <= s.expected /\ s.expected <= MaxIndex + 1
      /\ s.sealEnd \in Int /\ 0 <= s.sealEnd /\ s.sealEnd <= MaxIndex + WaterMarkLimit + 1
  BY Registers, Bounds
<1> QED BY <1>1, Bounds DEF highWaterMark, sealStartIndex, Larger

-----------------------------------------------------------------------------
(* Leader periods *)

\* Division with remainder has one quotient.
LEMMA Quotient ==
  ASSUME NEW N \in Nat \ {0}, NEW q \in Nat, NEW m \in 0 .. N - 1
  PROVE  (N * q + m) \div N = q
  OBVIOUS

\* The numbers up to the end of a leader's period have the same leader.
LEMMA SamePeriod ==
  ASSUME NEW i \in Nat, NEW j \in Nat, i <= j,
         j <= (i \div LeaderSwitchPeriod + 1) * LeaderSwitchPeriod - 1
  PROVE  \A v : LeaderIndex(j, v) = LeaderIndex(i, v)
<1> DEFINE P == LeaderSwitchPeriod
           q == i \div P
           m == j - P * q
<1>1. P \in Nat \ {0}
  BY Bounds
<1> HIDE DEF P
<1>2. q \in Nat /\ P * q <= i /\ P * q \in Nat
  BY <1>1
<1>3. j <= (q + 1) * P - 1
  BY DEF P
<1> HIDE DEF q
<1>4. (q + 1) * P = P * q + P
  BY <1>1, <1>2
<1>5. m \in 0 .. P - 1 /\ P * q + m = j
  BY <1>1, <1>2, <1>3, <1>4
<1> HIDE DEF m
<1>6. j \div P = q
  BY <1>1, <1>2, <1>5, Quotient
<1> QED BY <1>6 DEF q, P, LeaderIndex

-----------------------------------------------------------------------------
(* Messages to the sealer *)

\* One more message, if it is right.
LEMMA OneMore ==
  ASSUME NEW s \in State, NEW t \in State, NEW r \in SealRequest \cup ResetRequest, NEW low,
         t.toSealer = Append(s.toSealer, r), Right(t, r, low)
  PROVE  Sends(s, t, low)
<1> DEFINE q == s.toSealer
           u == t.toSealer
<1>1. q \in Seq(SealRequest \cup ResetRequest) /\ u = Append(q, r)
  BY Registers
<1> HIDE DEF q, u
<1>2. /\ Len(q) \in Nat /\ Len(u) = Len(q) + 1 /\ u[Len(q) + 1] = r
      /\ \A j \in 1 .. Len(q) : u[j] = q[j]
  BY <1>1
<1>3. \A j \in Len(q) + 1 .. Len(u) : j = Len(q) + 1
  BY <1>2
<1>4. /\ Len(q) <= Len(u)
      /\ \A j \in Len(q) + 1 .. Len(u) : Right(t, u[j], low)
  BY <1>2, <1>3
<1> QED BY <1>2, <1>4 DEF Sends, q, u

\* No message.
LEMMA NoMore ==
  ASSUME NEW s \in State, NEW t, NEW low, t.toSealer = s.toSealer
  PROVE  Sends(s, t, low)
<1>1. Len(s.toSealer) \in Nat
  BY Registers
<1> QED BY <1>1 DEF Sends

\* Messages are sent one after the other, in one view and on one ledger.
LEMMA SendsTransitive ==
  ASSUME NEW s \in State, NEW t \in State, NEW u \in State, NEW low \in Int, NEW high \in Int,
         Sends(s, t, low), Sends(t, u, high), low <= high,
         u.view = t.view, u.committed = t.committed, u.resetting = t.resetting
  PROVE  Sends(s, u, low)
<1> DEFINE a == Len(s.toSealer)
           b == Len(t.toSealer)
           c == Len(u.toSealer)
<1>1. a \in Nat /\ b \in Nat /\ c \in Nat /\ a <= b /\ b <= c
  BY Registers DEF Sends
<1>2. \A r : Right(t, r, low) => Right(u, r, low)
  BY DEF Right, highWaterMark
<1>3. \A j \in 1 .. b : u.toSealer[j] = t.toSealer[j]
  BY DEF Sends
<1>4. \A j \in 1 .. a : u.toSealer[j] = s.toSealer[j]
  BY <1>1, <1>3 DEF Sends
<1>5. ASSUME NEW j \in a + 1 .. c
      PROVE  Right(u, u.toSealer[j], low)
  <2>1. CASE j <= b
    <3>1. j \in a + 1 .. b /\ j \in 1 .. b
      BY <1>1, <2>1
    <3>2. Right(t, t.toSealer[j], low)
      BY <3>1 DEF Sends
    <3> QED BY <1>2, <1>3, <3>1, <3>2
  <2>2. CASE ~(j <= b)
    <3>1. j \in b + 1 .. c /\ j \in 1 .. c
      BY <1>1, <2>2
    <3>2. Right(u, u.toSealer[j], high)
      BY <3>1 DEF Sends
    <3>3. u.toSealer[j] \in SealRequest \cup ResetRequest
      BY <1>1, <3>1, Registers
    <3>4. u.toSealer[j].op = "seal" => u.toSealer[j].start \in Int
      BY <3>3, Bounds DEF SealRequest, ResetRequest
    <3> QED BY <3>2, <3>4 DEF Right
  <2> QED BY <2>1, <2>2
<1>6. a <= c
  BY <1>1
<1> HIDE DEF a, b, c
<1> QED BY <1>4, <1>5, <1>6 DEF Sends, a, c

\* What is right from a number on is right from a lower one on.
LEMMA SendsLower ==
  ASSUME NEW s \in State, NEW t \in State, NEW low \in Int, NEW high \in Int,
         Sends(s, t, high), low <= high
  PROVE  Sends(s, t, low)
<1>2. t.toSealer \in Seq(SealRequest \cup ResetRequest) /\ Len(s.toSealer) \in Nat
  BY Registers
<1>3. ASSUME NEW j \in Len(s.toSealer) + 1 .. Len(t.toSealer)
      PROVE  Right(t, t.toSealer[j], low)
  <2>1. j \in 1 .. Len(t.toSealer)
    BY <1>2
  <2>2. t.toSealer[j] \in SealRequest \cup ResetRequest
    BY <1>2, <2>1
  <2>3. t.toSealer[j].op = "seal" => t.toSealer[j].start \in Int
    BY <2>2, Bounds DEF SealRequest, ResetRequest
  <2>4. Right(t, t.toSealer[j], high)
    BY DEF Sends
  <2> QED BY <2>3, <2>4 DEF Right
<1> QED BY <1>3 DEF Sends

-----------------------------------------------------------------------------
(* Notifications *)

\* notifySealer asks for right numbers from i on, or for nothing.
LEMMA Notified ==
  ASSUME NEW s \in State, NEW i \in Nat \ {0}
  PROVE  LET t == notifySealer(s, i) IN
         /\ t \in State /\ SameRest(s, t) /\ Sends(s, t, i)
<1> DEFINE end   == endProposalIndex(s, i)
           start == Larger(s.sealEnd + 1, i)
           r     == [op |-> "seal", start |-> start, end |-> end, retry |-> 0]
           asks  == /\ LeaderIndex(i, s.view) = Me /\ canHandleNewProposal(s)
                    /\ s.sealEnd < end /\ start <= end
                    /\ s.resetting = {} \/ start <= s.committed + 1
           t     == [s EXCEPT !.toSealer = Append(s.toSealer, r), !.sealEnd = end]
<1>1. notifySealer(s, i) = IF asks THEN t ELSE s
  <2>1. asyncNotifySealProposal(s, start, end, 0) = [s EXCEPT !.toSealer = Append(@, r)]
    BY DEF asyncNotifySealProposal
  <2>2. [asyncNotifySealProposal(s, start, end, 0) EXCEPT !.sealEnd = end] = t
    BY <2>1 DEF State
  <2> HIDE DEF t
  <2> QED BY <2>2 DEF notifySealer
<1>2. CASE ~asks
  <2>1. notifySealer(s, i) = s
    BY <1>1, <1>2
  <2> QED BY <2>1, NoMore DEF SameRest
<1>3. CASE asks
  <2> DEFINE top == (i \div LeaderSwitchPeriod + 1) * LeaderSwitchPeriod - 1
  <2>1. i \div LeaderSwitchPeriod \in Nat
    BY Bounds
  <2>2. top \in Int
    BY <2>1, Bounds
  <2>3. end = Smaller(top, highWaterMark(s) - 1)
    BY DEF endProposalIndex
  <2> HIDE DEF top, end
  <2>4. end \in Int /\ end <= top /\ end <= s.committed + WaterMarkLimit
    BY <2>2, <2>3, Numbers, Bounds DEF Smaller
  <2>5. start \in Int /\ start >= i /\ start <= end
    BY <1>3, Numbers DEF Larger
  <2>6. start \in Number /\ end \in Number
    BY <2>4, <2>5, Numbers, Bounds
  <2> HIDE DEF start
  <2>7. r \in SealRequest
    BY <2>6 DEF SealRequest
  <2> HIDE DEF r
  <2>8. /\ t \in State /\ t.toSealer = Append(s.toSealer, r) /\ SameRest(s, t)
    <3> DEFINE q == Append(s.toSealer, r)
    <3>1. q \in Seq(SealRequest \cup ResetRequest)
      BY <2>7, Registers
    <3> HIDE DEF q
    <3>2. [s EXCEPT !.toSealer = q, !.sealEnd = end] \in State
      BY <2>6, <3>1 DEF State
    <3>3. SameRest(s, [s EXCEPT !.toSealer = q, !.sealEnd = end])
      BY DEF State, SameRest
    <3> QED BY <3>2, <3>3 DEF q, State
  <2> HIDE DEF t
  <2>9. Right(t, r, i)
    <3>1. r.op = "seal" /\ r.start = start /\ r.end = end
      BY DEF r
    <3>2. ASSUME NEW j \in start .. end
          PROVE  LeaderIndex(j, t.view) = Me /\ j < highWaterMark(t)
      <4>1. j \in Nat /\ i <= j /\ j <= top /\ j <= s.committed + WaterMarkLimit
        BY <2>2, <2>4, <2>5, Numbers, Bounds
      <4>2. LeaderIndex(j, s.view) = LeaderIndex(i, s.view)
        BY <4>1, SamePeriod DEF top
      <4>3. j < s.committed + 1 + WaterMarkLimit
        BY <4>1, Numbers, Bounds
      <4> QED BY <1>3, <2>8, <4>2, <4>3 DEF SameRest, highWaterMark
    <3>3. start > t.committed + 1 => t.resetting = {}
      <4>1. t.committed = s.committed /\ t.resetting = s.resetting
        BY <2>8 DEF SameRest
      <4> QED BY <1>3, <2>5, <4>1, Numbers
    <3> QED BY <2>5, <3>1, <3>2, <3>3 DEF Right
  <2>10. Sends(s, t, i)
    BY <2>7, <2>8, <2>9, OneMore
  <2> QED BY <1>1, <1>3, <2>8, <2>10
<1> QED BY <1>2, <1>3

\* reNotifySealer asks for right numbers from i on, or for nothing.
LEMMA Renotified ==
  ASSUME NEW s \in State, NEW i \in Nat \ {0}
  PROVE  LET t == reNotifySealer(s, i) IN
         /\ t \in State /\ SameRest(s, t) /\ Sends(s, t, i)
<1> DEFINE u == [s EXCEPT !.sealEnd = i - 1]
           t == notifySealer(u, i)
<1>1. CASE i >= highWaterMark(s) \/ i < s.committed
  <2>1. reNotifySealer(s, i) = s
    BY <1>1 DEF reNotifySealer
  <2> QED BY <2>1, NoMore DEF SameRest
<1>2. CASE ~(i >= highWaterMark(s) \/ i < s.committed)
  <2>1. reNotifySealer(s, i) = t
    BY <1>2 DEF reNotifySealer
  <2>2. i - 1 \in Number
    BY <1>2, Numbers, Bounds
  <2>3. u \in State /\ u.toSealer = s.toSealer /\ SameRest(s, u)
    BY <2>2 DEF State, SameRest
  <2> HIDE DEF u
  <2>4. t \in State /\ SameRest(u, t) /\ Sends(u, t, i)
    BY <2>3, Notified
  <2> HIDE DEF t
  <2>5. SameRest(s, t) /\ Sends(s, t, i)
    BY <2>3, <2>4 DEF SameRest, Sends
  <2> QED BY <2>1, <2>4, <2>5
<1> QED BY <1>1, <1>2

\* notifyResetSealing asks for no number.
LEMMA ResetSent ==
  ASSUME NEW s \in State, NEW back \in Number
  PROVE  LET t == notifyResetSealing(s, back) IN
         /\ t \in State /\ SameRest(s, t) /\ \A low : Sends(s, t, low)
<1> DEFINE r == [op |-> "reset", back |-> back, at |-> s.committed]
           e == sealStartIndex(s) - 1
           t == [s EXCEPT !.toSealer = Append(s.toSealer, r), !.sealEnd = e]
<1>1. notifyResetSealing(s, back) = t
  BY DEF notifyResetSealing
<1>2. e \in Number
  BY Numbers, Bounds
<1>3. r \in ResetRequest /\ r.op = "reset"
  BY Registers DEF ResetRequest
<1> HIDE DEF r, e
<1>4. t \in State /\ t.toSealer = Append(s.toSealer, r) /\ SameRest(s, t)
  <2> DEFINE q == Append(s.toSealer, r)
  <2>1. q \in Seq(SealRequest \cup ResetRequest)
    BY <1>3, Registers
  <2> HIDE DEF q
  <2>2. [s EXCEPT !.toSealer = q, !.sealEnd = e] \in State
    BY <1>2, <2>1 DEF State
  <2>3. SameRest(s, [s EXCEPT !.toSealer = q, !.sealEnd = e])
    BY DEF State, SameRest
  <2> QED BY <2>2, <2>3 DEF q, State
<1> HIDE DEF t
<1>5. \A low : Right(t, r, low)
  BY <1>3 DEF Right
<1>6. \A low : Sends(s, t, low)
  BY <1>3, <1>4, <1>5, OneMore
<1> QED BY <1>1, <1>4, <1>6

\* The end of resetConfig asks for numbers beyond the new block.
LEMMA CommitNotified ==
  ASSUME NEW s \in State
  PROVE  LET t == NotifyAfterCommit(s, s.committed) IN
         /\ t \in State /\ SameRest(s, t) /\ Sends(s, t, s.committed + 1)
<1> DEFINE k == s.committed
<1>0. k \in Nat /\ k + 1 \in Nat \ {0}
  BY Numbers
<1>1. CASE s.syncing > k
  <2> DEFINE u == [s EXCEPT !.timeout = TRUE]
             t == notifyResetSealing(u, 0)
  <2>1. NotifyAfterCommit(s, k) = t
    BY <1>1 DEF NotifyAfterCommit
  <2>2. u \in State /\ u.toSealer = s.toSealer /\ SameRest(s, u)
    BY DEF State, SameRest
  <2> HIDE DEF u
  <2>3. 0 \in Number
    BY Bounds
  <2>4. t \in State /\ SameRest(u, t) /\ \A low : Sends(u, t, low)
    BY <2>2, <2>3, ResetSent
  <2> HIDE DEF t
  <2>5. Sends(u, t, k + 1)
    BY <2>4
  <2>6. SameRest(s, t) /\ Sends(s, t, k + 1)
    BY <2>2, <2>4, <2>5 DEF SameRest, Sends
  <2> QED BY <2>1, <2>4, <2>6
<1>2. CASE ~(s.syncing > k)
  <2> DEFINE i == Larger(sealStartIndex(s), k + 1)
             u == IF s.waitReseal = k THEN reNotifySealer(s, i) ELSE s
             j == sealStartIndex(u)
             t == notifySealer(u, j)
  <2>1. NotifyAfterCommit(s, k) = t
    BY <1>2 DEF NotifyAfterCommit
  <2>2. i \in Nat \ {0} /\ i >= k + 1
    BY <1>0, Numbers DEF Larger
  <2> HIDE DEF i
  <2>3. u \in State /\ SameRest(s, u) /\ Sends(s, u, k + 1)
    <3>1. CASE s.waitReseal = k
      <4>1. /\ reNotifySealer(s, i) \in State /\ SameRest(s, reNotifySealer(s, i))
            /\ Sends(s, reNotifySealer(s, i), i)
        BY <2>2, Renotified
      <4>2. Sends(s, reNotifySealer(s, i), k + 1)
        BY <1>0, <2>2, <4>1, SendsLower
      <4> QED BY <3>1, <4>1, <4>2
    <3>2. CASE s.waitReseal # k
      <4>1. u = s
        BY <3>2
      <4> QED BY <4>1, NoMore DEF SameRest
    <3> QED BY <3>1, <3>2
  <2> HIDE DEF u
  <2>4. u.committed = k
    BY <2>3 DEF SameRest
  <2>5. j \in Nat \ {0} /\ j >= k + 1
    BY <1>0, <2>3, <2>4, Numbers
  <2> HIDE DEF j
  <2>6. t \in State /\ SameRest(u, t) /\ Sends(u, t, j)
    BY <2>3, <2>5, Notified
  <2> HIDE DEF t
  <2>7. SameRest(s, t)
    BY <2>3, <2>6 DEF SameRest
  <2>8. t.view = u.view /\ t.committed = u.committed /\ t.resetting = u.resetting
    BY <2>6 DEF SameRest
  <2>9. Sends(s, t, k + 1)
    <3>1. k + 1 \in Int /\ j \in Int
      BY <1>0, <2>5
    <3> HIDE DEF k
    <3> QED BY <2>3, <2>5, <2>6, <2>8, <3>1, SendsTransitive
  <2> QED BY <2>1, <2>6, <2>7, <2>9
<1> QED BY <1>1, <1>2

\* resetConfig of block k: what it leaves of the registers, and what it asks for.
LEMMA ConfigReset ==
  ASSUME NEW s \in State, NEW k \in Index
  PROVE  LET t == resetConfig(s, k) IN
         /\ t \in State /\ Sends(s, t, k + 1)
         /\ t.committed = k /\ t.expected = Larger(s.expected, k + 1)
         /\ t.verifying = {m \in s.verifying : m.proposal.index > k}
         /\ t.accepted = {p \in s.accepted : p.index > k}
         /\ t.view = s.view /\ t.resetting = s.resetting /\ t.calls = s.calls
         /\ t.answers = s.answers /\ t.retries = s.retries
<1> DEFINE u == [s EXCEPT !.committed = k, !.expected = Larger(@, k + 1), !.timeout = FALSE,
                          !.verifying = {m \in @ : m.proposal.index > k},
                          !.accepted = {p \in @ : p.index > k}]
           t == NotifyAfterCommit(u, k)
<1>1. resetConfig(s, k) = t
  BY DEF resetConfig
<1>2. k \in 0 .. MaxIndex /\ Larger(s.expected, k + 1) \in 1 .. MaxIndex + 1
  BY Numbers, Bounds DEF Larger
<1>3. /\ {m \in s.verifying : m.proposal.index > k} \in SUBSET Pending
      /\ {p \in s.accepted : p.index > k} \in SUBSET Proposal
  BY Registers
<1>4. u \in State
  BY <1>2, <1>3 DEF State
<1>5. /\ u.committed = k /\ u.expected = Larger(s.expected, k + 1)
      /\ u.verifying = {m \in s.verifying : m.proposal.index > k}
      /\ u.accepted = {p \in s.accepted : p.index > k}
      /\ u.view = s.view /\ u.resetting = s.resetting /\ u.calls = s.calls
      /\ u.answers = s.answers /\ u.retries = s.retries /\ u.toSealer = s.toSealer
  BY DEF State
<1> HIDE DEF u
<1>6. t \in State /\ SameRest(u, t) /\ Sends(u, t, k + 1)
  BY <1>4, <1>5, CommitNotified
<1> HIDE DEF t
<1>7. Sends(s, t, k + 1)
  BY <1>5, <1>6 DEF Sends
<1> QED BY <1>1, <1>5, <1>6, <1>7 DEF SameRest

\* the registers that the marks do not touch
SameUnmarked(s, t) ==
  /\ t.view = s.view /\ t.committed = s.committed /\ t.expected = s.expected
  /\ t.verifying = s.verifying /\ t.toSealer = s.toSealer /\ t.sealEnd = s.sealEnd
  /\ t.answers = s.answers /\ t.retries = s.retries

\* The marks fit: TryLeft and Tracked.
Marks(s) == TryLeft(s) /\ Tracked(s)

\* asyncResetTxsFlag adds a call with the hash, unless the hash is there.
LEMMA FlagSet ==
  ASSUME NEW s \in State, NEW p \in Proposal, Marks(s)
  PROVE  LET t == asyncResetTxsFlag(s, p) IN
         /\ t \in State /\ SameUnmarked(s, t) /\ Marks(t) /\ (SoleCall(s) => SoleCall(t))
<1> DEFINE call == [stage |-> "queued", retry |-> 0]
           q    == Append(s.calls[p], call)
           t    == [s EXCEPT !.resetting = @ \cup {p}, !.calls[p] = q]
<1>1. CASE p \in s.resetting
  <2>1. asyncResetTxsFlag(s, p) = s
    BY <1>1 DEF asyncResetTxsFlag
  <2> QED BY <2>1 DEF SameUnmarked
<1>2. CASE p \notin s.resetting
  <2>1. asyncResetTxsFlag(s, p) = t
    BY <1>2 DEF asyncResetTxsFlag
  <2>2. call \in MarkCall /\ call.stage = "queued"
    BY DEF MarkCall
  <2> HIDE DEF call
  <2>3. s.calls[p] \in Seq(MarkCall) /\ s.calls \in [Proposal -> Seq(MarkCall)]
        /\ s.resetting \in SUBSET Proposal
    BY Registers
  <2>4. /\ q \in Seq(MarkCall) /\ Len(q) = Len(s.calls[p]) + 1 /\ Len(s.calls[p]) \in Nat
        /\ q[Len(s.calls[p]) + 1] = call
        /\ \A j \in 1 .. Len(s.calls[p]) : q[j] = s.calls[p][j]
        /\ DOMAIN q = 1 .. Len(q) /\ DOMAIN s.calls[p] = 1 .. Len(s.calls[p])
    BY <2>2, <2>3
  <2> HIDE DEF q
  <2> DEFINE c == [s.calls EXCEPT ![p] = q]
  <2>5. c \in [Proposal -> Seq(MarkCall)] /\ c[p] = q
        /\ \A x \in Proposal : x # p => c[x] = s.calls[x]
    BY <2>3, <2>4
  <2>6. t = [s EXCEPT !.resetting = s.resetting \cup {p}, !.calls = c]
    BY DEF State
  <2> HIDE DEF c, t
  <2>7. t \in State /\ t.calls = c /\ t.resetting = s.resetting \cup {p}
    BY <2>3, <2>5, <2>6 DEF State
  <2>8. SameUnmarked(s, t)
    BY <2>6 DEF State, SameUnmarked
  <2>9. TryLeft(t)
    <3> SUFFICES ASSUME NEW x \in Proposal, NEW j \in DOMAIN c[x], c[x][j].stage = "failed"
                 PROVE  c[x][j].retry < 3
      BY <2>7 DEF TryLeft
    <3>1. CASE x # p
      BY <2>5, <3>1 DEF TryLeft, Marks
    <3>2. CASE x = p
      <4>1. j \in 1 .. Len(s.calls[p]) + 1 /\ c[x][j] = q[j]
        BY <2>4, <2>5, <3>2
      <4>2. j # Len(s.calls[p]) + 1
        BY <2>2, <2>4, <4>1
      <4>3. j \in 1 .. Len(s.calls[p])
        BY <2>4, <4>1, <4>2
      <4> QED BY <2>4, <4>1, <4>3 DEF TryLeft, Marks
    <3> QED BY <3>1, <3>2
  <2>10. Tracked(t)
    <3> SUFFICES ASSUME NEW x \in s.resetting \cup {p}, x.txs
                 PROVE  \E j \in DOMAIN c[x] : c[x][j].stage \in {"queued", "marking"}
      BY <2>7 DEF Tracked
    <3>1. CASE x # p
      <4>1. x \in s.resetting /\ c[x] = s.calls[x]
        BY <2>3, <2>5, <3>1
      <4> QED BY <4>1 DEF Tracked, Marks
    <3>2. CASE x = p
      <4>1. Len(s.calls[p]) + 1 \in DOMAIN c[x] /\ c[x][Len(s.calls[p]) + 1] = call
        BY <2>4, <2>5, <3>2
      <4> QED BY <2>2, <4>1
    <3> QED BY <3>1, <3>2
  <2>11. ASSUME SoleCall(s) PROVE SoleCall(t)
    <3>1. s.calls[p] = <<>>
      BY <1>2, <2>11 DEF SoleCall
    <3>2. Len(c[p]) <= 1
      <4>1. Len(<<>>) = 0
        OBVIOUS
      <4>2. Len(s.calls[p]) = 0
        BY <3>1, <4>1, Zenon
      <4>3. Len(q) = Len(s.calls[p]) + 1 /\ c[p] = q
        BY <2>4, <2>5, Zenon
      <4>4. Len(q) <= 1
        BY <4>2, <4>3
      <4> QED BY <4>3, <4>4, Zenon
    <3> QED BY <2>5, <2>7, <2>11, <3>2 DEF SoleCall
  <2> QED BY <2>1, <2>7, <2>8, <2>9, <2>10, <2>11 DEF Marks
<1> QED BY <1>1, <1>2

\* addPrePrepareCache of an own or a verified proposal.
LEMMA PrePrepareAdded ==
  ASSUME NEW s \in State, NEW p \in Proposal, Marks(s)
  PROVE  LET t == AddPrePrepare(s, p) IN
         /\ t \in State /\ SameUnmarked(s, t) /\ Marks(t) /\ (SoleCall(s) => SoleCall(t))
<1> DEFINE u == asyncResetTxsFlag(s, p)
           t == [u EXCEPT !.accepted = @ \cup {p}]
<1>1. AddPrePrepare(s, p) = t
  BY DEF AddPrePrepare
<1>2. u \in State /\ SameUnmarked(s, u) /\ Marks(u) /\ (SoleCall(s) => SoleCall(u))
  BY FlagSet
<1> HIDE DEF u
<1>3. u.accepted \cup {p} \in SUBSET Proposal
  BY <1>2, Registers
<1>4. t \in State /\ SameUnmarked(u, t) /\ t.calls = u.calls /\ t.resetting = u.resetting
  BY <1>2, <1>3 DEF State, SameUnmarked
<1> HIDE DEF t
<1>5. SameUnmarked(s, t)
  BY <1>2, <1>4 DEF SameUnmarked
<1>6. Marks(t) /\ (SoleCall(u) => SoleCall(t))
  BY <1>2, <1>4 DEF Marks, TryLeft, Tracked, SoleCall
<1> QED BY <1>1, <1>2, <1>4, <1>5, <1>6

-----------------------------------------------------------------------------
(* Steps: the invariant and the rules *)

\* A step that adds no message asks for nothing.
LEMMA NoneSent ==
  ASSUME node \in State, node' \in State, Len(node'.toSealer) <= Len(node.toSealer)
  PROVE  SealRules
<1>1. Len(node.toSealer) \in Nat /\ Len(node'.toSealer) \in Nat
  BY Registers
<1>2. Len(node.toSealer) + 1 .. Len(node'.toSealer) = {}
  BY <1>1
<1>3. SentRanges = {}
  BY <1>2 DEF SentRanges
<1> QED BY <1>3 DEF SealRules, OwnStep, OpenStep, MarkedStep

\* What a step asks for is among its new messages.
LEMMA SentIsNew ==
  ASSUME NEW r \in SentRanges
  PROVE  \E j \in Len(node.toSealer) + 1 .. Len(node'.toSealer) :
           r = node'.toSealer[j] /\ r.op = "seal" /\ r.retry = 0
  BY DEF SentRanges

\* A step that sends right messages keeps the rules.
LEMMA RightStep ==
  ASSUME node \in State, node' \in State, NEW low \in Int, Sends(node, node', low),
         low > node'.committed \/ node'.answers # node.answers,
         faults["mark"] = 0 => SoleCall(node')
  PROVE  SealRules
<1>1. ASSUME NEW r \in SentRanges
      PROVE  r.op = "seal" /\ Right(node', r, low) /\ r.start \in Int
  <2>1. PICK j \in Len(node.toSealer) + 1 .. Len(node'.toSealer) :
          r = node'.toSealer[j] /\ r.op = "seal"
    BY SentIsNew
  <2>2. Len(node.toSealer) \in Nat /\ node'.toSealer \in Seq(SealRequest \cup ResetRequest)
    BY Registers
  <2>3. j \in 1 .. Len(node'.toSealer)
    BY <2>2
  <2>4. r \in SealRequest \cup ResetRequest
    BY <2>1, <2>2, <2>3
  <2>5. r.start \in Int
    BY <2>1, <2>4, Bounds DEF SealRequest, ResetRequest
  <2>6. Right(node', r, low)
    BY <2>1 DEF Sends
  <2> QED BY <2>1, <2>5, <2>6
<1>2. OwnStep
  BY <1>1 DEF OwnStep, Right
<1>3. OpenStep
  <2>1. node'.committed \in Int
    BY Numbers
  <2> QED BY <1>1, <2>1 DEF OpenStep, Right
<1>4. MarkedStep
  <2> SUFFICES ASSUME faults["mark"] = 0, NEW r \in SentRanges, r.start > node'.committed + 1,
                      NEW p \in Proposal
               PROVE  node'.calls[p] = <<>>
    BY DEF MarkedStep
  <2>1. node'.resetting = {}
    BY <1>1 DEF Right
  <2> QED BY <2>1 DEF SoleCall
<1> QED BY <1>2, <1>3, <1>4 DEF SealRules

\* The invariant of a state depends on these registers.
LEMMA Carried ==
  ASSUME NEW s, NEW t, StateInv(s), t.committed = s.committed, t.expected = s.expected,
         t.verifying = s.verifying, t.retries = s.retries, t.resetting = s.resetting,
         t.calls = s.calls
  PROVE  StateInv(t) /\ (SoleCall(s) => SoleCall(t))
<1>1. Window(t) /\ Repeated(t)
  BY DEF StateInv, Window, Repeated, highWaterMark
<1>2. TryLeft(t) /\ Tracked(t) /\ (SoleCall(s) => SoleCall(t))
  BY DEF StateInv, TryLeft, Tracked, SoleCall
<1> QED BY <1>1, <1>2 DEF StateInv

\* A fault is counted.
LEMMA FaultCounted ==
  ASSUME faults \in [Faults -> Nat], NEW k \in Faults, Fault(k)
  PROVE  /\ faults' \in [Faults -> Nat]
         /\ faults'["mark"] = 0 => faults["mark"] = 0 /\ k # "mark"
         /\ faults'[k] # faults[k]
<1>1. faults' = [faults EXCEPT ![k] = @ + 1]
  BY DEF Fault
<1>2. "mark" \in Faults
  BY DEF Faults
<1> QED BY <1>1, <1>2

\* How a step keeps types and invariant: by the state it leads to.
LEMMA Keeps ==
  ASSUME TypeOK, SealingInv, NEW t \in State, node' = t, StateInv(t), SoleCall(node) => SoleCall(t),
         todo' \subseteq Number, faults' \in [Faults -> Nat],
         faults'["mark"] = 0 => faults["mark"] = 0
  PROVE  TypeOK' /\ SealingInv'
  BY DEF TypeOK, SealingInv

\* The same for a step that counts a fault.
LEMMA EventKeeps ==
  ASSUME TypeOK, SealingInv, NEW t \in State, NEW k \in Faults, Event(k, t),
         StateInv(t), SoleCall(node) => SoleCall(t)
  PROVE  /\ TypeOK' /\ SealingInv' /\ node' = t
         /\ faults["mark"] = 0 => SoleCall(node')
         /\ faults'[k] # faults[k]
<1>1. node' = t /\ todo' = todo /\ Fault(k)
  BY DEF Event
<1>2. faults \in [Faults -> Nat] /\ todo \subseteq Number
  BY DEF TypeOK
<1>3. /\ faults' \in [Faults -> Nat] /\ (faults'["mark"] = 0 => faults["mark"] = 0)
      /\ faults'[k] # faults[k]
  BY <1>1, <1>2, FaultCounted
<1>4. TypeOK' /\ SealingInv'
  BY <1>1, <1>2, <1>3, Keeps
<1> QED BY <1>1, <1>3, <1>4 DEF SealingInv

\* The same for a step without a fault.
LEMMA StepKeeps ==
  ASSUME TypeOK, SealingInv, NEW t \in State, Step(t), StateInv(t), SoleCall(node) => SoleCall(t)
  PROVE  /\ TypeOK' /\ SealingInv' /\ node' = t
         /\ faults["mark"] = 0 => SoleCall(node')
<1>1. node' = t /\ todo' = todo /\ faults' = faults
  BY DEF Step
<1> QED BY <1>1, Keeps DEF TypeOK, SealingInv

-----------------------------------------------------------------------------
(* The sealer *)

\* The sealer takes its next message.
LEMMA MessageTaken ==
  ASSUME node \in State, node.toSealer # <<>>
  PROVE  /\ Taken \in State /\ Len(Taken.toSealer) <= Len(node.toSealer)
         /\ Head(node.toSealer) \in SealRequest \cup ResetRequest
         /\ Taken.committed = node.committed /\ Taken.expected = node.expected
         /\ Taken.verifying = node.verifying /\ Taken.retries = node.retries
         /\ Taken.resetting = node.resetting /\ Taken.calls = node.calls
         /\ Taken.answers = node.answers
<1> DEFINE q == Tail(node.toSealer)
<1>1. node.toSealer \in Seq(SealRequest \cup ResetRequest)
  BY Registers
<1>2. q \in Seq(SealRequest \cup ResetRequest) /\ Len(q) = Len(node.toSealer) - 1
      /\ Len(node.toSealer) \in Nat /\ Head(node.toSealer) \in SealRequest \cup ResetRequest
  BY <1>1
<1> HIDE DEF q
<1>3. Taken = [node EXCEPT !.toSealer = q]
  BY DEF Taken, q
<1>4. Taken \in State
  BY <1>2, <1>3 DEF State
<1>5. /\ Taken.toSealer = q /\ Taken.committed = node.committed /\ Taken.expected = node.expected
      /\ Taken.verifying = node.verifying /\ Taken.retries = node.retries
      /\ Taken.resetting = node.resetting /\ Taken.calls = node.calls
      /\ Taken.answers = node.answers
  BY <1>3 DEF State
<1> QED BY <1>2, <1>4, <1>5

\* The sealer takes a range.
LEMMA TakesRangeKeeps ==
  ASSUME TypeOK, SealingInv, SealerTakesRange
  PROVE  TypeOK' /\ SealingInv' /\ SealRules
<1> DEFINE r == Head(node.toSealer)
<1>1. node \in State /\ node.toSealer # <<>> /\ r.op = "seal"
  BY DEF TypeOK, SealerTakesRange, NextRequest
<1>2. /\ Taken \in State /\ Len(Taken.toSealer) <= Len(node.toSealer)
      /\ StateInv(Taken) /\ (SoleCall(node) => SoleCall(Taken))
  BY <1>1, MessageTaken, Carried DEF SealingInv
<1>3. r \in SealRequest
  <2>1. r \in SealRequest \cup ResetRequest
    BY <1>1, MessageTaken
  <2> HIDE DEF r
  <2> QED BY <1>1, <2>1 DEF SealRequest, ResetRequest
<1>4. node' = Taken /\ todo' = todo \cup (r.start .. r.end) /\ faults' = faults
  BY DEF SealerTakesRange
<1> HIDE DEF r
<1>5. r.start .. r.end \subseteq Number
  BY <1>3, Bounds DEF SealRequest
<1>6. todo' \subseteq Number /\ faults' \in [Faults -> Nat]
  BY <1>4, <1>5 DEF TypeOK
<1>7. TypeOK' /\ SealingInv'
  BY <1>2, <1>4, <1>6, Keeps
<1> QED BY <1>1, <1>2, <1>4, <1>7, NoneSent

\* The sealer resets, and answers.
LEMMA ResetsKeeps ==
  ASSUME TypeOK, SealingInv, SealerResets
  PROVE  TypeOK' /\ SealingInv' /\ SealRules
<1> DEFINE r == Head(node.toSealer)
           t == [Taken EXCEPT !.answers = Append(@, r)]
           q == Append(Taken.answers, r)
<1>1. node \in State /\ node.toSealer # <<>> /\ r.op = "reset"
  BY DEF TypeOK, SealerResets, NextRequest
<1>2. r \in ResetRequest
  <2>1. r \in SealRequest \cup ResetRequest
    BY <1>1, MessageTaken
  <2> HIDE DEF r
  <2> QED BY <1>1, <2>1 DEF SealRequest, ResetRequest
<1>3. Taken \in State /\ Len(Taken.toSealer) <= Len(node.toSealer)
  BY <1>1, MessageTaken
<1>4. node' = t /\ todo' = {} /\ faults' = faults
  BY DEF SealerResets
<1> HIDE DEF r
<1>5. q \in Seq(ResetRequest)
  BY <1>2, <1>3, Registers
<1>6. t = [Taken EXCEPT !.answers = q]
  BY <1>3 DEF State
<1> HIDE DEF t, q
<1>7. /\ t \in State /\ t.toSealer = Taken.toSealer
      /\ t.committed = Taken.committed /\ t.expected = Taken.expected
      /\ t.verifying = Taken.verifying /\ t.retries = Taken.retries
      /\ t.resetting = Taken.resetting /\ t.calls = Taken.calls
  BY <1>3, <1>5, <1>6 DEF State
<1>8. StateInv(t) /\ (SoleCall(node) => SoleCall(t))
  BY <1>1, <1>7, MessageTaken, Carried DEF SealingInv
<1>9. TypeOK' /\ SealingInv'
  BY <1>4, <1>7, <1>8, Keeps DEF TypeOK
<1> QED BY <1>1, <1>3, <1>4, <1>7, <1>9, NoneSent

\* A notification fails and waits to be repeated, or is given up.
LEMMA FailsKeeps ==
  ASSUME TypeOK, SealingInv, SealerFails
  PROVE  TypeOK' /\ SealingInv' /\ SealRules
<1> DEFINE r == Head(node.toSealer)
           R == IF r.retry = 3 THEN Taken.retries ELSE Taken.retries \cup {[r EXCEPT !.retry = @ + 1]}
           t == [Taken EXCEPT !.retries = R]
<1>1. node \in State /\ node.toSealer # <<>> /\ r.op = "seal"
  BY DEF TypeOK, SealerFails, NextRequest
<1>2. r \in SealRequest
  <2>1. r \in SealRequest \cup ResetRequest
    BY <1>1, MessageTaken
  <2> HIDE DEF r
  <2> QED BY <1>1, <2>1 DEF SealRequest, ResetRequest
<1>3. /\ Taken \in State /\ Len(Taken.toSealer) <= Len(node.toSealer)
      /\ StateInv(Taken) /\ (SoleCall(node) => SoleCall(Taken))
  BY <1>1, MessageTaken, Carried DEF SealingInv
<1>4. Event("notify", t)
  BY DEF SealerFails
<1> HIDE DEF r
<1>5. R \in SUBSET SealRequest /\ \A x \in R : x.retry >= 1
  <2>1. Taken.retries \in SUBSET SealRequest /\ \A x \in Taken.retries : x.retry >= 1
    BY <1>3, Registers DEF StateInv, Repeated
  <2>2. CASE r.retry = 3
    BY <2>1, <2>2
  <2>3. CASE r.retry # 3
    <3>1. r.retry \in 0 .. 3
      BY <1>2 DEF SealRequest
    <3>2. r.retry + 1 \in 0 .. 3 /\ r.retry + 1 >= 1
      BY <2>3, <3>1
    <3>3. [r EXCEPT !.retry = @ + 1] \in SealRequest /\ [r EXCEPT !.retry = @ + 1].retry = r.retry + 1
      BY <1>2, <3>2 DEF SealRequest
    <3> QED BY <2>1, <2>3, <3>2, <3>3
  <2> QED BY <2>2, <2>3
<1> HIDE DEF R
<1>6. /\ t \in State /\ t.toSealer = Taken.toSealer /\ t.retries = R
      /\ t.committed = Taken.committed /\ t.expected = Taken.expected
      /\ t.verifying = Taken.verifying
      /\ t.resetting = Taken.resetting /\ t.calls = Taken.calls
  BY <1>3, <1>5 DEF State
<1> HIDE DEF t
<1>7. StateInv(t) /\ (SoleCall(node) => SoleCall(t))
  <2>1. Window(t) /\ Repeated(t)
    BY <1>3, <1>5, <1>6 DEF StateInv, Window, Repeated, highWaterMark
  <2>2. TryLeft(t) /\ Tracked(t) /\ (SoleCall(Taken) => SoleCall(t))
    BY <1>3, <1>6 DEF StateInv, TryLeft, Tracked, SoleCall
  <2> QED BY <1>3, <2>1, <2>2 DEF StateInv
<1>8. TypeOK' /\ SealingInv' /\ node' = t
  <2>1. "notify" \in Faults
    BY DEF Faults
  <2> QED BY <1>4, <1>6, <1>7, <2>1, EventKeeps
<1>9. node' \in State /\ Len(node'.toSealer) <= Len(node.toSealer)
  BY <1>3, <1>6, <1>8
<1> QED BY <1>1, <1>8, <1>9, NoneSent

\* A reset fails.
LEMMA ResetFailsKeeps ==
  ASSUME TypeOK, SealingInv, ResetFails
  PROVE  TypeOK' /\ SealingInv' /\ SealRules
<1>1. node \in State /\ node.toSealer # <<>> /\ Event("reset", Taken)
  BY DEF TypeOK, ResetFails, NextRequest
<1>2. /\ Taken \in State /\ Len(Taken.toSealer) <= Len(node.toSealer)
      /\ StateInv(Taken) /\ (SoleCall(node) => SoleCall(Taken))
  BY <1>1, MessageTaken, Carried DEF SealingInv
<1>3. TypeOK' /\ SealingInv' /\ node' = Taken
  <2>1. "reset" \in Faults
    BY DEF Faults
  <2> QED BY <1>1, <1>2, <2>1, EventKeeps
<1> QED BY <1>1, <1>2, <1>3, NoneSent

\* A notification is repeated: it is no new range.
LEMMA RetryKeeps ==
  ASSUME TypeOK, SealingInv, NEW r \in node.retries, RetryNotification(r)
  PROVE  TypeOK' /\ SealingInv' /\ SealRules
<1> DEFINE u == [node EXCEPT !.retries = @ \ {r}]
           x == [op |-> "seal", start |-> r.start, end |-> r.end, retry |-> r.retry]
           q == Append(u.toSealer, x)
           t == [u EXCEPT !.toSealer = q]
<1>1. node \in State
  BY DEF TypeOK
<1>2. r \in SealRequest /\ r.retry \in 1 .. 3
  <2>1. r \in SealRequest /\ r.retry >= 1
    BY <1>1, Registers DEF SealingInv, StateInv, Repeated
  <2>2. r.retry \in 0 .. 3
    BY <2>1 DEF SealRequest
  <2> QED BY <2>1, <2>2
<1>3. /\ u \in State /\ u.toSealer = node.toSealer /\ u.retries = node.retries \ {r}
      /\ u.committed = node.committed /\ u.expected = node.expected
      /\ u.verifying = node.verifying /\ u.resetting = node.resetting /\ u.calls = node.calls
  <2>1. node.retries \ {r} \in SUBSET SealRequest
    BY <1>1, Registers
  <2> QED BY <1>1, <2>1 DEF State
<1> HIDE DEF u
<1>4. x \in SealRequest /\ x.retry = r.retry
  BY <1>2 DEF SealRequest
<1>5. Step(t)
  <2>1. asyncNotifySealProposal(u, r.start, r.end, r.retry) = t
    BY <1>2 DEF asyncNotifySealProposal
  <2> QED BY <2>1 DEF RetryNotification, u
<1> HIDE DEF x
<1>6. /\ q \in Seq(SealRequest \cup ResetRequest) /\ Len(q) = Len(node.toSealer) + 1
      /\ q[Len(node.toSealer) + 1] = x /\ Len(node.toSealer) \in Nat
  BY <1>3, <1>4, Registers
<1> HIDE DEF q
<1>7. /\ t \in State /\ t.toSealer = q /\ t.retries = u.retries
      /\ t.committed = u.committed /\ t.expected = u.expected
      /\ t.verifying = u.verifying /\ t.resetting = u.resetting /\ t.calls = u.calls
  BY <1>3, <1>6 DEF State
<1> HIDE DEF t
<1>8. StateInv(t) /\ (SoleCall(node) => SoleCall(t))
  <2>1. Window(t) /\ Repeated(t)
    BY <1>3, <1>7 DEF SealingInv, StateInv, Window, Repeated, highWaterMark
  <2>2. TryLeft(t) /\ Tracked(t) /\ (SoleCall(node) => SoleCall(t))
    BY <1>3, <1>7 DEF SealingInv, StateInv, TryLeft, Tracked, SoleCall
  <2> QED BY <2>1, <2>2 DEF StateInv
<1>9. TypeOK' /\ SealingInv' /\ node' = t
  BY <1>5, <1>7, <1>8, StepKeeps
<1>10. SentRanges = {}
  <2> SUFFICES ASSUME NEW y \in SentRanges PROVE FALSE
    OBVIOUS
  <2>1. PICK j \in Len(node.toSealer) + 1 .. Len(node'.toSealer) :
          y = node'.toSealer[j] /\ y.retry = 0
    BY SentIsNew
  <2>2. j = Len(node.toSealer) + 1
    BY <1>6, <1>7, <1>9
  <2>3. y = x
    BY <1>6, <1>7, <1>9, <2>1, <2>2
  <2> QED BY <1>2, <1>4, <2>1, <2>3
<1> QED BY <1>9, <1>10 DEF SealRules, OwnStep, OpenStep, MarkedStep

\* Steps whose messages follow from the operators above.
LEMMA SendingKeeps ==
  ASSUME TypeOK, SealingInv, NEW t \in State, Step(t), StateInv(t), SoleCall(node) => SoleCall(t),
         NEW low \in Int, Sends(node, t, low), low > t.committed \/ t.answers # node.answers
  PROVE  TypeOK' /\ SealingInv' /\ SealRules
<1>1. TypeOK' /\ SealingInv' /\ node' = t /\ (faults["mark"] = 0 => SoleCall(node'))
  BY StepKeeps
<1>2. node \in State /\ node' \in State
  BY <1>1 DEF TypeOK
<1> QED BY <1>1, <1>2, RightStep

\* The same for steps that count a fault.
LEMMA SendingEventKeeps ==
  ASSUME TypeOK, SealingInv, NEW t \in State, NEW k \in Faults, Event(k, t),
         StateInv(t), SoleCall(node) => SoleCall(t),
         NEW low \in Int, Sends(node, t, low), low > t.committed \/ t.answers # node.answers
  PROVE  TypeOK' /\ SealingInv' /\ SealRules
<1>1. TypeOK' /\ SealingInv' /\ node' = t /\ (faults["mark"] = 0 => SoleCall(node'))
  BY EventKeeps
<1>2. node \in State /\ node' \in State
  BY <1>1 DEF TypeOK
<1> QED BY <1>1, <1>2, RightStep

\* The callback of notifyResetSealing asks again, from the number of the reset on.
LEMMA AnsweredKeeps ==
  ASSUME TypeOK, SealingInv, ResetAnswered
  PROVE  TypeOK' /\ SealingInv' /\ SealRules
<1> DEFINE a == Head(node.answers)
           q == Tail(node.answers)
           u == [node EXCEPT !.answers = q]
           t == IF a.back # 0 /\ u.waitReseal <= a.at THEN reNotifySealer(u, a.back) ELSE u
<1>1. node \in State /\ node.answers \in Seq(ResetRequest) /\ node.answers # <<>>
  BY Registers DEF TypeOK, ResetAnswered
<1>2. /\ a \in ResetRequest /\ q \in Seq(ResetRequest) /\ q # node.answers
  <2>1. a \in ResetRequest /\ q \in Seq(ResetRequest) /\ Len(q) = Len(node.answers) - 1
        /\ Len(node.answers) \in Nat
    BY <1>1
  <2>2. Len(q) # Len(node.answers)
    BY <2>1
  <2> HIDE DEF q
  <2> QED BY <2>1, <2>2
<1>3. Step(t)
  BY DEF ResetAnswered
<1>4. a.back \in Int /\ a.back >= 0
  <2> HIDE DEF a
  <2> QED BY <1>2, Bounds DEF ResetRequest
<1> HIDE DEF a, q
<1>5. /\ u \in State /\ u.toSealer = node.toSealer /\ u.answers = q
      /\ u.committed = node.committed /\ u.expected = node.expected /\ u.retries = node.retries
      /\ u.verifying = node.verifying /\ u.resetting = node.resetting /\ u.calls = node.calls
  BY <1>1, <1>2 DEF State
<1> HIDE DEF u
<1>6. t \in State /\ SameRest(u, t) /\ Sends(u, t, a.back)
  <2>1. CASE a.back # 0 /\ u.waitReseal <= a.at
    <3>1. a.back \in Nat \ {0}
      BY <1>4, <2>1
    <3>2. t = reNotifySealer(u, a.back)
      BY <2>1
    <3> QED BY <1>5, <3>1, <3>2, Renotified
  <2>2. CASE ~(a.back # 0 /\ u.waitReseal <= a.at)
    <3>1. t = u
      BY <2>2
    <3> QED BY <1>5, <3>1, NoMore DEF SameRest
  <2> QED BY <2>1, <2>2
<1> HIDE DEF t
<1>7. Sends(node, t, a.back) /\ t.answers # node.answers
  BY <1>2, <1>5, <1>6 DEF Sends, SameRest
<1>8. /\ t.committed = node.committed /\ t.expected = node.expected /\ t.retries = node.retries
      /\ t.verifying = node.verifying /\ t.resetting = node.resetting /\ t.calls = node.calls
  BY <1>5, <1>6 DEF SameRest
<1>9. StateInv(t) /\ (SoleCall(node) => SoleCall(t))
  BY <1>8, Carried DEF SealingInv
<1> QED BY <1>3, <1>4, <1>6, <1>7, <1>9, SendingKeeps

\* A reset of the sealer, from a state with the marks and the ledger of the node.
LEMMA ResetKeepsState ==
  ASSUME SealingInv, NEW s \in State, NEW back \in Number, s.toSealer = node.toSealer,
         s.committed = node.committed, s.expected = node.expected, s.retries = node.retries,
         s.verifying = node.verifying, s.resetting = node.resetting, s.calls = node.calls
  PROVE  LET t == notifyResetSealing(s, back) IN
         /\ t \in State /\ StateInv(t) /\ (SoleCall(node) => SoleCall(t))
         /\ t.committed = node.committed /\ Sends(node, t, node.committed + 1)
<1> DEFINE t == notifyResetSealing(s, back)
<1>1. t \in State /\ SameRest(s, t) /\ \A low : Sends(s, t, low)
  BY ResetSent
<1> HIDE DEF t
<1>2. Sends(s, t, node.committed + 1)
  BY <1>1
<1>3. Sends(node, t, node.committed + 1)
  BY <1>2 DEF Sends
<1>4. /\ t.committed = node.committed /\ t.expected = node.expected /\ t.retries = node.retries
      /\ t.verifying = node.verifying /\ t.resetting = node.resetting /\ t.calls = node.calls
  BY <1>1 DEF SameRest
<1>5. StateInv(t) /\ (SoleCall(node) => SoleCall(t))
  BY <1>4, Carried DEF SealingInv
<1> QED BY <1>1, <1>3, <1>4, <1>5 DEF t

\* The sealer submits a block: it is taken, dropped, or the sealer is reset.
LEMMA SubmitKeeps ==
  ASSUME TypeOK, SealingInv, NEW i \in Index, SubmitProposal(i)
  PROVE  TypeOK' /\ SealingInv' /\ SealRules
<1> DEFINE m == [proposal |-> [index |-> i, txs |-> TRUE], view |-> node.view]
           u == [node EXCEPT !.submitted = {m}]
           t == onRecvProposal(node, i)
           k == node.committed + 1
<1>1. node \in State /\ todo \subseteq Number /\ faults \in [Faults -> Nat]
  BY DEF TypeOK
<1>2. k \in Number /\ 0 \in Number /\ k \in Int /\ k > node.committed
  BY <1>1, Numbers, Bounds
<1>3. t \in {node, u, notifyResetSealing(node, k), notifyResetSealing(node, 0)}
  BY DEF onRecvProposal
<1>4. node' = t /\ todo' = todo \ {i} /\ faults' = faults
  BY DEF SubmitProposal
<1> HIDE DEF t
<1>5. m \in Pending
  BY <1>1, Registers DEF Pending, Proposal
<1> HIDE DEF m
<1>6. /\ u \in State /\ u.toSealer = node.toSealer
      /\ u.committed = node.committed /\ u.expected = node.expected /\ u.retries = node.retries
      /\ u.verifying = node.verifying /\ u.resetting = node.resetting /\ u.calls = node.calls
  BY <1>1, <1>5 DEF State
<1> HIDE DEF u
<1>7. /\ t \in State /\ StateInv(t) /\ (SoleCall(node) => SoleCall(t))
      /\ t.committed = node.committed /\ Sends(node, t, k)
  <2>1. CASE t = node
    BY <1>1, <2>1, NoMore DEF SealingInv
  <2>2. CASE t = u
    <3>1. StateInv(t) /\ (SoleCall(node) => SoleCall(t))
      BY <1>6, <2>2, Carried DEF SealingInv
    <3> QED BY <1>1, <1>6, <2>2, <3>1, NoMore
  <2>3. CASE t = notifyResetSealing(node, k)
    BY <1>1, <1>2, <2>3, ResetKeepsState
  <2>4. CASE t = notifyResetSealing(node, 0)
    BY <1>1, <1>2, <2>4, ResetKeepsState
  <2> QED BY <1>3, <2>1, <2>2, <2>3, <2>4
<1> HIDE DEF k
<1>8. TypeOK' /\ SealingInv'
  <2>1. todo' \subseteq Number /\ faults' \in [Faults -> Nat] /\ faults' = faults
    BY <1>1, <1>4
  <2> QED BY <1>4, <1>7, <2>1, Keeps
<1>9. k > node'.committed /\ (faults["mark"] = 0 => SoleCall(node'))
  BY <1>2, <1>4, <1>7 DEF SealingInv
<1> QED BY <1>1, <1>2, <1>4, <1>7, <1>8, <1>9, RightStep

\* A submitted block is taken into the caches.
LEMMA HandleSubmittedKeeps ==
  ASSUME TypeOK, SealingInv, NEW m \in node.submitted, HandleSubmitted(m)
  PROVE  TypeOK' /\ SealingInv' /\ SealRules
<1> DEFINE u == [node EXCEPT !.submitted = {}]
           t == AddPrePrepare(u, m.proposal)
<1>1. node \in State
  BY DEF TypeOK
<1>2. m.proposal \in Proposal
  BY <1>1, Registers DEF Pending
<1>3. Step(t)
  BY DEF HandleSubmitted
<1>4. /\ u \in State /\ u.toSealer = node.toSealer
      /\ u.committed = node.committed /\ u.expected = node.expected /\ u.retries = node.retries
      /\ u.verifying = node.verifying /\ u.resetting = node.resetting /\ u.calls = node.calls
  BY <1>1 DEF State
<1> HIDE DEF u
<1>5. StateInv(u) /\ (SoleCall(node) => SoleCall(u))
  BY <1>4, Carried DEF SealingInv
<1>6. t \in State /\ SameUnmarked(u, t) /\ Marks(t) /\ (SoleCall(u) => SoleCall(t))
  BY <1>2, <1>4, <1>5, PrePrepareAdded DEF StateInv, Marks
<1> HIDE DEF t
<1>7. StateInv(t)
  BY <1>5, <1>6 DEF StateInv, Marks, SameUnmarked, Window, Repeated, highWaterMark
<1>8. TypeOK' /\ SealingInv' /\ node' = t
  BY <1>3, <1>5, <1>6, <1>7, StepKeeps
<1>9. node'.toSealer = node.toSealer /\ node' \in State
  BY <1>4, <1>6, <1>8 DEF SameUnmarked
<1>10. Len(node'.toSealer) <= Len(node.toSealer)
  BY <1>1, <1>9, Registers
<1> QED BY <1>1, <1>8, <1>9, <1>10, NoneSent

\* A submitted block that was overtaken resets the sealer.
LEMMA RefuseKeeps ==
  ASSUME TypeOK, SealingInv, NEW m \in node.submitted, RefuseSubmitted(m)
  PROVE  TypeOK' /\ SealingInv' /\ SealRules
<1> DEFINE u == [node EXCEPT !.submitted = {}]
           t == notifyResetSealing(u, 0)
<1>1. node \in State /\ todo \subseteq Number /\ faults \in [Faults -> Nat]
  BY DEF TypeOK
<1>2. node' = t /\ todo' = todo /\ faults' = [faults EXCEPT !["stale"] = 1]
  BY DEF RefuseSubmitted
<1>3. /\ u \in State /\ u.toSealer = node.toSealer
      /\ u.committed = node.committed /\ u.expected = node.expected /\ u.retries = node.retries
      /\ u.verifying = node.verifying /\ u.resetting = node.resetting /\ u.calls = node.calls
  BY <1>1 DEF State
<1> HIDE DEF u
<1>4. 0 \in Number
  BY Bounds
<1>5. /\ t \in State /\ StateInv(t) /\ (SoleCall(node) => SoleCall(t))
      /\ t.committed = node.committed /\ Sends(node, t, node.committed + 1)
  BY <1>3, <1>4, ResetKeepsState
<1> HIDE DEF t
<1>6. faults' \in [Faults -> Nat] /\ (faults'["mark"] = 0 => faults["mark"] = 0)
  <2>1. "stale" \in Faults /\ "mark" \in Faults /\ "mark" # "stale"
    BY DEF Faults
  <2> QED BY <1>1, <1>2, <2>1
<1>7. TypeOK' /\ SealingInv'
  BY <1>1, <1>2, <1>5, <1>6, Keeps
<1>8. /\ node.committed + 1 \in Int /\ node.committed + 1 > node'.committed
      /\ (faults["mark"] = 0 => SoleCall(node'))
  BY <1>1, <1>2, <1>5, Numbers DEF SealingInv
<1> QED BY <1>1, <1>2, <1>5, <1>7, <1>8, RightStep

-----------------------------------------------------------------------------
(* Marks *)

\* Two sequences, one after the other.
LEMMA Concatenated ==
  ASSUME NEW S, NEW a \in Seq(S), NEW b \in Seq(S)
  PROVE  /\ a \o b \in Seq(S) /\ Len(a \o b) = Len(a) + Len(b)
         /\ \A k \in 1 .. Len(a) + Len(b) :
              (a \o b)[k] = IF k <= Len(a) THEN a[k] ELSE b[k - Len(a)]
  OBVIOUS

\* RemoveAt takes one call out of a sequence.
LEMMA RemovedAt ==
  ASSUME NEW c \in Seq(MarkCall), NEW j \in DOMAIN c
  PROVE  /\ RemoveAt(c, j) \in Seq(MarkCall) /\ Len(RemoveAt(c, j)) = Len(c) - 1
         /\ \A k \in DOMAIN RemoveAt(c, j) : \E l \in DOMAIN c : RemoveAt(c, j)[k] = c[l]
<1> DEFINE a == SubSeq(c, 1, j - 1)
           b == SubSeq(c, j + 1, Len(c))
<1>1. Len(c) \in Nat /\ j \in 1 .. Len(c) /\ DOMAIN c = 1 .. Len(c)
  OBVIOUS
<1>2. /\ a \in Seq(MarkCall) /\ Len(a) = j - 1
      /\ \A k \in 1 .. j - 1 : a[k] = c[k]
  BY <1>1
<1>3. /\ b \in Seq(MarkCall) /\ Len(b) = Len(c) - j
      /\ \A k \in 1 .. Len(c) - j : b[k] = c[j + k]
  BY <1>1
<1> HIDE DEF a, b
<1>4. /\ a \o b \in Seq(MarkCall) /\ Len(a \o b) = Len(c) - 1
      /\ DOMAIN (a \o b) = 1 .. Len(c) - 1
      /\ \A k \in 1 .. Len(c) - 1 : (a \o b)[k] = IF k <= j - 1 THEN a[k] ELSE b[k - (j - 1)]
  <2>1. Len(a) + Len(b) = Len(c) - 1
    BY <1>1, <1>2, <1>3
  <2>2. /\ a \o b \in Seq(MarkCall) /\ Len(a \o b) = Len(c) - 1
        /\ \A k \in 1 .. Len(c) - 1 : (a \o b)[k] = IF k <= j - 1 THEN a[k] ELSE b[k - (j - 1)]
    <3>1. /\ a \o b \in Seq(MarkCall) /\ Len(a \o b) = Len(a) + Len(b)
          /\ \A k \in 1 .. Len(a) + Len(b) :
               (a \o b)[k] = IF k <= Len(a) THEN a[k] ELSE b[k - Len(a)]
      BY <1>2, <1>3, Concatenated, Zenon
    <3> QED BY <1>2, <2>1, <3>1, Zenon
  <2>3. DOMAIN (a \o b) = 1 .. Len(c) - 1
    BY <2>2
  <2> QED BY <2>2, <2>3
<1>5. ASSUME NEW k \in 1 .. Len(c) - 1
      PROVE  \E l \in DOMAIN c : (a \o b)[k] = c[l]
  <2>1. CASE k <= j - 1
    <3>1. k \in 1 .. j - 1 /\ k \in DOMAIN c
      BY <1>1, <2>1
    <3> QED BY <1>2, <1>4, <2>1, <3>1
  <2>2. CASE ~(k <= j - 1)
    <3>1. k - (j - 1) \in 1 .. Len(c) - j /\ k + 1 \in DOMAIN c /\ j + (k - (j - 1)) = k + 1
      BY <1>1, <2>2
    <3>2. (a \o b)[k] = c[k + 1]
      BY <1>3, <1>4, <2>2, <3>1
    <3> QED BY <3>1, <3>2
  <2> QED BY <2>1, <2>2
<1>6. RemoveAt(c, j) = a \o b
  BY DEF RemoveAt, a, b
<1> QED BY <1>4, <1>5, <1>6

\* The calls of one proposal change, and whether its hash is kept.
LEMMA CallsSet ==
  ASSUME NEW s \in State, StateInv(s), NEW p \in Proposal, NEW q \in Seq(MarkCall),
         NEW R \in SUBSET Proposal, R \ {p} = s.resetting \ {p},
         \A j \in DOMAIN q : q[j].stage = "failed" => q[j].retry < 3,
         p \in R /\ p.txs => \E j \in DOMAIN q : q[j].stage \in {"queued", "marking"}
  PROVE  LET t == [s EXCEPT !.resetting = R, !.calls[p] = q] IN
         /\ t \in State /\ StateInv(t) /\ t.toSealer = s.toSealer
         /\ SoleCall(s) /\ Len(q) <= 1 /\ (q # <<>> => p \in R) => SoleCall(t)
<1> DEFINE t == [s EXCEPT !.resetting = R, !.calls[p] = q]
           c == [s.calls EXCEPT ![p] = q]
<1>1. s.calls \in [Proposal -> Seq(MarkCall)] /\ s.resetting \in SUBSET Proposal
  BY Registers
<1>2. /\ c \in [Proposal -> Seq(MarkCall)] /\ c[p] = q
      /\ \A x \in Proposal : x # p => c[x] = s.calls[x]
  BY <1>1
<1>3. t = [s EXCEPT !.resetting = R, !.calls = c]
  BY DEF State
<1> HIDE DEF t, c
<1>4. /\ t \in State /\ t.calls = c /\ t.resetting = R /\ t.toSealer = s.toSealer
      /\ t.committed = s.committed /\ t.expected = s.expected /\ t.verifying = s.verifying
      /\ t.retries = s.retries
  BY <1>2, <1>3 DEF State
<1>5. Window(t) /\ Repeated(t)
  BY <1>4 DEF StateInv, Window, Repeated, highWaterMark
<1>6. TryLeft(t)
  <2> SUFFICES ASSUME NEW x \in Proposal, NEW j \in DOMAIN c[x], c[x][j].stage = "failed"
               PROVE  c[x][j].retry < 3
    BY <1>4 DEF TryLeft
  <2>1. CASE x = p
    BY <1>2, <2>1
  <2>2. CASE x # p
    BY <1>2, <2>2 DEF StateInv, TryLeft
  <2> QED BY <2>1, <2>2
<1>7. Tracked(t)
  <2> SUFFICES ASSUME NEW x \in R, x.txs
               PROVE  \E j \in DOMAIN c[x] : c[x][j].stage \in {"queued", "marking"}
    BY <1>4 DEF Tracked
  <2>1. CASE x = p
    BY <1>2, <2>1
  <2>2. CASE x # p
    <3>1. x \in s.resetting /\ c[x] = s.calls[x]
      BY <1>2, <2>2
    <3> QED BY <3>1 DEF StateInv, Tracked
  <2> QED BY <2>1, <2>2
<1>8. ASSUME SoleCall(s), Len(q) <= 1, q # <<>> => p \in R
      PROVE  SoleCall(t)
  <2> SUFFICES ASSUME NEW x \in Proposal
               PROVE  Len(c[x]) <= 1 /\ (c[x] # <<>> => x \in R)
    BY <1>4 DEF SoleCall
  <2>1. CASE x = p
    BY <1>2, <1>8, <2>1
  <2>2. CASE x # p
    <3>1. c[x] = s.calls[x] /\ (x \in s.resetting => x \in R)
      BY <1>2, <2>2
    <3> QED BY <1>8, <3>1 DEF SoleCall
  <2> QED BY <2>1, <2>2
<1> QED BY <1>4, <1>5, <1>6, <1>7, <1>8 DEF StateInv, t

\* The callback of the validator's pool.
LEMMA StartMarkingKeeps ==
  ASSUME TypeOK, SealingInv, NEW p \in Proposal, NEW j \in Calls(p), StartMarking(p, j)
  PROVE  TypeOK' /\ SealingInv' /\ SealRules
<1> DEFINE c == node.calls[p]
           q == IF p.txs THEN [c EXCEPT ![j].stage = "marking"] ELSE RemoveAt(c, j)
           R == node.resetting
           t == [node EXCEPT !.resetting = R, !.calls[p] = q]
<1>1. /\ node \in State /\ c \in Seq(MarkCall) /\ j \in DOMAIN c /\ c[j] \in MarkCall
      /\ R \in SUBSET Proposal /\ DOMAIN c = 1 .. Len(c) /\ c[j].stage = "queued"
  BY Registers DEF TypeOK, Calls, StartMarking
<1>2. Step(t)
  <2>1. CASE p.txs
    <3>1. [node EXCEPT !.calls[p][j].stage = "marking"] = t
      BY <1>1, <2>1 DEF State
    <3> QED BY <2>1, <3>1 DEF StartMarking
  <2>2. CASE ~p.txs
    <3>1. CallEnds(node, p, j) = t
      BY <1>1, <2>2 DEF State, CallEnds
    <3> QED BY <2>2, <3>1 DEF StartMarking
  <2> QED BY <2>1, <2>2
<1>3. \A k \in DOMAIN c : c[k].stage = "failed" => c[k].retry < 3
  BY DEF SealingInv, StateInv, TryLeft
<1>4. /\ q \in Seq(MarkCall) /\ Len(q) <= Len(c)
      /\ \A k \in DOMAIN q : q[k].stage = "failed" => q[k].retry < 3
      /\ p \in R /\ p.txs => \E k \in DOMAIN q : q[k].stage \in {"queued", "marking"}
  <2>1. CASE p.txs
    <3>1. q = [c EXCEPT ![j].stage = "marking"]
      BY <2>1
    <3> HIDE DEF c, q
    <3>2. [c[j] EXCEPT !.stage = "marking"] \in MarkCall
      BY <1>1 DEF MarkCall
    <3>3. /\ q \in Seq(MarkCall) /\ Len(q) = Len(c) /\ DOMAIN q = DOMAIN c
          /\ \A k \in DOMAIN c : k # j => q[k] = c[k]
          /\ q[j] = [c[j] EXCEPT !.stage = "marking"]
      BY <1>1, <3>1, <3>2
    <3>4. q[j].stage = "marking"
      BY <1>1, <3>3 DEF MarkCall
    <3>5. Len(c) \in Nat
      BY <1>1
    <3>6. \A k \in DOMAIN q : q[k].stage = "failed" => q[k].retry < 3
      BY <1>3, <3>3, <3>4
    <3>7. \E k \in DOMAIN q : q[k].stage \in {"queued", "marking"}
      BY <1>1, <3>3, <3>4
    <3> QED BY <3>3, <3>5, <3>6, <3>7
  <2>2. CASE ~p.txs
    <3>1. q = RemoveAt(c, j)
      BY <2>2
    <3> HIDE DEF c, q
    <3>2. Len(c) \in Nat
      BY <1>1
    <3>3. /\ q \in Seq(MarkCall) /\ Len(q) = Len(c) - 1
          /\ \A k \in DOMAIN q : \E l \in DOMAIN c : q[k] = c[l]
      BY <1>1, <3>1, RemovedAt
    <3>4. \A k \in DOMAIN q : q[k].stage = "failed" => q[k].retry < 3
      BY <1>3, <3>3
    <3> QED BY <2>2, <3>2, <3>3, <3>4
  <2> QED BY <2>1, <2>2
<1> HIDE DEF q
<1>5. /\ t \in State /\ StateInv(t) /\ t.toSealer = node.toSealer
      /\ SoleCall(node) /\ Len(q) <= 1 /\ (q # <<>> => p \in R) => SoleCall(t)
  BY <1>1, <1>4, CallsSet DEF SealingInv
<1>6. ASSUME SoleCall(node) PROVE Len(q) <= 1 /\ (q # <<>> => p \in R)
  <2>1. Len(c) <= 1 /\ (c # <<>> => p \in R)
    BY <1>6 DEF SoleCall
  <2>2. Len(q) \in Nat /\ Len(c) \in Nat
    BY <1>1, <1>4
  <2>3. c # <<>>
    BY <1>1
  <2> QED BY <1>4, <2>1, <2>2, <2>3
<1> HIDE DEF t
<1>7. TypeOK' /\ SealingInv' /\ node' = t
  BY <1>2, <1>5, <1>6, StepKeeps
<1>8. node' \in State /\ Len(node'.toSealer) <= Len(node.toSealer)
  BY <1>1, <1>5, <1>7, Registers
<1> QED BY <1>1, <1>7, <1>8, NoneSent

\* The marking ends, and the hash is erased.
LEMMA EraseState ==
  ASSUME TypeOK, SealingInv, NEW p \in Proposal, NEW j \in Calls(p)
  PROVE  LET t == CallEnds(Erased(p), p, j) IN
         /\ t \in State /\ StateInv(t) /\ t.toSealer = node.toSealer
         /\ SoleCall(node) => SoleCall(t)
<1> DEFINE c == node.calls[p]
           q == RemoveAt(c, j)
           R == node.resetting \ {p}
           t == [node EXCEPT !.resetting = R, !.calls[p] = q]
<1>1. /\ node \in State /\ c \in Seq(MarkCall) /\ j \in DOMAIN c
      /\ R \in SUBSET Proposal
  BY Registers DEF TypeOK, Calls
<1>2. CallEnds(Erased(p), p, j) = t
  BY <1>1 DEF State, CallEnds, Erased
<1>3. \A k \in DOMAIN c : c[k].stage = "failed" => c[k].retry < 3
  BY DEF SealingInv, StateInv, TryLeft
<1>4. /\ q \in Seq(MarkCall) /\ Len(q) = Len(c) - 1
      /\ \A k \in DOMAIN q : \E l \in DOMAIN c : q[k] = c[l]
  BY <1>1, RemovedAt
<1> HIDE DEF q
<1>5. \A k \in DOMAIN q : q[k].stage = "failed" => q[k].retry < 3
  BY <1>3, <1>4
<1>6. /\ t \in State /\ StateInv(t) /\ t.toSealer = node.toSealer
      /\ SoleCall(node) /\ Len(q) <= 1 /\ (q # <<>> => p \in R) => SoleCall(t)
  BY <1>1, <1>4, <1>5, CallsSet DEF SealingInv
<1>7. ASSUME SoleCall(node) PROVE Len(q) <= 1 /\ q = <<>>
  <2>1. Len(c) <= 1 /\ Len(c) \in Nat /\ Len(q) \in Nat
    BY <1>1, <1>4, <1>7 DEF SoleCall
  <2>2. Len(q) = Len(c) - 1 /\ q \in Seq(MarkCall)
    BY <1>4, Zenon
  <2> HIDE DEF c
  <2>3. Len(q) = 0
    BY <2>1, <2>2
  <2>4. q = <<>>
    BY <2>2, <2>3
  <2> QED BY <2>3, <2>4
<1> HIDE DEF t
<1> QED BY <1>2, <1>6, <1>7

\* asyncMarkTxs succeeds.
LEMMA MarkSucceedsKeeps ==
  ASSUME TypeOK, SealingInv, NEW p \in Proposal, NEW j \in Calls(p), MarkSucceeds(p, j)
  PROVE  TypeOK' /\ SealingInv' /\ SealRules
<1> DEFINE t == CallEnds(Erased(p), p, j)
<1>1. node \in State /\ Step(t)
  BY DEF TypeOK, MarkSucceeds
<1>2. /\ t \in State /\ StateInv(t) /\ t.toSealer = node.toSealer
      /\ SoleCall(node) => SoleCall(t)
  BY EraseState
<1> HIDE DEF t
<1>3. TypeOK' /\ SealingInv' /\ node' = t
  BY <1>1, <1>2, StepKeeps
<1>4. node' \in State /\ Len(node'.toSealer) <= Len(node.toSealer)
  BY <1>1, <1>2, <1>3, Registers
<1> QED BY <1>1, <1>3, <1>4, NoneSent

\* One call gets another value.
LEMMA CallChanged ==
  ASSUME NEW c \in Seq(MarkCall), NEW j \in DOMAIN c, NEW x \in MarkCall
  PROVE  LET q == [c EXCEPT ![j] = x] IN
         /\ q \in Seq(MarkCall) /\ Len(q) = Len(c) /\ DOMAIN q = DOMAIN c
         /\ q[j] = x /\ \A k \in DOMAIN c : k # j => q[k] = c[k]
  OBVIOUS

\* asyncMarkTxs fails: the hash is erased, the call waits or is given up.
LEMMA MarkFailsKeeps ==
  ASSUME TypeOK, SealingInv, NEW p \in Proposal, NEW j \in Calls(p), MarkFails(p, j)
  PROVE  TypeOK' /\ SealingInv' /\ SealRules
<1> DEFINE c == node.calls[p]
           x == [c[j] EXCEPT !.stage = "failed"]
           q == [c EXCEPT ![j] = x]
           R == node.resetting \ {p}
           u == [node EXCEPT !.resetting = R, !.calls[p] = q]
           t == IF c[j].retry = 3 THEN CallEnds(Erased(p), p, j) ELSE u
<1>1. /\ node \in State /\ c \in Seq(MarkCall) /\ j \in DOMAIN c /\ c[j] \in MarkCall
      /\ R \in SUBSET Proposal
  BY Registers DEF TypeOK, Calls
<1>2. Event("mark", t)
  <2>1. [Erased(p) EXCEPT !.calls[p][j].stage = "failed"] = u
    BY <1>1 DEF State, Erased
  <2> QED BY <2>1 DEF MarkFails
<1>3. /\ t \in State /\ StateInv(t) /\ t.toSealer = node.toSealer
  <2>1. CASE c[j].retry = 3
    BY <2>1, EraseState
  <2>2. CASE c[j].retry # 3
    <3>1. t = u
      BY <2>2
    <3>2. x \in MarkCall /\ x.retry < 3
      BY <1>1, <2>2 DEF MarkCall
    <3>3. \A k \in DOMAIN c : c[k].stage = "failed" => c[k].retry < 3
      BY DEF SealingInv, StateInv, TryLeft
    <3> HIDE DEF x
    <3>4. /\ q \in Seq(MarkCall) /\ DOMAIN q = DOMAIN c
          /\ q[j] = x /\ \A k \in DOMAIN c : k # j => q[k] = c[k]
      BY <1>1, <3>2, CallChanged
    <3> HIDE DEF q
    <3>5. \A k \in DOMAIN q : q[k].stage = "failed" => q[k].retry < 3
      BY <3>2, <3>3, <3>4
    <3>6. u \in State /\ StateInv(u) /\ u.toSealer = node.toSealer
      <4>1. R \ {p} = node.resetting \ {p} /\ p \notin R
        OBVIOUS
      <4>2. StateInv(node) /\ R \in SUBSET Proposal /\ node \in State /\ q \in Seq(MarkCall)
        BY <1>1, <3>4 DEF SealingInv
      <4>3. p \in R /\ p.txs => \E k \in DOMAIN q : q[k].stage \in {"queued", "marking"}
        BY <4>1
      <4> HIDE DEF R
      <4>4. /\ u \in State /\ StateInv(u) /\ u.toSealer = node.toSealer
            /\ SoleCall(node) /\ Len(q) <= 1 /\ (q # <<>> => p \in R) => SoleCall(u)
        BY <3>5, <4>1, <4>2, <4>3, CallsSet
      <4> QED BY <4>4
    <3> QED BY <3>1, <3>6
  <2> QED BY <2>1, <2>2
<1> HIDE DEF t
<1>4. node' = t /\ todo' = todo /\ Fault("mark") /\ "mark" \in Faults
  BY <1>2 DEF Event, Faults
<1>5. faults \in [Faults -> Nat] /\ todo \subseteq Number
  BY DEF TypeOK
<1>6. faults' \in [Faults -> Nat] /\ faults'["mark"] # 0
  BY <1>4, <1>5, FaultCounted
<1>7. TypeOK' /\ SealingInv'
  BY <1>3, <1>4, <1>5, <1>6 DEF TypeOK, SealingInv
<1>8. node' \in State /\ Len(node'.toSealer) <= Len(node.toSealer)
  BY <1>1, <1>3, <1>4, Registers
<1> QED BY <1>1, <1>7, <1>8, NoneSent

\* The marking is repeated, and the hash inserted again.
LEMMA RepeatKeeps ==
  ASSUME TypeOK, SealingInv, NEW p \in Proposal, NEW j \in Calls(p), RepeatMarking(p, j)
  PROVE  TypeOK' /\ SealingInv' /\ SealRules
<1> DEFINE c == node.calls[p]
           x == [stage |-> "marking", retry |-> c[j].retry + 1]
           q == [c EXCEPT ![j] = x]
           R == node.resetting \cup {p}
           t == [node EXCEPT !.resetting = R, !.calls[p] = q]
<1>1. /\ node \in State /\ c \in Seq(MarkCall) /\ j \in DOMAIN c /\ c[j] \in MarkCall
      /\ R \in SUBSET Proposal /\ c[j].stage = "failed"
  BY Registers DEF TypeOK, Calls, RepeatMarking
<1>2. Step(t)
  <2>1. [node EXCEPT !.resetting = @ \cup {p},
                     !.calls[p][j] = [stage |-> "marking", retry |-> @.retry + 1]] = t
    BY <1>1 DEF State
  <2> QED BY <2>1 DEF RepeatMarking
<1>3. \A k \in DOMAIN c : c[k].stage = "failed" => c[k].retry < 3
  BY DEF SealingInv, StateInv, TryLeft
<1>4. x \in MarkCall /\ x.stage = "marking"
  <2>1. c[j].retry \in 0 .. 3 /\ c[j].retry < 3
    BY <1>1, <1>3 DEF MarkCall
  <2>2. c[j].retry + 1 \in 0 .. 3
    BY <2>1
  <2> QED BY <2>2 DEF MarkCall
<1> HIDE DEF x
<1>5. /\ q \in Seq(MarkCall) /\ Len(q) = Len(c) /\ DOMAIN q = DOMAIN c
      /\ q[j] = x /\ \A k \in DOMAIN c : k # j => q[k] = c[k]
  BY <1>1, <1>4, CallChanged
<1> HIDE DEF q
<1>6. \A k \in DOMAIN q : q[k].stage = "failed" => q[k].retry < 3
  BY <1>3, <1>4, <1>5
<1>7. \E k \in DOMAIN q : q[k].stage \in {"queued", "marking"}
  BY <1>1, <1>4, <1>5
<1>8. /\ t \in State /\ StateInv(t) /\ t.toSealer = node.toSealer
      /\ SoleCall(node) /\ Len(q) <= 1 /\ (q # <<>> => p \in R) => SoleCall(t)
  BY <1>1, <1>5, <1>6, <1>7, CallsSet DEF SealingInv
<1>9. SoleCall(node) => Len(q) <= 1
  <2>1. SoleCall(node) => Len(c) <= 1
    BY DEF SoleCall
  <2> HIDE DEF c
  <2> QED BY <1>5, <2>1
<1>10. p \in R
  OBVIOUS
<1> HIDE DEF t
<1>11. TypeOK' /\ SealingInv' /\ node' = t
  BY <1>2, <1>8, <1>9, <1>10, StepKeeps
<1>12. node' \in State /\ Len(node'.toSealer) <= Len(node.toSealer)
  BY <1>1, <1>8, <1>11, Registers
<1> QED BY <1>1, <1>11, <1>12, NoneSent

-----------------------------------------------------------------------------
(* Verification *)

\* A step that changes none of the marks and sends nothing.
LEMMA SilentStep ==
  ASSUME TypeOK, SealingInv, NEW t \in State, Step(t), StateInv(t), SoleCall(node) => SoleCall(t),
         t.toSealer = node.toSealer
  PROVE  TypeOK' /\ SealingInv' /\ SealRules
<1>1. node \in State
  BY DEF TypeOK
<1>2. TypeOK' /\ SealingInv' /\ node' = t
  BY StepKeeps
<1>3. node' \in State /\ Len(node'.toSealer) <= Len(node.toSealer)
  BY <1>1, <1>2, Registers
<1> QED BY <1>1, <1>2, <1>3, NoneSent

\* The same for a step that counts a fault.
LEMMA SilentEvent ==
  ASSUME TypeOK, SealingInv, NEW t \in State, NEW k \in Faults, Event(k, t), StateInv(t),
         SoleCall(node) => SoleCall(t), t.toSealer = node.toSealer
  PROVE  TypeOK' /\ SealingInv' /\ SealRules
<1>1. node \in State
  BY DEF TypeOK
<1>2. TypeOK' /\ SealingInv' /\ node' = t
  BY EventKeeps
<1>3. node' \in State /\ Len(node'.toSealer) <= Len(node.toSealer)
  BY <1>1, <1>2, Registers
<1> QED BY <1>1, <1>2, <1>3, NoneSent

\* What checkPrePrepareMsg lets through is open.
LEMMA CheckedIsOpen ==
  ASSUME NEW s \in State, Window(s), NEW m \in Pending, checkPrePrepareMsg(s, m)
  PROVE  m.proposal.index > s.committed /\ m.proposal.index < highWaterMark(s)
<1>1. m.proposal.index \in Int
  BY Bounds DEF Pending, Proposal
<1>2. s.expected <= m.proposal.index /\ m.proposal.index < highWaterMark(s)
  BY DEF checkPrePrepareMsg
<1> QED BY <1>1, <1>2, Numbers DEF Window

\* A pre-prepare of another leader is handed to the validator.
LEMMA PrePrepareKeeps ==
  ASSUME TypeOK, SealingInv, NEW i \in Index, HandlePrePrepare(i)
  PROVE  TypeOK' /\ SealingInv' /\ SealRules
<1> DEFINE m == [proposal |-> [index |-> i, txs |-> TRUE], view |-> node.view]
           t == [node EXCEPT !.verifying = @ \cup {m}]
<1>1. node \in State /\ Window(node)
  BY DEF TypeOK, SealingInv, StateInv
<1>2. m \in Pending
  BY <1>1, Registers DEF Pending, Proposal
<1>3. Step(t) /\ checkPrePrepareMsg(node, m)
  BY DEF HandlePrePrepare
<1> HIDE DEF m
<1>4. m.proposal.index > node.committed /\ m.proposal.index < highWaterMark(node)
  BY <1>1, <1>2, <1>3, CheckedIsOpen
<1>5. node.verifying \cup {m} \in SUBSET Pending
  BY <1>1, <1>2, Registers
<1>6. /\ t \in State /\ t.toSealer = node.toSealer /\ t.verifying = node.verifying \cup {m}
      /\ t.committed = node.committed /\ t.expected = node.expected /\ t.retries = node.retries
      /\ t.resetting = node.resetting /\ t.calls = node.calls
  BY <1>1, <1>5 DEF State
<1> HIDE DEF t
<1>7. Window(t)
  BY <1>1, <1>4, <1>6 DEF Window, highWaterMark
<1>8. StateInv(t) /\ (SoleCall(node) => SoleCall(t))
  BY <1>6, <1>7 DEF SealingInv, StateInv, Repeated, TryLeft, Tracked, SoleCall
<1> QED BY <1>3, <1>6, <1>8, SilentStep

\* The validator has answered: the hash is inserted.
LEMMA VerifiedState ==
  ASSUME TypeOK, SealingInv, NEW m \in node.verifying
  PROVE  /\ m \in Pending /\ m.proposal \in Proposal
         /\ Verified(m) \in State /\ StateInv(Verified(m))
         /\ SoleCall(node) => SoleCall(Verified(m))
         /\ Verified(m).toSealer = node.toSealer /\ Verified(m).committed = node.committed
         /\ Verified(m).sealEnd = node.sealEnd /\ Verified(m).answers = node.answers
<1> DEFINE u == [node EXCEPT !.verifying = @ \ {m}]
           t == asyncResetTxsFlag(u, m.proposal)
<1>1. node \in State /\ node.verifying \in SUBSET Pending
  BY Registers DEF TypeOK
<1>2. m \in Pending /\ m.proposal \in Proposal
  BY <1>1 DEF Pending
<1>3. node.verifying \ {m} \in SUBSET Pending
  BY <1>1
<1>4. /\ u \in State /\ u.toSealer = node.toSealer /\ u.verifying = node.verifying \ {m}
      /\ u.committed = node.committed /\ u.expected = node.expected /\ u.retries = node.retries
      /\ u.resetting = node.resetting /\ u.calls = node.calls /\ u.sealEnd = node.sealEnd
      /\ u.answers = node.answers
  BY <1>1, <1>3 DEF State
<1>5. Verified(m) = t
  BY DEF Verified
<1> HIDE DEF u
<1>6. Window(u)
  BY <1>4 DEF SealingInv, StateInv, Window, highWaterMark
<1>7. StateInv(u) /\ (SoleCall(node) => SoleCall(u))
  BY <1>4, <1>6 DEF SealingInv, StateInv, Repeated, TryLeft, Tracked, SoleCall
<1>8. t \in State /\ SameUnmarked(u, t) /\ Marks(t) /\ (SoleCall(u) => SoleCall(t))
  BY <1>2, <1>4, <1>7, FlagSet DEF StateInv, Marks
<1> HIDE DEF t
<1>9. StateInv(t)
  BY <1>7, <1>8 DEF StateInv, Marks, SameUnmarked, Window, Repeated, highWaterMark
<1>10. /\ t.toSealer = node.toSealer /\ t.committed = node.committed
       /\ t.sealEnd = node.sealEnd /\ t.answers = node.answers
  BY <1>4, <1>8 DEF SameUnmarked
<1> QED BY <1>2, <1>5, <1>7, <1>8, <1>9, <1>10

\* A verified proposal is taken into the caches, if it still fits.
LEMMA VerifySucceedsKeeps ==
  ASSUME TypeOK, SealingInv, NEW m \in node.verifying, VerifySucceeds(m)
  PROVE  TypeOK' /\ SealingInv' /\ SealRules
<1> DEFINE u == Verified(m)
           a == AddPrePrepare(u, m.proposal)
           t == IF checkPrePrepareMsg(u, m) THEN a ELSE u
<1>1. /\ m.proposal \in Proposal /\ u \in State /\ StateInv(u) /\ u.toSealer = node.toSealer
      /\ SoleCall(node) => SoleCall(u)
  BY VerifiedState
<1>2. Step(t)
  BY DEF VerifySucceeds
<1> HIDE DEF u
<1>3. a \in State /\ SameUnmarked(u, a) /\ Marks(a) /\ (SoleCall(u) => SoleCall(a))
  BY <1>1, PrePrepareAdded DEF StateInv, Marks
<1>4. t \in {u, a}
  OBVIOUS
<1> HIDE DEF a, t
<1>5. StateInv(a) /\ a.toSealer = node.toSealer
  BY <1>1, <1>3 DEF StateInv, Marks, SameUnmarked, Window, Repeated, highWaterMark
<1>6. t \in State /\ StateInv(t) /\ t.toSealer = node.toSealer /\ (SoleCall(node) => SoleCall(t))
  BY <1>1, <1>3, <1>4, <1>5
<1> QED BY <1>2, <1>6, SilentStep

\* A verification fails: the leader's sealer is asked for this number again.
LEMMA VerifyFailsKeeps ==
  ASSUME TypeOK, SealingInv, NEW m \in node.verifying, VerifyFails(m)
  PROVE  TypeOK' /\ SealingInv' /\ SealRules
<1> DEFINE u == Verified(m)
           i == m.proposal.index
           t == EnforceSealer(u, i)
           r == [op |-> "seal", start |-> i, end |-> i, retry |-> 0]
           e == Larger(u.sealEnd, i)
           q == Append(u.toSealer, r)
           n == [u EXCEPT !.toSealer = q, !.sealEnd = e]
           own == LeaderIndex(i, u.view) = Me /\ canHandleNewProposal(u)
<1>1. /\ m \in Pending /\ u \in State /\ StateInv(u) /\ u.toSealer = node.toSealer
      /\ u.committed = node.committed /\ (SoleCall(node) => SoleCall(u))
  BY VerifiedState
<1>2. node \in State /\ \E k \in {"verify", "ahead"} : Event(k, t)
  BY DEF TypeOK, VerifyFails
<1>3. i > u.committed /\ i < highWaterMark(u)
  BY <1>1 DEF SealingInv, StateInv, Window, highWaterMark
<1> HIDE DEF u
<1>4. i \in Int /\ i >= 1 /\ i <= MaxIndex /\ i \in Number
  BY <1>1, Bounds DEF Pending, Proposal
<1>5. t = IF own THEN n ELSE u
  <2>1. asyncNotifySealProposal(u, i, i, 0) = [u EXCEPT !.toSealer = q]
    BY DEF asyncNotifySealProposal
  <2> DEFINE z == [asyncNotifySealProposal(u, i, i, 0) EXCEPT !.sealEnd = Larger(@, i)]
  <2>2. z = n
    BY <1>1, <2>1 DEF State
  <2>3. t = IF own THEN z ELSE u
    BY DEF EnforceSealer
  <2> HIDE DEF z, n
  <2> QED BY <2>2, <2>3
<1> HIDE DEF i
<1>6. r \in SealRequest /\ r.start = i /\ r.end = i
  BY <1>4 DEF SealRequest
<1> HIDE DEF r
<1>7. /\ q \in Seq(SealRequest \cup ResetRequest) /\ Len(node.toSealer) \in Nat
      /\ Len(q) = Len(node.toSealer) + 1 /\ q[Len(node.toSealer) + 1] = r
  BY <1>1, <1>6, Registers
<1>8. e \in Number
  BY <1>1, <1>4, Numbers, Bounds DEF Larger
<1> HIDE DEF q, e
<1>9. /\ n \in State /\ n.toSealer = q /\ SameRest(u, n)
  BY <1>1, <1>7, <1>8 DEF State, SameRest
<1> HIDE DEF n, t
<1>10. t \in State /\ SameRest(u, t)
  BY <1>1, <1>5, <1>9 DEF SameRest
<1>11. StateInv(t) /\ (SoleCall(node) => SoleCall(t))
  <2>1. /\ t.committed = u.committed /\ t.expected = u.expected /\ t.verifying = u.verifying
        /\ t.retries = u.retries /\ t.resetting = u.resetting /\ t.calls = u.calls
    BY <1>10 DEF SameRest
  <2> QED BY <1>1, <2>1, Carried
<1>12. /\ TypeOK' /\ SealingInv' /\ node' = t
       /\ \E k \in {"verify", "ahead"} : faults'[k] # faults[k]
  <2>1. PICK k \in {"verify", "ahead"} : Event(k, t)
    BY <1>2
  <2>2. k \in Faults
    BY DEF Faults
  <2> QED BY <1>10, <1>11, <2>1, <2>2, EventKeeps
<1>13. ASSUME NEW x \in SentRanges
       PROVE  x = r /\ own
  <2>1. PICK j \in Len(node.toSealer) + 1 .. Len(t.toSealer) : x = t.toSealer[j]
    BY <1>12, SentIsNew
  <2>2. CASE ~own
    <3>1. t.toSealer = node.toSealer
      BY <1>1, <1>5, <2>2
    <3> QED BY <1>7, <2>1, <3>1
  <2>3. CASE own
    <3>1. t.toSealer = q
      BY <1>5, <1>9, <2>3
    <3>2. j = Len(node.toSealer) + 1
      BY <1>7, <2>1, <3>1
    <3> QED BY <1>7, <2>1, <2>3, <3>1, <3>2
  <2> QED BY <2>2, <2>3
<1>14. t.view = u.view /\ highWaterMark(t) = highWaterMark(u) /\ t.committed = u.committed
  BY <1>10 DEF SameRest, highWaterMark
<1>15. OwnStep
  <2> SUFFICES ASSUME NEW x \in SentRanges, NEW y \in x.start .. x.end
               PROVE  LeaderIndex(y, t.view) = Me /\ y < highWaterMark(t)
    BY <1>12 DEF OwnStep
  <2>1. y = i
    BY <1>4, <1>6, <1>13
  <2> QED BY <1>3, <1>13, <1>14, <2>1
<1>16. OpenStep
  BY <1>3, <1>6, <1>12, <1>13, <1>14 DEF OpenStep
<1>17. MarkedStep
  BY <1>12 DEF MarkedStep
<1> QED BY <1>12, <1>15, <1>16, <1>17 DEF SealRules

-----------------------------------------------------------------------------
(* Execution, commits and synchronised blocks *)

\* Sending is all that a notification does to the invariant.
LEMMA Notifying ==
  ASSUME SealingInv, NEW t, SameRest(node, t)
  PROVE  StateInv(t) /\ (SoleCall(node) => SoleCall(t))
<1>1. /\ t.committed = node.committed /\ t.expected = node.expected /\ t.retries = node.retries
      /\ t.verifying = node.verifying /\ t.resetting = node.resetting /\ t.calls = node.calls
  BY DEF SameRest
<1> QED BY <1>1, Carried DEF SealingInv

\* A proposal starts to be executed, and the next numbers are asked for.
LEMMA ExecuteKeeps ==
  ASSUME TypeOK, SealingInv, NEW p \in node.accepted, Execute(p)
  PROVE  TypeOK' /\ SealingInv' /\ SealRules
<1> DEFINE w == [node EXCEPT !.waitSeal = Larger(@, p.index)]
           n == notifySealer(node, p.index + 1)
           u == notifyToSealNextBlock(node, p)
           t == [u EXCEPT !.executing = @ \cup {p.index}]
           low == node.committed + 1
<1>1. node \in State /\ p \in Proposal /\ p.index = node.expected
  BY Registers DEF TypeOK, Execute
<1>2. p.index \in Index /\ p.index \in Int /\ p.index >= 1 /\ p.index <= MaxIndex
  BY <1>1, Bounds DEF Proposal
<1>3. low \in Int /\ low > node.committed /\ low <= p.index + 1
  BY <1>1, Numbers DEF SealingInv, StateInv, Window
<1>4. u \in {w, n, node}
  BY DEF notifyToSealNextBlock
<1>5. Step(t)
  BY DEF Execute
<1> HIDE DEF u
<1>6. /\ w \in State /\ w.toSealer = node.toSealer /\ w.committed = node.committed
      /\ w.expected = node.expected /\ w.retries = node.retries /\ w.verifying = node.verifying
      /\ w.resetting = node.resetting /\ w.calls = node.calls /\ w.view = node.view
  <2>1. Larger(node.waitSeal, p.index) \in 0 .. MaxIndex
    BY <1>1, <1>2, Registers DEF Larger
  <2> QED BY <1>1, <2>1 DEF State
<1>7. n \in State /\ SameRest(node, n) /\ Sends(node, n, p.index + 1)
  <2>1. p.index + 1 \in Nat \ {0}
    BY <1>2
  <2> QED BY <1>1, <2>1, Notified
<1>8. Sends(node, n, low)
  BY <1>1, <1>2, <1>3, <1>7, SendsLower
<1> HIDE DEF n, w, low
<1>9. /\ u \in State /\ Sends(node, u, low) /\ u.committed = node.committed
      /\ u.expected = node.expected /\ u.retries = node.retries /\ u.verifying = node.verifying
      /\ u.resetting = node.resetting /\ u.calls = node.calls
  <2>1. CASE u = w
    BY <1>1, <1>6, <2>1, NoMore
  <2>2. CASE u = n
    BY <1>7, <1>8, <2>2 DEF SameRest
  <2>3. CASE u = node
    BY <1>1, <2>3, NoMore
  <2> QED BY <1>4, <2>1, <2>2, <2>3
<1>10. u.executing \cup {p.index} \in SUBSET Index
  BY <1>2, <1>9, Registers
<1>11. /\ t \in State /\ t.toSealer = u.toSealer /\ t.committed = u.committed
       /\ t.expected = u.expected /\ t.retries = u.retries /\ t.verifying = u.verifying
       /\ t.resetting = u.resetting /\ t.calls = u.calls /\ t.view = u.view
  BY <1>9, <1>10 DEF State
<1> HIDE DEF t
<1>12. Sends(node, t, low)
  BY <1>9, <1>11 DEF Sends, Right, highWaterMark
<1>13. StateInv(t) /\ (SoleCall(node) => SoleCall(t))
  <2>1. /\ t.committed = node.committed /\ t.expected = node.expected /\ t.retries = node.retries
        /\ t.verifying = node.verifying /\ t.resetting = node.resetting /\ t.calls = node.calls
    BY <1>9, <1>11
  <2> QED BY <2>1, Carried DEF SealingInv
<1>14. low > t.committed
  BY <1>3, <1>9, <1>11
<1> QED BY <1>3, <1>5, <1>11, <1>12, <1>13, <1>14, SendingKeeps

\* An execution ends, and expectedCheckPoint follows.
LEMMA ExecuteFinishedKeeps ==
  ASSUME TypeOK, SealingInv, NEW i \in node.executing, ExecuteFinished(i)
  PROVE  TypeOK' /\ SealingInv' /\ SealRules
<1> DEFINE e == IF i > node.committed THEN Larger(node.committed + 1, i + 1) ELSE node.expected
           E == node.executing \ {i}
           t == [node EXCEPT !.executing = E, !.expected = e]
<1>1. node \in State /\ i \in Index /\ E \in SUBSET Index
  BY Registers DEF TypeOK
<1>2. Step(t)
  BY <1>1 DEF ExecuteFinished, State
<1>3. e \in 1 .. MaxIndex + 1 /\ e > node.committed
  BY <1>1, Numbers, Bounds DEF Larger, SealingInv, StateInv, Window
<1> HIDE DEF e, E
<1>4. /\ t \in State /\ t.toSealer = node.toSealer /\ t.expected = e
      /\ t.committed = node.committed /\ t.retries = node.retries /\ t.verifying = node.verifying
      /\ t.resetting = node.resetting /\ t.calls = node.calls
  BY <1>1, <1>3 DEF State
<1> HIDE DEF t
<1>5. Window(t)
  BY <1>3, <1>4 DEF SealingInv, StateInv, Window, highWaterMark
<1>6. StateInv(t) /\ (SoleCall(node) => SoleCall(t))
  BY <1>4, <1>5 DEF SealingInv, StateInv, Repeated, TryLeft, Tracked, SoleCall
<1> QED BY <1>2, <1>4, <1>6, SilentStep

\* resetConfig of a block beyond the ledger keeps the invariant.
LEMMA ConfigResetKeeps ==
  ASSUME TypeOK, SealingInv, NEW k \in Index, k > node.committed
  PROVE  LET t == resetConfig(node, k) IN
         /\ t \in State /\ StateInv(t) /\ (SoleCall(node) => SoleCall(t))
         /\ t.committed = k /\ Sends(node, t, k + 1)
<1> DEFINE t == resetConfig(node, k)
<1>1. node \in State
  BY DEF TypeOK
<1>2. /\ t \in State /\ Sends(node, t, k + 1)
      /\ t.committed = k /\ t.expected = Larger(node.expected, k + 1)
      /\ t.verifying = {m \in node.verifying : m.proposal.index > k}
      /\ t.resetting = node.resetting /\ t.calls = node.calls /\ t.retries = node.retries
  BY <1>1, ConfigReset
<1> HIDE DEF t
<1>3. k \in Int /\ node.committed \in Int /\ WaterMarkLimit \in Int
  BY <1>1, Numbers, Bounds
<1>4. Window(t)
  <2>1. t.expected > t.committed
    BY <1>1, <1>2, <1>3, Numbers DEF Larger
  <2>2. ASSUME NEW m \in t.verifying
        PROVE  m.proposal.index > k /\ m.proposal.index < highWaterMark(t)
    <3>1. m \in node.verifying /\ m.proposal.index > k
      BY <1>2
    <3>2. m.proposal.index < highWaterMark(node) /\ m.proposal.index \in Int
      BY <1>1, <3>1, Registers, Bounds DEF SealingInv, StateInv, Window, Pending, Proposal
    <3> QED BY <1>2, <1>3, <3>1, <3>2 DEF highWaterMark
  <2> QED BY <1>2, <2>1, <2>2 DEF Window
<1>5. StateInv(t) /\ (SoleCall(node) => SoleCall(t))
  BY <1>2, <1>4 DEF SealingInv, StateInv, Repeated, TryLeft, Tracked, SoleCall
<1> QED BY <1>2, <1>5 DEF t

\* A block is committed.
LEMMA CommitKeeps ==
  ASSUME TypeOK, SealingInv, Commit
  PROVE  TypeOK' /\ SealingInv' /\ SealRules
<1> DEFINE k == node.committed + 1
           t == resetConfig(node, k)
<1>1. node \in State /\ Step(t) /\ k < node.expected
  BY DEF TypeOK, Commit
<1>2. k \in Index /\ k > node.committed /\ k + 1 \in Int /\ k + 1 > k
  BY <1>1, Numbers, Bounds
<1> HIDE DEF k
<1>3. /\ t \in State /\ StateInv(t) /\ (SoleCall(node) => SoleCall(t))
      /\ t.committed = k /\ Sends(node, t, k + 1)
  BY <1>2, ConfigResetKeeps
<1> HIDE DEF t
<1> QED BY <1>1, <1>2, <1>3, SendingKeeps

\* A synchronised block is taken over.
LEMMA SyncBlockKeeps ==
  ASSUME TypeOK, SealingInv, NEW k \in Index, SyncBlock(k)
  PROVE  TypeOK' /\ SealingInv' /\ SealRules
<1> DEFINE u == resetConfig(node, k)
           A == {p \in u.accepted : p.index >= node.expected}
           t == [u EXCEPT !.expected = k + 1, !.accepted = A]
           f == IF node.expected > k + 1 THEN "behind" ELSE "sync"
<1>1. node \in State /\ k > node.committed /\ Event(f, t) /\ f \in Faults
  BY DEF TypeOK, SyncBlock, Faults
<1>2. k + 1 \in Int /\ k + 1 > k /\ k + 1 \in 1 .. MaxIndex + 1
  BY Bounds
<1>3. /\ u \in State /\ StateInv(u) /\ (SoleCall(node) => SoleCall(u))
      /\ u.committed = k /\ Sends(node, u, k + 1)
  BY <1>1, ConfigResetKeeps
<1> HIDE DEF u, f
<1>4. A \in SUBSET Proposal
  BY <1>3, Registers
<1> HIDE DEF A
<1>5. /\ t \in State /\ t.toSealer = u.toSealer /\ t.expected = k + 1
      /\ t.committed = u.committed /\ t.retries = u.retries /\ t.verifying = u.verifying
      /\ t.resetting = u.resetting /\ t.calls = u.calls /\ t.view = u.view
  BY <1>2, <1>3, <1>4 DEF State
<1> HIDE DEF t
<1>6. Window(t)
  BY <1>2, <1>3, <1>5 DEF StateInv, Window, highWaterMark
<1>7. StateInv(t) /\ (SoleCall(u) => SoleCall(t))
  BY <1>3, <1>5, <1>6 DEF StateInv, Repeated, TryLeft, Tracked, SoleCall
<1>8. Sends(node, t, k + 1)
  BY <1>3, <1>5 DEF Sends, Right, highWaterMark
<1>9. k + 1 > t.committed /\ (SoleCall(node) => SoleCall(t))
  BY <1>2, <1>3, <1>5, <1>7
<1> QED BY <1>1, <1>2, <1>5, <1>7, <1>8, <1>9, SendingEventKeeps

\* The sync module announces a number.
LEMMA SyncingKeeps ==
  ASSUME TypeOK, SealingInv, NEW k \in Index, NotifySyncing(k)
  PROVE  TypeOK' /\ SealingInv' /\ SealRules
<1> DEFINE t == [node EXCEPT !.syncing = k]
<1>1. node \in State /\ Event("syncing", t) /\ "syncing" \in Faults /\ k \in 0 .. MaxIndex
  BY Bounds DEF TypeOK, NotifySyncing, Faults
<1>2. t \in State /\ t.toSealer = node.toSealer
  BY <1>1 DEF State, SameRest
<1>3. /\ t.committed = node.committed /\ t.expected = node.expected /\ t.retries = node.retries
      /\ t.verifying = node.verifying /\ t.resetting = node.resetting /\ t.calls = node.calls
  BY <1>1 DEF State
<1> HIDE DEF t
<1>4. StateInv(t) /\ (SoleCall(node) => SoleCall(t))
  BY <1>3, Carried DEF SealingInv
<1> QED BY <1>1, <1>2, <1>4, SilentEvent

\* The timer expires.
LEMMA TimeoutKeeps ==
  ASSUME TypeOK, SealingInv, Timeout
  PROVE  TypeOK' /\ SealingInv' /\ SealRules
<1> DEFINE t == [node EXCEPT !.timeout = TRUE]
<1>1. node \in State /\ Event("timeout", t) /\ "timeout" \in Faults
  BY DEF TypeOK, Timeout, Faults
<1>2. t \in State /\ t.toSealer = node.toSealer /\ SameRest(node, t)
  BY <1>1 DEF State, SameRest
<1> HIDE DEF t
<1>3. StateInv(t) /\ (SoleCall(node) => SoleCall(t))
  BY <1>2, Notifying
<1> QED BY <1>1, <1>2, <1>3, SilentEvent

-----------------------------------------------------------------------------
(* View changes *)

\* A set of block numbers has a greatest one.
LEMMA HighestNumber ==
  ASSUME NEW S \in SUBSET Index, S # {}
  PROVE  Max(S) \in S
<1> DEFINE T == {MaxIndex - x : x \in S}
<1>1. MaxIndex \in Nat /\ \A x \in S : x \in Int /\ 1 <= x /\ x <= MaxIndex
  BY Bounds
<1>2. T \in SUBSET Nat /\ T # {}
  BY <1>1
<1>3. PICK y \in T : \A z \in T : y <= z
  BY <1>2, NatLowest
<1>4. PICK m \in S : y = MaxIndex - m
  OBVIOUS
<1>5. \A x \in S : m >= x
  <2> TAKE x \in S
  <2>1. MaxIndex - x \in T
    OBVIOUS
  <2>2. MaxIndex - m <= MaxIndex - x
    BY <1>3, <1>4, <2>1
  <2> QED BY <1>1, <2>2
<1> QED BY <1>5 DEF Max

\* resetNewViewState and resetCacheAfterViewChange keep ledger and marks.
LEMMA ViewEntered ==
  ASSUME NEW s \in State, NEW v \in View
  PROVE  LET t == resetNewViewState(s, v) IN
         /\ t \in State /\ t.view = v /\ t.toSealer = s.toSealer
         /\ t.committed = s.committed /\ t.expected = s.expected /\ t.retries = s.retries
         /\ t.verifying = s.verifying /\ t.resetting = s.resetting /\ t.calls = s.calls
         /\ t.answers = s.answers
<1> DEFINE A == {p \in s.accepted : p.index < s.expected \/ p.index \in s.executing}
           t == [s EXCEPT !.view = v, !.timeout = FALSE, !.accepted = A]
<1>1. resetNewViewState(s, v) = t
  BY DEF resetNewViewState
<1>2. A \in SUBSET Proposal
  BY Registers
<1> HIDE DEF A
<1>3. t \in State
  BY <1>2 DEF State
<1>4. /\ t.view = v /\ t.toSealer = s.toSealer /\ t.answers = s.answers
      /\ t.committed = s.committed /\ t.expected = s.expected /\ t.retries = s.retries
      /\ t.verifying = s.verifying /\ t.resetting = s.resetting /\ t.calls = s.calls
  BY DEF State
<1> HIDE DEF t
<1> QED BY <1>1, <1>3, <1>4

\* The proposals of a NewView are verified, or the next number is asked for.
LEMMA NewViewState ==
  ASSUME TypeOK, SealingInv, NEW v \in View, NEW L \in SUBSET Proposal
  PROVE  LET t == NewView(node, v, L) IN
         /\ t \in State /\ StateInv(t) /\ (SoleCall(node) => SoleCall(t))
         /\ t.committed = node.committed /\ Sends(node, t, node.committed + 1)
<1> DEFINE top == IF \A p \in L : p.index <= node.committed THEN node.committed
                  ELSE Max(Indices(L))
           a  == resetNewViewState(node, v)
           s1 == notifyResetSealing(a, 0)
           M  == {[proposal |-> p, view |-> v] : p \in L}
           V  == s1.verifying \cup {m \in M : checkPrePrepareMsg(s1, m)}
           s2 == [s1 EXCEPT !.verifying = V]
           s3 == [s2 EXCEPT !.waitReseal = top]
           n  == reNotifySealer(s2, top + 1)
           t  == IF L = {} THEN n ELSE s3
           low == node.committed + 1
<1>1. node \in State /\ low \in Nat \ {0} /\ 0 \in Number
  <2>1. node \in State
    BY DEF TypeOK
  <2> QED BY <2>1, Numbers, Bounds
<1>2. NewView(node, v, L) = t
  BY DEF NewView
<1>3. /\ a \in State /\ a.view = v /\ a.toSealer = node.toSealer
      /\ a.committed = node.committed /\ a.expected = node.expected /\ a.retries = node.retries
      /\ a.verifying = node.verifying /\ a.resetting = node.resetting /\ a.calls = node.calls
  BY <1>1, ViewEntered
<1> HIDE DEF a
<1>4. /\ s1 \in State /\ StateInv(s1) /\ (SoleCall(node) => SoleCall(s1))
      /\ s1.committed = node.committed /\ Sends(node, s1, low)
  BY <1>1, <1>3, ResetKeepsState
<1> HIDE DEF s1
<1>5. top \in 0 .. MaxIndex /\ (L = {} => top = node.committed)
  <2>1. CASE \A p \in L : p.index <= node.committed
    BY <1>1, <2>1, Registers
  <2>2. CASE ~\A p \in L : p.index <= node.committed
    <3>1. Indices(L) \in SUBSET Index /\ Indices(L) # {} /\ L # {}
      BY <2>2 DEF Indices, Proposal
    <3>2. Max(Indices(L)) \in Index
      BY <3>1, HighestNumber
    <3> QED BY <2>2, <3>1, <3>2, Bounds
  <2> QED BY <2>1, <2>2
<1> HIDE DEF top
<1>6. /\ V \in SUBSET Pending
      /\ \A m \in V : m.proposal.index > s1.committed /\ m.proposal.index < highWaterMark(s1)
  <2>1. M \in SUBSET Pending
    BY DEF Pending
  <2> HIDE DEF M
  <2>2. s1.verifying \in SUBSET Pending /\ Window(s1)
    BY <1>4, Registers DEF StateInv
  <2>3. ASSUME NEW m \in V
        PROVE  m.proposal.index > s1.committed /\ m.proposal.index < highWaterMark(s1)
    <3>1. CASE m \in s1.verifying
      BY <2>2, <3>1 DEF Window
    <3>2. CASE m \notin s1.verifying
      <4>1. m \in Pending /\ checkPrePrepareMsg(s1, m)
        BY <2>1, <3>2
      <4> QED BY <1>4, <2>2, <4>1, CheckedIsOpen
    <3> QED BY <3>1, <3>2
  <2> QED BY <2>1, <2>2, <2>3
<1> HIDE DEF V
<1>7. /\ s2 \in State /\ s2.toSealer = s1.toSealer /\ s2.verifying = V
      /\ s2.committed = s1.committed /\ s2.expected = s1.expected /\ s2.retries = s1.retries
      /\ s2.resetting = s1.resetting /\ s2.calls = s1.calls /\ s2.view = s1.view
  BY <1>4, <1>6 DEF State
<1>8. Window(s2)
  <2> HIDE DEF s2
  <2> QED BY <1>4, <1>6, <1>7 DEF StateInv, Window, highWaterMark
<1> HIDE DEF s2
<1>9. StateInv(s2) /\ (SoleCall(s1) => SoleCall(s2))
  BY <1>4, <1>7, <1>8 DEF StateInv, Repeated, TryLeft, Tracked, SoleCall
<1>10. Sends(node, s2, low)
  BY <1>4, <1>7 DEF Sends, Right, highWaterMark
<1>11. /\ s3 \in State /\ s3.toSealer = s2.toSealer /\ s3.verifying = s2.verifying
       /\ s3.committed = s2.committed /\ s3.expected = s2.expected /\ s3.retries = s2.retries
       /\ s3.resetting = s2.resetting /\ s3.calls = s2.calls /\ s3.view = s2.view
  BY <1>5, <1>7 DEF State
<1> HIDE DEF s3
<1>12. CASE L # {}
  <2>1. t = s3
    BY <1>12
  <2>2. StateInv(s3) /\ (SoleCall(s2) => SoleCall(s3))
    BY <1>9, <1>11, Carried
  <2>3. Sends(node, s3, low)
    BY <1>10, <1>11 DEF Sends, Right, highWaterMark
  <2> QED BY <1>2, <1>4, <1>7, <1>9, <1>11, <2>1, <2>2, <2>3
<1>13. CASE L = {}
  <2>1. t = n /\ top + 1 = low
    BY <1>5, <1>13
  <2>2. n \in State /\ SameRest(s2, n) /\ Sends(s2, n, low)
    BY <1>1, <1>7, <2>1, Renotified
  <2> HIDE DEF n
  <2>3. /\ n.committed = s2.committed /\ n.expected = s2.expected /\ n.retries = s2.retries
        /\ n.verifying = s2.verifying /\ n.resetting = s2.resetting /\ n.calls = s2.calls
        /\ n.view = s2.view
    BY <2>2 DEF SameRest
  <2>4. StateInv(n) /\ (SoleCall(s2) => SoleCall(n))
    BY <1>9, <2>3, Carried
  <2>5. Sends(node, n, low)
    <3>1. low \in Int /\ low <= low
      BY <1>1
    <3> HIDE DEF low
    <3> QED BY <1>1, <1>7, <1>10, <2>2, <2>3, <3>1, SendsTransitive
  <2> QED BY <1>2, <1>4, <1>7, <1>9, <2>1, <2>2, <2>3, <2>4, <2>5
<1> QED BY <1>12, <1>13

\* A view change with a NewView.
LEMMA ChangeViewKeeps ==
  ASSUME TypeOK, SealingInv, ChangeView
  PROVE  TypeOK' /\ SealingInv' /\ SealRules
<1>1. PICK L \in NewViewList : Step(NewView(node, node.view + 1, L))
  BY DEF ChangeView
<1>2. node \in State /\ node.view < MaxView
  BY DEF TypeOK, ChangeView
<1> DEFINE t == NewView(node, node.view + 1, L)
           low == node.committed + 1
<1>3. node.view + 1 \in View /\ low \in Int /\ low > node.committed
  <2>1. node.view \in Int /\ 0 <= node.view
    BY <1>2, Registers, Bounds
  <2>2. node.view + 1 \in View
    BY <1>2, <2>1, Bounds
  <2>3. low \in Int /\ low > node.committed
    BY <1>2, Numbers
  <2> QED BY <2>2, <2>3
<1>4. L \in SUBSET Proposal
  BY DEF NewViewList
<1>5. /\ t \in State /\ StateInv(t) /\ (SoleCall(node) => SoleCall(t))
      /\ t.committed = node.committed /\ Sends(node, t, low)
  BY <1>3, <1>4, NewViewState
<1> HIDE DEF t, low
<1>6. Step(t)
  BY <1>1 DEF t
<1>7. low > t.committed
  BY <1>3, <1>5
<1> QED BY <1>3, <1>5, <1>6, <1>7, SendingKeeps

\* A NewView that comes after the commit of its proposals.
LEMMA LateNewViewKeeps ==
  ASSUME TypeOK, SealingInv, LateNewView
  PROVE  TypeOK' /\ SealingInv' /\ SealRules
<1> DEFINE L == {[index |-> node.committed, txs |-> TRUE]}
           t == NewView(node, node.view + 1, L)
           low == node.committed + 1
<1>1. node \in State /\ node.view < MaxView /\ node.committed > 0 /\ Event("late", t)
      /\ "late" \in Faults
  BY DEF TypeOK, LateNewView, Faults
<1>2. node.view + 1 \in View /\ low \in Int /\ low > node.committed /\ node.committed \in Index
  <2>1. node.view \in Int /\ 0 <= node.view
    BY <1>1, Registers, Bounds
  <2>2. node.view + 1 \in View
    BY <1>1, <2>1, Bounds
  <2>3. /\ node.committed \in Int /\ node.committed <= MaxIndex
        /\ low \in Int /\ low > node.committed
    BY <1>1, Numbers
  <2>4. node.committed \in Index
    BY <1>1, <2>3, Bounds
  <2> QED BY <2>2, <2>3, <2>4
<1>3. L \in SUBSET Proposal
  BY <1>2 DEF Proposal
<1> HIDE DEF L
<1>4. /\ t \in State /\ StateInv(t) /\ (SoleCall(node) => SoleCall(t))
      /\ t.committed = node.committed /\ Sends(node, t, low)
  BY <1>2, <1>3, NewViewState
<1> HIDE DEF t, low
<1>5. low > t.committed
  BY <1>2, <1>4
<1> QED BY <1>1, <1>2, <1>4, <1>5, SendingEventKeeps

\* A recovered view.
LEMMA RecoverKeeps ==
  ASSUME TypeOK, SealingInv, RecoverView
  PROVE  TypeOK' /\ SealingInv' /\ SealRules
<1> DEFINE t == resetNewViewState(node, node.view + 1)
<1>1. node \in State /\ node.view < MaxView /\ Event("recover", t) /\ "recover" \in Faults
  BY DEF TypeOK, RecoverView, Faults
<1>2. node.view + 1 \in View
  BY <1>1, Registers, Bounds
<1>3. /\ t \in State /\ t.toSealer = node.toSealer
      /\ t.committed = node.committed /\ t.expected = node.expected /\ t.retries = node.retries
      /\ t.verifying = node.verifying /\ t.resetting = node.resetting /\ t.calls = node.calls
  BY <1>1, <1>2, ViewEntered
<1> HIDE DEF t
<1>4. StateInv(t) /\ (SoleCall(node) => SoleCall(t))
  BY <1>3, Carried DEF SealingInv
<1> QED BY <1>1, <1>3, <1>4, SilentEvent


-----------------------------------------------------------------------------
(* The specification *)

\* PBFTImpl::init starts with nothing under way.
LEMMA InitKeeps ==
  ASSUME Init
  PROVE  TypeOK /\ SealingInv
<1> DEFINE c == [p \in Proposal |-> <<>>]
           s == [view |-> 0, timeout |-> FALSE, committed |-> 0, expected |-> 1, syncing |-> 0,
                 sealEnd |-> 0, waitSeal |-> 0, waitReseal |-> 0, submitted |-> {},
                 verifying |-> {}, accepted |-> {}, executing |-> {}, resetting |-> {},
                 calls |-> c,
                 toSealer |-> <<>>, answers |-> <<>>, retries |-> {}]
           t == notifyResetSealing(s, 1)
<1>1. node = notifySealer(t, 1) /\ todo = {} /\ faults = [k \in Faults |-> 0]
  BY DEF Init
<1>2. c \in [Proposal -> Seq(MarkCall)] /\ \A p \in Proposal : c[p] = <<>>
  OBVIOUS
<1> HIDE DEF c
<1>3. /\ 0 \in View /\ 0 \in 0 .. MaxIndex /\ 1 \in 1 .. MaxIndex + 1
      /\ 0 \in Number /\ 1 \in Number
  BY Bounds
<1>4. s \in State
  BY <1>2, <1>3 DEF State
<1>5. /\ s.committed = 0 /\ s.expected = 1 /\ s.verifying = {} /\ s.retries = {}
      /\ s.resetting = {} /\ s.calls = c
  OBVIOUS
<1> HIDE DEF s
<1>6. StateInv(s)
  <2>1. Window(s) /\ Repeated(s) /\ Tracked(s)
    BY <1>5 DEF Window, Repeated, Tracked
  <2>2. TryLeft(s)
    <3>1. \A p \in Proposal : DOMAIN s.calls[p] = {}
      BY <1>2, <1>5
    <3> QED BY <3>1 DEF TryLeft
  <2> QED BY <2>1, <2>2 DEF StateInv
<1>7. SoleCall(s)
  BY <1>2, <1>5 DEF SoleCall
<1>8. t \in State /\ SameRest(s, t)
  BY <1>3, <1>4, ResetSent
<1> HIDE DEF t
<1>9. node \in State /\ SameRest(t, node)
  BY <1>1, <1>8, Notified
<1>10. StateInv(node) /\ SoleCall(node)
  <2>1. StateInv(t) /\ SoleCall(t)
    BY <1>6, <1>7, <1>8, Carried DEF SameRest
  <2> QED BY <1>9, <2>1, Carried DEF SameRest
<1>11. todo \subseteq Number /\ faults \in [Faults -> Nat]
  BY <1>1
<1> QED BY <1>9, <1>10, <1>11 DEF TypeOK, SealingInv

\* The steps of the sealer, of its answers and of the submitted blocks.
LEMMA SealerKeeps ==
  ASSUME TypeOK, SealingInv,
         \/ SealerTakesRange \/ SealerResets \/ SealerFails \/ ResetFails \/ ResetAnswered
         \/ \E r \in node.retries : RetryNotification(r)
         \/ \E i \in Index : SubmitProposal(i)
         \/ \E m \in node.submitted : HandleSubmitted(m) \/ RefuseSubmitted(m)
  PROVE  TypeOK' /\ SealingInv' /\ SealRules
  BY TakesRangeKeeps, ResetsKeeps, FailsKeeps, ResetFailsKeeps, AnsweredKeeps, RetryKeeps,
     SubmitKeeps, HandleSubmittedKeeps, RefuseKeeps, Zenon

\* The steps of the pool that marks transactions.
LEMMA MarkingKeeps ==
  ASSUME TypeOK, SealingInv, NEW p \in Proposal, NEW j \in Calls(p),
         StartMarking(p, j) \/ MarkSucceeds(p, j) \/ MarkFails(p, j) \/ RepeatMarking(p, j)
  PROVE  TypeOK' /\ SealingInv' /\ SealRules
  BY StartMarkingKeeps, MarkSucceedsKeeps, MarkFailsKeeps, RepeatKeeps, Zenon

\* The steps of the engine.
LEMMA EngineKeeps ==
  ASSUME TypeOK, SealingInv,
         \/ \E i \in Index : HandlePrePrepare(i)
         \/ \E m \in node.verifying : VerifySucceeds(m) \/ VerifyFails(m)
         \/ \E p \in node.accepted : Execute(p)
         \/ \E i \in node.executing : ExecuteFinished(i)
         \/ Commit
         \/ \E k \in Index : SyncBlock(k) \/ NotifySyncing(k)
         \/ Timeout \/ ChangeView \/ LateNewView \/ RecoverView
  PROVE  TypeOK' /\ SealingInv' /\ SealRules
  BY PrePrepareKeeps, VerifySucceedsKeeps, VerifyFailsKeeps, ExecuteKeeps, ExecuteFinishedKeeps,
     CommitKeeps, SyncBlockKeeps, SyncingKeeps, TimeoutKeeps, ChangeViewKeeps, LateNewViewKeeps,
     RecoverKeeps, Zenon

\* Every step keeps the invariant and the rules for what is asked for.
LEMMA NextKeeps ==
  ASSUME TypeOK, SealingInv, Next
  PROVE  TypeOK' /\ SealingInv' /\ SealRules
  BY SealerKeeps, MarkingKeeps, EngineKeeps, Zenon DEF Next

\* And so does a step that changes nothing.
LEMMA StutterKeeps ==
  ASSUME TypeOK, SealingInv, UNCHANGED vars
  PROVE  TypeOK' /\ SealingInv'
<1>1. TypeOK'
  BY DEF vars, TypeOK
<1>2. SealingInv'
  BY DEF vars, SealingInv, StateInv, Window, Repeated, TryLeft, Tracked, SoleCall, highWaterMark
<1> QED BY <1>1, <1>2

(***************************************************************************)
(* The invariant behind the theorems: what waits for the validator is      *)
(* above the ledger, what is repeated has a try left, every mark has its   *)
(* call, and before the first failed marking every call has its mark.      *)
(***************************************************************************)
THEOREM SealingInvariant == Spec => [](TypeOK /\ SealingInv)
<1>1. Init => TypeOK /\ SealingInv
  BY InitKeeps
<1>2. TypeOK /\ SealingInv /\ [Next]_vars => (TypeOK /\ SealingInv)'
  BY NextKeeps, StutterKeeps
<1> QED BY <1>1, <1>2, PTL DEF Spec

(***************************************************************************)
(* PBFTConfig's registers, the requests to the sealer and m_sealEndIndex   *)
(* keep their types and ranges: no call of notifySealer, reNotifySealer or *)
(* notifyResetSealing asks for a number beyond the watermarks' range.      *)
(***************************************************************************)
THEOREM SealingTyped == Spec => []TypeOK
  BY SealingInvariant, PTL

(***************************************************************************)
(* TxsValidator: a proposal with transactions in m_resettingProposals has  *)
(* a call of asyncMarkTxs under way that will erase it, through failures,  *)
(* repetitions and second requests, so sealing is never held back by a     *)
(* mark that nobody will remove.                                           *)
(***************************************************************************)
THEOREM ResettingIsTrackedHolds == Spec => []ResettingIsTracked
<1>1. SealingInv => ResettingIsTracked
  BY DEF SealingInv, StateInv, Tracked, ResettingIsTracked, Calls
<1> QED BY <1>1, SealingInvariant, PTL

(***************************************************************************)
(* notifySealer: every number of every range is led by this node in the    *)
(* view the range is asked for in, and is below the high watermark, for    *)
(* every leader period and watermark.                                      *)
(***************************************************************************)
THEOREM SealsOwnHolds == Spec => SealsOwnNumbers
<1>1. TypeOK /\ SealingInv /\ [Next]_vars =>
        [\A r \in SentRanges : \A i \in r.start .. r.end :
           LeaderIndex(i, node'.view) = Me /\ i < highWaterMark(node')]_vars
  BY NextKeeps DEF SealRules, OwnStep
<1> QED BY <1>1, SealingInvariant, PTL DEF Spec, SealsOwnNumbers

(***************************************************************************)
(* notifySealer: no range starts at a committed number, except in the      *)
(* callback of notifyResetSealing, whose number may have been committed    *)
(* while the sealer was resetting.                                         *)
(***************************************************************************)
THEOREM SealsOpenHolds == Spec => SealsOpenUnlessDelayed
<1>1. TypeOK /\ SealingInv /\ [Next]_vars =>
        [\A r \in SentRanges : r.start > node'.committed \/ node'.answers # node.answers]_vars
  BY NextKeeps DEF SealRules, OpenStep
<1> QED BY <1>1, SealingInvariant, PTL DEF Spec, SealsOpenUnlessDelayed

(***************************************************************************)
(* asyncResetTxsFlag: "must ensure asyncResetTxsFlag success before seal   *)
(* new next blocks".  Until a marking fails, and outside the enforced      *)
(* notification of a failed verification, no range beyond the next block   *)
(* is asked for while a call is outstanding.                               *)
(***************************************************************************)
THEOREM MarkedHolds == Spec => MarkedBeforeSealingUnlessFailed
<1>1. TypeOK /\ SealingInv /\ [Next]_vars =>
        [faults["mark"] = 0 /\ (\A k \in {"verify", "ahead"} : faults'[k] = faults[k]) =>
           \A r \in SentRanges : r.start > node'.committed + 1 =>
             \A p \in Proposal : node'.calls[p] = <<>>]_vars
  BY NextKeeps DEF SealRules, MarkedStep
<1> QED BY <1>1, SealingInvariant, PTL DEF Spec, MarkedBeforeSealingUnlessFailed


-----------------------------------------------------------------------------
(* The leader is told: the invariant *)

\* what loses a notification, as LeaderIsToldUnlessLost lists it
Lost ==
  \/ \E k \in {"reset", "stale", "late", "recover", "behind", "ahead"} : faults[k] > 0
  \/ faults["notify"] > 3

\* a range among the messages q has number j, and no reset follows it
Live(q, j) ==
  \E p \in 1 .. Len(q) :
    /\ q[p].op = "seal" /\ j \in q[p].start .. q[p].end
    /\ \A x \in p + 1 .. Len(q) : q[x].op # "reset"

\* no reset is among the messages q
Clear(q) == \A x \in 1 .. Len(q) : q[x].op # "reset"

\* a reset among the messages q leads back to number i
Back(q, i) == \E p \in 1 .. Len(q) : q[p].op = "reset" /\ q[p].back = i

\* the sealer has number j, or will get it, or has submitted it
Covered(s, T, j) ==
  \/ \E r \in s.retries : j \in r.start .. r.end
  \/ Live(s.toSealer, j)
  \/ j \in T /\ Clear(s.toSealer)
  \/ \E m \in s.submitted : m.proposal.index = j

\* or the number is in consensus
Handled(s, T, j) == Covered(s, T, j) \/ j \in s.executing \cup Indices(s.accepted)

\* a reset under way leads back to number i
Returns(s, i) == Back(s.toSealer, i) \/ Back(s.answers, i)

\* what is executed beyond the ledger is the expected number
InTurn(s) == \A j \in s.executing : j <= s.committed \/ j = s.expected

\* the numbers up to m_sealEndIndex have been asked for, and are not forgotten
Asked(s, T) ==
  \A j \in sealStartIndex(s) .. s.sealEnd : LeaderIndex(j, s.view) = Me => Handled(s, T, j)

\* nothing forbids to seal the next block, and it is this node's
MayStart(s) ==
  /\ ~s.timeout /\ s.syncing <= s.committed /\ canHandleNewProposal(s)
  /\ LeaderIndex(s.committed + 1, s.view) = Me /\ s.expected = s.committed + 1

Due(s, T) ==
  MayStart(s) => Handled(s, T, s.committed + 1) \/ Returns(s, s.committed + 1)

\* a reset leads back to the number that followed the ledger when it was sent
Dated(s, q) ==
  \A p \in 1 .. Len(q) : q[p].op = "reset" => q[p].at <= s.committed /\ q[p].back \in {0, q[p].at + 1}
Fresh(s) == Dated(s, s.toSealer) /\ Dated(s, s.answers)

\* one submission waits for m_mutex
OneSubmitted(s) == \A m, x \in s.submitted : m.proposal.index = x.proposal.index

Told(s, T) == InTurn(s) /\ Asked(s, T) /\ Due(s, T) /\ Fresh(s) /\ OneSubmitted(s)

\* no notification has failed more often than notifications failed
Tried(q, n) == \A p \in 1 .. Len(q) : q[p].op = "seal" => q[p].retry <= n
Tries(s, n) == Tried(s.toSealer, n) /\ \A r \in s.retries : r.retry <= n

ToldInv == Lost \/ (Told(node, todo) /\ Tries(node, faults["notify"]))

Message == SealRequest \cup ResetRequest

-----------------------------------------------------------------------------
(* The messages under way *)

\* One more range.
LEMMA RangeAppended ==
  ASSUME NEW q \in Seq(Message), NEW r \in SealRequest
  PROVE  LET u == Append(q, r) IN
         /\ \A j : Live(q, j) \/ j \in r.start .. r.end => Live(u, j)
         /\ Clear(q) => Clear(u)
         /\ \A i : Back(q, i) => Back(u, i)
         /\ \A s : Dated(s, q) => Dated(s, u)
         /\ \A k : Tried(q, k) /\ r.retry <= k => Tried(u, k)
<1> DEFINE u == Append(q, r)
           n == Len(q)
<1>1. /\ n \in Nat /\ Len(u) = n + 1 /\ u[n + 1] = r
      /\ \A p \in 1 .. n : u[p] = q[p]
  BY DEF Message
<1>2. r.op = "seal"
  BY DEF SealRequest
<1> HIDE DEF u
<1>3. \A p \in 1 .. n + 1 : p \in 1 .. n \/ p = n + 1
  BY <1>1
<1>4. \A p \in 1 .. n : p \in 1 .. n + 1
  BY <1>1
<1>5. ASSUME NEW j, Live(q, j) PROVE Live(u, j)
  <2>1. PICK p \in 1 .. n : /\ q[p].op = "seal" /\ j \in q[p].start .. q[p].end
                            /\ \A x \in p + 1 .. n : q[x].op # "reset"
    BY <1>5 DEF Live
  <2>2. ASSUME NEW x \in p + 1 .. n + 1 PROVE u[x].op # "reset"
    <3>1. (x \in p + 1 .. n /\ x \in 1 .. n) \/ x = n + 1
      BY <1>1
    <3> QED BY <1>1, <1>2, <2>1, <3>1
  <2> QED BY <1>1, <1>4, <2>1, <2>2 DEF Live
<1>6. ASSUME NEW j, j \in r.start .. r.end PROVE Live(u, j)
  <2>1. n + 1 \in 1 .. n + 1 /\ n + 1 + 1 .. n + 1 = {}
    BY <1>1
  <2> QED BY <1>1, <1>2, <1>6, <2>1 DEF Live
<1>7. Clear(q) => Clear(u)
  BY <1>1, <1>2, <1>3 DEF Clear
<1>8. \A i : Back(q, i) => Back(u, i)
  BY <1>1, <1>4 DEF Back
<1>9. \A s : Dated(s, q) => Dated(s, u)
  BY <1>1, <1>2, <1>3 DEF Dated
<1>10. \A k : Tried(q, k) /\ r.retry <= k => Tried(u, k)
  BY <1>1, <1>3 DEF Tried
<1> QED BY <1>5, <1>6, <1>7, <1>8, <1>9, <1>10 DEF u

\* One more reset.
LEMMA ResetAppended ==
  ASSUME NEW q \in Seq(Message), NEW r \in ResetRequest
  PROVE  LET u == Append(q, r) IN
         /\ \A i : Back(q, i) => Back(u, i)
         /\ Back(u, r.back)
         /\ \A s : Dated(s, q) /\ r.at <= s.committed /\ r.back \in {0, r.at + 1} => Dated(s, u)
         /\ \A k : Tried(q, k) => Tried(u, k)
<1> DEFINE u == Append(q, r)
           n == Len(q)
<1>1. /\ n \in Nat /\ Len(u) = n + 1 /\ u[n + 1] = r
      /\ \A p \in 1 .. n : u[p] = q[p]
  BY DEF Message
<1>2. r.op = "reset"
  BY DEF ResetRequest
<1> HIDE DEF u
<1>3. \A p \in 1 .. n + 1 : p \in 1 .. n \/ p = n + 1
  BY <1>1
<1>4. (\A p \in 1 .. n : p \in 1 .. n + 1) /\ n + 1 \in 1 .. n + 1
  BY <1>1
<1>5. (\A i : Back(q, i) => Back(u, i)) /\ Back(u, r.back)
  BY <1>1, <1>2, <1>4 DEF Back
<1>6. \A s : Dated(s, q) /\ r.at <= s.committed /\ r.back \in {0, r.at + 1} => Dated(s, u)
  BY <1>1, <1>2, <1>3 DEF Dated
<1>7. \A k : Tried(q, k) => Tried(u, k)
  BY <1>1, <1>2, <1>3 DEF Tried
<1> QED BY <1>5, <1>6, <1>7 DEF u

\* What is left when the first message is taken.
LEMMA FirstTaken ==
  ASSUME NEW q \in Seq(Message), q # <<>>
  PROVE  LET u == Tail(q) IN
         /\ Head(q) \in Message /\ u \in Seq(Message)
         /\ \A j : Live(q, j) =>
              Live(u, j) \/ (Head(q).op = "seal" /\ j \in Head(q).start .. Head(q).end /\ Clear(u))
         /\ Clear(q) => Clear(u) /\ Head(q).op # "reset"
         /\ \A i : Back(q, i) => Back(u, i) \/ (Head(q).op = "reset" /\ Head(q).back = i)
         /\ \A s : Dated(s, q) =>
              /\ Dated(s, u)
              /\ Head(q).op = "reset" => Head(q).at <= s.committed /\ Head(q).back \in {0, Head(q).at + 1}
         /\ \A k : Tried(q, k) => Tried(u, k) /\ (Head(q).op = "seal" => Head(q).retry <= k)
<1> DEFINE u == Tail(q)
           n == Len(q)
           h == Head(q)
<1>1. /\ n \in Nat /\ n >= 1 /\ Len(u) = n - 1 /\ u \in Seq(Message) /\ h \in Message
      /\ h = q[1] /\ \A p \in 1 .. n - 1 : u[p] = q[p + 1]
  OBVIOUS
<1> HIDE DEF u, h, n
<1>2. Len(q) = n
  BY DEF n
<1>3. ASSUME NEW p \in 1 .. n
      PROVE  p = 1 \/ (p - 1 \in 1 .. n - 1 /\ u[p - 1] = q[p])
  <2>1. CASE p # 1
    <3>1. p - 1 \in 1 .. n - 1 /\ p - 1 + 1 = p
      BY <1>1, <2>1
    <3> QED BY <1>1, <3>1
  <2> QED BY <2>1
<1>4. 1 \in 1 .. n /\ \A p \in 1 .. n - 1 : p + 1 \in 1 .. n
  BY <1>1
<1>5. ASSUME NEW j, Live(q, j)
      PROVE  Live(u, j) \/ (h.op = "seal" /\ j \in h.start .. h.end /\ Clear(u))
  <2>1. PICK p \in 1 .. n : /\ q[p].op = "seal" /\ j \in q[p].start .. q[p].end
                            /\ \A x \in p + 1 .. n : q[x].op # "reset"
    BY <1>2, <1>5 DEF Live
  <2>2. ASSUME NEW x \in p .. n - 1 PROVE u[x].op # "reset"
    <3>1. x \in 1 .. n - 1 /\ x + 1 \in p + 1 .. n
      BY <1>1
    <3> QED BY <1>1, <2>1, <3>1
  <2>3. CASE p = 1
    BY <1>1, <2>1, <2>2, <2>3 DEF Clear
  <2>4. CASE p # 1
    <3>1. p - 1 \in 1 .. n - 1 /\ u[p - 1] = q[p] /\ p - 1 + 1 = p
      BY <1>1, <1>3, <2>4
    <3> QED BY <1>1, <2>1, <2>2, <3>1 DEF Live
  <2> QED BY <2>3, <2>4
<1>6. Clear(q) => Clear(u) /\ h.op # "reset"
  BY <1>1, <1>2, <1>4 DEF Clear
<1>7. \A i : Back(q, i) => Back(u, i) \/ (h.op = "reset" /\ h.back = i)
  BY <1>1, <1>2, <1>3 DEF Back
<1>8. \A s : Dated(s, q) =>
        Dated(s, u) /\ (h.op = "reset" => h.at <= s.committed /\ h.back \in {0, h.at + 1})
  BY <1>1, <1>2, <1>4 DEF Dated
<1>9. \A k : Tried(q, k) => Tried(u, k) /\ (h.op = "seal" => h.retry <= k)
  BY <1>1, <1>2, <1>4 DEF Tried
<1> QED BY <1>1, <1>5, <1>6, <1>7, <1>8, <1>9 DEF u, h


-----------------------------------------------------------------------------
(* How the parts of the invariant carry over *)

\* the registers that say what may be sealed
SameCourse(s, t) ==
  /\ t.view = s.view /\ t.timeout = s.timeout /\ t.committed = s.committed
  /\ t.expected = s.expected /\ t.syncing = s.syncing
  /\ t.waitSeal = s.waitSeal /\ t.waitReseal = s.waitReseal

\* While those registers stay, it is enough that no number is forgotten.
LEMMA StaysTold ==
  ASSUME NEW s \in State, NEW t \in State, NEW T, NEW U,
         SameCourse(s, t), t.sealEnd = s.sealEnd,
         \A j \in Int : j >= sealStartIndex(s) /\ Handled(s, T, j) => Handled(t, U, j),
         Returns(s, s.committed + 1) => Returns(t, s.committed + 1)
  PROVE  (Asked(s, T) => Asked(t, U)) /\ (Due(s, T) => Due(t, U))
<1>1. /\ sealStartIndex(s) \in Int /\ s.sealEnd \in Int /\ s.committed \in Int
      /\ sealStartIndex(t) = sealStartIndex(s)
  BY Numbers DEF SameCourse, sealStartIndex
<1>2. ASSUME Asked(s, T) PROVE Asked(t, U)
  <2> SUFFICES ASSUME NEW j \in sealStartIndex(s) .. s.sealEnd, LeaderIndex(j, s.view) = Me
               PROVE  Handled(t, U, j)
    BY <1>1 DEF Asked, SameCourse
  <2>1. j \in Int /\ j >= sealStartIndex(s) /\ Handled(s, T, j)
    BY <1>1, <1>2 DEF Asked
  <2> QED BY <2>1
<1>3. ASSUME Due(s, T) PROVE Due(t, U)
  <2> SUFFICES ASSUME MayStart(t)
               PROVE  Handled(t, U, s.committed + 1) \/ Returns(t, s.committed + 1)
    BY DEF Due, SameCourse
  <2>1. MayStart(s)
    BY DEF MayStart, SameCourse, canHandleNewProposal
  <2>2. s.committed + 1 \in Int /\ s.committed + 1 >= sealStartIndex(s)
    BY <1>1, <2>1 DEF MayStart, sealStartIndex, Larger
  <2>3. Handled(s, T, s.committed + 1) \/ Returns(s, s.committed + 1)
    BY <1>3, <2>1 DEF Due
  <2> QED BY <2>2, <2>3
<1> QED BY <1>2, <1>3

\* The next number has been asked for when m_sealEndIndex has reached it.
LEMMA ReachedIsDue ==
  ASSUME NEW t \in State, NEW T, Asked(t, T),
         LeaderIndex(t.committed + 1, t.view) = Me /\ canHandleNewProposal(t)
           => t.sealEnd >= t.committed + 1
  PROVE  Due(t, T)
<1> SUFFICES ASSUME MayStart(t) PROVE Handled(t, T, t.committed + 1)
  BY DEF Due
<1>1. t.sealEnd >= t.committed + 1 /\ t.expected = t.committed + 1
      /\ LeaderIndex(t.committed + 1, t.view) = Me
  BY DEF MayStart
<1>2. t.committed + 1 \in sealStartIndex(t) .. t.sealEnd
  BY <1>1, Numbers DEF sealStartIndex, Larger
<1> QED BY <1>1, <1>2 DEF Asked

\* nothing under way is lost between s and t
Grows(s, t, T) ==
  /\ \A j : Handled(s, T, j) => Handled(t, T, j)
  /\ \A i : Returns(s, i) => Returns(t, i)
  /\ Fresh(s) => Fresh(t)
  /\ \A n \in Nat : Tries(s, n) => Tries(t, n)

\* One more range loses nothing, and covers its numbers.
LEMMA RangeGrows ==
  ASSUME NEW s \in State, NEW t \in State, NEW T, SameRest(s, t), NEW r \in SealRequest,
         r.retry = 0, t.toSealer = Append(s.toSealer, r)
  PROVE  Grows(s, t, T) /\ \A j \in r.start .. r.end : Handled(t, T, j)
<1> DEFINE q == s.toSealer
           u == Append(q, r)
<1>1. q \in Seq(Message) /\ t.toSealer = u
  BY Registers DEF Message
<1>2. /\ \A j : Live(q, j) \/ j \in r.start .. r.end => Live(u, j)
      /\ Clear(q) => Clear(u)
      /\ \A i : Back(q, i) => Back(u, i)
      /\ \A x : Dated(x, q) => Dated(x, u)
      /\ \A k : Tried(q, k) /\ r.retry <= k => Tried(u, k)
  BY <1>1, RangeAppended
<1> HIDE DEF u
<1>3. /\ t.retries = s.retries /\ t.submitted = s.submitted /\ t.executing = s.executing
      /\ t.accepted = s.accepted /\ t.answers = s.answers /\ t.committed = s.committed
  BY DEF SameRest
<1>4. \A j : Covered(s, T, j) => Covered(t, T, j)
  BY <1>1, <1>2, <1>3 DEF Covered
<1>5. \A j : Handled(s, T, j) => Handled(t, T, j)
  BY <1>3, <1>4 DEF Handled
<1>6. \A i : Returns(s, i) => Returns(t, i)
  BY <1>1, <1>2, <1>3 DEF Returns
<1>7. ASSUME Fresh(s) PROVE Fresh(t)
  <2>1. Dated(s, u) /\ Dated(s, s.answers)
    BY <1>2, <1>7 DEF Fresh
  <2> QED BY <1>1, <1>3, <2>1 DEF Fresh, Dated
<1>8. \A n \in Nat : Tries(s, n) => Tries(t, n)
  BY <1>1, <1>2, <1>3 DEF Tries
<1>9. \A j \in r.start .. r.end : Handled(t, T, j)
  BY <1>1, <1>2 DEF Handled, Covered
<1> QED BY <1>5, <1>6, <1>7, <1>8, <1>9 DEF Grows


\* A period that begins at or before number i ends there or later.
LEMMA PeriodEnd ==
  ASSUME NEW i \in Nat
  PROVE  (i \div LeaderSwitchPeriod + 1) * LeaderSwitchPeriod - 1 >= i
<1> DEFINE P == LeaderSwitchPeriod
           q == i \div P
           m == i - P * q
<1>1. P \in Nat \ {0}
  BY Bounds
<1> HIDE DEF P
<1>2. q \in Nat /\ m \in 0 .. P - 1 /\ P * q \in Nat
  BY <1>1
<1>3. i = P * q + m
  BY <1>2
<1> HIDE DEF q, m
<1>4. (q + 1) * P = P * q + P
  BY <1>1, <1>2
<1>5. (q + 1) * P - 1 >= i
  BY <1>1, <1>2, <1>3, <1>4
<1> QED BY <1>5 DEF q, P

\* the numbers of this node below i that nobody has asked for are in consensus
NoGap(s, i) ==
  \A j \in sealStartIndex(s) .. i - 1 :
    LeaderIndex(j, s.view) = Me /\ j > s.sealEnd => j \in s.executing \cup Indices(s.accepted)

\* notifySealer forgets nothing, and reaches the next number of the ledger.
LEMMA NotifyTold ==
  ASSUME NEW s \in State, NEW T, NEW i \in Nat \ {0}
  PROVE  LET t == notifySealer(s, i) IN
         /\ t.timeout = s.timeout /\ Grows(s, t, T)
         /\ NoGap(s, i) /\ Asked(s, T) => Asked(t, T)
         /\ i = s.committed + 1 /\ LeaderIndex(i, s.view) = Me /\ canHandleNewProposal(s)
              => t.sealEnd >= i
<1> DEFINE end   == endProposalIndex(s, i)
           start == Larger(s.sealEnd + 1, i)
           r     == [op |-> "seal", start |-> start, end |-> end, retry |-> 0]
           asks  == /\ LeaderIndex(i, s.view) = Me /\ canHandleNewProposal(s)
                    /\ s.sealEnd < end /\ start <= end
                    /\ s.resetting = {} \/ start <= s.committed + 1
           t     == [s EXCEPT !.toSealer = Append(s.toSealer, r), !.sealEnd = end]
           n     == notifySealer(s, i)
<1>1. n = IF asks THEN t ELSE s
  <2>1. asyncNotifySealProposal(s, start, end, 0) = [s EXCEPT !.toSealer = Append(@, r)]
    BY DEF asyncNotifySealProposal
  <2>2. [asyncNotifySealProposal(s, start, end, 0) EXCEPT !.sealEnd = end] = t
    BY <2>1 DEF State
  <2> HIDE DEF t
  <2> QED BY <2>2 DEF notifySealer
<1> DEFINE top == (i \div LeaderSwitchPeriod + 1) * LeaderSwitchPeriod - 1
<1>2. top \in Int /\ top >= i
  <2>1. i \div LeaderSwitchPeriod \in Nat
    BY Bounds
  <2>2. top \in Int
    BY <2>1, Bounds
  <2> QED BY <2>2, PeriodEnd
<1>3. end = Smaller(top, highWaterMark(s) - 1)
  BY DEF endProposalIndex
<1> HIDE DEF top, end
<1>4. /\ end \in Int /\ end <= s.committed + WaterMarkLimit
      /\ i = s.committed + 1 => end >= i
  BY <1>2, <1>3, Numbers, Bounds DEF Smaller
<1>5. /\ start \in Int /\ start >= i /\ start >= s.sealEnd + 1
      /\ start = i \/ start = s.sealEnd + 1
  BY Numbers DEF Larger
<1>6. n \in State /\ SameRest(s, n)
  BY Notified
<1>7. CASE ~asks
  <2>1. n = s
    BY <1>1, <1>7
  <2>2. Grows(s, s, T)
    BY DEF Grows
  <2>3. ASSUME i = s.committed + 1, LeaderIndex(i, s.view) = Me, canHandleNewProposal(s)
        PROVE  s.sealEnd >= i
    BY <1>4, <1>5, <1>7, <2>3, Numbers
  <2> HIDE DEF n
  <2> QED BY <2>1, <2>2, <2>3 DEF n
<1>8. CASE asks
  <2>1. start \in Number /\ end \in Number /\ start <= end
    BY <1>4, <1>5, <1>8, Numbers, Bounds
  <2> HIDE DEF start
  <2>2. r \in SealRequest /\ r.retry = 0 /\ r.start = start /\ r.end = end
    BY <2>1 DEF SealRequest
  <2> HIDE DEF r
  <2>3. /\ n.toSealer = Append(s.toSealer, r) /\ n.sealEnd = end /\ n.timeout = s.timeout
    <3>1. n = t
      BY <1>1, <1>8
    <3>2. t.toSealer = Append(s.toSealer, r) /\ t.sealEnd = end /\ t.timeout = s.timeout
      BY DEF State
    <3> HIDE DEF n, t
    <3> QED BY <3>1, <3>2
  <2> HIDE DEF n, t
  <2>4. Grows(s, n, T) /\ \A j \in start .. end : Handled(n, T, j)
    BY <1>6, <2>2, <2>3, RangeGrows
  <2>5. ASSUME NoGap(s, i), Asked(s, T) PROVE Asked(n, T)
    <3> SUFFICES ASSUME NEW j \in sealStartIndex(s) .. end, LeaderIndex(j, s.view) = Me
                 PROVE  Handled(n, T, j)
      <4>1. sealStartIndex(n) = sealStartIndex(s) /\ n.view = s.view
        BY <1>6 DEF SameRest, sealStartIndex
      <4> QED BY <2>3, <4>1 DEF Asked
    <3>1. sealStartIndex(s) \in Int /\ s.sealEnd \in Int /\ j \in Int
      BY <1>4, Numbers
    <3>2. CASE j <= s.sealEnd
      <4>1. j \in sealStartIndex(s) .. s.sealEnd
        BY <3>1, <3>2
      <4>2. Handled(s, T, j)
        BY <2>5, <4>1 DEF Asked
      <4> QED BY <2>4, <4>2 DEF Grows
    <3>3. CASE j > s.sealEnd /\ j < i
      <4>1. j \in sealStartIndex(s) .. i - 1
        BY <3>1, <3>3
      <4>2. j \in s.executing \cup Indices(s.accepted)
        BY <2>5, <3>3, <4>1 DEF NoGap
      <4>3. Handled(s, T, j)
        BY <4>2 DEF Handled
      <4> QED BY <2>4, <4>3 DEF Grows
    <3>4. CASE j > s.sealEnd /\ j >= i
      <4>1. j \in start .. end
        BY <1>4, <1>5, <3>1, <3>4
      <4> QED BY <2>4, <4>1
    <3> QED BY <3>1, <3>2, <3>3, <3>4
  <2> QED BY <1>4, <2>3, <2>4, <2>5 DEF n
<1> QED BY <1>7, <1>8

\* reNotifySealer, from a number that is not beyond the open ones.
LEMMA RenotifyTold ==
  ASSUME NEW s \in State, NEW T, NEW i \in Nat \ {0}
  PROVE  LET t == reNotifySealer(s, i) IN
         /\ t.timeout = s.timeout /\ Grows(s, t, T)
         /\ i <= sealStartIndex(s) /\ Asked(s, T) => Asked(t, T)
         /\ i = s.committed + 1 /\ LeaderIndex(i, s.view) = Me /\ canHandleNewProposal(s)
              => t.sealEnd >= i
<1> DEFINE u == [s EXCEPT !.sealEnd = i - 1]
           t == notifySealer(u, i)
           n == reNotifySealer(s, i)
<1>1. CASE i >= highWaterMark(s) \/ i < s.committed
  <2>1. n = s
    BY <1>1 DEF reNotifySealer
  <2>2. Grows(s, s, T)
    BY DEF Grows
  <2>3. i # s.committed + 1
    BY <1>1, Numbers, Bounds
  <2> HIDE DEF n
  <2> QED BY <2>1, <2>2, <2>3 DEF n
<1>2. CASE ~(i >= highWaterMark(s) \/ i < s.committed)
  <2>1. n = t
    BY <1>2 DEF reNotifySealer
  <2>2. i - 1 \in Number
    BY <1>2, Numbers, Bounds
  <2>3. /\ u \in State /\ u.toSealer = s.toSealer /\ SameRest(s, u) /\ u.timeout = s.timeout
        /\ u.sealEnd = i - 1
    BY <2>2 DEF State, SameRest
  <2> HIDE DEF u
  <2>4. sealStartIndex(u) = sealStartIndex(s) /\ sealStartIndex(s) \in Int
    BY <2>3, Numbers DEF SameRest, sealStartIndex
  <2>5. ASSUME i <= sealStartIndex(s) PROVE Asked(u, T) /\ NoGap(u, i)
    <3>1. sealStartIndex(u) .. u.sealEnd = {} /\ sealStartIndex(u) .. i - 1 = {}
      BY <2>3, <2>4, <2>5
    <3> QED BY <3>1 DEF Asked, NoGap
  <2>6. /\ t.timeout = u.timeout /\ Grows(u, t, T)
        /\ NoGap(u, i) /\ Asked(u, T) => Asked(t, T)
        /\ i = u.committed + 1 /\ LeaderIndex(i, u.view) = Me /\ canHandleNewProposal(u)
             => t.sealEnd >= i
    BY <2>3, NotifyTold
  <2>7. i <= sealStartIndex(s) => Asked(t, T)
    BY <2>5, <2>6
  <2> HIDE DEF t, n
  <2>8. Grows(s, u, T)
    BY <2>3 DEF Grows, SameRest, Handled, Covered, Returns, Fresh, Dated, Tries
  <2>9. Grows(s, t, T)
    BY <2>6, <2>8 DEF Grows
  <2>10. u.committed = s.committed /\ u.view = s.view
         /\ (canHandleNewProposal(s) => canHandleNewProposal(u))
    BY <2>3 DEF SameRest, canHandleNewProposal
  <2> QED BY <2>1, <2>3, <2>6, <2>7, <2>9, <2>10 DEF n
<1> QED BY <1>1, <1>2

\* notifyResetSealing: all numbers are to be asked for again.
LEMMA ResetTold ==
  ASSUME NEW s \in State, NEW T, NEW back \in Number, back \in {0, s.committed + 1}
  PROVE  LET t == notifyResetSealing(s, back) IN
         /\ t.timeout = s.timeout /\ Asked(t, T) /\ Returns(t, back)
         /\ Fresh(s) => Fresh(t)
         /\ \A n \in Nat : Tries(s, n) => Tries(t, n)
<1> DEFINE r == [op |-> "reset", back |-> back, at |-> s.committed]
           e == sealStartIndex(s) - 1
           u == Append(s.toSealer, r)
           t == notifyResetSealing(s, back)
<1>1. t = [s EXCEPT !.toSealer = u, !.sealEnd = e]
  BY DEF notifyResetSealing
<1>2. r \in ResetRequest /\ r.back = back /\ r.at = s.committed
  BY Registers DEF ResetRequest
<1>3. t \in State /\ SameRest(s, t)
  BY ResetSent
<1> HIDE DEF r, e, t
<1>4. t.timeout = s.timeout /\ t.toSealer = u /\ t.sealEnd = e
  BY <1>1 DEF State
<1>5. s.toSealer \in Seq(Message)
  BY Registers DEF Message
<1>6. /\ Back(u, r.back)
      /\ \A x : Dated(x, s.toSealer) /\ r.at <= x.committed /\ r.back \in {0, r.at + 1} => Dated(x, u)
      /\ \A k : Tried(s.toSealer, k) => Tried(u, k)
  BY <1>2, <1>5, ResetAppended
<1> HIDE DEF u
<1>7. Asked(t, T)
  <2>1. sealStartIndex(t) = sealStartIndex(s) /\ sealStartIndex(s) \in Int
    BY <1>3, Numbers DEF SameRest, sealStartIndex
  <2>2. sealStartIndex(t) .. t.sealEnd = {}
    BY <1>4, <2>1 DEF e
  <2> QED BY <2>2 DEF Asked
<1>8. Returns(t, back)
  BY <1>2, <1>4, <1>6 DEF Returns
<1>9. ASSUME Fresh(s) PROVE Fresh(t)
  <2>1. Dated(s, s.toSealer) /\ Dated(s, s.answers) /\ s.committed <= s.committed
    BY <1>9, Numbers DEF Fresh
  <2>2. Dated(s, u)
    BY <1>2, <1>6, <2>1
  <2> QED BY <1>3, <1>4, <2>1, <2>2 DEF Fresh, Dated, SameRest
<1>10. \A n \in Nat : Tries(s, n) => Tries(t, n)
  BY <1>3, <1>4, <1>6 DEF Tries, SameRest
<1> QED BY <1>4, <1>7, <1>8, <1>9, <1>10 DEF t


-----------------------------------------------------------------------------
(* The leader is told: steps *)

\* What is lost stays lost, and faults are counted.
LEMMA LossCounted ==
  ASSUME TypeOK, NEW k \in Faults, Fault(k), ~Lost'
  PROVE  /\ ~Lost /\ k \notin {"reset", "stale", "late", "recover", "behind", "ahead"}
         /\ faults["notify"] \in Nat /\ faults'["notify"] \in Nat /\ faults'["notify"] <= 3
         /\ k # "notify" => faults'["notify"] = faults["notify"]
         /\ k = "notify" => faults'["notify"] = faults["notify"] + 1
<1>1. faults \in [Faults -> Nat] /\ faults' = [faults EXCEPT ![k] = @ + 1]
  BY DEF TypeOK, Fault
<1> DEFINE K == {"reset", "stale", "late", "recover", "behind", "ahead"}
<1>2. "notify" \in Faults /\ K \subseteq Faults
  BY DEF Faults
<1>3. (\A l \in K : ~(faults'[l] > 0)) /\ ~(faults'["notify"] > 3)
  BY DEF Lost
<1> HIDE DEF K
<1>4. \A l \in Faults : /\ faults[l] \in Nat /\ faults'[l] \in Nat /\ faults'[l] >= faults[l]
                        /\ l = k => faults'[l] = faults[l] + 1
                        /\ l # k => faults'[l] = faults[l]
  BY <1>1
<1>5. \A l \in K : ~(faults[l] > 0) /\ l # k
  BY <1>2, <1>3, <1>4
<1>6. ~(faults["notify"] > 3) /\ faults'["notify"] <= 3
  BY <1>2, <1>3, <1>4
<1>7. ~Lost
  BY <1>5, <1>6 DEF Lost, K
<1> QED BY <1>2, <1>4, <1>5, <1>6, <1>7 DEF K

\* How a step without a fault keeps the invariant: by the state it leads to.
LEMMA StepTold ==
  ASSUME TypeOK, ToldInv, NEW t, Step(t), Told(node, todo) => Told(t, todo),
         \A n \in Nat : Tries(node, n) => Tries(t, n)
  PROVE  ToldInv'
<1>1. node' = t /\ todo' = todo /\ faults' = faults
  BY DEF Step
<1>2. faults["notify"] \in Nat
  BY DEF TypeOK, Faults
<1>3. Lost => Lost'
  BY <1>1 DEF Lost
<1>4. ASSUME ~Lost PROVE Told(t, todo) /\ Tries(t, faults["notify"])
  BY <1>2, <1>4 DEF ToldInv
<1> QED BY <1>1, <1>3, <1>4 DEF ToldInv

\* The same for a step that counts a fault other than a failed notification.
LEMMA EventTold ==
  ASSUME TypeOK, ToldInv, NEW k \in Faults, k # "notify", NEW t, Event(k, t),
         Told(node, todo) => Told(t, todo), \A n \in Nat : Tries(node, n) => Tries(t, n)
  PROVE  ToldInv'
<1>1. node' = t /\ todo' = todo /\ Fault(k)
  BY DEF Event
<1>2. ASSUME ~Lost' PROVE Told(t, todo) /\ Tries(t, faults'["notify"])
  <2>1. ~Lost /\ faults["notify"] \in Nat /\ faults'["notify"] = faults["notify"]
    BY <1>1, <1>2, LossCounted
  <2> QED BY <2>1 DEF ToldInv
<1> QED BY <1>1, <1>2 DEF ToldInv

\* The same for a step that loses a notification.
LEMMA LossTold ==
  ASSUME TypeOK, NEW k \in {"reset", "stale", "late", "recover", "behind", "ahead"}, NEW t,
         Event(k, t)
  PROVE  ToldInv'
<1>1. k \in Faults /\ Fault(k)
  BY DEF Faults, Event
<1>2. Lost'
  BY <1>1, LossCounted
<1> QED BY <1>2 DEF ToldInv

\* Steps that send nothing and take nothing out of consensus.
LEMMA CalmTold ==
  ASSUME NEW s \in State, NEW t \in State, NEW T, Told(s, T),
         t.view = s.view, t.committed = s.committed, t.expected = s.expected,
         t.waitSeal = s.waitSeal, t.waitReseal = s.waitReseal, t.sealEnd = s.sealEnd,
         t.toSealer = s.toSealer, t.answers = s.answers, t.retries = s.retries,
         t.submitted = s.submitted, t.executing = s.executing, s.accepted \subseteq t.accepted,
         t.timeout = s.timeout \/ t.timeout,
         t.syncing = s.syncing \/ t.syncing > t.committed
  PROVE  Told(t, T)
<1>1. InTurn(t) /\ OneSubmitted(t)
  BY DEF Told, InTurn, OneSubmitted
<1>2. Fresh(t)
  BY DEF Told, Fresh, Dated
<1>3. \A j : Handled(s, T, j) => Handled(t, T, j)
  BY DEF Handled, Covered, Indices
<1>4. Asked(t, T)
  BY <1>3 DEF Told, Asked, sealStartIndex
<1>5. Due(t, T)
  <2> SUFFICES ASSUME MayStart(t)
               PROVE  Handled(t, T, s.committed + 1) \/ Returns(t, s.committed + 1)
    BY DEF Due
  <2>1. ~t.timeout /\ t.syncing <= t.committed
    BY DEF MayStart
  <2>2. t.timeout = s.timeout /\ t.syncing = s.syncing
    <3>1. t.syncing \in Int /\ t.committed \in Int
      BY Registers, Bounds
    <3> QED BY <2>1, <3>1
  <2>3. MayStart(s)
    BY <2>2 DEF MayStart, canHandleNewProposal
  <2>4. Handled(s, T, s.committed + 1) \/ Returns(s, s.committed + 1)
    BY <2>3 DEF Told, Due
  <2> QED BY <1>3, <2>4 DEF Returns
<1> QED BY <1>1, <1>2, <1>4, <1>5 DEF Told

\* What notifications that fail is counted for depends on these registers.
LEMMA SameTries ==
  ASSUME NEW s, NEW t, t.toSealer = s.toSealer, t.retries = s.retries
  PROVE  \A n \in Nat : Tries(s, n) => Tries(t, n)
  BY DEF Tries

\* The sealer takes a range.
LEMMA TakesRangeTold ==
  ASSUME TypeOK, ToldInv, SealerTakesRange
  PROVE  ToldInv'
<1> DEFINE r == Head(node.toSealer)
           q == node.toSealer
           u == Tail(q)
           U == todo \cup (r.start .. r.end)
           t == Taken
<1>1. node \in State /\ q # <<>> /\ r.op = "seal" /\ q \in Seq(Message)
  BY Registers DEF TypeOK, SealerTakesRange, NextRequest, Message
<1>2. node' = t /\ todo' = U /\ faults' = faults
  BY DEF SealerTakesRange
<1>3. /\ u \in Seq(Message)
      /\ \A j : Live(q, j) => Live(u, j) \/ (r.op = "seal" /\ j \in r.start .. r.end /\ Clear(u))
      /\ Clear(q) => Clear(u)
      /\ \A i : Back(q, i) => Back(u, i) \/ (r.op = "reset" /\ r.back = i)
      /\ \A s : Dated(s, q) => Dated(s, u)
      /\ \A k : Tried(q, k) => Tried(u, k)
  BY <1>1, FirstTaken
<1>4. t \in State
  BY <1>1, MessageTaken
<1> HIDE DEF u, r
<1>5. /\ SameCourse(node, t) /\ t.sealEnd = node.sealEnd /\ t.toSealer = u
      /\ t.retries = node.retries /\ t.submitted = node.submitted /\ t.answers = node.answers
      /\ t.executing = node.executing /\ t.accepted = node.accepted
  BY <1>1 DEF Taken, State, SameCourse, u
<1> HIDE DEF t, q
<1>6. ASSUME Told(node, todo) PROVE Told(t, U)
  <2>1. InTurn(t) /\ OneSubmitted(t)
    BY <1>5, <1>6 DEF Told, InTurn, OneSubmitted, SameCourse
  <2>2. Fresh(t)
    <3>1. Dated(node, u) /\ Dated(node, node.answers)
      BY <1>3, <1>6 DEF Told, Fresh, q
    <3> QED BY <1>5, <3>1 DEF Fresh, Dated, SameCourse
  <2>3. ASSUME NEW j, Covered(node, todo, j) PROVE Covered(t, U, j)
    <3>1. CASE \E x \in node.retries : j \in x.start .. x.end
      BY <1>5, <3>1 DEF Covered
    <3>2. CASE Live(q, j)
      BY <1>3, <1>5, <3>2 DEF Covered
    <3>3. CASE j \in todo /\ Clear(q)
      BY <1>3, <1>5, <3>3 DEF Covered
    <3>4. CASE \E m \in node.submitted : m.proposal.index = j
      BY <1>5, <3>4 DEF Covered
    <3> QED BY <2>3, <3>1, <3>2, <3>3, <3>4 DEF Covered, q
  <2>4. \A j : Handled(node, todo, j) => Handled(t, U, j)
    BY <1>5, <2>3 DEF Handled
  <2>5. \A i : Returns(node, i) => Returns(t, i)
    BY <1>1, <1>3, <1>5 DEF Returns, q
  <2>6. Asked(t, U) /\ Due(t, U)
    <3> HIDE DEF U
    <3>1. \A j \in Int : j >= sealStartIndex(node) /\ Handled(node, todo, j) => Handled(t, U, j)
      BY <2>4
    <3>2. Asked(node, todo) /\ Due(node, todo)
      BY <1>6 DEF Told
    <3> QED BY <1>1, <1>4, <1>5, <2>5, <3>1, <3>2, StaysTold
  <2> QED BY <2>1, <2>2, <2>6 DEF Told
<1>7. \A k : Tries(node, k) => Tries(t, k)
  BY <1>3, <1>5 DEF Tries, q
<1>8. Lost => Lost'
  BY <1>2 DEF Lost
<1> QED BY <1>2, <1>6, <1>7, <1>8 DEF ToldInv

\* The sealer resets: it forgets its numbers, and will answer.
LEMMA ResetsTold ==
  ASSUME TypeOK, ToldInv, SealerResets
  PROVE  ToldInv'
<1> DEFINE r == Head(node.toSealer)
           q == node.toSealer
           u == Tail(q)
           w == Append(node.answers, r)
           t == [Taken EXCEPT !.answers = Append(@, r)]
<1>1. node \in State /\ q # <<>> /\ r.op = "reset" /\ q \in Seq(Message)
  BY Registers DEF TypeOK, SealerResets, NextRequest, Message
<1>2. node' = t /\ todo' = {} /\ faults' = faults
  BY DEF SealerResets
<1>3. /\ u \in Seq(Message) /\ r \in Message
      /\ \A j : Live(q, j) => Live(u, j) \/ (r.op = "seal" /\ j \in r.start .. r.end /\ Clear(u))
      /\ Clear(q) => Clear(u) /\ r.op # "reset"
      /\ \A i : Back(q, i) => Back(u, i) \/ (r.op = "reset" /\ r.back = i)
      /\ \A s : Dated(s, q) =>
           Dated(s, u) /\ (r.op = "reset" => r.at <= s.committed /\ r.back \in {0, r.at + 1})
      /\ \A k : Tried(q, k) => Tried(u, k)
  BY <1>1, FirstTaken
<1> HIDE DEF u, r
<1>4. r \in ResetRequest
  BY <1>1, <1>3 DEF Message, SealRequest, ResetRequest
<1>5. node.answers \in Seq(Message) /\ w \in Seq(ResetRequest)
  BY <1>1, <1>4, Registers DEF Message
<1>6. /\ \A i : Back(node.answers, i) => Back(w, i)
      /\ Back(w, r.back)
      /\ \A s : Dated(s, node.answers) /\ r.at <= s.committed /\ r.back \in {0, r.at + 1} => Dated(s, w)
  BY <1>4, <1>5, ResetAppended
<1>7. /\ t \in State /\ SameCourse(node, t) /\ t.sealEnd = node.sealEnd /\ t.toSealer = u
      /\ t.retries = node.retries /\ t.submitted = node.submitted /\ t.answers = w
      /\ t.executing = node.executing /\ t.accepted = node.accepted
  <2>1. Taken \in State /\ Taken.answers = node.answers
    BY <1>1, MessageTaken
  <2>2. t = [Taken EXCEPT !.answers = w]
    BY <2>1 DEF State
  <2> HIDE DEF t, w
  <2>3. t \in State
    BY <1>5, <2>1, <2>2 DEF State
  <2>4. Taken = [node EXCEPT !.toSealer = u]
    BY DEF Taken, u
  <2>5. /\ SameCourse(node, t) /\ t.sealEnd = node.sealEnd /\ t.toSealer = u
        /\ t.retries = node.retries /\ t.submitted = node.submitted /\ t.answers = w
        /\ t.executing = node.executing /\ t.accepted = node.accepted
    BY <1>1, <2>2, <2>4 DEF State, SameCourse
  <2> QED BY <2>3, <2>5
<1> HIDE DEF t, w, q
<1>8. ASSUME Told(node, todo) PROVE Told(t, {})
  <2>1. InTurn(t) /\ OneSubmitted(t)
    BY <1>7, <1>8 DEF Told, InTurn, OneSubmitted, SameCourse
  <2>2. Fresh(t)
    <3>1. Dated(node, q) /\ Dated(node, node.answers)
      BY <1>8 DEF Told, Fresh, q
    <3>2. Dated(node, u) /\ Dated(node, w)
      BY <1>1, <1>3, <1>6, <3>1
    <3> QED BY <1>7, <3>2 DEF Fresh, Dated, SameCourse
  <2>3. ASSUME NEW j, Covered(node, todo, j) PROVE Covered(t, {}, j)
    BY <1>1, <1>3, <1>7, <2>3 DEF Covered, q
  <2>4. \A j : Handled(node, todo, j) => Handled(t, {}, j)
    BY <1>7, <2>3 DEF Handled
  <2>5. \A i : Returns(node, i) => Returns(t, i)
    BY <1>1, <1>3, <1>6, <1>7 DEF Returns, q
  <2>6. Asked(t, {}) /\ Due(t, {})
    <3>1. \A j \in Int : j >= sealStartIndex(node) /\ Handled(node, todo, j) => Handled(t, {}, j)
      BY <2>4
    <3>2. Asked(node, todo) /\ Due(node, todo)
      BY <1>8 DEF Told
    <3> QED BY <1>1, <1>7, <2>5, <3>1, <3>2, StaysTold
  <2> QED BY <2>1, <2>2, <2>6 DEF Told
<1>9. \A k : Tries(node, k) => Tries(t, k)
  BY <1>3, <1>7 DEF Tries, q
<1>10. Lost => Lost'
  BY <1>2 DEF Lost
<1> QED BY <1>2, <1>8, <1>9, <1>10 DEF ToldInv


\* A notification fails: it waits to be repeated, until four have failed.
LEMMA FailsTold ==
  ASSUME TypeOK, ToldInv, SealerFails
  PROVE  ToldInv'
<1> SUFFICES ASSUME ~Lost'
             PROVE  Told(node', todo') /\ Tries(node', faults'["notify"])
  BY DEF ToldInv
<1> DEFINE r == Head(node.toSealer)
           q == node.toSealer
           u == Tail(q)
           x == [r EXCEPT !.retry = @ + 1]
           n == faults["notify"]
           R == node.retries \cup {x}
           y == [Taken EXCEPT !.retries = IF r.retry = 3 THEN @ ELSE @ \cup {x}]
           t == [Taken EXCEPT !.retries = R]
<1>1. node \in State /\ q # <<>> /\ r.op = "seal" /\ q \in Seq(Message)
  BY Registers DEF TypeOK, SealerFails, NextRequest, Message
<1>2. node' = y /\ todo' = todo /\ Fault("notify") /\ "notify" \in Faults
  BY DEF SealerFails, Event, Faults
<1>3. ~Lost /\ n \in Nat /\ faults'["notify"] = n + 1 /\ n + 1 <= 3
  BY <1>2, LossCounted
<1>4. Told(node, todo) /\ Tries(node, n)
  BY <1>3 DEF ToldInv
<1>5. /\ u \in Seq(Message) /\ r \in Message
      /\ \A j : Live(q, j) => Live(u, j) \/ (r.op = "seal" /\ j \in r.start .. r.end /\ Clear(u))
      /\ Clear(q) => Clear(u)
      /\ \A i : Back(q, i) => Back(u, i) \/ (r.op = "reset" /\ r.back = i)
      /\ \A s : Dated(s, q) => Dated(s, u)
      /\ \A k : Tried(q, k) => Tried(u, k) /\ (r.op = "seal" => r.retry <= k)
  BY <1>1, FirstTaken
<1> HIDE DEF u, r, n
<1>6. r \in SealRequest
  BY <1>1, <1>5 DEF Message, SealRequest, ResetRequest
<1>7. r.retry \in 0 .. 3 /\ r.retry <= n /\ r.retry # 3
  <2>1. r.retry \in 0 .. 3
    BY <1>6 DEF SealRequest
  <2>2. r.retry <= n
    BY <1>1, <1>4, <1>5 DEF Tries
  <2> QED BY <1>3, <2>1, <2>2
<1>8. x \in SealRequest /\ x.start = r.start /\ x.end = r.end /\ x.retry = r.retry + 1
  <2>1. r.retry + 1 \in 0 .. 3
    BY <1>7
  <2> QED BY <1>6, <2>1 DEF SealRequest
<1> HIDE DEF x
<1>9. R \in SUBSET SealRequest
  BY <1>1, <1>8, Registers
<1>10. Taken = [node EXCEPT !.toSealer = u] /\ Taken \in State /\ Taken.retries = node.retries
  BY <1>1, MessageTaken DEF Taken, u
<1>11. y = t
  <2>1. [Taken EXCEPT !.retries = Taken.retries \cup {x}] = [Taken EXCEPT !.retries = R]
    BY <1>10
  <2>2. y = [Taken EXCEPT !.retries = Taken.retries \cup {x}]
    BY <1>7, <1>10 DEF State
  <2> QED BY <2>1, <2>2
<1> HIDE DEF y, R
<1>12. /\ t \in State /\ SameCourse(node, t) /\ t.sealEnd = node.sealEnd /\ t.toSealer = u
       /\ t.retries = R /\ t.submitted = node.submitted /\ t.answers = node.answers
       /\ t.executing = node.executing /\ t.accepted = node.accepted
  <2>1. t \in State
    BY <1>9, <1>10 DEF State
  <2>2. /\ SameCourse(node, t) /\ t.sealEnd = node.sealEnd /\ t.toSealer = u
        /\ t.retries = R /\ t.submitted = node.submitted /\ t.answers = node.answers
        /\ t.executing = node.executing /\ t.accepted = node.accepted
    BY <1>1, <1>10 DEF State, SameCourse
  <2> QED BY <2>1, <2>2
<1> HIDE DEF t, q
<1>13. InTurn(t) /\ OneSubmitted(t)
  BY <1>4, <1>12 DEF Told, InTurn, OneSubmitted, SameCourse
<1>14. Fresh(t)
  <2>1. Dated(node, u) /\ Dated(node, node.answers)
    BY <1>4, <1>5 DEF Told, Fresh, q
  <2> QED BY <1>12, <2>1 DEF Fresh, Dated, SameCourse
<1>15. ASSUME NEW j, Covered(node, todo, j) PROVE Covered(t, todo, j)
  <2>1. CASE \E z \in node.retries : j \in z.start .. z.end
    BY <1>12, <2>1 DEF Covered, R
  <2>2. CASE Live(q, j)
    <3>1. CASE Live(u, j)
      BY <1>12, <3>1 DEF Covered
    <3>2. CASE ~Live(u, j)
      <4>1. j \in x.start .. x.end /\ x \in R
        BY <1>5, <1>8, <2>2, <3>2 DEF R
      <4> QED BY <1>12, <4>1 DEF Covered
    <3> QED BY <3>1, <3>2
  <2>3. CASE j \in todo /\ Clear(q)
    BY <1>5, <1>12, <2>3 DEF Covered
  <2>4. CASE \E m \in node.submitted : m.proposal.index = j
    BY <1>12, <2>4 DEF Covered
  <2> QED BY <1>15, <2>1, <2>2, <2>3, <2>4 DEF Covered, q
<1>16. \A j \in Int : j >= sealStartIndex(node) /\ Handled(node, todo, j) => Handled(t, todo, j)
  BY <1>12, <1>15 DEF Handled
<1>17. \A i : Returns(node, i) => Returns(t, i)
  BY <1>1, <1>5, <1>12 DEF Returns, q
<1>18. Asked(t, todo) /\ Due(t, todo)
  <2>1. Asked(node, todo) /\ Due(node, todo)
    BY <1>4 DEF Told
  <2> QED BY <1>1, <1>12, <1>16, <1>17, <2>1, StaysTold
<1>19. Tries(t, n + 1)
  <2>1. Tried(u, n) /\ \A z \in node.retries : z.retry <= n
    BY <1>4, <1>5 DEF Tries, q
  <2>2. Tried(u, n + 1)
    <3> SUFFICES ASSUME NEW p \in 1 .. Len(u), u[p].op = "seal" PROVE u[p].retry <= n + 1
      BY DEF Tried
    <3>1. u[p].retry <= n /\ u[p] \in Message
      BY <1>5, <2>1 DEF Tried
    <3>2. u[p].retry \in Int
      BY <3>1 DEF Message, SealRequest, ResetRequest
    <3> QED BY <1>3, <3>1, <3>2
  <2>3. ASSUME NEW z \in R PROVE z.retry <= n + 1
    <3>1. z.retry \in Int
      BY <1>9 DEF SealRequest
    <3>2. CASE z = x
      BY <1>7, <1>8, <1>3, <3>2
    <3>3. CASE z # x
      BY <1>3, <2>1, <3>1, <3>3 DEF R
    <3> QED BY <3>2, <3>3
  <2> QED BY <1>12, <2>2, <2>3 DEF Tries
<1> QED BY <1>2, <1>3, <1>11, <1>13, <1>14, <1>18, <1>19 DEF Told

\* A notification is repeated.
LEMMA RetryTold ==
  ASSUME TypeOK, SealingInv, ToldInv, NEW r \in node.retries, RetryNotification(r)
  PROVE  ToldInv'
<1> DEFINE R == node.retries \ {r}
           u == [node EXCEPT !.retries = R]
           x == [op |-> "seal", start |-> r.start, end |-> r.end, retry |-> r.retry]
           q == node.toSealer
           w == Append(q, x)
           t == [u EXCEPT !.toSealer = w]
<1>1. node \in State /\ r \in SealRequest /\ q \in Seq(Message)
  BY Registers DEF TypeOK, Message
<1>2. r.retry \in 0 .. 3 /\ R \in SUBSET SealRequest
  BY <1>1, Registers DEF SealRequest
<1>3. x \in SealRequest /\ x.start = r.start /\ x.end = r.end /\ x.retry = r.retry
  BY <1>1 DEF SealRequest
<1>4. Step(t)
  <2>1. u.toSealer = q
    BY <1>1 DEF State
  <2>2. asyncNotifySealProposal(u, r.start, r.end, r.retry) = [u EXCEPT !.toSealer = Append(u.toSealer, x)]
    BY <1>2 DEF asyncNotifySealProposal
  <2>3. Step(asyncNotifySealProposal(u, r.start, r.end, r.retry))
    BY DEF RetryNotification
  <2> QED BY <2>1, <2>2, <2>3
<1> HIDE DEF x
<1>5. /\ \A j : Live(q, j) \/ j \in x.start .. x.end => Live(w, j)
      /\ Clear(q) => Clear(w)
      /\ \A i : Back(q, i) => Back(w, i)
      /\ \A s : Dated(s, q) => Dated(s, w)
      /\ \A k : Tried(q, k) /\ x.retry <= k => Tried(w, k)
  BY <1>1, <1>3, RangeAppended
<1>6. w \in Seq(SealRequest \cup ResetRequest)
  BY <1>1, <1>3 DEF Message
<1> HIDE DEF w, R
<1>7. /\ t \in State /\ SameCourse(node, t) /\ t.sealEnd = node.sealEnd /\ t.toSealer = w
      /\ t.retries = R /\ t.submitted = node.submitted /\ t.answers = node.answers
      /\ t.executing = node.executing /\ t.accepted = node.accepted
  <2>1. t \in State
    BY <1>1, <1>2, <1>6 DEF State
  <2>2. /\ SameCourse(node, t) /\ t.sealEnd = node.sealEnd /\ t.toSealer = w
        /\ t.retries = R /\ t.submitted = node.submitted /\ t.answers = node.answers
        /\ t.executing = node.executing /\ t.accepted = node.accepted
    BY <1>1 DEF State, SameCourse
  <2> QED BY <2>1, <2>2
<1> HIDE DEF t, u, q
<1>8. ASSUME Told(node, todo) PROVE Told(t, todo)
  <2>1. InTurn(t) /\ OneSubmitted(t)
    BY <1>7, <1>8 DEF Told, InTurn, OneSubmitted, SameCourse
  <2>2. Fresh(t)
    <3>1. Dated(node, w) /\ Dated(node, node.answers)
      BY <1>5, <1>8 DEF Told, Fresh, q
    <3> QED BY <1>7, <3>1 DEF Fresh, Dated, SameCourse
  <2>3. ASSUME NEW j, Covered(node, todo, j) PROVE Covered(t, todo, j)
    <3>1. CASE \E z \in node.retries : j \in z.start .. z.end
      <4>1. PICK z \in node.retries : j \in z.start .. z.end
        BY <3>1
      <4>2. CASE z = r
        BY <1>3, <1>5, <1>7, <4>1, <4>2 DEF Covered
      <4>3. CASE z # r
        BY <1>7, <4>1, <4>3 DEF Covered, R
      <4> QED BY <4>2, <4>3
    <3>2. CASE Live(q, j) \/ (j \in todo /\ Clear(q)) \/ \E m \in node.submitted : m.proposal.index = j
      BY <1>5, <1>7, <3>2 DEF Covered
    <3> QED BY <2>3, <3>1, <3>2 DEF Covered, q
  <2>4. \A j \in Int : j >= sealStartIndex(node) /\ Handled(node, todo, j) => Handled(t, todo, j)
    BY <1>7, <2>3 DEF Handled
  <2>5. \A i : Returns(node, i) => Returns(t, i)
    BY <1>5, <1>7 DEF Returns, q
  <2>6. Asked(t, todo) /\ Due(t, todo)
    <3>1. Asked(node, todo) /\ Due(node, todo)
      BY <1>8 DEF Told
    <3> QED BY <1>1, <1>7, <2>4, <2>5, <3>1, StaysTold
  <2> QED BY <2>1, <2>2, <2>6 DEF Told
<1>9. \A n \in Nat : Tries(node, n) => Tries(t, n)
  BY <1>3, <1>5, <1>7 DEF Tries, q, R
<1> QED BY <1>4, <1>8, <1>9, StepTold


\* Notifications leave alone what is executed and submitted.
LEMMA RestTold ==
  ASSUME NEW s, NEW t, SameRest(s, t)
  PROVE  /\ InTurn(s) => InTurn(t)
         /\ OneSubmitted(s) => OneSubmitted(t)
         /\ sealStartIndex(t) = sealStartIndex(s)
         /\ canHandleNewProposal(t) = canHandleNewProposal(s)
         /\ t.view = s.view /\ t.committed = s.committed
  BY DEF SameRest, InTurn, OneSubmitted, sealStartIndex, canHandleNewProposal

\* The callback of a reset asks again for the number the reset leads back to.
LEMMA AnsweredTold ==
  ASSUME TypeOK, ToldInv, ResetAnswered
  PROVE  ToldInv'
<1> DEFINE b == node.answers
           a == Head(b)
           q == Tail(b)
           u == [node EXCEPT !.answers = q]
           t == IF a.back # 0 /\ u.waitReseal <= a.at THEN reNotifySealer(u, a.back) ELSE u
           c == node.committed
<1>1. node \in State /\ b # <<>> /\ b \in Seq(Message) /\ b \in Seq(ResetRequest)
  BY Registers DEF TypeOK, ResetAnswered, Message
<1>2. Step(t)
  BY DEF ResetAnswered
<1>3. /\ \A i : Back(b, i) => Back(q, i) \/ (a.op = "reset" /\ a.back = i)
      /\ \A s : Dated(s, b) =>
           Dated(s, q) /\ (a.op = "reset" => a.at <= s.committed /\ a.back \in {0, a.at + 1})
  BY <1>1, FirstTaken
<1>4. a \in ResetRequest /\ q \in Seq(ResetRequest)
  BY <1>1
<1> HIDE DEF a, q
<1>5. a.op = "reset" /\ a.back \in Nat /\ a.at \in Nat
  BY <1>4, Bounds DEF ResetRequest
<1>6. /\ u \in State /\ SameCourse(node, u) /\ u.sealEnd = node.sealEnd
      /\ u.toSealer = node.toSealer
      /\ u.retries = node.retries /\ u.submitted = node.submitted /\ u.answers = q
      /\ u.executing = node.executing /\ u.accepted = node.accepted
  <2>1. u \in State
    BY <1>1, <1>4 DEF State
  <2> QED BY <1>1, <2>1 DEF State, SameCourse
<1> HIDE DEF u, b
<1>7. /\ c \in Nat /\ sealStartIndex(u) \in Int /\ sealStartIndex(u) >= c + 1 /\ u.committed = c
      /\ sealStartIndex(u) = sealStartIndex(node)
  BY <1>1, <1>6, Numbers DEF SameCourse, sealStartIndex
<1>8. \A j : Handled(node, todo, j) <=> Handled(u, todo, j)
  BY <1>6 DEF Handled, Covered
<1>9. \A n \in Nat : Tries(node, n) => Tries(u, n)
  BY <1>6, SameTries
<1>10. ASSUME Told(node, todo)
       PROVE  /\ InTurn(u) /\ OneSubmitted(u) /\ Asked(u, todo) /\ Fresh(u)
              /\ a.at <= c /\ a.back \in {0, a.at + 1}
              /\ MayStart(u) => Handled(u, todo, c + 1) \/ Returns(u, c + 1) \/ a.back = c + 1
  <2>1. InTurn(u) /\ OneSubmitted(u)
    BY <1>6, <1>10 DEF Told, InTurn, OneSubmitted, SameCourse
  <2>2. Asked(u, todo)
    BY <1>6, <1>7, <1>8, <1>10 DEF Told, Asked, SameCourse
  <2>3. Dated(node, node.toSealer) /\ Dated(node, b)
    BY <1>10 DEF Told, Fresh, b
  <2>4. Dated(node, q) /\ a.at <= c /\ a.back \in {0, a.at + 1}
    BY <1>3, <1>5, <2>3
  <2>5. Fresh(u)
    BY <1>6, <2>3, <2>4 DEF Fresh, Dated, SameCourse
  <2>6. ASSUME MayStart(u)
        PROVE  Handled(u, todo, c + 1) \/ Returns(u, c + 1) \/ a.back = c + 1
    <3>1. MayStart(node)
      BY <1>6, <2>6 DEF MayStart, SameCourse, canHandleNewProposal
    <3>2. Handled(node, todo, c + 1) \/ Returns(node, c + 1)
      BY <1>10, <3>1 DEF Told, Due
    <3>3. Returns(node, c + 1) => Returns(u, c + 1) \/ a.back = c + 1
      BY <1>3, <1>6 DEF Returns, b
    <3> QED BY <1>8, <3>2, <3>3
  <2> QED BY <2>1, <2>2, <2>4, <2>5, <2>6
<1>11. CASE a.back # 0 /\ u.waitReseal <= a.at
  <2> DEFINE n == reNotifySealer(u, a.back)
  <2>1. t = n
    BY <1>11
  <2>2. a.back \in Nat \ {0}
    BY <1>5, <1>11
  <2>3. n \in State /\ SameRest(u, n)
    BY <1>6, <2>2, Renotified
  <2>4. /\ n.view = u.view /\ n.committed = u.committed
        /\ canHandleNewProposal(n) = canHandleNewProposal(u)
        /\ (InTurn(u) => InTurn(n)) /\ (OneSubmitted(u) => OneSubmitted(n))
    BY <2>3, RestTold
  <2>5. /\ n.timeout = u.timeout /\ Grows(u, n, todo)
        /\ a.back <= sealStartIndex(u) /\ Asked(u, todo) => Asked(n, todo)
        /\ a.back = c + 1 /\ LeaderIndex(a.back, u.view) = Me /\ canHandleNewProposal(u)
             => n.sealEnd >= a.back
    BY <1>6, <1>7, <2>2, RenotifyTold
  <2> HIDE DEF n
  <2>6. ASSUME Told(node, todo) PROVE Told(n, todo)
    <3>1. /\ InTurn(u) /\ OneSubmitted(u) /\ Asked(u, todo) /\ Fresh(u)
          /\ a.at <= c /\ a.back \in {0, a.at + 1}
          /\ MayStart(u) => Handled(u, todo, c + 1) \/ Returns(u, c + 1) \/ a.back = c + 1
      BY <1>10, <2>6
    <3>2. a.back <= sealStartIndex(u)
      BY <1>5, <1>7, <3>1
    <3>3. /\ n.timeout = u.timeout /\ Grows(u, n, todo) /\ Asked(n, todo)
          /\ a.back = c + 1 /\ LeaderIndex(a.back, u.view) = Me /\ canHandleNewProposal(u)
               => n.sealEnd >= a.back
      BY <2>5, <3>1, <3>2
    <3>4. Due(n, todo)
      <4>1. CASE a.back = c + 1
        BY <1>7, <2>3, <2>4, <3>3, <4>1, ReachedIsDue
      <4>2. CASE a.back # c + 1
        <5>1. MayStart(n) => MayStart(u)
          BY <2>3, <3>3 DEF MayStart, SameRest, canHandleNewProposal
        <5>2. MayStart(n) => Handled(n, todo, c + 1) \/ Returns(n, c + 1)
          BY <3>1, <3>3, <4>2, <5>1 DEF Grows
        <5> QED BY <1>7, <2>4, <5>2 DEF Due
      <4> QED BY <4>1, <4>2
    <3>5. Fresh(n)
      BY <3>1, <3>3 DEF Grows
    <3> QED BY <2>4, <3>1, <3>3, <3>4, <3>5 DEF Told
  <2>7. \A k \in Nat : Tries(node, k) => Tries(n, k)
    BY <1>9, <2>5 DEF Grows
  <2> QED BY <1>2, <2>1, <2>6, <2>7, StepTold
<1>12. CASE ~(a.back # 0 /\ u.waitReseal <= a.at)
  <2>1. t = u
    BY <1>12
  <2>2. ASSUME Told(node, todo) PROVE Told(u, todo)
    <3>1. /\ InTurn(u) /\ OneSubmitted(u) /\ Asked(u, todo) /\ Fresh(u)
          /\ a.at <= c /\ a.back \in {0, a.at + 1}
          /\ MayStart(u) => Handled(u, todo, c + 1) \/ Returns(u, c + 1) \/ a.back = c + 1
      BY <1>10, <2>2
    <3>2. MayStart(u) => a.back # c + 1
      <4>1. MayStart(u) => u.waitReseal <= c
        BY <1>7 DEF MayStart, canHandleNewProposal
      <4>2. u.waitReseal \in Int
        BY <1>6, Registers, Bounds
      <4> QED BY <1>5, <1>7, <1>12, <3>1, <4>1, <4>2
    <3>3. Due(u, todo)
      BY <1>7, <3>1, <3>2 DEF Due
    <3> QED BY <3>1, <3>3 DEF Told
  <2> QED BY <1>2, <1>9, <2>1, <2>2, StepTold
<1> QED BY <1>11, <1>12


\* A reset from the registers of the node.
LEMMA NodeReset ==
  ASSUME TypeOK, NEW T, NEW back \in {0, node.committed + 1},
         node.timeout \/ back = node.committed + 1
  PROVE  LET t == notifyResetSealing(node, back) IN
         /\ Told(node, todo) => Told(t, T)
         /\ \A n \in Nat : Tries(node, n) => Tries(t, n)
<1> DEFINE t == notifyResetSealing(node, back)
<1>1. node \in State /\ back \in Number
  <2>1. node \in State
    BY DEF TypeOK
  <2>2. 0 \in Number /\ node.committed + 1 \in Number
    BY <2>1, Numbers, Bounds
  <2> QED BY <2>1, <2>2
<1>2. t \in State /\ SameRest(node, t)
  BY <1>1, ResetSent
<1>3. /\ t.timeout = node.timeout /\ Asked(t, T) /\ Returns(t, back)
      /\ Fresh(node) => Fresh(t)
      /\ \A n \in Nat : Tries(node, n) => Tries(t, n)
  BY <1>1, ResetTold
<1>4. /\ t.committed = node.committed
      /\ (InTurn(node) => InTurn(t)) /\ (OneSubmitted(node) => OneSubmitted(t))
  BY <1>2, RestTold
<1> HIDE DEF t
<1>5. Due(t, T)
  BY <1>3, <1>4 DEF Due, MayStart
<1>6. Told(node, todo) => Told(t, T)
  BY <1>3, <1>4, <1>5 DEF Told
<1> QED BY <1>3, <1>6 DEF t

\* The sealer submits a block: it waits, is of no use any more, or resets the sealer.
LEMMA SubmitTold ==
  ASSUME TypeOK, ToldInv, NEW i \in Index, SubmitProposal(i)
  PROVE  ToldInv'
<1> DEFINE m == [proposal |-> [index |-> i, txs |-> TRUE], view |-> node.view]
           u == [node EXCEPT !.submitted = {m}]
           t == onRecvProposal(node, i)
           k == node.committed + 1
           T == todo \ {i}
           r == notifyResetSealing(node, k)
           z == notifyResetSealing(node, 0)
<1>1. node \in State
  BY DEF TypeOK
<1>2. \/ t = r
      \/ t = z /\ node.timeout
      \/ t = node /\ i < sealStartIndex(node)
      \/ t = u
  <2>1. sealStartIndex(node) = Larger(k, node.expected)
    BY <1>1, Numbers DEF sealStartIndex, Larger
  <2> QED BY <2>1 DEF onRecvProposal
<1>3. node' = t /\ todo' = T /\ faults' = faults /\ node.submitted = {}
  BY DEF SubmitProposal
<1>4. i \in Int /\ sealStartIndex(node) \in Int
  BY <1>1, Numbers, Bounds
<1> HIDE DEF t
<1>5. m \in Pending /\ m.proposal.index = i
  BY <1>1, Registers DEF Pending, Proposal
<1> HIDE DEF m
<1>6. /\ u \in State /\ SameCourse(node, u) /\ u.sealEnd = node.sealEnd
      /\ u.toSealer = node.toSealer
      /\ u.retries = node.retries /\ u.submitted = {m} /\ u.answers = node.answers
      /\ u.executing = node.executing /\ u.accepted = node.accepted
  <2>1. u \in State
    BY <1>1, <1>5 DEF State
  <2> QED BY <1>1, <2>1 DEF State, SameCourse
<1> HIDE DEF u
<1>7. /\ Told(node, todo) => Told(r, T)
      /\ \A n \in Nat : Tries(node, n) => Tries(r, n)
  BY NodeReset
<1>8. ASSUME node.timeout
      PROVE  /\ Told(node, todo) => Told(z, T)
             /\ \A n \in Nat : Tries(node, n) => Tries(z, n)
  BY <1>8, NodeReset
<1> HIDE DEF r, z, T
<1>9. ASSUME Told(node, todo), i < sealStartIndex(node)
      PROVE  Told(node, T)
  <2>1. \A j : j # i /\ Covered(node, todo, j) => Covered(node, T, j)
    BY DEF Covered, T
  <2>2. \A j \in Int : j >= sealStartIndex(node) /\ Handled(node, todo, j) => Handled(node, T, j)
    BY <1>4, <1>9, <2>1 DEF Handled
  <2>3. SameCourse(node, node) /\ Asked(node, todo) /\ Due(node, todo)
    BY <1>9 DEF SameCourse, Told
  <2>4. Asked(node, T) /\ Due(node, T)
    BY <1>1, <2>2, <2>3, StaysTold
  <2> QED BY <1>9, <2>4 DEF Told
<1>10. ASSUME Told(node, todo) PROVE Told(u, T)
  <2>1. InTurn(u)
    BY <1>6, <1>10 DEF Told, InTurn, SameCourse
  <2>2. OneSubmitted(u)
    BY <1>6 DEF OneSubmitted
  <2>3. Fresh(u)
    BY <1>6, <1>10 DEF Told, Fresh, Dated, SameCourse
  <2>4. \A j : Covered(node, todo, j) => Covered(u, T, j)
    BY <1>3, <1>5, <1>6 DEF Covered, T
  <2>5. \A j \in Int : j >= sealStartIndex(node) /\ Handled(node, todo, j) => Handled(u, T, j)
    BY <1>6, <2>4 DEF Handled
  <2>6. \A x : Returns(node, x) => Returns(u, x)
    BY <1>6 DEF Returns
  <2>7. Asked(u, T) /\ Due(u, T)
    <3>1. Asked(node, todo) /\ Due(node, todo)
      BY <1>10 DEF Told
    <3> QED BY <1>1, <1>6, <2>5, <2>6, <3>1, StaysTold
  <2> QED BY <2>1, <2>2, <2>3, <2>7 DEF Told
<1>11. \A n \in Nat : Tries(node, n) => Tries(u, n)
  BY <1>6, SameTries
<1>12. /\ Told(node, todo) => Told(t, T)
       /\ \A n \in Nat : Tries(node, n) => Tries(t, n)
  BY <1>2, <1>7, <1>8, <1>9, <1>10, <1>11
<1>13. (Lost => Lost') /\ faults["notify"] \in Nat
  BY <1>3 DEF Lost, TypeOK, Faults
<1> QED BY <1>3, <1>12, <1>13 DEF ToldInv

\* asyncResetTxsFlag leaves alone what the sealer has been asked for.
LEMMA FlagRest ==
  ASSUME NEW s \in State, NEW p \in Proposal
  PROVE  LET t == asyncResetTxsFlag(s, p) IN
         /\ SameCourse(s, t) /\ t.sealEnd = s.sealEnd /\ t.toSealer = s.toSealer
         /\ t.retries = s.retries /\ t.submitted = s.submitted /\ t.answers = s.answers
         /\ t.executing = s.executing /\ t.accepted = s.accepted
<1> DEFINE c == [s.calls EXCEPT ![p] = Append(@, [stage |-> "queued", retry |-> 0])]
           R == s.resetting \cup {p}
           u == [s EXCEPT !.resetting = R, !.calls = c]
<1>1. asyncResetTxsFlag(s, p) \in {s, u}
  BY DEF asyncResetTxsFlag, State
<1> HIDE DEF c, R
<1>2. /\ SameCourse(s, u) /\ u.sealEnd = s.sealEnd /\ u.toSealer = s.toSealer
      /\ u.retries = s.retries /\ u.submitted = s.submitted /\ u.answers = s.answers
      /\ u.executing = s.executing /\ u.accepted = s.accepted
  BY DEF State, SameCourse
<1>3. SameCourse(s, s)
  BY DEF SameCourse
<1> HIDE DEF u
<1> QED BY <1>1, <1>2, <1>3

\* addPrePrepareCache only adds the proposal to those in consensus.
LEMMA AddRest ==
  ASSUME NEW s \in State, NEW p \in Proposal, Marks(s)
  PROVE  LET t == AddPrePrepare(s, p) IN
         /\ t \in State
         /\ SameCourse(s, t) /\ t.sealEnd = s.sealEnd /\ t.toSealer = s.toSealer
         /\ t.retries = s.retries /\ t.submitted = s.submitted /\ t.answers = s.answers
         /\ t.executing = s.executing /\ t.accepted = s.accepted \cup {p}
<1> DEFINE u == asyncResetTxsFlag(s, p)
           t == AddPrePrepare(s, p)
<1>1. t = [u EXCEPT !.accepted = @ \cup {p}]
  BY DEF AddPrePrepare
<1>2. t \in State /\ u \in State
  BY FlagSet, PrePrepareAdded
<1>3. /\ SameCourse(s, u) /\ u.sealEnd = s.sealEnd /\ u.toSealer = s.toSealer
      /\ u.retries = s.retries /\ u.submitted = s.submitted /\ u.answers = s.answers
      /\ u.executing = s.executing /\ u.accepted = s.accepted
  BY FlagRest
<1> HIDE DEF u, t
<1>4. /\ SameCourse(u, t) /\ t.sealEnd = u.sealEnd /\ t.toSealer = u.toSealer
      /\ t.retries = u.retries /\ t.submitted = u.submitted /\ t.answers = u.answers
      /\ t.executing = u.executing /\ t.accepted = u.accepted \cup {p}
  BY <1>1, <1>2 DEF State, SameCourse
<1> QED BY <1>2, <1>3, <1>4 DEF SameCourse, t

\* A submitted block is taken into the caches.
LEMMA HandleSubmittedTold ==
  ASSUME TypeOK, SealingInv, ToldInv, NEW m \in node.submitted, HandleSubmitted(m)
  PROVE  ToldInv'
<1> DEFINE u == [node EXCEPT !.submitted = {}]
           t == AddPrePrepare(u, m.proposal)
<1>1. node \in State /\ m.proposal \in Proposal
  BY Registers DEF TypeOK, Pending
<1>2. Step(t)
  BY DEF HandleSubmitted
<1>3. /\ u \in State /\ SameCourse(node, u) /\ u.sealEnd = node.sealEnd
      /\ u.toSealer = node.toSealer
      /\ u.retries = node.retries /\ u.submitted = {} /\ u.answers = node.answers
      /\ u.executing = node.executing /\ u.accepted = node.accepted
      /\ u.calls = node.calls /\ u.resetting = node.resetting
  <2>1. u \in State
    BY <1>1 DEF State
  <2> QED BY <1>1, <2>1 DEF State, SameCourse
<1>4. Marks(u)
  <2> HIDE DEF u
  <2> QED BY <1>3 DEF Marks, SealingInv, StateInv, TryLeft, Tracked
<1> HIDE DEF u
<1>5. /\ t \in State
      /\ SameCourse(u, t) /\ t.sealEnd = u.sealEnd /\ t.toSealer = u.toSealer
      /\ t.retries = u.retries /\ t.submitted = u.submitted /\ t.answers = u.answers
      /\ t.executing = u.executing /\ t.accepted = u.accepted \cup {m.proposal}
  BY <1>1, <1>3, <1>4, AddRest
<1> HIDE DEF t
<1>6. ASSUME Told(node, todo) PROVE Told(t, todo)
  <2>1. SameCourse(node, t) /\ t.sealEnd = node.sealEnd
    BY <1>3, <1>5 DEF SameCourse
  <2>2. InTurn(t) /\ OneSubmitted(t)
    BY <1>3, <1>5, <1>6, <2>1 DEF Told, InTurn, OneSubmitted, SameCourse
  <2>3. Fresh(t)
    BY <1>3, <1>5, <1>6, <2>1 DEF Told, Fresh, Dated, SameCourse
  <2>4. \A x \in node.submitted : x.proposal.index = m.proposal.index
    BY <1>6 DEF Told, OneSubmitted
  <2>5. m.proposal.index \in Indices(t.accepted)
    BY <1>5 DEF Indices
  <2>6. \A j : Covered(node, todo, j) => Covered(t, todo, j) \/ j \in Indices(t.accepted)
    BY <1>3, <1>5, <2>4, <2>5 DEF Covered
  <2>7. Indices(node.accepted) \subseteq Indices(t.accepted)
    BY <1>3, <1>5 DEF Indices
  <2>8. \A j \in Int : j >= sealStartIndex(node) /\ Handled(node, todo, j) => Handled(t, todo, j)
    BY <1>3, <1>5, <2>6, <2>7 DEF Handled
  <2>9. \A x : Returns(node, x) => Returns(t, x)
    BY <1>3, <1>5 DEF Returns
  <2>10. Asked(t, todo) /\ Due(t, todo)
    <3>1. Asked(node, todo) /\ Due(node, todo)
      BY <1>6 DEF Told
    <3> QED BY <1>1, <1>5, <2>1, <2>8, <2>9, <3>1, StaysTold
  <2> QED BY <2>2, <2>3, <2>10 DEF Told
<1>7. \A n \in Nat : Tries(node, n) => Tries(t, n)
  BY <1>3, <1>5, SameTries
<1> QED BY <1>2, <1>6, <1>7, StepTold

\* A submission that was overtaken is one of the losses.
LEMMA RefuseTold ==
  ASSUME TypeOK, NEW m \in node.submitted, RefuseSubmitted(m)
  PROVE  ToldInv'
<1>1. faults' = [faults EXCEPT !["stale"] = 1] /\ faults \in [Faults -> Nat] /\ "stale" \in Faults
  BY DEF RefuseSubmitted, TypeOK, Faults
<1>2. faults'["stale"] > 0
  BY <1>1
<1>3. Lost'
  BY <1>2 DEF Lost
<1> QED BY <1>3 DEF ToldInv


\* The marks alone change.
LEMMA MarksTold ==
  ASSUME TypeOK, ToldInv, TypeOK', NEW R, NEW c,
         LET t == [node EXCEPT !.resetting = R, !.calls = c] IN Step(t) \/ Event("mark", t)
  PROVE  ToldInv'
<1> DEFINE t == [node EXCEPT !.resetting = R, !.calls = c]
<1>1. node \in State /\ node' \in State /\ (Step(t) \/ Event("mark", t)) /\ "mark" \in Faults
  BY DEF TypeOK, Faults
<1>2. node' = t
  BY <1>1 DEF Step, Event
<1>3. /\ t.view = node.view /\ t.committed = node.committed /\ t.expected = node.expected
      /\ t.waitSeal = node.waitSeal /\ t.waitReseal = node.waitReseal /\ t.sealEnd = node.sealEnd
      /\ t.toSealer = node.toSealer /\ t.answers = node.answers /\ t.retries = node.retries
      /\ t.submitted = node.submitted /\ t.executing = node.executing
      /\ t.accepted = node.accepted /\ t.timeout = node.timeout /\ t.syncing = node.syncing
  BY <1>1 DEF State
<1> HIDE DEF t
<1>4. t \in State /\ node.accepted \subseteq t.accepted
  BY <1>1, <1>2, <1>3
<1>5. Told(node, todo) => Told(t, todo)
  BY <1>1, <1>3, <1>4, CalmTold
<1>6. \A n \in Nat : Tries(node, n) => Tries(t, n)
  BY <1>3, SameTries
<1>7. CASE Step(t)
  BY <1>5, <1>6, <1>7, StepTold
<1>8. CASE Event("mark", t)
  BY <1>1, <1>5, <1>6, <1>8, EventTold
<1> QED BY <1>1, <1>7, <1>8

\* The steps of the pool that marks transactions.
LEMMA MarkingTold ==
  ASSUME TypeOK, SealingInv, ToldInv, NEW p \in Proposal, NEW j \in Calls(p),
         StartMarking(p, j) \/ MarkSucceeds(p, j) \/ MarkFails(p, j) \/ RepeatMarking(p, j)
  PROVE  ToldInv'
<1>1. TypeOK' /\ node \in State
  BY MarkingKeeps DEF TypeOK
<1> DEFINE c0 == [node.calls EXCEPT ![p] = RemoveAt(@, j)]
           c1 == [node.calls EXCEPT ![p][j].stage = "marking"]
           c2 == [node.calls EXCEPT ![p][j].stage = "failed"]
           c3 == [node.calls EXCEPT ![p][j] = [stage |-> "marking", retry |-> @.retry + 1]]
           R0 == node.resetting
           R1 == node.resetting \ {p}
           R2 == node.resetting \cup {p}
           S(R, c) == [node EXCEPT !.resetting = R, !.calls = c]
<1>2. CASE StartMarking(p, j)
  <2>1. CallEnds(node, p, j) = S(R0, c0) /\ [node EXCEPT !.calls[p][j].stage = "marking"] = S(R0, c1)
    BY <1>1 DEF State, CallEnds
  <2>2. Step(S(R0, c0)) \/ Step(S(R0, c1))
    BY <1>2, <2>1 DEF StartMarking
  <2> QED BY <1>1, <2>2, MarksTold
<1>3. CASE MarkSucceeds(p, j)
  <2>1. CallEnds(Erased(p), p, j) = S(R1, c0)
    BY <1>1 DEF State, CallEnds, Erased
  <2>2. Step(S(R1, c0))
    BY <1>3, <2>1 DEF MarkSucceeds
  <2> QED BY <1>1, <2>2, MarksTold
<1>4. CASE MarkFails(p, j)
  <2>1. /\ CallEnds(Erased(p), p, j) = S(R1, c0)
        /\ [Erased(p) EXCEPT !.calls[p][j].stage = "failed"] = S(R1, c2)
    BY <1>1 DEF State, CallEnds, Erased
  <2>2. Event("mark", S(R1, c0)) \/ Event("mark", S(R1, c2))
    BY <1>4, <2>1 DEF MarkFails
  <2> QED BY <1>1, <2>2, MarksTold
<1>5. CASE RepeatMarking(p, j)
  <2>1. [node EXCEPT !.resetting = @ \cup {p},
                     !.calls[p][j] = [stage |-> "marking", retry |-> @.retry + 1]] = S(R2, c3)
    BY <1>1 DEF State
  <2>2. Step(S(R2, c3))
    BY <1>5, <2>1 DEF RepeatMarking
  <2> QED BY <1>1, <2>2, MarksTold
<1> QED BY <1>2, <1>3, <1>4, <1>5

\* A pre-prepare of another leader is handed to the validator.
LEMMA PrePrepareTold ==
  ASSUME TypeOK, SealingInv, ToldInv, NEW i \in Index, HandlePrePrepare(i)
  PROVE  ToldInv'
<1> DEFINE V == node.verifying \cup {[proposal |-> [index |-> i, txs |-> TRUE], view |-> node.view]}
           t == [node EXCEPT !.verifying = V]
<1>1. TypeOK' /\ node \in State
  BY PrePrepareKeeps DEF TypeOK
<1>2. Step(t)
  BY DEF HandlePrePrepare
<1> HIDE DEF V
<1>3. /\ t.view = node.view /\ t.committed = node.committed /\ t.expected = node.expected
      /\ t.waitSeal = node.waitSeal /\ t.waitReseal = node.waitReseal /\ t.sealEnd = node.sealEnd
      /\ t.toSealer = node.toSealer /\ t.answers = node.answers /\ t.retries = node.retries
      /\ t.submitted = node.submitted /\ t.executing = node.executing
      /\ t.accepted = node.accepted /\ t.timeout = node.timeout /\ t.syncing = node.syncing
  BY <1>1 DEF State
<1> HIDE DEF t
<1>4. t \in State /\ node.accepted \subseteq t.accepted
  BY <1>1, <1>2, <1>3 DEF TypeOK, Step
<1>5. Told(node, todo) => Told(t, todo)
  BY <1>1, <1>3, <1>4, CalmTold
<1>6. \A n \in Nat : Tries(node, n) => Tries(t, n)
  BY <1>3, SameTries
<1> QED BY <1>2, <1>5, <1>6, StepTold

\* What the validator's answer does to the registers.
LEMMA VerifiedRest ==
  ASSUME TypeOK, SealingInv, NEW m \in node.verifying
  PROVE  LET u == Verified(m) IN
         /\ m.proposal \in Proposal /\ u \in State /\ Marks(u)
         /\ SameCourse(node, u) /\ u.sealEnd = node.sealEnd /\ u.toSealer = node.toSealer
         /\ u.retries = node.retries /\ u.submitted = node.submitted /\ u.answers = node.answers
         /\ u.executing = node.executing /\ u.accepted = node.accepted
<1> DEFINE V == node.verifying \ {m}
           s == [node EXCEPT !.verifying = V]
           u == asyncResetTxsFlag(s, m.proposal)
<1>1. node \in State /\ m.proposal \in Proposal
  BY Registers DEF TypeOK, Pending
<1>2. u = Verified(m)
  BY DEF Verified
<1>3. u \in State /\ Marks(u)
  BY <1>2, VerifiedState DEF StateInv, Marks
<1>4. V \in SUBSET Pending
  BY <1>1, Registers
<1> HIDE DEF V
<1>5. /\ s \in State
      /\ SameCourse(node, s) /\ s.sealEnd = node.sealEnd /\ s.toSealer = node.toSealer
      /\ s.retries = node.retries /\ s.submitted = node.submitted /\ s.answers = node.answers
      /\ s.executing = node.executing /\ s.accepted = node.accepted
  <2>1. s \in State
    BY <1>1, <1>4 DEF State
  <2> QED BY <1>1, <2>1 DEF State, SameCourse
<1> HIDE DEF s
<1>6. /\ SameCourse(s, u) /\ u.sealEnd = s.sealEnd /\ u.toSealer = s.toSealer
      /\ u.retries = s.retries /\ u.submitted = s.submitted /\ u.answers = s.answers
      /\ u.executing = s.executing /\ u.accepted = s.accepted
  BY <1>1, <1>5, FlagRest
<1> HIDE DEF u
<1> QED BY <1>1, <1>2, <1>3, <1>5, <1>6 DEF SameCourse

\* A verification succeeds: at most a proposal is added to those in consensus.
LEMMA VerifySucceedsTold ==
  ASSUME TypeOK, SealingInv, ToldInv, NEW m \in node.verifying, VerifySucceeds(m)
  PROVE  ToldInv'
<1> DEFINE u == Verified(m)
           a == AddPrePrepare(u, m.proposal)
           t == IF checkPrePrepareMsg(u, m) THEN a ELSE u
<1>1. node \in State /\ Step(t) /\ t \in {u, a}
  BY DEF TypeOK, VerifySucceeds
<1>2. /\ m.proposal \in Proposal /\ u \in State /\ Marks(u)
      /\ SameCourse(node, u) /\ u.sealEnd = node.sealEnd /\ u.toSealer = node.toSealer
      /\ u.retries = node.retries /\ u.submitted = node.submitted /\ u.answers = node.answers
      /\ u.executing = node.executing /\ u.accepted = node.accepted
  BY VerifiedRest
<1> HIDE DEF u
<1>3. /\ a \in State
      /\ SameCourse(u, a) /\ a.sealEnd = u.sealEnd /\ a.toSealer = u.toSealer
      /\ a.retries = u.retries /\ a.submitted = u.submitted /\ a.answers = u.answers
      /\ a.executing = u.executing /\ a.accepted = u.accepted \cup {m.proposal}
  BY <1>2, AddRest
<1> HIDE DEF a, t
<1>4. /\ t.view = node.view /\ t.committed = node.committed /\ t.expected = node.expected
      /\ t.waitSeal = node.waitSeal /\ t.waitReseal = node.waitReseal /\ t.sealEnd = node.sealEnd
      /\ t.toSealer = node.toSealer /\ t.answers = node.answers /\ t.retries = node.retries
      /\ t.submitted = node.submitted /\ t.executing = node.executing /\ t \in State
      /\ node.accepted \subseteq t.accepted /\ t.timeout = node.timeout /\ t.syncing = node.syncing
  <2>1. CASE t = u
    BY <1>2, <2>1 DEF SameCourse
  <2>2. CASE t = a
    BY <1>2, <1>3, <2>2 DEF SameCourse
  <2> QED BY <1>1, <2>1, <2>2
<1>5. Told(node, todo) => Told(t, todo)
  BY <1>1, <1>4, CalmTold
<1>6. \A n \in Nat : Tries(node, n) => Tries(t, n)
  BY <1>4, SameTries
<1> QED BY <1>1, <1>5, <1>6, StepTold


\* What notifications without a reset leave true.
LEMMA GrownTold ==
  ASSUME NEW s, NEW t, NEW T, SameRest(s, t), t.timeout = s.timeout, Grows(s, t, T),
         Told(s, T), Asked(t, T)
  PROVE  Told(t, T)
<1>1. InTurn(t) /\ OneSubmitted(t)
  BY RestTold DEF Told
<1>2. Fresh(t)
  BY DEF Told, Grows
<1>3. Due(t, T)
  <2>1. MayStart(t) => MayStart(s)
    BY DEF MayStart, SameRest, canHandleNewProposal
  <2>2. t.committed = s.committed
    BY DEF SameRest
  <2> QED BY <2>1, <2>2 DEF Told, Due, Grows
<1> QED BY <1>1, <1>2, <1>3 DEF Told

\* A verification fails: this number is asked for again, and no other is passed over.
LEMMA VerifyFailsTold ==
  ASSUME TypeOK, SealingInv, ToldInv, NEW m \in node.verifying, VerifyFails(m)
  PROVE  ToldInv'
<1> DEFINE u == Verified(m)
           i == m.proposal.index
           t == EnforceSealer(u, i)
           over == t.sealEnd # node.sealEnd /\ Skipped(node, i) # {}
           r == [op |-> "seal", start |-> i, end |-> i, retry |-> 0]
           e == Larger(u.sealEnd, i)
           q == Append(u.toSealer, r)
           n == [u EXCEPT !.toSealer = q, !.sealEnd = e]
           own == LeaderIndex(i, u.view) = Me /\ canHandleNewProposal(u)
<1>1. node \in State /\ Event(IF over THEN "ahead" ELSE "verify", t)
  BY DEF TypeOK, VerifyFails
<1>2. CASE over
  BY <1>1, <1>2, LossTold
<1>3. CASE ~over
  <2>1. Event("verify", t) /\ "verify" \in Faults
    BY <1>1, <1>3 DEF Faults
  <2>2. /\ m.proposal \in Proposal /\ u \in State /\ Marks(u)
        /\ SameCourse(node, u) /\ u.sealEnd = node.sealEnd /\ u.toSealer = node.toSealer
        /\ u.retries = node.retries /\ u.submitted = node.submitted /\ u.answers = node.answers
        /\ u.executing = node.executing /\ u.accepted = node.accepted
    BY VerifiedRest
  <2> HIDE DEF u
  <2>3. i \in Int /\ i \in Number
    BY <2>2, Bounds DEF Proposal
  <2>4. t = IF own THEN n ELSE u
    <3>1. asyncNotifySealProposal(u, i, i, 0) = [u EXCEPT !.toSealer = q]
      BY DEF asyncNotifySealProposal
    <3> DEFINE z == [asyncNotifySealProposal(u, i, i, 0) EXCEPT !.sealEnd = Larger(@, i)]
    <3>2. z = n
      BY <2>2, <3>1 DEF State
    <3>3. t = IF own THEN z ELSE u
      BY DEF EnforceSealer
    <3> HIDE DEF z, n
    <3> QED BY <3>2, <3>3
  <2> HIDE DEF i
  <2>5. r \in SealRequest /\ r.start = i /\ r.end = i /\ r.retry = 0
    BY <2>3 DEF SealRequest
  <2> HIDE DEF r
  <2>6. q \in Seq(SealRequest \cup ResetRequest)
    BY <2>2, <2>5, Registers
  <2>7. /\ e \in Number /\ e \in Int /\ e >= i /\ e >= u.sealEnd /\ u.sealEnd \in Int
        /\ e # u.sealEnd => e = i
    BY <2>2, <2>3, Numbers, Bounds DEF Larger
  <2> HIDE DEF e
  <2>8. /\ n \in State /\ n.toSealer = Append(u.toSealer, r) /\ SameRest(u, n)
        /\ n.sealEnd = e /\ n.timeout = u.timeout
    <3> HIDE DEF q
    <3>1. n \in State
      BY <2>2, <2>6, <2>7 DEF State
    <3>2. n.toSealer = q /\ SameRest(u, n) /\ n.sealEnd = e /\ n.timeout = u.timeout
      BY <2>2 DEF State, SameRest
    <3> QED BY <3>1, <3>2 DEF q
  <2> HIDE DEF n, t
  <2>9. Grows(u, n, todo) /\ \A j \in r.start .. r.end : Handled(n, todo, j)
    BY <2>2, <2>5, <2>8, RangeGrows
  <2>10. Handled(n, todo, i)
    <3>1. i \in r.start .. r.end
      BY <2>3, <2>5
    <3> QED BY <2>9, <3>1
  <2>11. Told(node, todo) => Told(u, todo)
    BY <1>1, <2>2, CalmTold DEF SameCourse
  <2>12. ASSUME own, Told(u, todo) PROVE Told(n, todo)
    <3>1. sealStartIndex(n) = sealStartIndex(u) /\ n.view = u.view
          /\ sealStartIndex(u) = sealStartIndex(node) /\ u.view = node.view
          /\ sealStartIndex(node) \in Int
      BY <1>1, <2>2, <2>8, RestTold, Numbers DEF SameCourse, sealStartIndex
    <3>2. ASSUME NEW j \in sealStartIndex(u) .. e, LeaderIndex(j, u.view) = Me
          PROVE  Handled(n, todo, j)
      <4>1. j \in Int /\ j >= sealStartIndex(u) /\ j <= e
        BY <2>7, <3>1
      <4>2. CASE j <= u.sealEnd
        <5>1. j \in sealStartIndex(u) .. u.sealEnd
          BY <2>7, <3>1, <4>1, <4>2
        <5>2. Handled(u, todo, j)
          BY <2>12, <3>2, <5>1 DEF Told, Asked
        <5> QED BY <2>9, <5>2 DEF Grows
      <4>3. CASE j > u.sealEnd
        <5>1. e = i /\ e # u.sealEnd
          BY <2>7, <4>1, <4>3
        <5>2. t.sealEnd # node.sealEnd
          BY <2>2, <2>4, <2>8, <2>12, <5>1
        <5>3. Skipped(node, i) = {}
          BY <1>3, <5>2 DEF i
        <5>4. CASE j = i
          BY <2>10, <5>4
        <5>5. CASE j # i
          <6>1. j \in Larger(sealStartIndex(node), node.sealEnd + 1) .. i - 1
            BY <2>2, <2>3, <2>7, <3>1, <4>1, <4>3, <5>1, <5>5 DEF Larger
          <6>2. j \in Skipped(node, i)
            BY <3>1, <3>2, <6>1 DEF Skipped
          <6> QED BY <5>3, <6>2
        <5> QED BY <5>4, <5>5
      <4> QED BY <2>7, <4>1, <4>2, <4>3
    <3>3. Asked(n, todo)
      BY <2>8, <3>1, <3>2 DEF Asked
    <3> QED BY <2>8, <2>9, <2>12, <3>3, GrownTold
  <2>13. Told(node, todo) => Told(t, todo)
    BY <2>4, <2>11, <2>12
  <2>14. \A k \in Nat : Tries(node, k) => Tries(t, k)
    <3>1. \A k \in Nat : Tries(node, k) => Tries(u, k)
      BY <2>2, SameTries
    <3> QED BY <2>4, <2>9, <3>1 DEF Grows
  <2> QED BY <2>1, <2>13, <2>14, EventTold
<1> QED BY <1>2, <1>3

\* A proposal starts to be executed: the numbers after it are asked for.
LEMMA ExecuteTold ==
  ASSUME TypeOK, SealingInv, ToldInv, NEW p \in node.accepted, Execute(p)
  PROVE  ToldInv'
<1> DEFINE w == [node EXCEPT !.waitSeal = Larger(@, p.index)]
           n == notifySealer(node, p.index + 1)
           u == notifyToSealNextBlock(node, p)
           E == u.executing \cup {p.index}
           t == [u EXCEPT !.executing = E]
<1>1. node \in State /\ p \in Proposal /\ p.index = node.expected
  BY Registers DEF TypeOK, Execute
<1>2. p.index \in Index /\ p.index \in Int /\ p.index >= 1 /\ p.index <= MaxIndex
  BY <1>1, Bounds DEF Proposal
<1>3. /\ node.expected > node.committed /\ sealStartIndex(node) = p.index
      /\ node.committed \in Int
  BY <1>1, <1>2, Numbers DEF SealingInv, StateInv, Window, sealStartIndex, Larger
<1>4. u \in {w, n, node}
  BY DEF notifyToSealNextBlock
<1>5. Step(t)
  BY DEF Execute
<1> HIDE DEF u
<1>6. /\ w \in State /\ w.timeout = node.timeout /\ w.sealEnd = node.sealEnd
      /\ w.view = node.view /\ w.committed = node.committed /\ w.expected = node.expected
      /\ w.syncing = node.syncing /\ w.waitReseal = node.waitReseal
      /\ w.submitted = node.submitted /\ w.accepted = node.accepted
      /\ w.executing = node.executing /\ w.toSealer = node.toSealer
      /\ w.answers = node.answers /\ w.retries = node.retries
  <2>1. Larger(node.waitSeal, p.index) \in 0 .. MaxIndex
    BY <1>1, <1>2, Registers DEF Larger
  <2> QED BY <1>1, <2>1 DEF State
<1>7. p.index + 1 \in Nat \ {0}
  BY <1>2
<1>8. n \in State /\ SameRest(node, n)
  BY <1>1, <1>7, Notified
<1>9. Grows(node, n, todo) /\ (NoGap(node, p.index + 1) /\ Asked(node, todo) => Asked(n, todo))
  BY <1>1, <1>7, NotifyTold
<1>10. NoGap(node, p.index + 1)
  <2> DEFINE y == p.index + 1
  <2>1. p.index \in Indices(node.accepted)
    BY DEF Indices
  <2>2. \A j \in sealStartIndex(node) .. y - 1 : j = p.index
    BY <1>2, <1>3
  <2> HIDE DEF y
  <2>3. NoGap(node, y)
    BY <2>1, <2>2 DEF NoGap
  <2> QED BY <2>3 DEF y
<1> HIDE DEF n, w
<1>11. /\ u \in State /\ u.committed = node.committed /\ u.expected = node.expected
       /\ u.view = node.view
       /\ u.submitted = node.submitted /\ u.accepted = node.accepted
       /\ u.executing = node.executing
       /\ Asked(node, todo) => Asked(u, todo)
       /\ Fresh(node) => Fresh(u)
       /\ \A k \in Nat : Tries(node, k) => Tries(u, k)
  <2>1. CASE u = w
    <3>1. \A j : Handled(node, todo, j) => Handled(w, todo, j)
      BY <1>6 DEF Handled, Covered
    <3>2. sealStartIndex(w) = sealStartIndex(node)
      BY <1>6 DEF sealStartIndex
    <3>3. Asked(node, todo) => Asked(w, todo)
      BY <1>6, <3>1, <3>2 DEF Asked
    <3>4. Fresh(node) => Fresh(w)
      BY <1>6 DEF Fresh, Dated
    <3>5. \A k \in Nat : Tries(node, k) => Tries(w, k)
      BY <1>6, SameTries
    <3> QED BY <1>6, <2>1, <3>3, <3>4, <3>5
  <2>2. CASE u = n
    BY <1>8, <1>9, <1>10, <2>2 DEF SameRest, Grows
  <2>3. CASE u = node
    BY <1>1, <2>3
  <2> QED BY <1>4, <2>1, <2>2, <2>3
<1>12. E \in SUBSET Index /\ E = node.executing \cup {p.index}
  BY <1>2, <1>11, Registers
<1> HIDE DEF E
<1>13. /\ t \in State /\ t.toSealer = u.toSealer /\ t.committed = u.committed
       /\ t.expected = u.expected /\ t.retries = u.retries /\ t.answers = u.answers
       /\ t.view = u.view /\ t.sealEnd = u.sealEnd /\ t.submitted = u.submitted
       /\ t.accepted = u.accepted /\ t.executing = E
  <2>1. t \in State
    BY <1>11, <1>12 DEF State
  <2> QED BY <1>11, <2>1 DEF State
<1> HIDE DEF t
<1>14. ASSUME Told(node, todo) PROVE Told(t, todo)
  <2>1. InTurn(t)
    BY <1>1, <1>11, <1>12, <1>13, <1>14 DEF Told, InTurn
  <2>2. OneSubmitted(t)
    BY <1>11, <1>13, <1>14 DEF Told, OneSubmitted
  <2>3. Fresh(t)
    BY <1>11, <1>13, <1>14 DEF Told, Fresh, Dated
  <2>4. \A j : Handled(u, todo, j) => Handled(t, todo, j)
    BY <1>11, <1>12, <1>13 DEF Handled, Covered
  <2>5. Asked(t, todo)
    BY <1>11, <1>13, <1>14, <2>4 DEF Told, Asked, sealStartIndex
  <2>6. Due(t, todo)
    <3>1. MayStart(t) => t.committed + 1 = p.index
      BY <1>1, <1>11, <1>13 DEF MayStart
    <3>2. p.index \in t.executing
      BY <1>12, <1>13
    <3> QED BY <3>1, <3>2 DEF Due, Handled
  <2> QED BY <2>1, <2>2, <2>3, <2>5, <2>6 DEF Told
<1>15. \A k \in Nat : Tries(node, k) => Tries(t, k)
  BY <1>11, <1>13 DEF Tries
<1> QED BY <1>5, <1>14, <1>15, StepTold

\* An execution ends: the number is below the open ones from now on.
LEMMA ExecuteFinishedTold ==
  ASSUME TypeOK, SealingInv, ToldInv, NEW i \in node.executing, ExecuteFinished(i)
  PROVE  ToldInv'
<1> DEFINE e == IF i > node.committed THEN Larger(node.committed + 1, i + 1) ELSE node.expected
           E == node.executing \ {i}
           t == [node EXCEPT !.executing = E, !.expected = e]
<1>1. TypeOK' /\ node \in State /\ i \in Index
  BY ExecuteFinishedKeeps, Registers DEF TypeOK
<1>2. Step(t)
  BY <1>1 DEF ExecuteFinished, State
<1>3. /\ i \in Int /\ node.committed \in Int /\ node.expected \in Int
      /\ node.expected > node.committed
  BY <1>1, Numbers, Bounds DEF SealingInv, StateInv, Window
<1>4. e = (IF i > node.committed THEN i + 1 ELSE node.expected) /\ e \in Int
  BY <1>3 DEF Larger
<1> HIDE DEF e, E
<1>5. /\ t.view = node.view /\ t.committed = node.committed /\ t.expected = e
      /\ t.waitSeal = node.waitSeal /\ t.waitReseal = node.waitReseal /\ t.sealEnd = node.sealEnd
      /\ t.toSealer = node.toSealer /\ t.answers = node.answers /\ t.retries = node.retries
      /\ t.submitted = node.submitted /\ t.executing = E
      /\ t.accepted = node.accepted /\ t.timeout = node.timeout /\ t.syncing = node.syncing
  BY <1>1 DEF State
<1>6. t \in State
  BY <1>1, <1>2 DEF TypeOK, Step
<1> HIDE DEF t
<1>7. ASSUME Told(node, todo) PROVE Told(t, todo)
  <2>1. \A j \in node.executing : j \in Int /\ (j <= node.committed \/ j = node.expected)
    BY <1>1, <1>7, Registers, Bounds DEF Told, InTurn
  <2>2. i <= node.committed \/ i = node.expected
    BY <2>1
  <2>3. InTurn(t)
    BY <1>3, <1>4, <1>5, <2>1, <2>2 DEF InTurn, E
  <2>4. OneSubmitted(t)
    BY <1>5, <1>7 DEF Told, OneSubmitted
  <2>5. Fresh(t)
    BY <1>5, <1>7 DEF Told, Fresh, Dated
  <2>6. /\ sealStartIndex(t) \in Int /\ sealStartIndex(node) \in Int
        /\ sealStartIndex(t) >= sealStartIndex(node) /\ i < sealStartIndex(t)
        /\ node.sealEnd \in Int
    <3>1. sealStartIndex(node) = node.expected /\ sealStartIndex(t) = e /\ node.sealEnd \in Int
      BY <1>1, <1>3, <1>4, <1>5, <2>2, Numbers DEF sealStartIndex, Larger
    <3> QED BY <1>3, <1>4, <2>2, <3>1
  <2>7. \A j : j # i /\ Handled(node, todo, j) => Handled(t, todo, j)
    BY <1>5 DEF Handled, Covered, E
  <2>8. Asked(t, todo)
    <3> SUFFICES ASSUME NEW j \in sealStartIndex(t) .. node.sealEnd, LeaderIndex(j, node.view) = Me
                 PROVE  Handled(t, todo, j)
      BY <1>5 DEF Asked
    <3>1. j \in sealStartIndex(node) .. node.sealEnd /\ j # i
      BY <2>6
    <3>2. Handled(node, todo, j)
      BY <1>7, <3>1 DEF Told, Asked
    <3> QED BY <2>7, <3>1, <3>2
  <2>9. Due(t, todo)
    <3> SUFFICES ASSUME MayStart(t)
                 PROVE  Handled(t, todo, t.committed + 1) \/ Returns(t, t.committed + 1)
      BY DEF Due
    <3>1. e = node.committed + 1
      BY <1>5 DEF MayStart
    <3>2. i <= node.committed /\ e = node.expected
      BY <1>3, <1>4, <2>2, <3>1
    <3>3. MayStart(node)
      BY <1>5, <3>2 DEF MayStart, canHandleNewProposal
    <3>4. Handled(node, todo, node.committed + 1) \/ Returns(node, node.committed + 1)
      BY <1>7, <3>3 DEF Told, Due
    <3>5. node.committed + 1 # i
      BY <1>3, <3>2
    <3> QED BY <1>5, <2>7, <3>4, <3>5 DEF Returns
  <2> QED BY <2>3, <2>4, <2>5, <2>8, <2>9 DEF Told
<1>8. \A k \in Nat : Tries(node, k) => Tries(t, k)
  BY <1>5, SameTries
<1> QED BY <1>2, <1>7, <1>8, StepTold


\* The end of resetConfig: a state that has asked for its numbers is told.
LEMMA CommitTold ==
  ASSUME NEW s \in State, NEW T, Window(s)
  PROVE  LET t == NotifyAfterCommit(s, s.committed) IN
         /\ \A n \in Nat : Tries(s, n) => Tries(t, n)
         /\ InTurn(s) /\ Asked(s, T) /\ Fresh(s) /\ OneSubmitted(s) => Told(t, T)
<1> DEFINE k == s.committed
           c == NotifyAfterCommit(s, k)
<1>0. k \in Nat /\ k + 1 \in Nat \ {0} /\ 0 \in Number
  BY Numbers, Bounds
<1>1. CASE s.syncing > k
  <2> DEFINE u == [s EXCEPT !.timeout = TRUE]
             t == notifyResetSealing(u, 0)
  <2>1. c = t
    BY <1>1 DEF NotifyAfterCommit
  <2>2. u \in State /\ u.toSealer = s.toSealer /\ SameRest(s, u) /\ u.timeout
    BY DEF State, SameRest
  <2> HIDE DEF u
  <2>3. t \in State /\ SameRest(u, t)
    BY <1>0, <2>2, ResetSent
  <2>4. /\ t.timeout = u.timeout /\ Asked(t, T)
        /\ Fresh(u) => Fresh(t)
        /\ \A n \in Nat : Tries(u, n) => Tries(t, n)
    BY <1>0, <2>2, ResetTold
  <2> HIDE DEF t, c
  <2>5. \A n \in Nat : Tries(s, n) => Tries(t, n)
    BY <2>2, <2>4 DEF Tries, SameRest
  <2>6. Fresh(s) => Fresh(u)
    BY <2>2 DEF Fresh, Dated, SameRest
  <2>7. (InTurn(s) => InTurn(t)) /\ (OneSubmitted(s) => OneSubmitted(t))
    BY <2>2, <2>3, RestTold
  <2>8. Due(t, T)
    BY <2>2, <2>4 DEF Due, MayStart
  <2>9. InTurn(s) /\ Asked(s, T) /\ Fresh(s) /\ OneSubmitted(s) => Told(t, T)
    BY <2>4, <2>6, <2>7, <2>8 DEF Told
  <2> QED BY <2>1, <2>5, <2>9 DEF c
<1>2. CASE ~(s.syncing > k)
  <2> DEFINE i == Larger(sealStartIndex(s), k + 1)
             n == reNotifySealer(s, i)
             u == IF s.waitReseal = k THEN n ELSE s
             j == sealStartIndex(u)
             t == notifySealer(u, j)
  <2>1. c = t
    BY <1>2 DEF NotifyAfterCommit
  <2>2. i \in Nat \ {0} /\ i <= sealStartIndex(s)
    BY <1>0, Numbers DEF Larger
  <2> HIDE DEF i
  <2>3. n \in State /\ SameRest(s, n)
    BY <2>2, Renotified
  <2>4. /\ n.timeout = s.timeout /\ Grows(s, n, T)
        /\ i <= sealStartIndex(s) /\ Asked(s, T) => Asked(n, T)
    BY <2>2, RenotifyTold
  <2> HIDE DEF n
  <2>5. /\ u \in State /\ SameRest(s, u) /\ u.timeout = s.timeout /\ Grows(s, u, T)
        /\ Asked(s, T) => Asked(u, T)
    <3>1. SameRest(s, s) /\ Grows(s, s, T)
      BY DEF SameRest, Grows
    <3> QED BY <2>2, <2>3, <2>4, <3>1
  <2> HIDE DEF u
  <2>6. j \in Nat \ {0} /\ j \in Int
    BY <1>0, <2>5, Numbers
  <2>7. NoGap(u, j)
    <3>1. j .. j - 1 = {}
      BY <2>6
    <3>2. sealStartIndex(u) .. j - 1 = {}
      BY <3>1
    <3> QED BY <3>2 DEF NoGap
  <2>8. u.committed = k /\ u.expected = s.expected /\ u.expected > k /\ u.expected \in Int
    BY <2>5, Numbers DEF SameRest, Window
  <2>9. j = u.expected
    BY <1>0, <2>8 DEF sealStartIndex, Larger
  <2> HIDE DEF j
  <2>10. t \in State /\ SameRest(u, t)
    BY <2>5, <2>6, Notified
  <2>11. /\ t.timeout = u.timeout /\ Grows(u, t, T)
         /\ NoGap(u, j) /\ Asked(u, T) => Asked(t, T)
         /\ j = u.committed + 1 /\ LeaderIndex(j, u.view) = Me /\ canHandleNewProposal(u)
              => t.sealEnd >= j
    BY <2>5, <2>6, NotifyTold
  <2> HIDE DEF t, c
  <2>12. \A x \in Nat : Tries(s, x) => Tries(t, x)
    BY <2>5, <2>11 DEF Grows
  <2>13. ASSUME InTurn(s), Asked(s, T), Fresh(s), OneSubmitted(s)
         PROVE  Told(t, T)
    <3>1. InTurn(t) /\ OneSubmitted(t)
      BY <2>5, <2>10, <2>13, RestTold
    <3>2. Fresh(t) /\ Asked(t, T)
      BY <2>5, <2>7, <2>11, <2>13 DEF Grows
    <3>3. Due(t, T)
      <4> SUFFICES ASSUME MayStart(t) PROVE Handled(t, T, t.committed + 1)
        BY DEF Due
      <4>1. /\ t.expected = t.committed + 1 /\ LeaderIndex(t.committed + 1, t.view) = Me
            /\ canHandleNewProposal(t)
        BY DEF MayStart
      <4>2. /\ t.expected = u.expected /\ t.committed = k /\ t.view = u.view
            /\ canHandleNewProposal(u) /\ sealStartIndex(t) = j
        BY <2>8, <2>10, <4>1, RestTold DEF SameRest, j
      <4>3. j = u.committed + 1 /\ LeaderIndex(j, u.view) = Me
        BY <2>8, <2>9, <4>1, <4>2
      <4>4. t.sealEnd >= j
        BY <2>11, <4>2, <4>3
      <4>5. j \in sealStartIndex(t) .. t.sealEnd
        BY <2>6, <2>10, <4>2, <4>4, Numbers
      <4>6. t.committed + 1 = j
        BY <2>8, <4>2, <4>3
      <4> QED BY <3>2, <4>1, <4>5, <4>6 DEF Asked
    <3> QED BY <3>1, <3>2, <3>3 DEF Told
  <2> QED BY <2>1, <2>12, <2>13 DEF c
<1> QED BY <1>1, <1>2

\* resetConfig of block k, when nothing beyond k + 1 has been executed or k is the next block.
LEMMA ConfigTold ==
  ASSUME TypeOK, SealingInv, NEW k \in Index, k > node.committed,
         node.expected <= k + 1 \/ k = node.committed + 1
  PROVE  LET t == resetConfig(node, k) IN
         /\ Told(node, todo) => Told(t, todo)
         /\ \A n \in Nat : Tries(node, n) => Tries(t, n)
<1> DEFINE V == {m \in node.verifying : m.proposal.index > k}
           A == {p \in node.accepted : p.index > k}
           e == Larger(node.expected, k + 1)
           u == [node EXCEPT !.committed = k, !.expected = e, !.timeout = FALSE,
                             !.verifying = V, !.accepted = A]
           t == NotifyAfterCommit(u, k)
<1>1. node \in State /\ k \in Int /\ k \in 0 .. MaxIndex
  BY Bounds DEF TypeOK
<1>2. resetConfig(node, k) = t
  BY <1>1 DEF resetConfig, State
<1>3. /\ node.expected \in Int /\ node.committed \in Int /\ node.expected > node.committed
      /\ e \in Int /\ e >= k + 1 /\ e >= node.expected /\ e \in 1 .. MaxIndex + 1
  BY <1>1, Numbers, Bounds DEF Larger, SealingInv, StateInv, Window
<1>4. V \in SUBSET Pending /\ A \in SUBSET Proposal
  BY <1>1, Registers
<1>5. (e = k + 1 /\ node.expected <= k + 1) \/ (e = node.expected /\ k = node.committed + 1)
  BY <1>1, <1>3 DEF Larger
<1> HIDE DEF V, e
<1>6. /\ u \in State /\ u.committed = k /\ u.expected = e /\ u.accepted = A
      /\ u.view = node.view /\ u.sealEnd = node.sealEnd /\ u.toSealer = node.toSealer
      /\ u.retries = node.retries /\ u.submitted = node.submitted /\ u.answers = node.answers
      /\ u.executing = node.executing /\ u.verifying = V
  <2> HIDE DEF A
  <2>1. u \in State
    BY <1>1, <1>3, <1>4 DEF State
  <2> QED BY <1>1, <2>1 DEF State
<1> HIDE DEF u
<1>7. Window(u)
  <2>1. ASSUME NEW m \in V
        PROVE  m.proposal.index > k /\ m.proposal.index < k + 1 + WaterMarkLimit
    <3>1. m \in node.verifying /\ m \in Pending /\ m.proposal.index > k
      BY <1>4 DEF V
    <3>2. m.proposal.index < node.committed + 1 + WaterMarkLimit /\ m.proposal.index \in Int
      BY <3>1, Bounds DEF SealingInv, StateInv, Window, highWaterMark, Pending, Proposal
    <3> QED BY <1>1, <1>3, <3>1, <3>2, Bounds
  <2> QED BY <1>1, <1>3, <1>6, <2>1 DEF Window, highWaterMark
<1>8. /\ \A n \in Nat : Tries(u, n) => Tries(t, n)
      /\ InTurn(u) /\ Asked(u, todo) /\ Fresh(u) /\ OneSubmitted(u) => Told(t, todo)
  BY <1>6, <1>7, CommitTold
<1>9. \A n \in Nat : Tries(node, n) => Tries(u, n)
  BY <1>6, SameTries
<1>10. ASSUME Told(node, todo)
       PROVE  InTurn(u) /\ Asked(u, todo) /\ Fresh(u) /\ OneSubmitted(u)
  <2>1. \A j \in node.executing : j \in Int /\ (j <= node.committed \/ j = node.expected)
    BY <1>1, <1>10, Registers, Bounds DEF Told, InTurn
  <2>2. InTurn(u)
    BY <1>1, <1>3, <1>5, <1>6, <2>1 DEF InTurn
  <2>3. OneSubmitted(u)
    BY <1>6, <1>10 DEF Told, OneSubmitted
  <2>4. Fresh(u)
    <3>1. ASSUME NEW q, q \in Seq(Message), Dated(node, q) PROVE Dated(u, q)
      <4> SUFFICES ASSUME NEW p \in 1 .. Len(q), q[p].op = "reset"
                   PROVE  q[p].at <= k /\ q[p].back \in {0, q[p].at + 1}
        BY <1>6 DEF Dated
      <4>1. q[p].at <= node.committed /\ q[p].back \in {0, q[p].at + 1} /\ q[p] \in Message
        BY <3>1 DEF Dated
      <4>2. q[p].at \in Int
        BY <4>1, Bounds DEF Message, SealRequest, ResetRequest
      <4> QED BY <1>1, <1>3, <4>1, <4>2
    <3>2. node.toSealer \in Seq(Message) /\ node.answers \in Seq(Message)
      BY <1>1, Registers DEF Message
    <3> QED BY <1>6, <1>10, <3>1, <3>2 DEF Told, Fresh
  <2>5. /\ sealStartIndex(u) = e /\ sealStartIndex(node) = node.expected /\ node.sealEnd \in Int
    BY <1>1, <1>3, <1>6, Numbers DEF sealStartIndex, Larger
  <2>6. ASSUME NEW j \in Int, j > k, Handled(node, todo, j) PROVE Handled(u, todo, j)
    <3>1. j \in Indices(node.accepted) => j \in Indices(A)
      BY <2>6 DEF Indices
    <3> QED BY <1>6, <2>6, <3>1 DEF Handled, Covered
  <2>7. Asked(u, todo)
    <3> SUFFICES ASSUME NEW j \in e .. node.sealEnd, LeaderIndex(j, node.view) = Me
                 PROVE  Handled(u, todo, j)
      BY <1>6, <2>5 DEF Asked
    <3>1. j \in node.expected .. node.sealEnd /\ j > k /\ j \in Int
      BY <1>1, <1>3, <2>5
    <3>2. Handled(node, todo, j)
      BY <1>10, <2>5, <3>1 DEF Told, Asked
    <3> QED BY <2>6, <3>1, <3>2
  <2> QED BY <2>2, <2>3, <2>4, <2>7
<1> HIDE DEF t
<1> QED BY <1>2, <1>8, <1>9, <1>10

\* A block is committed.
LEMMA CommitStepTold ==
  ASSUME TypeOK, SealingInv, ToldInv, Commit
  PROVE  ToldInv'
<1> DEFINE k == node.committed + 1
           t == resetConfig(node, k)
<1>1. node \in State /\ Step(t) /\ k < node.expected
  BY DEF TypeOK, Commit
<1>2. k \in Index /\ k > node.committed
  BY <1>1, Numbers, Bounds
<1>3. /\ Told(node, todo) => Told(t, todo)
      /\ \A n \in Nat : Tries(node, n) => Tries(t, n)
  BY <1>2, ConfigTold
<1> HIDE DEF t
<1> QED BY <1>1, <1>3, StepTold


\* A synchronised block is taken over, with nothing executed beyond it.
LEMMA SyncBlockTold ==
  ASSUME TypeOK, SealingInv, ToldInv, NEW k \in Index, SyncBlock(k)
  PROVE  ToldInv'
<1> DEFINE u == resetConfig(node, k)
           A == {p \in u.accepted : p.index >= node.expected}
           t == [u EXCEPT !.expected = k + 1, !.accepted = A]
           f == IF node.expected > k + 1 THEN "behind" ELSE "sync"
<1>1. node \in State /\ k > node.committed /\ Event(f, t)
  BY DEF TypeOK, SyncBlock
<1>2. CASE node.expected > k + 1
  BY <1>1, <1>2, LossTold
<1>3. CASE ~(node.expected > k + 1)
  <2>1. k \in Int /\ node.expected \in Int /\ node.expected <= k + 1
    BY <1>1, <1>3, Numbers, Bounds
  <2>2. Event("sync", t) /\ "sync" \in Faults
    BY <1>1, <1>3 DEF Faults
  <2>3. /\ Told(node, todo) => Told(u, todo)
        /\ \A n \in Nat : Tries(node, n) => Tries(u, n)
    BY <1>1, <2>1, ConfigTold
  <2>4. /\ u \in State /\ u.expected = Larger(node.expected, k + 1)
        /\ u.accepted = {p \in node.accepted : p.index > k}
    BY <1>1, ConfigReset
  <2> HIDE DEF u
  <2>5. u.expected = k + 1 /\ A = u.accepted
    <3>1. u.expected = k + 1
      BY <2>1, <2>4 DEF Larger
    <3>2. \A p \in u.accepted : p.index >= node.expected
      <4>1. \A p \in u.accepted : p \in Proposal /\ p.index > k
        BY <2>4, Registers
      <4>2. \A p \in u.accepted : p.index \in Int /\ p.index > k
        BY <4>1, Bounds DEF Proposal
      <4> QED BY <2>1, <4>2
    <3> QED BY <3>1, <3>2
  <2> HIDE DEF A
  <2>6. t = u
    <3>1. t = [u EXCEPT !.expected = u.expected, !.accepted = u.accepted]
      BY <2>5
    <3> QED BY <2>4, <3>1 DEF State
  <2> HIDE DEF t
  <2> QED BY <2>2, <2>3, <2>6, EventTold
<1> QED BY <1>2, <1>3

\* The sync module announces a number: nothing is due until it is reached.
LEMMA SyncingTold ==
  ASSUME TypeOK, SealingInv, ToldInv, NEW k \in Index, NotifySyncing(k)
  PROVE  ToldInv'
<1> DEFINE t == [node EXCEPT !.syncing = k]
<1>1. TypeOK' /\ node \in State /\ Event("syncing", t) /\ "syncing" \in Faults
      /\ k > node.committed
  BY SyncingKeeps DEF TypeOK, NotifySyncing, Faults
<1>2. /\ t.view = node.view /\ t.committed = node.committed /\ t.expected = node.expected
      /\ t.waitSeal = node.waitSeal /\ t.waitReseal = node.waitReseal /\ t.sealEnd = node.sealEnd
      /\ t.toSealer = node.toSealer /\ t.answers = node.answers /\ t.retries = node.retries
      /\ t.submitted = node.submitted /\ t.executing = node.executing
      /\ t.accepted = node.accepted /\ t.timeout = node.timeout /\ t.syncing = k
  BY <1>1 DEF State
<1> HIDE DEF t
<1>3. t \in State /\ node.accepted \subseteq t.accepted /\ t.syncing > t.committed
  BY <1>1, <1>2 DEF TypeOK, Event
<1>4. Told(node, todo) => Told(t, todo)
  BY <1>1, <1>2, <1>3, CalmTold
<1>5. \A n \in Nat : Tries(node, n) => Tries(t, n)
  BY <1>2, SameTries
<1> QED BY <1>1, <1>4, <1>5, EventTold

\* The timer expires: nothing is due until the view changes or a block is committed.
LEMMA TimeoutTold ==
  ASSUME TypeOK, SealingInv, ToldInv, Timeout
  PROVE  ToldInv'
<1> DEFINE t == [node EXCEPT !.timeout = TRUE]
<1>1. TypeOK' /\ node \in State /\ Event("timeout", t) /\ "timeout" \in Faults
  BY TimeoutKeeps DEF TypeOK, Timeout, Faults
<1>2. /\ t.view = node.view /\ t.committed = node.committed /\ t.expected = node.expected
      /\ t.waitSeal = node.waitSeal /\ t.waitReseal = node.waitReseal /\ t.sealEnd = node.sealEnd
      /\ t.toSealer = node.toSealer /\ t.answers = node.answers /\ t.retries = node.retries
      /\ t.submitted = node.submitted /\ t.executing = node.executing
      /\ t.accepted = node.accepted /\ t.timeout /\ t.syncing = node.syncing
  BY <1>1 DEF State
<1> HIDE DEF t
<1>3. t \in State /\ node.accepted \subseteq t.accepted
  BY <1>1, <1>2 DEF TypeOK, Event
<1>4. Told(node, todo) => Told(t, todo)
  BY <1>1, <1>2, <1>3, CalmTold
<1>5. \A n \in Nat : Tries(node, n) => Tries(t, n)
  BY <1>2, SameTries
<1> QED BY <1>1, <1>4, <1>5, EventTold

\* What the parts of the invariant other than Due depend on.
LEMMA QuietTold ==
  ASSUME NEW s, NEW t, NEW T, t.view = s.view, t.committed = s.committed,
         t.expected = s.expected, t.sealEnd = s.sealEnd, t.toSealer = s.toSealer,
         t.answers = s.answers, t.retries = s.retries, t.submitted = s.submitted,
         t.executing = s.executing, t.accepted = s.accepted
  PROVE  /\ InTurn(s) => InTurn(t)
         /\ Asked(s, T) => Asked(t, T)
         /\ Fresh(s) => Fresh(t)
         /\ OneSubmitted(s) => OneSubmitted(t)
         /\ \A n \in Nat : Tries(s, n) => Tries(t, n)
<1>1. (InTurn(s) => InTurn(t)) /\ (OneSubmitted(s) => OneSubmitted(t))
  BY DEF InTurn, OneSubmitted
<1>2. \A j : Handled(s, T, j) => Handled(t, T, j)
  BY DEF Handled, Covered
<1>3. Asked(s, T) => Asked(t, T)
  BY <1>2 DEF Asked, sealStartIndex
<1>4. Fresh(s) => Fresh(t)
  BY DEF Fresh, Dated
<1> QED BY <1>1, <1>3, <1>4, SameTries

\* A NewView of proposals beyond the ledger, or of none: the sealer is reset, and is told again
\* at once or when the last of the proposals is committed.
LEMMA NewViewTold ==
  ASSUME TypeOK, SealingInv, NEW v \in View, NEW L \in SUBSET Proposal,
         \A p \in L : p.index > node.committed
  PROVE  LET t == NewView(node, v, L) IN
         /\ Told(node, todo) => Told(t, todo)
         /\ \A n \in Nat : Tries(node, n) => Tries(t, n)
<1> DEFINE c  == node.committed
           top == IF \A p \in L : p.index <= node.committed THEN node.committed
                  ELSE Max(Indices(L))
           a  == resetNewViewState(node, v)
           s1 == notifyResetSealing(a, 0)
           M  == {[proposal |-> p, view |-> v] : p \in L}
           V  == s1.verifying \cup {m \in M : checkPrePrepareMsg(s1, m)}
           s2 == [s1 EXCEPT !.verifying = V]
           s3 == [s2 EXCEPT !.waitReseal = top]
           n  == reNotifySealer(s2, top + 1)
           t  == IF L = {} THEN n ELSE s3
<1>1. node \in State /\ c \in Nat /\ 0 \in Number
  <2>1. node \in State
    BY DEF TypeOK
  <2> QED BY <2>1, Numbers, Bounds
<1>2. NewView(node, v, L) = t
  BY DEF NewView
<1>3. /\ a \in State /\ a.view = v /\ a.toSealer = node.toSealer
      /\ a.committed = c /\ a.expected = node.expected /\ a.retries = node.retries
      /\ a.answers = node.answers /\ a.submitted = node.submitted /\ a.executing = node.executing
  <2>1. /\ a \in State /\ a.view = v /\ a.toSealer = node.toSealer
        /\ a.committed = c /\ a.expected = node.expected /\ a.retries = node.retries
        /\ a.answers = node.answers
    BY <1>1, ViewEntered
  <2>2. a.submitted = node.submitted /\ a.executing = node.executing
    BY <1>1 DEF resetNewViewState, State
  <2> QED BY <2>1, <2>2
<1> HIDE DEF a
<1>4. s1 \in State /\ SameRest(a, s1)
  BY <1>1, <1>3, ResetSent
<1>5. /\ Asked(s1, todo)
      /\ Fresh(a) => Fresh(s1)
      /\ \A k \in Nat : Tries(a, k) => Tries(s1, k)
  BY <1>1, <1>3, ResetTold
<1>6. (InTurn(a) => InTurn(s1)) /\ (OneSubmitted(a) => OneSubmitted(s1)) /\ s1.committed = c
  BY <1>3, <1>4, RestTold
<1> HIDE DEF s1
<1>7. /\ top \in 0 .. MaxIndex /\ top \in Int
      /\ L = {} => top = c
      /\ L # {} => top > c
  <2>1. CASE L = {}
    BY <1>1, <2>1, Registers
  <2>2. CASE L # {}
    <3>1. PICK p \in L : p.index > c
      BY <2>2
    <3>2. p.index \in Index /\ ~(p.index <= c)
      BY <1>1, <3>1, Bounds DEF Proposal
    <3>3. top = Max(Indices(L))
      BY <3>2
    <3>4. Indices(L) \in SUBSET Index /\ Indices(L) # {}
      BY <2>2 DEF Indices, Proposal
    <3>5. top \in Indices(L)
      BY <3>3, <3>4, HighestNumber
    <3>6. PICK x \in L : top = x.index
      BY <3>5 DEF Indices
    <3> QED BY <2>2, <3>4, <3>5, <3>6, Bounds
  <2> QED BY <2>1, <2>2
<1> HIDE DEF top
<1>8. V \in SUBSET Pending
  <2>1. M \in SUBSET Pending
    BY DEF Pending
  <2> HIDE DEF M
  <2> QED BY <1>4, <2>1, Registers
<1> HIDE DEF V
<1>9. /\ s2 \in State /\ s2.view = s1.view /\ s2.committed = s1.committed
      /\ s2.expected = s1.expected /\ s2.sealEnd = s1.sealEnd /\ s2.toSealer = s1.toSealer
      /\ s2.answers = s1.answers /\ s2.retries = s1.retries /\ s2.submitted = s1.submitted
      /\ s2.executing = s1.executing /\ s2.accepted = s1.accepted
  <2>1. s2 \in State
    BY <1>4, <1>8 DEF State
  <2> QED BY <1>4, <2>1 DEF State
<1> HIDE DEF s2
<1>10. /\ s3 \in State /\ s3.view = s2.view /\ s3.committed = s2.committed
       /\ s3.expected = s2.expected /\ s3.sealEnd = s2.sealEnd /\ s3.toSealer = s2.toSealer
       /\ s3.answers = s2.answers /\ s3.retries = s2.retries /\ s3.submitted = s2.submitted
       /\ s3.executing = s2.executing /\ s3.accepted = s2.accepted /\ s3.waitReseal = top
  <2>1. s3 \in State
    BY <1>7, <1>9 DEF State
  <2> QED BY <1>9, <2>1 DEF State
<1> HIDE DEF s3
<1>11. \A k \in Nat : Tries(node, k) => Tries(s2, k)
  BY <1>3, <1>5, <1>9 DEF Tries
<1>12. ASSUME Told(node, todo)
       PROVE  InTurn(s2) /\ Asked(s2, todo) /\ Fresh(s2) /\ OneSubmitted(s2)
  <2>1. InTurn(a) /\ OneSubmitted(a)
    BY <1>3, <1>12 DEF Told, InTurn, OneSubmitted
  <2>2. Fresh(a)
    BY <1>3, <1>12 DEF Told, Fresh, Dated
  <2>3. InTurn(s1) /\ Asked(s1, todo) /\ Fresh(s1) /\ OneSubmitted(s1)
    BY <1>5, <1>6, <2>1, <2>2
  <2> QED BY <1>9, <2>3, QuietTold
<1>13. CASE L # {}
  <2>1. t = s3
    BY <1>13
  <2>2. ASSUME Told(node, todo) PROVE Told(s3, todo)
    <3>1. InTurn(s3) /\ Asked(s3, todo) /\ Fresh(s3) /\ OneSubmitted(s3)
      <4>1. InTurn(s2) /\ Asked(s2, todo) /\ Fresh(s2) /\ OneSubmitted(s2)
        BY <1>12, <2>2
      <4> QED BY <1>10, <4>1, QuietTold
    <3>2. ~MayStart(s3)
      BY <1>1, <1>6, <1>7, <1>9, <1>10, <1>13 DEF MayStart, canHandleNewProposal
    <3> QED BY <3>1, <3>2 DEF Told, Due
  <2>3. \A k \in Nat : Tries(node, k) => Tries(s3, k)
    BY <1>10, <1>11, SameTries
  <2> QED BY <1>2, <2>1, <2>2, <2>3
<1>14. CASE L = {}
  <2> DEFINE i == top + 1
  <2>1. t = n /\ i = c + 1 /\ i \in Nat \ {0} /\ s2.committed = c
    BY <1>1, <1>6, <1>7, <1>9, <1>14
  <2> HIDE DEF i
  <2>2. n = reNotifySealer(s2, i)
    BY DEF i
  <2> HIDE DEF n
  <2>3. n \in State /\ SameRest(s2, n)
    BY <1>9, <2>1, <2>2, Renotified
  <2>4. /\ n.timeout = s2.timeout /\ Grows(s2, n, todo)
        /\ i <= sealStartIndex(s2) /\ Asked(s2, todo) => Asked(n, todo)
        /\ i = s2.committed + 1 /\ LeaderIndex(i, s2.view) = Me /\ canHandleNewProposal(s2)
             => n.sealEnd >= i
    BY <1>9, <2>1, <2>2, RenotifyTold
  <2>5. i <= sealStartIndex(s2)
    BY <1>9, <2>1, Numbers
  <2>6. /\ (InTurn(s2) => InTurn(n)) /\ (OneSubmitted(s2) => OneSubmitted(n))
        /\ canHandleNewProposal(n) = canHandleNewProposal(s2)
        /\ n.view = s2.view /\ n.committed = s2.committed
    BY <2>3, RestTold
  <2>7. ASSUME Told(node, todo) PROVE Told(n, todo)
    <3>1. InTurn(s2) /\ Asked(s2, todo) /\ Fresh(s2) /\ OneSubmitted(s2)
      BY <1>12, <2>7
    <3>2. InTurn(n) /\ Asked(n, todo) /\ Fresh(n) /\ OneSubmitted(n)
      BY <2>4, <2>5, <2>6, <3>1 DEF Grows
    <3>3. LeaderIndex(n.committed + 1, n.view) = Me /\ canHandleNewProposal(n)
            => n.sealEnd >= n.committed + 1
      BY <2>1, <2>4, <2>6
    <3>4. Due(n, todo)
      BY <2>3, <3>2, <3>3, ReachedIsDue
    <3> QED BY <3>2, <3>4 DEF Told
  <2>8. \A k \in Nat : Tries(node, k) => Tries(n, k)
    BY <1>11, <2>4 DEF Grows
  <2> QED BY <1>2, <2>1, <2>7, <2>8
<1> QED BY <1>13, <1>14

\* A view change with a NewView.
LEMMA ChangeViewTold ==
  ASSUME TypeOK, SealingInv, ToldInv, ChangeView
  PROVE  ToldInv'
<1>1. PICK L \in NewViewList : Step(NewView(node, node.view + 1, L))
  BY DEF ChangeView
<1>2. node \in State /\ node.view < MaxView
  BY DEF TypeOK, ChangeView
<1> DEFINE t == NewView(node, node.view + 1, L)
<1>3. node.view + 1 \in View
  <2>1. node.view \in Int /\ 0 <= node.view
    BY <1>2, Registers, Bounds
  <2> QED BY <1>2, <2>1, Bounds
<1>4. L \in SUBSET Proposal /\ \A p \in L : p.index > node.committed
  BY DEF NewViewList
<1>5. /\ Told(node, todo) => Told(t, todo)
      /\ \A n \in Nat : Tries(node, n) => Tries(t, n)
  BY <1>3, <1>4, NewViewTold
<1> HIDE DEF t
<1>6. Step(t)
  BY <1>1 DEF t
<1> QED BY <1>5, <1>6, StepTold


-----------------------------------------------------------------------------
(* The leader is told: the theorem *)

\* At the start the reset leads back to block 1, and block 1 is asked for after it.
LEMMA InitTold ==
  ASSUME Init
  PROVE  ToldInv
<1> DEFINE c == [p \in Proposal |-> <<>>]
           s == [view |-> 0, timeout |-> FALSE, committed |-> 0, expected |-> 1, syncing |-> 0,
                 sealEnd |-> 0, waitSeal |-> 0, waitReseal |-> 0, submitted |-> {},
                 verifying |-> {}, accepted |-> {}, executing |-> {}, resetting |-> {},
                 calls |-> c,
                 toSealer |-> <<>>, answers |-> <<>>, retries |-> {}]
           t == notifyResetSealing(s, 1)
<1>1. node = notifySealer(t, 1) /\ todo = {} /\ faults = [k \in Faults |-> 0]
  BY DEF Init
<1>2. c \in [Proposal -> Seq(MarkCall)]
  OBVIOUS
<1> HIDE DEF c
<1>3. /\ 0 \in View /\ 0 \in 0 .. MaxIndex /\ 1 \in 1 .. MaxIndex + 1
      /\ 0 \in Number /\ 1 \in Number
  BY Bounds
<1>4. s \in State
  BY <1>2, <1>3 DEF State
<1>5. /\ s.committed = 0 /\ s.expected = 1 /\ s.submitted = {} /\ s.retries = {}
      /\ s.executing = {} /\ s.toSealer = <<>> /\ s.answers = <<>>
  OBVIOUS
<1> HIDE DEF s
<1>6. InTurn(s) /\ OneSubmitted(s)
  BY <1>5 DEF InTurn, OneSubmitted
<1>7. Len(s.toSealer) = 0 /\ Len(s.answers) = 0
  BY <1>5
<1>8. Fresh(s) /\ Tries(s, 0)
  BY <1>5, <1>7 DEF Fresh, Dated, Tries, Tried
<1>9. t \in State /\ SameRest(s, t)
  BY <1>3, <1>4, ResetSent
<1>10. /\ Asked(t, {}) /\ (Fresh(s) => Fresh(t))
       /\ \A n \in Nat : Tries(s, n) => Tries(t, n)
  <2>1. 1 \in Number /\ 1 \in {0, s.committed + 1}
    BY <1>3, <1>5
  <2> QED BY <1>4, <2>1, ResetTold
<1>11. InTurn(t) /\ OneSubmitted(t) /\ t.committed = 0 /\ sealStartIndex(t) = 1
  <2>1. sealStartIndex(s) = 1
    BY <1>5 DEF sealStartIndex, Larger
  <2> QED BY <1>5, <1>6, <1>9, <2>1, RestTold
<1> HIDE DEF t
<1>12. NoGap(t, 1)
  BY <1>11 DEF NoGap
<1>13. node \in State /\ SameRest(t, node)
  BY <1>1, <1>9, Notified
<1>14. /\ Grows(t, node, {}) /\ Asked(node, {})
       /\ 1 = t.committed + 1 /\ LeaderIndex(1, t.view) = Me /\ canHandleNewProposal(t)
            => node.sealEnd >= 1
  BY <1>1, <1>9, <1>10, <1>12, NotifyTold
<1>15. /\ InTurn(node) /\ OneSubmitted(node) /\ node.committed = 0 /\ node.view = t.view
       /\ canHandleNewProposal(node) = canHandleNewProposal(t)
  BY <1>11, <1>13, RestTold
<1>16. Due(node, {})
  <2>1. LeaderIndex(node.committed + 1, node.view) = Me /\ canHandleNewProposal(node)
          => node.sealEnd >= node.committed + 1
    BY <1>11, <1>14, <1>15
  <2> QED BY <1>13, <1>14, <2>1, ReachedIsDue
<1>17. Fresh(node) /\ Tries(node, 0)
  BY <1>8, <1>10, <1>14 DEF Grows
<1>18. faults["notify"] = 0
  BY <1>1 DEF Faults
<1> QED BY <1>1, <1>14, <1>15, <1>16, <1>17, <1>18 DEF ToldInv, Told

\* The steps that lose a notification.
LEMMA LosingTold ==
  ASSUME TypeOK, ResetFails \/ LateNewView \/ RecoverView
  PROVE  ToldInv'
<1>1. CASE ResetFails
  <2>1. Event("reset", Taken)
    BY <1>1 DEF ResetFails
  <2> QED BY <2>1, LossTold
<1>2. CASE LateNewView
  <2>1. Event("late", NewView(node, node.view + 1, {[index |-> node.committed, txs |-> TRUE]}))
    BY <1>2 DEF LateNewView
  <2> QED BY <2>1, LossTold
<1>3. CASE RecoverView
  <2>1. Event("recover", resetNewViewState(node, node.view + 1))
    BY <1>3 DEF RecoverView
  <2> QED BY <2>1, LossTold
<1> QED BY <1>1, <1>2, <1>3

\* The steps of the sealer and of its answers.
LEMMA SealerTold ==
  ASSUME TypeOK, SealingInv, ToldInv,
         \/ SealerTakesRange \/ SealerResets \/ SealerFails \/ ResetFails \/ ResetAnswered
         \/ \E r \in node.retries : RetryNotification(r)
         \/ \E i \in Index : SubmitProposal(i)
         \/ \E m \in node.submitted : HandleSubmitted(m) \/ RefuseSubmitted(m)
  PROVE  ToldInv'
  BY TakesRangeTold, ResetsTold, FailsTold, LosingTold, AnsweredTold, RetryTold,
     SubmitTold, HandleSubmittedTold, RefuseTold, Zenon

\* The steps of the engine.
LEMMA EngineTold ==
  ASSUME TypeOK, SealingInv, ToldInv,
         \/ \E i \in Index : HandlePrePrepare(i)
         \/ \E m \in node.verifying : VerifySucceeds(m) \/ VerifyFails(m)
         \/ \E p \in node.accepted : Execute(p)
         \/ \E i \in node.executing : ExecuteFinished(i)
         \/ Commit
         \/ \E k \in Index : SyncBlock(k) \/ NotifySyncing(k)
         \/ Timeout \/ ChangeView \/ LateNewView \/ RecoverView
  PROVE  ToldInv'
  BY PrePrepareTold, VerifySucceedsTold, VerifyFailsTold, ExecuteTold, ExecuteFinishedTold,
     CommitStepTold, SyncBlockTold, SyncingTold, TimeoutTold, ChangeViewTold, LosingTold, Zenon

\* Every step keeps the invariant.
LEMMA NextTold ==
  ASSUME TypeOK, SealingInv, ToldInv, Next
  PROVE  ToldInv'
  BY SealerTold, MarkingTold, EngineTold, Zenon DEF Next

\* And so does a step that changes nothing.
LEMMA StutterTold ==
  ASSUME TypeOK, ToldInv, UNCHANGED vars
  PROVE  ToldInv'
<1>1. Step(node)
  BY DEF vars, Step
<1> QED BY <1>1, StepTold

\* What the invariant says when nothing is under way.
LEMMA SettledIsTold ==
  ASSUME TypeOK, ToldInv
  PROVE  LeaderIsToldUnlessLost
<1> DEFINE i == node.committed + 1
<1> SUFFICES ASSUME ~Lost, Settled, MayStart(node), i \notin node.executing,
                    i \notin Indices({m.proposal : m \in node.verifying} \cup node.accepted)
             PROVE  i \in todo
  BY DEF LeaderIsToldUnlessLost, LeaderIsTold, Lost, MayStart
<1>1. Handled(node, todo, i) \/ Returns(node, i)
  BY DEF ToldInv, Told, Due
<1>2. i \notin Indices(node.accepted)
  BY DEF Indices
<1>3. /\ Len(node.toSealer) = 0 /\ Len(node.answers) = 0
      /\ node.retries = {} /\ node.submitted = {}
  BY DEF Settled
<1>4. ~Returns(node, i) /\ ~Live(node.toSealer, i)
  BY <1>3 DEF Returns, Back, Live
<1> QED BY <1>1, <1>2, <1>3, <1>4 DEF Handled, Covered

(***************************************************************************)
(* notifySealer, reNotifySealer, notifyResetSealing and every event that   *)
(* calls them: when the next block is this node's to seal, nothing forbids *)
(* it and nothing is under way, the sealer has been asked for it, through  *)
(* timeouts, view changes, synchronised blocks, failed verifications and   *)
(* repeated notifications in any order and number, as long as none of the  *)
(* seven losses of LeaderIsToldUnlessLost has happened.                    *)
(***************************************************************************)
THEOREM LeaderIsToldHolds == Spec => []LeaderIsToldUnlessLost
<1>1. Init => ToldInv
  BY InitTold
<1>2. TypeOK /\ SealingInv /\ ToldInv /\ [Next]_vars => ToldInv'
  BY NextTold, StutterTold
<1>3. TypeOK /\ ToldInv => LeaderIsToldUnlessLost
  BY SettledIsTold
<1> QED BY <1>1, <1>2, <1>3, SealingInvariant, PTL DEF Spec

=============================================================================

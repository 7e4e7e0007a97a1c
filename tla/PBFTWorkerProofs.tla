-------------------------- MODULE PBFTWorkerProofs --------------------------
(***************************************************************************)
(* The message queue of a node, for every number of blocks and views: type *)
(* correctness, and that no message goes astray.                           *)
(***************************************************************************)
EXTENDS PBFTWorker, FiniteSetTheorems, TLAPS

\* The registers of a state.
LEMMA Registers ==
  ASSUME NEW s \in State
  PROVE  /\ s.timeout \in BOOLEAN /\ s.view \in View
         /\ s.committed \in 0 .. MaxIndex /\ s.expected \in 1 .. MaxIndex + 1
         /\ s.waitSeal \in 0 .. MaxIndex /\ s.waitReseal \in 0 .. MaxIndex
         /\ s.syncing \in 0 .. MaxIndex /\ s.queue \in Seq(Message)
         /\ s.popped \in SUBSET Message /\ s.early \in SUBSET (Index \X View)
         /\ s.ordered \in SUBSET Index /\ s.stable \in SUBSET Index
         /\ s.committed \in Int /\ s.expected \in Int /\ s.syncing \in Int
  BY WorkerAssumption DEF State

\* The numbers of blocks.
LEMMA IndexBounds ==
  /\ MaxIndex \in Nat /\ MaxView \in Nat
  /\ \A i : i \in Index <=> i \in Int /\ 1 <= i /\ i <= MaxIndex
  BY WorkerAssumption DEF Index

\* The three kinds of messages.
LEMMA MessageKinds ==
  ASSUME NEW m \in Message
  PROVE  /\ m.type \in {"vote", "checkpoint", "newView"} /\ m.index \in 0 .. MaxIndex
         /\ m.type \in {"vote", "checkpoint"} => m.index \in Index
         /\ m.type \in {"vote", "newView"} => m.view \in View
<1>1. CASE m \in Vote
  BY <1>1, IndexBounds DEF Vote
<1>2. CASE m \in CheckPoint
  BY <1>2, IndexBounds, WorkerAssumption DEF CheckPoint
<1>3. CASE m \in NewView
  BY <1>3, IndexBounds DEF NewView
<1> QED BY <1>1, <1>2, <1>3 DEF Message

-----------------------------------------------------------------------------
(* The handlers *)

\* what no handler of a message touches
SameQueue(s, t) ==
  /\ t.queue = s.queue /\ t.popped = s.popped
  /\ t.committed = s.committed /\ t.expected = s.expected

\* Votes change the numbers in consensus only.
LEMMA VoteHandled ==
  ASSUME NEW s \in State, NEW m \in Message, m.type = "vote"
  PROVE  HandleVote(s, m) \in State /\ SameQueue(s, HandleVote(s, m))
<1>1. m.index \in Index /\ m.view \in View
  BY MessageKinds
<1>2. /\ s.ordered \cup {m.index} \in SUBSET Index
      /\ s.early \cup {<<m.index, m.view>>} \in SUBSET (Index \X View)
  BY <1>1, Registers
<1> DEFINE a == [s EXCEPT !.ordered = @ \cup {m.index}]
           b == [s EXCEPT !.early = @ \cup {<<m.index, m.view>>}]
<1>3. a \in State /\ SameQueue(s, a)
  BY <1>2 DEF State, SameQueue
<1>4. b \in State /\ SameQueue(s, b)
  BY <1>2 DEF State, SameQueue
<1>5. HandleVote(s, m) \in {s, a, b}
  BY DEF HandleVote
<1> HIDE DEF a, b
<1>6. SameQueue(s, s)
  BY DEF SameQueue
<1> QED BY <1>3, <1>4, <1>5, <1>6

\* CheckPoint messages change the stable numbers only.
LEMMA CheckPointHandled ==
  ASSUME NEW s \in State, NEW m \in Message, m.type = "checkpoint"
  PROVE  HandleCheckPoint(s, m) \in State /\ SameQueue(s, HandleCheckPoint(s, m))
<1>1. m.index \in Index
  BY MessageKinds
<1>2. s.stable \cup {m.index} \in SUBSET Index
  BY <1>1, Registers
<1> DEFINE a == [s EXCEPT !.stable = @ \cup {m.index}]
<1>3. a \in State /\ SameQueue(s, a)
  BY <1>2 DEF State, SameQueue
<1>4. HandleCheckPoint(s, m) \in {s, a}
  BY DEF HandleCheckPoint
<1> HIDE DEF a
<1>5. SameQueue(s, s)
  BY DEF SameQueue
<1> QED BY <1>3, <1>4, <1>5

\* A NewView changes the view and the numbers in consensus.
LEMMA NewViewHandled ==
  ASSUME NEW s \in State, NEW m \in Message, m.type = "newView"
  PROVE  HandleNewView(s, m) \in State /\ SameQueue(s, HandleNewView(s, m))
<1>1. m.index \in 0 .. MaxIndex /\ m.view \in View
  BY MessageKinds
<1> DEFINE e == {x \in s.early : x[2] >= m.view}
           o == s.ordered \cup {i \in s.expected .. m.index : <<i, m.view>> \in s.early}
           w == IF m.index > 0 THEN Larger(m.index, s.committed) ELSE s.waitReseal
           a == [s EXCEPT !.view = m.view, !.timeout = FALSE, !.waitReseal = w,
                          !.early = e, !.ordered = o]
<1>2. e \in SUBSET (Index \X View) /\ w \in 0 .. MaxIndex
  BY <1>1, Registers DEF Larger
<1>3. o \in SUBSET Index
  <2>1. {i \in s.expected .. m.index : <<i, m.view>> \in s.early} \in SUBSET Index
    BY <1>1, Registers, IndexBounds
  <2> QED BY <2>1, Registers
<1>4. HandleNewView(s, m) \in {s, a}
  BY DEF HandleNewView
<1> HIDE DEF e, o, w
<1>5. a \in State /\ SameQueue(s, a)
  BY <1>1, <1>2, <1>3 DEF State, SameQueue
<1> HIDE DEF a
<1>6. SameQueue(s, s)
  BY DEF SameQueue
<1> QED BY <1>4, <1>5, <1>6

\* handleMsg leaves the queue and the ledger alone.
LEMMA MessageHandled ==
  ASSUME NEW s \in State, NEW m \in Message
  PROVE  handleMsg(s, m) \in State /\ SameQueue(s, handleMsg(s, m))
<1>1. CASE m.type = "vote"
  BY <1>1, VoteHandled DEF handleMsg
<1>2. CASE m.type = "checkpoint"
  BY <1>2, CheckPointHandled DEF handleMsg
<1>3. CASE m.type = "newView"
  BY <1>3, NewViewHandled DEF handleMsg
<1> QED BY <1>1, <1>2, <1>3, MessageKinds

\* resetConfig moves the ledger on to number k.
LEMMA ConfigReset ==
  ASSUME NEW s \in State, NEW k \in Index
  PROVE  LET t == resetConfig(s, k) IN
         /\ t \in State /\ t.committed = k /\ t.expected > k
         /\ t.queue = s.queue /\ t.popped = s.popped
<1> DEFINE e == Larger(s.expected, k + 1)
           o == {i \in s.ordered : i > k}
           b == {i \in s.stable : i > k}
           t == [s EXCEPT !.committed = k, !.expected = e, !.timeout = s.syncing > k,
                          !.ordered = o, !.stable = b]
<1>1. e \in 1 .. MaxIndex + 1 /\ e > k /\ k \in 0 .. MaxIndex
  BY Registers, IndexBounds DEF Larger
<1>2. o \in SUBSET Index /\ b \in SUBSET Index /\ (s.syncing > k) \in BOOLEAN
  BY Registers
<1>3. resetConfig(s, k) = t
  BY DEF resetConfig
<1> HIDE DEF e, o, b
<1>4. /\ t \in State /\ t.committed = k /\ t.expected = e
      /\ t.queue = s.queue /\ t.popped = s.popped
  BY <1>1, <1>2 DEF State
<1> QED BY <1>1, <1>3, <1>4

-----------------------------------------------------------------------------
(* The inductive invariant *)

\* At most one message waits for the mutex.
AtMostOne(S) == S = {} \/ \E m \in S : S = {m}

\* What is in the queue or waits for the mutex has been received.
Delivered ==
  /\ node.popped \subseteq received
  /\ \A k \in 1 .. Len(node.queue) : node.queue[k] \in received

WorkerInv == AtMostOne(node.popped) /\ Delivered /\ NothingLost

\* At most one message is at most one.
LEMMA OneIsOne ==
  ASSUME NEW S, AtMostOne(S)
  PROVE  Cardinality(S) <= 1
<1>1. CASE S = {}
  BY <1>1, FS_EmptySet
<1>2. CASE \E m \in S : S = {m}
  BY <1>2, FS_Singleton
<1> QED BY <1>1, <1>2 DEF AtMostOne

\* A step that only changes registers, and does not move the ledger back.
LEMMA RegisterStep ==
  ASSUME TypeOK, WorkerInv, node' \in State, node'.committed < node'.expected,
         node'.queue = node.queue, node'.popped = node.popped,
         node'.committed >= node.committed,
         UNCHANGED <<received, handled>>, peers' \in [view : View, newView : NewView],
         syncs' \in 0 .. MaxSync
  PROVE  TypeOK' /\ WorkerInv'
<1>1. AtMostOne(node'.popped) /\ Cardinality(node'.popped) <= 1
  BY OneIsOne DEF WorkerInv
<1>2. TypeOK'
  BY <1>1 DEF TypeOK
<1>3. Delivered'
  BY DEF WorkerInv, Delivered
<1>4. NothingLost'
  <2> SUFFICES ASSUME NEW m \in received \ handled
               PROVE  InQueue(m)' \/ m \in node'.popped \/ m.index <= node'.committed
    BY DEF NothingLost
  <2>1. InQueue(m) \/ m \in node.popped \/ m.index <= node.committed
    BY DEF WorkerInv, NothingLost
  <2>2. m.index \in 0 .. MaxIndex /\ node.committed \in Int /\ node'.committed \in Int
    BY MessageKinds, Registers DEF TypeOK
  <2>3. m.index <= node.committed => m.index <= node'.committed
    BY <2>2
  <2> QED BY <2>1, <2>3 DEF InQueue
<1> QED BY <1>1, <1>2, <1>3, <1>4 DEF WorkerInv

-----------------------------------------------------------------------------
(* Steps *)

\* A message that arrives is put at the end of the queue.
LEMMA ReceiveKeeps ==
  ASSUME TypeOK, WorkerInv, NEW m \in Message, Receive(m)
  PROVE  TypeOK' /\ WorkerInv'
<1> DEFINE q == Append(node.queue, m)
<1>1. node \in State /\ node.queue \in Seq(Message)
  BY Registers DEF TypeOK
<1>2. /\ q \in Seq(Message) /\ Len(q) = Len(node.queue) + 1 /\ Len(node.queue) \in Nat
      /\ q[Len(q)] = m /\ \A k \in 1 .. Len(node.queue) : q[k] = node.queue[k]
  BY <1>1
<1>3. node' = [node EXCEPT !.queue = q]
  BY DEF Receive
<1>4. /\ received' = received \cup {m} /\ handled' = handled
      /\ peers' = peers /\ syncs' = syncs
  BY DEF Receive
<1> HIDE DEF q
<1>5. /\ node' \in State /\ node'.queue = q /\ node'.popped = node.popped
      /\ node'.committed = node.committed /\ node'.expected = node.expected
  BY <1>1, <1>2, <1>3 DEF State
<1>6. TypeOK'
  BY <1>4, <1>5 DEF TypeOK
<1>7. Delivered'
  BY <1>2, <1>4, <1>5 DEF WorkerInv, Delivered
<1>8. NothingLost'
  <2>1. DOMAIN node.queue = 1 .. Len(node.queue) /\ DOMAIN q = 1 .. Len(node.queue) + 1
    BY <1>1, <1>2
  <2>2. \A x : InQueue(x) \/ x = m => InQueue(x)'
    BY <1>2, <1>5, <2>1 DEF InQueue
  <2> QED BY <1>4, <1>5, <2>2 DEF WorkerInv, NothingLost
<1> QED BY <1>5, <1>6, <1>7, <1>8 DEF WorkerInv

\* The queue without its first message, which may go to the end.
LEMMA QueueRotates ==
  ASSUME NEW q \in Seq(Message), q # <<>>
  PROVE  /\ Head(q) \in Message /\ Tail(q) \in Seq(Message)
         /\ Head(q) = q[1] /\ 1 \in 1 .. Len(q)
         /\ \A k \in 1 .. Len(Tail(q)) : Tail(q)[k] = q[k + 1] /\ k + 1 \in 1 .. Len(q)
         /\ Append(Tail(q), Head(q)) \in Seq(Message)
         /\ \A x : (\E k \in DOMAIN q : q[k] = x)
                   => x = Head(q) \/ \E k \in DOMAIN Tail(q) : Tail(q)[k] = x
         /\ \A x : (\E k \in DOMAIN q : q[k] = x)
                   => \E k \in DOMAIN Append(Tail(q), Head(q)) : Append(Tail(q), Head(q))[k] = x
<1> DEFINE r == Tail(q)
<1>1. Len(q) \in Nat /\ Len(q) >= 1 /\ 1 \in 1 .. Len(q) /\ DOMAIN q = 1 .. Len(q)
  <2>1. Len(q) \in Nat /\ Len(q) # 0
    OBVIOUS
  <2> QED BY <2>1
<1>2. Head(q) = q[1] /\ Head(q) \in Message
  BY <1>1
<1>3. /\ r \in Seq(Message) /\ Len(r) = Len(q) - 1
      /\ \A k \in 1 .. Len(q) - 1 : r[k] = q[k + 1]
  BY <1>1
<1> HIDE DEF r
<1>4. DOMAIN r = 1 .. Len(q) - 1
  BY <1>3
<1>5. \A k \in 1 .. Len(q) - 1 : k + 1 \in 1 .. Len(q)
  BY <1>1
<1>6. \A x : (\E k \in DOMAIN q : q[k] = x) => x = Head(q) \/ \E k \in DOMAIN r : r[k] = x
  <2> SUFFICES ASSUME NEW k \in 1 .. Len(q), k # 1
               PROVE  \E j \in DOMAIN r : r[j] = q[k]
    BY <1>1, <1>2
  <2>1. k - 1 \in 1 .. Len(q) - 1 /\ (k - 1) + 1 = k
    BY <1>1
  <2>2. r[k - 1] = q[k]
    BY <1>3, <2>1
  <2> QED BY <1>4, <2>1, <2>2
<1> DEFINE a == Append(r, Head(q))
<1>7. /\ a \in Seq(Message) /\ Len(a) = Len(r) + 1 /\ a[Len(r) + 1] = Head(q)
      /\ \A k \in 1 .. Len(r) : a[k] = r[k]
  BY <1>2, <1>3
<1> HIDE DEF a
<1>8. DOMAIN a = 1 .. Len(r) + 1 /\ Len(r) \in Nat /\ DOMAIN r = 1 .. Len(r)
  BY <1>3, <1>7
<1>9. \A x : x = Head(q) \/ (\E k \in DOMAIN r : r[k] = x) => \E k \in DOMAIN a : a[k] = x
  BY <1>7, <1>8
<1> QED BY <1>1, <1>2, <1>3, <1>5, <1>6, <1>7, <1>9 DEF a, r

\* executeWorker takes a message, puts it back, or drops one of the ledger.
LEMMA PopKeeps ==
  ASSUME TypeOK, WorkerInv, Pop
  PROVE  TypeOK' /\ WorkerInv'
<1> DEFINE q == node.queue
           m == Head(q)
           p == IF Allowed(node, m) THEN {m} ELSE {}
           r == IF Kept(node, m) THEN Append(Tail(q), m) ELSE Tail(q)
<1>1. node \in State /\ q \in Seq(Message) /\ q # <<>> /\ node.popped = {}
  BY Registers DEF TypeOK, Pop
<1>2. /\ node' = [node EXCEPT !.popped = p, !.queue = r]
      /\ received' = received /\ handled' = handled /\ peers' = peers /\ syncs' = syncs
  BY DEF Pop, Step
<1>3. /\ m \in Message /\ Tail(q) \in Seq(Message) /\ Append(Tail(q), m) \in Seq(Message)
      /\ m = q[1] /\ 1 \in 1 .. Len(q)
      /\ \A k \in 1 .. Len(Tail(q)) : Tail(q)[k] = q[k + 1] /\ k + 1 \in 1 .. Len(q)
  BY <1>1, QueueRotates
<1>4. p \in SUBSET Message /\ r \in Seq(Message) /\ AtMostOne(p)
  BY <1>3 DEF AtMostOne
<1>5. m \in received
  BY <1>3 DEF WorkerInv, Delivered
<1>6. \A k \in 1 .. Len(r) : r[k] \in received
  <2>1. \A k \in 1 .. Len(Tail(q)) : Tail(q)[k] \in received
    BY <1>3 DEF WorkerInv, Delivered
  <2> DEFINE u == Tail(q)
  <2>2. u \in Seq(Message) /\ \A k \in 1 .. Len(u) : u[k] \in received
    BY <1>3, <2>1
  <2> HIDE DEF u, m
  <2>3. \A k \in 1 .. Len(Append(u, m)) : Append(u, m)[k] \in received
    BY <1>5, <2>2
  <2> QED BY <2>2, <2>3 DEF u
<1>7. \A x : InQueue(x) => (\E k \in DOMAIN r : r[k] = x) \/ (x = m /\ ~Kept(node, m))
  <2>1. /\ \A x : (\E k \in DOMAIN q : q[k] = x) => x = m \/ \E k \in DOMAIN Tail(q) : Tail(q)[k] = x
        /\ \A x : (\E k \in DOMAIN q : q[k] = x)
                  => \E k \in DOMAIN Append(Tail(q), m) : Append(Tail(q), m)[k] = x
    BY <1>1, QueueRotates, Zenon
  <2>2. CASE Kept(node, m)
    <3>1. r = Append(Tail(q), m)
      BY <2>2, Zenon
    <3> HIDE DEF r, m
    <3> QED BY <2>1, <3>1, Zenon DEF InQueue
  <2>3. CASE ~Kept(node, m)
    <3>1. r = Tail(q)
      BY <2>3, Zenon
    <3> HIDE DEF r, m
    <3> QED BY <2>1, <2>3, <3>1, Zenon DEF InQueue
  <2> QED BY <2>2, <2>3
<1>8. m \in p \/ Kept(node, m) \/ m.index <= node.committed
  <2>1. m.index \in Int /\ node.committed \in Int
    BY <1>1, <1>3, MessageKinds, Registers
  <2> QED BY <2>1 DEF Kept
<1> HIDE DEF q, m, p, r
<1>9. /\ node' \in State /\ node'.queue = r /\ node'.popped = p
      /\ node'.committed = node.committed /\ node'.expected = node.expected
  BY <1>1, <1>2, <1>4 DEF State
<1>10. TypeOK'
  BY <1>2, <1>4, <1>9, OneIsOne DEF TypeOK
<1>11. Delivered'
  <2>1. p \subseteq received
    BY <1>5 DEF p
  <2> QED BY <1>2, <1>6, <1>9, <2>1 DEF Delivered
<1>12. NothingLost'
  <2> SUFFICES ASSUME NEW x \in received \ handled
               PROVE  InQueue(x)' \/ x \in node'.popped \/ x.index <= node'.committed
    BY <1>2 DEF NothingLost
  <2>1. InQueue(x) \/ x.index <= node.committed
    BY <1>1 DEF WorkerInv, NothingLost
  <2> QED BY <1>7, <1>8, <1>9, <2>1 DEF InQueue
<1> QED BY <1>4, <1>9, <1>10, <1>11, <1>12 DEF WorkerInv

\* The message that waited for the mutex is handled.
LEMMA HandleKeeps ==
  ASSUME TypeOK, WorkerInv, Handle
  PROVE  TypeOK' /\ WorkerInv'
<1>1. PICK m \in node.popped :
        /\ node' = [handleMsg(node, m) EXCEPT !.popped = {}]
        /\ handled' = handled \cup {m}
        /\ received' = received /\ peers' = peers /\ syncs' = syncs
  BY DEF Handle
<1> DEFINE s == handleMsg(node, m)
<1>2. node \in State /\ m \in Message /\ node.popped = {m} /\ m \in received
  BY Registers DEF TypeOK, WorkerInv, AtMostOne, Delivered
<1>3. s \in State /\ SameQueue(node, s)
  BY <1>2, MessageHandled
<1>4. node' = [s EXCEPT !.popped = {}]
  BY <1>1
<1> HIDE DEF s
<1>5. /\ node' \in State /\ node'.popped = {} /\ node'.queue = node.queue
      /\ node'.committed = node.committed /\ node'.expected = node.expected
  BY <1>3, <1>4 DEF State, SameQueue
<1>6. AtMostOne(node'.popped) /\ Cardinality(node'.popped) <= 1
  BY <1>5, OneIsOne DEF AtMostOne
<1>7. TypeOK'
  BY <1>1, <1>2, <1>5, <1>6 DEF TypeOK
<1>8. Delivered'
  BY <1>1, <1>5 DEF WorkerInv, Delivered
<1>9. NothingLost'
  BY <1>1, <1>2, <1>5 DEF WorkerInv, NothingLost, InQueue
<1> QED BY <1>6, <1>7, <1>8, <1>9 DEF WorkerInv

\* Executions, commits, timeouts and synchronised blocks leave the queue alone.
LEMMA OthersKeep ==
  ASSUME TypeOK, WorkerInv,
         \/ Execute \/ Commit \/ OnTimeout \/ SyncBlock
         \/ \E r \in 0 .. MaxIndex : PeersChangeView(r)
         \/ \E k \in Index : NotifySyncing(k)
  PROVE  TypeOK' /\ WorkerInv'
<1>0. /\ node \in State /\ node.committed < node.expected
      /\ peers \in [view : View, newView : NewView] /\ syncs \in 0 .. MaxSync
  BY DEF TypeOK
<1>1. CASE Execute
  <2> DEFINE w == IF node.expected \in System THEN node.expected ELSE node.waitSeal
             t == [node EXCEPT !.expected = @ + 1, !.waitSeal = w]
  <2>1. node' = t /\ UNCHANGED <<peers, received, handled, syncs>> /\ node.expected \in Index
    BY <1>0, <1>1, Registers DEF Execute, Step
  <2>2. w \in 0 .. MaxIndex /\ node.expected + 1 \in 1 .. MaxIndex + 1
    BY <1>0, <2>1, Registers, IndexBounds
  <2> HIDE DEF w
  <2>3. /\ t \in State /\ t.queue = node.queue /\ t.popped = node.popped
        /\ t.committed = node.committed /\ t.expected = node.expected + 1
    BY <1>0, <2>2 DEF State
  <2> HIDE DEF t
  <2>4. t.committed < t.expected /\ t.committed >= node.committed
    BY <1>0, <2>3, Registers
  <2> QED BY <1>0, <2>1, <2>3, <2>4, RegisterStep
<1>2. CASE Commit
  <2> DEFINE k == node.committed + 1
  <2>1. node' = resetConfig(node, k) /\ UNCHANGED <<peers, received, handled, syncs>>
    BY <1>2 DEF Commit, Step
  <2>2. k \in Index /\ k > node.committed
    BY <1>0, <1>2, Registers, IndexBounds DEF Commit, CanCommit
  <2> HIDE DEF k
  <2>3. /\ node' \in State /\ node'.committed = k /\ node'.expected > k
        /\ node'.queue = node.queue /\ node'.popped = node.popped
    BY <1>0, <2>1, <2>2, ConfigReset
  <2>4. node'.committed < node'.expected /\ node'.committed >= node.committed
    BY <1>0, <2>2, <2>3, Registers, IndexBounds
  <2> QED BY <1>0, <2>1, <2>3, <2>4, RegisterStep
<1>3. CASE OnTimeout
  <2> DEFINE t == [node EXCEPT !.timeout = TRUE]
  <2>1. node' = t /\ UNCHANGED <<peers, received, handled, syncs>>
    BY <1>3 DEF OnTimeout, Step
  <2>2. /\ t \in State /\ t.queue = node.queue /\ t.popped = node.popped
        /\ t.committed = node.committed /\ t.expected = node.expected
    BY <1>0 DEF State
  <2> HIDE DEF t
  <2>3. t.committed < t.expected /\ t.committed >= node.committed
    BY <1>0, <2>2, Registers
  <2> QED BY <1>0, <2>1, <2>2, <2>3, RegisterStep
<1>4. CASE SyncBlock
  <2> DEFINE k == node.syncing
             s == resetConfig(node, k)
             b == {i \in s.stable : i >= node.expected}
             t == [s EXCEPT !.expected = k + 1, !.ordered = {}, !.stable = b]
  <2>1. node' = t /\ UNCHANGED <<peers, received, handled, syncs>>
    BY <1>4 DEF SyncBlock, Step
  <2>2. k \in Index /\ k > node.committed /\ k + 1 \in 1 .. MaxIndex + 1
    BY <1>0, <1>4, Registers, IndexBounds DEF SyncBlock
  <2> HIDE DEF k
  <2>3. s \in State /\ s.committed = k /\ s.queue = node.queue /\ s.popped = node.popped
    BY <1>0, <2>2, ConfigReset
  <2> HIDE DEF s
  <2>4. b \in SUBSET Index
    BY <2>3, Registers
  <2> HIDE DEF b
  <2>5. /\ t \in State /\ t.committed = k /\ t.expected = k + 1
        /\ t.queue = node.queue /\ t.popped = node.popped
    BY <2>2, <2>3, <2>4 DEF State
  <2> HIDE DEF t
  <2>6. t.committed < t.expected /\ t.committed >= node.committed
    BY <1>0, <2>2, <2>5, Registers, IndexBounds
  <2> QED BY <1>0, <2>1, <2>5, <2>6, RegisterStep
<1>5. ASSUME NEW r \in 0 .. MaxIndex, PeersChangeView(r) PROVE TypeOK' /\ WorkerInv'
  <2>1. peers.view + 1 \in View
    <3>1. peers.view \in View /\ peers.view < MaxView
      BY <1>0, <1>5 DEF PeersChangeView
    <3> QED BY <3>1, IndexBounds DEF View
  <2>2. peers' \in [view : View, newView : NewView]
    BY <1>5, <2>1 DEF PeersChangeView, NewView
  <2>3. node' = node /\ UNCHANGED <<received, handled>> /\ syncs' = syncs
    BY <1>5 DEF PeersChangeView
  <2>4. node.committed >= node.committed
    BY <1>0, Registers
  <2> QED BY <1>0, <2>2, <2>3, <2>4, RegisterStep
<1>6. ASSUME NEW k \in Index, NotifySyncing(k) PROVE TypeOK' /\ WorkerInv'
  <2> DEFINE l == Larger(node.syncing, k)
             t == [node EXCEPT !.syncing = l]
  <2>1. /\ node' = t /\ UNCHANGED <<received, handled>> /\ peers' = peers
        /\ syncs < MaxSync /\ syncs' = syncs + 1
    BY <1>6 DEF NotifySyncing
  <2>2. syncs' \in 0 .. MaxSync
    BY <1>0, <2>1, WorkerAssumption
  <2>3. l \in 0 .. MaxIndex
    BY <1>0, Registers, IndexBounds DEF Larger
  <2> HIDE DEF l
  <2>4. /\ t \in State /\ t.queue = node.queue /\ t.popped = node.popped
        /\ t.committed = node.committed /\ t.expected = node.expected
    BY <1>0, <2>3 DEF State
  <2> HIDE DEF t
  <2>5. t.committed < t.expected /\ t.committed >= node.committed
    BY <1>0, <2>4, Registers
  <2> QED BY <1>0, <2>1, <2>2, <2>4, <2>5, RegisterStep
<1> QED BY <1>1, <1>2, <1>3, <1>4, <1>5, <1>6

\* The first state is empty.
LEMMA InitWorker == Init => TypeOK /\ WorkerInv
<1> SUFFICES ASSUME Init PROVE TypeOK /\ WorkerInv
  OBVIOUS
<1>1. /\ <<>> \in Seq(Message) /\ Len(<<>>) = 0 /\ 0 \in 0 .. MaxIndex /\ 0 \in View
      /\ 1 \in 1 .. MaxIndex + 1 /\ 0 \in 0 .. MaxSync
  BY WorkerAssumption DEF View
<1>2. /\ node \in State /\ node.popped = {} /\ node.queue = <<>>
      /\ node.committed = 0 /\ node.expected = 1
  BY <1>1 DEF Init, State
<1>3. AtMostOne(node.popped) /\ Cardinality(node.popped) <= 1
  BY <1>2, OneIsOne DEF AtMostOne
<1>4. TypeOK
  BY <1>1, <1>2, <1>3 DEF Init, TypeOK, NewView
<1>5. Delivered /\ NothingLost
  BY <1>1, <1>2 DEF Init, Delivered, NothingLost
<1> QED BY <1>3, <1>4, <1>5 DEF WorkerInv

(***************************************************************************)
(* The registers and the queue keep their types, expectedCheckPoint stays  *)
(* beyond the ledger, at most one message waits for m_mutex, and the       *)
(* queue holds only what was received.                                     *)
(***************************************************************************)
THEOREM WorkerInvariant == Spec => [](TypeOK /\ WorkerInv)
<1>1. Init => TypeOK /\ WorkerInv
  BY InitWorker
<1>2. TypeOK /\ WorkerInv /\ [Next]_vars => (TypeOK /\ WorkerInv)'
  <2> SUFFICES ASSUME TypeOK, WorkerInv, [Next]_vars PROVE TypeOK' /\ WorkerInv'
    OBVIOUS
  <2>1. CASE UNCHANGED vars
    BY <2>1 DEF vars, TypeOK, WorkerInv, Delivered, NothingLost, InQueue
  <2>2. CASE Next
    BY <2>2, ReceiveKeeps, PopKeeps, HandleKeeps, OthersKeep, Zenon DEF Next
  <2> QED BY <2>1, <2>2
<1> QED BY <1>1, <1>2, PTL DEF Spec

(***************************************************************************)
(* Types of the message queue and its registers.                           *)
(***************************************************************************)
THEOREM WorkerTyped == Spec => []TypeOK
  BY WorkerInvariant, PTL

(***************************************************************************)
(* However the timeout state, system proposals, new views, commits and     *)
(* synchronised blocks follow each other, executeWorker loses no message   *)
(* but those of numbers on the ledger.                                     *)
(***************************************************************************)
THEOREM NothingLostHolds == Spec => []NothingLost
<1>1. TypeOK /\ WorkerInv => NothingLost
  BY DEF WorkerInv
<1> QED BY <1>1, WorkerInvariant, PTL

=============================================================================

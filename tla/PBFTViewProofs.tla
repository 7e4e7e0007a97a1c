--------------------------- MODULE PBFTViewProofs ---------------------------
(***************************************************************************)
(* Views, locks and closed numbers of PBFTOrdering, for any number of      *)
(* nodes, any weights and any bounds: a node never goes back to a lower    *)
(* view and enters only views a quorum asked for (ViewInv), takes nothing  *)
(* up again for a committed number, keeps its locks (ClosedInv), and sends *)
(* no votes in the timeout state but for what it took before (TallyInv).   *)
(***************************************************************************)
EXTENDS PBFTOrderingProofs

-----------------------------------------------------------------------------
(* What the operators of the view change do to a local state *)

\* ViewInv for a node in the middle of a handler, when the messages M were
\* sent before it: l.out is already sent.
ViewLocal(M, l) ==
  /\ Backed(M \cup l.out, l.ctl.view)
  /\ l.ctl.viewChanges \subseteq M \cup l.out
  /\ \A r \in l.ctl.recover : Backed(M \cup l.out, r[1])
  /\ \A m \in l.out : Truthful(M \cup l.out, m)

\* the lock and the execution result of a cache are kept, and a closed cache
\* stays closed
SameLock(c, d) ==
  /\ d.precommit = c.precommit /\ d.checkpoint = c.checkpoint /\ d.stable = c.stable
  /\ c = EmptyCache => d = EmptyCache

\* cache c of a node in view v becomes d when the node is in view w: votes and
\* marks may go, and on entering a view those of earlier views do
Fades(c, v, d, w) ==
  /\ d.prePrepare = c.prePrepare /\ d.precommit = c.precommit
  /\ d.prepares \subseteq c.prepares
  /\ d.precommitted => c.precommitted
  /\ w # v => ~d.precommitted /\ \A u \in d.prepares : u.view >= w

\* a prepare or commit message
IsVote(m) == m.type \in {"Prepare", "Commit"}

\* What the handlers of the view change do: they send no vote, do not go back to
\* a lower view, commit nothing and only fade the caches.
Onward(M, l, k) ==
  /\ l.out \subseteq k.out /\ \A m \in k.out \ l.out : ~IsVote(m)
  /\ l.ctl.view <= k.ctl.view
  /\ k.ctl.committed = l.ctl.committed
  /\ \A i \in Index : /\ SameLock(l.caches[i], k.caches[i])
                      /\ Fades(l.caches[i], l.ctl.view, k.caches[i], k.ctl.view)
  /\ ViewLocal(M, k)

\* More messages do not take the backing of a view away.
LEMMA BackedGrows ==
  ASSUME NEW M, NEW N, M \subseteq N, NEW v, Backed(M, v)
  PROVE  Backed(N, v)
<1> DEFINE S == {m.from : m \in {x \in M : x.type = "ViewChange" /\ x.view = v}}
           T == {m.from : m \in {x \in N : x.type = "ViewChange" /\ x.view = v}}
<1>1. S \subseteq T
  OBVIOUS
<1>2. v = 0 \/ IsQuorum(S)
  BY DEF Backed
<1> HIDE DEF S, T
<1>3. v = 0 \/ IsQuorum(T)
  BY <1>1, <1>2, QuorumMonotonic
<1> QED BY <1>3 DEF Backed, T

\* A message that told the truth still does when more has been sent.
LEMMA TruthfulGrows ==
  ASSUME NEW M, NEW N, M \subseteq N, NEW m, Truthful(M, m)
  PROVE  Truthful(N, m)
  BY BackedGrows DEF Truthful

\* A quorum of senders of view changes for a view backs it.
LEMMA SendersBack ==
  ASSUME NEW M, NEW v, NEW S \in SUBSET ViewChangeMsg, S \subseteq M, \A x \in S : x.view = v,
         IsQuorum(Senders(S))
  PROVE  Backed(M, v)
<1> DEFINE T == {m.from : m \in {x \in M : x.type = "ViewChange" /\ x.view = v}}
<1>1. \A x \in S : x.type = "ViewChange"
  BY DEF ViewChangeMsg
<1>2. Senders(S) \subseteq T
  BY <1>1 DEF Senders
<1> HIDE DEF T
<1>3. IsQuorum(T)
  BY <1>2, QuorumMonotonic
<1> QED BY <1>3 DEF Backed, T

\* Forgetting view changes and recover responses, and sending truthful
\* messages, keeps ViewLocal.
LEMMA ViewLocalKept ==
  ASSUME NEW M, NEW l, NEW k, ViewLocal(M, l), k.ctl.view = l.ctl.view,
         k.ctl.viewChanges \subseteq l.ctl.viewChanges, k.ctl.recover \subseteq l.ctl.recover,
         l.out \subseteq k.out, \A m \in k.out \ l.out : Truthful(M \cup k.out, m)
  PROVE  ViewLocal(M, k)
<1>1. M \cup l.out \subseteq M \cup k.out
  OBVIOUS
<1>2. Backed(M \cup k.out, k.ctl.view)
  BY <1>1, BackedGrows DEF ViewLocal
<1>3. \A r \in k.ctl.recover : Backed(M \cup k.out, r[1])
  BY <1>1, BackedGrows DEF ViewLocal
<1>4. \A m \in k.out : Truthful(M \cup k.out, m)
  BY <1>1, TruthfulGrows DEF ViewLocal
<1> QED BY <1>1, <1>2, <1>3, <1>4 DEF ViewLocal

\* Only a NewView and a RecoverResponse have something to tell.
LEMMA OthersTruthful ==
  ASSUME NEW M, NEW m, m.type \notin {"NewView", "RecoverResponse"}
  PROVE  Truthful(M, m)
  BY DEF Truthful

\* Fading twice, in views that do not decrease, is fading.
LEMMA FadesTransitive ==
  ASSUME NEW a, NEW b, NEW c, NEW u \in Int, NEW v \in Int, NEW w \in Int,
         Fades(a, u, b, v), Fades(b, v, c, w)
  PROVE  Fades(a, u, c, w)
<1>1. /\ c.prePrepare = a.prePrepare /\ c.precommit = a.precommit
      /\ c.prepares \subseteq a.prepares /\ (c.precommitted => a.precommitted)
  BY DEF Fades
<1>2. ASSUME w # u PROVE ~c.precommitted /\ \A x \in c.prepares : x.view >= w
  <2>1. CASE w # v
    BY <2>1 DEF Fades
  <2>2. CASE w = v
    BY <1>2, <2>2 DEF Fades
  <2> QED BY <2>1, <2>2
<1> QED BY <1>1, <1>2 DEF Fades

\* A change that leaves the caches, the view and the committed number alone, and
\* sends no vote, is onward.
LEMMA OnwardSame ==
  ASSUME NEW M, NEW l \in LocalState, NEW k, ViewLocal(M, k),
         k.caches = l.caches, k.ctl.view = l.ctl.view, k.ctl.committed = l.ctl.committed,
         l.out \subseteq k.out, \A m \in k.out \ l.out : ~IsVote(m)
  PROVE  Onward(M, l, k)
<1>1. l.ctl.view \in Int
  BY LocalFields DEF View
<1>2. \A i \in Index : /\ SameLock(l.caches[i], k.caches[i])
                       /\ Fades(l.caches[i], l.ctl.view, k.caches[i], k.ctl.view)
  BY DEF SameLock, Fades
<1> QED BY <1>1, <1>2 DEF Onward

\* A state that keeps ViewLocal is onward from itself.
LEMMA OnwardReflexive ==
  ASSUME NEW M, NEW l \in LocalState, ViewLocal(M, l)
  PROVE  Onward(M, l, l)
  BY OnwardSame

\* Two onward changes make one.
LEMMA OnwardTransitive ==
  ASSUME NEW M, NEW a \in LocalState, NEW b \in LocalState, NEW c \in LocalState,
         Onward(M, a, b), Onward(M, b, c)
  PROVE  Onward(M, a, c)
<1>1. a.ctl.view \in Int /\ b.ctl.view \in Int /\ c.ctl.view \in Int
  BY LocalFields DEF View
<1>2. a.ctl.view <= c.ctl.view
  BY <1>1 DEF Onward
<1>3. \A i \in Index : SameLock(a.caches[i], c.caches[i])
  BY DEF Onward, SameLock
<1>4. \A i \in Index : Fades(a.caches[i], a.ctl.view, c.caches[i], c.ctl.view)
  <2> SUFFICES ASSUME NEW i \in Index
               PROVE  Fades(a.caches[i], a.ctl.view, c.caches[i], c.ctl.view)
    OBVIOUS
  <2>1. /\ Fades(a.caches[i], a.ctl.view, b.caches[i], b.ctl.view)
        /\ Fades(b.caches[i], b.ctl.view, c.caches[i], c.ctl.view)
    BY DEF Onward
  <2> QED BY <1>1, <2>1, FadesTransitive
<1>5. \A m \in c.out \ a.out : ~IsVote(m)
  BY DEF Onward
<1> QED BY <1>2, <1>3, <1>4, <1>5 DEF Onward

\* Changing other registers than the view, or forgetting view changes and
\* recover responses, is onward.
LEMMA OnwardRegisters ==
  ASSUME NEW M, NEW l \in LocalState, NEW k, ViewLocal(M, l),
         k.caches = l.caches, k.out = l.out, k.ctl.view = l.ctl.view,
         k.ctl.committed = l.ctl.committed,
         k.ctl.viewChanges \subseteq l.ctl.viewChanges, k.ctl.recover \subseteq l.ctl.recover
  PROVE  Onward(M, l, k)
<1>1. ViewLocal(M, k)
  BY ViewLocalKept
<1> QED BY <1>1, OnwardSame

\* Sending a truthful message that is no vote is onward.
LEMMA OnwardSend ==
  ASSUME NEW M, NEW l \in LocalState, NEW m, ViewLocal(M, l), ~IsVote(m),
         Truthful(M \cup (l.out \cup {m}), m)
  PROVE  Onward(M, l, [l EXCEPT !.out = @ \cup {m}])
<1> DEFINE k == [l EXCEPT !.out = @ \cup {m}]
<1>1. k.ctl = l.ctl /\ k.caches = l.caches /\ k.out = l.out \cup {m}
  BY DEF LocalState
<1> HIDE DEF k
<1>2. ViewLocal(M, k)
  BY <1>1, ViewLocalKept
<1>3. Onward(M, l, k)
  BY <1>1, <1>2, OnwardSame
<1> QED BY <1>3 DEF k

\* Starting what can be executed is onward.
LEMMA OnwardApply ==
  ASSUME NEW M, NEW l \in LocalState, ViewLocal(M, l)
  PROVE  Onward(M, l, tryToApplyCommitQueue(l))
<1> DEFINE k == tryToApplyCommitQueue(l)
<1>1. k.caches = l.caches /\ k.out = l.out
  BY DEF tryToApplyCommitQueue, LocalState
<1>2. /\ k.ctl.view = l.ctl.view /\ k.ctl.committed = l.ctl.committed
      /\ k.ctl.viewChanges = l.ctl.viewChanges /\ k.ctl.recover = l.ctl.recover
  BY DEF tryToApplyCommitQueue, LocalState, Registers
<1> HIDE DEF k
<1>3. Onward(M, l, k)
  BY <1>1, <1>2, OnwardRegisters
<1> QED BY <1>3 DEF k

\* Dropping old view changes is onward.
LEMMA OnwardRemoveInvalid ==
  ASSUME NEW M, NEW l \in LocalState, NEW v, NEW c, ViewLocal(M, l)
  PROVE  Onward(M, l, removeInvalidViewChange(l, v, c))
<1> DEFINE k == removeInvalidViewChange(l, v, c)
<1>1. k.caches = l.caches /\ k.out = l.out
  BY DEF removeInvalidViewChange, LocalState
<1>2. /\ k.ctl.view = l.ctl.view /\ k.ctl.committed = l.ctl.committed
      /\ k.ctl.viewChanges \subseteq l.ctl.viewChanges /\ k.ctl.recover = l.ctl.recover
  BY DEF removeInvalidViewChange, LocalState, Registers
<1> HIDE DEF k
<1>3. Onward(M, l, k)
  BY <1>1, <1>2, OnwardRegisters
<1> QED BY <1>3 DEF k

\* Dropping the maxima of the view changes is onward.
LEMMA OnwardClear ==
  ASSUME NEW M, NEW l \in LocalState, ViewLocal(M, l)
  PROVE  Onward(M, l, ClearNewViewState(l))
<1> DEFINE k == ClearNewViewState(l)
<1>1. k.caches = l.caches /\ k.out = l.out
  BY DEF ClearNewViewState, LocalState
<1>2. /\ k.ctl.view = l.ctl.view /\ k.ctl.committed = l.ctl.committed
      /\ k.ctl.viewChanges = l.ctl.viewChanges /\ k.ctl.recover = l.ctl.recover
  BY DEF ClearNewViewState, LocalState, Registers
<1> HIDE DEF k
<1>3. Onward(M, l, k)
  BY <1>1, <1>2, OnwardRegisters
<1> QED BY <1>3 DEF k

\* Storing a view change that was sent is onward.
LEMMA OnwardAddViewChange ==
  ASSUME NEW M, NEW l \in LocalState, NEW m, ViewLocal(M, l), m \in M \cup l.out
  PROVE  Onward(M, l, addViewChangeReq(l, m))
<1> DEFINE k == addViewChangeReq(l, m)
<1>1. k.caches = l.caches /\ k.out = l.out
  BY DEF addViewChangeReq, LocalState
<1>2. /\ k.ctl.view = l.ctl.view /\ k.ctl.committed = l.ctl.committed
      /\ k.ctl.viewChanges \subseteq l.ctl.viewChanges \cup {m} /\ k.ctl.recover = l.ctl.recover
  BY DEF addViewChangeReq, LocalState, Registers
<1> HIDE DEF k
<1>3. ViewLocal(M, k)
  BY <1>1, <1>2 DEF ViewLocal
<1>4. Onward(M, l, k)
  BY <1>1, <1>2, <1>3, OnwardSame
<1> QED BY <1>4 DEF k

\* resetCache fades a cache of a node that enters view v, and of one that is in
\* another view already.
LEMMA ResetCacheFades ==
  ASSUME NEW c \in Cache, NEW u \in View, NEW v \in View, NEW w \in View, w # u => w = v
  PROVE  /\ resetCache(c, v) \in Cache /\ SameLock(c, resetCache(c, v))
         /\ Fades(c, u, resetCache(c, v), w)
<1> DEFINE d == resetCache(c, v)
<1>1. d \in Cache
  BY DEF resetCache, Cache
<1>2. c = EmptyCache => d = EmptyCache
  <2> SUFFICES resetCache(EmptyCache, v) = EmptyCache
    OBVIOUS
  <2>1. {x \in {} : x.view >= v} = {}
    OBVIOUS
  <2>2. EmptyCache.prepares = {} /\ EmptyCache.commits = {}
    BY DEF EmptyCache
  <2>3. resetCache(EmptyCache, v) = [EmptyCache EXCEPT !.submitted = FALSE, !.precommitted = FALSE,
                                                      !.prepares = {}, !.commits = {}]
    BY <2>1, <2>2, Zenon DEF resetCache
  <2> QED BY <2>3 DEF EmptyCache
<1>3. /\ d.precommit = c.precommit /\ d.checkpoint = c.checkpoint /\ d.stable = c.stable
      /\ d.prePrepare = c.prePrepare /\ d.precommitted = FALSE
      /\ d.prepares = {x \in c.prepares : x.view >= v}
  BY DEF resetCache, Cache
<1> HIDE DEF d
<1>4. SameLock(c, d)
  BY <1>2, <1>3 DEF SameLock
<1>5. Fades(c, u, d, w)
  BY <1>3 DEF Fades
<1> QED BY <1>1, <1>4, <1>5 DEF d

\* Entering a view v a quorum asked for, and resetting the caches to view x, is
\* onward: a lower view is not entered, votes go, locks stay.
LEMMA OnwardEnter ==
  ASSUME NEW M, NEW l \in LocalState, NEW v \in View, NEW x \in View,
         ViewLocal(M, l), Backed(M \cup l.out, v), ~(l.ctl.view > v) => x = v
  PROVE  Onward(M, l, resetCacheAfterViewChange(resetNewViewState(l, v), x))
<1> DEFINE a  == resetNewViewState(l, v)
           C  == [i \in Index |-> resetCache(a.caches[i], x)]
           R  == {r \in a.ctl.recover : r[1] > x}
           l1 == [a EXCEPT !.caches = C, !.ctl.recover = R]
           l2 == ClearNewViewState(l1)
           l3 == removeInvalidViewChange(l2, x, a.ctl.committed)
<1>0. l.ctl.view \in View /\ l.ctl.view \in Int /\ v \in Int
  BY LocalFields DEF View
<1>1. a \in LocalState /\ a.caches = l.caches /\ a.out = l.out
  <2>1. a \in LocalState
    BY ResetViewType
  <2>2. a.caches = l.caches /\ a.out = l.out
    BY DEF resetNewViewState, LocalState
  <2> QED BY <2>1, <2>2
<1>2. /\ a.ctl.view = IF l.ctl.view > v THEN l.ctl.view ELSE v
      /\ a.ctl.committed = l.ctl.committed
      /\ a.ctl.viewChanges = l.ctl.viewChanges /\ a.ctl.recover = l.ctl.recover
  BY DEF resetNewViewState, LocalState, Registers
<1>3. resetCacheAfterViewChange(a, x) = l3
  BY DEF resetCacheAfterViewChange
<1> HIDE DEF a
<1>4. ViewLocal(M, a)
  BY <1>1, <1>2 DEF ViewLocal
<1>5. l.ctl.view <= a.ctl.view /\ a.ctl.view \in View /\ (a.ctl.view # l.ctl.view => a.ctl.view = x)
  BY <1>0, <1>2
<1>6. /\ C \in [Index -> Cache]
      /\ \A i \in Index : /\ SameLock(l.caches[i], C[i])
                          /\ Fades(l.caches[i], l.ctl.view, C[i], a.ctl.view)
  <2>1. \A i \in Index : l.caches[i] \in Cache
    BY LocalFields
  <2>2. \A i \in Index : /\ resetCache(l.caches[i], x) \in Cache
                         /\ SameLock(l.caches[i], resetCache(l.caches[i], x))
                         /\ Fades(l.caches[i], l.ctl.view, resetCache(l.caches[i], x), a.ctl.view)
    BY <1>0, <1>5, <2>1, ResetCacheFades
  <2> QED BY <1>1, <2>2
<1>7. [a.ctl EXCEPT !.recover = R] \in Registers
  <2>1. R \subseteq View \X Node
    BY <1>1 DEF LocalState, Registers
  <2> HIDE DEF R
  <2> QED BY <1>1, <2>1 DEF LocalState, Registers
<1>8. l1 \in LocalState
  <2> HIDE DEF C, R
  <2> QED BY <1>1, <1>6, <1>7 DEF LocalState
<1>9. Onward(M, l, l1)
  <2>0. R \subseteq a.ctl.recover
    OBVIOUS
  <2> HIDE DEF C, R
  <2>1. l1.caches = C /\ l1.out = l.out
    BY <1>1 DEF LocalState
  <2>2. /\ l1.ctl.view = a.ctl.view /\ l1.ctl.committed = l.ctl.committed
        /\ l1.ctl.viewChanges = a.ctl.viewChanges /\ l1.ctl.recover = R
    BY <1>1, <1>2 DEF LocalState, Registers
  <2> HIDE DEF l1
  <2>3. ViewLocal(M, l1)
    BY <1>1, <1>4, <2>0, <2>1, <2>2, ViewLocalKept
  <2> QED BY <1>5, <1>6, <2>1, <2>2, <2>3 DEF Onward
<1> HIDE DEF l1
<1>10. l2 \in LocalState /\ Onward(M, l1, l2)
  BY <1>8, <1>9, ClearType, OnwardClear DEF Onward
<1> HIDE DEF l2
<1>11. l3 \in LocalState /\ Onward(M, l2, l3)
  BY <1>10, RemoveInvalidType, OnwardRemoveInvalid DEF Onward
<1> HIDE DEF l3
<1>12. Onward(M, l, l2)
  BY <1>8, <1>9, <1>10, OnwardTransitive
<1>13. Onward(M, l, l3)
  BY <1>10, <1>11, <1>12, OnwardTransitive
<1> QED BY <1>3, <1>13 DEF a

\* Reaching a new view a quorum asked for is onward.
LEMMA OnwardReach ==
  ASSUME NEW M, NEW l \in LocalState, NEW v \in View, ViewLocal(M, l), Backed(M \cup l.out, v)
  PROVE  Onward(M, l, reachNewView(l, v))
<1> DEFINE x == resetNewViewState(l, v).ctl.view
<1>1. reachNewView(l, v) = resetCacheAfterViewChange(resetNewViewState(l, v), x)
  BY DEF reachNewView
<1>2. x \in View /\ (~(l.ctl.view > v) => x = v)
  <2>1. x = IF l.ctl.view > v THEN l.ctl.view ELSE v
    BY DEF resetNewViewState, LocalState, Registers
  <2> HIDE DEF x
  <2> QED BY <2>1, LocalFields
<1> HIDE DEF x
<1> QED BY <1>1, <1>2, OnwardEnter

\* Taking up the proposals of a new view a quorum asked for is onward.
LEMMA OnwardReHandle ==
  ASSUME NEW M, NEW l \in LocalState, NEW m \in NewViewMsg, ViewLocal(M, l),
         Backed(M \cup l.out, m.view)
  PROVE  Onward(M, l, reHandlePrePrepareProposals(l, m))
<1> DEFINE l1 == reachNewView(l, m.view)
           k  == reHandlePrePrepareProposals(l, m)
<1>0. m.view \in View
  BY DEF NewViewMsg
<1>1. l1 \in LocalState /\ Onward(M, l, l1) /\ k \in LocalState
  BY <1>0, ReachType, OnwardReach, ReHandleType
<1>2. PICK P, w : k = [l1 EXCEPT !.pending = P, !.ctl.waitReseal = w]
  BY DEF reHandlePrePrepareProposals
<1> HIDE DEF l1, k
<1>3. k.caches = l1.caches /\ k.out = l1.out
  BY <1>1, <1>2 DEF LocalState
<1>4. /\ k.ctl.view = l1.ctl.view /\ k.ctl.committed = l1.ctl.committed
      /\ k.ctl.viewChanges = l1.ctl.viewChanges /\ k.ctl.recover = l1.ctl.recover
  BY <1>1, <1>2 DEF LocalState, Registers
<1>5. Onward(M, l1, k)
  BY <1>1, <1>3, <1>4, OnwardRegisters DEF Onward
<1>6. Onward(M, l, k)
  BY <1>1, <1>5, OnwardTransitive
<1> QED BY <1>6 DEF k

\* Generating a NewView is onward: its view changes are a quorum that asked
\* for the view.
LEMMA OnwardIntoNewView ==
  ASSUME NEW M, NEW n \in Node, NEW l \in LocalState, ViewLocal(M, l)
  PROVE  Onward(M, l, checkAndTryIntoNewView(n, l))
<1> DEFINE m  == newViewMsg(n, l)
           S  == ViewChangesFor(l, l.ctl.toView)
           l0 == [l EXCEPT !.out = @ \cup {m}]
           l1 == [l EXCEPT !.out = @ \cup {m}, !.ctl.newViewGenerated = TRUE]
           l2 == reHandlePrePrepareProposals(l1, m)
<1>1. m \in NewViewMsg /\ m \in Message
  BY NewViewType DEF Message, NewViewMsg
<1>2. m.view = l.ctl.toView /\ m.viewChanges = S /\ m.type = "NewView"
  BY DEF newViewMsg
<1>3. checkAndTryIntoNewView(n, l) = IF CanGenerateNewView(n, l) THEN l2 ELSE l
  BY DEF checkAndTryIntoNewView
<1>4. S \in SUBSET ViewChangeMsg /\ S \subseteq M \cup l.out /\ \A x \in S : x.view = l.ctl.toView
  <2>1. l.ctl.viewChanges \in SUBSET ViewChangeMsg
    BY DEF LocalState, Registers
  <2>2. l.ctl.viewChanges \subseteq M \cup l.out
    BY DEF ViewLocal
  <2> QED BY <2>1, <2>2 DEF ViewChangesFor
<1>5. CanGenerateNewView(n, l) => IsQuorum(Senders(S))
  BY DEF CanGenerateNewView
<1> HIDE DEF m, S
<1>6. CASE CanGenerateNewView(n, l)
  <2>1. Backed(M \cup l.out, m.view)
    BY <1>2, <1>4, <1>5, <1>6, SendersBack
  <2>2. Truthful(M \cup (l.out \cup {m}), m)
    BY <1>2, <1>4 DEF Truthful
  <2>3. l0 \in LocalState /\ Onward(M, l, l0)
    <3>1. l0 \in LocalState
      BY <1>1 DEF LocalState
    <3>2. ~IsVote(m)
      BY <1>2 DEF IsVote
    <3> QED BY <2>2, <3>1, <3>2, OnwardSend
  <2>4. l1 \in LocalState
    <3>1. [l.ctl EXCEPT !.newViewGenerated = TRUE] \in Registers
      BY DEF LocalState, Registers
    <3> QED BY <1>1, <3>1 DEF LocalState
  <2>5. l1.caches = l0.caches /\ l1.out = l0.out /\ l1.out = l.out \cup {m}
    BY DEF LocalState
  <2>6. /\ l1.ctl.view = l0.ctl.view /\ l1.ctl.committed = l0.ctl.committed
        /\ l1.ctl.viewChanges = l0.ctl.viewChanges /\ l1.ctl.recover = l0.ctl.recover
    BY DEF LocalState, Registers
  <2> HIDE DEF l0, l1
  <2>7. Onward(M, l0, l1)
    BY <2>3, <2>5, <2>6, OnwardRegisters DEF Onward
  <2>8. Onward(M, l, l1)
    BY <2>3, <2>4, <2>7, OnwardTransitive
  <2>9. Backed(M \cup l1.out, m.view)
    <3>1. M \cup l.out \subseteq M \cup l1.out
      BY <2>5
    <3> QED BY <2>1, <3>1, BackedGrows
  <2>10. l2 \in LocalState /\ Onward(M, l1, l2)
    BY <1>1, <2>4, <2>8, <2>9, ReHandleType, OnwardReHandle DEF Onward
  <2> HIDE DEF l2
  <2> QED BY <1>3, <1>6, <2>4, <2>8, <2>10, OnwardTransitive
<1>7. CASE ~CanGenerateNewView(n, l)
  BY <1>3, <1>7, OnwardReflexive
<1> QED BY <1>6, <1>7

\* Sending a view change is onward.
LEMMA OnwardSendViewChange ==
  ASSUME NEW M, NEW n \in Node, NEW l \in LocalState, NEW dest \in SUBSET Node, ViewLocal(M, l)
  PROVE  Onward(M, l, SendViewChange(n, l, dest))
<1> DEFINE m  == generateViewChange(n, l, dest)
           l1 == [l EXCEPT !.out = @ \cup {m}]
           l2 == addViewChangeReq(l1, m)
           l3 == checkAndTryIntoNewView(n, l2)
<1>1. m \in ViewChangeMsg /\ m \in Message
  BY GenerateType
<1>2. m.type \notin {"NewView", "RecoverResponse"} /\ ~IsVote(m)
  BY <1>1 DEF ViewChangeMsg, IsVote
<1>3. SendViewChange(n, l, dest) = l3
  BY DEF SendViewChange
<1> HIDE DEF m
<1>4. l1 \in LocalState /\ m \in l1.out
  BY <1>1 DEF LocalState
<1>5. Onward(M, l, l1)
  BY <1>2, OthersTruthful, OnwardSend
<1> HIDE DEF l1
<1>6. l2 \in LocalState /\ Onward(M, l1, l2)
  BY <1>1, <1>4, <1>5, AddViewChangeType, OnwardAddViewChange DEF Onward
<1> HIDE DEF l2
<1>7. l3 \in LocalState /\ Onward(M, l2, l3)
  BY <1>6, IntoNewViewType, OnwardIntoNewView DEF Onward
<1> HIDE DEF l3
<1>8. Onward(M, l, l2)
  BY <1>4, <1>5, <1>6, OnwardTransitive
<1> QED BY <1>3, <1>6, <1>7, <1>8, OnwardTransitive

\* A timeout is onward.
LEMMA OnwardTimeout ==
  ASSUME NEW M, NEW n \in Node, NEW l \in LocalState, NEW v \in View, v < MaxView, ViewLocal(M, l)
  PROVE  Onward(M, l, triggerTimeout(n, [l EXCEPT !.ctl.toView = v]))
<1> DEFINE l0 == [l EXCEPT !.ctl.toView = v]
           l1 == [l0 EXCEPT !.ctl.timeout = TRUE, !.ctl.toView = @ + 1]
           l2 == removeInvalidViewChange(l1, l0.ctl.view, l0.ctl.committed)
           l3 == SendViewChange(n, l2, Node \ {n})
<1>1. v + 1 \in View
  BY CacheAssumption DEF View
<1>2. l1 = [l EXCEPT !.ctl = [l.ctl EXCEPT !.timeout = TRUE, !.toView = v + 1]]
  BY DEF LocalState, Registers
<1>3. l1 \in LocalState
  <2>1. [l.ctl EXCEPT !.timeout = TRUE, !.toView = v + 1] \in Registers
    BY <1>1 DEF LocalState, Registers
  <2> QED BY <1>2, <2>1 DEF LocalState
<1>4. Onward(M, l, l1)
  <2> HIDE DEF l1
  <2>1. l1.caches = l.caches /\ l1.out = l.out
    BY <1>2 DEF LocalState
  <2>2. /\ l1.ctl.view = l.ctl.view /\ l1.ctl.committed = l.ctl.committed
        /\ l1.ctl.viewChanges = l.ctl.viewChanges /\ l1.ctl.recover = l.ctl.recover
    BY <1>2 DEF LocalState, Registers
  <2> QED BY <2>1, <2>2, OnwardRegisters
<1>5. triggerTimeout(n, l0) = l3
  BY DEF triggerTimeout
<1> HIDE DEF l1, l0
<1>6. l2 \in LocalState /\ Onward(M, l1, l2)
  BY <1>3, <1>4, RemoveInvalidType, OnwardRemoveInvalid DEF Onward
<1> HIDE DEF l2
<1>7. Node \ {n} \in SUBSET Node
  OBVIOUS
<1>8. l3 \in LocalState /\ Onward(M, l2, l3)
  <2>1. ViewLocal(M, l2)
    BY <1>6 DEF Onward
  <2>2. l3 \in LocalState
    BY <1>6, <1>7, SendViewChangeType
  <2> QED BY <1>6, <1>7, <2>1, <2>2, OnwardSendViewChange
<1> HIDE DEF l3
<1>9. Onward(M, l, l2)
  BY <1>3, <1>4, <1>6, OnwardTransitive
<1>10. Onward(M, l, triggerTimeout(n, l0))
  BY <1>5, <1>6, <1>8, <1>9, OnwardTransitive
<1> QED BY <1>10 DEF l0

\* The answer to a node that falls behind is onward: it tells the own view.
LEMMA OnwardReply ==
  ASSUME NEW M, NEW n \in Node, NEW l \in LocalState, NEW m, NEW sender \in Node, ViewLocal(M, l)
  PROVE  Onward(M, l, ReplyFallingBehind(n, l, m, sender))
<1> DEFINE x == [type |-> "RecoverResponse", from |-> n, to |-> {sender}, view |-> l.ctl.view]
           l1 == [l EXCEPT !.out = @ \cup {x}]
<1>1. x.type = "RecoverResponse" /\ x.view = l.ctl.view
  OBVIOUS
<1>2. Onward(M, l, l1)
  <2> HIDE DEF x
  <2>1. M \cup l.out \subseteq M \cup (l.out \cup {x})
    OBVIOUS
  <2>2. Backed(M \cup (l.out \cup {x}), x.view)
    BY <1>1, <2>1, BackedGrows DEF ViewLocal
  <2>3. Truthful(M \cup (l.out \cup {x}), x)
    BY <1>1, <2>2 DEF Truthful
  <2>4. ~IsVote(x)
    BY <1>1 DEF IsVote
  <2> QED BY <2>3, <2>4, OnwardSend
<1>3. Onward(M, l, SendViewChange(n, l, {sender}))
  BY OnwardSendViewChange
<1>4. ReplyFallingBehind(n, l, m, sender) \in {l, SendViewChange(n, l, {sender}), l1}
  BY DEF ReplyFallingBehind
<1>5. Onward(M, l, l)
  BY OnwardReflexive
<1> HIDE DEF l1
<1> QED BY <1>2, <1>3, <1>4, <1>5

\* Joining the view change of others is onward.
LEMMA OnwardFast ==
  ASSUME NEW M, NEW n \in Node, NEW l \in LocalState, NEW m, ViewLocal(M, l)
  PROVE  Onward(M, l, FastViewChange(n, l, m))
<1>1. \/ FastViewChange(n, l, m) = l
      \/ \E v \in View : /\ v < MaxView
                         /\ FastViewChange(n, l, m) = triggerTimeout(n, [l EXCEPT !.ctl.toView = v])
  BY FastTarget
<1>2. CASE FastViewChange(n, l, m) = l
  BY <1>2, OnwardReflexive
<1>3. ASSUME NEW v \in View, v < MaxView,
             FastViewChange(n, l, m) = triggerTimeout(n, [l EXCEPT !.ctl.toView = v])
      PROVE  Onward(M, l, FastViewChange(n, l, m))
  <2>1. Onward(M, l, triggerTimeout(n, [l EXCEPT !.ctl.toView = v]))
    BY <1>3, OnwardTimeout
  <2> QED BY <1>3, <2>1
<1> QED BY <1>1, <1>2, <1>3

\* Handling a view change that was sent is onward.
LEMMA OnwardHandleViewChange ==
  ASSUME NEW M, NEW n \in Node, NEW l \in LocalState, NEW m \in ViewChangeMsg, m \in M,
         ViewLocal(M, l)
  PROVE  Onward(M, l, handleViewChangeMsg(n, l, m))
<1> DEFINE l1 == ReplyFallingBehind(n, l, m, m.from)
           l2 == addViewChangeReq(l1, m)
           l3 == FastViewChange(n, l2, m)
           l4 == checkAndTryIntoNewView(n, l3)
<1>0. m.from \in Node
  BY DEF ViewChangeMsg
<1>1. handleViewChangeMsg(n, l, m) \in {l, l1, l4}
  BY DEF handleViewChangeMsg
<1>2. l1 \in LocalState /\ Onward(M, l, l1) /\ Onward(M, l, l)
  BY <1>0, ReplyType, OnwardReply, OnwardReflexive
<1> HIDE DEF l1
<1>3. l2 \in LocalState /\ Onward(M, l1, l2)
  BY <1>2, AddViewChangeType, OnwardAddViewChange DEF Onward
<1> HIDE DEF l2
<1>4. l3 \in LocalState /\ Onward(M, l2, l3)
  BY <1>3, FastType, OnwardFast, ZenonT(30) DEF Onward
<1> HIDE DEF l3
<1>5. l4 \in LocalState /\ Onward(M, l3, l4)
  BY <1>4, IntoNewViewType, OnwardIntoNewView DEF Onward
<1> HIDE DEF l4
<1>6. Onward(M, l, l2)
  BY <1>2, <1>3, OnwardTransitive
<1>7. Onward(M, l, l3)
  BY <1>3, <1>4, <1>6, OnwardTransitive
<1>8. Onward(M, l, l4)
  BY <1>4, <1>5, <1>7, OnwardTransitive
<1> QED BY <1>1, <1>2, <1>8

\* Handling a truthful NewView is onward: a quorum of its view changes, which
\* were sent, asked for the view.
LEMMA OnwardHandleNewView ==
  ASSUME NEW M, NEW n \in Node, NEW l \in LocalState, NEW m \in NewViewMsg, Truthful(M, m),
         ViewLocal(M, l)
  PROVE  Onward(M, l, handleNewViewMsg(n, l, m))
<1> DEFINE x  == FirstViewChange(m)
           l1 == IF x.committed < l.ctl.committed THEN l ELSE ReplyFallingBehind(n, l, x, m.from)
           l2 == reHandlePrePrepareProposals(l1, m)
<1>0. m.from \in Node /\ m.type = "NewView" /\ m.viewChanges \in SUBSET ViewChangeMsg
  BY DEF NewViewMsg
<1>1. \/ handleNewViewMsg(n, l, m) \in {l, l1}
      \/ handleNewViewMsg(n, l, m) = l2 /\ IsQuorum(Senders(m.viewChanges))
  BY DEF handleNewViewMsg
<1>2. l1 \in LocalState /\ Onward(M, l, l1) /\ Onward(M, l, l)
  <2> HIDE DEF x
  <2> QED BY <1>0, ReplyType, OnwardReply, OnwardReflexive
<1> HIDE DEF l1
<1>3. ASSUME IsQuorum(Senders(m.viewChanges)) PROVE Onward(M, l, l2)
  <2>1. m.viewChanges \subseteq M \cup l1.out /\ \A y \in m.viewChanges : y.view = m.view
    BY <1>0 DEF Truthful
  <2>2. Backed(M \cup l1.out, m.view)
    BY <1>0, <1>3, <2>1, SendersBack
  <2>3. l2 \in LocalState /\ Onward(M, l1, l2)
    BY <1>2, <2>2, ReHandleType, OnwardReHandle DEF Onward
  <2> HIDE DEF l2
  <2> QED BY <1>2, <2>3, OnwardTransitive
<1> HIDE DEF l2
<1> QED BY <1>1, <1>2, <1>3

\* Recovering the view is onward: a quorum answered with it, so some node was
\* in it.
LEMMA OnwardRecover ==
  ASSUME NEW M, NEW l \in LocalState, ViewLocal(M, l)
  PROVE  Onward(M, l, checkAndTryToRecover(l))
<1> DEFINE Q(w) == {r[2] : r \in {x \in l.ctl.recover : x[1] = w}}
           R == {v \in View : v > 0 /\ IsQuorum(Q(v))}
           v == Highest(R)
           l1 == resetNewViewState(l, v)
           l2 == resetCacheAfterViewChange(l1, v)
           l3 == [l2 EXCEPT !.ctl.recover = {}]
<1>0. Onward(M, l, l)
  BY OnwardReflexive
<1>1. checkAndTryToRecover(l) = IF R = {} THEN l ELSE l3
  BY DEF checkAndTryToRecover
<1>2. ASSUME R # {} PROVE v \in View /\ Backed(M \cup l.out, v)
  <2>1. R \in SUBSET (0 .. MaxView)
    BY DEF View
  <2>2. 0 \in Int /\ MaxView \in Int
    BY CacheAssumption
  <2>3. v \in R
    <3> HIDE DEF R
    <3> QED BY <1>2, <2>1, <2>2, HighestIn
  <2>4. IsQuorum(Q(v)) /\ v \in View
    BY <2>3
  <2> HIDE DEF R, v
  <2>5. PICK x \in l.ctl.recover : x[1] = v
    <3>1. Q(v) # {}
      BY <2>4, EmptyNoQuorum
    <3> QED BY <3>1
  <2>6. Backed(M \cup l.out, x[1])
    BY <2>5 DEF ViewLocal
  <2> QED BY <2>4, <2>5, <2>6
<1>3. ASSUME R # {} PROVE Onward(M, l, l3)
  <2> HIDE DEF R
  <2>0. v \in View /\ Backed(M \cup l.out, v)
    BY <1>2, <1>3
  <2> HIDE DEF v
  <2>1. l1 \in LocalState
    BY <2>0, ResetViewType
  <2>2. l2 \in LocalState /\ Onward(M, l, l2)
    <3>1. Onward(M, l, l2)
      BY <2>0, OnwardEnter
    <3> HIDE DEF l1
    <3>2. l2 \in LocalState
      BY <2>0, <2>1, ResetCachesType
    <3> QED BY <3>1, <3>2
  <2> HIDE DEF l2
  <2>3. l3.caches = l2.caches /\ l3.out = l2.out
    BY <2>2 DEF LocalState
  <2>4. /\ l3.ctl.view = l2.ctl.view /\ l3.ctl.committed = l2.ctl.committed
        /\ l3.ctl.viewChanges = l2.ctl.viewChanges /\ l3.ctl.recover = {}
    BY <2>2 DEF LocalState, Registers
  <2>5. l3 \in LocalState
    <3>1. [l2.ctl EXCEPT !.recover = {}] \in Registers
      BY <2>2 DEF LocalState, Registers
    <3> QED BY <2>2, <3>1 DEF LocalState
  <2> HIDE DEF l3
  <2>6. Onward(M, l2, l3)
    BY <2>2, <2>3, <2>4, OnwardRegisters DEF Onward
  <2> QED BY <2>2, <2>5, <2>6, OnwardTransitive
<1> HIDE DEF R, l3
<1> QED BY <1>0, <1>1, <1>3

-----------------------------------------------------------------------------
(* Locks and closed numbers *)

\* a lock on a proposal that has not been executed
Held(c) == c.precommit # NoProposal /\ c.checkpoint = NoHash

\* ClosedInv for a node in the middle of a handler
CachesClosed(l) ==
  \A i \in Index :
    /\ i <= l.ctl.committed => l.caches[i] = EmptyCache
    /\ l.caches[i].stable => l.caches[i].checkpoint # NoHash

\* the lock is on the proposal in consensus
LockedOn(c) == c.precommit # NoProposal => c.prePrepare.hash = c.precommit.hash

\* What a handler does: the view does not decrease, closed numbers stay closed,
\* and the locks of open numbers are kept.
Steady(l, k) ==
  /\ l.ctl.view <= k.ctl.view
  /\ CachesClosed(k)
  /\ \A i \in Index :
       Held(l.caches[i]) /\ i > k.ctl.committed
       => k.caches[i].precommit.hash = l.caches[i].precommit.hash

\* An onward change is steady.
LEMMA OnwardSteady ==
  ASSUME NEW M, NEW l, NEW k, CachesClosed(l), Onward(M, l, k)
  PROVE  Steady(l, k)
<1>1. CachesClosed(k)
  BY DEF Onward, SameLock, CachesClosed
<1>2. \A i \in Index : k.caches[i].precommit = l.caches[i].precommit
  BY DEF Onward, SameLock
<1> QED BY <1>1, <1>2 DEF Onward, Steady

\* TallyInv for one cache, and for a node in the middle of a handler
Tally(n, c, v) ==
  /\ OwnVotes(n, c, v)
  /\ CanPreCommit(c, v) => n \notin Voters(c.prepares, c.prePrepare.hash)

Tallied(n, l) == \A i \in Index : Tally(n, l.caches[i], l.ctl.view)

\* An empty cache waits for nothing.
LEMMA EmptyTally ==
  ASSUME NEW n, NEW v
  PROVE  Tally(n, EmptyCache, v)
  BY DEF Tally, OwnVotes, CanPreCommit, PrePreparedIn, EmptyCache

\* A cache that fades waits for no more than before: in the same view a lock of
\* that view cannot be renewed, and a later view has none of the own votes.
LEMMA FadesTally ==
  ASSUME NEW n \in Node, NEW c \in Cache, NEW d \in Cache, NEW v \in View, NEW w \in View,
         v <= w, Tally(n, c, v), Fades(c, v, d, w)
  PROVE  Tally(n, d, w)
<1>0. v \in Int /\ w \in Int /\ \A u \in c.prepares : u.view \in Int
  BY DEF View, Cache, Vote
<1>1. OwnVotes(n, d, w)
  <2>1. \A u \in d.prepares : u.from = n => u.view <= w
    BY <1>0 DEF Tally, OwnVotes, Fades
  <2>2. d.precommitted => d.precommit.view = w
    BY DEF Tally, OwnVotes, Fades
  <2> QED BY <2>1, <2>2 DEF OwnVotes
<1>2. ASSUME CanPreCommit(d, w) PROVE n \notin Voters(d.prepares, d.prePrepare.hash)
  <2>1. Voters(d.prepares, d.prePrepare.hash) \subseteq Voters(c.prepares, c.prePrepare.hash)
    BY DEF Fades, Voters
  <2>2. CASE w # v
    <3>1. \A u \in d.prepares : u \in c.prepares /\ u.view >= w
      BY <2>2 DEF Fades
    <3>2. \A u \in d.prepares : u.from # n
      BY <1>0, <2>2, <3>1 DEF Tally, OwnVotes
    <3> QED BY <3>2 DEF Voters
  <2>3. CASE w = v
    <3>1. c.prePrepare # NoProposal /\ c.prePrepare.view = v
      BY <1>2, <2>3 DEF CanPreCommit, PrePreparedIn, Fades
    <3>2. c.precommit # NoProposal => c.precommit.view < c.prePrepare.view
      BY <1>2 DEF CanPreCommit, Fades
    <3>3. ~c.precommitted
      <4> SUFFICES ASSUME c.precommitted PROVE FALSE
        OBVIOUS
      <4>1. c.precommit.view = v
        BY DEF Tally, OwnVotes
      <4>2. c.precommit # NoProposal
        BY <4>1 DEF NoProposal, View
      <4> QED BY <1>0, <3>1, <3>2, <4>1, <4>2
    <3>4. collectEnoughQuorum(c.prepares, c.prePrepare.hash)
      BY <1>2, <2>1, QuorumMonotonic DEF CanPreCommit, collectEnoughQuorum
    <3>5. CanPreCommit(c, v)
      BY <3>1, <3>2, <3>3, <3>4 DEF CanPreCommit, PrePreparedIn
    <3> QED BY <2>1, <3>5 DEF Tally
  <2> QED BY <2>2, <2>3
<1> QED BY <1>1, <1>2 DEF Tally

\* The votes and the marks of a cache are all that Tally looks at.
LEMMA SameTally ==
  ASSUME NEW c, NEW d, d.prePrepare = c.prePrepare, d.precommit = c.precommit,
         d.prepares = c.prepares, d.precommitted = c.precommitted,
         NEW n, NEW v, Tally(n, c, v)
  PROVE  Tally(n, d, v)
  BY DEF Tally, OwnVotes, CanPreCommit, PrePreparedIn

\* Nor does a node, after an onward change.
LEMMA OnwardTallied ==
  ASSUME NEW M, NEW n \in Node, NEW l \in LocalState, NEW k \in LocalState,
         Onward(M, l, k), Tallied(n, l)
  PROVE  Tallied(n, k)
<1> SUFFICES ASSUME NEW i \in Index PROVE Tally(n, k.caches[i], k.ctl.view)
  BY DEF Tallied
<1>1. /\ l.caches[i] \in Cache /\ k.caches[i] \in Cache
      /\ l.ctl.view \in View /\ k.ctl.view \in View
  BY LocalFields
<1>2. /\ l.ctl.view <= k.ctl.view /\ Tally(n, l.caches[i], l.ctl.view)
      /\ Fades(l.caches[i], l.ctl.view, k.caches[i], k.ctl.view)
  BY DEF Onward, Tallied
<1> QED BY <1>1, <1>2, FadesTally

\* What updateCommitQueue leaves alone.
LEMMA QueueFields ==
  ASSUME NEW l \in LocalState, NEW S \in SUBSET (Index \X Hash)
  PROVE  LET k == updateCommitQueue(l, S) IN
         /\ k.caches = l.caches /\ k.out = l.out
         /\ k.ctl.view = l.ctl.view /\ k.ctl.committed = l.ctl.committed
         /\ k.ctl.viewChanges = l.ctl.viewChanges /\ k.ctl.recover = l.ctl.recover
<1> DEFINE new == S \ l.ctl.executing
           Q   == l.ctl.queue \cup new
           D   == l.done \cup S
           l1  == [l EXCEPT !.ctl.queue = Q, !.done = D]
           k   == updateCommitQueue(l, S)
<1>1. k \in {l1, tryToApplyCommitQueue(l1)}
  BY DEF updateCommitQueue
<1>2. l1 \in LocalState
  <2>1. Q \subseteq Index \X Hash /\ D \subseteq Index \X Hash
    BY DEF LocalState, Registers
  <2> HIDE DEF Q, D
  <2>2. [l.ctl EXCEPT !.queue = Q] \in Registers
    BY <2>1 DEF LocalState, Registers
  <2> QED BY <2>1, <2>2 DEF LocalState
<1> HIDE DEF Q, D
<1>3. /\ l1.caches = l.caches /\ l1.out = l.out
      /\ l1.ctl.view = l.ctl.view /\ l1.ctl.committed = l.ctl.committed
      /\ l1.ctl.viewChanges = l.ctl.viewChanges /\ l1.ctl.recover = l.ctl.recover
  BY DEF LocalState, Registers
<1> HIDE DEF l1
<1>4. LET j == tryToApplyCommitQueue(l1) IN
      /\ j.caches = l1.caches /\ j.out = l1.out
      /\ j.ctl.view = l1.ctl.view /\ j.ctl.committed = l1.ctl.committed
      /\ j.ctl.viewChanges = l1.ctl.viewChanges /\ j.ctl.recover = l1.ctl.recover
  BY <1>2 DEF tryToApplyCommitQueue, LocalState, Registers
<1> HIDE DEF k
<1>5. /\ k.caches = l.caches /\ k.out = l.out
      /\ k.ctl.view = l.ctl.view /\ k.ctl.committed = l.ctl.committed
      /\ k.ctl.viewChanges = l.ctl.viewChanges /\ k.ctl.recover = l.ctl.recover
  BY <1>1, <1>3, <1>4
<1> QED BY <1>5 DEF k

\* checkAndCommit changes neither the lock, nor the execution result, nor the
\* prepares.
LEMMA CommitCacheLock ==
  ASSUME NEW c \in Cache, NEW v
  PROVE  SameLock(c, checkAndCommit(c, v)) /\ Fades(c, v, checkAndCommit(c, v), v)
<1>1. c = EmptyCache => ~CanCommit(c, v)
  BY DEF CanCommit, EmptyCache
<1>2. LET d == [c EXCEPT !.submitted = TRUE] IN
      /\ d.precommit = c.precommit /\ d.checkpoint = c.checkpoint /\ d.stable = c.stable
      /\ d.prePrepare = c.prePrepare /\ d.prepares = c.prepares /\ d.precommitted = c.precommitted
  BY DEF Cache
<1> QED BY <1>1, <1>2 DEF checkAndCommit, SameLock, Fades

\* checkAndPreCommit changes no execution result, moves a lock to the same
\* proposal of a newer view only, and does not act on an empty cache.
LEMMA PreCommitCacheLock ==
  ASSUME NEW c \in Cache, NEW n \in Node, NEW v \in View, LockedOn(c)
  PROVE  LET d == checkAndPreCommit(c, n, v) IN
         /\ d.checkpoint = c.checkpoint /\ d.stable = c.stable
         /\ c = EmptyCache => d = EmptyCache
         /\ c.precommit # NoProposal => d.precommit.hash = c.precommit.hash
<1> DEFINE e == intoPrecommit(c, n, v)
           d == checkAndPreCommit(c, n, v)
<1>1. CASE ~CanPreCommit(c, v)
  BY <1>1 DEF checkAndPreCommit
<1>2. CASE CanPreCommit(c, v)
  <2>1. c.prePrepare # NoProposal
    BY <1>2 DEF CanPreCommit, PrePreparedIn
  <2>2. c # EmptyCache
    BY <2>1 DEF EmptyCache
  <2>3. e \in Cache
    <3>1. c.prePrepare \in Proposal
      BY <2>1 DEF Cache
    <3>2. [from |-> n, hash |-> c.prePrepare.hash, view |-> v] \in Vote
      BY <3>1 DEF Proposal, Vote
    <3>3. addCache(c.commits, [from |-> n, hash |-> c.prePrepare.hash, view |-> v]) \subseteq Vote
      BY <3>2 DEF addCache, Cache
    <3> QED BY <3>1, <3>3 DEF intoPrecommit, Cache
  <2>4. e.checkpoint = c.checkpoint /\ e.stable = c.stable /\ e.precommit = c.prePrepare
    BY DEF intoPrecommit, Cache
  <2>5. d = checkAndCommit(e, v)
    BY <1>2 DEF checkAndPreCommit
  <2> HIDE DEF e, d
  <2>6. SameLock(e, d)
    BY <2>3, <2>5, CommitCacheLock
  <2>7. /\ d.checkpoint = c.checkpoint /\ d.stable = c.stable
        /\ c.precommit # NoProposal => d.precommit.hash = c.precommit.hash
    BY <2>4, <2>6 DEF SameLock, LockedOn
  <2> QED BY <2>2, <2>7 DEF d
<1> QED BY <1>1, <1>2

\* After checkAndPreCommit a cache does not wait to be precommitted.
LEMMA PreCommitCacheTally ==
  ASSUME NEW c \in Cache, NEW n \in Node, NEW v \in View, OwnVotes(n, c, v)
  PROVE  Tally(n, checkAndPreCommit(c, n, v), v)
<1> DEFINE e == intoPrecommit(c, n, v)
           d == checkAndPreCommit(c, n, v)
<1>1. CASE ~CanPreCommit(c, v)
  BY <1>1 DEF checkAndPreCommit, Tally
<1>2. CASE CanPreCommit(c, v)
  <2>1. /\ e.prepares = c.prepares /\ e.precommit = c.prePrepare /\ e.precommitted = TRUE
        /\ e \in [prePrepare : {e.prePrepare}, precommit : {e.precommit}, prepares : {e.prepares},
                  commits : {e.commits}, submitted : {e.submitted}, precommitted : {e.precommitted},
                  checkpoint : {e.checkpoint}, stable : {e.stable}]
    BY DEF intoPrecommit, Cache
  <2>2. d = checkAndCommit(e, v)
    BY <1>2 DEF checkAndPreCommit
  <2> HIDE DEF e, d
  <2>3. d.prepares = c.prepares /\ d.precommit = c.prePrepare /\ d.precommitted
    BY <2>1, <2>2 DEF checkAndCommit
  <2>4. c.prePrepare.view = v
    BY <1>2 DEF CanPreCommit, PrePreparedIn
  <2>5. Tally(n, d, v)
    BY <2>3, <2>4 DEF Tally, OwnVotes, CanPreCommit
  <2> QED BY <2>5 DEF d
<1> QED BY <1>1, <1>2

\* What checkAndPreCommit over all caches does to a node: it sends a commit vote
\* for each cache that can be precommitted.
LEMMA PreCommitFields ==
  ASSUME NEW n \in Node, NEW l \in LocalState
  PROVE  LET k == PreCommitAll(n, l) IN
         /\ \A i \in Index : k.caches[i] = checkAndPreCommit(l.caches[i], n, l.ctl.view)
         /\ l.out \subseteq k.out
         /\ \A m \in k.out \ l.out :
              /\ m.type = "Commit" /\ m.from = n /\ m.index \in Index
              /\ CanPreCommit(l.caches[m.index], l.ctl.view)
              /\ m.hash = l.caches[m.index].prePrepare.hash
         /\ k.ctl.view = l.ctl.view /\ k.ctl.committed = l.ctl.committed
         /\ k.ctl.viewChanges = l.ctl.viewChanges /\ k.ctl.recover = l.ctl.recover
<1> DEFINE v    == l.ctl.view
           S    == {i \in Index : CanPreCommit(l.caches[i], v)}
           new  == [i \in Index |-> checkAndPreCommit(l.caches[i], n, v)]
           sent == {ConsensusMsg("Commit", n, i, v, l.caches[i].prePrepare.hash) : i \in S}
           subm == {i \in S : new[i].submitted /\ ~l.caches[i].submitted}
           E    == {<<i, new[i].precommit.hash>> : i \in subm}
           O    == l.out \cup sent
           l1   == [l EXCEPT !.caches = new, !.out = O]
           k    == PreCommitAll(n, l)
<1>0. v \in View /\ \A i \in Index : l.caches[i] \in Cache
  BY LocalFields
<1>1. new \in [Index -> Cache] /\ \A i \in Index : new[i] = checkAndPreCommit(l.caches[i], n, v)
  BY <1>0, CheckOps
<1>2. \A m \in sent : /\ m \in Message /\ m.type = "Commit" /\ m.from = n /\ m.index \in Index
                      /\ CanPreCommit(l.caches[m.index], v)
                      /\ m.hash = l.caches[m.index].prePrepare.hash
  <2> SUFFICES ASSUME NEW i \in S
               PROVE  LET m == ConsensusMsg("Commit", n, i, v, l.caches[i].prePrepare.hash) IN
                      /\ m \in Message /\ m.type = "Commit" /\ m.from = n /\ m.index = i
                      /\ m.hash = l.caches[i].prePrepare.hash
    OBVIOUS
  <2>1. l.caches[i].prePrepare \in Proposal
    BY <1>0 DEF CanPreCommit, PrePreparedIn, Cache
  <2>2. l.caches[i].prePrepare.hash \in Hash
    BY <2>1 DEF Proposal
  <2> QED BY <1>0, <2>2 DEF ConsensusMsg, Message
<1>3. E \in SUBSET (Index \X Hash)
  <2>1. ASSUME NEW i \in S PROVE new[i].precommit.hash \in Hash
    <3>1. new[i] = checkAndCommit(intoPrecommit(l.caches[i], n, v), v)
      BY DEF checkAndPreCommit
    <3>2. l.caches[i].prePrepare \in Proposal /\ l.caches[i] \in Cache
      BY <1>0 DEF CanPreCommit, PrePreparedIn, Cache
    <3>3. new[i].precommit = l.caches[i].prePrepare
      BY <3>1, <3>2 DEF checkAndCommit, intoPrecommit, Cache
    <3> QED BY <3>2, <3>3 DEF Proposal
  <2> HIDE DEF new
  <2> QED BY <2>1
<1>4. k = updateCommitQueue(l1, E)
  BY DEF PreCommitAll
<1> HIDE DEF new, sent, E
<1>5. l1 \in LocalState
  BY <1>1, <1>2 DEF LocalState
<1>6. l1.caches = new /\ l1.out = l.out \cup sent /\ l1.ctl = l.ctl
  BY DEF LocalState
<1> HIDE DEF l1, k
<1>7. /\ k.caches = new /\ k.out = l.out \cup sent
      /\ k.ctl.view = l.ctl.view /\ k.ctl.committed = l.ctl.committed
      /\ k.ctl.viewChanges = l.ctl.viewChanges /\ k.ctl.recover = l.ctl.recover
  BY <1>3, <1>4, <1>5, <1>6, QueueFields
<1>8. \A m \in k.out \ l.out : /\ m.type = "Commit" /\ m.from = n /\ m.index \in Index
                               /\ CanPreCommit(l.caches[m.index], l.ctl.view)
                               /\ m.hash = l.caches[m.index].prePrepare.hash
  BY <1>2, <1>7
<1> QED BY <1>1, <1>7, <1>8 DEF k

\* Precommitting what has a quorum of prepares is steady, and leaves nothing to
\* precommit.
LEMMA SteadyPreCommit ==
  ASSUME NEW M, NEW n \in Node, NEW l \in LocalState, ViewLocal(M, l), CachesClosed(l),
         \A i \in Index : LockedOn(l.caches[i]) /\ OwnVotes(n, l.caches[i], l.ctl.view)
  PROVE  /\ Steady(l, PreCommitAll(n, l)) /\ ViewLocal(M, PreCommitAll(n, l))
         /\ Tallied(n, PreCommitAll(n, l))
<1> DEFINE k == PreCommitAll(n, l)
<1>0. l.ctl.view \in View /\ l.ctl.view \in Int /\ \A i \in Index : l.caches[i] \in Cache
  BY LocalFields DEF View
<1>1. /\ \A i \in Index : k.caches[i] = checkAndPreCommit(l.caches[i], n, l.ctl.view)
      /\ l.out \subseteq k.out /\ \A m \in k.out \ l.out : m.type = "Commit"
      /\ k.ctl.view = l.ctl.view /\ k.ctl.committed = l.ctl.committed
      /\ k.ctl.viewChanges = l.ctl.viewChanges /\ k.ctl.recover = l.ctl.recover
  BY PreCommitFields
<1> HIDE DEF k
<1>2. \A i \in Index :
        /\ k.caches[i].checkpoint = l.caches[i].checkpoint
        /\ k.caches[i].stable = l.caches[i].stable
        /\ l.caches[i] = EmptyCache => k.caches[i] = EmptyCache
        /\ l.caches[i].precommit # NoProposal
             => k.caches[i].precommit.hash = l.caches[i].precommit.hash
  BY <1>0, <1>1, PreCommitCacheLock
<1>3. ViewLocal(M, k)
  <2>1. \A m \in k.out \ l.out : Truthful(M \cup k.out, m)
    BY <1>1, OthersTruthful
  <2> QED BY <1>1, <2>1, ViewLocalKept
<1>4. CachesClosed(k)
  BY <1>1, <1>2 DEF CachesClosed
<1>5. Steady(l, k)
  BY <1>0, <1>1, <1>2, <1>4 DEF Steady, Held
<1>6. Tallied(n, k)
  BY <1>0, <1>1, PreCommitCacheTally DEF Tallied
<1> QED BY <1>3, <1>5, <1>6 DEF k

\* A change of the votes and pre-prepares of an open number that comes before a
\* steady change does not matter.
LEMMA SteadyAfter ==
  ASSUME NEW l, NEW j, NEW k, Steady(j, k), j.ctl.view = l.ctl.view,
         \A i \in Index : /\ j.caches[i].precommit = l.caches[i].precommit
                          /\ j.caches[i].checkpoint = l.caches[i].checkpoint
  PROVE  Steady(l, k)
  BY DEF Steady, Held

\* Submitting what has a quorum of commits is onward.
LEMMA OnwardCommit ==
  ASSUME NEW M, NEW l \in LocalState, ViewLocal(M, l)
  PROVE  Onward(M, l, CommitAll(l))
<1> DEFINE v    == l.ctl.view
           S    == {i \in Index : CanCommit(l.caches[i], v)}
           new  == [i \in Index |-> checkAndCommit(l.caches[i], v)]
           E    == {<<i, l.caches[i].precommit.hash>> : i \in S}
           l1   == [l EXCEPT !.caches = new]
           next == updateCommitQueue(l1, E)
           k    == [next EXCEPT !.ctl.toView = v]
<1>0. v \in View /\ v \in Int /\ \A i \in Index : l.caches[i] \in Cache
  BY LocalFields DEF View
<1>1. CommitAll(l) = IF S = {} THEN l ELSE k
  BY DEF CommitAll
<1>2. /\ new \in [Index -> Cache]
      /\ \A i \in Index : SameLock(l.caches[i], new[i]) /\ Fades(l.caches[i], v, new[i], v)
  <2>1. \A c \in Cache : checkAndCommit(c, v) \in Cache
    BY DEF checkAndCommit, Cache
  <2> QED BY <1>0, <2>1, CommitCacheLock
<1>3. E \in SUBSET (Index \X Hash)
  <2>1. ASSUME NEW i \in S PROVE l.caches[i].precommit.hash \in Hash
    <3>1. l.caches[i].precommit \in Proposal
      BY <1>0 DEF CanCommit, Cache
    <3> QED BY <3>1 DEF Proposal
  <2> QED BY <2>1
<1> HIDE DEF new, E
<1>4. l1 \in LocalState
  BY <1>2 DEF LocalState
<1>5. l1.caches = new /\ l1.out = l.out /\ l1.ctl = l.ctl
  BY DEF LocalState
<1> HIDE DEF l1
<1>6. next \in LocalState
  BY <1>3, <1>4, CommitQueueType
<1>7. /\ next.caches = new /\ next.out = l.out
      /\ next.ctl.view = l.ctl.view /\ next.ctl.committed = l.ctl.committed
      /\ next.ctl.viewChanges = l.ctl.viewChanges /\ next.ctl.recover = l.ctl.recover
  BY <1>3, <1>4, <1>5, QueueFields
<1> HIDE DEF next
<1>8. /\ k.caches = next.caches /\ k.out = next.out
      /\ k.ctl.view = next.ctl.view /\ k.ctl.committed = next.ctl.committed
      /\ k.ctl.viewChanges = next.ctl.viewChanges /\ k.ctl.recover = next.ctl.recover
  BY <1>6 DEF LocalState, Registers
<1> HIDE DEF k
<1>9. ViewLocal(M, k)
  BY <1>7, <1>8, ViewLocalKept
<1>10. Onward(M, l, k)
  BY <1>0, <1>2, <1>7, <1>8, <1>9 DEF Onward
<1>11. Onward(M, l, l)
  BY OnwardReflexive
<1> HIDE DEF S
<1> QED BY <1>1, <1>10, <1>11

\* What accepting a proposal does to a node before anything is precommitted.
LEMMA AddProposalFields ==
  ASSUME NEW n \in Node, NEW l \in LocalState, NEW m, Carries(m)
  PROVE  LET p    == [view |-> m.view, hash |-> m.hash, from |-> m.from]
             vote == [from |-> n, hash |-> m.hash, view |-> l.ctl.view]
             d    == addPrePrepareCache(l.caches[m.index], p)
         IN  \E j \in LocalState, e \in Cache :
               /\ AddProposal(n, l, m) = PreCommitAll(n, j)
               /\ j.ctl = l.ctl
               /\ j.out = l.out \cup {ConsensusMsg("Prepare", n, m.index, l.ctl.view, m.hash)}
               /\ \A i \in Index : j.caches[i] = IF i = m.index THEN e ELSE l.caches[i]
               /\ e.prePrepare = d.prePrepare
               /\ d \in {l.caches[m.index], [l.caches[m.index] EXCEPT !.prePrepare = p]}
               /\ e.precommit = l.caches[m.index].precommit
               /\ e.checkpoint = l.caches[m.index].checkpoint
               /\ e.stable = l.caches[m.index].stable
               /\ e.precommitted = l.caches[m.index].precommitted
               /\ e.prepares = addCache(l.caches[m.index].prepares, vote)
<1> DEFINE p    == [view |-> m.view, hash |-> m.hash, from |-> m.from]
           vote == [from |-> n, hash |-> m.hash, view |-> l.ctl.view]
           c    == l.caches[m.index]
           d    == addPrePrepareCache(c, p)
           e    == addPrepareCache(d, vote)
           x    == ConsensusMsg("Prepare", n, m.index, l.ctl.view, m.hash)
           C    == [l.caches EXCEPT ![m.index] = e]
           O    == l.out \cup {x}
           j    == [l EXCEPT !.caches = C, !.out = O]
<1>0. l.ctl.view \in View /\ m.index \in Index /\ m.hash \in Hash /\ m.view \in View
      /\ m.from \in Node /\ c \in Cache /\ l.caches \in [Index -> Cache]
  BY LocalFields DEF Carries
<1>1. p \in Proposal /\ vote \in Vote
  BY <1>0 DEF Proposal, Vote
<1>2. d \in Cache /\ d \in {c, [c EXCEPT !.prePrepare = p]}
  BY <1>0, <1>1 DEF addPrePrepareCache, Cache
<1>3. /\ d.precommit = c.precommit /\ d.checkpoint = c.checkpoint /\ d.stable = c.stable
      /\ d.precommitted = c.precommitted /\ d.prepares = c.prepares
  BY <1>0 DEF addPrePrepareCache, Cache
<1> HIDE DEF d, p, vote
<1>4. e \in Cache
  <2>1. addCache(d.prepares, vote) \subseteq Vote
    BY <1>1, <1>2 DEF addCache, Cache
  <2> QED BY <1>2, <2>1 DEF addPrepareCache, Cache
<1>5. /\ e.precommit = d.precommit /\ e.checkpoint = d.checkpoint /\ e.stable = d.stable
      /\ e.precommitted = d.precommitted /\ e.prePrepare = d.prePrepare
      /\ e.prepares = addCache(d.prepares, vote)
  BY <1>2 DEF addPrepareCache, Cache
<1>6. x \in Message
  BY <1>0 DEF ConsensusMsg, Message
<1>7. AddProposal(n, l, m) = PreCommitAll(n, j)
  BY <1>0 DEF AddProposal, d, p, vote
<1> HIDE DEF c, e, x
<1>8. /\ C \in [Index -> Cache]
      /\ \A i \in Index : C[i] = IF i = m.index THEN e ELSE l.caches[i]
  BY <1>0, <1>4
<1> HIDE DEF C
<1>9. j \in LocalState
  BY <1>6, <1>8 DEF LocalState
<1>10. j.caches = C /\ j.out = l.out \cup {x} /\ j.ctl = l.ctl
  BY DEF LocalState
<1> HIDE DEF j
<1>11. /\ AddProposal(n, l, m) = PreCommitAll(n, j)
       /\ j.ctl = l.ctl /\ j.out = l.out \cup {x}
       /\ \A i \in Index : j.caches[i] = IF i = m.index THEN e ELSE l.caches[i]
  BY <1>7, <1>8, <1>10
<1>12. /\ e.prePrepare = d.prePrepare /\ d \in {c, [c EXCEPT !.prePrepare = p]}
       /\ e.precommit = c.precommit /\ e.checkpoint = c.checkpoint /\ e.stable = c.stable
       /\ e.precommitted = c.precommitted /\ e.prepares = addCache(c.prepares, vote)
  BY <1>2, <1>3, <1>5
<1> QED BY <1>4, <1>9, <1>11, <1>12 DEF c, d, p, vote, x

\* n has the prepares of a proposal without the own vote; TakenAhead for a node
\* in the middle of a handler
Foreseen(n, l, i, h) ==
  /\ l.caches[i].prePrepare.hash = h /\ l.caches[i].prePrepare.view = l.ctl.view
  /\ n \notin Voters(l.caches[i].prepares, h)

\* Accepting a proposal, and precommitting, is steady: a locked node accepts no
\* other proposal for an open number.  The votes sent are for the proposal, or
\* commit votes for proposals taken ahead of their view.
LEMMA SteadyAddProposal ==
  ASSUME NEW M, NEW n \in Node, NEW l \in LocalState, NEW m, Carries(m), NEW b,
         AcceptProposal(l, m, b), m.index > l.ctl.committed,
         ViewLocal(M, l), CachesClosed(l), Tallied(n, l), \A i \in Index : LockedOn(l.caches[i])
  PROVE  LET k == AddProposal(n, l, m) IN
         /\ Steady(l, k) /\ ViewLocal(M, k) /\ Tallied(n, k)
         /\ \A y \in k.out \ l.out :
              /\ y.from = n
              /\ \/ y.index = m.index /\ y.hash = m.hash
                 \/ y.type = "Commit" /\ Foreseen(n, l, y.index, y.hash)
<1> DEFINE p    == [view |-> m.view, hash |-> m.hash, from |-> m.from]
           vote == [from |-> n, hash |-> m.hash, view |-> l.ctl.view]
           c    == l.caches[m.index]
           d    == addPrePrepareCache(c, p)
           x    == ConsensusMsg("Prepare", n, m.index, l.ctl.view, m.hash)
           k    == AddProposal(n, l, m)
<1>0. /\ l.ctl.view \in View /\ m.index \in Index /\ c \in Cache /\ l.ctl.view \in Int
      /\ vote.from = n /\ vote.view = l.ctl.view /\ vote.hash = m.hash
  BY LocalFields DEF Carries, View
<1>1. /\ x.type = "Prepare" /\ x.from = n /\ x.index = m.index /\ x.hash = m.hash
  BY DEF ConsensusMsg
<1>2. PICK j \in LocalState, e \in Cache :
        /\ k = PreCommitAll(n, j)
        /\ j.ctl = l.ctl
        /\ j.out = l.out \cup {x}
        /\ \A i \in Index : j.caches[i] = IF i = m.index THEN e ELSE l.caches[i]
        /\ e.prePrepare = d.prePrepare
        /\ d \in {c, [c EXCEPT !.prePrepare = p]}
        /\ e.precommit = c.precommit /\ e.checkpoint = c.checkpoint /\ e.stable = c.stable
        /\ e.precommitted = c.precommitted /\ e.prepares = addCache(c.prepares, vote)
  BY AddProposalFields
<1>3. e.prePrepare = c.prePrepare \/ e.prePrepare.hash = m.hash
  BY <1>0, <1>2 DEF Cache
<1>4. c.precommit # NoProposal => m.hash = c.precommit.hash
  <2>1. ~conflictWithPrecommitReq(c, m.index, progressedIndex(l), m)
    BY DEF AcceptProposal, checkPrePrepareMsg
  <2>2. m.index >= progressedIndex(l)
    BY <1>0, LocalFields DEF progressedIndex, Index
  <2> QED BY <2>1, <2>2 DEF conflictWithPrecommitReq
<1> HIDE DEF d, p, k, vote, x
<1>5. ViewLocal(M, j)
  BY <1>1, <1>2, OthersTruthful, ViewLocalKept
<1>6. CachesClosed(j)
  <2> SUFFICES ASSUME NEW i \in Index
               PROVE  /\ i <= j.ctl.committed => j.caches[i] = EmptyCache
                      /\ j.caches[i].stable => j.caches[i].checkpoint # NoHash
    BY DEF CachesClosed
  <2>1. CASE i = m.index
    <3>1. ~(i <= j.ctl.committed)
      BY <1>0, <1>2, <2>1, LocalFields DEF Index
    <3> QED BY <1>2, <2>1, <3>1 DEF CachesClosed
  <2>2. CASE i # m.index
    BY <1>2, <2>2 DEF CachesClosed
  <2> QED BY <2>1, <2>2
<1>7. LockedOn(e)
  <2>1. LockedOn(c)
    BY <1>0
  <2> HIDE DEF c
  <2> QED BY <1>2, <1>3, <1>4, <2>1 DEF LockedOn
<1>8. OwnVotes(n, e, l.ctl.view)
  <2>1. OwnVotes(n, c, l.ctl.view)
    BY <1>0 DEF Tallied, Tally
  <2>2. \A u \in e.prepares : u \in c.prepares \/ u = vote
    BY <1>2 DEF addCache
  <2>3. \A u \in e.prepares : u.from = n => u.view <= l.ctl.view
    BY <1>0, <2>1, <2>2 DEF OwnVotes
  <2> QED BY <1>2, <2>1, <2>3 DEF OwnVotes
<1>9. \A i \in Index : LockedOn(j.caches[i]) /\ OwnVotes(n, j.caches[i], j.ctl.view)
  BY <1>2, <1>7, <1>8 DEF Tallied, Tally
<1>10. Steady(j, k) /\ ViewLocal(M, k) /\ Tallied(n, k)
  BY <1>2, <1>5, <1>6, <1>9, SteadyPreCommit
<1>11. \A i \in Index : /\ j.caches[i].precommit = l.caches[i].precommit
                        /\ j.caches[i].checkpoint = l.caches[i].checkpoint
  BY <1>2
<1>12. Steady(l, k)
  BY <1>2, <1>10, <1>11, SteadyAfter
<1>13. ASSUME NEW y \in k.out \ l.out
       PROVE  /\ y.from = n
              /\ \/ y.index = m.index /\ y.hash = m.hash
                 \/ y.type = "Commit" /\ Foreseen(n, l, y.index, y.hash)
  <2>1. CASE y \in j.out
    BY <1>1, <1>2, <2>1
  <2>2. CASE y \notin j.out
    <3>1. /\ y.type = "Commit" /\ y.from = n /\ y.index \in Index
          /\ CanPreCommit(j.caches[y.index], l.ctl.view)
          /\ y.hash = j.caches[y.index].prePrepare.hash
      BY <1>2, <2>2, PreCommitFields
    <3>2. CASE y.index # m.index
      <4>1. j.caches[y.index] = l.caches[y.index]
        BY <1>2, <3>1, <3>2
      <4>2. Tally(n, l.caches[y.index], l.ctl.view)
        BY <3>1 DEF Tallied
      <4> QED BY <3>1, <4>1, <4>2 DEF Tally, Foreseen, CanPreCommit, PrePreparedIn
    <3>3. CASE y.index = m.index /\ y.hash # m.hash
      <4>1. j.caches[y.index] = e /\ e.prePrepare = c.prePrepare
        BY <1>2, <1>3, <3>1, <3>3
      <4>2. Voters(e.prepares, y.hash) = Voters(c.prepares, y.hash)
        <5>1. \A u : u \in e.prepares /\ u.hash = y.hash <=> u \in c.prepares /\ u.hash = y.hash
          BY <1>0, <1>2, <3>3 DEF addCache
        <5> QED BY <5>1 DEF Voters
      <4>3. CanPreCommit(c, l.ctl.view)
        BY <1>2, <3>1, <4>1, <4>2 DEF CanPreCommit, PrePreparedIn, collectEnoughQuorum
      <4>4. Tally(n, c, l.ctl.view)
        BY <1>0 DEF Tallied
      <4>5. n \notin Voters(c.prepares, y.hash) /\ c.prePrepare.view = l.ctl.view
        BY <3>1, <4>1, <4>3, <4>4 DEF Tally, CanPreCommit, PrePreparedIn
      <4> QED BY <3>1, <3>3, <4>1, <4>5 DEF Foreseen
    <3> QED BY <3>1, <3>2, <3>3
  <2> QED BY <2>1, <2>2
<1> QED BY <1>10, <1>12, <1>13 DEF k

\* What finalizeConsensus does to a node: the number and all before it are
\* closed, and the caches of open numbers stay or, once executed, are dropped.
LEMMA FinalizeFields ==
  ASSUME NEW l \in LocalState, NEW k \in Index, NEW synced \in BOOLEAN
  PROVE  LET r == finalizeConsensus(l, k, synced) IN
         /\ r.out = l.out /\ r.ctl.view = l.ctl.view /\ r.ctl.committed = k
         /\ r.ctl.viewChanges \subseteq l.ctl.viewChanges /\ r.ctl.recover = l.ctl.recover
         /\ \A i \in Index :
              /\ r.caches[i] \in {l.caches[i], EmptyCache}
              /\ i <= k => r.caches[i] = EmptyCache
              /\ i > k /\ ~l.caches[i].stable /\ l.caches[i].checkpoint = NoHash
                   => r.caches[i] = l.caches[i]
<1> DEFINE l0 == resetConfig(l, k)
           l1 == tryToApplyCommitQueue(l0)
           C  == [i \in Index |-> IF i <= k \/ l1.caches[i].stable THEN EmptyCache ELSE l1.caches[i]]
           l2 == removeConsensusedCache(l1, k)
           S  == {i \in l2.ctl.stableQueue : i > k}
           l3 == [l2 EXCEPT !.ctl.stableQueue = S]
           l4 == removeFutureProposals(l3)
           D  == [i \in Index |-> IF l3.caches[i].checkpoint # NoHash THEN EmptyCache ELSE l3.caches[i]]
           r  == finalizeConsensus(l, k, synced)
<1>1. r \in {l3, l4}
  BY DEF finalizeConsensus
<1>2. l0 \in LocalState
  BY ResetConfigType
<1>3. /\ l0.out = l.out /\ l0.caches = l.caches /\ l0.ctl.view = l.ctl.view /\ l0.ctl.committed = k
      /\ l0.ctl.viewChanges = l.ctl.viewChanges /\ l0.ctl.recover = l.ctl.recover
  BY DEF resetConfig, LocalState, Registers
<1> HIDE DEF l0
<1>4. l1 \in LocalState
  BY <1>2, ApplyType
<1>5. /\ l1.out = l0.out /\ l1.caches = l0.caches /\ l1.ctl.view = l0.ctl.view
      /\ l1.ctl.committed = l0.ctl.committed
      /\ l1.ctl.viewChanges = l0.ctl.viewChanges /\ l1.ctl.recover = l0.ctl.recover
  BY <1>2 DEF tryToApplyCommitQueue, LocalState, Registers
<1> HIDE DEF l1
<1>6. l2 \in LocalState
  BY <1>4, RemoveConsensusedType
<1>7. /\ l2.out = l1.out /\ l2.caches = C /\ l2.ctl.view = l1.ctl.view
      /\ l2.ctl.committed = l1.ctl.committed
      /\ l2.ctl.viewChanges \subseteq l1.ctl.viewChanges /\ l2.ctl.recover = l1.ctl.recover
  <2> HIDE DEF C
  <2>1. l2 = ClearNewViewState(removeInvalidViewChange([l1 EXCEPT !.caches = C], l1.ctl.view, k))
    BY DEF removeConsensusedCache, C
  <2> HIDE DEF l2
  <2> QED BY <1>4, <2>1 DEF ClearNewViewState, removeInvalidViewChange, LocalState, Registers
<1> HIDE DEF l2
<1>8. l3 \in LocalState
  <2>1. S \subseteq Index
    BY <1>6 DEF LocalState, Registers
  <2> HIDE DEF S
  <2> QED BY <1>6, <2>1, StableQueueType
<1>9. /\ l3.out = l2.out /\ l3.caches = l2.caches /\ l3.ctl.view = l2.ctl.view
      /\ l3.ctl.committed = l2.ctl.committed
      /\ l3.ctl.viewChanges = l2.ctl.viewChanges /\ l3.ctl.recover = l2.ctl.recover
  <2> HIDE DEF S
  <2> QED BY <1>6 DEF LocalState, Registers
<1> HIDE DEF l3
<1>10. /\ l4.out = l3.out /\ l4.caches = D /\ l4.ctl.view = l3.ctl.view
       /\ l4.ctl.committed = l3.ctl.committed
       /\ l4.ctl.viewChanges = l3.ctl.viewChanges /\ l4.ctl.recover = l3.ctl.recover
  <2> HIDE DEF D
  <2>1. PICK e, Q : l4 = [l3 EXCEPT !.ctl.expected = e, !.ctl.queue = {}, !.ctl.stableQueue = Q,
                                    !.caches = D]
    BY DEF removeFutureProposals, D
  <2> HIDE DEF l4
  <2> QED BY <1>8, <2>1 DEF LocalState, Registers
<1> HIDE DEF l4, r
<1>11. \A i \in Index :
         /\ l3.caches[i] = IF i <= k \/ l.caches[i].stable THEN EmptyCache ELSE l.caches[i]
         /\ l4.caches[i] = IF l3.caches[i].checkpoint # NoHash THEN EmptyCache ELSE l3.caches[i]
  BY <1>3, <1>5, <1>7, <1>9, <1>10
<1>12. \A i \in Index : i > k => ~(i <= k)
  BY DEF Index
<1>13. /\ r.out = l.out /\ r.ctl.view = l.ctl.view /\ r.ctl.committed = k
       /\ r.ctl.viewChanges \subseteq l.ctl.viewChanges /\ r.ctl.recover = l.ctl.recover
  BY <1>1, <1>3, <1>5, <1>7, <1>9, <1>10
<1>14. \A i \in Index :
         /\ r.caches[i] \in {l.caches[i], EmptyCache}
         /\ i <= k => r.caches[i] = EmptyCache
         /\ i > k /\ ~l.caches[i].stable /\ l.caches[i].checkpoint = NoHash
              => r.caches[i] = l.caches[i]
  BY <1>1, <1>11, <1>12
<1> QED BY <1>13, <1>14 DEF r

\* Finalizing the consensus of a number is steady.
LEMMA SteadyFinalize ==
  ASSUME NEW M, NEW l \in LocalState, NEW k \in Index, NEW synced \in BOOLEAN,
         NEW n, ViewLocal(M, l), CachesClosed(l), Tallied(n, l)
  PROVE  LET r == finalizeConsensus(l, k, synced) IN
         Steady(l, r) /\ ViewLocal(M, r) /\ Tallied(n, r) /\ r.out = l.out
<1> DEFINE r == finalizeConsensus(l, k, synced)
<1>1. /\ r.out = l.out /\ r.ctl.view = l.ctl.view /\ r.ctl.committed = k
      /\ r.ctl.viewChanges \subseteq l.ctl.viewChanges /\ r.ctl.recover = l.ctl.recover
      /\ \A i \in Index :
           /\ r.caches[i] \in {l.caches[i], EmptyCache}
           /\ i <= k => r.caches[i] = EmptyCache
           /\ i > k /\ ~l.caches[i].stable /\ l.caches[i].checkpoint = NoHash
                => r.caches[i] = l.caches[i]
  BY FinalizeFields
<1> HIDE DEF r
<1>2. ViewLocal(M, r)
  BY <1>1, ViewLocalKept
<1>3. ~EmptyCache.stable
  BY DEF EmptyCache
<1>4. CachesClosed(r)
  BY <1>1, <1>3 DEF CachesClosed
<1>5. l.ctl.view \in Int
  BY LocalFields DEF View
<1>6. Steady(l, r)
  BY <1>1, <1>4, <1>5 DEF Steady, Held, CachesClosed
<1>7. Tallied(n, r)
  BY <1>1, EmptyTally DEF Tallied
<1> QED BY <1>1, <1>2, <1>6, <1>7 DEF r

\* A hash is not the absent hash.
LEMMA HashIsSome == NoHash \notin Hash
  BY DEF NoHash, Hash

\* The end of an execution is steady.
LEMMA SteadyApplySuccess ==
  ASSUME NEW M, NEW n \in Node, NEW l \in LocalState, NEW e \in Index \X Hash,
         ViewLocal(M, l), CachesClosed(l), Tallied(n, l)
  PROVE  LET r == onProposalApplySuccess(n, l, e) IN
         /\ Steady(l, r) /\ ViewLocal(M, r) /\ Tallied(n, r)
         /\ \A m \in r.out \ l.out : ~IsVote(m)
<1> DEFINE x == [type |-> "CheckPoint", from |-> n, index |-> e[1], hash |-> e[2]]
           c == setCheckPointProposal(l.caches[e[1]], e[1], l.ctl.committed, e[2])
           k == Highest({l.ctl.committed, e[1]})
           O == l.out \cup {x}
           C == [l.caches EXCEPT ![e[1]] = c]
           l1 == [l EXCEPT !.out = O, !.caches = C, !.ctl.expected = k + 1]
           l2 == tryToApplyCommitQueue(l1)
           l3 == [l2 EXCEPT !.ctl.executing = @ \ {e}]
<1>1. e[1] \in Index /\ e[2] \in Hash /\ k + 1 \in 1 .. MaxIndex + 1
  <2>1. e[1] \in Index /\ e[2] \in Hash
    OBVIOUS
  <2>2. l.ctl.committed \in 0 .. MaxIndex
    BY LocalFields DEF Registers
  <2>3. l.ctl.committed \in Int /\ e[1] \in Int
    BY <2>1, <2>2, BoundAssumption DEF Index
  <2>4. k \in {l.ctl.committed, e[1]}
    BY <2>3, HighestPair
  <2> HIDE DEF k
  <2> QED BY <2>1, <2>2, <2>4, BoundAssumption DEF Index
<1>2. x \in Message /\ x.type = "CheckPoint"
  BY <1>1 DEF Message
<1>3. l.caches[e[1]] \in Cache /\ l.caches \in [Index -> Cache]
  BY <1>1, LocalFields
<1>4. /\ c \in Cache /\ c.precommit = l.caches[e[1]].precommit
      /\ c = l.caches[e[1]] \/ (e[1] > l.ctl.committed /\ c.checkpoint = e[2])
  <2>1. e[1] \in Int /\ l.ctl.committed \in Int
    BY <1>1, LocalFields DEF Registers, Index
  <2> QED BY <1>1, <1>3, <2>1 DEF setCheckPointProposal, Cache
<1>0. \A v : Tally(n, l.caches[e[1]], v) => Tally(n, c, v)
  <2>1. /\ c.prePrepare = l.caches[e[1]].prePrepare /\ c.prepares = l.caches[e[1]].prepares
        /\ c.precommitted = l.caches[e[1]].precommitted
    BY <1>1, <1>3 DEF setCheckPointProposal, Cache
  <2> HIDE DEF c
  <2> QED BY <1>4, <2>1, SameTally
<1>5. onProposalApplySuccess(n, l, e) = l3
  BY <1>1, <1>3 DEF onProposalApplySuccess
<1> HIDE DEF x, c, k
<1>6. /\ C \in [Index -> Cache]
      /\ \A i \in Index : C[i] = IF i = e[1] THEN c ELSE l.caches[i]
  BY <1>1, <1>3, <1>4
<1> HIDE DEF C
<1>7. l1 \in LocalState
  <2>1. [l.ctl EXCEPT !.expected = k + 1] \in Registers
    BY <1>1 DEF LocalState, Registers
  <2> QED BY <1>2, <1>6, <2>1 DEF LocalState
<1>8. /\ l1.caches = C /\ l1.out = l.out \cup {x}
      /\ l1.ctl.view = l.ctl.view /\ l1.ctl.committed = l.ctl.committed
      /\ l1.ctl.viewChanges = l.ctl.viewChanges /\ l1.ctl.recover = l.ctl.recover
  BY DEF LocalState, Registers
<1> HIDE DEF l1
<1>9. l2 \in LocalState
  BY <1>7, ApplyType
<1>10. /\ l2.caches = l1.caches /\ l2.out = l1.out
       /\ l2.ctl.view = l1.ctl.view /\ l2.ctl.committed = l1.ctl.committed
       /\ l2.ctl.viewChanges = l1.ctl.viewChanges /\ l2.ctl.recover = l1.ctl.recover
  BY <1>7 DEF tryToApplyCommitQueue, LocalState, Registers
<1> HIDE DEF l2
<1>11. /\ l3.caches = l2.caches /\ l3.out = l2.out
       /\ l3.ctl.view = l2.ctl.view /\ l3.ctl.committed = l2.ctl.committed
       /\ l3.ctl.viewChanges = l2.ctl.viewChanges /\ l3.ctl.recover = l2.ctl.recover
  BY <1>9 DEF LocalState, Registers
<1> HIDE DEF l3
<1>12. ViewLocal(M, l3)
  BY <1>2, <1>8, <1>10, <1>11, OthersTruthful, ViewLocalKept
<1>13. CachesClosed(l3)
  <2> SUFFICES ASSUME NEW i \in Index
               PROVE  /\ i <= l3.ctl.committed => l3.caches[i] = EmptyCache
                      /\ l3.caches[i].stable => l3.caches[i].checkpoint # NoHash
    BY DEF CachesClosed
  <2>1. CASE i = e[1] /\ c # l.caches[i]
    <3>1. ~(i <= l3.ctl.committed)
      BY <1>1, <1>4, <1>8, <1>10, <1>11, <2>1, LocalFields DEF Index
    <3>2. l3.caches[i].checkpoint = e[2]
      BY <1>4, <1>6, <1>8, <1>10, <1>11, <2>1
    <3> QED BY <1>1, <3>1, <3>2, HashIsSome
  <2>2. CASE i # e[1] \/ c = l.caches[i]
    BY <1>6, <1>8, <1>10, <1>11, <2>2 DEF CachesClosed
  <2> QED BY <2>1, <2>2
<1>14. \A i \in Index : l3.caches[i].precommit = l.caches[i].precommit
  BY <1>4, <1>6, <1>8, <1>10, <1>11
<1>15. l.ctl.view \in Int
  BY LocalFields DEF View
<1>16. Steady(l, l3)
  BY <1>8, <1>10, <1>11, <1>13, <1>14, <1>15 DEF Steady
<1>17. Tallied(n, l3)
  <2>1. \A i \in Index : Tally(n, l.caches[i], l.ctl.view)
    BY DEF Tallied
  <2>2. \A i \in Index : Tally(n, C[i], l.ctl.view)
    BY <1>0, <1>1, <1>6, <2>1
  <2> QED BY <1>8, <1>10, <1>11, <2>2 DEF Tallied
<1>18. \A m \in l3.out \ l.out : ~IsVote(m)
  BY <1>2, <1>8, <1>10, <1>11 DEF IsVote
<1> QED BY <1>5, <1>12, <1>16, <1>17, <1>18

-----------------------------------------------------------------------------
(* The steps *)

\* What every step but a restart does, to all nodes.
StepsOnward ==
  /\ \A n \in Node : ctl'[n].view >= ctl[n].view
  /\ \A n \in Node, i \in Index :
       LET c == caches[n][i] IN
       c.precommit # NoProposal /\ c.checkpoint = NoHash /\ i > ctl'[n].committed
       => caches'[n][i].precommit.hash = c.precommit.hash

\* a prepare for proposal h of number i, or the own proposal h, waits for m_mutex
InHand(n, i, h) ==
  \E x \in taken[n] : x.type \in {"PrePrepare", "Prepare"} /\ x.index = i /\ x.hash = h

\* What every step does, restarts included: it sends no vote in the timeout state
\* but for a proposal taken earlier.
StepQuiet ==
  \A n \in Node :
    ctl[n].timeout /\ ctl'[n].timeout =>
      \A m \in msgs' \ msgs :
        m.from = n /\ m.type \in {"Prepare", "Commit"}
        => \/ \E p \in pending[n] : p.index = m.index /\ p.hash = m.hash
           \/ InHand(n, m.index, m.hash)
           \/ m.type = "Commit" /\ TakenAhead(n, m.index, m.hash)

\* the messages O that node n sends in a step
Quiet(n, O) ==
  \A m \in O : IsVote(m) =>
    /\ m.from = n
    /\ \/ ~ctl[n].timeout
       \/ \E p \in pending[n] : p.index = m.index /\ p.hash = m.hash
       \/ InHand(n, m.index, m.hash)
       \/ m.type = "Commit" /\ TakenAhead(n, m.index, m.hash)

Invs == ViewInv /\ ClosedInv /\ TallyInv

\* A step that sends what Quiet allows is quiet.
LEMMA QuietStep ==
  ASSUME NEW n \in Node, NEW l, Step(n, l), Quiet(n, l.out)
  PROVE  StepQuiet
<1> SUFFICES ASSUME NEW k \in Node, ctl[k].timeout, ctl'[k].timeout, NEW m \in msgs' \ msgs,
                    m.from = k, m.type \in {"Prepare", "Commit"}
             PROVE  \/ \E p \in pending[k] : p.index = m.index /\ p.hash = m.hash
                    \/ InHand(k, m.index, m.hash)
                    \/ m.type = "Commit" /\ TakenAhead(k, m.index, m.hash)
  BY DEF StepQuiet
<1>1. m \in l.out
  BY DEF Step
<1> QED BY <1>1 DEF Quiet, IsVote

\* The local state of a node satisfies the invariants when a handler starts.
LEMMA LocalSteady ==
  ASSUME TypeOK, OrderingInv, Invs, NEW n \in Node
  PROVE  LET l == Local(n) IN
         /\ l \in LocalState /\ l.ctl = ctl[n] /\ l.caches = caches[n] /\ l.pending = pending[n]
         /\ l.out = {} /\ ViewLocal(msgs, l) /\ CachesClosed(l) /\ Tallied(n, l)
         /\ \A i \in Index : LockedOn(l.caches[i])
         /\ l.ctl.expected > l.ctl.committed
<1> DEFINE l == Local(n)
<1>1. /\ l.ctl = ctl[n] /\ l.caches = caches[n] /\ l.pending = pending[n]
      /\ l.out = {} /\ l \in LocalState
  BY LocalType DEF Local
<1> HIDE DEF l
<1>2. msgs \cup l.out = msgs
  BY <1>1
<1>3. ViewLocal(msgs, l)
  BY <1>1, <1>2 DEF ViewLocal, Invs, ViewInv
<1>4. CachesClosed(l)
  BY <1>1 DEF CachesClosed, Invs, ClosedInv
<1>5. \A i \in Index : LockedOn(l.caches[i])
  BY <1>1 DEF OrderingInv, CacheInv, LockedOn
<1>6. l.ctl.expected > l.ctl.committed
  BY <1>1 DEF OrderingInv
<1>7. Tallied(n, l)
  BY <1>1 DEF Tallied, Tally, Invs, TallyInv
<1> QED BY <1>1, <1>3, <1>4, <1>5, <1>6, <1>7 DEF l

\* The invariants, after a step to a local state that satisfies them.
LEMMA StepInvs ==
  ASSUME TypeOK, Invs, NEW n \in Node, NEW l \in LocalState, Step(n, l),
         ViewLocal(msgs, l), CachesClosed(l), Tallied(n, l)
  PROVE  Invs'
<1>1. /\ ctl'[n] = l.ctl /\ caches'[n] = l.caches /\ msgs' = msgs \cup l.out
      /\ \A k \in Node \ {n} : ctl'[k] = ctl[k] /\ caches'[k] = caches[k]
  BY DEF Step, TypeOK
<1>2. msgs \subseteq msgs'
  BY <1>1
<1>3. \A k \in Node : /\ Backed(msgs', ctl'[k].view)
                      /\ ctl'[k].viewChanges \subseteq msgs'
                      /\ \A r \in ctl'[k].recover : Backed(msgs', r[1])
  <2> SUFFICES ASSUME NEW k \in Node
               PROVE  /\ Backed(msgs', ctl'[k].view)
                      /\ ctl'[k].viewChanges \subseteq msgs'
                      /\ \A r \in ctl'[k].recover : Backed(msgs', r[1])
    OBVIOUS
  <2>1. CASE k = n
    BY <1>1, <2>1 DEF ViewLocal
  <2>2. CASE k # n
    <3>1. /\ Backed(msgs, ctl[k].view) /\ ctl[k].viewChanges \subseteq msgs
          /\ \A r \in ctl[k].recover : Backed(msgs, r[1])
      BY DEF Invs, ViewInv
    <3> QED BY <1>1, <1>2, <2>2, <3>1, BackedGrows
  <2> QED BY <2>1, <2>2
<1>4. \A m \in msgs' : Truthful(msgs', m)
  <2>1. \A m \in msgs : Truthful(msgs, m)
    BY DEF Invs, ViewInv
  <2>2. \A m \in l.out : Truthful(msgs', m)
    BY <1>1 DEF ViewLocal
  <2> QED BY <1>1, <1>2, <2>1, <2>2, TruthfulGrows
<1>5. ViewInv'
  BY <1>3, <1>4 DEF ViewInv, Backed, Truthful
<1>6. ClosedInv'
  <2> SUFFICES ASSUME NEW k \in Node, NEW i \in Index
               PROVE  /\ i <= ctl'[k].committed => caches'[k][i] = EmptyCache
                      /\ caches'[k][i].stable => caches'[k][i].checkpoint # NoHash
    BY DEF ClosedInv
  <2>1. CASE k = n
    BY <1>1, <2>1 DEF CachesClosed
  <2>2. CASE k # n
    BY <1>1, <2>2 DEF Invs, ClosedInv
  <2> QED BY <2>1, <2>2
<1>7. TallyInv'
  <2> SUFFICES ASSUME NEW k \in Node, NEW i \in Index
               PROVE  Tally(k, caches'[k][i], ctl'[k].view)
    BY DEF TallyInv, Tally, OwnVotes, CanPreCommit, PrePreparedIn, collectEnoughQuorum
  <2>1. CASE k = n
    BY <1>1, <2>1 DEF Tallied
  <2>2. CASE k # n
    BY <1>1, <2>2 DEF Invs, TallyInv, Tally
  <2> QED BY <2>1, <2>2
<1> QED BY <1>5, <1>6, <1>7 DEF Invs

\* A step to a steady local state keeps the invariants and moves onward.
LEMMA SteadyStep ==
  ASSUME TypeOK, Invs, NEW n \in Node, NEW l \in LocalState, Step(n, l),
         ViewLocal(msgs, l), Steady(Local(n), l), Tallied(n, l), Quiet(n, l.out)
  PROVE  Invs' /\ StepsOnward /\ StepQuiet
<1>1. /\ ctl'[n] = l.ctl /\ caches'[n] = l.caches
      /\ \A k \in Node \ {n} : ctl'[k] = ctl[k] /\ caches'[k] = caches[k]
  BY DEF Step, TypeOK
<1>2. Local(n).ctl = ctl[n] /\ Local(n).caches = caches[n]
  BY DEF Local
<1>3. \A k \in Node : ctl[k].view \in Int
  BY DEF TypeOK, Registers, View
<1>4. l.ctl.view \in Int
  BY LocalFields DEF View
<1>5. Invs'
  BY StepInvs DEF Steady
<1>6. \A k \in Node : ctl'[k].view >= ctl[k].view
  <2> SUFFICES ASSUME NEW k \in Node PROVE ctl'[k].view >= ctl[k].view
    OBVIOUS
  <2>1. CASE k = n
    BY <1>1, <1>2, <1>3, <1>4, <2>1 DEF Steady
  <2>2. CASE k # n
    BY <1>1, <1>3, <2>2
  <2> QED BY <2>1, <2>2
<1>7. \A k \in Node, i \in Index :
        Held(caches[k][i]) /\ i > ctl'[k].committed
        => caches'[k][i].precommit.hash = caches[k][i].precommit.hash
  <2> SUFFICES ASSUME NEW k \in Node, NEW i \in Index, Held(caches[k][i]), i > ctl'[k].committed
               PROVE  caches'[k][i].precommit.hash = caches[k][i].precommit.hash
    OBVIOUS
  <2>1. CASE k = n
    BY <1>1, <1>2, <2>1 DEF Steady
  <2>2. CASE k # n
    BY <1>1, <2>2
  <2> QED BY <2>1, <2>2
<1>8. StepQuiet
  BY QuietStep
<1> QED BY <1>5, <1>6, <1>7, <1>8 DEF StepsOnward, Held

\* A step to an onward local state, likewise.
LEMMA OnwardStep ==
  ASSUME TypeOK, OrderingInv, Invs, NEW n \in Node, NEW l \in LocalState, Step(n, l),
         Onward(msgs, Local(n), l)
  PROVE  Invs' /\ StepsOnward /\ StepQuiet
<1>1. CachesClosed(Local(n)) /\ Local(n) \in LocalState /\ Tallied(n, Local(n)) /\ Local(n).out = {}
  BY LocalSteady
<1>2. ViewLocal(msgs, l) /\ Quiet(n, l.out)
  BY <1>1 DEF Onward, Quiet
<1>3. Steady(Local(n), l)
  BY <1>1, OnwardSteady
<1>4. Tallied(n, l)
  BY <1>1, OnwardTallied
<1> QED BY <1>2, <1>3, <1>4, SteadyStep

\* Any state with the caches and registers of an onward one.
LEMMA OnwardPending ==
  ASSUME NEW M, NEW l \in LocalState, NEW P, ViewLocal(M, l)
  PROVE  Onward(M, l, [l EXCEPT !.pending = P])
<1> DEFINE k == [l EXCEPT !.pending = P]
<1>1. k.ctl = l.ctl /\ k.caches = l.caches /\ k.out = l.out
  BY DEF LocalState
<1> HIDE DEF k
<1>2. Onward(M, l, k)
  BY <1>1, OnwardRegisters
<1> QED BY <1>2 DEF k

\* A proposal the checks let pass is for a number above what is committed.
LEMMA AcceptedIsOpen ==
  ASSUME NEW l \in LocalState, l.ctl.expected > l.ctl.committed, NEW m,
         m.index \in Index, checkPBFTMsgState(l.ctl, m)
  PROVE  m.index > l.ctl.committed
<1>1. /\ l.ctl.low \in Int /\ l.ctl.expected \in Int /\ l.ctl.committed \in Int /\ m.index \in Int
  BY DEF LocalState, Registers, Index
<1> QED BY <1>1 DEF checkPBFTMsgState, LowIndex

\* A proposal of the own sealer.
LEMMA SubmitProposalOnward ==
  ASSUME TypeOK, OrderingInv, Invs, NEW n \in Node, NEW i \in Index, NEW v \in View,
         NEW s \in 1 .. MaxSeal, SubmitProposal(n, i, v, s)
  PROVE  Invs' /\ StepsOnward /\ StepQuiet
<1> DEFINE k == Local(n)
           m == Sealed(n, i, v, s)
           l == [k EXCEPT !.out = {m}]
<1>1. /\ k \in LocalState /\ ViewLocal(msgs, k) /\ CachesClosed(k) /\ Tallied(n, k)
      /\ \A j \in Index : LockedOn(k.caches[j])
      /\ k.ctl.expected > k.ctl.committed /\ k.out = {}
      /\ k.ctl = ctl[n] /\ k.caches = caches[n]
  BY LocalSteady
<1>3. m \in Message /\ Carries(m) /\ m.type = "PrePrepare" /\ m.index = i
  BY SealedType DEF Sealed, ConsensusMsg
<1>2. /\ Step(n, AddProposal(n, l, m)) /\ AcceptProposal(k, m, FALSE)
      /\ m \in taken[n] \/ ~ctl[n].timeout
  BY DEF SubmitProposal, Handled, MaySubmit
<1>4. i > k.ctl.committed
  <2> HIDE DEF m, k
  <2>1. checkPBFTMsgState(k.ctl, m)
    BY <1>2 DEF AcceptProposal, checkPrePrepareMsg
  <2> QED BY <1>1, <1>3, <2>1, AcceptedIsOpen
<1> HIDE DEF m, k
<1>5. l \in LocalState /\ l.ctl = k.ctl /\ l.caches = k.caches /\ l.out = {m}
  BY <1>1, <1>3 DEF LocalState
<1> HIDE DEF l
<1>6. ViewLocal(msgs, l)
  BY <1>1, <1>3, <1>5, OthersTruthful, ViewLocalKept
<1>7. CachesClosed(l) /\ Tallied(n, l) /\ \A j \in Index : LockedOn(l.caches[j])
  BY <1>1, <1>5 DEF CachesClosed, Tallied
<1>8. AcceptProposal(l, m, FALSE) /\ m.index > l.ctl.committed
  BY <1>2, <1>3, <1>4, <1>5 DEF AcceptProposal, checkPrePrepareMsg, progressedIndex
<1>9. AddProposal(n, l, m) \in LocalState
  BY <1>3, <1>5, AddProposalType
<1> DEFINE r == AddProposal(n, l, m)
<1>10. /\ Steady(l, r) /\ ViewLocal(msgs, r) /\ Tallied(n, r)
       /\ \A y \in r.out \ l.out :
            /\ y.from = n
            /\ \/ y.index = m.index /\ y.hash = m.hash
               \/ y.type = "Commit" /\ Foreseen(n, l, y.index, y.hash)
  BY <1>3, <1>5, <1>6, <1>7, <1>8, SteadyAddProposal
<1> HIDE DEF r
<1>11. Steady(k, r)
  BY <1>5, <1>10, SteadyAfter
<1>12. Quiet(n, r.out)
  <2>1. ~IsVote(m)
    BY <1>3 DEF IsVote
  <2>2. \A j, h : Foreseen(n, l, j, h) => TakenAhead(n, j, h)
    BY <1>1, <1>5 DEF Foreseen, TakenAhead
  <2>3. m \in taken[n] => InHand(n, m.index, m.hash)
    BY <1>3 DEF InHand
  <2>4. \A y \in r.out : y = m \/ y \in r.out \ l.out
    BY <1>5
  <2> QED BY <1>2, <1>10, <2>1, <2>2, <2>3, <2>4 DEF Quiet
<1> QED BY <1>2, <1>9, <1>10, <1>11, <1>12, SteadyStep DEF k, r

\* Receiving a pre-prepare.
LEMMA HandlePrePrepareOnward ==
  ASSUME TypeOK, OrderingInv, Invs, NEW n \in Node, NEW m \in msgs, HandlePrePrepare(n, m)
  PROVE  Invs' /\ StepsOnward /\ StepQuiet
<1> DEFINE P == Local(n).pending \cup {PendingOf(m, "verify", FALSE)}
           l == [Local(n) EXCEPT !.pending = P]
<1>1. Carries(m)
  BY MessageFields DEF HandlePrePrepare, TypeOK
<1>2. PendingOf(m, "verify", FALSE) \in Pending
  BY <1>1 DEF Carries, PendingOf, Pending
<1>3. Local(n) \in LocalState /\ P \in SUBSET Pending /\ ViewLocal(msgs, Local(n))
  BY <1>2, LocalSteady, LocalFields
<1>4. Step(n, l)
  BY DEF HandlePrePrepare, Handled
<1> HIDE DEF P
<1>5. l \in LocalState /\ Onward(msgs, Local(n), l)
  BY <1>3, PendingType, OnwardPending
<1> HIDE DEF l
<1> QED BY <1>4, <1>5, OnwardStep

\* The answers of the validator and of the holder of a proposal.
LEMMA VerifyOnward ==
  ASSUME TypeOK, OrderingInv, Invs, NEW n \in Node, NEW p \in pending[n],
         VerifySucceeds(n, p) \/ VerifyFails(n, p) \/ PrecommitResponse(n, p)
  PROVE  Invs' /\ StepsOnward /\ StepQuiet
<1> DEFINE k == Local(n)
           P == k.pending \ {p}
           l == [k EXCEPT !.pending = P]
           q == [p EXCEPT !.stage = "verify"]
           l1 == [l EXCEPT !.pending = @ \cup {q}]
<1>1. p \in Pending /\ Carries(p) /\ q \in Pending
  BY DEF TypeOK, Pending, Carries
<1>2. /\ k \in LocalState /\ ViewLocal(msgs, k) /\ CachesClosed(k) /\ Tallied(n, k)
      /\ \A j \in Index : LockedOn(k.caches[j])
      /\ k.ctl = ctl[n] /\ k.caches = caches[n] /\ k.out = {}
      /\ P \in SUBSET Pending
  BY LocalSteady, LocalFields
<1>3. \/ Step(n, l) \/ Step(n, l1)
      \/ /\ p.index > l.ctl.committed /\ AcceptProposal(l, p, p.newView)
         /\ Step(n, AddProposal(n, l, p))
  BY DEF VerifySucceeds, VerifyFails, PrecommitResponse, Run
<1> HIDE DEF P, k, q
<1>4. l \in LocalState /\ Onward(msgs, k, l)
  BY <1>2, PendingType, OnwardPending
<1>5. l.ctl = k.ctl /\ l.caches = k.caches /\ l.pending = P /\ l.out = k.out
  BY <1>2 DEF LocalState
<1> HIDE DEF l
<1>6. l1 \in LocalState /\ Onward(msgs, l, l1)
  <2>1. l.pending \cup {q} \in SUBSET Pending
    BY <1>1, <1>2, <1>5
  <2>2. ViewLocal(msgs, l)
    BY <1>4 DEF Onward
  <2> QED BY <1>4, <2>1, <2>2, PendingType, OnwardPending
<1> HIDE DEF l1
<1>7. Onward(msgs, k, l1)
  BY <1>2, <1>4, <1>6, OnwardTransitive
<1>8. CASE Step(n, l)
  BY <1>4, <1>8, OnwardStep DEF k
<1>9. CASE Step(n, l1)
  BY <1>6, <1>7, <1>9, OnwardStep DEF k
<1>10. CASE /\ p.index > l.ctl.committed /\ AcceptProposal(l, p, p.newView)
            /\ Step(n, AddProposal(n, l, p))
  <2>1. /\ ViewLocal(msgs, l) /\ CachesClosed(l) /\ Tallied(n, l)
        /\ \A j \in Index : LockedOn(l.caches[j])
    BY <1>2, <1>4, <1>5 DEF Onward, CachesClosed, Tallied
  <2>2. AddProposal(n, l, p) \in LocalState
    BY <1>1, <1>4, AddProposalType
  <2> DEFINE r == AddProposal(n, l, p)
  <2>3. /\ Steady(l, r) /\ ViewLocal(msgs, r) /\ Tallied(n, r)
        /\ \A y \in r.out \ l.out :
             /\ y.from = n
             /\ \/ y.index = p.index /\ y.hash = p.hash
                \/ y.type = "Commit" /\ Foreseen(n, l, y.index, y.hash)
    BY <1>1, <1>4, <1>10, <2>1, SteadyAddProposal
  <2> HIDE DEF r
  <2>4. Steady(k, r)
    BY <1>5, <2>3, SteadyAfter
  <2>5. Quiet(n, r.out)
    <3>1. \A i, h : Foreseen(n, l, i, h) => TakenAhead(n, i, h)
      BY <1>2, <1>5 DEF Foreseen, TakenAhead
    <3>2. \A y \in r.out : y \in r.out \ l.out
      BY <1>2, <1>5
    <3> QED BY <2>3, <3>1, <3>2 DEF Quiet
  <2> QED BY <1>10, <2>2, <2>3, <2>4, <2>5, SteadyStep DEF k, r
<1> QED BY <1>3, <1>8, <1>9, <1>10

\* Prepare and commit messages.
LEMMA HandleVoteOnward ==
  ASSUME TypeOK, OrderingInv, Invs, NEW n \in Node, NEW m \in msgs,
         HandlePrepare(n, m) \/ HandleCommit(n, m)
  PROVE  Invs' /\ StepsOnward /\ StepQuiet
<1> DEFINE k == Local(n)
           c == addPrepareCache(k.caches[m.index], VoteOf(m))
           d == addCommitCache(k.caches[m.index], VoteOf(m))
           lp == [k EXCEPT !.caches[m.index] = c]
           lc == [k EXCEPT !.caches[m.index] = d]
<1>1. Carries(m)
  BY MessageFields DEF HandlePrepare, HandleCommit, TypeOK
<1>2. VoteOf(m) \in Vote /\ m.index \in Index
  BY <1>1 DEF Carries, VoteOf, Vote
<1>3. /\ k \in LocalState /\ ViewLocal(msgs, k) /\ CachesClosed(k) /\ Tallied(n, k)
      /\ \A j \in Index : LockedOn(k.caches[j])
      /\ k.ctl.expected > k.ctl.committed /\ k.out = {}
      /\ k.ctl = ctl[n] /\ k.caches = caches[n]
  BY LocalSteady
<1>4. /\ \/ m.type = "Prepare" /\ Step(n, PreCommitAll(n, lp))
         \/ Step(n, CommitAll(lc))
      /\ checkPBFTMsgState(k.ctl, m) /\ m.from # n /\ (m \in taken[n] \/ ~ctl[n].timeout)
  BY DEF HandlePrepare, HandleCommit, Handles, Passes, ConsensusPacket, checkPBFTMsg, Handled
<1> HIDE DEF k
<1>5. k.caches[m.index] \in Cache /\ k.caches \in [Index -> Cache]
  BY <1>2, <1>3, LocalFields
<1>6. c \in Cache /\ d \in Cache
  <2>1. addCache(k.caches[m.index].prepares, VoteOf(m)) \in SUBSET Vote
    BY <1>2, <1>5 DEF addCache, Cache
  <2>2. addCache(k.caches[m.index].commits, VoteOf(m)) \in SUBSET Vote
    BY <1>2, <1>5 DEF addCache, Cache
  <2> QED BY <1>5, <2>1, <2>2 DEF addPrepareCache, addCommitCache, Cache
<1>7. /\ c.precommit = k.caches[m.index].precommit /\ c.checkpoint = k.caches[m.index].checkpoint
      /\ c.stable = k.caches[m.index].stable /\ c.prePrepare = k.caches[m.index].prePrepare
      /\ d.precommit = k.caches[m.index].precommit /\ d.checkpoint = k.caches[m.index].checkpoint
      /\ d.stable = k.caches[m.index].stable /\ d.prePrepare = k.caches[m.index].prePrepare
      /\ d.prepares = k.caches[m.index].prepares
      /\ d.precommitted = k.caches[m.index].precommitted
      /\ c.precommitted = k.caches[m.index].precommitted
      /\ c.prepares = addCache(k.caches[m.index].prepares, VoteOf(m))
  BY <1>5 DEF addPrepareCache, addCommitCache, Cache
<1>8. m.index > k.ctl.committed
  BY <1>2, <1>3, <1>4, AcceptedIsOpen
<1> HIDE DEF c, d
<1>9. ASSUME NEW e \in {c, d}, NEW l, l = [k EXCEPT !.caches[m.index] = e]
      PROVE  /\ l \in LocalState /\ ViewLocal(msgs, l) /\ CachesClosed(l)
             /\ l.ctl = k.ctl /\ l.out = {}
             /\ \A j \in Index : l.caches[j] = IF j = m.index THEN e ELSE k.caches[j]
             /\ \A j \in Index : /\ l.caches[j].precommit = k.caches[j].precommit
                                 /\ l.caches[j].checkpoint = k.caches[j].checkpoint
  <2>1. l \in LocalState
    BY <1>2, <1>3, <1>6, <1>9 DEF LocalState
  <2>2. /\ l.ctl = k.ctl /\ l.out = k.out
        /\ \A j \in Index : l.caches[j] = IF j = m.index THEN e ELSE k.caches[j]
    BY <1>2, <1>3, <1>5, <1>9 DEF LocalState
  <2>3. ViewLocal(msgs, l)
    BY <1>3, <2>2, ViewLocalKept
  <2>4. \A j \in Index : /\ l.caches[j].precommit = k.caches[j].precommit
                         /\ l.caches[j].checkpoint = k.caches[j].checkpoint
                         /\ l.caches[j].stable = k.caches[j].stable
    BY <1>7, <2>2
  <2>5. CachesClosed(l)
    <3> SUFFICES ASSUME NEW j \in Index
                 PROVE  /\ j <= l.ctl.committed => l.caches[j] = EmptyCache
                        /\ l.caches[j].stable => l.caches[j].checkpoint # NoHash
      BY DEF CachesClosed
    <3>1. j = m.index => ~(j <= l.ctl.committed)
      BY <1>2, <1>3, <1>8, <2>2, LocalFields DEF Index
    <3> QED BY <1>3, <2>2, <2>4, <3>1 DEF CachesClosed
  <2> QED BY <1>3, <2>1, <2>2, <2>3, <2>4, <2>5
<1>10. CASE m.type = "Prepare" /\ Step(n, PreCommitAll(n, lp))
  <2>1. /\ lp \in LocalState /\ ViewLocal(msgs, lp) /\ CachesClosed(lp) /\ lp.ctl = k.ctl
        /\ lp.out = {}
        /\ \A j \in Index : lp.caches[j] = IF j = m.index THEN c ELSE k.caches[j]
        /\ \A j \in Index : /\ lp.caches[j].precommit = k.caches[j].precommit
                            /\ lp.caches[j].checkpoint = k.caches[j].checkpoint
    BY <1>9
  <2> HIDE DEF lp
  <2>2. OwnVotes(n, c, k.ctl.view)
    <3>1. OwnVotes(n, k.caches[m.index], k.ctl.view)
      BY <1>2, <1>3 DEF Tallied, Tally
    <3>2. \A u \in c.prepares : u \in k.caches[m.index].prepares \/ u.from # n
      BY <1>4, <1>7 DEF addCache, VoteOf
    <3> QED BY <1>7, <3>1, <3>2 DEF OwnVotes
  <2>3. \A j \in Index : LockedOn(lp.caches[j]) /\ OwnVotes(n, lp.caches[j], lp.ctl.view)
    <3>1. LockedOn(c)
      BY <1>2, <1>3, <1>7 DEF LockedOn
    <3>2. \A j \in Index : LockedOn(k.caches[j]) /\ OwnVotes(n, k.caches[j], k.ctl.view)
      BY <1>3 DEF Tallied, Tally
    <3> QED BY <2>1, <2>2, <3>1, <3>2
  <2> DEFINE r == PreCommitAll(n, lp)
  <2>4. Steady(lp, r) /\ ViewLocal(msgs, r) /\ Tallied(n, r)
    BY <2>1, <2>3, SteadyPreCommit
  <2>5. ASSUME NEW y \in r.out
        PROVE  y.from = n /\ ((y.index = m.index /\ y.hash = m.hash)
                              \/ (y.type = "Commit" /\ Foreseen(n, k, y.index, y.hash)))
    <3>1. /\ y.type = "Commit" /\ y.from = n /\ y.index \in Index
          /\ CanPreCommit(lp.caches[y.index], k.ctl.view)
          /\ y.hash = lp.caches[y.index].prePrepare.hash
      BY <2>1, <2>5, PreCommitFields
    <3>2. CASE ~(y.index = m.index /\ y.hash = m.hash)
      <4>1. /\ lp.caches[y.index].prePrepare = k.caches[y.index].prePrepare
            /\ lp.caches[y.index].precommit = k.caches[y.index].precommit
            /\ lp.caches[y.index].precommitted = k.caches[y.index].precommitted
        BY <1>7, <2>1, <3>1
      <4>2. Voters(lp.caches[y.index].prepares, y.hash) = Voters(k.caches[y.index].prepares, y.hash)
        <5>1. CASE y.index # m.index
          BY <2>1, <3>1, <5>1
        <5>2. CASE y.index = m.index
          <6>1. VoteOf(m).hash = m.hash
            BY DEF VoteOf
          <6>2. \A u : u \in c.prepares /\ u.hash = y.hash
                       <=> u \in k.caches[m.index].prepares /\ u.hash = y.hash
            BY <1>7, <3>2, <5>2, <6>1 DEF addCache
          <6> QED BY <2>1, <3>1, <5>2, <6>2 DEF Voters
        <5> QED BY <5>1, <5>2
      <4>3. CanPreCommit(k.caches[y.index], k.ctl.view)
        BY <3>1, <4>1, <4>2 DEF CanPreCommit, PrePreparedIn, collectEnoughQuorum
      <4>4. Tally(n, k.caches[y.index], k.ctl.view)
        BY <1>3, <3>1 DEF Tallied
      <4>5. /\ k.caches[y.index].prePrepare.hash = y.hash
            /\ k.caches[y.index].prePrepare.view = k.ctl.view
        BY <3>1, <4>1, <4>3 DEF CanPreCommit, PrePreparedIn
      <4> QED BY <3>1, <4>3, <4>4, <4>5 DEF Tally, Foreseen
    <3> QED BY <3>1, <3>2
  <2>6. r \in LocalState
    BY <2>1, PreCommitType
  <2> HIDE DEF r
  <2>7. Steady(k, r)
    BY <2>1, <2>4, SteadyAfter
  <2>8. Quiet(n, r.out)
    <3>1. \A j, h : Foreseen(n, k, j, h) => TakenAhead(n, j, h)
      BY <1>3 DEF Foreseen, TakenAhead
    <3>2. m \in taken[n] => InHand(n, m.index, m.hash)
      BY <1>10 DEF InHand
    <3> QED BY <1>4, <2>5, <3>1, <3>2 DEF Quiet
  <2> QED BY <1>10, <2>4, <2>6, <2>7, <2>8, SteadyStep DEF k, r
<1>11. CASE Step(n, CommitAll(lc))
  <2>1. /\ lc \in LocalState /\ ViewLocal(msgs, lc) /\ CachesClosed(lc) /\ lc.ctl = k.ctl
        /\ lc.out = {}
        /\ \A j \in Index : lc.caches[j] = IF j = m.index THEN d ELSE k.caches[j]
        /\ \A j \in Index : /\ lc.caches[j].precommit = k.caches[j].precommit
                            /\ lc.caches[j].checkpoint = k.caches[j].checkpoint
    BY <1>9
  <2> HIDE DEF lc
  <2>2. Tallied(n, lc)
    <3>1. \A j \in Index : Tally(n, k.caches[j], k.ctl.view)
      BY <1>3 DEF Tallied
    <3>2. Tally(n, d, k.ctl.view)
      BY <1>2, <1>7, <3>1, SameTally
    <3> QED BY <2>1, <3>1, <3>2 DEF Tallied
  <2> DEFINE r == CommitAll(lc)
  <2>3. Onward(msgs, lc, r) /\ r \in LocalState
    BY <2>1, OnwardCommit, CommitType
  <2> HIDE DEF r
  <2>4. Steady(lc, r) /\ ViewLocal(msgs, r) /\ Tallied(n, r) /\ Quiet(n, r.out)
    <3>1. Steady(lc, r)
      BY <2>1, <2>3, OnwardSteady
    <3>2. Tallied(n, r)
      BY <2>1, <2>2, <2>3, OnwardTallied
    <3> QED BY <2>1, <2>3, <3>1, <3>2 DEF Onward, Quiet
  <2>5. Steady(k, r)
    BY <2>1, <2>4, SteadyAfter
  <2> QED BY <1>11, <2>3, <2>4, <2>5, SteadyStep DEF k, r
<1> QED BY <1>4, <1>10, <1>11

\* A timeout.
LEMMA OnTimeoutOnward ==
  ASSUME TypeOK, OrderingInv, Invs, NEW n \in Node, OnTimeout(n)
  PROVE  Invs' /\ StepsOnward /\ StepQuiet
<1> DEFINE k == Local(n)
           l == tryToApplyCommitQueue(k)
           busy == {e \in l.ctl.executing : e[1] > l.ctl.committed}
           idle == [l EXCEPT !.ctl.executing = busy]
<1>1. k \in LocalState /\ k.ctl = ctl[n] /\ ViewLocal(msgs, k)
  BY LocalSteady
<1>2. Step(n, l) \/ Step(n, idle) \/ Step(n, triggerTimeout(n, idle))
  BY DEF OnTimeout, Run
<1>3. ctl[n].toView < MaxView /\ ctl[n].toView \in View
  BY DEF OnTimeout, TypeOK, Registers
<1>4. l.ctl.toView = ctl[n].toView
  BY <1>1 DEF tryToApplyCommitQueue, LocalState, Registers
<1>5. l \in LocalState /\ Onward(msgs, k, l)
  <2> HIDE DEF k
  <2> QED BY <1>1, ApplyType, OnwardApply
<1> HIDE DEF l
<1>6. idle \in LocalState /\ Onward(msgs, l, idle) /\ idle.ctl.toView = ctl[n].toView
  <2>1. busy \subseteq Index \X Hash
    BY <1>5, LocalFields
  <2> HIDE DEF busy
  <2>2. [l.ctl EXCEPT !.executing = busy] \in Registers
    BY <1>5, <2>1 DEF LocalState, Registers
  <2>3. idle \in LocalState
    BY <1>5, <2>2 DEF LocalState
  <2>4. idle.caches = l.caches /\ idle.out = l.out
    BY <1>5 DEF LocalState
  <2>5. /\ idle.ctl.view = l.ctl.view /\ idle.ctl.committed = l.ctl.committed
        /\ idle.ctl.viewChanges = l.ctl.viewChanges /\ idle.ctl.recover = l.ctl.recover
        /\ idle.ctl.toView = l.ctl.toView
    BY <1>5 DEF LocalState, Registers
  <2>6. ViewLocal(msgs, l)
    BY <1>5 DEF Onward
  <2> HIDE DEF idle
  <2> QED BY <1>4, <1>5, <2>3, <2>4, <2>5, <2>6, OnwardRegisters
<1> HIDE DEF idle, k
<1>7. [idle EXCEPT !.ctl.toView = ctl[n].toView] = idle
  BY <1>6 DEF LocalState, Registers
<1>8. Onward(msgs, k, idle)
  BY <1>1, <1>5, <1>6, OnwardTransitive
<1>9. triggerTimeout(n, idle) \in LocalState /\ Onward(msgs, k, triggerTimeout(n, idle))
  <2>1. ViewLocal(msgs, idle)
    BY <1>6 DEF Onward
  <2>2. triggerTimeout(n, idle) \in LocalState
    BY <1>3, <1>6, <1>7, TimeoutType
  <2>3. Onward(msgs, idle, triggerTimeout(n, idle))
    BY <1>3, <1>6, <1>7, <2>1, OnwardTimeout
  <2> QED BY <1>1, <1>6, <1>8, <2>2, <2>3, OnwardTransitive
<1> QED BY <1>2, <1>5, <1>6, <1>8, <1>9, OnwardStep DEF k

\* View changes, new views and recover responses.
LEMMA HandleViewOnward ==
  ASSUME TypeOK, OrderingInv, Invs, NEW n \in Node, NEW m \in msgs,
         HandleViewChange(n, m) \/ HandleNewView(n, m) \/ HandleRecoverResponse(n, m)
  PROVE  Invs' /\ StepsOnward /\ StepQuiet
<1> DEFINE k == Local(n)
           R == k.ctl.recover \cup {<<m.view, m.from>>}
           l1 == [k EXCEPT !.ctl.recover = R]
<1>1. k \in LocalState /\ m \in Message /\ ViewLocal(msgs, k)
  BY LocalSteady DEF TypeOK
<1>2. Truthful(msgs, m)
  BY DEF Invs, ViewInv
<1>3. CASE HandleViewChange(n, m)
  <2>1. m \in ViewChangeMsg
    BY <1>1, <1>3, MessageFields DEF HandleViewChange
  <2>2. Step(n, handleViewChangeMsg(n, k, m))
    BY <1>3 DEF HandleViewChange, Handled
  <2>3. handleViewChangeMsg(n, k, m) \in LocalState /\ Onward(msgs, k, handleViewChangeMsg(n, k, m))
    <3> HIDE DEF k
    <3> QED BY <1>1, <2>1, HandleViewChangeType, OnwardHandleViewChange
  <2> QED BY <2>2, <2>3, OnwardStep
<1>4. CASE HandleNewView(n, m)
  <2>1. m \in NewViewMsg
    BY <1>1, <1>4, MessageFields DEF HandleNewView
  <2>2. Step(n, handleNewViewMsg(n, k, m))
    BY <1>4 DEF HandleNewView, Handled
  <2>3. handleNewViewMsg(n, k, m) \in LocalState /\ Onward(msgs, k, handleNewViewMsg(n, k, m))
    <3> HIDE DEF k
    <3> QED BY <1>1, <1>2, <2>1, HandleNewViewType, OnwardHandleNewView
  <2> QED BY <2>2, <2>3, OnwardStep
<1>5. CASE HandleRecoverResponse(n, m)
  <2>1. m.from \in Node /\ m.view \in View /\ Backed(msgs, m.view)
    BY <1>1, <1>2, <1>5, MessageFields DEF HandleRecoverResponse, Truthful
  <2>2. Step(n, checkAndTryToRecover(l1))
    BY <1>5 DEF HandleRecoverResponse, Handled
  <2> HIDE DEF k
  <2>3. R \subseteq View \X Node /\ \A r \in R : r \in k.ctl.recover \/ r[1] = m.view
    BY <1>1, <2>1 DEF LocalState, Registers
  <2> HIDE DEF R
  <2>4. [k.ctl EXCEPT !.recover = R] \in Registers
    BY <1>1, <2>3 DEF LocalState, Registers
  <2>5. l1 \in LocalState
    BY <1>1, <2>4 DEF LocalState
  <2>6. l1.caches = k.caches /\ l1.out = k.out
    BY <1>1 DEF LocalState
  <2>7. /\ l1.ctl.view = k.ctl.view /\ l1.ctl.committed = k.ctl.committed
        /\ l1.ctl.viewChanges = k.ctl.viewChanges /\ l1.ctl.recover = R
    BY <1>1 DEF LocalState, Registers
  <2> HIDE DEF l1
  <2>8. \A r \in R : Backed(msgs \cup l1.out, r[1])
    <3>1. msgs \subseteq msgs \cup l1.out
      OBVIOUS
    <3>2. Backed(msgs \cup l1.out, m.view)
      BY <2>1, <3>1, BackedGrows
    <3> QED BY <1>1, <2>3, <2>6, <3>2 DEF ViewLocal
  <2>9. ViewLocal(msgs, l1)
    BY <1>1, <2>6, <2>7, <2>8 DEF ViewLocal
  <2>10. Onward(msgs, k, l1)
    BY <1>1, <2>6, <2>7, <2>9, OnwardSame
  <2>11. checkAndTryToRecover(l1) \in LocalState /\ Onward(msgs, l1, checkAndTryToRecover(l1))
    BY <2>5, <2>9, RecoverType, OnwardRecover
  <2>12. Onward(msgs, k, checkAndTryToRecover(l1))
    BY <1>1, <2>5, <2>10, <2>11, OnwardTransitive
  <2> QED BY <2>2, <2>11, <2>12, OnwardStep DEF k
<1> QED BY <1>3, <1>4, <1>5

\* Execution, checkpoints, commits and synchronisation.
LEMMA LedgerOnward ==
  ASSUME TypeOK, OrderingInv, Invs, NEW n \in Node,
         \/ \E e \in ctl[n].executing : ApplySuccess(n, e)
         \/ \E i \in Index : StableCheckPoint(n, i)
         \/ CommitStable(n)
         \/ \E k \in Index : SyncBlock(n, k)
         \/ \E k \in Index : NotifySyncing(n, k)
  PROVE  Invs' /\ StepsOnward /\ StepQuiet
<1> DEFINE l == Local(n)
<1>1. /\ l \in LocalState /\ l.ctl = ctl[n] /\ l.caches = caches[n]
      /\ l.out = {} /\ ViewLocal(msgs, l) /\ CachesClosed(l) /\ Tallied(n, l)
  BY LocalSteady
<1> HIDE DEF l
<1>2. ASSUME NEW e \in ctl[n].executing, ApplySuccess(n, e) PROVE Invs' /\ StepsOnward /\ StepQuiet
  <2> DEFINE r == onProposalApplySuccess(n, l, e)
  <2>1. e \in Index \X Hash
    BY <1>1, LocalFields
  <2>2. Step(n, r)
    BY <1>2 DEF ApplySuccess, Run, l
  <2>3. /\ r \in LocalState /\ Steady(l, r) /\ ViewLocal(msgs, r) /\ Tallied(n, r)
        /\ \A m \in r.out \ l.out : ~IsVote(m)
    BY <1>1, <2>1, ApplySuccessType, SteadyApplySuccess
  <2> HIDE DEF r
  <2>4. Quiet(n, r.out)
    BY <1>1, <2>3 DEF Quiet
  <2> QED BY <2>2, <2>3, <2>4, SteadyStep DEF l
<1>3. ASSUME NEW i \in Index, StableCheckPoint(n, i) PROVE Invs' /\ StepsOnward /\ StepQuiet
  <2> DEFINE c == [l.caches[i] EXCEPT !.stable = TRUE]
             Q == l.ctl.stableQueue \cup {i}
             l1 == [l EXCEPT !.caches[i] = c, !.ctl.stableQueue = Q]
  <2>0. l.caches[i] \in Cache /\ l.caches[i].checkpoint # NoHash /\ i > l.ctl.committed
    BY <1>1, <1>3, LocalFields DEF StableCheckPoint
  <2>1. /\ c \in Cache /\ c.precommit = l.caches[i].precommit
        /\ c.checkpoint = l.caches[i].checkpoint /\ c.prePrepare = l.caches[i].prePrepare
        /\ c.prepares = l.caches[i].prepares /\ c.precommitted = l.caches[i].precommitted
    BY <2>0 DEF Cache
  <2>2. Q \subseteq Index
    BY <1>1 DEF LocalState, Registers
  <2>3. Step(n, [l EXCEPT !.caches[i].stable = TRUE, !.ctl.stableQueue = @ \cup {i}])
    BY <1>3 DEF StableCheckPoint, Run, l
  <2>4. [l EXCEPT !.caches[i].stable = TRUE, !.ctl.stableQueue = @ \cup {i}] = l1
    BY <1>1 DEF LocalState
  <2> HIDE DEF c, Q
  <2>5. [l.ctl EXCEPT !.stableQueue = Q] \in Registers
    BY <1>1, <2>2 DEF LocalState, Registers
  <2>6. l1 \in LocalState
    BY <1>1, <2>1, <2>5 DEF LocalState
  <2>7. /\ l1.out = l.out
        /\ \A j \in Index : l1.caches[j] = IF j = i THEN c ELSE l.caches[j]
    BY <1>1 DEF LocalState
  <2>8. /\ l1.ctl.view = l.ctl.view /\ l1.ctl.committed = l.ctl.committed
        /\ l1.ctl.viewChanges = l.ctl.viewChanges /\ l1.ctl.recover = l.ctl.recover
    BY <1>1 DEF LocalState, Registers
  <2> HIDE DEF l1
  <2>9. ViewLocal(msgs, l1)
    BY <1>1, <2>7, <2>8, ViewLocalKept
  <2>10. CachesClosed(l1)
    <3> SUFFICES ASSUME NEW j \in Index
                 PROVE  /\ j <= l1.ctl.committed => l1.caches[j] = EmptyCache
                        /\ l1.caches[j].stable => l1.caches[j].checkpoint # NoHash
      BY DEF CachesClosed
    <3>1. j = i => ~(j <= l1.ctl.committed)
      BY <1>1, <2>0, <2>8, LocalFields DEF Index
    <3> QED BY <1>1, <2>0, <2>1, <2>7, <2>8, <3>1 DEF CachesClosed
  <2>11. l.ctl.view \in Int
    BY <1>1, LocalFields DEF View
  <2>12. Steady(l, l1)
    BY <2>1, <2>7, <2>8, <2>10, <2>11 DEF Steady
  <2>13. Tallied(n, l1)
    <3>1. \A j \in Index : Tally(n, l.caches[j], l.ctl.view)
      BY <1>1 DEF Tallied
    <3>2. Tally(n, c, l.ctl.view)
      BY <2>1, <3>1, SameTally
    <3> QED BY <2>7, <2>8, <3>1, <3>2 DEF Tallied
  <2>14. Quiet(n, l1.out)
    BY <1>1, <2>7 DEF Quiet
  <2> QED BY <2>3, <2>4, <2>6, <2>9, <2>12, <2>13, <2>14, SteadyStep DEF l
<1>4. ASSUME CommitStable(n) PROVE Invs' /\ StepsOnward /\ StepQuiet
  <2> DEFINE k == ctl[n].committed + 1
             r == finalizeConsensus(l, k, FALSE)
  <2>1. k \in Index
    BY <1>1, <1>4 DEF CommitStable, LocalState, Registers
  <2>2. Step(n, r)
    BY <1>4 DEF CommitStable, Run, l
  <2> HIDE DEF k
  <2>3. /\ r \in LocalState /\ Steady(l, r) /\ ViewLocal(msgs, r) /\ Tallied(n, r)
        /\ r.out = {}
    BY <1>1, <2>1, FinalizeType, SteadyFinalize
  <2> HIDE DEF r
  <2>4. Quiet(n, r.out)
    BY <2>3 DEF Quiet
  <2> QED BY <2>2, <2>3, <2>4, SteadyStep DEF l
<1>5. ASSUME NEW k \in Index, SyncBlock(n, k) PROVE Invs' /\ StepsOnward /\ StepQuiet
  <2> DEFINE r == finalizeConsensus(l, k, TRUE)
  <2>2. Step(n, r)
    BY <1>5 DEF SyncBlock, Run, l
  <2>3. /\ r \in LocalState /\ Steady(l, r) /\ ViewLocal(msgs, r) /\ Tallied(n, r)
        /\ r.out = {}
    BY <1>1, FinalizeType, SteadyFinalize
  <2> HIDE DEF r
  <2>4. Quiet(n, r.out)
    BY <2>3 DEF Quiet
  <2> QED BY <2>2, <2>3, <2>4, SteadyStep DEF l
<1>6. ASSUME NEW k \in Index, NotifySyncing(n, k) PROVE Invs' /\ StepsOnward /\ StepQuiet
  <2> DEFINE l1 == [l EXCEPT !.ctl.syncing = k]
  <2>1. k \in 0 .. MaxIndex
    BY BoundAssumption DEF Index
  <2>2. Step(n, l1)
    BY <1>6 DEF NotifySyncing, Run, l
  <2>3. [l.ctl EXCEPT !.syncing = k] \in Registers
    BY <1>1, <2>1 DEF LocalState, Registers
  <2>4. l1 \in LocalState
    BY <1>1, <2>3 DEF LocalState
  <2>5. l1.caches = l.caches /\ l1.out = l.out
    BY <1>1 DEF LocalState
  <2>6. /\ l1.ctl.view = l.ctl.view /\ l1.ctl.committed = l.ctl.committed
        /\ l1.ctl.viewChanges = l.ctl.viewChanges /\ l1.ctl.recover = l.ctl.recover
    BY <1>1 DEF LocalState, Registers
  <2> HIDE DEF l1
  <2>7. Onward(msgs, l, l1)
    BY <1>1, <2>5, <2>6, OnwardRegisters
  <2> QED BY <2>2, <2>4, <2>7, OnwardStep DEF l
<1> QED BY <1>2, <1>3, <1>4, <1>5, <1>6

\* A restart keeps the invariants; the view and the locks are lost.
LEMMA RestartInvs ==
  ASSUME TypeOK, Invs, NEW n \in Node, NEW j \in 0 .. MaxIndex, Restart(n, j)
  PROVE  Invs' /\ StepQuiet /\ restarts' # restarts
<1> DEFINE k == ctl[n].committed
           M == {x \in msgs : x.type = "CheckPoint" /\ x.from = n /\ x.index > k /\ x.index <= j}
           Q == {<<m.index, m.hash>> : m \in M}
           l == [ctl |-> StartRegisters(k, j + 1, Q), caches |-> [i \in Index |-> EmptyCache],
                 pending |-> {}, out |-> {}, done |-> {}]
           l1 == tryToApplyCommitQueue(l)
<1>1. k \in 0 .. MaxIndex /\ j + 1 \in 1 .. MaxIndex + 1
  BY BoundAssumption DEF TypeOK, Registers
<1>2. Q \in SUBSET (Index \X Hash)
  <2>1. \A m \in M : m.index \in Index /\ m.hash \in Hash
    BY MessageFields DEF TypeOK
  <2> HIDE DEF M
  <2> QED BY <2>1
<1>3. Step(n, l1) /\ restarts' # restarts
  BY DEF Restart, TypeOK
<1> HIDE DEF Q, k
<1>4. l \in LocalState
  <2>1. StartRegisters(k, j + 1, Q) \in Registers /\ [i \in Index |-> EmptyCache] \in [Index -> Cache]
    BY <1>1, <1>2, StartType
  <2> QED BY <2>1 DEF LocalState
<1>5. /\ l.out = {} /\ l.ctl.view = 0 /\ l.ctl.viewChanges = {} /\ l.ctl.recover = {}
      /\ \A i \in Index : l.caches[i] = EmptyCache
  BY DEF StartRegisters
<1> HIDE DEF l
<1>6. ViewLocal(msgs, l)
  BY <1>5 DEF ViewLocal, Backed
<1>7. CachesClosed(l)
  <2>1. ~EmptyCache.stable
    BY DEF EmptyCache
  <2> QED BY <1>5, <2>1 DEF CachesClosed
<1>8. l1 \in LocalState /\ Onward(msgs, l, l1)
  BY <1>4, <1>6, ApplyType, OnwardApply
<1> HIDE DEF l1
<1>9. ViewLocal(msgs, l1) /\ CachesClosed(l1)
  BY <1>7, <1>8, OnwardSteady DEF Onward, Steady
<1>10. Tallied(n, l1)
  <2>1. Tallied(n, l)
    BY <1>5, EmptyTally DEF Tallied
  <2> QED BY <1>4, <1>8, <2>1, OnwardTallied
<1>11. StepQuiet
  <2>1. Quiet(n, l1.out)
    BY <1>5, <1>8 DEF Onward, Quiet
  <2> QED BY <1>3, <2>1, QuietStep
<1> QED BY <1>3, <1>8, <1>9, <1>10, <1>11, StepInvs

\* The invariants hold initially.
LEMMA InitInvs == Init => Invs
<1> SUFFICES ASSUME Init PROVE Invs
  OBVIOUS
<1>1. \A n \in Node : ctl[n].view = 0 /\ ctl[n].viewChanges = {} /\ ctl[n].recover = {}
  BY DEF Init, StartRegisters
<1>2. ViewInv
  BY <1>1 DEF Init, ViewInv, Backed
<1>3. ClosedInv
  BY DEF Init, ClosedInv, EmptyCache
<1>4. TallyInv
  BY EmptyTally DEF Init, TallyInv, Tally
<1> QED BY <1>2, <1>3, <1>4 DEF Invs

\* Every step keeps the invariants, is quiet, and moves onward unless it is a
\* restart.
LEMMA NextOnward ==
  TypeOK /\ OrderingInv /\ Invs /\ [Next]_vars
  => Invs' /\ StepQuiet /\ (restarts' = restarts => StepsOnward)
<1> SUFFICES ASSUME TypeOK, OrderingInv, Invs, [Next]_vars
             PROVE  Invs' /\ StepQuiet /\ (restarts' = restarts => StepsOnward)
  OBVIOUS
<1>1. CASE UNCHANGED <<ctl, caches, msgs>>
  <2>1. ViewInv'
    BY <1>1 DEF Invs, ViewInv, Backed, Truthful
  <2>2. ClosedInv'
    BY <1>1 DEF Invs, ClosedInv
  <2>3. \A n \in Node : ctl[n].view \in Int
    BY DEF TypeOK, Registers, View
  <2>4. StepsOnward
    BY <1>1, <2>3 DEF StepsOnward
  <2>5. TallyInv'
    <3>1. ctl' = ctl /\ caches' = caches
      BY <1>1
    <3>2. \A n \in Node, i \in Index : Tally(n, caches[n][i], ctl[n].view)
      BY DEF Invs, TallyInv, Tally
    <3>3. \A n \in Node, i \in Index : Tally(n, caches'[n][i], ctl'[n].view)
      BY <3>1, <3>2, Zenon
    <3> QED BY <3>3 DEF TallyInv, Tally, OwnVotes, CanPreCommit, PrePreparedIn, collectEnoughQuorum
  <2>6. StepQuiet
    BY <1>1 DEF StepQuiet
  <2> QED BY <2>1, <2>2, <2>4, <2>5, <2>6 DEF Invs
<1>2. CASE Next
  <2>1. PICK n \in Running :
          \/ Waits(n)
          \/ \E i \in Index, v \in View, s \in 1 .. MaxSeal : SubmitProposal(n, i, v, s)
          \/ \E m \in msgs : HandlePrePrepare(n, m)
          \/ \E m \in msgs : HandlePrepare(n, m) \/ HandleCommit(n, m)
          \/ \E m \in msgs : \/ HandleViewChange(n, m) \/ HandleNewView(n, m)
                             \/ HandleRecoverResponse(n, m)
          \/ \E p \in pending[n] : \/ VerifySucceeds(n, p) \/ VerifyFails(n, p)
                                   \/ PrecommitResponse(n, p)
          \/ OnTimeout(n)
          \/ \/ \E e \in ctl[n].executing : ApplySuccess(n, e)
             \/ \E i \in Index : StableCheckPoint(n, i)
             \/ CommitStable(n)
             \/ \E k \in Index : SyncBlock(n, k)
             \/ \E k \in Index : NotifySyncing(n, k)
          \/ \E j \in 0 .. MaxIndex : Restart(n, j)
    BY <1>2, Zenon DEF Next, Waits
  <2>2. n \in Node
    BY BoundAssumption
  <2> QED
    BY <1>1, <2>1, <2>2, WaitsType, SubmitProposalOnward, HandlePrePrepareOnward, HandleVoteOnward,
       HandleViewOnward, VerifyOnward, OnTimeoutOnward, LedgerOnward, RestartInvs
<1> QED BY <1>1, <1>2 DEF vars

(***************************************************************************)
(* ViewInv, ClosedInv and TallyInv are invariants: through every handler,  *)
(* view change, recovery, commit, synchronisation and restart.             *)
(***************************************************************************)
THEOREM ViewInvariant == Spec => [](ViewInv /\ ClosedInv /\ TallyInv)
<1>1. Init => Invs
  BY InitInvs
<1>2. TypeOK /\ OrderingInv /\ Invs /\ [Next]_vars => Invs'
  BY NextOnward
<1>3. Invs => ViewInv /\ ClosedInv /\ TallyInv
  BY DEF Invs
<1> QED BY <1>1, <1>2, <1>3, TypeInvariant, OrderingInvariant, PTL DEF Spec

(***************************************************************************)
(* A node enters a view only if a quorum asked for this very view, by      *)
(* whatever way it enters it (ViewBackedByQuorum).                         *)
(***************************************************************************)
THEOREM ViewBackedByQuorumHolds == Spec => []ViewBackedByQuorum
<1>1. TypeOK /\ ViewInv => ViewBackedByQuorum
  <2> SUFFICES ASSUME TypeOK, ViewInv, NEW n \in Node, ctl[n].view > 0
               PROVE  IsQuorum({m.from : m \in {x \in msgs : /\ x.type = "ViewChange"
                                                             /\ x.view = ctl[n].view}})
    BY DEF ViewBackedByQuorum
  <2>1. Backed(msgs, ctl[n].view) /\ ctl[n].view # 0
    BY DEF ViewInv, TypeOK, Registers, View
  <2> QED BY <2>1 DEF Backed
<1> QED BY <1>1, TypeInvariant, ViewInvariant, PTL

(***************************************************************************)
(* A committed number is closed: no late vote or verification, and no      *)
(* execution that ends after the commit, puts a proposal, a vote or a      *)
(* result into its cache again (CommittedIsClosed).                        *)
(***************************************************************************)
THEOREM CommittedIsClosedHolds == Spec => []CommittedIsClosed
<1>1. TypeOK /\ OrderingInv /\ ClosedInv => CommittedIsClosed
  <2> SUFFICES ASSUME TypeOK, OrderingInv, ClosedInv, NEW n \in Node
               PROVE  /\ LowIndex(ctl[n]) > ctl[n].committed
                      /\ \A i \in Index : i <= ctl[n].committed => caches[n][i] = EmptyCache
    BY DEF CommittedIsClosed
  <2>1. /\ ctl[n].low \in Int /\ ctl[n].expected \in Int /\ ctl[n].committed \in Int
        /\ ctl[n].expected > ctl[n].committed
    BY DEF TypeOK, Registers, OrderingInv
  <2> QED BY <2>1 DEF LowIndex, ClosedInv
<1> QED BY <1>1, TypeInvariant, OrderingInvariant, ViewInvariant, PTL

(***************************************************************************)
(* While it runs, a node never goes back to a lower view (ViewMonotonic).  *)
(***************************************************************************)
THEOREM ViewMonotonicHolds == Spec => ViewMonotonic
<1>1. TypeOK /\ OrderingInv /\ (ViewInv /\ ClosedInv /\ TallyInv) /\ [Next]_vars
      => [restarts' = restarts => \A n \in Node : ctl'[n].view >= ctl[n].view]_vars
  BY NextOnward DEF StepsOnward, Invs
<1> QED BY <1>1, TypeInvariant, OrderingInvariant, ViewInvariant, PTL DEF Spec, ViewMonotonic

(***************************************************************************)
(* While it runs, a node keeps its lock on a proposal it has not executed  *)
(* until the number is committed (LockKept).                               *)
(***************************************************************************)
THEOREM LockKeptHolds == Spec => LockKept
<1>1. TypeOK /\ OrderingInv /\ (ViewInv /\ ClosedInv /\ TallyInv) /\ [Next]_vars
      => [restarts' = restarts =>
            \A n \in Node, i \in Index :
              LET c == caches[n][i] IN
              c.precommit # NoProposal /\ c.checkpoint = NoHash /\ i > ctl'[n].committed
              => caches'[n][i].precommit.hash = c.precommit.hash]_vars
  BY NextOnward DEF StepsOnward, Invs
<1> QED BY <1>1, TypeInvariant, OrderingInvariant, ViewInvariant, PTL DEF Spec, LockKept

(***************************************************************************)
(* A node in the timeout state sends no prepare and no commit vote, except *)
(* for a proposal whose verification ends meanwhile, or whose prepare, or  *)
(* which itself, was waiting for m_mutex, and, with one of these, for one  *)
(* it took ahead of its view (QuietInTimeoutUnlessTaken): by TallyInv no   *)
(* other proposal waits to be precommitted when the timeout comes.         *)
(***************************************************************************)
THEOREM QuietInTimeoutHolds == Spec => QuietInTimeoutUnlessTaken
<1>1. TypeOK /\ OrderingInv /\ (ViewInv /\ ClosedInv /\ TallyInv) /\ [Next]_vars
      => [\A n \in Node :
            ctl[n].timeout /\ ctl'[n].timeout =>
              \A m \in msgs' \ msgs :
                m.from = n /\ m.type \in {"Prepare", "Commit"}
                => \/ \E p \in pending[n] : p.index = m.index /\ p.hash = m.hash
                   \/ \E x \in taken[n] : /\ x.type \in {"PrePrepare", "Prepare"}
                                          /\ x.index = m.index /\ x.hash = m.hash
                   \/ m.type = "Commit" /\ TakenAhead(n, m.index, m.hash)]_vars
  BY NextOnward DEF StepQuiet, InHand, Invs
<1> QED
  BY <1>1, TypeInvariant, OrderingInvariant, ViewInvariant, PTL DEF Spec, QuietInTimeoutUnlessTaken

=============================================================================

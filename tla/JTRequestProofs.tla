-------------------------- MODULE JTRequestProofs --------------------------
(***************************************************************************)
(* Proofs about JTRequest, for any number of requests, any concurrency     *)
(* limit and any retries: the types, that no more than Limit requests are  *)
(* ever in flight, that each request under way is in one place, that none  *)
(* is posted more often than its retries allow, and that the refresh flag  *)
(* is set for a login.                                                     *)
(***************************************************************************)
EXTENDS JTRequest, FiniteSetTheorems, SequenceTheorems, TLAPS

Net == [queue : Seq(Id), pending : SUBSET Id, dropped : SUBSET Id]

\* What every operator on the queue and the requests in flight keeps.
Sound(n) == n \in Net /\ Cardinality(n.pending) <= Limit

\* The ids are finitely many.
LEMMA IdFinite == IsFiniteSet(Id)
BY RequestAssumption, FS_Union DEF Id

\* So are the requests in flight.
LEMMA PendingFinite ==
  ASSUME NEW p \in SUBSET Id
  PROVE  IsFiniteSet(p) /\ Cardinality(p) \in Nat
BY IdFinite, FS_Subset, FS_CardinalityType

\* Taking a reply out keeps the bound.
LEMMA WithoutSound ==
  ASSUME NEW n, Sound(n), NEW id \in Id
  PROVE  Sound(Without(n, id))
<1>1. /\ IsFiniteSet(n.pending) /\ Cardinality(n.pending) \in Nat
      /\ Cardinality(n.pending) <= Limit
  BY PendingFinite DEF Sound, Net
<1>2. /\ n.pending \ {id} \in SUBSET Id
      /\ Cardinality(n.pending \ {id}) <= Cardinality(n.pending)
      /\ Cardinality(n.pending \ {id}) \in Nat
  BY <1>1, FS_Subset, PendingFinite DEF Sound, Net
<1>3. Without(n, id) \in Net /\ Without(n, id).pending = n.pending \ {id}
  BY <1>2 DEF Without, Sound, Net
<1> QED BY <1>1, <1>2, <1>3, RequestAssumption, SMT DEF Sound

\* enqueueOrSend posts only into a free slot.
LEMMA EnqueueOrSendSound ==
  ASSUME NEW n, Sound(n), NEW id \in Id
  PROVE  Sound(EnqueueOrSend(n, id))
<1> USE DEF Sound, Net, EnqueueOrSend
<1>1. IsFiniteSet(n.pending) /\ Cardinality(n.pending) \in Nat
  BY PendingFinite
<1>2. CASE HasSlot(n.pending)
  <2> DEFINE p == n.pending \cup {id}
  <2>1. Cardinality(p) <= Limit
    <3>1. \/ Cardinality(p) = Cardinality(n.pending)
          \/ Cardinality(p) = Cardinality(n.pending) + 1
      BY <1>1, FS_AddElement
    <3> QED BY <1>1, <1>2, <3>1, RequestAssumption, SMT DEF HasSlot
  <2>2. EnqueueOrSend(n, id) = [n EXCEPT !.pending = p]
    BY <1>2
  <2>3. p \in SUBSET Id
    OBVIOUS
  <2> HIDE DEF EnqueueOrSend, p
  <2> QED BY <2>1, <2>2, <2>3
<1>3. CASE ~HasSlot(n.pending) /\ Len(n.queue) < MaxQueue
  <2>1. EnqueueOrSend(n, id) = [n EXCEPT !.queue = Append(n.queue, id)]
    BY <1>3, Zenon
  <2>2. Append(n.queue, id) \in Seq(Id)
    OBVIOUS
  <2> HIDE DEF EnqueueOrSend
  <2> QED BY <2>1, <2>2
<1>4. CASE ~HasSlot(n.pending) /\ ~(Len(n.queue) < MaxQueue)
  <2>1. EnqueueOrSend(n, id) = [n EXCEPT !.dropped = n.dropped \cup {id}]
    BY <1>4, Zenon
  <2>2. n.dropped \cup {id} \in SUBSET Id
    OBVIOUS
  <2> HIDE DEF EnqueueOrSend
  <2> QED BY <2>1, <2>2
<1> QED BY <1>2, <1>3, <1>4

\* The first k elements of a sequence are at most k ids.
LEMMA FrontSmall ==
  ASSUME NEW q \in Seq(Id), NEW k \in 0 .. Len(q)
  PROVE  /\ {q[i] : i \in 1 .. k} \in SUBSET Id
         /\ Cardinality({q[i] : i \in 1 .. k}) <= k
         /\ Cardinality({q[i] : i \in 1 .. k}) \in Nat
<1> DEFINE T == {q[i] : i \in 1 .. k}
           f == [i \in 1 .. k |-> q[i]]
<1>1. k \in Nat /\ \A i \in 1 .. k : q[i] \in Id
  OBVIOUS
<1>2. T \in SUBSET Id
  BY <1>1
<1>3. IsFiniteSet(1 .. k) /\ Cardinality(1 .. k) = k
  BY <1>1, FS_Interval, SMT
<1>4. f \in Surjection(1 .. k, T)
  BY DEF Surjection
<1>5. Cardinality(T) <= Cardinality(1 .. k)
  BY <1>3, <1>4, FS_Surjection
<1> QED BY <1>2, <1>3, <1>5, PendingFinite

\* tryStartNext posts no more than there are free slots.
LEMMA TryStartNextSound ==
  ASSUME NEW n, Sound(n)
  PROVE  Sound(TryStartNext(n))
<1> DEFINE k == Startable(n)
           T == {n.queue[i] : i \in 1 .. k}
<1>1. /\ n.queue \in Seq(Id) /\ n.pending \in SUBSET Id /\ n.dropped \in SUBSET Id
      /\ Cardinality(n.pending) \in Nat /\ Cardinality(n.pending) <= Limit
      /\ IsFiniteSet(n.pending)
  BY PendingFinite DEF Sound, Net
<1>2. k \in 0 .. Len(n.queue) /\ Cardinality(n.pending) + k <= Limit
  BY <1>1, RequestAssumption, LenProperties, SMT DEF Startable
<1>3. T \in SUBSET Id /\ Cardinality(T) <= k /\ Cardinality(T) \in Nat
  BY <1>1, <1>2, FrontSmall
<1>4. IsFiniteSet(T)
  BY <1>3, PendingFinite
<1>5. Cardinality(n.pending \cup T) <= Limit
  <2>1. /\ Cardinality(n.pending \cup T)
             = Cardinality(n.pending) + Cardinality(T)
                 - Cardinality(n.pending \cap T)
    BY <1>1, <1>4, FS_Union
  <2>2. Cardinality(n.pending \cap T) \in Nat
    BY <1>1, PendingFinite
  <2> HIDE DEF T, k
  <2> QED BY <2>1, <2>2, <1>1, <1>2, <1>3, RequestAssumption, SMT
<1>6. SubSeq(n.queue, k + 1, Len(n.queue)) \in Seq(Id)
  <2> HIDE DEF k
  <2> QED BY <1>1, <1>2, SMT
<1>7. TryStartNext(n) = [n EXCEPT !.pending = n.pending \cup T,
                         !.queue = SubSeq(n.queue, k + 1, Len(n.queue))]
  BY DEF TryStartNext
<1> HIDE DEF T, k
<1> QED BY <1>1, <1>3, <1>5, <1>6, <1>7 DEF Sound, Net

\* enqueueOrSend followed by tryStartNext.
LEMMA SendAgainSound ==
  ASSUME NEW n, Sound(n), NEW id \in Id
  PROVE  Sound(SendAgain(n, id))
BY EnqueueOrSendSound, TryStartNextSound DEF SendAgain
-----------------------------------------------------------------------------
(* The types, with the bound: TypeOK alone is not kept by a step, because  *)
(* tryStartNext counts the free slots.                                     *)

Typed == TypeOK /\ PendingBound

\* With the types the network state is a sound one.
LEMMA TypedSound == Typed => Sound(net)
BY DEF Typed, TypeOK, PendingBound, Sound, Net

\* Settling with a record that keeps the bound keeps the type of net and of
\* outcome.
LEMMA SettleTyped ==
  ASSUME Typed, NEW n, Sound(n), NEW changed, NEW how \in Outcome,
         Settle(n, changed, how)
  PROVE  /\ net' \in Net /\ Cardinality(net'.pending) <= Limit
         /\ outcome' \in [Id -> Outcome]
<1>1. net' \in Net /\ net'.pending = n.pending
  BY DEF Settle, Sound, Net
<1>2. outcome \in [Id -> Outcome] /\ "dropped" \in Outcome
  BY DEF Typed, TypeOK, Outcome
<1>3. ASSUME NEW r \in Id
      PROVE  (CASE r \in n.dropped           -> "dropped"
                [] r \in changed \ n.dropped -> how
                [] OTHER                     -> outcome[r]) \in Outcome
  BY <1>2, Zenon
<1>4. outcome' \in [Id -> Outcome]
  BY <1>3 DEF Settle
<1> QED BY <1>1, <1>4 DEF Sound

\* Posting is counted in natural numbers.
LEMMA CountPostsTyped ==
  ASSUME Typed, NEW n, NEW again, CountPosts(n, again)
  PROVE  posts' \in [Req -> Nat]
BY DEF Typed, TypeOK, CountPosts

\* Forgetting a reply and starting the next keeps the bound.
LEMMA RestartSound ==
  ASSUME Typed, NEW id \in Id
  PROVE  /\ Sound(TryStartNext(Without(net, id)))
         /\ Sound(Without(net, id))
BY TypedSound, WithoutSound, TryStartNextSound

\* A request that ends keeps the types.
LEMMA FinishTyped ==
  ASSUME Typed, NEW id \in Id, NEW how \in Outcome, Finish(id, how),
         refreshing' \in BOOLEAN
  PROVE  Typed'
<1>1. PICK n : /\ n = TryStartNext(Without(net, id)) /\ Sound(n)
               /\ Settle(n, {id}, how) /\ CountPosts(n, {})
  BY RestartSound DEF Finish
<1>2. /\ net' \in Net /\ Cardinality(net'.pending) <= Limit
      /\ outcome' \in [Id -> Outcome]
  BY <1>1, SettleTyped
<1>3. posts' \in [Req -> Nat]
  BY <1>1, CountPostsTyped
<1>4. UNCHANGED <<timers, paused, tokenStale, meta, switches>>
  BY DEF Finish
<1> QED BY <1>2, <1>3, <1>4 DEF Typed, TypeOK, PendingBound, Net

\* A tag that is made is one.
LEMMA NewMetaType ==
  ASSUME NEW k \in Nat, NEW s \in BOOLEAN, NEW l \in BOOLEAN
  PROVE  NewMeta(k, s, l) \in Meta
BY DEF NewMeta, Meta

\* The tag a request starts with.
LEMMA NewMetaLogin ==
  ASSUME NEW k, NEW s, NEW l \in BOOLEAN
  PROVE  NewMeta(k, s, l).login = l
BY DEF NewMeta

\* The types and the bound hold at the start.
LEMMA InitTyped == Init => Typed
<1> SUFFICES ASSUME Init PROVE Typed
  OBVIOUS
<1>1. Cardinality(net.pending) = 0
  BY FS_EmptySet DEF Init
<1>2. meta \in [Id -> Meta]
  <2>1. ASSUME NEW id \in Id
        PROVE  NewMeta(0, FALSE, id \in LoginId) \in Meta
    <3>1. (id \in LoginId) \in BOOLEAN
      OBVIOUS
    <3>2. 0 \in Nat /\ FALSE \in BOOLEAN
      OBVIOUS
    <3> QED BY <3>1, <3>2, NewMetaType, Zenon
  <2> QED BY <2>1, Zenon DEF Init
<1>3. /\ net \in [queue : Seq(Id), pending : SUBSET Id, dropped : SUBSET Id]
      /\ paused \in Seq(Id)
  BY DEF Init
<1>4. outcome \in [Id -> Outcome] /\ posts \in [Req -> Nat]
  BY DEF Init, Outcome
<1>5. switches \in 0 .. MaxSwitches /\ Cardinality(net.pending) <= Limit
  BY <1>1, RequestAssumption, SMT DEF Init
<1>6. timers \in SUBSET Id /\ refreshing \in BOOLEAN /\ tokenStale \in BOOLEAN
  BY Zenon DEF Init
<1> QED BY <1>2, <1>3, <1>4, <1>5, <1>6 DEF Typed, TypeOK, PendingBound
\* A step of the operator, of the service or of a caller.
LEMMA RequestTyped ==
  ASSUME Typed, NEW r \in Req, Request(r)
  PROVE  Typed'
<1> DEFINE n == EnqueueOrSend(net, r)
<1>1. r \in Id
  BY DEF Id
<1>2. Sound(n)
  BY <1>1, TypedSound, EnqueueOrSendSound
<1>3. Settle(n, {r}, "live") /\ CountPosts(n, {}) /\ "live" \in Outcome
  BY DEF Request, Outcome
<1> HIDE DEF n
<1>4. /\ net' \in Net /\ Cardinality(net'.pending) <= Limit
      /\ outcome' \in [Id -> Outcome]
  BY <1>2, <1>3, SettleTyped
<1>5. posts' \in [Req -> Nat]
  BY <1>3, CountPostsTyped
<1>6. meta' \in [Id -> Meta]
  <2>1. NewMeta(MaxRetries, tokenStale, FALSE) \in Meta
    BY NewMetaType, RequestAssumption, Zenon DEF Typed, TypeOK
  <2> QED BY <2>1, <1>1 DEF Request, Typed, TypeOK
<1>7. UNCHANGED <<timers, paused, refreshing, tokenStale, switches>>
  BY DEF Request
<1> QED BY <1>4, <1>5, <1>6, <1>7 DEF Typed, TypeOK, PendingBound, Net

\* The tag of a login is one.
LEMMA LoginMetaType == LoginMeta \in Meta
BY NewMetaType, RequestAssumption, Zenon DEF LoginMeta

\* A new mode keeps the types.
LEMMA SetOperateTypeTyped ==
  ASSUME Typed, NEW l \in LoginId, SetOperateType(l)
  PROVE  Typed'
<1> DEFINE n == EnqueueOrSend(net, l)
<1>1. l \in Id
  BY DEF Id
<1>2. Sound(n)
  BY <1>1, TypedSound, EnqueueOrSendSound
<1>3. Settle(n, {l}, "live") /\ CountPosts(n, {}) /\ "live" \in Outcome
  BY DEF SetOperateType, Outcome
<1> HIDE DEF n
<1>4. /\ net' \in Net /\ Cardinality(net'.pending) <= Limit
      /\ outcome' \in [Id -> Outcome]
  BY <1>2, <1>3, SettleTyped
<1>5. posts' \in [Req -> Nat]
  BY <1>3, CountPostsTyped
<1>6. meta' \in [Id -> Meta]
  BY LoginMetaType, <1>1 DEF SetOperateType, Typed, TypeOK
<1>7. switches' \in 0 .. MaxSwitches
  BY RequestAssumption, SMT DEF SetOperateType, Typed, TypeOK
<1>8. UNCHANGED <<timers, paused, refreshing, tokenStale>>
  BY DEF SetOperateType
<1> QED BY <1>4, <1>5, <1>6, <1>7, <1>8 DEF Typed, TypeOK, PendingBound, Net

\* A token that expires keeps the types.
LEMMA ExpireTokenTyped ==
  ASSUME Typed, ExpireToken
  PROVE  Typed'
<1>1. meta' \in [Id -> Meta]
  <2>1. ASSUME NEW id \in Id
        PROVE  [meta[id] EXCEPT !.stale = TRUE] \in Meta
    BY DEF Typed, TypeOK, Meta
  <2> QED BY <2>1 DEF ExpireToken, Typed, TypeOK
<1> QED BY <1>1 DEF ExpireToken, Typed, TypeOK, PendingBound

\* One retry less is still a natural number of them.
LEMMA RetryUsed ==
  ASSUME Typed, NEW id \in Id, meta[id].retries > 0,
         meta' = [meta EXCEPT ![id].retries = @ - 1]
  PROVE  meta' \in [Id -> Meta]
<1>1. meta[id].retries - 1 \in Nat
  BY DEF Typed, TypeOK, Meta
<1> QED BY <1>1 DEF Typed, TypeOK, Meta

\* An abort after the timeout keeps the types.
LEMMA TimeoutAbortTyped ==
  ASSUME Typed, NEW id \in Id, TimeoutAbort(id)
  PROVE  Typed'
<1> DEFINE n == Without(net, id)
<1>1. Sound(n)
  BY RestartSound
<1>2. "live" \in Outcome /\ "requestFailed" \in Outcome
  BY DEF Outcome
<1>3. PICK changed, how : how \in Outcome /\ Settle(n, changed, how)
  BY <1>2 DEF TimeoutAbort
<1> HIDE DEF n
<1>4. /\ net' \in Net /\ Cardinality(net'.pending) <= Limit
      /\ outcome' \in [Id -> Outcome]
  BY <1>1, <1>3, SettleTyped
<1>5. meta' \in [Id -> Meta] /\ timers' \in SUBSET Id
  <2>1. CASE meta[id].retries > 0 /\ meta' = [meta EXCEPT ![id].retries = @ - 1]
             /\ timers' = timers \cup {id}
    BY <2>1, RetryUsed DEF Typed, TypeOK
  <2>2. CASE UNCHANGED <<timers, meta>>
    BY <2>2 DEF Typed, TypeOK
  <2> QED BY <2>1, <2>2 DEF TimeoutAbort
<1>6. UNCHANGED <<paused, refreshing, tokenStale, posts, switches>>
  BY DEF TimeoutAbort
<1> QED BY <1>4, <1>5, <1>6 DEF Typed, TypeOK, PendingBound, Net

\* A retry keeps the types.
LEMMA RetryTyped ==
  ASSUME Typed, NEW id \in Id, RetryTimer(id) \/ NetworkErrorRetry(id)
  PROVE  Typed'
<1>1. Sound(SendAgain(net, id)) /\ Sound(SendAgain(Without(net, id), id))
  BY TypedSound, RestartSound, SendAgainSound
<1>2. PICK n, again : Sound(n) /\ Settle(n, {}, "live") /\ CountPosts(n, again)
  BY <1>1 DEF RetryTimer, NetworkErrorRetry
<1>3. "live" \in Outcome
  BY DEF Outcome
<1>4. /\ net' \in Net /\ Cardinality(net'.pending) <= Limit
      /\ outcome' \in [Id -> Outcome]
  BY <1>2, <1>3, SettleTyped
<1>5. posts' \in [Req -> Nat]
  BY <1>2, CountPostsTyped
<1>6. meta' \in [Id -> Meta] /\ timers' \in SUBSET Id
  <2>1. CASE RetryTimer(id)
    BY <2>1 DEF RetryTimer, Typed, TypeOK
  <2>2. CASE NetworkErrorRetry(id)
    BY <2>2, RetryUsed DEF NetworkErrorRetry, Typed, TypeOK
  <2> QED BY <2>1, <2>2
<1>7. UNCHANGED <<paused, refreshing, tokenStale, switches>>
  BY DEF RetryTimer, NetworkErrorRetry
<1> QED BY <1>4, <1>5, <1>6, <1>7 DEF Typed, TypeOK, PendingBound, Net

\* A request that finds its token expired keeps the types.
LEMMA PauseExpiredTyped ==
  ASSUME Typed, NEW id \in Id, PauseExpired(id)
  PROVE  Typed'
<1> DEFINE w == Without(net, id)
<1>1. Sound(w) /\ Sound(TryStartNext(w))
  BY RestartSound
<1>2. ASSUME NEW l \in LoginId PROVE Sound(TryStartNext(EnqueueOrSend(w, l)))
  BY <1>1, EnqueueOrSendSound, TryStartNextSound DEF Id
<1>3. PICK n, changed :
        Sound(n) /\ Settle(n, changed, "live") /\ CountPosts(n, {})
  BY <1>1, <1>2 DEF PauseExpired
<1>4. "live" \in Outcome
  BY DEF Outcome
<1>5. /\ net' \in Net /\ Cardinality(net'.pending) <= Limit
      /\ outcome' \in [Id -> Outcome]
  BY <1>3, <1>4, SettleTyped
<1>6. posts' \in [Req -> Nat]
  BY <1>3, CountPostsTyped
<1>7. meta' \in [Id -> Meta]
  <2>1. [meta EXCEPT ![id].retried = TRUE] \in [Id -> Meta]
    BY DEF Typed, TypeOK, Meta
  <2>2. ASSUME NEW l \in LoginId
        PROVE  [meta EXCEPT ![id].retried = TRUE, ![l] = LoginMeta] \in [Id -> Meta]
    BY <2>1, LoginMetaType DEF Id
  <2> QED BY <2>1, <2>2 DEF PauseExpired
<1>8. paused' \in Seq(Id)
  BY DEF PauseExpired, Typed, TypeOK
<1>9. refreshing' \in BOOLEAN
  BY Zenon DEF PauseExpired
<1>10. UNCHANGED <<timers, tokenStale, switches>>
  BY DEF PauseExpired
<1> QED BY <1>5, <1>6, <1>7, <1>8, <1>9, <1>10
       DEF Typed, TypeOK, PendingBound, Net

\* A login that brings a token keeps the types.
LEMMA LoginTokenTyped ==
  ASSUME Typed, NEW l \in Id, LoginToken(l)
  PROVE  Typed'
<1> DEFINE m == [Without(net, l) EXCEPT !.queue = @ \o paused]
           n == TryStartNext(m)
<1>1. Sound(Without(net, l)) /\ paused \in Seq(Id)
  BY RestartSound DEF Typed, TypeOK
<1>2. Sound(m)
  <2> DEFINE w == Without(net, l)
  <2>1. Sound(w)
    BY <1>1
  <2> HIDE DEF w
  <2>2. paused \in Seq(Id)
    BY <1>1
  <2>3. w.queue \o paused \in Seq(Id)
    BY <2>1, <2>2 DEF Sound, Net
  <2>4. Sound([w EXCEPT !.queue = w.queue \o paused])
    BY <2>1, <2>3 DEF Sound, Net
  <2> QED BY <2>4 DEF w
<1> HIDE DEF m
<1>3. Sound(n)
  BY <1>2, TryStartNextSound
<1>4. Settle(n, {l}, "silent") /\ CountPosts(n, {}) /\ "silent" \in Outcome
  BY DEF LoginToken, Outcome, m
<1> HIDE DEF n
<1>5. /\ net' \in Net /\ Cardinality(net'.pending) <= Limit
      /\ outcome' \in [Id -> Outcome]
  BY <1>3, <1>4, SettleTyped
<1>6. posts' \in [Req -> Nat]
  BY <1>4, CountPostsTyped
<1>7. meta' \in [Id -> Meta]
  <2>1. ASSUME NEW i \in Id
        PROVE  [meta[i] EXCEPT !.retries = ReplayRetries, !.login = TRUE] \in Meta
    BY RequestAssumption DEF Typed, TypeOK, Meta
  <2> QED BY <2>1 DEF LoginToken, Typed, TypeOK
<1>8. /\ paused' = << >> /\ refreshing' = FALSE /\ tokenStale' = FALSE
      /\ UNCHANGED <<timers, switches>>
  BY DEF LoginToken
<1>9. paused' \in Seq(Id)
  BY <1>8
<1>10. refreshing' \in BOOLEAN /\ tokenStale' \in BOOLEAN
  BY <1>8, Zenon
<1> QED BY <1>5, <1>6, <1>7, <1>8, <1>9, <1>10 DEF Typed, TypeOK, PendingBound, Net

\* A login that is rejected keeps the types.
LEMMA LoginRejectedTyped ==
  ASSUME Typed, NEW id \in Id, LoginRejected(id)
  PROVE  Typed'
<1>1. PICK n : /\ n = TryStartNext(Without(net, id)) /\ Sound(n) /\ net' = n
               /\ CountPosts(n, {})
  BY RestartSound DEF LoginRejected, FailPaused
<1>2. posts' \in [Req -> Nat]
  BY <1>1, CountPostsTyped
<1>3. outcome' \in [Id -> Outcome]
  <2>1. outcome \in [Id -> Outcome] /\ "requestFailed" \in Outcome
        /\ "silent" \in Outcome
    BY DEF Typed, TypeOK, Outcome
  <2>2. ASSUME NEW r \in Id
        PROVE  (CASE r \in ToSet(paused) -> "requestFailed"
                  [] r = id              -> "silent"
                  [] OTHER               -> outcome[r]) \in Outcome
    BY <2>1, Zenon
  <2> QED BY <2>2 DEF LoginRejected, FailPaused
<1>4. paused' = << >> /\ UNCHANGED <<timers, tokenStale, meta, switches>>
  BY DEF LoginRejected
<1>6. paused' \in Seq(Id)
  BY <1>4
<1>7. refreshing' \in BOOLEAN
  BY Zenon DEF LoginRejected
<1>5. net' \in Net /\ Cardinality(net'.pending) <= Limit
  BY <1>1 DEF Sound
<1> QED BY <1>2, <1>3, <1>4, <1>5, <1>6, <1>7
       DEF Typed, TypeOK, PendingBound, Net

\* The replies that end with a signal and the next request.
LEMMA FinishingTyped ==
  ASSUME Typed, NEW id \in Id,
         \/ FailedReply(id)
         \/ LoginExpired(id)
         \/ LoginNoToken(id)
         \/ TerminalCode(id)
         \/ Uploaded(id)
  PROVE  Typed'
<1>1. PICK how \in Outcome : Finish(id, how)
  BY DEF FailedReply, LoginExpired, LoginNoToken, TerminalCode, Uploaded, Outcome
<1>2. refreshing' \in BOOLEAN
  BY DEF FailedReply, LoginExpired, LoginNoToken, TerminalCode, Uploaded,
         Typed, TypeOK
<1> QED BY <1>1, <1>2, FinishTyped

\* The types and the bound hold in every reachable state.
THEOREM TypedInvariant == Spec => []Typed
<1>1. Init => Typed
  BY InitTyped
<1>2. Typed /\ [Next]_vars => Typed'
  <2> SUFFICES ASSUME Typed, [Next]_vars PROVE Typed'
    OBVIOUS
  <2>1. ASSUME NEW r \in Req, Request(r) PROVE Typed'
    BY <2>1, RequestTyped
  <2>2. ASSUME NEW l \in LoginId, SetOperateType(l) PROVE Typed'
    BY <2>2, SetOperateTypeTyped
  <2>3. CASE ExpireToken
    BY <2>3, ExpireTokenTyped
  <2>4. ASSUME NEW id \in Id, TimeoutAbort(id) PROVE Typed'
    BY <2>4, TimeoutAbortTyped
  <2>5. ASSUME NEW id \in Id, RetryTimer(id) PROVE Typed'
    BY <2>5, RetryTyped
  <2>6. ASSUME NEW id \in Id, ReplyFinished(id) PROVE Typed'
    BY <2>6, RetryTyped, FinishingTyped, PauseExpiredTyped, LoginTokenTyped,
       LoginRejectedTyped DEF ReplyFinished
  <2>7. CASE UNCHANGED vars
    BY <2>7 DEF vars, Typed, TypeOK, PendingBound
  <2> QED BY <2>1, <2>2, <2>3, <2>4, <2>5, <2>6, <2>7 DEF Next
<1> QED BY <1>1, <1>2, PTL DEF Spec

\* Every variable keeps its type.
THEOREM TypeCorrect == Spec => []TypeOK
<1>1. Typed => TypeOK
  BY DEF Typed
<1> QED BY <1>1, TypedInvariant, PTL

\* However retries, timers, replays and new requests interleave, at most
\* concurrencyLimit requests are in flight.
THEOREM PendingBounded == Spec => []PendingBound
<1>1. Typed => PendingBound
  BY DEF Typed
<1> QED BY <1>1, TypedInvariant, PTL
-----------------------------------------------------------------------------
(* Sequences without repeats.                                              *)

\* Appending a new element adds it to the set and repeats none.
LEMMA AppendSet ==
  ASSUME NEW S, NEW q \in Seq(S), NEW e \in S
  PROVE  /\ ToSet(Append(q, e)) = ToSet(q) \cup {e}
         /\ NoRepeats(q) /\ e \notin ToSet(q) => NoRepeats(Append(q, e))
<1>1. /\ Len(q) \in Nat /\ DOMAIN q = 1 .. Len(q)
      /\ DOMAIN Append(q, e) = 1 .. Len(q) + 1
      /\ \A i \in 1 .. Len(q) : Append(q, e)[i] = q[i]
      /\ Append(q, e)[Len(q) + 1] = e
  OBVIOUS
<1>2. \A i \in 1 .. Len(q) + 1 : i \in 1 .. Len(q) \/ i = Len(q) + 1
  BY <1>1, SMT
<1>3. 1 .. Len(q) \subseteq 1 .. Len(q) + 1 /\ Len(q) + 1 \in 1 .. Len(q) + 1
  BY <1>1, SMT
<1>4. ToSet(Append(q, e)) = ToSet(q) \cup {e}
  BY <1>1, <1>2, <1>3, Zenon DEF ToSet
<1>5. ASSUME NoRepeats(q), e \notin ToSet(q)
      PROVE  NoRepeats(Append(q, e))
  BY <1>1, <1>2, <1>5, Zenon DEF ToSet, NoRepeats
<1> QED BY <1>4, <1>5

\* Two sequences one after the other.
LEMMA ConcatSet ==
  ASSUME NEW S, NEW q \in Seq(S), NEW t \in Seq(S)
  PROVE  /\ ToSet(q \o t) = ToSet(q) \cup ToSet(t)
         /\ NoRepeats(q) /\ NoRepeats(t) /\ ToSet(q) \cap ToSet(t) = {}
              => NoRepeats(q \o t)
<1>1. /\ Len(q) \in Nat /\ DOMAIN q = 1 .. Len(q)
      /\ Len(t) \in Nat /\ DOMAIN t = 1 .. Len(t)
      /\ DOMAIN (q \o t) = 1 .. Len(q) + Len(t)
      /\ \A i \in 1 .. Len(q) : (q \o t)[i] = q[i]
      /\ \A i \in 1 .. Len(q) + Len(t) :
           i > Len(q) => (q \o t)[i] = t[i - Len(q)]
  OBVIOUS
<1>2. \A i \in 1 .. Len(q) + Len(t) :
        \/ i \in 1 .. Len(q) /\ (q \o t)[i] = q[i]
        \/ i - Len(q) \in 1 .. Len(t) /\ (q \o t)[i] = t[i - Len(q)]
  BY <1>1, SMT
<1>3. \A i \in 1 .. Len(q) : i \in 1 .. Len(q) + Len(t)
  BY <1>1, SMT
<1>4. \A i \in 1 .. Len(t) : /\ i + Len(q) \in 1 .. Len(q) + Len(t)
                             /\ (q \o t)[i + Len(q)] = t[i]
  BY <1>1, SMT
<1>5. ToSet(q \o t) = ToSet(q) \cup ToSet(t)
  <2>1. ToSet(q \o t) \subseteq ToSet(q) \cup ToSet(t)
    BY <1>1, <1>2, Zenon DEF ToSet
  <2>2. ToSet(q) \subseteq ToSet(q \o t)
    BY <1>1, <1>3, Zenon DEF ToSet
  <2>3. ToSet(t) \subseteq ToSet(q \o t)
    <3> SUFFICES ASSUME NEW i \in 1 .. Len(t)
                 PROVE  t[i] \in ToSet(q \o t)
      BY <1>1, Zenon DEF ToSet
    <3> QED BY <1>1, <1>4, Zenon DEF ToSet
  <2> QED BY <2>1, <2>2, <2>3
<1>6. ASSUME NoRepeats(q), NoRepeats(t), ToSet(q) \cap ToSet(t) = {}
      PROVE  NoRepeats(q \o t)
  <2> SUFFICES ASSUME NEW i \in 1 .. Len(q) + Len(t),
                      NEW j \in 1 .. Len(q) + Len(t),
                      (q \o t)[i] = (q \o t)[j]
               PROVE  i = j
    BY <1>1, Zenon DEF NoRepeats
  <2>1. \A a \in 1 .. Len(q), b \in 1 .. Len(t) : q[a] # t[b]
    BY <1>1, <1>6, Zenon DEF ToSet
  <2>2. CASE i \in 1 .. Len(q) /\ j \in 1 .. Len(q)
    BY <1>1, <1>6, <2>2, Zenon DEF NoRepeats
  <2>3. CASE i - Len(q) \in 1 .. Len(t) /\ j - Len(q) \in 1 .. Len(t)
    <3>1. t[i - Len(q)] = t[j - Len(q)]
      BY <1>1, <2>3, SMT
    <3>2. i - Len(q) = j - Len(q)
      BY <1>1, <1>6, <2>3, <3>1 DEF NoRepeats
    <3> QED BY <1>1, <3>2, SMT
  <2> QED BY <1>2, <2>1, <2>2, <2>3, Zenon
<1> QED BY <1>5, <1>6

\* Taking the first k elements off a sequence without repeats.
LEMMA CutSet ==
  ASSUME NEW S, NEW q \in Seq(S), NEW k \in 0 .. Len(q), NoRepeats(q)
  PROVE  LET front == {q[i] : i \in 1 .. k}
             rest  == SubSeq(q, k + 1, Len(q))
         IN  /\ NoRepeats(rest)
             /\ front \cup ToSet(rest) = ToSet(q)
             /\ front \cap ToSet(rest) = {}
<1> DEFINE front == {q[i] : i \in 1 .. k}
           rest  == SubSeq(q, k + 1, Len(q))
<1>1. /\ Len(q) \in Nat /\ DOMAIN q = 1 .. Len(q) /\ k \in Nat /\ k <= Len(q)
      /\ DOMAIN rest = 1 .. Len(q) - k
      /\ \A i \in 1 .. Len(q) - k : rest[i] = q[i + k]
  <2>1. Len(q) \in Nat /\ DOMAIN q = 1 .. Len(q) /\ k \in Nat /\ k <= Len(q)
    OBVIOUS
  <2>2. /\ Len(rest) = Len(q) - k /\ rest \in Seq(S)
        /\ \A i \in 1 .. Len(q) - k : rest[i] = q[(k + 1) + i - 1]
    <3>1. /\ k + 1 \in Int /\ Len(q) \in Int
          /\ \A i \in (k + 1) .. Len(q) : q[i] \in S
      BY <2>1, SMT
    <3>2. /\ rest \in Seq(S)
          /\ Len(rest) = IF k + 1 <= Len(q) THEN Len(q) - (k + 1) + 1 ELSE 0
          /\ \A i \in 1 .. Len(q) - (k + 1) + 1 : rest[i] = q[(k + 1) + i - 1]
      BY <3>1, SubSeqProperties, SMT DEF rest
    <3>3. Len(q) - (k + 1) + 1 = Len(q) - k
      BY <2>1, SMT
    <3> HIDE DEF rest
    <3>4. (IF k + 1 <= Len(q) THEN Len(q) - (k + 1) + 1 ELSE 0) = Len(q) - k
      <4>1. CASE k + 1 <= Len(q)
        BY <2>1, <3>3, <4>1
      <4>2. CASE ~(k + 1 <= Len(q))
        <5> DEFINE length == Len(q)
        <5>2. length \in Nat /\ k \in Nat /\ k <= length /\ ~(k + 1 <= length)
          BY <2>1, <4>2
        <5> HIDE DEF length
        <5>1. length - k = 0
          BY <5>2, SMT
        <5> QED BY <4>2, <5>1 DEF length
      <4> QED BY <4>1, <4>2
    <3> QED BY <3>2, <3>3, <3>4
  <2>3. \A i \in 1 .. Len(q) - k : (k + 1) + i - 1 = i + k
    BY <2>1, SMT
  <2>4. DOMAIN rest = 1 .. Len(q) - k
    BY <2>2, LenProperties
  <2> HIDE DEF rest
  <2> QED BY <2>1, <2>2, <2>3, <2>4
<1> HIDE DEF rest, front
<1>2. \A i \in 1 .. Len(q) - k : i + k \in 1 .. Len(q) /\ i + k \notin 1 .. k
  BY <1>1, SMT
<1>3. \A i \in 1 .. Len(q) :
        i \in 1 .. k \/ (i - k \in 1 .. Len(q) - k /\ rest[i - k] = q[i])
  BY <1>1, SMT
<1>4. \A i \in 1 .. k : i \in 1 .. Len(q)
  BY <1>1, SMT
<1>5. NoRepeats(rest)
  <2> SUFFICES ASSUME NEW i \in 1 .. Len(q) - k, NEW j \in 1 .. Len(q) - k,
                      rest[i] = rest[j]
               PROVE  i = j
    BY <1>1, Zenon DEF NoRepeats
  <2>1. q[i + k] = q[j + k] /\ i + k \in 1 .. Len(q) /\ j + k \in 1 .. Len(q)
    BY <1>1, <1>2
  <2>2. i + k = j + k
    BY <1>1, <2>1, Zenon DEF NoRepeats
  <2> QED BY <1>1, <2>2, SMT
<1>6. front \cup ToSet(rest) \subseteq ToSet(q)
  BY <1>1, <1>2, <1>4, Zenon DEF ToSet, front
<1>7. ToSet(q) \subseteq front \cup ToSet(rest)
  BY <1>1, <1>3, Zenon DEF ToSet, front
<1>8. front \cap ToSet(rest) = {}
  <2>1. ASSUME NEW i \in 1 .. k, NEW j \in 1 .. Len(q) - k, q[i] = rest[j]
        PROVE  FALSE
    <3>1. i = j + k
      BY <1>1, <1>2, <1>4, <2>1, Zenon DEF NoRepeats
    <3> QED BY <1>1, <1>2, <3>1
  <2>2. ToSet(rest) = {rest[j] : j \in 1 .. Len(q) - k}
    BY <1>1, Zenon DEF ToSet
  <2> QED BY <2>1, <2>2, Zenon DEF front
<1>9. front \cup ToSet(rest) = ToSet(q)
  BY <1>6, <1>7, Zenon
<1> QED BY <1>5, <1>8, <1>9, Zenon DEF front, rest
-----------------------------------------------------------------------------
(* Where the operators on net put a request.                               *)

\* n holds what m held and the ids of S, but for what it dropped of S; what was
\* in flight in m still is, and nothing goes back into the queue.
Moved(m, n, S) ==
  /\ Proper(n)
  /\ m.pending \subseteq n.pending
  /\ n.pending \subseteq Held(m) \cup S
  /\ ToSet(n.queue) \subseteq ToSet(m.queue) \cup S
  /\ n.dropped \subseteq S
  /\ Held(n) = (Held(m) \cup S) \ n.dropped

\* The ids of a sequence of ids.
LEMMA ToSetType ==
  ASSUME NEW S, NEW q \in Seq(S)
  PROVE  ToSet(q) \in SUBSET S
BY DEF ToSet

\* A record is its own successor.
LEMMA MovedNot ==
  ASSUME NEW m, Proper(m), m.dropped = {}
  PROVE  Moved(m, m, {})
BY DEF Moved, Held

\* enqueueOrSend puts the request in flight, at the end of the queue, or drops
\* it, and moves nothing else.
LEMMA EnqueueOrSendMoved ==
  ASSUME NEW m, Sound(m), Proper(m), m.dropped = {},
         NEW id \in Id, id \notin Held(m)
  PROVE  Moved(m, EnqueueOrSend(m, id), {id})
<1> DEFINE n == EnqueueOrSend(m, id)
<1>1. m \in Net /\ m.queue \in Seq(Id)
  BY DEF Sound, Net
<1>2. CASE HasSlot(m.pending)
  <2>1. n = [m EXCEPT !.pending = m.pending \cup {id}]
    BY <1>2 DEF EnqueueOrSend
  <2>2. n.pending = m.pending \cup {id} /\ n.queue = m.queue /\ n.dropped = {}
    BY <1>1, <2>1 DEF Net
  <2> HIDE DEF n
  <2> QED BY <2>2, Zenon DEF Moved, Held, Proper, n
<1>3. CASE ~HasSlot(m.pending) /\ Len(m.queue) < MaxQueue
  <2>1. n = [m EXCEPT !.queue = Append(m.queue, id)]
    BY <1>3, Zenon DEF EnqueueOrSend
  <2>2. /\ n.pending = m.pending /\ n.queue = Append(m.queue, id)
        /\ n.dropped = {}
    BY <1>1, <2>1 DEF Net
  <2>3. ToSet(n.queue) = ToSet(m.queue) \cup {id} /\ NoRepeats(n.queue)
    <3>1. id \notin ToSet(m.queue) /\ NoRepeats(m.queue)
      BY DEF Held, Proper
    <3> HIDE DEF n
    <3> QED BY <1>1, <2>2, <3>1, AppendSet
  <2> HIDE DEF n
  <2> QED BY <2>2, <2>3, Zenon DEF Moved, Held, Proper, n
<1>4. CASE ~HasSlot(m.pending) /\ ~(Len(m.queue) < MaxQueue)
  <2>1. n = [m EXCEPT !.dropped = m.dropped \cup {id}]
    BY <1>4, Zenon DEF EnqueueOrSend
  <2>2. n.pending = m.pending /\ n.queue = m.queue /\ n.dropped = {id}
    BY <1>1, <2>1 DEF Net
  <2> HIDE DEF n
  <2> QED BY <2>2, Zenon DEF Moved, Held, Proper, n
<1> QED BY <1>2, <1>3, <1>4

\* tryStartNext moves the front of the queue into flight.
LEMMA TryStartNextMoved ==
  ASSUME NEW m, NEW n, NEW S, Sound(n), Moved(m, n, S)
  PROVE  Moved(m, TryStartNext(n), S)
<1> DEFINE k == Startable(n)
           front == {n.queue[i] : i \in 1 .. k}
           rest == SubSeq(n.queue, k + 1, Len(n.queue))
           s == TryStartNext(n)
<1>1. /\ n \in Net /\ n.queue \in Seq(Id)
      /\ Cardinality(n.pending) \in Nat /\ Cardinality(n.pending) <= Limit
  BY PendingFinite DEF Sound, Net
<1>2. k \in 0 .. Len(n.queue)
  BY <1>1, RequestAssumption, LenProperties, SMT DEF Startable
<1>3. /\ NoRepeats(rest)
      /\ front \cup ToSet(rest) = ToSet(n.queue)
      /\ front \cap ToSet(rest) = {}
  <2> HIDE DEF k
  <2> QED BY <1>1, <1>2, CutSet, Zenon DEF Moved, Proper
<1>4. s = [n EXCEPT !.pending = n.pending \cup front, !.queue = rest]
  BY DEF TryStartNext
<1> HIDE DEF front, rest, s, k
<1>5. /\ s.pending = n.pending \cup front /\ s.queue = rest
      /\ s.dropped = n.dropped
  BY <1>1, <1>4 DEF Net
<1>6. Proper(s)
  BY <1>3, <1>5, Zenon DEF Moved, Proper
<1>7. Held(s) = Held(n)
  BY <1>3, <1>5, Zenon DEF Held
<1>8. s.pending \subseteq Held(m) \cup S
  BY <1>3, <1>5, Zenon DEF Moved, Held
<1>9. ToSet(s.queue) \subseteq ToSet(m.queue) \cup S
  BY <1>3, <1>5, Zenon DEF Moved
<1>10. m.pending \subseteq s.pending
  BY <1>5, Zenon DEF Moved
<1> QED BY <1>5, <1>6, <1>7, <1>8, <1>9, <1>10, Zenon DEF Moved, s

\* What is left when the reply of id has been taken out.
LEMMA WithoutPlaces ==
  ASSUME NEW m, Sound(m), Proper(m), NEW id \in m.pending
  PROVE  LET n == Without(m, id)
         IN  /\ Sound(n) /\ Proper(n)
             /\ n.queue = m.queue /\ n.dropped = m.dropped
             /\ n.pending = m.pending \ {id}
             /\ Held(n) = Held(m) \ {id}
<1> DEFINE n == Without(m, id)
<1>1. id \in Id /\ m \in Net
  BY DEF Sound, Net
<1>2. Sound(n)
  BY <1>1, WithoutSound
<1>3. /\ n.queue = m.queue /\ n.dropped = m.dropped
      /\ n.pending = m.pending \ {id}
  BY <1>1 DEF Without, Net
<1> HIDE DEF n
<1>4. Proper(n) /\ Held(n) = Held(m) \ {id}
  BY <1>3, Zenon DEF Proper, Held
<1> QED BY <1>2, <1>3, <1>4, Zenon DEF n
-----------------------------------------------------------------------------
(* Every request in one place: each action keeps Placed.                   *)

\* The ids under way, from Placed's parts.
LEMMA PlacesHeld == Places = Held(net) \cup timers \cup ToSet(paused)
BY Zenon DEF Places, Held

\* The ids under way after a step that settles with n.
After(n) == Held(n) \cup timers' \cup ToSet(paused')

\* What a step has to show of the record it settles with: every id is in one
\* place of it, the timers and the paused requests, and what becomes of it says
\* whether it is in one.
Agrees(n, changed, how) ==
  /\ n \in Net /\ Proper(n)
  /\ NoRepeats(paused')
  /\ Held(n) \cap timers' = {}
  /\ Held(n) \cap ToSet(paused') = {}
  /\ timers' \cap ToSet(paused') = {}
  /\ n.dropped \cap After(n) = {}
  /\ \A id \in changed \ n.dropped : how = "live" <=> id \in After(n)
  /\ \A id \in Id \ (changed \cup n.dropped) : id \in Places <=> id \in After(n)

\* Settling with such a record keeps Placed.
LEMMA SettlePlaced ==
  ASSUME Placed, NEW n, NEW changed, NEW how,
         Settle(n, changed, how), Agrees(n, changed, how)
  PROVE  Placed'
<1>1. /\ net'.pending = n.pending /\ net'.queue = n.queue /\ net'.dropped = {}
  BY DEF Settle, Net, Agrees
<1>2. Held(net') = Held(n) /\ Proper(net')
  BY <1>1, Zenon DEF Held, Proper, Agrees
<1>3. Places' = After(n)
  BY <1>1, Zenon DEF Places, Held, After
<1>4. ASSUME NEW id \in Id
      PROVE  outcome'[id] = "live" <=> id \in Places'
  <2>1. outcome'[id] = CASE id \in n.dropped           -> "dropped"
                         [] id \in changed \ n.dropped -> how
                         [] OTHER                      -> outcome[id]
    BY Zenon DEF Settle
  <2>2. CASE id \in n.dropped
    <3>1. outcome'[id] = "dropped"
      BY <2>1, <2>2, Zenon
    <3>2. id \notin After(n)
      BY <2>2, Zenon DEF Agrees
    <3> QED BY <1>3, <3>1, <3>2
  <2>3. CASE id \in changed \ n.dropped
    <3>1. outcome'[id] = how
      BY <2>1, <2>3, Zenon
    <3> QED BY <1>3, <2>3, <3>1, Zenon DEF Agrees
  <2>4. CASE id \notin changed \cup n.dropped
    <3>1. outcome'[id] = outcome[id]
      BY <2>1, <2>4, Zenon
    <3> QED BY <1>3, <2>4, <3>1, Zenon DEF Placed, Agrees
  <2> QED BY <2>2, <2>3, <2>4, Zenon
<1> QED BY <1>1, <1>2, <1>4, Zenon DEF Placed, Agrees

\* What the invariants say of net itself.
LEMMA NetSound == ASSUME Typed, Placed
                  PROVE  Sound(net) /\ Proper(net) /\ net.dropped = {}
BY TypedSound DEF Placed

\* A request that is under way nowhere enters.
LEMMA EnterPlaced ==
  ASSUME Typed, Placed, NEW id \in Id, id \notin Places,
         Settle(EnqueueOrSend(net, id), {id}, "live"),
         UNCHANGED <<timers, paused>>
  PROVE  Placed'
<1> DEFINE n == EnqueueOrSend(net, id)
<1>1. id \notin Held(net) /\ id \notin timers /\ id \notin ToSet(paused)
  BY PlacesHeld, Zenon
<1>2. Moved(net, n, {id}) /\ n \in Net
  BY <1>1, NetSound, EnqueueOrSendMoved, EnqueueOrSendSound DEF Sound
<1> HIDE DEF n
<1>3. /\ Proper(n) /\ n.dropped \subseteq {id}
      /\ Held(n) = (Held(net) \cup {id}) \ n.dropped
  BY <1>2, Zenon DEF Moved
<1>4. /\ Held(n) \cap timers' = {} /\ Held(n) \cap ToSet(paused') = {}
      /\ timers' \cap ToSet(paused') = {} /\ NoRepeats(paused')
  BY <1>1, <1>3, Zenon DEF Placed
<1>5. n.dropped \cap After(n) = {}
  BY <1>1, <1>3, Zenon DEF After
<1>6. \A i \in {id} \ n.dropped : "live" = "live" <=> i \in After(n)
  BY <1>3, Zenon DEF After
<1>7. \A i \in Id \ ({id} \cup n.dropped) : i \in Places <=> i \in After(n)
  BY <1>3, PlacesHeld, Zenon DEF After
<1>8. Agrees(n, {id}, "live")
  BY <1>2, <1>3, <1>4, <1>5, <1>6, <1>7, Zenon DEF Agrees
<1> QED BY <1>8, SettlePlaced, Zenon DEF n

\* A new request is sent or queued.
LEMMA RequestPlaced ==
  ASSUME Typed, Placed, NEW r \in Req, Request(r)
  PROVE  Placed'
<1>1. r \in Id
  BY DEF Id
<1>2. r \notin Places
  BY <1>1 DEF Request, Placed
<1> QED BY <1>1, <1>2, EnterPlaced DEF Request

\* A new mode keeps every request in one place.
LEMMA SetOperateTypePlaced ==
  ASSUME Typed, Placed, NEW l \in LoginId, SetOperateType(l)
  PROVE  Placed'
<1>1. l \in Id /\ l \notin Places
  BY DEF Id, SetOperateType, FreeLogin
<1> QED BY <1>1, EnterPlaced DEF SetOperateType

\* Where a request in flight is not, and what is left without it.
LEMMA InFlight ==
  ASSUME Typed, Placed, NEW id \in net.pending
  PROVE  /\ id \in Id /\ id \in Places
         /\ id \notin timers /\ id \notin ToSet(paused)
         /\ id \notin ToSet(net.queue)
         /\ Sound(Without(net, id)) /\ Proper(Without(net, id))
         /\ Without(net, id).dropped = {}
         /\ Without(net, id).pending = net.pending \ {id}
         /\ Without(net, id).queue = net.queue
         /\ Held(Without(net, id)) = Held(net) \ {id}
<1>1. id \in Id
  BY DEF Typed, TypeOK
<1>2. id \in Held(net)
  BY DEF Held
<1>3. /\ id \in Places
      /\ id \notin timers /\ id \notin ToSet(paused) /\ id \notin ToSet(net.queue)
  BY <1>2, PlacesHeld, Zenon DEF Placed, Proper
<1> QED BY <1>1, <1>3, NetSound, WithoutPlaces

\* An abort after the timeout keeps every request in one place.
LEMMA TimeoutAbortPlaced ==
  ASSUME Typed, Placed, NEW id \in Id, TimeoutAbort(id)
  PROVE  Placed'
<1> DEFINE n == Without(net, id)
<1>1. id \in net.pending /\ paused' = paused
  BY DEF TimeoutAbort
<1>2. /\ n \in Net /\ Proper(n) /\ n.dropped = {} /\ Held(n) = Held(net) \ {id}
      /\ id \notin timers /\ id \notin ToSet(paused) /\ id \in Places
  BY <1>1, InFlight DEF Sound
<1>3. CASE timers' = timers \cup {id} /\ Settle(n, {}, "live")
  <2> HIDE DEF n
  <2>1. /\ Held(n) \cap timers' = {} /\ Held(n) \cap ToSet(paused') = {}
        /\ timers' \cap ToSet(paused') = {} /\ NoRepeats(paused')
    BY <1>1, <1>2, <1>3, Zenon DEF Placed
  <2>2. \A i \in Id : i \in Places <=> i \in After(n)
    BY <1>1, <1>2, <1>3, PlacesHeld, Zenon DEF After
  <2>3. Agrees(n, {}, "live")
    BY <1>2, <2>1, <2>2, Zenon DEF Agrees
  <2> QED BY <1>3, <2>3, SettlePlaced, Zenon
<1>4. CASE timers' = timers /\ Settle(n, {id}, "requestFailed")
  <2> HIDE DEF n
  <2>1. /\ Held(n) \cap timers' = {} /\ Held(n) \cap ToSet(paused') = {}
        /\ timers' \cap ToSet(paused') = {} /\ NoRepeats(paused')
    BY <1>1, <1>2, <1>4, Zenon DEF Placed
  <2>2. \A i \in Id \ {id} : i \in Places <=> i \in After(n)
    BY <1>1, <1>2, <1>4, PlacesHeld, Zenon DEF After
  <2>3. id \notin After(n)
    BY <1>1, <1>2, <1>4, Zenon DEF After
  <2>4. Agrees(n, {id}, "requestFailed")
    BY <1>2, <2>1, <2>2, <2>3 DEF Agrees
  <2> QED BY <1>4, <2>4, SettlePlaced, Zenon
<1> QED BY <1>3, <1>4 DEF TimeoutAbort
\* A request sent again.
LEMMA SendAgainMoved ==
  ASSUME NEW m, Sound(m), Proper(m), m.dropped = {},
         NEW id \in Id, id \notin Held(m)
  PROVE  Moved(m, SendAgain(m, id), {id}) /\ SendAgain(m, id) \in Net
<1>1. Moved(m, EnqueueOrSend(m, id), {id}) /\ Sound(EnqueueOrSend(m, id))
  BY EnqueueOrSendMoved, EnqueueOrSendSound
<1>2. Moved(m, TryStartNext(EnqueueOrSend(m, id)), {id})
  BY <1>1, TryStartNextMoved
<1>3. Sound(TryStartNext(EnqueueOrSend(m, id)))
  BY <1>1, TryStartNextSound
<1> QED BY <1>2, <1>3 DEF SendAgain, Sound

\* The next requests started.
LEMMA RestartMoved ==
  ASSUME NEW m, Sound(m), Proper(m), m.dropped = {}
  PROVE  Moved(m, TryStartNext(m), {}) /\ TryStartNext(m) \in Net
<1>1. Moved(m, m, {})
  BY MovedNot
<1>2. Moved(m, TryStartNext(m), {})
  BY <1>1, TryStartNextMoved
<1> QED BY <1>2, TryStartNextSound DEF Sound

\* A retry that is due keeps every request in one place.
LEMMA RetryTimerPlaced ==
  ASSUME Typed, Placed, NEW id \in Id, RetryTimer(id)
  PROVE  Placed'
<1> DEFINE n == SendAgain(net, id)
<1>1. /\ id \in timers /\ timers' = timers \ {id} /\ paused' = paused
      /\ Settle(n, {}, "live")
  BY DEF RetryTimer
<1>2. id \notin Held(net) /\ id \notin ToSet(paused)
  BY <1>1, Zenon DEF Placed
<1>3. Moved(net, n, {id}) /\ n \in Net
  BY <1>2, NetSound, SendAgainMoved
<1> HIDE DEF n
<1>4. /\ Proper(n) /\ n.dropped \subseteq {id}
      /\ Held(n) = (Held(net) \cup {id}) \ n.dropped
  BY <1>3, Zenon DEF Moved
<1>5. /\ Held(n) \cap timers' = {} /\ Held(n) \cap ToSet(paused') = {}
      /\ timers' \cap ToSet(paused') = {} /\ NoRepeats(paused')
  BY <1>1, <1>2, <1>4, Zenon DEF Placed
<1>6. n.dropped \cap After(n) = {}
  BY <1>1, <1>2, <1>4, Zenon DEF After
<1>7. \A i \in Id \ n.dropped : i \in Places <=> i \in After(n)
  BY <1>1, <1>4, PlacesHeld, Zenon DEF After
<1>8. Agrees(n, {}, "live")
  BY <1>3, <1>4, <1>5, <1>6, <1>7, Zenon DEF Agrees
<1> QED BY <1>1, <1>8, SettlePlaced, Zenon

\* An error that is tried again keeps every request in one place.
LEMMA NetworkErrorRetryPlaced ==
  ASSUME Typed, Placed, NEW id \in Id, NetworkErrorRetry(id)
  PROVE  Placed'
<1> DEFINE w == Without(net, id)
           n == SendAgain(w, id)
<1>1. /\ id \in net.pending /\ UNCHANGED <<timers, paused>>
      /\ Settle(n, {}, "live")
  BY DEF NetworkErrorRetry
<1>2. /\ Sound(w) /\ Proper(w) /\ w.dropped = {} /\ Held(w) = Held(net) \ {id}
      /\ id \notin timers /\ id \notin ToSet(paused) /\ id \in Places
  BY <1>1, InFlight
<1> HIDE DEF w
<1>3. Moved(w, n, {id}) /\ n \in Net
  BY <1>2, SendAgainMoved
<1> HIDE DEF n
<1>4. /\ Proper(n) /\ n.dropped \subseteq {id}
      /\ Held(n) = (Held(w) \cup {id}) \ n.dropped
  BY <1>3, Zenon DEF Moved
<1>5. /\ Held(n) \cap timers' = {} /\ Held(n) \cap ToSet(paused') = {}
      /\ timers' \cap ToSet(paused') = {} /\ NoRepeats(paused')
  BY <1>1, <1>2, <1>4, Zenon DEF Placed
<1>6. n.dropped \cap After(n) = {}
  BY <1>1, <1>2, <1>4, Zenon DEF After
<1>7. \A i \in Id \ n.dropped : i \in Places <=> i \in After(n)
  BY <1>1, <1>2, <1>4, PlacesHeld, Zenon DEF After
<1>8. Agrees(n, {}, "live")
  BY <1>3, <1>4, <1>5, <1>6, <1>7, Zenon DEF Agrees
<1> QED BY <1>1, <1>8, SettlePlaced, Zenon

\* What a reply that only ends leaves behind.
LEMMA EndMoved ==
  ASSUME Typed, Placed, NEW id \in net.pending,
         NEW n, n = TryStartNext(Without(net, id))
  PROVE  /\ n \in Net /\ Proper(n) /\ n.dropped = {}
         /\ Held(n) = Held(net) \ {id}
         /\ n.pending \subseteq net.pending \cup ToSet(net.queue)
         /\ ToSet(n.queue) \subseteq ToSet(net.queue)
         /\ id \notin n.pending
<1> DEFINE w == Without(net, id)
<1>1. /\ Sound(w) /\ Proper(w) /\ w.dropped = {} /\ Held(w) = Held(net) \ {id}
      /\ w.queue = net.queue
  BY InFlight
<1> HIDE DEF w
<1>2. Moved(w, TryStartNext(w), {}) /\ TryStartNext(w) \in Net
  BY <1>1, RestartMoved
<1>3. n = TryStartNext(w)
  BY DEF w
<1>4. Moved(w, n, {}) /\ n \in Net
  BY <1>2, <1>3
<1>5. Held(n) = Held(net) \ {id} /\ n.dropped = {} /\ Proper(n)
  BY <1>1, <1>4, Zenon DEF Moved
<1>6. ToSet(n.queue) \subseteq ToSet(net.queue)
  BY <1>1, <1>4, Zenon DEF Moved
<1>7. n.pending \subseteq Held(net) \ {id}
  BY <1>5, Zenon DEF Held
<1> QED BY <1>4, <1>5, <1>6, <1>7, Zenon DEF Held

\* A request that ends keeps every request in one place.
LEMMA FinishPlaced ==
  ASSUME Typed, Placed, NEW id \in net.pending, NEW how, how # "live",
         Finish(id, how)
  PROVE  Placed'
<1>1. PICK n : n = TryStartNext(Without(net, id)) /\ Settle(n, {id}, how)
  BY DEF Finish
<1>2. UNCHANGED <<timers, paused>>
  BY DEF Finish
<1>3. n \in Net /\ Proper(n) /\ n.dropped = {} /\ Held(n) = Held(net) \ {id}
  BY <1>1, EndMoved
<1>4. id \notin timers /\ id \notin ToSet(paused)
  BY InFlight
<1>5. /\ Held(n) \cap timers' = {} /\ Held(n) \cap ToSet(paused') = {}
      /\ timers' \cap ToSet(paused') = {} /\ NoRepeats(paused')
  BY <1>2, <1>3, Zenon DEF Placed
<1>6. id \notin After(n)
  BY <1>2, <1>3, <1>4, Zenon DEF After
<1>7. \A i \in Id \ {id} : i \in Places <=> i \in After(n)
  BY <1>2, <1>3, PlacesHeld, Zenon DEF After
<1>8. Agrees(n, {id}, how)
  BY <1>3, <1>5, <1>6, <1>7, Zenon DEF Agrees
<1> QED BY <1>1, <1>8, SettlePlaced, Zenon

\* A request that finds its token expired keeps every request in one place.
LEMMA PauseExpiredPlaced ==
  ASSUME Typed, Placed, NEW id \in Id, PauseExpired(id)
  PROVE  Placed'
<1> DEFINE w == Without(net, id)
<1>1. id \in net.pending /\ paused' = Append(paused, id) /\ timers' = timers
  BY DEF PauseExpired
<1>2. /\ Sound(w) /\ Proper(w) /\ w.dropped = {} /\ Held(w) = Held(net) \ {id}
      /\ id \notin timers /\ id \notin ToSet(paused) /\ id \in Places
  BY <1>1, InFlight
<1>3. ToSet(paused') = ToSet(paused) \cup {id} /\ NoRepeats(paused')
  <2>1. paused \in Seq(Id) /\ NoRepeats(paused)
    BY DEF Typed, TypeOK, Placed
  <2> HIDE DEF w
  <2> QED BY <1>1, <1>2, <2>1, AppendSet
<1>4. ASSUME NEW l \in LoginId, FreeLogin(l),
             Settle(TryStartNext(EnqueueOrSend(w, l)), {l}, "live")
      PROVE  Placed'
  <2> DEFINE n == SendAgain(w, l)
  <2>1. l \in Id /\ l \notin Places /\ l # id
    BY <1>2, <1>4 DEF FreeLogin, Id
  <2>2. l \notin Held(w) /\ l \notin timers /\ l \notin ToSet(paused)
    BY <1>2, <2>1, PlacesHeld, Zenon
  <2> HIDE DEF w
  <2>3. Moved(w, n, {l}) /\ n \in Net
    BY <1>2, <2>1, <2>2, SendAgainMoved
  <2>4. Settle(n, {l}, "live")
    BY <1>4 DEF SendAgain
  <2> HIDE DEF n
  <2>5. /\ Proper(n) /\ n.dropped \subseteq {l}
        /\ Held(n) = (Held(w) \cup {l}) \ n.dropped
    BY <2>3, Zenon DEF Moved
  <2>6. /\ Held(n) \cap timers' = {} /\ Held(n) \cap ToSet(paused') = {}
        /\ timers' \cap ToSet(paused') = {} /\ NoRepeats(paused')
    <3>1. Held(n) \cap timers' = {}
      BY <1>1, <1>2, <2>2, <2>5, Zenon DEF Placed
    <3>2. Held(n) \cap ToSet(paused') = {}
      BY <1>2, <1>3, <2>1, <2>2, <2>5, Zenon DEF Placed
    <3>3. timers' \cap ToSet(paused') = {}
      BY <1>1, <1>2, <1>3, Zenon DEF Placed
    <3> QED BY <1>3, <3>1, <3>2, <3>3
  <2>7. n.dropped \cap After(n) = {}
    BY <1>1, <1>3, <2>1, <2>2, <2>5, Zenon DEF After
  <2>8. \A i \in {l} \ n.dropped : "live" = "live" <=> i \in After(n)
    BY <2>5, Zenon DEF After
  <2>9. \A i \in Id \ ({l} \cup n.dropped) : i \in Places <=> i \in After(n)
    BY <1>1, <1>2, <1>3, <2>5, PlacesHeld, Zenon DEF After
  <2>10. Agrees(n, {l}, "live")
    BY <2>3, <2>5, <2>6, <2>7, <2>8, <2>9, Zenon DEF Agrees
  <2> QED BY <2>4, <2>10, SettlePlaced, Zenon
<1>5. ASSUME Settle(TryStartNext(w), {}, "live")
      PROVE  Placed'
  <2> DEFINE n == TryStartNext(w)
  <2>1. n \in Net /\ Proper(n) /\ n.dropped = {} /\ Held(n) = Held(net) \ {id}
    BY <1>1, EndMoved
  <2> HIDE DEF n, w
  <2>2. /\ Held(n) \cap timers' = {} /\ Held(n) \cap ToSet(paused') = {}
        /\ timers' \cap ToSet(paused') = {} /\ NoRepeats(paused')
    BY <1>1, <1>2, <1>3, <2>1, Zenon DEF Placed
  <2>3. \A i \in Id : i \in Places <=> i \in After(n)
    BY <1>1, <1>2, <1>3, <2>1, PlacesHeld, Zenon DEF After
  <2>4. Agrees(n, {}, "live")
    BY <2>1, <2>2, <2>3, Zenon DEF Agrees
  <2> QED BY <1>5, <2>4, SettlePlaced, Zenon DEF n
<1> QED BY <1>4, <1>5 DEF PauseExpired

\* A login that brings a token keeps every request in one place.
LEMMA LoginTokenPlaced ==
  ASSUME Typed, Placed, NEW l \in Id, LoginToken(l)
  PROVE  Placed'
<1> DEFINE w == Without(net, l)
           m == [w EXCEPT !.queue = w.queue \o paused]
           n == TryStartNext(m)
<1>1. /\ l \in net.pending /\ paused' = << >> /\ timers' = timers
      /\ Settle(n, {l}, "silent")
  BY DEF LoginToken
<1>2. /\ Sound(w) /\ Proper(w) /\ w.dropped = {} /\ Held(w) = Held(net) \ {l}
      /\ w.queue = net.queue
      /\ l \notin timers /\ l \notin ToSet(paused)
  BY <1>1, InFlight
<1> HIDE DEF w
<1>3. /\ w \in Net /\ w.queue \in Seq(Id) /\ paused \in Seq(Id)
      /\ w.queue \o paused \in Seq(Id)
  BY <1>2 DEF Sound, Net, Typed, TypeOK
<1>4. /\ ToSet(w.queue \o paused) = ToSet(w.queue) \cup ToSet(paused)
      /\ NoRepeats(w.queue \o paused)
  <2>1. /\ NoRepeats(w.queue) /\ NoRepeats(paused)
        /\ ToSet(w.queue) \cap ToSet(paused) = {}
    BY <1>2, Zenon DEF Placed, Proper, Held
  <2> QED BY <1>3, <2>1, ConcatSet
<1>5. /\ m \in Net /\ m.queue = w.queue \o paused /\ m.pending = w.pending
      /\ m.dropped = {}
  BY <1>2, <1>3 DEF Net
<1>6. Sound(m)
  BY <1>2, <1>5 DEF Sound
<1> HIDE DEF m
<1>7. Proper(m) /\ Held(m) = Held(w) \cup ToSet(paused)
  BY <1>2, <1>4, <1>5, Zenon DEF Proper, Held, Placed
<1>8. Moved(m, n, {}) /\ n \in Net
  BY <1>5, <1>6, <1>7, RestartMoved
<1> HIDE DEF n
<1>9. Proper(n) /\ n.dropped = {} /\ Held(n) = Held(w) \cup ToSet(paused)
  BY <1>7, <1>8, Zenon DEF Moved
<1>10. ToSet(paused') = {} /\ NoRepeats(paused')
  BY <1>1 DEF ToSet, NoRepeats
<1>11. /\ Held(n) \cap timers' = {} /\ Held(n) \cap ToSet(paused') = {}
       /\ timers' \cap ToSet(paused') = {}
  <2>1. Held(net) \cap timers = {} /\ timers \cap ToSet(paused) = {}
    BY Zenon DEF Placed
  <2>2. Held(n) \cap timers' = {}
    BY <1>1, <1>2, <1>9, <2>1, Zenon
  <2> QED BY <1>10, <2>2
<1>12. l \notin After(n)
  BY <1>1, <1>2, <1>9, <1>10, Zenon DEF After
<1>13. \A i \in Id \ {l} : i \in Places <=> i \in After(n)
  BY <1>1, <1>2, <1>9, <1>10, PlacesHeld, Zenon DEF After
<1>14. Agrees(n, {l}, "silent")
  BY <1>8, <1>9, <1>10, <1>11, <1>12, <1>13 DEF Agrees
<1> QED BY <1>1, <1>14, SettlePlaced, Zenon

\* A login that is rejected keeps every request in one place.
LEMMA LoginRejectedPlaced ==
  ASSUME Typed, Placed, NEW id \in Id, LoginRejected(id)
  PROVE  Placed'
<1>1. PICK n : n = TryStartNext(Without(net, id)) /\ net' = n
  BY DEF LoginRejected, FailPaused
<1>2. /\ id \in net.pending /\ paused' = << >> /\ timers' = timers
  BY DEF LoginRejected, AnsweredAsLogin
<1>3. n \in Net /\ Proper(n) /\ n.dropped = {} /\ Held(n) = Held(net) \ {id}
  BY <1>1, <1>2, EndMoved
<1>4. id \notin timers /\ id \notin ToSet(paused)
  BY <1>2, InFlight
<1>5. ToSet(paused') = {} /\ NoRepeats(paused')
  BY <1>2 DEF ToSet, NoRepeats
<1>6. Places' = (Held(net) \ {id}) \cup timers
  BY <1>1, <1>2, <1>3, <1>5, Zenon DEF Places, Held
<1>7. ASSUME NEW r \in Id
      PROVE  outcome'[r] = "live" <=> r \in Places'
  <2>1. outcome'[r] = CASE r \in ToSet(paused) -> "requestFailed"
                        [] r = id              -> "silent"
                        [] OTHER               -> outcome[r]
    BY Zenon DEF LoginRejected, FailPaused
  <2>2. CASE r \in ToSet(paused)
    <3>0. r # id
      BY <1>4, <2>2
    <3>1. outcome'[r] = "requestFailed"
      BY <2>1, <2>2, <3>0, Zenon
    <3>2. r \notin Places'
      BY <1>6, <2>2, Zenon DEF Placed
    <3> QED BY <3>1, <3>2
  <2>3. CASE r = id
    <3>1. outcome'[r] = "silent"
      BY <1>4, <2>1, <2>3, Zenon
    <3>2. r \notin Places'
      BY <1>4, <1>6, <2>3, Zenon
    <3> QED BY <3>1, <3>2
  <2>4. CASE r \notin ToSet(paused) /\ r # id
    <3>1. outcome'[r] = outcome[r]
      BY <2>1, <2>4, Zenon
    <3>2. r \in Places <=> r \in Places'
      BY <1>6, <2>4, PlacesHeld, Zenon
    <3> QED BY <3>1, <3>2, Zenon DEF Placed
  <2> QED BY <2>2, <2>3, <2>4, Zenon
<1> QED BY <1>1, <1>2, <1>3, <1>5, <1>7, Zenon DEF Placed

\* A token that expires keeps every request in one place.
LEMMA ExpireTokenPlaced ==
  ASSUME Placed, ExpireToken
  PROVE  Placed'
BY Zenon DEF Placed, Places, ExpireToken

\* The replies that end with a signal and the next request.
LEMMA FinishingPlaced ==
  ASSUME Typed, Placed, NEW id \in Id,
         \/ FailedReply(id)
         \/ LoginExpired(id)
         \/ LoginNoToken(id)
         \/ TerminalCode(id)
         \/ Uploaded(id)
  PROVE  Placed'
<1>1. /\ id \in net.pending
      /\ \E how : how # "live" /\ Finish(id, how)
  BY DEF FailedReply, LoginExpired, LoginNoToken, TerminalCode, Uploaded,
         AnsweredAsLogin, Answered
<1> QED BY <1>1, FinishPlaced

\* At first no request is anywhere.
LEMMA InitPlaced == Init => Placed
<1> SUFFICES ASSUME Init PROVE Placed
  OBVIOUS
<1>1. net.queue = << >> /\ net.pending = {} /\ net.dropped = {}
      /\ timers = {} /\ paused = << >>
  BY DEF Init
<1>2. ToSet(<< >>) = {} /\ NoRepeats(<< >>)
  BY DEF ToSet, NoRepeats
<1>3. Places = {} /\ Held(net) = {}
  BY <1>1, <1>2 DEF Places, Held
<1>4. \A id \in Id : outcome[id] = "new"
  BY DEF Init
<1> QED BY <1>1, <1>2, <1>3, <1>4 DEF Placed, Proper

\* Every id that is under way is in one place, and no other is in any.
THEOREM PlacedInvariant == Spec => []Placed
<1>1. Init => Placed
  BY InitPlaced
<1>2. Typed /\ Placed /\ [Next]_vars => Placed'
  <2> SUFFICES ASSUME Typed, Placed, [Next]_vars PROVE Placed'
    OBVIOUS
  <2>1. ASSUME NEW r \in Req, Request(r) PROVE Placed'
    BY <2>1, RequestPlaced
  <2>2. ASSUME NEW l \in LoginId, SetOperateType(l) PROVE Placed'
    BY <2>2, SetOperateTypePlaced
  <2>3. CASE ExpireToken
    BY <2>3, ExpireTokenPlaced
  <2>4. ASSUME NEW id \in Id, TimeoutAbort(id) PROVE Placed'
    BY <2>4, TimeoutAbortPlaced
  <2>5. ASSUME NEW id \in Id, RetryTimer(id) PROVE Placed'
    BY <2>5, RetryTimerPlaced
  <2>6. ASSUME NEW id \in Id, ReplyFinished(id) PROVE Placed'
    BY <2>6, NetworkErrorRetryPlaced, FinishingPlaced, PauseExpiredPlaced,
       LoginTokenPlaced, LoginRejectedPlaced DEF ReplyFinished
  <2>7. CASE UNCHANGED vars
    BY <2>7, Zenon DEF vars, Placed, Places
  <2> QED BY <2>1, <2>2, <2>3, <2>4, <2>5, <2>6, <2>7 DEF Next
<1> QED BY <1>1, <1>2, TypedInvariant, PTL DEF Spec

\* No handler loses a request, keeps one in two places, or brings back one that
\* was settled, however errors, aborts, timers and logins interleave.
THEOREM EachInOnePlace == Spec => []OnePlace
<1>1. Typed /\ Placed => OnePlace
  <2> SUFFICES ASSUME Typed, Placed PROVE OnePlace
    OBVIOUS
  <2>1. net.queue \in Seq(Id) /\ paused \in Seq(Id)
    BY DEF Typed, TypeOK
  <2>2. /\ NoRepeats(net.queue) /\ NoRepeats(paused)
        /\ ToSet(net.queue) \cap ToSet(paused) = {}
        /\ ToSet(net.queue) \cap net.pending = {}
        /\ ToSet(net.queue) \cap timers = {}
        /\ ToSet(paused) \cap net.pending = {}
        /\ ToSet(paused) \cap timers = {}
        /\ net.pending \cap timers = {}
    BY Zenon DEF Placed, Proper, Held
  <2>3. /\ NoRepeats(net.queue \o paused)
        /\ ToSet(net.queue \o paused) = ToSet(net.queue) \cup ToSet(paused)
    BY <2>1, <2>2, ConcatSet
  <2>4. ToSet(net.queue \o paused) \cap (net.pending \cup timers) = {}
    BY <2>2, <2>3, Zenon
  <2>5. \A r \in Req : outcome[r] = "live" <=> r \in Places
    BY Zenon DEF Placed, Id
  <2> QED BY <2>2, <2>3, <2>4, <2>5, Zenon DEF OnePlace
<1> QED BY <1>1, TypedInvariant, PlacedInvariant, PTL
-----------------------------------------------------------------------------
(* The refresh flag and the logins.                                        *)

Tracked(out) ==
  \E l \in LoginId : out[l] \in {"live", "requestFailed", "dropped"}

\* No business request is a login.
LEMMA LoginIsNoRequest == \A l \in LoginId : l \in Id /\ l \notin Req
BY RequestAssumption DEF Id

\* Settling leaves a login tracked, unless it is one that changes to something
\* else.
LEMMA SettleTracked ==
  ASSUME Tracked(outcome), NEW n, NEW changed, NEW how,
         Settle(n, changed, how),
         \/ how \in {"live", "requestFailed", "dropped"}
         \/ changed \cap LoginId = {}
  PROVE  Tracked(outcome')
<1>1. PICK l \in LoginId : outcome[l] \in {"live", "requestFailed", "dropped"}
  BY DEF Tracked
<1>2. outcome'[l] = CASE l \in n.dropped           -> "dropped"
                      [] l \in changed \ n.dropped -> how
                      [] OTHER                     -> outcome[l]
  BY LoginIsNoRequest DEF Settle
<1>3. CASE l \in n.dropped
  BY <1>2, <1>3, Zenon DEF Tracked
<1>4. CASE l \in changed \ n.dropped
  BY <1>2, <1>4, Zenon DEF Tracked
<1>5. CASE l \notin changed \cup n.dropped
  BY <1>1, <1>2, <1>5, Zenon DEF Tracked
<1> QED BY <1>3, <1>4, <1>5, Zenon

\* A login that is started is tracked, even when it finds no room.
LEMMA StartTracked ==
  ASSUME NEW n, NEW l \in LoginId, Settle(n, {l}, "live")
  PROVE  Tracked(outcome')
<1>1. outcome'[l] = CASE l \in n.dropped       -> "dropped"
                      [] l \in {l} \ n.dropped -> "live"
                      [] OTHER                 -> outcome[l]
  BY LoginIsNoRequest DEF Settle
<1>2. outcome'[l] \in {"live", "dropped"}
  BY <1>1, Zenon
<1> QED BY <1>2, Zenon DEF Tracked

\* No handler takes the tag off a login.
LEMMA LoginTagKept ==
  ASSUME Typed, \A l \in LoginId : meta[l].login, [Next]_vars
  PROVE  \A l \in LoginId : meta'[l].login
<1> SUFFICES ASSUME NEW l \in LoginId PROVE meta'[l].login
  OBVIOUS
<1>1. l \in Id /\ l \notin Req /\ meta[l].login /\ meta[l] \in Meta
      /\ meta \in [Id -> Meta]
  BY LoginIsNoRequest DEF Typed, TypeOK
<1>2. LoginMeta.login
  BY DEF LoginMeta, NewMeta
<1>3. ASSUME NEW r \in Req, Request(r) PROVE meta'[l].login
  BY <1>1, <1>3 DEF Request
<1>4. ASSUME NEW k \in LoginId, SetOperateType(k) PROVE meta'[l].login
  BY <1>1, <1>2, <1>4 DEF SetOperateType
<1>5. CASE ExpireToken
  BY <1>1, <1>5 DEF ExpireToken
<1>6. ASSUME NEW id \in Id, TimeoutAbort(id) \/ NetworkErrorRetry(id)
      PROVE  meta'[l].login
  <2>1. meta' = meta \/ meta' = [meta EXCEPT ![id].retries = @ - 1]
    BY <1>6 DEF TimeoutAbort, NetworkErrorRetry
  <2> QED BY <1>1, <2>1 DEF Meta
<1>7. ASSUME NEW id \in Id, PauseExpired(id) PROVE meta'[l].login
  <2>1. \/ meta' = [meta EXCEPT ![id].retried = TRUE]
        \/ \E k \in LoginId :
             meta' = [meta EXCEPT ![id].retried = TRUE, ![k] = LoginMeta]
    BY <1>7 DEF PauseExpired
  <2>2. CASE meta' = [meta EXCEPT ![id].retried = TRUE]
    BY <1>1, <2>2 DEF Meta
  <2>3. ASSUME NEW k \in LoginId,
               meta' = [meta EXCEPT ![id].retried = TRUE, ![k] = LoginMeta]
        PROVE  meta'[l].login
    <3> DEFINE marked == [meta EXCEPT ![id].retried = TRUE]
    <3>1. marked \in [Id -> Meta] /\ marked[l].login
      BY <1>1 DEF Meta
    <3>2. meta' = [marked EXCEPT ![k] = LoginMeta]
      BY <2>3
    <3> HIDE DEF marked
    <3> QED BY <1>1, <1>2, <3>1, <3>2
  <2> QED BY <2>1, <2>2, <2>3
<1>8. ASSUME NEW id \in Id, LoginToken(id) PROVE meta'[l].login
  <2>1. meta'[l] = IF l \in ToSet(paused)
                   THEN [meta[l] EXCEPT !.retries = ReplayRetries, !.login = TRUE]
                   ELSE meta[l]
    BY <1>1, <1>8 DEF LoginToken
  <2> QED BY <1>1, <2>1 DEF Meta
<1>9. ASSUME NEW id \in Id,
             \/ RetryTimer(id) \/ FailedReply(id) \/ LoginExpired(id)
             \/ LoginNoToken(id) \/ LoginRejected(id) \/ TerminalCode(id)
             \/ Uploaded(id)
      PROVE  meta'[l].login
  <2>1. meta' = meta
    BY <1>9 DEF RetryTimer, FailedReply, LoginExpired, LoginNoToken,
       LoginRejected, TerminalCode, Uploaded, Finish
  <2> QED BY <1>1, <2>1
<1>10. CASE UNCHANGED vars
  BY <1>1, <1>10 DEF vars
<1> QED BY <1>3, <1>4, <1>5, <1>6, <1>7, <1>8, <1>9, <1>10
    DEF Next, ReplyFinished

\* While the flag stays set, a login stays tracked.
LEMMA FlagTracked ==
  ASSUME Typed, LoginTracked, [Next]_vars, refreshing'
  PROVE  Tracked(outcome')
<1>1. refreshing => Tracked(outcome)
  BY DEF LoginTracked, Tracked
<1>2. ASSUME NEW r \in Req, Request(r) PROVE Tracked(outcome')
  BY <1>1, <1>2, SettleTracked DEF Request
<1>3. ASSUME NEW k \in LoginId, SetOperateType(k) PROVE Tracked(outcome')
  BY <1>3, StartTracked DEF SetOperateType
<1>4. CASE ExpireToken \/ UNCHANGED vars
  BY <1>1, <1>4 DEF ExpireToken, vars
<1>5. ASSUME NEW id \in Id,
             TimeoutAbort(id) \/ RetryTimer(id) \/ NetworkErrorRetry(id)
      PROVE  Tracked(outcome')
  <2>1. refreshing
    BY <1>5 DEF TimeoutAbort, RetryTimer, NetworkErrorRetry
  <2>2. \E n, changed, how : /\ Settle(n, changed, how)
                             /\ how \in {"live", "requestFailed", "dropped"}
    BY <1>5 DEF TimeoutAbort, RetryTimer, NetworkErrorRetry
  <2> QED BY <1>1, <2>1, <2>2, SettleTracked
<1>6. ASSUME NEW id \in Id, FailedReply(id) PROVE Tracked(outcome')
  <2>1. refreshing /\ \E n : Settle(n, {id}, "requestFailed")
    BY <1>6 DEF FailedReply, Finish
  <2> QED BY <1>1, <2>1, SettleTracked
<1>7. ASSUME NEW id \in Id, TerminalCode(id) \/ Uploaded(id)
      PROVE  Tracked(outcome')
  <2>1. ~meta[id].login
    BY <1>7 DEF TerminalCode, Uploaded, Answered
  <2>2. {id} \cap LoginId = {}
    BY <2>1 DEF LoginTracked
  <2>3. refreshing /\ \E n, how : Settle(n, {id}, how)
    BY <1>7 DEF TerminalCode, Uploaded, Finish
  <2> QED BY <1>1, <2>2, <2>3, SettleTracked
<1>8. ASSUME NEW id \in Id,
             \/ LoginExpired(id) \/ LoginToken(id)
             \/ LoginNoToken(id) \/ LoginRejected(id)
      PROVE  Tracked(outcome')
  BY <1>8 DEF LoginExpired, LoginToken, LoginNoToken, LoginRejected
<1>9. ASSUME NEW id \in Id, PauseExpired(id) PROVE Tracked(outcome')
  <2>1. CASE ~refreshing
    <3>1. \E n : \E k \in LoginId : Settle(n, {k}, "live")
      BY <1>9, <2>1 DEF PauseExpired, NeedsRefresh
    <3> QED BY <3>1, StartTracked
  <2>2. CASE refreshing
    <3>1. \E n : Settle(n, {}, "live")
      BY <1>9, <2>2 DEF PauseExpired, NeedsRefresh
    <3> QED BY <1>1, <2>2, <3>1, SettleTracked
  <2> QED BY <2>1, <2>2
<1> QED BY <1>2, <1>3, <1>4, <1>5, <1>6, <1>7, <1>8, <1>9
    DEF Next, ReplyFinished

\* The logins keep their tag, and the flag is set for one of them.
THEOREM LoginTrackedInvariant == Spec => []LoginTracked
<1>1. Init => LoginTracked
  <2> SUFFICES ASSUME Init PROVE LoginTracked
    OBVIOUS
  <2>1. ASSUME NEW l \in LoginId PROVE meta[l].login
    <3> DEFINE tag == l \in LoginId
    <3>1. tag \in BOOLEAN /\ tag
      OBVIOUS
    <3>2. meta[l] = NewMeta(0, FALSE, tag)
      BY LoginIsNoRequest, Zenon DEF Init
    <3> HIDE DEF tag
    <3>3. NewMeta(0, FALSE, tag).login = tag
      BY <3>1, NewMetaLogin
    <3> QED BY <3>1, <3>2, <3>3, Zenon
  <2> QED BY <2>1, Zenon DEF Init, LoginTracked
<1>2. Typed /\ LoginTracked /\ [Next]_vars => LoginTracked'
  <2> SUFFICES ASSUME Typed, LoginTracked, [Next]_vars PROVE LoginTracked'
    OBVIOUS
  <2>1. \A l \in LoginId : meta'[l].login
    BY LoginTagKept DEF LoginTracked
  <2>2. refreshing' => Tracked(outcome')
    BY FlagTracked
  <2> QED BY <2>1, <2>2 DEF LoginTracked, Tracked
<1> QED BY <1>1, <1>2, TypedInvariant, PTL DEF Spec

\* While the refresh flag is set a login is under way, unless one failed with an
\* error or found no room.
THEOREM RefreshAlwaysHasLogin == Spec => []RefreshHasLogin
<1>1. Placed /\ LoginTracked => RefreshHasLogin
  <2> SUFFICES ASSUME Placed, LoginTracked, refreshing PROVE RefreshHasLogin
    BY DEF RefreshHasLogin
  <2>1. PICK l \in LoginId : outcome[l] \in {"live", "requestFailed", "dropped"}
    BY DEF LoginTracked
  <2>2. outcome[l] = "live" => l \in LiveLogins
    BY LoginIsNoRequest DEF Placed, LiveLogins
  <2> QED BY <2>1, <2>2 DEF RefreshHasLogin
<1> QED BY <1>1, PlacedInvariant, LoginTrackedInvariant, PTL
-----------------------------------------------------------------------------
(* How often a request is posted.                                          *)

\* The numbers a budget is made of.
LEMMA BudgetType ==
  ASSUME Typed, NEW r \in Req
  PROVE  /\ r \in Id
         /\ posts[r] \in Nat /\ meta[r].retries \in Nat
         /\ meta[r].retried \in BOOLEAN
         /\ MaxRetries \in Nat /\ ReplayRetries \in Nat
         /\ Budget(r) \in Nat
         /\ meta[r].retried => Budget(r) = MaxRetries + 1 + ReplayRetries + 1
         /\ ~meta[r].retried => Budget(r) = MaxRetries + 1
<1>1. r \in Id /\ posts[r] \in Nat /\ meta[r] \in Meta
  BY DEF Typed, TypeOK, Id
<1>2. meta[r].retries \in Nat /\ meta[r].retried \in BOOLEAN
  BY <1>1 DEF Meta
<1>3. MaxRetries \in Nat /\ ReplayRetries \in Nat
  BY RequestAssumption
<1>4. CASE meta[r].retried
  BY <1>1, <1>2, <1>3, <1>4 DEF Budget
<1>5. CASE ~meta[r].retried
  BY <1>1, <1>2, <1>3, <1>5 DEF Budget
<1> QED BY <1>4, <1>5

\* What a step that settles with n does to a request it is not about: it may
\* move on from the queue or from its timer, and is posted when it gets into
\* flight.
Stays(r, n) ==
  /\ meta'[r].retries = meta[r].retries
  /\ meta'[r].retried = meta[r].retried
  /\ meta'[r].login = meta[r].login
  /\ r \in n.pending => r \in Held(net) \cup timers
  /\ r \in ToSet(n.queue) => r \in ToSet(net.queue) \cup timers
  /\ r \in timers' => r \in timers
  /\ r \in ToSet(paused') => r \in ToSet(paused)
  /\ outcome'[r] = "new" => outcome[r] = "new"
  /\ net'.pending = n.pending
  /\ net'.queue = n.queue
  /\ posts'[r] = IF r \in n.pending /\ r \notin net.pending
                 THEN posts[r] + 1 ELSE posts[r]

\* Such a request stays within its budget.
LEMMA StaysWithinBudget ==
  ASSUME Typed, Placed, Placed',
         NEW r \in Req, WithinBudget(r), NEW n, Stays(r, n)
  PROVE  WithinBudget(r)'
<1>1. /\ r \in Id
      /\ posts[r] \in Nat /\ meta[r].retries \in Nat /\ Budget(r) \in Nat
  BY BudgetType
<1>2. Budget(r)' = Budget(r)
  BY DEF Stays, Budget
<1>3. CASE r \in n.pending /\ r \notin net.pending
  <2>1. posts'[r] = posts[r] + 1
    BY <1>3 DEF Stays
  <2>2. r \in ToSet(net.queue) \cup timers
    BY <1>3, Zenon DEF Stays, Held
  <2>3. posts[r] + meta[r].retries + 1 <= Budget(r)
    BY <2>2 DEF WithinBudget
  <2>4. posts'[r] + meta'[r].retries <= Budget(r)' /\ posts'[r] <= Budget(r)'
    BY <1>1, <1>2, <2>1, <2>3, SMT DEF Stays
  <2>5. outcome'[r] # "new"
    <3>1. r \in Places
      BY <2>2, Zenon DEF Places
    <3>2. outcome[r] = "live"
      BY <1>1, <3>1, Zenon DEF Placed
    <3> QED BY <3>2 DEF Stays
  <2>6. meta'[r].retried => meta'[r].login
    BY <2>2, Zenon DEF Stays, WithinBudget, Held
  <2>7. r \in net'.pending
    BY <1>3, Zenon DEF Stays
  <2>8. r \notin ToSet(net'.queue) \cup timers' /\ r \notin ToSet(paused')
    BY <2>7, Zenon DEF Placed, Proper, Held
  <2> QED BY <2>4, <2>5, <2>6, <2>8, Zenon DEF WithinBudget
<1>4. CASE ~(r \in n.pending /\ r \notin net.pending)
  BY <1>2, <1>4, Zenon DEF Stays, WithinBudget, Held
<1> QED BY <1>3, <1>4
\* What settling and counting say of a request the step is not about.
LEMMA SettleStays ==
  ASSUME NEW r \in Req, NEW n, n \in Net, NEW changed, NEW how, how # "new",
         Settle(n, changed, how)
  PROVE  /\ outcome'[r] = "new" => outcome[r] = "new"
         /\ net'.pending = n.pending /\ net'.queue = n.queue
<1>1. net'.pending = n.pending /\ net'.queue = n.queue
  BY DEF Settle, Net
<1>2. outcome'[r] = CASE r \in n.dropped           -> "dropped"
                      [] r \in changed \ n.dropped -> how
                      [] OTHER                     -> outcome[r]
  BY DEF Settle, Id
<1>3. CASE r \in n.dropped
  <2>1. outcome'[r] = "dropped"
    BY <1>2, <1>3, Zenon
  <2> QED BY <1>1, <2>1
<1>4. CASE r \in changed \ n.dropped
  <2>1. outcome'[r] = how
    BY <1>2, <1>4, Zenon
  <2> QED BY <1>1, <2>1
<1>5. CASE r \notin changed \cup n.dropped
  <2>1. outcome'[r] = outcome[r]
    BY <1>2, <1>5, Zenon
  <2> QED BY <1>1, <2>1
<1> QED BY <1>3, <1>4, <1>5, Zenon

\* A request is sent once more when it joins those in flight.
LEMMA CountStays ==
  ASSUME NEW r \in Req, NEW n, NEW again, CountPosts(n, again), r \notin again
  PROVE  posts'[r] = IF r \in n.pending /\ r \notin net.pending
                     THEN posts[r] + 1 ELSE posts[r]
BY DEF CountPosts

\* A request in place somewhere has been made.
LEMMA InPlaceMade ==
  ASSUME Placed, NEW r \in Req, r \in Places
  PROVE  outcome[r] # "new"
<1>1. outcome[r] = "live"
  BY Zenon DEF Placed, Id
<1> QED BY <1>1

\* A request that enters, or a login, leaves the others where they were or lets
\* them move on.
LEMMA EnterStays ==
  ASSUME Typed, Placed, NEW id \in Id, id \notin Places,
         NEW n, n = EnqueueOrSend(net, id),
         Settle(n, {id}, "live"), CountPosts(n, {}),
         UNCHANGED <<timers, paused>>,
         NEW r \in Req, r # id, meta'[r] = meta[r]
  PROVE  Stays(r, n)
<1>1. id \notin Held(net)
  BY PlacesHeld, Zenon
<1>2. Moved(net, n, {id}) /\ n \in Net
  BY <1>1, NetSound, EnqueueOrSendMoved, EnqueueOrSendSound DEF Sound
<1>3. /\ outcome'[r] = "new" => outcome[r] = "new"
      /\ net'.pending = n.pending /\ net'.queue = n.queue
  BY <1>2, SettleStays
<1>4. posts'[r] = IF r \in n.pending /\ r \notin net.pending
                  THEN posts[r] + 1 ELSE posts[r]
  BY CountStays
<1>5. /\ r \in n.pending => r \in Held(net) \cup timers
      /\ r \in ToSet(n.queue) => r \in ToSet(net.queue) \cup timers
  BY <1>2, Zenon DEF Moved
<1> QED BY <1>3, <1>4, <1>5, Zenon DEF Stays

\* A new request has all its retries.
LEMMA RequestBudget ==
  ASSUME Typed, Placed, Typed', Placed', Budgeted, NEW q \in Req, Request(q)
  PROVE  Budgeted'
<1> DEFINE n == EnqueueOrSend(net, q)
<1>1. q \in Id /\ outcome[q] = "new"
  BY DEF Id, Request
<1>2. q \notin Places
  BY <1>1 DEF Placed
<1>3. /\ Settle(n, {q}, "live") /\ CountPosts(n, {})
      /\ UNCHANGED <<timers, paused>>
      /\ meta' = [meta EXCEPT ![q] = NewMeta(MaxRetries, tokenStale, FALSE)]
  BY DEF Request
<1> SUFFICES ASSUME NEW r \in Req PROVE WithinBudget(r)'
  BY DEF Budgeted
<1>4. CASE r # q
  <2>1. meta'[r] = meta[r]
    BY <1>3, <1>4 DEF Typed, TypeOK, Id
  <2>2. Stays(r, n)
    <3> HIDE DEF n
    <3>1. n = EnqueueOrSend(net, q)
      BY DEF n
    <3> QED BY <1>1, <1>2, <1>3, <1>4, <2>1, <3>1, EnterStays
  <2> QED BY <2>2, StaysWithinBudget DEF Budgeted
<1>5. CASE r = q
  <2>1. meta'[q] = NewMeta(MaxRetries, tokenStale, FALSE)
    BY <1>1, <1>3 DEF Typed, TypeOK
  <2>2. meta'[q].retries = MaxRetries /\ ~meta'[q].retried
    BY <2>1 DEF NewMeta
  <2>3. posts[q] = 0
    BY <1>1 DEF Budgeted, WithinBudget
  <2>4. /\ posts'[q] \in Nat /\ MaxRetries \in Nat
        /\ Budget(q)' = MaxRetries + 1
    BY <2>2, RequestAssumption DEF Budget, Typed, TypeOK
  <2>5. n \in Net /\ q \notin net.pending
    <3>1. q \notin Held(net)
      BY <1>2, PlacesHeld, Zenon
    <3> QED BY <1>1, <3>1, NetSound, EnqueueOrSendSound DEF Sound, Held
  <2> HIDE DEF n
  <2>6. /\ net'.pending = n.pending /\ net'.queue = n.queue
    BY <1>3, <2>5 DEF Settle, Net
  <2>7. posts'[q] = IF q \in net'.pending THEN 1 ELSE 0
    BY <1>3, <2>3, <2>5, <2>6 DEF CountPosts
  <2>8. /\ q \notin timers' /\ q \notin ToSet(paused')
    BY <1>2, <1>3, Zenon DEF Places
  <2>9. CASE q \in net'.pending
    <3>1. q \in Places' /\ q \notin ToSet(net'.queue)
      BY <2>9, Zenon DEF Places, Placed, Proper
    <3>2. outcome'[q] # "new"
      BY <1>1, <3>1 DEF Placed
    <3>3. posts'[q] = 1
      BY <2>7, <2>9
    <3>4. posts'[q] <= Budget(q)' /\ posts'[q] + meta'[q].retries <= Budget(q)'
      BY <2>2, <2>4, <3>3, SMT
    <3>5. WithinBudget(q)'
      BY <2>2, <2>8, <3>1, <3>2, <3>4, Zenon DEF WithinBudget
    <3> QED BY <1>5, <3>5
  <2>10. CASE q \notin net'.pending
    <3>1. posts'[q] = 0
      BY <2>7, <2>10
    <3>2. posts'[q] <= Budget(q)' /\ posts'[q] + meta'[q].retries + 1 <= Budget(q)'
      BY <2>2, <2>4, <3>1, SMT
    <3>3. WithinBudget(q)'
      BY <2>2, <2>8, <2>10, <3>1, <3>2, Zenon DEF WithinBudget
    <3> QED BY <1>5, <3>3
  <2> QED BY <2>9, <2>10
<1> QED BY <1>4, <1>5

\* A new mode keeps the budget of retries.
LEMMA SetOperateTypeBudget ==
  ASSUME Typed, Placed, Placed', Budgeted, NEW l \in LoginId, SetOperateType(l)
  PROVE  Budgeted'
<1> DEFINE n == EnqueueOrSend(net, l)
<1>1. l \in Id /\ l \notin Places
  BY DEF Id, SetOperateType, FreeLogin
<1>2. /\ Settle(n, {l}, "live") /\ CountPosts(n, {})
      /\ UNCHANGED <<timers, paused>>
      /\ meta' = [meta EXCEPT ![l] = LoginMeta]
  BY DEF SetOperateType
<1> SUFFICES ASSUME NEW r \in Req PROVE WithinBudget(r)'
  BY DEF Budgeted
<1>3. r # l
  BY LoginIsNoRequest
<1>4. meta'[r] = meta[r]
  BY <1>2, <1>3 DEF Typed, TypeOK, Id
<1>5. n = EnqueueOrSend(net, l)
  OBVIOUS
<1> HIDE DEF n
<1>6. Stays(r, n)
  BY <1>1, <1>2, <1>3, <1>4, <1>5, EnterStays
<1> QED BY <1>6, StaysWithinBudget DEF Budgeted

\* A token that expires keeps the budget of retries.
LEMMA ExpireTokenBudget ==
  ASSUME Typed, Budgeted, ExpireToken
  PROVE  Budgeted'
<1> SUFFICES ASSUME NEW r \in Req PROVE WithinBudget(r)'
  BY DEF Budgeted
<1>1. /\ meta'[r].retries = meta[r].retries
      /\ meta'[r].retried = meta[r].retried
      /\ meta'[r].login = meta[r].login
  <2>1. r \in Id /\ meta[r] \in Meta
    BY DEF Typed, TypeOK, Id
  <2>2. meta'[r] = [meta[r] EXCEPT !.stale = TRUE] \/ meta'[r] = meta[r]
    BY <2>1 DEF ExpireToken
  <2> QED BY <2>1, <2>2 DEF Meta
<1>2. UNCHANGED <<net, timers, paused, outcome, posts>>
  BY DEF ExpireToken
<1>3. Budget(r)' = Budget(r)
  BY <1>1 DEF Budget
<1> QED BY <1>1, <1>2, <1>3 DEF Budgeted, WithinBudget, Held
\* One retry less.
LEMMA RetryUsedUp ==
  ASSUME Typed, NEW id \in Id, meta[id].retries > 0,
         meta' = [meta EXCEPT ![id].retries = @ - 1],
         NEW r \in Req
  PROVE  /\ meta'[r].retried = meta[r].retried
         /\ meta'[r].login = meta[r].login
         /\ r # id => meta'[r].retries = meta[r].retries
         /\ r = id => meta'[r].retries + 1 = meta[r].retries
         /\ meta'[r].retries \in Nat
<1>1. r \in Id /\ meta[r] \in Meta /\ meta \in [Id -> Meta]
  BY DEF Typed, TypeOK, Id
<1>2. CASE r # id
  BY <1>1, <1>2 DEF Meta
<1>3. CASE r = id
  <2>1. meta'[r] = [meta[r] EXCEPT !.retries = meta[r].retries - 1]
    BY <1>1, <1>3
  <2>2. meta[r].retries \in Nat /\ meta[r].retries > 0
    BY <1>1, <1>3 DEF Meta
  <2>3. /\ meta'[r].retries = meta[r].retries - 1
        /\ meta'[r].retried = meta[r].retried
        /\ meta'[r].login = meta[r].login
    BY <1>1, <2>1 DEF Meta
  <2>4. meta[r].retries - 1 + 1 = meta[r].retries /\ meta[r].retries - 1 \in Nat
    BY <2>2, SMT
  <2> QED BY <1>3, <2>3, <2>4
<1> QED BY <1>2, <1>3

\* An abort after the timeout keeps the budget of retries.
LEMMA TimeoutAbortBudget ==
  ASSUME Typed, Placed, Placed', Budgeted, NEW id \in Id, TimeoutAbort(id)
  PROVE  Budgeted'
<1> DEFINE n == Without(net, id)
<1>1. /\ id \in net.pending /\ UNCHANGED <<paused, posts>>
      /\ \E changed, how : how # "new" /\ Settle(n, changed, how)
  BY DEF TimeoutAbort
<1>2. /\ n \in Net /\ n.pending = net.pending \ {id} /\ n.queue = net.queue
      /\ id \notin timers /\ id \notin ToSet(paused) /\ id \notin ToSet(net.queue)
  BY <1>1, InFlight DEF Sound
<1>3. \/ /\ meta[id].retries > 0 /\ timers' = timers \cup {id}
         /\ meta' = [meta EXCEPT ![id].retries = @ - 1]
      \/ UNCHANGED <<timers, meta>>
  BY DEF TimeoutAbort
<1> HIDE DEF n
<1> SUFFICES ASSUME NEW r \in Req PROVE WithinBudget(r)'
  BY DEF Budgeted
<1>4. /\ outcome'[r] = "new" => outcome[r] = "new"
      /\ net'.pending = n.pending /\ net'.queue = n.queue
  BY <1>1, <1>2, SettleStays
<1>5. CASE UNCHANGED <<timers, meta>>
  <2>1. Stays(r, n)
    BY <1>1, <1>2, <1>4, <1>5, Zenon DEF Stays, Held
  <2> QED BY <2>1, StaysWithinBudget DEF Budgeted
<1>6. CASE /\ meta[id].retries > 0 /\ timers' = timers \cup {id}
           /\ meta' = [meta EXCEPT ![id].retries = @ - 1]
  <2>1. /\ meta'[r].retried = meta[r].retried
        /\ meta'[r].login = meta[r].login
        /\ r # id => meta'[r].retries = meta[r].retries
        /\ r = id => meta'[r].retries + 1 = meta[r].retries
        /\ meta'[r].retries \in Nat
    BY <1>6, RetryUsedUp
  <2>2. CASE r # id
    <3>1. Stays(r, n)
      BY <1>1, <1>2, <1>4, <1>6, <2>1, <2>2, Zenon DEF Stays, Held
    <3> QED BY <3>1, StaysWithinBudget DEF Budgeted
  <2>3. CASE r = id
    <3>1. posts[r] + meta[r].retries <= Budget(r) /\ WithinBudget(r)
      BY <1>1, <2>3 DEF Budgeted, WithinBudget
    <3>2. Budget(r)' = Budget(r) /\ posts'[r] = posts[r]
      BY <1>1, <2>1 DEF Budget
    <3>3. posts'[r] + meta'[r].retries + 1 <= Budget(r)'
      BY <2>1, <2>3, <3>1, <3>2, BudgetType, SMT
    <3>4. posts'[r] <= Budget(r)'
      BY <3>1, <3>2 DEF WithinBudget
    <3>5. outcome'[r] # "new"
      <4>1. r \in Places
        BY <1>1, <2>3, Zenon DEF Places
      <4> QED BY <1>4, <4>1, InPlaceMade
    <3>6. r \notin net'.pending /\ r \notin ToSet(paused')
      BY <1>1, <1>2, <1>4, <2>3
    <3>7. meta'[r].retried => meta'[r].login
      BY <1>1, <2>1, <2>3, <3>1, Zenon DEF WithinBudget, Held
    <3> QED BY <3>3, <3>4, <3>5, <3>6, <3>7, Zenon DEF WithinBudget
  <2> QED BY <2>2, <2>3
<1> QED BY <1>3, <1>5, <1>6

\* A retry that is due keeps the budget of retries.
LEMMA RetryTimerBudget ==
  ASSUME Typed, Placed, Placed', Budgeted, NEW id \in Id, RetryTimer(id)
  PROVE  Budgeted'
<1> DEFINE n == SendAgain(net, id)
<1>1. /\ id \in timers /\ timers' = timers \ {id} /\ UNCHANGED <<paused, meta>>
      /\ Settle(n, {}, "live") /\ CountPosts(n, {})
  BY DEF RetryTimer
<1>2. id \notin Held(net)
  BY <1>1, Zenon DEF Placed
<1>3. Moved(net, n, {id}) /\ n \in Net
  BY <1>2, NetSound, SendAgainMoved
<1> HIDE DEF n
<1> SUFFICES ASSUME NEW r \in Req PROVE WithinBudget(r)'
  BY DEF Budgeted
<1>4. /\ outcome'[r] = "new" => outcome[r] = "new"
      /\ net'.pending = n.pending /\ net'.queue = n.queue
  BY <1>1, <1>3, SettleStays
<1>5. posts'[r] = IF r \in n.pending /\ r \notin net.pending
                  THEN posts[r] + 1 ELSE posts[r]
  BY <1>1, CountStays
<1>6. /\ r \in n.pending => r \in Held(net) \cup timers
      /\ r \in ToSet(n.queue) => r \in ToSet(net.queue) \cup timers
  BY <1>1, <1>3, Zenon DEF Moved
<1>7. Stays(r, n)
  BY <1>1, <1>4, <1>5, <1>6, Zenon DEF Stays
<1> QED BY <1>7, StaysWithinBudget DEF Budgeted

\* An error that is tried again keeps the budget of retries.
LEMMA NetworkErrorRetryBudget ==
  ASSUME Typed, Placed, Placed', Budgeted, NEW id \in Id, NetworkErrorRetry(id)
  PROVE  Budgeted'
<1> DEFINE w == Without(net, id)
           n == SendAgain(w, id)
<1>1. /\ id \in net.pending /\ UNCHANGED <<timers, paused>>
      /\ Settle(n, {}, "live") /\ CountPosts(n, {id})
      /\ meta[id].retries > 0
      /\ meta' = [meta EXCEPT ![id].retries = @ - 1]
  BY DEF NetworkErrorRetry
<1>2. /\ Sound(w) /\ Proper(w) /\ w.dropped = {} /\ Held(w) = Held(net) \ {id}
      /\ w.queue = net.queue
      /\ id \notin timers /\ id \notin ToSet(paused)
  BY <1>1, InFlight
<1> HIDE DEF w
<1>3. Moved(w, n, {id}) /\ n \in Net
  BY <1>2, SendAgainMoved
<1> HIDE DEF n
<1> SUFFICES ASSUME NEW r \in Req PROVE WithinBudget(r)'
  BY DEF Budgeted
<1>4. /\ outcome'[r] = "new" => outcome[r] = "new"
      /\ net'.pending = n.pending /\ net'.queue = n.queue
  BY <1>1, <1>3, SettleStays
<1>5. /\ meta'[r].retried = meta[r].retried
      /\ meta'[r].login = meta[r].login
      /\ r # id => meta'[r].retries = meta[r].retries
      /\ r = id => meta'[r].retries + 1 = meta[r].retries
      /\ meta'[r].retries \in Nat
  BY <1>1, RetryUsedUp
<1>6. CASE r # id
  <2>1. posts'[r] = IF r \in n.pending /\ r \notin net.pending
                    THEN posts[r] + 1 ELSE posts[r]
    BY <1>1, <1>6, CountStays
  <2>2. /\ r \in n.pending => r \in Held(net) \cup timers
        /\ r \in ToSet(n.queue) => r \in ToSet(net.queue) \cup timers
    BY <1>2, <1>3, <1>6, Zenon DEF Moved
  <2>3. Stays(r, n)
    BY <1>1, <1>4, <1>5, <1>6, <2>1, <2>2, Zenon DEF Stays
  <2> QED BY <2>3, StaysWithinBudget DEF Budgeted
<1>7. CASE r = id
  <2>1. posts[r] + meta[r].retries <= Budget(r) /\ WithinBudget(r)
    BY <1>1, <1>7 DEF Budgeted, WithinBudget
  <2>2. Budget(r)' = Budget(r)
    BY <1>5 DEF Budget
  <2>3. posts'[r] = IF r \in net'.pending THEN posts[r] + 1 ELSE posts[r]
    BY <1>1, <1>4, <1>7 DEF CountPosts
  <2>4. posts'[r] + meta'[r].retries <= Budget(r)'
    BY <1>5, <1>7, <2>1, <2>2, <2>3, BudgetType, SMT
  <2>5. posts'[r] <= Budget(r)'
    BY <1>5, <1>7, <2>1, <2>2, <2>3, BudgetType, SMT
  <2>6. r \in ToSet(net'.queue) => r \notin net'.pending
    BY Zenon DEF Placed, Proper
  <2>7. r \in ToSet(net'.queue) \cup timers' =>
          posts'[r] + meta'[r].retries + 1 <= Budget(r)'
    <3> SUFFICES ASSUME r \in ToSet(net'.queue) \cup timers'
                 PROVE  posts'[r] + meta'[r].retries + 1 <= Budget(r)'
      OBVIOUS
    <3>1. r \notin net'.pending
      BY <1>1, <1>2, <1>7, <2>6
    <3>2. posts'[r] = posts[r]
      BY <2>3, <3>1
    <3> QED BY <1>5, <1>7, <2>1, <2>2, <3>2, BudgetType, SMT
  <2>8. outcome'[r] # "new" /\ r \notin ToSet(paused')
    <3>1. r \in Places
      BY <1>1, <1>7, Zenon DEF Places
    <3> QED BY <1>1, <1>2, <1>4, <1>7, <3>1, InPlaceMade
  <2>9. meta'[r].retried => meta'[r].login
    BY <1>1, <1>5, <1>7, <2>1, Zenon DEF WithinBudget, Held
  <2> QED BY <2>4, <2>5, <2>7, <2>8, <2>9, Zenon DEF WithinBudget
<1> QED BY <1>6, <1>7

\* A reply that only ends lets the others move on.
LEMMA FinishBudget ==
  ASSUME Typed, Placed, Placed', Budgeted, NEW id \in net.pending,
         NEW how, how # "new", Finish(id, how)
  PROVE  Budgeted'
<1>1. PICK n : /\ n = TryStartNext(Without(net, id)) /\ Settle(n, {id}, how)
               /\ CountPosts(n, {})
  BY DEF Finish
<1>2. UNCHANGED <<timers, paused, meta>>
  BY DEF Finish
<1>3. /\ n \in Net
      /\ n.pending \subseteq net.pending \cup ToSet(net.queue)
      /\ ToSet(n.queue) \subseteq ToSet(net.queue)
  BY <1>1, EndMoved
<1> SUFFICES ASSUME NEW r \in Req PROVE WithinBudget(r)'
  BY DEF Budgeted
<1>4. /\ outcome'[r] = "new" => outcome[r] = "new"
      /\ net'.pending = n.pending /\ net'.queue = n.queue
  BY <1>1, <1>3, SettleStays
<1>5. posts'[r] = IF r \in n.pending /\ r \notin net.pending
                  THEN posts[r] + 1 ELSE posts[r]
  BY <1>1, CountStays
<1>6. Stays(r, n)
  BY <1>2, <1>3, <1>4, <1>5, Zenon DEF Stays, Held
<1> QED BY <1>6, StaysWithinBudget DEF Budgeted

\* A reply that ends a request keeps the budget of retries.
LEMMA FinishingBudget ==
  ASSUME Typed, Placed, Placed', Budgeted, NEW id \in Id,
         \/ FailedReply(id)
         \/ LoginExpired(id)
         \/ LoginNoToken(id)
         \/ TerminalCode(id)
         \/ Uploaded(id)
  PROVE  Budgeted'
<1>1. /\ id \in net.pending
      /\ \E how : how # "new" /\ Finish(id, how)
  BY DEF FailedReply, LoginExpired, LoginNoToken, TerminalCode, Uploaded,
         AnsweredAsLogin, Answered
<1> QED BY <1>1, FinishBudget

\* A login that is rejected keeps the budget of retries.
LEMMA LoginRejectedBudget ==
  ASSUME Typed, Placed, Placed', Budgeted, NEW id \in Id, LoginRejected(id)
  PROVE  Budgeted'
<1>1. PICK n : n = TryStartNext(Without(net, id)) /\ net' = n /\ CountPosts(n, {})
  BY DEF LoginRejected, FailPaused
<1>2. id \in net.pending /\ paused' = << >> /\ UNCHANGED <<timers, meta>>
  BY DEF LoginRejected, AnsweredAsLogin
<1>3. /\ n.pending \subseteq net.pending \cup ToSet(net.queue)
      /\ ToSet(n.queue) \subseteq ToSet(net.queue)
  BY <1>1, <1>2, EndMoved
<1> SUFFICES ASSUME NEW r \in Req PROVE WithinBudget(r)'
  BY DEF Budgeted
<1>4. outcome'[r] = "new" => outcome[r] = "new"
  <2>1. outcome'[r] = CASE r \in ToSet(paused) -> "requestFailed"
                        [] r = id              -> "silent"
                        [] OTHER               -> outcome[r]
    BY DEF LoginRejected, FailPaused, Id
  <2>2. outcome'[r] \in {"requestFailed", "silent", outcome[r]}
    <3>1. CASE r \in ToSet(paused)
      <4>1. r # id
        BY <1>2, <3>1, InFlight
      <4> QED BY <2>1, <3>1, <4>1, Zenon
    <3>2. CASE r = id
      <4>1. r \notin ToSet(paused)
        BY <1>2, <3>2, InFlight
      <4> QED BY <2>1, <3>2, <4>1, Zenon
    <3>3. CASE r \notin ToSet(paused) /\ r # id
      BY <2>1, <3>3, Zenon
    <3> QED BY <3>1, <3>2, <3>3, Zenon
  <2> QED BY <2>2
<1>5. posts'[r] = IF r \in n.pending /\ r \notin net.pending
                  THEN posts[r] + 1 ELSE posts[r]
  BY <1>1, CountStays
<1>6. r \notin ToSet(paused')
  BY <1>2 DEF ToSet
<1>7. Stays(r, n)
  BY <1>1, <1>2, <1>3, <1>4, <1>5, <1>6, Zenon DEF Stays, Held
<1> QED BY <1>7, StaysWithinBudget DEF Budgeted
\* A request is paused with its second budget, which it has not touched, and
\* whatever is started in its place leaves the others within theirs.
LEMMA PausedBudget ==
  ASSUME Typed, Placed, Placed', Budgeted, NEW id \in net.pending,
         ~meta[id].login, paused' = Append(paused, id), timers' = timers,
         NEW n, n \in Net, NEW S \in SUBSET LoginId,
         Moved(Without(net, id), n, S),
         NEW changed, Settle(n, changed, "live"), CountPosts(n, {}),
         \A r \in Req : r # id => meta'[r] = meta[r],
         id \in Req => meta'[id].retried
  PROVE  Budgeted'
<1> DEFINE w == Without(net, id)
<1>1. /\ w.dropped = {} /\ Held(w) = Held(net) \ {id} /\ w.queue = net.queue
      /\ id \notin timers /\ id \notin ToSet(net.queue)
  BY InFlight
<1>2. ToSet(paused') = ToSet(paused) \cup {id} /\ id \in Id
  <2>1. paused \in Seq(Id) /\ id \in Id
    BY DEF Typed, TypeOK
  <2> QED BY <2>1, AppendSet
<1>3. Moved(w, n, S)
  OBVIOUS
<1> HIDE DEF w
<1> SUFFICES ASSUME NEW r \in Req PROVE WithinBudget(r)'
  BY DEF Budgeted
<1>4. /\ outcome'[r] = "new" => outcome[r] = "new"
      /\ net'.pending = n.pending /\ net'.queue = n.queue
  BY SettleStays
<1>5. posts'[r] = IF r \in n.pending /\ r \notin net.pending
                  THEN posts[r] + 1 ELSE posts[r]
  BY CountStays
<1>6. r \notin S
  BY LoginIsNoRequest
<1>7. CASE r # id
  <2>1. r \in ToSet(paused') => r \in ToSet(paused)
    BY <1>2, <1>7
  <2>2. /\ r \in n.pending => r \in Held(net) \cup timers
        /\ r \in ToSet(n.queue) => r \in ToSet(net.queue) \cup timers
    BY <1>1, <1>3, <1>6, Zenon DEF Moved
  <2>3. Stays(r, n)
    BY <1>4, <1>5, <1>7, <2>1, <2>2, Zenon DEF Stays
  <2> QED BY <2>3, StaysWithinBudget DEF Budgeted
<1>8. CASE r = id
  <2>1. r \in Held(net) /\ r \in Places
    BY <1>8, Zenon DEF Held, Places
  <2>2. WithinBudget(r) /\ ~meta[r].retried
    BY <1>8, <2>1, Zenon DEF Budgeted, WithinBudget
  <2>3. posts[r] <= MaxRetries + 1 /\ posts[r] \in Nat /\ MaxRetries \in Nat
        /\ ReplayRetries \in Nat
    BY <2>2, BudgetType DEF WithinBudget
  <2>4. r \in ToSet(paused') /\ meta'[r].retried
    BY <1>2, <1>8
  <2>5. /\ r \notin net'.pending /\ r \notin ToSet(net'.queue)
        /\ r \notin timers' /\ r \notin Held(net')
    BY <2>4, Zenon DEF Placed, Held
  <2>6. posts'[r] = posts[r]
    BY <1>4, <1>5, <2>5
  <2>7. Budget(r)' = MaxRetries + 1 + (ReplayRetries + 1)
    BY <2>4 DEF Budget
  <2>8. posts'[r] <= Budget(r)' /\ posts'[r] <= MaxRetries + 1
    BY <2>3, <2>6, <2>7, SMT
  <2>9. outcome'[r] # "new"
    BY <1>4, <2>1, InPlaceMade
  <2> QED BY <2>4, <2>5, <2>8, <2>9, Zenon DEF WithinBudget
<1> QED BY <1>7, <1>8

\* A request that finds its token expired keeps the budget of retries.
LEMMA PauseExpiredBudget ==
  ASSUME Typed, Placed, Placed', Budgeted, NEW id \in Id, PauseExpired(id)
  PROVE  Budgeted'
<1> DEFINE w == Without(net, id)
           marked == [meta EXCEPT ![id].retried = TRUE]
<1>1. /\ id \in net.pending /\ ~meta[id].login
      /\ paused' = Append(paused, id) /\ timers' = timers
  BY DEF PauseExpired
<1>2. /\ Sound(w) /\ Proper(w) /\ w.dropped = {} /\ Held(w) = Held(net) \ {id}
  BY <1>1, InFlight
<1>3. /\ marked \in [Id -> Meta] /\ marked[id].retried
      /\ \A r \in Id : r # id => marked[r] = meta[r]
  BY DEF Typed, TypeOK, Meta
<1> HIDE DEF w, marked
<1>4. ASSUME NEW l \in LoginId, FreeLogin(l),
             meta' = [marked EXCEPT ![l] = LoginMeta],
             Settle(TryStartNext(EnqueueOrSend(w, l)), {l}, "live"),
             CountPosts(TryStartNext(EnqueueOrSend(w, l)), {})
      PROVE  Budgeted'
  <2> DEFINE n == SendAgain(w, l)
  <2>1. l \in Id /\ l \notin Req /\ l \notin Places
    BY <1>4, LoginIsNoRequest DEF FreeLogin
  <2>2. l \notin Held(w)
    BY <1>2, <2>1, PlacesHeld, Zenon
  <2>3. Moved(w, n, {l}) /\ n \in Net /\ {l} \in SUBSET LoginId
    BY <1>2, <2>1, <2>2, SendAgainMoved
  <2>4. Settle(n, {l}, "live") /\ CountPosts(n, {})
    BY <1>4 DEF SendAgain
  <2>5. /\ \A r \in Req : r # id => meta'[r] = meta[r]
        /\ id \in Req => meta'[id].retried
    BY <1>3, <1>4, <2>1 DEF Id
  <2> HIDE DEF n
  <2> QED BY <1>1, <2>3, <2>4, <2>5, PausedBudget DEF w
<1>5. ASSUME meta' = marked, Settle(TryStartNext(w), {}, "live"),
             CountPosts(TryStartNext(w), {})
      PROVE  Budgeted'
  <2>1. Moved(w, TryStartNext(w), {}) /\ TryStartNext(w) \in Net
    BY <1>2, RestartMoved
  <2>2. {} \in SUBSET LoginId
    OBVIOUS
  <2>3. /\ \A r \in Req : r # id => meta'[r] = meta[r]
        /\ id \in Req => meta'[id].retried
    BY <1>3, <1>5 DEF Id
  <2> QED BY <1>1, <1>5, <2>1, <2>2, <2>3, PausedBudget DEF w
<1> QED BY <1>4, <1>5 DEF PauseExpired, w, marked

\* A login that brings a token keeps the budget of retries.
LEMMA LoginTokenBudget ==
  ASSUME Typed, Placed, Placed', Budgeted, NEW l \in Id, LoginToken(l)
  PROVE  Budgeted'
<1> DEFINE w == Without(net, l)
           m == [w EXCEPT !.queue = w.queue \o paused]
           n == TryStartNext(m)
<1>1. /\ l \in net.pending /\ paused' = << >> /\ timers' = timers
      /\ Settle(n, {l}, "silent") /\ CountPosts(n, {})
      /\ meta' = [id \in Id |->
                    IF id \in ToSet(paused)
                    THEN [meta[id] EXCEPT !.retries = ReplayRetries, !.login = TRUE]
                    ELSE meta[id]]
  BY DEF LoginToken
<1>2. /\ Sound(w) /\ Proper(w) /\ w.dropped = {} /\ Held(w) = Held(net) \ {l}
      /\ w.queue = net.queue /\ w.pending = net.pending \ {l}
  BY <1>1, InFlight
<1> HIDE DEF w
<1>3. /\ w \in Net /\ w.queue \in Seq(Id) /\ paused \in Seq(Id)
      /\ w.queue \o paused \in Seq(Id)
  BY <1>2 DEF Sound, Net, Typed, TypeOK
<1>4. /\ ToSet(w.queue \o paused) = ToSet(w.queue) \cup ToSet(paused)
      /\ NoRepeats(w.queue \o paused)
  <2>1. /\ NoRepeats(w.queue) /\ NoRepeats(paused)
        /\ ToSet(w.queue) \cap ToSet(paused) = {}
    BY <1>2, Zenon DEF Placed, Proper, Held
  <2> QED BY <1>3, <2>1, ConcatSet
<1>5. /\ m \in Net /\ m.queue = w.queue \o paused /\ m.pending = w.pending
      /\ m.dropped = {}
  BY <1>2, <1>3 DEF Net
<1>6. Sound(m)
  BY <1>2, <1>5 DEF Sound
<1> HIDE DEF m
<1>7. Proper(m) /\ Held(m) = Held(w) \cup ToSet(paused)
  BY <1>2, <1>4, <1>5, Zenon DEF Proper, Held, Placed
<1>8. Moved(m, n, {}) /\ n \in Net
  BY <1>5, <1>6, <1>7, RestartMoved
<1> HIDE DEF n
<1>9. ToSet(n.queue) \subseteq ToSet(net.queue) \cup ToSet(paused)
  BY <1>2, <1>4, <1>5, <1>8, Zenon DEF Moved
<1>10. n.pending \subseteq Held(net) \cup ToSet(paused)
  BY <1>2, <1>7, <1>8, Zenon DEF Moved
<1> SUFFICES ASSUME NEW r \in Req PROVE WithinBudget(r)'
  BY DEF Budgeted
<1>11. /\ outcome'[r] = "new" => outcome[r] = "new"
       /\ net'.pending = n.pending /\ net'.queue = n.queue
  BY <1>1, <1>8, SettleStays
<1>12. posts'[r] = IF r \in n.pending /\ r \notin net.pending
                   THEN posts[r] + 1 ELSE posts[r]
  BY <1>1, CountStays
<1>13. r \notin ToSet(paused')
  <2>1. ToSet(<< >>) = {}
    BY DEF ToSet
  <2> QED BY <1>1, <2>1
<1>14. CASE r \notin ToSet(paused)
  <2>1. meta'[r] = meta[r]
    BY <1>1, <1>14 DEF Id
  <2>2. Stays(r, n)
    BY <1>1, <1>9, <1>10, <1>11, <1>12, <1>13, <1>14, <2>1, Zenon DEF Stays, Held
  <2> QED BY <2>2, StaysWithinBudget DEF Budgeted
<1>15. CASE r \in ToSet(paused)
  <2>1. /\ posts[r] <= MaxRetries + 1 /\ meta[r].retried /\ posts[r] \in Nat
        /\ MaxRetries \in Nat /\ ReplayRetries \in Nat
    BY <1>15, BudgetType DEF Budgeted, WithinBudget
  <2>2. /\ meta'[r].retries = ReplayRetries /\ meta'[r].login
        /\ meta'[r].retried = meta[r].retried
    <3>1. r \in Id /\ meta[r] \in Meta
      BY DEF Id, Typed, TypeOK
    <3>2. meta'[r] = [meta[r] EXCEPT !.retries = ReplayRetries, !.login = TRUE]
      BY <1>1, <1>15, <3>1
    <3> QED BY <3>1, <3>2 DEF Meta
  <2>3. Budget(r)' = MaxRetries + 1 + (ReplayRetries + 1)
    BY <2>1, <2>2 DEF Budget
  <2>4. r \notin net.pending /\ r \in Places /\ r \notin timers'
    BY <1>1, <1>15, Zenon DEF Places, Placed, Held
  <2>5. outcome'[r] # "new"
    BY <1>11, <2>4, InPlaceMade
  <2>6. posts'[r] = IF r \in net'.pending THEN posts[r] + 1 ELSE posts[r]
    BY <1>11, <1>12, <2>4
  <2>7. posts'[r] + meta'[r].retries <= Budget(r)' /\ posts'[r] <= Budget(r)'
    BY <2>1, <2>2, <2>3, <2>6, SMT
  <2>8. ASSUME r \in ToSet(net'.queue)
        PROVE  posts'[r] + meta'[r].retries + 1 <= Budget(r)'
    <3>1. r \notin net'.pending
      BY <2>8, Zenon DEF Placed, Proper
    <3> QED BY <2>1, <2>2, <2>3, <2>6, <3>1, SMT
  <2> QED BY <1>13, <2>2, <2>4, <2>5, <2>7, <2>8, Zenon DEF WithinBudget
<1> QED BY <1>14, <1>15

\* At first nothing was sent.
LEMMA InitBudget == Init => Budgeted
<1> SUFFICES ASSUME Init, NEW r \in Req PROVE WithinBudget(r)
  BY DEF Budgeted
<1>1. /\ r \in Id /\ posts[r] = 0 /\ timers = {} /\ paused = << >>
      /\ net.pending = {} /\ net.queue = << >>
  BY DEF Init, Id
<1>2. ToSet(<< >>) = {}
  BY DEF ToSet
<1>3. Budget(r) \in Nat
  BY BudgetType, InitTyped
<1> QED BY <1>1, <1>2, <1>3 DEF WithinBudget, Held

\* What is left of the retries of every request is within its budget.
THEOREM BudgetedInvariant == Spec => []Budgeted
<1>1. Init => Budgeted
  BY InitBudget
<1>2. Typed /\ Placed /\ Typed' /\ Placed' /\ Budgeted /\ [Next]_vars => Budgeted'
  <2> SUFFICES ASSUME Typed, Placed, Typed', Placed', Budgeted, [Next]_vars
               PROVE  Budgeted'
    OBVIOUS
  <2>1. ASSUME NEW r \in Req, Request(r) PROVE Budgeted'
    BY <2>1, RequestBudget
  <2>2. ASSUME NEW l \in LoginId, SetOperateType(l) PROVE Budgeted'
    BY <2>2, SetOperateTypeBudget
  <2>3. CASE ExpireToken
    BY <2>3, ExpireTokenBudget
  <2>4. ASSUME NEW id \in Id, TimeoutAbort(id) PROVE Budgeted'
    BY <2>4, TimeoutAbortBudget
  <2>5. ASSUME NEW id \in Id, RetryTimer(id) PROVE Budgeted'
    BY <2>5, RetryTimerBudget
  <2>6. ASSUME NEW id \in Id, ReplyFinished(id) PROVE Budgeted'
    BY <2>6, NetworkErrorRetryBudget, FinishingBudget, PauseExpiredBudget,
       LoginTokenBudget, LoginRejectedBudget DEF ReplyFinished
  <2>7. CASE UNCHANGED vars
    BY <2>7, Zenon DEF vars, Budgeted, WithinBudget, Budget, Held
  <2> QED BY <2>1, <2>2, <2>3, <2>4, <2>5, <2>6, <2>7 DEF Next
<1> QED BY <1>1, <1>2, TypedInvariant, PlacedInvariant, PTL DEF Spec

\* However errors, aborts, expired tokens and logins interleave, a request is
\* posted at most once per retry it was given before and after its replay.
THEOREM RetriesBounded == Spec => []RetryBudget
<1>1. Budgeted => RetryBudget
  BY Zenon DEF Budgeted, WithinBudget, RetryBudget, Budget
<1> QED BY <1>1, BudgetedInvariant, PTL
-----------------------------------------------------------------------------
(* What the scheduler promises.  Each handler is shown to do to every      *)
(* request what RequestDesk allows; Placed says that a request which ended *)
(* is in no place, and so neither posted nor ended again.                  *)

\* A request goes on, is taken or refused, is answered or fails in flight, or
\* is given up where it waits.
Ends(r) ==
  \/ outcome'[r] = outcome[r]
  \/ outcome[r] = "new" /\ outcome'[r] \in {"live", "dropped"}
  \/ /\ r \in net.pending
     /\ outcome'[r] \in {"slotResult", "silent", "requestFailed"}
  \/ /\ r \in Places \ net.pending
     /\ outcome'[r] \in {"requestFailed", "dropped"}

\* A request that goes into flight is counted, and no other.
Counts(r) ==
  /\ r \notin net'.pending => posts'[r] = posts[r]
  /\ r \in net'.pending =>
       \/ posts'[r] = posts[r] + 1
       \/ r \in net.pending /\ posts'[r] = posts[r]

Promised(r) == Ends(r) /\ Counts(r)

\* A step that settles, drops only what enters, and changes what enters to
\* "live" or what is in flight to an end, ends requests as promised.
LEMMA SettleEnds ==
  ASSUME NEW r \in Req, NEW n, NEW changed, NEW how, Settle(n, changed, how),
         r \in n.dropped => outcome[r] = "new" \/ r \in Places \ net.pending,
         r \in changed =>
           \/ outcome[r] = "new" /\ how = "live"
           \/ r \in net.pending /\ how \in {"slotResult", "silent", "requestFailed"}
  PROVE  Ends(r)
<1>1. outcome'[r] = CASE r \in n.dropped           -> "dropped"
                      [] r \in changed \ n.dropped -> how
                      [] OTHER                     -> outcome[r]
  BY DEF Settle, Id
<1>2. CASE r \in n.dropped
  <2>1. outcome'[r] = "dropped"
    BY <1>1, <1>2, Zenon
  <2> QED BY <1>2, <2>1 DEF Ends
<1>3. CASE r \in changed \ n.dropped
  <2>1. outcome'[r] = how
    BY <1>1, <1>3, Zenon
  <2> QED BY <1>3, <2>1 DEF Ends
<1>4. CASE r \notin changed \cup n.dropped
  <2>1. outcome'[r] = outcome[r]
    BY <1>1, <1>4, Zenon
  <2> QED BY <2>1 DEF Ends
<1> QED BY <1>2, <1>3, <1>4, Zenon

\* CountPosts counts what goes into flight.
LEMMA CountCounts ==
  ASSUME NEW r \in Req, NEW n, NEW again, CountPosts(n, again),
         net'.pending = n.pending
  PROVE  Counts(r)
BY DEF CountPosts, Counts

\* A settled step keeps what n has in flight.
LEMMA SettlePending ==
  ASSUME NEW n, n \in Net, NEW changed, NEW how, Settle(n, changed, how)
  PROVE  net'.pending = n.pending
BY DEF Settle, Net

\* A request or a login that enters ends none in flight.
LEMMA EnterPromised ==
  ASSUME Typed, Placed, NEW id \in Id, id \notin Places,
         NEW n, n = EnqueueOrSend(net, id),
         Settle(n, {id}, "live"), CountPosts(n, {}),
         NEW r \in Req, r = id => outcome[r] = "new"
  PROVE  Promised(r)
<1>1. id \notin Held(net)
  BY PlacesHeld, Zenon
<1>2. Moved(net, n, {id}) /\ n \in Net
  BY <1>1, NetSound, EnqueueOrSendMoved, EnqueueOrSendSound DEF Sound
<1>3. r \in n.dropped => r = id
  BY <1>2, Zenon DEF Moved
<1>4. r \in {id} => r = id
  OBVIOUS
<1>5. Ends(r)
  BY <1>3, <1>4, SettleEnds, Zenon
<1>6. Counts(r)
  BY <1>2, SettlePending, CountCounts
<1> QED BY <1>5, <1>6 DEF Promised

\* A request that is made is taken or refused.
LEMMA RequestPromised ==
  ASSUME Typed, Placed, NEW q \in Req, Request(q), NEW r \in Req
  PROVE  Promised(r)
<1>1. q \in Id /\ outcome[q] = "new"
  BY DEF Id, Request
<1>2. q \notin Places
  BY <1>1 DEF Placed
<1> QED BY <1>1, <1>2, EnterPromised DEF Request

\* So is the login of a new mode, which ends no request.
LEMMA SetOperateTypePromised ==
  ASSUME Typed, Placed, NEW l \in LoginId, SetOperateType(l), NEW r \in Req
  PROVE  Promised(r)
<1>1. l \in Id /\ l \notin Places /\ r # l
  BY LoginIsNoRequest DEF SetOperateType, FreeLogin
<1> QED BY <1>1, EnterPromised DEF SetOperateType

\* An abort lets its request wait, or fails it.
LEMMA TimeoutAbortPromised ==
  ASSUME Typed, Placed, NEW id \in Id, TimeoutAbort(id), NEW r \in Req
  PROVE  Promised(r)
<1> DEFINE n == Without(net, id)
<1>1. id \in net.pending /\ posts' = posts
      /\ \/ Settle(n, {}, "live")
         \/ Settle(n, {id}, "requestFailed")
  BY DEF TimeoutAbort
<1>2. n \in Net /\ n.dropped = {} /\ n.pending = net.pending \ {id}
  BY <1>1, InFlight DEF Sound
<1> HIDE DEF n
<1>3. Ends(r)
  <2>1. r \notin n.dropped /\ (r \in {id} => r \in net.pending)
    BY <1>1, <1>2
  <2> QED BY <1>1, <2>1, SettleEnds
<1>4. net'.pending = n.pending
  BY <1>1, <1>2, SettlePending
<1>5. Counts(r)
  BY <1>1, <1>2, <1>4 DEF Counts
<1> QED BY <1>3, <1>5 DEF Promised

\* A retry that is due is posted, queued or given up.
LEMMA RetryTimerPromised ==
  ASSUME Typed, Placed, NEW id \in Id, RetryTimer(id), NEW r \in Req
  PROVE  Promised(r)
<1> DEFINE n == SendAgain(net, id)
<1>1. /\ id \in timers /\ Settle(n, {}, "live") /\ CountPosts(n, {})
  BY DEF RetryTimer
<1>2. id \notin Held(net) /\ id \in Places
  BY <1>1, PlacesHeld, Zenon DEF Placed
<1>3. Moved(net, n, {id}) /\ n \in Net
  BY <1>2, NetSound, SendAgainMoved
<1> HIDE DEF n
<1>4. r \in n.dropped => r \in Places \ net.pending
  BY <1>2, <1>3, Zenon DEF Moved, Held
<1>5. Ends(r)
  BY <1>1, <1>4, SettleEnds
<1>6. Counts(r)
  BY <1>1, <1>3, SettlePending, CountCounts
<1> QED BY <1>5, <1>6 DEF Promised

\* There is room for the one that left: a retry at once is never refused.
LEMMA SentAgainKept ==
  ASSUME Typed, Placed, NEW id \in net.pending,
         NEW n, n = SendAgain(Without(net, id), id)
  PROVE  n \in Net /\ n.dropped = {}
<1> DEFINE w == Without(net, id)
           e == EnqueueOrSend(w, id)
<1>1. /\ Sound(w) /\ w.dropped = {} /\ w.pending = net.pending \ {id}
      /\ id \in Id
  BY InFlight
<1>2. HasSlot(w.pending)
  <2>1. /\ net.pending \in SUBSET Id
        /\ Cardinality(net.pending) <= Limit
    BY DEF Typed, TypeOK, PendingBound
  <2>2. IsFiniteSet(net.pending) /\ Cardinality(net.pending) \in Nat
    BY <2>1, PendingFinite
  <2>3. Cardinality(net.pending \ {id}) = Cardinality(net.pending) - 1
    BY <2>2, FS_RemoveElement
  <2> HIDE DEF w
  <2> QED BY <1>1, <2>1, <2>2, <2>3, RequestAssumption, SMT DEF HasSlot
<1> HIDE DEF w
<1>3. e = [w EXCEPT !.pending = w.pending \cup {id}] /\ w \in Net
  BY <1>1, <1>2 DEF EnqueueOrSend, Sound
<1>4. Sound(e) /\ e.dropped = {} /\ e \in Net
  <2>1. Sound(e)
    BY <1>1, EnqueueOrSendSound
  <2> HIDE DEF e
  <2> QED BY <1>1, <1>3, <2>1 DEF Sound, Net
<1> HIDE DEF e
<1>5. TryStartNext(e).dropped = {}
  BY <1>4 DEF TryStartNext, Net
<1>6. TryStartNext(e) \in Net
  BY <1>4, TryStartNextSound DEF Sound
<1> QED BY <1>5, <1>6 DEF SendAgain, e, w

\* An error that is tried again ends nothing.
LEMMA NetworkErrorRetryPromised ==
  ASSUME Typed, Placed, NEW id \in Id, NetworkErrorRetry(id), NEW r \in Req
  PROVE  Promised(r)
<1> DEFINE n == SendAgain(Without(net, id), id)
<1>1. /\ id \in net.pending /\ Settle(n, {}, "live") /\ CountPosts(n, {id})
  BY DEF NetworkErrorRetry
<1>2. n \in Net /\ n.dropped = {}
  BY <1>1, SentAgainKept
<1> HIDE DEF n
<1>3. Ends(r)
  BY <1>1, <1>2, SettleEnds
<1>4. Counts(r)
  BY <1>1, <1>2, SettlePending, CountCounts
<1> QED BY <1>3, <1>4 DEF Promised

\* A reply that only ends its request starts others in its place.
LEMMA FinishPromised ==
  ASSUME Typed, Placed, NEW id \in net.pending,
         NEW how \in {"slotResult", "silent", "requestFailed"},
         Finish(id, how), NEW r \in Req
  PROVE  Promised(r)
<1>1. PICK n : /\ n = TryStartNext(Without(net, id)) /\ Settle(n, {id}, how)
               /\ CountPosts(n, {})
  BY DEF Finish
<1>2. n \in Net /\ n.dropped = {}
  BY <1>1, EndMoved
<1>3. Ends(r)
  <2>1. r \notin n.dropped /\ (r \in {id} => r \in net.pending)
    BY <1>2
  <2> QED BY <1>1, <2>1, SettleEnds
<1>4. Counts(r)
  BY <1>1, <1>2, SettlePending, CountCounts
<1> QED BY <1>3, <1>4 DEF Promised

\* The replies that end with a signal and the next request.
LEMMA FinishingPromised ==
  ASSUME Typed, Placed, NEW id \in Id,
         \/ FailedReply(id)
         \/ LoginExpired(id)
         \/ LoginNoToken(id)
         \/ TerminalCode(id)
         \/ Uploaded(id),
         NEW r \in Req
  PROVE  Promised(r)
<1>1. /\ id \in net.pending
      /\ \E how \in {"slotResult", "silent", "requestFailed"} : Finish(id, how)
  BY DEF FailedReply, LoginExpired, LoginNoToken, TerminalCode, Uploaded,
         AnsweredAsLogin, Answered
<1> QED BY <1>1, FinishPromised

\* A request that finds its token expired waits, and ends nothing.
LEMMA PauseExpiredPromised ==
  ASSUME Typed, Placed, NEW id \in Id, PauseExpired(id), NEW r \in Req
  PROVE  Promised(r)
<1> DEFINE w == Without(net, id)
<1>1. id \in net.pending
  BY DEF PauseExpired
<1>2. /\ Sound(w) /\ Proper(w) /\ w.dropped = {} /\ Held(w) = Held(net) \ {id}
  BY <1>1, InFlight
<1> HIDE DEF w
<1>3. ASSUME NEW n, n \in Net, NEW S, S \subseteq LoginId, n.dropped \subseteq S,
             Settle(n, S, "live"), CountPosts(n, {})
      PROVE  Promised(r)
  <2>1. r \notin S /\ r \notin n.dropped
    BY <1>3, LoginIsNoRequest
  <2>2. Ends(r)
    BY <1>3, <2>1, SettleEnds
  <2>3. Counts(r)
    BY <1>3, SettlePending, CountCounts
  <2> QED BY <2>2, <2>3 DEF Promised
<1>4. ASSUME NEW l \in LoginId, FreeLogin(l),
             Settle(TryStartNext(EnqueueOrSend(w, l)), {l}, "live"),
             CountPosts(TryStartNext(EnqueueOrSend(w, l)), {})
      PROVE  Promised(r)
  <2> DEFINE n == SendAgain(w, l)
  <2>1. l \in Id /\ l \notin Places
    BY <1>4, LoginIsNoRequest DEF FreeLogin
  <2>2. l \notin Held(w)
    BY <1>2, <2>1, PlacesHeld, Zenon
  <2>3. Moved(w, n, {l}) /\ n \in Net
    BY <1>2, <2>1, <2>2, SendAgainMoved
  <2>4. Settle(n, {l}, "live") /\ CountPosts(n, {})
    BY <1>4 DEF SendAgain
  <2> HIDE DEF n
  <2>5. n.dropped \subseteq {l} /\ {l} \subseteq LoginId
    BY <2>3 DEF Moved
  <2> QED BY <1>3, <2>3, <2>4, <2>5
<1>5. ASSUME Settle(TryStartNext(w), {}, "live"), CountPosts(TryStartNext(w), {})
      PROVE  Promised(r)
  <2>1. Moved(w, TryStartNext(w), {}) /\ TryStartNext(w) \in Net
    BY <1>2, RestartMoved
  <2>2. TryStartNext(w).dropped \subseteq {}
    BY <2>1, Zenon DEF Moved
  <2> QED BY <1>3, <1>5, <2>1, <2>2
<1> QED BY <1>4, <1>5 DEF PauseExpired, w

\* A login that brings a token ends no request.
LEMMA LoginTokenPromised ==
  ASSUME Typed, Placed, NEW l \in Id, LoginToken(l), NEW r \in Req
  PROVE  Promised(r)
<1> DEFINE w == Without(net, l)
           m == [w EXCEPT !.queue = w.queue \o paused]
           n == TryStartNext(m)
<1>1. /\ l \in LoginId /\ l \in net.pending
      /\ Settle(n, {l}, "silent") /\ CountPosts(n, {})
  BY DEF LoginToken
<1>2. Sound(w) /\ w.dropped = {}
  BY <1>1, InFlight
<1> HIDE DEF w
<1>3. w.queue \o paused \in Seq(Id) /\ w \in Net
  BY <1>2 DEF Sound, Net, Typed, TypeOK
<1>4. m \in Net /\ m.pending = w.pending /\ m.dropped = {}
  BY <1>2, <1>3 DEF Net
<1>5. Sound(m)
  BY <1>2, <1>4 DEF Sound
<1> HIDE DEF m
<1>6. n \in Net
  BY <1>5, TryStartNextSound DEF Sound
<1>7. n.dropped = {}
  BY <1>4 DEF TryStartNext, Net
<1> HIDE DEF n
<1>8. r \notin {l} /\ r \notin n.dropped
  BY <1>1, <1>7, LoginIsNoRequest
<1>9. Ends(r)
  BY <1>1, <1>8, SettleEnds
<1>10. Counts(r)
  BY <1>1, <1>6, SettlePending, CountCounts
<1> QED BY <1>9, <1>10 DEF Promised

\* A login that is rejected fails the requests that wait for it, and no other.
LEMMA LoginRejectedPromised ==
  ASSUME Typed, Placed, NEW id \in Id, LoginRejected(id), NEW r \in Req
  PROVE  Promised(r)
<1>1. PICK n : n = TryStartNext(Without(net, id)) /\ net' = n /\ CountPosts(n, {})
  BY DEF LoginRejected, FailPaused
<1>2. id \in net.pending
  BY DEF LoginRejected, AnsweredAsLogin
<1>3. Counts(r)
  BY <1>1, CountCounts
<1>4. outcome'[r] = CASE r \in ToSet(paused) -> "requestFailed"
                      [] r = id              -> "silent"
                      [] OTHER               -> outcome[r]
  BY DEF LoginRejected, FailPaused, Id
<1>5. id \notin ToSet(paused)
  BY <1>2, InFlight
<1>6. CASE r \in ToSet(paused)
  <2>0. r # id
    BY <1>5, <1>6
  <2>1. outcome'[r] = "requestFailed"
    BY <1>4, <1>6, <2>0, Zenon
  <2>2. r \in Places \ net.pending
    BY <1>6, Zenon DEF Places, Placed, Held
  <2> QED BY <1>3, <2>1, <2>2 DEF Promised, Ends
<1>7. CASE r = id
  <2>1. outcome'[r] = "silent"
    BY <1>4, <1>5, <1>7, Zenon
  <2> QED BY <1>2, <1>3, <1>7, <2>1 DEF Promised, Ends
<1>8. CASE r \notin ToSet(paused) /\ r # id
  <2>1. outcome'[r] = outcome[r]
    BY <1>4, <1>8, Zenon
  <2> QED BY <1>3, <2>1 DEF Promised, Ends
<1> QED BY <1>6, <1>7, <1>8

\* A step that leaves the requests in flight, the counts and the ends alone.
LEMMA QuietPromised ==
  ASSUME NEW r \in Req, UNCHANGED <<net, outcome, posts>>
  PROVE  Promised(r)
BY DEF Promised, Ends, Counts

\* Every step of the scheduler does to every request what it promised.
LEMMA StepPromised ==
  ASSUME Typed, Placed, [Next]_vars, NEW r \in Req
  PROVE  Promised(r)
<1>1. ASSUME NEW q \in Req, Request(q) PROVE Promised(r)
  BY <1>1, RequestPromised
<1>2. ASSUME NEW l \in LoginId, SetOperateType(l) PROVE Promised(r)
  BY <1>2, SetOperateTypePromised
<1>3. CASE ExpireToken
  BY <1>3, QuietPromised DEF ExpireToken
<1>4. ASSUME NEW id \in Id, TimeoutAbort(id) PROVE Promised(r)
  BY <1>4, TimeoutAbortPromised
<1>5. ASSUME NEW id \in Id, RetryTimer(id) PROVE Promised(r)
  BY <1>5, RetryTimerPromised
<1>6. ASSUME NEW id \in Id, ReplyFinished(id) PROVE Promised(r)
  BY <1>6, NetworkErrorRetryPromised, FinishingPromised, PauseExpiredPromised,
     LoginTokenPromised, LoginRejectedPromised DEF ReplyFinished
<1>7. CASE UNCHANGED vars
  BY <1>7, QuietPromised DEF vars
<1> QED BY <1>1, <1>2, <1>3, <1>4, <1>5, <1>6, <1>7 DEF Next

\* What was promised of a request is a step of the desk.
LEMMA DeskStep ==
  ASSUME Typed, Placed, Typed', Placed', Budgeted', NEW r \in Req, Promised(r)
  PROVE  Desk!Step(r)
<1> USE DEF Desk!Step, Desk!Move, Desk!Post, Desk!Wait, Desk!Refuse, Desk!End,
            Desk!GiveUp, Desk!Stay
<1>1. /\ Phase[r] = IF outcome[r] # "live" THEN outcome[r]
                    ELSE IF r \in net.pending THEN "sent" ELSE "waiting"
      /\ Phase'[r] = IF outcome'[r] # "live" THEN outcome'[r]
                     ELSE IF r \in net'.pending THEN "sent" ELSE "waiting"
  BY DEF Phase
<1>2. /\ outcome[r] = "live" <=> r \in Places
      /\ outcome'[r] = "live" <=> r \in Places'
      /\ r \in net.pending => r \in Places
      /\ r \in net'.pending => r \in Places'
  BY Zenon DEF Placed, Id, Places
<1>3. outcome[r] \in Outcome /\ outcome'[r] \in Outcome
  BY DEF Typed, TypeOK, Id
<1>4. /\ posts[r] \in Nat /\ posts'[r] \in Nat
      /\ posts'[r] <= MaxRetries + 1 + ReplayRetries + 1
  <2>1. posts[r] \in Nat /\ MaxRetries \in Nat /\ ReplayRetries \in Nat
    BY BudgetType
  <2>2. posts'[r] \in Nat
    BY DEF Typed, TypeOK
  <2>3. posts'[r] <= Budget(r)'
    BY DEF Budgeted, WithinBudget
  <2>4. \/ Budget(r)' = MaxRetries + 1
        \/ Budget(r)' = (MaxRetries + 1) + (ReplayRetries + 1)
    <3>1. CASE meta'[r].retried
      BY <3>1 DEF Budget
    <3>2. CASE ~meta'[r].retried
      BY <2>1, <3>2, SMT DEF Budget
    <3> QED BY <3>1, <3>2
  <2> QED BY <2>1, <2>2, <2>3, <2>4, SMT
<1>5. Ends(r) /\ Counts(r)
  BY DEF Promised
<1>6. CASE r \in net'.pending
  <2>1. outcome'[r] = "live" /\ Phase'[r] = "sent"
    BY <1>1, <1>2, <1>6
  <2>2. Phase[r] \in {"new", "waiting", "sent"}
    BY <1>1, <1>5, <2>1, Zenon DEF Ends
  <2>3. CASE posts'[r] = posts[r] + 1
    <3>1. posts[r] < MaxRetries + 1 + ReplayRetries + 1
      BY <1>4, <2>3, RequestAssumption, SMT
    <3> QED BY <2>1, <2>2, <2>3, <3>1
  <2>4. CASE r \in net.pending /\ posts'[r] = posts[r]
    <3>1. Phase[r] = "sent"
      BY <1>1, <1>2, <2>4
    <3> QED BY <2>1, <2>4, <3>1
  <2> QED BY <1>5, <1>6, <2>3, <2>4 DEF Counts
<1>7. CASE r \notin net'.pending
  <2>1. posts'[r] = posts[r]
    BY <1>5, <1>7 DEF Counts
  <2>2. CASE outcome'[r] = outcome[r]
    BY <1>1, <1>7, <2>1, <2>2
  <2>3. CASE outcome[r] = "new" /\ outcome'[r] \in {"live", "dropped"}
    BY <1>1, <1>7, <2>1, <2>3
  <2>4. CASE /\ r \in net.pending
             /\ outcome'[r] \in {"slotResult", "silent", "requestFailed"}
    BY <1>1, <1>2, <2>1, <2>4
  <2>5. CASE /\ r \in Places \ net.pending
             /\ outcome'[r] \in {"requestFailed", "dropped"}
    BY <1>1, <1>2, <2>1, <2>5
  <2> QED BY <1>5, <2>2, <2>3, <2>4, <2>5 DEF Ends
<1> QED BY <1>6, <1>7

\* The desk has no more in flight than the scheduler.
LEMMA DeskBound ==
  ASSUME Typed', Placed'
  PROVE  Cardinality(Desk!InFlight') <= Limit
<1> DEFINE p == net'.pending
           f == Desk!InFlight'
<1>1. p \in SUBSET Id /\ Cardinality(p) <= Limit
  BY DEF Typed, TypeOK, PendingBound
<1>2. IsFiniteSet(p) /\ Cardinality(p) \in Nat
  BY <1>1, PendingFinite
<1>3. f \subseteq p
  <2> SUFFICES ASSUME NEW r \in Req, Phase'[r] = "sent"
               PROVE  r \in net'.pending
    BY DEF Desk!InFlight
  <2>1. outcome'[r] \in Outcome
    BY DEF Typed, TypeOK, Id
  <2>2. Phase'[r] = IF outcome'[r] # "live" THEN outcome'[r]
                    ELSE IF r \in net'.pending THEN "sent" ELSE "waiting"
    BY DEF Phase
  <2> QED BY <2>1, <2>2 DEF Outcome
<1> HIDE DEF p, f
<1>4. Cardinality(f) <= Cardinality(p) /\ Cardinality(f) \in Nat
  BY <1>2, <1>3, FS_Subset, FS_CardinalityType
<1>5. Cardinality(f) <= Limit
  BY <1>1, <1>2, <1>4, RequestAssumption, SMT
<1> QED BY <1>5 DEF f

\* The scheduler implements the desk: one end for each request, nothing posted
\* behind it, an answer only from flight, at most Limit in flight, and each
\* request posted a limited number of times.
THEOREM RequestsImplementDesk == Spec => ImplementsDesk
<1>1. Init => Desk!Init
  <2> SUFFICES ASSUME Init PROVE Desk!Init
    OBVIOUS
  <2>1. Phase = [r \in Req |-> "new"]
    BY DEF Phase, Init, Id
  <2> QED BY <2>1 DEF Init, Desk!Init
<1>2. /\ Typed /\ Placed /\ Typed' /\ Placed' /\ Budgeted' /\ [Next]_vars
      => [Desk!Next]_(Desk!vars)
  <2> SUFFICES ASSUME Typed, Placed, Typed', Placed', Budgeted', [Next]_vars
               PROVE  Desk!Next
    OBVIOUS
  <2>1. DOMAIN Phase' = Req /\ DOMAIN posts' = Req
    BY DEF Phase, Typed, TypeOK
  <2>2. \A r \in Req : Desk!Step(r)
    BY StepPromised, DeskStep
  <2>3. Cardinality(Desk!InFlight') <= Limit
    BY DeskBound
  <2>4. Desk!Cardinality(Desk!InFlight') = Cardinality(Desk!InFlight')
    BY DEF Desk!Cardinality, Cardinality
  <2> QED BY <2>1, <2>2, <2>3, <2>4 DEF Desk!Next
<1> QED BY <1>1, <1>2, TypedInvariant, PlacedInvariant, BudgetedInvariant, PTL
       DEF Spec, ImplementsDesk, Desk!Spec
=============================================================================

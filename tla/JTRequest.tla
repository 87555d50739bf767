----------------------------- MODULE JTRequest -----------------------------
(***************************************************************************)
(* The request scheduler of jtrequest.cpp: at most Limit HTTP requests in  *)
(* flight, a bounded queue behind them, retries after an error or an       *)
(* abort, and the automatic new login when the service answers that the    *)
(* token has expired.  Everything runs on the main thread, so one slot, one*)
(* timer callback or one finished reply is one step.                       *)
(*                                                                         *)
(* A request is an id.  The service is outside src/: it answers anything   *)
(* the code distinguishes, in any order or never (the reply then ends as   *)
(* an error or is aborted), except that a request whose token has expired  *)
(* is answered "expired", and one whose token is valid is not.             *)
(***************************************************************************)
EXTENDS Integers, Sequences, FiniteSets, SequencesExt

CONSTANTS
  Req,             \* the business requests DataProcess makes, each once
  Terminal,        \* those of them tagged get_terminalCode
  LoginId,         \* ids for login requests, reused once a login has ended
  Limit,           \* concurrencyLimit
  MaxQueue,        \* maxQueueSize
  MaxRetries,      \* retriesLeft of a new business request
  LoginRetries,    \* retriesLeft of a login
  ReplayRetries,   \* retriesLeft of a request sent again after a login
  MaxSwitches      \* bound: how often the operator chooses the mode

ASSUME RequestAssumption ==
  /\ IsFiniteSet(Req)
  /\ IsFiniteSet(LoginId)
  /\ Req \cap LoginId = {}
  /\ Terminal \subseteq Req
  /\ Limit \in Nat \ {0}
  /\ MaxQueue \in Nat
  /\ MaxRetries \in Nat
  /\ LoginRetries \in Nat
  /\ ReplayRetries \in Nat
  /\ MaxSwitches \in Nat

Id == Req \cup LoginId

VARIABLES
  net,          \* queue: m_requestQueue; pending: m_pending; dropped: what a
                \* step refuses, empty between two steps
  timers,       \* ids waiting in a QTimer::singleShot for their retry
  paused,       \* m_pausedRequests
  refreshing,   \* m_refreshingToken
  tokenStale,   \* the service no longer accepts m_authToken (or it is empty)
  meta,         \* per id, what travels with the request
  outcome,      \* per id: not made yet, under way, or how it ended last
  posts,        \* per business request, how often it was posted
  switches      \* calls of setOperateType so far

vars == <<net, timers, paused, refreshing, tokenStale, meta, outcome, posts,
          switches>>

\* retries: retriesLeft; stale: the token in its header has expired; retried:
\* header X-Retried-After-Refresh; login: its reqTag is "login".
Meta == [retries : Nat, stale : BOOLEAN, retried : BOOLEAN, login : BOOLEAN]

Outcome ==
  {"new", "live", "slotResult", "requestFailed", "silent", "dropped"}

Places == net.pending \cup timers \cup ToSet(net.queue) \cup ToSet(paused)

LiveLogins == LoginId \cap Places
FreeLogin(l) == l \in LoginId \ Places
-----------------------------------------------------------------------------
(* The queue and the requests in flight.  An operator below takes and      *)
(* returns a record like net, so that a handler composes them in the order *)
(* of its calls.                                                           *)

HasSlot(pending) == Cardinality(pending) < Limit

EnqueueOrSend(n, id) ==
  IF HasSlot(n.pending)
  THEN [n EXCEPT !.pending = @ \cup {id}]
  ELSE IF Len(n.queue) < MaxQueue
       THEN [n EXCEPT !.queue = Append(@, id)]
       ELSE [n EXCEPT !.dropped = @ \cup {id}]

\* Faulty variant: the loop tests "> concurrencyLimit".
StartableOffByOne(n) ==
  LET free == (Limit + 1) - Cardinality(n.pending)
  IN  IF free <= 0 THEN 0 ELSE IF Len(n.queue) < free THEN Len(n.queue) ELSE free

\* How many queued requests the loop of tryStartNext posts.
Startable(n) ==
  LET free == Limit - Cardinality(n.pending)
  IN  IF free <= 0 THEN 0 ELSE IF Len(n.queue) < free THEN Len(n.queue) ELSE free

TryStartNext(n) ==
  LET k == Startable(n)
  IN  [n EXCEPT !.pending = @ \cup {n.queue[i] : i \in 1 .. k},
                !.queue = SubSeq(@, k + 1, Len(@))]

\* The reply is taken out of m_pending before anything else.
Without(n, id) == [n EXCEPT !.pending = @ \ {id}]

\* Sent again at once: enqueueOrSend, then tryStartNext.
SendAgain(n, id) == TryStartNext(EnqueueOrSend(n, id))

\* Every request that enters pending is posted once; "again" holds the one
\* that may leave and enter in the same step.
CountPosts(n, again) ==
  posts' = [r \in Req |->
              IF r \in n.pending /\ (r \notin net.pending \/ r \in again)
              THEN posts[r] + 1 ELSE posts[r]]

\* The step changes net to n; the requests in "changed" become "how", and what
\* it could not keep is dropped.
Settle(n, changed, how) ==
  /\ net' = [n EXCEPT !.dropped = {}]
  /\ outcome' = [r \in Id |->
                   CASE r \in n.dropped           -> "dropped"
                     [] r \in changed \ n.dropped -> how
                     [] OTHER                     -> outcome[r]]
-----------------------------------------------------------------------------
NewMeta(retries, stale, login) ==
  [retries |-> retries, stale |-> stale, retried |-> FALSE, login |-> login]

Init ==
  /\ net = [queue |-> << >>, pending |-> {}, dropped |-> {}]
  /\ timers = {}
  /\ paused = << >>
  /\ refreshing = FALSE
  /\ tokenStale = TRUE
  /\ meta = [id \in Id |-> NewMeta(0, FALSE, id \in LoginId)]
  /\ outcome = [id \in Id |-> "new"]
  /\ posts = [r \in Req |-> 0]
  /\ switches = 0

(* Requests.                                                               *)

\* One of the request functions is called; the header keeps today's token.
Request(r) ==
  /\ outcome[r] = "new"
  /\ meta' = [meta EXCEPT ![r] = NewMeta(MaxRetries, tokenStale, FALSE)]
  /\ LET n == EnqueueOrSend(net, r)
     IN  Settle(n, {r}, "live") /\ CountPosts(n, {})
  /\ UNCHANGED <<timers, paused, refreshing, tokenStale, switches>>

\* requestToken: a login request, which needs no token.
LoginMeta == NewMeta(LoginRetries, FALSE, TRUE)

\* The operator chooses the mode: a login with the account of that mode.
SetOperateType(l) ==
  /\ switches < MaxSwitches
  /\ FreeLogin(l)
  /\ switches' = switches + 1
  /\ meta' = [meta EXCEPT ![l] = LoginMeta]
  /\ LET n == EnqueueOrSend(net, l)
     IN  Settle(n, {l}, "live") /\ CountPosts(n, {})
  /\ UNCHANGED <<timers, paused, refreshing, tokenStale>>

\* The service stops accepting every token it has given out so far.
ExpireToken ==
  /\ ~tokenStale
  /\ tokenStale' = TRUE
  /\ meta' = [id \in Id |-> IF id \in Req \cap Places
                            THEN [meta[id] EXCEPT !.stale = TRUE]
                            ELSE meta[id]]
  /\ UNCHANGED <<net, timers, paused, refreshing, outcome, posts, switches>>

(* Aborts and errors.                                                      *)

\* Faulty variant: no return behind the retry, so that the failure is reported too.
TimeoutAbortReportsRetry(id) ==
  /\ id \in net.pending
  /\ IF meta[id].retries > 0
     THEN /\ timers' = timers \cup {id}
          /\ meta' = [meta EXCEPT ![id].retries = @ - 1]
     ELSE UNCHANGED <<timers, meta>>
  /\ Settle(Without(net, id), {id}, "requestFailed")
  /\ UNCHANGED <<paused, refreshing, tokenStale, posts, switches>>

\* checkPendingTimeouts aborts the reply; its finished signal is handled at
\* once: a retry in a second, or the end.  Nothing else is started.
TimeoutAbort(id) ==
  /\ id \in net.pending
  /\ \/ /\ meta[id].retries > 0
        /\ timers' = timers \cup {id}
        /\ meta' = [meta EXCEPT ![id].retries = @ - 1]
        /\ Settle(Without(net, id), {}, "live")
     \/ /\ meta[id].retries = 0
        /\ Settle(Without(net, id), {id}, "requestFailed")
        /\ UNCHANGED <<timers, meta>>
  /\ UNCHANGED <<paused, refreshing, tokenStale, posts, switches>>

\* The retry timer fires.
RetryTimer(id) ==
  /\ id \in timers
  /\ timers' = timers \ {id}
  /\ LET n == SendAgain(net, id)
     IN  Settle(n, {}, "live") /\ CountPosts(n, {})
  /\ UNCHANGED <<paused, refreshing, tokenStale, meta, switches>>

\* Faulty variant: the retry does not use up a retry.
NetworkErrorRetryForFree(id) ==
  /\ id \in net.pending
  /\ meta[id].retries > 0
  /\ meta' = meta
  /\ LET n == SendAgain(Without(net, id), id)
     IN  Settle(n, {}, "live") /\ CountPosts(n, {id})
  /\ UNCHANGED <<timers, paused, refreshing, tokenStale, switches>>

\* Any other error, with a retry left.
NetworkErrorRetry(id) ==
  /\ id \in net.pending
  /\ meta[id].retries > 0
  /\ meta' = [meta EXCEPT ![id].retries = @ - 1]
  /\ LET n == SendAgain(Without(net, id), id)
     IN  Settle(n, {}, "live") /\ CountPosts(n, {id})
  /\ UNCHANGED <<timers, paused, refreshing, tokenStale, switches>>

\* Faulty variant: the end of a reply does not start the next request.
FinishAlone(id, how) ==
  /\ LET n == Without(net, id)
     IN  Settle(n, {id}, how) /\ CountPosts(n, {})
  /\ UNCHANGED <<timers, paused, tokenStale, meta, switches>>

\* The reply ends with nothing but the signal "how" and a tryStartNext.
Finish(id, how) ==
  /\ LET n == TryStartNext(Without(net, id))
     IN  Settle(n, {id}, how) /\ CountPosts(n, {})
  /\ UNCHANGED <<timers, paused, tokenStale, meta, switches>>

\* An error with no retry left, and, whatever retries are left, an answer that
\* is not JSON: neither looks at the tag.
FailedReply(id) ==
  /\ id \in net.pending
  /\ Finish(id, "requestFailed")
  /\ UNCHANGED refreshing

(* The token.                                                              *)

\* A login, or what carries its tag, is answered "expired".
LoginExpired(id) ==
  /\ id \in net.pending
  /\ meta[id].login
  /\ id \in LoginId \/ meta[id].stale
  /\ refreshing' = FALSE
  /\ Finish(id, "silent")

\* The compare-and-swap of startRefreshIfNeeded.
NeedsRefresh(flag) == ~flag

\* Any other request is answered "expired": it is kept with the mark
\* X-Retried-After-Refresh, and a login is started unless one is under way.
PauseExpired(id) ==
  /\ id \in net.pending
  /\ ~meta[id].login
  /\ meta[id].stale
  /\ paused' = Append(paused, id)
  /\ refreshing' = TRUE
  /\ \/ /\ NeedsRefresh(refreshing)
        /\ \E l \in LoginId :
             /\ FreeLogin(l)
             /\ meta' = [meta EXCEPT ![id].retried = TRUE,
                                     ![l] = LoginMeta]
             /\ LET n == TryStartNext(EnqueueOrSend(Without(net, id), l))
                IN  Settle(n, {l}, "live") /\ CountPosts(n, {})
     \/ /\ ~NeedsRefresh(refreshing)
        /\ meta' = [meta EXCEPT ![id].retried = TRUE]
        /\ LET n == TryStartNext(Without(net, id))
           IN  Settle(n, {}, "live") /\ CountPosts(n, {})
  /\ UNCHANGED <<timers, tokenStale, switches>>

\* A login brings a token: every paused request goes to the end of the queue,
\* whatever its length, with its old header and with the tag "login".
LoginToken(l) ==
  /\ l \in LoginId \cap net.pending
  /\ tokenStale' = FALSE
  /\ refreshing' = FALSE
  /\ paused' = << >>
  /\ meta' = [id \in Id |->
                IF id \in ToSet(paused)
                THEN [meta[id] EXCEPT !.retries = ReplayRetries, !.login = TRUE]
                ELSE meta[id]]
  /\ LET n == TryStartNext([Without(net, l) EXCEPT !.queue = @ \o paused])
     IN  Settle(n, {l}, "silent") /\ CountPosts(n, {})
  /\ UNCHANGED <<timers, switches>>

\* An answer handled as a login's.
AnsweredAsLogin(id) ==
  /\ id \in net.pending
  /\ meta[id].login
  /\ ~meta[id].stale

\* Faulty variant: an answer without a token keeps the flag.
LoginNoTokenKeepsFlag(id) ==
  /\ AnsweredAsLogin(id)
  /\ Finish(id, "silent")
  /\ UNCHANGED refreshing

\* The data is an object without a token.
LoginNoToken(id) ==
  /\ AnsweredAsLogin(id)
  /\ refreshing' = FALSE
  /\ Finish(id, "silent")

\* Every paused request is failed, and the answered one is over.
FailPaused(id) ==
  LET n == TryStartNext(Without(net, id))
  IN  /\ net' = n
      /\ outcome' = [r \in Id |-> CASE r \in ToSet(paused) -> "requestFailed"
                                     [] r = id              -> "silent"
                                     [] OTHER               -> outcome[r]]
      /\ CountPosts(n, {})

\* Faulty variant: the paused requests are failed but stay paused.
LoginRejectedKeepsPaused(id) ==
  /\ AnsweredAsLogin(id)
  /\ refreshing' = FALSE
  /\ FailPaused(id)
  /\ UNCHANGED <<timers, paused, tokenStale, meta, switches>>

\* Any other answer: the login has failed, and every paused request with it.
LoginRejected(id) ==
  /\ AnsweredAsLogin(id)
  /\ refreshing' = FALSE
  /\ paused' = << >>
  /\ FailPaused(id)
  /\ UNCHANGED <<timers, tokenStale, meta, switches>>

(* The other answers.                                                      *)

Answered(r) == r \in net.pending /\ ~meta[r].login /\ ~meta[r].stale

\* get_terminalCode: a code, an empty array, or anything else.
TerminalCode(r) ==
  /\ Answered(r)
  /\ r \in Terminal
  /\ \E how \in {"slotResult", "silent", "requestFailed"} : Finish(r, how)
  /\ UNCHANGED refreshing

\* upload, build, smallItem and the rest: failures are only logged.
Uploaded(r) ==
  /\ Answered(r)
  /\ r \notin Terminal
  /\ Finish(r, "silent")
  /\ UNCHANGED refreshing
-----------------------------------------------------------------------------
\* The reply of id ends in some way other than an abort.
ReplyFinished(id) ==
  \/ NetworkErrorRetry(id)
  \/ FailedReply(id)
  \/ LoginExpired(id)
  \/ PauseExpired(id)
  \/ LoginToken(id)
  \/ LoginNoToken(id)
  \/ LoginRejected(id)
  \/ TerminalCode(id)
  \/ Uploaded(id)

Next ==
  \/ \E r \in Req : Request(r)
  \/ \E l \in LoginId : SetOperateType(l)
  \/ ExpireToken
  \/ \E id \in Id : TimeoutAbort(id) \/ RetryTimer(id) \/ ReplyFinished(id)

Spec == Init /\ [][Next]_vars

\* The service answers, or refuses, every request before the abort timer does.
NextPrompt ==
  \/ \E r \in Req : Request(r)
  \/ \E l \in LoginId : SetOperateType(l)
  \/ ExpireToken
  \/ \E id \in Id : ReplyFinished(id)

PromptSpec ==
  Init /\ [][NextPrompt]_vars /\ \A id \in Id : WF_vars(ReplyFinished(id))
-----------------------------------------------------------------------------
(* Properties.                                                             *)

TypeOK ==
  /\ net \in [queue : Seq(Id), pending : SUBSET Id, dropped : SUBSET Id]
  /\ timers \in SUBSET Id
  /\ paused \in Seq(Id)
  /\ refreshing \in BOOLEAN
  /\ tokenStale \in BOOLEAN
  /\ meta \in [Id -> Meta]
  /\ outcome \in [Id -> Outcome]
  /\ posts \in [Req -> Nat]
  /\ switches \in 0 .. MaxSwitches

\* Never more than concurrencyLimit requests are in flight, whichever way a
\* request gets there: directly, from the queue, by a retry, from a timer, or
\* replayed after a login.
PendingBound == Cardinality(net.pending) <= Limit

\* A request is in exactly one place while it is under way (queued, in flight,
\* waiting for its retry or paused), and in none before and after: no handler
\* loses one without a word, and none comes back after it was settled.
NoRepeats(seq) == \A i, j \in DOMAIN seq : seq[i] = seq[j] => i = j

OnePlace ==
  /\ NoRepeats(net.queue \o paused)
  /\ net.pending \cap timers = {}
  /\ ToSet(net.queue \o paused) \cap (net.pending \cup timers) = {}
  /\ \A r \in Req : outcome[r] = "live" <=> r \in Places

\* However errors, aborts, expired tokens and logins interleave, a request is
\* posted at most once per retry it was given, before and after its replay:
\* a request is paused and replayed only once.
RetryBudget ==
  \A r \in Req :
    posts[r] <= (MaxRetries + 1)
                  + (IF meta[r].retried THEN ReplayRetries + 1 ELSE 0)

\* As long as no reply has to be aborted, every queued request is sent.  (When
\* the last reply in flight is aborted the queue behind it is left waiting for
\* the next request: an abort starts nothing.)
QueuedIsSent ==
  \A r \in Req : (r \in ToSet(net.queue)) ~> (r \notin ToSet(net.queue))

\* jtrequest.cpp:350 wants the refresh flag cleared, so that requests are not
\* paused for ever.  While it is set a login is under way, unless one has failed
\* with an error or found no room: those two ends, and no other, leave it set.
RefreshHasLogin ==
  refreshing =>
    \/ LiveLogins # {}
    \/ \E l \in LoginId : outcome[l] \in {"requestFailed", "dropped"}

\* What became of a request, as its caller sees it.
Phase ==
  [r \in Req |-> IF outcome[r] # "live" THEN outcome[r]
                 ELSE IF r \in net.pending THEN "sent" ELSE "waiting"]

\* The scheduler keeps what it promises to the callers of its request functions
\* (jtrequest.h): one end for each request, with nothing posted behind it, and an
\* answer only from flight, although timers, replays and logins go on meanwhile.
Desk == INSTANCE RequestDesk
  WITH phase <- Phase, Tries <- MaxRetries + 1 + ReplayRetries + 1

ImplementsDesk == Desk!Spec

(* What the proofs of OnePlace, RetryBudget and RefreshHasLogin carry from *)
(* state to state.                                                         *)

Held(n) == n.pending \cup ToSet(n.queue)

Proper(n) == NoRepeats(n.queue) /\ ToSet(n.queue) \cap n.pending = {}

\* OnePlace, place by place and for logins too: the proof of a step needs that
\* a login which ends is in no other place either.
Placed ==
  /\ Proper(net)
  /\ net.dropped = {}
  /\ NoRepeats(paused)
  /\ Held(net) \cap timers = {}
  /\ Held(net) \cap ToSet(paused) = {}
  /\ timers \cap ToSet(paused) = {}
  /\ \A id \in Id : outcome[id] = "live" <=> id \in Places

Budget(r) ==
  (MaxRetries + 1) + (IF meta[r].retried THEN ReplayRetries + 1 ELSE 0)

\* What is left of a request's retries, in every place, is within its budget.
\* A paused request has used none of its second budget, and one that came back
\* from there carries the tag "login", which keeps it from being paused again.
WithinBudget(r) ==
  /\ posts[r] <= Budget(r)
  /\ outcome[r] = "new" => posts[r] = 0
  /\ r \in net.pending => posts[r] + meta[r].retries <= Budget(r)
  /\ r \in ToSet(net.queue) \cup timers =>
       posts[r] + meta[r].retries + 1 <= Budget(r)
  /\ r \in ToSet(paused) => meta[r].retried /\ posts[r] <= MaxRetries + 1
  /\ r \in Held(net) \cup timers => (meta[r].retried => meta[r].login)

Budgeted == \A r \in Req : WithinBudget(r)

\* A login keeps its tag, and while the flag is set one of them is under way
\* or ended as an error or for want of room.
LoginTracked ==
  /\ \A l \in LoginId : meta[l].login
  /\ refreshing =>
       \E l \in LoginId : outcome[l] \in {"live", "requestFailed", "dropped"}
=============================================================================

------------------------------ MODULE OrderLoad ------------------------------
(***************************************************************************)
(* The load generator scripts/perf/order-load.js: virtual users that       *)
(* submit orders, some as children of orders they hold open, cancel the    *)
(* oldest of them or everything on a desk, and may send an idempotency key *)
(* again; against the little of the order API their bookkeeping is about.  *)
(*                                                                         *)
(* A request and its answer are separate steps: orders end, other users    *)
(* act and tokens expire between them, and a request that timed out may    *)
(* still be handled.  An order is named by the command that created it,    *)
(* its token and its key; k6 gives each user its own copy of the           *)
(* bookkeeping.                                                            *)
(*                                                                         *)
(* An operator commented (mutant) is a wrong variant of the definition     *)
(* that follows it, which the properties must tell from the right one.     *)
(***************************************************************************)
EXTENDS Naturals, Sequences, FiniteSets

CONSTANTS
    Users,             \* k6 virtual users
    Tokens,            \* access tokens: one identity, hence one desk, each
    MainToken,         \* TOKEN: the one whose expiry setup can read
    MaxKeys,           \* bound on idempotency keys
    OpenOrders,        \* OPEN_ORDERS
    ReplayableKeys,    \* REPLAYABLE_KEYS
    MaxResent,         \* bound on keys that are sent again
    MaxTimeouts,       \* bound on requests whose answer is never received
    Profiles,          \* the options of the runs considered
    None

\* Which of the four rates are not zero, and TOKENS.
Options ==
    [replays : BOOLEAN, children : BOOLEAN, cancels : BOOLEAN, cancelAll : BOOLEAN,
     tokens : SUBSET Tokens]

Keys   == 1..MaxKeys
Orders == Tokens \X Keys
Desk(o) == o[1]
Requests ==
    [user : Users, kind : {"create"}, token : Tokens, key : Keys,
     parent : Orders \cup {None}]
    \cup [user : Users, kind : {"cancel"}, token : Tokens, order : Orders]
    \cup [user : Users, kind : {"cancelAll"}, token : Tokens]

ASSUME OrderLoadAssumption ==
    /\ MainToken \in Tokens /\ Profiles \subseteq Options
    /\ MaxKeys \in Nat /\ OpenOrders \in Nat \ {0} /\ ReplayableKeys \in Nat \ {0}
    /\ MaxResent \in Nat /\ MaxTimeouts \in Nat
    /\ None \notin Orders \cup Requests

VARIABLES
    options,
    shortLived,        \* the tokens that expire before the run ends
    phase,             \* "setup", "refused" or "running"
    nextKey,
    open,              \* openOrders: what a user believes is open, oldest first
    links,             \* childIds: the pairs <<parent, child>> a user knows
    usedKeys,          \* the keys a user may replay
    call,              \* the request a user waits for
    pc,                \* how far a user's iteration has come
    reply,             \* the answer that has come back to a user
    net,               \* requests the service has not handled
    life, up,          \* the service: how an order stands, and its parent
    recorded,          \* the service: the recorded result of a create command
    expired,           \* tokens that have expired
    guard,             \* why submits fed the business-rejection guard
    timeouts,
    lastToken,         \* the token of a user's last submit
    asked,             \* (history) the orders a user has cancelled one by one
    resent             \* (history) the keys that have been sent again

generator == <<open, links, usedKeys, call, pc, reply, lastToken, asked, resent>>
server    == <<life, up, recorded>>
run       == <<options, shortLived, phase>>
vars      == <<generator, server, run, nextKey, net, expired, guard, timeouts>>

Refusals == {"business", "parentPending", "parentGone", "otherDesk", "expired"}

TypeOK ==
    /\ options \in Profiles /\ shortLived \subseteq Tokens
    /\ phase \in {"setup", "refused", "running"}
    /\ nextKey \in 1..(MaxKeys + 1)
    /\ open \in [Users -> Seq(Orders)]
    /\ \A v \in Users : Len(open[v]) <= OpenOrders
    /\ links \in [Users -> SUBSET (Orders \X Orders)]
    /\ usedKeys \in [Users -> Seq(Keys)]
    /\ \A v \in Users : Len(usedKeys[v]) <= ReplayableKeys
    /\ call \in [Users -> Requests \cup {None}]
    /\ pc \in [Users -> {"idle", "submitted", "cancelled"}]
    /\ reply \in [Users -> Refusals \cup {"ok", "raced", "pending"}]
    /\ net \subseteq Requests
    /\ life \in [Orders -> {"none", "live", "pending", "done"}]
    /\ up \in [Orders -> Orders \cup {None}]
    /\ recorded \in [Orders -> {"none", "ok"} \cup Refusals]
    /\ expired \subseteq shortLived
    /\ guard \subseteq Refusals
    /\ lastToken \in [Users -> Tokens]
    /\ timeouts \in 0..MaxTimeouts
    /\ asked \in [Users -> SUBSET Orders]
    /\ resent \subseteq Keys

Init ==
    /\ options \in Profiles /\ shortLived \in SUBSET options.tokens
    /\ phase = "setup" /\ nextKey = 1
    /\ open = [v \in Users |-> <<>>] /\ links = [v \in Users |-> {}]
    /\ usedKeys = [v \in Users |-> <<>>]
    /\ call = [v \in Users |-> None] /\ pc = [v \in Users |-> "idle"]
    /\ reply = [v \in Users |-> "pending"]
    /\ net = {} /\ expired = {} /\ guard = {} /\ timeouts = 0
    /\ life = [o \in Orders |-> "none"] /\ up = [o \in Orders |-> None]
    /\ recorded = [o \in Orders |-> "none"]
    /\ lastToken = [v \in Users |-> MainToken]
    /\ asked = [v \in Users |-> {}] /\ resent = {}

Create(v, t, k, p) == [user |-> v, kind |-> "create", token |-> t, key |-> k, parent |-> p]
Tracked(v) == {open[v][i] : i \in DOMAIN open[v]}
Waiting(v) == call[v] # None

----------------------------------------------------------------------------
(* setup.                                                                  *)

\* What setup checks of the options, and of TOKEN when its expiry and the length of
\* the run can be read: if either cannot, the run is not refused.
MayRun(readable) ==
    ~(options.cancelAll /\ options.children) /\ ~(readable /\ MainToken \in shortLived)

\* setup accepts the options.  The order it submits to warm the service up is
\* answered before the users start and none of them tracks it: it is left out.
Setup ==
    /\ phase = "setup" /\ \E readable \in BOOLEAN : MayRun(readable)
    /\ phase' = "running"
    /\ UNCHANGED <<generator, server, options, shortLived, nextKey, net, expired, guard, timeouts>>

RefuseToRun ==
    /\ phase = "setup" /\ \E readable \in BOOLEAN : ~MayRun(readable)
    /\ phase' = "refused"
    /\ UNCHANGED <<generator, server, options, shortLived, nextKey, net, expired, guard, timeouts>>

----------------------------------------------------------------------------
(* One iteration of a user: submit, perhaps cancel, perhaps cancel all.    *)

Send(v, r) ==
    /\ call' = [call EXCEPT ![v] = r]
    /\ reply' = [reply EXCEPT ![v] = "pending"]
    /\ net' = net \cup {r}

MayStart(v) == phase = "running" /\ ~Waiting(v)

\* submitOrder: a child goes to the desk of its parent.
TokensFor(p) == IF p = None THEN options.tokens ELSE {Desk(p)}

\* chooseParent.
ParentsFor(v) == {None} \cup (IF options.children THEN Tracked(v) ELSE {})

LastOf(s, n) == IF Len(s) > n THEN SubSeq(s, Len(s) - n + 1, Len(s)) ELSE s

\* submitOrder: a user's iteration starts.
Submit(v, t, k, p) ==
    /\ Send(v, Create(v, t, k, p))
    /\ pc' = [pc EXCEPT ![v] = "idle"]
    /\ lastToken' = [lastToken EXCEPT ![v] = t]

\* submitOrder with a fresh key, which is remembered if keys are replayed.
SubmitFresh(v) ==
    /\ MayStart(v) /\ nextKey <= MaxKeys
    /\ \E p \in ParentsFor(v) : \E t \in TokensFor(p) : Submit(v, t, nextKey, p)
    /\ nextKey' = nextKey + 1
    /\ usedKeys' = IF options.replays
                   THEN [usedKeys EXCEPT ![v] = LastOf(Append(@, nextKey), ReplayableKeys)]
                   ELSE usedKeys
    /\ UNCHANGED <<open, links, asked, resent, server, run, expired, guard, timeouts>>

\* submitOrder with a key this user has sent before.
SubmitReplay(v) ==
    /\ MayStart(v) /\ options.replays
    /\ \E p \in ParentsFor(v), i \in DOMAIN usedKeys[v] :
           /\ \E t \in TokensFor(p) : Submit(v, t, usedKeys[v][i], p)
           /\ resent' = resent \cup {usedKeys[v][i]}
    /\ Cardinality(resent') <= MaxResent
    /\ UNCHANGED <<open, links, usedKeys, asked, server, run, nextKey, expired, guard, timeouts>>

\* cancelOldest, once the submit of the iteration was answered.
SendCancel(v) ==
    /\ MayStart(v) /\ pc[v] = "submitted"
    /\ options.cancels /\ open[v] # <<>>
    /\ Send(v, [user |-> v, kind |-> "cancel", token |-> Desk(Head(open[v])),
                order |-> Head(open[v])])
    /\ pc' = [pc EXCEPT ![v] = "cancelled"]
    /\ UNCHANGED <<open, links, usedKeys, lastToken, asked, resent, server, run, nextKey,
                   expired, guard, timeouts>>

\* issueCancelAll, at the end of every CANCEL_ALL_EVERY-th iteration.
SendCancelAll(v) ==
    /\ MayStart(v) /\ pc[v] \in {"submitted", "cancelled"}
    /\ options.cancelAll
    /\ Send(v, [user |-> v, kind |-> "cancelAll", token |-> lastToken[v]])
    /\ pc' = [pc EXCEPT ![v] = "idle"]
    /\ UNCHANGED <<open, links, usedKeys, lastToken, asked, resent, server, run, nextKey,
                   expired, guard, timeouts>>

----------------------------------------------------------------------------
(* The service.                                                            *)

Awaited(r) == call[r.user] = r

Answer(r, status) ==
    /\ net' = net \ {r}
    /\ reply' = IF Awaited(r) THEN [reply EXCEPT ![r.user] = status] ELSE reply
    /\ UNCHANGED <<open, links, usedKeys, call, pc, lastToken, asked, resent, run, nextKey,
                   expired, guard, timeouts>>

\* Why a child of p cannot be created on the desk of token t.
ParentRefusal(t, p) ==
    CASE p = None -> "none"
      [] p # None /\ Desk(p) # t -> "otherDesk"
      [] p # None /\ Desk(p) = t /\ life[p] \in {"none", "done"} -> "parentGone"
      [] p # None /\ Desk(p) = t /\ life[p] = "pending" -> "parentPending"
      [] OTHER -> "none"

Creates(r) == r \in net /\ r.kind = "create" /\ r.token \notin expired
Named(r)   == <<r.token, r.key>>

\* A create command is handled for the first time and accepted.
Accept(r) ==
    /\ Creates(r) /\ recorded[Named(r)] = "none"
    /\ ParentRefusal(r.token, r.parent) = "none"
    /\ life' = [life EXCEPT ![Named(r)] = "live"]
    /\ up' = [up EXCEPT ![Named(r)] = r.parent]
    /\ recorded' = [recorded EXCEPT ![Named(r)] = "ok"]
    /\ Answer(r, "ok")

\* It is refused: risk, validation, capacity, or because of its parent.
Refuse(r) ==
    /\ Creates(r) /\ recorded[Named(r)] = "none"
    /\ LET why == IF ParentRefusal(r.token, r.parent) = "none"
                  THEN "business" ELSE ParentRefusal(r.token, r.parent)
       IN  recorded' = [recorded EXCEPT ![Named(r)] = why] /\ Answer(r, why)
    /\ UNCHANGED <<life, up>>

\* It was handled before: the recorded result is the answer.
AnswerFromRecord(r) ==
    /\ Creates(r) /\ recorded[Named(r)] # "none"
    /\ Answer(r, recorded[Named(r)])
    /\ UNCHANGED server

\* What a cancel of o takes with it: the live orders below it, level by level.
Taken(o) ==
    {c \in Orders : \A S \in SUBSET Orders :
        (o \in S /\ \A d \in Orders : up[d] \in S /\ life[d] \in {"live", "pending"} => d \in S)
            => c \in S}

HandleCancel(r) ==
    /\ r \in net /\ r.kind = "cancel" /\ r.token \notin expired
    /\ IF life[r.order] = "live"
       THEN /\ life' = [o \in Orders |-> IF o \in Taken(r.order) THEN "pending" ELSE life[o]]
            /\ Answer(r, "ok")
       ELSE /\ life' = life /\ Answer(r, "raced")
    /\ UNCHANGED <<up, recorded>>

HandleCancelAll(r) ==
    /\ r \in net /\ r.kind = "cancelAll" /\ r.token \notin expired
    /\ life' = [o \in Orders |-> IF Desk(o) = r.token /\ life[o] = "live" THEN "pending"
                                 ELSE life[o]]
    /\ Answer(r, "ok")
    /\ UNCHANGED <<up, recorded>>

\* The gateway refuses an expired token.
RefuseExpired(r) == r \in net /\ r.token \in expired /\ Answer(r, "expired") /\ UNCHANGED server

Expire(t) ==
    /\ phase = "running" /\ t \in shortLived \ expired
    /\ expired' = expired \cup {t}
    /\ UNCHANGED <<generator, server, run, nextKey, net, guard, timeouts>>

\* An order fills, or the venue confirms its cancellation.
End(o) ==
    /\ life[o] \in {"live", "pending"}
    /\ life' = [life EXCEPT ![o] = "done"]
    /\ UNCHANGED <<generator, up, recorded, run, nextKey, net, expired, guard, timeouts>>

----------------------------------------------------------------------------
(* What a user does with an answer.                                        *)

\* (mutant) the bound is not kept.
TrackUnbounded(v, o, p) ==
    IF o \in Tracked(v) THEN UNCHANGED <<open, links>>
    ELSE /\ open' = [open EXCEPT ![v] = Append(@, o)]
         /\ links' = [links EXCEPT ![v] = @ \cup ({p} \ {None}) \X {o}]

\* (mutant) the children of an evicted order stay entered under it.
TrackStale(v, o, p) ==
    IF o \in Tracked(v) THEN UNCHANGED <<open, links>>
    ELSE /\ open' = [open EXCEPT ![v] = LastOf(Append(@, o), OpenOrders)]
         /\ links' = [links EXCEPT ![v] = @ \cup ({p} \ {None}) \X {o}]

\* trackCreated.
Track(v, o, p) ==
    IF o \in Tracked(v) THEN UNCHANGED <<open, links>>
    ELSE LET longer  == Append(open[v], o)
             kept    == LastOf(longer, OpenOrders)
             evicted == {longer[i] : i \in 1..(Len(longer) - Len(kept))}
             known   == links[v] \cup ({p} \ {None}) \X {o}
         IN  /\ open' = [open EXCEPT ![v] = kept]
             /\ links' = [links EXCEPT ![v] = {l \in known : l[1] \notin evicted}]

\* Everything below root that the user knows of, and root itself.
Subtree(v, root) ==
    {c \in Orders : \A S \in SUBSET Orders :
        (root \in S /\ \A l \in links[v] : l[1] \in S => l[2] \in S) => c \in S}

\* The orders of s that are not in gone, in the order they stand in.
Without(s, gone) ==
    LET kept[n \in 0..Len(s)] ==
            IF n = 0 THEN <<>>
            ELSE IF s[n] \in gone THEN kept[n - 1] ELSE Append(kept[n - 1], s[n])
    IN  kept[Len(s)]

\* (mutant) an order is kept, to be cancelled again, unless its cancel was accepted.
ForgetAccepted(v, root) ==
    LET gone == IF reply[v] = "ok" THEN Subtree(v, root) ELSE {} IN
    /\ open' = [open EXCEPT ![v] = Without(@, gone)]
    /\ links' = [links EXCEPT ![v] = {l \in @ : l[1] \notin gone}]

\* (mutant) only the cancelled order itself is forgotten.
ForgetOne(v, root) ==
    /\ open' = [open EXCEPT ![v] = Without(@, {root})]
    /\ links' = [links EXCEPT ![v] = {l \in @ : l[1] # root}]

\* forgetSubtree.
Forget(v, root) ==
    LET gone == Subtree(v, root) IN
    /\ open' = [open EXCEPT ![v] = Without(@, gone)]
    /\ links' = [links EXCEPT ![v] = {l \in @ : l[1] \notin gone}]

Received(v, kind) ==
    /\ Waiting(v) /\ call[v].kind = kind
    /\ call' = [call EXCEPT ![v] = None]
    /\ reply' = [reply EXCEPT ![v] = "pending"]
    /\ IF reply[v] # "pending" THEN UNCHANGED timeouts
       ELSE timeouts < MaxTimeouts /\ timeouts' = timeouts + 1
    /\ UNCHANGED <<usedKeys, lastToken, resent, server, run, nextKey, net, expired>>

\* The answer to a submit: a 4xx feeds the guard, a 2xx is tracked if it is of use and
\* its body can be read.
SubmitAnswered(v) ==
    /\ Received(v, "create") /\ reply[v] # "pending"
    /\ IF reply[v] = "ok" /\ (options.cancels \/ options.children)
       THEN Track(v, Named(call[v]), call[v].parent) \/ UNCHANGED <<open, links>>
       ELSE UNCHANGED <<open, links>>
    /\ guard' = guard \cup ({reply[v]} \cap Refusals)
    /\ pc' = [pc EXCEPT ![v] = "submitted"]
    /\ UNCHANGED asked

\* 404 and 409 on a cancel are races and feed nothing.
CancelRefusal(status) == {status} \cap Refusals

\* The answer to a cancel, or its timeout: the subtree is forgotten either way.
CancelAnswered(v) ==
    /\ Received(v, "cancel")
    /\ Forget(v, call[v].order)
    /\ asked' = [asked EXCEPT ![v] = @ \cup {call[v].order}]
    /\ guard' = guard \cup CancelRefusal(reply[v])
    /\ UNCHANGED pc

\* The answer to a cancel-all, or its timeout: everything is forgotten.
CancelAllAnswered(v) ==
    /\ Received(v, "cancelAll")
    /\ open' = [open EXCEPT ![v] = <<>>] /\ links' = [links EXCEPT ![v] = {}]
    /\ guard' = guard \cup CancelRefusal(reply[v])
    /\ UNCHANGED <<asked, pc>>

\* A submit times out or fails with 5xx: the order, if any, is not tracked.
SubmitFailed(v) ==
    /\ Received(v, "create") /\ reply[v] = "pending"
    /\ pc' = [pc EXCEPT ![v] = "submitted"]
    /\ UNCHANGED <<open, links, asked, guard>>

\* A request that nobody waits for any more is lost.
Lose(r) ==
    /\ r \in net /\ ~Awaited(r)
    /\ net' = net \ {r}
    /\ UNCHANGED <<generator, server, run, nextKey, expired, guard, timeouts>>

----------------------------------------------------------------------------

UserStep(v) ==
    \/ SubmitFresh(v) \/ SubmitReplay(v) \/ SendCancel(v) \/ SendCancelAll(v)
    \/ SubmitAnswered(v) \/ SubmitFailed(v) \/ CancelAnswered(v) \/ CancelAllAnswered(v)

ServiceStep(r) ==
    \/ Accept(r) \/ Refuse(r) \/ AnswerFromRecord(r) \/ HandleCancel(r)
    \/ HandleCancelAll(r) \/ RefuseExpired(r) \/ Lose(r)

Next ==
    \/ Setup \/ RefuseToRun
    \/ \E v \in Users : UserStep(v)
    \/ \E r \in net : ServiceStep(r)
    \/ \E t \in Tokens : Expire(t)
    \/ \E o \in Orders : End(o)

Spec == Init /\ [][Next]_vars

----------------------------------------------------------------------------
\* A user never cancels an order a second time, which would answer 409 and count as
\* a race of the generator with itself.  It never holds an order twice, replayed keys
\* or not (trackCreated), and it does not come to hold an order again that it has
\* cancelled (forgetSubtree), unless the key of that order was sent again: setup lets
\* DUPLICATE_RATE and CANCEL_SHARE be set together, and then the recorded answer to a
\* replayed key brings back an order that was cancelled and forgotten, which the user
\* tracks, and cancels, once more.
CancelsEachOrderOnce ==
    \A v \in Users :
        /\ \A i, j \in DOMAIN open[v] : open[v][i] = open[v][j] => i = j
        /\ \A o \in Tracked(v) \cap asked[v] : o[2] \in resent

\* Not true of a run with replayed keys and cancels, see CancelsEachOrderOnce: what
\* trackCreated is written to rule out, an order the user has cancelled and holds again.
NeverCancelsAgain == \A v \in Users : Tracked(v) \cap asked[v] = {}

\* The generator never makes the service refuse a submit by its own doing: no child
\* goes to another desk than its parent (submitOrder), and none goes to an order whose
\* cancellation is pending (setup, forgetSubtree), as long as no key has been sent
\* again: a replayed key brings back, as a parent to choose, an order the user has
\* cancelled, and setup does not refuse DUPLICATE_RATE beside the other shares.
NoSelfMadeRefusal ==
    "otherDesk" \notin guard /\ (resent = {} => "parentPending" \notin guard)

\* What a user has entered as a child of an order is a child the service has accepted,
\* the order is one the user still holds, and it is the parent the service created the
\* child under, unless the key of the child was sent again: a replayed key may name
\* another parent than the recorded order has.
LinksMatchTree ==
    \A v \in Users : \A l \in links[v] :
        /\ recorded[l[2]] = "ok" /\ l[1] \in Tracked(v)
        /\ l[2][2] \notin resent => up[l[2]] = l[1]

=============================================================================

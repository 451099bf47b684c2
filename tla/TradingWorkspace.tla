-------------------------- MODULE TradingWorkspace --------------------------
(***************************************************************************)
(* The order blotter and the order ticket of the trading workspace         *)
(* (TradingWorkspacePage.tsx, trading/api.ts) of one user, over the order  *)
(* service of OrderStream.                                                 *)
(*                                                                         *)
(* The page fills its rows from four sources that nothing orders: the      *)
(* initial load, the stream with its reconnects, the Refresh button and    *)
(* the answers to the user's own commands.  A call and its answer are      *)
(* separate steps, and a call whose answer is lost may still be handled.   *)
(*                                                                         *)
(* The order of the rows is left out; the number of rows of one order is   *)
(* kept, as the page may show an order twice.                              *)
(***************************************************************************)
EXTENDS OrderStream

CONSTANTS
    MaxCalls,          \* bound on calls in progress
    MaxIntents,        \* bound on reviewed new orders
    None

ASSUME WorkspaceAssumption ==
    MaxIntents \in Nat /\ MaxCalls \in Nat \ {0} /\ None \notin Orders

VARIABLES
    page,              \* "loading", "ready", or "out": EmptyWorkspace
    rows,              \* orders: per order, the versions of its rows
    calls,
    ticket,            \* orderToModify: an order and the version it was clicked at
    reviewing,
    submitting,
    intents,           \* reviews opened for a new order
    intent,            \* the one whose review is open or was last open
    made               \* the intent for which the service created an order, 0: none

pageVars == <<page, rows, ticket, reviewing, submitting, intents, intent>>
vars     == <<streamVars, pageVars, calls, made>>

Slots     == 1..MaxCalls
Snapshots == [Orders -> Versions]
Nothing   == [o \in Orders |-> 0]
OnlyOrder(o, v) == [p \in Orders |-> IF p = o THEN v ELSE 0]

Kinds == {"load", "refresh", "create", "modify", "cancel", "cancelAll"}
Calls == [kind   : Kinds,
          order  : Orders \cup {None},
          base   : Versions,             \* expectedVersion of a modify
          intent : 0..MaxIntents,
          answer : {"pending", "ok", "refused"},
          got    : Snapshots,            \* the orders in the answer
          awaited : BOOLEAN]

ASSUME NoCallAssumption == None \notin Calls

Call(kind, o, v, i) ==
    [kind |-> kind, order |-> o, base |-> v, intent |-> i, answer |-> "pending",
     got |-> Nothing, awaited |-> TRUE]

Busy(s)      == calls[s] # None
Free(s)      == calls[s] = None
FirstFree(f) == {s \in Slots : f[s] = None /\ \A t \in 1..(s - 1) : f[t] # None}
Start(c)     == \E s \in FirstFree(calls) : calls' = [calls EXCEPT ![s] = c]

NoTicket == [order |-> None, version |-> 0]

TypeOK ==
    /\ StreamTypeOK
    /\ page \in {"loading", "ready", "out"}
    /\ rows \in [Orders -> Seq(Versions \ {0})]
    /\ calls \in [Slots -> Calls \cup {None}]
    /\ ticket \in [order : Orders \cup {None}, version : Versions]
    /\ reviewing \in BOOLEAN /\ submitting \in BOOLEAN
    /\ intents \in 0..MaxIntents /\ intent \in 0..intents
    /\ made \in [Orders -> 0..MaxIntents]

PageInit ==
    /\ page = "loading" /\ rows = [o \in Orders |-> <<>>]
    /\ ticket = NoTicket /\ reviewing = FALSE /\ submitting = FALSE
    /\ intents = 0 /\ intent = 0

Init ==
    /\ StreamInit /\ PageInit
    /\ calls = [s \in Slots |-> IF s = 1 THEN Call("load", None, 0, 0) ELSE None]
    /\ made = [o \in Orders |-> 0]

----------------------------------------------------------------------------
(* The rows.                                                               *)

\* (mutant) an event changes only rows that are there.
UpsertKnown(o, v) == rows' = [rows EXCEPT ![o] = [i \in DOMAIN @ |-> v]]

Upsert(o, v)  == rows' = [rows EXCEPT ![o] = IF @ = <<>> THEN <<v>> ELSE [i \in DOMAIN @ |-> v]]
Prepend(o, v) == rows' = [rows EXCEPT ![o] = <<v>> \o @]
MapAll(o, v)  == rows' = [rows EXCEPT ![o] = [i \in DOMAIN @ |-> v]]
\* (mutant) an order the answer does not have keeps a row.
ReplaceAllRows(f) == rows' = [o \in Orders |-> <<f[o]>>]

ReplaceAll(f) == rows' = [o \in Orders |-> IF f[o] = 0 THEN <<>> ELSE <<f[o]>>]

\* The rows whose buttons are shown: LIVE or PARTIALLY_FILLED.
LiveRows(o) == {rows[o][i] : i \in DOMAIN rows[o]} \ {v \in Versions : Ended(o, v)}

----------------------------------------------------------------------------
(* The order stream of the page.                                           *)

\* A connection is opened when the page is, and again one second after it ended.
Connect ==
    /\ page # "out" /\ sub = "none"
    /\ sub' = "asked"
    /\ UNCHANGED <<mem, doneAt, db, eventVars, snap, sent, wire, pageVars, calls, made>>

Receive(o) ==
    /\ wire[o] # <<>>
    /\ Upsert(o, Head(wire[o]))
    /\ wire' = [wire EXCEPT ![o] = Tail(@)]
    /\ UNCHANGED <<mem, doneAt, db, eventVars, sub, snap, sent, page, calls, ticket, reviewing,
                   submitting, intents, intent, made>>

Disconnect == sub # "none" /\ Close /\ UNCHANGED <<pageVars, calls, made>>

----------------------------------------------------------------------------
(* What the user does.                                                     *)

Acts == page = "ready" /\ UNCHANGED <<streamVars, page, rows, made>>

\* startModify, from the button of a row.
StartModify(o) ==
    /\ Acts
    /\ \E v \in LiveRows(o) : ticket' = [order |-> o, version |-> v]
    /\ reviewing' = FALSE
    /\ UNCHANGED <<calls, submitting, intents, intent>>

CancelModify ==
    /\ Acts /\ ticket # NoTicket
    /\ ticket' = NoTicket
    /\ UNCHANGED <<calls, reviewing, submitting, intents, intent>>

\* showReview; for a new order this is where the user's intent begins.
ShowReview ==
    /\ Acts /\ ~reviewing /\ reviewing' = TRUE
    /\ IF ticket = NoTicket
       THEN intents < MaxIntents /\ intents' = intents + 1 /\ intent' = intents + 1
       ELSE UNCHANGED <<intents, intent>>
    /\ UNCHANGED <<calls, ticket, submitting>>

CloseReview ==
    /\ Acts /\ reviewing /\ reviewing' = FALSE
    /\ UNCHANGED <<calls, ticket, submitting, intents, intent>>

\* What submitOrder sends.
Submitted ==
    IF ticket = NoTicket THEN Call("create", None, 0, intent)
    ELSE Call("modify", ticket.order, ticket.version, 0)

\* submitOrder, up to its await.
Submit ==
    /\ Acts /\ reviewing /\ ~submitting
    /\ Start(Submitted)
    /\ submitting' = TRUE
    /\ UNCHANGED <<ticket, reviewing, intents, intent>>

Ask(c) == Start(c) /\ UNCHANGED <<ticket, reviewing, submitting, intents, intent>>

Cancel(o) == Acts /\ LiveRows(o) # {} /\ Ask(Call("cancel", o, 0, 0))

CancelAll == Acts /\ (\E o \in Orders : LiveRows(o) # {}) /\ Ask(Call("cancelAll", None, 0, 0))

Refresh == Acts /\ Ask(Call("refresh", None, 0, 0))

----------------------------------------------------------------------------
(* The service, for one call.                                              *)

Pending(s, kind) == Busy(s) /\ calls[s].kind = kind /\ calls[s].answer = "pending"

Answer(s, status, f) ==
    /\ calls' = [calls EXCEPT ![s].answer = status, ![s].got = f]
    /\ UNCHANGED <<pageVars, db, sub, snap, sent, wire>>

HandleCreate(s) ==
    /\ Pending(s, "create")
    /\ \E o \in Orders :
           /\ mem[o] = 0 /\ Command(o) /\ Answer(s, "ok", OnlyOrder(o, 1))
           /\ made' = [made EXCEPT ![o] = calls[s].intent]

HandleModify(s) ==
    /\ Pending(s, "modify")
    /\ LET o == calls[s].order IN
           /\ mem[o] = calls[s].base /\ ~Ended(o, mem[o])
           /\ Command(o) /\ Answer(s, "ok", OnlyOrder(o, mem[o] + 1))
    /\ UNCHANGED made

\* A cancel is final at once or waits for the venue; either way it can be done once.
HandleCancel(s) ==
    /\ Pending(s, "cancel")
    /\ LET o == calls[s].order IN
           /\ mem[o] > 0 /\ CommandLast(o)
           /\ Answer(s, "ok", OnlyOrder(o, mem[o] + 1))
    /\ UNCHANGED made

HandleCancelAll(s) ==
    /\ Pending(s, "cancelAll")
    /\ LET hit == {o \in Orders : mem[o] \in 1..(MaxVersion - 1) /\ ~Ended(o, mem[o])} IN
           /\ mem' = [o \in Orders |-> IF o \in hit THEN mem[o] + 1 ELSE mem[o]]
           /\ doneAt' = [o \in Orders |-> IF o \in hit THEN mem[o] + 1 ELSE doneAt[o]]
           /\ owed' = [o \in Orders |-> IF o \in hit THEN owed[o] \cup {mem[o] + 1} ELSE owed[o]]
           /\ UNCHANGED <<reports, again>>
    /\ Answer(s, "ok", Nothing)
    /\ UNCHANGED made

\* GET /orders reads the database.
HandleQuery(s) ==
    /\ Pending(s, "load") \/ Pending(s, "refresh")
    /\ Answer(s, "ok", db)
    /\ UNCHANGED <<mem, doneAt, eventVars, made>>

\* Validation, risk, a version conflict, an order that ended, an expired token.
Refuse(s) ==
    /\ Busy(s) /\ calls[s].answer = "pending"
    /\ Answer(s, "refused", Nothing)
    /\ UNCHANGED <<mem, doneAt, eventVars, made>>

----------------------------------------------------------------------------
(* The answers.                                                            *)

\* The answer to the call in s, or its failure.
Hears(s, kind, status) ==
    /\ Busy(s) /\ calls[s].awaited /\ calls[s].kind = kind
    /\ calls[s].answer = status
    /\ calls' = [calls EXCEPT ![s] = None]
    /\ UNCHANGED <<streamVars, made>>

Fails(s, kind) ==
    /\ Busy(s) /\ calls[s].awaited /\ calls[s].kind = kind
    /\ calls' = [calls EXCEPT ![s] = IF @.answer = "pending" THEN [@ EXCEPT !.awaited = FALSE]
                                     ELSE None]
    /\ UNCHANGED <<streamVars, made>>

\* A load is heard only while the page that asked for it is there (active).
LoadDone(s) ==
    /\ Hears(s, "load", "ok")
    /\ ReplaceAll(calls[s].got) /\ page' = "ready"
    /\ UNCHANGED <<ticket, reviewing, submitting, intents, intent>>

LoadFailed(s) ==
    /\ Fails(s, "load")
    /\ page' = "ready"
    /\ UNCHANGED <<rows, ticket, reviewing, submitting, intents, intent>>

RefreshDone(s) ==
    /\ Hears(s, "refresh", "ok")
    /\ ReplaceAll(calls[s].got)
    /\ UNCHANGED <<page, ticket, reviewing, submitting, intents, intent>>

The(s) == CHOOSE o \in Orders : calls[s].got[o] > 0

CreateDone(s) ==
    /\ Hears(s, "create", "ok")
    /\ Prepend(The(s), calls[s].got[The(s)])
    /\ reviewing' = FALSE /\ submitting' = FALSE
    /\ UNCHANGED <<page, ticket, intents, intent>>

\* The answer clears whatever modification the ticket holds by now.
ModifyDone(s) ==
    /\ Hears(s, "modify", "ok")
    /\ MapAll(The(s), calls[s].got[The(s)])
    /\ ticket' = NoTicket /\ reviewing' = FALSE /\ submitting' = FALSE
    /\ UNCHANGED <<page, intents, intent>>

\* The review stays open, and the user may submit it again.
SubmitFailed(s) ==
    /\ Fails(s, "create") \/ Fails(s, "modify")
    /\ submitting' = FALSE
    /\ UNCHANGED <<page, rows, ticket, reviewing, intents, intent>>

CancelDone(s) ==
    /\ Hears(s, "cancel", "ok")
    /\ MapAll(calls[s].order, calls[s].got[calls[s].order])
    /\ UNCHANGED <<page, ticket, reviewing, submitting, intents, intent>>

\* cancelAll refreshes the rows when it is answered.
CancelAllDone(s) ==
    /\ Busy(s) /\ calls[s].awaited /\ calls[s].kind = "cancelAll" /\ calls[s].answer = "ok"
    /\ calls' = [calls EXCEPT ![s] = Call("refresh", None, 0, 0)]
    /\ UNCHANGED <<streamVars, pageVars, made>>

OtherFailed(s) ==
    /\ Fails(s, "refresh") \/ Fails(s, "cancel") \/ Fails(s, "cancelAll")
    /\ UNCHANGED pageVars

\* What nobody waits for is over once it is handled, or never arrives.
Forget(s) ==
    /\ Busy(s) /\ ~calls[s].awaited
    /\ calls' = [calls EXCEPT ![s] = None]
    /\ UNCHANGED <<streamVars, pageVars, made>>

----------------------------------------------------------------------------

\* Nobody waits for these calls any more.
Unheard(kinds) ==
    [s \in Slots |-> IF Free(s) \/ calls[s].kind \notin kinds THEN calls[s]
                     ELSE IF calls[s].answer # "pending" THEN None
                     ELSE [calls[s] EXCEPT !.awaited = FALSE]]

\* The access token expires: the stream is aborted and a load is no longer active.
\* The page stays mounted behind EmptyWorkspace and hears its other answers.
EndSession ==
    /\ page # "out" /\ page' = "out"
    /\ Close
    /\ calls' = Unheard({"load"})
    /\ UNCHANGED <<rows, ticket, reviewing, submitting, intents, intent, made>>

\* Signing in again leaves for the identity provider and loads the page anew.
SignIn ==
    /\ page = "out"
    /\ LET left == Unheard(Kinds) IN
           \E s \in FirstFree(left) : calls' = [left EXCEPT ![s] = Call("load", None, 0, 0)]
    /\ page' = "loading" /\ rows' = [o \in Orders |-> <<>>]
    /\ ticket' = NoTicket /\ reviewing' = FALSE /\ submitting' = FALSE
    /\ UNCHANGED <<streamVars, intents, intent, made>>

UserStep ==
    \/ CancelModify \/ ShowReview \/ CloseReview \/ Submit \/ CancelAll \/ Refresh
    \/ \E o \in Orders : StartModify(o) \/ Cancel(o)

CommandStep(s) ==
    \/ HandleCreate(s) \/ HandleModify(s) \/ HandleCancel(s) \/ HandleCancelAll(s)
    \/ HandleQuery(s) \/ Refuse(s)

AnswerStep(s) ==
    \/ LoadDone(s) \/ LoadFailed(s) \/ RefreshDone(s) \/ CreateDone(s) \/ ModifyDone(s)
    \/ SubmitFailed(s) \/ CancelDone(s) \/ CancelAllDone(s) \/ OtherFailed(s) \/ Forget(s)

Service(A) == A /\ UNCHANGED <<pageVars, calls, made>>

StreamStep ==
    \/ Service(Flush) \/ Service(ReadProjection) \/ Service(AddSubscription)
    \/ \E o \in Orders : \/ Service(Deliver(o)) \/ Service(PublishAgain(o))
                         \/ Service(Delivered(o)) \/ Service(VenueReport(o))
                         \/ \E v \in Versions : Service(DropEvent(o, v))

Next ==
    \/ UserStep \/ StreamStep
    \/ \E s \in Slots : CommandStep(s) \/ AnswerStep(s)
    \/ \E o \in Orders : Receive(o)
    \/ Connect \/ Disconnect \/ EndSession \/ SignIn

\* The service and the browser go on working; neither the user nor the venue must
\* act, and connections may break at any time.
Fairness ==
    /\ WF_vars(Service(Flush)) /\ WF_vars(Connect)
    /\ WF_vars(Service(ReadProjection)) /\ WF_vars(Service(AddSubscription))
    /\ \A o \in Orders : WF_vars(Receive(o)) /\ WF_vars(Service(Deliver(o)))
    /\ \A s \in Slots : WF_vars(AnswerStep(s)) /\ WF_vars(CommandStep(s))

Spec     == Init /\ [][Next]_vars
FairSpec == Spec /\ Fairness

----------------------------------------------------------------------------
\* Whatever the stream lost, and whatever stale answer overwrote a row: if the page
\* stays and the stream keeps being connected again, and each time long enough to be
\* brought up to date, then the rows end up as the orders are in the database.  Without another
\* connection they need not: an event of the outbox that is published late, or again, after
\* a report sets a row back and nothing is sent after it.
ReconnectRepairs ==
    (<>[](page # "out") /\ []<>(sub = "none") /\ []<>Quiet)
        => <>[](\A o \in Orders : db[o] > 0 =>
                    rows[o] # <<>> /\ \A i \in DOMAIN rows[o] : rows[o][i] = db[o])

\* A row never shows, and a modification never names, a version that the order does not
\* have yet: rows come from the load, the stream, a refresh and the user's commands in any
\* order, and each may be stale, but none is ahead of the service (TradingWorkspacePage,
\* OrderStreamService), although a report may be shown before it is committed.
NothingAhead ==
    /\ \A o \in Orders : \A i \in DOMAIN rows[o] : rows[o][i] <= mem[o]
    /\ ticket # NoTicket => ticket.version <= mem[ticket.order]

Awaits(f, s) == f[s] # None /\ f[s].awaited /\ f[s].kind \in {"create", "modify"}

\* The button of the review is blocked exactly while the answer to one submit is awaited:
\* over failures, expiry of the session and a new sign-in it is neither free for a second
\* one nor blocked for good (submitOrder: setSubmitting, and its finally).
OneSubmit ==
    /\ submitting <=> \E s \in Slots : Awaits(calls, s)
    /\ \A s, t \in Slots : Awaits(calls, s) /\ Awaits(calls, t) => s = t

\* One reviewed order is created once, although its submit may be repeated after an
\* answer was lost (trading/api.ts:18-26).
OneOrderPerIntent ==
    \A o, p \in Orders : made[o] # 0 /\ made[o] = made[p] => o = p

\* A connection brings the desk projection and then every update of it
\* (order-management-service/README.md:27): once all that was published has been
\* sent, what was sent last of an order is how it stands.
StreamCatchesUp ==
    Quiet => sent = db
=============================================================================

----------------------------- MODULE OrderStream -----------------------------
(***************************************************************************)
(* Orders as the order-management service shows them: from memory in the   *)
(* answer to a command, from the database in GET /orders, and as server-   *)
(* sent events on GET /orders/stream (OrderQueryController,                *)
(* OrderStreamService).  The database trails memory.                       *)
(*                                                                         *)
(* The events of commands are published once their row in the outbox is    *)
(* committed, in the order of the versions of their order, and the last of *)
(* them perhaps again (OutboxDelivery: at least once).  Those of the       *)
(* venue's reports go to the publisher at once, committed or not, and are  *)
(* lost where a queue is full; they overtake the others, and are overtaken *)
(* by them.                                                                *)
(*                                                                         *)
(* The content of an order is told by its version, and whether it can      *)
(* still be changed by the version with which it ended.                    *)
(*                                                                         *)
(* subscribe reads the desk's orders in the caller's query, registers the  *)
(* subscription and then sends the orders it read: three steps between     *)
(* which the publisher thread runs.                                        *)
(***************************************************************************)
EXTENDS Naturals, Sequences

CONSTANTS
    Orders,
    MaxVersion,        \* bound on the changes of one order
    MaxWire,           \* bound on undelivered events of one order
    MayDrop            \* may the dispatcher's queues be full

ASSUME OrderStreamAssumption ==
    MaxVersion \in Nat \ {0} /\ MaxWire \in Nat \ {0} /\ MayDrop \in BOOLEAN

VARIABLES
    mem,               \* OrderStateCache: the version of each order, 0 if there is none
    doneAt,            \* the version with which an order ended
    db,                \* trading_order: the committed version
    owed,              \* the versions of commands that are still to be published
    reports,           \* the versions of the venue's reports that are
    again,             \* the version of a command that may be published once more, or 0
    sub,               \* the desk's subscription: "none", "asked", "read" or "added"
    snap,              \* the orders subscribe has read and not yet sent
    sent,              \* the last version sent on this connection
    wire               \* per order, the events sent and not received

eventVars  == <<owed, reports, again>>
streamVars == <<mem, doneAt, db, eventVars, sub, snap, sent, wire>>

Versions    == 0..MaxVersion
Ended(o, v) == v >= doneAt[o]
Quiet       == /\ sub = "added"
               /\ \A o \in Orders : /\ mem[o] = db[o] /\ snap[o] = 0 /\ wire[o] = <<>>
                                    /\ owed[o] = {} /\ reports[o] = {} /\ again[o] = 0

StreamTypeOK ==
    /\ mem \in [Orders -> Versions] /\ db \in [Orders -> Versions]
    /\ doneAt \in [Orders -> 1..(MaxVersion + 1)]
    /\ owed \in [Orders -> SUBSET (Versions \ {0})] /\ reports \in [Orders -> SUBSET (Versions \ {0})]
    /\ again \in [Orders -> Versions]
    /\ sub \in {"none", "asked", "read", "added"}
    /\ snap \in [Orders -> Versions] /\ sent \in [Orders -> Versions]
    /\ wire \in [Orders -> Seq(Versions \ {0})]

StreamInit ==
    /\ mem \in [Orders -> {0, 1}]
    /\ doneAt = [o \in Orders |-> MaxVersion + 1]
    /\ db = mem
    /\ owed = [o \in Orders |-> {}] /\ reports = [o \in Orders |-> {}]
    /\ again = [o \in Orders |-> 0]
    /\ sub = "none"
    /\ snap = [o \in Orders |-> 0] /\ sent = [o \in Orders |-> 0]
    /\ wire = [o \in Orders |-> <<>>]

\* A command or a report of the venue changes an order: a new version, perhaps the last.
Change(o) ==
    /\ mem[o] < MaxVersion
    /\ mem' = [mem EXCEPT ![o] = @ + 1]
    /\ \/ UNCHANGED doneAt
       \/ ~Ended(o, mem[o]) /\ doneAt' = [doneAt EXCEPT ![o] = mem[o] + 1]

\* A command of the user: its event has a row.
Command(o) ==
    /\ Change(o)
    /\ owed' = [owed EXCEPT ![o] = @ \cup {mem[o] + 1}]
    /\ UNCHANGED <<reports, again>>

CommandLast(o) == Command(o) /\ ~Ended(o, mem[o]) /\ doneAt'[o] = mem[o] + 1

\* (mutant) the event of a report is raised before the report is refused.
VenueReportRefused(o) ==
    /\ db[o] > 0 /\ mem[o] < MaxVersion
    /\ reports' = [reports EXCEPT ![o] = @ \cup {mem[o] + 1}]
    /\ UNCHANGED <<mem, doneAt, db, owed, again, sub, snap, sent, wire>>

\* The venue fills an order it was sent, ends it or confirms its cancellation.
VenueReport(o) ==
    /\ db[o] > 0 /\ Change(o)
    /\ reports' = [reports EXCEPT ![o] = @ \cup {mem[o] + 1}]
    /\ UNCHANGED <<db, owed, again, sub, snap, sent, wire>>

\* AsyncDbWriter commits what memory holds, with the outbox rows.
Flush ==
    /\ db # mem
    /\ db' = mem                      \* in one batch
    /\ UNCHANGED <<mem, doneAt, eventVars, sub, snap, sent, wire>>

Emit(o, v) ==
    /\ wire' = [wire EXCEPT ![o] = Append(@, v)]
    /\ sent' = [sent EXCEPT ![o] = v]

Lowest(S, v) == v \in S /\ \A w \in S : v <= w

\* A shard takes the next event of a command of o, which the outbox may deliver again
\* until it is recorded as delivered, or the next report.
TakeRow(o, v) ==
    /\ Lowest(owed[o], v) /\ v <= db[o]
    /\ owed' = [owed EXCEPT ![o] = @ \ {v}] /\ again' = [again EXCEPT ![o] = v]
    /\ UNCHANGED reports

TakeReport(o, v) ==
    /\ Lowest(reports[o], v)
    /\ reports' = [reports EXCEPT ![o] = @ \ {v}]
    /\ UNCHANGED <<owed, again>>

Take(o, v) == TakeRow(o, v) \/ TakeReport(o, v)

\* OrderStreamService.publish: to the subscriptions there are.
Publish(o, v) ==
    /\ Take(o, v) /\ Len(wire[o]) < MaxWire
    /\ IF sub = "added" THEN Emit(o, v) ELSE UNCHANGED <<wire, sent>>
    /\ UNCHANGED <<mem, doneAt, db, sub, snap>>

\* The queue to the stream is full, or for a report that of the shard: the event is
\* dropped.
DropEvent(o, v) ==
    /\ MayDrop /\ Take(o, v)
    /\ UNCHANGED <<mem, doneAt, db, sub, snap, sent, wire>>

PublishAgain(o) ==
    /\ again[o] > 0 /\ sub = "added" /\ Len(wire[o]) < MaxWire
    /\ Emit(o, again[o])
    /\ UNCHANGED <<mem, doneAt, db, eventVars, sub, snap>>

\* The event is recorded as delivered, and no copy of it is under way.
Delivered(o) ==
    /\ again[o] > 0
    /\ again' = [again EXCEPT ![o] = 0]
    /\ UNCHANGED <<mem, doneAt, db, owed, reports, sub, snap, sent, wire>>

\* The order query of GET /orders/stream.
ReadProjection ==
    /\ sub = "asked"
    /\ sub' = "read" /\ snap' = db
    /\ UNCHANGED <<mem, doneAt, db, eventVars, sent, wire>>

\* subscribe registers the subscription.
AddSubscription ==
    /\ sub = "read"
    /\ sub' = "added"
    /\ UNCHANGED <<mem, doneAt, db, eventVars, snap, sent, wire>>

\* subscribe sends the next order it read.
SendInitial(o) ==
    /\ sub = "added" /\ snap[o] > 0 /\ Len(wire[o]) < MaxWire
    /\ Emit(o, snap[o])
    /\ snap' = [snap EXCEPT ![o] = 0]
    /\ UNCHANGED <<mem, doneAt, db, eventVars, sub>>

\* The connection is gone: what was not received is lost.
Close ==
    /\ sub' = "none"
    /\ snap' = [o \in Orders |-> 0] /\ sent' = [o \in Orders |-> 0]
    /\ wire' = [o \in Orders |-> <<>>]
    /\ UNCHANGED <<mem, doneAt, db, eventVars>>

\* The service sends on a connection what it owes it.
Deliver(o) == (\E v \in Versions : Publish(o, v)) \/ SendInitial(o)
=============================================================================

--------------------------- MODULE OutboxDelivery ---------------------------
(***************************************************************************)
(* The shards that hand order events to the execution side                 *)
(* (ShardedOrderDispatcher) and their two producers.                       *)
(*                                                                         *)
(* The events of the user's commands have a row in the delivery outbox     *)
(* (DurableOrderOutputDispatcher): a scheduled poll claims the earliest    *)
(* undelivered one of each order, hands it to the single-threaded queue of *)
(* the order's shard, and what becomes of it there is recorded in the row. *)
(* The events of the venue's reports (fills, rejections, cancellations and *)
(* what is rolled up from them: ExecutionCommandHandler) have none: the    *)
(* writer thread hands them to the same queues and forgets them.           *)
(*                                                                         *)
(* A claim is a lease of one minute.  A lease that has run out, because    *)
(* the process was lost or because the event waits for long in its shard,  *)
(* makes the event claimable again; several copies of it may then be on    *)
(* their way.  Nothing but the rows outlives a crash.                      *)
(*                                                                         *)
(* An event is its order and its place among the rows of that order.  A    *)
(* report is its order, its number among the reports of it and how many    *)
(* rows the order had when it was raised.                                  *)
(*                                                                         *)
(* An operator commented (mutant) is a wrong variant of the definition     *)
(* that follows it.                                                        *)
(***************************************************************************)
EXTENDS Naturals, Sequences, FiniteSets

CONSTANTS
    Orders, Shards,
    ShardOf,           \* floorMod(orderId.hashCode(), numShards)
    Capacity,          \* of the queue of one shard, besides the event being handled
    Poller,            \* the thread that polls
    None,
    MaxEvents,         \* bound on the rows of one order
    MaxReports,        \* bound on the reports of one order
    MaxFaults          \* bound on crashes, failed statements and leases that run out early

Events   == [order : Orders, at : Nat \ {0}]
Reports  == [order : Orders, report : Nat \ {0}, after : Nat]
Outcomes == [event : Events, ok : BOOLEAN]

ASSUME OutboxAssumption ==
    /\ ShardOf \in [Orders -> Shards] /\ Poller \notin Shards
    /\ Capacity \in Nat \ {0} /\ MaxEvents \in Nat /\ MaxFaults \in Nat
    /\ MaxReports \in Nat
    /\ None \notin Outcomes

VARIABLES
    status,            \* per order, the status of its rows in the order of sequence_id
    claimed,           \* the events poll has claimed and not dispatched yet
    queue,             \* the queue of each shard
    result,            \* per thread, the outcome it is about to record
    handled,           \* per order, the events processEvent has handled, as it did
    reported,          \* per order, how many reports were raised
    told,              \* per order, the reports processEvent has handled, as it did
    faults

rowVars    == <<status, claimed, handled>>
reportVars == <<reported, told>>
vars       == <<rowVars, queue, result, reportVars, faults>>

Threads  == Shards \cup {Poller}
Statuses == {"PENDING", "IN_FLIGHT", "EXPIRED", "DELIVERED", "DELETED"}
InFlight == {"IN_FLIGHT", "EXPIRED"}     \* status = 'IN_FLIGHT', the lease over or not
Done     == {"DELIVERED", "DELETED"}

TypeOK ==
    /\ status \in [Orders -> Seq(Statuses)]
    /\ claimed \subseteq Events
    /\ queue \in [Shards -> Seq(Events \cup Reports)] /\ \A s \in Shards : Len(queue[s]) <= Capacity + 1
    /\ result \in [Threads -> Outcomes \cup {None}]
    /\ handled \in [Orders -> Seq(Nat)] /\ told \in [Orders -> Seq(Nat)]
    /\ reported \in [Orders -> 0..MaxReports]
    /\ faults \in 0..MaxFaults

Nobody == [t \in Threads |-> None]

Init ==
    /\ status = [o \in Orders |-> <<>>]
    /\ claimed = {} /\ queue = [s \in Shards |-> <<>>] /\ result = Nobody
    /\ handled = [o \in Orders |-> <<>>] /\ told = [o \in Orders |-> <<>>]
    /\ reported = [o \in Orders |-> 0] /\ faults = 0

\* AsyncDbWriter commits the next event of an order.
Write(o) ==
    /\ Len(status[o]) < MaxEvents
    /\ status' = [status EXCEPT ![o] = Append(@, "PENDING")]
    /\ UNCHANGED <<claimed, queue, result, handled, reportVars, faults>>

\* (mutant) the queue takes what comes.
NeverFull(s) == FALSE

\* The event being handled, or recorded, does not take a place in the queue.
Full(s) == Len(queue[s]) > (IF result[s] = None THEN Capacity ELSE Capacity - 1)

\* (mutant) the newest comes first.
OfferFirst(s, e) == queue' = [queue EXCEPT ![s] = <<e>> \o @]

Offer(s, e) == queue' = [queue EXCEPT ![s] = Append(@, e)]

Fault == faults < MaxFaults /\ faults' = faults + 1

----------------------------------------------------------------------------
(* The poll.                                                               *)

Due(S, e) == e.at \in DOMAIN status[e.order] /\ status[e.order][e.at] \in S
EarliestOf(e) == \A n \in 1..(e.at - 1) : status[e.order][n] \in Done
Candidates == [order : Orders, at : 1..MaxEvents]

\* (mutant) leases do not count.
ClaimableAtOnce == {e \in Candidates : Due({"PENDING", "IN_FLIGHT", "EXPIRED"}, e) /\ EarliestOf(e)}

\* (mutant) an event that is in flight is never claimed again.
ClaimableOnce == {e \in Candidates : Due({"PENDING"}, e) /\ EarliestOf(e)}

\* The candidates of the query.  All earlier events of the order are delivered.
Claimable == {e \in Candidates : Due({"PENDING", "EXPIRED"}, e) /\ EarliestOf(e)}

\* One statement claims them all (the batch is larger than the orders modelled).  The
\* queries for the metrics come before the hand-over: where one fails, nothing of what
\* was claimed is handed over.
Poll ==
    /\ claimed = {} /\ result[Poller] = None /\ Claimable # {}
    /\ \/ claimed' = Claimable /\ UNCHANGED faults
       \/ Fault /\ UNCHANGED claimed
    /\ status' = [o \in Orders |-> [n \in DOMAIN status[o] |->
                     IF [order |-> o, at |-> n] \in Claimable THEN "IN_FLIGHT" ELSE status[o][n]]]
    /\ UNCHANGED <<queue, result, handled, reportVars>>

\* deliver: the shard takes the event, or rejects it.
Dispatch(e) ==
    LET s == ShardOf[e.order] IN
    /\ e \in claimed /\ result[Poller] = None
    /\ claimed' = claimed \ {e}
    /\ \/ ~Full(s) /\ Offer(s, e) /\ UNCHANGED result
       \/ Full(s) /\ result' = [result EXCEPT ![Poller] = [event |-> e, ok |-> FALSE]]
                  /\ UNCHANGED queue
    /\ UNCHANGED <<status, handled, reportVars, faults>>

----------------------------------------------------------------------------
(* The writer thread.                                                      *)

\* enqueueOutbox of ExecutionCommandHandler, for an order the venue knows: the shard
\* takes the event, or it is lost.
Report(o) ==
    LET s == ShardOf[o]
        r == [order |-> o, report |-> reported[o] + 1, after |-> Len(status[o])] IN
    /\ handled[o] # <<>> /\ reported[o] < MaxReports
    /\ reported' = [reported EXCEPT ![o] = @ + 1]
    /\ IF Full(s) THEN UNCHANGED queue ELSE Offer(s, r)
    /\ UNCHANGED <<rowVars, result, told, faults>>

----------------------------------------------------------------------------
(* The shards.                                                             *)

\* processEvent on the shard's thread.  Its outcome is recorded by that thread, or by
\* the poller if the event was done before the poller attached its callback, which it
\* does before it hands over another.
ProcessEvent(s, ok) ==
    LET e == Head(queue[s]) IN
    /\ queue[s] # <<>> /\ result[s] = None /\ e \in Events
    /\ \E t \in {s} \cup (IF \A i \in 2..Len(queue[s]) : queue[s][i] \in Reports
                          THEN {Poller} ELSE {}) :
          /\ result[t] = None
          /\ result' = [result EXCEPT ![t] = [event |-> e, ok |-> ok]]
    /\ queue' = [queue EXCEPT ![s] = Tail(@)]
    /\ handled' = IF ok THEN [handled EXCEPT ![e.order] = Append(@, e.at)] ELSE handled
    /\ UNCHANGED <<status, claimed, reportVars, faults>>

\* Nobody looks at what became of a report.
ProcessReport(s, ok) ==
    LET r == Head(queue[s]) IN
    /\ queue[s] # <<>> /\ result[s] = None /\ r \in Reports
    /\ queue' = [queue EXCEPT ![s] = Tail(@)]
    /\ told' = IF ok THEN [told EXCEPT ![r.order] = Append(@, r.report)] ELSE told
    /\ UNCHANGED <<rowVars, result, reported, faults>>

Process(s, ok) == ProcessEvent(s, ok) \/ ProcessReport(s, ok)

\* (mutant) whatever the status of the row is by now.
RecordedBlindly(r) ==
    [status EXCEPT ![r.event.order][r.event.at] = IF r.ok THEN "DELIVERED" ELSE "PENDING"]

\* recordResult, WHERE status = 'IN_FLIGHT'.
Recorded(r) ==
    IF status[r.event.order][r.event.at] \in InFlight
    THEN [status EXCEPT ![r.event.order][r.event.at] = IF r.ok THEN "DELIVERED" ELSE "PENDING"]
    ELSE status

Record(t) ==
    /\ result[t] # None
    /\ status' = Recorded(result[t])
    /\ result' = [result EXCEPT ![t] = None]
    /\ UNCHANGED <<claimed, queue, handled, reportVars, faults>>

----------------------------------------------------------------------------
(* Time and faults.                                                        *)

\* The update of the row fails; the exception ends in the completed future.
RecordLost(t) ==
    /\ Fault /\ result[t] # None
    /\ result' = [result EXCEPT ![t] = None]
    /\ UNCHANGED <<rowVars, queue, reportVars>>

UnderWay(e) ==
    \/ e \in claimed
    \/ \E s \in Shards : \E i \in DOMAIN queue[s] : queue[s][i] = e
    \/ \E t \in Threads : result[t] # None /\ result[t].event = e

\* A lease runs out: a fault while the event is still under way.
Expire(o, n) ==
    /\ n \in DOMAIN status[o] /\ status[o][n] = "IN_FLIGHT"
    /\ status' = [status EXCEPT ![o][n] = "EXPIRED"]
    /\ IF UnderWay([order |-> o, at |-> n]) THEN Fault ELSE UNCHANGED faults
    /\ UNCHANGED <<claimed, queue, result, handled, reportVars>>

\* deleteDelivered, after the days of retention.
DeleteDelivered(o, n) ==
    /\ n \in DOMAIN status[o] /\ status[o][n] = "DELIVERED"
    /\ status' = [status EXCEPT ![o][n] = "DELETED"]
    /\ UNCHANGED <<claimed, queue, result, handled, reportVars, faults>>

Crash ==
    /\ Fault
    /\ claimed' = {} /\ queue' = [s \in Shards |-> <<>>] /\ result' = Nobody
    /\ UNCHANGED <<status, handled, reportVars>>

----------------------------------------------------------------------------

Next ==
    \/ Poll \/ Crash
    \/ \E e \in claimed : Dispatch(e)
    \/ \E s \in Shards, ok \in BOOLEAN : Process(s, ok)
    \/ \E t \in Threads : Record(t) \/ RecordLost(t)
    \/ \E o \in Orders : Write(o) \/ Report(o) \/ \E n \in 1..MaxEvents : Expire(o, n) \/ DeleteDelivered(o, n)

Spec == Init /\ [][Next]_vars

\* The scheduler and the shards' threads run, leases run out, and the venue does not
\* refuse an event for ever.
Fairness ==
    /\ WF_vars(Poll)
    /\ WF_vars(\E e \in claimed : Dispatch(e))
    /\ \A s \in Shards : WF_vars(\E ok \in BOOLEAN : Process(s, ok)) /\ SF_vars(Process(s, TRUE))
    /\ \A t \in Threads : WF_vars(Record(t))
    /\ \A o \in Orders, n \in 1..MaxEvents : WF_vars(Expire(o, n))

FairSpec == Spec /\ Fairness

----------------------------------------------------------------------------
\* The outbox keeps the promise of OrderedDelivery: over rejections, failures, lost
\* updates, early leases and crashes, no event with a row overtakes an earlier one of its
\* order, and none is marked delivered that was not handled (docs/execution/README.md,
\* "Partitioning and ordering contract"; docs/plan/LMAX_PHASE4_PROGRESS.md); and of the
\* reports, which a full shard or a crash may lose, none is handled twice or late.
Delivery == INSTANCE OrderedDelivery WITH
    written   <- [o \in Orders |-> Len(status[o])],
    confirmed <- [o \in Orders |-> Cardinality({n \in DOMAIN status[o] : status[o][n] \in Done})]

DeliversInOrder == Delivery!Spec

\* Without a fault no event with a row is handled twice, however often its shard
\* rejected it or the venue failed on it.
HandledOnceWithoutFaults ==
    faults = 0 => \A o \in Orders : \A i, j \in DOMAIN handled[o] :
                      handled[o][i] = handled[o][j] => i = j

\* Every event with a row is delivered in the end: a full shard, a failing venue, a lost
\* update or a crash delays its order and does not stop it.
EventuallyDelivered ==
    \A o \in Orders : \A n \in 1..MaxEvents :
        (n \in DOMAIN status[o]) ~> (n \in DOMAIN status[o] /\ status[o][n] \in Done)

----------------------------------------------------------------------------
(* What the comments and the documents say, and the code does not keep.    *)

\* docs/execution/README.md: "every event for one order ... is processed strictly in order
\* on the same shard": a report is not handled before an event that had its row when the
\* report was raised.
NoReportOvertakes ==
    [][\A s \in Shards :
          LET r == Head(queue[s]) IN
          queue[s] # <<>> /\ r \in Reports /\ told'[r.order] # told[r.order]
              => r.after <= Delivery!LastOf(handled[r.order])]_vars

\* ExecutionCommandHandler.enqueueOutbox: "every one of them needs to survive a crash":
\* each report that was raised is handled in the end.
EveryReportIsTold ==
    \A o \in Orders : \A n \in 1..MaxReports :
        reported[o] = n ~> \E i \in DOMAIN told[o] : told[o][i] = n
=============================================================================

---------------------------- MODULE OutboxProofs ----------------------------
(***************************************************************************)
(* What holds of the outbox for any orders, shards, capacities and         *)
(* numbers of events, reports and faults: it is well typed, it implements  *)
(* OrderedDelivery, and without lapses and failed writes it hands every    *)
(* event that has a row over once.                                         *)
(***************************************************************************)
EXTENDS OutboxDelivery, FiniteSetTheorems, SequenceTheorems, TLAPS

----------------------------------------------------------------------------
(* Type correctness.                                                       *)

\* A sequence with one element replaced.
LEMMA StatusExcept ==
  ASSUME TypeOK, NEW o \in Orders, NEW n \in DOMAIN status[o], NEW v \in Statuses
  PROVE  [status EXCEPT ![o][n] = v] \in [Orders -> Seq(Statuses)]
  <1>1. status[o] \in Seq(Statuses) /\ n \in 1..Len(status[o])
    BY DEF TypeOK
  <1>2. [status[o] EXCEPT ![n] = v] \in Seq(Statuses)
    BY <1>1, ExceptSeq
  <1> QED
    BY <1>2 DEF TypeOK

\* What the claim makes of the rows.
LEMMA ClaimedStatus ==
  ASSUME TypeOK, Poll
  PROVE  /\ status' \in [Orders -> Seq(Statuses)]
         /\ \A o \in Orders : DOMAIN status'[o] = DOMAIN status[o]
  <1> DEFINE S(o) == [n \in DOMAIN status[o] |->
                IF [order |-> o, at |-> n] \in Claimable THEN "IN_FLIGHT" ELSE status[o][n]]
  <1>1. ASSUME NEW o \in Orders
        PROVE  S(o) \in Seq(Statuses)
    <2>1. status[o] \in Seq(Statuses) /\ Len(status[o]) \in Nat
          /\ DOMAIN status[o] = 1..Len(status[o])
      BY DEF TypeOK
    <2>2. S(o) \in [1..Len(status[o]) -> Statuses]
      BY <2>1 DEF Statuses
    <2> QED
      BY <2>1, <2>2, SeqDef
  <1>2. status' = [o \in Orders |-> S(o)]
    BY DEF Poll
  <1> QED
    BY <1>1, <1>2

\* What has a row is not a report.
LEMMA KindsDiffer == \A e \in Events : \A r \in Reports : e # r
  <1> SUFFICES ASSUME NEW e \in Events, NEW r \in Reports, e = r PROVE FALSE
    OBVIOUS
  <1>1. "at" \in DOMAIN e /\ "at" \notin DOMAIN r
    BY DEF Events, Reports
  <1> QED
    BY <1>1

\* An element that is put at the end of a shard's queue, where it is not full.
LEMMA OfferType ==
  ASSUME TypeOK, NEW s \in Shards, NEW e \in Events \cup Reports, ~Full(s), Offer(s, e)
  PROVE  /\ queue' \in [Shards -> Seq(Events \cup Reports)]
         /\ \A z \in Shards : Len(queue'[z]) <= Capacity + 1
  <1>1. queue[s] \in Seq(Events \cup Reports) /\ Len(queue[s]) <= Capacity
    BY OutboxAssumption DEF TypeOK, Full
  <1>2. /\ Append(queue[s], e) \in Seq(Events \cup Reports)
        /\ Len(Append(queue[s], e)) <= Capacity + 1
    BY <1>1, OutboxAssumption
  <1> QED
    BY <1>2 DEF TypeOK, Offer

\* The first of a shard's queue is taken.
LEMMA TakeType ==
  ASSUME TypeOK, NEW s \in Shards, queue[s] # <<>>, queue' = [queue EXCEPT ![s] = Tail(@)]
  PROVE  /\ queue' \in [Shards -> Seq(Events \cup Reports)]
         /\ \A z \in Shards : Len(queue'[z]) <= Capacity + 1
  <1>1. queue[s] \in Seq(Events \cup Reports)
    BY DEF TypeOK
  <1>2. /\ Tail(queue[s]) \in Seq(Events \cup Reports)
        /\ Len(Tail(queue[s])) = Len(queue[s]) - 1
    BY <1>1, HeadTailProperties
  <1> QED
    BY <1>1, <1>2, OutboxAssumption DEF TypeOK

LEMMA TypeInit == Init => TypeOK
  BY OutboxAssumption DEF Init, TypeOK, Nobody, Threads, Outcomes

LEMMA TypeStep == TypeOK /\ [Next]_vars => TypeOK'
  <1> SUFFICES ASSUME TypeOK, [Next]_vars PROVE TypeOK'
    OBVIOUS
  <1> USE OutboxAssumption
  <1>1. CASE Poll
    <2>1. Claimable \subseteq Events
      BY DEF Claimable, Candidates, Events
    <2> QED
      BY <1>1, <2>1, ClaimedStatus DEF Poll, TypeOK, Fault, reportVars
  <1>2. CASE Crash
    BY <1>2 DEF Crash, Fault, TypeOK, Nobody, Threads, reportVars
  <1>3. ASSUME NEW e \in claimed, Dispatch(e) PROVE TypeOK'
    <2>1. e \in Events /\ ShardOf[e.order] \in Shards
      BY DEF TypeOK, Events
    <2>2. CASE queue' = queue /\ result' = [result EXCEPT ![Poller] = [event |-> e, ok |-> FALSE]]
      <3>1. [event |-> e, ok |-> FALSE] \in Outcomes
        BY <2>1 DEF Outcomes
      <3>2. result' \in [Threads -> Outcomes \cup {None}]
        BY <2>2, <3>1 DEF TypeOK, Threads, Outcomes
      <3> QED
        BY <1>3, <2>2, <3>2 DEF Dispatch, TypeOK, Outcomes, reportVars
    <2>3. CASE ~Full(ShardOf[e.order]) /\ result' = result /\ Offer(ShardOf[e.order], e)
      <3>1. /\ queue' \in [Shards -> Seq(Events \cup Reports)]
            /\ \A z \in Shards : Len(queue'[z]) <= Capacity + 1
        BY <2>1, <2>3, OfferType
      <3> QED
        BY <1>3, <2>3, <3>1 DEF Dispatch, TypeOK, reportVars
    <2> QED
      BY <1>3, <2>2, <2>3 DEF Dispatch
  <1>4. ASSUME NEW s \in Shards, NEW ok \in BOOLEAN, ProcessEvent(s, ok) PROVE TypeOK'
    <2>1. /\ queue' \in [Shards -> Seq(Events \cup Reports)]
          /\ \A z \in Shards : Len(queue'[z]) <= Capacity + 1
      BY <1>4, TakeType DEF ProcessEvent
    <2>2. Head(queue[s]) \in Events
      BY <1>4 DEF ProcessEvent
    <2>3. handled' \in [Orders -> Seq(Nat)]
      BY <1>4, <2>2 DEF TypeOK, ProcessEvent, Events
    <2>4. result' \in [Threads -> Outcomes \cup {None}]
      BY <1>4, <2>2 DEF TypeOK, ProcessEvent, Outcomes, Threads
    <2> QED
      BY <1>4, <2>1, <2>3, <2>4 DEF ProcessEvent, TypeOK, reportVars
  <1>11. ASSUME NEW s \in Shards, NEW ok \in BOOLEAN, ProcessReport(s, ok) PROVE TypeOK'
    <2>1. /\ queue' \in [Shards -> Seq(Events \cup Reports)]
          /\ \A z \in Shards : Len(queue'[z]) <= Capacity + 1
      BY <1>11, TakeType DEF ProcessReport
    <2>2. told' \in [Orders -> Seq(Nat)]
      BY <1>11 DEF TypeOK, ProcessReport, Reports
    <2> QED
      BY <1>11, <2>1, <2>2 DEF ProcessReport, TypeOK, rowVars
  <1>12. ASSUME NEW o \in Orders, Report(o) PROVE TypeOK'
    <2> DEFINE s == ShardOf[o]
               r == [order |-> o, report |-> reported[o] + 1, after |-> Len(status[o])]
    <2>1. s \in Shards /\ r \in Reports
      BY DEF TypeOK, Reports
    <2>2. /\ queue' \in [Shards -> Seq(Events \cup Reports)]
          /\ \A z \in Shards : Len(queue'[z]) <= Capacity + 1
      <3>1. CASE Full(s)
        BY <1>12, <3>1 DEF Report, TypeOK
      <3>2. CASE ~Full(s)
        <4>1. Offer(s, r)
          BY <1>12, <3>2 DEF Report
        <4> QED
          BY <2>1, <3>2, <4>1, OfferType
      <3> QED
        BY <3>1, <3>2
    <2>3. reported' \in [Orders -> 0..MaxReports]
      BY <1>12 DEF Report, TypeOK
    <2> QED
      BY <1>12, <2>2, <2>3 DEF Report, TypeOK, rowVars
  <1>5. ASSUME NEW t \in Threads, Record(t) PROVE TypeOK'
    <2>1. result[t] \in Outcomes
      BY <1>5 DEF TypeOK, Record, Outcomes
    <2>2. Recorded(result[t]) \in [Orders -> Seq(Statuses)]
      <3> DEFINE e == result[t].event
      <3>1. e.order \in Orders
        BY <2>1 DEF Outcomes, Events
      <3>2. CASE e.at \in DOMAIN status[e.order]
        BY <3>1, <3>2, StatusExcept DEF Recorded, Statuses, TypeOK
      <3>3. CASE e.at \notin DOMAIN status[e.order]
        <4>1. ASSUME NEW v
              PROVE  [status EXCEPT ![e.order][e.at] = v] = status
          BY <3>1, <3>3 DEF TypeOK
        <4> QED
          BY <4>1 DEF Recorded, TypeOK
      <3> QED
        BY <3>2, <3>3
    <2> QED
      BY <1>5, <2>2 DEF Record, TypeOK, reportVars
  <1>6. ASSUME NEW t \in Threads, RecordLost(t) PROVE TypeOK'
    BY <1>6 DEF RecordLost, Fault, TypeOK, rowVars, reportVars
  <1>7. ASSUME NEW o \in Orders, Write(o) PROVE TypeOK'
    BY <1>7 DEF Write, TypeOK, Statuses, reportVars
  <1>8. ASSUME NEW o \in Orders, NEW n \in 1..MaxEvents, Expire(o, n) PROVE TypeOK'
    <2>1. status' \in [Orders -> Seq(Statuses)]
      BY <1>8, StatusExcept DEF Expire, Statuses
    <2> QED
      BY <1>8, <2>1 DEF Expire, Fault, TypeOK, reportVars
  <1>9. ASSUME NEW o \in Orders, NEW n \in 1..MaxEvents, DeleteDelivered(o, n) PROVE TypeOK'
    <2>1. status' \in [Orders -> Seq(Statuses)]
      BY <1>9, StatusExcept DEF DeleteDelivered, Statuses
    <2> QED
      BY <1>9, <2>1 DEF DeleteDelivered, TypeOK, reportVars
  <1>10. CASE UNCHANGED vars
    BY <1>10 DEF vars, rowVars, reportVars, TypeOK
  <1> QED
    BY <1>1, <1>2, <1>3, <1>4, <1>5, <1>6, <1>7, <1>8, <1>9, <1>10, <1>11, <1>12 DEF Next, Process

\* Every reachable state of the outbox is well typed (DurableOrderOutputDispatcher,
\* ShardedOrderDispatcher); in particular no shard's queue exceeds its capacity.
THEOREM OutboxTypeCorrect == Spec => []TypeOK
  BY TypeInit, TypeStep, PTL DEF Spec

----------------------------------------------------------------------------
(* The order of delivery.                                                  *)

DoneOf(o)    == {n \in DOMAIN status[o] : status[o][n] \in Done}
Confirmed(o) == Cardinality(DoneOf(o))
Last(o)      == Delivery!LastOf(handled[o])

\* The delivered rows of an order are its first ones.
DonePrefix == \A o \in Orders : Confirmed(o) \in Nat /\ DoneOf(o) = 1..Confirmed(o)

\* An event is handled before its row is marked, and at most one is ahead of its row.
HandledNext == \A o \in Orders : Last(o) \in Nat /\ Last(o) \in {Confirmed(o), Confirmed(o) + 1}

\* A copy under way is of the event handled last or of the next one.
Current(e) ==
    /\ e.at \in DOMAIN status[e.order]
    /\ Last(e.order) <= e.at /\ e.at <= Confirmed(e.order) + 1

ClaimedCurrent ==
    \A e \in claimed : Current(e) /\ \A f \in claimed : e.order = f.order => e.at = f.at

Queued(f, s) == \E i \in DOMAIN queue[s] : queue[s][i] = f

QueuedCurrent ==
    \A s \in Shards : \A f \in Events : Queued(f, s) => Current(f) /\ ShardOf[f.order] = s

\* In a shard, and between a shard and the claim, no copy is behind a later event.
QueuedInOrder ==
    \A s \in Shards : \A i, j \in DOMAIN queue[s] :
        i < j /\ queue[s][i] \in Events /\ queue[s][j] \in Events
          /\ queue[s][i].order = queue[s][j].order
            => queue[s][i].at <= queue[s][j].at

ClaimedBehind ==
    \A e \in claimed : \A s \in Shards : \A i \in DOMAIN queue[s] :
        queue[s][i] \in Events /\ queue[s][i].order = e.order => queue[s][i].at <= e.at

\* An outcome is of an event of the outbox; a success is of one that was handled.
OutcomeHandled ==
    \A t \in Threads : \A f \in Events : result[t] # None /\ result[t].event = f =>
        /\ f.at \in DOMAIN status[f.order] /\ f.at <= Confirmed(f.order) + 1
        /\ result[t].ok => f.at <= Last(f.order)

Copies == ClaimedCurrent /\ QueuedCurrent /\ QueuedInOrder /\ ClaimedBehind /\ OutcomeHandled
OrderInv == TypeOK /\ DonePrefix /\ HandledNext /\ Copies

\* A prefix is as long as it has members.
LEMMA PrefixLength ==
  ASSUME NEW c \in Nat
  PROVE  Cardinality(1..c) = c
  BY FS_Interval, FS_EmptySet

\* Progress of the rows that leaves what is done as it is.
RowsKept ==
    \A o \in Orders : DOMAIN status[o] \subseteq DOMAIN status'[o] /\ DoneOf(o)' = DoneOf(o)

\* The events in the queues are those that were there, in the same order.
QueueKept ==
    \A s \in Shards : \A i, j \in DOMAIN queue'[s] :
        queue'[s][i] \in Events /\ queue'[s][j] \in Events =>
            \E k, l \in DOMAIN queue[s] :
                /\ queue[s][k] = queue'[s][i] /\ queue[s][l] = queue'[s][j]
                /\ i < j => k < l

LEMMA SameQueue ==
  ASSUME queue' = queue
  PROVE  QueueKept
  BY DEF QueueKept

LEMMA KeptQueued ==
  ASSUME QueueKept
  PROVE  \A s \in Shards : \A f \in Events : Queued(f, s)' => Queued(f, s)
  BY DEF QueueKept, Queued

LEMMA KeptOrder ==
  ASSUME OrderInv, RowsKept, handled' = handled
  PROVE  /\ DonePrefix' /\ HandledNext'
         /\ \A o \in Orders : Confirmed(o)' = Confirmed(o) /\ Last(o)' = Last(o)
         /\ \A e \in Events : Current(e) => Current(e)'
  <1>1. \A o \in Orders : Confirmed(o)' = Confirmed(o) /\ Last(o)' = Last(o)
    BY DEF RowsKept, Confirmed, Last, Delivery!LastOf
  <1>2. \A e \in Events : Current(e) => Current(e)'
    BY <1>1 DEF Current, RowsKept, Events
  <1> QED
    BY <1>1, <1>2 DEF OrderInv, DonePrefix, HandledNext, RowsKept

\* The outcomes still to be recorded stay good when some of them are gone.
LEMMA KeptOutcomes ==
  ASSUME OrderInv, RowsKept, handled' = handled,
         \A t \in Threads : result'[t] # None => result'[t] = result[t]
  PROVE  OutcomeHandled'
  <1> SUFFICES ASSUME NEW t \in Threads, NEW f \in Events, result'[t] # None, result'[t].event = f
               PROVE  /\ f.at \in DOMAIN status'[f.order] /\ f.at <= Confirmed(f.order)' + 1
                      /\ result'[t].ok => f.at <= Last(f.order)'
    BY DEF OutcomeHandled
  <1>1. result[t] # None /\ result[t].event = f /\ result'[t].ok = result[t].ok
    OBVIOUS
  <1>2. /\ f.at \in DOMAIN status[f.order] /\ f.at <= Confirmed(f.order) + 1
        /\ result[t].ok => f.at <= Last(f.order)
    BY <1>1 DEF OrderInv, Copies, OutcomeHandled
  <1>3. f.order \in Orders
    BY DEF Events
  <1>4. Confirmed(f.order)' = Confirmed(f.order) /\ Last(f.order)' = Last(f.order)
    BY <1>3, KeptOrder
  <1> QED
    BY <1>1, <1>2, <1>3, <1>4 DEF RowsKept

\* The copies under way stay in order when some of them are gone.
LEMMA KeptCopies ==
  ASSUME OrderInv, TypeOK', RowsKept, handled' = handled,
         claimed' \subseteq claimed, QueueKept,
         \A t \in Threads : result'[t] # None => result'[t] = result[t]
  PROVE  OrderInv'
  <1>1. /\ DonePrefix' /\ HandledNext'
        /\ \A o \in Orders : Confirmed(o)' = Confirmed(o) /\ Last(o)' = Last(o)
        /\ \A e \in Events : Current(e) => Current(e)'
    BY KeptOrder
  <1>2. ClaimedCurrent'
    BY <1>1 DEF OrderInv, Copies, ClaimedCurrent, TypeOK
  <1>3. QueuedCurrent'
    BY <1>1, KeptQueued DEF OrderInv, Copies, QueuedCurrent
  <1>4. QueuedInOrder' /\ ClaimedBehind'
    <2>1. QueuedInOrder'
      BY DEF OrderInv, Copies, QueuedInOrder, QueueKept
    <2>2. ClaimedBehind'
      BY DEF OrderInv, Copies, ClaimedBehind, QueueKept
    <2> QED
      BY <2>1, <2>2
  <1>5. OutcomeHandled'
    BY KeptOutcomes
  <1> QED
    BY <1>1, <1>2, <1>3, <1>4, <1>5 DEF OrderInv, Copies

\* A row that is done stays done, and one that is not stays so.
LEMMA RowChange ==
  ASSUME TypeOK, NEW o \in Orders, NEW n \in DOMAIN status[o], NEW v \in Statuses,
         status' = [status EXCEPT ![o][n] = v], v \in Done <=> status[o][n] \in Done
  PROVE  RowsKept
  <1>1. \A p \in Orders : DOMAIN status'[p] = DOMAIN status[p]
    BY DEF TypeOK
  <1>2. \A p \in Orders : \A m \in DOMAIN status[p] :
           status'[p][m] = IF p = o /\ m = n THEN v ELSE status[p][m]
    BY DEF TypeOK
  <1>3. \A p \in Orders : DoneOf(p)' = DoneOf(p)
    BY <1>1, <1>2 DEF DoneOf
  <1> QED
    BY <1>1, <1>3 DEF RowsKept

LEMMA OrderInit == Init => OrderInv
  <1> SUFFICES ASSUME Init PROVE OrderInv
    OBVIOUS
  <1>1. TypeOK
    BY TypeInit
  <1>2. \A o \in Orders : DoneOf(o) = {}
    BY DEF Init, DoneOf
  <1>3. \A o \in Orders : Confirmed(o) = 0
    BY <1>2, FS_EmptySet DEF Confirmed
  <1>4. DonePrefix
    BY <1>2, <1>3 DEF DonePrefix
  <1>5. HandledNext
    BY <1>3 DEF HandledNext, Last, Delivery!LastOf, Init
  <1>6. Copies
    BY DEF Init, Nobody, Copies, ClaimedCurrent, QueuedCurrent, Queued, QueuedInOrder,
           ClaimedBehind, OutcomeHandled
  <1> QED
    BY <1>1, <1>4, <1>5, <1>6 DEF OrderInv

LEMMA WriteKeeps ==
  ASSUME OrderInv, TypeOK', NEW o \in Orders, Write(o)
  PROVE  RowsKept /\ OrderInv'
  <1>1. status[o] \in Seq(Statuses)
    BY DEF OrderInv, TypeOK
  <1>2. status'[o] = Append(status[o], "PENDING") /\ \A p \in Orders \ {o} : status'[p] = status[p]
    BY DEF OrderInv, TypeOK, Write
  <1>3. DOMAIN status'[o] = DOMAIN status[o] \cup {Len(status[o]) + 1}
    BY <1>1, <1>2
  <1>4. \A n \in DOMAIN status'[o] :
            status'[o][n] = IF n \in DOMAIN status[o] THEN status[o][n] ELSE "PENDING"
    BY <1>1, <1>2
  <1>5. DoneOf(o)' = DoneOf(o)
    BY <1>3, <1>4 DEF DoneOf, Done
  <1>6. RowsKept
    BY <1>2, <1>3, <1>5 DEF RowsKept, DoneOf
  <1> QED
    BY <1>6, KeptCopies, SameQueue DEF Write

LEMMA ExpireKeeps ==
  ASSUME OrderInv, TypeOK', NEW o \in Orders, NEW n \in 1..MaxEvents, Expire(o, n)
  PROVE  RowsKept /\ OrderInv'
  <1>1. RowsKept
    BY RowChange DEF OrderInv, Expire, Done, Statuses
  <1> QED
    BY <1>1, KeptCopies, SameQueue DEF Expire

LEMMA DeleteKeeps ==
  ASSUME OrderInv, TypeOK', NEW o \in Orders, NEW n \in 1..MaxEvents, DeleteDelivered(o, n)
  PROVE  RowsKept /\ OrderInv'
  <1>1. RowsKept
    BY RowChange DEF OrderInv, DeleteDelivered, Done, Statuses
  <1> QED
    BY <1>1, KeptCopies, SameQueue DEF DeleteDelivered

LEMMA RecordLostKeeps ==
  ASSUME OrderInv, TypeOK', NEW t \in Threads, RecordLost(t)
  PROVE  RowsKept /\ OrderInv'
  <1>1. RowsKept
    BY DEF RowsKept, RecordLost, DoneOf, rowVars
  <1>2. \A u \in Threads : result'[u] # None => result'[u] = result[u]
    BY DEF OrderInv, TypeOK, RecordLost
  <1> QED
    BY <1>1, <1>2, KeptCopies, SameQueue DEF RecordLost, rowVars

LEMMA CrashKeeps ==
  ASSUME OrderInv, TypeOK', Crash
  PROVE  RowsKept /\ OrderInv'
  <1>1. RowsKept
    BY DEF RowsKept, Crash, DoneOf
  <1>2. DonePrefix' /\ HandledNext'
    BY <1>1, KeptOrder DEF Crash
  <1>3. Copies'
    BY DEF Crash, Nobody, Copies, ClaimedCurrent, QueuedCurrent, Queued, QueuedInOrder,
           ClaimedBehind, OutcomeHandled
  <1> QED
    BY <1>1, <1>2, <1>3 DEF OrderInv

\* What the query picks is the first event of its order that is not delivered.
LEMMA ClaimableIsNext ==
  ASSUME OrderInv, NEW e \in Claimable
  PROVE  e \in Events /\ e.at \in DOMAIN status[e.order] /\ e.at = Confirmed(e.order) + 1
  <1>1. e.order \in Orders /\ e.at \in 1..MaxEvents /\ e \in Events
    BY OutboxAssumption DEF Claimable, Candidates, Events
  <1>2. e.at \in DOMAIN status[e.order] /\ status[e.order][e.at] \notin Done /\ EarliestOf(e)
    BY DEF Claimable, Due, Done
  <1> DEFINE c == Confirmed(e.order)
  <1>3. c \in Nat /\ DoneOf(e.order) = 1..c
    BY <1>1 DEF OrderInv, DonePrefix
  <1>4. e.at \notin 1..c
    BY <1>2, <1>3 DEF DoneOf
  <1>5. \A n \in 1..(e.at - 1) : n \in DoneOf(e.order)
    BY <1>1, <1>2, OutboxAssumption DEF EarliestOf, DoneOf, OrderInv, TypeOK
  <1>6. e.at = 1 \/ e.at - 1 \in 1..c
    BY <1>1, <1>3, <1>5, OutboxAssumption
  <1> QED
    BY <1>1, <1>2, <1>3, <1>4, <1>6, OutboxAssumption

LEMMA PollKeeps ==
  ASSUME OrderInv, TypeOK', Poll
  PROVE  RowsKept /\ OrderInv'
  <1>1. \A o \in Orders : DOMAIN status'[o] = DOMAIN status[o]
    BY ClaimedStatus DEF OrderInv
  <1>2. \A o \in Orders : \A n \in DOMAIN status[o] :
            status'[o][n] \in Done <=> status[o][n] \in Done
    BY DEF Poll, Claimable, Due, Done, OrderInv, TypeOK
  <1>3. RowsKept
    BY <1>1, <1>2 DEF RowsKept, DoneOf
  <1>4. /\ DonePrefix' /\ HandledNext'
        /\ \A o \in Orders : Confirmed(o)' = Confirmed(o) /\ Last(o)' = Last(o)
        /\ \A e \in Events : Current(e) => Current(e)'
    BY <1>3, KeptOrder DEF Poll
  <1>5. claimed' \subseteq Claimable
    BY DEF Poll
  <1>6. \A e \in Claimable : Current(e) /\ e \in Events /\ e.at = Confirmed(e.order) + 1
    BY ClaimableIsNext DEF Current, OrderInv, HandledNext, DonePrefix, Events
  <1>7. ClaimedCurrent'
    BY <1>4, <1>5, <1>6 DEF ClaimedCurrent
  <1>8. QueuedCurrent' /\ QueuedInOrder'
    BY <1>4 DEF OrderInv, Copies, QueuedCurrent, Queued, QueuedInOrder, TypeOK, Poll
  <1>9. ClaimedBehind'
    <2> SUFFICES ASSUME NEW e \in Claimable, NEW s \in Shards, NEW i \in DOMAIN queue[s],
                        queue[s][i] \in Events,
                        queue[s][i].order = e.order
                 PROVE  queue[s][i].at <= e.at
      BY <1>5 DEF ClaimedBehind, Poll
    <2>2. Current(queue[s][i])
      BY DEF OrderInv, Copies, QueuedCurrent, Queued
    <2> QED
      BY <1>6, <2>2 DEF Current
  <1>10. OutcomeHandled'
    BY <1>3, KeptOutcomes DEF Poll
  <1> QED
    BY <1>3, <1>4, <1>7, <1>8, <1>9, <1>10 DEF OrderInv, Copies

LEMMA DispatchKeeps ==
  ASSUME OrderInv, TypeOK', NEW e \in claimed, Dispatch(e)
  PROVE  RowsKept /\ OrderInv'
  <1>1. RowsKept
    BY DEF RowsKept, Dispatch, DoneOf
  <1>2. /\ DonePrefix' /\ HandledNext'
        /\ \A o \in Orders : Confirmed(o)' = Confirmed(o) /\ Last(o)' = Last(o)
        /\ \A f \in Events : Current(f) => Current(f)'
    BY <1>1, KeptOrder DEF Dispatch
  <1>3. claimed' \subseteq claimed /\ claimed \subseteq Events /\ e \in Events
    BY DEF Dispatch, OrderInv, TypeOK
  <1>4. ClaimedCurrent'
    BY <1>2, <1>3 DEF ClaimedCurrent, OrderInv, Copies
  <1> DEFINE s == ShardOf[e.order]
  <1>5. CASE ~Full(s) /\ Offer(s, e) /\ UNCHANGED result
    <2>1. s \in Shards /\ queue[s] \in Seq(Events \cup Reports)
      BY <1>3, OutboxAssumption DEF Events, OrderInv, TypeOK
    <2>2. /\ queue'[s] = Append(queue[s], e)
          /\ \A z \in Shards \ {s} : queue'[z] = queue[z]
      BY <1>5, <2>1 DEF OrderInv, TypeOK, Offer
    <2>3. /\ DOMAIN queue'[s] = DOMAIN queue[s] \cup {Len(queue[s]) + 1}
          /\ \A i \in DOMAIN queue'[s] :
                queue'[s][i] = IF i \in DOMAIN queue[s] THEN queue[s][i] ELSE e
          /\ Len(queue[s]) \in Nat /\ DOMAIN queue[s] = 1..Len(queue[s])
      BY <2>1, <2>2
    <2>4. \A z \in Shards : \A i \in DOMAIN queue'[z] :
              \/ i \in DOMAIN queue[z] /\ queue'[z][i] = queue[z][i]
              \/ z = s /\ i = Len(queue[s]) + 1 /\ queue'[z][i] = e
      BY <2>2, <2>3
    <2>5. QueuedCurrent'
      <3> SUFFICES ASSUME NEW z \in Shards, NEW f \in Events, Queued(f, z)'
                   PROVE  Current(f)' /\ ShardOf[f.order] = z
        BY DEF QueuedCurrent
      <3>1. Queued(f, z) \/ (z = s /\ f = e)
        BY <2>4 DEF Queued
      <3>2. Current(f) /\ ShardOf[f.order] = z
        BY <3>1 DEF OrderInv, Copies, QueuedCurrent, Queued, ClaimedCurrent
      <3> QED
        BY <1>2, <3>2
    <2>6. QueuedInOrder'
      <3> SUFFICES ASSUME NEW z \in Shards, NEW i \in DOMAIN queue'[z], NEW j \in DOMAIN queue'[z],
                          i < j, queue'[z][i] \in Events, queue'[z][j] \in Events,
                          queue'[z][i].order = queue'[z][j].order
                   PROVE  queue'[z][i].at <= queue'[z][j].at
        BY DEF QueuedInOrder
      <3>1. CASE j \in DOMAIN queue[z] /\ queue'[z][j] = queue[z][j]
        <4>1. i \in DOMAIN queue[z] /\ queue'[z][i] = queue[z][i]
          BY <2>2, <2>3, <2>4, <3>1
        <4> QED
          BY <3>1, <4>1 DEF OrderInv, Copies, QueuedInOrder
      <3>2. CASE z = s /\ j = Len(queue[s]) + 1 /\ queue'[z][j] = e
        <4>1. i \in DOMAIN queue[z] /\ queue'[z][i] = queue[z][i]
          BY <2>3, <2>4, <3>2
        <4> QED
          BY <3>2, <4>1 DEF OrderInv, Copies, ClaimedBehind
      <3> QED
        BY <2>4, <3>1, <3>2
    <2>7. ClaimedBehind'
      <3> SUFFICES ASSUME NEW f \in claimed', NEW z \in Shards, NEW i \in DOMAIN queue'[z],
                          queue'[z][i] \in Events, queue'[z][i].order = f.order
                   PROVE  queue'[z][i].at <= f.at
        BY DEF ClaimedBehind
      <3>1. CASE i \in DOMAIN queue[z] /\ queue'[z][i] = queue[z][i]
        BY <1>3, <3>1 DEF OrderInv, Copies, ClaimedBehind
      <3>2. CASE queue'[z][i] = e
        BY <1>3, <3>2 DEF OrderInv, Copies, ClaimedCurrent, Events
      <3> QED
        BY <2>4, <3>1, <3>2
    <2>8. OutcomeHandled'
      BY <1>1, <1>5, KeptOutcomes DEF Dispatch
    <2> QED
      BY <1>1, <1>2, <1>4, <2>5, <2>6, <2>7, <2>8 DEF OrderInv, Copies
  <1>6. CASE queue' = queue /\ result' = [result EXCEPT ![Poller] = [event |-> e, ok |-> FALSE]]
    <2>1. QueuedCurrent'
      BY <1>2, <1>6 DEF OrderInv, Copies, QueuedCurrent, Queued, TypeOK
    <2>2. QueuedInOrder' /\ ClaimedBehind'
      BY <1>3, <1>6 DEF OrderInv, Copies, QueuedInOrder, ClaimedBehind
    <2>3. Current(e)
      BY DEF OrderInv, Copies, ClaimedCurrent
    <2>4. \A t \in Threads :
             result'[t] = IF t = Poller THEN [event |-> e, ok |-> FALSE] ELSE result[t]
      BY <1>6 DEF OrderInv, TypeOK
    <2>5. OutcomeHandled'
      <3> SUFFICES ASSUME NEW t \in Threads, NEW f \in Events,
                          result'[t] # None, result'[t].event = f
                   PROVE  /\ f.at \in DOMAIN status'[f.order] /\ f.at <= Confirmed(f.order)' + 1
                          /\ result'[t].ok => f.at <= Last(f.order)'
        BY DEF OutcomeHandled
      <3>1. CASE t = Poller
        <4>1. f = e /\ result'[t].ok = FALSE
          BY <2>4, <3>1
        <4>2. e.at \in DOMAIN status'[e.order] /\ e.at <= Confirmed(e.order)' + 1
          BY <1>2, <1>3, <2>3 DEF Current, Events, Dispatch
        <4> QED
          BY <4>1, <4>2
      <3>2. CASE t # Poller
        <4>1. result[t] # None /\ result[t].event = f /\ result'[t] = result[t]
          BY <2>4, <3>2
        <4>2. /\ f.at \in DOMAIN status[f.order] /\ f.at <= Confirmed(f.order) + 1
              /\ result[t].ok => f.at <= Last(f.order)
          BY <4>1 DEF OrderInv, Copies, OutcomeHandled
        <4> QED
          BY <1>2, <4>1, <4>2 DEF Dispatch, Events
      <3> QED
        BY <3>1, <3>2
    <2> QED
      BY <1>1, <1>2, <1>4, <2>1, <2>2, <2>5 DEF OrderInv, Copies
  <1> QED
    BY <1>5, <1>6 DEF Dispatch

LEMMA LastOfAppend ==
  ASSUME NEW q \in Seq(Nat), NEW n \in Nat
  PROVE  Append(q, n) # <<>> /\ Append(q, n)[Len(Append(q, n))] = n
  <1>1. Len(Append(q, n)) = Len(q) + 1 /\ Len(q) \in Nat
    OBVIOUS
  <1> QED
    BY <1>1

LEMMA ProcessEventKeeps ==
  ASSUME OrderInv, TypeOK', NEW s \in Shards, NEW ok \in BOOLEAN, ProcessEvent(s, ok)
  PROVE  RowsKept /\ OrderInv'
  <1> DEFINE e == Head(queue[s])
  <1>1. RowsKept /\ \A o \in Orders : Confirmed(o)' = Confirmed(o)
    BY DEF RowsKept, ProcessEvent, DoneOf, Confirmed
  <1>2. /\ queue[s] \in Seq(Events \cup Reports) /\ queue[s] # <<>> /\ Len(queue[s]) \in Nat \ {0}
        /\ DOMAIN queue[s] = 1..Len(queue[s])
        /\ e = queue[s][1] /\ e \in Events
    BY DEF OrderInv, TypeOK, ProcessEvent
  <1>3. /\ \A i \in DOMAIN Tail(queue[s]) :
              i \in Nat \ {0} /\ i + 1 \in DOMAIN queue[s] /\ Tail(queue[s])[i] = queue[s][i + 1]
    BY <1>2
  <1>4. queue'[s] = Tail(queue[s]) /\ \A z \in Shards \ {s} : queue'[z] = queue[z]
    BY DEF OrderInv, TypeOK, ProcessEvent
  <1>5. Queued(e, s) /\ Current(e) /\ ShardOf[e.order] = s /\ e.order \in Orders /\ e.at \in Nat
    <2>1. Queued(e, s)
      BY <1>2 DEF Queued
    <2> QED
      BY <1>2, <2>1 DEF OrderInv, Copies, QueuedCurrent, Events
  \* Nothing on its way is behind the event that was handled.
  <1>6. \A z \in Shards : \A f \in Events :
            Queued(f, z)' => Queued(f, z) /\ (f.order = e.order => e.at <= f.at)
    <2> SUFFICES ASSUME NEW z \in Shards, NEW f \in Events, Queued(f, z)'
                 PROVE  Queued(f, z) /\ (f.order = e.order => e.at <= f.at)
      OBVIOUS
    <2>1. PICK i \in DOMAIN queue'[z] : queue'[z][i] = f
      BY DEF Queued
    <2>2. CASE z = s
      <3>1. i \in Nat \ {0} /\ i + 1 \in DOMAIN queue[s] /\ queue[s][i + 1] = f
        BY <1>3, <1>4, <2>1, <2>2
      <3>2. 1 \in DOMAIN queue[s] /\ 1 < i + 1
        BY <1>2, <3>1
      <3>3. f.order = e.order => e.at <= f.at
        BY <1>2, <3>1, <3>2 DEF OrderInv, Copies, QueuedInOrder
      <3> QED
        BY <2>2, <3>1, <3>3 DEF Queued
    <2>3. CASE z # s
      <3>1. Queued(f, z)
        BY <1>4, <2>1, <2>3 DEF Queued
      <3>2. ShardOf[f.order] = z
        BY <3>1 DEF OrderInv, Copies, QueuedCurrent
      <3> QED
        BY <1>5, <2>3, <3>1, <3>2
    <2> QED
      BY <2>2, <2>3
  <1>7. \A f \in claimed : f \in Events /\ Current(f) /\ (f.order = e.order => e.at <= f.at)
    BY <1>2 DEF OrderInv, Copies, ClaimedCurrent, ClaimedBehind, TypeOK
  <1>8. \A o \in Orders : Last(o)' = IF ok /\ o = e.order THEN e.at ELSE Last(o)
    <2>1. CASE ok
      <3>1. handled'[e.order] = Append(handled[e.order], e.at)
            /\ \A o \in Orders \ {e.order} : handled'[o] = handled[o]
        BY <1>5, <2>1 DEF ProcessEvent, OrderInv, TypeOK
      <3>2. handled[e.order] \in Seq(Nat)
        BY <1>5 DEF OrderInv, TypeOK
      <3>3. /\ Append(handled[e.order], e.at) # <<>>
            /\ Append(handled[e.order], e.at)[Len(Append(handled[e.order], e.at))] = e.at
        BY <1>5, <3>2, LastOfAppend
      <3> QED
        BY <2>1, <3>1, <3>3 DEF Last, Delivery!LastOf
    <2>2. CASE ~ok
      BY <2>2 DEF Last, Delivery!LastOf, ProcessEvent
    <2> QED
      BY <2>1, <2>2
  <1>9. \A o \in Orders : Last(o) \in Nat /\ Confirmed(o) \in Nat /\ Last(o) <= Last(o)'
    BY <1>5, <1>8 DEF OrderInv, HandledNext, DonePrefix, Current
  <1>10. DonePrefix'
    BY <1>1, <1>9 DEF DonePrefix, OrderInv, RowsKept
  <1>11. HandledNext'
    BY <1>1, <1>5, <1>8, <1>9 DEF HandledNext, OrderInv, Current
  <1>12. \A f \in Events : Current(f) /\ (f.order = e.order => e.at <= f.at) => Current(f)'
    BY <1>1, <1>8 DEF Current, RowsKept, Events
  <1>13. ClaimedCurrent'
    BY <1>7, <1>12 DEF ClaimedCurrent, OrderInv, Copies, ProcessEvent
  <1>14. QueuedCurrent'
    BY <1>6, <1>12 DEF QueuedCurrent, OrderInv, Copies
  <1>15. QueuedInOrder' /\ ClaimedBehind'
    <2>1. \A z \in Shards : \A i \in DOMAIN queue'[z] :
              \/ z # s /\ i \in DOMAIN queue[z] /\ queue'[z][i] = queue[z][i]
              \/ z = s /\ i \in Nat /\ i + 1 \in DOMAIN queue[z] /\ queue'[z][i] = queue[z][i + 1]
      BY <1>3, <1>4
    <2>2. QueuedInOrder'
      <3> SUFFICES ASSUME NEW z \in Shards, NEW i \in DOMAIN queue'[z], NEW j \in DOMAIN queue'[z],
                          i < j, queue'[z][i] \in Events, queue'[z][j] \in Events,
                          queue'[z][i].order = queue'[z][j].order
                   PROVE  queue'[z][i].at <= queue'[z][j].at
        BY DEF QueuedInOrder
      <3>1. CASE z # s
        BY <2>1, <3>1 DEF OrderInv, Copies, QueuedInOrder
      <3>2. CASE z = s
        <4>1. i \in Nat /\ j \in Nat /\ i + 1 < j + 1
          BY <2>1, <3>2
        <4> QED
          BY <2>1, <3>2, <4>1 DEF OrderInv, Copies, QueuedInOrder
      <3> QED
        BY <3>1, <3>2
    <2>3. ClaimedBehind'
      <3>1. claimed' = claimed
        BY DEF ProcessEvent
      <3> QED
        BY <2>1, <3>1 DEF OrderInv, Copies, ClaimedBehind
    <2> QED
      BY <2>2, <2>3
  <1>16. OutcomeHandled'
    <2> SUFFICES ASSUME NEW t \in Threads, NEW f \in Events, result'[t] # None, result'[t].event = f
                 PROVE  /\ f.at \in DOMAIN status'[f.order] /\ f.at <= Confirmed(f.order)' + 1
                        /\ result'[t].ok => f.at <= Last(f.order)'
      BY DEF OutcomeHandled
    <2>1. PICK u \in Threads : result' = [result EXCEPT ![u] = [event |-> e, ok |-> ok]]
      BY DEF ProcessEvent, Threads
    <2>2. result'[t] = IF t = u THEN [event |-> e, ok |-> ok] ELSE result[t]
      BY <2>1 DEF OrderInv, TypeOK
    <2>3. CASE t = u
      <3>1. f = e /\ result'[t].ok = ok
        BY <2>2, <2>3
      <3>2. Current(f)'
        BY <1>2, <1>5, <1>12, <3>1
      <3>3. f.order \in Orders /\ (ok => Last(f.order)' = f.at)
        BY <1>5, <1>8, <3>1
      <3> QED
        BY <3>1, <3>2, <3>3 DEF Current, Events
    <2>4. CASE t # u
      <3>1. result[t] # None /\ result[t].event = f /\ result'[t] = result[t]
        BY <2>2, <2>4
      <3>2. /\ f.at \in DOMAIN status[f.order] /\ f.at <= Confirmed(f.order) + 1
            /\ result[t].ok => f.at <= Last(f.order)
        BY <3>1 DEF OrderInv, Copies, OutcomeHandled
      <3>3. f.order \in Orders /\ f.at \in Nat
        BY DEF Events
      <3>4. Last(f.order)' \in Nat
        BY <1>11, <3>3 DEF HandledNext
      <3> QED
        BY <1>1, <1>9, <3>1, <3>2, <3>3, <3>4 DEF RowsKept
    <2> QED
      BY <2>3, <2>4
  <1> QED
    BY <1>1, <1>10, <1>11, <1>13, <1>14, <1>15, <1>16 DEF OrderInv, Copies

\* What is behind the first of a sequence is one place further back in it.
LEMMA TailPlace ==
  ASSUME NEW q \in Seq(Events \cup Reports), q # <<>>, NEW i \in DOMAIN Tail(q)
  PROVE  i \in Nat /\ i + 1 \in DOMAIN q /\ q[i + 1] = Tail(q)[i]
  OBVIOUS

\* The shard's first is a report: the events behind it stay as they are.
LEMMA ReportTaken ==
  ASSUME TypeOK, NEW s \in Shards, NEW ok \in BOOLEAN, ProcessReport(s, ok)
  PROVE  QueueKept
  <1>1. queue[s] \in Seq(Events \cup Reports) /\ queue[s] # <<>>
    BY DEF TypeOK, ProcessReport
  <1>2. queue'[s] = Tail(queue[s]) /\ \A z \in Shards \ {s} : queue'[z] = queue[z]
    BY DEF TypeOK, ProcessReport
  <1>3. ASSUME NEW z \in Shards, NEW i \in DOMAIN queue'[z], NEW j \in DOMAIN queue'[z]
        PROVE  \E k, l \in DOMAIN queue[z] :
                   /\ queue[z][k] = queue'[z][i] /\ queue[z][l] = queue'[z][j]
                   /\ i < j => k < l
    <2>1. CASE z = s
      <3>1. queue'[z] = Tail(queue[s]) /\ queue[z] = queue[s]
        BY <1>2, <2>1
      <3>2. i \in DOMAIN Tail(queue[s]) /\ j \in DOMAIN Tail(queue[s])
        BY <3>1
      <3>3. i \in Nat /\ i + 1 \in DOMAIN queue[s] /\ queue[s][i + 1] = Tail(queue[s])[i]
        BY <1>1, <3>2, TailPlace
      <3>4. j \in Nat /\ j + 1 \in DOMAIN queue[s] /\ queue[s][j + 1] = Tail(queue[s])[j]
        BY <1>1, <3>2, TailPlace
      <3>5. i < j => i + 1 < j + 1
        BY <3>3, <3>4
      <3> QED
        BY <3>1, <3>3, <3>4, <3>5
    <2>2. CASE z # s
      BY <1>2, <2>2
    <2> QED
      BY <2>1, <2>2
  <1> QED
    BY <1>3 DEF QueueKept

\* A report is put behind the events there are.
LEMMA ReportOffered ==
  ASSUME TypeOK, NEW o \in Orders, Report(o)
  PROVE  QueueKept
  <1> DEFINE s == ShardOf[o]
             r == [order |-> o, report |-> reported[o] + 1, after |-> Len(status[o])]
  <1>1. s \in Shards /\ queue[s] \in Seq(Events \cup Reports) /\ r \in Reports
    BY OutboxAssumption DEF TypeOK, Reports
  <1>2. CASE Full(s)
    BY <1>2, SameQueue DEF Report
  <1>3. CASE ~Full(s)
    <2>1. queue'[s] = Append(queue[s], r) /\ \A z \in Shards \ {s} : queue'[z] = queue[z]
      BY <1>1, <1>3 DEF Report, Offer, TypeOK
    <2>2. \A i \in DOMAIN queue'[s] :
              (i \in DOMAIN queue[s] /\ queue'[s][i] = queue[s][i]) \/ queue'[s][i] = r
      <3> HIDE DEF s, r
      <3> QED
        BY <1>1, <2>1
    <2>3. \A i \in DOMAIN queue'[s] : queue'[s][i] \in Events =>
              i \in DOMAIN queue[s] /\ queue'[s][i] = queue[s][i]
      BY <1>1, <2>2, KindsDiffer
    <2> QED
      BY <2>1, <2>3 DEF QueueKept
  <1> QED
    BY <1>2, <1>3

LEMMA ProcessReportKeeps ==
  ASSUME OrderInv, TypeOK', NEW s \in Shards, NEW ok \in BOOLEAN, ProcessReport(s, ok)
  PROVE  RowsKept /\ OrderInv'
  <1>1. RowsKept
    BY DEF RowsKept, ProcessReport, DoneOf, rowVars
  <1>2. QueueKept
    BY ReportTaken DEF OrderInv
  <1> QED
    BY <1>1, <1>2, KeptCopies DEF ProcessReport, rowVars

LEMMA ReportKeeps ==
  ASSUME OrderInv, TypeOK', NEW o \in Orders, Report(o)
  PROVE  RowsKept /\ OrderInv'
  <1>1. RowsKept
    BY DEF RowsKept, Report, DoneOf, rowVars
  <1>2. QueueKept
    BY ReportOffered DEF OrderInv
  <1> QED
    BY <1>1, <1>2, KeptCopies DEF Report, rowVars

\* A row is marked delivered: that of the event handled last.
MarksDelivered(f) ==
    /\ f.order \in Orders /\ f.at = Confirmed(f.order) + 1 /\ Last(f.order) = f.at
    /\ status' = [status EXCEPT ![f.order][f.at] = "DELIVERED"]

LEMMA RecordKeeps ==
  ASSUME OrderInv, TypeOK', NEW t \in Threads, Record(t)
  PROVE  /\ RowsKept \/ \E f \in Events : MarksDelivered(f) /\ f.at \in DOMAIN status[f.order]
         /\ OrderInv'
  <1>1. result[t] # None /\ result[t].event \in Events /\ result[t].ok \in BOOLEAN
    BY DEF OrderInv, TypeOK, Outcomes, Record
  <1>2. PICK f \in Events : f = result[t].event
    BY <1>1
  <1>3. /\ f.order \in Orders /\ f.at \in DOMAIN status[f.order]
        /\ f.at \in Nat /\ f.at <= Confirmed(f.order) + 1
        /\ result[t].ok => f.at <= Last(f.order)
    BY <1>1, <1>2 DEF OrderInv, Copies, OutcomeHandled, Events
  <1>4. \A u \in Threads : result'[u] # None => result'[u] = result[u]
    BY DEF OrderInv, TypeOK, Record
  <1>5. CASE ~(result[t].ok /\ status[f.order][f.at] \in InFlight)
    <2>1. RowsKept
      <3>1. CASE status[f.order][f.at] \notin InFlight
        <4>1. status' = status
          BY <1>2, <3>1 DEF Record, Recorded
        <4> QED
          BY <4>1 DEF RowsKept, DoneOf
      <3>2. CASE status[f.order][f.at] \in InFlight
        <4>1. status' = [status EXCEPT ![f.order][f.at] = "PENDING"]
          BY <1>2, <1>5, <3>2 DEF Record, Recorded
        <4> QED
          BY <1>3, <3>2, <4>1, RowChange DEF OrderInv, InFlight, Done, Statuses
      <3> QED
        BY <3>1, <3>2
    <2> QED
      BY <1>4, <2>1, KeptCopies, SameQueue DEF Record
  <1>6. CASE result[t].ok /\ status[f.order][f.at] \in InFlight
    <2> DEFINE o == f.order
               c == Confirmed(o)
    <2>1. status' = [status EXCEPT ![f.order][f.at] = "DELIVERED"]
      BY <1>2, <1>6 DEF Record, Recorded
    <2>2. c \in Nat /\ DoneOf(o) = 1..c /\ Last(o) \in Nat /\ Last(o) <= c + 1
      BY <1>3 DEF OrderInv, DonePrefix, HandledNext
    <2>3. f.at = c + 1
      <3>1. f.at \notin DoneOf(o)
        BY <1>6 DEF DoneOf, InFlight, Done
      <3>2. f.at \in Nat \ {0}
        BY DEF Events
      <3> QED
        BY <1>3, <2>2, <3>1, <3>2
    <2>4. Last(o) = f.at
      BY <1>3, <1>6, <2>2, <2>3
    <2>5. MarksDelivered(f)
      BY <1>3, <2>1, <2>3, <2>4 DEF MarksDelivered
    <2>6. /\ \A p \in Orders : DOMAIN status'[p] = DOMAIN status[p]
          /\ \A p \in Orders : \A n \in DOMAIN status[p] :
                status'[p][n] = IF p = o /\ n = f.at THEN "DELIVERED" ELSE status[p][n]
      BY <1>3, <2>1 DEF OrderInv, TypeOK
    <2>7. DoneOf(o)' = DoneOf(o) \cup {f.at}
      BY <1>3, <2>6 DEF DoneOf, Done
    <2>8. DoneOf(o)' = 1..(c + 1)
      BY <2>2, <2>3, <2>7
    <2>9. Confirmed(o)' = c + 1
      BY <2>2, <2>8, PrefixLength DEF Confirmed
    <2>10. \A p \in Orders \ {o} : DoneOf(p)' = DoneOf(p) /\ Confirmed(p)' = Confirmed(p)
      BY <2>6 DEF DoneOf, Confirmed
    <2>11. \A p \in Orders : Last(p)' = Last(p)
      BY DEF Record, Last, Delivery!LastOf
    <2>12. DonePrefix' /\ HandledNext'
      <3>1. DonePrefix'
        BY <2>2, <2>8, <2>9, <2>10 DEF OrderInv, DonePrefix
      <3>2. HandledNext'
        BY <2>2, <2>3, <2>4, <2>9, <2>10, <2>11 DEF OrderInv, HandledNext
      <3> QED
        BY <3>1, <3>2
    <2>13. \A p \in Orders :
              Confirmed(p) \in Nat /\ Confirmed(p)' \in Nat /\ Confirmed(p) <= Confirmed(p)'
      BY <2>2, <2>9, <2>10, <2>12 DEF OrderInv, DonePrefix
    <2>14. \A g \in Events : Current(g) => Current(g)'
      BY <2>6, <2>11, <2>13 DEF Current, Events
    <2>15. ClaimedCurrent' /\ QueuedCurrent'
      <3>1. ClaimedCurrent'
        BY <2>14 DEF OrderInv, Copies, ClaimedCurrent, TypeOK, Record
      <3>2. QueuedCurrent'
        BY <2>14 DEF OrderInv, Copies, QueuedCurrent, Queued, Record
      <3> QED
        BY <3>1, <3>2
    <2>16. QueuedInOrder' /\ ClaimedBehind'
      BY DEF OrderInv, Copies, QueuedInOrder, ClaimedBehind, Record
    <2>17. OutcomeHandled'
      <3> SUFFICES ASSUME NEW u \in Threads, NEW g \in Events,
                          result'[u] # None, result'[u].event = g
                   PROVE  /\ g.at \in DOMAIN status'[g.order] /\ g.at <= Confirmed(g.order)' + 1
                          /\ result'[u].ok => g.at <= Last(g.order)'
        BY DEF OutcomeHandled
      <3>1. result[u] # None /\ result[u].event = g /\ result'[u] = result[u]
        BY <1>4
      <3>2. /\ g.at \in DOMAIN status[g.order] /\ g.at <= Confirmed(g.order) + 1
            /\ result[u].ok => g.at <= Last(g.order)
        BY <3>1 DEF OrderInv, Copies, OutcomeHandled
      <3>3. g.order \in Orders /\ g.at \in Nat
        BY DEF Events
      <3> QED
        BY <2>6, <2>11, <2>13, <3>1, <3>2, <3>3
    <2> QED
      BY <1>3, <2>5, <2>12, <2>15, <2>16, <2>17 DEF OrderInv, Copies
  <1> QED
    BY <1>5, <1>6

LEMMA OrderStep == OrderInv /\ [Next]_vars => OrderInv'
  <1> SUFFICES ASSUME OrderInv, [Next]_vars PROVE OrderInv'
    OBVIOUS
  <1>1. TypeOK'
    BY TypeStep DEF OrderInv
  <1>2. CASE UNCHANGED vars
    <2>1. RowsKept
      BY <1>2 DEF vars, rowVars, RowsKept, DoneOf
    <2> QED
      BY <1>1, <1>2, <2>1, KeptCopies, SameQueue DEF vars, rowVars
  <1>3. ASSUME NEW s \in Shards, NEW ok \in BOOLEAN, Process(s, ok) PROVE OrderInv'
    BY <1>1, <1>3, ProcessEventKeeps, ProcessReportKeeps DEF Process
  <1> QED
    BY <1>1, <1>2, <1>3, PollKeeps, CrashKeeps, DispatchKeeps, RecordKeeps, RecordLostKeeps,
       WriteKeeps, ReportKeeps, ExpireKeeps, DeleteKeeps DEF Next

\* In every reachable state the delivered rows of an order are its first ones, at most one
\* handled event is ahead of its row, and no copy of an event that is claimed, queued or
\* about to be recorded is behind a later event of its order (poll, recordResult).
THEOREM OutboxInOrder == Spec => []OrderInv
  BY OrderInit, OrderStep, PTL DEF Spec

----------------------------------------------------------------------------
(* The reports.                                                            *)

LastTold(o) == Delivery!LastOf(told[o])

\* The reports in a shard are of its orders, were raised and come after those that were
\* handled ...
ReportsAhead ==
    \A s \in Shards : \A i \in DOMAIN queue[s] : queue[s][i] \in Reports =>
        /\ ShardOf[queue[s][i].order] = s
        /\ LastTold(queue[s][i].order) < queue[s][i].report
        /\ queue[s][i].report <= reported[queue[s][i].order]

\* ... and those of one order are in the order in which they were raised.
ReportsInOrder ==
    \A s \in Shards : \A i, j \in DOMAIN queue[s] :
        i < j /\ queue[s][i] \in Reports /\ queue[s][j] \in Reports
          /\ queue[s][i].order = queue[s][j].order
            => queue[s][i].report < queue[s][j].report

ReportInv ==
    /\ \A o \in Orders : LastTold(o) \in Nat /\ LastTold(o) <= reported[o]
    /\ ReportsAhead /\ ReportsInOrder

LEMMA ReportInit == Init => ReportInv
  BY DEF Init, ReportInv, ReportsAhead, ReportsInOrder, LastTold, Delivery!LastOf

\* Reports are neither raised nor handled, and those in the queues stay in order.
LEMMA ReportKept ==
  ASSUME ReportInv, UNCHANGED reportVars,
         \A s \in Shards : \A i, j \in DOMAIN queue'[s] :
             queue'[s][i] \in Reports /\ queue'[s][j] \in Reports =>
                 \E k, l \in DOMAIN queue[s] :
                     /\ queue[s][k] = queue'[s][i] /\ queue[s][l] = queue'[s][j]
                     /\ i < j => k < l
  PROVE  ReportInv'
  <1>1. \A o : LastTold(o)' = LastTold(o) /\ reported' = reported
    BY DEF reportVars, LastTold
  <1>2. ReportsAhead'
    BY <1>1 DEF ReportInv, ReportsAhead
  <1>3. ReportsInOrder'
    BY DEF ReportInv, ReportsInOrder
  <1> QED
    BY <1>1, <1>2, <1>3 DEF ReportInv

LEMMA ReportDispatch ==
  ASSUME TypeOK, ReportInv, NEW e \in claimed, Dispatch(e)
  PROVE  ReportInv'
  <1> DEFINE s == ShardOf[e.order]
  <1>1. e \in Events /\ s \in Shards /\ queue[s] \in Seq(Events \cup Reports)
    BY OutboxAssumption DEF TypeOK, Events
  <1>2. UNCHANGED reportVars
    BY DEF Dispatch
  <1>3. CASE queue' = queue
    BY <1>2, <1>3, ReportKept
  <1>4. CASE Offer(s, e)
    <2>1. queue'[s] = Append(queue[s], e) /\ \A z \in Shards \ {s} : queue'[z] = queue[z]
      BY <1>1, <1>4 DEF Offer, TypeOK
    <2>2. \A i \in DOMAIN queue'[s] :
              (i \in DOMAIN queue[s] /\ queue'[s][i] = queue[s][i]) \/ queue'[s][i] = e
      <3> HIDE DEF s
      <3> QED
        BY <1>1, <2>1
    <2>3. \A z \in Shards : \A i \in DOMAIN queue'[z] : queue'[z][i] \in Reports =>
              i \in DOMAIN queue[z] /\ queue'[z][i] = queue[z][i]
      BY <1>1, <2>1, <2>2, KindsDiffer
    <2> QED
      BY <1>2, <2>3, ReportKept
  <1> QED
    BY <1>3, <1>4 DEF Dispatch

LEMMA ReportProcessEvent ==
  ASSUME TypeOK, ReportInv, NEW s \in Shards, NEW ok \in BOOLEAN, ProcessEvent(s, ok)
  PROVE  ReportInv'
  <1>1. queue[s] \in Seq(Events \cup Reports) /\ queue[s] # <<>>
    BY DEF TypeOK, ProcessEvent
  <1>2. queue'[s] = Tail(queue[s]) /\ \A z \in Shards \ {s} : queue'[z] = queue[z]
    BY DEF TypeOK, ProcessEvent
  <1>3. ASSUME NEW z \in Shards, NEW i \in DOMAIN queue'[z], NEW j \in DOMAIN queue'[z]
        PROVE  \E k, l \in DOMAIN queue[z] :
                   /\ queue[z][k] = queue'[z][i] /\ queue[z][l] = queue'[z][j]
                   /\ i < j => k < l
    <2>1. CASE z = s
      <3>1. queue'[z] = Tail(queue[s]) /\ queue[z] = queue[s]
        BY <1>2, <2>1
      <3>2. i \in DOMAIN Tail(queue[s]) /\ j \in DOMAIN Tail(queue[s])
        BY <3>1
      <3>3. i \in Nat /\ i + 1 \in DOMAIN queue[s] /\ queue[s][i + 1] = Tail(queue[s])[i]
        BY <1>1, <3>2, TailPlace
      <3>4. j \in Nat /\ j + 1 \in DOMAIN queue[s] /\ queue[s][j + 1] = Tail(queue[s])[j]
        BY <1>1, <3>2, TailPlace
      <3>5. i < j => i + 1 < j + 1
        BY <3>3, <3>4
      <3> QED
        BY <3>1, <3>3, <3>4, <3>5
    <2>2. CASE z # s
      BY <1>2, <2>2
    <2> QED
      BY <2>1, <2>2
  <1>4. UNCHANGED reportVars
    BY DEF ProcessEvent
  <1> QED
    BY <1>3, <1>4, ReportKept

\* The report at the head of a queue is the next of its order there is.
LEMMA ReportProcessReport ==
  ASSUME TypeOK, ReportInv, NEW s \in Shards, NEW ok \in BOOLEAN, ProcessReport(s, ok)
  PROVE  /\ ReportInv'
         /\ ok => Delivery!Tell(Head(queue[s]).order) /\ Head(queue[s]).order \in Orders
  <1> DEFINE r == Head(queue[s])
  <1>1. /\ queue[s] \in Seq(Events \cup Reports) /\ queue[s] # <<>>
        /\ 1 \in DOMAIN queue[s] /\ r = queue[s][1] /\ r \in Reports
        /\ \A i \in DOMAIN Tail(queue[s]) :
              i \in Nat \ {0} /\ i + 1 \in DOMAIN queue[s] /\ Tail(queue[s])[i] = queue[s][i + 1]
    BY DEF TypeOK, ProcessReport
  <1>2. queue'[s] = Tail(queue[s]) /\ \A z \in Shards \ {s} : queue'[z] = queue[z]
    BY DEF TypeOK, ProcessReport
  <1>3. /\ r.order \in Orders /\ r.report \in Nat \ {0} /\ ShardOf[r.order] = s
        /\ LastTold(r.order) < r.report /\ r.report <= reported[r.order]
        /\ \A o \in Orders : LastTold(o) \in Nat /\ LastTold(o) <= reported[o] /\ reported[o] \in Nat
    BY <1>1 DEF ReportInv, ReportsAhead, Reports, TypeOK
  <1> DEFINE Told(o) == Delivery!LastOf(told'[o])
  <1>4. \A o \in Orders : Told(o) = IF ok /\ o = r.order THEN r.report ELSE LastTold(o)
    <2>1. CASE ok
      <3>1. told'[r.order] = Append(told[r.order], r.report)
            /\ \A o \in Orders \ {r.order} : told'[o] = told[o]
        BY <1>3, <2>1 DEF ProcessReport, TypeOK
      <3>2. told[r.order] \in Seq(Nat)
        BY <1>3 DEF TypeOK
      <3>3. /\ Append(told[r.order], r.report) # <<>>
            /\ Append(told[r.order], r.report)[Len(Append(told[r.order], r.report))] = r.report
        BY <1>3, <3>2, LastOfAppend
      <3> QED
        BY <2>1, <3>1, <3>3 DEF LastTold, Delivery!LastOf
    <2>2. CASE ~ok
      BY <2>2 DEF LastTold, Delivery!LastOf, ProcessReport
    <2> QED
      BY <2>1, <2>2
  <1>5. reported' = reported
    BY DEF ProcessReport
  <1>6. \A z \in Shards : \A i \in DOMAIN queue'[z] :
            \/ z # s /\ i \in DOMAIN queue[z] /\ queue'[z][i] = queue[z][i]
            \/ z = s /\ i \in Nat \ {0} /\ i + 1 \in DOMAIN queue[z] /\ queue'[z][i] = queue[z][i + 1]
    BY <1>1, <1>2
  <1>7. ReportsAhead'
    <2> SUFFICES ASSUME NEW z \in Shards, NEW i \in DOMAIN queue'[z], queue'[z][i] \in Reports
                 PROVE  /\ ShardOf[queue'[z][i].order] = z
                        /\ Told(queue'[z][i].order) < queue'[z][i].report
                        /\ queue'[z][i].report <= reported[queue'[z][i].order]
      BY <1>5 DEF ReportsAhead, LastTold
    <2> DEFINE q == queue'[z][i]
    <2>1. /\ ShardOf[q.order] = z /\ LastTold(q.order) < q.report
          /\ q.report <= reported[q.order] /\ q.order \in Orders
      BY <1>6 DEF ReportInv, ReportsAhead, Reports
    <2>2. q.order = r.order => r.report < q.report
      <3>1. CASE z = s
        <4>1. i + 1 \in DOMAIN queue[s] /\ 1 < i + 1 /\ q = queue[s][i + 1]
          BY <1>6, <3>1
        <4> QED
          BY <1>1, <4>1 DEF ReportInv, ReportsInOrder
      <3>2. CASE z # s
        BY <1>3, <2>1, <3>2
      <3> QED
        BY <3>1, <3>2
    <2> QED
      BY <1>4, <2>1, <2>2
  <1>8. ReportsInOrder'
    <2> SUFFICES ASSUME NEW z \in Shards, NEW i \in DOMAIN queue'[z], NEW j \in DOMAIN queue'[z],
                        i < j, queue'[z][i] \in Reports, queue'[z][j] \in Reports,
                        queue'[z][i].order = queue'[z][j].order
                 PROVE  queue'[z][i].report < queue'[z][j].report
      BY DEF ReportsInOrder
    <2>1. CASE z # s
      BY <1>6, <2>1 DEF ReportInv, ReportsInOrder
    <2>2. CASE z = s
      <3>1. i \in Nat /\ j \in Nat /\ i + 1 < j + 1
        BY <1>6, <2>2
      <3> QED
        BY <1>6, <2>2, <3>1 DEF ReportInv, ReportsInOrder
    <2> QED
      BY <2>1, <2>2
  <1>9. ReportInv'
    BY <1>3, <1>4, <1>5, <1>7, <1>8 DEF ReportInv, LastTold
  <1>10. ok => Delivery!Tell(r.order)
    <2> SUFFICES ASSUME ok PROVE Delivery!Tell(r.order)
      OBVIOUS
    <2>1. told' = [told EXCEPT ![r.order] = Append(@, r.report)]
          /\ UNCHANGED <<status, handled, reported>>
      BY DEF ProcessReport, rowVars
    <2>2. r.report \in (LastTold(r.order) + 1)..reported[r.order]
      BY <1>3
    <2> QED
      BY <2>1, <2>2 DEF Delivery!Tell, LastTold
  <1> QED
    BY <1>3, <1>9, <1>10

LEMMA ReportRaised ==
  ASSUME TypeOK, ReportInv, NEW o \in Orders, Report(o)
  PROVE  ReportInv'
  <1> DEFINE s == ShardOf[o]
             r == [order |-> o, report |-> reported[o] + 1, after |-> Len(status[o])]
             Told(p) == Delivery!LastOf(told'[p])
  <1>1. /\ s \in Shards /\ queue[s] \in Seq(Events \cup Reports) /\ r \in Reports
        /\ reported[o] \in Nat
    BY OutboxAssumption DEF TypeOK, Reports
  <1>2. /\ reported'[o] = reported[o] + 1 /\ \A p \in Orders \ {o} : reported'[p] = reported[p]
        /\ \A p : Told(p) = LastTold(p)
    BY <1>1 DEF Report, TypeOK, LastTold
  <1>3. \A p \in Orders : LastTold(p)' \in Nat /\ LastTold(p)' <= reported'[p]
    <2>1. \A p \in Orders : LastTold(p) \in Nat /\ LastTold(p) <= reported[p] /\ reported[p] \in Nat
      BY DEF ReportInv, TypeOK
    <2> QED
      BY <1>1, <1>2, <2>1 DEF LastTold
  <1>4. \A z \in Shards : \A i \in DOMAIN queue'[z] :
            \/ i \in DOMAIN queue[z] /\ queue'[z][i] = queue[z][i]
            \/ z = s /\ i = Len(queue[s]) + 1 /\ queue'[z][i] = r
    <2>1. CASE Full(s)
      BY <2>1 DEF Report
    <2>2. CASE ~Full(s)
      <3>1. queue'[s] = Append(queue[s], r) /\ \A z \in Shards \ {s} : queue'[z] = queue[z]
        BY <1>1, <2>2 DEF Report, Offer, TypeOK
      <3> HIDE DEF s, r
      <3> QED
        BY <1>1, <3>1
    <2> QED
      BY <2>1, <2>2
  <1>5. \A z \in Shards : \A i \in DOMAIN queue[z] :
            queue[z] \in Seq(Events \cup Reports) /\ i \in 1..Len(queue[z]) /\ Len(queue[z]) \in Nat
    BY DEF TypeOK
  <1>6. \A z \in Shards : \A i \in DOMAIN queue[z] : queue[z][i] \in Reports =>
            /\ ShardOf[queue[z][i].order] = z /\ queue[z][i].order \in Orders
            /\ LastTold(queue[z][i].order) < queue[z][i].report
            /\ queue[z][i].report <= reported[queue[z][i].order]
            /\ queue[z][i].report \in Nat /\ reported[queue[z][i].order] \in Nat
    BY DEF ReportInv, ReportsAhead, Reports, TypeOK
  <1>7. ReportsAhead'
    <2> SUFFICES ASSUME NEW z \in Shards, NEW i \in DOMAIN queue'[z], queue'[z][i] \in Reports
                 PROVE  /\ ShardOf[queue'[z][i].order] = z
                        /\ Told(queue'[z][i].order) < queue'[z][i].report
                        /\ queue'[z][i].report <= reported'[queue'[z][i].order]
      BY DEF ReportsAhead, LastTold
    <2>1. CASE i \in DOMAIN queue[z] /\ queue'[z][i] = queue[z][i]
      BY <1>2, <1>6, <2>1
    <2>2. CASE z = s /\ queue'[z][i] = r
      <3>1. LastTold(o) < reported[o] + 1
        BY <1>1 DEF ReportInv
      <3>2. r.order = o /\ r.report = reported[o] + 1
        OBVIOUS
      <3> HIDE DEF r
      <3> QED
        BY <1>1, <1>2, <2>2, <3>1, <3>2
    <2> QED
      BY <1>4, <2>1, <2>2
  <1>8. ReportsInOrder'
    <2> SUFFICES ASSUME NEW z \in Shards, NEW i \in DOMAIN queue'[z], NEW j \in DOMAIN queue'[z],
                        i < j, queue'[z][i] \in Reports, queue'[z][j] \in Reports,
                        queue'[z][i].order = queue'[z][j].order
                 PROVE  queue'[z][i].report < queue'[z][j].report
      BY DEF ReportsInOrder
    <2>1. CASE j \in DOMAIN queue[z] /\ queue'[z][j] = queue[z][j]
      <3>1. i \in DOMAIN queue[z] /\ queue'[z][i] = queue[z][i]
        BY <1>4, <1>5, <2>1
      <3> QED
        BY <2>1, <3>1 DEF ReportInv, ReportsInOrder
    <2>2. CASE z = s /\ j = Len(queue[s]) + 1 /\ queue'[z][j] = r
      <3>1. i \in DOMAIN queue[z] /\ queue'[z][i] = queue[z][i]
        BY <1>4, <2>2
      <3>2. r.order = o /\ r.report = reported[o] + 1
        OBVIOUS
      <3> HIDE DEF r
      <3> QED
        BY <1>1, <1>6, <2>2, <3>1, <3>2
    <2> QED
      BY <1>4, <2>1, <2>2
  <1> QED
    BY <1>3, <1>7, <1>8 DEF ReportInv

LEMMA ReportStep == TypeOK /\ ReportInv /\ [Next]_vars => ReportInv'
  <1> SUFFICES ASSUME TypeOK, ReportInv, [Next]_vars PROVE ReportInv'
    OBVIOUS
  <1>1. CASE UNCHANGED <<queue, reportVars>>
    BY <1>1, ReportKept
  <1>2. CASE Crash
    BY <1>2, ReportKept DEF Crash
  <1>3. ASSUME NEW s \in Shards, NEW ok \in BOOLEAN, Process(s, ok) PROVE ReportInv'
    BY <1>3, ReportProcessEvent, ReportProcessReport DEF Process
  <1> QED
    BY <1>1, <1>2, <1>3, ReportDispatch, ReportRaised
    DEF Next, Poll, Record, RecordLost, Write, Expire, DeleteDelivered, vars

----------------------------------------------------------------------------
(* The outbox implements OrderedDelivery.                                  *)

\* The variables of OrderedDelivery.
Written  == [o \in Orders |-> Len(status[o])]
Marked   == [o \in Orders |-> Cardinality({n \in DOMAIN status[o] : status[o][n] \in Done})]
Abstract == <<Written, handled, Marked, reported, told>>

LEMMA MarkedIsConfirmed == Marked = [o \in Orders |-> Confirmed(o)]
  BY DEF Marked, Confirmed, DoneOf

LEMMA SameLength ==
  ASSUME NEW S, NEW p \in Seq(S), NEW q \in Seq(S), DOMAIN p = DOMAIN q
  PROVE  Len(p) = Len(q)
  <1>1. 1..Len(p) = 1..Len(q) /\ Len(p) \in Nat /\ Len(q) \in Nat
    OBVIOUS
  <1>2. Cardinality(1..Len(p)) = Len(p) /\ Cardinality(1..Len(q)) = Len(q)
    BY <1>1, PrefixLength
  <1> QED
    BY <1>1, <1>2

LEMMA StartsEmpty == Init => Delivery!Init
  <1> SUFFICES ASSUME Init PROVE Delivery!Init
    OBVIOUS
  <1>1. \A o \in Orders : Confirmed(o) = 0
    <2>1. \A o \in Orders : DoneOf(o) = {}
      BY DEF Init, DoneOf
    <2> QED
      BY <2>1, FS_EmptySet DEF Confirmed
  <1>2. Marked = [o \in Orders |-> 0]
    BY <1>1, MarkedIsConfirmed
  <1>3. Written = [o \in Orders |-> 0]
    BY DEF Init, Written
  <1>4. /\ handled = [o \in Orders |-> <<>>] /\ told = [o \in Orders |-> <<>>]
        /\ reported = [o \in Orders |-> 0]
    BY DEF Init
  <1> QED
    BY <1>2, <1>3, <1>4 DEF Delivery!Init, Written, Marked

\* A step that keeps the rows, their number and what was handled is a stutter.
LEMMA Stutters ==
  ASSUME OrderInv, TypeOK', RowsKept, handled' = handled, UNCHANGED reportVars,
         \A o \in Orders : DOMAIN status'[o] = DOMAIN status[o]
  PROVE  Abstract' = Abstract
  <1>1. \A o \in Orders : Len(status'[o]) = Len(status[o])
    BY SameLength DEF OrderInv, TypeOK
  <1>2. Written' = Written
    BY <1>1 DEF Written
  <1>3. Marked' = Marked
    BY DEF RowsKept, DoneOf, Marked
  <1> QED
    BY <1>2, <1>3 DEF Abstract, reportVars

LEMMA RefineWrite ==
  ASSUME OrderInv, TypeOK', NEW o \in Orders, Write(o)
  PROVE  Delivery!Write(o)
  <1>1. /\ status[o] \in Seq(Statuses) /\ Len(status[o]) \in Nat
        /\ status' = [status EXCEPT ![o] = Append(@, "PENDING")]
        /\ status \in [Orders -> Seq(Statuses)]
    BY DEF OrderInv, TypeOK, Write
  <1>2. \A p \in Orders : Len(status'[p]) = IF p = o THEN Len(status[p]) + 1 ELSE Len(status[p])
    BY <1>1
  <1>3. Written' = [Written EXCEPT ![o] = @ + 1]
    BY <1>2 DEF Written
  <1>4. RowsKept
    BY WriteKeeps
  <1>5. Marked' = Marked
    BY <1>4 DEF RowsKept, DoneOf, Marked
  <1>6. handled' = handled /\ UNCHANGED <<reported, told>>
    BY DEF Write, reportVars
  <1> QED
    BY <1>3, <1>5, <1>6 DEF Delivery!Write, Written, Marked

LEMMA RefineProcess ==
  ASSUME OrderInv, TypeOK', NEW s \in Shards, ProcessEvent(s, TRUE)
  PROVE  \E o \in Orders : Delivery!Handle(o)
  <1> DEFINE e == Head(queue[s])
  <1>1. /\ queue[s] \in Seq(Events \cup Reports) /\ 1 \in DOMAIN queue[s] /\ e = queue[s][1]
        /\ e \in Events
        /\ handled' = [handled EXCEPT ![e.order] = Append(@, e.at)]
        /\ status' = status /\ UNCHANGED <<reported, told>>
    BY DEF OrderInv, TypeOK, ProcessEvent, reportVars
  <1>2. e.order \in Orders /\ e.at \in Nat \ {0}
    BY <1>1 DEF Events
  <1>3. Current(e)
    BY <1>1 DEF OrderInv, Copies, QueuedCurrent, Queued
  <1>4. Written' = Written /\ Marked' = Marked
    BY <1>1 DEF Written, Marked
  <1>5. e.at \in 1..Written[e.order]
    <2>1. status[e.order] \in Seq(Statuses)
      BY <1>2 DEF OrderInv, TypeOK
    <2> QED
      BY <1>2, <1>3, <2>1 DEF Written, Current
  <1>6. e.at \in {Last(e.order), Last(e.order) + 1}
    BY <1>2, <1>3 DEF OrderInv, HandledNext, DonePrefix, Current
  <1>7. Delivery!Handle(e.order)
    BY <1>1, <1>4, <1>5, <1>6 DEF Delivery!Handle, Last, Written, Marked
  <1> QED
    BY <1>2, <1>7

LEMMA RefineRecord ==
  ASSUME OrderInv, TypeOK', OrderInv', NEW f \in Events, MarksDelivered(f),
         f.at \in DOMAIN status[f.order], handled' = handled, UNCHANGED <<reported, told>>
  PROVE  Delivery!Confirm(f.order)
  <1> DEFINE o == f.order
  <1>1. o \in Orders /\ Confirmed(o) \in Nat /\ f.at = Confirmed(o) + 1 /\ Last(o) = f.at
    BY DEF MarksDelivered, OrderInv, DonePrefix
  <1>2. /\ \A p \in Orders : DOMAIN status'[p] = DOMAIN status[p]
        /\ \A p \in Orders : \A n \in DOMAIN status[p] :
              status'[p][n] = IF p = o /\ n = f.at THEN "DELIVERED" ELSE status[p][n]
    BY DEF OrderInv, TypeOK, MarksDelivered
  <1>3. Written' = Written
    <2>1. \A p \in Orders : Len(status'[p]) = Len(status[p])
      BY <1>2, SameLength DEF OrderInv, TypeOK
    <2> QED
      BY <2>1 DEF Written
  <1>4. \A p \in Orders \ {o} : DoneOf(p)' = DoneOf(p)
    BY <1>2 DEF DoneOf
  <1>5. DoneOf(o)' = DoneOf(o) \cup {f.at}
    BY <1>1, <1>2 DEF DoneOf, Done
  <1>6. DoneOf(o)' = 1..(Confirmed(o) + 1)
    BY <1>1, <1>5 DEF OrderInv, DonePrefix
  <1>7. Confirmed(o)' = Confirmed(o) + 1
    BY <1>1, <1>6, PrefixLength DEF Confirmed
  <1>8. Marked' = [Marked EXCEPT ![o] = @ + 1]
    BY <1>1, <1>4, <1>7 DEF Marked, Confirmed, DoneOf
  <1>9. Marked[o] < Last(o)
    <2>1. Marked[o] = Confirmed(o)
      BY <1>1, MarkedIsConfirmed
    <2> QED
      BY <1>1, <2>1
  <1> QED
    BY <1>3, <1>8, <1>9 DEF Delivery!Confirm, Last, Written, Marked

\* A step of the outbox is one of OrderedDelivery, or changes nothing of it.
LEMMA RefineStep ==
  OrderInv /\ OrderInv' /\ ReportInv /\ [Next]_vars => [Delivery!Next]_(Delivery!vars)
  <1> SUFFICES ASSUME OrderInv, OrderInv', ReportInv, [Next]_vars
               PROVE  Delivery!Next \/ Abstract' = Abstract
    BY DEF Delivery!vars, Abstract, Written, Marked
  <1>1. TypeOK'
    BY DEF OrderInv
  <1>2. CASE Poll
    BY <1>1, <1>2, PollKeeps, ClaimedStatus, Stutters DEF OrderInv, Poll
  <1>3. CASE Crash
    BY <1>1, <1>3, CrashKeeps, Stutters DEF Crash
  <1>4. ASSUME NEW e \in claimed, Dispatch(e) PROVE Abstract' = Abstract
    BY <1>1, <1>4, DispatchKeeps, Stutters DEF Dispatch
  <1>5. ASSUME NEW s \in Shards, NEW ok \in BOOLEAN, ProcessEvent(s, ok)
        PROVE  Delivery!Next \/ Abstract' = Abstract
    <2>1. CASE ok
      <3>1. ok = TRUE
        BY <2>1
      <3> QED
        BY <1>1, <1>5, <3>1, RefineProcess DEF Delivery!Next
    <2>2. CASE ~ok
      <3>1. handled' = handled /\ status' = status /\ UNCHANGED reportVars
        BY <1>5, <2>2 DEF ProcessEvent
      <3> QED
        BY <1>1, <1>5, <3>1, ProcessEventKeeps, Stutters
    <2> QED
      BY <2>1, <2>2
  <1>12. ASSUME NEW s \in Shards, NEW ok \in BOOLEAN, ProcessReport(s, ok)
         PROVE  Delivery!Next \/ Abstract' = Abstract
    <2>1. CASE ok
      <3>1. /\ Delivery!Tell(Head(queue[s]).order) /\ Head(queue[s]).order \in Orders
        BY <1>12, <2>1, ReportProcessReport DEF OrderInv
      <3> QED
        BY <3>1 DEF Delivery!Next
    <2>2. CASE ~ok
      BY <1>12, <2>2 DEF ProcessReport, rowVars, Abstract, Written, Marked
    <2> QED
      BY <2>1, <2>2
  <1>13. ASSUME NEW o \in Orders, Report(o) PROVE Delivery!Next
    <2>1. /\ handled[o] # <<>> /\ reported' = [reported EXCEPT ![o] = @ + 1]
          /\ UNCHANGED <<status, handled, told>>
      BY <1>13 DEF Report, rowVars
    <2>2. Delivery!Report(o)
      BY <2>1 DEF Delivery!Report
    <2> QED
      BY <2>2 DEF Delivery!Next
  <1>6. ASSUME NEW t \in Threads, Record(t) PROVE Delivery!Next \/ Abstract' = Abstract
    <2>1. handled' = handled /\ UNCHANGED reportVars /\ UNCHANGED <<reported, told>>
      BY <1>6 DEF Record, reportVars
    <2>2. CASE \E f \in Events : MarksDelivered(f) /\ f.at \in DOMAIN status[f.order]
      <3>1. PICK f \in Events : MarksDelivered(f) /\ f.at \in DOMAIN status[f.order]
        BY <2>2
      <3>2. Delivery!Confirm(f.order)
        BY <1>1, <2>1, <3>1, RefineRecord
      <3> QED
        BY <3>1, <3>2 DEF Delivery!Next, MarksDelivered
    <2>3. CASE RowsKept
      <3>1. \A o \in Orders : DOMAIN status'[o] = DOMAIN status[o]
        BY <1>6 DEF Record, Recorded, OrderInv, TypeOK
      <3> QED
        BY <1>1, <2>1, <2>3, <3>1, Stutters
    <2> QED
      BY <1>1, <1>6, <2>2, <2>3, RecordKeeps
  <1>7. ASSUME NEW t \in Threads, RecordLost(t) PROVE Abstract' = Abstract
    BY <1>1, <1>7, RecordLostKeeps, Stutters DEF RecordLost, rowVars
  <1>8. ASSUME NEW o \in Orders, Write(o) PROVE Delivery!Next
    BY <1>1, <1>8, RefineWrite DEF Delivery!Next
  <1>9. ASSUME NEW o \in Orders, NEW n \in 1..MaxEvents, Expire(o, n) PROVE Abstract' = Abstract
    <2>1. handled' = handled /\ UNCHANGED reportVars
          /\ \A p \in Orders : DOMAIN status'[p] = DOMAIN status[p]
      BY <1>9 DEF Expire, OrderInv, TypeOK
    <2> QED
      BY <1>1, <1>9, <2>1, ExpireKeeps, Stutters
  <1>10. ASSUME NEW o \in Orders, NEW n \in 1..MaxEvents, DeleteDelivered(o, n)
         PROVE  Abstract' = Abstract
    <2>1. handled' = handled /\ UNCHANGED reportVars
          /\ \A p \in Orders : DOMAIN status'[p] = DOMAIN status[p]
      BY <1>10 DEF DeleteDelivered, OrderInv, TypeOK
    <2> QED
      BY <1>1, <1>10, <2>1, DeleteKeeps, Stutters
  <1>11. CASE UNCHANGED vars
    BY <1>11 DEF vars, rowVars, reportVars, Abstract, Written, Marked
  <1> QED
    BY <1>2, <1>3, <1>4, <1>5, <1>6, <1>7, <1>8, <1>9, <1>10, <1>11, <1>12, <1>13
    DEF Next, Process

\* Whatever the orders, shards and capacities, over rejections, failures, lost updates, early
\* leases and crashes: no event with a row is handled after a later one of its order or
\* before an earlier one, and none is marked delivered that was not handled; and of the
\* reports of an order, which share its shard and have no row, none is handled twice or
\* after a later one (DurableOrderOutputDispatcher.poll and recordResult,
\* ShardedOrderDispatcher, ExecutionCommandHandler.enqueueOutbox).
THEOREM OutboxDelivers == Spec => DeliversInOrder
  <1>1. Init => Delivery!Init
    BY StartsEmpty
  <1>2. OrderInv /\ OrderInv' /\ ReportInv /\ [Next]_vars => [Delivery!Next]_(Delivery!vars)
    BY RefineStep
  <1>3. OrderInv => TypeOK
    BY DEF OrderInv
  <1> QED
    BY <1>1, <1>2, <1>3, OutboxInOrder, ReportInit, ReportStep, PTL
    DEF Spec, DeliversInOrder, Delivery!Spec

----------------------------------------------------------------------------
(* Without faults, the events that have a row.                             *)

InQueue(e)  == \E s \in Shards : Queued(e, s)
Resulted(e) == \E t \in Threads : result[t] # None /\ result[t].event = e

\* An event is claimed, or in one place of a queue, or with one thread as an outcome.
OneCopy ==
    /\ \A e \in claimed : ~InQueue(e) /\ ~Resulted(e)
    /\ \A e \in Events : InQueue(e) => ~Resulted(e)
    /\ \A s \in Shards : \A i, j \in DOMAIN queue[s] :
           queue[s][i] = queue[s][j] /\ queue[s][i] \in Events => i = j
    /\ \A t, u \in Threads :
           result[t] # None /\ result[u] # None /\ result[t].event = result[u].event => t = u

\* What is under way has its lease.
LeaseHeld == \A e \in Events : UnderWay(e) => status[e.order][e.at] = "IN_FLIGHT"

\* What is under way was not handled, unless it is a success about to be recorded ...
NotYetHandled ==
    /\ \A e \in Events : e \in claimed \/ InQueue(e) => Last(e.order) < e.at
    /\ \A t \in Threads : \A e \in Events :
           result[t] # None /\ result[t].event = e /\ ~result[t].ok => Last(e.order) < e.at

\* ... and an event that was handled and is not marked is such a success.
AheadIsReported ==
    \A o \in Orders : Last(o) = Confirmed(o) + 1 =>
        \E t \in Threads : /\ result[t] # None /\ result[t].ok
                           /\ result[t].event = [order |-> o, at |-> Last(o)]

Increasing ==
    \A o \in Orders : \A i, j \in DOMAIN handled[o] : i < j => handled[o][i] < handled[o][j]

Once    == OneCopy /\ LeaseHeld /\ NotYetHandled /\ AheadIsReported /\ Increasing
OnceInv == faults = 0 => Once

LEMMA UnderWayIs ==
  ASSUME NEW e
  PROVE  UnderWay(e) <=> e \in claimed \/ InQueue(e) \/ Resulted(e)
  BY DEF UnderWay, InQueue, Queued, Resulted

\* What is under way is in the outbox.
LEMMA UnderWayHasRow ==
  ASSUME OrderInv, NEW e \in Events, UnderWay(e)
  PROVE  e.order \in Orders /\ e.at \in DOMAIN status[e.order] /\ e.at <= Confirmed(e.order) + 1
  <1>1. e.order \in Orders
    BY DEF Events
  <1>2. e \in claimed \/ InQueue(e) => Current(e)
    BY DEF OrderInv, Copies, ClaimedCurrent, QueuedCurrent, InQueue
  <1>3. Resulted(e) => e.at \in DOMAIN status[e.order] /\ e.at <= Confirmed(e.order) + 1
    BY DEF OrderInv, Copies, OutcomeHandled, Resulted
  <1> QED
    BY <1>1, <1>2, <1>3, UnderWayIs DEF Current

\* Without faults the events of one order that are under way and not handled are one.
LEMMA OneOfAnOrder ==
  ASSUME OrderInv, Once, NEW e \in Events, NEW f \in Events, e.order = f.order,
         UnderWay(e), UnderWay(f), Last(e.order) < e.at, Last(f.order) < f.at
  PROVE  e = f
  <1>1. /\ e.order \in Orders /\ e.at <= Confirmed(e.order) + 1 /\ f.at <= Confirmed(e.order) + 1
        /\ e.at \in Nat /\ f.at \in Nat
    BY UnderWayHasRow DEF Events
  <1>2. Confirmed(e.order) \in Nat /\ Last(e.order) \in {Confirmed(e.order), Confirmed(e.order) + 1}
    BY <1>1 DEF OrderInv, DonePrefix, HandledNext
  <1>3. e.at = f.at
    BY <1>1, <1>2
  <1> QED
    BY <1>3 DEF Events

LEMMA OnceInit == Init => Once
  <1> SUFFICES ASSUME Init PROVE Once
    OBVIOUS
  <1>1. /\ claimed = {} /\ \A s \in Shards : DOMAIN queue[s] = {}
        /\ \A t \in Threads : result[t] = None
        /\ \A o \in Orders : DOMAIN handled[o] = {}
    BY DEF Init, Nobody
  <1>2. \A e : ~InQueue(e) /\ ~Resulted(e)
    BY <1>1 DEF InQueue, Queued, Resulted
  <1>3. \A o \in Orders : Last(o) = 0 /\ Confirmed(o) \in Nat
    BY OrderInit DEF Init, Last, Delivery!LastOf, OrderInv, DonePrefix
  <1>4. OneCopy /\ LeaseHeld /\ NotYetHandled
    BY <1>1, <1>2, UnderWayIs DEF OneCopy, LeaseHeld, NotYetHandled
  <1>5. AheadIsReported /\ Increasing
    BY <1>1, <1>3 DEF AheadIsReported, Increasing
  <1> QED
    BY <1>4, <1>5 DEF Once

\* Rows change; what is under way keeps its lease.
LEMMA OnceKept ==
  ASSUME OrderInv, Once, TypeOK', RowsKept, UNCHANGED <<claimed, result, handled>>, QueueKept,
         \A e \in Events : UnderWay(e) => status'[e.order][e.at] = "IN_FLIGHT"
  PROVE  Once'
  <1>1. \A o \in Orders : Confirmed(o)' = Confirmed(o) /\ Last(o)' = Last(o)
    BY KeptOrder
  <1>2. \A e \in Events : /\ InQueue(e)' => InQueue(e)
                          /\ Resulted(e)' <=> Resulted(e)
                          /\ UnderWay(e)' => UnderWay(e)
    <2>1. \A e \in Events : (InQueue(e)' => InQueue(e)) /\ (Resulted(e)' <=> Resulted(e))
      BY KeptQueued DEF InQueue, Resulted
    <2>2. \A e \in Events : UnderWay(e)' => e \in claimed' \/ InQueue(e)' \/ Resulted(e)'
      BY DEF UnderWay, InQueue, Queued, Resulted
    <2> QED
      BY <2>1, <2>2, UnderWayIs
  <1>3. OneCopy' /\ LeaseHeld'
    <2>1. \A s \in Shards : \A i, j \in DOMAIN queue'[s] :
              queue'[s][i] = queue'[s][j] /\ queue'[s][i] \in Events => i = j
      <3> SUFFICES ASSUME NEW s \in Shards, NEW i \in DOMAIN queue'[s], NEW j \in DOMAIN queue'[s],
                          queue'[s][i] = queue'[s][j], queue'[s][i] \in Events
                   PROVE  ~(i < j) /\ ~(j < i) /\ i \in Nat /\ j \in Nat
        OBVIOUS
      <3>1. i \in Nat /\ j \in Nat
        BY DEF TypeOK
      <3>2. \A k, l \in DOMAIN queue[s] :
                queue[s][k] = queue[s][l] /\ queue[s][k] \in Events => k = l /\ k \in Nat
        BY DEF Once, OneCopy, OrderInv, TypeOK
      <3>3. PICK k \in DOMAIN queue[s], l \in DOMAIN queue[s] :
                queue[s][k] = queue'[s][i] /\ queue[s][l] = queue'[s][j] /\ (i < j => k < l)
        BY DEF QueueKept
      <3>4. PICK m \in DOMAIN queue[s], n \in DOMAIN queue[s] :
                queue[s][m] = queue'[s][j] /\ queue[s][n] = queue'[s][i] /\ (j < i => m < n)
        BY DEF QueueKept
      <3> QED
        BY <3>1, <3>2, <3>3, <3>4
    <2>2. \A e \in claimed' : ~InQueue(e)' /\ ~Resulted(e)'
      BY <1>2 DEF Once, OneCopy, OrderInv, TypeOK
    <2>3. \A e \in Events : InQueue(e)' => ~Resulted(e)'
      BY <1>2 DEF Once, OneCopy
    <2>4. OneCopy'
      BY <2>1, <2>2, <2>3 DEF Once, OneCopy
    <2> QED
      BY <1>2, <2>4 DEF LeaseHeld
  <1>4. NotYetHandled'
    <2>1. \A e \in Events : e.order \in Orders
      BY DEF Events
    <2> QED
      BY <1>1, <1>2, <2>1 DEF Once, NotYetHandled
  <1>5. AheadIsReported' /\ Increasing'
    BY <1>1 DEF Once, AheadIsReported, Increasing
  <1> QED
    BY <1>3, <1>4, <1>5 DEF Once

LEMMA OnceWrite ==
  ASSUME OrderInv, TypeOK', Once, NEW o \in Orders, Write(o)
  PROVE  Once'
  <1>1. RowsKept
    BY WriteKeeps
  <1>2. \A e \in Events : UnderWay(e) => status'[e.order][e.at] = status[e.order][e.at]
    <2>1. status[o] \in Seq(Statuses) /\ status'[o] = Append(status[o], "PENDING")
          /\ \A p \in Orders \ {o} : status'[p] = status[p]
      BY DEF OrderInv, TypeOK, Write
    <2>2. \A n \in DOMAIN status[o] : status'[o][n] = status[o][n]
      BY <2>1
    <2> QED
      BY <2>1, <2>2, UnderWayHasRow
  <1> QED
    BY <1>1, <1>2, OnceKept, SameQueue DEF Write, Once, LeaseHeld

LEMMA OnceExpire ==
  ASSUME OrderInv, TypeOK', Once, NEW o \in Orders, NEW n \in 1..MaxEvents, Expire(o, n),
         faults' = 0
  PROVE  Once'
  <1>1. RowsKept
    BY ExpireKeeps
  <1>2. ~UnderWay([order |-> o, at |-> n])
    BY DEF Expire, Fault, OrderInv, TypeOK
  <1>3. \A e \in Events : UnderWay(e) => status'[e.order][e.at] = status[e.order][e.at]
    <2> SUFFICES ASSUME NEW e \in Events, UnderWay(e)
                 PROVE  status'[e.order][e.at] = status[e.order][e.at]
      OBVIOUS
    <2>1. e.order # o \/ e.at # n
      BY <1>2 DEF Events
    <2> QED
      BY <2>1, UnderWayHasRow DEF Expire, OrderInv, TypeOK
  <1> QED
    BY <1>1, <1>3, OnceKept, SameQueue DEF Expire, Once, LeaseHeld

LEMMA OnceDelete ==
  ASSUME OrderInv, TypeOK', Once, NEW o \in Orders, NEW n \in 1..MaxEvents, DeleteDelivered(o, n)
  PROVE  Once'
  <1>1. RowsKept
    BY DeleteKeeps
  <1>2. \A e \in Events : UnderWay(e) => status'[e.order][e.at] = "IN_FLIGHT"
    <2> SUFFICES ASSUME NEW e \in Events, UnderWay(e)
                 PROVE  status'[e.order][e.at] = "IN_FLIGHT"
      OBVIOUS
    <2>1. status[e.order][e.at] = "IN_FLIGHT"
      BY DEF Once, LeaseHeld
    <2> QED
      BY <2>1, UnderWayHasRow DEF DeleteDelivered, OrderInv, TypeOK
  <1> QED
    BY <1>1, <1>2, OnceKept, SameQueue DEF DeleteDelivered

LEMMA OnceProcessReport ==
  ASSUME OrderInv, TypeOK', Once, NEW s \in Shards, NEW ok \in BOOLEAN, ProcessReport(s, ok)
  PROVE  Once'
  <1>1. RowsKept /\ QueueKept
    BY ProcessReportKeeps, ReportTaken DEF OrderInv
  <1> QED
    BY <1>1, OnceKept DEF ProcessReport, rowVars, Once, LeaseHeld

LEMMA OnceReport ==
  ASSUME OrderInv, TypeOK', Once, NEW o \in Orders, Report(o)
  PROVE  Once'
  <1>1. RowsKept /\ QueueKept
    BY ReportKeeps, ReportOffered DEF OrderInv
  <1> QED
    BY <1>1, OnceKept DEF Report, rowVars, Once, LeaseHeld

\* What the query picks has no copy under way and was not handled.
LEMMA OncePoll ==
  ASSUME OrderInv, TypeOK', Once, Poll
  PROVE  Once'
  <1>1. \A e \in Claimable : e \in Events /\ ~UnderWay(e) /\ Last(e.order) < e.at
    <2> SUFFICES ASSUME NEW e \in Claimable
                 PROVE  e \in Events /\ ~UnderWay(e) /\ Last(e.order) < e.at
      OBVIOUS
    <2>1. e \in Events /\ e.at = Confirmed(e.order) + 1 /\ e.order \in Orders
      BY ClaimableIsNext DEF Events
    <2>2. status[e.order][e.at] # "IN_FLIGHT"
      BY DEF Claimable, Due
    <2>3. ~UnderWay(e)
      BY <2>1, <2>2 DEF Once, LeaseHeld
    <2>4. Last(e.order) # Confirmed(e.order) + 1
      <3> SUFFICES ASSUME Last(e.order) = Confirmed(e.order) + 1 PROVE FALSE
        OBVIOUS
      <3>1. e = [order |-> e.order, at |-> Last(e.order)]
        BY <2>1 DEF Events
      <3>2. Resulted(e)
        BY <2>1, <3>1 DEF Once, AheadIsReported, Resulted
      <3> QED
        BY <2>3, <3>2, UnderWayIs
    <2> QED
      BY <2>1, <2>3, <2>4 DEF OrderInv, HandledNext, DonePrefix
  <1>2. claimed' \subseteq Claimable /\ claimed = {} /\ UNCHANGED <<queue, result, handled>>
    BY DEF Poll
  <1>3. RowsKept /\ \A o \in Orders : Confirmed(o)' = Confirmed(o) /\ Last(o)' = Last(o)
    BY PollKeeps, KeptOrder DEF Poll
  <1>4. \A e : (InQueue(e)' <=> InQueue(e)) /\ (Resulted(e)' <=> Resulted(e))
    BY <1>2 DEF InQueue, Queued, Resulted
  <1>5. OneCopy'
    <2>1. \A e \in claimed' : ~InQueue(e)' /\ ~Resulted(e)'
      BY <1>1, <1>2, <1>4, UnderWayIs
    <2>2. \A e \in Events : InQueue(e)' => ~Resulted(e)'
      BY <1>4 DEF Once, OneCopy
    <2> QED
      BY <1>2, <2>1, <2>2 DEF Once, OneCopy
  <1>6. LeaseHeld'
    <2> SUFFICES ASSUME NEW e \in Events, UnderWay(e)'
                 PROVE  status'[e.order][e.at] = "IN_FLIGHT"
      BY DEF LeaseHeld
    <2>1. e \in Claimable \/ UnderWay(e)
      BY <1>2 DEF UnderWay
    <2>2. /\ e.order \in Orders /\ e.at \in DOMAIN status[e.order]
          /\ e \in Claimable \/ status[e.order][e.at] = "IN_FLIGHT"
      BY <2>1, UnderWayHasRow, ClaimableIsNext DEF Once, LeaseHeld, Events
    <2>3. e = [order |-> e.order, at |-> e.at]
      BY DEF Events
    <2> QED
      BY <2>2, <2>3 DEF Poll
  <1>7. NotYetHandled'
    <2>1. \A e \in Events : e.order \in Orders
      BY DEF Events
    <2> QED
      BY <1>1, <1>2, <1>3, <1>4, <2>1 DEF Once, NotYetHandled
  <1>8. AheadIsReported' /\ Increasing'
    BY <1>2, <1>3 DEF Once, AheadIsReported, Increasing
  <1> QED
    BY <1>5, <1>6, <1>7, <1>8 DEF Once

LEMMA OnceDispatch ==
  ASSUME OrderInv, TypeOK', Once, NEW e \in claimed, Dispatch(e)
  PROVE  Once'
  <1>1. RowsKept /\ \A o \in Orders : Confirmed(o)' = Confirmed(o) /\ Last(o)' = Last(o)
    BY DispatchKeeps, KeptOrder DEF Dispatch
  <1>2. /\ claimed' = claimed \ {e} /\ UNCHANGED <<status, handled>> /\ result[Poller] = None
        /\ e \in Events /\ claimed \subseteq Events /\ ~InQueue(e) /\ ~Resulted(e)
        /\ Last(e.order) < e.at
    BY DEF Dispatch, OrderInv, TypeOK, Once, OneCopy, NotYetHandled
  <1>3. \A f \in Events : f.order \in Orders
    BY DEF Events
  <1> DEFINE s == ShardOf[e.order]
  <1>4. CASE ~Full(s) /\ Offer(s, e) /\ UNCHANGED result
    <2>1. s \in Shards /\ queue[s] \in Seq(Events \cup Reports)
      BY <1>2, OutboxAssumption DEF Events, OrderInv, TypeOK
    <2>2. /\ queue'[s] = Append(queue[s], e)
          /\ \A z \in Shards \ {s} : queue'[z] = queue[z]
      BY <1>4, <2>1 DEF OrderInv, TypeOK, Offer
    <2>3. /\ DOMAIN queue'[s] = DOMAIN queue[s] \cup {Len(queue[s]) + 1}
          /\ \A i \in DOMAIN queue'[s] :
                queue'[s][i] = IF i \in DOMAIN queue[s] THEN queue[s][i] ELSE e
      BY <2>1, <2>2
    <2>4. \A z \in Shards : \A i \in DOMAIN queue'[z] :
              \/ i \in DOMAIN queue[z] /\ queue'[z][i] = queue[z][i]
              \/ z = s /\ i = Len(queue[s]) + 1 /\ queue'[z][i] = e
      BY <2>2, <2>3
    <2>5. \A f : /\ InQueue(f)' => InQueue(f) \/ f = e
                 /\ Resulted(f)' <=> Resulted(f)
      BY <1>4, <2>4 DEF InQueue, Queued, Resulted
    <2>6. \A z \in Shards : \A i \in DOMAIN queue[z] : queue[z][i] # e
      BY <1>2 DEF InQueue, Queued
    <2>7. \A z \in Shards : \A i, j \in DOMAIN queue'[z] :
              queue'[z][i] = queue'[z][j] /\ queue'[z][i] \in Events => i = j
      BY <2>4, <2>6 DEF Once, OneCopy
    <2>8. OneCopy'
      <3>1. \A f \in claimed' : ~InQueue(f)' /\ ~Resulted(f)'
        BY <1>2, <2>5 DEF Once, OneCopy
      <3>2. \A f \in Events : InQueue(f)' => ~Resulted(f)'
        BY <1>2, <2>5 DEF Once, OneCopy
      <3> QED
        BY <1>4, <2>7, <3>1, <3>2 DEF Once, OneCopy
    <2>9. LeaseHeld'
      <3>1. \A f \in Events : UnderWay(f)' => f \in claimed' \/ InQueue(f)' \/ Resulted(f)'
        BY DEF UnderWay, InQueue, Queued, Resulted
      <3>2. \A f \in Events : UnderWay(f)' => UnderWay(f)
        BY <1>2, <2>5, <3>1, UnderWayIs
      <3> QED
        BY <1>2, <3>2 DEF Once, LeaseHeld
    <2>10. NotYetHandled'
      BY <1>1, <1>2, <1>3, <1>4, <2>5 DEF Once, NotYetHandled
    <2>11. AheadIsReported' /\ Increasing'
      BY <1>1, <1>2, <1>4 DEF Once, AheadIsReported, Increasing
    <2> QED
      BY <2>8, <2>9, <2>10, <2>11 DEF Once
  <1>5. CASE queue' = queue /\ result' = [result EXCEPT ![Poller] = [event |-> e, ok |-> FALSE]]
    <2>1. \A t \in Threads :
             result'[t] = IF t = Poller THEN [event |-> e, ok |-> FALSE] ELSE result[t]
      BY <1>5 DEF OrderInv, TypeOK
    <2>2. \A f : /\ InQueue(f)' <=> InQueue(f)
                 /\ Resulted(f)' => Resulted(f) \/ f = e
      BY <1>5, <2>1 DEF InQueue, Queued, Resulted
    <2>3. \A t \in Threads : result[t] # None => result[t].event # e
      BY <1>2 DEF Resulted
    <2>4. OneCopy'
      <3>1. \A f \in claimed' : ~InQueue(f)' /\ ~Resulted(f)'
        BY <1>2, <2>2 DEF Once, OneCopy
      <3>2. \A f \in Events : InQueue(f)' => ~Resulted(f)'
        BY <1>2, <2>2 DEF Once, OneCopy
      <3>3. \A t, u \in Threads :
              result'[t] # None /\ result'[u] # None /\ result'[t].event = result'[u].event => t = u
        BY <2>1, <2>3 DEF Once, OneCopy
      <3> QED
        BY <1>5, <3>1, <3>2, <3>3 DEF Once, OneCopy
    <2>5. LeaseHeld'
      <3>1. \A f \in Events : UnderWay(f)' => f \in claimed' \/ InQueue(f)' \/ Resulted(f)'
        BY DEF UnderWay, InQueue, Queued, Resulted
      <3>2. \A f \in Events : UnderWay(f)' => UnderWay(f)
        BY <1>2, <2>2, <3>1, UnderWayIs
      <3> QED
        BY <1>2, <3>2 DEF Once, LeaseHeld
    <2>6. NotYetHandled'
      <3>1. \A f \in Events : f \in claimed' \/ InQueue(f)' => Last(f.order)' < f.at
        BY <1>1, <1>2, <1>3, <2>2 DEF Once, NotYetHandled
      <3>2. \A t \in Threads : \A f \in Events :
                result'[t] # None /\ result'[t].event = f /\ ~result'[t].ok =>
                    Last(f.order)' < f.at
        BY <1>1, <1>2, <1>3, <2>1 DEF Once, NotYetHandled
      <3> QED
        BY <3>1, <3>2 DEF NotYetHandled
    <2>7. AheadIsReported' /\ Increasing'
      BY <1>1, <1>2, <2>1 DEF Once, AheadIsReported, Increasing
    <2> QED
      BY <2>4, <2>5, <2>6, <2>7 DEF Once
  <1> QED
    BY <1>4, <1>5 DEF Dispatch

LEMMA OnceProcessEvent ==
  ASSUME OrderInv, TypeOK', Once, NEW s \in Shards, NEW ok \in BOOLEAN, ProcessEvent(s, ok)
  PROVE  Once'
  <1>0. PICK e \in Events : e = Head(queue[s])
    BY DEF ProcessEvent
  <1>1. UNCHANGED <<status, claimed>> /\ \A o \in Orders : Confirmed(o)' = Confirmed(o)
    BY DEF ProcessEvent, DoneOf, Confirmed
  <1>2. /\ queue[s] \in Seq(Events \cup Reports) /\ queue[s] # <<>> /\ Len(queue[s]) \in Nat \ {0}
        /\ DOMAIN queue[s] = 1..Len(queue[s]) /\ e = queue[s][1]
    BY <1>0 DEF OrderInv, TypeOK, ProcessEvent
  <1>3. /\ \A i \in DOMAIN Tail(queue[s]) :
              i \in Nat \ {0} /\ i + 1 \in DOMAIN queue[s] /\ Tail(queue[s])[i] = queue[s][i + 1]
    BY <1>2
  <1>4. queue'[s] = Tail(queue[s]) /\ \A z \in Shards \ {s} : queue'[z] = queue[z]
    BY DEF OrderInv, TypeOK, ProcessEvent
  <1>5. Queued(e, s) /\ InQueue(e) /\ ~Resulted(e) /\ e \notin claimed /\ ShardOf[e.order] = s
        /\ e.order \in Orders /\ e.at \in Nat /\ Last(e.order) < e.at /\ UnderWay(e)
    <2>1. Queued(e, s) /\ InQueue(e)
      BY <1>2 DEF Queued, InQueue
    <2>2. ~Resulted(e) /\ e \notin claimed /\ Last(e.order) < e.at
      BY <2>1 DEF Once, OneCopy, NotYetHandled
    <2> QED
      BY <2>1, <2>2, UnderWayIs DEF OrderInv, Copies, QueuedCurrent, Events
  <1>6. PICK u \in Threads : result[u] = None /\ result' = [result EXCEPT ![u] = [event |-> e, ok |-> ok]]
    BY <1>0 DEF ProcessEvent, Threads
  <1>7. \A t \in Threads : result'[t] = IF t = u THEN [event |-> e, ok |-> ok] ELSE result[t]
    BY <1>6 DEF OrderInv, TypeOK
  <1>8. [event |-> e, ok |-> ok] # None
    BY OutboxAssumption DEF Outcomes
  <1>9. \A z \in Shards : \A i \in DOMAIN queue'[z] :
            \/ z # s /\ i \in DOMAIN queue[z] /\ queue'[z][i] = queue[z][i]
            \/ z = s /\ i \in Nat \ {0} /\ i + 1 \in DOMAIN queue[z] /\ queue'[z][i] = queue[z][i + 1]
    BY <1>3, <1>4
  <1>10. \A f \in Events : InQueue(f)' => InQueue(f) /\ f # e
    <2> SUFFICES ASSUME NEW f \in Events, NEW z \in Shards, NEW i \in DOMAIN queue'[z],
                        queue'[z][i] = f
                 PROVE  InQueue(f) /\ f # e
      BY DEF InQueue, Queued
    <2>1. CASE z = s
      <3>1. i \in Nat \ {0} /\ i + 1 \in DOMAIN queue[s] /\ queue[s][i + 1] = f
        BY <1>9, <2>1
      <3>2. 1 \in DOMAIN queue[s] /\ 1 # i + 1
        BY <1>2, <3>1
      <3>3. f # e
        BY <1>2, <3>1, <3>2 DEF Once, OneCopy
      <3> QED
        BY <3>1, <3>3 DEF InQueue, Queued
    <2>2. CASE z # s
      <3>1. Queued(f, z)
        BY <1>9, <2>2 DEF Queued
      <3>2. ShardOf[f.order] = z
        BY <3>1 DEF OrderInv, Copies, QueuedCurrent
      <3> QED
        BY <1>5, <2>2, <3>1, <3>2 DEF InQueue
    <2> QED
      BY <2>1, <2>2
  <1>11. \A f : Resulted(f)' <=> Resulted(f) \/ f = e
    BY <1>6, <1>7, <1>8 DEF Resulted
  <1>12. OneCopy'
    <2>1. \A f \in claimed' : ~InQueue(f)' /\ ~Resulted(f)'
      <3>1. claimed \subseteq Events
        BY DEF OrderInv, TypeOK
      <3> QED
        BY <1>1, <1>5, <1>10, <1>11, <3>1 DEF Once, OneCopy
    <2>2. \A f \in Events : InQueue(f)' => ~Resulted(f)'
      BY <1>10, <1>11 DEF Once, OneCopy
    <2>3. \A z \in Shards : \A i, j \in DOMAIN queue'[z] :
              queue'[z][i] = queue'[z][j] /\ queue'[z][i] \in Events => i = j
      <3> SUFFICES ASSUME NEW z \in Shards, NEW i \in DOMAIN queue'[z], NEW j \in DOMAIN queue'[z],
                          queue'[z][i] = queue'[z][j], queue'[z][i] \in Events
                   PROVE  i = j
        OBVIOUS
      <3>1. CASE z # s
        BY <1>9, <3>1 DEF Once, OneCopy
      <3>2. CASE z = s
        <4>1. i \in Nat /\ j \in Nat /\ i + 1 = j + 1
          BY <1>9, <3>2 DEF Once, OneCopy
        <4> QED
          BY <4>1
      <3> QED
        BY <3>1, <3>2
    <2>4. \A t, v \in Threads :
            result'[t] # None /\ result'[v] # None /\ result'[t].event = result'[v].event => t = v
      <3>1. \A t \in Threads : result[t] # None => result[t].event # e
        BY <1>5 DEF Resulted
      <3> QED
        BY <1>7, <3>1 DEF Once, OneCopy
    <2> QED
      BY <2>1, <2>2, <2>3, <2>4 DEF OneCopy
  <1>13. LeaseHeld'
    <2>1. \A f \in Events : UnderWay(f)' => f \in claimed' \/ InQueue(f)' \/ Resulted(f)'
      BY DEF UnderWay, InQueue, Queued, Resulted
    <2>2. \A f \in Events : UnderWay(f)' => UnderWay(f)
      BY <1>1, <1>5, <1>10, <1>11, <2>1, UnderWayIs
    <2> QED
      BY <1>1, <2>2 DEF Once, LeaseHeld
  <1>14. \A o \in Orders : Last(o)' = IF ok /\ o = e.order THEN e.at ELSE Last(o)
    <2>1. CASE ok
      <3>1. handled'[e.order] = Append(handled[e.order], e.at)
            /\ \A o \in Orders \ {e.order} : handled'[o] = handled[o]
        BY <1>0, <1>5, <2>1 DEF ProcessEvent, OrderInv, TypeOK
      <3>2. handled[e.order] \in Seq(Nat)
        BY <1>5 DEF OrderInv, TypeOK
      <3>3. /\ Append(handled[e.order], e.at) # <<>>
            /\ Append(handled[e.order], e.at)[Len(Append(handled[e.order], e.at))] = e.at
        BY <1>5, <3>2, LastOfAppend
      <3> QED
        BY <2>1, <3>1, <3>3 DEF Last, Delivery!LastOf
    <2>2. CASE ~ok
      BY <2>2 DEF Last, Delivery!LastOf, ProcessEvent
    <2> QED
      BY <2>1, <2>2
  \* Nothing else of that order is under way and not handled.
  <1>15. \A f \in Events : UnderWay(f) /\ Last(f.order) < f.at /\ f # e => f.order # e.order
    BY <1>5, OneOfAnOrder
  <1>16. NotYetHandled'
    <2>1. ASSUME NEW f \in Events, f \in claimed' \/ InQueue(f)' PROVE Last(f.order)' < f.at
      <3>1. (f \in claimed \/ InQueue(f)) /\ f # e /\ f.order \in Orders
        BY <1>1, <1>5, <1>10, <2>1 DEF Events
      <3>2. UnderWay(f) /\ Last(f.order) < f.at
        BY <3>1, UnderWayIs DEF Once, NotYetHandled
      <3> QED
        BY <1>14, <1>15, <3>1, <3>2
    <2>2. ASSUME NEW t \in Threads, NEW f \in Events,
                 result'[t] # None, result'[t].event = f, ~result'[t].ok
          PROVE  Last(f.order)' < f.at
      <3>1. CASE t = u
        BY <1>5, <1>7, <1>14, <2>2, <3>1
      <3>2. CASE t # u
        <4>1. result'[t] = result[t] /\ Last(f.order) < f.at /\ f.order \in Orders
          BY <1>7, <2>2, <3>2 DEF Once, NotYetHandled, Events
        <4>2. Resulted(f) /\ f # e
          BY <1>5, <2>2, <4>1 DEF Resulted
        <4>3. UnderWay(f)
          BY <4>2, UnderWayIs
        <4> QED
          BY <1>14, <1>15, <4>1, <4>2, <4>3
      <3> QED
        BY <3>1, <3>2
    <2> QED
      BY <2>1, <2>2 DEF NotYetHandled
  <1>17. AheadIsReported'
    <2> SUFFICES ASSUME NEW o \in Orders, Last(o)' = Confirmed(o)' + 1
                 PROVE  \E t \in Threads : /\ result'[t] # None /\ result'[t].ok
                                           /\ result'[t].event = [order |-> o, at |-> Last(o)']
      BY DEF AheadIsReported
    <2>1. CASE ok /\ o = e.order
      <3>1. e = [order |-> o, at |-> Last(o)']
        BY <1>14, <2>1 DEF Events
      <3> QED
        BY <1>7, <1>8, <2>1, <3>1
    <2>2. CASE ~(ok /\ o = e.order)
      <3>1. Last(o)' = Last(o) /\ Last(o) = Confirmed(o) + 1
        BY <1>1, <1>14, <2>2
      <3>2. PICK t \in Threads : /\ result[t] # None /\ result[t].ok
                                 /\ result[t].event = [order |-> o, at |-> Last(o)]
        BY <3>1 DEF Once, AheadIsReported
      <3> QED
        BY <1>6, <1>7, <3>1, <3>2
    <2> QED
      BY <2>1, <2>2
  <1>18. Increasing'
    <2>1. CASE ~ok
      BY <2>1 DEF Once, Increasing, ProcessEvent
    <2>2. CASE ok
      <3> DEFINE h == handled[e.order]
      <3>1. handled'[e.order] = Append(h, e.at)
            /\ \A o \in Orders \ {e.order} : handled'[o] = handled[o]
        BY <1>0, <1>5, <2>2 DEF ProcessEvent, OrderInv, TypeOK
      <3>2. h \in Seq(Nat) /\ Len(h) \in Nat /\ DOMAIN h = 1..Len(h)
        BY <1>5 DEF OrderInv, TypeOK
      <3>3. \A i \in 1..Len(h) : h[i] < e.at /\ h[i] \in Nat
        <4> SUFFICES ASSUME NEW i \in 1..Len(h) PROVE h[i] < e.at /\ h[i] \in Nat
          OBVIOUS
        <4>1. h # <<>> /\ Last(e.order) = h[Len(h)]
          BY <3>2 DEF Last, Delivery!LastOf
        <4>2. i = Len(h) \/ h[i] < h[Len(h)]
          BY <1>5, <3>2 DEF Once, Increasing
        <4> QED
          BY <1>5, <3>2, <4>1, <4>2
      <3>4. \A i, j \in DOMAIN Append(h, e.at) : i < j => Append(h, e.at)[i] < Append(h, e.at)[j]
        <4> HIDE DEF h
        <4>1. /\ DOMAIN Append(h, e.at) = 1..(Len(h) + 1) /\ Append(h, e.at)[Len(h) + 1] = e.at
              /\ \A i \in 1..Len(h) : Append(h, e.at)[i] = h[i]
          BY <3>2
        <4>2. \A i, j \in 1..Len(h) : i < j => h[i] < h[j]
          BY <1>5, <3>2 DEF Once, Increasing, h
        <4> QED
          BY <3>2, <3>3, <4>1, <4>2
      <3> QED
        BY <3>1, <3>4 DEF Once, Increasing
    <2> QED
      BY <2>1, <2>2
  <1> QED
    BY <1>12, <1>13, <1>16, <1>17, <1>18 DEF Once

LEMMA OnceRecord ==
  ASSUME OrderInv, OrderInv', Once, NEW t \in Threads, Record(t)
  PROVE  Once'
  <1>1. PICK f \in Events : result[t] # None /\ result[t].event = f
    BY DEF OrderInv, TypeOK, Outcomes, Record
  <1>2. /\ f.order \in Orders /\ f.at \in DOMAIN status[f.order] /\ Resulted(f)
        /\ f.at \in Nat \ {0} /\ f.at <= Confirmed(f.order) + 1
        /\ status[f.order][f.at] = "IN_FLIGHT"
    <2>1. Resulted(f) /\ UnderWay(f) /\ f.at \in Nat \ {0}
      BY <1>1, UnderWayIs DEF Resulted, Events
    <2> QED
      BY <2>1, UnderWayHasRow DEF Once, LeaseHeld
  <1> DEFINE v == IF result[t].ok THEN "DELIVERED" ELSE "PENDING"
  <1>3. /\ UNCHANGED <<claimed, queue, handled>>
        /\ status' = [status EXCEPT ![f.order][f.at] = v]
        /\ result' = [result EXCEPT ![t] = None]
    BY <1>1, <1>2 DEF Record, Recorded, InFlight
  <1>4. \A u \in Threads : result'[u] = IF u = t THEN None ELSE result[u]
    BY <1>3 DEF OrderInv, TypeOK
  <1>5. \A p \in Orders : \A n \in DOMAIN status[p] :
            status'[p][n] = IF p = f.order /\ n = f.at THEN v ELSE status[p][n]
    BY <1>2, <1>3 DEF OrderInv, TypeOK
  <1>6. \A e \in Events : (InQueue(e)' <=> InQueue(e)) /\ (Resulted(e)' => Resulted(e) /\ e # f)
    <2>1. \A e : (InQueue(e)' <=> InQueue(e)) /\ (Resulted(e)' => Resulted(e))
      BY <1>3, <1>4 DEF InQueue, Queued, Resulted
    <2>2. ~Resulted(f)'
      BY <1>1, <1>4 DEF Resulted, Once, OneCopy
    <2> QED
      BY <2>1, <2>2
  <1>7. OneCopy'
    <2>1. claimed \subseteq Events
      BY DEF OrderInv, TypeOK
    <2> QED
      BY <1>3, <1>4, <1>6, <2>1 DEF Once, OneCopy
  <1>8. LeaseHeld'
    <2> SUFFICES ASSUME NEW e \in Events, UnderWay(e)'
                 PROVE  status'[e.order][e.at] = "IN_FLIGHT"
      BY DEF LeaseHeld
    <2>1. e \in claimed \/ InQueue(e) \/ Resulted(e)'
      BY <1>3 DEF UnderWay, InQueue, Queued, Resulted
    <2>2. UnderWay(e) /\ e # f
      BY <1>2, <1>6, <2>1, UnderWayIs DEF Once, OneCopy
    <2>3. e.order # f.order \/ e.at # f.at
      BY <2>2 DEF Events
    <2> QED
      BY <1>5, <2>2, <2>3, UnderWayHasRow DEF Once, LeaseHeld
  <1>9. \A o \in Orders : Last(o)' = Last(o)
    BY <1>3 DEF Last, Delivery!LastOf
  <1>10. NotYetHandled'
    <2>1. \A e \in Events : e.order \in Orders
      BY DEF Events
    <2> QED
      BY <1>3, <1>4, <1>6, <1>9, <2>1 DEF Once, NotYetHandled
  <1>11. AheadIsReported'
    <2> SUFFICES ASSUME NEW o \in Orders, Last(o)' = Confirmed(o)' + 1
                 PROVE  \E u \in Threads : /\ result'[u] # None /\ result'[u].ok
                                           /\ result'[u].event = [order |-> o, at |-> Last(o)']
      BY DEF AheadIsReported
    <2>1. ASSUME ~(result[t].ok /\ o = f.order) PROVE Confirmed(o)' = Confirmed(o)
      <3>1. DOMAIN status'[o] = DOMAIN status[o]
        BY <1>2, <1>3 DEF OrderInv, TypeOK
      <3>2. \A n \in DOMAIN status[o] : status'[o][n] \in Done <=> status[o][n] \in Done
        BY <1>2, <1>5, <2>1 DEF Done
      <3>3. DoneOf(o)' = DoneOf(o)
        BY <3>1, <3>2 DEF DoneOf
      <3> QED
        BY <3>3 DEF Confirmed
    <2>2. CASE result[t].ok /\ o = f.order
      <3>1. Last(o) \in Nat /\ Confirmed(o) \in Nat /\ Confirmed(o)' \in Nat
            /\ Last(o) <= Confirmed(o) + 1 /\ f.at <= Last(o)
        BY <1>1, <2>2 DEF OrderInv, HandledNext, DonePrefix, Copies, OutcomeHandled
      <3>2. f.at \notin 1..Confirmed(o) /\ f.at \in 1..Confirmed(o)'
        <4>1. f.at \notin DoneOf(o)
          BY <1>2, <2>2 DEF DoneOf, Done
        <4>2. f.at \in DoneOf(o)'
          <5>1. f.at \in DOMAIN status'[o] /\ status'[o][f.at] = "DELIVERED"
            BY <1>2, <1>3, <1>5, <2>2 DEF OrderInv, TypeOK
          <5> QED
            BY <5>1 DEF DoneOf, Done
        <4> QED
          BY <4>1, <4>2 DEF OrderInv, DonePrefix
      <3> QED
        BY <1>2, <1>9, <3>1, <3>2
    <2>3. CASE ~(result[t].ok /\ o = f.order)
      <3>1. Last(o)' = Last(o) /\ Last(o) = Confirmed(o) + 1
        BY <1>9, <2>1, <2>3
      <3>2. PICK u \in Threads : /\ result[u] # None /\ result[u].ok
                                 /\ result[u].event = [order |-> o, at |-> Last(o)]
        BY <3>1 DEF Once, AheadIsReported
      <3>3. u # t
        BY <1>1, <2>3, <3>2
      <3> QED
        BY <1>4, <3>1, <3>2, <3>3
    <2> QED
      BY <2>2, <2>3
  <1>12. Increasing'
    BY <1>3 DEF Once, Increasing
  <1> QED
    BY <1>7, <1>8, <1>10, <1>11, <1>12 DEF Once

LEMMA OnceStep == OrderInv /\ OrderInv' /\ OnceInv /\ [Next]_vars => OnceInv'
  <1> SUFFICES ASSUME OrderInv, OrderInv', OnceInv, [Next]_vars, faults' = 0 PROVE Once'
    BY DEF OnceInv
  <1>1. TypeOK' /\ faults \in Nat
    BY DEF OrderInv, TypeOK
  <1>2. ~Fault
    BY <1>1 DEF Fault
  <1>3. faults = 0
    BY <1>1, <1>2 DEF Next, Poll, Crash, Dispatch, Process, ProcessEvent, ProcessReport, Record,
       RecordLost, Write, Report, Expire, DeleteDelivered, vars
  <1>4. Once
    BY <1>3 DEF OnceInv
  <1>5. CASE UNCHANGED vars
    <2>1. RowsKept
      BY <1>5 DEF vars, rowVars, RowsKept, DoneOf
    <2> QED
      BY <1>1, <1>4, <1>5, <2>1, OnceKept, SameQueue DEF vars, rowVars, Once, LeaseHeld
  <1>6. ASSUME NEW s \in Shards, NEW ok \in BOOLEAN, Process(s, ok) PROVE Once'
    BY <1>1, <1>4, <1>6, OnceProcessEvent, OnceProcessReport DEF Process
  <1> QED
    BY <1>1, <1>2, <1>4, <1>5, <1>6, OncePoll, OnceDispatch, OnceRecord, OnceWrite, OnceReport,
       OnceExpire, OnceDelete DEF Next, Crash, RecordLost

\* As long as no process is lost, no statement fails and no lease runs out early, every
\* event that has a row is handled at most once, however often its shard rejects it or the
\* venue fails on it: a claimed event has one copy, its row keeps the lease while that copy
\* is anywhere, and an event that was handled and is not marked is about to be recorded by
\* one thread.
THEOREM OutboxOnce == Spec => []HandledOnceWithoutFaults
  <1>1. Init => OnceInv
    BY OnceInit DEF OnceInv
  <1>2. OrderInv /\ OnceInv => HandledOnceWithoutFaults
    <2> SUFFICES ASSUME OrderInv, Once, NEW o \in Orders,
                        NEW i \in DOMAIN handled[o], NEW j \in DOMAIN handled[o],
                        handled[o][i] = handled[o][j]
                 PROVE  i = j
      BY DEF OnceInv, HandledOnceWithoutFaults
    <2>1. handled[o] \in Seq(Nat)
      BY DEF OrderInv, TypeOK
    <2>2. i \in Nat /\ j \in Nat /\ handled[o][i] \in Nat /\ handled[o][j] \in Nat
      BY <2>1
    <2>3. ~(i < j) /\ ~(j < i)
      BY <2>2 DEF Once, Increasing
    <2> QED
      BY <2>2, <2>3
  <1> QED
    BY <1>1, <1>2, OnceStep, OutboxInOrder, PTL DEF Spec

=============================================================================

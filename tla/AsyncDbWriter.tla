---------------------------- MODULE AsyncDbWriter ----------------------------
(***************************************************************************)
(* AsyncDbWriter: the write-behind queues between the OMS writer thread    *)
(* and PostgreSQL, the flush that drains them table by table into one      *)
(* transaction, the salvage of a batch the database refused, and the check *)
(* before the write-ahead log is reclaimed.                                *)
(*                                                                         *)
(* The queues are ConcurrentLinkedDeques: the OMS writer thread enqueues   *)
(* between any two steps of the flush.  flush() itself is synchronized, so *)
(* there is one flusher.  The input-event audit queue is left out: nothing *)
(* in the recovery path reads it.                                          *)
(*                                                                         *)
(* An operator commented (mutant) is a wrong variant of the definition     *)
(* that follows it, which the properties must tell from the right one.     *)
(***************************************************************************)
EXTENDS WriteAheadLog, Integers, FiniteSetsExt

CONSTANTS
    Commands,          \* ids of CREATE commands
    Orders,            \* ids of orders
    Fills,             \* execution references
    OrderOf,           \* the order each of them fills, by one unit
    Size,              \* quantity of every order
    BatchSize,         \* BATCH_SIZE
    MaxFaults          \* bound on the times the database is away

ASSUME WriterAssumption ==
    /\ Commands \cap Orders = {} /\ Fills \cap (Commands \cup Orders) = {}
    /\ OrderOf \in [Fills -> Orders]
    /\ Size \in Nat \ {0}
    /\ BatchSize \in Nat \ {0}
    /\ MaxFaults \in Nat

\* The tables, in the order flush() drains, writes and checks their queues.
Tables == <<"order", "event", "processed", "execution", "output">>
Names  == {Tables[i] : i \in 1..Len(Tables)}

Absent  == -1                                      \* an order without a row
Results == {"created", "conflict"} \X Orders       \* what a command was answered

\* A row: the order it is about (in "processed": the command), and what the table
\* says of it: the traded quantity of an order, the result of a command, the
\* reference of an execution.
Row(id, says) == [id |-> id, says |-> says]

\* The rows of each table.
Rows == [t \in Names |->
    CASE t = "order"     -> [id : Orders, says : 0..Size]
      [] t = "event"     -> [id : Orders, says : {"CREATED", "FILL"}]
      [] t = "processed" -> [id : Commands, says : Results]
      [] t = "execution" -> {Row(OrderOf[f], f) : f \in Fills}
      [] t = "output"    -> [id : Orders, says : {"CREATED"}]]

VARIABLES
    queue,             \* the five queues
    firstWrites,       \* firstWriteIds
    batch,             \* the batch buffers of the flush under way
    flusher,           \* where flush() is: [pc, at]
    orders,            \* trading_order: the traded quantity of each order
    processed,         \* processed_order_command: the result of each command
    outputs,           \* order_delivery_outbox: how many rows each order has
    executions,        \* execution: the references of the rows
    faults,            \* how often the database has been away
    dropped,           \* rows salvage dropped (emporia.oms.writer.rejected_rows)
    absorbed           \* first writes that met an existing row (duplicate_..._reached_db)

database   == <<orders, processed, outputs, executions>>
flushVars  == <<batch, flusher>>
oracles    == <<dropped, absorbed>>
writerVars == <<queue, firstWrites, flushVars, database, faults, oracles>>

Empty == [t \in Names |-> <<>>]
Start == [pc |-> "drain", at |-> 1]

WriterTypeOK ==
    /\ DOMAIN queue = Names /\ \A t \in Names : queue[t] \in Seq(Rows[t])
    /\ DOMAIN batch = Names /\ \A t \in Names : batch[t] \in Seq(Rows[t]) /\ Len(batch[t]) <= BatchSize
    /\ firstWrites \subseteq Orders
    /\ flusher \in [pc : {"drain", "persist", "salvage", "check", "compact"}, at : 1..Len(Tables)]
    /\ orders \in [Orders -> {Absent} \cup 0..Size]
    /\ processed \in [Commands -> Results \cup {<<>>}]
    /\ outputs \in [Orders -> Nat]
    /\ executions \subseteq Fills
    /\ faults \in 0..MaxFaults
    /\ dropped \subseteq Names \X (Commands \cup Orders)
    /\ absorbed \subseteq Names \X (Commands \cup Orders)

WriterInit ==
    /\ queue = Empty /\ batch = Empty
    /\ firstWrites = {}
    /\ flusher = Start
    /\ orders = [o \in Orders |-> Absent]
    /\ processed = [k \in Commands |-> <<>>]
    /\ outputs = [o \in Orders |-> 0]
    /\ executions = {}
    /\ faults = 0
    /\ dropped = {} /\ absorbed = {}

----------------------------------------------------------------------------
(* The OMS writer thread's side.                                           *)

\* (mutant) the newest row is written first.
EnqueueFirst(t, row, isNew) ==
    /\ queue' = [queue EXCEPT ![t] = <<row>> \o @]
    /\ firstWrites' = IF isNew THEN firstWrites \cup {row.id} ELSE firstWrites

\* enqueue and enqueueNew.
Enqueue(t, row, isNew) ==
    /\ queue' = [queue EXCEPT ![t] = Append(@, row)]
    /\ firstWrites' = IF isNew THEN firstWrites \cup {row.id} ELSE firstWrites

----------------------------------------------------------------------------
(* The flush thread's side.                                                *)

GoTo(pc, at) == flusher' = [pc |-> pc, at |-> at]

Taken(t) == IF Len(queue[t]) < BatchSize THEN Len(queue[t]) ELSE BatchSize

\* drainPendingBatch, one queue per step: the writer thread may enqueue between.
DrainTable ==
    /\ flusher.pc = "drain"
    /\ LET t == Tables[flusher.at] IN
       /\ batch' = [batch EXCEPT ![t] = SubSeq(queue[t], 1, Taken(t))]
       /\ queue' = [queue EXCEPT ![t] = SubSeq(@, Taken(t) + 1, Len(@))]
    /\ IF flusher.at < Len(Tables) THEN GoTo("drain", flusher.at + 1)
       ELSE IF batch' = Empty THEN GoTo("check", 1) ELSE GoTo("persist", 1)
    /\ UNCHANGED <<firstWrites, database, faults, oracles>>

RowsIn(rows)    == {rows[i] : i \in 1..Len(rows)}

\* Where the rows about id are, and what the newest of them says.
About(rows, id)  == {i \in 1..Len(rows) : rows[i].id = id}
Newest(rows, id) == rows[Max(About(rows, id))].says

\* (mutant) upserts before inserts.
OrderWrittenUpsertFirst(rows, o) ==
    IF About(rows, o) = {} THEN orders[o]
    ELSE IF o \in firstWrites /\ orders[o] # Absent THEN orders[o]
    ELSE rows[Min(About(rows, o))].says

\* flushOrdersJdbc: the first row of an order that is marked a first write is
\* inserted and does nothing on conflict; every other row is an upsert.
OrderWritten(rows, o) ==
    IF About(rows, o) = {} THEN orders[o]
    ELSE IF o \in firstWrites /\ Cardinality(About(rows, o)) = 1 /\ orders[o] # Absent THEN orders[o]
    ELSE Newest(rows, o)

\* firstWriteIds that this write claims.
Claimed(rows) == {o \in firstWrites : About(rows, o) # {}}

\* The foreign keys of order_event and execution.
ReferencesHold(b) ==
    \A row \in RowsIn(b["event"]) \cup RowsIn(b["execution"]) :
        orders[row.id] # Absent \/ About(b["order"], row.id) # {}

\* Of the rows with one key, at these places of a batch, all but the first meet an
\* existing row, and the first does too if the table already has the key.
Repeats(places, inTable) == Cardinality(places) > (IF inTable THEN 0 ELSE 1)

\* The statements of persist(), committed.
Commit(b) ==
    /\ orders' = [o \in Orders |-> OrderWritten(b["order"], o)]
    /\ processed' = [k \in Commands |->
            IF processed[k] = <<>> /\ About(b["processed"], k) # {}
            THEN b["processed"][Min(About(b["processed"], k))].says ELSE processed[k]]
    /\ executions' = executions \cup {row.says : row \in RowsIn(b["execution"])}
    /\ outputs' = [o \in Orders |-> outputs[o] + Cardinality(About(b["output"], o))]
    /\ firstWrites' = firstWrites \ Claimed(b["order"])
    /\ absorbed' = absorbed
         \cup {<<"order", o>> : o \in {x \in Claimed(b["order"]) : orders[x] # Absent}}
         \cup {<<"processed", k>> : k \in {c \in Commands :
                  Repeats(About(b["processed"], c), processed[c] # <<>>)}}
         \cup {<<"execution", OrderOf[f]>> : f \in {g \in Fills :
                  Repeats({i \in 1..Len(b["execution"]) : b["execution"][i].says = g}, g \in executions)}}

\* persistBatch: one transaction, which commits, or is refused by a foreign key
\* after the order statements ran, or meets a database that is away before or
\* after they ran.  firstWriteIds is not part of what is rolled back.
PersistBatch ==
    /\ flusher.pc = "persist"
    /\ \/ /\ ReferencesHold(batch)
          /\ Commit(batch)
          /\ batch' = Empty /\ GoTo("check", 1)
          /\ UNCHANGED <<faults, dropped>>
       \/ /\ ~ReferencesHold(batch)
          /\ firstWrites' = firstWrites \ Claimed(batch["order"])
          /\ GoTo("salvage", 1)
          /\ UNCHANGED <<batch, database, faults, oracles>>
       \/ /\ faults < MaxFaults /\ faults' = faults + 1
          /\ firstWrites' \in {firstWrites, firstWrites \ Claimed(batch["order"])}
          /\ GoTo("salvage", 1)
          /\ UNCHANGED <<batch, database, oracles>>
    /\ UNCHANGED queue

\* (mutant) the rest of a batch is given up with the row that was refused.
AfterRefusal(b, t) == Empty

\* What salvage still has to write once the first row of table t is done with.
Remaining(b, t) == [b EXCEPT ![t] = Tail(@)]

\* salvage: each row in a transaction of its own; a row that fails is dropped.
SalvageRow ==
    /\ flusher.pc = "salvage"
    /\ batch[Tables[flusher.at]] # <<>>
    /\ LET t   == Tables[flusher.at]
           one == [Empty EXCEPT ![t] = <<Head(batch[t])>>] IN
       /\ batch' = Remaining(batch, t)
       /\ \/ /\ ReferencesHold(one)
             /\ Commit(one)
             /\ UNCHANGED <<faults, dropped>>
          \/ /\ \/ ~ReferencesHold(one) /\ UNCHANGED faults
                \/ faults < MaxFaults /\ faults' = faults + 1
             /\ dropped' = dropped \cup {<<t, Head(batch[t]).id>>}
             /\ firstWrites' \in {firstWrites, firstWrites \ Claimed(one["order"])}
             /\ UNCHANGED <<database, absorbed>>
    /\ UNCHANGED <<queue, flusher>>

SalvageNextTable ==
    /\ flusher.pc = "salvage"
    /\ batch[Tables[flusher.at]] = <<>>
    /\ IF flusher.at < Len(Tables) THEN GoTo("salvage", flusher.at + 1) ELSE GoTo("check", 1)
    /\ UNCHANGED <<queue, firstWrites, batch, database, faults, oracles>>

\* reclaimWriteAheadLog: the queues are looked at one after the other, and the log
\* is compacted after that.
CheckQueue ==
    /\ flusher.pc = "check"
    /\ IF queue[Tables[flusher.at]] # <<>> THEN GoTo("drain", 1)
       ELSE IF flusher.at < Len(Tables) THEN GoTo("check", flusher.at + 1)
       ELSE GoTo("compact", 1)
    /\ UNCHANGED <<queue, firstWrites, batch, database, faults, oracles>>

Reclaim ==
    /\ flusher.pc = "compact"
    /\ CompactToSafePoint
    /\ GoTo("drain", 1)
    /\ UNCHANGED <<queue, firstWrites, batch, database, faults, oracles>>

FlushStep ==
    \/ /\ DrainTable \/ PersistBatch \/ SalvageRow \/ SalvageNextTable \/ CheckQueue
       /\ UNCHANGED logVars
    \/ Reclaim

\* The process dies with its queues; a transaction under way is rolled back.
WriterCrash ==
    /\ queue' = Empty /\ batch' = Empty /\ firstWrites' = {}
    /\ flusher' = Start
    /\ UNCHANGED <<database, faults, oracles>>
=============================================================================

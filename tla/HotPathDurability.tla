--------------------------- MODULE HotPathDurability ---------------------------
(***************************************************************************)
(* The writer thread of DisruptorOrderPipeline over the write-ahead log    *)
(* and AsyncDbWriter: a CREATE command is logged, decided from memory,     *)
(* its rows are queued one by one, the safe point is advanced and the      *)
(* client answered; a fill is applied without being logged.  A crash keeps *)
(* the log and the database; the next start loads memory from the          *)
(* database and replays the log through the same handler before the ring   *)
(* and the scheduled flush start.                                          *)
(*                                                                         *)
(* Memory belongs to the writer thread alone, so a command's decision is   *)
(* one step; its rows are steps of their own because the flush thread      *)
(* drains the queues between them.                                         *)
(*                                                                         *)
(* An operator commented (mutant) is a wrong variant of the definition     *)
(* that follows it, which the properties must tell from the right one.     *)
(***************************************************************************)
EXTENDS AsyncDbWriter

CONSTANTS
    Attempts,          \* bound on how often a client sends one command
    OrderNamed,        \* the order id that a command names when it is sent for
                       \* the n-th time: a new one from OrderCommandController
                       \* .create, the same one from a strategy (publishChild)
    MaxCrashes,        \* bound on crashes
    None,              \* what the writer thread handles while idle
    LoadMayFail        \* whether loading the deduplication index can fail

ASSUME HotPathAssumption ==
    /\ Attempts \in Nat \ {0}
    /\ OrderNamed \in [Commands -> [1..Attempts -> Orders]]
    /\ \A k, l \in Commands : \A i, j \in 1..Attempts :
           OrderNamed[k][i] = OrderNamed[l][j] => k = l
    /\ MaxCrashes \in Nat
    /\ LoadMayFail \in BOOLEAN

VARIABLES
    writer,            \* the writer thread: [pc, on, rows, reply]
    serving,           \* the ring has started: replay is over
    replaying,         \* the log records replay has still to handle
    live,              \* OrderStateCache.orders: the traded quantity of a live order
    results,           \* OrderStateCache.processed: what it has not evicted
    seen,              \* the deduplication index and executionReferenceKeys
    ready,             \* indexAnswers and executionReferencesReady
    answers,           \* what the clients have been told of each command
    attempts,          \* how often each command was sent
    crashes

memory  == <<live, results, seen, ready>>
clients == <<answers, attempts>>
vars    == <<logVars, writerVars, writer, serving, replaying, memory, clients, crashes>>

\* A command as it was sent, and as the log records it.
Sending == [command : Commands, order : Orders]

\* What the writer thread handles is told apart by its kind.
ASSUME KindsAssumption == None \notin Sending \cup Fills /\ Fills \cap Sending = {}

NotLive == -1
Retry   == <<"retry">>                 \* 503
Full    == <<"full">>                  \* 507
ToQueue == UNION {{t} \X Rows[t] : t \in Names}     \* a table and a row of it
Idle    == [pc |-> "idle", on |-> None, rows |-> <<>>, reply |-> <<>>]

TypeOK ==
    /\ WriterTypeOK
    /\ wal \in Seq(Sending) /\ Len(wal) <= LogSize
    /\ safe \in 0..Len(wal)
    /\ writer \in [pc : {"idle", "decide", "rows"}, on : Sending \cup Fills \cup {None},
                   rows : Seq(ToQueue), reply : Results \cup {Retry, <<>>}]
    /\ replaying \in Seq(Sending)
    /\ live \in [Orders -> NotLive..Size]
    /\ results \in [Commands -> Results \cup {<<>>}]
    /\ seen \subseteq Commands \cup Orders \cup Fills
    /\ serving \in BOOLEAN /\ ready \in BOOLEAN
    /\ answers \in [Commands -> SUBSET (Results \cup {Retry, Full})]
    /\ attempts \in [Commands -> 0..Attempts]
    /\ crashes \in 0..MaxCrashes

Init ==
    /\ LogInit /\ WriterInit
    /\ writer = Idle /\ serving = TRUE /\ replaying = <<>>
    /\ live = [o \in Orders |-> NotLive]
    /\ results = [k \in Commands |-> <<>>]
    /\ seen = {} /\ ready = TRUE
    /\ answers = [k \in Commands |-> {}]
    /\ attempts = [k \in Commands |-> 0]
    /\ crashes = 0

----------------------------------------------------------------------------
(* Taking a command.                                                       *)

Handle(s) == writer' = [Idle EXCEPT !.pc = "decide", !.on = s]

Sent(k) ==
    /\ serving /\ writer.pc = "idle"
    /\ attempts[k] < Attempts
    /\ attempts' = [attempts EXCEPT ![k] = @ + 1]

\* submit, and logAhead on the writer thread: first sent, or sent again.
Accept(k) ==
    /\ Sent(k)
    /\ LET s == [command |-> k, order |-> OrderNamed[k][attempts'[k]]] IN
       AppendRecord(s) /\ Handle(s)
    /\ UNCHANGED <<writerVars, serving, replaying, memory, answers, crashes>>

\* logAhead refuses the command: it is not handled.
RefuseUnlogged(k) ==
    /\ Sent(k)
    /\ LogFull
    /\ answers' = [answers EXCEPT ![k] = @ \cup {Full}]
    /\ UNCHANGED <<logVars, writerVars, writer, serving, replaying, memory, crashes>>

\* replayWriteAheadLog hands the next record to the handler.
ReplayNext ==
    /\ ~serving /\ writer.pc = "idle" /\ replaying # <<>>
    /\ Handle(Head(replaying))
    /\ replaying' = Tail(replaying)
    /\ UNCHANGED <<logVars, writerVars, serving, memory, clients, crashes>>

----------------------------------------------------------------------------
(* OrderCommandHandler.handle for a CREATE s.                              *)

\* Not definitelyNew: in the index, or the index has not been loaded.
PossiblySeen(id) == ~ready \/ id \in seen

\* findProcessedByIdMemoryOnly answers definitely new.
IsNew(k) == results[k] = <<>> /\ ~PossiblySeen(k)

Deciding(s) == writer.pc = "decide" /\ writer.on = s

\* (mutant) the result is not cached.
DecidedUncached(s, reply, rows, ids) ==
    /\ writer' = [writer EXCEPT !.pc = "rows", !.reply = reply, !.rows = rows]
    /\ seen' = seen \cup ids
    /\ UNCHANGED results

\* A result is reached: it is cached and its command id indexed, with the ids of
\* what it created, and its rows are next.
Decided(s, reply, rows, ids) ==
    /\ writer' = [writer EXCEPT !.pc = "rows", !.reply = reply, !.rows = rows]
    /\ seen' = seen \cup {s.command} \cup ids
    /\ results' = [results EXCEPT ![s.command] = reply]

\* Answered without a row: the recorded result, or 503 and a retry.
DecideRepeat(s) ==
    /\ Deciding(s)
    /\ ~IsNew(s.command) \/ (live[s.order] = NotLive /\ PossiblySeen(s.order))
    /\ writer' = [writer EXCEPT !.pc = "rows",
           !.reply = IF results[s.command] = <<>> THEN Retry ELSE results[s.command]]
    /\ UNCHANGED <<logVars, writerVars, serving, replaying, memory, clients, crashes>>

\* 409 "Order already exists": the id belongs to a live order.
DecideConflict(s) ==
    /\ Deciding(s)
    /\ IsNew(s.command) /\ live[s.order] # NotLive
    /\ LET result == <<"conflict", s.order>> IN
       Decided(s, result, <<<<"processed", Row(s.command, result)>>>>, {})
    /\ UNCHANGED <<logVars, writerVars, serving, replaying, live, ready, clients, crashes>>

\* What create, success and enqueueOutbox enqueue, in their order.
RowsOfCreate(s) ==
    <<<<"order", Row(s.order, 0)>>, <<"event", Row(s.order, "CREATED")>>,
      <<"processed", Row(s.command, <<"created", s.order>>)>>,
      <<"output", Row(s.order, "CREATED")>>>>

DecideCreate(s) ==
    /\ Deciding(s)
    /\ IsNew(s.command) /\ live[s.order] = NotLive /\ ~PossiblySeen(s.order)
    /\ Decided(s, <<"created", s.order>>, RowsOfCreate(s), {s.order})
    /\ live' = [live EXCEPT ![s.order] = 0]
    /\ UNCHANGED <<logVars, writerVars, serving, replaying, ready, clients, crashes>>

\* OrderStateCache.processed keeps 50,000 results, each for 24 hours: one is evicted
\* at any time, and its command id stays in the index.
Evict(k) ==
    /\ results[k] # <<>>
    /\ results' = [results EXCEPT ![k] = <<>>]
    /\ UNCHANGED <<logVars, writerVars, writer, serving, replaying, live, seen, ready,
                   clients, crashes>>

----------------------------------------------------------------------------
(* ExecutionCommandHandler.handle for a fill.                              *)

RowsOfFill(f, traded) ==
    <<<<"execution", Row(OrderOf[f], f)>>, <<"order", Row(OrderOf[f], traded)>>,
      <<"event", Row(OrderOf[f], "FILL")>>>>

\* A venue knows an order from its outbox row, and may report a fill again at any
\* time.  A fill that is not definitely new, or whose order is not live, changes
\* nothing.
Fill(f) ==
    /\ serving /\ writer.pc = "idle"
    /\ outputs[OrderOf[f]] > 0
    /\ ~PossiblySeen(f)
    /\ LET o == OrderOf[f]  traded == live[o] + 1 IN
       /\ live[o] # NotLive
       /\ live' = [live EXCEPT ![o] = IF traded = Size THEN NotLive ELSE traded]
       /\ writer' = [Idle EXCEPT !.pc = "rows", !.on = f, !.rows = RowsOfFill(f, traded)]
    /\ seen' = seen \cup {f}
    /\ UNCHANGED <<logVars, writerVars, serving, replaying, results, ready, clients, crashes>>

----------------------------------------------------------------------------
(* Queueing the rows, and the end of a command.                            *)

EnqueueRow ==
    /\ writer.pc = "rows" /\ writer.rows # <<>>
    /\ LET t == Head(writer.rows)[1]  row == Head(writer.rows)[2] IN
       Enqueue(t, row, t = "order" /\ row.says = 0)
    /\ writer' = [writer EXCEPT !.rows = Tail(@)]
    /\ UNCHANGED <<logVars, flushVars, database, faults, oracles, serving, replaying,
                   memory, clients, crashes>>

Finished == writer.pc = "rows" /\ writer.rows = <<>> /\ writer' = Idle

\* A command handled on the ring: the safe point, then the answer.
Answer(s) ==
    /\ serving /\ Finished /\ writer.on = s
    /\ MarkSafePoint
    /\ answers' = [answers EXCEPT ![s.command] = @ \cup {writer.reply}]
    /\ UNCHANGED <<writerVars, serving, replaying, memory, attempts, crashes>>

\* A fill, or a record replayed: neither marks nor answers.
FinishUnanswered ==
    /\ Finished
    /\ ~serving \/ writer.on \in Fills
    /\ UNCHANGED <<logVars, writerVars, serving, replaying, memory, clients, crashes>>

\* The end of replay: every record went through the handler.
StartServing ==
    /\ ~serving /\ writer.pc = "idle" /\ replaying = <<>>
    /\ IF wal = <<>> THEN UNCHANGED logVars ELSE MarkSafePoint
    /\ serving' = TRUE
    /\ UNCHANGED <<writerVars, writer, replaying, memory, clients, crashes>>

----------------------------------------------------------------------------
(* A crash and the start that follows it.                                  *)

\* (mutant) what an order has traded is not loaded.
LoadedUntraded == [o \in Orders |-> IF orders[o] \in {Absent, Size} THEN NotLive ELSE 0]

\* LiveOrderStoreWarmup: the live orders of the database.
LoadedOrders == [o \in Orders |-> IF orders[o] = Size THEN NotLive ELSE orders[o]]

\* (mutant) the loader forgets the command ids.
LoadedIdsNoCommands == {o \in Orders : orders[o] # Absent} \cup executions

\* (mutant) the ids of the log are taken for ids of the database.
LoadedIdsAndLog ==
    {wal[i].command : i \in 1..Len(wal)} \cup {o \in Orders : orders[o] # Absent}
    \cup executions

\* DedupIndexLoader: the command ids, order ids and execution references of the
\* database, all within the horizon.
LoadedIds ==
    {k \in Commands : processed[k] # <<>>} \cup {o \in Orders : orders[o] # Absent}
    \cup executions

\* Memory and the queues are lost.  Only this process writes the database, so the
\* start that loads it is part of the step.
Crash ==
    /\ crashes < MaxCrashes /\ crashes' = crashes + 1
    /\ LogCrash /\ WriterCrash
    /\ writer' = Idle /\ serving' = FALSE /\ replaying' = wal
    /\ live' = LoadedOrders
    /\ results' = [k \in Commands |-> <<>>]
    /\ \/ ready' = TRUE /\ seen' = LoadedIds
       \/ LoadMayFail /\ ready' = FALSE /\ seen' = {}
    /\ UNCHANGED clients

----------------------------------------------------------------------------
\* The scheduled flush starts after the ring.
Flush ==
    /\ serving
    /\ FlushStep
    /\ UNCHANGED <<writer, serving, replaying, memory, clients, crashes>>

Decide(s)  == DecideRepeat(s) \/ DecideConflict(s) \/ DecideCreate(s)

WriterStep ==
    \/ \E s \in Sending : Decide(s) \/ Answer(s)
    \/ EnqueueRow \/ FinishUnanswered \/ ReplayNext \/ StartServing

Next ==
    \/ \E k \in Commands : Accept(k) \/ RefuseUnlogged(k) \/ Evict(k)
    \/ \E f \in Fills : Fill(f)
    \/ WriterStep
    \/ Flush
    \/ Crash

Spec == Init /\ [][Next]_vars

\* The ring's thread and the scheduler keep running.
FairSpec == Spec /\ WF_vars(WriterStep) /\ WF_vars(Flush)

----------------------------------------------------------------------------
(* Properties of every run, crashes included.                              *)

\* A handler that lets a command, an order or a fill through twice would meet its
\* own earlier row in the database (the three duplicate counters of AsyncDbWriter,
\* which "should read zero forever").
NoDuplicateReachesDatabase == absorbed = {}

\* The traded quantity of an order's row never goes down, however the writes of one
\* order are split over batches, salvaged, or repeated by a replay.
OrderRowNeverGoesBack == [][\A o \in Orders : orders'[o] >= orders[o]]_vars

\* The command the writer thread is handling is the newest record of the log and is
\* beyond the safe point until all its rows are queued, whatever the flush reclaims.
InFlightIsLogged ==
    serving /\ writer.on \in Sending =>
        /\ safe < Len(wal)
        /\ wal[Len(wal)] = writer.on

\* What the last order row queued or written for an order says, and whether the
\* writer thread has one more to queue.
Written(o) ==
    IF About(queue["order"], o) # {} THEN Newest(queue["order"], o)
    ELSE IF About(batch["order"], o) # {} THEN Newest(batch["order"], o)
    ELSE orders[o]
StillToQueue(o) == \E i \in 1..Len(writer.rows) :
    writer.rows[i][1] = "order" /\ writer.rows[i][2].id = o

\* A live order is in memory what its last row says, written or still on its way:
\* however its rows are split over batches, memory and the rows do not diverge, and
\* a restart loads what the rows said.
MemoryMatchesRows ==
    dropped \cap {"order"} \X Orders = {} =>
        \A o \in Orders : live[o] # NotLive /\ ~StillToQueue(o) => Written(o) = live[o]

\* However often and however it is sent, a command creates one order: the retry of a
\* client names a new order id, and its command id alone tells it from a new order
\* (OrderCommandController: "so that a retry cannot create a duplicate order").
OneOrderPerCommand ==
    \A k \in Commands :
        Cardinality({o \in {OrderNamed[k][i] : i \in 1..Attempts} :
                        live[o] # NotLive \/ orders[o] # Absent}) <= 1

\* When replay ends, the result of each record of the log is queued, or it is in the
\* database or its order is (OrderCommandReplayHarness: "Replayed records are now
\* handled and queued for AsyncDbWriter"), so the safe point may pass it.  It takes
\* an index that was loaded: without one every record is answered 503 and passed all
\* the same.
ReplayHandlesEveryRecord ==
    [][~serving /\ serving' /\ ready => \A i \in 1..Len(wal) :
          \/ About(queue["processed"], wal[i].command) # {}
          \/ processed[wal[i].command] # <<>>
          \/ orders[wal[i].order] # Absent]_vars

----------------------------------------------------------------------------
(* Properties of a process that has not crashed, over a database that stays*)
(* for the last three.                                                     *)

\* However often a command is sent, and whatever the cache of results has evicted in
\* between, its clients are never told two different results: besides the one result
\* they get refusals, 507 of a full log and 503 of a result that is no longer known.
OriginalAnswer ==
    crashes = 0 => \A k \in Commands : Cardinality(answers[k] \ {Full, Retry}) <= 1

\* No crash, and no outage of the database, then or later.
Steady == crashes = 0 /\ faults = 0

\* What a client was told is created is written: its order, its result and the event
\* that tells the venue.
EverythingIsWritten ==
    []Steady => \A k \in Commands, o \in Orders : <<"created", o>> \in answers[k] ~>
        orders[o] # Absent /\ processed[k] = <<"created", o>> /\ outputs[o] = 1

\* The log is emptied again, so it cannot fill for good.
LogIsReclaimed == []Steady => (wal # <<>> ~> wal = <<>>)

\* A fill the writer thread has applied reaches the order's row.
FillsAreWritten ==
    []Steady => \A f \in Fills : f \in seen ~> orders[OrderOf[f]] > 0 /\ f \in executions

----------------------------------------------------------------------------
(* What the comments and the documents say, and the code does not keep.    *)

\* salvage: rejected_rows "must stay at zero".
NoRowIsRefused == dropped = {}

\* OrderCommandReplayHarness: the replay is safe "against records that did reach the
\* database", so a command whose result is known to have created an order has it.
RecoveredFromLog ==
    serving /\ dropped = {} => \A i \in 1..safe, o \in Orders :
        processed[wal[i].command] = <<"created", o>> =>
            orders[o] # Absent \/ live[o] # NotLive
=============================================================================

---------------------------- MODULE HotPathProofs ----------------------------
(***************************************************************************)
(* What holds of the write-ahead log, the write-behind rows, the answers   *)
(* and the replay for any commands, orders and fills, any size of the log  *)
(* and of a batch, and any number of crashes and outages.                  *)
(*                                                                         *)
(*   - the record of the command under way stays beyond the safe point;    *)
(*   - the types;                                                          *)
(*   - the line of rows on its way to a table, which the flush only        *)
(*     shortens at the front and the writer thread only extends at the     *)
(*     end: no key twice, the orders' quantities rising, memory at the end;*)
(*   - one result to a command until a crash, refusals apart;              *)
(*   - a replay that leaves no record unhandled.                           *)
(***************************************************************************)
EXTENDS HotPathDurability, InductionFacts, SequenceTheorems, TLAPS

\* The part of the type invariant that the log and the writer thread need.
LogTypeOK ==
    /\ wal \in Seq(Sending)
    /\ safe \in 0..Len(wal)
    /\ attempts \in [Commands -> 0..Attempts]

\* The writer's state is a record of its four fields, and an idle writer thread
\* handles nothing.
WriterShape ==
    /\ writer = [pc |-> writer.pc, on |-> writer.on, rows |-> writer.rows, reply |-> writer.reply]
    /\ writer.pc = "idle" => writer.on = None

\* The inductive invariant behind InFlightIsLogged.
LogInv == LogTypeOK /\ WriterShape /\ InFlightIsLogged

\* Initially nothing is logged and nothing is handled.
LEMMA LogInvInit == Init => LogInv
  BY KindsAssumption, HotPathAssumption
     DEF Init, LogInit, Idle, LogInv, LogTypeOK, WriterShape, InFlightIsLogged

\* Compaction keeps what is beyond the safe point, so a last record there stays last.
LEMMA CompactKeepsLast ==
  ASSUME LogTypeOK, CompactToSafePoint
  PROVE  /\ wal' \in Seq(Sending)
         /\ safe' \in 0..Len(wal')
         /\ safe < Len(wal) => safe' < Len(wal') /\ wal'[Len(wal')] = wal[Len(wal)]
  <1> DEFINE n == Len(wal)
  <1>1. n \in Nat /\ safe \in 0..n
    BY DEF LogTypeOK
  <1>2. safe' = 0 /\ wal' = SubSeq(wal, safe + 1, n)
    BY DEF CompactToSafePoint
  <1>3. CASE safe = n
    BY <1>1, <1>2, <1>3 DEF LogTypeOK
  <1>4. CASE safe < n
    <2>1. wal' \in Seq(Sending) /\ Len(wal') = n - safe
      BY <1>1, <1>2, <1>4 DEF LogTypeOK
    <2>2. n - safe \in 1..(n - safe) /\ safe + (n - safe) = n
      BY <1>1, <1>4
    <2>3. wal'[n - safe] = wal[n]
      BY <1>1, <1>2, <1>4, <2>2 DEF LogTypeOK
    <2>4. wal'[Len(wal')] = wal[n]
      BY <2>1, <2>3
    <2>5. Len(wal') \in Nat /\ 0 < Len(wal')
      BY <1>1, <1>4, <2>1
    <2>6. safe' = 0
      BY <1>2
    <2> QED
      BY <2>1, <2>4, <2>5, <2>6
  <1> QED
    BY <1>1, <1>3, <1>4

\* The last record stays last while the safe point moves only if nothing is handled:
\* every step keeps the inductive invariant.
LEMMA LogInvStep == LogInv /\ [Next]_vars => LogInv'
  <1> SUFFICES ASSUME LogInv, [Next]_vars PROVE LogInv'
    OBVIOUS
  <1> USE DEF LogInv
  <1>1. ASSUME NEW k \in Commands, Accept(k) PROVE LogInv'
    <2> DEFINE s == [command |-> k, order |-> OrderNamed[k][attempts'[k]]]
    <2>1. attempts' \in [Commands -> 0..Attempts] /\ attempts'[k] \in 1..Attempts
      BY <1>1, HotPathAssumption DEF Accept, Sent, LogTypeOK
    <2>2. s \in Sending
      BY <2>1, HotPathAssumption DEF Sending
    <2>3. wal' = Append(wal, s) /\ safe' = safe
      BY <1>1 DEF Accept, AppendRecord
    <2>4. wal' \in Seq(Sending) /\ Len(wal') = Len(wal) + 1 /\ wal'[Len(wal')] = s
      BY <2>2, <2>3 DEF LogTypeOK
    <2>5. writer' = [pc |-> "decide", on |-> s, rows |-> <<>>, reply |-> <<>>]
      BY <1>1 DEF Accept, Handle, Idle
    <2> QED
      BY <2>1, <2>3, <2>4, <2>5 DEF LogTypeOK, WriterShape, InFlightIsLogged
  <1>2. ASSUME NEW k \in Commands, RefuseUnlogged(k) PROVE LogInv'
    BY <1>2, HotPathAssumption
       DEF RefuseUnlogged, Sent, logVars, LogTypeOK, WriterShape, InFlightIsLogged
  <1>3. ASSUME NEW f \in Fills, Fill(f) PROVE LogInv'
    <2>1. writer' = [pc |-> "rows", on |-> f, rows |-> writer'.rows, reply |-> <<>>]
      BY <1>3 DEF Fill, Idle
    <2>2. f \notin Sending
      BY KindsAssumption
    <2> QED
      BY <1>3, <2>1, <2>2 DEF Fill, logVars, clients, LogTypeOK, WriterShape, InFlightIsLogged
  <1>4. ASSUME NEW s \in Sending, Decide(s) PROVE LogInv'
    <2>1. writer' = [pc |-> "rows", on |-> writer.on, rows |-> writer'.rows, reply |-> writer'.reply]
      BY <1>4 DEF Decide, DecideRepeat, DecideConflict, DecideCreate, Decided, WriterShape
    <2>2. UNCHANGED <<logVars, serving, attempts>>
      BY <1>4 DEF Decide, DecideRepeat, DecideConflict, DecideCreate, clients
    <2> QED
      BY <2>1, <2>2 DEF logVars, LogTypeOK, WriterShape, InFlightIsLogged
  <1>5. ASSUME NEW s \in Sending, Answer(s) PROVE LogInv'
    BY <1>5, KindsAssumption
       DEF Answer, Finished, Idle, MarkSafePoint, LogTypeOK, WriterShape, InFlightIsLogged
  <1>6. ASSUME EnqueueRow PROVE LogInv'
    BY <1>6 DEF EnqueueRow, logVars, clients, LogTypeOK, WriterShape, InFlightIsLogged
  <1>7. ASSUME FinishUnanswered PROVE LogInv'
    BY <1>7, KindsAssumption
       DEF FinishUnanswered, Finished, Idle, logVars, clients, LogTypeOK, WriterShape, InFlightIsLogged
  <1>8. ASSUME ReplayNext PROVE LogInv'
    BY <1>8 DEF ReplayNext, Handle, Idle, logVars, clients, LogTypeOK, WriterShape, InFlightIsLogged
  <1>9. ASSUME StartServing PROVE LogInv'
    <2>1. wal' = wal /\ safe' \in 0..Len(wal')
      BY <1>9 DEF StartServing, MarkSafePoint, logVars, LogTypeOK
    <2> QED
      BY <1>9, <2>1, KindsAssumption DEF StartServing, clients, LogTypeOK, WriterShape, InFlightIsLogged
  <1>10. ASSUME Flush PROVE LogInv'
    <2>1. CASE Reclaim
      BY <1>10, <2>1, CompactKeepsLast
         DEF Flush, Reclaim, clients, LogTypeOK, WriterShape, InFlightIsLogged
    <2>2. CASE UNCHANGED logVars
      BY <1>10, <2>2 DEF Flush, logVars, clients, LogTypeOK, WriterShape, InFlightIsLogged
    <2> QED
      BY <1>10, <2>1, <2>2 DEF Flush, FlushStep
  <1>11. ASSUME Crash PROVE LogInv'
    BY <1>11 DEF Crash, LogCrash, Idle, clients, LogTypeOK, WriterShape, InFlightIsLogged
  <1>12. ASSUME UNCHANGED vars PROVE LogInv'
    BY <1>12 DEF vars, logVars, clients, LogTypeOK, WriterShape, InFlightIsLogged
  <1>13. ASSUME NEW k \in Commands, Evict(k) PROVE LogInv'
    BY <1>13 DEF Evict, logVars, clients, LogTypeOK, WriterShape, InFlightIsLogged
  <1> QED
    BY <1>1, <1>2, <1>3, <1>4, <1>5, <1>6, <1>7, <1>8, <1>9, <1>10, <1>11, <1>12, <1>13
       DEF Next, WriterStep

\* The command under way is the newest record of the log and beyond the safe point,
\* whatever the flush thread reclaims meanwhile (logAhead, markSafePoint and
\* compactToSafePoint): a crash before its rows are queued finds it in the log.
THEOREM CommandUnderWayIsLogged == Spec => []InFlightIsLogged
  <1>1. LogInv => InFlightIsLogged
    BY DEF LogInv
  <1> QED
    BY <1>1, LogInvInit, LogInvStep, PTL DEF Spec

----------------------------------------------------------------------------
(* The tables and their rows.                                              *)

LEMMA FiveTables ==
  /\ Names = {"order", "event", "processed", "execution", "output"}
  /\ Len(Tables) = 5
  /\ \A i \in 1..Len(Tables) : Tables[i] \in Names
  /\ \A i, j \in 1..Len(Tables) : Tables[i] = Tables[j] => i = j
  /\ \A t \in Names : \E i \in 1..Len(Tables) : t = Tables[i]
  <1>1. Len(Tables) = 5
    BY DEF Tables
  <1>2. /\ Tables[1] = "order" /\ Tables[2] = "event" /\ Tables[3] = "processed"
        /\ Tables[4] = "execution" /\ Tables[5] = "output"
    BY DEF Tables
  <1>3. 1..5 = {1, 2, 3, 4, 5}
    OBVIOUS
  <1> QED
    BY <1>1, <1>2, <1>3 DEF Names

LEMMA RowsOfEach ==
  /\ Rows["order"] = [id : Orders, says : 0..Size]
  /\ Rows["event"] = [id : Orders, says : {"CREATED", "FILL"}]
  /\ Rows["processed"] = [id : Commands, says : Results]
  /\ Rows["execution"] = {Row(OrderOf[f], f) : f \in Fills}
  /\ Rows["output"] = [id : Orders, says : {"CREATED"}]
  BY FiveTables DEF Rows

\* A row is about a command or an order.
LEMMA RowIds == \A t \in Names : \A r \in Rows[t] : r.id \in Commands \cup Orders
  <1> SUFFICES ASSUME NEW t \in Names, NEW r \in Rows[t] PROVE r.id \in Commands \cup Orders
    OBVIOUS
  <1>1. t \in {"order", "event", "processed", "execution", "output"}
    BY FiveTables
  <1>2. CASE t = "execution"
    BY <1>2, RowsOfEach, WriterAssumption DEF Row
  <1>3. CASE t = "order"
    BY <1>3, RowsOfEach
  <1>4. CASE t = "event"
    BY <1>4, RowsOfEach
  <1>5. CASE t = "processed"
    BY <1>5, RowsOfEach
  <1>6. CASE t = "output"
    BY <1>6, RowsOfEach
  <1> QED
    BY <1>1, <1>2, <1>3, <1>4, <1>5, <1>6

\* The newest and the oldest row about something are rows about it.
LEMMA GreatestPlace ==
  ASSUME NEW n \in Nat, NEW P \in SUBSET (1..n), P # {}
  PROVE  /\ Max(P) \in P /\ \A i \in P : i <= Max(P)
         /\ Min(P) \in P /\ \A i \in P : Min(P) <= i
  <1>1. \E x \in P : \A y \in P : x <= y
    BY LeastNumber
  <1>2. PICK d \in {n - i : i \in P} : \A e \in {n - i : i \in P} : d <= e
    <2>1. {n - i : i \in P} \in SUBSET Nat /\ {n - i : i \in P} # {}
      <3>1. \A i \in P : n - i \in Nat
        OBVIOUS
      <3> QED
        BY <3>1
    <2> QED
      BY <2>1, LeastNumber
  <1>3. PICK x \in P : d = n - x
    BY <1>2
  <1>4. \A y \in P : x >= y
    <2> SUFFICES ASSUME NEW y \in P PROVE x >= y
      OBVIOUS
    <2>1. n - x <= n - y
      BY <1>2, <1>3
    <2> QED
      BY <2>1
  <1>5. \A y \in P : Max(P) >= y /\ Max(P) \in P
    BY <1>4 DEF Max
  <1>6. \A y \in P : Min(P) =< y /\ Min(P) \in P
    BY <1>1 DEF Min
  <1> QED
    BY <1>5, <1>6

\* How many places there are is a number.
LEMMA CountOfPlaces ==
  ASSUME NEW n \in Nat, NEW P \in SUBSET (1..n)
  PROVE  IsFiniteSet(P) /\ Cardinality(P) \in Nat
  <1>1. IsFiniteSet(1..n)
    BY FS_Interval
  <1>2. IsFiniteSet(P)
    BY <1>1, FS_Subset
  <1> QED
    BY <1>2, FS_CardinalityType

\* A sequence cut in two.
LEMMA CutSeq ==
  ASSUME NEW S, NEW s \in Seq(S), NEW n \in 0..Len(s)
  PROVE  /\ SubSeq(s, 1, n) \in Seq(S) /\ Len(SubSeq(s, 1, n)) = n
         /\ \A i \in 1..n : SubSeq(s, 1, n)[i] = s[i]
         /\ SubSeq(s, n + 1, Len(s)) \in Seq(S) /\ Len(SubSeq(s, n + 1, Len(s))) = Len(s) - n
         /\ \A i \in 1..(Len(s) - n) : SubSeq(s, n + 1, Len(s))[i] = s[n + i]
  <1>1. Len(s) \in Nat /\ n \in Nat /\ n <= Len(s) /\ \A i \in 1..Len(s) : s[i] \in S
    BY LenProperties
  <1>2. /\ SubSeq(s, 1, n) \in Seq(S)
        /\ Len(SubSeq(s, 1, n)) = IF 1 <= n THEN n - 1 + 1 ELSE 0
        /\ \A i \in 1..(n - 1 + 1) : SubSeq(s, 1, n)[i] = s[1 + i - 1]
    <2>1. \A i \in 1..n : s[i] \in S
      BY <1>1
    <2> QED
      BY <1>1, <2>1, SubSeqProperties
  <1>3. /\ SubSeq(s, n + 1, Len(s)) \in Seq(S)
        /\ Len(SubSeq(s, n + 1, Len(s))) = IF n + 1 <= Len(s) THEN Len(s) - (n + 1) + 1 ELSE 0
        /\ \A i \in 1..(Len(s) - (n + 1) + 1) : SubSeq(s, n + 1, Len(s))[i] = s[(n + 1) + i - 1]
    <2>1. n + 1 \in Int /\ Len(s) \in Int /\ \A i \in (n + 1)..Len(s) : s[i] \in S
      BY <1>1
    <2> QED
      BY <2>1, SubSeqProperties
  <1> QED
    BY <1>1, <1>2, <1>3

LEMMA OneElement ==
  ASSUME NEW S, NEW x \in S
  PROVE  <<x>> \in Seq(S) /\ Len(<<x>>) = 1 /\ <<x>>[1] = x
  OBVIOUS

----------------------------------------------------------------------------
(* Type correctness.                                                       *)

\* The inductive invariant behind TypeOK: an order that has traded its size is not
\* live, so a fill does not take it further; rows are left only while they are being
\* queued; and a command whose rows are queued has a reply.
TypeInv ==
    /\ TypeOK
    /\ \A o \in Orders : live[o] # Size
    /\ writer.pc = "idle" <=> writer.on = None
    /\ writer.pc = "decide" => writer.on \in Sending
    /\ writer.pc = "rows" /\ writer.on \in Sending => writer.reply # <<>>
    /\ writer.pc # "rows" => writer.rows = <<>>

LEMMA TypeInvInit == Init => TypeInv
  <1> SUFFICES ASSUME Init PROVE TypeInv
    OBVIOUS
  <1> USE DEF Init, LogInit, WriterInit
  <1>1. WriterTypeOK
    <2>1. \A t \in Names : Empty[t] = <<>>
      BY DEF Empty
    <2>2. DOMAIN queue = Names /\ DOMAIN batch = Names
      BY DEF Empty
    <2>3. Start \in [pc : {"drain", "persist", "salvage", "check", "compact"}, at : 1..Len(Tables)]
      BY FiveTables DEF Start
    <2>4. \A t \in Names : /\ queue[t] \in Seq(Rows[t]) /\ batch[t] \in Seq(Rows[t])
                          /\ Len(batch[t]) <= BatchSize
      <3>1. \A t \in Names : <<>> \in Seq(Rows[t])
        BY EmptySeq
      <3>2. \A t \in Names : queue[t] = <<>> /\ batch[t] = <<>>
        BY <2>1
      <3>3. Len(<<>>) = 0 /\ 0 <= BatchSize
        BY WriterAssumption
      <3> QED
        BY <3>1, <3>2, <3>3
    <2> QED
      BY <2>2, <2>3, <2>4, WriterAssumption DEF WriterTypeOK, Absent
  <1>2. writer \in [pc : {"idle", "decide", "rows"}, on : Sending \cup Fills \cup {None},
                   rows : Seq(ToQueue), reply : Results \cup {Retry, <<>>}]
    BY DEF Idle
  <1>3. live \in [Orders -> NotLive..Size] /\ \A o \in Orders : live[o] # Size
    BY WriterAssumption DEF NotLive
  <1> QED
    BY <1>1, <1>2, <1>3, LogAssumption, HotPathAssumption, KindsAssumption
       DEF TypeOK, TypeInv, Idle

\* Where the rows about something are in a batch.
LEMMA PlacesOfRows ==
  ASSUME NEW S, NEW rows \in Seq(S), NEW id
  PROVE  /\ About(rows, id) \in SUBSET (1..Len(rows))
         /\ Cardinality(About(rows, id)) \in Nat
         /\ About(rows, id) # {} =>
              /\ Max(About(rows, id)) \in 1..Len(rows)
              /\ rows[Max(About(rows, id))] \in S /\ rows[Max(About(rows, id))].id = id
              /\ Min(About(rows, id)) \in 1..Len(rows)
              /\ rows[Min(About(rows, id))] \in S /\ rows[Min(About(rows, id))].id = id
              /\ \A i \in About(rows, id) : i <= Max(About(rows, id))
  <1>1. Len(rows) \in Nat /\ About(rows, id) \in SUBSET (1..Len(rows))
    BY DEF About
  <1>2. Cardinality(About(rows, id)) \in Nat
    BY <1>1, CountOfPlaces
  <1>3. ASSUME About(rows, id) # {}
        PROVE  /\ Max(About(rows, id)) \in About(rows, id)
               /\ Min(About(rows, id)) \in About(rows, id)
               /\ \A i \in About(rows, id) : i <= Max(About(rows, id))
    BY <1>1, <1>3, GreatestPlace
  <1>4. \A i \in About(rows, id) : i \in 1..Len(rows) /\ rows[i] \in S /\ rows[i].id = id
    BY <1>1 DEF About
  <1> QED
    BY <1>1, <1>2, <1>3, <1>4

\* A batch to write has rows of each table.
Batch(b) == \A t \in Names : b[t] \in Seq(Rows[t])

\* What the statements of a batch leave in the tables is well typed.
LEMMA CommitTyped ==
  ASSUME WriterTypeOK, NEW b, Batch(b), Commit(b)
  PROVE  /\ orders' \in [Orders -> {Absent} \cup 0..Size]
         /\ processed' \in [Commands -> Results \cup {<<>>}]
         /\ outputs' \in [Orders -> Nat]
         /\ executions' \subseteq Fills
         /\ firstWrites' \subseteq Orders
         /\ absorbed' \subseteq Names \X (Commands \cup Orders)
  <1>1. /\ b["order"] \in Seq(Rows["order"]) /\ b["processed"] \in Seq(Rows["processed"])
        /\ b["execution"] \in Seq(Rows["execution"]) /\ b["output"] \in Seq(Rows["output"])
    BY FiveTables DEF Batch
  <1>2. \A o \in Orders : OrderWritten(b["order"], o) \in {Absent} \cup 0..Size
    <2> SUFFICES ASSUME NEW o \in Orders PROVE OrderWritten(b["order"], o) \in {Absent} \cup 0..Size
      OBVIOUS
    <2>1. About(b["order"], o) # {} => Newest(b["order"], o) \in 0..Size
      <3>1. About(b["order"], o) # {} => b["order"][Max(About(b["order"], o))] \in Rows["order"]
        BY <1>1, PlacesOfRows
      <3> QED
        BY <3>1, RowsOfEach DEF Newest
    <2> QED
      BY <2>1 DEF OrderWritten, WriterTypeOK
  <1>3. orders' \in [Orders -> {Absent} \cup 0..Size]
    BY <1>2 DEF Commit
  <1>4. \A k \in Commands : About(b["processed"], k) # {} =>
            b["processed"][Min(About(b["processed"], k))].says \in Results
    <2>1. \A k \in Commands : About(b["processed"], k) # {} =>
            b["processed"][Min(About(b["processed"], k))] \in Rows["processed"]
      BY <1>1, PlacesOfRows
    <2> QED
      BY <2>1, RowsOfEach
  <1>5. processed' \in [Commands -> Results \cup {<<>>}]
    BY <1>4 DEF Commit, WriterTypeOK
  <1>6. outputs' \in [Orders -> Nat]
    <2>1. \A o \in Orders : Cardinality(About(b["output"], o)) \in Nat
      BY <1>1, PlacesOfRows
    <2> QED
      BY <2>1 DEF Commit, WriterTypeOK
  <1>7. executions' \subseteq Fills
    <2>1. \A row \in RowsIn(b["execution"]) : row \in Rows["execution"]
      BY <1>1 DEF RowsIn
    <2>2. \A row \in RowsIn(b["execution"]) : row.says \in Fills
      BY <2>1, RowsOfEach DEF Row
    <2> QED
      BY <2>2 DEF Commit, WriterTypeOK
  <1>8. firstWrites' \subseteq Orders
    BY DEF Commit, Claimed, WriterTypeOK
  <1>9. absorbed' \subseteq Names \X (Commands \cup Orders)
    <2>1. Claimed(b["order"]) \subseteq Orders
      BY DEF Claimed, WriterTypeOK
    <2>2. {"order", "processed", "execution"} \subseteq Names
      BY FiveTables
    <2>3. /\ {<<"order", o>> : o \in {x \in Claimed(b["order"]) : orders[x] # Absent}}
               \subseteq Names \X (Commands \cup Orders)
          /\ {<<"processed", k>> : k \in {c \in Commands :
                  Repeats(About(b["processed"], c), processed[c] # <<>>)}}
               \subseteq Names \X (Commands \cup Orders)
          /\ {<<"execution", OrderOf[f]>> : f \in {g \in Fills :
                  Repeats({i \in 1..Len(b["execution"]) : b["execution"][i].says = g}, g \in executions)}}
               \subseteq Names \X (Commands \cup Orders)
      <3>1. \A o \in Claimed(b["order"]) : <<"order", o>> \in Names \X (Commands \cup Orders)
        BY <2>1, <2>2
      <3>2. \A k \in Commands : <<"processed", k>> \in Names \X (Commands \cup Orders)
        BY <2>2
      <3>3. \A f \in Fills : <<"execution", OrderOf[f]>> \in Names \X (Commands \cup Orders)
        BY <2>2, WriterAssumption
      <3> QED
        BY <3>1, <3>2, <3>3
    <2> QED
      BY <2>3 DEF Commit, WriterTypeOK
  <1> QED
    BY <1>3, <1>5, <1>6, <1>7, <1>8, <1>9

\* What salvage leaves of a batch, and the one row it writes.
LEMMA SalvagedRow ==
  ASSUME WriterTypeOK, flusher.pc = "salvage", batch[Tables[flusher.at]] # <<>>
  PROVE  LET t == Tables[flusher.at]  one == [Empty EXCEPT ![t] = <<Head(batch[t])>>] IN
         /\ t \in Names /\ Batch(one)
         /\ \A u \in Names : one[u] = IF u = t THEN <<Head(batch[t])>> ELSE <<>>
         /\ Head(batch[t]).id \in Commands \cup Orders
         /\ DOMAIN Remaining(batch, t) = Names
         /\ \A u \in Names : Remaining(batch, t)[u] = IF u = t THEN Tail(batch[t]) ELSE batch[u]
         /\ \A u \in Names : /\ Remaining(batch, t)[u] \in Seq(Rows[u])
                             /\ Len(Remaining(batch, t)[u]) <= BatchSize
  <1> DEFINE t == Tables[flusher.at]
             one == [Empty EXCEPT ![t] = <<Head(batch[t])>>]
  <1>1. t \in Names
    BY FiveTables DEF WriterTypeOK
  <1>2. batch[t] \in Seq(Rows[t]) /\ batch[t] # <<>> /\ Len(batch[t]) <= BatchSize /\ DOMAIN batch = Names
    BY <1>1 DEF WriterTypeOK
  <1>3. /\ Head(batch[t]) \in Rows[t] /\ Tail(batch[t]) \in Seq(Rows[t])
        /\ Len(Tail(batch[t])) = Len(batch[t]) - 1 /\ Len(batch[t]) \in Nat
    <2> HIDE DEF t
    <2> QED
      BY <1>2, HeadTailProperties, LenProperties
  <1>4. \A u \in Names : one[u] = IF u = t THEN <<Head(batch[t])>> ELSE <<>>
    BY <1>1 DEF Empty
  <1>5. Batch(one)
    <2>1. \A u \in Names : <<>> \in Seq(Rows[u])
      BY EmptySeq
    <2>2. <<Head(batch[t])>> \in Seq(Rows[t])
      BY <1>3, OneElement
    <2> HIDE DEF t, one
    <2> QED
      BY <1>4, <2>1, <2>2 DEF Batch
  <1>6. DOMAIN Remaining(batch, t) = Names
    BY <1>2 DEF Remaining
  <1>7. \A u \in Names : Remaining(batch, t)[u] = IF u = t THEN Tail(batch[t]) ELSE batch[u]
    BY <1>2 DEF Remaining
  <1>8. \A u \in Names : /\ Remaining(batch, t)[u] \in Seq(Rows[u])
                         /\ Len(Remaining(batch, t)[u]) <= BatchSize
    <2>1. \A u \in Names : batch[u] \in Seq(Rows[u]) /\ Len(batch[u]) <= BatchSize
      BY DEF WriterTypeOK
    <2>2. Len(Tail(batch[t])) <= BatchSize
      BY <1>2, <1>3, WriterAssumption
    <2> HIDE DEF t
    <2> QED
      BY <1>3, <1>7, <2>1, <2>2
  <1> QED
    BY <1>1, <1>3, <1>4, <1>5, <1>6, <1>7, <1>8, RowIds

\* Where the flush goes next is one of its places.
LEMMA NextPlace ==
  ASSUME WriterTypeOK
  PROVE  /\ \A pc \in {"drain", "persist", "salvage", "check", "compact"} :
               GoTo(pc, 1) => (flusher \in [pc : {"drain", "persist", "salvage", "check", "compact"}, at : 1..Len(Tables)])'
         /\ \A pc \in {"drain", "persist", "salvage", "check", "compact"} :
               flusher.at < Len(Tables) /\ GoTo(pc, flusher.at + 1)
               => (flusher \in [pc : {"drain", "persist", "salvage", "check", "compact"}, at : 1..Len(Tables)])'
  BY FiveTables DEF GoTo, WriterTypeOK

\* A step of the flush keeps the types of the queues and the tables.
LEMMA FlushTyped ==
  ASSUME WriterTypeOK, FlushStep
  PROVE  WriterTypeOK'
  <1>1. CASE DrainTable
    <2> DEFINE t == Tables[flusher.at]
    <2>1. t \in Names
      BY FiveTables DEF WriterTypeOK
    <2>2. queue[t] \in Seq(Rows[t]) /\ Len(queue[t]) \in Nat /\ DOMAIN queue = Names
      BY <2>1 DEF WriterTypeOK
    <2>3. Taken(t) \in 0..Len(queue[t]) /\ Taken(t) <= BatchSize
      BY <2>2, WriterAssumption DEF Taken
    <2>4. /\ SubSeq(queue[t], 1, Taken(t)) \in Seq(Rows[t])
          /\ Len(SubSeq(queue[t], 1, Taken(t))) = Taken(t)
          /\ SubSeq(queue[t], Taken(t) + 1, Len(queue[t])) \in Seq(Rows[t])
      BY <2>2, <2>3, CutSeq
    <2>5. /\ DOMAIN batch' = Names
          /\ \A u \in Names : batch'[u] = IF u = t THEN SubSeq(queue[t], 1, Taken(t)) ELSE batch[u]
      BY <1>1 DEF DrainTable, WriterTypeOK
    <2>6. /\ DOMAIN queue' = Names
          /\ \A u \in Names : queue'[u] = IF u = t THEN SubSeq(queue[t], Taken(t) + 1, Len(queue[t])) ELSE queue[u]
      BY <1>1, <2>2 DEF DrainTable
    <2>7. (flusher \in [pc : {"drain", "persist", "salvage", "check", "compact"}, at : 1..Len(Tables)])'
      BY <1>1, NextPlace DEF DrainTable
    <2>8. UNCHANGED <<firstWrites, orders, processed, outputs, executions, faults, dropped, absorbed>>
      BY <1>1 DEF DrainTable, database, oracles
    <2>9. \A u \in Names : batch'[u] \in Seq(Rows[u]) /\ Len(batch'[u]) <= BatchSize
      BY <2>3, <2>4, <2>5 DEF WriterTypeOK
    <2>10. \A u \in Names : queue'[u] \in Seq(Rows[u])
      BY <2>4, <2>6 DEF WriterTypeOK
    <2> QED
      BY <2>5, <2>6, <2>7, <2>8, <2>9, <2>10 DEF WriterTypeOK
  <1>2. CASE PersistBatch
    <2>1. Batch(batch)
      BY DEF Batch, WriterTypeOK
    <2>2. CASE Commit(batch) /\ batch' = Empty /\ GoTo("check", 1) /\ UNCHANGED <<queue, faults, dropped>>
      <3>1. DOMAIN Empty = Names /\ \A t \in Names : Empty[t] \in Seq(Rows[t]) /\ Len(Empty[t]) <= BatchSize
        BY WriterAssumption DEF Empty
      <3> QED
        BY <2>1, <2>2, <3>1, CommitTyped, NextPlace DEF WriterTypeOK
    <2>3. CASE /\ firstWrites' \in {firstWrites, firstWrites \ Claimed(batch["order"])}
               /\ faults' \in 0..MaxFaults
               /\ GoTo("salvage", 1)
               /\ UNCHANGED <<queue, batch, orders, processed, outputs, executions, dropped, absorbed>>
      BY <2>3, NextPlace DEF WriterTypeOK
    <2>4. faults < MaxFaults => faults + 1 \in 0..MaxFaults
      BY WriterAssumption DEF WriterTypeOK
    <2>5. faults \in 0..MaxFaults
      BY DEF WriterTypeOK
    <2> QED
      BY <1>2, <2>2, <2>3, <2>4, <2>5 DEF PersistBatch, database, oracles
  <1>3. CASE SalvageRow
    <2> DEFINE t == Tables[flusher.at]
               one == [Empty EXCEPT ![t] = <<Head(batch[t])>>]
    <2>1. /\ t \in Names /\ Batch(one)
          /\ Head(batch[t]).id \in Commands \cup Orders
          /\ DOMAIN batch' = Names
          /\ \A u \in Names : batch'[u] \in Seq(Rows[u]) /\ Len(batch'[u]) <= BatchSize
      BY <1>3, SalvagedRow DEF SalvageRow
    <2>2. UNCHANGED <<queue, flusher>>
      BY <1>3 DEF SalvageRow
    <2>3. CASE Commit(one) /\ UNCHANGED <<faults, dropped>>
      BY <2>1, <2>2, <2>3, CommitTyped DEF WriterTypeOK
    <2>4. CASE /\ faults' \in 0..MaxFaults
               /\ dropped' = dropped \cup {<<t, Head(batch[t]).id>>}
               /\ firstWrites' \in {firstWrites, firstWrites \ Claimed(one["order"])}
               /\ UNCHANGED <<orders, processed, outputs, executions, absorbed>>
      BY <2>1, <2>2, <2>4 DEF WriterTypeOK
    <2>5. faults < MaxFaults => faults + 1 \in 0..MaxFaults
      BY WriterAssumption DEF WriterTypeOK
    <2>6. faults \in 0..MaxFaults
      BY DEF WriterTypeOK
    <2> QED
      BY <1>3, <2>3, <2>4, <2>5, <2>6 DEF SalvageRow, database
  <1>4. CASE SalvageNextTable
    BY <1>4, NextPlace DEF SalvageNextTable, database, oracles, WriterTypeOK
  <1>5. CASE CheckQueue
    BY <1>5, NextPlace DEF CheckQueue, database, oracles, WriterTypeOK
  <1>6. CASE Reclaim
    BY <1>6, NextPlace DEF Reclaim, database, oracles, WriterTypeOK
  <1> QED
    BY <1>1, <1>2, <1>3, <1>4, <1>5, <1>6 DEF FlushStep

\* The step of the writer thread that hands a row over keeps the types of the queues.
LEMMA EnqueueTyped ==
  ASSUME WriterTypeOK, NEW t \in Names, NEW row \in Rows[t], NEW isNew \in BOOLEAN,
         isNew => t = "order",
         Enqueue(t, row, isNew),
         UNCHANGED <<flushVars, database, faults, oracles>>
  PROVE  WriterTypeOK'
  <1>1. Append(queue[t], row) \in Seq(Rows[t])
    BY DEF WriterTypeOK
  <1>2. /\ DOMAIN queue' = Names
        /\ \A u \in Names : queue'[u] = IF u = t THEN Append(queue[t], row) ELSE queue[u]
    BY DEF Enqueue, WriterTypeOK
  <1>3. \A u \in Names : queue'[u] \in Seq(Rows[u])
    BY <1>1, <1>2 DEF WriterTypeOK
  <1>4. firstWrites' \subseteq Orders
    <2>1. CASE isNew
      <3>1. row \in [id : Orders, says : 0..Size]
        BY <2>1, RowsOfEach
      <3> QED
        BY <2>1, <3>1 DEF Enqueue, WriterTypeOK
    <2>2. CASE ~isNew
      BY <2>2 DEF Enqueue, WriterTypeOK
    <2> QED
      BY <2>1, <2>2
  <1> QED
    BY <1>2, <1>3, <1>4 DEF WriterTypeOK, flushVars, database, oracles

\* The rows that a command or a fill queues are rows of their tables.
LEMMA RowsToQueue ==
  /\ \A o \in Orders, n \in 0..Size : <<"order", Row(o, n)>> \in ToQueue
  /\ \A o \in Orders, v \in {"CREATED", "FILL"} : <<"event", Row(o, v)>> \in ToQueue
  /\ \A k \in Commands, r \in Results : <<"processed", Row(k, r)>> \in ToQueue
  /\ \A f \in Fills : <<"execution", Row(OrderOf[f], f)>> \in ToQueue
  /\ \A o \in Orders : <<"output", Row(o, "CREATED")>> \in ToQueue
  <1>1. \A t \in Names : \A r \in Rows[t] : <<t, r>> \in ToQueue
    BY DEF ToQueue
  <1> QED
    BY <1>1, FiveTables, RowsOfEach DEF Row

LEMMA QueuedRow ==
  \A q \in ToQueue : q[1] \in Names /\ q[2] \in Rows[q[1]] /\ q = <<q[1], q[2]>>
  BY DEF ToQueue

\* Each step keeps the types.
LEMMA TypeInvStep == TypeInv /\ [Next]_vars => TypeInv'
  <1> SUFFICES ASSUME TypeInv, [Next]_vars PROVE TypeInv'
    OBVIOUS
  <1> USE DEF TypeInv
  <1>a. TypeOK
    OBVIOUS
  <1>1. ASSUME NEW k \in Commands, Accept(k) PROVE TypeInv'
    <2> DEFINE s == [command |-> k, order |-> OrderNamed[k][attempts'[k]]]
    <2>1. attempts' \in [Commands -> 0..Attempts] /\ attempts'[k] \in 1..Attempts
      BY <1>1, HotPathAssumption DEF Accept, Sent, TypeOK
    <2>2. s \in Sending
      BY <2>1, HotPathAssumption DEF Sending
    <2>3. wal' = Append(wal, s) /\ safe' = safe /\ Len(wal) # LogSize
      BY <1>1 DEF Accept, AppendRecord, LogFull
    <2>4. wal' \in Seq(Sending) /\ Len(wal') = Len(wal) + 1 /\ Len(wal') <= LogSize /\ safe' \in 0..Len(wal')
      BY <2>2, <2>3, LogAssumption DEF TypeOK
    <2>5. writer' = [pc |-> "decide", on |-> s, rows |-> <<>>, reply |-> <<>>]
      BY <1>1 DEF Accept, Handle, Idle
    <2>6. (writer \in [pc : {"idle", "decide", "rows"}, on : Sending \cup Fills \cup {None},
                   rows : Seq(ToQueue), reply : Results \cup {Retry, <<>>}])'
      BY <2>2, <2>5 DEF Retry
    <2>7. UNCHANGED <<writerVars, serving, replaying, memory, answers, crashes>>
      BY <1>1 DEF Accept
    <2>8. WriterTypeOK'
      BY <2>7 DEF TypeOK, WriterTypeOK, writerVars, flushVars, database, oracles
    <2> QED
      BY <2>1, <2>2, <2>4, <2>5, <2>6, <2>7, <2>8, KindsAssumption DEF TypeOK, memory
  <1>2. ASSUME NEW k \in Commands, RefuseUnlogged(k) PROVE TypeInv'
    <2>1. attempts' \in [Commands -> 0..Attempts]
      BY <1>2, HotPathAssumption DEF RefuseUnlogged, Sent, TypeOK
    <2>2. answers' \in [Commands -> SUBSET (Results \cup {Retry, Full})]
      BY <1>2 DEF RefuseUnlogged, TypeOK
    <2>3. UNCHANGED <<logVars, writerVars, writer, serving, replaying, memory, crashes>>
      BY <1>2 DEF RefuseUnlogged
    <2>4. WriterTypeOK'
      BY <2>3 DEF TypeOK, WriterTypeOK, writerVars, flushVars, database, oracles
    <2> QED
      BY <2>1, <2>2, <2>3, <2>4 DEF TypeOK, memory, logVars
  <1>3. ASSUME NEW f \in Fills, Fill(f) PROVE TypeInv'
    <2> DEFINE o == OrderOf[f]
               traded == live[o] + 1
    <2>1. o \in Orders /\ live[o] \in 0..Size /\ live[o] # Size
      BY <1>3, WriterAssumption DEF Fill, TypeOK, NotLive
    <2>2. traded \in 0..Size /\ traded \in Nat
      BY <2>1, WriterAssumption
    <2>3. live' = [live EXCEPT ![o] = IF traded = Size THEN NotLive ELSE traded]
          /\ writer' = [pc |-> "rows", on |-> f, rows |-> RowsOfFill(f, traded), reply |-> <<>>]
      BY <1>3 DEF Fill, Idle
    <2>4. live' \in [Orders -> NotLive..Size] /\ \A p \in Orders : live'[p] # Size
      BY <2>1, <2>2, <2>3, WriterAssumption DEF TypeOK, NotLive
    <2>5. RowsOfFill(f, traded) \in Seq(ToQueue)
      <3>1. /\ <<"execution", Row(o, f)>> \in ToQueue /\ <<"order", Row(o, traded)>> \in ToQueue
            /\ <<"event", Row(o, "FILL")>> \in ToQueue
        BY <2>1, <2>2, RowsToQueue
      <3> QED
        BY <3>1 DEF RowsOfFill
    <2>6. seen' \subseteq Commands \cup Orders \cup Fills
      BY <1>3 DEF Fill, TypeOK
    <2>7. UNCHANGED <<logVars, writerVars, serving, replaying, results, ready, clients, crashes>>
      BY <1>3 DEF Fill
    <2>8. WriterTypeOK'
      BY <2>7 DEF TypeOK, WriterTypeOK, writerVars, flushVars, database, oracles
    <2>9. (writer \in [pc : {"idle", "decide", "rows"}, on : Sending \cup Fills \cup {None},
                   rows : Seq(ToQueue), reply : Results \cup {Retry, <<>>}])'
      BY <2>3, <2>5
    <2>10. f # None /\ f \notin Sending
      BY KindsAssumption
    <2> QED
      BY <2>3, <2>4, <2>6, <2>7, <2>8, <2>9, <2>10 DEF TypeOK, logVars, clients
  <1>4. ASSUME NEW s \in Sending, Decide(s) PROVE TypeInv'
    <2>1. writer.pc = "decide" /\ writer.on = s /\ s.command \in Commands /\ s.order \in Orders /\ s # None
      BY <1>4, KindsAssumption DEF Decide, DecideRepeat, DecideConflict, DecideCreate, Deciding, Sending
    <2>2. UNCHANGED <<logVars, writerVars, serving, replaying, ready, clients, crashes>>
      BY <1>4 DEF Decide, DecideRepeat, DecideConflict, DecideCreate, memory
    <2>3. WriterTypeOK'
      BY <2>2 DEF TypeOK, WriterTypeOK, writerVars, flushVars, database, oracles
    <2>4. Results \cap {Retry, <<>>} = {} /\ Retry # <<>>
      BY DEF Results, Retry
    <2>5. CASE DecideRepeat(s)
      <3>1. writer'.pc = "rows" /\ writer'.on = s /\ writer'.rows = <<>>
            /\ writer'.reply \in Results \cup {Retry} 
            /\ writer' = [pc |-> writer'.pc, on |-> writer'.on, rows |-> writer'.rows, reply |-> writer'.reply]
        BY <2>1, <2>5 DEF DecideRepeat, TypeOK
      <3>2. UNCHANGED memory
        BY <2>5 DEF DecideRepeat
      <3> QED
        BY <2>1, <2>2, <2>3, <2>4, <3>1, <3>2 DEF TypeOK, memory, logVars, clients
    <2>6. ASSUME NEW reply \in Results, NEW rows \in Seq(ToQueue), NEW ids \in SUBSET Orders,
                 Decided(s, reply, rows, ids),
                 live' \in [Orders -> NotLive..Size], \A o \in Orders : live'[o] # Size
          PROVE  TypeInv'
      <3>1. writer' = [pc |-> "rows", on |-> s, rows |-> rows, reply |-> reply]
        BY <2>1, <2>6 DEF Decided, TypeOK
      <3>2. seen' \subseteq Commands \cup Orders \cup Fills /\ results' \in [Commands -> Results \cup {<<>>}]
        BY <2>1, <2>6 DEF Decided, TypeOK
      <3> QED
        BY <2>1, <2>2, <2>3, <2>4, <2>6, <3>1, <3>2 DEF TypeOK, logVars, clients
    <2>7. CASE DecideConflict(s)
      <3>1. <<"conflict", s.order>> \in Results
        BY <2>1 DEF Results
      <3>2. <<"processed", Row(s.command, <<"conflict", s.order>>)>> \in ToQueue
        BY <2>1, <3>1, RowsToQueue
      <3>3. <<<<"processed", Row(s.command, <<"conflict", s.order>>)>>>> \in Seq(ToQueue)
        BY <3>2, OneElement
      <3>4. /\ Decided(s, <<"conflict", s.order>>, <<<<"processed", Row(s.command, <<"conflict", s.order>>)>>>>, {})
            /\ live' = live
        BY <2>7 DEF DecideConflict
      <3>5. live' \in [Orders -> NotLive..Size] /\ \A o \in Orders : live'[o] # Size
        BY <3>4 DEF TypeOK
      <3>6. {} \in SUBSET Orders
        OBVIOUS
      <3> QED
        BY <2>6, <3>1, <3>3, <3>4, <3>5, <3>6
    <2>8. CASE DecideCreate(s)
      <3>1. <<"created", s.order>> \in Results
        BY <2>1 DEF Results
      <3>2. RowsOfCreate(s) \in Seq(ToQueue)
        <4>1. /\ <<"order", Row(s.order, 0)>> \in ToQueue
              /\ <<"event", Row(s.order, "CREATED")>> \in ToQueue
              /\ <<"processed", Row(s.command, <<"created", s.order>>)>> \in ToQueue
              /\ <<"output", Row(s.order, "CREATED")>> \in ToQueue
          <5>1. 0 \in 0..Size /\ "CREATED" \in {"CREATED", "FILL"}
            BY WriterAssumption
          <5> QED
            BY <2>1, <3>1, <5>1, RowsToQueue
        <4> QED
          BY <4>1 DEF RowsOfCreate
      <3>3. live' \in [Orders -> NotLive..Size] /\ \A o \in Orders : live'[o] # Size
        BY <2>1, <2>8, WriterAssumption DEF DecideCreate, TypeOK, NotLive
      <3>4. Decided(s, <<"created", s.order>>, RowsOfCreate(s), {s.order})
        BY <2>8 DEF DecideCreate
      <3> QED
        BY <2>1, <2>6, <3>1, <3>2, <3>3, <3>4
    <2> QED
      BY <1>4, <2>5, <2>7, <2>8 DEF Decide
  <1>5. ASSUME NEW s \in Sending, Answer(s) PROVE TypeInv'
    <2>1. writer.pc = "rows" /\ writer.on = s /\ writer' = Idle /\ s.command \in Commands
      BY <1>5 DEF Answer, Finished, Sending
    <2>2. writer.reply \in Results \cup {Retry}
      BY <2>1 DEF TypeOK
    <2>3. answers' \in [Commands -> SUBSET (Results \cup {Retry, Full})]
      BY <1>5, <2>1, <2>2 DEF Answer, TypeOK
    <2>4. wal' = wal /\ safe' = Len(wal)
      BY <1>5 DEF Answer, MarkSafePoint
    <2>5. UNCHANGED <<writerVars, serving, replaying, memory, attempts, crashes>>
      BY <1>5 DEF Answer
    <2>6. WriterTypeOK'
      BY <2>5 DEF TypeOK, WriterTypeOK, writerVars, flushVars, database, oracles
    <2>7. (writer \in [pc : {"idle", "decide", "rows"}, on : Sending \cup Fills \cup {None},
                   rows : Seq(ToQueue), reply : Results \cup {Retry, <<>>}])'
      BY <2>1 DEF Idle
    <2> QED
      BY <2>1, <2>3, <2>4, <2>5, <2>6, <2>7, KindsAssumption DEF TypeOK, memory, Idle
  <1>6. ASSUME EnqueueRow PROVE TypeInv'
    <2> DEFINE t == Head(writer.rows)[1]
               row == Head(writer.rows)[2]
    <2>1. writer.rows \in Seq(ToQueue) /\ writer.rows # <<>> /\ writer.pc = "rows"
      BY <1>6 DEF EnqueueRow, TypeOK
    <2>2. Head(writer.rows) \in ToQueue /\ Tail(writer.rows) \in Seq(ToQueue)
      BY <2>1, HeadTailProperties
    <2>3. t \in Names /\ row \in Rows[t]
      BY <2>2, QueuedRow
    <2>4. /\ Enqueue(t, row, t = "order" /\ row.says = 0)
          /\ UNCHANGED <<logVars, flushVars, database, faults, oracles, serving, replaying,
                         memory, clients, crashes>>
      BY <1>6 DEF EnqueueRow
    <2>5. WriterTypeOK'
      BY <2>3, <2>4, EnqueueTyped DEF TypeOK
    <2>6. writer' = [pc |-> "rows", on |-> writer.on, rows |-> Tail(writer.rows), reply |-> writer.reply]
      BY <1>6, <2>1 DEF EnqueueRow, TypeOK
    <2> QED
      BY <2>1, <2>2, <2>4, <2>5, <2>6 DEF TypeOK, memory, logVars, clients
  <1>7. ASSUME FinishUnanswered PROVE TypeInv'
    <2>1. writer' = Idle /\ UNCHANGED <<logVars, writerVars, serving, replaying, memory, clients, crashes>>
      BY <1>7 DEF FinishUnanswered, Finished
    <2>2. WriterTypeOK'
      BY <2>1 DEF TypeOK, WriterTypeOK, writerVars, flushVars, database, oracles
    <2>3. (writer \in [pc : {"idle", "decide", "rows"}, on : Sending \cup Fills \cup {None},
                   rows : Seq(ToQueue), reply : Results \cup {Retry, <<>>}])'
      BY <2>1 DEF Idle
    <2> QED
      BY <2>1, <2>2, <2>3, KindsAssumption DEF TypeOK, memory, logVars, clients, Idle
  <1>8. ASSUME ReplayNext PROVE TypeInv'
    <2>1. /\ writer' = [pc |-> "decide", on |-> Head(replaying), rows |-> <<>>, reply |-> <<>>]
          /\ replaying # <<>> /\ replaying' = Tail(replaying)
          /\ UNCHANGED <<logVars, writerVars, serving, memory, clients, crashes>>
      BY <1>8 DEF ReplayNext, Handle, Idle
    <2>2. Head(replaying) \in Sending /\ Tail(replaying) \in Seq(Sending)
      BY <2>1, HeadTailProperties DEF TypeOK
    <2>3. WriterTypeOK'
      BY <2>1 DEF TypeOK, WriterTypeOK, writerVars, flushVars, database, oracles
    <2>4. (writer \in [pc : {"idle", "decide", "rows"}, on : Sending \cup Fills \cup {None},
                   rows : Seq(ToQueue), reply : Results \cup {Retry, <<>>}])'
      BY <2>1, <2>2
    <2> QED
      BY <2>1, <2>2, <2>3, <2>4, KindsAssumption DEF TypeOK, memory, logVars, clients
  <1>9. ASSUME StartServing PROVE TypeInv'
    <2>1. wal' = wal /\ safe' \in 0..Len(wal') /\ serving' = TRUE
      BY <1>9 DEF StartServing, MarkSafePoint, logVars, TypeOK
    <2>2. UNCHANGED <<writerVars, writer, replaying, memory, clients, crashes>>
      BY <1>9 DEF StartServing
    <2>3. WriterTypeOK'
      BY <2>2 DEF TypeOK, WriterTypeOK, writerVars, flushVars, database, oracles
    <2> QED
      BY <2>1, <2>2, <2>3 DEF TypeOK, memory, clients
  <1>10. ASSUME Flush PROVE TypeInv'
    <2>1. WriterTypeOK' /\ UNCHANGED <<writer, serving, replaying, memory, clients, crashes>>
      BY <1>10, FlushTyped DEF Flush, TypeOK
    <2>2. wal' \in Seq(Sending) /\ Len(wal') <= LogSize /\ safe' \in 0..Len(wal')
      <3>1. CASE Reclaim
        <4>1. wal' = SubSeq(wal, safe + 1, Len(wal)) /\ safe' = 0
          BY <3>1 DEF Reclaim, CompactToSafePoint
        <4>2. wal \in Seq(Sending) /\ safe \in 0..Len(wal) /\ Len(wal) \in Nat /\ Len(wal) <= LogSize
          BY DEF TypeOK
        <4>3. wal' \in Seq(Sending) /\ Len(wal') = Len(wal) - safe
          BY <4>1, <4>2, CutSeq
        <4> QED
          BY <4>1, <4>2, <4>3, LogAssumption
      <3>2. CASE UNCHANGED logVars
        BY <3>2 DEF TypeOK, logVars
      <3> QED
        BY <1>10, <3>1, <3>2 DEF Flush, FlushStep
    <2> QED
      BY <2>1, <2>2 DEF TypeOK, memory, clients
  <1>11. ASSUME Crash PROVE TypeInv'
    <2>1. /\ queue' = Empty /\ batch' = Empty /\ firstWrites' = {} /\ flusher' = Start
          /\ UNCHANGED <<orders, processed, outputs, executions, faults, dropped, absorbed>>
      BY <1>11 DEF Crash, WriterCrash, database, oracles
    <2>2. /\ \A t \in Names : queue'[t] = <<>> /\ batch'[t] = <<>>
          /\ DOMAIN queue' = Names /\ DOMAIN batch' = Names
      BY <2>1 DEF Empty
    <2>3. \A t \in Names : queue'[t] \in Seq(Rows[t]) /\ batch'[t] \in Seq(Rows[t]) /\ Len(batch'[t]) <= BatchSize
      <3>1. \A t \in Names : <<>> \in Seq(Rows[t])
        BY EmptySeq
      <3>2. Len(<<>>) = 0 /\ 0 <= BatchSize
        BY WriterAssumption
      <3> QED
        BY <2>2, <3>1, <3>2
    <2>4. Start \in [pc : {"drain", "persist", "salvage", "check", "compact"}, at : 1..Len(Tables)]
      BY FiveTables DEF Start
    <2>5. WriterTypeOK'
      BY <2>1, <2>2, <2>3, <2>4 DEF WriterTypeOK, TypeOK
    <2>6. live' \in [Orders -> NotLive..Size] /\ \A o \in Orders : live'[o] # Size
      BY <1>11, WriterAssumption DEF Crash, LoadedOrders, TypeOK, WriterTypeOK, NotLive, Absent
    <2>7. seen' \subseteq Commands \cup Orders \cup Fills /\ ready' \in BOOLEAN
      BY <1>11 DEF Crash, LoadedIds, TypeOK, WriterTypeOK
    <2>8. results' \in [Commands -> Results \cup {<<>>}] /\ crashes' \in 0..MaxCrashes
      BY <1>11, HotPathAssumption DEF Crash, TypeOK
    <2>9. (writer \in [pc : {"idle", "decide", "rows"}, on : Sending \cup Fills \cup {None},
                   rows : Seq(ToQueue), reply : Results \cup {Retry, <<>>}])'
          /\ writer' = Idle
      BY <1>11 DEF Crash, Idle
    <2>10. /\ wal' = wal /\ safe' = 0 /\ replaying' = wal /\ serving' = FALSE
           /\ UNCHANGED <<answers, attempts>>
      BY <1>11 DEF Crash, LogCrash, clients
    <2>11. /\ wal' \in Seq(Sending) /\ Len(wal') <= LogSize /\ safe' \in 0..Len(wal')
           /\ replaying' \in Seq(Sending) /\ serving' \in BOOLEAN
           /\ answers' \in [Commands -> SUBSET (Results \cup {Retry, Full})]
           /\ attempts' \in [Commands -> 0..Attempts]
      <3>1. wal \in Seq(Sending) /\ Len(wal) \in Nat /\ Len(wal) <= LogSize
        BY DEF TypeOK
      <3>2. wal' = wal /\ safe' = 0 /\ replaying' = wal /\ serving' = FALSE /\ 0 \in 0..Len(wal)
        BY <2>10, <3>1
      <3>3. answers' = answers /\ attempts' = attempts
        BY <2>10
      <3> QED
        BY <3>1, <3>2, <3>3 DEF TypeOK
    <2>12. TypeOK'
      BY <2>5, <2>6, <2>7, <2>8, <2>9, <2>11 DEF TypeOK
    <2>13. writer'.pc = "idle" /\ writer'.on = None /\ writer'.rows = <<>>
      BY <2>9 DEF Idle
    <2> QED
      BY <2>6, <2>12, <2>13
  <1>12. ASSUME UNCHANGED vars PROVE TypeInv'
    BY <1>12 DEF vars, TypeOK, WriterTypeOK, logVars, writerVars, flushVars, database, oracles, memory, clients
  <1>13. ASSUME NEW k \in Commands, Evict(k) PROVE TypeInv'
    <2>1. results' \in [Commands -> Results \cup {<<>>}]
      BY <1>13 DEF Evict, TypeOK
    <2>2. UNCHANGED <<logVars, writerVars, writer, serving, replaying, live, seen, ready,
                       clients, crashes>>
      BY <1>13 DEF Evict
    <2> QED
      BY <2>1, <2>2 DEF TypeOK, WriterTypeOK, logVars, writerVars, flushVars, database, oracles, clients
  <1> QED
    BY <1>1, <1>2, <1>3, <1>4, <1>5, <1>6, <1>7, <1>8, <1>9, <1>10, <1>11, <1>12, <1>13
       DEF Next, WriterStep

\* The log, the queues, the tables, memory and the writer thread stay well typed: a batch
\* is never larger than its buffer, no order trades more than its size, and each queue
\* holds rows of its own table (AsyncDbWriter, OrderCommandHandler, ExecutionCommandHandler).
THEOREM HotPathTypeCorrect == Spec => []TypeOK
  <1>1. TypeInv => TypeOK
    BY DEF TypeInv
  <1> QED
    BY <1>1, TypeInvInit, TypeInvStep, PTL DEF Spec

----------------------------------------------------------------------------
(* The rows on their way to a table, in the order they will be written:    *)
(* those in the batch and then those in the queue.  However the flush      *)
(* drains, commits or salvages, it only takes rows from the front, and the *)
(* writer thread only adds them at the end.                                *)

Line(t) == batch[t] \o queue[t]

\* Where the flush is tells which batch buffers are empty.
Phases ==
    /\ flusher.pc = "drain" => \A i \in flusher.at..Len(Tables) : batch[Tables[i]] = <<>>
    /\ flusher.pc = "salvage" => \A i \in 1..(flusher.at - 1) : batch[Tables[i]] = <<>>
    /\ flusher.pc \in {"check", "compact"} => \A t \in Names : batch[t] = <<>>

LEMMA PhasesInit == Init => Phases
  <1> SUFFICES ASSUME Init PROVE Phases
    OBVIOUS
  <1>1. \A i \in 1..Len(Tables) : batch[Tables[i]] = <<>>
    BY FiveTables DEF Init, WriterInit, Empty
  <1>2. flusher.pc = "drain" /\ flusher.at = 1
    BY DEF Init, WriterInit, Start
  <1> QED
    BY <1>1, <1>2 DEF Phases

LEMMA PhasesFlush ==
  ASSUME WriterTypeOK, Phases, FlushStep
  PROVE  Phases'
  <1> DEFINE t == Tables[flusher.at]
  <1>0. /\ flusher.at \in 1..5 /\ Len(Tables) = 5 /\ t \in Names
        /\ \A i, j \in 1..5 : Tables[i] = Tables[j] => i = j
        /\ \A u \in Names : \E i \in 1..5 : u = Tables[i]
        /\ \A i \in 1..5 : Tables[i] \in Names
    BY FiveTables DEF WriterTypeOK
  <1>1. CASE DrainTable
    <2>1. /\ flusher.pc = "drain"
          /\ \A u \in Names \ {t} : batch'[u] = batch[u]
      BY <1>0, <1>1 DEF DrainTable, WriterTypeOK
    <2>2. \A i \in (flusher.at + 1)..5 : Tables[i] # t /\ batch[Tables[i]] = <<>>
      BY <1>0, <2>1 DEF Phases
    <2>3. CASE flusher.at < 5
      <3>1. flusher'.pc = "drain" /\ flusher'.at = flusher.at + 1
        BY <1>0, <1>1, <2>3 DEF DrainTable, GoTo
      <3>2. \A i \in (flusher.at + 1)..5 : batch'[Tables[i]] = <<>>
        BY <1>0, <2>1, <2>2
      <3> QED
        BY <1>0, <3>1, <3>2 DEF Phases
    <2>4. CASE flusher.at = 5 /\ batch' = Empty
      <3>1. flusher'.pc = "check"
        BY <1>0, <1>1, <2>4 DEF DrainTable, GoTo
      <3>2. \A u \in Names : batch'[u] = <<>>
        BY <2>4 DEF Empty
      <3> QED
        BY <3>1, <3>2 DEF Phases
    <2>5. CASE flusher.at = 5 /\ batch' # Empty
      <3>1. flusher'.pc = "persist"
        BY <1>0, <1>1, <2>5 DEF DrainTable, GoTo
      <3> QED
        BY <3>1 DEF Phases
    <2> QED
      BY <1>0, <2>3, <2>4, <2>5
  <1>2. CASE PersistBatch
    <2>1. CASE batch' = Empty /\ GoTo("check", 1)
      <3>1. \A u \in Names : batch'[u] = <<>>
        BY <2>1 DEF Empty
      <3> QED
        BY <2>1, <3>1 DEF Phases, GoTo
    <2>2. CASE GoTo("salvage", 1)
      <3>1. flusher'.pc = "salvage" /\ flusher'.at = 1
        BY <2>2 DEF GoTo
      <3> QED
        BY <3>1 DEF Phases
    <2> QED
      BY <1>2, <2>1, <2>2 DEF PersistBatch
  <1>3. CASE SalvageRow
    <2>1. /\ flusher.pc = "salvage" /\ flusher' = flusher
          /\ \A u \in Names \ {t} : batch'[u] = batch[u]
      BY <1>0, <1>3, SalvagedRow DEF SalvageRow
    <2>2. \A i \in 1..(flusher.at - 1) : Tables[i] # t /\ batch[Tables[i]] = <<>>
      BY <1>0, <2>1 DEF Phases
    <2> QED
      BY <1>0, <2>1, <2>2 DEF Phases
  <1>4. CASE SalvageNextTable
    <2>1. flusher.pc = "salvage" /\ batch' = batch /\ batch[t] = <<>>
      BY <1>4 DEF SalvageNextTable
    <2>2. \A i \in 1..flusher.at : batch'[Tables[i]] = <<>>
      BY <1>0, <2>1 DEF Phases
    <2>3. CASE flusher.at < 5
      <3>1. flusher'.pc = "salvage" /\ flusher'.at = flusher.at + 1
        BY <1>0, <1>4, <2>3 DEF SalvageNextTable, GoTo
      <3> QED
        BY <1>0, <2>2, <3>1 DEF Phases
    <2>4. CASE flusher.at = 5
      <3>1. flusher'.pc = "check"
        BY <1>0, <1>4, <2>4 DEF SalvageNextTable, GoTo
      <3>2. \A u \in Names : batch'[u] = <<>>
        BY <1>0, <2>2, <2>4
      <3> QED
        BY <3>1, <3>2 DEF Phases
    <2> QED
      BY <1>0, <2>3, <2>4
  <1>5. CASE CheckQueue
    <2>1. batch' = batch /\ \A u \in Names : batch'[u] = <<>>
      BY <1>5 DEF CheckQueue, Phases
    <2>2. \A i \in 1..5 : batch'[Tables[i]] = <<>>
      BY <1>0, <2>1
    <2>3. flusher'.pc \in {"check", "compact"} \/ (flusher'.pc = "drain" /\ flusher'.at = 1)
      BY <1>5 DEF CheckQueue, GoTo
    <2> QED
      BY <1>0, <2>1, <2>2, <2>3 DEF Phases
  <1>6. CASE Reclaim
    <2>1. batch' = batch /\ \A u \in Names : batch'[u] = <<>>
      BY <1>6 DEF Reclaim, Phases
    <2>2. \A i \in 1..5 : batch'[Tables[i]] = <<>>
      BY <1>0, <2>1
    <2>3. flusher'.pc = "drain" /\ flusher'.at = 1
      BY <1>6 DEF Reclaim, GoTo
    <2> QED
      BY <1>0, <2>2, <2>3 DEF Phases
  <1> QED
    BY <1>1, <1>2, <1>3, <1>4, <1>5, <1>6 DEF FlushStep

\* The lines are sequences of rows.
LEMMA ConcatRows ==
  ASSUME NEW S, NEW s \in Seq(S), NEW q \in Seq(S)
  PROVE  /\ s \o q \in Seq(S) /\ Len(s \o q) = Len(s) + Len(q)
         /\ Len(s) \in Nat /\ Len(q) \in Nat
         /\ \A i \in 1..Len(s) : (s \o q)[i] = s[i]
         /\ \A i \in 1..Len(q) : (s \o q)[Len(s) + i] = q[i]
  <1> DEFINE m == Len(s)  n == Len(q)
  <1>1. m \in Nat /\ n \in Nat
    BY LenProperties
  <1>2. /\ s \o q \in Seq(S) /\ Len(s \o q) = m + n
        /\ \A i \in 1..(m + n) : (s \o q)[i] = IF i <= m THEN s[i] ELSE q[i - m]
    BY ConcatProperties
  <1> HIDE DEF m, n
  <1>3. \A i \in 1..m : (s \o q)[i] = s[i]
    BY <1>1, <1>2
  <1>4. ASSUME NEW i \in 1..n
        PROVE  (s \o q)[m + i] = q[i]
    <2>1. m + i \in 1..(m + n) /\ ~(m + i <= m) /\ (m + i) - m = i
      BY <1>1
    <2>2. (s \o q)[m + i] = q[(m + i) - m]
      BY <1>2, <2>1
    <2> QED
      BY <2>1, <2>2
  <1> QED
    BY <1>1, <1>2, <1>3, <1>4 DEF m, n

LEMMA LineRows ==
  ASSUME WriterTypeOK, NEW t \in Names
  PROVE  /\ Line(t) \in Seq(Rows[t]) /\ Len(Line(t)) = Len(batch[t]) + Len(queue[t])
         /\ Len(batch[t]) \in Nat /\ Len(queue[t]) \in Nat
         /\ \A i \in 1..Len(batch[t]) : Line(t)[i] = batch[t][i]
         /\ \A i \in 1..Len(queue[t]) : Line(t)[Len(batch[t]) + i] = queue[t][i]
  <1>1. batch[t] \in Seq(Rows[t]) /\ queue[t] \in Seq(Rows[t])
    BY DEF WriterTypeOK
  <1> DEFINE s == batch[t]  q == queue[t]
  <1>2. s \in Seq(Rows[t]) /\ q \in Seq(Rows[t]) /\ Line(t) = s \o q
    BY <1>1 DEF Line
  <1> HIDE DEF s, q
  <1>3. /\ s \o q \in Seq(Rows[t]) /\ Len(s \o q) = Len(s) + Len(q)
        /\ Len(s) \in Nat /\ Len(q) \in Nat
        /\ \A i \in 1..Len(s) : (s \o q)[i] = s[i]
        /\ \A i \in 1..Len(q) : (s \o q)[Len(s) + i] = q[i]
    BY <1>2, ConcatRows
  <1> QED
    BY <1>2, <1>3 DEF s, q

\* The rows b are the next ones of their lines, and they leave the lines.
Written1(b, t) == \E n \in 0..Len(Line(t)) :
    /\ b[t] = SubSeq(Line(t), 1, n)
    /\ Line(t)' = SubSeq(Line(t), n + 1, Len(Line(t)))
NextRows(b) == \A t \in Names : Written1(b, t)

\* The front of a concatenation, and what is left.
LEMMA CutConcat ==
  ASSUME NEW S, NEW s \in Seq(S), NEW q \in Seq(S)
  PROVE  /\ SubSeq(s \o q, 1, Len(s)) = s
         /\ SubSeq(s \o q, Len(s) + 1, Len(s \o q)) = <<>> \o q
         /\ Len(s) \in 0..Len(s \o q)
         /\ s \o q = SubSeq(s \o q, 1, Len(s \o q)) /\ SubSeq(s \o q, 1, 0) = <<>>
         /\ s # <<>> => /\ SubSeq(s \o q, 1, 1) = <<Head(s)>>
                        /\ SubSeq(s \o q, 2, Len(s \o q)) = Tail(s) \o q
                        /\ 1 \in 0..Len(s \o q)
  <1> DEFINE l == s \o q
  <1>1. Len(s) \in Nat /\ Len(q) \in Nat
    OBVIOUS
  <1>2. /\ l \in Seq(S) /\ Len(l) = Len(s) + Len(q)
        /\ \A i \in 1..(Len(s) + Len(q)) : l[i] = IF i <= Len(s) THEN s[i] ELSE q[i - Len(s)]
    BY ConcatProperties
  <1> HIDE DEF l
  <1>3. Len(s) \in 0..Len(l)
    BY <1>1, <1>2
  <1>4. SubSeq(l, 1, Len(s)) = s
    <2>1. /\ SubSeq(l, 1, Len(s)) \in Seq(S) /\ Len(SubSeq(l, 1, Len(s))) = Len(s)
          /\ \A i \in 1..Len(s) : SubSeq(l, 1, Len(s))[i] = l[i]
      BY <1>2, <1>3, CutSeq
    <2>2. \A i \in 1..Len(s) : SubSeq(l, 1, Len(s))[i] = s[i]
      BY <1>1, <1>2, <2>1
    <2> QED
      BY <2>1, <2>2, SeqEqual
  <1>5. SubSeq(l, Len(s) + 1, Len(l)) = q
    <2>1. /\ SubSeq(l, Len(s) + 1, Len(l)) \in Seq(S) /\ Len(SubSeq(l, Len(s) + 1, Len(l))) = Len(l) - Len(s)
          /\ \A i \in 1..(Len(l) - Len(s)) : SubSeq(l, Len(s) + 1, Len(l))[i] = l[Len(s) + i]
      BY <1>2, <1>3, CutSeq
    <2>2. ASSUME NEW i \in 1..Len(q)
          PROVE  SubSeq(l, Len(s) + 1, Len(l))[i] = q[i]
      <3>1. i \in 1..(Len(l) - Len(s)) /\ Len(s) + i \in 1..(Len(s) + Len(q))
            /\ ~(Len(s) + i <= Len(s)) /\ (Len(s) + i) - Len(s) = i
        BY <1>1, <1>2
      <3>2. SubSeq(l, Len(s) + 1, Len(l))[i] = l[Len(s) + i]
        BY <2>1, <3>1
      <3>3. l[Len(s) + i] = q[(Len(s) + i) - Len(s)]
        BY <1>2, <3>1
      <3> QED
        BY <3>1, <3>2, <3>3
    <2> QED
      BY <1>1, <1>2, <2>1, <2>2, SeqEqual
  <1>6. <<>> \o q = q
    BY ConcatEmptySeq
  <1>7. l = SubSeq(l, 1, Len(l)) /\ SubSeq(l, 1, 0) = <<>>
    BY <1>2, SubSeqFull, SubSeqEmpty
  <1>8. ASSUME s # <<>>
        PROVE  /\ SubSeq(l, 1, 1) = <<Head(s)>>
               /\ SubSeq(l, 2, Len(l)) = Tail(s) \o q
               /\ 1 \in 0..Len(l)
    <2>1. /\ Head(s) \in S /\ Tail(s) \in Seq(S) /\ Len(Tail(s)) = Len(s) - 1
          /\ \A i \in 1..Len(Tail(s)) : Tail(s)[i] = s[i + 1]
      BY <1>8, HeadTailProperties
    <2>2. Head(s) = s[1] /\ 1 <= Len(s)
      BY <1>8
    <2>3. 1 \in 0..Len(l)
      BY <1>1, <1>2, <2>2
    <2>4. /\ SubSeq(l, 1, 1) \in Seq(S) /\ Len(SubSeq(l, 1, 1)) = 1
          /\ SubSeq(l, 1, 1)[1] = l[1]
          /\ SubSeq(l, 2, Len(l)) \in Seq(S) /\ Len(SubSeq(l, 2, Len(l))) = Len(l) - 1
          /\ \A i \in 1..(Len(l) - 1) : SubSeq(l, 2, Len(l))[i] = l[1 + i]
      BY <1>2, <2>3, CutSeq
    <2>5. <<Head(s)>> \in Seq(S) /\ Len(<<Head(s)>>) = 1 /\ <<Head(s)>>[1] = Head(s)
      BY <2>1, OneElement
    <2>6. SubSeq(l, 1, 1) = <<Head(s)>>
      <3>1. l[1] = s[1]
        BY <1>1, <1>2, <2>2
      <3>2. \A i \in 1..1 : SubSeq(l, 1, 1)[i] = <<Head(s)>>[i]
        BY <2>2, <2>4, <2>5, <3>1
      <3> QED
        BY <2>4, <2>5, <3>2, SeqEqual
    <2>7. /\ Tail(s) \o q \in Seq(S) /\ Len(Tail(s) \o q) = Len(Tail(s)) + Len(q)
          /\ \A i \in 1..(Len(Tail(s)) + Len(q)) : (Tail(s) \o q)[i] =
                IF i <= Len(Tail(s)) THEN Tail(s)[i] ELSE q[i - Len(Tail(s))]
      BY <2>1, ConcatProperties
    <2>8. \A i \in 1..(Len(l) - 1) : SubSeq(l, 2, Len(l))[i] = (Tail(s) \o q)[i]
      BY <1>1, <1>2, <2>1, <2>2, <2>4, <2>7
    <2>9. SubSeq(l, 2, Len(l)) = Tail(s) \o q
      BY <1>1, <1>2, <2>1, <2>4, <2>7, <2>8, SeqEqual
    <2> QED
      BY <2>3, <2>6, <2>9
  <1> QED
    BY <1>3, <1>4, <1>5, <1>6, <1>7, <1>8 DEF l

\* A step of the flush moves rows along, commits the next rows of the lines, or gives
\* up the next row of one line, which salvage reports.
Moved == \A t \in Names : Line(t)' = Line(t)

Committed == \E b \in [Names -> UNION {Seq(Rows[t]) : t \in Names}] :
    Batch(b) /\ NextRows(b) /\ Commit(b) /\ UNCHANGED dropped

GivenUp == \E t \in Names :
    /\ Line(t) # <<>> /\ Line(t)' = SubSeq(Line(t), 2, Len(Line(t)))
    /\ \A u \in Names \ {t} : Line(u)' = Line(u)
    /\ dropped' = dropped \cup {<<t, Line(t)[1].id>>}

LEMMA FlushMoves ==
  ASSUME WriterTypeOK, Phases, FlushStep
  PROVE  \/ Committed
         \/ /\ Moved \/ GivenUp
            /\ firstWrites' \subseteq firstWrites
            /\ UNCHANGED <<database, absorbed>>
            /\ Moved => UNCHANGED dropped
  <1>c. PICK t \in Names : t = Tables[flusher.at]
    BY FiveTables DEF WriterTypeOK
  <1>0. /\ flusher.at \in 1..5 /\ Len(Tables) = 5 /\ t \in Names /\ t = Tables[flusher.at]
        /\ \A i, j \in 1..5 : Tables[i] = Tables[j] => i = j
    BY <1>c, FiveTables DEF WriterTypeOK
  <1>a. \A u \in Names : batch[u] \in Seq(Rows[u]) /\ queue[u] \in Seq(Rows[u])
    BY DEF WriterTypeOK
  <1>1. CASE DrainTable
    <2>1. batch[t] = <<>>
      BY <1>0, <1>1 DEF DrainTable, Phases
    <2>2. /\ \A u \in Names : batch'[u] = IF u = t THEN SubSeq(queue[t], 1, Taken(t)) ELSE batch[u]
          /\ \A u \in Names : queue'[u] = IF u = t THEN SubSeq(queue[t], Taken(t) + 1, Len(queue[t])) ELSE queue[u]
      BY <1>0, <1>1 DEF DrainTable, WriterTypeOK
    <2>3. Taken(t) \in 0..Len(queue[t]) /\ Len(queue[t]) \in Nat
      <3>1. queue[t] \in Seq(Rows[t]) /\ Len(queue[t]) \in Nat
        BY <1>0, <1>a
      <3> QED
        BY <3>1, WriterAssumption DEF Taken
    <2>4. SubSeq(queue[t], 1, Taken(t)) \o SubSeq(queue[t], Taken(t) + 1, Len(queue[t])) = queue[t]
      <3> DEFINE q == queue[t]  n == Taken(t)
      <3>1. q \in Seq(Rows[t]) /\ n \in 0..Len(q) /\ Len(q) \in Nat
        BY <1>0, <1>a, <2>3
      <3> HIDE DEF q, n
      <3>2. 1 \in 1..(Len(q) + 1) /\ n \in (1 - 1)..Len(q) /\ Len(q) \in n..Len(q)
        BY <3>1
      <3>3. SubSeq(q, 1, n) \o SubSeq(q, n + 1, Len(q)) = SubSeq(q, 1, Len(q))
        BY <3>1, <3>2, ConcatAdjacentSubSeq
      <3>4. SubSeq(q, 1, Len(q)) = q
        BY <3>1, SubSeqFull
      <3> QED
        BY <3>3, <3>4 DEF q, n
    <2>5. <<>> \o queue[t] = queue[t]
      BY <1>0, <1>a, ConcatEmptySeq
    <2>6. Moved
      <3> SUFFICES ASSUME NEW u \in Names PROVE Line(u)' = Line(u)
        BY DEF Moved
      <3>1. CASE u = t
        BY <2>1, <2>2, <2>4, <2>5, <3>1 DEF Line
      <3>2. CASE u # t
        BY <2>2, <3>2 DEF Line
      <3> QED
        BY <3>1, <3>2
    <2> QED
      BY <1>1, <2>6 DEF DrainTable, oracles
  <1>2. CASE PersistBatch
    <2>1. CASE Commit(batch) /\ batch' = Empty /\ UNCHANGED <<queue, dropped>>
      <3> DEFINE b == [u \in Names |-> batch[u]]
      <3>1. b \in [Names -> UNION {Seq(Rows[u]) : u \in Names}] /\ Batch(b)
        BY <1>a DEF Batch
      <3>2. Commit(b)
        <4>1. \A u \in Names : b[u] = batch[u]
          OBVIOUS
        <4>2. b["order"] = batch["order"] /\ b["processed"] = batch["processed"]
              /\ b["execution"] = batch["execution"] /\ b["output"] = batch["output"]
          BY <4>1, FiveTables
        <4> HIDE DEF b
        <4> QED
          BY <2>1, <4>2 DEF Commit
      <3>3. NextRows(b)
        <4> SUFFICES ASSUME NEW u \in Names
                     PROVE  /\ b[u] = SubSeq(Line(u), 1, Len(batch[u]))
                            /\ Line(u)' = SubSeq(Line(u), Len(batch[u]) + 1, Len(Line(u)))
                            /\ Len(batch[u]) \in 0..Len(Line(u))
          BY DEF NextRows, Written1
        <4>1. batch'[u] = <<>> /\ queue'[u] = queue[u]
          BY <2>1 DEF Empty
        <4>2. Line(u)' = <<>> \o queue[u]
          BY <4>1 DEF Line
        <4>3. batch[u] \in Seq(Rows[u]) /\ queue[u] \in Seq(Rows[u])
          BY <1>a
        <4>4. /\ SubSeq(batch[u] \o queue[u], 1, Len(batch[u])) = batch[u]
              /\ SubSeq(batch[u] \o queue[u], Len(batch[u]) + 1, Len(batch[u] \o queue[u])) = <<>> \o queue[u]
              /\ Len(batch[u]) \in 0..Len(batch[u] \o queue[u])
          BY <4>3, CutConcat
        <4> QED
          BY <4>2, <4>4 DEF Line
      <3> QED
        BY <2>1, <3>1, <3>2, <3>3 DEF Committed
    <2>2. CASE /\ firstWrites' \in {firstWrites, firstWrites \ Claimed(batch["order"])}
               /\ UNCHANGED <<queue, batch, database, dropped, absorbed>>
      BY <2>2 DEF Moved, Line
    <2> QED
      BY <1>2, <2>1, <2>2 DEF PersistBatch, oracles
  <1>3. CASE SalvageRow
    <2> DEFINE one == [Empty EXCEPT ![t] = <<Head(batch[t])>>]
    <2>0. flusher.pc = "salvage" /\ batch[t] # <<>>
      BY <1>0, <1>3 DEF SalvageRow
    <2>1. /\ Batch(one)
          /\ \A u \in Names : one[u] = IF u = t THEN <<Head(batch[t])>> ELSE <<>>
          /\ \A u \in Names : batch'[u] = IF u = t THEN Tail(batch[t]) ELSE batch[u]
          /\ queue' = queue
      BY <1>0, <1>3, <2>0, SalvagedRow DEF SalvageRow
    <2>2. \A u \in Names \ {t} : Line(u)' = Line(u)
      BY <2>1 DEF Line
    <2>3. /\ Line(t)' = SubSeq(Line(t), 2, Len(Line(t)))
          /\ SubSeq(Line(t), 1, 1) = <<Head(batch[t])>> /\ 1 \in 0..Len(Line(t))
      <3>1. Line(t)' = Tail(batch[t]) \o queue[t]
        BY <1>0, <2>1 DEF Line
      <3>2. batch[t] \in Seq(Rows[t]) /\ queue[t] \in Seq(Rows[t])
        BY <1>0, <1>a
      <3> QED
        BY <2>0, <3>1, <3>2, CutConcat DEF Line
    <2>4. CASE Commit(one) /\ UNCHANGED dropped
      <3>1. one \in [Names -> UNION {Seq(Rows[u]) : u \in Names}]
        <4>1. \A u \in Names : one[u] \in Seq(Rows[u])
          BY <2>1 DEF Batch
        <4> QED
          BY <4>1 DEF Empty
      <3>2. NextRows(one)
        <4> SUFFICES ASSUME NEW u \in Names PROVE Written1(one, u)
          BY DEF NextRows
        <4>1. CASE u = t
          <5>1. 1 + 1 = 2
            OBVIOUS
          <5>2. one[u] = SubSeq(Line(u), 1, 1) /\ Line(u)' = SubSeq(Line(u), 1 + 1, Len(Line(u)))
            BY <1>0, <2>1, <2>3, <4>1, <5>1
          <5>3. 1 \in 0..Len(Line(u))
            BY <2>3, <4>1
          <5> QED
            BY <5>2, <5>3 DEF Written1
        <4>2. CASE u # t
          <5>1. one[u] = <<>> /\ Line(u)' = Line(u)
            BY <2>1, <2>2, <4>2
          <5>2. /\ Line(u) = SubSeq(Line(u), 1, Len(Line(u))) /\ SubSeq(Line(u), 1, 0) = <<>>
                /\ 0 \in 0..Len(Line(u))
            <6>1. Line(u) \in Seq(Rows[u])
              BY LineRows
            <6> QED
              BY <6>1, SubSeqFull, SubSeqEmpty, LenProperties
          <5>3. 0 + 1 = 1
            OBVIOUS
          <5> QED
            BY <5>1, <5>2, <5>3 DEF Written1
        <4> QED
          BY <4>1, <4>2
      <3> QED
        BY <2>1, <2>4, <3>1, <3>2 DEF Committed
    <2>5. CASE /\ dropped' = dropped \cup {<<t, Head(batch[t]).id>>}
               /\ firstWrites' \in {firstWrites, firstWrites \ Claimed(one["order"])}
               /\ UNCHANGED <<database, absorbed>>
      <3>1. Line(t) # <<>> /\ Line(t)[1] = Head(batch[t])
        <4>1. Line(t) \in Seq(Rows[t]) /\ Len(batch[t]) \in Nat /\ Len(Line(t)) >= 1
              /\ batch[t] \in Seq(Rows[t])
              /\ \A i \in 1..Len(batch[t]) : Line(t)[i] = batch[t][i]
          <5>1. /\ Line(t) \in Seq(Rows[t]) /\ Len(batch[t]) \in Nat
                /\ \A i \in 1..Len(batch[t]) : Line(t)[i] = batch[t][i]
            BY LineRows
          <5>2. Len(Line(t)) \in Nat
            BY <5>1, LenProperties
          <5> QED
            BY <1>a, <2>3, <5>1, <5>2
        <4>2. 1 \in 1..Len(batch[t]) /\ Head(batch[t]) = batch[t][1]
          BY <2>0, <4>1
        <4>3. Line(t) # <<>>
          BY <4>1
        <4> QED
          BY <4>1, <4>2, <4>3
      <3>2. GivenUp
        <4> QED
          BY <1>0, <2>2, <2>3, <2>5, <3>1 DEF GivenUp
      <3>3. Moved => UNCHANGED dropped
        <4>1. Line(t)' # Line(t)
          <5>1. Line(t) \in Seq(Rows[t]) /\ Len(Line(t)) \in Nat /\ Len(Line(t)) >= 1 /\ 1 \in 0..Len(Line(t))
            <6>1. Line(t) \in Seq(Rows[t])
              BY LineRows
            <6>2. Len(Line(t)) \in Nat
              BY <6>1, LenProperties
            <6> QED
              BY <2>3, <6>1, <6>2
          <5>2. Len(SubSeq(Line(t), 2, Len(Line(t)))) = Len(Line(t)) - 1
            <6>1. Len(SubSeq(Line(t), 1 + 1, Len(Line(t)))) = Len(Line(t)) - 1
              BY <5>1, CutSeq
            <6>2. 1 + 1 = 2
              OBVIOUS
            <6> QED
              BY <6>1, <6>2
          <5> QED
            BY <2>3, <5>1, <5>2
        <4> QED
          BY <1>0, <4>1 DEF Moved
      <3> QED
        BY <2>5, <3>2, <3>3
    <2> QED
      BY <1>0, <1>3, <2>4, <2>5 DEF SalvageRow
  <1>4. CASE SalvageNextTable \/ CheckQueue \/ Reclaim
    BY <1>4 DEF SalvageNextTable, CheckQueue, Reclaim, oracles, Moved, Line
  <1> QED
    BY <1>1, <1>2, <1>3, <1>4 DEF FlushStep

----------------------------------------------------------------------------
(* No row is queued twice.  An id that is in memory, in a table or on its  *)
(* way to one is in the index, so what the handler lets through is new     *)
(* everywhere; and without an index nothing is let through.                *)

\* What a row is told from the others of its table by.
Key(t, row) == IF t = "execution" THEN row.says ELSE row.id

InTable(t, key) ==
    \/ t = "order"     /\ orders[key] # Absent
    \/ t = "processed" /\ processed[key] # <<>>
    \/ t = "execution" /\ key \in executions

Known ==
    /\ ~ready => writer.rows = <<>> /\ \A t \in Names : Line(t) = <<>>
    /\ ready => /\ \A o \in Orders : orders[o] # Absent \/ live[o] # NotLive => o \in seen
                /\ \A k \in Commands : processed[k] # <<>> \/ results[k] # <<>> => k \in seen
                /\ executions \subseteq seen
    /\ \A t \in Names : \A i \in 1..Len(Line(t)) : Key(t, Line(t)[i]) \in seen
    /\ \A i \in 1..Len(writer.rows) : Key(writer.rows[i][1], writer.rows[i][2]) \in seen

\* A command or a fill queues one row for each table.
OneRowPerTable == \A i, j \in 1..Len(writer.rows) : writer.rows[i][1] = writer.rows[j][1] => i = j

\* The rows of a table that are on their way are told apart by their keys, and are not
\* in it; nor is the row that the writer thread has yet to queue among them.
Unique(t) ==
    /\ \A i, j \in 1..Len(Line(t)) : Key(t, Line(t)[i]) = Key(t, Line(t)[j]) => i = j
    /\ \A i \in 1..Len(Line(t)) : ~InTable(t, Key(t, Line(t)[i]))
    /\ \A i \in 1..Len(writer.rows) : writer.rows[i][1] = t =>
          /\ ~InTable(t, Key(t, writer.rows[i][2]))
          /\ \A j \in 1..Len(Line(t)) : Key(t, Line(t)[j]) # Key(t, writer.rows[i][2])

RowInv == Known /\ OneRowPerTable /\ Unique("processed") /\ Unique("execution")

Base == TypeInv /\ Phases

\* The step leaves the rows, the tables and memory alone, but for a result that is
\* evicted, and no row to queue comes up.
Quiet ==
    /\ \A t \in Names : Line(t)' = Line(t)
    /\ UNCHANGED <<firstWrites, orders, processed, executions, dropped, absorbed,
                   live, seen, ready>>
    /\ \A k \in Commands : results'[k] # <<>> => results[k] # <<>>
    /\ writer'.rows = writer.rows

\* The row that the writer thread hands over becomes the last of its line.
Handed ==
    /\ writer.rows # <<>>
    /\ \E t \in Names : \E row \in Rows[t] :
       /\ writer.rows[1] = <<t, row>>
       /\ Line(t)' = Append(Line(t), row)
       /\ \A u \in Names \ {t} : Line(u)' = Line(u)
       /\ firstWrites' = IF t = "order" /\ row.says = 0 THEN firstWrites \cup {row.id} ELSE firstWrites
    /\ writer'.rows = Tail(writer.rows)
    /\ UNCHANGED <<orders, processed, executions, dropped, absorbed, live, results, seen, ready>>

\* A flush, as the rows see it.
Flushed ==
    /\ \/ Committed
       \/ /\ Moved \/ GivenUp
          /\ firstWrites' \subseteq firstWrites
          /\ UNCHANGED <<database, absorbed>>
          /\ Moved => UNCHANGED dropped
    /\ UNCHANGED <<writer, live, results, seen, ready>>

LEMMA HandedOver == ASSUME Base, EnqueueRow PROVE Handed
  <1> USE DEF Base, TypeInv
  <1>1. writer.rows \in Seq(ToQueue) /\ writer.rows # <<>> /\ Head(writer.rows) = writer.rows[1]
        /\ Head(writer.rows) \in ToQueue
    <2>1. writer.rows \in Seq(ToQueue) /\ writer.rows # <<>>
      BY DEF EnqueueRow, TypeOK
    <2>2. Head(writer.rows) \in ToQueue
      BY <2>1, HeadTailProperties
    <2>3. Head(writer.rows) = writer.rows[1]
      BY <2>1
    <2> QED
      BY <2>1, <2>2, <2>3
  <1>2. PICK t, row : t \in Names /\ row \in Rows[t] /\ t = writer.rows[1][1] /\ row = writer.rows[1][2]
    <2>1. writer.rows[1][1] \in Names /\ writer.rows[1][2] \in Rows[writer.rows[1][1]]
      BY <1>1, QueuedRow
    <2> QED
      BY <2>1
  <1>3. /\ Enqueue(t, row, t = "order" /\ row.says = 0)
        /\ writer' = [writer EXCEPT !.rows = Tail(@)]
        /\ UNCHANGED <<logVars, flushVars, database, faults, oracles, serving, replaying,
                         memory, clients, crashes>>
    BY <1>1, <1>2 DEF EnqueueRow
  <1>4. /\ \A u \in Names : queue'[u] = IF u = t THEN Append(queue[t], row) ELSE queue[u]
        /\ batch' = batch
    BY <1>2, <1>3 DEF Enqueue, TypeOK, WriterTypeOK, flushVars
  <1>5. \A u \in Names \ {t} : Line(u)' = Line(u)
    BY <1>2, <1>4 DEF Line
  <1>6. Line(t)' = Append(Line(t), row)
    <2>1. batch[t] \in Seq(Rows[t]) /\ queue[t] \in Seq(Rows[t])
      BY <1>2 DEF TypeOK, WriterTypeOK
    <2>2. Line(t)' = batch[t] \o Append(queue[t], row)
      BY <1>2, <1>4 DEF Line
    <2> DEFINE s == batch[t]  q == queue[t]
    <2>3. s \in Seq(Rows[t]) /\ q \in Seq(Rows[t]) /\ row \in Rows[t]
      BY <1>2, <2>1
    <2> HIDE DEF s, q
    <2>4. Append(q, row) = q \o <<row>> /\ <<row>> \in Seq(Rows[t])
      BY <2>3, AppendIsConcat, OneElement
    <2>5. s \o (q \o <<row>>) = (s \o q) \o <<row>>
      BY <2>3, <2>4, ConcatAssociative
    <2>6. s \o q \in Seq(Rows[t])
      BY <2>3, ConcatProperties
    <2>7. Append(s \o q, row) = (s \o q) \o <<row>>
      BY <2>3, <2>6, AppendIsConcat
    <2> QED
      BY <2>2, <2>4, <2>5, <2>7 DEF s, q, Line
  <1>7. writer'.rows = Tail(writer.rows)
    BY <1>3 DEF TypeOK
  <1>8. firstWrites' = IF t = "order" /\ row.says = 0 THEN firstWrites \cup {row.id} ELSE firstWrites
    BY <1>3 DEF Enqueue
  <1>9. UNCHANGED <<orders, processed, executions, dropped, absorbed, live, results, seen, ready>>
    BY <1>3 DEF database, oracles, memory
  <1>10. writer.rows[1] = <<t, row>>
    BY <1>1, <1>2, QueuedRow
  <1> QED
    BY <1>1, <1>2, <1>5, <1>6, <1>7, <1>8, <1>9, <1>10 DEF Handed

\* What the other steps do to the rows.
LEMMA StepKinds ==
  ASSUME Base, [Next]_vars
  PROVE  \/ Quiet \/ Handed \/ Flushed \/ Crash
         \/ \E s \in Sending : DecideConflict(s) \/ DecideCreate(s)
         \/ \E f \in Fills : Fill(f)
  <1> USE DEF Base
  <1>1. ASSUME NEW k \in Commands, Accept(k) \/ RefuseUnlogged(k) PROVE Quiet
    <2>1. UNCHANGED <<writerVars, memory>> /\ writer'.rows = writer.rows
      BY <1>1 DEF Accept, RefuseUnlogged, Sent, Handle, Idle, TypeInv
    <2> QED
      BY <2>1 DEF Quiet, Line, writerVars, flushVars, database, oracles, memory
  <1>2. ASSUME NEW s \in Sending, DecideRepeat(s) PROVE Quiet
    <2>1. UNCHANGED <<writerVars, memory>> /\ writer'.rows = writer.rows
      BY <1>2 DEF DecideRepeat, Deciding, TypeInv, TypeOK
    <2> QED
      BY <2>1 DEF Quiet, Line, writerVars, flushVars, database, oracles, memory
  <1>3. ASSUME (\E s \in Sending : Answer(s)) \/ FinishUnanswered \/ ReplayNext \/ StartServing PROVE Quiet
    <2>1. UNCHANGED <<writerVars, memory>> /\ writer'.rows = writer.rows
      <3>1. CASE \E s \in Sending : Answer(s)
        BY <3>1 DEF Answer, Finished, Idle
      <3>2. CASE FinishUnanswered
        BY <3>2 DEF FinishUnanswered, Finished, Idle
      <3>3. CASE ReplayNext
        BY <3>3 DEF ReplayNext, Handle, Idle, TypeInv
      <3>4. CASE StartServing
        BY <3>4 DEF StartServing
      <3> QED
        BY <1>3, <3>1, <3>2, <3>3, <3>4
    <2> QED
      BY <2>1 DEF Quiet, Line, writerVars, flushVars, database, oracles, memory
  <1>4. ASSUME EnqueueRow PROVE Handed
    BY <1>4, HandedOver
  <1>5. ASSUME Flush PROVE Flushed
    BY <1>5, FlushMoves DEF Flush, Flushed, TypeInv, TypeOK, memory
  <1>6. ASSUME UNCHANGED vars PROVE Quiet
    BY <1>6 DEF Quiet, Line, vars, writerVars, flushVars, database, oracles, memory
  <1>7. ASSUME NEW k \in Commands, Evict(k) PROVE Quiet
    <2>1. \A c \in Commands : results'[c] # <<>> => results[c] # <<>>
      BY <1>7 DEF Evict, TypeInv, TypeOK
    <2>2. UNCHANGED <<writerVars, writer, live, seen, ready>>
      BY <1>7 DEF Evict
    <2> QED
      BY <2>1, <2>2 DEF Quiet, Line, writerVars, flushVars, database, oracles
  <1> QED
    BY <1>1, <1>2, <1>3, <1>4, <1>5, <1>6, <1>7 DEF Next, WriterStep, Decide

\* Each step keeps the types and the empty buffers.
LEMMA BaseInit == Init => Base
  BY TypeInvInit, PhasesInit DEF Base

LEMMA BaseStep == Base /\ [Next]_vars => Base'
  <1> SUFFICES ASSUME Base, [Next]_vars PROVE Base'
    OBVIOUS
  <1>1. TypeInv'
    BY TypeInvStep DEF Base
  <1>2. CASE Flush
    BY <1>1, <1>2, PhasesFlush DEF Base, TypeInv, TypeOK, Flush
  <1>3. CASE Crash
    <2>1. \A i \in 1..Len(Tables) : batch'[Tables[i]] = <<>>
      BY <1>3, FiveTables DEF Crash, WriterCrash, Empty
    <2>2. flusher'.pc = "drain" /\ flusher'.at = 1
      BY <1>3 DEF Crash, WriterCrash, Start
    <2>3. Phases'
      BY <2>1, <2>2 DEF Phases
    <2> QED
      BY <1>1, <2>3 DEF Base
  <1>4. CASE UNCHANGED flushVars
    <2>1. Phases'
      BY <1>4 DEF Base, Phases, flushVars
    <2> QED
      BY <1>1, <2>1 DEF Base
  <1> QED
    BY <1>2, <1>3, <1>4 DEF Next, WriterStep, Decide, Accept, RefuseUnlogged, Fill, DecideRepeat,
       DecideConflict, DecideCreate, Evict, Answer, EnqueueRow, FinishUnanswered, ReplayNext,
       StartServing, writerVars, vars

\* Rows that leave a line leave its other rows in their order.
LEMMA Shrunk ==
  ASSUME WriterTypeOK, NEW t \in Names, NEW n \in 0..Len(Line(t)),
         Line(t)' = SubSeq(Line(t), n + 1, Len(Line(t)))
  PROVE  /\ Len(Line(t)') = Len(Line(t)) - n
         /\ Len(Line(t)) \in Nat
         /\ \A i \in 1..Len(Line(t)') : n + i \in 1..Len(Line(t)) /\ Line(t)'[i] = Line(t)[n + i]
  <1>1. Line(t) \in Seq(Rows[t])
    BY LineRows
  <1> DEFINE s == Line(t)
  <1>2. s \in Seq(Rows[t]) /\ n \in 0..Len(s) /\ Len(s) \in Nat
    BY <1>1
  <1>3. Line(t)' = SubSeq(s, n + 1, Len(s))
    OBVIOUS
  <1> HIDE DEF s
  <1>4. /\ Len(SubSeq(s, n + 1, Len(s))) = Len(s) - n
        /\ \A i \in 1..(Len(s) - n) : SubSeq(s, n + 1, Len(s))[i] = s[n + i]
    BY <1>2, CutSeq
  <1>5. \A i \in 1..(Len(s) - n) : n + i \in 1..Len(s)
    BY <1>2
  <1>6. /\ Len(Line(t)') = Len(s) - n
        /\ \A i \in 1..Len(Line(t)') : n + i \in 1..Len(s) /\ Line(t)'[i] = s[n + i]
    BY <1>3, <1>4, <1>5
  <1> QED
    BY <1>2, <1>6 DEF s

\* The rows that are committed are the first of their line.
LEMMA TakenRows ==
  ASSUME WriterTypeOK, NEW b, NextRows(b), NEW t \in Names
  PROVE  \E n \in 0..Len(Line(t)) :
            /\ b[t] \in Seq(Rows[t]) /\ Len(b[t]) = n
            /\ \A i \in 1..n : b[t][i] = Line(t)[i] /\ i \in 1..Len(Line(t))
            /\ Len(Line(t)') = Len(Line(t)) - n /\ Len(Line(t)) \in Nat
            /\ \A i \in 1..Len(Line(t)') : n + i \in 1..Len(Line(t)) /\ Line(t)'[i] = Line(t)[n + i]
  <1>1. PICK n \in 0..Len(Line(t)) : /\ b[t] = SubSeq(Line(t), 1, n)
                                     /\ Line(t)' = SubSeq(Line(t), n + 1, Len(Line(t)))
    BY DEF NextRows, Written1
  <1>2. /\ Len(Line(t)') = Len(Line(t)) - n /\ Len(Line(t)) \in Nat
        /\ \A i \in 1..Len(Line(t)') : n + i \in 1..Len(Line(t)) /\ Line(t)'[i] = Line(t)[n + i]
    BY <1>1, Shrunk
  <1>3. Line(t) \in Seq(Rows[t])
    BY LineRows
  <1> DEFINE s == Line(t)
  <1>4. s \in Seq(Rows[t]) /\ n \in 0..Len(s) /\ Len(s) \in Nat /\ b[t] = SubSeq(s, 1, n)
    BY <1>1, <1>2, <1>3
  <1> HIDE DEF s
  <1>5. /\ SubSeq(s, 1, n) \in Seq(Rows[t]) /\ Len(SubSeq(s, 1, n)) = n
        /\ \A i \in 1..n : SubSeq(s, 1, n)[i] = s[i]
    BY <1>4, CutSeq
  <1>6. \A i \in 1..n : i \in 1..Len(s)
    BY <1>4
  <1>7. /\ b[t] \in Seq(Rows[t]) /\ Len(b[t]) = n
        /\ \A i \in 1..n : b[t][i] = s[i] /\ i \in 1..Len(s)
    BY <1>4, <1>5, <1>6
  <1> QED
    BY <1>1, <1>2, <1>7 DEF s

\* Every flush takes rows from the front of the lines only.
LEMMA FlushShrinks ==
  ASSUME WriterTypeOK, Flushed, NEW t \in Names
  PROVE  \E n \in 0..Len(Line(t)) :
            /\ Len(Line(t)') = Len(Line(t)) - n /\ Len(Line(t)) \in Nat
            /\ \A i \in 1..Len(Line(t)') : n + i \in 1..Len(Line(t)) /\ Line(t)'[i] = Line(t)[n + i]
  <1>0. Line(t) \in Seq(Rows[t]) /\ Len(Line(t)) \in Nat
    BY LineRows, LenProperties
  <1>1. CASE Line(t)' = Line(t)
    <2>1. 0 \in 0..Len(Line(t)) /\ \A i \in 1..Len(Line(t)) : 0 + i = i /\ 0 + i \in 1..Len(Line(t))
      BY <1>0
    <2>2. Len(Line(t)') = Len(Line(t)) - 0
      BY <1>0, <1>1
    <2> QED
      BY <1>0, <1>1, <2>1, <2>2
  <1>2. CASE Line(t)' = SubSeq(Line(t), 2, Len(Line(t))) /\ Line(t) # <<>>
    <2>1. Len(Line(t)) # 0
      BY <1>0, <1>2
    <2>2. 1 \in 0..Len(Line(t)) /\ 1 + 1 = 2
      BY <1>0, <2>1
    <2>3. Line(t)' = SubSeq(Line(t), 1 + 1, Len(Line(t)))
      BY <1>2, <2>2
    <2> QED
      BY <2>2, <2>3, Shrunk
  <1>3. CASE Committed
    BY <1>3, TakenRows DEF Committed
  <1> QED
    BY <1>1, <1>2, <1>3 DEF Flushed, Moved, GivenUp

\* What is new in a table was among the rows that the flush took.
LEMMA NewInTable ==
  ASSUME WriterTypeOK, Flushed, NEW t \in {"order", "processed", "execution"}, NEW key,
         t = "order" => key \in Orders, t = "processed" => key \in Commands,
         InTable(t, key)'
  PROVE  \/ InTable(t, key)
         \/ \E n \in 0..Len(Line(t)) :
               /\ Len(Line(t)') = Len(Line(t)) - n /\ Len(Line(t)) \in Nat
               /\ \A i \in 1..Len(Line(t)') : n + i \in 1..Len(Line(t)) /\ Line(t)'[i] = Line(t)[n + i]
               /\ \E i \in 1..n : i \in 1..Len(Line(t)) /\ Key(t, Line(t)[i]) = key
  <1>0. t \in Names
    BY FiveTables
  <1>1. CASE UNCHANGED database
    BY <1>1 DEF InTable, database
  <1>2. CASE Committed
    <2>1. PICK b : Batch(b) /\ NextRows(b) /\ Commit(b)
      BY <1>2 DEF Committed
    <2>2. PICK n \in 0..Len(Line(t)) :
            /\ b[t] \in Seq(Rows[t]) /\ Len(b[t]) = n
            /\ \A i \in 1..n : b[t][i] = Line(t)[i] /\ i \in 1..Len(Line(t))
            /\ Len(Line(t)') = Len(Line(t)) - n /\ Len(Line(t)) \in Nat
            /\ \A i \in 1..Len(Line(t)') : n + i \in 1..Len(Line(t)) /\ Line(t)'[i] = Line(t)[n + i]
      BY <1>0, <2>1, TakenRows
    <2>3. ASSUME \E i \in 1..Len(b[t]) : Key(t, b[t][i]) = key
          PROVE  \E i \in 1..n : i \in 1..Len(Line(t)) /\ Key(t, Line(t)[i]) = key
      BY <2>2, <2>3
    <2>4. CASE t = "order"
      <3>1. orders' = [o \in Orders |-> OrderWritten(b["order"], o)]
        BY <2>1 DEF Commit
      <3>2. About(b["order"], key) = {} => orders'[key] = orders[key]
        BY <2>4, <3>1 DEF OrderWritten
      <3>3. About(b["order"], key) # {} => \E i \in 1..Len(b[t]) : Key(t, b[t][i]) = key
        BY <2>4 DEF About, Key
      <3> QED
        BY <2>2, <2>3, <2>4, <3>2, <3>3 DEF InTable
    <2>5. CASE t = "processed"
      <3>1. processed[key] = <<>> /\ About(b["processed"], key) = {} => processed'[key] = processed[key]
        BY <2>1, <2>5 DEF Commit
      <3>2. About(b["processed"], key) # {} => \E i \in 1..Len(b[t]) : Key(t, b[t][i]) = key
        BY <2>5 DEF About, Key
      <3> QED
        BY <2>2, <2>3, <2>5, <3>1, <3>2 DEF InTable
    <2>6. CASE t = "execution"
      <3>1. executions' = executions \cup {row.says : row \in RowsIn(b["execution"])}
        BY <2>1 DEF Commit
      <3>2. key \in {row.says : row \in RowsIn(b["execution"])} => \E i \in 1..Len(b[t]) : Key(t, b[t][i]) = key
        BY <2>6 DEF RowsIn, Key
      <3> QED
        BY <2>2, <2>3, <2>6, <3>1, <3>2 DEF InTable
    <2> QED
      BY <2>4, <2>5, <2>6
  <1> QED
    BY <1>1, <1>2 DEF Flushed

LEMMA RowInvInit == Init => RowInv
  <1> SUFFICES ASSUME Init PROVE RowInv
    OBVIOUS
  <1>1. \A t \in Names : Line(t) = <<>>
    <2>1. \A t \in Names : batch[t] = <<>> /\ queue[t] = <<>>
      BY DEF Init, WriterInit, Empty
    <2>2. <<>> \o <<>> = <<>>
      BY EmptySeq, ConcatEmptySeq
    <2> QED
      BY <2>1, <2>2 DEF Line
  <1>2. writer.rows = <<>>
    BY DEF Init, Idle
  <1>3. "processed" \in Names /\ "execution" \in Names
    BY FiveTables
  <1>4. /\ \A o \in Orders : orders[o] = Absent /\ live[o] = NotLive
        /\ \A k \in Commands : processed[k] = <<>> /\ results[k] = <<>>
        /\ executions = {}
    BY DEF Init, WriterInit
  <1>5. Len(<<>>) = 0 /\ 1..0 = {}
    OBVIOUS
  <1> QED
    BY <1>1, <1>2, <1>3, <1>4, <1>5 DEF RowInv, Known, OneRowPerTable, Unique

\* A key that the index does not know is in no table and on its way to none.
LEMMA NewKey ==
  ASSUME Base, RowInv, ready, NEW t \in {"order", "processed", "execution"}, NEW key, key \notin seen,
         t = "order" => key \in Orders, t = "processed" => key \in Commands
  PROVE  /\ ~InTable(t, key)
         /\ \A i \in 1..Len(Line(t)) : Key(t, Line(t)[i]) # key
  <1>1. t \in Names
    BY FiveTables
  <1> QED
    BY <1>1 DEF RowInv, Known, InTable

\* The writer thread comes up with rows whose keys are new.
LEMMA NewRows ==
  ASSUME Base, RowInv, ready, ready',
         writer'.rows \in Seq(ToQueue),
         seen \subseteq seen',
         \A i \in 1..Len(writer'.rows) : Key(writer'.rows[i][1], writer'.rows[i][2]) \in seen',
         \A i \in 1..Len(writer'.rows) : writer'.rows[i][1] \in {"processed", "execution"}
             => Key(writer'.rows[i][1], writer'.rows[i][2]) \notin seen,
         \A i, j \in 1..Len(writer'.rows) : writer'.rows[i][1] = writer'.rows[j][1] => i = j,
         \A t \in Names : Line(t)' = Line(t),
         UNCHANGED <<orders, processed, executions>>,
         \A o \in Orders : live'[o] # NotLive => live[o] # NotLive \/ o \in seen',
         \A k \in Commands : results'[k] # <<>> => results[k] # <<>> \/ k \in seen'
  PROVE  RowInv'
  <1>1. Known'
    BY DEF RowInv, Known
  <1>2. OneRowPerTable'
    BY DEF OneRowPerTable
  <1>3. ASSUME NEW t \in {"processed", "execution"}
        PROVE  Unique(t)'
    <2>1. t \in Names /\ Line(t)' = Line(t)
      BY FiveTables
    <2>2. Unique(t) /\ \A key : InTable(t, key)' <=> InTable(t, key)
      BY <1>3 DEF RowInv, InTable
    <2>3. ASSUME NEW i \in 1..Len(writer'.rows), writer'.rows[i][1] = t
          PROVE  /\ ~InTable(t, Key(t, writer'.rows[i][2]))
                 /\ \A j \in 1..Len(Line(t)) : Key(t, Line(t)[j]) # Key(t, writer'.rows[i][2])
      <3>1. Key(t, writer'.rows[i][2]) \notin seen
        BY <1>3, <2>3
      <3>2. t = "processed" => Key(t, writer'.rows[i][2]) \in Commands
        <4>1. writer'.rows[i] \in ToQueue
          BY <2>3
        <4>2. writer'.rows[i][2] \in Rows[t]
          BY <2>3, <4>1, QueuedRow
        <4>3. t = "processed" => writer'.rows[i][2] \in [id : Commands, says : Results]
          BY <4>2, RowsOfEach
        <4>4. t = "processed" => Key(t, writer'.rows[i][2]) = writer'.rows[i][2].id
          BY DEF Key
        <4> QED
          BY <4>3, <4>4
      <3>3. t # "order" /\ t \in {"order", "processed", "execution"}
        BY <1>3
      <3> DEFINE key == Key(t, writer'.rows[i][2])
      <3>4. key \notin seen /\ (t = "order" => key \in Orders) /\ (t = "processed" => key \in Commands)
        BY <3>1, <3>2, <3>3
      <3> HIDE DEF key
      <3>5. /\ ~InTable(t, key)
            /\ \A j \in 1..Len(Line(t)) : Key(t, Line(t)[j]) # key
        BY <3>3, <3>4, NewKey
      <3> QED
        BY <3>5 DEF key
    <2> QED
      BY <2>1, <2>2, <2>3 DEF Unique
  <1> QED
    BY <1>1, <1>2, <1>3 DEF RowInv

LEMMA RowInvQuiet == ASSUME Base, RowInv, Quiet PROVE RowInv'
  <1>1. "processed" \in Names /\ "execution" \in Names
    BY FiveTables
  <1>a. /\ \A t \in Names : Line(t)' = Line(t)
        /\ UNCHANGED <<orders, processed, executions, live, seen, ready>>
        /\ \A k \in Commands : results'[k] # <<>> => results[k] # <<>>
    BY DEF Quiet
  <1>b. \A t, key : InTable(t, key)' <=> InTable(t, key)
    BY <1>a DEF InTable
  <1>2. writer'.rows = writer.rows
    BY DEF Quiet
  <1>3. Known'
    BY <1>a, <1>2 DEF RowInv, Known
  <1>4. OneRowPerTable'
    BY <1>2 DEF RowInv, OneRowPerTable
  <1>5. Unique("processed")'
    BY <1>1, <1>a, <1>b, <1>2 DEF RowInv, Unique
  <1>6. Unique("execution")'
    BY <1>1, <1>a, <1>b, <1>2 DEF RowInv, Unique
  <1> QED
    BY <1>3, <1>4, <1>5, <1>6 DEF RowInv

LEMMA RowInvHanded == ASSUME Base, RowInv, Handed PROVE RowInv'
  <1> DEFINE r == writer.rows
  <1>0. PICK t \in Names : \E row :
           /\ row \in Rows[t] /\ r[1] = <<t, row>>
           /\ Line(t)' = Append(Line(t), row)
           /\ \A u \in Names \ {t} : Line(u)' = Line(u)
    BY DEF Handed
  <1>1. PICK row :
           /\ row \in Rows[t] /\ r[1] = <<t, row>>
           /\ Line(t)' = Append(Line(t), row)
           /\ \A u \in Names \ {t} : Line(u)' = Line(u)
    BY <1>0
  <1>2. /\ r # <<>> /\ writer'.rows = Tail(r)
        /\ UNCHANGED <<orders, processed, executions, live, results, seen, ready>>
    BY DEF Handed
  <1>3. r \in Seq(ToQueue)
    BY DEF Base, TypeInv, TypeOK
  <1>4. /\ Len(r) \in Nat /\ Len(Tail(r)) = Len(r) - 1 /\ 1 \in 1..Len(r)
        /\ \A i \in 1..Len(Tail(r)) : Tail(r)[i] = r[i + 1] /\ i + 1 \in 1..Len(r) /\ i + 1 # 1
    <2> HIDE DEF r
    <2>1. Len(r) \in Nat /\ Len(Tail(r)) = Len(r) - 1 /\ Len(r) # 0
      BY <1>2, <1>3
    <2>2. \A i \in 1..Len(Tail(r)) : Tail(r)[i] = r[i + 1]
      BY <1>2, <1>3, HeadTailProperties
    <2> QED
      BY <2>1, <2>2
  <1>5. /\ Len(Line(t)') = Len(Line(t)) + 1 /\ Len(Line(t)) \in Nat
        /\ \A i \in 1..Len(Line(t)) : Line(t)'[i] = Line(t)[i]
        /\ Line(t)'[Len(Line(t)) + 1] = row
    <2>1. Line(t) \in Seq(Rows[t])
      BY <1>1, LineRows DEF Base, TypeInv, TypeOK
    <2> QED
      BY <1>1, <2>1, AppendProperties, LenProperties
  <1>6. ready
    BY <1>2 DEF RowInv, Known
  <1>7. Known'
    <2>1. Key(t, row) \in seen
      <3>1. Key(r[1][1], r[1][2]) \in seen
        BY <1>4 DEF RowInv, Known
      <3> QED
        BY <1>1, <3>1
    <2>2. \A u \in Names : \A i \in 1..Len(Line(u)') : Key(u, Line(u)'[i]) \in seen
      <3> SUFFICES ASSUME NEW u \in Names, NEW i \in 1..Len(Line(u)') PROVE Key(u, Line(u)'[i]) \in seen
        OBVIOUS
      <3>1. CASE u # t
        BY <1>1, <3>1 DEF RowInv, Known
      <3>2. CASE u = t /\ i = Len(Line(t)) + 1
        BY <1>5, <2>1, <3>2
      <3>3. CASE u = t /\ i \in 1..Len(Line(t))
        BY <1>5, <3>3 DEF RowInv, Known
      <3> QED
        BY <1>5, <3>1, <3>2, <3>3
    <2>3. \A i \in 1..Len(Tail(r)) : Key(Tail(r)[i][1], Tail(r)[i][2]) \in seen
      BY <1>4 DEF RowInv, Known
    <2> QED
      BY <1>2, <1>6, <2>2, <2>3 DEF RowInv, Known
  <1>8. OneRowPerTable'
    <2>1. ASSUME NEW i \in 1..Len(Tail(r)), NEW j \in 1..Len(Tail(r)), Tail(r)[i][1] = Tail(r)[j][1]
          PROVE  i = j
      <3>1. i + 1 = j + 1
        BY <1>4, <2>1 DEF RowInv, OneRowPerTable
      <3> QED
        BY <3>1
    <2> QED
      BY <1>2, <2>1 DEF OneRowPerTable
  <1>9. ASSUME NEW u \in {"processed", "execution"}
        PROVE  Unique(u)'
    <2>0. u \in Names /\ Unique(u) /\ \A key : InTable(u, key)' <=> InTable(u, key)
      BY <1>2, <1>9, FiveTables DEF RowInv, InTable
    <2>1. ASSUME NEW i \in 1..Len(Tail(r)), Tail(r)[i][1] = u
          PROVE  /\ r[1][1] # u
                 /\ ~InTable(u, Key(u, Tail(r)[i][2]))
                 /\ \A j \in 1..Len(Line(u)) : Key(u, Line(u)[j]) # Key(u, Tail(r)[i][2])
      <3>1. i + 1 \in 1..Len(r) /\ r[i + 1][1] = u /\ i + 1 # 1 /\ Tail(r)[i] = r[i + 1]
        BY <1>4, <2>1
      <3>2. r[1][1] # u
        BY <1>4, <3>1 DEF RowInv, OneRowPerTable
      <3> QED
        BY <2>0, <3>1, <3>2 DEF Unique
    <2>2. CASE u # t
      <3>1. Line(u)' = Line(u)
        BY <1>1, <2>0, <2>2
      <3> QED
        BY <1>2, <2>0, <2>1, <3>1 DEF Unique
    <2>3. CASE u = t
      <3>1. \A i \in 1..Len(Tail(r)) : Tail(r)[i][1] # u
        <4>1. r[1][1] = u
          BY <1>1, <2>3
        <4> QED
          BY <2>1, <4>1
      <3>2. /\ ~InTable(u, Key(u, row))
            /\ \A j \in 1..Len(Line(u)) : Key(u, Line(u)[j]) # Key(u, row)
        <4>1. r[1][1] = u /\ r[1][2] = row
          BY <1>1, <2>3
        <4> QED
          BY <1>4, <2>0, <4>1 DEF Unique
      <3>3. \A i \in 1..Len(Line(u)') : ~InTable(u, Key(u, Line(u)'[i]))
        BY <1>5, <2>0, <2>3, <3>2 DEF Unique
      <3>4. ASSUME NEW i \in 1..Len(Line(u)'), NEW j \in 1..Len(Line(u)'),
                   Key(u, Line(u)'[i]) = Key(u, Line(u)'[j])
            PROVE  i = j
        <4>1. CASE i \in 1..Len(Line(u)) /\ j \in 1..Len(Line(u))
          BY <1>5, <2>0, <2>3, <3>4, <4>1 DEF Unique
        <4>2. CASE i = Len(Line(u)) + 1 /\ j \in 1..Len(Line(u))
          BY <1>5, <2>3, <3>2, <3>4, <4>2
        <4>3. CASE j = Len(Line(u)) + 1 /\ i \in 1..Len(Line(u))
          BY <1>5, <2>3, <3>2, <3>4, <4>3
        <4> QED
          BY <1>5, <2>3, <4>1, <4>2, <4>3
      <3> QED
        BY <1>2, <2>0, <3>1, <3>3, <3>4 DEF Unique
    <2> QED
      BY <2>2, <2>3
  <1> QED
    BY <1>7, <1>8, <1>9 DEF RowInv

\* The lines are sequences of rows after the step too.
LEMMA LineRowsNext ==
  ASSUME WriterTypeOK', NEW t \in Names
  PROVE  Line(t)' \in Seq(Rows[t])
  <1>1. batch'[t] \in Seq(Rows[t]) /\ queue'[t] \in Seq(Rows[t])
    BY DEF WriterTypeOK
  <1> QED
    BY <1>1, ConcatProperties DEF Line

LEMMA RowInvFlushed == ASSUME Base, Base', RowInv, Flushed PROVE RowInv'
  <1>0. WriterTypeOK
    BY DEF Base, TypeInv, TypeOK
  <1>1. UNCHANGED <<writer, live, results, seen, ready>>
    BY DEF Flushed
  <1>2. \A t \in Names : \E n \in 0..Len(Line(t)) :
            /\ Len(Line(t)') = Len(Line(t)) - n /\ Len(Line(t)) \in Nat
            /\ \A i \in 1..Len(Line(t)') : n + i \in 1..Len(Line(t)) /\ Line(t)'[i] = Line(t)[n + i]
    BY <1>0, FlushShrinks
  <1>3. {"order", "processed", "execution"} \subseteq Names
    BY FiveTables
  \* What is new in a table was known, and is not among the rows left.
  <1>4. ASSUME NEW t \in {"order", "processed", "execution"}, NEW key,
               t = "order" => key \in Orders, t = "processed" => key \in Commands,
               InTable(t, key)', ~InTable(t, key)
        PROVE  /\ key \in seen
               /\ \E n \in 0..Len(Line(t)) :
                    /\ Len(Line(t)') = Len(Line(t)) - n /\ Len(Line(t)) \in Nat
                    /\ \A i \in 1..Len(Line(t)') : n + i \in 1..Len(Line(t)) /\ Line(t)'[i] = Line(t)[n + i]
                    /\ \E i \in 1..n : i \in 1..Len(Line(t)) /\ Key(t, Line(t)[i]) = key
    <2>1. PICK n \in 0..Len(Line(t)) :
             /\ Len(Line(t)') = Len(Line(t)) - n /\ Len(Line(t)) \in Nat
             /\ \A i \in 1..Len(Line(t)') : n + i \in 1..Len(Line(t)) /\ Line(t)'[i] = Line(t)[n + i]
             /\ \E i \in 1..n : i \in 1..Len(Line(t)) /\ Key(t, Line(t)[i]) = key
      BY <1>0, <1>4, NewInTable
    <2>2. key \in seen
      BY <1>3, <2>1 DEF RowInv, Known
    <2> QED
      BY <2>1, <2>2
  <1>5. Known'
    <2>1. \A t \in Names : \A i \in 1..Len(Line(t)') : Key(t, Line(t)'[i]) \in seen
      BY <1>2 DEF RowInv, Known
    <2>2. ~ready => \A t \in Names : Line(t)' = <<>>
      <3> SUFFICES ASSUME ~ready, NEW t \in Names PROVE Line(t)' = <<>>
        OBVIOUS
      <3>1. Line(t) = <<>> /\ Len(Line(t)) = 0
        BY DEF RowInv, Known
      <3>2. Len(Line(t)') = 0
        <4>1. PICK n \in 0..Len(Line(t)) : Len(Line(t)') = Len(Line(t)) - n
          BY <1>2
        <4>2. n = 0
          BY <3>1, <4>1
        <4> QED
          BY <3>1, <4>1, <4>2
      <3>3. Line(t)' \in Seq(Rows[t])
        <4>1. WriterTypeOK'
          BY DEF Base, TypeInv, TypeOK
        <4> QED
          BY <4>1, LineRowsNext
      <3> QED
        BY <3>2, <3>3
    <2>3. ASSUME NEW o \in Orders, orders'[o] # Absent, ready PROVE o \in seen
      <3>1. InTable("order", o)'
        BY <2>3 DEF InTable
      <3>2. InTable("order", o) => o \in seen
        BY <2>3 DEF InTable, RowInv, Known
      <3> QED
        BY <1>4, <3>1, <3>2
    <2>4. ASSUME NEW k \in Commands, processed'[k] # <<>>, ready PROVE k \in seen
      <3>1. InTable("processed", k)'
        BY <2>4 DEF InTable
      <3>2. InTable("processed", k) => k \in seen
        BY <2>4 DEF InTable, RowInv, Known
      <3> QED
        BY <1>4, <3>1, <3>2
    <2>5. ASSUME NEW f \in executions', ready PROVE f \in seen
      <3>1. InTable("execution", f)'
        BY <2>5 DEF InTable
      <3>2. InTable("execution", f) => f \in seen
        BY <2>5 DEF InTable, RowInv, Known
      <3> QED
        BY <1>4, <3>1, <3>2
    <2> QED
      BY <1>1, <2>1, <2>2, <2>3, <2>4, <2>5 DEF RowInv, Known
  <1>6. OneRowPerTable'
    BY <1>1 DEF RowInv, OneRowPerTable
  <1>7. ASSUME NEW t \in {"processed", "execution"}
        PROVE  Unique(t)'
    <2>0. t \in Names /\ t \in {"order", "processed", "execution"} /\ t # "order" /\ Unique(t)
      BY <1>3, <1>7 DEF RowInv
    <2>1. PICK n \in 0..Len(Line(t)) :
            /\ Len(Line(t)') = Len(Line(t)) - n /\ Len(Line(t)) \in Nat
            /\ \A i \in 1..Len(Line(t)') : n + i \in 1..Len(Line(t)) /\ Line(t)'[i] = Line(t)[n + i]
      BY <1>2, <2>0
    <2>2. ASSUME NEW i \in 1..Len(Line(t)'), NEW j \in 1..Len(Line(t)'),
                 Key(t, Line(t)'[i]) = Key(t, Line(t)'[j])
          PROVE  i = j
      <3>1. n + i = n + j
        BY <2>0, <2>1, <2>2 DEF Unique
      <3> QED
        BY <2>1, <3>1
    \* The keys of commands are commands.
    <2>3. ASSUME NEW row \in Rows[t]
          PROVE  t = "processed" => Key(t, row) \in Commands
      <3>1. t = "processed" => row \in [id : Commands, says : Results]
        BY <2>3, RowsOfEach
      <3> QED
        BY <3>1 DEF Key
    <2>4. Line(t)' \in Seq(Rows[t])
      <3>1. WriterTypeOK'
        BY DEF Base, TypeInv, TypeOK
      <3> QED
        BY <2>0, <3>1, LineRowsNext
    <2>5. ASSUME NEW i \in 1..Len(Line(t)'), NEW key, key = Key(t, Line(t)'[i])
          PROVE  ~InTable(t, key)'
      <3>1. t = "processed" => key \in Commands
        BY <2>3, <2>4, <2>5
      <3>2. ~InTable(t, key)
        BY <2>0, <2>1, <2>5 DEF Unique
      <3>3. SUFFICES ASSUME InTable(t, key)' PROVE FALSE
        OBVIOUS
      <3>4. PICK m \in 0..Len(Line(t)) :
                    /\ Len(Line(t)') = Len(Line(t)) - m /\ Len(Line(t)) \in Nat
                    /\ \A l \in 1..Len(Line(t)') : m + l \in 1..Len(Line(t)) /\ Line(t)'[l] = Line(t)[m + l]
                    /\ \E l \in 1..m : l \in 1..Len(Line(t)) /\ Key(t, Line(t)[l]) = key
        <4>1. t = "order" => key \in Orders
          BY <2>0
        <4> QED
          BY <1>4, <2>0, <3>1, <3>2, <3>3, <4>1
      <3>5. PICK l \in 1..m : l \in 1..Len(Line(t)) /\ Key(t, Line(t)[l]) = key
        BY <3>4
      <3>6. l = m + i
        BY <2>0, <2>5, <3>4, <3>5 DEF Unique
      <3> QED
        BY <3>4, <3>5, <3>6, <2>5
    <2>6. ASSUME NEW i \in 1..Len(writer.rows), writer.rows[i][1] = t,
                 NEW key, key = Key(t, writer.rows[i][2])
          PROVE  /\ ~InTable(t, key)'
                 /\ \A j \in 1..Len(Line(t)') : Key(t, Line(t)'[j]) # key
      <3>1. t = "processed" => key \in Commands
        <4>1. writer.rows[i] \in ToQueue
          BY <2>6 DEF Base, TypeInv, TypeOK
        <4> QED
          BY <2>3, <2>6, <4>1, QueuedRow
      <3>2. ~InTable(t, key) /\ \A j \in 1..Len(Line(t)) : Key(t, Line(t)[j]) # key
        BY <2>0, <2>6 DEF Unique
      <3>3. ASSUME InTable(t, key)' PROVE FALSE
        <4>1. \E l \in 1..Len(Line(t)) : Key(t, Line(t)[l]) = key
          BY <1>4, <2>0, <3>1, <3>2, <3>3
        <4> QED
          BY <3>2, <4>1
      <3> QED
        BY <2>1, <3>2, <3>3
    <2> QED
      BY <1>1, <2>2, <2>5, <2>6 DEF Unique
  <1> QED
    BY <1>5, <1>6, <1>7 DEF RowInv

LEMMA RowInvConflict ==
  ASSUME Base, Base', RowInv, NEW s \in Sending, DecideConflict(s)
  PROVE  RowInv'
  <1> DEFINE k == s.command
             row == Row(k, <<"conflict", s.order>>)
  <1>1. /\ ready /\ ready' /\ k \notin seen /\ seen' = seen \cup {k}
        /\ writer'.rows = <<<<"processed", row>>>>
        /\ results' = [results EXCEPT ![k] = <<"conflict", s.order>>]
        /\ UNCHANGED <<writerVars, live>>
    BY DEF DecideConflict, Decided, IsNew, PossiblySeen, Base, TypeInv, TypeOK
  <1>2. writer'.rows \in Seq(ToQueue)
    BY DEF Base, TypeInv, TypeOK
  <1>3. /\ Len(writer'.rows) = 1 /\ writer'.rows[1][1] = "processed" /\ writer'.rows[1][2] = row
        /\ 1..1 = {1}
    BY <1>1
  <1>4. Key("processed", row) = k
    BY DEF Key, Row
  <1>5. \A i \in 1..Len(writer'.rows) : i = 1 /\ writer'.rows[i][1] = "processed"
             /\ Key(writer'.rows[i][1], writer'.rows[i][2]) = k
    BY <1>3, <1>4
  <1>6. \A t \in Names : Line(t)' = Line(t)
    BY <1>1 DEF Line, writerVars, flushVars
  <1>7. UNCHANGED <<orders, processed, executions>>
    BY <1>1 DEF writerVars, database
  <1>8. \A c \in Commands : results'[c] # <<>> => results[c] # <<>> \/ c \in seen'
    BY <1>1 DEF Base, TypeInv, TypeOK
  <1> HIDE DEF k, row
  <1> QED
    BY <1>1, <1>2, <1>5, <1>6, <1>7, <1>8, NewRows

LEMMA RowInvCreate ==
  ASSUME Base, Base', RowInv, NEW s \in Sending, DecideCreate(s)
  PROVE  RowInv'
  <1> DEFINE k == s.command
             o == s.order
  <1>1. /\ ready /\ ready' /\ k \notin seen /\ o \notin seen /\ seen' = seen \cup {k} \cup {o}
        /\ writer'.rows = RowsOfCreate(s)
        /\ results' = [results EXCEPT ![k] = <<"created", o>>]
        /\ live' = [live EXCEPT ![o] = 0]
        /\ UNCHANGED <<writerVars>>
    BY DEF DecideCreate, Decided, IsNew, PossiblySeen, Base, TypeInv, TypeOK
  <1>2. writer'.rows \in Seq(ToQueue)
    BY DEF Base, TypeInv, TypeOK
  <1>3. /\ Len(writer'.rows) = 4 /\ 1..4 = {1, 2, 3, 4}
        /\ writer'.rows[1] = <<"order", Row(o, 0)>> /\ writer'.rows[2] = <<"event", Row(o, "CREATED")>>
        /\ writer'.rows[3] = <<"processed", Row(k, <<"created", o>>)>>
        /\ writer'.rows[4] = <<"output", Row(o, "CREATED")>>
    BY <1>1 DEF RowsOfCreate
  <1>4. /\ Key("order", Row(o, 0)) = o /\ Key("event", Row(o, "CREATED")) = o
        /\ Key("processed", Row(k, <<"created", o>>)) = k /\ Key("output", Row(o, "CREATED")) = o
    BY DEF Key, Row
  <1>5. /\ \A i \in 1..Len(writer'.rows) : Key(writer'.rows[i][1], writer'.rows[i][2]) \in {k, o}
        /\ \A i \in 1..Len(writer'.rows) : writer'.rows[i][1] \in {"processed", "execution"}
              => Key(writer'.rows[i][1], writer'.rows[i][2]) = k
        /\ \A i, j \in 1..Len(writer'.rows) : writer'.rows[i][1] = writer'.rows[j][1] => i = j
    BY <1>3, <1>4
  <1>6. \A t \in Names : Line(t)' = Line(t)
    BY <1>1 DEF Line, writerVars, flushVars
  <1>7. UNCHANGED <<orders, processed, executions>>
    BY <1>1 DEF writerVars, database
  <1>8. /\ \A c \in Commands : results'[c] # <<>> => results[c] # <<>> \/ c \in seen'
        /\ \A p \in Orders : live'[p] # NotLive => live[p] # NotLive \/ p \in seen'
    BY <1>1 DEF Base, TypeInv, TypeOK
  <1>9. /\ k \notin seen /\ k \in seen' /\ o \in seen' /\ seen \subseteq seen'
    BY <1>1
  <1> HIDE DEF k, o
  <1> QED
    BY <1>1, <1>2, <1>5, <1>6, <1>7, <1>8, <1>9, NewRows

LEMMA RowInvFill ==
  ASSUME Base, Base', RowInv, NEW f \in Fills, Fill(f)
  PROVE  RowInv'
  <1> DEFINE o == OrderOf[f]
             n == live[o] + 1
  <1>1. /\ ready /\ ready' /\ f \notin seen /\ seen' = seen \cup {f}
        /\ live[o] # NotLive /\ writer'.rows = RowsOfFill(f, n)
        /\ live' = [live EXCEPT ![o] = IF n = Size THEN NotLive ELSE n]
        /\ UNCHANGED <<writerVars, results>>
    BY DEF Fill, Idle, PossiblySeen, Base, TypeInv, TypeOK
  <1>2. writer'.rows \in Seq(ToQueue)
    BY DEF Base, TypeInv, TypeOK
  <1>3. /\ Len(writer'.rows) = 3 /\ 1..3 = {1, 2, 3}
        /\ writer'.rows[1] = <<"execution", Row(o, f)>> /\ writer'.rows[2] = <<"order", Row(o, n)>>
        /\ writer'.rows[3] = <<"event", Row(o, "FILL")>>
    BY <1>1 DEF RowsOfFill
  <1>4. /\ Key("execution", Row(o, f)) = f /\ Key("order", Row(o, n)) = o
        /\ Key("event", Row(o, "FILL")) = o
    BY DEF Key, Row
  <1>5. /\ \A i \in 1..Len(writer'.rows) : Key(writer'.rows[i][1], writer'.rows[i][2]) \in {f, o}
        /\ \A i \in 1..Len(writer'.rows) : writer'.rows[i][1] \in {"processed", "execution"}
              => Key(writer'.rows[i][1], writer'.rows[i][2]) = f
        /\ \A i, j \in 1..Len(writer'.rows) : writer'.rows[i][1] = writer'.rows[j][1] => i = j
    BY <1>3, <1>4
  <1>6. \A t \in Names : Line(t)' = Line(t)
    BY <1>1 DEF Line, writerVars, flushVars
  <1>7. UNCHANGED <<orders, processed, executions>>
    BY <1>1 DEF writerVars, database
  <1>8. o \in Orders /\ o \in seen
    BY <1>1, WriterAssumption DEF RowInv, Known
  <1>9. /\ \A c \in Commands : results'[c] # <<>> => results[c] # <<>> \/ c \in seen'
        /\ \A p \in Orders : live'[p] # NotLive => live[p] # NotLive \/ p \in seen'
    BY <1>1, <1>8 DEF Base, TypeInv, TypeOK
  <1>10. /\ f \notin seen /\ f \in seen' /\ o \in seen' /\ seen \subseteq seen'
    BY <1>1, <1>8
  <1> HIDE DEF o, n
  <1> QED
    BY <1>1, <1>2, <1>5, <1>6, <1>7, <1>9, <1>10, NewRows

LEMMA EmptiedLines ==
  ASSUME Crash
  PROVE  \A t \in Names : Line(t)' = <<>>
  <1>1. \A t \in Names : batch'[t] = <<>> /\ queue'[t] = <<>>
    BY DEF Crash, WriterCrash, Empty
  <1>2. <<>> \o <<>> = <<>>
    BY EmptySeq, ConcatEmptySeq
  <1> QED
    BY <1>1, <1>2 DEF Line

LEMMA RowInvCrash == ASSUME Base, Crash PROVE RowInv'
  <1>1. \A t \in Names : Line(t)' = <<>>
    BY EmptiedLines
  <1>2. writer'.rows = <<>>
    BY DEF Crash, Idle
  <1>3. "processed" \in Names /\ "execution" \in Names
    BY FiveTables
  <1>4. /\ UNCHANGED <<orders, processed, executions>>
        /\ \A k \in Commands : results'[k] = <<>>
        /\ live' = LoadedOrders
        /\ ready' => seen' = LoadedIds
    BY DEF Crash, WriterCrash, database
  <1>5. ready' => /\ \A o \in Orders : orders'[o] # Absent \/ live'[o] # NotLive => o \in seen'
                  /\ \A k \in Commands : processed'[k] # <<>> \/ results'[k] # <<>> => k \in seen'
                  /\ executions' \subseteq seen'
    BY <1>4 DEF LoadedOrders, LoadedIds, Absent, NotLive
  <1>6. Len(<<>>) = 0 /\ 1..0 = {}
    OBVIOUS
  <1> QED
    BY <1>1, <1>2, <1>3, <1>5, <1>6 DEF RowInv, Known, OneRowPerTable, Unique

LEMMA RowInvStep == Base /\ RowInv /\ [Next]_vars => RowInv'
  <1> SUFFICES ASSUME Base, RowInv, [Next]_vars PROVE RowInv'
    OBVIOUS
  <1>1. Base'
    BY BaseStep
  <1> QED
    BY <1>1, StepKinds, RowInvQuiet, RowInvHanded, RowInvFlushed, RowInvCrash, RowInvConflict,
       RowInvCreate, RowInvFill

----------------------------------------------------------------------------
(* What the rows of an order say only rises, from the table over the rows  *)
(* on their way to memory; an insert finds no row; and a live order is in  *)
(* the table or on its way there as memory has it.                         *)

OrderLine == Line("order")

\* The order row that the writer thread has yet to queue.
OrderToCome(row) == \E i \in 1..Len(writer.rows) : writer.rows[i] = <<"order", row>>

FirstOnly ==
    /\ \A o \in firstWrites : orders[o] = Absent
    /\ \A row \in Rows["order"] : OrderToCome(row) /\ row.says = 0 =>
          /\ orders[row.id] = Absent
          /\ \A i \in 1..Len(OrderLine) : OrderLine[i].id # row.id

Rising ==
    /\ \A i, j \in 1..Len(OrderLine) : i <= j /\ OrderLine[i].id = OrderLine[j].id
          => OrderLine[i].says <= OrderLine[j].says
    /\ \A i \in 1..Len(OrderLine) :
          /\ orders[OrderLine[i].id] <= OrderLine[i].says
          /\ live[OrderLine[i].id] # NotLive => OrderLine[i].says <= live[OrderLine[i].id]
    /\ \A o \in Orders : live[o] # NotLive => orders[o] <= live[o]
    /\ \A row \in Rows["order"] : OrderToCome(row) =>
          /\ live[row.id] \in {NotLive, row.says}
          /\ orders[row.id] <= row.says
          /\ \A i \in 1..Len(OrderLine) : OrderLine[i].id = row.id => OrderLine[i].says <= row.says

\* Unless an order row was given up, memory is in the table or on its way.
Reaching ==
    dropped \cap {"order"} \X Orders = {} =>
        \A o \in Orders : live[o] # NotLive /\ ~StillToQueue(o) =>
            \/ orders[o] = live[o]
            \/ \E i \in 1..Len(OrderLine) : OrderLine[i].id = o /\ OrderLine[i].says = live[o]

OrderInv == FirstOnly /\ Rising /\ Reaching /\ absorbed = {}

\* The rows of orders are records of an order and a quantity.
LEMMA OrderRowTypes ==
  ASSUME Base
  PROVE  /\ OrderLine \in Seq(Rows["order"]) /\ Len(OrderLine) \in Nat
         /\ \A i \in 1..Len(OrderLine) : /\ OrderLine[i] \in Rows["order"]
                                         /\ OrderLine[i].id \in Orders /\ OrderLine[i].says \in 0..Size
         /\ \A row \in Rows["order"] : row.id \in Orders /\ row.says \in 0..Size
         /\ \A o \in Orders : orders[o] \in Int /\ orders[o] >= -1 /\ live[o] \in Int /\ live[o] >= -1
         /\ Absent = -1 /\ NotLive = -1 /\ Size \in Nat
  <1>1. "order" \in Names
    BY FiveTables
  <1>2. OrderLine \in Seq(Rows["order"]) /\ Len(OrderLine) \in Nat
    BY <1>1, LineRows, LenProperties DEF Base, TypeInv, TypeOK, OrderLine
  <1>3. \A i \in 1..Len(OrderLine) : OrderLine[i] \in Rows["order"]
    BY <1>2
  <1>4. \A row \in Rows["order"] : row.id \in Orders /\ row.says \in 0..Size
    BY RowsOfEach
  <1>5. \A o \in Orders : orders[o] \in Int /\ orders[o] >= -1 /\ live[o] \in Int /\ live[o] >= -1
    BY WriterAssumption DEF Base, TypeInv, TypeOK, WriterTypeOK, Absent, NotLive
  <1> QED
    BY <1>2, <1>3, <1>4, <1>5, WriterAssumption DEF Absent, NotLive

\* A row to come is one to queue for its order.
LEMMA ToComeIsStill ==
  ASSUME Base, NEW o \in Orders
  PROVE  StillToQueue(o) <=> \E row \in Rows["order"] : row.id = o /\ OrderToCome(row)
  <1>1. \A i \in 1..Len(writer.rows) : writer.rows[i] \in ToQueue
    BY DEF Base, TypeInv, TypeOK
  <1>2. ASSUME NEW i \in 1..Len(writer.rows), writer.rows[i][1] = "order"
        PROVE  writer.rows[i][2] \in Rows["order"] /\ writer.rows[i] = <<"order", writer.rows[i][2]>>
    BY <1>1, <1>2, QueuedRow
  <1>3. ASSUME NEW row, NEW i \in 1..Len(writer.rows), writer.rows[i] = <<"order", row>>
        PROVE  writer.rows[i][1] = "order" /\ writer.rows[i][2] = row
    BY <1>3
  <1> QED
    BY <1>2, <1>3 DEF StillToQueue, OrderToCome

LEMMA OrderInvInit == Init => OrderInv
  <1> SUFFICES ASSUME Init PROVE OrderInv
    OBVIOUS
  <1>1. OrderLine = <<>>
    <2>1. batch["order"] = <<>> /\ queue["order"] = <<>>
      BY FiveTables DEF Init, WriterInit, Empty
    <2>2. <<>> \o <<>> = <<>>
      BY EmptySeq, ConcatEmptySeq
    <2> QED
      BY <2>1, <2>2 DEF OrderLine, Line
  <1>2. Len(OrderLine) = 0 /\ 1..0 = {} /\ Len(writer.rows) = 0
    BY <1>1 DEF Init, Idle
  <1>3. /\ \A o \in Orders : live[o] = NotLive
        /\ firstWrites = {} /\ absorbed = {}
    BY DEF Init, WriterInit
  <1> QED
    BY <1>2, <1>3 DEF OrderInv, FirstOnly, Rising, Reaching, OrderToCome

\* An invariant of the orders that are live gives what the checked invariant says.
LEMMA ReachingIsMatching == Base /\ OrderInv => MemoryMatchesRows
  <1> SUFFICES ASSUME Base, OrderInv, dropped \cap {"order"} \X Orders = {},
                      NEW o \in Orders, live[o] # NotLive, ~StillToQueue(o)
               PROVE  Written(o) = live[o]
    BY DEF MemoryMatchesRows
  <1> DEFINE b == batch["order"]  q == queue["order"]
  <1>1. \/ orders[o] = live[o]
        \/ \E i \in 1..Len(OrderLine) : OrderLine[i].id = o /\ OrderLine[i].says = live[o]
    BY DEF OrderInv, Reaching
  <1>2. b \in Seq(Rows["order"]) /\ q \in Seq(Rows["order"])
    BY FiveTables DEF Base, TypeInv, TypeOK, WriterTypeOK
  <1>3. /\ Len(OrderLine) = Len(b) + Len(q) /\ Len(b) \in Nat /\ Len(q) \in Nat
        /\ \A i \in 1..Len(b) : OrderLine[i] = b[i]
        /\ \A i \in 1..Len(q) : OrderLine[Len(b) + i] = q[i]
    BY FiveTables, LineRows DEF OrderLine, Base, TypeInv, TypeOK
  <1> HIDE DEF b, q
  \* The last row of the line says what memory says.
  <1>4. ASSUME NEW m \in 1..Len(OrderLine), OrderLine[m].id = o,
               \A i \in 1..Len(OrderLine) : OrderLine[i].id = o => i <= m
        PROVE  OrderLine[m].says = live[o]
    <2>1. OrderLine[m].says <= live[o] /\ orders[o] <= OrderLine[m].says
      BY <1>4 DEF OrderInv, Rising
    <2>2. CASE orders[o] = live[o]
      BY <2>1, <2>2, OrderRowTypes
    <2>3. CASE \E i \in 1..Len(OrderLine) : OrderLine[i].id = o /\ OrderLine[i].says = live[o]
      <3>1. PICK i \in 1..Len(OrderLine) : OrderLine[i].id = o /\ OrderLine[i].says = live[o]
        BY <2>3
      <3>2. live[o] <= OrderLine[m].says
        BY <1>4, <3>1 DEF OrderInv, Rising
      <3> QED
        BY <2>1, <3>2, OrderRowTypes
    <2> QED
      BY <1>1, <2>2, <2>3
  <1>5. CASE About(q, o) # {}
    <2> DEFINE m == Max(About(q, o))
    <2>1. /\ m \in 1..Len(q) /\ q[m].id = o /\ \A i \in About(q, o) : i <= m
      BY <1>2, <1>5, PlacesOfRows
    <2> HIDE DEF m
    <2>2. /\ Len(b) + m \in 1..Len(OrderLine) /\ OrderLine[Len(b) + m] = q[m]
      BY <1>3, <2>1
    <2>3. ASSUME NEW i \in 1..Len(OrderLine), OrderLine[i].id = o
          PROVE  i <= Len(b) + m
      <3>1. CASE i <= Len(b)
        BY <1>3, <2>1, <3>1
      <3>2. CASE i > Len(b)
        <4>1. i - Len(b) \in 1..Len(q) /\ Len(b) + (i - Len(b)) = i
          BY <1>3, <3>2
        <4>2. OrderLine[Len(b) + (i - Len(b))] = q[i - Len(b)]
          BY <1>3, <4>1
        <4>3. i - Len(b) \in About(q, o)
          BY <2>3, <4>1, <4>2 DEF About
        <4>4. i - Len(b) <= m
          BY <2>1, <4>3
        <4> QED
          BY <1>3, <2>1, <4>1, <4>4
      <3> QED
        BY <1>3, <3>1, <3>2
    <2>4. q[m].says = live[o]
      BY <1>4, <2>1, <2>2, <2>3
    <2> QED
      BY <1>5, <2>4 DEF Written, Newest, q, m
  <1>6. CASE About(q, o) = {} /\ About(b, o) # {}
    <2> DEFINE m == Max(About(b, o))
    <2>1. /\ m \in 1..Len(b) /\ b[m].id = o /\ \A i \in About(b, o) : i <= m
      BY <1>2, <1>6, PlacesOfRows
    <2> HIDE DEF m
    <2>2. /\ m \in 1..Len(OrderLine) /\ OrderLine[m] = b[m]
      BY <1>3, <2>1
    <2>3. ASSUME NEW i \in 1..Len(OrderLine), OrderLine[i].id = o
          PROVE  i <= m
      <3>1. CASE i <= Len(b)
        <4>1. i \in About(b, o)
          BY <1>3, <2>3, <3>1 DEF About
        <4> QED
          BY <2>1, <4>1
      <3>2. CASE i > Len(b)
        <4>1. i - Len(b) \in 1..Len(q) /\ Len(b) + (i - Len(b)) = i
          BY <1>3, <3>2
        <4>2. OrderLine[Len(b) + (i - Len(b))] = q[i - Len(b)]
          BY <1>3, <4>1
        <4>3. i - Len(b) \in About(q, o)
          BY <2>3, <4>1, <4>2 DEF About
        <4> QED
          BY <1>6, <4>3
      <3> QED
        BY <1>3, <3>1, <3>2
    <2>4. b[m].says = live[o]
      BY <1>4, <2>1, <2>2, <2>3
    <2> QED
      BY <1>6, <2>4 DEF Written, Newest, b, q, m
  <1>7. CASE About(q, o) = {} /\ About(b, o) = {}
    <2>1. \A i \in 1..Len(OrderLine) : OrderLine[i].id # o
      <3> SUFFICES ASSUME NEW i \in 1..Len(OrderLine), OrderLine[i].id = o PROVE FALSE
        OBVIOUS
      <3>1. CASE i <= Len(b)
        BY <1>3, <1>7, <3>1 DEF About
      <3>2. CASE i > Len(b)
        <4>1. i - Len(b) \in 1..Len(q) /\ Len(b) + (i - Len(b)) = i
          BY <1>3, <3>2
        <4>2. OrderLine[Len(b) + (i - Len(b))] = q[i - Len(b)]
          BY <1>3, <4>1
        <4> QED
          BY <1>7, <4>1, <4>2 DEF About
      <3> QED
        BY <1>3, <3>1, <3>2
    <2>2. orders[o] = live[o]
      BY <1>1, <2>1
    <2> QED
      BY <1>7, <2>2 DEF Written, b, q
  <1> QED
    BY <1>5, <1>6, <1>7

----------------------------------------------------------------------------
(* What the steps do to the rows of the orders.                            *)

\* A step that leaves the order rows and memory alone.
LEMMA OrderInvSame ==
  ASSUME OrderInv, OrderLine' = OrderLine, UNCHANGED <<orders, live, absorbed>>,
         firstWrites' \subseteq firstWrites, dropped \subseteq dropped',
         \A row \in Rows["order"] : OrderToCome(row)' => OrderToCome(row),
         \A o \in Orders : StillToQueue(o) => StillToQueue(o)'
  PROVE  OrderInv'
  <1>1. FirstOnly'
    BY DEF OrderInv, FirstOnly
  <1>2. Rising'
    BY DEF OrderInv, Rising
  <1>3. Reaching'
    <2> SUFFICES ASSUME dropped' \cap {"order"} \X Orders = {},
                        NEW o \in Orders, live'[o] # NotLive, ~StillToQueue(o)'
                 PROVE  \/ orders'[o] = live'[o]
                        \/ \E i \in 1..Len(OrderLine') : OrderLine'[i].id = o /\ OrderLine'[i].says = live'[o]
      BY DEF Reaching
    <2>1. dropped \cap {"order"} \X Orders = {}
      OBVIOUS
    <2> QED
      BY <2>1 DEF OrderInv, Reaching
  <1> QED
    BY <1>1, <1>2, <1>3 DEF OrderInv

\* The row handed over was the first to queue; the others stay to be queued.
LEMMA HandedRows ==
  ASSUME Base, RowInv, Handed
  PROVE  \E t \in Names : \E row \in Rows[t] :
            /\ writer.rows[1] = <<t, row>>
            /\ Line(t)' = Append(Line(t), row)
            /\ \A u \in Names \ {t} : Line(u)' = Line(u)
            /\ firstWrites' = IF t = "order" /\ row.says = 0 THEN firstWrites \cup {row.id} ELSE firstWrites
            /\ Len(writer.rows) \in Nat /\ 1 \in 1..Len(writer.rows)
            /\ Len(writer'.rows) = Len(writer.rows) - 1
            /\ \A i \in 1..Len(writer'.rows) : writer'.rows[i] = writer.rows[i + 1]
                                               /\ i + 1 \in 1..Len(writer.rows) /\ i + 1 # 1
            /\ t = "order" => \A i \in 1..Len(writer'.rows) : writer'.rows[i][1] # "order"
            /\ t # "order" => \A i \in 1..Len(writer.rows) : writer.rows[i][1] = "order"
                  => i - 1 \in 1..Len(writer'.rows) /\ writer'.rows[i - 1] = writer.rows[i]
  <1> DEFINE r == writer.rows
  <1>0. PICK t \in Names : \E row :
           /\ row \in Rows[t] /\ r[1] = <<t, row>>
           /\ Line(t)' = Append(Line(t), row)
           /\ \A u \in Names \ {t} : Line(u)' = Line(u)
           /\ firstWrites' = IF t = "order" /\ row.says = 0 THEN firstWrites \cup {row.id} ELSE firstWrites
    BY DEF Handed
  <1>1. PICK row :
           /\ row \in Rows[t] /\ r[1] = <<t, row>>
           /\ Line(t)' = Append(Line(t), row)
           /\ \A u \in Names \ {t} : Line(u)' = Line(u)
           /\ firstWrites' = IF t = "order" /\ row.says = 0 THEN firstWrites \cup {row.id} ELSE firstWrites
    BY <1>0
  <1>2. /\ r # <<>> /\ writer'.rows = Tail(r) /\ r \in Seq(ToQueue)
    BY DEF Handed, Base, TypeInv, TypeOK
  <1>3. /\ Len(r) \in Nat /\ Len(Tail(r)) = Len(r) - 1 /\ 1 \in 1..Len(r)
        /\ \A i \in 1..Len(Tail(r)) : Tail(r)[i] = r[i + 1] /\ i + 1 \in 1..Len(r) /\ i + 1 # 1
    <2> HIDE DEF r
    <2>1. Len(r) \in Nat /\ Len(Tail(r)) = Len(r) - 1 /\ Len(r) # 0
      BY <1>2
    <2>2. \A i \in 1..Len(Tail(r)) : Tail(r)[i] = r[i + 1]
      BY <1>2, HeadTailProperties
    <2> QED
      BY <2>1, <2>2
  <1>4. ASSUME t = "order", NEW i \in 1..Len(Tail(r))
        PROVE  Tail(r)[i][1] # "order"
    BY <1>1, <1>3, <1>4 DEF RowInv, OneRowPerTable
  <1>5. ASSUME t # "order", NEW i \in 1..Len(r), r[i][1] = "order"
        PROVE  i - 1 \in 1..Len(Tail(r)) /\ Tail(r)[i - 1] = r[i]
    <2>1. i # 1
      BY <1>1, <1>5
    <2>2. i - 1 \in 1..Len(Tail(r)) /\ (i - 1) + 1 = i
      BY <1>3, <2>1
    <2>3. Tail(r)[i - 1] = r[(i - 1) + 1]
      BY <1>3, <2>2
    <2> QED
      BY <2>2, <2>3
  <1> QED
    BY <1>1, <1>2, <1>3, <1>4, <1>5

LEMMA OrderInvHanded == ASSUME Base, RowInv, OrderInv, Handed PROVE OrderInv'
  <1>1. PICK t, row :
            /\ t \in Names /\ row \in Rows[t]
            /\ writer.rows[1] = <<t, row>>
            /\ Line(t)' = Append(Line(t), row)
            /\ \A u \in Names \ {t} : Line(u)' = Line(u)
            /\ firstWrites' = IF t = "order" /\ row.says = 0 THEN firstWrites \cup {row.id} ELSE firstWrites
            /\ Len(writer.rows) \in Nat /\ 1 \in 1..Len(writer.rows)
            /\ Len(writer'.rows) = Len(writer.rows) - 1
            /\ \A i \in 1..Len(writer'.rows) : writer'.rows[i] = writer.rows[i + 1]
                                               /\ i + 1 \in 1..Len(writer.rows) /\ i + 1 # 1
            /\ t = "order" => \A i \in 1..Len(writer'.rows) : writer'.rows[i][1] # "order"
            /\ t # "order" => \A i \in 1..Len(writer.rows) : writer.rows[i][1] = "order"
                  => i - 1 \in 1..Len(writer'.rows) /\ writer'.rows[i - 1] = writer.rows[i]
    BY HandedRows
  <1>2. UNCHANGED <<orders, live, dropped, absorbed>>
    BY DEF Handed
  <1>3. "order" \in Names
    BY FiveTables
  <1>4. CASE t # "order"
    <2>1. OrderLine' = OrderLine
      BY <1>1, <1>3, <1>4 DEF OrderLine
    <2>2. firstWrites' = firstWrites
      BY <1>1, <1>4
    <2>3. \A q \in Rows["order"] : OrderToCome(q)' => OrderToCome(q)
      BY <1>1 DEF OrderToCome
    <2>4. ASSUME NEW o \in Orders, StillToQueue(o) PROVE StillToQueue(o)'
      <3>1. PICK i \in 1..Len(writer.rows) : writer.rows[i][1] = "order" /\ writer.rows[i][2].id = o
        BY <2>4 DEF StillToQueue
      <3>2. i - 1 \in 1..Len(writer'.rows) /\ writer'.rows[i - 1] = writer.rows[i]
        BY <1>1, <1>4, <3>1
      <3> QED
        BY <3>1, <3>2 DEF StillToQueue
    <2> QED
      BY <1>2, <2>1, <2>2, <2>3, <2>4, OrderInvSame
  <1>5. CASE t = "order"
    <2> DEFINE n == Len(OrderLine)
    <2>1. /\ OrderLine' = Append(OrderLine, row) /\ row \in Rows["order"]
          /\ OrderLine \in Seq(Rows["order"])
      BY <1>1, <1>5, OrderRowTypes DEF OrderLine
    <2>2. /\ Len(OrderLine') = n + 1 /\ n \in Nat
          /\ \A i \in 1..n : OrderLine'[i] = OrderLine[i]
          /\ OrderLine'[n + 1] = row
      BY <2>1, AppendProperties, OrderRowTypes
    <2> HIDE DEF n
    <2>3. OrderToCome(row)
      BY <1>1, <1>5 DEF OrderToCome
    <2>4. \A q : ~OrderToCome(q)'
      BY <1>1, <1>5 DEF OrderToCome
    <2>5. /\ live[row.id] \in {NotLive, row.says}
          /\ orders[row.id] <= row.says
          /\ \A i \in 1..n : OrderLine[i].id = row.id => OrderLine[i].says <= row.says
      BY <2>1, <2>3 DEF OrderInv, Rising, n
    <2>6. FirstOnly'
      <3>1. row.says = 0 => orders[row.id] = Absent
        BY <2>1, <2>3 DEF OrderInv, FirstOnly
      <3> QED
        BY <1>1, <1>2, <2>4, <3>1 DEF OrderInv, FirstOnly
    <2>7. Rising'
      <3>1. ASSUME NEW i \in 1..(n + 1), NEW j \in 1..(n + 1), i <= j,
                   OrderLine'[i].id = OrderLine'[j].id
            PROVE  OrderLine'[i].says <= OrderLine'[j].says
        <4>1. CASE i \in 1..n /\ j \in 1..n
          BY <2>2, <3>1, <4>1 DEF OrderInv, Rising, n
        <4>2. CASE i \in 1..n /\ j = n + 1
          BY <2>2, <2>5, <3>1, <4>2
        <4>3. CASE i = n + 1 /\ j = n + 1
          BY <2>1, <2>2, <4>3, OrderRowTypes
        <4> QED
          BY <2>2, <3>1, <4>1, <4>2, <4>3
      <3>2. ASSUME NEW i \in 1..(n + 1)
            PROVE  /\ orders[OrderLine'[i].id] <= OrderLine'[i].says
                   /\ live[OrderLine'[i].id] # NotLive => OrderLine'[i].says <= live[OrderLine'[i].id]
        <4>1. CASE i \in 1..n
          BY <2>2, <4>1 DEF OrderInv, Rising, n
        <4>2. CASE i = n + 1
          <5>1. row.says <= row.says
            BY <2>1, OrderRowTypes
          <5> QED
            BY <2>2, <2>5, <4>2, <5>1
        <4> QED
          BY <2>2, <4>1, <4>2
      <3>3. \A o \in Orders : live[o] # NotLive => orders[o] <= live[o]
        BY DEF OrderInv, Rising
      <3> QED
        BY <1>2, <2>2, <2>4, <3>1, <3>2, <3>3 DEF Rising
    <2>8. Reaching'
      <3> SUFFICES ASSUME dropped \cap {"order"} \X Orders = {},
                          NEW o \in Orders, live[o] # NotLive
                   PROVE  \/ orders[o] = live[o]
                          \/ \E i \in 1..(n + 1) : OrderLine'[i].id = o /\ OrderLine'[i].says = live[o]
        BY <1>2, <2>2 DEF Reaching
      <3>1. CASE row.id = o
        BY <2>2, <2>5, <3>1
      <3>2. CASE row.id # o
        <4>1. ~StillToQueue(o)
          <5> SUFFICES ASSUME NEW i \in 1..Len(writer.rows), writer.rows[i][1] = "order",
                              writer.rows[i][2].id = o
                       PROVE  FALSE
            BY DEF StillToQueue
          <5>1. i = 1
            BY <1>1, <1>5 DEF RowInv, OneRowPerTable
          <5> QED
            BY <1>1, <1>5, <3>2, <5>1
        <4>2. \/ orders[o] = live[o]
              \/ \E i \in 1..n : OrderLine[i].id = o /\ OrderLine[i].says = live[o]
          BY <4>1 DEF OrderInv, Reaching, n
        <4>3. \A i \in 1..n : i \in 1..(n + 1)
          BY <2>2
        <4> QED
          BY <2>2, <4>2, <4>3
      <3> QED
        BY <3>1, <3>2
    <2> QED
      BY <1>2, <2>6, <2>7, <2>8 DEF OrderInv
  <1> QED
    BY <1>4, <1>5

\* What the statements of a batch leave of an order: what its row said, or what the
\* last of its rows in the batch says; an insert always finds the table without it.
LEMMA CommittedOrders ==
  ASSUME Base, OrderInv, NEW b, Batch(b), NextRows(b), Commit(b)
  PROVE  \E n \in 0..Len(OrderLine) :
            /\ b["order"] \in Seq(Rows["order"]) /\ Len(b["order"]) = n
            /\ \A i \in 1..n : b["order"][i] = OrderLine[i] /\ i \in 1..Len(OrderLine)
            /\ Len(OrderLine') = Len(OrderLine) - n /\ Len(OrderLine) \in Nat
            /\ \A i \in 1..Len(OrderLine') : n + i \in 1..Len(OrderLine) /\ OrderLine'[i] = OrderLine[n + i]
            /\ \A o \in Orders :
                 \/ /\ orders'[o] = orders[o]
                    /\ \A i \in 1..n : OrderLine[i].id # o
                 \/ \E m \in 1..n : /\ orders'[o] = OrderLine[m].says /\ OrderLine[m].id = o
                                    /\ \A i \in 1..n : OrderLine[i].id = o => i <= m
  <1>0. "order" \in Names /\ WriterTypeOK
    BY FiveTables DEF Base, TypeInv, TypeOK
  <1> DEFINE rows == b["order"]
  <1>1. PICK n \in 0..Len(OrderLine) :
            /\ rows \in Seq(Rows["order"]) /\ Len(rows) = n
            /\ \A i \in 1..n : rows[i] = OrderLine[i] /\ i \in 1..Len(OrderLine)
            /\ Len(OrderLine') = Len(OrderLine) - n /\ Len(OrderLine) \in Nat
            /\ \A i \in 1..Len(OrderLine') : n + i \in 1..Len(OrderLine) /\ OrderLine'[i] = OrderLine[n + i]
    BY <1>0, TakenRows DEF OrderLine
  <1>2. \A o \in Orders : orders'[o] = OrderWritten(rows, o)
    BY DEF Commit
  <1>3. \A o \in Orders : o \in firstWrites => orders[o] = Absent
    BY DEF OrderInv, FirstOnly
  <1>4. \A o \in Orders : About(rows, o) = {} => \A i \in 1..n : OrderLine[i].id # o
    BY <1>1 DEF About
  <1> HIDE DEF rows
  <1>5. ASSUME NEW o \in Orders, About(rows, o) # {}
        PROVE  \E m \in 1..n : /\ orders'[o] = OrderLine[m].says /\ OrderLine[m].id = o
                               /\ \A i \in 1..n : OrderLine[i].id = o => i <= m
    <2> DEFINE m == Max(About(rows, o))
    <2>1. /\ m \in 1..n /\ rows[m].id = o /\ \A i \in About(rows, o) : i <= m
      BY <1>1, <1>5, PlacesOfRows
    <2>2. orders'[o] = rows[m].says
      BY <1>2, <1>3, <1>5 DEF OrderWritten, Newest
    <2> HIDE DEF m
    <2>3. \A i \in 1..n : OrderLine[i].id = o => i \in About(rows, o)
      BY <1>1 DEF About
    <2> QED
      BY <1>1, <2>1, <2>2, <2>3
  <1>6. \A o \in Orders : About(rows, o) = {} => orders'[o] = orders[o]
    BY <1>2 DEF OrderWritten
  <1> QED
    BY <1>1, <1>4, <1>5, <1>6 DEF rows

\* Places that are all the same, of a key that the table does not have, are no repeat.
LEMMA NoRepeats ==
  ASSUME NEW n \in Nat, NEW P \in SUBSET (1..n), \A i, j \in P : i = j,
         NEW inTable \in BOOLEAN, P # {} => ~inTable
  PROVE  ~Repeats(P, inTable)
  <1>1. CASE P = {}
    <2>1. Cardinality(P) = 0
      BY <1>1, FS_EmptySet
    <2> QED
      BY <2>1 DEF Repeats
  <1>2. CASE P # {}
    <2>1. PICK i : i \in P
      BY <1>2
    <2>2. P = {i}
      BY <2>1
    <2>3. Cardinality(P) = 1
      BY <2>2, FS_Singleton
    <2> QED
      BY <1>2, <2>3 DEF Repeats
  <1> QED
    BY <1>1, <1>2

\* No row of a batch meets an earlier row of its key.
LEMMA NothingAbsorbed ==
  ASSUME Base, RowInv, OrderInv, NEW b, Batch(b), NextRows(b), Commit(b)
  PROVE  absorbed' = {}
  <1>0. {"order", "processed", "execution"} \subseteq Names /\ WriterTypeOK
    BY FiveTables DEF Base, TypeInv, TypeOK
  <1>1. {x \in Claimed(b["order"]) : orders[x] # Absent} = {}
    BY DEF Claimed, OrderInv, FirstOnly
  <1>2. ASSUME NEW t \in {"processed", "execution"}, NEW key
        PROVE  LET P == {i \in 1..Len(b[t]) : Key(t, b[t][i]) = key} IN
               /\ Len(b[t]) \in Nat /\ P \in SUBSET (1..Len(b[t]))
               /\ \A i, j \in P : i = j
               /\ P # {} => ~InTable(t, key)
    <2> DEFINE P == {i \in 1..Len(b[t]) : Key(t, b[t][i]) = key}
    <2>1. t \in Names /\ Unique(t)
      BY <1>0, <1>2 DEF RowInv
    <2>2. PICK n \in 0..Len(Line(t)) :
            /\ b[t] \in Seq(Rows[t]) /\ Len(b[t]) = n
            /\ \A i \in 1..n : b[t][i] = Line(t)[i] /\ i \in 1..Len(Line(t))
      BY <1>0, <2>1, TakenRows
    <2>3. \A i \in P : i \in 1..n /\ i \in 1..Len(Line(t)) /\ Key(t, Line(t)[i]) = key
      BY <2>2
    <2>4. Len(b[t]) \in Nat
      BY <2>2, LenProperties
    <2> HIDE DEF P
    <2>5. \A i, j \in P : i = j
      BY <2>1, <2>3 DEF Unique
    <2>6. P # {} => ~InTable(t, key)
      BY <2>1, <2>3 DEF Unique
    <2> QED
      BY <2>4, <2>5, <2>6 DEF P
  <1>3. {c \in Commands : Repeats(About(b["processed"], c), processed[c] # <<>>)} = {}
    <2> SUFFICES ASSUME NEW c \in Commands PROVE ~Repeats(About(b["processed"], c), processed[c] # <<>>)
      OBVIOUS
    <2> DEFINE P == {i \in 1..Len(b["processed"]) : Key("processed", b["processed"][i]) = c}
    <2>1. About(b["processed"], c) = P
      BY DEF About, Key
    <2>2. /\ Len(b["processed"]) \in Nat /\ P \in SUBSET (1..Len(b["processed"]))
          /\ \A i, j \in P : i = j
          /\ P # {} => ~InTable("processed", c)
      BY <1>2
    <2>3. P # {} => processed[c] = <<>>
      BY <2>2 DEF InTable
    <2> HIDE DEF P
    <2>4. (processed[c] # <<>>) \in BOOLEAN
      OBVIOUS
    <2> QED
      BY <2>1, <2>2, <2>3, <2>4, NoRepeats
  <1>4. {g \in Fills : Repeats({i \in 1..Len(b["execution"]) : b["execution"][i].says = g}, g \in executions)} = {}
    <2> SUFFICES ASSUME NEW g \in Fills
                 PROVE  ~Repeats({i \in 1..Len(b["execution"]) : b["execution"][i].says = g}, g \in executions)
      OBVIOUS
    <2> DEFINE P == {i \in 1..Len(b["execution"]) : Key("execution", b["execution"][i]) = g}
    <2>1. {i \in 1..Len(b["execution"]) : b["execution"][i].says = g} = P
      BY DEF Key
    <2>2. /\ Len(b["execution"]) \in Nat /\ P \in SUBSET (1..Len(b["execution"]))
          /\ \A i, j \in P : i = j
          /\ P # {} => ~InTable("execution", g)
      BY <1>2
    <2>3. P # {} => ~(g \in executions)
      BY <2>2 DEF InTable
    <2> HIDE DEF P
    <2>4. (g \in executions) \in BOOLEAN
      OBVIOUS
    <2> QED
      BY <2>1, <2>2, <2>3, <2>4, NoRepeats
  <1>5. absorbed = {}
    BY DEF OrderInv
  <1> QED
    BY <1>1, <1>3, <1>4, <1>5 DEF Commit

\* Rows that leave the front of the line leave what it says in order.
LEMMA RisingShrunk ==
  ASSUME Rising, NEW n \in 0..Len(OrderLine),
         Len(OrderLine') = Len(OrderLine) - n, Len(OrderLine) \in Nat,
         \A i \in 1..Len(OrderLine') : n + i \in 1..Len(OrderLine) /\ OrderLine'[i] = OrderLine[n + i]
  PROVE  /\ \A i, j \in 1..Len(OrderLine') : i <= j /\ OrderLine'[i].id = OrderLine'[j].id
               => OrderLine'[i].says <= OrderLine'[j].says
         /\ \A i \in 1..Len(OrderLine') :
               live[OrderLine'[i].id] # NotLive => OrderLine'[i].says <= live[OrderLine'[i].id]
         /\ \A row \in Rows["order"] : OrderToCome(row) =>
               \A i \in 1..Len(OrderLine') : OrderLine'[i].id = row.id => OrderLine'[i].says <= row.says
  <1>1. ASSUME NEW i \in 1..Len(OrderLine'), NEW j \in 1..Len(OrderLine'), i <= j,
               OrderLine'[i].id = OrderLine'[j].id
        PROVE  OrderLine'[i].says <= OrderLine'[j].says
    <2>1. n + i <= n + j
      BY <1>1
    <2> QED
      BY <1>1, <2>1 DEF Rising
  <1>2. ASSUME NEW i \in 1..Len(OrderLine'), live[OrderLine'[i].id] # NotLive
        PROVE  OrderLine'[i].says <= live[OrderLine'[i].id]
    BY <1>2 DEF Rising
  <1>3. ASSUME NEW row \in Rows["order"], OrderToCome(row),
               NEW i \in 1..Len(OrderLine'), OrderLine'[i].id = row.id
        PROVE  OrderLine'[i].says <= row.says
    BY <1>3 DEF Rising
  <1> QED
    BY <1>1, <1>2, <1>3

LEMMA OrderInvCommitted ==
  ASSUME Base, RowInv, OrderInv, NEW b, Batch(b), NextRows(b), Commit(b),
         UNCHANGED <<writer, live, dropped>>
  PROVE  OrderInv' /\ \A o \in Orders : orders'[o] >= orders[o]
  <1>1. PICK n \in 0..Len(OrderLine) :
            /\ b["order"] \in Seq(Rows["order"]) /\ Len(b["order"]) = n
            /\ \A i \in 1..n : b["order"][i] = OrderLine[i] /\ i \in 1..Len(OrderLine)
            /\ Len(OrderLine') = Len(OrderLine) - n /\ Len(OrderLine) \in Nat
            /\ \A i \in 1..Len(OrderLine') : n + i \in 1..Len(OrderLine) /\ OrderLine'[i] = OrderLine[n + i]
            /\ \A o \in Orders :
                 \/ /\ orders'[o] = orders[o]
                    /\ \A i \in 1..n : OrderLine[i].id # o
                 \/ \E m \in 1..n : /\ orders'[o] = OrderLine[m].says /\ OrderLine[m].id = o
                                    /\ \A i \in 1..n : OrderLine[i].id = o => i <= m
    BY CommittedOrders
  <1>a. n \in Nat /\ Len(OrderLine) \in Nat /\ \A i \in 1..n : i \in 1..Len(OrderLine)
    BY <1>1
  <1>2. absorbed' = {}
    BY NothingAbsorbed
  <1>3. \A row : OrderToCome(row)' <=> OrderToCome(row)
    BY DEF OrderToCome
  <1>4. \A o : StillToQueue(o)' <=> StillToQueue(o)
    BY DEF StillToQueue
  \* The row of an order rises, and no further than what is left of its rows says.
  <1>5. ASSUME NEW o \in Orders
        PROVE  /\ orders'[o] >= orders[o]
               /\ live[o] # NotLive => orders'[o] <= live[o]
               /\ \A i \in 1..Len(OrderLine') : OrderLine'[i].id = o => orders'[o] <= OrderLine'[i].says
               /\ \A row \in Rows["order"] : OrderToCome(row) /\ row.id = o => orders'[o] <= row.says
    <2>1. CASE orders'[o] = orders[o]
      <3>1. orders[o] >= orders[o]
        BY OrderRowTypes
      <3>2. \A i \in 1..Len(OrderLine) : OrderLine[i].id = o => orders[o] <= OrderLine[i].says
        BY DEF OrderInv, Rising
      <3>3. \A i \in 1..Len(OrderLine') : OrderLine'[i].id = o => orders[o] <= OrderLine'[i].says
        BY <1>1, <3>2
      <3> QED
        BY <2>1, <3>1, <3>3 DEF OrderInv, Rising
    <2>2. CASE \E m \in 1..n : orders'[o] = OrderLine[m].says /\ OrderLine[m].id = o
      <3>1. PICK m \in 1..n : orders'[o] = OrderLine[m].says /\ OrderLine[m].id = o
        BY <2>2
      <3>2. m \in 1..Len(OrderLine)
        BY <1>a, <3>1
      <3>3. orders[o] <= OrderLine[m].says /\ (live[o] # NotLive => OrderLine[m].says <= live[o])
        BY <3>1, <3>2 DEF OrderInv, Rising
      <3>4. ASSUME NEW i \in 1..Len(OrderLine'), OrderLine'[i].id = o
            PROVE  OrderLine[m].says <= OrderLine'[i].says
        <4>1. n + i \in 1..Len(OrderLine) /\ OrderLine'[i] = OrderLine[n + i] /\ m <= n + i
          BY <1>1, <1>a, <3>1
        <4> QED
          BY <3>1, <3>2, <3>4, <4>1 DEF OrderInv, Rising
      <3>5. \A row \in Rows["order"] : OrderToCome(row) /\ row.id = o => OrderLine[m].says <= row.says
        BY <3>1, <3>2 DEF OrderInv, Rising
      <3>6. orders[o] \in Int /\ OrderLine[m].says \in Int
        BY <3>2, OrderRowTypes
      <3> QED
        BY <3>1, <3>3, <3>4, <3>5, <3>6
    <2> QED
      BY <1>1, <2>1, <2>2
  <1>6. FirstOnly'
    <2>1. ASSUME NEW o \in firstWrites' PROVE orders'[o] = Absent
      <3>1. o \in firstWrites /\ About(b["order"], o) = {} /\ o \in Orders
        BY <2>1 DEF Commit, Claimed, Base, TypeInv, TypeOK, WriterTypeOK
      <3>2. orders'[o] = orders[o]
        BY <3>1 DEF Commit, OrderWritten
      <3> QED
        BY <3>1, <3>2 DEF OrderInv, FirstOnly
    <2>2. ASSUME NEW row \in Rows["order"], OrderToCome(row), row.says = 0
          PROVE  /\ orders'[row.id] = Absent
                 /\ \A i \in 1..Len(OrderLine') : OrderLine'[i].id # row.id
      <3>1. /\ orders[row.id] = Absent /\ row.id \in Orders
            /\ \A i \in 1..Len(OrderLine) : OrderLine[i].id # row.id
        BY <2>2, OrderRowTypes DEF OrderInv, FirstOnly
      <3>2. orders'[row.id] = orders[row.id]
        BY <1>1, <3>1
      <3> QED
        BY <1>1, <3>1, <3>2
    <2> QED
      BY <1>3, <2>1, <2>2 DEF FirstOnly
  <1>7. Rising'
    <2>1. /\ \A i, j \in 1..Len(OrderLine') : i <= j /\ OrderLine'[i].id = OrderLine'[j].id
               => OrderLine'[i].says <= OrderLine'[j].says
          /\ \A i \in 1..Len(OrderLine') :
               live[OrderLine'[i].id] # NotLive => OrderLine'[i].says <= live[OrderLine'[i].id]
          /\ \A row \in Rows["order"] : OrderToCome(row) =>
               \A i \in 1..Len(OrderLine') : OrderLine'[i].id = row.id => OrderLine'[i].says <= row.says
      <3>1. Rising
        BY DEF OrderInv
      <3> QED
        BY <1>1, <3>1, RisingShrunk
    <2>2. \A i \in 1..Len(OrderLine') : OrderLine'[i].id \in Orders
      BY <1>1, OrderRowTypes
    <2>3. \A row \in Rows["order"] : OrderToCome(row) => live[row.id] \in {NotLive, row.says}
      BY DEF OrderInv, Rising
    <2>4. \A row \in Rows["order"] : OrderToCome(row) => orders'[row.id] <= row.says
      BY <1>5, OrderRowTypes
    <2> QED
      BY <1>3, <1>5, <2>1, <2>2, <2>3, <2>4 DEF Rising
  <1>8. Reaching'
    <2> SUFFICES ASSUME dropped \cap {"order"} \X Orders = {},
                        NEW o \in Orders, live[o] # NotLive, ~StillToQueue(o)
                 PROVE  \/ orders'[o] = live[o]
                        \/ \E i \in 1..Len(OrderLine') : OrderLine'[i].id = o /\ OrderLine'[i].says = live[o]
      BY <1>4 DEF Reaching
    <2>1. \/ orders[o] = live[o]
          \/ \E i \in 1..Len(OrderLine) : OrderLine[i].id = o /\ OrderLine[i].says = live[o]
      BY DEF OrderInv, Reaching
    <2>2. orders'[o] <= live[o] /\ orders'[o] >= orders[o] /\ live[o] \in Int /\ orders[o] \in Int
      BY <1>5, OrderRowTypes
    <2>3. orders'[o] \in Int
      <3>1. CASE orders'[o] = orders[o]
        BY <2>2, <3>1
      <3>2. ASSUME NEW m \in 1..n, orders'[o] = OrderLine[m].says PROVE orders'[o] \in Int
        <4>1. m \in 1..Len(OrderLine)
          BY <1>a, <3>2
        <4>2. OrderLine[m].says \in 0..Size /\ Size \in Nat
          BY <4>1, OrderRowTypes
        <4> QED
          BY <3>2, <4>2
      <3> QED
        BY <1>1, <3>1, <3>2
    <2>4. CASE orders[o] = live[o]
      BY <2>2, <2>3, <2>4
    <2>5. ASSUME NEW i \in 1..Len(OrderLine), OrderLine[i].id = o, OrderLine[i].says = live[o], i <= n
          PROVE  orders'[o] = live[o]
      <3>0. i \in 1..n
        BY <1>a, <2>5
      <3>1. PICK m \in 1..n : /\ orders'[o] = OrderLine[m].says /\ OrderLine[m].id = o
                              /\ \A l \in 1..n : OrderLine[l].id = o => l <= m
        BY <1>1, <2>5, <3>0
      <3>2. i <= m /\ m \in 1..Len(OrderLine)
        BY <1>a, <2>5, <3>0, <3>1
      <3>3. OrderLine[i].says <= OrderLine[m].says
        BY <2>5, <3>1, <3>2 DEF OrderInv, Rising
      <3> QED
        BY <2>2, <2>3, <2>5, <3>1, <3>3
    <2>6. ASSUME NEW i \in 1..Len(OrderLine), OrderLine[i].id = o, OrderLine[i].says = live[o], i > n
          PROVE  \E l \in 1..Len(OrderLine') : OrderLine'[l].id = o /\ OrderLine'[l].says = live[o]
      <3>1. i - n \in 1..Len(OrderLine') /\ n + (i - n) = i
        BY <1>1, <1>a, <2>6
      <3>2. OrderLine'[i - n] = OrderLine[n + (i - n)]
        BY <1>1, <3>1
      <3> QED
        BY <2>6, <3>1, <3>2
    <2> QED
      BY <1>a, <2>1, <2>4, <2>5, <2>6
  <1> QED
    BY <1>2, <1>5, <1>6, <1>7, <1>8 DEF OrderInv

LEMMA OrderInvFlushed ==
  ASSUME Base, RowInv, OrderInv, Flushed
  PROVE  OrderInv' /\ \A o \in Orders : orders'[o] >= orders[o]
  <1>0. UNCHANGED <<writer, live>> /\ "order" \in Names /\ WriterTypeOK
    BY FiveTables DEF Flushed, Base, TypeInv, TypeOK
  <1>1. CASE Committed
    BY <1>0, <1>1, OrderInvCommitted DEF Committed
  <1>2. CASE /\ Moved \/ GivenUp
             /\ firstWrites' \subseteq firstWrites
             /\ UNCHANGED <<database, absorbed>>
             /\ Moved => UNCHANGED dropped
    <2>0. /\ orders' = orders /\ \A o \in Orders : orders[o] >= orders[o]
          /\ \A row : OrderToCome(row)' <=> OrderToCome(row)
          /\ \A o : StillToQueue(o)' <=> StillToQueue(o)
      BY <1>0, <1>2, OrderRowTypes DEF database, OrderToCome, StillToQueue
    <2>1. CASE OrderLine' = OrderLine /\ dropped \subseteq dropped'
      <3>1. OrderInv'
        BY <1>0, <1>2, <2>0, <2>1, OrderInvSame
      <3> QED
        BY <2>0, <3>1
    <2>2. CASE Moved
      <3>1. OrderLine' = OrderLine /\ dropped \subseteq dropped'
        BY <1>0, <1>2, <2>2 DEF Moved, OrderLine
      <3> QED
        BY <2>1, <3>1
    <2>3. CASE GivenUp
      <3>1. PICK t \in Names :
              /\ Line(t) # <<>> /\ Line(t)' = SubSeq(Line(t), 2, Len(Line(t)))
              /\ \A u \in Names \ {t} : Line(u)' = Line(u)
              /\ dropped' = dropped \cup {<<t, Line(t)[1].id>>}
        BY <2>3 DEF GivenUp
      <3>2. CASE t # "order"
        <4>1. OrderLine' = OrderLine /\ dropped \subseteq dropped'
          BY <1>0, <3>1, <3>2 DEF OrderLine
        <4> QED
          BY <2>1, <4>1
      <3>3. CASE t = "order"
        <4>1. /\ OrderLine # <<>> /\ OrderLine' = SubSeq(OrderLine, 2, Len(OrderLine))
              /\ dropped' = dropped \cup {<<"order", OrderLine[1].id>>}
          BY <3>1, <3>3 DEF OrderLine
        <4>2. 1 \in 1..Len(OrderLine) /\ 1 \in 0..Len(OrderLine) /\ 1 + 1 = 2 /\ Len(OrderLine) \in Nat
          <5>1. OrderLine \in Seq(Rows["order"]) /\ Len(OrderLine) \in Nat
            BY OrderRowTypes
          <5>2. Len(OrderLine) # 0
            BY <4>1, <5>1
          <5> QED
            BY <5>1, <5>2
        <4>3. /\ Len(OrderLine') = Len(OrderLine) - 1
              /\ \A i \in 1..Len(OrderLine') : 1 + i \in 1..Len(OrderLine) /\ OrderLine'[i] = OrderLine[1 + i]
          <5>1. Line("order")' = SubSeq(Line("order"), 1 + 1, Len(Line("order")))
            BY <4>1, <4>2 DEF OrderLine
          <5> QED
            BY <1>0, <4>2, <5>1, Shrunk DEF OrderLine
        <4>4. Reaching'
          <5>1. OrderLine[1].id \in Orders
            BY <4>2, OrderRowTypes
          <5>2. <<"order", OrderLine[1].id>> \in dropped' \cap {"order"} \X Orders
            BY <4>1, <5>1
          <5> QED
            BY <5>2 DEF Reaching
        <4>5. FirstOnly'
          <5>1. \A row \in Rows["order"] : OrderToCome(row) /\ row.says = 0 =>
                  \A i \in 1..Len(OrderLine') : OrderLine'[i].id # row.id
            BY <4>3 DEF OrderInv, FirstOnly
          <5> QED
            BY <1>2, <2>0, <5>1 DEF OrderInv, FirstOnly
        <4>6. Rising'
          <5>1. /\ \A i, j \in 1..Len(OrderLine') : i <= j /\ OrderLine'[i].id = OrderLine'[j].id
                     => OrderLine'[i].says <= OrderLine'[j].says
                /\ \A i \in 1..Len(OrderLine') :
                     live[OrderLine'[i].id] # NotLive => OrderLine'[i].says <= live[OrderLine'[i].id]
                /\ \A row \in Rows["order"] : OrderToCome(row) =>
                     \A i \in 1..Len(OrderLine') : OrderLine'[i].id = row.id => OrderLine'[i].says <= row.says
            <6>1. Rising
              BY DEF OrderInv
            <6> QED
              BY <4>2, <4>3, <6>1, RisingShrunk
          <5>2. \A i \in 1..Len(OrderLine') : orders[OrderLine'[i].id] <= OrderLine'[i].says
            BY <4>3 DEF OrderInv, Rising
          <5>3. \A row \in Rows["order"] : OrderToCome(row) =>
                  live[row.id] \in {NotLive, row.says} /\ orders[row.id] <= row.says
            BY DEF OrderInv, Rising
          <5>4. \A o \in Orders : live[o] # NotLive => orders[o] <= live[o]
            BY DEF OrderInv, Rising
          <5> QED
            BY <1>0, <2>0, <5>1, <5>2, <5>3, <5>4 DEF Rising
        <4>7. absorbed' = {}
          BY <1>2 DEF OrderInv
        <4> QED
          BY <2>0, <4>4, <4>5, <4>6, <4>7 DEF OrderInv
      <3> QED
        BY <3>2, <3>3
    <2> QED
      BY <1>2, <2>2, <2>3
  <1> QED
    BY <1>1, <1>2 DEF Flushed

\* A command that is decided, or a fill, comes up with one order row at most, and
\* nothing was left to queue before it.
LEMMA OrderInvUp ==
  ASSUME Base, OrderInv, writer.rows = <<>>, OrderLine' = OrderLine,
         UNCHANGED <<firstWrites, orders, dropped, absorbed>>,
         NEW o \in Orders, NEW n \in 0..Size,
         \A p \in Orders \ {o} : live'[p] = live[p],
         live'[o] \in {NotLive, n}, orders[o] <= n,
         \A i \in 1..Len(OrderLine) : OrderLine[i].id = o => OrderLine[i].says <= n,
         n = 0 => orders[o] = Absent /\ \A i \in 1..Len(OrderLine) : OrderLine[i].id # o,
         \E i \in 1..Len(writer'.rows) : writer'.rows[i] = <<"order", Row(o, n)>>,
         \A i \in 1..Len(writer'.rows) : writer'.rows[i][1] = "order" => writer'.rows[i] = <<"order", Row(o, n)>>
  PROVE  OrderInv'
  <1>1. /\ Row(o, n) \in Rows["order"] /\ Row(o, n).id = o /\ Row(o, n).says = n
    BY RowsOfEach DEF Row
  <1>2. ASSUME NEW row, OrderToCome(row)' PROVE row = Row(o, n)
    BY <1>2 DEF OrderToCome
  <1>3. StillToQueue(o)'
    <2>1. PICK i \in 1..Len(writer'.rows) : writer'.rows[i] = <<"order", Row(o, n)>>
      OBVIOUS
    <2>2. writer'.rows[i][1] = "order" /\ writer'.rows[i][2].id = o
      BY <1>1, <2>1
    <2> QED
      BY <2>2 DEF StillToQueue
  <1>4. \A p : ~StillToQueue(p)
    <2>1. 1..Len(writer.rows) = {}
      OBVIOUS
    <2> QED
      BY <2>1 DEF StillToQueue
  <1>5. FirstOnly'
    BY <1>1, <1>2 DEF OrderInv, FirstOnly
  <1>6. Rising'
    <2>1. \A i, j \in 1..Len(OrderLine) : i <= j /\ OrderLine[i].id = OrderLine[j].id
          => OrderLine[i].says <= OrderLine[j].says
      BY DEF OrderInv, Rising
    <2>2. ASSUME NEW i \in 1..Len(OrderLine)
          PROVE  /\ orders[OrderLine[i].id] <= OrderLine[i].says
                 /\ live'[OrderLine[i].id] # NotLive => OrderLine[i].says <= live'[OrderLine[i].id]
      <3>1. OrderLine[i].id \in Orders
        BY OrderRowTypes
      <3>2. CASE OrderLine[i].id = o
        BY <3>2 DEF OrderInv, Rising
      <3>3. CASE OrderLine[i].id # o
        BY <3>1, <3>3 DEF OrderInv, Rising
      <3> QED
        BY <3>2, <3>3
    <2>3. \A p \in Orders : live'[p] # NotLive => orders[p] <= live'[p]
      BY DEF OrderInv, Rising
    <2>4. ASSUME NEW row \in Rows["order"], OrderToCome(row)'
          PROVE  /\ live'[row.id] \in {NotLive, row.says}
                 /\ orders[row.id] <= row.says
                 /\ \A i \in 1..Len(OrderLine) : OrderLine[i].id = row.id => OrderLine[i].says <= row.says
      <3>1. row.id = o /\ row.says = n
        BY <1>1, <1>2, <2>4
      <3> QED
        BY <3>1
    <2> QED
      BY <2>1, <2>2, <2>3, <2>4 DEF Rising
  <1>7. Reaching'
    <2> SUFFICES ASSUME dropped \cap {"order"} \X Orders = {},
                        NEW p \in Orders, live'[p] # NotLive, ~StillToQueue(p)'
                 PROVE  \/ orders[p] = live'[p]
                        \/ \E i \in 1..Len(OrderLine) : OrderLine[i].id = p /\ OrderLine[i].says = live'[p]
      BY DEF Reaching
    <2>1. p # o /\ live'[p] = live[p]
      BY <1>3
    <2> QED
      BY <1>4, <2>1 DEF OrderInv, Reaching
  <1>8. absorbed' = {}
    BY DEF OrderInv
  <1> QED
    BY <1>5, <1>6, <1>7, <1>8 DEF OrderInv

LEMMA OrderInvConflict ==
  ASSUME Base, OrderInv, NEW s \in Sending, DecideConflict(s)
  PROVE  OrderInv'
  <1>1. /\ writer.rows = <<>>
        /\ writer'.rows = <<<<"processed", Row(s.command, <<"conflict", s.order>>)>>>>
        /\ UNCHANGED <<writerVars, live>>
    BY DEF DecideConflict, Deciding, Decided, Base, TypeInv, TypeOK
  <1>2. Len(writer'.rows) = 1 /\ writer'.rows[1][1] = "processed"
    BY <1>1
  <1>3. \A row : ~OrderToCome(row)'
    BY <1>2 DEF OrderToCome
  <1>4. \A o : ~StillToQueue(o)
    BY <1>1 DEF StillToQueue
  <1>5. /\ OrderLine' = OrderLine
        /\ UNCHANGED <<orders, firstWrites, dropped, absorbed>>
    BY <1>1 DEF OrderLine, Line, writerVars, flushVars, database, oracles
  <1> QED
    BY <1>1, <1>3, <1>4, <1>5, OrderInvSame

LEMMA OrderInvCreate ==
  ASSUME Base, RowInv, OrderInv, NEW s \in Sending, DecideCreate(s)
  PROVE  OrderInv'
  <1> DEFINE o == s.order
  <1>1. /\ ready /\ o \notin seen /\ o \in Orders
        /\ writer.rows = <<>>
        /\ writer'.rows = RowsOfCreate(s)
        /\ live' = [live EXCEPT ![o] = 0]
        /\ UNCHANGED <<writerVars>>
    BY DEF DecideCreate, Deciding, Decided, IsNew, PossiblySeen, Base, TypeInv, TypeOK, Sending
  <1>2. /\ Len(writer'.rows) = 4 /\ 1..4 = {1, 2, 3, 4}
        /\ writer'.rows[1] = <<"order", Row(o, 0)>> /\ writer'.rows[2][1] = "event"
        /\ writer'.rows[3][1] = "processed" /\ writer'.rows[4][1] = "output"
    BY <1>1 DEF RowsOfCreate
  <1>3. /\ OrderLine' = OrderLine
        /\ UNCHANGED <<orders, firstWrites, dropped, absorbed>>
    BY <1>1 DEF OrderLine, Line, writerVars, flushVars, database, oracles
  <1>4. orders[o] = Absent /\ \A i \in 1..Len(OrderLine) : OrderLine[i].id # o
    <2> HIDE DEF o
    <2>1. /\ ~InTable("order", o)
          /\ \A i \in 1..Len(Line("order")) : Key("order", Line("order")[i]) # o
      BY <1>1, NewKey
    <2> QED
      BY <2>1 DEF InTable, Key, OrderLine
  <1>5. /\ \A p \in Orders \ {o} : live'[p] = live[p]
        /\ live'[o] = 0
    BY <1>1 DEF Base, TypeInv, TypeOK
  <1>6. 0 \in 0..Size /\ orders[o] <= 0
    BY <1>1, <1>4, OrderRowTypes
  <1> HIDE DEF o
  <1>7. /\ \E i \in 1..Len(writer'.rows) : writer'.rows[i] = <<"order", Row(o, 0)>>
        /\ \A i \in 1..Len(writer'.rows) : writer'.rows[i][1] = "order" => writer'.rows[i] = <<"order", Row(o, 0)>>
    BY <1>2
  <1> QED
    BY <1>1, <1>3, <1>4, <1>5, <1>6, <1>7, OrderInvUp

LEMMA OrderInvFill ==
  ASSUME Base, OrderInv, NEW f \in Fills, Fill(f)
  PROVE  OrderInv'
  <1> DEFINE o == OrderOf[f]
             n == live[o] + 1
  <1>1. /\ o \in Orders /\ live[o] # NotLive
        /\ writer.rows = <<>>
        /\ writer'.rows = RowsOfFill(f, n)
        /\ live' = [live EXCEPT ![o] = IF n = Size THEN NotLive ELSE n]
        /\ UNCHANGED <<writerVars>>
    BY WriterAssumption DEF Fill, Idle, Base, TypeInv, TypeOK
  <1>2. /\ Len(writer'.rows) = 3 /\ 1..3 = {1, 2, 3}
        /\ writer'.rows[1][1] = "execution"
        /\ writer'.rows[2] = <<"order", Row(o, n)>> /\ writer'.rows[3][1] = "event"
    BY <1>1 DEF RowsOfFill
  <1>3. /\ OrderLine' = OrderLine
        /\ UNCHANGED <<orders, firstWrites, dropped, absorbed>>
    BY <1>1 DEF OrderLine, Line, writerVars, flushVars, database, oracles
  <1>4. live[o] \in 0..(Size - 1) /\ n \in 0..Size /\ n # 0 /\ live[o] <= n
    <2>1. live[o] \in NotLive..Size /\ live[o] # Size
      BY <1>1 DEF Base, TypeInv, TypeOK
    <2> QED
      BY <1>1, <2>1, WriterAssumption DEF NotLive
  <1>5. /\ \A p \in Orders \ {o} : live'[p] = live[p]
        /\ live'[o] \in {NotLive, n}
    BY <1>1 DEF Base, TypeInv, TypeOK
  <1>6. orders[o] <= n
    <2>1. orders[o] <= live[o]
      BY <1>1 DEF OrderInv, Rising
    <2> QED
      BY <1>1, <1>4, <2>1, OrderRowTypes
  <1>7. ASSUME NEW i \in 1..Len(OrderLine), OrderLine[i].id = o
        PROVE  OrderLine[i].says <= n
    <2>1. OrderLine[i].says <= live[o]
      BY <1>1, <1>7 DEF OrderInv, Rising
    <2>2. OrderLine[i].says \in 0..Size /\ Size \in Nat
      BY OrderRowTypes
    <2> QED
      BY <1>4, <2>1, <2>2
  <1> HIDE DEF o, n
  <1>8. /\ \E i \in 1..Len(writer'.rows) : writer'.rows[i] = <<"order", Row(o, n)>>
        /\ \A i \in 1..Len(writer'.rows) : writer'.rows[i][1] = "order" => writer'.rows[i] = <<"order", Row(o, n)>>
    BY <1>2
  <1> QED
    BY <1>1, <1>3, <1>4, <1>5, <1>6, <1>7, <1>8, OrderInvUp

LEMMA OrderInvCrash == ASSUME Base, OrderInv, Crash PROVE OrderInv'
  <1>1. /\ Len(OrderLine') = 0 /\ Len(writer'.rows) = 0 /\ 1..0 = {}
    <2>1. "order" \in Names
      BY FiveTables
    <2>2. OrderLine' = <<>>
      BY <2>1, EmptiedLines DEF OrderLine
    <2>3. writer'.rows = <<>>
      BY DEF Crash, Idle
    <2> QED
      BY <2>2, <2>3
  <1>2. /\ firstWrites' = {} /\ UNCHANGED <<orders, absorbed>>
        /\ live' = LoadedOrders
    BY DEF Crash, WriterCrash, database, oracles
  <1>3. \A o \in Orders : live'[o] # NotLive => orders[o] = live'[o]
    BY <1>2 DEF LoadedOrders
  <1>4. \A o \in Orders : orders[o] <= orders[o]
    BY OrderRowTypes
  <1> QED
    BY <1>1, <1>2, <1>3, <1>4 DEF OrderInv, FirstOnly, Rising, Reaching, OrderToCome

\* Each step keeps the rows of the orders rising.
LEMMA OrderInvStep ==
  ASSUME Base, RowInv, OrderInv, [Next]_vars
  PROVE  OrderInv' /\ \A o \in Orders : orders'[o] >= orders[o]
  <1>0. \A o \in Orders : orders[o] >= orders[o]
    BY OrderRowTypes
  <1>1. CASE Quiet
    <2>1. /\ OrderLine' = OrderLine /\ UNCHANGED <<firstWrites, orders, dropped, absorbed, live>>
          /\ writer'.rows = writer.rows
      BY <1>1, FiveTables DEF Quiet, OrderLine
    <2>2. /\ \A row : OrderToCome(row)' <=> OrderToCome(row)
          /\ \A o : StillToQueue(o)' <=> StillToQueue(o)
      BY <2>1 DEF OrderToCome, StillToQueue
    <2>3. OrderInv'
      BY <2>1, <2>2, OrderInvSame
    <2> QED
      BY <1>0, <2>1, <2>3
  <1>2. CASE Handed
    <2>1. orders' = orders
      BY <1>2 DEF Handed
    <2> QED
      BY <1>0, <1>2, <2>1, OrderInvHanded
  <1>3. CASE Flushed
    BY <1>3, OrderInvFlushed
  <1>4. CASE Crash
    <2>1. orders' = orders
      BY <1>4 DEF Crash, WriterCrash, database
    <2> QED
      BY <1>0, <1>4, <2>1, OrderInvCrash
  <1>5. ASSUME NEW s \in Sending, DecideConflict(s) \/ DecideCreate(s)
        PROVE  OrderInv' /\ orders' = orders
    <2>1. orders' = orders
      BY <1>5 DEF DecideConflict, DecideCreate, writerVars, database
    <2> QED
      BY <1>5, <2>1, OrderInvConflict, OrderInvCreate
  <1>6. ASSUME NEW f \in Fills, Fill(f)
        PROVE  OrderInv' /\ orders' = orders
    <2>1. orders' = orders
      BY <1>6 DEF Fill, writerVars, database
    <2> QED
      BY <1>6, <2>1, OrderInvFill
  <1> QED
    BY <1>0, <1>1, <1>2, <1>3, <1>4, <1>5, <1>6, StepKinds

\* The inductive invariant of the rows.
RowsInv == Base /\ RowInv /\ OrderInv

LEMMA RowsInvInit == Init => RowsInv
  BY BaseInit, RowInvInit, OrderInvInit DEF RowsInv

LEMMA RowsInvStep == RowsInv /\ [Next]_vars => RowsInv'
  BY BaseStep, RowInvStep, OrderInvStep DEF RowsInv

\* However rows are split over batches, refused, salvaged, lost with the process and
\* rebuilt by replay, no row that claims to be the first of its key meets an earlier
\* one in the database: the deduplication index and the caches let nothing through
\* twice (duplicate_..._reached_db "should read zero forever").
THEOREM NothingReachesTheDatabaseTwice == Spec => []NoDuplicateReachesDatabase
  <1>1. RowsInv => NoDuplicateReachesDatabase
    BY DEF RowsInv, OrderInv, NoDuplicateReachesDatabase
  <1> QED
    BY <1>1, RowsInvInit, RowsInvStep, PTL DEF Spec

\* Unless salvage gave up an order row, the live order in memory says what the last row
\* queued or written for it says: a restart that waits for the queue loads the same book.
THEOREM BookMatchesItsRows == Spec => []MemoryMatchesRows
  <1>1. RowsInv => MemoryMatchesRows
    BY ReachingIsMatching DEF RowsInv
  <1> QED
    BY <1>1, RowsInvInit, RowsInvStep, PTL DEF Spec

\* The traded quantity that the order table holds never goes down, through flushes,
\* salvage, crashes and replays.
THEOREM WrittenQuantityOnlyRises == Spec => OrderRowNeverGoesBack
  <1>1. RowsInv /\ [Next]_vars => [\A o \in Orders : orders'[o] >= orders[o]]_vars
    BY OrderInvStep DEF RowsInv
  <1> QED
    BY <1>1, RowsInvInit, RowsInvStep, PTL DEF Spec, OrderRowNeverGoesBack

----------------------------------------------------------------------------
(* What a client is told, and what replay has handled.                     *)

\* A command was sent under one of its own order ids.
Named(s) == \E i \in 1..Attempts : s.order = OrderNamed[s.command][i]

AllNamed ==
    /\ writer.on \in Sending => Named(writer.on)
    /\ \A i \in 1..Len(wal) : Named(wal[i])
    /\ \A i \in 1..Len(replaying) : Named(replaying[i])

\* Two commands of one order id are one command.
LEMMA NameTellsCommand ==
  ASSUME NEW s \in Sending, Named(s), NEW k \in Commands, NEW i \in 1..Attempts,
         s.order = OrderNamed[k][i]
  PROVE  s.command = k
  <1>1. PICK j \in 1..Attempts : s.order = OrderNamed[s.command][j]
    BY DEF Named
  <1>2. s.command \in Commands
    BY DEF Sending
  <1> QED
    BY <1>1, <1>2, HotPathAssumption

LEMMA AllNamedStep == ASSUME Base, AllNamed, [Next]_vars PROVE AllNamed'
  <1>0. /\ wal \in Seq(Sending) /\ Len(wal) \in Nat
        /\ replaying \in Seq(Sending) /\ Len(replaying) \in Nat
        /\ None \notin Sending /\ Fills \cap Sending = {}
    BY KindsAssumption, LenProperties DEF Base, TypeInv, TypeOK
  <1>1. ASSUME NEW k \in Commands, Accept(k) PROVE AllNamed'
    <2> DEFINE s == [command |-> k, order |-> OrderNamed[k][attempts'[k]]]
    <2>1. attempts'[k] \in 1..Attempts
      BY <1>1, HotPathAssumption DEF Accept, Sent, Base, TypeInv, TypeOK
    <2>2. s \in Sending /\ Named(s)
      BY <2>1, HotPathAssumption DEF Sending, Named
    <2>3. wal' = Append(wal, s) /\ writer'.on = s /\ replaying' = replaying
      BY <1>1 DEF Accept, AppendRecord, Handle, Idle
    <2> HIDE DEF s
    <2>4. /\ Len(wal') = Len(wal) + 1
          /\ \A i \in 1..Len(wal) : wal'[i] = wal[i]
          /\ wal'[Len(wal) + 1] = s
      BY <1>0, <2>2, <2>3, AppendProperties
    <2>5. ASSUME NEW i \in 1..Len(wal') PROVE Named(wal'[i])
      <3>1. CASE i \in 1..Len(wal)
        BY <2>4, <3>1 DEF AllNamed
      <3>2. CASE i = Len(wal) + 1
        BY <2>2, <2>4, <3>2
      <3> QED
        BY <1>0, <2>4, <3>1, <3>2
    <2> QED
      BY <2>2, <2>3, <2>5 DEF AllNamed
  <1>2. ASSUME Flush PROVE AllNamed'
    <2>1. UNCHANGED <<writer, replaying>>
      BY <1>2 DEF Flush
    <2>2. \A i \in 1..Len(wal') : Named(wal'[i])
      <3>1. CASE wal' = wal
        BY <3>1 DEF AllNamed
      <3>2. CASE CompactToSafePoint
        <4>1. safe \in 0..Len(wal) /\ wal' = SubSeq(wal, safe + 1, Len(wal))
          BY <3>2 DEF CompactToSafePoint, Base, TypeInv, TypeOK
        <4>2. /\ Len(wal') = Len(wal) - safe
              /\ \A i \in 1..(Len(wal) - safe) : wal'[i] = wal[safe + i]
          BY <1>0, <4>1, CutSeq
        <4>3. \A i \in 1..(Len(wal) - safe) : safe + i \in 1..Len(wal)
          BY <1>0, <4>1
        <4> QED
          BY <4>2, <4>3 DEF AllNamed
      <3> QED
        BY <1>2, <3>1, <3>2 DEF Flush, FlushStep, Reclaim, logVars
    <2> QED
      BY <2>1, <2>2 DEF AllNamed
  <1>3. ASSUME ReplayNext PROVE AllNamed'
    <2>1. /\ writer'.on = Head(replaying) /\ replaying # <<>>
          /\ replaying' = Tail(replaying) /\ wal' = wal
      BY <1>3 DEF ReplayNext, Handle, Idle, logVars
    <2>2. /\ Len(Tail(replaying)) = Len(replaying) - 1
          /\ \A i \in 1..Len(Tail(replaying)) : Tail(replaying)[i] = replaying[i + 1]
      BY <1>0, <2>1, HeadTailProperties
    <2>3. Head(replaying) = replaying[1] /\ 1 \in 1..Len(replaying)
      BY <1>0, <2>1
    <2>4. \A i \in 1..Len(Tail(replaying)) : i + 1 \in 1..Len(replaying)
      BY <1>0, <2>2
    <2> QED
      BY <2>1, <2>2, <2>3, <2>4 DEF AllNamed
  <1>4. ASSUME Crash PROVE AllNamed'
    BY <1>0, <1>4 DEF Crash, LogCrash, Idle, AllNamed
  <1>5. CASE UNCHANGED <<wal, replaying>> /\ writer'.on \in {writer.on, None} \cup Fills
    BY <1>0, <1>5 DEF AllNamed
  <1>6. ASSUME NEW k \in Commands, RefuseUnlogged(k) PROVE AllNamed'
    BY <1>5, <1>6 DEF RefuseUnlogged, logVars
  <1>7. ASSUME NEW f \in Fills, Fill(f) PROVE AllNamed'
    BY <1>5, <1>7 DEF Fill, Idle, logVars
  <1>8. ASSUME NEW s \in Sending, Decide(s) PROVE AllNamed'
    BY <1>5, <1>8 DEF Decide, DecideRepeat, DecideConflict, DecideCreate, Decided, logVars,
       Base, TypeInv, TypeOK
  <1>9. ASSUME NEW s \in Sending, Answer(s) PROVE AllNamed'
    BY <1>5, <1>9 DEF Answer, Finished, Idle, MarkSafePoint
  <1>10. ASSUME EnqueueRow PROVE AllNamed'
    BY <1>5, <1>10 DEF EnqueueRow, logVars, Base, TypeInv, TypeOK
  <1>11. ASSUME FinishUnanswered PROVE AllNamed'
    BY <1>5, <1>11 DEF FinishUnanswered, Finished, Idle, logVars
  <1>12. ASSUME StartServing PROVE AllNamed'
    BY <1>5, <1>12 DEF StartServing, MarkSafePoint, logVars
  <1>13. ASSUME UNCHANGED vars PROVE AllNamed'
    BY <1>5, <1>13 DEF vars, logVars
  <1>14. ASSUME NEW k \in Commands, Evict(k) PROVE AllNamed'
    BY <1>5, <1>14 DEF Evict, logVars
  <1> QED
    BY <1>1, <1>2, <1>3, <1>4, <1>6, <1>7, <1>8, <1>9, <1>10, <1>11, <1>12, <1>13, <1>14
       DEF Next, WriterStep

\* The writer thread has the reply to a command, and its client not yet.
Answering(k) == writer.pc = "rows" /\ writer.on \in Sending /\ writer.on.command = k

\* The client of a command has been told no result but r, nor is it about to be, and no
\* other is cached.
Only(k, r) ==
    /\ answers[k] \ {Full, Retry} \subseteq {r}
    /\ results[k] \in {<<>>, r}
    /\ Answering(k) => writer.reply \in {Retry, r}

\* A command that the index does not have was told nothing but refusals.
Refused(k) ==
    /\ answers[k] \subseteq {Full, Retry}
    /\ results[k] = <<>>
    /\ Answering(k) => writer.reply = Retry

\* Until a crash, a command has one result, in the cache or no longer, and a command
\* with a result is in the index, whatever is evicted.
AnswerInv ==
    crashes = 0 => \A k \in Commands :
        /\ \E r \in Results \cup {Retry} : Only(k, r)
        /\ k \notin seen => Refused(k)

LEMMA AnswersInit == Init => AllNamed /\ AnswerInv
  <1> SUFFICES ASSUME Init PROVE AllNamed /\ AnswerInv
    OBVIOUS
  <1>1. writer.on = None /\ None \notin Sending /\ Len(wal) = 0 /\ Len(replaying) = 0 /\ 1..0 = {}
    BY KindsAssumption DEF Init, LogInit, Idle
  <1>2. AllNamed
    BY <1>1 DEF AllNamed
  <1>3. \A k \in Commands : answers[k] = {} /\ results[k] = <<>> /\ ~Answering(k)
    BY <1>1 DEF Init, Answering
  <1>4. \A k \in Commands : Only(k, Retry) /\ Refused(k)
    BY <1>3 DEF Only, Refused
  <1> QED
    BY <1>2, <1>4 DEF AnswerInv

\* A step that tells and caches no more of a command keeps what is known of it.
LEMMA ToldNoMore ==
  ASSUME NEW k \in Commands, NEW r, Only(k, r),
         answers'[k] \ {Full, Retry} \subseteq answers[k] \ {Full, Retry},
         results'[k] \in {<<>>, results[k]},
         Answering(k)' => Answering(k) /\ writer'.reply = writer.reply
  PROVE  Only(k, r)'
  BY DEF Only

LEMMA RefusedNoMore ==
  ASSUME NEW k \in Commands, Refused(k),
         answers'[k] \subseteq answers[k] \cup {Full},
         results'[k] = results[k],
         Answering(k)' => Answering(k) /\ writer'.reply = writer.reply
  PROVE  Refused(k)'
  BY DEF Refused

LEMMA AnswerInvStep == ASSUME Base, AnswerInv, [Next]_vars PROVE AnswerInv'
  <1> SUFFICES ASSUME crashes' = 0 PROVE AnswerInv'
    BY DEF AnswerInv
  <1>a. ~Crash
    BY DEF Crash, Base, TypeInv, TypeOK
  <1>b. crashes = 0
    BY <1>a DEF Next, WriterStep, Decide, Accept, RefuseUnlogged, Evict, Fill, DecideRepeat,
       DecideConflict, DecideCreate, Answer, EnqueueRow, FinishUnanswered, ReplayNext, StartServing,
       Flush, vars, clients
  <1>c. \A k \in Commands : (\E r \in Results \cup {Retry} : Only(k, r)) /\ (k \notin seen => Refused(k))
    BY <1>b DEF AnswerInv
  <1>d. Fills \cap Sending = {} /\ None \notin Sending /\ Fills \cap (Commands \cup Orders) = {}
    BY KindsAssumption, WriterAssumption
  \* Steps that tell no result and cache none.
  <1>1. ASSUME \A k \in Commands :
                  /\ answers'[k] \subseteq answers[k] \cup {Full}
                  /\ results'[k] \in {<<>>, results[k]}
                  /\ Answering(k)' => Answering(k) /\ writer'.reply = writer.reply
                  /\ k \in seen => k \in seen'
        PROVE  AnswerInv'
    <2> SUFFICES ASSUME NEW k \in Commands
                 PROVE  (\E r \in Results \cup {Retry} : Only(k, r)') /\ (k \notin seen' => Refused(k)')
      BY DEF AnswerInv
    <2>1. PICK r \in Results \cup {Retry} : Only(k, r)
      BY <1>c
    <2>2. Only(k, r)'
      BY <1>1, <2>1, ToldNoMore
    <2>3. ASSUME k \notin seen' PROVE Refused(k)'
      <3>1. Refused(k) /\ results[k] = <<>>
        BY <1>1, <1>c, <2>3 DEF Refused
      <3> QED
        BY <1>1, <3>1, RefusedNoMore
    <2> QED
      BY <2>2, <2>3
  <1>2. ASSUME NEW k \in Commands, Accept(k) PROVE AnswerInv'
    <2>1. writer'.pc = "decide" /\ UNCHANGED <<answers, results, seen>>
      BY <1>2 DEF Accept, Handle, Idle, memory
    <2> QED
      BY <1>1, <2>1 DEF Answering
  <1>3. ASSUME NEW k \in Commands, RefuseUnlogged(k) PROVE AnswerInv'
    <2>1. \A c \in Commands : answers'[c] \subseteq answers[c] \cup {Full}
      BY <1>3 DEF RefuseUnlogged, Base, TypeInv, TypeOK
    <2>2. UNCHANGED <<results, seen, writer>>
      BY <1>3 DEF RefuseUnlogged, memory
    <2> QED
      BY <1>1, <2>1, <2>2 DEF Answering
  <1>4. ASSUME NEW k \in Commands, Evict(k) PROVE AnswerInv'
    <2>1. \A c \in Commands : results'[c] \in {<<>>, results[c]}
      BY <1>4 DEF Evict, Base, TypeInv, TypeOK
    <2>2. UNCHANGED <<answers, seen, writer>>
      BY <1>4 DEF Evict, clients
    <2> QED
      BY <1>1, <2>1, <2>2 DEF Answering
  <1>5. ASSUME NEW f \in Fills, Fill(f) PROVE AnswerInv'
    <2>1. seen' = seen \cup {f} /\ writer'.on = f /\ UNCHANGED <<results, answers>>
      BY <1>5 DEF Fill, Idle, clients
    <2> QED
      BY <1>1, <1>d, <2>1 DEF Answering
  <1>6. ASSUME NEW s \in Sending, DecideRepeat(s) PROVE AnswerInv'
    <2>1. /\ writer.pc = "decide" /\ writer.on = s /\ writer'.on = s
          /\ writer'.reply = IF results[s.command] = <<>> THEN Retry ELSE results[s.command]
          /\ UNCHANGED <<results, seen, answers>>
      BY <1>6 DEF DecideRepeat, Deciding, memory, clients, Base, TypeInv, TypeOK
    <2> SUFFICES ASSUME NEW k \in Commands
                 PROVE  (\E r \in Results \cup {Retry} : Only(k, r)') /\ (k \notin seen' => Refused(k)')
      BY DEF AnswerInv
    <2>2. PICK r \in Results \cup {Retry} : Only(k, r)
      BY <1>c
    <2>3. Only(k, r)'
      BY <2>1, <2>2 DEF Only, Answering
    <2>4. ASSUME k \notin seen' PROVE Refused(k)'
      <3>1. Refused(k)
        BY <1>c, <2>1, <2>4
      <3> QED
        BY <2>1, <3>1 DEF Refused, Answering
    <2> QED
      BY <2>3, <2>4
  <1>7. ASSUME NEW s \in Sending, NEW reply \in Results, NEW rows, NEW ids,
               Deciding(s), IsNew(s.command), Decided(s, reply, rows, ids), UNCHANGED answers
        PROVE  AnswerInv'
    <2>1. s.command \in Commands /\ s.command \notin seen
      BY <1>7 DEF Sending, IsNew, PossiblySeen
    <2>2. /\ seen' = seen \cup {s.command} \cup ids
          /\ \A k \in Commands : results'[k] = IF k = s.command THEN reply ELSE results[k]
          /\ writer.pc = "decide" /\ writer'.on = s /\ writer'.reply = reply
      BY <1>7 DEF Decided, Deciding, Base, TypeInv, TypeOK
    <2> SUFFICES ASSUME NEW k \in Commands
                 PROVE  (\E r \in Results \cup {Retry} : Only(k, r)') /\ (k \notin seen' => Refused(k)')
      BY DEF AnswerInv
    <2>3. CASE k = s.command
      <3>1. Refused(k)
        BY <1>c, <2>1, <2>3
      <3>2. Only(k, reply)'
        BY <1>7, <2>2, <2>3, <3>1 DEF Only, Refused
      <3> QED
        BY <1>7, <2>2, <2>3, <3>2
    <2>4. CASE k # s.command
      <3>1. ~Answering(k)' /\ results'[k] = results[k] /\ answers'[k] = answers[k]
        BY <1>7, <2>2, <2>4 DEF Answering
      <3>2. PICK r \in Results \cup {Retry} : Only(k, r)
        BY <1>c
      <3>3. Only(k, r)'
        BY <3>1, <3>2 DEF Only
      <3>4. k \notin seen' => Refused(k)'
        BY <1>c, <2>2, <3>1 DEF Refused
      <3> QED
        BY <3>3, <3>4
    <2> QED
      BY <2>3, <2>4
  <1>8. ASSUME NEW s \in Sending, DecideConflict(s) \/ DecideCreate(s) PROVE AnswerInv'
    <2>1. <<"conflict", s.order>> \in Results /\ <<"created", s.order>> \in Results
      BY DEF Results, Sending
    <2> QED
      BY <1>7, <1>8, <2>1 DEF DecideConflict, DecideCreate, clients
  <1>9. ASSUME NEW s \in Sending, Answer(s) PROVE AnswerInv'
    <2>1. /\ Answering(s.command) /\ s.command \in Commands /\ writer'.pc = "idle"
          /\ \A k \in Commands : answers'[k] = IF k = s.command THEN answers[k] \cup {writer.reply}
                                               ELSE answers[k]
          /\ UNCHANGED <<results, seen>>
      BY <1>9 DEF Answer, Answering, Finished, Idle, memory, Sending, Base, TypeInv, TypeOK
    <2> SUFFICES ASSUME NEW k \in Commands
                 PROVE  (\E r \in Results \cup {Retry} : Only(k, r)') /\ (k \notin seen' => Refused(k)')
      BY DEF AnswerInv
    <2>2. PICK r \in Results \cup {Retry} : Only(k, r)
      BY <1>c
    <2>3. ~Answering(k)'
      BY <2>1 DEF Answering
    <2>4. Only(k, r)'
      BY <2>1, <2>2, <2>3 DEF Only
    <2>5. ASSUME k \notin seen' PROVE Refused(k)'
      <3>1. Refused(k)
        BY <1>c, <2>1, <2>5
      <3>2. k = s.command => writer.reply = Retry
        BY <2>1, <3>1 DEF Refused
      <3>3. answers'[k] \subseteq {Full, Retry} /\ results'[k] = <<>>
        BY <2>1, <3>1, <3>2 DEF Refused
      <3> QED
        BY <2>3, <3>3 DEF Refused
    <2> QED
      BY <2>4, <2>5
  <1>10. ASSUME EnqueueRow PROVE AnswerInv'
    <2>1. /\ writer'.pc = writer.pc /\ writer'.on = writer.on /\ writer'.reply = writer.reply
          /\ UNCHANGED <<results, seen, answers>>
      BY <1>10 DEF EnqueueRow, memory, clients, Base, TypeInv, TypeOK
    <2> QED
      BY <1>1, <2>1 DEF Answering
  <1>11. ASSUME FinishUnanswered \/ ReplayNext PROVE AnswerInv'
    <2>1. writer'.pc # "rows"
      <3>1. CASE FinishUnanswered
        BY <3>1 DEF FinishUnanswered, Finished, Idle
      <3>2. CASE ReplayNext
        BY <3>2 DEF ReplayNext, Handle, Idle
      <3> QED
        BY <1>11, <3>1, <3>2
    <2>2. UNCHANGED <<results, seen, answers>>
      BY <1>11 DEF FinishUnanswered, ReplayNext, memory, clients
    <2> QED
      BY <1>1, <2>1, <2>2 DEF Answering
  <1>12. ASSUME StartServing \/ Flush \/ UNCHANGED vars PROVE AnswerInv'
    <2>1. UNCHANGED <<writer, results, seen, answers>>
      BY <1>12 DEF StartServing, Flush, vars, memory, clients
    <2> QED
      BY <1>1, <2>1 DEF Answering
  <1> QED
    BY <1>a, <1>2, <1>3, <1>4, <1>5, <1>6, <1>8, <1>9, <1>10, <1>11, <1>12 DEF Next, WriterStep, Decide

\* Until the process crashes, the clients of a command are told one result however often
\* and under however many order ids it was sent, and whatever the cache of results has
\* evicted: every other answer is a refusal, 507 of a full log or 503 of a result that is
\* no longer known (OrderCommandHandler.handle, OrderStateCache.putProcessed and
\* findProcessedByIdMemoryOnly).
THEOREM OneAnswerUntilACrash == Spec => []OriginalAnswer
  <1> DEFINE Inv == Base /\ AnswerInv
  <1>1. Init => Inv
    BY BaseInit, AnswersInit
  <1>2. Inv /\ [Next]_vars => Inv'
    BY BaseStep, AnswerInvStep
  <1>3. Inv => OriginalAnswer
    <2> SUFFICES ASSUME AnswerInv, crashes = 0, NEW k \in Commands
                 PROVE  Cardinality(answers[k] \ {Full, Retry}) <= 1
      BY DEF OriginalAnswer
    <2>1. PICK r : Only(k, r)
      BY DEF AnswerInv
    <2>2. answers[k] \ {Full, Retry} = {} \/ answers[k] \ {Full, Retry} = {r}
      BY <2>1 DEF Only
    <2>3. Cardinality({}) = 0 /\ Cardinality({r}) = 1
      BY FS_EmptySet, FS_Singleton
    <2> QED
      BY <2>2, <2>3
  <1> HIDE DEF Inv
  <1> QED
    BY <1>1, <1>2, <1>3, PTL DEF Spec

----------------------------------------------------------------------------
(* Replay.                                                                 *)

\* The result of a command is in the database, or on its way there: in the queue, or
\* among the rows that the writer thread is queueing.
Kept(k) ==
    \/ processed[k] # <<>>
    \/ \E i \in 1..Len(queue["processed"]) : queue["processed"][i].id = k
    \/ \E i \in 1..Len(writer.rows) : writer.rows[i][1] = "processed" /\ writer.rows[i][2].id = k

Handled(s) == Kept(s.command) \/ orders[s.order] # Absent

\* What memory knows during a replay is in the database or on its way there, and so is
\* every record handed over so far, but the one that is being decided.
ReplayInv ==
    ~serving =>
        /\ Len(replaying) <= Len(wal)
        /\ \A i \in 1..Len(replaying) : replaying[i] = wal[Len(wal) - Len(replaying) + i]
        /\ ready =>
             /\ \A k \in Commands : k \in seen \/ results[k] # <<>> => Kept(k)
             /\ \A o \in Orders : o \in seen => \/ orders[o] # Absent
                  \/ \E k \in Commands : \E i \in 1..Attempts : Kept(k) /\ o = OrderNamed[k][i]
             /\ \A i \in 1..(Len(wal) - Len(replaying)) :
                  \/ Handled(wal[i])
                  \/ i = Len(wal) - Len(replaying) /\ Deciding(wal[i])

\* A row that is queued stays kept.
LEMMA QueuedIsKept ==
  ASSUME Base, EnqueueRow, NEW k \in Commands, Kept(k)
  PROVE  Kept(k)'
  <1> DEFINE r == writer.rows  q == queue["processed"]
  <1>1. r \in Seq(ToQueue) /\ r # <<>> /\ q \in Seq(Rows["processed"])
    BY FiveTables DEF EnqueueRow, Base, TypeInv, TypeOK, WriterTypeOK
  <1>2. PICK t, row : t = r[1][1] /\ row = r[1][2]
    OBVIOUS
  <1>3. Head(r) = r[1] /\ 1 \in 1..Len(r) /\ Head(r) \in ToQueue
    <2> HIDE DEF r
    <2> QED
      BY <1>1, HeadTailProperties
  <1>4. /\ queue' = [queue EXCEPT ![t] = Append(@, row)] /\ writer'.rows = Tail(r)
        /\ processed' = processed
    BY <1>2, <1>3 DEF EnqueueRow, Enqueue, database, Base, TypeInv, TypeOK
  <1>5. t \in Names /\ row \in Rows[t]
    BY <1>1, <1>2, <1>3, QueuedRow
  <1>6. \A i \in 1..Len(q) : i \in 1..Len(queue'["processed"]) /\ queue'["processed"][i] = q[i]
    <2>1. CASE t = "processed"
      <3>1. queue'["processed"] = Append(q, row) /\ row \in Rows["processed"]
        BY <1>4, <1>5, <2>1, FiveTables DEF Base, TypeInv, TypeOK, WriterTypeOK
      <3> HIDE DEF q
      <3> QED
        BY <1>1, <3>1, AppendProperties, LenProperties
    <2>2. CASE t # "processed"
      BY <1>4, <2>2 DEF Base, TypeInv, TypeOK, WriterTypeOK
    <2> QED
      BY <2>1, <2>2
  <1>7. CASE processed[k] # <<>>
    BY <1>4, <1>7 DEF Kept
  <1>8. CASE \E i \in 1..Len(q) : q[i].id = k
    BY <1>6, <1>8 DEF Kept
  <1>9. ASSUME NEW i \in 1..Len(r), r[i][1] = "processed", r[i][2].id = k PROVE Kept(k)'
    <2>1. CASE i = 1
      <3>1. queue'["processed"] = Append(q, row) /\ row \in Rows["processed"] /\ row.id = k
        BY <1>2, <1>4, <1>5, <1>9, <2>1, FiveTables DEF Base, TypeInv, TypeOK, WriterTypeOK
      <3>2. Len(q) \in Nat /\ Len(Append(q, row)) = Len(q) + 1 /\ Append(q, row)[Len(q) + 1] = row
        <4> HIDE DEF q
        <4> QED
          BY <1>1, <3>1, AppendProperties, LenProperties
      <3>3. Len(q) + 1 \in 1..Len(queue'["processed"]) /\ queue'["processed"][Len(q) + 1].id = k
        BY <3>1, <3>2
      <3> QED
        BY <3>3 DEF Kept
    <2>2. CASE i # 1
      <3>1. Len(Tail(r)) = Len(r) - 1 /\ \A j \in 1..Len(Tail(r)) : Tail(r)[j] = r[j + 1]
        <4> HIDE DEF r
        <4> QED
          BY <1>1, HeadTailProperties
      <3>2. Len(r) \in Nat
        <4> HIDE DEF r
        <4> QED
          BY <1>1, LenProperties
      <3>3. i - 1 \in 1..Len(Tail(r)) /\ Tail(r)[i - 1] = r[i]
        BY <2>2, <3>1, <3>2
      <3>4. i - 1 \in 1..Len(writer'.rows) /\ writer'.rows[i - 1] = r[i]
        BY <1>4, <3>3
      <3> QED
        BY <1>9, <3>4 DEF Kept
    <2> QED
      BY <2>1, <2>2
  <1> QED
    BY <1>7, <1>8, <1>9 DEF Kept

LEMMA ReplayInvStep == ASSUME Base, AllNamed, ReplayInv, [Next]_vars PROVE ReplayInv'
  <1> SUFFICES ASSUME ~serving' PROVE ReplayInv'
    BY DEF ReplayInv
  <1>0. /\ wal \in Seq(Sending) /\ Len(wal) \in Nat
        /\ replaying \in Seq(Sending) /\ Len(replaying) \in Nat
        /\ Fills \cap (Commands \cup Orders) = {} /\ Commands \cap Orders = {}
        /\ \A i \in 1..Len(wal) : wal[i] \in Sending
    BY WriterAssumption, LenProperties DEF Base, TypeInv, TypeOK
  <1>1. ASSUME Crash PROVE ReplayInv'
    <2>1. /\ replaying' = wal /\ wal' = wal /\ UNCHANGED <<orders, processed>>
          /\ ready' => seen' = LoadedIds
          /\ \A k \in Commands : results'[k] = <<>>
      BY <1>1 DEF Crash, LogCrash, WriterCrash, database
    <2>2. ready' => /\ \A k \in Commands : k \in seen' => processed[k] # <<>>
                    /\ \A o \in Orders : o \in seen' => orders[o] # Absent
      <3>1. executions \subseteq Fills
        BY DEF Base, TypeInv, TypeOK, WriterTypeOK
      <3> QED
        BY <1>0, <2>1, <3>1 DEF LoadedIds
    <2>3. ready' => \A k \in Commands : k \in seen' \/ results'[k] # <<>> => Kept(k)'
      BY <2>1, <2>2 DEF Kept
    <2>4. Len(wal) - Len(wal) = 0 /\ 1..0 = {} /\ Len(wal) <= Len(wal) /\ \A i \in 1..Len(wal) : 0 + i = i
      BY <1>0
    <2> QED
      BY <2>1, <2>2, <2>3, <2>4 DEF ReplayInv
  <1>a. ASSUME ~Crash
        PROVE  ~serving /\ (\/ ReplayNext \/ EnqueueRow \/ FinishUnanswered \/ UNCHANGED vars
                            \/ \E s \in Sending : Decide(s)
                            \/ \E k \in Commands : Evict(k))
    <2>1. ASSUME NEW k \in Commands, Accept(k) \/ RefuseUnlogged(k) PROVE FALSE
      BY <2>1 DEF Accept, RefuseUnlogged, Sent
    <2>2. ASSUME NEW f \in Fills, Fill(f) PROVE FALSE
      BY <2>2 DEF Fill
    <2>3. ASSUME NEW s \in Sending, Answer(s) PROVE FALSE
      BY <2>3 DEF Answer
    <2>4. ASSUME StartServing \/ Flush PROVE FALSE
      BY <2>4 DEF StartServing, Flush
    <2>5. ASSUME NEW s \in Sending, Decide(s) PROVE ~serving
      BY <2>5 DEF Decide, DecideRepeat, DecideConflict, DecideCreate
    <2>6. ASSUME ReplayNext \/ EnqueueRow \/ FinishUnanswered \/ UNCHANGED vars PROVE ~serving
      BY <2>6 DEF ReplayNext, EnqueueRow, FinishUnanswered, vars
    <2>7. ASSUME NEW k \in Commands, Evict(k) PROVE ~serving
      BY <2>7 DEF Evict
    <2> QED
      BY <1>a, <2>1, <2>2, <2>3, <2>4, <2>5, <2>6, <2>7 DEF Next, WriterStep
  <1> SUFFICES ASSUME ~Crash PROVE ReplayInv'
    BY <1>1
  <1>b. /\ ~serving
        /\ Len(replaying) <= Len(wal)
        /\ \A i \in 1..Len(replaying) : replaying[i] = wal[Len(wal) - Len(replaying) + i]
    BY <1>a DEF ReplayInv
  <1>c. ready => /\ \A k \in Commands : k \in seen \/ results[k] # <<>> => Kept(k)
                 /\ \A o \in Orders : o \in seen => \/ orders[o] # Absent
                      \/ \E k \in Commands : \E i \in 1..Attempts : Kept(k) /\ o = OrderNamed[k][i]
                 /\ \A i \in 1..(Len(wal) - Len(replaying)) :
                      \/ Handled(wal[i])
                      \/ i = Len(wal) - Len(replaying) /\ Deciding(wal[i])
    BY <1>a DEF ReplayInv
  \* No step but a crash loses what is kept.
  <1>d. ASSUME NEW k \in Commands, Kept(k), UNCHANGED <<queue, processed>>,
               writer'.rows = writer.rows \/ writer.rows = <<>>
        PROVE  Kept(k)'
    <2>1. writer.rows = <<>> => Len(writer.rows) = 0 /\ 1..0 = {}
      OBVIOUS
    <2> QED
      BY <1>d, <2>1 DEF Kept
  <1>2. ASSUME ReplayNext PROVE ReplayInv'
    <2>1. /\ writer.pc = "idle" /\ replaying # <<>>
          /\ writer'.pc = "decide" /\ writer'.on = Head(replaying) /\ writer'.rows = writer.rows
          /\ replaying' = Tail(replaying)
          /\ UNCHANGED <<wal, results, processed, orders, queue, seen, ready>>
      BY <1>2 DEF ReplayNext, Handle, Idle, logVars, writerVars, database, memory, Base, TypeInv
    <2>2. /\ Len(Tail(replaying)) = Len(replaying) - 1
          /\ \A i \in 1..Len(Tail(replaying)) : Tail(replaying)[i] = replaying[i + 1]
      BY <1>0, <2>1, HeadTailProperties
    <2>3. Head(replaying) = replaying[1] /\ 1 \in 1..Len(replaying)
      BY <1>0, <2>1
    <2> DEFINE n == Len(wal) - Len(replaying)
    <2>4. /\ n \in Nat /\ Len(wal) - Len(replaying') = n + 1
          /\ wal[n + 1] = writer'.on
      <3>1. replaying[1] = wal[n + 1]
        BY <1>b, <2>3
      <3> QED
        BY <1>0, <1>b, <2>1, <2>2, <2>3, <3>1
    <2>5. ASSUME NEW i \in 1..Len(replaying')
          PROVE  replaying'[i] = wal[(n + 1) + i]
      <3>1. replaying'[i] = replaying[i + 1] /\ i + 1 \in 1..Len(replaying)
        BY <1>0, <2>1, <2>2
      <3>2. replaying[i + 1] = wal[n + (i + 1)] /\ n + (i + 1) = (n + 1) + i
        BY <1>b, <2>4, <3>1
      <3> QED
        BY <3>1, <3>2
    <2>6. ASSUME ready, NEW i \in 1..(n + 1)
          PROVE  Handled(wal[i]) \/ (i = n + 1 /\ Deciding(wal[i])')
      <3>1. CASE i \in 1..n
        BY <1>c, <2>1, <2>6, <3>1 DEF Deciding
      <3>2. CASE i = n + 1
        BY <2>1, <2>4, <3>2 DEF Deciding
      <3> QED
        BY <2>4, <3>1, <3>2
    <2>7. Len(replaying') <= Len(wal)
      BY <1>0, <1>b, <2>1, <2>2
    <2>8. \A k \in Commands : Kept(k)' <=> Kept(k)
      BY <2>1 DEF Kept
    <2>9. ASSUME ready, NEW i \in 1..(n + 1)
          PROVE  Handled(wal[i])' \/ (i = n + 1 /\ Deciding(wal[i])')
      <3>1. i \in 1..Len(wal) /\ wal[i].command \in Commands
        BY <1>0, <1>b, <2>1, <2>4, <2>2, <2>9 DEF Sending
      <3>2. Handled(wal[i]) => Handled(wal[i])'
        BY <2>1, <2>8, <3>1 DEF Handled
      <3> QED
        BY <2>6, <2>9, <3>2
    <2> HIDE DEF n
    <2> QED
      BY <1>c, <2>1, <2>4, <2>5, <2>7, <2>8, <2>9 DEF ReplayInv
  \* The other steps hand nothing over, and what is handled stays so.
  <1>3. ASSUME UNCHANGED <<wal, replaying, orders, ready>>,
               \A k \in Commands : Kept(k) => Kept(k)',
               ready => \A k \in Commands : k \in seen' \/ results'[k] # <<>> => Kept(k)',
               ready => \A o \in Orders : o \in seen' => \/ orders[o] # Absent
                      \/ \E k \in Commands : \E i \in 1..Attempts : Kept(k)' /\ o = OrderNamed[k][i],
               ready => \A i \in 1..Len(wal) : Deciding(wal[i]) => Handled(wal[i])' \/ Deciding(wal[i])'
        PROVE  ReplayInv'
    <2>1. ASSUME ready, NEW i \in 1..(Len(wal) - Len(replaying))
          PROVE  Handled(wal[i])' \/ (i = Len(wal) - Len(replaying) /\ Deciding(wal[i])')
      <3>1. i \in 1..Len(wal) /\ wal[i].command \in Commands
        BY <1>0, <2>1 DEF Sending
      <3>2. Handled(wal[i]) => Handled(wal[i])'
        BY <1>3, <3>1 DEF Handled
      <3>3. Handled(wal[i]) \/ (i = Len(wal) - Len(replaying) /\ Deciding(wal[i]))
        BY <1>c, <2>1
      <3>4. Deciding(wal[i]) => Handled(wal[i])' \/ Deciding(wal[i])'
        BY <1>3, <2>1, <3>1
      <3> QED
        BY <3>2, <3>3, <3>4
    <2>2. ready' => \A i \in 1..(Len(wal') - Len(replaying')) :
             Handled(wal[i])' \/ (i = Len(wal') - Len(replaying') /\ Deciding(wal[i])')
      BY <1>3, <2>1
    <2> QED
      BY <1>3, <1>b, <2>2 DEF ReplayInv
  \* Nor do they decide anything, some of them.
  <1>4. ASSUME UNCHANGED <<wal, replaying, orders, ready, seen>>,
               \A k \in Commands : results'[k] # <<>> => results[k] # <<>>,
               \A k \in Commands : Kept(k) => Kept(k)',
               ready => \A i \in 1..Len(wal) : Deciding(wal[i]) => Handled(wal[i])' \/ Deciding(wal[i])'
        PROVE  ReplayInv'
    <2>1. ready => \A k \in Commands : k \in seen' \/ results'[k] # <<>> => Kept(k)'
      BY <1>4, <1>c
    <2>2. ready => \A o \in Orders : o \in seen' => \/ orders[o] # Absent
                      \/ \E k \in Commands : \E i \in 1..Attempts : Kept(k)' /\ o = OrderNamed[k][i]
      BY <1>4, <1>c
    <2> QED
      BY <1>3, <1>4, <2>1, <2>2
  <1>5. ASSUME EnqueueRow PROVE ReplayInv'
    <2>1. UNCHANGED <<wal, replaying, orders, ready, results, seen>> /\ writer.pc = "rows"
      BY <1>5 DEF EnqueueRow, logVars, database, memory
    <2>2. \A k \in Commands : Kept(k) => Kept(k)'
      BY <1>5, QueuedIsKept
    <2> QED
      BY <1>4, <2>1, <2>2 DEF Deciding
  <1>6. ASSUME FinishUnanswered \/ UNCHANGED vars \/ \E k \in Commands : Evict(k) PROVE ReplayInv'
    <2>1. /\ UNCHANGED <<wal, replaying, orders, processed, queue, ready, seen>>
          /\ writer'.rows = writer.rows \/ writer.rows = <<>>
      BY <1>6 DEF FinishUnanswered, Finished, Evict, vars, logVars, writerVars, database, memory
    <2>2. \A k \in Commands : results'[k] # <<>> => results[k] # <<>>
      BY <1>6 DEF FinishUnanswered, Evict, vars, memory, Base, TypeInv, TypeOK
    <2>3. \A k \in Commands : Kept(k) => Kept(k)'
      BY <1>d, <2>1
    <2>4. ASSUME NEW i \in 1..Len(wal), Deciding(wal[i]) PROVE Deciding(wal[i])'
      BY <1>6, <2>1, <2>4 DEF Deciding, FinishUnanswered, Finished, Evict, vars
    <2> QED
      BY <1>4, <2>1, <2>2, <2>3, <2>4
  <1>7. ASSUME NEW s \in Sending, DecideRepeat(s) PROVE ReplayInv'
    <2>1. /\ UNCHANGED <<wal, replaying, processed, orders, queue, ready, results, seen>>
          /\ Deciding(s) /\ writer'.rows = writer.rows
      BY <1>7 DEF DecideRepeat, logVars, writerVars, database, memory, Base, TypeInv, TypeOK
    <2>2. /\ s.command \in Commands /\ s.order \in Orders /\ Named(s)
      BY <2>1 DEF Sending, AllNamed, Deciding
    <2>a. \A k \in Commands : Kept(k) => Kept(k)'
      BY <1>d, <2>1
    <2>3. ASSUME ready PROVE Handled(s)
      <3>1. CASE ~IsNew(s.command)
        BY <1>c, <2>2, <2>3, <3>1 DEF IsNew, PossiblySeen, Handled
      <3>2. CASE PossiblySeen(s.order)
        <4>1. CASE orders[s.order] # Absent
          BY <4>1 DEF Handled
        <4>2. CASE \E k \in Commands : \E i \in 1..Attempts : Kept(k) /\ s.order = OrderNamed[k][i]
          <5>1. PICK k \in Commands : \E i \in 1..Attempts : Kept(k) /\ s.order = OrderNamed[k][i]
            BY <4>2
          <5>2. s.command = k
            BY <2>2, <5>1, NameTellsCommand
          <5> QED
            BY <5>1, <5>2 DEF Handled
        <4> QED
          BY <1>c, <2>2, <2>3, <3>2, <4>1, <4>2 DEF PossiblySeen
      <3> QED
        BY <1>7, <3>1, <3>2 DEF DecideRepeat
    <2>4. ASSUME ready, NEW i \in 1..Len(wal), Deciding(wal[i]) PROVE Handled(wal[i])'
      <3>1. wal[i] = s
        BY <2>1, <2>4 DEF Deciding
      <3>2. Handled(s)'
        BY <2>1, <2>2, <2>a, <2>3, <2>4 DEF Handled
      <3> QED
        BY <2>1, <3>1, <3>2 DEF Handled
    <2> QED
      BY <1>4, <2>1, <2>a, <2>4
  <1>8. ASSUME NEW s \in Sending, NEW reply \in Results, NEW rows, NEW ids \in SUBSET {s.order},
               Deciding(s), Decided(s, reply, rows, ids),
               \E i \in 1..Len(rows) : rows[i][1] = "processed" /\ rows[i][2].id = s.command,
               UNCHANGED <<wal, replaying, processed, orders, queue, ready>>
        PROVE  ReplayInv'
    <2>1. s.command \in Commands /\ s.order \in Orders /\ Named(s)
      BY <1>8 DEF Sending, AllNamed, Deciding
    <2>2. /\ seen' = seen \cup {s.command} \cup ids
          /\ \A k \in Commands : results'[k] = IF k = s.command THEN reply ELSE results[k]
          /\ writer'.rows = rows /\ writer.rows = <<>>
      BY <1>8 DEF Decided, Deciding, Base, TypeInv, TypeOK
    <2>3. \A k \in Commands : Kept(k) => Kept(k)'
      BY <1>d, <1>8, <2>2
    <2>a. Kept(s.command)'
      BY <1>8, <2>2 DEF Kept
    <2>4. ready => \A k \in Commands : k \in seen' \/ results'[k] # <<>> => Kept(k)'
      BY <1>0, <1>8, <1>c, <2>1, <2>2, <2>3, <2>a
    <2>5. ASSUME ready, NEW o \in Orders, o \in seen'
          PROVE  \/ orders[o] # Absent
                 \/ \E k \in Commands : \E i \in 1..Attempts : Kept(k)' /\ o = OrderNamed[k][i]
      <3>1. CASE o \in seen
        BY <1>c, <2>3, <2>5, <3>1
      <3>2. CASE o = s.order
        BY <2>1, <2>a, <3>2 DEF Named
      <3> QED
        BY <1>0, <1>8, <2>1, <2>2, <2>5, <3>1, <3>2
    <2>6. ASSUME NEW i \in 1..Len(wal), Deciding(wal[i]) PROVE Handled(wal[i])'
      <3>1. wal[i] = s /\ wal' = wal
        BY <1>8, <2>6 DEF Deciding
      <3> QED
        BY <2>a, <3>1 DEF Handled
    <2> QED
      BY <1>3, <1>8, <2>3, <2>4, <2>5, <2>6
  <1>9. ASSUME NEW s \in Sending, DecideConflict(s) PROVE ReplayInv'
    <2> DEFINE result == <<"conflict", s.order>>  rows == <<<<"processed", Row(s.command, result)>>>>
    <2>1. result \in Results /\ {} \in SUBSET {s.order}
      BY DEF Results, Sending
    <2>2. 1 \in 1..Len(rows) /\ rows[1][1] = "processed" /\ rows[1][2].id = s.command
      BY DEF Row
    <2>3. /\ Deciding(s) /\ Decided(s, result, rows, {})
          /\ UNCHANGED <<wal, replaying, processed, orders, queue, ready>>
      BY <1>9 DEF DecideConflict, logVars, writerVars, database
    <2> HIDE DEF result, rows
    <2> QED
      BY <1>8, <2>1, <2>2, <2>3
  <1>10. ASSUME NEW s \in Sending, DecideCreate(s) PROVE ReplayInv'
    <2> DEFINE result == <<"created", s.order>>  rows == RowsOfCreate(s)
    <2>1. result \in Results /\ {s.order} \in SUBSET {s.order}
      BY DEF Results, Sending
    <2>2. 3 \in 1..Len(rows) /\ rows[3][1] = "processed" /\ rows[3][2].id = s.command
      BY DEF RowsOfCreate, Row
    <2>3. /\ Deciding(s) /\ Decided(s, result, rows, {s.order})
          /\ UNCHANGED <<wal, replaying, processed, orders, queue, ready>>
      BY <1>10 DEF DecideCreate, logVars, writerVars, database
    <2> HIDE DEF result, rows
    <2> QED
      BY <1>8, <2>1, <2>2, <2>3
  <1> QED
    BY <1>a, <1>2, <1>5, <1>6, <1>7, <1>9, <1>10 DEF Decide

\* When the ring starts after a replay over an index that was loaded, the result of each
\* record of the log is queued, or it or its order is in the database: the safe point
\* that StartServing moves past them passes nothing that was not handled
\* (OrderCommandReplayHarness and markSafePoint).
THEOREM ReplayLeavesNothingOut == Spec => ReplayHandlesEveryRecord
  <1> DEFINE Inv == Base /\ AllNamed /\ ReplayInv
             Step == ~serving /\ serving' /\ ready => \A i \in 1..Len(wal) :
                        \/ About(queue["processed"], wal[i].command) # {}
                        \/ processed[wal[i].command] # <<>>
                        \/ orders[wal[i].order] # Absent
  <1>1. Init => Inv
    <2>1. Init => ReplayInv
      BY DEF Init, ReplayInv
    <2> QED
      BY <2>1, BaseInit, AnswersInit
  <1>2. Inv /\ [Next]_vars => Inv'
    BY BaseStep, AllNamedStep, ReplayInvStep
  <1>3. Inv /\ [Next]_vars => [Step]_vars
    <2> SUFFICES ASSUME Base, ReplayInv, [Next]_vars, ~serving, serving', ready,
                        NEW i \in 1..Len(wal)
                 PROVE  \/ About(queue["processed"], wal[i].command) # {}
                        \/ processed[wal[i].command] # <<>>
                        \/ orders[wal[i].order] # Absent
      OBVIOUS
    <2>1. StartServing
      BY DEF Next, WriterStep, Accept, RefuseUnlogged, Sent, Evict, Fill, Answer, Flush,
         Decide, DecideRepeat, DecideConflict, DecideCreate, EnqueueRow, FinishUnanswered, ReplayNext,
         Crash, vars
    <2>2. writer.pc = "idle" /\ Len(replaying) = 0 /\ writer.rows = <<>> /\ Len(<<>>) = 0 /\ 1..0 = {}
      BY <2>1 DEF StartServing, Base, TypeInv
    <2>3. wal \in Seq(Sending) /\ Len(wal) - 0 = Len(wal)
      BY LenProperties DEF Base, TypeInv, TypeOK
    <2>4. i \in 1..(Len(wal) - Len(replaying))
      BY <2>2, <2>3
    <2>5. Kept(wal[i].command) \/ orders[wal[i].order] # Absent
      BY <2>2, <2>4 DEF ReplayInv, Deciding, Handled
    <2> QED
      BY <2>2, <2>5 DEF Kept, About
  <1> HIDE DEF Inv, Step
  <1>4. Spec => [][Step]_vars
    BY <1>1, <1>2, <1>3, PTL DEF Spec
  <1> QED
    BY <1>4 DEF Step, ReplayHandlesEveryRecord
=============================================================================

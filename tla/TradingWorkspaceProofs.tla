----------------------- MODULE TradingWorkspaceProofs -----------------------
(***************************************************************************)
(* Theorems about TradingWorkspace, for any orders, versions, events on    *)
(* the wire, calls in progress and reviews.                                *)
(***************************************************************************)
EXTENDS TradingWorkspace, SequenceTheorems, TLAPS

----------------------------------------------------------------------------
(* The service and its stream.                                             *)

\* Nothing is committed, published or on its way that is not in memory.
Bounded(m) ==
    \A o \in Orders : /\ db[o] <= m[o] /\ snap[o] <= m[o] /\ again[o] <= m[o]
                      /\ \A v \in owed[o] : v <= m[o]
                      /\ \A v \in reports[o] : v <= m[o]
                      /\ \A i \in 1..Len(wire[o]) : wire[o][i] <= m[o]

StreamInv == StreamTypeOK /\ Bounded(mem)

\* An order in memory is never set back.
Rises == \A o \in Orders : mem[o] <= mem'[o]

LEMMA VersionsAre == Versions \subseteq Nat /\ MaxVersion \in Nat \ {0}
BY OrderStreamAssumption DEF Versions

LEMMA StreamNumbers ==
    ASSUME StreamInv
    PROVE  /\ \A o \in Orders : /\ db[o] \in Nat /\ mem[o] \in Nat /\ snap[o] \in Nat /\ again[o] \in Nat
                              /\ mem[o] <= MaxVersion /\ db[o] <= mem[o]
                              /\ owed[o] \subseteq Nat /\ reports[o] \subseteq Nat
           /\ \A o \in Orders : /\ Len(wire[o]) \in Nat
                              /\ \A i \in 1..Len(wire[o]) : wire[o][i] \in Nat \ {0}
<1>1. ASSUME NEW o \in Orders
      PROVE  Len(wire[o]) \in Nat /\ \A i \in 1..Len(wire[o]) : wire[o][i] \in Versions \ {0}
  BY ElementOfSeq, LenProperties DEF StreamInv, StreamTypeOK
<1>2. ASSUME NEW o \in Orders
      PROVE  owed[o] \subseteq Versions /\ reports[o] \subseteq Versions
  BY DEF StreamInv, StreamTypeOK
<1> QED
  BY <1>1, <1>2 DEF StreamInv, StreamTypeOK, Bounded, Versions

LEMMA Unmoved == ASSUME StreamInv, UNCHANGED mem PROVE Rises
BY StreamNumbers DEF Rises

\* A bound that rises bounds what was bounded.
LEMMA BoundRises ==
    ASSUME StreamInv, NEW m \in [Orders -> Versions], \A o \in Orders : mem[o] <= m[o]
    PROVE  Bounded(m)
<1> SUFFICES ASSUME NEW o \in Orders
             PROVE  /\ db[o] <= m[o] /\ snap[o] <= m[o] /\ again[o] <= m[o]
                    /\ \A v \in owed[o] : v <= m[o]
                    /\ \A v \in reports[o] : v <= m[o]
                    /\ \A i \in 1..Len(wire[o]) : wire[o][i] <= m[o]
  BY DEF Bounded
<1>1. mem[o] \in Nat /\ m[o] \in Nat /\ mem[o] <= m[o]
  BY StreamNumbers, VersionsAre
<1>2. \A v \in Nat : v <= mem[o] => v <= m[o]
  BY <1>1
<1>3. /\ db[o] \in Nat /\ snap[o] \in Nat /\ again[o] \in Nat
      /\ owed[o] \subseteq Nat /\ reports[o] \subseteq Nat
      /\ \A i \in 1..Len(wire[o]) : wire[o][i] \in Nat
  BY StreamNumbers
<1> QED
  BY <1>2, <1>3 DEF StreamInv, Bounded

LEMMA StreamStarts == StreamInit => StreamInv
<1> SUFFICES ASSUME StreamInit PROVE StreamInv
  OBVIOUS
<1>1. mem \in [Orders -> Versions] /\ \A o \in Orders : mem[o] \in Nat
  BY OrderStreamAssumption DEF StreamInit, Versions
<1>2. StreamTypeOK
  BY OrderStreamAssumption, EmptySeq DEF StreamInit, StreamTypeOK, Versions
<1>3. /\ db = mem /\ \A o \in Orders : /\ snap[o] = 0 /\ again[o] = 0 /\ owed[o] = {}
                                       /\ reports[o] = {} /\ Len(wire[o]) = 0
  BY EmptySeq DEF StreamInit
<1>4. ASSUME NEW o \in Orders PROVE 0 <= mem[o] /\ mem[o] <= mem[o] /\ 1..0 = {}
  BY <1>1
<1>5. Bounded(mem)
  BY <1>3, <1>4 DEF Bounded
<1> QED
  BY <1>2, <1>5 DEF StreamInv

LEMMA ChangeMoves ==
    ASSUME StreamInv, NEW o \in Orders, Change(o)
    PROVE  /\ mem' \in [Orders -> Versions] /\ doneAt' \in [Orders -> 1..(MaxVersion + 1)]
           /\ Rises /\ mem'[o] = mem[o] + 1 /\ mem'[o] \in Versions \ {0}
<1> USE DEF StreamInv, StreamTypeOK, Versions
<1>1. /\ mem' = [mem EXCEPT ![o] = @ + 1] /\ mem[o] < MaxVersion
      /\ doneAt' = doneAt \/ doneAt' = [doneAt EXCEPT ![o] = mem[o] + 1]
  BY DEF Change
<1>2. mem' \in [Orders -> Versions] /\ Rises /\ mem'[o] = mem[o] + 1
  BY <1>1, VersionsAre DEF Rises
<1>3. doneAt' \in [Orders -> 1..(MaxVersion + 1)]
  <2>1. mem[o] + 1 \in 1..(MaxVersion + 1)
    BY <1>1, VersionsAre
  <2> QED
    BY <1>1, <2>1
<1>5. mem'[o] \in Versions \ {0}
  BY <1>1, VersionsAre
<1> QED
  BY <1>2, <1>3, <1>5

\* New versions join those to be published, and everything else stays.
LEMMA JoinKeeps ==
    ASSUME StreamInv, Rises, mem' \in [Orders -> Versions], doneAt' \in [Orders -> 1..(MaxVersion + 1)],
           UNCHANGED <<db, again, sub, snap, sent, wire>>,
           owed' \in [Orders -> SUBSET (Versions \ {0})], reports' \in [Orders -> SUBSET (Versions \ {0})],
           \A o \in Orders : /\ \A v \in owed'[o] : v \in owed[o] \/ v = mem'[o]
                             /\ \A v \in reports'[o] : v \in reports[o] \/ v = mem'[o]
    PROVE  StreamInv'
<1>1. Bounded(mem')
  BY BoundRises DEF Rises
<1>2. \A o \in Orders : mem'[o] <= mem'[o]
  <2>1. \A o \in Orders : mem'[o] \in Nat
    BY VersionsAre
  <2> QED
    BY <2>1
<1>3. StreamTypeOK'
  BY DEF StreamInv, StreamTypeOK
<1>4. Bounded(mem)'
  BY <1>1, <1>2 DEF Bounded
<1> QED
  BY <1>3, <1>4 DEF StreamInv

LEMMA CommandKeepsStream ==
    ASSUME StreamInv, NEW o \in Orders, Command(o), UNCHANGED <<db, sub, snap, sent, wire>>
    PROVE  StreamInv' /\ Rises /\ mem'[o] = mem[o] + 1 /\ mem'[o] \in Versions \ {0}
<1>1. /\ Change(o) /\ owed' = [owed EXCEPT ![o] = owed[o] \cup {mem[o] + 1}]
      /\ UNCHANGED <<reports, again>>
  BY DEF Command
<1>2. /\ mem' \in [Orders -> Versions] /\ doneAt' \in [Orders -> 1..(MaxVersion + 1)]
      /\ Rises /\ mem'[o] = mem[o] + 1 /\ mem'[o] \in Versions \ {0}
  BY <1>1, ChangeMoves
<1>3. owed \in [Orders -> SUBSET (Versions \ {0})] /\ reports \in [Orders -> SUBSET (Versions \ {0})]
  BY DEF StreamInv, StreamTypeOK
<1>4. /\ owed' \in [Orders -> SUBSET (Versions \ {0})]
      /\ \A p \in Orders : \A v \in owed'[p] : v \in owed[p] \/ v = mem'[p]
  BY <1>1, <1>2, <1>3
<1> QED
  BY <1>1, <1>2, <1>3, <1>4, JoinKeeps

LEMMA ReportKeepsStream ==
    ASSUME StreamInv, NEW o \in Orders, VenueReport(o)
    PROVE  StreamInv' /\ Rises
<1>1. /\ Change(o) /\ reports' = [reports EXCEPT ![o] = reports[o] \cup {mem[o] + 1}]
      /\ UNCHANGED <<db, owed, again, sub, snap, sent, wire>>
  BY DEF VenueReport
<1>2. /\ mem' \in [Orders -> Versions] /\ doneAt' \in [Orders -> 1..(MaxVersion + 1)]
      /\ Rises /\ mem'[o] = mem[o] + 1 /\ mem'[o] \in Versions \ {0}
  BY <1>1, ChangeMoves
<1>3. owed \in [Orders -> SUBSET (Versions \ {0})] /\ reports \in [Orders -> SUBSET (Versions \ {0})]
  BY DEF StreamInv, StreamTypeOK
<1>4. /\ reports' \in [Orders -> SUBSET (Versions \ {0})]
      /\ \A p \in Orders : \A v \in reports'[p] : v \in reports[p] \/ v = mem'[p]
  BY <1>1, <1>2, <1>3
<1> QED
  BY <1>1, <1>2, <1>3, <1>4, JoinKeeps

\* A command that ends several orders at once (cancelAll).
LEMMA CancelAllKeeps ==
    ASSUME StreamInv, NEW s \in Slots, HandleCancelAll(s)
    PROVE  StreamInv' /\ Rises
<1> DEFINE hit == {o \in Orders : mem[o] \in 1..(MaxVersion - 1) /\ ~Ended(o, mem[o])}
<1>1. /\ mem' = [o \in Orders |-> IF o \in hit THEN mem[o] + 1 ELSE mem[o]]
      /\ doneAt' = [o \in Orders |-> IF o \in hit THEN mem[o] + 1 ELSE doneAt[o]]
      /\ owed' = [o \in Orders |-> IF o \in hit THEN owed[o] \cup {mem[o] + 1} ELSE owed[o]]
      /\ UNCHANGED <<reports, again, db, sub, snap, sent, wire>>
  BY DEF HandleCancelAll, Answer
<1>0. \A o \in Orders : mem[o] \in Nat /\ mem[o] <= MaxVersion
  BY StreamNumbers
<1>2. ASSUME NEW o \in hit PROVE mem[o] + 1 \in Versions \ {0} /\ mem[o] + 1 \in 1..(MaxVersion + 1)
  <2>1. mem[o] \in 1..(MaxVersion - 1)
    OBVIOUS
  <2> QED
    BY <2>1, VersionsAre DEF Versions
<1>3. /\ mem \in [Orders -> Versions] /\ doneAt \in [Orders -> 1..(MaxVersion + 1)]
      /\ owed \in [Orders -> SUBSET (Versions \ {0})] /\ reports \in [Orders -> SUBSET (Versions \ {0})]
  BY DEF StreamInv, StreamTypeOK
<1> HIDE DEF hit
<1>4. mem' \in [Orders -> Versions] /\ doneAt' \in [Orders -> 1..(MaxVersion + 1)]
  BY <1>1, <1>2, <1>3
<1>5. \A o \in Orders : mem'[o] = mem[o] \/ mem'[o] = mem[o] + 1
  BY <1>1
<1>6. Rises
  BY <1>0, <1>5 DEF Rises
<1>7. /\ owed' \in [Orders -> SUBSET (Versions \ {0})]
      /\ \A o \in Orders : \A v \in owed'[o] : v \in owed[o] \/ v = mem'[o]
  BY <1>1, <1>2, <1>3
<1> QED
  BY <1>1, <1>3, <1>4, <1>6, <1>7, JoinKeeps

LEMMA EmitKeeps ==
    ASSUME StreamInv, NEW o \in Orders, NEW v \in Versions \ {0}, v <= mem[o], Emit(o, v)
    PROVE  /\ wire' \in [Orders -> Seq(Versions \ {0})] /\ sent' \in [Orders -> Versions]
           /\ \A p \in Orders : \A i \in 1..Len(wire'[p]) : wire'[p][i] <= mem[p]
<1>1. wire' = [wire EXCEPT ![o] = Append(wire[o], v)] /\ sent' = [sent EXCEPT ![o] = v]
  BY DEF Emit
<1>2. wire \in [Orders -> Seq(Versions \ {0})] /\ sent \in [Orders -> Versions]
  BY DEF StreamInv, StreamTypeOK
<1>3. /\ Append(wire[o], v) \in Seq(Versions \ {0}) /\ Len(Append(wire[o], v)) = Len(wire[o]) + 1
      /\ \A i \in 1..Len(wire[o]) : Append(wire[o], v)[i] = wire[o][i]
      /\ Append(wire[o], v)[Len(wire[o]) + 1] = v
      /\ Len(wire[o]) \in Nat
  BY <1>2, AppendProperties, LenProperties
<1>4. \A i \in 1..Len(Append(wire[o], v)) : Append(wire[o], v)[i] <= mem[o]
  BY <1>3 DEF StreamInv, Bounded
<1>5. \A p \in Orders : wire'[p] = IF p = o THEN Append(wire[o], v) ELSE wire[p]
  BY <1>1, <1>2
<1>6. ASSUME NEW p \in Orders, NEW i \in 1..Len(wire'[p]) PROVE wire'[p][i] <= mem[p]
  BY <1>4, <1>5, <1>6 DEF StreamInv, Bounded
<1> QED
  BY <1>1, <1>2, <1>3, <1>6

LEMMA ClosedKeeps ==
    ASSUME StreamInv, Close
    PROVE  StreamInv' /\ Rises
<1>1. /\ sub' = "none" /\ snap' = [o \in Orders |-> 0] /\ sent' = [o \in Orders |-> 0]
      /\ wire' = [o \in Orders |-> <<>>] /\ UNCHANGED <<mem, doneAt, db, owed, reports, again>>
  BY DEF Close, eventVars
<1>2. \A o \in Orders : snap'[o] = 0 /\ wire'[o] = <<>> /\ Len(wire'[o]) = 0
  BY <1>1, EmptySeq
<1>3. 0 \in Versions /\ <<>> \in Seq(Versions \ {0})
  BY VersionsAre, EmptySeq DEF Versions
<1>4. \A o \in Orders : mem[o] \in Nat
  BY StreamNumbers
<1>5. StreamTypeOK'
  BY <1>1, <1>3 DEF StreamInv, StreamTypeOK
<1>6. Bounded(mem)'
  BY <1>1, <1>2, <1>4 DEF StreamInv, Bounded
<1> QED
  BY <1>1, <1>5, <1>6, Unmoved DEF StreamInv

\* What a shard takes was to be published.
LEMMA TakeKeeps ==
    ASSUME StreamInv, NEW o \in Orders, NEW v \in Versions, Take(o, v), UNCHANGED mem
    PROVE  /\ v \in Versions \ {0} /\ v <= mem[o]
           /\ owed' \in [Orders -> SUBSET (Versions \ {0})] /\ reports' \in [Orders -> SUBSET (Versions \ {0})]
           /\ again' \in [Orders -> Versions]
           /\ \A p \in Orders : /\ again'[p] <= mem[p]
                                /\ owed'[p] \subseteq owed[p] /\ reports'[p] \subseteq reports[p]
<1>1. /\ owed \in [Orders -> SUBSET (Versions \ {0})] /\ reports \in [Orders -> SUBSET (Versions \ {0})]
      /\ again \in [Orders -> Versions]
      /\ \A p \in Orders : /\ again[p] <= mem[p]
                           /\ \A w \in owed[p] : w <= mem[p]
                           /\ \A w \in reports[p] : w <= mem[p]
  BY DEF StreamInv, StreamTypeOK, Bounded
<1>2. CASE TakeRow(o, v)
  <2>1. /\ v \in owed[o] /\ owed' = [owed EXCEPT ![o] = owed[o] \ {v}]
        /\ again' = [again EXCEPT ![o] = v] /\ reports' = reports
    BY <1>2 DEF TakeRow, Lowest
  <2> QED
    BY <1>1, <2>1
<1>3. CASE TakeReport(o, v)
  <2>1. /\ v \in reports[o] /\ reports' = [reports EXCEPT ![o] = reports[o] \ {v}]
        /\ again' = again /\ owed' = owed
    BY <1>3 DEF TakeReport, Lowest
  <2> QED
    BY <1>1, <2>1
<1> QED
  BY <1>2, <1>3 DEF Take

LEMMA StreamGoesOn ==
    ASSUME StreamInv,
           \/ Flush \/ ReadProjection \/ AddSubscription
           \/ \E o \in Orders : \/ Deliver(o) \/ PublishAgain(o) \/ Delivered(o) \/ VenueReport(o)
                                \/ \E v \in Versions : DropEvent(o, v)
    PROVE  StreamInv' /\ Rises
<1>0. /\ \A o \in Orders : /\ db[o] \in Nat /\ mem[o] \in Nat /\ snap[o] \in Nat /\ again[o] \in Nat
                           /\ mem[o] <= MaxVersion /\ db[o] <= mem[o]
      /\ mem \in [Orders -> Versions] /\ db \in [Orders -> Versions]
      /\ snap \in [Orders -> Versions] /\ again \in [Orders -> Versions]
  BY StreamNumbers DEF StreamInv, StreamTypeOK
<1>1. CASE Flush
  <2>1. db' = mem /\ UNCHANGED <<mem, doneAt, owed, reports, again, sub, snap, sent, wire>>
    BY <1>1 DEF Flush, eventVars
  <2>2. ASSUME NEW o \in Orders PROVE mem[o] <= mem[o]
    <3>1. mem[o] \in Nat
      BY <1>0
    <3> QED
      BY <3>1
  <2> QED
    BY <2>1, <2>2, <1>0, Unmoved DEF StreamInv, StreamTypeOK, Bounded
<1>2. CASE ReadProjection
  <2>1. sub' = "read" /\ snap' = db /\ UNCHANGED <<mem, doneAt, db, owed, reports, again, sent, wire>>
    BY <1>2 DEF ReadProjection, eventVars
  <2> QED
    BY <2>1, <1>0, Unmoved DEF StreamInv, StreamTypeOK, Bounded
<1>3. CASE AddSubscription
  <2>1. sub' = "added" /\ UNCHANGED <<mem, doneAt, db, owed, reports, again, snap, sent, wire>>
    BY <1>3 DEF AddSubscription, eventVars
  <2> QED
    BY <2>1, Unmoved DEF StreamInv, StreamTypeOK, Bounded
<1>4. ASSUME NEW o \in Orders, NEW v \in Versions, Publish(o, v) PROVE StreamInv' /\ Rises
  <2>1. Take(o, v) /\ UNCHANGED <<mem, doneAt, db, sub, snap>> /\ (Emit(o, v) \/ UNCHANGED <<wire, sent>>)
    BY <1>4 DEF Publish
  <2>2. /\ v \in Versions \ {0} /\ v <= mem[o]
        /\ owed' \in [Orders -> SUBSET (Versions \ {0})] /\ reports' \in [Orders -> SUBSET (Versions \ {0})]
        /\ again' \in [Orders -> Versions]
        /\ \A p \in Orders : /\ again'[p] <= mem[p]
                             /\ owed'[p] \subseteq owed[p] /\ reports'[p] \subseteq reports[p]
    BY <2>1, TakeKeeps
  <2>3. /\ wire' \in [Orders -> Seq(Versions \ {0})] /\ sent' \in [Orders -> Versions]
        /\ \A p \in Orders : \A i \in 1..Len(wire'[p]) : wire'[p][i] <= mem[p]
    <3>1. CASE Emit(o, v)
      BY <3>1, <2>2, EmitKeeps
    <3>2. CASE UNCHANGED <<wire, sent>>
      BY <3>2 DEF StreamInv, StreamTypeOK, Bounded
    <3> QED
      BY <2>1, <3>1, <3>2
  <2>4. StreamTypeOK'
    BY <2>1, <2>2, <2>3 DEF StreamInv, StreamTypeOK
  <2>5. Bounded(mem)'
    BY <2>1, <2>2, <2>3 DEF StreamInv, Bounded
  <2> QED
    BY <2>1, <2>4, <2>5, Unmoved DEF StreamInv
<1>5. ASSUME NEW o \in Orders, SendInitial(o) PROVE StreamInv' /\ Rises
  <2>1. snap[o] > 0 /\ Emit(o, snap[o]) /\ snap' = [snap EXCEPT ![o] = 0]
        /\ UNCHANGED <<mem, doneAt, db, owed, reports, again, sub>>
    BY <1>5 DEF SendInitial, eventVars
  <2>2. snap[o] \in Versions \ {0} /\ snap[o] <= mem[o]
    BY <2>1, <1>0, VersionsAre DEF Versions, StreamInv, Bounded
  <2>3. /\ wire' \in [Orders -> Seq(Versions \ {0})] /\ sent' \in [Orders -> Versions]
        /\ \A p \in Orders : \A i \in 1..Len(wire'[p]) : wire'[p][i] <= mem[p]
    BY <2>1, <2>2, EmitKeeps
  <2>4. snap' \in [Orders -> Versions] /\ \A p \in Orders : snap'[p] <= mem[p]
    <3>1. 0 \in Versions
      BY VersionsAre DEF Versions
    <3>2. \A p \in Orders : 0 <= mem[p] /\ snap[p] <= mem[p]
      BY <1>0, VersionsAre DEF StreamInv, Bounded
    <3> QED
      BY <2>1, <3>1, <3>2, <1>0
  <2> QED
    BY <2>1, <2>3, <2>4, Unmoved DEF StreamInv, StreamTypeOK, Bounded
<1>6. ASSUME NEW o \in Orders, PublishAgain(o) PROVE StreamInv' /\ Rises
  <2>1. again[o] > 0 /\ Emit(o, again[o]) /\ UNCHANGED <<mem, doneAt, db, owed, reports, again, sub, snap>>
    BY <1>6 DEF PublishAgain, eventVars
  <2>2. again[o] \in Versions \ {0} /\ again[o] <= mem[o]
    BY <2>1, <1>0, VersionsAre DEF Versions, StreamInv, Bounded
  <2>3. /\ wire' \in [Orders -> Seq(Versions \ {0})] /\ sent' \in [Orders -> Versions]
        /\ \A p \in Orders : \A i \in 1..Len(wire'[p]) : wire'[p][i] <= mem[p]
    BY <2>1, <2>2, EmitKeeps
  <2> QED
    BY <2>1, <2>3, Unmoved DEF StreamInv, StreamTypeOK, Bounded
<1>7. ASSUME NEW o \in Orders, NEW v \in Versions, DropEvent(o, v) PROVE StreamInv' /\ Rises
  <2>1. Take(o, v) /\ UNCHANGED <<mem, doneAt, db, sub, snap, sent, wire>>
    BY <1>7 DEF DropEvent
  <2>2. /\ owed' \in [Orders -> SUBSET (Versions \ {0})] /\ reports' \in [Orders -> SUBSET (Versions \ {0})]
        /\ again' \in [Orders -> Versions]
        /\ \A p \in Orders : /\ again'[p] <= mem[p]
                             /\ owed'[p] \subseteq owed[p] /\ reports'[p] \subseteq reports[p]
    BY <2>1, TakeKeeps
  <2> QED
    BY <2>1, <2>2, Unmoved DEF StreamInv, StreamTypeOK, Bounded
<1>8. ASSUME NEW o \in Orders, Delivered(o) PROVE StreamInv' /\ Rises
  <2>1. /\ again' = [again EXCEPT ![o] = 0]
        /\ UNCHANGED <<mem, doneAt, db, owed, reports, sub, snap, sent, wire>>
    BY <1>8 DEF Delivered
  <2>2. again' \in [Orders -> Versions] /\ \A p \in Orders : again'[p] <= mem[p]
    <3>1. 0 \in Versions
      BY VersionsAre DEF Versions
    <3>2. \A p \in Orders : 0 <= mem[p] /\ again[p] <= mem[p]
      BY <1>0, VersionsAre DEF StreamInv, Bounded
    <3> QED
      BY <2>1, <3>1, <3>2, <1>0
  <2> QED
    BY <2>1, <2>2, Unmoved DEF StreamInv, StreamTypeOK, Bounded
<1> QED
  BY <1>1, <1>2, <1>3, <1>4, <1>5, <1>6, <1>7, <1>8, ReportKeepsStream DEF Deliver

----------------------------------------------------------------------------
(* The page: rows, ticket and calls.                                       *)

\* What is shown was in memory once.
Shows(r, m) ==
    /\ r \in [Orders -> Seq(Versions \ {0})]
    /\ \A o \in Orders : \A i \in 1..Len(r[o]) : r[o][i] <= m[o]

\* A call names an order where its kind has one, and an answer has what the page reads.
GoodCall(c, m) ==
    /\ c \in Calls
    /\ \A o \in Orders : c.got[o] <= m[o]
    /\ c.kind \in {"modify", "cancel"} => c.order \in Orders
    /\ c.kind = "modify" => c.base <= m[c.order]
    /\ c.answer = "ok" /\ c.kind \in {"create", "modify"} => \E o \in Orders : c.got[o] > 0
    /\ c.answer = "ok" /\ c.kind = "cancel" => c.got[c.order] > 0

GoodCalls(f, m) ==
    /\ f \in [Slots -> Calls \cup {None}]
    /\ \A s \in Slots : f[s] # None => GoodCall(f[s], m)

GoodTicket(t, m) ==
    /\ t \in [order : Orders \cup {None}, version : Versions]
    /\ t # NoTicket => t.order \in Orders /\ t.version <= m[t.order]

PageInv ==
    /\ StreamInv
    /\ Shows(rows, mem) /\ GoodCalls(calls, mem) /\ GoodTicket(ticket, mem)
    /\ page \in {"loading", "ready", "out"}
    /\ reviewing \in BOOLEAN /\ submitting \in BOOLEAN
    /\ intents \in 0..MaxIntents /\ intent \in 0..intents
    /\ made \in [Orders -> 0..MaxIntents]

\* None of it is unsettled when memory goes on.
LEMMA StillGood ==
    ASSUME PageInv, StreamInv', Rises
    PROVE  Shows(rows, mem') /\ GoodCalls(calls, mem') /\ GoodTicket(ticket, mem')
<1>0. \A o \in Orders : mem[o] \in Nat /\ mem'[o] \in Nat /\ mem[o] <= mem'[o]
  <2>1. \A o \in Orders : mem[o] \in Versions /\ mem'[o] \in Versions
    BY DEF PageInv, StreamInv, StreamTypeOK
  <2> QED
    BY <2>1, VersionsAre DEF Rises
<1>1. Shows(rows, mem')
  <2> SUFFICES ASSUME NEW o \in Orders, NEW i \in 1..Len(rows[o]) PROVE rows[o][i] <= mem'[o]
    BY DEF Shows, PageInv
  <2>1. rows[o] \in Seq(Versions \ {0}) /\ rows[o][i] <= mem[o]
    BY DEF PageInv, Shows
  <2>2. rows[o][i] \in Versions \ {0}
    BY <2>1, ElementOfSeq
  <2>3. rows[o][i] \in Nat
    BY <2>2, VersionsAre
  <2> QED
    BY <2>1, <2>3, <1>0
<1>2. GoodCalls(calls, mem')
  <2> SUFFICES ASSUME NEW s \in Slots, calls[s] # None PROVE GoodCall(calls[s], mem')
    BY DEF GoodCalls, PageInv
  <2> DEFINE c == calls[s]
  <2>1. GoodCall(c, mem)
    BY DEF PageInv, GoodCalls
  <2> HIDE DEF c
  <2>2. c.got \in [Orders -> Versions] /\ c.base \in Versions
    BY <2>1 DEF GoodCall, Calls, Snapshots
  <2>3. \A o \in Orders : c.got[o] \in Nat
    BY <2>2, VersionsAre
  <2>4. \A o \in Orders : c.got[o] <= mem'[o]
    BY <2>1, <2>3, <1>0 DEF GoodCall
  <2>5. c.base \in Nat
    BY <2>2, VersionsAre
  <2>6. c.kind = "modify" => c.base <= mem'[c.order]
    BY <2>1, <2>5, <1>0 DEF GoodCall
  <2>7. GoodCall(c, mem')
    BY <2>1, <2>4, <2>6 DEF GoodCall
  <2> QED
    BY <2>7 DEF c
<1>3. GoodTicket(ticket, mem')
  <2>1. ticket # NoTicket => ticket.order \in Orders /\ ticket.version \in Nat /\ ticket.version <= mem[ticket.order]
    BY VersionsAre DEF GoodTicket, PageInv
  <2> QED
    BY <2>1, <1>0 DEF GoodTicket, PageInv
<1> QED
  BY <1>1, <1>2, <1>3

LEMMA CallFields ==
    ASSUME NEW k \in Kinds, NEW o \in Orders \cup {None}, NEW v \in Versions, NEW i \in 0..MaxIntents
    PROVE  LET c == Call(k, o, v, i) IN
           /\ c \in Calls /\ c # None /\ c.awaited /\ c.answer = "pending"
           /\ c.kind = k /\ c.order = o /\ c.base = v /\ c.got = Nothing
<1>1. Nothing \in Snapshots
  BY VersionsAre DEF Nothing, Snapshots, Versions
<1>2. Call(k, o, v, i) \in Calls
  BY <1>1 DEF Call, Calls
<1> QED
  BY <1>2, NoCallAssumption DEF Call

LEMMA FreshCall ==
    ASSUME PageInv, NEW k \in Kinds, NEW o \in Orders \cup {None}, NEW v \in Versions,
           NEW i \in 0..MaxIntents,
           k \in {"modify", "cancel"} => o \in Orders, k = "modify" => v <= mem[o]
    PROVE  GoodCall(Call(k, o, v, i), mem)
<1>1. \A p \in Orders : mem[p] \in Nat /\ Nothing[p] = 0
  <2>1. \A p \in Orders : mem[p] \in Versions
    BY DEF PageInv, StreamInv, StreamTypeOK
  <2> QED
    BY <2>1, VersionsAre DEF Nothing
<1> DEFINE c == Call(k, o, v, i)
<1>2. /\ c \in Calls /\ c # None /\ c.awaited /\ c.answer = "pending"
      /\ c.kind = k /\ c.order = o /\ c.base = v /\ c.got = Nothing
  BY CallFields
<1> HIDE DEF c
<1>3. ASSUME NEW p \in Orders PROVE c.got[p] <= mem[p]
  <2>1. c.got[p] = 0 /\ mem[p] \in Nat
    BY <1>1, <1>2
  <2> QED
    BY <2>1
<1>4. GoodCall(c, mem)
  BY <1>2, <1>3 DEF GoodCall
<1> QED
  BY <1>4 DEF c

\* A step that moves the service and its stream only.
LEMMA ServiceKeeps ==
    ASSUME PageInv, StreamInv', Rises, UNCHANGED <<pageVars, calls, made>>
    PROVE  PageInv'
<1>1. Shows(rows, mem') /\ GoodCalls(calls, mem') /\ GoodTicket(ticket, mem')
  BY StillGood
<1> QED
  BY <1>1 DEF PageInv, pageVars

LEMMA PageStarts == Init => PageInv /\ OneSubmit
<1> SUFFICES ASSUME Init PROVE PageInv /\ OneSubmit
  OBVIOUS
<1> DEFINE c == Call("load", None, 0, 0)
<1>0. 0 \in Versions /\ 0 \in 0..MaxIntents /\ 1 \in Slots /\ "load" \in Kinds
  BY VersionsAre, WorkspaceAssumption DEF Versions, Slots, Kinds
<1>1. StreamInv
  BY StreamStarts DEF Init
<1>2. \A p \in Orders : mem[p] \in Nat /\ Nothing[p] = 0
  BY <1>1, StreamNumbers DEF Nothing
<1>3. /\ c \in Calls /\ c # None /\ c.awaited /\ c.answer = "pending"
      /\ c.kind = "load" /\ c.order = None /\ c.base = 0 /\ c.got = Nothing
  BY <1>0, CallFields
<1> HIDE DEF c
<1>4. GoodCall(c, mem)
  BY <1>2, <1>3 DEF GoodCall
<1>5. calls = [s \in Slots |-> IF s = 1 THEN c ELSE None]
  BY DEF Init, c
<1>6. GoodCalls(calls, mem)
  BY <1>3, <1>4, <1>5 DEF GoodCalls
<1>7. rows = [o \in Orders |-> <<>>] /\ Shows(rows, mem)
  BY EmptySeq DEF Init, PageInit, Shows
<1>8. GoodTicket(ticket, mem)
  BY <1>0 DEF Init, PageInit, GoodTicket, NoTicket
<1>9. PageInv
  <2>1. page = "loading" /\ reviewing = FALSE /\ submitting = FALSE /\ intents = 0 /\ intent = 0
    BY DEF Init, PageInit
  <2>2. made \in [Orders -> 0..MaxIntents]
    BY <1>0 DEF Init
  <2>3. intents \in 0..MaxIntents /\ intent \in 0..intents
    BY <2>1, <1>0
  <2>4. /\ page \in {"loading", "ready", "out"}
        /\ reviewing \in BOOLEAN /\ submitting \in BOOLEAN
    BY <2>1
  <2> QED
    BY <2>2, <2>3, <2>4, <1>1, <1>6, <1>7, <1>8 DEF PageInv
<1>10. OneSubmit
  BY <1>3, <1>5 DEF OneSubmit, Awaits, Init, PageInit
<1> QED
  BY <1>9, <1>10

----------------------------------------------------------------------------
(* What the user does, and what the stream brings.                         *)

LEMMA ReceiveKeeps ==
    ASSUME PageInv, NEW o \in Orders, Receive(o)
    PROVE  PageInv'
<1>1. /\ wire[o] # <<>> /\ wire' = [wire EXCEPT ![o] = Tail(wire[o])]
      /\ rows' = [rows EXCEPT ![o] = IF rows[o] = <<>> THEN <<Head(wire[o])>>
                                     ELSE [i \in DOMAIN rows[o] |-> Head(wire[o])]]
      /\ UNCHANGED <<mem, doneAt, db, eventVars, sub, snap, sent, page, calls, ticket, reviewing,
                     submitting, intents, intent, made>>
  BY DEF Receive, Upsert
<1> DEFINE v == Head(wire[o])
           t == Tail(wire[o])
           W == Versions \ {0}
<1>2. /\ wire[o] \in Seq(W) /\ rows[o] \in Seq(W)
      /\ \A i \in 1..Len(wire[o]) : wire[o][i] <= mem[o]
  BY DEF PageInv, StreamInv, StreamTypeOK, Bounded, Shows
<1>3. /\ v \in W /\ v = wire[o][1] /\ t \in Seq(W) /\ Len(t) = Len(wire[o]) - 1
      /\ \A i \in 1..Len(t) : t[i] = wire[o][i + 1]
      /\ Len(wire[o]) \in Nat \ {0}
  BY <1>1, <1>2, HeadTailProperties, EmptySeq, LenProperties
<1>4. v <= mem[o] /\ \A i \in 1..Len(t) : t[i] <= mem[o]
  BY <1>2, <1>3
<1>5. v \in Nat /\ mem[o] \in Nat /\ v <= mem[o]
  BY <1>3, <1>4, StreamNumbers, VersionsAre DEF PageInv
<1> HIDE DEF v, t, W
<1>6. StreamInv'
  <2>1. wire' \in [Orders -> Seq(W)] /\ \A p \in Orders : wire'[p] = IF p = o THEN t ELSE wire[p]
    BY <1>1, <1>3 DEF PageInv, StreamInv, StreamTypeOK, t, W
  <2>2. ASSUME NEW p \in Orders, NEW i \in 1..Len(wire'[p]) PROVE wire'[p][i] <= mem[p]
    BY <2>1, <2>2, <1>4 DEF PageInv, StreamInv, Bounded
  <2> QED
    BY <1>1, <2>1, <2>2 DEF PageInv, StreamInv, StreamTypeOK, Bounded, eventVars, W
<1>7. Shows(rows', mem)
  <2> DEFINE u == IF rows[o] = <<>> THEN <<v>> ELSE [i \in DOMAIN rows[o] |-> v]
  <2>1. u \in Seq(W) /\ \A i \in 1..Len(u) : u[i] = v
    <3>1. CASE rows[o] = <<>>
      <4>1. <<v>> \in Seq(W) /\ Len(<<v>>) = 1 /\ <<v>>[1] = v
        BY <1>3
      <4> QED
        BY <3>1, <4>1
    <3>2. CASE rows[o] # <<>>
      <4>1. DOMAIN rows[o] = 1..Len(rows[o]) /\ Len(rows[o]) \in Nat
        BY <1>2, LenProperties
      <4>2. u = [i \in 1..Len(rows[o]) |-> v]
        BY <3>2, <4>1
      <4> HIDE DEF u
      <4>3. u \in Seq(W) /\ Len(u) = Len(rows[o])
        BY <4>1, <4>2, <1>3, IsASeq
      <4> QED
        BY <4>2, <4>3
    <3> QED
      BY <3>1, <3>2
  <2>2. rows' = [rows EXCEPT ![o] = u]
    BY <1>1 DEF v
  <2> HIDE DEF u
  <2>3. \A p \in Orders : rows'[p] = IF p = o THEN u ELSE rows[p]
    BY <2>2 DEF PageInv, Shows
  <2>4. ASSUME NEW p \in Orders, NEW i \in 1..Len(rows'[p]) PROVE rows'[p][i] <= mem[p]
    BY <2>1, <2>3, <2>4, <1>5 DEF PageInv, Shows
  <2> QED
    BY <2>1, <2>2, <2>4 DEF PageInv, Shows, W
<1> QED
  BY <1>1, <1>6, <1>7 DEF PageInv

\* A call is put where there was none.
LEMMA StartKeeps ==
    ASSUME PageInv, NEW c, GoodCall(c, mem), Start(c)
    PROVE  /\ GoodCalls(calls', mem)
           /\ \E s \in Slots : calls[s] = None /\ calls' = [calls EXCEPT ![s] = c]
<1>1. PICK s \in Slots : calls[s] = None /\ calls' = [calls EXCEPT ![s] = c]
  BY DEF Start, FirstFree
<1>2. c \in Calls
  BY DEF GoodCall
<1> QED
  BY <1>1, <1>2 DEF PageInv, GoodCalls

LEMMA UserKeeps ==
    ASSUME PageInv, UserStep
    PROVE  PageInv'
<1>0. 0 \in Versions /\ 0 \in 0..MaxIntents /\ NoTicket \in [order : Orders \cup {None}, version : Versions]
  BY VersionsAre, WorkspaceAssumption DEF Versions, NoTicket
<1>1. UNCHANGED streamVars /\ UNCHANGED <<page, rows, made>>
  BY DEF UserStep, StartModify, CancelModify, ShowReview, CloseReview, Submit, Cancel, CancelAll,
         Refresh, Acts
<1>2. StreamInv' /\ mem' = mem
  BY <1>1 DEF PageInv, StreamInv, StreamTypeOK, streamVars, Bounded, eventVars
<1>3. ASSUME NEW c, GoodCall(c, mem), Ask(c)
      PROVE  PageInv'
  BY <1>1, <1>2, <1>3, StartKeeps DEF Ask, PageInv
<1>4. ASSUME NEW o \in Orders, StartModify(o) PROVE PageInv'
  <2>1. PICK v \in LiveRows(o) : ticket' = [order |-> o, version |-> v]
    BY <1>4 DEF StartModify
  <2>2. PICK i \in DOMAIN rows[o] : v = rows[o][i]
    BY <2>1 DEF LiveRows
  <2>3. rows[o] \in Seq(Versions \ {0}) /\ DOMAIN rows[o] = 1..Len(rows[o])
    BY LenProperties DEF PageInv, Shows
  <2>4. v \in Versions /\ v <= mem[o]
    BY <2>2, <2>3, ElementOfSeq DEF PageInv, Shows
  <2>5. GoodTicket(ticket', mem)
    BY <2>1, <2>4 DEF GoodTicket
  <2>6. UNCHANGED <<calls, submitting, intents, intent>> /\ reviewing' = FALSE
    BY <1>4 DEF StartModify
  <2> QED
    BY <1>1, <1>2, <2>5, <2>6 DEF PageInv
<1>5. CASE CancelModify
  <2>1. UNCHANGED <<calls, reviewing, submitting, intents, intent>> /\ GoodTicket(ticket', mem)
    BY <1>5, <1>0 DEF CancelModify, GoodTicket
  <2> QED
    BY <1>1, <1>2, <2>1 DEF PageInv
<1>6. CASE ShowReview
  <2>1. /\ UNCHANGED <<calls, ticket, submitting>> /\ reviewing' = TRUE
        /\ \/ intents < MaxIntents /\ intents' = intents + 1 /\ intent' = intents + 1
           \/ UNCHANGED <<intents, intent>>
    BY <1>6 DEF ShowReview
  <2>2. intents' \in 0..MaxIntents /\ intent' \in 0..intents'
    BY <2>1, WorkspaceAssumption DEF PageInv
  <2> QED
    BY <1>1, <1>2, <2>1, <2>2 DEF PageInv
<1>7. CASE CloseReview
  BY <1>1, <1>2, <1>7 DEF CloseReview, PageInv
<1>8. CASE Submit
  <2>1. Start(Submitted) /\ submitting' = TRUE /\ UNCHANGED <<ticket, reviewing, intents, intent>>
    BY <1>8 DEF Submit
  <2>2. GoodCall(Submitted, mem)
    <3>1. CASE ticket = NoTicket
      <4>1. intent \in 0..MaxIntents /\ None \in Orders \cup {None} /\ "create" \in Kinds
        BY WorkspaceAssumption DEF PageInv, Kinds
      <4>2. GoodCall(Call("create", None, 0, intent), mem)
        BY <4>1, <1>0, FreshCall
      <4> QED
        BY <3>1, <4>2 DEF Submitted
    <3>2. CASE ticket # NoTicket
      <4>1. ticket.order \in Orders /\ ticket.version \in Versions
            /\ ticket.version <= mem[ticket.order] /\ "modify" \in Kinds
        BY <3>2 DEF PageInv, GoodTicket, Kinds
      <4>2. GoodCall(Call("modify", ticket.order, ticket.version, 0), mem)
        BY <4>1, <1>0, FreshCall
      <4> QED
        BY <3>2, <4>2 DEF Submitted
    <3> QED
      BY <3>1, <3>2
  <2>3. GoodCalls(calls', mem)
    BY <2>1, <2>2, StartKeeps
  <2> QED
    BY <1>1, <1>2, <2>1, <2>3 DEF PageInv
<1>9. ASSUME NEW o \in Orders, Cancel(o) PROVE PageInv'
  <2>1. Ask(Call("cancel", o, 0, 0))
    BY <1>9 DEF Cancel
  <2>2. GoodCall(Call("cancel", o, 0, 0), mem)
    BY <1>0, FreshCall DEF Kinds
  <2> QED
    BY <2>1, <2>2, <1>3
<1>10. CASE CancelAll \/ Refresh
  <2>1. \E k \in {"cancelAll", "refresh"} : Ask(Call(k, None, 0, 0))
    BY <1>10 DEF CancelAll, Refresh
  <2>2. \A k \in {"cancelAll", "refresh"} : GoodCall(Call(k, None, 0, 0), mem)
    BY <1>0, FreshCall DEF Kinds
  <2> QED
    BY <2>1, <2>2, <1>3
<1> QED
  BY <1>4, <1>5, <1>6, <1>7, <1>8, <1>9, <1>10 DEF UserStep

----------------------------------------------------------------------------
(* The service handles a call, and the page hears of it.                   *)

\* The call in s is still the call it was, to be heard or not.
Answered(s) ==
    /\ calls[s] # None /\ calls'[s] # None /\ calls' = [calls EXCEPT ![s] = calls'[s]]
    /\ calls'[s].kind = calls[s].kind /\ calls'[s].awaited = calls[s].awaited
    /\ submitting' = submitting

\* A call is answered with orders as memory or the database has them.
LEMMA AnswerKeeps ==
    ASSUME PageInv, StreamInv', Rises, NEW s \in Slots, Busy(s),
           NEW status \in {"ok", "refused"}, NEW f \in Snapshots, Answer(s, status, f),
           \A o \in Orders : f[o] <= mem'[o],
           status = "ok" /\ calls[s].kind \in {"create", "modify"} => \E o \in Orders : f[o] > 0,
           status = "ok" /\ calls[s].kind = "cancel" => f[calls[s].order] > 0,
           made' \in [Orders -> 0..MaxIntents]
    PROVE  PageInv' /\ Answered(s)
<1>1. Shows(rows, mem') /\ GoodCalls(calls, mem') /\ GoodTicket(ticket, mem')
  BY StillGood
<1> DEFINE c == calls[s]
           d == [c EXCEPT !.answer = status, !.got = f]
<1>2. calls \in [Slots -> Calls \cup {None}] /\ c \in Calls /\ GoodCall(c, mem')
  BY <1>1 DEF GoodCalls, GoodCall, Busy
<1>3. calls' = [calls EXCEPT ![s] = d] /\ UNCHANGED pageVars
  BY <1>2 DEF Answer
<1>4. /\ d \in Calls /\ d.answer = status /\ d.got = f /\ d.kind = c.kind /\ d.order = c.order
      /\ d.base = c.base /\ d.awaited = c.awaited
  BY <1>2 DEF Calls
<1>5. GoodCall(d, mem')
  <2> HIDE DEF d
  <2> QED
    BY <1>2, <1>4 DEF GoodCall
<1> HIDE DEF d
<1>6. GoodCalls(calls', mem')
  BY <1>1, <1>3, <1>4, <1>5 DEF GoodCalls
<1>7. Answered(s)
  <2>1. calls'[s] = d /\ d # None /\ c # None
    BY <1>2, <1>3, <1>4, NoCallAssumption
  <2> QED
    BY <2>1, <1>3, <1>4 DEF Answered, pageVars
<1> QED
  BY <1>1, <1>3, <1>6, <1>7 DEF PageInv, pageVars

LEMMA OnlyOrderIs ==
    ASSUME NEW o \in Orders, NEW v \in Versions \ {0}
    PROVE  /\ OnlyOrder(o, v) \in Snapshots /\ OnlyOrder(o, v)[o] = v /\ OnlyOrder(o, v)[o] > 0
           /\ \A p \in Orders \ {o} : OnlyOrder(o, v)[p] = 0
<1>1. 0 \in Versions /\ v \in Nat \ {0}
  BY VersionsAre DEF Versions
<1> QED
  BY <1>1 DEF OnlyOrder, Snapshots

LEMMA CommandKeeps ==
    ASSUME PageInv, NEW s \in Slots, CommandStep(s)
    PROVE  PageInv' /\ Rises /\ Answered(s)
<1>0. /\ StreamInv /\ made \in [Orders -> 0..MaxIntents]
      /\ \A o \in Orders : mem[o] \in Nat /\ db[o] \in Nat /\ db[o] <= mem[o]
      /\ Busy(s) => GoodCall(calls[s], mem)
  BY StreamNumbers DEF PageInv, GoodCalls, Busy
\* A command about one order, which goes to its next version.
<1>1. ASSUME NEW o \in Orders, Command(o), Busy(s), Answer(s, "ok", OnlyOrder(o, mem[o] + 1)),
             calls[s].kind = "cancel" => calls[s].order = o,
             made' \in [Orders -> 0..MaxIntents]
      PROVE  PageInv' /\ Rises /\ Answered(s)
  <2>1. UNCHANGED <<db, sub, snap, sent, wire>>
    BY <1>1 DEF Answer
  <2>2. StreamInv' /\ Rises /\ mem'[o] = mem[o] + 1 /\ mem'[o] \in Versions \ {0}
    BY <2>1, <1>0, <1>1, CommandKeepsStream
  <2> DEFINE f == OnlyOrder(o, mem[o] + 1)
  <2>3. f \in Snapshots /\ f[o] = mem'[o] /\ f[o] > 0 /\ \A p \in Orders \ {o} : f[p] = 0
    BY <2>2, OnlyOrderIs
  <2>4. Answer(s, "ok", f)
    BY <1>1
  <2> HIDE DEF f
  <2>5. \A p \in Orders : f[p] <= mem'[p]
    <3>1. \A p \in Orders : mem'[p] \in Nat
      <4>1. \A p \in Orders : mem'[p] \in Versions
        BY <2>2 DEF StreamInv, StreamTypeOK
      <4> QED
        BY <4>1, VersionsAre
    <3>2. ASSUME NEW p \in Orders PROVE f[p] <= mem'[p]
      <4>1. f[p] = 0 \/ f[p] = mem'[p]
        BY <2>3
      <4>2. mem'[p] \in Nat
        BY <3>1
      <4> QED
        BY <4>1, <4>2
    <3> QED
      BY <3>2
  <2>6. PageInv' /\ Answered(s)
    BY <2>2, <2>3, <2>4, <2>5, <1>1, AnswerKeeps
  <2> QED
    BY <2>2, <2>6
<1>2. CASE HandleCreate(s)
  <2>1. PICK o \in Orders : /\ mem[o] = 0 /\ Command(o) /\ Answer(s, "ok", OnlyOrder(o, 1))
                            /\ made' = [made EXCEPT ![o] = calls[s].intent]
    BY <1>2 DEF HandleCreate
  <2>2. Busy(s) /\ calls[s].kind = "create"
    BY <1>2 DEF HandleCreate, Pending
  <2>3. calls[s].intent \in 0..MaxIntents
    BY <2>2, <1>0 DEF GoodCall, Calls
  <2>4. made' \in [Orders -> 0..MaxIntents] /\ Answer(s, "ok", OnlyOrder(o, mem[o] + 1))
    BY <2>1, <2>3, <1>0
  <2> QED
    BY <2>1, <2>2, <2>4, <1>1
<1>3. CASE HandleModify(s) \/ HandleCancel(s)
  <2> DEFINE o == calls[s].order
  <2>1. /\ Busy(s) /\ calls[s].kind \in {"modify", "cancel"} /\ Command(o)
        /\ Answer(s, "ok", OnlyOrder(o, mem[o] + 1)) /\ made' = made
    BY <1>3 DEF HandleModify, HandleCancel, Pending, CommandLast
  <2>2. o \in Orders
    BY <2>1, <1>0 DEF GoodCall
  <2> HIDE DEF o
  <2>3. calls[s].kind = "cancel" => calls[s].order = o
    BY DEF o
  <2> QED
    BY <2>1, <2>2, <2>3, <1>0, <1>1
<1>4. CASE HandleCancelAll(s)
  <2>1. StreamInv' /\ Rises
    BY <1>0, <1>4, CancelAllKeeps
  <2>2. Busy(s) /\ calls[s].kind = "cancelAll" /\ Answer(s, "ok", Nothing) /\ made' = made
    BY <1>4 DEF HandleCancelAll, Pending
  <2>3. Nothing \in Snapshots /\ \A p \in Orders : Nothing[p] = 0
    BY VersionsAre DEF Nothing, Snapshots, Versions
  <2>4. \A p \in Orders : mem'[p] \in Nat
    <3>1. \A p \in Orders : mem'[p] \in Versions
      BY <2>1 DEF StreamInv, StreamTypeOK
    <3> QED
      BY <3>1, VersionsAre
  <2>5. \A p \in Orders : Nothing[p] <= mem'[p]
    BY <2>3, <2>4
  <2>6. PageInv' /\ Answered(s)
    BY <2>1, <2>2, <2>3, <2>5, <1>0, AnswerKeeps
  <2> QED
    BY <2>1, <2>6
<1>5. CASE HandleQuery(s)
  <2>1. Busy(s) /\ calls[s].kind \in {"load", "refresh"} /\ Answer(s, "ok", db)
        /\ UNCHANGED <<mem, doneAt, eventVars, made>>
    BY <1>5 DEF HandleQuery, Pending
  <2>2. StreamInv' /\ Rises
    BY <2>1, <1>0, Unmoved DEF Answer, StreamInv, StreamTypeOK, Bounded, eventVars
  <2>3. db \in Snapshots /\ \A o \in Orders : db[o] <= mem'[o]
    BY <2>1, <1>0 DEF StreamInv, StreamTypeOK, Snapshots
  <2>4. PageInv' /\ Answered(s)
    BY <2>1, <2>2, <2>3, <1>0, AnswerKeeps
  <2> QED
    BY <2>2, <2>4
<1>6. CASE Refuse(s)
  <2>1. Busy(s) /\ Answer(s, "refused", Nothing) /\ UNCHANGED <<mem, doneAt, eventVars, made>>
    BY <1>6 DEF Refuse
  <2>2. StreamInv' /\ Rises
    BY <2>1, <1>0, Unmoved DEF Answer, StreamInv, StreamTypeOK, Bounded, eventVars
  <2>3. Nothing \in Snapshots /\ \A p \in Orders : Nothing[p] <= mem'[p]
    <3>1. Nothing \in Snapshots /\ \A p \in Orders : Nothing[p] = 0
      BY VersionsAre DEF Nothing, Snapshots, Versions
    <3> QED
      BY <3>1, <2>1, <1>0
  <2>4. PageInv' /\ Answered(s)
    BY <2>1, <2>2, <2>3, <1>0, AnswerKeeps
  <2> QED
    BY <2>2, <2>4
<1> QED
  BY <1>2, <1>3, <1>4, <1>5, <1>6 DEF CommandStep

LEMMA RowsOf ==
    ASSUME NEW r, NEW m, Shows(r, m), NEW o \in Orders, NEW u \in Seq(Versions \ {0}),
           \A i \in 1..Len(u) : u[i] <= m[o]
    PROVE  Shows([r EXCEPT ![o] = u], m)
<1> DEFINE q == [r EXCEPT ![o] = u]
<1>1. q \in [Orders -> Seq(Versions \ {0})] /\ \A p \in Orders : q[p] = IF p = o THEN u ELSE r[p]
  BY DEF Shows
<1> HIDE DEF q
<1>2. ASSUME NEW p \in Orders, NEW i \in 1..Len(q[p]) PROVE q[p][i] <= m[p]
  BY <1>1, <1>2 DEF Shows
<1>3. Shows(q, m)
  BY <1>1, <1>2 DEF Shows
<1> QED
  BY <1>3 DEF q

LEMMA AllRows ==
    ASSUME NEW r \in Seq(Versions \ {0}), NEW v \in Versions \ {0}
    PROVE  LET u == [i \in DOMAIN r |-> v] IN
           u \in Seq(Versions \ {0}) /\ \A i \in 1..Len(u) : u[i] = v
<1> DEFINE u == [i \in DOMAIN r |-> v]
<1>1. DOMAIN r = 1..Len(r) /\ Len(r) \in Nat
  BY LenProperties
<1>2. u = [i \in 1..Len(r) |-> v]
  BY <1>1
<1> HIDE DEF u
<1>3. u \in Seq(Versions \ {0}) /\ Len(u) = Len(r)
  BY <1>1, <1>2, IsASeq
<1>4. u \in Seq(Versions \ {0}) /\ \A i \in 1..Len(u) : u[i] = v
  BY <1>2, <1>3
<1> QED
  BY <1>4 DEF u

LEMMA RowsMapped ==
    ASSUME PageInv, NEW o \in Orders, NEW v \in Versions \ {0}, v <= mem[o], MapAll(o, v)
    PROVE  Shows(rows', mem)
<1> DEFINE u == [i \in DOMAIN rows[o] |-> v]
<1>1. rows[o] \in Seq(Versions \ {0}) /\ Shows(rows, mem)
  BY DEF PageInv, Shows
<1>2. u \in Seq(Versions \ {0}) /\ \A i \in 1..Len(u) : u[i] = v
  BY <1>1, AllRows
<1>3. rows' = [rows EXCEPT ![o] = u]
  BY DEF MapAll
<1> HIDE DEF u
<1>4. \A i \in 1..Len(u) : u[i] <= mem[o]
  BY <1>2
<1> QED
  BY <1>1, <1>2, <1>3, <1>4, RowsOf

LEMMA RowAdded ==
    ASSUME PageInv, NEW o \in Orders, NEW v \in Versions \ {0}, v <= mem[o], Prepend(o, v)
    PROVE  Shows(rows', mem)
<1> DEFINE u == <<v>> \o rows[o]
<1>1. rows[o] \in Seq(Versions \ {0}) /\ Shows(rows, mem)
      /\ \A i \in 1..Len(rows[o]) : rows[o][i] <= mem[o]
  BY DEF PageInv, Shows
<1>2. <<v>> \in Seq(Versions \ {0}) /\ Len(<<v>>) = 1 /\ <<v>>[1] = v
  OBVIOUS
<1>3. /\ u \in Seq(Versions \ {0}) /\ Len(u) = Len(<<v>>) + Len(rows[o])
      /\ \A i \in 1..(Len(<<v>>) + Len(rows[o])) :
            u[i] = IF i <= Len(<<v>>) THEN <<v>>[i] ELSE rows[o][i - Len(<<v>>)]
  BY <1>1, <1>2, ConcatProperties
<1>4. rows' = [rows EXCEPT ![o] = u]
  BY DEF Prepend
<1>5. Len(rows[o]) \in Nat
  BY <1>1, LenProperties
<1> HIDE DEF u
<1>6. ASSUME NEW i \in 1..Len(u) PROVE u[i] <= mem[o]
  <2>1. CASE i = 1
    <3>1. u[i] = v
      BY <2>1, <1>2, <1>3, <1>5
    <3> QED
      BY <3>1
  <2>2. CASE i # 1
    <3>1. i - 1 \in 1..Len(rows[o]) /\ u[i] = rows[o][i - 1]
      BY <2>2, <1>2, <1>3, <1>5
    <3> QED
      BY <3>1, <1>1
  <2> QED
    BY <2>1, <2>2
<1> QED
  BY <1>1, <1>3, <1>4, <1>6, RowsOf

LEMMA RowsReplaced ==
    ASSUME PageInv, NEW f \in Snapshots, \A o \in Orders : f[o] <= mem[o], ReplaceAll(f)
    PROVE  Shows(rows', mem)
<1>1. rows' = [o \in Orders |-> IF f[o] = 0 THEN <<>> ELSE <<f[o]>>]
  BY DEF ReplaceAll
<1>2. ASSUME NEW o \in Orders
      PROVE  rows'[o] \in Seq(Versions \ {0}) /\ \A i \in 1..Len(rows'[o]) : rows'[o][i] <= mem[o]
  <2>1. CASE f[o] = 0
    <3>1. rows'[o] = <<>>
      BY <1>1, <2>1
    <3> QED
      BY <3>1, EmptySeq
  <2>2. CASE f[o] # 0
    <3>1. f[o] \in Versions \ {0} /\ rows'[o] = <<f[o]>>
      BY <1>1, <2>2 DEF Snapshots
    <3>2. <<f[o]>> \in Seq(Versions \ {0}) /\ Len(<<f[o]>>) = 1 /\ <<f[o]>>[1] = f[o]
      BY <3>1
    <3> QED
      BY <3>1, <3>2
  <2> QED
    BY <2>1, <2>2
<1> QED
  BY <1>1, <1>2 DEF Shows

\* Calls that are over, or that nobody waits for any more.
Fewer(f, g) ==
    /\ g = [s \in Slots |-> g[s]]
    /\ \A s \in Slots : g[s] = f[s] \/ g[s] = None
                         \/ (f[s] # None /\ g[s] = [f[s] EXCEPT !.awaited = FALSE])

LEMMA FewerCalls ==
    ASSUME NEW f, NEW g, NEW m, GoodCalls(f, m), Fewer(f, g)
    PROVE  GoodCalls(g, m)
<1>1. ASSUME NEW s \in Slots, g[s] # None PROVE g[s] \in Calls /\ GoodCall(g[s], m)
  <2>0. g[s] = f[s] \/ (f[s] # None /\ g[s] = [f[s] EXCEPT !.awaited = FALSE])
    BY <1>1 DEF Fewer
  <2>1. CASE g[s] = f[s]
    BY <1>1, <2>1 DEF GoodCalls, GoodCall
  <2>2. CASE f[s] # None /\ g[s] = [f[s] EXCEPT !.awaited = FALSE]
    <3> DEFINE c == f[s]
               d == g[s]
    <3>1. GoodCall(c, m) /\ c \in Calls
      BY <2>2 DEF GoodCalls, GoodCall
    <3>2. /\ d \in Calls /\ d.answer = c.answer /\ d.got = c.got /\ d.kind = c.kind
          /\ d.order = c.order /\ d.base = c.base
      BY <2>2, <3>1 DEF Calls
    <3> HIDE DEF c, d
    <3>3. GoodCall(d, m)
      BY <3>1, <3>2 DEF GoodCall
    <3> QED
      BY <3>2, <3>3 DEF d
  <2> QED
    BY <2>0, <2>1, <2>2
<1> QED
  BY <1>1 DEF GoodCalls, Fewer

LEMMA CallHeard ==
    ASSUME PageInv, NEW s \in Slots,
           \/ calls' = [calls EXCEPT ![s] = None]
           \/ Busy(s) /\ calls' = [calls EXCEPT ![s] = IF @.answer = "pending"
                                                       THEN [@ EXCEPT !.awaited = FALSE] ELSE None]
    PROVE  GoodCalls(calls', mem)
<1>1. GoodCalls(calls, mem) /\ calls \in [Slots -> Calls \cup {None}]
  BY DEF PageInv, GoodCalls
<1>2. Fewer(calls, calls')
  BY <1>1 DEF Busy, Fewer
<1> QED
  BY <1>1, <1>2, FewerCalls

LEMMA AnswersKeep ==
    ASSUME PageInv, NEW s \in Slots, AnswerStep(s)
    PROVE  PageInv' /\ Rises
<1>0. /\ 0 \in Versions /\ 0 \in 0..MaxIntents
      /\ NoTicket \in [order : Orders \cup {None}, version : Versions] /\ GoodTicket(NoTicket, mem)
      /\ StreamInv
      /\ Busy(s) => GoodCall(calls[s], mem) /\ calls[s].got \in Snapshots
  BY VersionsAre, WorkspaceAssumption
     DEF Versions, NoTicket, GoodTicket, PageInv, GoodCalls, GoodCall, Calls, Busy
\* An answer leaves the service alone.
<1>1. ASSUME UNCHANGED <<streamVars, made>>, GoodCalls(calls', mem), Shows(rows', mem),
             GoodTicket(ticket', mem), page' \in {page, "ready"},
             reviewing' \in {reviewing, FALSE}, submitting' \in {submitting, FALSE},
             UNCHANGED <<intents, intent>>
      PROVE  PageInv' /\ Rises
  <2>1. StreamInv' /\ Rises /\ mem' = mem
    BY <1>0, <1>1, Unmoved DEF streamVars, StreamInv, StreamTypeOK, Bounded, eventVars
  <2> QED
    BY <2>1, <1>1 DEF PageInv
<1>2. ASSUME NEW k, NEW status, Hears(s, k, status)
      PROVE  GoodCalls(calls', mem) /\ UNCHANGED <<streamVars, made>> /\ Busy(s)
             /\ calls[s].kind = k /\ calls[s].answer = status
  BY <1>2, CallHeard DEF Hears
<1>3. ASSUME NEW k, Fails(s, k)
      PROVE  GoodCalls(calls', mem) /\ UNCHANGED <<streamVars, made>>
  BY <1>3, CallHeard DEF Fails
<1>4. Shows(rows, mem) /\ GoodTicket(ticket, mem)
  BY DEF PageInv
<1>5. CASE LoadDone(s) \/ RefreshDone(s)
  <2>1. GoodCalls(calls', mem) /\ UNCHANGED <<streamVars, made>> /\ Busy(s)
    BY <1>2, <1>5 DEF LoadDone, RefreshDone
  <2>2. ReplaceAll(calls[s].got) /\ page' \in {page, "ready"}
        /\ UNCHANGED <<ticket, reviewing, submitting, intents, intent>>
    BY <1>5 DEF LoadDone, RefreshDone
  <2>3. Shows(rows', mem)
    BY <2>1, <2>2, <1>0, RowsReplaced DEF GoodCall
  <2> QED
    BY <2>1, <2>2, <2>3, <1>1, <1>4
<1>6. CASE LoadFailed(s)
  BY <1>1, <1>3, <1>4, <1>6 DEF LoadFailed
<1>7. CASE CreateDone(s) \/ ModifyDone(s)
  <2>1. GoodCalls(calls', mem) /\ UNCHANGED <<streamVars, made>> /\ Busy(s)
        /\ calls[s].kind \in {"create", "modify"} /\ calls[s].answer = "ok"
    BY <1>2, <1>7 DEF CreateDone, ModifyDone
  <2> DEFINE o == The(s)
             v == calls[s].got[o]
  <2>2. o \in Orders /\ v > 0
    BY <2>1, <1>0 DEF The, GoodCall
  <2>3. v \in Versions \ {0} /\ v <= mem[o]
    <3>1. v \in Versions
      BY <2>1, <2>2, <1>0 DEF Snapshots
    <3>2. v # 0
      BY <2>2, <3>1, VersionsAre
    <3> QED
      BY <2>1, <2>2, <3>1, <3>2, <1>0 DEF GoodCall
  <2>4. Prepend(o, v) \/ MapAll(o, v)
    BY <1>7 DEF CreateDone, ModifyDone
  <2> HIDE DEF o, v
  <2>5. Shows(rows', mem)
    BY <2>2, <2>3, <2>4, RowAdded, RowsMapped
  <2>6. ticket' \in {ticket, NoTicket} /\ reviewing' = FALSE /\ submitting' = FALSE
        /\ UNCHANGED <<page, intents, intent>>
    BY <1>7 DEF CreateDone, ModifyDone
  <2> QED
    BY <2>1, <2>5, <2>6, <1>0, <1>1, <1>4
<1>8. CASE SubmitFailed(s)
  BY <1>1, <1>3, <1>4, <1>8 DEF SubmitFailed
<1>9. CASE CancelDone(s)
  <2>1. GoodCalls(calls', mem) /\ UNCHANGED <<streamVars, made>> /\ Busy(s)
        /\ calls[s].kind = "cancel" /\ calls[s].answer = "ok"
    BY <1>2, <1>9 DEF CancelDone
  <2> DEFINE o == calls[s].order
             v == calls[s].got[o]
  <2>2. o \in Orders /\ v > 0 /\ v \in Versions /\ v <= mem[o]
    BY <2>1, <1>0 DEF GoodCall, Snapshots
  <2>3. v \in Versions \ {0}
    BY <2>2, VersionsAre
  <2>4. MapAll(o, v) /\ UNCHANGED <<page, ticket, reviewing, submitting, intents, intent>>
    BY <1>9 DEF CancelDone
  <2> HIDE DEF o, v
  <2>5. Shows(rows', mem)
    BY <2>2, <2>3, <2>4, RowsMapped
  <2> QED
    BY <2>1, <2>4, <2>5, <1>1, <1>4
<1>10. CASE CancelAllDone(s)
  <2> DEFINE c == Call("refresh", None, 0, 0)
  <2>1. GoodCall(c, mem) /\ c \in Calls
    <3>1. "refresh" \in Kinds /\ None \in Orders \cup {None}
      BY DEF Kinds
    <3> QED
      BY <3>1, <1>0, FreshCall, CallFields
  <2>2. calls' = [calls EXCEPT ![s] = c] /\ UNCHANGED <<streamVars, pageVars, made>>
    BY <1>10 DEF CancelAllDone
  <2> HIDE DEF c
  <2>3. GoodCalls(calls', mem)
    BY <2>1, <2>2 DEF PageInv, GoodCalls
  <2> QED
    BY <2>2, <2>3, <1>1, <1>4 DEF pageVars
<1>11. CASE OtherFailed(s)
  BY <1>1, <1>3, <1>4, <1>11 DEF OtherFailed, pageVars
<1>12. CASE Forget(s)
  BY <1>1, <1>4, <1>12, CallHeard DEF Forget, pageVars
<1> QED
  BY <1>5, <1>6, <1>7, <1>8, <1>9, <1>10, <1>11, <1>12 DEF AnswerStep

LEMMA UnheardCalls ==
    ASSUME PageInv, NEW kinds
    PROVE  GoodCalls(Unheard(kinds), mem)
<1>1. GoodCalls(calls, mem)
  BY DEF PageInv
<1>2. Fewer(calls, Unheard(kinds))
  BY DEF Unheard, Free, Fewer
<1> QED
  BY <1>1, <1>2, FewerCalls

LEMMA SessionKeeps ==
    ASSUME PageInv, EndSession \/ SignIn
    PROVE  PageInv' /\ Rises
<1>0. StreamInv /\ Shows(rows, mem) /\ GoodTicket(ticket, mem)
  BY DEF PageInv
<1>1. CASE EndSession
  <2>1. Close /\ calls' = Unheard({"load"}) /\ page' = "out"
        /\ UNCHANGED <<rows, ticket, reviewing, submitting, intents, intent, made>>
    BY <1>1 DEF EndSession
  <2>2. StreamInv' /\ Rises /\ mem' = mem
    BY <2>1, <1>0, ClosedKeeps DEF Close
  <2>3. GoodCalls(calls', mem)
    BY <2>1, UnheardCalls
  <2> QED
    BY <2>1, <2>2, <2>3 DEF PageInv
<1>2. CASE SignIn
  <2> DEFINE left == Unheard(Kinds)
             c == Call("load", None, 0, 0)
  <2>1. /\ \E s \in FirstFree(left) : calls' = [left EXCEPT ![s] = c]
        /\ page' = "loading" /\ rows' = [o \in Orders |-> <<>>]
        /\ ticket' = NoTicket /\ reviewing' = FALSE /\ submitting' = FALSE
        /\ UNCHANGED <<streamVars, intents, intent, made>>
    BY <1>2 DEF SignIn
  <2>2. PICK s \in FirstFree(left) : calls' = [left EXCEPT ![s] = c]
    BY <2>1
  <2>3. GoodCalls(left, mem)
    BY UnheardCalls
  <2>4. c \in Calls /\ GoodCall(c, mem)
    <3>1. 0 \in Versions /\ 0 \in 0..MaxIntents /\ "load" \in Kinds
      BY VersionsAre, WorkspaceAssumption DEF Versions, Kinds
    <3> QED
      BY <3>1, FreshCall, CallFields
  <2> HIDE DEF left, c
  <2>5. s \in Slots
    BY DEF FirstFree
  <2>6. GoodCalls(calls', mem)
    BY <2>2, <2>3, <2>4, <2>5 DEF GoodCalls
  <2>7. StreamInv' /\ Rises /\ mem' = mem
    BY <2>1, <1>0, Unmoved DEF streamVars, StreamInv, StreamTypeOK, Bounded, eventVars
  <2>8. Shows(rows', mem)
    BY <2>1, EmptySeq DEF Shows
  <2>9. GoodTicket(ticket', mem)
    BY <2>1, VersionsAre DEF GoodTicket, NoTicket, Versions
  <2> QED
    BY <2>1, <2>6, <2>7, <2>8, <2>9 DEF PageInv
<1> QED
  BY <1>1, <1>2

LEMMA PageGoesOn == PageInv /\ [Next]_vars => PageInv'
<1> SUFFICES ASSUME PageInv, [Next]_vars PROVE PageInv'
  OBVIOUS
<1>0. StreamInv
  BY DEF PageInv
<1>1. ASSUME StreamStep PROVE PageInv'
  <2>1. /\ UNCHANGED <<pageVars, calls, made>>
        /\ \/ Flush \/ ReadProjection \/ AddSubscription
           \/ \E o \in Orders : \/ Deliver(o) \/ PublishAgain(o) \/ Delivered(o) \/ VenueReport(o)
                                \/ \E v \in Versions : DropEvent(o, v)
    BY <1>1 DEF StreamStep, Service
  <2>2. StreamInv' /\ Rises
    BY <2>1, <1>0, StreamGoesOn
  <2> QED
    BY <2>1, <2>2, ServiceKeeps
<1>2. CASE Connect
  <2>1. sub' = "asked" /\ UNCHANGED <<mem, doneAt, db, eventVars, snap, sent, wire, pageVars, calls, made>>
    BY <1>2 DEF Connect
  <2>2. StreamInv' /\ Rises
    BY <2>1, <1>0, Unmoved DEF StreamInv, StreamTypeOK, Bounded, eventVars
  <2> QED
    BY <2>1, <2>2, ServiceKeeps
<1>3. CASE Disconnect
  <2>1. StreamInv' /\ Rises /\ UNCHANGED <<pageVars, calls, made>>
    BY <1>0, <1>3, ClosedKeeps DEF Disconnect
  <2> QED
    BY <2>1, ServiceKeeps
<1>4. CASE UNCHANGED vars
  <2>1. UNCHANGED <<streamVars, pageVars, calls, made>>
    BY <1>4 DEF vars
  <2>2. StreamInv' /\ Rises
    BY <2>1, <1>0, Unmoved DEF streamVars, StreamInv, StreamTypeOK, Bounded, eventVars
  <2> QED
    BY <2>1, <2>2, ServiceKeeps
<1> QED
  BY <1>1, <1>2, <1>3, <1>4, UserKeeps, CommandKeeps, AnswersKeep, ReceiveKeeps, SessionKeeps DEF Next

\* TypeOK, always: also that an answer to a command has the order the page reads in it,
\* so that CreateDone and ModifyDone find one (TradingWorkspacePage: submitOrder).
THEOREM WorkspaceTypeCorrect == Spec => []TypeOK
<1>1. PageInv => TypeOK
  <2>1. ASSUME PageInv PROVE ticket \in [order : Orders \cup {None}, version : Versions]
    BY <2>1 DEF PageInv, GoodTicket
  <2> QED
    BY <2>1 DEF PageInv, StreamInv, Shows, GoodCalls, TypeOK
<1>2. Init => PageInv
  BY PageStarts
<1> QED
  BY <1>1, <1>2, PageGoesOn, PTL DEF Spec

\* NothingAhead, always: whatever the order of load, stream, refresh and answers, no row is
\* ahead of the service and no modification names a version its order does not have
\* (TradingWorkspacePage, OrderStreamService).
THEOREM RowsTrailTheService == Spec => []NothingAhead
<1>1. ASSUME PageInv PROVE NothingAhead
  <2>1. ASSUME NEW o \in Orders PROVE DOMAIN rows[o] = 1..Len(rows[o])
    BY <1>1, LenProperties DEF PageInv, Shows
  <2> QED
    BY <1>1, <2>1 DEF PageInv, Shows, GoodTicket, NothingAhead
<1>2. Init => PageInv
  BY PageStarts
<1> QED
  BY <1>1, <1>2, PageGoesOn, PTL DEF Spec

----------------------------------------------------------------------------
(* One submit at a time.                                                   *)

LEMMA SameAwaits ==
    ASSUME OneSubmit, submitting' = submitting,
           \A s \in Slots : Awaits(calls', s) <=> Awaits(calls, s)
    PROVE  OneSubmit'
BY DEF OneSubmit, Awaits

LEMMA NoAwaits ==
    ASSUME submitting' = FALSE, \A s \in Slots : ~Awaits(calls', s)
    PROVE  OneSubmit'
BY DEF OneSubmit, Awaits

\* The record in a slot is replaced.
LEMMA SlotReplaced ==
    ASSUME PageInv, OneSubmit, NEW s \in Slots, NEW c, calls' = [calls EXCEPT ![s] = c],
           submitting' = submitting,
           (c # None /\ c.awaited /\ c.kind \in {"create", "modify"}) <=> Awaits(calls, s)
    PROVE  OneSubmit'
<1>1. \A t \in Slots : calls'[t] = IF t = s THEN c ELSE calls[t]
  BY DEF PageInv, GoodCalls
<1>2. \A t \in Slots : Awaits(calls', t) <=> Awaits(calls, t)
  BY <1>1 DEF Awaits
<1> QED
  BY <1>2, SameAwaits

LEMMA UserSubmitsOnce ==
    ASSUME PageInv, OneSubmit, UserStep
    PROVE  OneSubmit'
<1>0. 0 \in Versions /\ 0 \in 0..MaxIntents /\ None \in Orders \cup {None}
  BY VersionsAre, WorkspaceAssumption DEF Versions
<1>1. CASE Submit
  <2>1. ~submitting /\ submitting' = TRUE /\ Start(Submitted)
    BY <1>1 DEF Submit
  <2> DEFINE c == Submitted
  <2>2. c # None /\ c.awaited /\ c.kind \in {"create", "modify"}
    <3>1. CASE ticket = NoTicket
      <4>1. intent \in 0..MaxIntents /\ "create" \in Kinds
        BY WorkspaceAssumption DEF PageInv, Kinds
      <4> QED
        BY <3>1, <4>1, <1>0, CallFields DEF Submitted
    <3>2. CASE ticket # NoTicket
      <4>1. ticket.order \in Orders /\ ticket.version \in Versions /\ "modify" \in Kinds
        BY <3>2 DEF PageInv, GoodTicket, Kinds
      <4> QED
        BY <3>2, <4>1, <1>0, CallFields DEF Submitted
    <3> QED
      BY <3>1, <3>2
  <2>3. PICK s \in Slots : calls' = [calls EXCEPT ![s] = c]
    BY <2>1 DEF Start, FirstFree
  <2> HIDE DEF c
  <2>4. \A t \in Slots : calls'[t] = IF t = s THEN c ELSE calls[t]
    BY <2>3 DEF PageInv, GoodCalls
  <2>5. \A t \in Slots : Awaits(calls', t) <=> t = s
    BY <2>1, <2>2, <2>4 DEF OneSubmit, Awaits
  <2> QED
    BY <2>1, <2>5 DEF OneSubmit, Awaits
<1>2. ASSUME NEW k \in {"cancel", "cancelAll", "refresh"}, NEW o \in Orders \cup {None},
             Ask(Call(k, o, 0, 0))
      PROVE  OneSubmit'
  <2> DEFINE c == Call(k, o, 0, 0)
  <2>1. c.kind = k
    BY DEF Call
  <2>2. PICK s \in Slots : calls[s] = None /\ calls' = [calls EXCEPT ![s] = c]
    BY <1>2 DEF Ask, Start, FirstFree
  <2>3. submitting' = submitting
    BY <1>2 DEF Ask
  <2> HIDE DEF c
  <2>4. ~(c.kind \in {"create", "modify"}) /\ ~Awaits(calls, s)
    BY <2>1, <2>2 DEF Awaits
  <2> QED
    BY <2>2, <2>3, <2>4, SlotReplaced
<1>3. CASE UNCHANGED <<calls, submitting>>
  BY <1>3 DEF OneSubmit, Awaits
<1>4. ASSUME NEW o \in Orders, Cancel(o) PROVE OneSubmit'
  BY <1>2, <1>4 DEF Cancel
<1>5. CASE CancelAll \/ Refresh
  BY <1>0, <1>2, <1>5 DEF CancelAll, Refresh
<1>6. ASSUME CancelModify \/ ShowReview \/ CloseReview \/ \E o \in Orders : StartModify(o)
      PROVE  UNCHANGED <<calls, submitting>>
  BY <1>6 DEF CancelModify, ShowReview, CloseReview, StartModify
<1> QED
  BY <1>1, <1>3, <1>4, <1>5, <1>6 DEF UserStep

LEMMA CommandsSubmitOnce ==
    ASSUME PageInv, OneSubmit, NEW s \in Slots, CommandStep(s)
    PROVE  OneSubmit'
<1>1. Answered(s)
  BY CommandKeeps
<1> DEFINE d == calls'[s]
<1>2. calls' = [calls EXCEPT ![s] = d] /\ submitting' = submitting
      /\ ((d # None /\ d.awaited /\ d.kind \in {"create", "modify"}) <=> Awaits(calls, s))
  BY <1>1 DEF Answered, Awaits
<1> HIDE DEF d
<1> QED
  BY <1>2, SlotReplaced

LEMMA AnswersSubmitOnce ==
    ASSUME PageInv, OneSubmit, NEW s \in Slots, AnswerStep(s)
    PROVE  OneSubmit'
<1>0. /\ calls \in [Slots -> Calls \cup {None}]
      /\ \A t \in Slots : calls[t] # None => calls[t] \in Calls
  BY DEF PageInv, GoodCalls, GoodCall
\* A call that is not awaited as a submit is over, or goes on as another such call.
<1>1. ASSUME ~Awaits(calls, s), submitting' = submitting,
             \A t \in Slots : t # s => calls'[t] = calls[t], ~Awaits(calls', s)
      PROVE  OneSubmit'
  <2>1. \A t \in Slots : Awaits(calls', t) <=> Awaits(calls, t)
    BY <1>1 DEF Awaits
  <2> QED
    BY <2>1, <1>1, SameAwaits
\* The submit is heard of, one way or the other.
<1>2. ASSUME Awaits(calls, s), submitting' = FALSE,
             \A t \in Slots : t # s => calls'[t] = calls[t], ~Awaits(calls', s)
      PROVE  OneSubmit'
  <2>1. \A t \in Slots : ~Awaits(calls', t)
    BY <1>2 DEF Awaits, OneSubmit
  <2> QED
    BY <2>1, <1>2, NoAwaits
<1>3. ASSUME NEW k, NEW status, Hears(s, k, status)
      PROVE  /\ \A t \in Slots : t # s => calls'[t] = calls[t]
             /\ ~Awaits(calls', s) /\ (Awaits(calls, s) <=> k \in {"create", "modify"})
  BY <1>0, <1>3 DEF Hears, Busy, Awaits
<1>4. ASSUME NEW k, Fails(s, k)
      PROVE  /\ \A t \in Slots : t # s => calls'[t] = calls[t]
             /\ ~Awaits(calls', s) /\ (Awaits(calls, s) <=> k \in {"create", "modify"})
  <2>1. /\ calls[s] \in Calls /\ calls[s].awaited /\ calls[s].kind = k
        /\ \/ calls' = [calls EXCEPT ![s] = None]
           \/ calls' = [calls EXCEPT ![s] = [calls[s] EXCEPT !.awaited = FALSE]]
        /\ calls[s] # None
    BY <1>0, <1>4 DEF Fails, Busy
  <2>2. [calls[s] EXCEPT !.awaited = FALSE].awaited = FALSE
    BY <2>1 DEF Calls
  <2> QED
    BY <2>1, <2>2, <1>0 DEF Awaits
<1>5. CASE LoadDone(s) \/ RefreshDone(s) \/ CancelDone(s)
  <2>1. submitting' = submitting
        /\ \E k \in {"load", "refresh", "cancel"} : Hears(s, k, "ok")
    BY <1>5 DEF LoadDone, RefreshDone, CancelDone
  <2> QED
    BY <2>1, <1>1, <1>3
<1>6. CASE CreateDone(s) \/ ModifyDone(s)
  <2>1. submitting' = FALSE /\ \E k \in {"create", "modify"} : Hears(s, k, "ok")
    BY <1>6 DEF CreateDone, ModifyDone
  <2> QED
    BY <2>1, <1>2, <1>3
<1>7. CASE SubmitFailed(s)
  <2>1. submitting' = FALSE /\ \E k \in {"create", "modify"} : Fails(s, k)
    BY <1>7 DEF SubmitFailed
  <2> QED
    BY <2>1, <1>2, <1>4
<1>8. CASE LoadFailed(s) \/ OtherFailed(s)
  <2>1. submitting' = submitting
        /\ \E k \in {"load", "refresh", "cancel", "cancelAll"} : Fails(s, k)
    BY <1>8 DEF LoadFailed, OtherFailed, pageVars
  <2> QED
    BY <2>1, <1>1, <1>4
<1>9. CASE CancelAllDone(s)
  <2> DEFINE c == Call("refresh", None, 0, 0)
  <2>1. calls[s].kind = "cancelAll" /\ calls' = [calls EXCEPT ![s] = c] /\ submitting' = submitting
    BY <1>9 DEF CancelAllDone, pageVars
  <2>2. c.kind = "refresh"
    BY DEF Call
  <2> HIDE DEF c
  <2>3. /\ ~Awaits(calls, s) /\ ~Awaits(calls', s)
        /\ \A t \in Slots : t # s => calls'[t] = calls[t]
    BY <2>1, <2>2, <1>0 DEF Awaits
  <2> QED
    BY <2>1, <2>3, <1>1
<1>10. CASE Forget(s)
  <2>1. /\ ~calls[s].awaited /\ calls' = [calls EXCEPT ![s] = None] /\ submitting' = submitting
    BY <1>10 DEF Forget, pageVars
  <2>2. /\ ~Awaits(calls, s) /\ ~Awaits(calls', s)
        /\ \A t \in Slots : t # s => calls'[t] = calls[t]
    BY <2>1, <1>0 DEF Awaits
  <2> QED
    BY <2>1, <2>2, <1>1
<1> QED
  BY <1>5, <1>6, <1>7, <1>8, <1>9, <1>10 DEF AnswerStep

LEMMA SessionSubmitsOnce ==
    ASSUME PageInv, OneSubmit, EndSession \/ SignIn
    PROVE  OneSubmit'
<1>0. /\ calls \in [Slots -> Calls \cup {None}]
      /\ \A t \in Slots : calls[t] # None => calls[t] \in Calls
  BY DEF PageInv, GoodCalls, GoodCall
<1>1. ASSUME NEW t \in Slots, calls[t] # None
      PROVE  [calls[t] EXCEPT !.awaited = FALSE].awaited = FALSE /\ calls[t].kind \in Kinds
  BY <1>0, <1>1 DEF Calls
<1>2. CASE EndSession
  <2>1. calls' = Unheard({"load"}) /\ submitting' = submitting
    BY <1>2 DEF EndSession
  <2>2. ASSUME NEW t \in Slots PROVE Awaits(calls', t) <=> Awaits(calls, t)
    <3>1. CASE calls[t] = None \/ calls[t].kind # "load"
      <4>1. calls'[t] = calls[t]
        BY <2>1, <3>1 DEF Unheard, Free
      <4> QED
        BY <4>1 DEF Awaits
    <3>2. CASE calls[t] # None /\ calls[t].kind = "load"
      <4>1. calls'[t] = None \/ calls'[t] = [calls[t] EXCEPT !.awaited = FALSE]
        BY <2>1, <3>2 DEF Unheard, Free
      <4> QED
        BY <4>1, <3>2, <1>1 DEF Awaits
    <3> QED
      BY <3>1, <3>2
  <2> QED
    BY <2>1, <2>2, SameAwaits
<1>3. CASE SignIn
  <2> DEFINE left == Unheard(Kinds)
             c == Call("load", None, 0, 0)
  <2>1. submitting' = FALSE /\ \E s \in Slots : calls' = [left EXCEPT ![s] = c]
    BY <1>3 DEF SignIn, FirstFree
  <2>2. ASSUME NEW t \in Slots PROVE ~Awaits(left, t)
    <3>1. \/ calls[t] = None /\ left[t] = None
          \/ left[t] = None
          \/ calls[t] # None /\ left[t] = [calls[t] EXCEPT !.awaited = FALSE]
      BY <1>1 DEF Unheard, Free
    <3> HIDE DEF left
    <3> QED
      BY <3>1, <1>1 DEF Awaits
  <2>3. c.kind = "load" /\ left = [t \in Slots |-> left[t]]
    BY DEF Call, Unheard
  <2> HIDE DEF left, c
  <2>4. ASSUME NEW t \in Slots PROVE ~Awaits(calls', t)
    <3>1. calls'[t] = left[t] \/ calls'[t] = c
      BY <2>1, <2>3
    <3> QED
      BY <3>1, <2>2, <2>3 DEF Awaits
  <2> QED
    BY <2>1, <2>4, NoAwaits
<1> QED
  BY <1>2, <1>3

LEMMA SubmitGoesOn == PageInv /\ OneSubmit /\ [Next]_vars => OneSubmit'
<1> SUFFICES ASSUME PageInv, OneSubmit, [Next]_vars PROVE OneSubmit'
  OBVIOUS
<1>1. ASSUME \/ StreamStep \/ Connect \/ Disconnect \/ UNCHANGED vars
             \/ \E o \in Orders : Receive(o)
      PROVE  UNCHANGED <<calls, submitting>>
  BY <1>1 DEF StreamStep, Service, Connect, Disconnect, vars, pageVars, Receive
<1>2. ASSUME UNCHANGED <<calls, submitting>> PROVE OneSubmit'
  BY <1>2 DEF OneSubmit, Awaits
<1> QED
  BY <1>1, <1>2, UserSubmitsOnce, CommandsSubmitOnce, AnswersSubmitOnce, SessionSubmitsOnce DEF Next

\* OneSubmit, always: the button of the review is blocked exactly while one submit, a create
\* or a modify, is awaited (submitOrder: setSubmitting, and its finally).
THEOREM OneSubmitAtATime == Spec => []OneSubmit
<1>1. Init => PageInv /\ OneSubmit
  BY PageStarts
<1>2. PageInv /\ OneSubmit /\ [Next]_vars => (PageInv /\ OneSubmit)'
  BY PageGoesOn, SubmitGoesOn
<1> QED
  BY <1>1, <1>2, PTL DEF Spec
=============================================================================

----------------------------- MODULE DedupWindow -----------------------------
(***************************************************************************)
(* How long the deduplication index knows an identifier: the filters of    *)
(* RotatingDedupIndex, the schedule that rotates them (RotationSchedule,   *)
(* DedupIndexRotation) and what a process that starts loads from the       *)
(* database (DedupIndexWarmup, DedupIndexLoader).                          *)
(*                                                                         *)
(* The writer thread takes the live filter, and writes the bits of an      *)
(* identifier into it in a later step; the rotation thread may replace the *)
(* filters in between.  A filter is named by the number of rotations       *)
(* before it became the live one.  "Perhaps seen" never lets a command     *)
(* through as new, so false positives are left out; so is the small exact  *)
(* cache before the filters, which may have lost any answer.               *)
(*                                                                         *)
(* What a process accepts is in the database of the next one: that is the  *)
(* business of HotPathDurability.                                          *)
(*                                                                         *)
(* An operator commented (mutant) is a wrong variant of the definition     *)
(* below it, used to see that the properties notice it.                    *)
(***************************************************************************)
EXTENDS Integers, Sequences, FiniteSetsExt, Functions

CONSTANTS
    Ids,               \* identifiers of commands and of orders
    Day, Starts,       \* sessionStarts in the course of a day, in order
    SessionsRetained,
    LastMoment,        \* bound on time
    None

ASSUME DedupWindowAssumption ==
    /\ SessionsRetained \in Nat \ {0}
    /\ None \notin [id : Ids, filter : Nat]

\* Daily: the starts are times of day, at least one, sorted, each once.
ASSUME CalendarAssumption ==
    /\ Day \in Nat /\ Starts \in Seq(0..(Day - 1)) /\ Len(Starts) > 0
    /\ \A i, j \in 1..Len(Starts) : i < j => Starts[i] < Starts[j]

VARIABLES
    now,
    processed,         \* the database: when each identifier was processed
    working,           \* the database: identifiers of trees with a working order
    live, retained,    \* Filters: the live filter, and the retained ones, newest first
    content,           \* which identifiers are written into which filter
    history,           \* Filters: what was loaded, or None
    sinceHistory,      \* rotationsSinceHistory
    ready,             \* Filters: whether the index answers
    armed,             \* when the next rotation is due
    remembering,       \* the identifier the writer thread is about to write, and where
    acceptedIn         \* the filter that was live when this process accepted an identifier

filters == <<live, retained, history, sinceHistory, ready>>
vars == <<now, processed, working, filters, content, armed, remembering, acceptedIn>>

----------------------------------------------------------------------------
(* The schedule.                                                           *)

Sessions == Len(Starts)

\* The spans between consecutive starts, the last one over midnight.
Gaps == [i \in 1..Sessions |-> IF i < Sessions THEN Starts[i + 1] - Starts[i]
                               ELSE Day - (Starts[Sessions] - Starts[1])]

\* What the n sessions before a start cover; the horizon is the worst of them.
Covered(start, n) ==
    FoldFunction(+, 0, [step \in 0..(n - 1) |-> Gaps[((start - step) % Sessions) + 1]])

\* (mutant) the best of them.
BestCoverage(n) == Max({Covered(start, n) : start \in 0..(Sessions - 1)})

MinimumCoverage(n) == Min({Covered(start, n) : start \in 0..(Sessions - 1)})

NextBoundaryAfter(t) ==
    Min({d * Day + Starts[i] : d \in {t \div Day, t \div Day + 1}, i \in 1..Sessions} \ 0..t)

Horizon == MinimumCoverage(SessionsRetained)

----------------------------------------------------------------------------
(* A process.                                                              *)

NoneOfThem == [id \in Ids |-> None]

Init ==
    /\ now = 0 /\ processed = NoneOfThem /\ working = {}
    /\ live = 0 /\ retained = <<>> /\ content = {}
    /\ history = None /\ sinceHistory = 0 /\ ready = FALSE
    /\ armed = 0 /\ remembering = None /\ acceptedIn = NoneOfThem

\* The process ends, at any point, and starts with empty filters.
Restart ==
    /\ live' = 0 /\ retained' = <<>> /\ content' = {}
    /\ history' = None /\ sinceHistory' = 0 /\ ready' = FALSE
    /\ armed' = 0 /\ remembering' = None /\ acceptedIn' = NoneOfThem
    /\ UNCHANGED <<now, processed, working>>

\* The identifiers of the horizon, and of every tree that still works.
Loaded == {id \in Ids : processed[id] # None /\ processed[id] > now - Horizon} \cup working

\* publishHistory; the rotation is armed when the application is ready.  If the load
\* fails the process answers no command.
Publish ==
    /\ ~ready
    /\ history' = Loaded /\ sinceHistory' = 0 /\ ready' = TRUE
    /\ armed' = NextBoundaryAfter(now)
    /\ UNCHANGED <<now, processed, working, live, retained, content, remembering, acceptedIn>>

Consulted == {live} \cup {retained[i] : i \in DOMAIN retained}

DefinitelyNew(id) ==
    /\ \A g \in Consulted : <<g, id>> \notin content
    /\ id \notin (IF history = None THEN {} ELSE history)

\* The writer thread accepts a command or an order as new, from memory alone, and takes
\* the live filter to remember it in.
Accept(id) ==
    /\ ready /\ remembering = None
    /\ DefinitelyNew(id)
    /\ processed' = [processed EXCEPT ![id] = now]
    /\ working' \in {working, working \cup {id}}
    /\ remembering' = [id |-> id, filter |-> live]
    /\ acceptedIn' = [acceptedIn EXCEPT ![id] = live]
    /\ UNCHANGED <<now, filters, content, armed>>

\* The bits land in the filter it took, which may be the live one no more.
Remember ==
    /\ remembering # None
    /\ content' = content \cup {<<remembering.filter, remembering.id>>}
    /\ remembering' = None
    /\ UNCHANGED <<now, processed, working, filters, armed, acceptedIn>>

\* The last order of the tree of an identifier finishes.
Finish(id) ==
    /\ id \in working /\ working' = working \ {id}
    /\ UNCHANGED <<now, processed, filters, content, armed, remembering, acceptedIn>>

\* (mutant) one filter fewer is kept.
RetiredOneFewer ==
    SubSeq(<<live>> \o retained, 1,
           IF Len(retained) + 1 < SessionsRetained THEN Len(retained) + 1
           ELSE SessionsRetained - 1)

\* The live filter becomes the newest of the retained ones, which keep their number.
Retired ==
    SubSeq(<<live>> \o retained, 1,
           IF Len(retained) < SessionsRetained THEN Len(retained) + 1 ELSE SessionsRetained)

\* rotate; then the next rotation is armed.
Rotate ==
    /\ ready /\ now >= armed
    /\ live' = live + 1
    /\ retained' = Retired
    /\ sinceHistory' = IF history = None THEN sinceHistory ELSE sinceHistory + 1
    /\ history' = IF sinceHistory' >= SessionsRetained THEN None ELSE history
    /\ armed' = NextBoundaryAfter(now)
    /\ UNCHANGED <<now, processed, working, content, ready, remembering, acceptedIn>>

\* A rotation that throws is logged, and the next one is armed.
RotationFails ==
    /\ ready /\ now >= armed
    /\ armed' = NextBoundaryAfter(now)
    /\ UNCHANGED <<now, processed, working, filters, content, remembering, acceptedIn>>

\* Time goes on; a rotation that is due is not late.
Tick ==
    /\ now < LastMoment /\ ~(ready /\ now >= armed)
    /\ now' = now + 1
    /\ UNCHANGED <<processed, working, filters, content, armed, remembering, acceptedIn>>

Next ==
    \/ Restart \/ Publish \/ Remember \/ Rotate \/ RotationFails \/ Tick
    \/ \E id \in Ids : Accept(id) \/ Finish(id)

Spec == Init /\ [][Next]_vars

----------------------------------------------------------------------------
InHand(id) == remembering # None /\ remembering.id = id

\* An identifier stays known for the horizon, whoever accepted it
\* (RotatingDedupIndex: "an identifier stays known for at least the horizon").
KnownForTheHorizon ==
    ready => \A id \in Ids :
        processed[id] # None /\ now - processed[id] < Horizon /\ ~InHand(id) => ~DefinitelyNew(id)

\* The same of the identifiers that this process accepted.
OwnKnownForTheHorizon ==
    ready => \A id \in Ids :
        acceptedIn[id] # None /\ now - processed[id] < Horizon /\ ~InHand(id) => ~DefinitelyNew(id)

\* What this process accepted stays known while the filter it was accepted in is retained.
KnownWhileRetained ==
    \A id \in Ids :
        acceptedIn[id] # None /\ live <= acceptedIn[id] + SessionsRetained /\ ~InHand(id) =>
            ~DefinitelyNew(id)
=============================================================================

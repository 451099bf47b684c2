---------------------------- MODULE WriteAheadLog ----------------------------
(***************************************************************************)
(* MemoryMappedWalLogger: the commands the OMS writer thread has accepted  *)
(* and the database may not hold yet.  Every method is synchronized, so    *)
(* each is one step.  The mapping outlives the process: a crash of the JVM *)
(* keeps the records and loses the safe point, which is a field.           *)
(*                                                                         *)
(* Record lengths, byte offsets and the zeroed tail are left out: a record *)
(* is one element of a sequence.                                           *)
(*                                                                         *)
(* An operator commented (mutant) is a wrong variant of the definition     *)
(* that follows it, which the properties must tell from the right one.     *)
(***************************************************************************)
EXTENDS Naturals, Sequences

CONSTANT LogSize       \* records the mapping has room for

ASSUME LogAssumption == LogSize \in Nat \ {0}

VARIABLES
    wal,               \* the records, oldest first
    safe               \* safePoint: how many of them are handled and queued

logVars == <<wal, safe>>

LogInit == wal = <<>> /\ safe = 0

\* (mutant) the room left is not looked at.
AppendAnyway(k) == wal' = Append(wal, k) /\ UNCHANGED safe

\* append refuses a record there is no room for.
LogFull         == Len(wal) = LogSize
AppendRecord(k) == ~LogFull /\ wal' = Append(wal, k) /\ UNCHANGED safe

\* (mutant) the safe point is never advanced.
MarkNothing == UNCHANGED logVars

MarkSafePoint == safe' = Len(wal) /\ UNCHANGED wal

\* (mutant) the log is rewound instead of compacted.
Rewind == wal' = <<>> /\ safe' = 0

\* compactToSafePoint: what is beyond the safe point moves to the front.
CompactToSafePoint ==
    /\ wal' = SubSeq(wal, safe + 1, Len(wal))
    /\ safe' = 0

\* The process dies; the file stays, and is read from its beginning again.
LogCrash == safe' = 0 /\ UNCHANGED wal
=============================================================================

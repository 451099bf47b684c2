----------------------------- MODULE AuditPages -----------------------------
(***************************************************************************)
(* The page of audit events that admin/audit-api.ts puts together.  Every  *)
(* service has a log of its own; with the source "all" the page is cut     *)
(* from the newest events of each service that answered.  With the source  *)
(* of one service the page is that service's own, and not modelled.        *)
(*                                                                         *)
(* A log is the sequence of the services that wrote the events, newest     *)
(* first; an event is its place in it.                                     *)
(***************************************************************************)
EXTENDS Naturals, Sequences, FiniteSets

CONSTANTS
    Sources,           \* the services with an audit log
    PageSize,
    BroadSize          \* what is asked of each service: 200, or the page size

ASSUME AuditAssumption == PageSize \in Nat \ {0} /\ BroadSize \in Nat /\ BroadSize >= PageSize

EventsOf(log, S) == {i \in DOMAIN log : log[i] \in S}

\* Page p, of n events each, of a set of events ordered by time.
Cut(E, p, n) == {i \in E : Cardinality({j \in E : j < i}) \in (p * n)..(p * n + n - 1)}

\* (mutant) every service is asked for the page that is shown.
CombinedOfPages(log, answered, p) ==
    UNION {Cut(EventsOf(log, {s}), p, PageSize) : s \in answered}

\* combinedPage over the first BroadSize events of each service.
Combined(log, answered, p) ==
    Cut(UNION {Cut(EventsOf(log, {s}), 0, BroadSize) : s \in answered}, p, PageSize)

\* totalElements, of the services that answered; and whether p is the last page.
IsLast(log, answered, p) == (p + 1) * PageSize >= Cardinality(EventsOf(log, answered))
=============================================================================

--------------------------- MODULE OrderedDelivery ---------------------------
(***************************************************************************)
(* What the two producers of the shards promise the execution side.        *)
(*                                                                         *)
(* The events of an order that are written to the outbox are handled in    *)
(* the order in which they were written, none is left out, one may be      *)
(* handled several times but never after its successor, and an event is    *)
(* marked delivered only after it was handled.                             *)
(*                                                                         *)
(* The events the execution side raises itself, its reports, are not       *)
(* written: of an order's reports some may be lost, the others are handled *)
(* once each and in order.  Nothing is promised of a report against the    *)
(* written events of its order, but that it comes after the first of them. *)
(* Orders do not wait for each other.                                      *)
(*                                                                         *)
(* A written event is told by its place among those of its order, a report *)
(* by its number.                                                          *)
(***************************************************************************)
EXTENDS Naturals, Sequences

CONSTANTS Orders

VARIABLES
    written,           \* how many events of each order the outbox holds or held
    handled,           \* the written events of each order that were handled, as they were
    confirmed,         \* how many events of each order are marked delivered
    reported,          \* how many reports of each order were raised
    told               \* the reports of each order that were handled, as they were

vars == <<written, handled, confirmed, reported, told>>

LastOf(s) == IF s = <<>> THEN 0 ELSE s[Len(s)]

Init ==
    /\ written = [o \in Orders |-> 0]
    /\ handled = [o \in Orders |-> <<>>]
    /\ confirmed = [o \in Orders |-> 0]
    /\ reported = [o \in Orders |-> 0]
    /\ told = [o \in Orders |-> <<>>]

Write(o) ==
    /\ written' = [written EXCEPT ![o] = @ + 1]
    /\ UNCHANGED <<handled, confirmed, reported, told>>

\* The next event is handled, or the last one again.
Handle(o) ==
    /\ \E n \in (1..written[o]) \cap {LastOf(handled[o]), LastOf(handled[o]) + 1} :
          handled' = [handled EXCEPT ![o] = Append(@, n)]
    /\ UNCHANGED <<written, confirmed, reported, told>>

Confirm(o) ==
    /\ confirmed[o] < LastOf(handled[o])
    /\ confirmed' = [confirmed EXCEPT ![o] = @ + 1]
    /\ UNCHANGED <<written, handled, reported, told>>

Report(o) ==
    /\ handled[o] # <<>>
    /\ reported' = [reported EXCEPT ![o] = @ + 1]
    /\ UNCHANGED <<written, handled, confirmed, told>>

\* A later report is handled: those in between are lost.
Tell(o) ==
    /\ \E n \in (LastOf(told[o]) + 1)..reported[o] :
          told' = [told EXCEPT ![o] = Append(@, n)]
    /\ UNCHANGED <<written, handled, confirmed, reported>>

Next == \E o \in Orders : Write(o) \/ Handle(o) \/ Confirm(o) \/ Report(o) \/ Tell(o)

Spec == Init /\ [][Next]_vars
=============================================================================

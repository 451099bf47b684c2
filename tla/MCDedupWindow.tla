---------------------------- MODULE MCDedupWindow ----------------------------
(***************************************************************************)
(* DedupWindow on a calendar of four moments a day with two uneven         *)
(* sessions: the window is a day when two of them are retained, and        *)
(* depends on the moment when three are.                                   *)
(***************************************************************************)
EXTENDS DedupWindow

CONSTANTS c1, c2, none

TwoStarts == <<1, 2>>

\* The identifiers of a working tree stay known, however old ("loads every working order
\* regardless of age").  It does not hold: the filter they are loaded into is released
\* like the rest of the start-up history.
WorkingKnown == ready => \A id \in working : ~InHand(id) => ~DefinitelyNew(id)
=============================================================================

----------------------------- MODULE MCOrderLoad -----------------------------
(***************************************************************************)
(* Small instances of OrderLoad.                                           *)
(***************************************************************************)
EXTENDS OrderLoad

CONSTANTS v1, t1, t2, none

Profile(r, ch, ca, all, ts) ==
    [replays |-> r, children |-> ch, cancels |-> ca, cancelAll |-> all, tokens |-> ts]

\* The plain benchmark with duplicates, trees with cancels, cancel-all with cancels, the
\* combination that setup refuses, and one that it accepts: duplicates with trees.
LoadProfiles == {Profile(TRUE, FALSE, FALSE, FALSE, Tokens),
                 Profile(FALSE, TRUE, TRUE, FALSE, Tokens),
                 Profile(FALSE, FALSE, TRUE, TRUE, Tokens),
                 Profile(FALSE, TRUE, TRUE, TRUE, Tokens),
                 Profile(TRUE, TRUE, TRUE, FALSE, {t1})}

\* Duplicates with cancels.
ReplayedProfiles == {Profile(TRUE, FALSE, TRUE, FALSE, {t1})}
=============================================================================

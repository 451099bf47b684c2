--------------------------- MODULE MCAdminConsole ---------------------------
(***************************************************************************)
(* A small instance of AdminConsole.                                       *)
(***************************************************************************)
EXTENDS AdminConsole, TLC

CONSTANTS i1, i2, all, some, svc1, svc2, none

\* Two pages without a filter, one with it.
ListedBy == (all :> <<i1, i2>>) @@ (some :> <<i2>>)

\* Three events of two services, of which the first wrote the newest: the services are
\* treated alike.
LogsOfThree == {l \in [1..3 -> Sources] : l[1] = svc1}
EmptyLog == <<>>
=============================================================================

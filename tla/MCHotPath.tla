------------------------------ MODULE MCHotPath ------------------------------
(***************************************************************************)
(* Instances of HotPathDurability for TLC.                                 *)
(***************************************************************************)
EXTENDS HotPathDurability

CONSTANTS c1, c2, a1, a2, b1, f1, f2

\* A client's command c1 names a new order each time it is sent; a strategy's
\* command c2 always names its child b1.
AllOrders == {a1, a2, b1}
Named     == [k \in Commands |-> [i \in 1..Attempts |->
                 IF k = c2 THEN b1 ELSE IF i = 1 THEN a1 ELSE a2]]

\* Every fill is of the first order that c1 names.
ClientOrderFilled == [f \in Fills |-> a1]
=============================================================================

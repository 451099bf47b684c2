---------------------------- MODULE MCOrderTree ----------------------------
(***************************************************************************)
(* Small instances of OrderTree and OrderAccounts.                         *)
(***************************************************************************)
EXTENDS OrderAccounts

CONSTANTS o1, o2, o3, r1, r2, d1, d2, none

\* A chain of up to three levels: two strategy orders above one DMA order.
ChainOrders == {o1, o2, o3}
ChainDirect == {o3}
ChainParents == {o1, o2}

\* One strategy order and two DMA orders that may be its children.
FanDirect  == {o2, o3}
FanParents == {o1}

NoOrders == {}
OneDesk  == [o \in Orders |-> d1]

NoCollision   == {}
\* The roll-up key of the first reference for the top order looks already seen.
RollupCollision == {<<r1, o1>>}
=============================================================================

-------------------------- MODULE MCOutboxDelivery --------------------------
(***************************************************************************)
(* A small instance of OutboxDelivery: two orders of one shard.            *)
(***************************************************************************)
EXTENDS OutboxDelivery

CONSTANTS o1, o2, s1, poller, none

OneShard == [o \in Orders |-> s1]
=============================================================================

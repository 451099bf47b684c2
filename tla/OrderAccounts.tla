---------------------------- MODULE OrderAccounts ----------------------------
(***************************************************************************)
(* The quantities of an order tree added up, and the trees that SMART and  *)
(* VWAP strategies grow (ExecutionEventConsumer): one level of DMA         *)
(* children, each no larger than what its parent has left to route.        *)
(***************************************************************************)
EXTENDS OrderTree, FiniteSetsExt, Functions

Children(p) == {c \in Orders : parent[c] = p}
Strategies  == Orders \ Direct

\* ExecutionEventConsumer.exposed and available.
Exposed(p)   == MapThenSumSet(Remaining, LiveChildren(p))
Available(p) == Remaining(p) - Exposed(p)

\* A child within what its strategy parent still has to route.
Allocate(o, p, q) ==
    /\ p \notin Direct
    /\ q <= Available(p)
    /\ Create(o, p, q)

\* publishChild on a current view of the parent and its children.
RouteChild(o, p, q) == o \in Direct /\ Allocate(o, p, q)

\* (mutant) a strategy order is rejected with children out.
RejectAnyUnfilled(o) == Reject(o)

\* handleCreated rejects an order it could not route; here, before any child of
\* it was sent.
RejectUnrouted(o) == (o \notin Direct => Children(o) = {}) /\ Reject(o)

\* The commands a tree sees when clients send top-level orders and strategies
\* alone create children.
AllocatedNext ==
    \/ \E o \in Orders, q \in Quantities : Create(o, NoOrder, q)
    \/ \E o \in Orders : Cancel(o)
    \/ \E desk \in Desks : CancelAll(desk)
    \/ \E o \in Direct, r \in References, q \in Quantities : Fill(o, r, q)
    \/ \E o \in Orders : RejectUnrouted(o)
    \/ \E o \in Orders : ConfirmCancel(o)
    \/ \E o \in Orders : RefuseAck(o)

StrategyNext ==
    \/ \E o \in Orders, p \in Parents, q \in Quantities : RouteChild(o, p, q)
    \/ AllocatedNext

\* The same when a client may also place an order, a strategy of its own, under a
\* strategy order (CreateOrderRequest.parentOrderId): trees of any depth.
NestedNext ==
    \/ \E o \in Orders, p \in Parents, q \in Quantities : Allocate(o, p, q)
    \/ AllocatedNext

\* The venue answers the cancellation of a DMA order it works, and a strategy
\* runtime acknowledges the cancellation of its parent once.
VenueAnswersCancel(o) == o \in Direct /\ Pending(o) /\ ConfirmCancel(o)
RuntimeAcksCancel(o) ==
    /\ o \notin Direct /\ Pending(o) /\ o \notin refusedAcks
    /\ ConfirmCancel(o) \/ RefuseAck(o)

Fairness ==
    \A o \in Orders : WF_vars(VenueAnswersCancel(o)) /\ WF_vars(RuntimeAcksCancel(o))

StrategySpec == Init /\ [][StrategyNext]_vars /\ Fairness
NestedSpec   == Init /\ [][NestedNext]_vars /\ Fairness

----------------------------------------------------------------------------
\* What an order has traded is the sum of the executions written for it: the row
\* of the order and the rows of its fills agree (applyFillAndRecord).
TradedMatchesExecutions ==
    \A o \in Orders :
        traded[o] = MapThenSumSet(LAMBDA e : e.quantity, {e \in executions : e.order = o})

\* Parent traded quantity is consistent with its children
\* (docs/execution/README.md, "Child orders and fill roll-up").
RollupIsExact ==
    \A p \in Strategies : traded[p] = SumFunctionOnSet(traded, Children(p))

\* No strategy is stuck: one whose cancellation is pending, and whose single
\* acknowledgement was refused because children were live, still has a live child
\* whose end will complete it (the comment in confirmCancel).
PendingStrategyCanFinish ==
    \A p \in refusedAcks : p \in store => LiveChildren(p) # {}

\* A venue fill whose handler returned normally and that the order has room for is in its
\* accounts although the order was cancelled when it came: "A venue fill that was already
\* in flight can also be recorded after cancellation confirmation"
\* (docs/execution/README.md:358-361, applyFill and its CANCELLED_FILL event).
LateFillIsBooked ==
    \A f \in acknowledged :
        status[f.order] = "CANCELLED" /\ Fits(f.order, f.quantity)
            => Seen(FillKey(f.ref))

\* Every cancellation a client requests ends: the order becomes CANCELLED, or a
\* racing fill or rejection ends it first.
CancelIsResolved ==
    \A o \in Orders : (o \in store /\ Pending(o)) ~> status[o] \in Terminal
=============================================================================

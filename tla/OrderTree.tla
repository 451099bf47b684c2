----------------------------- MODULE OrderTree -----------------------------
(***************************************************************************)
(* The in-memory order book of order-management-service: live orders, the *)
(* trees they form through parentOrderId, and the commands the OMS writer  *)
(* thread applies to them (OrderCommandHandler for clients and strategies, *)
(* ExecutionCommandHandler for venues).                                    *)
(*                                                                         *)
(* One handler call is one action: the single writer thread runs handlers  *)
(* to completion one after another.  What is interleaved is the order in   *)
(* which clients, strategy runtimes and venues get their commands into the *)
(* ring, and that order is arbitrary.  The retry, log and database side of *)
(* a command is HotPathDurability's.                                       *)
(*                                                                         *)
(* An operator commented (mutant) is a wrong variant of the definition that *)
(* follows it, which the properties must tell from the right one.          *)
(*                                                                         *)
(* Quantities are counted in size increments.  Prices, listings and users  *)
(* do not steer the control of these handlers and are left out.            *)
(***************************************************************************)
EXTENDS Integers, FiniteSets

CONSTANTS
    Orders,        \* order ids that may be used
    NoOrder,       \* the absent parentOrderId
    Desks,         \* trading desks
    DeskOf,        \* the desk of the trader that sends an order's CREATE
    Direct,        \* orders whose destination is DMA; the others are SMART or VWAP
    Parents,       \* orders that some CREATE names as its parent
    Edited,        \* orders some client loads in order to modify them
    References,    \* execution references the venue assigns to its fills
    Collides,      \* unseen dedup keys the Bloom filter answers "maybe seen" for
    MaxQuantity,   \* bound on order and fill quantities
    MaxVersion,    \* bound on the revision up to which clients still modify an order
    LiveMax        \* emporia.orders.live-max

Statuses == {"NONE", "LIVE", "PARTIALLY_FILLED", "FILLED", "CANCELLED", "REJECTED"}
Active   == {"LIVE", "PARTIALLY_FILLED"}
Terminal == {"FILLED", "CANCELLED", "REJECTED"}

\* A deduplication key: the venue's own reference, or the roll-up reference
\* derived from it for one ancestor.
FillKey(r)      == <<r, NoOrder>>
RollupKey(r, p) == <<r, p>>
Keys            == References \X (Orders \cup {NoOrder})

ASSUME OrderTreeAssumption ==
    /\ NoOrder \notin Orders
    /\ DeskOf \in [Orders -> Desks]
    /\ Direct \subseteq Orders
    /\ Parents \subseteq Orders
    /\ Edited \subseteq Orders
    /\ Collides \subseteq Keys
    /\ MaxQuantity \in Nat \ {0}
    /\ MaxVersion \in Nat
    /\ LiveMax \in Nat

VARIABLES
    status, target,      \* TradingOrder.status and targetStatus ("NONE": not created)
    quantity, traded,    \* TradingOrder.quantity and tradedQuantity
    version,             \* TradingOrder.version, stamped by OrderStateCache.put
    parent, above,       \* parentOrderId, and the ancestors reached through it
    store,               \* OrderStateCache.orders: the live-order store
    executions,          \* Execution rows handed to the database writer
    references,          \* execution-reference dedup keys remembered in memory
    acknowledged,        \* venue fills whose handler call returned normally
    refusedAcks,         \* pending strategies whose acknowledgement found live children
    view                 \* what a client last loaded of an order it edits

treeVars == <<parent, above>>
fillVars == <<executions, references, acknowledged>>
vars == <<status, target, quantity, traded, version, treeVars, store, fillVars,
          refusedAcks, view>>

Remaining(o) == quantity[o] - traded[o]
Pending(o)   == target[o] = "CANCELLED"
Snapshot(o)  == [version |-> version[o], status |-> status[o], target |-> target[o],
                 quantity |-> quantity[o], traded |-> traded[o]]
NotLoaded    == [version |-> 0, status |-> "NONE", target |-> "NONE",
                 quantity |-> 0, traded |-> 0]
Fills        == [ref : References, order : Orders, quantity : 1..MaxQuantity]

TypeOK ==
    /\ status \in [Orders -> Statuses]
    /\ target \in [Orders -> Statuses]
    /\ quantity \in [Orders -> 0..MaxQuantity]
    /\ traded \in [Orders -> 0..MaxQuantity]
    /\ version \in [Orders -> Nat]
    /\ parent \in [Orders -> Orders \cup {NoOrder}]
    /\ above \in [Orders -> SUBSET Orders]
    /\ store \subseteq Orders
    /\ executions \subseteq [key : Keys, order : Orders, quantity : 1..MaxQuantity]
    /\ references \subseteq Keys
    /\ acknowledged \subseteq Fills
    /\ refusedAcks \subseteq Orders
    /\ view \in [Orders -> [version : Nat, status : Statuses, target : Statuses,
                            quantity : 0..MaxQuantity, traded : 0..MaxQuantity]]

Init ==
    /\ status = [o \in Orders |-> "NONE"]
    /\ target = [o \in Orders |-> "NONE"]
    /\ quantity = [o \in Orders |-> 0]
    /\ traded = [o \in Orders |-> 0]
    /\ version = [o \in Orders |-> 0]
    /\ parent = [o \in Orders |-> NoOrder]
    /\ above = [o \in Orders |-> {}]
    /\ store = {}
    /\ executions = {}
    /\ references = {}
    /\ acknowledged = {}
    /\ refusedAcks = {}
    /\ view = [o \in Orders |-> NotLoaded]

----------------------------------------------------------------------------
(* OrderStateCache.                                                        *)

\* (mutant) finished orders keep their place in the store.
PutKeepsFinished(revised, st) == store' = store \cup revised

\* put: a revised order stays in the store while its new status st is active
\* and leaves it, and the two indices over it, once terminal.
Put(revised, st) ==
    store' = (store \ revised) \cup {x \in revised : st[x] \in Active}

\* recordRevision, once per put.
Stamped(revised) ==
    [x \in Orders |-> IF x \in revised THEN version[x] + 1 ELSE version[x]]

LiveChildren(p) == {c \in store : parent[c] = p}

\* The orders on the way from o up to its ancestor a, a included and o not.
UpTo(o, a) == {b \in above[o] : b = a \/ a \in above[b]}

----------------------------------------------------------------------------
(* Client and strategy commands: OrderCommandHandler.                      *)

\* (mutant) an order under a parent that is being cancelled; under another desk's order.
MayBeParentPending(p, o) == p \in store /\ DeskOf[p] = DeskOf[o]
MayBeParentAnyDesk(p, o) == p \in store /\ ~Pending(p)

\* An order a child may be created under.
MayBeParent(p, o) == p \in store /\ DeskOf[p] = DeskOf[o] /\ ~Pending(p)

\* create: the id is new (identifiers are drawn at random, and a repeated
\* CREATE is stopped by its command id), the store has room, and the parent,
\* if there is one, is live on the same desk and not pending cancellation.
Create(o, p, q) ==
    /\ status[o] = "NONE"
    /\ Cardinality(store) < LiveMax
    /\ p = NoOrder \/ MayBeParent(p, o)
    /\ status' = [status EXCEPT ![o] = "LIVE"]
    /\ target' = [target EXCEPT ![o] = "LIVE"]
    /\ quantity' = [quantity EXCEPT ![o] = q]
    /\ parent' = [parent EXCEPT ![o] = p]
    /\ above' = [above EXCEPT ![o] = IF p = NoOrder THEN {} ELSE {p} \cup above[p]]
    /\ version' = Stamped({o})
    /\ Put({o}, status')
    /\ UNCHANGED <<traded, fillVars, refusedAcks, view>>

\* A client loads the order it is about to change.
Load(o) ==
    /\ status[o] # "NONE"
    /\ view' = [view EXCEPT ![o] = Snapshot(o)]
    /\ UNCHANGED <<status, target, quantity, traded, version, treeVars, store,
                   fillVars, refusedAcks>>

\* (mutant) a modification without its two checks.
AnyVersionMatches(o)      == TRUE
LeavesRemainderOrNone(o, q) == q >= traded[o]

ExpectedVersionMatches(o) == view[o].version = version[o]
LeavesRemainder(o, q)     == q > traded[o]

\* modify, and TradingOrder.modify.  The remaining quantity is Remaining(o).
Modify(o, q) ==
    /\ o \in store /\ view[o] # NotLoaded
    /\ ~Pending(o)
    /\ o \in Direct
    /\ ExpectedVersionMatches(o)
    /\ LeavesRemainder(o, q)
    /\ version[o] < MaxVersion
    /\ quantity' = [quantity EXCEPT ![o] = q]
    /\ version' = Stamped({o})
    /\ Put({o}, status)
    /\ UNCHANGED <<status, target, traded, treeVars, fillVars, refusedAcks, view>>

\* requestCancel on every order in chosen.
RequestCancel(chosen) ==
    /\ target' = [x \in Orders |-> IF x \in chosen THEN "CANCELLED" ELSE target[x]]
    /\ version' = Stamped(chosen)
    /\ Put(chosen, status)
    /\ UNCHANGED <<status, quantity, traded, treeVars, fillVars, refusedAcks, view>>

\* (mutant) the cascade stops at the children of the order, or does nothing.
LiveBelowOneLevel(o) == LiveChildren(o)
LiveBelowNothing(o)  == {}

\* requestChildCancellations: live descendants reached through live orders.
LiveBelow(o) ==
    {d \in store : /\ o \in above[d]
                   /\ \A m \in above[d] : o \in above[m] => m \in store}

\* cancel: the children that are not pending yet, then the order itself.
Cancel(o) ==
    /\ o \in store
    /\ ~Pending(o)
    /\ RequestCancel({o} \cup {d \in LiveBelow(o) : ~Pending(d)})

\* cancelAll: every live order of the desk that is not pending yet.
CancelAll(desk) ==
    LET chosen == {o \in store : DeskOf[o] = desk /\ ~Pending(o)}
    IN  chosen # {} /\ RequestCancel(chosen)

----------------------------------------------------------------------------
(* Venue and strategy-runtime commands: ExecutionCommandHandler.           *)

\* (mutant) an over-fill is taken; a filled order stays aimed at its cancellation.
FitsAlways(o, q) == TRUE
TargetPendingFirst(o, q) ==
    IF Pending(o) THEN "CANCELLED"
    ELSE IF traded[o] + q = quantity[o] THEN "FILLED" ELSE "LIVE"

\* TradingOrder.applyFill on one order: what a fill of q does to its state.
Fits(o, q) == q <= Remaining(o)
StatusAfterFill(o, q) == IF traded[o] + q = quantity[o] THEN "FILLED" ELSE "PARTIALLY_FILLED"
TargetAfterFill(o, q) ==
    IF traded[o] + q = quantity[o] THEN "FILLED"
    ELSE IF Pending(o) THEN "CANCELLED" ELSE "LIVE"

\* (mutant) no deduplication.
SeenNever(key) == FALSE

\* executionReferenceMemoryOnly: an unseen key is new, unless the filter answers
\* "maybe" for it, which is UNCERTAIN and raises HotPathUnavailableException.
Seen(key)      == key \in references
Uncertain(key) == key \notin references /\ key \in Collides

\* (mutant) the walk credits finished ancestors.
RollupPathThrough(o) == above[o]

\* The roll-up walk visits the ancestors of o up to the first one that is not in
\* the live store.
RollupPath(o) == {a \in above[o] : UpTo(o, a) \subseteq store}

\* The roll-up of one ancestor raises: its key is uncertain, or applyFill refuses
\* a quantity beyond what the ancestor has left.  The walk ends there.
RollupRaises(a, r, q) ==
    \/ Uncertain(RollupKey(r, a))
    \/ ~Seen(RollupKey(r, a)) /\ ~Fits(a, q)

\* The ancestors whose roll-up is applied, and whether the walk was cut short.
RolledUp(o, r, q) ==
    {a \in RollupPath(o) : /\ \A b \in UpTo(o, a) : ~RollupRaises(b, r, q)
                           /\ ~Seen(RollupKey(r, a))}
RollupCut(o, r, q) == \E a \in RollupPath(o) : RollupRaises(a, r, q)

\* (mutant) live children do not hold a completion back; nothing completes.
MayCompleteEarly(o, a, tg, sto)   == a \in sto /\ tg[a] = "CANCELLED"
CompletedNever(o, tg, sto)        == {}

\* completePendingAncestors, on the book (target tg, store sto) the command has
\* produced so far: upwards from o, each ancestor that is live, pending
\* cancellation and has no live child left, up to the first that is not.
MayComplete(o, a, tg, sto) ==
    /\ a \in sto
    /\ tg[a] = "CANCELLED"
    /\ \A c \in sto : parent[c] = a => c \in above[o]
CompletedAncestors(o, tg, sto) ==
    {a \in above[o] : \A b \in UpTo(o, a) : MayComplete(o, b, tg, sto)}

\* (mutant) the executions of the ancestors are not written.
RecordFillOnly(o, r, q, ancestors) ==
    /\ executions' = executions \cup {[key |-> FillKey(r), order |-> o, quantity |-> q]}
    /\ references' = references \cup {FillKey(r)} \cup {RollupKey(r, a) : a \in ancestors}

\* Executions, references and the return of a fill credited to some orders.
Record(o, r, q, ancestors) ==
    /\ executions' = executions
         \cup {[key |-> FillKey(r), order |-> o, quantity |-> q]}
         \cup {[key |-> RollupKey(r, a), order |-> a, quantity |-> q] : a \in ancestors}
    /\ references' = references \cup {FillKey(r)} \cup {RollupKey(r, a) : a \in ancestors}

\* A venue reports each of its executions under one reference.
SameReport(o, r, q) ==
    /\ \A e \in executions : e.key = FillKey(r) => e.order = o /\ e.quantity = q
    /\ \A f \in acknowledged : f.ref = r => f.order = o /\ f.quantity = q
Acknowledge(o, r, q) ==
    acknowledged' = acknowledged \cup {[ref |-> r, order |-> o, quantity |-> q]}

\* FILL: credit the order, then its ancestors, then complete the pending
\* ancestors of an order that is now terminal.  When the walk raises, what was
\* credited before stays and nothing after it happens.
ApplyFill(o, r, q) ==
    /\ ~Seen(FillKey(r)) /\ ~Uncertain(FillKey(r))
    /\ o \in store /\ Fits(o, q)
    /\ LET rolled    == RolledUp(o, r, q)
           credited  == {o} \cup rolled
           filled    == [x \in Orders |-> IF x \in credited THEN StatusAfterFill(x, q)
                                                            ELSE status[x]]
           aimed     == [x \in Orders |-> IF x \in credited THEN TargetAfterFill(x, q)
                                                            ELSE target[x]]
           left      == {x \in store : filled[x] \in Active}
           completed == IF RollupCut(o, r, q) \/ filled[o] # "FILLED" THEN {}
                        ELSE CompletedAncestors(o, aimed, left)
       IN /\ traded' = [x \in Orders |-> IF x \in credited THEN traded[x] + q
                                                           ELSE traded[x]]
          /\ status' = [x \in Orders |-> IF x \in completed THEN "CANCELLED"
                                                            ELSE filled[x]]
          /\ target' = aimed
          /\ version' = [x \in Orders |->
                  version[x] + (IF x \in credited THEN 1 ELSE 0)
                             + (IF x \in completed THEN 1 ELSE 0)]
          /\ Put(credited \cup completed, status')
          /\ Record(o, r, q, rolled)
          /\ IF RollupCut(o, r, q) THEN UNCHANGED acknowledged ELSE Acknowledge(o, r, q)
    /\ UNCHANGED <<quantity, treeVars, refusedAcks, view>>

\* FILL that changes no order: its reference is known, or its order has left the
\* live store (findLiveOrAssumeTerminal).  The handler returns normally.
IgnoreFill(o, r, q) ==
    /\ status[o] # "NONE"
    /\ Seen(FillKey(r)) \/ (~Uncertain(FillKey(r)) /\ o \notin store)
    /\ Acknowledge(o, r, q)
    /\ UNCHANGED <<status, target, quantity, traded, version, treeVars, store,
                   executions, references, refusedAcks, view>>

\* REJECT, of an unfilled live order; any other is left alone.
Reject(o) ==
    /\ o \in store
    /\ status[o] = "LIVE" /\ traded[o] = 0
    /\ LET completed == CompletedAncestors(o, target, store \ {o})
           ended     == {o} \cup completed
       IN /\ status' = [x \in Orders |-> IF x = o THEN "REJECTED"
                                         ELSE IF x \in completed THEN "CANCELLED"
                                         ELSE status[x]]
          /\ target' = [target EXCEPT ![o] = "REJECTED"]
          /\ version' = Stamped(ended)
          /\ Put(ended, status')
    /\ UNCHANGED <<quantity, traded, treeVars, fillVars, refusedAcks, view>>

\* (mutant) every order takes a cancel acknowledgement.
AckRefusedNever(o) == FALSE

\* A strategy order with live children does not take a cancel acknowledgement.
AckRefused(o) == o \notin Direct /\ LiveChildren(o) # {}

\* CANCEL: a venue ended the order, or a strategy runtime stopped.
ConfirmCancel(o) ==
    /\ o \in store
    /\ ~AckRefused(o)
    /\ LET ended == {o} \cup CompletedAncestors(o, target, store \ {o})
       IN /\ status' = [x \in Orders |-> IF x \in ended THEN "CANCELLED" ELSE status[x]]
          /\ target' = [target EXCEPT ![o] = "CANCELLED"]
          /\ version' = Stamped(ended)
          /\ Put(ended, status')
    /\ UNCHANGED <<quantity, traded, treeVars, fillVars, refusedAcks, view>>

\* ... and one that is refused changes nothing: the acknowledgement of a pending
\* cancellation is then spent.
RefuseAck(o) ==
    /\ o \in store
    /\ Pending(o)
    /\ AckRefused(o)
    /\ refusedAcks' = refusedAcks \cup {o}
    /\ UNCHANGED <<status, target, quantity, traded, version, treeVars, store,
                   fillVars, view>>

----------------------------------------------------------------------------
Quantities == 1..MaxQuantity

ClientNext ==
    \/ \E o \in Orders, p \in Parents \cup {NoOrder}, q \in Quantities : Create(o, p, q)
    \/ \E o \in Edited : Load(o)
    \/ \E o \in Edited, q \in Quantities : Modify(o, q)
    \/ \E o \in Orders : Cancel(o)
    \/ \E desk \in Desks : CancelAll(desk)

Fill(o, r, q) == SameReport(o, r, q) /\ (ApplyFill(o, r, q) \/ IgnoreFill(o, r, q))

VenueNext ==
    \/ \E o \in Direct, r \in References, q \in Quantities : Fill(o, r, q)
    \/ \E o \in Orders : Reject(o)
    \/ \E o \in Orders : ConfirmCancel(o)
    \/ \E o \in Orders : RefuseAck(o)

Next == ClientNext \/ VenueNext

Spec == Init /\ [][Next]_vars

----------------------------------------------------------------------------
(* Safety.                                                                 *)

\* What TradingOrder.validateInvariants asserts after every transition.  The
\* transitions assign first and validate last, so an order it refused would
\* already have been changed when the exception leaves the handler.
OrderIsConsistent(o) ==
    /\ traded[o] <= quantity[o]
    /\ quantity[o] > 0
    /\ status[o] \in {"LIVE", "REJECTED"} => traded[o] = 0
    /\ status[o] = "PARTIALLY_FILLED" => traded[o] \in 1..(quantity[o] - 1)
    /\ status[o] = "FILLED" => traded[o] = quantity[o]
    /\ status[o] = "CANCELLED" => traded[o] < quantity[o]
    /\ IF target[o] = "CANCELLED" THEN status[o] \in Active \cup {"CANCELLED"}
       ELSE target[o] = status[o] \/ (target[o] = "LIVE" /\ status[o] \in Active)

\* No sequence of client, strategy and venue commands brings an order to a state
\* validateInvariants (TradingOrder.java:264-322) would refuse.
ValidateInvariantsHolds ==
    \A o \in Orders : status[o] # "NONE" => OrderIsConsistent(o)

\* The live-order store (OrderStateCache.java:215-376) holds exactly the orders
\* that are not finished: none is lost while it can still be filled, none that is
\* finished keeps a slot or can be found by a later command.
StoreHoldsTheLive == store = {o \in Orders : status[o] \in Active}

\* A strategy order is CANCELLED only after all of its children are finished, so
\* that it never looks cancelled while venue orders work for it
\* (ExecutionCommandHandler.confirmCancel and completePendingAncestors).
CancelledStrategyHasNoLiveChild ==
    \A o, c \in Orders :
        parent[c] = o /\ o \notin Direct /\ status[o] = "CANCELLED"
            => status[c] \in Terminal

\* A pending cancellation covers the live children of the order too: none is
\* missed by the cascade, and none is created under it afterwards
\* (OrderCommandHandler.cancel, cancelAll and create).
PendingCoversChildren ==
    \A o, c \in Orders :
        parent[c] = o /\ {o, c} \subseteq store /\ Pending(o) => Pending(c)

\* A finished order never changes again, neither its status nor what it traded: the
\* store has dropped it, and findLiveOrAssumeTerminal finds nothing to change.  That is
\* what the code does and not all a reader may want: for a cancelled order it means that
\* a fill in flight is lost, against docs/execution/README.md:358-361 (LateFillIsBooked).
TerminalIsFinal ==
    [][\A o \in Orders : status[o] \in Terminal =>
           status'[o] = status[o] /\ traded'[o] = traded[o]]_vars

\* What an order has traded grows only together with a reference that had never
\* been counted for that order (applyFillAndRecord): no retry, duplicate or
\* interleaved report is counted twice.
CreditedOnce ==
    [][\A o \in Orders : traded'[o] # traded[o] =>
           \E e \in executions' \ executions :
               /\ e.order = o
               /\ traded'[o] = traded[o] + e.quantity
               /\ e.key \notin references /\ e.key \in references']_vars

\* A modification is applied only to the order the client looked at: nothing
\* about it has changed since it was loaded (the expectedVersion check of
\* OrderCommandHandler.modify over the revisions OrderStateCache.put stamps).
ModifySeesCurrentOrder ==
    [][\A o \in Orders : status[o] # "NONE" /\ quantity'[o] # quantity[o] =>
           view[o] = Snapshot(o)]_vars

\* One command changes orders of one desk only (findLiveByIdAndDeskMemoryOnly,
\* liveOrdersOnDeskMemoryOnly, and the desk check on a CREATE's parent).
DesksAreIsolated ==
    [][\A a, b \in Orders : version'[a] # version[a] /\ version'[b] # version[b] =>
           DeskOf[a] = DeskOf[b]]_vars

----------------------------------------------------------------------------
(* The inductive invariant: the safety invariants above and the shape of    *)
(* the trees they are about.                                               *)

\* above is the closure of parent, over orders of one desk that were created, and
\* acyclic; an order that was not created is blank.
TreeShape ==
    \A o \in Orders :
        /\ status[o] = "NONE" => /\ parent[o] = NoOrder /\ target[o] = "NONE"
                                 /\ traded[o] = 0
        /\ above[o] = IF parent[o] = NoOrder THEN {} ELSE {parent[o]} \cup above[parent[o]]
        /\ o \notin above[o]
        /\ \A a \in above[o] : /\ status[a] # "NONE" /\ DeskOf[a] = DeskOf[o]
                               /\ above[a] \subseteq above[o]

\* What was executed is remembered for deduplication.
ExecutionsAreRemembered == \A e \in executions : e.key \in references

\* Everything the handlers maintain about the order book, together.
IInv ==
    /\ TypeOK
    /\ TreeShape
    /\ ValidateInvariantsHolds
    /\ StoreHoldsTheLive
    /\ CancelledStrategyHasNoLiveChild
    /\ PendingCoversChildren
    /\ ExecutionsAreRemembered
=============================================================================

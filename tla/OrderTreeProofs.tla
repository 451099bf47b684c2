--------------------------- MODULE OrderTreeProofs ---------------------------
(***************************************************************************)
(* Theorems about OrderTree, for every set of orders, desks, references    *)
(* and Bloom-filter collisions, and trees of any depth; and, in the second *)
(* half, about the sums that OrderAccounts keeps over such a tree.         *)
(***************************************************************************)
EXTENDS OrderAccounts, InductionFacts

\* The type invariant is inductive.
LEMMA TypeInit == Init => TypeOK
BY OrderTreeAssumption DEF Init, TypeOK, Statuses, NotLoaded

\* The orders a roll-up credits have room for the fill.
LEMMA RolledUpFits ==
    ASSUME NEW o \in Orders, NEW r \in References, NEW q \in Quantities,
           NEW a \in RolledUp(o, r, q)
    PROVE  a \in above[o] /\ Fits(a, q)
BY DEF RolledUp, RollupPath, UpTo, RollupRaises

\* Every command keeps the types.
LEMMA TypeStep == TypeOK /\ [Next]_vars => TypeOK'
<1> SUFFICES ASSUME TypeOK, [Next]_vars PROVE TypeOK'
  OBVIOUS
<1> USE OrderTreeAssumption DEF TypeOK, Statuses, Active
<1>1. ASSUME NEW o \in Orders, NEW p \in Parents \cup {NoOrder}, NEW q \in Quantities,
             Create(o, p, q)
      PROVE  TypeOK'
  BY <1>1 DEF Create, Put, Stamped, Quantities, fillVars
<1>2. ASSUME NEW o \in Edited, Load(o)
      PROVE  TypeOK'
  BY <1>2 DEF Load, Snapshot, treeVars, fillVars
<1>3. ASSUME NEW o \in Edited, NEW q \in Quantities, Modify(o, q)
      PROVE  TypeOK'
  BY <1>3 DEF Modify, Put, Stamped, Quantities, treeVars, fillVars
<1>4. ASSUME NEW S \in SUBSET Orders, RequestCancel(S)
      PROVE  TypeOK'
  BY <1>4 DEF RequestCancel, Put, Stamped, treeVars, fillVars
<1>5. ASSUME NEW o \in Orders, Cancel(o)
      PROVE  TypeOK'
  BY <1>5, <1>4 DEF Cancel, LiveBelow
<1>6. ASSUME NEW desk \in Desks, CancelAll(desk)
      PROVE  TypeOK'
  BY <1>6, <1>4 DEF CancelAll
<1>7. ASSUME NEW o \in Direct, NEW r \in References, NEW q \in Quantities,
             ApplyFill(o, r, q)
      PROVE  TypeOK'
  <2> DEFINE rolled == RolledUp(o, r, q)
             credited == {o} \cup rolled
  <2>1. credited \subseteq Orders /\ \A x \in credited : Fits(x, q)
    BY <1>7, RolledUpFits DEF ApplyFill
  <2>2. traded' \in [Orders -> 0..MaxQuantity]
    BY <1>7, <2>1 DEF ApplyFill, Fits, Remaining, Quantities
  <2>3. status' \in [Orders -> Statuses] /\ target' \in [Orders -> Statuses]
    BY <1>7 DEF ApplyFill, StatusAfterFill, TargetAfterFill
  <2>4. version' \in [Orders -> Nat]
    BY <1>7 DEF ApplyFill
  <2>5. store' \subseteq Orders
    BY <1>7, <2>1 DEF ApplyFill, Put, CompletedAncestors
  <2>6. /\ executions' \subseteq [key : Keys, order : Orders, quantity : 1..MaxQuantity]
        /\ references' \subseteq Keys
    BY <1>7, <2>1 DEF ApplyFill, Record, FillKey, RollupKey, Keys, Quantities
  <2>7. acknowledged' \subseteq Fills
    BY <1>7 DEF ApplyFill, Acknowledge, Fills, Quantities
  <2>8. QED
    BY <1>7, <2>2, <2>3, <2>4, <2>5, <2>6, <2>7 DEF ApplyFill, treeVars
<1>8. ASSUME NEW o \in Direct, NEW r \in References, NEW q \in Quantities,
             IgnoreFill(o, r, q)
      PROVE  TypeOK'
  BY <1>8 DEF IgnoreFill, Acknowledge, Fills, Quantities, treeVars
<1>9. ASSUME NEW o \in Orders, Reject(o)
      PROVE  TypeOK'
  BY <1>9 DEF Reject, Put, Stamped, CompletedAncestors, treeVars, fillVars
<1>10. ASSUME NEW o \in Orders, ConfirmCancel(o)
       PROVE  TypeOK'
  BY <1>10 DEF ConfirmCancel, Put, Stamped, CompletedAncestors, treeVars, fillVars
<1>11. ASSUME NEW o \in Orders, RefuseAck(o)
       PROVE  TypeOK'
  BY <1>11 DEF RefuseAck, treeVars, fillVars
<1>12. CASE UNCHANGED vars
  BY <1>12 DEF vars, treeVars, fillVars
<1>13. QED
  BY <1>1, <1>2, <1>3, <1>5, <1>6, <1>7, <1>8, <1>9, <1>10, <1>11, <1>12
     DEF Next, ClientNext, VenueNext, Fill

\* Type correctness of the order book in every reachable state.
THEOREM TypeCorrect == Spec => []TypeOK
BY TypeInit, TypeStep, PTL DEF Spec

----------------------------------------------------------------------------
(* What a step may do to an order, whatever the command.                   *)

\* Roll-ups and completions reach live orders only.
LEMMA ReachedOrdersAreLive ==
    ASSUME NEW o \in Orders, TypeOK
    PROVE  /\ \A r, q : RolledUp(o, r, q) \subseteq store \cap above[o]
           /\ \A tg, sto : CompletedAncestors(o, tg, sto) \subseteq sto \cap above[o]
           /\ LiveBelow(o) \subseteq store
BY DEF TypeOK, RolledUp, RollupPath, UpTo, CompletedAncestors, MayComplete, LiveBelow

\* Every command except CREATE leaves the tree alone, moves only live orders, and
\* keeps the store in step with the statuses it writes.
Untouched(o) ==
    /\ status'[o] = status[o] /\ target'[o] = target[o]
    /\ quantity'[o] = quantity[o] /\ traded'[o] = traded[o]

Revision ==
    /\ parent' = parent /\ above' = above
    /\ \A o \in Orders : o \notin store => Untouched(o)
    /\ \A o \in Orders : o \in store => status'[o] \in Active \cup Terminal
    /\ store' = {o \in store : status'[o] \in Active}

\* The commands other than CREATE and the cancel requests, and those with them.
Other ==
    \/ \E o \in Edited : Load(o)
    \/ \E o \in Edited, q \in Quantities : Modify(o, q)
    \/ \E o \in Direct, r \in References, q \in Quantities :
           ApplyFill(o, r, q) \/ IgnoreFill(o, r, q)
    \/ \E o \in Orders : Reject(o) \/ ConfirmCancel(o) \/ RefuseAck(o)
    \/ UNCHANGED vars

NotCreate == Other \/ \E S \in SUBSET store : RequestCancel(S)

\* A step of the handlers is one of these cases.
LEMMA NextCases ==
    ASSUME TypeOK, [Next]_vars
    PROVE  \/ \E o \in Orders, p \in Parents \cup {NoOrder}, q \in Quantities : Create(o, p, q)
           \/ NotCreate
<1>1. ASSUME NEW o \in Orders, Cancel(o)
      PROVE  \E S \in SUBSET store : RequestCancel(S)
  BY <1>1, ReachedOrdersAreLive DEF Cancel
<1>2. ASSUME NEW desk \in Desks, CancelAll(desk)
      PROVE  \E S \in SUBSET store : RequestCancel(S)
  BY <1>2 DEF CancelAll
<1>3. QED
  BY <1>1, <1>2 DEF Next, ClientNext, VenueNext, Fill, NotCreate, Other

\* What a command may do to the orders that exist, whichever command it is.
LEMMA RevisionStep ==
    ASSUME TypeOK, StoreHoldsTheLive, NotCreate
    PROVE  Revision
<1> USE OrderTreeAssumption DEF TypeOK, StoreHoldsTheLive, Active, Terminal, Revision, Untouched
<1>1. ASSUME NEW o \in Edited, Load(o) PROVE Revision
  BY <1>1 DEF Load, treeVars
<1>2. ASSUME NEW o \in Edited, NEW q \in Quantities, Modify(o, q) PROVE Revision
  BY <1>2 DEF Modify, Put, treeVars
<1>3. ASSUME NEW S \in SUBSET store, RequestCancel(S) PROVE Revision
  BY <1>3 DEF RequestCancel, Put, treeVars
<1>4. ASSUME NEW o \in Direct, NEW r \in References, NEW q \in Quantities, ApplyFill(o, r, q)
      PROVE  Revision
  <2> DEFINE rolled    == RolledUp(o, r, q)
             credited  == {o} \cup rolled
             filled    == [x \in Orders |-> IF x \in credited THEN StatusAfterFill(x, q)
                                                              ELSE status[x]]
             aimed     == [x \in Orders |-> IF x \in credited THEN TargetAfterFill(x, q)
                                                              ELSE target[x]]
             left      == {x \in store : filled[x] \in Active}
             completed == IF RollupCut(o, r, q) \/ filled[o] # "FILLED" THEN {}
                          ELSE CompletedAncestors(o, aimed, left)
  <2>1. o \in store /\ credited \subseteq store /\ completed \subseteq store
    <3>1. o \in store
      BY <1>4 DEF ApplyFill
    <3>2. rolled \subseteq store
      BY ReachedOrdersAreLive
    <3>3. CompletedAncestors(o, aimed, left) \subseteq left
      <4> HIDE DEF aimed, left
      <4>1. QED
        BY ReachedOrdersAreLive
    <3>4. QED
      BY <3>1, <3>2, <3>3
  <2>2. /\ traded' = [x \in Orders |-> IF x \in credited THEN traded[x] + q ELSE traded[x]]
        /\ status' = [x \in Orders |-> IF x \in completed THEN "CANCELLED" ELSE filled[x]]
        /\ target' = aimed
        /\ Put(credited \cup completed, status')
        /\ UNCHANGED <<quantity, parent, above>>
    BY <1>4 DEF ApplyFill, treeVars
  <2>3. \A x \in store : status'[x] \in Active \cup Terminal
    <3>1. \A x \in Orders : StatusAfterFill(x, q) \in {"FILLED", "PARTIALLY_FILLED"}
      BY DEF StatusAfterFill
    <3>2. \A x \in store : status'[x] \in {"CANCELLED", StatusAfterFill(x, q), status[x]}
      BY <2>2
    <3>3. QED
      BY <3>1, <3>2
  <2>4. \A x \in Orders : x \notin store => Untouched(x)
    BY <2>1, <2>2
  <2>5. store' = {x \in store : status'[x] \in Active}
    BY <2>1, <2>2 DEF Put
  <2>6. QED
    BY <2>2, <2>3, <2>4, <2>5
<1>5. ASSUME NEW o \in Direct, NEW r \in References, NEW q \in Quantities, IgnoreFill(o, r, q)
      PROVE  Revision
  BY <1>5 DEF IgnoreFill, treeVars
<1>6. ASSUME NEW o \in Orders, Reject(o) PROVE Revision
  <2>1. o \in store /\ CompletedAncestors(o, target, store \ {o}) \subseteq store \ {o}
    BY <1>6, ReachedOrdersAreLive DEF Reject
  <2>2. QED
    BY <1>6, <2>1 DEF Reject, Put, treeVars
<1>7. ASSUME NEW o \in Orders, ConfirmCancel(o) PROVE Revision
  <2> DEFINE ended == {o} \cup CompletedAncestors(o, target, store \ {o})
  <2>1. o \in store /\ ended \subseteq store
    BY <1>7, ReachedOrdersAreLive DEF ConfirmCancel
  <2>2. /\ status' = [x \in Orders |-> IF x \in ended THEN "CANCELLED" ELSE status[x]]
        /\ target' = [target EXCEPT ![o] = "CANCELLED"]
        /\ Put(ended, status')
        /\ UNCHANGED <<quantity, traded, parent, above>>
    BY <1>7 DEF ConfirmCancel, treeVars
  <2> HIDE DEF ended
  <2>3. store' = {x \in store : status'[x] \in Active}
    BY <2>1, <2>2 DEF Put
  <2>4. QED
    BY <2>1, <2>2, <2>3
<1>8. ASSUME NEW o \in Orders, RefuseAck(o) PROVE Revision
  BY <1>8 DEF RefuseAck, treeVars
<1>9. CASE UNCHANGED vars
  BY <1>9 DEF vars, treeVars
<1>10. QED
  BY <1>1, <1>2, <1>3, <1>4, <1>5, <1>6, <1>7, <1>8, <1>9 DEF NotCreate, Other

----------------------------------------------------------------------------
(* The trees and the store.                                                *)

\* Parents and ancestors are fixed at creation, so the tree keeps its shape.
LEMMA TreeShapeStep ==
    ASSUME TypeOK, StoreHoldsTheLive, TreeShape, [Next]_vars
    PROVE  TreeShape'
<1> USE OrderTreeAssumption DEF TypeOK
<1>1. ASSUME NEW o \in Orders, NEW p \in Parents \cup {NoOrder}, NEW q \in Quantities,
             Create(o, p, q)
      PROVE  TreeShape'
  <2>1. \A x \in Orders : o \notin above[x]
    BY <1>1 DEF Create, TreeShape
  <2>2. p # NoOrder => p # o /\ p \in Orders /\ status[p] # "NONE"
    BY <1>1 DEF Create, MayBeParent, StoreHoldsTheLive, Active
  <2>3. /\ status' = [status EXCEPT ![o] = "LIVE"]
        /\ target' = [target EXCEPT ![o] = "LIVE"]
        /\ parent' = [parent EXCEPT ![o] = p]
        /\ above' = [above EXCEPT ![o] = IF p = NoOrder THEN {} ELSE {p} \cup above[p]]
        /\ traded' = traded
        /\ status[o] = "NONE"
        /\ p # NoOrder => DeskOf[p] = DeskOf[o]
    BY <1>1 DEF Create, MayBeParent
  <2> SUFFICES ASSUME NEW x \in Orders
               PROVE  /\ status'[x] = "NONE" => /\ parent'[x] = NoOrder /\ target'[x] = "NONE"
                                                /\ traded'[x] = 0
                      /\ above'[x] = IF parent'[x] = NoOrder THEN {}
                                     ELSE {parent'[x]} \cup above'[parent'[x]]
                      /\ x \notin above'[x]
                      /\ \A a \in above'[x] : /\ status'[a] # "NONE" /\ DeskOf[a] = DeskOf[x]
                                              /\ above'[a] \subseteq above'[x]
    BY DEF TreeShape
  <2>4. CASE x = o
    <3>1. CASE p = NoOrder
      BY <2>3, <2>4, <3>1
    <3>2. CASE p # NoOrder
      <4>1. p \in Orders /\ p # o /\ status[p] # "NONE" /\ o \notin above[p]
        BY <2>1, <2>2, <3>2
      <4>2. above'[o] = {p} \cup above[p] /\ above'[p] = above[p]
        BY <2>3, <3>2, <4>1
      <4>3. \A a \in above[p] : a # o /\ above'[a] = above[a] /\ above[a] \subseteq above[p]
                               /\ status[a] # "NONE" /\ DeskOf[a] = DeskOf[p]
        BY <2>3, <4>1 DEF TreeShape
      <4>4. QED
        BY <2>3, <2>4, <3>2, <4>1, <4>2, <4>3
    <3>3. QED
      BY <3>1, <3>2
  <2>5. CASE x # o
    <3>1. above'[x] = above[x] /\ parent'[x] = parent[x]
      BY <2>3, <2>5
    <3>2. parent[x] # NoOrder => parent[x] \in above[x] /\ parent[x] # o
      BY <2>1 DEF TreeShape
    <3>3. \A a \in above[x] : a # o /\ above'[a] = above[a] /\ status'[a] = status[a]
      BY <2>1, <2>3
    <3>4. /\ status'[x] = status[x] /\ target'[x] = target[x] /\ traded'[x] = traded[x]
      BY <2>3, <2>5
    <3>5. QED
      BY <3>1, <3>2, <3>3, <3>4, <2>3 DEF TreeShape
  <2>6. QED
    BY <2>4, <2>5
<1>2. CASE NotCreate
  <2>1. Revision
    BY <1>2, RevisionStep
  <2>2. QED
    BY <2>1 DEF Revision, Untouched, TreeShape, StoreHoldsTheLive, Active, Terminal
<1>3. QED
  BY <1>1, <1>2, NextCases

\* Every command puts the orders it revised, so the store stays the live orders.
LEMMA StoreStep ==
    ASSUME TypeOK, StoreHoldsTheLive, [Next]_vars
    PROVE  StoreHoldsTheLive'
<1> USE OrderTreeAssumption DEF TypeOK
<1>1. ASSUME NEW o \in Orders, NEW p \in Parents \cup {NoOrder}, NEW q \in Quantities,
             Create(o, p, q)
      PROVE  StoreHoldsTheLive'
  BY <1>1 DEF Create, Put, StoreHoldsTheLive, Active
<1>2. CASE NotCreate
  BY <1>2, RevisionStep DEF Revision, Untouched, StoreHoldsTheLive
<1>3. QED
  BY <1>1, <1>2, NextCases

----------------------------------------------------------------------------
(* The order's own state machine.                                          *)

\* Every command leaves every order in a state validateInvariants accepts.
LEMMA ConsistentStep ==
    ASSUME TypeOK, StoreHoldsTheLive, TreeShape, ValidateInvariantsHolds, [Next]_vars
    PROVE  ValidateInvariantsHolds'
<1> USE OrderTreeAssumption DEF TypeOK, ValidateInvariantsHolds
<1>1. ASSUME NEW o \in Orders, NEW p \in Parents \cup {NoOrder}, NEW q \in Quantities,
             Create(o, p, q)
      PROVE  ValidateInvariantsHolds'
  <2>1. traded[o] = 0
    BY <1>1 DEF Create, TreeShape
  <2>2. QED
    BY <1>1, <2>1 DEF Create, Quantities, OrderIsConsistent, Active
<1>2. ASSUME NEW o \in Edited, NEW q \in Quantities, Modify(o, q)
      PROVE  ValidateInvariantsHolds'
  BY <1>2 DEF Modify, LeavesRemainder, Quantities, OrderIsConsistent, Active, StoreHoldsTheLive, Pending
<1>3. ASSUME NEW S \in SUBSET store, RequestCancel(S)
      PROVE  ValidateInvariantsHolds'
  BY <1>3 DEF RequestCancel, OrderIsConsistent, Active, StoreHoldsTheLive
<1>4. ASSUME NEW o \in Direct, NEW r \in References, NEW q \in Quantities, ApplyFill(o, r, q)
      PROVE  ValidateInvariantsHolds'
  <2> DEFINE rolled    == RolledUp(o, r, q)
             credited  == {o} \cup rolled
             filled    == [x \in Orders |-> IF x \in credited THEN StatusAfterFill(x, q)
                                                              ELSE status[x]]
             aimed     == [x \in Orders |-> IF x \in credited THEN TargetAfterFill(x, q)
                                                              ELSE target[x]]
             left      == {x \in store : filled[x] \in Active}
             completed == IF RollupCut(o, r, q) \/ filled[o] # "FILLED" THEN {}
                          ELSE CompletedAncestors(o, aimed, left)
  <2>1. \A x \in credited : x \in store /\ Fits(x, q)
    BY <1>4, ReachedOrdersAreLive, RolledUpFits DEF ApplyFill
  <2>2. \A x \in completed : x \in left /\ aimed[x] = "CANCELLED"
    <3> HIDE DEF aimed, left
    <3>1. QED
      BY DEF CompletedAncestors, MayComplete, UpTo
  <2>3. /\ traded' = [x \in Orders |-> IF x \in credited THEN traded[x] + q ELSE traded[x]]
        /\ status' = [x \in Orders |-> IF x \in completed THEN "CANCELLED" ELSE filled[x]]
        /\ target' = aimed
        /\ quantity' = quantity
    BY <1>4 DEF ApplyFill
  <2> SUFFICES ASSUME NEW x \in Orders, status'[x] # "NONE"
               PROVE  OrderIsConsistent(x)'
    OBVIOUS
  <2>4. CASE x \in credited
    <3>1. /\ x \in store /\ traded[x] + q <= quantity[x]
          /\ q \in Nat /\ q > 0 /\ traded[x] \in Nat /\ quantity[x] \in Nat
      BY <2>1, <2>4 DEF Fits, Remaining, Quantities
    <3>2. OrderIsConsistent(x)
      BY <3>1 DEF StoreHoldsTheLive, Active
    <3>3. traded'[x] = traded[x] + q /\ quantity'[x] = quantity[x]
      BY <2>3, <2>4
    <3>4. filled[x] = StatusAfterFill(x, q) /\ aimed[x] = TargetAfterFill(x, q)
      BY <2>4
    <3>5. CASE x \in completed
      <4>1. filled[x] \in Active /\ aimed[x] = "CANCELLED"
        BY <2>2, <3>5
      <4>2. status'[x] = "CANCELLED" /\ target'[x] = "CANCELLED"
        BY <2>3, <3>5, <4>1
      <4>3. traded[x] + q # quantity[x]
        BY <3>4, <4>1 DEF StatusAfterFill, Active
      <4> HIDE DEF TypeOK, ValidateInvariantsHolds
      <4>4. QED
        BY <3>1, <3>3, <4>2, <4>3 DEF OrderIsConsistent, Active
    <3>6. CASE x \notin completed
      <4>1. status'[x] = StatusAfterFill(x, q) /\ target'[x] = TargetAfterFill(x, q)
        BY <2>3, <3>4, <3>6
      <4> HIDE DEF TypeOK, ValidateInvariantsHolds
      <4>2. QED
        BY <3>1, <3>3, <4>1 DEF OrderIsConsistent, StatusAfterFill, TargetAfterFill, Active
    <3>7. QED
      BY <3>5, <3>6
  <2>5. CASE x \notin credited
    <3>1. /\ traded'[x] = traded[x] /\ quantity'[x] = quantity[x]
          /\ target'[x] = target[x] /\ filled[x] = status[x] /\ aimed[x] = target[x]
      BY <2>3, <2>5
    <3>2. CASE x \in completed
      <4>1. status[x] \in Active /\ target[x] = "CANCELLED" /\ status'[x] = "CANCELLED"
        BY <2>2, <2>3, <3>1, <3>2
      <4>2. OrderIsConsistent(x)
        BY <4>1 DEF Active
      <4>3. QED
        BY <3>1, <4>1, <4>2 DEF OrderIsConsistent, Active
    <3>3. CASE x \notin completed
      <4>1. status'[x] = status[x]
        BY <2>3, <3>1, <3>3
      <4>2. QED
        BY <3>1, <4>1 DEF OrderIsConsistent
    <3>4. QED
      BY <3>2, <3>3
  <2>6. QED
    BY <2>4, <2>5
<1>5. ASSUME NEW o \in Orders, Reject(o) PROVE ValidateInvariantsHolds'
  <2> DEFINE ends == CompletedAncestors(o, target, store \ {o})
  <2>1. \A x \in ends : x \in store /\ target[x] = "CANCELLED"
    BY DEF CompletedAncestors, MayComplete, UpTo
  <2>2. /\ status' = [x \in Orders |-> IF x = o THEN "REJECTED"
                                        ELSE IF x \in ends THEN "CANCELLED" ELSE status[x]]
        /\ target' = [target EXCEPT ![o] = "REJECTED"]
        /\ o \in store /\ traded[o] = 0
        /\ traded' = traded /\ quantity' = quantity
    BY <1>5 DEF Reject
  <2> HIDE DEF ends
  <2>3. QED
    BY <2>1, <2>2 DEF OrderIsConsistent, Active, StoreHoldsTheLive
<1>6. ASSUME NEW o \in Orders, ConfirmCancel(o) PROVE ValidateInvariantsHolds'
  <2> DEFINE ends == CompletedAncestors(o, target, store \ {o})
  <2>1. \A x \in ends : x \in store /\ target[x] = "CANCELLED"
    BY DEF CompletedAncestors, MayComplete, UpTo
  <2>2. /\ status' = [x \in Orders |-> IF x \in {o} \cup ends THEN "CANCELLED"
                                        ELSE status[x]]
        /\ target' = [target EXCEPT ![o] = "CANCELLED"]
        /\ o \in store
        /\ traded' = traded /\ quantity' = quantity
    BY <1>6 DEF ConfirmCancel
  <2> HIDE DEF ends
  <2>3. QED
    BY <2>1, <2>2 DEF OrderIsConsistent, Active, StoreHoldsTheLive
<1>7. CASE UNCHANGED <<status, target, quantity, traded>>
  BY <1>7 DEF OrderIsConsistent
<1>8. QED
  BY <1>1, <1>2, <1>3, <1>4, <1>5, <1>6, <1>7, NextCases
     DEF NotCreate, Other, Load, IgnoreFill, RefuseAck, vars

----------------------------------------------------------------------------
(* Cancelled strategies.                                                   *)

\* The completion of pending ancestors is closed under live children: a child that
\* does not stop its parent from completing is itself completed.
LEMMA CompletedClosed ==
    ASSUME TypeOK, TreeShape,
           NEW o \in Orders, NEW tg, NEW sto \in SUBSET Orders,
           NEW a \in CompletedAncestors(o, tg, sto), NEW c \in sto, parent[c] = a
    PROVE  c \in CompletedAncestors(o, tg, sto)
<1> USE OrderTreeAssumption DEF TypeOK
<1>1. a \in Orders /\ a \in above[o] /\ \A b \in UpTo(o, a) : MayComplete(o, b, tg, sto)
  BY DEF CompletedAncestors
<1>2. MayComplete(o, a, tg, sto)
  BY <1>1 DEF UpTo
<1>3. c \in above[o]
  BY <1>2 DEF MayComplete
<1>4. a \in above[c]
  BY <1>1 DEF TreeShape
<1>5. ASSUME NEW b \in UpTo(o, c)
      PROVE  b \in UpTo(o, a)
  BY <1>4, <1>5 DEF UpTo, TreeShape
<1>6. QED
  BY <1>1, <1>3, <1>5 DEF CompletedAncestors

\* A command that ends order o and completes the pending ancestors of o leaves no
\* live child under what it completed.
LEMMA CompletionStep ==
    ASSUME TypeOK, TreeShape, StoreHoldsTheLive, CancelledStrategyHasNoLiveChild,
           NEW o \in Orders, NEW tg, NEW sto \in SUBSET store, NEW completed,
           completed \in {{}, CompletedAncestors(o, tg, sto)},
           parent' = parent,
           \A x \in Orders : x \in completed => status'[x] = "CANCELLED",
           \A x \in Orders : x \notin store => status'[x] = status[x],
           \A x \in store : x \notin sto => status'[x] \in Terminal,
           \A x \in store : status'[x] = "CANCELLED" =>
               x \in completed \/ x \in Direct \/ LiveChildren(x) = {}
    PROVE  CancelledStrategyHasNoLiveChild'
<1> USE OrderTreeAssumption DEF TypeOK
<1> SUFFICES ASSUME NEW a \in Orders, NEW c \in Orders,
                    parent[c] = a, a \notin Direct, status'[a] = "CANCELLED"
             PROVE  status'[c] \in Terminal
  BY DEF CancelledStrategyHasNoLiveChild
<1>1. status[c] # "NONE"
  BY DEF TreeShape
<1>2. CASE c \notin store
  BY <1>1, <1>2 DEF StoreHoldsTheLive, Active, Terminal, Statuses
<1>3. CASE c \in store /\ a \notin store
  <2>1. status[a] = "CANCELLED"
    BY <1>3
  <2>2. QED
    BY <2>1, <1>3 DEF CancelledStrategyHasNoLiveChild, StoreHoldsTheLive, Active, Terminal
<1>4. CASE c \in store /\ a \in store
  <2>1. a \in completed
    BY <1>4 DEF LiveChildren
  <2>2. CASE c \notin sto
    BY <1>4, <2>2
  <2>3. CASE c \in sto
    BY <2>1, <2>3, CompletedClosed DEF Terminal
  <2>4. QED
    BY <2>2, <2>3
<1>5. QED
  BY <1>2, <1>3, <1>4

\* A strategy order is not cancelled over a live child, and gets none afterwards.
LEMMA CancelledStep ==
    ASSUME TypeOK, TreeShape, StoreHoldsTheLive, CancelledStrategyHasNoLiveChild,
           [Next]_vars
    PROVE  CancelledStrategyHasNoLiveChild'
<1> USE OrderTreeAssumption DEF TypeOK
<1>1. ASSUME NEW o \in Orders, NEW p \in Parents \cup {NoOrder}, NEW q \in Quantities,
             Create(o, p, q)
      PROVE  CancelledStrategyHasNoLiveChild'
  <2>1. /\ status' = [status EXCEPT ![o] = "LIVE"]
        /\ parent' = [parent EXCEPT ![o] = p]
        /\ status[o] = "NONE"
        /\ p # NoOrder => p \in store
    BY <1>1 DEF Create, MayBeParent
  <2>2. \A c \in Orders : parent[c] # o
    BY <2>1 DEF TreeShape
  <2>3. p # NoOrder => status[p] # "CANCELLED"
    BY <2>1 DEF StoreHoldsTheLive, Active
  <2>4. QED
    BY <2>1, <2>2, <2>3 DEF CancelledStrategyHasNoLiveChild, Terminal
<1>2. ASSUME NEW o \in Direct, NEW r \in References, NEW q \in Quantities, ApplyFill(o, r, q)
      PROVE  CancelledStrategyHasNoLiveChild'
  <2> DEFINE rolled    == RolledUp(o, r, q)
             credited  == {o} \cup rolled
             filled    == [x \in Orders |-> IF x \in credited THEN StatusAfterFill(x, q)
                                                              ELSE status[x]]
             aimed     == [x \in Orders |-> IF x \in credited THEN TargetAfterFill(x, q)
                                                              ELSE target[x]]
             left      == {x \in store : filled[x] \in Active}
             completed == IF RollupCut(o, r, q) \/ filled[o] # "FILLED" THEN {}
                          ELSE CompletedAncestors(o, aimed, left)
  <2>1. credited \subseteq store /\ left \subseteq store
    BY <1>2, ReachedOrdersAreLive DEF ApplyFill
  <2>2. completed \subseteq store
    <3> HIDE DEF aimed
    <3>1. QED
      BY <2>1, ReachedOrdersAreLive
  <2>3. /\ status' = [x \in Orders |-> IF x \in completed THEN "CANCELLED" ELSE filled[x]]
        /\ parent' = parent
    BY <1>2 DEF ApplyFill, treeVars
  <2>4. \A x \in Orders : filled[x] \in {status[x], "FILLED", "PARTIALLY_FILLED"}
    BY DEF StatusAfterFill
  <2>5. \A x \in store : filled[x] \in Active \cup Terminal /\ filled[x] # "CANCELLED"
    BY <2>4 DEF StoreHoldsTheLive, Active, Terminal
  <2>6. \A x \in Orders : x \notin store => status'[x] = status[x]
    BY <2>1, <2>2, <2>3
  <2>7. \A x \in store : x \notin left => status'[x] \in Terminal
    BY <2>3, <2>5 DEF Terminal
  <2>8. \A x \in store : status'[x] = "CANCELLED" => x \in completed
    BY <2>3, <2>5
  <2>9. completed \in {{}, CompletedAncestors(o, aimed, left)}
    OBVIOUS
  <2>10. \A x \in Orders : x \in completed => status'[x] = "CANCELLED"
    BY <2>3
  <2> HIDE DEF completed, left, aimed, filled
  <2>11. QED
    BY <2>1, <2>3, <2>6, <2>7, <2>8, <2>9, <2>10, CompletionStep
<1>3. ASSUME NEW o \in Orders, Reject(o) PROVE CancelledStrategyHasNoLiveChild'
  <2> DEFINE completed == CompletedAncestors(o, target, store \ {o})
  <2>1. o \in store /\ completed \subseteq store \ {o}
    BY <1>3, ReachedOrdersAreLive DEF Reject
  <2>2. /\ status' = [x \in Orders |-> IF x = o THEN "REJECTED"
                                        ELSE IF x \in completed THEN "CANCELLED" ELSE status[x]]
        /\ parent' = parent
    BY <1>3 DEF Reject, treeVars
  <2>3. \A x \in store : status'[x] = "CANCELLED" => x \in completed
    BY <2>2 DEF StoreHoldsTheLive, Active
  <2>4. completed \in {{}, CompletedAncestors(o, target, store \ {o})}
    OBVIOUS
  <2>5. store \ {o} \in SUBSET store
    OBVIOUS
  <2> HIDE DEF completed
  <2>6. QED
    BY <2>1, <2>2, <2>3, <2>4, <2>5, CompletionStep DEF Terminal
<1>4. ASSUME NEW o \in Orders, ConfirmCancel(o) PROVE CancelledStrategyHasNoLiveChild'
  <2> DEFINE completed == CompletedAncestors(o, target, store \ {o})
  <2>1. o \in store /\ completed \subseteq store \ {o}
    BY <1>4, ReachedOrdersAreLive DEF ConfirmCancel
  <2>2. /\ status' = [x \in Orders |-> IF x \in {o} \cup completed THEN "CANCELLED"
                                        ELSE status[x]]
        /\ parent' = parent
    BY <1>4 DEF ConfirmCancel, treeVars
  <2>3. o \in Direct \/ LiveChildren(o) = {}
    BY <1>4 DEF ConfirmCancel, AckRefused
  <2>4. \A x \in store : status'[x] = "CANCELLED" =>
            x \in completed \/ x \in Direct \/ LiveChildren(x) = {}
    BY <2>2, <2>3 DEF StoreHoldsTheLive, Active
  <2>5. completed \in {{}, CompletedAncestors(o, target, store \ {o})}
    OBVIOUS
  <2>6. store \ {o} \in SUBSET store
    OBVIOUS
  <2> HIDE DEF completed
  <2>7. QED
    BY <2>1, <2>2, <2>4, <2>5, <2>6, CompletionStep DEF Terminal
<1>5. CASE UNCHANGED <<status, parent>>
  BY <1>5 DEF CancelledStrategyHasNoLiveChild
<1>6. QED
  BY <1>1, <1>2, <1>3, <1>4, <1>5, NextCases
     DEF NotCreate, Other, Load, Modify, RequestCancel, IgnoreFill, RefuseAck, vars, treeVars

----------------------------------------------------------------------------
(* Pending cancellations.                                                  *)

\* Whatever is not a cancel request or a CREATE neither starts a cancellation nor
\* drops one, for an order that stays live.
PendingKept ==
    /\ parent' = parent /\ store' \subseteq store
    /\ \A x \in store' : target'[x] = "CANCELLED" <=> target[x] = "CANCELLED"

\* Only a cancellation request changes whether a live order is pending cancellation.
LEMMA PendingKeptStep ==
    ASSUME TypeOK, StoreHoldsTheLive, Other
    PROVE  PendingKept
<1> USE OrderTreeAssumption DEF TypeOK
<1>1. parent' = parent /\ store' = {x \in store : status'[x] \in Active}
  BY RevisionStep DEF Revision, NotCreate
<1>2. CASE UNCHANGED target
  BY <1>1, <1>2 DEF PendingKept
<1>3. ASSUME NEW o \in Direct, NEW r \in References, NEW q \in Quantities, ApplyFill(o, r, q)
      PROVE  PendingKept
  <2> DEFINE rolled    == RolledUp(o, r, q)
             credited  == {o} \cup rolled
             filled    == [x \in Orders |-> IF x \in credited THEN StatusAfterFill(x, q)
                                                              ELSE status[x]]
             aimed     == [x \in Orders |-> IF x \in credited THEN TargetAfterFill(x, q)
                                                              ELSE target[x]]
             left      == {x \in store : filled[x] \in Active}
             completed == IF RollupCut(o, r, q) \/ filled[o] # "FILLED" THEN {}
                          ELSE CompletedAncestors(o, aimed, left)
  <2>1. /\ status' = [x \in Orders |-> IF x \in completed THEN "CANCELLED" ELSE filled[x]]
        /\ target' = aimed
    BY <1>3 DEF ApplyFill
  <2> SUFFICES ASSUME NEW x \in store'
               PROVE  target'[x] = "CANCELLED" <=> target[x] = "CANCELLED"
    BY <1>1 DEF PendingKept
  <2>2. x \in store /\ status'[x] \in Active
    BY <1>1
  <2>3. status'[x] = filled[x] /\ target'[x] = aimed[x]
    BY <2>1, <2>2 DEF Active
  <2>4. CASE x \in credited
    <3>1. StatusAfterFill(x, q) # "FILLED" /\ target'[x] = TargetAfterFill(x, q)
      BY <2>2, <2>3, <2>4 DEF Active
    <3>2. QED
      BY <3>1 DEF StatusAfterFill, TargetAfterFill, Pending
  <2>5. CASE x \notin credited
    BY <2>2, <2>3, <2>5
  <2>6. QED
    BY <2>4, <2>5
<1>4. ASSUME NEW o \in Orders, Reject(o) PROVE PendingKept
  BY <1>1, <1>4 DEF Reject, PendingKept, Active
<1>5. ASSUME NEW o \in Orders, ConfirmCancel(o) PROVE PendingKept
  BY <1>1, <1>5 DEF ConfirmCancel, PendingKept, Active
<1>6. QED
  BY <1>2, <1>3, <1>4, <1>5 DEF Other, Load, Modify, IgnoreFill, RefuseAck, vars

\* The live children of an order pending cancellation are pending with it.
LEMMA PendingStep ==
    ASSUME TypeOK, TreeShape, StoreHoldsTheLive, PendingCoversChildren, [Next]_vars
    PROVE  PendingCoversChildren'
<1> USE OrderTreeAssumption DEF TypeOK
<1>1. ASSUME NEW o \in Orders, NEW p \in Parents \cup {NoOrder}, NEW q \in Quantities,
             Create(o, p, q)
      PROVE  PendingCoversChildren'
  <2>1. /\ target' = [target EXCEPT ![o] = "LIVE"]
        /\ parent' = [parent EXCEPT ![o] = p]
        /\ store' \subseteq store \cup {o}
        /\ p # NoOrder => ~Pending(p)
        /\ status[o] = "NONE"
    BY <1>1 DEF Create, MayBeParent, Put
  <2>2. \A c \in Orders : parent[c] # o
    BY <2>1 DEF TreeShape
  <2>3. QED
    BY <2>1, <2>2 DEF PendingCoversChildren, Pending
<1>2. ASSUME NEW S \in SUBSET store, RequestCancel(S),
             \A a, c \in store : parent[c] = a /\ a \in S => c \in S \/ Pending(c)
      PROVE  PendingCoversChildren'
  BY <1>2 DEF RequestCancel, Put, PendingCoversChildren, Pending, treeVars
<1>3. ASSUME NEW o \in Orders, Cancel(o) PROVE PendingCoversChildren'
  <2> DEFINE S == {o} \cup {d \in LiveBelow(o) : ~Pending(d)}
  <2>1. S \in SUBSET store /\ RequestCancel(S)
    BY <1>3, ReachedOrdersAreLive DEF Cancel
  <2>2. ASSUME NEW a \in store, NEW c \in store, parent[c] = a, a \in S
        PROVE  c \in S \/ Pending(c)
    <3>1. above[c] = {a} \cup above[a] /\ o \notin above[o]
      BY <2>2 DEF TreeShape
    <3>2. CASE a = o
      <4>1. \A m \in above[c] : o \in above[m] => m \in store
        BY <3>1, <3>2 DEF TreeShape
      <4>2. QED
        BY <3>1, <3>2, <4>1 DEF LiveBelow
    <3>3. CASE a \in LiveBelow(o)
      BY <3>1, <3>3 DEF LiveBelow
    <3>4. QED
      BY <2>2, <3>2, <3>3
  <2> HIDE DEF S
  <2>3. QED
    BY <2>1, <2>2, <1>2
<1>4. ASSUME NEW desk \in Desks, CancelAll(desk) PROVE PendingCoversChildren'
  <2> DEFINE S == {o \in store : DeskOf[o] = desk /\ ~Pending(o)}
  <2>1. RequestCancel(S)
    BY <1>4 DEF CancelAll
  <2>2. \A a, c \in store : parent[c] = a /\ a \in S => c \in S \/ Pending(c)
    BY DEF TreeShape
  <2>3. S \in SUBSET store
    OBVIOUS
  <2> HIDE DEF S
  <2>4. QED
    BY <2>1, <2>2, <2>3, <1>2
<1>5. CASE Other
  BY <1>5, PendingKeptStep DEF PendingKept, PendingCoversChildren, Pending
<1>6. QED
  BY <1>1, <1>3, <1>4, <1>5 DEF Next, ClientNext, VenueNext, Fill, Other

----------------------------------------------------------------------------
(* Executions.                                                             *)

\* An execution is recorded and its reference remembered together.
LEMMA ExecutionsStep ==
    ASSUME TypeOK, ExecutionsAreRemembered, [Next]_vars
    PROVE  ExecutionsAreRemembered'
<1>1. ASSUME NEW o \in Direct, NEW r \in References, NEW q \in Quantities, ApplyFill(o, r, q)
      PROVE  ExecutionsAreRemembered'
  BY <1>1 DEF ApplyFill, Record, ExecutionsAreRemembered
<1>2. CASE UNCHANGED <<executions, references>>
  BY <1>2 DEF ExecutionsAreRemembered
<1>3. QED
  BY <1>1, <1>2, NextCases
     DEF NotCreate, Other, Create, Load, Modify, RequestCancel, IgnoreFill, Reject,
         ConfirmCancel, RefuseAck, vars, fillVars

----------------------------------------------------------------------------
(* The inductive invariant.                                                *)

\* The inductive invariant holds of the empty book.
LEMMA IInvInit == Init => IInv
<1> SUFFICES ASSUME Init PROVE IInv
  OBVIOUS
<1>1. TypeOK
  BY TypeInit
<1>2. TreeShape /\ ValidateInvariantsHolds
  BY OrderTreeAssumption DEF Init, TreeShape, ValidateInvariantsHolds
<1>3. StoreHoldsTheLive
  BY DEF Init, StoreHoldsTheLive, Active
<1>4. CancelledStrategyHasNoLiveChild /\ PendingCoversChildren
  BY OrderTreeAssumption
     DEF Init, CancelledStrategyHasNoLiveChild, PendingCoversChildren, Pending
<1>5. ExecutionsAreRemembered
  BY DEF Init, ExecutionsAreRemembered
<1>6. QED
  BY <1>1, <1>2, <1>3, <1>4, <1>5 DEF IInv

\* Every command preserves the inductive invariant.
LEMMA IInvStep == IInv /\ [Next]_vars => IInv'
BY TypeStep, TreeShapeStep, ConsistentStep, StoreStep, CancelledStep, PendingStep,
   ExecutionsStep
   DEF IInv

\* Everything the handlers maintain about the order book holds in every reachable
\* state: of trees of any depth, under any interleaving of client, strategy and
\* venue commands, whatever the Bloom filter of the dedup index answers.
THEOREM BookIsSound == Spec => []IInv
BY IInvInit, IInvStep, PTL DEF Spec

\* TradingOrder.validateInvariants never refuses a state the handlers reach.
THEOREM NeverRefused == Spec => []ValidateInvariantsHolds
<1>1. IInv => ValidateInvariantsHolds
  BY DEF IInv
<1>2. QED
  BY <1>1, BookIsSound, PTL

\* The live-order store of OrderStateCache holds exactly the unfinished orders.
THEOREM StoreIsExact == Spec => []StoreHoldsTheLive
<1>1. IInv => StoreHoldsTheLive
  BY DEF IInv
<1>2. QED
  BY <1>1, BookIsSound, PTL

\* A strategy order is cancelled only after all of its children are finished.
THEOREM CancelledAfterChildren == Spec => []CancelledStrategyHasNoLiveChild
<1>1. IInv => CancelledStrategyHasNoLiveChild
  BY DEF IInv
<1>2. QED
  BY <1>1, BookIsSound, PTL

\* The cascade of a cancel request misses no live child, and none is created later.
THEOREM CascadeIsComplete == Spec => []PendingCoversChildren
<1>1. IInv => PendingCoversChildren
  BY DEF IInv
<1>2. QED
  BY <1>1, BookIsSound, PTL

----------------------------------------------------------------------------
(* Action properties.                                                      *)

\* A finished order never changes again; a fill that comes after the cancellation changes
\* nothing either, though docs/execution/README.md:358-361 has it recorded.
THEOREM FinishedStaysFinished == Spec => TerminalIsFinal
<1>1. ASSUME IInv, [Next]_vars, NEW x \in Orders, status[x] \in Terminal
      PROVE  status'[x] = status[x] /\ traded'[x] = traded[x]
  <2>1. TypeOK /\ StoreHoldsTheLive /\ x \notin store
    BY <1>1 DEF IInv, StoreHoldsTheLive, Active, Terminal
  <2>2. CASE NotCreate
    BY <2>1, <2>2, RevisionStep DEF Revision, Untouched
  <2>3. ASSUME NEW o \in Orders, NEW p \in Parents \cup {NoOrder}, NEW q \in Quantities,
               Create(o, p, q)
        PROVE  status'[x] = status[x] /\ traded'[x] = traded[x]
    BY <1>1, <2>1, <2>3 DEF Create, TypeOK, Terminal
  <2>4. QED
    BY <1>1, <2>1, <2>2, <2>3, NextCases
<1>2. IInv /\ [Next]_vars =>
          [\A o \in Orders : status[o] \in Terminal =>
               status'[o] = status[o] /\ traded'[o] = traded[o]]_vars
  BY <1>1
<1>3. QED
  BY <1>2, BookIsSound, PTL DEF Spec, TerminalIsFinal

\* No report is counted twice: what an order has traded grows only together with
\* a reference that had never been counted for it.
THEOREM NothingCountedTwice == Spec => CreditedOnce
<1>1. ASSUME IInv, [Next]_vars, NEW x \in Orders, traded'[x] # traded[x]
      PROVE  \E e \in executions' \ executions :
                 /\ e.order = x
                 /\ traded'[x] = traded[x] + e.quantity
                 /\ e.key \notin references /\ e.key \in references'
  <2>1. TypeOK /\ ExecutionsAreRemembered
    BY <1>1 DEF IInv
  <2>2. PICK o \in Direct, r \in References, q \in Quantities : ApplyFill(o, r, q)
    BY <1>1, <2>1, NextCases
       DEF NotCreate, Other, Create, Load, Modify, RequestCancel, IgnoreFill, Reject,
           ConfirmCancel, RefuseAck, vars, fillVars
  <2>3. CASE x = o
    <3> DEFINE e == [key |-> FillKey(r), order |-> o, quantity |-> q]
    <3>1. e \in executions' /\ e.key \in references' /\ e.key \notin references
      BY <2>2 DEF ApplyFill, Record, Seen
    <3>2. traded'[x] = traded[x] + e.quantity
      BY <2>2, <2>3 DEF ApplyFill, TypeOK
    <3>3. QED
      BY <2>1, <2>3, <3>1, <3>2 DEF ExecutionsAreRemembered
  <2>4. CASE x # o
    <3> DEFINE e == [key |-> RollupKey(r, x), order |-> x, quantity |-> q]
    <3>1. x \in RolledUp(o, r, q)
      BY <1>1, <2>2, <2>4 DEF ApplyFill, TypeOK
    <3>2. traded'[x] = traded[x] + e.quantity
      BY <2>2, <3>1 DEF ApplyFill, TypeOK
    <3>3. e \in executions' /\ e.key \in references'
      BY <2>2, <3>1 DEF ApplyFill, Record
    <3>4. e.key \notin references
      BY <3>1 DEF RolledUp, Seen
    <3>5. QED
      BY <2>1, <3>2, <3>3, <3>4 DEF ExecutionsAreRemembered
  <2>5. QED
    BY <2>3, <2>4
<1>2. IInv /\ [Next]_vars =>
          [\A o \in Orders : traded'[o] # traded[o] =>
              \E e \in executions' \ executions :
                  /\ e.order = o
                  /\ traded'[o] = traded[o] + e.quantity
                  /\ e.key \notin references /\ e.key \in references']_vars
  BY <1>1
<1>3. QED
  BY <1>2, BookIsSound, PTL DEF Spec, CreditedOnce

----------------------------------------------------------------------------
(* What one command may revise: the orders of one desk, and by a           *)
(* modification only an order that has not changed since it was loaded.    *)

\* The commands that revise an order and its ancestors, or one order.
RevisesUpwards(o) ==
    \/ \E p \in Parents \cup {NoOrder}, q \in Quantities : Create(o, p, q)
    \/ \E q \in Quantities : Modify(o, q)
    \/ \E r \in References, q \in Quantities : ApplyFill(o, r, q)
    \/ Reject(o) \/ ConfirmCancel(o)

\* Such a command stamps the order, and otherwise its ancestors only.
LEMMA UpwardsStep ==
    ASSUME TypeOK, NEW o \in Orders, RevisesUpwards(o),
           NEW x \in Orders, x \notin {o} \cup above[o]
    PROVE  version'[x] = version[x]
<1> USE DEF TypeOK
<1>1. ASSUME NEW p \in Parents \cup {NoOrder}, NEW q \in Quantities, Create(o, p, q)
      PROVE  version'[x] = version[x]
  BY <1>1 DEF Create, Stamped
<1>2. ASSUME NEW q \in Quantities, Modify(o, q)
      PROVE  version'[x] = version[x]
  BY <1>2 DEF Modify, Stamped
<1>3. ASSUME NEW r \in References, NEW q \in Quantities, ApplyFill(o, r, q)
      PROVE  version'[x] = version[x]
  <2>1. \A tg, sto : x \notin CompletedAncestors(o, tg, sto)
    BY DEF CompletedAncestors
  <2>2. x \notin RolledUp(o, r, q)
    BY DEF RolledUp, RollupPath
  <2>3. QED
    BY <1>3, <2>1, <2>2 DEF ApplyFill
<1>4. CASE Reject(o)
  BY <1>4 DEF Reject, Stamped, CompletedAncestors
<1>5. CASE ConfirmCancel(o)
  BY <1>5 DEF ConfirmCancel, Stamped, CompletedAncestors
<1>6. QED
  BY <1>1, <1>2, <1>3, <1>4, <1>5 DEF RevisesUpwards

\* The cancel requests stamp orders of one desk.
LEMMA CancelStep ==
    ASSUME TypeOK, TreeShape,
           (\E o \in Orders : Cancel(o)) \/ (\E desk \in Desks : CancelAll(desk)),
           NEW a \in Orders, NEW b \in Orders,
           version'[a] # version[a], version'[b] # version[b]
    PROVE  DeskOf[a] = DeskOf[b]
<1>1. ASSUME NEW o \in Orders, Cancel(o)
      PROVE  DeskOf[a] = DeskOf[b]
  <2>1. \A x \in Orders : version'[x] # version[x] => x = o \/ o \in above[x]
    BY <1>1 DEF Cancel, RequestCancel, Stamped, LiveBelow
  <2>2. \A x \in Orders : o \in above[x] => DeskOf[o] = DeskOf[x]
    BY DEF TreeShape
  <2>3. QED
    BY <2>1, <2>2
<1>2. ASSUME NEW desk \in Desks, CancelAll(desk)
      PROVE  DeskOf[a] = DeskOf[b]
  BY <1>2 DEF CancelAll, RequestCancel, Stamped
<1>3. QED
  BY <1>1, <1>2

\* No step but these stamps an order.
LEMMA StampingCases ==
    ASSUME TypeOK, [Next]_vars
    PROVE  \/ \E o \in Orders : RevisesUpwards(o)
           \/ (\E o \in Orders : Cancel(o)) \/ (\E desk \in Desks : CancelAll(desk))
           \/ version' = version
BY OrderTreeAssumption
   DEF Next, ClientNext, VenueNext, Fill, RevisesUpwards, Load, IgnoreFill, RefuseAck, vars

\* One command changes orders of one desk only, whatever the trees: a roll-up and a
\* completion stay above the order, a cascade below it, and trees are of one desk
\* (the desk checks of create, of the lookups and of cancelAll).
THEOREM OneDeskAtATime == Spec => DesksAreIsolated
<1>1. ASSUME IInv, [Next]_vars, NEW a \in Orders, NEW b \in Orders,
             version'[a] # version[a], version'[b] # version[b]
      PROVE  DeskOf[a] = DeskOf[b]
  <2>1. TypeOK /\ TreeShape
    BY <1>1 DEF IInv
  <2>2. ASSUME NEW o \in Orders, RevisesUpwards(o)
        PROVE  DeskOf[a] = DeskOf[b]
    <3>1. a \in {o} \cup above[o] /\ b \in {o} \cup above[o]
      BY <1>1, <2>1, <2>2, UpwardsStep
    <3>2. \A x \in {o} \cup above[o] : DeskOf[x] = DeskOf[o]
      BY <2>1 DEF TreeShape
    <3>3. QED
      BY <3>1, <3>2
  <2>3. CASE (\E o \in Orders : Cancel(o)) \/ (\E desk \in Desks : CancelAll(desk))
    BY <1>1, <2>1, <2>3, CancelStep
  <2>4. CASE version' = version
    BY <1>1, <2>4
  <2>5. QED
    BY <1>1, <2>1, <2>2, <2>3, <2>4, StampingCases
<1>2. IInv /\ [Next]_vars =>
          [\A a, b \in Orders : version'[a] # version[a] /\ version'[b] # version[b] =>
               DeskOf[a] = DeskOf[b]]_vars
  BY <1>1
<1>3. QED
  BY <1>2, BookIsSound, PTL DEF Spec, DesksAreIsolated

----------------------------------------------------------------------------
(* A version identifies a state of its order.                              *)

\* An order changes only together with its version.
SameOrder(x) ==
    /\ version'[x] = version[x] /\ Untouched(x)
Restamped(x) == version'[x] > version[x]

LEMMA ChangeIsStamped ==
    ASSUME TypeOK, [Next]_vars, NEW x \in Orders
    PROVE  SameOrder(x) \/ Restamped(x)
<1> USE DEF TypeOK, SameOrder, Untouched, Restamped
<1>1. ASSUME NEW o \in Orders, NEW p \in Parents \cup {NoOrder}, NEW q \in Quantities,
             Create(o, p, q)
      PROVE  SameOrder(x) \/ Restamped(x)
  BY <1>1 DEF Create, Stamped
<1>2. ASSUME NEW o \in Edited, NEW q \in Quantities, Modify(o, q)
      PROVE  SameOrder(x) \/ Restamped(x)
  BY <1>2 DEF Modify, Stamped
<1>3. ASSUME NEW S, RequestCancel(S)
      PROVE  SameOrder(x) \/ Restamped(x)
  BY <1>3 DEF RequestCancel, Stamped
<1>4. ASSUME NEW o \in Orders, NEW r \in References, NEW q \in Quantities, ApplyFill(o, r, q)
      PROVE  SameOrder(x) \/ Restamped(x)
  <2> DEFINE rolled    == RolledUp(o, r, q)
             credited  == {o} \cup rolled
             filled    == [y \in Orders |-> IF y \in credited THEN StatusAfterFill(y, q)
                                                              ELSE status[y]]
             aimed     == [y \in Orders |-> IF y \in credited THEN TargetAfterFill(y, q)
                                                              ELSE target[y]]
             left      == {y \in store : filled[y] \in Active}
             completed == IF RollupCut(o, r, q) \/ filled[o] # "FILLED" THEN {}
                          ELSE CompletedAncestors(o, aimed, left)
  <2>1. /\ traded'[x] = IF x \in credited THEN traded[x] + q ELSE traded[x]
        /\ status'[x] = IF x \in completed THEN "CANCELLED" ELSE filled[x]
        /\ target' = aimed /\ quantity' = quantity
        /\ version'[x] = version[x] + (IF x \in credited THEN 1 ELSE 0)
                                    + (IF x \in completed THEN 1 ELSE 0)
    BY <1>4 DEF ApplyFill
  <2>2. CASE x \in credited \/ x \in completed
    <3> HIDE DEF rolled, credited, filled, aimed, left, completed
    <3>1. QED
      BY <2>1, <2>2
  <2>3. CASE x \notin credited /\ x \notin completed
    <3>1. filled[x] = status[x] /\ aimed[x] = target[x]
      BY <2>3
    <3> HIDE DEF rolled, credited, filled, aimed, left, completed
    <3>2. QED
      BY <2>1, <2>3, <3>1
  <2>4. QED
    BY <2>2, <2>3
<1>5. ASSUME NEW o \in Orders, Reject(o)
      PROVE  SameOrder(x) \/ Restamped(x)
  BY <1>5 DEF Reject, Stamped
<1>6. ASSUME NEW o \in Orders, ConfirmCancel(o)
      PROVE  SameOrder(x) \/ Restamped(x)
  BY <1>6 DEF ConfirmCancel, Stamped
<1>7. ASSUME UNCHANGED <<status, target, quantity, traded, version>>
      PROVE  SameOrder(x) \/ Restamped(x)
  BY <1>7
<1>8. QED
  BY OrderTreeAssumption, <1>1, <1>2, <1>3, <1>4, <1>5, <1>6, <1>7
     DEF Next, ClientNext, VenueNext, Fill, Cancel, CancelAll, Load, IgnoreFill,
         RefuseAck, vars

\* What a client loaded is a state its order has been in: with the order's present
\* version it is the order's present state.
ViewIsPast ==
    \A x \in Orders : /\ view[x].version <= version[x]
                      /\ view[x].version = version[x] => view[x] = Snapshot(x)

\* Only a client's load replaces what it looked at, and only CREATE and a
\* modification set a quantity.
LEMMA Frames ==
    ASSUME [Next]_vars
    PROVE  /\ view' = view \/ \E o \in Edited : Load(o)
           /\ \/ quantity' = quantity
              \/ \E o \in Orders, p \in Parents \cup {NoOrder}, q \in Quantities : Create(o, p, q)
              \/ \E o \in Edited, q \in Quantities : Modify(o, q)
<1>1. ASSUME NEW o, NEW p, NEW q, Create(o, p, q) PROVE view' = view
  BY <1>1 DEF Create
<1>2. ASSUME NEW o, NEW q, Modify(o, q) PROVE view' = view
  BY <1>2 DEF Modify
<1>3. ASSUME NEW S, RequestCancel(S) PROVE view' = view /\ quantity' = quantity
  BY <1>3 DEF RequestCancel
<1>4. ASSUME NEW o, NEW r, NEW q, Fill(o, r, q) PROVE view' = view /\ quantity' = quantity
  BY <1>4 DEF Fill, ApplyFill, IgnoreFill
<1>5. ASSUME NEW o, Reject(o) \/ ConfirmCancel(o) \/ RefuseAck(o)
      PROVE  view' = view /\ quantity' = quantity
  BY <1>5 DEF Reject, ConfirmCancel, RefuseAck
<1>6. ASSUME NEW o, Load(o) PROVE quantity' = quantity
  BY <1>6 DEF Load
<1>7. ASSUME UNCHANGED vars PROVE view' = view /\ quantity' = quantity
  BY <1>7 DEF vars
<1>8. QED
  BY <1>1, <1>2, <1>3, <1>4, <1>5, <1>6, <1>7
     DEF Next, ClientNext, VenueNext, Cancel, CancelAll

LEMMA ViewStep == TypeOK /\ ViewIsPast /\ [Next]_vars => ViewIsPast'
<1> SUFFICES ASSUME TypeOK, ViewIsPast, [Next]_vars, NEW x \in Orders
             PROVE  (/\ view[x].version <= version[x]
                     /\ view[x].version = version[x] => view[x] = Snapshot(x))'
  BY DEF ViewIsPast
<1>1. version[x] \in Nat /\ view[x].version \in Nat
  BY DEF TypeOK
<1>2. CASE view'[x] = view[x]
  <2>1. CASE SameOrder(x)
    BY <1>1, <1>2, <2>1 DEF SameOrder, Untouched, ViewIsPast, Snapshot
  <2>2. CASE Restamped(x)
    <3>1. version'[x] \in Nat
      BY TypeStep DEF TypeOK
    <3>2. view[x].version < version'[x]
      BY <1>1, <2>2, <3>1 DEF Restamped, ViewIsPast
    <3>3. QED
      BY <1>1, <1>2, <3>1, <3>2
  <2>3. QED
    BY <2>1, <2>2, ChangeIsStamped
<1>3. CASE view'[x] # view[x]
  <2>1. \E o \in Edited : Load(o)
    BY <1>3, Frames
  <2>2. Load(x)
    BY <1>3, <2>1 DEF Load, TypeOK
  <2>3. QED
    BY <1>1, <2>2 DEF Load, Snapshot, TypeOK
<1>4. QED
  BY <1>2, <1>3

\* A modification is applied only to the order the client looked at, whatever
\* happened in between: the version every revision stamps tells two states of an
\* order apart, so comparing versions is enough (OrderCommandHandler.modify).
THEOREM NoStaleModification == Spec => ModifySeesCurrentOrder
<1>1. Init => ViewIsPast
  BY DEF Init, ViewIsPast, Snapshot, NotLoaded
<1>2. ASSUME TypeOK, ViewIsPast, [Next]_vars, NEW o \in Orders,
             status[o] # "NONE", quantity'[o] # quantity[o]
      PROVE  view[o] = Snapshot(o)
  <2>1. \E x \in Edited, q \in Quantities : Modify(x, q) /\ o = x
    BY <1>2, Frames DEF Create, Modify, TypeOK
  <2>2. QED
    BY <1>2, <2>1 DEF Modify, ExpectedVersionMatches, ViewIsPast
<1>3. TypeOK /\ ViewIsPast /\ [Next]_vars =>
          [\A o \in Orders : status[o] # "NONE" /\ quantity'[o] # quantity[o] =>
               view[o] = Snapshot(o)]_vars
  BY <1>2
<1>4. QED
  BY <1>1, <1>3, ViewStep, TypeCorrect, PTL DEF Spec, ModifySeesCurrentOrder

----------------------------------------------------------------------------
(* What an order has traded, and its executions.                           *)

LEMMA QuantitySum ==
    ASSUME NEW S, IsFiniteSet(S)
    PROVE  MapThenSumSet(LAMBDA e : e.quantity, S) = SumFunctionOnSet([e \in S |-> e.quantity], S)
<1> DEFINE f == [e \in S |-> e.quantity]
           P(g) == g = [s \in SUBSET S |-> IF s = {} THEN 0
                          ELSE (CHOOSE x \in s : TRUE).quantity + g[s \ {CHOOSE x \in s : TRUE}]]
           k == CHOOSE g : P(g)
<1>1. \A s \in SUBSET S : s # {} => f[Chosen(s)] = Chosen(s).quantity
  BY ChosenIn
<1>2. \A g : Sums(g, f, S) <=> P(g)
  <2> HIDE DEF f
  <2> QED
    BY <1>1 DEF Sums, Chosen
<1>3. \E g : P(g)
  <2> HIDE DEF f, P
  <2> QED
    BY <1>2, SumsExists
<1>4. P(k)
  BY <1>3
<1>5. Sums(k, f, S)
  <2> HIDE DEF f, P, k
  <2> QED
    BY <1>2, <1>4
<1>6. MapThenSumSet(LAMBDA e : e.quantity, S) = k[S]
  BY DEF MapThenSumSet, MapThenFoldSet
<1>7. PICK g : Sums(g, f, S) /\ SumFunctionOnSet(f, S) = g[S]
  BY SumIsSums
<1>8. k[S] = g[S]
  <2> HIDE DEF f, k
  <2> QED
    BY <1>5, <1>7, SumsAgree
<1> QED
  BY <1>6, <1>7, <1>8

QuantityOf(S) == MapThenSumSet(LAMBDA e : e.quantity, S)

LEMMA QuantityOfNone == QuantityOf({}) = 0
BY QuantitySum, SumEmpty, FS_EmptySet DEF QuantityOf

LEMMA QuantityAdded ==
    ASSUME NEW S, IsFiniteSet(S), \A e \in S : e.quantity \in Nat,
           NEW x, x \notin S, x.quantity \in Nat
    PROVE  IsFiniteSet(S \cup {x}) /\ QuantityOf(S \cup {x}) = QuantityOf(S) + x.quantity
<1> DEFINE U == S \cup {x}
           f == [e \in S |-> e.quantity]
           h == [e \in U |-> e.quantity]
<1>1. IsFiniteSet(U)
  BY FS_AddElement
<1>2. QuantityOf(U) = SumFunctionOnSet(h, U) /\ QuantityOf(S) = SumFunctionOnSet(f, S)
  BY <1>1, QuantitySum DEF QuantityOf
<1>3. /\ \A e \in U : h[e] \in Nat
      /\ \A e \in S : f[e] \in Nat /\ h[e] = f[e]
      /\ x \in U /\ h[x] = x.quantity /\ U \ {x} = S
  OBVIOUS
<1> HIDE DEF U, f, h
<1>4. SumFunctionOnSet(h, U) = h[x] + SumFunctionOnSet(h, S)
  BY <1>1, <1>3, SumOf
<1>5. SumFunctionOnSet(h, S) = SumFunctionOnSet(f, S)
  BY <1>3, SumSame
<1>6. SumFunctionOnSet(f, S) \in Nat
  BY <1>3, SumNat
<1>7. IsFiniteSet(U) /\ QuantityOf(U) = QuantityOf(S) + x.quantity
  BY <1>1, <1>2, <1>3, <1>4, <1>5, <1>6
<1> QED
  BY <1>7 DEF U

Booked(o) == {e \in executions : e.order = o}

\* A command leaves an order's account alone, or adds one new execution to it and
\* its quantity to what the order has traded.
Credited(x, e) ==
    /\ e \notin Booked(x) /\ e.quantity \in Nat
    /\ Booked(x)' = Booked(x) \cup {e}
    /\ traded'[x] = traded[x] + e.quantity

LEMMA AccountStep ==
    ASSUME IInv, [Next]_vars, NEW x \in Orders
    PROVE  \/ Booked(x)' = Booked(x) /\ traded'[x] = traded[x]
           \/ \E e : Credited(x, e)
<1>0. TypeOK /\ TreeShape /\ ExecutionsAreRemembered
  BY DEF IInv
<1>1. ASSUME NEW o \in Direct, NEW r \in References, NEW q \in Quantities, ApplyFill(o, r, q)
      PROVE  \/ Booked(x)' = Booked(x) /\ traded'[x] = traded[x]
             \/ \E e : Credited(x, e)
  <2> DEFINE rolled == RolledUp(o, r, q)
             fill   == [key |-> FillKey(r), order |-> o, quantity |-> q]
             up(a)  == [key |-> RollupKey(r, a), order |-> a, quantity |-> q]
  <2>1. /\ executions' = (executions \cup {fill}) \cup {up(a) : a \in rolled}
        /\ traded' = [y \in Orders |-> IF y \in {o} \cup rolled THEN traded[y] + q ELSE traded[y]]
        /\ ~Seen(FillKey(r))
    BY <1>1 DEF ApplyFill, Record
  <2>2. o \notin rolled /\ \A a \in rolled : ~Seen(RollupKey(r, a))
    BY <1>0, OrderTreeAssumption DEF RolledUp, RollupPath, TreeShape
  <2>3. fill \notin executions /\ \A a \in rolled : up(a) \notin executions
    BY <1>0, <2>1, <2>2 DEF ExecutionsAreRemembered, Seen
  <2>4. q \in Nat
    BY OrderTreeAssumption DEF Quantities
  <2> HIDE DEF rolled
  <2>5. CASE x = o
    <3>1. Booked(x)' = Booked(x) \cup {fill}
      BY <2>1, <2>2, <2>5 DEF Booked
    <3>2. Credited(x, fill)
      BY <2>1, <2>3, <2>4, <2>5, <3>1 DEF Credited, Booked
    <3> QED
      BY <3>2
  <2>6. CASE x \in rolled
    <3>1. Booked(x)' = Booked(x) \cup {up(x)}
      BY <2>1, <2>2, <2>6 DEF Booked
    <3>2. Credited(x, up(x))
      BY <2>1, <2>3, <2>4, <2>6, <3>1 DEF Credited, Booked
    <3> QED
      BY <3>2
  <2>7. CASE x # o /\ x \notin rolled
    BY <2>1, <2>7 DEF Booked
  <2> QED
    BY <2>5, <2>6, <2>7
<1>2. CASE UNCHANGED <<executions, traded>>
  BY <1>2 DEF Booked
<1>3. ASSUME NEW o, NEW p, NEW q, Create(o, p, q) PROVE UNCHANGED <<executions, traded>>
  BY <1>3 DEF Create, fillVars
<1>4. ASSUME NEW S, RequestCancel(S) PROVE UNCHANGED <<executions, traded>>
  BY <1>4 DEF RequestCancel, fillVars
<1> QED
  BY <1>0, <1>1, <1>2, <1>3, <1>4, NextCases
     DEF NotCreate, Other, Load, Modify, IgnoreFill, Reject, ConfirmCancel, RefuseAck,
         vars, fillVars

\* An order's executions are finitely many and add up to what it has traded.
AccountsInv ==
    \A x \in Orders : IsFiniteSet(Booked(x)) /\ traded[x] = QuantityOf(Booked(x))

LEMMA AccountsStep == IInv /\ AccountsInv /\ [Next]_vars => AccountsInv'
<1> SUFFICES ASSUME IInv, AccountsInv, [Next]_vars, NEW x \in Orders
             PROVE  IsFiniteSet(Booked(x)') /\ traded'[x] = QuantityOf(Booked(x)')
  BY DEF AccountsInv
<1>1. IsFiniteSet(Booked(x)) /\ traded[x] = QuantityOf(Booked(x))
  BY DEF AccountsInv
<1>2. \A e \in Booked(x) : e.quantity \in Nat
  BY OrderTreeAssumption DEF IInv, TypeOK, Booked
<1>3. CASE Booked(x)' = Booked(x) /\ traded'[x] = traded[x]
  BY <1>1, <1>3
<1>4. ASSUME NEW e, Credited(x, e)
      PROVE  IsFiniteSet(Booked(x)') /\ traded'[x] = QuantityOf(Booked(x)')
  <2> DEFINE B == Booked(x) \cup {e}
  <2>1. IsFiniteSet(B) /\ QuantityOf(B) = QuantityOf(Booked(x)) + e.quantity
    BY <1>1, <1>2, <1>4, QuantityAdded DEF Credited
  <2>2. Booked(x)' = B /\ traded'[x] = QuantityOf(B)
    BY <1>1, <1>4, <2>1 DEF Credited
  <2> HIDE DEF B
  <2> QED
    BY <2>1, <2>2
<1> QED
  BY <1>3, <1>4, AccountStep

\* What an order has traded is exactly the sum of the executions written for it, for
\* trees of any depth and whatever the Bloom filter answers: a roll-up that is cut
\* short by an exception credits no order without its row, and no row without its
\* order (ExecutionCommandHandler.applyFillAndRecord).
THEOREM AccountsBalance == Spec => []TradedMatchesExecutions
<1>1. Init => AccountsInv
  BY QuantityOfNone, FS_EmptySet DEF Init, AccountsInv, Booked
<1>2. AccountsInv => TradedMatchesExecutions
  BY DEF AccountsInv, TradedMatchesExecutions, Booked, QuantityOf
<1> QED
  BY <1>1, <1>2, AccountsStep, BookIsSound, PTL DEF Spec

----------------------------------------------------------------------------
(* The trees strategies grow.                                              *)

LEMMA SumOfFewer ==
    ASSUME NEW f, NEW S, IsFiniteSet(S), \A x \in S : f[x] \in Nat, NEW U \in SUBSET S
    PROVE  SumFunctionOnSet(f, U) <= SumFunctionOnSet(f, S)
<1> DEFINE N == {n \in Nat : \A T \in SUBSET S : Cardinality(S \ T) = n =>
                                 SumFunctionOnSet(f, T) <= SumFunctionOnSet(f, S)}
<1>0. \A T \in SUBSET S : /\ IsFiniteSet(T) /\ SumFunctionOnSet(f, T) \in Nat
                          /\ IsFiniteSet(S \ T) /\ Cardinality(S \ T) \in Nat
  BY FS_Subset, FS_CardinalityType, SumNat
<1>1. 0 \in N
  <2> SUFFICES ASSUME NEW T \in SUBSET S, Cardinality(S \ T) = 0
               PROVE  SumFunctionOnSet(f, T) <= SumFunctionOnSet(f, S)
    OBVIOUS
  <2>1. S \ T = {}
    BY <1>0, FS_EmptySet
  <2>2. T = S
    BY <2>1
  <2> QED
    BY <1>0, <2>2
<1>2. ASSUME NEW n \in Nat, n \in N PROVE n + 1 \in N
  <2> SUFFICES ASSUME NEW T \in SUBSET S, Cardinality(S \ T) = n + 1
               PROVE  SumFunctionOnSet(f, T) <= SumFunctionOnSet(f, S)
    OBVIOUS
  <2>1. S \ T # {}
    <3>1. Cardinality({}) = 0 /\ n + 1 # 0
      BY FS_EmptySet
    <3> QED
      BY <3>1
  <2>2. PICK x \in S \ T : TRUE
    BY <2>1
  <2> DEFINE V == T \cup {x}
  <2>3. V \in SUBSET S /\ S \ V = (S \ T) \ {x} /\ x \in V /\ V \ {x} = T
    BY <2>2
  <2>4. Cardinality(S \ V) = n
    BY <1>0, <2>2, <2>3, SmallerSet
  <2>5. SumFunctionOnSet(f, V) <= SumFunctionOnSet(f, S)
    BY <1>2, <2>3, <2>4
  <2>6. SumFunctionOnSet(f, V) = f[x] + SumFunctionOnSet(f, T)
    <3> HIDE DEF V
    <3>1. IsFiniteSet(V) /\ \A y \in V : f[y] \in Nat
      BY <1>0, <2>3
    <3> QED
      BY <2>3, <3>1, SumOf
  <2>7. f[x] \in Nat
    BY <2>2
  <2>8. SumFunctionOnSet(f, T) \in Nat /\ SumFunctionOnSet(f, S) \in Nat
    BY <1>0
  <2> HIDE DEF V
  <2> QED
    BY <2>5, <2>6, <2>7, <2>8
<1>3. Nat \subseteq N
  <2> HIDE DEF N
  <2> QED
    BY <1>1, <1>2, SetInduction
<1>4. Cardinality(S \ U) \in N
  <2> HIDE DEF N
  <2> QED
    BY <1>0, <1>3
<1> QED
  BY <1>4

\* One term of a sum is replaced.
LEMMA SumReplaced ==
    ASSUME NEW f, NEW h, NEW S, IsFiniteSet(S),
           \A x \in S : f[x] \in Nat /\ h[x] \in Nat,
           NEW x \in S, \A y \in S \ {x} : h[y] = f[y]
    PROVE  /\ SumFunctionOnSet(f, S) \in Nat /\ SumFunctionOnSet(h, S) \in Nat
           /\ SumFunctionOnSet(h, S) = (SumFunctionOnSet(f, S) - f[x]) + h[x]
           /\ f[x] <= SumFunctionOnSet(f, S)
<1> DEFINE T == S \ {x}
<1>1. SumFunctionOnSet(f, S) = f[x] + SumFunctionOnSet(f, T) /\ SumFunctionOnSet(h, S) = h[x] + SumFunctionOnSet(h, T)
  BY SumOf
<1>2. IsFiniteSet(T)
  BY FS_Subset
<1>3. SumFunctionOnSet(h, T) = SumFunctionOnSet(f, T)
  BY <1>2, SumSame
<1>4. SumFunctionOnSet(f, T) \in Nat
  BY <1>2, SumNat
<1> HIDE DEF T
<1> QED
  BY <1>1, <1>3, <1>4

LEMMA SumAdded ==
    ASSUME NEW f, NEW S, IsFiniteSet(S), \A x \in S : f[x] \in Nat,
           NEW x, x \notin S, f[x] \in Nat
    PROVE  IsFiniteSet(S \cup {x}) /\ SumFunctionOnSet(f, S \cup {x}) = SumFunctionOnSet(f, S) + f[x]
<1> DEFINE U == S \cup {x}
<1>1. IsFiniteSet(U) /\ x \in U /\ U \ {x} = S /\ \A y \in U : f[y] \in Nat
  BY FS_AddElement
<1> HIDE DEF U
<1>2. SumFunctionOnSet(f, U) = f[x] + SumFunctionOnSet(f, S)
  BY <1>1, SumOf
<1>3. SumFunctionOnSet(f, S) \in Nat
  BY SumNat
<1>4. IsFiniteSet(U) /\ SumFunctionOnSet(f, U) = SumFunctionOnSet(f, S) + f[x]
  BY <1>1, <1>2, <1>3
<1> QED
  BY <1>4 DEF U

\* What is left to trade of each order, for quantities qu of which tr are traded.
Left(qu, tr) == [x \in Orders |-> qu[x] - tr[x]]

\* The sum a strategy allocates from is one of Left.
LEMMA ExposedSum ==
    ASSUME NEW S \in SUBSET Orders, IsFiniteSet(S)
    PROVE  MapThenSumSet(Remaining, S) = SumFunctionOnSet(Left(quantity, traded), S)
<1> DEFINE f == Left(quantity, traded)
           P(g) == g = [s \in SUBSET S |-> IF s = {} THEN 0
                          ELSE Remaining(CHOOSE x \in s : TRUE) + g[s \ {CHOOSE x \in s : TRUE}]]
           k == CHOOSE g : P(g)
<1>1. \A s \in SUBSET S : s # {} => f[Chosen(s)] = Remaining(Chosen(s))
  BY ChosenIn DEF Left, Remaining
<1>2. \A g : Sums(g, f, S) <=> P(g)
  <2> HIDE DEF f
  <2> QED
    BY <1>1 DEF Sums, Chosen
<1>3. \E g : P(g)
  <2> HIDE DEF f, P
  <2> QED
    BY <1>2, SumsExists
<1>4. P(k)
  BY <1>3
<1>5. Sums(k, f, S)
  <2> HIDE DEF f, P, k
  <2> QED
    BY <1>2, <1>4
<1>6. MapThenSumSet(Remaining, S) = k[S]
  BY DEF MapThenSumSet, MapThenFoldSet
<1>7. PICK g : Sums(g, f, S) /\ SumFunctionOnSet(f, S) = g[S]
  BY SumIsSums
<1>8. k[S] = g[S]
  <2> HIDE DEF f, k
  <2> QED
    BY <1>5, <1>7, SumsAgree
<1> QED
  BY <1>6, <1>7, <1>8

\* One level of DMA children under each strategy order, finitely many; no strategy was
\* rejected with children; the parent's account is its children's; and what live
\* children may still trade fits into what the parent may.
OneLevel ==
    \A c \in Orders : parent[c] # NoOrder => c \in Direct /\ parent[c] \in Strategies
AccountsAgree ==
    \A p \in Strategies : /\ IsFiniteSet(Children(p))
                          /\ traded[p] = SumFunctionOnSet(traded, Children(p))
RejectedAreBarren ==
    \A p \in Strategies : status[p] = "REJECTED" => Children(p) = {}
ExposureFits ==
    \A p \in Strategies : SumFunctionOnSet(Left(quantity, traded), LiveChildren(p)) <= Remaining(p)

\* A roll-up reference is remembered only with the fill it came from.
RollupsFollowFills ==
    \A r \in References, p \in Orders :
        RollupKey(r, p) \in references => FillKey(r) \in references

StrategyInv ==
    /\ OneLevel
    /\ AccountsAgree
    /\ RejectedAreBarren
    /\ ExposureFits
    /\ RollupsFollowFills

\* Nothing traded exceeds its order.
LEMMA LeftIsNatural ==
    ASSUME IInv
    PROVE  \A x \in Orders : /\ Left(quantity, traded)[x] \in Nat /\ traded[x] \in Nat
                             /\ Left(quantity, traded)[x] = Remaining(x)
                             /\ x \in store => Left(quantity, traded)[x] > 0
BY OrderTreeAssumption
   DEF IInv, TypeOK, Left, Remaining, ValidateInvariantsHolds, OrderIsConsistent, TreeShape,
       StoreHoldsTheLive, Active, Statuses

LEMMA SmallFamilies ==
    ASSUME TypeOK, AccountsAgree, NEW p \in Strategies
    PROVE  /\ IsFiniteSet(Children(p)) /\ IsFiniteSet(LiveChildren(p))
           /\ Children(p) \subseteq Orders /\ LiveChildren(p) \subseteq Children(p) \cap store
<1>1. LiveChildren(p) \subseteq Children(p) \cap store /\ Children(p) \subseteq Orders
  BY DEF TypeOK, Children, LiveChildren
<1>2. IsFiniteSet(Children(p))
  BY DEF AccountsAgree
<1> QED
  BY <1>1, <1>2, FS_Subset

\* The parent of a live order is live.
LEMMA ParentIsLive ==
    ASSUME IInv, StrategyInv, NEW c \in store, parent[c] # NoOrder
    PROVE  parent[c] \in store /\ parent[c] \in Strategies /\ c \in LiveChildren(parent[c])
<1> DEFINE p == parent[c]
           f == Left(quantity, traded)
<1>0. TypeOK
  BY DEF IInv
<1>1. c \in Orders /\ p \in Strategies /\ c \in LiveChildren(p) /\ c \in Children(p)
  BY <1>0 DEF TypeOK, StrategyInv, OneLevel, LiveChildren, Children
<1>2. status[c] \in Active /\ status[p] # "NONE"
  BY <1>1 DEF IInv, StoreHoldsTheLive, TreeShape
<1>3. status[p] # "CANCELLED"
  BY <1>1, <1>2 DEF IInv, CancelledStrategyHasNoLiveChild, Strategies, Active, Terminal
<1>4. status[p] # "REJECTED"
  BY <1>1 DEF StrategyInv, RejectedAreBarren
<1>5. Remaining(p) > 0
  <2>1. IsFiniteSet(LiveChildren(p)) /\ LiveChildren(p) \subseteq Orders
    BY <1>0, <1>1, SmallFamilies DEF StrategyInv
  <2>2. \A x \in Orders : f[x] \in Nat
    BY LeftIsNatural
  <2>3. f[c] <= SumFunctionOnSet(f, LiveChildren(p)) /\ SumFunctionOnSet(f, LiveChildren(p)) \in Nat
    <3> HIDE DEF f
    <3> QED
      BY <1>1, <2>1, <2>2, SumReplaced
  <2>4. f[c] > 0 /\ Remaining(p) \in Nat
    BY <1>1, LeftIsNatural DEF Strategies
  <2>5. SumFunctionOnSet(f, LiveChildren(p)) <= Remaining(p)
    BY <1>1 DEF StrategyInv, ExposureFits
  <2> HIDE DEF f, p
  <2> QED
    BY <1>1, <2>2, <2>3, <2>4, <2>5
<1>6. status[p] # "FILLED"
  BY <1>1, <1>5 DEF IInv, ValidateInvariantsHolds, OrderIsConsistent, Remaining, Strategies, TypeOK
<1>7. p \in store
  BY <1>1, <1>2, <1>3, <1>4, <1>6, <1>0
     DEF IInv, StoreHoldsTheLive, TypeOK, Statuses, Active, Strategies
<1> QED
  BY <1>1, <1>7

\* The steps of strategies are steps of the book.
LEMMA StrategyIsBook == [StrategyNext]_vars => [Next]_vars
<1>1. ASSUME NEW o \in Orders, NEW p \in Parents, NEW q \in Quantities, RouteChild(o, p, q)
      PROVE  Next
  BY <1>1 DEF RouteChild, Allocate, Next, ClientNext
<1>2. ASSUME AllocatedNext PROVE Next
  BY <1>2 DEF AllocatedNext, RejectUnrouted, Next, ClientNext, VenueNext
<1> QED
  BY <1>1, <1>2 DEF StrategyNext

\* A step that trades nothing, creates nothing and rejects only orders without
\* children.
Quiet ==
    /\ parent' = parent /\ quantity' = quantity /\ traded' = traded
    /\ references' = references
    /\ store' \subseteq store
    /\ \A p \in Strategies :
           status'[p] = "REJECTED" => status[p] = "REJECTED" \/ Children(p) = {}

LEMMA QuietStep ==
    ASSUME IInv, StrategyInv, Quiet
    PROVE  StrategyInv'
<1>0. TypeOK
  BY DEF IInv
<1>1. OneLevel' /\ RollupsFollowFills'
  BY DEF Quiet, StrategyInv, OneLevel, RollupsFollowFills
<1>2. \A p : Children(p)' = Children(p) /\ LiveChildren(p)' \subseteq LiveChildren(p)
  BY DEF Quiet, Children, LiveChildren
<1>3. AccountsAgree' /\ RejectedAreBarren'
  <2> SUFFICES ASSUME NEW p \in Strategies
               PROVE  /\ IsFiniteSet(Children(p)')
                      /\ traded'[p] = SumFunctionOnSet(traded', Children(p)')
                      /\ status'[p] = "REJECTED" => Children(p)' = {}
    BY DEF AccountsAgree, RejectedAreBarren
  <2> QED
    BY <1>2 DEF Quiet, StrategyInv, AccountsAgree, RejectedAreBarren
<1>4. ExposureFits'
  <2> SUFFICES ASSUME NEW p \in Strategies
               PROVE  SumFunctionOnSet(Left(quantity', traded'), LiveChildren(p)') <= quantity'[p] - traded'[p]
    BY DEF ExposureFits, Remaining
  <2> DEFINE f == Left(quantity, traded)
             L == LiveChildren(p)
             M == LiveChildren(p)'
  <2>1. IsFiniteSet(L) /\ M \in SUBSET L /\ \A x \in L : f[x] \in Nat
    BY <1>0, <1>2, SmallFamilies, LeftIsNatural DEF StrategyInv
  <2>2. IsFiniteSet(M) /\ \A x \in M : f[x] \in Nat
    BY <2>1, FS_Subset
  <2>3. SumFunctionOnSet(f, L) <= quantity[p] - traded[p]
    BY DEF StrategyInv, ExposureFits, Remaining
  <2>4. quantity[p] \in Nat /\ traded[p] \in Nat
    BY <1>0, OrderTreeAssumption DEF TypeOK, Strategies
  <2>5. Left(quantity', traded') = f /\ quantity'[p] = quantity[p] /\ traded'[p] = traded[p]
    BY DEF Quiet
  <2> HIDE DEF f, L, M
  <2>6. SumFunctionOnSet(f, M) <= SumFunctionOnSet(f, L) /\ SumFunctionOnSet(f, M) \in Nat /\ SumFunctionOnSet(f, L) \in Nat
    BY <2>1, <2>2, SumOfFewer, SumNat
  <2>7. SumFunctionOnSet(f, M) <= quantity'[p] - traded'[p]
    BY <2>3, <2>4, <2>5, <2>6
  <2> QED
    BY <2>5, <2>7 DEF M
<1> QED
  BY <1>1, <1>3, <1>4 DEF StrategyInv

\* A client's order starts a tree of its own.
LEMMA CreateTopStep ==
    ASSUME IInv, StrategyInv, NEW o \in Orders, NEW q \in Quantities, Create(o, NoOrder, q)
    PROVE  StrategyInv'
<1> DEFINE f == Left(quantity, traded)
           h == Left(quantity', traded')
<1>0. TypeOK /\ TreeShape
  BY DEF IInv
<1>1. /\ parent[o] = NoOrder /\ traded[o] = 0 /\ status[o] = "NONE"
      /\ \A c \in Orders : parent[c] # o
  BY <1>0, OrderTreeAssumption DEF Create, TreeShape, TypeOK
<1>2. parent' = parent /\ traded' = traded /\ references' = references
  BY <1>0, <1>1 DEF Create, TypeOK, fillVars
<1>3. /\ quantity' = [quantity EXCEPT ![o] = q] /\ status' = [status EXCEPT ![o] = "LIVE"]
      /\ store' = store \cup {o}
  BY <1>0 DEF Create, Put, Active, TypeOK
<1>4. \A p \in Strategies : Children(p)' = Children(p) /\ LiveChildren(p)' = LiveChildren(p)
  BY <1>1, <1>2, <1>3, OrderTreeAssumption DEF Children, LiveChildren, Strategies
<1>5. OneLevel' /\ RollupsFollowFills'
  BY <1>2 DEF StrategyInv, OneLevel, RollupsFollowFills
<1>6. AccountsAgree' /\ RejectedAreBarren'
  <2> SUFFICES ASSUME NEW p \in Strategies
               PROVE  /\ IsFiniteSet(Children(p)')
                      /\ traded'[p] = SumFunctionOnSet(traded', Children(p)')
                      /\ status'[p] = "REJECTED" => Children(p)' = {}
    BY DEF AccountsAgree, RejectedAreBarren
  <2>1. status'[p] = "REJECTED" => status[p] = "REJECTED"
    BY <1>0, <1>3 DEF TypeOK, Strategies
  <2> QED
    BY <1>2, <1>4, <2>1 DEF StrategyInv, AccountsAgree, RejectedAreBarren
<1>7. ExposureFits'
  <2> SUFFICES ASSUME NEW p \in Strategies
               PROVE  SumFunctionOnSet(h, LiveChildren(p)) <= quantity'[p] - traded'[p]
    BY <1>4 DEF ExposureFits, Remaining
  <2>1. CASE p = o
    <3>1. LiveChildren(p) = {}
      BY <1>0, <1>1, <2>1 DEF LiveChildren, TypeOK
    <3>2. quantity'[p] = q /\ traded'[p] = 0 /\ q \in Nat
      BY <1>0, <1>1, <1>2, <1>3, <2>1, OrderTreeAssumption DEF TypeOK, Quantities
    <3> QED
      BY <3>1, <3>2, SumEmpty
  <2>2. CASE p # o
    <3>1. IsFiniteSet(LiveChildren(p)) /\ \A x \in LiveChildren(p) : x \in Orders /\ x # o
      BY <1>0, <1>1, OrderTreeAssumption, SmallFamilies DEF StrategyInv, LiveChildren, Strategies
    <3>2. \A x \in LiveChildren(p) : h[x] = f[x]
      BY <1>0, <1>2, <1>3, <3>1 DEF Left, TypeOK
    <3>3. quantity'[p] - traded'[p] = quantity[p] - traded[p]
      BY <1>0, <1>2, <1>3, <2>2 DEF TypeOK, Strategies
    <3> HIDE DEF f, h
    <3>4. SumFunctionOnSet(h, LiveChildren(p)) = SumFunctionOnSet(f, LiveChildren(p))
      BY <3>1, <3>2, SumSame
    <3>5. SumFunctionOnSet(f, LiveChildren(p)) <= quantity[p] - traded[p]
      BY DEF f, StrategyInv, ExposureFits, Remaining
    <3> QED
      BY <3>3, <3>4, <3>5
  <2> QED
    BY <2>1, <2>2
<1> QED
  BY <1>5, <1>6, <1>7 DEF StrategyInv

\* A strategy sends a child no larger than what it still has to route.
LEMMA RouteStep ==
    ASSUME IInv, StrategyInv, NEW o \in Orders, NEW p \in Parents, NEW q \in Quantities,
           RouteChild(o, p, q)
    PROVE  StrategyInv'
<1> DEFINE f == Left(quantity, traded)
           h == Left(quantity', traded')
           L(u) == LiveChildren(u)
<1>0. TypeOK /\ TreeShape
  BY DEF IInv
<1>1. /\ o \in Direct /\ p \in Strategies /\ q <= Available(p) /\ Create(o, p, q)
      /\ p \in store /\ p # o /\ p # NoOrder
  BY OrderTreeAssumption
     DEF RouteChild, Allocate, Create, MayBeParent, Strategies
<1>2. parent[o] = NoOrder /\ traded[o] = 0 /\ status[o] = "NONE"
  BY <1>0, <1>1 DEF Create, TreeShape
<1>3. /\ parent' = [parent EXCEPT ![o] = p] /\ traded' = traded /\ references' = references
      /\ quantity' = [quantity EXCEPT ![o] = q] /\ status' = [status EXCEPT ![o] = "LIVE"]
      /\ store' = store \cup {o}
  BY <1>0, <1>1 DEF Create, Put, Active, TypeOK, fillVars
<1>4. \A u \in Strategies : u # p => Children(u)' = Children(u) /\ L(u)' = L(u)
  BY <1>0, <1>1, <1>2, <1>3, OrderTreeAssumption DEF TypeOK, Children, LiveChildren, Strategies
<1>5. /\ Children(p)' = Children(p) \cup {o} /\ o \notin Children(p)
      /\ L(p)' = L(p) \cup {o} /\ o \notin L(p)
  BY <1>0, <1>1, <1>2, <1>3 DEF TypeOK, Children, LiveChildren
<1>6. \A u \in Strategies : /\ IsFiniteSet(L(u)) /\ L(u) \subseteq Orders
                            /\ IsFiniteSet(Children(u)) /\ Children(u) \subseteq Orders
                            /\ o \notin L(u)
  BY <1>0, <1>2, OrderTreeAssumption, SmallFamilies DEF StrategyInv, LiveChildren, Strategies
<1>7. OneLevel' /\ RollupsFollowFills'
  BY <1>0, <1>1, <1>3 DEF TypeOK, StrategyInv, OneLevel, RollupsFollowFills
<1>8. AccountsAgree' /\ RejectedAreBarren'
  <2> SUFFICES ASSUME NEW u \in Strategies
               PROVE  /\ IsFiniteSet(Children(u)')
                      /\ traded'[u] = SumFunctionOnSet(traded', Children(u)')
                      /\ status'[u] = "REJECTED" => Children(u)' = {}
    BY DEF AccountsAgree, RejectedAreBarren
  <2>1. traded'[u] = traded[u] /\ status'[u] = status[u]
    BY <1>0, <1>1, <1>3 DEF TypeOK, Strategies
  <2>2. CASE u # p
    BY <1>3, <1>4, <2>1, <2>2 DEF StrategyInv, AccountsAgree, RejectedAreBarren
  <2>3. CASE u = p
    <3>1. IsFiniteSet(Children(p)) /\ traded[p] = SumFunctionOnSet(traded, Children(p))
      BY <1>1 DEF StrategyInv, AccountsAgree
    <3>2. \A x \in Orders : traded[x] \in Nat
      BY LeftIsNatural
    <3>3. \A x \in Children(p) : traded[x] \in Nat
      BY <1>1, <1>6, <3>2
    <3>4. /\ IsFiniteSet(Children(p) \cup {o})
          /\ SumFunctionOnSet(traded, Children(p) \cup {o}) = SumFunctionOnSet(traded, Children(p)) + traded[o]
      BY <1>2, <1>5, <3>1, <3>3, SumAdded
    <3>5. traded[p] \in Nat
      BY <1>1, <3>2 DEF Strategies
    <3>6. status[p] # "REJECTED"
      BY <1>1 DEF IInv, StoreHoldsTheLive, Active
    <3>7. traded[p] = SumFunctionOnSet(traded, Children(p) \cup {o})
      BY <1>2, <3>1, <3>4, <3>5
    <3> QED
      BY <1>3, <1>5, <2>1, <2>3, <3>4, <3>6, <3>7
  <2> QED
    BY <2>2, <2>3
<1>9. ExposureFits'
  <2> SUFFICES ASSUME NEW u \in Strategies
               PROVE  SumFunctionOnSet(h, LiveChildren(u)') <= quantity'[u] - traded'[u]
    BY DEF ExposureFits, Remaining
  <2>1. \A x \in L(u) : h[x] = f[x] /\ f[x] \in Nat
    BY <1>0, <1>3, <1>6, LeftIsNatural DEF Left, TypeOK
  <2>2. u # o /\ quantity'[u] - traded'[u] = quantity[u] - traded[u]
    BY <1>0, <1>1, <1>3 DEF TypeOK, Strategies
  <2>3. SumFunctionOnSet(f, L(u)) <= quantity[u] - traded[u]
    BY DEF StrategyInv, ExposureFits, Remaining
  <2>4. SumFunctionOnSet(h, L(u)) = SumFunctionOnSet(f, L(u)) /\ SumFunctionOnSet(f, L(u)) \in Nat
    <3> HIDE DEF f, h, L
    <3> QED
      BY <1>6, <2>1, SumSame, SumNat
  <2>5. CASE u # p
    BY <1>4, <2>2, <2>3, <2>4, <2>5
  <2>6. CASE u = p
    <3>1. h[o] = q /\ q \in Nat
      BY <1>0, <1>2, <1>3, OrderTreeAssumption DEF Left, TypeOK, Quantities
    <3>2. SumFunctionOnSet(h, L(u) \cup {o}) = SumFunctionOnSet(h, L(u)) + h[o]
      <4> HIDE DEF f, h, L
      <4> QED
        BY <1>6, <2>1, <3>1, SumAdded
    <3>3. q <= (quantity[u] - traded[u]) - SumFunctionOnSet(f, L(u))
      BY <1>1, <1>6, <2>6, ExposedSum DEF Available, Exposed, Remaining
    <3>4. quantity[u] \in Nat /\ traded[u] \in Nat
      BY <1>0, OrderTreeAssumption DEF TypeOK, Strategies
    <3>5. L(u)' = L(u) \cup {o}
      BY <1>5, <2>6
    <3> HIDE DEF f, h
    <3>6. SumFunctionOnSet(h, L(u)') = SumFunctionOnSet(f, L(u)) + q
      BY <2>4, <3>1, <3>2, <3>5
    <3> QED
      BY <2>2, <2>4, <3>1, <3>3, <3>4, <3>6
  <2> QED
    BY <2>5, <2>6
<1> QED
  BY <1>7, <1>8, <1>9 DEF StrategyInv

\* The Bloom filter takes no new roll-up reference for a known one.
NoRollupCollision ==
    \A r \in References, p \in Orders : RollupKey(r, p) \notin Collides

\* A fill that is not known yet is credited to the order and to its parent.
LEMMA FillReachesParent ==
    ASSUME IInv, StrategyInv, NoRollupCollision,
           NEW o \in Direct, NEW r \in References, NEW q \in Quantities, ApplyFill(o, r, q)
    PROVE  RolledUp(o, r, q) = IF parent[o] = NoOrder THEN {} ELSE {parent[o]}
<1>0. TypeOK /\ TreeShape /\ o \in Orders /\ o \in store
  BY OrderTreeAssumption DEF IInv, ApplyFill
<1>1. CASE parent[o] = NoOrder
  BY <1>0, <1>1 DEF TreeShape, RolledUp, RollupPath
<1>2. CASE parent[o] # NoOrder
  <2> DEFINE p == parent[o]
  <2>1. p \in store /\ p \in Strategies /\ o \in LiveChildren(p)
    BY <1>0, <1>2, ParentIsLive
  <2>2. p \in Orders /\ parent[p] = NoOrder
    BY <2>1 DEF StrategyInv, OneLevel, Strategies
  <2>3. above[p] = {} /\ above[o] = {p}
    BY <1>0, <1>2, <2>2 DEF TreeShape
  <2>4. UpTo(o, p) = {p} /\ RollupPath(o) = {p}
    BY <2>1, <2>3 DEF UpTo, RollupPath
  <2>5. ~Uncertain(RollupKey(r, p)) /\ ~Seen(RollupKey(r, p))
    BY <2>2 DEF ApplyFill, Seen, Uncertain, NoRollupCollision, StrategyInv, RollupsFollowFills
  <2>6. Fits(p, q)
    <3> DEFINE f == Left(quantity, traded)
    <3>1. IsFiniteSet(LiveChildren(p)) /\ \A x \in LiveChildren(p) : f[x] \in Nat
      BY <1>0, <2>1, SmallFamilies, LeftIsNatural DEF StrategyInv
    <3>2. f[o] = Remaining(o) /\ f[o] \in Nat /\ Remaining(p) \in Nat
      BY <1>0, <2>2, LeftIsNatural
    <3>3. SumFunctionOnSet(f, LiveChildren(p)) <= Remaining(p)
      BY <2>1 DEF StrategyInv, ExposureFits
    <3>4. q <= Remaining(o) /\ q \in Nat
      BY OrderTreeAssumption DEF ApplyFill, Fits, Quantities
    <3> HIDE DEF f, p
    <3>5. f[o] <= SumFunctionOnSet(f, LiveChildren(p)) /\ SumFunctionOnSet(f, LiveChildren(p)) \in Nat
      BY <2>1, <3>1, SumReplaced
    <3> QED
      BY <3>2, <3>3, <3>4, <3>5 DEF Fits
  <2>7. ~RollupRaises(p, r, q)
    BY <2>5, <2>6 DEF RollupRaises
  <2>8. RolledUp(o, r, q) = {p}
    BY <2>4, <2>5, <2>7 DEF RolledUp
  <2> QED
    BY <1>2, <2>8
<1> QED
  BY <1>1, <1>2

LEMMA FillStep ==
    ASSUME IInv, StrategyInv, NoRollupCollision,
           NEW o \in Direct, NEW r \in References, NEW q \in Quantities, ApplyFill(o, r, q)
    PROVE  StrategyInv'
<1> DEFINE f == Left(quantity, traded)
           h == Left(quantity', traded')
           rolled == RolledUp(o, r, q)
           L(u) == LiveChildren(u)
<1>0. TypeOK /\ TreeShape /\ o \in Orders /\ o \in store
  BY OrderTreeAssumption DEF IInv, ApplyFill
<1>1. Revision
  BY <1>0, RevisionStep DEF IInv, NotCreate, Other
<1>2. parent' = parent /\ store' \subseteq store /\ quantity' = quantity
  BY <1>1 DEF Revision, ApplyFill
<1>3. /\ traded' = [y \in Orders |-> IF y \in {o} \cup rolled THEN traded[y] + q ELSE traded[y]]
      /\ references' = references \cup {FillKey(r)} \cup {RollupKey(r, a) : a \in rolled}
      /\ \A u \in Orders : status'[u] = "REJECTED" => status[u] = "REJECTED"
  BY DEF ApplyFill, Record, StatusAfterFill
<1>4. rolled = IF parent[o] = NoOrder THEN {} ELSE {parent[o]}
  BY FillReachesParent
<1>5. /\ \A u \in Strategies : u \in Orders /\ u # o
      /\ \A c \in Orders : parent[c] # NoOrder => c \notin rolled
      /\ rolled \subseteq Orders
  BY <1>0, <1>4, OrderTreeAssumption DEF StrategyInv, OneLevel, Strategies
<1>6. q \in Nat /\ q <= Remaining(o)
  BY OrderTreeAssumption DEF ApplyFill, Fits, Quantities
<1>7. \A u \in Strategies : /\ Children(u)' = Children(u) /\ L(u)' \subseteq L(u)
                            /\ IsFiniteSet(L(u)) /\ L(u) \subseteq Children(u)
                            /\ IsFiniteSet(Children(u)) /\ Children(u) \subseteq Orders
  BY <1>0, <1>2, SmallFamilies DEF StrategyInv, Children, LiveChildren
<1>8. \A c \in Orders : c \in Children(parent[c])
  BY DEF Children
<1>9. \A x \in Orders : /\ f[x] \in Nat /\ traded[x] \in Nat /\ quantity[x] \in Nat
                        /\ f[x] = quantity[x] - traded[x]
  BY <1>0, LeftIsNatural, OrderTreeAssumption DEF Left, TypeOK
<1> HIDE DEF rolled
<1>10. \A c \in Orders : parent[c] # NoOrder =>
           /\ traded'[c] = IF c = o THEN traded[c] + q ELSE traded[c]
           /\ h[c] = IF c = o THEN f[c] - q ELSE f[c]
           /\ traded'[c] \in Nat /\ h[c] \in Nat
  <2> SUFFICES ASSUME NEW c \in Orders, parent[c] # NoOrder
               PROVE  /\ traded'[c] = IF c = o THEN traded[c] + q ELSE traded[c]
                      /\ h[c] = IF c = o THEN f[c] - q ELSE f[c]
                      /\ traded'[c] \in Nat /\ h[c] \in Nat
    OBVIOUS
  <2>1. h[c] = quantity[c] - traded'[c]
    BY <1>2 DEF Left
  <2>2. traded'[c] = IF c = o THEN traded[c] + q ELSE traded[c]
    BY <1>3, <1>5
  <2>3. c = o => q <= f[c]
    BY <1>6, <1>9 DEF Remaining
  <2> HIDE DEF f, h
  <2> QED
    BY <1>6, <1>9, <2>1, <2>2, <2>3
<1>11. \A u \in Strategies :
           /\ traded'[u] = IF u = parent[o] THEN traded[u] + q ELSE traded[u]
           /\ quantity'[u] = quantity[u]
  BY <1>2, <1>3, <1>4, <1>5, OrderTreeAssumption DEF Strategies
<1>12. OneLevel'
  BY <1>2 DEF StrategyInv, OneLevel
<1>13. RollupsFollowFills'
  BY <1>3, OrderTreeAssumption DEF StrategyInv, RollupsFollowFills, FillKey, RollupKey
<1>14. \A u \in Strategies : \A c \in Children(u) : c \in Orders /\ parent[c] = u /\ u # NoOrder
  BY OrderTreeAssumption DEF Children, Strategies
<1>15. AccountsAgree' /\ RejectedAreBarren'
  <2> SUFFICES ASSUME NEW u \in Strategies
               PROVE  /\ IsFiniteSet(Children(u)')
                      /\ traded'[u] = SumFunctionOnSet(traded', Children(u)')
                      /\ status'[u] = "REJECTED" => Children(u)' = {}
    BY DEF AccountsAgree, RejectedAreBarren
  <2> DEFINE C == Children(u)
             t == traded'
  <2>1. C' = C /\ IsFiniteSet(C) /\ \A c \in C : traded[c] \in Nat /\ t[c] \in Nat
    BY <1>7, <1>9, <1>10, <1>14
  <2>2. status'[u] = "REJECTED" => C = {}
    BY <1>3, <1>5 DEF StrategyInv, RejectedAreBarren
  <2>3. traded[u] = SumFunctionOnSet(traded, C) /\ traded[u] \in Nat
    BY <1>5, <1>9 DEF StrategyInv, AccountsAgree
  <2>4. t[u] = SumFunctionOnSet(t, C)
    <3>1. CASE u = parent[o]
      <4>1. /\ o \in C /\ \A c \in C \ {o} : t[c] = traded[c]
            /\ t[o] = traded[o] + q /\ t[u] = traded[u] + q /\ traded[o] \in Nat
        BY <1>0, <1>8, <1>9, <1>10, <1>11, <1>14, <3>1
      <4> HIDE DEF C, t
      <4>2. SumFunctionOnSet(t, C) = (SumFunctionOnSet(traded, C) - traded[o]) + t[o]
        BY <2>1, <4>1, SumReplaced
      <4> QED
        BY <1>6, <2>3, <4>1, <4>2
    <3>2. CASE u # parent[o]
      <4>1. (\A c \in C : t[c] = traded[c]) /\ t[u] = traded[u]
        BY <1>10, <1>11, <1>14, <3>2
      <4> HIDE DEF C, t
      <4>2. SumFunctionOnSet(t, C) = SumFunctionOnSet(traded, C)
        BY <2>1, <4>1, SumSame
      <4> QED
        BY <2>3, <4>1, <4>2
    <3> QED
      BY <3>1, <3>2
  <2> QED
    BY <2>1, <2>2, <2>4
<1>16. ExposureFits'
  <2> SUFFICES ASSUME NEW u \in Strategies
               PROVE  SumFunctionOnSet(h, LiveChildren(u)') <= quantity'[u] - traded'[u]
    BY DEF ExposureFits, Remaining
  <2> DEFINE K == L(u)
             M == LiveChildren(u)'
  <2>1. /\ IsFiniteSet(K) /\ M \in SUBSET K /\ IsFiniteSet(M)
        /\ \A c \in K : c \in Orders /\ parent[c] = u /\ f[c] \in Nat /\ h[c] \in Nat
    BY <1>7, <1>9, <1>10, <1>14, FS_Subset
  <2>a. u # NoOrder
    BY OrderTreeAssumption DEF Strategies
  <2>b. /\ \A c \in K : h[c] = IF c = o THEN f[c] - q ELSE f[c]
        /\ traded'[u] = IF u = parent[o] THEN traded[u] + q ELSE traded[u]
    <3> HIDE DEF f, h, K
    <3> QED
      BY <1>10, <1>11, <2>1, <2>a
  <2>2. SumFunctionOnSet(f, K) <= quantity[u] - traded[u]
    BY DEF StrategyInv, ExposureFits, Remaining
  <2>3. quantity[u] \in Nat /\ traded[u] \in Nat /\ quantity'[u] = quantity[u]
    BY <1>5, <1>9, <1>11
  <2>4. SumFunctionOnSet(h, K) <= quantity[u] - traded'[u]
    <3>1. CASE u = parent[o]
      <4>1. o \in K
        BY <1>0, <3>1 DEF LiveChildren
      <4>2. /\ \A c \in K \ {o} : h[c] = f[c]
            /\ h[o] = f[o] - q /\ traded'[u] = traded[u] + q /\ f[o] \in Nat
        <5> HIDE DEF f, h, K
        <5> QED
          BY <2>1, <2>b, <3>1, <4>1
      <4> HIDE DEF K, M, f, h, L
      <4>3. /\ SumFunctionOnSet(h, K) = (SumFunctionOnSet(f, K) - f[o]) + h[o]
            /\ SumFunctionOnSet(f, K) \in Nat /\ SumFunctionOnSet(h, K) \in Nat
        BY <2>1, <4>1, <4>2, SumReplaced
      <4> QED
        BY <1>6, <2>2, <2>3, <4>2, <4>3
    <3>2. CASE u # parent[o]
      <4>1. (\A c \in K : h[c] = f[c]) /\ traded'[u] = traded[u]
        <5>1. o \notin K
          BY <2>1, <3>2
        <5> HIDE DEF f, h, K
        <5> QED
          BY <2>b, <3>2, <5>1
      <4> HIDE DEF K, M, f, h, L
      <4>2. SumFunctionOnSet(h, K) = SumFunctionOnSet(f, K)
        BY <2>1, <4>1, SumSame
      <4> QED
        BY <2>2, <4>1, <4>2
    <3> QED
      BY <3>1, <3>2
  <2>5. traded'[u] \in Nat
    BY <1>6, <1>11, <2>3
  <2> HIDE DEF K, M, f, h, L
  <2>6. SumFunctionOnSet(h, M) <= SumFunctionOnSet(h, K) /\ SumFunctionOnSet(h, M) \in Nat /\ SumFunctionOnSet(h, K) \in Nat
    BY <2>1, SumOfFewer, SumNat
  <2>7. SumFunctionOnSet(h, M) <= quantity'[u] - traded'[u]
    BY <2>3, <2>4, <2>5, <2>6
  <2> QED
    BY <2>7 DEF M
<1> QED
  BY <1>12, <1>13, <1>15, <1>16 DEF StrategyInv

\* Every step of strategies and of the clients and venues around them keeps their
\* trees' accounts.
LEMMA StrategyStep ==
    ASSUME NoRollupCollision, IInv, StrategyInv, [StrategyNext]_vars
    PROVE  StrategyInv'
<1>0. TypeOK /\ StoreHoldsTheLive
  BY DEF IInv
<1>1. ASSUME NEW o \in Orders, NEW p \in Parents, NEW q \in Quantities, RouteChild(o, p, q)
      PROVE  StrategyInv'
  BY <1>1, RouteStep
<1>2. ASSUME NEW o \in Orders, NEW q \in Quantities, Create(o, NoOrder, q)
      PROVE  StrategyInv'
  BY <1>2, CreateTopStep
<1>3. ASSUME NEW S \in SUBSET store, RequestCancel(S)
      PROVE  StrategyInv'
  <2>1. Quiet
    BY <1>0, <1>3 DEF Quiet, RequestCancel, Put, treeVars, fillVars, TypeOK
  <2> QED
    BY <2>1, QuietStep
<1>4. ASSUME NEW o \in Orders, Cancel(o)
      PROVE  StrategyInv'
  BY <1>0, <1>3, <1>4, ReachedOrdersAreLive DEF Cancel
<1>5. ASSUME NEW desk \in Desks, CancelAll(desk)
      PROVE  StrategyInv'
  BY <1>3, <1>5 DEF CancelAll
<1>6. ASSUME NEW o \in Direct, NEW r \in References, NEW q \in Quantities, Fill(o, r, q)
      PROVE  StrategyInv'
  <2>1. CASE ApplyFill(o, r, q)
    BY <2>1, FillStep
  <2>2. CASE IgnoreFill(o, r, q)
    <3>1. Quiet
      BY <2>2 DEF Quiet, IgnoreFill, treeVars
    <3> QED
      BY <3>1, QuietStep
  <2> QED
    BY <1>6, <2>1, <2>2 DEF Fill
<1>7. ASSUME NEW o \in Orders, RejectUnrouted(o)
      PROVE  StrategyInv'
  <2>1. Reject(o) /\ (o \in Strategies => Children(o) = {})
    BY <1>7 DEF RejectUnrouted, Strategies
  <2>2. Revision
    BY <1>0, <2>1, RevisionStep DEF NotCreate, Other
  <2>3. \A u \in Orders : status'[u] = "REJECTED" => u = o \/ status[u] = "REJECTED"
    BY <2>1 DEF Reject
  <2>4. Quiet
    BY <2>1, <2>2, <2>3 DEF Quiet, Revision, Reject, fillVars, Strategies
  <2> QED
    BY <2>4, QuietStep
<1>8. ASSUME NEW o \in Orders, ConfirmCancel(o)
      PROVE  StrategyInv'
  <2>1. Revision
    BY <1>0, <1>8, RevisionStep DEF NotCreate, Other
  <2>2. \A u \in Orders : status'[u] = "REJECTED" => status[u] = "REJECTED"
    BY <1>8 DEF ConfirmCancel
  <2>3. Quiet
    BY <1>8, <2>1, <2>2 DEF Quiet, Revision, ConfirmCancel, fillVars, Strategies
  <2> QED
    BY <2>3, QuietStep
<1>9. ASSUME NEW o \in Orders, RefuseAck(o)
      PROVE  StrategyInv'
  <2>1. Quiet
    BY <1>9 DEF Quiet, RefuseAck, treeVars, fillVars
  <2> QED
    BY <2>1, QuietStep
<1>10. CASE UNCHANGED vars
  <2>1. Quiet
    BY <1>10 DEF Quiet, vars, treeVars, fillVars
  <2> QED
    BY <2>1, QuietStep
<1> QED
  BY <1>1, <1>2, <1>4, <1>5, <1>6, <1>7, <1>8, <1>9, <1>10 DEF StrategyNext, AllocatedNext

LEMMA StrategyInit == Init => StrategyInv
<1> SUFFICES ASSUME Init PROVE StrategyInv
  OBVIOUS
<1>1. OneLevel /\ RollupsFollowFills
  BY DEF Init, OneLevel, RollupsFollowFills
<1>2. \A p \in Strategies : Children(p) = {} /\ LiveChildren(p) = {}
  BY OrderTreeAssumption DEF Init, Children, LiveChildren, Strategies
<1>3. AccountsAgree /\ RejectedAreBarren
  <2>1. \A p \in Strategies : traded[p] = 0
    BY DEF Init, Strategies
  <2>2. SumFunctionOnSet(traded, {}) = 0 /\ IsFiniteSet({})
    BY SumEmpty, FS_EmptySet
  <2> QED
    BY <1>2, <2>1, <2>2 DEF AccountsAgree, RejectedAreBarren
<1>4. ExposureFits
  <2>1. \A p \in Strategies : Remaining(p) = 0
    BY DEF Init, Strategies, Remaining
  <2>2. SumFunctionOnSet(Left(quantity, traded), {}) = 0
    BY SumEmpty
  <2> QED
    BY <1>2, <2>1, <2>2 DEF ExposureFits
<1> QED
  BY <1>1, <1>3, <1>4 DEF StrategyInv

\* A strategy's parent order has traded exactly what its children have, however
\* routing, fills, cancellations and rejections interleave: a child is never larger
\* than what its parent has left beside its live children, so no roll-up is refused,
\* and no parent leaves the store while a child can still be filled
\* (ExecutionEventConsumer.available, ExecutionCommandHandler's roll-up).  A Bloom
\* filter that answers "maybe seen" for a new roll-up reference would cut one short.
THEOREM StrategyAccountsAreExact ==
    ASSUME NoRollupCollision
    PROVE  StrategySpec => []RollupIsExact
<1>1. IInv /\ StrategyInv /\ [StrategyNext]_vars => StrategyInv'
  BY StrategyStep
<1>2. IInv /\ [StrategyNext]_vars => IInv'
  BY IInvStep, StrategyIsBook
<1>3. StrategyInv => RollupIsExact
  BY DEF StrategyInv, AccountsAgree, RollupIsExact
<1>4. StrategySpec => Init /\ [][StrategyNext]_vars
  BY DEF StrategySpec
<1> QED
  BY <1>1, <1>2, <1>3, <1>4, IInvInit, StrategyInit, PTL

=============================================================================

# Verification of Emporia

Emporia is a trading platform. Clients send orders to an order-management
service (OMS), which keeps them in memory, writes them behind to PostgreSQL,
routes them through an outbox to venues or to execution strategies, and books the
fills that come back; a web application shows and administers all of it, and a load
generator measures it. This directory holds TLA+ models of it, translated from the
source, the TLC runs that check them on small instances, and proofs checked by
TLAPS.

    tlasany M.tla                                     parse a module
    tlc -config MCOrderTree_chain.cfg MCOrderTree     one run
    tlapm OrderTreeProofs.tla                         the proofs of one module

`PROJECT.json` lists the components, the runs, for every property a wrong
variant of the code that breaks it, the source lines each definition stands for,
the hazards, the findings and the theorems.

## 1. Inventory

### 1.1 The system's parts

| Part | State it keeps | Operations | Modelled by |
|---|---|---|---|
| Order book (`TradingOrder`, `OrderCommandHandler`, `ExecutionCommandHandler`, `OrderStateCache`) | live orders, their tree, execution references, processed commands | create, modify, cancel with cascade, cancel-all; acknowledge, fill with roll-up, venue cancel, reject | `OrderTree` |
| Strategies (`ExecutionEventConsumer`) | a timer per strategy, retry counts | start, tick, publish child, give up, recover | `OrderAccounts` in part |
| Write-ahead log (`MemoryMappedWalLogger`) | records, safe point | append, mark, compact | `WriteAheadLog` |
| Write-behind writer (`AsyncDbWriter`) | six queues, first-write markers | enqueue, flush, salvage, reclaim | `AsyncDbWriter` |
| Ring consumer, replay, warm-up (`DisruptorOrderPipeline`, `OrderCommandReplayHarness`, `DedupIndexLoader`, `LiveOrderStoreWarmup`) | the command under way, kill switch, readiness | log, handle, mark, answer; load, replay | `HotPathDurability` in part |
| Deduplication index (`RotatingDedupIndex`, `RotationSchedule`, `DedupIndexRotation`) | Bloom filters by generation, the start-up history | remember, rotate, publish history | `DedupWindow` |
| Outbox and shards (`DurableOrderOutputDispatcher`, `ShardedOrderDispatcher`, `ExecutionCommandHandler.enqueueOutbox`) | rows with leases, bounded shard queues | poll and claim, dispatch, report, process, record, expire, delete | `OutboxDelivery`, over `OrderedDelivery` |
| Order event stream (`OrderStreamService`, `OrderQueryController`) | subscriptions | read the projection, register, publish, drop, publish late or again | `OrderStream` |
| Trading workspace (`TradingWorkspacePage`, `trading/api.ts`) | rows, ticket, review, connection | load, stream, reconnect, refresh, submit, modify, cancel, cancel-all | `TradingWorkspace`, over `OrderStream` |
| Session (`AuthContext`, `oidc`, `AuthCallbackPage`, `LoginPage`) | user in memory and in storage, redirect under way, CSRF token | restore, sign in, sign out, callbacks, expiry | `AuthSession` |
| Administration console (`Admin*Page`, `admin/*-api.ts`) | filter, rows, selection, form, write under way | load, filter, page, select, edit, save, import | `AdminConsole`, over `AuthSession` and `AuditPages` |
| Load generator (`scripts/perf/order-load.js`) | open orders, their tree, keys, guard | set up, submit, cancel, cancel-all, account for answers | `OrderLoad` |
| Venue gateways (exchange-core, FIX, routing) | order life cycles, sequence numbers, checkpoint | submit, modify, cancel, recover, promote, demote | planned |
| High availability (`emporia-ha-core`) | role, epoch, lease | renew, promote, demote; token bucket, buffer pool | planned |
| Journal (`emporia-journal`) | frames, checkpoints | append, replay, checkpoint, truncate | planned |
| Market data, portfolio, FIX simulator | conflated quotes, receipts, limit order book | publish and subscribe, apply receipt, match | planned |
| Gateway, authentication, static data, preferences, home page, deployment | rows, configuration | request filters and record keeping | no |

### 1.2 How they interact

A command enters the ring; **one writer thread** logs it, decides it from memory
alone (the deduplication index says whether it is new), appends the resulting rows
to the writer's queues, advances the log's safe point and answers the client. A
**scheduled flush thread** drains the queues into one transaction, then reclaims
the log up to the safe point. A **rotation thread** replaces the filters of the index
at each session start. An **outbox poller** claims committed outbox rows and hands
them, sharded by order id, to the venue gateway, to a strategy runtime and to the
event stream. Venues and runtimes send **execution commands** back through the same
ring; these are not logged. Their events have no outbox row: the writer thread hands
them to the same shards at once, before their rows are committed, and never asks what
became of them. A crash loses memory and queues, and keeps the log file
and the database; the next start loads the live orders and the ids of the database
and replays the log.

The **workspace** of a user fills its rows from four sources that nothing orders:
the initial load and Refresh (from the database, which trails memory), the stream
(from the outbox, and from the reports of the venue, which may be ahead of the
database), and the answers to the user's own commands (from memory). The
**administration pages** exist only inside the session, and each overlaps loads and
one write as far as its buttons allow. The **load generator** keeps its own picture of
what is open, which the service changes behind its back.

### 1.3 What is hard, and what makes each part correct

* Book: orders form trees; fills roll up, cancellations cascade down, venue reports
  come late, twice or never. Correct: sums agree, a cascade is complete, what has
  finished stays finished, nothing is counted twice.
* Durability: the writer thread and the flush thread share queues with no lock; the
  database trails memory, and memory is rebuilt from it; results are kept for a time.
  Correct: a command sent again gets its first answer or a refusal, what was answered is
  written, a restart repeats nothing and loses nothing.
* Index: bits are written after the filters were read, filters rotate meanwhile, and
  the window must hold for uneven sessions and across a restart.
* Outbox and shards: leases run out, shards reject, updates are lost, the process dies, and
  a second producer puts reports into the same shards. Correct: of one order the events
  that have a row are handled in order, all of them, at least once; its reports in order
  and once, or not at all. Between the two the code keeps no order (3.2).
* Workspace, console: calls and answers interleave, answers are stale, the stream drops.
  Correct: rows recover, the form belongs to the row selected, an answer to an old
  question does not replace that to a new one, a page needs its session.
* Load generator: it must not cause the refusals it reports.

The `hazards` of `PROJECT.json` place each of these at its line, with the
properties that would notice it going wrong, or with the planned module.

## 2. The modules

### 2.1 `OrderTree` - the book

One writer thread applies commands one by one, so one handler is one step.

| In the module | In the code |
|---|---|
| `status`, `target`, `quantity`, `traded`, `version`, `parent` | the fields of `TradingOrder` |
| `above` | the ancestors the `parentOrderId` walks can meet (the closure of `parent`) |
| `store` | the live orders of `OrderStateCache` |
| `references`, `executions` | execution-reference keys remembered, and the execution rows handed to the writer |
| `acknowledged` | the fills whose handler call returned normally, so that the venue does not repeat them |
| `refusedAcks` | pending strategies whose cancel acknowledgement was refused (live children) |
| `view` | what a client last loaded of an order; its version is sent as `expectedVersion` |
| `Create`, `Modify`, `Cancel`, `CancelAll` | `OrderCommandHandler` |
| `Load` | a client's read of an order before it modifies it |
| `ApplyFill`, `IgnoreFill`, `Reject`, `ConfirmCancel`, `RefuseAck` | `ExecutionCommandHandler` |

`ApplyFill` is the whole of `applyFill`: the child is credited and recorded, then
each ancestor in turn until one is missing, finished, already credited under the
derived reference, or has no room. "Possibly seen" is `Seen` or a key in
`Collides`: the constant names the keys the Bloom filter answers falsely.
Remaining quantity is `quantity - traded`. Prices and averages are left out.

### 2.2 `OrderAccounts` - the money of the tree

It extends `OrderTree` with sums over executions and over children, and with two
narrower next-state relations. `StrategySpec` is a strategy that allocates, from an
exact view, at most its remaining quantity minus the exposure of its children
(`available`, `exposed`), as `publishChild` does; `NestedSpec` adds a strategy
under a strategy, which a client may create.

### 2.3 `WriteAheadLog`, `AsyncDbWriter`, `HotPathDurability`

`AsyncDbWriter` extends `WriteAheadLog`, and `HotPathDurability` extends both.
Each step is one atomic access of the code: one queue append, one
queue drained, one transaction, one queue looked at, one compaction. The tables
are an order's traded quantity, the result of a command, the set of execution
references and the number of outbox rows of an order. The foreign keys of
`order_event` and `execution` are those of the schema. `dropped` and `absorbed`
stand for the code's own counters of rejected rows and duplicates.

A command is `[command, order]`: a client's retry carries the same command id and
a **new** order id (`OrderCommandController.create`), a strategy's child the same
one each time (`publishChild`); the constant `OrderNamed` says which.

`Evict` is the bound of `OrderStateCache.processed` (50,000 results, 24 hours each): a
result is forgotten at any time, its command id stays in the index, and sending the
command again is then answered 503.

A crash keeps the log and the tables, and is followed at once by the load of the
database (only this process writes it); replay then runs record by record through
the same handler, and the flush starts after it, as the life-cycle phases of the
beans order it.

### 2.4 `DedupWindow` - how long an identifier is known

`HotPathDurability` takes the index as a set that forgets nothing; this module
is about what it forgets. A filter is named by the number of rotations before it
became live; `content` says which identifiers are written where; `remembering` is
the identifier whose bits the writer thread is about to write, with the filter it
took, so that `Rotate` may come in between. `Publish` is the load of the horizon and
of the working trees, `Restart` loses the filters. `MinimumCoverage` and
`NextBoundaryAfter` are the calendar of `RotationSchedule.Daily`. A rotation that is
due is not late; a late one would keep filters longer. The window before the first
rotation is armed (`ApplicationReadyEvent`) is merged into `Publish`.

### 2.5 `OutboxDelivery` implements `OrderedDelivery`

Two producers share the shards. The events of commands have a row; those of the
venue's reports (fills, rejections, cancellations and what is rolled up from them) do
not. `OrderedDelivery` is what can be promised of both: the events with a row are
handled in the order they were written, the last one perhaps again, and confirmed in
that order after they were handled; of the reports of an order some are lost and the
others are handled once and in order; and nothing is promised between the two but
that a report follows the first event, the one that made the order known to the venue.

`OutboxDelivery` is the code: `Poll` claims the earliest open row of each order under a
lease of a minute, and hands nothing over if the query for its metrics fails;
`Dispatch` hands an event to the bounded queue of its shard, or takes it as failed when
the queue is full; `Report` is the direct hand-over of the writer thread, lost when the
queue is full; `Process` handles an event or report, or fails; `Record` marks the row
delivered or open again, `RecordLost` loses that update; `Expire` is a lease that runs
out, early (a counted fault) or because nobody works on the event any more; `Crash`
keeps the rows only; `DeleteDelivered` is the retention. `Delivery == INSTANCE
OrderedDelivery WITH ...` maps the rows written, the events handled, the number of rows
done, and the reports raised and told.

### 2.6 `OrderStream`, `TradingWorkspace`

An order's content is its version. `mem` is memory, `db` the database. A `Command` owes
its event to the outbox, which publishes it after the commit and in the order of the
rows (`TakeRow`), and perhaps once more until it is `Delivered` (`PublishAgain`); a
`VenueReport` has its event published whether its rows are committed or not
(`TakeReport`). The two kinds overtake each other, so a late or repeated event of the
outbox may set a row back. `DropEvent` is a full queue, of the stream or, for a report,
of its shard. `TradingWorkspace` extends it with the page: `rows` (per order, the
versions of its rows: an order may be shown twice), `ticket` (`orderToModify`), the
review and its submission, and the calls in progress, each with a step at the service
and a step for its answer, either of which may fail.

### 2.7 `AuthSession`, `AuditPages`, `AdminConsole`

`AuthSession` has what `AuthProvider` holds in memory, what the OIDC client keeps in
storage, and the document the browser is in; leaving a document loses its memory.
`AuditPages` is pure: the page that `audit-api.ts` cuts out of the events it asked each
service for. `AdminConsole` extends both: the five pages are one pattern (load with
the submitted filter, selection, form, write), with each page's own guards. Only one
page is mounted; unmounting drops the loads it had asked for, and not its write. A write
under way goes on unheard, and so do the request that follows it in the same function
(the password of a user, the reload after an import) as long as the document lives.
`WriteOver` ends a write whose request or whose answer was lost: the service may have
committed it or not, and the page says it failed. `AuditPages` is about the source "all";
with the source of one service its page is passed on as it is, and left out.

### 2.8 `OrderLoad`

One virtual user's iteration in steps: choose what to send by the rates that are not
zero, send, have it handled by the service, receive the answer, account for it. The
service is as much of the order API as the bookkeeping depends on (a create under a
live parent, a cancel with its cascade, answers recorded under a key). Orders end and
tokens expire at any time. The options are those that `setup` lets pass: it refuses
cancel-all beside children and a token whose readable expiry lies within a readable
duration, and besides only a missing token and shares out of range; `DUPLICATE_RATE` may stand beside `CANCEL_SHARE` and
`CHILD_SHARE`. `resent` records the keys sent again. A 201 whose body cannot be read is
counted and not tracked.

## 3. The runs

Deadlock is not checked: in each model every order may be finished and every
bounded input used up, and the system then rightly rests.

### 3.1 Passing

| Run | Instance | Shows |
|---|---|---|
| `chain` | 3 orders in a chain of up to 3 levels, one of them edited by clients, quantity up to 2, 2 references, one colliding roll-up key, versions to 4 | every invariant and action property of the book, under all interleavings |
| `strategy` | a strategy, 2 children, fair venue and runtime | roll-up is exact, cancellation resolves |
| `recovery` | a command sent up to 3 times under 2 order ids, its fill, log of 2 records, batches of 2, evicted results, 1 crash, 1 outage, index load may fail | no duplicate row, the command under way is logged, memory agrees with rows, no row is set back, replay handles every record, one answer until a crash; and without crash and outage: everything answered is written, the log is reclaimed |
| `window` | 2 identifiers, 12 moments of days of 4 with sessions at 1 and 2, three retained, any restarts | what a process accepted it knows for the horizon |
| `outbox` | 2 orders of 2 events with a row and 1 report each, on one shard with a queue of 1, 1 fault | implements `OrderedDelivery`; no event with a row handled twice without a fault; every event with a row delivered |
| `load` | 1 user, 2 tokens, 3 keys, 1 of them sent again, 2 open orders, 1 timeout; duplicates, trees with cancels, cancel-all, duplicates with trees and cancels | the generator sends no child to a wrong desk; unless a key was sent again it cancels no order twice, asks for no child of an order it cancelled, and knows the trees as they are |
| `workspace` | 1 order of 2 versions, 1 call at a time, 2 events on the wire, drops, late and repeated events, reports before their commit | no row or modification is ahead of the service; a reconnection repairs whatever was lost or set back |
| `admin` | 2 items, 2 filters, 2 services with 3 events of which the first is of the first service, 2 loads at a time, 1 write whose answer may be lost | form and selection, filter and answer, page and session stay together |

**Why the bounds are enough.** Three orders give a grandparent, a parent and a
child, or a parent and two children: the cascade and the roll-up only ever look
one level up or down at a time, and both are transitive over three levels.
Quantity 2 has a partial and a full fill. Two references give a fill, another
fill and a redelivery of either. A batch of 2 splits the four rows of a CREATE
over two transactions; three attempts are a first, a retry under another order id and
one after the eviction of the result, and overfill the log of two; rows of different
commands meet in a batch as those of the fill and of the command do. One crash and one
outage meet in one behaviour. In `window`, three retained of two uneven
sessions make the horizon depend on where in the day one starts, and three days pass.
In `outbox`, one shard with one place has both orders, and their reports, block one
another, two events can overtake, and each kind of fault occurs; that faults combine is
covered by the proofs. In `load`, two open orders evict, and one replay (`MaxResent`) is
enough to bring back an order that was forgotten. In `workspace`, one order is
enough for every source to overwrite the other, since rows of different orders meet
only in cancel-all and refresh, which treat each alike. In `admin`, two loads are
answered in either order, and one page per service is one event beyond what it was
asked for; the two services are treated alike, so which wrote the newest event is fixed.

**Fairness.** `WF(WriterStep)`: the ring's consumer thread runs while it has an
event. `WF(Flush)`: the flush is a Spring `@Scheduled` task of fixed delay, and
catches its exceptions. A venue answers each cancel request on a live DMA order, and
the runtime of a pending strategy acknowledges (`handleCancelRequested`), once. In the
outbox: poll and shard threads run, and an event that is tried again and again is
handled some time (strongly fair): a venue that fails for good blocks its order, as in
the code. A lease that nobody works under runs out. In the workspace: answers arrive
or fail, the page reconnects (its timer), the stream's threads run; that it stays
connected long enough is a premise of the property itself. Arrivals, fills,
evictions, crashes, outages, clicks and expiries are never fair. The temporal properties
of `recovery` speak of the behaviours without a crash or an outage (`Steady`), because
with either the code does not promise them. Leases that keep running out before their
event is handled could go on for ever; each early expiry is therefore one of the bounded faults.

### 3.2 Violations: where the code departs from what is written of it

Each run has one property, that a document or a comment states; TLC's trace is
the shortest departure.

| Run | Statement | What happens |
|---|---|---|
| `twice` | a retry cannot create a duplicate order | reclaim race, crash, retry under a new order id: two orders |
| `horizon` | an identifier stays known for at least the horizon | a process that starts within a session releases what it loaded after two rotations, less than the horizon later: a key is taken for new |
| `latefill` | a fill in flight when the cancellation is confirmed is recorded: the order stays cancelled with corrected accounting, or is filled (docs/execution/README.md:358-361) | the confirmed order has left the live store, which alone is consulted: the fill is dropped, and with it its execution |
| `overtaken` | every event of an order is processed strictly in order on the same shard (docs/execution/README.md:327-332) | a report is handled before an event that had its row when the report was raised |

On `latefill`: `TerminalIsFinal`, which `chain` checks and `FinishedStaysFinished`
proves, is the other side of it: it holds because the late fill is lost, and the code
has a branch (`CANCELLED_FILL`) that no report reaches.

On `overtaken`: the events of fills, rejections, cancellations and roll-ups go straight
to the shards. Nothing is promised of them but what `DeliversInOrder` says: once and in
their own order, or lost. That one is lost for good when its shard is full or the
process dies is shown by the configuration `untold`.

On `horizon`: with the defaults (sessions at 06:00 and 12:30, two retained, 24 hours),
a process started on Monday at 09:00 forgets on Tuesday at 06:00 a key of Monday
08:00. It does not happen to what the process accepted itself (`window`), nor when it
starts at a boundary. One rotation more before the release would close it.

Further configurations, kept beside the runs and started the same way:

| Configuration | Property | What it shows |
|---|---|---|
| `MCOrderTree_rollup` | `RollupIsExact` | a client's child larger than its parent's room is filled; the parent is not credited |
| `MCOrderTree_stuck` | `PendingStrategyCanFinish` | the last child of an inner strategy fills; the outer one stays pending |
| `MCHotPath_refused` | `NoRowIsRefused` | the event of a CREATE is drained without its order, and refused |
| `MCHotPath_recovered` | `RecoveredFromLog` | the result row alone was written: the order is lost |
| `MCOutboxDelivery_untold` | `EveryReportIsTold` | ExecutionCommandHandler.java:101-106: each event of a report "needs to survive a crash"; a full shard loses it, without any fault |
| `MCTradingWorkspace_resubmit` | `OneOrderPerIntent` | trading/api.ts:18-26: a retry carries the same key; a submit whose answer was lost, made again from the review still open, has a fresh one: two orders |
| `MCOrderLoad_replayed` | `NeverCancelsAgain` | with `DUPLICATE_RATE` and `CANCEL_SHARE`, the answer to a replayed key brings back an order that was cancelled and forgotten (order-load.js:195-199): it is cancelled again, and the 409 is counted as a race |
| `MCTradingWorkspace_catchup` | `StreamCatchesUp` | a change between the read of the projection and the registration is not sent on that connection |
| `MCDedupWindow_working` | `WorkingKnown` | the "second guard that does not expire" of RotatingDedupIndex.java:53 is released with the history: an order that still works, loaded at the start, is forgotten |

Preconditions stated where they matter. `RollupIsExact` holds in `strategy`
with no false positive of the index: if the derived reference of a roll-up is
falsely known (`Collides`), the child stays credited, the ancestor is not, and a
redelivery is ignored; `chain` runs with such a collision and shows what still
holds. `ReplayHandlesEveryRecord` speaks of a start whose index was loaded: when
the load failed, the handler answers each record 503, which the replay takes for
handled, and the safe point passes it. `PageOfTheWholeLog` speaks of pages within what each
service was asked for (200 events). `OriginalAnswer` counts results: 507 of a full log
and 503, which a command gets whose result was evicted, are refusals.
`NoSelfMadeRefusal`, `CancelsEachOrderOnce` and `LinksMatchTree` speak of the keys that
were not sent again.

### 3.3 What the models show and no document excludes

The split drain behind `refused` and `recovered`: the execution row of a fill may
commit before the order row it updates, and is then a known reference after a crash;
an outbox row may commit without its order, and the replay writes a second one; the
markers of first writes are cleared in a transaction that may still roll back.

In the workspace: an answer to a modification of one order clears the ticket of another
that was chosen meanwhile; a refresh, read from a database behind memory, overwrites
newer rows or hides one just created, until the next connection; an event of the outbox
published late, or again, sets back a row that a report had brought further, and
nothing repairs it but another connection (which is why `ReconnectRepairs` asks for
a quiet stream again and again); a create answered
after the stream brought its row shows it twice.

In the load generator: what is said under `MCOrderLoad_replayed`; and a replayed key may
name another parent than the recorded order has, so that a user enters it under the
wrong one.

In the console: requests leave without a session: the password of a user and the reload
after an import are still sent when the session has ended or the page is gone, with the
token it had. A load answered after a save shows the old revision again, and the next
save, which sends no version, writes it back; an answer to a load or a toggle wipes
what was typed; the answer to a save moves the selection back; a load asked for before
"New user" selects a row again; a password that fails after its account was updated
leaves half; an audit service that fails is left out of the page silently.

## 4. The proofs

Every invariant and every action property that a passing run checks is a theorem; so
is the refinement. All hold for every value of the constants, under the named
assumptions of the modules only, but for the hypothesis stated in a table; conditions
that a property itself has (no crash, no fault, a key not sent again) are in its
definition, and named where it is listed.

Some assumptions keep kinds of values apart that differ in the code by their types, and
TLC evaluates them all: `None` is no call, command or fill (`NoCallAssumption`,
`KindsAssumption`), the ids of commands, orders and fills are disjoint
(`WriterAssumption`), a log is a sequence of sources (`ConsoleAssumption`), and session
starts are at least one, sorted and distinct, as the constructor of
`RotationSchedule.Daily` makes them (`CalendarAssumption`).

**Induction over data.** The library's induction theorems take an operator, which the
provers here cannot instantiate. `InductionFacts` states them about sets instead: a
set of naturals that is not empty has a least element (`LeastNumber`, from the
well-foundedness of inclusion), so a set that has 0 and with each number the next has
all (`SetInduction`). From it follow that the recursive function behind a sum exists
and is unique, and what a sum is when an element comes, goes or changes (`SumsExists`,
`SumsAgree`, `SumSame`, `SumNat`, `SumOf`): the sums of `OrderAccounts` and the
coverage of `DedupWindow` rest on these.

### 4.1 `OrderTreeProofs`

For any orders, desks, parents, references, quantities and any false positives of the
index. The book:

| Theorem | States |
|---|---|
| `TypeCorrect` | type correctness |
| `BookIsSound` | the inductive invariant `IInv` |
| `NeverRefused` | `TradingOrder.validateInvariants` never throws in a handler |
| `StoreIsExact` | the live store holds the live orders, no others |
| `CancelledAfterChildren` | a cancelled strategy has no live child |
| `CascadeIsComplete` | a live child of a pending strategy is pending |
| `FinishedStaysFinished` | no step changes a finished order, a late fill neither (3.2, `latefill`) |
| `NothingCountedTwice` | no reference is credited twice to an order |
| `OneDeskAtATime` | a command revises orders of one desk only |
| `NoStaleModification` | a modification meets the order exactly as its client loaded it |

None of these is inductive alone. `CancelledAfterChildren` fails to be kept by
`ApplyFill` and `ConfirmCancel` unless a child's parent was created before it and in
the same desk (`TreeShape`), since the walk up the ancestors must meet each once, and
unless the store is exact, since `liveChildren` reads the store and the claim is about
orders. `CascadeIsComplete` needs that a parent of a new child is not pending, which
`Create` checks, and that completion goes up the tree from the bottom
(`CompletedClosed`). `NothingCountedTwice` needs that the rows written are remembered
(`ExecutionsAreRemembered`). `IInv` is the conjunction. The step lemma is split by
the parts of `IInv`, and each part by actions.

`OneDeskAtATime` follows from `TreeShape` (what a fill or a completion reaches is above
the order, what a cascade reaches is below it, and trees are of one desk).
`NoStaleModification` needs the invariant `ViewIsPast`: a loaded state is no newer
than the order, and with the same version it *is* the order; every step that changes an
order raises its version (`ChangeIsStamped`), also the steps that stamp it twice.

The accounts, in the second half:

| Theorem | States | Hypothesis |
|---|---|---|
| `AccountsBalance` | `TradedMatchesExecutions`: what an order has traded is the sum of its executions | |
| `StrategyAccountsAreExact` | `RollupIsExact`: what a strategy has traded is the sum over its children | `NoRollupCollision` |

`AccountsBalance` holds of the whole book: each step leaves an order's executions alone
or adds one that was not there (`AccountStep`), which is where the derived roll-up
references, and `references`, are needed. `StrategyAccountsAreExact` is about
`StrategySpec`. Its invariant `StrategyInv` has beside the sums that trees are one
level deep, a rejected strategy has no child, what live children may still trade fits
into what the parent may (`ExposureFits`: a roll-up is then never cut short), and a
roll-up reference is known only with its fill (`RollupsFollowFills`: then it is new
when the fill is). `NoRollupCollision` is needed: a false positive on a roll-up
reference makes the handler skip the parent, as 3.2 says.

### 4.2 `HotPathProofs`

For any commands, orders and fills, any size of the log and of a batch, any number of
attempts, crashes and outages:

| Theorem | States |
|---|---|
| `CommandUnderWayIsLogged` | the command under way is the last record of the log, beyond the safe point |
| `HotPathTypeCorrect` | type correctness |
| `NothingReachesTheDatabaseTwice` | a row that is the first of its key meets none in the database |
| `BookMatchesItsRows` | a live order agrees with the last row queued or written of it, unless salvage gave one up |
| `WrittenQuantityOnlyRises` | no step lowers the traded quantity in the table |
| `OneAnswerUntilACrash` | until a crash, a command is told one result, whatever is evicted; all else it is told are refusals, 507 and 503 (the `twice` run shows what a crash does) |
| `ReplayLeavesNothingOut` | a replay over a loaded index handles every record |

They are built up: `LogInv` (the log and its safe point; compaction keeps what is beyond
it, `CompactKeepsLast`), `TypeInv`, `Phases` (which batch buffers are empty where the
flush is). The idea that makes the rest short is the *line* of a table,
`Line(t) == batch[t] \o queue[t]`: draining does not change it, a commit or a salvage
takes rows from its front, the writer thread adds at its end. So a step is `Quiet`,
`Handed`, `Flushed` or one of the writer thread's decisions, and the flush is looked at
once. `RowInv` says what is on the lines is known to the index (`Known`) and unique in
its table (`Unique`); `OrderInv` that a first row finds no order (`FirstOnly`), that
quantities only rise along the line, from the table to memory (`Rising`), and that memory
is at the end of it (`Reaching`). `AnswerInv` says that while nothing has crashed what is
told, cached or about to be told of a command is one result (`Only`), and that a command
the index does not have was told refusals only (`Refused`): an evicted result leaves its
id in the index; `ReplayInv` that what a replay knows
has a result or a row.

### 4.3 `DedupProofs`

For any identifiers, calendar and number of sessions retained:

| Theorem | States |
|---|---|
| `KnownThroughRotations` | an identifier is known while the filter it was accepted in is live or retained |
| `KnownForTheHorizonByItsOwn` | what a process accepted it knows for the horizon |

The first needs `WindowInv`: the retained filters are the last ones before the live one
without a gap (`Chain`, kept by `RotateKeepsChain`), the writer thread writes where it
accepted (`HandOver`), and what it has written is there (`Written`). The second says what
that is worth in hours. Session boundaries are numbered (`Boundary`), and
`NextBoundaryAfter` goes from each to the next. `CalendarInv` says that the rotation
armed is at a boundary, and that an identifier was accepted at least as many boundaries
earlier as there were rotations since (fewer, if some failed). `MinimumCoverage` is a
fold over the gaps of a day: it telescopes to a difference of boundaries (`CoveredSpan`)
and is the least of them over the day (`HorizonIsCovered`).

### 4.4 `OutboxProofs`

For any orders, shards, capacities, numbers of events and faults:

| Theorem | States |
|---|---|
| `OutboxTypeCorrect` | type correctness |
| `OutboxInOrder` | the inductive invariant `OrderInv` of the events with a row |
| `OutboxDelivers` | `DeliversInOrder`: `OutboxDelivery` implements `OrderedDelivery`, for the events with a row and for the reports; nothing is said of a report against the rows |
| `OutboxOnce` | `HandledOnceWithoutFaults`: without a fault no event with a row is handled twice |

The refinement is not a matter of single steps: `Process` handles whatever copy its
queue has, `Record` closes whatever row its outcome names. It holds because every copy
on its way is of the first open row of its order or of one already done
(`QueuedInOrder`, `ClaimedBehind`), an outcome that is good was handled
(`OutcomeHandled`), what is done is a prefix (`DonePrefix`), and the last event handled
is the last one done or the next (`HandledNext`). For the reports it has `ReportInv`:
those in a shard stand in the order they were raised, after the last one told.

`OutboxOnce` has the invariant `OnceInv`: without a fault an event has one copy
(`OneCopy`), keeps its lease while that is under way (`LeaseHeld`), was not handled
while it waits (`NotYetHandled`), and if it is ahead of what is marked, its success is
about to be recorded (`AheadIsReported`). A full shard and a failing venue are not
faults: retries after them repeat nothing.

### 4.5 `TradingWorkspaceProofs`

For any orders, versions, calls, wire, and intents:

| Theorem | States |
|---|---|
| `WorkspaceTypeCorrect` | type correctness of the page and of the stream under it |
| `RowsTrailTheService` | `NothingAhead`: no row shown, and no modification prepared, is of a version its order does not have |
| `OneSubmitAtATime` | the submit button is blocked exactly while one submit is awaited, and never are two |

The first two follow from `PageInv`: what the database, the snapshot, the events owed
and the wire have was in memory (`StreamInv`; what is published need not have been
committed), and so has what answers hold, rows show and the ticket names (`GoodCalls`,
`Shows`, `GoodTicket`). The last one is inductive together with it; it is why
`resubmit` needs a lost answer, and not a double click. No run checks it.

### 4.6 `OrderLoadProofs`

For any users, tokens, keys, tracked orders and timeouts:

| Theorem | States |
|---|---|
| `TypeCorrect` | type correctness, with the two bounded lists |
| `FreshCorrect` | the inductive invariant of the keys that were not sent again |
| `LinksMatchTheTree` | a child a user has entered was accepted, and is one of its parent at the service unless its key was sent again |
| `NoSecondCancel` | no user holds an order twice, nor one it has cancelled unless its key was sent again |
| `NoSelfMadeRefusals` | no child goes to another desk than its parent's; and while no key was sent again, none below an order whose cancellation has begun |

`setup` does not ensure that no key is sent again where there are children or cancels,
and `MCOrderLoad_replayed` shows what then happens: the conditions are needed.

`FreshKeys` relates, for the keys outside `resent`, the users' picture to the service's
records: keys are drawn once, parents are older than their children, what is tracked
stands. It gives the two theorems that follow. The last one is about the future: the
parent of a submit on its way must still be open when it arrives, and another user of the
desk may cancel meanwhile. `SafeInv` says that there is a set of orders, with what the
user will still track and the parents above it, that no cancel on its way or still to
come can reach (`Untouched`); each step shows such a set for the state after it.
`SetupHeld` is what the generator's own refusal to run with certain options guarantees.

### 4.7 `AdminProofs`

For any items, filters, services, logs and numbers of loads:

| Theorem | States |
|---|---|
| `SessionRestores` | `SessionIsStored`: memory and storage agree on who is signed in |
| `AdministratorsOnly` | `PagesNeedAdministrator`: no page is open without an administrator's session (requests may still leave: 3.3) |
| `FormFollowsSelection` | `FormMatchesSelection`: the form is the selected row's, in the revision shown |
| `AppliedIsShown` | `ShownIsApplied`: once loads are over, the rows answer the filter last submitted |
| `ConsoleTypeCorrect` | type correctness |
| `AuditPageIsWhole` | `PageOfTheWholeLog`: the page cut from each service's first events is that of the whole log |

`FormFollowsSelection` needs `FormInv`, which speaks of the write under way and of the
pages that have no form too; `AppliedIsShown` needs `ShownInv`: the audit and the
execution page never have two loads in progress, and one in progress was asked for
with the filter applied. The last two share `ConsoleInv`: a load on its way shows nothing
the services do not have (`Truthful`), a write that succeeded, heard of or not, is of an item and a revision it has had
(`Confirmed`), rows are never ahead. `CombinedIsWhole` is about
`AuditPages` alone: an event among the newest of all services is among the newest of its
own, so what the broad requests cut off lies beyond the page.

### 4.8 Only model-checked

The temporal properties under fairness, which this prover does not reach:
`CancelIsResolved`, `EverythingIsWritten`, `LogIsReclaimed`, `FillsAreWritten`,
`EventuallyDelivered`, `ReconnectRepairs`. And the violations of 3.2, each of
which is a trace. That the constants of a run satisfy the assumptions is checked by TLC.

## 5. What is not modelled

Prices, averages, fees, codecs, metrics, layout, wording and views: no property here
depends on them. The matching engine, PostgreSQL, Aeron, QuickFIX, k6 and React are
libraries: the models assume of them what the code uses (a transaction is atomic,
a foreign key is checked per statement, rows are read as committed, a callback runs to
its end). Torn writes of the log file are left out; a crash here is the death of the
process, after which a memory-mapped file holds all that was written to it.

One process polls the outbox and accepts orders; two at a time belong to the planned
`Leadership`. What a failed processing leaves behind at a venue is not modelled. The
fixed-interval rotation schedule serves a test script. In the workspace, quotes,
watchlist, the history dialog and the saved layout; in the console, facets and counts,
and a listing saved while an import runs. Home page and entry point only present; the
smoke test and the deployment files are linear scripts and configuration. Gateway,
authentication, static data and preferences are request filters and one database
transaction per request, with no protocol of their own; the write skew of
`AdminUserService.ensureAdminRemains` (a count, then a write) is theirs.

## 6. Plan

What is left, by what can go wrong most expensively.

1. `StrategyRuntime` over `OrderTree`: timers, trailing view, give-up, recovery;
   composes with `OutboxDelivery` (a redelivered CREATED event).
2. `RingAdmission` and `Leadership`: capacity, kill switch, blocking execution
   submissions, promotion and demotion between check and publication; lease and epoch.
3. `VenueGateway`: promotion recovery, the modify and fill race, bounded maps.
4. `LogBytes` and `Journal`: record framing, torn tails, checkpoint and truncation;
   `LogBytes` implements `WriteAheadLog` (refinement).
5. `FixSession`, `PortfolioReceipts`, `ConflatedQuotes`, `SimulatorBook`,
   `TokenBucket`, `BufferPool`.
6. Pure functions: `FixedPoint`, `VwapSlices`, `VenueSelection`, risk limits.

Theorems to come: with each of these modules its type invariant and its safety
invariants, and the step refinement of `WriteAheadLog` by `LogBytes`.

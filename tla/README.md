# TLA+ models of the layer service

The service stands between Business Central (BC) and an e-com shop. It consumes
product and stock messages from Kafka, keeps the stock of every variant in every
warehouse, asks e-com over HTTP how much is reserved, and publishes the number e-com
may sell per variant and region. A visualizer shows managers what it does, against a
stand-in for e-com. This directory holds TLA+ models of the system, the instances TLC
checks and the proofs TLAPS checks. Paths below are relative to the
repository.

## 1. Inventory

### Components, state, operations

| Component | State it keeps | Operations | Module |
| --- | --- | --- | --- |
| BC ingest (`src/modules/bc-events`) | inbox `BcEvent` (PENDING, PROCESSED, FAILED), unique by topic, partition, offset | `ingest`: record, validate, apply in a transaction, park, recalculate | `BcIngest`, `Service` |
| BC stock mapping (`bc-events.service.ts`) | none | `toStockCommand`, `buildLine` | `BcStockMapping` |
| Stock application (`stock.apply-stock`, `stock.shop-resolver`, repositories) | `ShopStock`, `Shop` | set, adjust and clamp a quantity, resolve or create a shop, enqueue targets | `StockApply`, `StockLedger` |
| Recalculation (`stock.recalculate`, `stock.retry-recalculation`, task repository) | `StockRecalculationTask`, `EcomStock` | `run`, `enqueue`, `recordUnavailableReservations`, `markDone`, `retryPending`, manual request | `StockFormula`, `StockRecalculation` |
| E-com stock and outbox (`src/modules/ecom`) | `EcomStock.publishedQuantity`, `publishedAt`, `EcomStockOutbox`, the `draining` flag | `saveCalculated`, `enqueuePublication`, `publishPending`, `markSent`, `markPublished` | `EcomOutbox` |
| E-com API client (`src/shared/ecom-api`) | none | `getReservedQuantity` with timeout, retries and checks of the body | `EcomApi`, `ReservationPromise` |
| Kafka producer (`src/shared/kafka`) | connection | `publish` | one step of a drain in `EcomOutbox` |
| Kafka topics at boot (`kafka-admin.service.ts`, `main.ts`) | none | `ensureTopics`, `waitForLeaders`, subscribing | `KafkaBoot`, `Service` |
| Catalogue (`stock.apply-catalogue`) | `Product`, `ProductVariant`, `Season` | upserts of a product message, placeholders of a stock message | `CatalogueRows`, `Catalogue`, `CatalogueLedger` |
| Pipeline view (`src/modules/pipeline`) | none, reads all tables | `getTrace`, the list endpoints | `PipelineTrace` (the trace) |
| Health (`src/modules/health`) | none, reads the backlog | `check` | `Stand` |
| BC event simulator (`bc-events.simulator.controller.ts`) | none | the two endpoints of the buttons | `Stand` |
| Visualizer (`visualizer`) | the screen: trace, health, e-com's state, `offline`, the selected variant, `busy` | `refresh`, `act`, the buttons | `Stand` |
| Mock e-com (`tools/mock-ecom.mjs`) | mode, reserved | the reservation endpoint, `PUT /_state` | `EcomApi` |
| Stock reads, configuration, error filter, Swagger | none | reads, wiring | not modelled |

### How they interact

```
BC --Kafka--> ingest --tx 1: inbox row--> tx 2: [ apply stock, enqueue tasks, PROCESSED ]
                 |
                 v  tryRecalculate            retry timer (30 s)      POST recalculate
                 +------------------------------+----+------------------------+
                                                v
          run: read stock and current row | ask e-com (HTTP) | tx 3: [ EcomStock, outbox, task DONE ]
                                                                          |
                                          timer (5 s), publishSoon -> drain: find | send | SENT | publishedAt
                                                                          v
                                                                   Kafka --> e-com
```

Between any two of these steps the process awaits, so calls interleave there, a
statement may fail there, and the process may die there. The screen and the trace read in several requests and statements what these steps change
meanwhile. Nothing but the database
orders two runs of one pair: the sweep's `running` flag only keeps two sweeps apart.

### What is hard, and what makes each part correct

- *Ingest*: redelivery and rebalance against the inbox; a crash between the two
  transactions; a commit whose reply is lost; a group that has committed no offset yet.
  Correct if an effect is applied at most once, the inbox tells what happened, nothing is
  skipped, and every message is decided.
- *Boot*: instances that race to create topics whose leaders are elected later. Correct if
  nobody subscribes before all topics have leaders while attempts are left.
- *Reservation call*: an answer after its timeout, a number read before an attempt failed,
  bodies that look like numbers. Correct if a calculation gets a number e-com held since the
  last failed attempt, or hears that e-com is unavailable after all attempts.
- *Stock application*: two messages on one warehouse, on one unknown warehouse, a
  message that fails half way. Correct if messages take effect one after the other and
  wholly, and if what changed is owed a recalculation.
- *Catalogue*: product and stock messages on one product, missing and null fields, a
  message that throws half way, lock order. Correct if messages take effect one after the
  other and wholly, a placeholder never overwrites a name, and product messages do not
  deadlock with one another.
- *Recalculation*: overlapping runs, outages during a run, failures at any statement,
  attempt counting in two statements, abandoned pairs. Correct if a closed task owes
  nothing, a stale number never raises what e-com may sell, carried-over reservations
  are never guessed, and every task ends.
- *Outbox*: rows created in one order and committed in another, repeated and partial
  sends, newer numbers queued during a send, crashes before the rows are marked. Correct
  if the topic ends at the number the layer believes e-com has, no older number ends up
  behind one that is SENT, and every row is sent.
- *Trace*: put together from several statements without a transaction. Correct if what one
  trace shows is explained by the same trace.
- *Screen*: refreshes that overlap, services that die in the middle of one, buttons that
  rely on what is shown. Correct if it comes to show what the services know.

`PROJECT.json` lists every hazard at its line with the properties that cover it, and
for those nothing covers yet, why.

## 2. Modules

| Module | What it is |
| --- | --- |
| `StockFormula` | `calculate` and `shouldPublish` as operators |
| `StockRecalculation` | the recalculation of every pair by all callers of `run` |
| `StockRecalculationProofs` | the theorems about it |
| `BcIngest` | one partition, its consumers, the inbox |
| `BcIngestProofs` | the theorems about it |
| `BcStockMapping` | a stock message to lines, or its refusal |
| `StockApply` | several stock messages applied at once (extends `BcStockMapping` and `StockFormula`) |
| `StockLedger` | abstract: every message takes effect at one instant; `StockApply` implements it |
| `StockApplyProofs` | the theorems about `StockApply`, the refinement of `StockLedger` among them |
| `CatalogueRows` | product and stock messages to statements, statements to rows |
| `Catalogue` | several of them applied at once (extends `CatalogueRows`) |
| `CatalogueLedger` | abstract: every message takes effect at one instant; `Catalogue` implements it |
| `CatalogueProofs` | the theorems about `Catalogue`, the refinement of `CatalogueLedger` among them |
| `EcomOutbox` | queued rows, drains, the topic |
| `Publication` | abstract: numbers stored, received and acknowledged in one order per pair; `EcomOutbox` implements it |
| `PipelineTrace` | a trace read from the outbox and the inbox while they change (extends `EcomOutbox`) |
| `PipelineTraceProofs` | the theorems about both, the refinement of `Publication` among them |
| `KafkaBoot` | instances starting, topics and their leaders |
| `Service` | composition: instances boot, join the group, ingest, crash (extends `BcIngest` and `KafkaBoot`) |
| `ServiceProofs` | the theorems about both |
| `ReservationPromise` | abstract: what a calculation may rely on when it asks e-com |
| `EcomApi` | the reservation call and the mock it asks; implements `ReservationPromise` |
| `EcomApiProofs` | the theorems about it |
| `Stand` | composition: the screen and its buttons over the layer, which asks through `EcomApi` |
| `StandProofs` | the theorems about it |
| `MC*` | values of the constants for TLC |

Operators whose comment starts with "Defect" are mutants: plausible bugs of the
definition that follows them. `PROJECT.json` names, for every checked property, one
that TLC must find to violate it.

### StockRecalculation

State: `stock[p]` is what `sumForRegion` would return now, `ecom[p]` the `EcomStock`
row, `task[p]` the task row, `todo[r]` the pairs a caller still has to run (targets of
an ingest, tasks of a sweep, regions of a request), `run[r]` the local variables of its
run in progress with a program counter. One action is one statement or transaction or
HTTP answer:

| Action | Code |
| --- | --- |
| `ApplyStock` | the ingest's transaction (`applyStock`): stock changed, targets enqueued |
| `SweepTick`, `RequestRecalculation`, `BeginRun` | `retryPending`, `recalculateVariant` taking up their next pair; a request enqueues it first |
| `ReadShopsTotal`, `ReadCurrent` | the reads of `calculateAndStore`, in any order (`Promise.all`) |
| `AskAnswered`, `AskUnavailable` | `readReservations` |
| `RecordUnavailable`, `Abandon` | the two statements of `recordUnavailableReservations` |
| `Commit` | the transaction that stores, queues and closes |
| `FailRun`, `RecordFailure`, `FailEnqueue`, `Crash` | a statement fails and `run` throws, the sweep's catch block, the process dies |

The safety buffer is read with the stock and constant here. Attempts saturate at
`MaxAttempts`, since the code only asks whether they are below it. `publishedAt`,
`lastError` and times are left out but for the order they give the backlog: `newer[p]` are
the pending pairs whose task was updated after that of `p`, and a sweep takes the least
recently updated (`Oldest`), as `findPending` does.

`outdated` and `tainted` are history, read by no guard, kept of the pairs in `Observed`.
`outdated[r]` is what the run of `r` works from that another caller has replaced since it was
read: the shops' sum, the row, or the budget a manual request restored. `tainted[p]` is what of
that the last run stored, or the one that gave the pair up went by. The code gives its
guarantees only outside these cases, and each property names the one it excepts, which is
narrower than "two runs overlapped": a run that is overtaken *before* its read, or overtakes
another, is not excepted. The exceptions are not a reading of convenience: `recalc_lost`,
`recalc_raise` and `recalc_unconfirmed` show what happens in them, against the documents.
`UnflaggedIsConfirmed` holds without exception.

### BcIngest

State: per message the inbox status and how often its effect was committed; per
consumer where its call of `ingest` is; how much of the partition is written, its owner,
position and committed offset. Kafka's part is external and allows what the handlers must
stand: redelivery from the committed offset, a former owner that is still working, and a
group that has committed nothing and starts at the end, since the subscription does not
ask for the beginning. `Throw` is the only way out of `ingest` with an error: `record` or
`markFailed` fail; the error is an `HttpException`, which the framework's loop may pass
over. `interrupted`, `replyLost` and `missed` are observations.

### KafkaBoot, Service

`KafkaBoot` follows `bootstrap`: list the topics, create those missing (losing the race is
success), wait for the leaders of all, subscribe. The process ends when a subscription finds
a topic without leader, or on any other error, and is started again. `Service` is
`BcIngest` step for step: an instance may be assigned the partition only when it is up
(`Join`), messages can be sent once the topic has leaders, a crash is also a restart. No
refinement mapping is needed, the variables of `BcIngest` are its own; `ServiceProofs`
proves `ServiceSpec => Spec`.

### StockApply, BcStockMapping, StockLedger

A transaction is a record: lines left, rows written and not yet committed, shops
created, targets. Statements see committed rows and their own; a written row is locked
to others until the end. Shops move between regions by hand (`MapShop`, external); pairs
that concerns are in `moved`, an observation. Locks the ORM may take on existing product,
variant and region rows are left out, which only adds interleavings. `Recalculate`
stands for a whole run on confirmed reservations, `RecalculateVariant` for the requests'
enqueues; `StockRecalculation` has their steps.

`AppliedAsInLedger` is the refinement: `StockLedger`'s only variable is the committed
quantity of each row, and its only step applies all lines of a message to it at once.

### Catalogue, CatalogueRows, CatalogueLedger

A message is a sequence of statements (`ApplyCatalogue`, `ApplyStock`), each an upsert of
one row: an `Upsert` writes the fields that are not undefined, an `Ensure` has an empty
update and only creates. The three tables are one function `rows`; transactions and locks
are as in `StockApply`, whose messages are the same ones seen from the quantities. Brand
stands for every product attribute stored as it came, color for those of a variant; price
and the season's dates are apart because a null price throws and a null date becomes the
epoch. Prisma's upsert and PostgreSQL's locks are external. `Rollback` is a mapper or
statement that throws, a time-out or the victim of a deadlock; `BcIngest` parks the
message. `CatalogueAsInLedger` is the refinement. The ledger shares `CatalogueRows` with
the detailed module: the refinement is about transactions, not about what a field means.

### EcomOutbox

State: rows in the order of `createdAt`, `publishedQuantity` and whether `publishedAt` is
set, the `draining` flag, the step and ids of each call of `publishPending`, and for each
pair the last row whose message reached the topic. A calculation's transaction stores the
number and queues the row in one action (`EnqueuePublication`), whose row is UNCOMMITTED
until `CommitCalculation` or `RollBack`: storing the number locks the pair's `EcomStock`
row, so the transactions of one pair follow each other and those of two pairs commit in any
order. Equal creation times and clocks that run backwards are left out. A failed send
reaches the partitions of any set of pairs: messages of one key stay in order, those of
different keys do not wait for each other. One instance drains, as the publisher's comment
demands (`ecom.outbox-publisher.service.ts:19-21`).

`PublishedInOrder` is the refinement of `Publication`, which knows no tables, batches or
processes: for each pair the committed numbers by place, the number stored, the place e-com
read last and the last place that is SENT. A commit must take the last place of its pair, a
send may end anywhere but before an acknowledged place, and nothing acknowledged is taken back.

### PipelineTrace

State: the statuses of the SKU's inbox rows, which of them have their effect in the stock
(`applied`), and the trace being read. A call whose commit went through and whose reply was
lost (`ApplyReplyLost`, `unheard`) marks its row FAILED afterwards (`ParkEvent`), so a trace may
show stock whose event reads FAILED. `FindVariant` issues
the reads of the included rows, the last of them those of the two lists; each read is a
step of its own (`ReadStocks`, `ReadEcomStocks`, `ReadEvents`, `ReadOutbox`) and captures
what is committed then. The answer is given in the moment of the last read. A shop line is
represented by the events it rests on: `StockHasItsEvent` asks that they are in the list of the
same trace and not shown there as waiting. `blocked`, prices and names are left out.

### EcomApi, ReservationPromise

State: mode and number of the e-com; each call's attempt and the answer under way; `held`,
an observation of what e-com held during the attempt. `Handle` is the mock, `Accept`,
`Reject` and `TimeOut` the ends of an attempt: an error status, a body of the wrong shape, a
coercible or negative number, no answer in time. `AnswerWasHeld` is the refinement: to
`ReservationPromise` a call is asked, answered with a number held since the last failure,
or unavailable after `Attempts` failures. In `StockRecalculation` and `Stand` a call is one
of these outcomes, or made of these very steps.

### Stand

State: of the layer what the screen tells apart (per variant: unknown, card, stocked, or a
calculation confirmed, stale or abandoned, and its reservations), the services that answer,
the screen, the selected variant, the button in progress, and each refresh with the request
it waits for and the answer under way. A refresh is the chain of `App.refresh`: health (with
the lists that are fetched beside it), trace of the variant selected *then*, e-com. `Poll`
starts one per tick; a button starts its own when its request is through. The button's run
asks through `EcomApi` and stores what it hears; `Retry` is the sweep, which takes up what
is not confirmed and what was confirmed and opened again (`reopened`) when the layer died
before the run. `CountsFailed` is the
health that cannot count and says zero. `ServiceDot`, `EcomDot`, `CalculationTone` and
`Tape` are what components make of it. Colours, wording and the wave are left out, as is
the activity list.

## 3. Runs

| Run | Instance and bounds | Shows |
| --- | --- | --- |
| `recalc_overlap` | 1 pair; 1 handler, 1 manual request and the sweep, any two at work at once; stock in {0, 3}, reservations 1, buffer 1, 2 attempts, 1 crash | all safety properties of recalculation through every interleaving of two callers |
| `recalc_liveness` | 2 pairs, batches of 1, 1 handler and the sweep, 2 attempts, one value of stock and reservations, fairness | tasks end through the order of the backlog; busy pairs are given up |
| `recalc_unconfirmed` | 1 pair, 1 handler and the sweep, fairness | a stale row over a closed task stays stale with e-com back |
| `recalc_lost`, `recalc_raise` | 1 pair, 1 handler and the sweep, stock in {2, 4} | the documented guarantees without the exception are violated |
| `service` | 2 instances from their boot, 2 topics, 2 leader attempts, 2 messages, one of them malformed, 2 faults, fairness | boot race, inbox under redelivery, rebalance and crash, nothing skipped or undecided |
| `ingest_stuck` | 2 messages, 1 consumer, 1 crash, fairness | a message can stay PENDING for ever |
| `trace` | 2 pairs, one of them traced, 3 rows, batches of 2, 2 calls at once, 1 fault of the outbox or 1 message beside the first, lists of 3, fairness | refinement of the ordered publication, delivery, the draining guard; a trace that explains its numbers |
| `apply` | 1 variant, a mapped and an unknown warehouse, 2 calls, 3 messages out of 9 (4 of them refused), 1 mapping | refinement of the ledger, nothing changed without a task, the mapping of messages |
| `catalogue` | 2 products sharing a season, 3 variants, 2 calls, 3 messages out of 7 (one throws) | refinement of the ledger; placeholders, parents and lock order |
| `stand` | 2 variants, the timer's refresh and a button's, 2 attempts, 2 changes, numbers 0, 2 and -1, fairness | the promise in the composition; the screen comes to the truth |
| `apply_phantom` | as `apply` | a zero published for the placeholder region |

Why the bounds are enough. Every guard about pairs speaks of one pair, so one pair is
enough for the interleavings of runs; the order of the backlog is about two, and a batch of one
is the least that leaves one out. Two callers are the least that overlap and the manual request
is the only one that resets attempts: the constraint `TwoAtOnce` lets any two of the three
have work in hand at once, and leaves manual requests out after the crash. A third
run at once would be one more that replaces what the others read, which a second run of the same
caller does as well. Stock of 0 and 3 with reservations and buffer of 1 gives results that rise, fall
and clamp. Two attempts are the least with a non-final one. In `recalc_liveness` stock and
reservations have one value, since no guard of the tasks looks at the numbers. Three rows and batches
of two make a drain that leaves a row behind and a batch with two rows of one pair.
Faults are bounded because the interesting ones are few in a row: one to make a retry
necessary, another during the retry; the largest instances afford one.

In `trace` a behaviour has the fault of the outbox or a second message, which may be applied,
parked, or parked although applied (`OneKindOfFailure`): what the list of events and that of
the outbox must have depends on the order of reads, not on each other. The constraint
`NumbersTellRowsApart` gives every row its place as its number:
equal numbers hide mix-ups, they do not cause any. It cuts behaviours at the first row with
another number, and such a row can always be queued with its own instead, so `EveryRowSent` is
checked on all the behaviours it means. Lists of 3 hold all rows of a pair unless the other
pair has some too. The trace starts with a variant some message has described.

In `stand` one slot stands for the timer: it may tick again as soon as the slot is free, and
overlaps the button's refresh, which is where answers get out of order; two ticks that
overlap are left out. Two changes (buttons, results of the sweep, faults, terminal) make
every pair of them race; a refresh reads but three answers. The start states are those an
unchecked answer would be mistaken in: a coercible body, a negative number, a
calculation stale or confirmed, its task closed or opened again before the page was.

Three messages in `catalogue` are one that creates the product and two that race on it;
a deadlock of a stock message with a product message, and a rollback another call was
waiting for, are reached. In every module the calls in progress are two, which suffices
for any lost update; the theorems are free of the bound.

Deadlock is not checked in `BcIngest`, `Service`, `StockApply` and `Catalogue`, whose
instances end when their messages are used up.

Fairness. `StockRecalculation`: weak fairness of each caller's next step, since an
awaited promise settles (statements either return or throw), and of the sweep, whose timer
fires every 30 s. `FailRun` is not fair but may happen at any time and for ever.
`BcIngest` and `Service`: the partition gets an owner, which fetches, a call goes on; an
instance goes on booting and leaders are elected, which the code itself waits for.
`EcomOutbox`: transactions end, the 5 s timer fires and a drain goes on; a trace whose reads
are through is answered. `Stand`: the timer ticks and a request gets an answer or an error,
as `fetch` does. Nothing is assumed of new messages, e-com, failures, buttons or manual
requests; `EventuallyTrue` speaks of services that stay up from some moment on.

## 4. Findings

1. `recalc_lost`: `markDone` closes a task that was reopened for stock the run did not
   read. If the ingest's own run then fails, the new stock is not calculated until the
   next message.
2. `recalc_raise`: the no-raise rule compares with a baseline read before the HTTP call,
   so an overlapping run makes a stale number raise what e-com may sell.
3. `recalc_unconfirmed`: a run on unconfirmed reservations may commit after a confirmed run that
   began later and closed the task. The row is then stale and owned by nobody: no sweep takes
   it up, `/health` counts it as stale for ever, and the next message or request for the pair is
   what confirms it. `docs/superpower/ecom-reservations.md` says stock catches up on its own.
4. `ingest_stuck`: the inbox row is committed before the transaction that applies the
   message. A crash in between loses the message: redelivery is a duplicate.
5. `apply_phantom`: stock of an unknown warehouse publishes a zero for region
   `UNASSIGNED`, of which the documents say that nothing is published.

Three facts that the models show and no run refutes. `publishedAt` is set on every pair of
a batch whatever number it was given meanwhile, so a delivery time may stand beside a number
that is still PENDING; a crash between `markSent` and `markPublished` leaves a delivered one
without. A topic may go back to an older number of a pair for a while: a failed send has
reached it, and a row of another pair that was created earlier but committed later takes the
younger row's place in the next batch; `docs/superpower/publication.md` says without that
reservation that the outbox preserves order. And `EveryMessageDecided` needs its two
exceptions: calls that were cut off (finding 4), and messages sent before the group's first
commit when the process that read them dies.

## 5. Proofs

`StockRecalculationProofs` proves, for all values of the constants that satisfy the
named assumptions (finite sets of pairs, disjoint callers, natural stock, reservations
and buffers, at least one attempt), every safety property the `recalc_*` passing runs
check, as invariants of `Spec`, and the action property `StaleNeverRaises`.

The invariants are not inductive. A committed result is right only if what the run read
is still so, or else known to be outdated, which the rows alone do not say. `IInv` adds

- `Control`: which fields of a run mean something at which step of it;
- `RunsInStep`: of an observed pair, what a run has read equals what the database holds unless
  `outdated` says it was replaced; the number it computed follows from that, and an
  attempt it counted as the last is still counted unless the budget was restored;
- `Guarantees`: the properties themselves, with their exceptions.

With these each action is one small case. `AdvanceInStep` keeps the caller's own run in step,
`AdvanceLeavesOthersInStep` the others: a commit changes the row under them and marks them, and
nothing else they read is written (`BystanderInStep`, `NothingReadInStep`). What a commit stores
from inputs that are not outdated is then today's (the lemmas named `Good...`). TLC checked
`IInv` on a small instance before it was proved. `Observed` is any set of pairs, so the
theorems speak of each pair alone, however many others there are.

`TapeHonest` says of the same module that the trace's tape adds up: the shops' sum less the
buffer less the reservations is what e-com was given, or the line is marked as held back,
which only happens on unconfirmed reservations, and to a larger number unless the run was
overtaken. It rests on `RowsAddUp`, which every
statement keeps whatever runs overlap.

`BcIngestProofs` proves `TypeOK`, `AppliedAtMostOnce`, `InboxTellsTheTruth`, `PendingIsHeld`
and `CommittedIsRecorded` for any number of messages, consumers and faults. "Applied at most
once" is not inductive: nothing in it keeps two calls from holding one message. Its invariant
adds that a call is about a message (`Busy`), that two calls never hold the same one
(`OneHolder`), what a holder knows of its row (`RowsOfHolders`), and that an undecided
message has had no effect. The insert of the inbox row is the only way to become a holder
and needs a row that is absent, while every holder's row is not: the unique key is what
the proof rests on. That nothing is skipped follows from the position: whatever lies behind
it is recorded, cut off or was missed at the start.

`ServiceProofs` proves that every step of `Service` is a step of `BcIngest` or leaves it
alone, so `ServiceSpec => Spec` and the theorems above hold of instances that boot, crash
and boot again. `SubscribesToReadyTopics` is kept by every step since leaders are never
lost and an instance waits for those of all topics; that whoever owns the partition is up
(`WorkersAreUp`) rests on `Join` and on a crash giving the partition back.

`EcomApiProofs` proves `ApiSpec => AnswerWasHeld` step by step: `PutState` is `Change`,
`Handle` a stutter, `Accept` is `Answer`, and a failed attempt is `Fail` or, the last,
`GiveUp`. `AnswersHeld` strengthens the types: the number under way was held since the
attempt began.

`StandProofs` proves that the buttons, terminals and restarts of `Stand` do to the call only
what `EcomApi` allows, hence the promise for the composition; and `StandTypeOK`, of which
two parts are not about types. That the screen holds only answers to what it asked needs
that every answer under way is one to the request its refresh waits for (`RefreshOK`), and
for a button's own refresh that it runs only while the button waits for it (`ButtonOK`). That
no variant is calculated with a negative number needs that a call that is answered reads as
a natural number, whatever e-com was told (`CallOK`).

`StockApplyProofs` proves all that `apply` checks, for any variants, finite set of shops,
regions, messages and number of calls. The refinement is not inductive: the ledger applies a
message to the stock as it is at the commit, while the transaction computed each row from
what it saw earlier. `StockInv` says of every call in progress that its statements might all
be executed now: there are contents `h[0]`, ..., `h[n]` (`Replay`) that start at the stock as it is now,
go on by one line of the message each, and end at what the call sees. Another call's commit
changes `h[0]` but no row this call has written, and those rows are locked until it ends
(`CommitOfOther`); where an increment is half done, `h[n]` is what the clamp will make of it. At
the commit `h` is the ledger's own computation (`CommandEffect`). `ChangedIsOwed` needs
besides that a row exists only with its shop (`ShopsKnown`) and that two calls never create
one shop. `EveryNumberHasItsLine` is about messages of any length: `Flattened` and
`EntryLines` say what `FlattenSeq` and the mapping return.

`CatalogueProofs` proves all that `catalogue` checks, for any products, seasons, variants,
messages and number of calls. `CatalogueInv` has the same idea (`Position`, `Replay`), with an
`Ensure` that leaves a row alone as the case of its own: it takes no lock, so its row may
change until the commit, but it never disappears (`Executed`). `NamesOK` says where the name of
a product a call has written comes from: its own message, or it is the placeholder of a
product that is not there, which the lock keeps so. `ProductsNeverDeadlock` is a lock order, season before product before variants
(`ProductOrder`): nobody waits for a variant, since he holds its product and so does whoever
holds the variant; hence nobody waits for a product, whose holder would wait for a variant;
and who holds a season waits for no other.

`PipelineTraceProofs` proves all safety `trace` checks, for any pairs, rows, concurrent calls, faults,
batch size and length of lists. "No older row ends up behind a sent one" is not inductive.
`OutboxInv` adds the chain it rests on: an undecided row is the youngest of its pair (the
lock on `EcomStock`), so the rows of a pair commit in the order of their places; one call
drains at a time (the flag); the rows in its hands are waiting and no older waiting row of
their pairs is left out; between the send and `markSent` the topic ends at the batch. `TraceInv`
adds that what the included rows of a trace say rests on rows and messages that outlive the
reading, so a list that is read later and is not full has them: of the inbox, that an
applied message is never waiting again, whatever it is marked as (`InboxGrows`).

The same module proves the refinement of `Publication` from `OutboxInv`. A commit is `Store`, since
the row is its pair's youngest (`CommitStores`); a send, failed or not, is `Receive`, since its
batch holds waiting rows behind all that are sent (`SendReceives`); `markSent` is `Acknowledge`,
since the topic ends at the batch (`MarkSentAcknowledges`); queued and discarded rows, and
calls that begin or return, are not seen (`RestIsUnseen`).

Assumptions are named where the constants are declared: what messages may contain after
class validation (`MessagesAssumption`: sequences and numbers of any size), that the values
of columns are none of the markers for null and undefined (`ValuesAssumption`), finite shops (what
`aggregate` sums over), the start of the stand (`StartAssumption`), bounds that are
natural numbers. TLC evaluates them in the runs.

Recursive definitions (`SumForRegion`, `FlattenSeq`, the ledgers' `AfterCommand`) are recursive
functions. What they compute is proved by the least number of steps for which it would be
wrong (`LeastOfNaturals`, `NaturalRecursion`), since no prover takes the induction theorems.

Only model-checked: all liveness (`EveryPendingEnds`, `BusyPairsAbandon`,
`EveryMessageDecided`, `EveryRowSent`, and `EventuallyTrue`, that the
screen comes to the truth), which is out of the prover's reach; and the violations of section 4,
which one behaviour each settles.

## 6. Not modelled

- Stock reads, `blocked`, stand and activity endpoints: single reads, paged and formatted, of
  state the modules have.
- Configuration, error filter, database client, Swagger, the demo script: wiring without
  state. Layout and formatting of the visualizer.
- The database going away as a whole as `/health` reports it (503): every statement may
  fail on its own instead.
- Class validation of messages (types of fields) is the choice of malformed messages in
  `BcIngest`; implicit conversion before it is left out, for want of a document that says
  what an empty string should mean.
- Order between deliveries of absolute quantities: no code compares them.
- Integer width: quantities are 32-bit columns, which no sum of warehouse stock approaches.

## 7. Plan

In this order:

1. The composition of `StockRecalculation` with `Publication`: the commit of a run is the step
   that stores the number and queues its row.
2. Attempts counted per outage: the budget that `markDone` leaves in place, once a document says
   what the ten attempts are counted over.
3. Pairs whose shops were mapped by hand, which `ChangedIsOwed` sets apart, stated on their own.

# A verification of pnl-reconciler

TLA+ modules, model-checking runs and machine-checked proofs about the order
engine in `src/app`. The reader is expected to have the repository at hand; every
definition that translates code is listed with its lines under `map` in
`PROJECT.json`, and where this document says "confirmed to fail" a run shows the
counterexample.

## 1. Inventory

| Component | State | Operations | What makes it hard, and what makes it right |
|---|---|---|---|
| order state machine, `orders.py`, `models.py` | status, filled quantity, trusted flag, broker id of an order | `mark_submitted`, `mark_working`, `apply_fill`, `mark_cancelled`, `mark_rejected`, `confirm_terminal` | Fills arrive after an assumed end. An assumed end may be undone, a confirmed one never; no overfill |
| engine, `engine.py` | order table, idempotency registry, position, exec ids seen, last reconciliation | `submit`, `cancel`, `confirm_order`, `on_fill`, `on_broker_snapshot`, `load` | Everything that happens at the awaits: other callers, fills, crashes. One dispatch per key, each execution once, no oversell |
| idempotency registry, `idempotency.py` | key -> (order id, sent) | `reserve`, `get`, `mark_sent` | Failed sends, restarts |
| store, `store.py` | tables orders, fills, positions, trade_history; the transaction under way | `upsert_order`, `upsert_position`, `record_fill`, `apply_fill`, loads | Statements refused by a constraint, failing calls, a crash between any two statements. A call lands as a whole or not at all, no key is broken |
| mock broker, `brokers/mock.py` | acks, client ids, book, fill queue, sequence, drip tasks | `submit`, `cancel`, `query_order`, `stream_fills`, `pnl_snapshot`, drip | Runs by itself between our calls; ignores its own cancels; restarts with the process |
| broker contract, `brokers/base.py` | - | the six calls | At-least-once fills, lost replies, trusted ends only from the broker |
| position book, `positions.py`; cost basis, `costbasis.py` | quantity, average or lots, realized P&L | `apply` | Partial closes and flips, three implementations of one algorithm |
| P&L engine, `pnl.py` | a basis and fees per symbol | `apply`, `report` | Zero fees, missing marks, FIFO against average |
| reconciler, `reconcile.py` | none | `reconcile` | Finds a drift of shares, average or P&L beyond the tolerance and names the right cause; compares no fees |
| mark store, `marks.py`; feeds, `feeds/*` | last mark per source and its age; subscriptions, drop count, backoff, the sleep it is in | `update`, `is_stale`, `subscribe`, `stream_marks` | Outages: a gap is reported, marks resume and stay fresh, a starved one shows as stale |
| service, `main.py` | engine, broker, feed, two consumer tasks | start-up, endpoints | Swallows the exceptions of `on_fill` |
| retry, `retry.py` | attempt, sleep | `call_with_retry` and its async twin, `delay_for` | What is retried, how often, how long; the synchronous twin blocks the event loop. Not called by anything yet |
| configuration, `config.py`; `scenarios.py` | - | - | defaults, demonstrations |

Interaction: one process, one asyncio event loop. HTTP handlers and scenarios call
the engine; the engine awaits the broker; two consumers started by
`main.lifespan` feed executions and marks in; the mock's drip tasks run on the same
loop. The store is synchronous SQLite, one transaction per call. Nothing is locked:
atomicity is that of the stretch between two awaits.

`PROJECT.json` lists the hazards at their lines, with the properties that cover them
and, for those still open, why none does.

## 2. Modules

    OrderTrust        what an order promises: open, assumed ended, trusted ended
      ^ refined by
    Orders            orders.py as operators on a record
    OrderLifecycle    one order under every sequence of those calls
    OrderLifecycleProofs

    Intents           sides, quantities, fills; Quantities: sums and rounding
    Trading           what the engine promises: dispatches, the ledger, settlements
      ^ refined by
    Engine            engine.py with registry and store, split at its awaits
    MockVenue         brokers/mock.py           RemoteVenue   the contract of base.py
    MockSession       Engine + MockVenue        RemoteSession Engine + RemoteVenue
    LedgerProofs (sums of Quantities), EngineProofs, MockSessionProofs, RemoteSessionProofs

    Tables            the tables of store.py and their statements as operators
    AtomicStore       what the store promises: a call lands as a whole or not at all
      ^ refined by
    Store             store.py statement by statement
    Recording         submit and on_fill over the statements of the store (uses Orders)
    RecordingProofs (both)

    Ratios, CostBasis exact averages; the four accounts of one symbol
    Books             fills, fees, marks, snapshot, reconciler
    BooksProofs

    Marks             marks.py: ages of the last marks
    Feed              feeds/mock.py with the consumer of marks, on a clock
    Retry             retry.py: one call under its policy
    EventLoop         Feed and Retry on one loop and one clock
    EventLoopProofs

`MC*` modules give the constants that a cfg cannot write down, each `MC*.cfg` is a run.
`MCMockTrading` also names two scenarios of `MockSession`, one of which is chosen at the start.

**Orders, OrderLifecycle.** An operation returns `[order, raised]`: the order as the
function leaves it, also when it raises, because `apply_fill` changes the filled
quantity before it finds a transition illegal. `lastCall` in `OrderLifecycle` is a
history variable that names the operation. The broker's statuses given to
`confirm_terminal` are all seven.

**Engine.** An `async` handler is one action up to its await and one from there on.
The call in between is a record on `wire`; the composing module decides when it is
answered, and whether. `idem`, `orders`, `position`, `seen` are the engine's memory;
`dbOrders`, `dbFills`, `dbPosition` the tables. `sends` and `answer` are history. A
crash (`Restart`) empties the memory and runs `Load`, in the same step, as
`main._build` does before it serves anything. Crashes come between two handlers, at
an await, or, within `on_fill`, between its three transactions (`CrashInFill`); a crash
between other statements leaves the tables as one of these does. A crash on the
submit path before its first save leaves nothing behind, which is the state of a
crash before the submit.

**Trading.** Intents are sent once, executions entered once, orders settled once. `placed` and `settled` are read off the
order table (`Placed`, `Settled` in `Engine`), `ledger` is the table of fills; calls, replies, refusals,
cancels and restarts are steps in which nothing of it changes. An order that is settled gets no further execution, and what it has
filled is at most what its intent asks for. It says nothing of an order's filled quantity before that: a row may lag behind
the ledger for good after a crash (section 3).

**MockSession.** Every method of the mock that the engine awaits returns without
suspending. A coroutine that does not suspend runs on, so while one of our calls is under
way (`~Quiet`) nothing but that call advances. `tick = 0`, for which a drip runs all
its slices at once, is one of the interleavings of `tick > 0`. The mock lives in our
process: `Dies` restarts both.

**RemoteSession.** No real adapter is in the repository. `RemoteVenue` is therefore an
environment, marked external: it may do whatever `brokers/base.py` 7-30 allows. Calls
of several tasks are on the wire at once, are answered in any order, and may raise
before or after the venue acted, snapshots included (`LoseSnapshot`). The first ack of an order says
that it works or that the venue has ended it; one that is filled at once is, for `_apply_ack`, one that
works and whose fill comes next. The fill stream replays from any earlier place. What the
contract leaves open is the answer for an id the venue has never given (`None` before the ack): the adapter
says REJECTED, as the mock does (mock.py:178-183), or the call raises, and the properties hold for both.

**Books.** One symbol, amounts in half-cents (the fee per share), averages as exact
ratios: `Decimal`'s 28 digits round far below every tolerance. `Book` is an execution that
reaches the engine, `Lose` one that does not. `settings.drift` is the injected
discrepancy of `DriftConfig`, the fees included, `settings.guarded` the oversell guard; it is dropped where
a setting is about short positions, which run MCMockCancelOversell shows to be reachable. `crossed` is history: the
venue's book went from one side to the other in one fill, where `_apply_to_book` keeps the average of the side it left.

**Store.** `work` is the database as the transaction sees it, `disk` what is committed. An operation
is `Begin`, one `Execute` per statement in the order of the code, and `Commit`; `CheckSeen` is
`apply_fill` or `record_fill` finding the execution recorded already. `Refuse` is a constraint of `SCHEMA`, `Fail` any
other error, and both are followed by the handler's ROLLBACK. Trade history is a sequence, so that an
entry without its call, or a call without its entry, would show.

**Recording.** The engine of this module is the one of `Engine` with less around it (no cancels, sells,
confirmations or lost replies) and more beneath it: each of its three saves is a call of `Store`, of which every
statement may fail and between any two of which the process may die. `task` is the handler and the call it waits for; while
one is under way nothing else of the process runs, because nothing awaits. `client = "anyone"`
replaces the engine by a client that makes any call of a small set, `apply_fill`
among them, to test the store where the engine never goes. `MCMockFaults` and
`MCRemote` keep the coarser grain, at which the rest of the engine can be explored.

**Feed, Marks.** A transport cycle, the yields and the consumer's updates do not await, so
they are one step. `wait` is the sleep that follows it, the interval or the backoff. A mark is its age:
the consumer passes on neither its time nor its gap flag, so it ages from its arrival. `drop_every` is a setting for
tests and demonstrations.

**Retry, EventLoop.** One call with a policy beside the feed. `blocking` chooses between the two twins of `retry.py`; in a
sleep of the synchronous one time goes on (`Tick`) and the feed does not.
What the function raises is transient, a reject, or `foreign`: a class that `retry.py` does not know, as all
those of `brokers/base.py` are.

### Abstractions

One symbol: positions, reservations and bases of different symbols never meet, but
account totals of several symbols could compensate each other, which is not checked.
Quantities are naturals in a smallest unit. `broker_exec_id` is always present.
Reconciliation in the sessions keeps the quantity leg only; the money legs are in
`Books`. Time stamps, order types, prices (in the sessions), reasons and logs are left
out. Order ids are handed out by a fixed choice from a finite set, one per key, since
no key is ever dispatched twice (`AtMostOnceSend` and `ImplementsTrading` are checked with a spare id); in
`Recording` the engine may take either of two ids for one key. All executions of `Recording` are buys. Time in `EventLoop` is in
whole units, and a step that is due is not late unless the loop is blocked.

## 3. Runs

### Passing

`PROJECT.json` lists the properties of each run.

| Run | Instance | Shows |
|---|---|---|
| MCOrderLifecycle | one order of 1 to 3 units | the order's flag, status and quantity stay consistent; `OrderTrust` is implemented |
| MCMockTrading | scenario "sells": buy 3, sell 2, sell 2, two slices each, no cancels; scenario "cancels": two buys (one refused by the venue) and a sell, cancels, `GET /reconcile` | without cancels, no interleaving of submits, slices and their consumption oversells (`UncancelledNeverOversold`); late fills after a cancel are counted; with the queue drained our position is the venue's and the last reconciliation saw no break; every accepted order ends FILLED with its fills recorded, cancelled or not: the mock keeps filling after a cancel |
| MCMockFaults | two buys, a sell, a transient failure, a crash, all calls | one dispatch and one order per key; `Trading` is implemented; the ledger is never behind an order's row; a confirmed order stays as it is |
| MCRemote | one buy of 2 in any parts, all calls, lost replies and snapshots, replays, a crash | no order comes to be trusted as ended against the venue, except by the answer to a `confirm_order` without the broker's id (`TrustIsTheVenues`); the ledger is the position, `Trading` is implemented; no execution refused but for the reasons `RefusedOnlyWithReason` names |
| MCBooks | averages behind the guard with seven drifts (none, shares down, shares and average up, average, either P&L total, fees), averages without it, with a drift and without, and FIFO; two prices a cent apart, two sizes, four fills, any of them lost | money is conserved, the lots are the position, matched books reconcile; losses and drifts of shares, average and P&L totals are found and named, a drift of the fees alone is not found (below) |
| MCFeed | three symbols; a socket that never drops, drops in every batch, or outlives one; a call of no, one or three attempts by either twin | each outage is reported once, the backoff keeps its bounds; the feed resumes, and one that cannot shows as stale (`FeedResumes`); marks are no older than an interval, a base backoff and what a blocking retry slept (`FreshWhileOutlived`); a call gives up when its attempts are spent on transient failures, with bounded sleeps (`GivesUpWhenSpent`) |
| MCRecording | one intent of 3 under either of two ids, filled in three executions or one; or another client with 13 calls; two crashes, two failing calls | `Store` implements `AtomicStore` and keeps its keys; the engine is never refused by a constraint; crashes alone leave memory and ledger equal, and every execution ends in the ledger; no execution is counted twice, but in an order's row when a failed call and a crash come together (below) |

Why the bounds are enough. The interesting cases of the sessions need a buy that one
sell but not two can be covered by, an order in two slices of unequal size, one failure
and one restart. A second crash repeats the first: `Load` depends on the tables only.
`MaxFills = 4` in `Books` holds an opening, a partial close, a flip and a fill after it. Its prices lie a cent apart, so that what
two books differ by is now within a tolerance and now beyond it: with prices far apart no two errors could make up for each other, and
`CleanMeansSameMoney` held without its condition on `crossed`.
`DropSettings = {0, 2, 4}` over three symbols (fewer while they subscribe) drops in
every batch, in some, and in several in a row; `BackoffCap = 3` is reached by the third. `MaxAge = 11` is above
the longest time a mark may legitimately reach, so that its cut-off hides no violation of `FreshWhileOutlived`. In
`Recording`, two failing calls and two crashes fall within one handler, in two of them, and after each other; of three
executions the first can fail, the second save the order, and the third come after the restart. The other client's three
log entries are a recorded fill, a second one that repeats its id or execution, and what comes after it.

Capped are `MaxCrashes`, `MaxErrors`, `MaxFills`, `MaxLog` and, by saturation, the age of a
mark at `MaxAge + 1`; `TransientFails` and `AttemptSettings` are settings of the code. Deadlock is
checked in every run but MCRecording, which may stop: an engine that has recorded everything waits for its venue.

### Disagreements with the code's own words

Each of these runs checks one property taken from a docstring or the README and is
confirmed to fail. The lines are quoted under `findings` in `PROJECT.json`.

| Run | What happens |
|---|---|
| MCMockCancelOversell | a cancelled sell keeps filling but reserves nothing: the book goes short |
| MCMockConfirmEarly | an order is confirmed before its queued fill is consumed: the fill is dropped, and no reconciliation notices |
| MCMockDuplicateSell | the duplicate of a sell is refused as an oversell |
| MCMockTransient | a submit that failed transiently is never sent again |
| MCBooksFee | a fee that rounds to zero becomes the one-dollar minimum |

Others that the models contain, for which no run is kept:

- `mark_cancelled(confirmed=True)` (orders.py:128) and `mark_rejected` (141) set the flag that
  orders.py:13 reserves to `confirm_terminal`. The engine calls neither that way.
- A crash within `on_fill` leaves a fill without its order's row (engine.py:136-138); the fill
  then counts as seen, so the order stays behind for good. `LedgerIsFirst` says how far it can
  get; `Store.apply_fill`, which would be atomic (store.py:4-7), is not used.
- A database error in `record_fill` leaves the execution seen and counted in memory, but not in the ledger. The
  next fill of the order saves the row that counts it; after a restart the venue's repeat passes for new and the order
  counts it again, until a real execution is refused as an overfill. `ExecutionsCountOnce` excludes exactly
  this (`errors = 0 \/ crashes = 0`) and fails without it.
- `apply_fill` inserts the fill before its order (store.py:143-148). With foreign keys on, the first fill of an
  order that was never saved raises an IntegrityError; tests/test_store.py:37 and 62 expect it to be recorded.
- A BEGIN that fails within `apply_fill` makes its ROLLBACK raise in turn; the caller sees an exception in either case.
- The retry helpers know classes of their own, none of them an adapter's: around a broker they retry nothing. Jitter is added
  after the cap, so a delay may exceed `max_delay`; with `max_attempts` 0 there is nothing to raise (`NothingToRaise`).
- `reconcile` compares the unrealized leg whatever the age of the mark; config.py:81 says older marks are not trusted for it.
- The consumer of marks files every price under the configured `mark_source`, whatever it is, and has no handler for
  exceptions: one ends it (main.py:158-161).
- A restarted mock numbers its executions from one again (mock.py:78) while the engine reloads
  those it has seen: new executions are skipped as replays (`FillSeen` after `Dies`).
- A confirmation before the ack asks for broker id `None` (engine.py:114). An adapter that answers it
  REJECTED, like the mock, has a live order become a trusted REJECTED. `TrustIsTheVenues` excludes exactly this
  (`AskedWithoutId`) and fails without it. With the mock itself the order is
  never live: its `submit` does not suspend, so an order without an id is one it has refused.
- `fee_delta` is among the skews that mock.py:33-35 says model "the real causes the reconciler classifies"; it changes
  the snapshot's fees (mock.py:204), which `reconcile` compares with nothing. `GuardedBookReconciles` holds
  with a fee drift as without: the report stays clean.
- `load()` marks every order with a key as sent (engine.py:60), also one that a crash caught between its save and its
  dispatch. Its key is then taken, a repeat gets the order back, and nothing ever sends it.
- A fill that overtakes its order's ack finds it NEW, is refused and counts as seen; worse, the
  refused quantity stays in `filled_qty` (orders.py:101 comes before 112) and is saved with the
  ack. `RefusedOnlyWithReason` names both cases.
- `_apply_to_book` (mock.py:244-247) keeps the average over a flip through zero, the engine takes the
  fill's price: `MatchedBookReconciles` fails without the guard.
- Under FIFO the averages agree (both are the position book's) and the unrealized P&L does not, at
  equal marks: the break is named MARK_SOURCE (reconcile.py:97).
- After an outage only one of the symbols it cut off gets its mark flagged (feeds/mock.py:81),
  and with `drop_every` no greater than the number of symbols no mark ever arrives:
  `FeedResumes` excludes it by `OutlivesBatch`.

### Fairness

`MockSession.FairSpec` assumes of the event loop that a call under way is answered and its task resumed
(WF), and that a drip task and the fill consumer run again and again when they are ready (SF).
asyncio runs every ready task on each turn of its loop. SF, not WF, because these steps are disabled
while one of our calls is under way, which in the code is a stretch without a suspension and no state
in which the loop could be. Nothing is assumed of callers. `RetryingSpec` adds a caller who repeats his
submits; it only serves MCMockTransient, whose counterexample is one in spite of all fairness.
MCMockTrading has no `confirm_order`: with it `EventuallyFilled` is false, for the reason of MCMockConfirmEarly.

`EventLoop.Spec` assumes that a task whose sleep is over runs, and that time goes on. `Recording.FairSpec` assumes that a handler
goes on when its call has returned, that the database executes statements, and that the venue repeats an execution for
as long as the engine has not seen it: contract 4 of `brokers/base.py`, at-least-once delivery. No crash, failure or new
submit is ever assumed.

Every property of a passing run has a mutant: a plausible bug in a mapped definition (kept
beside it, "Mutant of ...") under which the property is violated.

## 4. Proofs

### The order state machine

`OrderLifecycleProofs` proves, for every finite or infinite set `Sizes` of positive order sizes, what
MCOrderLifecycle checks for three: all its invariants, its action properties and the refinement of
`OrderTrust`. The inductive invariant is `TypeOK`, `TrustIsForTerminal`, `NeverOverfilled` and
`AssumedFilledIsComplete` together: each alone fails, since `ApplyFill` decides by the flag what it may
change and by the quantity where it lands. The proof has a lemma per operation of `orders.py` that says what it
returns, and one step per action of `Next`. The action properties follow from the same lemmas in states of
the invariant. The refinement maps `phase` to the status and the flag and shows that every operation is a step of
`OrderTrust` or a stutter.

### The engine, with either venue

`TypeOK`, `AtMostOnceSend`, `OneOrderPerKey`, `LedgerIsPosition` and `ConfirmedStands` are proved for every set of
keys and order ids, every quantity, every configuration of the mock and any number of crashes. They are
the engine's own doing, so the work is done once, in `EngineProofs`, a lemma per action of `Engine`; `MockSessionProofs` and
`RemoteSessionProofs` add that their venue answers with well-formed acks and executes only orders of the table.

The inductive invariant `EngineInv` joins to the properties what they rest on:

- `SentIsSaved` and `Registered`: a key that has been sent has a row, and the registry knows the key of every row. This
  is why saving comes before sending, and what `load()` restores; without it a crash between the two would
  allow a second dispatch.
- `SavedOrders`: memory and table hold the same orders under the same keys. They may differ, after an operation that
  raised or a crash within `on_fill`, but only on orders without the trusted flag: what the broker has confirmed is
  always in the table, and nothing else is, so that a restart can neither undo nor invent it. For that each operation but the broker's verdict is shown to
  leave the flag, and an order that has it, alone (`Soft`).
- `LedgerSeen`: memory has seen every execution of the ledger, so an execution it takes for new is
  added once. The sums (`LedgerProofs`) count units of quantity as elements of a finite set, which reduces
  "a new fill adds its quantity" to the cardinality of a disjoint union and needs no induction.
- `CallsKnown`: a reply is about an order of the table, also after other tasks have run.

`MockImplementsTrading` and `RemoteImplementsTrading` prove that either session implements `Trading`. Each lemma of `EngineProofs` shows
its action to be a step of it or a stutter (`KeepsPromise`). Four kinds of step are not stutters: a submit up to the broker call dispatches
(`SentIsSaved` is why an unknown key has not been sent); an execution that is applied is entered, and so is one whose handler
dies after its first transaction, which `load()` then counts; a verdict that sets the trusted flag settles. A crash is a stutter because `LedgerIsPosition`
makes the reloaded position the one that was held, and because memory and table agree on the flag. `Sane` carries the bound on what is filled.

The assumptions are those the modules name: `IntentsAssumption`, `EngineAssumption`, `NoneAssumption`, `MockAssumption`.
`NoneAssumption` says that `None` is no order, entry, reply or number, which of a model value TLC knows by itself.
`SessionInv` of the mock was also checked by TLC on the instance of MCMockFaults.

### Orders, ledger and the mock's book

`MockSessionProofs` goes on to what relates three tables that are written in separate steps. Each invariant below was
given to TLC on the instances of MCMockFaults and MCMockTrading before it was proved.

- `LedgerIsFirst`, with any number of crashes. `BookInv` adds `CountsLedger`, for the rows in memory and on disk (each has counted
  no more than the ledger holds for its order, and exactly that while there has been no crash), and `AckInv`: an
  order the venue works for is past NEW or its ack is on the wire. The second is what makes the first inductive. A fill that finds its
  order NEW would be refused with `filled_qty` already changed (orders.py:101 before 112), and memory would be ahead of the ledger for good.
  The mock cannot do that, because its calls do not suspend and the slice comes after the ack; the remote venue can, and
  there the property is false.
- `OrderMatchesLedger`, for `MaxCrashes = 0`: after a crash within `on_fill` a row lags behind, which is the
  divergence listed in section 3.
- `DrainedAgreement`, for `MaxCrashes = 0` and sessions without `confirm_order`; a crash restarts the mock with an empty book, and
  a confirmation before the queue is drained loses fills (MCMockConfirmEarly), so neither hypothesis can be spared. `DrainInv`
  adds `AgreeInv`: the book is our position and the net of the fills still queued, and each ack has filled what its order
  has counted and what is queued for it (`AcksAgree`), so that no fill is ever refused as an overfill; and `Checking`: a snapshot
  under way shows the book as it is, and a last result other than a break is followed by a further fill or a reconciliation.
- `UncancelledNeverOversold`, which is `NeverOversold` for behaviours in which no cancel is ever under way (with cancels it is false,
  MCMockCancelOversell), for `MaxCrashes = 0` and sessions without `confirm_order` (`MockNeverOversold`).
  The guard compares a sell with our position, which lags behind the venue's book by the queue. `SellInv` says why that is enough:
  what the open sells may still take is covered by the position (`Covered`), and the sells in the queue are part of it, since
  an order stays open, and reserves, until the last of its fills is consumed (`QueuedIsReserved`). The second is a comparison of sums over
  different sets, queued fills and open orders; `SummedWithin` proves it by numbering each order's units, without induction.

### A trusted end is the venue's

`RemoteTrust` proves `TrustIsTheVenues`, for every adapter, whatever it says of ids it has never given: a step after which our table
trusts an end that the venue has not reached was taken while a `query_order` without a broker id was under way for that order, or the order was
so misjudged before. The exception is the one section 3 describes. `TrustInv` says of every broker id we hold, in memory, in
the table, in a call or in a reply, that the venue has given it to just that order (`Known`), and of every terminal answer to
a `query_order` that named an id, that the venue has ended that order. Lost and late replies need no case of
their own: both are closed under whatever the venue does (`AcksGoOn`), so an answer is as true when it is applied as when it was given.
`OnlyAnswersConfirm` has the other half: nothing but such an answer sets the flag, not acks, fills or the rows a restart reads.

### A refused execution has a reason

`RemoteRefusesWithReason` proves `RefusedOnlyWithReason`, for every adapter. `RefusalInv` takes from the venue that executions are numbered, that what it
says it has filled is what it has streamed of the order, within the order (`AcksCount`), and that the ledger is part of the stream, in
whatever order and however often it arrived (`LedgerStreamed`). So an execution that is new to us still has room beside the ledger
(`LedgerHasRoom`), and an overfill means that the order has counted more than the ledger. That no transition is illegal but from NEW is `WholeRow`: without the
broker's word no order is REJECTED, and none is FILLED before it is full. TLC has `TrustInv` and `RefusalInv` on the instance of MCRemote.

### The feed and the retried call

`EventLoopProofs` proves all safety properties of `EventLoop`, for any symbols, intervals, drop settings and policies. `Going` counts
the attempts of a call that has not ended, with at most one sleep each; `Fresh` bounds the age of a mark together with what is left of
the feed's sleep, which is what a `Tick` preserves; `FeedInv` ties the gap flag to the outage. That `2 ^ n` is a number, which no
backend knows, follows from the size of a set of subsets.

### The store

`RecordingProofs` first proves, for any tables, rows and calls, that `StoreSpec` (the store with clients that make any of its calls)
keeps `KeysHold` and implements `AtomicStore`. The invariant `CallInv` says what the
working copy is in the middle of a call: the committed tables with the statements executed so far (`Partly(call, disk, Done)`); and that a call past
its look-up is no duplicate on the committed tables. Without it nothing relates
what `Commit` writes to the call as a whole. That the keys hold rests on the constraints alone
(`PartlyKeeps`: a statement that `Violates` does not refuse keeps them), for the working copy and then for the disk. The assumptions are
`TablesAssumption` and `CallsAssumption`.

### The engine over the statements of the store

`RecordingProofs` then proves every safety property of `Recording`. Its handlers only take steps of the store (`RecordingUsesStore`), so what is
proved of `StoreSpec` holds under them. The invariant `RecInv` follows the handlers:

- `Control`: where a handler is determines what it holds and the one call it can be waiting for, hence what that call writes when it lands.
- `Rows`: an order has its row before the venue has it, and so before any of its fills; a key has one order.
- `Reported`, `Counts`: what is recorded was reported and is seen, and what is counted is seen, each execution once.
- `Leads`: while no call has failed, the ledger, together with the fill on its way there (`Landing`), holds all that is counted.

`EngineIsNeverRefused` is `Rows` and `Reported`: the statements respect the keys, because the row, the order and the fill a
constraint could miss or repeat are known. `ExecutionsCountOnce` is `Counts`, with the condition `errors = 0 \/ crashes = 0` for the reason
given in section 3. For `MemoryIsTheLedgers` a second invariant, `Follows`, says that what is seen is in the ledger or was refused by its order; it assumes
that the venue executes no more than was ordered (`VenueKeepsToQty`), since a refused overfill is seen and never recorded.
`RecordingAssumption` gives the executions distinct broker ids and the fills distinct ids of their own (models.py:21 and 70 take a fresh
`uuid4` for each); `EngineAssumption` says that the instance's calls include those the engine makes.

### The books

`BooksProofs` proves the properties of the accounts, for any prices, sizes, drifts and number of fills. The ratios are in lowest terms, of
which only one fact is needed, that a whole number is reduced to itself (`RatioWhole`): otherwise `At(r, n, d)` says that `r` is `n` over `d`, and
sums, products and comparisons of ratios are those of numerators at a common denominator (`PlusAt`, `OverAt`, `DifferAt`). On these numbers
the position book and the mock's are seen to do the same (`PositionStep`, `VenueStep`), until the mock's changes sides.

- `BooksConserveMoney`: what the open shares cost and the closed ones earned is the money that moved, in the position book and in either basis.
  `AfterBalanced` has the cases of an averaged account: an opening, a partial close, a full one, a flip.
- `FifoLotsAreThePosition`: the lots of the FIFO queue are on one side, none is empty, and they hold the shares of the position book, which keeps no
  lots. `FifoInductive` says both of the queue, and rests on what its folds compute: `FoldExists` constructs a fold over the prefixes of a sequence, so that
  the recursive function in the definition of `FoldLeft` is one, and `UpTo` goes along the prefixes by the smallest counterexample, for want of an induction
  theorem the provers can instantiate. `ConsumedIs` then has what a closing fill leaves: after every prefix of the lots, the shares that it
  closed and those that survive are the prefix's, its gain is what they fetched less what they cost, and no lot survives before the fill is used up
  (`ClosedSoFar`).
- `GuardedBooksReconcile`, whatever the drift of the reported fees: `BooksInv` says that while no fill is lost the two books hold the same numbers (`SameSoFar`) and, behind the guard, are
  never short. It assumes that no fill is of one share, whose fee rounds to nothing (MCBooksFee shows that it must).
- `CleanBooksAgree`: a report without breaks means the same shares and, to within `CleanTolerance`, the same money, whatever was lost. Its attempt
  corrected the property, which did not ask that the venue's book has kept to its side: buy 4, lose a sell of 2, sell 4, lose a buy of 2, and the average
  that the mock keeps across zero can cancel the loss in the realized total. `CleanTolerance` replaces a constant that was right for small positions only.
- `DriftFound`: a drift of shares, of the average or of a P&L total shows at its leg and under its cause, also without the guard. A drift of a total must
  exceed the tolerance, and the two sides must count that total alike: have charged the same fees for the realized one, mark at the same price (or hold nothing) for
  the unrealized one. Of a drift of the fees it says nothing, since no leg compares them.

### Only model-checked

- Liveness, which TLAPS does not reach under fairness: `EventuallyFilled`, `FeedResumes`, `ExecutionsAreRecorded`.

## 5. Not modelled

Reading the environment, JSON, HTTP errors, rendering and the command line are input and output. The row conversions
and the strings hashed by `derive_key` (`str(1)` and `str(1.0)` are two keys) are left to unit tests; a nonce that the HTTP surface does not
pass makes every repetition of an intent a duplicate, which the model has as one key per intent. Machine failures
(`synchronous=NORMAL`) are excluded: what is committed stays. `load_fills` orders by time stamp, not by arrival; `Books` books in one
order, and with the reordered ledger as a further choice its run does not end within its time. `update_bid_ask` and `last_mark` are unused, the price walk of the mock
feed is data.

## 6. Plan

1. Tiny orders in the drip.
2. Recovery of lots and averages from a reordered ledger, in an instance of its own.
3. Several symbols in the account totals.

# A TLA+ model of PulseExchange

PulseExchange (`src/`) is a simulated exchange: an HTTP API accepts orders and
cancellations into a durable journal in PostgreSQL, a processor applies them one at a
time with a price-time-priority matching engine, and browsers follow the market over
WebSockets. This directory holds its model: TLA+ modules translated from the source, the
TLC runs that check them on small instances, and theorems checked by TLAPS.
`PROJECT.json` lists components, runs, mutants, the lines each definition stands for,
hazards, findings and theorems.

## 1. The system

| Component | Source (`src/backend/src/pulseexchange/` unless said) | State | Operations |
|---|---|---|---|
| Matching engine | `engine/matching.py`, `engine/models.py` | orders, FIFO price levels, resting ids, used sequences, trades, next trade number | `submit`, `place_limit_order`, `cancel`, `restore`, `snapshot` |
| Command journal | `commands.py`, `models.py` (`market_commands`), `api/routes.py` | the rows, their identity, the ingest advisory lock | `enqueue_submit`, `enqueue_cancel` |
| Command processor | `processor.py`, `worker.py` | the processor advisory lock; tables `orders`, `trades`, `market_events` | `run`, `process_once` |
| Maintenance | `maintenance.py` | none of its own | `reset_demo_state`, then the seed |
| Market queries | `market_data.py`, `diagnostics.py` | none; repeatable-read transactions | `build_book`, `recent_trades`, `recover_market_events`, `build_stream_snapshot`, the diagnostics summary |
| Live stream | `notifications.py`, `broadcast.py`, `api/routes.py` | relay queue (1024), one queue per subscriber, the handler's cursor | `notify_market_event`, the relay's loop, `publish`, `subscribe`, `_consume_market_stream` |
| Rate limiter | `safety.py` | time stamps per client, a shared bucket for clients too many, the last cleanup | `allow`, `dispatch` |
| Heartbeats, readiness | `runtime.py`, `worker.py`, the loop of `processor.py`, `api/routes.py`, `diagnostics.py` | `runtime_heartbeats`; when each processor wrote last and is to write next | `write_heartbeat`, `remove_heartbeat`, `latest_heartbeat`, `/health/ready`, a worker's `/ready` |
| Seed client | `seed.py`, `market_profiles.py` | the trades it has made so far; its keys are the same in every run | wait for readiness, submit pairs and resting orders, wait for each command, count trades |
| Lesson client | `frontend/src/lesson.ts`, `api.ts`, `App.tsx`, `components/GuidedDemo.tsx` | three submissions (practice, setup, match), the practice offer, the stage | submit with one key, poll, clear an offer, match, end or leave the lesson |
| Page reducer | `frontend/src/App.tsx`, `market.ts` | last applied sequence, last received event, book, trades | apply snapshot, update, recovered events; reconnect |
| Presentation, wiring, migrations, infrastructure | the rest of `frontend/src`, `main.py`, `config.py`, `schemas.py`, `observability.py`, `alembic/`, `infra/`, `scripts/` | | not modelled |

How they interact:

```
 browser/seed --HTTP--> rate limiter --> API session --INSERT--> market_commands
                                              (ingest advisory lock)      |
                                                                          v lowest queued, SKIP LOCKED
 browser <--WebSocket-- handler <-- broadcaster <-- relay <--NOTIFY-- processor (processor advisory lock)
             ^ snapshot of orders, trades, market_events  <--------- engine restored for each command
 maintenance: processor advisory lock, TRUNCATE of the four tables, then a seed run
 processors --> runtime_heartbeats --> readiness and diagnostics of the API
```

What is hard here, and where it bites, is the list `hazards` of `PROJECT.json`: sequences
are handed out before they are committed; lookups and counts are used after other
transactions may have changed them; answers are lost after the commit; a processor can
fail or die between any two statements, or not hear that its commit succeeded; two
processors can run; the engine is rebuilt for every command; the reset removes what
others have read, and takes its locks one by one, in another order than readers do. Clients
send a keyed request again and again, give it up while it is still on its way, and race
with other visitors for their own orders. In the stream, hints are dropped and queues overflow by design, and
only cursors and polling make it right again.

What makes each component correct:

* engine: price-time priority, quantity conserved, the book never crossed, trades
  numbered without gaps across restores, finished orders final, and its own
  `assert_invariants` never failing;
* journal: one command per key, every caller of a key told of the same command,
  commands visible in the order of their sequences, limits never exceeded, no request
  waiting for ever;
* processor: the tables are the replay of the finished commands in order, one event
  for each, events in the order of application, nothing broadcast that is not
  committed, no command stuck at the head of the queue;
* maintenance: nothing half reset, sequences and cursors never going back;
* stream: a client that stays connected ends with the latest book, never takes an older
  one for newer, and learns of every event or that some were left out;
* rate limiter: no more than the limit in any window for one client, memory bounded, nobody
  refused without cause, `Retry-After` true to the second;
* heartbeats: online neither said for too long after the last processor is gone, nor
  denied while a healthy one runs;
* seed: what a run verifies is in the tables, and can be verified again;
* lesson: whatever is lost, refused or late, it leaves no order behind that may trade.

## 2. Modules

| Module | Models | State and actions against the code |
|---|---|---|
| `LimitOrder` | `engine/models.py`: the life of one order | `ApplyFill`, `Cancelled`, `ValidState` (the constructor's checks), `Crosses` |
| `MatchingEngine` | `engine/matching.py` | one variable per field (`_bids` and `_asks` are `levels`); `BeginSubmit`, `Fill` (an iteration of the loop), `FinishSubmit`, `Cancel`, the refusals, `BeginRestore`, `RestoreOne`, `FinishRestore`; `AssertInvariants` is `assert_invariants`, whose failure shows as `outcome = "BookInvariantError"` |
| `PriceTimeMatching` | matching in closed form: what each maker gets is what those ahead of it leave | used by the next module and by `CommandProcessor` |
| `OrderBook` | what the engine promises: a set of open orders, a tape, atomic `Submit` and `Cancel` | |
| `EngineRefinement` | the engine implements `OrderBook` | the fills of the submission under way are taken back until it ends; orders not yet restored still count |
| `Journal` | what acceptance promises: `Accept` above every sequence shown, `Skip`, `Finish`, `Erase` | |
| `CommandJournal` | `commands.py`, one session per request, statement by statement | `phase` is the statement a session is at, `row` its uncommitted insert, `ingest` the advisory lock, `nextSequence` the identity; `answers` is a history of what callers were told. Implements `Journal` |
| `CommandProcessor` | `processor.py` over `Journal`'s commands and the tables | `phase` of each processor in `process_once`; `pending` its uncommitted writes, installed at once by `Commit`; `Fail`, `CommitUnheard`, `Crash`, `Start` |
| `MarketLog` | what the processors promise one market's streams: `Append` of an event whose id and sequence are above every one before, `Erase` | |
| `MarketStream` | the way of an event to a page: `notifications.py`, `broadcast.py`, the handlers of `api/routes.py`, the reads of `market_data.py`, the page of `App.tsx` and `market.ts` | `hints` is the relay's queue, `queue` the broadcaster's, `handler` the locals of `_consume_market_stream`, `channel` the socket, `page` the page's refs, `answers` REST books under way; the actions of `Serve(h)` are one pass of the handler's loop each |
| `TableLocks` | the locks of `maintenance.py`'s TRUNCATE among the sessions of `CommandJournal`, the processor, and readers of several tables (`market_data.py`, `diagnostics.py`) | `reset` is the table the reset waits for; `reader` what each reading transaction has locked and seen, and what was committed since it began. Implements `CommandJournal`, whose reset is one step |
| `SeedClient` | `seed.py` for one market over `CommandProcessor`, with visitors and `maintenance.py` | `run` is the state of a job in `seed_market`, `late` its posts still on their way; `Post`, `Poll`, `GiveUp`, `Maintain` |
| `RateLimiter` | `safety.py` | `requests` and `lastCleanup` are the limiter's fields, `now` its clock; `Admit`, `Refuse`, `TooLarge` are the answers of `dispatch`; `served` and `told` are histories |
| `Heartbeats` | `runtime.py` and the loop of `processor.py` around its transactions, `worker.py`, readiness in `routes.py` and `diagnostics.py` | `rows` is `runtime_heartbeats`, kept as ages; `instance` is where each processor is in `run`, for how long, and the time to its next heartbeat |
| `LessonClient` | the lesson of `lesson.ts`, `App.tsx` and `GuidedDemo.tsx` | `page` is what the page remembers, `todo` what is left of the function that is running (one entry for each call it awaits), `orders` and `late` the server and the network; one action per button |
| `MC...` | instances for TLC | constants; `MCCommandJournal` also the specification of either dialect |
| `MatchingEngine_proofs`, `CommandJournal_proofs`, `CommandProcessor_proofs`, `SeedClient_proofs`, `MarketStream_proofs`, `RateLimiter_proofs`, `Heartbeats_proofs`, `LessonClient_proofs` | theorems about the module of that name; `CommandJournal_proofs` also about `TableLocks` | |

The chain is: `MatchingEngine` implements `OrderBook`, whose matching (`PriceTimeMatching`)
`CommandProcessor` uses in place of the engine; `CommandJournal` implements `Journal`,
whose actions `CommandProcessor` takes as its environment; `TableLocks` implements
`CommandJournal` with the reset taken apart; `SeedClient` extends `CommandProcessor`; the events `CommandProcessor`
writes implement a `MarketLog` for each market (`ImplementsMarketLog`), and `MarketStream`'s
market may do whatever `MarketLog` lets it, other markets' gaps in ids and sequences
included: it is the environment there, and what is shown of the page holds over any such
market. Definitions named as mutants in
their comments are not part of the model: each breaks one definition as a bug would, and
shows that a property notices.

Choices worth knowing:

* A request is a value without the server's order id, as `_semantic_payload` compares it.
  In `CommandProcessor` the id of an order is the sequence of its command, since the API
  draws a uuid for every row it inserts.
* PostgreSQL is modelled from how the code uses it: READ COMMITTED statements see what is
  committed, transaction advisory locks go at the end of the transaction, an insert waits
  for another uncommitted row of the same unique key, identities are not rolled back,
  TRUNCATE waits for transactions that used the table. With `Postgres = FALSE` there is
  no advisory lock and one writer at a time (SQLite, used by tests).
* A command's writes are computed in one step (`Apply`) and installed in one
  (`Commit`). Under the processor lock nobody else writes these tables between the two,
  and no reader sees uncommitted rows; the mutant that ignores the lock shows what
  the lock is for.
* In `CommandProcessor`, `Accept` and `Reset` are atomic, as `Journal` has them.
  `Reset` waits for the processor lock only; waiting for sessions is in `CommandJournal`,
  and the locks one by one are in `TableLocks`.
* A reader at REPEATABLE READ sees its first statement's rows, but a TRUNCATE committed since
  empties every table for it that it had not locked. What keeps its view whole is that it
  keeps the lock on its first table, which the TRUNCATE needs: `ViewIsWhole` is about that, and
  compares all tables of a view, the last one included (`Read` notes what a table shows, `EndRead`
  gives the locks up). A snapshot for a page that reconnects reads `market_events` twice
  (`Replay`). `TransactionsEnd` is about the price: a deadlock that PostgreSQL ends by letting
  the reset or the reader fail. Sessions and the processor are never the ones to fail.
* `allow` never awaits while it holds its lock, so a call of the limiter is one step. A
  tick is a fraction of a second, since `Retry-After` is rounded down to seconds.
* In `Heartbeats` times are ages that grow together and stop at `Old`, past every limit. A
  healthy instance takes at most `MaxWork` for a transaction; one that hangs, or whose
  heartbeat failed, is marked `faulty`, and nothing is promised of it. The clock of
  `last_seen_at` may differ from the API's by `MaxSkew`; `heartbeat_fresh` uses its own.
* In `LessonClient` the server is what the page can tell of it: a key is accepted once, its
  order may be filled at any time, and the cancel of an order that is not open any more ends
  all the same. `engine/exceptions.py:29` says of `OrderNotCancellableError` that the order is
  already filled or cancelled, but the processor restores its engine from open orders only,
  and rejects the cancel of a filled order as `UnknownOrderError`; the lesson reads the order
  again after either, and does not care which it was.
* While an order of the order form has a cancellation without an outcome (`pendingCancelOrderId`,
  here `cancelling`), every button of the lesson returns at once (`Start`). Its outcome comes by
  the stream, which may owe it for ever: the finding below is such a case, and so are outcomes committed
  before a newly opened page has its first snapshot. So `FormCancelTold` is never fair, and `LessonEnds`
  says that every lesson ends or such a cancellation waits for ever.
* In `SeedClient` processors do not fail: what a run would see of it is a longer wait, and it
  may give up at any time anyway. Answers 404 after a reset, 429, lost answers and timeouts
  all end a run (`GiveUp`); a post given up may arrive later.
* `MarketStream` follows one market. A book is the sequence of the last command it
  includes, an outcome is its event's id; prices, the list of trades (`mergeTrades`) and the
  wording of notices are left out. `outcomes` and `since` stand for what the user was
  told: the outcomes shown, and the event up to which the page owes none (it was
  opened later, or was told that older ones are left out).
* A notification between PostgreSQL and the relay counts as being in the relay's queue.
  A snapshot is read and sent in one step: what is committed between the two reaches the
  handler's queue or is found at the next heartbeat, as if it came after the send.
* The page notices a broken socket at once, the handler at its next send, as Starlette
  lets it: until then it keeps its place among the connections.
* An embedded processor publishes each command before the next one; a worker process never
  publishes. With an embedded processor every event is published twice, once as an
  update and once as the relay's hint, in either order.

## 3. Runs

Every run takes less than three minutes with two workers, most of them less than one.
`CHECK_DEADLOCK FALSE` is set where ids, sequences, keys or the clock run out by their
bounds; real callers never run out.

| Run | Instance | Shows |
|---|---|---|
| `engine` | 3 orders, prices 1 and 2, quantities 1 and 3, sequences up to 3, given by the caller or the engine | `QuantityConserved`: what an order lost is what it traded on the tape, in every intermediate state; `SnapshotAgreesWithQuery`: the levels the engine reports are those the REST query computes; `NeverBookInvariantError`: its own assertions, a crossed book among them, never fail; `PriceTimePriority`, stated over orders and not levels; `CallsReturn`; `ImplementsOrderBook`, which has final orders and a tape without gaps |
| `journal` | 2 sessions, 2 keys, 2 requests, queue of 1, journal of 2, 4 sequences, on PostgreSQL and on SQLite | `AnswersAgree`, `VisibleInOrder`, `ImplementsJournal`; `OneCommandPerKey`, by the unique key alone on SQLite; `ConflictIsExplained`: the `raise` after the second lookup is never reached |
| `table_locks` | 2 sessions, 2 keys, queue and journal of 1, 2 sequences, 1 reader of any of 4 views, any number of resets | `ViewIsWhole`: no two tables of a book, a snapshot, its replay or a summary show different moments; `CapacityHolds`, where the journal's limit of 1 implies the queue's (the theorem has any two limits); `TransactionsEnd`; `ImplementsCommandJournal`: lock by lock, the reset is one step to everybody |
| `processor` | 2 processors, 2 markets, 3 sequences, 1 fault | `MarketIsReplay`, `AppliedInOrder` (commands, one event each, events), `BroadcastCommitted`, `ImplementsMarketLog`; `LedgerBalances`: orders against trades, trade numbers without gaps, no crossed market, all on the tables |
| `processor_progress` | 2 processors, 2 sequences, 1 fault | `QueueAdvances`: no command stays queued for ever |
| `seed` | 2 pairs and a resting order, 1 job, 1 processor, a visitor who buys, sells and cancels, 6 sequences, any number of runs, late posts and resets | `VerifiedIsThere`: a verified market has a trade for each pair; `OthersSpoil`: a run misses its trades only for a visitor or a reset in the middle of a run; `VerifiedAgain`: what one run has verified, others begun since the last reset verify too |
| `stream` | a worker or an embedded processor that hears of its commits, 2 handlers, queues of 1, events and sequences up to 3 with gaps, replay of 1, 2 disturbances of any other kind | `SequenceOfBook`: the number beside the book is the book's; `OutcomesTold`: no outcome is left out unnoticed; `NeverBack` |
| `stream_catches_up` | both kinds of processor at once, events and sequences up to 2 with gaps, 1 place for connections, 2 disturbances (REST answers, broken sockets, unheard commits, resets), fair handlers | `BookIncludesLast`: the page resumes after no event that its book lacks, though an update may skip events of another processor; `CatchesUp`: the page ends with the latest book whatever becomes of hints and updates; `PlacesReturn`: the place of a page that is gone becomes free |
| `stream_lost` | an embedded processor, 1 commit it does not hear of | the finding below |
| `rate_limiter` | 3 clients, 1 bucket of their own, limit of 2, a window of 4 ticks of half a second, 13 ticks | `WindowHolds`, `SharedWhenCrowded`: a client shares only while others are really active; `RefusalJustified`; `RetryAfterHonest` |
| `heartbeats` | 2 instances, heartbeats every 2, stale after 6, backoff and work of 1, clocks off by 1 either way, 2 faults | `OnlineIsRecent`, `NoFlap` |
| `lesson` | 3 submissions, 2 calls that are lost, refused or late, cancellations in the order form with or without an outcome | `NothingLeftOpen`, `OneBuyer`, `EndingCreatesNothing`, `LessonEnds` |

The type invariants of the engine, the limiter and the lesson are part of the first
invariant of their runs and are theorems too; those of the journal, the stream and the heartbeats
are theorems. Of the processor, what it holds between its statements is a theorem
(`ProcessorTypes`), and the rows of `orders` and `trades` are part of the invariant
`MarketIsReplay` of its run.

Why the bounds are enough: a level needs two orders for FIFO to matter, and a sweep needs
a taker and two makers; three orders give both, with a restore or a cancel between any
two. Quantities 1 and 3 give partial fills on both sides. The races of
acceptance are between two sessions (the holder of the lock and one that comes before or
after), of one key or of two; a queue of one is full for the second. A processor error is one fault; a
second one meets the same states, since everything uncommitted is gone after the first.
Three commands give a maker, a taker and a cancel, in one market or two. A reader meets the reset
at every table; more readers only hold more of the same locks. Two pairs of a seed
have their makers on either side, at prices that would cross if a maker were left over,
and six sequences let a visitor come between any two orders, with a reset behind it; with its one job,
that several jobs overlap is in the theorems only (late posts of a job that gave up overlap with the
next all the same). One
bucket among three clients gives one that owns it, one that shares and one that takes it over; 13 ticks
are the three windows in which a clean-up comes too late, in time, and again. Two instances are one that
stops while the other runs; two faults are one for each. A lesson needs at most three submissions
at a time, and two faults are a lost answer and a refusal of the repeated call.

In the stream a disturbance is a REST book under way, a broken socket, a lost relay connection, a restart of the API,
a page opened anew, a reset, or a commit its processor does not hear of; each cfg says
which may happen. Two of them give a reconnect after a reset, a reset seen from a restarted
API, or a hint lost while the page is away. The queues and the relay hold one message,
and the socket one, so that the second event already overflows them, and the replay holds one event, so that
two missed events are more than it takes. Two handlers are an old one that has not
noticed its page is gone, and the new one.

Fairness. `FairSpec` of the engine: a call is sequential code and goes on. Of the
journal: strong fairness of each session's own statements (not of losing it), since
PostgreSQL grants a lock in the order it was asked for and every wait in a session is
for that lock or a row. Of the processor: weak fairness of each processor's loop, which
polls for ever; and the platform starts a dead process again (`Start` is one of its
steps). Faults are never fair and are bounded by `MaxFaults`. Of the stream: weak fairness of
each handler (its heartbeat comes for sure, `heartbeat_seconds` after the last message), of the
page's socket and of its reconnection. The relay, the publications, the REST answers
and the commits are never fair, so `CatchesUp` rests on heartbeats and cursors alone, as
`docs/architecture.md` wants it. Of the tables' locks (`FairTablesSpec`): strong fairness of sessions and
readers, whose locks are granted in turn, weak fairness of a reader's end, weak fairness of the deadlock detector and of the
reset's statements; nobody has to begin a reset or a read. Of the lesson: weak fairness of
the processor and of the page's own calls, strong fairness of the button that ends the lesson, since
`LessonEnds` is about a visitor who insists; none of the stream that tells a cancellation's outcome. The limiter, the heartbeats and the seed have safety properties
only; `Heartbeats` bounds the time of a healthy instance's steps instead (`Pass`).

### Findings

`docs/architecture.md:103` says of the stream that a missed notification is a latency event
and not a data-loss event. With a processor inside the API, an update is sent to the page
as soon as it is newer than the handler's cursor (`api/routes.py:436`), not only when it is
the next one. So if the commit of one event succeeds without the processor hearing of it,
and its hint is missed as well, the update of the next event moves the cursor past it, and
the page never tells the outcome of the first (run `stream_lost`). The books are right
all the same. It does not happen when processors run only in workers, nor with one embedded
processor that hears of its commits (run `stream`, and theorem `StreamOutcomesTold`).

## 4. Proofs

Each `*_proofs` module proves its theorems for every value of the constants that the `ASSUME`s of
its modules allow; where a theorem assumes more, it says so here. An invariant `Inv` (with
`Init => Inv` and `Inv /\ [Next] => Inv'`, one lemma for each action) stands at the head of each
module; what follows says what it adds to the properties, and where the argument is.

`MatchingEngine_proofs`, for any orders, prices, quantities and sequences:

* `EngineTypes`, `EngineNeverBookInvariantError`, `EnginePriceTimePriority`,
  `EngineQuantityConserved`, `EngineSnapshotAgreesWithQuery`. `BookInv` says that each level is a
  non-empty FIFO of active orders of its side and price in strictly rising sequence, and that each
  active order is in the level of its price; with the removal from any place of a level (`Without`)
  it is kept by fills, cancels and restores. `OrdersInv` and `PoolInv` say that no two orders would trade
  with each other (`Apart`), in the book or waiting to be restored, which is what keeps the book from being
  crossed: a submission rests only when `BestCrossing` is empty, and then it crosses no level
  (`NothingCrosses`), since a best level exists (`BestExists`; bids have a greatest price because
  there are finitely many, `BidsBounded`). `AssertInvariants` follows (`InvAsserts`), so the engine's own check
  never fails; so does priority, as the head of the best level outranks every other order.
* `EngineImplementsOrderBook`: the loop of `submit` against the closed form of `OrderBook`. The book that
  an unfinished submission came to is rebuilt from the orders and its fills (`OpenBook`), and a fill
  leaves it as it is (`BookKeepsOnFill`). The invariant of the loop, `FillsRight`, says of this book
  that the makers so far are the first in price-time order, each with what those ahead of it leave
  to it, and that all of them are exhausted while something remains; a fill with the best of the
  others keeps it (`NextFillIsRight`). `FillsOnTape` and `Numbered` say that these fills are the end of
  a tape without gaps. When no maker is left, or nothing remains, the fills are the allotments
  (`AllotmentsAre`), their sum is what was filled (`AllottedIs`) and their order is the order in
  which the closed form serves the makers (`ServedAre`, `TradesAre`), so `FinishSubmit` is one `Submit` of the
  abstract book (`FinishIsSubmit`). The other steps are a `Cancel` or stutters.
* Sums are of natural numbers over finite sets (`Total`): they are counted as units
  (`TotalIsUnits`), from which follow one summand more (`TotalWithOne`) and the sum along
  a bijection (`TotalVia`), here from the places of a FIFO to the orders the REST query selects.

`CommandJournal_proofs`, for any number of sessions, keys and requests, any limits and an unbounded
number of sequences:

* in either dialect, `TypeOK`, `OneCommandPerKey`, `AnswersAgree`, `ConflictIsExplained`,
  `VisibleInOrder` and `ImplementsJournal`;
* with the ingest lock (`ASSUME Postgres`), `LookupIsFinal` and `CapacityHolds`.

None of the first three is inductive. `Inv` adds what is known of
uncommitted rows: a session has one exactly between its insert and its end (`RowsOfInserts`), below the
identity (`IdentityAhead`), of a sequence and key that no committed row has (`RowsAreNew`) and no
other pending row has (`RowsDiffer`). The interesting steps are `InsertInv`, where waiting for other
rows of the key is what keeps `RowsDiffer`, and `CommitInv`, where `RowsDiffer` is what keeps `RowsAreNew`
for the others. `LockInv` adds that a session between its lookup and its end holds the lock, that its key stays
absent, and that its row is above all committed ones; `CapacityInv` that there is still room from the
count to the commit, which needs that nobody else inserts meanwhile, and the cardinality
of a set with one element more. Without the lock, commits are in order because there is one writer at a time.

`CommandProcessor_proofs`, for any processors, markets, requests and faults:

* `ProcessorOneWriter`: who is in a transaction has the lock, and what it has claimed is and stays
  the head of the queue (`ClaimIsHead`); `ProcessorAppliedInOrder`; `ProcessorBroadcastCommitted`;
  `ProcessorImplementsMarketLog`: for each market, whatever fails, dies or is not heard of. An
  uncommitted event is above every visible one and above those committed but not broadcast (`PendingIsNew`).
* `ProcessorMarketIsReplay`: the tables are the replay of the finished commands. What an applied and
  uncommitted transaction holds is the outcome of its command on the tables as they still are. `Replay`
  is a recursive function over sequences; that it unfolds is proved by least numbers, and that it does
  not change below a command that finishes, from the order in which they finish.
* `ProcessorLedgerBalances`: the invariant (`Ledger`) is said of any orders and trades, so that it can be
  said of the tables and of what an uncommitted transaction will make of them. The outcome of a
  command keeps it if the order's id is above all stored ones. It is, since the id is the
  command's sequence, every stored order is of a finished command of its market, and these are
  all below the claimed one. Within the outcome, the sums over the tape grow by the allotments, each
  at most what the maker had left, and an order rests only when it has exhausted all it
  crosses. It rests on `RequestAssumption`: prices and quantities are positive, as the schemas have it
  (`schemas.py:21`).
* `ProcessorEngineNeverRefuses`: from the same invariant, no claimed command is refused by the engine restored
  for it. An engine error leaves its command queued (`processor.py` rolls back), and with it
  every later one of all markets; there is none, in any reachable state.

`SeedClient_proofs`, for any jobs, processors and resets, any plan of pairs and depth, and any keys and requests
of visitors, as long as the planned orders are legal and their keys are not the visitors'
(`SeedAssumption`):

* `SeedRunsProcessor`: `SeedSpec => Spec`, so all that is proved of `CommandProcessor` holds here too;
* `SeedVerifiedIsThere`, `SeedVerifiedAgain`. A job keeps only how far it is and which trade numbers it was
  told. `RunsInv` says that, unless a reset came in between, both are what the tables
  still say; this is kept because between two resets a finished command stays finished, with its outcome,
  and gets no more trades (`Grows`), so what a poll has read cannot go stale;
* `SeedOthersSpoil`. `AloneInv` says what the market looks like while it has no visitor's order and
  no reset has hit a run: a late post has all its predecessors done, orders are accepted in the plan's order
  (`InTurn`), a taker is filled with a trade to show for it, and a maker waits untouched until its
  taker is done (`Settled`). Each kind of order keeps that (`MakerSettles`, `TakerSettles`,
  `RestSettles`), so every taker trades with its maker; trades have different numbers, hence
  `seed_market` counts enough of them (`EnoughAlone`).

`CommandJournal_proofs` of `TableLocks`, for any readers, sessions and resets:

* `TablesViewIsWhole`: while the reset has a table, no reader has it (`Unlocked`), and a reader
  without a table has seen nothing (`SeenOnce`); so when the reset commits, with the last of the
  four tables, no reader has seen anything, and all that a reader sees, up to its last table, is from
  before the reset or from after it;
* `TablesImplementCommandJournal` (`ASSUME Postgres`): every step is one of `CommandJournal` or a
  stutter, so the theorems above hold of the reset with its locks as well.

`MarketStream_proofs`, for any number of handlers, any sizes and limits and any kinds of
disturbance:

* `StreamTypes`: the types of all that is queued, sent and held. The step that is more than
  bookkeeping is the snapshot: if it says that more was missed than it replays, then it
  replays something (`RecoveredOfMissed`: the greatest missed event is always among the
  replayed), so the page's `Math.min` over the recovered events has a value;
* `StreamTypeOK`: whatever is sent at whatever pace, the relay's queue, the handlers' queues, the socket and the
  places for connections stay within their limits (`Sizes`), a handler that has returned has no queue, and
  no cursor, REST answer or page is ahead of the market (`Numbers`);
* `StreamNeverBack`: `NeverBack`, from the types and one lemma per thing that reaches the
  page (`WithBookForward`, `WithCurrentForward`, `WithRecoveredForward`, `ReceiveForward`);
* `StreamBookIncludesLast`: a corollary of the order of all pairs, next: an event up to the page's
  cursor has a sequence of at most the book's;
* `StreamSequenceOfBook`: all pairs of event and command sequence, wherever they are held (queues, socket,
  REST answers, cursor, page), are in one order, and the page's agrees with each (`StreamInvariant`);
* `StreamOutcomesTold`, where no commit goes unheard and the processors run in one place, which run
  `stream_lost` shows to be needed. No message under way tells an event and skips one before it
  (`AllTell`), and no queue skips an event between a handler's cursor and the next mark that
  makes it read the tables (`AllFed`); with an embedded processor, what is missing from a queue is what is committed and
  not yet published.

`RateLimiter_proofs`, for any clients, limits, windows and numbers of buckets:

* `LimiterTypes`, `LimiterWindowHolds`, `LimiterSharedWhenCrowded`, `LimiterRefusalJustified`,
  `LimiterRetryAfterHonest`. `CountInv` says that for each moment of the window a bucket has exactly as many
  later stamps as requests have passed since, whatever clean-ups dropped; `SeenInv` that what it
  holds has passed; `ToldInv` that a client told to wait still has the bucket that was full, or what is left of
  it, and that its first stamp expires when the client was told, rounded down to seconds.

`Heartbeats_proofs`, for any instances, clocks, number of faults and any settings that
`HeartbeatAssumption` allows:

* `HeartbeatTypes`, `HeartbeatOnlineIsRecent` and `HeartbeatNoFlap`. The invariant `Inv` says of each
  instance that its row is there only while it runs or is lost, and then at least as old as
  the loss (`RowIsKept`), that a healthy one is within the time of its stage (`InTime`), and how old
  its heartbeat may be at each stage of the loop (`HasRow`): when the next is due the last is at
  most `Due` old, then a transaction and a wait may still come before the write. This sum is
  what `HeartbeatAssumption` asks of the stale time; `config.py` checks no relation between these
  settings, and its defaults leave the room.

`LessonClient_proofs`, for any number of keys and faults:

* `LessonTypes`, `LessonNothingLeftOpen`, `LessonOneBuyer`, `LessonEndingCreatesNothing`. `Inv` relates what
  is left of the running function to the page and the server: each call left belongs to a
  submission that is held (`TodoInv`); one not yet sent is sent next (`FreshInv`); before the lesson
  is called over, or a success, every submission is settled, will be, or was refused and is not sent again
  (`OverInv`, `SucceedInv`); a matching buyer is there only once the first offer is done
  (`MatchInv`); and a live order belongs to a submission the page still knows (`LiveInv`). A cancellation
  in the order form touches none of this.

Model-checked only is liveness (`CallsReturn`, `TransactionsEnd`, `QueueAdvances`, `CatchesUp`, `PlacesReturn`,
`LessonEnds`): fairness and `ENABLED` are outside the prover. Every safety property of every passing run is a
theorem.

## 5. Not modelled

Parsing and validation of requests (the models take values the schemas accept), types of
constructor arguments, time stamps and latencies, logging, metrics, rendering, migrations,
infrastructure, scripts. Integer overflow: prices, quantities and sequences are `BIGINT` and
Python integers, and the schemas bound the first two far below. Of the queries, the paging
of `recent_trades` and the counts and percentiles of the diagnostics.

Of the live stream: refused origins and symbols, the stream's counters, a page that
follows several markets at once. After a reset without a new event nothing is sent, and
pages keep showing the old book until then; `CatchesUp` says so.

Of the limiter: how a client's key is found behind a proxy. A client that moves from the
shared bucket to one of its own may pass twice the limit in one window (`WindowHolds` is about
buckets), and `Retry-After` is rounded down: a second more is what suffices
(`RetryAfterHonest`).

Of the lesson: a reload of the page, a reset of the market during the lesson, the figures of the
quote, and the symbol of the visitor's own orders.

Of the seed: other markets (they share nothing but the number of requests), the wait for
readiness. Two limits of what it promises are in the model and worth knowing. A reset in the middle of
a run (`torn`), or a visitor who takes the first order of a pair before its second, can leave
a pair without a trade under its keys, and then every later run ends with "completed without a persisted
trade" until the next reset: the maintenance job's retry recovers, since it resets first, the
seed job's does not. And a run that a reset overlaps counts trade numbers of two numberings, so it
may find too few where another has found enough, or enough where there are too few: `VerifiedIsThere`
and `VerifiedAgain` are about runs begun since the last reset (`undisturbed`), and `OthersSpoil`
excepts runs that a reset tore: they do not repair such a market, they say that nothing else spoils one.

## 6. Plan

Done: all models, and the theorems of section 4. Liveness stays with TLC.

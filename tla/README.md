# Order & Inventory API: TLA+ models and proofs

The repository is an Express/TypeScript backend with MySQL (Sequelize), Redis
and BullMQ: products, orders, accounts. This directory holds TLA+ models of the
parts whose correctness depends on the order in which things happen, TLC
configurations that check them on small instances, and TLAPS proofs of the
results that matter most for instances of any size.

Paths below are relative to the repository root.

## The system

| Component | State it keeps | Operations | Modelled in |
|---|---|---|---|
| Order creation (`src/modules/Orders`, `src/utils/transaction.ts`) | `orders`, `order_items`, product stock | `createOrder`; `listOrders` reads | `StockTransactions`, `Inventory`, `OrderData` |
| Product catalogue (`src/modules/Products`) | `products` | `createProduct`, `updateProduct`, `softDeleteProduct`; `listProducts` reads | the same (edits); `ProductCatalog`, `Catalog` (creation) |
| Idempotency (`src/services/idempotency.service.ts`, `src/middleware/idempotency.middleware.ts`) | `idempotency_keys` | resolve, capture, complete | `Idempotency` |
| Response cache (`src/utils/redis.ts`, `src/middleware/cache.middleware.ts`, `src/config/redis.ts`) | Redis keys with a TTL, the ready flag | `cacheResponse`, `invalidateCache` | `ResponseCache` |
| Order email jobs (`src/jobs`, `src/utils/sendmail.ts`) | a BullMQ queue in Redis, a worker per process | queue after commit, process with five attempts | `OrderJobs`, `OrderMail`, `OrderServer` |
| Accounts and sessions (`src/modules/Auth`, `src/middleware/Admin.middleware.ts`) | `users` with refresh token and reset code | signup, login, refresh, forget, reset, change | `Sessions` |
| Rate limiter (`src/middleware/rateLimiter.middleware.ts`) | counters inside a library | 10 orders a minute per user | not modelled |
| Start and shutdown (`index.ts`, `src/server`, `src/utils/freePort.ts`) | module variables of a process; the port | start, graceful shutdown, forced exit | `Lifecycle`, `OrderServer` |
| Migrations (`DB/migrate.ts`, `migrations`) | the tables, `SequelizeMeta` | `runMigrations` at every start; undo, status and seed by hand | `Lifecycle` (the start) |
| Seed, validation, responses, logging, API docs | none at run time | | not modelled |

How they interact. A `POST /orders` passes the token check, the rate limiter,
`requireIdempotencyKey`, validation and the controller. The middleware writes a
"processing" row and wraps `res.json`; the service runs one transaction, starts
queueing the email job without waiting for it, and reads the order back; the
controller awaits the cache invalidation and answers; the wrapped `res.json`
starts the write that completes the row, does not wait for it, and sends. Product
edits are one transaction followed by the same invalidation. GETs go through the
cache, which stores an answer after it was computed, again without waiting.

A process connects to MySQL, then to Redis, starts its worker when that worked,
migrates the database, frees the port (by killing whoever listens on it) and listens.
Processes meet in MySQL, in the queue and at the port: a restart by docker
(`docker-compose.yml:37`), a second instance, a `tsx watch` next to a container.
On a signal a process cuts its connections, closes the worker (which waits for the
running job), the queue, the Redis client and the pool, in that order, within two
seconds. Requests it had accepted go on meanwhile.

What is hard, and therefore modelled: interleaved transactions and row locks, a
statement or a commit acknowledgement that fails, a process that dies anywhere,
concurrent and repeated attempts under one idempotency key, writes that are not
awaited, Redis coming and going, invalidation that is not atomic, jobs that stall and are
run again, processes that start, migrate and stop while others do, and gap locks.
`PROJECT.json` lists each such hazard at its line.

What makes each component correct:

* **Orders and products**: no oversell, no lost or leaked unit, all or nothing,
  no deadlock among row locks, truthful answers, every call answered.
* **Idempotency**: one order per key, replays of exactly the stored answer, answers
  that are final, progress.
* **Cache**: what is stale, and why, and for how long; a mutation is kept waiting only by a
  `SCAN` or `KEYS` that Redis does not answer.
* **Jobs**: an email only for an order that exists; queued jobs settle; the emails about an
  order are bounded; and when an order goes without email, or a job runs twice, is explained.
* **Start and shutdown**: who serves requests has every migration recorded and no legacy
  table, and a table or index that is missing all the same is explained; a start is
  bounded; a shutdown that completes leaves no job behind.
* **Product creation**: one product per SKU, a truthful 409, no circle of waiting for ever.
* **Sessions**: one account per email, what a token rotation, a reset or a password change
  supersedes is refused for good, and no stale instance undoes what an answer promised.

## Modules

| Module | What it is |
|---|---|
| `OrderData` | data and pure functions: rows, the merge of a body's items, lock order, totals, `toFixed(2)`, edits and the model's validator |
| `Inventory` | abstract specification: a ledger in which an order is placed, or a product edited, in one step |
| `StockTransactions` | the transactions of `createOrder`, `updateProduct`, `softDeleteProduct` statement by statement, with locks, pool, faults, crashes; refines `Inventory` |
| `StockTransactions_proofs` | TLAPS proofs about it |
| `Idempotency` | attempts, the row of a key, the handler's outcome, the unawaited completion, expiry, crashes |
| `Idempotency_proofs` | TLAPS proofs about it |
| `ResponseCache` | reads, mutations and Redis |
| `ResponseCache_proofs` | TLAPS proofs about it |
| `Sessions` | the account's handlers on instances loaded earlier |
| `Sessions_proofs` | TLAPS proofs about it |
| `Catalog` | abstract specification: a product is created, and a duplicate found, in one step |
| `ProductCatalog` | `createProduct` statement by statement on row and gap locks; refines `Catalog` |
| `ProductCatalog_proofs` | TLAPS proofs about it |
| `OrderMail` | abstract specification: what becomes of an order's email |
| `ServerData` | constants and bounds of the next three |
| `OrderJobs` | queueing, the queue, workers, stalled jobs, Redis; refines `OrderMail` |
| `OrderJobs_proofs` | TLAPS proofs about it |
| `Lifecycle` | processes that start, migrate, take the port, stop or die |
| `Lifecycle_proofs` | TLAPS proofs about it |
| `OrderServer` | composition of `OrderJobs` and `Lifecycle`: a joint step is a step of each |
| `OrderServer_proofs` | TLAPS proofs about it |
| `MC*` | instances for TLC |

Definitions whose comment starts with "Mutant of" are deliberate bugs. No
specification uses them; each shows that some property would notice that bug.

### StockTransactions and the code

`product` and `orders` are the committed tables. A transaction's own writes are
kept apart until `Commit`: `createdOrder`, `updated` (products written) and
`inserted` (items written). `lockedProducts[r]` is the array of that name, the
rows as they were read; `WrittenRow` is what `Product.update` will have stored:
the stock computed from the row read earlier, not from the row as it is then.
That the two agree is a property (`SnapshotCurrent`), not an assumption.

| Action | Code |
|---|---|
| `CallOrder`, `CallEdit` | a validated request reaches its controller; `mergeOrderItems` |
| `BeginTransaction`, `BeginFails` | `runInTransaction`: a pooled connection, or none |
| `LockProduct`, `RefuseNotFound`, `RefuseShort` | one turn of the locking loop: `SELECT ... FOR UPDATE`, then accepted or thrown |
| `InsertOrder` | `Order.create`, failing on a total beyond `DECIMAL(10,2)` |
| `UpdateStock`, `InsertItem` | one turn of the writing loop |
| `SaveEdit` | `instance.update` with the model's validators |
| `Commit(r, TRUE)`, `Commit(r, FALSE)` | COMMIT, acknowledged or not |
| `StatementFails`, `Rollback`, `Crash` | any statement fails; the wrapper rolls back; the process dies |

Money is in integer cents; a client's price is in mills so that rounding to 0.00
can happen. Binary floating point in the total is not modelled: for prices with
two decimals and totals within the column, the rounded sum is the exact one.

`STOCK_UPDATE_FAILED` (`Order.service.ts:116`) has no action: the updated row is
locked by the same transaction, so the update always finds it.

A missing row and a soft-deleted one are one case. The gap lock that InnoDB takes
for a missing id is not modelled: ids are random UUIDs and inserts of products
never wait in an order's transaction.

### Idempotency and the code

One row per scope and key, `record[k]`; `expired` says that `expiresAt` has passed.
The order transaction is one step here (`OrderCommits`, or `OrderRejected` with a
refusal or failure), because `StockTransactions` implements `Inventory`, where it is
one step. What follows the commit is kept in detail: `ReadBack`, `RespondCreated`
and `FailAfterCommit`, where the read-back or the invalidation throws into the
controller's catch. `completing` holds the writes that `captureResponse` started.
`earlier` and `disturbed` are history variables that only properties read:
attempts answered before this one was sent; keys under which something failed.

`Expire` waits until no attempt under the key is running: the 24 hours are far
longer than any request.

### ResponseCache and the code

A response is identified by the number of mutations committed when it was read,
because every order and product mutation may change what every cached list shows
and both groups name both namespaces (`GroupAssumption`). `SCAN`, the `KEYS` fallback
after an empty scan, and each `DEL` are separate steps. `FailBeforeInvalidate`
stands for everything that skips the invalidation after a commit. Entries
survive a lost connection. `mustSee`, `overtaken` and `disturbed` are history.

`DEL`, `GET` and `SET` come after a check of the ready flag; `SCAN` and `KEYS` do not
(`redis.ts:13`, `:29`). Without a connection node-redis keeps such a command in its
queue, and nothing times it out, so `Scan` and `KeysFallback` wait for Redis. A command that
was sent when the connection goes away is rejected (`ScanFails`), which skips the rest
of the invalidation. How long a mutation waits is thus up to Redis (`AnsweredUnlessScanWaits`).

### Sessions and the code

One account; the row of `users` is a function of three fields, each with an expiry
standing for the pair of columns. A token, code or password is identified with the
request that made it: tokens are 40 random bytes; six-digit codes are taken not to
repeat, and every new password to be new. `Load` is the `findOne` and the comparisons
the handler makes before its next await (for `changePassword` the `findOne` is in
`authenticateRequest`); `UpdateUser` is the `user.update` some time later. Sequelize
puts into the UPDATE only assigned fields that differ from the loaded instance
(`Written`), so a null assigned to what was null when loaded is not written: a login
that overlaps a password change may leave its token behind, and the properties
excuse overlapping calls only. Handlers share nothing in memory, so a crash is the
failure of each running request and has no action of its own.

### ProductCatalog and the code

SKUs are numbers in the order of the unique index. `holds` is what a creation's
transaction has locked: the row its lookup found, the gap its lookup found empty
(`Covers`), or also the row it inserted there. At REPEATABLE READ a `FOR UPDATE` that finds nothing
locks the gap, and gap locks exclude inserts only, so both of two rivals may hold one
and wait for each other (`Waits`); `Deadlock` is InnoDB's choice of a victim.

| Action | Code |
|---|---|
| `FindSku` | `Product.findOne` with `LOCK.UPDATE`; the 409 |
| `Insert` | `Product.create`: the validators, the wait for gaps of others, the unique index |
| `Deadlock`, `StatementFails`, `Rollback` | the statement is rejected, the wrapper rolls back, the controller's catch answers |
| `Commit`, `Respond` | COMMIT, acknowledged or not; the invalidation and the 201, or a 500 when it throws |
| `Crash` | the process dies |

### OrderJobs and the code

`notice[o]` follows `queueOrderCreatedJob` at the order's server: after the commit it
is skipped when the client is not ready, or `queue.add` is under way until Redis answers.
An add whose answer is lost is sent again (`maxRetriesPerRequest: null`), and the `jobId`
makes it harmless. A shutdown loses emails without any fault, and both ways are modelled:
`closeOrderQueue` forgets the queue only after its close has resolved, so an order that
commits meanwhile finds a queue that is `closing`, its add is rejected (`AddRejected`) and
the error logged; and the client is not ready from the call of `quit` on (`"quitting"`),
when orders are skipped. An add that was sent before may still be executed. `job`, `attemptsMade`, `stalledCounter` and `lock` are what Redis keeps
of it; `worker`, `current` and `stage` what a process has in memory. The handler is one
step with a free outcome: missing rows or tables and failing queries make it throw, and a
mail may go out without the process learning it. BullMQ and Redis are modelled from
how `src/` uses them: a lock that is renewed while its run can reach Redis, a stalled
check, a backoff, at most one stall by default (`MaxStalled`).

### Lifecycle and the code

A process runs once; `phase` is the await it is at. Tables are known by the migration
that creates them: orders, order_items, idempotency_keys (made and then indexed by two
statements) and the performance indexes; the number of others is a constant.
Nothing locks the database while it is migrated, so what a check saw may be untrue when
it is used. The checks are therefore queries of their own: `CheckTable` is `tableExists`,
`RecheckTable` the same query again inside `columnExists` and `indexExists`, `DescribeTable`
what those ask of the table; when the table goes away between the two calls of `tableExists`,
`orders` counts as migrated. The table is dropped, later, whatever it has become. History:
`overlapped` (processes that migrated at the same time), `raced` (one of them dropped a table),
`halved` (a process ended between `idempotency_keys` and its unique index).

Queries and statements are steps one by one, with these exceptions: the seven performance
indexes are taken for one, on `orders`; the second index of `idempotency_keys` is part of the
first; the `SET FOREIGN_KEY_CHECKS` around the drops are no steps.

| Action | Code |
|---|---|
| `StartServer`, `RedisTried` | `startServer` up to and including `connectRedisOrWarn` |
| `ReadPending`, `CheckTable`, `RecheckTable`, `DescribeTable`, `DropItems`, `DropTable`, `CreateTable`, `AddIndex`, `RecordMigration`, `MigrationsDone` | `runMigrations`, the `up` functions and their helpers |
| `FreePort`, `Listen`, `AddressInUse` | `listen` and `freePort` |
| `Signal`, `CloseHttp`, `StopWorker`, `CloseQueue`, `CloseRedis`, `ClosePool` | `gracefulShutdown`, await by await |
| `ForceExit`, `Fail`, `Kill` | the timer, a rejection on the way, SIGKILL |

### OrderServer and the code

Each await of the life cycle is joined with what it does to jobs: `connectRedisOrWarn`
with the client and the worker, `CloseServer` with the four closings, every end of a process
with `ProcessesEnd`. A step of `CloseServer` is the answer to one await together with the call
of the next: when the worker is closed the queue starts closing, when that is done `quit` is
called. An order may commit while its server listens or stops.

## Runs

| Run | Instance | Question |
|---|---|---|
| `stock_transactions` | 2 orders, 1 edit, 2 products, 2 connections; 39,526 states | is the proofs' invariant right, does the refinement hold, is every call answered? |
| `stock_race` | 3 orders, 1 edit, 3 connections, symmetric orders; 198,004 states | deadlock, whether somebody can always go on, accounting, refusals, successes under contention |
| `idempotency` | 3 attempts, 1 key, 2 bodies; 14,997 states | one order, faithful and final answers, progress |
| `idempotency_retry_after_created`, `idempotency_in_progress`, `idempotency_retry_expired`, `idempotency_failed_order` | the same | four claims of tests and docs that the code does not keep |
| `response_cache` | 2 reads, 2 mutations, 2 namespaces; 438,622 states | what can be stale, does it leave, do mutations end unless Redis leaves a scan waiting? |
| `session_routes` | any 3 calls on the 6 routes, interchangeable requests; 282,463 states | one account per email, do password changes revoke? |
| `session_races` | any 4 calls of login, refresh, forget, reset; 4,810,750 states | are superseded credentials refused, do stale instances undo answers? |
| `order_server` | 2 processes, 1 order, 2 attempts, 1 stall, 1 fault, 2 binds, 4 migrations; 817,086 states | when is an email lost or sent twice, what can a served schema lack, are starts bounded, do jobs end? |
| `product_catalog` | 3 creations, 3 SKUs, 1 fault; 246,144 states | duplicates, deadlocks and circles of waiting, answers, progress |

Bounds and why they are enough. Stock is 2 and 1 units, so that three orders cannot
all be served; one basket names the products in descending order (unsorted
locking would deadlock), one repeats a product, a total of 8 cents fits and 9
does not; edits change price and stock, round to zero, or delete. Two connections
for three requests make the pool a bottleneck, three let everybody hold locks. A
circle of waiting needs two requests and two rows. For idempotency: two attempts
with one body and one with another give the race, the replay and the conflict,
and a third attempt after an expired or abandoned one; keys share nothing but the
process that may crash. For the cache: one read fills, another is served, and two
mutations with opposite group orders make each namespace first once and second
once. A violation of a session property needs the call that supersedes, the one that
made the credential and one that overlaps, and a fourth that presents it; sign up
and change password, which add no new pair of field and race, take part with three. For the servers: two processes are
two migrators, an instance and the one that kills it, or one and its restart; orders share
only the worker, so one order meets every case; two attempts separate a retry from the
last one, one stall a repeated run from a job given up; one fault is an outage, a lost
commit or a lost answer; four migrations are the legacy pair, the one with two
statements and the indexes, orders first, on a database that is new or has legacy tables.
For creations: three rivals for one SKU, or for three SKUs of one gap, of which one may
carry a price of 0.004; a circle of waiting needs two. Deadlock checking is off because every
request ends: a finished system stops.

### What the violated claims show

* `RetryAfterCreatedReplays` (`tests/idempotency/idempotency.api.test.ts:65`): a retry
  after a 201 may be answered 409, since the row is completed after the answer.
* `InProgressIsTrue` (`idempotency.service.ts:69`): "still being processed" is also said
  of a row whose attempt died.
* `RetryNeedsNoFault` (`README.md:31`): after 24 hours a key answers 500 for ever; the
  lookup skips the expired row, the unique index does not.
* `FailedMeansNotOrdered` (`Order.controller.ts:40`): `ORDER_CREATE_FAILED` may be the
  answer, stored and replayed, for an order that was committed.

### What the properties allow

Some properties bound a weakness of the code rather than exclude it; what they allow happens
in the runs. `SchemaServed`: a table that two migrators dropped may be missing though
recorded, and `idempotency_keys` may lack its unique index for good. `LossExplained`: a
shutdown loses emails of orders that commit during it. `AnsweredUnlessScanWaits`: a mutation
waits as long as its scan does. `StalledMeansCutOff`: a process cut off makes its job run twice.
And no property says that a reset code whose `forgetPassword` was answered 500 is void: it is not.

### Fairness

* `StockTransactions`: weak fairness of each request's next own step. Node keeps
  running a handler, the pool and InnoDB serve those who wait, and waits end by
  timeouts. No fairness for calls, faults or crashes, so the liveness property also
  covers a request that waits for another's lock until that one rolls back.
* `Idempotency`: weak fairness of an attempt's step and of a completion that was
  started (it ends by success or failure).
* `ResponseCache`: handlers go on, a started `SET` ends, Redis expires entries. That Redis
  comes back is not assumed. Fairness of a mutation is strong because a `SCAN` or `KEYS` can go on
  only while Redis is there: sent again at every reconnect, it is answered or rejected at some
  time if Redis keeps coming back. While Redis stays away it waits, and the property says so.
* `OrderServer`: each worker's next step, the timers of the queue (backoff, lock, stalled check),
  and Redis comes back; no fairness for boots, signals, requests and faults. That a worker
  is there is a premise of the property, not an assumption.
* `ProductCatalog`: weak fairness of each creation's own step, and InnoDB ends circles
  of waiting (`innodb_deadlock_detect`, on by default).

## Proofs

All results hold for any number of requests, products, connections, attempts, keys,
bodies, reads, mutations, calls, servers, migrations, jobs, creations and SKUs, under the named `ASSUME`s of the modules, which TLC evaluates in the runs.

**StockTransactions.** The inductive invariant is
`TypeOK /\ TransactionInv /\ SnapshotCurrent /\ LocksAscend`. `SnapshotCurrent` (what a
transaction read is locked by it and unchanged) is the heart, but not inductive
alone: that a committing transaction writes only rows it has read needs `PhaseInv`;
that no other one can write them needs `LockInv`; that the stock it writes is not
negative needs `CheckedInv`. From the invariant follow:

* `TypeCorrect`, `NoLostUpdate`, `TransactionsChecked`, `LocksAscending` directly;
* `DeadlockFree`: in a circle of waiting requests take the largest product waited for;
  who holds it waits for a larger one. The maximum comes from the least element of
  a set of numbers (`NatMin`);
* `Implementation`: a commit maps to `PlaceOrder` or `EditProduct`, everything else
  stutters; `SnapshotCurrent` turns the prices and stock of the read into those of the
  commit;
* `RefusalsJustified` and `AnswersTruthful`, each invariant together with the above;
* `UnitsAccounted`: the stock of a product that no admin set, plus the units of all
  committed orders, is the stock at the start. `AccountInv` adds that orders are finitely many; a
  commit moves the units of one basket from the row to the orders, and `SnapshotCurrent`
  says that the row it subtracts from is the committed one. `NothingOversold` follows;
* `MergeStep` and `MergeConservesUnits`: `mergeOrderItems`, defined by sums, is what
  the loop of the code computes item by item, and it keeps the units asked for. That a
  merge is a basket is proved too, so `ItemListsAssumption` only says that
  bodies are non-empty lists of validated items;
* `NotAllBlocked`: while a request is in flight, one is neither waiting for a row nor for a
  connection. Who holds all connections cannot all wait for rows (`DeadlockFree`, with
  the largest product again), and a row that is waited for is held by one who has a connection;
* `StepsRunOut`: every step leaves fewer steps to go (`TotalStepsLeft`, at most three for a
  product and five more for each request).

Sums over finite sets are defined by a recursive fold, and the prover cannot instantiate an
induction theorem. The module therefore proves what it needs of sums by a smallest
counterexample: among the subsets for which a fact fails there is a minimal one
(`MinimalSubset`), which has an element to take away (`SumRemove`, `SumCongruence`, `SumAdd`,
`SumByGroups` and others; that the fold is a function at all is `SumsExist`).

**Idempotency.** The inductive invariant says that the row of a key has one owner, the
attempt that inserted it (`OwnerInv`), that it is completed once and with the owner's
answer (`RowInv`), and what an attempt's answer says about it (`AnswerInv`). From it:
`OneOrderPerKey`, `ReplaysFaithful`, `CreatedIsOrdered`, `StoredAnswersFinal`.
Two of the claims that runs refute are true as long as nothing fails, and that is proved
with a second invariant (`ProcessingInv`: a row in progress has somebody who works on it,
or a failure under its key is on record): `InProgressTruthful` for "still being processed",
`StuckRowsExplained` for the 500 of a lookup, which only a failure or an expired row brings about.
`StepsRunOut`: an attempt never goes back, and starts one completion.

**ResponseCache.** That no answered mutation is hidden from a later read except by an
overtaking fill or a failure is about reads; what makes it inductive is about entries.
`EntryInv`: an entry older than a committed mutation was filled late (`overtaken`), is
excused (`disturbed`), or is still `Ahead` of the mutation: its namespace is yet to be
scanned or the key is among those about to be deleted. An answered mutation has
nothing ahead of it. `GroupAssumption` is what starts this: right after the commit
every key is ahead. `ReadInv` ties what a reader may know to an answered mutation, and
`CountInv` bounds the version. From it: `TypeCorrect` and `StaleReadsExcused`.
`LateFillsDwindle`: while nothing commits, the GETs that hold an outdated response only get
fewer, and an entry turns stale only at the cost of one of them. `InvalidationsEnd`: what
an invalidation has left (namespaces, the part of `deleteCache`, keys collected) comes down
lexicographically, and what GETs store meanwhile does not add to it. It says that each step
leaves less to do, not that the step is ever possible: a `SCAN` may wait.

**Sessions.** `CurrentInv` is why writing only changed fields is enough: as far as values
older than the request go, the instance a handler holds agrees with the row, since
whoever may write in between is not over and so is not older. So an UPDATE leaves no
older value in a field it supersedes, even where it writes nothing (`GoneInv`), and no
later UPDATE brings one back. `JudgedInv` carries that to whom a handler lets in, `KeptInv`
to what an answer promised. From it: `TypeCorrect`, `OneSignUp`, `OldSessionsEnd`,
`SupersededRefused`, `AnswersHold`.

**ProductCatalog.** `UniqueIndexUnused` holds because who is about to insert has the gap
around its SKU (`LocksInv`), and no other may insert into it; `RowsInv` says that an inserted row is
alone and valid, `OutcomeInv` that an answer is true of the products for good. `RivalWins`
is inductive with them: the victim of a deadlock waited for a creation that is still
inserting. From the invariant: `TypeCorrect`, `LookupSuffices`, `DeadlockHasWinner`, and
`CatalogImplemented`, where a commit is the creation and an answer the answer.
`NotAllBlocked`: who waits for a row waits for a creation that holds one and goes on, and
of two rivals for gaps, if the second waits for anybody, it also waits for the first
(`CirclesArePairs`), so that there is a circle of two, which InnoDB ends. `StepsRunOut`:
no step takes a creation back.

**OrderJobs.** The bound on mails is not inductive; `MailsInv` is: mails sent, and runs that
may still send, are at most failed attempts, stalls and one last run. Every new run is
paid for by a failed attempt or a stall (`CountsInv`), also when the old run goes on without its
lock. From it `JobsTypeCorrect` and `MailImplemented`. `JobsEnd`: every change of a queued job
lowers a number made of the attempts and stalls it has left.

**Lifecycle.** `MigratorsInv`: what a process does not have to migrate is recorded, in order, so
past the migrations all is. `OverlapInv`: two processes that migrate both count as overlapping,
so one that does not is alone with the tables. `TablesInv`: a legacy table is left only while the
migration that replaces it is not recorded and is not past the drop. `ExistInv`: what is recorded,
or is about to be, is there, or was dropped by a race and is one that migrations drop. `HalfInv`:
a table without its unique index has somebody about to add it, or one ended there, or
migrations overlapped. `SchemaIsServed` follows.
`StartIsBounded` takes a number of steps left (attempts at the port, pending
migrations, steps of the current one) that every step of a start lowers.

**OrderServer.** `PartsImplemented` shows that the composition implements both parts, so
their theorems hold of it (`TypeCorrect`, `OrderMailImplemented`, `SchemaAlwaysServed`,
`StartAlwaysBounded`). `LossIsExplained` and `StallIsCutOff` relate them and need an invariant of
their own: without faults a connected process has a ready client until it calls `quit`
(`RedisInv`), orders belong to processes that listened (`PlacedInv`), a queue closes only past
`worker.close`, and past that nothing runs (`StoppedInv`), and until something is cut off every
active job is run by the owner of its lock (`HeldInv`).

Model-checked only: the seven liveness properties (`EveryCallAnswered`, `EveryAttemptEnds`,
`EveryKeyCompletes`, `AnsweredUnlessScanWaits`, `CacheConverges`, `QueuedJobSettles`,
`EveryCreationAnswered`), because fairness and ENABLED are outside the prover's reach. What
they rest on besides fairness is proved: that steps run out (`StepsRunOut`, `InvalidationsEnd`,
`LateFillsDwindle`, `JobsEnd`), that not everybody waits (`NotAllBlocked`), and that a row in
progress has somebody to complete it (`StuckRowsExplained`). Every other property of a
passing run is a theorem.

## Not modelled

* MySQL itself: its crash, isolation below row and gap locks, a DDL statement of a killed
  process that ends later; the connection pool in `ProductCatalog`.
* Redis losing its data; BullMQ trimming finished jobs (`removeOnComplete`, `removeOnFail`),
  after which a repeated `queue.add` would be a new job; node-redis retrying inside
  `connect()` while Redis is down, which is a start that waits.
  A Redis that keeps its connections but never answers: a connected one answers or the
  connection breaks.
* Several server processes in the modules of orders, idempotency, cache and sessions, as
  far as they differ from several requests in one.
* `findAndCountAll`'s two statements: a page and its total may differ by an order.
* The rate limiter's window (in its library); `migrate --undo` and `--status`, the seed, the
  migrator that `docker/docker-entrypoint.sh` runs by itself, the script that frees the port: commands that
  repeat what is modelled or are run by hand. A separate migrator is one more process
  that ends before it listens.
* Wording of answers, pagination and filters, names of products, validation messages,
  logging and API documentation: no state.

## Plan

The modules cover the components whose state this code keeps, and every safety property of the
runs is a theorem. What is left is a composition of idempotency, transaction, cache and
email job for one request; each part is checked with what the others can do to it as free
choices.

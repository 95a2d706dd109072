# A specification of the subscriptions service

TLA+ modules, TLC models and TLAPS proofs for the Go service under `src/`: an
HTTP API that stores, changes, deletes, lists and adds up subscriptions in one
PostgreSQL table, and the process it runs in.  Paths below are relative to the
repository's `src/src/`.

## 1. The system

| Component | Code | State it keeps | Operations |
|---|---|---|---|
| Domain model | `internal/models/subscription.go` | none; a `Subscription` value | `NewSubscription`, six mutators |
| Storage | `internal/storage/storage.go`, `.../postgresql/subscriptions.go` | the table `subscriptions`; the transaction and the connection of each call | `Add`, `RemoveByID`, `Update`, `FindByID`, `Find` |
| Service | `internal/service/service.go`, `impl.go` | the local variables of each call | six methods, one or two storage calls each |
| HTTP handlers | `internal/http/api/handlers.go`, `api.gen.go` | a request and its response | six operations |
| HTTP server, middleware | `internal/http/api/impl.go`, `internal/http/middleware/` | listener, open connections | `Start`, `Stop`; request ID, logging |
| Process | `cmd/main.go` | where `main` is, the channel `done` | start-up, signal, shutdown |
| Connecting | `pkg/storage/postgresql/postgresql.go` | attempts left, delay | `NewClient`, `doWithTries` |
| Migrations | `internal/storage/postgresql/migrations/` | schema version and dirty flag, in the database | `RunMigrations` |
| Configuration | `internal/config/crud.go` | none after start-up | `MustLoadCRUDConfig` |
| API document | `swagger/swagger.yml` | none | the promises quoted in section 6 |

**Interaction.** Every request runs in a goroutine of its own: handler, service
method, storage method are plain calls, each passing the request's context on.
Two things are shared: the pgx pool, whose connections are finite, and the
table.  A write takes a connection, begins a transaction, executes one statement
and commits; a read takes a connection for one SELECT.  PATCH is two such calls,
FindByID and then Update, with nothing held in between.

**What is hard.**  Requests interleave at every call to the database.  PATCH
reads before it writes, so what it read may be stale.  A statement waits for the
row another transaction has changed; taking a connection waits without a
deadline.  Every call to the database may fail, and the failure of a COMMIT says
nothing about its effect.  A rollback may fail too; then the database holds the
row until it notices that its client is gone.  The process may be told to stop,
or die, while requests are under way and while it migrates; its successor meets
the transactions and the schema it left behind.  The rows of a result may stop
coming at any of them.
`PROJECT.json` lists each hazard at its line with the properties aimed at it.

**What makes it correct.**  *Domain model*: whatever a creation or a chain of
mutators accepts is a valid subscription.  *Storage*: a method returns nil only
after its commit; it keeps no connection; an update or removal touches only live
rows.  *Service and handlers*: an answer tells what happened to the row, and
stays true; what is stored is what one client sent; everyone is answered.
*Process*: it serves only after the migrations have run, ends sooner or later
after a signal (`Close` of the pool has no deadline), and loses no acknowledged
write.

## 2. The modules

| Module | What it is |
|---|---|
| `Subscription` | the domain model as operators: `XAccepted` is when a constructor or mutator returns no error, `X` what it then returns; `Restarted`, `Updated`, `UpdateAccepted` are the chain of mutators in `UpdateExistingSubscription`; `ValidSub` is the reference they are held against |
| `StorageInterface` | `storage.go`: rows, filters, results, and `Matches`, the WHERE clause of `Find` |
| `ServiceInterface` | the operations, what they carry (JSON bodies and what decoding makes of the fields they leave out) and how they are answered; the constants that describe clients |
| `SubscriptionsStorage` | the five storage methods step by step, on the pool and PostgreSQL |
| `SubscriptionService` | handlers and service methods on top of it; `Spec`, `FairSpec` and all properties |
| `AtomicSubscriptions` | the abstract specification: a table on which each operation takes effect in one step |
| `SubscriptionRefinement` | the refinement mapping to it, `Linearizable` |
| `TotalCost` | the loop of `Find` over the rows of its result and the loop of `CalculateTotalSubscriptionsPrice` over their prices: the inside of the steps `Query` and `TotalCostAnswers` |
| `Connecting` | `NewClient` and `doWithTries`, with a clock |
| `Migrations` | `RunMigrations` and the schema |
| `Lifecycle` | `main`, the goroutine of the server, the channel `done`, signals and restarts, on top of these two |
| `System` | the service of `SubscriptionRefinement` with a `Process`, an instance of `Lifecycle`: requests, shutdown, crash, successor |
| `MCSubscriptionService`, `MCTotalCost`, `MCLifecycle`, `MCSystem` | values for TLC |
| `SubscriptionServiceProofs`, `SubscriptionSafetyProofs`, `SubscriptionContentProofs`, `SubscriptionRefinementProofs` | theorems about the service, each module on top of the one before |
| `SystemProofs` | theorems about `System`, on top of these |
| `TotalCostProofs`, `LifecycleProofs` | theorems about these two |
| `InductionLemmas` | induction on numbers and finite sets, for these two |

`SubscriptionRefinement` → `SubscriptionService` → (`SubscriptionsStorage`,
`ServiceInterface`) → `StorageInterface` → `Subscription`;
`System` → `SubscriptionRefinement`, and `Lifecycle` by INSTANCE; `Lifecycle` → (`Connecting`,
`Migrations`); `TotalCost` → `StorageInterface`.

### State

* `table[id]` is the committed row of `id`, `Nil` if there is none.  Rows are
  never removed from it: `is_deleted` is a flag.
* `tx[r]` is the transaction request `r` began *as the database sees it*: its
  state, its row, and the row it is going to write (`Nil` if its statement
  matched nothing).
* `conns` is the set of requests that hold a connection of the pool.
* `call[r]` is the storage call `r` is in, or the last it made: how far it is
  (`begin`, `exec`, `executed`, `committing`, `query`, `returned`), its arguments
  and what it returned.
* `req[r]` is what `r` asked and what it was answered; `now` is the day
  `time.Now()` is in.

Of the process:

* `try`, `clock`, `ready`: the local variables of `doWithTries`, the time since
  the start, and the time from which PostgreSQL accepts this client for good, as
  far as the attempts made so far show.
* `schema` is what the database holds: the version `schema_migrations` records,
  its dirty mark, and the last script that is in effect.  `migrate` is where
  `m.Up()` is.
* `main` and `listener` are where `main()` and its goroutine are; `done` is how
  many signals the channel holds, `stop` what `srv.Stop` returned, `exit` how the
  last process ended, `starts` how many there have been.
* `lost` is the set of requests whose process ended before it answered them.

Of a total: `rows` and `rowsErr` are the state of pgx's `Rows`, `subs` is the
slice `Find` returns, `added` and `total` the loop over it; `exact` is the same
sum without a width, for comparison only.

A handler is one step from one storage call to the next, since in between it
touches only its own variables and the clock.  A storage call takes a step at
each point where it can wait or fail.

### From the code to the actions

| Code | Actions |
|---|---|
| `client.Begin(ctx)` | `BeginTx`, `BeginFails` |
| `tx.Exec(...)` | `ExecInsert`, `ExecUpdate`, `ExecRemove`, `ExecFails` |
| `tx.Commit(ctx)` | `SendCommit`, then `CommitReturns` or `CommitFails` |
| the deferred `Rollback` | part of `ExecFails` (it fails itself in the branch that leaves `tx` unchanged); void after a commit |
| PostgreSQL ending a transaction | `DbCommit`, `DbAbort` |
| `QueryRow`/`Query`, `Scan`, `rows.Err()` | `AcquireForQuery`, `QueryRow`, `Query`, `BeginFails`, `QueryFails` |
| wrappers of `api.gen.go`, binding | `BindFails` |
| `PostSubscriptions` and `CreateNewSubscription` | `PostSubscriptions`, `PostAnswers` |
| `PatchSubscriptionsId` and `UpdateExistingSubscription` | `PatchSubscriptionsId`, `PatchUpdates`, `PatchAnswers` |
| `DeleteSubscriptionsId` and `RemoveExistingSubscription` | `DeleteSubscriptionsId`, `DeleteAnswers` |
| `GetSubscriptionsId` and `FindSubscriptionByID` | `GetSubscriptionsId`, `GetAnswers` |
| `GetSubscriptions` (both) | `GetSubscriptions`, `ListAnswers` |
| `GetSubscriptionsTotalCost` and `CalculateTotalSubscriptionsPrice` | `GetSubscriptionsTotalCost`, `TotalCostAnswers` |
| `rows.Next`, `Scan`, "continuing", `rows.Err` | `QueryReturns`, `QueryFails`, `RowScanned`, `ScanFails`, `ResultBreaksOff`, `RowsEnd`, `FindReturns` |
| the loop of `CalculateTotalSubscriptionsPrice` | `AddsPrice`, `AnswersTotal` |
| `NewClient`, `doWithTries` | `ConnectStarts`, `AttemptSucceeds`, `AttemptFails`, `WakesUp` |
| `RunMigrations`, `m.Up()` | `Opens`, `NoChange`, `MarksDirty`, `RunsScript`, `ClearsDirty`, `MigrationFails` |
| `main` up to `<-done` | `StartsProcess`, `Connected`, `NotConnected`, `MigrationsOver`, `Launches` |
| the goroutine, `srv.Start()` | `ServerStarts`, `ServerClosed`, `SendsDone` |
| `<-done` and after, `srv.Stop(ctx)`, the deferred `Close` | `ReceivesDone`, `StopsServer`, `ShutdownReturns`, `ClosesPool` |
| signals, and ends nobody handles | `Signal`, `Killed` |
| what an end does to requests | `Abandons`, in `System` |
| a request of the living process, and the pool it closes | `Accepts`, `Runs`, `ProcessSteps`, in `System` |

`Quiet` lets a finished system stutter, so that TLC's deadlock check stays on: a
state in which a request runs and nothing can happen is an error of every run.

### What the model takes for granted

* **PostgreSQL and pgx are external**, modelled as this code uses them: READ
  COMMITTED, one statement per transaction.  An UPDATE waits until its row is
  free and then judges the row as it is at that time, so waiting and executing
  is one step whose guard is that the row is free.  INSERTs of two requests
  never share a key.
* **COMMIT is asynchronous.**  `SendCommit` hands it to the database;
  `DbCommit` and `DbAbort` decide it; `CommitReturns` needs the decision,
  `CommitFails` does not.  So the code may report an error and the change
  appear later, or never.
* **A cancelled request context** (client gone, deadline) shows as a failure of
  the call under way; every call may fail at any time.
* **Time is the number of a day.**  The API carries dates, which the code reads
  as midnight UTC, and compares them with `time.Now()`; midnight of day `s` is
  not after an instant of day `d` exactly when `s <= d`.  A body without
  `start_date` has Go's zero time, day 0.
* **IDs.**  `uuid.NewV7` repeats none and, with this Go version's
  `crypto/rand`, does not fail.  Clients name IDs that were stored at some time,
  and `StrayID`, which stands for every UUID that never was.
* **Names.**  `strings.Trim(name, " ")` is a function on a small set of names:
  what matters is which are empty before and after it.
* A 415 is not told apart from a 400.  Wording, headers and logging are left
  out.  In `SubscriptionService` the answer of total-cost is the set of rows it
  adds up; `TotalCost` has the sum.
* **pgx closes a result at a failed Scan** and reports the error from
  `rows.Err()` (`ScanFails`), so "continuing" never continues.
* **golang-migrate is external**: per script it stores the next version marked
  dirty, runs the script, which PostgreSQL does as one transaction, and clears
  the mark; it refuses a dirty schema.  Its advisory lock keeps two processes
  from migrating at once; here there is one process at a time.
* **An attempt to connect** takes up to its deadline of 5 s.  It may fail at any
  time, for any reason; one that fails on a database that had been ready shows
  that it was not ready for good, and `ready` moves past its beginning.
* **Shutdown** closes the listener, returns nil once no request is under way, and
  its context's error after 10 s.  The 10 s are a choice here: they may pass at
  any time.  `Close` of the pool refuses every later acquisition, those waiting
  for one included, and returns when every connection has come back.  When
  `main` returns, requests still running end with it.
* **The end of a process** breaks its connections.  PostgreSQL then ends its
  transactions by itself: it aborts one that is open, and may commit one whose
  COMMIT it has received.

## 3. What TLC checks

| Run | Instance | Shows |
|---|---|---|
| `service_rules` | 2 requests, all six operations, 1 ID and `StrayID`, 9 bodies, 5 queries, a row that is live, deleted or absent at the start, 2 days | types; stored rows obey the rules of the domain model on every later day; each is one request's, whole; answers hold; only undecided requests write |
| `service_interleavings` | 3 writers of one row, 2 connections | connections are accounted for; locks do their work; no mixture, no revival, no late effect of an answered request |
| `service_atomic` | 2 requests, all operations, 2 IDs and `StrayID`, 2 days | `Linearizable`: the service implements `AtomicSubscriptions` |
| `service_liveness` | 2 requests, 1 connection, 1 row | `EveryRequestIsAnswered` under `FairSpec` |
| `total_cost` | tables of 3 IDs over 7 kinds of row, 2 filters, integers of 3 bits | what is answered is the sum of all selected rows reduced to an int64, or a 500 |
| `lifecycle` | 3 starts, 5 attempts, 2 migrations, a database ready at 7 different times | start-up to the end of the process, failed or killed anywhere |
| `system_crashes` | 2 requests among POST, PATCH, DELETE, 2 processes, 1 connection, 1 ID and `StrayID` | shutdown, crash and restart as clients see them |
| `system_liveness` | 2 DELETEs of 1 row, 2 processes, 1 connection, 2 days | nobody is held up for ever |
| `delete_missing`, `patch_missing`, `list_error`, `blank_name` | as small as the finding needs | section 6: each ends in the violation it is about |

**Properties.**

* `ConnectionsAccountedFor`: `conns` is exactly the set of calls between taking a
  connection and returning, and within the pool's size.  Every error return of
  the storage is in it.
* `StagedWritesAreCurrent`: what a statement found when it ran still holds when
  it is committed: the row is live and no one else is about to overwrite it,
  even if the request has been answered 500 meanwhile.
* `StoredSubsAreValid`, `NoTornSubscription`: what is in the table, and what a
  read answers with, is valid and is one request's body as a whole.
* `AnswersAreFinal`: a 201 stays stored, a 204 or 404 stays gone, a success of a
  write is committed.
* `OnlyUndecidedRequestsWrite`, `DeletedRowsAreFrozen`: action properties.
* `Linearizable`: each operation appears to take effect in one step between its
  arrival and its answer.  A write's is `DbCommit`, a read's its SELECT.  The
  abstract specification keeps visible what the code does not promise: a write
  answered 500 may take effect later, once; a PATCH or DELETE of a row that is
  gone may be answered as if it had been there; a failed LIST is an empty one.
* `EveryRequestIsAnswered`: nobody waits for ever for a connection or a row.  An
  UPDATE waits for a row with a connection in hand, but who holds the row has its
  connection already, and who waits for a connection holds nothing.
* `EveryRowOnce`, `ExactUntilItWraps`, `AnswerIsTheTotal`: a total is of every
  selected row once, or there is a 500; it is the true sum up to 2^63-1, and
  congruent to it beyond.  (Beyond, the code answers a wrong number, possibly a
  negative one, and no error.)
* `GivesUpOnlyAfterPatience`: the program gives up only on a database that
  refused an attempt begun after 165 s; one that accepts connections from then on
  is connected to, whatever it did before.  (The program then sleeps for another 600 s before it exits: the
  delay after the last attempt is waited for too.)
* `ServesOnlyMigrated`: not on an old, half migrated or dirty schema, whichever
  start left it so.
* `StartsServeOrEnd`: a start ends with a server or without a process.
* `OrderlyExitSettles`: a shutdown that reports success abandons no request, and
  one that ran into its deadline none whose change may still appear unless it
  had learnt that it could not tell.
* `DurablyLinearizable`: `Linearizable`, across crashes, shutdowns and restarts.
  What was acknowledged survives; an abandoned operation takes effect once or
  never.
* `EveryRequestEnds`, `SignalEndsTheProcess`: liveness of the composition.

Every property has a mutant: a plausible mistake in the code (a forgotten
`is_deleted = 0`, a COMMIT whose result is ignored, a connection not returned)
stands in the modules as an operator whose comment begins "A mistake", and TLC
finds the property violated with it.

**Why the bounds are enough.**  Rows influence each other only through the pool,
so one or two IDs show every interaction; three writers on one row give a
holder, one that waits and one that comes in between; one connection for two
requests is the tightest pool.  The values of `MCSubscriptionService` give every
check of the code a request that passes it and one that does not.  Two days are
enough for a check and a commit on different ones.  Of processes there are two
where requests matter, a dead one and its successor, and three where only the
schema is handed on: one start for each migration to be interrupted, and one
more.  The times at which PostgreSQL becomes ready surround the first delay and
the last attempt.  Three rows of the largest price overflow three bits.
`LastDay`, `MaxStarts`, `Requests` and `SubscriptionID` are the only bounds.
`system_liveness` leaves requests for `StrayID` out: they wait for nothing.

**Fairness.**  `FairSpec` assumes weak fairness of two things for each request.
`Proceeds`: a goroutine whose next step is possible takes it, and a lost session
is reported to the client that uses it (the Go scheduler, and TCP).
`DbSettles`: PostgreSQL ends a transaction that it was asked to commit, or whose
client has gone.  Nothing else: not that calls fail or succeed, that the clock
moves or that requests arrive.  Weak fairness suffices because there are finitely many
requests; with an unending stream of them a wait for the pool would depend on
its queue being first come, first served.

`FairSpec` of `Lifecycle` assumes that `main` and the goroutine of the server are
scheduled and that calls to the database return; `FairSystemSpec` adds the
fairness of the service for the requests of the living process, to which a closed
pool is reported.  That a process is started, signalled or killed is never
assumed, nor that the 10 s of Shutdown pass or that requests leave it idle before.

## 4. What is proved

TLAPS proves, for every value of the constants that meets the `ASSUME`s (finitely
many requests, a pool of at least one connection, `Nil` distinct from data and
from what a read answers, seed rows that are valid on the first day, bodies and
queries of the right type, prices that an int64 holds, at least one attempt to
connect):

| Module | Theorem | Conclusion from `Spec` |
|---|---|---|
| `SubscriptionServiceProofs` | `TypeCorrect` | `[]TypeOK` |
| | `ConnectionsCorrect` | `[]ConnectionsAccountedFor` |
| | `UpdateOverwrites` | (of the operators) a PATCH stores exactly its body, and whether it is accepted does not depend on the row read |
| `SubscriptionSafetyProofs` | `StagedWritesCorrect` | `[]StagedWritesAreCurrent` |
| | `AnswersCorrect` | `[]AnswersAreFinal` |
| | `WritersAreUndecided` | `OnlyUndecidedRequestsWrite` |
| | `DeletedRowsFrozen` | `DeletedRowsAreFrozen` |
| `SubscriptionContentProofs` | `StoredSubsValid` | `[]StoredSubsAreValid` |
| | `SubscriptionsWhole` | `[]NoTornSubscription` |
| `SubscriptionRefinementProofs` | `ServiceIsLinearizable` | `Linearizable` |
| `SystemProofs` | `SystemIsDurablyLinearizable` | (from `SystemSpec`) `DurablyLinearizable` |
| | `OrderlyExit` | (from `SystemSpec`) `OrderlyExitSettles` |
| | `WhatIsStoredSurvives` | (from `SystemSpec`) `[](AnswersAreFinal /\ StoredSubsAreValid /\ NoTornSubscription)` |
| | `LateWrites` | (from `SystemSpec`) `OnlyUndecidedRequestsWrite /\ DeletedRowsAreFrozen` |
| `TotalCostProofs` | `TypeCorrect` | `[]TypeOK` |
| | `EveryRowIsAddedOnce` | `[]EveryRowOnce` |
| | `TotalIsExact` | `[]ExactUntilItWraps` |
| | `TotalIsTheSum` | `[]AnswerIsTheTotal` |
| `LifecycleProofs` | `TypeCorrect` | `[]TypeOK` |
| | `OnlyMigratedIsServed` | `[]ServesOnlyMigrated` |
| | `GivesUpNoEarlier` | `[]GivesUpOnlyAfterPatience` |

(Each `Spec` and `TypeOK` is that of the module the proofs are about.)

**The argument.**  None of the invariants is inductive by itself.

1. `TypeInv` adds to `TypeOK` what each method's call carries (`CallOK`): the
   records' types allow `Nil` in fields that a method at hand needs.
2. `ConnectionsAccountedFor` is inductive with `TypeInv`.
3. `SafetyInv` is `TypeInv` with `LocalInv` (how method, transaction, staged row
   and answer of *one* request fit together), `IDInv` (an ID of an uncommitted
   POST is nobody else's; every other request names a stored ID or `StrayID`)
   and `WriteInv`.  `WriteInv` is where requests meet: besides
   `StagedWritesAreCurrent` it says that a removal whose statement matched
   nothing, or is committed, leaves an ID that is `Gone`, and that what a
   FindByID missed is `Gone`.  `Gone` is stable: this is what turns "not there
   when I looked" into "not there for good" and so makes a 404 final.
   The proof goes request by request (`LocalNext`), then through lemmas on what
   one step can change of the table and of a transaction (`TableStep`, `TxStep`,
   `NewLock`, `RowStable`, `GoneStable`).
4. `AnswersAreFinal` follows from `SafetyInv`; the two action properties are
   proved for a step from a state with `SafetyInv`.
5. `ValidInv` adds that the subscription of every call to Add or Update is
   valid (`CallsAreValid`); `StillValid` carries validity over the change of
   day.  `WholeInv` adds that the rows of every finished query are `Authored`,
   which is stable because a committed transaction stays committed.
6. `Linearizable` has the mapping `Committed` (the requests whose transaction is
   committed) and `SeenRows` (what a finished SELECT has read).  `RefinementInv`
   is `ValidInv` with two facts about each request.  `ResultOK`: a Find carries
   the filter of its operation, and a failed call no rows; without it what a LIST
   answers would not be what the atomic LIST reads.  `MissedOK`: an Update whose
   statement matched nothing is about an ID that is `Gone`; it reports success
   when it commits, and only because the ID stays `Gone` is that the atomic
   PATCH which does nothing.  The proof has one lemma per kind of step:
   `HandlesRefines` (arrivals and rejections), `ContinuesRefines` (answers),
   `CommitRefines` and `ReadRefines` (the two kinds of step that take effect),
   `StorageStutters` (everything else is invisible).
7. `System`: a step is one of the service or an end of the process
   (`ServiceStep`), and an end changes only `conns` and `lost`, of which
   `RefinementInv` says nothing.  So it is an invariant of `SystemSpec`, every
   step refines as before, and what a dead process left behind needs no argument
   of its own.  `OrderlyExit` needs more: `HoldersInv` (a living request inside a
   storage call holds a connection, so that a pool which has got all of them back
   means that nobody is inside one) and `ClosingInv` (after a clean Shutdown
   nobody is under way, and nobody comes any more).
8. `ReadInv` of `TotalCostProofs`: what has been read and what is still to come
   are disjoint, without repetition and, while `rows.Err()` is nil, all that was
   selected.  `TotalIsExact` needs that prices are not negative: a sum that has
   left the range of int64 does not return to it.  `TotalIsTheSum` compares a
   loop over rows in the order of their arrival with a fold that chooses an order
   of its own.  `CostIsAdditive` shows that the fold is independent of it, by
   induction on the finite set; `SumInv` then says that `exact` is the sum of the
   rows added so far, and that `total` lacks a whole number of moduli.
9. `LifecycleProofs`: a schema that is not dirty is what its version says
   (`SchemaInv`), and whoever has come past the migrations has a schema that
   nobody changes any more (`LaunchInv`).  `PatienceInv` relates the local
   variables of `doWithTries` to the attempt it is at (the delay is a multiple of
   a factorial, the clock at least the sum of the delays so far) and keeps that
   the database was not ready for good when the attempt that failed *began*.
   That it was not ready when the attempt ended is false, as TLC shows, and is not needed.
10. `InductionLemmas`: the induction theorems of the library take a predicate as a
   parameter, which the provers cannot be given.  `Induction` and
   `FiniteInduction` say the same of sets, from the fact that < and strict
   inclusion are well-founded; `RecursiveFunctionExists` says that a function
   defined by primitive recursion exists.  `FactorialDef` and `WaitedDef` are its
   instances for the two recursive functions of `Connecting`.

TLC evaluated the inductive invariants on the instances of `service_rules`,
`service_interleavings`, `total_cost`, `lifecycle` and `system_crashes` as well.

**Only model-checked.**  `EveryRequestIsAnswered`, `StartsServeOrEnd`,
`EveryRequestEnds`, `SignalEndsTheProcess`: liveness under fairness is beyond the
prover.  Every other property of a passing run is proved.  The four findings are
counterexamples, which TLC exhibits.

## 5. Plan

The modules above exist, are checked, and their safety properties are proved.
What could follow:

1. the theorems of `LifecycleProofs` for the process inside `System`, of which
   only `OrderlyExit` is proved there (TLAPS does not let the theorems of an
   instance be cited, so `Lifecycle`'s invariant would have to be proved again);
2. that the fold of `TotalCost` and the set of rows by which `SubscriptionService`
   answers a total are one: a refinement of the step `TotalCostAnswers`.

## 6. Where the code and its documents disagree

| Run | Document | Code |
|---|---|---|
| `delete_missing` | `swagger.yml:132`: 404 if the subscription was not found | `RemoveByID` ignores how many rows it changed and never returns `ErrSubscriptionNotFound`; the branch for it at `impl.go:128` is never taken, and the answer is 204 |
| `patch_missing` | `swagger.yml:108`: 404 if it is not found | if a DELETE commits between FindByID and Update, or while the UPDATE waits for the row, the answer is 200 with a subscription that was not stored |
| `list_error` | `swagger.yml:45`: 500 for a server error | `GetSubscriptions` of the service returns nil for an error, and the answer is 200 with an empty list |
| `blank_name` | `subscription.go:35`: a name is trimmed before it is found missing | `ChangeServiceName` compares without trimming: PATCH stores a name of blanks |

One more is in the model and has no run.  `swagger.yml:249-253` requires
`service_name`, `price`, `user_id` and `start_date`, but binding does not look
(`Decode`): a body without a price or a start date is accepted, with price 0 and
a start in year 1.  A name or an owner left out is refused as invalid.

## 7. Not modelled

* Configuration: read once before anything else runs; a mistake ends the
  process.  `should-migrate` is the constant `ShouldMigrate`.  (`tls` is read and
  not used.)
* The middleware: it logs and passes on.  (The logger reads the status before
  echo's error handler has set it, so it logs 200 for requests answered 4xx or
  5xx.)  The two static files.
* Which strings fail to bind as UUIDs or dates, and the order of the routes: they
  are oapi-codegen's and echo's, and touch no state.
* The content of log lines and error messages, SQL text.
* pgx and PostgreSQL beyond the behaviour listed in section 2: statement
  timeouts, the health checks of the pool and its connection lifetimes are
  all failures of a call here.
* The exit code of the process.  (It is 0 after a failed migration and when the
  address is taken, 1 when it cannot connect.)

## 8. Running it

    tlc -config service_rules.cfg MCSubscriptionService.tla
    tlc -config system_crashes.cfg MCSystem.tla
    tlapm SubscriptionServiceProofs.tla

and likewise for the other configurations and proof modules.  The runs named in
section 6 end with a violation, by intent.

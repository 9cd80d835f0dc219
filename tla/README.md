# Specification of the Bridge A2A server

TLA+ modules, model-checking configurations and machine-checked proofs for the
Go program in this repository (`cmd/`, `internal/`). Line numbers refer to the
files as they are here.

## 1. Inventory

| Component | State it keeps | Operations | Hard part | Correct when |
|---|---|---|---|---|
| Task store (`internal/storage/postgres/store.go`) | table `a2a_tasks`, row locks, pool slots | `Create`, `Update`, `Get` | goroutines race; a call gives up while its backend goes on | no update is lost, an acknowledged write stays, owners do not see each other, calls return |
| Task listing (`store.go` `List`, `cursor.go`) | nothing but the token in the client's hands | `List`, page tokens | rows move between pages; timestamps are older than their commit | pages descend, no task twice, no untouched task missing, count agrees |
| Schema migrations (`migrations.go`, `cmd/migrate`) | ledger `a2a_schema_migrations`, advisory lock, sessions | `Migrate`, `VerifySchema` | revisions meet one database; crash with a COMMIT in flight; lock leaks | forward only, nothing applied twice, approved means exact, lock never leaks |
| Server process (`cmd/server/main.go`) | startup stage, signal, listener, pool | `run`, shutdown goroutine, handlers | a signal at any moment; who waits for whom | store calls are not cut, a signal ends the process, requests drain |
| Executor (`internal/orchestrator/executor.go`) | map of artifacts of one call | `Execute`, `Cancel` | the consumer breaks off; a task is executed twice or canceled meanwhile, on replicas that share only the store; a save lands late | streams well formed, nothing after a break, a completed task holds the whole output of the execution that completed it, no artifact mixes two executions, a final state stays |
| Authentication (`internal/auth/auth.go`) | identity in the request context | middleware, interceptor, owner key | tenant of the request against the claim; claims of any characters in one key | no request passes without a verified identity and every scope; a call names the caller's tenant; owners stay apart |
| OIDC verifier (`internal/auth/oidc.go`) | key cache of a library | `Verify`, discovery, key fetches | two clocks, a slow key fetch between arrival and judgement; redirects and names that resolve anew | a current token is accepted, a stale one is not; nobody but the issuer is asked, in production at public addresses only; a silent issuer keeps nobody waiting |
| Request pipeline (`internal/server/*.go`) | none | body limit, parameter normalisation, version check, error boundary | order of the layers | bodies whole or refused, one version, only listed errors reach a client |
| Configuration (`internal/config/config.go`) | none | `Load` | checks spread over stages | no setting is passed over, or the program does not serve |
| Connection pool (`internal/storage/postgres/pool.go`) | connections | `OpenPool` | the password file is judged first and read later, in several reads, while somebody writes it; pgx looks for passwords itself | the database sees the one password the operator named |
| Agent card (`internal/server/agent_card.go`) | none | load at startup | – | the card promises what is enforced |

How they interact: `main.go` verifies the schema (migrations), opens the pool
and passes the store to the SDK handler. A handler authenticates the request,
runs the executor, and calls the store with the identity from its context. All
store calls share the pool; all processes share the database, where migrators
and servers of several revisions meet at the advisory lock. The SDK, pgx,
PostgreSQL and `net/http` are not in the repository; each module says at its
top what it assumes of them.

## 2. Modules

| Module | Models | Reads as |
|---|---|---|
| `TaskApi` | requests, replies, early refusals | vocabulary shared by the next two |
| `TaskLog` | the promise of a task store | every task is a log; a call takes effect at one instant, a failed call perhaps later |
| `TaskStore` | `Create`, `Update`, `Get` | detailed; implements `TaskLog` |
| `TaskStoreProofs`, `TaskStoreRefinement` | | theorems about `TaskStore` |
| `TaskListing` | `List` and its cursor against writers | writers are `TaskStore`'s, reduced to what `List` sees |
| `TaskListingProofs` | | theorems about `TaskListing` |
| `SchemaLedger` | the promise of the migrations | migrations are recorded one at a time, each the next of one revision; a call that succeeds leaves the schema of its revision |
| `SchemaMigration` | `Migrate`, `VerifySchema`, both commands | detailed; implements `SchemaLedger` |
| `SchemaMigrationProofs` | | theorems about `SchemaMigration` |
| `ServerLifecycle` | `run` in `cmd/server`, the shutdown goroutine | |
| `ServerLifecycleProofs` | | theorems about `ServerLifecycle` |
| `TaskExecution` | `Execute` and `Cancel`, the SDK that saves their events, the store | composes the executor with `TaskLog`, which `TaskStore` implements |
| `TaskExecutionProofs` | | theorems about `TaskExecution` |
| `Settings` | what `config.go`, `pool.go`, `agent_card.go` and the constructors of `internal/auth` accept | operators without state |
| `OidcDiscovery` | the HTTP exchanges of `oidc.go` | extends `Settings` |
| `Startup` | `run` of both commands, until requests are served; a verifier by itself, as the tests make it | composes the two above |
| `StartupProofs` | | theorems about `Startup` |
| `OwnerKey` | the owner key as a sequence of characters | used by `RequestPipeline` |
| `RequestPipeline` | one request through `internal/auth` and `internal/server` | |
| `RequestPipelineProofs` | | theorems about `RequestPipeline` |
| `*MC` | small instances of the module of that name | |

Definitions called "Mutant" in a comment are plausible bugs: each replaces the
definition below it in a run of its own, and the property it is named for then
fails.

**TaskStore.** A *client* is a goroutine inside one store call and a *connection*
is a pool slot with its PostgreSQL backend. They are separate because they fail
separately: `Abandon` ends the call with an error (context cancelled, link
broken), while the backend stays as an orphan that may still lock, commit
(`Commit`) or be ended (`Discard`). `Update` is `LockRow` (SELECT ... FOR UPDATE),
the comparison in the goroutine (`RejectStale`), `WriteRow` (UPDATE, COMMIT sent)
and `Commit`; `Create` and `Get` are single statements. `history` is a ghost: the
committed writes of each task.

**TaskListing.** One session pages with one filter: `Count` begins the REPEATABLE
READ transaction and takes the snapshot, `ReadPage` answers, `ListFails` makes the
client ask again. Writers stamp a row (`Write`), and the row becomes visible later
(`Land`) or never (`RollBack`). `ClockMoves` says whether the clock may be set back.
`Shaped` is what a task is listed with.

**SchemaMigration.** A process is at one statement of `Migrate` or `VerifySchema`
(`pc`, `stage`); its PostgreSQL session has a life of its own. `ConnectionBreaks`,
`CancelLock`, `UnlockFails` and `Crash` leave orphans, which may be granted the
lock late (`Grant`), commit late (`Commit`) and end late (`EndOrphan`).
`cmd/migrate` goes on to `VerifySchema` on the same connection; `cmd/server`
serves after it. A file is a version with a text, so an edited file is another
file of the same version.

**ServerLifecycle.** `main` walks through the stages of `run`; only the stages
that work under the signal's context fail because of it. `Exit` is pool.Close, the
other deferred calls and the end of the process.

**TaskExecution.** `Yield` stands for every call of `yield`, which returns false
once the SDK has stopped. The SDK takes `Buffer` events from a stream ahead of its
saves; `Take` applies one to its copy of the task and saves the copy under the
version it last saw, `SaveFails` leaves the save undecided and `Land` decides it,
`BreakOff` is a panic, an error or the end of the process. `Load` starts an execution
or a cancellation from the task as stored, so an execution may find the artifacts of
one that was broken off. Such artifacts stay: `Execute` gives a nameless artifact an
identifier of its own in every execution and never removes one, so a completed task may
show the beginning of another execution's output next to the whole of its own. What must
not happen is that the two are mixed in one artifact. The store is an instance of `TaskLog`: a call and its answer
are one step there, because it takes effect at one instant and its caller does
nothing before the answer. `Receive`, `IdOf` and `Appends` are the loop of `Execute`.

**Settings, OidcDiscovery, Startup.** A setting is one of the model values `Unset`,
`Blank`, `Malformed` or what it means; a URL is the record of what the checks look
at. `Startup` walks through `run` of either command and picks each part of the
settings when it is read. The server ends in staging and production before it makes a
verifier, for want of a dispatcher (`main.go:34-36`); so a third program, "verifier", does
what `internal/auth/oidc_test.go:243-250` does, `Load` and `NewOIDCVerifier` in any
environment, and there private addresses are refused. The password file is judged by
`StatFile` and read in pieces: `ReadSome` takes some bytes more, `ReadPassword` ends the
reading where the file or the limit ends, and `FileChanges` may rewrite the content between
any two of these. `torn` records that what had been read is no longer the beginning of the
file. pgx's own password is "other" whether it comes from `PGPASSWORD` or `~/.pgpass`; the
limits `parsePoolConfig` refuses are implied by `Load` and by the constants of
`cmd/migrate` and left out. An exchange with the issuer is `BeginDiscovery` or
`BeginKeys`, then `Dial`, any number of `Redirect` the policy allows, and an end:
`Discovered`, `KeysArrive`, `ExchangeFails` or `TimeOut`. Every `Dial` resolves the
name again. `ServerLifecycle` and `SchemaMigration` hold the same stages under
signals and in the database; here a connection is made or is not.

**RequestPipeline.** `stage` is where the request is in the order `New` composes the
layers: `Middleware` with `Verify` and the scopes, `limitRequestBody`,
`normalizeServiceParameters`, the SDK's REST handler, the version and the identity
interceptor, the call, the error boundary. Each layer is a pair of actions, one
that passes the request on and one that answers it. Token, body, parameters and
payload are chosen when the layer that looks at them is reached. `trueTime` is the
issuer's clock and `now` the server's; `Tick` may come between any two steps, so
the claims are judged later than the signature, and by a clock that may have been
set back. `Respond` and `CallFails` forget the request. In mode `memory` the server
has no authenticator and the layers that depend on it are not wired.

## 3. What the runs check

| Run | Instance | Shows |
|---|---|---|
| `store_concurrency` | 2 goroutines, 2 connections, 1 owner, 1 task, versions up to the bound in the cfg | types, `NoLostUpdate`, `AcknowledgedIsDurable`, `LockedRowIsPinned` |
| `store_owners` | 2 owners that differ in the issuer alone; calls queue for the pool and for the row | `OwnerOnly`, `ImplementsTaskLog`, `CallsReturn` |
| `listing_paging` | 3 tasks, 2 writers, 3 clock values, page sizes 1 and the default 2 | types, `PageMatchesCount`, `PagesDescend` |
| `listing_sessions` | 2 tasks, 1 writer, a clock that is set back, documents of two owners, 2 filters, histories of 1 to 3 messages and a default of 2 | `UntouchedAreListed`, `SessionEnds` |
| `migration_rollout` | older and newer migrator, newer server, 3 sessions, 2 starts each | types, `ApplyNeverConflicts`, `NoLockLeak`, `ApprovedIsExact`, `ImplementsLedger` |
| `migration_divergence` | a migrator that skips version 2, a server with an edited file; 4 processes, 2 sessions | `ServesOnItsSchema`, `ForwardOnly`, `NobodyHangs` |
| `lifecycle_stop` | 3 requests, 2 connections | types, `NoStoreCallCut`, `SignalStops` |
| `lifecycle_drain` | as `lifecycle_stop` | **violated**: `GracefulShutdown` |
| `task_execution` | 2 executions and a cancellation of one task, 2 outputs each, a named and a nameless artifact, 1 late save | types, `StreamWellFormed`, `TaskShowsWholeOutput`, `TaskFollowsProtocol` |
| `startup` | both commands and a verifier by itself; good settings and each defect once, 5 links a provider may name, two addresses a name may have, passwords around a limit of 2 bytes, read in pieces of any size | types, `ServedAsConfigured`, `OneCredential`, `StaysOnOrigin`, `StartupComesToRest` |
| `startup_example` | the settings of `.env.example` | **violated**: `ExampleStarts` |
| `pipeline` | 17 tokens, 2 required scopes, skew 1, limit 1 byte, bodies of up to 3 | types, `OnlyAuthorizedPass`, `AcceptsCurrentTokens`, `RefusesStaleTokens`, `WholeBody`, `CanonicalCall`, `OwnersStayApart`, `SafeAnswers` |

**The bounds.** Two writers are enough for a lost update, and two connections for
an orphan next to a live call; task identifiers do not interact except through
the pool, which two goroutines of `store_owners` exhaust together with orphans. Versions stay below `MaxVersion`, which
leaves room for a creation, a write between, and a stale one. Three tasks give a
page boundary with a task on either side and one that moves; the clock has ties
and two later instants. Two starts of a migrator give a crash, a late commit and
a successor that meets it. Two executions are the least that can mix, and two outputs the
least that can append; one late save is enough to land between two saves of another
execution, and `Buffer` = 1 lets an execution be one event ahead. A defect of a
setting does not hide another's, so `startup` has each once; four redirects are the
limit in the code, and one link more than needed to leave the origin by its host, its
port or its scheme is there. A file of up to three bytes has one past the limit, and can
grow, shrink or be replaced after each of them. The tokens of `pipeline`
have every kind of lifetime within three instants of the clock, owners whose
claims contain separators and digits, and one defect each; a body of three bytes
is two past the limit, and one value of the version in the header and one in the
query is what `normalizeVersionParameter` treats specially, so two of each
(`MaxMentions`) go past it. `MaxClock`, `MaxTime`, `MaxRuns`, `MaxOutputs`,
`Slots` and `MaxVersion` bound counters only.

**Deadlock.** It is checked in the runs of `TaskStore`, `TaskListing` and
`RequestPipeline`, where somebody can always go on. Elsewhere the system really stops: every process has
exited and no start is left, or the last execution is over.

**Fairness.** A goroutine runs when it can; PostgreSQL executes what it was sent
and ends the session of a client that is gone (TCP keepalive); pool slots
(`Acquire`), row locks (`LockRow`) and the advisory lock (`Grant`) are queues, so
a waiter that is served again and again is not passed over for ever – hence
strong fairness there. `TaskListing` takes strong fairness of `ReadPage`: a client
may fail often, not always. In `ServerLifecycle` no handler is ever obliged to
answer, since a stream may stay open; only store calls return, which
`CallsReturn` shows. In `Startup` the program goes on while it can (`Proceed`) and the
timer of the HTTP client runs by itself; the issuer, the names, the database and whoever
writes the password file owe nothing. `StartupComesToRest` needs more than the timer: every
redirect, every stage and the reads of a file that never stops changing must come to an end,
too. Failures, signals and starts are never obliged to happen.

## 4. The findings

`lifecycle_drain`: `run` (`cmd/server/main.go:107-110`) returns as soon as
`ListenAndServe` reports `ErrServerClosed`. `net/http` does that the moment
`Shutdown` is called, and nobody waits for the goroutine of lines 97-104, which is
still inside `Shutdown`. The deferred `pool.Close` waits for calls that hold a
connection (`NoStoreCallCut` holds), but a handler between two store calls, or an
open stream, is cut at once. `SHUTDOWN_TIMEOUT` (`config.go:75`, `.env.example:5`)
therefore has no effect on it.

`startup_example`: `.env.example`, which the README says documents the variables of
the container runtime, leaves `OIDC_ISSUER` and `OIDC_AUDIENCE` empty and sets five
OIDC policies. `loadOIDCConfig` (`config.go:137-149`) refuses exactly that, as the
README's section on OIDC announces, so a container started with the example exits.
`DATABASE_MAX_CONNECTIONS` and its companions, set without `DATABASE_URL` in the same
file, are passed over.

## 5. What is proved

With TLAPS, for all values of the constants that satisfy the stated assumptions:
identifiers distinct from the model values, an identity is its three claims, at
most one embedded file of a version, versions positive, settings, documents, filters
and tokens of their types, finitely many tasks and requests, at least one connection,
a page size of at least one. Each is an `ASSUME` TLC evaluates in the runs. Each
module below proves an inductive invariant first, in some a second one on top of it,
and every property of a run that is an invariant, an action property or a refinement
follows from these. Some theorems state more than a run checks; they are named as such.

*TaskStoreProofs.* `StoreInvariant` is an inductive invariant. The properties of
section 3 are not inductive by themselves: `NoLostUpdate` depends on the version
compared being current when the commit lands. The strengthening says that a
backend between `LockRow` and its end holds the row lock, that the lock has one
holder, that the row has the version that was read (`LockedRowIsPinned`), that the
row is the last entry of its history, and that a job is a well-formed request of
its goroutine. From it: `StoreTypes`, `StorePinsLockedRows`, `StoreCountsCommits`,
`StoreLosesNoUpdate`, `StoreIsDurable`, `StoreIsolatesOwners`. No run checks
`StoreCountsCommits`, which `ImplementsTaskLog` covers there, and `StoreWritesInTurn`: a
row is open in one transaction at a time and changes by one version, with its owner, when
that transaction ends. `TaskListing` takes its writers to do just that. Nor does one
check `StoreNeverJams`: a connection in use can take its next step, or it waits for a row
whose holder can (a lock belongs to a transaction that works on the row,
`LocksAreInUse`), so the calls never wait for each other in a circle.

*TaskStoreRefinement.* `StoreImplementsLog`: every behaviour of `TaskStore` is one
of `TaskLog`. `history` is the log, an orphan is a call that was given up and
whose effect is undecided; the step that commits or refuses is the instant a call
takes effect, and every other step is a stutter.

*SchemaMigrationProofs.* `IInv`: a session with a COMMIT in flight holds the advisory
lock, orphan or not (`LockProtects`). So no other commit can land while a process
works, and what it read of the ledger stays true (`ReadsStayTrue`); what is in flight is
the next migration of one revision whoever still waits for it (`InFlightIsNext`). From
it: `MigrationInvariant`, `MigrationTypes`, `MigrationNeverConflicts`,
`MigrationApprovesExactly` (of `Migrate` and of `VerifySchema`), `MigrationGuardsServing`,
`MigrationLeaksNoLock`, and the action property `MigrationIsForwardOnly`.
`MigrationImplementsLedger`: every behaviour of the processes and their sessions is one
of `SchemaLedger`. A commit that lands is `Record`, an orphan's too; a call succeeds at
the step that gives the lock back, when the ledger is exactly its revision; and locking,
reading and breaking off are stutters. `LedgerIsOfOneRevision` then needs nothing but the
promise: whatever revisions meet, the ledger is the beginning of one of them without a
gap. `MigrationNeverJams`, beyond the runs: a process can go on, or it queues for a lock
that is free, or held by a dead session or by a process that can go on.

*TaskListingProofs.* First, without any state: `(updated_at, task_id)` orders the
entries totally, and a page is the greatest of what is left. Then the session:
what was listed is at the cursor or above it, what matches and nobody touched is
below or was listed (`NoneIsMissed`), what was shown of an untouched task is what
is stored (`ToldAreTrue`), and so it is in the snapshot between the two statements
of a request (`SnapshotHolds`). `PagesDescend` alone says nothing of what is still to
come, so it is not inductive. From it: `ListingTypes`, `ListingCountsItsPages`,
`ListingMissesNone`, and `ListingDescends`, which states its condition, a clock that
is never set back. Beyond the runs: without that condition the pages still descend, and
only a task that was committed to meanwhile can come twice (`ListingRepeatsOnlyTouched`);
and every task on a page is the caller's, also after later commits
(`ListingShowsOwnTasks`, from `RowsKeepOwners`).

*ServerLifecycleProofs.* A handler holds a connection only while there is a pool
that is still to be closed (`HoldersKeepPool`), and that close waits. From it:
`LifecycleTypes`, `LifecycleCutsNoStoreCall`. A second invariant, `InOrder`, says what
must have happened before a socket opens, `Shutdown` begins and `run` returns. From it,
beyond the runs: `LifecycleAcceptsWhenReady`, `LifecycleSucceedsWhenAsked` (status 0 only
after a signal), and `LifecycleCutsOnlyUndrained`, which bounds the finding of section 4:
a request is cut by an error of `run`, by the timeout, or because `run` did not wait for
`Shutdown`, and in no other way.

*TaskExecutionProofs.* The argument goes from the dispatcher to the stored task.
Each event is determined by its place and by the output it came from (`Stream`);
the copy the SDK works on is a write of the log, not a final one while an event is left
(`Copies`), and holds exactly the pieces of the events that were taken
(`Collects`). So every save continues a write that is not final (`Saves`), also one
that lands late, because the log only grows and writes never change: it either
meets a conflict or follows the very write it was made from. No document has pieces
under an identifier before its execution began (`Fresh`), or a retry would append
to them. `Completes` carries the result on, for saves in the log and for those that
have failed. From it: `ExecutionTypes`, `ExecutionStreamWellFormed`,
`ExecutionShowsWholeOutput`, where a save adds only to what its own execution put under
an identifier (`Unmixing`), so that no artifact mixes two executions, completed or not. Then the states: where a copy is tells which states it can
be in (`Abreast`), and every save takes the write it continues one state on
(`Advances`), so also when it lands late. This gives the action property
`ExecutionFollowsProtocol`, and `ExecutionFinalStays` as its consequence.

*StartupProofs.* `run` goes through its stages in one direction, so what a stage
accepted is still so when requests are served (`Checked`, `Verified`, `Carded`); a
URL becomes a target only by a check of its origin (`OnOrigin`); while a file is
read, what was read is its beginning or the file is torn, and a password is there only
after the end was reached (`Credential`). So `StartupUsesOneCredential` is about files that
are rewritten before the first read or grow during the reads; a file rewritten in place
under the reader can give a password that was never its content, which neither the code
nor the theorem excludes.
From it: `StartupTypes`, `StartupServesAsConfigured`, `StartupUsesOneCredential`,
`StartupStaysOnOrigin`.

*RequestPipelineProofs.* How far a request is tells what is known of it: of the
token and the two clocks (`TokenFollows`, `Clocks`), the identity, the body, the
versions, the payload and the answer, each a conjunct of its own. The properties
speak of the call at the end and are not inductive without the stages before it.
From it: `PipelineTypes`, `PipelineAuthorizes`, `PipelineTakesWholeBodies`,
`PipelineIsCanonical`, `PipelineAnswersSafely`, `PipelineAcceptsCurrent` and
`PipelineRefusesStale`, the last two for every skew and every drift within it. A
call is made with the key of its identity (`OwnerFollows`), and a key tells the
claims it was made of (`KeyTellsAll`): the decimal digits of a length tell the
length (`DecimalOneToOne`, where a least counterexample stands for the induction
that the provers cannot do, also for the recursion of `Decimal` itself), no digit is
a colon, so the first colon ends the digits (`ColonSplits`), and a length ends its
text (`SameLength`). So `PipelineKeepsOwnersApart` holds for claims of any length
and any characters.

*Only model-checked*: liveness (`CallsReturn`, `SessionEnds`, `NobodyHangs`,
`SignalStops`, `StartupComesToRest`), since fairness and ENABLED are beyond the prover. Of
`CallsReturn` and `NobodyHangs` the safety core is proved: `StoreNeverJams` and
`MigrationNeverJams` state the guards of the next steps where ENABLED would stand. That
a queue also moves for everyone in it, in turn, is left to TLC.

## 6. What is not modelled

The fields that are only copied into a dispatch request, and the text of settings:
how Go reads a number, a duration or a URL is taken as done. `LoopbackDispatcher` is
one of the dispatchers `TaskExecution` allows. Which addresses are public
(`oidc.go:182-203`) is a property of an address here, not a computation. The key
cache of the library is the choice between `AcceptSignature` and `RefuseSignature`. The
syntax of the Authorization header is the choice between `Arrive` and
`RefuseHeader`, and the extensions parameter is normalised but read by nobody here.
Documents are opaque apart from the columns filters look at and what a listing trims.
Page tokens and sizes that are refused change nothing and are left out. Of the SDK,
only what `TaskExecution` and `RequestPipeline` state is assumed. Connection lifetime
and health checks of the pool are left out: they only end idle connections.

## 7. Plan

Done: `TaskStore` with `TaskLog`, `SchemaMigration` with `SchemaLedger`, `TaskListing`,
`ServerLifecycle`, `TaskExecution`, `RequestPipeline` with `OwnerKey`, `Startup` with
`Settings` and `OidcDiscovery`, and the proofs of section 5. Next, in proofs: the same core for
`SignalStops` and `StartupComesToRest`, and what `Startup` guarantees of the issuer carried
into `RequestPipeline`.

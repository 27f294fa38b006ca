# DemoServer Connection Manager: TLA+ models, checks and proofs

The connection manager is a Go microservice. It keeps *connections* (for now to
AWS accounts) in a Postgres database, and the credentials that belong to each
in a secrets engine of its own, mounted in HashiCorp Vault. Every request runs
in a goroutine, in any number of replicas, and a handler makes up to a dozen
calls to the two servers. No transaction spans both, so nearly everything
that can go wrong is about the order of these calls and about what remains
when one of them fails. That is what most of the models here are about; the
others are about the process that runs the handlers and the data they copy.

Paths below are relative to `src/`.

## Inventory of the system

| component | state | operations | talks to |
|---|---|---|---|
| AWS connection handlers, `handlers/awsconnection.go` | none; a request's `AWSConnection` in memory | POST, GET, PATCH, DELETE, test, list | database, Vault handler |
| Generic connection handlers, `handlers/connection.go` | none | list, link and unlink an application | database |
| Vault handler, `secretsmanager/vaulthandler.go` | none; the engines are Vault's | log in; enable, tune, root, role, disable; read config, lease, role list, role; issue credentials | Vault over HTTP |
| Datastore access, `utilities/utilities.go`, `datalayer/` | tables `connections`, `aws_connections` | `UpdateObject`, `CreateObjectWithoutTx`, `DeleteObjectWithoutTx`, `Begin`/`Commit`/`Rollback` in handlers | Postgres through gorm |
| Connection pools, `datalayer/postgres_datasource.go` | two bounded pools | `RWDB`, `RODB`, `Ping` | Postgres |
| Status endpoint, `handlers/status.go` | none | ping, `UP` or `DOWN` | pools |
| Request bodies, `data/`, `CopyMatchingFields`, `DecodeAndValidate` | none | validate a body, copy its fields over a struct, answer | handlers |
| Request ids and parameters, `helper/requestid.go`, `utilities.go` | `X-Request-Id` | mint or adopt an id; validate and parse `limit` and `skip` | middleware, handlers |
| `CallMultiThreadedFunc` | wait group, channel | share operations out among goroutines | load test |
| Server life cycle, `main.go`, `otel/otlp.go` | listener, signal channel, trace batch | set up, serve, `Shutdown` with a timeout, stop the trace batcher and export the rest | all |
| Configuration, error codes, audit, metrics | see `PROJECT.json` | | |

A connection consists of three things: a row of `connections` (name, test
result, linked applications), a row of `aws_connections` that refers to it, and
a mount in Vault with its tuning, root credentials and one role.

Interactions, and where they are hard:

* **POST** opens a transaction, inserts both rows, makes four Vault calls and
  commits. A failure rolls back the rows; Vault keeps what it has.
* **PATCH** reads the rows (two queries, `First` and `Preload`), merges the
  body, reads the engine (four calls), merges again, opens a transaction,
  unmounts the engine, mounts a new one (four calls), saves both rows and
  commits. It takes no lock before the two saves.
* **DELETE** reads the rows, opens a transaction, deletes both rows in the
  opposite order, unmounts the engine and commits.
* **test** reads the rows, asks Vault for credentials (three calls) and saves
  the whole row it has read. **link** and **unlink** do the same with the list
  of applications.
* **list** reads a page of rows in two queries and then, for each row, its
  engine in four calls; the client pages by `skip`.
* gorm's `Save` updates, and inserts when there was nothing to update; with a
  zero primary key it inserts at once.
* A transaction keeps one connection of a bounded pool from Begin to COMMIT,
  while it waits for row locks and for Vault.
* A call to Vault can take effect although its answer never arrives, and so can a
  COMMIT. `main` returns when `Shutdown` times out, and handlers die between any
  two calls.
* Signals arrive while `main` is still setting up, at a moment when one that is
  caught is not yet waited for.

What makes each component correct:

* All handlers: they implement a registry of connections in which a request takes
  effect once, when it is answered (`ImplementsRegistry`).
* POST: a connection that a list can show has its whole engine
  (`PublishedIsComplete`).
* DELETE: one winner (`DeleteAtMostOnce`), no return (`DeletedStaysDeleted`).
* PATCH: as long as Vault answers and no replica dies, the engine is complete when all
  are through, however many run (`EngineConverges`). The exception is the
  role, which may be missing for good when a PATCH that names no credential type met
  another one (the `untyped` run).
* Database: the two tables agree (`RowsPaired`).
* Database and Vault together: if they disagree, a client got an error
  (`NoSilentDivergence`).
* Lists: they fail only because of writers (`FailsOnlyForWriters`), show whole
  connections (`ShownIsWhole`), all of them (`NothingSkipped`), once and in order
  (`PagesAscend`).
* Pools: no request waits for a connection while it holds something
  (`NoHoldAndWait`); a deadlock of row locks is one that Postgres finds
  (`DeadlocksArePairs`); every request ends (`Termination`), status included
  (`StatusAnswers`).
* Bodies and parameters: `ShownIsGiven`, `NeverPanics`, `PagesAdvance`,
  `OneRequestId`.
* Process: a signal ends it (`StopsWhenTold`), nobody is cut off
  (`NobodyCutOff`), and what it has traced is handed to the collector before it ends, but for
  handlers that outlive the time limit (`TracesHandedOver`).

## Modules

| module | models | code |
|---|---|---|
| `Domain` | ids, names, keys, rows and the assumptions about them | `data/` types |
| `Vault` | the engines; what Vault does with each call (external) | `vaulthandler.go` requests |
| `Datastore` | the tables, pending writes, locks, COMMIT (external: gorm, Postgres) | transactions |
| `ConnectionManager` | the handlers; composes `Vault` and `Datastore` | `handlers/`, `vaulthandler.go`, `utilities.go` |
| `ConnectionRegistry` | what the handlers promise: the abstract specification | |
| `ConnectionPools` | composes `ConnectionManager` with a bounded pool per replica and status probes | `postgres_datasource.go`, `status.go` |
| `ConnectionList` | composes `ConnectionManager` with a client that pages through a list | the list handlers |
| `Payloads` | the structs of bodies, rows and answers; `CopyMatchingFields`; the enumeration's JSON | `data/`, `utilities.go` |
| `RequestPipeline` | middleware and handler of one request: ids, parameters, bodies | `requestid.go`, middleware, handlers |
| `ServerLifecycle` | one process from `config` to exit | `main.go`, `otlp.go` |
| `MultiThreadedFunc` | the load-test helper | `utilities.go:36-61` |
| `ConnectionManager_proofs`, `RegistryRefinement`, `StoreProofs` | theorems about `ConnectionManager`, each module on top of the one before | |
| `PoolProofs`, `ListProofs` | theorems about `ConnectionPools` and `ConnectionList`, on top of `StoreProofs` | |
| `RequestPipeline_proofs`, `ServerLifecycle_proofs`, `MultiThreadedFunc_proofs` | theorems about these components | |
| `MCConnectionManager`, `MCConnectionPools`, `MCConnectionList`, `MCRequestPipeline` | instances for TLC | |

`PROJECT.json` maps each definition to its lines.

### ConnectionManager

**State.** `pc[p]` is the next call that the handler of request `p` makes,
`call[p]` what the client sent, `loc[p]` the `AWSConnection` (or `Connection`) in
its memory, `resp[p]` the status it answered. `conns` and `aws` are the committed
tables, `tx[p]` the writes of `p`'s open transaction (`NoWrite` where it has none), and
`engine[i]` is the mount of connection `i`. A connection's two UUIDs are one value,
because POST mints both; `loc[p].fk` and `loc[p].cid` keep the
foreign key and the embedded row's key apart where the code can confuse them.
`resp` is the `status` of the error body: the HTTP status line of an error is 400
whatever the body says.

**Steps.** One action per call to Postgres or Vault, and one per stretch of
code between calls that reads or decides something: `UpdateMerge` is the code
of `UpdateAWSConnection` from the read to `GetAWSSecretsEngine`, and so on. `Fail`
is every error return, with its rollback. `UpdateObject` is one step (`SaveRow`), since
nothing happens between its Begin, Save and COMMIT that another request could
see: the row it waits for is locked by others, and its own lock is held for
one statement.

**Data.** A body keeps the fields that decide something. `Blank` is Go's zero
string, and stands for a field that the client left out. Descriptions, regions,
timestamps and error texts are left out here; `RequestPipeline` has the fields.

**What is taken from Postgres, gorm and Vault.** Statements of a transaction see
its own writes, queries see committed rows; a writer waits for the uncommitted
writer of a row or of a unique name, and the deadlock detector aborts one of
two that wait for each other. `Save` upserts; a `Delete` by a zero key is refused.
The foreign key's cascade is not modelled: every handler that deletes a
`connections` row has deleted its `aws_connections` row in the same
transaction. Unmounting succeeds when nothing is mounted; mounting fails when
something is; tune, root and role need the mount and role a credential type;
reading config/root and roles fails with a status when there is none.

**Faults.** The constant `Faults` says what may fail: `"vault"` (a call is
refused, gets no answer, or its answer is lost), `"db"` (a statement), `"commit"`
(fails, or succeeds unseen) and `"crash"` (the replica dies).

### ConnectionRegistry, and how it is implemented

The registry has a set of listed connections, a stage (none, part, whole) for each
engine, and requests that are asked and answered. `Registry` in
`ConnectionManager` is its instance under the refinement mapping: `listed` are the
committed `aws_connections` rows, a request is answered when `resp` is set, and the
stage is read off `engine`. COMMIT is so the moment at which a request takes
effect. What the registry leaves open is what the code leaves open: with a PATCH of the
same connection, a DELETE may withdraw a connection whose engine is back, and a
PATCH may list one whose engine is gone. Where no PATCH interferes it does not.

### ConnectionPools

`held[p]` counts the connections of the pool that `p` holds, `limit` is the pool's
size. `Acquire` is the wait in Begin; `Keep` gives the connection back at COMMIT or
Rollback. The struct literal of `NewPostgresDataSource` exchanges the two
pools, so the size behind `RWDB()` is `ROConnectionPoolSize`; since the size is
arbitrary here this changes no property. Reads hold a connection for one
statement that waits for nobody and are left alone.

### ConnectionList

`shown` is what the client has got, `page` the page being made, `at` the row whose
engine is read. OFFSET is the number of rows shown, as the load test pages. ORDER
BY name is the order of `Collation`, and a LEFT JOIN's missing names sort last (`Before`).
A query answers with some slice of some sorting of the table (`Sortings`, `Selected`): rows
of one name come in any order, and without ORDER BY Postgres may return any rows (the
mutant of `Selected`).
`ShownIsWhole` excepts what the code leaves open: a connection that somebody is changing,
and a Vault that fails while a page is made. `NothingSkipped` and
`PagesAscend` except renaming, and a deleted connection that a link or test writes
back; a POST of a lower name moves rows to a later page, so that one can be seen twice.

### RequestPipeline and Payloads

A struct type is a function from field names to types; `CopyField` has the cases of the
reflection code: which pairs are set, which skipped and which panic. `given` remembers
what the client last gave each attribute; one that a PATCH leaves out keeps what it was
given before (`GivenBy`). The code does the same for all attributes but one:
`PolicyARNs` of a PATCH body is a slice, and the slice case of `CopyMatchingFields`
copies a nil slice over the policies read from Vault. `erased` says that this is what
the last PATCH did, and `ShownIsGiven` excepts the policies in this case; the run
`omitted` shows it on the handlers. A PATCH passes the tables, Vault and the body
through the copies in the code's order. `Types` of the `Connection` part are those of
the source, the enumeration included. A value of a type is one of `Values`, and
`Seconds` is how Vault shows a lease.

### ServerLifecycle

`main` walks through `Order`; `Signal` does what the runtime does with a signal
according to who is registered at that moment (`Registered`, `Caught`); the
buffered channel has room for `Capacity`. `Drain` ends when nothing is active or
time is out. The deferred `otelShutdown` is two steps, between which handlers go on:
`StopBatcher`, after which a span that ends is dropped (`"late"`), and `ExportRest`, which
sends what is queued. An export may fail (`"refused"`), its error goes nowhere, and a full
queue drops a span (`"overflow"`), as the batch processor of the OpenTelemetry SDK
does. `TracesHandedOver` says what can be promised all the same: nothing stays
in the batcher, and only handlers that `Shutdown` gave up on are late.

A listener that fails is only logged, and the process then waits for a signal without
serving anybody. The model has this (`ListenAndServe`), but no property is about it, since
no code or document says what should happen.

## Runs

Each request is served once and the requests of a behaviour interleave freely;
`CHECK_DEADLOCK FALSE` because a behaviour ends when all are answered.

| run | instance | asks | result |
|---|---|---|---|
| `requests` | three requests of any kind, good, invalid and partial bodies, every fault | `TypeOK`, `PublishedIsComplete`, `RowsPaired`, `NoSilentDivergence`, `DeleteAtMostOnce`, `DeadlocksArePairs`, `DeletedStaysDeleted`, `ImplementsRegistry` | hold |
| `pools` | three of PATCH (without a credential type), DELETE, link; a status probe; a pool of one or two | `NoHoldAndWait`, `EngineConverges`, `Termination`, `StatusAnswers` | hold |
| `list` | a client with pages of two over three connections; two of POST, PATCH, DELETE, test; database faults and crashes | `FailsOnlyForWriters`, `ShownIsWhole`, `NothingSkipped`, `PagesAscend` | hold |
| `lifecycle` | two signals, three requests, a queue of two spans | `NobodyCutOff`, `TracesHandedOver`, `StopsWhenTold` | hold |
| `workers` | up to 3 goroutines, count up to 7 | `NoSendOnClosed`, `CallerReturns` | hold |
| `pipeline` | parameters from -1 past the largest bound; bodies that give, leave out or invalidate each kind of attribute | `OneRequestId`, `PagesAdvance`, `NeverPanics`, `ShownIsGiven` | hold |
| `update_delete` | PATCH with DELETE | `SettledStoresAgree` | **violated** |
| `resurrected` | link with DELETE | `TablesAgree` | **violated** |
| `omitted` | PATCH without a secret key and policies | `OmittedIsKept` | **violated** |
| `untyped` | two PATCHes without a credential type | `TypeIsKept` | **violated** |
| `renamed` | a client with pages of two that renames what it is shown | `PagingReachesAll` | **violated** |
| `lost_interrupt` | one interrupt during set-up | `InterruptStops` | **violated** |

The violated ones are disagreements between the code and its documentation, tests or
comments; `PROJECT.json` quotes them under `findings`. They show where the boundary of
the others is. `EngineConverges` holds although bodies name no type because it excepts
exactly the role in `untyped`; `ShownIsGiven` excepts the policies in `omitted`, and
`NothingSkipped` and `PagesAscend` the renaming in `renamed`. `NoSilentDivergence` and
`RowsPaired` hold in `requests` with every fault because they except exactly the
connections that are both patched and deleted, or deleted and written back; without a
fault `update_delete` and `resurrected` fail on these. A row under the nil UUID, left by
a test whose two queries a DELETE came between, is a second way to break the tables'
agreement, and `RowsPaired` allows it only in the same case.

Smaller disagreements are visible in the definitions and have no run:

* `getAWSSecretsEngineConfig` and `getAWSSecretsEngineRole` report a status other than 200
  as success (`GetConfig`, `GetRole`), so a GET during a PATCH can answer 200
  without the access key. What comes of it in a PATCH is the run `untyped`.
* A missing connection is answered with 500, not the documented 404 (`ReadAws`), and
  a PATCH without the optional `connection` object with 500 (`UpdateMerge`).
* A test and a link write back the whole row they have read (`SaveRow`). A test that read
  before a PATCH puts its old verdict, and name, over the reset one
  (`handlers/awsconnection.go:382`: "Update operation resets Tested status"); of two
  applications linked at the same time one is lost, though both clients got 200. What
  this does to a deleted row is the run `resurrected`.
* `validateAWSConnection` sees, on a PATCH, only the body's credential type: the rows do
  not hold it (`UpdateMerge`, `UpdateAWSConnection`).
* `CallMultiThreadedFunc` returns when its first goroutine is done, not all (`Signal`).
* The errors of `DecodeAndValidate` carry no request id (`PostMiddleware`), though
  `helper/error.go:328` calls it required; a client's own id is not echoed in the header
  (`PrepareContext`).
* `limit=1` is refused by the validator (`ValidQueryParam`), so a configuration with
  `ListLimit` 1 would announce a limit it does not accept; `PipelineAssumption` excludes it.
* A lease that was given as `1h` is shown in seconds (`Seconds`).

**Bounds.** One connection is there at the start (three in `list`, so that a page of two
has a successor); POSTs bring others, with a new or with the same name. Two or three
requests: every property above is about one connection, and its violations need two
requests that overlap and at times a third (a reader that writes late, or a second
deleter). Two names and two keys tell old from new, one policy list tells something from
nothing. In `list` four names lie before, between and after the others, and a fifth is
the lowest name with the load test's suffix (`renamed`). In `pools` the PATCHes leave
the type out, which is the case in which the engine may lose its role; that the others
do no harm is part of `EnginesConverge`, for all bodies. A pool of one makes every
transaction wait for every other, a pool of two lets two wait for each other's rows. In
`pipeline`, `MaxSkip` stands for `math.MaxInt32`; `Params` has values below, at and
above each bound. In `lifecycle` a second signal meets a full channel (`MaxSignals`),
and a third span a queue of two (`QueueSize`). `MaxThreads` and `MaxCount` have counts
that the threads divide and that they do not. Requests of the safety runs are
interchangeable, so these use symmetry; for liveness TLC's symmetry is not sound, and
`pools` deals the kinds out to the requests in an order instead (`OrderedSpec`).

**Fairness.** `FairPooledSpec` assumes that every request that can make a
step eventually does: `net/http` gives it a goroutine, Postgres wakes the waiter when a
lock is released, its detector breaks a deadlock, and `database/sql` gives
a freed connection to a waiter. It serves waiters in random order, so one
could be passed over as long as others keep coming; weak fairness suffices because the
requests of a behaviour are finitely many. It is also assumed that a call to Vault is
answered, which the code cannot ensure: its HTTP client
has no timeout. Nothing is assumed about new requests or crashes. In
`ServerLifecycle` only `main` makes progress: `StopsWhenTold` holds though handlers
hang, because the timer of `Shutdown` fires, and though the collector refuses everything,
because the SDK limits the time of an export. In
`MultiThreadedFunc` some goroutine that can run does.

**Mutants.** Next to some definitions stands a mutant (marked so in its comment),
the definition as a plausible slip would have it: a dropped error check, a
missing `ORDER BY` or COMMIT, a transaction's statement run on the pool, and so on.
`PROJECT.json` names, for each
property of a passing run, a mutant under which that run finds it violated.

## Proofs

All theorems hold for every value of the constants (any number of requests, ids, names,
keys, applications, replicas, signals, goroutines) and are checked by TLAPS. They assume
the named assumptions of the modules (`DomainAssumption`, `CallAssumption`,
`PoolAssumption`, `ListAssumption`, `PayloadAssumption`, `BodiesAssumption`,
`PipelineAssumption`, `LifecycleAssumption`, `SizeAssumption`), which TLC evaluates in
the runs.

`ConnectionManager_proofs`:

* `TypeCorrect`. The inductive invariant is `Inv`, which adds `WellFormed` to `TypeOK`: a
  step is well typed only because a handler runs its own stages on an existing
  id (a role is written from a merge, a COMMIT answers a writer), and it stays in
  its stages only because the values it holds are typed. `WellFormed` is no more than
  this auxiliary part. One lemma per action, `NextInv`, then one temporal step.

`RegistryRefinement`:

* `Refinement`: `Spec => ImplementsRegistry`, with every fault and without further
  assumptions. `RegistryInv` consists of two parts. `TablesInv` is about rows and
  requests: `Inv`; `Fresh` (a request that was not sent asks for nothing);
  `Answered` (a request has an answer exactly when it has ended); `Pending` (which
  stage has a write to `aws_connections` pending, and which); `Exclusive` (a
  pending write locks its row); `Deletable` (a DELETE that holds the lock has a
  row to delete); `UuidsAreNew` (until a POST is over nothing else
  refers to its UUID, which keeps other requests off its rows and engine).
  `EnginesKept` is about engines: a handler that nobody disturbs has done, at each stage,
  what the stages before stand for, so that its COMMIT finds the engine it
  announces. Each action is then
  matched with a step of the registry or with a stutter: reading and
  in-memory actions stutter or answer with an error, Vault calls are `Work` or
  `WorkAndFail`, and COMMIT is `Answer` with `List` or `Withdraw`.

`StoreProofs`, from the same invariant and with every fault:

* `PublishedAreComplete`: from `EnginesKept` at the COMMIT of a POST, and afterwards
  nobody but a PATCH or a DELETE touches the engine.
* `DeletedOnce`: a row's pending deletion excludes another (lock
  ownership), so the second of two DELETEs finds no row at its statement,
  and a connection without a PATCH gets no row back.
* `DeletedRowsStay`: of all requests only a POST and a PATCH have writes to
  `aws_connections` pending that are rows, and the POST of a listed connection has
  answered.
* `TablesArePaired`. `RowsInv` adds to `RegistryInv` what a handler knows of the rows
  it writes: `OwnKeys` (it holds no keys but its own connection's and the nil
  UUID), `PairPending` (which stage has a write to `connections` pending, and that it is
  under the key its `aws_connections` row refers to) and `WritesOwn` (past its queries, a
  request that writes back has found its own connection, and the row is still
  there unless a DELETE was sent). `RowsPaired` itself is part of the invariant: the
  second query of a handler finds the row that the first one refers to only because
  the tables were paired when it read them. `LocEffect` classifies what a step can make of a
  handler's keys; a COMMIT or `SaveRow` then writes its own pair (`WritesItsOwn`,
  `CommitPairs`).
* `NeverSilent`. `DivergenceInv` says, of each connection none of whose writers has been
  told of an error: an engine without a row has its POST under way; an engine that
  is not whole under a row has a DELETE about to commit, if nobody patches, and has
  PATCHes at the stages that write what is missing (`Accounted`, as in
  `EnginesConverge`), if nobody deletes. Here no fault is excluded, for a call that
  fails is an error that its client is told of; what remains is that a call that
  succeeds keeps the account. A PATCH never builds the engine of a missing row because
  of `WritesOwn`. When all writers have answered, nobody is left to explain a
  difference, so there is none.
* `EnginesConverge`, when Vault answers and handlers are not killed, for all bodies. The
  argument: a call that fails found the engine unmounted, or `enable` found it mounted.
  Whoever unmounted or mounted it since is still before the calls that the account of
  the missing part names, and it is another request, so the failing one may leave. The
  role call alone can also be refused on a mounted engine, for want of a type.
  `TypeKnown` says when a PATCH can lack one past its second merge: its body has
  none, and another PATCH was sent (`Rivalled`), for only that one can have taken the
  role away before it was read. Then both requests of `Untyped` are there, and the one
  that is refused answers 500.
* `DeadlocksResolve`: every lock belongs to a request under way (`OwnersHaveWritten`), and a
  request that has a lock and waits is a PATCH before its second save or a DELETE
  before its second statement (`WaitersWithLocks`): the POST's second insert waits for
  nobody, since nothing else refers to its UUID. Those two wait only for each other's
  kind, over a common row; `OwnKeys` says which rows these can be, the nil UUID included, and
  so a chain of four contains a pair. This is what lets `DeadlockVictim` look for pairs
  only.

`PoolProofs`:

* `PoolsCannotLockUp`. The handlers on pools implement `Spec`, so `RowsInv` holds of
  them; with it, a transaction with pending writes is in a stage between Begin and
  COMMIT and holds its one connection (`HeldInv`), also over error returns.

`ServerLifecycle_proofs` and `MultiThreadedFunc_proofs`:

* `ServedAreAnswered` and `TracesHandedOverHolds`: the listener is closed before the drain, the
  drain has emptied the handlers unless it timed out, a span is late only if it
  ended after the batcher was stopped, and nothing joins the queue after that, so that
  the last export empties it.
* `ClosedAfterSends`: the wait group is the number of goroutines that have not run
  `wg.Done`.

`ListProofs`. The client of a list only reads, so every invariant of the handlers holds
beside it (`Beside`: `RowsInv`, `PublishedIsComplete` and `Exercised`), and each theorem
adds what the reader remembers.

* `ListFailsForWriters`: `PageIsThere` says that a row of the page whose connection nobody
  deletes is still in the table; by `PublishedIsComplete` its engine is whole, if nobody
  patches it either, so that no read of it fails.
* `ListShowsWhole`: `Unpatched` (no request holds or writes a name or key that
  differs from the one the row has, unless somebody changes it) makes what the
  join reads the row's own name, and `PageFilled` and `ShownFilled` carry the filled
  entries from the page into what the client has got.
* `ListPagesAscend`: `Ordered` is the invariant. While nobody renames or writes back
  (`Calm`), the name of a connection is unique (`NamesDistinct`: a second owner would have
  met the unique index), so each connection has a place in the order. The `m`-th row
  that the client has, or will have with the page being made, has fewer than `m`
  rows of the table below it, unless a POST of a lower name was sent. What OFFSET selects
  next then lies above it. This needs counting: in a sorting `k - 1` rows lie below
  the `k`-th (`CalmSorting`, from `Permutation` and the cardinality of intervals).
* `ListSkipsNothing`: `Covered` says that a connection that was there at the first page is
  among the served rows, or has at least as many rows below it as were served, so that
  OFFSET does not pass over it. A deletion would leave fewer, and this is what the
  property excepts.

`Ordered` and `Covered` were model-checked on the instance of `list` before they were
proved.

`RequestPipeline_proofs`, about the values of `Payloads` for every set of attributes' values
and every bound:

* `OneRequestIdHolds`, from `IdsInv`: which of the header, the context and the
  answer carry an id at each step of the middleware.
* `PagesAdvanceHolds`, from `PagesInv`: what the validator lets through is in the bounds that
  the handler parses again.
* `NeverPanicsHolds` and `ShownIsGivenHolds`, from `BodiesInv`: each struct in memory has the
  fields of its Go type with values of their types, so no copy meets the kinds on
  which `CopyField` panics, and the tables with Vault hold what the client last gave
  (`Matches`), attribute by attribute through each copy, an omitted one by way of what
  was read back; the policies alone may be empty instead, if the last PATCH had none.

Only model-checked: the liveness properties `Termination`, `StatusAnswers`, `StopsWhenTold`
and `CallerReturns`, since TLAPS proves neither liveness under fairness nor ENABLED; and the
violations, which are counterexamples of an instance.

## Not modelled

* Configuration: read once, its values are CONSTANTS (`ListLimit`, `limit`, ...).
* `Audit`, `ActionTypeEnum` and `ActionStatusTypeEnum`: declared, and used by no handler.
* Texts, codes and logging of errors, HTTP status lines, and metrics; of telemetry only the
  batch of ended spans.
* `GenerateCredsAWSConnection` (not routed), `UpdateAWSSecretsEngine`,
  `CreateObject`, `DeleteObject` and `UpdateObjectWithoutTx` (not called).
* `autoMigrate` and the creation of the database: steps of set-up that may fail,
  without their SQL.
* That writes go through the handle with the read-only role: whether they are allowed is a
  matter of grants that the repository does not define.
* A call to Vault that never returns: no timeout bounds it, so `Termination` would fail at
  once.
* Tests, charts and scripts, but for the client they describe.

## Plan

Done: all modules of the table above, their runs and the theorems listed.

What would come next: that a full pool always has a holder that can go on, as a theorem (its
row locks are `DeadlocksResolve`, its waiters `PoolsCannotLockUp`; the sum over the holders
is a fold, whose computation is an induction over data), and a Vault call without
an answer, once the code bounds it by a timeout.

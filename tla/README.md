# TLA+ verification of the IndraDB remote-access layer

This directory holds TLA+ models of the concurrent and retrying parts of the
repository: what each module models, what TLC checks on small instances,
and what TLAPS proves for all values of the constants.

## 1. Inventory

The system's parts, from `spec.md` and the four source files:

| Component | Source | State it keeps | Operations |
|---|---|---|---|
| Vertex traversal scheduler | `src/plugins/host/src/util.rs` (`map`) | pagination cursor `last_id`; shared failure slot `last_err` (`Arc<Mutex<Option<..>>>`); a `ThreadPool` of `max(num_workers, 2)` threads with its job queue | loop-head check of `last_err`; range query; dispatch of one job per vertex; mapper call (Ok / Err) in a worker; `pool.join()`; return of `last_err` |
| Legacy transactional client | `src/bin/src/common/client_datastore.rs` | only the port; each call builds a reactor, a TCP connection, an RPC system and a server-side transaction | `execute`: up to 5 connect + ping attempts 1 s apart, then `panic!`; then one RPC (`create_vertex`, `get_vertices`, ..., `delete_edge_metadata`), errors mapped to `indradb::Error` |
| Streaming client | `src/proto/src/client.rs` (`Client`) | one tonic channel, cloned freely | `new` (connect once), single RPCs (`ping`, `sync`, `create_vertex`, `create_edge`, `delete`, `set_properties`, `index_property`, `execute_plugin`), server-streaming `get`, client-streaming `bulk_insert` with a spawned producer, a 100-slot `mpsc` channel and a `last_err` slot |
| Error taxonomy | `src/proto/src/client.rs` (`ClientError`) | none | `From` conversions, `Display` |
| Library crate root | `src/lib/src/lib.rs` | none | re-exports |

Not in `src/` and treated as environment: the datastores (memory, RocksDB,
Postgres) that answer the queries, the Cap'n Proto and protobuf converters,
and the servers.

**Interactions.** `util::map` calls `Transaction::get_vertices` on whatever
transaction it is given; with the legacy client every such call is its own
connection and its own server transaction, so pages are read from different
states of the graph. The mapper runs on pool threads and may itself write to
the datastore. The streaming client's `bulk_insert` couples a spawned
producer task and the foreground RPC through a bounded channel and a shared
`last_err`.

**What is hard.** Interleavings of the orchestrating thread with pool
threads around the `last_err` mutex; the cursor under concurrent writes;
the short-page test at exact multiples of the page size; the order of
`join` and the read of the result; the legacy client's retry budget and the
`unwrap()` on the ping RPC; lost responses with no retry; the bulk-insert
producer failing after the foreground has already read `last_err`; the
bounded channel's back-pressure.

**Properties that make each part correct.**
- Scheduler: no vertex mapped twice; on success, every vertex that existed
  throughout was mapped; an error is returned iff one occurred; `map`
  returns; (spec) the first failure is kept; (spec) no page is fetched after
  a failure.
- Legacy client: at most 5 attempts; a server ready at attempt k is used at
  attempt k; a panic only after 5 failed attempts (spec: probe failures are
  retried); each operation applied at most once.
- Streaming client: `bulk_insert` returns Ok only if every item reached the
  server; the channel never holds more than its capacity; `get` returns the
  server's outputs in order or an error.

The hazards, each at its line, are listed in `PROJECT.json`.

## 2. Modules

| Module | Models | Checked by | Proved in |
|---|---|---|---|
| `VertexMapper` | `util::map` (scheduler) | `MCVertexMapper` (three cfgs + zero limits) | `VertexMapperProofs` |
| `RemoteCall` | the contract of one remote call (abstract; spec 4 and 7) | via refinement | |
| `LegacyClient` | `ClientTransaction::execute` and its fifteen operations | `MCLegacyClient` (three cfgs) | `LegacyClientProofs` |
| `BulkInsert` | `Client::bulk_insert` | `MCBulkInsert` (two cfgs) | `BulkInsertProofs` |
| `StreamingClient` | `Client::new`, the unary calls, `get`, `execute_plugin`, several tasks | `MCStreamingClient` | `StreamingClientProofs` |
| `SequenceLemmas` | (no code: facts about concatenation used by two proof modules) | | itself |

Both clients are shown to implement `RemoteCall`: `LegacyClient` through
`RC == INSTANCE RemoteCall WITH status <- Status` (checked by TLC as the
property `RCSpec` and proved by TLAPS as `Refinement`), `StreamingClient`
once per task through `RC(t)` (checked as `RCSpecAll`, written as one
initial predicate and one action property because TLC does not check a
quantified `Spec`, and proved in that form by TLAPS). `RemoteCall` says: calls come one after the other; the
server executes each begun call at most once; a call answers Ok only if it
was executed, and may instead answer an error or end the process. An error
says nothing about execution: `Execute(i)` may run any begun call not yet
executed, the current one or an earlier one, because a streaming call whose
future was dropped may still be run by the server after the task has moved
on (section 6).

Still open: composing `VertexMapper` with `LegacyClient` as the transport of
`get_vertices`, and an abstract traversal spec for the scheduler.

## 3. `VertexMapper` — the traversal scheduler

| Code (`util.rs`) | Model |
|---|---|
| `max(num_workers, 2)`, `max(query_limit, 1)` (27-28) | `PoolSize`, `Limit` |
| `last_id: Option<Uuid>` (31) | `last_id`, `NoId = 0` for `None`; ids are positive naturals in uuid order |
| `last_err` (30) | `last_err`, values `NoErr`, `QueryErr`, `MapErr(v)` |
| loop head (33-36) | `CheckLastErr` |
| query + page + cursor + dispatch + short-page break (38-69) | `GetVertices` (one atomic step: the server answers in one transaction, and the enqueue loop reads no shared state) |
| query error (44-49) | `GetVerticesErr` |
| pool thread takes a job / mapper Ok / mapper Err (57-64) | `WorkerStart`, `WorkerMapOk`, `WorkerMapErr` |
| `pool.join()` and the return (72-79) | `Join` |
| other writers on the datastore | `WriterInsert`, `WriterDelete` (at most `MaxChanges`) |

Ghost variables: `dispatched` and `mapped` count `pool.execute` and finished
mapper calls per vertex; `raised` holds every error produced; `stable` the
vertices present from the start and never deleted. The pool picks any queued
job rather than the oldest: completion order is arbitrary anyway with two
or more threads, so this only adds behaviours.

The datastore's answer (`IsRangeResult`) is taken from the spec: the first
`Limit` matching vertices above the cursor, in increasing id order.

**Fairness.** Weak fairness for the orchestrator's steps, for the query
(it returns a page or an error), for join, and per pool thread for taking a
job and for finishing the mapper call. These are OS threads and the mapper
is assumed to return; other writers get no fairness.

**Runs** (`MCVertexMapper`: ids 1..5, vertex 2 of type "b", filter "a",
`query_limit = 2`, `num_workers = 1` so the pool has 2 threads,
`MaxChanges = 2`, `MaxPages = 5`; about 390,000 states):
- `vertex_mapper` (pass): `TypeOK`, `NoDuplicateMapping`, `CompleteOnSuccess`,
  `ErrorReported`, `Termination`. Five ids with pages of two reach full
  pages, an exact-multiple end with an empty last page, and short pages;
  two writes let a vertex appear or vanish above or below the cursor.
  `MaxPages` is never reached (otherwise `Termination` would fail).
  Deadlock checking is off because `map` returns: `done` is final.
- `vertex_mapper_first_error` (violation of `FirstErrorKept`): a second
  failure overwrites the one in `last_err`, because the mapper's write at
  `util.rs:62` does not look at the slot, contrary to the spec's
  first-writer-wins slot. With two TLC workers the counterexample differs
  from run to run: a query error (`util.rs:45-48`) later replaced by a
  mapper error, or two mapper errors.
- `vertex_mapper_fetch_after_failure` (violation of `NoFetchAfterFailure`):
  a mapper fails between the check at `util.rs:34` and the query at
  `util.rs:44`, and the next page is queried anyway, contrary to spec 8.3.
  In the shortest trace the cursor is already past the last vertex, so the
  late query returns an empty page and dispatches nothing; what the
  property catches is that the query is issued at all.

- `vertex_mapper_zero_limits` (pass; ids 1..3, `query_limit = 0`,
  `num_workers = 0`, one write; 2,494 states): `Termination`. The clamps at lines 27-28 turn the zeros into pages of one
  and two pool threads; without them (mutants `LimitUnclamped`,
  `PoolSizeUnclamped`) the loop never advances or no job ever runs and
  `Termination` fails.

Each property of the passing runs has a mutant in `PROJECT.json` (cursor not
advanced, `<=` in the short-page test, break dropped, join skipped, a pool
thread taking a job never queued) that TLC catches.

## 4. `LegacyClient` — the Cap'n Proto client

| Code (`client_datastore.rs`) | Model |
|---|---|
| `ClientDatastore::new`, `transaction` (17-41) | `Init` (nothing connects yet) |
| the fifteen `Transaction` methods (77-316) | `CreateVertex`, ..., `DeleteEdgeMetadata`: records giving what decoding does with a bad payload (`?` gives an error; `create_vertex_from_type`'s `unwrap()` at 97 panics) |
| start of `execute` (44-48) | `Invoke(o)` |
| `for _ in 0..5`, connect (50-58) | `Connect`, `MaxAttempts = 5` |
| ping answered ready / not ready (59-62) | `PingAnswer` |
| ping future fails, `unwrap()` (60) | `PingLost` (panic) |
| `sleep`, `panic!` (69-72) | `Sleep` |
| transaction + operation request, answer, `map_err` (63-65) | `ServerHandle` (server), `Receive`, `CallLost` |

The server is environment (`srv`: down, starting, ready) and may crash at
most `MaxCrashes` times, dropping the connection (`conn`). `executed` is a
ghost counting the server's executions of each call. Fairness: weak fairness
for the calling thread's steps (it is a blocked OS thread running a reactor)
and for the server answering a request on a live connection; nothing forces
the server to start or the caller to call again.

Runs (`MCLegacyClient`: `create_edge` and `create_vertex_from_type`, two
calls, one crash, malformed answers allowed; 1,309 states):
- `legacy_client` (pass): `TypeOK`, `AtMostOnce`, `CallEnds`, `RCSpec`.
- `legacy_fatal_before_retries` (violation of `FatalOnlyAfterRetries`): the
  server crashes before the ping is answered and `unwrap()` at line 60
  panics on the first attempt; the spec retries probe failures.
- `legacy_conversion_panic` (violation of `ConversionSurfaced`):
  `create_vertex_from_type` panics on a malformed uuid (line 97); the spec
  surfaces conversion failures as errors.

## 5. `BulkInsert` — the bulk-insert pipeline

| Code (`client.rs`) | Model |
|---|---|
| `mpsc::channel(CHANNEL_CAPACITY)`, `last_err`, spawn (206-219) | `Init`, `Capacity` |
| `tx.send(item).await` succeeds / fails, `return` (212-216) | `ProducerSend`, `ProducerFail` |
| end of the loop, `tx` dropped (212-218) | `ProducerEnd` |
| `self.0.bulk_insert(..).await?` (221) | server: `ServerRecv`, `ServerAnswer`; client: `ForegroundAnswer`; dropping the future: `Cancel` |
| `last_err.lock()`, `take()` (223-228) | `ForegroundCheck` |

The server takes items in order and answers once: Ok after the stream ends,
an error at any time, or, when `EarlyAnswer` is TRUE, Ok before the stream
ends; its answer drops the receiver. Fairness: weak fairness for the
producer task, the foreground and the server. `Capacity = 2` with five items
stands for 100: the channel fills, the producer blocks and resumes, which is
all that the size changes.

Runs: `bulk_insert` (pass, 142 states): `TypeOK` (with the bound
`Len(chan) <= Capacity`), `Completeness`, `Termination`; the last covers
the producer blocked on a full channel when the server fails or the call
is dropped. `bulk_insert_early_answer` (violation of
`Completeness`): the server answers Ok at once, the foreground reads
`last_err` (line 223) before the producer's send fails, and Ok is returned
with nothing delivered.

## 6. `StreamingClient` — the gRPC client

| Code (`client.rs`) | Model |
|---|---|
| `Client::new` (90-93) | `New` (connected or failed; no retry) |
| `#[derive(Clone)] Client`, a task calling a method | `Invoke(t, o)` |
| `ping` ... `execute_plugin` (96-249) | `Ping`, ..., `ExecutePlugin`: records giving the decoding of the answer |
| `.await?`, `try_into()?`, `None => Null` (e.g. 244-248) | `Receive(t)`, `ErrorOf`, `Results` (the `ClientError` variants) |
| `get`'s loop (152-156) | `GetNext(t)` |
| dropping a call's future | `Cancel(t)`; the request left at the server: `dropped`, `ServerAbandoned(t)` |

The server answers a value, a malformed payload, or an error status before
or after executing the call (the connection failed after it ran); a query
answers with a stream of values, possibly malformed, ended by its end or an
error. A task may drop the future of its call (spec 5). If the server has
not answered yet, the request stays with it (`dropped[t]`). tonic resets the
HTTP/2 stream, but the handler may already be running. So the server later
executes the request or not (`ServerAbandoned`). This can happen after the
task has started its next call, and no answer reaches the task. Fairness:
weak fairness per task and for the server's answer; none for
`ServerAbandoned`, which no property waits for.

Run `streaming_client` (pass; two tasks, `get`, `create_vertex_from_type`,
`execute_plugin`, two calls per task, streams of up to two values;
221,859 states): `TypeOK`, `GetFaithful`, `ConversionSurfaced`,
`CallReturns`, `RCSpecAll`. With two calls per task, a dropped first call
can be executed during or after the second, which `RCSpecAll` must accept
as an `Execute` of the earlier call, still at most once. A contract that
allows execution only while the call is in progress fails on exactly that
trace.

Every property of every passing run has a mutant in `PROJECT.json` that TLC
catches (the pipeline: an unbounded send, a loop one short, a
sender kept alive; the clients: a dropped call retried, a status taken for
Ok, a ping waiting on the same connection, errors not converted, a stream
error taken for its end, a stream end not seen, a bad payload defaulted).

## 7. Proofs

All proofs are checked by `tlapm` to the last leaf, for every value of the
constants satisfying the `ASSUME`s of the module that declares them.

`VertexMapperProofs` (ids positive naturals, natural limits and worker
counts):
- `TypeCorrect`: `Spec => []TypeOK`, by `InitTypeOK` and `NextTypeOK`.
- `NoDuplicate`: `Spec => []NoDuplicateMapping`. `NoDuplicateMapping` is not
  inductive; the inductive invariant is `IInv == TypeOK /\ CursorInv`, where
  `CursorInv` says every dispatched vertex is at or below the cursor. A
  page holds ids above the cursor (`PageLastLemma`), its last element is its
  largest (the page is sorted), so no page vertex was dispatched before and
  all of them end up at or below the new cursor. `CursorInv` was checked by
  TLC on the instance above before it was proved.
- `ErrorReportedHolds`: `Spec => []ErrorReported`, from `TypeOK /\ ErrInv`.
  `ErrInv` says the slot is empty exactly when nothing was raised, holds a
  raised error otherwise, and that once `map()` has returned the pool is
  idle and the result is the slot's content. The last part is what makes
  it inductive: after `join` no job is queued or running, so no mapper can
  write the slot behind the returned value.
- `CompleteOnSuccessHolds`: `Spec => []CompleteOnSuccess`, from
  `MInv == IInv /\ ErrInv /\ PoolInv /\ CoverInv`. `PoolInv` is the pool's
  accounting: for each vertex, finished + queued + running (on at most one
  thread) equals dispatched; with `CursorInv` a job taken off the queue
  cannot be running elsewhere. `CoverInv` says every matching vertex
  present since the start (`stable`, a subset of the graph) has been
  dispatched once the cursor has passed it, and all of them once the loop
  has left without an error. The key step is a page: a stable vertex above
  the old cursor that is not on the page forces a full page whose last id
  is below it, so the cursor does not pass it and the loop goes on. At
  `done` with no error, the pool is idle, so finished = dispatched = 1.
  `MInv` was checked by TLC on the instance above (387,946 states) first.

`LegacyClientProofs` (a set of operations, natural bounds on calls and
crashes, a Boolean `MalformedReplies`):
- `TypeCorrect`: `Spec => []TypeOK`.
- `AtMostOnceHolds`: `Spec => []AtMostOnce`, from `IInv == TypeOK /\ ExecInv`.
  `ExecInv` says: no call is executed twice and calls not yet begun not at
  all; while a call is active its number is in range; a call whose request
  has no answer yet has not been executed, and an Ok answer means it has.
  The last two are what make `ServerHandle` safe: the server executes only
  a call with no answer, and a retry after a lost answer is not possible
  because `CallLost` ends the call with an error.
- `Refinement`: `Spec => RCSpec`. `InitRefines` maps the initial state to
  `RemoteCall`'s; `StepRefines` shows, under `IInv`, that every step is a
  `Begin` (`Invoke`), an `Execute` (`ServerHandle` with an executing
  answer), a `ReturnOk`/`ReturnErr` (`Receive`, `CallLost`), a `Fatal`
  (the panics) or a stutter (connecting, pinging, sleeping, the server's
  own steps).

`BulkInsertProofs` (a natural item count, a positive capacity):
- `TypeCorrect`: `Spec => []TypeOK`, so the channel never holds more than
  `Capacity` items.
- `CompletenessHolds`: `~EarlyAnswer => (Spec => []Completeness)`, from
  `CInv == IInv /\ AnswerInv`. `IInv == TypeOK /\ StreamFaithful`, where
  `StreamFaithful` (defined in the proof module) says the delivered items
  followed by the queued ones are the sent prefix of the Vec. It is
  inductive with `TypeOK`: a send appends the next item to the channel and
  to the sent prefix (`PrefixAppend`, `ConcatAppendRight`), and a receive
  moves the channel's head to the delivered items (`ConcatMoveHead`). `AnswerInv` says that once the server has
  answered the receiver is gone, that a producer which ended while the
  receiver was alive ended after the last item, that an Ok answer therefore
  finds every item sent and the channel drained, and that the foreground
  returns Ok only after an Ok answer. It was checked by TLC (four items,
  capacity two) before it was proved. The hypothesis is the one the run
  `bulk_insert_early_answer` shows to be needed.

`StreamingClientProofs` (any nonempty set of tasks, operations among the
ten, natural bounds):
- `TypeCorrect`, `GetFaithfulHolds`, `ConversionSurfacedHolds`: from
  `SInv == TypeOK /\ \A t : TaskInv(t)`. `TaskInv(t)` says, for task t's
  current call: while get reads its stream, the output so far followed by
  the unread stream is what the server emitted, and the unread stream is
  `Terminated` (values, then one end or status); a query's reply is never a
  value; a done get with Ok has output followed by the end equal to what
  was emitted; a malformed reply at done came with a Conversion error or a
  cancellation; the ghost execution count of the current call is 0
  while it is unanswered and 1 once a value or a stream came back; and a
  dropped request is a begun call, not yet executed, which is the current
  one only once that call was cancelled unanswered. The last conjunct is
  what keeps `ServerAbandoned` from executing a call twice.
  `TerminatedTail` and `TerminatedEnd` give what reading a value and
  reading the terminator leave; `TaskFrame` shows that a step of another
  task leaves `TaskInv(t)` alone. `SInv` was checked by TLC on the run's
  instance (two calls per task) before it was proved.
- `Refinement`: `Spec => RCSpecAll`. Under `SInv`, `StepRefines` maps each
  step of task t to `Begin` (`Invoke`), `Execute(calls[t])` (`ServerReply`
  that executes), `Execute(i)` for a dropped call i (`ServerAbandoned` that
  executes), `ReturnOk` (`Receive` of a value, the end of get's stream),
  `ReturnErr` (an error, a bad value, `Cancel`) or a stutter of `RC(t)`;
  steps of other tasks are stutters (`RCStutter`).

`SequenceLemmas`: `ConcatAppendRight` and `ConcatMoveHead`, the two facts
about `\o` the channel of `BulkInsert` and get's stream both rest on.

The provers handle Boolean-valued variables poorly when they are mixed with
arithmetic, so each proof first shows, with Zenon, that the Boolean flag
(`conn`, `rxOpen`) stays Boolean and cites that step in every case.

Every invariant and every refinement property of a passing run is now
also a theorem. Only model-checked: the liveness properties `Termination`
(of `VertexMapper` and `BulkInsert`), `CallEnds` and `CallReturns`, since
they need fairness and ENABLED, which are out of this prover's reach here;
and the violations of the five runs that expect one, which are
counterexamples rather than theorems.

## 8. Not modelled

- The crate root `lib.rs`: declarations and re-exports, no behaviour.
- `ClientError`'s `Display` and `source()`: formatting only; the variants and
  the `From` conversions are modelled as the results calls return.
- The graph value types, the Cap'n Proto and protobuf converters, the
  datastores and the servers: not under `src/`; they appear only as
  environment (the range-query contract in `VertexMapper`, the servers in
  the client modules), and a malformed payload is one of the answers.
- The composition of `VertexMapper` with `LegacyClient` as the transport of
  its page queries: each page would be its own connection and server
  transaction, which `VertexMapper` already reflects by letting writers
  change the graph between pages.

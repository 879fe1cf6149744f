# Formal models of deep

This directory holds TLA+ specifications of the parts of deep (a tracing-style
snapshot store: ingesters write blocks locally and flush them to an object
backend, a query frontend shards and retries queries against queriers, and a
layered parquet reader serves those queries from the backend) that have
concurrency, failure handling or subtle control flow. TLC checks the models
on small instances. TLAPS proves the main safety properties for every value
of the constants.

## 1. Inventory of the system

| Part | Source | State | Operations | Interacts with |
|---|---|---|---|---|
| Ingester local block | `src/modules/ingester/local_block.go` | block on local disk, `flushedTime` atomic, `flushed` marker object | `newLocalBlock` (reload marker), `FlushedTime`, `SetFlushed`, `Write` (copy then mark) | the instance's flush queue and clean-up (`spec.md` 4.3, 6), the remote backend |
| Query frontend retry | `src/modules/frontend/retry.go` | per request: `tries`, the request context | `RoundTrip` loop, `shouldRetry` | the querier (`next`), the client's context, a histogram |
| Query frontend handler | `src/modules/frontend/handler.go` | per request: `statusCode` | `ServeHTTP`, `writeError` | the middleware chain, the HTTP client, a counter |
| Query frontend middleware | `src/modules/frontend/frontend.go` | configuration | `New` (validation, chain), trace-by-id and search middleware | retry, sharders, the querier |
| Parquet reader stack | `src/pkg/deepdb/encoding/vparquet/readers.go` | `cachedObjects` registrations, the shared Cache, `TotalBytesRead` | `BackendReaderAt.ReadAt`, `ReadAtWithCache`, `parquetOptimizedReaderAt.ReadAt`, `cachedReaderAt.ReadAt`, `Set*Section` | the backend, the Cache (`spec.md` 4.6, 4.7) |
| Context readers | `src/pkg/deepdb/backend/readerat.go` | the wrapped `io.Reader`'s offset (`allReader`) | `ReadAt`, `ReadAll`, `Reader` of `backendReader` and `allReader` | the backend's `ReadRange`/`Read`, whoever `Reader()` hands the reader to |
| Processor attribute helpers | `src/modules/generator/processor/util/util.go` | loop locals | `FindServiceName`, `FindAttributeValue`, `GetSpanMultiplier` | the metrics-generator processors |
| Metrics registry | `src/modules/generator/registry/interface.go` | memoised label hash | `getHash`, `getValues*` | the processors |
| Application | `src/cmd/deep/app/app.go` | service manager, service states | `New`, `Run`, `readyHandler`, `statusHandler` | every module |
| CLI | `src/cmd/deep-cli/main.go` | none | `loadBackend` | config file, options |
| Generated protobuf | `src/pkg/deeppb/deep.pb.go` | none | (generated) | |

The behaviours that make this system hard are: a crash of an ingester between
copying a block and recording the flush; a backend that fails part-way; a
client that cancels while a call to a querier is in flight; an answer that must
or must not be retried; and reads of the same bytes served along three routes
(header/footer constants, the Cache, the backend) that must agree.

## 2. Modules and how they correspond to the code

### IngesterFlush (`local_block.go` with the instance around it)

State: `localFiles` (blocks on local disk), `remote[b]` (`"none"`, `"partial"`,
`"full"` copy of block `b` in the backend), `marker[b]` (the `flushed`
object: a time, `NoMarker` or `Torn`), `flushedTime[b]` (the atomic, `0` =
never flushed), `completeBlocks`, `flush[b]` (where `Write` is), `stamp[b]`
(the `time.Now()` taken by `SetFlushed`), `now`, and counters of crashes and
failures.

Actions: `CompleteBlock` (the instance hands a block to the flush queue, from
the spec); `CopyBlock`/`CopyFails` (`Write` line 87-90: copy succeeds, or
fails leaving a partial copy); `WriteMarker`/`WriteMarkerFails` (`SetFlushed`
71-80: marshal `time.Now()` and write the marker; a failure returns before the
store); `StoreFlushed` (82: the atomic store); `ClearFlushedBlocks` (the
instance deletes a block flushed longer than `CompleteBlockTimeout` ago,
from the spec, guarded by `FlushedTime().IsZero()`); `Restart` (a crash loses
all memory; rediscovery runs `newLocalBlock`, 33-51, which parses the marker
and keeps 0 when it is missing or torn, and requeues every unflushed block).

`BlockLifecycle` is the abstract promise of spec.md 3 and 4.3: each block
goes `unborn -> local -> both -> remote` (created, replicated, local copy
released) and never any other way. `IngesterFlush` maps onto it through
`LifecycleView`, which reads a block's state from `created`, `localFiles`
and `remote` (a block with neither a local nor a whole remote copy maps to
`"lost"`, which the abstract spec never reaches). The property
`ImplementsLifecycle == Lifecycle!Spec` is checked by the `ingester_flush` run.

### RetryWare (`retry.go`)

`pc` follows the loop: `check` (ctx.Err() at 69), `call` (`next.RoundTrip` at
73), `done`. `Answer(o)` is the body after the call: return a non-5xx
response (76-78) or a non-5xx httpgrpc error (81-84), otherwise `tries++` and
give up when `tries >= maxRetries` (87-90). `observed` is the value given to
the deferred histogram (66). `Cancel` is the client cancelling the context at
any moment. `history` records every answer of the querier.

### ReaderStack (`readers.go`)

The object is a concrete parquet file: magic `PAR1`, data bytes, a column
index, an offset index, a footer of `SectionLen` bytes, its 4-byte little-endian
length and the closing magic. `ReadAt(off,len)` is `cachedReaderAt.ReadAt`
(140-147): when `cachedObjects[off] = len` it takes `ReadAtWithCache` (a Cache
hit returns the stored bytes; a miss reads the backend and may store the
bytes), otherwise `parquetOptimizedReaderAt.ReadAt` (88-102) answers the
header and the magic footer from constants and passes anything else to
`BackendReaderAt.ReadAt` (56-63), which counts `TotalBytesRead`.
`SetSection` is `SetFooterSection`/`SetColumnIndexSection`/`SetOffsetIndexSection`
(119-138), each guarded by its CacheControl flag. `CacheEvict` is the Cache
dropping an entry. `BackendFails` is a failed `ReadRange`.

The `reader_stack` run reads 2, 4 and 8 bytes. With 0 among the read
lengths, TLC finds `OnlyEnabledSectionsCached` violated at once. The reason
is that `cachedObjects[off]` is 0 for an offset that was never registered,
so a zero-length read at any offset takes the Cache route (line 142). It
returns no bytes, so the detour costs a Cache lookup and nothing else.

### QueryFrontend (`handler.go`, `frontend.go`, composed with RetryWare)

One request, chosen in `Init` from every combination of operation
(snapshot by id or search), valid or invalid id and parameters, Accept header
(JSON, protobuf, other) and backend or ingester search. `ServeStart` is
`ServeHTTP` up to the round trip together with the op middleware's part before
its inner call: the trace-by-id middleware answers 400 for an invalid id or
invalid parameters (116-133), reads `marshallingFormat` from Accept (136-139)
and then forces `Accept: application/protobuf` upstream (142).
`ShardedRoundTrip` is the sharded round tripper (the sharders are not in the
repository), answering anything a querier may, the context error once the
context has ended, an error of its own (a body too large) or no response and
no error, followed by the trace-by-id post-processing
(`TraceByIDResponse`, 147-184): a 200 body is unmarshalled as protobuf and
re-encoded in `marshallingFormat`, with Content-Type set. An ingester search
goes through the retry loop: `RetryStep` takes the steps of
`RetryWare!CheckContext` and `RetryWare!RoundTripNext` (the very definitions
checked and proved in RetryWare, by `INSTANCE`), and `RetryReturns` hands
the loop's result back. `ServeWrite` is the rest of `ServeHTTP`: an error goes
through `writeError` (`ErrorStatus`: context.Canceled is 499,
context.DeadlineExceeded 504, a body-too-large error 413, an httpgrpc error
its code, anything else 500), so does a nil response (`NilResponseError`,
500), and a response is copied. The request's context ends by
`ClientCancels` or `DeadlinePasses` (`ctxEnd` records which), both the
loop's `Cancel`. `deferredStatus` is the
value the deferred counter increment bound at line 84 and `label` the label it
used.

### AppLifecycle (`app.go`)

`svc` holds each service's dskit state. `RunStart` is `sm.StartAsync`, which
starts every New service, or fails part-way when a signal has already stopped
some; `RunReturns` is `AwaitStopped` returning once all are Terminated or
Failed. `ServiceFailed(s)` is the listener callback (211-231), which calls
`StopAsync` first; `SignalReceived` is the signal goroutine (236-239). The
services' own transitions (`ServiceRuns`, `ServiceTerminates`, `ServiceFails`)
and modules' readiness (`ModuleReadiness`) are the environment. `readyHandler`
is three steps: `ReadyBegin` (the `IsHealthy` test), `ReadyCheck` (ingester,
generator, frontend in that order, for the modules the target runs) and
`ReadyAnswers`. Services keep changing state between these steps. A
request can pass the `IsHealthy` test, then a service fails, and the
request still answers 200 (app.go:310). TLC shows this trace; no run
asserts anything about it, because a readiness answer is a snapshot and
nothing promises more. `StatusRequest` is `statusHandler` for `/status` or
`/status/{endpoint}`, any `mode`, and a runtime-config writer that may fail.

### ProcessorUtil (`util.go`)

One call at a time, each loop iteration a step. `FindCall` is a call of
`FindAttributeValue` (or `FindServiceName`, the same call with one list) on
any key and up to `MaxLists` lists of up to `MaxAttrs` attributes; `li`/`ki`
are the two `range` indices. `FindMatch` is the return from inside both loops
(line 18), `FindSkip` and `FindNextList` advance them, `FindNotFound` is the
`return "", false`. `MultCall` is `GetSpanMultiplier` with `spanMultiplier =
1.0`; `MultNoKey` the empty ratio key, `MultStep` one attribute (the key test,
`GetDoubleValue`, the `v > 0` guard and `1.0 / v`), `MultEnd` the return.
Values are a kind and a number; `StringifyAnyValue` is one distinct string
per value, and `1.0 / v` is kept as the fraction `[num |-> 1, den |-> v]`, so
the model sees a zero or negative divisor exactly.

### ContextReaders (`readerat.go`)

`impl` is the adapter the caller holds, `pos` the offset of `allReader`'s
wrapped `io.Reader`, `last` the answer of the latest call (operation,
offset, buffer length, count, error and the buffer's contents). Byte `i` of
the object is `i`; a byte of the buffer nothing wrote to is `Stale`.
`BackendReadAt` is `ReadRange` into `p` followed by `return len(p), err`;
`ReadRange` (`spec.md` 6) fills the buffer, or fails after filling a prefix
of it, and always fails on a read past the end. `AllReadAt` is the wrapped
`io.ReaderAt`, obeying its contract. `BackendReadAll` is `Reader.Read` (the
whole object or an error); `AllReadAll` is `io.ReadAll` of the wrapped
reader from `pos` to the end, or up to a read error. After `AllReader` or a
first `AllReadAll` it therefore returns only the rest of the object, with a
nil error, while `BackendReadAll` returns the whole object every time.
Nothing in the repository says which of the two `ReadAll` should mean, and
no caller uses it, so no run asserts either. `BackendReader` returns
`ErrUnsupported`; `AllReader` hands the reader out and the caller reads some
bytes from it, moving `pos`.

## 3. Runs

| Run | Module / cfg | Checks | Shows |
|---|---|---|---|
| ingester_flush | MCIngesterFlush / MCIngesterFlush.cfg | TypeOK, NoBlockLost, FlushedTimePersisted, FlushedTimeStable, ImplementsLifecycle, EventuallyFlushed | with crashes and failures no block is lost, the atomic agrees with the marker, a flushed time never moves while the block is on disk, every completed block is eventually flushed and recorded, and the pipeline refines the abstract block lifecycle |
| retry | MCRetryWare / MCRetryWare.cfg | AttemptsBounded, OnlyFailuresRetried, CancelStopsRetries, EventuallyReturns | the loop is bounded, retries only failures, obeys cancellation, terminates |
| retry_observed | MCRetryWare / MCRetryWareObserved.cfg | RetriesObservedExactly (violated) | the "retries" histogram records failed tries, not retries |
| reader_stack | ReaderStack / MCReaderStack.cfg | ReadsAreTransparent, OnlyEnabledSectionsCached | the three read routes agree with the object; only enabled sections are cached |
| reader_accounting | ReaderStack / MCReaderStackAccounting.cfg | TotalBytesReadAccurate (violated) | failed reads are counted, cached-route reads are not |
| query_frontend | QueryFrontend / MCQueryFrontend.cfg | FormatHonoured, ContextEndAnswered | snapshot answers honour Accept; an ingester search whose context ended gets 499 (canceled) or 504 (deadline) unless the in-flight answer was final |
| query_frontend_label | QueryFrontend / MCQueryFrontendLabel.cfg | LabelIsResponseStatus (violated) | the queries counter is always labelled status "0" |
| app_lifecycle | AppLifecycle / MCAppLifecycle.cfg | ShutdownCompletes | Run returns after any failure or signal |
| app_status_unknown | AppLifecycle / MCAppLifecycleStatus.cfg | StatusAlwaysAnswered (violated) | `/status/metrics` panics on a nil function |
| processor_util | MCProcessorUtil / MCProcessorUtil.cfg | TypeOK, FindReturnsFirstMatch, MultiplierIsLastRatio | the first match in argument order wins; the multiplier is 1/v of the last positive ratio, never of zero or a negative one |
| context_readers | MCContextReaders / MCContextReaders.cfg | TypeOK, ReadAtContract | both adapters report an error whenever the buffer is not the object's bytes |
| context_readers_count | MCContextReaders / MCContextReadersCount.cfg | ReadAtCountsDelivered (violated) | `backendReader.ReadAt` reports `len(p)` bytes after a partial fill |

Every property of a passing run has a mutant in `PROJECT.json`: a plausible
bug in the mapped definition (a dropped error check, an off-by-one in the
give-up test, a missing `IsZero` test, a header test that ignores the length,
a registration that ignores its flag ...) under which TLC finds the property
violated.

### Bounds

* IngesterFlush: three blocks (model values; no symmetry, since the run
  checks liveness), clock up to 4, timeout 1, two crashes and two backend
  failures. This is enough for one block to be flushed and cleared while
  another is being copied when a crash hits, for a crash to land between
  each pair of steps of `Write`, and for fairness to have to carry a flush
  through crashes and failed writes. The run has about 450,000 states.
* RetryWare: `maxRetries = 3`, codes 200, 404, 500: a 2xx, a 4xx (returned at
  once) and a 5xx (retried), each as a response and as an httpgrpc error,
  with a cancellation at every point. The proofs cover every `maxRetries`.
* ReaderStack: a section length of 2, reads of 2, 4 and 8 bytes at every
  offset that matters (header, each section, the footer tail), footer and
  offset index cached and the column index not, three reads and one backend
  failure. The proof covers every section length and every flag setting.

* QueryFrontend: `maxRetries = 2` and codes 200, 404, 500, with all 48
  requests; the loop reaches both its give-up and its context exits, and the
  context ends both ways at every stage.
* AppLifecycle: two services (model values; no symmetry, since the run checks
  liveness), ingester and frontend checks, and status requests for known
  sections in every mode. The status run adds the endpoint `metrics`.
* ProcessorUtil: two keys and the empty ratio key, doubles -1, 0, 2 and 4
  (a negative, a zero and two usable ratios), up to two lists of up to two
  attributes: a key twice in one list, in both lists, a usable ratio followed
  by an unusable one and by another usable one. The proofs cover every bound.
* ContextReaders: an object of three bytes; offsets 0..2 and buffers of 1..3
  bytes give reads inside the object, reads past its end and every partial
  fill.

### Fairness

IngesterFlush's run (`FairSpec`) assumes weak fairness of the clock and of each
block's `CopyBlock`, `WriteMarker` and `StoreFlushed`: the flush loop takes
every queued block and retries a failed one (`spec.md` 4.3), and crashes and
failures are bounded. RetryWare assumes weak fairness of the goroutine
serving the request (its check and its call); the querier always answers
(a timeout is an error answer).

AppLifecycle assumes weak fairness of Run's two steps, of the listener
callback for each failed service and of each service finishing its start or
its stop: these are goroutines that are always scheduled. Signals, failures
and requests are not assumed to happen. QueryFrontend's run checks safety only.

## 4. What is proved

`IngesterFlushProofs`, `RetryWareProofs`, `ReaderStackProofs`,
`AppLifecycleProofs`, `ProcessorUtilProofs`, `ContextReadersProofs` and
`QueryFrontendProofs` prove, for all
values of the constants satisfying the modules' ASSUMEs:

* IngesterFlush: `Spec => []TypeOK` and `Spec => []NoBlockLost`. The inductive invariant adds that a
  block whose marker holds a time, or whose atomic is non-zero, or that is past
  `CopyBlock`, has a whole remote copy, and that stamps are times; without it a
  step cannot tell that a block being cleared was replicated.
* IngesterFlush refines BlockLifecycle (`ImplementsBlockLifecycle`:
  `Spec => ImplementsLifecycle`). Initial states map to the all-unborn state
  (`InitRefined`), and every step maps to `Create`, `Replicate`, `Release` or
  a stutter (`StepRefined`). The step proof needs the inductive invariant
  above and a second invariant, `Unborn`: a block not yet created has no
  local files, no remote copy and no flush queued. `Unborn` is what lets a
  `CopyBlock` be shown to act on a block that is already `local`.
* RetryWare: `Spec => []TypeOK`, `[]AttemptsBounded`, `[]CancelStopsRetries`.
  The inductive invariant says that while the loop runs `tries` equals the
  number of calls and is 0 or below `maxRetries`, and that a cancellation seen
  at the call point has no call after it. `[]OnlyFailuresRetried`
  (`OnlyFailuresAlwaysRetried`) needs `FailuresSoFar`: while the loop runs
  every answer so far was a retried one, so only the answer that ends the
  loop can be final.
* ContextReaders: `Spec => []TypeOK` and `[]ReadAtContract`, for every object
  length. Every call overwrites the record of the last one, so the contract
  is inductive as it stands; it rests on ReadRange failing whenever it filled
  less than the buffer, and on the wrapped io.ReaderAt's short count coming
  with an error.
* QueryFrontend: `Spec => []FormatHonoured` (`FormatAlwaysHonoured`): below
  the trace-by-id middleware the upstream Accept is protobuf and
  `marshallingFormat` is the client's; once the sharded round tripper
  answered 200, the answer is the re-encoded body; once written, the
  response is the answer. `Spec => []ContextEndAnswered`
  (`ContextEndAlwaysAnswered`) uses RetryWare's inductive invariant through
  `INSTANCE RetryWareProofs` (every frontend step is a loop step or leaves the
  loop alone), and adds that the context has ended exactly when the loop
  sees it done, that a loop that returned with no call after the context
  ended returned `ctx.Err()`, and that an ingester search past its
  middleware carries the loop's answer. `FrontendAssumption` gives the
  frontend's constants the assumption the loop's proofs use.
* ReaderStack: `Spec => []TypeOK` and `[]ReadsAreTransparent`. The inductive
  invariant adds that every Cache entry holds the object's bytes at its
  range. Lemmas show that the header constant is the file's first four bytes
  and that the synthesised footer equals the file's last eight bytes.
  `OnlyEnabledAlwaysCached` proves `Spec => []OnlyEnabledSectionsCached`
  under the hypothesis `0 \notin ReadLens`. The property alone is not
  inductive: a read at a cached offset could be a read of another length.
  The strengthening `RegisteredEnabled` says every Cache entry lies at the
  offset and length of a registered, enabled section. The hypothesis is
  needed because a zero-length read at an unregistered offset matches the
  zero value of the `cachedObjects` lookup (readers.go:142) and is cached;
  with 0 among the read lengths TLC shows the property fail.

* IngesterFlush: `Spec => []FlushedTimePersisted` (`FlushedTimeMatchesMarker`).
  The strengthening `FlushInv` says that a flush in progress only runs for a
  block whose atomic is still zero, that the marker of a block between
  `WriteMarker` and `StoreFlushed` holds the stamp about to be stored, and
  that a block not yet created has a zero atomic and is not listed. Without
  it, `StoreFlushed` and `CompleteBlock` cannot be shown to keep the atomic
  equal to the marker. The proof also uses `Unborn`.
  `FlushedTimeNeverMoves` proves the action property `FlushedTimeStable`:
  a block's flushed time never changes while its files are on disk. The
  strengthening `MarkerHeld` says the marker holds the flushed time of
  every block on local disk. That includes a block a failed
  `ClearFlushedBlocks` took off `completeBlocks`, so `FlushedTimePersisted`
  is not enough. `FlushInv` keeps flush steps away from a flushed block, so
  only rediscovery can touch its atomic, and it reloads the marker.
* AppLifecycle: `Spec => []TypeOK`, which is inductive as it stands.
* ProcessorUtil: `Spec => []FindReturnsFirstMatch` (`FindAttributeValueCorrect`)
  and `Spec => []MultiplierIsLastRatio` (`SpanMultiplierCorrect`), for every
  key set, value set and bound. These are loop invariants. `FindLoopInv`
  says the indices stay in range and no position before `(li, ki)` matches.
  `MultLoopInv` says `RefAfter(mi, mult)`: `mult` is the reference
  multiplier over attributes `1..mi-1`, written without recursion. At a
  return each becomes the property. `RefAfterStep` is the lemma that one
  `MultStep` extends the reference by one attribute. `TypeCorrect` proves
  `Spec => []TypeOK` from the same loop invariants.

Only model-checked: liveness (`EventuallyFlushed`, `EventuallyReturns`,
`ShutdownCompletes`: TLAPS
does not reason about fairness and ENABLED). Every safety invariant and
action property that a passing run checks is also stated by a theorem.

## 5. Not modelled

* The WAL, head blocks, blocklist poller and compactor are described by the
  spec but not part of `src/`.
* `deep.pb.go` is generated code.
* `frontend.New`'s configuration validation, `buildUpstreamRequestURI`, the
  auth middleware of `app.go` and the status writers' formatting are wiring
  and output with no control state; the sharders and hedging the frontend
  builds on are not in the repository.
* The object decoder and the redis client configuration are pure dispatch or
  configuration defaults with no state.
* The metrics registry's `LabelValues` memoises `hashLabelValues` (defined
  outside `src/`) with 0 as the "not computed" sentinel. A hash that really is
  0 only costs a recomputation of the same value, so nothing observable
  depends on it.
* `deep-cli`'s `loadBackend` is configuration loading and backend selection.

# A verification project for MLServer

TLA+ models of MLServer (`src/mlserver`), the configurations that check them
with TLC, and theorems checked by TLAPS. Line numbers are of this repository.

## 1. Inventory

MLServer is one Python process with one asyncio event loop that serves models
over REST, gRPC and Kafka, and, when `parallel_workers` is set, worker processes
that run the models. Within the loop a coroutine runs undisturbed until it
suspends at an `await` that really waits, so an action of these modules is what
one coroutine or callback does between two suspensions. Between processes every
message and death may interleave.

| Part | Source | State it keeps | Operations | What is hard |
|---|---|---|---|---|
| Adaptive batching | `batching/adaptive.py`, `hooks.py` | bounded queue, futures by id, one batching task | `predict`, the batching task, its timer, the callbacks | a task that ends while a request arrives, lost wake-ups, errors of a batch, callers that go away |
| Batched requests | `batching/requests.py`, `shape.py` | ids and minibatch sizes of one batch | merge, split | rows that end with the wrong caller |
| Codecs, wire formats | `codecs/`, `raw.py`, `grpc/converters.py` | none | encode, decode, pack, unpack | what one side writes and the other reads as something else |
| Inference pool | `parallel/pool.py`, `dispatcher.py`, `worker.py` | workers, rotation, models to restore, futures by message id, a lock | calls, updates, death and restart of a worker, close | a death at any moment, an update while a worker starts, a dead or unready worker in the rotation |
| Pool registry, environments | `parallel/registry.py`, `env.py` | pools by environment and group, directories | find or create a pool, close it when empty, SIGCHLD | check, await, then set; a directory half extracted; a pool closed under a load |
| Model registry | `registry.py` | models by name and version, the default of each name | load, reload, unload, unload of a version, hooks | nothing locks it across awaits |
| Repository handlers | `handlers/model_repository.py`, `repository/` | none | load of every version in a folder, then removal of the stale ones | what is stale is decided before the awaits |
| Data plane, cache | `handlers/dataplane.py`, `cache/` | response cache | infer, metadata, readiness | a model unloaded between lookup and use, a stale cached answer |
| Server | `server.py` | the servers, the start-up flag | start, stop, signals | a load that fails at the start, stops that overlap, pools that close before the calls have ended |
| REST, gRPC, Kafka servers | `rest/`, `grpc/`, `kafka/` | calls under way; consumer, producer | one call each of the above; stop | stop with calls in flight |
| Batch processing | `batch_processing.py` | queues between producer, workers, writer | `mlserver infer` | retries, failures of single items, repeated ids |
| Custom handlers, types, settings, logging, metrics, CLI, runtimes | the rest | - | configuration, adapters | data rather than control |

How they interact: REST, gRPC and Kafka call the data plane and the repository
handlers; these call the model registry; the registry calls its hooks (pool
registry, custom handlers, `load_batching`) and then the model. `load_batching`
puts an AdaptiveBatcher before the model's `predict`; the pool registry puts a
ParallelModel in the model's place, whose calls go through the dispatcher to a
worker, and each worker has a model registry of its own. The server's `stop`
closes the pools first and the servers after them.

What makes each correct:

- Batching: every call is answered; the answer is its own batch's; a request is
  never overtaken, lost or served twice; callers suspended at a full queue move
  on. End to end, a client reads what the model says of its own rows.
- Pool: a worker in the rotation has the models; a restarted one gets all of
  them, whatever is loaded meanwhile; a call on a dead worker fails and does not
  hang; a dead worker leaves the rotation.
- Pool registry: an unload finds the pool its model is in; no pool without
  models; a directory used only once it is complete, and only while its pool is.
- Model registry: what it offers is ready, what it dropped is unloaded, as far as
  the models' own `load()` and `unload()` say so; a reload never leaves a version
  without a ready model; the default is the latest version; a load that failed
  leaves nothing.
- Handlers: the versions of the folder, and no others, end up served; those that
  stay are served throughout. Cache: an answer is the version's that was asked.
- Server: start-up is complete only with every model; every call that was taken
  ends; a stop ends.
- Batch processing: every line of the file gets one record or one error, if the
  server's answers have outputs.

The hazards in `PROJECT.json` name the line where each of these could go wrong,
and the properties that would show it.

## 2. Plan

Built first: `AdaptiveBatcher` with its abstract specification `BatchService`,
`InferencePool`, `ModelRegistry`, `BatchJob`. Built on these since: reloads and
failing updates in `InferencePool`; `PoolRegistry`; `RepositoryHandlers` over
`ModelRegistry`; `DataPlane` over both; `Server`; `WireFormat`, `Codecs` and
`BatchedRequests`, which compose the way of a batch from client to client. Then the
proofs, of every module and of the refinements of `BatchService` and
`RegistryService` (section 6).

Next: an abstract pool, one atomic set of loaded models, which `InferencePool` implements
while one worker at most dies.

## 3. Modules

| Module | Code | Built on |
|---|---|---|
| Rows | rows in which nothing comes twice: suspended calls, keys of a dict, workers | used by AdaptiveBatcher and InferencePool |
| BatchService | the promise of a batcher to its callers | |
| AdaptiveBatcher | `batching/adaptive.py` | implements BatchService |
| WireFormat, Codecs | `raw.py`, `grpc/converters.py`, `codecs/` | Codecs extends WireFormat |
| BatchedRequests | `batching/requests.py`, `shape.py` | extends Codecs |
| InferencePool | `parallel/pool.py`, `dispatcher.py`, `worker.py` | |
| PoolRegistry | `parallel/registry.py`, `env.py` | |
| RegistryService | the promise of a registry to its clients | |
| ModelRegistry | `registry.py` | implements RegistryService |
| RepositoryHandlers | `handlers/model_repository.py` | extends ModelRegistry |
| DataPlane | `handlers/dataplane.py`, `cache/local/local.py` | extends RepositoryHandlers |
| Server | `server.py` and the servers it starts | |
| BatchJob | `batch_processing.py` | |

`MC...` modules hold the small instances. `...Proofs` hold the theorems, each about
the module it is named after, which it extends; `DataPlaneProofs`, about the
handlers as well, also extends `ModelRegistryProofs`. An operator
commented "Mutant" is a changed form of the definition after it, which a run must
tell from the original; it is no part of the model.

### AdaptiveBatcher (`batching/adaptive.py`)

One model's batcher and any set of calls.

| Variable | Code |
|---|---|
| `client` | where each caller's `predict()` is: not made, suspended in `put`, woken there, waiting for its future, returned |
| `queue`, `putters` | `_requests`, an asyncio.Queue: its items and the suspended `put()`s |
| `issued` | ids in the order they entered `_async_responses` (a dict keeps it); also the arrival order |
| `future` | `_async_responses`: absent, pending or done with a result, an exception or a cancellation |
| `batcher`, `filling` | `_batching_task` and `to_batch` of `_batch_requests` |
| `predicting` | prediction tasks, and whether they have ended and wait for their callback |
| `clearing`, `ahead` | the done callback of a failed batching task is due; the callers whose wake-up the loop runs before it |

`Predict`, `ResumePut`, `WaitResponse`, `Cancel` are the caller's steps;
`RunBatcher` and `BatchTimeout` the batching task's between two suspensions (as
`Queue.get` on a queue with items does not suspend, one step may empty the queue
and yield a whole batch); `ClearQueue` is `_batching_task_callback`;
`FinishPredict` and `PredictCallback` the prediction's end and its callback.
asyncio.Queue is external and modelled as the batcher uses it: each item taken
wakes the first putter, a woken putter looks again, and one cancelled after it
was woken passes the wake-up on.

Constants give the faults: `Unmergeable` requests make `BatchedRequests` raise,
`Headless` ones have no inputs (no entry in `split_response`), `Cancellable`
ones belong to clients that may go away, `ModelOutcomes` are outputs, no outputs
or an exception. `SizeAssumption` (more than one request in a batch) is the guard
of `load_batching` (`hooks.py:82`).

`BatchService` is the promise to the callers, without queue, timer or task:
calls are answered once, in groups of at most a batch that share an outcome.

### WireFormat, Codecs and BatchedRequests

One batch from its clients and back, in stages (`stage`): each client encodes
its payloads (`sent`) and sends them over gRPC (`messages`), typed or as raw
contents; the server reads them (`requests`), `BatchedRequests` merges them
(`merged`), the model decodes, computes and encodes (`response`), the response is
split (`answers`), goes back over the wire, and the clients decode it
(`results`). Each stage is one step, as none of it suspends; `FailPredict` is a
batch the model cannot decode. `WireFormat` has tensors as rows of elements, packed
as bytes: a number byte by byte, in its width (`Left` is what remains of it after
each byte, and what remains in the end cannot be packed), a string with its length
in front (`Base` values of a byte, `SizeWidth` bytes of a length); `Codecs` has NumpyCodec
for numbers, StringCodec, and how MLModel chooses between them: by a tensor's
content type, by the model's `Metadata`, or the default. Strings that are read as an
array raise or are misread (`DecodeArray` raises); `Proper` keeps them apart. What the model computes
is external: of every head the rows themselves, or the first element of each.

### InferencePool (`parallel/`)

One pool: `InferencePool`, `Dispatcher`, `AsyncResponses`, the workers, and the
SIGCHLD handler of the pool registry.

| Variable | Code |
|---|---|
| `plan` | what the behaviour may do: its calls, its updates (loads, reloads, unloads), how many workers die, whether loads may fail |
| `proc`, `sigchld` | the processes and a SIGCHLD the Python handler has not seen (external) |
| `loaded` | each worker's model registry |
| `inbox`, `queue` | the calls in a worker's `_requests`, and its `_model_updates`, in order |
| `loading`, `undone` | the loads in a worker that wait for their `load()`; where a load has failed (history) |
| `responses` | the shared queue of responses |
| `handlers`, `spawning` | `_handle_worker_stop` tasks, and those about to call `_start_worker` |
| `workers`, `rotation` | `_workers`, shared by pool and dispatcher; `_workers_round_robin` |
| `registered` | `WorkerRegistry._models` |
| `holder`, `turns`, `update` | who is inside of `_worker_starting_lock`, and who waits for it, in order; where each update is |
| `restart` | where each worker's `_start_worker` is |
| `scheduled` | tasks made by `gather` that have not run yet |
| `pending`, `succeeded`, `failed` | `AsyncResponses._futures`, by state |

A model is a slot (name and version) in a revision, so that a reload can be told
from the load before it; `reload_model` lists its settings before it waits for
the lock (`ListReload` in `WaitUpdate` and `BeginUpdate`), a load and an unload
change the list when every worker has answered. A worker reads its updates in the
order they were sent and makes a task of each, which runs up to the model's
`load()` before the next one is read: `StartLoad` registers the first model of a
slot at once, as `_load_model` does (a worker has no hooks), while a load that
finds a model goes to `_reload_model` and is registered when its `load()` is over
(`EndLoad`), so that of two reloads the last to end stays. A first load that fails
takes out what its slot has by then, whosever it is. A load under way when its slot
is unloaded may end in a registry the worker has dropped, so both outcomes are
allowed (`cut`). Calls come in a queue of their own and are looked up when their
task starts. A worker's responses still in its own buffer are lost when it dies. A
response whose future is gone, or done, is dropped:
`resolve` raises and `_process_responses_cb` restarts the loop, or the loop's
exception handler logs it.

### PoolRegistry (`parallel/registry.py`, `env.py`)

The pools of the server under their keys, an environment's hash and a group id,
and the directories environments are extracted into. A pool is one thing here:
its workers' models all together, as InferencePool has them apart.

| Variable | Code |
|---|---|
| `plan` | the operations of the behaviour, whether they wait for each other, and what may fail |
| `filed` | `_pools` |
| `pool` | each InferencePool made: its key, whether its Environment is still with it, whether the directory was whole when its workers started, the WorkerRegistry, what its workers have, closed or not |
| `dir` | the directory of each key: absent, being extracted or left half-way, whole |
| `live`, `hash` | the settings ModelRegistry has for each name, and that model's `__env_hash__` |
| `task` | where each load, reload, unload or close is |

The steps of a load are the hash (in an executor), the look-up and, for a tarball,
the extraction, then the workers' load; a reload that moves the model to another
pool goes on with an unload in the old one; a pool left empty is closed and then
taken out: whatever is filed under its key by then, and a KeyError if nothing is
(`AfterUnload`). Each may be overtaken by others' steps. Taking a pool's Environment
away deletes its directory (`__del__`).

### ModelRegistry (`registry.py`)

The `SingleModelRegistry` objects made for one name and the entry of
`MultiModelRegistry`; an unload drops the object and a later load makes another,
while operations under way keep the old one. A load is five steps (begin, first
hook, other hooks, `load()`, and for a reload the old model's `unload()`); an
unload is two per model (hooks, `unload()`). `Failures` are the steps of a load that
may raise. The model's own `load()` may also say it is not ready (`Unready`), and its
`unload()` raise or say it goes on (`Stubborn`): an old model's `unload()` that raises
makes the reload fail with the new model in (stage "unretired"), as its step is after
the registration (`registry.py:196`, `:201`). The first
hook may replace the model by another around it (`Wraps`: InferencePool.load_model
returns a ParallelModel). Versions are the numbers that `int()` makes of them.
Operations in `Together` do not wait for others (the loads of a start); the rest
begin only when nothing is under way: an operator who waits for each answer.
Whoever reads the default may change it (`ReadDefault`), as the property keeps
what it finds. `RegistryService` is what clients see of it: the loads whose models are
offered and ready (`Served`), those whose model was loaded and the unloads under way. A load
there is one step, of a model that is ready (`Load`) or says it is not (`LoadUnready`), a load
that fails none, and models go only by an unload that covers them or a load of their version.

### RepositoryHandlers and DataPlane (`handlers/`, `cache/`)

`RepositoryHandlers` adds `request`: for each load or unload of the model by name,
the versions it found in the folder, those it has loaded, those it takes for
stale, and the registry operation it awaits. A handler begins its next operation
in the turn in which the last one ends, so nothing else moves while one is due
(`NoneDue`). The folder may have changed at every request. `alone` is history, for the
properties: nothing else was under way since the request began.

`DataPlane` adds `call` and `cache`: `BeginInfer` looks the model up, checks that
it is ready and looks into the cache without suspending; `EndInfer` stores the
answer. An answer is the model object that computed it.

### Server (`server.py`, `rest/server.py`, `grpc/server.py`, `kafka/server.py`)

| Variable | Code |
|---|---|
| `parallel`, `pool` | whether there are worker processes; the pools together: open, closing, closed |
| `server`, `forced` | each server: serving, draining, closed; uvicorn's `force_exit` |
| `producer` | Kafka's producer |
| `model`, `startup` | the load of each model; `_startup_complete` |
| `main`, `stop` | where `start()` is, and every `stop()`: of each signal, and of a start that failed (number 0) |
| `call` | where each call is |

A stop goes through pools, Kafka (consumer, producer), gRPC, REST and metrics, one
suspension each. uvicorn and grpc.aio are external and modelled as `server.py` uses
them: gRPC gives its calls a grace and cancels them, uvicorn's `handle_exit` returns
at once and `serve()` waits for its calls, unless a second SIGINT forces it. A call
whose inference or conversion raises ends with an error; over Kafka that is a line in
the log and no answer (`kafka/server.py:69`).

### BatchJob (`batch_processing.py`)

The `mlserver infer` command: `produce`, the `consume` tasks, `finalize`, and
`process_batch`, which joins both queues and then cancels the tasks.

| Variable | Code |
|---|---|
| `file`, `read`, `batch` | the input, and what `produce` has read and not put yet |
| `queueIn`, `queueOut`, `unfinishedIn`, `unfinishedOut` | the two queues of at most twice the workers, and asyncio's counts of items without a `task_done` |
| `worker` | each consumer: waiting for a batch, for the server, for a retry or for a place in `queue_out`, or cancelled, with its batch |
| `sink`, `output` | the finalizer and what it wrote; it may fail to open the file (`sink.at = "dead"`) |
| `reported` | lines given up on with an error in the log |
| `job` | where `process_batch` is |

A line is a request, one without inputs, JSON that is no request, or something
`preprocess_items` does not expect; its id is one that other lines may share, or
none. The server answers, answers without outputs, answers something that cannot be
taken apart, or fails, which is retried. `blank` is history: the requests of batches
answered without outputs, which `split_response` has no entry for
(`batching/requests.py:201`), so that they get neither a record nor an error. These,
lines without inputs and all but the last line of a batch with the same id are
`Unaccounted`.

## 4. Runs

All are in `PROJECT.json`, each property with a change to a modelled definition
that breaks it.

| Run | Instance | What it shows |
|---|---|---|
| BatcherServes | 4 calls, batches of 2, the model may raise | no orphaned future, no unserved queue, every call answered, implements BatchService |
| BatcherFaults | 5 calls: one does not merge, one has no inputs, two may leave | wake-ups of the queue and arrival order survive the faults |
| BatchedRequests | batches of 1 to 3 requests with 0 to 2 heads of 0 to 2 rows, numbers of one or two bytes and strings, tagged or not, typed or raw | every client reads what the model says of its own rows, under its own id, with its own parameter |
| PoolCrashes | 2 workers and 2 spare pids; seven plans: a crash around two loads with two calls, a reload, the same with failing loads, an unload with failing loads, two with two crashes, and a load that fails, is undone and tried again | restarted workers have every model, calls find theirs, none is left on a worker that is gone, all end |
| PoolRestore | a crash with two loads in line for the lock, then a reload | *violation*: a reload is lost on a worker that is starting |
| PoolEnvironments | up to 4 models, a tarball, a path, 2 groups; two plans one operation at a time, three with all at once, one of them with a close | a model is found where it is, no empty pools, directories follow their pools |
| PoolSharedTarball | three loads at once, two with one tarball | *violation*: workers start in a directory half extracted |
| RegistryOperations | 3 versions loaded at once, then 2 reloads, an unload and an unload of all, one at a time; hooks that keep the model; each step of a load may raise, version 2 is not ready at first, the first model of version 1 may not stop | ready, no leak, default held and latest while loading; implements RegistryService |
| ServingFolder | 2 clients that load a folder of up to 2 versions, or unload it; 2 calls with payloads of their own; a cache of 1 | the folder is served, what stays is served throughout, answers are the version's, the latest answer is cached |
| ServingCache | the same, with one payload for two versions | *violation*: an answer of another version |
| ServerStops | 2 models that may fail, a call over REST, gRPC and Kafka, a signal beside the stop of a failed start, with workers or without | start-up means loaded, a stop ends unless the pools lost a call, calls end with an answer or an error unless a stop cut them off |
| BatchJobEnds | 2 workers, batches of 2, 2 attempts, six files of up to 10 lines | every line has one record or one error, nothing is cancelled under way, the job ends |

Bounds. Four calls with batches of two give a full batch with the model, a partial one
being filled, or a full queue with two suspended callers; more calls repeat these. Two workers
let one die while the other serves; a third and fourth pid are the replacements,
and two deaths are what it takes for restarts to overlap or signals to coalesce.
A slot in two revisions is what a reload needs, a second slot what it takes for
updates to wait for each other; in PoolRestore it holds the lock while the load of
the first waits in line before the new worker. Pools are told apart by environment, by group and
by both; `MaxPools` is more than any plan makes. Three versions
are the fewest where the default can be neither the newest nor the one just
loaded; two, where a version of the folder can stay and another go. A cache of one
entry is full from the first answer. One signal and a failing start make two stops
that overlap; a second signal only adds more of them. Ten lines make five batches: with two
workers either queue of four is found full. Three requests with zero, one and two
rows put rows before, between and after others; `Base` 64 and lengths of two bytes
are enough to carry from one byte to the next. Each call, update and operation
happens once, which bounds everything else. Deadlock is not checked: all calls
answered, or all operations done, is an end of every instance.

Properties with conditions. Calls of a pool are claimed to find their model, to be
owned and to settle as long as one worker has died; ModelsEverywhere for any number.
Both allow a worker to lack a model that is being unloaded, or of whose slot it has
failed a load (`MayLack`): a first load that fails late takes out whatever its slot has
by then. The properties of the registry and of the handlers allow the models in `Unready` not
to be ready and those in `Stubborn` to go on, as no caller can change what a model answers. CallsEnd
lets a call over REST or Kafka be lost with workers that are stopped under it.
NoOrphan and EveryCallAnswered are claimed with requests that merge, and clients
that stay. NoEmptyPools leaves out failed loads and models that change group without an
environment; OwnRows takes what the merge takes (`Uniform`) of requests as the codecs
make them (`Proper`). Section 5 says what happens
beyond each.

Fairness. The event loop runs whatever is ready, timers fire, and a model's
`predict` returns: weak fairness of each task's and callback's step
(AdaptiveBatcher). Live workers take and answer their messages and signals are
delivered (InferencePool). Loads and predictions end, stops go on and the grace of
gRPC runs out (Server). In BatchJob producer, workers, finalizer and the joins go
on, and the server answers or the client's timeout does. No client has to call or
leave, no worker to die, no signal to come, no operation to begin. ModelRegistry,
PoolRegistry, RepositoryHandlers and DataPlane claim nothing that needs fairness.

## 5. Findings

Three runs end in a violation of what a comment or a test says; `findings` in
`PROJECT.json` has the lines.

- PoolRestore. The lock of a worker that comes up is held only to file it
  (`dispatcher.py:157`), its models are restored after that. A load that was in line
  for the lock before it goes to the new worker as well, which restores that
  model again: a reload of what it has. If the model is reloaded meanwhile, two
  reloads run in the worker, and the one whose `load()` ends last stays, which may be
  that of the old settings. With one load and one reload of a slot this cannot happen:
  the load registers its model when it starts, and the reload comes after it in
  the queue.
- PoolSharedTarball. A directory that is there counts as extracted from the
  moment it is made (`parallel/registry.py:163`).
- ServingCache. The cache's key is the payload alone, and versions answer for each
  other (`dataplane.py:139`).

Met on the way, and left without a run because nothing in the repository says
otherwise, or because a property's condition leaves it out:

- Batching. `_clear_queue` stops at a future that is already resolved, and later
  ones stay pending (`adaptive.py:94`); a client that leaves does the same to the
  callers behind it (`adaptive.py:115`). With different content types in one batch
  the last decides for all (`requests.py:77`). An array of bytes is encoded as one
  buffer, which the split cuts as if it were a list: the first caller gets all of
  it (`codecs/numpy.py:93`); strings in rows of more than one are decoded without
  their shape (`codecs/string.py:72`), and the split counts rows; untagged strings under a
  head without `Metadata` are read as an array of bytes, cut by the last dimension
  (`codecs/numpy.py:39`). Over gRPC an id that is missing comes back as "".
- Pool. After a second death the rotation is rebuilt with workers that are not
  ready, and calls fail (`dispatcher.py:175`); deaths are missed when signals
  coalesce, a dead worker stays in the rotation and its calls hang
  (`parallel/registry.py:71`); a worker that dies while `_start_worker` waits for the
  lock is filed again by `on_worker_start` (`dispatcher.py:158`); a first load that fails
  late in a worker removes the model that came after it (`registry.py:226`); an update whose
  task starts after its worker was removed waits for ever, with the lock
  (`dispatcher.py:241`); with no worker left a call ends in RuntimeError
  (`dispatcher.py:222`).
- Pool registry. A pool that is being closed stays filed until its workers have
  stopped: a load that comes in between goes to workers that are gone, and counts
  as done (`parallel/registry.py:305`); FoundWhereLoaded is checked with models that
  overlap only where they do not share a pool with one that leaves. A pool made
  for a load that fails stays, as does one whose last model
  moves to another group without an environment (`parallel/registry.py:277`).
- Model registry. A hook that raises after another has replaced the model leaves the
  unwrapped model as the default, and offered, though the log says it will be
  removed (`registry.py:229`, `:183`): the runs have such a hook only where none
  replaces the model, and the theorems the hypothesis `Settled`. After a failure or an unload the default may be an older version
  than the latest (`registry.py:115`); overlapping loads of a version leak one
  (`registry.py:152`); a load that is cancelled is not caught (`registry.py:180`); a
  reload whose old model's `unload()` raises fails, with the new model in
  (`registry.py:201`); a load without a version replaces a versioned default and
  unloads it under its version (`registry.py:240`); an unload of all that fails on
  one model leaves the unload of another running.
- Server. Pools are closed before REST has drained: its calls in them are lost and
  the stop waits for them for ever, also that of a start that failed
  (`server.py:188`); overlapping stops may raise; a Kafka message whose answer the producer no
  longer takes is lost (`kafka/server.py:103`).
- `mlserver infer` waits for ever when the output file cannot be opened
  (`batch_processing.py:394`), drops all but the last line of a batch that
  share an id (`batch_processing.py:209`), and every line of a batch that the server
  answers without outputs (`batch_processing.py:237`).

## 6. Proofs

Each theorem holds for every value of the constants that the named assumptions of
its module allow. Those say what a constant is (a number, a finite set, members of
another set), that names for something absent are not names of anything else,
that operations have ids of their own, and, in `SizeAssumption`, what
`load_batching` checks; TLC evaluates them in every run. Where a theorem has a
hypothesis beyond them it is named here, with what happens without it.

### AdaptiveBatcher

For every set of calls, every batch size above one and every choice of faults:

- `Typing`: `Spec => []TypeOK`. TypeOK is inductive as it stands. The lemmas on
  rows (an element taken out or appended leaves nothing twice) come before it; the
  pool has those it needs in its own module. TypeOK includes the bounds of the queue and of the batch being filled; the step that matters is
  `Fill`, which takes what is held and unread, together fewer than two full
  batches, and leaves less than one (`FillTyping`).
- `RequestsKeepOrder`: `[]ArrivalOrder`. The inductive invariant
  `OrderInv` says that `filling \o queue` is the end of `issued`
  (`OrderAsEnds` turns that into ArrivalOrder); an arrival extends both
  (`EndsAppend`), and the batching task leaves an end of what it had whether it
  yields, suspends or fails (`FillEnds`, `EndsOfEnds`).
- `PuttersAreServed`: `[]PuttersServed`. The count of woken calls is not inductive
  alone: `WakeInv` adds that every suspended call is among the putters once, so that
  each item taken wakes one that was not woken before.
- `QueueIsServed`: `[]QueueServed`, if requests merge (`Unmergeable = {}`): otherwise
  the batching task dies with requests in the queue.

Under `Faultless` (requests merge and have inputs, models answer or raise, clients
stay: the conditions NoOrphan has in the runs as well):

- `NobodyOrphaned`: `[]NoOrphan`. The invariant has each request that is waited for
  in one place at a time (`PlacesApart`): the queue, the batch being filled, one
  prediction, or the put.
- `BatcherKeepsPromise`: `Spec => AnswersTogether`. Under the refinement mapping each
  step is an arrival, the answer of one whole batch, or leaves the abstract state
  alone; `PredictCallback` is the answer, and needs that no request is in two batches.

### InferencePool

For any workers, models and plans, updates of one slot that overlap included, with no
hypothesis:

- `PoolTyping`: `[]TypeOK`. Inductive with `OneInside` (one at most holds the lock)
  and `Born` (only processes that were started are workers, or restore models).
- `RestartsMissNothing`: `[]ModelsEverywhere`. `LockInv` is the argument of
  `_worker_starting_lock`: an update that runs holds it, and was shared out to
  every worker that restores or has its models (`EveryoneAsked`); a worker that
  restores has each registered model or was asked to load one of its slot
  (`RestoreCovers`); once a worker loads a model, or has said it is loaded, it has one
  of that slot (`LoadedStays`). All but for an unload, and a load that fails there:
  `MayLack`, with the history `undone`. Without that exception it is false: a load that fails on one
  worker is undone and tried again while it is still under way on another, where it
  fails late and removes the new model. An update and the listing of restores exclude
  each other, so no model falls between the two.
- `NoCallStranded` and `NoTrafficErrors`: `[]CallsOwned` and `[]CallsFindModel`, whose
  condition is that one worker at most has died. `CrashInv` says that there is then one
  replacement, and only ready workers are in the rotation.

### ModelRegistry

For any versions and operations, overlapping or not:

- `RegistryTyping`: `[]TypeOK`, with `RegistryInv`: models are filed under their own
  versions, a registry object is made for each load at most, and a load's model is
  nowhere before it begins.
- `OverlappingLoads`: `[]LatestWhileLoading`: while only loads have run, and none has
  failed before it registered its model for good, the default is the latest version of
  every registry object, however they overlap.

Under `Orderly` (what runs together are loads of different versions),
`Unmixed` (a name has versions, or a model without one) and `Settled` (hooks
after the one that replaces the model do not raise), from the one invariant
`OrderlyInv`: `OfferedIsReady` (`[]QuietReady`), `ReadyIsOffered` (`[]QuietNoLeak`),
`RollingUpdate` (`[]RollingReload`, which no run checks; `KeepsServing` is what clients
see of it) and `DefaultIsRegistered` (`[]DefaultServed`). It says what each operation
knows of the slot of its version while it waits: the model it found is still there, and
ready unless its `load()` said otherwise (`Fit`). What a model answers is no
hypothesis: `Unready` and `Stubborn` are any loads, and the properties except exactly
their models. The runs RegistryOperations and ServingFolder are instances of the
hypotheses; section 5 has what happens without each: leaks, a version that is
registered but unloaded, an unwrapped model as the default.

- `ServesAtOnce`: `Spec => LoadsAtOnce`, under the same three hypotheses: the registry
  implements `RegistryService`. A step moves one slot (`SlotStep`), and `ReadyLoaded` (what is
  ready is of a load that has succeeded) keeps a model that is put in its slot before it
  is loaded, or taken out because it failed, from being seen (`ServedStays`). FinishLoad is
  the abstract load, ready or not, whether the model was in its slot before (a first load) or is put there
  now (a reload); when an unload ends, what it covers has left its slots (`UnloadOwn`).
- `OverlappingLoadsReady`: `[](OnlyVersions => QuietReady)` under `Wraps` alone, for as
  long as only loads of versions have run and none has failed:
  where the first hook replaces the model, a load that retires the model it found never
  retires the one another load has put in its place, as that is a new object.

### RepositoryHandlers and DataPlane

For any requests, folders and calls:

- `ServingUsesRegistry`: `DataSpec => Spec`. Every step of the handlers and of the data
  plane is a step of ModelRegistry or leaves it alone, so that its theorems hold in
  the server; `ServingLatest` is the first of them.
- `CacheHolds`: `DataSpec => LatestIsCached` (an action property) if the cache is on:
  entries have keys of their own, and only a new key evicts the oldest.
- `AnswersAreOwn`: `[]AnswersOwnVersion` if the cache is off or calls with the same
  payload ask for the same version (`OwnPayloads`). The run ServingCache is what
  happens otherwise.
- `OverlappingFolders`: `[]SameFolderServed` under `Wraps`, by `OverlapInv` of the
  registry, `ProgressInv` (what a request has loaded its loads have begun) and
  `FolderInv` (if all found the same folder and none has failed, nothing else is
  registered). Without `Wraps` TLC finds two loads of a version of which one retires the
  other's model.
- `FolderIsServed` and `FolderKeepsServing`: `DataSpec => FolderServed` and
  `DataSpec => KeepsServing` (action properties), whatever ran before the request and
  whichever hooks and loads fail. `AloneInv` is about a request nothing has
  overlapped: no operation runs but its own; the versions it has loaded are in their
  slots and fit; the load under way keeps the model it found as it is until its own is
  (`SoloLoad`); once it removes, what else is registered is stale and still to
  be unloaded or being unloaded (`SoloUnload`). Two auxiliary facts join it:
  ready models are of loads that have begun (`ReadyBegun`), so the model a load makes is new;
  and so has the operation a request awaits (`OpsBegun`).

### PoolRegistry

For any environments, groups, plans and number of pools:

- `PoolsTyping`: `[]TypeOK`, from `PoolInv`: what is filed was made for its key, and
  what an operation needs of its own state.
- `DirectoryOfPool` and `EnvironmentsWhole`: `[]DirFollowsPool` and `[]EnvExtracted`
  under `OwnTarballs`: operations that extract the same tarball for the same group are
  not under way at once and do not fail. `DirInv` says that a directory is whole
  exactly while its pool is filed, and partial exactly while one operation extracts it
  or has failed to. The plans of PoolEnvironments satisfy the hypothesis, that of
  PoolSharedTarball does not: the violation found there takes two loads of one tarball
  at once.
- `ModelsAreFound`: `[]FoundWhereLoaded` under `SharersStay`: where operations overlap,
  models that share a pool other than the default one stay in it, and it is not made
  over a tarball. `FoundInv` says, until the server closes, that a live model is
  with the workers of the pool its settings name, or its pool is being closed after a
  reload; that an open pool keeps its Environment, which is how an unload finds it;
  and that whoever waits for a pool is in an open one, but for the one operation that
  closes it. Who leaves a shared pool may close it under a load (section 5).
- `PoolsAreUsed`: `[]NoEmptyPools` under `SharersStay`. `Kept` says that each name a
  filed pool lists is that of a model the registry has in it, with the hash of its
  Environment, or an operation or the close of the server has to do with it; and
  that a pool that lists nothing is being filled or closed. Like the property it is
  excused by a load that failed or a model that changed its group alone. Overlapping
  the close is not excused. `SharersStay` is needed: an unload that
  empties a pool takes its Environment away while a reload out of the pool's
  group loads into it; the reload then compares two missing hashes, finds
  them equal, and leaves the old model in the old pool.

### Server

For any models, calls and number of signals:

- `TypeCorrect`: `[]TypeOK`, with what a server without workers never does
  (close a pool, lose a call).
- `StartupCorrect`: `[]StartupMeansLoaded`. A load that has ended stays as it
  ended, so what FinishStartup saw holds for ever; the step that could disturb it
  is FinishClosePool, which touches only loads under way.

The second is inductive given the first, with one step per action.

### BatchJob

For any files, workers, batch size and retries:

- `Typing`: `[]TypeOK`. TypeOK says that the counts of the queues stay
  natural numbers (no `task_done` without a `put`), which is not inductive;
  `JoinsCount` is: `unfinishedIn` is the length of the queue plus the number of
  workers with a batch (`BusyCount` gives the cardinalities), `unfinishedOut` the
  same with the finalizer, and each stage of `process_batch` leaves the earlier
  ones empty. `Invariance` is the induction, from a lemma for the workers' steps
  and one for all others.
- `StoppingLosesNothing`: `[]StopLosesNothing`, from the same invariant:
  a count of zero leaves no busy worker and no queued batch.
- `EveryLineOnce`: `[]EachLineOnce`. `LinesInv` has every line that was read in one
  place: the batch being made, a queue, a worker's hands, the finalizer's, the output
  or the log (`InOnePlace`); a batch is taken whole, and what its answer has no
  record of are lines that share an id, have no inputs or came back blank. Typing closes it: when the
  job is done all but the last two are empty.

### BatchedRequests

For any batches of requests as `BatchesAssumption` types them, in form or not, and
both ways in which the model answers:

- `BatchChain`: `[]Chain`. At each stage, what the earlier stages left is what the
  code makes of what was sent: the messages are the requests encoded (`SentChain`),
  the merged heads have the tensors' names, and the response has a tensor for each,
  in order (`ResponseChain`), and the answers are the response split, with the
  request's id and its share of the parameters (`AnswersChain`).
- `EveryRequestAnswered`: `[]EachAnswered`, a part of Chain. What it rests on is
  that the keys of `_minibatch_sizes` are the requests that have an input
  (`OwnersOf`, `KeysByStep`): ids play no part.
- `ParametersAreOwn`: `[]OwnParameters`. When every request has one row and a
  parameter for each head, every head has the requests in the same order, so that
  request i is in place i of the split as well, and the i-th parameter is its own.
- `RowsAreOwn`: `[]OwnRows`, for uniform requests in the form the codecs give them
  (`Proper`): inputs of their own names, as many elements as the shape says, at
  least one in a row, and strings read as strings. Its invariant, RowsChain, is Chain and what the data are: what
  the model makes of each merged head while it is split, and after that, in every
  request's answer, exactly what the model makes of that request's inputs. Four
  facts carry it. The server has the inputs as they were encoded (`OwnInputs`), and
  the client the outputs (`OwnWired`), by `WireRoundTrip`. A merged head has each
  request's data as a block after those of the requests before it (`MergedBlocks`,
  `ConformBlocks`). What the model makes of a block is a block of what it makes of
  the whole, at the place the shape of the output gives (`BlockSplit`: strings,
  rows, and one element of each row). And the split cuts at those places, whichever
  head it takes the sizes from (`OwnPlace`).
- `WireRoundTrip`: `OfWire(ToWire(id, ts, raw)) = ts`, for tensors whose data fit
  their shapes and their datatypes. Numbers are summed up again from their bytes
  (`NumberOfBytes`), strings found one after the other by their lengths
  (`StringsUnpacked`), and raw entries by counting the tensors without data
  (`Chosen`), which is why a tensor without data has to be raw if any is
  (`TellsRaw`): `inject_raw` takes an empty one for a raw one.

The merge folds over the data. The theorems of the library that do induction take an
operator and cannot be used; the induction is over sets instead: from the
well-foundedness of the naturals as a set (`UpTo`), a fold has a value on every
set of places (`FoldExists`) and goes by steps (`KeysByStep`, `FlattenByStep`,
`TotalByStep`, `LengthByStep`), and so do recursive functions (`StepsExist`).

### Only model-checked

Liveness under fairness is beyond the prover: EveryCallAnswered, CallsSettle,
StopsUnlessLost, CallsEnd, JobEnds. Every invariant of a passing run is stated by a
theorem.

## 7. Not modelled

Of the batch's way: arrays of bytes, nested lists, data frames, dates and base64,
codecs of whole requests, parameters of a whole request, floating-point encodings,
REST's JSON. Of the pool: streams (`predict_stream` is not batched either,
`hooks.py:101`) and the workers' own start. Of the pool registry: the paths an
Environment adds to `sys.path`. Of the model registry: versions that are not
numbers, cancelled loads. Of the servers: routes, endpoints that only read,
custom handlers, interceptors, connecting to Kafka, CloudEvents. Time: a timer may
fire whenever it is armed.

Metrics, logging, tracing, settings and the command line have no state that a modelled
one depends on. Inference runtimes (`runtimes/`) stand behind `load`, `predict`
and `unload`, steps that end or raise; the state some of them keep (the drift
batch of alibi-detect) is theirs alone. Generated protobuf code, notebooks,
benchmarks and scripts, which are most of the repository's lines, hold no logic of
the server.

A component is `partly` in `PROJECT.json` where an operation of it is in this list.

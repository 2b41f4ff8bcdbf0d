# TLA+ verification of neurocore

neurocore is a neural-network library in Rust: a model is described as a list
of layers, cut into segments, and trained by a thread that sends jobs to
operators for the CPU, the GPU and memory. This directory models the machinery
below the layers (memory, operators, threads, scheduling, the graph and its
training loop) and the layers and losses themselves, each of which is written
twice, as a loop and as shaders. It checks the models with TLC and proves the
central invariants with TLAPS. Paths are relative to `src/src/compute_manager/` unless they start with
`src/`; `MV` stands for `operators_v2/memory_v2`, `CV` for `operators_v2/cpu_v2`.

## 1. The system and its parts

| Part | State | Operations | Who calls it |
|---|---|---|---|
| Memory executor (`MV/executor.rs`, `pool.rs`, `raw_buffer.rs`, `temp_pool.rs`, `ssd_cache.rs`) | registry of matrix buffers, element pools per device, raw Vulkan buffers, idle staging buffers, bytes in the SSD cache | allocate, acquire, clone/drop of handles, read, write, migrate, evict, clean up | everybody, as `Arc<RwLock<..>>` |
| Pool of temporary matrices (`MV/buffer/pool.rs`) | free lists by device and size | acquire, release, cleanup, limit | CPU jobs, graph |
| Handles, guards, views (`MV/buffer`) | a count in the registry; a private copy in a write guard | clone, drop, read, write | layers, jobs |
| GPU operator (`operators_v2/gpu_operator_v2.rs`, `gpu_v2/queue_v2.rs`) | id counter, channel, finished results, condition variable, one thread | submit, drain, try_drain, capacity, drop | distributor |
| Memory and CPU operators (`memory_operator_v2.rs`, `cpu_operator_v2.rs`) | id counter, finished results; a job runs inside submit | the same | distributor |
| Worker pool (`CV/worker_pool.rs`, `compute_thread_pool.rs`) | channel, atomic counter of active tasks, threads | execute, wait_all, drop | CPU operator |
| Parallel passes (`CV/parallel`) | tasks, result channel, buffers they share | forward and backward over the rows of a batch | CPU operator |
| Chunk scheduler (`CV/scheduler.rs`, `mini_model.rs`) | measurements and a predictor per worker | plan, report | worker pool |
| Distributor (`distributor_v2`) | topology, placement of the epoch | dispatch, on_epoch_boundary | graph |
| Graph (`graph_v2`) | segments, forward cache | build, forward, loss, backward, optimizer phases | training loop |
| Training loop (`src/src/plans/training_plan/execution/execute_v2.rs`) | epoch, batch | train, validate, test | the program |
| Layers and losses (`src/src/layers`, `src/src/losses`, `src/src/plans/loss_plan`) | parameters and gradients at fixed places of a shared buffer, contexts, static caches, temporaries | forward and backward, on the CPU over slices, on the GPU as a row of dispatches | CPU jobs, GPU processor |
| GPU processor and compute (`operators_v2/gpu_v2`) | contexts of the layers, temporaries, pipelines | walk over the layers, take and give back buffers, dispatch and wait | GPU thread |
| Optimizer (`src/src/plans/optimizer_plan`, `CV/opt_dispatch_v2.rs`) | a chain of cubes with states for each parameter buffer, made when it is first used | modify gradients, apply the update | CPU jobs |
| Gradient adapters (`src/src/layers/*/adapter`) | running means | scale the gradients of one layer, on the CPU | graph, between the two phases |

A training thread calls the graph; the graph sends one job at a time through
the distributor and waits. The distributor chooses the operator by the number
of parameters, first moves the inputs of the job to the memory the operator
works on (a job for the memory operator, which calls the memory executor under
its write lock), then submits and drains. The GPU operator has a thread of its
own; the other two run the job in the caller. A CPU job may split the rows of
its batch among the workers of the pool and waits for all of them. Buffers are
shared by reference counts: a migration moves a buffer under every holder.

### What is hard about it

* **Interleaving**: clients of one GPU operator share a result map and a
  condition variable; workers share a channel behind a mutex, an atomic counter and the
  matrices they write; several callers use one pool.
* **Partial failure**: a migration takes its entry out of the registry and may
  fail or panic before it puts it back, inside a nested eviction, under the
  lock; a job may panic on a worker, on the GPU thread or in its caller.
* **Limits**: pools of fixed size, charged by entries, raw buffers and staging
  copies; eviction makes room by moving others.
* **Order and staleness**: shared buffers move while a forward cache holds
  them; streams of a graph are told apart by size; the backward pass undoes the
  forward pass with nothing but positions; gradients accumulate on one device
  and are overwritten on the other; six calls of a training step share a cache.
* **Everything twice**: a layer's two implementations agree only by hand: offsets
  into a flat slice of parameters, which buffer is bound where, how many
  workgroups there are, which temporary is which after a swap, and what was in a
  new buffer before.
* **Liveness**: drains, barriers and drops that wait for a thread.

What makes each part correct: the executor accounts exactly for what it holds,
never passes a limit, counts handles exactly, owns each raw buffer once, and a
successful eviction makes room; an operator delivers every result once to the
holder of its handle; the barrier of the pool returns when the tasks are done
and then only; a parallel pass covers every row once and loses no gradient; a
plan covers the batch; the graph keeps the layers' order, runs each on its
stream, brings each segment the gradient of its own output, updates with the
gradients of the batch, and fails only for reasons one can name; a layer uses
nothing but its data, writes all of its gradients and no other's, gives its
temporaries back, and computes from the same things on both devices. The full list
of hazards, each at its line, is in `PROJECT.json`.

## 2. Modules

| Module | Models | Remarks |
|---|---|---|
| `Maps` | partial functions | helper |
| `MemoryExecutor` | memory executor, handles, the executor's side of the matrix pool | a public call is an action under the lock; a migration is cut at the points where it can fail |
| `MCMemoryExecutor` | | capacities and symmetry |
| `MemoryExecutorProofs` | | theorems: types, counts, limits, ownership of Vulkan buffers, accounts, eviction |
| `OperatorContract` | trait `OperatorV2` as callers see it | abstract specification |
| `GpuOperator` | GPU operator, queue and thread | refines `OperatorContract` |
| `GpuOperatorProofs` | | theorems |
| `SyncOperator` | memory and CPU operators | refines `OperatorContract` |
| `SyncOperatorProofs` | | theorems |
| `WorkerPool` | pool, workers, barrier, drop | |
| `ParallelPass` | parallel forward and backward | extends `WorkerPool`, whose actions carry its tasks |
| `ParallelPassProofs` | | theorems about `WorkerPool` and `ParallelPass` |
| `ChunkPlanner` | scheduler | the algorithms as operators; its state is the measurements |
| `ChunkPlannerProofs` | | theorems |
| `GraphBuilder` | `build_segments` | a fold, one action per layer description |
| `GraphBuilderProofs` | | theorems |
| `OptimizerSteps` | chains of cubes, their states, what went over a gradient | pure operators |
| `GraphTraining` | graph, distributor, optimizer phases, training loop | extends `GraphBuilder` and `OptimizerSteps` |
| `GraphTrainingProofs` | | theorems, over `GraphTraining` and `GraphBuilderProofs` |
| `DeviceProgram` | buffers, views, dispatches, host steps | the vocabulary of the layer modules |
| `ActivationLayers`, `GateLayers`, `NormLayers`, `DropoutLayers`, `MixLayers`, `AttentionLayers`, `LinearAttention`, `RecurrentLayers`, `SpaceCompress` | the layers: for each a loop, a host side and shaders, forward and backward | sequences of operations, no state |
| `LossCubes`, `LossLayers` | the cubes of losses as loops and as shaders, and the interpreters of a chain | a loss is run like a layer |
| `LayerPrograms` | | the table of all layers |
| `ProgramChecks` | | what can be told of a layer by reading its programs, used by `LayerRun` |
| `LayerRun` | passes of a segment of layers on both devices | the only module of this family with state |
| `LayerRunProofs` | | theorems, for any row of layers whose programs pass the check (and match, for the devices to agree) |
| `MCChunkPlanner`, `MCGpuOperator`, `MCGraphTraining`, `MCLayerRun`, `MCParallelPass`, `MCSyncOperator`, `MCWorkerPool` | | values of constants |

### State and actions against the code

**MemoryExecutor.** `used` is the element count of each pool, `entry` the
registry, `lru` the order of last accesses that eviction sorts by, `handles`
the handles alive (a history variable the code does not have: the reference
count must equal it), `raws`, `idle` and `lent` the raw buffers, `ssdUsed` the
cache's byte counter. `job` and `moving` are a migration in progress:
`move_matrix_handle` and the `evict_to_make_room` it calls become `MoveBegin`,
`PassVictim`, `EvictVictim`, `EvictSucceeds`, `EvictFails`, then the read
(`ReadStorage`, `ReadGpuFails`, `ReadSsdFails`) and the store for each device with
its failures, ending in `Commit`. A staging copy can fail in three ways: mapping
the buffer is refused (it goes back to the idle queue, the entry is lost), no buffer
is to be had, or the copy panics with the buffer in hand. What failed migrations
dropped is kept in `lost`, what a panicked copy held in `panic`, since their
charges and their Vulkan buffers stay. While `job` is not `NoJob` nobody else has the
lock. Values are not kept: sizes and identities are.

**GpuOperator.** `submit` draws the id and sends in two steps; the thread
receives, executes (or panics), stores and notifies; a pass of drain's loop is
one step since the mutex is held from the test to the wait; `Drop` sends
Shutdown and joins. `OperatorContract` knows of a job only that it is accepted,
finished and delivered. The refinement maps `finished` to `slots`.

**SyncOperator.** Submit executes the job, then stores its result; a panic
poisons the mutex it happens under. A handle of another operator panics before the
mutex is taken (`DrainForeign`), a handle used twice while it is held
(`DrainPanics`). Refines the same contract.

**WorkerPool.** `execute` counts (`CountTask`), then sends (`SendTask`);
`wait_all` spins until the counter is zero; a worker takes the mutex of
the receiver, receives, runs, and counts down; `Drop` sends one `None` per
worker and joins. **ParallelPass** adds what a task does: it takes its rows from
the plan, locks the pool of matrices, runs its layers, and, in the backward
pass, takes a write guard on the shared gradient. The guard copies the buffer
when it is made and writes all of it back when it is dropped, so it is two steps.

**ChunkPlanner.** `Split`, the greedy assignment and both kinds of plans are
operators; `Report` is a measurement, with the training when the threshold is
reached; a mini model is any function from sizes to times out of a given set,
one that never answers included. Times are integers or `Infinite`, to which adding
anything gives `Infinite` and which is never less than the best time so far: this
is what `f64::MAX` and the strict `<` of the three searches do, and `FirstLeast` is
all three of them. The loop over the chunks and the sum of the imbalance are
recursive functions of the number of chunks, resp. workers, done so far.

**GraphBuilder.** `builder` holds the locals of `build_segments`. `open`,
`focus`, `named` and `clear` are what the author of the plan means (which stream
comes next, whether sizes tell the streams apart); the code does not have them
and the properties compare it with them.

**GraphTraining.** `stage`, `epoch`, `batch` are the training loop, `streams`
and `grads` the vectors of `run_forward` and `run_backward`, `cache` the forward
cache, `at` the device of every buffer of the last forward pass (a buffer moves
under every holder), `paramsAt` and `gradsAt` those of each segment, `own` the
batches that have gone into a gradient buffer and the cubes and adapters that
went over it, `params` the gradients subtracted from a parameter buffer,
`exprs` the map of expressions of the CPU operator with the states of their
cubes. One action is one job with the
moves `ensure_inputs_local` makes for it, or one step of the loop. The three
phases of the optimizer walk over the parameter buffers one job at a time; the
first makes the expression of a buffer, and refuses a description that does not
end in its one `ApplyUpdate`; so does the loop at its start, which builds the chain
for its learning rate (`execute_v2.rs:74`). Buffers and gradients carry rows and
columns (`rows`, `size`): a dimension operation from or to a shape with more than one
plane changes both, a connector reads the rows of the first stream of every
other, the loss asserts rows and columns, and what goes back to the program has to
have the shape the plan gives it. `features` and `lossFits` are what is known of the
data and the loss the program was given; they are chosen when they are first
used. `Refuse` is what something else than the graph refuses, at the places where it
may: memory, the data themselves, a frequency of validation of zero. A failed
assertion is `hung` on the GPU thread (its result never comes), `panicked` in
the caller, either on a worker.

**The layer family.** A forward or backward pass of a layer is a sequence of
operations on named buffers: a new handle, a temporary taken or given back under
a raw id, a step on the host, a dispatch with what is bound, pushed and how many
workgroups there are, a swap, the context that is kept. `DeviceProgram` says what
they do to data, and data are abstracted to where they come from: a buffer holds
the set of inputs, parameters and gradients that went into it, a cell of the
gradients the same with the parameter its writer takes it for. Every layer module
translates the code of its layers into such sequences, the CPU's `forward_buffered`
and `backward_buffered` and the GPU's host functions with the shaders they
dispatch; offsets into the slice of parameters are computed as in the code. Loops
over rows and columns are one operation, as are loops over the elements of a
sequence where nothing depends on their order; loops over heads and Taylor
steps are unrolled, because buffers change there.
`LayerRun` executes the `Programs` it is given: two chunks of a batch on two threads of the CPU,
operations interleaved in any way, then the same data on the GPU, one pass at a
time but the passes of two batches in any order. `state` is what a layer keeps
outside its contexts (statistics, static caches); `mem`, `bound`, `grads` are
buffers, temporaries and gradients; `forward_cache` is the static map of
LinearAttention, in which passes leave entries under the offset of their slice and
the id of their input (`input_id`); a pass may be dropped after its forward half, as
those of validation and test are, and its entry then stays. Handles alive have
different ids; that of a dropped pass may come again. `result` and `misfreed` are
history.

## 3. Runs

| Run | Question | Bounds |
|---|---|---|
| `mem_host_gpu` | accounting, capacity, counts, ownership, room after eviction | RAM 6 and VRAM 6 elements, sizes 1 and 5, 2 entries of at most 2 handles, 3 raw buffers |
| `mem_all_tiers` | the same over RAM, VRAM, SSD; migrations end | RAM 2, VRAM 1, SSD 2 of which 1 is taken at the start, size 1 |
| `mem_live_handle` | (violation) a live handle has an entry | as `mem_host_gpu` |
| `gpu_op` | contract, no lost job or wake-up, order per client, drains and drop end | 2 clients, 3 jobs, a job may panic, handles are used again |
| `sync_op` | contract, poisoning | 2 threads, 3 jobs |
| `pool` | exact counter, barrier, drop | 2 callers, 2 workers, 3 tasks that may panic |
| `pool_wait_panic` | (violation) the barrier ends when no task is active | a task panics |
| `parallel_pass` | every row once, no lost gradient, pass ends | 3 rows, 2 workers, every plan, tasks that may panic |
| `planner` | plans cover the batch, no row twice | 2 workers, up to 6 rows, threshold 2, models that predict nothing, finite or infinite times |
| `graph` | order, routing, gradients, updates, causes of failure | 2 layers or dimension operations, at most one Splitter, 2 stream sizes, shapes of 1 and 2 planes, light and heavy segments, 1 epoch, 2 batches of 2 rows, data and loss that fit or not, validation and test; an optimizer with a state and one that is refused |
| `graph_saved` | (violation) a saved output stays on the GPU | heavy layers only, 1 size, 1 batch |
| `layers` | nothing stale, no other pass's data, complete gradients, equal devices, temporaries returned, each layer passes its check | every layer and loss alone, BatchRenorm in training and out of it, AdaptiveSpaceCompress over dense rows and with one that is empty, a loss of 5 columns, four rows of layers, one of two LinearAttentions; 2 rows, 3 features in and 5 out, workgroups of 4, sequences of 2, at most 2 heads, 2 pieces of data, 2 ids |

The bounds are chosen so that the interesting case happens and little else. In
the memory runs one large buffer or several small ones fit in a pool, so
charging, evicting, failing to find a victim and nested eviction all occur; two
handles are the first number at which a count may differ from "one". Two clients
and three jobs let a wake-up be for somebody else and a shutdown overtake a
drain. Three tasks on two workers give a queue behind running tasks. Three rows
on two workers give plans with uneven, single and empty parts. For the planner a
threshold of 2 separates "some measurements" from "trained". In the graph the
sizes 1 and 2 are equal or different, one parameter above the threshold is heavy
and one below light, two planes and two rows are what it takes for a dimension
operation to change rows, and two batches to see the gradients of
another. For the layers, 2 rows, 3 inputs and 5 outputs are all different, so an
offset or a count that takes one for another is seen, and 5 is more than the 4
invocations of a workgroup; a sequence longer than one element and a second head
are what it takes for every parameter of the attention layers to get a gradient;
two pieces of data are what it takes to see another pass's, and two ids for their
inputs what the program has at least; a column more than a workgroup has invocations
is where a dispatch that counts wrong shows. A row of layers
shows that slices of parameters do not overlap. Widths of layers in a row are not
matched: no operation of one layer depends on the width of the next. Deadlock is
not checked (`CHECK_DEADLOCK FALSE`) because every one of
these systems may stop: all tasks done, operator dropped, pool exhausted,
training over; that nobody waits in vain is a liveness property instead.

Some properties deserve a word. `RoutedWhenClear` has a precondition, `clear`:
sizes lead a lookup to the stream the author means. It holds for every plan
without a split and for splits into different sizes; section 4 says what
happens otherwise. `FaultsExplained` lists the ways in which the modelled loop fails: sizes
that do not tell the streams apart, a segment without parameters (refused by
`build`), a dimension operation that changes the shape (`Reshapes`), data, targets or
a loss that do not fit the plan (`DataMisfit`), memory, data or a frequency that is
refused (`refused`), an optimizer whose description is not buildable, a segment whose
saved output moves away (`graph_saved`), and a GPU segment used before the first
epoch (`NeverPlaced`). What it says is that where none of these is the case the
assertions of the jobs on devices, shapes and streams hold, and that each phase
finds what the earlier ones left. It assumes that neighbouring layers agree in
size: `Plan::from_descs` compares them, but the path to training does not call it and
`build` compares nothing. Not in the model, and so not in the list: the values of
layers (a panic over NaN, say), poisoned locks, files. `UpdateOwnBatch`
speaks of the parameters: the b-th gradient subtracted from them is the one of
batch b, once under every cube and, on the CPU, under each layer's adapter.
Some layers are exempt from some of the properties of `layers`, each for a reason
section 4 names. Two dispatches are known not to fit what they have to do, the kernel of
sigma and the backward pass of a sum of more columns than a workgroup has
invocations; `Misfits` pins them: `LayersChecked` asks that these do not fit and that
every other does. What a dispatch that does not get to all of its work leaves is
what was there, so that `NothingStale` and `DevicesAgree` leave out the loss with
that sum (`Uncovering`). `Memory` is made to carry data from one pass to the next;
`OwnDataOnly` leaves it out (`Remembering`) and holds of all others.
`DevicesAgree` leaves out `Memory` and BatchRenorm out of training (`Differing`), and
reads Mamba's series without its 1. `OwnDataOnly` says more than that data stay
apart: a backward pass finds its entry in the static cache (else its thread
panics), and it is its own. `LayersChecked` speaks of the layers'
programs and of nothing that happens: each program is read once from start to end
(`ProgramChecks`), without the other layers, jobs or devices. A temporary has to go
back as what it was taken as, buffers that are handed on have to be computed from
computed ones, gradients have to be written over from the gradient of the output and
inside the layer's slice, state that a pass is computed from may come from parameters
only (`Remembering` excepted), what backward takes from the cache forward has put
there, and dispatches have to fit what they bind (`LayersSafe`). The reading also says
of each buffer and gradient which operands of the layer it was computed from, so that
the programs of the two devices can be compared by what they end with (`LayersMatch`):
output, gradient of the input and gradients of the parameters from the same operands,
with the same roles, and nothing used from the state but what counts passes. Section 5
proves that this is enough.

### Fairness

Only liveness properties use it. `mem_all_tiers`: weak fairness of the steps of a
migration, which is code running in one thread. `gpu_op`: weak fairness of the
GPU thread and of clients that have begun to send or drain, and of the join; the
standard library wakes every waiter at `notify_all`, which is an action of the
thread. Nothing forces a client to call. `pool` and `parallel_pass`: weak fairness
of each worker's and caller's steps, and that the free mutex of the receiver is
taken by some worker, not by a particular one: `std::sync::Mutex` promises no
order.

## 4. What disagrees with the code's own words

`PROJECT.json` lists those that a run shows: entries lost by failed migrations
(`mem_live_handle`), a barrier that waits forever after a panic
(`pool_wait_panic`), outputs that leave the GPU before the backward pass
(`graph_saved`). Others were met while modelling and have no run:

* `graph_v2/builder_v2.rs:273` says that a dimension operation inherits the stream of
  the tracker; the segment that is closed just before has taken it (:110), so that
  the operation runs on the first stream. After branches of equal size the marker
  (:139) finds the first of them for both.
* `MV/executor.rs:523` says that `evict_to_make_room` frees memory on the target.
  With RAM as the target every victim goes to where it is, is counted as freed,
  and the migration then fails (:562). `EvictionMakesRoom` is stated for the
  other targets.
* `operators_v2/operator_v2.rs:61` says that draining a handle twice panics. The
  GPU operator waits forever (`gpu_operator_v2.rs:116`); the other two panic.
* `CV/compute_thread_pool.rs:109` promises predictions from the threshold of 50
  measurements on. `has_trained_model` (`CV/scheduler.rs:246`) asks whether any
  measurements are pending: untrained models are used after the first one, and
  none right after a training.
* `operators_v2/capacity_v2.rs:12` and `:36` describe a load of queued jobs; the
  GPU operator counts finished results and is always ready. Nobody asks.
* `graph_v2/observer_v2.rs:447` says that any of three conditions triggers a new
  placement; the code requires the first and one of two others.
* With `epochs(0)` and test data, a GPU segment runs with parameters nobody has
  moved to the GPU (`execute_v2.rs:298`); the run `graph` keeps this as a cause
  in `FaultsExplained`.
* `MV/buffer/handle.rs:152` and `:194` promise a full read for buffers on the GPU or
  the SSD; the fallback asks for a slice of host memory and panics.
* `src/src/layers/linear/linear.rs:39` and `adapter/mod.rs` say that the adapter
  changes nothing; it scales the gradient (`adapter/adapter.rs:514`). Since it leaves
  gradients on the GPU alone, a segment is trained differently on the two devices.
* States of the optimizer come from the pool of matrices (`expr.rs:61`) and are
  never set to zero. A buffer of the same shape that a loss has given back is
  handed out with its values, so that Momentum or Adam may begin with them.

In the layers and losses:

* The kernel that computes sigma (`spectral_norm_sigma.comp:31`) reads u by outputs
  and v by inputs; the host binds u as long as the input and v as long as the output
  (`spectral_norm_linear/gpu/mod.rs:124`). It fits only when both are equal.
* Mamba's Taylor series on the CPU starts without the identity
  (`mamba/cpu/mod.rs:63`; its comment at :42 and the GPU, `gpu/mod.rs:18`, have it).
* Memory keeps its running minimum and maximum on the GPU from pass to pass; on the CPU
  each forward pass starts anew (`memory/gpu/mod.rs:27`). The GPU finds them under the
  number of the layer in its segment, which starts at 0 in each
  (`gpu_v2/processor/forward.rs:42`): two segments share one state.
* Out of training BatchRenorm uses its running statistics on the CPU and, on the GPU,
  those of the batch: the processor does not ask for the mode
  (`gpu_v2/processor/layers/norm.rs:60`; `batch_renorm.rs:92` documents it). Nothing
  in the library calls `set_training`, and a graph owns its layers, so the mode is the
  one a layer was built with.
* Entries of FORWARD_CACHE go only when a backward pass takes them
  (`linear_attention/gpu/mod.rs:460`, `:512`). A forward pass of validation or test on the
  GPU leaves its entries, and the buffers they hold, for good. The map belongs to the
  process, ids to one executor, so that keys of two executors may be equal.
* LinearAttention passes different arguments for the soft number of heads on the
  two devices when `min_heads` is two or more (`gpu/mod.rs:269`, `:543`), and the
  weights below which a head is skipped are 1e-4 and 1e-6.
* AdaptiveSpaceCompress gives a row that is empty or too long the output zero, without
  its bias (`adaptive_space_compress/cpu/mod.rs:148`), but adds the gradient of that
  output to the gradient of the bias (`:267`).
* `sum_columns` dispatches rows by columns workgroups of which the shader reads
  only the first coordinate (`sum_columns/gpu/mod.rs:53`): beyond 256 columns the
  rest of the gradient is not written and keeps what its buffer had before. The run
  has this as the loss `WideMSE`, of one column more than a workgroup.
* Backward through a dimension operation that adds or removes planes is not its
  inverse: after `Unsqueeze` from [2] to [2, 1], which doubles the rows, `ReduceMean`
  to [2] leaves the doubled rows (`graph_v2/backward_v2.rs:177`,
  `core/dim_change.rs:206`). `src/examples/reduce_dim_example.rs` ends in an error:
  the output of its `Unsqueeze` from [4] to [2, 2] has two columns where the plan says
  four (`graph_v2/model_v2.rs:733`).
* Without `SumColumns` in its chain a loss has one column on the CPU, the first,
  and the sum of them on the GPU.

## 5. Proofs

Proved with TLAPS for every value of the constants that satisfies the modules'
assumptions:

* `MemoryExecutorProofs!TypeCorrect`, `RefCountCorrect`, `CapacityRespected`.
  `RefCountExact` is not inductive: while a migration is under way its entry is
  out of the registry, and nested evictions take out others. The inductive
  invariant is `ExecutorInv == TypeOK /\ LockInv /\ CountInv`: `LockInv` ties the
  phase of `job` to what `moving` holds, `CountInv` says of the entries in the
  registry and of the one that was taken out that the count is the number of
  handles. Every action has a lemma that it preserves each conjunct it can disturb.
  `CapacityRespected` needs that a pool is charged only after `CanAllocate` or
  through a staging copy that is given back.
* `MemoryExecutorProofs!RawOwnedByOne`. `RawOwnedOnce` counts the owners of every
  Vulkan buffer: exactly one if it is registered, none if it is not. An entry that a
  failed migration dropped still counts as an owner (that leak is the finding of
  `mem_live_handle`), so that the property says that there is no other. The invariant
  has two halves. `RawInv`: owners do not meet, in the middle of a migration too, when
  the old buffer belongs to the entry that was taken out and the new one, between
  `StoreGpu` and `Commit`, to nobody but the migration. `OwnInv`: what a failed
  migration dropped, and what a panicked staging copy held, stays registered, once
  and out of everybody's hands (`LostOwn`, `PanicOwns`); every registered buffer has
  an owner (`AllOwned`); only migrations to VRAM make one (`MadeForGpu`).
* `MemoryExecutorProofs!AccountsExact`, `SsdCovered`. Sums over a map are cardinalities
  of cells (a member of size n has n of them), so what a member adds to its pool is
  a fact about finite sets and needs no induction. The invariant `AccountInv` adds
  to `RawOwnedByOne` that every entry in VRAM, the one taken out included, stands on
  a raw buffer registered with its kind and size, and that an id is in one place
  only: in the registry, with the migration or among what failed moves lost. Then a
  step either leaves all charges alone, or adds and takes away one part, and staging
  copies and the cleanup of idle buffers give back what they took. Since a counter
  covers each of its parts, `saturating_sub` never saturates; from that follows that
  the SSD counter, which is updated apart from the pool, never falls behind it.
* `MemoryExecutorProofs!RoomIsMade`. `evict_to_make_room` compares the sum of the sizes it
  moved out with the request and does not look at the pool again. The invariant is
  that `used[target] + freed <= Capacity[target]` between its nested migrations: each
  victim lies in the target pool when it is visited, moves to another one, and its
  charge is given back in the step in which `freed` grows. Targets other than RAM
  only, as for `EvictionMakesRoom`.
* `ParallelPassProofs!PoolTypeCorrect`, `ActiveIsExact`, `WaitIsBarrier`,
  `DropSkipsNothing`. The counter
  of active tasks equals the tasks counted and not yet finished, panicked ones
  included, through counting, sending, receiving and running; hence a caller that
  leaves `wait_all` leaves with every task it sent before finished.
  A drop that has ended skipped no task: nobody sends once it began, so its Nones
  stand behind every task in the channel, and a worker stops only at the first of
  them, when no task is left. (If every worker has died of a panic, tasks may be
  left; the property says so.)
* `ParallelPassProofs!PassUsesPool`, `ForwardIsComplete`, `GradInputIsComplete`,
  `RowsCountedOnce`, `NoExpectFails`. Every step of a pass is a step of `WorkerPool`
  or leaves the pool alone, so `PoolInv` and the barrier are inherited. On top of
  them `PassInv` says: the plan partitions the rows; what lies under the id of a
  chunk is of that chunk's rows; only the task that holds the mutex of the pool of
  matrices has a copy of `grad_input`, and that copy has every row written so far;
  the tasks counted are those of the current stage; the chunks of a task are done
  when it ends and stay done. `wait_all` returns only with no task counted, so what
  is merged is complete. `NoExpectFails` needs that a task lost in a panic stays
  counted and leaves a dead worker behind, one for one (`LostInv`): a send that
  finds no receiver would need every worker dead, and a pass that lost a task never
  gets past `wait_all`.
* `GpuOperatorProofs!TypeCorrect`, `JobsKeepTheirPlace`, `JobsInOrder`,
  `DropLosesNothing`, `ContractImplemented`. That every job has exactly one place
  is not inductive: it needs that identifiers below the counter are drawn once,
  that a job is claimed by its caller before it is in the channel, and that what
  the thread holds is in no other place. From that invariant follow the order of a
  client's jobs (the channel is a queue, and a client sends its next job after the
  last), the drop (the thread leaves only at Shutdown, which is behind every job),
  and the refinement: each step of the operator accepts, finishes or delivers one
  job of `OperatorContract`, or changes nothing it can see.
* `SyncOperatorProofs!PoisonedOnlyByReuse`, `SyncContractImplemented`. The mutex is
  poisoned only where `drain` panics holding it: if it is poisoned, a client that has
  panicked holds a handle that was answered before. Neither a job that panics nor a
  handle of another operator does it. The same contract is implemented.
* `ChunkPlannerProofs!RowsGivenOnce`, `RowsAllGiven`: a plan gives no row twice and
  every row to somebody, for any number of workers, batches of any size and any
  models. The chunks of `Split` lie one behind the other from the first row to the
  last (division with remainder). `Give` adds exactly one place to the lists, at the
  end of one of them, so after n chunks there is one place for each of the first n
  chunks and nothing else (`DealOneMore`); a row is in one chunk, hence in one place.
  Two things can go wrong after that, and the invariant rules them out. The choice
  among plans may find none: `Fallback` always finds one, because an imbalance is a
  number (`FallbackIsWhole`), whereas `Predicted` finds none exactly if every number
  of chunks has a worker that never ends, which is what `PlanCovers` allows. And a
  worker's load may become infinite while another's is finite: as the chunk goes to
  whoever would be done first, that happens only if nobody would be done at all, so
  a model that answers Infinite for one worker leaves the rows with the others
  (`LoadsStayFinite`). The recursive functions are used through their defining
  equation; that a function with it exists (`Recursion`) is proved by taking the
  graphs of the first n steps and a least n that fails (`LeastNatural`), which stands
  in for induction.
* `GraphBuilderProofs!BuilderKeepsOrder`, `BuilderRoutes`, for plans of any length
  and any number of Splitters. The inductive invariant `BuilderInv` has four parts
  besides types. `OrderInv`: the finished segments and the list being collected,
  one behind the other, hold the numbers 1 to `described` in order (stated for any
  list of lists, so that appending one layer, closing a segment and pushing one are
  three lemmas about sequences). `Routed`: the finished segments run where they were
  meant to. `TrackerInv`: while sizes tell the streams apart the code's current
  branch is the author's focus, and a segment under way has the index of the stream
  it is meant for; this is what makes routing inductive, since the index is drawn
  when a segment starts and used when it ends. `FlowInv`: there is a sequence of
  stream sizes, one before and after each segment, that every segment carries on and
  that ends in what the author sees as open; training needs it.
* `GraphTrainingProofs!TrainingDescribes`, `GradientsFollow`, `UpdatesOfOwnBatch`,
  `FaultsAreExplained`, for any plan, optimizer, threshold and number of epochs.
  `TrainingDescribes` says that training describes its plan and then leaves it
  alone, so the builder's theorems hold throughout (`TrainedInOrder`,
  `TrainedRouted`). The rest follows from one inductive invariant, `TrainInv`:
  - `LoopInv`: which counters and which `k` a stage may have, and that the optimizer
    phases stop at parameter buffers only (`BufferFrom` is a least element);
  - `PassInv`: there is a trace, the streams after each segment, that fits what the
    cache has saved: the forward pass extends it, the backward pass walks it back, and
    the gradients it holds are those of the streams of the trace, which is
    `GradFollowsOutput`;
  - `PlacedInv`: parameters and gradients lie with their operator, or no epoch has
    begun and all are in host memory;
  - `UpdateInv`: what every buffer of parameters, of gradients and every optimizer
    state is at this stage, as a function of the batch and of whether the phase has
    passed it; `UpdateOwnBatch` is read off it;
  - `SizeInv`: where the plan is clear, no dimension operation changes the shape
    (`Plain`) and the data have the columns described (`Fits`), the sizes of streams and
    gradients are those of the flow of `FlowInv`, and all have the rows of the batch;
  - `DeviceInv`: what a segment saved still lies where it was saved, the output of a
    segment of layers excepted, which is there or where the next job on its stream
    took it. For that the streams of a pass have to be distinct buffers and an
    output has to wait in its stream until a segment of `Users` runs.
  `FaultsExplained` then goes branch by branch: each `Stop` in the model contradicts
  one of these parts unless the plan, the data, the loss, a refusal, the number of epochs or
  the optimizer is one of the causes it names. But for `refused`, which a refusal of
  memory, of data or of the frequency sets, those are facts about what the loop is given,
  not about where it got to. The proof needs them all: the gradient a dimension operation
  refuses is a matter of `SizeInv`, the expression `ApplyUpdate` looks up one of
  `UpdateInv`, the cache of `AdapterPass` one of `PassInv`.

* `LayerRunProofs!TempsReturnedAlways`, `NothingStaleEver`, `OwnDataAlways`,
  `GradsCompleteAlways` and `DevicesAlwaysAgree`, for any layers and losses, any row of
  them, any number of pieces of data and any interleaving. The first four are on the
  hypothesis `LayersSafe`: the programs of each layer of the segment pass the check of
  `ProgramChecks`; the last is on `LayersMatch`, which adds that the implementations
  of each layer match. The run `layers` evaluates these hypotheses for every layer of
  the library but those exempt (`LayersChecked` is one of its invariants, and its mutant
  breaks it), so the five theorems say of rows of layers of any length what the run sees
  on rows of one to three. The inductive invariants say that a job has at each operation what the reading
  of its program says it has there, whatever the other jobs have done in between:
  - `TempsInv`: the names that stand for temporaries are those that were read;
  - `CleanInv`: each buffer the reading calls clean is there and holds neither what
    its last user left in it nor anything older than the pass; the contexts of the
    layers between their two passes likewise, which is what the backward pass of a
    layer begins with;
  - `CacheInv`: a job on the GPU that has put an entry into FORWARD_CACHE and not taken
    it yet finds its own under its key. The map is shared and holds entries of dropped
    passes, so this needs that the ids of inputs held at one time differ, that layers
    which use the map begin at different parameters (`KeysApart`), and that no other
    pass puts or takes under the same key;
  - `OwnInv`: what a job holds is of its own data, unless the segment has a layer made
    to remember (`Remembering`). The state of a layer is shared
    by all jobs of a device and some of it is computed from data (statistics of a
    normalisation, say); the part that a pass reads back is computed from parameters and
    constants only (`PrivateState`);
  - `GradsInv`: the cells of each layer's slice that are written over and that have
    the gradient, as many as the reading says in the layer under way, all of them in
    the layers behind it; cells outside all slices are as they were. It needs that
    slices of different layers are disjoint (`SlicesApart`), that an effect stays inside
    its slice (`EffectsOnCells`), and `CleanInv`, since a computation that read an
    old buffer would bring the old value back;
  - `OrderInv`: a pass on the GPU begins after those on the CPU, and only if the
    processor knows all layers of the segment.

  `CleanInv` and `GradsInv` also say what a buffer or a cell comes from (`IsFrom`): from
  the operands that the reading names, each replaced by what it is to the segment. The
  input of layer k comes from what the layers before it make of the data (`InAt`), the
  gradient of its output from what the layers after it make of the gradient (`GoAt`),
  and a parameter is a part of all parameters. These are chains of the operands that each
  layer's reading ends with, and where implementations match the chains are the same on
  both devices (`LayerOfMatching`, `GoesOn`). `DevicesAlwaysAgree` compares two jobs
  only when both are done, each with the chain: no operation of one is compared with
  one of the other, so the orders they run in do not matter.

  `KnownIs` gives the recursive function `Known` its equation, by least elements as above.

Assumptions are the named `ASSUME`s of the modules: finite sets of identities and
workers, natural capacities, values that are told apart. Every run evaluates them.

Only model-checked: `LayersChecked` itself, since the programs are data that the layer
modules build and TLC evaluates; and all liveness (`DrainEnds`, `DropEnds`, `WaitEnds`, `PassEnds`,
`MigrationEnds`), which is out of the prover's reach.

## 6. What is not modelled

Numbers: what layers, losses, optimizers and shaders compute from their operands,
the values in buffers, and how adapters scale. I/O: logging, profiling, files of
models. Construction: device plan, Vulkan initialisation, splitting of CPU
threads. Pure data types. Code nothing calls: GPU kernels of the optimizers, of
Splitter, Combiner and their connectors, `plans/loss_plan/cubes.rs` and
`cross_entropy.rs`, the state store of adapters. The observer's statistics, whose
one effect is a free choice in `ObserveEpoch`. The parts are listed one by one
with their reasons in `PROJECT.json`. Within the modelled parts: calibration and
features of the mini models; the multi-stream manual loop (`forward_multi`),
which the v2 path does not have; descriptions with a wrong number of streams,
which `build_segments` refuses one by one; the kernels that Splitter and Combiner
run on the CPU; adapters of other layers than Linear; which values the state of an optimizer begins with.

## 7. Plan

Done in this order: memory executor (the state everybody shares), operators and
their contract, worker pool, parallel passes, planner, graph and training, layers
and losses, optimizer, proofs of the operators, of the accounting, of the passes, of
the scheduler, of the graph with its training loop and of the layers.

Next, to model:

1. the pool of temporary matrices with its free lists, over `MemoryExecutor`:
   whether a buffer handed out lies on the device it is asked for when eviction
   has moved it meanwhile, age and limit, and what an optimizer's state begins with;
2. `GraphTraining` over a small `MemoryExecutor`: eviction of parameters in the
   middle of an epoch;
3. Splitter and Combiner in `LayerRun`, which have two outputs or inputs;
4. the observer's windows and epochs.

Next, to prove: the pool of temporary matrices, once it is modelled. Every safety
property that a passing run checks is a theorem but for `LayersChecked`.

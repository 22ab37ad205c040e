# A TLA+ model of ooverlap's collectives

ooverlap runs all-reduce, reduce-scatter and all-gather between the GPUs of one
machine with hand-written kernels: ranks write straight into each other's
buffers with bulk copies and bulk reductions, and are ordered by ready values
in each other's memory, by counters, and on the host by a barrier in POSIX
shared memory. Python programs around it force the all-reduces of a vLLM model
onto this interface, search for the division of a GEMM's output into segments
that hides most of the communication, and evaluate many shapes in runs that are
interrupted and resumed. This directory models those protocols and programs,
checks them with TLC on small instances, and proves most of their safety with
TLAPS for every size: the broker's barrier, exchanges and sessions, the import
of buffers, the plan arena, the fast kernels, the general path with its plans and
their lowering, the vLLM adapter, the overlap search and the evaluation driver.

All paths are relative to the repository; `comm/` stands for `src/comm/`, and
`vllm/` for `patches/vllm/v0.25.0/vllm/`.

## 1. Inventory

### Host side

**Broker** (`src/system/broker.cpp`). Processes of one local world share a
*Vault* in POSIX shared memory (mutex, condition, `barrier_count`,
`barrier_generation`, one data slot per rank) and have one Unix datagram socket
each. Operations: the constructor, `sync`, `exchange_data`, `exchange_fds`,
`broadcast_fd`, `destroy`. Everything above uses `sync` and `exchange_data` as
its only means of agreement between processes. Hard: slots and sockets are
reused by the next call while slow ranks are still in this one; generations
wrap; senders block on full sockets; a key may be reused after a crash.
Correct means: a call returns what all ranks passed to *that* call, descriptors
reach the right place and do not leak, and a constructor that returns has met
its own session.

**Groups, nodes and buffers** (`comm/ooverlap_comm_public.cu`,
`comm/ooverlap_comm_internal.h`). A group is a world in one process (several
devices) or one rank of a multi-process world. It keeps nodes (epoch, ready
inboxes), the current buffer of every rank, and caches.

**IPC buffer imports** (`comm/ooverlap_comm_private.cu`). Before a collective
each rank needs a mapping of the buffer each peer will use in it. Ranks
exchange keys, look them up in a small LRU cache of imports, tell each other
who misses, exchange descriptors when somebody does, and import. A fast path
skips all that when the rank's own buffer has not changed. Hard: that decision
is local, caches differ after failures, evicted imports may still be bound,
buffers are re-wrapped at the same address. Correct means: a launched
collective has mappings of exactly the buffers its peers use in it, and ranks
never meet in different exchanges.

**Plan distribution** (`comm/plan/transfer_plan_distribution.cu`). Plans are
built once and shared: through a shared-memory arena that rank 0 fills (IPC
groups), or a map with entries under a mutex (one process). Hard: a slot is
overwritten while others may still read it; hits are decided locally. Correct
means: what a rank lowers is the complete plan of its own request, and the
ranks agree on the outcome.

**Planning and lowering** (`comm/plan/*.cuh`). Planners turn a request into
tasks (reduce a peer's slice into mine, copy my slice to the peers, barrier);
the lowering divides each task's windows among CTAs and groups of CTAs and
leaves out barriers it finds superfluous. Pure computations, but the grid
barrier counts they imply must match what the kernel does.

**Launchers** (`comm/tma_multi_gpu_*_sm90.cu`, `comm/fast_multi_gpu_*_sm90.cu`).
They choose the grid, keep the host's record `last_value` of each grid counter,
and pass targets to the kernel. `collective_epoch` numbers the collectives.

### Device side

**Ready inboxes** (`comm/kernels/multi_gpu_ready_signal.cuh`). Every rank has a
slot per peer that only this peer writes, with `epoch * 1024 + phase`. Waiting
is divided among the CTAs in stripes of peers.

**Fast kernels** for small messages: load one chunk per CTA into shared memory,
meet, fan it out into the peers' buffers, meet again.

**Window task executor** (`comm/kernels/*window_task_executor.cuh`): entry
rendezvous, grid barrier, the CTA's list of window tasks, grid barrier, final
rendezvous. **Window pipeline** (`comm/pipeline/window_pipeline.cuh`): the ring
of shared-memory stages that executes one window range.

Hard on the device: everything is concurrent and asynchronous, buffers,
counters and inboxes are reused by the next collective at once, and a rank may
be a whole collective ahead. Correct means: results are exact (each input once),
no peer touches a buffer after the kernel of its owner is complete, and every
collective completes.

### Python side

**vLLM adapter** (`vllm/distributed/device_communicators/ooverlap_all_reduce.py`,
`cuda_communicator.py`, `vllm/model_executor/models/qwen2.py`,
`src/torch_collectives_pybind.cpp`). Each tensor-parallel worker constructs an
adapter: load the extension, agree on devices, broker key and communicator, and
import every slot of two round-robin pools from all peers. Then every all-reduce
takes the next slot of a pool, and its result *is* that slot. Row-parallel GEMMs
write their partial sums straight into the slot; the residual stream of a forward
pass aliases the slot of the embedding's all-reduce until the pass ends. Hard: a
step of the constructor may fail at one rank alone, which tells nobody; the ranks'
indices are counted locally; slots are overwritten when the pool wraps. Correct
means: what a norm reads is the sum of its own all-reduce and the residual of the
norm before, nobody uses a slot that a peer has not imported, and no rank waits for
one that has refused.

**Overlap search** (`tool/search.py`). The parent tries GEMM algorithms until one
computes its tiles in a stable order, derives a layout and the possible segments,
predicts or measures them, and saves the best. Whatever is measured runs in a
session of one process per GPU, which meet in barriers and in collectives. Hard:
roundings to waves and to groups of waves; a stable prefix that is claimed of
groups but observed of windows; a process that raises while others wait for it.
Correct means: every division covers all tiles and loses no row, a segment never
waits for a tile that is sometimes late, what is saved is the best of what was
tried and goes with the layout it was measured with, and the search ends.

**Kernel generation and profiling** (`tool/generate_instances_sm90.py`,
`tool/gen_config_sm90.py`). Kernels get numbers, their places in a sorted list
that is generated anew; profiles keep the numbers they were written with.

**Evaluation** (`tool/evaluate_sm90.py`). Shape by shape and configuration by
configuration: profile, search with retries, test. Its state is in files, which a
later invocation resumes from; its children write theirs in place. Hard: kills,
resumption, reruns, kernels renumbered in between, one solution file for all
scenarios of a shape. Correct means: what is tested is what was searched for this
scenario, good results are kept, the summary is what the files say, and whatever
was killed is completed by a later invocation.

### Interactions

    vLLM workers --> adapter --> IPC slots, collectives
    evaluation --> profiling (kernel numbers) --> search --> solution --> test
    exchange_fds / broadcast_fd   IPC imports     plan arena
            \                        |              |
             +-------- Broker (sync, exchange_data) +
                                                     launch: plan -> lowering -> kernel
    kernels of different ranks <-> ready inboxes, peers' buffers
    CTAs of one kernel         <-> grid counter (predicted by the host)

The remaining components (topology probing, tuning tables, driver wrappers,
inline PTX, GEMM and CUTLASS instantiations, baselines, patches of NCCL and
CUTLASS, benchmarks) are listed in `PROJECT.json` with the reason why they are not
modelled: they are input and output, pure data, third-party or generated code.

## 2. Modules

| module | code | what it models |
|---|---|---|
| `AbstractBarrier` | none | what `sync` promises: the k-th return follows everybody's k-th call |
| `VaultBarrier` | `broker.cpp:133-208` | `sync` on the Vault |
| `DataExchange` | `broker.cpp:596-645` | the steps of `exchange_data`; extends `VaultBarrier`, whose syncs implement `AbstractBarrier` |
| `FdExchange` | `broker.cpp:348-465, 647-843` | the steps of `exchange_fds` and `broadcast_fd`; extends `VaultBarrier` |
| `BrokerCalls` | `broker.cpp:596-843` | programs of both kinds of calls on one Vault; extends `DataExchange` and `FdExchange` |
| `ExchangeProofs` | | theorems about `BrokerCalls` |
| `BrokerLifecycle` | `broker.cpp:133-331, 469-533, 845-887` | constructor and `destroy` over several sessions, crashes |
| `BrokerLifecycleProofs` | | theorems about it |
| `FastCollective` | `comm/fast_multi_gpu_*_sm90.cu`, ready signal | the three fast kernels, their launches and rendezvous |
| `FastCollectiveProofs` | | theorems about it |
| `WindowCollective` | plans, lowering, executor, launchers | the general path with direct peer access |
| `WindowCollectiveProofs` | | theorems about it |
| `IpcImportCache` | `comm/ooverlap_comm_private.cu:218-630, 884-1036` | buffer exchange, import cache, fast path |
| `IpcImportCacheProofs` | | theorems about it |
| `PlanArena` | `comm/plan/transfer_plan_distribution.cu:453-826` | the shared plan arena; extends `VaultBarrier` |
| `PlanArenaProofs` | | theorems about it |
| `OoverlapAdapter` | `vllm/distributed/device_communicators/ooverlap_all_reduce.py`, `cuda_communicator.py`, `qwen2.py`, `torch_collectives_pybind.cpp` | constructors, slot pools and forward passes of all workers |
| `OoverlapAdapterProofs` | | theorems about it |
| `TuningLayout` | `tool/search.py` | hint, layout, segments, row map: pure operators with reference definitions |
| `TuningSearch` | `tool/search.py` | the parent, its sessions of processes, prediction and saving; extends `TuningLayout` |
| `AlgoDictionary` | `tool/generate_instances_sm90.py`, `tool/gen_config_sm90.py`, `tool/search.py:106-150` | kernel numbers and what is matched against them |
| `Evaluation` | `tool/evaluate_sm90.py` | invocations, files, kills; extends `AlgoDictionary` |
| `ToolProofs` | | theorems about `Evaluation` and `TuningSearch` |

`MC<Module>` modules hold only the programs (sequences of calls) the runs use.
`DataExchange` and `FdExchange` use different names throughout, so that `BrokerCalls`
can extend both and interleave them on the one `VaultBarrier` they share; so do
`Evaluation` and `TuningSearch`, which one module of proofs extends. An operator commented "Faulty" is not part of any specification; it is the
definition with a bug of the kind one could make in that code, kept to show that
the property named for it is able to fail.

### How state and actions correspond to code

*Barrier.* A critical section of the Vault's mutex is one step. `SyncEnter` is
lock, read generation, count, and for the last arrival reset, advance and
broadcast; `SyncLeave` is the `while` around `pthread_cond_wait` finding another
generation. `generation[r]` is the local variable, `entered` a history
variable. Generations have `MaxGen + 1` values and wrap; the code only compares
them for equality. `sync` with `num_ranks` below the world size throws for
every rank at line 178 before it touches the counter and is not an action.

*`exchange_data`.* One action per sync step, one for the `memcpy` into the slot,
one per turn of the loop that copies slots out. A payload is the number of the
call it was passed to: that is all the property has to tell apart.

*Descriptors.* A descriptor is the rank and call it came from. `Send` blocks
while the receiver's queue holds `QueueLen` datagrams; rank 0 of an exchange
gathers first and then relays in the order of its double loop. A rank that passes
a negative descriptor throws: in an exchange at once (`Refuse`), as the source of a
broadcast between the syncs (`LeaveFirst`).

*Programs of calls.* `ExchangeData` and `PassFds` are a rank's steps in a call of
either kind; when it is in none, the program says which comes next (`NextIsData`,
`NextIsFd`). The import of IPC buffers makes two or three data exchanges in a row
(`comm/ooverlap_comm_private.cu:502`, `536`, `568`). No code under `src/` passes
descriptors; `include/ooverlap/system/peer_buffer.cuh:253` and `326` say that a buffer
of virtual memory is shared by its record, as data, and its descriptor, which makes
mixed programs the intended use.

*Broker sessions.* An object is named by the session that created it; `shm_key`
is what the name refers to now. `Crash` ends the whole job at any point, leaves
object, name and socket paths as they are, and may leave the mutex locked.

*Fast kernels.* `pc[r][c]` is where a CTA is; `LoadLands` and `Fanout` are the
asynchronous bulk operations, completing at any time between issue and wait;
`Arrive`/`BarrierOpen` the grid counter; `Publish`/`Ready` the inboxes. A
chunk's contents are a count per rank of how often its input is in it, so a
missing, a doubled and a stale contribution all differ from the right sum.
Ready values are ints of range `IntHalf` with two's complement wrap-around,
counters unsigned modulo `CounterMod`.

*Window path.* Plans, shares of windows, reduce groups and the elision of the
barrier are operators translated from planner and lowering (`AllReduceTasks`,
`Share`, `ReduceGroup`, `BarrierElided`); a CTA runs its list (`Turn`, `Load`,
`Store`, `NextTask`, `BarrierArrival`, `PassBarrier`) between the two
rendezvous. `last_value` is the host's prediction of the counter, computed from
the plan (`Barriers`) and compared with what the kernel did. Counters and ready
values are unbounded here; their width is `FastCollective`'s subject.

*Imports.* `posts[r]` lists r's contributions to its exchanges; an exchange is
the k-th post of everyone, which is what `DataExchange` shows of the broker.
`cache[r][s]` is a row in LRU order; eviction, unbinding and an import that
fails in the middle of the loop over peers are parts of `ImportUpTo`.

*Plan arena.* `Unlink` to `WaitReady` are the constructor of the mapping,
`EnterFirst` to `Reject` `get_or_build_shared_ipc_plan_direct`, and `Lowered`
the end of the use of the shared pointer in the caller. Plans are named by their
request, "partial" while rank 0 writes.

*vLLM adapter.* `stage[r]` counts the steps of `__init__`: `NextStep` is the next
`broadcast_object_list`, `all_gather_object`, constructor or slot exchange, each of
which ends when all have entered it (`StepOver`), and `failAt` chooses a step that
fails at one rank alone; `LeaveSetup` is the handler that leaves the adapter disabled,
`RaiseUnavailable` the forced all-reduce without one. In a forward pass `Fill` is
`acquire_all_reduce_slot` with the copy or GEMM into it, `Launch` reads and advances
the index (`round_robin_index_`), `Meet` is the collective itself, as
`FastCollective` and `WindowCollective` show it, and `Norm` the fused residual norm
in place: its results are what their names say only if it finds both operands as
they should be (`NormOf`). A slot's contents are named by their role, pass and call,
so that any other data in it are told apart.

*Overlap search.* A tile order is a permutation, and one sample of it; the hint of
two rounds of samples is what all of them agree on. `Divisions`, `Predict` and
`ToMeasure` are `fast_search` and `exhaustive_search`; `Makespan`, which prediction
is compared with, is a reference definition (the end of the last of a chain of
dependent intervals). The actions `Start` to `Leave` are those of a process of either
kind of session (`compute_hint_process`, `perf_running_process`), `failing` chooses
who raises and after how many collectives, and `SessionFailed` is `mp.spawn` with
`join=True`: an error is seen when a process exits, and the others are terminated.

*Evaluation.* `file` are the scenario files, replaced atomically; `config`,
`solution` and `torn` are what children write in place and what is left of them by
a kill. `Exit` ends a process and its memory. `Outcomes` is what a search may leave,
`Regenerate` a new list of kernels between two invocations. What runs in a GPU is a
choice: which kernels can be measured, whether a search finds a solution, whether
a test passes.

### Abstractions to keep in mind

- Memory is sequentially consistent. The code's fences, release stores and
  acquire loads are taken to give that at the points where they stand.
- A bulk load or store of one chunk or window is one step; bytes, tails and
  element types are left out. A task's operations are complete when the task
  ends (`wait_complete` of the pipeline).
- One stream per rank, and a collective is enqueued only after the stream has
  finished the previous one. That hides no interleaving between ranks.
- In `BatchPublish = FALSE` the inbox is written by an atomic maximum per
  stripe. The launches select the other protocol
  (`comm/ooverlap_comm_private.cu:942`); the kernels implement both.
- System calls and CUDA calls succeed, except for the failing import, negative
  descriptors and the crash.

## 3. Runs

| run | instance | question |
|---|---|---|
| `broker_calls` | 4 ranks, programs of 1-5 calls of either kind, 2 generation values, queue of 1 | Is every call's result that of this call, no slot torn, no sync of one call taken for another's? Are descriptors routed whatever order datagrams come in, none leaked, none left for the next call? Is each sync a barrier, and does each call return? |
| `broker_sessions` | 3 ranks, 3 sessions, crashes | Can a constructor return with a stale Vault, socket or a half-made object? Does everyone get through the first session? |
| `fast_collectives` | 2 ranks, 2 chunks per shard, 1-2 collectives | Exact results, no write after completion, barriers hold, everything completes? |
| `window_collectives` | 2 ranks, 2 CTAs, 2 collectives, 1-3 windows | Exact results across windows, groups, barrier and prediction of the counter; completion |
| `ipc_imports` | 3 processes, 3 buffers, 2 entries, up to 3 failures | Does every collective get its peers' current buffers? |
| `plan_arena` | 3 processes, 4 requests | Is what a rank lowers complete and its own? Do ranks agree? |
| `vllm_adapter` | 3 workers, 2 layers (5 all-reduces), 4 slots, 3 passes, any one failure per rank, oversized tensors in any pass | Are results those of this pass, how long does the residual last, are all slots imported, and do all ranks finish or all raise? |
| `tuning_search` | 2 ranks, candidates of 5 and 4 tiles, all divisions, 6 execution orders, failures of any set of ranks anywhere | Are layout and divisions right, is the best one saved, and when does the search end? |
| `evaluation` | 1 shape, 2 configurations, 2 trials, 3 kinds of invocation, renumbering, 1 kill | Is what is tested what was searched for it, is what was good kept, is it completed? |

Three further runs end in a violation and document a disagreement between the
code and what it says of itself:

| run | property | what the code does |
|---|---|---|
| `window_empty_slice` | `AllComplete` | an all-reduce of fewer elements than ranks gives some ranks no work; they launch nothing and publish no ready value, and the others wait for ever |
| `ipc_import_retry` | `FastPathIsFresh` | the local binding is renewed before imports that may fail; when the call is repeated the rank takes the fast path with the peers' old buffers |
| `vllm_residual` | `ResidualIntact` | `evalution/run_vllm_paperlike.sh:76` takes 32 slots, the default, for a model of 28 layers and 57 all-reduces per pass; the 33rd writes its partial sums into the slot in which the residual stream lives, though the adapter demands of its caller to preserve the reuse of slots (`ooverlap_all_reduce.py:231-232`) |

The last is the repository's own configuration with two ranks and one forward pass.
Nothing in the code relates the number of slots to that of layers; the script's
other model has 165 slots for 161 all-reduces, which is enough. Data show the fault
only as wrong logits: no step fails.

### Instances that fail, and larger ones

Some limits of the code have no run of their own. Each is a hazard in
`PROJECT.json`, and is seen when a constant, a program or a property is changed:

- `FastCollective` with `IntHalf = 8` and a program of two all-gathers:
  `CompletionMeansReceived` fails. The ready value `collective_epoch * 1024` leaves
  the range of an int at epoch 2^21; a wait for a wrapped, negative value is
  satisfied at once.
- `FastCollective` with `CounterMod = 16` and three reduce-scatters:
  `FanoutAfterRendezvous` fails. The grid counter is unsigned and never reset; at
  2^32 a CTA passes a barrier early.
- `PlanArena` with `LeftBehind = TRUE`: `PlanIntact` fails. An arena that a crashed
  group left under the same key is mistaken for the new one.
- `TuningSearch` with the plain `<>Ended` for `SearchEnds`: a process that raises
  between two collectives waits in the barrier of its `finally`, the others wait for
  it on the GPU, and nobody exits. `SearchEnds` says that the search ends in all
  cases but this one (`Lone`), and that in this one it never does.
- `Evaluation` without `TornSolution` in `Heals`: a solution that a kill has torn is
  read after every search, also after one that failed before it overwrote the file,
  and then raises.

All-gather publishes "loaded" before its loads have landed, against its comment
(`comm/fast_multi_gpu_all_gather_sm90.cu:237`), but harmlessly.

`MCFastCollective` and `MCWindowCollective` also define `ThreeRankPrograms`, for
instances of three ranks in which a stripe holds several peers: the first with
`N = 3`, `K = 1` (37,436 states), the second with `N = 3`, `MaxFanout = 1`,
`BatchPublish = FALSE` and `MaxWindows = 2` (341,746 states). Completion holds in the
first, the invariants in both.

### Bounds

- *Ranks.* Two ranks have all pairwise races. Three are needed for relaying
  through rank 0, for a slow rank between two fast ones, for stripes of several
  peers, for several reduce groups, and for a rank that misses while two others
  hit; most runs have three. The two runs of kernels have two, with several CTAs
  each, because the interleavings of CTAs, loads and stores are what they are about;
  the broker's calls have four ranks, so that one can receive from two others while a
  third is still sending. The processes of a search come in two: one that fails and
  one that waits for it.
- *Calls.* Two consecutive calls are needed for races between a call and its
  successor; three for a generation that wraps (`MaxGen = 1`) and for reuse
  after reuse. `MaxSyncs` is what the longest program
  needs and `MaxCalls` the data exchanges of any, so neither cuts a call; five calls
  mix both kinds in either order.
- *Queue of one datagram* is the tightest value of `net.unix.max_dgram_qlen`;
  a circle of blocked senders would show there first.
- *Windows 1 to 3, CTAs 2*: shares with and without a remainder, CTAs without a
  window, a grid smaller than its maximum, barriers needed and not needed. Counts
  that the number of ranks does not divide give slices of different lengths.
- *Chunks.* `K = 2` gives every fast kernel several CTAs, more than there are
  peers.
- *Integers.* `Stride = 4` leaves room for the two phases used; `IntHalf = 64`,
  `CounterMod = 64` are never reached in the passing runs.
- *Cache.* Two entries for three buffers: hits, evictions and returns of evicted
  buffers. Three failures are what it takes for a bound import to become the
  oldest of its row.
- *Slots of the adapter.* Four for five all-reduces: the pool wraps at another place
  of each pass, and the last all-reduce of each takes the slot of its first, so that
  both sides of `ResidualUntilWrap` occur. The all-gather pool of two wraps too.
  Three passes reuse every slot. `vllm_residual` has no bounds of its own but the
  one pass: its 32 slots and 28 layers are those of the script.
- *Tiles.* Candidates of five and four tiles with one or two SMs: full and partial
  windows, a last segment that is cut off, and a candidate that is refused for its
  unstable order. All their divisions are tried. `Collectives = 2` stands for 120
  or 220: a failure comes before, between or after them.
- *Evaluation.* Two configurations share the one solution file, two trials make a
  retry, and one kill comes at any step of any invocation. Invocations are not
  bounded: the state space is finite without.
- *Sessions.* Three: a session may leave something for the next but one.
- *Generations* are unbounded in `BrokerLifecycle` (a session makes two syncs) and
  wrap in the modules that extend `VaultBarrier`.

Programs end, so most configurations allow states without a step; completion is
stated as a liveness property instead.

### Fairness

`WF(Step(r))` (`WF(BrokerStep(r))` of the broker's calls) for host processes: the operating system schedules every process
and delivers a broadcast wake-up. No fairness is assumed of `Crash` or
`ImportFails`. For kernels, `WF` of every CTA: the grids are limited to what is
resident at once (`TMA_TWO_GPU_PEER_MAX_CTAS`), so that a spinning CTA does not
keep another from being scheduled; and `WF(Launch)`: the host keeps enqueuing.
Co-residency is a property of the device and taken as given. The liveness of
`exchange_data`, `broadcast_fd` and the collectives also rests on the contract
that all ranks make the same calls, which the models have in their programs.

In `OoverlapAdapter` workers and streams progress (`WF(RankNext(r))`, and of the
meeting); nothing makes a failure go away. In `TuningSearch` parent and processes
are weakly fair: nothing is assumed of the failures, which the initial choice of a
session fixes. In `Evaluation` `WF(Step)` says that children end, and
`SF(Invoke(a))` for invocations that do not trust old profiles says that somebody
insists on a result; kills are not fair.

## 4. Proofs

No theorem rests on more than the named assumptions on constants, which TLC
evaluates in the runs, and the hypotheses in its own statement. Every safety
invariant and action property of the runs of these modules is a theorem, and each
rests on one inductive invariant of its component, which TLC has checked on the
run's instance too.

| component | inductive invariant | theorems | hypothesis |
|---|---|---|---|
| `BrokerCalls` | `RanksKeepPace` | `CallsDoNotMix`, `SyncImplementsBarrier` | none |
| `BrokerCalls` | `ExchangeInvariant` | `ExchangeTyped`, `ExchangeIsCorrect`, `NoTornSlots` | none |
| `BrokerCalls` | `FdInvariant` | `DescriptorsAreRouted`, `NoDescriptorLeaks`, `SocketsAreDrained` | none |
| `BrokerLifecycle` | `LifecycleInvariant` | `ConstructorsMeet`, `ConstructorsFindSockets` | none |
| `IpcImportCache` | `CacheInvariant` | `BindingsAreCached` | none |
| `IpcImportCache` | `ImportInvariant` | `TrustIsJustified`, `CollectivesUsePeersBuffers`, `RanksMeetInTheSameExchange` | `FailuresAreForgotten` |
| `PlanArena` | `PlanInvariant` | `PlansAreIntact`, `OutcomesAreShared` | `LeftBehind = FALSE` |
| `FastCollective` | `FastInvariant` | `EveryoneHasReceived`, `BuffersAreReleased`, `FanoutFollowsRendezvous` | `WordsSuffice` |
| `WindowCollective` | `WindowCollectiveInvariant` | `SharesPartition`, `TypesHold`, `CompletionHolds`, `ReleaseHolds` | `NoEmptySlice`, but for the first |
| `OoverlapAdapter` | `AdapterTyped`, `RanksAgree` | `SlotsAreImported`, `ResultsAreSums`, `ResidualLastsUntilWrap` | none |
| `TuningSearch` | `SearchInvariant` | `SegmentsCoverTiles`, `PrefixOfGroupsIsStable`, `PredictionIsMakespan`, `SavedSolutionIsBest` | none |
| `Evaluation` | `EvalInvariant` | `TestsWhatItSearched`, `SummaryIsFiles`, `OkIsKept` | none |

### The barrier and the calls over it

For all `N >= 1`, `MaxGen >= 1` and all programs that `MaxSyncs` and `MaxCalls`
leave room for. `BarrierInv` says that `barrier_count` is the number of ranks waiting
in the current generation (`CountIsWaiting`) and that all ranks have made the same
number of syncs except that waiting ones are exactly one ahead (`InStep`). The one
place where wrap-around could hurt, a waiter that sees its own generation come again,
is excluded since nobody can enter a further round before every waiter of this one
has left: at most two consecutive generations are in use, and these differ whenever
there are at least two values (`NextGenFact`, from `MaxGen >= 1`). What concerns the
barrier alone (`SyncEnterInv`, `SyncLeaveInv`) is the first section of
`ExchangeProofs`, and is repeated in `PlanArenaProofs`.

Nothing in the Vault says which call a sync belongs to, and calls of different kinds
make different numbers of them. `PaceInv` supplies it: a rank's place in its program
is its calls of either kind and the `Stage` of the current one, ranks that have
entered equally many syncs are at the same place, and a rank that has entered one more
is at the place `Following` it (`Together`). Each step of a rank either leaves its
place alone or enters the next sync (`Moves`), and a rank that enters is behind nobody
but those one ahead, to whose place it comes, since a place has one successor
(`PaceKept`). Any two ranks are then at the same or at neighbouring syncs, the one
ahead waiting (`NeighbourSyncs`), from which `CallsDoNotMix` follows.

`exchange_data` is correct because while one rank copies, all others are in the same
call and past their write: the copier is at its second sync and outside of it, which
leaves the others only places between their write and their third sync
(`ReaderSeesCall`).

### Descriptors

For all numbers of ranks, programs of calls, and lengths of the queue. For each
receiver and call there is one `Carrier` of a source's descriptor: the source, or
rank 0 that relays it. A descriptor is `Pending` there, or `Queued` at the receiver,
or the receiver has it (`Have`), and never two of these (`Sockets`, `Unsent`);
without that, two datagrams of one source could make up for one of another, since
the code only counts what it receives. `got` is the number of sources a rank has,
so a receiver that has counted all of them has them all (`Holds`). `Fence` is what
the second sync gives: nothing is queued for a rank that is a call ahead of
another. That needs more than the barrier: a sender leaves a call when its last
`send` is done, which does not say that anybody has received it; but nobody is past
the second sync before every receiver has counted to the end. Where the others
can be while one sends, receives or leaves comes from the pace of the ranks alone
(`AllInCall`, `NobodyInCall`), whatever calls of data lie in between. Descriptors that a
rank has open are those it has and, until it has sent it, its own (`Keeps`).

### Sessions of a broker

For any number of ranks and sessions, with a crash between any two steps. The
invariant classifies each shared-memory object by where it is in its life:
`Unborn`, `Creating`, `Gathering`, `Binding`, `Met`, and, after a crash, `Stale` or
`Misled`. A crash can leave any count of arrivals and any generation, so a later
constructor that opens the object before rank 0 unlinks it may well get through the
first sync on somebody else's arrival (`Misled`). It never gets through the second:
once the count has been reset it is that of the ranks which wait, and rank 0, which
made an object of its own, is never one of them (`Abandoned`). So nobody is "ready"
on any object but that of its session, where both syncs were complete.

### Imports of buffers

For any number of processes and of cache entries, any programs, and any bound on
failures. What a rank has bound of a peer is in its cache (`Holding`) by the rank's
own steps alone: `BindingsAreCached` has no hypothesis.

The rest is about decisions that each rank takes alone and that must be the same.
`KeyIn(p, i)` is the key of the i-th operation as a function of the program, and
`Exchanging(p, i)` says that it is another than that of the operation before it that
used a buffer (`Prior`). `OwnBefore` says that a rank's own binding is the key it
used last, unless that wrapper is gone; so a rank takes the fast path exactly where
`Exchanging` is false (`Decision`), which all ranks then do in the same operations.
That aligns the exchanges: a call makes two or three of them, whether the third
takes place is decided by what all have posted in the second, and `Agree` says that
what two ranks have contributed is of the same kinds, that they have begun the same
calls if they have contributed equally often, and otherwise that one is exactly one
contribution ahead, whose kind tells where the other is (`Ahead`). A rank whose
exchange is complete then knows that all others are in the same call (`MatesInKeys`,
`MatesInMisses`, `SameCall`), so the keys it receives are those of its own call.
`PeersBound` says that these are what it has bound, and, as long as nothing can have
failed, that they stay so until the next call: that is what the fast path trusts.

The hypothesis `FailuresAreForgotten` is that a caller does not repeat a call that
failed, and that imports can fail only in programs that use no buffer twice in a row.
Programs in which nothing fails are not restricted. It cannot be dropped: a rank
whose import failed has its own buffer bound already and would trust it in its next
call, which is what the run `ipc_import_retry` shows.

### Plan arena

For any number of processes and any program of requests that all make. Whether a
request misses is decided by each rank from its own key cache. `CacheInv` says that
this cache is always the last plan, so the decision is a function of the program
(`Miss`) and all ranks decide alike; so they make two syncs for each miss so far
(`Misses`), and the barrier's invariant tells how far others are. `ArenaInv` says
what the slot holds except while rank 0 replaces it, which is between its first and
second sync of a miss, when no other rank is between its second sync and the end of
`Lowered`, or hits. The hypothesis `LeftBehind = FALSE` says that no group with the
same key crashed before. It cannot be dropped: `PlanIntact` fails without it (see
*Instances that fail*).

### Fast kernels

For any number of ranks, chunks, and collectives in any order of kinds. The
hypothesis `WordsSuffice` is that ready values and counters do not overflow; it
bounds the number of collectives of a communicator, by 2^21 for the ready values,
and by 2^32 / (3 * gridDim) for the counters, and the runs' instance satisfies it.
Both bounds are real: see *Instances that fail*.

- `Counting`: a counter is the base of the launch plus the arrivals at its three
  barriers, and the host's record is where it will be. `Arrived(r, k)` is a set of
  CTAs, and arrivals its cardinality. As nobody arrives a second time before all
  have arrived once (`Stages`), a counter of `base + k * gridDim` tells that all
  have arrived `k` times (`BarrierFacts`).
- `Rendezvous`: a ready value of phase 1, or 2, of an epoch tells that its writer
  has loaded, or sent, everything of it (`LoadedBy`, `SentBy`), or is further. A CTA
  sees only the peers of its stripe; the stripes cover all peers (`StripesCover`)
  and a barrier joins what the CTAs have seen (`AllHaveLoaded`, `AllHaveSent`).
- `Pace`: so no rank is more than one launch ahead of another, and then only of one
  that has sent everything.
- `Contents`: each chunk is the rank's own input plus those of the peers whose send
  of that chunk has landed (`Contributed`), in every state. A launch resets it,
  which is right since no peer can have sent anything of that epoch yet
  (`LaunchContents`); a send adds one input, once, since each cell has one CTA that
  writes it (`WritesFacts`, from the arithmetic of the grids); and a load that lands
  late reads the rank's own input, since nobody sends before it (`LoadsOwn`), or, in
  an all-gather, into another shard than the one being read.

`EveryoneHasReceived` then reads off `Contents` what a complete kernel leaves.

### General path

For any number of ranks, windows, CTAs, collectives in any order of kinds, any limit
of a fan-out, both ready protocols, and any tuning of the reduce tasks
(`SizeAssumption`, `CapacityAssumption`, `ProgramsAssumption`). The hypothesis
`NoEmptySlice` is that an all-reduce has an element for every rank. It cannot be
dropped: the rank of an empty slice launches nothing, is complete at once and
publishes nothing, see the run `window_empty_slice`; under it `CompletionMeansReceived`
fails as well as `AllComplete`.

- *Plans and lowering.* `ShapeHolds` says what a rank's list of tasks is: a reduction
  of each peer, the barrier, and copies whose fan-outs reach every peer (`FanoutFacts`).
  `CoverageHolds` says what the lowering makes of it: every window of a task belongs to
  a CTA, of a reduction to exactly one, and where the barrier is left out, a CTA copies
  only windows it has reduced itself. It rests on `SharesPartition`, the arithmetic of
  `cta_window_range`, and on `ElidedFacts`: if the last reduction runs on all CTAs, so
  do all reductions. The source states neither; the elision looks at the last
  reduction only.
- `Counting`: the host's record is the entry target plus two or three arrivals of
  each CTA, as `final_cta_barrier_counter_value` predicts from the plan, and the
  counter is what has arrived of them. As nobody arrives at a barrier before all have
  arrived at the one before (`Stages`), a counter that has reached a target tells that
  all have arrived (`EntryComplete`, `BarrierComplete`, `FinalComplete`). So the
  prediction is right when the kernel ends (`DoneCount`), whether the barrier inside
  the plan was emitted or not.
- `Rendezvous`: an entry value of an epoch tells that its writer is in the epoch, or
  further, a final value that it has done all its work for it (`SentBy`). As in the
  fast kernels, a CTA sees the peers of its stripe, and a grid barrier joins what all
  have seen (`PeersEntered`, `PeersDone`). A CTA that works has all ranks in its own
  epoch (`Pace`).
- `Loads`: a window in shared memory is what its task carries (`Carried`): the peer's
  own input for a reduction, which nobody can have overwritten since only its copy
  tasks, which come later, do (`ReduceBeforeCopied`); the complete slice for a copy,
  since every reduction of that window precedes it (`ReducedBeforeCopy`), by the barrier
  or by the CTA's own order.
- `Contents`: an element of the own slice has the input of a peer exactly if the CTA
  whose window it is has stored it (`Reduced`); a peer's slice is complete exactly if
  it has been copied here in this epoch (`Delivered`). A store changes one of these
  (`ReduceStore`, `CopyStore`). A launch resets the rank's buffer, when no peer can
  have delivered anything of the new epoch (`PeersWait`), and what the rank had
  delivered before stays so for those it leaves behind (`LaunchDelivered`).

`CompletionHolds` and `ReleaseHolds` follow: a complete kernel has done all its own
tasks and has seen that all peers have done theirs.

### vLLM adapter

For all numbers of ranks, layers and forward passes, all pool sizes, and any
failures (`AdapterAssumption`). `SetupInv` says that whoever has entered the last
stage of the constructor saw everybody in the stage before. `ResultIsSum` is not
inductive: that the slot a rank finds summed is its own needs that all ranks were in
the same all-reduce. They never compare their counts, so the invariant has to say
what they agree on although they are at different places: the pass, the all-reduce
that each will meet in next (`Pending`, which counts a rank before its norm as
already one further) and the slot this will be in (`NextSlot`, which is the index or,
after the launch, what was launched). No step of one rank changes these
(`PendingKept`); a meeting changes them for all alike (`MeetingAgrees`,
`AgreementStep`). `SlotInv` adds what a rank's own slot holds from fill to norm. 
`ResidualUntilWrap` is an equivalence, without a hypothesis about the pool.
`ResidualInv` says that the slot of the `k`-th all-reduce of a pass is the `k`-th
after that of the residual (`Ahead`), modulo the pool; `AheadMoves` says that the
first `Slots - 1` of these are other slots and the next is the same again. Up to
there (`Intact`) nothing but its own norms touches the residual's slot. From there
on (`Lost`) it never again holds what a norm expects in this pass: first the new
all-reduce's partial sum, then its sum, and from the norm that reads both operands
in one slot on what came of garbage, or what later all-reduces leave there
(`LostIsNotExpected`). The next pass begins anew (`FirstNormHere`).

### Overlap search

For any number of ranks and candidates, any tiles, SMs, slack and group sizes, any
execution orders, wave time, bandwidth curve and durations, and any failures. What
is assumed (`SearchAssumption`) is that there is a candidate (with an empty list
`choose_candidate` raises at once, before anything is searched), that the numbers of
tiles and SMs and the group sizes are positive (the smallest accepted group is
`max(1, ...)` unless the caller says otherwise), and that times are numbers.

The invariant of the protocol is short. Between two sessions there are no processes
(`Idle`); what is searched is what the accepted candidate determines (`Accepted`);
each of the divisions to be measured is waiting, being measured, or among the
measurements (`Campaign`); and a solution is made of the best of these (`SavedOk`).
A failed session can only end the search or, in `choose`, move on to the next
candidate, so it leaves nothing behind. All else is about the operators of
`TuningLayout`, for every length:

- *Running sums.* `Ends` and `done` in `Predict` are recursive functions. That such
  a function exists is induction over its domain, which `Recursion` does with a set
  for the predicate and the least counterexample (`LeastOf`, `Climb`); that a function
  which grows by the elements is the running sum is `UptoUnique`.
- *Covering.* A composition's units add up (`CompositionIs`); the units hold all
  tiles and one unit less would not (`GroupsHold`), so the last segment, cut off at
  the number of tiles, is not empty and the segments add up to it (`SegmentsAre`).
  Each row is in one block (`BlockExists`, `BlockUnique`); within it the even rows
  keep their order before the odd ones (`RemapIs`), which is a permutation
  (`RemapPermutes`) and contiguous by rank (`RemapContiguous`). Two rows per tile and
  two ranks are the model's, not a constant.
- *Stability.* The windows of an observation are disjoint (`ObservationIs`). The hint
  grows window by window, contains each tile of the windows so far once, and begins
  with the hint of the first windows (`GrownHolds`, `GrownOnce`, `GrownPrefix`). A
  full window has at least a group's worth of stable tiles (`EffectiveIs`), and full
  windows come first (`FirstAreFull`), so the first `k` groups lie within the first
  `k` windows (`PrefixHolds`).
- *Layout.* The order that is saved lists each tile once, where the layout that was
  measured has it (`FullOrderIs`, `PlaceIs`, `LayoutIsOrder`): the two programs that
  compute it agree.
- *Prediction.* At every step the time at which the second machine is done is the
  longest path that ends there, a sum of computations up to some segment and of
  communications from it on (`LongestPath`), so the loop yields `Makespan`.

### Evaluation

For any shapes, configurations, kernels, profiles, trials and invocations, and any
number of kills. `MemoryIsFiles` says that memory is what the files say, except of
the scenario being run, which is marked in its file and is not one to be kept; so a
kill loses nothing that is not marked. `BehindHaveResults` is the loop invariant of
shapes and configurations, so that a finished invocation reports what the files say
(`SummaryIsFiles`, which is proved and in no run). `TestedAsSearched` needs that the kernels in a profile
written by this invocation are those the numbers name (`ProfileIsFresh`), which holds
until the invocation ends, since kernels are generated anew only between invocations.
`MinIsElement` stands for the choice of the next scenario.

### Notes

Least elements of sets of naturals (`LeastNatural`, `LeastOf`, `MinIsElement`) come from the
well-foundedness of strict inclusion of finite sets
(`FS_StrictSubsetOrderingWellFounded`, `WFMin`), which needs no induction over a
predicate.

Only model-checked is all liveness, which is out of the prover's reach: it rests on
fairness and on `ENABLED`.

## 5. Not modelled, and why

- *Window pipeline* (`comm/pipeline/window_pipeline.cuh`): one warp's loop over
  memory barriers and bulk groups. Whether a stage may be refilled depends on what
  a wait on a bulk group guarantees, which is the meaning of a PTX instruction.
- *Same-process plan cache* (`comm/plan/transfer_plan_distribution.cu:141-411`):
  entries under one mutex. The arena between processes, which has only barriers, is
  modelled.
- *Staged plans for islands*: lowering refuses every such plan, so none runs.
- *Group, node and buffer lifecycle*: allocations with rollback on one thread. Its
  effects on imports, re-wrapped and destroyed buffers, are in `IpcImportCache`.
- *Launch preparation beyond the counters and ready values*: eligibility for a fast
  kernel is a function of sizes; launches that fail, epochs that drift when a rank
  fails after the increment (`comm/ooverlap_comm_private.cu:933`) and two streams on
  one scratch slot are outside what the interface supports, and the models assume
  that they do not occur.
- *Adapter*: `destroy`, the other back ends that `cuda_communicator.py` selects
  among, pipeline parallelism, and vLLM's own code around the changes.
- *Search and evaluation*: output, plots, log files, names of files, meta data; that
  two evaluations at once share solution files, and that a child which hangs is
  waited for without a timeout, are limits of the programs which the models inherit
  as assumptions (one evaluation, children that end). `SearchEnds` says exactly when
  a search does not end. An edited `COMM_OP` with scenarios that are already ok is also
  left out: one kind of collective is evaluated.
- *Measurement of bandwidth and the report readers*: loops without state between
  steps.
- *Topology probing and tuning* (sequential, data), driver wrappers and inline PTX
  (used by their documented meaning), generated GEMM kernels, third-party baselines
  and patches, scripts.

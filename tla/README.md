# DeepGEMM / DCU MegaMoE: a TLA+ verification project

This directory holds TLA+ modules that model the concurrent core of the
repository, the TLC configurations that check them on small instances, and
proofs, checked by TLAPS, of the properties that matter most. The repository is
DeepGEMM, a library of CUDA kernels for matrix products, mixture-of-experts (MoE)
and attention logits on SM90 and SM100, with a *mega* MoE operator for SM100 and
another one for DCU (HIP) devices. In all of them the program's own logic is the
same kind of thing: many warps, blocks and GPUs that work on shared memory
without a lock and agree through counters, flags and barriers. That logic is
modelled here; the numbers they multiply are not.

Paths below are relative to `src/`; `K/` stands for `deep_gemm/include/deep_gemm/`.

## 1. Inventory

| Component | Where | State it keeps | Operations | What is hard about it |
|---|---|---|---|---|
| DCU barrier between ranks | `K/comm/mega_moe_dcu.cuh:62` | signed signal per peer, in symmetric memory, never reset | `mega_moe_rank_barrier` | two atomics on two GPUs; signals of two phases overlap; absent peers and the timeout |
| DCU barrier between blocks | `K/comm/mega_moe_dcu.cuh:94` | arrival count and sense, kept from launch to launch | `mega_moe_local_blocks_barrier` | reuse of the two slots by the next phase; wrap of the sense; blocks that do not fit the device |
| DCU task arithmetic | `K/impls/mega_moe_dcu.cuh:139-257, 477-504` | none | tile table, L1 decoding, L2 groups | four schedules, partial tiles, windows and groups |
| DCU persistent pipeline | `K/impls/mega_moe_dcu.cuh:505-699`, `K/scheduler/mega_moe_dcu.cuh` | heads, tail, done counter, ready flags, L2 queue in `route_scratch` | pull, L1, quantise, enqueue, L2, stop | many blocks, spin waits on each other, stale scratch, queue slots reserved before they are filled |
| DCU launches across ranks | `K/impls/mega_moe_dcu.cuh:259-765` | symmetric buffers (inputs, counts, combine), expert pools | publish, route, prepare, work, reduce | peers early or late by a launch, unequal token counts, stale combine rows |
| DCU staged path K1/K2/K3 | `megamoe/large_opt.py`, `megamoe/dcu_megamoe_large_opt/` | tickets, releases, tail signals, launch arguments in the shared scratch | prepare, K1, K2, K3, staged barrier | shares signals and scratch with the fused path; graphs that replay; estimated capacities |
| Python front end | `megamoe/__init__.py` | `SymmBuffer` | `fp8_mega_moe`, graph modes | each rank chooses its path by itself |
| CUDA barriers | `K/comm/barrier.cuh` | grid counters, NVLink counter and signals | `grid_sync`, `nvlink_barrier` | phase bit, sign and phase word, none of them ever reset |
| CUDA mega MoE | `K/impls/sm100_fp8_fp4_mega_moe.cuh`, `K/scheduler/mega_moe.cuh` | workspace: send and receive counts, pool, arrival counts and masks; mbarriers | dispatch, GEMM waves, combine, cleaning | five kinds of warps that each derive the same schedule; cleaning against late readers and early ranks |
| GEMM block scheduler | `K/scheduler/gemm.cuh` | block index and group counters of one SM | `get_next_block` and its predicates | every SM and every role runs its own copy and must come to the same answer |
| MQA logits scheduler | `K/scheduler/paged_mqa_logits.cuh` | metadata per SM, position of one warp | metadata kernel, `fetch_next_task` | shares that begin and end inside a query; paired tokens |
| GEMM and attention kernels | `K/impls/sm90_*.cuh`, `K/impls/sm100_*.cuh`, `K/epilogue/` | shared and tensor memory, mbarriers | TMA, tensor-core, transpose, cast, math and epilogue warps | rings of different depths, asynchronous engines, clusters of two CTAs |
| Layouts | `K/layout/mega_moe_dcu.cuh` | none | offsets and capacities | bounds, alignment |
| DCU host API | `csrc/apis/mega_dcu.hpp`, `csrc/python_api_hip.cpp` | IPC buffers | checks, launch | capacity checks |
| JIT | `csrc/jit/` | cache directory, runtime cache | `build`, `get` | processes racing on a directory |
| APIs, heuristics, layout kernels, legacy, tests, assembly | rest | none of their own | - | numeric; not modelled |

**How they interact.** The front ends copy a rank's inputs into its symmetric
buffer and launch kernels in stream order. On DCU, block 0 of each rank meets the
other ranks at the rank barrier three times per launch and all blocks of a rank
meet at the local barrier five times; the staged path does the same work in three
kernels with a barrier of its own, on the same signals and the same scratch. On
CUDA, SM 0 of each rank meets its peers at the NVLink barrier three times per
launch, between grid syncs. Ranks read each other's inputs and write each other's
combine rows directly. Inside an SM the warps of a kernel meet only at mbarriers,
on which the copy engine and the tensor core arrive too. The schedulers talk to
nobody: each SM, and each role of it, computes what the others compute.

**What makes each part correct.** A barrier: nobody leaves a phase before all
entered it, nobody is left behind, and an abort blames a peer who is really
missing. The arithmetic: each schedule is a permutation of the same work, however
many copies of it run. The pipelines: each operand is read as the one that was
meant, each piece of work is done once, and all warps end, none under a peer that
still signals it. The launches: what a rank reads belongs to the launch, what it
computes are the routes it owns, and what it reduces was written in this launch.

## 2. Modules

| Module | Role | Depends on |
|---|---|---|
| `PhaseBarrier` | abstract: what every barrier promises | |
| `RankBarrier` | DCU barrier between ranks, one action per atomic | refines `PhaseBarrier` |
| `LocalBlocksBarrier` | DCU barrier between the blocks of a grid | refines `PhaseBarrier` |
| `RouteTiles`, `MCRouteTiles` | tile table, schedules and groups as functions | |
| `MoEDataflow` | abstract: what one rank computes | |
| `FusedPipeline`, `MCFusedPipeline` | the loop of the blocks of one rank | extends `RouteTiles`, refines `MoEDataflow` |
| `FusedMoE`, `MCFusedMoE` | DCU launches on all ranks | uses `PhaseBarrier` for the rank barrier |
| `StagedBarrier` | the ticket barrier of the staged path | refines `PhaseBarrier` |
| `StagedMoE`, `MCStagedMoE` | staged and fused calls on one buffer | extends `StagedBarrier` |
| `NvlinkBarrier` | `grid_sync` and `nvlink_barrier` with the two agents of an SM | refines `PhaseBarrier` |
| `MegaSchedule` | waves, pool and source arithmetic of the CUDA mega MoE | |
| `MegaMoE`, `MCMegaMoE` | CUDA mega MoE launches on all ranks | extends `MegaSchedule`, uses the barriers that `NvlinkBarrier` implements |
| `KernelSteps` | the steps a warp is programmed with | |
| `KernelMachine` | mbarriers, copy engine, tensor core, warps: executes programs | extends `KernelSteps` |
| `GemmScheduler` | block scheduler of the GEMM kernels | |
| `Sm90Gemm`, `Sm100Gemm`, `SplitKGemm` | the GEMM kernels as programs | `KernelSteps` |
| `MqaSchedule`, `MqaLogits` | schedule and programs of the MQA logits kernels | `KernelSteps` |
| `MegaKernel` | one cluster of the CUDA mega MoE as programs | extends `Sm100Gemm` |
| `MCKernels` | instances of all kernels, fed by the schedulers | instantiates `KernelMachine`, the schedulers and the kernels |
| `RankBarrier_proof`, `LocalBlocksBarrier_proof`, `StagedMoE_proof`, `RouteTiles_proof`, `FusedPipeline_proof`, `FusedMoE_proof`, `NvlinkBarrier_proof` | theorems about the module they are named after | that module, TLAPS |
| `MCMegaMoE_proof` | theorems about the launches of `MegaMoE`; that of `NvlinkBarrier` for the specification the run checks | extends `MCMegaMoE`, instantiates `NvlinkBarrier_proof` |

The layers rest on each other. The five barriers are shown to implement a phase
barrier; `FusedMoE`, `StagedMoE` and `MegaMoE` use the phase barrier for the
ranks. `FusedPipeline` and `MegaKernel` show what goes on inside a rank or a
cluster; `FusedMoE` and `MegaMoE` keep of it what other ranks can notice. The
programs of the kernels are built from the blocks that `GemmScheduler`,
`MqaSchedule` and `MegaSchedule` enumerate, so that a wrong schedule shows as a
wrong or missing result.

### State and actions: DCU

*RankBarrier.* `signal[r][i]` is slot `i` of rank `r`. `AddMine` and `SubPeer`
are the two atomics of a lane, in any interleaving across lanes and ranks (a
wave runs its lanes together, so this is more than the device does). `Leave` is
the ballot that finds no positive signal, `Timeout` the abort. `Quit` is the
environment: a peer whose process ended or that launched the other path. The
lanes' loads are taken in one step: a signal that is not positive stays so until
its owner's next call.

*LocalBlocksBarrier.* `ReadSense`, `Arrive`, `Drain`, `Flip`, `SpinDone` and
`Timeout` are the accesses of thread 0. `Dispatch`, `Retire` and `room` are the
device: an ordinary launch gives no promise that all blocks are resident. The
sense has `SenseValues` values, so it wraps in the run.

*RouteTiles.* `TileStart` is the table block 0 builds, `DecodeL1` is
`dcu_decode_l1_task`, `GroupOf` and `GroupEntry` are the index computations of
`dcu_enqueue_l2_ready_for_subtile`. A group's counter slot is
`l2_group_done_counts` or, for whole experts, `expert_quant_done_counts`; both
are one function of the group's first subtile here.

*FusedPipeline.* An action lies between two accesses to shared scratch. `pc`
follows the loop: `PullLoad`, `PullClaim`, `Copy`, `Publish`; `L1Load`,
`L1Claim`, `L1Wait`, `Compute`, `Count`, `Quant`; `GroupDone`, `Reserve`,
`Fill`, `Ready`; `L2Load`, `L2Claim`, `L2Wait`, `L2Count`; `StopLoad`, `Sync`.
`Store` is the one thing a block does beside its thread 0: after the last
`__syncthreads` of the L2 chunk the waves store combine rows while thread 0 may
already count the task. The data are reduced to *which* tile, activation,
quantised subtile or combine row has been written. The scratch starts clear or
as a full launch left it.

*FusedMoE.* `Program` is the order of the kernel's stages; `Follow` skips the
rank barriers for all blocks but 0. Buffers hold the number of the launch that
wrote them. A token has one route (top-k is a loop over independent slots, with
a combine row each), and an expert is its owning rank. The pool of an expert
never overflows at the one registered shape: its capacity is
`R * R * max_tokens`, top-k is 6, and R is 8. The rank barrier's timeout is not
repeated here; it ends the process.

*StagedBarrier.* `Draw` is the `atomicAdd` of the ticket on rank 0, `Release`
and `Pass` what follows from it: the last ticket of a group stores the group's
generation, the others spin for it. Ticket and release are ints that wrap, and
`/` and `%` truncate as in C. After 2^31 tickets the comparison by order turns
round: nobody waits from there on. The runs stay below that (`IntHalf`).

*StagedMoE.* `pc[r]` is where the stream of rank `r` is; one action is one kernel,
or one access where kernels of two ranks can meet: `Reset`, the barrier, `Agree`;
`CountRoutes`, `EmitRoutes`, `PullL1`, `QuantK2`; and for K3 a `StoreTile` and
`CountTile` per workgroup, `SignalPeer` per peer, `TailReduce`, or `EndStores`, a
second barrier and `ReduceLocal`. A plan says which path each call takes: staged
eagerly, staged from a captured graph (whose replay does not copy the launch
arguments), or fused, with `FusedWork` writing the scratch where the two layouts
overlap. Abstracted: the capacity estimate, to its mean and a slack. Left out: K1's
assembly form of the routes with its flags and their generation, statistics,
invalid routes and several routes per token, and the timeout of the barrier.

### State and actions: CUDA

*NvlinkBarrier.* An SM has two agents, its dispatch and its epilogue warps. Each
has a grid sync counter; they share the round counter and the two signal words.
`Program` is the order in which the kernel comes to its barriers. `GridArrive` and
`GridLeave` are the add and the spin, `SendSignal` one thread's signal to one
rank, `AllSignalled` the wait of thread 0. `Meet` is the barrier within an SM; it
is what keeps the two agents from using the signal words at once.

*MegaMoE.* Agents are the dispatch and epilogue warps of each SM and the TMA warps
of each cluster. Dispatch: `Claim` and `Index` (slots of the routes, counted per
SM and then in the rank's send counts), `Report` (the counts to the owners),
`Pull`, and `Clean`; TMA: `Loadable`; epilogue: `Compute` (`Linear1` or `Linear2`), `Reduce`.
`Fetch` is the polling of the counts that every role does by itself, and `Plan`
what it derives from them. Written data carry the launch whose inputs they come
from. What is left out of an SM is in `MegaKernel`. `MCMegaMoE` also runs
`NvlinkBarrier`, in behaviours of their own (`part`), and evaluates the schedules.
A role that polls after the counts are cleared again is `Overtaken`, see "Findings".

*KernelMachine.* A kernel is data: the arrival count of every mbarrier and, for
each role, the sequence of its steps: wait for a parity, arrive, start a copy
into shared memory, start an MMA, commit, read, write, a named barrier, start a
store, wait for stores. `WarpStep` executes a warp's next step, `EngineStep` what
the copy engine and the tensor core do later and in their own order. A warp that
stands before a read or a write is inside it, so two accesses that overlap are a
state that `ReadsMatch` sees; a slot that is written under an access is torn.

*Sm90Gemm, Sm100Gemm, SplitKGemm, MqaLogits, MegaKernel.* One operator per role
of each kernel turns an instance into that role's program; the loops are those of
the source, over the blocks that the scheduler gave the CTA. A group of warps that
takes the same steps is one or two modelled warps. Scale factors and weights
travel with the operand they scale where they share its barrier, and the copy to
tensor memory (UTCCP) is one step with the MMA that follows it. Fences of the proxies,
addresses inside a tile, the block table of the paged kernels and the tensor maps
that the k-grouped kernels rewrite are left out. In `MegaKernel` the rank is one
cluster and takes no other rank's tokens; barriers in global memory are syncs, and
arrival counts are barriers.

*GemmScheduler, MqaSchedule, MegaSchedule.* `NextBlock`, `StepTask` and
`FetchNext` are one call of the code's iterator on a record of its fields; the
sequence of an SM is what repeated calls give. Reference definitions (`Wanted`,
`PagedTasks`, `RangesCovered`) say what all SMs together should have enumerated.

## 3. Runs

| Run | Instance | Checks | Distinct states |
|---|---|---|---|
| `rank_barrier` | 3 ranks, one of which may stop; 2 phases | `TypeOK`, `ImplementsPhase`, `AbortsBlamePeer`, `NoHang` | 70 thousand |
| `local_barrier` | 4 blocks, a sense of 2 values, 3 phases, room for 1 to 4 blocks | the same four | 8 thousand |
| `route_tiles` | 2 experts with 0 to 5 rows, tiles of 4 and subtiles of 2 rows, 1 to 3 chunks, all schedules, windows of 1 to 4, group limits 0 to 3 | `L1Bijective`, `PullCoversL1`, `TilesCoverRows`, `GroupsPartition` | 3456 inputs |
| `fused_pipeline` | 2 blocks, 2 experts with 2 and 1 rows, 2 chunks each way | `TypeOK`, `WaitsForClaimedTile`, `StoredOnExit`, `ImplementsDataflow`, `Terminates` | 222 thousand |
| `fused_moe` | 2 ranks of 2 blocks, 0 to 2 tokens, 2 launches; each rank takes `<<1, 0>>` or no token, in the second launch an invalid route too | `TypeOK`, `ReadsSeeThisLaunch`, `RowsAreRoutes`, `StaleOnlyInFlight`, `LaunchesComplete` | 234 thousand |
| `fused_moe_reduce` | the same | `FreshReduce`, which fails | - |
| `staged_moe` | 2 ranks, 2 or 3 calls, equal, unequal and empty counts, tail reduce on and off | `TypeOK`, `EveryRouteHasARow`, `UniformAgrees`, `LaunchStateIntact`, `ImplementsPhase`, `FreshUnlessDropped`, `CallsReturn` | 102744 |
| `staged_switch` | a fused call with nine rows between two staged ones | `LaunchStateIntact`, which fails | - |
| `staged_uneven` | one token on one rank, four on the other | `EveryRouteHasARow`, which fails | - |
| `kernels` | 23 kernels, 1 or 2 CTAs, rings of 1 or 2 stages, 2 to 6 blocks of 1 to 3 k blocks; some 600 scheduling problems | `ReadsMatch`, `ResultsOnce`, `ExitedAreAlone`, `SchedulesPartition`, `PeersAgree`, `LogitsScheduled`, `Terminates` | 306 thousand |
| `kgroup_odd` | a k-grouped SM90 GEMM, 2 groups of 3 blocks on a cluster of 2 | `Terminates`, which fails | 72 thousand |
| `mega_moe` | 2 ranks of 2 SMs, 2 launches, a rank that sends nothing, one that receives nothing, an unused route; 972 distributions for the schedules | `MegaScheduled`, `ReadsSeeThisLaunch`, `ImplementsPhase`, `LaunchesComplete` | 159 thousand |

**What they show.**

- `rank_barrier`, `local_barrier`. Phases line up (`ImplementsPhase`, refinement
  of `PhaseBarrier`). The slots do not drift: a signal is within one tag of
  zero, the count is zero whenever the sense changes (`TypeOK`). An abort always
  blames a participant that has not done its part (`AbortsBlamePeer`), and
  whoever waits returns or aborts (`NoHang`). Three ranks are the fewest at
  which a rank can be late for one peer and early for another; two phases let
  signals of neighbouring phases meet, and the barrier itself forbids them to be
  further apart. Two sense values are the hardest case: the sense of the phase
  after next equals this one's.
- `route_tiles`. Every schedule decodes to each subtile and chunk once
  (`L1Bijective`), an L1 task's tile is not beyond its own number
  (`PullCoversL1`), the launcher's capacity never drops a row
  (`TilesCoverRows`), groups partition the subtiles and their entries are the L2
  tasks (`GroupsPartition`). The bounds give empty experts, one and two tiles,
  half-empty tiles, and windows and groups smaller, equal and larger than an
  expert.
- `fused_pipeline`. The loop implements `MoEDataflow` (`ImplementsDataflow`):
  L1 never reads a tile that is not pulled, quantisation sees all chunks, L2
  sees the quantised subtile, nothing is done twice, from clean or stale
  scratch. Heads overshoot by less than one per block (`TypeOK`). All rows are
  combined when the blocks have left (`StoredOnExit`), and they do leave
  (`Terminates`). The instance has a full and a half-empty tile, an invalid
  subtile, two experts (hence two L2 groups) and more tasks than blocks.
- `fused_moe`. During a launch every count and route read belongs to the launch
  (`ReadsSeeThisLaunch`); the rows in the tile metadata are exactly the routes
  the rank owns, whether counts are equal or not (`RowsAreRoutes`); a row that is
  stale at the reduction is being stored at that moment by the peer
  (`StaleOnlyInFlight`); all launches end (`LaunchesComplete`). Two launches are
  enough for a buffer to be stale, two ranks for one to be early.
- `staged_moe`. Within the capacity every route has a row (`EveryRouteHasARow`);
  ranks agree on whether counts are uniform although peers publish the next count
  early (`UniformAgrees`); signal addresses and launch arguments are those of the
  call when K3 uses them (`LaunchStateIntact`); the ticket barrier is a phase barrier
  (`ImplementsPhase`); a reduction reads rows of its own call (`FreshUnlessDropped`);
  all calls return (`CallsReturn`). Each path comes after each other one, and a
  graph is captured once and replayed once.
- `kernels`. Every operand a warp or a tensor core reads is the k block of the block
  it is meant to be, complete, and not overwritten while it is read (`ReadsMatch`);
  the results are those of the scheduler's blocks, each stored once (`ResultsOnce`);
  no CTA exits while its peer may still signal it or write into it
  (`ExitedAreAlone`); every role ends (`Terminates`). The instances have more blocks than
  ring stages, so that every ring wraps; multicast pairs, a pair that loses its
  peer in the last round, one whose groups differ, and a pair of operand halves; one
  accumulator and two; queries with no keys, tasks that end inside a query. Over many
  more problems the schedulers of all SMs together visit each block once
  (`SchedulesPartition`), the CTAs of a cluster agree on what they share
  (`PeersAgree`), and the logits that are asked for are the logits computed, once
  (`LogitsScheduled`).
- `mega_moe`. Counts, pulled tokens, weights, L1 outputs and combine rows that are
  read belong to the launch of the reader, although the workspace is cleaned by
  some SMs while others end and other ranks begin (`ReadsSeeThisLaunch`); the waves
  that five roles derive for themselves divide the blocks of both layers, keep
  clusters together, never wait for a layer that comes later, and the pool has room
  (`MegaScheduled`); all launches end unless a role reads the counts too late,
  which the property names (`LaunchesComplete`, see "Findings"); the NVLink barrier and the
  grid syncs of each rank are phase barriers (`ImplementsPhase`). Two launches are six
  rounds of signals, so each word has counted up, down and up again.

Each property has a mutant in `PROJECT.json`: a plausible slip in one mapped
definition under which the run finds the property violated.

### Findings

- `fused_moe_reduce`: thread 0 counts an L2 task in `L2Done`
  (`K/scheduler/mega_moe_dcu.cuh:82`) without waiting for the other waves of its
  block to store the combine rows, and at the end block 0 runs the rank barrier
  *before* the local barrier that would wait for them
  (`K/impls/mega_moe_dcu.cuh:702-704`). A peer can then reduce a row before it is
  stored. `DCU_MEGAMOE_KERNEL_ANALYSIS.md:391` says the rank barrier makes all
  ranks' writes visible. What does hold is `StaleOnlyInFlight`: the only stale
  rows are those being stored at that moment.
- `staged_switch`: the tail signal addresses lie where the fused kernel keeps its
  chunk maxima and are written only once (`megamoe/large_opt.py:187, 281`). A fused
  call with nine or more rows in its first tile destroys them. `README.md:157-160`
  says the paths may be switched freely.
- `staged_uneven`: K1 sizes the row table from its own token count
  (`K1_fused/k1_fused_ext.cu:821`) though the routes come from all ranks; beyond it
  routes are left out without an error. `README.md:165` describes uneven counts as
  supported.
- `kgroup_odd`: in the k-grouped layout each CTA decides for itself to multicast, and
  with an odd number of blocks per group a cluster straddles two groups
  (`K/scheduler/gemm.cuh:261`, `csrc/jit_kernels/heuristics/sm90.hpp:63-91`). Its CTAs
  wait for each other for ever. `K/impls/sm90_fp8_gemm_1d1d.cuh:178` says such cases
  fall back to no multicast.

Noted while modelling, with no run of their own:

- The late read of the CUDA mega MoE: every role polls `recv_count_sum` until it reads
  `NumSMs * NumRanks` arrivals (`K/scheduler/mega_moe.cuh:191`), "Wait for all expert
  counters to be finalized" (line 201). Another SM clears it at the end of the launch
  (`K/impls/sm100_fp8_fp4_mega_moe.cuh:632`), which a comment says is "overlapped with
  combine reduction epilogue" (line 606). Nothing orders the clearing after the
  polls of the roles that have no token to pull and no block to load. Such a role may find
  the counts cleared and poll for ever, and its launch does not end. It takes a warp that
  sleeps through most of the launch. The model has the behaviour: with `Finished` alone in
  `LaunchesComplete`, TLC finds such a role, for instance the dispatch warps of one SM of a rank that receives nothing
  polling after the other SM has cleared the counts. `LaunchesComplete` names this case
  (`Overtaken`) and says that there is no other way for a launch not to end.
- `q_stage_idx` in `K/impls/sm100_fp4_paged_mqa_logits.cuh` is declared in the loop
  body and set only where the query changes; for later splits of the same query it is
  read uninitialised. `Fp4PagedUmma` has both outcomes (`kept`); the run takes the one
  where the register keeps its value, as the compiler is likely to do.
- The hyper-connection GEMM accepts more splits than there are k blocks
  (`csrc/apis/hyperconnection.hpp:32` asks only for one or more); an SM100 CTA with no
  k block reads accumulators that nothing has written.
- Graph replays of the staged path do not copy launch arguments; a graph captured
  before another eager call replays that call's arguments.
- A route of weight 0 gets no row on the staged path and its combine row is not
  zeroed, as the fused path does.
- The ticket of the staged barrier wraps after 2^31 calls.

**Bounds** are constants named in the modules or configurations: `MaxPhases`,
`SenseValues`, `MaxLaunches`, `MaxTokens`, `MaxRows`, `MaxChunks`, `MaxGroup`,
`IntHalf`, `TileM`, `CapacitySlack`, `MaxReceived`, `FinishTag`, `Launches`. The
pipelines need no bound: their heads stop by themselves, and a kernel's programs are
finite.

**Fairness.** Weak fairness per rank, block or storing wave: a resident wave is
scheduled, and the spin loops are left when their condition holds. The device
dispatches a block it has room for. A spinning wave's clock advances, so
`Timeout` is weakly fair in the barrier modules. In `FusedPipeline` and
`FusedMoE` all blocks are taken as resident: the local barriers before the loop
have been passed, which `LocalBlocksBarrier` shows to happen only then. In
`StagedMoE` each stream runs on, and so does each workgroup of K3. In
`KernelMachine`, `NvlinkBarrier` and `MegaMoE` a behaviour has finitely many steps
(every step moves a program counter or finishes what one has started), so weak
fairness of the whole next-state relation says all there is to say: whatever can still
happen does. CUDA launches these kernels with one CTA per SM and clusters as a whole,
so all CTAs are resident. Each rank launches as often as the others, which is
what the collective API asks for.

**Deadlock** is checked in all runs but two; ends of
a behaviour are explicit (`Finished`, `AllDone`). In `kgroup_odd` a system that stops is
what the run looks for. In `mega_moe` it may stop where a role is
`Overtaken`, and `LaunchesComplete` says that it stops nowhere else.

## 4. Proofs

| Theorem | For all | Statement |
|---|---|---|
| `RankBarrier_proof!Typing` | sets of ranks, numbers of phases | `[]TypeOK` |
| `RankBarrier_proof!Refinement` | | `ImplementsPhase` |
| `RankBarrier_proof!NoEarlyLeave` | | nobody returns from call k before all made call k |
| `RankBarrier_proof!Aborts` | | `AbortsBlamePeer` |
| `LocalBlocksBarrier_proof!Typing` | finite grids, sense widths of at least 2 | `[]TypeOK` |
| `LocalBlocksBarrier_proof!Refinement` | | `ImplementsPhase` |
| `LocalBlocksBarrier_proof!Aborts` | | `AbortsBlamePeer` |
| `StagedMoE_proof!CallsRefine` | numbers of ranks, sequences of calls, inputs, widths of the counters | `ImplementsPhase` while the ticket counter has not overflowed |
| `StagedMoE_proof!CallsTyped` | the same, with and without the tail reduce, under the same condition | `[]TypeOK` |
| `StagedMoE_proof!FlagsAgree` | | `[]UniformAgrees` |
| `StagedMoE_proof!ReductionsFresh` | | `FreshUnlessDropped` |
| `StagedMoE_proof!RoutesHaveRows` | | `[]EveryRouteHasARow`, if the routes fit the rows K1 reserves (`RoutesFit`) |
| `StagedMoE_proof!LaunchStateKept` | | `[]LaunchStateIntact`, if fused calls route at most `ProbRows` rows to a rank (`FusedFits`) and replays follow each other (`GraphsAdjoin`) |
| `RouteTiles_proof!TasksBijective` | routings, tile sizes, chunk counts, schedules, windows | `L1Bijective` |
| `RouteTiles_proof!PullsCoverTasks` | | `PullCoversL1` |
| `RouteTiles_proof!GroupsSplitTasks` | the same, group limits | `GroupsPartition` |
| `RouteTiles_proof!TilesHoldRows` | | `TilesCoverRows`, if no more rows are routed than the launch allows for (`RowsFit`) |
| `FusedPipeline_proof!WaitSafe` | numbers of blocks, routings, schedules | `[]WaitsForClaimedTile` |
| `FusedPipeline_proof!CountersFit` | | `[]TypeOK` |
| `FusedPipeline_proof!AllStored` | | `[]StoredOnExit` |
| `FusedPipeline_proof!WorkOfDataflow` | | `ImplementsDataflow` |
| `NvlinkBarrier_proof!Refinement` | numbers of ranks, SMs and launches, tags of at least the number of SMs | `ImplementsPhase` |
| `MCMegaMoE_proof!Reads` | numbers of ranks, SMs, experts, tiles and launches, inputs | `[]ReadsSeeThisLaunch`, if the schedules fit (`SchedulesFit`) |
| `MCMegaMoE_proof!Barriers` | as `NvlinkBarrier_proof` | `ImplementsPhase` of the specification that `mega_moe` checks |
| `FusedMoE_proof!LaunchesTyped` | numbers of ranks, blocks, tokens and launches, inputs | `[]TypeOK` |
| `FusedMoE_proof!PeersInLaunch` | | `[]ReadsSeeThisLaunch` |
| `FusedMoE_proof!RowsOwned` | | `[]RowsAreRoutes` |
| `FusedMoE_proof!ReduceInLaunch` | | `[]StaleOnlyInFlight` |

*RankBarrier.* The type invariant is not inductive: nothing in it says why a
signal stays within one tag. The strengthening (`IInv`) ties each signal to the
history: `signal[r][i]` is the tag times the adds `r` has made for `i` over all
calls less the subtractions `i` has made at `r` (`SignalInv`), and every peer has
answered every call that `r` has returned from (`AnsweredInv`). So nobody is two
calls ahead of anybody and the difference is -1, 0 or 1. Refinement and the
abort property follow from the same invariant.

*LocalBlocksBarrier.* A spinning block whose sense is no longer the current one
is *released*: its phase is over though its call has not returned. Counting that
phase as done, all blocks have done equally many phases (`SameDone`); the count
is the number of blocks that wait under the current sense, until the last one
takes them out (`CountInv`, `LastInv`); and all blocks wait only when one of them
is about to release the others (`FullInv`). Nobody can see the sense change
twice, so two sense values suffice. Counting needs the grid to be finite.

*RouteTiles.* The only assumption is `RouteInputs`: counts are natural numbers,
sizes and limits positive, and a tile is a whole number of subtiles. `TileStart` never
decreases, so an expert owns a range of tiles, of subtiles and of L1 task ids, and
every id lies in the range of one expert. Within a range each schedule is a
mixed-radix numbering of window, chunk and subtile; `Encode` inverts it, and the short
last window is the case that needs care. Groups are windows with the hidden chunks
outermost, and their counter slots differ because a group's number is below its first
subtile's. `TilesHoldRows` also needs `RowsFit`, the fact by which the launch sizes
its table: a rank cannot be sent more routes than `R * max_tokens * topk`. The library's induction
theorems take an operator and cannot be used here, but the induction needed is over
the number of experts only: `InductionTo` states it with the *set* of numbers that satisfy
the hypothesis, and follows from the least element of the set of counterexamples.
That the recursive functions `TileStart` and `RowsBefore` exist is proved in the same
way (`Recurrence`).

*FusedPipeline, waiting.* A block attempts a pull before each L1 claim. So either all
tiles are claimed or the pull head is ahead of the L1 head by at least the
number of blocks that have claimed a tile and not yet tried an L1 task
(`PullAhead`). With `PullsCoverTasks` (task `k` needs a tile no later than `k`)
the tile that a block waits for is claimed. The assumption on the constants is
`RouteAssumption`, that is `RouteInputs`.

*FusedPipeline, the work.* `TypeOK` and `StoredOnExit` are far from inductive: the
counters bound each other only through the history of the pieces of work. The inductive
invariant `Inv` of `FusedPipeline_proof` has two parts. Until every block has reset
its share of the scratch, nothing has been done and each slot is stale or clear
(`ResetInv`). From then on it follows a piece of work through the counters:

- a claimed tile or L1 task below its head has one holder or is done
  (`PullInv`, `L1Inv`);
- a subtile's counter plus the blocks about to count it are the chunks computed
  (`CountInv`), so exactly one block sees the last chunk and carries the subtile on
  (`TokenInv`); a subtile without rows is carried on by the block that claimed its chunk 0;
- a group's counter is the number of its members that were carried to it, so one block
  queues the group, once (`GroupInv`);
- the queue below its tail is a numbering of the L2 tasks of the queued groups: each
  such task has one place, filled or reserved by one block, and the flag is set for exactly the
  filled ones (`QueueInv`). The tail equals the number of those tasks, hence never passes
  the queue's length;
- a place below the L2 head is held by one block or was counted (`TakeInv`): `L2Done`
  plus the blocks that hold a task is the head. When `L2Done` reaches the number of L2
  tasks, all places were taken, so all tasks are stored or being stored; and a block
  that leaves has no storing waves.

`HeadInv` bounds how far the heads overshoot. Each step then maps to the step of
`MoEDataflow` that adds its piece, or to a stutter (`StepImplements`): that the inputs are complete
is `L1Inv` for a tile seen pulled, `TokenInv` for the quantised subtile and `QueueInv`
for a queue entry; that a piece is new is its single holder.

*FusedMoE.* The invariant `IInv` of `FusedMoE_proof` has three parts.

- `StepInv`: the ranks' calls of the barrier are a function of launch and stage, and
  nobody has left more calls than any other has entered (`RankInv`); no block is two local
  barriers from another (`LocalInv`). So a rank between its first and its second rank
  barrier has all ranks in its launch (`Together`).
- `RouteInv`: the published count is that of the launch (`PublishInv`); the blocks of a
  rank agree whether the counts are equal, and agree with what is true (`UniformInv`);
  the pool is the set of routes that the blocks which are past routing own, under the
  stride they encoded with (`PoolInv`), and the tile metadata decode them under the same
  stride (`RowsInv`, which is where encode and decode must match); a rank keeps its rows
  until its next launch (`KeepInv`).
- `RowInv`: rows pending, counted and about to be counted add up (`CountInv`); all are taken when a
  block leaves the loop (`ExitInv`); a row that is taken is fresh or being stored
  (`FreshInv`), rows of invalid routes are zeroed before the launch works (`InvalidInv`).

`ReduceInLaunch` is the exact complement of the finding `fused_moe_reduce`: at the
reduction a row of this launch was taken by its owner, and if it is not there, a wave of
another rank is storing it at that moment. No rank's own row can be late, because its
blocks have met at a local barrier.

*NvlinkBarrier.* `PcInv` says where the two agents of an SM can be with respect to each
other: the barrier within the SM lets one of them past its part of the kernel only when
the other has come to it. Hence only one agent of SM 0 is ever between a signal and the end of its
wait, and the rounds of a rank follow each other although two agents do them
(`SentInv`). Nothing is ever reset, so the invariant ties each counter to the whole
history:

- A signal word is the number of ranks whose mark it carries (`NvlInv`). Whether rank `r`
  has left its mark in word `p` of rank `q` is a function of how many rounds `r` has signalled to `q`, modulo
  four (`Marks`): one round sets it, the second round after it takes it away. No rank has
  completed more rounds than any peer has signalled to it. So nobody is two
  rounds ahead of anybody, the marks in a word are all of the round that is waited for or of none, and the word
  shows the target exactly when all ranks have signalled.
- A grid counter is the parity of the phases that are closed times the tag, plus
  what the SMs in the open phase have added (`GridInv`, `Counted`). SM 0 adds the tag less the other SMs,
  so the sum reaches the tag with the last SM, in whichever order they come. That takes
  `FinishTag >= NumSMs`. A waiting SM compares the top bit with the one it has drawn; its
  parity is that of the phase it waits in.

`ImplementsPhase` in `MCMegaMoE` is that of another copy of the module, with the variables of the run;
`MCMegaMoE_proof` shows the copies equal, definition by definition, and that a step of the launches
is a stutter of the barriers. Its hypothesis `BarrierSizes` is the assumption `Sizes` there.

*MegaMoE.* Three rounds of signals per launch, and counters that some SMs clear while
others still reduce, keep the launches apart: a rank that has left the last round
may start the next launch and report to a peer that is still in this one. `IInv` says where
everybody is, and for each word of the workspace from which steps it comes:

- `StageInv`: the steps of the warps are numbered so that those of SM 0, which alone reports and
  signals, and of the other SMs have the same numbers. Two SMs of a rank are on the same
  side of each grid sync, the warps of an SM on the same side of each `Meet`.
- `RoundInv`: the rounds of signals a rank has entered and left follow from its launch,
  three per launch, and the steps of its SM 0, and nobody has left what a peer has not entered. So
  nobody is two launches ahead, and a rank between its second and its last round has all ranks in its
  launch (`Working`).
- `TodoInv`, `CountsInv`: how far the loops are, and that the counts which a role has polled are
  those of the launch. A sum that shows `NumSMs * NumRanks` arrivals has heard of
  every rank, once.
- `SendsInv`: the slots that the SMs have drawn for an expert are disjoint intervals without
  gaps, and the index of the owner has a route in each (`SlotInv`, `IndexInv`); a send count is that of the SMs
  that have added to it.
- `HeardInv`: a receive count is that of the ranks that have reported to the expert since it was last cleared. An
  expert that is cleared belongs to the next launch (`Epoch`), whose reports may come
  before its rank has begun that launch.
- `WorksInv`: the pool row of a pulled token holds it, an arrival count is the number of tokens pulled into
  its block, and a mask bit is set only when the L1 output is of this launch and its inputs are whole.
  What of both is not yet clear lies in blocks of experts that are not yet cleared (`DirtyInv`).
- `BacksInv`: for each L2 block that is computed its rows are back at the ranks their tokens
  came from; after the last round these are all routes.

The pool rows of different experts and blocks are disjoint and the token numbers of
an expert are the sources of its slots; these are lemmas about `MegaSchedule`, whose
sums and divisions are reasoned about as functions on numbers. What the iterator
over waves and `PullSource` compute for every input needs an induction over data, so it is
the hypothesis `SchedulesFit`: for all counts up to `MaxReceived`, the SMs'
block sequences partition the blocks of both layers, and an expert's tokens come from
every slot once. TLC evaluates it for the instance of `mega_moe`, and `MegaScheduled`,
which says more, for 972 distributions. The assumptions on the constants are `MegaSizes`, what the kernel's static asserts and the
launch require, and `InputsFit`: a token has the same number of routes as every other, each to an expert or to
none, and `MaxReceived` bounds what an expert receives. The theorem assumes nothing about
how late a role polls the counts.

*StagedBarrier.* The tickets of a group are a multiple of `NumRanks` and those that
follow it. `GroupInv` says that every rank has entered as many calls as there are
complete groups, or one more, and that those with one more are as many as tickets of
the open group are drawn. So the call that draws the last ticket of a group is the last
of the ranks to enter, and the next group opens with every rank in the same position.
This needs `TicketInv` (a ticket belongs to the group of its call) and `ReleaseInv` (no
release is ahead of the complete groups, and nobody has returned ahead of the release).
The statement is `Spec /\ [](arrival >= 0) => ImplementsPhase`: the generation
of a negative ticket is below the last release, so nobody would wait.
The induction is on steps only; the facts about `\div` and `%` are lemmas of
the module.

*StagedMoE.* No step of a call but those of the barrier touches its variables
(`StepBarrier`), so `CallsRefine` follows from the invariant of the barrier. The other
theorems need one invariant for all of the state, `CallInvs`, because a row read by one
rank was computed by a second from the inputs of a third:

- `StepInv` says who can be how far. Ranks in the same call have entered each of the
  two barriers equally often, once what is still to come in the call is added; a rank one call
  ahead has added the calls of that plan entry (`PaceInv`). When a
  rank has finished a call, every peer is past it or at its last places: it has passed the last barrier
  or, with the tail reduce, signalled that rank (`LateInv`, `Late`). So nobody is two calls ahead, and a rank between
  its first barrier and its end has every peer in its call (`Together`).
- `SlotInv`: a tail slot is set only by the signal its owner waits for. A call
  clears its slots before its first barrier, a peer signals after that barrier and once per
  call, so no signal is lost or counted twice.
- `PublishInv`, `UniformInv`: counts and inputs stand from the publication until the next
  call. With `Together` the counts a rank compares are those of its call.
- `RowsInv`, `RoomInv`, `ActInv`: the rows of a rank are routes of its call, as many as there is
  room for, its activations are computed for exactly these rows, and K3's tiles cover
  them. `LaidRows` shows that the rows are the chosen routes, each once; it needs that a
  strict order on a finite set numbers it, which the library does not have.
- `CountInv`, `StoreInv`: the done counter is the number of tiles counted, every counted tile is stored,
  so the wave that sees the last one finds all of the rank's rows stored.
- `FreshInv`, `FusedFreshInv`: what an owner has stored for a rank that is still in the call stands. The next
  call would overwrite it, and by `LateInv` no peer stores for the next call so early.
- `LaunchInv`: nothing has been laid over K3's launch arguments since they were written: no
  other call's arguments, no tile of a fused call.

Three theorems carry hypotheses, each a fact about the inputs or the plan which the code does not
establish and without which the statement is false. `RoutesFit`: in each staged call the
routes to a rank are at most `CapacityTiles * TileM`; `staged_uneven` is a call where they are
not. `FusedFits` and `GraphsAdjoin`: the fused kernel's tile zero stays off the words
that K3 keeps in the shared scratch, and a replay does not come after another
path's call; `staged_switch` breaks `FusedFits`. All three hold in every state of the run
`staged_moe`. `FreshUnlessDropped` names the dropped routes in its own statement and needs
none of them. `NotWrapped` is `arrival >= 0` as for the barrier.

**Only model-checked:** liveness (`NoHang`, `Terminates`, `LaunchesComplete`,
`CallsReturn`), which the provers cannot handle under fairness. The arithmetic of
`GemmScheduler`, `MqaSchedule` and `MegaSchedule`: it is written with recursive operators and folds
over steps of an iterator, about which the provers cannot reason, and the runs evaluate it on data of an
instance. The kernels, whose programs are data of an instance too, so that there is no
single statement about them to prove. Of `MegaMoE`, that all launches end, and what the
schedules compute (`MegaScheduled`).

## 5. What is not modelled

Numbers: MMAC and tensor-core arithmetic, activation, quantisation and bf16 sums
(tests compare them with a reference). Memory order below the level of the code's
acquire/release pairs: each access is atomic and the fences are taken to order what
the surrounding code orders. Statistics of received tokens. Argument checks and the
choice of configurations by the heuristics, except where a run takes its instance
from them (`kgroup_odd`). Byte offsets and alignments of the layouts. The assembly of
the staged path. The 30 s timeout of the NVLink barrier. The JIT cache, whose races
are decided by the atomicity of a rename in the file system. Transposes, fills and
the reference kernels, in which threads do not interact. Every component is listed in
`PROJECT.json` with its status and the reason.

What is abstracted in the kernels is named with each module above. Three of these
abstractions bound what `kernels` shows: the machine is the hardware as the PTX manual
describes it, not as the source does; an instance has at most two warps where the
code has four of the same kind; and rings have one or two stages instead of up to
eight, which is the hardest case for an overrun and leaves out none of the waits.

## 6. Further work

1. `JitCache`: processes that build, rename and load a kernel, with crashes.
2. `ScratchLayout`: the regions of the scratch and symmetric buffers are disjoint
   and within the allocated bytes; `staged_switch` is a case where they are not.
3. The K1 flags and their generations, if the assembly that consumes them is modelled.
4. `SchedulesFit` from the definitions of `MegaSchedule`, by induction over its iterator,
   once a prover can do it: the only hypothesis of `MCMegaMoE_proof!Reads`.

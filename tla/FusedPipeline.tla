---------------------------- MODULE FusedPipeline ----------------------------
(***************************************************************************)
(* The main loop of the fused persistent kernel on one rank                *)
(* (impls/mega_moe_dcu.cuh, scheduler/mega_moe_dcu.cuh): the blocks of the *)
(* grid reset the scratch counters, meet at a barrier, and then each block *)
(* repeats: pull a route tile, take an L1 task, take an L2 task if one is  *)
(* queued, and stop once L2Done says that all L2 tasks were done.  Blocks  *)
(* talk only through atomic counters and flags in the route scratch.       *)
(*                                                                         *)
(* The tile table and the task arithmetic are those of RouteTiles.  An     *)
(* action is what one block does between two of its accesses to shared     *)
(* scratch.  The threads of a block act together (the code has a barrier   *)
(* between each use of a claimed task and the next), except where it does  *)
(* not: the waves that store the combine rows of an L2 task (Store) run    *)
(* beside thread 0, which counts the task and reads L2Done.                *)
(***************************************************************************)
EXTENDS RouteTiles, FiniteSets

CONSTANTS NumBlocks

ASSUME BlocksAssumption == NumBlocks \in Nat \ {0}

(* The launch is one the launcher accepts.                                  *)
ASSUME RouteAssumption == RouteInputs

Blocks == 0 .. NumBlocks - 1

Flag == 0 .. 1

(* The task arithmetic as tables of this launch.                            *)
Decoded == [k \in L1Tasks |-> DecodeL1(k)]

RowsOf == [s \in Subtiles |-> ValidRows(s)]

Group == [s \in Subtiles |-> GroupOf(s)]

Stored == StoringL2Tasks

None == -1

VARIABLES
  pc,                    \* pc[b]: where block b is
  task,                  \* task[b]: the tile, L1 task, subtile or queue index it holds
  base, fill,            \* its reserved queue range, and how much of it is filled
  storing,               \* the L2 task whose rows its waves are still storing
  \* the route scratch
  tile_pull_done, l1_done_counts, l2_group_done_counts, l2_queue, l2_queue_ready,
  PullTileHead, L1TaskHead, L2QueueTail, L2QueueHead, L2Done,
  \* which of the data buffers this launch has written
  xPool, act, actFp8, combine

priv == <<task, base, fill, storing>>
flags == <<tile_pull_done, l1_done_counts, l2_group_done_counts, l2_queue, l2_queue_ready>>
counters == <<PullTileHead, L1TaskHead, L2QueueTail, L2QueueHead, L2Done>>
data == <<xPool, act, actFp8, combine>>
vars == <<pc, priv, flags, counters, data>>

Locations ==
  {"reset", "barrier", "pull", "pullClaim", "copy", "publish", "l1", "l1Claim", "l1Wait",
   "compute", "count", "quant", "group", "reserve", "fill", "ready",
   "l2", "l2Claim", "l2Wait", "l2Count", "stop", "loopSync", "exitSync", "exit"}

Go(b, there) == pc' = [pc EXCEPT ![b] = there]

-----------------------------------------------------------------------------
(* The scratch is allocated with any contents and reused from launch to     *)
(* launch; two contents stand for all, clear and as a full launch left it.  *)
Init ==
  /\ pc = [b \in Blocks |-> "reset"]
  /\ task = [b \in Blocks |-> None]
  /\ base = [b \in Blocks |-> 0]
  /\ fill = [b \in Blocks |-> 0]
  /\ storing = [b \in Blocks |-> None]
  /\ \E old \in Flag :
       /\ tile_pull_done = [t \in Tiles |-> old]
       /\ l1_done_counts = [s \in Subtiles |-> old * NumInterChunks]
       /\ l2_group_done_counts = [s \in Subtiles |-> old]
       /\ l2_queue_ready = [i \in L2Tasks |-> old]
       /\ PullTileHead = old * total_tiles
       /\ L1TaskHead = old * total_l1_tasks
       /\ L2QueueTail = old * total_l2_tasks
       /\ L2QueueHead = old * total_l2_tasks
       /\ L2Done = old * total_l2_tasks
  /\ l2_queue = [i \in L2Tasks |-> 0]
  /\ xPool = {} /\ act = {} /\ actFp8 = {} /\ combine = {}

Zeroed(f, b) == [i \in DOMAIN f |-> IF i % NumBlocks = b THEN 0 ELSE f[i]]

Reset_KeepsReady(b) ==
  /\ pc[b] = "reset"
  /\ tile_pull_done' = Zeroed(tile_pull_done, b)
  /\ l1_done_counts' = Zeroed(l1_done_counts, b)
  /\ l2_group_done_counts' = Zeroed(l2_group_done_counts, b)
  /\ IF b = 0
     THEN PullTileHead' = 0 /\ L1TaskHead' = 0 /\ L2QueueTail' = 0 /\ L2QueueHead' = 0 /\ L2Done' = 0
     ELSE UNCHANGED counters
  /\ Go(b, "barrier")
  /\ UNCHANGED <<priv, l2_queue, l2_queue_ready, data>>

(* Each block zeroes its stride of the flags, block 0 the counters.         *)
Reset(b) ==
  /\ pc[b] = "reset"
  /\ tile_pull_done' = Zeroed(tile_pull_done, b)
  /\ l1_done_counts' = Zeroed(l1_done_counts, b)
  /\ l2_group_done_counts' = Zeroed(l2_group_done_counts, b)
  /\ l2_queue_ready' = Zeroed(l2_queue_ready, b)
  /\ IF b = 0
     THEN PullTileHead' = 0 /\ L1TaskHead' = 0 /\ L2QueueTail' = 0 /\ L2QueueHead' = 0 /\ L2Done' = 0
     ELSE UNCHANGED counters
  /\ Go(b, "barrier")
  /\ UNCHANGED <<priv, l2_queue, data>>

(* mega_moe_local_blocks_barrier: LocalBlocksBarrier shows what it promises. *)
Barrier(b) ==
  /\ pc[b] = "barrier"
  /\ \A c \in Blocks : pc[c] # "reset"
  /\ Go(b, "pull")
  /\ UNCHANGED <<priv, flags, counters, data>>

-----------------------------------------------------------------------------
(* Pull a tile.  A head is loaded before it is advanced, so it stays within *)
(* one claim per block of its limit.                                        *)

PullLoad_Unchecked(b) ==
  /\ pc[b] = "pull"
  /\ Go(b, "pullClaim")
  /\ UNCHANGED <<priv, flags, counters, data>>

PullLoad_OnDemand(b) ==
  /\ pc[b] = "pull"
  /\ Go(b, IF /\ PullTileHead < total_tiles
              /\ PullTileHead * SubtilesPerTile * NumInterChunks <= L1TaskHead
           THEN "pullClaim" ELSE "l1")
  /\ UNCHANGED <<priv, flags, counters, data>>

PullLoad(b) ==
  /\ pc[b] = "pull"
  /\ Go(b, IF PullTileHead < total_tiles THEN "pullClaim" ELSE "l1")
  /\ UNCHANGED <<priv, flags, counters, data>>

PullClaim(b) ==
  /\ pc[b] = "pullClaim"
  /\ PullTileHead' = PullTileHead + 1
  /\ task' = [task EXCEPT ![b] = PullTileHead]
  /\ Go(b, IF PullTileHead < total_tiles THEN "copy" ELSE "l1")
  /\ UNCHANGED <<base, fill, storing, flags, L1TaskHead, L2QueueTail, L2QueueHead, L2Done, data>>

(* pull_one_dcu_route_tile_x_pool                                           *)
Copy(b) ==
  /\ pc[b] = "copy"
  /\ xPool' = xPool \union {task[b]}
  /\ Go(b, "publish")
  /\ UNCHANGED <<priv, flags, counters, act, actFp8, combine>>

Publish(b) ==
  /\ pc[b] = "publish"
  /\ tile_pull_done' = [tile_pull_done EXCEPT ![task[b]] = 1]
  /\ Go(b, "l1")
  /\ UNCHANGED <<priv, l1_done_counts, l2_group_done_counts, l2_queue, l2_queue_ready,
                 counters, data>>

-----------------------------------------------------------------------------
(* Take an L1 task.                                                         *)

L1Load(b) ==
  /\ pc[b] = "l1"
  /\ Go(b, IF L1TaskHead < total_l1_tasks THEN "l1Claim" ELSE "l2")
  /\ UNCHANGED <<priv, flags, counters, data>>

L1Claim(b) ==
  /\ pc[b] = "l1Claim"
  /\ L1TaskHead' = L1TaskHead + 1
  /\ task' = [task EXCEPT ![b] = L1TaskHead]
  /\ Go(b, IF L1TaskHead < total_l1_tasks THEN "l1Wait" ELSE "l2")
  /\ UNCHANGED <<base, fill, storing, flags, PullTileHead, L2QueueTail, L2QueueHead, L2Done, data>>

L1Subtile(b) == Decoded[task[b]].subtile

(* A subtile goes to its group's counter, or straight to the queue.         *)
EnqueueStart == IF L2Schedule = "SubtileMajor" THEN "reserve" ELSE "group"

(* The block spins on tile_pull_done.  A subtile with no rows is counted in *)
(* by its chunk 0 alone, without being computed.                            *)
L1Wait(b) ==
  LET s == L1Subtile(b)
      start == IF RowsOf[s] > 0 THEN "compute"
               ELSE IF Decoded[task[b]].chunk = 0 THEN EnqueueStart ELSE "l2"
  IN  /\ pc[b] = "l1Wait"
      /\ tile_pull_done[TileOf(s)] # 0
      /\ task' = [task EXCEPT ![b] = IF RowsOf[s] > 0 THEN @ ELSE s]
      /\ Go(b, start)
      /\ UNCHANGED <<base, fill, storing, flags, counters, data>>

Compute(b) ==
  /\ pc[b] = "compute"
  /\ act' = act \union {<<L1Subtile(b), Decoded[task[b]].chunk>>}
  /\ task' = [task EXCEPT ![b] = L1Subtile(b)]
  /\ Go(b, "count")
  /\ UNCHANGED <<base, fill, storing, flags, counters, xPool, actFp8, combine>>

Count_Early(b) ==
  LET s == task[b]
  IN  /\ pc[b] = "count"
      /\ l1_done_counts' = [l1_done_counts EXCEPT ![s] = @ + 1]
      /\ Go(b, IF l1_done_counts[s] + 1 = NumInterChunks - 1 THEN "quant" ELSE "l2")
      /\ UNCHANGED <<priv, tile_pull_done, l2_group_done_counts, l2_queue, l2_queue_ready,
                     counters, data>>

(* The block that computes the last chunk of a subtile quantises it.        *)
Count(b) ==
  LET s == task[b]
  IN  /\ pc[b] = "count"
      /\ l1_done_counts' = [l1_done_counts EXCEPT ![s] = @ + 1]
      /\ Go(b, IF l1_done_counts[s] + 1 = NumInterChunks THEN "quant" ELSE "l2")
      /\ UNCHANGED <<priv, tile_pull_done, l2_group_done_counts, l2_queue, l2_queue_ready,
                     counters, data>>

Quant(b) ==
  /\ pc[b] = "quant"
  /\ actFp8' = actFp8 \union {task[b]}
  /\ Go(b, EnqueueStart)
  /\ UNCHANGED <<priv, flags, counters, xPool, act, combine>>

-----------------------------------------------------------------------------
(* dcu_enqueue_l2_ready_for_subtile                                         *)

GroupDone(b) ==
  LET g == Group[task[b]]
  IN  /\ pc[b] = "group"
      /\ l2_group_done_counts' = [l2_group_done_counts EXCEPT ![g.slot] = @ + 1]
      /\ Go(b, IF l2_group_done_counts[g.slot] + 1 = g.size THEN "reserve" ELSE "l2")
      /\ UNCHANGED <<priv, tile_pull_done, l1_done_counts, l2_queue, l2_queue_ready,
                     counters, data>>

Entries(b) == Group[task[b]].size * NumHiddenChunks

(* The tail moves before the entries are written.                           *)
Reserve(b) ==
  /\ pc[b] = "reserve"
  /\ L2QueueTail' = L2QueueTail + Entries(b)
  /\ base' = [base EXCEPT ![b] = L2QueueTail]
  /\ fill' = [fill EXCEPT ![b] = 0]
  /\ Go(b, "fill")
  /\ UNCHANGED <<task, storing, flags, PullTileHead, L1TaskHead, L2QueueHead, L2Done, data>>

Fill(b) ==
  /\ pc[b] = "fill"
  /\ l2_queue' = [l2_queue EXCEPT ![base[b] + fill[b]] = GroupEntry(Group[task[b]], fill[b])]
  /\ Go(b, "ready")
  /\ UNCHANGED <<priv, tile_pull_done, l1_done_counts, l2_group_done_counts, l2_queue_ready,
                 counters, data>>

Ready(b) ==
  /\ pc[b] = "ready"
  /\ l2_queue_ready' = [l2_queue_ready EXCEPT ![base[b] + fill[b]] = 1]
  /\ fill' = [fill EXCEPT ![b] = @ + 1]
  /\ Go(b, IF fill[b] + 1 < Entries(b) THEN "fill" ELSE "l2")
  /\ UNCHANGED <<task, base, storing, tile_pull_done, l1_done_counts, l2_group_done_counts,
                 l2_queue, counters, data>>

-----------------------------------------------------------------------------
(* dcu_run_l2_queue_task_if_ready                                           *)

(* The head is loaded before the tail.  One step: with a head that moved in *)
(* between, the compare-and-swap fails and the loop comes back here.        *)
L2Load(b) ==
  /\ pc[b] = "l2"
  /\ task' = [task EXCEPT ![b] = L2QueueHead]
  /\ Go(b, IF L2QueueHead >= L2QueueTail THEN "stop" ELSE "l2Claim")
  /\ UNCHANGED <<base, fill, storing, flags, counters, data>>

(* atomicCAS(L2QueueHead, head, head + 1)                                   *)
L2Claim(b) ==
  /\ pc[b] = "l2Claim"
  /\ IF L2QueueHead = task[b]
     THEN L2QueueHead' = L2QueueHead + 1 /\ Go(b, "l2Wait")
     ELSE UNCHANGED L2QueueHead /\ Go(b, "l2")
  /\ UNCHANGED <<priv, flags, PullTileHead, L1TaskHead, L2QueueTail, L2Done, data>>

(* The block spins on the entry's ready flag, reads the entry, and computes *)
(* the task if its subtile has rows; its waves then store the rows.         *)
L2Wait(b) ==
  LET k == l2_queue[task[b]]
  IN  /\ pc[b] = "l2Wait"
      /\ l2_queue_ready[task[b]] # 0
      /\ storing' = [storing EXCEPT ![b] = IF k \in Stored THEN k ELSE None]
      /\ Go(b, "l2Count")
      /\ UNCHANGED <<task, base, fill, flags, counters, data>>

(* The last wave's stores: at any time until the block's next barrier.      *)
Store(b) ==
  /\ storing[b] # None
  /\ combine' = combine \union {storing[b]}
  /\ storing' = [storing EXCEPT ![b] = None]
  /\ UNCHANGED <<pc, task, base, fill, flags, counters, xPool, act, actFp8>>

L2Count_WithRows(b) ==
  /\ pc[b] = "l2Count"
  /\ L2Done' = L2Done + (IF l2_queue[task[b]] \in Stored THEN 1 ELSE 0)
  /\ Go(b, "stop")
  /\ UNCHANGED <<priv, flags, PullTileHead, L1TaskHead, L2QueueTail, L2QueueHead, data>>

(* Thread 0 counts the task; no barrier makes it wait for the other waves.  *)
L2Count(b) ==
  /\ pc[b] = "l2Count"
  /\ L2Done' = L2Done + 1
  /\ Go(b, "stop")
  /\ UNCHANGED <<priv, flags, PullTileHead, L1TaskHead, L2QueueTail, L2QueueHead, data>>

-----------------------------------------------------------------------------
(* Thread 0 decides whether to stop, and then the block's threads meet.     *)

StopLoad(b) ==
  /\ pc[b] = "stop"
  /\ Go(b, IF L2Done >= total_l2_tasks THEN "exitSync" ELSE "loopSync")
  /\ UNCHANGED <<priv, flags, counters, data>>

Sync(b) ==
  /\ pc[b] \in {"exitSync", "loopSync"}
  /\ storing[b] = None
  /\ Go(b, IF pc[b] = "exitSync" THEN "exit" ELSE "pull")
  /\ UNCHANGED <<priv, flags, counters, data>>

Step(b) ==
  \/ Reset(b) \/ Barrier(b)
  \/ PullLoad(b) \/ PullClaim(b) \/ Copy(b) \/ Publish(b)
  \/ L1Load(b) \/ L1Claim(b) \/ L1Wait(b) \/ Compute(b) \/ Count(b) \/ Quant(b)
  \/ GroupDone(b) \/ Reserve(b) \/ Fill(b) \/ Ready(b)
  \/ L2Load(b) \/ L2Claim(b) \/ L2Wait(b) \/ L2Count(b)
  \/ StopLoad(b) \/ Sync(b)

Finished == (\A b \in Blocks : pc[b] = "exit") /\ UNCHANGED vars

Next == (\E b \in Blocks : Step(b) \/ Store(b)) \/ Finished

Spec == Init /\ [][Next]_vars

(* Past the barriers every block of the grid is resident, and the hardware  *)
(* schedules the waves of resident blocks.                                  *)
FairSpec == Spec /\ \A b \in Blocks : WF_vars(Step(b)) /\ WF_vars(Store(b))

-----------------------------------------------------------------------------
(* The counters never leave the arrays they index, nor their 32 bits: a     *)
(* head overshoots its limit by less than one claim per block, however long *)
(* blocks keep polling.                                                     *)
TypeOK ==
  /\ pc \in [Blocks -> Locations]
  /\ task \in [Blocks -> Int]
  /\ base \in [Blocks -> 0 .. total_l2_tasks]
  /\ fill \in [Blocks -> 0 .. total_l2_tasks]
  /\ storing \in [Blocks -> {None} \union L2Tasks]
  /\ tile_pull_done \in [Tiles -> Flag]
  /\ l1_done_counts \in [Subtiles -> 0 .. NumInterChunks]
  /\ l2_group_done_counts \in [Subtiles -> Nat]
  /\ l2_queue \in [L2Tasks -> L2Tasks]
  /\ l2_queue_ready \in [L2Tasks -> Flag]
  /\ PullTileHead \in 0 .. total_tiles + NumBlocks - 1
  /\ L1TaskHead \in 0 .. total_l1_tasks + NumBlocks - 1
  /\ L2QueueTail \in 0 .. total_l2_tasks
  /\ L2QueueHead \in 0 .. L2QueueTail
  /\ L2Done \in 0 .. total_l2_tasks
  /\ xPool \subseteq Tiles
  /\ act \subseteq Subtiles \X Chunks
  /\ actFp8 \subseteq Subtiles
  /\ combine \subseteq L2Tasks

(* A block that spins for a tile spins for one that some block has claimed  *)
(* and is copying: the blocks cannot all wait for a tile nobody pulls.      *)
WaitsForClaimedTile ==
  \A b \in Blocks :
    pc[b] = "l1Wait" => TileOf(L1Subtile(b)) < PullTileHead

(* The flags protect the data: whatever the interleaving, and whatever the  *)
(* last launch left in the scratch, the blocks do the work of MoEDataflow,  *)
(* each piece once and from complete inputs.                                *)
Dataflow == INSTANCE MoEDataflow WITH
  Subtiles <- ValidSubtiles, L2Tasks <- Stored, SubtileOf <- SubtileOfL2,
  pulled <- xPool, quantised <- actFp8, combined <- combine

ImplementsDataflow == Dataflow!Spec

(* When the blocks have left the loop every routed row has been combined.   *)
StoredOnExit == (\A b \in Blocks : pc[b] = "exit") => combine = Stored

(* The blocks leave the loop: no claimed tile, L1 task, queue entry or      *)
(* uncounted task is ever waited for without end.                           *)
Terminates == <>(\A b \in Blocks : pc[b] = "exit")
=============================================================================

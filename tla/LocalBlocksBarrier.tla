------------------------- MODULE LocalBlocksBarrier -------------------------
(***************************************************************************)
(* mega_moe_local_blocks_barrier (comm/mega_moe_dcu.cuh): the barrier      *)
(* between the blocks of one persistent grid, by an arrival count and a    *)
(* sense that live in two slots of the rank's signal buffer.  Thread 0 of  *)
(* a block reads the sense, counts the block in, and either spins until    *)
(* the sense changes or, as the last to arrive, takes the grid's arrivals  *)
(* out of the count and changes the sense.  The slots survive from launch  *)
(* to launch; the sense is a 32-bit counter that wraps.                    *)
(*                                                                         *)
(* The kernel is launched as an ordinary grid, so a block runs only once   *)
(* the device has room for it, and keeps its room until the kernel ends.   *)
(***************************************************************************)
EXTENDS Integers, FiniteSets

CONSTANTS
  Blocks,         \* the blocks of the grid
  SenseValues,    \* how many values the sense has (2^32 in the code)
  MaxPhases       \* bound: barrier calls of a block

ASSUME BlocksAssumption ==
  /\ IsFiniteSet(Blocks) /\ Blocks # {}
  /\ SenseValues \in Nat /\ SenseValues >= 2
  /\ MaxPhases \in Nat

VARIABLES
  pc,             \* see Locations
  mySense,        \* mySense[b]: the sense block b read on arrival
  count, sense,   \* signal slots 16 and 17
  room,           \* how many blocks the device holds at once
  entered, left   \* history: calls made and calls returned, by block

vars == <<pc, mySense, count, sense, room, entered, left>>

Locations ==
  {"queued", "outside", "arrive", "spin", "drain", "flip", "retired", "aborted"}

num_blocks == Cardinality(Blocks)

Resident == {b \in Blocks : pc[b] \notin {"queued", "retired"}}

Init ==
  /\ pc = [b \in Blocks |-> "queued"]
  /\ mySense = [b \in Blocks |-> 0]
  /\ count = 0
  /\ sense \in 0 .. SenseValues - 1
  /\ room \in 1 .. num_blocks
  /\ entered = [b \in Blocks |-> 0]
  /\ left = [b \in Blocks |-> 0]

(* The device finds room for a block of the grid.                           *)
Dispatch(b) ==
  /\ pc[b] = "queued"
  /\ Cardinality(Resident) < room
  /\ pc' = [pc EXCEPT ![b] = "outside"]
  /\ UNCHANGED <<mySense, count, sense, room, entered, left>>

(* const int sense = load_signal_system(sense_ptr);                         *)
ReadSense(b) ==
  /\ pc[b] = "outside"
  /\ entered[b] < MaxPhases
  /\ pc' = [pc EXCEPT ![b] = "arrive"]
  /\ mySense' = [mySense EXCEPT ![b] = sense]
  /\ entered' = [entered EXCEPT ![b] = @ + 1]
  /\ UNCHANGED <<count, sense, room, left>>

(* const int old = atomicAdd_system(count, 1);                              *)
Arrive(b) ==
  /\ pc[b] = "arrive"
  /\ count' = count + 1
  /\ pc' = [pc EXCEPT ![b] = IF count = num_blocks - 1 THEN "drain" ELSE "spin"]
  /\ UNCHANGED <<mySense, sense, room, entered, left>>

Drain_KeepsOne(b) ==
  /\ pc[b] = "drain"
  /\ count' = count - (num_blocks - 1)
  /\ pc' = [pc EXCEPT ![b] = "flip"]
  /\ UNCHANGED <<mySense, sense, room, entered, left>>

(* The last block: atomicSub_system(count, num_blocks);                     *)
Drain(b) ==
  /\ pc[b] = "drain"
  /\ count' = count - num_blocks
  /\ pc' = [pc EXCEPT ![b] = "flip"]
  /\ UNCHANGED <<mySense, sense, room, entered, left>>

(* ... and atomicAdd_system(sense, 1); the call returns.                    *)
Flip(b) ==
  /\ pc[b] = "flip"
  /\ sense' = (sense + 1) % SenseValues
  /\ pc' = [pc EXCEPT ![b] = "outside"]
  /\ left' = [left EXCEPT ![b] = @ + 1]
  /\ UNCHANGED <<mySense, count, room, entered>>

SenseChanged_Greater(b) == sense > mySense[b]

SenseChanged(b) == sense # mySense[b]

(* while (load_signal_system(sense_ptr) == sense): another block flipped it. *)
SpinDone(b) ==
  /\ pc[b] = "spin"
  /\ SenseChanged(b)
  /\ pc' = [pc EXCEPT ![b] = "outside"]
  /\ left' = [left EXCEPT ![b] = @ + 1]
  /\ UNCHANGED <<mySense, count, sense, room, entered>>

Timeout_WhenCounting(b) ==
  /\ pc[b] = "spin"
  /\ ~SenseChanged(b)
  /\ count = 0
  /\ pc' = [pc EXCEPT ![b] = "aborted"]
  /\ UNCHANGED <<mySense, count, sense, room, entered, left>>

(* The clock ran out while the sense had not changed: printf and abort().   *)
Timeout(b) ==
  /\ pc[b] = "spin"
  /\ ~SenseChanged(b)
  /\ pc' = [pc EXCEPT ![b] = "aborted"]
  /\ UNCHANGED <<mySense, count, sense, room, entered, left>>

(* The block reaches the end of the kernel.                                 *)
Retire(b) ==
  /\ pc[b] = "outside"
  /\ entered[b] = MaxPhases
  /\ pc' = [pc EXCEPT ![b] = "retired"]
  /\ UNCHANGED <<mySense, count, sense, room, entered, left>>

(* The grid ended, or its process was killed by abort().                    *)
Finished ==
  /\ \A b \in Blocks : pc[b] \in {"retired", "aborted"} \/ (pc[b] = "queued"
                         /\ \E c \in Blocks : pc[c] = "aborted")
  /\ UNCHANGED vars

Step(b) ==
  Dispatch(b) \/ ReadSense(b) \/ Arrive(b) \/ Drain(b) \/ Flip(b) \/ SpinDone(b) \/ Retire(b)

Next == (\E b \in Blocks : Step(b) \/ Timeout(b)) \/ Finished

(* Resident blocks run; the device dispatches a block it has room for; a    *)
(* spinning thread sees its clock advance.                                  *)
Fairness == \A b \in Blocks : WF_vars(Step(b)) /\ WF_vars(Timeout(b))

Spec == Init /\ [][Next]_vars

FairSpec == Spec /\ Fairness

-----------------------------------------------------------------------------
(* The arrivals are exactly the blocks counted in and not yet taken out: in *)
(* every phase the count returns to zero before the sense changes, so the   *)
(* slots are ready for the next phase and for the next launch.              *)
TypeOK ==
  /\ pc \in [Blocks -> Locations]
  /\ mySense \in [Blocks -> 0 .. SenseValues - 1]
  /\ count \in 0 .. num_blocks
  /\ sense \in 0 .. SenseValues - 1
  /\ room \in 1 .. num_blocks
  /\ entered \in [Blocks -> Nat]
  /\ left \in [Blocks -> Nat]
  /\ (\E b \in Blocks : pc[b] = "flip") => count = 0

(* The calls of the blocks line up phase by phase.                          *)
Phase == INSTANCE PhaseBarrier WITH Procs <- Blocks

ImplementsPhase == Phase!Spec

(* Block c has not finished its part of the phase that block b is in.       *)
Behind(c, b) ==
  \/ entered[c] < entered[b]
  \/ entered[c] = entered[b] /\ pc[c] \in {"arrive", "drain", "flip"}

(* The timeout never fires for a phase that the whole grid has passed: with *)
(* blocks ahead of each other and the sense wrapping, a spinning block      *)
(* never misses the change of the sense it waits for.                       *)
AbortsBlamePeer ==
  [][\A b \in Blocks : pc[b] # "aborted" /\ pc'[b] = "aborted"
       => \E c \in Blocks : Behind(c, b)]_vars

(* A grid that does not fit the device cannot pass the barrier.  It does    *)
(* not spin for ever either: some block aborts the process.                 *)
NoHang ==
  <>(\/ \A b \in Blocks : pc[b] = "retired"
     \/ \E b \in Blocks : pc[b] = "aborted")
=============================================================================

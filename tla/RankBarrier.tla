----------------------------- MODULE RankBarrier -----------------------------
(***************************************************************************)
(* mega_moe_rank_barrier (comm/mega_moe_dcu.cuh): the barrier between the  *)
(* GPUs of one expert-parallel group.                                      *)
(*                                                                         *)
(* Every rank owns an array of signed signals in symmetric memory, one per *)
(* peer.  Lane i of rank r's block 0 adds a tag to r's own signal i and    *)
(* then subtracts it from the signal of r at peer i: two atomic operations *)
(* on two GPUs.  The wave spins until none of r's own signals is positive, *)
(* so signal[r][i] > 0 means that r waits for i, and < 0 that i is a phase *)
(* ahead.  The signals are never reset between phases or launches.  A wait *)
(* that exceeds kBarrierTimeoutCycles aborts the process.                  *)
(***************************************************************************)
EXTENDS Integers

CONSTANTS
  Ranks,          \* the ranks of the group
  MayQuit,        \* ranks that may stop calling the barrier (process gone, or
                  \* a launch that took a path with another barrier)
  MaxPhases       \* bound: barrier calls of a rank

ASSUME RanksAssumption == MayQuit \subseteq Ranks /\ MaxPhases \in Nat

VARIABLES
  pc,             \* "outside", "inside", "gone", or "aborted" by the timeout
  signal,         \* signal[r][i]: slot i of rank r's signal buffer
  added,          \* added[r]:  lanes of r past their atomicAdd of this call
  subbed,         \* subbed[r]: lanes of r past their atomicSub of this call
  entered, left   \* history: calls made and calls returned, by rank

vars == <<pc, signal, added, subbed, entered, left>>

kBarrierFinishedTag == 1024

-----------------------------------------------------------------------------
(* What the wave computes from its loads.  Lanes beyond the ranks read 0.   *)

AllSignalled(r) == subbed[r] = Ranks

WaveAllArrived(r) == \A i \in Ranks : signal[r][i] <= 0

Init ==
  /\ pc = [r \in Ranks |-> "outside"]
  /\ signal = [r \in Ranks |-> [i \in Ranks |-> 0]]
  /\ added = [r \in Ranks |-> {}]
  /\ subbed = [r \in Ranks |-> {}]
  /\ entered = [r \in Ranks |-> 0]
  /\ left = [r \in Ranks |-> 0]

(* Block 0 of rank r calls the barrier.                                     *)
Enter(r) ==
  /\ pc[r] = "outside"
  /\ entered[r] < MaxPhases
  /\ pc' = [pc EXCEPT ![r] = "inside"]
  /\ entered' = [entered EXCEPT ![r] = @ + 1]
  /\ UNCHANGED <<signal, added, subbed, left>>

(* Lane i: atomicAdd_system(my_signals + i, tag).                           *)
AddMine(r, i) ==
  /\ pc[r] = "inside"
  /\ i \notin added[r]
  /\ signal' = [signal EXCEPT ![r][i] = @ + kBarrierFinishedTag]
  /\ added' = [added EXCEPT ![r] = @ \union {i}]
  /\ UNCHANGED <<pc, subbed, entered, left>>

SubPeer_WrongSlot(r, i) ==
  /\ pc[r] = "inside"
  /\ i \in added[r] \ subbed[r]
  /\ signal' = [signal EXCEPT ![i][i] = @ - kBarrierFinishedTag]
  /\ subbed' = [subbed EXCEPT ![r] = @ \union {i}]
  /\ UNCHANGED <<pc, added, entered, left>>

(* Lane i: atomicSub_system(peer_signals + rank_idx, tag) on peer i.        *)
SubPeer(r, i) ==
  /\ pc[r] = "inside"
  /\ i \in added[r] \ subbed[r]
  /\ signal' = [signal EXCEPT ![i][r] = @ - kBarrierFinishedTag]
  /\ subbed' = [subbed EXCEPT ![r] = @ \union {i}]
  /\ UNCHANGED <<pc, added, entered, left>>

Leave_SomeArrived(r) ==
  /\ pc[r] = "inside"
  /\ AllSignalled(r)
  /\ \E i \in Ranks : signal[r][i] <= 0
  /\ pc' = [pc EXCEPT ![r] = "outside"]
  /\ added' = [added EXCEPT ![r] = {}]
  /\ subbed' = [subbed EXCEPT ![r] = {}]
  /\ left' = [left EXCEPT ![r] = @ + 1]
  /\ UNCHANGED <<signal, entered>>

(* wave_all_sync saw no positive signal: the call returns.  The loads of    *)
(* the lanes are one step: a signal that is not positive stays so until r   *)
(* calls again, so loads at different times give no other outcome.          *)
Leave(r) ==
  /\ pc[r] = "inside"
  /\ AllSignalled(r)
  /\ WaveAllArrived(r)
  /\ pc' = [pc EXCEPT ![r] = "outside"]
  /\ added' = [added EXCEPT ![r] = {}]
  /\ subbed' = [subbed EXCEPT ![r] = {}]
  /\ left' = [left EXCEPT ![r] = @ + 1]
  /\ UNCHANGED <<signal, entered>>

Timeout_OwnLane(r) ==
  /\ pc[r] = "inside"
  /\ AllSignalled(r)
  /\ signal[r][r] > 0
  /\ pc' = [pc EXCEPT ![r] = "aborted"]
  /\ UNCHANGED <<signal, added, subbed, entered, left>>

(* The clock ran out while some signal was positive: printf and abort().    *)
Timeout(r) ==
  /\ pc[r] = "inside"
  /\ AllSignalled(r)
  /\ ~WaveAllArrived(r)
  /\ pc' = [pc EXCEPT ![r] = "aborted"]
  /\ UNCHANGED <<signal, added, subbed, entered, left>>

(* Environment: a rank stops taking part, between two calls.                *)
Quit(r) ==
  /\ r \in MayQuit
  /\ pc[r] = "outside"
  /\ pc' = [pc EXCEPT ![r] = "gone"]
  /\ UNCHANGED <<signal, added, subbed, entered, left>>

(* Every rank made its last call, or is out of the game.                    *)
Finished ==
  /\ \A r \in Ranks : \/ pc[r] \in {"gone", "aborted"}
                      \/ pc[r] = "outside" /\ entered[r] = MaxPhases
  /\ UNCHANGED vars

Step(r) ==
  \/ Enter(r)
  \/ \E i \in Ranks : AddMine(r, i) \/ SubPeer(r, i)
  \/ Leave(r)

Next == (\E r \in Ranks : Step(r) \/ Timeout(r) \/ Quit(r)) \/ Finished

(* The hardware runs every resident wave: a rank that can take a step of    *)
(* its own program eventually does, and a spinning wave sees its clock      *)
(* advance past the timeout.                                                *)
Fairness == \A r \in Ranks : WF_vars(Step(r)) /\ WF_vars(Timeout(r))

Spec == Init /\ [][Next]_vars

FairSpec == Spec /\ Fairness

-----------------------------------------------------------------------------
(* Every signal is one tag away from zero at most, whatever the number of   *)
(* phases: the 32-bit slots, never reset, cannot drift.                     *)
TypeOK ==
  /\ pc \in [Ranks -> {"outside", "inside", "gone", "aborted"}]
  /\ signal \in [Ranks -> [Ranks -> {-kBarrierFinishedTag, 0, kBarrierFinishedTag}]]
  /\ added \in [Ranks -> SUBSET Ranks]
  /\ subbed \in [Ranks -> SUBSET Ranks]
  /\ entered \in [Ranks -> Nat]
  /\ left \in [Ranks -> Nat]

(* The calls of the ranks line up phase by phase.                           *)
Phase == INSTANCE PhaseBarrier WITH Procs <- Ranks

ImplementsPhase == Phase!Spec

(* Rank q has not yet answered the call rank r is in.                       *)
Behind(q, r) ==
  \/ entered[q] < entered[r]
  \/ entered[q] = entered[r] /\ pc[q] = "inside" /\ r \notin subbed[q]

(* The timeout never fires for a phase that everybody has reached: signals  *)
(* left over from an earlier phase, or of an earlier launch, cannot make a  *)
(* rank wait for a peer that has already answered it.                       *)
AbortsBlamePeer ==
  [][\A r \in Ranks : pc[r] # "aborted" /\ pc'[r] = "aborted"
       => \E q \in Ranks : Behind(q, r)]_vars

(* A rank whose peers never arrive does not spin for ever: each call either *)
(* returns or aborts the process.                                           *)
NoHang ==
  \A r \in Ranks : pc[r] = "inside" ~> pc[r] \in {"outside", "aborted"}
=============================================================================

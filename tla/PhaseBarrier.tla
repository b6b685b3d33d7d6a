---------------------------- MODULE PhaseBarrier ----------------------------
(***************************************************************************)
(* What every barrier of the repository promises: a process leaves its     *)
(* k-th phase only after every process has entered its own k-th phase.     *)
(* mega_moe_rank_barrier (RankBarrier) and mega_moe_local_blocks_barrier   *)
(* (LocalBlocksBarrier) are shown to implement it, and the modules that    *)
(* compose the kernel (FusedMoE) use it in their place.                    *)
(***************************************************************************)
EXTENDS Naturals

CONSTANT Procs       \* the participants: ranks, or the blocks of one grid

VARIABLES
  entered,           \* entered[p]: how many phases p has entered
  left               \* left[p]:    how many phases p has left

vars == <<entered, left>>

Init ==
  /\ entered = [p \in Procs |-> 0]
  /\ left = [p \in Procs |-> 0]

Enter(p) ==
  /\ entered[p] = left[p]
  /\ entered' = [entered EXCEPT ![p] = @ + 1]
  /\ UNCHANGED left

Leave(p) ==
  /\ left[p] < entered[p]
  /\ \A q \in Procs : entered[p] <= entered[q]
  /\ left' = [left EXCEPT ![p] = @ + 1]
  /\ UNCHANGED entered

Next == \E p \in Procs : Enter(p) \/ Leave(p)

Spec == Init /\ [][Next]_vars

-----------------------------------------------------------------------------

TypeOK ==
  /\ entered \in [Procs -> Nat]
  /\ left \in [Procs -> Nat]

(* A phase is closed by everybody or by nobody: whoever left phase k did so *)
(* after every process had entered it.                                      *)
NoEarlyLeave == \A p, q \in Procs : left[p] <= entered[q]
=============================================================================

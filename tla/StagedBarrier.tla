---------------------------- MODULE StagedBarrier ----------------------------
(***************************************************************************)
(* The barrier of the staged path (rank_barrier_kernel of                  *)
(* K3_fused/k3_fused_ext.cu): every rank takes a ticket from a counter in  *)
(* rank 0's signals, the last ticket of a group of num_ranks releases the  *)
(* group's generation in a second word, and the others spin until the      *)
(* release reaches it.  Both words are 32-bit ints that nobody resets.     *)
(***************************************************************************)
EXTENDS Integers

CONSTANTS
  NumRanks,
  IntHalf    \* 2^31 of an int; smaller in runs

ASSUME NumRanksAssumption == NumRanks \in Nat \ {0}

ASSUME IntHalfAssumption == IntHalf \in Nat \ {0}

Ranks == 0 .. NumRanks - 1

VARIABLES
  at,                \* at[r]: "outside", or "inside" with a ticket taken
  ticket,            \* ticket[r]: barrier_ticket of r's call
  arrival, release,  \* kStagedBarrierArrivalSlot, kStagedBarrierReleaseSlot
  entered, left      \* history: calls made and calls returned, by rank

barrier == <<at, ticket, arrival, release, entered, left>>

IntRange == 2 * IntHalf

(* The int that a counter has after x increments.                           *)
AsInt(x) == IF x % IntRange < IntHalf THEN x % IntRange ELSE (x % IntRange) - IntRange

(* C's / and %, which truncate: \div and % of TLA+ round down.              *)
Quotient(a) == IF a >= 0 THEN a \div NumRanks ELSE -((-a) \div NumRanks)
Remainder(a) == a - Quotient(a) * NumRanks

Generation(r) == Quotient(ticket[r]) + 1

BarrierInit ==
  /\ at = [r \in Ranks |-> "outside"]
  /\ ticket = [r \in Ranks |-> 0]
  /\ arrival = 0
  /\ release = 0
  /\ entered = [r \in Ranks |-> 0]
  /\ left = [r \in Ranks |-> 0]

(* atomicAdd_system(barrier_signals + kStagedBarrierArrivalSlot, 1)         *)
Draw(r) ==
  /\ at[r] = "outside"
  /\ ticket' = [ticket EXCEPT ![r] = arrival]
  /\ arrival' = AsInt(arrival + 1)
  /\ at' = [at EXCEPT ![r] = "inside"]
  /\ entered' = [entered EXCEPT ![r] = @ + 1]
  /\ UNCHANGED <<release, left>>

IsLast(r) == Remainder(ticket[r]) = NumRanks - 1

(* The last of the group releases it and goes on.                          *)
Release(r) ==
  /\ at[r] = "inside"
  /\ IsLast(r)
  /\ release' = Generation(r)
  /\ at' = [at EXCEPT ![r] = "outside"]
  /\ left' = [left EXCEPT ![r] = @ + 1]
  /\ UNCHANGED <<ticket, arrival, entered>>

Pass_AnyRelease(r) ==
  /\ at[r] = "inside"
  /\ ~IsLast(r)
  /\ release >= Generation(r) - 1
  /\ at' = [at EXCEPT ![r] = "outside"]
  /\ left' = [left EXCEPT ![r] = @ + 1]
  /\ UNCHANGED <<ticket, arrival, release, entered>>

(* The others spin until the release has reached their generation.         *)
Pass(r) ==
  /\ at[r] = "inside"
  /\ ~IsLast(r)
  /\ release >= Generation(r)
  /\ at' = [at EXCEPT ![r] = "outside"]
  /\ left' = [left EXCEPT ![r] = @ + 1]
  /\ UNCHANGED <<ticket, arrival, release, entered>>

(* The barrier alone, called again and again by every rank.                 *)
CallBarrier(r) == Draw(r) \/ Release(r) \/ Pass(r)

BarrierNext == \E r \in Ranks : CallBarrier(r)

BarrierSpec == BarrierInit /\ [][BarrierNext]_barrier

-----------------------------------------------------------------------------
Phase == INSTANCE PhaseBarrier WITH Procs <- Ranks

(* Until the ticket counter overflows: whoever leaves its k-th call does so *)
(* after every rank has entered its own k-th call.                          *)
ImplementsPhase == Phase!Spec
=============================================================================

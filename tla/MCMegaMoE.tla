----------------------------- MODULE MCMegaMoE -----------------------------
(***************************************************************************)
(* Two launches of the mega MoE kernel on two ranks: with its barriers as  *)
(* the code implements them and nothing else, or with everything else and  *)
(* the barriers abstract.  And its schedules for many distributions.       *)
(***************************************************************************)
EXTENDS MegaMoE

CONSTANTS FinishTag, Launches     \* of NvlinkBarrier
VARIABLES part,                   \* which of the two: "barriers" or "launches"
          nvLaunch, nvPc, nvSent, nvGrid, nvDrawn, nvRounds, nvSignal,  \* of NvlinkBarrier
          gridCalls, gridReturns, nvlCalls, nvlReturns

B == INSTANCE NvlinkBarrier WITH
       launch <- nvLaunch, pc <- nvPc, sent <- nvSent, grid <- nvGrid,
       drawn <- nvDrawn, rounds <- nvRounds, signal <- nvSignal

barriers == <<nvLaunch, nvPc, nvSent, nvGrid, nvDrawn, nvRounds, nvSignal,
              gridCalls, gridReturns, nvlCalls, nvlReturns>>
both == <<part, vars, barriers>>

MCInit == part \in {"barriers", "launches"} /\ Init /\ B!Init
MCNext == \/ part = "barriers" /\ B!Next /\ UNCHANGED <<part, vars>>
          \/ part = "launches" /\ Next /\ UNCHANGED <<part, barriers>>
MCSpec == MCInit /\ [][MCNext]_both /\ WF_both(MCNext)

ASSUME Sizes == B!BarrierSizes

\* What every launch needs of the schedules: whatever the experts receive, the SMs
\* compute all blocks, and the slots of an expert are all its tokens.
SchedulesFit ==
  /\ \A n \in [LocalExperts -> 0 .. MaxReceived] :
       /\ PartitionsBlocks(Instance(n))
       /\ \A s \in SMs :
            BlocksOf(Instance(n), s) \in Seq([phase : {1, 2}, expert : Nat, m : Nat, n : Nat])
  /\ \A n \in [Ranks -> 0 .. MaxReceived] : SourcesDistinct(n)
ASSUME SchedulesChecked == SchedulesFit

\* The signals over NVLink and both grid_syncs of every rank are barriers.
ImplementsPhase == B!ImplementsPhase
\* Unless the cleaning overtakes a role without work at its first read of the counts
\* (scheduler/mega_moe.cuh:191), every launch ends on every rank, although SMs wait for
\* tokens, for blocks of other SMs, and ranks for ranks that may already be in the next
\* launch; and nobody is left at a barrier, launch after launch.
LaunchesComplete ==
  <>(IF part = "launches" THEN Finished \/ (\E a \in Agents : Overtaken(a)) ELSE B!Finished)

\* Launch 1: rank 0 has a token for both ranks, rank 1 none.  Launch 2: both have a
\* token for rank 0, one route is not used, and rank 1 receives nothing.
TwoLaunches ==
  << [r \in Ranks |-> IF r = 0 THEN << <<0, 1>> >> ELSE <<>>],
     [r \in Ranks |-> IF r = 0 THEN << <<-1, 0>> >> ELSE << <<0, -1>> >>] >>

AtStart == part = "launches" /\ \A a \in Agents : pc[a] = 1 /\ \A r \in Ranks : launch[r] = 1

Spread(n, wave, l1n, l2n, sms) ==
  [experts |-> 4, wave |-> wave, tokens |-> n, bm |-> 2, l1n |-> l1n, l2n |-> l2n, sms |-> sms]
Spreads ==
  {Spread(n, wave, l1n, l2n, sms) : n \in [0 .. 3 -> {0, 1, 4}], wave \in {1, 2, 4},
                                    l1n \in {2, 4}, l2n \in {2}, sms \in {2, 6}}

\* Each SM, by its own arithmetic from the same counts: the blocks of both layers are
\* divided among the SMs, the SMs of a cluster stay together, no layer is waited for
\* before it is computed; and tokens and rows of the pool correspond.
MegaScheduled ==
  AtStart =>
    /\ \A c \in Spreads :
         /\ PartitionsBlocks(c) /\ ClustersAgree(c) /\ LayersInOrder(c) /\ RowsDistinct(c)
         /\ PoolFits(c, 2, 4, 2)
    /\ \A perRank \in [0 .. 3 -> {0, 1, 2, 5}] : SourcesDistinct(perRank)
=============================================================================

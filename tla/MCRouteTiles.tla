---------------------------- MODULE MCRouteTiles ----------------------------
(***************************************************************************)
(* RouteTiles evaluated over every small input: each state is one input,   *)
(* a schedule and the rows routed to each of the rank's experts.           *)
(***************************************************************************)
EXTENDS Integers

CONSTANTS
  MaxRows,       \* bound: rows of an expert
  MaxChunks,     \* bound: intermediate chunks
  MaxGroup       \* bound: window and group limit

VARIABLE input

Inputs ==
  [counts : [0 .. 1 -> 0 .. MaxRows], chunks : 1 .. MaxChunks,
   l1 : {"TileMajor", "ChunkMajor", "ExpertChunkMajor", "ExpertWindowChunkMajor"},
   l2 : {"SubtileMajor", "ExpertHiddenMajor"}, limit : 0 .. MaxGroup]

(* As many route tasks as rows routed to this rank is the fewest there can be, *)
(* and the smallest capacity the launcher computes.                            *)
R == INSTANCE RouteTiles WITH
  NumExperts <- 2, ExpertCounts <- input.counts, TasksPerExpert <- MaxRows,
  RouteTasks <- input.counts[0] + input.counts[1], RouteTileM <- 4, MtileM <- 2,
  NumInterChunks <- input.chunks, NumHiddenChunks <- 2,
  L1Schedule <- input.l1, WindowMtiles <- input.limit + 1,
  L2Schedule <- input.l2, GroupSubtiles <- input.limit

Init == input \in Inputs

Next == UNCHANGED input

Spec == Init /\ [][Next]_input

-----------------------------------------------------------------------------
(* The properties of RouteTiles, of every input: schedules reorder the L1   *)
(* tasks, tiles are claimed ahead of them, tiles hold every routed row, and *)
(* groups split the L2 tasks.                                               *)
L1Bijective == R!L1Bijective

(* The wait for a pulled tile is a wait for a tile that has been claimed.   *)
PullCoversL1 == R!PullCoversL1

(* No routed row is dropped by the tile table or computed twice.            *)
TilesCoverRows == R!TilesCoverRows

(* Each L2 task is queued once, with the group of its subtile.              *)
GroupsPartition == R!GroupsPartition
=============================================================================

----------------------------- MODULE RouteTiles -----------------------------
(***************************************************************************)
(* The task arithmetic of the fused kernel (impls/mega_moe_dcu.cuh): how   *)
(* block 0 cuts the routed rows of each local expert into route tiles, how *)
(* a linear L1 task id is decoded into a subtile and an intermediate       *)
(* chunk under each schedule, and how subtiles are grouped for the L2      *)
(* queue.  Everything is a function of the rows routed to each expert.     *)
(*                                                                         *)
(* A tile holds RouteTileM rows of one expert and is computed in subtiles  *)
(* of MtileM rows.  Tiles, subtiles and tasks are numbered from 0.         *)
(***************************************************************************)
EXTENDS Integers, FiniteSets

CONSTANTS
  NumExperts,        \* experts of this rank
  ExpertCounts,      \* ExpertCounts[e]: rows routed to local expert e
  TasksPerExpert,    \* max_tasks_per_expert, the capacity of an expert's pool
  RouteTasks,        \* R * max_tokens * topk of the launch: at least the rows routed
  RouteTileM, MtileM,
  NumInterChunks, NumHiddenChunks,
  L1Schedule,        \* "TileMajor", "ChunkMajor", "ExpertChunkMajor" or
                     \* "ExpertWindowChunkMajor"
  WindowMtiles,      \* window of the last of these
  L2Schedule,        \* "SubtileMajor" or "ExpertHiddenMajor"
  GroupSubtiles      \* group limit of the latter; 0 groups a whole expert

Least(a, b) == IF a <= b THEN a ELSE b

CeilDiv(a, b) == (a + b - 1) \div b

Experts == 0 .. NumExperts - 1

(* What a launch can be given: the lengths and limits are positive (the     *)
(* schedules assert theirs), and a route tile is a power of two of rows no  *)
(* less than the 16 of a subtile.                                           *)
RouteInputs ==
  /\ NumExperts \in Nat
  /\ ExpertCounts \in [Experts -> Nat]
  /\ TasksPerExpert \in Nat
  /\ RouteTasks \in Nat
  /\ MtileM \in Nat \ {0}
  /\ RouteTileM \in Nat \ {0}
  /\ RouteTileM % MtileM = 0
  /\ NumInterChunks \in Nat \ {0}
  /\ NumHiddenChunks \in Nat \ {0}
  /\ L1Schedule \in {"TileMajor", "ChunkMajor", "ExpertChunkMajor", "ExpertWindowChunkMajor"}
  /\ WindowMtiles \in Nat \ {0}
  /\ L2Schedule \in {"SubtileMajor", "ExpertHiddenMajor"}
  /\ GroupSubtiles \in Nat

-----------------------------------------------------------------------------
(* The tile table, built by thread 0 of block 0.                            *)

RouteScratchTiles_Floor == RouteTasks \div RouteTileM

(* route_scratch_tiles: the capacity the launcher gives the tile table.     *)
RouteScratchTiles == NumExperts + CeilDiv(RouteTasks, RouteTileM)

PooledRows(e) == Least(ExpertCounts[e], TasksPerExpert)

(* total_tiles after the first e experts: tiles beyond the capacity of the  *)
(* table are not recorded.                                                  *)
TileStart[e \in 0 .. NumExperts] ==
  IF e = 0 THEN 0
  ELSE Least(RouteScratchTiles, TileStart[e - 1] + CeilDiv(PooledRows(e - 1), RouteTileM))

total_tiles == TileStart[NumExperts]

Tiles == 0 .. total_tiles - 1

TileExpert(t) == CHOOSE e \in Experts : TileStart[e] <= t /\ t < TileStart[e + 1]

TilePoolBase(t) == (t - TileStart[TileExpert(t)]) * RouteTileM

TileCount(t) == Least(RouteTileM, PooledRows(TileExpert(t)) - TilePoolBase(t))

SubtilesPerTile == RouteTileM \div MtileM

total_subtiles == total_tiles * SubtilesPerTile

Subtiles == 0 .. total_subtiles - 1

Chunks == 0 .. NumInterChunks - 1

TileOf(s) == s \div SubtilesPerTile

(* dcu_route_subtile_valid_rows                                             *)
ValidRows(s) ==
  LET remaining == TileCount(TileOf(s)) - (s % SubtilesPerTile) * MtileM
  IN  IF remaining <= 0 THEN 0 ELSE Least(remaining, MtileM)

ValidSubtiles == {s \in Subtiles : ValidRows(s) > 0}

(* The place in its expert's pool of row r of subtile s.                    *)
PoolRow(s, r) == TilePoolBase(TileOf(s)) + (s % SubtilesPerTile) * MtileM + r

(* The rows of the first e experts.  The launch sizes its scratch for every *)
(* route there can be, so all of them fit.                                  *)
RowsBefore[e \in 0 .. NumExperts] ==
  IF e = 0 THEN 0 ELSE RowsBefore[e - 1] + PooledRows(e - 1)

RowsFit == RowsBefore[NumExperts] <= RouteTasks

-----------------------------------------------------------------------------
(* L1 tasks: one per subtile and intermediate chunk.                        *)

total_l1_tasks == total_subtiles * NumInterChunks

L1Tasks == 0 .. total_l1_tasks - 1

(* expert_l1_task_offsets                                                   *)
L1Offset(e) == TileStart[e] * SubtilesPerTile * NumInterChunks

(* The decoding loop leaves at the first expert whose tasks end after k.    *)
ExpertOfL1Task(k) ==
  CHOOSE e \in Experts : k < L1Offset(e + 1) /\ \A d \in 0 .. e - 1 : k >= L1Offset(d + 1)

SubtileBegin_NextExpert(e) == L1Offset(e + 1) \div NumInterChunks

SubtileBegin(e) == L1Offset(e) \div NumInterChunks

ExpertSubtiles(e) == (L1Offset(e + 1) - L1Offset(e)) \div NumInterChunks

DecodeTileMajor(k) == [subtile |-> k \div NumInterChunks, chunk |-> k % NumInterChunks]

DecodeChunkMajor(k) == [subtile |-> k % total_subtiles, chunk |-> k \div total_subtiles]

DecodeExpertChunkMajor(k) ==
  LET e == ExpertOfL1Task(k)
      local == k - L1Offset(e)
  IN  [subtile |-> SubtileBegin(e) + (local % ExpertSubtiles(e)),
       chunk   |-> local \div ExpertSubtiles(e)]

DecodeExpertWindowChunkMajor_FullWindow(k) ==
  LET e == ExpertOfL1Task(k)
      local == k - L1Offset(e)
      window == local \div (WindowMtiles * NumInterChunks)
      start == window * WindowMtiles
      task == local - window * WindowMtiles * NumInterChunks
  IN  [subtile |-> SubtileBegin(e) + start + (task % WindowMtiles),
       chunk   |-> task \div WindowMtiles]

(* The last window of an expert may hold fewer subtiles.                    *)
DecodeExpertWindowChunkMajor(k) ==
  LET e == ExpertOfL1Task(k)
      local == k - L1Offset(e)
      window == local \div (WindowMtiles * NumInterChunks)
      start == window * WindowMtiles
      width == Least(WindowMtiles, ExpertSubtiles(e) - start)
      task == local - window * WindowMtiles * NumInterChunks
  IN  [subtile |-> SubtileBegin(e) + start + (task % width),
       chunk   |-> task \div width]

(* dcu_decode_l1_task                                                       *)
DecodeL1(k) ==
  CASE L1Schedule = "TileMajor" -> DecodeTileMajor(k)
    [] L1Schedule = "ChunkMajor" -> DecodeChunkMajor(k)
    [] L1Schedule = "ExpertChunkMajor" -> DecodeExpertChunkMajor(k)
    [] L1Schedule = "ExpertWindowChunkMajor" -> DecodeExpertWindowChunkMajor(k)

-----------------------------------------------------------------------------
(* L2 tasks: one per subtile and hidden chunk, queued a group at a time.    *)

total_l2_tasks == total_subtiles * NumHiddenChunks

L2Tasks == 0 .. total_l2_tasks - 1

SubtileOfL2(k) == k \div NumHiddenChunks

(* The L2 tasks that write combine rows.                                    *)
StoringL2Tasks == {k \in L2Tasks : SubtileOfL2(k) \in ValidSubtiles}

GroupOf_FullSize(s) ==
  LET e == TileExpert(TileOf(s))
      limit == IF GroupSubtiles > 0 THEN GroupSubtiles ELSE ExpertSubtiles(e)
      group == (s - SubtileBegin(e)) \div limit
  IN  IF L2Schedule = "SubtileMajor" THEN [begin |-> s, size |-> 1, slot |-> s]
      ELSE [begin |-> SubtileBegin(e) + group * limit, size |-> limit,
            slot  |-> SubtileBegin(e) + group]

(* The group of a subtile: its first subtile, its size, and the slot of its *)
(* counter of quantised members (l2_group_done_counts, or, for a whole      *)
(* expert, expert_quant_done_counts; a subtile on its own needs none).      *)
GroupOf(s) ==
  LET e == TileExpert(TileOf(s))
      limit == IF GroupSubtiles > 0 THEN GroupSubtiles ELSE ExpertSubtiles(e)
      group == (s - SubtileBegin(e)) \div limit
      begin == group * limit
  IN  IF L2Schedule = "SubtileMajor" THEN [begin |-> s, size |-> 1, slot |-> s]
      ELSE [begin |-> SubtileBegin(e) + begin,
            size  |-> Least(limit, ExpertSubtiles(e) - begin),
            slot  |-> SubtileBegin(e) + group]

(* The i-th queue entry of a group: hidden chunks outermost.                *)
GroupEntry(g, i) == (g.begin + (i % g.size)) * NumHiddenChunks + (i \div g.size)

-----------------------------------------------------------------------------
(* Every schedule is a reordering of the same work: the linear task ids     *)
(* that the L1 head hands out decode to every subtile and chunk, each once. *)
L1Bijective ==
  /\ {DecodeL1(k) : k \in L1Tasks} = [subtile : Subtiles, chunk : Chunks]
  /\ Cardinality(L1Tasks) = Cardinality(Subtiles) * Cardinality(Chunks)

(* Task k waits for a tile not beyond tile k.  A block claims a tile before *)
(* it claims an L1 task, so when task k is claimed tile k has been claimed, *)
(* and the wait for tile_pull_done is a wait for a copy already under way.  *)
PullCoversL1 == \A k \in L1Tasks : TileOf(DecodeL1(k).subtile) <= k

(* The launcher's capacity never drops a tile, and the valid rows of an     *)
(* expert's subtiles are the rows of its pool: none is lost or computed     *)
(* twice.                                                                   *)
TilesCoverRows ==
  \A e \in Experts :
    LET mine == {s \in Subtiles : TileExpert(TileOf(s)) = e}
        rows == UNION {{<<s, r>> : r \in 0 .. ValidRows(s) - 1} : s \in mine}
    IN  /\ {PoolRow(x[1], x[2]) : x \in rows} = 0 .. PooledRows(e) - 1
        /\ \A x, y \in rows : PoolRow(x[1], x[2]) = PoolRow(y[1], y[2]) => x = y

GroupMembers(g) == g.begin .. g.begin + g.size - 1

GroupEntries(g) == {GroupEntry(g, i) : i \in 0 .. g.size * NumHiddenChunks - 1}

(* Two subtiles count in the same slot exactly when they are in the same    *)
(* group; the last member of a group makes its counter equal to the size;   *)
(* and the entries of all groups are the L2 tasks, each once, so the queue  *)
(* fills exactly and L2Done can reach total_l2_tasks.                       *)
GroupsPartition ==
  LET groups == {GroupOf(s) : s \in Subtiles}
  IN  /\ \A s \in Subtiles : {t \in Subtiles : GroupOf(t).slot = GroupOf(s).slot}
                               = GroupMembers(GroupOf(s))
      /\ \A g \in groups : g.slot \in Subtiles
      /\ UNION {GroupEntries(g) : g \in groups} = L2Tasks
      /\ \A g \in groups : Cardinality(GroupEntries(g)) = g.size * NumHiddenChunks
=============================================================================

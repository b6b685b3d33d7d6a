------------------------- MODULE FusedPipeline_proof -------------------------
(***************************************************************************)
(* Blocks of the fused kernel wait only for tiles that some block has      *)
(* claimed, for every number of blocks, every routing and every schedule.  *)
(*                                                                         *)
(* The argument.  A block attempts a pull before each L1 claim.  So either *)
(* the pull head has passed the last tile, or it is ahead of the L1 head   *)
(* by at least the blocks that have claimed a tile and not yet tried for   *)
(* an L1 task (Early).  The L1 task that a block claims is then below the  *)
(* pull head, and its tile is no later than the task.                      *)
(***************************************************************************)
EXTENDS FusedPipeline, RouteTiles_proof

EarlyLocations == {"copy", "publish", "l1", "l1Claim"}

Early == {b \in Blocks : pc[b] \in EarlyLocations}

Shape ==
  /\ pc \in [Blocks -> Locations]
  /\ task = [b \in Blocks |-> task[b]]
  /\ PullTileHead \in Nat
  /\ L1TaskHead \in Nat

(* Nobody passes the barrier before everybody has reset its share.          *)
ResetFirst ==
  \A b, c \in Blocks : pc[b] = "reset" => pc[c] \in {"reset", "barrier"}

PullAhead ==
  \/ pc[0] = "reset"
  \/ total_tiles <= PullTileHead
  \/ L1TaskHead + Cardinality(Early) <= PullTileHead

WaitInv ==
  \A b \in Blocks :
    pc[b] = "l1Wait" =>
      TileOf(L1Subtile(b)) \in Nat /\ TileOf(L1Subtile(b)) < PullTileHead

IInv == Shape /\ ResetFirst /\ PullAhead /\ WaitInv

(* What the protocol needs of the task arithmetic.                          *)
LEMMA TasksFacts ==
  /\ total_tiles \in Nat /\ total_subtiles \in Nat
  /\ total_l1_tasks \in Nat /\ total_l2_tasks \in Nat
  /\ NumInterChunks \in Nat \ {0} /\ NumHiddenChunks \in Nat \ {0}
  /\ \A k \in L1Tasks : /\ DecodeL1(k).subtile \in Subtiles
                        /\ TileOf(DecodeL1(k).subtile) \in 0 .. k
                        /\ TileOf(DecodeL1(k).subtile) \in Tiles
  <1>1. ASSUME NEW k \in L1Tasks
        PROVE  DecodeL1(k).subtile \in Subtiles
    BY <1>1, RouteAssumption, L1Codec DEF Pieces
  <1>2. ASSUME NEW s \in Subtiles
        PROVE  TileOf(s) \in Tiles
    <2>1. s \in Nat /\ s < total_tiles * SubtilesPerTile
      BY RouteAssumption, Totals DEF Subtiles, total_subtiles
    <2>2. s \div SubtilesPerTile \in 0 .. total_tiles - 1
      BY <2>1, RouteAssumption, Totals, UnpackPair
    <2> QED BY <2>2 DEF TileOf, Tiles
  <1>3. ASSUME NEW k \in L1Tasks
        PROVE  TileOf(DecodeL1(k).subtile) \in 0 .. k
    <2>1. TileOf(DecodeL1(k).subtile) \in Tiles
      BY <1>1, <1>2
    <2>2. k \in Nat /\ total_tiles \in Nat
      BY RouteAssumption, Totals DEF L1Tasks
    <2>3. TileOf(DecodeL1(k).subtile) <= k
      BY RouteAssumption, PullsCoverTasks DEF PullCoversL1
    <2> QED BY <2>1, <2>2, <2>3 DEF Tiles
  <1> QED BY <1>1, <1>2, <1>3, RouteAssumption, Totals

LEMMA BlocksFinite == IsFiniteSet(Blocks) /\ 0 \in Blocks
  BY FS_Interval, BlocksAssumption DEF Blocks

LEMMA EarlyFinite == IsFiniteSet(Early) /\ Cardinality(Early) \in Nat
  BY BlocksFinite, FS_Subset, FS_CardinalityType DEF Early

LEMMA InitIInv == Init => IInv
  <1> SUFFICES ASSUME Init
               PROVE  IInv
    OBVIOUS
  <1>1. PullTileHead \in Nat /\ L1TaskHead \in Nat
    BY TasksFacts DEF Init, Flag
  <1>2. Shape
    BY <1>1 DEF Init, Shape, Locations
  <1> QED BY <1>2, BlocksFinite DEF Init, IInv, ResetFirst, PullAhead, WaitInv

-----------------------------------------------------------------------------
(* How a step of one block changes Early.                                   *)

LEMMA EarlySame ==
  ASSUME Shape, NEW b \in Blocks, NEW there, Go(b, there),
         pc[b] \in EarlyLocations <=> there \in EarlyLocations
  PROVE  Early' = Early
  BY DEF Early, Shape, Go

LEMMA EarlyLeaves ==
  ASSUME Shape, NEW b \in Blocks, NEW there, Go(b, there),
         pc[b] \in EarlyLocations, there \notin EarlyLocations
  PROVE  Cardinality(Early') = Cardinality(Early) - 1 /\ Cardinality(Early') \in Nat
  <1>1. Early' = Early \ {b}
    BY DEF Early, Shape, Go
  <1>2. b \in Early
    BY DEF Early
  <1>3. IsFiniteSet(Early \ {b}) /\ Cardinality(Early \ {b}) = Cardinality(Early) - 1
    BY <1>2, EarlyFinite, FS_RemoveElement
  <1> QED BY <1>1, <1>3, FS_CardinalityType

LEMMA EarlyJoins ==
  ASSUME Shape, NEW b \in Blocks, NEW there, Go(b, there),
         pc[b] \notin EarlyLocations, there \in EarlyLocations
  PROVE  Cardinality(Early') = Cardinality(Early) + 1
  <1>1. Early' = Early \union {b}
    BY DEF Early, Shape, Go
  <1>2. b \notin Early
    BY DEF Early
  <1> QED BY <1>1, <1>2, EarlyFinite, FS_AddElement

(* A step past the barrier that moves neither head keeps the invariant, if  *)
(* it does not enter the wait and joins Early only when all tiles are       *)
(* claimed.                                                                 *)
LEMMA QuietStep ==
  ASSUME IInv, NEW b \in Blocks, NEW there \in Locations, Go(b, there),
         UNCHANGED <<PullTileHead, L1TaskHead>>,
         \A c \in Blocks : pc[c] # "reset",
         there \notin {"reset", "l1Wait"},
         there \in EarlyLocations => pc[b] \in EarlyLocations \/ total_tiles <= PullTileHead,
         task' = [c \in Blocks |-> task'[c]],
         \A c \in Blocks \ {b} : task'[c] = task[c]
  PROVE  IInv'
  <1>1. Shape'
    BY DEF IInv, Shape, Go
  <1>2. ResetFirst'
    BY DEF IInv, Shape, ResetFirst, Go
  <1>3. PullAhead'
    <2>1. CASE total_tiles <= PullTileHead
      BY <2>1 DEF PullAhead
    <2>2. CASE L1TaskHead + Cardinality(Early) <= PullTileHead /\ ~(total_tiles <= PullTileHead)
      <3>1. CASE pc[b] \in EarlyLocations <=> there \in EarlyLocations
        <4>1. Early' = Early
          BY <3>1, EarlySame DEF IInv
        <4> QED BY <2>2, <4>1 DEF PullAhead
      <3>2. CASE pc[b] \in EarlyLocations /\ there \notin EarlyLocations
        <4>1. Cardinality(Early') = Cardinality(Early) - 1
          BY <3>2, EarlyLeaves DEF IInv
        <4> QED BY <2>2, <4>1, EarlyFinite DEF PullAhead, IInv, Shape
      <3> QED BY <2>2, <3>1, <3>2
    <2> QED BY <2>1, <2>2, BlocksFinite DEF IInv, PullAhead
  <1>4. WaitInv'
    <2> SUFFICES ASSUME NEW c \in Blocks, pc'[c] = "l1Wait"
                 PROVE  TileOf(L1Subtile(c)') \in Nat /\ TileOf(L1Subtile(c)') < PullTileHead
      BY DEF WaitInv, TileOf, L1Subtile
    <2>1. c # b /\ pc[c] = "l1Wait"
      BY DEF IInv, Shape, Go
    <2>2. L1Subtile(c)' = L1Subtile(c)
      BY <2>1 DEF L1Subtile
    <2> QED BY <2>1, <2>2 DEF IInv, WaitInv
  <1> QED BY <1>1, <1>2, <1>3, <1>4 DEF IInv

-----------------------------------------------------------------------------
(* The steps that need an argument of their own.                            *)

LEMMA ResetIInv ==
  ASSUME IInv, NEW b \in Blocks, Reset(b)
  PROVE  IInv'
  <1>1. \A c \in Blocks : pc[c] \in {"reset", "barrier"}
    BY DEF IInv, ResetFirst, Reset
  <1>2. \A c \in Blocks : pc'[c] \in {"reset", "barrier"}
    BY <1>1 DEF IInv, Shape, Reset, Go
  <1>3. Shape'
    BY DEF IInv, Shape, Reset, Go, counters, priv, Locations
  <1>4. Early' = {}
    BY <1>2 DEF Early, EarlyLocations
  <1>5. PullAhead'
    <2>1. CASE b = 0
      <3>1. PullTileHead' = 0 /\ L1TaskHead' = 0
        BY <2>1 DEF Reset
      <3> QED BY <1>4, <3>1, FS_EmptySet DEF PullAhead
    <2>2. CASE b # 0
      <3>1. PullTileHead' = PullTileHead /\ L1TaskHead' = L1TaskHead /\ pc'[0] = pc[0]
        BY <2>2, BlocksFinite DEF IInv, Shape, Reset, Go, counters
      <3>2. Early = {}
        BY <1>1 DEF Early, EarlyLocations
      <3> QED BY <1>4, <3>1, <3>2 DEF IInv, PullAhead
    <2> QED BY <2>1, <2>2
  <1>6. ResetFirst' /\ WaitInv'
    BY <1>2 DEF ResetFirst, WaitInv
  <1> QED BY <1>3, <1>5, <1>6 DEF IInv

LEMMA PullClaimIInv ==
  ASSUME IInv, NEW b \in Blocks, PullClaim(b)
  PROVE  IInv'
  <1> DEFINE there == IF PullTileHead < total_tiles THEN "copy" ELSE "l1"
  <1>1. Go(b, there) /\ there \in EarlyLocations /\ there \in Locations
    BY DEF PullClaim, EarlyLocations, Locations
  <1>2. PullTileHead \in Nat /\ L1TaskHead \in Nat /\ PullTileHead' = PullTileHead + 1
        /\ L1TaskHead' = L1TaskHead
    BY DEF IInv, Shape, PullClaim
  <1>3. Shape'
    BY <1>1, <1>2 DEF IInv, Shape, PullClaim, Go
  <1>4. \A c \in Blocks : pc[c] # "reset"
    BY DEF IInv, ResetFirst, PullClaim
  <1>5. ResetFirst'
    BY <1>1, <1>4 DEF IInv, Shape, ResetFirst, Go, EarlyLocations
  <1>6. PullAhead'
    <2>1. Cardinality(Early') = Cardinality(Early) + 1
      <3>1. pc[b] \notin EarlyLocations
        BY DEF PullClaim, EarlyLocations
      <3> QED BY <1>1, <3>1, EarlyJoins DEF IInv
    <2>2. CASE total_tiles <= PullTileHead
      BY <1>2, <2>2, TasksFacts DEF PullAhead
    <2>3. CASE L1TaskHead + Cardinality(Early) <= PullTileHead
      BY <1>2, <2>1, <2>3, EarlyFinite DEF PullAhead
    <2> QED BY <1>4, <2>2, <2>3, BlocksFinite DEF IInv, PullAhead
  <1>7. WaitInv'
    <2> SUFFICES ASSUME NEW c \in Blocks, pc'[c] = "l1Wait"
                 PROVE  TileOf(L1Subtile(c)') \in Nat /\ TileOf(L1Subtile(c)') < PullTileHead'
      BY DEF WaitInv, TileOf, L1Subtile
    <2>1. c # b /\ pc[c] = "l1Wait"
      BY <1>1 DEF IInv, Shape, Go, EarlyLocations
    <2>2. L1Subtile(c)' = L1Subtile(c)
      BY <2>1 DEF IInv, Shape, L1Subtile, PullClaim
    <2> QED BY <1>2, <2>1, <2>2 DEF IInv, WaitInv
  <1> QED BY <1>3, <1>5, <1>6, <1>7 DEF IInv

(* The claim: task k is below the pull head, and so is its tile.            *)
LEMMA L1ClaimIInv ==
  ASSUME IInv, NEW b \in Blocks, L1Claim(b)
  PROVE  IInv'
  <1> DEFINE there == IF L1TaskHead < total_l1_tasks THEN "l1Wait" ELSE "l2"
  <1>1. Go(b, there) /\ there \notin EarlyLocations /\ there \in Locations
        /\ pc[b] \in EarlyLocations
    BY DEF L1Claim, EarlyLocations, Locations
  <1>2. PullTileHead \in Nat /\ L1TaskHead \in Nat /\ L1TaskHead' = L1TaskHead + 1
        /\ PullTileHead' = PullTileHead /\ total_tiles \in Nat /\ total_l1_tasks \in Nat
    BY TasksFacts DEF IInv, Shape, L1Claim
  <1>3. Shape'
    BY <1>1, <1>2 DEF IInv, Shape, L1Claim, Go
  <1>4. \A c \in Blocks : pc[c] # "reset"
    BY DEF IInv, ResetFirst, L1Claim
  <1>5. ResetFirst'
    BY <1>1, <1>4 DEF IInv, Shape, ResetFirst, Go, Locations
  <1>6. Cardinality(Early') = Cardinality(Early) - 1 /\ Cardinality(Early') \in Nat
        /\ Cardinality(Early) \in Nat
    BY <1>1, EarlyLeaves, EarlyFinite DEF IInv
  <1>7. total_tiles <= PullTileHead \/ L1TaskHead + Cardinality(Early) <= PullTileHead
    BY <1>4, BlocksFinite DEF IInv, PullAhead
  <1>8. PullAhead'
    BY <1>2, <1>6, <1>7 DEF PullAhead
  <1>9. WaitInv'
    <2> SUFFICES ASSUME NEW c \in Blocks, pc'[c] = "l1Wait"
                 PROVE  TileOf(L1Subtile(c)') \in Nat /\ TileOf(L1Subtile(c)') < PullTileHead
      BY <1>2 DEF WaitInv, TileOf, L1Subtile
    <2>1. CASE c # b
      <3>1. pc[c] = "l1Wait" /\ L1Subtile(c)' = L1Subtile(c)
        BY <1>1, <2>1 DEF IInv, Shape, Go, L1Subtile, L1Claim
      <3> QED BY <3>1 DEF IInv, WaitInv
    <2>2. CASE c = b
      <3> DEFINE k == L1TaskHead
      <3>1. k \in L1Tasks
        <4>1. k < total_l1_tasks
          BY <1>1, <2>2 DEF IInv, Shape, Go
        <4> QED BY <1>2, <4>1 DEF L1Tasks
      <3>2. L1Subtile(c)' = DecodeL1(k).subtile
        BY <2>2, <3>1 DEF IInv, Shape, L1Claim, L1Subtile, Decoded
      <3>3. TileOf(DecodeL1(k).subtile) \in 0 .. k /\ TileOf(DecodeL1(k).subtile) \in Tiles
        BY <3>1, TasksFacts
      <3>4. k < PullTileHead \/ total_tiles <= PullTileHead
        BY <1>2, <1>6, <1>7
      <3> QED BY <1>2, <3>2, <3>3, <3>4 DEF Tiles
    <2> QED BY <2>1, <2>2
  <1> QED BY <1>3, <1>5, <1>8, <1>9 DEF IInv

-----------------------------------------------------------------------------

LEMMA StepIInv ==
  ASSUME IInv, NEW b \in Blocks, Step(b)
  PROVE  IInv'
  <1> USE DEF EarlyLocations
  <1>1. CASE Reset(b)
    BY <1>1, ResetIInv
  <1>2. CASE PullClaim(b)
    BY <1>2, PullClaimIInv
  <1>3. CASE L1Claim(b)
    BY <1>3, L1ClaimIInv
  <1>4. ASSUME pc[b] \notin {"reset", "barrier"}
        PROVE  \A c \in Blocks : pc[c] # "reset"
    BY <1>4 DEF IInv, ResetFirst
  <1>5. task = [c \in Blocks |-> task[c]] /\ PullTileHead \in Nat /\ total_tiles \in Nat
    BY TasksFacts DEF IInv, Shape
  <1>6. CASE Barrier(b)
    BY <1>5, <1>6, QuietStep DEF Barrier, Locations, priv, counters
  <1>7. CASE PullLoad(b)
    BY <1>4, <1>5, <1>7, QuietStep DEF PullLoad, Locations, priv, counters
  <1>8. CASE Copy(b)
    BY <1>4, <1>5, <1>8, QuietStep DEF Copy, Locations, priv, counters
  <1>9. CASE Publish(b)
    BY <1>4, <1>5, <1>9, QuietStep DEF Publish, Locations, priv, counters
  <1>10. CASE L1Load(b)
    BY <1>4, <1>5, <1>10, QuietStep DEF L1Load, Locations, priv, counters
  <1>11. CASE L1Wait(b)
    BY <1>4, <1>5, <1>11, QuietStep DEF L1Wait, EnqueueStart, Locations, counters
  <1>12. CASE Compute(b)
    BY <1>4, <1>5, <1>12, QuietStep DEF Compute, Locations, counters
  <1>13. CASE Count(b)
    BY <1>4, <1>5, <1>13, QuietStep DEF Count, Locations, priv, counters
  <1>14. CASE Quant(b)
    BY <1>4, <1>5, <1>14, QuietStep DEF Quant, EnqueueStart, Locations, priv, counters
  <1>15. CASE GroupDone(b)
    BY <1>4, <1>5, <1>15, QuietStep DEF GroupDone, Locations, priv, counters
  <1>16. CASE Reserve(b)
    BY <1>4, <1>5, <1>16, QuietStep DEF Reserve, Locations
  <1>17. CASE Fill(b)
    BY <1>4, <1>5, <1>17, QuietStep DEF Fill, Locations, priv, counters
  <1>18. CASE Ready(b)
    BY <1>4, <1>5, <1>18, QuietStep DEF Ready, Locations, counters
  <1>19. CASE L2Load(b)
    BY <1>4, <1>5, <1>19, QuietStep DEF L2Load, Locations, counters
  <1>20. CASE L2Claim(b)
    BY <1>4, <1>5, <1>20, QuietStep DEF L2Claim, Locations, priv
  <1>21. CASE L2Wait(b)
    BY <1>4, <1>5, <1>21, QuietStep DEF L2Wait, Locations, counters
  <1>22. CASE L2Count(b)
    BY <1>4, <1>5, <1>22, QuietStep DEF L2Count, Locations, priv
  <1>23. CASE StopLoad(b)
    BY <1>4, <1>5, <1>23, QuietStep DEF StopLoad, Locations, priv, counters
  <1>24. CASE Sync(b)
    BY <1>4, <1>5, <1>24, QuietStep DEF Sync, Locations, priv, counters
  <1> QED BY <1>1, <1>2, <1>3, <1>6, <1>7, <1>8, <1>9, <1>10, <1>11, <1>12, <1>13, <1>14,
             <1>15, <1>16, <1>17, <1>18, <1>19, <1>20, <1>21, <1>22, <1>23, <1>24 DEF Step

LEMMA NextIInv == IInv /\ [Next]_vars => IInv'
  <1> SUFFICES ASSUME IInv, [Next]_vars
               PROVE  IInv'
    OBVIOUS
  <1>1. ASSUME NEW b \in Blocks, Step(b)
        PROVE  IInv'
    BY <1>1, StepIInv
  <1>2. ASSUME UNCHANGED <<pc, task, PullTileHead, L1TaskHead>>
        PROVE  IInv'
    <2>1. Early' = Early
      BY <1>2 DEF Early
    <2> QED BY <1>2, <2>1 DEF IInv, Shape, ResetFirst, PullAhead, WaitInv, L1Subtile, TileOf
  <1>3. ASSUME NEW b \in Blocks, Store(b)
        PROVE  IInv'
    BY <1>2, <1>3 DEF Store, counters
  <1>4. CASE UNCHANGED vars
    BY <1>2, <1>4 DEF vars, priv, counters
  <1> QED BY <1>1, <1>3, <1>4 DEF Next, Finished

(* No block ever spins for a tile that no block has claimed.                *)
THEOREM WaitSafe == Spec => []WaitsForClaimedTile
  <1>1. IInv => WaitsForClaimedTile
    BY DEF IInv, WaitInv, WaitsForClaimedTile
  <1> QED BY <1>1, InitIInv, NextIInv, PTL DEF Spec

-----------------------------------------------------------------------------
(***************************************************************************)
(* The blocks of the fused kernel do the work of MoEDataflow, each piece   *)
(* once and from complete inputs, and leave the loop only when all of it   *)
(* is done, for every number of blocks, every routing and every schedule.  *)
(*                                                                         *)
(* The argument follows a piece of work through the counters.  A claimed   *)
(* tile or L1 task has one holder (PullInv, L1Inv).  A subtile's counter   *)
(* is the number of its chunks computed and counted (CountInv), so one     *)
(* block sees the last chunk and carries the subtile on (TokenInv).  A     *)
(* group's counter is the number of its members that were carried to it    *)
(* (GroupInv), so one block queues the group, once.  The queue below its   *)
(* tail is a numbering of the L2 tasks of the queued groups (QueueInv).    *)
(* A queue entry below the head is held by one block or was counted        *)
(* (TakeInv), so when L2Done reaches the number of L2 tasks, each of them  *)
(* has been taken.                                                         *)
(***************************************************************************)
(* All blocks have reset their share of the scratch.                        *)
Running == \A b \in Blocks : pc[b] # "reset"

-----------------------------------------------------------------------------
(* Before that.                                                             *)

ResetInv ==
  /\ pc \in [Blocks -> {"reset", "barrier"}]
  /\ storing = [b \in Blocks |-> None]
  /\ xPool = {} /\ act = {} /\ actFp8 = {} /\ combine = {}
  /\ \A i \in Tiles : pc[i % NumBlocks] # "reset" => tile_pull_done[i] = 0
  /\ \A i \in Subtiles : pc[i % NumBlocks] # "reset" =>
                           l1_done_counts[i] = 0 /\ l2_group_done_counts[i] = 0
  /\ \A i \in L2Tasks : pc[i % NumBlocks] # "reset" => l2_queue_ready[i] = 0
  /\ pc[0] # "reset" => /\ PullTileHead = 0 /\ L1TaskHead = 0 /\ L2QueueTail = 0
                        /\ L2QueueHead = 0 /\ L2Done = 0
  /\ PullTileHead <= total_tiles /\ L1TaskHead <= total_l1_tasks
  /\ L2QueueHead <= L2QueueTail /\ L2Done <= total_l2_tasks

-----------------------------------------------------------------------------
(* Pulling.                                                                 *)

Pulling(b) == pc[b] \in {"copy", "publish"}

PullInv ==
  /\ \A b \in Blocks : Pulling(b) =>
       /\ task[b] \in Tiles /\ task[b] < PullTileHead
       /\ pc[b] = "publish" <=> task[b] \in xPool
  /\ \A b, c \in Blocks : Pulling(b) /\ Pulling(c) /\ task[b] = task[c] => b = c
  /\ \A t \in xPool : t \in Tiles /\ t < PullTileHead
  /\ \A t \in Tiles : tile_pull_done[t] # 0 => t \in xPool

-----------------------------------------------------------------------------
(* The first matrix product.                                                *)

Holding(b) == pc[b] \in {"l1Wait", "compute"}

Piece(k) == <<DecodeL1(k).subtile, DecodeL1(k).chunk>>

L1Inv ==
  /\ \A b \in Blocks : Holding(b) =>
       task[b] \in L1Tasks /\ task[b] < L1TaskHead /\ Piece(task[b]) \notin act
  /\ \A b \in Blocks : pc[b] = "compute" =>
       L1Subtile(b) \in ValidSubtiles /\ TileOf(L1Subtile(b)) \in xPool
  /\ \A b, c \in Blocks : Holding(b) /\ Holding(c) /\ task[b] = task[c] => b = c
  /\ \A k \in L1Tasks : Piece(k) \in act => k < L1TaskHead
  /\ act \subseteq ValidSubtiles \X Chunks

Computed(s) == {c \in Chunks : <<s, c>> \in act}

Counting(s) == {b \in Blocks : pc[b] = "count" /\ task[b] = s}

CountInv ==
  /\ \A b \in Blocks : pc[b] = "count" => task[b] \in ValidSubtiles
  /\ \A s \in Subtiles : l1_done_counts[s] + Cardinality(Counting(s)) = Cardinality(Computed(s))

-----------------------------------------------------------------------------
(* From the first product to the second.                                    *)

(* Subtile s has been handed to the one block that carries it on: its last  *)
(* chunk was counted or, if it has no rows, its chunk 0 was claimed and its *)
(* tile seen.                                                               *)
Opened(s) ==
  IF s \in ValidSubtiles THEN l1_done_counts[s] = NumInterChunks
  ELSE \E k \in L1Tasks : /\ Piece(k) = <<s, 0>> /\ k < L1TaskHead
                          /\ \A b \in Blocks : ~ (pc[b] = "l1Wait" /\ task[b] = k)

Open == {s \in Subtiles : Opened(s)}

Carrying(b) == pc[b] \in {"quant", "group", "reserve", "fill", "ready"}

TokenInv ==
  /\ \A b \in Blocks : Carrying(b) => task[b] \in Open
  /\ \A b, c \in Blocks : Carrying(b) /\ Carrying(c) /\ task[b] = task[c] => b = c
  /\ \A b \in Blocks : pc[b] = "quant" => task[b] \in ValidSubtiles \ actFp8
  /\ actFp8 \subseteq ValidSubtiles \intersect Open
  /\ \A s \in ValidSubtiles \intersect Open :
       s \in actFp8 \/ \E b \in Blocks : pc[b] = "quant" /\ task[b] = s
  /\ \A b \in Blocks : pc[b] = "group" => L2Schedule # "SubtileMajor"

Members(s) == GroupMembers(GroupOf(s))

(* The subtiles added to the counter of their group, if it needs one.       *)
Joined == {s \in Open : \A b \in Blocks : ~ (pc[b] \in {"quant", "group"} /\ task[b] = s)}

Queueing(b) == pc[b] \in {"reserve", "fill", "ready"}

GroupInv ==
  /\ L2Schedule # "SubtileMajor" =>
       \A s \in Subtiles :
         l2_group_done_counts[GroupOf(s).slot] = Cardinality(Members(s) \intersect Joined)
  /\ \A b \in Blocks : Queueing(b) => Members(task[b]) \subseteq Joined
  /\ \A b, c \in Blocks :
       Queueing(b) /\ Queueing(c) /\ task[c] \in Members(task[b]) => b = c

-----------------------------------------------------------------------------
(* The queue.                                                               *)

(* The subtiles whose group has its range in the queue.                     *)
Queued ==
  {s \in Subtiles : /\ Members(s) \subseteq Joined
                    /\ \A b \in Blocks : ~ (pc[b] = "reserve" /\ task[b] \in Members(s))}

QueuedTasks == {k \in L2Tasks : SubtileOfL2(k) \in Queued}

Filling(b) == pc[b] \in {"fill", "ready"}

(* The entries that block b has reserved and not published.                 *)
Pending(b) == base[b] + fill[b] .. base[b] + Entries(b) - 1

Reserved(b, j) == Filling(b) /\ j \in Pending(b)

EntryFor(b, j) == GroupEntry(Group[task[b]], j - base[b])

(* L2 task k has place j.                                                   *)
Holds(j, k) ==
  \/ l2_queue_ready[j] # 0 /\ l2_queue[j] = k
  \/ \E b \in Blocks : Reserved(b, j) /\ k = EntryFor(b, j)

RangeInv ==
  \A b \in Blocks : Filling(b) =>
    /\ base[b] \in Nat /\ fill[b] \in Nat
    /\ fill[b] < Entries(b) /\ base[b] + Entries(b) <= L2QueueTail

ReadyInv ==
  \A j \in L2Tasks :
    l2_queue_ready[j] # 0 <=> j < L2QueueTail /\ \A b \in Blocks : ~ Reserved(b, j)

PlaceInv ==
  /\ \A j, k \in L2Tasks : Holds(j, k) => k \in QueuedTasks
  /\ \A k \in QueuedTasks : \E j \in L2Tasks : j < L2QueueTail /\ Holds(j, k)
  /\ \A i, j, k \in L2Tasks : Holds(i, k) /\ Holds(j, k) => i = j

QueueInv ==
  /\ L2QueueTail = Cardinality(QueuedTasks)
  /\ RangeInv /\ ReadyInv /\ PlaceInv
  /\ \A b, c \in Blocks, j \in L2Tasks : Reserved(b, j) /\ Reserved(c, j) => b = c
  /\ \A b \in Blocks, j \in L2Tasks :
       pc[b] = "ready" /\ j = base[b] + fill[b] => l2_queue[j] = EntryFor(b, j)

-----------------------------------------------------------------------------
(* The second matrix product.                                               *)

Taking == {b \in Blocks : pc[b] \in {"l2Wait", "l2Count"}}

(* Place j was claimed, and its entry has been read.                        *)
Passed(j) ==
  /\ j < L2QueueHead
  /\ \A b \in Blocks : ~ (pc[b] = "l2Wait" /\ task[b] = j)

Storing(k) == \E b \in Blocks : storing[b] = k

TakeInv ==
  /\ \A b \in Blocks : pc[b] = "l2Claim" => task[b] \in Nat /\ task[b] < L2QueueTail
  /\ \A b \in Taking : task[b] \in Nat /\ task[b] < L2QueueHead
  /\ \A b, c \in Taking : task[b] = task[c] => b = c
  /\ L2QueueHead <= L2QueueTail
  /\ L2Done + Cardinality(Taking) = L2QueueHead
  /\ \A b \in Blocks : storing[b] # None =>
       /\ pc[b] \in {"l2Count", "stop", "loopSync", "exitSync"}
       /\ storing[b] \in Stored \ combine
  /\ \A b, c \in Blocks : storing[b] # None /\ storing[b] = storing[c] => b = c
  /\ combine \subseteq Stored
  /\ \A j \in L2Tasks : Passed(j) => l2_queue_ready[j] # 0
  /\ \A k \in Stored : k \in combine \/ Storing(k) =>
       \E j \in L2Tasks : Passed(j) /\ l2_queue[j] = k
  /\ \A j \in L2Tasks, k \in Stored : Passed(j) /\ l2_queue[j] = k => k \in combine \/ Storing(k)
  /\ \A b \in Blocks : pc[b] \in {"exitSync", "exit"} => L2Done >= total_l2_tasks

-----------------------------------------------------------------------------
(* The heads, and the types.                                                *)

ClaimingTile == {b \in Blocks : pc[b] = "pullClaim"}

ClaimingL1 == {b \in Blocks : pc[b] = "l1Claim"}

HeadInv ==
  /\ PullTileHead + Cardinality(ClaimingTile) <= total_tiles + NumBlocks - 1
  /\ L1TaskHead + Cardinality(ClaimingL1) <= total_l1_tasks + NumBlocks - 1

(* What TypeOK says of the variables that no other part bounds.             *)
TypeInv ==
  /\ task \in [Blocks -> Int]
  /\ base \in [Blocks -> 0 .. total_l2_tasks]
  /\ fill \in [Blocks -> 0 .. total_l2_tasks]
  /\ storing \in [Blocks -> {None} \union L2Tasks]
  /\ tile_pull_done \in [Tiles -> Flag]
  /\ l1_done_counts \in [Subtiles -> 0 .. NumInterChunks]
  /\ l2_group_done_counts \in [Subtiles -> Nat]
  /\ l2_queue \in [L2Tasks -> L2Tasks]
  /\ l2_queue_ready \in [L2Tasks -> Flag]
  /\ PullTileHead \in Nat /\ L1TaskHead \in Nat
  /\ L2QueueTail \in 0 .. total_l2_tasks
  /\ L2QueueHead \in Nat
  /\ L2Done \in Nat

WorkInv ==
  /\ PullInv /\ L1Inv /\ CountInv /\ TokenInv /\ GroupInv /\ QueueInv /\ TakeInv /\ HeadInv

Inv ==
  /\ TypeInv
  /\ pc \in [Blocks -> Locations]
  /\ ResetFirst
  /\ ~ Running => ResetInv
  /\ Running => WorkInv

-----------------------------------------------------------------------------
(* What the argument needs of the task arithmetic.                          *)

LEMMA Numbers ==
  /\ total_tiles \in Nat /\ total_subtiles \in Nat
  /\ total_l1_tasks \in Nat /\ total_l2_tasks \in Nat
  /\ NumInterChunks \in Nat \ {0} /\ NumHiddenChunks \in Nat \ {0}
  /\ NumBlocks \in Nat \ {0}
  /\ Tiles \subseteq Nat /\ Subtiles \subseteq Nat /\ L1Tasks \subseteq Nat
  /\ L2Tasks \subseteq Nat /\ Chunks \subseteq Nat /\ 0 \in Chunks
  /\ ValidSubtiles \subseteq Subtiles /\ Stored \subseteq L2Tasks
  /\ None \notin L2Tasks /\ None \in Int
  BY TasksFacts, BlocksAssumption
     DEF Tiles, Subtiles, L1Tasks, L2Tasks, Chunks, ValidSubtiles, Stored, StoringL2Tasks, None

LEMMA DataFinite ==
  /\ IsFiniteSet(Blocks) /\ Cardinality(Blocks) = NumBlocks
  /\ IsFiniteSet(Chunks) /\ Cardinality(Chunks) = NumInterChunks
  /\ IsFiniteSet(L2Tasks) /\ Cardinality(L2Tasks) = total_l2_tasks
  BY UpTo, Numbers DEF Blocks, Chunks, L2Tasks

LEMMA PieceFacts ==
  /\ \A k \in L1Tasks : /\ Piece(k) \in Subtiles \X Chunks
                        /\ Decoded[k] = DecodeL1(k)
                        /\ Piece(k) = <<Decoded[k].subtile, Decoded[k].chunk>>
  /\ \A j, k \in L1Tasks : Piece(j) = Piece(k) => j = k
  /\ \A s \in Subtiles, c \in Chunks : \E k \in L1Tasks : Piece(k) = <<s, c>>
  <1>1. \A k \in L1Tasks : DecodeL1(k) \in Pieces
    BY RouteAssumption, L1Codec
  <1>2. \A k \in L1Tasks : Decoded[k] = DecodeL1(k)
    BY DEF Decoded
  <1>3. ASSUME NEW j \in L1Tasks, NEW k \in L1Tasks, Piece(j) = Piece(k)
        PROVE  j = k
    <2>1. DecodeL1(j).subtile = DecodeL1(k).subtile /\ DecodeL1(j).chunk = DecodeL1(k).chunk
      BY <1>3 DEF Piece
    <2>2. DecodeL1(j) = DecodeL1(k)
      BY <1>1, <2>1 DEF Pieces
    <2> QED BY <2>2, RouteAssumption, DecodeInjective
  <1>4. ASSUME NEW s \in Subtiles, NEW c \in Chunks
        PROVE  \E k \in L1Tasks : Piece(k) = <<s, c>>
    <2>1. EncodeL1(s, c) \in L1Tasks
          /\ DecodeL1(EncodeL1(s, c)) = [subtile |-> s, chunk |-> c]
      BY RouteAssumption, L1Codec
    <2>2. Piece(EncodeL1(s, c)) = <<s, c>>
      BY <2>1 DEF Piece
    <2> QED BY <2>1, <2>2
  <1> QED BY <1>1, <1>2, <1>3, <1>4 DEF Piece, Pieces

LEMMA GroupFacts ==
  ASSUME NEW s \in Subtiles
  PROVE  /\ Group[s] = GroupOf(s)
         /\ GroupOf(s).slot \in Subtiles /\ GroupOf(s).size \in Nat \ {0}
         /\ s \in Members(s) /\ Members(s) \subseteq Subtiles
         /\ IsFiniteSet(Members(s)) /\ Cardinality(Members(s)) = GroupOf(s).size
         /\ \A t \in Members(s) : GroupOf(t) = GroupOf(s) /\ Members(t) = Members(s)
         /\ \A t \in Subtiles : GroupOf(t).slot = GroupOf(s).slot => t \in Members(s)
         /\ L2Schedule = "SubtileMajor" => Members(s) = {s}
  <1>1. /\ GroupOf(s).begin \in Nat /\ GroupOf(s).size \in Nat \ {0}
        /\ GroupOf(s).slot \in Subtiles
        /\ s \in Members(s) /\ Members(s) \subseteq Subtiles
        /\ \A t \in Members(s) : GroupOf(t) = GroupOf(s)
        /\ \A t \in Subtiles : GroupOf(t).slot = GroupOf(s).slot => t \in Members(s)
    BY RouteAssumption, GroupShape DEF Members
  <1>2. IsFiniteSet(Members(s)) /\ Cardinality(Members(s)) = GroupOf(s).size
    <2> DEFINE a == GroupOf(s).begin
               z == GroupOf(s).begin + GroupOf(s).size - 1
    <2>1. a \in Int /\ z \in Int /\ a <= z /\ z - a + 1 = GroupOf(s).size
      BY <1>1
    <2>2. Members(s) = a .. z
      BY DEF Members, GroupMembers
    <2> HIDE DEF a, z
    <2> QED BY <2>1, <2>2, FS_Interval
  <1>3. Group[s] = GroupOf(s)
    BY DEF Group
  <1>4. ASSUME L2Schedule = "SubtileMajor"
        PROVE  Members(s) = {s}
    <2>1. GroupOf(s).begin = s /\ GroupOf(s).size = 1
      BY <1>4 DEF GroupOf
    <2>2. s \in Nat
      BY Numbers
    <2> QED BY <2>1, <2>2 DEF Members, GroupMembers
  <1> QED BY <1>1, <1>2, <1>3, <1>4 DEF Members

LEMMA MembersSame ==
  ASSUME NEW s \in Subtiles, NEW t \in Subtiles
  PROVE  t \in Members(s) <=> s \in Members(t)
  BY GroupFacts

LEMMA EntryFacts ==
  ASSUME NEW s \in Subtiles
  PROVE  LET g == GroupOf(s)
             n == g.size * NumHiddenChunks
         IN  /\ n \in Nat \ {0}
             /\ \A i \in 0 .. n - 1 : /\ GroupEntry(g, i) \in L2Tasks
                                      /\ SubtileOfL2(GroupEntry(g, i)) \in Members(s)
             /\ \A i, j \in 0 .. n - 1 : GroupEntry(g, i) = GroupEntry(g, j) => i = j
             /\ \A k \in L2Tasks : SubtileOfL2(k) \in Members(s) =>
                  \E i \in 0 .. n - 1 : k = GroupEntry(g, i)
  BY RouteAssumption, EntriesAre DEF Members

LEMMA L2SubtileType ==
  ASSUME NEW k \in L2Tasks
  PROVE  SubtileOfL2(k) \in Subtiles
  <1> DEFINE H == NumHiddenChunks
             N == total_subtiles
  <1>1. H \in Nat \ {0} /\ N \in Nat
    BY Numbers
  <1>2. k \in Nat /\ k < N * H
    BY Numbers DEF L2Tasks, total_l2_tasks
  <1> HIDE DEF H, N
  <1>3. k \div H \in 0 .. N - 1
    BY <1>1, <1>2, UnpackPair
  <1> QED BY <1>3 DEF SubtileOfL2, Subtiles, H, N

-----------------------------------------------------------------------------
(* A step of a block changes nothing that is private to another.            *)

Typed == TypeInv /\ pc \in [Blocks -> Locations]

Work == Typed /\ Running /\ WorkInv

Others(b) ==
  \A c \in Blocks \ {b} : /\ pc'[c] = pc[c]
                          /\ task'[c] = task[c]
                          /\ base'[c] = base[c]
                          /\ fill'[c] = fill[c]
                          /\ storing'[c] = storing[c]

LEMMA OthersKeep ==
  ASSUME Typed, NEW b \in Blocks, Step(b) \/ Store(b)
  PROVE  Others(b)
  <1> USE DEF Typed, TypeInv, Others, Go, priv
  <1>1. CASE Reset(b)
    BY <1>1 DEF Reset
  <1>2. CASE PullClaim(b)
    BY <1>2 DEF PullClaim
  <1>3. CASE L1Claim(b)
    BY <1>3 DEF L1Claim
  <1>6. CASE Barrier(b)
    BY <1>6 DEF Barrier
  <1>7. CASE PullLoad(b)
    BY <1>7 DEF PullLoad
  <1>8. CASE Copy(b)
    BY <1>8 DEF Copy
  <1>9. CASE Publish(b)
    BY <1>9 DEF Publish
  <1>10. CASE L1Load(b)
    BY <1>10 DEF L1Load
  <1>11. CASE L1Wait(b)
    BY <1>11 DEF L1Wait
  <1>12. CASE Compute(b)
    BY <1>12 DEF Compute
  <1>13. CASE Count(b)
    BY <1>13 DEF Count
  <1>14. CASE Quant(b)
    BY <1>14 DEF Quant
  <1>15. CASE GroupDone(b)
    BY <1>15 DEF GroupDone
  <1>16. CASE Reserve(b)
    BY <1>16 DEF Reserve
  <1>17. CASE Fill(b)
    BY <1>17 DEF Fill
  <1>18. CASE Ready(b)
    BY <1>18 DEF Ready
  <1>19. CASE L2Load(b)
    BY <1>19 DEF L2Load
  <1>20. CASE L2Claim(b)
    BY <1>20 DEF L2Claim
  <1>21. CASE L2Wait(b)
    BY <1>21 DEF L2Wait
  <1>22. CASE L2Count(b)
    BY <1>22 DEF L2Count
  <1>23. CASE StopLoad(b)
    BY <1>23 DEF StopLoad
  <1>24. CASE Sync(b)
    BY <1>24 DEF Sync
  <1>25. CASE Store(b)
    BY <1>25 DEF Store
  <1> QED BY <1>1, <1>2, <1>3, <1>6, <1>7, <1>8, <1>9, <1>10, <1>11, <1>12, <1>13, <1>14,
             <1>15, <1>16, <1>17, <1>18, <1>19, <1>20, <1>21, <1>22, <1>23, <1>24, <1>25 DEF Step

LEMMA Arrives ==
  ASSUME Typed, NEW b \in Blocks, NEW there, Go(b, there)
  PROVE  pc'[b] = there
  BY DEF Typed, Go

-----------------------------------------------------------------------------
(* PullInv.                                                                 *)

LEMMA PullFrame ==
  ASSUME Work, NEW b \in Blocks, Others(b),
         pc[b] \notin {"copy", "publish"}, pc'[b] \notin {"copy", "publish"},
         UNCHANGED <<tile_pull_done, xPool>>,
         PullTileHead' \in Nat, PullTileHead <= PullTileHead'
  PROVE  PullInv'
  <1>1. PullInv /\ PullTileHead \in Nat /\ Tiles \subseteq Nat
    BY Numbers DEF Work, WorkInv, Typed, TypeInv
  <1>2. \A c \in Blocks : pc'[c] \in {"copy", "publish"} =>
          pc[c] \in {"copy", "publish"} /\ task'[c] = task[c] /\ pc'[c] = pc[c]
    BY DEF Others
  <1>3. \A t \in Tiles : t < PullTileHead => t < PullTileHead'
    BY <1>1
  <1> QED BY <1>1, <1>2, <1>3 DEF PullInv, Pulling

LEMMA PullStep ==
  ASSUME Work, NEW b \in Blocks, Step(b) \/ Store(b)
  PROVE  PullInv'
  <1>a. Others(b) /\ Typed /\ PullInv /\ PullTileHead \in Nat /\ Tiles \subseteq Nat
    BY OthersKeep, Numbers DEF Work, WorkInv, Typed, TypeInv
  <1>b. ~ Reset(b)
    BY DEF Work, Running, Reset
  <1>c. \A c \in Blocks \ {b} : pc'[c] = pc[c] /\ task'[c] = task[c]
    BY <1>a DEF Others
  <1>1. CASE PullClaim(b)
    <2>1. CASE PullTileHead < total_tiles
      <3>1. pc'[b] = "copy" /\ task'[b] = PullTileHead /\ PullTileHead \in Tiles
        BY <1>1, <1>a, <2>1, Arrives, Numbers DEF PullClaim, Typed, TypeInv, Tiles
      <3>2. PullTileHead' = PullTileHead + 1 /\ UNCHANGED <<xPool, tile_pull_done>>
            /\ pc[b] = "pullClaim"
        BY <1>1 DEF PullClaim, flags, data
      <3>3. PullTileHead \notin xPool /\ \A t \in Tiles : t < PullTileHead => t < PullTileHead'
        <4>1. \A t \in xPool : t < PullTileHead
          BY <1>a DEF PullInv
        <4>2. ~ (PullTileHead < PullTileHead)
          BY <1>a
        <4>3. ASSUME NEW t \in Tiles, t < PullTileHead
              PROVE  t < PullTileHead'
          <5>1. t \in Int
            BY Numbers
          <5> QED BY <1>a, <3>2, <4>3, <5>1
        <4> QED BY <4>1, <4>2, <4>3
      <3>4. ASSUME NEW c \in Blocks \ {b}, Pulling(c)'
            PROVE  /\ Pulling(c) /\ task'[c] = task[c] /\ task[c] # PullTileHead
                   /\ task'[c] \in Tiles /\ task'[c] < PullTileHead'
                   /\ pc'[c] = "publish" <=> task'[c] \in xPool'
        <4>1. Pulling(c) /\ task'[c] = task[c] /\ pc'[c] = pc[c]
          BY <1>c, <3>4 DEF Pulling
        <4>2. task[c] \in Tiles /\ task[c] < PullTileHead
              /\ (pc[c] = "publish" <=> task[c] \in xPool)
          BY <1>a, <4>1 DEF PullInv
        <4>3. task[c] # PullTileHead
          <5>1. task[c] \in Nat
            BY <4>2, Numbers
          <5> QED BY <1>a, <4>2, <5>1
        <4>4. task[c] < PullTileHead'
          BY <3>3, <4>2
        <4>5. xPool' = xPool
          BY <3>2
        <4> QED BY <4>1, <4>2, <4>3, <4>4, <4>5
      <3>5. task'[b] \in Tiles /\ task'[b] < PullTileHead'
            /\ (pc'[b] = "publish" <=> task'[b] \in xPool')
        BY <1>a, <3>1, <3>2, <3>3
      <3>6. \A c, d \in Blocks : Pulling(c)' /\ Pulling(d)' /\ task'[c] = task'[d] => c = d
        <4>1. ASSUME NEW c \in Blocks \ {b}, NEW d \in Blocks \ {b}, Pulling(c)', Pulling(d)',
                     task'[c] = task'[d]
              PROVE  c = d
          BY <1>a, <3>4, <4>1 DEF PullInv
        <4> QED BY <3>1, <3>4, <4>1
      <3>7. \A t \in xPool' : t \in Tiles /\ t < PullTileHead'
        BY <1>a, <3>2, <3>3 DEF PullInv
      <3>8. \A t \in Tiles : tile_pull_done'[t] # 0 => t \in xPool'
        BY <1>a, <3>2 DEF PullInv
      <3> QED BY <3>4, <3>5, <3>6, <3>7, <3>8 DEF PullInv, Pulling
    <2>2. CASE ~ (PullTileHead < total_tiles)
      <3>1. pc'[b] = "l1" /\ pc[b] = "pullClaim"
        BY <1>1, <1>a, <2>2, Arrives DEF PullClaim
      <3>2. PullTileHead' \in Nat /\ PullTileHead <= PullTileHead'
            /\ UNCHANGED <<xPool, tile_pull_done>>
        BY <1>1, <1>a DEF PullClaim, flags, data
      <3> QED BY <1>a, <3>1, <3>2, PullFrame
    <2> QED BY <2>1, <2>2
  <1>2. CASE Copy(b)
    <2>1. pc[b] = "copy" /\ pc'[b] = "publish" /\ task' = task
          /\ xPool' = xPool \union {task[b]} /\ UNCHANGED <<PullTileHead, tile_pull_done>>
      BY <1>2, <1>a, Arrives DEF Copy, priv, flags, counters
    <2> QED BY <1>a, <1>c, <2>1 DEF PullInv, Pulling
  <1>3. CASE Publish(b)
    <2>1. pc[b] = "publish" /\ pc'[b] = "l1" /\ task' = task
          /\ UNCHANGED <<PullTileHead, xPool>>
      BY <1>3, <1>a, Arrives DEF Publish, priv, counters, data
    <2>2. task[b] \in xPool
      BY <1>a, <2>1 DEF PullInv, Pulling
    <2>3. \A t \in Tiles : tile_pull_done'[t] # 0 => tile_pull_done[t] # 0 \/ t = task[b]
      BY <1>3, <1>a DEF Publish, Typed, TypeInv
    <2> QED BY <1>a, <1>c, <2>1, <2>2, <2>3 DEF PullInv, Pulling
  <1>4. CASE PullLoad(b)
    BY <1>4, Arrives, PullFrame, <1>a DEF PullLoad, priv, flags, counters, data
  <1>5. CASE L1Load(b)
    BY <1>5, Arrives, PullFrame, <1>a DEF L1Load, priv, flags, counters, data
  <1>6. CASE L1Claim(b)
    BY <1>6, Arrives, PullFrame, <1>a DEF L1Claim, flags, data
  <1>7. CASE L1Wait(b)
    BY <1>7, Arrives, PullFrame, <1>a DEF L1Wait, EnqueueStart, flags, counters, data
  <1>8. CASE Compute(b)
    BY <1>8, Arrives, PullFrame, <1>a DEF Compute, flags, counters
  <1>9. CASE Count(b)
    BY <1>9, Arrives, PullFrame, <1>a DEF Count, priv, counters, data
  <1>10. CASE Quant(b)
    BY <1>10, Arrives, PullFrame, <1>a DEF Quant, EnqueueStart, priv, flags, counters
  <1>11. CASE GroupDone(b)
    BY <1>11, Arrives, PullFrame, <1>a DEF GroupDone, priv, counters, data
  <1>12. CASE Reserve(b)
    BY <1>12, Arrives, PullFrame, <1>a DEF Reserve, flags, data
  <1>13. CASE Fill(b)
    BY <1>13, Arrives, PullFrame, <1>a DEF Fill, priv, counters, data
  <1>14. CASE Ready(b)
    BY <1>14, Arrives, PullFrame, <1>a DEF Ready, counters, data
  <1>15. CASE L2Load(b)
    BY <1>15, Arrives, PullFrame, <1>a DEF L2Load, flags, counters, data
  <1>16. CASE L2Claim(b)
    BY <1>16, Arrives, PullFrame, <1>a DEF L2Claim, priv, flags, data
  <1>17. CASE L2Wait(b)
    BY <1>17, Arrives, PullFrame, <1>a DEF L2Wait, flags, counters, data
  <1>18. CASE L2Count(b)
    BY <1>18, Arrives, PullFrame, <1>a DEF L2Count, priv, flags, data
  <1>19. CASE StopLoad(b)
    BY <1>19, Arrives, PullFrame, <1>a DEF StopLoad, priv, flags, counters, data
  <1>20. CASE Sync(b)
    BY <1>20, Arrives, PullFrame, <1>a DEF Sync, priv, flags, counters, data
  <1>21. CASE Store(b)
    BY <1>21, <1>a DEF Store, flags, counters, PullInv, Pulling
  <1>22. CASE Barrier(b)
    BY <1>22, Arrives, PullFrame, <1>a DEF Barrier, priv, flags, counters, data
  <1> QED BY <1>b, <1>1, <1>2, <1>3, <1>4, <1>5, <1>6, <1>7, <1>8, <1>9, <1>10, <1>11, <1>12,
            <1>13, <1>14, <1>15, <1>16, <1>17, <1>18, <1>19, <1>20, <1>21, <1>22 DEF Step

-----------------------------------------------------------------------------
(* L1Inv.                                                                   *)

LEMMA L1Frame ==
  ASSUME Work, NEW b \in Blocks, Others(b),
         pc'[b] \notin {"l1Wait", "compute"},
         act' = act, xPool \subseteq xPool',
         L1TaskHead' \in Nat, L1TaskHead <= L1TaskHead'
  PROVE  L1Inv'
  <1>1. L1Inv /\ L1TaskHead \in Nat
    BY DEF Work, WorkInv, Typed, TypeInv
  <1>2. ASSUME NEW c \in Blocks, Holding(c)'
        PROVE  Holding(c) /\ pc'[c] = pc[c] /\ task'[c] = task[c]
    BY <1>2 DEF Others, Holding
  <1>3. \A k \in L1Tasks : k < L1TaskHead => k < L1TaskHead'
    BY <1>1, Numbers
  <1>4. \A c \in Blocks : Holding(c)' =>
          task'[c] \in L1Tasks /\ task'[c] < L1TaskHead' /\ Piece(task'[c]) \notin act
    BY <1>1, <1>2, <1>3 DEF L1Inv
  <1>5. ASSUME NEW c \in Blocks, pc'[c] = "compute"
        PROVE  L1Subtile(c)' \in ValidSubtiles /\ TileOf(L1Subtile(c)') \in xPool'
    <2>1. L1Subtile(c)' = L1Subtile(c) /\ pc[c] = "compute"
      BY <1>2, <1>5 DEF L1Subtile, Holding
    <2> QED BY <1>1, <2>1 DEF L1Inv
  <1>6. \A c, d \in Blocks : Holding(c)' /\ Holding(d)' /\ task'[c] = task'[d] => c = d
    BY <1>1, <1>2 DEF L1Inv
  <1>7. \A k \in L1Tasks : Piece(k) \in act' => k < L1TaskHead'
    BY <1>1, <1>3 DEF L1Inv
  <1> QED BY <1>1, <1>4, <1>5, <1>6, <1>7 DEF L1Inv, TileOf, Piece

LEMMA L1Step ==
  ASSUME Work, NEW b \in Blocks, Step(b) \/ Store(b)
  PROVE  L1Inv'
  <1>a. Others(b) /\ Typed /\ L1Inv /\ PullInv /\ L1TaskHead \in Nat
    BY OthersKeep DEF Work, WorkInv, Typed, TypeInv
  <1>b. ~ Reset(b)
    BY DEF Work, Running, Reset
  <1>c. \A c \in Blocks \ {b} :
          /\ pc'[c] = pc[c] /\ task'[c] = task[c] /\ L1Subtile(c)' = L1Subtile(c)
          /\ Holding(c)' <=> Holding(c)
    BY <1>a DEF Others, L1Subtile, Holding
  <1>1. CASE L1Claim(b)
    <2>1. L1TaskHead' = L1TaskHead + 1 /\ UNCHANGED <<xPool, act>> /\ pc[b] = "l1Claim"
          /\ L1TaskHead' \in Nat /\ L1TaskHead <= L1TaskHead'
      BY <1>1, <1>a DEF L1Claim, data
    <2>2. CASE L1TaskHead < total_l1_tasks
      <3>1. pc'[b] = "l1Wait" /\ task'[b] = L1TaskHead /\ L1TaskHead \in L1Tasks
        BY <1>1, <1>a, <2>2, Arrives, Numbers DEF L1Claim, Typed, TypeInv, L1Tasks
      <3>2. Piece(L1TaskHead) \notin act
        BY <1>a, <3>1 DEF L1Inv
      <3>3. \A k \in L1Tasks : k < L1TaskHead => k < L1TaskHead' /\ k # L1TaskHead
        BY <1>a, <2>1, Numbers
      <3>4. ASSUME NEW c \in Blocks \ {b}, Holding(c)'
            PROVE  /\ task'[c] \in L1Tasks /\ task'[c] < L1TaskHead'
                   /\ Piece(task'[c]) \notin act /\ task'[c] # task'[b]
        BY <1>a, <1>c, <3>1, <3>3, <3>4 DEF L1Inv
      <3>5. task'[b] < L1TaskHead'
        BY <1>a, <2>1, <3>1
      <3>6. ASSUME NEW c \in Blocks, pc'[c] = "compute"
            PROVE  L1Subtile(c)' \in ValidSubtiles /\ TileOf(L1Subtile(c)') \in xPool
        BY <1>a, <1>c, <3>1, <3>6 DEF L1Inv
      <3>7. \A c, d \in Blocks \ {b} :
              Holding(c)' /\ Holding(d)' /\ task'[c] = task'[d] => c = d
        BY <1>a, <1>c DEF L1Inv
      <3>8. \A k \in L1Tasks : Piece(k) \in act => k < L1TaskHead'
        BY <1>a, <3>3 DEF L1Inv
      <3>9. act' = act /\ xPool' = xPool
        BY <2>1
      <3> QED BY <1>a, <3>1, <3>2, <3>4, <3>5, <3>6, <3>7, <3>8, <3>9 DEF L1Inv, TileOf, Piece
    <2>3. CASE ~ (L1TaskHead < total_l1_tasks)
      <3>1. pc'[b] = "l2"
        BY <1>1, <1>a, <2>3, Arrives DEF L1Claim
      <3> QED BY <1>a, <2>1, <3>1, L1Frame
    <2> QED BY <2>2, <2>3
  <1>2. CASE L1Wait(b)
    <2> DEFINE s == L1Subtile(b)
    <2>1. pc[b] = "l1Wait" /\ tile_pull_done[TileOf(s)] # 0
          /\ UNCHANGED <<L1TaskHead, xPool, act>>
      BY <1>2 DEF L1Wait, counters, data
    <2>2. Holding(b)
      BY <2>1 DEF Holding
    <2>3. s \in Subtiles /\ TileOf(s) \in Tiles
      BY <1>a, <2>2, PieceFacts, TasksFacts DEF L1Inv, L1Subtile
    <2>4. CASE RowsOf[s] > 0
      <3>1. pc'[b] = "compute" /\ task' = task
        BY <1>2, <1>a, <2>4, Arrives DEF L1Wait, Typed, TypeInv
      <3>2. s \in ValidSubtiles
        BY <2>3, <2>4 DEF RowsOf, ValidSubtiles
      <3>3. TileOf(s) \in xPool
        BY <1>a, <2>1, <2>3 DEF PullInv
      <3>4. \A c \in Blocks : Holding(c)' => Holding(c)
        BY <1>c, <2>2
      <3>5. ASSUME NEW c \in Blocks, pc'[c] = "compute"
            PROVE  L1Subtile(c)' \in ValidSubtiles /\ TileOf(L1Subtile(c)') \in xPool
        <4>1. CASE c = b
          <5>1. L1Subtile(c)' = s
            BY <3>1, <4>1 DEF L1Subtile
          <5> QED BY <3>2, <3>3, <5>1
        <4>2. CASE c # b
          BY <1>a, <1>c, <3>5, <4>2 DEF L1Inv
        <4> QED BY <4>1, <4>2
      <3>6. act' = act /\ xPool' = xPool /\ L1TaskHead' = L1TaskHead
        BY <2>1
      <3> QED BY <1>a, <3>1, <3>4, <3>5, <3>6 DEF L1Inv, TileOf, Piece
    <2>5. CASE ~ (RowsOf[s] > 0)
      <3>1. pc'[b] \in {"reserve", "group", "l2"}
        BY <1>2, <1>a, <2>5, Arrives DEF L1Wait, EnqueueStart
      <3> QED BY <1>a, <2>1, <3>1, L1Frame
    <2> QED BY <2>4, <2>5
  <1>3. CASE Compute(b)
    <2> DEFINE p == Piece(task[b])
    <2>1. pc[b] = "compute" /\ pc'[b] = "count" /\ UNCHANGED <<L1TaskHead, xPool>>
      BY <1>3, <1>a, Arrives DEF Compute, counters
    <2>2. Holding(b) /\ task[b] \in L1Tasks /\ task[b] < L1TaskHead
      BY <1>a, <2>1 DEF Holding, L1Inv
    <2>3. act' = act \union {p} /\ p \in ValidSubtiles \X Chunks
      <3>1. p = <<L1Subtile(b), Decoded[task[b]].chunk>> /\ p \in Subtiles \X Chunks
        BY <2>2, PieceFacts DEF L1Subtile
      <3>2. L1Subtile(b) \in ValidSubtiles
        BY <1>a, <2>1 DEF L1Inv
      <3> QED BY <1>3, <3>1, <3>2 DEF Compute
    <2>4. ASSUME NEW c \in Blocks, Holding(c)'
          PROVE  /\ c # b /\ Holding(c) /\ task'[c] = task[c]
                 /\ task[c] \in L1Tasks /\ task[c] < L1TaskHead /\ Piece(task[c]) \notin act'
      <3>1. c # b /\ Holding(c) /\ task'[c] = task[c]
        BY <1>c, <2>1, <2>4 DEF Holding
      <3>2. task[c] \in L1Tasks /\ task[c] < L1TaskHead /\ Piece(task[c]) \notin act
            /\ task[c] # task[b]
        BY <1>a, <2>2, <3>1 DEF L1Inv
      <3>3. Piece(task[c]) # p
        BY <2>2, <3>2, PieceFacts
      <3> QED BY <2>3, <3>1, <3>2, <3>3
    <2>5. ASSUME NEW c \in Blocks, pc'[c] = "compute"
          PROVE  L1Subtile(c)' \in ValidSubtiles /\ TileOf(L1Subtile(c)') \in xPool
      BY <1>a, <1>c, <2>1, <2>5 DEF L1Inv
    <2>6. \A k \in L1Tasks : Piece(k) \in act' => k < L1TaskHead
      BY <1>a, <2>2, <2>3, PieceFacts DEF L1Inv
    <2>7. act' \subseteq ValidSubtiles \X Chunks
      BY <1>a, <2>3 DEF L1Inv
    <2>8. xPool' = xPool /\ L1TaskHead' = L1TaskHead
      BY <2>1
    <2>9. \A c, d \in Blocks : Holding(c)' /\ Holding(d)' /\ task'[c] = task'[d] => c = d
      BY <1>a, <2>4 DEF L1Inv
    <2> QED BY <2>4, <2>5, <2>6, <2>7, <2>8, <2>9 DEF L1Inv, TileOf, Piece
  <1>4. CASE PullLoad(b)
    BY <1>4, Arrives, L1Frame, <1>a DEF PullLoad, priv, flags, counters, data
  <1>5. CASE PullClaim(b)
    BY <1>5, Arrives, L1Frame, <1>a DEF PullClaim, flags, data
  <1>6. CASE Copy(b)
    BY <1>6, Arrives, L1Frame, <1>a DEF Copy, priv, flags, counters
  <1>7. CASE Publish(b)
    BY <1>7, Arrives, L1Frame, <1>a DEF Publish, priv, counters, data
  <1>8. CASE L1Load(b)
    BY <1>8, Arrives, L1Frame, <1>a DEF L1Load, priv, flags, counters, data
  <1>9. CASE Count(b)
    BY <1>9, Arrives, L1Frame, <1>a DEF Count, priv, counters, data
  <1>10. CASE Quant(b)
    BY <1>10, Arrives, L1Frame, <1>a DEF Quant, EnqueueStart, priv, flags, counters
  <1>11. CASE GroupDone(b)
    BY <1>11, Arrives, L1Frame, <1>a DEF GroupDone, priv, counters, data
  <1>12. CASE Reserve(b)
    BY <1>12, Arrives, L1Frame, <1>a DEF Reserve, flags, data
  <1>13. CASE Fill(b)
    BY <1>13, Arrives, L1Frame, <1>a DEF Fill, priv, counters, data
  <1>14. CASE Ready(b)
    BY <1>14, Arrives, L1Frame, <1>a DEF Ready, counters, data
  <1>15. CASE L2Load(b)
    BY <1>15, Arrives, L1Frame, <1>a DEF L2Load, flags, counters, data
  <1>16. CASE L2Claim(b)
    BY <1>16, Arrives, L1Frame, <1>a DEF L2Claim, priv, flags, data
  <1>17. CASE L2Wait(b)
    BY <1>17, Arrives, L1Frame, <1>a DEF L2Wait, flags, counters, data
  <1>18. CASE L2Count(b)
    BY <1>18, Arrives, L1Frame, <1>a DEF L2Count, priv, flags, data
  <1>19. CASE StopLoad(b)
    BY <1>19, Arrives, L1Frame, <1>a DEF StopLoad, priv, flags, counters, data
  <1>20. CASE Sync(b)
    BY <1>20, Arrives, L1Frame, <1>a DEF Sync, priv, flags, counters, data
  <1>21. CASE Barrier(b)
    BY <1>21, Arrives, L1Frame, <1>a DEF Barrier, priv, flags, counters, data
  <1>22. CASE Store(b)
    BY <1>22, <1>a DEF Store, counters, L1Inv, Holding, L1Subtile, TileOf, Piece
  <1> QED BY <1>b, <1>1, <1>2, <1>3, <1>4, <1>5, <1>6, <1>7, <1>8, <1>9, <1>10, <1>11, <1>12,
            <1>13, <1>14, <1>15, <1>16, <1>17, <1>18, <1>19, <1>20, <1>21, <1>22 DEF Step

-----------------------------------------------------------------------------
(* CountInv.                                                                *)

LEMMA CountSets ==
  ASSUME NEW s
  PROVE  /\ IsFiniteSet(Counting(s)) /\ Cardinality(Counting(s)) \in Nat
         /\ IsFiniteSet(Computed(s)) /\ Cardinality(Computed(s)) \in 0 .. NumInterChunks
         /\ Cardinality(Computed(s)) = NumInterChunks => Computed(s) = Chunks
  <1>1. IsFiniteSet(Counting(s)) /\ Counting(s) \subseteq Blocks
    BY DataFinite, FS_Subset DEF Counting
  <1>2. Computed(s) \subseteq Chunks
    BY DEF Computed
  <1>3. /\ IsFiniteSet(Computed(s)) /\ Cardinality(Computed(s)) <= Cardinality(Chunks)
        /\ Cardinality(Computed(s)) = Cardinality(Chunks) => Computed(s) = Chunks
    BY <1>2, DataFinite, FS_Subset
  <1>4. Cardinality(Counting(s)) \in Nat /\ Cardinality(Computed(s)) \in Nat
    BY <1>1, <1>3, FS_CardinalityType
  <1>5. Cardinality(Computed(s)) <= NumInterChunks /\ NumInterChunks \in Nat
    BY <1>3, DataFinite, Numbers
  <1> QED BY <1>1, <1>3, <1>4, <1>5, DataFinite

LEMMA CountFrame ==
  ASSUME Work, NEW b \in Blocks, Others(b), pc[b] # "count", pc'[b] # "count",
         act' = act, l1_done_counts' = l1_done_counts
  PROVE  CountInv'
  <1>1. CountInv
    BY DEF Work, WorkInv
  <1>2. \A c \in Blocks : pc'[c] = "count" => pc[c] = "count" /\ task'[c] = task[c]
    BY DEF Others
  <1>3. \A c \in Blocks : pc[c] = "count" => pc'[c] = "count" /\ task'[c] = task[c]
    BY DEF Others
  <1>4. \A s : Counting(s)' = Counting(s) /\ Computed(s)' = Computed(s)
    BY <1>2, <1>3 DEF Counting, Computed
  <1> QED BY <1>1, <1>2, <1>4 DEF CountInv

LEMMA CountStep ==
  ASSUME Work, NEW b \in Blocks, Step(b) \/ Store(b)
  PROVE  CountInv'
  <1>a. Others(b) /\ Typed /\ L1Inv /\ CountInv
    BY OthersKeep DEF Work, WorkInv
  <1>b. ~ Reset(b)
    BY DEF Work, Running, Reset
  <1>c. \A c \in Blocks \ {b} : pc'[c] = pc[c] /\ task'[c] = task[c]
    BY <1>a DEF Others
  <1>d. \A s \in Subtiles : l1_done_counts[s] \in Nat
    BY <1>a, Numbers DEF Typed, TypeInv
  <1>1. CASE Compute(b)
    <2>1. /\ pc[b] = "compute" /\ pc'[b] = "count" /\ l1_done_counts' = l1_done_counts
          /\ task'[b] = L1Subtile(b)
          /\ act' = act \union {<<L1Subtile(b), Decoded[task[b]].chunk>>}
      BY <1>1, <1>a, Arrives DEF Compute, flags, Typed, TypeInv
    <2>2. task[b] \in L1Tasks /\ Piece(task[b]) \notin act /\ L1Subtile(b) \in ValidSubtiles
      BY <1>a, <2>1 DEF L1Inv, Holding
    <2>3. PICK s \in Subtiles, c \in Chunks :
            s = L1Subtile(b) /\ c = Decoded[task[b]].chunk /\ <<s, c>> \notin act
      BY <2>2, PieceFacts DEF L1Subtile
    <2>4. Counting(s)' = Counting(s) \union {b} /\ b \notin Counting(s)
      BY <1>c, <2>1, <2>3 DEF Counting
    <2>5. Computed(s)' = Computed(s) \union {c} /\ c \notin Computed(s)
      BY <2>1, <2>3 DEF Computed
    <2>6. Cardinality(Counting(s)') = Cardinality(Counting(s)) + 1
      BY <2>4, CountSets, FS_AddElement
    <2>7. Cardinality(Computed(s)') = Cardinality(Computed(s)) + 1
      BY <2>5, CountSets, FS_AddElement
    <2>8. ASSUME NEW t \in Subtiles, t # s
          PROVE  Counting(t)' = Counting(t) /\ Computed(t)' = Computed(t)
      BY <1>c, <2>1, <2>3, <2>8 DEF Counting, Computed
    <2>9. ASSUME NEW t \in Subtiles
          PROVE  l1_done_counts'[t] + Cardinality(Counting(t)') = Cardinality(Computed(t)')
      <3>1. l1_done_counts[t] + Cardinality(Counting(t)) = Cardinality(Computed(t))
        BY <1>a DEF CountInv
      <3>2. CASE t = s
        <4>1. Cardinality(Counting(s)) \in Nat /\ Cardinality(Computed(s)) \in Nat
              /\ l1_done_counts[s] \in Nat
          BY <1>d, <2>3, CountSets
        <4> QED BY <2>1, <2>6, <2>7, <3>1, <3>2, <4>1
      <3>3. CASE t # s
        BY <2>1, <2>8, <3>1, <3>3
      <3> QED BY <3>2, <3>3
    <2>10. \A d \in Blocks : pc'[d] = "count" => task'[d] \in ValidSubtiles
      BY <1>a, <1>c, <2>1, <2>2 DEF CountInv
    <2> QED BY <2>9, <2>10 DEF CountInv
  <1>2. CASE Count(b)
    <2>1. /\ pc[b] = "count" /\ task' = task /\ act' = act
          /\ pc'[b] \in {"quant", "l2"}
      BY <1>2, <1>a, Arrives DEF Count, priv, data
    <2>2. PICK s \in Subtiles : s = task[b]
      BY <1>a, <2>1, Numbers DEF CountInv
    <2>3. /\ l1_done_counts'[s] = l1_done_counts[s] + 1
          /\ \A t \in Subtiles : t # s => l1_done_counts'[t] = l1_done_counts[t]
      BY <1>2, <1>a, <2>2 DEF Count, Typed, TypeInv
    <2>4. Counting(s)' = Counting(s) \ {b} /\ b \in Counting(s)
      BY <1>c, <2>1, <2>2 DEF Counting
    <2>5. Cardinality(Counting(s)') = Cardinality(Counting(s)) - 1
      BY <2>4, CountSets, FS_RemoveElement
    <2>6. \A t : Computed(t)' = Computed(t)
      BY <2>1 DEF Computed
    <2>7. ASSUME NEW t \in Subtiles, t # s
          PROVE  Counting(t)' = Counting(t)
      BY <1>c, <2>1, <2>2, <2>7 DEF Counting
    <2>8. ASSUME NEW t \in Subtiles
          PROVE  l1_done_counts'[t] + Cardinality(Counting(t)') = Cardinality(Computed(t)')
      <3>1. l1_done_counts[t] + Cardinality(Counting(t)) = Cardinality(Computed(t))
        BY <1>a DEF CountInv
      <3>2. CASE t = s
        <4>1. Cardinality(Counting(s)) \in Nat /\ Cardinality(Computed(s)) \in Nat
              /\ l1_done_counts[s] \in Nat
          BY <1>d, <2>2, CountSets
        <4> QED BY <2>3, <2>5, <2>6, <3>1, <3>2, <4>1
      <3>3. CASE t # s
        BY <2>3, <2>6, <2>7, <3>1, <3>3
      <3> QED BY <3>2, <3>3
    <2>9. \A d \in Blocks : pc'[d] = "count" => task'[d] \in ValidSubtiles
      BY <1>a, <1>c, <2>1 DEF CountInv
    <2> QED BY <2>8, <2>9 DEF CountInv
  <1>3. CASE PullLoad(b)
    BY <1>3, Arrives, CountFrame, <1>a DEF PullLoad, priv, flags, counters, data
  <1>4. CASE PullClaim(b)
    BY <1>4, Arrives, CountFrame, <1>a DEF PullClaim, flags, data
  <1>5. CASE Copy(b)
    BY <1>5, Arrives, CountFrame, <1>a DEF Copy, priv, flags, counters
  <1>6. CASE Publish(b)
    BY <1>6, Arrives, CountFrame, <1>a DEF Publish, priv, counters, data
  <1>7. CASE L1Load(b)
    BY <1>7, Arrives, CountFrame, <1>a DEF L1Load, priv, flags, counters, data
  <1>8. CASE L1Claim(b)
    BY <1>8, Arrives, CountFrame, <1>a DEF L1Claim, flags, data
  <1>9. CASE L1Wait(b)
    BY <1>9, Arrives, CountFrame, <1>a DEF L1Wait, EnqueueStart, flags, counters, data
  <1>10. CASE Quant(b)
    BY <1>10, Arrives, CountFrame, <1>a DEF Quant, EnqueueStart, priv, flags, counters
  <1>11. CASE GroupDone(b)
    BY <1>11, Arrives, CountFrame, <1>a DEF GroupDone, priv, counters, data
  <1>12. CASE Reserve(b)
    BY <1>12, Arrives, CountFrame, <1>a DEF Reserve, flags, data
  <1>13. CASE Fill(b)
    BY <1>13, Arrives, CountFrame, <1>a DEF Fill, priv, counters, data
  <1>14. CASE Ready(b)
    BY <1>14, Arrives, CountFrame, <1>a DEF Ready, counters, data
  <1>15. CASE L2Load(b)
    BY <1>15, Arrives, CountFrame, <1>a DEF L2Load, flags, counters, data
  <1>16. CASE L2Claim(b)
    BY <1>16, Arrives, CountFrame, <1>a DEF L2Claim, priv, flags, data
  <1>17. CASE L2Wait(b)
    BY <1>17, Arrives, CountFrame, <1>a DEF L2Wait, flags, counters, data
  <1>18. CASE L2Count(b)
    BY <1>18, Arrives, CountFrame, <1>a DEF L2Count, priv, flags, data
  <1>19. CASE StopLoad(b)
    BY <1>19, Arrives, CountFrame, <1>a DEF StopLoad, priv, flags, counters, data
  <1>20. CASE Sync(b)
    BY <1>20, Arrives, CountFrame, <1>a DEF Sync, priv, flags, counters, data
  <1>21. CASE Barrier(b)
    BY <1>21, Arrives, CountFrame, <1>a DEF Barrier, priv, flags, counters, data
  <1>22. CASE Store(b)
    BY <1>22, <1>a DEF Store, flags, counters, CountInv, Counting, Computed
  <1> QED BY <1>b, <1>1, <1>2, <1>3, <1>4, <1>5, <1>6, <1>7, <1>8, <1>9, <1>10, <1>11, <1>12,
            <1>13, <1>14, <1>15, <1>16, <1>17, <1>18, <1>19, <1>20, <1>21, <1>22 DEF Step

-----------------------------------------------------------------------------
(* Which step opens a subtile.                                              *)

(* Block b counts the last chunk of a subtile, or sees the tile of one that *)
(* has no rows.                                                             *)
Opens(b) ==
  \/ Count(b) /\ l1_done_counts[task[b]] + 1 = NumInterChunks
  \/ L1Wait(b) /\ ~ (RowsOf[L1Subtile(b)] > 0) /\ Decoded[task[b]].chunk = 0

Waits(b, k) == pc[b] = "l1Wait" /\ task[b] = k

LEMMA OpenedFrame ==
  ASSUME Work, NEW b \in Blocks, Others(b),
         pc[b] # "l1Wait", pc'[b] # "l1Wait",
         UNCHANGED <<l1_done_counts, L1TaskHead>>, NEW s
  PROVE  Opened(s)' <=> Opened(s)
  <1>1. \A c \in Blocks : \A k : Waits(c, k)' <=> Waits(c, k)
    BY DEF Others, Waits
  <1> QED BY <1>1 DEF Opened, Waits, Piece

LEMMA OpenedSame ==
  ASSUME Work, NEW b \in Blocks, Step(b) \/ Store(b), ~ Opens(b), NEW s \in Subtiles
  PROVE  Opened(s)' <=> Opened(s)
  <1>a. Others(b) /\ Typed /\ L1Inv /\ CountInv /\ L1TaskHead \in Nat
    BY OthersKeep DEF Work, WorkInv, Typed, TypeInv
  <1>b. ~ Reset(b)
    BY DEF Work, Running, Reset
  <1>c. \A c \in Blocks \ {b} : \A k : Waits(c, k)' <=> Waits(c, k)
    BY <1>a DEF Others, Waits
  <1>1. CASE L1Claim(b)
    <2>1. /\ l1_done_counts' = l1_done_counts /\ L1TaskHead' = L1TaskHead + 1
          /\ pc[b] = "l1Claim" /\ task'[b] = L1TaskHead
      BY <1>1, <1>a DEF L1Claim, flags, Typed, TypeInv
    <2>2. L1TaskHead < total_l1_tasks => pc'[b] = "l1Wait"
      BY <1>1, <1>a, Arrives DEF L1Claim
    <2>3. ASSUME NEW k \in L1Tasks
          PROVE  (k < L1TaskHead' /\ \A c \in Blocks : ~ Waits(c, k)')
                   <=> (k < L1TaskHead /\ \A c \in Blocks : ~ Waits(c, k))
      <3>1. k \in Nat /\ k < total_l1_tasks /\ total_l1_tasks \in Nat
        BY Numbers DEF L1Tasks
      <3>2. CASE k < L1TaskHead
        <4>1. ~ Waits(b, k)' /\ ~ Waits(b, k) /\ k < L1TaskHead'
          BY <1>a, <2>1, <3>1, <3>2 DEF Waits
        <4> QED BY <1>c, <3>2, <4>1
      <3>3. CASE k = L1TaskHead
        <4>1. Waits(b, k)'
          BY <2>1, <2>2, <3>1, <3>3 DEF Waits
        <4> QED BY <1>a, <3>3, <4>1
      <3>4. CASE k > L1TaskHead
        <4>1. ~ (k < L1TaskHead') /\ ~ (k < L1TaskHead)
          BY <1>a, <2>1, <3>1, <3>4
        <4> QED BY <4>1
      <3> QED BY <1>a, <3>1, <3>2, <3>3, <3>4
    <2> QED BY <2>1, <2>3 DEF Opened, Waits, Piece
  <1>2. CASE L1Wait(b)
    <2> DEFINE t == L1Subtile(b)
    <2>1. /\ pc[b] = "l1Wait" /\ UNCHANGED <<l1_done_counts, L1TaskHead>>
          /\ ~ (~ (RowsOf[t] > 0) /\ Decoded[task[b]].chunk = 0)
      BY <1>2 DEF L1Wait, flags, counters, Opens
    <2>2. task[b] \in L1Tasks /\ Piece(task[b]) = <<t, Decoded[task[b]].chunk>> /\ t \in Subtiles
      BY <1>a, <2>1, PieceFacts DEF L1Inv, Holding, L1Subtile
    <2>3. pc'[b] # "l1Wait"
      BY <1>2, <1>a, Arrives DEF L1Wait, EnqueueStart
    <2>4. s \notin ValidSubtiles => Piece(task[b]) # <<s, 0>>
      BY <2>1, <2>2 DEF ValidSubtiles, RowsOf
    <2>5. ASSUME s \notin ValidSubtiles, NEW k \in L1Tasks, Piece(k) = <<s, 0>>
          PROVE  ~ Waits(b, k)' /\ ~ Waits(b, k)
      BY <2>3, <2>4, <2>5 DEF Waits
    <2>6. s \notin ValidSubtiles => (Opened(s)' <=> Opened(s))
      BY <1>c, <2>1, <2>5 DEF Opened, Waits, Piece
    <2>7. s \in ValidSubtiles => (Opened(s)' <=> Opened(s))
      BY <2>1 DEF Opened
    <2> QED BY <2>6, <2>7
  <1>3. CASE Count(b)
    <2>1. /\ pc[b] = "count" /\ task[b] \in ValidSubtiles /\ task[b] \in Subtiles
          /\ L1TaskHead' = L1TaskHead
      BY <1>3, <1>a, Numbers DEF Count, CountInv, counters
    <2>2. /\ l1_done_counts'[task[b]] = l1_done_counts[task[b]] + 1
          /\ \A t \in Subtiles : t # task[b] => l1_done_counts'[t] = l1_done_counts[t]
      BY <1>3, <1>a, <2>1 DEF Count, Typed, TypeInv
    <2>3. pc'[b] # "l1Wait"
      BY <1>3, <1>a, Arrives DEF Count
    <2>4. \A c \in Blocks : \A k : Waits(c, k)' <=> Waits(c, k)
      BY <1>c, <2>1, <2>3 DEF Waits
    <2>5. CASE s = task[b]
      <3>1. l1_done_counts[s] + 1 # NumInterChunks
        BY <1>3, <2>5 DEF Opens
      <3>2. l1_done_counts[s] # NumInterChunks
        <4>1. l1_done_counts[s] + Cardinality(Counting(s)) = Cardinality(Computed(s))
          BY <1>a DEF CountInv
        <4>2. b \in Counting(s)
          BY <2>1, <2>5 DEF Counting
        <4>3. Cardinality(Counting(s)) # 0
          BY <4>2, CountSets, FS_EmptySet
        <4>4. l1_done_counts[s] \in Nat
          BY <1>a, Numbers DEF Typed, TypeInv
        <4> QED BY <4>1, <4>3, <4>4, CountSets, Numbers
      <3> QED BY <2>1, <2>2, <2>5, <3>1, <3>2 DEF Opened
    <2>6. CASE s # task[b]
      <3>1. l1_done_counts'[s] = l1_done_counts[s]
        BY <2>2, <2>6
      <3> QED BY <2>1, <2>4, <3>1 DEF Opened, Waits, Piece
    <2> QED BY <2>5, <2>6
  <1>4. CASE PullLoad(b)
    BY <1>4, Arrives, OpenedFrame, <1>a DEF PullLoad, priv, flags, counters, data
  <1>5. CASE PullClaim(b)
    BY <1>5, Arrives, OpenedFrame, <1>a DEF PullClaim, flags, data
  <1>6. CASE Copy(b)
    BY <1>6, Arrives, OpenedFrame, <1>a DEF Copy, priv, flags, counters
  <1>7. CASE Publish(b)
    BY <1>7, Arrives, OpenedFrame, <1>a DEF Publish, priv, counters, data
  <1>8. CASE L1Load(b)
    BY <1>8, Arrives, OpenedFrame, <1>a DEF L1Load, priv, flags, counters, data
  <1>9. CASE Compute(b)
    BY <1>9, Arrives, OpenedFrame, <1>a DEF Compute, flags, counters
  <1>10. CASE Quant(b)
    BY <1>10, Arrives, OpenedFrame, <1>a DEF Quant, EnqueueStart, priv, flags, counters
  <1>11. CASE GroupDone(b)
    BY <1>11, Arrives, OpenedFrame, <1>a DEF GroupDone, priv, counters, data
  <1>12. CASE Reserve(b)
    BY <1>12, Arrives, OpenedFrame, <1>a DEF Reserve, flags, data
  <1>13. CASE Fill(b)
    BY <1>13, Arrives, OpenedFrame, <1>a DEF Fill, priv, counters, data
  <1>14. CASE Ready(b)
    BY <1>14, Arrives, OpenedFrame, <1>a DEF Ready, counters, data
  <1>15. CASE L2Load(b)
    BY <1>15, Arrives, OpenedFrame, <1>a DEF L2Load, flags, counters, data
  <1>16. CASE L2Claim(b)
    BY <1>16, Arrives, OpenedFrame, <1>a DEF L2Claim, priv, flags, data
  <1>17. CASE L2Wait(b)
    BY <1>17, Arrives, OpenedFrame, <1>a DEF L2Wait, flags, counters, data
  <1>18. CASE L2Count(b)
    BY <1>18, Arrives, OpenedFrame, <1>a DEF L2Count, priv, flags, data
  <1>19. CASE StopLoad(b)
    BY <1>19, Arrives, OpenedFrame, <1>a DEF StopLoad, priv, flags, counters, data
  <1>20. CASE Sync(b)
    BY <1>20, Arrives, OpenedFrame, <1>a DEF Sync, priv, flags, counters, data
  <1>21. CASE Barrier(b)
    BY <1>21, Arrives, OpenedFrame, <1>a DEF Barrier, priv, flags, counters, data
  <1>22. CASE Store(b)
    BY <1>22, <1>a DEF Store, flags, counters, Opened, Piece
  <1> QED BY <1>b, <1>1, <1>2, <1>3, <1>4, <1>5, <1>6, <1>7, <1>8, <1>9, <1>10, <1>11, <1>12,
            <1>13, <1>14, <1>15, <1>16, <1>17, <1>18, <1>19, <1>20, <1>21, <1>22 DEF Step

LEMMA OpenSame ==
  ASSUME Work, NEW b \in Blocks, Step(b) \/ Store(b), ~ Opens(b)
  PROVE  Open' = Open
  <1>1. \A s \in Subtiles : Opened(s)' <=> Opened(s)
    BY OpenedSame
  <1> QED BY <1>1 DEF Open

(* The step that opens a subtile makes its block the one that carries it.   *)
LEMMA OpensOne ==
  ASSUME Work, NEW b \in Blocks, Opens(b)
  PROVE  \E s \in Subtiles :
           /\ s \notin Open /\ Open' = Open \union {s}
           /\ task'[b] = s
           /\ pc[b] \in {"count", "l1Wait"}
           /\ pc'[b] = IF s \in ValidSubtiles THEN "quant" ELSE EnqueueStart
           /\ Others(b)
           /\ UNCHANGED <<l2_group_done_counts, l2_queue, l2_queue_ready, L2QueueTail, actFp8>>
  <1>a. Others(b) /\ Typed /\ L1Inv /\ CountInv /\ L1TaskHead \in Nat
    BY OthersKeep DEF Work, WorkInv, Typed, TypeInv, Opens, Step
  <1>c. \A c \in Blocks \ {b} : \A k : Waits(c, k)' <=> Waits(c, k)
    BY <1>a DEF Others, Waits
  <1>1. CASE Count(b) /\ l1_done_counts[task[b]] + 1 = NumInterChunks
    <2>1. /\ pc[b] = "count" /\ task' = task /\ L1TaskHead' = L1TaskHead
          /\ pc'[b] = "quant"
          /\ UNCHANGED <<l2_group_done_counts, l2_queue, l2_queue_ready, L2QueueTail, actFp8>>
      BY <1>1, <1>a, Arrives DEF Count, priv, counters, data
    <2>2. PICK s \in Subtiles : s = task[b] /\ s \in ValidSubtiles
      BY <1>a, <2>1, Numbers DEF CountInv
    <2>3. /\ l1_done_counts'[s] = l1_done_counts[s] + 1
          /\ \A t \in Subtiles : t # s => l1_done_counts'[t] = l1_done_counts[t]
      BY <1>1, <1>a, <2>2 DEF Count, Typed, TypeInv
    <2>4. \A c \in Blocks : \A k : Waits(c, k)' <=> Waits(c, k)
      BY <1>c, <2>1 DEF Waits
    <2>5. l1_done_counts[s] # NumInterChunks /\ l1_done_counts'[s] = NumInterChunks
      BY <1>1, <1>a, <2>2, <2>3, Numbers DEF Typed, TypeInv
    <2>6. ~ Opened(s) /\ Opened(s)'
      BY <2>2, <2>5 DEF Opened
    <2>7. \A t \in Subtiles : t # s => (Opened(t)' <=> Opened(t))
      BY <2>1, <2>3, <2>4 DEF Opened, Waits, Piece
    <2> QED BY <1>a, <2>1, <2>2, <2>6, <2>7 DEF Open
  <1>2. CASE L1Wait(b) /\ ~ (RowsOf[L1Subtile(b)] > 0) /\ Decoded[task[b]].chunk = 0
    <2>1. /\ pc[b] = "l1Wait" /\ task'[b] = L1Subtile(b) /\ pc'[b] = EnqueueStart
          /\ UNCHANGED <<l1_done_counts, L1TaskHead>>
          /\ UNCHANGED <<l2_group_done_counts, l2_queue, l2_queue_ready, L2QueueTail, actFp8>>
      BY <1>2, <1>a, Arrives DEF L1Wait, flags, counters, data, Typed, TypeInv
    <2>2. PICK s \in Subtiles, k0 \in L1Tasks :
            /\ s = L1Subtile(b) /\ k0 = task[b] /\ Piece(k0) = <<s, 0>> /\ k0 < L1TaskHead
      BY <1>2, <1>a, <2>1, PieceFacts DEF L1Inv, Holding, L1Subtile
    <2>3. s \notin ValidSubtiles
      BY <1>2, <2>2 DEF ValidSubtiles, RowsOf
    <2>4. \A k \in L1Tasks : Piece(k) = <<s, 0>> => k = k0
      BY <2>2, PieceFacts
    <2>5. Waits(b, k0) /\ \A k : ~ Waits(b, k)'
      BY <2>1, <2>2 DEF Waits, EnqueueStart
    <2>6. ~ Opened(s)
      BY <2>3, <2>4, <2>5 DEF Opened, Waits
    <2>7. \A c \in Blocks : ~ Waits(c, k0)'
      <3>1. ASSUME NEW c \in Blocks, c # b
            PROVE  ~ Waits(c, k0)
        BY <1>a, <2>1, <2>2, <3>1 DEF L1Inv, Holding, Waits
      <3> QED BY <1>c, <2>5, <3>1
    <2>8. Opened(s)'
      BY <2>1, <2>2, <2>3, <2>7 DEF Opened, Waits, Piece
    <2>9. ASSUME NEW t \in Subtiles, t # s
          PROVE  Opened(t)' <=> Opened(t)
      <3>1. \A k \in L1Tasks : Piece(k) = <<t, 0>> => k # k0
        BY <2>2, <2>9
      <3>2. \A k : k # k0 => (~ Waits(b, k) /\ ~ Waits(b, k)')
        BY <2>2, <2>5 DEF Waits
      <3>3. \A k \in L1Tasks : Piece(k) = <<t, 0>> =>
              \A c \in Blocks : Waits(c, k)' <=> Waits(c, k)
        BY <1>c, <3>1, <3>2
      <3> QED BY <2>1, <3>3 DEF Opened, Waits, Piece
    <2> QED BY <1>a, <2>1, <2>2, <2>3, <2>6, <2>8, <2>9 DEF Open
  <1> QED BY <1>1, <1>2 DEF Opens

-----------------------------------------------------------------------------
(* TokenInv.                                                                *)

LEMMA TokenFrame ==
  ASSUME Work, NEW b \in Blocks, Others(b), Open' = Open, actFp8' = actFp8,
         pc[b] # "quant", pc'[b] \notin {"quant", "group"},
         Carrying(b)' => Carrying(b) /\ task'[b] = task[b]
  PROVE  TokenInv'
  <1>1. TokenInv
    BY DEF Work, WorkInv
  <1>2. \A c \in Blocks \ {b} : pc'[c] = pc[c] /\ task'[c] = task[c]
    BY DEF Others
  <1>3. \A c \in Blocks : Carrying(c)' => Carrying(c) /\ task'[c] = task[c]
    BY <1>2 DEF Carrying
  <1>4. \A c \in Blocks : pc'[c] \in {"quant", "group"} => pc'[c] = pc[c] /\ task'[c] = task[c]
    BY <1>2
  <1>5. \A c \in Blocks : pc[c] = "quant" => pc'[c] = "quant" /\ task'[c] = task[c]
    BY <1>2
  <1> QED BY <1>1, <1>3, <1>4, <1>5 DEF TokenInv

LEMMA TokenStep ==
  ASSUME Work, NEW b \in Blocks, Step(b) \/ Store(b)
  PROVE  TokenInv'
  <1>a. Others(b) /\ Typed /\ TokenInv
    BY OthersKeep DEF Work, WorkInv
  <1>b. ~ Reset(b)
    BY DEF Work, Running, Reset
  <1>c. \A c \in Blocks \ {b} :
          /\ pc'[c] = pc[c] /\ task'[c] = task[c]
          /\ Carrying(c)' <=> Carrying(c)
    BY <1>a DEF Others, Carrying
  <1>1. CASE Opens(b)
    <2>1. PICK s \in Subtiles :
            /\ s \notin Open /\ Open' = Open \union {s} /\ task'[b] = s
            /\ pc[b] \in {"count", "l1Wait"}
            /\ pc'[b] = IF s \in ValidSubtiles THEN "quant" ELSE EnqueueStart
            /\ actFp8' = actFp8
      BY <1>1, OpensOne
    <2>2. s \notin actFp8
      BY <1>a, <2>1 DEF TokenInv
    <2>3. \A c \in Blocks \ {b} : Carrying(c)' => task'[c] \in Open /\ task'[c] # s
      BY <1>a, <1>c, <2>1 DEF TokenInv
    <2>4. \A c, d \in Blocks : Carrying(c)' /\ Carrying(d)' /\ task'[c] = task'[d] => c = d
      <3>1. \A c, d \in Blocks \ {b} :
              Carrying(c)' /\ Carrying(d)' /\ task'[c] = task'[d] => c = d
        BY <1>a, <1>c DEF TokenInv
      <3> QED BY <2>1, <2>3, <3>1
    <2>5. \A c \in Blocks : pc'[c] = "quant" => task'[c] \in ValidSubtiles \ actFp8
      BY <1>a, <1>c, <2>1, <2>2 DEF TokenInv, EnqueueStart
    <2>6. ASSUME NEW t \in ValidSubtiles \intersect Open'
          PROVE  t \in actFp8 \/ \E c \in Blocks : pc'[c] = "quant" /\ task'[c] = t
      <3>1. CASE t = s
        BY <2>1, <2>6, <3>1
      <3>2. CASE t # s
        <4>1. t \in actFp8 \/ \E c \in Blocks : pc[c] = "quant" /\ task[c] = t
          BY <1>a, <2>1, <2>6, <3>2 DEF TokenInv
        <4> QED BY <1>c, <2>1, <4>1
      <3> QED BY <3>1, <3>2
    <2>7. \A c \in Blocks : pc'[c] = "group" => L2Schedule # "SubtileMajor"
      BY <1>a, <1>c, <2>1 DEF TokenInv, EnqueueStart
    <2>8. \A c \in Blocks : Carrying(c)' => task'[c] \in Open'
      BY <2>1, <2>3
    <2>9. actFp8' \subseteq ValidSubtiles \intersect Open'
      BY <1>a, <2>1 DEF TokenInv
    <2>10. actFp8' = actFp8
      BY <2>1
    <2> QED BY <2>4, <2>5, <2>6, <2>7, <2>8, <2>9, <2>10 DEF TokenInv
  <1>2. CASE Quant(b)
    <2>1. /\ pc[b] = "quant" /\ pc'[b] = EnqueueStart /\ task' = task
          /\ actFp8' = actFp8 \union {task[b]}
      BY <1>2, <1>a, Arrives DEF Quant, priv
    <2>2. Open' = Open
      <3>1. ~ Opens(b)
        BY <2>1 DEF Opens, Count, L1Wait
      <3> QED BY <3>1, OpenSame
    <2>3. Carrying(b) /\ Carrying(b)' /\ task[b] \in ValidSubtiles \ actFp8
      BY <1>a, <2>1 DEF Carrying, EnqueueStart, TokenInv
    <2>4. \A c \in Blocks : (Carrying(c)' <=> Carrying(c)) /\ task'[c] = task[c]
      BY <1>c, <2>1, <2>3
    <2>5. ASSUME NEW c \in Blocks, pc'[c] = "quant"
          PROVE  c # b /\ pc[c] = "quant" /\ task[c] \in ValidSubtiles \ actFp8'
      <3>1. c # b
        BY <2>1, <2>5 DEF EnqueueStart
      <3>2. pc[c] = "quant" /\ Carrying(c)
        BY <1>c, <2>5, <3>1 DEF Carrying
      <3>3. task[c] # task[b] /\ task[c] \in ValidSubtiles \ actFp8
        BY <1>a, <2>3, <3>1, <3>2 DEF TokenInv
      <3> QED BY <2>1, <3>1, <3>2, <3>3
    <2>6. ASSUME NEW t \in ValidSubtiles \intersect Open
          PROVE  t \in actFp8' \/ \E c \in Blocks : pc'[c] = "quant" /\ task'[c] = t
      <3>1. t \in actFp8 \/ \E c \in Blocks : pc[c] = "quant" /\ task[c] = t
        BY <1>a, <2>6 DEF TokenInv
      <3> QED BY <1>c, <2>1, <3>1
    <2>7. \A c \in Blocks : pc'[c] = "group" => L2Schedule # "SubtileMajor"
      BY <1>a, <1>c, <2>1 DEF TokenInv, EnqueueStart
    <2>8. actFp8' \subseteq ValidSubtiles \intersect Open'
      BY <1>a, <2>1, <2>2, <2>3 DEF TokenInv
    <2>9. \A c, d \in Blocks : Carrying(c)' /\ Carrying(d)' /\ task'[c] = task'[d] => c = d
      BY <1>a, <2>4 DEF TokenInv
    <2>10. \A c \in Blocks : Carrying(c)' => task'[c] \in Open'
      BY <1>a, <2>2, <2>4 DEF TokenInv
    <2> QED BY <2>2, <2>4, <2>5, <2>6, <2>7, <2>8, <2>9, <2>10 DEF TokenInv
  <1>d. ~ Opens(b) => Open' = Open
    BY OpenSame
  <1>3. CASE L1Wait(b) /\ ~ Opens(b)
    <2>1. pc[b] = "l1Wait" /\ pc'[b] \in {"compute", "l2"} /\ actFp8' = actFp8
      BY <1>3, <1>a, Arrives DEF L1Wait, Opens, data
    <2> QED BY <1>3, <1>a, <1>d, <2>1, TokenFrame DEF Carrying
  <1>4. CASE Count(b) /\ ~ Opens(b)
    <2>1. pc[b] = "count" /\ pc'[b] = "l2" /\ actFp8' = actFp8
      BY <1>4, <1>a, Arrives DEF Count, Opens, data
    <2> QED BY <1>4, <1>a, <1>d, <2>1, TokenFrame DEF Carrying
  <1>5. CASE PullLoad(b)
    BY <1>5, Arrives, TokenFrame, <1>a, <1>d DEF Carrying, Opens, Count, L1Wait, PullLoad, priv,
       flags, counters, data
  <1>6. CASE PullClaim(b)
    BY <1>6, Arrives, TokenFrame, <1>a, <1>d DEF Carrying, Opens, Count, L1Wait, PullClaim,
       flags, data
  <1>7. CASE Copy(b)
    BY <1>7, Arrives, TokenFrame, <1>a, <1>d DEF Carrying, Opens, Count, L1Wait, Copy, priv,
       flags, counters
  <1>8. CASE Publish(b)
    BY <1>8, Arrives, TokenFrame, <1>a, <1>d DEF Carrying, Opens, Count, L1Wait, Publish, priv,
       counters, data
  <1>9. CASE L1Load(b)
    BY <1>9, Arrives, TokenFrame, <1>a, <1>d DEF Carrying, Opens, Count, L1Wait, L1Load, priv,
       flags, counters, data
  <1>10. CASE L1Claim(b)
    BY <1>10, Arrives, TokenFrame, <1>a, <1>d DEF Carrying, Opens, Count, L1Wait, L1Claim,
       flags, data
  <1>11. CASE Compute(b)
    BY <1>11, Arrives, TokenFrame, <1>a, <1>d DEF Carrying, Opens, Count, L1Wait, Compute,
       flags, counters
  <1>12. CASE GroupDone(b)
    BY <1>12, Arrives, TokenFrame, <1>a, <1>d DEF Carrying, Opens, Count, L1Wait, GroupDone,
       priv, counters, data
  <1>13. CASE Reserve(b)
    BY <1>13, Arrives, TokenFrame, <1>a, <1>d DEF Carrying, Opens, Count, L1Wait, Reserve,
       flags, data
  <1>14. CASE Fill(b)
    BY <1>14, Arrives, TokenFrame, <1>a, <1>d DEF Carrying, Opens, Count, L1Wait, Fill, priv,
       counters, data
  <1>15. CASE Ready(b)
    BY <1>15, Arrives, TokenFrame, <1>a, <1>d DEF Carrying, Opens, Count, L1Wait, Ready,
       counters, data
  <1>16. CASE L2Load(b)
    BY <1>16, Arrives, TokenFrame, <1>a, <1>d DEF Carrying, Opens, Count, L1Wait, L2Load, flags,
       counters, data
  <1>17. CASE L2Claim(b)
    BY <1>17, Arrives, TokenFrame, <1>a, <1>d DEF Carrying, Opens, Count, L1Wait, L2Claim, priv,
       flags, data
  <1>18. CASE L2Wait(b)
    BY <1>18, Arrives, TokenFrame, <1>a, <1>d DEF Carrying, Opens, Count, L1Wait, L2Wait, flags,
       counters, data
  <1>19. CASE L2Count(b)
    BY <1>19, Arrives, TokenFrame, <1>a, <1>d DEF Carrying, Opens, Count, L1Wait, L2Count, priv,
       flags, data
  <1>20. CASE StopLoad(b)
    BY <1>20, Arrives, TokenFrame, <1>a, <1>d DEF Carrying, Opens, Count, L1Wait, StopLoad,
       priv, flags, counters, data
  <1>21. CASE Sync(b)
    BY <1>21, Arrives, TokenFrame, <1>a, <1>d DEF Carrying, Opens, Count, L1Wait, Sync, priv,
       flags, counters, data
  <1>22. CASE Barrier(b)
    BY <1>22, Arrives, TokenFrame, <1>a, <1>d DEF Carrying, Opens, Count, L1Wait, Barrier, priv,
       flags, counters, data
  <1>23. CASE Store(b)
    <2>1. ~ Opens(b) \/ Opens(b)
      OBVIOUS
    <2> QED BY <1>23, <1>a, <1>d, <1>1, <2>1 DEF Store, TokenInv, Carrying
  <1> QED BY <1>b, <1>1, <1>2, <1>3, <1>4, <1>5, <1>6, <1>7, <1>8, <1>9, <1>10, <1>11, <1>12,
            <1>13, <1>14, <1>15, <1>16, <1>17, <1>18, <1>19, <1>20, <1>21, <1>22, <1>23 DEF
            Step

-----------------------------------------------------------------------------
(* Which step adds a subtile to its group.                                  *)

Joins(b) ==
  \/ GroupDone(b)
  \/ L2Schedule = "SubtileMajor" /\ Quant(b)
  \/ L2Schedule = "SubtileMajor" /\ Opens(b) /\ L1Wait(b)

Entering(b, s) == pc[b] \in {"quant", "group"} /\ task[b] = s

LEMMA JoinedFrame ==
  ASSUME Work, NEW b \in Blocks, Others(b), Open' = Open,
         pc[b] \notin {"quant", "group"}, pc'[b] \notin {"quant", "group"}
  PROVE  Joined' = Joined
  <1>1. \A c \in Blocks : \A s : Entering(c, s)' <=> Entering(c, s)
    BY DEF Others, Entering
  <1> QED BY <1>1 DEF Joined, Entering

LEMMA JoinedSame ==
  ASSUME Work, NEW b \in Blocks, Step(b) \/ Store(b), ~ Joins(b)
  PROVE  Joined' = Joined
  <1>a. Others(b) /\ Typed /\ TokenInv
    BY OthersKeep DEF Work, WorkInv
  <1>b. ~ Reset(b) /\ ~ GroupDone(b)
    BY DEF Work, Running, Reset, Joins
  <1>c. \A c \in Blocks \ {b} : \A s : Entering(c, s)' <=> Entering(c, s)
    BY <1>a DEF Others, Entering
  <1>d. ~ Opens(b) => Open' = Open
    BY OpenSame
  <1>1. CASE Opens(b)
    <2>1. PICK s \in Subtiles :
            /\ s \notin Open /\ Open' = Open \union {s} /\ task'[b] = s
            /\ pc[b] \in {"count", "l1Wait"}
            /\ pc'[b] = IF s \in ValidSubtiles THEN "quant" ELSE EnqueueStart
      BY <1>1, OpensOne
    <2>2. pc'[b] \in {"quant", "group"}
      <3>1. CASE Count(b)
        <4>1. pc'[b] \in {"quant", "l2"}
          BY <1>a, <3>1, Arrives DEF Count
        <4> QED BY <2>1, <4>1 DEF EnqueueStart
      <3>2. CASE L1Wait(b)
        BY <1>1, <2>1, <3>2 DEF Joins, EnqueueStart
      <3> QED BY <1>1, <3>1, <3>2 DEF Opens
    <2>3. Entering(b, s)' /\ \A t : ~ Entering(b, t) /\ (t # s => ~ Entering(b, t)')
      BY <2>1, <2>2 DEF Entering
    <2>4. \A t \in Subtiles \ {s}, c \in Blocks : Entering(c, t)' <=> Entering(c, t)
      BY <1>c, <2>3
    <2>5. s \notin Joined' /\ s \notin Joined
      BY <2>1, <2>3 DEF Joined, Entering
    <2>6. \A t \in Subtiles \ {s} : t \in Joined' <=> t \in Joined
      BY <2>1, <2>4 DEF Joined, Entering
    <2> QED BY <2>5, <2>6 DEF Joined, Open
  <1>2. CASE Quant(b)
    <2>1. pc[b] = "quant" /\ pc'[b] = "group" /\ task' = task
      BY <1>2, <1>a, Arrives DEF Quant, priv, Joins, EnqueueStart
    <2>2. \A c \in Blocks : \A s : Entering(c, s)' <=> Entering(c, s)
      BY <1>c, <2>1 DEF Entering
    <2>3. ~ Opens(b)
      BY <2>1 DEF Opens, Count, L1Wait
    <2> QED BY <1>d, <2>2, <2>3 DEF Joined, Entering
  <1>3. CASE L1Wait(b) /\ ~ Opens(b)
    <2>1. pc[b] = "l1Wait" /\ pc'[b] \in {"compute", "l2"}
      BY <1>3, <1>a, Arrives DEF L1Wait, Opens
    <2> QED BY <1>3, <1>a, <1>d, <2>1, JoinedFrame
  <1>4. CASE Count(b) /\ ~ Opens(b)
    <2>1. pc[b] = "count" /\ pc'[b] = "l2"
      BY <1>4, <1>a, Arrives DEF Count, Opens
    <2> QED BY <1>4, <1>a, <1>d, <2>1, JoinedFrame
  <1>5. CASE PullLoad(b)
    BY <1>5, Arrives, JoinedFrame, <1>a, <1>d DEF Opens, Count, L1Wait, PullLoad, priv, flags,
       counters, data
  <1>6. CASE PullClaim(b)
    BY <1>6, Arrives, JoinedFrame, <1>a, <1>d DEF Opens, Count, L1Wait, PullClaim, flags, data
  <1>7. CASE Copy(b)
    BY <1>7, Arrives, JoinedFrame, <1>a, <1>d DEF Opens, Count, L1Wait, Copy, priv, flags,
       counters
  <1>8. CASE Publish(b)
    BY <1>8, Arrives, JoinedFrame, <1>a, <1>d DEF Opens, Count, L1Wait, Publish, priv, counters,
       data
  <1>9. CASE L1Load(b)
    BY <1>9, Arrives, JoinedFrame, <1>a, <1>d DEF Opens, Count, L1Wait, L1Load, priv, flags,
       counters, data
  <1>10. CASE L1Claim(b)
    BY <1>10, Arrives, JoinedFrame, <1>a, <1>d DEF Opens, Count, L1Wait, L1Claim, flags, data
  <1>11. CASE Compute(b)
    BY <1>11, Arrives, JoinedFrame, <1>a, <1>d DEF Opens, Count, L1Wait, Compute, flags, counters
  <1>12. CASE Reserve(b)
    BY <1>12, Arrives, JoinedFrame, <1>a, <1>d DEF Opens, Count, L1Wait, Reserve, flags, data
  <1>13. CASE Fill(b)
    BY <1>13, Arrives, JoinedFrame, <1>a, <1>d DEF Opens, Count, L1Wait, Fill, priv, counters,
       data
  <1>14. CASE Ready(b)
    BY <1>14, Arrives, JoinedFrame, <1>a, <1>d DEF Opens, Count, L1Wait, Ready, counters, data
  <1>15. CASE L2Load(b)
    BY <1>15, Arrives, JoinedFrame, <1>a, <1>d DEF Opens, Count, L1Wait, L2Load, flags,
       counters, data
  <1>16. CASE L2Claim(b)
    BY <1>16, Arrives, JoinedFrame, <1>a, <1>d DEF Opens, Count, L1Wait, L2Claim, priv, flags,
       data
  <1>17. CASE L2Wait(b)
    BY <1>17, Arrives, JoinedFrame, <1>a, <1>d DEF Opens, Count, L1Wait, L2Wait, flags,
       counters, data
  <1>18. CASE L2Count(b)
    BY <1>18, Arrives, JoinedFrame, <1>a, <1>d DEF Opens, Count, L1Wait, L2Count, priv, flags,
       data
  <1>19. CASE StopLoad(b)
    BY <1>19, Arrives, JoinedFrame, <1>a, <1>d DEF Opens, Count, L1Wait, StopLoad, priv, flags,
       counters, data
  <1>20. CASE Sync(b)
    BY <1>20, Arrives, JoinedFrame, <1>a, <1>d DEF Opens, Count, L1Wait, Sync, priv, flags,
       counters, data
  <1>21. CASE Barrier(b)
    BY <1>21, Arrives, JoinedFrame, <1>a, <1>d DEF Opens, Count, L1Wait, Barrier, priv, flags,
       counters, data
  <1>22. CASE Store(b) /\ ~ Opens(b)
    BY <1>22, <1>a, <1>d DEF Store, Joined
  <1> QED BY <1>b, <1>1, <1>2, <1>3, <1>4, <1>5, <1>6, <1>7, <1>8, <1>9, <1>10, <1>11, <1>12,
            <1>13, <1>14, <1>15, <1>16, <1>17, <1>18, <1>19, <1>20, <1>21, <1>22 DEF Step

LEMMA JoinsOne ==
  ASSUME Work, NEW b \in Blocks, Joins(b)
  PROVE  \E s \in Subtiles :
           /\ s \notin Joined /\ Joined' = Joined \union {s} /\ task'[b] = s
           /\ \A c \in Blocks \ {b} : ~ (Carrying(c) /\ task[c] = s)
           /\ ~ Queueing(b)
           /\ GroupDone(b) => s = task[b] /\ L2Schedule # "SubtileMajor"
           /\ ~ GroupDone(b) => /\ L2Schedule = "SubtileMajor" /\ pc'[b] = "reserve"
                                /\ l2_group_done_counts' = l2_group_done_counts
           /\ UNCHANGED <<l2_queue, l2_queue_ready, L2QueueTail>>
           /\ Others(b)
  <1>a. Others(b) /\ Typed /\ TokenInv
    BY OthersKeep DEF Work, WorkInv, Joins, Step, Opens
  <1>c. \A c \in Blocks \ {b} : \A s : Entering(c, s)' <=> Entering(c, s)
    BY <1>a DEF Others, Entering
  <1>d. ~ Opens(b) /\ (GroupDone(b) \/ Quant(b)) => Open' = Open
    BY OpenSame DEF Step
  <1>1. CASE GroupDone(b) \/ (L2Schedule = "SubtileMajor" /\ Quant(b))
    <2>1. /\ pc[b] \in {"quant", "group"} /\ pc'[b] \in {"reserve", "l2"} /\ task' = task
          /\ UNCHANGED <<l2_queue, l2_queue_ready, L2QueueTail>>
          /\ ~ GroupDone(b) => /\ L2Schedule = "SubtileMajor" /\ pc'[b] = "reserve"
                               /\ l2_group_done_counts' = l2_group_done_counts
      BY <1>1, <1>a, Arrives DEF GroupDone, Quant, EnqueueStart, priv, flags, counters
    <2>2. Open' = Open
      BY <1>1, <1>d, <2>1 DEF Opens, Count, L1Wait
    <2>3. task[b] \in Open /\ Carrying(b)
      BY <1>a, <2>1 DEF TokenInv, Carrying
    <2>4. PICK s \in Subtiles : s = task[b] /\ s \in Open
      BY <2>3 DEF Open
    <2>5. \A c \in Blocks \ {b} : ~ (Carrying(c) /\ task[c] = s)
      BY <1>a, <2>3, <2>4 DEF TokenInv
    <2>6. \A c \in Blocks \ {b} : ~ Entering(c, s) /\ ~ Entering(c, s)'
      BY <1>c, <2>5 DEF Entering, Carrying
    <2>7. Entering(b, s) /\ \A t : ~ Entering(b, t)' /\ (t # s => ~ Entering(b, t))
      BY <2>1, <2>4 DEF Entering
    <2>8. s \notin Joined /\ s \in Joined'
      BY <2>2, <2>4, <2>6, <2>7 DEF Joined, Entering
    <2>9. \A t \in Subtiles \ {s}, c \in Blocks : Entering(c, t)' <=> Entering(c, t)
      BY <1>c, <2>7
    <2>10. \A t \in Subtiles \ {s} : t \in Joined' <=> t \in Joined
      BY <2>2, <2>9 DEF Joined, Entering
    <2>11. Joined' = Joined \union {s}
      BY <2>8, <2>10 DEF Joined, Open
    <2>12. task'[b] = s /\ ~ Queueing(b)
      BY <2>1, <2>4 DEF Queueing
    <2>13. GroupDone(b) => s = task[b] /\ L2Schedule # "SubtileMajor"
      BY <1>a, <2>4 DEF GroupDone, TokenInv
    <2> QED BY <1>a, <2>1, <2>5, <2>8, <2>11, <2>12, <2>13
  <1>2. CASE L2Schedule = "SubtileMajor" /\ Opens(b) /\ L1Wait(b)
    <2>1. PICK s \in Subtiles :
            /\ s \notin Open /\ Open' = Open \union {s} /\ task'[b] = s
            /\ pc'[b] = IF s \in ValidSubtiles THEN "quant" ELSE EnqueueStart
            /\ UNCHANGED <<l2_group_done_counts, l2_queue, l2_queue_ready, L2QueueTail>>
      BY <1>2, OpensOne
    <2>2. pc[b] = "l1Wait" /\ pc'[b] # "quant"
      BY <1>2, <1>a, Arrives DEF L1Wait, EnqueueStart
    <2>3. pc'[b] = "reserve"
      BY <1>2, <2>1, <2>2 DEF EnqueueStart
    <2>4. \A c \in Blocks \ {b} : ~ (Carrying(c) /\ task[c] = s)
      BY <1>a, <2>1 DEF TokenInv
    <2>5. \A t : ~ Entering(b, t) /\ ~ Entering(b, t)'
      BY <2>2, <2>3 DEF Entering
    <2>6. \A c \in Blocks : \A t : Entering(c, t)' <=> Entering(c, t)
      BY <1>c, <2>5
    <2>7. \A c \in Blocks : ~ Entering(c, s)
      BY <2>4, <2>5 DEF Entering, Carrying
    <2>8. s \notin Joined /\ Joined' = Joined \union {s}
      BY <2>1, <2>6, <2>7 DEF Joined, Entering
    <2>9. ~ GroupDone(b) /\ ~ Queueing(b)
      BY <2>2 DEF GroupDone, Queueing
    <2> QED BY <1>2, <1>a, <2>1, <2>3, <2>4, <2>8, <2>9
  <1> QED BY <1>1, <1>2 DEF Joins

-----------------------------------------------------------------------------
(* GroupInv.                                                                *)

LEMMA GroupFrame ==
  ASSUME Work, NEW b \in Blocks, Others(b), Joined' = Joined,
         l2_group_done_counts' = l2_group_done_counts,
         Queueing(b)' => Queueing(b) /\ task'[b] = task[b]
  PROVE  GroupInv'
  <1>1. GroupInv
    BY DEF Work, WorkInv
  <1>2. \A c \in Blocks : Queueing(c)' => Queueing(c) /\ task'[c] = task[c]
    BY DEF Others, Queueing
  <1>3. \A c \in Blocks : Queueing(c)' => Members(task'[c]) \subseteq Joined'
    BY <1>1, <1>2 DEF GroupInv
  <1>4. \A c, d \in Blocks :
          Queueing(c)' /\ Queueing(d)' /\ task'[d] \in Members(task'[c]) => c = d
    BY <1>1, <1>2 DEF GroupInv
  <1>5. ASSUME L2Schedule # "SubtileMajor", NEW s \in Subtiles
        PROVE  l2_group_done_counts'[GroupOf(s).slot] = Cardinality(Members(s) \intersect Joined')
    BY <1>1, <1>5 DEF GroupInv
  <1> QED BY <1>3, <1>4, <1>5 DEF GroupInv, Members, GroupMembers, GroupOf

(* The counter of every group grows with its members.                       *)
LEMMA GroupCounts ==
  ASSUME Work, NEW b \in Blocks, GroupDone(b), NEW s \in Subtiles, s = task[b],
         s \notin Joined, Joined' = Joined \union {s}, L2Schedule # "SubtileMajor",
         NEW t \in Subtiles
  PROVE  l2_group_done_counts'[GroupOf(t).slot] = Cardinality(Members(t) \intersect Joined')
  <1>1. /\ Group[s] = GroupOf(s) /\ GroupOf(s).slot \in Subtiles
        /\ GroupOf(t).slot \in Subtiles
    BY GroupFacts
  <1>2. l2_group_done_counts' = [l2_group_done_counts EXCEPT ![GroupOf(s).slot] = @ + 1]
        /\ l2_group_done_counts \in [Subtiles -> Nat]
    BY <1>1 DEF GroupDone, Work, Typed, TypeInv
  <1>3. l2_group_done_counts[GroupOf(t).slot] = Cardinality(Members(t) \intersect Joined)
    BY DEF Work, WorkInv, GroupInv
  <1>4. CASE t \in Members(s)
    <2>1. GroupOf(t) = GroupOf(s) /\ s \in Members(t)
      BY <1>4, GroupFacts, MembersSame
    <2>2. /\ Members(t) \intersect Joined' = (Members(t) \intersect Joined) \union {s}
          /\ s \notin Members(t) \intersect Joined
      BY <2>1
    <2>3. IsFiniteSet(Members(t) \intersect Joined)
      <3>1. IsFiniteSet(Members(t)) /\ Members(t) \intersect Joined \subseteq Members(t)
        BY GroupFacts
      <3> QED BY <3>1, FS_Subset
    <2>4. Cardinality(Members(t) \intersect Joined')
            = Cardinality(Members(t) \intersect Joined) + 1
      BY <2>2, <2>3, FS_AddElement
    <2> QED BY <1>1, <1>2, <1>3, <2>1, <2>4
  <1>5. CASE t \notin Members(s)
    <2>1. GroupOf(t).slot # GroupOf(s).slot /\ s \notin Members(t)
      BY <1>5, GroupFacts, MembersSame
    <2>2. Members(t) \intersect Joined' = Members(t) \intersect Joined
      BY <2>1
    <2> QED BY <1>1, <1>2, <1>3, <2>1, <2>2
  <1> QED BY <1>4, <1>5

LEMMA GroupJoins ==
  ASSUME Work, NEW b \in Blocks, Joins(b)
  PROVE  GroupInv'
  <1>a. Typed /\ TokenInv /\ GroupInv
    BY DEF Work, WorkInv
  <1>1. PICK s \in Subtiles :
          /\ s \notin Joined /\ Joined' = Joined \union {s} /\ task'[b] = s
          /\ GroupDone(b) => s = task[b] /\ L2Schedule # "SubtileMajor"
          /\ ~ GroupDone(b) => L2Schedule = "SubtileMajor" /\ pc'[b] = "reserve"
          /\ Others(b)
    BY JoinsOne
  <1>2. \A c \in Blocks \ {b} : (Queueing(c)' <=> Queueing(c)) /\ task'[c] = task[c]
    BY <1>1 DEF Others, Queueing
  <1>3. ASSUME L2Schedule # "SubtileMajor", NEW t \in Subtiles
        PROVE  l2_group_done_counts'[GroupOf(t).slot] = Cardinality(Members(t) \intersect Joined')
    BY <1>1, <1>3, GroupCounts
  <1>4. ASSUME NEW c \in Blocks \ {b}, Queueing(c)
        PROVE  /\ Members(task[c]) \subseteq Joined /\ s \notin Members(task[c])
               /\ task[c] \notin Members(s)
    <2>1. task[c] \in Subtiles
      BY <1>a, <1>4 DEF TokenInv, Queueing, Carrying, Open
    <2>2. Members(task[c]) \subseteq Joined
      BY <1>a, <1>4 DEF GroupInv
    <2> QED BY <1>1, <2>1, <2>2, MembersSame
  <1>5. ASSUME Queueing(b)'
        PROVE  Members(s) \subseteq Joined'
    <2>1. CASE GroupDone(b)
      <3>1. l2_group_done_counts'[GroupOf(s).slot] = Cardinality(Members(s) \intersect Joined')
        BY <1>1, <1>3, <2>1
      <3>2. pc'[b] = IF l2_group_done_counts[GroupOf(s).slot] + 1 = GroupOf(s).size
                     THEN "reserve" ELSE "l2"
        BY <1>1, <1>a, <2>1, Arrives, GroupFacts DEF GroupDone
      <3>3. l2_group_done_counts'[GroupOf(s).slot] = l2_group_done_counts[GroupOf(s).slot] + 1
        BY <1>1, <1>a, <2>1, GroupFacts DEF GroupDone, Typed, TypeInv
      <3>4. Cardinality(Members(s) \intersect Joined') = Cardinality(Members(s))
        BY <1>5, <3>1, <3>2, <3>3, GroupFacts DEF Queueing
      <3>5. Members(s) \intersect Joined' = Members(s)
        <4>1. IsFiniteSet(Members(s)) /\ Members(s) \intersect Joined' \subseteq Members(s)
          BY GroupFacts
        <4> QED BY <3>4, <4>1, FS_Subset
      <3> QED BY <3>5
    <2>2. CASE ~ GroupDone(b)
      BY <1>1, <2>2, GroupFacts
    <2> QED BY <2>1, <2>2
  <1>6. \A c \in Blocks : Queueing(c)' => Members(task'[c]) \subseteq Joined'
    BY <1>1, <1>2, <1>4, <1>5
  <1>7. \A c, d \in Blocks :
          Queueing(c)' /\ Queueing(d)' /\ task'[d] \in Members(task'[c]) => c = d
    <2>1. \A c, d \in Blocks \ {b} :
            Queueing(c)' /\ Queueing(d)' /\ task'[d] \in Members(task'[c]) => c = d
      BY <1>a, <1>2 DEF GroupInv
    <2>2. \A c \in Blocks \ {b} :
            Queueing(c)' => task'[c] \notin Members(task'[b]) /\ task'[b] \notin Members(task'[c])
      BY <1>1, <1>2, <1>4
    <2> QED BY <2>1, <2>2
  <1> QED BY <1>3, <1>6, <1>7 DEF GroupInv, Members, GroupMembers, GroupOf

LEMMA GroupStep ==
  ASSUME Work, NEW b \in Blocks, Step(b) \/ Store(b)
  PROVE  GroupInv'
  <1>a. Others(b) /\ Typed /\ GroupInv
    BY OthersKeep DEF Work, WorkInv
  <1>b. ~ Reset(b)
    BY DEF Work, Running, Reset
  <1>d. ~ Joins(b) => Joined' = Joined
    BY JoinedSame
  <1>1. CASE Joins(b)
    BY <1>1, GroupJoins
  <1>2. CASE L1Wait(b) /\ ~ Joins(b)
    <2>1. pc'[b] \in {"compute", "l2", "group"}
      <3>1. RowsOf[L1Subtile(b)] > 0 => pc'[b] = "compute"
        BY <1>2, <1>a, Arrives DEF L1Wait
      <3>2. Decoded[task[b]].chunk # 0 => pc'[b] \in {"compute", "l2"}
        BY <1>2, <1>a, Arrives DEF L1Wait
      <3>3. L2Schedule # "SubtileMajor" => pc'[b] \in {"compute", "l2", "group"}
        BY <1>2, <1>a, Arrives DEF L1Wait, EnqueueStart
      <3> QED BY <1>2, <3>1, <3>2, <3>3 DEF Joins, Opens
    <2>2. l2_group_done_counts' = l2_group_done_counts
      BY <1>2 DEF L1Wait, flags
    <2> QED BY <1>2, <1>a, <1>d, <2>1, <2>2, GroupFrame DEF Queueing
  <1>3. CASE Quant(b) /\ ~ Joins(b)
    <2>1. pc'[b] = "group" /\ l2_group_done_counts' = l2_group_done_counts
      BY <1>3, <1>a, Arrives DEF Quant, Joins, EnqueueStart, flags
    <2> QED BY <1>3, <1>a, <1>d, <2>1, GroupFrame DEF Queueing
  <1>4. CASE PullLoad(b)
    BY <1>4, Arrives, GroupFrame, <1>a, <1>d DEF Queueing, Joins, GroupDone, Quant, L1Wait,
       PullLoad, priv, flags, counters, data
  <1>5. CASE PullClaim(b)
    BY <1>5, Arrives, GroupFrame, <1>a, <1>d DEF Queueing, Joins, GroupDone, Quant, L1Wait,
       PullClaim, flags, data
  <1>6. CASE Copy(b)
    BY <1>6, Arrives, GroupFrame, <1>a, <1>d DEF Queueing, Joins, GroupDone, Quant, L1Wait,
       Copy, priv, flags, counters
  <1>7. CASE Publish(b)
    BY <1>7, Arrives, GroupFrame, <1>a, <1>d DEF Queueing, Joins, GroupDone, Quant, L1Wait,
       Publish, priv, counters, data
  <1>8. CASE L1Load(b)
    BY <1>8, Arrives, GroupFrame, <1>a, <1>d DEF Queueing, Joins, GroupDone, Quant, L1Wait,
       L1Load, priv, flags, counters, data
  <1>9. CASE L1Claim(b)
    BY <1>9, Arrives, GroupFrame, <1>a, <1>d DEF Queueing, Joins, GroupDone, Quant, L1Wait,
       L1Claim, flags, data
  <1>10. CASE Compute(b)
    BY <1>10, Arrives, GroupFrame, <1>a, <1>d DEF Queueing, Joins, GroupDone, Quant, L1Wait,
       Compute, flags, counters
  <1>11. CASE Count(b)
    BY <1>11, Arrives, GroupFrame, <1>a, <1>d DEF Queueing, Joins, GroupDone, Quant, L1Wait,
       Count, priv, counters, data
  <1>12. CASE Reserve(b)
    BY <1>12, Arrives, GroupFrame, <1>a, <1>d DEF Queueing, Joins, GroupDone, Quant, L1Wait,
       Reserve, flags, data
  <1>13. CASE Fill(b)
    BY <1>13, Arrives, GroupFrame, <1>a, <1>d DEF Queueing, Joins, GroupDone, Quant, L1Wait,
       Fill, priv, counters, data
  <1>14. CASE Ready(b)
    BY <1>14, Arrives, GroupFrame, <1>a, <1>d DEF Queueing, Joins, GroupDone, Quant, L1Wait,
       Ready, counters, data
  <1>15. CASE L2Load(b)
    BY <1>15, Arrives, GroupFrame, <1>a, <1>d DEF Queueing, Joins, GroupDone, Quant, L1Wait,
       L2Load, flags, counters, data
  <1>16. CASE L2Claim(b)
    BY <1>16, Arrives, GroupFrame, <1>a, <1>d DEF Queueing, Joins, GroupDone, Quant, L1Wait,
       L2Claim, priv, flags, data
  <1>17. CASE L2Wait(b)
    BY <1>17, Arrives, GroupFrame, <1>a, <1>d DEF Queueing, Joins, GroupDone, Quant, L1Wait,
       L2Wait, flags, counters, data
  <1>18. CASE L2Count(b)
    BY <1>18, Arrives, GroupFrame, <1>a, <1>d DEF Queueing, Joins, GroupDone, Quant, L1Wait,
       L2Count, priv, flags, data
  <1>19. CASE StopLoad(b)
    BY <1>19, Arrives, GroupFrame, <1>a, <1>d DEF Queueing, Joins, GroupDone, Quant, L1Wait,
       StopLoad, priv, flags, counters, data
  <1>20. CASE Sync(b)
    BY <1>20, Arrives, GroupFrame, <1>a, <1>d DEF Queueing, Joins, GroupDone, Quant, L1Wait,
       Sync, priv, flags, counters, data
  <1>21. CASE Barrier(b)
    BY <1>21, Arrives, GroupFrame, <1>a, <1>d DEF Queueing, Joins, GroupDone, Quant, L1Wait,
       Barrier, priv, flags, counters, data
  <1>22. CASE GroupDone(b)
    BY <1>1, <1>22 DEF Joins
  <1>23. CASE Store(b) /\ ~ Joins(b)
    <2>1. l2_group_done_counts' = l2_group_done_counts /\ pc' = pc /\ task' = task
      BY <1>23 DEF Store, flags
    <2> QED BY <1>23, <1>a, <1>d, <2>1, GroupFrame DEF Queueing
  <1> QED BY <1>b, <1>1, <1>2, <1>3, <1>4, <1>5, <1>6, <1>7, <1>8, <1>9, <1>10, <1>11, <1>12,
            <1>13, <1>14, <1>15, <1>16, <1>17, <1>18, <1>19, <1>20, <1>21, <1>22, <1>23 DEF
            Step

-----------------------------------------------------------------------------
(* Which step queues a group.                                               *)

Reserving(b, s) == pc[b] = "reserve" /\ task[b] \in Members(s)

LEMMA QueuedFrame ==
  ASSUME Work, NEW b \in Blocks, Others(b), Joined' = Joined,
         pc[b] # "reserve", pc'[b] # "reserve"
  PROVE  Queued' = Queued
  <1>1. \A c \in Blocks : \A s :
          (pc'[c] = "reserve" /\ task'[c] \in Members(s)) <=> Reserving(c, s)
    BY DEF Others, Reserving
  <1> QED BY <1>1 DEF Queued, Reserving, Members, GroupMembers, GroupOf

LEMMA QueuedJoins ==
  ASSUME Work, NEW b \in Blocks, Joins(b)
  PROVE  Queued' = Queued
  <1>a. Typed /\ GroupInv
    BY DEF Work, WorkInv
  <1>1. PICK s \in Subtiles :
          /\ s \notin Joined /\ Joined' = Joined \union {s} /\ task'[b] = s
          /\ ~ Queueing(b)
          /\ GroupDone(b) => s = task[b] /\ L2Schedule # "SubtileMajor"
          /\ ~ GroupDone(b) => pc'[b] = "reserve"
          /\ Others(b)
    BY JoinsOne
  <1>2. Members(s) \subseteq Joined' => pc'[b] = "reserve"
    <2>1. CASE GroupDone(b)
      <3>1. l2_group_done_counts'[GroupOf(s).slot] = Cardinality(Members(s) \intersect Joined')
        BY <1>1, <2>1, GroupCounts
      <3>2. pc'[b] = IF l2_group_done_counts[GroupOf(s).slot] + 1 = GroupOf(s).size
                     THEN "reserve" ELSE "l2"
        BY <1>1, <1>a, <2>1, Arrives, GroupFacts DEF GroupDone
      <3>3. l2_group_done_counts'[GroupOf(s).slot] = l2_group_done_counts[GroupOf(s).slot] + 1
        BY <1>1, <1>a, <2>1, GroupFacts DEF GroupDone, Typed, TypeInv
      <3>4. ASSUME Members(s) \subseteq Joined'
            PROVE  Members(s) \intersect Joined' = Members(s)
        BY <3>4
      <3> QED BY <3>1, <3>2, <3>3, <3>4, GroupFacts
    <2>2. CASE ~ GroupDone(b)
      BY <1>1, <2>2
    <2> QED BY <2>1, <2>2
  <1>3. \A c \in Blocks \ {b} : \A t :
          (pc'[c] = "reserve" /\ task'[c] \in Members(t)) <=> Reserving(c, t)
    BY <1>1 DEF Others, Reserving
  <1>4. \A t : ~ Reserving(b, t)
    BY <1>1 DEF Reserving, Queueing
  <1>5. ASSUME NEW t \in Subtiles
        PROVE  (/\ Members(t) \subseteq Joined'
                /\ \A c \in Blocks : ~ (pc'[c] = "reserve" /\ task'[c] \in Members(t)))
               <=> /\ Members(t) \subseteq Joined
                   /\ \A c \in Blocks : ~ Reserving(c, t)
    <2>1. CASE s \in Members(t)
      <3>1. Members(t) = Members(s)
        BY <2>1, GroupFacts
      <3>2. ~ (Members(t) \subseteq Joined)
        BY <1>1, <2>1
      <3>3. Members(t) \subseteq Joined' => pc'[b] = "reserve" /\ task'[b] \in Members(t)
        BY <1>1, <1>2, <2>1, <3>1
      <3> QED BY <3>2, <3>3
    <2>2. CASE s \notin Members(t)
      <3>1. Members(t) \subseteq Joined' <=> Members(t) \subseteq Joined
        BY <1>1, <2>2
      <3>2. task'[b] \notin Members(t)
        BY <1>1, <2>2
      <3> QED BY <1>3, <1>4, <3>1, <3>2
    <2> QED BY <2>1, <2>2
  <1> QED BY <1>5 DEF Queued, Reserving, Members, GroupMembers, GroupOf

LEMMA QueuedSame ==
  ASSUME Work, NEW b \in Blocks, Step(b) \/ Store(b), ~ Reserve(b)
  PROVE  Queued' = Queued /\ QueuedTasks' = QueuedTasks
  <1>a. Others(b) /\ Typed
    BY OthersKeep DEF Work
  <1>b. ~ Reset(b)
    BY DEF Work, Running, Reset
  <1>d. ~ Joins(b) => Joined' = Joined
    BY JoinedSame
  <1> SUFFICES Queued' = Queued
    BY DEF QueuedTasks, SubtileOfL2
  <1>1. CASE Joins(b)
    BY <1>1, QueuedJoins
  <1>2. CASE L1Wait(b) /\ ~ Joins(b)
    <2>1. pc'[b] \in {"compute", "l2", "group"} /\ pc[b] = "l1Wait"
      <3>1. RowsOf[L1Subtile(b)] > 0 => pc'[b] = "compute"
        BY <1>2, <1>a, Arrives DEF L1Wait
      <3>2. Decoded[task[b]].chunk # 0 => pc'[b] \in {"compute", "l2"}
        BY <1>2, <1>a, Arrives DEF L1Wait
      <3>3. L2Schedule # "SubtileMajor" => pc'[b] \in {"compute", "l2", "group"}
        BY <1>2, <1>a, Arrives DEF L1Wait, EnqueueStart
      <3> QED BY <1>2, <3>1, <3>2, <3>3 DEF Joins, Opens, L1Wait
    <2> QED BY <1>2, <1>a, <1>d, <2>1, QueuedFrame
  <1>3. CASE Quant(b) /\ ~ Joins(b)
    <2>1. pc[b] = "quant" /\ pc'[b] = "group"
      BY <1>3, <1>a, Arrives DEF Quant, Joins, EnqueueStart
    <2> QED BY <1>3, <1>a, <1>d, <2>1, QueuedFrame
  <1>4. CASE Store(b) /\ ~ Joins(b)
    <2>1. pc' = pc /\ task' = task
      BY <1>4 DEF Store
    <2> QED BY <1>4, <1>d, <2>1 DEF Queued, Members, GroupMembers, GroupOf
  <1>5. CASE PullLoad(b)
    BY <1>5, Arrives, QueuedFrame, <1>a, <1>d DEF Joins, GroupDone, Quant, L1Wait, PullLoad,
       priv, flags, counters, data
  <1>6. CASE PullClaim(b)
    BY <1>6, Arrives, QueuedFrame, <1>a, <1>d DEF Joins, GroupDone, Quant, L1Wait, PullClaim,
       flags, data
  <1>7. CASE Copy(b)
    BY <1>7, Arrives, QueuedFrame, <1>a, <1>d DEF Joins, GroupDone, Quant, L1Wait, Copy, priv,
       flags, counters
  <1>8. CASE Publish(b)
    BY <1>8, Arrives, QueuedFrame, <1>a, <1>d DEF Joins, GroupDone, Quant, L1Wait, Publish,
       priv, counters, data
  <1>9. CASE L1Load(b)
    BY <1>9, Arrives, QueuedFrame, <1>a, <1>d DEF Joins, GroupDone, Quant, L1Wait, L1Load, priv,
       flags, counters, data
  <1>10. CASE L1Claim(b)
    BY <1>10, Arrives, QueuedFrame, <1>a, <1>d DEF Joins, GroupDone, Quant, L1Wait, L1Claim,
       flags, data
  <1>11. CASE Compute(b)
    BY <1>11, Arrives, QueuedFrame, <1>a, <1>d DEF Joins, GroupDone, Quant, L1Wait, Compute,
       flags, counters
  <1>12. CASE Count(b)
    BY <1>12, Arrives, QueuedFrame, <1>a, <1>d DEF Joins, GroupDone, Quant, L1Wait, Count, priv,
       counters, data
  <1>13. CASE Fill(b)
    BY <1>13, Arrives, QueuedFrame, <1>a, <1>d DEF Joins, GroupDone, Quant, L1Wait, Fill, priv,
       counters, data
  <1>14. CASE Ready(b)
    BY <1>14, Arrives, QueuedFrame, <1>a, <1>d DEF Joins, GroupDone, Quant, L1Wait, Ready,
       counters, data
  <1>15. CASE L2Load(b)
    BY <1>15, Arrives, QueuedFrame, <1>a, <1>d DEF Joins, GroupDone, Quant, L1Wait, L2Load,
       flags, counters, data
  <1>16. CASE L2Claim(b)
    BY <1>16, Arrives, QueuedFrame, <1>a, <1>d DEF Joins, GroupDone, Quant, L1Wait, L2Claim,
       priv, flags, data
  <1>17. CASE L2Wait(b)
    BY <1>17, Arrives, QueuedFrame, <1>a, <1>d DEF Joins, GroupDone, Quant, L1Wait, L2Wait,
       flags, counters, data
  <1>18. CASE L2Count(b)
    BY <1>18, Arrives, QueuedFrame, <1>a, <1>d DEF Joins, GroupDone, Quant, L1Wait, L2Count,
       priv, flags, data
  <1>19. CASE StopLoad(b)
    BY <1>19, Arrives, QueuedFrame, <1>a, <1>d DEF Joins, GroupDone, Quant, L1Wait, StopLoad,
       priv, flags, counters, data
  <1>20. CASE Sync(b)
    BY <1>20, Arrives, QueuedFrame, <1>a, <1>d DEF Joins, GroupDone, Quant, L1Wait, Sync, priv,
       flags, counters, data
  <1>21. CASE Barrier(b)
    BY <1>21, Arrives, QueuedFrame, <1>a, <1>d DEF Joins, GroupDone, Quant, L1Wait, Barrier,
       priv, flags, counters, data
  <1>22. CASE GroupDone(b)
    BY <1>1, <1>22 DEF Joins
  <1> QED BY <1>b, <1>1, <1>2, <1>3, <1>4, <1>5, <1>6, <1>7, <1>8, <1>9, <1>10, <1>11, <1>12,
            <1>13, <1>14, <1>15, <1>16, <1>17, <1>18, <1>19, <1>20, <1>21, <1>22 DEF Step

LEMMA QueuedReserve ==
  ASSUME Work, NEW b \in Blocks, Reserve(b), NEW s \in Subtiles, s = task[b]
  PROVE  /\ Queued' = Queued \union Members(s)
         /\ \A t \in Members(s) : t \notin Queued
  <1>a. Others(b) /\ Typed /\ TokenInv /\ GroupInv
    BY OthersKeep DEF Work, WorkInv, Step
  <1>1. pc[b] = "reserve" /\ pc'[b] = "fill" /\ task' = task /\ Queueing(b)
    BY <1>a, Arrives DEF Reserve, Queueing
  <1>2. Joined' = Joined
    BY <1>1, JoinedSame DEF Joins, GroupDone, Quant, L1Wait, Step
  <1>3. \A c \in Blocks \ {b} : \A t :
          (pc'[c] = "reserve" /\ task'[c] \in Members(t)) <=> Reserving(c, t)
    BY <1>a DEF Others, Reserving
  <1>4. ASSUME NEW t \in Members(s)
        PROVE  /\ t \in Subtiles /\ t \notin Queued
               /\ Members(t) \subseteq Joined'
               /\ \A c \in Blocks : ~ (pc'[c] = "reserve" /\ task'[c] \in Members(t))
    <2>1. t \in Subtiles /\ Members(t) = Members(s) /\ s \in Members(s)
      BY GroupFacts
    <2>2. t \notin Queued
      BY <1>1, <2>1 DEF Queued
    <2>3. Members(t) \subseteq Joined'
      BY <1>a, <1>1, <1>2, <2>1 DEF GroupInv
    <2>4. \A c \in Blocks \ {b} : ~ Reserving(c, t)
      BY <1>a, <1>1, <2>1 DEF GroupInv, Reserving, Queueing
    <2> QED BY <1>1, <1>3, <2>1, <2>2, <2>3, <2>4
  <1>5. ASSUME NEW t \in Subtiles \ Members(s)
        PROVE  /\ Members(t) \subseteq Joined' <=> Members(t) \subseteq Joined
               /\ (\A c \in Blocks : ~ (pc'[c] = "reserve" /\ task'[c] \in Members(t)))
                    <=> (\A c \in Blocks : ~ Reserving(c, t))
    <2>1. ~ Reserving(b, t)
      BY MembersSame DEF Reserving
    <2> QED BY <1>1, <1>2, <1>3, <2>1
  <1>6. \A t \in Subtiles : t \in Queued' <=> t \in Queued \/ t \in Members(s)
    <2> SUFFICES ASSUME NEW t \in Subtiles
                 PROVE  t \in Queued' <=> t \in Queued \/ t \in Members(s)
      OBVIOUS
    <2>1. t \in Queued' <=>
            /\ Members(t) \subseteq Joined'
            /\ \A c \in Blocks : ~ (pc'[c] = "reserve" /\ task'[c] \in Members(t))
      BY DEF Queued, Members, GroupMembers, GroupOf
    <2>2. t \in Queued <=> Members(t) \subseteq Joined /\ \A c \in Blocks : ~ Reserving(c, t)
      BY DEF Queued, Reserving
    <2>3. CASE t \in Members(s)
      BY <1>4, <2>1, <2>3
    <2>4. CASE t \notin Members(s)
      BY <1>5, <2>1, <2>2, <2>4
    <2> QED BY <2>3, <2>4
  <1>7. Queued \subseteq Subtiles /\ Queued' \subseteq Subtiles /\ Members(s) \subseteq Subtiles
    BY GroupFacts DEF Queued
  <1> QED BY <1>4, <1>6, <1>7

-----------------------------------------------------------------------------
(* QueueInv.                                                                *)

LEMMA FillPlace ==
  ASSUME Work, NEW b \in Blocks, Filling(b)
  PROVE  /\ task[b] \in Subtiles
         /\ Entries(b) = GroupOf(task[b]).size * NumHiddenChunks
         /\ Entries(b) \in Nat \ {0}
         /\ base[b] \in Nat /\ fill[b] \in Nat /\ fill[b] < Entries(b)
         /\ base[b] + Entries(b) <= L2QueueTail /\ L2QueueTail \in Nat
         /\ L2QueueTail <= total_l2_tasks
         /\ base[b] + fill[b] \in L2Tasks /\ Reserved(b, base[b] + fill[b])
         /\ \A j \in Pending(b) :
              /\ j \in L2Tasks /\ j < L2QueueTail /\ j - base[b] \in 0 .. Entries(b) - 1
              /\ EntryFor(b, j) \in L2Tasks
  <1>1. task[b] \in Subtiles
    BY DEF Work, WorkInv, TokenInv, Carrying, Filling, Open
  <1>2. Entries(b) = GroupOf(task[b]).size * NumHiddenChunks
    BY <1>1, GroupFacts DEF Entries
  <1>3. Entries(b) \in Nat \ {0}
    BY <1>1, <1>2, EntryFacts
  <1>4. /\ base[b] \in Nat /\ fill[b] \in Nat /\ fill[b] < Entries(b)
        /\ base[b] + Entries(b) <= L2QueueTail
    BY DEF Work, WorkInv, QueueInv, RangeInv
  <1>5. L2QueueTail \in Nat /\ L2QueueTail <= total_l2_tasks /\ total_l2_tasks \in Nat
    BY Numbers DEF Work, Typed, TypeInv
  <1>6. base[b] + fill[b] \in L2Tasks /\ base[b] + fill[b] \in Pending(b)
    BY <1>3, <1>4, <1>5 DEF L2Tasks, Pending
  <1>7. ASSUME NEW j \in Pending(b)
        PROVE  /\ j \in L2Tasks /\ j < L2QueueTail /\ j - base[b] \in 0 .. Entries(b) - 1
               /\ EntryFor(b, j) \in L2Tasks
    <2>1. j \in L2Tasks /\ j < L2QueueTail /\ j - base[b] \in 0 .. Entries(b) - 1
      BY <1>3, <1>4, <1>5 DEF L2Tasks, Pending
    <2>2. EntryFor(b, j) = GroupEntry(GroupOf(task[b]), j - base[b])
      BY <1>1, GroupFacts DEF EntryFor
    <2>3. EntryFor(b, j) \in L2Tasks
      BY <1>1, <1>2, <2>1, <2>2, EntryFacts
    <2> QED BY <2>1, <2>3
  <1> QED BY <1>1, <1>2, <1>3, <1>4, <1>5, <1>6, <1>7 DEF Reserved

(* What is private to the other blocks keeps its meaning.                   *)
LEMMA OthersReserve ==
  ASSUME Work, NEW b \in Blocks, Others(b), NEW c \in Blocks \ {b}
  PROVE  /\ Filling(c)' <=> Filling(c)
         /\ pc'[c] = pc[c] /\ base'[c] = base[c] /\ fill'[c] = fill[c]
         /\ Entries(c)' = Entries(c)
         /\ \A j : /\ Reserved(c, j)' <=> Reserved(c, j)
                   /\ EntryFor(c, j)' = EntryFor(c, j)
  <1>1. pc'[c] = pc[c] /\ base'[c] = base[c] /\ fill'[c] = fill[c] /\ task'[c] = task[c]
    BY DEF Others
  <1>2. Entries(c)' = Entries(c)
    BY <1>1 DEF Entries, Group, GroupOf
  <1>3. Pending(c)' = Pending(c)
    BY <1>1, <1>2 DEF Pending
  <1>4. \A j : EntryFor(c, j)' = EntryFor(c, j)
    BY <1>1 DEF EntryFor, Group, GroupOf, GroupEntry
  <1> QED BY <1>1, <1>2, <1>3, <1>4 DEF Reserved, Filling

LEMMA QueueFrame ==
  ASSUME Work, NEW b \in Blocks, Others(b), QueuedTasks' = QueuedTasks,
         UNCHANGED <<l2_queue, l2_queue_ready, L2QueueTail>>,
         pc[b] \notin {"fill", "ready"}, pc'[b] \notin {"fill", "ready"}
  PROVE  QueueInv'
  <1>1. QueueInv
    BY DEF Work, WorkInv
  <1>2. ~ Filling(b) /\ ~ Filling(b)' /\ \A j : ~ Reserved(b, j) /\ ~ Reserved(b, j)'
    BY DEF Filling, Reserved
  <1>3. \A c \in Blocks : \A j : Reserved(c, j)' <=> Reserved(c, j)
    BY <1>2, OthersReserve
  <1>4. \A c \in Blocks : \A j : Reserved(c, j) => EntryFor(c, j)' = EntryFor(c, j)
    BY <1>2, OthersReserve
  <1>5. \A j, k : Holds(j, k)' <=> Holds(j, k)
    BY <1>3, <1>4 DEF Holds
  <1>6. RangeInv'
    BY <1>1, <1>2, OthersReserve DEF QueueInv, RangeInv
  <1>7. ReadyInv'
    BY <1>1, <1>3 DEF QueueInv, ReadyInv
  <1>8. PlaceInv'
    BY <1>1, <1>5 DEF QueueInv, PlaceInv
  <1>9. \A c \in Blocks, j \in L2Tasks :
          pc'[c] = "ready" /\ j = base'[c] + fill'[c] => l2_queue'[j] = EntryFor(c, j)'
    BY <1>1, OthersReserve DEF QueueInv
  <1>10. \A c, d \in Blocks, j \in L2Tasks : Reserved(c, j)' /\ Reserved(d, j)' => c = d
    BY <1>1, <1>3 DEF QueueInv
  <1> QED BY <1>1, <1>6, <1>7, <1>8, <1>9, <1>10 DEF QueueInv

(* Writing an entry and publishing it move nothing in the numbering.        *)
LEMMA QueueFill ==
  ASSUME Work, NEW b \in Blocks, Fill(b)
  PROVE  QueueInv'
  <1>a. Others(b) /\ Typed /\ QueueInv
    BY OthersKeep DEF Work, WorkInv, Step
  <1>1. /\ pc[b] = "fill" /\ pc'[b] = "ready" /\ task' = task /\ base' = base /\ fill' = fill
        /\ UNCHANGED <<l2_queue_ready, L2QueueTail>>
    BY <1>a, Arrives DEF Fill, priv, counters
  <1>2. Filling(b) /\ Filling(b)'
    BY <1>1 DEF Filling
  <1>3. QueuedTasks' = QueuedTasks
    BY <1>1, QueuedSame DEF Step, Reserve
  <1>4. PICK p \in L2Tasks : p = base[b] + fill[b] /\ Reserved(b, p)
    BY <1>2, FillPlace
  <1>5. /\ l2_queue'[p] = EntryFor(b, p)
        /\ \A j \in L2Tasks : j # p => l2_queue'[j] = l2_queue[j]
    <2>1. base[b] + fill[b] - base[b] = fill[b]
      BY <1>2, FillPlace
    <2> QED BY <1>a, <1>4, <2>1 DEF Fill, EntryFor, Typed, TypeInv
  <1>6. l2_queue_ready[p] = 0
    <2>1. ~ (l2_queue_ready[p] # 0)
      BY <1>a, <1>4 DEF QueueInv, ReadyInv
    <2> QED BY <2>1
  <1>7. \A c \in Blocks : (Filling(c)' <=> Filling(c)) /\ Entries(c)' = Entries(c)
    <2>1. Entries(b)' = Entries(b)
      BY <1>1 DEF Entries, Group, GroupOf
    <2> QED BY <1>a, <1>2, <2>1, OthersReserve
  <1>8. \A c \in Blocks : \A j : (Reserved(c, j)' <=> Reserved(c, j)) /\ EntryFor(c, j)' = EntryFor(c, j)
    <2>1. \A j : (Reserved(b, j)' <=> Reserved(b, j)) /\ EntryFor(b, j)' = EntryFor(b, j)
      BY <1>1, <1>7 DEF Reserved, Pending, EntryFor, Group, GroupOf, GroupEntry
    <2> QED BY <1>a, <2>1, OthersReserve
  <1>9. ASSUME NEW j \in L2Tasks, NEW k
        PROVE  Holds(j, k)' <=> Holds(j, k)
    <2>1. (l2_queue_ready'[j] # 0 /\ l2_queue'[j] = k) <=> (l2_queue_ready[j] # 0 /\ l2_queue[j] = k)
      BY <1>1, <1>5, <1>6
    <2> QED BY <1>8, <2>1 DEF Holds
  <1>10. RangeInv'
    BY <1>a, <1>1, <1>7 DEF QueueInv, RangeInv
  <1>11. ReadyInv'
    BY <1>a, <1>1, <1>8 DEF QueueInv, ReadyInv
  <1>12. PlaceInv'
    BY <1>a, <1>1, <1>3, <1>9 DEF QueueInv, PlaceInv, QueuedTasks
  <1>13. ASSUME NEW c \in Blocks, NEW j \in L2Tasks, pc'[c] = "ready", j = base'[c] + fill'[c]
         PROVE  l2_queue'[j] = EntryFor(c, j)'
    <2>1. CASE c = b
      BY <1>1, <1>4, <1>5, <1>8, <1>13, <2>1
    <2>2. CASE c # b
      <3>1. pc[c] = "ready" /\ j = base[c] + fill[c] /\ Filling(c)
        BY <1>a, <1>1, <1>13, <2>2 DEF Others, Filling
      <3>2. Reserved(c, j) /\ l2_queue[j] = EntryFor(c, j)
        BY <1>a, <3>1, FillPlace DEF QueueInv
      <3>3. j # p
        BY <1>a, <1>4, <2>2, <3>2 DEF QueueInv
      <3> QED BY <1>5, <1>8, <3>2, <3>3
    <2> QED BY <2>1, <2>2
  <1>14. \A c, d \in Blocks, j \in L2Tasks : Reserved(c, j)' /\ Reserved(d, j)' => c = d
    BY <1>a, <1>8 DEF QueueInv
  <1>15. L2QueueTail' = Cardinality(QueuedTasks')
    BY <1>a, <1>1, <1>3 DEF QueueInv
  <1> QED BY <1>10, <1>11, <1>12, <1>13, <1>14, <1>15 DEF QueueInv

LEMMA QueueReady ==
  ASSUME Work, NEW b \in Blocks, Ready(b)
  PROVE  QueueInv'
  <1>a. Others(b) /\ Typed /\ QueueInv
    BY OthersKeep DEF Work, WorkInv, Step
  <1>1. /\ pc[b] = "ready" /\ task' = task /\ base' = base /\ fill'[b] = fill[b] + 1
        /\ pc'[b] = IF fill[b] + 1 < Entries(b) THEN "fill" ELSE "l2"
        /\ UNCHANGED <<l2_queue, L2QueueTail>>
    BY <1>a, Arrives DEF Ready, counters, Typed, TypeInv
  <1>2. Filling(b)
    BY <1>1 DEF Filling
  <1>3. QueuedTasks' = QueuedTasks
    BY <1>1, QueuedSame DEF Step, Reserve
  <1>4. PICK p \in L2Tasks : p = base[b] + fill[b] /\ Reserved(b, p)
    BY <1>2, FillPlace
  <1>5. /\ l2_queue_ready'[p] = 1
        /\ \A j \in L2Tasks : j # p => l2_queue_ready'[j] = l2_queue_ready[j]
    BY <1>a, <1>4 DEF Ready, Typed, TypeInv
  <1>6. Entries(b)' = Entries(b)
    BY <1>1 DEF Entries, Group, GroupOf
  <1>7. \A j : EntryFor(b, j)' = EntryFor(b, j)
    BY <1>1 DEF EntryFor, Group, GroupOf, GroupEntry
  <1>8. \A j \in L2Tasks : Reserved(b, j)' <=> Reserved(b, j) /\ j # p
    <2> DEFINE e == Entries(b)
    <2>1. base[b] \in Nat /\ fill[b] \in Nat /\ e \in Nat /\ fill[b] < e
      BY <1>2, FillPlace
    <2>2. \A j : Reserved(b, j) <=> j \in base[b] + fill[b] .. base[b] + e - 1
      BY <1>2 DEF Reserved, Pending
    <2>3. \A j : Reserved(b, j)' <=> fill[b] + 1 < e /\ j \in base[b] + (fill[b] + 1) .. base[b] + e - 1
      BY <1>1, <1>6 DEF Reserved, Pending, Filling
    <2> HIDE DEF e
    <2>4. \A j \in Nat : j \in base[b] + (fill[b] + 1) .. base[b] + e - 1
                           <=> j \in base[b] + fill[b] .. base[b] + e - 1 /\ j # base[b] + fill[b]
      BY <2>1
    <2>5. \A j \in Nat : j \in base[b] + (fill[b] + 1) .. base[b] + e - 1 => fill[b] + 1 < e
      BY <2>1
    <2> QED BY <1>4, <2>2, <2>3, <2>4, <2>5, Numbers
  <1>9. \A c \in Blocks \ {b} : \A j :
          (Reserved(c, j)' <=> Reserved(c, j)) /\ EntryFor(c, j)' = EntryFor(c, j)
    BY <1>a, OthersReserve
  <1>10. \A c \in Blocks \ {b} : ~ Reserved(c, p)
    BY <1>a, <1>4 DEF QueueInv
  <1>11. \A c \in Blocks, j \in L2Tasks : Reserved(c, j)' <=> Reserved(c, j) /\ j # p
    BY <1>8, <1>9, <1>10
  <1>12. l2_queue[p] = EntryFor(b, p) /\ l2_queue_ready[p] = 0 /\ p < L2QueueTail
    <2>1. ~ (l2_queue_ready[p] # 0)
      BY <1>a, <1>4 DEF QueueInv, ReadyInv
    <2>2. p < L2QueueTail
      BY <1>2, <1>4, FillPlace DEF Reserved
    <2> QED BY <1>a, <1>1, <1>4, <2>1, <2>2 DEF QueueInv
  <1>13. ASSUME NEW j \in L2Tasks, NEW k
         PROVE  Holds(j, k)' <=> Holds(j, k)
    <2>1. CASE j = p
      <3>1. Holds(j, k)' <=> k = l2_queue[p]
        BY <1>1, <1>5, <1>11, <2>1 DEF Holds
      <3>2. Holds(j, k) <=> k = EntryFor(b, p)
        BY <1>4, <1>10, <1>12, <2>1 DEF Holds
      <3> QED BY <1>12, <3>1, <3>2
    <2>2. CASE j # p
      BY <1>1, <1>5, <1>7, <1>9, <1>11, <2>2 DEF Holds
    <2> QED BY <2>1, <2>2
  <1>14. RangeInv'
    <2>1. ASSUME NEW c \in Blocks \ {b}, Filling(c)'
          PROVE  /\ base'[c] \in Nat /\ fill'[c] \in Nat
                 /\ fill'[c] < Entries(c)' /\ base'[c] + Entries(c)' <= L2QueueTail'
      BY <1>a, <1>1, <2>1, OthersReserve DEF QueueInv, RangeInv
    <2>2. ASSUME Filling(b)'
          PROVE  /\ base'[b] \in Nat /\ fill'[b] \in Nat
                 /\ fill'[b] < Entries(b)' /\ base'[b] + Entries(b)' <= L2QueueTail'
      <3>1. fill[b] + 1 < Entries(b)
        BY <1>1, <2>2 DEF Filling
      <3>2. base[b] \in Nat /\ fill[b] + 1 \in Nat /\ base[b] + Entries(b) <= L2QueueTail
        BY <1>2, FillPlace
      <3> QED BY <1>1, <1>6, <3>1, <3>2
    <2> QED BY <2>1, <2>2 DEF RangeInv
  <1>15. ReadyInv'
    <2>1. ASSUME NEW j \in L2Tasks
          PROVE  l2_queue_ready'[j] # 0
                   <=> j < L2QueueTail /\ \A c \in Blocks : ~ Reserved(c, j)'
      <3>1. CASE j = p
        BY <1>5, <1>11, <1>12, <3>1
      <3>2. CASE j # p
        BY <1>a, <1>5, <1>11, <3>2 DEF QueueInv, ReadyInv
      <3> QED BY <3>1, <3>2
    <2> QED BY <1>1, <2>1 DEF ReadyInv
  <1>16. PlaceInv'
    BY <1>a, <1>1, <1>3, <1>13 DEF QueueInv, PlaceInv, QueuedTasks
  <1>17. ASSUME NEW c \in Blocks, NEW j \in L2Tasks, pc'[c] = "ready", j = base'[c] + fill'[c]
         PROVE  l2_queue'[j] = EntryFor(c, j)'
    <2>1. c # b
      BY <1>1, <1>17
    <2>2. pc[c] = "ready" /\ j = base[c] + fill[c]
      BY <1>a, <1>17, <2>1 DEF Others
    <2> QED BY <1>a, <1>1, <1>9, <2>1, <2>2 DEF QueueInv
  <1>18. \A c, d \in Blocks, j \in L2Tasks : Reserved(c, j)' /\ Reserved(d, j)' => c = d
    BY <1>a, <1>11 DEF QueueInv
  <1>19. L2QueueTail' = Cardinality(QueuedTasks')
    BY <1>a, <1>1, <1>3 DEF QueueInv
  <1> QED BY <1>14, <1>15, <1>16, <1>17, <1>18, <1>19 DEF QueueInv

(* A reserved range numbers the L2 tasks of its group, which are new.       *)
LEMMA TasksReserve ==
  ASSUME Work, NEW b \in Blocks, Reserve(b), NEW s \in Subtiles, s = task[b]
  PROVE  LET mine == {k \in L2Tasks : SubtileOfL2(k) \in Members(s)}
         IN  /\ QueuedTasks' = QueuedTasks \union mine
             /\ QueuedTasks \intersect mine = {}
             /\ Cardinality(QueuedTasks') = Cardinality(QueuedTasks) + Entries(b)
             /\ Cardinality(QueuedTasks') <= total_l2_tasks
             /\ Entries(b) = GroupOf(s).size * NumHiddenChunks
  <1> DEFINE mine == {k \in L2Tasks : SubtileOfL2(k) \in Members(s)}
  <1>1. Queued' = Queued \union Members(s) /\ \A t \in Members(s) : t \notin Queued
    BY QueuedReserve
  <1>2. QueuedTasks' = {k \in L2Tasks : SubtileOfL2(k) \in Queued'}
    BY DEF QueuedTasks, SubtileOfL2
  <1>3. QueuedTasks' = QueuedTasks \union mine
    BY <1>1, <1>2 DEF QueuedTasks
  <1>4. QueuedTasks \intersect mine = {}
    BY <1>1 DEF QueuedTasks
  <1>5. Entries(b) = GroupOf(s).size * NumHiddenChunks
    BY GroupFacts DEF Entries
  <1>6. mine = GroupEntries(GroupOf(s))
    BY EntryFacts DEF GroupEntries
  <1>7. IsFiniteSet(mine) /\ Cardinality(mine) = Entries(b)
    BY <1>5, <1>6, RouteAssumption, EntriesCount
  <1> HIDE DEF mine
  <1>8. IsFiniteSet(QueuedTasks)
    <2>1. QueuedTasks \subseteq L2Tasks
      BY DEF QueuedTasks
    <2> QED BY <2>1, DataFinite, FS_Subset
  <1>9. Cardinality(QueuedTasks') = Cardinality(QueuedTasks) + Entries(b)
    <2>1. Cardinality(QueuedTasks \union mine) = Cardinality(QueuedTasks) + Cardinality(mine)
      <3>1. Cardinality(QueuedTasks \intersect mine) = 0
        BY <1>4, FS_EmptySet
      <3>2. Cardinality(QueuedTasks) \in Nat /\ Cardinality(mine) \in Nat
        BY <1>7, <1>8, FS_CardinalityType
      <3>3. Cardinality(QueuedTasks \union mine)
              = Cardinality(QueuedTasks) + Cardinality(mine) - Cardinality(QueuedTasks \intersect mine)
        BY <1>7, <1>8, FS_Union
      <3> QED BY <3>1, <3>2, <3>3
    <2> QED BY <1>3, <1>7, <2>1
  <1>10. Cardinality(QueuedTasks') <= total_l2_tasks
    <2>1. QueuedTasks' \subseteq L2Tasks
      BY <1>2
    <2>2. Cardinality(QueuedTasks') <= Cardinality(L2Tasks)
      BY <2>1, DataFinite, FS_Subset
    <2> QED BY <2>2, DataFinite
  <1> QED BY <1>3, <1>4, <1>5, <1>9, <1>10 DEF mine

LEMMA QueueReserve ==
  ASSUME Work, NEW b \in Blocks, Reserve(b)
  PROVE  QueueInv'
  <1>a. Others(b) /\ Typed /\ TokenInv /\ QueueInv
    BY OthersKeep DEF Work, WorkInv, Step
  <1>1. /\ pc[b] = "reserve" /\ pc'[b] = "fill" /\ task' = task
        /\ base'[b] = L2QueueTail /\ fill'[b] = 0
        /\ L2QueueTail' = L2QueueTail + Entries(b)
        /\ UNCHANGED <<l2_queue, l2_queue_ready>>
    BY <1>a, Arrives DEF Reserve, flags, Typed, TypeInv
  <1>2. PICK s \in Subtiles : s = task[b]
    BY <1>a, <1>1 DEF TokenInv, Carrying, Open
  <1>3. PICK T \in Nat, n \in Nat \ {0} :
          T = L2QueueTail /\ n = Entries(b) /\ n = GroupOf(s).size * NumHiddenChunks
    <2>1. L2QueueTail \in Nat
      BY <1>a, Numbers DEF Typed, TypeInv
    <2>2. Entries(b) = GroupOf(s).size * NumHiddenChunks
      BY <1>2, TasksReserve
    <2>3. GroupOf(s).size * NumHiddenChunks \in Nat \ {0}
      BY EntryFacts
    <2> QED BY <2>1, <2>2, <2>3
  <1> DEFINE g == GroupOf(s)
             mine == {k \in L2Tasks : SubtileOfL2(k) \in Members(s)}
             new == T .. T + n - 1
  <1>4. QueuedTasks' = QueuedTasks \union mine /\ QueuedTasks \intersect mine = {}
    BY <1>2, TasksReserve
  <1>5. L2QueueTail' = Cardinality(QueuedTasks') /\ T + n <= total_l2_tasks
    BY <1>a, <1>1, <1>2, <1>3, TasksReserve DEF QueueInv
  <1>6. new \subseteq L2Tasks
    BY <1>5, Numbers DEF L2Tasks
  <1>7. Filling(b)' /\ ~ Filling(b) /\ Entries(b)' = n
    BY <1>1, <1>3 DEF Filling, Entries, Group, GroupOf
  <1>8. \A j : (Reserved(b, j)' <=> j \in new) /\ ~ Reserved(b, j)
    <2>1. Pending(b)' = T + 0 .. T + n - 1
      BY <1>1, <1>3, <1>7 DEF Pending
    <2> QED BY <1>7, <2>1 DEF Reserved
  <1>9. \A j : EntryFor(b, j)' = GroupEntry(g, j - T)
    <2>1. \A j : EntryFor(b, j)' = GroupEntry(Group[task'[b]], j - base'[b])
      BY DEF EntryFor, Group, GroupOf, GroupEntry
    <2> QED BY <1>1, <1>2, <1>3, <2>1, GroupFacts
  <1>10. \A c \in Blocks \ {b} : \A j :
           (Reserved(c, j)' <=> Reserved(c, j)) /\ EntryFor(c, j)' = EntryFor(c, j)
    BY <1>a, OthersReserve
  <1>11. ASSUME NEW j \in new
         PROVE  /\ j \in L2Tasks /\ l2_queue_ready[j] = 0
                /\ \A c \in Blocks : ~ Reserved(c, j)
                /\ \A k : ~ Holds(j, k)
    <2>1. j \in L2Tasks /\ ~ (j < L2QueueTail)
      BY <1>3, <1>6
    <2>2. ~ (l2_queue_ready[j] # 0)
      BY <1>a, <2>1 DEF QueueInv, ReadyInv
    <2>3. \A c \in Blocks : ~ Reserved(c, j)
      BY <2>1, FillPlace DEF Reserved
    <2> QED BY <2>1, <2>2, <2>3 DEF Holds
  <1>12. \A i \in 0 .. n - 1 : GroupEntry(g, i) \in mine
    BY <1>3, EntryFacts
  <1>13. ASSUME NEW j \in L2Tasks, NEW k
         PROVE  Holds(j, k)' <=> Holds(j, k) \/ (j \in new /\ k = GroupEntry(g, j - T))
    <2>1. Holds(j, k)' <=>
            \/ l2_queue_ready[j] # 0 /\ l2_queue[j] = k
            \/ \E c \in Blocks : Reserved(c, j)' /\ k = EntryFor(c, j)'
      BY <1>1 DEF Holds
    <2> QED BY <1>8, <1>9, <1>10, <2>1 DEF Holds
  <1>14. \A j \in new : j - T \in 0 .. n - 1
    BY <1>3
  <1> HIDE DEF mine, g
  <1>15. RangeInv'
    <2>1. ASSUME NEW c \in Blocks \ {b}, Filling(c)'
          PROVE  /\ base'[c] \in Nat /\ fill'[c] \in Nat
                 /\ fill'[c] < Entries(c)' /\ base'[c] + Entries(c)' <= L2QueueTail'
      <3>1. Filling(c) /\ base'[c] = base[c] /\ fill'[c] = fill[c] /\ Entries(c)' = Entries(c)
        BY <1>a, <2>1, OthersReserve
      <3>2. /\ base[c] \in Nat /\ fill[c] \in Nat /\ Entries(c) \in Nat
            /\ fill[c] < Entries(c) /\ base[c] + Entries(c) <= T
        BY <1>3, <3>1, FillPlace
      <3> QED BY <1>1, <1>3, <3>1, <3>2
    <2>2. base'[b] \in Nat /\ fill'[b] \in Nat /\ fill'[b] < Entries(b)'
          /\ base'[b] + Entries(b)' <= L2QueueTail'
      BY <1>1, <1>3, <1>7
    <2> QED BY <2>1, <2>2 DEF RangeInv
  <1>16. ReadyInv'
    <2>1. ASSUME NEW j \in L2Tasks
          PROVE  l2_queue_ready[j] # 0
                   <=> j < L2QueueTail' /\ \A c \in Blocks : ~ Reserved(c, j)'
      <3>1. CASE j \in new
        BY <1>8, <1>11, <3>1
      <3>2. CASE j \notin new
        <4>1. j < L2QueueTail' <=> j < T
          BY <1>1, <1>3, <3>2, Numbers
        <4>2. \A c \in Blocks : Reserved(c, j)' <=> Reserved(c, j)
          BY <1>8, <1>10, <3>2
        <4> QED BY <1>a, <1>3, <4>1, <4>2 DEF QueueInv, ReadyInv
      <3> QED BY <3>1, <3>2
    <2> QED BY <1>1, <2>1 DEF ReadyInv
  <1>17. PlaceInv'
    <2>1. ASSUME NEW j \in L2Tasks, NEW k \in L2Tasks, Holds(j, k)'
          PROVE  k \in QueuedTasks'
      <3>1. CASE Holds(j, k)
        BY <1>a, <1>4, <3>1 DEF QueueInv, PlaceInv
      <3>2. CASE j \in new /\ k = GroupEntry(g, j - T)
        BY <1>4, <1>12, <1>14, <3>2
      <3> QED BY <1>13, <2>1, <3>1, <3>2
    <2>2. ASSUME NEW k \in QueuedTasks'
          PROVE  \E j \in L2Tasks : j < L2QueueTail' /\ Holds(j, k)'
      <3>1. CASE k \in QueuedTasks
        <4>1. PICK j \in L2Tasks : j < L2QueueTail /\ Holds(j, k)
          BY <1>a, <3>1 DEF QueueInv, PlaceInv
        <4>2. j < L2QueueTail'
          BY <1>1, <1>3, <4>1, Numbers
        <4> QED BY <1>13, <4>1, <4>2
      <3>2. CASE k \in mine
        <4>1. PICK i \in 0 .. n - 1 : k = GroupEntry(g, i)
          BY <1>3, <3>2, EntryFacts DEF mine, g
        <4>2. PICK j \in new : j = T + i
          BY <1>3
        <4>3. j - T = i /\ j < L2QueueTail' /\ j \in L2Tasks
          BY <1>1, <1>3, <1>6, <4>2
        <4> QED BY <1>13, <4>1, <4>2, <4>3
      <3> QED BY <1>4, <2>2, <3>1, <3>2
    <2>3. ASSUME NEW i \in L2Tasks, NEW j \in L2Tasks, NEW k \in L2Tasks,
                 Holds(i, k)', Holds(j, k)'
          PROVE  i = j
      <3>1. CASE Holds(i, k) /\ Holds(j, k)
        BY <1>a, <3>1 DEF QueueInv, PlaceInv
      <3>2. \A l \in L2Tasks : Holds(l, k) => k \notin mine
        BY <1>a, <1>4 DEF QueueInv, PlaceInv
      <3>3. \A l \in new : k = GroupEntry(g, l - T) => k \in mine
        BY <1>12, <1>14
      <3>4. CASE i \in new /\ k = GroupEntry(g, i - T) /\ j \in new /\ k = GroupEntry(g, j - T)
        <4>1. i - T = j - T
          BY <1>3, <1>14, <3>4, EntryFacts DEF g
        <4> QED BY <1>3, <3>4, <4>1
      <3> QED BY <1>13, <2>3, <3>1, <3>2, <3>3, <3>4
    <2> QED BY <2>1, <2>2, <2>3 DEF PlaceInv
  <1>18. ASSUME NEW c \in Blocks, NEW j \in L2Tasks, pc'[c] = "ready", j = base'[c] + fill'[c]
         PROVE  l2_queue'[j] = EntryFor(c, j)'
    <2>1. c # b
      BY <1>1, <1>18
    <2>2. pc[c] = "ready" /\ j = base[c] + fill[c]
      BY <1>a, <1>18, <2>1 DEF Others
    <2> QED BY <1>a, <1>1, <1>10, <2>1, <2>2 DEF QueueInv
  <1>19. \A c, d \in Blocks, j \in L2Tasks : Reserved(c, j)' /\ Reserved(d, j)' => c = d
    <2>1. \A c, d \in Blocks \ {b}, j \in L2Tasks : Reserved(c, j)' /\ Reserved(d, j)' => c = d
      BY <1>a, <1>10 DEF QueueInv
    <2>2. \A c \in Blocks \ {b}, j \in L2Tasks : ~ (Reserved(c, j)' /\ Reserved(b, j)')
      BY <1>8, <1>10, <1>11
    <2> QED BY <2>1, <2>2
  <1> QED BY <1>5, <1>15, <1>16, <1>17, <1>18, <1>19 DEF QueueInv

LEMMA QueueStep ==
  ASSUME Work, NEW b \in Blocks, Step(b) \/ Store(b)
  PROVE  QueueInv'
  <1>a. Others(b) /\ Typed /\ QueueInv
    BY OthersKeep DEF Work, WorkInv
  <1>b. ~ Reset(b)
    BY DEF Work, Running, Reset
  <1>d. ~ Reserve(b) => QueuedTasks' = QueuedTasks
    BY QueuedSame
  <1>1. CASE Reserve(b)
    BY <1>1, QueueReserve
  <1>2. CASE Fill(b)
    BY <1>2, QueueFill
  <1>3. CASE Ready(b)
    BY <1>3, QueueReady
  <1>4. CASE PullLoad(b)
    BY <1>4, Arrives, QueueFrame, <1>a, <1>d DEF Reserve, PullLoad, priv, flags, counters, data
  <1>5. CASE PullClaim(b)
    BY <1>5, Arrives, QueueFrame, <1>a, <1>d DEF Reserve, PullClaim, flags, data
  <1>6. CASE Copy(b)
    BY <1>6, Arrives, QueueFrame, <1>a, <1>d DEF Reserve, Copy, priv, flags, counters
  <1>7. CASE Publish(b)
    BY <1>7, Arrives, QueueFrame, <1>a, <1>d DEF Reserve, Publish, priv, counters, data
  <1>8. CASE L1Load(b)
    BY <1>8, Arrives, QueueFrame, <1>a, <1>d DEF Reserve, L1Load, priv, flags, counters, data
  <1>9. CASE L1Claim(b)
    BY <1>9, Arrives, QueueFrame, <1>a, <1>d DEF Reserve, L1Claim, flags, data
  <1>10. CASE L1Wait(b)
    BY <1>10, Arrives, QueueFrame, <1>a, <1>d DEF Reserve, L1Wait, EnqueueStart, flags,
       counters, data
  <1>11. CASE Compute(b)
    BY <1>11, Arrives, QueueFrame, <1>a, <1>d DEF Reserve, Compute, flags, counters
  <1>12. CASE Count(b)
    BY <1>12, Arrives, QueueFrame, <1>a, <1>d DEF Reserve, Count, priv, counters, data
  <1>13. CASE Quant(b)
    BY <1>13, Arrives, QueueFrame, <1>a, <1>d DEF Reserve, Quant, EnqueueStart, priv, flags,
       counters
  <1>14. CASE GroupDone(b)
    BY <1>14, Arrives, QueueFrame, <1>a, <1>d DEF Reserve, GroupDone, priv, counters, data
  <1>15. CASE L2Load(b)
    BY <1>15, Arrives, QueueFrame, <1>a, <1>d DEF Reserve, L2Load, flags, counters, data
  <1>16. CASE L2Claim(b)
    BY <1>16, Arrives, QueueFrame, <1>a, <1>d DEF Reserve, L2Claim, priv, flags, data
  <1>17. CASE L2Wait(b)
    BY <1>17, Arrives, QueueFrame, <1>a, <1>d DEF Reserve, L2Wait, flags, counters, data
  <1>18. CASE L2Count(b)
    BY <1>18, Arrives, QueueFrame, <1>a, <1>d DEF Reserve, L2Count, priv, flags, data
  <1>19. CASE StopLoad(b)
    BY <1>19, Arrives, QueueFrame, <1>a, <1>d DEF Reserve, StopLoad, priv, flags, counters, data
  <1>20. CASE Sync(b)
    BY <1>20, Arrives, QueueFrame, <1>a, <1>d DEF Reserve, Sync, priv, flags, counters, data
  <1>21. CASE Barrier(b)
    BY <1>21, Arrives, QueueFrame, <1>a, <1>d DEF Reserve, Barrier, priv, flags, counters, data
  <1>22. CASE Store(b)
    <2>1. pc' = pc /\ UNCHANGED <<l2_queue, l2_queue_ready, L2QueueTail>>
      BY <1>22 DEF Store, flags, counters
    <2>2. pc[b] \in {"l2Count", "stop", "loopSync", "exitSync"}
      BY <1>22 DEF Store, Work, WorkInv, TakeInv
    <2> QED BY <1>a, <1>d, <2>1, <2>2, QueueFrame DEF Reserve
  <1> QED BY <1>b, <1>1, <1>2, <1>3, <1>4, <1>5, <1>6, <1>7, <1>8, <1>9, <1>10, <1>11, <1>12,
            <1>13, <1>14, <1>15, <1>16, <1>17, <1>18, <1>19, <1>20, <1>21, <1>22 DEF Step

-----------------------------------------------------------------------------
(* TakeInv.                                                                 *)

LEMMA TakingFinite ==
  IsFiniteSet(Taking) /\ Cardinality(Taking) \in Nat
  <1>1. Taking \subseteq Blocks
    BY DEF Taking
  <1> QED BY <1>1, DataFinite, FS_Subset, FS_CardinalityType

Holder(b, j) == pc[b] = "l2Wait" /\ task[b] = j

LEMMA TakeFrame ==
  ASSUME Work, NEW b \in Blocks, Others(b),
         UNCHANGED <<storing, combine, L2QueueHead, L2Done>>,
         L2QueueTail' \in Nat, L2QueueTail <= L2QueueTail',
         \A j \in L2Tasks : l2_queue_ready[j] # 0 =>
           l2_queue_ready'[j] # 0 /\ l2_queue'[j] = l2_queue[j],
         pc[b] \notin {"l2Wait", "l2Count"}, pc'[b] \notin {"l2Claim", "l2Wait", "l2Count"},
         storing[b] # None => pc'[b] \in {"stop", "loopSync", "exitSync"},
         pc'[b] \in {"exitSync", "exit"} => L2Done >= total_l2_tasks
  PROVE  TakeInv'
  <1>1. TakeInv /\ L2QueueTail \in Nat /\ L2QueueHead \in Nat
    BY Numbers DEF Work, WorkInv, Typed, TypeInv
  <1>2. \A c \in Blocks \ {b} : pc'[c] = pc[c] /\ task'[c] = task[c]
    BY DEF Others
  <1>3. Taking' = Taking /\ b \notin Taking
    BY <1>2 DEF Taking
  <1>4. \A j : Passed(j)' <=> Passed(j)
    <2>1. \A c \in Blocks : \A j : Holder(c, j)' <=> Holder(c, j)
      BY <1>2 DEF Holder
    <2> QED BY <2>1 DEF Passed, Holder
  <1>5. \A k : Storing(k)' <=> Storing(k)
    BY DEF Storing
  <1>6. ASSUME NEW c \in Blocks, pc'[c] = "l2Claim"
        PROVE  task'[c] \in Nat /\ task'[c] < L2QueueTail'
    <2>1. task[c] \in Nat /\ task[c] < L2QueueTail /\ task'[c] = task[c]
      BY <1>1, <1>2, <1>6 DEF TakeInv
    <2> QED BY <1>1, <2>1
  <1>7. /\ \A c \in Taking : task'[c] \in Nat /\ task'[c] < L2QueueHead
        /\ \A c, d \in Taking : task'[c] = task'[d] => c = d
    <2>1. \A c \in Taking : task'[c] = task[c]
      BY <1>2, <1>3 DEF Taking
    <2> QED BY <1>1, <2>1 DEF TakeInv
  <1>8. L2QueueHead <= L2QueueTail'
    BY <1>1 DEF TakeInv
  <1>9. L2Done + Cardinality(Taking) = L2QueueHead /\ combine \subseteq Stored
    BY <1>1 DEF TakeInv
  <1>10. \A c \in Blocks : storing[c] # None =>
           /\ pc'[c] \in {"l2Count", "stop", "loopSync", "exitSync"}
           /\ storing[c] \in Stored \ combine
    BY <1>1, <1>2 DEF TakeInv
  <1>11. \A c, d \in Blocks : storing[c] # None /\ storing[c] = storing[d] => c = d
    BY <1>1 DEF TakeInv
  <1>12. \A j \in L2Tasks : Passed(j) => l2_queue_ready'[j] # 0 /\ l2_queue'[j] = l2_queue[j]
    BY <1>1 DEF TakeInv
  <1>13. \A k \in Stored : k \in combine \/ Storing(k) =>
           \E j \in L2Tasks : Passed(j) /\ l2_queue'[j] = k
    BY <1>1, <1>12 DEF TakeInv
  <1>14. \A j \in L2Tasks, k \in Stored :
           Passed(j) /\ l2_queue'[j] = k => k \in combine \/ Storing(k)
    BY <1>1, <1>12 DEF TakeInv
  <1>15. \A c \in Blocks : pc'[c] \in {"exitSync", "exit"} => L2Done >= total_l2_tasks
    BY <1>1, <1>2 DEF TakeInv
  <1> QED BY <1>3, <1>4, <1>5, <1>6, <1>7, <1>8, <1>9, <1>10, <1>11, <1>12, <1>13, <1>14, <1>15
          DEF TakeInv

LEMMA TakeLoad ==
  ASSUME Work, NEW b \in Blocks, L2Load(b)
  PROVE  TakeInv'
  <1>a. Others(b) /\ Typed /\ TakeInv /\ L2QueueTail \in Nat /\ L2QueueHead \in Nat
    BY OthersKeep, Numbers DEF Work, WorkInv, Typed, TypeInv, Step
  <1>1. /\ pc[b] = "l2" /\ task'[b] = L2QueueHead
        /\ pc'[b] = IF L2QueueHead >= L2QueueTail THEN "stop" ELSE "l2Claim"
        /\ UNCHANGED <<storing, combine, L2QueueHead, L2QueueTail, L2Done,
                       l2_queue, l2_queue_ready>>
    BY <1>a, Arrives DEF L2Load, flags, counters, data, Typed, TypeInv
  <1>2. storing[b] = None
    BY <1>a, <1>1 DEF TakeInv
  <1>3. CASE L2QueueHead >= L2QueueTail
    BY <1>a, <1>1, <1>2, <1>3, TakeFrame
  <1>4. CASE ~ (L2QueueHead >= L2QueueTail)
    <2>1. pc'[b] = "l2Claim" /\ task'[b] \in Nat /\ task'[b] < L2QueueTail
      BY <1>a, <1>1, <1>4
    <2>2. \A c \in Blocks \ {b} : pc'[c] = pc[c] /\ task'[c] = task[c]
      BY <1>a DEF Others
    <2>3. Taking' = Taking /\ b \notin Taking
      BY <1>1, <2>1, <2>2 DEF Taking
    <2>4. \A j : Passed(j)' <=> Passed(j)
      <3>1. \A c \in Blocks : \A j : Holder(c, j)' <=> Holder(c, j)
        BY <1>1, <2>1, <2>2 DEF Holder
      <3> QED BY <1>1, <3>1 DEF Passed, Holder
    <2>5. \A k : Storing(k)' <=> Storing(k)
      BY <1>1 DEF Storing
    <2>6. \A c \in Blocks : pc'[c] = "l2Claim" => task'[c] \in Nat /\ task'[c] < L2QueueTail
      BY <1>a, <2>1, <2>2 DEF TakeInv
    <2>7. /\ \A c \in Taking : task'[c] \in Nat /\ task'[c] < L2QueueHead
          /\ \A c, d \in Taking : task'[c] = task'[d] => c = d
      <3>1. \A c \in Taking : task'[c] = task[c]
        BY <2>2, <2>3 DEF Taking
      <3> QED BY <1>a, <3>1 DEF TakeInv
    <2>8. \A c \in Blocks : storing[c] # None =>
             pc'[c] \in {"l2Count", "stop", "loopSync", "exitSync"}
      BY <1>a, <1>2, <2>2 DEF TakeInv
    <2>9. \A c \in Blocks : pc'[c] \in {"exitSync", "exit"} => L2Done >= total_l2_tasks
      BY <1>a, <2>1, <2>2 DEF TakeInv
    <2> QED BY <1>a, <1>1, <2>3, <2>4, <2>5, <2>6, <2>7, <2>8, <2>9 DEF TakeInv
  <1> QED BY <1>3, <1>4

LEMMA TakeClaim ==
  ASSUME Work, NEW b \in Blocks, L2Claim(b)
  PROVE  TakeInv'
  <1>a. Others(b) /\ Typed /\ TakeInv /\ L2QueueTail \in Nat /\ L2QueueHead \in Nat /\ L2Done \in Nat
    BY OthersKeep, Numbers DEF Work, WorkInv, Typed, TypeInv, Step
  <1>1. /\ pc[b] = "l2Claim" /\ task' = task
        /\ UNCHANGED <<storing, combine, L2QueueTail, L2Done, l2_queue, l2_queue_ready>>
    BY <1>a DEF L2Claim, flags, data, priv
  <1>2. storing[b] = None /\ task[b] \in Nat /\ task[b] < L2QueueTail
    BY <1>a, <1>1 DEF TakeInv
  <1>3. CASE L2QueueHead # task[b]
    <2>1. pc'[b] = "l2" /\ L2QueueHead' = L2QueueHead
      BY <1>3, <1>a, Arrives DEF L2Claim
    <2> QED BY <1>a, <1>1, <1>2, <2>1, TakeFrame
  <1>4. CASE L2QueueHead = task[b]
    <2>1. pc'[b] = "l2Wait" /\ L2QueueHead' = L2QueueHead + 1
      BY <1>4, <1>a, Arrives DEF L2Claim
    <2>2. \A c \in Blocks \ {b} : pc'[c] = pc[c]
      BY <1>a DEF Others
    <2>3. Taking' = Taking \union {b} /\ b \notin Taking
      BY <1>1, <2>1, <2>2 DEF Taking
    <2>4. Cardinality(Taking') = Cardinality(Taking) + 1
      BY <2>3, TakingFinite, FS_AddElement
    <2>5. \A j \in L2Tasks : Passed(j)' <=> Passed(j)
      <3>1. \A c \in Blocks \ {b} : \A j : Holder(c, j)' <=> Holder(c, j)
        BY <1>1, <2>2 DEF Holder
      <3>2. \A j : ~ Holder(b, j) /\ (Holder(b, j)' <=> j = task[b])
        BY <1>1, <2>1 DEF Holder
      <3>3. \A j \in L2Tasks : (j < L2QueueHead' /\ j # task[b]) <=> j < L2QueueHead
        BY <1>a, <1>4, <2>1, Numbers
      <3> QED BY <3>1, <3>2, <3>3 DEF Passed, Holder
    <2>6. \A k : Storing(k)' <=> Storing(k)
      BY <1>1 DEF Storing
    <2>7. \A c \in Blocks : pc'[c] = "l2Claim" => task[c] \in Nat /\ task[c] < L2QueueTail
      BY <1>a, <2>1, <2>2 DEF TakeInv
    <2>8. ASSUME NEW c \in Taking'
          PROVE  /\ task[c] \in Nat /\ task[c] < L2QueueHead'
                 /\ c # b => task[c] # task[b]
      <3>1. CASE c = b
        BY <1>a, <1>2, <1>4, <2>1, <3>1
      <3>2. CASE c # b
        <4>1. task[c] \in Nat /\ task[c] < L2QueueHead
          BY <1>a, <2>3, <2>8, <3>2 DEF TakeInv
        <4> QED BY <1>a, <1>4, <2>1, <3>2, <4>1
      <3> QED BY <3>1, <3>2
    <2>9. \A c, d \in Taking' : task[c] = task[d] => c = d
      BY <1>a, <2>3, <2>8 DEF TakeInv
    <2>10. \A c \in Blocks : storing[c] # None =>
             pc'[c] \in {"l2Count", "stop", "loopSync", "exitSync"}
      BY <1>a, <1>2, <2>2 DEF TakeInv
    <2>11. \A c \in Blocks : pc'[c] \in {"exitSync", "exit"} => L2Done >= total_l2_tasks
      BY <1>a, <2>1, <2>2 DEF TakeInv
    <2>12. L2QueueHead' <= L2QueueTail
      BY <1>a, <1>2, <1>4, <2>1
    <2>13. L2Done + Cardinality(Taking') = L2QueueHead'
      <3>1. L2Done + Cardinality(Taking) = L2QueueHead
        BY <1>a DEF TakeInv
      <3> QED BY <1>a, <2>1, <2>4, <3>1, TakingFinite
    <2> QED BY <1>a, <1>1, <2>5, <2>6, <2>7, <2>8, <2>9, <2>10, <2>11, <2>12, <2>13 DEF TakeInv
  <1> QED BY <1>3, <1>4

(* The entry that is read was read by nobody before.                        *)
LEMMA TakeWait ==
  ASSUME Work, NEW b \in Blocks, L2Wait(b)
  PROVE  TakeInv'
  <1>a. Others(b) /\ Typed /\ TakeInv /\ QueueInv /\ L2QueueTail \in Nat /\ L2QueueHead \in Nat
    BY OthersKeep, Numbers DEF Work, WorkInv, Typed, TypeInv, Step
  <1>1. /\ pc[b] = "l2Wait" /\ task' = task /\ pc'[b] = "l2Count"
        /\ l2_queue_ready[task[b]] # 0
        /\ storing' = [storing EXCEPT ![b] = IF l2_queue[task[b]] \in Stored
                                             THEN l2_queue[task[b]] ELSE None]
        /\ UNCHANGED <<combine, L2QueueHead, L2QueueTail, L2Done, l2_queue, l2_queue_ready>>
    BY <1>a, Arrives DEF L2Wait, flags, counters, data
  <1>2. b \in Taking /\ storing[b] = None
    BY <1>a, <1>1 DEF Taking, TakeInv
  <1>3. task[b] \in Nat /\ task[b] < L2QueueHead /\ L2QueueHead <= L2QueueTail
        /\ L2QueueTail <= total_l2_tasks /\ total_l2_tasks \in Nat
    BY <1>a, <1>2, Numbers DEF TakeInv, Typed, TypeInv
  <1>4. task[b] \in L2Tasks
    BY <1>a, <1>3 DEF L2Tasks
  <1>5. PICK p \in L2Tasks, q \in L2Tasks : p = task[b] /\ q = l2_queue[p]
    BY <1>a, <1>4 DEF Typed, TypeInv
  <1>6. \A c \in Blocks \ {b} : pc'[c] = pc[c] /\ task'[c] = task[c] /\ storing'[c] = storing[c]
    BY <1>a DEF Others
  <1>7. storing'[b] = IF q \in Stored THEN q ELSE None
    BY <1>a, <1>1, <1>5 DEF Typed, TypeInv
  <1>8. Taking' = Taking
    BY <1>1, <1>2, <1>6 DEF Taking
  <1>9. \A c \in Blocks \ {b} : ~ Holder(c, p)
    BY <1>a, <1>1, <1>5 DEF TakeInv, Taking, Holder
  <1>10. ~ Passed(p) /\ p < L2QueueHead
    BY <1>1, <1>3, <1>5 DEF Passed
  <1>11. \A j : Passed(j)' <=> Passed(j) \/ j = p
    <2>1. \A c \in Blocks \ {b} : \A j : Holder(c, j)' <=> Holder(c, j)
      BY <1>6 DEF Holder
    <2>2. \A j : ~ Holder(b, j)' /\ (Holder(b, j) <=> j = p)
      BY <1>1, <1>5 DEF Holder
    <2>3. \A j : Passed(j) <=> j < L2QueueHead /\ \A c \in Blocks : ~ Holder(c, j)
      BY DEF Passed, Holder
    <2>4. \A j : Passed(j)' <=> j < L2QueueHead /\ \A c \in Blocks : ~ Holder(c, j)'
      BY <1>1 DEF Passed, Holder
    <2> QED BY <1>9, <1>10, <2>1, <2>2, <2>3, <2>4
  <1>12. q \in Stored => q \notin combine /\ ~ Storing(q)
    <2> SUFFICES ASSUME q \in Stored, q \in combine \/ Storing(q)
                 PROVE  FALSE
      OBVIOUS
    <2>1. PICK j \in L2Tasks : Passed(j) /\ l2_queue[j] = q
      BY <1>a DEF TakeInv
    <2>2. l2_queue_ready[j] # 0
      BY <1>a, <2>1 DEF TakeInv
    <2>3. Holds(j, q) /\ Holds(p, q)
      BY <1>1, <1>5, <2>1, <2>2 DEF Holds
    <2>4. j = p
      BY <1>a, <1>5, <2>3 DEF QueueInv, PlaceInv
    <2> QED BY <1>10, <2>1, <2>4
  <1>13. \A k \in Stored : Storing(k)' <=> Storing(k) \/ k = q
    <2>1. \A k \in Stored : storing[b] # k /\ (storing'[b] = k <=> k = q)
      BY <1>2, <1>7, Numbers
    <2> QED BY <1>6, <2>1 DEF Storing
  <1>14. \A c \in Blocks : pc'[c] = "l2Claim" => task'[c] \in Nat /\ task'[c] < L2QueueTail
    BY <1>a, <1>1, <1>6 DEF TakeInv
  <1>15. /\ \A c \in Taking : task'[c] \in Nat /\ task'[c] < L2QueueHead
         /\ \A c, d \in Taking : task'[c] = task'[d] => c = d
    BY <1>a, <1>1 DEF TakeInv
  <1>16. ASSUME NEW c \in Blocks, storing'[c] # None
         PROVE  /\ pc'[c] \in {"l2Count", "stop", "loopSync", "exitSync"}
                /\ storing'[c] \in Stored \ combine
    <2>1. CASE c = b
      BY <1>1, <1>7, <1>12, <1>16, <2>1
    <2>2. CASE c # b
      BY <1>a, <1>6, <1>16, <2>2 DEF TakeInv
    <2> QED BY <2>1, <2>2
  <1>17. ASSUME NEW c \in Blocks, NEW d \in Blocks, storing'[c] # None, storing'[c] = storing'[d]
         PROVE  c = d
    <2>1. CASE c # b /\ d # b
      BY <1>a, <1>6, <1>17, <2>1 DEF TakeInv
    <2>2. \A e \in Blocks \ {b} : storing'[b] # None => storing[e] # storing'[b]
      BY <1>7, <1>12 DEF Storing
    <2> QED BY <1>6, <1>17, <2>1, <2>2
  <1>18. \A j \in L2Tasks : Passed(j)' => l2_queue_ready[j] # 0
    BY <1>a, <1>1, <1>5, <1>11 DEF TakeInv
  <1>19. \A k \in Stored : k \in combine \/ Storing(k)' =>
           \E j \in L2Tasks : Passed(j)' /\ l2_queue[j] = k
    BY <1>a, <1>5, <1>11, <1>13 DEF TakeInv
  <1>20. \A j \in L2Tasks, k \in Stored :
           Passed(j)' /\ l2_queue[j] = k => k \in combine \/ Storing(k)'
    BY <1>a, <1>5, <1>11, <1>13 DEF TakeInv
  <1>21. \A c \in Blocks : pc'[c] \in {"exitSync", "exit"} => L2Done >= total_l2_tasks
    BY <1>a, <1>1, <1>6 DEF TakeInv
  <1>22. /\ L2QueueHead <= L2QueueTail /\ L2Done + Cardinality(Taking) = L2QueueHead
         /\ combine \subseteq Stored
    BY <1>a DEF TakeInv
  <1> QED BY <1>1, <1>8, <1>14, <1>15, <1>16, <1>17, <1>18, <1>19, <1>20, <1>21, <1>22 DEF TakeInv

LEMMA TakeCount ==
  ASSUME Work, NEW b \in Blocks, L2Count(b)
  PROVE  TakeInv'
  <1>a. Others(b) /\ Typed /\ TakeInv /\ L2QueueHead \in Nat /\ L2Done \in Nat
    BY OthersKeep, Numbers DEF Work, WorkInv, Typed, TypeInv, Step
  <1>1. /\ pc[b] = "l2Count" /\ task' = task /\ pc'[b] = "stop" /\ L2Done' = L2Done + 1
        /\ UNCHANGED <<storing, combine, L2QueueHead, L2QueueTail, l2_queue, l2_queue_ready>>
    BY <1>a, Arrives DEF L2Count, flags, priv, data
  <1>2. \A c \in Blocks \ {b} : pc'[c] = pc[c]
    BY <1>a DEF Others
  <1>3. Taking' = Taking \ {b} /\ b \in Taking
    BY <1>1, <1>2 DEF Taking
  <1>4. Cardinality(Taking') = Cardinality(Taking) - 1
    BY <1>3, TakingFinite, FS_RemoveElement
  <1>5. \A j : Passed(j)' <=> Passed(j)
    <2>1. \A c \in Blocks : \A j : Holder(c, j)' <=> Holder(c, j)
      BY <1>1, <1>2 DEF Holder
    <2> QED BY <1>1, <2>1 DEF Passed, Holder
  <1>6. \A k : Storing(k)' <=> Storing(k)
    BY <1>1 DEF Storing
  <1>7. L2Done' + Cardinality(Taking') = L2QueueHead
    <2>1. L2Done + Cardinality(Taking) = L2QueueHead
      BY <1>a DEF TakeInv
    <2> QED BY <1>a, <1>1, <1>4, <2>1, TakingFinite
  <1>8. \A c \in Blocks : pc'[c] = "l2Claim" => task[c] \in Nat /\ task[c] < L2QueueTail
    BY <1>a, <1>1, <1>2 DEF TakeInv
  <1>9. \A c \in Blocks : storing[c] # None =>
          pc'[c] \in {"l2Count", "stop", "loopSync", "exitSync"}
    BY <1>a, <1>1, <1>2 DEF TakeInv
  <1>10. \A c \in Blocks : pc'[c] \in {"exitSync", "exit"} => L2Done' >= total_l2_tasks
    <2>1. \A c \in Blocks : pc'[c] \in {"exitSync", "exit"} => L2Done >= total_l2_tasks
      BY <1>a, <1>1, <1>2 DEF TakeInv
    <2> QED BY <1>a, <1>1, <2>1, Numbers
  <1>11. /\ \A c \in Taking' : task[c] \in Nat /\ task[c] < L2QueueHead
         /\ \A c, d \in Taking' : task[c] = task[d] => c = d
    BY <1>a, <1>3 DEF TakeInv
  <1> QED BY <1>a, <1>1, <1>5, <1>6, <1>7, <1>8, <1>9, <1>10, <1>11 DEF TakeInv

LEMMA TakeStore ==
  ASSUME Work, NEW b \in Blocks, Store(b)
  PROVE  TakeInv'
  <1>a. Others(b) /\ Typed /\ TakeInv
    BY OthersKeep DEF Work, WorkInv
  <1>1. /\ storing[b] # None /\ pc' = pc /\ task' = task
        /\ combine' = combine \union {storing[b]}
        /\ storing' = [storing EXCEPT ![b] = None]
        /\ UNCHANGED <<L2QueueHead, L2QueueTail, L2Done, l2_queue, l2_queue_ready>>
    BY DEF Store, flags, counters
  <1>2. PICK q \in Stored : q = storing[b]
    BY <1>a, <1>1 DEF TakeInv
  <1>3. storing'[b] = None /\ \A c \in Blocks \ {b} : storing'[c] = storing[c]
    BY <1>a, <1>1 DEF Typed, TypeInv
  <1>4. \A c \in Blocks \ {b} : storing[c] # q
    BY <1>a, <1>1, <1>2 DEF TakeInv
  <1>5. \A k \in Stored : Storing(k)' <=> Storing(k) /\ k # q
    <2>1. \A k \in Stored : storing'[b] # k /\ (storing[b] = k <=> k = q)
      BY <1>2, <1>3, Numbers
    <2> QED BY <1>3, <1>4, <2>1 DEF Storing
  <1>6. \A j : Passed(j)' <=> Passed(j)
    BY <1>1 DEF Passed
  <1>7. Taking' = Taking
    BY <1>1 DEF Taking
  <1>8. combine' = combine \union {q} /\ combine' \subseteq Stored
    BY <1>a, <1>1, <1>2 DEF TakeInv
  <1>9. ASSUME NEW c \in Blocks, storing'[c] # None
        PROVE  /\ pc[c] \in {"l2Count", "stop", "loopSync", "exitSync"}
               /\ storing'[c] \in Stored \ combine'
    <2>1. c # b /\ storing'[c] = storing[c] /\ storing[c] # q
      BY <1>3, <1>4, <1>9
    <2> QED BY <1>a, <1>8, <1>9, <2>1 DEF TakeInv
  <1>10. \A c, d \in Blocks : storing'[c] # None /\ storing'[c] = storing'[d] => c = d
    BY <1>a, <1>3 DEF TakeInv
  <1>11. \A k \in Stored : k \in combine' \/ Storing(k)' <=> k \in combine \/ Storing(k)
    BY <1>2, <1>5, <1>8 DEF Storing
  <1>12. \A k \in Stored : k \in combine' \/ Storing(k)' =>
           \E j \in L2Tasks : Passed(j) /\ l2_queue[j] = k
    BY <1>a, <1>11 DEF TakeInv
  <1>13. \A j \in L2Tasks, k \in Stored :
           Passed(j) /\ l2_queue[j] = k => k \in combine' \/ Storing(k)'
    BY <1>a, <1>11 DEF TakeInv
  <1> QED BY <1>a, <1>1, <1>6, <1>7, <1>8, <1>9, <1>10, <1>12, <1>13 DEF TakeInv

LEMMA TakeStep ==
  ASSUME Work, NEW b \in Blocks, Step(b) \/ Store(b)
  PROVE  TakeInv'
  <1>a. Others(b) /\ Typed /\ TakeInv /\ QueueInv
    BY OthersKeep DEF Work, WorkInv
  <1>b. ~ Reset(b) /\ L2QueueTail \in Nat /\ L2QueueHead \in Nat
    BY Numbers DEF Work, Running, Reset, Typed, TypeInv
  <1>c. /\ Work /\ Others(b) /\ Typed
        /\ storing[b] # None => pc[b] \in {"l2Count", "stop", "loopSync", "exitSync"}
    BY <1>a DEF TakeInv
  <1>1. CASE L2Load(b) \/ L2Claim(b)
    BY <1>1, TakeLoad, TakeClaim
  <1>2. CASE L2Wait(b) \/ L2Count(b)
    BY <1>2, TakeWait, TakeCount
  <1>3. CASE Store(b)
    BY <1>3, TakeStore
  <1>4. CASE Reserve(b)
    <2>1. /\ pc[b] = "reserve" /\ pc'[b] = "fill" /\ L2QueueTail' = L2QueueTail + Entries(b)
          /\ UNCHANGED <<storing, combine, L2QueueHead, L2Done, l2_queue, l2_queue_ready>>
      BY <1>4, <1>a, Arrives DEF Reserve, flags, data
    <2>2. Entries(b) \in Nat
      <3>1. task[b] \in Subtiles
        BY <2>1 DEF Work, WorkInv, TokenInv, Carrying, Open
      <3> QED BY <3>1, <1>4, TasksReserve, EntryFacts
    <2>3. L2QueueTail' \in Nat /\ L2QueueTail <= L2QueueTail'
      BY <1>b, <2>1, <2>2
    <2> QED BY <1>c, <2>1, <2>3, TakeFrame
  <1>5. CASE Fill(b)
    <2>1. /\ pc[b] = "fill" /\ pc'[b] = "ready"
          /\ l2_queue' = [l2_queue EXCEPT ![base[b] + fill[b]] =
                            GroupEntry(Group[task[b]], fill[b])]
          /\ UNCHANGED <<storing, combine, L2QueueHead, L2QueueTail, L2Done, l2_queue_ready>>
      BY <1>5, <1>a, Arrives DEF Fill, priv, counters, data
    <2>2. Reserved(b, base[b] + fill[b])
      BY <2>1, FillPlace DEF Filling
    <2>3. \A j \in L2Tasks : l2_queue_ready[j] # 0 =>
            l2_queue_ready'[j] # 0 /\ l2_queue'[j] = l2_queue[j]
      <3> SUFFICES ASSUME NEW j \in L2Tasks, l2_queue_ready[j] # 0
                   PROVE  l2_queue'[j] = l2_queue[j]
        BY <2>1
      <3>1. j # base[b] + fill[b]
        BY <1>a, <2>2 DEF QueueInv, ReadyInv
      <3> QED BY <1>a, <2>1, <3>1 DEF Typed, TypeInv
    <2> QED BY <1>b, <1>c, <2>1, <2>3, TakeFrame
  <1>6. CASE Ready(b)
    <2>1. /\ pc[b] = "ready" /\ pc'[b] \in {"fill", "l2"}
          /\ l2_queue_ready' = [l2_queue_ready EXCEPT ![base[b] + fill[b]] = 1]
          /\ UNCHANGED <<storing, combine, L2QueueHead, L2QueueTail, L2Done, l2_queue>>
      BY <1>6, <1>a, Arrives DEF Ready, counters, data
    <2>2. \A j \in L2Tasks : l2_queue_ready[j] # 0 =>
            l2_queue_ready'[j] # 0 /\ l2_queue'[j] = l2_queue[j]
      BY <1>a, <2>1 DEF Typed, TypeInv
    <2> QED BY <1>b, <1>c, <2>1, <2>2, TakeFrame
  <1>7. CASE StopLoad(b)
    <2>1. /\ pc[b] = "stop"
          /\ pc'[b] = IF L2Done >= total_l2_tasks THEN "exitSync" ELSE "loopSync"
          /\ UNCHANGED <<priv, flags, counters, data>>
      BY <1>7, <1>a, Arrives DEF StopLoad
    <2> QED BY <1>b, <1>c, <2>1, TakeFrame DEF priv, flags, counters, data
  <1>8. CASE PullLoad(b)
    BY <1>8, Arrives, <1>b, <1>c, TakeFrame DEF PullLoad, priv, flags, counters, data
  <1>9. CASE PullClaim(b)
    BY <1>9, Arrives, <1>b, <1>c, TakeFrame DEF PullClaim, flags, data
  <1>10. CASE Copy(b)
    BY <1>10, Arrives, <1>b, <1>c, TakeFrame DEF Copy, priv, flags, counters
  <1>11. CASE Publish(b)
    BY <1>11, Arrives, <1>b, <1>c, TakeFrame DEF Publish, priv, counters, data
  <1>12. CASE L1Load(b)
    BY <1>12, Arrives, <1>b, <1>c, TakeFrame DEF L1Load, priv, flags, counters, data
  <1>13. CASE L1Claim(b)
    BY <1>13, Arrives, <1>b, <1>c, TakeFrame DEF L1Claim, flags, data
  <1>14. CASE L1Wait(b)
    BY <1>14, Arrives, <1>b, <1>c, TakeFrame DEF L1Wait, EnqueueStart, flags, counters, data
  <1>15. CASE Compute(b)
    BY <1>15, Arrives, <1>b, <1>c, TakeFrame DEF Compute, flags, counters
  <1>16. CASE Count(b)
    BY <1>16, Arrives, <1>b, <1>c, TakeFrame DEF Count, priv, counters, data
  <1>17. CASE Quant(b)
    BY <1>17, Arrives, <1>b, <1>c, TakeFrame DEF Quant, EnqueueStart, priv, flags, counters
  <1>18. CASE GroupDone(b)
    BY <1>18, Arrives, <1>b, <1>c, TakeFrame DEF GroupDone, priv, counters, data
  <1>19. CASE Barrier(b)
    BY <1>19, Arrives, <1>b, <1>c, TakeFrame DEF Barrier, priv, flags, counters, data
  <1>20. CASE Sync(b)
    <2>1. /\ pc[b] \in {"exitSync", "loopSync"} /\ storing[b] = None
          /\ pc'[b] = IF pc[b] = "exitSync" THEN "exit" ELSE "pull"
          /\ UNCHANGED <<priv, flags, counters, data>>
      BY <1>20, <1>a, Arrives DEF Sync
    <2>2. pc'[b] = "exit" => L2Done >= total_l2_tasks
      BY <1>a, <2>1 DEF TakeInv
    <2> QED BY <1>b, <1>c, <2>1, <2>2, TakeFrame DEF priv, flags, counters, data
  <1> QED BY <1>b, <1>1, <1>2, <1>3, <1>4, <1>5, <1>6, <1>7, <1>8, <1>9, <1>10, <1>11, <1>12,
            <1>13, <1>14, <1>15, <1>16, <1>17, <1>18, <1>19, <1>20 DEF Step

-----------------------------------------------------------------------------
(* HeadInv.                                                                 *)

LEMMA ClaimSets ==
  ASSUME NEW b \in Blocks, Others(b)
  PROVE  /\ IsFiniteSet(ClaimingTile) /\ Cardinality(ClaimingTile) \in Nat
         /\ IsFiniteSet(ClaimingL1) /\ Cardinality(ClaimingL1) \in Nat
         /\ Cardinality(ClaimingTile)' \in Nat /\ Cardinality(ClaimingTile)' <= NumBlocks
         /\ Cardinality(ClaimingL1)' \in Nat /\ Cardinality(ClaimingL1)' <= NumBlocks
         /\ ClaimingTile' = IF pc'[b] = "pullClaim" THEN ClaimingTile \union {b}
                                                    ELSE ClaimingTile \ {b}
         /\ ClaimingL1' = IF pc'[b] = "l1Claim" THEN ClaimingL1 \union {b} ELSE ClaimingL1 \ {b}
  <1>1. /\ ClaimingTile \subseteq Blocks /\ ClaimingTile' \subseteq Blocks
        /\ ClaimingL1 \subseteq Blocks /\ ClaimingL1' \subseteq Blocks
    BY DEF ClaimingTile, ClaimingL1, Blocks
  <1>2. \A S \in SUBSET Blocks :
          IsFiniteSet(S) /\ Cardinality(S) \in Nat /\ Cardinality(S) <= NumBlocks
    BY DataFinite, FS_Subset, FS_CardinalityType
  <1>3. \A c \in Blocks \ {b} : pc'[c] = pc[c]
    BY DEF Others
  <1> QED BY <1>1, <1>2, <1>3 DEF ClaimingTile, ClaimingL1

LEMMA HeadFrame ==
  ASSUME Work, NEW b \in Blocks, Others(b),
         pc[b] \notin {"pullClaim", "l1Claim"}, pc'[b] \notin {"pullClaim", "l1Claim"},
         UNCHANGED <<PullTileHead, L1TaskHead>>
  PROVE  HeadInv'
  <1>1. b \notin ClaimingTile /\ b \notin ClaimingL1
    BY DEF ClaimingTile, ClaimingL1
  <1>2. ClaimingTile' = ClaimingTile /\ ClaimingL1' = ClaimingL1
    BY <1>1, ClaimSets
  <1> QED BY <1>2 DEF Work, WorkInv, HeadInv

LEMMA HeadStep ==
  ASSUME Work, NEW b \in Blocks, Step(b) \/ Store(b)
  PROVE  HeadInv'
  <1>a. Others(b) /\ Typed /\ HeadInv
    BY OthersKeep DEF Work, WorkInv
  <1>b. Work /\ Others(b) /\ Typed /\ ~ Reset(b)
    BY <1>a DEF Work, Running, Reset
  <1>c. PICK C \in Nat, D \in Nat :
          C = Cardinality(ClaimingTile) /\ D = Cardinality(ClaimingL1)
    BY <1>a, ClaimSets
  <1>d. PICK P \in Nat, L \in Nat, nt \in Nat, nl \in Nat, nb \in Nat \ {0} :
          /\ P = PullTileHead /\ L = L1TaskHead
          /\ nt = total_tiles /\ nl = total_l1_tasks /\ nb = NumBlocks
    BY <1>a, Numbers DEF Typed, TypeInv
  <1>e. P + C <= nt + nb - 1 /\ L + D <= nl + nb - 1
    BY <1>a, <1>c, <1>d DEF HeadInv
  <1>1. CASE PullLoad(b)
    <2>1. /\ pc[b] = "pull" /\ pc'[b] = IF P < nt THEN "pullClaim" ELSE "l1"
          /\ UNCHANGED <<PullTileHead, L1TaskHead>>
      BY <1>1, <1>a, <1>d, Arrives DEF PullLoad, counters
    <2>2. CASE P < nt
      <3>1. b \notin ClaimingL1
        BY <2>1 DEF ClaimingL1
      <3>2. ClaimingL1' = ClaimingL1
        BY <1>a, <2>1, <2>2, <3>1, ClaimSets
      <3>3. PICK E \in Nat : E = Cardinality(ClaimingTile)' /\ E <= nb
        BY <1>a, <1>d, ClaimSets
      <3>4. P + E <= nt + nb - 1
        BY <2>2, <3>3
      <3> QED BY <1>c, <1>d, <1>e, <2>1, <3>2, <3>3, <3>4 DEF HeadInv
    <2>3. CASE ~ (P < nt)
      BY <1>b, <2>1, <2>3, HeadFrame
    <2> QED BY <2>2, <2>3
  <1>2. CASE PullClaim(b)
    <2>1. /\ pc[b] = "pullClaim" /\ pc'[b] \in {"copy", "l1"}
          /\ PullTileHead' = P + 1 /\ L1TaskHead' = L
      BY <1>2, <1>a, <1>d, Arrives DEF PullClaim
    <2>2. b \in ClaimingTile /\ b \notin ClaimingL1
      BY <2>1 DEF ClaimingTile, ClaimingL1
    <2>3. ClaimingTile' = ClaimingTile \ {b} /\ ClaimingL1' = ClaimingL1
      BY <1>a, <2>1, <2>2, ClaimSets
    <2>4. Cardinality(ClaimingTile)' = C - 1
      BY <1>a, <1>c, <2>2, <2>3, ClaimSets, FS_RemoveElement
    <2>5. (P + 1) + (C - 1) <= nt + nb - 1
      BY <1>e
    <2> QED BY <1>c, <1>d, <1>e, <2>1, <2>3, <2>4, <2>5 DEF HeadInv
  <1>3. CASE L1Load(b)
    <2>1. /\ pc[b] = "l1" /\ pc'[b] = IF L < nl THEN "l1Claim" ELSE "l2"
          /\ UNCHANGED <<PullTileHead, L1TaskHead>>
      BY <1>3, <1>a, <1>d, Arrives DEF L1Load, counters
    <2>2. CASE L < nl
      <3>1. b \notin ClaimingTile
        BY <2>1 DEF ClaimingTile
      <3>2. ClaimingTile' = ClaimingTile
        BY <1>a, <2>1, <2>2, <3>1, ClaimSets
      <3>3. PICK E \in Nat : E = Cardinality(ClaimingL1)' /\ E <= nb
        BY <1>a, <1>d, ClaimSets
      <3>4. L + E <= nl + nb - 1
        BY <2>2, <3>3
      <3> QED BY <1>c, <1>d, <1>e, <2>1, <3>2, <3>3, <3>4 DEF HeadInv
    <2>3. CASE ~ (L < nl)
      BY <1>b, <2>1, <2>3, HeadFrame
    <2> QED BY <2>2, <2>3
  <1>4. CASE L1Claim(b)
    <2>1. /\ pc[b] = "l1Claim" /\ pc'[b] \in {"l1Wait", "l2"}
          /\ L1TaskHead' = L + 1 /\ PullTileHead' = P
      BY <1>4, <1>a, <1>d, Arrives DEF L1Claim
    <2>2. b \in ClaimingL1 /\ b \notin ClaimingTile
      BY <2>1 DEF ClaimingTile, ClaimingL1
    <2>3. ClaimingL1' = ClaimingL1 \ {b} /\ ClaimingTile' = ClaimingTile
      BY <1>a, <2>1, <2>2, ClaimSets
    <2>4. Cardinality(ClaimingL1)' = D - 1
      BY <1>a, <1>c, <2>2, <2>3, ClaimSets, FS_RemoveElement
    <2>5. (L + 1) + (D - 1) <= nl + nb - 1
      BY <1>e
    <2> QED BY <1>c, <1>d, <1>e, <2>1, <2>3, <2>4, <2>5 DEF HeadInv
  <1>5. CASE Copy(b)
    BY <1>5, Arrives, <1>b, HeadFrame DEF Copy, priv, flags, counters
  <1>6. CASE Publish(b)
    BY <1>6, Arrives, <1>b, HeadFrame DEF Publish, priv, counters, data
  <1>7. CASE L1Wait(b)
    BY <1>7, Arrives, <1>b, HeadFrame DEF L1Wait, EnqueueStart, flags, counters, data
  <1>8. CASE Compute(b)
    BY <1>8, Arrives, <1>b, HeadFrame DEF Compute, flags, counters
  <1>9. CASE Count(b)
    BY <1>9, Arrives, <1>b, HeadFrame DEF Count, priv, counters, data
  <1>10. CASE Quant(b)
    BY <1>10, Arrives, <1>b, HeadFrame DEF Quant, EnqueueStart, priv, flags, counters
  <1>11. CASE GroupDone(b)
    BY <1>11, Arrives, <1>b, HeadFrame DEF GroupDone, priv, counters, data
  <1>12. CASE Reserve(b)
    BY <1>12, Arrives, <1>b, HeadFrame DEF Reserve, flags, data
  <1>13. CASE Fill(b)
    BY <1>13, Arrives, <1>b, HeadFrame DEF Fill, priv, counters, data
  <1>14. CASE Ready(b)
    BY <1>14, Arrives, <1>b, HeadFrame DEF Ready, counters, data
  <1>15. CASE L2Load(b)
    BY <1>15, Arrives, <1>b, HeadFrame DEF L2Load, flags, counters, data
  <1>16. CASE L2Claim(b)
    BY <1>16, Arrives, <1>b, HeadFrame DEF L2Claim, priv, flags, data
  <1>17. CASE L2Wait(b)
    BY <1>17, Arrives, <1>b, HeadFrame DEF L2Wait, flags, counters, data
  <1>18. CASE L2Count(b)
    BY <1>18, Arrives, <1>b, HeadFrame DEF L2Count, priv, flags, data
  <1>19. CASE StopLoad(b)
    BY <1>19, Arrives, <1>b, HeadFrame DEF StopLoad, priv, flags, counters, data
  <1>20. CASE Sync(b)
    BY <1>20, Arrives, <1>b, HeadFrame DEF Sync, priv, flags, counters, data
  <1>21. CASE Store(b)
    <2>1. UNCHANGED <<pc, PullTileHead, L1TaskHead>>
      BY <1>21 DEF Store, counters
    <2>2. ClaimingTile' = ClaimingTile /\ ClaimingL1' = ClaimingL1
      BY <2>1 DEF ClaimingTile, ClaimingL1
    <2> QED BY <1>a, <2>1, <2>2 DEF HeadInv
  <1>22. CASE Barrier(b)
    BY <1>22, Arrives, <1>b, HeadFrame DEF Barrier, priv, flags, counters, data
  <1> QED BY <1>b, <1>1, <1>2, <1>3, <1>4, <1>5, <1>6, <1>7, <1>8, <1>9, <1>10, <1>11, <1>12,
            <1>13, <1>14, <1>15, <1>16, <1>17, <1>18, <1>19, <1>20, <1>21, <1>22 DEF Step

-----------------------------------------------------------------------------
(* The types.                                                               *)

LEMMA PcStep ==
  ASSUME Typed, NEW b \in Blocks, Step(b) \/ Store(b)
  PROVE  pc' \in [Blocks -> Locations]
  <1>1. CASE Store(b)
    BY <1>1 DEF Store, Typed
  <1>2. CASE Step(b)
    <2>1. \E there \in Locations : Go(b, there)
      <3> USE DEF Locations
      <3>1. CASE Reset(b)
        BY <3>1 DEF Reset
      <3>2. CASE Barrier(b)
        BY <3>2 DEF Barrier
      <3>3. CASE PullLoad(b)
        BY <3>3 DEF PullLoad
      <3>4. CASE PullClaim(b)
        BY <3>4 DEF PullClaim
      <3>5. CASE Copy(b)
        BY <3>5 DEF Copy
      <3>6. CASE Publish(b)
        BY <3>6 DEF Publish
      <3>7. CASE L1Load(b)
        BY <3>7 DEF L1Load
      <3>8. CASE L1Claim(b)
        BY <3>8 DEF L1Claim
      <3>9. CASE L1Wait(b)
        BY <3>9 DEF L1Wait, EnqueueStart
      <3>10. CASE Compute(b)
        BY <3>10 DEF Compute
      <3>11. CASE Count(b)
        BY <3>11 DEF Count
      <3>12. CASE Quant(b)
        BY <3>12 DEF Quant, EnqueueStart
      <3>13. CASE GroupDone(b)
        BY <3>13 DEF GroupDone
      <3>14. CASE Reserve(b)
        BY <3>14 DEF Reserve
      <3>15. CASE Fill(b)
        BY <3>15 DEF Fill
      <3>16. CASE Ready(b)
        BY <3>16 DEF Ready
      <3>17. CASE L2Load(b)
        BY <3>17 DEF L2Load
      <3>18. CASE L2Claim(b)
        BY <3>18 DEF L2Claim
      <3>19. CASE L2Wait(b)
        BY <3>19 DEF L2Wait
      <3>20. CASE L2Count(b)
        BY <3>20 DEF L2Count
      <3>21. CASE StopLoad(b)
        BY <3>21 DEF StopLoad
      <3>22. CASE Sync(b)
        BY <3>22 DEF Sync
      <3> QED BY <1>2, <3>1, <3>2, <3>3, <3>4, <3>5, <3>6, <3>7, <3>8, <3>9, <3>10,
                 <3>11, <3>12, <3>13, <3>14, <3>15, <3>16, <3>17, <3>18, <3>19, <3>20, <3>21, <3>22 DEF Step
    <2> QED BY <2>1 DEF Typed, Go
  <1> QED BY <1>1, <1>2

LEMMA TypeStep ==
  ASSUME Work, NEW b \in Blocks, Step(b) \/ Store(b)
  PROVE  Typed'
  <1>a. TypeInv /\ PullInv /\ L1Inv /\ CountInv /\ TokenInv /\ TakeInv
        /\ pc' \in [Blocks -> Locations]
    BY PcStep DEF Work, WorkInv, Typed
  <1>b. ~ Reset(b)
    BY DEF Work, Running, Reset
  <1>c. Subtiles \subseteq Nat /\ L2Tasks \subseteq Nat /\ Stored \subseteq L2Tasks
        /\ L2Tasks = 0 .. total_l2_tasks - 1 /\ total_l2_tasks \in Nat
        /\ ValidSubtiles \subseteq Subtiles /\ NumInterChunks \in Nat
    BY Numbers DEF L2Tasks
  <1> SUFFICES TypeInv'
    BY <1>a DEF Typed
  <1>1. CASE PullClaim(b)
    BY <1>a, <1>1 DEF PullClaim, TypeInv, flags, data
  <1>2. CASE L1Claim(b)
    BY <1>a, <1>2 DEF L1Claim, TypeInv, flags, data
  <1>3. CASE Publish(b)
    <2>1. task[b] \in Tiles
      BY <1>a, <1>3 DEF Publish, PullInv, Pulling
    <2> QED BY <1>a, <1>3, <2>1 DEF Publish, TypeInv, Flag, priv, counters, data
  <1>4. CASE L1Wait(b) \/ Compute(b)
    <2>1. task[b] \in L1Tasks
      BY <1>a, <1>4 DEF L1Wait, Compute, L1Inv, Holding
    <2>2. L1Subtile(b) \in Int
      <3>1. L1Subtile(b) \in Subtiles
        BY <2>1, TasksFacts DEF L1Subtile, Decoded
      <3>2. Subtiles \subseteq Int
        BY <1>c
      <3> QED BY <3>1, <3>2
    <2>3. CASE L1Wait(b)
      <3>1. /\ task' = [task EXCEPT ![b] = IF RowsOf[L1Subtile(b)] > 0 THEN @ ELSE L1Subtile(b)]
            /\ UNCHANGED <<base, fill, storing, flags, counters, data>>
        BY <2>3 DEF L1Wait
      <3>2. task' \in [Blocks -> Int]
        BY <1>a, <2>2, <3>1 DEF TypeInv
      <3> QED BY <1>a, <3>1, <3>2 DEF TypeInv, flags, counters, data
    <2>4. CASE Compute(b)
      BY <1>a, <2>2, <2>4 DEF Compute, TypeInv, flags, counters
    <2> QED BY <1>4, <2>3, <2>4
  <1>5. CASE Count(b)
    <2>1. PICK s \in Subtiles : s = task[b]
      BY <1>a, <1>c, <1>5 DEF Count, CountInv
    <2>2. l1_done_counts'[s] \in 0 .. NumInterChunks
      <3>1. l1_done_counts'[s] + Cardinality(Counting(s))' = Cardinality(Computed(s))'
        BY CountStep DEF CountInv
      <3>2. l1_done_counts'[s] = l1_done_counts[s] + 1 /\ l1_done_counts[s] \in Nat
        BY <1>a, <1>c, <1>5, <2>1 DEF Count, TypeInv
      <3>3. Cardinality(Counting(s))' \in Nat /\ Cardinality(Computed(s))' \in 0 .. NumInterChunks
        <4>1. Counting(s)' \subseteq Blocks /\ Computed(s)' \subseteq Chunks
          BY DEF Counting, Computed, Blocks, Chunks
        <4>2. \A S \in SUBSET Blocks : Cardinality(S) \in Nat
          BY DataFinite, FS_Subset, FS_CardinalityType
        <4>3. \A S \in SUBSET Chunks : Cardinality(S) \in 0 .. NumInterChunks
          BY <1>c, DataFinite, FS_Subset, FS_CardinalityType
        <4> QED BY <4>1, <4>2, <4>3
      <3> QED BY <1>c, <3>1, <3>2, <3>3
    <2>3. l1_done_counts' = [l1_done_counts EXCEPT ![s] = l1_done_counts'[s]]
      BY <1>a, <1>5, <2>1 DEF Count, TypeInv
    <2>4. l1_done_counts' \in [Subtiles -> 0 .. NumInterChunks]
      BY <1>a, <2>2, <2>3 DEF TypeInv
    <2> QED BY <1>a, <1>5, <2>4 DEF Count, TypeInv, priv, counters, data
  <1>6. CASE GroupDone(b)
    <2>1. Group[task[b]].slot \in Subtiles
      BY <1>a, <1>6, GroupFacts DEF GroupDone, TokenInv, Carrying, Open
    <2>2. l2_group_done_counts' \in [Subtiles -> Nat]
      BY <1>a, <1>6, <2>1 DEF GroupDone, TypeInv
    <2> QED BY <1>a, <1>6, <2>2 DEF GroupDone, TypeInv, priv, counters, data
  <1>7. CASE Reserve(b)
    <2>1. PICK s \in Subtiles : s = task[b]
      BY <1>a, <1>7 DEF Reserve, TokenInv, Carrying, Open
    <2>2. L2QueueTail' = Cardinality(QueuedTasks') /\ Cardinality(QueuedTasks') <= total_l2_tasks
      BY <1>7, <2>1, QueueReserve, TasksReserve DEF QueueInv
    <2>3. Entries(b) \in Nat
      BY <1>7, <2>1, TasksReserve, EntryFacts
    <2>4. L2QueueTail' \in 0 .. total_l2_tasks /\ L2QueueTail \in 0 .. total_l2_tasks
      BY <1>a, <1>c, <1>7, <2>2, <2>3 DEF Reserve, TypeInv
    <2>5. base' \in [Blocks -> 0 .. total_l2_tasks] /\ fill' \in [Blocks -> 0 .. total_l2_tasks]
      BY <1>a, <1>c, <1>7, <2>4 DEF Reserve, TypeInv
    <2> QED BY <1>a, <1>7, <2>4, <2>5 DEF Reserve, TypeInv, flags, data
  <1>8. CASE Fill(b)
    <2>1. Filling(b)
      BY <1>8 DEF Fill, Filling
    <2>2. /\ base[b] + fill[b] \in L2Tasks /\ base[b] \in Nat /\ fill[b] \in Nat
          /\ EntryFor(b, base[b] + fill[b]) \in L2Tasks
      BY <2>1, FillPlace DEF Reserved
    <2>3. GroupEntry(Group[task[b]], fill[b]) \in L2Tasks
      <3>1. base[b] + fill[b] - base[b] = fill[b]
        BY <2>2
      <3> QED BY <2>2, <3>1 DEF EntryFor
    <2>4. l2_queue' \in [L2Tasks -> L2Tasks]
      BY <1>a, <1>8, <2>2, <2>3 DEF Fill, TypeInv
    <2> QED BY <1>a, <1>8, <2>4 DEF Fill, TypeInv, priv, counters, data
  <1>9. CASE Ready(b)
    <2>1. Filling(b)
      BY <1>9 DEF Ready, Filling
    <2>2. /\ base[b] + fill[b] \in L2Tasks /\ base[b] \in Nat /\ fill[b] \in Nat
          /\ Entries(b) \in Nat /\ fill[b] < Entries(b)
          /\ base[b] + Entries(b) <= L2QueueTail /\ L2QueueTail \in Nat
          /\ L2QueueTail <= total_l2_tasks
      BY <2>1, FillPlace
    <2>3. fill[b] + 1 \in 0 .. total_l2_tasks
      BY <1>c, <2>2
    <2>4. fill' \in [Blocks -> 0 .. total_l2_tasks] /\ l2_queue_ready' \in [L2Tasks -> Flag]
      BY <1>a, <1>9, <2>2, <2>3 DEF Ready, TypeInv, Flag
    <2> QED BY <1>a, <1>9, <2>4 DEF Ready, TypeInv, counters, data
  <1>10. CASE L2Load(b)
    BY <1>a, <1>10 DEF L2Load, TypeInv, flags, counters, data
  <1>11. CASE L2Claim(b)
    BY <1>a, <1>11 DEF L2Claim, TypeInv, flags, priv, data
  <1>12. CASE L2Wait(b)
    BY <1>a, <1>c, <1>12 DEF L2Wait, TypeInv, flags, counters, data
  <1>13. CASE L2Count(b)
    BY <1>a, <1>13 DEF L2Count, TypeInv, flags, priv, data
  <1>14. CASE Store(b)
    BY <1>a, <1>14 DEF Store, TypeInv, flags, counters
  <1>15. CASE UNCHANGED <<priv, flags, counters>>
    BY <1>a, <1>15 DEF TypeInv, priv, flags, counters
  <1>16. CASE Barrier(b) \/ PullLoad(b) \/ Copy(b) \/ L1Load(b) \/ Quant(b) \/ StopLoad(b) \/ Sync(b)
    BY <1>15, <1>16 DEF Barrier, PullLoad, Copy, L1Load, Quant, StopLoad, Sync
  <1> QED BY <1>a, <1>b, <1>1, <1>2, <1>3, <1>4, <1>5, <1>6, <1>7, <1>8, <1>9, <1>10, <1>11,
             <1>12, <1>13, <1>14, <1>16 DEF Step

LEMMA WorkStep ==
  ASSUME Work, NEW b \in Blocks, Step(b) \/ Store(b)
  PROVE  Work'
  <1>1. Running'
    <2>1. ~ Reset(b)
      BY DEF Work, Running, Reset
    <2>2. \A c \in Blocks \ {b} : pc'[c] = pc[c]
      BY OthersKeep DEF Work, Others
    <2>3. CASE Store(b)
      BY <2>3 DEF Store, Work, Running
    <2>4. CASE Step(b)
      <3>1. \E there \in Locations \ {"reset"} : Go(b, there)
        BY <2>1, <2>4 DEF Step, Locations, Barrier, PullLoad, PullClaim, Copy, Publish, L1Load,
           L1Claim, L1Wait, Compute, Count, Quant, GroupDone, Reserve, Fill, Ready, L2Load,
           L2Claim, L2Wait, L2Count, StopLoad, Sync, EnqueueStart
      <3> QED BY <2>2, <3>1, Arrives DEF Work, Running
    <2> QED BY <2>3, <2>4
  <1>2. WorkInv'
    BY PullStep, L1Step, CountStep, TokenStep, GroupStep, QueueStep, TakeStep, HeadStep DEF
       WorkInv
  <1> QED BY <1>1, <1>2, TypeStep DEF Work

-----------------------------------------------------------------------------
(* The reset: whatever the last launch left, the blocks start from zero.    *)

LEMMA StrideOwner ==
  ASSUME NEW i \in Nat
  PROVE  i % NumBlocks \in Blocks
  <1>1. PICK n \in Nat \ {0} : n = NumBlocks
    BY BlocksAssumption
  <1>2. i % n \in 0 .. n - 1
    BY SMTT(30)
  <1> QED BY <1>1, <1>2 DEF Blocks

LEMMA ResetKeeps ==
  ASSUME Inv, ~ Running, NEW b \in Blocks, Reset(b)
  PROVE  Typed' /\ ResetInv'
  <1>1. TypeInv /\ pc \in [Blocks -> Locations] /\ ResetInv
    BY DEF Inv
  <1>2. /\ pc[b] = "reset" /\ pc' = [pc EXCEPT ![b] = "barrier"]
        /\ tile_pull_done' = Zeroed(tile_pull_done, b)
        /\ l1_done_counts' = Zeroed(l1_done_counts, b)
        /\ l2_group_done_counts' = Zeroed(l2_group_done_counts, b)
        /\ l2_queue_ready' = Zeroed(l2_queue_ready, b)
        /\ UNCHANGED <<task, base, fill, storing, l2_queue, xPool, act, actFp8, combine>>
    BY DEF Reset, Go, priv, data
  <1>3. \/ /\ b = 0 /\ PullTileHead' = 0 /\ L1TaskHead' = 0 /\ L2QueueTail' = 0
           /\ L2QueueHead' = 0 /\ L2Done' = 0
        \/ b # 0 /\ UNCHANGED <<PullTileHead, L1TaskHead, L2QueueTail, L2QueueHead, L2Done>>
    BY DEF Reset, counters
  <1>4. pc' \in [Blocks -> Locations] /\ pc' \in [Blocks -> {"reset", "barrier"}]
    BY <1>1, <1>2 DEF ResetInv, Locations
  <1>5. NumInterChunks \in Nat /\ total_l2_tasks \in Nat /\ 0 \in Blocks
    BY Numbers, BlocksFinite
  <1>6. /\ tile_pull_done' \in [Tiles -> Flag]
        /\ l1_done_counts' \in [Subtiles -> 0 .. NumInterChunks]
        /\ l2_group_done_counts' \in [Subtiles -> Nat]
        /\ l2_queue_ready' \in [L2Tasks -> Flag]
    <2>1. tile_pull_done' \in [Tiles -> Flag]
      BY <1>1, <1>2 DEF TypeInv, Zeroed, Flag
    <2>2. l1_done_counts' \in [Subtiles -> 0 .. NumInterChunks]
      BY <1>1, <1>2, <1>5 DEF TypeInv, Zeroed
    <2>3. l2_group_done_counts' \in [Subtiles -> Nat]
      BY <1>1, <1>2 DEF TypeInv, Zeroed
    <2>4. l2_queue_ready' \in [L2Tasks -> Flag]
      BY <1>1, <1>2 DEF TypeInv, Zeroed, Flag
    <2> QED BY <2>1, <2>2, <2>3, <2>4
  <1>7. TypeInv'
    BY <1>1, <1>2, <1>3, <1>5, <1>6 DEF TypeInv
  <1>8. \A c \in Blocks : pc'[c] # "reset" <=> pc[c] # "reset" \/ c = b
    BY <1>1, <1>2 DEF ResetInv
  <1>9. \A i \in Tiles : pc'[i % NumBlocks] # "reset" => tile_pull_done'[i] = 0
    <2> SUFFICES ASSUME NEW i \in Tiles, pc'[i % NumBlocks] # "reset"
                 PROVE  tile_pull_done'[i] = 0
      OBVIOUS
    <2>1. i % NumBlocks \in Blocks
      BY Numbers, StrideOwner
    <2> QED BY <1>1, <1>2, <1>8, <2>1 DEF ResetInv, TypeInv, Zeroed
  <1>10. \A i \in Subtiles : pc'[i % NumBlocks] # "reset" =>
           l1_done_counts'[i] = 0 /\ l2_group_done_counts'[i] = 0
    <2> SUFFICES ASSUME NEW i \in Subtiles, pc'[i % NumBlocks] # "reset"
                 PROVE  l1_done_counts'[i] = 0 /\ l2_group_done_counts'[i] = 0
      OBVIOUS
    <2>1. i % NumBlocks \in Blocks
      BY Numbers, StrideOwner
    <2> QED BY <1>1, <1>2, <1>8, <2>1 DEF ResetInv, TypeInv, Zeroed
  <1>11. \A i \in L2Tasks : pc'[i % NumBlocks] # "reset" => l2_queue_ready'[i] = 0
    <2> SUFFICES ASSUME NEW i \in L2Tasks, pc'[i % NumBlocks] # "reset"
                 PROVE  l2_queue_ready'[i] = 0
      OBVIOUS
    <2>1. i % NumBlocks \in Blocks
      BY Numbers, StrideOwner
    <2> QED BY <1>1, <1>2, <1>8, <2>1 DEF ResetInv, TypeInv, Zeroed
  <1>12. pc'[0] # "reset" => /\ PullTileHead' = 0 /\ L1TaskHead' = 0 /\ L2QueueTail' = 0
                             /\ L2QueueHead' = 0 /\ L2Done' = 0
    BY <1>1, <1>3, <1>5, <1>8 DEF ResetInv
  <1>13. /\ PullTileHead' <= total_tiles /\ L1TaskHead' <= total_l1_tasks
         /\ L2QueueHead' <= L2QueueTail' /\ L2Done' <= total_l2_tasks
    BY <1>1, <1>3, Numbers DEF ResetInv
  <1>14. ResetInv'
    BY <1>1, <1>2, <1>4, <1>9, <1>10, <1>11, <1>12, <1>13 DEF ResetInv
  <1> QED BY <1>4, <1>7, <1>14 DEF Typed

LEMMA StartWork == Typed /\ ResetInv /\ Running => WorkInv
  <1> SUFFICES ASSUME Typed, ResetInv, Running
               PROVE  WorkInv
    OBVIOUS
  <1>1. \A b \in Blocks : pc[b] = "barrier" /\ storing[b] = None
    BY DEF ResetInv, Running
  <1>2. /\ \A t \in Tiles : tile_pull_done[t] = 0
        /\ \A s \in Subtiles : l1_done_counts[s] = 0 /\ l2_group_done_counts[s] = 0
        /\ \A j \in L2Tasks : l2_queue_ready[j] = 0
    <2>1. \A i \in Tiles \union Subtiles \union L2Tasks : pc[i % NumBlocks] # "reset"
      BY <1>1, Numbers, StrideOwner
    <2> QED BY <2>1 DEF ResetInv
  <1>3. PullTileHead = 0 /\ L1TaskHead = 0 /\ L2QueueTail = 0 /\ L2QueueHead = 0 /\ L2Done = 0
    BY <1>1, BlocksFinite DEF ResetInv
  <1>4. xPool = {} /\ act = {} /\ actFp8 = {} /\ combine = {}
    BY DEF ResetInv
  <1>5. PullInv
    BY <1>1, <1>2, <1>4 DEF PullInv, Pulling
  <1>6. L1Inv
    BY <1>1, <1>4 DEF L1Inv, Holding
  <1>7. CountInv
    <2>1. \A s : Counting(s) = {} /\ Computed(s) = {}
      BY <1>1, <1>4 DEF Counting, Computed
    <2> QED BY <1>1, <1>2, <2>1, FS_EmptySet DEF CountInv
  <1>8. Open = {}
    <2> SUFFICES ASSUME NEW s \in Subtiles, Opened(s)
                 PROVE  FALSE
      BY DEF Open
    <2>1. CASE s \in ValidSubtiles
      <3>1. l1_done_counts[s] = NumInterChunks
        BY <2>1 DEF Opened
      <3> QED BY <1>2, <3>1, Numbers
    <2>2. CASE s \notin ValidSubtiles
      <3>1. PICK k \in L1Tasks : k < L1TaskHead
        BY <2>2 DEF Opened
      <3> QED BY <1>3, <3>1, Numbers
    <2> QED BY <2>1, <2>2
  <1>9. TokenInv
    BY <1>1, <1>4, <1>8 DEF TokenInv, Carrying
  <1>10. Joined = {}
    BY <1>8 DEF Joined
  <1>11. GroupInv
    <2>1. \A s \in Subtiles : l2_group_done_counts[GroupOf(s).slot] =
                                Cardinality(Members(s) \intersect Joined)
      BY <1>2, <1>10, GroupFacts, FS_EmptySet
    <2> QED BY <1>1, <2>1 DEF GroupInv, Queueing
  <1>12. QueuedTasks = {}
    <2>1. Queued = {}
      BY <1>10, GroupFacts DEF Queued
    <2> QED BY <2>1 DEF QueuedTasks
  <1>13. QueueInv
    <2>1. \A b \in Blocks : ~ Filling(b) /\ pc[b] # "ready"
      BY <1>1 DEF Filling
    <2>2. \A b \in Blocks : \A j : ~ Reserved(b, j)
      BY <2>1 DEF Reserved
    <2>3. \A j \in L2Tasks : \A k : ~ Holds(j, k)
      BY <1>2, <2>2 DEF Holds
    <2>4. L2QueueTail = Cardinality(QueuedTasks)
      BY <1>3, <1>12, FS_EmptySet
    <2>5. RangeInv
      BY <2>1 DEF RangeInv
    <2>6. ReadyInv
      BY <1>2, <1>3, Numbers DEF ReadyInv
    <2>7. PlaceInv
      BY <1>12, <2>3 DEF PlaceInv
    <2> QED BY <2>1, <2>2, <2>4, <2>5, <2>6, <2>7 DEF QueueInv
  <1>14. TakeInv
    <2>1. Taking = {}
      BY <1>1 DEF Taking
    <2>2. \A j \in L2Tasks : ~ Passed(j)
      <3>1. \A j \in L2Tasks : j \in Nat
        BY Numbers
      <3> QED BY <1>3, <3>1 DEF Passed
    <2>3. \A k \in Stored : ~ Storing(k)
      BY <1>1, Numbers DEF Storing
    <2>4. L2Done + Cardinality(Taking) = L2QueueHead /\ L2QueueHead <= L2QueueTail
      BY <1>3, <2>1, FS_EmptySet
    <2> QED BY <1>1, <1>4, <2>1, <2>2, <2>3, <2>4 DEF TakeInv
  <1>15. HeadInv
    <2>1. ClaimingTile = {} /\ ClaimingL1 = {}
      BY <1>1 DEF ClaimingTile, ClaimingL1
    <2> QED BY <1>3, <2>1, FS_EmptySet, Numbers DEF HeadInv
  <1> QED BY <1>5, <1>6, <1>7, <1>9, <1>11, <1>13, <1>14, <1>15 DEF WorkInv

LEMMA InitInv == Init => Inv
  <1> SUFFICES ASSUME Init
               PROVE  Inv
    OBVIOUS
  <1>1. \A b \in Blocks : pc[b] = "reset"
    BY DEF Init
  <1>2. ~ Running /\ ResetFirst
    BY <1>1, BlocksFinite DEF Running, ResetFirst
  <1>3. PICK old \in Flag :
          /\ tile_pull_done = [t \in Tiles |-> old]
          /\ l1_done_counts = [s \in Subtiles |-> old * NumInterChunks]
          /\ l2_group_done_counts = [s \in Subtiles |-> old]
          /\ l2_queue_ready = [i \in L2Tasks |-> old]
          /\ PullTileHead = old * total_tiles
          /\ L1TaskHead = old * total_l1_tasks
          /\ L2QueueTail = old * total_l2_tasks
          /\ L2QueueHead = old * total_l2_tasks
          /\ L2Done = old * total_l2_tasks
    BY DEF Init
  <1>4. old \in {0, 1} /\ \A n \in Nat : old * n \in 0 .. n
    BY DEF Flag
  <1>5. TypeInv
    <2>1. /\ PullTileHead \in Nat /\ L1TaskHead \in Nat
          /\ L2QueueTail \in 0 .. total_l2_tasks /\ L2QueueHead \in Nat /\ L2Done \in Nat
          /\ old * NumInterChunks \in 0 .. NumInterChunks
      BY <1>3, <1>4, Numbers
    <2>2. l2_queue \in [L2Tasks -> L2Tasks]
      <3>1. \A i \in L2Tasks : 0 \in L2Tasks
        BY Numbers DEF L2Tasks
      <3> QED BY <3>1 DEF Init
    <2>3. /\ task \in [Blocks -> Int] /\ base \in [Blocks -> 0 .. total_l2_tasks]
          /\ fill \in [Blocks -> 0 .. total_l2_tasks] /\ storing \in [Blocks -> {None} \union L2Tasks]
      BY Numbers DEF Init
    <2>4. /\ tile_pull_done \in [Tiles -> Flag]
          /\ l1_done_counts \in [Subtiles -> 0 .. NumInterChunks]
          /\ l2_group_done_counts \in [Subtiles -> Nat]
          /\ l2_queue_ready \in [L2Tasks -> Flag]
      BY <1>3, <1>4, <2>1
    <2> QED BY <2>1, <2>2, <2>3, <2>4 DEF TypeInv
  <1>6. pc \in [Blocks -> Locations] /\ pc \in [Blocks -> {"reset", "barrier"}]
    BY DEF Init, Locations
  <1>7. ResetInv
    <2>1. \A i \in Tiles \union Subtiles \union L2Tasks : pc[i % NumBlocks] = "reset"
      BY <1>1, Numbers, StrideOwner
    <2>2. /\ PullTileHead <= total_tiles /\ L1TaskHead <= total_l1_tasks
          /\ L2QueueHead <= L2QueueTail /\ L2Done <= total_l2_tasks
      BY <1>3, <1>4, Numbers
    <2> QED BY <1>1, <1>6, <2>1, <2>2, BlocksFinite DEF ResetInv, Init
  <1> QED BY <1>2, <1>5, <1>6, <1>7 DEF Inv

LEMMA ResetStep ==
  ASSUME Inv, ~ Running, NEW b \in Blocks, Step(b) \/ Store(b)
  PROVE  Inv'
  <1>1. ResetInv /\ \A c \in Blocks : pc[c] \in {"reset", "barrier"} /\ storing[c] = None
    BY DEF Inv, ResetInv
  <1>2. Reset(b)
    <2>1. pc[b] \in {"reset", "barrier"} /\ ~ Barrier(b) /\ ~ Store(b)
      BY <1>1 DEF Running, Barrier, Store
    <2> QED BY <2>1 DEF Step, PullLoad, PullClaim, Copy, Publish, L1Load, L1Claim, L1Wait,
               Compute, Count, Quant, GroupDone, Reserve, Fill, Ready, L2Load, L2Claim, L2Wait,
               L2Count, StopLoad, Sync
  <1>3. Typed' /\ ResetInv'
    BY <1>2, ResetKeeps
  <1>4. (Typed /\ ResetInv /\ Running)' => WorkInv'
    BY StartWork, PTL
  <1>5. ResetFirst'
    BY <1>3 DEF ResetInv, ResetFirst
  <1> QED BY <1>3, <1>4, <1>5 DEF Inv, Typed

LEMMA NextInv == Inv /\ [Next]_vars => Inv'
  <1> SUFFICES ASSUME Inv, [Next]_vars
               PROVE  Inv'
    OBVIOUS
  <1>1. CASE UNCHANGED vars
    <2> USE <1>1 DEF vars, priv, flags, counters, data
    <2>1. TypeInv' = TypeInv
      BY DEF TypeInv
    <2>2. (pc \in [Blocks -> Locations])' = (pc \in [Blocks -> Locations])
          /\ ResetFirst' = ResetFirst /\ Running' = Running /\ ResetInv' = ResetInv
      BY DEF ResetFirst, Running, ResetInv
    <2>3. PullInv' = PullInv /\ L1Inv' = L1Inv /\ CountInv' = CountInv
      BY DEF PullInv, Pulling, L1Inv, Holding, CountInv, Counting, Computed, Piece, L1Subtile,
         TileOf, Decoded
    <2>4. Open' = Open /\ Joined' = Joined
      BY DEF Open, Opened, Joined, Piece
    <2>5. TokenInv' = TokenInv /\ GroupInv' = GroupInv
      BY SMTT(30), <2>4 DEF TokenInv, Carrying, GroupInv, Queueing, Members, GroupMembers, GroupOf
    <2>6. QueueInv' = QueueInv
      <3>1. \A b, j : (Reserved(b, j)' <=> Reserved(b, j)) /\ EntryFor(b, j)' = EntryFor(b, j)
        BY DEF Reserved, Filling, Pending, Entries, EntryFor, Group, GroupOf, GroupEntry
      <3>2. QueuedTasks' = QueuedTasks
        BY <2>4 DEF QueuedTasks, Queued, Members, GroupMembers, GroupOf, SubtileOfL2
      <3>3. \A j, k : Holds(j, k)' <=> Holds(j, k)
        BY <3>1 DEF Holds
      <3>4. RangeInv' = RangeInv
        BY DEF RangeInv, Filling, Entries, Group, GroupOf
      <3>5. ReadyInv' = ReadyInv /\ PlaceInv' = PlaceInv
        BY <3>1, <3>2, <3>3 DEF ReadyInv, PlaceInv
      <3> QED BY <3>1, <3>2, <3>4, <3>5 DEF QueueInv
    <2>7. TakeInv' = TakeInv /\ HeadInv' = HeadInv
      BY DEF TakeInv, Taking, Passed, Storing, HeadInv, ClaimingTile, ClaimingL1
    <2> QED BY <2>1, <2>2, <2>3, <2>5, <2>6, <2>7 DEF Inv, WorkInv
  <1>2. ASSUME NEW b \in Blocks, Step(b) \/ Store(b)
        PROVE  Inv'
    <2>1. CASE Running
      <3>1. Work'
        BY <1>2, <2>1, WorkStep DEF Inv, Work, Typed
      <3>2. ResetFirst'
        BY <3>1 DEF Work, Running, ResetFirst
      <3> QED BY <3>1, <3>2 DEF Inv, Work, Typed
    <2>2. CASE ~ Running
      BY <1>2, <2>2, ResetStep
    <2> QED BY <2>1, <2>2
  <1> QED BY <1>1, <1>2 DEF Next, Finished

LEMMA SpecInv == Spec => []Inv
  BY InitInv, NextInv, PTL DEF Spec

-----------------------------------------------------------------------------
(* What the invariant says.                                                 *)

LEMMA InvTypes == Inv => TypeOK
  <1> SUFFICES ASSUME Inv
               PROVE  TypeOK
    OBVIOUS
  <1>1. TypeInv /\ pc \in [Blocks -> Locations]
    BY DEF Inv
  <1>2. NumBlocks \in Nat \ {0} /\ total_tiles \in Nat /\ total_l1_tasks \in Nat
        /\ total_l2_tasks \in Nat /\ ValidSubtiles \subseteq Subtiles /\ Stored \subseteq L2Tasks
    BY Numbers
  <1>3. CASE Running
    <2>1. PullInv /\ L1Inv /\ TokenInv /\ TakeInv /\ HeadInv
      BY <1>3 DEF Inv, WorkInv
    <2>2. PullTileHead <= total_tiles + NumBlocks - 1 /\ L1TaskHead <= total_l1_tasks + NumBlocks - 1
      <3>1. ClaimingTile \subseteq Blocks /\ ClaimingL1 \subseteq Blocks
        BY DEF ClaimingTile, ClaimingL1
      <3>2. Cardinality(ClaimingTile) \in Nat /\ Cardinality(ClaimingL1) \in Nat
        BY <3>1, DataFinite, FS_Subset, FS_CardinalityType
      <3> QED BY <1>1, <1>2, <2>1, <3>2 DEF HeadInv, TypeInv
    <2>3. L2QueueHead <= L2QueueTail /\ L2Done <= total_l2_tasks
      <3>1. L2Done + Cardinality(Taking) = L2QueueHead /\ L2QueueHead <= L2QueueTail
        BY <2>1 DEF TakeInv
      <3> QED BY <1>1, <1>2, <3>1, TakingFinite DEF TypeInv
    <2>4. /\ xPool \subseteq Tiles /\ act \subseteq Subtiles \X Chunks
          /\ actFp8 \subseteq Subtiles /\ combine \subseteq L2Tasks
      BY <1>2, <2>1 DEF PullInv, L1Inv, TokenInv, TakeInv
    <2> QED BY <1>1, <1>2, <2>2, <2>3, <2>4 DEF TypeInv, TypeOK
  <1>4. CASE ~ Running
    <2>1. ResetInv
      BY <1>4 DEF Inv
    <2> QED BY <1>1, <1>2, <2>1 DEF TypeInv, TypeOK, ResetInv
  <1> QED BY <1>3, <1>4

(* A subtile whose last chunk was counted has all of them.                  *)
LEMMA OpenComputed ==
  ASSUME Inv, Running, NEW s \in ValidSubtiles \intersect Open
  PROVE  \A c \in Chunks : <<s, c>> \in act
  <1>1. TypeInv /\ CountInv
    BY DEF Inv, WorkInv
  <1>2. s \in Subtiles /\ l1_done_counts[s] = NumInterChunks /\ NumInterChunks \in Nat
    BY Numbers DEF Open, Opened
  <1>3. l1_done_counts[s] + Cardinality(Counting(s)) = Cardinality(Computed(s))
    BY <1>1, <1>2 DEF CountInv
  <1>4. Cardinality(Computed(s)) = NumInterChunks
    BY <1>2, <1>3, CountSets
  <1> QED BY <1>4, CountSets DEF Computed

(* A queue entry that was read names a quantised subtile.                   *)
LEMMA PassedQuantised ==
  ASSUME Inv, Running, NEW k \in Stored, NEW j \in L2Tasks, Passed(j), l2_queue[j] = k
  PROVE  SubtileOfL2(k) \in actFp8
  <1>1. TokenInv /\ QueueInv /\ TakeInv
    BY DEF Inv, WorkInv
  <1>2. k \in L2Tasks /\ SubtileOfL2(k) \in ValidSubtiles
    BY DEF Stored, StoringL2Tasks
  <1>3. k \in QueuedTasks
    <2>1. Holds(j, k)
      BY <1>1 DEF TakeInv, Holds
    <2> QED BY <1>1, <1>2, <2>1 DEF QueueInv, PlaceInv
  <1>4. SubtileOfL2(k) \in Joined
    BY <1>2, <1>3, GroupFacts DEF QueuedTasks, Queued
  <1> QED BY <1>1, <1>2, <1>4 DEF Joined, TokenInv

LEMMA StepImplements ==
  ASSUME Inv, [Next]_vars
  PROVE  [Dataflow!Next]_(Dataflow!vars)
  <1> USE DEF Dataflow!vars
  <1>1. CASE UNCHANGED data
    BY <1>1 DEF data
  <1>2. ASSUME NEW b \in Blocks, Copy(b) \/ Compute(b) \/ Quant(b) \/ Store(b)
        PROVE  Dataflow!Next
    <2>1. Running
      BY <1>2 DEF Inv, ResetInv, Copy, Compute, Quant, Store
    <2>2. TypeInv /\ PullInv /\ L1Inv /\ TokenInv /\ TakeInv
      BY <2>1 DEF Inv, WorkInv
    <2>3. CASE Copy(b)
      <3>1. task[b] \in Tiles \ xPool
        BY <2>2, <2>3 DEF Copy, PullInv, Pulling
      <3>2. Dataflow!Pull(task[b])
        BY <2>3, <3>1 DEF Copy, Dataflow!Pull
      <3> QED BY <3>1, <3>2 DEF Dataflow!Next
    <2>4. CASE Compute(b)
      <3>1. PICK s \in ValidSubtiles, c \in Chunks :
              /\ s = L1Subtile(b) /\ c = Decoded[task[b]].chunk
              /\ TileOf(s) \in xPool /\ <<s, c>> \notin act
        <4>1. task[b] \in L1Tasks /\ Piece(task[b]) \notin act
          BY <2>2, <2>4 DEF Compute, L1Inv, Holding
        <4>2. Piece(task[b]) = <<L1Subtile(b), Decoded[task[b]].chunk>>
              /\ Decoded[task[b]].chunk \in Chunks
          BY <4>1, PieceFacts DEF L1Subtile
        <4>3. L1Subtile(b) \in ValidSubtiles /\ TileOf(L1Subtile(b)) \in xPool
          BY <2>2, <2>4 DEF Compute, L1Inv
        <4> QED BY <4>1, <4>2, <4>3
      <3>2. Dataflow!L1(s, c)
        BY <2>4, <3>1 DEF Compute, Dataflow!L1
      <3> QED BY <3>2 DEF Dataflow!Next
    <2>5. CASE Quant(b)
      <3>1. task[b] \in ValidSubtiles \ actFp8 /\ task[b] \in Open
        BY <2>2, <2>5 DEF Quant, TokenInv, Carrying
      <3>2. \A c \in Chunks : <<task[b], c>> \in act
        BY <2>1, <3>1, OpenComputed
      <3>3. Dataflow!Quantise(task[b])
        BY <2>5, <3>1, <3>2 DEF Quant, Dataflow!Quantise
      <3> QED BY <3>1, <3>3 DEF Dataflow!Next
    <2>6. CASE Store(b)
      <3>1. storing[b] \in Stored \ combine
        BY <2>2, <2>6 DEF Store, TakeInv
      <3>2. SubtileOfL2(storing[b]) \in actFp8
        <4>1. Storing(storing[b])
          BY DEF Storing
        <4>2. PICK j \in L2Tasks : Passed(j) /\ l2_queue[j] = storing[b]
          BY <2>2, <3>1, <4>1 DEF TakeInv
        <4> QED BY <2>1, <3>1, <4>2, PassedQuantised
      <3>3. Dataflow!L2(storing[b])
        BY <2>6, <3>1, <3>2 DEF Store, Dataflow!L2
      <3> QED BY <3>1, <3>3 DEF Dataflow!Next
    <2> QED BY <1>2, <2>3, <2>4, <2>5, <2>6
  <1>3. ASSUME NEW b \in Blocks, Step(b), ~ Copy(b), ~ Compute(b), ~ Quant(b)
        PROVE  UNCHANGED data
    BY <1>3 DEF Step, Reset, Barrier, PullLoad, PullClaim, Publish, L1Load, L1Claim, L1Wait,
       Count, GroupDone, Reserve, Fill, Ready, L2Load, L2Claim, L2Wait, L2Count, StopLoad, Sync
  <1> QED BY <1>1, <1>2, <1>3 DEF Next, Finished, vars

LEMMA InvStored == Inv => StoredOnExit
  <1> SUFFICES ASSUME Inv, \A b \in Blocks : pc[b] = "exit"
               PROVE  combine = Stored
    BY DEF StoredOnExit
  <1>1. Running
    BY DEF Running
  <1>2. TypeInv /\ QueueInv /\ TakeInv
    BY <1>1 DEF Inv, WorkInv
  <1>3. PICK N \in Nat : N = total_l2_tasks
    BY Numbers
  <1>4. L2QueueHead = N /\ L2QueueTail = N
    <2>1. Taking = {}
      BY DEF Taking
    <2>2. L2Done + 0 = L2QueueHead /\ L2QueueHead <= L2QueueTail
      BY <1>2, <2>1, FS_EmptySet DEF TakeInv
    <2>3. L2Done >= N
      BY <1>2, <1>3, BlocksFinite DEF TakeInv
    <2>4. L2QueueTail \in 0 .. N /\ L2Done \in Nat /\ L2QueueHead \in Nat
      BY <1>2, <1>3 DEF TypeInv
    <2> QED BY <2>2, <2>3, <2>4
  <1>5. QueuedTasks = L2Tasks
    <2>1. QueuedTasks \subseteq L2Tasks
      BY DEF QueuedTasks
    <2>2. Cardinality(QueuedTasks) = Cardinality(L2Tasks)
      BY <1>2, <1>3, <1>4, DataFinite DEF QueueInv
    <2> QED BY <2>1, <2>2, DataFinite, FS_Subset
  <1>6. ASSUME NEW k \in Stored
        PROVE  k \in combine
    <2>1. PICK j \in L2Tasks : j < L2QueueTail /\ Holds(j, k)
      BY <1>2, <1>5, Numbers DEF QueueInv, PlaceInv
    <2>2. l2_queue[j] = k
      BY <2>1 DEF Holds, Reserved, Filling
    <2>3. Passed(j)
      BY <1>4, <2>1 DEF Passed
    <2>4. k \in combine \/ Storing(k)
      BY <1>2, <2>2, <2>3 DEF TakeInv
    <2>5. ~ Storing(k)
      <3>1. \A b \in Blocks : storing[b] = None
        BY <1>2 DEF TakeInv
      <3> QED BY <3>1, Numbers DEF Storing
    <2> QED BY <2>4, <2>5
  <1> QED BY <1>2, <1>6 DEF TakeInv

-----------------------------------------------------------------------------
(* For every routing, schedule and number of blocks, the counters and flags *)
(* of the fused kernel never leave their arrays or their range: the heads   *)
(* overshoot by less than one claim per block, L2Done never exceeds the     *)
(* L2 tasks, and the queue never holds more than them.                      *)
THEOREM CountersFit == Spec => []TypeOK
  BY SpecInv, InvTypes, PTL

(* When all blocks have left the loop, every routed row has been stored in  *)
(* the combine buffers, although a task is counted before its waves have    *)
(* stored its rows.                                                         *)
THEOREM AllStored == Spec => []StoredOnExit
  BY SpecInv, InvStored, PTL

(* The blocks do the work of MoEDataflow: each tile is pulled, each chunk   *)
(* computed, each subtile quantised and each L2 task stored at most once,   *)
(* and only from inputs that are complete.                                  *)
THEOREM WorkOfDataflow == Spec => ImplementsDataflow
  <1>1. Init => Dataflow!Init
    BY DEF Init, Dataflow!Init
  <1>2. Inv /\ [Next]_vars => [Dataflow!Next]_(Dataflow!vars)
    BY StepImplements
  <1> QED BY <1>1, <1>2, SpecInv, PTL DEF Spec, ImplementsDataflow, Dataflow!Spec
=============================================================================

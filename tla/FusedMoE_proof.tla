--------------------------- MODULE FusedMoE_proof ---------------------------
(***************************************************************************)
(* Launch after launch, each rank of the fused kernel computes exactly the *)
(* rows routed to it and reduces the rows of this launch, but for those a  *)
(* wave of a peer is still storing.  For every number of ranks, of blocks  *)
(* and of launches, and for all inputs.                                    *)
(*                                                                         *)
(* The argument.  The rank barriers keep the ranks in step (RankInv): a    *)
(* rank that is between the first barrier and the second has all ranks in  *)
(* its launch (Together), so the counts and routes it reads are of this    *)
(* launch and stay (PublishInv), its blocks agree on whether the counts    *)
(* are equal (UniformInv), and the task ids they encode are decoded as     *)
(* they were encoded (PoolInv, RowsInv).  Behind the second barrier every  *)
(* peer has counted all its rows (CountInv, ExitInv): each was stored or   *)
(* is being stored (FreshInv).                                             *)
(***************************************************************************)
EXTENDS FusedMoE, FiniteSetTheorems, TLAPS

Places ==
  {"publish", "rank1", "local1", "check", "route", "local2", "tiles", "local3", "prepare",
   "local4", "work", "count", "sync", "rank2", "local5", "reduce", "rank3", "done"}

At(r, b) == Stage(pc[r][b])

Owners == {<<>>} \union UNION {Inputs[n] : n \in 1 .. MaxLaunches}

Rows == Ranks \X Tokens

Shape ==
  /\ launch \in [Ranks -> 0 .. MaxLaunches]
  /\ pc \in [Ranks -> [Blocks -> Places]]
  /\ entered \in [Ranks -> Nat] /\ left \in [Ranks -> Nat]
  /\ routes \in [Ranks -> [n : 0 .. MaxLaunches, owner : Owners]]
  /\ \A r \in Ranks : routes[r].n = launch[r]
  /\ num_tokens \in [Ranks -> [n : 0 .. MaxLaunches, count : 0 .. MaxTokens]]
  /\ combine \in [Ranks -> [Tokens -> 0 .. MaxLaunches]]
  /\ pool \in [Ranks -> SUBSET (0 .. NumRanks * MaxTokens - 1)]
  /\ rows \in [Ranks -> SUBSET Rows]
  /\ pending \in [Ranks -> SUBSET Rows]
  /\ \A r \in Ranks : pending[r] \subseteq rows[r]
  /\ L2Done \in [Ranks -> 0 .. Cardinality(Rows)]
  /\ uniform \in [Ranks -> [Blocks -> BOOLEAN]]
  /\ storing \in [Ranks -> [Blocks -> {None} \union Rows]]

-----------------------------------------------------------------------------
(* The barriers.                                                            *)

(* The rank barriers behind a stage.                                        *)
Passed(s) == IF s <= 2 THEN 0 ELSE IF s <= 12 THEN 1 ELSE IF s <= 15 THEN 2 ELSE 3

RankInv ==
  /\ \A r \in Ranks :
       /\ left[r] = 3 * launch[r] - 3 + Passed(At(r, 0))
       /\ \/ entered[r] = left[r]
          \/ entered[r] = left[r] + 1 /\ pc[r][0] \in RankBarriers
  /\ \A r, q \in Ranks : left[r] <= entered[q]

LocalStages == {3, 6, 8, 10, 13}

LocalInv ==
  \A r \in Ranks, b, c \in Blocks, m \in LocalStages : At(r, b) > m => At(r, c) >= m

(* Rank r may be reading its peers' counts, routes and rows.                *)
Reading(r) == \E b \in Blocks : At(r, b) \in 4 .. 11

-----------------------------------------------------------------------------
(* Routing.                                                                 *)

PublishInv ==
  \A q \in Ranks : At(q, 0) >= 2 => num_tokens[q] = [n |-> launch[q], count |-> Count(q)]

EqualCounts(r) == \A q \in Ranks : Count(q) = Count(r)

UniformInv ==
  \A r \in Ranks, b \in Blocks : At(r, b) \in 5 .. 11 => (uniform[r][b] <=> EqualCounts(r))

Width(r) == IF EqualCounts(r) THEN Count(r) ELSE MaxTokens

(* The ids of the routes in rank r's numbering, and the rank that owns one. *)
Ids(r) == {k \in 0 .. NumRanks * Width(r) - 1 : k % Width(r) < Count(k \div Width(r))}

OwnerOf(r, k) == Owner(k \div Width(r), k % Width(r))

Mine(r) == {k \in Ids(r) : OwnerOf(r, k) = r}

(* Those whose blocks have routed them, and have put them in the tile table. *)
Routed(r) == {k \in Mine(r) : At(r, k % NumBlocks) >= 6}

Prepared(r) == {k \in Mine(r) : At(r, k % NumBlocks) >= 10}

PoolInv ==
  \A r \in Ranks :
    At(r, 0) >= 2 /\ (\E b \in Blocks : At(r, b) <= 11) => pool[r] = Routed(r)

RowsInv ==
  \A r \in Ranks :
    At(r, 0) >= 8 /\ (\E b \in Blocks : At(r, b) <= 11) =>
      rows[r] = {DecodeTask(k, Width(r)) : k \in Prepared(r)}

(* A rank keeps the rows of its peers' routes until its next launch.        *)
KeepInv ==
  \A o \in Ranks : (\A b \in Blocks : At(o, b) >= 10) =>
    \A r \in Ranks : launch[r] = launch[o] =>
      \A t \in 0 .. Count(r) - 1 : Owner(r, t) = o => <<r, t>> \in rows[o]

-----------------------------------------------------------------------------
(* The rows.                                                                *)

Counting(r) == {b \in Blocks : pc[r][b] = "count"}

CountInv ==
  \A r \in Ranks :
    /\ At(r, 0) >= 8 /\ (\A b \in Blocks : At(r, b) <= 10) => pending[r] = rows[r]
    /\ At(r, 0) >= 10 =>
         Cardinality(pending[r]) + L2Done[r] + Cardinality(Counting(r)) = Cardinality(rows[r])

StoringInv ==
  \A r \in Ranks, b \in Blocks :
    storing[r][b] # None => pc[r][b] \in {"count", "sync"} /\ storing[r][b] \in rows[r]

ExitInv ==
  \A r \in Ranks : (\E b \in Blocks : At(r, b) >= 12) => pending[r] = {}

Fresh(r, t) == combine[r][t] = launch[r]

InvalidInv ==
  /\ \A r \in Ranks : Reading(r) =>
       \A k \in Ids(r) : OwnerOf(r, k) = Invalid /\ At(r, k % NumBlocks) >= 6 =>
         Fresh(k \div Width(r), k % Width(r))
  /\ \A r \in Ranks : (\A b \in Blocks : At(r, b) >= 6) =>
       \A t \in 0 .. Count(r) - 1 : Owner(r, t) = Invalid => Fresh(r, t)

FreshInv ==
  \A r, o \in Ranks : \A t \in 0 .. Count(r) - 1 : Owner(r, t) = o =>
    /\ launch[o] = launch[r] /\ At(o, 0) >= 8 /\ <<r, t>> \in rows[o] \ pending[o] =>
         Fresh(r, t) \/ \E c \in Blocks : storing[o][c] = <<r, t>>
    /\ launch[o] = launch[r] + 1 => Fresh(r, t)

StepInv == Shape /\ RankInv /\ LocalInv

RouteInv == PublishInv /\ UniformInv /\ PoolInv /\ RowsInv /\ KeepInv

RowInv == CountInv /\ StoringInv /\ ExitInv /\ InvalidInv /\ FreshInv

IInv == StepInv /\ RouteInv /\ RowInv

-----------------------------------------------------------------------------
(* The stages as numbers.                                                   *)

LEMMA ProgramIs ==
  /\ Len(Program) = 16
  /\ Program[1] = "publish"
  /\ Program[2] = "rank1"
  /\ Program[3] = "local1"
  /\ Program[4] = "check"
  /\ Program[5] = "route"
  /\ Program[6] = "local2"
  /\ Program[7] = "tiles"
  /\ Program[8] = "local3"
  /\ Program[9] = "prepare"
  /\ Program[10] = "local4"
  /\ Program[11] = "work"
  /\ Program[12] = "rank2"
  /\ Program[13] = "local5"
  /\ Program[14] = "reduce"
  /\ Program[15] = "rank3"
  /\ Program[16] = "done"
  BY DEF Program

LEMMA StageOf ==
  ASSUME NEW i \in 1 .. 16
  PROVE  Stage(Program[i]) = i
  <1>1. \A j \in 1 .. 16 : Program[j] = Program[i] => j = i
    BY ProgramIs
  <1>2. Program[i] \notin {"count", "sync"}
    BY ProgramIs
  <1>3. Stage(Program[i]) = CHOOSE j \in 1 .. 16 : Program[j] = Program[i]
    BY <1>2, ProgramIs DEF Stage
  <1> QED BY <1>1, <1>3

LEMMA Stages ==
  /\ Stage("publish") = 1
  /\ Stage("rank1") = 2
  /\ Stage("local1") = 3
  /\ Stage("check") = 4
  /\ Stage("route") = 5
  /\ Stage("local2") = 6
  /\ Stage("tiles") = 7
  /\ Stage("local3") = 8
  /\ Stage("prepare") = 9
  /\ Stage("local4") = 10
  /\ Stage("work") = 11
  /\ Stage("rank2") = 12
  /\ Stage("local5") = 13
  /\ Stage("reduce") = 14
  /\ Stage("rank3") = 15
  /\ Stage("done") = 16
  /\ Stage("count") = 11 /\ Stage("sync") = 11
  <1>1. \A i \in 1 .. 16 : Stage(Program[i]) = i
    BY StageOf
  <1>2. Stage("count") = Stage("work") /\ Stage("sync") = Stage("work")
    BY DEF Stage
  <1> QED BY <1>1, <1>2, ProgramIs

LEMMA Constants ==
  /\ NumRanks \in Nat \ {0} /\ NumBlocks \in Nat \ {0}
  /\ MaxTokens \in Nat /\ MaxLaunches \in Nat
  /\ 0 \in Ranks /\ Ranks \subseteq Nat /\ 0 \in Blocks /\ Blocks \subseteq Nat
  /\ Tokens \subseteq Nat /\ Invalid \notin Ranks /\ None \notin Rows
  /\ IsFiniteSet(Blocks) /\ IsFiniteSet(Rows) /\ Cardinality(Rows) \in Nat
  <1>1. /\ NumRanks \in Nat \ {0} /\ NumBlocks \in Nat \ {0}
        /\ MaxTokens \in Nat /\ MaxLaunches \in Nat
    BY InputsAssumption
  <1>2. IsFiniteSet(Ranks) /\ IsFiniteSet(Blocks) /\ IsFiniteSet(Tokens)
    BY <1>1, FS_Interval DEF Ranks, Blocks, Tokens
  <1>3. IsFiniteSet(Rows) /\ Cardinality(Rows) \in Nat
    BY <1>2, FS_Product, FS_CardinalityType DEF Rows
  <1>4. Invalid \notin Ranks
    BY <1>1 DEF Invalid, Ranks
  <1>5. None \notin Rows
    BY DEF None, Rows
  <1> QED BY <1>1, <1>2, <1>3, <1>4, <1>5 DEF Ranks, Blocks, Tokens

LEMMA AtNext ==
  ASSUME NEW r, NEW b
  PROVE  At(r, b) = Stage(pc[r][b]) /\ At(r, b)' = Stage(pc'[r][b])
  BY DEF At, Stage, Program

(* Which places a stage stands for.                                         *)
LEMMA PlaceAt ==
  ASSUME Shape, NEW r \in Ranks, NEW b \in Blocks
  PROVE  /\ At(r, b) \in 1 .. 16
         /\ At(r, b) = 1 <=> pc[r][b] = "publish"
         /\ At(r, b) = 2 <=> pc[r][b] = "rank1"
         /\ At(r, b) = 3 <=> pc[r][b] = "local1"
         /\ At(r, b) = 4 <=> pc[r][b] = "check"
         /\ At(r, b) = 5 <=> pc[r][b] = "route"
         /\ At(r, b) = 6 <=> pc[r][b] = "local2"
         /\ At(r, b) = 7 <=> pc[r][b] = "tiles"
         /\ At(r, b) = 8 <=> pc[r][b] = "local3"
         /\ At(r, b) = 9 <=> pc[r][b] = "prepare"
         /\ At(r, b) = 10 <=> pc[r][b] = "local4"
         /\ At(r, b) = 12 <=> pc[r][b] = "rank2"
         /\ At(r, b) = 13 <=> pc[r][b] = "local5"
         /\ At(r, b) = 14 <=> pc[r][b] = "reduce"
         /\ At(r, b) = 15 <=> pc[r][b] = "rank3"
         /\ At(r, b) = 16 <=> pc[r][b] = "done"
         /\ At(r, b) = 11 <=> pc[r][b] \in {"work", "count", "sync"}
         /\ At(r, b) \in {2, 12, 15} <=> pc[r][b] \in RankBarriers
         /\ At(r, b) \in LocalStages <=> pc[r][b] \in LocalBarriers
  <1>1. pc[r][b] \in Places
    BY DEF Shape
  <1>2. At(r, b) = Stage(pc[r][b])
    BY DEF At
  <1> QED BY <1>1, <1>2, Stages DEF Places, RankBarriers, LocalBarriers, LocalStages

(* Where Follow goes.                                                       *)
LEMMA Follows ==
  ASSUME NEW r \in Ranks, NEW b \in Blocks
  PROVE  /\ pc[r][b] = "publish" => Follow(r, b) = IF b = 0 THEN "rank1" ELSE "local1"
         /\ pc[r][b] = "rank1" => Follow(r, b) = "local1"
         /\ pc[r][b] = "local1" => Follow(r, b) = "check"
         /\ pc[r][b] = "check" => Follow(r, b) = "route"
         /\ pc[r][b] = "route" => Follow(r, b) = "local2"
         /\ pc[r][b] = "local2" => Follow(r, b) = "tiles"
         /\ pc[r][b] = "tiles" => Follow(r, b) = "local3"
         /\ pc[r][b] = "local3" => Follow(r, b) = "prepare"
         /\ pc[r][b] = "prepare" => Follow(r, b) = "local4"
         /\ pc[r][b] = "local4" => Follow(r, b) = "work"
         /\ pc[r][b] = "work" => Follow(r, b) = IF b = 0 THEN "rank2" ELSE "local5"
         /\ pc[r][b] = "rank2" => Follow(r, b) = "local5"
         /\ pc[r][b] = "local5" => Follow(r, b) = "reduce"
         /\ pc[r][b] = "reduce" => Follow(r, b) = IF b = 0 THEN "rank3" ELSE "done"
         /\ pc[r][b] = "rank3" => Follow(r, b) = "done"
  <1> USE ProgramIs, Stages DEF Follow, RankBarriers
  <1>1. pc[r][b] = "publish" => Follow(r, b) = IF b = 0 THEN "rank1" ELSE "local1"
    OBVIOUS
  <1>2. pc[r][b] = "rank1" => Follow(r, b) = "local1"
    OBVIOUS
  <1>3. pc[r][b] = "local1" => Follow(r, b) = "check"
    OBVIOUS
  <1>4. pc[r][b] = "check" => Follow(r, b) = "route"
    OBVIOUS
  <1>5. pc[r][b] = "route" => Follow(r, b) = "local2"
    OBVIOUS
  <1>6. pc[r][b] = "local2" => Follow(r, b) = "tiles"
    OBVIOUS
  <1>7. pc[r][b] = "tiles" => Follow(r, b) = "local3"
    OBVIOUS
  <1>8. pc[r][b] = "local3" => Follow(r, b) = "prepare"
    OBVIOUS
  <1>9. pc[r][b] = "prepare" => Follow(r, b) = "local4"
    OBVIOUS
  <1>10. pc[r][b] = "local4" => Follow(r, b) = "work"
    OBVIOUS
  <1>11. pc[r][b] = "work" => Follow(r, b) = IF b = 0 THEN "rank2" ELSE "local5"
    OBVIOUS
  <1>12. pc[r][b] = "rank2" => Follow(r, b) = "local5"
    OBVIOUS
  <1>13. pc[r][b] = "local5" => Follow(r, b) = "reduce"
    OBVIOUS
  <1>14. pc[r][b] = "reduce" => Follow(r, b) = IF b = 0 THEN "rank3" ELSE "done"
    OBVIOUS
  <1>15. pc[r][b] = "rank3" => Follow(r, b) = "done"
    OBVIOUS
  <1> QED BY <1>1, <1>2, <1>3, <1>4, <1>5, <1>6, <1>7, <1>8,
             <1>9, <1>10, <1>11, <1>12, <1>13, <1>14, <1>15

LEMMA Goes ==
  ASSUME Shape, NEW r \in Ranks, NEW b \in Blocks, NEW there \in Places, Go(r, b, there)
  PROVE  /\ pc' \in [Ranks -> [Blocks -> Places]]
         /\ pc'[r][b] = there /\ At(r, b)' = Stage(there)
         /\ \A q \in Ranks, c \in Blocks : q # r \/ c # b =>
              pc'[q][c] = pc[q][c] /\ At(q, c)' = At(q, c)
  <1>1. /\ pc' \in [Ranks -> [Blocks -> Places]]
        /\ pc'[r][b] = there
        /\ \A q \in Ranks, c \in Blocks : q # r \/ c # b => pc'[q][c] = pc[q][c]
    BY DEF Shape, Go
  <1> QED BY <1>1, AtNext

-----------------------------------------------------------------------------
(* A step of a block, and its place in the order of the barriers.           *)

Step(r, b) == Block(r, b) \/ Store(r, b)

NextAt(b, s) == IF b # 0 /\ s + 1 \in {2, 12, 15} THEN s + 2 ELSE s + 1

Moved(r, b) ==
  /\ pc' \in [Ranks -> [Blocks -> Places]]
  /\ \A q \in Ranks, c \in Blocks : q # r \/ c # b =>
       pc'[q][c] = pc[q][c] /\ At(q, c)' = At(q, c)
  /\ \/ At(r, b)' = At(r, b)
     \/ At(r, b) \in 1 .. 15 /\ At(r, b)' = NextAt(b, At(r, b))

LEMMA Advances ==
  ASSUME Shape, NEW r \in Ranks, NEW b \in Blocks, Advance(r, b),
         pc[r][b] \notin {"count", "sync", "done"}
  PROVE  /\ pc' \in [Ranks -> [Blocks -> Places]]
         /\ \A q \in Ranks, c \in Blocks : q # r \/ c # b =>
              pc'[q][c] = pc[q][c] /\ At(q, c)' = At(q, c)
         /\ At(r, b) \in 1 .. 15 /\ At(r, b)' = NextAt(b, At(r, b))
         /\ pc'[r][b] = Follow(r, b) /\ pc'[r][b] \notin {"count", "sync"}
  <1>1. pc[r][b] \in Places \ {"count", "sync", "done"} /\ At(r, b) = Stage(pc[r][b])
    BY DEF Shape, At
  <1>2. /\ Follow(r, b) \in Places \ {"count", "sync"}
        /\ At(r, b) \in 1 .. 15 /\ Stage(Follow(r, b)) = NextAt(b, At(r, b))
    <2>1. CASE pc[r][b] = "publish"
      BY <1>1, <2>1, Follows, Stages DEF Places, NextAt
    <2>2. CASE pc[r][b] = "rank1"
      BY <1>1, <2>2, Follows, Stages DEF Places, NextAt
    <2>3. CASE pc[r][b] = "local1"
      BY <1>1, <2>3, Follows, Stages DEF Places, NextAt
    <2>4. CASE pc[r][b] = "check"
      BY <1>1, <2>4, Follows, Stages DEF Places, NextAt
    <2>5. CASE pc[r][b] = "route"
      BY <1>1, <2>5, Follows, Stages DEF Places, NextAt
    <2>6. CASE pc[r][b] = "local2"
      BY <1>1, <2>6, Follows, Stages DEF Places, NextAt
    <2>7. CASE pc[r][b] = "tiles"
      BY <1>1, <2>7, Follows, Stages DEF Places, NextAt
    <2>8. CASE pc[r][b] = "local3"
      BY <1>1, <2>8, Follows, Stages DEF Places, NextAt
    <2>9. CASE pc[r][b] = "prepare"
      BY <1>1, <2>9, Follows, Stages DEF Places, NextAt
    <2>10. CASE pc[r][b] = "local4"
      BY <1>1, <2>10, Follows, Stages DEF Places, NextAt
    <2>11. CASE pc[r][b] = "work"
      BY <1>1, <2>11, Follows, Stages DEF Places, NextAt
    <2>12. CASE pc[r][b] = "rank2"
      BY <1>1, <2>12, Follows, Stages DEF Places, NextAt
    <2>13. CASE pc[r][b] = "local5"
      BY <1>1, <2>13, Follows, Stages DEF Places, NextAt
    <2>14. CASE pc[r][b] = "reduce"
      BY <1>1, <2>14, Follows, Stages DEF Places, NextAt
    <2>15. CASE pc[r][b] = "rank3"
      BY <1>1, <2>15, Follows, Stages DEF Places, NextAt
    <2> QED BY <1>1, <2>1, <2>2, <2>3, <2>4, <2>5, <2>6, <2>7, <2>8, <2>9,
               <2>10, <2>11, <2>12, <2>13, <2>14, <2>15 DEF Places
  <1>3. Go(r, b, Follow(r, b))
    BY DEF Advance, Go
  <1> QED BY <1>2, <1>3, Goes

LEMMA Moves ==
  ASSUME Shape, NEW r \in Ranks, NEW b \in Blocks, Step(r, b)
  PROVE  Moved(r, b)
  <1>1. ASSUME UNCHANGED pc
        PROVE  Moved(r, b)
    BY <1>1, AtNext DEF Moved, Shape
  <1>2. ASSUME Advance(r, b), pc[r][b] \notin {"count", "sync", "done"}
        PROVE  Moved(r, b)
    BY <1>2, Advances DEF Moved
  <1>3. CASE Store(r, b)
    BY <1>1, <1>3 DEF Store
  <1>4. CASE b = 0 /\ EnterRank(r)
    BY <1>1, <1>4 DEF EnterRank
  <1>5. CASE b = 0 /\ LeaveRank(r)
    BY <1>2, <1>5 DEF LeaveRank, RankBarriers
  <1>6. CASE PassLocal(r, b)
    BY <1>2, <1>6 DEF PassLocal, LocalBarriers
  <1>7. CASE Publish(r, b) \/ Check(r, b) \/ Route(r, b) \/ BuildTiles(r, b) \/ Prepare(r, b)
    BY <1>2, <1>7 DEF Publish, Check, Route, BuildTiles, Prepare
  <1>8. CASE ExitLoop(r, b) \/ Reduce(r, b)
    BY <1>2, <1>8 DEF ExitLoop, Reduce
  <1>9. CASE Claim(r, b) \/ CountDone(r, b) \/ Sync(r, b)
    <2>1. PICK there \in {"work", "count", "sync"} : Go(r, b, there)
      BY <1>9 DEF Claim, CountDone, Sync
    <2>2. pc[r][b] \in {"work", "count", "sync"} /\ there \in Places
      BY <1>9, <2>1 DEF Claim, CountDone, Sync, Places
    <2>3. At(r, b) = 11 /\ Stage(there) = 11
      BY <2>1, <2>2, PlaceAt, Stages
    <2> QED BY <2>1, <2>2, <2>3, Goes DEF Moved
  <1> QED BY <1>3, <1>4, <1>5, <1>6, <1>7, <1>8, <1>9 DEF Step, Block

LEMMA Relaunch ==
  ASSUME Shape, NEW r \in Ranks, Launch(r)
  PROVE  /\ pc' \in [Ranks -> [Blocks -> Places]]
         /\ \A b \in Blocks : /\ pc[r][b] = "done" /\ At(r, b) = 16
                              /\ pc'[r][b] = "publish" /\ At(r, b)' = 1
         /\ \A q \in Ranks \ {r}, b \in Blocks : pc'[q][b] = pc[q][b] /\ At(q, b)' = At(q, b)
  <1>1. /\ \A b \in Blocks : pc[r][b] = "done"
        /\ pc' = [pc EXCEPT ![r] = [b \in Blocks |-> "publish"]]
    BY DEF Launch
  <1>2. /\ pc' \in [Ranks -> [Blocks -> Places]]
        /\ \A b \in Blocks : pc'[r][b] = "publish"
        /\ \A q \in Ranks \ {r}, b \in Blocks : pc'[q][b] = pc[q][b]
    BY <1>1 DEF Shape, Places
  <1> QED BY <1>1, <1>2, AtNext, Stages

-----------------------------------------------------------------------------
(* The ranks are in step.                                                   *)

LEMMA LaunchBound ==
  ASSUME StepInv, NEW r \in Ranks, NEW q \in Ranks
  PROVE  /\ launch[r] \in Nat /\ left[r] \in Nat /\ entered[r] \in Nat
         /\ At(r, 0) \in 1 .. 16 /\ Passed(At(r, 0)) \in 0 .. 3
         /\ left[r] = 3 * launch[r] - 3 + Passed(At(r, 0))
         /\ entered[r] = left[r] \/ (entered[r] = left[r] + 1 /\ At(r, 0) \in {2, 12, 15})
         /\ left[r] <= entered[q]
  <1>1. launch[r] \in Nat /\ left[r] \in Nat /\ entered[r] \in Nat
    BY Constants DEF StepInv, Shape
  <1>2. At(r, 0) \in 1 .. 16 /\ (At(r, 0) \in {2, 12, 15} <=> pc[r][0] \in RankBarriers)
    BY PlaceAt, Constants DEF StepInv
  <1>3. Passed(At(r, 0)) \in 0 .. 3
    BY DEF Passed
  <1> QED BY <1>1, <1>2, <1>3 DEF StepInv, RankInv

(* While a rank is between its first and its second barrier, all ranks are  *)
(* in its launch, past the publication of their counts and not yet done.    *)
LEMMA Together ==
  ASSUME StepInv, NEW r \in Ranks, Reading(r), NEW q \in Ranks
  PROVE  launch[q] = launch[r] /\ At(q, 0) \in 2 .. 15
  <1>1. PICK b \in Blocks : At(r, b) \in 4 .. 11
    BY DEF Reading
  <1>2. At(r, 0) \in 3 .. 13
    <2>1. At(r, 0) >= 3 /\ (At(r, 0) > 13 => At(r, b) >= 13)
      BY <1>1, Constants DEF StepInv, LocalInv, LocalStages
    <2>2. At(r, 0) \in 1 .. 16
      BY LaunchBound
    <2> QED BY <1>1, <2>1, <2>2
  <1>3. PICK L \in Nat, M \in Nat, lr \in Nat, er \in Nat, lq \in Nat, eq \in Nat, s \in 1 .. 16 :
          /\ L = launch[r] /\ lr = left[r] /\ er = entered[r]
          /\ M = launch[q] /\ lq = left[q] /\ eq = entered[q] /\ s = At(q, 0)
    BY LaunchBound
  <1>4. lr >= 3 * L - 2 /\ er <= 3 * L - 1
    BY <1>2, <1>3, LaunchBound DEF Passed
  <1>5. /\ lr <= eq /\ lq <= er /\ lq = 3 * M - 3 + Passed(s) /\ Passed(s) \in 0 .. 3
        /\ eq = lq \/ (eq = lq + 1 /\ s \in {2, 12, 15})
    BY <1>3, LaunchBound
  <1>6. M = L
    <2>1. ~ (M >= L + 1)
      BY <1>4, <1>5
    <2>2. ~ (M + 1 <= L)
      BY <1>4, <1>5 DEF Passed
    <2> QED BY <2>1, <2>2
  <1>7. s \in 2 .. 15
    BY <1>4, <1>5, <1>6 DEF Passed
  <1> QED BY <1>3, <1>6, <1>7

LEMMA NoLaunch ==
  ASSUME StepInv, NEW r \in Ranks, Reading(r), NEW q \in Ranks
  PROVE  ~ Launch(q)
  <1>1. At(q, 0) # 16
    BY Together
  <1> QED BY <1>1, Relaunch, Constants DEF StepInv

LEMMA LocalStep ==
  ASSUME StepInv, NEW r \in Ranks, NEW b \in Blocks, Step(r, b)
  PROVE  LocalInv'
  <1>1. Moved(r, b) /\ LocalInv
    BY Moves DEF StepInv
  <1>2. \A q \in Ranks, c \in Blocks : At(q, c) \in 1 .. 16
    BY PlaceAt DEF StepInv
  <1>3. At(r, b)' # At(r, b) /\ At(r, b) \in LocalStages =>
          \A c \in Blocks : At(r, c) >= At(r, b)
    <2> SUFFICES ASSUME At(r, b)' # At(r, b), At(r, b) \in LocalStages
                 PROVE  \A c \in Blocks : At(r, c) >= At(r, b)
      OBVIOUS
    <2>1. pc[r][b] \in LocalBarriers
      BY PlaceAt DEF StepInv
    <2>2. PassLocal(r, b)
      <3>1. pc' # pc
        BY AtNext
      <3> QED BY <2>1, <3>1 DEF Step, Block, Store, EnterRank, LeaveRank, LocalBarriers, RankBarriers,
              Publish, Check, Route, BuildTiles, Prepare, Claim, CountDone, Sync, ExitLoop, Reduce
    <2> QED BY <2>2, AtNext DEF PassLocal
  <1>4. SUFFICES ASSUME NEW q \in Ranks, NEW c \in Blocks, NEW d \in Blocks, NEW m \in LocalStages,
                        At(q, c)' > m
                 PROVE  At(q, d)' >= m
    BY DEF LocalInv, LocalStages
  <1>5. m \in {3, 6, 8, 10, 13}
    BY DEF LocalStages
  <1>6. \A e, f \in Blocks : At(q, e) > m => At(q, f) >= m
    BY <1>1 DEF LocalInv
  <1>7. CASE q # r \/ (c # b /\ d # b)
    BY <1>1, <1>4, <1>6, <1>7 DEF Moved
  <1>8. CASE q = r /\ d = b
    <2>1. PICK n \in 1 .. 18 : n = At(r, b)' /\ n >= At(r, b)
      BY <1>1, <1>2 DEF Moved, NextAt
    <2>2. At(q, d)' = n
      BY <1>8, <2>1
    <2>3. CASE c = b
      <3>1. At(q, c)' = n
        BY <1>8, <2>1, <2>3
      <3> QED BY <1>4, <1>5, <2>2, <3>1
    <2>4. CASE c # b
      <3>1. At(q, c)' = At(q, c) /\ At(q, d) = At(r, b)
        BY <1>1, <1>8, <2>4 DEF Moved
      <3>2. At(r, b) >= m
        BY <1>4, <1>6, <3>1
      <3> QED BY <1>2, <1>5, <2>1, <2>2, <3>2
    <2> QED BY <2>3, <2>4
  <1>9. CASE q = r /\ c = b /\ d # b
    <2>1. At(r, d)' = At(r, d)
      BY <1>1, <1>9 DEF Moved
    <2>2. CASE At(r, b) > m
      BY <1>6, <1>9, <2>1, <2>2
    <2>3. CASE ~ (At(r, b) > m)
      <3>1. At(r, b)' # At(r, b) /\ At(r, b)' = NextAt(b, At(r, b))
        BY <1>1, <1>4, <1>9, <2>3 DEF Moved
      <3>2. At(r, b) = m
        BY <1>2, <1>4, <1>5, <1>9, <2>3, <3>1 DEF NextAt
      <3> QED BY <1>3, <1>9, <2>1, <3>1, <3>2
    <2> QED BY <2>2, <2>3
  <1> QED BY <1>7, <1>8, <1>9

LEMMA RankStep ==
  ASSUME StepInv, NEW r \in Ranks, NEW b \in Blocks, Step(r, b)
  PROVE  RankInv'
  <1>1. Moved(r, b) /\ launch' = launch
    BY Moves DEF StepInv, Step, Block, Store, EnterRank, LeaveRank, PassLocal,
       Publish, Check, Route, BuildTiles, Prepare, Claim, CountDone, Sync, ExitLoop, Reduce
  <1>2. \A q \in Ranks, p \in Ranks :
          /\ launch[q] \in Nat /\ left[q] \in Nat /\ entered[q] \in Nat
          /\ At(q, 0) \in 1 .. 16
          /\ left[q] = 3 * launch[q] - 3 + Passed(At(q, 0))
          /\ entered[q] = left[q] \/ (entered[q] = left[q] + 1 /\ At(q, 0) \in {2, 12, 15})
          /\ left[q] <= entered[p]
    BY LaunchBound
  <1>3. \A q \in Ranks : At(q, 0)' \in {2, 12, 15} => pc'[q][0] \in RankBarriers
    <2> SUFFICES ASSUME NEW q \in Ranks, At(q, 0)' \in {2, 12, 15}
                 PROVE  pc'[q][0] \in RankBarriers
      OBVIOUS
    <2>1. pc'[q][0] \in Places
      BY <1>1, Constants DEF Moved
    <2>2. Stage(pc'[q][0]) \in {2, 12, 15}
      BY AtNext
    <2> QED BY <2>1, <2>2, Stages DEF Places, RankBarriers
  <1>4. Passed(At(r, b)') \in 0 .. 3 /\ \A s : Passed(s)' = Passed(s)
    BY DEF Passed
  <1>5. 0 \in Blocks
    BY Constants
  <1>6. SUFFICES /\ \A q \in Ranks :
                      /\ left'[q] = 3 * launch[q] - 3 + Passed(At(q, 0)')
                      /\ entered'[q] = left'[q]
                         \/ (entered'[q] = left'[q] + 1 /\ At(q, 0)' \in {2, 12, 15})
                 /\ \A q, p \in Ranks : left'[q] <= entered'[p]
    BY <1>1, <1>3, AtNext DEF RankInv, Passed
  <1>7. CASE b = 0 /\ EnterRank(r)
    <2>1. /\ pc[r][0] \in RankBarriers /\ entered[r] = left[r] /\ left' = left
          /\ entered' = [entered EXCEPT ![r] = @ + 1] /\ pc' = pc
      BY <1>7 DEF EnterRank, RankBarrier!Enter
    <2>2. \A q \in Ranks : At(q, 0)' = At(q, 0)
      BY <2>1, AtNext
    <2>3. At(r, 0) \in {2, 12, 15}
      BY <1>5, <2>1, PlaceAt DEF StepInv
    <2>4. \A q \in Ranks : entered'[q] = IF q = r THEN entered[r] + 1 ELSE entered[q]
      BY <2>1 DEF StepInv, Shape
    <2> QED BY <1>2, <2>1, <2>2, <2>3, <2>4
  <1>8. CASE b = 0 /\ LeaveRank(r)
    <2>1. /\ pc[r][0] \in RankBarriers /\ left[r] < entered[r] /\ entered' = entered
          /\ \A q \in Ranks : entered[r] <= entered[q]
          /\ left' = [left EXCEPT ![r] = @ + 1] /\ Advance(r, 0)
      BY <1>8 DEF LeaveRank, RankBarrier!Leave
    <2>2. At(r, 0)' = At(r, 0) + 1 /\ At(r, 0) \in {2, 12, 15}
          /\ \A q \in Ranks \ {r} : At(q, 0)' = At(q, 0)
      BY <1>5, <2>1, Advances, PlaceAt DEF StepInv, RankBarriers, NextAt
    <2>3. \A q \in Ranks : left'[q] = IF q = r THEN left[r] + 1 ELSE left[q]
      BY <2>1 DEF StepInv, Shape
    <2>4. Passed(At(r, 0)') = Passed(At(r, 0)) + 1
      BY <2>2 DEF Passed
    <2>5. entered[r] = left[r] + 1
      BY <1>2, <2>1
    <2>6. \A q \in Ranks :
             /\ left'[q] = 3 * launch[q] - 3 + Passed(At(q, 0)')
             /\ entered'[q] = left'[q]
                \/ (entered'[q] = left'[q] + 1 /\ At(q, 0)' \in {2, 12, 15})
      <3> SUFFICES ASSUME NEW q \in Ranks
                   PROVE  /\ left'[q] = 3 * launch[q] - 3 + Passed(At(q, 0)')
                          /\ entered'[q] = left'[q]
                             \/ (entered'[q] = left'[q] + 1 /\ At(q, 0)' \in {2, 12, 15})
        OBVIOUS
      <3>1. CASE q = r
        BY <1>2, <2>1, <2>3, <2>4, <2>5, <3>1 DEF Passed
      <3>2. CASE q # r
        BY <1>2, <2>1, <2>2, <2>3, <3>2
      <3> QED BY <3>1, <3>2
    <2>7. \A q, p \in Ranks : left'[q] <= entered'[p]
      BY <1>2, <2>1, <2>3, <2>5
    <2> QED BY <2>6, <2>7
  <1>9. CASE UNCHANGED <<entered, left>> /\ (b = 0 => At(r, b)' = At(r, b)
                                                       \/ At(r, b) \notin {2, 12, 15})
    <2>1. \A q \in Ranks : Passed(At(q, 0)') = Passed(At(q, 0))
      <3> SUFFICES ASSUME NEW q \in Ranks
                   PROVE  Passed(At(q, 0)') = Passed(At(q, 0))
        OBVIOUS
      <3>1. CASE q # r \/ b # 0
        BY <1>1, <1>5, <3>1 DEF Moved
      <3>2. CASE q = r /\ b = 0
        BY <1>1, <1>9, <3>2 DEF Moved, NextAt, Passed
      <3> QED BY <3>1, <3>2
    <2>2. \A q \in Ranks : At(q, 0) \in {2, 12, 15} => At(q, 0)' = At(q, 0)
      BY <1>1, <1>5, <1>9 DEF Moved
    <2> QED BY <1>2, <1>9, <2>1, <2>2
  <1>10. ASSUME ~ (b = 0 /\ (EnterRank(r) \/ LeaveRank(r)))
         PROVE  UNCHANGED <<entered, left>>
    BY <1>10 DEF Step, Block, Store, PassLocal, Publish, Check, Route, BuildTiles, Prepare, Claim,
       CountDone, Sync, ExitLoop, Reduce
  <1>11. ASSUME b = 0, ~ EnterRank(r), ~ LeaveRank(r)
         PROVE  At(r, b)' = At(r, b) \/ At(r, b) \notin {2, 12, 15}
    <2> SUFFICES ASSUME pc' # pc
                 PROVE  pc[r][b] \notin RankBarriers
      BY AtNext, PlaceAt DEF StepInv
    <2> QED BY <1>11 DEF Step, Block, Store, PassLocal, Publish, Check, Route, BuildTiles, Prepare,
            Claim, CountDone, Sync, ExitLoop, Reduce, RankBarriers, LocalBarriers
  <1> QED BY <1>7, <1>8, <1>9, <1>10, <1>11

LEMMA LaunchStepInv ==
  ASSUME StepInv, NEW r \in Ranks, Launch(r)
  PROVE  RankInv' /\ LocalInv'
  <1>1. /\ launch' = [launch EXCEPT ![r] = @ + 1] /\ UNCHANGED <<entered, left>>
        /\ \A b \in Blocks : pc[r][b] = "done" /\ At(r, b) = 16
        /\ \A b \in Blocks : pc'[r][b] = "publish" /\ At(r, b)' = 1
        /\ \A q \in Ranks \ {r}, b \in Blocks : pc'[q][b] = pc[q][b] /\ At(q, b)' = At(q, b)
    BY Relaunch DEF StepInv, Launch
  <1>2. LocalInv'
    BY <1>1, PlaceAt DEF StepInv, LocalInv, LocalStages
  <1>3. \A q \in Ranks :
          /\ left[q] = 3 * launch'[q] - 3 + Passed(At(q, 0)')
          /\ entered[q] = left[q] \/ (entered[q] = left[q] + 1 /\ pc'[q][0] \in RankBarriers)
    <2> SUFFICES ASSUME NEW q \in Ranks
                 PROVE  /\ left[q] = 3 * launch'[q] - 3 + Passed(At(q, 0)')
                        /\ entered[q] = left[q] \/ (entered[q] = left[q] + 1 /\ pc'[q][0] \in RankBarriers)
      OBVIOUS
    <2>1. CASE q # r
      <3>1. launch'[q] = launch[q]
        BY <1>1, <2>1 DEF StepInv, Shape
      <3> QED BY <1>1, <2>1, <3>1, Constants DEF StepInv, RankInv
    <2>2. CASE q = r
      <3>1. launch'[r] = launch[r] + 1 /\ launch[r] \in Nat
        BY <1>1, LaunchBound DEF StepInv, Shape
      <3>2. At(r, 0) = 16 /\ At(r, 0)' = 1
        BY <1>1, Constants
      <3>3. left[r] = 3 * launch[r] - 3 + 3 /\ entered[r] = left[r]
        BY <3>2, LaunchBound DEF Passed
      <3>4. Passed(At(r, 0)') = 0
        BY <3>2 DEF Passed
      <3> QED BY <2>2, <3>1, <3>3, <3>4, LaunchBound
    <2> QED BY <2>1, <2>2
  <1>4. RankInv'
    BY <1>1, <1>3, AtNext DEF StepInv, RankInv, Passed, RankBarriers
  <1> QED BY <1>2, <1>4

-----------------------------------------------------------------------------
(* The ids of the routes.                                                   *)

LEMMA TimesLess ==
  ASSUME NEW n \in Nat, NEW a \in Int, NEW b \in Int, a < b
  PROVE  a * n + n <= b * n
  <1>1. b - a - 1 \in Nat
    OBVIOUS
  <1>2. (b - a - 1) * n \in Nat
    BY <1>1
  <1>3. (b - a - 1) * n = b * n - a * n - n
    OBVIOUS
  <1> QED BY <1>2, <1>3

LEMMA TimesLeq ==
  ASSUME NEW n \in Nat, NEW a \in Int, NEW b \in Int, a <= b
  PROVE  a * n <= b * n
  <1>1. (b - a) * n \in Nat
    OBVIOUS
  <1>2. (b - a) * n = b * n - a * n
    OBVIOUS
  <1> QED BY <1>1, <1>2

LEMMA QuotientUnique ==
  ASSUME NEW n \in Nat \ {0}, NEW q \in Int, NEW p \in Int,
         NEW s \in 0 .. n - 1, NEW t \in 0 .. n - 1, q * n + s = p * n + t
  PROVE  q = p /\ s = t
  <1>1. ASSUME q < p PROVE FALSE
    BY <1>1, TimesLess
  <1>2. ASSUME p < q PROVE FALSE
    BY <1>2, TimesLess
  <1> QED BY <1>1, <1>2

LEMMA DivMod ==
  ASSUME NEW n \in Nat \ {0}, NEW a \in Nat
  PROVE  a \div n \in Nat /\ a % n \in 0 .. n - 1 /\ a = (a \div n) * n + (a % n)
  OBVIOUS

LEMMA DivIs ==
  ASSUME NEW n \in Nat \ {0}, NEW q \in Nat, NEW s \in 0 .. n - 1
  PROVE  (q * n + s) \div n = q /\ (q * n + s) % n = s
  <1>1. q * n + s \in Nat
    OBVIOUS
  <1> DEFINE a == q * n + s
  <1>2. a \div n \in Nat /\ a % n \in 0 .. n - 1 /\ a = (a \div n) * n + (a % n)
    BY <1>1, DivMod
  <1> QED BY <1>2, QuotientUnique

(* A quotient is below a bound when the dividend is.                        *)
LEMMA DivLess ==
  ASSUME NEW n \in Nat \ {0}, NEW a \in Nat, NEW m \in Int
  PROVE  a < m * n <=> a \div n < m
  <1>1. a \div n \in Nat /\ a % n \in 0 .. n - 1 /\ a = (a \div n) * n + (a % n)
    BY DivMod
  <1>2. ASSUME a \div n < m PROVE a < m * n
    <2>1. (a \div n) * n + n <= m * n
      BY <1>1, <1>2, TimesLess
    <2> QED BY <1>1, <2>1
  <1>3. ASSUME m <= a \div n PROVE m * n <= a
    <2>1. m * n <= (a \div n) * n
      BY <1>1, <1>3, TimesLeq
    <2> QED BY <1>1, <2>1
  <1> QED BY <1>1, <1>2, <1>3

LEMMA Counts ==
  ASSUME Shape, NEW r \in Ranks
  PROVE  /\ Count(r) \in 0 .. MaxTokens
         /\ \A t \in 0 .. Count(r) - 1 : t \in Tokens /\ Owner(r, t) \in Ranks \union {Invalid}
  <1>1. routes[r].owner \in Owners
    BY DEF Shape
  <1>2. routes[r].owner \in Seq(Ranks \union {Invalid}) /\ Len(routes[r].owner) <= MaxTokens
    <2>1. CASE routes[r].owner = <<>>
      BY <2>1, Constants
    <2>2. CASE routes[r].owner # <<>>
      <3>1. PICK n \in 1 .. MaxLaunches : routes[r].owner \in Inputs[n]
        BY <1>1, <2>2 DEF Owners
      <3> QED BY <3>1, InputsAssumption
    <2> QED BY <2>1, <2>2
  <1>3. Count(r) \in 0 .. MaxTokens
    BY <1>2, Constants DEF Count
  <1>4. ASSUME NEW t \in 0 .. Count(r) - 1
        PROVE  t \in Tokens /\ Owner(r, t) \in Ranks \union {Invalid}
    <2>1. t + 1 \in 1 .. Len(routes[r].owner) /\ t \in Tokens
      BY <1>3, <1>4, Constants DEF Count, Tokens
    <2> QED BY <1>2, <2>1 DEF Owner
  <1> QED BY <1>3, <1>4

LEMMA Widths ==
  ASSUME Shape, NEW r \in Ranks
  PROVE  Width(r) \in 0 .. MaxTokens /\ \A q \in Ranks : Count(q) <= Width(r)
  BY Counts, Constants DEF Width, EqualCounts

LEMMA IdIs ==
  ASSUME Shape, NEW r \in Ranks, NEW k \in Ids(r)
  PROVE  /\ Width(r) \in Nat \ {0} /\ k \in 0 .. NumRanks * MaxTokens - 1
         /\ k % NumBlocks \in Blocks /\ k \in 0 .. NumRanks * Width(r) - 1
         /\ k \div Width(r) \in Ranks /\ k % Width(r) \in 0 .. Count(k \div Width(r)) - 1
         /\ k % Width(r) \in Tokens
         /\ OwnerOf(r, k) \in Ranks \union {Invalid}
  <1>1. k \in 0 .. NumRanks * Width(r) - 1 /\ k % Width(r) < Count(k \div Width(r))
    BY DEF Ids
  <1>2. NumRanks \in Nat \ {0} /\ NumBlocks \in Nat \ {0} /\ MaxTokens \in Nat
    BY Constants
  <1>3. Width(r) \in 0 .. MaxTokens
    BY Widths
  <1> DEFINE w == Width(r)
  <1> HIDE DEF w
  <1>4. w \in Nat /\ w <= MaxTokens /\ k \in Int /\ 0 <= k /\ k < NumRanks * w /\ Width(r) = w
    BY <1>1, <1>2, <1>3 DEF w
  <1>5. w \in Nat \ {0}
    BY <1>2, <1>4
  <1>6. k \in Nat /\ k < NumRanks * w /\ NumRanks * w <= NumRanks * MaxTokens
    <2>1. w * NumRanks <= MaxTokens * NumRanks
      BY <1>2, <1>4, TimesLeq
    <2> QED BY <1>2, <1>4, <2>1
  <1>7. k \div w \in Nat /\ k % w \in 0 .. w - 1 /\ k \div w < NumRanks
    <2>1. k \div w \in Nat /\ k % w \in 0 .. w - 1
      BY <1>5, <1>6, DivMod
    <2>2. k < NumRanks * w <=> k \div w < NumRanks
      BY <1>2, <1>5, <1>6, DivLess
    <2> QED BY <1>6, <2>1, <2>2
  <1>8. k \div w \in Ranks
    BY <1>2, <1>7 DEF Ranks
  <1>9. k % w \in 0 .. Count(k \div w) - 1
    BY <1>1, <1>4, <1>7, <1>8, Counts
  <1>10. k % w \in Tokens /\ Owner(k \div w, k % w) \in Ranks \union {Invalid}
    BY <1>8, <1>9, Counts
  <1>11. k % NumBlocks \in Blocks
    BY <1>2, <1>6, DivMod DEF Blocks
  <1>12. k \in 0 .. NumRanks * MaxTokens - 1
    <2>1. NumRanks * w \in Nat /\ NumRanks * MaxTokens \in Nat
      BY <1>2, <1>4
    <2> QED BY <1>6, <2>1
  <1> QED BY <1>1, <1>4, <1>5, <1>8, <1>9, <1>10, <1>11, <1>12 DEF OwnerOf

LEMMA IdOf ==
  ASSUME Shape, NEW r \in Ranks, NEW q \in Ranks, NEW t \in 0 .. Count(q) - 1
  PROVE  \E k \in Ids(r) : k \div Width(r) = q /\ k % Width(r) = t
  <1>1. PICK w \in Nat : w = Width(r) /\ Count(q) <= w
    BY Widths, Constants
  <1>2. NumRanks \in Nat /\ q \in Nat /\ q < NumRanks /\ Count(q) \in Nat
    BY Constants, Counts DEF Ranks
  <1>3. w \in Nat \ {0} /\ t \in 0 .. w - 1
    BY <1>1, <1>2
  <1> DEFINE k == q * w + t
  <1>4. k \div w = q /\ k % w = t
    BY <1>2, <1>3, DivIs
  <1>5. k \in Nat /\ k < NumRanks * w
    <2>1. q * w + w <= NumRanks * w
      BY <1>2, <1>3, TimesLess
    <2>2. q * w \in Nat
      BY <1>2, <1>3
    <2> QED BY <1>2, <1>3, <2>1, <2>2
  <1>6. NumRanks * w \in Nat
    BY <1>2, <1>3
  <1> HIDE DEF k
  <1>7. k \in Ids(r)
    BY <1>1, <1>2, <1>4, <1>5, <1>6 DEF Ids
  <1> QED BY <1>1, <1>4, <1>7

-----------------------------------------------------------------------------
(* What a step changes.                                                     *)

LEMMA Frame ==
  ASSUME Shape, NEW r \in Ranks, NEW b \in Blocks, Step(r, b)
  PROVE  /\ launch' = launch /\ routes' = routes
         /\ num_tokens' = num_tokens \/ Publish(r, b)
         /\ pool' = pool \/ Publish(r, b) \/ Route(r, b)
         /\ combine' = combine \/ Route(r, b) \/ Store(r, b)
         /\ rows' = rows \/ BuildTiles(r, b) \/ Prepare(r, b)
         /\ pending' = pending \/ BuildTiles(r, b) \/ Prepare(r, b) \/ Claim(r, b)
         /\ L2Done' = L2Done \/ Prepare(r, b) \/ CountDone(r, b)
         /\ uniform' = uniform \/ Check(r, b)
         /\ storing' = storing \/ Claim(r, b) \/ Store(r, b)
  BY DEF Step, Block, Store, EnterRank, LeaveRank, PassLocal, Publish, Check, Route, BuildTiles,
         Prepare, Claim, CountDone, Sync, ExitLoop, Reduce, scratch, sym, blocks

LEMMA OthersStay ==
  ASSUME Shape, NEW r \in Ranks, NEW b \in Blocks, Step(r, b)
  PROVE  /\ \A q \in Ranks \ {r} :
              /\ num_tokens'[q] = num_tokens[q] /\ pool'[q] = pool[q] /\ rows'[q] = rows[q]
              /\ pending'[q] = pending[q] /\ L2Done'[q] = L2Done[q]
              /\ uniform'[q] = uniform[q] /\ storing'[q] = storing[q] /\ pc'[q] = pc[q]
         /\ \A c \in Blocks \ {b} :
              /\ uniform'[r][c] = uniform[r][c] /\ storing'[r][c] = storing[r][c]
              /\ pc'[r][c] = pc[r][c]
  <1>1. ASSUME NEW q \in Ranks \ {r}
        PROVE  num_tokens'[q] = num_tokens[q] /\ pool'[q] = pool[q]
    <2>1. Publish(r, b) => num_tokens'[q] = num_tokens[q]
      BY DEF Publish, Shape
    <2>2. Publish(r, b) => pool'[q] = pool[q]
      BY DEF Publish, Shape
    <2>3. Route(r, b) => pool'[q] = pool[q]
      BY DEF Route, Shape
    <2> QED BY <2>1, <2>2, <2>3, Frame
  <1>2. ASSUME NEW q \in Ranks \ {r}
        PROVE  rows'[q] = rows[q] /\ pending'[q] = pending[q] /\ L2Done'[q] = L2Done[q]
    <2>1. BuildTiles(r, b) => rows'[q] = rows[q] /\ pending'[q] = pending[q]
      BY DEF BuildTiles, Shape
    <2>2. Prepare(r, b) => rows'[q] = rows[q] /\ pending'[q] = pending[q] /\ L2Done'[q] = L2Done[q]
      BY DEF Prepare, Shape
    <2>3. Claim(r, b) => pending'[q] = pending[q]
      BY DEF Claim, Shape
    <2>4. CountDone(r, b) => L2Done'[q] = L2Done[q]
      BY DEF CountDone, Shape
    <2> QED BY <2>1, <2>2, <2>3, <2>4, Frame
  <1>3. /\ \A q \in Ranks \ {r} : uniform'[q] = uniform[q] /\ storing'[q] = storing[q]
        /\ \A c \in Blocks \ {b} : uniform'[r][c] = uniform[r][c] /\ storing'[r][c] = storing[r][c]
    <2>1. Check(r, b) => /\ \A q \in Ranks \ {r} : uniform'[q] = uniform[q]
                         /\ \A c \in Blocks \ {b} : uniform'[r][c] = uniform[r][c]
      BY DEF Check, Shape
    <2>2. Claim(r, b) \/ Store(r, b) => /\ \A q \in Ranks \ {r} : storing'[q] = storing[q]
                                        /\ \A c \in Blocks \ {b} : storing'[r][c] = storing[r][c]
      BY DEF Claim, Store, Shape
    <2> QED BY <2>1, <2>2, Frame
  <1>4. /\ \A q \in Ranks \ {r} : pc'[q] = pc[q]
        /\ \A c \in Blocks \ {b} : pc'[r][c] = pc[r][c]
    <2>1. \/ pc' = pc
          \/ \E there : pc' = [pc EXCEPT ![r][b] = there]
      <3>1. Publish(r, b) \/ PassLocal(r, b) \/ Check(r, b) \/ Route(r, b) \/ BuildTiles(r, b)
              => Advance(r, b)
        BY DEF PassLocal, Publish, Check, Route, BuildTiles
      <3>2. Prepare(r, b) \/ ExitLoop(r, b) \/ Reduce(r, b) => Advance(r, b)
        BY DEF Prepare, ExitLoop, Reduce
      <3>3. b = 0 /\ LeaveRank(r) => Advance(r, b)
        BY DEF LeaveRank
      <3>4. b = 0 /\ EnterRank(r) => pc' = pc
        BY DEF EnterRank
      <3>5. Claim(r, b) \/ CountDone(r, b) \/ Sync(r, b) => \E there : Go(r, b, there)
        BY DEF Claim, CountDone, Sync
      <3>6. Store(r, b) => pc' = pc
        BY DEF Store
      <3> QED BY <3>1, <3>2, <3>3, <3>4, <3>5, <3>6 DEF Step, Block, Advance, Go
    <2> QED BY <2>1 DEF Shape
  <1> QED BY <1>1, <1>2, <1>3, <1>4

(* Where the actions are.                                                   *)
LEMMA Acts ==
  ASSUME Shape, NEW r \in Ranks, NEW b \in Blocks
  PROVE  /\ Publish(r, b) => At(r, b) = 1 /\ At(r, b)' = IF b = 0 THEN 2 ELSE 3
         /\ Check(r, b) => At(r, b) = 4 /\ At(r, b)' = 5
         /\ Route(r, b) => At(r, b) = 5 /\ At(r, b)' = 6
         /\ BuildTiles(r, b) => At(r, b) = 7 /\ At(r, b)' = 8
         /\ Prepare(r, b) => At(r, b) = 9 /\ At(r, b)' = 10
         /\ Claim(r, b) \/ CountDone(r, b) \/ Sync(r, b) => At(r, b) = 11 /\ At(r, b)' = 11
         /\ ExitLoop(r, b) => At(r, b) = 11 /\ At(r, b)' = IF b = 0 THEN 12 ELSE 13
         /\ Store(r, b) => pc' = pc /\ At(r, b)' = At(r, b)
  <1>1. Publish(r, b) => At(r, b) = 1 /\ At(r, b)' = IF b = 0 THEN 2 ELSE 3
    BY Advances, PlaceAt DEF Publish, NextAt
  <1>2. Check(r, b) => At(r, b) = 4 /\ At(r, b)' = 5
    BY Advances, PlaceAt DEF Check, NextAt
  <1>3. Route(r, b) => At(r, b) = 5 /\ At(r, b)' = 6
    BY Advances, PlaceAt DEF Route, NextAt
  <1>4. BuildTiles(r, b) => At(r, b) = 7 /\ At(r, b)' = 8
    BY Advances, PlaceAt DEF BuildTiles, NextAt
  <1>5. Prepare(r, b) => At(r, b) = 9 /\ At(r, b)' = 10
    BY Advances, PlaceAt DEF Prepare, NextAt
  <1>6. ExitLoop(r, b) => At(r, b) = 11 /\ At(r, b)' = IF b = 0 THEN 12 ELSE 13
    BY Advances, PlaceAt DEF ExitLoop, NextAt
  <1>7. Claim(r, b) \/ CountDone(r, b) \/ Sync(r, b) => At(r, b) = 11 /\ At(r, b)' = 11
    <2> SUFFICES ASSUME Claim(r, b) \/ CountDone(r, b) \/ Sync(r, b)
                 PROVE  At(r, b) = 11 /\ At(r, b)' = 11
      OBVIOUS
    <2>1. PICK there \in {"work", "count", "sync"} : Go(r, b, there)
      BY DEF Claim, CountDone, Sync
    <2>2. pc[r][b] \in {"work", "count", "sync"} /\ there \in Places
      BY <2>1 DEF Claim, CountDone, Sync, Places
    <2> QED BY <2>1, <2>2, PlaceAt, Goes, Stages
  <1>8. Store(r, b) => pc' = pc /\ At(r, b)' = At(r, b)
    BY AtNext DEF Store
  <1> QED BY <1>1, <1>2, <1>3, <1>4, <1>5, <1>6, <1>7, <1>8

(* Which action moves a block on from a stage.                              *)
LEMMA MovedBy ==
  ASSUME Shape, NEW r \in Ranks, NEW b \in Blocks, Step(r, b), At(r, b)' # At(r, b)
  PROVE  /\ At(r, b) = 1 => Publish(r, b)
         /\ At(r, b) = 4 => Check(r, b)
         /\ At(r, b) = 5 => Route(r, b)
         /\ At(r, b) = 7 => BuildTiles(r, b)
         /\ At(r, b) = 9 => Prepare(r, b)
         /\ At(r, b) = 11 => ExitLoop(r, b)
  <1>1. ~ (Claim(r, b) \/ CountDone(r, b) \/ Sync(r, b) \/ Store(r, b))
    BY Acts
  <1>2. ~ EnterRank(r)
    BY AtNext DEF EnterRank
  <1>3. \/ Publish(r, b) \/ PassLocal(r, b) \/ Check(r, b) \/ Route(r, b) \/ BuildTiles(r, b)
        \/ Prepare(r, b) \/ ExitLoop(r, b) \/ Reduce(r, b) \/ (b = 0 /\ LeaveRank(r))
    BY <1>1, <1>2 DEF Step, Block
  <1>4. /\ PassLocal(r, b) => At(r, b) \in LocalStages
        /\ Reduce(r, b) => At(r, b) = 14
        /\ b = 0 /\ LeaveRank(r) => At(r, b) \in {2, 12, 15}
    BY PlaceAt DEF PassLocal, Reduce, LeaveRank
  <1> QED BY <1>3, <1>4, Acts DEF LocalStages

LEMMA Ahead ==
  ASSUME Shape, NEW r \in Ranks, NEW b \in Blocks, Step(r, b), NEW q \in Ranks, NEW c \in Blocks
  PROVE  /\ At(q, c) \in 1 .. 16 /\ At(q, c)' \in 1 .. 17 /\ At(q, c)' >= At(q, c)
         /\ At(q, c)' = At(q, c) \/ (q = r /\ c = b /\ At(q, c)' = NextAt(c, At(q, c)))
         /\ At(q, c)' = At(q, c) \/ At(q, c)' = At(q, c) + 1
            \/ (At(q, c) \in {1, 11, 14} /\ At(q, c)' = At(q, c) + 2)
  <1>1. At(q, c) \in 1 .. 16 /\ Moved(r, b)
    BY PlaceAt, Moves
  <1>2. CASE q # r \/ c # b
    BY <1>1, <1>2 DEF Moved
  <1>3. CASE q = r /\ c = b
    BY <1>1, <1>3 DEF Moved, NextAt
  <1> QED BY <1>2, <1>3

LEMMA RoutesStay ==
  ASSUME routes' = routes
  PROVE  /\ \A q : Count(q)' = Count(q) /\ EqualCounts(q)' = EqualCounts(q) /\ Width(q)' = Width(q)
         /\ \A q, t : Owner(q, t)' = Owner(q, t)
         /\ \A q : Ids(q)' = Ids(q) /\ Mine(q)' = Mine(q)
         /\ \A q, k : OwnerOf(q, k)' = OwnerOf(q, k)
  <1>1. \A q : Count(q)' = Count(q)
    BY DEF Count
  <1>2. \A q : EqualCounts(q)' = EqualCounts(q)
    BY <1>1 DEF EqualCounts
  <1>3. \A q : Width(q)' = Width(q)
    BY <1>1, <1>2 DEF Width
  <1>4. \A q, t : Owner(q, t)' = Owner(q, t)
    BY DEF Owner
  <1>5. \A q, k : OwnerOf(q, k)' = OwnerOf(q, k)
    BY <1>3, <1>4 DEF OwnerOf
  <1>6. \A q : Ids(q)' = Ids(q)
    BY <1>1, <1>3 DEF Ids
  <1>7. \A q : Mine(q)' = Mine(q)
    BY <1>5, <1>6 DEF Mine
  <1> QED BY <1>1, <1>2, <1>3, <1>4, <1>5, <1>6, <1>7

LEMMA CombineStays ==
  ASSUME StepInv, StoringInv, NEW r \in Ranks, NEW b \in Blocks, Step(r, b),
         NEW q \in Ranks, NEW t \in Tokens, Fresh(q, t)
  PROVE  Fresh(q, t)'
  <1>1. combine \in [Ranks -> [Tokens -> 0 .. MaxLaunches]] /\ launch' = launch
    BY Frame DEF StepInv, Shape
  <1>2. combine'[q][t] = combine[q][t] \/ combine'[q][t] = launch[r]
    <2>1. CASE combine' = combine
      BY <2>1
    <2>2. CASE Route(r, b)
      BY <2>2 DEF Route
    <2>3. CASE Store(r, b)
      BY <1>1, <2>3 DEF Store
    <2> QED BY <2>1, <2>2, <2>3, Frame DEF StepInv
  <1>3. CASE Route(r, b) \/ Store(r, b)
    <2>1. At(r, b) \in {5, 11}
      BY <1>3, Acts, PlaceAt DEF StepInv, StoringInv, Store
    <2>2. launch[q] = launch[r]
      BY <2>1, Together DEF Reading
    <2> QED BY <1>1, <1>2, <2>2 DEF Fresh
  <1>4. CASE combine' = combine
    BY <1>1, <1>4 DEF Fresh
  <1> QED BY <1>3, <1>4, Frame DEF StepInv

LEMMA RoutedStays ==
  ASSUME Shape, NEW r \in Ranks, NEW b \in Blocks, Step(r, b), NEW q \in Ranks,
         ~ Route(r, b) \/ q # r
  PROVE  Routed(q)' = Routed(q)
  <1>1. \A k \in Mine(q) : k % NumBlocks \in Blocks
    BY IdIs DEF Mine
  <1>2. ASSUME NEW c \in Blocks
        PROVE  At(q, c)' >= 6 <=> At(q, c) >= 6
    BY Ahead, MovedBy
  <1>3. Mine(q)' = Mine(q)
    BY Frame, RoutesStay
  <1> QED BY <1>1, <1>2, <1>3 DEF Routed

LEMMA PreparedStays ==
  ASSUME Shape, NEW r \in Ranks, NEW b \in Blocks, Step(r, b), NEW q \in Ranks,
         ~ Prepare(r, b) \/ q # r
  PROVE  Prepared(q)' = Prepared(q)
  <1>1. \A k \in Mine(q) : k % NumBlocks \in Blocks
    BY IdIs DEF Mine
  <1>2. ASSUME NEW c \in Blocks
        PROVE  At(q, c)' >= 10 <=> At(q, c) >= 10
    BY Ahead, MovedBy
  <1>3. Mine(q)' = Mine(q)
    BY Frame, RoutesStay
  <1> QED BY <1>1, <1>2, <1>3 DEF Prepared

LEMMA RoutedGrows ==
  ASSUME Shape, NEW r \in Ranks, NEW b \in Blocks, Step(r, b), Route(r, b)
  PROVE  Routed(r)' = Routed(r) \union {k \in Mine(r) : k % NumBlocks = b}
  <1>1. \A k \in Mine(r) : k % NumBlocks \in Blocks
    BY IdIs DEF Mine
  <1>2. At(r, b) = 5 /\ At(r, b)' = 6
    BY Acts
  <1>3. \A c \in Blocks \ {b} : At(r, c)' = At(r, c)
    BY Ahead
  <1>4. Mine(r)' = Mine(r)
    BY Frame, RoutesStay
  <1>5. \A c \in Blocks : At(r, c)' >= 6 <=> At(r, c) >= 6 \/ c = b
    BY <1>2, <1>3
  <1> QED BY <1>1, <1>4, <1>5 DEF Routed

LEMMA PreparedGrows ==
  ASSUME Shape, NEW r \in Ranks, NEW b \in Blocks, Step(r, b), Prepare(r, b)
  PROVE  Prepared(r)' = Prepared(r) \union {k \in Mine(r) : k % NumBlocks = b}
  <1>1. \A k \in Mine(r) : k % NumBlocks \in Blocks
    BY IdIs DEF Mine
  <1>2. At(r, b) = 9 /\ At(r, b)' = 10
    BY Acts
  <1>3. \A c \in Blocks \ {b} : At(r, c)' = At(r, c)
    BY Ahead
  <1>4. Mine(r)' = Mine(r)
    BY Frame, RoutesStay
  <1>5. \A c \in Blocks : At(r, c)' >= 10 <=> At(r, c) >= 10 \/ c = b
    BY <1>2, <1>3
  <1> QED BY <1>1, <1>4, <1>5 DEF Prepared

(* The ids a block routes are its share of the routes' ids.                 *)
LEMMA RouteShare ==
  ASSUME StepInv, PublishInv, UniformInv, NEW r \in Ranks, NEW b \in Blocks, At(r, b) \in 5 .. 11
  PROVE  /\ Stride(r, b) = Width(r) /\ RouteTasks(r, b) = Share(b, Ids(r))
         /\ \A k : TaskOwner(r, b, k) = OwnerOf(r, k)
  <1>1. uniform[r][b] <=> EqualCounts(r)
    BY DEF UniformInv
  <1>2. Stride(r, b) = Width(r)
    BY <1>1 DEF Stride, Width
  <1>3. ASSUME NEW q \in Ranks
        PROVE  num_tokens[q].count = Count(q)
    <2>1. At(q, 0) >= 2
      BY Together DEF Reading
    <2>2. num_tokens[q] = [n |-> launch[q], count |-> Count(q)]
      BY <2>1 DEF PublishInv
    <2> QED BY <2>2
  <1>4. Width(r) \in 0 .. MaxTokens /\ NumRanks \in Nat \ {0} /\ MaxTokens \in Nat
    BY Widths, Constants DEF StepInv
  <1>5. ASSUME NEW k \in 0 .. NumRanks * Width(r) - 1
        PROVE  k % Width(r) < Count(k \div Width(r))
                 <=> uniform[r][b] \/ k % Width(r) < num_tokens[k \div Width(r)].count
    <2>1. PICK w \in Nat : w = Width(r)
      BY <1>4
    <2>2. w # 0
      BY <1>4, <1>5, <2>1
    <2>3. k \in Nat /\ k < NumRanks * w
      BY <1>4, <1>5, <2>1
    <2>4. k \div w \in Nat /\ k % w \in 0 .. w - 1
      BY <2>2, <2>3, DivMod
    <2>5. k \div w < NumRanks
      <3>1. w \in Nat \ {0} /\ k \in Nat /\ NumRanks \in Int
        BY <1>4, <2>2, <2>3
      <3>2. k < NumRanks * w <=> k \div w < NumRanks
        BY <3>1, DivLess
      <3> QED BY <2>3, <3>2
    <2>6. k \div w \in Ranks
      BY <1>4, <2>4, <2>5 DEF Ranks
    <2>7. CASE uniform[r][b]
      <3>1. Count(k \div w) = w
        BY <1>1, <2>1, <2>6, <2>7 DEF Width, EqualCounts
      <3> QED BY <2>1, <2>4, <2>7, <3>1
    <2>8. CASE ~ uniform[r][b]
      BY <1>3, <2>1, <2>6, <2>8
    <2> QED BY <2>7, <2>8
  <1>6. RouteTasks(r, b) = Share(b, Ids(r))
    BY <1>2, <1>5 DEF RouteTasks, Share, DecodeTask, Ids
  <1>7. \A k : TaskOwner(r, b, k) = OwnerOf(r, k)
    BY <1>2 DEF TaskOwner, DecodeTask, OwnerOf
  <1> QED BY <1>2, <1>6, <1>7

-----------------------------------------------------------------------------
(* Routing, step by step.                                                   *)

LEMMA PublishStep ==
  ASSUME StepInv, PublishInv, NEW r \in Ranks, NEW b \in Blocks, Step(r, b)
  PROVE  PublishInv'
  <1>1. launch' = launch /\ \A q : Count(q)' = Count(q)
    BY Frame, RoutesStay DEF StepInv
  <1>2. SUFFICES ASSUME NEW q \in Ranks, At(q, 0)' >= 2
                 PROVE  num_tokens'[q] = [n |-> launch[q], count |-> Count(q)]
    BY <1>1 DEF PublishInv
  <1>3. CASE Publish(r, b) /\ b = 0 /\ q = r
    BY <1>3 DEF Publish, StepInv, Shape
  <1>4. CASE ~ (Publish(r, b) /\ b = 0 /\ q = r)
    <2>1. At(q, 0) >= 2
      <3>1. At(q, 0) \in 1 .. 16 /\ (At(q, 0)' = At(q, 0) \/ (q = r /\ 0 = b))
        BY Ahead, Constants DEF StepInv
      <3>2. CASE At(q, 0) = 1
        BY <1>2, <1>4, <3>1, <3>2, MovedBy DEF StepInv
      <3> QED BY <3>1, <3>2
    <2>2. num_tokens'[q] = num_tokens[q]
      <3>1. CASE q # r
        BY <3>1, OthersStay DEF StepInv
      <3>2. CASE q = r
        BY <1>4, <3>2, Frame DEF StepInv, Publish
      <3> QED BY <3>1, <3>2
    <2> QED BY <2>1, <2>2 DEF PublishInv
  <1> QED BY <1>3, <1>4

LEMMA UniformStep ==
  ASSUME StepInv, PublishInv, UniformInv, NEW r \in Ranks, NEW b \in Blocks, Step(r, b)
  PROVE  UniformInv'
  <1>1. \A q : Count(q)' = Count(q) /\ EqualCounts(q)' = EqualCounts(q)
    BY Frame, RoutesStay DEF StepInv
  <1>2. SUFFICES ASSUME NEW q \in Ranks, NEW c \in Blocks, At(q, c)' \in 5 .. 11
                 PROVE  uniform'[q][c] <=> EqualCounts(q)
    BY <1>1 DEF UniformInv
  <1>3. CASE Check(r, b) /\ q = r /\ c = b
    <2>1. At(r, b) = 4
      BY <1>3, Acts DEF StepInv
    <2>2. ASSUME NEW p \in Ranks
          PROVE  num_tokens[p].count = Count(p)
      <3>1. At(p, 0) >= 2
        BY <2>1, Together DEF Reading
      <3>2. num_tokens[p] = [n |-> launch[p], count |-> Count(p)]
        BY <3>1 DEF PublishInv
      <3> QED BY <3>2
    <2>3. uniform'[r][b] = \A p \in Ranks : num_tokens[p].count = Count(r)
      BY <1>3 DEF Check, StepInv, Shape
    <2> QED BY <1>3, <2>2, <2>3 DEF EqualCounts
  <1>4. CASE ~ (Check(r, b) /\ q = r /\ c = b)
    <2>1. uniform'[q][c] = uniform[q][c]
      BY <1>4, Frame, OthersStay DEF StepInv
    <2>2. At(q, c) \in 5 .. 11
      <3>1. CASE At(q, c)' = At(q, c)
        BY <1>2, <3>1
      <3>2. CASE At(q, c)' # At(q, c)
        <4>1. q = r /\ c = b /\ At(q, c) # 4
          BY <1>4, <3>2, Ahead, MovedBy DEF StepInv
        <4> QED BY <1>2, <3>2, <4>1, Ahead DEF StepInv
      <3> QED BY <3>1, <3>2
    <2> QED BY <2>1, <2>2 DEF UniformInv
  <1> QED BY <1>3, <1>4

LEMMA PoolStep ==
  ASSUME StepInv, PublishInv, UniformInv, PoolInv, NEW r \in Ranks, NEW b \in Blocks, Step(r, b)
  PROVE  PoolInv'
  <1>1. SUFFICES ASSUME NEW q \in Ranks, At(q, 0)' >= 2, NEW d \in Blocks, At(q, d)' <= 11
                 PROVE  pool'[q] = Routed(q)'
    BY DEF PoolInv
  <1>2. Shape /\ LocalInv /\ 0 \in Blocks
    BY Constants DEF StepInv
  <1>3. At(q, d) <= 11
    BY <1>1, <1>2, Ahead
  <1>4. ASSUME At(q, 0) >= 2
        PROVE  pool[q] = Routed(q)
    BY <1>3, <1>4 DEF PoolInv
  <1>5. CASE q # r
    <2>1. Routed(q)' = Routed(q) /\ pool'[q] = pool[q] /\ At(q, 0)' = At(q, 0)
      BY <1>2, <1>5, RoutedStays, OthersStay, Ahead
    <2> QED BY <1>1, <1>4, <2>1
  <1>6. CASE q = r /\ Route(r, b)
    <2>1. At(r, b) = 5
      BY <1>2, <1>6, Acts
    <2>2. At(r, 0) >= 2
      BY <1>2, <2>1, PlaceAt DEF LocalInv, LocalStages
    <2>3. pool'[r] = pool[r] \union {task \in RouteTasks(r, b) : TaskOwner(r, b, task) = r}
      BY <1>2, <1>6 DEF Route, Shape
    <2>4. {task \in RouteTasks(r, b) : TaskOwner(r, b, task) = r} = {k \in Mine(r) : k % NumBlocks = b}
      BY <2>1, RouteShare DEF Share, Mine
    <2> QED BY <1>2, <1>4, <1>6, <2>2, <2>3, <2>4, RoutedGrows
  <1>7. CASE q = r /\ Publish(r, b) /\ b = 0
    <2>1. At(r, 0) = 1 /\ pool'[r] = {}
      BY <1>2, <1>7, Acts DEF Publish, Shape
    <2>2. ASSUME NEW c \in Blocks
          PROVE  ~ (At(r, c) >= 6)
      BY <1>2, <2>1, PlaceAt DEF LocalInv, LocalStages
    <2>3. Routed(r) = {}
      BY <1>2, <2>2, IdIs DEF Routed, Mine
    <2>4. Routed(r)' = Routed(r)
      BY <1>2, <1>7, <2>1, RoutedStays, Acts
    <2> QED BY <1>7, <2>1, <2>3, <2>4
  <1>8. CASE q = r /\ ~ Route(r, b) /\ ~ (Publish(r, b) /\ b = 0)
    <2>1. Routed(r)' = Routed(r)
      BY <1>2, <1>8, RoutedStays
    <2>2. pool' = pool
      BY <1>2, <1>8, Frame DEF Publish
    <2>3. At(r, 0) >= 2
      <3>1. At(r, 0) \in 1 .. 16 /\ (At(r, 0)' = At(r, 0) \/ 0 = b)
        BY <1>2, Ahead
      <3>2. CASE At(r, 0) = 1
        BY <1>1, <1>2, <1>8, <3>1, <3>2, MovedBy
      <3> QED BY <3>1, <3>2
    <2> QED BY <1>4, <1>8, <2>1, <2>2, <2>3
  <1> QED BY <1>5, <1>6, <1>7, <1>8

(* The rows a block decodes are its share of the routes of its rank.        *)
LEMMA PrepareShare ==
  ASSUME StepInv, PublishInv, UniformInv, PoolInv, NEW r \in Ranks, NEW b \in Blocks, At(r, b) = 9
  PROVE  /\ {DecodeTask(task, Stride(r, b)) : task \in Share(b, pool[r])}
              = {DecodeTask(k, Width(r)) : k \in {i \in Mine(r) : i % NumBlocks = b}}
         /\ {DecodeTask(k, Width(r)) : k \in {i \in Mine(r) : i % NumBlocks = b}} \subseteq Rows
  <1>1. Shape /\ LocalInv /\ 0 \in Blocks
    BY Constants DEF StepInv
  <1>2. \A c \in Blocks : At(r, c) >= 8
    BY <1>1 DEF LocalInv, LocalStages
  <1>3. Routed(r) = Mine(r)
    <2>1. ASSUME NEW k \in Mine(r)
          PROVE  At(r, k % NumBlocks) >= 6
      <3>1. k % NumBlocks \in Blocks
        BY <1>1, IdIs DEF Mine
      <3>2. At(r, k % NumBlocks) >= 8 /\ At(r, k % NumBlocks) \in 1 .. 16
        BY <1>1, <1>2, <3>1, PlaceAt
      <3> QED BY <3>2
    <2> QED BY <2>1 DEF Routed
  <1>4. pool[r] = Mine(r)
    <2>1. At(r, 0) >= 2
      BY <1>1, <1>2, PlaceAt
    <2> QED BY <1>3, <2>1 DEF PoolInv
  <1>5. Stride(r, b) = Width(r)
    BY RouteShare
  <1>6. ASSUME NEW k \in Mine(r)
        PROVE  DecodeTask(k, Width(r)) \in Rows
    BY <1>1, IdIs DEF Mine, DecodeTask, Rows
  <1> QED BY <1>4, <1>5, <1>6 DEF Share

LEMMA RowsStep ==
  ASSUME StepInv, PublishInv, UniformInv, PoolInv, RowsInv,
         NEW r \in Ranks, NEW b \in Blocks, Step(r, b)
  PROVE  RowsInv'
  <1>1. SUFFICES ASSUME NEW q \in Ranks, At(q, 0)' >= 8, NEW d \in Blocks, At(q, d)' <= 11
                 PROVE  rows'[q] = {DecodeTask(k, Width(q)') : k \in Prepared(q)'}
    BY DEF RowsInv, DecodeTask
  <1>2. Shape /\ LocalInv /\ 0 \in Blocks
    BY Constants DEF StepInv
  <1>3. At(q, d) <= 11 /\ Width(q)' = Width(q)
    BY <1>1, <1>2, Ahead, Frame, RoutesStay
  <1>4. ASSUME At(q, 0) >= 8
        PROVE  rows[q] = {DecodeTask(k, Width(q)) : k \in Prepared(q)}
    BY <1>3, <1>4 DEF RowsInv
  <1>5. CASE q # r
    <2>1. Prepared(q)' = Prepared(q) /\ rows'[q] = rows[q] /\ At(q, 0)' = At(q, 0)
      BY <1>2, <1>5, PreparedStays, OthersStay, Ahead
    <2> QED BY <1>1, <1>3, <1>4, <2>1
  <1>6. CASE q = r /\ Prepare(r, b)
    <2>1. At(r, b) = 9
      BY <1>2, <1>6, Acts
    <2>2. At(r, 0) >= 8
      BY <1>2, <2>1, PlaceAt DEF LocalInv, LocalStages
    <2>3. rows'[r] = rows[r] \union {DecodeTask(task, Stride(r, b)) : task \in Share(b, pool[r])}
      BY <1>2, <1>6 DEF Prepare, Shape
    <2>4. Prepared(r)' = Prepared(r) \union {k \in Mine(r) : k % NumBlocks = b}
      BY <1>2, <1>6, PreparedGrows
    <2> QED BY <1>3, <1>4, <1>6, <2>1, <2>2, <2>3, <2>4, PrepareShare
  <1>7. CASE q = r /\ BuildTiles(r, b) /\ b = 0
    <2>1. At(r, 0) = 7 /\ rows'[r] = {}
      BY ZenonT(60), <1>2, <1>7, Acts DEF BuildTiles, Shape
    <2>2. ASSUME NEW c \in Blocks
          PROVE  ~ (At(r, c) >= 10)
      BY <1>2, <2>1, PlaceAt DEF LocalInv, LocalStages
    <2>3. Prepared(r) = {}
      BY <1>2, <2>2, IdIs DEF Prepared, Mine
    <2>4. Prepared(r)' = Prepared(r)
      BY <1>2, <1>7, <2>1, PreparedStays, Acts
    <2> QED BY <1>7, <2>1, <2>3, <2>4
  <1>8. CASE q = r /\ ~ Prepare(r, b) /\ ~ (BuildTiles(r, b) /\ b = 0)
    <2>1. Prepared(r)' = Prepared(r)
      BY <1>2, <1>8, PreparedStays
    <2>2. rows' = rows
      BY <1>2, <1>8, Frame DEF BuildTiles
    <2>3. At(r, 0) >= 8
      <3>1. At(r, 0) \in 1 .. 16 /\ (At(r, 0)' = At(r, 0) \/ (0 = b /\ At(r, 0)' = NextAt(0, At(r, 0))))
        BY <1>2, Ahead
      <3>2. CASE At(r, 0)' = At(r, 0)
        BY <1>1, <1>8, <3>2
      <3>3. CASE At(r, 0)' # At(r, 0)
        <4>1. At(r, 0) # 7
          BY <1>2, <1>8, <3>1, <3>3, MovedBy
        <4>2. At(r, 0)' >= 8
          BY <1>1, <1>8
        <4> QED BY <3>1, <3>3, <4>1, <4>2 DEF NextAt
      <3> QED BY <3>2, <3>3
    <2> QED BY <1>3, <1>4, <1>8, <2>1, <2>2, <2>3
  <1> QED BY <1>5, <1>6, <1>7, <1>8

(* A rank's rows are the routes it owns.                                    *)
LEMMA RowsOf ==
  ASSUME Shape, NEW r \in Ranks
  PROVE  {DecodeTask(k, Width(r)) : k \in Mine(r)}
           = {row \in Ranks \X Tokens : row[2] < Count(row[1]) /\ Owner(row[1], row[2]) = r}
  <1> DEFINE Owned == {row \in Ranks \X Tokens : row[2] < Count(row[1]) /\ Owner(row[1], row[2]) = r}
  <1>1. ASSUME NEW k \in Mine(r)
        PROVE  DecodeTask(k, Width(r)) \in Owned
    <2>1. /\ k \div Width(r) \in Ranks /\ k % Width(r) \in 0 .. Count(k \div Width(r)) - 1
          /\ k % Width(r) \in Tokens
      BY IdIs DEF Mine
    <2>2. Count(k \div Width(r)) \in Int
      BY <2>1, Counts
    <2> QED BY <2>1, <2>2 DEF Mine, OwnerOf, DecodeTask
  <1>2. ASSUME NEW row \in Owned
        PROVE  \E k \in Mine(r) : row = DecodeTask(k, Width(r))
    <2>1. PICK q \in Ranks, t \in Tokens : row = <<q, t>> /\ t < Count(q) /\ Owner(q, t) = r
      BY <1>2
    <2>2. t \in 0 .. Count(q) - 1
      BY <2>1, Counts, Constants DEF Tokens
    <2>3. PICK k \in Ids(r) : k \div Width(r) = q /\ k % Width(r) = t
      BY <2>2, IdOf
    <2> QED BY <2>1, <2>3 DEF Mine, OwnerOf, DecodeTask
  <1> QED BY <1>1, <1>2

LEMMA AllPrepared ==
  ASSUME Shape, RowsInv, NEW r \in Ranks, \A b \in Blocks : At(r, b) >= 10,
         NEW d \in Blocks, At(r, d) <= 11
  PROVE  rows[r] = {row \in Ranks \X Tokens : row[2] < Count(row[1]) /\ Owner(row[1], row[2]) = r}
  <1>1. Prepared(r) = Mine(r)
    BY IdIs DEF Mine, Prepared
  <1>2. At(r, 0) >= 8
    BY PlaceAt, Constants
  <1> QED BY <1>1, <1>2, RowsOf DEF RowsInv

LEMMA KeepStep ==
  ASSUME StepInv, PublishInv, UniformInv, PoolInv, RowsInv, KeepInv,
         NEW r \in Ranks, NEW b \in Blocks, Step(r, b)
  PROVE  KeepInv'
  <1>1. Shape /\ LocalInv /\ 0 \in Blocks
    BY Constants DEF StepInv
  <1>2. /\ launch' = launch
        /\ \A q : Count(q)' = Count(q) /\ Width(q)' = Width(q)
        /\ \A q, t : Owner(q, t)' = Owner(q, t)
    BY <1>1, Frame, RoutesStay
  <1>3. SUFFICES ASSUME NEW o \in Ranks, \A c \in Blocks : At(o, c)' >= 10,
                        NEW q \in Ranks, launch[q] = launch[o],
                        NEW t \in 0 .. Count(q) - 1, Owner(q, t) = o
                 PROVE  <<q, t>> \in rows'[o]
    BY <1>2 DEF KeepInv
  <1>4. CASE o = r /\ Prepare(r, b)
    <2>1. RowsInv' /\ At(r, b)' = 10 /\ At(r, 0)' >= 8
      <3>1. At(r, 0)' >= 10 /\ At(r, 0)' \in 1 .. 17
        BY <1>1, <1>3, <1>4, Ahead
      <3> QED BY <1>1, <1>4, <3>1, RowsStep, Acts
    <2>2. rows'[r] = {DecodeTask(k, Width(r)) : k \in Prepared(r)'}
      BY <1>2, <2>1 DEF RowsInv, DecodeTask
    <2>3. Prepared(r)' = Mine(r)
      <3>1. \A c \in Blocks \ {b} : At(r, c) >= 10
        BY <1>1, <1>3, <1>4, Ahead
      <3>2. \A k \in Mine(r) : k % NumBlocks \in Blocks
        BY <1>1, IdIs DEF Mine
      <3> QED BY <1>1, <1>4, <3>1, <3>2, PreparedGrows DEF Prepared
    <2>4. t \in Tokens /\ t < Count(q)
      BY <1>1, <1>3, Counts
    <2> QED BY <1>1, <1>3, <1>4, <2>2, <2>3, <2>4, RowsOf
  <1>5. CASE ~ (o = r /\ Prepare(r, b))
    <2>1. \A c \in Blocks : At(o, c) >= 10
      <3> SUFFICES ASSUME NEW c \in Blocks
                   PROVE  At(o, c) >= 10
        OBVIOUS
      <3>1. At(o, c)' >= 10
        BY <1>3
      <3> QED BY <1>1, <1>5, <3>1, Ahead, MovedBy
    <2>2. rows'[o] = rows[o]
      <3>1. CASE o # r
        BY <1>1, <3>1, OthersStay
      <3>2. CASE o = r
        <4>1. ~ BuildTiles(r, b)
          BY <1>1, <2>1, <3>2, Acts
        <4> QED BY <1>1, <1>5, <3>2, <4>1, Frame
      <3> QED BY <3>1, <3>2
    <2> QED BY <1>3, <2>1, <2>2 DEF KeepInv
  <1> QED BY <1>4, <1>5

-----------------------------------------------------------------------------
(* The rows, step by step.                                                  *)

LEMMA CountingIs ==
  ASSUME Shape, NEW r \in Ranks, NEW b \in Blocks, Step(r, b)
  PROVE  /\ Claim(r, b) => Counting(r)' = Counting(r) \union {b} /\ b \notin Counting(r)
         /\ CountDone(r, b) => Counting(r)' = Counting(r) \ {b} /\ b \in Counting(r)
         /\ ~ Claim(r, b) /\ ~ CountDone(r, b) => Counting(r)' = Counting(r)
         /\ \A q \in Ranks \ {r} : Counting(q)' = Counting(q)
  <1>1. /\ \A q \in Ranks \ {r} : pc'[q] = pc[q]
        /\ \A c \in Blocks \ {b} : pc'[r][c] = pc[r][c]
    BY OthersStay
  <1>2. \A q \in Ranks \ {r} : Counting(q)' = Counting(q)
    BY <1>1 DEF Counting
  <1>3. Claim(r, b) => pc[r][b] = "work" /\ pc'[r][b] = "count"
    BY Goes DEF Claim, Places
  <1>4. CountDone(r, b) => pc[r][b] = "count" /\ pc'[r][b] = "sync"
    BY Goes DEF CountDone, Places
  <1>5. ~ Claim(r, b) /\ ~ CountDone(r, b) => (pc'[r][b] = "count" <=> pc[r][b] = "count")
    <2>1. Sync(r, b) => pc[r][b] = "sync" /\ pc'[r][b] = "work"
      BY Goes DEF Sync, Places
    <2>2. Store(r, b) \/ (b = 0 /\ EnterRank(r)) => pc' = pc
      BY DEF Store, EnterRank
    <2>3. ASSUME Advance(r, b), pc[r][b] \notin {"count", "sync", "done"}
          PROVE  pc'[r][b] # "count" /\ pc[r][b] # "count"
      BY <2>3, Advances
    <2>4. Publish(r, b) \/ Check(r, b) \/ Route(r, b) \/ BuildTiles(r, b) \/ Prepare(r, b)
            => Advance(r, b) /\ pc[r][b] \notin {"count", "sync", "done"}
      BY DEF Publish, Check, Route, BuildTiles, Prepare
    <2>5. PassLocal(r, b) \/ ExitLoop(r, b) \/ Reduce(r, b) \/ (b = 0 /\ LeaveRank(r))
            => Advance(r, b) /\ pc[r][b] \notin {"count", "sync", "done"}
      BY DEF PassLocal, ExitLoop, Reduce, LeaveRank, LocalBarriers, RankBarriers
    <2> QED BY <2>1, <2>2, <2>3, <2>4, <2>5 DEF Step, Block
  <1>6. Claim(r, b) => Counting(r)' = Counting(r) \union {b} /\ b \notin Counting(r)
    BY <1>1, <1>3 DEF Counting
  <1>7. CountDone(r, b) => Counting(r)' = Counting(r) \ {b} /\ b \in Counting(r)
    BY <1>1, <1>4 DEF Counting
  <1>8. ~ Claim(r, b) /\ ~ CountDone(r, b) => Counting(r)' = Counting(r)
    BY <1>1, <1>5 DEF Counting
  <1> QED BY <1>2, <1>6, <1>7, <1>8

LEMMA Finite ==
  ASSUME Shape, NEW r \in Ranks
  PROVE  /\ IsFiniteSet(pending[r]) /\ IsFiniteSet(rows[r]) /\ IsFiniteSet(Counting(r))
         /\ Cardinality(pending[r]) \in Nat /\ Cardinality(rows[r]) \in Nat
         /\ Cardinality(Counting(r)) \in Nat /\ L2Done[r] \in Nat
         /\ Cardinality(rows[r]) <= Cardinality(Rows)
  <1>1. pending[r] \subseteq Rows /\ rows[r] \subseteq Rows /\ Counting(r) \subseteq Blocks
    BY DEF Shape, Counting
  <1>2. IsFiniteSet(Rows) /\ IsFiniteSet(Blocks)
    BY Constants
  <1>3. /\ IsFiniteSet(rows[r]) /\ Cardinality(rows[r]) \in Nat
        /\ Cardinality(rows[r]) <= Cardinality(Rows)
    BY <1>1, <1>2, FS_Subset, FS_CardinalityType
  <1>4. /\ IsFiniteSet(pending[r]) /\ Cardinality(pending[r]) \in Nat
        /\ IsFiniteSet(Counting(r)) /\ Cardinality(Counting(r)) \in Nat
    BY <1>1, <1>2, FS_Subset, FS_CardinalityType
  <1>5. L2Done[r] \in Nat
    BY Constants DEF Shape
  <1> QED BY <1>3, <1>4, <1>5

LEMMA CountStep ==
  ASSUME StepInv, PublishInv, UniformInv, PoolInv, CountInv,
         NEW r \in Ranks, NEW b \in Blocks, Step(r, b)
  PROVE  CountInv'
  <1>1. Shape /\ LocalInv /\ 0 \in Blocks
    BY Constants DEF StepInv
  <1>2. ASSUME NEW q \in Ranks \ {r}
        PROVE  /\ At(q, 0)' >= 8 /\ (\A c \in Blocks : At(q, c)' <= 10) => pending'[q] = rows'[q]
               /\ At(q, 0)' >= 10 =>
                    Cardinality(pending'[q]) + L2Done'[q] + Cardinality(Counting(q)')
                      = Cardinality(rows'[q])
    <2>1. /\ pending'[q] = pending[q] /\ rows'[q] = rows[q] /\ L2Done'[q] = L2Done[q]
          /\ Counting(q)' = Counting(q) /\ \A c \in Blocks : At(q, c)' = At(q, c)
      BY <1>1, OthersStay, CountingIs, Ahead
    <2> QED BY <1>1, <2>1 DEF CountInv
  <1>3. ASSUME At(r, 0)' >= 8, \A c \in Blocks : At(r, c)' <= 10
        PROVE  pending'[r] = rows'[r]
    <2>1. CASE BuildTiles(r, b) /\ b = 0
      <3>1. rows \in [Ranks -> SUBSET Rows] /\ pending \in [Ranks -> SUBSET Rows]
        BY <1>1 DEF Shape
      <3>2. rows' = [rows EXCEPT ![r] = {}] /\ pending' = [pending EXCEPT ![r] = {}]
        BY <2>1 DEF BuildTiles
      <3> QED BY <3>1, <3>2
    <2>2. CASE ~ (BuildTiles(r, b) /\ b = 0)
      <3>1. At(r, 0) >= 8
        <4>1. At(r, 0) \in 1 .. 16 /\ (At(r, 0)' = At(r, 0) \/ (0 = b /\ At(r, 0)' = NextAt(0, At(r, 0))))
          BY <1>1, Ahead
        <4>2. At(r, 0)' # At(r, 0) => At(r, 0) # 7
          BY <1>1, <2>2, <4>1, MovedBy
        <4> QED BY <1>3, <4>1, <4>2 DEF NextAt
      <3>2. \A c \in Blocks : At(r, c) <= 10
        BY <1>1, <1>3, Ahead
      <3>3. pending[r] = rows[r]
        BY <3>1, <3>2 DEF CountInv
      <3>4. CASE Prepare(r, b)
        BY <1>1, <3>3, <3>4 DEF Prepare, Shape
      <3>5. CASE Claim(r, b)
        BY <1>1, <1>3, <3>5, Acts
      <3>6. CASE pending' = pending /\ rows' = rows
        BY <3>3, <3>6
      <3> QED BY <1>1, <2>2, <3>4, <3>5, <3>6, Frame DEF BuildTiles
    <2> QED BY <2>1, <2>2
  <1>4. ASSUME At(r, 0)' >= 10
        PROVE  Cardinality(pending'[r]) + L2Done'[r] + Cardinality(Counting(r)')
                 = Cardinality(rows'[r])
    <2>1. At(r, 0)' \in 1 .. 17 /\ At(r, 0) \in 1 .. 16
          /\ (At(r, 0)' = At(r, 0) \/ (0 = b /\ At(r, 0)' = NextAt(0, At(r, 0))))
      BY <1>1, Ahead
    <2>2. PICK p \in Nat, l \in Nat, c \in Nat, n \in Nat :
            /\ p = Cardinality(pending[r]) /\ l = L2Done[r]
            /\ c = Cardinality(Counting(r)) /\ n = Cardinality(rows[r])
      BY <1>1, Finite
    <2>3. ASSUME At(r, 0) >= 10
          PROVE  p + l + c = n
      BY <2>2, <2>3 DEF CountInv
    <2>4. CASE Prepare(r, b)
      <3>1. At(r, b) = 9 /\ At(r, b)' = 10 /\ Counting(r)' = Counting(r)
        BY <1>1, <2>4, Acts, CountingIs DEF Prepare, Claim, CountDone
      <3>2. \A d \in Blocks : At(r, d) <= 10
        BY <1>1, <3>1, PlaceAt DEF LocalInv, LocalStages
      <3>3. \A d \in Blocks : At(r, d)' <= 10
        BY <1>1, <3>1, <3>2, Ahead
      <3>4. At(r, 0)' >= 8
        BY <1>4, <2>1
      <3>5. pending'[r] = rows'[r]
        BY <1>3, <3>3, <3>4
      <3>6. Counting(r) = {} /\ Cardinality(Counting(r)') = 0
        <4>1. Counting(r) = {}
          BY <1>1, <3>2, PlaceAt DEF Counting
        <4> QED BY <3>1, <4>1, FS_EmptySet
      <3>7. L2Done'[r] = 0
        <4>1. CASE b = 0
          BY <1>1, <2>4, <4>1 DEF Prepare, Shape
        <4>2. CASE b # 0
          <5>1. At(r, 0) >= 10
            BY <1>4, <2>1, <4>2
          <5>2. pending[r] = rows[r]
            <6>1. At(r, 0) >= 8
              BY <2>1, <5>1
            <6> QED BY <3>2, <6>1 DEF CountInv
          <5>3. p = n /\ p + l + c = n
            BY <2>2, <2>3, <5>1, <5>2
          <5>4. L2Done' = L2Done
            BY <2>4, <4>2 DEF Prepare
          <5> QED BY <2>2, <5>3, <5>4
        <4> QED BY <4>1, <4>2
      <3>8. Cardinality(rows'[r]) \in Nat
        <4>1. rows'[r] = rows[r] \union {DecodeTask(task, Stride(r, b)) : task \in Share(b, pool[r])}
          BY <1>1, <2>4 DEF Prepare, Shape
        <4>2. rows[r] \subseteq Rows
          BY <1>1 DEF Shape
        <4>3. {DecodeTask(task, Stride(r, b)) : task \in Share(b, pool[r])} \subseteq Rows
          BY <3>1, PrepareShare
        <4>4. rows'[r] \subseteq Rows
          BY <4>1, <4>2, <4>3
        <4> QED BY <4>4, Constants, FS_Subset, FS_CardinalityType
      <3> QED BY <3>5, <3>6, <3>7, <3>8
    <2>5. CASE ~ Prepare(r, b)
      <3>1. At(r, 0) >= 10
        <4>1. At(r, 0)' # At(r, 0) => At(r, 0) # 9
          BY <1>1, <2>1, <2>5, MovedBy
        <4> QED BY <1>4, <2>1, <4>1 DEF NextAt
      <3>2. p + l + c = n
        BY <2>3, <3>1
      <3>3. rows'[r] = rows[r]
        <4>1. ~ BuildTiles(r, b)
          <5>1. At(r, b) >= 8
            BY <1>1, <2>1, <3>1 DEF LocalInv, LocalStages
          <5> QED BY <1>1, <5>1, Acts
        <4> QED BY <1>1, <2>5, <4>1, Frame
      <3>4. CASE Claim(r, b)
        <4>1. PICK row \in pending[r] : pending'[r] = pending[r] \ {row}
          BY <1>1, <3>4 DEF Claim, Shape
        <4>2. L2Done' = L2Done /\ Counting(r)' = Counting(r) \union {b} /\ b \notin Counting(r)
          BY <1>1, <3>4, CountingIs DEF Claim
        <4>3. Cardinality(pending'[r]) = p - 1
          BY ZenonT(60), <1>1, <2>2, <4>1, Finite, FS_RemoveElement
        <4>4. Cardinality(Counting(r)') = c + 1
          BY <1>1, <2>2, <4>2, Finite, FS_AddElement
        <4> QED BY <2>2, <3>2, <3>3, <4>2, <4>3, <4>4
      <3>5. CASE CountDone(r, b)
        <4>1. L2Done'[r] = l + 1 /\ pending' = pending
          BY <1>1, <2>2, <3>5 DEF CountDone, Shape
        <4>2. Counting(r)' = Counting(r) \ {b} /\ b \in Counting(r)
          BY <1>1, <3>5, CountingIs
        <4>3. Cardinality(Counting(r)') = c - 1
          BY ZenonT(60), <1>1, <2>2, <4>2, Finite, FS_RemoveElement
        <4> QED BY <2>2, <3>2, <3>3, <4>1, <4>3
      <3>6. CASE ~ Claim(r, b) /\ ~ CountDone(r, b)
        <4>1. ~ BuildTiles(r, b)
          <5>1. At(r, b) >= 8
            BY <1>1, <2>1, <3>1 DEF LocalInv, LocalStages
          <5> QED BY <1>1, <5>1, Acts
        <4>2. pending' = pending /\ L2Done' = L2Done /\ Counting(r)' = Counting(r)
          BY <1>1, <2>5, <3>6, <4>1, Frame, CountingIs
        <4> QED BY <2>2, <3>2, <3>3, <4>2
      <3> QED BY <3>4, <3>5, <3>6
    <2> QED BY <2>4, <2>5
  <1> QED BY <1>2, <1>3, <1>4 DEF CountInv

LEMMA StoringStep ==
  ASSUME StepInv, StoringInv, NEW r \in Ranks, NEW b \in Blocks, Step(r, b)
  PROVE  StoringInv'
  <1>1. Shape /\ LocalInv /\ 0 \in Blocks
    BY Constants DEF StepInv
  <1>2. SUFFICES ASSUME NEW q \in Ranks, NEW c \in Blocks, storing'[q][c] # None
                 PROVE  pc'[q][c] \in {"count", "sync"} /\ storing'[q][c] \in rows'[q]
    BY DEF StoringInv, None
  <1>3. ASSUME storing[q][c] # None
        PROVE  pc[q][c] \in {"count", "sync"} /\ storing[q][c] \in rows[q] /\ At(q, c) = 11
    BY <1>1, <1>3, PlaceAt DEF StoringInv
  <1>4. ASSUME storing[q][c] # None
        PROVE  storing[q][c] \in rows'[q]
    <2>1. CASE q # r
      BY <1>1, <1>3, <1>4, <2>1, OthersStay
    <2>2. CASE q = r
      <3>1. ~ BuildTiles(r, b)
        <4>1. At(r, b) >= 10
          BY <1>1, <1>3, <1>4, <2>2 DEF LocalInv, LocalStages
        <4> QED BY <1>1, <4>1, Acts
      <3>2. Prepare(r, b) => rows'[r] = rows[r] \union {DecodeTask(task, Stride(r, b)) : task \in Share(b, pool[r])}
        BY <1>1 DEF Prepare, Shape
      <3> QED BY <1>1, <1>3, <1>4, <2>2, <3>1, <3>2, Frame
    <2> QED BY <2>1, <2>2
  <1>5. CASE q # r \/ c # b
    <2>1. storing'[q][c] = storing[q][c] /\ pc'[q][c] = pc[q][c]
      BY <1>1, <1>5, OthersStay
    <2> QED BY <1>2, <1>3, <1>4, <2>1
  <1>6. CASE q = r /\ c = b
    <2>1. CASE Claim(r, b)
      <3>1. pc'[r][b] = "count"
        BY <1>1, <2>1, Goes DEF Claim, Places
      <3>2. storing'[r][b] \in pending[r] /\ rows' = rows
        BY <1>1, <2>1 DEF Claim, Shape
      <3> QED BY <1>1, <1>6, <3>1, <3>2 DEF Shape
    <2>2. CASE Store(r, b)
      BY <1>1, <1>2, <1>6, <2>2 DEF Store, Shape
    <2>3. CASE storing' = storing
      <3>1. pc[r][b] \in {"count", "sync"} /\ storing[r][b] # None
        BY <1>2, <1>3, <1>6, <2>3
      <3>2. pc'[r][b] \in {"count", "sync"}
        <4>1. CountDone(r, b) => pc'[r][b] = "sync"
          BY <1>1, Goes DEF CountDone, Places
        <4>2. Store(r, b) \/ (b = 0 /\ EnterRank(r)) => pc' = pc
          BY DEF Store, EnterRank
        <4>3. ~ Sync(r, b) /\ ~ Claim(r, b)
          BY <3>1 DEF Sync, Claim
        <4>4. ~ (Publish(r, b) \/ Check(r, b) \/ Route(r, b) \/ BuildTiles(r, b) \/ Prepare(r, b))
          BY <3>1 DEF Publish, Check, Route, BuildTiles, Prepare
        <4>5. ~ (PassLocal(r, b) \/ ExitLoop(r, b) \/ Reduce(r, b) \/ (b = 0 /\ LeaveRank(r)))
          BY <3>1 DEF PassLocal, ExitLoop, Reduce, LeaveRank, LocalBarriers, RankBarriers
        <4> QED BY <3>1, <4>1, <4>2, <4>3, <4>4, <4>5 DEF Step, Block
      <3> QED BY <1>4, <1>6, <2>3, <3>1, <3>2
    <2> QED BY <1>1, <2>1, <2>2, <2>3, Frame
  <1> QED BY <1>5, <1>6

LEMMA ExitStep ==
  ASSUME StepInv, CountInv, ExitInv, NEW r \in Ranks, NEW b \in Blocks, Step(r, b)
  PROVE  ExitInv'
  <1>1. Shape /\ LocalInv /\ 0 \in Blocks
    BY Constants DEF StepInv
  <1>2. SUFFICES ASSUME NEW q \in Ranks, NEW c \in Blocks, At(q, c)' >= 12
                 PROVE  pending'[q] = {}
    BY DEF ExitInv
  <1>3. CASE q # r
    BY <1>1, <1>2, <1>3, OthersStay, Ahead DEF ExitInv
  <1>4. CASE q = r /\ At(r, c) >= 12
    <2>1. pending[r] = {}
      BY <1>4 DEF ExitInv
    <2>2. At(r, b) >= 10
      BY <1>1, <1>4, PlaceAt DEF LocalInv, LocalStages
    <2>3. ~ BuildTiles(r, b) /\ ~ Prepare(r, b)
      BY <1>1, <2>2, Acts
    <2>4. ~ Claim(r, b)
      BY <2>1 DEF Claim
    <2> QED BY <1>1, <1>4, <2>1, <2>3, <2>4, Frame
  <1>5. CASE q = r /\ ~ (At(r, c) >= 12)
    <2>1. c = b /\ At(r, b) = 11 /\ ExitLoop(r, b)
      <3>1. At(r, c) \in 1 .. 16 /\ At(r, c)' >= 12 /\ c = b /\ At(r, c)' = NextAt(c, At(r, c))
        BY <1>1, <1>2, <1>5, Ahead
      <3>2. At(r, c) = 11
        BY <1>5, <3>1 DEF NextAt
      <3> QED BY <1>1, <1>5, <3>1, <3>2, MovedBy
    <2>2. At(r, 0) >= 10
      BY <1>1, <2>1 DEF LocalInv, LocalStages
    <2>3. PICK p \in Nat, l \in Nat, k \in Nat, n \in Nat :
            /\ p = Cardinality(pending[r]) /\ l = L2Done[r]
            /\ k = Cardinality(Counting(r)) /\ n = Cardinality(rows[r])
      BY <1>1, Finite
    <2>4. l >= n /\ p + l + k = n /\ pending' = pending
      BY <2>1, <2>2, <2>3 DEF ExitLoop, CountInv, scratch
    <2>5. Cardinality(pending[r]) = 0
      BY <2>3, <2>4
    <2> QED BY <1>1, <1>5, <2>4, <2>5, Finite, FS_EmptySet
  <1> QED BY <1>3, <1>4, <1>5

(* What Route writes to the combine rows of invalid routes.                 *)
LEMMA RouteWrites ==
  ASSUME StepInv, PublishInv, UniformInv, NEW r \in Ranks, NEW b \in Blocks, Step(r, b), Route(r, b),
         NEW k \in Ids(r), OwnerOf(r, k) = Invalid, k % NumBlocks = b,
         NEW q \in Ranks, NEW t \in Tokens, q = k \div Width(r), t = k % Width(r)
  PROVE  Fresh(q, t)'
  <1>1. Shape /\ At(r, b) = 5
    BY Acts DEF StepInv
  <1>2. /\ Stride(r, b) = Width(r) /\ RouteTasks(r, b) = Share(b, Ids(r))
        /\ TaskOwner(r, b, k) = Invalid
    BY <1>1, RouteShare
  <1>3. k \in {i \in RouteTasks(r, b) : TaskOwner(r, b, i) = Invalid}
    BY <1>2 DEF Share
  <1>4. <<q, t>>
          \in {DecodeTask(task, Stride(r, b)) :
                 task \in {i \in RouteTasks(r, b) : TaskOwner(r, b, i) = Invalid}}
    BY <1>2, <1>3 DEF DecodeTask
  <1>5. combine'[q][t] = launch[r]
    BY <1>4 DEF Route
  <1>6. launch[q] = launch[r] /\ launch' = launch
    BY <1>1, Together, Frame DEF Reading
  <1> QED BY <1>5, <1>6 DEF Fresh

LEMMA InvalidStep ==
  ASSUME StepInv, PublishInv, UniformInv, StoringInv, InvalidInv,
         NEW r \in Ranks, NEW b \in Blocks, Step(r, b)
  PROVE  InvalidInv'
  <1>1. Shape /\ LocalInv /\ 0 \in Blocks
    BY Constants DEF StepInv
  <1>2. /\ \A q : Count(q)' = Count(q) /\ Width(q)' = Width(q) /\ Ids(q)' = Ids(q)
        /\ \A q, t : Owner(q, t)' = Owner(q, t)
        /\ \A q, k : OwnerOf(q, k)' = OwnerOf(q, k)
    BY <1>1, Frame, RoutesStay
  <1>3. ASSUME NEW q \in Ranks, Reading(q)', NEW k \in Ids(q), OwnerOf(q, k) = Invalid,
               At(q, k % NumBlocks)' >= 6,
               NEW p \in Ranks, NEW t \in Tokens, p = k \div Width(q), t = k % Width(q)
        PROVE  Fresh(p, t)'
    <2>1. k % NumBlocks \in Blocks
      BY <1>1, <1>3, IdIs
    <2>2. CASE At(q, k % NumBlocks) >= 6
      <3>1. Reading(q)
        <4>1. At(q, k % NumBlocks) \in 1 .. 16
          BY <1>1, <2>1, PlaceAt
        <4>2. CASE At(q, k % NumBlocks) = 6
          BY <2>1, <4>2 DEF Reading
        <4>3. CASE At(q, k % NumBlocks) > 6
          <5>1. PICK d \in Blocks : At(q, d)' \in 4 .. 11
            BY <1>3 DEF Reading
          <5>2. At(q, d) \in 4 .. 11 \/ At(q, d) = 3
            BY <1>1, <5>1, Ahead
          <5>3. At(q, d) >= 6
            BY <1>1, <2>1, <4>3 DEF LocalInv, LocalStages
          <5> QED BY <5>2, <5>3 DEF Reading
        <4> QED BY <2>2, <4>1, <4>2, <4>3
      <3>2. Fresh(p, t)
        BY <1>3, <2>2, <3>1 DEF InvalidInv
      <3> QED BY <3>2, CombineStays
    <2>3. CASE ~ (At(q, k % NumBlocks) >= 6)
      <3>1. q = r /\ k % NumBlocks = b /\ At(r, b) = 5 /\ At(r, b)' # At(r, b)
        <4>1. PICK s \in 1 .. 16, n \in 1 .. 17 :
                /\ s = At(q, k % NumBlocks) /\ n = At(q, k % NumBlocks)'
                /\ n = s \/ (q = r /\ k % NumBlocks = b)
                /\ n = s \/ n = s + 1 \/ (s \in {1, 11, 14} /\ n = s + 2)
          BY <1>1, <2>1, Ahead
        <4>2. s = 5 /\ n = 6
          BY <1>3, <2>3, <4>1
        <4> QED BY <4>1, <4>2
      <3>2. Route(r, b)
        BY <1>1, <3>1, MovedBy
      <3> QED BY <1>3, <3>1, <3>2, RouteWrites
    <2> QED BY <2>2, <2>3
  <1>4. ASSUME NEW q \in Ranks, \A c \in Blocks : At(q, c)' >= 6,
               NEW t \in 0 .. Count(q) - 1, Owner(q, t) = Invalid
        PROVE  Fresh(q, t)'
    <2>1. t \in Tokens
      BY <1>1, <1>4, Counts
    <2>2. CASE \A c \in Blocks : At(q, c) >= 6
      <3>1. Fresh(q, t)
        BY <1>4, <2>2 DEF InvalidInv
      <3> QED BY <2>1, <3>1, CombineStays
    <2>3. CASE ~ \A c \in Blocks : At(q, c) >= 6
      <3>1. PICK c \in Blocks : ~ (At(q, c) >= 6)
        BY <2>3
      <3>2. At(q, c)' \in 6 .. 11
        <4>1. PICK s \in 1 .. 16, n \in 1 .. 17 :
                /\ s = At(q, c) /\ n = At(q, c)'
                /\ n = s \/ n = s + 1 \/ (s \in {1, 11, 14} /\ n = s + 2)
          BY <1>1, Ahead
        <4>2. n >= 6 /\ ~ (s >= 6)
          BY <1>4, <3>1, <4>1
        <4> QED BY <4>1, <4>2
      <3>3. Reading(q)'
        BY <3>2 DEF Reading
      <3>4. PICK k \in Ids(q) : k \div Width(q) = q /\ k % Width(q) = t
        BY <1>1, <1>4, IdOf
      <3>5. k % NumBlocks \in Blocks /\ OwnerOf(q, k) = Invalid
        BY <1>1, <1>4, <3>4, IdIs DEF OwnerOf
      <3> QED BY <1>3, <1>4, <2>1, <3>3, <3>4, <3>5
    <2> QED BY <2>2, <2>3
  <1>5. ASSUME NEW q \in Ranks, Reading(q)', NEW k \in Ids(q)', OwnerOf(q, k)' = Invalid,
               At(q, k % NumBlocks)' >= 6
        PROVE  Fresh(k \div Width(q), k % Width(q))'
    <2>1. k \in Ids(q) /\ OwnerOf(q, k) = Invalid
      BY <1>2, <1>5
    <2>2. PICK p \in Ranks, t \in Tokens : p = k \div Width(q) /\ t = k % Width(q)
      BY <1>1, <2>1, IdIs
    <2>3. Fresh(p, t)'
      BY <1>3, <1>5, <2>1, <2>2
    <2> QED BY <1>2, <2>2, <2>3 DEF Fresh
  <1> QED BY <1>2, <1>4, <1>5 DEF InvalidInv

LEMMA FreshStep ==
  ASSUME StepInv, StoringInv, FreshInv, NEW r \in Ranks, NEW b \in Blocks, Step(r, b)
  PROVE  FreshInv'
  <1>1. Shape /\ LocalInv /\ 0 \in Blocks
    BY Constants DEF StepInv
  <1>2. /\ launch' = launch /\ \A q : Count(q)' = Count(q)
        /\ \A q, t : Owner(q, t)' = Owner(q, t)
    BY <1>1, Frame, RoutesStay
  <1>3. SUFFICES ASSUME NEW q \in Ranks, NEW o \in Ranks, NEW t \in 0 .. Count(q) - 1, Owner(q, t) = o
                 PROVE  /\ launch[o] = launch[q] /\ At(o, 0)' >= 8 /\ <<q, t>> \in rows'[o] \ pending'[o] =>
                             Fresh(q, t)' \/ \E c \in Blocks : storing'[o][c] = <<q, t>>
                        /\ launch[o] = launch[q] + 1 => Fresh(q, t)'
    BY <1>2 DEF FreshInv
  <1>4. t \in Tokens
    BY <1>1, Counts
  <1>5. ASSUME launch[o] = launch[q] + 1
        PROVE  Fresh(q, t)'
    <2>1. Fresh(q, t)
      BY <1>3, <1>5 DEF FreshInv
    <2> QED BY <1>4, <2>1, CombineStays
  <1>6. ASSUME launch[o] = launch[q], At(o, 0)' >= 8, <<q, t>> \in rows'[o] \ pending'[o]
        PROVE  Fresh(q, t)' \/ \E c \in Blocks : storing'[o][c] = <<q, t>>
    <2>1. ASSUME At(o, 0) >= 8, <<q, t>> \in rows[o] \ pending[o]
          PROVE  Fresh(q, t)' \/ \E c \in Blocks : storing[o][c] = <<q, t>>
      <3>1. Fresh(q, t) \/ \E c \in Blocks : storing[o][c] = <<q, t>>
        BY <1>3, <1>6, <2>1 DEF FreshInv
      <3> QED BY <1>4, <3>1, CombineStays
    <2>2. CASE o # r
      <3>1. /\ rows'[o] = rows[o] /\ pending'[o] = pending[o] /\ storing'[o] = storing[o]
            /\ At(o, 0)' = At(o, 0)
        BY <1>1, <2>2, OthersStay, Ahead
      <3> QED BY <1>6, <2>1, <3>1
    <2>3. CASE o = r
      <3>1. ~ (BuildTiles(r, b) /\ b = 0)
        <4>1. BuildTiles(r, b) /\ b = 0 => rows'[r] = {}
          BY <1>1 DEF BuildTiles, Shape
        <4> QED BY <1>6, <2>3, <4>1
      <3>2. At(r, 0) >= 8
        <4>1. At(r, 0) \in 1 .. 16 /\ (At(r, 0)' = At(r, 0) \/ (0 = b /\ At(r, 0)' = NextAt(0, At(r, 0))))
          BY <1>1, Ahead
        <4>2. At(r, 0)' # At(r, 0) => At(r, 0) # 7
          BY <1>1, <3>1, <4>1, MovedBy
        <4> QED BY <1>6, <2>3, <4>1, <4>2 DEF NextAt
      <3>3. CASE Claim(r, b)
        <4>1. PICK row \in pending[r] :
                /\ pending'[r] = pending[r] \ {row} /\ storing'[r][b] = row /\ rows' = rows
          BY <1>1, <3>3 DEF Claim, Shape
        <4>2. CASE row = <<q, t>>
          BY <2>3, <4>1, <4>2
        <4>3. CASE row # <<q, t>>
          <5>1. Fresh(q, t)' \/ \E c \in Blocks : storing[o][c] = <<q, t>>
            BY <1>6, <2>1, <2>3, <3>2, <4>1, <4>3
          <5>2. storing[r][b] = None /\ <<q, t>> # None
            BY <3>3 DEF Claim, StoringInv, None
          <5>3. \A c \in Blocks \ {b} : storing'[r][c] = storing[r][c]
            BY <1>1, OthersStay
          <5> QED BY <2>3, <5>1, <5>2, <5>3
        <4> QED BY <4>2, <4>3
      <3>4. CASE Store(r, b)
        <4>1. rows' = rows /\ pending' = pending
          BY <3>4 DEF Store, scratch
        <4>2. Fresh(q, t)' \/ \E c \in Blocks : storing[o][c] = <<q, t>>
          BY <1>6, <2>1, <2>3, <3>2, <4>1
        <4>3. ASSUME NEW c \in Blocks, storing[r][c] = <<q, t>>
              PROVE  Fresh(q, t)' \/ storing'[r][c] = <<q, t>>
          <5>1. CASE c # b
            BY <1>1, <4>3, <5>1, OthersStay
          <5>2. CASE c = b
            <6> DEFINE row == storing[r][b]
            <6>1. row[1] = q /\ row[2] = t
              BY <4>3, <5>2
            <6>2. combine' = [combine EXCEPT ![row[1]][row[2]] = launch[r]]
              BY <3>4 DEF Store
            <6> HIDE DEF row
            <6>3. combine'[q][t] = launch[r]
              BY <1>1, <1>4, <6>1, <6>2 DEF Shape
            <6> QED BY <1>2, <1>6, <2>3, <6>3 DEF Fresh
          <5> QED BY <5>1, <5>2
        <4> QED BY <2>3, <4>2, <4>3
      <3>5. CASE Prepare(r, b)
        <4> DEFINE mine == {DecodeTask(task, Stride(r, b)) : task \in Share(b, pool[r])}
        <4>1. rows'[r] = rows[r] \union mine /\ pending'[r] = pending[r] \union mine
          BY <1>1, <3>5 DEF Prepare, Shape
        <4>2. storing' = storing
          BY <3>5 DEF Prepare, blocks
        <4> HIDE DEF mine
        <4>3. <<q, t>> \in rows[r] \ pending[r]
          BY <1>6, <2>3, <4>1
        <4> QED BY <2>1, <2>3, <3>2, <4>2, <4>3
      <3>6. CASE rows' = rows /\ pending' = pending /\ storing' = storing
        BY <1>6, <2>1, <2>3, <3>2, <3>6
      <3>7. BuildTiles(r, b) => rows' = rows /\ pending' = pending /\ storing' = storing
        BY <3>1 DEF BuildTiles, blocks
      <3> QED BY <1>1, <3>3, <3>4, <3>5, <3>6, <3>7, Frame
    <2> QED BY <2>2, <2>3
  <1> QED BY <1>5, <1>6

LEMMA ShapeStep ==
  ASSUME StepInv, PublishInv, UniformInv, PoolInv, CountInv,
         NEW r \in Ranks, NEW b \in Blocks, Step(r, b)
  PROVE  Shape'
  <1>1. Shape /\ 0 \in Blocks
    BY Constants DEF StepInv
  <1>2. launch' = launch /\ routes' = routes /\ pc' \in [Ranks -> [Blocks -> Places]]
    BY <1>1, Frame, Moves DEF Moved
  <1>3. entered' \in [Ranks -> Nat] /\ left' \in [Ranks -> Nat]
    <2>1. UNCHANGED <<entered, left>> \/ EnterRank(r) \/ LeaveRank(r)
      BY DEF Step, Block, Store, PassLocal, Publish, Check, Route, BuildTiles, Prepare, Claim,
             CountDone, Sync, ExitLoop, Reduce
    <2>2. EnterRank(r) => entered' = [entered EXCEPT ![r] = @ + 1] /\ left' = left
      BY DEF EnterRank, RankBarrier!Enter
    <2>3. LeaveRank(r) => left' = [left EXCEPT ![r] = @ + 1] /\ entered' = entered
      BY DEF LeaveRank, RankBarrier!Leave
    <2>4. entered \in [Ranks -> Nat] /\ left \in [Ranks -> Nat]
      BY <1>1 DEF Shape
    <2> QED BY <2>1, <2>2, <2>3, <2>4
  <1>4. num_tokens' \in [Ranks -> [n : 0 .. MaxLaunches, count : 0 .. MaxTokens]]
    <2>1. /\ num_tokens \in [Ranks -> [n : 0 .. MaxLaunches, count : 0 .. MaxTokens]]
          /\ launch[r] \in 0 .. MaxLaunches /\ Count(r) \in 0 .. MaxTokens
      BY <1>1, Counts DEF Shape
    <2>2. Publish(r, b) => \/ num_tokens' = num_tokens
                           \/ num_tokens' = [num_tokens EXCEPT ![r] = [n |-> launch[r], count |-> Count(r)]]
      BY DEF Publish
    <2> QED BY <1>1, <2>1, <2>2, Frame
  <1>5. combine' \in [Ranks -> [Tokens -> 0 .. MaxLaunches]]
    <2>1. combine \in [Ranks -> [Tokens -> 0 .. MaxLaunches]] /\ launch[r] \in 0 .. MaxLaunches
      BY <1>1 DEF Shape
    <2>2. CASE Route(r, b)
      BY <2>1, <2>2 DEF Route
    <2>3. CASE Store(r, b)
      <3> DEFINE row == storing[r][b]
      <3>1. row[1] \in Ranks
        BY <1>1, <2>3 DEF Store, Shape, Rows
      <3>2. combine' = [combine EXCEPT ![row[1]][row[2]] = launch[r]]
        BY <2>3 DEF Store
      <3> HIDE DEF row
      <3> QED BY <2>1, <3>1, <3>2
    <2> QED BY <1>1, <2>1, <2>2, <2>3, Frame
  <1>6. pool' \in [Ranks -> SUBSET (0 .. NumRanks * MaxTokens - 1)]
    <2>1. pool \in [Ranks -> SUBSET (0 .. NumRanks * MaxTokens - 1)]
      BY <1>1 DEF Shape
    <2>2. Publish(r, b) => pool' = pool \/ pool' = [pool EXCEPT ![r] = {}]
      BY DEF Publish
    <2>3. CASE Route(r, b)
      <3> DEFINE mine == {task \in RouteTasks(r, b) : TaskOwner(r, b, task) = r}
      <3>1. At(r, b) = 5
        BY <1>1, <2>3, Acts
      <3>2. \A k \in mine : k \in Ids(r)
        BY <3>1, RouteShare DEF Share
      <3>3. mine \subseteq 0 .. NumRanks * MaxTokens - 1
        BY <1>1, <3>2, IdIs
      <3>4. pool' = [pool EXCEPT ![r] = @ \union mine]
        BY <2>3 DEF Route
      <3> HIDE DEF mine
      <3> QED BY <2>1, <3>3, <3>4
    <2> QED BY <1>1, <2>1, <2>2, <2>3, Frame
  <1>7. /\ rows' \in [Ranks -> SUBSET Rows] /\ pending' \in [Ranks -> SUBSET Rows]
        /\ \A q \in Ranks : pending'[q] \subseteq rows'[q]
    <2>1. /\ rows \in [Ranks -> SUBSET Rows] /\ pending \in [Ranks -> SUBSET Rows]
          /\ \A q \in Ranks : pending[q] \subseteq rows[q]
      BY <1>1 DEF Shape
    <2>2. CASE BuildTiles(r, b)
      <3>1. \/ rows' = rows /\ pending' = pending
            \/ rows' = [rows EXCEPT ![r] = {}] /\ pending' = [pending EXCEPT ![r] = {}]
        BY <2>2 DEF BuildTiles
      <3> QED BY <2>1, <3>1
    <2>3. CASE Prepare(r, b)
      <3> DEFINE mine == {DecodeTask(task, Stride(r, b)) : task \in Share(b, pool[r])}
      <3>1. At(r, b) = 9
        BY <1>1, <2>3, Acts
      <3>2. mine \subseteq Rows
        BY <3>1, PrepareShare
      <3>3. /\ rows' = [rows EXCEPT ![r] = @ \union mine]
            /\ pending' = [pending EXCEPT ![r] = @ \union mine]
        BY <2>3 DEF Prepare
      <3> HIDE DEF mine
      <3> QED BY <2>1, <3>2, <3>3
    <2>4. CASE Claim(r, b)
      <3>1. PICK row \in pending[r] : pending' = [pending EXCEPT ![r] = @ \ {row}] /\ rows' = rows
        BY <2>4 DEF Claim
      <3> QED BY <2>1, <3>1
    <2> QED BY <1>1, <2>1, <2>2, <2>3, <2>4, Frame
  <1>8. L2Done' \in [Ranks -> 0 .. Cardinality(Rows)]
    <2>1. L2Done \in [Ranks -> 0 .. Cardinality(Rows)] /\ Cardinality(Rows) \in Nat
      BY <1>1, Constants DEF Shape
    <2>2. Prepare(r, b) => L2Done' = L2Done \/ L2Done' = [L2Done EXCEPT ![r] = 0]
      BY DEF Prepare
    <2>3. CASE CountDone(r, b)
      <3>1. At(r, 0) >= 10
        <4>1. At(r, b) = 11
          BY <1>1, <2>3, Acts
        <4> QED BY <1>1, <4>1 DEF StepInv, LocalInv, LocalStages
      <3>2. PICK p \in Nat, l \in Nat, c \in Nat, n \in Nat :
              /\ p = Cardinality(pending[r]) /\ l = L2Done[r]
              /\ c = Cardinality(Counting(r)) /\ n = Cardinality(rows[r]) /\ n <= Cardinality(Rows)
        BY <1>1, Finite
      <3>3. p + l + c = n
        BY <3>1, <3>2 DEF CountInv
      <3>4. c # 0
        <4>1. b \in Counting(r)
          BY <2>3 DEF CountDone, Counting
        <4> QED BY <1>1, <3>2, <4>1, Finite, FS_EmptySet
      <3>5. L2Done' = [L2Done EXCEPT ![r] = l + 1]
        BY <2>3, <3>2 DEF CountDone
      <3>6. l + 1 \in 0 .. Cardinality(Rows)
        BY <2>1, <3>2, <3>3, <3>4
      <3> QED BY <2>1, <3>5, <3>6
    <2> QED BY <1>1, <2>1, <2>2, <2>3, Frame
  <1>9. uniform' \in [Ranks -> [Blocks -> BOOLEAN]]
    <2>1. uniform \in [Ranks -> [Blocks -> BOOLEAN]]
      BY <1>1 DEF Shape
    <2>2. Check(r, b) => \E v \in BOOLEAN : uniform' = [uniform EXCEPT ![r][b] = v]
      <3> SUFFICES ASSUME Check(r, b)
                   PROVE  \E v \in BOOLEAN : uniform' = [uniform EXCEPT ![r][b] = v]
        OBVIOUS
      <3> DEFINE v == \A q \in Ranks : num_tokens[q].count = Count(r)
      <3>1. uniform' = [uniform EXCEPT ![r][b] = v] /\ v \in BOOLEAN
        BY DEF Check
      <3> HIDE DEF v
      <3> QED BY <3>1
    <2> QED BY <1>1, <2>1, <2>2, Frame
  <1>10. storing' \in [Ranks -> [Blocks -> {None} \union Rows]]
    <2>1. storing \in [Ranks -> [Blocks -> {None} \union Rows]] /\ pending[r] \subseteq Rows
      BY <1>1 DEF Shape
    <2>2. Claim(r, b) \/ Store(r, b) =>
            \E v \in {None} \union Rows : storing' = [storing EXCEPT ![r][b] = v]
      BY <2>1 DEF Claim, Store
    <2> QED BY <1>1, <2>1, <2>2, Frame
  <1>11. /\ routes' \in [Ranks -> [n : 0 .. MaxLaunches, owner : Owners]]
         /\ launch' \in [Ranks -> 0 .. MaxLaunches] /\ \A q \in Ranks : routes'[q].n = launch'[q]
    BY <1>1, <1>2 DEF Shape
  <1> QED BY <1>2, <1>3, <1>4, <1>5, <1>6, <1>7, <1>8, <1>9, <1>10, <1>11 DEF Shape

-----------------------------------------------------------------------------
(* Launches.                                                                *)

LEMMA LaunchFrame ==
  ASSUME Shape, NEW r \in Ranks, Launch(r)
  PROVE  /\ launch'[r] = launch[r] + 1
         /\ UNCHANGED <<num_tokens, combine, pool, rows, pending, L2Done, uniform, storing,
                        entered, left>>
         /\ \A q \in Ranks \ {r} :
              /\ launch'[q] = launch[q] /\ Count(q)' = Count(q) /\ \A t : Owner(q, t)' = Owner(q, t)
              /\ pc'[q] = pc[q] /\ Counting(q)' = Counting(q)
  <1>1. /\ launch' = [launch EXCEPT ![r] = @ + 1]
        /\ pc' = [pc EXCEPT ![r] = [b \in Blocks |-> "publish"]]
        /\ \E in \in Inputs[launch[r] + 1] :
             routes' = [routes EXCEPT ![r] = [n |-> launch[r] + 1, owner |-> in]]
    BY DEF Launch
  <1>2. /\ UNCHANGED <<num_tokens, combine, entered, left>>
        /\ UNCHANGED <<pool, rows, pending, L2Done, uniform, storing>>
    BY DEF Launch, scratch, blocks
  <1>3. /\ launch'[r] = launch[r] + 1
        /\ \A q \in Ranks \ {r} : launch'[q] = launch[q] /\ routes'[q] = routes[q] /\ pc'[q] = pc[q]
    BY <1>1 DEF Shape
  <1>4. \A q \in Ranks \ {r} :
          /\ Count(q)' = Count(q) /\ \A t : Owner(q, t)' = Owner(q, t)
          /\ Counting(q)' = Counting(q)
    BY <1>3 DEF Count, Owner, Counting
  <1> QED BY <1>2, <1>3, <1>4

LEMMA LaunchShape ==
  ASSUME Shape, NEW r \in Ranks, Launch(r)
  PROVE  Shape'
  <1>1. /\ launch' = [launch EXCEPT ![r] = @ + 1] /\ launch[r] < MaxLaunches
        /\ UNCHANGED <<num_tokens, combine, entered, left>>
        /\ UNCHANGED <<pool, rows, pending, L2Done, uniform, storing>>
    BY DEF Launch, scratch, blocks
  <1>2. PICK in \in Inputs[launch[r] + 1] :
          routes' = [routes EXCEPT ![r] = [n |-> launch[r] + 1, owner |-> in]]
    BY DEF Launch
  <1>3. launch[r] \in Nat /\ launch[r] + 1 \in 1 .. MaxLaunches
    BY <1>1, Constants DEF Shape
  <1>4. in \in Owners
    BY <1>3 DEF Owners
  <1>5. launch' \in [Ranks -> 0 .. MaxLaunches]
    BY <1>1, <1>3 DEF Shape
  <1>6. /\ routes' \in [Ranks -> [n : 0 .. MaxLaunches, owner : Owners]]
        /\ \A q \in Ranks : routes'[q].n = launch'[q]
    <2>1. /\ routes \in [Ranks -> [n : 0 .. MaxLaunches, owner : Owners]]
          /\ launch \in [Ranks -> 0 .. MaxLaunches] /\ \A q \in Ranks : routes[q].n = launch[q]
      BY DEF Shape
    <2>2. [n |-> launch[r] + 1, owner |-> in] \in [n : 0 .. MaxLaunches, owner : Owners]
      BY <1>3, <1>4
    <2>3. \A q \in Ranks : routes'[q].n = launch'[q]
      <3> SUFFICES ASSUME NEW q \in Ranks
                   PROVE  routes'[q].n = launch'[q]
        OBVIOUS
      <3>1. CASE q = r
        <4>1. routes'[q] = [n |-> launch[r] + 1, owner |-> in] /\ launch'[q] = launch[r] + 1
          BY <1>1, <1>2, <2>1, <3>1
        <4> QED BY <4>1
      <3>2. CASE q # r
        BY <1>1, <1>2, <2>1, <3>2
      <3> QED BY <3>1, <3>2
    <2> QED BY <1>2, <2>1, <2>2, <2>3
  <1>7. pc' \in [Ranks -> [Blocks -> Places]]
    BY Relaunch
  <1> QED BY <1>1, <1>5, <1>6, <1>7 DEF Shape

(* A rank that is ahead of one whose launch has ended has not passed the    *)
(* first barrier of its launch.                                             *)
LEMMA LaunchBehind ==
  ASSUME StepInv, NEW r \in Ranks, Launch(r), NEW o \in Ranks
  PROVE  /\ launch[o] <= launch[r] + 1
         /\ launch[o] = launch[r] + 1 => At(o, 0) <= 2
  <1>1. At(r, 0) = 16
    BY Relaunch, Constants DEF StepInv
  <1>2. PICK L \in Nat, e \in Nat, M \in Nat, l \in Nat, s \in 1 .. 16 :
          L = launch[r] /\ e = entered[r] /\ M = launch[o] /\ l = left[o] /\ s = At(o, 0)
    BY LaunchBound
  <1>3. e = 3 * L
    <2>1. left[r] = 3 * launch[r] - 3 + 3 /\ entered[r] = left[r]
      BY <1>1, LaunchBound DEF Passed
    <2> QED BY <1>2, <2>1
  <1>4. l <= e /\ l = 3 * M - 3 + Passed(s) /\ Passed(s) \in 0 .. 3
    BY <1>2, LaunchBound
  <1>5. M <= L + 1
    BY <1>3, <1>4
  <1>6. M = L + 1 => s <= 2
    BY <1>3, <1>4 DEF Passed
  <1> QED BY <1>2, <1>5, <1>6

LEMMA LaunchRoutes ==
  ASSUME StepInv, RouteInv, NEW r \in Ranks, Launch(r)
  PROVE  RouteInv'
  <1>1. Shape /\ LocalInv /\ 0 \in Blocks
    BY Constants DEF StepInv
  <1>2. /\ \A c \in Blocks : At(r, c)' = 1
        /\ \A q \in Ranks \ {r}, c \in Blocks : At(q, c)' = At(q, c)
    BY <1>1, Relaunch
  <1>3. PublishInv'
    <2> SUFFICES ASSUME NEW q \in Ranks, At(q, 0)' >= 2
                 PROVE  num_tokens'[q] = [n |-> launch'[q], count |-> Count(q)']
      BY DEF PublishInv
    <2>1. q # r
      BY <1>1, <1>2
    <2> QED BY <1>1, <1>2, <2>1, LaunchFrame DEF RouteInv, PublishInv
  <1>4. ASSUME NEW q \in Ranks, NEW c \in Blocks, At(q, c)' \in 4 .. 11
        PROVE  FALSE
    <2>1. Reading(q)
      BY <1>2, <1>4 DEF Reading
    <2> QED BY <2>1, NoLaunch
  <1>5. UniformInv'
    BY <1>4 DEF UniformInv
  <1>6. PoolInv'
    <2> SUFFICES ASSUME NEW q \in Ranks, At(q, 0)' >= 2, NEW d \in Blocks, At(q, d)' <= 11
                 PROVE  pool'[q] = Routed(q)'
      BY DEF PoolInv
    <2>1. q # r /\ At(q, 0) >= 2 /\ At(q, d) <= 11
      BY <1>1, <1>2
    <2>2. ASSUME NEW c \in Blocks
          PROVE  ~ (At(q, c) >= 6) /\ ~ (At(q, c)' >= 6)
      <3>1. At(q, c) \notin 4 .. 11 /\ At(q, d) \notin 4 .. 11
        BY <1>2, <1>4, <2>1
      <3>2. At(q, c) \in 1 .. 16 /\ At(q, d) \in 1 .. 16
        BY <1>1, PlaceAt
      <3>3. At(q, c) > 6 => At(q, d) >= 6
        BY <1>1 DEF LocalInv, LocalStages
      <3> QED BY <1>2, <2>1, <3>1, <3>2, <3>3
    <2>3. Routed(q) = {}
      BY <1>1, <2>2, IdIs DEF Routed, Mine
    <2>4. Routed(q)' = {}
      <3>1. \A k \in Mine(q)' : k % NumBlocks \in Blocks
        <4> SUFFICES ASSUME NEW k \in Mine(q)'
                     PROVE  k % NumBlocks \in Blocks
          OBVIOUS
        <4>1. k \in Nat
          BY DEF Mine, Ids
        <4> QED BY <4>1, Constants, DivMod DEF Blocks
      <3> QED BY <2>2, <3>1 DEF Routed
    <2>5. pool[q] = Routed(q) /\ pool' = pool
      BY <1>1, <2>1, LaunchFrame DEF RouteInv, PoolInv
    <2> QED BY <2>3, <2>4, <2>5
  <1>7. RowsInv'
    <2> SUFFICES ASSUME NEW q \in Ranks, At(q, 0)' >= 8, NEW d \in Blocks, At(q, d)' <= 11
                 PROVE  FALSE
      BY DEF RowsInv
    <2>1. q # r /\ At(q, 0) >= 8 /\ At(q, d) <= 11 /\ At(q, d)' = At(q, d)
      BY <1>1, <1>2
    <2>2. At(q, d) \in 1 .. 16 /\ At(q, 0) \in 1 .. 16
      BY <1>1, PlaceAt
    <2>3. At(q, d) >= 6
      BY <1>1, <2>1, <2>2 DEF LocalInv, LocalStages
    <2> QED BY <1>4, <2>1, <2>2, <2>3
  <1>8. KeepInv'
    <2> SUFFICES ASSUME NEW o \in Ranks, \A c \in Blocks : At(o, c)' >= 10,
                        NEW q \in Ranks, launch'[q] = launch'[o],
                        NEW t \in 0 .. Count(q)' - 1, Owner(q, t)' = o
                 PROVE  <<q, t>> \in rows'[o]
      BY DEF KeepInv
    <2>1. o # r /\ \A c \in Blocks : At(o, c) >= 10
      <3>1. At(o, 0)' >= 10
        BY <1>1
      <3>2. o # r
        BY <1>1, <1>2, <3>1
      <3> QED BY <1>2, <3>2
    <2>2. launch'[o] = launch[o] /\ rows' = rows
      BY <1>1, <2>1, LaunchFrame
    <2>3. q # r
      <3>1. At(o, 0) >= 10 /\ At(o, 0) \in 1 .. 16
        BY <1>1, <2>1, PlaceAt
      <3>2. q = r => launch[o] = launch[r] + 1
        BY <1>1, <2>2, LaunchFrame
      <3> QED BY <3>1, <3>2, LaunchBehind
    <2>4. launch[q] = launch[o] /\ t \in 0 .. Count(q) - 1 /\ Owner(q, t) = o
      BY <1>1, <2>2, <2>3, LaunchFrame
    <2> QED BY <2>1, <2>2, <2>4 DEF RouteInv, KeepInv
  <1> QED BY <1>3, <1>5, <1>6, <1>7, <1>8 DEF RouteInv

LEMMA LaunchRows ==
  ASSUME StepInv, RouteInv, RowInv, NEW r \in Ranks, Launch(r)
  PROVE  RowInv'
  <1>1. Shape /\ LocalInv /\ 0 \in Blocks
    BY Constants DEF StepInv
  <1>2. /\ \A c \in Blocks : At(r, c)' = 1 /\ At(r, c) = 16 /\ pc[r][c] = "done"
        /\ \A q \in Ranks \ {r}, c \in Blocks : At(q, c)' = At(q, c) /\ pc'[q][c] = pc[q][c]
    BY <1>1, Relaunch
  <1>3. /\ UNCHANGED <<combine, rows, pending, L2Done, storing>>
        /\ launch'[r] = launch[r] + 1
        /\ \A q \in Ranks \ {r} : launch'[q] = launch[q] /\ Count(q)' = Count(q) /\ Counting(q)' = Counting(q)
        /\ \A q \in Ranks \ {r} : \A t : Owner(q, t)' = Owner(q, t)
    BY <1>1, LaunchFrame
  <1>4. CountInv'
    <2> SUFFICES ASSUME NEW q \in Ranks
                 PROVE  /\ At(q, 0)' >= 8 /\ (\A c \in Blocks : At(q, c)' <= 10) => pending'[q] = rows'[q]
                        /\ At(q, 0)' >= 10 =>
                             Cardinality(pending'[q]) + L2Done'[q] + Cardinality(Counting(q)')
                               = Cardinality(rows'[q])
      BY DEF CountInv
    <2>1. CASE q = r
      BY <1>1, <1>2, <2>1
    <2>2. CASE q # r
      <3>1. /\ \A c \in Blocks : At(q, c)' = At(q, c)
            /\ Counting(q)' = Counting(q)
        BY <1>2, <1>3, <2>2
      <3> QED BY <1>1, <1>3, <3>1 DEF RowInv, CountInv
    <2> QED BY <2>1, <2>2
  <1>5. StoringInv'
    <2> SUFFICES ASSUME NEW q \in Ranks, NEW c \in Blocks, storing[q][c] # None
                 PROVE  pc'[q][c] \in {"count", "sync"} /\ storing[q][c] \in rows[q]
      BY <1>3 DEF StoringInv, None
    <2>1. pc[q][c] \in {"count", "sync"} /\ storing[q][c] \in rows[q]
      BY DEF RowInv, StoringInv
    <2> QED BY <1>2, <2>1
  <1>6. ExitInv'
    <2> SUFFICES ASSUME NEW q \in Ranks, NEW c \in Blocks, At(q, c)' >= 12
                 PROVE  pending[q] = {}
      BY <1>3 DEF ExitInv
    <2>1. q # r /\ At(q, c) >= 12
      BY <1>2
    <2> QED BY <2>1 DEF RowInv, ExitInv
  <1>7. InvalidInv'
    <2>1. ASSUME NEW q \in Ranks, Reading(q)'
          PROVE  FALSE
      <3>1. Reading(q)
        BY <1>2, <2>1 DEF Reading
      <3> QED BY <3>1, NoLaunch
    <2>2. ASSUME NEW q \in Ranks, \A c \in Blocks : At(q, c)' >= 6,
                 NEW t \in 0 .. Count(q)' - 1, Owner(q, t)' = Invalid
          PROVE  Fresh(q, t)'
      <3>1. q # r
        BY <1>1, <1>2, <2>2
      <3>2. /\ \A c \in Blocks : At(q, c) >= 6
            /\ t \in 0 .. Count(q) - 1 /\ Owner(q, t) = Invalid
        BY <1>2, <1>3, <2>2, <3>1
      <3>3. Fresh(q, t)
        BY <3>2 DEF RowInv, InvalidInv
      <3> QED BY <1>3, <3>1, <3>3 DEF Fresh
    <2> QED BY <2>1, <2>2 DEF InvalidInv
  <1>8. FreshInv'
    <2> SUFFICES ASSUME NEW q \in Ranks, NEW o \in Ranks, NEW t \in 0 .. Count(q)' - 1, Owner(q, t)' = o
                 PROVE  /\ launch'[o] = launch'[q] /\ At(o, 0)' >= 8 /\ <<q, t>> \in rows[o] \ pending[o] =>
                             Fresh(q, t)' \/ \E c \in Blocks : storing[o][c] = <<q, t>>
                        /\ launch'[o] = launch'[q] + 1 => Fresh(q, t)'
      BY <1>3 DEF FreshInv
    <2>1. CASE q = r
      <3>1. PICK L \in Nat, M \in Nat, s \in 1 .. 16 : L = launch[r] /\ M = launch[o] /\ s = At(o, 0)
        BY LaunchBound
      <3>2. M <= L + 1 /\ (M = L + 1 => s <= 2)
        BY <3>1, LaunchBehind
      <3>3. CASE o = r
        BY <1>1, <1>2, <1>3, <2>1, <3>1, <3>3
      <3>4. CASE o # r
        <4>1. launch'[o] = M /\ launch'[q] = L + 1 /\ At(o, 0)' = s
          BY <1>1, <1>2, <1>3, <2>1, <3>1, <3>4
        <4> QED BY <3>2, <4>1
      <3> QED BY <3>3, <3>4
    <2>2. CASE q # r
      <3>1. /\ t \in 0 .. Count(q) - 1 /\ Owner(q, t) = o /\ launch'[q] = launch[q]
        BY <1>3, <2>2
      <3>2. Fresh(q, t)' <=> Fresh(q, t)
        BY <1>3, <3>1 DEF Fresh
      <3>3. /\ launch[o] = launch[q] /\ At(o, 0) >= 8 /\ <<q, t>> \in rows[o] \ pending[o] =>
                 Fresh(q, t) \/ \E c \in Blocks : storing[o][c] = <<q, t>>
            /\ launch[o] = launch[q] + 1 => Fresh(q, t)
        BY <3>1 DEF RowInv, FreshInv
      <3>4. CASE o # r
        <4>1. launch'[o] = launch[o] /\ At(o, 0)' = At(o, 0)
          BY <1>1, <1>2, <1>3, <3>4
        <4> QED BY <3>1, <3>2, <3>3, <4>1
      <3>5. CASE o = r
        <4>1. At(o, 0)' = 1 /\ launch'[o] = launch[o] + 1
          BY <1>1, <1>2, <1>3, <3>5
        <4>2. ASSUME launch'[o] = launch'[q] + 1
              PROVE  Fresh(q, t)
          <5>1. launch[o] = launch[q]
            <6>1. PICK L \in Nat, M \in Nat : L = launch[o] /\ M = launch[q]
              BY LaunchBound
            <6> QED BY <3>1, <4>1, <4>2, <6>1
          <5>2. \A c \in Blocks : At(o, c) = 16
            BY <1>2, <3>5
          <5>3. <<q, t>> \in rows[o]
            BY <3>1, <5>1, <5>2 DEF RouteInv, KeepInv
          <5>4. pending[o] = {} /\ At(o, 0) >= 8
            BY <1>1, <5>2 DEF RowInv, ExitInv
          <5>5. ~ \E c \in Blocks : storing[o][c] = <<q, t>>
            BY <1>2, <3>5 DEF RowInv, StoringInv, None
          <5> QED BY <3>3, <5>1, <5>3, <5>4, <5>5
        <4> QED BY <3>2, <4>1, <4>2
      <3> QED BY <3>4, <3>5
    <2> QED BY <2>1, <2>2
  <1> QED BY <1>4, <1>5, <1>6, <1>7, <1>8 DEF RowInv

-----------------------------------------------------------------------------
(* The invariant.                                                           *)

LEMMA InitInv == Init => IInv
  <1> SUFFICES ASSUME Init
               PROVE  IInv
    OBVIOUS
  <1> USE Constants
  <1>1. \A r \in Ranks, b \in Blocks : pc[r][b] = "done" /\ At(r, b) = 16
    BY Stages DEF Init, At
  <1>2. \A r \in Ranks : Count(r) = 0 /\ launch[r] = 0 /\ routes[r].n = 0 /\ routes[r].owner = <<>>
    BY DEF Init, Count
  <1>3. Shape
    <2>1. pc \in [Ranks -> [Blocks -> Places]]
      BY DEF Init, Places
    <2>2. routes \in [Ranks -> [n : 0 .. MaxLaunches, owner : Owners]]
      BY DEF Init, Owners
    <2>3. /\ launch \in [Ranks -> 0 .. MaxLaunches]
          /\ entered \in [Ranks -> Nat] /\ left \in [Ranks -> Nat]
          /\ num_tokens \in [Ranks -> [n : 0 .. MaxLaunches, count : 0 .. MaxTokens]]
          /\ combine \in [Ranks -> [Tokens -> 0 .. MaxLaunches]]
      BY DEF Init
    <2>4. /\ pool \in [Ranks -> SUBSET (0 .. NumRanks * MaxTokens - 1)]
          /\ rows \in [Ranks -> SUBSET Rows] /\ pending \in [Ranks -> SUBSET Rows]
          /\ \A r \in Ranks : pending[r] \subseteq rows[r]
          /\ L2Done \in [Ranks -> 0 .. Cardinality(Rows)]
      BY DEF Init
    <2>5. /\ uniform \in [Ranks -> [Blocks -> BOOLEAN]]
          /\ storing \in [Ranks -> [Blocks -> {None} \union Rows]]
      BY DEF Init
    <2> QED BY <1>2, <2>1, <2>2, <2>3, <2>4, <2>5 DEF Shape
  <1>4. RankInv
    <2>1. \A r \in Ranks : Passed(At(r, 0)) = 3 /\ left[r] = 0 /\ entered[r] = 0
      BY <1>1 DEF Passed, Init
    <2> QED BY <1>2, <2>1 DEF RankInv
  <1>5. LocalInv
    BY <1>1 DEF LocalInv, LocalStages
  <1>6. PublishInv
    BY <1>2 DEF PublishInv, Init
  <1>7. UniformInv /\ PoolInv /\ RowsInv
    BY <1>1 DEF UniformInv, PoolInv, RowsInv
  <1>8. KeepInv /\ FreshInv
    BY <1>2 DEF KeepInv, FreshInv
  <1>9. CountInv
    <2> SUFFICES ASSUME NEW r \in Ranks
                 PROVE  /\ At(r, 0) >= 8 /\ (\A b \in Blocks : At(r, b) <= 10) => pending[r] = rows[r]
                        /\ At(r, 0) >= 10 =>
                             Cardinality(pending[r]) + L2Done[r] + Cardinality(Counting(r))
                               = Cardinality(rows[r])
      BY DEF CountInv
    <2>1. pending[r] = {} /\ rows[r] = {} /\ L2Done[r] = 0
      BY DEF Init
    <2>2. Counting(r) = {}
      BY <1>1 DEF Counting
    <2> QED BY <2>1, <2>2, FS_EmptySet
  <1>10. StoringInv /\ ExitInv
    BY DEF StoringInv, ExitInv, Init
  <1>11. InvalidInv
    BY <1>1, <1>2 DEF InvalidInv, Reading
  <1> QED BY <1>3, <1>4, <1>5, <1>6, <1>7, <1>8, <1>9, <1>10, <1>11 DEF IInv, StepInv, RouteInv, RowInv

LEMMA StutterInv == IInv /\ UNCHANGED vars => IInv'
  <1> SUFFICES ASSUME IInv, UNCHANGED vars
               PROVE  IInv'
    OBVIOUS
  <1>1. /\ UNCHANGED <<launch, routes, num_tokens, combine, pool, rows, pending, L2Done>>
        /\ UNCHANGED <<pc, uniform, storing, entered, left>>
    BY DEF vars, sym, scratch, blocks
  <1>2. \A r, b : At(r, b)' = At(r, b)
    BY <1>1 DEF At, Stage, Program
  <1>3. /\ \A q : Count(q)' = Count(q) /\ EqualCounts(q)' = EqualCounts(q) /\ Width(q)' = Width(q)
        /\ \A q, t : Owner(q, t)' = Owner(q, t)
        /\ \A q : Ids(q)' = Ids(q) /\ Mine(q)' = Mine(q)
        /\ \A q, k : OwnerOf(q, k)' = OwnerOf(q, k)
    BY <1>1, RoutesStay
  <1>4. /\ \A r : Reading(r)' = Reading(r) /\ Counting(r)' = Counting(r)
        /\ \A r : Routed(r)' = Routed(r) /\ Prepared(r)' = Prepared(r)
        /\ \A r, t : Fresh(r, t)' = Fresh(r, t)
    BY <1>1, <1>2, <1>3 DEF Reading, Counting, Routed, Prepared, Fresh
  <1>5. Shape' /\ RankInv' /\ LocalInv'
    <2>1. Shape'
      BY <1>1 DEF IInv, StepInv, Shape
    <2>2. RankInv'
      BY <1>1, <1>2 DEF IInv, StepInv, RankInv, Passed
    <2>3. LocalInv'
      BY <1>2 DEF IInv, StepInv, LocalInv
    <2> QED BY <2>1, <2>2, <2>3
  <1>6. PublishInv' /\ UniformInv'
    BY <1>1, <1>2, <1>3 DEF IInv, RouteInv, PublishInv, UniformInv
  <1>7. PoolInv' /\ RowsInv' /\ KeepInv'
    <2>1. PoolInv'
      BY <1>1, <1>2, <1>4 DEF IInv, RouteInv, PoolInv
    <2>2. RowsInv'
      BY <1>1, <1>2, <1>3, <1>4 DEF IInv, RouteInv, RowsInv
    <2>3. KeepInv'
      BY <1>1, <1>2, <1>3 DEF IInv, RouteInv, KeepInv
    <2> QED BY <2>1, <2>2, <2>3
  <1>8. CountInv' /\ StoringInv' /\ ExitInv'
    <2>1. CountInv'
      BY <1>1, <1>2, <1>4 DEF IInv, RowInv, CountInv
    <2>2. StoringInv'
      BY <1>1 DEF IInv, RowInv, StoringInv
    <2>3. ExitInv'
      BY <1>1, <1>2 DEF IInv, RowInv, ExitInv
    <2> QED BY <2>1, <2>2, <2>3
  <1>9. InvalidInv' /\ FreshInv'
    <2>1. InvalidInv'
      BY <1>2, <1>3, <1>4 DEF IInv, RowInv, InvalidInv, Fresh
    <2>2. FreshInv'
      BY <1>1, <1>2, <1>3, <1>4 DEF IInv, RowInv, FreshInv
    <2> QED BY <2>1, <2>2
  <1> QED BY <1>5, <1>6, <1>7, <1>8, <1>9 DEF IInv, StepInv, RouteInv, RowInv

LEMMA NextInv == IInv /\ [Next]_vars => IInv'
  <1> SUFFICES ASSUME IInv, [Next]_vars
               PROVE  IInv'
    OBVIOUS
  <1>1. ASSUME NEW r \in Ranks, NEW b \in Blocks, Step(r, b)
        PROVE  IInv'
    <2>1. /\ StepInv /\ PublishInv /\ UniformInv /\ PoolInv /\ RowsInv /\ KeepInv
          /\ CountInv /\ StoringInv /\ ExitInv /\ InvalidInv /\ FreshInv
      BY DEF IInv, RouteInv, RowInv
    <2>2. StepInv'
      BY <1>1, <2>1, ShapeStep, RankStep, LocalStep DEF StepInv
    <2>3. RouteInv'
      BY <1>1, <2>1, PublishStep, UniformStep, PoolStep, RowsStep, KeepStep DEF RouteInv
    <2>4. RowInv'
      BY <1>1, <2>1, CountStep, StoringStep, ExitStep, InvalidStep, FreshStep DEF RowInv
    <2> QED BY <2>2, <2>3, <2>4 DEF IInv
  <1>2. ASSUME NEW r \in Ranks, Launch(r)
        PROVE  IInv'
    BY <1>2, LaunchShape, LaunchStepInv, LaunchRoutes, LaunchRows DEF IInv, StepInv
  <1>3. CASE UNCHANGED vars
    BY <1>3, StutterInv
  <1> QED BY <1>1, <1>2, <1>3 DEF Next, Step

LEMMA SpecInv == Spec => []IInv
  BY InitInv, NextInv, PTL DEF Spec

-----------------------------------------------------------------------------
(* What it says.                                                            *)

(* The scratch and the counters keep their ranges: the ids in the pools are *)
(* below num_ranks times the capacity, the rows are routes, and no block    *)
(* counts a row too many in L2Done.                                         *)
THEOREM LaunchesTyped == Spec => []TypeOK
  <1>1. ASSUME IInv
        PROVE  TypeOK
    <2>1. Shape /\ LocalInv /\ CountInv /\ 0 \in Blocks
      BY <1>1, Constants DEF IInv, StepInv, RowInv
    <2>2. ASSUME NEW r \in Ranks, NEW b \in Blocks, pc[r][b] = "work"
          PROVE  L2Done[r] <= Cardinality(rows[r])
      <3>1. At(r, 0) >= 10
        <4>1. At(r, b) = 11
          BY <2>1, <2>2, PlaceAt
        <4> QED BY <2>1, <4>1 DEF LocalInv, LocalStages
      <3>2. PICK p \in Nat, l \in Nat, c \in Nat, n \in Nat :
              /\ p = Cardinality(pending[r]) /\ l = L2Done[r]
              /\ c = Cardinality(Counting(r)) /\ n = Cardinality(rows[r])
        BY <2>1, Finite
      <3>3. p + l + c = n
        BY <2>1, <3>1, <3>2 DEF CountInv
      <3> QED BY <3>2, <3>3
    <2>3. \A r \in Ranks : routes[r].n = launch[r] /\ routes[r].owner \in Owners
      BY <2>1 DEF Shape
    <2> QED BY <2>1, <2>2, <2>3 DEF TypeOK, Shape, Rows, Owners
  <1> QED BY <1>1, SpecInv, PTL

(* From the check of the counts to the end of its rows a rank reads the     *)
(* counts, routes and rows of its peers' inputs of the same launch: the     *)
(* barriers keep slower and faster ranks out.                               *)
THEOREM PeersInLaunch == Spec => []ReadsSeeThisLaunch
  <1>1. ASSUME IInv
        PROVE  ReadsSeeThisLaunch
    <2> SUFFICES ASSUME NEW r \in Ranks, NEW q \in Ranks, AtStages(r, "check", "work")
                 PROVE  /\ num_tokens[q] = [n |-> launch[r], count |-> Count(q)]
                        /\ routes[q].n = launch[r]
      BY DEF ReadsSeeThisLaunch
    <2>1. Reading(r) /\ StepInv /\ PublishInv /\ Shape
      BY <1>1, Stages DEF AtStages, Reading, At, IInv, StepInv, RouteInv
    <2>2. launch[q] = launch[r] /\ At(q, 0) >= 2
      BY <2>1, Together
    <2> QED BY <2>1, <2>2 DEF PublishInv, Shape
  <1> QED BY <1>1, SpecInv, PTL

(* The rows a rank computes are the routes it owns: routing, tile table and *)
(* pipeline agree on what a linear task id means, for equal and for unequal *)
(* token counts.                                                            *)
THEOREM RowsOwned == Spec => []RowsAreRoutes
  <1>1. ASSUME IInv
        PROVE  RowsAreRoutes
    <2> SUFFICES ASSUME NEW r \in Ranks, AtStages(r, "work", "work")
                 PROVE  rows[r] = {row \in Ranks \X Tokens :
                                     row[2] < Count(row[1]) /\ Owner(row[1], row[2]) = r}
      BY DEF RowsAreRoutes
    <2>1. Shape /\ LocalInv /\ RowsInv
      BY <1>1 DEF IInv, StepInv, RouteInv
    <2>2. PICK d \in Blocks : At(r, d) = 11
      BY Stages DEF AtStages, At
    <2>3. \A b \in Blocks : At(r, b) >= 10
      BY <2>1, <2>2 DEF LocalInv, LocalStages
    <2> QED BY <2>1, <2>2, <2>3, AllPrepared
  <1> QED BY <1>1, SpecInv, PTL

(* Behind the second rank barrier a combine row that the reduction reads    *)
(* was written in this launch, or a wave of the peer that owns it is still  *)
(* storing it: that store is the only way a rank sums an old row.           *)
THEOREM ReduceInLaunch == Spec => []StaleOnlyInFlight
  <1>1. ASSUME IInv
        PROVE  StaleOnlyInFlight
    <2> SUFFICES ASSUME NEW r \in Ranks, NEW b \in Blocks, pc[r][b] = "reduce",
                        NEW t \in Share(b, 0 .. Count(r) - 1)
                 PROVE  \/ combine[r][t] = launch[r]
                        \/ \E q \in Ranks \ {r}, c \in Blocks : storing[q][c] = <<r, t>>
      BY DEF StaleOnlyInFlight
    <2>1. /\ StepInv /\ Shape /\ LocalInv /\ KeepInv /\ ExitInv /\ StoringInv /\ InvalidInv /\ FreshInv
          /\ 0 \in Blocks
      BY <1>1, Constants DEF IInv, StepInv, RouteInv, RowInv
    <2>2. t \in 0 .. Count(r) - 1 /\ Owner(r, t) \in Ranks \union {Invalid}
      BY <2>1, Counts DEF Share
    <2>3. At(r, b) = 14 /\ \A c \in Blocks : At(r, c) >= 13
      <3>1. At(r, b) = 14
        BY <2>1, PlaceAt
      <3> QED BY <2>1, <3>1 DEF LocalInv, LocalStages
    <2>4. \A c \in Blocks : At(r, c) \in 13 .. 16
      BY <2>1, <2>3, PlaceAt
    <2>5. CASE Owner(r, t) = Invalid
      <3>1. \A c \in Blocks : At(r, c) >= 6
        BY <2>4
      <3> QED BY <2>1, <2>2, <2>5, <3>1 DEF InvalidInv, Fresh
    <2>6. CASE Owner(r, t) \in Ranks
      <3>1. PICK o \in Ranks : Owner(r, t) = o
        BY <2>6
      <3>2. PICK L \in Nat, M \in Nat, s \in 1 .. 16 :
              /\ L = launch[r] /\ M = launch[o] /\ s = At(o, 0)
              /\ M = L + 1 \/ (M = L /\ s >= 12)
        <4>1. PICK L \in Nat, e \in Nat, l \in Nat, M \in Nat, eo \in Nat, lo \in Nat, s \in 1 .. 16 :
                /\ L = launch[r] /\ e = entered[r] /\ l = left[r]
                /\ M = launch[o] /\ eo = entered[o] /\ lo = left[o] /\ s = At(o, 0)
          BY <2>1, <3>1, LaunchBound
        <4>2. l >= 3 * L - 1 /\ e <= 3 * L
          <5>1. PICK u \in 13 .. 16 : u = At(r, 0)
            BY <2>1, <2>4
          <5>2. l = 3 * L - 3 + Passed(u) /\ (e = l \/ (e = l + 1 /\ u \in {2, 12, 15}))
            BY <2>1, <4>1, <5>1, LaunchBound
          <5> QED BY <5>1, <5>2 DEF Passed
        <4>3. l <= eo /\ lo <= e
          BY <2>1, <3>1, <4>1, LaunchBound
        <4>4. /\ lo = 3 * M - 3 + Passed(s) /\ Passed(s) \in 0 .. 3
              /\ eo = lo \/ (eo = lo + 1 /\ s \in {2, 12, 15})
          BY <2>1, <3>1, <4>1, LaunchBound
        <4>5. M <= L + 1
          BY <4>2, <4>3, <4>4
        <4>6. M >= L
          BY <4>2, <4>3, <4>4 DEF Passed
        <4>7. M = L => s >= 12
          BY <4>2, <4>3, <4>4 DEF Passed
        <4>8. M = L + 1 \/ (M = L /\ s >= 12)
          BY <4>5, <4>6, <4>7
        <4> QED BY <4>1, <4>8
      <3>3. /\ launch[o] = launch[r] /\ At(o, 0) >= 8 /\ <<r, t>> \in rows[o] \ pending[o] =>
                 Fresh(r, t) \/ \E c \in Blocks : storing[o][c] = <<r, t>>
            /\ launch[o] = launch[r] + 1 => Fresh(r, t)
        BY <2>1, <2>2, <3>1 DEF FreshInv
      <3>4. CASE M = L + 1
        BY <3>2, <3>3, <3>4 DEF Fresh
      <3>5. CASE M = L /\ s >= 12
        <4>1. pending[o] = {}
          BY <2>1, <3>1, <3>2, <3>5 DEF ExitInv
        <4>2. \A c \in Blocks : At(o, c) >= 10
          BY <2>1, <3>1, <3>2, <3>5 DEF LocalInv, LocalStages
        <4>3. <<r, t>> \in rows[o]
          BY <2>1, <2>2, <3>1, <3>2, <3>5, <4>2 DEF KeepInv
        <4>4. Fresh(r, t) \/ \E c \in Blocks : storing[o][c] = <<r, t>>
          BY <3>2, <3>3, <3>5, <4>1, <4>3
        <4>5. ASSUME NEW c \in Blocks, storing[o][c] = <<r, t>>
              PROVE  o # r
          <5>1. pc[o][c] \in {"count", "sync"}
            <6>1. storing[o][c] # None
              BY <4>5 DEF None
            <6> QED BY <2>1, <6>1 DEF StoringInv
          <5>2. At(o, c) = 11
            BY <2>1, <3>1, <5>1, PlaceAt
          <5> QED BY <2>4, <5>2
        <4> QED BY <4>4, <4>5 DEF Fresh
      <3> QED BY <3>2, <3>4, <3>5
    <2> QED BY <2>2, <2>5, <2>6
  <1> QED BY <1>1, SpecInv, PTL
===============================================================================

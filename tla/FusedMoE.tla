------------------------------ MODULE FusedMoE ------------------------------
(***************************************************************************)
(* Launches of the fused kernel on all ranks of a group                    *)
(* (impls/mega_moe_dcu.cuh): the ranks publish their token counts, route   *)
(* every token's expert to the rank that owns it, compute the L2 rows of   *)
(* their own experts into the combine buffers of the source ranks, and     *)
(* reduce their own combine buffer.  In between the ranks meet at rank     *)
(* barriers, which block 0 of each rank runs, and the blocks of a rank at  *)
(* local barriers.                                                         *)
(*                                                                         *)
(* The barriers are PhaseBarriers; the pipeline between routing and the    *)
(* combine rows is taken as FusedPipeline shows it: every row is claimed   *)
(* once, and blocks leave when L2Done says that all rows were counted.     *)
(* Each token has one route; the rank that owns its expert stands for the  *)
(* expert.  Buffers hold the number of the launch that wrote them last.    *)
(***************************************************************************)
EXTENDS Integers, Sequences, FiniteSets

CONSTANTS
  NumRanks, NumBlocks,
  MaxTokens,      \* num_max_tokens_per_rank
  Inputs,         \* Inputs[n]: the inputs a rank may have in launch n: for each
                  \* of its tokens the owner of its expert, or Invalid
  MaxLaunches     \* bound: launches of a rank

Ranks == 0 .. NumRanks - 1
Blocks == 0 .. NumBlocks - 1
Tokens == 0 .. MaxTokens - 1

Invalid == -1     \* an expert out of range, or a weight of zero

ASSUME InputsAssumption ==
  /\ NumRanks \in Nat \ {0} /\ NumBlocks \in Nat \ {0}
  /\ MaxTokens \in Nat /\ MaxLaunches \in Nat
  /\ \A n \in 1 .. MaxLaunches : \A in \in Inputs[n] :
       in \in Seq(Ranks \union {Invalid}) /\ Len(in) <= MaxTokens

VARIABLES
  launch,          \* launch[r]: the launches rank r's host has issued
  \* symmetric buffers, which all ranks access
  routes,          \* routes[r]: r's tokens, and the launch they belong to
  num_tokens,      \* num_tokens[r]: the published count, and its launch
  combine,         \* combine[r][t]: the launch that last wrote token t's row
  \* the scratch of one rank
  pool,            \* linear route tasks in the expert pools
  rows,            \* the <<source rank, token>> of the rows in the tile metadata
  pending,         \* rows whose L2 work no block has claimed
  L2Done,
  \* the blocks
  pc, uniform, storing,
  \* the rank barrier
  entered, left

sym == <<routes, num_tokens, combine>>
scratch == <<pool, rows, pending, L2Done>>
blocks == <<uniform, storing>>
vars == <<launch, sym, scratch, pc, blocks, entered, left>>

Program_NoEntryBarrier ==
  <<"publish", "local1", "check", "route", "local2", "tiles", "local3",
    "prepare", "local4", "work", "rank2", "local5", "reduce", "rank3", "done">>

(* The kernel, in the order of its barriers.                                *)
Program ==
  <<"publish", "rank1", "local1", "check", "route", "local2", "tiles", "local3",
    "prepare", "local4", "work", "rank2", "local5", "reduce", "rank3", "done">>

RankBarriers == {"rank1", "rank2", "rank3"}
LocalBarriers == {"local1", "local2", "local3", "local4", "local5"}

(* A block between its claim of a row and its next barrier is at "work".    *)
Stage(p) ==
  CHOOSE i \in 1 .. Len(Program) :
    Program[i] = (IF p \in {"count", "sync"} THEN "work" ELSE p)

(* Where block b goes next: only block 0 calls the rank barriers.           *)
Follow(r, b) ==
  LET i == Stage(pc[r][b])
  IN  IF Program[i + 1] \in RankBarriers /\ b # 0 THEN Program[i + 2] ELSE Program[i + 1]

Advance(r, b) == pc' = [pc EXCEPT ![r][b] = Follow(r, b)]

Go(r, b, there) == pc' = [pc EXCEPT ![r][b] = there]

Count(r) == Len(routes[r].owner)

Owner(q, t) == routes[q].owner[t + 1]

None == <<>>

Init ==
  /\ launch = [r \in Ranks |-> 0]
  /\ routes = [r \in Ranks |-> [n |-> 0, owner |-> <<>>]]
  /\ num_tokens = [r \in Ranks |-> [n |-> 0, count |-> 0]]
  /\ combine = [r \in Ranks |-> [t \in Tokens |-> 0]]
  /\ pool = [r \in Ranks |-> {}]
  /\ rows = [r \in Ranks |-> {}]
  /\ pending = [r \in Ranks |-> {}]
  /\ L2Done = [r \in Ranks |-> 0]
  /\ pc = [r \in Ranks |-> [b \in Blocks |-> "done"]]
  /\ uniform = [r \in Ranks |-> [b \in Blocks |-> FALSE]]
  /\ storing = [r \in Ranks |-> [b \in Blocks |-> None]]
  /\ entered = [r \in Ranks |-> 0]
  /\ left = [r \in Ranks |-> 0]

(* The host writes the inputs and launches, in stream order: both follow    *)
(* the end of its last kernel.                                              *)
Launch(r) ==
  /\ launch[r] < MaxLaunches
  /\ \A b \in Blocks : pc[r][b] = "done"
  /\ launch' = [launch EXCEPT ![r] = @ + 1]
  /\ \E in \in Inputs[launch[r] + 1] : routes' = [routes EXCEPT ![r] = [n |-> launch[r] + 1, owner |-> in]]
  /\ pc' = [pc EXCEPT ![r] = [b \in Blocks |-> "publish"]]
  /\ UNCHANGED <<num_tokens, combine, scratch, blocks, entered, left>>

(* Block 0 publishes the token count and empties the expert pools.          *)
Publish(r, b) ==
  /\ pc[r][b] = "publish"
  /\ IF b = 0
     THEN /\ num_tokens' = [num_tokens EXCEPT ![r] = [n |-> launch[r], count |-> Count(r)]]
          /\ pool' = [pool EXCEPT ![r] = {}]
     ELSE UNCHANGED <<num_tokens, pool>>
  /\ Advance(r, b)
  /\ UNCHANGED <<launch, routes, combine, rows, pending, L2Done, blocks, entered, left>>

-----------------------------------------------------------------------------
(* Barriers.                                                                *)

RankBarrier == INSTANCE PhaseBarrier WITH Procs <- Ranks

EnterRank(r) ==
  /\ pc[r][0] \in RankBarriers
  /\ RankBarrier!Enter(r)
  /\ UNCHANGED <<launch, sym, scratch, pc, blocks>>

LeaveRank(r) ==
  /\ pc[r][0] \in RankBarriers
  /\ RankBarrier!Leave(r)
  /\ Advance(r, 0)
  /\ UNCHANGED <<launch, sym, scratch, blocks>>

PassLocal(r, b) ==
  /\ pc[r][b] \in LocalBarriers
  /\ \A c \in Blocks : Stage(pc[r][c]) >= Stage(pc[r][b])
  /\ Advance(r, b)
  /\ UNCHANGED <<launch, sym, scratch, blocks, entered, left>>

-----------------------------------------------------------------------------
(* Routing.                                                                 *)

(* Every block finds out for itself whether the counts are equal.           *)
Check(r, b) ==
  /\ pc[r][b] = "check"
  /\ uniform' = [uniform EXCEPT ![r][b] = \A q \in Ranks : num_tokens[q].count = Count(r)]
  /\ Advance(r, b)
  /\ UNCHANGED <<launch, sym, scratch, storing, entered, left>>

Stride_OwnCount(r, b) == Count(r)

(* task_num_tokens_stride: how a linear task id encodes rank and token.     *)
Stride(r, b) == IF uniform[r][b] THEN Count(r) ELSE MaxTokens

(* The <<source rank, token>> of a linear task id.                          *)
DecodeTask(task, stride) == <<task \div stride, task % stride>>

(* The blocks take the ids of the tasks in turn.                            *)
Share(b, ids) == {i \in ids : i % NumBlocks = b}

RouteTasks(r, b) ==
  {task \in Share(b, 0 .. NumRanks * Stride(r, b) - 1) :
     LET route == DecodeTask(task, Stride(r, b))
     IN  uniform[r][b] \/ route[2] < num_tokens[route[1]].count}

TaskOwner(r, b, task) ==
  LET route == DecodeTask(task, Stride(r, b))
  IN  Owner(route[1], route[2])

Route_KeepsInvalid(r, b) ==
  /\ pc[r][b] = "route"
  /\ pool' = [pool EXCEPT ![r] = @ \union {task \in RouteTasks(r, b) : TaskOwner(r, b, task) = r}]
  /\ Advance(r, b)
  /\ UNCHANGED <<launch, routes, num_tokens, combine, rows, pending, L2Done, blocks, entered, left>>

(* Tasks that this rank owns go to the pools; every rank writes zeros to    *)
(* the combine rows of invalid routes.                                      *)
Route(r, b) ==
  LET tasks == RouteTasks(r, b)
      invalid == {DecodeTask(task, Stride(r, b)) :
                    task \in {k \in tasks : TaskOwner(r, b, k) = Invalid}}
  IN  /\ pc[r][b] = "route"
      /\ pool' = [pool EXCEPT ![r] = @ \union {task \in tasks : TaskOwner(r, b, task) = r}]
      /\ combine' = [q \in Ranks |-> [t \in Tokens |->
                       IF <<q, t>> \in invalid THEN launch[r] ELSE combine[q][t]]]
      /\ Advance(r, b)
      /\ UNCHANGED <<launch, routes, num_tokens, rows, pending, L2Done, blocks, entered, left>>

(* Block 0 builds the tile table from the pools.                            *)
BuildTiles(r, b) ==
  /\ pc[r][b] = "tiles"
  /\ IF b = 0
     THEN rows' = [rows EXCEPT ![r] = {}] /\ pending' = [pending EXCEPT ![r] = {}]
     ELSE UNCHANGED <<rows, pending>>
  /\ Advance(r, b)
  /\ UNCHANGED <<launch, sym, pool, L2Done, blocks, entered, left>>

Prepare_KeepsDone(r, b) ==
  LET mine == {DecodeTask(task, Stride(r, b)) : task \in Share(b, pool[r])}
  IN  /\ pc[r][b] = "prepare"
      /\ rows' = [rows EXCEPT ![r] = @ \union mine]
      /\ pending' = [pending EXCEPT ![r] = @ \union mine]
      /\ Advance(r, b)
      /\ UNCHANGED <<launch, sym, pool, L2Done, blocks, entered, left>>

(* Block 0 resets the counters; each block decodes its share of the rows    *)
(* with the stride it has found itself.                                     *)
Prepare(r, b) ==
  LET mine == {DecodeTask(task, Stride(r, b)) : task \in Share(b, pool[r])}
  IN  /\ pc[r][b] = "prepare"
      /\ rows' = [rows EXCEPT ![r] = @ \union mine]
      /\ pending' = [pending EXCEPT ![r] = @ \union mine]
      /\ L2Done' = IF b = 0 THEN [L2Done EXCEPT ![r] = 0] ELSE L2Done
      /\ Advance(r, b)
      /\ UNCHANGED <<launch, sym, pool, blocks, entered, left>>

-----------------------------------------------------------------------------
(* The pipeline, as the sequel sees it.                                     *)

Claim(r, b) ==
  /\ pc[r][b] = "work"
  /\ \E row \in pending[r] :
       /\ pending' = [pending EXCEPT ![r] = @ \ {row}]
       /\ storing' = [storing EXCEPT ![r][b] = row]
  /\ Go(r, b, "count")
  /\ UNCHANGED <<launch, sym, pool, rows, L2Done, uniform, entered, left>>

(* The waves of the block store the row, some of them beside thread 0.      *)
Store(r, b) ==
  /\ storing[r][b] # None
  /\ LET row == storing[r][b]
     IN  combine' = [combine EXCEPT ![row[1]][row[2]] = launch[r]]
  /\ storing' = [storing EXCEPT ![r][b] = None]
  /\ UNCHANGED <<launch, routes, num_tokens, scratch, pc, uniform, entered, left>>

CountDone(r, b) ==
  /\ pc[r][b] = "count"
  /\ L2Done' = [L2Done EXCEPT ![r] = @ + 1]
  /\ Go(r, b, "sync")
  /\ UNCHANGED <<launch, sym, pool, rows, pending, blocks, entered, left>>

(* The __syncthreads at the end of the loop.                                *)
Sync(r, b) ==
  /\ pc[r][b] = "sync"
  /\ storing[r][b] = None
  /\ Go(r, b, "work")
  /\ UNCHANGED <<launch, sym, scratch, blocks, entered, left>>

ExitLoop_Strict(r, b) ==
  /\ pc[r][b] = "work"
  /\ L2Done[r] > Cardinality(rows[r])
  /\ Advance(r, b)
  /\ UNCHANGED <<launch, sym, scratch, blocks, entered, left>>

ExitLoop(r, b) ==
  /\ pc[r][b] = "work"
  /\ L2Done[r] >= Cardinality(rows[r])
  /\ Advance(r, b)
  /\ UNCHANGED <<launch, sym, scratch, blocks, entered, left>>

(* The block sums the combine rows of its share of the rank's tokens.       *)
Reduce(r, b) ==
  /\ pc[r][b] = "reduce"
  /\ Advance(r, b)
  /\ UNCHANGED <<launch, sym, scratch, blocks, entered, left>>

Block(r, b) ==
  \/ Publish(r, b) \/ PassLocal(r, b)
  \/ Check(r, b) \/ Route(r, b) \/ BuildTiles(r, b) \/ Prepare(r, b)
  \/ Claim(r, b) \/ CountDone(r, b) \/ Sync(r, b) \/ ExitLoop(r, b)
  \/ Reduce(r, b)
  \/ b = 0 /\ (EnterRank(r) \/ LeaveRank(r))

AllDone == \A r \in Ranks : launch[r] = MaxLaunches /\ \A b \in Blocks : pc[r][b] = "done"

Next ==
  \/ \E r \in Ranks : Launch(r) \/ \E b \in Blocks : Block(r, b) \/ Store(r, b)
  \/ AllDone /\ UNCHANGED vars

Spec == Init /\ [][Next]_vars

(* Every rank launches as often as the others, and resident waves run.      *)
FairSpec ==
  /\ Spec
  /\ \A r \in Ranks : WF_vars(Launch(r))
  /\ \A r \in Ranks, b \in Blocks : WF_vars(Block(r, b)) /\ WF_vars(Store(r, b))

-----------------------------------------------------------------------------

TypeOK ==
  /\ launch \in [Ranks -> 0 .. MaxLaunches]
  /\ \A r \in Ranks :
       /\ routes[r].n = launch[r]
       /\ routes[r].owner \in {<<>>} \union UNION {Inputs[n] : n \in 1 .. MaxLaunches}
  /\ num_tokens \in [Ranks -> [n : 0 .. MaxLaunches, count : 0 .. MaxTokens]]
  /\ combine \in [Ranks -> [Tokens -> 0 .. MaxLaunches]]
  /\ \A r \in Ranks : pool[r] \subseteq 0 .. NumRanks * MaxTokens - 1
  /\ \A r \in Ranks : pending[r] \subseteq rows[r] /\ rows[r] \subseteq Ranks \X Tokens
  /\ \A r \in Ranks : L2Done[r] \in 0 .. Cardinality(Ranks \X Tokens)
  /\ uniform \in [Ranks -> [Blocks -> BOOLEAN]]
  /\ storing \in [Ranks -> [Blocks -> {None} \union (Ranks \X Tokens)]]
  /\ \A r \in Ranks, b \in Blocks :
       pc[r][b] = "work" => L2Done[r] <= Cardinality(rows[r])

AtStages(r, first, last) ==
  \E b \in Blocks : Stage(pc[r][b]) \in Stage(first) .. Stage(last)

(* While a rank reads its peers' counts, routes and rows, these are the     *)
(* peers' inputs of the same launch: none is late, and none has gone on to  *)
(* the next launch and overwritten them.                                    *)
ReadsSeeThisLaunch ==
  \A r, q \in Ranks :
    AtStages(r, "check", "work") =>
      num_tokens[q] = [n |-> launch[r], count |-> Count(q)] /\ routes[q].n = launch[r]

(* The rows a rank computes are the routes it owns, all of them and no      *)
(* others: the blocks that encoded and decoded the linear ids agreed on     *)
(* whether the counts are equal, for equal and for unequal counts.          *)
RowsAreRoutes ==
  \A r \in Ranks :
    AtStages(r, "work", "work") =>
      rows[r] = {row \in Ranks \X Tokens : row[2] < Count(row[1]) /\ Owner(row[1], row[2]) = r}

(* When a block reduces, a row of its tokens was written in this launch, or *)
(* a wave on the peer that owns it is at this moment still storing it.      *)
StaleOnlyInFlight ==
  \A r \in Ranks, b \in Blocks :
    pc[r][b] = "reduce" =>
      \A t \in Share(b, 0 .. Count(r) - 1) :
        \/ combine[r][t] = launch[r]
        \/ \E q \in Ranks \ {r}, c \in Blocks : storing[q][c] = <<r, t>>

(* The barrier between the L2 tasks and the reduction makes all writes to   *)
(* the rank's combine buffer visible to it, its own and its peers'.         *)
FreshReduce ==
  \A r \in Ranks, b \in Blocks :
    pc[r][b] = "reduce" =>
      \A t \in Share(b, 0 .. Count(r) - 1) : combine[r][t] = launch[r]

(* All launches end, whatever the counts and routes of each rank, ranks     *)
(* with no tokens and no rows included.                                     *)
LaunchesComplete == <>AllDone
=============================================================================

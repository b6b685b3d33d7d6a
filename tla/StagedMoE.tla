------------------------------ MODULE StagedMoE ------------------------------
(***************************************************************************)
(* Calls of the staged path (megamoe/large_opt.py and the K1, K2 and K3    *)
(* extensions), mixed with calls of the fused kernel, on all ranks of a    *)
(* group.  One staged call is, in stream order on each rank:               *)
(*   rank_barrier  resets the tail state, publishes the token count, meets *)
(*   K1            counts and lays out the routes to this rank, pulls x    *)
(*   K2            activates and quantises the rows                        *)
(*   K3            stores combine rows at the source ranks; with the tail  *)
(*                 reduce the last workgroup signals every peer and other  *)
(*                 workgroups wait for all signals and reduce              *)
(* and without the tail reduce a second rank_barrier and a reduce kernel.  *)
(*                                                                         *)
(* Both paths keep their state in one route scratch and one symmetric      *)
(* buffer per rank.  Data is the number of the call whose inputs it was    *)
(* computed from.  A token has one route, and a rank stands for its expert.*)
(***************************************************************************)
EXTENDS StagedBarrier, Sequences, SequencesExt

CONSTANTS
  MaxTokens,      \* num_max_tokens_per_rank
  TileM,          \* kK1RouteTileM: rows of a route tile
  CapacitySlack,  \* kK1RouteCapacitySlack
  Plans,          \* sequences of "fused", "eager" or "graph": the path of each call
  Inputs          \* sets of inputs: for each rank, the owner of each token's route

Paths == {"fused", "eager", "graph"}

ASSUME InputsAssumption ==
  /\ MaxTokens \in Nat /\ TileM \in Nat \ {0} /\ CapacitySlack \in Nat
  /\ Plans \subseteq Seq(Paths)
  /\ \A in \in Inputs : /\ DOMAIN in = Ranks
                        /\ \A r \in Ranks : in[r] \in Seq(Ranks) /\ Len(in[r]) <= MaxTokens

VARIABLES
  plan, batch, tail,  \* chosen at the start: the calls' paths and inputs, k3_tail_reduce_enabled
  call, pc,           \* call[r]: calls rank r's host has begun; pc[r]: where its stream is
  \* symmetric buffers
  num_tokens,         \* num_tokens[r]: the count r published
  slots,              \* slots[r][q]: signal slot 8 + q, the tail signal of rank q
  combine,            \* combine[r][t]: the call whose inputs token t's row was computed from
  \* the scratch of one rank
  tail_addrs,         \* asm_tail_signal_addrs still hold the peers' slots
  k3_prob,            \* k3_prob_storage: whose launch arguments it holds
  done_counter,       \* asm_tail_done_counter
  active_tiles,       \* k1_active_tiles
  uniform,            \* dcu_uniform_num_tokens_ptr
  rows,               \* K1's metadata: the <<source rank, token>> of each row
  l1_out, act_fp8,    \* the activations by row: the call of the x they come from
  \* K3
  stored, counted,    \* tiles whose rows are stored, and counted in done_counter
  signalled,          \* peers the last workgroup has signalled
  y,                  \* the output: the call that reduced it, and the rows it read
  \* the rank barriers of the fused kernel
  f_entered, f_left

config == <<plan, batch, tail>>
sym == <<num_tokens, slots, combine>>
tailState == <<tail_addrs, k3_prob, done_counter>>
layout == <<active_tiles, uniform, rows>>
acts == <<l1_out, act_fp8>>
k3 == <<stored, counted, signalled>>
fused == <<f_entered, f_left>>
vars == <<config, call, pc, sym, tailState, layout, acts, k3, y, barrier, fused>>

Go(r, there) == pc' = [pc EXCEPT ![r] = there]

Path(r) == plan[call[r]]

(* The inputs in rank s's buffer, as every rank reads them now.             *)
Input(s) == batch[call[s]][s]

SmallerOf(a, b) == IF a < b THEN a ELSE b
LargerOf(a, b) == IF a < b THEN b ELSE a

Locations ==
  {"host", "reset", "draw", "await", "agree", "count", "emit", "l1", "quant", "k3", "signal",
   "draw2", "await2", "agree2", "reduce",
   "fused1", "fused1In", "fusedWork", "fused2", "fused2In", "fusedReduce", "fused3", "fused3In"}

NoArgs == <<"none", 0>>
Garbage == <<"garbage", 0>>

-----------------------------------------------------------------------------
Init ==
  /\ plan \in Plans
  /\ batch \in [1 .. Len(plan) -> Inputs]
  /\ tail \in BOOLEAN
  /\ call = [r \in Ranks |-> 0]
  /\ pc = [r \in Ranks |-> "host"]
  /\ num_tokens = [r \in Ranks |-> 0]
  /\ slots = [r \in Ranks |-> [q \in Ranks |-> 0]]
  /\ combine = [r \in Ranks |-> [t \in 1 .. MaxTokens |-> 0]]
  /\ tail_addrs = [r \in Ranks |-> TRUE]
  /\ k3_prob = [r \in Ranks |-> NoArgs]
  /\ done_counter = [r \in Ranks |-> 0]
  /\ active_tiles = [r \in Ranks |-> 0]
  /\ uniform = [r \in Ranks |-> FALSE]
  /\ rows = [r \in Ranks |-> <<>>]
  /\ l1_out = [r \in Ranks |-> <<>>]
  /\ act_fp8 = [r \in Ranks |-> <<>>]
  /\ stored = [r \in Ranks |-> {}]
  /\ counted = [r \in Ranks |-> {}]
  /\ signalled = [r \in Ranks |-> {}]
  /\ y = [r \in Ranks |-> [call |-> 0, read |-> <<>>]]
  /\ BarrierInit
  /\ f_entered = [r \in Ranks |-> 0]
  /\ f_left = [r \in Ranks |-> 0]

(* The framework writes the inputs of the next call, in stream order.  The  *)
(* same path on every rank: dispatch_num_tokens has to be uniform.          *)
BeginCall(r) ==
  /\ pc[r] = "host"
  /\ call[r] < Len(plan)
  /\ call' = [call EXCEPT ![r] = @ + 1]
  /\ Go(r, IF plan[call[r] + 1] = "fused" THEN "fused1" ELSE "reset")
  /\ UNCHANGED <<config, sym, tailState, layout, acts, k3, y, barrier, fused>>

-----------------------------------------------------------------------------
(* rank_barrier_kernel.                                                     *)

Reset_KeepsSlots(r) ==
  /\ pc[r] = "reset"
  /\ num_tokens' = [num_tokens EXCEPT ![r] = Len(Input(r))]
  /\ done_counter' = [done_counter EXCEPT ![r] = IF tail THEN 0 ELSE @]
  /\ Go(r, "draw")
  /\ UNCHANGED <<config, call, slots, combine, tail_addrs, k3_prob, layout, acts, k3, y, barrier, fused>>

Reset_KeepsCount(r) ==
  /\ pc[r] = "reset"
  /\ done_counter' = [done_counter EXCEPT ![r] = IF tail THEN 0 ELSE @]
  /\ slots' = [slots EXCEPT ![r] = IF tail THEN [q \in Ranks |-> 0] ELSE @]
  /\ Go(r, "draw")
  /\ UNCHANGED <<config, call, num_tokens, combine, tail_addrs, k3_prob, layout, acts, k3, y, barrier, fused>>

Reset_KeepsDone(r) ==
  /\ pc[r] = "reset"
  /\ num_tokens' = [num_tokens EXCEPT ![r] = Len(Input(r))]
  /\ slots' = [slots EXCEPT ![r] = IF tail THEN [q \in Ranks |-> 0] ELSE @]
  /\ Go(r, "draw")
  /\ UNCHANGED <<config, call, combine, tailState, layout, acts, k3, y, barrier, fused>>

(* Before it draws a ticket the rank publishes its count and, with the tail *)
(* reduce, clears its done counter and its own tail slots.                  *)
Reset(r) ==
  /\ pc[r] = "reset"
  /\ num_tokens' = [num_tokens EXCEPT ![r] = Len(Input(r))]
  /\ done_counter' = [done_counter EXCEPT ![r] = IF tail THEN 0 ELSE @]
  /\ slots' = [slots EXCEPT ![r] = IF tail THEN [q \in Ranks |-> 0] ELSE @]
  /\ Go(r, "draw")
  /\ UNCHANGED <<config, call, combine, tail_addrs, k3_prob, layout, acts, k3, y, barrier, fused>>

DrawTicket(r) ==
  /\ pc[r] \in {"draw", "draw2"}
  /\ Draw(r)
  /\ Go(r, IF pc[r] = "draw" THEN "await" ELSE "await2")
  /\ UNCHANGED <<config, call, sym, tailState, layout, acts, k3, y, fused>>

LeaveBarrier(r) ==
  /\ pc[r] \in {"await", "await2"}
  /\ Release(r) \/ Pass(r)
  /\ Go(r, IF pc[r] = "await" THEN "agree" ELSE "agree2")
  /\ UNCHANGED <<config, call, sym, tailState, layout, acts, k3, y, fused>>

(* After the barrier thread 0 compares the peers' counts with its own.      *)
Agree(r) ==
  /\ pc[r] \in {"agree", "agree2"}
  /\ uniform' = [uniform EXCEPT ![r] = \A s \in Ranks : num_tokens[s] = num_tokens[r]]
  /\ Go(r, IF pc[r] = "agree" THEN "count" ELSE "reduce")
  /\ UNCHANGED <<config, call, sym, tailState, active_tiles, rows, acts, k3, y, barrier, fused>>

-----------------------------------------------------------------------------
(* K1 with the compact prebuild.                                            *)

FloorDiv(a, b) == a \div b

CeilDiv(a, b) == (a + b - 1) \div b

(* The rows reserved for the routes to this rank are estimated from its own *)
(* token count, as if routes spread evenly over the experts; in a graph, or *)
(* with no tokens of its own, from num_max_tokens_per_rank.  The estimate   *)
(* of the compact form, the tail of a normal distribution and 2 or 4 tiles, *)
(* is abstracted to its mean and CapacitySlack.                             *)
Estimate(r) ==
  NumRanks * (IF Path(r) = "graph" \/ Input(r) = <<>> THEN MaxTokens ELSE Len(Input(r)))

CapacityTiles(r) ==
  CeilDiv(LargerOf(TileM, CeilDiv(Estimate(r), NumRanks) + CapacitySlack), TileM)

(* What r reads of the routes of rank s.                                    *)
RoutesFrom(r, s) ==
  {<<s, t>> : t \in {u \in 1 .. SmallerOf(num_tokens[s], Len(Input(s))) : Input(s)[u] = r}}

RoutesTo(r) == UNION {RoutesFrom(r, s) : s \in Ranks}

(* k1_count_compact_routes_kernel, k1_build_compact_tiles_kernel            *)
CountRoutes(r) ==
  /\ pc[r] = "count"
  /\ active_tiles' = [active_tiles EXCEPT ![r] =
       SmallerOf(CeilDiv(Cardinality(RoutesTo(r)), TileM), CapacityTiles(r))]
  /\ rows' = [rows EXCEPT ![r] = <<>>]
  /\ Go(r, "emit")
  /\ UNCHANGED <<config, call, sym, tailState, uniform, acts, k3, y, barrier, fused>>

(* A set of routes as rows, by source rank and token; the kernel's atomics  *)
(* give them in any order.                                                  *)
Precedes(x, z) == x[1] < z[1] \/ (x[1] = z[1] /\ x[2] < z[2])

Laid(routes) ==
  [k \in 1 .. Cardinality(routes) |->
     CHOOSE x \in routes : Cardinality({z \in routes : Precedes(z, x)}) = k - 1]

(* k1_emit_compact_routes_kernel: a route beyond the active tiles is left   *)
(* out, whichever it is.                                                    *)
EmitRoutes(r) ==
  LET room == SmallerOf(Cardinality(RoutesTo(r)), active_tiles[r] * TileM)
  IN  /\ pc[r] = "emit"
      /\ \E kept \in {R \in SUBSET RoutesTo(r) : Cardinality(R) = room} :
           rows' = [rows EXCEPT ![r] = Laid(kept)]
      /\ Go(r, "l1")
      /\ UNCHANGED <<config, call, sym, tailState, active_tiles, uniform, acts, k3, y, barrier, fused>>

(* The K1 code object: pull x from the source ranks, first GEMM.            *)
PullL1(r) ==
  /\ pc[r] = "l1"
  /\ l1_out' = [l1_out EXCEPT ![r] = [i \in DOMAIN rows[r] |-> call[rows[r][i][1]]]]
  /\ Go(r, "quant")
  /\ UNCHANGED <<config, call, sym, tailState, layout, act_fp8, k3, y, barrier, fused>>

(* swiglu_quant_channelwise_out, and the host's launch of K3: it copies the *)
(* launch arguments into the scratch, except in a replay of a graph.        *)
Args(r) == IF Path(r) = "graph" THEN <<"graph", 0>> ELSE <<"eager", call[r]>>

Repeats(r) == \E k \in 1 .. call[r] - 1 : plan[k] = Path(r)

Replays(r) == Path(r) = "graph" /\ \E k \in 1 .. call[r] - 1 : plan[k] = "graph"

QuantK2(r) ==
  /\ pc[r] = "quant"
  /\ act_fp8' = [act_fp8 EXCEPT ![r] = l1_out[r]]
  /\ k3_prob' = [k3_prob EXCEPT ![r] = IF Replays(r) THEN @ ELSE Args(r)]
  /\ stored' = [stored EXCEPT ![r] = {}]
  /\ counted' = [counted EXCEPT ![r] = {}]
  /\ signalled' = [signalled EXCEPT ![r] = {}]
  /\ Go(r, "k3")
  /\ UNCHANGED <<config, call, sym, tail_addrs, done_counter, layout, l1_out, y, barrier, fused>>

-----------------------------------------------------------------------------
(* K3.  A tile stands for the workgroups of its rows.  An eager launch runs *)
(* all the tiles of the capacity, a graph the active ones and at least one. *)

K3Tiles(r) ==
  0 .. (IF Path(r) = "graph" THEN LargerOf(active_tiles[r], 1) ELSE CapacityTiles(r)) - 1

TileRows(r, i) == {k \in DOMAIN rows[r] : (k - 1) \div TileM = i}

StoredBy(r, I) == {rows[r][k] : k \in UNION {TileRows(r, i) : i \in I}}

RowValue(r, row) == act_fp8[r][CHOOSE k \in DOMAIN rows[r] : rows[r][k] = row]

StoreTile(r, i) ==
  /\ pc[r] = "k3"
  /\ i \in K3Tiles(r) \ stored[r]
  /\ combine' = [s \in Ranks |-> [t \in 1 .. MaxTokens |->
       IF <<s, t>> \in StoredBy(r, {i}) THEN RowValue(r, <<s, t>>) ELSE combine[s][t]]]
  /\ stored' = [stored EXCEPT ![r] = @ \union {i}]
  /\ UNCHANGED <<config, call, pc, num_tokens, slots, tailState, layout, acts, counted, signalled,
                 y, barrier, fused>>

(* The workgroup that counts the last tile goes on to signal.               *)
CountTile(r, i) ==
  /\ pc[r] = "k3" /\ tail
  /\ i \in stored[r] \ counted[r]
  /\ done_counter' = [done_counter EXCEPT ![r] = @ + 1]
  /\ counted' = [counted EXCEPT ![r] = @ \union {i}]
  /\ IF done_counter[r] + 1 = Cardinality(K3Tiles(r)) THEN Go(r, "signal") ELSE UNCHANGED pc
  /\ UNCHANGED <<config, call, sym, tail_addrs, k3_prob, layout, acts, stored, signalled,
                 y, barrier, fused>>

(* One atomic add to slot 8 + r of each peer, through asm_tail_signal_addrs.*)
SignalPeer(r, q) ==
  /\ pc[r] = "signal"
  /\ q \notin signalled[r]
  /\ slots' = [slots EXCEPT ![q][r] = IF tail_addrs[r] THEN @ + 1 ELSE @]
  /\ signalled' = [signalled EXCEPT ![r] = @ \union {q}]
  /\ UNCHANGED <<config, call, pc, num_tokens, combine, tailState, layout, acts, stored, counted,
                 y, barrier, fused>>

Reduced(r) == [call |-> call[r], read |-> [t \in 1 .. Len(Input(r)) |-> combine[r][t]]]

(* The reduce workgroups of K3 wait until every rank has signalled, and     *)
(* sum the local combine rows; they run beside the signalling workgroup.    *)
TailReduce_Any(r) ==
  /\ pc[r] \in {"k3", "signal"} /\ tail
  /\ y[r].call # call[r]
  /\ \E q \in Ranks : slots[r][q] >= 1
  /\ y' = [y EXCEPT ![r] = Reduced(r)]
  /\ UNCHANGED <<config, call, pc, sym, tailState, layout, acts, k3, barrier, fused>>

TailReduce(r) ==
  /\ pc[r] \in {"k3", "signal"} /\ tail
  /\ y[r].call # call[r]
  /\ \A q \in Ranks : slots[r][q] >= 1
  /\ y' = [y EXCEPT ![r] = Reduced(r)]
  /\ UNCHANGED <<config, call, pc, sym, tailState, layout, acts, k3, barrier, fused>>

EndTail(r) ==
  /\ pc[r] = "signal"
  /\ signalled[r] = Ranks
  /\ y[r].call = call[r]
  /\ Go(r, "host")
  /\ UNCHANGED <<config, call, sym, tailState, layout, acts, k3, y, barrier, fused>>

(* Without the tail reduce: a second rank_barrier and a reduce kernel.      *)
EndStores(r) ==
  /\ pc[r] = "k3" /\ ~tail
  /\ stored[r] = K3Tiles(r)
  /\ Go(r, "draw2")
  /\ UNCHANGED <<config, call, sym, tailState, layout, acts, k3, y, barrier, fused>>

ReduceLocal(r) ==
  /\ pc[r] = "reduce"
  /\ y' = [y EXCEPT ![r] = Reduced(r)]
  /\ Go(r, "host")
  /\ UNCHANGED <<config, call, sym, tailState, layout, acts, k3, barrier, fused>>

-----------------------------------------------------------------------------
(* The fused kernel (FusedMoE), with its three rank barriers.               *)

FusedBarrier == INSTANCE PhaseBarrier WITH
  Procs <- Ranks, entered <- f_entered, left <- f_left

FusedEnter(r) ==
  /\ pc[r] \in {"fused1", "fused2", "fused3"}
  /\ FusedBarrier!Enter(r)
  /\ num_tokens' = [num_tokens EXCEPT ![r] = IF pc[r] = "fused1" THEN Len(Input(r)) ELSE @]
  /\ Go(r, CASE pc[r] = "fused1" -> "fused1In"
             [] pc[r] = "fused2" -> "fused2In"
             [] pc[r] = "fused3" -> "fused3In")
  /\ UNCHANGED <<config, call, slots, combine, tailState, layout, acts, k3, y, barrier>>

FusedLeave(r) ==
  /\ pc[r] \in {"fused1In", "fused2In", "fused3In"}
  /\ FusedBarrier!Leave(r)
  /\ Go(r, CASE pc[r] = "fused1In" -> "fusedWork"
             [] pc[r] = "fused2In" -> "fusedReduce"
             [] pc[r] = "fused3In" -> "host")
  /\ UNCHANGED <<config, call, sym, tailState, layout, acts, k3, y, barrier>>

(* k3_prob_storage, asm_tail_done_counter and asm_tail_signal_addrs lie at  *)
(* the start of the fused kernel's act_chunk_amax, which it writes for the  *)
(* valid rows of the first tile: 32 bytes of chunks per row, so 8 rows      *)
(* cover the 256 bytes of k3_prob_storage and the ninth starts the others.  *)
ProbRows == 8

FusedWork(r) ==
  /\ pc[r] = "fusedWork"
  /\ combine' = [s \in Ranks |-> [t \in 1 .. MaxTokens |->
       IF <<s, t>> \in RoutesTo(r) THEN call[s] ELSE combine[s][t]]]
  /\ k3_prob' = [k3_prob EXCEPT ![r] = IF RoutesTo(r) = {} THEN @ ELSE Garbage]
  /\ tail_addrs' = [tail_addrs EXCEPT ![r] = @ /\ Cardinality(RoutesTo(r)) <= ProbRows]
  /\ \E garbage \in {0, 1} :
       done_counter' = [done_counter EXCEPT ![r] =
         IF Cardinality(RoutesTo(r)) <= ProbRows THEN @ ELSE garbage]
  /\ Go(r, "fused2")
  /\ UNCHANGED <<config, call, num_tokens, slots, layout, acts, k3, y, barrier, fused>>

FusedReduce(r) ==
  /\ pc[r] = "fusedReduce"
  /\ y' = [y EXCEPT ![r] = Reduced(r)]
  /\ Go(r, "fused3")
  /\ UNCHANGED <<config, call, sym, tailState, layout, acts, k3, barrier, fused>>

-----------------------------------------------------------------------------
Step(r) ==
  \/ BeginCall(r)
  \/ Reset(r) \/ DrawTicket(r) \/ LeaveBarrier(r) \/ Agree(r)
  \/ CountRoutes(r) \/ EmitRoutes(r) \/ PullL1(r) \/ QuantK2(r)
  \/ EndStores(r) \/ ReduceLocal(r)
  \/ FusedEnter(r) \/ FusedLeave(r) \/ FusedWork(r) \/ FusedReduce(r)

(* What the workgroups of K3 do.                                            *)
K3Step(r) ==
  \/ \E i \in K3Tiles(r) : StoreTile(r, i) \/ CountTile(r, i)
  \/ \E q \in Ranks : SignalPeer(r, q)
  \/ TailReduce(r) \/ EndTail(r)

Finished ==
  /\ \A r \in Ranks : pc[r] = "host" /\ call[r] = Len(plan)
  /\ UNCHANGED vars

Next == (\E r \in Ranks : Step(r) \/ (pc[r] \in {"k3", "signal"} /\ K3Step(r))) \/ Finished

Spec == Init /\ [][Next]_vars

(* Each stream runs on, and so does each of K3's workgroups.                *)
FairSpec ==
  /\ Spec
  /\ \A r \in Ranks :
       /\ WF_vars(Step(r) \/ TailReduce(r) \/ EndTail(r))
       /\ WF_vars(pc[r] = "k3" /\ \E i \in K3Tiles(r) : StoreTile(r, i) \/ CountTile(r, i))
       /\ WF_vars(\E q \in Ranks : SignalPeer(r, q))

-----------------------------------------------------------------------------
(* Every variable stays within its type.                                    *)
TypeOK ==
  /\ plan \in Plans /\ tail \in BOOLEAN
  /\ call \in [Ranks -> 0 .. Len(plan)] /\ pc \in [Ranks -> Locations]
  /\ num_tokens \in [Ranks -> 0 .. MaxTokens]
  /\ slots \in [Ranks -> [Ranks -> {0, 1}]]
  /\ combine \in [Ranks -> [1 .. MaxTokens -> 0 .. Len(plan)]]
  /\ tail_addrs \in [Ranks -> BOOLEAN] /\ uniform \in [Ranks -> BOOLEAN]
  /\ done_counter \in [Ranks -> Nat] /\ active_tiles \in [Ranks -> Nat]
  /\ \A r \in Ranks : /\ rows[r] \in Seq(Ranks \X (1 .. MaxTokens))
                      /\ stored[r] \subseteq Nat /\ counted[r] \subseteq stored[r]
                      /\ signalled[r] \subseteq Ranks

Working == {"l1", "quant", "k3", "signal"}

(* Every route to a rank of this call gets a row of its own (no token is    *)
(* left out by the capacity that K1 estimates): README.md says that token   *)
(* counts may differ between ranks.                                         *)
EveryRouteHasARow ==
  \A r \in Ranks : pc[r] \in Working =>
    ToSet(rows[r]) =
      {st \in Ranks \X (1 .. MaxTokens) :
         LET input == batch[call[r]][st[1]] IN st[2] <= Len(input) /\ input[st[2]] = r}

(* Whatever the peers do meanwhile, the flag for equal token counts that    *)
(* the kernels after the barrier branch on is that of the call's inputs,    *)
(* the same on all ranks.                                                   *)
UniformAgrees ==
  \A r \in Ranks : pc[r] \in Working =>
    (uniform[r] <=> \A s \in Ranks : Len(batch[call[r]][s]) = Len(batch[call[r]][r]))

(* While K3 runs, the launch state kept in the scratch is its own: the      *)
(* arguments of this launch and, for the tail reduce, the addresses of the  *)
(* peers' signals.  README.md has callers switch paths on one buffer.       *)
LaunchStateIntact ==
  \A r \in Ranks : pc[r] \in {"k3", "signal"} =>
    k3_prob[r] = Args(r) /\ (tail => tail_addrs[r])

(* A reduction sums rows of its own call, computed after every peer wrote   *)
(* its inputs and stored before the reduction read; only a route the owner  *)
(* had no row for leaves a row of an earlier call.                          *)
FreshUnlessDropped ==
  [][\A r \in Ranks : y'[r] # y[r] =>
       \A t \in DOMAIN y'[r].read :
         \/ y'[r].read[t] = call[r]
         \/ Path(r) # "fused" /\ <<r, t>> \notin ToSet(rows[Input(r)[t]])]_vars

(* Every call returns on every rank: no lost signal, stale count or barrier *)
(* left unreleased keeps a rank in its spin loops.                          *)
CallsReturn == <>(\A r \in Ranks : pc[r] = "host" /\ call[r] = Len(plan))
=============================================================================

---------------------------- MODULE MegaSchedule ----------------------------
(***************************************************************************)
(* Who does what in the SM100 mega MoE kernel: the walk of every SM over   *)
(* the linear-1 and linear-2 blocks of the local experts (MegaMoEScheduler)*)
(* and the order in which dispatch warps pull the tokens of the ranks.     *)
(* c is an instance:                                                       *)
(*   experts per rank, wave of experts, tokens (expert -> tokens received),*)
(*   bm (BLOCK_M), l1n and l2n (blocks along N), sms                       *)
(***************************************************************************)
EXTENDS Integers, Sequences, FiniteSets, FiniteSetsExt

CeilDiv(a, b) == (a + b - 1) \div b
Align(a, b) == CeilDiv(a, b) * b

NumMBlocks(c, e) == CeilDiv(c.tokens[e], c.bm)
PoolBlockOffset(c, e) == MapThenSumSet(LAMBDA x : NumMBlocks(c, x), 0 .. e - 1)
ValidM(c, e, m) == Min({c.tokens[e] - m * c.bm, c.bm})
Experts(c) == 0 .. c.experts - 1

\* fetch_next_l1_block, fetch_next_l2_block: idx counts the blocks from expert e on.
\* The first expert of its wave that block idx falls into, or the end of the wave.
FetchNext(c, n, e, idx, end) ==
  LET before(x) == n * MapThenSumSet(LAMBDA y : NumMBlocks(c, y), e .. x - 1)
      x == Min({x \in e .. end - 1 : idx < before(x + 1)} \cup {end})
  IN  [expert |-> x, idx |-> idx - before(x)]

\* get_next_block, until there is none: linear 1 of a wave, then linear 2 of it.
BlocksOf(c, sm) ==
  LET from[phase \in {1, 2}, e \in Nat, idx \in Nat] ==
        LET end == Align(e + 1, c.wave)
            n   == IF phase = 1 THEN c.l1n ELSE c.l2n
            f   == FetchNext(c, n, e, idx, end)
        IN  IF e >= c.experts THEN <<>>
            ELSE IF f.expert < end
            THEN <<[phase |-> phase, expert |-> f.expert, m |-> f.idx \div n, n |-> f.idx % n]>>
                   \o from[phase, f.expert, f.idx + c.sms]
            ELSE IF phase = 1 THEN from[2, ((end - 1) \div c.wave) * c.wave, f.idx]
            ELSE from[1, end, f.idx]
  IN  from[1, 0, sm]
PoolBlock(c, b) == PoolBlockOffset(c, b.expert) + b.m

-----------------------------------------------------------------------------
(* Pulling. *)

TokensBefore(c, e) == MapThenSumSet(LAMBDA x : c.tokens[x], 0 .. e - 1)
TotalTokens(c) == TokensBefore(c, c.experts)

\* Token i of the rank: its expert and its number there.
PullTask(c, i) ==
  LET e == Min({x \in Experts(c) : i < TokensBefore(c, x + 1)})
  IN  [expert |-> e, idx |-> i - TokensBefore(c, e)]
\* Mutant: experts share blocks.
PoolRowPacked(c, task) == TokensBefore(c, task.expert) + task.idx
PoolRow(c, task) == PoolBlockOffset(c, task.expert) * c.bm + task.idx

\* The rank and the slot that token number slot of an expert comes from: the ranks
\* that have tokens left take turns, round after round of the least that is left.
PullSource(perRank, slot) ==
  LET peel[remaining \in [DOMAIN perRank -> Nat], k \in Nat, offset \in Nat] ==
        LET active == {q \in DOMAIN remaining : remaining[q] > 0}
            length == Min({remaining[q] : q \in active})
            turns  == length * Cardinality(active)
            nth(i) == CHOOSE q \in active : Cardinality({x \in active : x < q}) = i
        IN  IF k < turns
            THEN [rank |-> nth(k % Cardinality(active)), slot |-> offset + k \div Cardinality(active)]
            ELSE peel[[q \in DOMAIN remaining |-> remaining[q] - Min({remaining[q], length})],
                      k - turns, offset + length]
  IN  peel[perRank, slot, 0]

\* get_num_max_pool_tokens
MaxPoolTokens(ranks, maxTokens, topk, experts) ==
  Align(ranks * maxTokens * Min({topk, experts}) + experts * 191, 384)

-----------------------------------------------------------------------------
(* What they are for. *)

\* The SMs divide the blocks of both layers, by their own arithmetic.
Numbered(sm, bs) == {<<sm, i, bs[i]>> : i \in DOMAIN bs}
Layer(c, phase, n) ==
  UNION {{[phase |-> phase, expert |-> e, m |-> m, n |-> k] :
            m \in 0 .. NumMBlocks(c, e) - 1, k \in 0 .. n - 1} : e \in Experts(c)}
Divides(given, wanted) ==
  {g[3] : g \in given} = wanted /\ Cardinality(given) = Cardinality(wanted)
PartitionsBlocks(c) ==
  Divides(UNION {Numbered(sm, BlocksOf(c, sm)) : sm \in 0 .. c.sms - 1},
          Layer(c, 1, c.l1n) \cup Layer(c, 2, c.l2n))

\* The two SMs of a cluster walk the same blocks, at neighbouring columns.
Neighbours(p, q) == q = [i \in DOMAIN p |-> [p[i] EXCEPT !.n = @ + 1]]
ClustersAgree(c) ==
  \A k \in 0 .. c.sms \div 2 - 1 :
    Neighbours(BlocksOf(c, 2 * k), BlocksOf(c, 2 * k + 1))

\* No SM has linear 2 of a wave before linear 1 of the same or an earlier wave:
\* whoever waits for the linear-1 outputs waits for SMs that do not wait for it.
InOrder(wave, bs) ==
  \A i, j \in DOMAIN bs :
    i < j /\ bs[i].phase = 2 /\ bs[j].phase = 1 => bs[i].expert \div wave < bs[j].expert \div wave
LayersInOrder(c) == \A sm \in 0 .. c.sms - 1 : InOrder(c.wave, BlocksOf(c, sm))

\* Different tokens get different rows, in the blocks of their expert.
RowsDistinct(c) ==
  LET row(i) == PoolRow(c, PullTask(c, i))
      all    == 0 .. TotalTokens(c) - 1
  IN  /\ Cardinality({row(i) : i \in all}) = TotalTokens(c)
      /\ \A i \in all : LET t == PullTask(c, i) IN
           row(i) \div c.bm = PoolBlockOffset(c, t.expert) + t.idx \div c.bm

\* Every token of every rank is pulled by one slot.
SourcesDistinct(perRank) ==
  LET total == MapThenSumSet(LAMBDA q : perRank[q], DOMAIN perRank)
  IN  {PullSource(perRank, i) : i \in 0 .. total - 1}
        = UNION {{[rank |-> q, slot |-> k] : k \in 0 .. perRank[q] - 1} : q \in DOMAIN perRank}

\* The pool is large enough however the tokens are spread over the experts.
PoolFits(c, ranks, maxTokens, topk) ==
  TotalTokens(c) <= ranks * maxTokens * Min({topk, c.experts})
    => PoolBlockOffset(c, c.experts) * c.bm <= MaxPoolTokens(ranks, maxTokens, topk, c.experts)
=============================================================================

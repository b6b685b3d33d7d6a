----------------------------- MODULE MCKernels -----------------------------
(***************************************************************************)
(* Instances of the kernels for TLC: each a kernel with the blocks its     *)
(* scheduler hands to the CTAs of one cluster.                             *)
(***************************************************************************)
EXTENDS KernelSteps, TLC

CONSTANT Kernels  \* the instances of a run
VARIABLES kernel, pc, bar, mem, loads, tensor, stores, out
Table == Kernels    \* computed once
M == INSTANCE KernelMachine WITH Kernels <- Table
S == INSTANCE GemmScheduler
G90 == INSTANCE Sm90Gemm
G100 == INSTANCE Sm100Gemm
SK == INSTANCE SplitKGemm
MS == INSTANCE MqaSchedule
Mqa == INSTANCE MqaLogits
Mega == INSTANCE MegaKernel
MegaS == INSTANCE MegaSchedule

-----------------------------------------------------------------------------
(* GEMM.  A problem of m x n blocks of 2 x 2 elements and k k-blocks. *)

Problem(type, m, n, k, groups, layout, mc, onA, sms, arch) ==
  [type |-> type, m |-> m, n |-> n, k |-> k, bm |-> 2, bn |-> 2, groups |-> groups,
   layout |-> layout, mc |-> mc, onA |-> onA, sms |-> sms, arch |-> arch]
Normal(m, n, k, mc, arch) == Problem("normal", m, n, k, 1, <<>>, mc, FALSE, mc, arch)

\* The blocks of a CTA of the first cluster, as the programs want them.
BlockFor(c, b) ==
  [id |-> <<b.m, b.n, b.group>>, kb |-> b.k, multicast |-> b.multicast, alive |-> b.alive,
   a |-> <<"a", b.m, b.group>>, b |-> <<"b", b.n, S!GroupOf(c, b)>>,
   valid |-> [w \in 0 .. 1 |-> S!ComputationValid(c, b, w)],
   rows |-> 1 + (b.m % 2)]
BlocksFor(c, bs) == [i \in DOMAIN bs |-> BlockFor(c, bs[i])]
WithBlocks(c, p) ==
  [blocks |-> [r \in Ctas |-> IF r < c.sms THEN BlocksFor(c, S!Blocks(c, r)) ELSE <<>>],
   mc |-> c.mc, onA |-> c.onA] @@ p

Sm90Roles(p) == UNION {{<<"load", d>>} \cup G90!MathWarps(p, d) : d \in 0 .. p.mc - 1}
Sm90KernelOf(c, p, load(_, _), math(_, _), parts) ==
  [count |-> G90!Sm90Barriers(p),
   prog |-> [r \in Sm90Roles(p) |-> IF r[1] = "load" THEN load(p, CtaOf(r)) ELSE math(p, r)],
   work |-> IF parts = 0 THEN S!Wanted(c) ELSE S!Wanted(c) \X (0 .. parts - 1)]
Sm90Kernel(c, q, load(_, _), math(_, _), parts) ==
  Sm90KernelOf(c, WithBlocks(c, q), load, math, parts)

Sm100Roles(p) ==
  {<<"mma", 0>>} \cup UNION {{<<"load", d>>} \cup G100!EpiWarps(p, d) : d \in G100!Cluster(p)}
    \cup (IF p.sfPer > 0 THEN {<<"transpose", d>> : d \in G100!Cluster(p)} ELSE {})
Sm100Work(c, p, wanted) ==
  IF p.swapAB THEN UNION {{<<w, s>> : s \in 0 .. w[1] % 2} : w \in wanted}
              ELSE wanted \X (0 .. p.waves - 1)
Sm100KernelOf(c, p, bars(_), load(_, _), mma(_), transpose(_, _), epilogue(_, _)) ==
  [count |-> bars(p),
   prog |-> [r \in Sm100Roles(p) |->
     (CASE r[1] = "load" -> load(p, CtaOf(r))
        [] r[1] = "mma" -> mma(p)
        [] r[1] = "transpose" -> transpose(p, CtaOf(r))
        [] OTHER -> epilogue(p, r)) \o G100!EpilogueExit(Sm100Roles(p))],
   work |-> Sm100Work(c, p, S!Wanted(c))]
Sm100Kernel(c, q, bars(_), load(_, _), mma(_), transpose(_, _), epilogue(_, _)) ==
  Sm100KernelOf(c, WithBlocks(c, q), bars, load, mma, transpose, epilogue)
NoTranspose(p, c) == <<>>
Bf16Kernel(c, q) == Sm100Kernel(c, q, G100!Sm100Bf16Barriers, G100!Sm100Bf16Load, G100!Sm100Bf16Mma,
                                NoTranspose, G100!Sm100Bf16Epilogue)
Fp8Kernel(c, q) == Sm100Kernel(c, q, G100!Sm100Fp8Barriers, G100!Sm100Fp8Load, G100!Sm100Fp8Mma,
                               G100!Sm100Fp8Transpose, G100!Sm100Fp8Epilogue)
Fp8OldKernel(c, q) == Sm100Kernel(c, q, G100!Sm100Fp8OldBarriers, G100!Sm100Fp8OldLoad,
                                  G100!Sm100Fp8OldMma, G100!Sm100Fp8OldTranspose,
                                  G100!Sm100Fp8OldEpilogue)

Q90 == [stages |-> 2, wgs |-> 1, warps |-> 1, storing |-> {<<0, 0>>}]
Q100 == [stages |-> 2, accs |-> 2, warps |-> 1, waves |-> 2, relax |-> FALSE, swapAB |-> FALSE, sfPer |-> 0]

GemmKernels ==
  [bf16_90 |-> Sm90Kernel(Normal(4, 2, 3, 1, 90),
      [Q90 EXCEPT !.warps = 2, !.storing = {<<0, 0>>, <<0, 1>>}],
      G90!Sm90Bf16Load, G90!Sm90Bf16Math, 0),
   bf16_90_mc |-> Sm90Kernel(Normal(6, 2, 3, 2, 90), Q90, G90!Sm90Bf16Load, G90!Sm90Bf16Math, 0),
   bf16_90_contiguous |-> Sm90Kernel(
      Problem("contiguous", 8, 2, 1, 2, <<0, 0, 0, 0, 0, 0, 1, 1>>, 2, FALSE, 2, 90), [Q90 EXCEPT !.stages = 1],
      G90!Sm90Bf16Load, G90!Sm90Bf16Math, 0),
   fp8_1d2d_90 |-> Sm90Kernel(
      Problem("contiguous", 4, 2, 2, 2, <<0, -1, 1, 1>>, 1, FALSE, 1, 90),
      [Q90 EXCEPT !.wgs = 2, !.storing = {<<0, 0>>, <<1, 0>>}], G90!Sm90Fp8LoadAB, G90!Sm90Fp8Math, 0),
   fp8_1d2d_90_small |-> Sm90Kernel(Normal(4, 2, 2, 1, 90), [Q90 EXCEPT !.warps = 2],
      G90!Sm90Fp8LoadAB, G90!Sm90Fp8Math, 0),
   fp8_1d1d_90 |-> Sm90Kernel(Problem("kgrouped", 2, 2, 0, 3, <<2, 0, 3>>, 1, FALSE, 1, 90),
      [Q90 EXCEPT !.wgs = 2], G90!Sm90Fp8Load1D1D, G90!Sm90Fp8Math1D1D, 2),
   bf16_100 |-> Bf16Kernel(Normal(6, 2, 2, 1, 100), [Q100 EXCEPT !.relax = TRUE, !.waves = 1]),
   bf16_100_mc |-> Bf16Kernel(Normal(8, 2, 1, 2, 100), [Q100 EXCEPT !.waves = 1, !.accs = 1]),
   bf16_100_swap |-> Bf16Kernel(Problem("psum", 8, 2, 1, 2, <<3, 7>>, 1, TRUE, 1, 100),
                                [Q100 EXCEPT !.swapAB = TRUE]),
   fp8_100 |-> Fp8Kernel(Normal(4, 2, 3, 1, 100), [Q100 EXCEPT !.sfPer = 2]),
   fp8_100_mc |-> Fp8Kernel(Normal(4, 2, 3, 2, 100), [Q100 EXCEPT !.stages = 1, !.waves = 1, !.sfPer = 2]),
   fp8_100_old |-> Fp8OldKernel(Normal(4, 2, 2, 1, 100), [Q100 EXCEPT !.sfPer = 2, !.waves = 1])]

-----------------------------------------------------------------------------
(* Split-K kernels. *)

SplitP(share, warps, waves) ==
  [stages |-> 2, total |-> share.total, first |-> share.first, warps |-> warps, waves |-> waves]
SplitKernel(p, bars(_), prog, work) == [count |-> bars(p), prog |-> prog, work |-> work]
WithLoader(p, name, load(_), math(_, _)) ==
  [r \in {<<"load", 0>>} \cup SK!Warps(p, name) |-> IF r[1] = "load" THEN load(p) ELSE math(p, r)]

SplitKernels ==
  LET bmk == SplitP(SK!BmkShare([all |-> 7, split |-> 4], 1), 2, 3)
      hc  == SplitP(SK!HcShare([all |-> 9, splits |-> 2], 0), 2, 1)
      sums == {<<"sqr_sum", j>> : j \in 0 .. hc.warps - 1} \cup {<<"d", 0>>}
  IN [bmk_90 |-> SplitKernel(bmk, SK!Sm90BmkBarriers,
        WithLoader(bmk, "math", SK!Sm90BmkLoad, SK!Sm90BmkMath), {<<"d", 0>>, <<"d", 1>>}),
      bmk_100 |-> SplitKernel(bmk, SK!Sm100BmkBarriers,
        [r \in SK!Warps(bmk, "warp") |-> SK!Sm100BmkWarp(bmk, r)], {<<"d", s>> : s \in 0 .. 2}),
      hc_90 |-> SplitKernel(hc, SK!Sm90HcBarriers,
        WithLoader(hc, "math", SK!Sm90HcLoad, SK!Sm90HcMath), sums),
      hc_100 |-> SplitKernel(hc, SK!Sm100HcBarriers,
        [r \in SK!Warps(hc, "warp") \cup SK!Warps(hc, "cast") |->
           IF r[1] = "warp" THEN SK!Sm100HcWarp(hc, r) ELSE SK!Sm100HcCast(hc, r)], sums)]

-----------------------------------------------------------------------------
(* MQA logits. *)

Others(names) == {<<o, 0>> : o \in names}
MqaRoles(p, others) == others \cup Mqa!MathAll(p)
MqaWork(p, kvs) == {<<kv, w, j>> : kv \in kvs, w \in 0 .. p.wgs - 1, j \in 0 .. p.warps - 1}

\* Three query blocks of one SM, the second with an empty range.
Ranges == [seqLen |-> 3, seqLenKv |-> 12, ks |-> [t \in 0 .. 2 |-> 0],
           ke |-> [t \in 0 .. 2 |-> <<11, 0, 7>>[t + 1]], blockQ |-> 1, blockKv |-> 4, sms |-> 1]
QueryBlocks(c, sm) ==
  LET block(q) == [q |-> q, kb |-> MS!NumKvBlocks(c, q)]
  IN  [i \in DOMAIN MS!QBlocksOf(c, sm) |-> block(MS!QBlocksOf(c, sm)[i])]
BlockWork(p) == MqaWork(p, UNION {{<<b.q, n>> : n \in 0 .. b.kb - 1} : b \in Range(p.blocks)})

\* The second of two SMs: the rest of a query, one without context, another one.
Paged == [batch |-> 4, nextN |-> 1, lens |-> <<5, 11, 0, 3>>, lens2d |-> FALSE,
          varlen |-> FALSE, indices |-> <<>>, blockKv |-> 2, perSplit |-> 2, sms |-> 2]
TaskWork(p) == MqaWork(p, {<<t.atom, t.kv>> : t \in Range(p.tasks)})

MP(wgs, tmem) == [qs |-> 2, kvs |-> 2, wgs |-> wgs, warps |-> 1, tmem |-> tmem, kept |-> TRUE]
Unpaged(wgs, tmem) == [blocks |-> QueryBlocks(Ranges, 0)] @@ MP(wgs, tmem)
PagedP(wgs, tmem) == [tasks |-> MS!Tasks(Paged, 1)] @@ MP(wgs, tmem)
\* Smaller, and with one query stage, for the kernels of most roles.
ShortRanges == [Ranges EXCEPT !.ke = [t \in 0 .. 2 |-> <<7, 0, 3>>[t + 1]]]
ShortPaged == [Paged EXCEPT !.batch = 2, !.lens = <<8, 3>>, !.sms = 1]
Fp4P == [MP(2, 3) EXCEPT !.qs = 1]

MqaKernel(p, bars(_), work, others, prog(_, _)) ==
  [count |-> bars(p), work |-> work, prog |-> [r \in MqaRoles(p, others) |-> prog(p, r)]]

Prog90(p, r) == IF r[1] = "load" THEN Mqa!Sm90MqaLoad(p) ELSE Mqa!Sm90MqaMath(p, r)
Prog100(p, r) ==
  CASE r[1] = "load" -> Mqa!Sm100MqaLoad(p) [] r[1] = "umma" -> Mqa!Sm100MqaUmma(p)
    [] OTHER -> Mqa!Sm100MqaMath(p, r)
ProgFp4(p, r) ==
  CASE r[1] = "load_q" -> Mqa!Fp4MqaLoadQ(p) [] r[1] = "load_kv" -> Mqa!Fp4MqaLoadKv(p)
    [] r[1] = "umma" -> Mqa!Fp4MqaUmma(p) [] OTHER -> Mqa!Fp4MqaMath(p, r)
PagedProg90(p, r) ==
  IF r[1] = "load" THEN Mqa!Sm90PagedLoad(p, r[2]) ELSE Mqa!Sm90PagedMath(p, r)
PagedProg100(p, r) ==
  CASE r[1] = "load" -> Mqa!Sm100PagedLoad(p) [] r[1] = "umma" -> Mqa!Sm100PagedUmma(p)
    [] OTHER -> Mqa!Sm100PagedMath(p, r)
PagedProgFp4(p, r) ==
  CASE r[1] = "load_q" -> Mqa!Fp4PagedLoadQ(p) [] r[1] = "load_kv" -> Mqa!Fp4PagedLoadKv(p)
    [] r[1] = "umma" -> Mqa!Fp4PagedUmma(p) [] OTHER -> Mqa!Fp4PagedMath(p, r)

UnpagedKernel(p, bars(_), others, prog(_, _)) == MqaKernel(p, bars, BlockWork(p), others, prog)
PagedKernel(p, bars(_), others, prog(_, _)) == MqaKernel(p, bars, TaskWork(p), others, prog)

MqaKernels ==
  [mqa_90 |-> UnpagedKernel(Unpaged(2, 2), Mqa!Sm90MqaBarriers, {<<"load", 0>>}, Prog90),
   mqa_100 |-> UnpagedKernel(Unpaged(2, 2), Mqa!Sm100MqaBarriers, Others({"load", "umma"}), Prog100),
   mqa_fp4 |-> UnpagedKernel([blocks |-> QueryBlocks(ShortRanges, 0)] @@ Fp4P,
      Mqa!Fp4MqaBarriers, Others({"load_q", "load_kv", "umma"}), ProgFp4),
   paged_90 |-> PagedKernel([tasks |-> MS!Tasks(ShortPaged, 0), kvs |-> 1] @@ MP(2, 2),
      Mqa!Sm90PagedBarriers, {<<"load", g, 0>> : g \in 0 .. 1}, PagedProg90),
   paged_100 |-> PagedKernel(PagedP(2, 2), Mqa!Sm100PagedBarriers, Others({"load", "umma"}), PagedProg100),
   paged_fp4 |-> PagedKernel([tasks |-> MS!Tasks(ShortPaged, 0)] @@ Fp4P,
      Mqa!Fp4PagedBarriers, Others({"load_q", "load_kv", "umma"}), PagedProgFp4)]

-----------------------------------------------------------------------------
(* Mega MoE: one cluster is the whole rank. *)

\* Linear-1 and linear-2 blocks, of two rows each, of n tokens for the only expert;
\* the warps of CTA 0 combine.
MegaP(wgs, warps, split, n, routes, stages, chunks) ==
  LET c == [experts |-> 1, wave |-> 1, tokens |-> [e \in {0} |-> n], bm |-> 2,
            l1n |-> 2, l2n |-> 2, sms |-> 2]
      rows(b, d, w) ==
        LET high == c.bm \div (wgs[d] * split[d])     \* STORE_BLOCK_M
        IN  Cardinality({s \in 0 .. split[d] - 1 : (w * split[d] + s) * high < MegaS!ValidM(c, b.expert, b.m)})
      block(b, d) ==
        [id |-> <<b.phase, b.m, b.n>>, phase |-> b.phase, pool |-> MegaS!PoolBlock(c, b), kb |-> 1,
         a |-> <<"a", b.phase, b.m>>, b |-> <<"b", b.phase, b.n>>,
         rows |-> [w \in 0 .. wgs[d] - 1 |-> rows(b, d, w)]]
      own(ts, d, k) == SelectSeq(ts, LAMBDA t : t.id % k = d)
  IN  [stages |-> stages, accs |-> 2, mc |-> 2, onA |-> TRUE, relax |-> FALSE,
       wgs |-> wgs, warps |-> warps, stores |-> split, chunks |-> chunks,
       blocks |-> [d \in Ctas |-> LET bs == MegaS!BlocksOf(c, d) IN
                                  [i \in DOMAIN bs |-> block(bs[i], d)]],
       pulls |-> [d \in Ctas |-> own([i \in 1 .. n |-> [id |-> i - 1, pool |-> (i - 1) \div c.bm]], d, 2)],
       combine |-> [r \in UNION {Mega!AllEpilogue([wgs |-> wgs, warps |-> warps], d) : d \in Ctas} |->
                     IF CtaOf(r) = 0
                     THEN own([i \in DOMAIN routes |-> [id |-> i - 1, token |-> i - 1, routes |-> routes[i]]],
                              warps[0] * r[2] + r[3], wgs[0] * warps[0])
                     ELSE <<>>]]
MegaKernelOf(p) ==
  LET blocks == Range(p.blocks[0]) \cup Range(p.blocks[1])
      parts(b) == UNION {{<<"block", b.id, w, s>> : s \in 0 .. b.rows[w] - 1} : w \in DOMAIN b.rows}
  IN  [count |-> Mega!MegaBarriers(p),
       prog |-> [r \in Mega!MegaRoles(p) |->
         CASE r[1] = "mma" -> Mega!MegaMma(p)
           [] r[1] = "dispatch" -> Mega!MegaDispatch(p, r[2])
           [] r[1] = "load_a" -> Mega!MegaLoadA(p, r[2])
           [] r[1] = "load_b" -> Mega!MegaLoadB(p, r[2])
           [] r[1] = "epi" -> Mega!MegaEpilogue(p, r)],
       work |-> {<<"pulled", t.id>> : t \in Range(p.pulls[0]) \cup Range(p.pulls[1])}
         \cup UNION {parts(b) : b \in {x \in blocks : x.phase = 1}}
         \cup UNION {{<<"rows", x, j>> : x \in UNION {parts(b) : b \in {y \in Range(p.blocks[d]) : y.phase = 2}},
                                         j \in 0 .. p.warps[d] - 1} : d \in Ctas}
         \cup UNION {{<<"y", <<t.token, k>>>> : t \in Range(p.combine[r]), k \in 0 .. p.chunks - 1}
                       : r \in DOMAIN p.combine}]
ByCta(x, y) == [d \in Ctas |-> IF d = 0 THEN x ELSE y]
MegaKernels ==
  [mega_100 |-> MegaKernelOf(MegaP(ByCta(1, 1), ByCta(2, 1), ByCta(2, 1), 1, << <<0, 1>> >>, 1, 2))]

KernelInstances == GemmKernels @@ SplitKernels @@ MqaKernels @@ MegaKernels

\* What the SM90 heuristics allow besides: a k-grouped GEMM on clusters of two CTAs
\* with three blocks per group, so that one pair of CTAs straddles two groups.
KgroupOddInstances ==
  [kgroup_odd |-> Sm90Kernel(Problem("kgrouped", 2, 6, 0, 2, <<1, 2>>, 2, TRUE, 2, 90), Q90,
                             G90!Sm90Fp8Load1D1D, G90!Sm90Fp8Math1D1D, 1)]

-----------------------------------------------------------------------------
(* The schedules themselves, for many more problems, at the start of a run. *)

AtStart == kernel = "bmk_90" /\ \A r \in M!Roles : pc[r] = 1

GemmProblems ==
  LET some(type, ms, ns, layouts, mcs, groups, arch) ==
        {Problem(type, m, n, 2, groups, l, mc, onA, 4, arch) :
           m \in ms, n \in ns, l \in layouts, mc \in mcs, onA \in BOOLEAN}
  IN  some("normal", {3, 18, 39}, {2, 8, 37}, {<<>>}, {1, 2}, 1, 90)
      \cup some("normal", {8, 20}, {8}, {<<>>}, {1, 2}, 1, 100)
      \cup some("batched", {3, 5}, {2, 6}, {<<>>}, {1}, 3, 90)
      \cup some("contiguous", {8}, {4, 6}, {<<0, 0, 0, 0, 1, 1, 1, -1>>, <<0, 0, 1, 1, 1, 1, 2, 2>>}, {1, 2}, 3, 90)
      \cup some("masked", {8}, {4, 8}, {<<0, 5, 3>>, <<7, 0, 2>>}, {1, 2}, 3, 90)
      \cup some("psum", {8}, {4, 8}, {<<0, 5, 9>>, <<2, 2, 4>>}, {1, 2}, 3, 90)
      \cup some("kgrouped", {4, 8}, {2, 6}, {<<0, 2, 3>>, <<2, 0, 0>>, <<1, 2, 0>>}, {1, 2}, 3, 90)

Lens == {0, 1, 4, 9}
PagedProblems ==
  {[Paged EXCEPT !.batch = 3, !.nextN = n, !.lens = l, !.sms = sms] :
     n \in {1, 2, 3}, l \in [1 .. 3 -> Lens], sms \in {2, 5}}
    \cup {[Paged EXCEPT !.varlen = TRUE, !.indices = ix, !.lens = l, !.sms = 3] :
            ix \in {<<0, 0, 0, 1>>, <<0, 1, 1, 2>>}, l \in [1 .. 4 -> {0, 3, 9}]}
RangeProblems ==
  {[Ranges EXCEPT !.seqLenKv = kv, !.ks = ks, !.ke = ke, !.blockQ = bq, !.sms = 2] :
     kv \in {6, 9}, bq \in {1, 2}, ks \in [0 .. 2 -> {0, 3}], ke \in [0 .. 2 -> {3, 5, 9}]}

\* The SMs, each by its own arithmetic, divide the output blocks of every problem
\* among them, and split-K CTAs the k blocks of their output block.
SchedulesPartition ==
  AtStart =>
    /\ \A c \in GemmProblems : S!PartitionsBlocks(c)
    /\ \A all \in 1 .. 9, n \in 1 .. 4 :
         /\ LET q == [all |-> all, split |-> n] IN
            SK!SharesCover([i \in 0 .. SK!BmkSplits(q) - 1 |-> SK!BmkShare(q, i)], all)
         /\ SK!SharesCover([i \in 0 .. n - 1 |-> SK!HcShare([all |-> all, splits |-> n], i)], all)

\* The two CTAs of a cluster get blocks that can be loaded together: for the SM90
\* k-grouped GEMM only with an even number of blocks per group.
PeersAgree ==
  AtStart => \A c \in {p \in GemmProblems : p.mc = 2} :
    (c.type = "kgrouped" => S!BlocksPerGroup(c) % 2 = 0) => S!PeersAgree(c)

\* The tasks of the paged and the ranges of the unpaged logits kernels.
LogitsScheduled ==
  AtStart => /\ \A c \in PagedProblems : MS!PagedTasks(c)
             /\ \A c \in RangeProblems : MS!RangesCovered(c)

-----------------------------------------------------------------------------
(* The machine, on these kernels. *)

\* As M!Spec: fair as a whole.
vars == <<kernel, pc, bar, mem, loads, tensor, stores, out>>
MCSpec == M!Init /\ [][M!Next]_vars /\ WF_vars(M!Next)

\* Whatever a warp, a copy engine or a tensor core reads is the block it means to
\* consume, and nobody writes it meanwhile: the full and empty barriers of all stages.
ReadsMatch == M!ReadsMatch
\* Every output block is written once by the CTAs together, whoever schedules it.
ResultsOnce == M!ResultsOnce
\* No barrier or memory of a CTA that has exited is used by its peer (the drains of
\* the loaders and the final cluster_sync).
ExitedAreAlone == M!ExitedAreAlone
\* Every kernel ends: no role waits for a phase of a barrier that nobody completes.
Terminates == M!Terminates
=============================================================================

----------------------------- MODULE Sm100Gemm -----------------------------
(***************************************************************************)
(* The SM100 GEMM kernels as programs: a TMA warp per CTA fills a ring of  *)
(* stages, one warp of the leader CTA feeds the tensor cores of the whole  *)
(* cluster, epilogue warps drain the accumulators in tensor memory through *)
(* two staging buffers to TMA stores.  The FP8 kernels have a further warp *)
(* that transposes scale factors in place for the copy to tensor memory.   *)
(*                                                                         *)
(* An instance p has: stages, mc (1 or 2 CTAs), onA (the operand of which  *)
(* each CTA holds a half), accs accumulators, warps modelled epilogue      *)
(* warps, waves store stages per block, relax (utilisation control on),    *)
(* sfPer k blocks per scale factor load, and blocks for each CTA.          *)
(***************************************************************************)
EXTENDS KernelSteps

Cluster(p) == 0 .. p.mc - 1
EpiWarps(p, c) == {<<"epi", j, c>> : j \in 0 .. p.warps - 1}
TmemFull(e, c) == <<"tmem_full", e, c>>
TmemEmpty(e, c) == <<"tmem_empty", e, c>>
WithSfFull(s, c) == <<"with_sf_full", s, c>>
TensorCoreFull == <<"tensor_core_full", 0>>
Tmem(e, c) == <<"tmem", e, c>>     \* an accumulator

\* What slot "a" and slot "b" of CTA c hold for k block k of block b: the shared
\* operand in halves, one per CTA, the other one whole.
OperandA(p, b, k, c) == IF p.onA /\ p.mc > 1 THEN <<b.a, k, c>> ELSE <<b.a, k, 0>>
OperandB(p, b, k, c) == IF ~p.onA /\ p.mc > 1 THEN <<b.b, k, c>> ELSE <<b.b, k, 0>>

\* The operands the block of every CTA of the cluster needs: its own part and both
\* halves of the shared one.
MmaUses(p, i, k, s) ==
  UNION {LET b(d) == p.blocks[d][i + 1] IN
    {<<Slot("a", s, c), OperandA(p, b(c), k, c)>>, <<Slot("b", s, c), OperandB(p, b(c), k, c)>>}
      \cup {IF p.onA THEN <<Slot("a", s, c), OperandA(p, b(d), k, c)>>
                     ELSE <<Slot("b", s, c), OperandB(p, b(d), k, c)>> : d \in Cluster(p)}
    : c \in Cluster(p)}

\* The warps of all CTAs meet before tensor memory is freed.
EpilogueExit(roles) == Sync("exit", roles)

-----------------------------------------------------------------------------
(* sm100_bf16_gemm *)

Sm100Bf16Barriers(p) ==
  [b \in {Full(s, c) : s \in 0 .. p.stages - 1, c \in Ctas}
          \cup {Empty(s, c) : s \in 0 .. p.stages - 1, c \in Ctas}
          \cup {TmemFull(e, c) : e \in 0 .. p.accs - 1, c \in Ctas}
          \cup {TmemEmpty(e, c) : e \in 0 .. p.accs - 1, c \in Ctas}
          \cup {TensorCoreFull} |->
     CASE b[1] = "full" -> p.mc
       [] b[1] = "tmem_empty" -> p.mc * p.warps
       [] OTHER -> 1]

\* Two-CTA copies signal the barrier of the leader CTA only.
Sm100Bf16Load(p, c) ==
  LET bs == p.blocks[c]
      iteration(b, k, it) ==
        LET s == Stage(it, p.stages)
        IN  Wait(Empty(s, c), Before(it, p.stages))
            \o Load({<<Slot("a", s, c), Full(s, 0)>>}, OperandA(p, b, k, c))
            \o Load({<<Slot("b", s, c), Full(s, 0)>>}, OperandB(p, b, k, c))
            \o IF c = 0 THEN ArriveExpect(Full(s, 0), 2 * p.mc) ELSE Arrive({Full(s, 0)}, 1)
  IN  For(Len(bs), LAMBDA i : For(bs[i + 1].kb, LAMBDA k :
        iteration(bs[i + 1], k, FirstOf(bs, i) + k)))

\* Commits are issued after the MMAs they cover; the last one also hands the
\* accumulator to the epilogue.
Sm100Bf16Mma(p) ==
  LET bs == p.blocks[0]
      iteration(i, k, it) ==
        LET s == Stage(it, p.stages)  e == i % p.accs
        IN  Wait(Full(s, 0), Parity(it, p.stages))
            \o Mma(0, MmaUses(p, i, k, s), {Tmem(e, c) : c \in Cluster(p)}, i, k)
            \o Commit(0, {Empty(s, c) : c \in Cluster(p)})
            \o When(k = bs[i + 1].kb - 1, Commit(0, {TmemFull(e, c) : c \in Cluster(p)}))
            \o When(p.relax, Commit(0, {TensorCoreFull}) \o Wait(TensorCoreFull, it % 2))
      last == Len(bs) - 1
  IN  For(Len(bs), LAMBDA i :
        Wait(TmemEmpty(i % p.accs, 0), Before(i, p.accs))
        \o For(bs[i + 1].kb, LAMBDA k : iteration(i, k, FirstOf(bs, i) + k)))
      \o When(p.mc > 1 /\ last >= 0, Wait(TmemEmpty(last % p.accs, 0), Parity(last, p.accs)))

\* epilogue::sm100_store_cd, for block i of the CTA of warp r.
Sm100StoreCd(p, r, i) ==
  LET c == CtaOf(r)  b == p.blocks[c][i + 1]  e == i % p.accs
      leader == r[2] = 0
      wave(s) ==
        LET t == (i * p.waves + s) % 2
            cd(q) == <<"cd", t, q[2], c>>
        IN  When(leader, StoreWait(1))
            \o Sync("epilogue", EpiWarps(p, c))
            \o Read({<<Tmem(e, c), Acc(i, b.kb - 1)>>})
            \o Write(cd(r), <<b.id, s>>)
            \o When(s = p.waves - 1, Arrive({TmemEmpty(e, 0)}, 1))
            \o Sync("epilogue", EpiWarps(p, c))
            \o When(leader, Store({<<cd(q), <<b.id, s>>>> : q \in EpiWarps(p, c)}, <<b.id, s>>))
  IN  For(p.waves, wave)

\* epilogue::sm100_store_cd_swap_ab: as many waves as the block has valid rows for.
Sm100StoreCdSwapAB(p, r, i) ==
  LET c == CtaOf(r)  b == p.blocks[c][i + 1]  e == i % p.accs
      before == FoldLeft(LAMBDA n, x : n + x.rows, 0, SubSeq(p.blocks[c], 1, i))
      wave(s) ==
        LET t == (before + s) % 2
            cd(q) == <<"cd", t, q[2], c>>
        IN  When(r[2] = 0, StoreWait(1))
            \o Sync("epilogue", EpiWarps(p, c))
            \o Read({<<Tmem(e, c), Acc(i, b.kb - 1)>>})
            \o Write(cd(r), <<b.id, s>>)
            \o When(s = b.rows - 1, Arrive({TmemEmpty(e, 0)}, 1))
            \o Sync("epilogue", EpiWarps(p, c))
            \o When(r[2] = 0, Store({<<cd(q), <<b.id, s>>>> : q \in EpiWarps(p, c)}, <<b.id, s>>))
  IN  For(b.rows, wave)

Sm100Bf16Epilogue(p, r) ==
  LET c == CtaOf(r)
  IN  For(Len(p.blocks[c]), LAMBDA i :
        Wait(TmemFull(i % p.accs, c), Parity(i, p.accs))
        \o IF p.swapAB THEN Sm100StoreCdSwapAB(p, r, i) ELSE Sm100StoreCd(p, r, i))

-----------------------------------------------------------------------------
(* sm100_fp8_fp4_gemm_1d1d *)

Sm100Fp8Barriers(p) ==
  [b \in DOMAIN Sm100Bf16Barriers(p) \cup {WithSfFull(s, c) : s \in 0 .. p.stages - 1, c \in Ctas} |->
     CASE b[1] = "with_sf_full" -> p.mc
       [] b[1] = "tmem_empty" -> p.mc * p.warps
       [] OTHER -> 1]

Sf(b, k) == <<<<"sf", b.id>>, k, 0>>
SfReady(b, k) == <<<<"sf_transposed", b.id>>, k, 0>>

\* Every CTA copies into its own full barrier; the scale factors of sfPer k blocks
\* come with the first of them.
Sm100Fp8Load(p, c) ==
  LET bs == p.blocks[c]
      iteration(b, k, it) ==
        LET s == Stage(it, p.stages)
        IN  Wait(Empty(s, c), Before(it, p.stages))
            \o Load({<<Slot("a", s, c), Full(s, c)>>}, OperandA(p, b, k, c))
            \o Load({<<Slot("b", s, c), Full(s, c)>>}, OperandB(p, b, k, c))
            \o When(k % p.sfPer = 0, Load({<<Slot("sf", s, c), Full(s, c)>>}, Sf(b, k)))
            \o ArriveExpect(Full(s, c), IF k % p.sfPer = 0 THEN 3 ELSE 2)
  IN  For(Len(bs), LAMBDA i : For(bs[i + 1].kb, LAMBDA k :
        iteration(bs[i + 1], k, FirstOf(bs, i) + k)))

\* The UTCCP copy of the scale factors to tensor memory is queued with the MMA that
\* follows it; MMAs in between use the copy.
Sm100Fp8Mma(p) ==
  LET bs == p.blocks[0]
      sf(i, k, s) == {<<Slot("sf", s, c), SfReady(p.blocks[c][i + 1], k)>> : c \in Cluster(p)}
      iteration(i, k, it) ==
        LET s == Stage(it, p.stages)  e == i % p.accs
        IN  Wait(WithSfFull(s, 0), Parity(it, p.stages))
            \o Mma(0, MmaUses(p, i, k, s) \cup (IF k % p.sfPer = 0 THEN sf(i, k, s) ELSE {}),
                   {Tmem(e, c) : c \in Cluster(p)}, i, k)
            \o Commit(0, {Empty(s, c) : c \in Cluster(p)})
            \o When(k = bs[i + 1].kb - 1, Commit(0, {TmemFull(e, c) : c \in Cluster(p)}))
      last == Len(bs) - 1
  IN  For(Len(bs), LAMBDA i :
        Wait(TmemEmpty(i % p.accs, 0), Before(i, p.accs))
        \o For(bs[i + 1].kb, LAMBDA k : iteration(i, k, FirstOf(bs, i) + k)))
      \o When(p.mc > 1 /\ last >= 0, Wait(TmemEmpty(last % p.accs, 0), Parity(last, p.accs)))

\* The transposing warp: in place, in shared memory, then on to the leader CTA.
Sm100Fp8Transpose(p, c) ==
  LET bs == p.blocks[c]
      iteration(b, k, it) ==
        LET s == Stage(it, p.stages)
        IN  Wait(Full(s, c), Parity(it, p.stages))
            \o When(k % p.sfPer = 0,
                 Read({<<Slot("sf", s, c), Sf(b, k)>>}) \o Write(Slot("sf", s, c), SfReady(b, k)))
            \o Arrive({WithSfFull(s, 0)}, 1)
  IN  For(Len(bs), LAMBDA i : For(bs[i + 1].kb, LAMBDA k :
        iteration(bs[i + 1], k, FirstOf(bs, i) + k)))

Sm100Fp8Epilogue(p, r) ==
  LET c == CtaOf(r)
  IN  For(Len(p.blocks[c]), LAMBDA i :
        Wait(TmemFull(i % p.accs, c), Parity(i, p.accs))
        \o IF p.swapAB THEN Sm100StoreCdSwapAB(p, r, i) ELSE Sm100StoreCd(p, r, i))

-----------------------------------------------------------------------------
(* sm100_fp8_gemm_1d1d, the kernel before FP4 came in: the same protocol. *)

Sm100Fp8OldBarriers(p) == Sm100Fp8Barriers(p)
Sm100Fp8OldLoad(p, c) == Sm100Fp8Load(p, c)
Sm100Fp8OldMma(p) == Sm100Fp8Mma(p)
Sm100Fp8OldTranspose(p, c) == Sm100Fp8Transpose(p, c)
Sm100Fp8OldEpilogue(p, r) ==
  LET c == CtaOf(r)
  IN  For(Len(p.blocks[c]), LAMBDA i :
        Wait(TmemFull(i % p.accs, c), Parity(i, p.accs)) \o Sm100StoreCd(p, r, i))
=============================================================================

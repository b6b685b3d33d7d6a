------------------------------ MODULE Sm90Gemm ------------------------------
(***************************************************************************)
(* The SM90 GEMM kernels as programs: a TMA warp fills a ring of stages,   *)
(* math warp groups consume it with WGMMA and stage their results for a    *)
(* TMA store.  With a cluster of two CTAs one operand is copied once into  *)
(* both.                                                                   *)
(*                                                                         *)
(* An instance p has: stages, mc (CTAs in the cluster), onA, wgs math warp *)
(* groups of warps modelled warps each, storing (the warps whose rows are  *)
(* stored) and blocks, for each CTA the blocks of its scheduler with       *)
(*   id a b sfb   names of the block and of the operands it needs          *)
(*   kb           its number of k blocks                                   *)
(*   multicast, alive, valid   what the scheduler says of it               *)
(* A scale factor travels with its operand: the two copies have one        *)
(* barrier, one multicast flag and one reader.                             *)
(***************************************************************************)
EXTENDS KernelSteps

MathWarps(p, c) == {<<"math", w, j, c>> : w \in 0 .. p.wgs - 1, j \in 0 .. p.warps - 1}
WarpGroup(p, w, c) == {<<"math", w, j, c>> : j \in 0 .. p.warps - 1}
StoringWarps(p, c) == {r \in MathWarps(p, c) : <<r[2], r[3]>> \in p.storing}
First(p) == <<"math", 0, 0>>    \* the warp whose threads issue the stores

Sm90Barriers(p) ==
  [b \in {Full(s, c) : s \in 0 .. p.stages - 1, c \in Ctas}
          \cup {Empty(s, c) : s \in 0 .. p.stages - 1, c \in Ctas} |->
     IF b[1] = "full" THEN 1 ELSE p.mc * p.wgs * p.warps]

\* Mutant: the TMA warp does not wait before it exits.
NoDrain(p, c, it) == <<>>

\* "we need another round of empty waits"
Sm90Drain(p, c, it) ==
  When(p.mc > 1, For(p.stages, LAMBDA s :
    Wait(Empty(Stage(it + s, p.stages), c), Before(it + s, p.stages))))

\* Mutant: a warp whose peer has left arrives once, like one without a peer.
Sm90EmptyArriveOnce(p, c, b, s) ==
  Arrive({Empty(s, d) : d \in IF p.mc > 1 /\ b.alive THEN Ctas ELSE {c}}, 1)

\* empty_barrier_arrive of one warp: lane l arrives at CTA l, or all lanes at their
\* own CTA when the peer has left.
Sm90EmptyArrive(p, c, b, s) ==
  CASE p.mc = 1 -> Arrive({Empty(s, c)}, 1)
    [] p.mc > 1 /\ b.alive -> Arrive({Empty(s, d) : d \in Ctas}, 1)
    [] OTHER -> Arrive({Empty(s, c)}, p.mc)

\* One iteration of a TMA warp.
Sm90LoadIteration(p, c, b, k, it) ==
  LET s == Stage(it, p.stages)
  IN  Wait(Empty(s, c), Before(it, p.stages))
      \o Copy(p.onA /\ b.multicast, "a", s, c, <<b.a, k>>)
      \o Copy(~p.onA /\ b.multicast, "b", s, c, <<b.b, k>>)
      \o ArriveExpect(Full(s, c), 2)

AB(b, k, s, c) == {<<Slot("a", s, c), <<b.a, k>>>>, <<Slot("b", s, c), <<b.b, k>>>>}
D(r) == <<"d">> \o Tail(r)      \* the staging rows of a math warp
-----------------------------------------------------------------------------
(* sm90_bf16_gemm *)

\* The TMA warp: all k blocks of all its blocks.
Sm90Bf16Load(p, c) ==
  LET bs == p.blocks[c]
  IN  For(Len(bs), LAMBDA i : For(bs[i + 1].kb, LAMBDA k :
        Sm90LoadIteration(p, c, bs[i + 1], k, FirstOf(bs, i) + k)))
      \o Sm90Drain(p, c, Iterations(bs))

\* One k block of a math warp.  WGMMA is a matter of the whole warp group: a warp
\* gets past it when all warps of the group have issued it.
Sm90Consume(p, r, b, k, it) ==
  LET c == CtaOf(r)  s == Stage(it, p.stages)
  IN  Wait(Full(s, c), Parity(it, p.stages))
      \o Sync("wgmma", WarpGroup(p, r[2], c))
      \o Read(AB(b, k, s, c))
      \o Sm90EmptyArrive(p, c, b, s)

\* Staging of a block's result by the warps whose rows are stored.
Sm90StoreBlock(p, r, b) ==
  LET group == StoringWarps(p, CtaOf(r))  leads == SubSeq(r, 1, 3) = First(p)
  IN  When(r \in group,
        When(leads, StoreWait(0))
        \o Sync("store", group)
        \o Write(D(r), <<b.id>>)
        \o Sync("store", group)
        \o When(leads, Store({<<D(q), <<b.id>>>> : q \in group}, b.id)))

Sm90Bf16Math(p, r) ==
  LET bs == p.blocks[CtaOf(r)]
  IN  For(Len(bs), LAMBDA i :
        For(bs[i + 1].kb, LAMBDA k : Sm90Consume(p, r, bs[i + 1], k, FirstOf(bs, i) + k))
        \o Sm90StoreBlock(p, r, bs[i + 1]))

-----------------------------------------------------------------------------
(* sm90_fp8_gemm_1d2d: the same TMA warp. *)

Sm90Fp8LoadAB(p, c) == Sm90Bf16Load(p, c)

\* The scales of B are copied per block by all warps but the first, while TMA
\* stores of the block before may still run, and read once per k block.  A warp
\* group without valid rows only keeps the ring moving.
Sm90Fp8Math(p, r) ==
  LET c == CtaOf(r)  bs == p.blocks[c]
      loaders == MathWarps(p, c) \ {First(p) \o <<c>>}
      sfb(q)  == <<"sfb">> \o Tail(q)
      skip(b, it) == Wait(Full(Stage(it, p.stages), c), Parity(it, p.stages))
                     \o Sm90EmptyArrive(p, c, b, Stage(it, p.stages))
      block(i) ==
        LET b == bs[i + 1] IN
        When(r \in loaders, Write(sfb(r), <<b.b>>))
        \o Sync("sfb", MathWarps(p, c))
        \o For(b.kb, LAMBDA k :
             IF b.valid[r[2]]
             THEN Read({<<sfb(q), <<b.b>>>> : q \in loaders})
                  \o Sm90Consume(p, r, b, k, FirstOf(bs, i) + k)
             ELSE skip(b, FirstOf(bs, i) + k))
        \o Sm90StoreBlock(p, r, b)
  IN  For(Len(bs), block)

-----------------------------------------------------------------------------
(* sm90_fp8_gemm_1d1d: each warp group stores, by reduction, on its own. *)

Sm90Fp8Load1D1D(p, c) == Sm90Bf16Load(p, c)

Sm90Fp8Math1D1D(p, r) ==
  LET c == CtaOf(r)  bs == p.blocks[c]  wg == WarpGroup(p, r[2], c)
      block(i) ==
        LET b == bs[i + 1] IN
        For(b.kb, LAMBDA k : Sm90Consume(p, r, b, k, FirstOf(bs, i) + k))
        \o When(r[3] = 0, StoreWait(0))
        \o Sync("store", wg)
        \o Write(D(r), <<b.id>>)
        \o Sync("store", wg)
        \o When(r[3] = 0, Store({<<D(q), <<b.id>>>> : q \in wg}, <<b.id, r[2]>>))
  IN  For(Len(bs), block)
=============================================================================

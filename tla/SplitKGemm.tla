----------------------------- MODULE SplitKGemm -----------------------------
(***************************************************************************)
(* Kernels in which a CTA multiplies one share of the k blocks of one      *)
(* output block and exits: bmk_bnk_mn (shares added up in global memory)   *)
(* and the TF32 hyper-connection GEMM (one output per share, and the sum   *)
(* of squares of A on the side), each for SM90 and SM100.                  *)
(*                                                                         *)
(* An instance p has: stages, total (k blocks of this CTA), first (the     *)
(* first of them), warps (math, epilogue and cast warps), waves (stores    *)
(* per output block).                                                      *)
(***************************************************************************)
EXTENDS KernelSteps

Warps(p, name) == {<<name, j, 0>> : j \in 0 .. p.warps - 1}
AofK(p, k, s) == <<Slot("a", s, 0), <<"a", p.first + k>>>>
BofK(p, k, s) == <<Slot("b", s, 0), <<"b", p.first + k>>>>
Ring(p, name) == {<<name, s, 0>> : s \in 0 .. p.stages - 1}
AllRead == <<"tmem_full", 0>>         \* tmem_full_barrier
Accum(j) == <<"accum", j, 0>>         \* of warp j: registers or tensor memory
Cd(t, j) == <<"cd", t, j, 0>>
LastAcc(p) == Acc(0, p.total - 1)

\* The share of split i: {first, number} of its k blocks.
BmkShare(q, i) == [first |-> i * q.split,
                   total |-> IF q.all - i * q.split < q.split
                             THEN q.all - i * q.split ELSE q.split]
HcShare(q, i) ==
  LET per == q.all \div q.splits  rest == q.all % q.splits
  IN  [first |-> per * i + (IF i < rest THEN i ELSE rest),
       total |-> per + (IF i < rest THEN 1 ELSE 0)]
\* The grid of bmk_bnk_mn: as many k blocks per CTA as give every SM a share.
BmkSplits(q) == (q.all + q.split - 1) \div q.split

\* Every k block belongs to exactly one share.
SharesCover(shares, all) ==
  \A k \in 0 .. all - 1 :
    Cardinality({i \in DOMAIN shares : k \in shares[i].first .. shares[i].first + shares[i].total - 1}) = 1

\* The TMA warp, the same in all four kernels.
RingLoad(p) ==
  For(p.total, LAMBDA k :
    LET s == Stage(k, p.stages)
    IN  Wait(Empty(s, 0), Before(k, p.stages))
        \o Load({<<Slot("a", s, 0), Full(s, 0)>>}, <<"a", p.first + k>>)
        \o Load({<<Slot("b", s, 0), Full(s, 0)>>}, <<"b", p.first + k>>)
        \o ArriveExpect(Full(s, 0), 2))

-----------------------------------------------------------------------------
(* sm90_bmk_bnk_mn *)

Sm90BmkBarriers(p) == [b \in Ring(p, "full") \cup Ring(p, "empty") |->
                         IF b[1] = "full" THEN 1 ELSE p.warps]
Sm90BmkLoad(p) == RingLoad(p)

Sm90BmkMath(p, r) ==
  For(p.total, LAMBDA k :
    LET s == Stage(k, p.stages)
    IN  Wait(Full(s, 0), Parity(k, p.stages))
        \o Sync("wgmma", Warps(p, "math"))
        \o Read({AofK(p, k, s), BofK(p, k, s)})
        \o Arrive({Empty(s, 0)}, 1))
  \o Emit(<<"d", r[2]>>)

-----------------------------------------------------------------------------
(* sm100_bmk_bnk_mn: warp 0 loads, warp 1 issues, then all warps drain. *)

Sm100BmkBarriers(p) == [b \in Ring(p, "full") \cup Ring(p, "empty") \cup {AllRead} |-> 1]
Sm100BmkLoad(p) == RingLoad(p)

Sm100BmkMma(p) ==
  For(p.total, LAMBDA k :
    LET s == Stage(k, p.stages)
    IN  Wait(Full(s, 0), Parity(k, p.stages))
        \o Mma(0, {AofK(p, k, s), BofK(p, k, s)}, {Accum(0)}, 0, k)
        \o Commit(0, {Empty(s, 0)}))
  \o Commit(0, {AllRead})

\* Two staging buffers; only from the third store on a buffer has to be waited for.
Sm100BmkEpilogue(p, r) ==
  LET wave(s) ==
        When(s >= 2, When(r[2] = 0, StoreWait(1)) \o Sync("epilogue", Warps(p, "warp")))
        \o Read({<<Accum(0), LastAcc(p)>>})
        \o Write(Cd(s % 2, r[2]), <<"d", s>>)
        \o Sync("epilogue", Warps(p, "warp"))
        \o When(r[2] = 0, Store({<<Cd(s % 2, q[2]), <<"d", s>>>> : q \in Warps(p, "warp")}, <<"d", s>>))
  IN  Wait(AllRead, 0) \o For(p.waves, wave)

Sm100BmkWarp(p, r) ==
  (CASE r[2] = 0 -> Sm100BmkLoad(p)
     [] r[2] = 1 -> Sm100BmkMma(p)
     [] OTHER -> <<>>) \o Sm100BmkEpilogue(p, r)

-----------------------------------------------------------------------------
(* sm90_tf32_hc_prenorm_gemm *)

Sm90HcBarriers(p) ==
  [b \in Ring(p, "full") \cup Ring(p, "empty") \cup {<<"wgmma", j, 0>> : j \in 0 .. p.warps - 1} |->
     IF b[1] = "empty" THEN p.warps ELSE 1]

Sm90HcLoad(p) ==
  RingLoad(p)
  \o For(p.stages, LAMBDA s :
       Wait(Empty(Stage(p.total + s, p.stages), 0), Before(p.total + s, p.stages)))

\* A goes through registers; WGMMA reads B from shared memory until the warp has
\* waited for it (warpgroup_wait, here a barrier of the warp), one k block later.
Sm90HcMath(p, r) ==
  LET j == r[2]
      group == Warps(p, "math")
      released(k) == Wait(<<"wgmma", j, 0>>, k % 2) \o Arrive({Empty(Stage(k, p.stages), 0)}, 1)
      iteration(k) ==
        LET s == Stage(k, p.stages)
        IN  Wait(Full(s, 0), Parity(k, p.stages))
            \o Read({AofK(p, k, s)})
            \o When(k > 0, released(k - 1))
            \o Sync("wgmma", group)
            \o Mma(0, {BofK(p, k, s)}, {Accum(j)}, 0, k)
            \o Commit(0, {<<"wgmma", j, 0>>})
  IN  For(p.total, iteration)
      \o Emit(<<"sqr_sum", j>>)
      \o released(p.total - 1)
      \o Read({<<Accum(j), LastAcc(p)>>})
      \o Write(Cd(0, j), <<"d", 0>>)
      \o Sync("store", group)
      \o When(j = 0, Store({<<Cd(0, q[2]), <<"d", 0>>>> : q \in group}, <<"d", 0>>))

-----------------------------------------------------------------------------
(* sm100_tf32_hc_prenorm_gemm: cast warps move A to tensor memory, where the  *)
(* MMA takes it from one of two buffers.                                      *)

CastStages == 2
FullCast(t) == <<"full_cast", t, 0>>
EmptyCast(t) == <<"empty_cast", t, 0>>
CastA(t, j) == <<"cast", t, j, 0>>

Sm100HcBarriers(p) ==
  [b \in Ring(p, "full") \cup Ring(p, "empty") \cup {AllRead}
           \cup {FullCast(t) : t \in 0 .. CastStages - 1}
           \cup {EmptyCast(t) : t \in 0 .. CastStages - 1} |->
     IF b[1] = "full_cast" THEN p.warps ELSE 1]

Sm100HcLoad(p) == RingLoad(p)

Sm100HcMma(p) ==
  For(p.total, LAMBDA k :
    LET s == Stage(k, p.stages)  t == Stage(k, CastStages)
    IN  Wait(FullCast(t), Parity(k, CastStages))
        \o Mma(0, {BofK(p, k, s)} \cup {<<CastA(t, j), <<"a", p.first + k>>>> : j \in 0 .. p.warps - 1},
               {Accum(0)}, 0, k)
        \o Commit(0, {EmptyCast(t)})
        \o Commit(0, {Empty(s, 0)}))
  \o Commit(0, {AllRead})

Sm100HcEpilogue(p, r) ==
  Wait(AllRead, 0)
  \o Read({<<Accum(0), LastAcc(p)>>})
  \o Write(Cd(0, r[2]), <<"d", 0>>)
  \o Sync("epilogue", Warps(p, "warp"))
  \o When(r[2] = 0, Store({<<Cd(0, q[2]), <<"d", 0>>>> : q \in Warps(p, "warp")}, <<"d", 0>>))

Sm100HcWarp(p, r) ==
  (CASE r[2] = 0 -> Sm100HcLoad(p)
     [] r[2] = 1 -> Sm100HcMma(p)
     [] OTHER -> <<>>) \o Sm100HcEpilogue(p, r)

Sm100HcCast(p, r) ==
  For(p.total, LAMBDA k :
    LET s == Stage(k, p.stages)  t == Stage(k, CastStages)
    IN  Wait(Full(s, 0), Parity(k, p.stages))
        \o Read({AofK(p, k, s)})
        \o Wait(EmptyCast(t), Before(k, CastStages))
        \o Write(CastA(t, r[2]), <<"a", p.first + k>>)
        \o Arrive({FullCast(t)}, 1))
  \o Emit(<<"sqr_sum", r[2]>>)
=============================================================================

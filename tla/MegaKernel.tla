----------------------------- MODULE MegaKernel -----------------------------
(***************************************************************************)
(* One cluster of the SM100 mega MoE kernel as programs, from the pull of  *)
(* its tokens to the combine: what MegaMoE takes for one step of an SM.    *)
(* The rank has this cluster only, and no other rank takes part, so that   *)
(* its barriers in global memory are syncs and its arrival counts barriers.*)
(*                                                                         *)
(* An instance p has: stages, accs, chunks of a combined token; for each   *)
(* CTA the modelled warpgroups (wgs) of its epilogue, warps of each and    *)
(* store blocks of each (stores), its blocks and the tokens it pulls; for  *)
(* each epilogue warp the tokens it combines, [token, routes].  A block    *)
(* has its phase, pool block, n, kb, a, b and, for each warpgroup, rows:   *)
(* its store blocks that are not beyond the tokens.                        *)
(***************************************************************************)
EXTENDS Sm100Gemm

DispatchWarp(c) == <<"dispatch", c>>
WG(p, w, c) == {<<"epi", w, j, c>> : j \in 0 .. p.warps[c] - 1}
AllEpilogue(p, c) == UNION {WG(p, w, c) : w \in 0 .. p.wgs[c] - 1}
MegaRoles(p) ==
  {<<"mma", 0>>} \cup UNION {{DispatchWarp(c), <<"load_a", c>>, <<"load_b", c>>}
                               \cup AllEpilogue(p, c) : c \in Ctas}

\* In global memory: L1 arrival count and L2 arrival mask of a pool block.
TokensArrived(k) == <<"l1_arrival", k, 0>>
OutputsArrived(k) == <<"l2_arrival", k, 0>>
PullFull(c) == <<"pull_full", c>>
CombineFull(i, w, j, c) == <<"combine_full", i, w, j, c>>

MegaBarriers(p) ==
  LET pool == {b.pool : b \in Range(p.blocks[0])}
      epi  == UNION {AllEpilogue(p, c) : c \in Ctas} IN
  [b \in {Full(s, 0) : s \in 0 .. p.stages - 1}
          \cup {Empty(s, c) : s \in 0 .. p.stages - 1, c \in Ctas}
          \cup {TmemFull(e, c) : e \in 0 .. p.accs - 1, c \in Ctas}
          \cup {TmemEmpty(e, 0) : e \in 0 .. p.accs - 1}
          \cup {TokensArrived(k) : k \in pool} \cup {OutputsArrived(k) : k \in pool}
          \cup {PullFull(c) : c \in Ctas}
          \cup {CombineFull(i, r[2], r[3], r[4]) : i \in {0, 1}, r \in epi} |->
     CASE b[1] = "full" -> 2 * 2
       [] b[1] = "tmem_empty" -> Cardinality(epi)
       [] b[1] = "l1_arrival" -> Len(SelectSeq(p.pulls[0] \o p.pulls[1], LAMBDA t : t.pool = b[2]))
       [] b[1] = "l2_arrival" -> Cardinality({x \in Range(p.blocks[0]) \cup Range(p.blocks[1]) :
                                                x.phase = 1 /\ x.pool = b[2]})
       [] OTHER -> 1]

\* Dispatch and epilogue warps of a CTA meet twice: before the pull and before the
\* workspace is cleaned, and the memory of the pull reused.
WithEpilogue(p, c) == Sync("dispatch_with_epilogue", {DispatchWarp(c)} \cup AllEpilogue(p, c))

\* A token comes into the warp's buffer, goes out to the pool and is counted.
MegaDispatch(p, c) ==
  LET buffer == Slot("pull", 0, c)
      pull(i) ==
        LET t == p.pulls[c][i + 1]  u == {<<buffer, <<"token", t.id>>>>}
        IN  Load({<<buffer, PullFull(c)>>}, <<"token", t.id>>)
            \o ArriveExpect(PullFull(c), 1) \o Wait(PullFull(c), i % 2)
            \o Store(u, <<"pulled", t.id>>) \o StoreWait(0)
            \o Arrive({TokensArrived(t.pool)}, 1)
  IN  WithEpilogue(p, c) \o For(Len(p.pulls[c]), pull) \o WithEpilogue(p, c)

-----------------------------------------------------------------------------
\* Each CTA loads its half of the tokens and its weights, each by a warp; all four
\* arrive at the full barrier of the leader.
MegaLoad(p, c, wait(_), name, val(_, _)) ==
  LET bs == p.blocks[c]
      iteration(b, k, it) ==
        LET s == Stage(it, p.stages)
        IN  Wait(Empty(s, c), Before(it, p.stages))
            \o Load({<<Slot(name, s, c), Full(s, 0)>>}, val(b, k))
            \o IF c = 0 THEN ArriveExpect(Full(s, 0), 2) ELSE Arrive({Full(s, 0)}, 1)
  IN  For(Len(bs), LAMBDA i : wait(bs[i + 1]) \o For(bs[i + 1].kb, LAMBDA k :
        iteration(bs[i + 1], k, FirstOf(bs, i) + k)))

\* Tokens, once the whole row of blocks is there: from the dispatch or from linear 1.
MegaLoadA(p, c) ==
  MegaLoad(p, c, LAMBDA b : Wait(IF b.phase = 1 THEN TokensArrived(b.pool) ELSE OutputsArrived(b.pool), 0),
           "a", LAMBDA b, k : OperandA(p, b, k, c))
MegaLoadB(p, c) == MegaLoad(p, c, LAMBDA b : <<>>, "b", LAMBDA b, k : OperandB(p, b, k, c))

MegaMma(p) == Sm100Bf16Mma(p)

-----------------------------------------------------------------------------
(* Epilogue. *)

Staged(t, w, j, c) == <<"cd", t, w, j, c>>
\* smem_cd_l2 begins where the staging of linear 1 does and is twice as large: the
\* part of warpgroup 0 covers all of that.
Linear2Staged(p, w, c) ==
  IF w = 0 THEN {Staged(t, x, y, c) : t \in {0, 1}, x \in 0 .. p.wgs[c] - 1, y \in 0 .. p.warps[c] - 1}
  ELSE {<<"cd_l2", w, c>>}
Amax(r) == <<"amax", r[2], r[3], r[4]>>

\* Body(s) for the store blocks, of n, that hold tokens; the accumulator is
\* given back with the last, or where the loop is left early.
StoreBlocks(n, rows, e, Body(_, _)) ==
  LET free == Arrive({TmemEmpty(e, 0)}, 1)
  IN  For(rows, LAMBDA s : Body(s, When(s = n - 1, free))) \o When(rows < n, free)

\* Linear 1: SwiGLU, scaled by the maximum over a pair of warps, through two staging
\* buffers to TMA stores; the last warp to be done tells linear 2.
MegaLinear1(p, r, i) ==
  LET w == r[2]  j == r[3]  c == r[4]
      b == p.blocks[c][i + 1]  e == i % p.accs
      val(s) == <<"block", b.id, w, s>>
      pair == <<"epi", w, 1 - j, c>>
      block(s, free) ==
        LET t == s % 2 IN
        Read({<<Tmem(e, c), Acc(i, b.kb - 1)>>}) \o free
        \o When(p.warps[c] > 1, Write(Amax(r), val(s)))
        \o When(j = 0, StoreWait(1)) \o Sync(<<"wg", w>>, WG(p, w, c))
        \o When(p.warps[c] > 1, Read({<<Amax(pair), val(s)>>}))
        \o Write(Staged(t, w, j, c), val(s)) \o Sync(<<"wg", w>>, WG(p, w, c))
        \o When(j = 0, Store({<<Staged(t, w, y, c), val(s)>> : y \in 0 .. p.warps[c] - 1}, val(s)))
  IN  StoreBlocks(p.stores[c], b.rows[w], e, block) \o When(j = 0, StoreWait(0))
      \o Sync("epilogue", AllEpilogue(p, c))
      \o When(w = 0 /\ j = 0, Arrive({OutputsArrived(b.pool)}, 1))

\* Linear 2: the rows go from shared memory to their ranks.
MegaLinear2(p, r, i) ==
  LET w == r[2]  j == r[3]  c == r[4]
      b == p.blocks[c][i + 1]  e == i % p.accs
      val(s) == <<"block", b.id, w, s>>
      block(s, free) ==
        Read({<<Tmem(e, c), Acc(i, b.kb - 1)>>})
        \o When(s > 0, Sync(<<"wg", w>>, WG(p, w, c))) \o free
        \o WriteAll(Linear2Staged(p, w, c), val(s)) \o Sync(<<"wg", w>>, WG(p, w, c))
        \o Read({<<x, val(s)>> : x \in Linear2Staged(p, w, c)})
        \o Emit(<<"rows", val(s), j>>)
  IN  StoreBlocks(p.stores[c], b.rows[w], e, block) \o Sync("epilogue", AllEpilogue(p, c))

\* Shared memory from its start: the combine divides it anew among its warps.
Regions(p, c) ==
  <<Slot("pull", 0, c)>>
    \o SetToSeq({Staged(t, w, j, c) : t \in {0, 1}, w \in 0 .. p.wgs[c] - 1, j \in 0 .. p.warps[c] - 1})
    \o [s \in 1 .. p.stages |-> Slot("a", s - 1, c)] \o [s \in 1 .. p.stages |-> Slot("b", s - 1, c)]

\* The routes of a token are added up, the next one loaded meanwhile.
MegaCombine(p, r) ==
  LET w == r[2]  j == r[3]  c == r[4]
      buffer(i) == Regions(p, c)[i * p.wgs[c] * p.warps[c] + w * p.warps[c] + j + 1]
      full(n) == CombineFull(Stage(n, 2), w, j, c)
      route(t, x, k) == <<"back", t.token, t.routes[x + 1], k>>
      load(n, v) == Load({<<buffer(Stage(n, 2)), full(n)>>}, v) \o ArriveExpect(full(n), 1)
      chunk(t, k, n) ==
        LET m == Len(t.routes) IN
        When(m > 0, load(n, route(t, 0, k)))
        \o For(m, LAMBDA x :
             When(x + 1 < m, load(n + x + 1, route(t, x + 1, k)))
             \o Wait(full(n + x), Parity(n + x, 2))
             \o Read({<<buffer(Stage(n + x, 2)), route(t, x, k)>>}))
        \o StoreWait(0) \o Write(buffer(2), <<"y", <<t.token, k>>>>)
        \o Store({<<buffer(2), <<"y", <<t.token, k>>>>>>}, <<"y", <<t.token, k>>>>)
      ts == p.combine[r]
      before(x) == FoldLeft(LAMBDA n, t : n + p.chunks * Len(t.routes), 0, SubSeq(ts, 1, x))
  IN  For(Len(ts), LAMBDA x : For(p.chunks, LAMBDA k :
        chunk(ts[x + 1], k, before(x) + k * Len(ts[x + 1].routes))))

MegaEpilogue(p, r) ==
  LET c == CtaOf(r)
  IN  WithEpilogue(p, c)
      \o For(Len(p.blocks[c]), LAMBDA i :
           Wait(TmemFull(i % p.accs, c), Parity(i, p.accs))
           \o IF p.blocks[c][i + 1].phase = 1 THEN MegaLinear1(p, r, i) ELSE MegaLinear2(p, r, i))
      \o Sync("nvlink", UNION {AllEpilogue(p, d) : d \in Ctas})
      \o WithEpilogue(p, c) \o MegaCombine(p, r)
=============================================================================

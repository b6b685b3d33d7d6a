----------------------------- MODULE MqaLogits -----------------------------
(***************************************************************************)
(* The MQA logits kernels as programs: queries and KV blocks arrive in two *)
(* rings, tensor cores (WGMMA on SM90, UMMA through tensor memory on       *)
(* SM100) multiply each KV block with the query of the moment, math warp   *)
(* groups reduce over heads and store the logits.                          *)
(*                                                                         *)
(* An instance p has: qs and kvs ring stages, wgs math warp groups of warps*)
(* modelled warps each, tmem accumulators, and                             *)
(*   blocks (unpaged)  sequence of [q, kb]: a query and its KV blocks      *)
(*   tasks (paged)     sequence of MqaSchedule tasks                       *)
(* A query slot includes its weights, a KV slot its FP8 scales.            *)
(***************************************************************************)
EXTENDS KernelSteps

FullQ(s) == <<"full_q", s, 0>>
EmptyQ(s) == <<"empty_q", s, 0>>
FullKv(g, s) == <<"full_kv", g, s, 0>>       \* of KV group g
EmptyKv(g, s) == <<"empty_kv", g, s, 0>>
FullTmem(s) == <<"full_tmem", s, 0>>
EmptyTmem(s) == <<"empty_tmem", s, 0>>
QSlot(s) == <<"q", s, 0>>
SfQ(s) == <<"sf_q", s, 0>>
KvSlot(g, s) == <<"kv", g, s, 0>>
SfKv(s) == <<"sf_kv", s, 0>>
Tmem(s) == <<"tmem", s, 0>>

MathOf(p, w) == {<<"math", w, j, 0>> : j \in 0 .. p.warps - 1}
MathAll(p) == UNION {MathOf(p, w) : w \in 0 .. p.wgs - 1}
NumMath(p) == p.wgs * p.warps
QBars(p) == {FullQ(s) : s \in 0 .. p.qs - 1} \cup {EmptyQ(s) : s \in 0 .. p.qs - 1}
KvBars(p, gs) == {FullKv(g, s) : g \in gs, s \in 0 .. p.kvs - 1}
                   \cup {EmptyKv(g, s) : g \in gs, s \in 0 .. p.kvs - 1}
TmemBars(p) == {FullTmem(s) : s \in 0 .. p.tmem - 1} \cup {EmptyTmem(s) : s \in 0 .. p.tmem - 1}

LoadQ(s, q) == Load({<<QSlot(s), FullQ(s)>>}, <<"q", q>>) \o ArriveExpect(FullQ(s), 1)
LoadKv(g, s, kv) == Load({<<KvSlot(g, s), FullKv(g, s)>>}, <<"kv", kv>>) \o ArriveExpect(FullKv(g, s), 1)
UsesQ(s, q) == {<<QSlot(s), <<"q", q>>>>}
UsesKv(g, s, kv) == {<<KvSlot(g, s), <<"kv", kv>>>>}

\* The u-th accumulation goes to tensor memory stage u % tmem.
Umma(p, u, uses) ==
  Wait(EmptyTmem(u % p.tmem), Before(u, p.tmem))
  \o Mma(0, uses, {Tmem(u % p.tmem)}, u, 0)
  \o Commit(0, {FullTmem(u % p.tmem)})
\* Mutant: tensor memory is given back before it has been read.
DrainEarly(p, u) ==
  Arrive({EmptyTmem(u % p.tmem)}, 1) \o Read({<<Tmem(u % p.tmem), Acc(u, 0)>>})
Drain(p, u) ==
  Read({<<Tmem(u % p.tmem), Acc(u, 0)>>}) \o Arrive({EmptyTmem(u % p.tmem)}, 1)

-----------------------------------------------------------------------------
(* One KV block: it counts the KV blocks of this CTA (or KV group), i its    *)
(* queries; kv and q name what the stages have to hold.                      *)

IssueKv(p, g, it, kv) ==
  Wait(EmptyKv(g, Stage(it, p.kvs)), Before(it, p.kvs)) \o LoadKv(g, Stage(it, p.kvs), kv)
TakeQ(p, i, q) == Wait(FullQ(Stage(i, p.qs)), Parity(i, p.qs)) \o Read(UsesQ(Stage(i, p.qs), q))
GiveQ(p, i) == Arrive({EmptyQ(Stage(i, p.qs))}, 1)

\* SM90 math.
WgmmaKv(p, r, g, it, kv, i, q) ==
  LET s == Stage(it, p.kvs)
  IN  Wait(FullKv(g, s), Parity(it, p.kvs))
      \o Sync("wgmma", MathOf(p, r[2]))
      \o Read(UsesKv(g, s, kv) \cup UsesQ(Stage(i, p.qs), q))
      \o Arrive({EmptyKv(g, s)}, 1)
      \o Emit(<<kv, r[2], r[3]>>)

\* SM100 FP8: UMMA warp and math.
UmmaKv(p, it, kv, i, q) ==
  LET s == Stage(it, p.kvs)
  IN  Wait(FullKv(0, s), Parity(it, p.kvs))
      \o For(p.wgs, LAMBDA w :
           Umma(p, it * p.wgs + w, UsesKv(0, s, kv) \cup UsesQ(Stage(i, p.qs), q)))
ReduceKv(p, r, it, kv) ==
  LET s == Stage(it, p.kvs)  u == it * p.wgs + r[2]
  IN  Wait(FullKv(0, s), Parity(it, p.kvs))
      \o Read(UsesKv(0, s, kv))
      \o Wait(FullTmem(u % p.tmem), Parity(u, p.tmem))
      \o Arrive({EmptyKv(0, s)}, 1)
      \o Drain(p, u)
      \o Emit(<<kv, r[2], r[3]>>)

\* SM100 FP4: scale factors have slots of their own and are transposed in place by
\* the UMMA warp; those of the query go to tensor memory with its first KV block.
\* The KV stage is given back by the tensor core.  qs is the query stage in use.
IssueQ4(p, i, q) ==
  LET s == Stage(i, p.qs)
  IN  Wait(EmptyQ(s), Before(i, p.qs))
      \o Load({<<QSlot(s), FullQ(s)>>, <<SfQ(s), FullQ(s)>>}, <<"q", q>>)
      \o ArriveExpect(FullQ(s), 2)
IssueKv4(p, it, kv) ==
  LET s == Stage(it, p.kvs)
  IN  Wait(EmptyKv(0, s), Before(it, p.kvs))
      \o Load({<<KvSlot(0, s), FullKv(0, s)>>, <<SfKv(s), FullKv(0, s)>>}, <<"kv", kv>>)
      \o ArriveExpect(FullKv(0, s), 2)
Transpose(slot, name) == Read({<<slot, name>>}) \o Write(slot, <<"transposed", name>>)
TakeQ4(p, i, q) ==
  Wait(FullQ(Stage(i, p.qs)), Parity(i, p.qs)) \o Transpose(SfQ(Stage(i, p.qs)), <<"q", q>>)
UmmaKv4(p, it, kv, i, qs, q, first) ==
  LET s  == Stage(it, p.kvs)
      sf == {<<SfKv(s), <<"transposed", <<"kv", kv>>>>>>}
              \cup (IF first THEN {<<SfQ(Stage(i, p.qs)), <<"transposed", <<"q", q>>>>>>} ELSE {})
  IN  Wait(FullKv(0, s), Parity(it, p.kvs))
      \o Transpose(SfKv(s), <<"kv", kv>>)
      \o For(p.wgs, LAMBDA w :
           Umma(p, it * p.wgs + w, UsesKv(0, s, kv) \cup UsesQ(qs, q)
                                     \cup (IF w = 0 THEN sf ELSE {})))
      \o Commit(0, {EmptyKv(0, s)})
ReduceKv4(p, r, it, kv) ==
  LET u == it * p.wgs + r[2]
  IN  Wait(FullTmem(u % p.tmem), Parity(u, p.tmem)) \o Drain(p, u) \o Emit(<<kv, r[2], r[3]>>)

-----------------------------------------------------------------------------
(* Unpaged: query block i (from 0) and its KV blocks. *)

BlockAt(p, i) == p.blocks[i + 1]
KvOf(p, i, n) == <<BlockAt(p, i).q, n>>
KvIter(p, i, n) == FirstOf(p.blocks, i) + n
\* Every query block: first(i), then each of its KV blocks, then last(i).
ForQueries(p, first(_), kv(_, _), last(_)) ==
  For(Len(p.blocks), LAMBDA i :
    first(i) \o For(BlockAt(p, i).kb, LAMBDA n : kv(i, n)) \o last(i))
Nothing(i) == <<>>

Sm90MqaBarriers(p) ==
  [b \in QBars(p) \cup KvBars(p, {0}) |-> IF b[1] \in {"empty_q", "empty_kv"} THEN NumMath(p) ELSE 1]

\* The next query is asked for before the KV blocks of this one, and a stage is
\* waited for even where there is no next one.
Sm90MqaLoad(p) ==
  LET Prefetch(i) ==
        Wait(EmptyQ(Stage(i + 1, p.qs)), Before(i + 1, p.qs))
        \o When(i + 1 < Len(p.blocks), LoadQ(Stage(i + 1, p.qs), BlockAt(p, i + 1).q))
      Issue(i, n) == IssueKv(p, 0, KvIter(p, i, n), KvOf(p, i, n))
  IN  When(p.blocks # <<>>, LoadQ(0, BlockAt(p, 0).q)) \o ForQueries(p, Prefetch, Issue, Nothing)

Sm90MqaMath(p, r) ==
  LET Take(i) == TakeQ(p, i, BlockAt(p, i).q)
      Compute(i, n) == WgmmaKv(p, r, 0, KvIter(p, i, n), KvOf(p, i, n), i, BlockAt(p, i).q)
      Give(i) == GiveQ(p, i)
  IN  ForQueries(p, Take, Compute, Give)

Sm100MqaBarriers(p) ==
  [b \in QBars(p) \cup KvBars(p, {0}) \cup TmemBars(p) |->
     CASE b[1] = "empty_q" -> NumMath(p) + 1
       [] b[1] = "empty_kv" -> NumMath(p)
       [] b[1] = "empty_tmem" -> p.warps
       [] OTHER -> 1]

Sm100MqaLoad(p) == Sm90MqaLoad(p)

Sm100MqaUmma(p) ==
  LET Take(i) == Wait(FullQ(Stage(i, p.qs)), Parity(i, p.qs))
      Issue(i, n) == UmmaKv(p, KvIter(p, i, n), KvOf(p, i, n), i, BlockAt(p, i).q)
      Give(i) == GiveQ(p, i)
  IN  ForQueries(p, Take, Issue, Give)

Sm100MqaMath(p, r) ==
  LET Take(i) == TakeQ(p, i, BlockAt(p, i).q)
      Compute(i, n) == ReduceKv(p, r, KvIter(p, i, n), KvOf(p, i, n))
      Give(i) == GiveQ(p, i)
  IN  ForQueries(p, Take, Compute, Give) \o Sync("exit", MathAll(p))

Fp4MqaBarriers(p) ==
  [b \in DOMAIN Sm100MqaBarriers(p) |-> IF b[1] = "empty_kv" THEN 1 ELSE Sm100MqaBarriers(p)[b]]

Fp4MqaLoadQ(p) == For(Len(p.blocks), LAMBDA i : IssueQ4(p, i, BlockAt(p, i).q))
Fp4MqaLoadKv(p) ==
  LET Issue(i, n) == IssueKv4(p, KvIter(p, i, n), KvOf(p, i, n))
  IN  ForQueries(p, Nothing, Issue, Nothing)

\* Without its arrival at empty_q the UMMA warp could run ahead of the math warps
\* through the whole ring of queries.
Fp4MqaUmma(p) ==
  LET Take(i) == TakeQ4(p, i, BlockAt(p, i).q)
      Issue(i, n) == UmmaKv4(p, KvIter(p, i, n), KvOf(p, i, n), i, Stage(i, p.qs), BlockAt(p, i).q, n = 0)
      Give(i) == GiveQ(p, i)
  IN  ForQueries(p, Take, Issue, Give)

Fp4MqaMath(p, r) ==
  LET Take(i) == TakeQ(p, i, BlockAt(p, i).q)
      Compute(i, n) == ReduceKv4(p, r, KvIter(p, i, n), KvOf(p, i, n))
      Give(i) == GiveQ(p, i)
  IN  ForQueries(p, Take, Compute, Give) \o Sync("exit", MathAll(p))

-----------------------------------------------------------------------------
(* Paged: task i (from 0) of this SM; the query changes with its atom. *)

TaskAt(p, i) == p.tasks[i + 1]
NewQ(p, i) == i = 0 \/ TaskAt(p, i).atom # TaskAt(p, i - 1).atom
QIter(p, i) == Cardinality({j \in 1 .. i : NewQ(p, j)})   \* index of its query
KvTask(p, i) == <<TaskAt(p, i).atom, TaskAt(p, i).kv>>
ForTasks(p, Body(_)) == For(Len(p.tasks), Body)
\* A consumer releases a query when the next one has come up.
ReleaseQ(p, i) == When(NewQ(p, i) /\ i > 0, GiveQ(p, QIter(p, i) - 1))

Sm90PagedBarriers(p) ==
  [b \in QBars(p) \cup KvBars(p, 0 .. p.wgs - 1) |->
     CASE b[1] = "empty_q" -> NumMath(p)
       [] b[1] = "empty_kv" -> p.warps
       [] OTHER -> 1]

\* A loader per KV group; the first of them loads the queries, all wait for their
\* stages.
PagedPrefetch(p, i, g) ==
  LET n == QIter(p, i) + 1
  IN  When(NewQ(p, i) /\ TaskAt(p, i).more,
        Wait(EmptyQ(Stage(n, p.qs)), Before(n, p.qs))
        \o When(g = 0, LoadQ(Stage(n, p.qs), TaskAt(p, i).next)))
Sm90PagedLoad(p, g) ==
  When(g = 0 /\ p.tasks # <<>>, LoadQ(0, TaskAt(p, 0).atom))
  \o ForTasks(p, LAMBDA i : PagedPrefetch(p, i, g) \o IssueKv(p, g, i, KvTask(p, i)))

Sm90PagedMath(p, r) ==
  ForTasks(p, LAMBDA i :
    LET n == QIter(p, i)  q == TaskAt(p, i).atom IN
    ReleaseQ(p, i) \o When(NewQ(p, i), TakeQ(p, n, q))
    \o WgmmaKv(p, r, r[2], i, KvTask(p, i), n, q))

Sm100PagedBarriers(p) == Sm100MqaBarriers(p)
Sm100PagedLoad(p) == Sm90PagedLoad(p, 0)

Sm100PagedUmma(p) ==
  ForTasks(p, LAMBDA i :
    LET n == QIter(p, i) IN
    ReleaseQ(p, i)
    \o When(NewQ(p, i), Wait(FullQ(Stage(n, p.qs)), Parity(n, p.qs)))
    \o UmmaKv(p, i, KvTask(p, i), n, TaskAt(p, i).atom))

Sm100PagedMath(p, r) ==
  ForTasks(p, LAMBDA i :
    ReleaseQ(p, i) \o When(NewQ(p, i), TakeQ(p, QIter(p, i), TaskAt(p, i).atom))
    \o ReduceKv(p, r, i, KvTask(p, i)))
  \o Sync("exit", MathAll(p))

Fp4PagedBarriers(p) == Fp4MqaBarriers(p)
Fp4PagedLoadQ(p) ==
  ForTasks(p, LAMBDA i : When(NewQ(p, i), IssueQ4(p, QIter(p, i), TaskAt(p, i).atom)))
Fp4PagedLoadKv(p) == ForTasks(p, LAMBDA i : IssueKv4(p, i, KvTask(p, i)))

\* q_stage_idx is declared inside the loop and set only where the query changes: on
\* the other tasks the build may leave it as it was (kept) or at another stage.
Fp4PagedUmma(p) ==
  ForTasks(p, LAMBDA i :
    LET n     == QIter(p, i)
        q     == TaskAt(p, i).atom
        stage == IF NewQ(p, i) \/ p.kept THEN Stage(n, p.qs) ELSE Stage(n + 1, p.qs) IN
    ReleaseQ(p, i)
    \o When(NewQ(p, i), TakeQ4(p, n, q))
    \o UmmaKv4(p, i, KvTask(p, i), n, stage, q, NewQ(p, i)))

Fp4PagedMath(p, r) ==
  ForTasks(p, LAMBDA i :
    ReleaseQ(p, i) \o When(NewQ(p, i), TakeQ(p, QIter(p, i), TaskAt(p, i).atom))
    \o ReduceKv4(p, r, i, KvTask(p, i)))
  \o Sync("exit", MathAll(p))
=============================================================================

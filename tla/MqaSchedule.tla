---------------------------- MODULE MqaSchedule ----------------------------
(***************************************************************************)
(* Who computes which logits.  Unpaged: SM i takes query blocks i,         *)
(* i + sms, ... and for each the KV blocks that cover the ranges of its    *)
(* rows.  Paged: a metadata kernel cuts the KV segments of all query atoms *)
(* into equal shares and every warp of an SM walks its share for itself.   *)
(***************************************************************************)
EXTENDS Integers, Sequences, FiniteSets, FiniteSetsExt

CeilDiv(a, b) == (a + b - 1) \div b
Align(a, b) == CeilDiv(a, b) * b

-----------------------------------------------------------------------------
(* Unpaged.  c: seqLen, seqLenKv, ks and ke (row -> its range), blockQ,     *)
(* blockKv, sms.                                                            *)

QBlocks(c) == CeilDiv(c.seqLen, c.blockQ)
\* The query blocks of an SM, in order.
QBlocksOf(c, sm) ==
  [i \in 1 .. Cardinality({q \in 0 .. QBlocks(c) - 1 : q % c.sms = sm}) |-> sm + (i - 1) * c.sms]

\* load_schedule: rows past the end repeat the last one.
RowsOf(c, q) == {Min({q * c.blockQ + i, c.seqLen - 1}) : i \in 0 .. c.blockQ - 1}
KvStart(c, q) == (Min({Min({c.ks[t], c.seqLenKv}) : t \in RowsOf(c, q)}) \div 4) * 4
KvEnd(c, q) == Max({Min({c.ke[t], c.seqLenKv}) : t \in RowsOf(c, q)})
NumKvBlocks(c, q) == CeilDiv(KvEnd(c, q) - KvStart(c, q), c.blockKv)

\* The row stride of the logits the host allocates.
LogitsStride(c) == Align(c.seqLenKv + c.blockKv, 8)

\* Every logit a row asks for is computed, and a block that reaches past the
\* range of its rows still ends inside the row it writes.
RangesCovered(c) ==
  \A q \in 0 .. QBlocks(c) - 1 :
    LET last == KvStart(c, q) + NumKvBlocks(c, q) * c.blockKv IN
    /\ last <= LogitsStride(c)
    /\ \A t \in RowsOf(c, q) : \A k \in c.ks[t] .. Min({c.ke[t], c.seqLenKv}) - 1 :
         KvStart(c, q) <= k /\ k < last

-----------------------------------------------------------------------------
(* Paged.  c: batch, nextN, lens (row of context lengths, by query or by    *)
(* token if lens2d), varlen with indices (token -> sequence), blockKv,      *)
(* perSplit KV blocks per segment, sms.                                     *)

NextNAtom(c) == IF c.varlen \/ c.nextN >= 2 THEN 2 ELSE 1
AtomsPerQ(c) == IF c.varlen THEN 1 ELSE CeilDiv(c.nextN, NextNAtom(c))
Paired(c, t) == t + 1 < c.batch /\ c.indices[t + 1] = c.indices[t + 2]
Advance(c, atom, bound) ==
  IF c.varlen /\ atom + 1 < bound /\ c.indices[atom + 1] = c.indices[atom + 2] THEN 2 ELSE 1

\* get_num_kv in elements.  An SM without work asks for one past the end; what it
\* reads there it never uses.
ContextLen(c, atom) ==
  LET q == atom \div AtomsPerQ(c)
  IN  CASE c.varlen /\ atom < c.batch ->
             IF Paired(c, atom) THEN c.lens[atom + 2] ELSE c.lens[atom + 1]
        [] ~c.varlen /\ q < c.batch ->
             IF c.lens2d THEN c.lens[q * c.nextN + c.nextN] ELSE c.lens[q + 1]
        [] OTHER -> 0
Segments(c, atom) == CeilDiv(ContextLen(c, atom), c.perSplit * c.blockKv)
NumKv(c, atom) == CeilDiv(ContextLen(c, atom), c.blockKv)

\* The query atoms.  Tokens of one sequence are paired greedily, so an atom starts
\* an even number of tokens after the first one of its run.
RunStart(c, t) == Min({s \in 0 .. t : \A u \in s .. t : c.indices[u + 1] = c.indices[t + 1]})
Atoms(c) == IF c.varlen THEN {t \in 0 .. c.batch - 1 : (t - RunStart(c, t)) % 2 = 0}
                        ELSE 0 .. c.batch * AtomsPerQ(c) - 1

\* The metadata kernel: where the share of SM i begins, as <<atom, segment>>.
\* Queries (or, with variable lengths, atoms) are searched by their prefix sums.
TotalSegments(c) == MapThenSumSet(LAMBDA a : Segments(c, a), Atoms(c))
ShareStart(c, i) == i * (TotalSegments(c) \div c.sms) + Min({i, TotalSegments(c) % c.sms})

\* The first query whose segments, with those before it, are more than start.
QueryAt(c, start, segs(_)) ==
  Min({q \in 0 .. c.batch - 1 : MapThenSumSet(segs, 0 .. q) > start} \cup {c.batch})
Within(q, n, offset, segs) ==
  IF segs = 0 THEN <<q * n, 0>> ELSE <<q * n + offset \div segs, offset % segs>>
MetaOfQuery(c, q, start, n, segs(_)) ==
  Within(q, n, start - MapThenSumSet(segs, 0 .. q - 1) * n, segs(q))
MetaByQuery(c, i) ==
  LET n       == AtomsPerQ(c)
      segs(q) == Segments(c, q * n)
      all(q)  == segs(q) * n
  IN  MetaOfQuery(c, QueryAt(c, ShareStart(c, i), all), ShareStart(c, i), n, segs)

AtomAt(c, start, segs(_)) ==
  Min({a \in Atoms(c) : MapThenSumSet(segs, {x \in Atoms(c) : x <= a}) > start} \cup {c.batch})
MetaOfAtom(c, a, start, segs(_)) ==
  <<a, start - MapThenSumSet(segs, {x \in Atoms(c) : x < a})>>
MetaByAtom(c, i) ==
  LET segs(a) == Segments(c, a)
  IN  MetaOfAtom(c, AtomAt(c, ShareStart(c, i), segs), ShareStart(c, i), segs)

Meta(c, i) == IF c.varlen THEN MetaByAtom(c, i) ELSE MetaByQuery(c, i)

\* PagedMQALogitsScheduler: s is its current atom, KV block and number of KV blocks.
\* Mutant: the last atom of the share is taken for unfinished.
ExistAtomLoose(end, atom) == atom <= end[1]
ExistAtom(end, atom) == atom < end[1] \/ (atom = end[1] /\ end[2] > 0)
StepTask(c, s, end) ==
  IF s.kv + c.perSplit < s.num THEN [s EXCEPT !.kv = @ + c.perSplit]
  ELSE LET atom == s.atom + Advance(c, s.atom, end[1])
           refresh == (c.varlen \/ atom % AtomsPerQ(c) = 0) /\ ExistAtom(end, atom)
       IN  [atom |-> atom, kv |-> 0, num |-> IF refresh THEN NumKv(c, atom) ELSE s.num]

\* fetch_next_task until it finds none.  next and more are what the loader asks
\* the scheduler to prefetch the following query.
RECURSIVE TasksFrom(_, _, _)
TasksFrom(c, s, end) ==
  IF s.atom = end[1] /\ s.kv = end[2] THEN <<>>
  ELSE LET t    == StepTask(c, s, end)
           next == s.atom + Advance(c, s.atom, c.batch)
       IN  <<[atom |-> s.atom, kv |-> s.kv, next |-> next, more |-> ExistAtom(end, next)]>>
           \o TasksFrom(c, t, end)
TasksBetween(c, start, end) ==
  TasksFrom(c, [atom |-> start[1], kv |-> start[2] * c.perSplit, num |-> NumKv(c, start[1])],
            <<end[1], end[2] * c.perSplit>>)
Tasks(c, sm) == TasksBetween(c, Meta(c, sm), Meta(c, sm + 1))

\* Every segment of every atom is the task of one SM, once; only an atom without
\* context is visited besides, at block 0; the shares differ by one at most; and
\* the query a loader prefetches at the first task of an atom is the one its next
\* atom has, there being one exactly if the loader is told so.
PagedTasksOf(c, given, wanted) ==
  LET real     == {g \in given : Segments(c, g[3].atom) > 0}
      size(sm) == Cardinality({g \in real : g[1] = sm})
      later(g) == {h \in given : h[1] = g[1] /\ h[2] > g[2] /\ h[3].atom # g[3].atom}
  IN  /\ {<<g[3].atom, g[3].kv>> : g \in real} = wanted
      /\ Cardinality(real) = Cardinality(wanted)
      /\ \A g \in given \ real : g[3].atom \in Atoms(c) /\ g[3].kv = 0
      /\ \A x, y \in 0 .. c.sms - 1 : size(x) - size(y) <= 1
      /\ \A g \in given :
           /\ g[3].more = (later(g) # {})
           /\ \A h \in later(g) : (\A k \in later(g) : h[2] <= k[2]) => h[3].atom = g[3].next
Numbered(sm, ts) == {<<sm, i, ts[i]>> : i \in DOMAIN ts}
PagedTasks(c) ==
  PagedTasksOf(c, UNION {Numbered(sm, Tasks(c, sm)) : sm \in 0 .. c.sms - 1},
               UNION {{<<a, n * c.perSplit>> : n \in 0 .. Segments(c, a) - 1} : a \in Atoms(c)})
=============================================================================

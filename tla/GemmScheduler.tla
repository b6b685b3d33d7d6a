--------------------------- MODULE GemmScheduler ---------------------------
(***************************************************************************)
(* The persistent block scheduler of the GEMM kernels: every SM runs its   *)
(* own copy of the same counters and asks it for its next output block,    *)
(* without talking to any other SM.  c is an instance:                     *)
(*   type    "normal", "contiguous", "masked", "psum", "kgrouped", "batched" *)
(*   m, n, k the shape; bm, bn the block; groups; layout the grouped_layout*)
(*   mc, onA kNumMulticast and kIsMulticastOnA; sms the number of SMs      *)
(*   arch    90 or 100                                                     *)
(***************************************************************************)
EXTENDS Integers, Sequences, FiniteSets, FiniteSetsExt

CeilDiv(a, b) == (a + b - 1) \div b
Align(a, b) == CeilDiv(a, b) * b
Flip(x) == IF x % 2 = 0 THEN x + 1 ELSE x - 1    \* x ^ 1
Least(x, y) == IF x < y THEN x ELSE y

\* Blocks along the primary dimension that are walked together, for the L2.
NumBlocksPerGroup1D(c) ==
  LET usage(cand) == IF c.onA THEN cand * c.bn + CeilDiv(c.sms, cand) * c.bm
                              ELSE cand * c.bm + CeilDiv(c.sms, cand) * c.bn
  IN  IF usage(16) < usage(8) THEN 16 ELSE 8

NumN(c) == CeilDiv(c.n, c.bn)
BlocksPerGroup(c) == CeilDiv(c.m, c.bm) * NumN(c)

\* Mutant: empty groups are not skipped.
NextKGroupAny(c, g) == IF g < c.groups THEN g ELSE c.groups

\* The first k-group from g on that is not empty.
NextKGroup(c, g) == Min({h \in g .. c.groups - 1 : c.layout[h + 1] > 0} \cup {c.groups})
KOf(c, g, old) == IF g < c.groups THEN c.layout[g + 1] ELSE old

InitState(c) ==
  LET g == IF c.type = "kgrouped" THEN NextKGroup(c, 0) ELSE 0
      h == IF c.type = "kgrouped" THEN NextKGroup(c, g + 1) ELSE 0
      k == IF c.type = "kgrouped" THEN KOf(c, g, c.k) ELSE c.k
  IN  [iter |-> -1, group |-> g, cumsum |-> 0, lastPsum |-> 0,
       psum |-> IF c.type = "psum" THEN c.layout[1] ELSE 0,
       numM |-> CeilDiv(IF c.type = "psum" THEN c.layout[1] ELSE c.m, c.bm),
       k |-> k, kCumsum |-> 0, nextGroup |-> h,
       nextK |-> IF c.type = "kgrouped" THEN KOf(c, h, 0) ELSE 0]

-----------------------------------------------------------------------------
\* Position in the walk -> block, with the number of blocks in its 1-D group.
Group1D(per, primary, secondary, idx) ==
  LET first == (idx \div (secondary * per)) * per
  IN  [first |-> first, in |-> idx % (secondary * per), size |-> Least(per, primary - first)]

\* On SM90 an odd tail of a group is split off, there multicast is turned off.
SplitOdd(c, w, secondary) ==
  CASE ~(c.arch = 90 /\ c.mc > 1 /\ w.size % 2 # 0) -> w
    [] w.in < Flip(w.size) * secondary -> [w EXCEPT !.size = Flip(@)]
    [] OTHER -> [first |-> w.first + Flip(w.size), in |-> w.in - Flip(w.size) * secondary, size |-> 1]

Position(onA, w) ==
  LET major == w.in \div w.size
      minor == w.first + (w.in % w.size)
  IN  [m |-> IF onA THEN major ELSE minor, n |-> IF onA THEN minor ELSE major, size |-> w.size]

Swizzle(c, numM, idx) ==
  LET primary   == IF c.onA THEN NumN(c) ELSE numM
      secondary == IF c.onA THEN numM ELSE NumN(c)
  IN  Position(c.onA, SplitOdd(c, Group1D(NumBlocksPerGroup1D(c), primary, secondary, idx), secondary))

\* The loops "move to check the next group".
RECURSIVE SeekMasked(_, _, _), SeekPsum(_, _, _), SeekK(_, _, _)
SeekMasked(c, s, next) ==
  IF s.group = c.groups THEN s
  ELSE LET numM == CeilDiv(c.layout[s.group + 1], c.bm)
           t    == [s EXCEPT !.numM = numM]
       IN  IF next < (s.cumsum + numM) * NumN(c) THEN t
           ELSE SeekMasked(c, [t EXCEPT !.group = @ + 1, !.cumsum = @ + numM], next)

SeekPsum(c, s, next) ==
  IF next < (s.cumsum + s.numM) * NumN(c) THEN s
  ELSE IF s.group + 1 = c.groups THEN [s EXCEPT !.group = c.groups]
  ELSE LET last == Align(s.psum, c.bm)
           psum == c.layout[s.group + 2]
       IN  SeekPsum(c, [s EXCEPT !.group = @ + 1, !.lastPsum = last, !.psum = psum,
                                 !.cumsum = @ + s.numM,
                                 !.numM = CeilDiv(psum - last, c.bm)], next)

SeekK(c, s, next) ==
  IF s.group = c.groups \/ next < (s.cumsum + 1) * BlocksPerGroup(c) THEN s
  ELSE LET after == NextKGroup(c, s.nextGroup + 1)
       IN  SeekK(c, [s EXCEPT !.kCumsum = @ + s.k, !.cumsum = @ + 1,
                              !.group = s.nextGroup, !.k = s.nextK,
                              !.nextGroup = after, !.nextK = KOf(c, after, s.nextK)], next)

\* Mutant: two blocks of different groups may share their operand B.
MulticastAnyGroup(c, w) == w.size # 1

\* is_tma_multicast_valid
MulticastValid(c, w) ==
  /\ w.size # 1
  /\ c.type = "contiguous" /\ ~c.onA =>
       c.layout[w.m * c.bm + 1] = c.layout[Flip(w.m) * c.bm + 1]

\* get_next_block of SM sm: the new state and the block, or no block.
NoBlock == [found |-> FALSE]
Found(c, s, w, group, alive) ==
  [found |-> TRUE, m |-> w.m, n |-> w.n, group |-> group, k |-> s.k, kOff |-> s.kCumsum,
   multicast |-> c.mc > 1 /\ MulticastValid(c, w), alive |-> alive]

Seek(c, s, next) ==
  CASE c.type = "masked" -> SeekMasked(c, s, next)
    [] c.type = "psum" -> SeekPsum(c, s, next)
    [] c.type = "kgrouped" -> SeekK(c, s, next)
    [] OTHER -> s

\* Blocks of the groups before, in the walk.
BlocksBefore(c, s) ==
  CASE c.type \in {"masked", "psum"} -> s.cumsum * NumN(c)
    [] c.type = "kgrouped" -> s.cumsum * BlocksPerGroup(c)
    [] OTHER -> 0

\* The block at position next, in the group that s has reached.
Batched(c, s, i) ==
  IF c.onA THEN [m |-> i \div NumN(c), n |-> i % NumN(c), size |-> 0]
           ELSE [m |-> i % s.numM, n |-> i \div s.numM, size |-> 0]
Assigned(c, s, next, w, all) ==
  CASE c.type = "batched" ->
         IF next >= all * c.groups THEN NoBlock
         ELSE Found(c, s, Batched(c, s, next % all), next \div all, TRUE)
    [] c.type \in {"normal", "contiguous"} ->
         IF next >= all THEN NoBlock
         ELSE Found(c, s, w, 0, NumN(c) % c.mc = 0 \/ s.numM % c.mc = 0 \/ Flip(next) < all)
    [] OTHER ->
         IF s.group = c.groups THEN NoBlock
         ELSE Found(c, s, IF c.type = "psum" THEN [w EXCEPT !.m = @ + s.lastPsum \div c.bm] ELSE w,
                    s.group, TRUE)
BlockAt(c, s, next) ==
  <<s, Assigned(c, s, next, Swizzle(c, s.numM, next - BlocksBefore(c, s)), BlocksPerGroup(c))>>

NextBlock(c, s, sm) ==
  LET next == (s.iter + 1) * c.sms + sm
  IN  BlockAt(c, Seek(c, [s EXCEPT !.iter = @ + 1], next), next)

\* The blocks SM sm works on, in order.
RECURSIVE BlocksFrom(_, _, _), Collect(_, _, _)
Collect(c, got, sm) == IF got[2].found THEN <<got[2]>> \o BlocksFrom(c, got[1], sm) ELSE <<>>
BlocksFrom(c, s, sm) == Collect(c, NextBlock(c, s, sm), sm)
\* Mutant: the index of the cluster's first SM in place of the SM's own.
BlocksOfLeader(c, sm) == BlocksFrom(c, InitState(c), (sm \div c.mc) * c.mc)
Blocks(c, sm) == BlocksFrom(c, InitState(c), sm)

\* get_global_idx: the group whose operand B the block needs; a contiguous layout
\* names it in its rows.
GroupOf(c, b) == IF c.type = "contiguous" THEN Max({0, c.layout[b.m * c.bm + 1]}) ELSE b.group

\* is_computation_valid for the warp group whose rows start at offset in block b.
ComputationValid(c, b, offset) ==
  LET row == offset + b.m * c.bm
  IN  CASE c.type = "contiguous" -> c.layout[row + 1] >= 0
        [] c.type = "masked" -> row < c.layout[b.group + 1]
        [] c.type = "psum" -> row < c.layout[b.group + 1]
        [] OTHER -> TRUE

-----------------------------------------------------------------------------
(* What the scheduler is for. *)

\* The blocks of the problem, by group: no row or column of any group is missed
\* and an empty group has none.
Wanted(c) ==
  LET ns == 0 .. NumN(c) - 1
      ms(g) ==
        CASE c.type = "masked" -> 0 .. CeilDiv(c.layout[g + 1], c.bm) - 1
          [] c.type = "psum" ->
               (IF g = 0 THEN 0 ELSE CeilDiv(c.layout[g], c.bm)) .. CeilDiv(c.layout[g + 1], c.bm) - 1
          [] c.type = "kgrouped" -> {m \in 0 .. CeilDiv(c.m, c.bm) - 1 : c.layout[g + 1] > 0}
          [] OTHER -> 0 .. CeilDiv(c.m, c.bm) - 1
      gs == IF c.type \in {"normal", "contiguous"} THEN {0} ELSE 0 .. c.groups - 1
  IN  UNION {ms(g) \X ns \X {g} : g \in gs}

\* Without a word between them the SMs divide the blocks of the problem: each is
\* returned to exactly one SM, once.
Numbered(sm, bs) == {<<sm, i, <<bs[i].m, bs[i].n, bs[i].group>>>> : i \in DOMAIN bs}
Divides(given, wanted) ==
  {g[3] : g \in given} = wanted /\ Cardinality(given) = Cardinality(wanted)
PartitionsBlocks(c) ==
  Divides(UNION {Numbered(sm, Blocks(c, sm)) : sm \in 0 .. c.sms - 1}, Wanted(c))

\* Two SMs that share their operand loads (one cluster) agree in every round on
\* whether they share, on what they share and on how many k blocks they consume;
\* one that is alone knows it.
Together(c, a, b) ==
  /\ a.k = b.k /\ a.multicast = b.multicast
  /\ c.arch = 90 => a.alive /\ b.alive
  /\ a.multicast => IF c.onA THEN a.m = b.m /\ a.group = b.group
                    ELSE a.n = b.n /\ GroupOf(c, a) = GroupOf(c, b)
RoundsAgree(c, p, q) ==
  /\ Len(q) <= Len(p) /\ (c.arch = 100 => Len(p) = Len(q))
  /\ \A i \in 1 .. Len(p) : IF i <= Len(q) THEN Together(c, p[i], q[i])
                            ELSE ~p[i].multicast /\ ~p[i].alive
PeersAgree(c) ==
  \A pair \in 0 .. (c.sms \div 2) - 1 :
    RoundsAgree(c, Blocks(c, 2 * pair), Blocks(c, 2 * pair + 1))
=============================================================================

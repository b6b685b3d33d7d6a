---------------------------- MODULE KernelSteps ----------------------------
(***************************************************************************)
(* The steps warps are programmed with, and what the programs of the       *)
(* pipelined kernels share: ring stages with their parity, the walk over   *)
(* blocks and k blocks, operands and copies.                               *)
(***************************************************************************)
EXTENDS Integers, Sequences, FiniteSets, SequencesExt

Ctas == {0, 1}                \* of one cluster
CtaOf(x) == x[Len(x)]         \* barriers, slots and roles end in their CTA

Wait(b, parity) == <<[op |-> "wait", bar |-> b, parity |-> parity]>>
Arrive(bs, n) == <<[op |-> "arrive", bars |-> bs, n |-> n, tx |-> 0]>>
ArriveExpect(b, tx) == <<[op |-> "arrive", bars |-> {b}, n |-> 1, tx |-> tx]>>
\* to: the pairs <<slot, barrier>> one copy writes and signals
Load(to, val) == <<[op |-> "load", to |-> to, val |-> val]>>
\* The k-th MMA into the accumulator slots acc of block i; MMA 0 clears them.
Mma(c, uses, acc, i, k) ==
  <<[op |-> "mma", cta |-> c, uses |-> uses, acc |-> acc, i |-> i, k |-> k]>>
Acc(i, k) == <<"acc", i, k>>  \* an accumulator after that MMA
Commit(c, bs) == <<[op |-> "commit", cta |-> c, bars |-> bs]>>
Read(uses) == <<[op |-> "read", uses |-> uses]>>
WriteAll(slots, val) == <<[op |-> "write", slots |-> slots, val |-> val]>>
Write(slot, val) == WriteAll({slot}, val)
Sync(id, group) == <<[op |-> "sync", id |-> id, group |-> group]>>
Store(uses, res) == <<[op |-> "store", uses |-> uses, res |-> res]>>
StoreWait(n) == <<[op |-> "storewait", n |-> n]>>
Emit(res) == <<[op |-> "emit", res |-> res]>>

\* A loop: the bodies for 0 .. n - 1, one after the other; a conditional part.
For(n, Body(_)) == FlattenSeq([i \in 1 .. n |-> Body(i - 1)])
When(cond, part) == IF cond THEN part ELSE <<>>

-----------------------------------------------------------------------------
Stage(it, n) == it % n
Parity(it, n) == (it \div n) % 2
Before(it, n) == 1 - Parity(it, n)  \* the parity a producer waits for

\* The iterations of a persistent loop: block i (from 0) of bs starts at FirstOf.
\* A block has kb k blocks.
FirstOf(bs, i) == FoldLeft(LAMBDA n, b : n + b.kb, 0, SubSeq(bs, 1, i))
Iterations(bs) == FirstOf(bs, Len(bs))

Full(s, c) == <<"full", s, c>>
Empty(s, c) == <<"empty", s, c>>
\* An operand in ring slot <<name, s, c>> and what it has to hold.
Slot(name, s, c) == <<name, s, c>>

\* tma::copy: with multicast the CTA of rank 0 alone copies into both CTAs and
\* both full barriers count the bytes; without, each CTA copies for itself.
Copy(multicast, name, s, c, val) ==
  LET to(d) == <<Slot(name, s, d), Full(s, d)>>
  IN  IF ~multicast THEN Load({to(c)}, val)
      ELSE When(c = 0, Load({to(0), to(1)}, val))
=============================================================================

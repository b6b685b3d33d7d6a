------------------------------ MODULE MegaMoE ------------------------------
(***************************************************************************)
(* Launches of the SM100 mega MoE kernel over several ranks                *)
(* (impls/sm100_fp8_fp4_mega_moe.cuh).  On every SM the dispatch warps     *)
(* count, announce and pull tokens, the TMA warps wait for them, the       *)
(* epilogue warps finish blocks and combine; then the dispatch warps clear *)
(* the workspace for the next launch while the epilogue warps reduce.      *)
(* An agent is <<role, rank, SM>>, with the TMA warps of the two SMs of a  *)
(* cluster as one; what happens inside an SM between a load and its        *)
(* epilogue is in MegaKernel.  The barriers are what NvlinkBarrier is      *)
(* shown to implement: at a grid_sync the SMs of a rank wait for each      *)
(* other, the signals of the ranks are a PhaseBarrier.                     *)
(***************************************************************************)
EXTENDS MegaSchedule, TLC

CONSTANTS
  NumRanks, NumSMs,
  NumExperts,       \* kNumExpertsPerRank
  ExpertsPerWave, BlockM, L1BlockNs, L2BlockNs,
  MaxReceived,      \* bounds the tokens an expert receives in a launch
  Inputs            \* Inputs[l][r]: of launch l, for each token the experts it goes to, or -1

ASSUME MegaSizes ==
  /\ NumRanks \in Nat \ {0} /\ NumSMs \in Nat \ {0} /\ NumSMs % 2 = 0
  /\ {NumExperts, ExpertsPerWave, BlockM, L1BlockNs, L2BlockNs} \subseteq Nat \ {0}
  /\ L1BlockNs % 2 = 0 /\ L2BlockNs % 2 = 0     \* the SMs of a cluster share a row of blocks
  /\ MaxReceived \in Nat

Ranks == 0 .. NumRanks - 1
SMs == 0 .. NumSMs - 1
Leader(s) == s - (s % 2)                \* of the cluster of SM s
Agents == ({"dispatch", "epilogue"} \X Ranks \X SMs)
            \cup ({"gemm"} \X Ranks \X {Leader(s) : s \in SMs})
LocalExperts == 0 .. NumExperts - 1
Owner(e) == e \div NumExperts
Local(e) == e % NumExperts
GlobalExperts == 0 .. NumRanks * NumExperts - 1

VARIABLES
  entered, left,  \* rounds of NVLink signals, of each rank
  launch,    \* launch[r]: the launch whose inputs rank r holds
  pc, todo,  \* of each agent: its step, and how far it is in the loop of that step
  counts,    \* stored_num_tokens_per_expert of each agent
  slots,      \* smem_expert_count of each SM: first slot of its routes to each expert
  send,      \* send[r][e]: expert send count, [sms, n]
  recv,      \* recv[r][q][e]: expert receive count
  sums,       \* sums[r][e]: expert receive count sum, [sms, n]
  index,     \* index[r]: <<e, [rank, slot]>> -> the token and top-k slot, with their launch
  pool,      \* pool[r]: row -> what was pulled into it
  arrived,   \* arrived[r]: pool block -> L1 arrival count
  mask,      \* mask[r]: pool block -> L2 arrival mask
  hidden,    \* hidden[r]: <<pool block, n>> -> the launch of the L1 output there
  combine    \* combine[r]: <<token, top-k slot, n>> -> what was written back there

workspace == <<send, recv, sums, index, pool, arrived, mask, hidden, combine>>
barrier == <<entered, left>>
vars == <<barrier, launch, pc, todo, counts, slots, workspace>>

-----------------------------------------------------------------------------
(* Programs. *)

\* SM 0 reports, and takes part in the rounds of signals.
Dispatch(s) ==
  IF s = 0
  THEN <<"claim", "index", "grid", "report", "enter", "leave", "grid", "meet", "fetch", "pull",
         "meet", "clean", "grid", "enter", "leave">>
  ELSE <<"claim", "index", "grid", "grid", "meet", "fetch", "pull", "meet", "clean", "grid">>
Gemm == <<"fetch">>
Epilogue(s) ==
  IF s = 0
  THEN <<"meet", "fetch", "compute", "grid", "enter", "leave", "grid", "meet", "reduce">>
  ELSE <<"meet", "fetch", "compute", "grid", "grid", "meet", "reduce">>

\* f; to compare it with itself, TLC computes all of it once.
Table(f) == CHOOSE g \in {f} : g = f

Program ==
  Table([a \in Agents |-> CASE a[1] = "dispatch" -> Dispatch(a[3])
                           [] a[1] = "gemm" -> Gemm
                           [] a[1] = "epilogue" -> Epilogue(a[3])])

Done(a) == pc[a] > Len(Program[a])
At(a, step) == ~Done(a) /\ Program[a][pc[a]] = step
KernelDone(r) == \A a \in Agents : a[2] = r => Done(a)

Go(a) == pc' = [pc EXCEPT ![a] = @ + 1] /\ todo' = [todo EXCEPT ![a] = 0]
\* One turn of a loop of n; the last one ends it.
Turn(a, n) == IF todo[a] + 1 < n THEN todo' = [todo EXCEPT ![a] = @ + 1] /\ UNCHANGED pc
              ELSE Go(a)

-----------------------------------------------------------------------------
(* Routes and tokens. *)

Routes(l, r, s) ==
  LET tokens == Inputs[l][r]
  IN  {<<t, j, tokens[t][j]>> : t \in {x \in DOMAIN tokens : x % NumSMs = s},
                                j \in UNION {DOMAIN tokens[x] : x \in DOMAIN tokens}}
RoutesTo(l, r, s, e) == {x \in Routes(l, r, s) : x[3] = e}
Received(l, r, e) ==
  Cardinality(UNION {{<<q, x>> : x \in RoutesTo(l, q, s, r * NumExperts + e)} :
                       q \in Ranks, s \in SMs})

Nths == 1 .. Len(Inputs)
ASSUME InputsFit ==
  /\ Inputs \in Seq([Ranks -> Seq(Seq(GlobalExperts \cup {-1}))]) /\ Inputs # <<>>
  /\ \A l \in Nths, r \in Ranks : \A x, y \in DOMAIN Inputs[l][r] :
       Len(Inputs[l][r][x]) = Len(Inputs[l][r][y])        \* kNumTopk
  /\ \A l \in Nths, r \in Ranks, e \in LocalExperts : Received(l, r, e) <= MaxReceived

Instance(n) == [experts |-> NumExperts, wave |-> ExpertsPerWave, tokens |-> n, bm |-> BlockM,
                l1n |-> L1BlockNs, l2n |-> L2BlockNs, sms |-> NumSMs]
\* What an agent derives from its counts: the blocks of each SM and the tokens to pull;
\* likewise the sources of an expert's tokens.
Plan ==
  Table([n \in [LocalExperts -> 0 .. MaxReceived] |->
    LET c == Instance(n)
        pull(task) == [expert |-> task.expert, idx |-> task.idx, row |-> PoolRow(c, task)] IN
    [blocks |-> Table([s \in SMs |-> BlocksOf(c, s)]),
     pulls |-> Table([i \in 0 .. TotalTokens(c) - 1 |-> pull(PullTask(c, i))])]])
Sources ==
  Table([n \in [Ranks -> 0 .. MaxReceived] |->
    Table([slot \in 0 .. MapThenSumSet(LAMBDA q : n[q], Ranks) - 1 |-> PullSource(n, slot)])])
PlanOf(a) == Plan[counts[a]]
Rows(c, b, k) == {k * c.bm + x : x \in 0 .. ValidM(c, b.expert, b.m) - 1}
\* A map with some of its entries set.
Set(f, new) == [x \in DOMAIN f \cup DOMAIN new |-> IF x \in DOMAIN new THEN new[x] ELSE f[x]]
Entry(f, x, none) == IF x \in DOMAIN f THEN f[x] ELSE none

Nvl == INSTANCE PhaseBarrier WITH Procs <- Ranks

CountsFinal(r) == \A e \in LocalExperts : sums[r][e].sms = NumSMs * NumRanks

-----------------------------------------------------------------------------
Init ==
  /\ Nvl!Init
  /\ launch = [r \in Ranks |-> 1]
  /\ pc = [a \in Agents |-> 1]
  /\ todo = [a \in Agents |-> 0]
  /\ counts = [a \in Agents |-> <<>>]
  /\ slots = [r \in Ranks |-> [s \in SMs |-> <<>>]]
  /\ send = [r \in Ranks |-> [e \in GlobalExperts |-> [sms |-> 0, n |-> 0]]]
  /\ recv = [r \in Ranks |-> [q \in Ranks |-> [e \in LocalExperts |-> 0]]]
  /\ sums = [r \in Ranks |-> [e \in LocalExperts |-> [sms |-> 0, n |-> 0]]]
  /\ index = [r \in Ranks |-> <<>>]
  /\ pool = [r \in Ranks |-> <<>>]
  /\ arrived = [r \in Ranks |-> <<>>]
  /\ mask = [r \in Ranks |-> <<>>]
  /\ hidden = [r \in Ranks |-> <<>>]
  /\ combine = [r \in Ranks |-> <<>>]

\* The next launch on a rank, with its inputs in the symmetric buffer: when the
\* previous kernel is over there, whatever the other ranks are at.
Launch(r) ==
  /\ KernelDone(r) /\ launch[r] < Len(Inputs)
  /\ launch' = [launch EXCEPT ![r] = @ + 1]
  /\ pc' = [a \in Agents |-> IF a[2] = r THEN 1 ELSE pc[a]]
  /\ counts' = [a \in Agents |-> IF a[2] = r THEN <<>> ELSE counts[a]]
  /\ UNCHANGED <<barrier, todo, slots, workspace>>

\* An SM adds what it counted, and that it has, to the counter of every expert.
Claim(r, s) ==
  LET a == <<"dispatch", r, s>> IN
  /\ At(a, "claim")
  /\ slots' = [slots EXCEPT ![r][s] = [e \in GlobalExperts |-> send[r][e].n]]
  /\ send' = [send EXCEPT ![r] = [e \in GlobalExperts |->
                [sms |-> @[e].sms + 1, n |-> @[e].n + Cardinality(RoutesTo(launch[r], r, s, e))]]]
  /\ Go(a)
  /\ UNCHANGED <<barrier, launch, counts, recv, sums, index, pool, arrived, mask, hidden, combine>>

\* Its routes, from the slots it drew, at the rank of the expert.
Index(r, s) ==
  LET a == <<"dispatch", r, s>>
      nth(x) == Cardinality({y \in RoutesTo(launch[r], r, s, x[3]) :
                  y[1] < x[1] \/ (y[1] = x[1] /\ y[2] < x[2])})
      at(x) == <<Local(x[3]), [rank |-> r, slot |-> slots[r][s][x[3]] + nth(x)]>>
      sent(q) == {x \in Routes(launch[r], r, s) : x[3] >= 0 /\ Owner(x[3]) = q} IN
  /\ At(a, "index")
  /\ index' = [q \in Ranks |-> Set(index[q],
       [y \in {at(x) : x \in sent(q)} |->
         LET x == CHOOSE x \in sent(q) : at(x) = y IN <<launch[r], r, x[1], x[2]>>])]
  /\ Go(a)
  /\ UNCHANGED <<barrier, launch, counts, slots, send, recv, sums, pool, arrived, mask, hidden, combine>>

\* Mutant: nothing is announced to an expert that gets nothing.
ReportRouted(r) ==
  LET a == <<"dispatch", r, 0>>  e == todo[a]  q == Owner(e) IN
  /\ At(a, "report")
  /\ IF send[r][e].n = 0 THEN UNCHANGED <<recv, sums>>
     ELSE /\ recv' = [recv EXCEPT ![q][r][Local(e)] = send[r][e].n]
          /\ sums' = [sums EXCEPT ![q][Local(e)] =
                       [sms |-> @.sms + send[r][e].sms, n |-> @.n + send[r][e].n]]
  /\ Turn(a, NumRanks * NumExperts)
  /\ UNCHANGED <<barrier, launch, counts, slots, send, index, pool, arrived, mask, hidden, combine>>

\* SM 0 announces the counts, one expert after the other.
Report(r) ==
  LET a == <<"dispatch", r, 0>>  e == todo[a]  q == Owner(e) IN
  /\ At(a, "report")
  /\ recv' = [recv EXCEPT ![q][r][Local(e)] = send[r][e].n]
  /\ sums' = [sums EXCEPT ![q][Local(e)] =
               [sms |-> @.sms + send[r][e].sms, n |-> @.n + send[r][e].n]]
  /\ Turn(a, NumRanks * NumExperts)
  /\ UNCHANGED <<barrier, launch, counts, slots, send, index, pool, arrived, mask, hidden, combine>>

\* The agents that wait for each other leave together; whoever is slower to leave
\* only does its next step later.
GoTogether(group, step) ==
  /\ \A a \in group : At(a, step)
  /\ pc' = [a \in Agents |-> IF a \in group THEN pc[a] + 1 ELSE pc[a]]
  /\ UNCHANGED <<barrier, launch, todo, counts, slots, workspace>>

Grid(r, role) == GoTogether({<<role, r, s>> : s \in SMs}, "grid")

NvlinkStep(a) ==
  /\ \/ At(a, "enter") /\ Nvl!Enter(a[2])
     \/ At(a, "leave") /\ Nvl!Leave(a[2])
  /\ Go(a)
  /\ UNCHANGED <<launch, counts, slots, workspace>>

\* The barrier that dispatch and epilogue warps of an SM share.
Meet(r, s) == GoTogether({<<"dispatch", r, s>>, <<"epilogue", r, s>>}, "meet")

\* The turns of an agent in the loop over its tokens or blocks, with plan p.
Turns(a, p) ==
  CASE a[1] = "dispatch" -> Cardinality({i \in DOMAIN p.pulls : i % NumSMs = a[3]})
    [] a[1] = "epilogue" -> Len(p.blocks[a[3]])
    [] a[1] = "gemm" -> 1

\* fetch_expert_recv_count: every role reads the counts for itself, and has a loop
\* next unless nothing is left of it.  It reads all experts at one time: a role that the
\* cleaning catches between two experts is taken for late.
Fetch(a) ==
  LET n == [e \in LocalExperts |-> sums[a[2]][e].n] IN
  /\ At(a, "fetch") /\ CountsFinal(a[2])
  /\ counts' = [counts EXCEPT ![a] = n]
  /\ pc' = [pc EXCEPT ![a] = IF Turns(a, Plan[n]) = 0 THEN @ + 2 ELSE @ + 1]
  /\ UNCHANGED <<barrier, launch, todo, slots, workspace>>

-----------------------------------------------------------------------------
\* The token an SM pulls next, and where it comes from.
NextPull(a, p) == p.pulls[a[3] + NumSMs * todo[a]]
PullFrom(r, pull) ==
  <<pull.expert, Sources[[q \in Ranks |-> recv[r][q][pull.expert]]][pull.idx]>>

\* The token is copied from its rank into the pool and counted in its block.
PullToken(r, pull, from, source) ==
  /\ pool' = [pool EXCEPT ![r] = Set(@, [x \in {pull.row} |->
                <<launch[from[2].rank], from[2].rank, source[3], source[4]>>])]
  /\ arrived' = [arrived EXCEPT ![r] =
       Set(@, [x \in {pull.row \div BlockM} |-> Entry(@, x, 0) + 1])]
PullNext(a, p) ==
  LET from == PullFrom(a[2], NextPull(a, p)) IN
  /\ PullToken(a[2], NextPull(a, p), from, index[a[2]][from])
  /\ Turn(a, Turns(a, p))
Pull(r, s) ==
  LET a == <<"dispatch", r, s>> IN
  /\ At(a, "pull") /\ PullNext(a, PlanOf(a))
  /\ UNCHANGED <<barrier, launch, counts, slots, send, recv, sums, index, mask, hidden, combine>>

\* What the TMA warps wait for before they load block b, block k of the pool.
Loadable(r, c, b, k) ==
  IF b.phase = 1 THEN Entry(arrived[r], k, 0) = ValidM(c, b.expert, b.m)
  ELSE Entry(mask[r], k, {}) = 0 .. L1BlockNs - 1

\* The block at hand of an epilogue.  Both SMs of its cluster have loaded it when the
\* TMA warps know their blocks and the row of blocks is there.
Block(a, p) == p.blocks[a[3]][todo[a] + 1]

\* Linear 1: SwiGLU of the block, then its bit.
Linear1(r, b, k) ==
  /\ b.phase = 1
  /\ hidden' = [hidden EXCEPT ![r] = Set(@, [x \in {<<k, b.n>>} |-> launch[r]])]
  /\ mask' = [mask EXCEPT ![r] = Set(@, [x \in {k} |-> Entry(@, x, {}) \cup {b.n}])]
  /\ UNCHANGED combine

\* Linear 2: the rows go back to the ranks of their tokens.
Linear2(r, c, b, k) ==
  LET back(q) == {pool[r][x] : x \in {y \in Rows(c, b, k) : pool[r][y][2] = q}} IN
  /\ b.phase = 2
  /\ combine' = [q \in Ranks |-> Set(combine[q],
       [y \in {<<v[3], v[4], b.n>> : v \in back(q)} |->
          CHOOSE v \in back(q) : <<v[3], v[4]>> = <<y[1], y[2]>>])]
  /\ UNCHANGED <<mask, hidden>>

ComputeBlock(r, c, b, k) ==
  /\ Loadable(r, c, b, k)
  /\ Linear1(r, b, k) \/ Linear2(r, c, b, k)
ComputeNext(a, p, c) ==
  LET b == Block(a, p) IN
  /\ ComputeBlock(a[2], c, b, PoolBlock(c, b))
  /\ Turn(a, Turns(a, p))
Compute(r, s) ==
  LET a == <<"epilogue", r, s>> IN
  /\ At(a, "compute") /\ Done(<<"gemm", r, Leader(s)>>)
  /\ ComputeNext(a, PlanOf(a), Instance(counts[a]))
  /\ UNCHANGED <<barrier, launch, counts, slots, send, recv, sums, index, pool, arrived>>

-----------------------------------------------------------------------------
\* Mutant: the L2 arrival masks stay.
ClearKept(r, c, e) ==
  /\ arrived' = [arrived EXCEPT ![r] =
       [k \in DOMAIN @ |-> IF k - PoolBlockOffset(c, e) \in 0 .. NumMBlocks(c, e) - 1 THEN 0 ELSE @[k]]]
  /\ UNCHANGED mask

\* The blocks of expert e: from the offset in the agent's counts, as many as the
\* count in the workspace gives.
Clear(r, c, e) ==
  LET own(k) == k - PoolBlockOffset(c, e) \in 0 .. CeilDiv(sums[r][e].n, BlockM) - 1 IN
  /\ arrived' = [arrived EXCEPT ![r] = [k \in DOMAIN @ |-> IF own(k) THEN 0 ELSE @[k]]]
  /\ mask' = [mask EXCEPT ![r] = [k \in DOMAIN @ |-> IF own(k) THEN {} ELSE @[k]]]

\* SM 0 clears the send counts, the other SMs the experts, one after the other.  By
\* then the epilogue warps of the rank have read the counts, and whoever had a token to
\* pull or a block to load; dispatch, TMA and MMA warps without work need not have.
Clean(r, s) ==
  LET a == <<"dispatch", r, s>>
      e == s - 1 + todo[a] * (NumSMs - 1) IN
  /\ At(a, "clean")
  /\ IF s = 0
     THEN /\ send' = [send EXCEPT ![r] = [x \in GlobalExperts |-> [sms |-> 0, n |-> 0]]]
          /\ Go(a)
          /\ UNCHANGED <<recv, sums, arrived, mask>>
     ELSE IF e < NumExperts
     THEN /\ Clear(r, Instance(counts[a]), e)
          /\ sums' = [sums EXCEPT ![r][e] = [sms |-> 0, n |-> 0]]
          /\ recv' = [recv EXCEPT ![r] = [q \in Ranks |-> [@[q] EXCEPT ![e] = 0]]]
          /\ IF e + NumSMs - 1 < NumExperts
             THEN todo' = [todo EXCEPT ![a] = @ + 1] /\ UNCHANGED pc
             ELSE Go(a)
          /\ UNCHANGED send
     ELSE Go(a) /\ UNCHANGED <<send, recv, sums, arrived, mask>>
  /\ UNCHANGED <<barrier, launch, counts, slots, index, pool, hidden, combine>>

\* Every SM reduces its tokens over their routes.
Reduce(r, s) ==
  LET a == <<"epilogue", r, s>> IN
  /\ At(a, "reduce")
  /\ Go(a)
  /\ UNCHANGED <<barrier, launch, counts, slots, workspace>>

\* The counts that role a waits for were final, for others have read them in this launch,
\* and are cleared: it waits for ever.
Overtaken(a) ==
  /\ At(a, "fetch") /\ ~CountsFinal(a[2])
  /\ \E x \in Agents : x[2] = a[2] /\ counts[x] # <<>>

Finished == \A r \in Ranks : launch[r] = Len(Inputs) /\ KernelDone(r)

DispatchStep(r, s) == Claim(r, s) \/ Index(r, s) \/ Pull(r, s) \/ Clean(r, s)
EpilogueStep(r, s) == Compute(r, s) \/ Reduce(r, s)

Next ==
  \/ \E r \in Ranks : Launch(r) \/ Report(r) \/ Grid(r, "dispatch") \/ Grid(r, "epilogue")
  \/ \E r \in Ranks, s \in SMs : DispatchStep(r, s) \/ EpilogueStep(r, s) \/ Meet(r, s)
  \/ \E a \in Agents : NvlinkStep(a) \/ Fetch(a)
  \/ Finished /\ UNCHANGED vars

\* The CTAs are all resident and their warps are scheduled; the stream starts the
\* next kernel.  There are finitely many steps, so fairness of the whole is enough.
Spec == Init /\ [][Next]_vars /\ WF_vars(Next)

-----------------------------------------------------------------------------
(* Whatever the workspace of a rank holds from other ranks or from earlier *)
(* launches, what is read there belongs to the launch that reads it.       *)

\* Counts that are final count the routes of this launch, of all ranks.
CountsRight ==
  \A a \in Agents : (At(a, "fetch") /\ CountsFinal(a[2])) =>
    \A e \in LocalExperts : sums[a[2]][e].n = Received(launch[a[2]], a[2], e)
\* A pull finds an index of this launch and the inputs of this launch at its rank.
FoundRight(r, from) ==
  /\ from \in DOMAIN index[r]
  /\ index[r][from][1] = launch[r] /\ index[r][from][2] = from[2].rank
  /\ launch[from[2].rank] = launch[r]
PullsRight ==
  \A a \in Agents : (a[1] = "dispatch" /\ At(a, "pull")) =>
    FoundRight(a[2], PullFrom(a[2], NextPull(a, PlanOf(a))))
\* A block whose wait is over is complete: all its rows, or all its L1 outputs.
Complete(r, c, b, k) ==
  Loadable(r, c, b, k) =>
    IF b.phase = 1
    THEN \A x \in Rows(c, b, k) : x \in DOMAIN pool[r] /\ pool[r][x][1] = launch[r]
    ELSE \A n \in 0 .. L1BlockNs - 1 : Entry(hidden[r], <<k, n>>, 0) = launch[r]
BlockRight(r, c, b) == Complete(r, c, b, PoolBlock(c, b))
LoadsRight ==
  \A a \in Agents : (a[1] = "epilogue" /\ At(a, "compute")) =>
    BlockRight(a[2], Instance(counts[a]), Block(a, PlanOf(a)))
\* The reduction finds every route of its tokens back, whole and of this launch.
ReducesRight ==
  \A a \in Agents : At(a, "reduce") =>
    \A x \in Routes(launch[a[2]], a[2], a[3]), n \in 0 .. L2BlockNs - 1 : x[3] >= 0 =>
      Entry(combine[a[2]], <<x[1], x[2], n>>, <<>>) = <<launch[a[2]], a[2], x[1], x[2]>>

ReadsSeeThisLaunch == CountsRight /\ PullsRight /\ LoadsRight /\ ReducesRight
=============================================================================

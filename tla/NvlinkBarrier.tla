---------------------------- MODULE NvlinkBarrier ----------------------------
(***************************************************************************)
(* The barriers of the SM100 mega MoE kernel (comm/barrier.cuh).  The SMs  *)
(* of a rank meet at grid_sync, a counter whose top bit flips when the     *)
(* last of them has come; SM 0 of every rank meets the others by signals   *)
(* over NVLink, counted up in one round and down two rounds later in one   *)
(* of two words, chosen by a local counter of rounds.  Dispatch and        *)
(* epilogue warps have a grid_sync counter each and share the signals; the *)
(* barrier within an SM at which they meet keeps them apart.  MegaMoE uses *)
(* what is shown here: that both are barriers.                             *)
(***************************************************************************)
EXTENDS Integers, Sequences, FiniteSets

CONSTANTS
  NumRanks, NumSMs,
  FinishTag,   \* kFinishSumTag: 2^31 in the code, the top bit of a counter
  Launches     \* bounds the launches of a rank

BarrierSizes ==
  /\ NumRanks \in Nat \ {0}
  /\ NumSMs \in Nat \ {0}
  /\ FinishTag \in Nat /\ FinishTag >= NumSMs
  /\ Launches \in Nat \ {0}

Ranks == 0 .. NumRanks - 1
SMs == 0 .. NumSMs - 1
GridIndices == {"dispatch", "epilogue"}     \* kDispatchGridSyncIndex, kEpilogue...
Agents == GridIndices \X Ranks \X SMs

VARIABLES
  launch,     \* launch[r]: launches begun on rank r
  pc, sent,   \* of each agent: its step, and the ranks it has signalled there
  grid,       \* grid[r][i]: grid sync counter i of rank r
  drawn,      \* drawn[r][i][s]: old_value of SM s
  rounds,     \* rounds[r]: NVLink barrier counter
  signal,     \* signal[r][p]: the signal words
  gridCalls, gridReturns,   \* history: of SM s in grid_sync i of rank r
  nvlCalls, nvlReturns      \* history: of rank r in the NVLink part

words == <<grid, drawn, rounds, signal, gridCalls, gridReturns, nvlCalls, nvlReturns>>
vars == <<launch, pc, sent, words>>

Each(v) == [r \in Ranks |-> [i \in GridIndices |-> [s \in SMs |-> v]]]

\* The barriers of a kernel, as its warps come to them.
GridSync == <<"arrive", "depart">>
Nvlink(s) == IF s = 0 THEN <<"signal", "await">> ELSE <<>>

Program ==
  [a \in Agents |->
    IF a[1] = "dispatch"
    THEN GridSync \o Nvlink(a[3]) \o GridSync \o <<"meet", "meet">> \o GridSync \o Nvlink(a[3])
    ELSE <<"meet">> \o GridSync \o Nvlink(a[3]) \o GridSync \o <<"meet">>]
At(a, step) == pc[a] <= Len(Program[a]) /\ Program[a][pc[a]] = step
KernelDone(r) == \A a \in Agents : a[2] = r => pc[a] > Len(Program[a])
Go(a) == pc' = [pc EXCEPT ![a] = @ + 1] /\ UNCHANGED <<launch, sent>>

\* The workspace is zeroed when the symmetric buffer is made.
Init ==
  /\ launch = [r \in Ranks |-> 1]
  /\ pc = [a \in Agents |-> 1]
  /\ sent = [a \in Agents |-> {}]
  /\ grid = [r \in Ranks |-> [i \in GridIndices |-> 0]]
  /\ drawn = Each(0)
  /\ rounds = [r \in Ranks |-> 0]
  /\ signal = [r \in Ranks |-> [p \in {0, 1} |-> 0]]
  /\ gridCalls = Each(0)
  /\ gridReturns = Each(0)
  /\ nvlCalls = [r \in Ranks |-> 0]
  /\ nvlReturns = [r \in Ranks |-> 0]

-----------------------------------------------------------------------------
\* Mutant: SM 0 adds one too much.
GridAddOffByOne(s) == IF s = 0 THEN FinishTag - (NumSMs - 2) ELSE 1

\* All SMs together add FinishTag.
GridAdd(s) == IF s = 0 THEN FinishTag - (NumSMs - 1) ELSE 1
Tagged(v) == v >= FinishTag

GridArrive(i, r, s) ==
  /\ At(<<i, r, s>>, "arrive") /\ Go(<<i, r, s>>)
  /\ drawn' = [drawn EXCEPT ![r][i][s] = grid[r][i]]
  /\ grid' = [grid EXCEPT ![r][i] = (@ + GridAdd(s)) % (2 * FinishTag)]
  /\ gridCalls' = [gridCalls EXCEPT ![r][i][s] = @ + 1]
  /\ UNCHANGED <<rounds, signal, gridReturns, nvlCalls, nvlReturns>>

GridLeave(i, r, s) ==
  /\ At(<<i, r, s>>, "depart") /\ Go(<<i, r, s>>)
  /\ Tagged(grid[r][i]) # Tagged(drawn[r][i][s])
  /\ gridReturns' = [gridReturns EXCEPT ![r][i][s] = @ + 1]
  /\ UNCHANGED <<grid, drawn, rounds, signal, gridCalls, nvlCalls, nvlReturns>>

-----------------------------------------------------------------------------
SignalPhase(r) == rounds[r] % 2
CountsDown(r) == (rounds[r] \div 2) % 2 = 1

SignalDelta(r) == IF CountsDown(r) THEN -1 ELSE 1

\* The threads of SM 0 signal a rank each; the first of them enters the round.
SendSignal(i, r, q) ==
  LET a == <<i, r, 0>> IN
  /\ At(a, "signal") /\ q \notin sent[a]
  /\ signal' = [signal EXCEPT ![q][SignalPhase(r)] = @ + SignalDelta(r)]
  /\ nvlCalls' = [nvlCalls EXCEPT ![r] = IF sent[a] = {} THEN @ + 1 ELSE @]
  /\ IF sent[a] \cup {q} = Ranks
     THEN sent' = [sent EXCEPT ![a] = {}] /\ pc' = [pc EXCEPT ![a] = @ + 1]
     ELSE sent' = [sent EXCEPT ![a] = @ \cup {q}] /\ UNCHANGED pc
  /\ UNCHANGED <<launch, grid, drawn, rounds, gridCalls, gridReturns, nvlReturns>>

Target(r) == IF CountsDown(r) THEN 0 ELSE NumRanks

\* The wait of thread 0.  It adds to the counter before it waits; nobody else reads
\* the counter until it has gone on.
AllSignalled(i, r) ==
  /\ At(<<i, r, 0>>, "await") /\ Go(<<i, r, 0>>)
  /\ signal[r][SignalPhase(r)] = Target(r)
  /\ rounds' = [rounds EXCEPT ![r] = @ + 1]
  /\ nvlReturns' = [nvlReturns EXCEPT ![r] = @ + 1]
  /\ UNCHANGED <<grid, drawn, signal, gridCalls, gridReturns, nvlCalls>>

-----------------------------------------------------------------------------
\* Dispatch and epilogue warps of an SM.
Meet(r, s) ==
  LET both == {<<i, r, s>> : i \in GridIndices} IN
  /\ \A a \in both : At(a, "meet")
  /\ pc' = [a \in Agents |-> IF a \in both THEN pc[a] + 1 ELSE pc[a]]
  /\ UNCHANGED <<launch, sent, words>>

\* The next kernel of a rank, when the one before is over there.
Launch(r) ==
  /\ KernelDone(r) /\ launch[r] < Launches
  /\ launch' = [launch EXCEPT ![r] = @ + 1]
  /\ pc' = [a \in Agents |-> IF a[2] = r THEN 1 ELSE pc[a]]
  /\ UNCHANGED <<sent, words>>

Finished == \A r \in Ranks : launch[r] = Launches /\ KernelDone(r)

Next ==
  \/ \E i \in GridIndices, r \in Ranks :
       \/ \E s \in SMs : GridArrive(i, r, s) \/ GridLeave(i, r, s)
       \/ \E q \in Ranks : SendSignal(i, r, q)
       \/ AllSignalled(i, r)
  \/ \E r \in Ranks : Launch(r) \/ (\E s \in SMs : Meet(r, s))
  \/ Finished /\ UNCHANGED vars

\* All CTAs are resident and their warps scheduled; finitely many steps in all.
Spec == Init /\ [][Next]_vars /\ WF_vars(Next)

-----------------------------------------------------------------------------
Nvl == INSTANCE PhaseBarrier WITH Procs <- Ranks, entered <- nvlCalls, left <- nvlReturns
GridOf(r, i) == INSTANCE PhaseBarrier
                  WITH Procs <- SMs, entered <- gridCalls[r][i], left <- gridReturns[r][i]

\* Both are barriers: no rank leaves a round of signals before every rank has entered
\* it, and no SM leaves a grid_sync before all SMs of its rank are there, although
\* the counters are never reset and dispatch and epilogue share the signal words.
ImplementsPhase ==
  /\ Nvl!Init /\ \A r \in Ranks, i \in GridIndices : GridOf(r, i)!Init
  /\ [][/\ Nvl!Next \/ UNCHANGED Nvl!vars
        /\ \A r \in Ranks, i \in GridIndices :
             GridOf(r, i)!Next \/ UNCHANGED GridOf(r, i)!vars]_words
=============================================================================

--------------------------- MODULE KernelMachine ---------------------------
(***************************************************************************)
(* What the GEMM and attention kernels are programmed against: warps that  *)
(* run in parallel and meet only at mbarriers in shared memory, a copy     *)
(* engine (TMA) and a tensor core that work on after the warp that started *)
(* them has gone on.  A kernel is data: the arrival count of each barrier, *)
(* and for each role the sequence of synchronisation steps and accesses    *)
(* its warps perform, loops unrolled over the blocks of one instance.  One *)
(* action of this module executes one kind of step.                        *)
(*                                                                         *)
(* A slot is a piece of shared or tensor memory that is always written and *)
(* read as a whole.  A warp that stands before a "read" or "write" step is *)
(* inside that access, so an overlap of two accesses is a state.           *)
(* Barriers, slots and roles are tuples whose last element is their CTA.   *)
(***************************************************************************)
EXTENDS KernelSteps

CONSTANT Kernels  \* name -> [count: barrier -> Nat, prog: role -> Seq(step), work: set]

VARIABLES
  kernel,   \* the kernel of this behaviour
  pc,       \* role -> index of the step it stands before
  bar,      \* barrier -> its parity, arrivals and bytes (in copies) still to come
  mem,      \* slot -> its content
  loads,    \* copies into shared memory in flight
  tensor,   \* CTA -> what its tensor core has been given and not finished
  stores,   \* role -> copies out of shared memory in flight
  out       \* results written to global memory, with the step that wrote them

vars == <<kernel, pc, bar, mem, loads, tensor, stores, out>>

Torn == <<"torn">>

-----------------------------------------------------------------------------
K == Kernels[kernel]
Roles == DOMAIN K.prog
Done(r) == pc[r] > Len(K.prog[r])
AtStep(r) == K.prog[r][pc[r]]
At(r, op) == ~Done(r) /\ AtStep(r).op = op
Ahead(r) == IF Done(r) THEN {} ELSE {AtStep(r)}    \* the step it stands before
Issued(e) == K.prog[e[1]][e[2]]    \* e = <<role, index>>: a step that was started
AllDone == \A r \in Roles : Done(r)

Content(slot) == IF slot \in DOMAIN mem THEN mem[slot] ELSE <<"none">>
Put(slots, val) == [s \in slots |-> val] @@ mem

\* A barrier whose arrivals and bytes are all in starts its next phase.
Settle(b, v) == IF v.pend = 0 /\ v.tx = 0
                THEN [phase |-> 1 - v.phase, pend |-> K.count[b], tx |-> 0]
                ELSE v
Signal(bs, n, tx) ==
  [b \in DOMAIN bar |-> IF b \in bs
     THEN Settle(b, [bar[b] EXCEPT !.pend = @ - n, !.tx = @ + tx])
     ELSE bar[b]]

Go(r) == pc' = [pc EXCEPT ![r] = @ + 1]

Init ==
  /\ kernel \in DOMAIN Kernels
  /\ pc = [r \in Roles |-> 1]
  /\ bar = [b \in DOMAIN K.count |-> [phase |-> 0, pend |-> K.count[b], tx |-> 0]]
  /\ mem = <<>>
  /\ loads = {}
  /\ tensor = [c \in Ctas |-> <<>>]
  /\ stores = [r \in Roles |-> <<>>]
  /\ out = {}

\* mbarrier wait(parity): passes once the phase of that parity has completed.
WaitStep(r, s) ==
  /\ s.op = "wait"
  /\ bar[s.bar].phase # s.parity
  /\ Go(r)
  /\ UNCHANGED <<kernel, bar, mem, loads, tensor, stores, out>>

\* arrive, arrive at the same barrier of other CTAs, arrive_and_expect_tx.
ArriveStep(r, s) ==
  /\ s.op = "arrive"
  /\ bar' = Signal(s.bars, s.n, s.tx)
  /\ Go(r)
  /\ UNCHANGED <<kernel, mem, loads, tensor, stores, out>>

\* Issue of a TMA load: from here to its completion the slots are being written.
LoadStep(r, s) ==
  /\ s.op = "load"
  /\ loads' = loads \cup {<<r, pc[r]>>}
  /\ mem' = Put({t[1] : t \in s.to}, Torn)
  /\ Go(r)
  /\ UNCHANGED <<kernel, bar, tensor, stores, out>>

\* Loads complete in any order and take their bytes off their barriers.
LoadDone(e) ==
  /\ e \in loads
  /\ loads' = loads \ {e}
  /\ mem' = Put({t[1] : t \in Issued(e).to}, Issued(e).val)
  /\ bar' = [b \in DOMAIN bar |->
               LET n == Cardinality({t \in Issued(e).to : t[2] = b})
               IN  IF n > 0 THEN Settle(b, [bar[b] EXCEPT !.tx = @ - n]) ELSE bar[b]]
  /\ UNCHANGED <<kernel, pc, tensor, stores, out>>

\* tcgen05.mma and tcgen05.commit only queue work; a tensor core takes it in order.
TensorIssue(r, s) ==
  /\ s.op = "mma" \/ s.op = "commit"
  /\ tensor' = [tensor EXCEPT ![s.cta] = Append(@, <<r, pc[r]>>)]
  /\ Go(r)
  /\ UNCHANGED <<kernel, bar, mem, loads, stores, out>>

MmaDone(c) ==
  /\ tensor[c] # <<>> /\ Issued(Head(tensor[c])).op = "mma"
  /\ LET m == Issued(Head(tensor[c]))
     IN  mem' = [s \in m.acc |-> IF m.k = 0 \/ Content(s) = Acc(m.i, m.k - 1)
                                THEN Acc(m.i, m.k) ELSE Torn] @@ mem
  /\ tensor' = [tensor EXCEPT ![c] = Tail(@)]
  /\ UNCHANGED <<kernel, pc, bar, loads, stores, out>>

\* A commit arrives at its barriers once every earlier MMA has finished.
CommitDone(c) ==
  /\ tensor[c] # <<>> /\ Issued(Head(tensor[c])).op = "commit"
  /\ bar' = Signal(Issued(Head(tensor[c])).bars, 1, 0)
  /\ tensor' = [tensor EXCEPT ![c] = Tail(@)]
  /\ UNCHANGED <<kernel, pc, mem, loads, stores, out>>

\* The end of an access by the warp itself.
ReadStep(r, s) ==
  /\ s.op = "read"
  /\ Go(r)
  /\ UNCHANGED <<kernel, bar, mem, loads, tensor, stores, out>>

WriteStep(r, s) ==
  /\ s.op = "write"
  /\ mem' = Put(s.slots, s.val)
  /\ Go(r)
  /\ UNCHANGED <<kernel, bar, loads, tensor, stores, out>>

\* NamedBarrier::sync, __syncthreads and cluster_sync: the group leaves together.
SyncStep(r, s) ==
  /\ s.op = "sync"
  /\ \A q \in s.group : At(q, "sync") /\ AtStep(q).id = s.id
  /\ pc' = [q \in Roles |-> IF q \in s.group THEN pc[q] + 1 ELSE pc[q]]
  /\ UNCHANGED <<kernel, bar, mem, loads, tensor, stores, out>>

\* Issue of a TMA store (tma_store_arrive included); it reads shared memory later.
StoreStep(r, s) ==
  /\ s.op = "store"
  /\ stores' = [stores EXCEPT ![r] = Append(@, pc[r])]
  /\ Go(r)
  /\ UNCHANGED <<kernel, bar, mem, loads, tensor, out>>

StoreDone(r) ==
  /\ stores[r] # <<>>
  /\ out' = out \cup {<<K.prog[r][Head(stores[r])].res, r, Head(stores[r])>>}
  /\ stores' = [stores EXCEPT ![r] = Tail(@)]
  /\ UNCHANGED <<kernel, pc, bar, mem, loads, tensor>>

\* tma_store_wait<n>: at most n of this warp's stores still read shared memory.
StoreWaitStep(r, s) ==
  /\ s.op = "storewait"
  /\ Len(stores[r]) <= s.n
  /\ Go(r)
  /\ UNCHANGED <<kernel, bar, mem, loads, tensor, stores, out>>

\* A store or atomic from registers to global memory.
EmitStep(r, s) ==
  /\ s.op = "emit"
  /\ out' = out \cup {<<s.res, r, pc[r]>>}
  /\ Go(r)
  /\ UNCHANGED <<kernel, bar, mem, loads, tensor, stores>>

Finished == AllDone /\ loads = {} /\ (\A c \in Ctas : tensor[c] = <<>>)
              /\ (\A r \in Roles : stores[r] = <<>>)

WarpStep(r, s) ==
  \/ WaitStep(r, s) \/ ArriveStep(r, s) \/ LoadStep(r, s) \/ TensorIssue(r, s) \/ ReadStep(r, s)
  \/ WriteStep(r, s) \/ SyncStep(r, s) \/ StoreStep(r, s) \/ StoreWaitStep(r, s) \/ EmitStep(r, s)

EngineStep ==
  \/ \E e \in loads : LoadDone(e)
  \/ \E c \in Ctas : MmaDone(c) \/ CommitDone(c)
  \/ \E r \in Roles : StoreDone(r)

Next ==
  \/ \E r \in Roles : \E s \in Ahead(r) : WarpStep(r, s)
  \/ EngineStep
  \/ Finished /\ UNCHANGED vars

\* Warps of a resident CTA and the hardware engines are never starved; every
\* program is finite, so weak fairness of the whole is enough.
Spec == Init /\ [][Next]_vars /\ WF_vars(Next)

-----------------------------------------------------------------------------
(* Every access in progress, by warps, copy engine and tensor cores. *)

TensorQueued == {e \in UNION {Range(tensor[c]) : c \in Ctas} : Issued(e).op = "mma"}
UsesNow ==
  UNION ({AtStep(r).uses : r \in {q \in Roles : At(q, "read")}}
    \cup {Issued(e).uses : e \in TensorQueued}
    \cup UNION {{K.prog[r][i].uses : i \in Range(stores[r])} : r \in Roles})
WritesNow ==
  UNION {AtStep(r).slots : r \in {q \in Roles : At(q, "write")}}
    \cup UNION {Issued(e).acc : e \in TensorQueued}

\* Whoever reads a slot, for as long as it reads, finds there exactly the block
\* it means to consume, and nobody is writing it: no stage is refilled under a
\* consumer, read before it is full, or taken for the one of another iteration
\* (the full, empty and accumulator barriers with their parities).
ReadsMatch ==
  \A u \in UsesNow : Content(u[1]) = u[2] /\ u[1] \notin WritesNow

\* Every result of the problem is written once and nothing else is, and a kernel
\* that is over has written them all (the schedules of all CTAs together).
ResultsOnce ==
  /\ Cardinality({o[1] : o \in out}) = Cardinality(out)
  /\ IF Finished THEN {o[1] : o \in out} = K.work ELSE \A o \in out : o[1] \in K.work

\* Nobody arrives at a barrier of a CTA that has exited or copies into its memory
\* (the drains "to safely deconstruct distributed shared barriers"); only the last
\* commit of a CTA to itself may outlast its warps.
Exited(c) == \A r \in Roles : CtaOf(r) = c => Done(r)
Targets(step) ==
  CASE step.op \in {"arrive", "commit"} -> {CtaOf(b) : b \in step.bars}
    [] step.op = "load" -> UNION {{CtaOf(t[1]), CtaOf(t[2])} : t \in step.to}
    [] step.op = "mma" -> {CtaOf(u[1]) : u \in step.uses} \cup {CtaOf(s) : s \in step.acc}
    [] OTHER -> {}
Started == loads \cup UNION {Range(tensor[c]) : c \in Ctas}
ExitedAreAlone ==
  \A c \in {d \in Ctas : Exited(d)} :
    /\ \A e \in Started : c \in Targets(Issued(e)) => Issued(e).op = "commit" /\ CtaOf(e[1]) = c
    /\ \A r \in Roles : \A s \in Ahead(r) : c \notin Targets(s)

\* Every kernel ends: no warp waits for a phase that never comes or has gone by.
Terminates == <>Finished
=============================================================================

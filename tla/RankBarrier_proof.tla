-------------------------- MODULE RankBarrier_proof --------------------------
(***************************************************************************)
(* RankBarrier keeps its signals within one tag of zero and implements     *)
(* PhaseBarrier, for every set of ranks and every number of phases.        *)
(*                                                                         *)
(* The argument.  Adds(r, i) counts the atomicAdds lane i of rank r has    *)
(* done over all phases, Subs(r, i) its atomicSubs.  signal[r][i] is the   *)
(* tag times Adds(r, i) - Subs(i, r): the two sides of a pair of ranks     *)
(* write the same signal from two GPUs, and it holds their difference.     *)
(* Rank r leaves only when no signal of it is positive, hence only after   *)
(* peer i has done as many subtractions for r as r has entered phases.     *)
(***************************************************************************)
EXTENDS RankBarrier, TLAPS

Adds(r, i) == left[r] + (IF i \in added[r] THEN 1 ELSE 0)

Subs(r, i) == left[r] + (IF i \in subbed[r] THEN 1 ELSE 0)

Shape ==
  /\ pc \in [Ranks -> {"outside", "inside", "gone", "aborted"}]
  /\ signal \in [Ranks -> [Ranks -> Int]]
  /\ added \in [Ranks -> SUBSET Ranks]
  /\ subbed \in [Ranks -> SUBSET Ranks]
  /\ entered \in [Ranks -> Nat]
  /\ left \in [Ranks -> Nat]

(* A rank inside a call has entered one phase more than it has left.        *)
CallInv ==
  \A r \in Ranks :
    /\ subbed[r] \subseteq added[r]
    /\ entered[r] = left[r] \/ entered[r] = left[r] + 1
    /\ pc[r] \in {"inside", "aborted"} => entered[r] = left[r] + 1
    /\ pc[r] = "aborted" => subbed[r] = Ranks
    /\ pc[r] \in {"outside", "gone"} => entered[r] = left[r]
    /\ entered[r] = left[r] => added[r] = {}

SignalInv ==
  \A r, i \in Ranks :
    signal[r][i] = kBarrierFinishedTag * (Adds(r, i) - Subs(i, r))

(* Peer i has answered every phase that r has left.                         *)
AnsweredInv == \A r, i \in Ranks : left[r] <= Subs(i, r)

IInv == Shape /\ CallInv /\ SignalInv /\ AnsweredInv

LEMMA InitIInv == Init => IInv
  BY DEF Init, IInv, Shape, CallInv, SignalInv, AnsweredInv, Adds, Subs, kBarrierFinishedTag

LEMMA EnterIInv ==
  ASSUME IInv, NEW r \in Ranks, Enter(r)
  PROVE  IInv'
  <1>1. Shape'
    BY DEF IInv, Shape, Enter
  <1>2. CallInv'
    BY DEF IInv, Shape, CallInv, Enter
  <1>3. SignalInv' /\ AnsweredInv'
    BY DEF IInv, Shape, SignalInv, AnsweredInv, Adds, Subs, Enter
  <1> QED BY <1>1, <1>2, <1>3 DEF IInv

LEMMA AddMineIInv ==
  ASSUME IInv, NEW r \in Ranks, NEW i \in Ranks, AddMine(r, i)
  PROVE  IInv'
  <1> USE DEF kBarrierFinishedTag
  <1>1. Shape'
    BY DEF IInv, Shape, AddMine
  <1>2. CallInv'
    BY DEF IInv, Shape, CallInv, AddMine
  <1>3. SignalInv'
    <2> SUFFICES ASSUME NEW a \in Ranks, NEW b \in Ranks
                 PROVE  signal'[a][b] = kBarrierFinishedTag * (Adds(a, b)' - Subs(b, a)')
      BY DEF SignalInv
    <2>1. signal[a][b] = kBarrierFinishedTag * (Adds(a, b) - Subs(b, a))
      BY DEF IInv, SignalInv
    <2>2. Subs(b, a)' = Subs(b, a)
      BY DEF Subs, AddMine
    <2>3. CASE a = r /\ b = i
      <3>1. signal'[a][b] = signal[a][b] + kBarrierFinishedTag
        BY <2>3 DEF IInv, Shape, AddMine
      <3>2. Adds(a, b)' = Adds(a, b) + 1
        BY <2>3 DEF IInv, Shape, AddMine, Adds
      <3>3. Adds(a, b) \in Int /\ Subs(b, a) \in Int
        BY DEF IInv, Shape, Adds, Subs
      <3> QED BY <2>1, <2>2, <3>1, <3>2, <3>3
    <2>4. CASE ~(a = r /\ b = i)
      <3>1. signal'[a][b] = signal[a][b]
        BY <2>4 DEF IInv, Shape, AddMine
      <3>2. Adds(a, b)' = Adds(a, b)
        BY <2>4 DEF IInv, Shape, AddMine, Adds
      <3> QED BY <2>1, <2>2, <3>1, <3>2
    <2> QED BY <2>3, <2>4
  <1>4. AnsweredInv'
    BY DEF IInv, Shape, AnsweredInv, Subs, AddMine
  <1> QED BY <1>1, <1>2, <1>3, <1>4 DEF IInv

LEMMA SubPeerIInv ==
  ASSUME IInv, NEW r \in Ranks, NEW i \in Ranks, SubPeer(r, i)
  PROVE  IInv'
  <1> USE DEF kBarrierFinishedTag
  <1>1. Shape'
    BY DEF IInv, Shape, SubPeer
  <1>2. CallInv'
    BY DEF IInv, Shape, CallInv, SubPeer
  <1>3. SignalInv'
    <2> SUFFICES ASSUME NEW a \in Ranks, NEW b \in Ranks
                 PROVE  signal'[a][b] = kBarrierFinishedTag * (Adds(a, b)' - Subs(b, a)')
      BY DEF SignalInv
    <2>1. signal[a][b] = kBarrierFinishedTag * (Adds(a, b) - Subs(b, a))
      BY DEF IInv, SignalInv
    <2>2. Adds(a, b)' = Adds(a, b)
      BY DEF Adds, SubPeer
    <2>3. CASE b = r /\ a = i
      <3>1. signal'[a][b] = signal[a][b] - kBarrierFinishedTag
        BY <2>3 DEF IInv, Shape, SubPeer
      <3>2. Subs(b, a)' = Subs(b, a) + 1
        BY <2>3 DEF IInv, Shape, SubPeer, Subs
      <3>3. Adds(a, b) \in Int /\ Subs(b, a) \in Int
        BY DEF IInv, Shape, Adds, Subs
      <3> QED BY <2>1, <2>2, <3>1, <3>2, <3>3
    <2>4. CASE ~(b = r /\ a = i)
      <3>1. signal'[a][b] = signal[a][b]
        BY <2>4 DEF IInv, Shape, SubPeer
      <3>2. Subs(b, a)' = Subs(b, a)
        BY <2>4 DEF IInv, Shape, SubPeer, Subs
      <3> QED BY <2>1, <2>2, <3>1, <3>2
    <2> QED BY <2>3, <2>4
  <1>4. AnsweredInv'
    BY DEF IInv, Shape, AnsweredInv, Subs, SubPeer
  <1> QED BY <1>1, <1>2, <1>3, <1>4 DEF IInv

(* Whoever may leave has been answered in this very phase.                  *)
LEMMA LeaverAnswered ==
  ASSUME IInv, NEW r \in Ranks, pc[r] = "inside", AllSignalled(r), WaveAllArrived(r),
         NEW q \in Ranks
  PROVE  left[r] + 1 <= Subs(q, r)
  <1>1. signal[r][q] <= 0 /\ signal[r][q] = kBarrierFinishedTag * (Adds(r, q) - Subs(q, r))
    BY DEF IInv, SignalInv, WaveAllArrived
  <1>2. Adds(r, q) = left[r] + 1
    BY DEF IInv, CallInv, AllSignalled, Adds
  <1>3. left[r] \in Nat /\ Subs(q, r) \in Nat
    BY DEF IInv, Shape, Subs
  <1> QED BY <1>1, <1>2, <1>3 DEF kBarrierFinishedTag

LEMMA LeaveIInv ==
  ASSUME IInv, NEW r \in Ranks, Leave(r)
  PROVE  IInv'
  <1> USE DEF kBarrierFinishedTag
  <1>1. Shape'
    BY DEF IInv, Shape, Leave
  <1>2. CallInv'
    BY DEF IInv, Shape, CallInv, Leave
  <1>3. \A a, b \in Ranks : Adds(a, b)' = Adds(a, b) /\ Subs(a, b)' = Subs(a, b)
    <2> SUFFICES ASSUME NEW a \in Ranks, NEW b \in Ranks
                 PROVE  Adds(a, b)' = Adds(a, b) /\ Subs(a, b)' = Subs(a, b)
      OBVIOUS
    <2>1. CASE a = r
      BY <2>1 DEF IInv, Shape, CallInv, Leave, AllSignalled, Adds, Subs
    <2>2. CASE a # r
      BY <2>2 DEF IInv, Shape, Leave, Adds, Subs
    <2> QED BY <2>1, <2>2
  <1>4. SignalInv'
    BY <1>3 DEF IInv, SignalInv, Leave
  <1>5. AnsweredInv'
    <2> SUFFICES ASSUME NEW a \in Ranks, NEW b \in Ranks
                 PROVE  left'[a] <= Subs(b, a)'
      BY DEF AnsweredInv
    <2>1. CASE a = r
      BY <1>3, <2>1, LeaverAnswered DEF IInv, Shape, Leave
    <2>2. CASE a # r
      BY <1>3, <2>2 DEF IInv, Shape, AnsweredInv, Leave
    <2> QED BY <2>1, <2>2
  <1> QED BY <1>1, <1>2, <1>4, <1>5 DEF IInv

LEMMA NextIInv == IInv /\ [Next]_vars => IInv'
  <1> SUFFICES ASSUME IInv, [Next]_vars
               PROVE  IInv'
    OBVIOUS
  <1>1. ASSUME NEW r \in Ranks, Step(r)
        PROVE  IInv'
    BY <1>1, EnterIInv, AddMineIInv, SubPeerIInv, LeaveIInv DEF Step
  <1>2. ASSUME NEW r \in Ranks, Timeout(r)
        PROVE  IInv'
    BY <1>2 DEF Timeout, AllSignalled, IInv, Shape, CallInv, SignalInv, AnsweredInv, Adds, Subs
  <1>3. ASSUME NEW r \in Ranks, Quit(r)
        PROVE  IInv'
    BY <1>3 DEF Quit, IInv, Shape, CallInv, SignalInv, AnsweredInv, Adds, Subs
  <1>4. CASE UNCHANGED vars
    BY <1>4 DEF vars, IInv, Shape, CallInv, SignalInv, AnsweredInv, Adds, Subs
  <1> QED BY <1>1, <1>2, <1>3, <1>4 DEF Next, Finished

(* The inductive invariant bounds the signals.                              *)
LEMMA IInvTypeOK == IInv => TypeOK
  <1> SUFFICES ASSUME IInv
               PROVE  TypeOK
    OBVIOUS
  <1>1. ASSUME NEW r \in Ranks, NEW i \in Ranks
        PROVE  signal[r][i] \in {-kBarrierFinishedTag, 0, kBarrierFinishedTag}
    <2>1. Adds(r, i) - Subs(i, r) \in {-1, 0, 1}
      <3>1. Adds(r, i) \in Nat /\ Subs(i, r) \in Nat /\ Subs(r, i) \in Nat
            /\ left[r] \in Nat /\ left[i] \in Nat
        BY DEF IInv, Shape, Adds, Subs
      <3>2. Adds(r, i) <= left[r] + 1 /\ left[r] <= Subs(i, r)
        BY <3>1 DEF IInv, AnsweredInv, Adds
      <3>3. Subs(i, r) <= left[i] + 1 /\ left[i] <= Subs(r, i) /\ Subs(r, i) <= Adds(r, i)
        BY <3>1 DEF IInv, CallInv, AnsweredInv, Adds, Subs
      <3> QED BY <3>1, <3>2, <3>3
    <2> QED BY <2>1 DEF IInv, SignalInv, kBarrierFinishedTag
  <1> QED BY <1>1 DEF TypeOK, IInv, Shape

-----------------------------------------------------------------------------

(* The signals never drift: in every reachable state each is -tag, 0 or tag. *)
THEOREM Typing == Spec => []TypeOK
  <1> QED BY InitIInv, NextIInv, IInvTypeOK, PTL DEF Spec

LEMMA StepRefines ==
  ASSUME IInv, Next
  PROVE  Phase!Next \/ UNCHANGED Phase!vars
  <1>1. ASSUME NEW r \in Ranks, Enter(r)
        PROVE  Phase!Enter(r)
    BY <1>1 DEF IInv, CallInv, Enter, Phase!Enter
  <1>2. ASSUME NEW r \in Ranks, Leave(r)
        PROVE  Phase!Leave(r)
    <2>1. \A q \in Ranks : entered[r] <= entered[q]
      <3> SUFFICES ASSUME NEW q \in Ranks
                   PROVE  entered[r] <= entered[q]
        OBVIOUS
      <3>1. left[r] + 1 <= Subs(q, r)
        BY <1>2, LeaverAnswered DEF Leave
      <3>2. Subs(q, r) <= entered[q]
        BY DEF IInv, Shape, CallInv, Subs
      <3>3. entered[r] = left[r] + 1
        BY <1>2 DEF IInv, CallInv, Leave
      <3> QED BY <3>1, <3>2, <3>3 DEF IInv, Shape, Subs
    <2>2. left[r] < entered[r]
      BY <1>2 DEF IInv, Shape, CallInv, Leave
    <2> QED BY <1>2, <2>1, <2>2 DEF Leave, Phase!Leave
  <1>3. ASSUME NEW r \in Ranks, NEW i \in Ranks, AddMine(r, i) \/ SubPeer(r, i)
        PROVE  UNCHANGED Phase!vars
    BY <1>3 DEF AddMine, SubPeer, Phase!vars
  <1>4. ASSUME NEW r \in Ranks, Timeout(r) \/ Quit(r)
        PROVE  UNCHANGED Phase!vars
    BY <1>4 DEF Timeout, Quit, Phase!vars
  <1>5. CASE Finished
    BY <1>5 DEF Finished, vars, Phase!vars
  <1> QED BY <1>1, <1>2, <1>3, <1>4, <1>5 DEF Next, Step, Phase!Next

(* mega_moe_rank_barrier is a barrier: it implements PhaseBarrier.           *)
THEOREM Refinement == Spec => ImplementsPhase
  <1>1. Init => Phase!Init
    BY DEF Init, Phase!Init
  <1>2. IInv /\ [Next]_vars => [Phase!Next]_(Phase!vars)
    BY StepRefines DEF vars, Phase!vars
  <1> QED BY <1>1, <1>2, InitIInv, NextIInv, PTL DEF Spec, ImplementsPhase, Phase!Spec

(* In terms of the calls: no rank returns from its k-th call before every    *)
(* rank has made its k-th call.                                              *)
THEOREM NoEarlyLeave == Spec => []Phase!NoEarlyLeave
  <1>1. IInv => Phase!NoEarlyLeave
    <2> SUFFICES ASSUME IInv, NEW p \in Ranks, NEW q \in Ranks
                 PROVE  left[p] <= entered[q]
      BY DEF Phase!NoEarlyLeave
    <2>1. left[p] <= Subs(q, p)
      BY DEF IInv, AnsweredInv
    <2>2. Subs(q, p) <= entered[q] /\ Subs(q, p) \in Nat
      BY DEF IInv, Shape, CallInv, Subs
    <2> QED BY <2>1, <2>2 DEF IInv, Shape
  <1> QED BY <1>1, InitIInv, NextIInv, PTL DEF Spec

LEMMA TimeoutBlames ==
  ASSUME IInv, NEW r \in Ranks, Timeout(r)
  PROVE  \E q \in Ranks : Behind(q, r)
  <1>1. PICK q \in Ranks : signal[r][q] > 0
    BY DEF Timeout, WaveAllArrived, IInv, Shape
  <1>2. Adds(r, q) = left[r] + 1 /\ entered[r] = left[r] + 1
    BY DEF IInv, CallInv, Timeout, AllSignalled, Adds
  <1>3. left[r] \in Nat /\ left[q] \in Nat /\ entered[q] \in Nat /\ Subs(q, r) \in Nat
    BY DEF IInv, Shape, Subs
  <1>4. Subs(q, r) = left[r]
    <2>1. signal[r][q] = kBarrierFinishedTag * (Adds(r, q) - Subs(q, r))
      BY DEF IInv, SignalInv
    <2>2. left[r] <= Subs(q, r)
      BY DEF IInv, AnsweredInv
    <2> QED BY <1>1, <1>2, <1>3, <2>1, <2>2 DEF kBarrierFinishedTag
  <1>5. CASE r \in subbed[q]
    <2>1. entered[q] <= left[q] + 1
      BY <1>3 DEF IInv, CallInv
    <2>2. left[q] + 1 = left[r]
      BY <1>4, <1>5 DEF Subs
    <2> QED BY <1>2, <1>3, <2>1, <2>2 DEF Behind
  <1>6. CASE r \notin subbed[q]
    <2>1. left[q] = left[r]
      BY <1>3, <1>4, <1>6 DEF Subs
    <2>2. CASE entered[q] = left[q]
      BY <1>2, <1>3, <2>1, <2>2 DEF Behind
    <2>3. CASE entered[q] = left[q] + 1
      <3>1. pc[q] = "inside"
        BY <1>3, <1>6, <2>3 DEF IInv, Shape, CallInv
      <3> QED BY <1>2, <1>6, <2>1, <2>3, <3>1 DEF Behind
    <2> QED BY <2>2, <2>3 DEF IInv, CallInv
  <1> QED BY <1>5, <1>6

(* A rank only ever aborts in a phase that some rank has not answered.       *)
THEOREM Aborts == Spec => AbortsBlamePeer
  <1> DEFINE Blame == \A r \in Ranks : pc[r] # "aborted" /\ pc'[r] = "aborted"
                        => \E q \in Ranks : Behind(q, r)
  <1>1. IInv /\ [Next]_vars => Blame
    <2> SUFFICES ASSUME IInv, [Next]_vars, NEW r \in Ranks,
                        pc[r] # "aborted", pc'[r] = "aborted"
                 PROVE  \E q \in Ranks : Behind(q, r)
      OBVIOUS
    <2>1. Timeout(r)
      BY DEF IInv, Shape, Next, Step, Enter, AddMine, SubPeer, Leave, Timeout, Quit,
             Finished, vars
    <2> QED BY <2>1, TimeoutBlames
  <1> QED BY <1>1, InitIInv, NextIInv, PTL DEF Spec, AbortsBlamePeer
=============================================================================

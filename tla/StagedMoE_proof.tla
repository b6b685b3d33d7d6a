---------------------------- MODULE StagedMoE_proof ----------------------------
(****************************************************************************)
(* StagedMoE keeps the properties that its runs check, for any number of    *)
(* ranks, sequence of calls and inputs, while the ticket counter of the     *)
(* barrier has not overflowed.                                              *)
(*                                                                          *)
(* The barrier of the staged path is one among all that StagedMoE adds to   *)
(* it (CallsRefine).  From the two barriers and the tail signals follows    *)
(* how far apart two ranks can be (StepInv): between the first barrier of a *)
(* call and its last everybody is in that call (Together).  The other       *)
(* invariants follow the counts, the routes and the rows of a call to the   *)
(* reduction.                                                               *)
(****************************************************************************)
EXTENDS StagedMoE, FiniteSetTheorems, TLAPS

-----------------------------------------------------------------------------
(***************************************************************************)
(* The barrier.  StagedBarrier implements PhaseBarrier for every number of *)
(* ranks and every width of the counters, as long as the ticket counter    *)
(* has not overflowed: it is an int that nobody resets.                    *)
(*                                                                         *)
(* The argument.  The tickets of group g are g * NumRanks and the next     *)
(* NumRanks - 1.  Groups counts the groups that are drawn completely.      *)
(* Every rank has entered Groups or one more calls, and those with one     *)
(* more are as many as tickets of the open group are drawn: nobody draws   *)
(* twice in a group, because who has returned from a call saw the release  *)
(* of its group, and no release is ahead of Groups.                        *)
(***************************************************************************)
NotWrapped == arrival >= 0

Groups == arrival \div NumRanks

InOpenGroup == {r \in Ranks : entered[r] = Groups + 1}

Shape ==
  /\ at \in [Ranks -> {"outside", "inside"}]
  /\ ticket \in [Ranks -> Nat]
  /\ arrival \in 0 .. IntHalf - 1
  /\ release \in Nat
  /\ entered \in [Ranks -> Nat]
  /\ left \in [Ranks -> Nat]

CallInv ==
  \A r \in Ranks : entered[r] = left[r] + (IF at[r] = "inside" THEN 1 ELSE 0)

(* The ticket of a call that has not returned is one of the call's group.   *)
TicketInv ==
  \A r \in Ranks : at[r] = "inside" =>
    /\ ticket[r] < arrival
    /\ ticket[r] \div NumRanks = left[r]

GroupInv ==
  /\ \A r \in Ranks : entered[r] \in {Groups, Groups + 1}
  /\ Cardinality(InOpenGroup) = arrival % NumRanks

ReleaseInv ==
  /\ release <= Groups
  /\ \A r \in Ranks : left[r] <= release

IInv == Shape /\ CallInv /\ TicketInv /\ GroupInv /\ ReleaseInv

-----------------------------------------------------------------------------
(* Division by a positive number.                                           *)

LEMMA QuotientUnique ==
  ASSUME NEW n \in Nat \ {0}, NEW q \in Int, NEW p \in Int,
         NEW s \in 0 .. n - 1, NEW t \in 0 .. n - 1, q * n + s = p * n + t
  PROVE  q = p /\ s = t
  <1>1. ASSUME q < p PROVE FALSE
    <2>1. p - q >= 1
      BY <1>1
    <2>2. (p - q) * n >= n
      BY <2>1
    <2>3. (p - q) * n = p * n - q * n
      OBVIOUS
    <2> QED BY <2>2, <2>3
  <1>2. ASSUME p < q PROVE FALSE
    <2>1. q - p >= 1
      BY <1>2
    <2>2. (q - p) * n >= n
      BY <2>1
    <2>3. (q - p) * n = q * n - p * n
      OBVIOUS
    <2> QED BY <2>2, <2>3
  <1> QED BY <1>1, <1>2

LEMMA DivMod ==
  ASSUME NEW n \in Nat \ {0}, NEW a \in Nat
  PROVE  a \div n \in Nat /\ a % n \in 0 .. n - 1 /\ a = (a \div n) * n + (a % n)
  OBVIOUS

LEMMA DivIs ==
  ASSUME NEW n \in Nat \ {0}, NEW q \in Nat, NEW s \in 0 .. n - 1
  PROVE  (q * n + s) \div n = q /\ (q * n + s) % n = s
  <1>1. q * n + s \in Nat
    OBVIOUS
  <1> QED BY <1>1, DivMod, QuotientUnique

LEMMA DivIsOf ==
  ASSUME NEW n \in Nat \ {0}, NEW b \in Nat, NEW q \in Nat, NEW s \in 0 .. n - 1,
         b = q * n + s
  PROVE  b \div n = q /\ b % n = s
  BY DivIs

(* Another increment either stays in its group or opens the next one.       *)
LEMMA NextTicket ==
  ASSUME NEW n \in Nat \ {0}, NEW a \in Nat
  PROVE  IF a % n = n - 1
         THEN (a + 1) \div n = (a \div n) + 1 /\ (a + 1) % n = 0
         ELSE (a + 1) \div n = a \div n /\ (a + 1) % n = (a % n) + 1
  <1>1. a \div n \in Nat /\ a % n \in 0 .. n - 1 /\ a = (a \div n) * n + (a % n)
    BY DivMod
  <1>2. CASE a % n = n - 1
    <2>1. ((a \div n) + 1) * n = (a \div n) * n + n
      BY <1>1
    <2> DEFINE b == a + 1
               q == (a \div n) + 1
    <2>2. b = q * n + 0
      BY <1>1, <1>2, <2>1
    <2>3. b \in Nat /\ q \in Nat /\ 0 \in 0 .. n - 1
      BY <1>1
    <2>4. b \div n = q /\ b % n = 0
      <3> HIDE DEF b, q
      <3> QED BY <2>2, <2>3, DivIsOf
    <2> QED BY <1>2, <2>4
  <1>3. CASE a % n # n - 1
    <2>1. a + 1 = (a \div n) * n + ((a % n) + 1) /\ (a % n) + 1 \in 0 .. n - 1
      BY <1>1, <1>3
    <2> DEFINE b == a + 1
               q == a \div n
               s == (a % n) + 1
    <2>2. b \div n = q /\ b % n = s
      <3>1. b \in Nat /\ q \in Nat /\ s \in 0 .. n - 1 /\ b = q * n + s
        BY <1>1, <2>1
      <3> HIDE DEF b, q, s
      <3> QED BY <3>1, DivIsOf
    <2> QED BY <1>3, <2>2
  <1> QED BY <1>2, <1>3

(* A last ticket of a group that is drawn belongs to a complete group.      *)
LEMMA LastTicket ==
  ASSUME NEW n \in Nat \ {0}, NEW a \in Nat, NEW t \in Nat, t < a, t % n = n - 1
  PROVE  (t \div n) + 1 <= a \div n
  <1>1. /\ a \div n \in Nat /\ a % n \in 0 .. n - 1 /\ a = (a \div n) * n + (a % n)
        /\ t \div n \in Nat /\ t = (t \div n) * n + (t % n)
    BY DivMod
  <1>2. ASSUME a \div n < (t \div n) + 1 PROVE FALSE
    <2>1. (t \div n) - (a \div n) \in Nat
      BY <1>1, <1>2
    <2>2. ((t \div n) - (a \div n)) * n >= 0
      BY <2>1
    <2>3. ((t \div n) - (a \div n)) * n = (t \div n) * n - (a \div n) * n
      BY <1>1
    <2> QED BY <1>1, <2>2, <2>3
  <1> QED BY <1>1, <1>2

-----------------------------------------------------------------------------

LEMMA RanksFinite ==
  /\ IsFiniteSet(Ranks) /\ Cardinality(Ranks) = NumRanks
  /\ NumRanks \in Nat \ {0}
  BY NumRanksAssumption, FS_Interval DEF Ranks

LEMMA GroupsType ==
  ASSUME Shape
  PROVE  Groups \in Nat /\ arrival \in Nat /\ arrival % NumRanks \in 0 .. NumRanks - 1
  <1>1. arrival \in Nat
    BY IntHalfAssumption DEF Shape
  <1> QED BY <1>1, NumRanksAssumption, DivMod DEF Groups

(* On a ticket that did not wrap, C's division is division.                 *)
LEMMA TicketDivision ==
  ASSUME Shape, NEW r \in Ranks
  PROVE  /\ ticket[r] \in Nat
         /\ Generation(r) = (ticket[r] \div NumRanks) + 1
         /\ IsLast(r) <=> ticket[r] % NumRanks = NumRanks - 1
  <1>1. ticket[r] \in Nat
    BY DEF Shape
  <1>2. Quotient(ticket[r]) = ticket[r] \div NumRanks
    BY <1>1 DEF Quotient
  <1>3. ticket[r] = (ticket[r] \div NumRanks) * NumRanks + (ticket[r] % NumRanks)
    BY <1>1, NumRanksAssumption, DivMod
  <1>4. ticket[r] \div NumRanks \in Nat /\ ticket[r] % NumRanks \in Nat
    BY <1>1, NumRanksAssumption, DivMod
  <1>5. Remainder(ticket[r]) = ticket[r] % NumRanks
    BY <1>1, <1>2, <1>3, <1>4, NumRanksAssumption DEF Remainder
  <1> QED BY <1>1, <1>2, <1>5 DEF Generation, IsLast

LEMMA InitIInv == BarrierInit => IInv
  <1> SUFFICES ASSUME BarrierInit
               PROVE  IInv
    OBVIOUS
  <1>1. 0 = 0 * NumRanks + 0 /\ 0 \in 0 .. NumRanks - 1
    BY NumRanksAssumption
  <1>2. Groups = 0 /\ arrival % NumRanks = 0
    BY <1>1, NumRanksAssumption, DivIs DEF BarrierInit, Groups
  <1>3. InOpenGroup = {}
    BY <1>2 DEF InOpenGroup, BarrierInit
  <1>4. GroupInv
    BY <1>2, <1>3, FS_EmptySet DEF GroupInv, BarrierInit
  <1>5. Shape /\ CallInv /\ TicketInv /\ ReleaseInv
    BY <1>2, IntHalfAssumption DEF BarrierInit, Shape, CallInv, TicketInv, ReleaseInv
  <1> QED BY <1>4, <1>5 DEF IInv

LEMMA DrawIInv ==
  ASSUME IInv, NEW r \in Ranks, Draw(r), NotWrapped'
  PROVE  IInv'
  <1>1. arrival' = arrival + 1 /\ arrival' \in 0 .. IntHalf - 1
    <2> DEFINE x == arrival + 1
    <2>1. x \in Nat /\ 1 <= x /\ x <= IntHalf /\ IntHalf \in Nat \ {0}
      BY IntHalfAssumption DEF IInv, Shape
    <2>2. IntRange = 2 * IntHalf /\ IntRange \in Nat \ {0}
      BY IntHalfAssumption DEF IntRange
    <2> HIDE DEF x
    <2>3. x % IntRange = x
      BY <2>1, <2>2
    <2>4. arrival' = IF x < IntHalf THEN x ELSE x - IntRange
      <3>1. arrival' = AsInt(x)
        BY DEF Draw, x
      <3> QED BY <2>3, <3>1 DEF AsInt
    <2>5. arrival' >= 0
      BY DEF NotWrapped
    <2>6. arrival' = x /\ arrival' \in 0 .. IntHalf - 1
      BY <2>1, <2>2, <2>4, <2>5
    <2> QED BY <2>6 DEF x
  <1>2. /\ at[r] = "outside" /\ at' = [at EXCEPT ![r] = "inside"]
        /\ ticket' = [ticket EXCEPT ![r] = arrival]
        /\ entered' = [entered EXCEPT ![r] = @ + 1]
        /\ release' = release /\ left' = left
    BY DEF Draw
  <1>3. Groups \in Nat /\ arrival \in Nat /\ arrival % NumRanks \in 0 .. NumRanks - 1
    BY GroupsType DEF IInv
  <1>4. entered[r] = left[r] /\ left[r] <= Groups /\ entered[r] = Groups
    BY <1>2, <1>3 DEF IInv, Shape, CallInv, ReleaseInv, GroupInv
  <1>5. Shape'
    BY <1>1, <1>2, <1>3 DEF IInv, Shape
  <1>6. CallInv'
    BY <1>2 DEF IInv, Shape, CallInv
  <1>7. TicketInv'
    <2>1. ticket'[r] = arrival /\ arrival \div NumRanks = left'[r]
      BY <1>2, <1>4 DEF IInv, Shape, Groups
    <2>2. \A q \in Ranks \ {r} : at'[q] = at[q] /\ ticket'[q] = ticket[q] /\ left'[q] = left[q]
      BY <1>2 DEF IInv, Shape
    <2>3. \A q \in Ranks : ticket[q] \in Nat
      BY DEF IInv, Shape
    <2> QED BY <1>1, <1>3, <2>1, <2>2, <2>3 DEF IInv, TicketInv
  <1>8. InOpenGroup \subseteq Ranks /\ r \notin InOpenGroup
    BY <1>3, <1>4 DEF InOpenGroup
  <1>9. \A q \in Ranks : entered'[q] = IF q = r THEN Groups + 1 ELSE entered[q]
    BY <1>2, <1>4 DEF IInv, Shape
  <1>10. IsFiniteSet(InOpenGroup) /\ Cardinality(InOpenGroup \union {r}) = (arrival % NumRanks) + 1
    BY <1>8, RanksFinite, FS_Subset, FS_AddElement DEF IInv, GroupInv
  <1>11. CASE arrival % NumRanks = NumRanks - 1
    <2>1. Groups' = Groups + 1 /\ arrival' % NumRanks = 0
      BY <1>1, <1>3, <1>11, NumRanksAssumption, NextTicket DEF Groups
    <2>2. InOpenGroup \union {r} = Ranks
      <3>1. Cardinality(InOpenGroup \union {r}) = Cardinality(Ranks)
        BY <1>10, <1>11, RanksFinite
      <3>2. InOpenGroup \union {r} \in SUBSET Ranks
        BY <1>8
      <3> QED BY <3>1, <3>2, RanksFinite, FS_Subset
    <2>3. \A q \in Ranks : entered'[q] = Groups + 1
      BY <1>9, <2>2 DEF InOpenGroup
    <2>4. InOpenGroup' = {}
      BY <1>3, <2>1, <2>3 DEF InOpenGroup
    <2>5. GroupInv'
      BY <2>1, <2>3, <2>4, FS_EmptySet DEF GroupInv
    <2>6. ReleaseInv'
      BY <1>2, <1>3, <2>1 DEF IInv, Shape, ReleaseInv
    <2> QED BY <1>5, <1>6, <1>7, <2>5, <2>6 DEF IInv
  <1>12. CASE arrival % NumRanks # NumRanks - 1
    <2>1. Groups' = Groups /\ arrival' % NumRanks = (arrival % NumRanks) + 1
      BY <1>1, <1>3, <1>12, NumRanksAssumption, NextTicket DEF Groups
    <2>2. InOpenGroup' = InOpenGroup \union {r}
      BY <1>9, <2>1 DEF InOpenGroup
    <2>3. GroupInv'
      BY <1>9, <1>10, <2>1, <2>2 DEF IInv, GroupInv
    <2>4. ReleaseInv'
      BY <1>2, <2>1 DEF IInv, ReleaseInv
    <2> QED BY <1>5, <1>6, <1>7, <2>3, <2>4 DEF IInv
  <1> QED BY <1>11, <1>12

(* Who may leave sees a complete group behind it, that of its own call.     *)
LEMMA MayLeave ==
  ASSUME IInv, NEW r \in Ranks, Release(r) \/ Pass(r)
  PROVE  /\ entered[r] = left[r] + 1 /\ left[r] + 1 = Generation(r)
         /\ left[r] + 1 <= Groups /\ release' <= Groups
         /\ left[r] + 1 <= release' /\ release <= release'
  <1>1. at[r] = "inside"
    BY DEF Release, Pass
  <1>2. /\ entered[r] = left[r] + 1 /\ left[r] \in Nat /\ release \in Nat
        /\ ticket[r] < arrival /\ ticket[r] \div NumRanks = left[r]
        /\ Groups \in Nat /\ arrival \in Nat
    BY <1>1, GroupsType DEF IInv, Shape, CallInv, TicketInv
  <1>3. /\ ticket[r] \in Nat /\ Generation(r) = left[r] + 1
        /\ IsLast(r) <=> ticket[r] % NumRanks = NumRanks - 1
    BY <1>2, TicketDivision DEF IInv
  <1>4. entered[r] \in {Groups, Groups + 1} /\ release <= Groups
    BY DEF IInv, GroupInv, ReleaseInv
  <1>5. CASE Release(r)
    <2>1. IsLast(r) /\ release' = left[r] + 1
      BY <1>3, <1>5 DEF Release
    <2>2. left[r] + 1 <= Groups
      BY <1>2, <1>3, <2>1, NumRanksAssumption, LastTicket DEF Groups
    <2> QED BY <1>2, <1>3, <1>4, <2>1, <2>2
  <1>6. CASE Pass(r)
    <2>1. release >= left[r] + 1 /\ release' = release
      BY <1>3, <1>6 DEF Pass
    <2> QED BY <1>2, <1>3, <1>4, <2>1
  <1> QED BY <1>5, <1>6

LEMMA LeaveIInv ==
  ASSUME IInv, NEW r \in Ranks, Release(r) \/ Pass(r)
  PROVE  IInv'
  <1>1. /\ at[r] = "inside" /\ at' = [at EXCEPT ![r] = "outside"]
        /\ left' = [left EXCEPT ![r] = @ + 1]
        /\ ticket' = ticket /\ arrival' = arrival /\ entered' = entered
    BY DEF Release, Pass
  <1>2. /\ Groups \in Nat /\ entered[r] = left[r] + 1 /\ release' <= Groups
        /\ left[r] + 1 <= release' /\ release <= release'
        /\ release' = release \/ release' = left[r] + 1
    BY MayLeave, GroupsType DEF IInv, Release, Pass
  <1>3. Shape'
    BY <1>1, <1>2 DEF IInv, Shape
  <1>4. CallInv'
    BY <1>1, <1>2 DEF IInv, Shape, CallInv
  <1>5. TicketInv'
    BY <1>1 DEF IInv, Shape, TicketInv
  <1>6. GroupInv'
    BY <1>1 DEF IInv, GroupInv, Groups, InOpenGroup
  <1>7. ReleaseInv'
    <2>1. release' \in Nat /\ release \in Nat
      BY <1>3 DEF IInv, Shape
    <2>2. \A q \in Ranks : left[q] \in Nat /\ left'[q] = IF q = r THEN left[q] + 1 ELSE left[q]
      BY <1>1 DEF IInv, Shape
    <2>3. Groups' = Groups
      BY <1>1 DEF Groups
    <2> QED BY <1>2, <2>1, <2>2, <2>3 DEF IInv, ReleaseInv
  <1> QED BY <1>3, <1>4, <1>5, <1>6, <1>7 DEF IInv

LEMMA NextIInv == IInv /\ [BarrierNext]_barrier /\ NotWrapped' => IInv'
  <1> SUFFICES ASSUME IInv, [BarrierNext]_barrier, NotWrapped'
               PROVE  IInv'
    OBVIOUS
  <1>1. ASSUME NEW r \in Ranks, CallBarrier(r)
        PROVE  IInv'
    BY <1>1, DrawIInv, LeaveIInv DEF CallBarrier
  <1>2. CASE UNCHANGED barrier
    BY <1>2 DEF barrier, IInv, Shape, CallInv, TicketInv, GroupInv, ReleaseInv, Groups, InOpenGroup
  <1> QED BY <1>1, <1>2 DEF BarrierNext

-----------------------------------------------------------------------------

LEMMA StepRefines == IInv /\ [BarrierNext]_barrier => [Phase!Next]_(Phase!vars)
  <1> SUFFICES ASSUME IInv, [BarrierNext]_barrier
               PROVE  Phase!Next \/ UNCHANGED Phase!vars
    OBVIOUS
  <1>1. ASSUME NEW r \in Ranks, Draw(r)
        PROVE  Phase!Enter(r)
    BY <1>1 DEF IInv, CallInv, Shape, Draw, Phase!Enter
  <1>2. ASSUME NEW r \in Ranks, Release(r) \/ Pass(r)
        PROVE  Phase!Leave(r)
    <2>1. entered[r] = left[r] + 1 /\ left[r] + 1 <= Groups /\ Groups \in Nat
      BY <1>2, MayLeave, GroupsType DEF IInv
    <2>2. \A q \in Ranks : entered[r] <= entered[q]
      BY <2>1 DEF IInv, Shape, GroupInv
    <2>3. left[r] < entered[r]
      BY <2>1 DEF IInv, Shape
    <2> QED BY <1>2, <2>2, <2>3 DEF Phase!Leave, Release, Pass
  <1>3. CASE UNCHANGED barrier
    BY <1>3 DEF barrier, Phase!vars
  <1> QED BY <1>1, <1>2, <1>3 DEF BarrierNext, CallBarrier, Phase!Next

(* rank_barrier_kernel is a barrier as long as its ticket counter has not   *)
(* overflowed: it implements PhaseBarrier.                                  *)
THEOREM Refinement == BarrierSpec /\ []NotWrapped => ImplementsPhase
  <1>1. BarrierInit => Phase!Init
    BY DEF BarrierInit, Phase!Init
  <1> QED BY <1>1, InitIInv, NextIInv, StepRefines, PTL
          DEF BarrierSpec, ImplementsPhase, Phase!Spec

-----------------------------------------------------------------------------
(* The calls.                                                               *)

(* No step of a call touches the barrier but its draws and its leaves.      *)
LEMMA StepBarrier == Next => [BarrierNext]_barrier
  <1> SUFFICES ASSUME Next
               PROVE  BarrierNext \/ UNCHANGED barrier
    OBVIOUS
  <1>1. ASSUME NEW r \in Ranks, Step(r)
        PROVE  BarrierNext \/ UNCHANGED barrier
    <2>1. CASE DrawTicket(r)
      BY <2>1 DEF DrawTicket, BarrierNext, CallBarrier
    <2>2. CASE LeaveBarrier(r)
      BY <2>2 DEF LeaveBarrier, BarrierNext, CallBarrier
    <2>3. CASE BeginCall(r) \/ Reset(r) \/ Agree(r)
      BY <2>3 DEF BeginCall, Reset, Agree
    <2>4. CASE CountRoutes(r) \/ EmitRoutes(r) \/ PullL1(r) \/ QuantK2(r)
      BY <2>4 DEF CountRoutes, EmitRoutes, PullL1, QuantK2
    <2>5. CASE EndStores(r) \/ ReduceLocal(r)
      BY <2>5 DEF EndStores, ReduceLocal
    <2>6. CASE FusedEnter(r) \/ FusedLeave(r) \/ FusedWork(r) \/ FusedReduce(r)
      BY <2>6 DEF FusedEnter, FusedLeave, FusedWork, FusedReduce
    <2> QED BY <1>1, <2>1, <2>2, <2>3, <2>4, <2>5, <2>6 DEF Step
  <1>2. ASSUME NEW r \in Ranks, K3Step(r)
        PROVE  UNCHANGED barrier
    <2>1. CASE \E i \in K3Tiles(r) : StoreTile(r, i) \/ CountTile(r, i)
      BY <2>1 DEF StoreTile, CountTile
    <2>2. CASE \E q \in Ranks : SignalPeer(r, q)
      BY <2>2 DEF SignalPeer
    <2>3. CASE TailReduce(r) \/ EndTail(r)
      BY <2>3 DEF TailReduce, EndTail
    <2> QED BY <1>2, <2>1, <2>2, <2>3 DEF K3Step
  <1>3. CASE Finished
    BY <1>3 DEF Finished, vars
  <1> QED BY <1>1, <1>2, <1>3 DEF Next

(* Through whatever sequence of staged and fused calls, with equal or       *)
(* different token counts, rank_barrier_kernel is a barrier as long as its  *)
(* ticket counter has not overflowed: nobody returns from its k-th call     *)
(* before every rank has entered its own k-th.                              *)
THEOREM CallsRefine == Spec /\ []NotWrapped => ImplementsPhase
  <1>1. Init => BarrierInit
    BY DEF Init
  <1>2. [Next]_vars => [BarrierNext]_barrier
    BY StepBarrier DEF vars
  <1>3. Spec => BarrierSpec
    BY <1>1, <1>2, PTL DEF Spec, BarrierSpec
  <1> QED BY <1>3, Refinement

-----------------------------------------------------------------------------
FusedPlaces ==
  {"fused1", "fused1In", "fusedWork", "fused2", "fused2In", "fusedReduce", "fused3", "fused3In"}

FusedIn == {"fused1In", "fused2In", "fused3In"}

(* A call's places behind its first barrier; from the late ones, or from    *)
(* "signal", a rank may end the call, so others may be in the next.         *)
Work == {"agree", "count", "emit", "l1", "quant", "k3", "draw2"}
FusedAtWork == {"fusedWork", "fused2", "fused2In", "fusedReduce", "fused3"}
LatePlaces == {"host", "await2", "agree2", "reduce", "fused3In"}

(* Rank q is where rank r may have left the call of q.                      *)
Late(q, r) == pc[q] \in LatePlaces \/ (pc[q] = "signal" /\ r \in signalled[q])

(* The calls that r has completed.                                          *)
Done(r) == IF pc[r] = "host" THEN call[r] ELSE call[r] - 1

(* The barriers that r's call has still to enter, and those of call c.      *)
ToCome(r) ==
  IF pc[r] \in {"reset", "draw"} THEN (IF tail THEN 1 ELSE 2)
  ELSE IF pc[r] \in {"await", "agree", "count", "emit", "l1", "quant", "k3"} THEN (IF tail THEN 0 ELSE 1)
  ELSE IF pc[r] = "draw2" THEN 1
  ELSE 0

Brings(c) == IF plan[c] = "fused" THEN 0 ELSE IF tail THEN 1 ELSE 2

FusedToCome(r) ==
  IF pc[r] = "fused1" THEN 3
  ELSE IF pc[r] \in {"fused1In", "fusedWork", "fused2"} THEN 2
  ELSE IF pc[r] \in {"fused2In", "fusedReduce", "fused3"} THEN 1
  ELSE 0

FusedBrings(c) == IF plan[c] = "fused" THEN 3 ELSE 0

PlaceInv ==
  /\ plan \in Plans /\ batch \in [1 .. Len(plan) -> Inputs] /\ tail \in BOOLEAN
  /\ call \in [Ranks -> 0 .. Len(plan)] /\ pc \in [Ranks -> Locations]
  /\ \A r \in Ranks : pc[r] # "host" =>
       /\ call[r] >= 1
       /\ pc[r] \in FusedPlaces <=> Path(r) = "fused"
       /\ pc[r] = "signal" => tail
       /\ pc[r] \in {"draw2", "await2", "agree2", "reduce"} => ~ tail
  /\ \A r \in Ranks : at[r] = "inside" <=> pc[r] \in {"await", "await2"}

FusedInv ==
  /\ f_entered \in [Ranks -> Nat] /\ f_left \in [Ranks -> Nat]
  /\ \A r \in Ranks : f_entered[r] = f_left[r] + (IF pc[r] \in FusedIn THEN 1 ELSE 0)
  /\ \A r, q \in Ranks : f_left[r] <= f_entered[q]

PaceInv ==
  \A r, q \in Ranks :
    /\ call[q] = call[r] =>
         /\ entered[q] + ToCome(q) = entered[r] + ToCome(r)
         /\ f_entered[q] + FusedToCome(q) = f_entered[r] + FusedToCome(r)
    /\ call[q] = call[r] + 1 =>
         /\ entered[q] + ToCome(q) = entered[r] + ToCome(r) + Brings(call[q])
         /\ f_entered[q] + FusedToCome(q) = f_entered[r] + FusedToCome(r) + FusedBrings(call[q])

LateInv ==
  \A r, q \in Ranks : call[q] > Done(r) \/ (call[q] = Done(r) /\ Late(q, r))

StepInv == PlaceInv /\ FusedInv /\ PaceInv /\ LateInv

(* The tail signals.                                                        *)

Signalled(q, r) ==
  \/ call[q] > call[r]
  \/ call[q] = call[r] /\ (pc[q] = "host" \/ (pc[q] = "signal" /\ r \in signalled[q]))

Resetted == {"draw", "await", "agree", "count", "emit", "l1", "quant", "k3", "signal"}

SlotInv ==
  /\ slots \in [Ranks -> [Ranks -> {0, 1}]]
  /\ signalled \in [Ranks -> SUBSET Ranks]
  /\ \A r, q \in Ranks :
       /\ pc[q] = "signal" /\ r \notin signalled[q] => slots[r][q] = 0
       /\ tail /\ pc[r] \in Resetted /\ slots[r][q] = 1 => Signalled(q, r)
  /\ \A q \in Ranks : pc[q] = "k3" => signalled[q] = {}

Early == {"reset", "draw", "await", "agree", "count", "emit", "l1", "quant"}

ReduceInv ==
  /\ DOMAIN y = Ranks
  /\ \A r \in Ranks : y[r].call \in 0 .. call[r] /\ (pc[r] \in Early => y[r].call < call[r])
  /\ \A r, q \in Ranks :
       tail /\ pc[r] \in {"k3", "signal"} /\ y[r].call = call[r] => Signalled(q, r)

(* Counts and routes.                                                       *)

PublishInv ==
  /\ num_tokens \in [Ranks -> 0 .. MaxTokens]
  /\ \A q \in Ranks : call[q] >= 1 /\ pc[q] \notin {"reset", "fused1"} => num_tokens[q] = Len(Input(q))

UniformInv ==
  /\ uniform \in [Ranks -> BOOLEAN]
  /\ \A r \in Ranks : pc[r] \in {"count", "emit"} \union Working =>
       (uniform[r] <=> \A s \in Ranks : Len(batch[call[r]][s]) = Len(batch[call[r]][r]))

(* The routes to r of call c.                                               *)
RoutesOf(c, r) ==
  {st \in Ranks \X (1 .. MaxTokens) :
     LET input == batch[c][st[1]] IN st[2] <= Len(input) /\ input[st[2]] = r}

Rows == Ranks \X (1 .. MaxTokens)

RowsInv ==
  /\ active_tiles \in [Ranks -> Nat]
  /\ rows \in [Ranks -> Seq(Rows)]
  /\ \A o \in Ranks : pc[o] = "emit" =>
       active_tiles[o] = SmallerOf(CeilDiv(Cardinality(RoutesOf(call[o], o)), TileM), CapacityTiles(o))
  /\ \A o \in Ranks : pc[o] \in {"l1", "quant", "k3"} =>
       \A k \in DOMAIN rows[o] : (k - 1) \div TileM \in K3Tiles(o)

ActInv ==
  /\ DOMAIN l1_out = Ranks /\ DOMAIN act_fp8 = Ranks
  /\ \A o \in Ranks : pc[o] = "quant" => l1_out[o] = [k \in DOMAIN rows[o] |-> call[o]]
  /\ \A o \in Ranks : pc[o] = "k3" => act_fp8[o] = [k \in DOMAIN rows[o] |-> call[o]]

(* The rows.                                                                *)

CountInv ==
  /\ done_counter \in [Ranks -> Nat]
  /\ stored \in [Ranks -> SUBSET Nat] /\ counted \in [Ranks -> SUBSET Nat]
  /\ \A o \in Ranks :
       /\ counted[o] \subseteq stored[o]
       /\ tail /\ pc[o] \in Early \ {"reset"} => done_counter[o] = 0
       /\ pc[o] = "k3" => stored[o] \subseteq K3Tiles(o)
       /\ tail /\ pc[o] = "k3" => done_counter[o] = Cardinality(counted[o])

StoreInv ==
  /\ combine \in [Ranks -> [1 .. MaxTokens -> 0 .. Len(plan)]]
  /\ \A o \in Ranks : pc[o] = "k3" =>
       \A row \in StoredBy(o, stored[o]) : combine[row[1]][row[2]] = call[o]

Stored == {"signal", "draw2", "await2", "agree2", "reduce", "host"}

FreshInv ==
  \A r, o \in Ranks, t \in 1 .. MaxTokens :
    /\ call[r] >= 1 /\ Path(r) # "fused"
    /\ call[o] = call[r] + 1 \/ (call[o] = call[r] /\ pc[o] \in Stored)
    /\ <<r, t>> \in ToSet(rows[o])
    => combine[r][t] = call[r]

FusedStored == {"fused2", "fused2In", "fusedReduce", "fused3", "fused3In", "host"}

FusedFreshInv ==
  \A r, o \in Ranks :
    /\ call[r] >= 1 /\ Path(r) = "fused"
    /\ call[o] = call[r] + 1 \/ (call[o] = call[r] /\ pc[o] \in FusedStored)
    => \A t \in 1 .. Len(Input(r)) : Input(r)[t] = o => combine[r][t] = call[r]

(* K1's rows are routes of the call, all of them if they fit the capacity.  *)
Fits(r) == Cardinality(RoutesOf(call[r], r)) <= CapacityTiles(r) * TileM

RoomInv ==
  \A r \in Ranks : pc[r] \in Working =>
    /\ ToSet(rows[r]) \subseteq RoutesOf(call[r], r)
    /\ Fits(r) => ToSet(rows[r]) = RoutesOf(call[r], r)

AddrInv == tail_addrs \in [Ranks -> BOOLEAN]

CallInvs ==
  /\ StepInv /\ SlotInv /\ ReduceInv /\ PublishInv /\ UniformInv
  /\ RowsInv /\ ActInv /\ CountInv /\ StoreInv /\ FreshInv /\ FusedFreshInv
  /\ RoomInv /\ AddrInv

(* The launch state of K3, when nothing else is laid over it.               *)
LaunchInv ==
  /\ DOMAIN k3_prob = Ranks
  /\ \A r \in Ranks :
       /\ tail_addrs[r] = TRUE
       /\ call[r] >= 1 /\ Path(r) # "fused" /\ pc[r] \notin Early => k3_prob[r] = Args(r)
       /\ pc[r] \in Early /\ Replays(r) => k3_prob[r] = Args(r)

-----------------------------------------------------------------------------
(* What the barrier's invariant says here.                                  *)

LEMMA BarrierFacts ==
  ASSUME IInv
  PROVE  /\ entered \in [Ranks -> Nat] /\ left \in [Ranks -> Nat]
         /\ at \in [Ranks -> {"outside", "inside"}]
         /\ \A r \in Ranks : entered[r] = left[r] + (IF at[r] = "inside" THEN 1 ELSE 0)
         /\ \A r, q \in Ranks : left[r] <= entered[q]
  <1>1. /\ entered \in [Ranks -> Nat] /\ left \in [Ranks -> Nat] /\ release \in Nat
        /\ at \in [Ranks -> {"outside", "inside"}]
    BY DEF IInv, Shape
  <1>2. \A r \in Ranks : entered[r] = left[r] + (IF at[r] = "inside" THEN 1 ELSE 0)
    BY DEF IInv, CallInv
  <1>3. Groups \in Nat
    BY GroupsType DEF IInv
  <1>4. ASSUME NEW r \in Ranks, NEW q \in Ranks
        PROVE  left[r] <= entered[q]
    <2>1. left[r] <= release /\ release <= Groups
      BY DEF IInv, ReleaseInv
    <2>2. Groups <= entered[q]
      BY <1>1, <1>3 DEF IInv, GroupInv
    <2> QED BY <1>1, <1>3, <2>1, <2>2
  <1> QED BY <1>1, <1>2, <1>4

LEMMA PlanFacts ==
  ASSUME PlaceInv
  PROVE  /\ Len(plan) \in Nat /\ plan \in Seq(Paths) /\ 0 \in 0 .. Len(plan)
         /\ call \in [Ranks -> Nat] /\ tail \in BOOLEAN
  <1>1. plan \in Seq(Paths)
    BY InputsAssumption DEF PlaceInv
  <1>2. Len(plan) \in Nat
    BY <1>1
  <1> QED BY <1>1, <1>2 DEF PlaceInv

-----------------------------------------------------------------------------
(* Steps within a call.                                                     *)

(* The steps that neither enter nor leave a barrier.                        *)
Edge(r, there) ==
  \/ there = pc[r] /\ pc[r] \in {"k3", "signal"}
  \/ pc[r] = "reset" /\ there = "draw"
  \/ pc[r] = "agree" /\ there = "count"
  \/ pc[r] = "count" /\ there = "emit"
  \/ pc[r] = "emit" /\ there = "l1"
  \/ pc[r] = "l1" /\ there = "quant"
  \/ pc[r] = "quant" /\ there = "k3"
  \/ pc[r] = "k3" /\ tail /\ there = "signal"
  \/ pc[r] = "k3" /\ ~ tail /\ there = "draw2"
  \/ pc[r] = "signal" /\ there = "host"
  \/ pc[r] = "agree2" /\ there = "reduce"
  \/ pc[r] = "reduce" /\ there = "host"
  \/ pc[r] = "fusedWork" /\ there = "fused2"
  \/ pc[r] = "fusedReduce" /\ there = "fused3"

Calm(r) ==
  /\ UNCHANGED <<config, call, barrier, fused>>
  /\ \E there \in Locations : Edge(r, there) /\ pc' = [pc EXCEPT ![r] = there]

Enters(r) ==
  /\ UNCHANGED <<config, call, fused>>
  /\ Draw(r)
  /\ \/ pc[r] = "draw" /\ pc' = [pc EXCEPT ![r] = "await"]
     \/ pc[r] = "draw2" /\ pc' = [pc EXCEPT ![r] = "await2"]

Leaves(r) ==
  /\ UNCHANGED <<config, call, fused>>
  /\ Release(r) \/ Pass(r)
  /\ \/ pc[r] = "await" /\ pc' = [pc EXCEPT ![r] = "agree"]
     \/ pc[r] = "await2" /\ pc' = [pc EXCEPT ![r] = "agree2"]

FusedEnters(r) ==
  /\ UNCHANGED <<config, call, barrier>>
  /\ FusedBarrier!Enter(r)
  /\ \/ pc[r] = "fused1" /\ pc' = [pc EXCEPT ![r] = "fused1In"]
     \/ pc[r] = "fused2" /\ pc' = [pc EXCEPT ![r] = "fused2In"]
     \/ pc[r] = "fused3" /\ pc' = [pc EXCEPT ![r] = "fused3In"]

FusedLeaves(r) ==
  /\ UNCHANGED <<config, call, barrier>>
  /\ FusedBarrier!Leave(r)
  /\ \/ pc[r] = "fused1In" /\ pc' = [pc EXCEPT ![r] = "fusedWork"]
     \/ pc[r] = "fused2In" /\ pc' = [pc EXCEPT ![r] = "fusedReduce"]
     \/ pc[r] = "fused3In" /\ pc' = [pc EXCEPT ![r] = "host"]

InCall(r) == Calm(r) \/ Enters(r) \/ Leaves(r) \/ FusedEnters(r) \/ FusedLeaves(r)

(* The step of rank r, whichever it is.                                     *)
RankStep(r) == Step(r) \/ (pc[r] \in {"k3", "signal"} /\ K3Step(r))

LEMMA StepsMove ==
  ASSUME PlaceInv, NEW r \in Ranks, RankStep(r)
  PROVE  BeginCall(r) \/ InCall(r)
  <1> USE DEF Go, Locations, Edge
  <1>1. CASE Reset(r) \/ Agree(r) \/ CountRoutes(r) \/ EmitRoutes(r) \/ PullL1(r) \/ QuantK2(r)
    <2>1. CASE Reset(r)
      BY <2>1 DEF Reset, Calm, InCall
    <2>2. CASE Agree(r)
      BY <2>2 DEF Agree, Calm, InCall
    <2>3. CASE CountRoutes(r)
      BY <2>3 DEF CountRoutes, Calm, InCall
    <2>4. CASE EmitRoutes(r)
      BY <2>4 DEF EmitRoutes, Calm, InCall
    <2>5. CASE PullL1(r)
      BY <2>5 DEF PullL1, Calm, InCall
    <2>6. CASE QuantK2(r)
      BY <2>6 DEF QuantK2, Calm, InCall
    <2> QED BY <1>1, <2>1, <2>2, <2>3, <2>4, <2>5, <2>6
  <1>2. CASE EndStores(r) \/ ReduceLocal(r) \/ FusedWork(r) \/ FusedReduce(r)
    <2>1. CASE EndStores(r)
      BY <2>1 DEF EndStores, Calm, InCall
    <2>2. CASE ReduceLocal(r)
      BY <2>2 DEF ReduceLocal, Calm, InCall
    <2>3. CASE FusedWork(r)
      BY <2>3 DEF FusedWork, Calm, InCall
    <2>4. CASE FusedReduce(r)
      BY <2>4 DEF FusedReduce, Calm, InCall
    <2> QED BY <1>2, <2>1, <2>2, <2>3, <2>4
  <1>3. CASE DrawTicket(r)
    BY <1>3 DEF DrawTicket, Enters, InCall
  <1>4. CASE LeaveBarrier(r)
    BY <1>4 DEF LeaveBarrier, Leaves, InCall
  <1>5. CASE FusedEnter(r)
    BY <1>5 DEF FusedEnter, FusedEnters, InCall
  <1>6. CASE FusedLeave(r)
    BY <1>6 DEF FusedLeave, FusedLeaves, InCall
  <1>7. CASE pc[r] \in {"k3", "signal"} /\ K3Step(r)
    <2>0. pc = [pc EXCEPT ![r] = pc[r]]
      BY DEF PlaceInv
    <2>1. ASSUME NEW i \in K3Tiles(r), StoreTile(r, i)
          PROVE  InCall(r)
      BY <1>7, <2>0, <2>1 DEF StoreTile, Calm, InCall
    <2>2. ASSUME NEW i \in K3Tiles(r), CountTile(r, i)
          PROVE  InCall(r)
      BY <1>7, <2>0, <2>2 DEF CountTile, Calm, InCall
    <2>3. ASSUME NEW q \in Ranks, SignalPeer(r, q)
          PROVE  InCall(r)
      BY <1>7, <2>0, <2>3 DEF SignalPeer, Calm, InCall
    <2>4. CASE TailReduce(r)
      BY <1>7, <2>0, <2>4 DEF TailReduce, Calm, InCall
    <2>5. CASE EndTail(r)
      BY <1>7, <2>5 DEF EndTail, Calm, InCall
    <2> QED BY <1>7, <2>1, <2>2, <2>3, <2>4, <2>5 DEF K3Step
  <1> QED BY <1>1, <1>2, <1>3, <1>4, <1>5, <1>6, <1>7 DEF RankStep, Step

-----------------------------------------------------------------------------
(* The places, and the barriers passed.                                     *)

(* A step within a call leaves the other ranks where they are.              *)
LEMMA InCallFrame ==
  ASSUME PlaceInv, NEW r \in Ranks, InCall(r)
  PROVE  /\ UNCHANGED <<plan, batch, tail, call>> /\ pc[r] # "host"
         /\ pc' \in [Ranks -> Locations] /\ call[r] >= 1
         /\ \A q \in Ranks \ {r} : pc'[q] = pc[q]
         /\ \A q \in Ranks : Path(q)' = Path(q) /\ Input(q)' = Input(q)
  <1>1. UNCHANGED <<plan, batch, tail, call>>
    BY DEF InCall, Calm, Enters, Leaves, FusedEnters, FusedLeaves, config
  <1>2. \E there \in Locations : pc' = [pc EXCEPT ![r] = there]
    BY DEF InCall, Calm, Enters, Leaves, FusedEnters, FusedLeaves, Locations
  <1>3. pc[r] # "host"
    BY DEF InCall, Calm, Edge, Enters, Leaves, FusedEnters, FusedLeaves
  <1>4. pc' \in [Ranks -> Locations] /\ \A q \in Ranks \ {r} : pc'[q] = pc[q]
    BY <1>2 DEF PlaceInv
  <1> QED BY <1>1, <1>3, <1>4 DEF PlaceInv, Path, Input

LEMMA InCallPlaces ==
  ASSUME PlaceInv, IInv, NEW r \in Ranks, InCall(r)
  PROVE  PlaceInv'
  <1> DEFINE Placed ==
        /\ pc'[r] # "host" =>
             /\ pc'[r] \in FusedPlaces <=> Path(r) = "fused"
             /\ pc'[r] = "signal" => tail
             /\ pc'[r] \in {"draw2", "await2", "agree2", "reduce"} => ~ tail
        /\ at'[r] = "inside" <=> pc'[r] \in {"await", "await2"}
        /\ \A q \in Ranks \ {r} : at'[q] = at[q]
  <1>1. /\ pc \in [Ranks -> Locations]
        /\ at[r] = "inside" <=> pc[r] \in {"await", "await2"}
        /\ pc[r] # "host" =>
             /\ pc[r] \in FusedPlaces <=> Path(r) = "fused"
             /\ pc[r] = "signal" => tail
             /\ pc[r] \in {"draw2", "await2", "agree2", "reduce"} => ~ tail
    BY DEF PlaceInv
  <1>0. ASSUME Placed PROVE PlaceInv'
    <2>1. /\ UNCHANGED <<plan, batch, tail, call>> /\ pc' \in [Ranks -> Locations] /\ call[r] >= 1
          /\ \A q \in Ranks \ {r} : pc'[q] = pc[q]
          /\ \A q \in Ranks : Path(q)' = Path(q)
      BY InCallFrame
    <2>2. \A q \in Ranks : at'[q] = "inside" <=> pc'[q] \in {"await", "await2"}
      BY <1>0, <2>1 DEF PlaceInv
    <2>3. ASSUME NEW q \in Ranks, pc'[q] # "host"
          PROVE  /\ call[q] >= 1
                 /\ (pc'[q] \in FusedPlaces <=> Path(q)' = "fused")
                 /\ (pc'[q] = "signal" => tail)
                 /\ (pc'[q] \in {"draw2", "await2", "agree2", "reduce"} => ~ tail)
      <3>1. CASE q = r
        BY <1>0, <2>1, <2>3, <3>1
      <3>2. CASE q # r
        BY <2>1, <2>3, <3>2 DEF PlaceInv
      <3> QED BY <3>1, <3>2
    <2> QED BY <2>1, <2>2, <2>3 DEF PlaceInv
  <1>2. CASE Calm(r)
    <2>1. at' = at
      BY <1>2 DEF Calm, barrier
    <2>2. PICK there : Edge(r, there) /\ pc'[r] = there
      BY <1>1, <1>2 DEF Calm
    <2>3. Placed
      BY <1>1, <2>1, <2>2 DEF Edge, FusedPlaces
    <2> QED BY <1>0, <2>3
  <1>3. CASE ~ Calm(r)
    <2>1. /\ at'[r] = "inside" <=> pc'[r] \in {"await", "await2"}
          /\ \A q \in Ranks \ {r} : at'[q] = at[q]
      <3>1. CASE Enters(r)
        BY <1>1, <3>1, BarrierFacts DEF Enters, Draw
      <3>2. CASE Leaves(r)
        BY <1>1, <3>2, BarrierFacts DEF Leaves, Release, Pass
      <3>3. CASE FusedEnters(r)
        BY <1>1, <3>3 DEF FusedEnters, barrier
      <3>4. CASE FusedLeaves(r)
        BY <1>1, <3>4 DEF FusedLeaves, barrier
      <3> QED BY <1>3, <3>1, <3>2, <3>3, <3>4 DEF InCall
    <2>2. Placed
      BY <1>1, <1>3, <2>1 DEF InCall, Enters, Leaves, FusedEnters, FusedLeaves, FusedPlaces
    <2> QED BY <1>0, <2>2
  <1> QED BY <1>2, <1>3

LEMMA InCallFused ==
  ASSUME PlaceInv, FusedInv, NEW r \in Ranks, InCall(r)
  PROVE  /\ FusedInv'
         /\ \A q \in Ranks : f_entered'[q] + FusedToCome(q)' = f_entered[q] + FusedToCome(q)
  <1>1. /\ f_entered \in [Ranks -> Nat] /\ f_left \in [Ranks -> Nat] /\ pc \in [Ranks -> Locations]
        /\ \A q \in Ranks : f_entered[q] = f_left[q] + (IF pc[q] \in FusedIn THEN 1 ELSE 0)
        /\ \A p, q \in Ranks : f_left[p] <= f_entered[q]
    BY DEF FusedInv, PlaceInv
  <1>2. \A q \in Ranks \ {r} : pc'[q] = pc[q] /\ FusedToCome(q)' = FusedToCome(q)
    BY InCallFrame DEF FusedToCome
  <1>3. CASE Calm(r) \/ Enters(r) \/ Leaves(r)
    <2>1. f_entered' = f_entered /\ f_left' = f_left
      BY <1>3 DEF Calm, Enters, Leaves, fused
    <2>2. pc'[r] \in FusedIn <=> pc[r] \in FusedIn
      BY <1>1, <1>3 DEF Calm, Edge, Enters, Leaves, FusedIn
    <2>3. FusedToCome(r)' = FusedToCome(r)
      BY <1>1, <1>3 DEF Calm, Edge, Enters, Leaves, FusedToCome
    <2> QED BY <1>1, <1>2, <2>1, <2>2, <2>3 DEF FusedInv
  <1>4. CASE FusedEnters(r)
    <2>1. f_entered' = [f_entered EXCEPT ![r] = @ + 1] /\ f_left' = f_left
      BY <1>4 DEF FusedEnters, FusedBarrier!Enter
    <2>2. pc[r] \notin FusedIn /\ pc'[r] \in FusedIn /\ FusedToCome(r) = FusedToCome(r)' + 1
          /\ FusedToCome(r)' \in Nat
      BY <1>1, <1>4 DEF FusedEnters, FusedIn, FusedToCome
    <2>3. /\ f_entered'[r] = f_entered[r] + 1
          /\ \A q \in Ranks \ {r} : f_entered'[q] = f_entered[q]
          /\ f_entered' \in [Ranks -> Nat]
      BY <1>1, <2>1
    <2>4. FusedInv'
      BY <1>1, <1>2, <2>1, <2>2, <2>3 DEF FusedInv
    <2> QED BY <1>1, <1>2, <2>2, <2>3, <2>4
  <1>5. CASE FusedLeaves(r)
    <2>1. /\ f_left' = [f_left EXCEPT ![r] = @ + 1] /\ f_entered' = f_entered
          /\ f_left[r] < f_entered[r] /\ \A q \in Ranks : f_entered[r] <= f_entered[q]
      BY <1>5 DEF FusedLeaves, FusedBarrier!Leave
    <2>2. pc[r] \in FusedIn /\ pc'[r] \notin FusedIn /\ FusedToCome(r) = FusedToCome(r)'
      BY <1>1, <1>5 DEF FusedLeaves, FusedIn, FusedToCome
    <2>3. /\ f_left'[r] = f_left[r] + 1
          /\ \A q \in Ranks \ {r} : f_left'[q] = f_left[q]
          /\ f_left' \in [Ranks -> Nat]
      BY <1>1, <2>1
    <2>4. FusedInv'
      BY <1>1, <1>2, <2>1, <2>2, <2>3 DEF FusedInv
    <2> QED BY <1>1, <1>2, <2>1, <2>2, <2>4
  <1> QED BY <1>3, <1>4, <1>5 DEF InCall

LEMMA InCallTotals ==
  ASSUME PlaceInv, IInv, NEW r \in Ranks, InCall(r)
  PROVE  \A q \in Ranks : entered'[q] + ToCome(q)' = entered[q] + ToCome(q)
  <1>1. /\ entered \in [Ranks -> Nat] /\ pc \in [Ranks -> Locations] /\ tail' = tail
        /\ \A q \in Ranks \ {r} : pc'[q] = pc[q] /\ ToCome(q)' = ToCome(q)
    BY BarrierFacts, InCallFrame DEF PlaceInv, ToCome
  <1>2. pc[r] # "host" => /\ pc[r] = "signal" => tail
                          /\ pc[r] \in {"draw2", "await2", "agree2", "reduce"} => ~ tail
    BY DEF PlaceInv
  <1>3. CASE Enters(r)
    <2>1. entered' = [entered EXCEPT ![r] = @ + 1]
      BY <1>3 DEF Enters, Draw
    <2>2. ToCome(r) = ToCome(r)' + 1 /\ ToCome(r)' \in Nat
      BY <1>1, <1>2, <1>3 DEF Enters, ToCome
    <2> QED BY <1>1, <2>1, <2>2
  <1>4. CASE ~ Enters(r)
    <2>1. entered' = entered
      BY <1>4 DEF InCall, Calm, Leaves, FusedEnters, FusedLeaves, barrier, Release, Pass
    <2>2. ToCome(r)' = ToCome(r)
      <3>1. CASE Calm(r)
        <4>1. PICK there : Edge(r, there) /\ pc'[r] = there
          BY <1>1, <3>1 DEF Calm
        <4> QED BY <1>1, <1>2, <4>1 DEF Edge, ToCome
      <3>2. CASE Leaves(r) \/ FusedEnters(r) \/ FusedLeaves(r)
        BY <1>1, <3>2 DEF Leaves, FusedEnters, FusedLeaves, ToCome
      <3> QED BY <1>4, <3>1, <3>2 DEF InCall
    <2> QED BY <1>1, <2>1, <2>2
  <1> QED BY <1>3, <1>4

LEMMA InCallPace ==
  ASSUME PlaceInv, FusedInv, PaceInv, IInv, NEW r \in Ranks, InCall(r)
  PROVE  PaceInv'
  <1>1. call' = call /\ plan' = plan /\ tail' = tail
    BY InCallFrame
  <1>2. \A c : Brings(c)' = Brings(c) /\ FusedBrings(c)' = FusedBrings(c)
    BY <1>1 DEF Brings, FusedBrings
  <1> QED BY <1>1, <1>2, InCallFused, InCallTotals DEF PaceInv

-----------------------------------------------------------------------------
(* Who is past a barrier knows where the others are.                        *)

LEMMA Counts ==
  ASSUME PlaceInv, NEW r \in Ranks
  PROVE  /\ ToCome(r) \in 0 .. 2 /\ FusedToCome(r) \in 0 .. 3
         /\ call[r] \in Nat /\ tail \in BOOLEAN /\ pc[r] \in Locations
         /\ \A c : Brings(c) \in 0 .. 2 /\ FusedBrings(c) \in 0 .. 3
         /\ Done(r) \in {call[r], call[r] - 1} /\ Done(r) \in Nat
  <1>1. ToCome(r) \in 0 .. 2 /\ FusedToCome(r) \in 0 .. 3
    BY DEF ToCome, FusedToCome
  <1>2. \A c : Brings(c) \in 0 .. 2 /\ FusedBrings(c) \in 0 .. 3
    BY DEF Brings, FusedBrings
  <1>3. Done(r) \in {call[r], call[r] - 1} /\ Done(r) \in Nat
    BY PlanFacts DEF Done, PlaceInv
  <1> QED BY <1>1, <1>2, <1>3, PlanFacts DEF PlaceInv

(* Nobody is two calls away, or behind a call that somebody has left.       *)
LEMMA Neighbours ==
  ASSUME PlaceInv, LateInv, NEW r \in Ranks, NEW q \in Ranks
  PROVE  /\ call[q] \in {call[r] - 1, call[r], call[r] + 1}
         /\ call[q] = call[r] - 1 => Late(q, r) /\ pc[r] # "host"
         /\ pc[r] = "host" /\ call[q] = call[r] => Late(q, r)
  <1>1. /\ call[q] > Done(r) \/ (call[q] = Done(r) /\ Late(q, r))
        /\ call[r] > Done(q) \/ (call[r] = Done(q) /\ Late(r, q))
    BY DEF LateInv
  <1>2. /\ Done(r) \in {call[r], call[r] - 1} /\ call[r] \in Nat
        /\ Done(q) \in {call[q], call[q] - 1} /\ call[q] \in Nat
        /\ pc[r] = "host" => Done(r) = call[r]
    BY Counts DEF Done
  <1> QED BY <1>1, <1>2

(* Where a rank is when it has to wait no more in its call.                 *)
LEMMA LateTotals ==
  ASSUME PlaceInv, NEW q \in Ranks, NEW r \in Ranks, Late(q, r)
  PROVE  ToCome(q) = 0 /\ FusedToCome(q) = 0
  BY DEF Late, LatePlaces, ToCome, FusedToCome

Behind == Work \union {"signal", "await2", "agree2", "reduce"}

FusedBehind == FusedAtWork \union {"fused3In"}

(* Behind its first barrier a rank is ahead of nobody.                      *)
LEMMA PastFirst ==
  ASSUME StepInv, IInv, NEW r \in Ranks, NEW q \in Ranks, pc[r] \in Behind \union FusedBehind
  PROVE  /\ call[q] \in {call[r], call[r] + 1}
         /\ call[q] = call[r] => pc[q] \notin {"reset", "draw", "fused1"}
  <1> USE DEF StepInv
  <1>0. /\ ToCome(r) \in Nat /\ ToCome(q) \in Nat /\ FusedToCome(r) \in Nat /\ FusedToCome(q) \in Nat
        /\ tail \in BOOLEAN
    BY Counts
  <1>1. /\ call[q] \in {call[r] - 1, call[r], call[r] + 1} /\ call[q] \in Nat /\ call[r] \in Nat
        /\ call[q] = call[r] - 1 => ToCome(q) = 0 /\ FusedToCome(q) = 0
    BY Neighbours, LateTotals, Counts
  <1>2. /\ entered[r] \in Nat /\ entered[q] \in Nat /\ left[r] <= entered[q] /\ left[r] \in Nat
        /\ entered[r] = left[r] + (IF at[r] = "inside" THEN 1 ELSE 0)
        /\ f_entered[r] \in Nat /\ f_entered[q] \in Nat
        /\ f_left[r] <= f_entered[q] /\ f_left[r] \in Nat
        /\ f_entered[r] = f_left[r] + (IF pc[r] \in FusedIn THEN 1 ELSE 0)
    BY BarrierFacts DEF FusedInv
  <1>3. /\ pc[r] # "host"
        /\ pc[r] \in FusedPlaces <=> plan[call[r]] = "fused"
        /\ at[r] = "inside" <=> pc[r] \in {"await", "await2"}
        /\ pc[r] = "signal" => tail
        /\ pc[r] \in {"draw2", "await2", "agree2", "reduce"} => ~ tail
        /\ pc[q] # "host" => (pc[q] \in FusedPlaces <=> plan[call[q]] = "fused")
    BY DEF PlaceInv, Path, Behind, FusedBehind, Work, FusedAtWork
  <1>4. CASE call[q] = call[r] - 1
    <2>1. /\ entered[r] + ToCome(r) = entered[q] + Brings(call[r])
          /\ f_entered[r] + FusedToCome(r) = f_entered[q] + FusedBrings(call[r])
      BY <1>1, <1>2, <1>4 DEF PaceInv
    <2>2. CASE pc[r] \in Behind
      <3>1. Brings(call[r]) = (IF tail THEN 1 ELSE 2)
        BY <1>3, <2>2 DEF Brings, Behind, Work, FusedPlaces
      <3>2. entered[r] - left[r] + ToCome(r) < (IF tail THEN 1 ELSE 2)
        BY <1>2, <1>3, <2>2 DEF Behind, Work, ToCome
      <3> QED BY <1>2, <2>1, <1>0, <3>1, <3>2
    <2>3. CASE pc[r] \in FusedBehind
      <3>1. FusedBrings(call[r]) = 3
        BY <1>3, <2>3 DEF FusedBrings, FusedBehind, FusedAtWork, FusedPlaces
      <3>2. f_entered[r] - f_left[r] + FusedToCome(r) < 3
        BY <1>2, <2>3 DEF FusedBehind, FusedAtWork, FusedToCome, FusedIn
      <3> QED BY <1>2, <2>1, <1>0, <3>1, <3>2
    <2> QED BY <2>2, <2>3
  <1>5. ASSUME call[q] = call[r]
        PROVE  pc[q] \notin {"reset", "draw", "fused1"}
    <2>1. /\ entered[q] + ToCome(q) = entered[r] + ToCome(r)
          /\ f_entered[q] + FusedToCome(q) = f_entered[r] + FusedToCome(r)
      BY <1>5 DEF PaceInv
    <2>2. CASE pc[r] \in Behind
      <3>1. pc[q] # "fused1"
        BY <1>3, <1>5, <2>2 DEF Behind, Work, FusedPlaces
      <3>2. entered[r] - left[r] + ToCome(r) < (IF tail THEN 1 ELSE 2)
        BY <1>2, <1>3, <2>2 DEF Behind, Work, ToCome
      <3>3. pc[q] \in {"reset", "draw"} => ToCome(q) = (IF tail THEN 1 ELSE 2)
        BY DEF ToCome
      <3> QED BY <1>2, <2>1, <3>1, <1>0, <3>2, <3>3
    <2>3. CASE pc[r] \in FusedBehind
      <3>1. pc[q] \notin {"reset", "draw"}
        BY <1>3, <1>5, <2>3 DEF FusedBehind, FusedAtWork, FusedPlaces
      <3>2. f_entered[r] - f_left[r] + FusedToCome(r) < 3
        BY <1>2, <2>3 DEF FusedBehind, FusedAtWork, FusedToCome, FusedIn
      <3>3. pc[q] = "fused1" => FusedToCome(q) = 3
        BY DEF FusedToCome
      <3> QED BY <1>2, <2>1, <3>1, <1>0, <3>2, <3>3
    <2> QED BY <2>2, <2>3
  <1> QED BY <1>1, <1>4, <1>5

(* Between the first barrier and the late places all ranks are in the call. *)
LEMMA Together ==
  ASSUME StepInv, IInv, NEW r \in Ranks, NEW q \in Ranks, pc[r] \in Work \union FusedAtWork
  PROVE  /\ call[q] = call[r] /\ pc[q] \notin {"reset", "draw", "fused1", "host"}
  <1>1. /\ call[q] \in {call[r], call[r] + 1}
        /\ call[q] = call[r] => pc[q] \notin {"reset", "draw", "fused1"}
    BY PastFirst DEF Behind, FusedBehind
  <1>2. ~ Late(r, q)
    BY DEF Late, LatePlaces, Work, FusedAtWork
  <1>3. call[r] # call[q] - 1 /\ ~ (pc[q] = "host" /\ call[r] = call[q])
    BY <1>2, Neighbours DEF StepInv
  <1> QED BY <1>1, <1>3, Counts DEF StepInv

-----------------------------------------------------------------------------
(* Which step a rank takes, and what it leaves alone.                       *)

LEMMA StepAt ==
  ASSUME NEW r \in Ranks, RankStep(r)
  PROVE  /\ pc[r] = "host" => BeginCall(r)
         /\ pc[r] = "reset" => Reset(r)
         /\ pc[r] \in {"draw", "draw2"} => DrawTicket(r)
         /\ pc[r] \in {"await", "await2"} => LeaveBarrier(r)
         /\ pc[r] \in {"agree", "agree2"} => Agree(r)
         /\ pc[r] = "count" => CountRoutes(r)
         /\ pc[r] = "emit" => EmitRoutes(r)
         /\ pc[r] = "l1" => PullL1(r)
         /\ pc[r] = "quant" => QuantK2(r)
         /\ pc[r] = "k3" => EndStores(r) \/ K3Step(r)
         /\ pc[r] = "signal" => K3Step(r)
         /\ pc[r] = "reduce" => ReduceLocal(r)
         /\ pc[r] \in {"fused1", "fused2", "fused3"} => FusedEnter(r)
         /\ pc[r] \in FusedIn => FusedLeave(r)
         /\ pc[r] = "fusedWork" => FusedWork(r)
         /\ pc[r] = "fusedReduce" => FusedReduce(r)
  <1>1. /\ BeginCall(r) => pc[r] = "host"
        /\ Reset(r) => pc[r] = "reset"
        /\ DrawTicket(r) => pc[r] \in {"draw", "draw2"}
        /\ LeaveBarrier(r) => pc[r] \in {"await", "await2"}
        /\ Agree(r) => pc[r] \in {"agree", "agree2"}
    BY DEF BeginCall, Reset, DrawTicket, LeaveBarrier, Agree
  <1>2. /\ CountRoutes(r) => pc[r] = "count"
        /\ EmitRoutes(r) => pc[r] = "emit"
        /\ PullL1(r) => pc[r] = "l1"
        /\ QuantK2(r) => pc[r] = "quant"
        /\ EndStores(r) => pc[r] = "k3"
        /\ ReduceLocal(r) => pc[r] = "reduce"
    BY DEF CountRoutes, EmitRoutes, PullL1, QuantK2, EndStores, ReduceLocal
  <1>3. /\ FusedEnter(r) => pc[r] \in {"fused1", "fused2", "fused3"}
        /\ FusedLeave(r) => pc[r] \in FusedIn
        /\ FusedWork(r) => pc[r] = "fusedWork"
        /\ FusedReduce(r) => pc[r] = "fusedReduce"
    BY DEF FusedEnter, FusedLeave, FusedWork, FusedReduce, FusedIn
  <1> QED BY <1>1, <1>2, <1>3 DEF RankStep, Step, FusedIn

(* The buffers and the scratch, by the places where a rank changes them.    *)
LEMMA StepFrame ==
  ASSUME NEW r \in Ranks, RankStep(r), PlaceInv
  PROVE  /\ pc[r] \notin {"reset", "fused1", "fused2", "fused3"} => UNCHANGED num_tokens
         /\ pc[r] \notin {"reset", "signal"} => UNCHANGED slots
         /\ pc[r] \notin {"k3", "fusedWork"} => UNCHANGED combine
         /\ pc[r] \notin {"reset", "k3", "fusedWork"} => UNCHANGED done_counter
         /\ pc[r] \notin {"fusedWork"} => UNCHANGED tail_addrs
         /\ pc[r] \notin {"quant", "fusedWork"} => UNCHANGED k3_prob
         /\ pc[r] \notin {"agree", "agree2"} => UNCHANGED uniform
         /\ pc[r] \notin {"count", "emit"} => UNCHANGED rows
         /\ pc[r] # "count" => UNCHANGED active_tiles
         /\ pc[r] # "l1" => UNCHANGED l1_out
         /\ pc[r] # "quant" => UNCHANGED act_fp8
         /\ pc[r] \notin {"quant", "k3"} => UNCHANGED <<stored, counted>>
         /\ pc[r] \notin {"quant", "signal"} => UNCHANGED signalled
         /\ pc[r] \notin {"k3", "signal", "reduce", "fusedReduce"} => UNCHANGED y
  <1> USE DEF sym, tailState, layout, acts, k3
  <1>1. CASE pc[r] \in {"host", "reset", "draw", "draw2", "await", "await2", "agree", "agree2"}
    <2>1. BeginCall(r) \/ Reset(r) \/ DrawTicket(r) \/ LeaveBarrier(r) \/ Agree(r)
      BY <1>1, StepAt
    <2>2. CASE BeginCall(r) \/ Reset(r)
      BY <2>2 DEF BeginCall, Reset
    <2>3. CASE DrawTicket(r) \/ LeaveBarrier(r)
      BY <2>3 DEF DrawTicket, LeaveBarrier
    <2>4. CASE Agree(r)
      BY <2>4 DEF Agree
    <2> QED BY <2>1, <2>2, <2>3, <2>4
  <1>2. CASE pc[r] \in {"count", "emit", "l1", "quant", "reduce"}
    <2>1. CountRoutes(r) \/ EmitRoutes(r) \/ PullL1(r) \/ QuantK2(r) \/ ReduceLocal(r)
      BY <1>2, StepAt
    <2>2. CASE CountRoutes(r) \/ EmitRoutes(r)
      BY <2>2 DEF CountRoutes, EmitRoutes
    <2>3. CASE PullL1(r) \/ QuantK2(r)
      BY <2>3 DEF PullL1, QuantK2
    <2>4. CASE ReduceLocal(r)
      BY <2>4 DEF ReduceLocal
    <2> QED BY <2>1, <2>2, <2>3, <2>4
  <1>3. CASE pc[r] \in {"k3", "signal"}
    <2>1. EndStores(r) \/ K3Step(r)
      BY <1>3, StepAt
    <2>2. CASE EndStores(r)
      BY <2>2 DEF EndStores
    <2>3. ASSUME NEW i \in K3Tiles(r), StoreTile(r, i) \/ CountTile(r, i)
          PROVE  UNCHANGED <<num_tokens, slots, tail_addrs, k3_prob, layout, acts, signalled, y>> /\ pc[r] = "k3"
      BY <2>3 DEF StoreTile, CountTile
    <2>4. ASSUME NEW q \in Ranks, SignalPeer(r, q)
          PROVE  UNCHANGED <<num_tokens, combine, tailState, layout, acts, stored, counted, y>> /\ pc[r] = "signal"
      BY <2>4 DEF SignalPeer
    <2>5. CASE TailReduce(r) \/ EndTail(r)
      BY <1>3, <2>5 DEF TailReduce, EndTail
    <2> QED BY <2>1, <2>2, <2>3, <2>4, <2>5 DEF K3Step
  <1>4. CASE pc[r] \in FusedPlaces
    <2>1. FusedEnter(r) \/ FusedLeave(r) \/ FusedWork(r) \/ FusedReduce(r)
      BY <1>4, StepAt DEF FusedPlaces, FusedIn
    <2>2. CASE FusedEnter(r) \/ FusedLeave(r)
      BY <2>2 DEF FusedEnter, FusedLeave
    <2>3. CASE FusedWork(r) \/ FusedReduce(r)
      BY <2>3 DEF FusedWork, FusedReduce
    <2> QED BY <2>1, <2>2, <2>3
  <1> QED BY <1>1, <1>2, <1>3, <1>4 DEF PlaceInv, Locations, FusedPlaces

(* A rank resets the peers it has signalled before K3, and then adds one by *)
(* one.                                                                     *)
LEMMA SignalledGrow ==
  ASSUME NEW r \in Ranks, RankStep(r), PlaceInv, signalled \in [Ranks -> SUBSET Ranks]
  PROVE  /\ signalled' \in [Ranks -> SUBSET Ranks]
         /\ \A q \in Ranks \ {r} : signalled'[q] = signalled[q]
         /\ pc[r] = "quant" => signalled'[r] = {}
         /\ pc[r] # "quant" => signalled[r] \subseteq signalled'[r]
  <1>1. CASE pc[r] = "quant"
    <2>1. signalled' = [signalled EXCEPT ![r] = {}]
      BY <1>1, StepAt DEF QuantK2
    <2> QED BY <1>1, <2>1
  <1>2. CASE pc[r] = "signal"
    <2>1. ASSUME NEW q \in Ranks, SignalPeer(r, q)
          PROVE  signalled' = [signalled EXCEPT ![r] = @ \union {q}]
      BY <2>1 DEF SignalPeer
    <2>2. CASE TailReduce(r) \/ EndTail(r)
      BY <2>2 DEF TailReduce, EndTail, k3
    <2>3. (\E q \in Ranks : SignalPeer(r, q)) \/ TailReduce(r) \/ EndTail(r)
      <3>1. K3Step(r)
        BY <1>2, StepAt
      <3>2. \A i : ~ StoreTile(r, i) /\ ~ CountTile(r, i)
        BY <1>2 DEF StoreTile, CountTile
      <3> QED BY <3>1, <3>2 DEF K3Step
    <2>4. CASE \E q \in Ranks : SignalPeer(r, q)
      <3>1. PICK q \in Ranks : SignalPeer(r, q)
        BY <2>4
      <3>2. signalled' = [signalled EXCEPT ![r] = @ \union {q}]
        BY <3>1, <2>1
      <3> QED BY <1>2, <3>2
    <2> QED BY <1>2, <2>2, <2>3, <2>4
  <1>3. CASE pc[r] \notin {"quant", "signal"}
    BY <1>3, StepFrame
  <1> QED BY <1>1, <1>2, <1>3

-----------------------------------------------------------------------------
(* A rank that may be left stays so until it begins its next call.          *)
LEMMA LateStays ==
  ASSUME PlaceInv, SlotInv, NEW r \in Ranks, RankStep(r), InCall(r), NEW q \in Ranks, NEW p \in Ranks,
         Late(q, p)
  PROVE  Late(q, p)'
  <1>1. CASE q # r
    <2>1. pc'[q] = pc[q] /\ signalled'[q] = signalled[q]
      BY <1>1, InCallFrame, SignalledGrow DEF SlotInv
    <2> QED BY <2>1 DEF Late
  <1>2. CASE q = r
    <2>1. CASE pc[r] = "signal" /\ p \in signalled[r]
      <3>1. p \in signalled'[r]
        BY <2>1, SignalledGrow DEF SlotInv
      <3>2. pc'[r] \in {"signal", "host"}
        BY <2>1 DEF InCall, Calm, Edge, Enters, Leaves, FusedEnters, FusedLeaves, PlaceInv
      <3> QED BY <1>2, <3>1, <3>2 DEF Late, LatePlaces
    <2>2. CASE pc[r] \in LatePlaces
      <3>1. pc[r] # "host" /\ pc \in [Ranks -> Locations]
        BY InCallFrame DEF PlaceInv
      <3>2. pc'[r] \in LatePlaces
        BY <2>2, <3>1 DEF InCall, Calm, Edge, Enters, Leaves, FusedEnters, FusedLeaves, LatePlaces
      <3> QED BY <1>2, <3>2 DEF Late
    <2> QED BY <1>2, <2>1, <2>2 DEF Late
  <1> QED BY <1>1, <1>2

(* A rank ends its call only when it may leave everybody's.                 *)
LEMMA EndsLate ==
  ASSUME StepInv, SlotInv, ReduceInv, IInv, NEW r \in Ranks, RankStep(r), InCall(r),
         pc'[r] = "host", NEW q \in Ranks, q # r
  PROVE  call[q] > call[r] \/ (call[q] = call[r] /\ Late(q, r))
  <1> USE DEF StepInv
  <1>0. /\ pc[r] \in {"signal", "reduce", "fused3In"}
        /\ pc[r] \in FusedPlaces <=> plan[call[r]] = "fused"
        /\ pc[r] = "signal" => tail
        /\ pc[r] \in {"draw2", "await2", "agree2", "reduce"} => ~ tail
        /\ at[r] = "inside" <=> pc[r] \in {"await", "await2"}
        /\ pc[q] \in Locations
    BY DEF InCall, Calm, Edge, Enters, Leaves, FusedEnters, FusedLeaves, PlaceInv, Path
  <1>1. /\ pc[q] # "host" => (pc[q] \in FusedPlaces <=> plan[call[q]] = "fused")
        /\ pc[q] = "signal" => tail
    BY DEF PlaceInv, Path
  <1>2. /\ entered[r] \in Nat /\ entered[q] \in Nat /\ left[r] <= entered[q] /\ left[r] \in Nat
        /\ entered[r] = left[r] + (IF at[r] = "inside" THEN 1 ELSE 0)
        /\ f_entered[r] \in Nat /\ f_entered[q] \in Nat
    BY BarrierFacts DEF FusedInv
  <1>3. call[q] = call[r] => /\ entered[q] + ToCome(q) = entered[r] + ToCome(r)
                             /\ f_entered[q] + FusedToCome(q) = f_entered[r] + FusedToCome(r)
    BY DEF PaceInv
  <1>4. call[q] \in {call[r], call[r] + 1} /\ call[q] \in Nat /\ call[r] \in Nat
    BY <1>0, PastFirst, Counts DEF Behind, FusedBehind
  <1>5. CASE pc[r] = "signal"
    <2>1. EndTail(r)
      <3>1. K3Step(r)
        BY <1>5, StepAt
      <3>2. /\ \A i : ~ StoreTile(r, i) /\ ~ CountTile(r, i)
            /\ \A p : ~ SignalPeer(r, p)
            /\ ~ TailReduce(r)
        BY <1>5 DEF StoreTile, CountTile, SignalPeer, TailReduce
      <3> QED BY <3>1, <3>2 DEF K3Step
    <2>2. y[r].call = call[r]
      BY <2>1 DEF EndTail
    <2>3. Signalled(q, r)
      BY <1>0, <1>5, <2>2 DEF ReduceInv
    <2> QED BY <2>3 DEF Signalled, Late, LatePlaces
  <1>6. CASE pc[r] = "reduce"
    <2>1. ToCome(r) = 0 /\ at[r] # "inside" /\ ~ tail /\ plan[call[r]] # "fused"
      BY <1>0, <1>6 DEF ToCome, FusedPlaces
    <2>2. ASSUME call[q] = call[r]
          PROVE  Late(q, r)
      <3>1. ToCome(q) = 0
        BY <1>2, <1>3, <2>1, <2>2, Counts
      <3>2. pc[q] \notin FusedPlaces /\ pc[q] # "signal"
        BY <1>1, <2>1, <2>2 DEF FusedPlaces
      <3> QED BY <1>0, <2>1, <3>1, <3>2 DEF ToCome, Late, LatePlaces, Locations, FusedPlaces
    <2> QED BY <1>4, <2>2
  <1>7. CASE pc[r] = "fused3In"
    <2>1. FusedToCome(r) = 0 /\ plan[call[r]] = "fused"
      BY <1>0, <1>7 DEF FusedToCome, FusedPlaces
    <2>2. f_entered[r] <= f_entered[q]
      BY <1>7, StepAt DEF FusedLeave, FusedIn, FusedBarrier!Leave
    <2>3. ASSUME call[q] = call[r]
          PROVE  Late(q, r)
      <3>1. FusedToCome(q) = 0
        BY <1>2, <1>3, <2>1, <2>2, <2>3, Counts
      <3>2. pc[q] = "host" \/ pc[q] \in FusedPlaces
        BY <1>1, <2>1, <2>3
      <3> QED BY <3>1, <3>2 DEF FusedToCome, Late, LatePlaces, FusedPlaces
    <2> QED BY <1>4, <2>3
  <1> QED BY <1>0, <1>5, <1>6, <1>7

LEMMA InCallLate ==
  ASSUME StepInv, SlotInv, ReduceInv, IInv, NEW r \in Ranks, RankStep(r), InCall(r)
  PROVE  LateInv'
  <1> USE DEF StepInv
  <1>1. call' = call /\ pc[r] # "host" /\ \A q \in Ranks \ {r} : pc'[q] = pc[q]
    BY InCallFrame
  <1>2. SUFFICES ASSUME NEW p \in Ranks, NEW q \in Ranks
                 PROVE  call[q] > Done(p)' \/ (call[q] = Done(p)' /\ Late(q, p)')
    BY <1>1 DEF LateInv
  <1>3. call[q] > Done(p) \/ (call[q] = Done(p) /\ Late(q, p))
    BY DEF LateInv
  <1>4. CASE Done(p)' = Done(p)
    BY <1>3, <1>4, LateStays
  <1>5. CASE Done(p)' # Done(p)
    <2>1. p = r /\ pc'[r] = "host" /\ Done(r)' = call[r]
      BY <1>1, <1>5 DEF Done
    <2>2. CASE q = r
      BY <2>1, <2>2 DEF Late, LatePlaces
    <2>3. CASE q # r
      BY <2>1, <2>3, EndsLate, LateStays
    <2> QED BY <2>2, <2>3
  <1> QED BY <1>4, <1>5

LEMMA InCallSteps ==
  ASSUME StepInv, SlotInv, ReduceInv, IInv, NEW r \in Ranks, RankStep(r), InCall(r)
  PROVE  StepInv'
  BY InCallPlaces, InCallFused, InCallPace, InCallLate DEF StepInv

(* A rank begins a call when the others are in it or may leave the last.    *)
LEMMA BeginSteps ==
  ASSUME StepInv, IInv, NEW r \in Ranks, BeginCall(r)
  PROVE  StepInv'
  <1> USE DEF StepInv
  <1>1. /\ UNCHANGED <<plan, batch, tail, barrier, f_entered, f_left, signalled>>
        /\ pc[r] = "host" /\ call[r] < Len(plan)
        /\ call' = [call EXCEPT ![r] = @ + 1]
        /\ pc' = [pc EXCEPT ![r] = IF plan[call[r] + 1] = "fused" THEN "fused1" ELSE "reset"]
    BY DEF BeginCall, config, fused, k3, Go
  <1>2. /\ Len(plan) \in Nat /\ call \in [Ranks -> Nat] /\ tail \in BOOLEAN
        /\ call \in [Ranks -> 0 .. Len(plan)] /\ pc \in [Ranks -> Locations]
    BY PlanFacts DEF PlaceInv
  <1>3. /\ call'[r] = call[r] + 1 /\ \A q \in Ranks \ {r} : call'[q] = call[q] /\ pc'[q] = pc[q]
        /\ pc'[r] = (IF plan[call'[r]] = "fused" THEN "fused1" ELSE "reset")
        /\ UNCHANGED <<entered, left, at>>
    BY <1>1, <1>2 DEF barrier
  <1>4. PlaceInv'
    <2>1. call' \in [Ranks -> 0 .. Len(plan)] /\ pc' \in [Ranks -> Locations]
      BY <1>1, <1>2 DEF Locations
    <2>2. \A q \in Ranks : pc'[q] # "host" =>
            /\ call'[q] >= 1
            /\ (pc'[q] \in FusedPlaces <=> Path(q)' = "fused")
            /\ (pc'[q] = "signal" => tail)
            /\ (pc'[q] \in {"draw2", "await2", "agree2", "reduce"} => ~ tail)
      BY <1>1, <1>2, <1>3 DEF PlaceInv, Path, FusedPlaces
    <2>3. \A q \in Ranks : at'[q] = "inside" <=> pc'[q] \in {"await", "await2"}
      BY <1>1, <1>3 DEF PlaceInv
    <2> QED BY <1>1, <2>1, <2>2, <2>3 DEF PlaceInv
  <1>5. FusedInv'
    <2>1. \A q \in Ranks : pc'[q] \in FusedIn <=> pc[q] \in FusedIn
      BY <1>1, <1>3 DEF FusedIn
    <2> QED BY <1>1, <2>1 DEF FusedInv
  <1>6. /\ ToCome(r) = 0 /\ FusedToCome(r) = 0
        /\ ToCome(r)' = Brings(call'[r]) /\ FusedToCome(r)' = FusedBrings(call'[r])
        /\ \A q \in Ranks \ {r} : ToCome(q)' = ToCome(q) /\ FusedToCome(q)' = FusedToCome(q)
        /\ \A c : Brings(c)' = Brings(c) /\ FusedBrings(c)' = FusedBrings(c)
    BY <1>1, <1>3 DEF ToCome, FusedToCome, Brings, FusedBrings
  <1>7. \A q \in Ranks : /\ call[q] \in {call[r], call[r] + 1}
                         /\ call[q] = call[r] => ToCome(q) = 0 /\ FusedToCome(q) = 0
    BY <1>1, Neighbours, LateTotals
  <1>8. \A q \in Ranks : /\ ToCome(q) \in Nat /\ FusedToCome(q) \in Nat /\ call[q] \in Nat
                         /\ entered[q] \in Nat /\ f_entered[q] \in Nat
                         /\ \A c : Brings(c) \in Nat /\ FusedBrings(c) \in Nat
    BY Counts, BarrierFacts DEF FusedInv
  <1>9. PaceInv'
    <2> SUFFICES ASSUME NEW p \in Ranks, NEW q \in Ranks
                 PROVE  /\ call'[q] = call'[p] =>
                             /\ entered[q] + ToCome(q)' = entered[p] + ToCome(p)'
                             /\ f_entered[q] + FusedToCome(q)' = f_entered[p] + FusedToCome(p)'
                        /\ call'[q] = call'[p] + 1 =>
                             /\ entered[q] + ToCome(q)' = entered[p] + ToCome(p)' + Brings(call'[q])
                             /\ f_entered[q] + FusedToCome(q)' =
                                  f_entered[p] + FusedToCome(p)' + FusedBrings(call'[q])
      BY <1>1, <1>3, <1>6 DEF PaceInv
    <2>1. /\ call[q] = call[p] => /\ entered[q] + ToCome(q) = entered[p] + ToCome(p)
                                  /\ f_entered[q] + FusedToCome(q) = f_entered[p] + FusedToCome(p)
          /\ call[q] = call[p] + 1 =>
               /\ entered[q] + ToCome(q) = entered[p] + ToCome(p) + Brings(call[q])
               /\ f_entered[q] + FusedToCome(q) = f_entered[p] + FusedToCome(p) + FusedBrings(call[q])
          /\ call[p] = call[q] + 1 =>
               /\ entered[p] + ToCome(p) = entered[q] + ToCome(q) + Brings(call[p])
               /\ f_entered[p] + FusedToCome(p) = f_entered[q] + FusedToCome(q) + FusedBrings(call[p])
      BY DEF PaceInv
    <2>2. CASE p # r /\ q # r
      BY <1>3, <1>6, <2>1, <2>2
    <2>3. CASE p = r /\ q = r
      BY <1>3, <1>8, <2>3
    <2>4. CASE p = r /\ q # r
      BY <1>3, <1>6, <1>7, <1>8, <2>1, <2>4
    <2>5. CASE p # r /\ q = r
      BY <1>3, <1>6, <1>7, <1>8, <2>1, <2>5
    <2> QED BY <2>2, <2>3, <2>4, <2>5
  <1>10. LateInv'
    <2> SUFFICES ASSUME NEW p \in Ranks, NEW q \in Ranks
                 PROVE  call'[q] > Done(p)' \/ (call'[q] = Done(p)' /\ Late(q, p)')
      BY DEF LateInv
    <2>1. Done(p)' = Done(p)
      BY <1>1, <1>3, <1>8 DEF Done
    <2>2. call[q] > Done(p) \/ (call[q] = Done(p) /\ Late(q, p))
      BY DEF LateInv
    <2>3. CASE q = r
      BY <1>3, <1>8, <2>1, <2>2, <2>3, Counts
    <2>4. CASE q # r
      <3>1. Late(q, p)' <=> Late(q, p)
        BY <1>1, <1>3, <2>4 DEF Late
      <3> QED BY <1>3, <2>1, <2>2, <2>4, <3>1
    <2> QED BY <2>3, <2>4
  <1> QED BY <1>4, <1>5, <1>9, <1>10

-----------------------------------------------------------------------------
(* The tail signals.                                                        *)

LEMMA StepOthers ==
  ASSUME PlaceInv, NEW r \in Ranks, RankStep(r)
  PROVE  /\ UNCHANGED <<plan, batch, tail>>
         /\ \A q \in Ranks \ {r} : pc'[q] = pc[q] /\ call'[q] = call[q]
         /\ pc[r] = "host" => /\ BeginCall(r)
                              /\ call'[r] = call[r] + 1 /\ pc'[r] \in {"reset", "fused1"}
         /\ pc[r] # "host" => InCall(r) /\ call' = call
  <1>1. CASE pc[r] = "host"
    <2>1. BeginCall(r)
      BY <1>1, StepAt
    <2> QED BY <1>1, <2>1 DEF BeginCall, PlaceInv, config, Go
  <1>2. CASE pc[r] # "host"
    <2>1. InCall(r)
      BY <1>2, StepsMove DEF BeginCall
    <2> QED BY <1>2, <2>1, InCallFrame
  <1> QED BY <1>1, <1>2

(* The ways through the call.                                               *)
LEMMA PlaceBefore ==
  ASSUME PlaceInv, NEW r \in Ranks, InCall(r)
  PROVE  /\ pc'[r] = "draw" => pc[r] = "reset"
         /\ pc'[r] = "await" => pc[r] = "draw"
         /\ pc'[r] = "agree" => pc[r] = "await"
         /\ pc'[r] = "count" => pc[r] = "agree"
         /\ pc'[r] = "emit" => pc[r] = "count"
         /\ pc'[r] = "l1" => pc[r] = "emit"
         /\ pc'[r] = "quant" => pc[r] = "l1"
         /\ pc'[r] = "k3" => pc[r] \in {"quant", "k3"}
         /\ pc'[r] = "signal" => pc[r] \in {"k3", "signal"}
         /\ pc'[r] \notin {"reset", "fused1"}
         /\ pc[r] = "fused1" => pc'[r] = "fused1In"
         /\ pc[r] = "signal" => pc'[r] \in {"signal", "host"}
         /\ pc[r] = "agree2" => pc'[r] = "reduce"
         /\ pc'[r] = "draw2" => pc[r] = "k3"
         /\ pc'[r] = "await2" => pc[r] = "draw2"
         /\ pc'[r] = "agree2" => pc[r] = "await2"
         /\ pc'[r] = "reduce" => pc[r] = "agree2"
         /\ pc'[r] = "fused2" => pc[r] = "fusedWork"
         /\ pc'[r] = "fused2In" => pc[r] = "fused2"
         /\ pc'[r] = "fusedReduce" => pc[r] = "fused2In"
         /\ pc'[r] = "fused3" => pc[r] = "fusedReduce"
         /\ pc'[r] = "fused3In" => pc[r] = "fused3"
         /\ pc'[r] = "host" => pc[r] \in {"signal", "reduce", "fused3In"}
  <1> USE DEF PlaceInv, Locations
  <1>1. CASE Calm(r)
    <2>1. PICK there : Edge(r, there) /\ pc'[r] = there
      BY <1>1 DEF Calm
    <2> QED BY <2>1 DEF Edge
  <1>2. CASE Enters(r) \/ Leaves(r)
    BY <1>2 DEF Enters, Leaves
  <1>3. CASE FusedEnters(r) \/ FusedLeaves(r)
    BY <1>3 DEF FusedEnters, FusedLeaves
  <1> QED BY <1>1, <1>2, <1>3 DEF InCall

(* A signal that has come stays valid until the rank begins its next call.  *)
LEMMA SignalledStays ==
  ASSUME PlaceInv, signalled \in [Ranks -> SUBSET Ranks], NEW r \in Ranks, RankStep(r),
         NEW p \in Ranks, NEW q \in Ranks, Signalled(q, p), p # r \/ pc[r] # "host"
  PROVE  Signalled(q, p)'
  <1>1. call'[p] = call[p] /\ call \in [Ranks -> Nat]
    BY StepOthers, PlanFacts
  <1>2. CASE q # r
    <2>1. pc'[q] = pc[q] /\ signalled'[q] = signalled[q] /\ call'[q] = call[q]
      BY <1>2, StepOthers, SignalledGrow
    <2> QED BY <1>1, <2>1 DEF Signalled
  <1>3. CASE q = r /\ pc[r] = "host"
    BY <1>1, <1>3, StepOthers DEF Signalled
  <1>4. CASE q = r /\ pc[r] # "host"
    <2>1. call' = call /\ InCall(r)
      BY <1>4, StepOthers
    <2>2. CASE pc[r] = "signal" /\ p \in signalled[r]
      <3>1. p \in signalled'[r] /\ pc'[r] \in {"signal", "host"}
        BY <2>1, <2>2, SignalledGrow, PlaceBefore
      <3> QED BY <1>4, <2>1, <2>2, <3>1 DEF Signalled
    <2>3. CASE call[r] > call[p]
      BY <1>4, <2>1, <2>3 DEF Signalled
    <2> QED BY <1>4, <2>2, <2>3 DEF Signalled
  <1> QED BY <1>2, <1>3, <1>4

(* The slots as a step of rank r leaves them.                               *)
LEMMA SlotSteps ==
  ASSUME StepInv, SlotInv, IInv, NEW r \in Ranks, RankStep(r)
  PROVE  /\ slots' \in [Ranks -> [Ranks -> {0, 1}]]
         /\ \A p, q \in Ranks :
              slots'[p][q] # slots[p][q] =>
                \/ p = r /\ pc[r] = "reset" /\ slots'[p][q] = 0
                \/ q = r /\ pc[r] = "signal" /\ slots'[p][q] = 1 /\ p \in signalled'[r]
                   /\ p \notin signalled[r] /\ call[p] = call[r]
         /\ tail /\ pc[r] = "reset" => \A q \in Ranks : slots'[r][q] = 0
  <1>0. slots \in [Ranks -> [Ranks -> {0, 1}]] /\ signalled \in [Ranks -> SUBSET Ranks]
    BY DEF SlotInv
  <1>1. CASE pc[r] = "reset"
    <2>1. slots' = [slots EXCEPT ![r] = IF tail THEN [q \in Ranks |-> 0] ELSE @]
      BY <1>1, StepAt DEF Reset
    <2> QED BY <1>0, <1>1, <2>1
  <1>2. CASE pc[r] = "signal" /\ \E q \in Ranks : SignalPeer(r, q)
    <2>1. PICK p \in Ranks : SignalPeer(r, p)
      BY <1>2
    <2>2. /\ p \notin signalled[r]
          /\ slots' = [slots EXCEPT ![p][r] = IF tail_addrs[r] THEN @ + 1 ELSE @]
          /\ signalled' = [signalled EXCEPT ![r] = @ \union {p}]
      BY <2>1 DEF SignalPeer
    <2>3. slots[p][r] = 0
      BY <1>2, <2>2 DEF SlotInv
    <2>4. call[p] = call[r]
      <3>1. call[p] \in {call[r], call[r] + 1}
        BY <1>2, PastFirst DEF Behind
      <3>2. ~ Late(r, p)
        BY <1>2, <2>2 DEF Late, LatePlaces
      <3>3. call[r] # call[p] - 1
        BY <3>2, Neighbours DEF StepInv
      <3> QED BY <3>1, <3>3, Counts DEF StepInv
    <2>5. slots' \in [Ranks -> [Ranks -> {0, 1}]]
      BY <1>0, <2>2, <2>3
    <2>6. /\ \A a, q \in Ranks : a # p \/ q # r => slots'[a][q] = slots[a][q]
          /\ slots'[p][r] \in {0, 1} /\ p \in signalled'[r]
      BY <1>0, <2>2, <2>5
    <2> QED BY <1>2, <2>2, <2>3, <2>4, <2>5, <2>6
  <1>3. CASE pc[r] = "signal" /\ ~ \E q \in Ranks : SignalPeer(r, q)
    <2>1. slots' = slots
      <3>1. K3Step(r)
        BY <1>3, StepAt
      <3>2. \A i : ~ StoreTile(r, i) /\ ~ CountTile(r, i)
        BY <1>3 DEF StoreTile, CountTile
      <3>3. TailReduce(r) \/ EndTail(r)
        BY <1>3, <3>1, <3>2 DEF K3Step
      <3> QED BY <3>3 DEF TailReduce, EndTail, sym
    <2> QED BY <1>0, <1>3, <2>1
  <1>4. CASE pc[r] \notin {"reset", "signal"}
    <2>1. slots' = slots
      BY <1>4, StepFrame DEF StepInv
    <2> QED BY <1>0, <1>4, <2>1
  <1> QED BY <1>1, <1>2, <1>3, <1>4

LEMMA StepSlots ==
  ASSUME StepInv, SlotInv, IInv, NEW r \in Ranks, RankStep(r)
  PROVE  SlotInv'
  <1> USE DEF StepInv
  <1>0. /\ signalled \in [Ranks -> SUBSET Ranks] /\ signalled' \in [Ranks -> SUBSET Ranks]
        /\ slots \in [Ranks -> [Ranks -> {0, 1}]] /\ slots' \in [Ranks -> [Ranks -> {0, 1}]]
        /\ tail' = tail
    BY SlotSteps, SignalledGrow, StepOthers DEF SlotInv
  <1>1. ASSUME NEW p \in Ranks, NEW q \in Ranks, pc'[q] = "signal", p \notin signalled'[q]
        PROVE  slots'[p][q] = 0
    <2>1. slots[p][q] = 0
      <3>1. CASE pc[q] = "signal"
        <4>1. p \notin signalled[q]
          BY <1>1, <3>1, SignalledGrow DEF SlotInv
        <4> QED BY <3>1, <4>1 DEF SlotInv
      <3>2. CASE pc[q] # "signal"
        <4>1. q = r /\ pc[q] = "k3"
          BY <1>1, <3>2, StepOthers, PlaceBefore
        <4>2. tail
          <5>1. InCall(r) /\ pc'[r] = "signal"
            BY <1>1, <4>1, StepOthers
          <5> QED BY <4>1, <5>1, InCallPlaces, <1>0 DEF PlaceInv
        <4>3. call[p] = call[q] /\ pc[p] \notin {"reset", "draw", "fused1", "host"}
          BY <4>1, Together DEF Work
        <4>4. pc[p] \in Resetted
          <5>1. /\ pc[q] \in FusedPlaces <=> plan[call[q]] = "fused"
                /\ pc[p] \in FusedPlaces <=> plan[call[p]] = "fused"
                /\ pc[p] \in {"draw2", "await2", "agree2", "reduce"} => ~ tail
                /\ pc[p] \in Locations
            BY <4>1, <4>3 DEF PlaceInv, Path
          <5> QED BY <4>1, <4>2, <4>3, <5>1 DEF Resetted, FusedPlaces, Locations
        <4>5. ~ Signalled(q, p)
          BY <4>1, <4>3, Counts DEF Signalled
        <4>6. slots[p][q] # 1
          BY <4>2, <4>4, <4>5 DEF SlotInv
        <4> QED BY <1>0, <4>6
      <3> QED BY <3>1, <3>2
    <2> QED BY <1>0, <1>1, <2>1, SlotSteps
  <1>2. ASSUME NEW p \in Ranks, NEW q \in Ranks, tail, pc'[p] \in Resetted, slots'[p][q] = 1
        PROVE  Signalled(q, p)'
    <2>1. CASE slots[p][q] = 1
      <3>1. pc[p] # "reset" \/ p # r
        BY <1>2, SlotSteps
      <3>2. pc[p] \in Resetted /\ (p # r \/ pc[r] # "host")
        <4>1. CASE p # r
          BY <1>2, <4>1, StepOthers
        <4>2. CASE p = r
          <5>1. pc[r] # "host"
            BY <1>2, <4>2, StepOthers DEF Resetted
          <5>2. InCall(r)
            BY <5>1, StepOthers
          <5> QED BY <1>2, <3>1, <4>2, <5>1, <5>2, PlaceBefore DEF Resetted
        <4> QED BY <4>1, <4>2
      <3>3. Signalled(q, p)
        BY <1>2, <2>1, <3>2 DEF SlotInv
      <3> QED BY <1>0, <3>2, <3>3, SignalledStays
    <2>2. CASE slots[p][q] # 1
      <3>1. q = r /\ pc[r] = "signal" /\ p \in signalled'[r] /\ call[p] = call[r]
        BY <1>2, <2>2, SlotSteps
      <3>2. pc'[r] = "signal" \/ pc'[r] = "host"
        BY <3>1, StepOthers, PlaceBefore
      <3>3. call' = call
        BY <3>1, StepOthers
      <3> QED BY <3>1, <3>2, <3>3 DEF Signalled
    <2> QED BY <2>1, <2>2
  <1>3. ASSUME NEW q \in Ranks, pc'[q] = "k3"
        PROVE  signalled'[q] = {}
    <2>1. CASE q = r
      <3>1. pc[r] \in {"quant", "k3"}
        BY <1>3, <2>1, StepOthers, PlaceBefore
      <3>2. CASE pc[r] = "quant"
        BY <2>1, <3>2, <1>0, SignalledGrow
      <3>3. CASE pc[r] = "k3"
        BY <2>1, <3>3, StepFrame DEF SlotInv
      <3> QED BY <3>1, <3>2, <3>3
    <2>2. CASE q # r
      BY <1>0, <1>3, <2>2, StepOthers, SignalledGrow DEF SlotInv
    <2> QED BY <2>1, <2>2
  <1> QED BY <1>0, <1>1, <1>2, <1>3 DEF SlotInv

-----------------------------------------------------------------------------
(* The reduction, the counts and the flag.                                  *)

LEMMA StepReduce ==
  ASSUME StepInv, SlotInv, ReduceInv, NEW r \in Ranks, RankStep(r)
  PROVE  ReduceInv'
  <1> USE DEF StepInv
  <1>0. call \in [Ranks -> Nat] /\ tail' = tail /\ DOMAIN y = Ranks
    BY PlanFacts, StepOthers DEF ReduceInv
  <1>1. CASE y' # y
    <2>1. /\ pc[r] \in {"k3", "signal", "reduce", "fusedReduce"}
          /\ y' = [y EXCEPT ![r] = Reduced(r)]
          /\ tail /\ pc[r] \in {"k3", "signal"} =>
               pc' = pc /\ \A q \in Ranks : slots[r][q] >= 1
      <3>1. pc[r] \in {"k3", "signal", "reduce", "fusedReduce"}
        BY <1>1, StepFrame
      <3>2. CASE pc[r] = "reduce"
        BY <3>2, StepAt DEF ReduceLocal
      <3>3. CASE pc[r] = "fusedReduce"
        BY <3>3, StepAt DEF FusedReduce
      <3>4. CASE pc[r] \in {"k3", "signal"}
        <4>1. TailReduce(r)
          <5>1. EndStores(r) \/ K3Step(r)
            BY <3>4, StepAt
          <5>2. ~ EndStores(r) /\ ~ EndTail(r)
            BY <1>1 DEF EndStores, EndTail
          <5>3. \A i : ~ StoreTile(r, i) /\ ~ CountTile(r, i) /\ ~ SignalPeer(r, i)
            BY <1>1 DEF StoreTile, CountTile, SignalPeer
          <5> QED BY <5>1, <5>2, <5>3 DEF K3Step
        <4> QED BY <3>4, <4>1 DEF TailReduce
      <3> QED BY <3>1, <3>2, <3>3, <3>4
    <2>2. /\ y'[r].call = call[r] /\ \A q \in Ranks \ {r} : y'[q] = y[q]
          /\ DOMAIN y' = Ranks
      BY <1>0, <2>1 DEF Reduced
    <2>3. call' = call /\ \A q \in Ranks \ {r} : pc'[q] = pc[q]
      BY <2>1, StepOthers
    <2>4. pc'[r] \notin Early
      <3>1. InCall(r)
        BY <2>1, StepOthers
      <3> QED BY <2>1, <3>1, PlaceBefore DEF Early
    <2>5. \A q \in Ranks : y'[q].call \in 0 .. call[q] /\ (pc'[q] \in Early => y'[q].call < call[q])
      BY <1>0, <2>2, <2>3, <2>4 DEF ReduceInv
    <2>6. ASSUME NEW p \in Ranks, NEW q \in Ranks,
                 tail, pc'[p] \in {"k3", "signal"}, y'[p].call = call[p]
          PROVE  Signalled(q, p)'
      <3>1. CASE p = r
        <4>1. pc[r] \in {"k3", "signal"}
          <5>1. InCall(r)
            BY <2>1, StepOthers
          <5> QED BY <2>1, <2>6, <3>1, <5>1, PlaceBefore
        <4>2. slots[r][q] = 1
          BY <2>1, <2>6, <4>1 DEF SlotInv
        <4>3. Signalled(q, r)
          BY <2>6, <4>1, <4>2 DEF SlotInv, Resetted
        <4> QED BY <3>1, <4>1, <4>3, SignalledStays DEF SlotInv
      <3>2. CASE p # r
        <4>1. Signalled(q, p)
          BY <2>2, <2>3, <2>6, <3>2 DEF ReduceInv
        <4> QED BY <3>2, <4>1, SignalledStays DEF SlotInv
      <3> QED BY <3>1, <3>2
    <2> QED BY <1>0, <2>2, <2>3, <2>5, <2>6 DEF ReduceInv
  <1>2. CASE y' = y
    <2>1. \A q \in Ranks : y[q].call \in 0 .. call'[q] /\ (pc'[q] \in Early => y[q].call < call'[q])
      <3> SUFFICES ASSUME NEW q \in Ranks
                   PROVE  y[q].call \in 0 .. call'[q] /\ (pc'[q] \in Early => y[q].call < call'[q])
        OBVIOUS
      <3>1. y[q].call \in 0 .. call[q] /\ (pc[q] \in Early => y[q].call < call[q])
        BY DEF ReduceInv
      <3>2. CASE q # r
        BY <3>1, <3>2, StepOthers
      <3>3. CASE q = r /\ pc[r] = "host"
        BY <1>0, <3>1, <3>3, StepOthers
      <3>4. CASE q = r /\ pc[r] # "host"
        <4>1. pc'[r] \in Early => pc[r] \in Early
          BY <3>4, StepOthers, PlaceBefore DEF Early
        <4> QED BY <3>1, <3>4, <4>1, StepOthers
      <3> QED BY <3>2, <3>3, <3>4
    <2>2. ASSUME NEW p \in Ranks, NEW q \in Ranks,
                 tail, pc'[p] \in {"k3", "signal"}, y[p].call = call'[p]
          PROVE  Signalled(q, p)'
      <3>1. pc[p] \in {"k3", "signal"} /\ call'[p] = call[p]
        <4>1. CASE p # r
          BY <2>2, <4>1, StepOthers
        <4>2. CASE p = r /\ pc[r] # "host"
          <5>1. pc[r] # "quant"
            BY <1>0, <2>2, <4>2, StepOthers DEF ReduceInv, Early
          <5> QED BY <2>2, <4>2, <5>1, StepOthers, PlaceBefore
        <4>3. CASE p = r /\ pc[r] = "host"
          BY <2>2, <4>3, StepOthers
        <4> QED BY <4>1, <4>2, <4>3
      <3>2. Signalled(q, p)
        BY <2>2, <3>1 DEF ReduceInv
      <3> QED BY <3>1, <3>2, SignalledStays DEF SlotInv
    <2> QED BY <1>0, <1>2, <2>1, <2>2 DEF ReduceInv
  <1> QED BY <1>1, <1>2

(* The inputs of a call.                                                    *)
LEMMA InputFacts ==
  ASSUME PlaceInv, NEW c \in 1 .. Len(plan), NEW q \in Ranks
  PROVE  /\ batch[c][q] \in Seq(Ranks) /\ Len(batch[c][q]) \in 0 .. MaxTokens
         /\ \A t \in 1 .. Len(batch[c][q]) : t \in 1 .. MaxTokens /\ batch[c][q][t] \in Ranks
  <1>1. batch[c] \in Inputs
    BY DEF PlaceInv
  <1>2. batch[c][q] \in Seq(Ranks) /\ Len(batch[c][q]) <= MaxTokens /\ MaxTokens \in Nat
    BY <1>1, InputsAssumption
  <1> QED BY <1>2

LEMMA CallFacts ==
  ASSUME PlaceInv, NEW q \in Ranks, call[q] >= 1
  PROVE  /\ call[q] \in 1 .. Len(plan) /\ Input(q) \in Seq(Ranks)
         /\ Len(Input(q)) \in 0 .. MaxTokens
         /\ \A t \in 1 .. Len(Input(q)) : t \in 1 .. MaxTokens /\ Input(q)[t] \in Ranks
  <1>1. call[q] \in 1 .. Len(plan)
    BY PlanFacts DEF PlaceInv
  <1> QED BY <1>1, InputFacts DEF Input

LEMMA StepPublish ==
  ASSUME StepInv, PublishInv, NEW r \in Ranks, RankStep(r)
  PROVE  PublishInv'
  <1> USE DEF StepInv
  <1>1. CASE pc[r] = "reset"
    <2>1. num_tokens' = [num_tokens EXCEPT ![r] = Len(Input(r))]
      BY <1>1, StepAt DEF Reset
    <2>2. call' = call /\ batch' = batch /\ \A q \in Ranks \ {r} : pc'[q] = pc[q]
      BY <1>1, StepOthers
    <2>3. Len(Input(r)) \in 0 .. MaxTokens
      BY <1>1, CallFacts DEF PlaceInv
    <2> QED BY <2>1, <2>2, <2>3 DEF PublishInv, Input
  <1>2. CASE pc[r] \in {"fused1", "fused2", "fused3"}
    <2>1. num_tokens' = [num_tokens EXCEPT ![r] = IF pc[r] = "fused1" THEN Len(Input(r)) ELSE @]
      BY <1>2, StepAt DEF FusedEnter
    <2>2. call' = call /\ batch' = batch /\ \A q \in Ranks \ {r} : pc'[q] = pc[q]
      BY <1>2, StepOthers
    <2>3. Len(Input(r)) \in 0 .. MaxTokens
      BY <1>2, CallFacts DEF PlaceInv
    <2> QED BY <1>2, <2>1, <2>2, <2>3 DEF PublishInv, Input
  <1>3. CASE pc[r] \notin {"reset", "fused1", "fused2", "fused3"}
    <2>1. num_tokens' = num_tokens /\ batch' = batch
      BY <1>3, StepFrame, StepOthers
    <2>2. ASSUME NEW q \in Ranks, pc'[q] \notin {"reset", "fused1"}
          PROVE  call'[q] = call[q] /\ pc[q] \notin {"reset", "fused1"}
      BY <1>3, <2>2, StepOthers
    <2> QED BY <2>1, <2>2 DEF PublishInv, Input
  <1> QED BY <1>1, <1>2, <1>3

LEMMA StepUniform ==
  ASSUME StepInv, PublishInv, UniformInv, IInv, NEW r \in Ranks, RankStep(r)
  PROVE  UniformInv'
  <1> USE DEF StepInv
  <1>1. CASE pc[r] \in {"agree", "agree2"}
    <2>1. uniform' = [uniform EXCEPT ![r] = \A s \in Ranks : num_tokens[s] = num_tokens[r]]
      BY <1>1, StepAt DEF Agree
    <2>2. call' = call /\ batch' = batch /\ \A q \in Ranks \ {r} : pc'[q] = pc[q]
      BY <1>1, StepOthers
    <2>3. uniform' \in [Ranks -> BOOLEAN]
      BY <2>1 DEF UniformInv
    <2>4. ASSUME pc[r] = "agree"
          PROVE  uniform'[r] <=> \A s \in Ranks : Len(batch[call[r]][s]) = Len(batch[call[r]][r])
      <3>1. \A s \in Ranks : call[s] = call[r] /\ pc[s] \notin {"reset", "fused1"}
        BY <2>4, Together DEF Work
      <3>2. call[r] >= 1
        BY <2>4 DEF PlaceInv
      <3>3. \A s \in Ranks : num_tokens[s] = Len(batch[call[r]][s])
        BY <3>1, <3>2 DEF PublishInv, Input
      <3> QED BY <2>1, <3>3 DEF UniformInv
    <2>5. pc[r] = "agree2" => pc'[r] = "reduce"
      BY <1>1, StepOthers, PlaceBefore
    <2> QED BY <1>1, <2>1, <2>2, <2>3, <2>4, <2>5 DEF UniformInv, Working
  <1>2. CASE pc[r] \notin {"agree", "agree2"}
    <2>1. uniform' = uniform /\ batch' = batch
      BY <1>2, StepFrame, StepOthers
    <2>2. ASSUME NEW q \in Ranks, pc'[q] \in {"count", "emit"} \union Working
          PROVE  call'[q] = call[q] /\ pc[q] \in {"count", "emit"} \union Working
      <3>1. CASE q # r
        BY <2>2, <3>1, StepOthers
      <3>2. CASE q = r
        <4>1. pc[r] # "host"
          BY <2>2, <3>2, StepOthers DEF Working
        <4> QED BY <1>2, <2>2, <3>2, <4>1, StepOthers, PlaceBefore DEF Working
      <3> QED BY <3>1, <3>2
    <2> QED BY <2>1, <2>2 DEF UniformInv
  <1> QED BY <1>1, <1>2

-----------------------------------------------------------------------------
(* Products, quotients and the rows of a set of routes.                     *)

LEMMA TimesLess ==
  ASSUME NEW n \in Nat, NEW a \in Int, NEW b \in Int, a < b
  PROVE  a * n + n <= b * n
  <1>1. b - a - 1 \in Nat
    OBVIOUS
  <1>2. (b - a - 1) * n \in Nat
    BY <1>1
  <1>3. (b - a - 1) * n = b * n - a * n - n
    OBVIOUS
  <1> QED BY <1>2, <1>3

(* A quotient is below a bound when the dividend is.                        *)
LEMMA DivBelow ==
  ASSUME NEW n \in Nat \ {0}, NEW a \in Nat, NEW m \in Nat, a < m * n
  PROVE  a \div n \in 0 .. m - 1
  <1>1. a \div n \in Nat /\ a % n \in 0 .. n - 1 /\ a = (a \div n) * n + (a % n)
    BY DivMod
  <1>2. ASSUME m < a \div n + 1 PROVE FALSE
    <2>1. m = a \div n \/ m < a \div n
      BY <1>1, <1>2
    <2>2. CASE m = a \div n
      <3>1. m * n <= a
        BY <1>1, <2>2
      <3>2. m * n \in Nat
        OBVIOUS
      <3> QED BY <3>1, <3>2
    <2>3. CASE m < a \div n
      <3>1. m * n + n <= (a \div n) * n
        BY <1>1, <2>3, TimesLess
      <3>2. m * n \in Nat /\ (a \div n) * n \in Nat
        BY <1>1
      <3> QED BY <1>1, <3>1, <3>2
    <2> QED BY <2>1, <2>2, <2>3
  <1> QED BY <1>1, <1>2

LEMMA CeilDivHolds ==
  ASSUME NEW n \in Nat \ {0}, NEW a \in Nat
  PROVE  CeilDiv(a, n) \in Nat /\ a <= CeilDiv(a, n) * n
  <1> DEFINE b == a + n - 1
             q == CeilDiv(a, n)
  <1>1. b \in Nat /\ q = b \div n
    BY DEF CeilDiv
  <1>2. q \in Nat /\ b % n \in 0 .. n - 1 /\ b = q * n + (b % n)
    <2> HIDE DEF b, q
    <2> QED BY <1>1, DivMod
  <1> HIDE DEF q
  <1>3. q * n \in Nat
    BY <1>2
  <1>4. b <= q * n + n - 1
    BY <1>2, <1>3
  <1> QED BY <1>2, <1>3, <1>4 DEF q

LEMMA RowsFinite ==
  /\ IsFiniteSet(Rows)
  /\ \A S \in SUBSET Rows : IsFiniteSet(S) /\ Cardinality(S) \in Nat
  <1>1. IsFiniteSet(Ranks) /\ IsFiniteSet(1 .. MaxTokens)
    BY NumRanksAssumption, InputsAssumption, FS_Interval DEF Ranks
  <1>2. IsFiniteSet(Rows)
    BY <1>1, FS_Product DEF Rows
  <1> QED BY <1>2, FS_Subset, FS_CardinalityType

(* Laid gives every route of the set one row.                               *)
LEMMA LaidRows ==
  ASSUME NEW S \in SUBSET Rows
  PROVE  Laid(S) \in Seq(Rows) /\ Len(Laid(S)) = Cardinality(S) /\ ToSet(Laid(S)) = S
  <1> DEFINE n == Cardinality(S)
             Before(x) == {z \in S : Precedes(z, x)}
             rank == [x \in S |-> Cardinality(Before(x)) + 1]
  <1>1. IsFiniteSet(S) /\ n \in Nat
    BY RowsFinite
  <1>2. \A x, z \in Rows : /\ ~ Precedes(x, x)
                           /\ x # z => Precedes(x, z) \/ Precedes(z, x)
    BY DEF Precedes, Rows, Ranks
  <1>3. \A x, z, w \in Rows : Precedes(w, z) /\ Precedes(z, x) => Precedes(w, x)
    BY DEF Precedes, Rows, Ranks
  <1>4. \A x \in S : /\ IsFiniteSet(Before(x)) /\ Cardinality(Before(x)) \in 0 .. n - 1
    <2> TAKE x \in S
    <2>1. Before(x) \subseteq S \ {x}
      BY <1>2
    <2>2. IsFiniteSet(S \ {x}) /\ Cardinality(S \ {x}) = n - 1
      BY <1>1, FS_RemoveElement
    <2>3. IsFiniteSet(Before(x)) /\ Cardinality(Before(x)) <= n - 1
      BY <2>1, <2>2, FS_Subset
    <2>4. Cardinality(Before(x)) \in Nat
      BY <2>3, FS_CardinalityType
    <2> QED BY <1>1, <2>3, <2>4
  <1>5. ASSUME NEW x \in S, NEW z \in S, Precedes(z, x)
        PROVE  Cardinality(Before(z)) < Cardinality(Before(x))
    <2>1. Before(z) \subseteq Before(x) /\ z \in Before(x) /\ z \notin Before(z)
      BY <1>2, <1>3, <1>5
    <2>2. Cardinality(Before(z)) <= Cardinality(Before(x)) /\ Cardinality(Before(z)) # Cardinality(Before(x))
      <3> HIDE DEF Before
      <3> QED BY <1>4, <2>1, FS_Subset
    <2> HIDE DEF Before
    <2> QED BY <1>1, <1>4, <2>2
  <1>6. rank \in [S -> 1 .. n]
    BY <1>1, <1>4
  <1>7. \A x, z \in S : rank[x] = rank[z] => x = z
    <2> SUFFICES ASSUME NEW x \in S, NEW z \in S, x # z
                 PROVE  rank[x] # rank[z]
      OBVIOUS
    <2>1. Precedes(x, z) \/ Precedes(z, x)
      BY <1>2
    <2> HIDE DEF Before
    <2>2. Cardinality(Before(x)) # Cardinality(Before(z))
      BY <1>1, <1>4, <1>5, <2>1
    <2> QED BY <1>1, <1>4, <2>2
  <1>8. \A k \in 1 .. n : \E x \in S : rank[x] = k
    <2> HIDE DEF Before, rank
    <2>1. rank \in Injection(S, 1 .. n)
      BY <1>6, <1>7 DEF Injection, IsInjective
    <2>2. IsFiniteSet(1 .. n) /\ Cardinality(1 .. n) = n
      BY <1>1, FS_Interval
    <2>3. rank \in Surjection(S, 1 .. n)
      BY <2>1, <2>2, FS_Injection
    <2> QED BY <2>3 DEF Surjection
  <1>9. \A k \in 1 .. n : Laid(S)[k] \in S /\ rank[Laid(S)[k]] = k
    <2> TAKE k \in 1 .. n
    <2>1. \E x \in S : Cardinality(Before(x)) = k - 1
      <3>1. PICK x \in S : rank[x] = k
        BY <1>8
      <3> HIDE DEF Before
      <3>2. Cardinality(Before(x)) \in Int /\ rank[x] = Cardinality(Before(x)) + 1
        BY <1>1, <1>4
      <3> HIDE DEF rank
      <3> QED BY <3>1, <3>2
    <2>2. Laid(S)[k] = CHOOSE x \in S : Cardinality(Before(x)) = k - 1
      BY DEF Laid
    <2>3. Laid(S)[k] \in S /\ Cardinality(Before(Laid(S)[k])) = k - 1
      <3> HIDE DEF Before
      <3> QED BY <2>1, <2>2
    <2> QED BY <2>3
  <1>10. DOMAIN Laid(S) = 1 .. n
    BY DEF Laid
  <1>11. Laid(S) \in Seq(Rows) /\ Len(Laid(S)) = n
    <2> DEFINE At(k) == CHOOSE x \in S : Cardinality(Before(x)) = k - 1
    <2>1. Laid(S) = [k \in 1 .. n |-> At(k)]
      BY DEF Laid
    <2> HIDE DEF rank, n, At
    <2>2. \A k \in 1 .. n : At(k) \in Rows
      BY <1>9, <2>1
    <2> QED BY <1>1, <2>1, <2>2
  <1>12. \A x \in S : \E k \in 1 .. n : Laid(S)[k] = x
    <2> TAKE x \in S
    <2> HIDE DEF rank
    <2>1. rank[x] \in 1 .. n
      BY <1>6
    <2>2. Laid(S)[rank[x]] \in S /\ rank[Laid(S)[rank[x]]] = rank[x]
      BY <1>9, <2>1
    <2> QED BY <1>7, <2>1, <2>2
  <1> QED
    <2> HIDE DEF rank
    <2> QED BY <1>9, <1>10, <1>11, <1>12 DEF ToSet

-----------------------------------------------------------------------------
(* K1: routes, rows and activations.                                        *)

(* What the kernels read of the peers' routes is all that the call has.     *)
LEMMA RoutesSeen ==
  ASSUME StepInv, PublishInv, IInv, NEW r \in Ranks, pc[r] \in {"count", "emit", "fusedWork"}
  PROVE  RoutesTo(r) = RoutesOf(call[r], r)
  <1> USE DEF StepInv
  <1>1. call[r] \in 1 .. Len(plan) /\ call[r] >= 1
    BY CallFacts DEF PlaceInv
  <1>2. ASSUME NEW s \in Ranks
        PROVE  /\ Input(s) = batch[call[r]][s]
               /\ RoutesFrom(r, s) = {<<s, t>> : t \in {u \in 1 .. Len(Input(s)) : Input(s)[u] = r}}
    <2>1. call[s] = call[r] /\ pc[s] \notin {"reset", "fused1"}
      BY Together DEF Work, FusedAtWork
    <2>2. num_tokens[s] = Len(Input(s)) /\ Len(Input(s)) \in 0 .. MaxTokens
      BY <1>1, <2>1, CallFacts DEF PublishInv
    <2>3. SmallerOf(num_tokens[s], Len(Input(s))) = Len(Input(s))
      BY <2>2 DEF SmallerOf
    <2> QED BY <2>1, <2>3 DEF RoutesFrom, Input
  <1>3. \A s \in Ranks : \A t \in 1 .. Len(Input(s)) : t \in 1 .. MaxTokens
    BY <1>1, <1>2, InputFacts
  <1>4. ASSUME NEW x \in RoutesTo(r)
        PROVE  x \in RoutesOf(call[r], r)
    <2>1. PICK s \in Ranks : x \in RoutesFrom(r, s)
      BY DEF RoutesTo
    <2>2. PICK t \in 1 .. Len(Input(s)) : Input(s)[t] = r /\ x = <<s, t>>
      BY <1>2, <2>1
    <2>3. x \in Ranks \X (1 .. MaxTokens)
      BY <1>3, <2>2
    <2>4. x[1] = s /\ x[2] = t /\ t <= Len(Input(s)) /\ Input(s) = batch[call[r]][s]
      BY <1>2, <2>2
    <2> QED BY <2>2, <2>3, <2>4 DEF RoutesOf
  <1>5. ASSUME NEW x \in RoutesOf(call[r], r)
        PROVE  x \in RoutesTo(r)
    <2>1. /\ x \in Ranks \X (1 .. MaxTokens)
          /\ x[2] <= Len(batch[call[r]][x[1]]) /\ batch[call[r]][x[1]][x[2]] = r
      BY DEF RoutesOf
    <2>2. PICK s \in Ranks, t \in 1 .. MaxTokens : x = <<s, t>>
      BY <2>1
    <2>3. t <= Len(Input(s)) /\ Input(s)[t] = r
      BY <1>2, <2>1, <2>2
    <2>4. Len(Input(s)) \in Nat /\ MaxTokens \in Nat
      BY <1>1, <1>2, InputFacts, InputsAssumption
    <2>5. t \in 1 .. Len(Input(s))
      BY <2>3, <2>4
    <2>6. x \in RoutesFrom(r, s)
      BY <1>2, <2>2, <2>3, <2>5
    <2> QED BY <2>6 DEF RoutesTo
  <1> QED BY <1>4, <1>5

LEMMA RoutesOfRows ==
  ASSUME NEW c, NEW r
  PROVE  /\ RoutesOf(c, r) \subseteq Rows /\ IsFiniteSet(RoutesOf(c, r))
         /\ Cardinality(RoutesOf(c, r)) \in Nat
  <1>1. RoutesOf(c, r) \subseteq Rows
    BY DEF RoutesOf, Rows
  <1> QED BY <1>1, RowsFinite

(* The capacity and the tiles of K3 depend on the call, and on the active   *)
(* tiles.                                                                   *)
LEMMA CapacityType ==
  ASSUME PlaceInv, NEW r \in Ranks, call[r] >= 1
  PROVE  CapacityTiles(r) \in Nat
  <1>1. Estimate(r) \in Nat
    <2>1. Len(Input(r)) \in Nat /\ MaxTokens \in Nat /\ NumRanks \in Nat
      BY CallFacts, InputsAssumption, NumRanksAssumption
    <2> DEFINE n == IF Path(r) = "graph" \/ Input(r) = <<>> THEN MaxTokens ELSE Len(Input(r))
    <2>2. n \in Nat
      BY <2>1
    <2> HIDE DEF n
    <2>3. NumRanks * n \in Nat
      BY <2>1, <2>2
    <2> QED BY <2>3 DEF Estimate, n
  <1>2. CeilDiv(Estimate(r), NumRanks) \in Nat
    BY <1>1, CeilDivHolds, NumRanksAssumption
  <1>3. LargerOf(TileM, CeilDiv(Estimate(r), NumRanks) + CapacitySlack) \in Nat
    BY <1>2, InputsAssumption DEF LargerOf
  <1> QED BY <1>3, CeilDivHolds, InputsAssumption DEF CapacityTiles

LEMMA CapacityStays ==
  ASSUME PlaceInv, NEW r \in Ranks, RankStep(r), NEW q \in Ranks, q # r \/ pc[r] # "host"
  PROVE  /\ call'[q] = call[q] /\ Path(q)' = Path(q) /\ Input(q)' = Input(q)
         /\ CapacityTiles(q)' = CapacityTiles(q)
         /\ active_tiles'[q] = active_tiles[q] => K3Tiles(q)' = K3Tiles(q)
  <1>1. call'[q] = call[q] /\ plan' = plan /\ batch' = batch
    BY StepOthers
  <1>2. Path(q)' = Path(q) /\ Input(q)' = Input(q)
    BY <1>1 DEF Path, Input
  <1>3. CapacityTiles(q)' = CapacityTiles(q)
    BY <1>2 DEF CapacityTiles, Estimate
  <1> QED BY <1>1, <1>2, <1>3 DEF K3Tiles

(* The rows that K1 emits lie in the tiles that K3 runs.                    *)
LEMMA EmittedRows ==
  ASSUME StepInv, PublishInv, RowsInv, IInv, NEW r \in Ranks, pc[r] = "emit", EmitRoutes(r)
  PROVE  \E kept \in SUBSET RoutesOf(call[r], r) :
           /\ rows' = [rows EXCEPT ![r] = Laid(kept)]
           /\ Laid(kept) \in Seq(Rows)
           /\ ToSet(Laid(kept)) = kept
           /\ Cardinality(kept) =
                SmallerOf(Cardinality(RoutesOf(call[r], r)), active_tiles[r] * TileM)
           /\ \A k \in DOMAIN Laid(kept) : (k - 1) \div TileM \in K3Tiles(r)
  <1> USE DEF StepInv
  <1>1. RoutesTo(r) = RoutesOf(call[r], r)
    BY RoutesSeen
  <1>2. PICK kept \in SUBSET RoutesTo(r) :
          /\ Cardinality(kept) = SmallerOf(Cardinality(RoutesTo(r)), active_tiles[r] * TileM)
          /\ rows' = [rows EXCEPT ![r] = Laid(kept)]
    BY DEF EmitRoutes
  <1>3. kept \in SUBSET Rows
    BY <1>1, <1>2, RoutesOfRows
  <1>4. Laid(kept) \in Seq(Rows) /\ Len(Laid(kept)) = Cardinality(kept) /\ ToSet(Laid(kept)) = kept
    BY <1>3, LaidRows
  <1>5. /\ active_tiles[r] \in Nat /\ TileM \in Nat \ {0} /\ Cardinality(kept) \in Nat
        /\ Cardinality(RoutesTo(r)) \in Nat /\ CapacityTiles(r) \in Nat
    BY <1>1, <1>3, RowsFinite, RoutesOfRows, InputsAssumption, CapacityType DEF RowsInv, PlaceInv
  <1>6. Cardinality(kept) <= active_tiles[r] * TileM
    <2>1. active_tiles[r] * TileM \in Nat
      BY <1>5
    <2> QED BY <1>2, <1>5, <2>1 DEF SmallerOf
  <1>7. active_tiles[r] <= CapacityTiles(r)
    <2>1. active_tiles[r] = SmallerOf(CeilDiv(Cardinality(RoutesTo(r)), TileM), CapacityTiles(r))
      BY <1>1 DEF RowsInv
    <2>2. CeilDiv(Cardinality(RoutesTo(r)), TileM) \in Nat
      BY <1>5, CeilDivHolds
    <2> QED BY <1>5, <2>1, <2>2 DEF SmallerOf
  <1>8. ASSUME NEW k \in DOMAIN Laid(kept)
        PROVE  (k - 1) \div TileM \in K3Tiles(r)
    <2>1. k \in 1 .. Cardinality(kept)
      BY <1>4, <1>5
    <2>2. k - 1 \in Nat /\ k - 1 < active_tiles[r] * TileM
      <3>1. active_tiles[r] * TileM \in Nat
        BY <1>5
      <3> QED BY <1>5, <1>6, <2>1, <3>1
    <2>3. (k - 1) \div TileM \in 0 .. active_tiles[r] - 1
      BY <1>5, <2>2, DivBelow
    <2> QED BY <1>5, <1>7, <2>3 DEF K3Tiles, LargerOf
  <1> QED BY <1>1, <1>2, <1>4, <1>8

LEMMA StepRows ==
  ASSUME StepInv, PublishInv, RowsInv, IInv, NEW r \in Ranks, RankStep(r)
  PROVE  RowsInv'
  <1> USE DEF StepInv
  <1>1. CASE pc[r] = "count"
    <2>1. /\ active_tiles' = [active_tiles EXCEPT ![r] =
                SmallerOf(CeilDiv(Cardinality(RoutesTo(r)), TileM), CapacityTiles(r))]
          /\ rows' = [rows EXCEPT ![r] = <<>>]
          /\ pc' = [pc EXCEPT ![r] = "emit"]
      BY <1>1, StepAt DEF CountRoutes, Go
    <2>2. RoutesTo(r) = RoutesOf(call[r], r) /\ Cardinality(RoutesOf(call[r], r)) \in Nat
      BY <1>1, RoutesSeen, RoutesOfRows
    <2> DEFINE a == SmallerOf(CeilDiv(Cardinality(RoutesOf(call[r], r)), TileM), CapacityTiles(r))
    <2>3. a \in Nat
      <3>1. CapacityTiles(r) \in Nat
        BY <1>1, CapacityType DEF PlaceInv
      <3>2. CeilDiv(Cardinality(RoutesOf(call[r], r)), TileM) \in Nat
        BY <2>2, CeilDivHolds, InputsAssumption
      <3> QED BY <3>1, <3>2 DEF SmallerOf
    <2>4. /\ active_tiles' \in [Ranks -> Nat] /\ active_tiles'[r] = a
          /\ \A q \in Ranks \ {r} : active_tiles'[q] = active_tiles[q] /\ rows'[q] = rows[q]
          /\ rows' \in [Ranks -> Seq(Rows)]
      <3> HIDE DEF a
      <3>1. active_tiles' = [active_tiles EXCEPT ![r] = a]
        BY <2>1, <2>2 DEF a
      <3>2. <<>> \in Seq(Rows)
        OBVIOUS
      <3> QED BY <2>1, <2>3, <3>1, <3>2 DEF RowsInv
    <2> HIDE DEF a
    <2>5. ASSUME NEW o \in Ranks, pc'[o] = "emit"
          PROVE  active_tiles'[o] =
                   SmallerOf(CeilDiv(Cardinality(RoutesOf(call[o], o)'), TileM), CapacityTiles(o)')
      <3>1. RoutesOf(call[o], o)' = RoutesOf(call[o], o) /\ CapacityTiles(o)' = CapacityTiles(o)
        BY <1>1, CapacityStays, StepOthers DEF RoutesOf
      <3>2. CASE o = r
        BY <2>4, <3>1, <3>2 DEF a
      <3>3. CASE o # r
        <4>1. pc[o] = "emit" /\ active_tiles'[o] = active_tiles[o]
          BY <2>4, <2>5, <3>3, StepOthers
        <4> QED BY <3>1, <4>1 DEF RowsInv
      <3> QED BY <3>2, <3>3
    <2>6. ASSUME NEW o \in Ranks, pc'[o] \in {"l1", "quant", "k3"}, NEW k \in DOMAIN rows'[o]
          PROVE  (k - 1) \div TileM \in K3Tiles(o)'
      <3>1. o # r /\ pc[o] = pc'[o]
        BY <2>1, <2>6, StepOthers DEF PlaceInv
      <3>2. rows'[o] = rows[o] /\ K3Tiles(o)' = K3Tiles(o)
        BY <2>4, <3>1, CapacityStays
      <3> QED BY <2>6, <3>1, <3>2 DEF RowsInv
    <2> QED BY <2>4, <2>5, <2>6 DEF RowsInv
  <1>2. CASE pc[r] # "count"
    <2>1. active_tiles' = active_tiles
      BY <1>2, StepFrame
    <2>2. /\ rows' \in [Ranks -> Seq(Rows)]
          /\ \A q \in Ranks \ {r} : rows'[q] = rows[q]
          /\ pc[r] = "emit" => \A k \in DOMAIN rows'[r] : (k - 1) \div TileM \in K3Tiles(r)
          /\ pc[r] # "emit" => rows' = rows
      <3>1. CASE pc[r] = "emit"
        <4>1. EmitRoutes(r)
          BY <3>1, StepAt
        <4>2. PICK kept : /\ rows' = [rows EXCEPT ![r] = Laid(kept)]
                          /\ Laid(kept) \in Seq(Rows)
                          /\ \A k \in DOMAIN Laid(kept) : (k - 1) \div TileM \in K3Tiles(r)
          BY <3>1, <4>1, EmittedRows
        <4>3. rows \in [Ranks -> Seq(Rows)]
          BY DEF RowsInv
        <4>4. rows' \in [Ranks -> Seq(Rows)] /\ rows'[r] = Laid(kept)
              /\ \A q \in Ranks \ {r} : rows'[q] = rows[q]
          BY <4>2, <4>3
        <4> QED BY <3>1, <4>2, <4>4
      <3>2. CASE pc[r] # "emit"
        BY <1>2, <3>2, StepFrame DEF RowsInv
      <3> QED BY <3>1, <3>2
    <2>3. ASSUME NEW o \in Ranks, pc'[o] = "emit"
          PROVE  active_tiles[o] =
                   SmallerOf(CeilDiv(Cardinality(RoutesOf(call[o], o)'), TileM), CapacityTiles(o)')
      <3>1. pc[o] = "emit" /\ o # r
        BY <1>2, <2>3, StepOthers, PlaceBefore
      <3>2. RoutesOf(call[o], o)' = RoutesOf(call[o], o) /\ CapacityTiles(o)' = CapacityTiles(o)
        BY <3>1, CapacityStays, StepOthers DEF RoutesOf
      <3> QED BY <3>1, <3>2 DEF RowsInv
    <2>4. ASSUME NEW o \in Ranks, pc'[o] \in {"l1", "quant", "k3"}, NEW k \in DOMAIN rows'[o]
          PROVE  (k - 1) \div TileM \in K3Tiles(o)'
      <3>1. CASE o # r
        <4>1. rows'[o] = rows[o] /\ K3Tiles(o)' = K3Tiles(o) /\ pc'[o] = pc[o]
          BY <2>1, <2>2, <3>1, CapacityStays, StepOthers
        <4> QED BY <2>4, <4>1 DEF RowsInv
      <3>2. CASE o = r
        <4>1. pc[r] \in {"emit", "l1", "quant", "k3"}
          BY <2>4, <3>2, StepOthers, PlaceBefore
        <4>2. K3Tiles(r)' = K3Tiles(r)
          BY <2>1, <4>1, CapacityStays
        <4> QED BY <2>2, <2>4, <3>2, <4>1, <4>2 DEF RowsInv
      <3> QED BY <3>1, <3>2
    <2>5. active_tiles \in [Ranks -> Nat]
      BY DEF RowsInv
    <2> QED BY <2>1, <2>2, <2>3, <2>4, <2>5 DEF RowsInv
  <1> QED BY <1>1, <1>2

LEMMA StepActs ==
  ASSUME StepInv, RowsInv, ActInv, IInv, NEW r \in Ranks, RankStep(r)
  PROVE  ActInv'
  <1> USE DEF StepInv
  <1>1. /\ DOMAIN l1_out' = Ranks /\ DOMAIN act_fp8' = Ranks
        /\ \A q \in Ranks \ {r} : l1_out'[q] = l1_out[q] /\ act_fp8'[q] = act_fp8[q]
        /\ pc[r] = "l1" => l1_out'[r] = [k \in DOMAIN rows[r] |-> call[rows[r][k][1]]]
        /\ pc[r] = "quant" => act_fp8'[r] = l1_out[r]
        /\ pc[r] # "quant" => act_fp8' = act_fp8
    <2>1. CASE pc[r] = "l1"
      <3>1. l1_out' = [l1_out EXCEPT ![r] = [i \in DOMAIN rows[r] |-> call[rows[r][i][1]]]]
        BY <2>1, StepAt DEF PullL1
      <3> QED BY <2>1, <3>1, StepFrame DEF ActInv
    <2>2. CASE pc[r] = "quant"
      <3>1. act_fp8' = [act_fp8 EXCEPT ![r] = l1_out[r]]
        BY <2>2, StepAt DEF QuantK2
      <3> QED BY <2>2, <3>1, StepFrame DEF ActInv
    <2>3. CASE pc[r] \notin {"l1", "quant"}
      BY <2>3, StepFrame DEF ActInv
    <2> QED BY <2>1, <2>2, <2>3
  <1>2. pc[r] \notin {"count", "emit"} => rows' = rows
    BY StepFrame
  <1>3. \A q \in Ranks \ {r} : rows'[q] = rows[q]
    <2>1. CASE pc[r] = "count"
      BY <2>1, StepAt DEF CountRoutes, RowsInv
    <2>2. CASE pc[r] = "emit"
      BY <2>2, StepAt DEF EmitRoutes, RowsInv
    <2> QED BY <1>2, <2>1, <2>2
  <1>4. ASSUME NEW o \in Ranks, pc'[o] = "quant"
        PROVE  l1_out'[o] = [k \in DOMAIN rows'[o] |-> call'[o]]
    <2>1. CASE o # r
      BY <1>1, <1>3, <1>4, <2>1, StepOthers DEF ActInv
    <2>2. CASE o = r
      <3>1. pc[r] = "l1" /\ call' = call
        BY <1>4, <2>2, StepOthers, PlaceBefore
      <3>2. \A k \in DOMAIN rows[r] : call[rows[r][k][1]] = call[r]
        <4> TAKE k \in DOMAIN rows[r]
        <4>1. rows[r][k] \in Rows
          BY DEF RowsInv
        <4>2. rows[r][k][1] \in Ranks
          BY <4>1 DEF Rows
        <4> QED BY <3>1, <4>2, Together DEF Work
      <3> QED BY <1>1, <1>2, <2>2, <3>1, <3>2
    <2> QED BY <2>1, <2>2
  <1>5. ASSUME NEW o \in Ranks, pc'[o] = "k3"
        PROVE  act_fp8'[o] = [k \in DOMAIN rows'[o] |-> call'[o]]
    <2>1. CASE o # r
      BY <1>1, <1>3, <1>5, <2>1, StepOthers DEF ActInv
    <2>2. CASE o = r
      <3>1. pc[r] \in {"quant", "k3"} /\ call' = call
        BY <1>5, <2>2, StepOthers, PlaceBefore
      <3> QED BY <1>1, <1>2, <2>2, <3>1 DEF ActInv
    <2> QED BY <2>1, <2>2
  <1> QED BY <1>1, <1>4, <1>5 DEF ActInv

-----------------------------------------------------------------------------
(* K3: tiles and combine rows.                                              *)

LEMMA TilesFinite ==
  ASSUME PlaceInv, RowsInv, NEW r \in Ranks, call[r] >= 1
  PROVE  K3Tiles(r) \subseteq Nat /\ IsFiniteSet(K3Tiles(r)) /\ Cardinality(K3Tiles(r)) \in Nat
  <1> DEFINE n == IF Path(r) = "graph" THEN LargerOf(active_tiles[r], 1) ELSE CapacityTiles(r)
  <1>1. n \in Nat
    BY CapacityType DEF RowsInv, LargerOf
  <1>2. K3Tiles(r) = 0 .. n - 1
    BY DEF K3Tiles
  <1> HIDE DEF n
  <1> QED BY <1>1, <1>2, FS_Interval, FS_CardinalityType

(* A step in K3 is one of these.                                            *)
LEMMA InK3 ==
  ASSUME NEW r \in Ranks, RankStep(r), pc[r] = "k3"
  PROVE  \/ \E i \in K3Tiles(r) : StoreTile(r, i)
         \/ \E i \in K3Tiles(r) : CountTile(r, i)
         \/ TailReduce(r) \/ EndStores(r)
  <1>1. ~ EndTail(r) /\ \A q : ~ SignalPeer(r, q)
    BY DEF EndTail, SignalPeer
  <1> QED BY <1>1, StepAt DEF K3Step

LEMMA StepCounts ==
  ASSUME StepInv, RowsInv, CountInv, NEW r \in Ranks, RankStep(r)
  PROVE  CountInv'
  <1> USE DEF StepInv
  <1>0. /\ done_counter \in [Ranks -> Nat]
        /\ stored \in [Ranks -> SUBSET Nat] /\ counted \in [Ranks -> SUBSET Nat]
        /\ \A o \in Ranks : counted[o] \subseteq stored[o]
        /\ tail' = tail /\ pc \in [Ranks -> Locations]
    BY StepOthers DEF CountInv, PlaceInv
  <1>1. ASSUME NEW o \in Ranks, o # r, stored'[o] = stored[o], counted'[o] = counted[o],
               done_counter'[o] = done_counter[o], active_tiles'[o] = active_tiles[o]
        PROVE  /\ counted'[o] \subseteq stored'[o]
               /\ tail /\ pc'[o] \in Early \ {"reset"} => done_counter'[o] = 0
               /\ pc'[o] = "k3" => stored'[o] \subseteq K3Tiles(o)'
               /\ tail /\ pc'[o] = "k3" => done_counter'[o] = Cardinality(counted'[o])
    BY <1>1, StepOthers, CapacityStays DEF CountInv
  <1>2. CASE pc[r] = "reset"
    <2>1. done_counter' = [done_counter EXCEPT ![r] = IF tail THEN 0 ELSE @]
          /\ pc' = [pc EXCEPT ![r] = "draw"]
      BY <1>2, StepAt DEF Reset, Go
    <2>2. UNCHANGED <<stored, counted, active_tiles>>
      BY <1>2, StepFrame
    <2> QED BY <1>0, <1>1, <2>1, <2>2 DEF CountInv
  <1>3. CASE pc[r] = "quant"
    <2>1. /\ stored' = [stored EXCEPT ![r] = {}] /\ counted' = [counted EXCEPT ![r] = {}]
          /\ pc' = [pc EXCEPT ![r] = "k3"]
      BY <1>3, StepAt DEF QuantK2, Go
    <2>2. UNCHANGED <<done_counter, active_tiles>>
      BY <1>3, StepFrame
    <2>3. tail => done_counter[r] = 0
      BY <1>3 DEF CountInv, Early
    <2>4. Cardinality({}) = 0
      BY FS_EmptySet
    <2>5. stored' \in [Ranks -> SUBSET Nat] /\ counted' \in [Ranks -> SUBSET Nat]
      BY <1>0, <2>1
    <2>6. /\ stored'[r] = {} /\ counted'[r] = {} /\ pc'[r] = "k3"
          /\ \A o \in Ranks \ {r} : stored'[o] = stored[o] /\ counted'[o] = counted[o]
      BY <1>0, <2>1
    <2> QED BY <1>0, <1>1, <2>2, <2>3, <2>4, <2>5, <2>6 DEF CountInv, Early
  <1>4. CASE pc[r] = "k3"
    <2>0. /\ call[r] >= 1 /\ active_tiles' = active_tiles /\ K3Tiles(r)' = K3Tiles(r)
          /\ K3Tiles(r) \subseteq Nat /\ IsFiniteSet(K3Tiles(r))
      BY <1>4, StepFrame, CapacityStays, TilesFinite DEF PlaceInv
    <2>1. /\ stored[r] \subseteq K3Tiles(r)
          /\ tail => done_counter[r] = Cardinality(counted[r])
      BY <1>4 DEF CountInv
    <2>2. ASSUME NEW i \in K3Tiles(r), StoreTile(r, i)
          PROVE  CountInv'
      <3>1. stored' = [stored EXCEPT ![r] = @ \union {i}] /\ UNCHANGED <<pc, counted, done_counter>>
        BY <2>2 DEF StoreTile, tailState
      <3>2. /\ stored' \in [Ranks -> SUBSET Nat] /\ stored'[r] = stored[r] \union {i}
            /\ \A o \in Ranks \ {r} : stored'[o] = stored[o]
        BY <1>0, <2>0, <3>1
      <3> QED BY <1>0, <1>1, <1>4, <2>0, <2>1, <3>1, <3>2 DEF CountInv, Early
    <2>3. ASSUME NEW i \in K3Tiles(r), CountTile(r, i)
          PROVE  CountInv'
      <3>1. /\ done_counter' = [done_counter EXCEPT ![r] = @ + 1]
            /\ counted' = [counted EXCEPT ![r] = @ \union {i}] /\ stored' = stored
            /\ i \in stored[r] \ counted[r] /\ tail
            /\ pc' = [pc EXCEPT ![r] = "signal"] \/ pc' = pc
        BY <2>3 DEF CountTile, Go
      <3>2. /\ counted' \in [Ranks -> SUBSET Nat] /\ counted'[r] = counted[r] \union {i}
            /\ done_counter' \in [Ranks -> Nat] /\ done_counter'[r] = done_counter[r] + 1
            /\ \A o \in Ranks \ {r} : counted'[o] = counted[o] /\ done_counter'[o] = done_counter[o]
        BY <1>0, <2>0, <3>1
      <3>3. Cardinality(counted'[r]) = Cardinality(counted[r]) + 1
        <4>1. counted[r] \subseteq K3Tiles(r)
          BY <1>0, <2>1
        <4>2. IsFiniteSet(counted[r])
          BY <2>0, <4>1, FS_Subset
        <4> QED BY <3>1, <3>2, <4>2, FS_AddElement
      <3>4. pc'[r] \in {"k3", "signal"}
        BY <1>0, <1>4, <3>1
      <3> QED BY <1>0, <1>1, <2>0, <2>1, <3>1, <3>2, <3>3, <3>4 DEF CountInv, Early
    <2>4. ASSUME TailReduce(r) \/ EndStores(r)
          PROVE  CountInv'
      <3>1. UNCHANGED <<done_counter, stored, counted>>
        BY <2>4 DEF TailReduce, EndStores, tailState, k3
      <3>2. pc'[r] \in {"k3", "draw2"}
        BY <1>0, <1>4, <2>4 DEF TailReduce, EndStores, Go
      <3> QED BY <1>0, <1>1, <2>0, <2>1, <3>1, <3>2 DEF CountInv, Early
    <2> QED BY <1>4, <2>2, <2>3, <2>4, InK3
  <1>5. CASE pc[r] = "fusedWork"
    <2>1. PICK garbage \in {0, 1} :
            done_counter' = [done_counter EXCEPT ![r] =
              IF Cardinality(RoutesTo(r)) <= ProbRows THEN @ ELSE garbage]
      BY <1>5, StepAt DEF FusedWork
    <2>2. /\ done_counter' \in [Ranks -> Nat]
          /\ \A o \in Ranks \ {r} : done_counter'[o] = done_counter[o]
      BY <1>0, <2>1
    <2>3. UNCHANGED <<stored, counted, active_tiles>>
      BY <1>5, StepFrame
    <2>4. pc'[r] = "fused2"
      BY <1>0, <1>5, StepAt DEF FusedWork, Go
    <2> QED BY <1>0, <1>1, <2>2, <2>3, <2>4 DEF CountInv, Early
  <1>6. CASE pc[r] \notin {"reset", "quant", "k3", "fusedWork"}
    <2>1. UNCHANGED <<done_counter, stored, counted>>
      BY <1>6, StepFrame
    <2>2. \A o \in Ranks \ {r} : active_tiles'[o] = active_tiles[o]
      <3>1. CASE pc[r] = "count"
        BY <3>1, StepAt DEF CountRoutes, RowsInv
      <3>2. CASE pc[r] # "count"
        BY <3>2, StepFrame
      <3> QED BY <3>1, <3>2
    <2>3. pc'[r] # "k3" /\ (pc'[r] \in Early \ {"reset"} => pc[r] \in Early \ {"reset"})
      <3>1. CASE pc[r] = "host"
        BY <3>1, StepOthers DEF Early
      <3>2. CASE pc[r] # "host"
        <4>1. InCall(r)
          BY <3>2, StepOthers
        <4>2. pc'[r] # "k3"
          BY <1>6, <4>1, PlaceBefore
        <4>3. pc'[r] \in Early \ {"reset"} => pc[r] \in Early \ {"reset"}
          BY <1>6, <4>1, PlaceBefore DEF Early
        <4> QED BY <4>2, <4>3
      <3> QED BY <3>1, <3>2
    <2>4. tail /\ pc'[r] \in Early \ {"reset"} => done_counter[r] = 0
      BY <2>3 DEF CountInv
    <2> QED BY <1>0, <1>1, <2>1, <2>2, <2>3, <2>4 DEF CountInv
  <1> QED BY <1>2, <1>3, <1>4, <1>5, <1>6

(* What a tile stores is the rows of its call.                              *)
LEMMA TileStores ==
  ASSUME StepInv, RowsInv, ActInv, StoreInv, IInv, NEW r \in Ranks, NEW i, StoreTile(r, i)
  PROVE  /\ StoredBy(r, {i}) \subseteq ToSet(rows[r])
         /\ \A s \in Ranks, t \in 1 .. MaxTokens :
              combine'[s][t] = IF <<s, t>> \in StoredBy(r, {i}) THEN call[r] ELSE combine[s][t]
         /\ DOMAIN combine' = Ranks /\ \A s \in Ranks : DOMAIN combine'[s] = 1 .. MaxTokens
  <1>1. /\ pc[r] = "k3"
        /\ combine' = [s \in Ranks |-> [t \in 1 .. MaxTokens |->
             IF <<s, t>> \in StoredBy(r, {i}) THEN RowValue(r, <<s, t>>) ELSE combine[s][t]]]
    BY DEF StoreTile
  <1>2. ASSUME NEW row \in StoredBy(r, {i})
        PROVE  row \in ToSet(rows[r]) /\ RowValue(r, row) = call[r]
    <2>1. PICK k \in DOMAIN rows[r] : rows[r][k] = row
      BY DEF StoredBy, TileRows
    <2>2. row \in ToSet(rows[r])
      BY <2>1 DEF ToSet
    <2> DEFINE index == CHOOSE n \in DOMAIN rows[r] : rows[r][n] = row
    <2>3. index \in DOMAIN rows[r]
      BY <2>1
    <2>4. act_fp8[r] = [n \in DOMAIN rows[r] |-> call[r]]
      BY <1>1 DEF ActInv
    <2> HIDE DEF index
    <2>5. act_fp8[r][index] = call[r]
      BY <2>3, <2>4
    <2> QED BY <2>2, <2>5 DEF RowValue, index
  <1> QED BY <1>1, <1>2

(* Combine rows are written with the call of the writer, which is that of   *)
(* all ranks.                                                               *)
LEMMA CombineSteps ==
  ASSUME StepInv, PublishInv, RowsInv, ActInv, StoreInv, IInv, NEW r \in Ranks, RankStep(r)
  PROVE  /\ combine' \in [Ranks -> [1 .. MaxTokens -> 0 .. Len(plan)]]
         /\ \A s \in Ranks, t \in 1 .. MaxTokens :
              combine'[s][t] # combine[s][t] =>
                /\ combine'[s][t] = call[r]
                /\ \A q \in Ranks : call[q] = call[r] /\ call'[q] = call[r]
         /\ pc[r] = "fusedWork" =>
              \A st \in RoutesOf(call[r], r) : combine'[st[1]][st[2]] = call[r]
  <1> USE DEF StepInv
  <1>0. /\ combine \in [Ranks -> [1 .. MaxTokens -> 0 .. Len(plan)]]
        /\ call[r] \in 0 .. Len(plan)
    BY DEF StoreInv, PlaceInv
  <1>1. CASE combine' = combine /\ pc[r] # "fusedWork"
    BY <1>0, <1>1
  <1>2. CASE combine' # combine /\ pc[r] # "fusedWork"
    <2>1. pc[r] = "k3"
      BY <1>2, StepFrame
    <2>2. \A q \in Ranks : call[q] = call[r] /\ call'[q] = call[r]
      BY <2>1, Together, StepOthers DEF Work
    <2>3. PICK i \in K3Tiles(r) : StoreTile(r, i)
      <3>1. ~ TailReduce(r) /\ ~ EndStores(r) /\ \A i : ~ CountTile(r, i)
        BY <1>2 DEF TailReduce, EndStores, CountTile, sym
      <3> QED BY <2>1, <3>1, InK3
    <2>4. /\ \A s \in Ranks, t \in 1 .. MaxTokens :
               combine'[s][t] = IF <<s, t>> \in StoredBy(r, {i}) THEN call[r] ELSE combine[s][t]
          /\ combine' = [s \in Ranks |-> [t \in 1 .. MaxTokens |-> combine'[s][t]]]
      <3>1. /\ \A s \in Ranks, t \in 1 .. MaxTokens :
                 combine'[s][t] = IF <<s, t>> \in StoredBy(r, {i}) THEN call[r] ELSE combine[s][t]
        BY <2>3, TileStores
      <3>2. combine' = [s \in Ranks |-> [t \in 1 .. MaxTokens |->
              IF <<s, t>> \in StoredBy(r, {i}) THEN RowValue(r, <<s, t>>) ELSE combine[s][t]]]
        BY <2>3 DEF StoreTile
      <3> QED BY <3>1, <3>2
    <2>5. \A s \in Ranks, t \in 1 .. MaxTokens : combine'[s][t] \in 0 .. Len(plan)
      BY <1>0, <2>4
    <2>6. combine' \in [Ranks -> [1 .. MaxTokens -> 0 .. Len(plan)]]
      BY <2>4, <2>5
    <2> QED BY <1>2, <2>2, <2>4, <2>6
  <1>3. CASE pc[r] = "fusedWork"
    <2>1. combine' = [s \in Ranks |-> [t \in 1 .. MaxTokens |->
            IF <<s, t>> \in RoutesTo(r) THEN call[s] ELSE combine[s][t]]]
      BY <1>3, StepAt DEF FusedWork
    <2>2. \A q \in Ranks : call[q] = call[r] /\ call'[q] = call[r]
      BY <1>3, Together, StepOthers DEF FusedAtWork
    <2>3. \A s \in Ranks, t \in 1 .. MaxTokens :
            combine'[s][t] = IF <<s, t>> \in RoutesTo(r) THEN call[r] ELSE combine[s][t]
      BY <2>1, <2>2
    <2>4. \A s \in Ranks, t \in 1 .. MaxTokens : combine'[s][t] \in 0 .. Len(plan)
      BY <1>0, <2>3
    <2>5. combine' \in [Ranks -> [1 .. MaxTokens -> 0 .. Len(plan)]]
      BY <2>1, <2>4
    <2>6. ASSUME NEW st \in RoutesOf(call[r], r)
          PROVE  combine'[st[1]][st[2]] = call[r]
      <3>1. PICK s \in Ranks, t \in 1 .. MaxTokens : st = <<s, t>>
        BY DEF RoutesOf
      <3>2. <<s, t>> \in RoutesTo(r)
        BY <1>3, <3>1, RoutesSeen
      <3> QED BY <2>3, <3>1, <3>2
    <2> QED BY <2>2, <2>3, <2>5, <2>6
  <1> QED BY <1>1, <1>2, <1>3

LEMMA StepStores ==
  ASSUME StepInv, PublishInv, RowsInv, ActInv, CountInv, StoreInv, IInv, NEW r \in Ranks, RankStep(r)
  PROVE  StoreInv'
  <1> USE DEF StepInv
  <1>1. combine' \in [Ranks -> [1 .. MaxTokens -> 0 .. Len(plan)]] /\ plan' = plan
    BY CombineSteps, StepOthers
  <1>2. SUFFICES ASSUME NEW o \in Ranks, pc'[o] = "k3", NEW row \in StoredBy(o, stored[o])'
                 PROVE  combine'[row[1]][row[2]] = call'[o]
    BY <1>1 DEF StoreInv
  <1>3. CASE o = r /\ pc[r] = "quant"
    <2>1. stored' = [stored EXCEPT ![r] = {}]
      BY <1>3, StepAt DEF QuantK2
    <2>2. stored'[o] = {}
      BY <1>3, <2>1 DEF CountInv
    <2> QED BY <1>2, <2>2 DEF StoredBy
  <1>4. CASE ~ (o = r /\ pc[r] = "quant")
    <2>1. pc[o] = "k3" /\ call'[o] = call[o]
      BY <1>2, <1>4, StepOthers, PlaceBefore
    <2>2. rows'[o] = rows[o]
      <3>1. CASE pc[r] \notin {"count", "emit"}
        BY <3>1, StepFrame
      <3>2. CASE pc[r] = "count"
        BY <2>1, <3>2, StepAt DEF CountRoutes, RowsInv
      <3>3. CASE pc[r] = "emit"
        BY <2>1, <3>3, StepAt DEF EmitRoutes, RowsInv
      <3> QED BY <3>1, <3>2, <3>3
    <2>3. \A q \in Ranks : call[q] = call[o]
      BY <2>1, Together DEF Work
    <2>4. PICK k \in DOMAIN rows[o], j \in stored'[o] : row = rows[o][k] /\ (k - 1) \div TileM = j
      BY <2>2 DEF StoredBy, TileRows
    <2>5. PICK s \in Ranks, t \in 1 .. MaxTokens : row = <<s, t>>
      <3>1. rows[o][k] \in Rows
        BY DEF RowsInv
      <3> QED BY <2>4, <3>1 DEF Rows
    <2>6. CASE j \in stored[o]
      <3>1. row \in StoredBy(o, stored[o])
        BY <2>4, <2>6 DEF StoredBy, TileRows
      <3>2. combine[s][t] = call[o]
        BY <2>1, <2>5, <3>1 DEF StoreInv
      <3>3. combine'[s][t] = call[o]
        BY <2>3, <3>2, CombineSteps
      <3> QED BY <2>1, <2>5, <3>3
    <2>7. CASE j \notin stored[o]
      <3>1. o = r /\ pc[r] = "k3"
        <4>1. CASE pc[r] = "quant"
          <5>1. o # r /\ stored' = [stored EXCEPT ![r] = {}]
            BY <1>4, <4>1, StepAt DEF QuantK2
          <5> QED BY <2>4, <2>7, <5>1 DEF CountInv
        <4>2. CASE pc[r] = "k3" /\ o # r
          <5>1. stored'[o] = stored[o]
            BY <4>2, InK3 DEF StoreTile, CountTile, TailReduce, EndStores, k3, CountInv
          <5> QED BY <2>4, <2>7, <5>1
        <4>3. CASE pc[r] \notin {"quant", "k3"}
          <5>1. stored' = stored
            BY <4>3, StepFrame
          <5> QED BY <2>4, <2>7, <5>1
        <4> QED BY <4>1, <4>2, <4>3, <2>1
      <3>2. PICK i \in K3Tiles(r) : StoreTile(r, i)
        <4>1. stored' # stored
          BY <2>4, <2>7
        <4>2. ~ TailReduce(r) /\ ~ EndStores(r) /\ \A i : ~ CountTile(r, i)
          BY <4>1 DEF TailReduce, EndStores, CountTile, k3
        <4> QED BY <3>1, <4>2, InK3
      <3>3. j = i
        <4>1. stored' = [stored EXCEPT ![r] = @ \union {i}]
          BY <3>2 DEF StoreTile
        <4> QED BY <2>4, <2>7, <3>1, <4>1 DEF CountInv
      <3>4. row \in StoredBy(r, {i})
        BY <2>4, <3>1, <3>3 DEF StoredBy, TileRows
      <3>5. combine'[s][t] = call[r]
        BY <2>5, <3>2, <3>4, TileStores
      <3> QED BY <2>1, <2>5, <3>1, <3>5
    <2> QED BY <2>6, <2>7
  <1> QED BY <1>3, <1>4

-----------------------------------------------------------------------------
(* Fresh rows.                                                              *)

(* When the tiles of a rank are stored, so are its rows.                    *)
LEMMA AllStored ==
  ASSUME StepInv, RowsInv, StoreInv, NEW o \in Ranks, pc[o] = "k3", stored[o] = K3Tiles(o),
         NEW row \in ToSet(rows[o])
  PROVE  combine[row[1]][row[2]] = call[o]
  <1>1. PICK k \in DOMAIN rows[o] : rows[o][k] = row
    BY DEF ToSet
  <1>2. (k - 1) \div TileM \in K3Tiles(o)
    BY DEF RowsInv
  <1>3. row \in StoredBy(o, stored[o])
    BY <1>1, <1>2 DEF StoredBy, TileRows
  <1> QED BY <1>3 DEF StoreInv

(* A rank leaves K3 when its tiles are stored.                              *)
LEMMA LeavesK3 ==
  ASSUME StepInv, RowsInv, CountInv, NEW r \in Ranks, RankStep(r), pc[r] = "k3", pc'[r] # "k3"
  PROVE  stored[r] = K3Tiles(r) /\ combine' = combine
  <1> USE DEF StepInv
  <1>1. ~ TailReduce(r) /\ \A i : ~ StoreTile(r, i)
    BY DEF TailReduce, StoreTile
  <1>2. CASE EndStores(r)
    BY <1>2 DEF EndStores, sym
  <1>3. ASSUME NEW i \in K3Tiles(r), CountTile(r, i)
        PROVE  stored[r] = K3Tiles(r) /\ combine' = combine
    <2>1. /\ tail /\ i \in stored[r] \ counted[r] /\ combine' = combine
          /\ done_counter[r] + 1 = Cardinality(K3Tiles(r))
      BY <1>3 DEF CountTile, sym
    <2>2. /\ K3Tiles(r) \subseteq Nat /\ IsFiniteSet(K3Tiles(r))
          /\ counted[r] \subseteq stored[r] /\ stored[r] \subseteq K3Tiles(r)
          /\ done_counter[r] = Cardinality(counted[r])
      BY <2>1, TilesFinite DEF PlaceInv, CountInv
    <2>3. IsFiniteSet(counted[r])
      BY <2>2, FS_Subset
    <2>4. Cardinality(counted[r] \union {i}) = Cardinality(K3Tiles(r))
      <3>1. Cardinality(counted[r] \union {i}) = Cardinality(counted[r]) + 1
        BY <2>1, <2>3, FS_AddElement
      <3> QED BY <2>1, <2>2, <3>1
    <2>5. counted[r] \union {i} = K3Tiles(r)
      BY <2>1, <2>2, <2>4, FS_Subset
    <2> QED BY <2>1, <2>2, <2>5
  <1> QED BY <1>1, <1>2, <1>3, InK3

(* Nobody stays in the call before one whose barrier somebody has passed.   *)
LEMMA NotAhead ==
  ASSUME StepInv, IInv, NEW r \in Ranks, pc[r] = "host", NEW o \in Ranks
  PROVE  /\ call[o] \in {call[r], call[r] + 1}
         /\ call[o] = call[r] + 1 => pc[o] \notin Behind \union FusedBehind /\ pc[o] # "host"
  <1> USE DEF StepInv
  <1>1. /\ call[o] \in {call[r], call[r] + 1} /\ call[o] \in Nat /\ call[r] \in Nat
        /\ call[o] = call[r] + 1 => pc[o] # "host"
    BY Neighbours, Counts
  <1>2. pc[o] \in Behind \union FusedBehind => call[r] \in {call[o], call[o] + 1}
    BY PastFirst
  <1> QED BY <1>1, <1>2

LEMMA StepFresh ==
  ASSUME StepInv, PublishInv, RowsInv, ActInv, CountInv, StoreInv, FreshInv, IInv,
         NEW p \in Ranks, RankStep(p)
  PROVE  FreshInv'
  <1> USE DEF StepInv
  <1>1. SUFFICES ASSUME NEW r \in Ranks, NEW o \in Ranks, NEW t \in 1 .. MaxTokens,
                        call'[r] >= 1, Path(r)' # "fused",
                        call'[o] = call'[r] + 1 \/ (call'[o] = call'[r] /\ pc'[o] \in Stored),
                        <<r, t>> \in ToSet(rows'[o])
                 PROVE  combine'[r][t] = call'[r]
    BY DEF FreshInv
  <1>2. call \in [Ranks -> Nat] /\ plan' = plan
    BY PlanFacts, StepOthers
  <1>3. ~ (p = r /\ pc[r] = "host")
    <2> SUFFICES ASSUME p = r, pc[r] = "host"
                 PROVE  FALSE
      OBVIOUS
    <2>1. call'[r] = call[r] + 1 /\ pc'[r] \in {"reset", "fused1"}
      BY StepOthers
    <2>2. o # r
      BY <1>1, <1>2, <2>1 DEF Stored
    <2>3. call'[o] = call[o] /\ pc'[o] = pc[o]
      BY <2>2, StepOthers
    <2> QED BY <1>1, <1>2, <2>1, <2>3, NotAhead DEF Stored, Behind, Work
  <1>4. call'[r] = call[r] /\ Path(r)' = Path(r)
    BY <1>2, <1>3, StepOthers DEF Path
  <1>5. rows'[o] = rows[o]
    <2>1. CASE pc[p] \in {"count", "emit"}
      <3>1. call[o] = call[r] /\ call' = call
        BY <2>1, Together, StepOthers DEF Work
      <3>2. pc'[o] \in Stored
        BY <1>1, <1>2, <3>1
      <3>3. o # p
        <4>1. pc'[p] \in {"emit", "l1"}
          BY <2>1, StepAt DEF CountRoutes, EmitRoutes, Go, PlaceInv
        <4> QED BY <3>2, <4>1 DEF Stored
      <3>4. CASE pc[p] = "count"
        BY <3>3, <3>4, StepAt DEF CountRoutes, RowsInv
      <3>5. CASE pc[p] = "emit"
        BY <3>3, <3>5, StepAt DEF EmitRoutes, RowsInv
      <3> QED BY <2>1, <3>4, <3>5
    <2>2. CASE pc[p] \notin {"count", "emit"}
      BY <2>2, StepFrame
    <2> QED BY <2>1, <2>2
  <1>6. CASE call[o] = call[r] + 1 \/ (call[o] = call[r] /\ pc[o] \in Stored)
    <2>1. combine[r][t] = call[r]
      BY <1>1, <1>4, <1>5, <1>6 DEF FreshInv
    <2> QED BY <1>4, <2>1, CombineSteps
  <1>7. CASE ~ (call[o] = call[r] + 1 \/ (call[o] = call[r] /\ pc[o] \in Stored))
    <2>1. o = p /\ pc[p] # "host"
      <3>1. o = p
        BY <1>1, <1>4, <1>7, StepOthers
      <3>2. ASSUME pc[p] = "host"
            PROVE  FALSE
        <4>1. call'[o] = call[o] + 1 /\ pc'[o] \notin Stored
          BY <3>1, <3>2, StepOthers DEF Stored
        <4>2. call[o] = call[r] /\ pc[o] \in Stored
          BY <1>1, <1>2, <1>4, <3>1, <3>2, <4>1 DEF Stored
        <4> QED BY <1>7, <4>2
      <3> QED BY <3>1, <3>2
    <2>2. call'[o] = call[o] /\ call[o] = call[r] /\ pc'[o] \in Stored /\ pc[o] \notin Stored /\ InCall(o)
      BY <1>1, <1>4, <1>7, <2>1, StepOthers
    <2>3. Path(o) = Path(r)
      BY <2>2 DEF Path
    <2>4. pc[o] = "k3"
      <3>1. pc[o] # "fused3In"
        BY <1>1, <1>4, <2>3 DEF PlaceInv, FusedPlaces
      <3> QED BY <2>2, <3>1, PlaceBefore DEF Stored
    <2>5. stored[o] = K3Tiles(o) /\ combine' = combine
      BY <2>1, <2>2, <2>4, LeavesK3 DEF Stored
    <2>6. combine[r][t] = call[o]
      <3>1. <<r, t>> \in ToSet(rows[o])
        BY <1>1, <1>5
      <3> QED BY <2>4, <2>5, <3>1, AllStored
    <2> QED BY <1>4, <2>2, <2>5, <2>6
  <1> QED BY <1>6, <1>7

LEMMA StepFusedFresh ==
  ASSUME StepInv, PublishInv, RowsInv, ActInv, StoreInv, FusedFreshInv, IInv,
         NEW p \in Ranks, RankStep(p)
  PROVE  FusedFreshInv'
  <1> USE DEF StepInv
  <1>1. SUFFICES ASSUME NEW r \in Ranks, NEW o \in Ranks,
                        call'[r] >= 1, Path(r)' = "fused",
                        call'[o] = call'[r] + 1 \/ (call'[o] = call'[r] /\ pc'[o] \in FusedStored),
                        NEW t \in 1 .. Len(Input(r)'), Input(r)'[t] = o
                 PROVE  combine'[r][t] = call'[r]
    BY DEF FusedFreshInv
  <1>2. call \in [Ranks -> Nat] /\ plan' = plan /\ batch' = batch
    BY PlanFacts, StepOthers
  <1>3. ~ (p = r /\ pc[r] = "host")
    <2> SUFFICES ASSUME p = r, pc[r] = "host"
                 PROVE  FALSE
      OBVIOUS
    <2>1. call'[r] = call[r] + 1 /\ pc'[r] \in {"reset", "fused1"}
      BY StepOthers
    <2>2. o # r
      BY <1>1, <1>2, <2>1 DEF FusedStored
    <2>3. call'[o] = call[o] /\ pc'[o] = pc[o]
      BY <2>2, StepOthers
    <2> QED BY <1>1, <1>2, <2>1, <2>3, NotAhead DEF FusedStored, FusedBehind, FusedAtWork
  <1>4. call'[r] = call[r] /\ Path(r)' = Path(r) /\ Input(r)' = Input(r)
    BY <1>2, <1>3, StepOthers DEF Path, Input
  <1>5. t \in 1 .. MaxTokens /\ t \in 1 .. Len(Input(r)) /\ Input(r)[t] = o
    BY <1>1, <1>4, CallFacts
  <1>6. CASE call[o] = call[r] + 1 \/ (call[o] = call[r] /\ pc[o] \in FusedStored)
    <2>1. combine[r][t] = call[r]
      BY <1>1, <1>4, <1>5, <1>6 DEF FusedFreshInv
    <2> QED BY <1>4, <1>5, <2>1, CombineSteps
  <1>7. CASE ~ (call[o] = call[r] + 1 \/ (call[o] = call[r] /\ pc[o] \in FusedStored))
    <2>1. o = p /\ pc[p] # "host"
      <3>1. o = p
        BY <1>1, <1>4, <1>7, StepOthers
      <3>2. ASSUME pc[p] = "host"
            PROVE  FALSE
        <4>1. call'[o] = call[o] + 1 /\ pc'[o] \notin FusedStored
          BY <3>1, <3>2, StepOthers DEF FusedStored
        <4>2. call[o] = call[r] /\ pc[o] \in FusedStored
          BY <1>1, <1>2, <1>4, <3>1, <3>2, <4>1 DEF FusedStored
        <4> QED BY <1>7, <4>2
      <3> QED BY <3>1, <3>2
    <2>2. call'[o] = call[o] /\ call[o] = call[r] /\ InCall(o)
          /\ pc'[o] \in FusedStored /\ pc[o] \notin FusedStored
      BY <1>1, <1>4, <1>7, <2>1, StepOthers
    <2>3. Path(o) = Path(r)
      BY <2>2 DEF Path
    <2>4. pc[o] = "fusedWork"
      <3>1. pc[o] \notin {"signal", "reduce"}
        BY <1>1, <1>4, <2>3 DEF PlaceInv, FusedPlaces
      <3> QED BY <2>2, <3>1, PlaceBefore DEF FusedStored
    <2>5. <<r, t>> \in RoutesOf(call[o], o)
      BY <1>5, <2>2 DEF RoutesOf, Input
    <2>6. combine'[r][t] = call[o]
      BY <2>1, <2>4, <2>5, CombineSteps
    <2> QED BY <1>4, <2>2, <2>6
  <1> QED BY <1>6, <1>7

-----------------------------------------------------------------------------
(* Every route has a row when the capacity holds them.                      *)

LEMMA CeilDivLeast ==
  ASSUME NEW n \in Nat \ {0}, NEW a \in Nat, NEW m \in Nat, a <= m * n
  PROVE  SmallerOf(a, SmallerOf(CeilDiv(a, n), m) * n) = a
  <1>1. CeilDiv(a, n) \in Nat /\ a <= CeilDiv(a, n) * n
    BY CeilDivHolds
  <1>2. SmallerOf(CeilDiv(a, n), m) \in {CeilDiv(a, n), m}
    BY DEF SmallerOf
  <1>3. a <= SmallerOf(CeilDiv(a, n), m) * n
    BY <1>1, <1>2
  <1>4. SmallerOf(CeilDiv(a, n), m) * n \in Nat
    <2>1. SmallerOf(CeilDiv(a, n), m) \in Nat
      BY <1>1, <1>2
    <2> QED BY <2>1
  <1> QED BY <1>3, <1>4 DEF SmallerOf

LEMMA StepRoom ==
  ASSUME StepInv, PublishInv, RowsInv, RoomInv, IInv, NEW r \in Ranks, RankStep(r)
  PROVE  RoomInv'
  <1> USE DEF StepInv
  <1>1. SUFFICES ASSUME NEW o \in Ranks, pc'[o] \in Working
                 PROVE  /\ ToSet(rows'[o]) \subseteq RoutesOf(call[o], o)'
                        /\ Fits(o)' => ToSet(rows'[o]) = RoutesOf(call[o], o)'
    BY DEF RoomInv
  <1>2. o # r \/ pc[r] # "host"
    BY <1>1, StepOthers DEF Working
  <1>3. /\ call'[o] = call[o] /\ RoutesOf(call[o], o)' = RoutesOf(call[o], o)
        /\ CapacityTiles(o)' = CapacityTiles(o)
    BY <1>2, CapacityStays, StepOthers DEF RoutesOf
  <1>4. Fits(o)' <=> Fits(o)
    BY <1>3 DEF Fits
  <1>5. CASE o = r /\ pc[r] = "emit"
    <2>1. EmitRoutes(r)
      BY <1>5, StepAt
    <2>2. PICK kept \in SUBSET RoutesOf(call[r], r) :
            /\ rows' = [rows EXCEPT ![r] = Laid(kept)]
            /\ ToSet(Laid(kept)) = kept
            /\ Cardinality(kept) =
                 SmallerOf(Cardinality(RoutesOf(call[r], r)), active_tiles[r] * TileM)
      BY <1>5, <2>1, EmittedRows
    <2>3. ToSet(rows'[o]) = kept
      BY <1>5, <2>2 DEF RowsInv
    <2>4. ASSUME Fits(r)
          PROVE  kept = RoutesOf(call[r], r)
      <3>1. active_tiles[r] = SmallerOf(CeilDiv(Cardinality(RoutesOf(call[r], r)), TileM), CapacityTiles(r))
        BY <1>5 DEF RowsInv
      <3>2. Cardinality(RoutesOf(call[r], r)) \in Nat /\ IsFiniteSet(RoutesOf(call[r], r))
        BY RoutesOfRows
      <3>3. CapacityTiles(r) \in Nat /\ TileM \in Nat \ {0}
        BY <1>5, CapacityType, InputsAssumption DEF PlaceInv
      <3>4. Cardinality(kept) = Cardinality(RoutesOf(call[r], r))
        BY <2>2, <2>4, <3>1, <3>2, <3>3, CeilDivLeast DEF Fits
      <3> QED BY <3>2, <3>4, FS_Subset
    <2> QED BY <1>3, <1>4, <1>5, <2>2, <2>3, <2>4
  <1>6. CASE ~ (o = r /\ pc[r] = "emit")
    <2>1. pc[o] \in Working
      BY <1>1, <1>2, <1>6, StepOthers, PlaceBefore DEF Working
    <2>2. rows'[o] = rows[o]
      <3>1. CASE pc[r] \notin {"count", "emit"}
        BY <3>1, StepFrame
      <3>2. CASE pc[r] = "count"
        BY <2>1, <3>2, StepAt DEF CountRoutes, RowsInv, Working
      <3>3. CASE pc[r] = "emit"
        BY <1>6, <3>3, StepAt DEF EmitRoutes, RowsInv
      <3> QED BY <3>1, <3>2, <3>3
    <2> QED BY <1>3, <1>4, <2>1, <2>2 DEF RoomInv
  <1> QED BY <1>5, <1>6

LEMMA StepAddrs ==
  ASSUME StepInv, AddrInv, NEW r \in Ranks, RankStep(r)
  PROVE  AddrInv'
  <1>1. CASE pc[r] = "fusedWork"
    <2>1. tail_addrs' = [tail_addrs EXCEPT ![r] = @ /\ Cardinality(RoutesTo(r)) <= ProbRows]
      BY <1>1, StepAt DEF FusedWork
    <2> DEFINE b == tail_addrs[r] /\ Cardinality(RoutesTo(r)) <= ProbRows
    <2>2. b \in BOOLEAN
      OBVIOUS
    <2>3. tail_addrs' = [tail_addrs EXCEPT ![r] = b]
      BY <2>1
    <2> HIDE DEF b
    <2> QED BY <2>2, <2>3 DEF AddrInv
  <1>2. CASE pc[r] # "fusedWork"
    BY <1>2, StepFrame DEF AddrInv, StepInv
  <1> QED BY <1>1, <1>2

-----------------------------------------------------------------------------
(* The invariants of every run.                                             *)

LEMMA StepCalls ==
  ASSUME CallInvs, IInv, NEW r \in Ranks, RankStep(r)
  PROVE  CallInvs'
  <1> USE DEF CallInvs
  <1>1. StepInv'
    <2>1. CASE pc[r] = "host"
      BY <2>1, StepAt, BeginSteps
    <2>2. CASE pc[r] # "host"
      BY <2>2, StepOthers, InCallSteps DEF StepInv
    <2> QED BY <2>1, <2>2
  <1>2. SlotInv' /\ ReduceInv'
    BY StepSlots, StepReduce
  <1>3. PublishInv' /\ UniformInv'
    BY StepPublish, StepUniform
  <1>4. RowsInv' /\ ActInv' /\ CountInv' /\ StoreInv'
    BY StepRows, StepActs, StepCounts, StepStores
  <1>5. FreshInv' /\ FusedFreshInv'
    BY StepFresh, StepFusedFresh
  <1>6. RoomInv' /\ AddrInv'
    BY StepRoom, StepAddrs
  <1> QED BY <1>1, <1>2, <1>3, <1>4, <1>5, <1>6

LEMMA SameCalls ==
  ASSUME CallInvs, UNCHANGED vars
  PROVE  CallInvs'
  <1>0. UNCHANGED <<plan, batch, tail, call, pc, num_tokens, slots, combine, tail_addrs, k3_prob,
                    done_counter, active_tiles, uniform, rows, l1_out, act_fp8, stored, counted,
                    signalled, y, at, ticket, arrival, release, entered, left, f_entered, f_left>>
    BY DEF vars, config, sym, tailState, layout, acts, k3, fused, barrier
  <1>1. StepInv'
    BY <1>0 DEF CallInvs, StepInv, PlaceInv, FusedInv, PaceInv, LateInv, Path, ToCome, FusedToCome,
                Brings, FusedBrings, Done, Late
  <1>2. SlotInv' /\ ReduceInv' /\ PublishInv' /\ UniformInv'
    BY <1>0 DEF CallInvs, SlotInv, ReduceInv, PublishInv, UniformInv, Signalled, Input
  <1>3. RowsInv' /\ ActInv' /\ CountInv'
    BY <1>0 DEF CallInvs, RowsInv, ActInv, CountInv, RoutesOf, CapacityTiles, Estimate, K3Tiles,
                Path, Input
  <1>4. StoreInv' /\ FreshInv' /\ FusedFreshInv'
    BY <1>0 DEF CallInvs, StoreInv, FreshInv, FusedFreshInv, StoredBy, TileRows, Path, Input
  <1>5. RoomInv' /\ AddrInv'
    BY <1>0 DEF CallInvs, RoomInv, AddrInv, Fits, RoutesOf, CapacityTiles, Estimate, Path, Input
  <1> QED BY <1>1, <1>2, <1>3, <1>4, <1>5 DEF CallInvs

LEMMA InitCalls == Init => CallInvs
  <1> SUFFICES ASSUME Init
               PROVE  CallInvs
    OBVIOUS
  <1>0. /\ MaxTokens \in Nat /\ Len(plan) \in Nat
        /\ \A r \in Ranks : call[r] = 0 /\ pc[r] = "host" /\ entered[r] = 0 /\ left[r] = 0
                            /\ f_entered[r] = 0 /\ f_left[r] = 0 /\ at[r] = "outside"
    <2>1. plan \in Seq(Paths)
      BY InputsAssumption DEF Init
    <2> QED BY <2>1, InputsAssumption DEF Init, BarrierInit
  <1>1. PlaceInv
    BY <1>0 DEF Init, PlaceInv, Locations
  <1>2. FusedInv
    BY <1>0 DEF Init, FusedInv, FusedIn
  <1>3. PaceInv
    BY <1>0 DEF PaceInv, ToCome, FusedToCome
  <1>4. LateInv
    BY <1>0 DEF LateInv, Done, Late, LatePlaces
  <1>5. SlotInv /\ ReduceInv /\ PublishInv
    <2>1. SlotInv
      BY <1>0 DEF Init, SlotInv, Resetted
    <2>2. ReduceInv
      BY <1>0 DEF Init, ReduceInv, Early
    <2>3. PublishInv
      BY <1>0 DEF Init, PublishInv
    <2> QED BY <2>1, <2>2, <2>3
  <1>6. UniformInv /\ RoomInv /\ AddrInv
    BY <1>0 DEF Init, UniformInv, RoomInv, AddrInv, Working
  <1>7. RowsInv
    <2>1. <<>> \in Seq(Rows)
      OBVIOUS
    <2> QED BY <1>0, <2>1 DEF Init, RowsInv
  <1>8. ActInv /\ CountInv
    BY <1>0 DEF Init, ActInv, CountInv, Early
  <1>9. StoreInv /\ FreshInv /\ FusedFreshInv
    BY <1>0 DEF Init, StoreInv, FreshInv, FusedFreshInv
  <1> QED BY <1>1, <1>2, <1>3, <1>4, <1>5, <1>6, <1>7, <1>8, <1>9 DEF CallInvs, StepInv

LEMMA NextCalls == CallInvs /\ IInv /\ [Next]_vars => CallInvs'
  <1> SUFFICES ASSUME CallInvs, IInv, [Next]_vars
               PROVE  CallInvs'
    OBVIOUS
  <1>1. ASSUME NEW r \in Ranks, RankStep(r)
        PROVE  CallInvs'
    BY <1>1, StepCalls
  <1>2. CASE UNCHANGED vars
    BY <1>2, SameCalls
  <1> QED BY <1>1, <1>2 DEF Next, RankStep, Finished

LEMMA InvsHold == Spec /\ []NotWrapped => [](CallInvs /\ IInv)
  <1>1. Init => IInv
    BY InitIInv DEF Init
  <1>2. IInv /\ [Next]_vars /\ NotWrapped' => IInv'
    BY StepBarrier, NextIInv DEF vars
  <1> QED BY <1>1, <1>2, InitCalls, NextCalls, PTL DEF Spec

-----------------------------------------------------------------------------
(* The properties of StagedMoE.                                             *)

(* Every variable stays within its type, whatever the calls and inputs: in  *)
(* particular a tail slot never counts beyond one.                          *)
THEOREM CallsTyped == Spec /\ []NotWrapped => []TypeOK
  <1>1. CallInvs => TypeOK
    BY DEF CallInvs, StepInv, PlaceInv, SlotInv, PublishInv, UniformInv, RowsInv, CountInv, StoreInv,
           AddrInv, TypeOK, Rows
  <1> QED BY <1>1, InvsHold, PTL

(* The flag that the kernels branch on is the one of the call's inputs on   *)
(* every rank: the barrier keeps a peer's count of another call out of the  *)
(* comparison in thread 0.                                                  *)
THEOREM FlagsAgree == Spec /\ []NotWrapped => []UniformAgrees
  <1>1. CallInvs => UniformAgrees
    BY DEF CallInvs, UniformInv, UniformAgrees, Working
  <1> QED BY <1>1, InvsHold, PTL

(* In every staged call the routes to a rank fit the rows that K1 reserves. *)
RoutesFit == \A r \in Ranks : call[r] >= 1 /\ Path(r) # "fused" => Fits(r)

(* If the routes fit the rows that K1 reserves, every one of them gets a    *)
(* row, through whatever calls of both paths: the counts and routes that    *)
(* K1 reads at the peers are those of its own call, and the active tiles    *)
(* have room for them.                                                      *)
THEOREM RoutesHaveRows == Spec /\ []NotWrapped /\ []RoutesFit => []EveryRouteHasARow
  <1>1. CallInvs /\ RoutesFit => EveryRouteHasARow
    <2> SUFFICES ASSUME CallInvs, RoutesFit, NEW r \in Ranks, pc[r] \in Working
                 PROVE  ToSet(rows[r]) = RoutesOf(call[r], r)
      BY DEF EveryRouteHasARow, RoutesOf
    <2>1. call[r] >= 1 /\ Path(r) # "fused"
      BY DEF CallInvs, StepInv, PlaceInv, Working, FusedPlaces
    <2> QED BY <2>1 DEF RoutesFit, CallInvs, RoomInv
  <1> QED BY <1>1, InvsHold, PTL

(* A reduction with the tail signals, after the second barrier or in the    *)
(* fused kernel: the owners of the routes have stored.                      *)
LEMMA ReducesFresh ==
  ASSUME CallInvs, IInv, NEW r \in Ranks, RankStep(r), y'[r] # y[r]
  PROVE  /\ y'[r] = Reduced(r)
         /\ \A o \in Ranks :
              \/ call[o] = call[r] + 1
              \/ call[o] = call[r] /\ pc[o] \in (IF Path(r) = "fused" THEN FusedStored ELSE Stored)
  <1> USE DEF CallInvs, StepInv
  <1>0. /\ pc[r] # "host" => (pc[r] \in FusedPlaces <=> Path(r) = "fused")
        /\ call \in [Ranks -> Nat] /\ DOMAIN y = Ranks
    BY PlanFacts DEF PlaceInv, ReduceInv
  <1>1. pc[r] \in {"k3", "signal", "reduce", "fusedReduce"}
    BY StepFrame
  <1>2. CASE pc[r] \in {"k3", "signal"}
    <2>1. TailReduce(r)
      <3>1. EndStores(r) \/ K3Step(r)
        BY <1>2, StepAt
      <3>2. ~ EndStores(r) /\ ~ EndTail(r)
        BY DEF EndStores, EndTail
      <3>3. \A i : ~ StoreTile(r, i) /\ ~ CountTile(r, i) /\ ~ SignalPeer(r, i)
        BY DEF StoreTile, CountTile, SignalPeer
      <3> QED BY <3>1, <3>2, <3>3 DEF K3Step
    <2>2. y' = [y EXCEPT ![r] = Reduced(r)] /\ tail /\ \A q \in Ranks : slots[r][q] >= 1
      BY <2>1 DEF TailReduce
    <2>3. ASSUME NEW o \in Ranks
          PROVE  call[o] = call[r] + 1 \/ (call[o] = call[r] /\ pc[o] \in Stored)
      <3>1. slots[r][o] = 1
        BY <2>2 DEF SlotInv
      <3>2. Signalled(o, r)
        BY <1>2, <2>2, <3>1 DEF SlotInv, Resetted
      <3>3. call[o] \in {call[r] - 1, call[r], call[r] + 1}
        BY Neighbours
      <3> QED BY <1>0, <3>2, <3>3 DEF Signalled, Stored
    <2>4. Path(r) # "fused"
      BY <1>0, <1>2 DEF FusedPlaces
    <2> QED BY <1>0, <2>2, <2>3, <2>4
  <1>3. CASE pc[r] = "reduce"
    <2>1. y' = [y EXCEPT ![r] = Reduced(r)] /\ pc'[r] = "host"
      BY <1>3, StepAt DEF ReduceLocal, Go, PlaceInv
    <2>2. Path(r) # "fused"
      BY <1>0, <1>3 DEF FusedPlaces
    <2>3. ASSUME NEW o \in Ranks
          PROVE  call[o] = call[r] + 1 \/ (call[o] = call[r] /\ pc[o] \in Stored)
      <3>1. CASE o = r
        BY <1>3, <3>1 DEF Stored
      <3>2. CASE o # r
        <4>1. call[o] > call[r] \/ (call[o] = call[r] /\ Late(o, r))
          BY <1>3, <2>1, <3>2, EndsLate, StepOthers
        <4>2. call[o] \in {call[r] - 1, call[r], call[r] + 1}
          BY Neighbours
        <4>3. call[o] = call[r] => pc[o] # "fused3In"
          BY <2>2 DEF PlaceInv, Path, FusedPlaces
        <4> QED BY <1>0, <4>1, <4>2, <4>3 DEF Late, LatePlaces, Stored
      <3> QED BY <3>1, <3>2
    <2> QED BY <1>0, <2>1, <2>2, <2>3
  <1>4. CASE pc[r] = "fusedReduce"
    <2>1. y' = [y EXCEPT ![r] = Reduced(r)]
      BY <1>4, StepAt DEF FusedReduce
    <2>2. Path(r) = "fused"
      BY <1>0, <1>4 DEF FusedPlaces
    <2>3. ASSUME NEW o \in Ranks
          PROVE  call[o] = call[r] /\ pc[o] \in FusedStored
      <3>1. call[o] = call[r] /\ pc[o] # "fused1"
        BY <1>4, Together DEF FusedAtWork
      <3>2. /\ f_entered[o] + FusedToCome(o) = f_entered[r] + FusedToCome(r)
            /\ f_entered[r] = f_left[r] + (IF pc[r] \in FusedIn THEN 1 ELSE 0)
            /\ f_left[r] <= f_entered[o]
            /\ f_entered[r] \in Nat /\ f_left[r] \in Nat /\ f_entered[o] \in Nat
        BY <3>1 DEF PaceInv, FusedInv
      <3>3. FusedToCome(r) = 1 /\ pc[r] \notin FusedIn
        BY <1>4 DEF FusedToCome, FusedIn
      <3>4. FusedToCome(o) <= 1
        BY <3>2, <3>3, Counts
      <3>5. pc[o] = "host" \/ pc[o] \in FusedPlaces
        BY <2>2, <3>1 DEF PlaceInv, Path
      <3> QED BY <3>1, <3>4, <3>5 DEF FusedToCome, FusedPlaces, FusedStored
    <2> QED BY <1>0, <2>1, <2>2, <2>3
  <1> QED BY <1>1, <1>2, <1>3, <1>4

(* A reduction of a staged or fused call, with or without the tail reduce,  *)
(* reads rows that their owners computed from this call's inputs and stored *)
(* before: no step of a peer that is ahead or behind, in this path or the   *)
(* other, comes between.  Only a route without a row is left out.           *)
THEOREM ReductionsFresh == Spec /\ []NotWrapped => FreshUnlessDropped
  <1>1. ASSUME CallInvs, IInv, Next, NEW r \in Ranks, y'[r] # y[r], NEW t \in DOMAIN y'[r].read
        PROVE  \/ y'[r].read[t] = call[r]
               \/ Path(r) # "fused" /\ <<r, t>> \notin ToSet(rows[Input(r)[t]])
    <2>1. RankStep(r)
      <3>1. PICK p \in Ranks : RankStep(p)
        BY <1>1 DEF Next, RankStep, Finished, vars
      <3>2. CASE p # r
        <4>1. \/ y' = y \/ y' = [y EXCEPT ![p] = Reduced(p)]
          <5>1. CASE pc[p] \in {"k3", "signal"}
            <6>1. EndStores(p) \/ K3Step(p)
              BY <3>1, <5>1, StepAt
            <6>2. CASE EndStores(p) \/ EndTail(p) \/ TailReduce(p)
              BY <6>2 DEF EndStores, EndTail, TailReduce
            <6>3. \A i : StoreTile(p, i) \/ CountTile(p, i) \/ SignalPeer(p, i) => y' = y
              BY DEF StoreTile, CountTile, SignalPeer
            <6> QED BY <6>1, <6>2, <6>3 DEF K3Step
          <5>2. CASE pc[p] \in {"reduce", "fusedReduce"}
            BY <3>1, <5>2, StepAt DEF ReduceLocal, FusedReduce
          <5>3. CASE pc[p] \notin {"k3", "signal", "reduce", "fusedReduce"}
            BY <1>1, <3>1, <5>3, StepFrame DEF CallInvs, StepInv
          <5> QED BY <5>1, <5>2, <5>3
        <4> QED BY <1>1, <3>2, <4>1 DEF CallInvs, ReduceInv
      <3> QED BY <3>1, <3>2
    <2>2. y'[r] = Reduced(r)
      BY <1>1, <2>1, ReducesFresh
    <2>3. t \in 1 .. Len(Input(r)) /\ y'[r].read[t] = combine[r][t]
      BY <1>1, <2>2 DEF Reduced
    <2>4. call[r] >= 1
      <3>1. pc[r] # "host"
        BY <1>1, <2>1, StepFrame DEF CallInvs, StepInv
      <3> QED BY <1>1, <3>1 DEF CallInvs, StepInv, PlaceInv
    <2> DEFINE o == Input(r)[t]
    <2>5. o \in Ranks /\ t \in 1 .. MaxTokens
      BY <1>1, <2>3, <2>4, CallFacts DEF CallInvs, StepInv
    <2>6. CASE Path(r) = "fused"
      <3>1. call[o] = call[r] + 1 \/ (call[o] = call[r] /\ pc[o] \in FusedStored)
        BY <1>1, <2>1, <2>5, <2>6, ReducesFresh
      <3>2. combine[r][t] = call[r]
        BY <1>1, <2>3, <2>4, <2>5, <2>6, <3>1 DEF CallInvs, FusedFreshInv
      <3> QED BY <2>3, <3>2
    <2>7. CASE Path(r) # "fused" /\ <<r, t>> \in ToSet(rows[o])
      <3>1. call[o] = call[r] + 1 \/ (call[o] = call[r] /\ pc[o] \in Stored)
        BY <1>1, <2>1, <2>5, <2>7, ReducesFresh
      <3>2. combine[r][t] = call[r]
        BY <1>1, <2>4, <2>5, <2>7, <3>1 DEF CallInvs, FreshInv
      <3> QED BY <2>3, <3>2
    <2> QED BY <2>6, <2>7
  <1>2. CallInvs /\ IInv /\ [Next]_vars =>
          [\A r \in Ranks : y'[r] # y[r] =>
             \A t \in DOMAIN y'[r].read :
               \/ y'[r].read[t] = call[r]
               \/ Path(r) # "fused" /\ <<r, t>> \notin ToSet(rows[Input(r)[t]])]_vars
    BY <1>1
  <1> QED BY <1>2, InvsHold, PTL DEF Spec, FreshUnlessDropped

-----------------------------------------------------------------------------
(* The launch state of K3.                                                  *)

(* The fused kernel's first tile stays off the done counter and the         *)
(* addresses of the signals: at most ProbRows routes to a rank.             *)
FusedFits ==
  \A r \in Ranks : call[r] >= 1 /\ Path(r) = "fused" => Cardinality(RoutesOf(call[r], r)) <= ProbRows

(* The replays of a graph come one after another.                           *)
GraphsAdjoin ==
  \A r \in Ranks : call[r] >= 1 /\ Replays(r) => plan[call[r] - 1] = "graph"

LEMMA StepLaunch ==
  ASSUME CallInvs, IInv, FusedFits, LaunchInv, NEW r \in Ranks, RankStep(r), GraphsAdjoin'
  PROVE  LaunchInv'
  <1> USE DEF CallInvs, StepInv
  <1>0. /\ call \in [Ranks -> Nat] /\ DOMAIN k3_prob = Ranks /\ plan' = plan
        /\ tail_addrs \in [Ranks -> BOOLEAN] /\ \A q \in Ranks : tail_addrs[q] = TRUE
    BY PlanFacts, StepOthers DEF LaunchInv, AddrInv
  <1>1. \A q \in Ranks : tail_addrs'[q] = TRUE
    <2>1. CASE pc[r] = "fusedWork"
      <3>1. tail_addrs' = [tail_addrs EXCEPT ![r] = @ /\ Cardinality(RoutesTo(r)) <= ProbRows]
        BY <2>1, StepAt DEF FusedWork
      <3>2. call[r] >= 1 /\ Path(r) = "fused"
        BY <2>1 DEF PlaceInv, FusedPlaces
      <3>3. Cardinality(RoutesTo(r)) <= ProbRows
        BY <2>1, <3>2, RoutesSeen DEF FusedFits
      <3> QED BY <1>0, <3>1, <3>3
    <2>2. CASE pc[r] # "fusedWork"
      BY <1>0, <2>2, StepFrame
    <2> QED BY <2>1, <2>2
  <1>2. /\ DOMAIN k3_prob' = Ranks
        /\ \A q \in Ranks \ {r} : k3_prob'[q] = k3_prob[q]
        /\ pc[r] = "quant" => k3_prob'[r] = IF Replays(r) THEN k3_prob[r] ELSE Args(r)
        /\ pc[r] \notin {"quant", "fusedWork"} => k3_prob' = k3_prob
    <2>1. CASE pc[r] = "quant"
      <3>1. k3_prob' = [k3_prob EXCEPT ![r] = IF Replays(r) THEN @ ELSE Args(r)]
        BY <2>1, StepAt DEF QuantK2
      <3> QED BY <1>0, <2>1, <3>1
    <2>2. CASE pc[r] = "fusedWork"
      <3>1. k3_prob' = [k3_prob EXCEPT ![r] = IF RoutesTo(r) = {} THEN @ ELSE Garbage]
        BY <2>2, StepAt DEF FusedWork
      <3> QED BY <1>0, <2>2, <3>1
    <2>3. CASE pc[r] \notin {"quant", "fusedWork"}
      BY <1>0, <2>3, StepFrame
    <2> QED BY <2>1, <2>2, <2>3
  <1>3. ASSUME NEW q \in Ranks, q # r
        PROVE  /\ call'[q] >= 1 /\ Path(q)' # "fused" /\ pc'[q] \notin Early => k3_prob'[q] = Args(q)'
               /\ pc'[q] \in Early /\ Replays(q)' => k3_prob'[q] = Args(q)'
    <2>1. call'[q] = call[q] /\ pc'[q] = pc[q]
      BY <1>3, StepOthers
    <2>2. Path(q)' = Path(q) /\ Args(q)' = Args(q) /\ (Replays(q)' <=> Replays(q))
      BY <1>0, <2>1 DEF Path, Args, Replays
    <2> QED BY <1>2, <1>3, <2>1, <2>2 DEF LaunchInv
  <1>4. /\ call'[r] >= 1 /\ Path(r)' # "fused" /\ pc'[r] \notin Early => k3_prob'[r] = Args(r)'
        /\ pc'[r] \in Early /\ Replays(r)' => k3_prob'[r] = Args(r)'
    <2>1. CASE pc[r] = "host"
      <3>1. /\ call'[r] = call[r] + 1 /\ k3_prob' = k3_prob
            /\ pc'[r] = (IF plan[call'[r]] = "fused" THEN "fused1" ELSE "reset")
        BY <1>0, <1>2, <2>1, StepAt DEF BeginCall, Go, PlaceInv
      <3>2. Path(r)' # "fused" => pc'[r] \in Early
        BY <1>0, <3>1 DEF Path, Early
      <3>3. ASSUME Replays(r)'
            PROVE  k3_prob[r] = Args(r)'
        <4>1. Path(r)' = "graph" /\ call[r] >= 1
          BY <1>0, <3>1, <3>3 DEF Replays
        <4>2. plan[call[r]] = "graph"
          <5>1. plan'[call'[r] - 1] = "graph"
            BY <1>0, <3>1, <3>3, <4>1 DEF GraphsAdjoin
          <5>2. call'[r] - 1 = call[r]
            BY <1>0, <3>1
          <5> QED BY <1>0, <5>1, <5>2
        <4>3. Path(r) = "graph" /\ k3_prob[r] = Args(r)
          BY <2>1, <4>1, <4>2 DEF LaunchInv, Path, Early
        <4> QED BY <4>1, <4>3 DEF Args
      <3> QED BY <3>1, <3>2, <3>3
    <2>2. CASE pc[r] # "host"
      <3>1. call' = call /\ InCall(r)
        BY <2>2, StepOthers
      <3>2. Path(r)' = Path(r) /\ Args(r)' = Args(r) /\ (Replays(r)' <=> Replays(r))
        BY <1>0, <3>1 DEF Path, Args, Replays
      <3>3. CASE pc[r] = "quant"
        <4>1. pc'[r] = "k3"
          BY <3>3, StepAt DEF QuantK2, Go, PlaceInv
        <4>2. k3_prob'[r] = Args(r)
          BY <1>2, <3>3 DEF LaunchInv, Early
        <4> QED BY <3>2, <4>1, <4>2 DEF Early
      <3>4. CASE pc[r] = "fusedWork"
        <4>1. Path(r) = "fused"
          BY <3>4 DEF PlaceInv, FusedPlaces
        <4>2. ~ Replays(r)
          BY <4>1 DEF Replays
        <4> QED BY <3>2, <4>1, <4>2
      <3>5. CASE pc[r] \notin {"quant", "fusedWork"}
        <4>1. k3_prob' = k3_prob
          BY <1>2, <3>5
        <4>2. pc'[r] \in Early <=> pc[r] \in Early
          <5>1. pc'[r] \in Early => pc[r] \in Early
            BY <2>2, <3>1, PlaceBefore DEF Early
          <5>2. pc[r] \in Early => pc'[r] \in Early
            BY <3>1, <3>5 DEF InCall, Calm, Edge, Enters, Leaves, FusedEnters, FusedLeaves, PlaceInv,
                              Early
          <5> QED BY <5>1, <5>2
        <4> QED BY <3>1, <3>2, <4>1, <4>2 DEF LaunchInv
      <3> QED BY <3>3, <3>4, <3>5
    <2> QED BY <2>1, <2>2
  <1> QED BY <1>1, <1>2, <1>3, <1>4 DEF LaunchInv

(* If the fused calls between route at most eight rows to a rank and the    *)
(* replays of a graph follow each other, K3 always finds its own launch     *)
(* arguments and the addresses of the peers' signals in the scratch.        *)
THEOREM LaunchStateKept ==
  Spec /\ []NotWrapped /\ []FusedFits /\ []GraphsAdjoin => []LaunchStateIntact
  <1>1. Init => LaunchInv
    BY DEF Init, LaunchInv, Early
  <1>2. CallInvs /\ IInv /\ FusedFits /\ LaunchInv /\ [Next]_vars /\ GraphsAdjoin' => LaunchInv'
    <2> SUFFICES ASSUME CallInvs, IInv, FusedFits, LaunchInv, [Next]_vars, GraphsAdjoin'
                 PROVE  LaunchInv'
      OBVIOUS
    <2>1. ASSUME NEW r \in Ranks, RankStep(r)
          PROVE  LaunchInv'
      BY <2>1, StepLaunch
    <2>2. CASE UNCHANGED vars
      BY <2>2 DEF vars, config, tailState, LaunchInv, Path, Args, Replays
    <2> QED BY <2>1, <2>2 DEF Next, RankStep, Finished
  <1>3. CallInvs /\ LaunchInv => LaunchStateIntact
    <2> SUFFICES ASSUME CallInvs, LaunchInv, NEW r \in Ranks, pc[r] \in {"k3", "signal"}
                 PROVE  k3_prob[r] = Args(r) /\ (tail => tail_addrs[r])
      BY DEF LaunchStateIntact
    <2>1. call[r] >= 1 /\ Path(r) # "fused"
      BY DEF CallInvs, StepInv, PlaceInv, FusedPlaces
    <2> QED BY <2>1 DEF LaunchInv, Early
  <1> QED BY <1>1, <1>2, <1>3, InvsHold, PTL DEF Spec
=============================================================================

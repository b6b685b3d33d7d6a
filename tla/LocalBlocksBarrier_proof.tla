---------------------- MODULE LocalBlocksBarrier_proof ----------------------
(***************************************************************************)
(* LocalBlocksBarrier implements PhaseBarrier and never times out without  *)
(* cause, for every grid, every number of sense values from two up, and    *)
(* every number of phases.                                                 *)
(*                                                                         *)
(* The argument.  A spinning block whose sense is no longer the current    *)
(* one is Released: its phase is over though its call has not returned.    *)
(* Counting that phase as done, all blocks have done equally many phases.  *)
(* The count is the number of blocks that wait under the current sense,    *)
(* until the last block, which all the others then wait for, takes them    *)
(* out.  Nobody can see the sense change twice, so a sense of two values   *)
(* is enough.                                                              *)
(***************************************************************************)
EXTENDS LocalBlocksBarrier, FiniteSetTheorems, TLAPS

InSpin(b) == pc[b] \in {"spin", "aborted"}

Released(b) == InSpin(b) /\ mySense[b] # sense

Done(b) == IF Released(b) THEN left[b] + 1 ELSE left[b]

Waiting == {b \in Blocks : pc[b] = "drain" \/ (InSpin(b) /\ mySense[b] = sense)}

Flipping == \E b \in Blocks : pc[b] = "flip"

Shape ==
  /\ pc \in [Blocks -> Locations]
  /\ mySense \in [Blocks -> 0 .. SenseValues - 1]
  /\ count \in Nat
  /\ sense \in 0 .. SenseValues - 1
  /\ room \in 1 .. num_blocks
  /\ entered \in [Blocks -> Nat]
  /\ left \in [Blocks -> Nat]

CallInv ==
  \A b \in Blocks :
    entered[b] = IF pc[b] \in {"queued", "outside", "retired"} THEN left[b] ELSE left[b] + 1

SameDone == \A b, c \in Blocks : Done(b) = Done(c)

ArriveInv == \A b \in Blocks : pc[b] = "arrive" => mySense[b] = sense

(* The last block to arrive has all the others waiting.                     *)
LastInv ==
  \A b \in Blocks :
    pc[b] \in {"drain", "flip"} =>
      \A c \in Blocks \ {b} : InSpin(c) /\ mySense[c] = sense

CountInv ==
  /\ Flipping => count = 0
  /\ ~Flipping => count = Cardinality(Waiting)

(* Not all blocks can wait unless one is about to release them.             *)
FullInv == Waiting = Blocks => \E b \in Blocks : pc[b] = "drain"

IInv == Shape /\ CallInv /\ SameDone /\ ArriveInv /\ LastInv /\ CountInv /\ FullInv

LEMMA WaitingFinite == IsFiniteSet(Waiting) /\ Cardinality(Waiting) \in Nat
                       /\ Cardinality(Waiting) <= num_blocks
  BY BlocksAssumption, FS_Subset, FS_CardinalityType DEF Waiting, num_blocks

LEMMA NumBlocks == num_blocks \in Nat /\ num_blocks > 0
  BY BlocksAssumption, FS_CardinalityType, FS_EmptySet DEF num_blocks

LEMMA InitIInv == Init => IInv
  <1> SUFFICES ASSUME Init
               PROVE  IInv
    OBVIOUS
  <1>1. Waiting = {} /\ ~Flipping
    BY DEF Init, Waiting, InSpin, Flipping
  <1>2. Shape
    BY BlocksAssumption DEF Init, Shape, Locations
  <1>3. CountInv
    BY <1>1, FS_EmptySet DEF CountInv, Init
  <1>4. FullInv
    BY <1>1, BlocksAssumption DEF FullInv
  <1>5. CallInv /\ SameDone /\ ArriveInv /\ LastInv
    BY DEF Init, CallInv, SameDone, Done, Released, InSpin, ArriveInv, LastInv
  <1> QED BY <1>2, <1>3, <1>4, <1>5 DEF IInv

-----------------------------------------------------------------------------

(* While some block has not arrived, nobody is last.                        *)
LEMMA NobodyLast ==
  ASSUME IInv, NEW b \in Blocks, ~(InSpin(b) /\ mySense[b] = sense), pc[b] \notin {"drain", "flip"}
  PROVE  \A c \in Blocks : pc[c] \notin {"drain", "flip"}
  BY DEF IInv, LastInv

(* A block moves between places where it neither waits nor is released.     *)
LEMMA OutsideStep ==
  ASSUME IInv, NEW b \in Blocks, Dispatch(b) \/ ReadSense(b) \/ Retire(b)
  PROVE  IInv'
  <1>1. /\ pc[b] \in {"queued", "outside"} /\ pc'[b] \in {"outside", "arrive", "retired"}
        /\ \A c \in Blocks \ {b} : pc'[c] = pc[c] /\ mySense'[c] = mySense[c]
                                   /\ entered'[c] = entered[c]
        /\ count' = count /\ sense' = sense /\ room' = room /\ left' = left
    BY DEF IInv, Shape, Dispatch, ReadSense, Retire
  <1>2. Shape'
    BY DEF IInv, Shape, Locations, Dispatch, ReadSense, Retire
  <1>3. CallInv'
    <2>1. entered'[b] = IF pc'[b] \in {"queued", "outside", "retired"} THEN left[b] ELSE left[b] + 1
      BY DEF IInv, Shape, CallInv, Dispatch, ReadSense, Retire
    <2>2. \A c \in Blocks \ {b} : entered'[c] =
            IF pc'[c] \in {"queued", "outside", "retired"} THEN left'[c] ELSE left'[c] + 1
      BY <1>1 DEF IInv, CallInv
    <2>3. left'[b] = left[b]
      BY <1>1
    <2> QED BY <2>1, <2>2, <2>3 DEF CallInv
  <1>4. \A c \in Blocks : InSpin(c)' = InSpin(c) /\ Released(c)' = Released(c)
    BY <1>1 DEF InSpin, Released
  <1>5. SameDone'
    BY <1>1, <1>4 DEF IInv, SameDone, Done
  <1>6. ArriveInv'
    BY <1>1 DEF IInv, Shape, ArriveInv, Dispatch, ReadSense, Retire
  <1>7. \A c \in Blocks : pc[c] \notin {"drain", "flip"} /\ pc'[c] \notin {"drain", "flip"}
    BY <1>1, NobodyLast DEF InSpin
  <1>8. Waiting' = Waiting /\ ~Flipping /\ ~Flipping'
    BY <1>1, <1>7 DEF Waiting, InSpin, Flipping
  <1>9. LastInv'
    BY <1>7 DEF LastInv
  <1>10. CountInv'
    BY <1>1, <1>8 DEF IInv, CountInv
  <1>11. FullInv'
    BY <1>7, <1>8 DEF IInv, FullInv
  <1> QED BY <1>2, <1>3, <1>5, <1>6, <1>9, <1>10, <1>11 DEF IInv

LEMMA ArriveIInv ==
  ASSUME IInv, NEW b \in Blocks, Arrive(b)
  PROVE  IInv'
  <1>1. /\ pc[b] = "arrive" /\ mySense[b] = sense /\ count' = count + 1
        /\ pc'[b] = (IF count = num_blocks - 1 THEN "drain" ELSE "spin")
        /\ \A c \in Blocks \ {b} : pc'[c] = pc[c]
        /\ mySense' = mySense /\ sense' = sense /\ room' = room /\ entered' = entered /\ left' = left
    BY DEF IInv, Shape, ArriveInv, Arrive
  <1>2. \A c \in Blocks : pc[c] \notin {"drain", "flip"}
    BY <1>1, NobodyLast DEF InSpin
  <1>3. Waiting' = Waiting \union {b} /\ b \notin Waiting
    <2>1. pc'[b] \in {"drain", "spin"}
      BY <1>1
    <2>2. \A c \in Blocks \ {b} : c \in Waiting' <=> c \in Waiting
      BY <1>1 DEF Waiting, InSpin
    <2>3. b \in Waiting' /\ b \notin Waiting
      <3>1. InSpin(b)' \/ pc'[b] = "drain"
        BY <2>1 DEF InSpin
      <3>2. mySense'[b] = sense'
        BY <1>1
      <3>3. ~InSpin(b) /\ pc[b] # "drain"
        BY <1>1 DEF InSpin
      <3> QED BY <3>1, <3>2, <3>3 DEF Waiting
    <2>4. Waiting \subseteq Blocks /\ Waiting' \subseteq Blocks
      BY DEF Waiting
    <2> QED BY <2>2, <2>3, <2>4
  <1>4. Cardinality(Waiting') = Cardinality(Waiting) + 1
    BY <1>3, WaitingFinite, FS_AddElement
  <1>5. count = Cardinality(Waiting) /\ count' = Cardinality(Waiting')
    BY <1>1, <1>2, <1>4 DEF IInv, CountInv, Flipping
  <1>6. Shape' /\ CallInv' /\ ArriveInv'
    BY <1>1 DEF IInv, Shape, CallInv, ArriveInv, Locations, Arrive
  <1>7. SameDone'
    BY <1>1 DEF IInv, SameDone, Done, Released, InSpin
  <1>8. CountInv'
    BY <1>1, <1>2, <1>5 DEF CountInv, Flipping
  <1>9. CASE count = num_blocks - 1
    <2>1. Waiting' = Blocks
      <3>1. Cardinality(Waiting') = Cardinality(Blocks)
        BY <1>1, <1>5, <1>9, NumBlocks DEF num_blocks
      <3>2. Waiting' \in SUBSET Blocks
        BY DEF Waiting
      <3> QED BY <3>1, <3>2, BlocksAssumption, FS_Subset
    <2>2. LastInv'
      BY <1>1, <1>2, <2>1 DEF LastInv, Waiting, InSpin
    <2>3. FullInv'
      BY <1>1, <1>9 DEF FullInv
    <2> QED BY <1>6, <1>7, <1>8, <2>2, <2>3 DEF IInv
  <1>10. CASE count # num_blocks - 1
    <2>1. Waiting' # Blocks
      BY <1>1, <1>5, <1>10, NumBlocks DEF num_blocks, IInv, Shape
    <2>2. LastInv' /\ FullInv'
      BY <1>1, <1>2, <1>10, <2>1 DEF LastInv, FullInv
    <2> QED BY <1>6, <1>7, <1>8, <2>2 DEF IInv
  <1> QED BY <1>9, <1>10

LEMMA DrainIInv ==
  ASSUME IInv, NEW b \in Blocks, Drain(b)
  PROVE  IInv'
  <1>1. /\ pc[b] = "drain" /\ count' = count - num_blocks /\ pc'[b] = "flip"
        /\ \A c \in Blocks \ {b} : pc'[c] = pc[c]
        /\ mySense' = mySense /\ sense' = sense /\ room' = room /\ entered' = entered /\ left' = left
    BY DEF IInv, Shape, Drain
  <1>2. \A c \in Blocks \ {b} : InSpin(c) /\ mySense[c] = sense
    BY <1>1 DEF IInv, LastInv
  <1>3. Waiting = Blocks /\ ~Flipping
    BY <1>1, <1>2 DEF Waiting, Flipping, InSpin
  <1>4. count' = 0
    BY <1>1, <1>3, NumBlocks DEF IInv, CountInv, num_blocks
  <1>5. Shape' /\ CallInv' /\ ArriveInv'
    BY <1>1, <1>4 DEF IInv, Shape, CallInv, ArriveInv, Locations, Drain
  <1>6. SameDone'
    BY <1>1 DEF IInv, SameDone, Done, Released, InSpin
  <1>7. LastInv'
    BY <1>1, <1>2 DEF LastInv, InSpin
  <1>8. CountInv' /\ FullInv'
    BY <1>1, <1>4 DEF CountInv, FullInv, Flipping, Waiting, InSpin
  <1> QED BY <1>5, <1>6, <1>7, <1>8 DEF IInv

LEMMA FlipIInv ==
  ASSUME IInv, NEW b \in Blocks, Flip(b)
  PROVE  IInv'
  <1>1. /\ pc[b] = "flip" /\ pc'[b] = "outside" /\ left'[b] = left[b] + 1
        /\ \A c \in Blocks \ {b} : pc'[c] = pc[c] /\ left'[c] = left[c]
        /\ mySense' = mySense /\ count' = count /\ room' = room /\ entered' = entered
    BY DEF IInv, Shape, Flip
  <1>2. sense' \in 0 .. SenseValues - 1 /\ sense' # sense
    BY BlocksAssumption DEF IInv, Shape, Flip
  <1>3. \A c \in Blocks \ {b} : InSpin(c) /\ mySense[c] = sense
    BY <1>1 DEF IInv, LastInv
  <1>4. Shape' /\ CallInv'
    BY <1>1, <1>2 DEF IInv, Shape, CallInv, Locations, Flip
  <1>5. SameDone'
    <2>1. \A c \in Blocks : Done(c) = left[c]
      BY <1>1, <1>3 DEF Done, Released, InSpin
    <2>2. \A c \in Blocks : Done(c)' = left[c] + 1
      BY <1>1, <1>2, <1>3 DEF Done, Released, InSpin
    <2> QED BY <2>1, <2>2 DEF IInv, SameDone
  <1>6. \A c \in Blocks : pc'[c] \notin {"arrive", "drain", "flip"}
    BY <1>1, <1>3 DEF InSpin
  <1>7. Waiting' = {}
    BY <1>1, <1>2, <1>3, <1>6 DEF Waiting, InSpin
  <1>8. count' = 0
    <2>1. Flipping
      BY <1>1 DEF Flipping
    <2> QED BY <1>1, <2>1 DEF IInv, CountInv
  <1>9. CountInv' /\ FullInv'
    BY <1>6, <1>7, <1>8, BlocksAssumption, FS_EmptySet DEF CountInv, FullInv, Flipping
  <1>10. ArriveInv' /\ LastInv'
    BY <1>6 DEF ArriveInv, LastInv
  <1> QED BY <1>4, <1>5, <1>9, <1>10 DEF IInv

LEMMA SpinDoneIInv ==
  ASSUME IInv, NEW b \in Blocks, SpinDone(b)
  PROVE  IInv'
  <1>1. /\ pc[b] = "spin" /\ mySense[b] # sense /\ pc'[b] = "outside" /\ left'[b] = left[b] + 1
        /\ \A c \in Blocks \ {b} : pc'[c] = pc[c] /\ left'[c] = left[c]
        /\ mySense' = mySense /\ count' = count /\ sense' = sense /\ room' = room /\ entered' = entered
    BY DEF IInv, Shape, SpinDone, SenseChanged
  <1>2. \A c \in Blocks : pc[c] \notin {"drain", "flip"} /\ pc'[c] \notin {"drain", "flip"}
    BY <1>1, NobodyLast
  <1>3. Shape' /\ CallInv' /\ ArriveInv'
    BY <1>1 DEF IInv, Shape, CallInv, ArriveInv, Locations, SpinDone
  <1>4. \A c \in Blocks : Done(c)' = Done(c)
    BY <1>1 DEF Done, Released, InSpin
  <1>5. Waiting' = Waiting /\ ~Flipping /\ ~Flipping'
    BY <1>1, <1>2 DEF Waiting, Flipping, InSpin
  <1>6. SameDone' /\ LastInv'
    BY <1>2, <1>4 DEF IInv, SameDone, LastInv
  <1>7. CountInv'
    BY <1>1, <1>5 DEF IInv, CountInv
  <1>8. FullInv'
    BY <1>2, <1>5 DEF IInv, FullInv
  <1> QED BY <1>3, <1>6, <1>7, <1>8 DEF IInv

LEMMA TimeoutIInv ==
  ASSUME IInv, NEW b \in Blocks, Timeout(b)
  PROVE  IInv'
  <1>1. /\ pc[b] = "spin" /\ pc'[b] = "aborted"
        /\ \A c \in Blocks \ {b} : pc'[c] = pc[c]
        /\ mySense' = mySense /\ count' = count /\ sense' = sense /\ room' = room /\ entered' = entered /\ left' = left
    BY DEF IInv, Shape, Timeout
  <1>2. Shape' /\ CallInv' /\ ArriveInv'
    BY <1>1 DEF IInv, Shape, CallInv, ArriveInv, Locations, Timeout
  <1>3. \A c \in Blocks : InSpin(c)' <=> InSpin(c)
    BY <1>1 DEF InSpin
  <1>4. \A c \in Blocks : Done(c)' = Done(c)
    <2>1. \A c \in Blocks : Released(c)' <=> Released(c)
      BY <1>1, <1>3 DEF Released
    <2> QED BY <1>1, <2>1 DEF Done
  <1>5. \A c \in Blocks : /\ pc'[c] = "drain" <=> pc[c] = "drain"
                          /\ pc'[c] = "flip" <=> pc[c] = "flip"
    BY <1>1
  <1>6. Waiting' = Waiting
    BY <1>1, <1>3, <1>5 DEF Waiting
  <1>7. SameDone'
    BY <1>4 DEF IInv, SameDone
  <1>8. LastInv'
    BY <1>1, <1>3, <1>5 DEF IInv, LastInv
  <1>9. CountInv'
    BY <1>1, <1>5, <1>6 DEF IInv, CountInv, Flipping
  <1>10. FullInv'
    BY <1>5, <1>6 DEF IInv, FullInv
  <1> QED BY <1>2, <1>7, <1>8, <1>9, <1>10 DEF IInv

LEMMA NextIInv == IInv /\ [Next]_vars => IInv'
  <1> SUFFICES ASSUME IInv, [Next]_vars
               PROVE  IInv'
    OBVIOUS
  <1>1. ASSUME NEW b \in Blocks, Step(b) \/ Timeout(b)
        PROVE  IInv'
    BY <1>1, OutsideStep, ArriveIInv, DrainIInv, FlipIInv, SpinDoneIInv, TimeoutIInv DEF Step
  <1>2. CASE UNCHANGED vars
    BY <1>2 DEF vars, IInv, Shape, CallInv, SameDone, Done, Released, InSpin, ArriveInv,
                LastInv, CountInv, FullInv, Waiting, Flipping
  <1> QED BY <1>1, <1>2 DEF Next, Finished

-----------------------------------------------------------------------------

(* The slots stay in range, and are back at zero when the sense changes.    *)
THEOREM Typing == Spec => []TypeOK
  <1>1. IInv => TypeOK
    BY WaitingFinite, NumBlocks DEF IInv, Shape, CountInv, Flipping, TypeOK
  <1> QED BY <1>1, InitIInv, NextIInv, PTL DEF Spec

LEMMA LeaveRefines ==
  ASSUME IInv, NEW b \in Blocks, Flip(b) \/ SpinDone(b)
  PROVE  Phase!Leave(b)
  <1>1. entered[b] = left[b] + 1
    BY DEF IInv, CallInv, Flip, SpinDone
  <1>2. \A c \in Blocks : entered[b] <= entered[c]
    <2> SUFFICES ASSUME NEW c \in Blocks
                 PROVE  entered[b] <= entered[c]
      OBVIOUS
    <2>1. left[b] \in Nat /\ left[c] \in Nat /\ entered[c] \in Nat /\ Done(b) = Done(c)
      BY DEF IInv, Shape, SameDone
    <2>2. CASE Flip(b)
      <3>1. c = b \/ (InSpin(c) /\ mySense[c] = sense)
        BY <2>2 DEF IInv, LastInv, Flip
      <3>2. Done(b) = left[b]
        BY <2>2 DEF Done, Released, InSpin, Flip
      <3>3. CASE c # b
        BY <1>1, <2>1, <3>1, <3>2, <3>3 DEF IInv, CallInv, Done, Released, InSpin
      <3> QED BY <2>1, <3>3
    <2>3. CASE SpinDone(b)
      <3>1. Done(b) = left[b] + 1
        BY <2>3 DEF Done, Released, InSpin, SpinDone, SenseChanged
      <3>2. Done(c) <= entered[c]
        BY <2>1 DEF IInv, CallInv, Done, Released, InSpin
      <3> QED BY <1>1, <2>1, <3>1, <3>2
    <2> QED BY <2>2, <2>3
  <1> QED BY <1>1, <1>2 DEF IInv, Shape, Phase!Leave, Flip, SpinDone

(* mega_moe_local_blocks_barrier is a barrier: it implements PhaseBarrier.  *)
THEOREM Refinement == Spec => ImplementsPhase
  <1>1. Init => Phase!Init
    BY DEF Init, Phase!Init
  <1>2. IInv /\ [Next]_vars => [Phase!Next]_(Phase!vars)
    <2> SUFFICES ASSUME IInv, [Next]_vars
                 PROVE  Phase!Next \/ UNCHANGED Phase!vars
      OBVIOUS
    <2>1. ASSUME NEW b \in Blocks, ReadSense(b)
          PROVE  Phase!Enter(b)
      BY <2>1 DEF IInv, CallInv, ReadSense, Phase!Enter
    <2>2. ASSUME NEW b \in Blocks, Flip(b) \/ SpinDone(b)
          PROVE  Phase!Leave(b)
      BY <2>2, LeaveRefines
    <2>3. ASSUME NEW b \in Blocks,
                 Dispatch(b) \/ Arrive(b) \/ Drain(b) \/ Retire(b) \/ Timeout(b)
          PROVE  UNCHANGED Phase!vars
      BY <2>3 DEF Dispatch, Arrive, Drain, Retire, Timeout, Phase!vars
    <2>4. CASE UNCHANGED vars
      BY <2>4 DEF vars, Phase!vars
    <2> QED BY <2>1, <2>2, <2>3, <2>4 DEF Next, Step, Finished, Phase!Next
  <1> QED BY <1>1, <1>2, InitIInv, NextIInv, PTL DEF Spec, ImplementsPhase, Phase!Spec

LEMMA TimeoutBlames ==
  ASSUME IInv, NEW b \in Blocks, Timeout(b)
  PROVE  \E c \in Blocks : Behind(c, b)
  <1>1. pc[b] = "spin" /\ mySense[b] = sense /\ entered[b] = left[b] + 1 /\ Done(b) = left[b]
    BY DEF IInv, CallInv, Timeout, SenseChanged, Done, Released
  <1>2. CASE \E c \in Blocks : pc[c] \in {"drain", "flip"}
    <2>1. PICK c \in Blocks : pc[c] \in {"drain", "flip"}
      BY <1>2
    <2>2. Done(c) = left[c] /\ entered[c] = left[c] + 1 /\ Done(c) = Done(b)
      BY <2>1 DEF IInv, CallInv, SameDone, Done, Released, InSpin
    <2> QED BY <1>1, <2>1, <2>2 DEF Behind
  <1>3. CASE \A c \in Blocks : pc[c] \notin {"drain", "flip"}
    <2>1. PICK c \in Blocks : c \notin Waiting
      BY <1>3 DEF IInv, FullInv, Waiting
    <2>2. Done(c) = left[b] /\ left[b] \in Nat /\ left[c] \in Nat
      BY <1>1 DEF IInv, Shape, SameDone
    <2>3. CASE Released(c)
      <3>1. entered[c] = left[c] + 1 /\ Done(c) = left[c] + 1
        BY <2>3 DEF IInv, CallInv, Done, Released, InSpin
      <3> QED BY <1>1, <2>2, <3>1 DEF Behind
    <2>4. CASE ~Released(c)
      <3>1. ~InSpin(c) /\ left[c] = left[b]
        BY <2>1, <2>2, <2>4 DEF Waiting, Released, Done
      <3>2. pc[c] \in {"queued", "outside", "retired"} \/ pc[c] = "arrive"
        BY <1>3, <3>1 DEF IInv, Shape, Locations, InSpin
      <3>3. CASE pc[c] = "arrive"
        <4>1. entered[c] = entered[b]
          BY <1>1, <3>1, <3>3 DEF IInv, CallInv
        <4> QED BY <3>3, <4>1 DEF Behind
      <3>4. CASE pc[c] \in {"queued", "outside", "retired"}
        <4>1. entered[c] = left[c]
          BY <3>4 DEF IInv, CallInv
        <4> QED BY <1>1, <2>2, <3>1, <4>1 DEF Behind
      <3> QED BY <3>2, <3>3, <3>4
    <2> QED BY <2>3, <2>4
  <1> QED BY <1>2, <1>3

(* A block only ever aborts in a phase that some block has not finished.    *)
THEOREM Aborts == Spec => AbortsBlamePeer
  <1> DEFINE Blame == \A b \in Blocks : pc[b] # "aborted" /\ pc'[b] = "aborted"
                        => \E c \in Blocks : Behind(c, b)
  <1>1. IInv /\ [Next]_vars => Blame
    <2> SUFFICES ASSUME IInv, [Next]_vars, NEW b \in Blocks,
                        pc[b] # "aborted", pc'[b] = "aborted"
                 PROVE  \E c \in Blocks : Behind(c, b)
      OBVIOUS
    <2>1. Timeout(b)
      BY DEF IInv, Shape, Next, Step, Dispatch, ReadSense, Arrive, Drain, Flip, SpinDone,
             Retire, Timeout, Finished, vars
    <2> QED BY <2>1, TimeoutBlames
  <1> QED BY <1>1, InitIInv, NextIInv, PTL DEF Spec, AbortsBlamePeer
=============================================================================

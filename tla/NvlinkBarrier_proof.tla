------------------------- MODULE NvlinkBarrier_proof -------------------------
(***************************************************************************)
(* grid_sync and the NVLink barrier of the SM100 mega MoE kernel implement *)
(* the phase barrier.  For every number of ranks, SMs and launches, and    *)
(* every tag that is not below the number of SMs.                          *)
(*                                                                         *)
(* The argument.  Only one of the two agents of SM 0 is at the NVLink      *)
(* barrier at a time (PcInv, SentInv), so the rounds of a rank are in      *)
(* sequence.  A signal word counts the ranks whose rounds so far have left *)
(* it up: round n touches word n mod 2, up and then down (Marks).  No rank *)
(* has finished a round that a peer has not signalled to it, hence nobody  *)
(* is two rounds ahead of anybody, and a word that shows its target is     *)
(* that of the round waited for (NvlInv).  A grid counter is the parity of *)
(* its closed phases times the tag, plus what the SMs that are in the open *)
(* phase have added; the last of them flips the tag and closes the phase   *)
(* (GridInv).                                                              *)
(***************************************************************************)
EXTENDS NvlinkBarrier, FiniteSetTheorems, SequenceTheorems, TLAPS

LEMMA AgentFacts ==
  /\ \A i \in GridIndices, r \in Ranks, s \in SMs :
       <<i, r, s>> \in Agents /\ <<i, r, s>>[1] = i /\ <<i, r, s>>[2] = r /\ <<i, r, s>>[3] = s
  /\ \A a \in Agents : a[1] \in GridIndices /\ a[2] \in Ranks /\ a[3] \in SMs /\ a = <<a[1], a[2], a[3]>>
  BY DEF Agents

StepNames == {"arrive", "depart", "signal", "await", "meet"}

(* Sequences of steps, with two or one more.                                *)
LEMMA TwoMore ==
  ASSUME NEW p \in Seq(StepNames), NEW q \in Seq(StepNames), Len(q) = 2
  PROVE  /\ p \o q \in Seq(StepNames) /\ Len(p \o q) = Len(p) + 2
         /\ \A k \in 1 .. Len(p) : (p \o q)[k] = p[k]
         /\ (p \o q)[Len(p) + 1] = q[1] /\ (p \o q)[Len(p) + 2] = q[2]
  <1>1. /\ p \o q \in Seq(StepNames) /\ Len(p \o q) = Len(p) + Len(q)
        /\ \A i \in 1 .. Len(p) + Len(q) : (p \o q)[i] = IF i <= Len(p) THEN p[i] ELSE q[i - Len(p)]
    BY ConcatProperties
  <1> QED BY <1>1

LEMMA OneMore ==
  ASSUME NEW p \in Seq(StepNames), NEW q \in Seq(StepNames), Len(q) = 1
  PROVE  /\ p \o q \in Seq(StepNames) /\ Len(p \o q) = Len(p) + 1
         /\ \A k \in 1 .. Len(p) : (p \o q)[k] = p[k]
         /\ (p \o q)[Len(p) + 1] = q[1]
  <1>1. /\ p \o q \in Seq(StepNames) /\ Len(p \o q) = Len(p) + Len(q)
        /\ \A i \in 1 .. Len(p) + Len(q) : (p \o q)[i] = IF i <= Len(p) THEN p[i] ELSE q[i - Len(p)]
    BY ConcatProperties
  <1> QED BY <1>1

(* The programs by number of step.                                          *)
ZeroPrograms(d, e) ==
  /\ Len(d) = 12 /\ d[1] = "arrive" /\ d[2] = "depart" /\ d[3] = "signal" /\ d[4] = "await"
  /\ d[5] = "arrive" /\ d[6] = "depart" /\ d[7] = "meet" /\ d[8] = "meet" /\ d[9] = "arrive"
  /\ d[10] = "depart" /\ d[11] = "signal" /\ d[12] = "await"
  /\ Len(e) = 8 /\ e[1] = "meet" /\ e[2] = "arrive" /\ e[3] = "depart" /\ e[4] = "signal"
  /\ e[5] = "await" /\ e[6] = "arrive" /\ e[7] = "depart" /\ e[8] = "meet"

OtherPrograms(d, e) ==
  /\ Len(d) = 8 /\ d[1] = "arrive" /\ d[2] = "depart" /\ d[3] = "arrive" /\ d[4] = "depart"
  /\ d[5] = "meet" /\ d[6] = "meet" /\ d[7] = "arrive" /\ d[8] = "depart"
  /\ Len(e) = 6 /\ e[1] = "meet" /\ e[2] = "arrive" /\ e[3] = "depart" /\ e[4] = "arrive"
  /\ e[5] = "depart" /\ e[6] = "meet"

D(r, s) == <<"dispatch", r, s>>
E(r, s) == <<"epilogue", r, s>>

LEMMA ProgramOf ==
  ASSUME NEW r \in Ranks, NEW s \in SMs
  PROVE  IF s = 0 THEN ZeroPrograms(Program[D(r, s)], Program[E(r, s)])
                  ELSE OtherPrograms(Program[D(r, s)], Program[E(r, s)])
  <1> DEFINE d == Program[D(r, s)]
             e == Program[E(r, s)]
             d1 == GridSync
             d2 == d1 \o Nvlink(s)
             d3 == d2 \o GridSync
             both == <<"meet", "meet">>
             d4 == d3 \o both
             d5 == d4 \o GridSync
             e1 == <<"meet">>
             e2 == e1 \o GridSync
             e3 == e2 \o Nvlink(s)
             e4 == e3 \o GridSync
  <1>1. GridIndices = {"dispatch", "epilogue"}
    BY DEF GridIndices
  <1>2. d = d5 \o Nvlink(s) /\ e = e4 \o e1
    BY <1>1, AgentFacts DEF Program, D, E
  <1>3. d1 \in Seq(StepNames) /\ Len(d1) = 2 /\ d1[1] = "arrive" /\ d1[2] = "depart"
    BY DEF GridSync, StepNames
  <1>4. e1 \in Seq(StepNames) /\ Len(e1) = 1 /\ e1[1] = "meet"
    BY DEF StepNames
  <1>5. GridSync \in Seq(StepNames) /\ Len(GridSync) = 2 /\ GridSync[1] = "arrive" /\ GridSync[2] = "depart"
    BY DEF GridSync, StepNames
  <1>9. both \in Seq(StepNames) /\ Len(both) = 2 /\ both[1] = "meet" /\ both[2] = "meet"
    BY DEF StepNames
  <1> HIDE DEF d1, e1, d, e, both
  <1>6. CASE s = 0
    <2>1. Nvlink(s) \in Seq(StepNames) /\ Len(Nvlink(s)) = 2 /\ Nvlink(s)[1] = "signal" /\ Nvlink(s)[2] = "await"
      BY <1>6 DEF Nvlink, StepNames
    <2>20. /\ d2 \in Seq(StepNames) /\ Len(d2) = Len(d1) + 2
          /\ \A k \in 1 .. Len(d1) : d2[k] = d1[k]
          /\ d2[Len(d1) + 1] = "signal" /\ d2[Len(d1) + 2] = "await"
      BY <1>3, <2>1, TwoMore
    <2> HIDE DEF d2
    <2>2. /\ d2 \in Seq(StepNames) /\ Len(d2) = 4
          /\ \A k \in 1 .. 2 : d2[k] = d1[k]
          /\ d2[3] = "signal" /\ d2[4] = "await"
      BY <2>20, <1>3, <2>1
    <2>30. /\ d3 \in Seq(StepNames) /\ Len(d3) = Len(d2) + 2
          /\ \A k \in 1 .. Len(d2) : d3[k] = d2[k]
          /\ d3[Len(d2) + 1] = "arrive" /\ d3[Len(d2) + 2] = "depart"
      BY <1>5, <2>2, TwoMore
    <2> HIDE DEF d3
    <2>3. /\ d3 \in Seq(StepNames) /\ Len(d3) = 6
          /\ \A k \in 1 .. 4 : d3[k] = d2[k]
          /\ d3[5] = "arrive" /\ d3[6] = "depart"
      BY <2>30, <2>2
    <2>40. /\ d4 \in Seq(StepNames) /\ Len(d4) = Len(d3) + 2
          /\ \A k \in 1 .. Len(d3) : d4[k] = d3[k]
          /\ d4[Len(d3) + 1] = "meet" /\ d4[Len(d3) + 2] = "meet"
      BY <1>9, <2>3, TwoMore
    <2> HIDE DEF d4
    <2>4. /\ d4 \in Seq(StepNames) /\ Len(d4) = 8
          /\ \A k \in 1 .. 6 : d4[k] = d3[k]
          /\ d4[7] = "meet" /\ d4[8] = "meet"
      BY <2>40, <2>3
    <2>50. /\ d5 \in Seq(StepNames) /\ Len(d5) = Len(d4) + 2
          /\ \A k \in 1 .. Len(d4) : d5[k] = d4[k]
          /\ d5[Len(d4) + 1] = "arrive" /\ d5[Len(d4) + 2] = "depart"
      BY <1>5, <2>4, TwoMore
    <2> HIDE DEF d5
    <2>5. /\ d5 \in Seq(StepNames) /\ Len(d5) = 10
          /\ \A k \in 1 .. 8 : d5[k] = d4[k]
          /\ d5[9] = "arrive" /\ d5[10] = "depart"
      BY <2>50, <2>4
    <2>60. /\ d \in Seq(StepNames) /\ Len(d) = Len(d5) + 2
          /\ \A k \in 1 .. Len(d5) : d[k] = d5[k]
          /\ d[Len(d5) + 1] = "signal" /\ d[Len(d5) + 2] = "await"
      BY <1>2, <2>1, <2>5, TwoMore
    <2>6. /\ d \in Seq(StepNames) /\ Len(d) = 12
          /\ \A k \in 1 .. 10 : d[k] = d5[k]
          /\ d[11] = "signal" /\ d[12] = "await"
      BY <2>60, <2>5
    <2>70. /\ e2 \in Seq(StepNames) /\ Len(e2) = Len(e1) + 2
          /\ \A k \in 1 .. Len(e1) : e2[k] = e1[k]
          /\ e2[Len(e1) + 1] = "arrive" /\ e2[Len(e1) + 2] = "depart"
      BY <1>4, <1>5, TwoMore
    <2> HIDE DEF e2
    <2>7. /\ e2 \in Seq(StepNames) /\ Len(e2) = 3
          /\ \A k \in 1 .. 1 : e2[k] = e1[k]
          /\ e2[2] = "arrive" /\ e2[3] = "depart"
      BY <2>70, <1>4
    <2>80. /\ e3 \in Seq(StepNames) /\ Len(e3) = Len(e2) + 2
          /\ \A k \in 1 .. Len(e2) : e3[k] = e2[k]
          /\ e3[Len(e2) + 1] = "signal" /\ e3[Len(e2) + 2] = "await"
      BY <2>1, <2>7, TwoMore
    <2> HIDE DEF e3
    <2>8. /\ e3 \in Seq(StepNames) /\ Len(e3) = 5
          /\ \A k \in 1 .. 3 : e3[k] = e2[k]
          /\ e3[4] = "signal" /\ e3[5] = "await"
      BY <2>80, <2>1, <2>7
    <2>90. /\ e4 \in Seq(StepNames) /\ Len(e4) = Len(e3) + 2
          /\ \A k \in 1 .. Len(e3) : e4[k] = e3[k]
          /\ e4[Len(e3) + 1] = "arrive" /\ e4[Len(e3) + 2] = "depart"
      BY <1>5, <2>8, TwoMore
    <2> HIDE DEF e4
    <2>9. /\ e4 \in Seq(StepNames) /\ Len(e4) = 7
          /\ \A k \in 1 .. 5 : e4[k] = e3[k]
          /\ e4[6] = "arrive" /\ e4[7] = "depart"
      BY <2>90, <2>8
    <2>100. /\ e \in Seq(StepNames) /\ Len(e) = Len(e4) + 1
          /\ \A k \in 1 .. Len(e4) : e[k] = e4[k]
          /\ e[Len(e4) + 1] = "meet"
      BY <1>2, <1>4, <2>9, OneMore
    <2>10. /\ e \in Seq(StepNames) /\ Len(e) = 8
          /\ \A k \in 1 .. 7 : e[k] = e4[k]
          /\ e[8] = "meet"
      BY <2>100, <1>4, <2>9
    <2>11. /\ d[1] = "arrive" /\ d[2] = "depart" /\ d[3] = "signal" /\ d[4] = "await" /\ d[5] = "arrive"
           /\ d[6] = "depart" /\ d[7] = "meet" /\ d[8] = "meet" /\ d[9] = "arrive" /\ d[10] = "depart"
           /\ d[11] = "signal" /\ d[12] = "await" /\ Len(d) = 12
      BY <1>3, <2>2, <2>3, <2>4, <2>5, <2>6
    <2>12. /\ e[1] = "meet" /\ e[2] = "arrive" /\ e[3] = "depart" /\ e[4] = "signal" /\ e[5] = "await"
           /\ e[6] = "arrive" /\ e[7] = "depart" /\ e[8] = "meet" /\ Len(e) = 8
      BY <1>4, <2>7, <2>8, <2>9, <2>10
    <2>13. ZeroPrograms(d, e)
      BY <2>11, <2>12 DEF ZeroPrograms
    <2> QED BY <1>6, <2>13 DEF d, e
  <1>7. CASE s # 0
    <2>1. Nvlink(s) = <<>>
      BY <1>7 DEF Nvlink
    <2>2. d2 = d1
      BY <1>3, <2>1, ConcatEmptySeq
    <2> HIDE DEF d2
    <2>30. /\ d3 \in Seq(StepNames) /\ Len(d3) = Len(d1) + 2
          /\ \A k \in 1 .. Len(d1) : d3[k] = d1[k]
          /\ d3[Len(d1) + 1] = "arrive" /\ d3[Len(d1) + 2] = "depart"
      BY <1>3, <1>5, <2>2, TwoMore
    <2> HIDE DEF d3
    <2>3. /\ d3 \in Seq(StepNames) /\ Len(d3) = 4
          /\ \A k \in 1 .. 2 : d3[k] = d1[k]
          /\ d3[3] = "arrive" /\ d3[4] = "depart"
      BY <2>30, <1>3, <2>2
    <2>40. /\ d4 \in Seq(StepNames) /\ Len(d4) = Len(d3) + 2
          /\ \A k \in 1 .. Len(d3) : d4[k] = d3[k]
          /\ d4[Len(d3) + 1] = "meet" /\ d4[Len(d3) + 2] = "meet"
      BY <1>9, <2>3, TwoMore
    <2> HIDE DEF d4
    <2>4. /\ d4 \in Seq(StepNames) /\ Len(d4) = 6
          /\ \A k \in 1 .. 4 : d4[k] = d3[k]
          /\ d4[5] = "meet" /\ d4[6] = "meet"
      BY <2>40, <2>3
    <2>50. /\ d5 \in Seq(StepNames) /\ Len(d5) = Len(d4) + 2
          /\ \A k \in 1 .. Len(d4) : d5[k] = d4[k]
          /\ d5[Len(d4) + 1] = "arrive" /\ d5[Len(d4) + 2] = "depart"
      BY <1>5, <2>4, TwoMore
    <2> HIDE DEF d5
    <2>5. /\ d5 \in Seq(StepNames) /\ Len(d5) = 8
          /\ \A k \in 1 .. 6 : d5[k] = d4[k]
          /\ d5[7] = "arrive" /\ d5[8] = "depart"
      BY <2>50, <2>4
    <2>6. d = d5
      BY <1>2, <2>1, <2>5, ConcatEmptySeq
    <2>70. /\ e2 \in Seq(StepNames) /\ Len(e2) = Len(e1) + 2
          /\ \A k \in 1 .. Len(e1) : e2[k] = e1[k]
          /\ e2[Len(e1) + 1] = "arrive" /\ e2[Len(e1) + 2] = "depart"
      BY <1>4, <1>5, TwoMore
    <2> HIDE DEF e2
    <2>7. /\ e2 \in Seq(StepNames) /\ Len(e2) = 3
          /\ \A k \in 1 .. 1 : e2[k] = e1[k]
          /\ e2[2] = "arrive" /\ e2[3] = "depart"
      BY <2>70, <1>4
    <2>8. e3 = e2
      BY <2>1, <2>7, ConcatEmptySeq
    <2> HIDE DEF e3
    <2>90. /\ e4 \in Seq(StepNames) /\ Len(e4) = Len(e2) + 2
          /\ \A k \in 1 .. Len(e2) : e4[k] = e2[k]
          /\ e4[Len(e2) + 1] = "arrive" /\ e4[Len(e2) + 2] = "depart"
      BY <1>5, <2>7, <2>8, TwoMore
    <2> HIDE DEF e4
    <2>9. /\ e4 \in Seq(StepNames) /\ Len(e4) = 5
          /\ \A k \in 1 .. 3 : e4[k] = e2[k]
          /\ e4[4] = "arrive" /\ e4[5] = "depart"
      BY <2>90, <2>7, <2>8
    <2>100. /\ e \in Seq(StepNames) /\ Len(e) = Len(e4) + 1
          /\ \A k \in 1 .. Len(e4) : e[k] = e4[k]
          /\ e[Len(e4) + 1] = "meet"
      BY <1>2, <1>4, <2>9, OneMore
    <2>10. /\ e \in Seq(StepNames) /\ Len(e) = 6
          /\ \A k \in 1 .. 5 : e[k] = e4[k]
          /\ e[6] = "meet"
      BY <2>100, <1>4, <2>9
    <2>11. /\ d[1] = "arrive" /\ d[2] = "depart" /\ d[3] = "arrive" /\ d[4] = "depart" /\ d[5] = "meet"
           /\ d[6] = "meet" /\ d[7] = "arrive" /\ d[8] = "depart" /\ Len(d) = 8
      BY <1>3, <2>3, <2>4, <2>5, <2>6
    <2>12. /\ e[1] = "meet" /\ e[2] = "arrive" /\ e[3] = "depart" /\ e[4] = "arrive" /\ e[5] = "depart"
           /\ e[6] = "meet" /\ Len(e) = 6
      BY <1>4, <2>7, <2>9, <2>10
    <2>13. OtherPrograms(d, e)
      BY <2>11, <2>12 DEF OtherPrograms
    <2> QED BY <1>7, <2>13 DEF d, e
  <1> QED BY <1>6, <1>7

-----------------------------------------------------------------------------
(* Where the agents are.  The barrier of an SM lets its dispatch warps and  *)
(* its epilogue warps do no NVLink round at the same time.                  *)

PcInv ==
  /\ pc \in [Agents -> Nat]
  /\ \A r \in Ranks, s \in SMs :
       IF s = 0
       THEN /\ pc[D(r, s)] \in 1 .. 13 /\ pc[E(r, s)] \in 1 .. 9
            /\ \/ pc[D(r, s)] <= 7 /\ pc[E(r, s)] = 1
               \/ pc[D(r, s)] = 8 /\ pc[E(r, s)] \in 2 .. 8
               \/ pc[D(r, s)] >= 9 /\ pc[E(r, s)] = 9
       ELSE /\ pc[D(r, s)] \in 1 .. 9 /\ pc[E(r, s)] \in 1 .. 7
            /\ \/ pc[D(r, s)] <= 5 /\ pc[E(r, s)] = 1
               \/ pc[D(r, s)] = 6 /\ pc[E(r, s)] \in 2 .. 6
               \/ pc[D(r, s)] >= 7 /\ pc[E(r, s)] = 7

(* Step n of an agent.                                                      *)
StepAt(a, n, x) == n <= Len(Program[a]) /\ Program[a][n] = x

LEMMA StepsZero ==
  ASSUME NEW r \in Ranks, 0 \in SMs
  PROVE  /\ \A n \in 1 .. 13 :
              /\ StepAt(D(r, 0), n, "arrive") <=> n \in {1, 5, 9}
              /\ StepAt(D(r, 0), n, "depart") <=> n \in {2, 6, 10}
              /\ StepAt(D(r, 0), n, "signal") <=> n \in {3, 11}
              /\ StepAt(D(r, 0), n, "await") <=> n \in {4, 12}
              /\ StepAt(D(r, 0), n, "meet") <=> n \in {7, 8}
              /\ n > Len(Program[D(r, 0)]) <=> n = 13
         /\ \A n \in 1 .. 9 :
              /\ StepAt(E(r, 0), n, "arrive") <=> n \in {2, 6}
              /\ StepAt(E(r, 0), n, "depart") <=> n \in {3, 7}
              /\ StepAt(E(r, 0), n, "signal") <=> n = 4
              /\ StepAt(E(r, 0), n, "await") <=> n = 5
              /\ StepAt(E(r, 0), n, "meet") <=> n \in {1, 8}
              /\ n > Len(Program[E(r, 0)]) <=> n = 9
  <1> DEFINE d == Program[D(r, 0)]
             e == Program[E(r, 0)]
  <1>1. ZeroPrograms(d, e)
    BY ProgramOf
  <1> HIDE DEF d, e
  <1>2. ASSUME NEW n \in 1 .. 13
        PROVE  /\ (n <= 12 /\ d[n] = "arrive") <=> n \in {1, 5, 9}
               /\ (n <= 12 /\ d[n] = "depart") <=> n \in {2, 6, 10}
               /\ (n <= 12 /\ d[n] = "signal") <=> n \in {3, 11}
               /\ (n <= 12 /\ d[n] = "await") <=> n \in {4, 12}
               /\ (n <= 12 /\ d[n] = "meet") <=> n \in {7, 8}
    BY <1>1, <1>2 DEF ZeroPrograms
  <1>3. ASSUME NEW n \in 1 .. 9
        PROVE  /\ (n <= 8 /\ e[n] = "arrive") <=> n \in {2, 6}
               /\ (n <= 8 /\ e[n] = "depart") <=> n \in {3, 7}
               /\ (n <= 8 /\ e[n] = "signal") <=> n = 4
               /\ (n <= 8 /\ e[n] = "await") <=> n = 5
               /\ (n <= 8 /\ e[n] = "meet") <=> n \in {1, 8}
    BY <1>1, <1>3 DEF ZeroPrograms
  <1>4. Len(d) = 12 /\ Len(e) = 8
    BY <1>1 DEF ZeroPrograms
  <1>5. ASSUME NEW n, NEW x
        PROVE  /\ StepAt(D(r, 0), n, x) <=> (n <= 12 /\ d[n] = x)
               /\ StepAt(E(r, 0), n, x) <=> (n <= 8 /\ e[n] = x)
    <2>1. /\ StepAt(D(r, 0), n, x) <=> (n <= Len(d) /\ d[n] = x)
          /\ StepAt(E(r, 0), n, x) <=> (n <= Len(e) /\ e[n] = x)
      BY DEF StepAt, d, e
    <2> QED BY <2>1, <1>4
  <1>6. /\ \A n \in 1 .. 13 : n > Len(d) <=> n = 13
        /\ \A n \in 1 .. 9 : n > Len(e) <=> n = 9
    BY <1>4
  <1>7. ASSUME NEW n \in 1 .. 13
        PROVE  /\ StepAt(D(r, 0), n, "arrive") <=> n \in {1, 5, 9}
               /\ StepAt(D(r, 0), n, "depart") <=> n \in {2, 6, 10}
               /\ StepAt(D(r, 0), n, "signal") <=> n \in {3, 11}
               /\ StepAt(D(r, 0), n, "await") <=> n \in {4, 12}
               /\ StepAt(D(r, 0), n, "meet") <=> n \in {7, 8}
    BY <1>2, <1>5
  <1>8. ASSUME NEW n \in 1 .. 9
        PROVE  /\ StepAt(E(r, 0), n, "arrive") <=> n \in {2, 6}
               /\ StepAt(E(r, 0), n, "depart") <=> n \in {3, 7}
               /\ StepAt(E(r, 0), n, "signal") <=> n = 4
               /\ StepAt(E(r, 0), n, "await") <=> n = 5
               /\ StepAt(E(r, 0), n, "meet") <=> n \in {1, 8}
    BY <1>3, <1>5
  <1>9. /\ \A n \in 1 .. 13 : n > Len(Program[D(r, 0)]) <=> n = 13
        /\ \A n \in 1 .. 9 : n > Len(Program[E(r, 0)]) <=> n = 9
    BY <1>6 DEF d, e
  <1> QED BY <1>7, <1>8, <1>9

LEMMA StepsOther ==
  ASSUME NEW r \in Ranks, NEW s \in SMs, s # 0
  PROVE  /\ \A n \in 1 .. 9 :
              /\ StepAt(D(r, s), n, "arrive") <=> n \in {1, 3, 7}
              /\ StepAt(D(r, s), n, "depart") <=> n \in {2, 4, 8}
              /\ StepAt(D(r, s), n, "meet") <=> n \in {5, 6}
              /\ ~ StepAt(D(r, s), n, "signal") /\ ~ StepAt(D(r, s), n, "await")
              /\ n > Len(Program[D(r, s)]) <=> n = 9
         /\ \A n \in 1 .. 7 :
              /\ StepAt(E(r, s), n, "arrive") <=> n \in {2, 4}
              /\ StepAt(E(r, s), n, "depart") <=> n \in {3, 5}
              /\ StepAt(E(r, s), n, "meet") <=> n \in {1, 6}
              /\ ~ StepAt(E(r, s), n, "signal") /\ ~ StepAt(E(r, s), n, "await")
              /\ n > Len(Program[E(r, s)]) <=> n = 7
  <1> DEFINE d == Program[D(r, s)]
             e == Program[E(r, s)]
  <1>1. OtherPrograms(d, e)
    BY ProgramOf
  <1> HIDE DEF d, e
  <1>2. ASSUME NEW n \in 1 .. 9
        PROVE  /\ (n <= 8 /\ d[n] = "arrive") <=> n \in {1, 3, 7}
               /\ (n <= 8 /\ d[n] = "depart") <=> n \in {2, 4, 8}
               /\ (n <= 8 /\ d[n] = "meet") <=> n \in {5, 6}
               /\ ~ (n <= 8 /\ d[n] = "signal") /\ ~ (n <= 8 /\ d[n] = "await")
    BY <1>1, <1>2 DEF OtherPrograms
  <1>3. ASSUME NEW n \in 1 .. 7
        PROVE  /\ (n <= 6 /\ e[n] = "arrive") <=> n \in {2, 4}
               /\ (n <= 6 /\ e[n] = "depart") <=> n \in {3, 5}
               /\ (n <= 6 /\ e[n] = "meet") <=> n \in {1, 6}
               /\ ~ (n <= 6 /\ e[n] = "signal") /\ ~ (n <= 6 /\ e[n] = "await")
    BY <1>1, <1>3 DEF OtherPrograms
  <1>4. Len(d) = 8 /\ Len(e) = 6
    BY <1>1 DEF OtherPrograms
  <1>5. ASSUME NEW n, NEW x
        PROVE  /\ StepAt(D(r, s), n, x) <=> (n <= 8 /\ d[n] = x)
               /\ StepAt(E(r, s), n, x) <=> (n <= 6 /\ e[n] = x)
    <2>1. /\ StepAt(D(r, s), n, x) <=> (n <= Len(d) /\ d[n] = x)
          /\ StepAt(E(r, s), n, x) <=> (n <= Len(e) /\ e[n] = x)
      BY DEF StepAt, d, e
    <2> QED BY <2>1, <1>4
  <1>6. /\ \A n \in 1 .. 9 : n > Len(d) <=> n = 9
        /\ \A n \in 1 .. 7 : n > Len(e) <=> n = 7
    BY <1>4
  <1>7. ASSUME NEW n \in 1 .. 9
        PROVE  /\ StepAt(D(r, s), n, "arrive") <=> n \in {1, 3, 7}
               /\ StepAt(D(r, s), n, "depart") <=> n \in {2, 4, 8}
               /\ StepAt(D(r, s), n, "meet") <=> n \in {5, 6}
               /\ ~ StepAt(D(r, s), n, "signal") /\ ~ StepAt(D(r, s), n, "await")
    BY <1>2, <1>5
  <1>8. ASSUME NEW n \in 1 .. 7
        PROVE  /\ StepAt(E(r, s), n, "arrive") <=> n \in {2, 4}
               /\ StepAt(E(r, s), n, "depart") <=> n \in {3, 5}
               /\ StepAt(E(r, s), n, "meet") <=> n \in {1, 6}
               /\ ~ StepAt(E(r, s), n, "signal") /\ ~ StepAt(E(r, s), n, "await")
    BY <1>3, <1>5
  <1>9. /\ \A n \in 1 .. 9 : n > Len(Program[D(r, s)]) <=> n = 9
        /\ \A n \in 1 .. 7 : n > Len(Program[E(r, s)]) <=> n = 7
    BY <1>6 DEF d, e
  <1> QED BY <1>7, <1>8, <1>9

LEMMA AtIs == \A a, x : At(a, x) = StepAt(a, pc[a], x) /\ At(a, x)' = StepAt(a, pc'[a], x)
  BY DEF At, StepAt

LEMMA PlacesZero ==
  ASSUME PcInv, NEW r \in Ranks, 0 \in SMs
  PROVE  /\ At(D(r, 0), "arrive") <=> pc[D(r, 0)] \in {1, 5, 9}
         /\ At(D(r, 0), "depart") <=> pc[D(r, 0)] \in {2, 6, 10}
         /\ At(D(r, 0), "signal") <=> pc[D(r, 0)] \in {3, 11}
         /\ At(D(r, 0), "await") <=> pc[D(r, 0)] \in {4, 12}
         /\ At(D(r, 0), "meet") <=> pc[D(r, 0)] \in {7, 8}
         /\ At(E(r, 0), "arrive") <=> pc[E(r, 0)] \in {2, 6}
         /\ At(E(r, 0), "depart") <=> pc[E(r, 0)] \in {3, 7}
         /\ At(E(r, 0), "signal") <=> pc[E(r, 0)] = 4
         /\ At(E(r, 0), "await") <=> pc[E(r, 0)] = 5
         /\ At(E(r, 0), "meet") <=> pc[E(r, 0)] \in {1, 8}
         /\ pc[D(r, 0)] > Len(Program[D(r, 0)]) <=> pc[D(r, 0)] = 13
         /\ pc[E(r, 0)] > Len(Program[E(r, 0)]) <=> pc[E(r, 0)] = 9
  <1>1. pc[D(r, 0)] \in 1 .. 13 /\ pc[E(r, 0)] \in 1 .. 9
    BY DEF PcInv
  <1> QED BY <1>1, StepsZero, AtIs

LEMMA PlacesOther ==
  ASSUME PcInv, NEW r \in Ranks, NEW s \in SMs, s # 0
  PROVE  /\ At(D(r, s), "arrive") <=> pc[D(r, s)] \in {1, 3, 7}
         /\ At(D(r, s), "depart") <=> pc[D(r, s)] \in {2, 4, 8}
         /\ At(D(r, s), "meet") <=> pc[D(r, s)] \in {5, 6}
         /\ At(E(r, s), "arrive") <=> pc[E(r, s)] \in {2, 4}
         /\ At(E(r, s), "depart") <=> pc[E(r, s)] \in {3, 5}
         /\ At(E(r, s), "meet") <=> pc[E(r, s)] \in {1, 6}
         /\ pc[D(r, s)] > Len(Program[D(r, s)]) <=> pc[D(r, s)] = 9
         /\ pc[E(r, s)] > Len(Program[E(r, s)]) <=> pc[E(r, s)] = 7
  <1>1. pc[D(r, s)] \in 1 .. 9 /\ pc[E(r, s)] \in 1 .. 7
    BY DEF PcInv
  <1> QED BY <1>1, StepsOther, AtIs

LEMMA AgentsAre ==
  /\ \A r \in Ranks, s \in SMs : D(r, s) \in Agents /\ E(r, s) \in Agents
  /\ \A i \in GridIndices, r \in Ranks, s \in SMs : <<i, r, s>> \in {D(r, s), E(r, s)}
  /\ \A a \in Agents : a[2] \in Ranks /\ a[3] \in SMs /\ a \in {D(a[2], a[3]), E(a[2], a[3])}
  /\ \A r, q, s, t : D(r, s) = D(q, t) => r = q /\ s = t
  /\ \A r, q, s, t : E(r, s) = E(q, t) => r = q /\ s = t
  /\ \A r, q, s, t : D(r, s) # E(q, t)
  /\ \A r, s : D(r, s)[2] = r /\ E(r, s)[2] = r
  <1>1. \A i \in GridIndices : i = "dispatch" \/ i = "epilogue"
    BY DEF GridIndices
  <1>2. "dispatch" \in GridIndices /\ "epilogue" \in GridIndices
    BY DEF GridIndices
  <1> QED BY <1>1, <1>2, AgentFacts DEF D, E

LEMMA Advance ==
  ASSUME PcInv, NEW r \in Ranks, NEW s \in SMs, NEW a \in {D(r, s), E(r, s)},
         ~ At(a, "meet"), pc[a] <= Len(Program[a]), pc' = [pc EXCEPT ![a] = @ + 1]
  PROVE  PcInv'
  <1>1. a \in Agents /\ pc' \in [Agents -> Nat] /\ pc'[a] = pc[a] + 1
        /\ \A b \in Agents : b # a => pc'[b] = pc[b]
    BY AgentsAre DEF PcInv
  <1>2. ASSUME NEW q \in Ranks, NEW t \in SMs, q # r \/ t # s
        PROVE  pc'[D(q, t)] = pc[D(q, t)] /\ pc'[E(q, t)] = pc[E(q, t)]
    BY <1>1, <1>2, AgentsAre
  <1>3. a = D(r, s) => pc'[D(r, s)] = pc[D(r, s)] + 1 /\ pc'[E(r, s)] = pc[E(r, s)]
    BY <1>1, AgentsAre
  <1>4. a = E(r, s) => pc'[E(r, s)] = pc[E(r, s)] + 1 /\ pc'[D(r, s)] = pc[D(r, s)]
    BY <1>1, AgentsAre
  <1>5. CASE s = 0
    <2>1. ASSUME a = D(r, s)
          PROVE  pc[a] \notin {7, 8, 13}
      BY <1>5, <2>1, PlacesZero
    <2>2. ASSUME a = E(r, s)
          PROVE  pc[a] \notin {1, 8, 9}
      BY <1>5, <2>2, PlacesZero
    <2>3. /\ pc'[D(r, s)] \in 1 .. 13 /\ pc'[E(r, s)] \in 1 .. 9
          /\ \/ pc'[D(r, s)] <= 7 /\ pc'[E(r, s)] = 1
             \/ pc'[D(r, s)] = 8 /\ pc'[E(r, s)] \in 2 .. 8
             \/ pc'[D(r, s)] >= 9 /\ pc'[E(r, s)] = 9
      BY <1>3, <1>4, <1>5, <2>1, <2>2 DEF PcInv
    <2> QED BY <1>1, <1>2, <1>5, <2>3 DEF PcInv
  <1>6. CASE s # 0
    <2>1. ASSUME a = D(r, s)
          PROVE  pc[a] \notin {5, 6, 9}
      BY <1>6, <2>1, PlacesOther
    <2>2. ASSUME a = E(r, s)
          PROVE  pc[a] \notin {1, 6, 7}
      BY <1>6, <2>2, PlacesOther
    <2>3. /\ pc'[D(r, s)] \in 1 .. 9 /\ pc'[E(r, s)] \in 1 .. 7
          /\ \/ pc'[D(r, s)] <= 5 /\ pc'[E(r, s)] = 1
             \/ pc'[D(r, s)] = 6 /\ pc'[E(r, s)] \in 2 .. 6
             \/ pc'[D(r, s)] >= 7 /\ pc'[E(r, s)] = 7
      BY <1>3, <1>4, <1>6, <2>1, <2>2 DEF PcInv
    <2> QED BY <1>1, <1>2, <1>6, <2>3 DEF PcInv
  <1> QED BY <1>5, <1>6

LEMMA MeetPc ==
  ASSUME PcInv, NEW r \in Ranks, NEW s \in SMs, Meet(r, s)
  PROVE  PcInv'
  <1>1. {<<i, r, s>> : i \in GridIndices} = {D(r, s), E(r, s)}
    BY DEF GridIndices, D, E
  <1>2. /\ At(D(r, s), "meet") /\ At(E(r, s), "meet")
        /\ pc' = [a \in Agents |-> IF a \in {D(r, s), E(r, s)} THEN pc[a] + 1 ELSE pc[a]]
    BY <1>1 DEF Meet
  <1>3. /\ pc' \in [Agents -> Nat]
        /\ \A q \in Ranks, t \in SMs : q # r \/ t # s =>
             pc'[D(q, t)] = pc[D(q, t)] /\ pc'[E(q, t)] = pc[E(q, t)]
        /\ pc'[D(r, s)] = pc[D(r, s)] + 1 /\ pc'[E(r, s)] = pc[E(r, s)] + 1
    BY <1>2, AgentsAre DEF PcInv
  <1>4. CASE s = 0
    <2>1. pc[D(r, s)] \in {7, 8} /\ pc[E(r, s)] \in {1, 8}
      BY <1>2, <1>4, PlacesZero
    <2>2. /\ pc'[D(r, s)] \in 1 .. 13 /\ pc'[E(r, s)] \in 1 .. 9
          /\ \/ pc'[D(r, s)] <= 7 /\ pc'[E(r, s)] = 1
             \/ pc'[D(r, s)] = 8 /\ pc'[E(r, s)] \in 2 .. 8
             \/ pc'[D(r, s)] >= 9 /\ pc'[E(r, s)] = 9
      BY <1>3, <1>4, <2>1 DEF PcInv
    <2> QED BY <1>3, <1>4, <2>2 DEF PcInv
  <1>5. CASE s # 0
    <2>1. pc[D(r, s)] \in {5, 6} /\ pc[E(r, s)] \in {1, 6}
      BY <1>2, <1>5, PlacesOther
    <2>2. /\ pc'[D(r, s)] \in 1 .. 9 /\ pc'[E(r, s)] \in 1 .. 7
          /\ \/ pc'[D(r, s)] <= 5 /\ pc'[E(r, s)] = 1
             \/ pc'[D(r, s)] = 6 /\ pc'[E(r, s)] \in 2 .. 6
             \/ pc'[D(r, s)] >= 7 /\ pc'[E(r, s)] = 7
      BY <1>3, <1>5, <2>1 DEF PcInv
    <2> QED BY <1>3, <1>5, <2>2 DEF PcInv
  <1> QED BY <1>4, <1>5

LEMMA LaunchPc ==
  ASSUME PcInv, NEW r \in Ranks, Launch(r)
  PROVE  PcInv'
  <1>1. pc' = [a \in Agents |-> IF a[2] = r THEN 1 ELSE pc[a]]
    BY DEF Launch
  <1>2. /\ pc' \in [Agents -> Nat]
        /\ \A q \in Ranks, t \in SMs :
             IF q = r THEN pc'[D(q, t)] = 1 /\ pc'[E(q, t)] = 1
                      ELSE pc'[D(q, t)] = pc[D(q, t)] /\ pc'[E(q, t)] = pc[E(q, t)]
    BY <1>1, AgentsAre DEF PcInv
  <1> QED BY <1>2 DEF PcInv

(* What follows a step.  An agent starts at neither "depart" nor "await".    *)
LEMMA Following ==
  ASSUME PcInv, NEW r \in Ranks, NEW s \in SMs, NEW a \in {D(r, s), E(r, s)}
  PROVE  /\ At(a, "arrive") <=> StepAt(a, pc[a] + 1, "depart")
         /\ At(a, "signal") <=> StepAt(a, pc[a] + 1, "await")
         /\ ~ StepAt(a, 1, "depart") /\ ~ StepAt(a, 1, "await") /\ ~ StepAt(a, 1, "signal")
         /\ s # 0 => ~ At(a, "signal") /\ ~ At(a, "await")
  <1>1. CASE s = 0
    <2>1. pc[D(r, 0)] \in 1 .. 13 /\ pc[E(r, 0)] \in 1 .. 9
      BY <1>1 DEF PcInv
    <2>2. CASE a = D(r, 0)
      <3>1. ASSUME NEW n \in 1 .. 12
            PROVE  /\ StepAt(a, n, "arrive") <=> StepAt(a, n + 1, "depart")
                   /\ StepAt(a, n, "signal") <=> StepAt(a, n + 1, "await")
        <4> DEFINE m == n + 1
        <4>1. n \in 1 .. 13 /\ m \in 1 .. 13
          OBVIOUS
        <4>2. /\ StepAt(a, n, "arrive") <=> n \in {1, 5, 9}
              /\ StepAt(a, n, "signal") <=> n \in {3, 11}
          BY <1>1, <2>2, <4>1, StepsZero
        <4> HIDE DEF m
        <4>3. /\ StepAt(a, m, "depart") <=> m \in {2, 6, 10}
              /\ StepAt(a, m, "await") <=> m \in {4, 12}
          BY <1>1, <2>2, <4>1, StepsZero
        <4> QED BY <4>2, <4>3 DEF m
      <3>2. /\ ~ StepAt(a, 13, "arrive") /\ ~ StepAt(a, 13, "signal")
            /\ ~ StepAt(a, 13 + 1, "depart") /\ ~ StepAt(a, 13 + 1, "await")
        <4>1. /\ ~ StepAt(a, 13, "arrive") /\ ~ StepAt(a, 13, "signal")
          BY <1>1, <2>2, StepsZero
        <4>2. Len(Program[a]) = 12
          BY <1>1, <2>2, ProgramOf DEF ZeroPrograms
        <4> QED BY <4>1, <4>2 DEF StepAt
      <3>3. ~ StepAt(a, 1, "depart") /\ ~ StepAt(a, 1, "await") /\ ~ StepAt(a, 1, "signal")
        BY <1>1, <2>2, StepsZero
      <3>4. pc[a] \in 1 .. 12 \/ pc[a] = 13
        BY <2>1, <1>1, <2>2
      <3> QED BY <3>1, <3>2, <3>3, <3>4, AtIs, <1>1, <2>2
    <2>3. CASE a = E(r, 0)
      <3>1. ASSUME NEW n \in 1 .. 8
            PROVE  /\ StepAt(a, n, "arrive") <=> StepAt(a, n + 1, "depart")
                   /\ StepAt(a, n, "signal") <=> StepAt(a, n + 1, "await")
        <4> DEFINE m == n + 1
        <4>1. n \in 1 .. 9 /\ m \in 1 .. 9
          OBVIOUS
        <4>2. /\ StepAt(a, n, "arrive") <=> n \in {2, 6}
              /\ StepAt(a, n, "signal") <=> n \in {4}
          BY <1>1, <2>3, <4>1, StepsZero
        <4> HIDE DEF m
        <4>3. /\ StepAt(a, m, "depart") <=> m \in {3, 7}
              /\ StepAt(a, m, "await") <=> m \in {5}
          BY <1>1, <2>3, <4>1, StepsZero
        <4> QED BY <4>2, <4>3 DEF m
      <3>2. /\ ~ StepAt(a, 9, "arrive") /\ ~ StepAt(a, 9, "signal")
            /\ ~ StepAt(a, 9 + 1, "depart") /\ ~ StepAt(a, 9 + 1, "await")
        <4>1. /\ ~ StepAt(a, 9, "arrive") /\ ~ StepAt(a, 9, "signal")
          BY <1>1, <2>3, StepsZero
        <4>2. Len(Program[a]) = 8
          BY <1>1, <2>3, ProgramOf DEF ZeroPrograms
        <4> QED BY <4>1, <4>2 DEF StepAt
      <3>3. ~ StepAt(a, 1, "depart") /\ ~ StepAt(a, 1, "await") /\ ~ StepAt(a, 1, "signal")
        BY <1>1, <2>3, StepsZero
      <3>4. pc[a] \in 1 .. 8 \/ pc[a] = 9
        BY <2>1, <1>1, <2>3
      <3> QED BY <3>1, <3>2, <3>3, <3>4, AtIs, <1>1, <2>3
    <2> QED BY <1>1, <2>2, <2>3
  <1>2. CASE s # 0
    <2>1. pc[D(r, s)] \in 1 .. 9 /\ pc[E(r, s)] \in 1 .. 7
      BY <1>2 DEF PcInv
    <2>2. CASE a = D(r, s)
      <3>1. ASSUME NEW n \in 1 .. 8
            PROVE  /\ StepAt(a, n, "arrive") <=> StepAt(a, n + 1, "depart")
                   /\ StepAt(a, n, "signal") <=> StepAt(a, n + 1, "await")
        <4> DEFINE m == n + 1
        <4>1. n \in 1 .. 9 /\ m \in 1 .. 9
          OBVIOUS
        <4>2. /\ StepAt(a, n, "arrive") <=> n \in {1, 3, 7}
              /\ StepAt(a, n, "signal") <=> FALSE
          BY <1>2, <2>2, <4>1, StepsOther
        <4> HIDE DEF m
        <4>3. /\ StepAt(a, m, "depart") <=> m \in {2, 4, 8}
              /\ StepAt(a, m, "await") <=> FALSE
          BY <1>2, <2>2, <4>1, StepsOther
        <4> QED BY <4>2, <4>3 DEF m
      <3>2. /\ ~ StepAt(a, 9, "arrive") /\ ~ StepAt(a, 9, "signal")
            /\ ~ StepAt(a, 9 + 1, "depart") /\ ~ StepAt(a, 9 + 1, "await")
        <4>1. /\ ~ StepAt(a, 9, "arrive") /\ ~ StepAt(a, 9, "signal")
          BY <1>2, <2>2, StepsOther
        <4>2. Len(Program[a]) = 8
          BY <1>2, <2>2, ProgramOf DEF OtherPrograms
        <4> QED BY <4>1, <4>2 DEF StepAt
      <3>3. ~ StepAt(a, 1, "depart") /\ ~ StepAt(a, 1, "await") /\ ~ StepAt(a, 1, "signal")
        BY <1>2, <2>2, StepsOther
      <3>4. pc[a] \in 1 .. 8 \/ pc[a] = 9
        BY <2>1, <1>2, <2>2
      <3>5. ~ StepAt(a, pc[a], "signal") /\ ~ StepAt(a, pc[a], "await")
        BY <2>1, <1>2, <2>2, StepsOther
      <3> QED BY <3>1, <3>2, <3>3, <3>4, AtIs, <3>5
    <2>3. CASE a = E(r, s)
      <3>1. ASSUME NEW n \in 1 .. 6
            PROVE  /\ StepAt(a, n, "arrive") <=> StepAt(a, n + 1, "depart")
                   /\ StepAt(a, n, "signal") <=> StepAt(a, n + 1, "await")
        <4> DEFINE m == n + 1
        <4>1. n \in 1 .. 7 /\ m \in 1 .. 7
          OBVIOUS
        <4>2. /\ StepAt(a, n, "arrive") <=> n \in {2, 4}
              /\ StepAt(a, n, "signal") <=> FALSE
          BY <1>2, <2>3, <4>1, StepsOther
        <4> HIDE DEF m
        <4>3. /\ StepAt(a, m, "depart") <=> m \in {3, 5}
              /\ StepAt(a, m, "await") <=> FALSE
          BY <1>2, <2>3, <4>1, StepsOther
        <4> QED BY <4>2, <4>3 DEF m
      <3>2. /\ ~ StepAt(a, 7, "arrive") /\ ~ StepAt(a, 7, "signal")
            /\ ~ StepAt(a, 7 + 1, "depart") /\ ~ StepAt(a, 7 + 1, "await")
        <4>1. /\ ~ StepAt(a, 7, "arrive") /\ ~ StepAt(a, 7, "signal")
          BY <1>2, <2>3, StepsOther
        <4>2. Len(Program[a]) = 6
          BY <1>2, <2>3, ProgramOf DEF OtherPrograms
        <4> QED BY <4>1, <4>2 DEF StepAt
      <3>3. ~ StepAt(a, 1, "depart") /\ ~ StepAt(a, 1, "await") /\ ~ StepAt(a, 1, "signal")
        BY <1>2, <2>3, StepsOther
      <3>4. pc[a] \in 1 .. 6 \/ pc[a] = 7
        BY <2>1, <1>2, <2>3
      <3>5. ~ StepAt(a, pc[a], "signal") /\ ~ StepAt(a, pc[a], "await")
        BY <2>1, <1>2, <2>3, StepsOther
      <3> QED BY <3>1, <3>2, <3>3, <3>4, AtIs, <3>5
    <2> QED BY <1>2, <2>2, <2>3
  <1> QED BY <1>1, <1>2

-----------------------------------------------------------------------------
(* Where SM 0 of a rank is in the round of signals: waiting, or sending.     *)
Awaits(r) == At(D(r, 0), "await") \/ At(E(r, 0), "await")
Begun(r) == Awaits(r) \/ sent[D(r, 0)] # {} \/ sent[E(r, 0)] # {}
Reached(r, q) == Awaits(r) \/ q \in sent[D(r, 0)] \/ q \in sent[E(r, 0)]

(* Rounds for which rank r has signalled rank q.                            *)
Signalled(r, q) == rounds[r] + (IF Reached(r, q) THEN 1 ELSE 0)

(* A rank has left its mark in word p after the rounds that count up there   *)
(* and until those that count down: of four rounds, two.                     *)
Marks(n, p) == n % 4 \in (IF p = 0 THEN {1, 2} ELSE {2, 3})
Marked(q, p) == {r \in Ranks : Marks(Signalled(r, q), p)}

SentInv ==
  /\ sent \in [Agents -> SUBSET Ranks]
  /\ \A a \in Agents : sent[a] # Ranks /\ (sent[a] # {} => At(a, "signal"))

NvlInv ==
  /\ rounds \in [Ranks -> Nat]
  /\ signal \in [Ranks -> [{0, 1} -> Int]]
  /\ nvlReturns = rounds
  /\ nvlCalls \in [Ranks -> Nat]
  /\ \A r \in Ranks : nvlCalls[r] = rounds[r] + (IF Begun(r) THEN 1 ELSE 0)
  /\ \A r, q \in Ranks : rounds[r] <= Signalled(q, r)
  /\ \A q \in Ranks, p \in {0, 1} : signal[q][p] = Cardinality(Marked(q, p))

(* What SMs A have added to a counter in the phase that is open, k for k     *)
(* phases closed, and what that makes of it.                                *)
Added(A) == Cardinality(A) + (IF 0 \in A THEN FinishTag - NumSMs ELSE 0)
Counted(c, g, k) ==
  /\ \A s \in SMs : c[s] \in {k, k + 1}
  /\ \E s \in SMs : c[s] = k
  /\ g = (k % 2) * FinishTag + Added({s \in SMs : c[s] = k + 1})

GridInv(r, i) ==
  /\ grid[r][i] \in Nat
  /\ drawn[r][i] \in [SMs -> Nat]
  /\ gridCalls[r][i] \in [SMs -> Nat]
  /\ gridReturns[r][i] \in [SMs -> Nat]
  /\ \A s \in SMs :
       /\ gridCalls[r][i][s] = gridReturns[r][i][s] + (IF At(<<i, r, s>>, "depart") THEN 1 ELSE 0)
       /\ At(<<i, r, s>>, "depart") => (Tagged(drawn[r][i][s]) <=> gridReturns[r][i][s] % 2 = 1)
       /\ \A t \in SMs : gridReturns[r][i][s] <= gridCalls[r][i][t]
  /\ \E k \in Nat : Counted(gridCalls[r][i], grid[r][i], k)
GridTyped ==
  /\ grid \in [Ranks -> [GridIndices -> Nat]]
  /\ drawn \in [Ranks -> [GridIndices -> [SMs -> Nat]]]
  /\ gridCalls \in [Ranks -> [GridIndices -> [SMs -> Nat]]]
  /\ gridReturns \in [Ranks -> [GridIndices -> [SMs -> Nat]]]

(* What an agent's move changes: it comes to "depart" from "arrive" and to   *)
(* "await" from "signal", and nowhere else.                                 *)
Steady(a) ==
  /\ At(a, "depart")' <=> At(a, "depart")
  /\ At(a, "await")' <=> At(a, "await")
  /\ At(a, "signal") => At(a, "signal")'
Calm(a) ==
  /\ At(a, "await")' <=> At(a, "await")
  /\ At(a, "signal") => At(a, "signal")'

LEMMA OneAt ==
  ASSUME NEW a, NEW x, NEW y, At(a, x), At(a, y)
  PROVE  x = y
  BY DEF At

LEMMA StepMoves ==
  ASSUME PcInv, NEW a \in Agents, pc' = [pc EXCEPT ![a] = @ + 1]
  PROVE  /\ At(a, "depart")' <=> At(a, "arrive")
         /\ At(a, "await")' <=> At(a, "signal")
         /\ \A b \in Agents : b # a => pc'[b] = pc[b] /\ Steady(b)
  <1>1. PICK r \in Ranks, s \in SMs : a \in {D(r, s), E(r, s)}
    BY AgentsAre
  <1>2. pc'[a] = pc[a] + 1 /\ \A b \in Agents : b # a => pc'[b] = pc[b]
    BY DEF PcInv
  <1>3. /\ At(a, "arrive") <=> StepAt(a, pc[a] + 1, "depart")
        /\ At(a, "signal") <=> StepAt(a, pc[a] + 1, "await")
    BY <1>1, Following
  <1>4. /\ At(a, "depart")' <=> At(a, "arrive")
        /\ At(a, "await")' <=> At(a, "signal")
    BY <1>2, <1>3, AtIs DEF At, StepAt
  <1>5. ASSUME NEW b \in Agents, b # a
        PROVE  Steady(b)
    BY <1>2, <1>5 DEF Steady, At
  <1> QED BY <1>2, <1>4, <1>5

LEMMA MeetMoves ==
  ASSUME PcInv, NEW r \in Ranks, NEW s \in SMs, Meet(r, s)
  PROVE  \A a \in Agents : Steady(a)
  <1>1. {<<i, r, s>> : i \in GridIndices} = {D(r, s), E(r, s)}
    BY DEF GridIndices, D, E
  <1>2. /\ At(D(r, s), "meet") /\ At(E(r, s), "meet")
        /\ pc' = [a \in Agents |-> IF a \in {D(r, s), E(r, s)} THEN pc[a] + 1 ELSE pc[a]]
    BY <1>1 DEF Meet
  <1>3. ASSUME NEW a \in {D(r, s), E(r, s)}
        PROVE  Steady(a)
    <2>1. At(a, "meet") /\ a \in Agents
      BY <1>2, AgentsAre
    <2>2. ~ At(a, "depart") /\ ~ At(a, "await") /\ ~ At(a, "signal") /\ ~ At(a, "arrive")
      BY <2>1, OneAt
    <2>3. pc'[a] = pc[a] + 1
      BY <1>2, <2>1
    <2>4. ~ StepAt(a, pc[a] + 1, "depart") /\ ~ StepAt(a, pc[a] + 1, "await")
      BY <2>2, Following
    <2>5. ~ At(a, "depart")' /\ ~ At(a, "await")'
      BY <2>3, <2>4 DEF At, StepAt
    <2> QED BY <2>2, <2>5 DEF Steady
  <1>4. ASSUME NEW a \in Agents, a \notin {D(r, s), E(r, s)}
        PROVE  Steady(a)
    <2>1. pc'[a] = pc[a]
      BY <1>2, <1>4
    <2> QED BY <2>1 DEF Steady, At
  <1> QED BY <1>3, <1>4

LEMMA LaunchMoves ==
  ASSUME PcInv, NEW r \in Ranks, Launch(r)
  PROVE  \A a \in Agents : Steady(a)
  <1>1. /\ pc' = [a \in Agents |-> IF a[2] = r THEN 1 ELSE pc[a]]
        /\ \A a \in Agents : a[2] = r => pc[a] > Len(Program[a])
    BY DEF Launch, KernelDone
  <1>2. ASSUME NEW a \in Agents, a[2] = r
        PROVE  Steady(a)
    <2>1. PICK q \in Ranks, s \in SMs : a \in {D(q, s), E(q, s)}
      BY AgentsAre
    <2>2. ~ StepAt(a, 1, "depart") /\ ~ StepAt(a, 1, "await")
      BY <2>1, Following
    <2>3. pc'[a] = 1 /\ pc[a] > Len(Program[a]) /\ pc[a] \in Nat
      BY <1>1, <1>2 DEF PcInv
    <2>4. Len(Program[a]) \in Nat
      BY <2>1, ProgramOf DEF ZeroPrograms, OtherPrograms
    <2>5. ~ At(a, "depart") /\ ~ At(a, "await") /\ ~ At(a, "signal")
      BY <2>3, <2>4 DEF At
    <2>6. ~ At(a, "depart")' /\ ~ At(a, "await")'
      BY <2>2, <2>3 DEF At, StepAt
    <2> QED BY <2>5, <2>6 DEF Steady
  <1>3. ASSUME NEW a \in Agents, a[2] # r
        PROVE  Steady(a)
    <2>1. pc'[a] = pc[a]
      BY <1>1, <1>3
    <2> QED BY <2>1 DEF Steady, At
  <1> QED BY <1>2, <1>3

-----------------------------------------------------------------------------
(* The signals.                                                             *)

LEMMA SizeFacts ==
  ASSUME BarrierSizes
  PROVE  /\ 0 \in SMs /\ 0 \in Ranks
         /\ IsFiniteSet(Ranks) /\ Cardinality(Ranks) = NumRanks /\ NumRanks \in Nat \ {0}
         /\ IsFiniteSet(SMs) /\ Cardinality(SMs) = NumSMs /\ NumSMs \in Nat \ {0}
         /\ FinishTag \in Nat /\ FinishTag >= NumSMs
  BY FS_Interval DEF BarrierSizes, Ranks, SMs

LEMMA OneRings ==
  ASSUME PcInv, 0 \in SMs, NEW r \in Ranks,
         NEW a \in {D(r, 0), E(r, 0)}, At(a, "signal") \/ At(a, "await"),
         NEW b \in {D(r, 0), E(r, 0)}, At(b, "signal") \/ At(b, "await")
  PROVE  a = b
  <1>1. \/ pc[D(r, 0)] <= 7 /\ pc[E(r, 0)] = 1
        \/ pc[D(r, 0)] = 8 /\ pc[E(r, 0)] \in 2 .. 8
        \/ pc[D(r, 0)] >= 9 /\ pc[E(r, 0)] = 9
    BY DEF PcInv
  <1>2. At(D(r, 0), "signal") \/ At(D(r, 0), "await") => pc[D(r, 0)] \in {3, 4, 11, 12}
    BY PlacesZero
  <1>3. At(E(r, 0), "signal") \/ At(E(r, 0), "await") => pc[E(r, 0)] \in {4, 5}
    BY PlacesZero
  <1> QED BY <1>1, <1>2, <1>3

LEMMA MarksStep ==
  ASSUME NEW n \in Nat
  PROVE  /\ n % 2 \in {0, 1}
         /\ \A p \in {0, 1} : p # n % 2 => (Marks(n + 1, p) <=> Marks(n, p))
         /\ (n \div 2) % 2 = 1 => Marks(n, n % 2) /\ ~ Marks(n + 1, n % 2)
         /\ (n \div 2) % 2 # 1 => ~ Marks(n, n % 2) /\ Marks(n + 1, n % 2)
  <1>1. PICK m \in Nat, k \in 0 .. 3 : n = 4 * m + k
    <2>1. n = 4 * (n \div 4) + (n % 4) /\ n \div 4 \in Nat /\ n % 4 \in 0 .. 3
      OBVIOUS
    <2> QED BY <2>1
  <1>2. k = 0 => n % 2 = 0 /\ (n \div 2) % 2 = 0 /\ n % 4 = 0 /\ (n + 1) % 4 = 1
    BY <1>1
  <1>3. k = 1 => n % 2 = 1 /\ (n \div 2) % 2 = 0 /\ n % 4 = 1 /\ (n + 1) % 4 = 2
    BY <1>1
  <1>4. k = 2 => n % 2 = 0 /\ (n \div 2) % 2 = 1 /\ n % 4 = 2 /\ (n + 1) % 4 = 3
    BY <1>1
  <1>5. k = 3 => n % 2 = 1 /\ (n \div 2) % 2 = 1 /\ n % 4 = 3 /\ (n + 1) % 4 = 0
    BY <1>1
  <1> QED BY <1>1, <1>2, <1>3, <1>4, <1>5 DEF Marks

(* Steps that are not of the signals leave all this as it is.               *)
LEMMA NvlCalm ==
  ASSUME PcInv, SentInv, NvlInv, 0 \in SMs,
         \A a \in Agents : Calm(a),
         UNCHANGED <<sent, rounds, signal, nvlCalls, nvlReturns>>
  PROVE  SentInv' /\ NvlInv'
  <1>1. SentInv'
    BY DEF SentInv, Calm
  <1>2. ASSUME NEW r \in Ranks
        PROVE  /\ Begun(r)' <=> Begun(r)
               /\ \A q : Reached(r, q)' <=> Reached(r, q)
    BY AgentsAre DEF Calm, Awaits, Begun, Reached
  <1>3. ASSUME NEW r \in Ranks, NEW q
        PROVE  Signalled(r, q)' = Signalled(r, q)
    BY <1>2 DEF Signalled
  <1>4. ASSUME NEW q, NEW p
        PROVE  Marked(q, p)' = Marked(q, p)
    BY <1>3 DEF Marked
  <1>5. /\ rounds' \in [Ranks -> Nat]
        /\ signal' \in [Ranks -> [{0, 1} -> Int]]
        /\ nvlReturns' = rounds'
        /\ nvlCalls' \in [Ranks -> Nat]
        /\ \A r \in Ranks : nvlCalls'[r] = rounds'[r] + (IF Begun(r)' THEN 1 ELSE 0)
    BY <1>2 DEF NvlInv
  <1>6. \A r, q \in Ranks : rounds'[r] <= Signalled(q, r)'
    BY <1>3 DEF NvlInv
  <1>7. \A q \in Ranks, p \in {0, 1} : signal'[q][p] = Cardinality(Marked(q, p)')
    BY <1>4 DEF NvlInv
  <1> QED BY <1>1, <1>5, <1>6, <1>7 DEF NvlInv

LEMMA SignalledIs ==
  ASSUME NvlInv, NEW r \in Ranks, NEW q
  PROVE  Signalled(r, q) \in Nat /\ Signalled(r, q) \in {rounds[r], rounds[r] + 1} /\ rounds[r] \in Nat
  BY DEF NvlInv, Signalled

(* Who waits with its word at the target waits for nobody: all have signalled. *)
LEMMA AllHere ==
  ASSUME BarrierSizes, NvlInv, NEW r \in Ranks, signal[r][SignalPhase(r)] = Target(r)
  PROVE  \A q \in Ranks : Signalled(q, r) >= rounds[r] + 1
  <1> DEFINE k == rounds[r]
             p == k % 2
  <1>1. k \in Nat /\ p \in {0, 1} /\ SignalPhase(r) = p
    BY MarksStep DEF NvlInv, SignalPhase
  <1>2. signal[r][p] = Cardinality(Marked(r, p))
    BY <1>1 DEF NvlInv
  <1>3. Marked(r, p) \subseteq Ranks /\ IsFiniteSet(Marked(r, p))
    BY SizeFacts, FS_Subset DEF Marked
  <1>4. \A q \in Ranks : Marks(Signalled(q, r), p) <=> ~ Marks(k, p)
    <2>1. CASE CountsDown(r)
      <3>1. Cardinality(Marked(r, p)) = 0
        BY <1>1, <1>2, <2>1 DEF Target
      <3>2. Marked(r, p) = {}
        BY <1>3, <3>1, FS_EmptySet
      <3>3. Marks(k, p)
        BY <1>1, <2>1, MarksStep DEF CountsDown
      <3> QED BY <3>2, <3>3 DEF Marked
    <2>2. CASE ~ CountsDown(r)
      <3>1. Cardinality(Marked(r, p)) = Cardinality(Ranks)
        BY <1>1, <1>2, <2>2, SizeFacts DEF Target
      <3>2. Marked(r, p) = Ranks
        BY <1>3, <3>1, SizeFacts, FS_Subset
      <3>3. ~ Marks(k, p)
        BY <1>1, <2>2, MarksStep DEF CountsDown
      <3> QED BY <3>2, <3>3 DEF Marked
    <2> QED BY <2>1, <2>2
  <1>5. ASSUME NEW q \in Ranks
        PROVE  Signalled(q, r) >= k + 1
    <2>1. Signalled(q, r) # k
      BY <1>4
    <2>2. Signalled(q, r) >= k /\ Signalled(q, r) \in Nat
      BY SignalledIs DEF NvlInv
    <2> QED BY <1>1, <2>1, <2>2
  <1> QED BY <1>5

(* Before a rank sends: it is in no wait, and its other agent rings not.     *)
LEMMA BeforeSend ==
  ASSUME PcInv, SentInv, 0 \in SMs, NEW i \in GridIndices, NEW r \in Ranks,
         At(<<i, r, 0>>, "signal")
  PROVE  /\ ~ Awaits(r)
         /\ \A b \in {D(r, 0), E(r, 0)} : b # <<i, r, 0>> => sent[b] = {}
         /\ Begun(r) <=> sent[<<i, r, 0>>] # {}
         /\ \A q : Reached(r, q) <=> q \in sent[<<i, r, 0>>]
  <1> DEFINE a == <<i, r, 0>>
  <1>1. a \in {D(r, 0), E(r, 0)} /\ D(r, 0) \in Agents /\ E(r, 0) \in Agents
    BY AgentsAre
  <1> HIDE DEF a
  <1>2. \A b \in {D(r, 0), E(r, 0)} : At(b, "signal") \/ At(b, "await") => b = a
    BY <1>1, OneRings DEF a
  <1>3. ~ At(a, "await")
    BY OneAt DEF a
  <1>4. ~ Awaits(r)
    BY <1>1, <1>2, <1>3 DEF Awaits
  <1>5. \A b \in {D(r, 0), E(r, 0)} : b # a => sent[b] = {}
    BY <1>1, <1>2 DEF SentInv
  <1>6. D(r, 0) # E(r, 0)
    BY AgentsAre
  <1>7. \A q : q \in sent[D(r, 0)] \/ q \in sent[E(r, 0)] <=> q \in sent[a]
    BY <1>1, <1>5, <1>6
  <1>8. sent[D(r, 0)] # {} \/ sent[E(r, 0)] # {} <=> sent[a] # {}
    BY <1>1, <1>5, <1>6
  <1> QED BY <1>4, <1>5, <1>7, <1>8 DEF Begun, Reached, a

LEMMA SendReached ==
  ASSUME PcInv, SentInv, 0 \in SMs, NEW i \in GridIndices, NEW r \in Ranks, NEW q \in Ranks,
         SendSignal(i, r, q)
  PROVE  /\ SentInv'
         /\ Begun(r)' /\ ~ Reached(r, q) /\ Reached(r, q)'
         /\ \A x \in Ranks : x # q => (Reached(r, x)' <=> Reached(r, x))
         /\ \A t \in Ranks : t # r => (Begun(t)' <=> Begun(t)) /\ \A x : Reached(t, x)' <=> Reached(t, x)
         /\ \A b \in Agents : At(b, "depart")' <=> At(b, "depart")
         /\ PcInv'
  <1> DEFINE a == <<i, r, 0>>
  <1>1. a \in {D(r, 0), E(r, 0)} /\ D(r, 0) \in Agents /\ E(r, 0) \in Agents /\ a \in Agents
    BY AgentsAre
  <1>2. At(a, "signal") /\ q \notin sent[a]
    BY DEF SendSignal
  <1>3. /\ ~ Awaits(r)
        /\ \A b \in {D(r, 0), E(r, 0)} : b # a => sent[b] = {}
        /\ Begun(r) <=> sent[a] # {}
        /\ \A x : Reached(r, x) <=> x \in sent[a]
    BY <1>2, BeforeSend
  <1>4. \A t \in Ranks : t # r => D(t, 0) \in Agents /\ D(t, 0) # a /\ E(t, 0) \in Agents /\ E(t, 0) # a
    BY <1>1, AgentsAre
  <1>5. CASE sent[a] \cup {q} = Ranks
    <2>1. sent' = [sent EXCEPT ![a] = {}] /\ pc' = [pc EXCEPT ![a] = @ + 1]
      BY <1>5 DEF SendSignal
    <2>2. /\ ~ At(a, "meet") /\ ~ At(a, "depart") /\ ~ At(a, "arrive") /\ pc[a] <= Len(Program[a])
      BY <1>2, OneAt DEF At
    <2>3. PcInv'
      BY <1>1, <2>1, <2>2, Advance
    <2>4. /\ ~ At(a, "depart")' /\ At(a, "await")'
          /\ \A b \in Agents : b # a => Steady(b)
      BY <1>1, <1>2, <2>1, <2>2, StepMoves
    <2> HIDE DEF a
    <2>5. sent'[a] = {} /\ \A b \in Agents : b # a => sent'[b] = sent[b]
      BY <1>1, <2>1 DEF SentInv
    <2>6. SentInv'
      <3>1. sent' \in [Agents -> SUBSET Ranks] /\ sent'[a] # Ranks
        BY <2>1, <2>5 DEF SentInv
      <3>2. ASSUME NEW b \in Agents
            PROVE  sent'[b] # Ranks /\ (sent'[b] # {} => At(b, "signal")')
        BY <2>4, <2>5, <3>1 DEF SentInv, Steady
      <3> QED BY <3>1, <3>2 DEF SentInv
    <2>7. Awaits(r)'
      BY <1>1, <2>4 DEF Awaits
    <2>8. \A x \in Ranks : x # q => x \in sent[a]
      BY <1>5
    <2>9. \A b \in Agents : At(b, "depart")' <=> At(b, "depart")
      BY <2>2, <2>4 DEF Steady
    <2>10. \A t \in Ranks : t # r => /\ Awaits(t)' <=> Awaits(t)
                                     /\ sent'[D(t, 0)] = sent[D(t, 0)]
                                     /\ sent'[E(t, 0)] = sent[E(t, 0)]
      BY <1>4, <2>4, <2>5 DEF Awaits, Steady
    <2>11. \A t \in Ranks : t # r => (Begun(t)' <=> Begun(t)) /\ \A x : Reached(t, x)' <=> Reached(t, x)
      BY <2>10 DEF Begun, Reached
    <2>12. Begun(r)' /\ \A x : Reached(r, x)'
      BY <2>7 DEF Begun, Reached
    <2> QED BY <1>2, <1>3, <2>3, <2>6, <2>8, <2>9, <2>11, <2>12
  <1>6. CASE sent[a] \cup {q} # Ranks
    <2>1. sent' = [sent EXCEPT ![a] = @ \cup {q}] /\ pc' = pc
      BY <1>6 DEF SendSignal
    <2>2. \A b, x : At(b, x)' <=> At(b, x)
      BY <2>1 DEF At
    <2>3. PcInv'
      BY <2>1 DEF PcInv
    <2> HIDE DEF a
    <2>5. sent'[a] = sent[a] \cup {q} /\ \A b \in Agents : b # a => sent'[b] = sent[b]
      BY <1>1, <2>1 DEF SentInv
    <2>6. SentInv'
      <3>1. sent' \in [Agents -> SUBSET Ranks]
        BY <2>1, <2>5 DEF SentInv
      <3>2. ASSUME NEW b \in Agents
            PROVE  sent'[b] # Ranks /\ (sent'[b] # {} => At(b, "signal")')
        BY <1>2, <1>6, <2>2, <2>5, <3>1 DEF SentInv
      <3> QED BY <3>1, <3>2 DEF SentInv
    <2>7. \A b \in {D(r, 0), E(r, 0)} : b # a => sent'[b] = {}
      BY <1>1, <1>3, <2>5
    <2>8. D(r, 0) # E(r, 0)
      BY AgentsAre
    <2>9. Begun(r)' /\ \A x : Reached(r, x)' <=> x \in sent[a] \/ x = q
      <3>1. ~ Awaits(r)'
        BY <1>3, <2>2 DEF Awaits
      <3>2. \A x : x \in sent'[D(r, 0)] \/ x \in sent'[E(r, 0)] <=> x \in sent[a] \cup {q}
        BY <1>1, <2>5, <2>7, <2>8
      <3>3. \A x : Reached(r, x)' <=> x \in sent[a] \/ x = q
        BY <3>1, <3>2 DEF Reached
      <3>4. Begun(r)'
        BY <3>2 DEF Begun
      <3> QED BY <3>3, <3>4
    <2>10. \A t \in Ranks : t # r => /\ Awaits(t)' <=> Awaits(t)
                                     /\ sent'[D(t, 0)] = sent[D(t, 0)]
                                     /\ sent'[E(t, 0)] = sent[E(t, 0)]
      BY <1>4, <2>2, <2>5 DEF Awaits
    <2>11. \A t \in Ranks : t # r => (Begun(t)' <=> Begun(t)) /\ \A x : Reached(t, x)' <=> Reached(t, x)
      BY <2>10 DEF Begun, Reached
    <2> QED BY <1>2, <1>3, <2>2, <2>3, <2>6, <2>9, <2>11
  <1> QED BY <1>5, <1>6

LEMMA SendInv ==
  ASSUME BarrierSizes, PcInv, SentInv, NvlInv,
         NEW i \in GridIndices, NEW r \in Ranks, NEW q \in Ranks, SendSignal(i, r, q)
  PROVE  /\ SentInv' /\ NvlInv'
         /\ UNCHANGED <<nvlCalls, nvlReturns>> \/ Nvl!Enter(r)
  <1> DEFINE k == rounds[r]
             a == <<i, r, 0>>
  <1>0. PICK p \in {0, 1} : p = k % 2
    BY MarksStep DEF NvlInv
  <1>1. /\ SentInv'
        /\ Begun(r)' /\ ~ Reached(r, q) /\ Reached(r, q)'
        /\ \A x \in Ranks : x # q => (Reached(r, x)' <=> Reached(r, x))
        /\ \A t \in Ranks : t # r => (Begun(t)' <=> Begun(t)) /\ \A x : Reached(t, x)' <=> Reached(t, x)
    BY SizeFacts, SendReached
  <1>2. /\ signal' = [signal EXCEPT ![q][p] = @ + SignalDelta(r)]
        /\ nvlCalls' = [nvlCalls EXCEPT ![r] = IF sent[a] = {} THEN @ + 1 ELSE @]
        /\ rounds' = rounds /\ nvlReturns' = nvlReturns
        /\ At(a, "signal")
    BY <1>0 DEF SendSignal, SignalPhase
  <1>3. Begun(r) <=> sent[a] # {}
    BY <1>2, SizeFacts, BeforeSend
  <1>4. k \in Nat
    BY DEF NvlInv
  <1> HIDE DEF k, a
  <1>5. /\ Signalled(r, q) = k /\ Signalled(r, q)' = k + 1
        /\ \A x \in Ranks : x # q => Signalled(r, x)' = Signalled(r, x)
        /\ \A t \in Ranks, x \in Ranks : t # r => Signalled(t, x)' = Signalled(t, x)
    BY <1>1, <1>2, <1>4 DEF Signalled, k
  <1>6. \A t, x \in Ranks : rounds'[t] <= Signalled(x, t)'
    <2>1. \A t, x \in Ranks : Signalled(x, t) <= Signalled(x, t)'
      BY <1>4, <1>5, SignalledIs
    <2>2. \A t, x \in Ranks : rounds[t] \in Nat /\ Signalled(x, t) \in Nat /\ rounds[t] <= Signalled(x, t)
      BY SignalledIs DEF NvlInv
    <2>3. \A t, x \in Ranks : Signalled(x, t)' \in Nat
      BY <1>4, <1>5, <2>2
    <2> QED BY <1>2, <2>1, <2>2, <2>3
  <1>7. \A x \in Ranks, w \in {0, 1} : x # q \/ w # p => Marked(x, w)' = Marked(x, w)
    <2>1. ASSUME NEW x \in Ranks, NEW w \in {0, 1}, x # q \/ w # p, NEW t \in Ranks
          PROVE  Marks(Signalled(t, x)', w) <=> Marks(Signalled(t, x), w)
      <3>1. CASE t = r /\ x = q
        <4>1. Marks(k + 1, w) <=> Marks(k, w)
          BY <2>1, <3>1, <1>4, <1>0, MarksStep
        <4> QED BY <3>1, <4>1, <1>5
      <3>2. CASE t # r \/ x # q
        <4>1. Signalled(t, x)' = Signalled(t, x)
          BY <3>2, <1>5
        <4> QED BY <4>1
      <3> QED BY <3>1, <3>2
    <2> QED BY <2>1 DEF Marked
  <1>8. Marked(q, p)' = IF CountsDown(r) THEN Marked(q, p) \ {r} ELSE Marked(q, p) \cup {r}
    <2>1. \A t \in Ranks : t # r => (Marks(Signalled(t, q)', p) <=> Marks(Signalled(t, q), p))
      BY <1>5
    <2>2. IF CountsDown(r) THEN ~ Marks(Signalled(r, q)', p) ELSE Marks(Signalled(r, q)', p)
      BY <1>0, <1>4, <1>5, MarksStep DEF CountsDown, k
    <2>3. CASE CountsDown(r)
      BY <2>1, <2>2, <2>3 DEF Marked
    <2>4. CASE ~ CountsDown(r)
      BY <2>1, <2>2, <2>4 DEF Marked
    <2> QED BY <2>3, <2>4
  <1>9. IF CountsDown(r) THEN r \in Marked(q, p) ELSE r \notin Marked(q, p)
    BY <1>0, <1>4, <1>5, MarksStep DEF CountsDown, k, Marked
  <1>10. IsFiniteSet(Marked(q, p))
    BY SizeFacts, FS_Subset DEF Marked
  <1>11. signal[q][p] = Cardinality(Marked(q, p)) /\ signal[q][p] \in Int
    BY <1>4 DEF NvlInv
  <1>12. Cardinality(Marked(q, p)') = signal[q][p] + SignalDelta(r)
    <2>1. CASE CountsDown(r)
      BY <2>1, <1>8, <1>9, <1>10, <1>11, FS_RemoveElement DEF SignalDelta
    <2>2. CASE ~ CountsDown(r)
      BY <2>2, <1>8, <1>9, <1>10, <1>11, FS_AddElement DEF SignalDelta
    <2> QED BY <2>1, <2>2
  <1>13. SignalDelta(r) \in Int
    BY DEF SignalDelta
  <1>14. /\ signal' \in [Ranks -> [{0, 1} -> Int]]
         /\ signal'[q][p] = signal[q][p] + SignalDelta(r)
         /\ \A x \in Ranks, w \in {0, 1} : x # q \/ w # p => signal'[x][w] = signal[x][w]
    <2>1. signal \in [Ranks -> [{0, 1} -> Int]]
      BY DEF NvlInv
    <2> QED BY <1>2, <1>4, <1>11, <1>13, <2>1
  <1>15. \A x \in Ranks, w \in {0, 1} : signal'[x][w] = Cardinality(Marked(x, w)')
    <2>1. ASSUME NEW x \in Ranks, NEW w \in {0, 1}
          PROVE  signal'[x][w] = Cardinality(Marked(x, w)')
      <3>1. CASE x = q /\ w = p
        BY <3>1, <1>12, <1>14
      <3>2. CASE x # q \/ w # p
        BY <3>2, <1>7, <1>14 DEF NvlInv
      <3> QED BY <3>1, <3>2
    <2> QED BY <2>1
  <1>16. /\ nvlCalls \in [Ranks -> Nat] /\ nvlReturns = rounds
         /\ \A t \in Ranks : nvlCalls[t] = rounds[t] + (IF Begun(t) THEN 1 ELSE 0)
         /\ rounds \in [Ranks -> Nat]
    BY DEF NvlInv
  <1>17. /\ nvlCalls' \in [Ranks -> Nat]
         /\ \A t \in Ranks : nvlCalls'[t] = rounds'[t] + (IF Begun(t)' THEN 1 ELSE 0)
    BY <1>1, <1>2, <1>3, <1>16
  <1>18. NvlInv'
    BY <1>2, <1>6, <1>14, <1>15, <1>16, <1>17 DEF NvlInv
  <1>19. UNCHANGED <<nvlCalls, nvlReturns>> \/ Nvl!Enter(r)
    <2>1. CASE sent[a] = {}
      BY <2>1, <1>2, <1>3, <1>16 DEF Nvl!Enter
    <2>2. CASE sent[a] # {}
      BY <2>2, <1>2, <1>16
    <2> QED BY <2>1, <2>2
  <1> QED BY <1>1, <1>18, <1>19

LEMMA AwaitInv ==
  ASSUME BarrierSizes, PcInv, SentInv, NvlInv,
         NEW i \in GridIndices, NEW r \in Ranks, AllSignalled(i, r)
  PROVE  /\ PcInv' /\ SentInv' /\ NvlInv' /\ Nvl!Leave(r)
         /\ \A b \in Agents : At(b, "depart")' <=> At(b, "depart")
  <1> DEFINE a == <<i, r, 0>>
  <1>1. a \in {D(r, 0), E(r, 0)} /\ D(r, 0) \in Agents /\ E(r, 0) \in Agents /\ a \in Agents
    BY AgentsAre, SizeFacts
  <1>2. /\ At(a, "await")
        /\ pc' = [pc EXCEPT ![a] = @ + 1] /\ sent' = sent
        /\ signal[r][SignalPhase(r)] = Target(r)
        /\ rounds' = [rounds EXCEPT ![r] = @ + 1]
        /\ nvlReturns' = [nvlReturns EXCEPT ![r] = @ + 1]
        /\ signal' = signal /\ nvlCalls' = nvlCalls
    BY DEF AllSignalled, Go
  <1> HIDE DEF a
  <1>3. ~ At(a, "meet") /\ ~ At(a, "depart") /\ ~ At(a, "arrive") /\ ~ At(a, "signal")
        /\ pc[a] <= Len(Program[a])
    BY <1>2, OneAt DEF At
  <1>4. PcInv'
    BY <1>1, <1>2, <1>3, SizeFacts, Advance
  <1>5. /\ ~ At(a, "depart")' /\ ~ At(a, "await")'
        /\ \A b \in Agents : b # a => Steady(b)
    BY <1>1, <1>2, <1>3, StepMoves
  <1>6. \A b \in Agents : At(b, "depart")' <=> At(b, "depart")
    BY <1>3, <1>5 DEF Steady
  <1>7. sent[a] = {} /\ \A b \in Agents : b # a => (At(b, "signal") => At(b, "signal")')
    BY <1>1, <1>3, <1>5 DEF Steady, SentInv
  <1>8. SentInv'
    BY <1>2, <1>7 DEF SentInv
  <1>9. \A b \in {D(r, 0), E(r, 0)} : b # a => ~ At(b, "await") /\ ~ At(b, "signal")
    BY <1>1, <1>2, SizeFacts, OneRings
  <1>10. \A b \in {D(r, 0), E(r, 0)} : sent[b] = {} /\ ~ At(b, "await")'
    BY <1>1, <1>5, <1>7, <1>9 DEF SentInv, Steady
  <1>11. Awaits(r) /\ Begun(r) /\ \A x : Reached(r, x)
    BY <1>1, <1>2 DEF Awaits, Begun, Reached
  <1>12. ~ Begun(r)' /\ \A x : ~ Reached(r, x)'
    <2>1. ~ Awaits(r)'
      BY <1>10 DEF Awaits
    <2>2. sent'[D(r, 0)] = {} /\ sent'[E(r, 0)] = {}
      BY <1>2, <1>10
    <2> QED BY <2>1, <2>2 DEF Begun, Reached
  <1>13. ASSUME NEW t \in Ranks, t # r
         PROVE  (Begun(t)' <=> Begun(t)) /\ \A x : Reached(t, x)' <=> Reached(t, x)
    <2>1. D(t, 0) \in Agents /\ D(t, 0) # a /\ E(t, 0) \in Agents /\ E(t, 0) # a
      BY <1>1, <1>13, AgentsAre, SizeFacts
    <2>2. Awaits(t)' <=> Awaits(t)
      BY <1>5, <2>1 DEF Awaits, Steady
    <2> QED BY <1>2, <2>2 DEF Begun, Reached
  <1>14. /\ rounds \in [Ranks -> Nat] /\ nvlReturns = rounds /\ nvlCalls \in [Ranks -> Nat]
         /\ \A t \in Ranks : nvlCalls[t] = rounds[t] + (IF Begun(t) THEN 1 ELSE 0)
         /\ signal \in [Ranks -> [{0, 1} -> Int]]
    BY DEF NvlInv
  <1>15. ASSUME NEW t \in Ranks, NEW x
         PROVE  Signalled(t, x)' = Signalled(t, x)
    <2>1. CASE t = r
      BY <2>1, <1>2, <1>11, <1>12, <1>14 DEF Signalled
    <2>2. CASE t # r
      BY <2>2, <1>2, <1>13, <1>14 DEF Signalled
    <2> QED BY <2>1, <2>2
  <1>16. \A x, w : Marked(x, w)' = Marked(x, w)
    BY <1>15 DEF Marked
  <1>17. \A q \in Ranks : Signalled(q, r) >= rounds[r] + 1
    BY <1>2, AllHere
  <1>18. \A t, q \in Ranks : rounds'[t] <= Signalled(q, t)'
    <2>1. ASSUME NEW t \in Ranks, NEW q \in Ranks
          PROVE  rounds'[t] <= Signalled(q, t)'
      <3>1. CASE t = r
        BY <3>1, <1>2, <1>14, <1>15, <1>17
      <3>2. CASE t # r
        BY <3>2, <1>2, <1>14, <1>15 DEF NvlInv
      <3> QED BY <3>1, <3>2
    <2> QED BY <2>1
  <1>19. \A q \in Ranks, p \in {0, 1} : signal'[q][p] = Cardinality(Marked(q, p)')
    BY <1>2, <1>16 DEF NvlInv
  <1>20. /\ rounds' \in [Ranks -> Nat] /\ nvlReturns' = rounds' /\ nvlCalls' \in [Ranks -> Nat]
         /\ \A t \in Ranks : nvlCalls'[t] = rounds'[t] + (IF Begun(t)' THEN 1 ELSE 0)
    <2>1. rounds' \in [Ranks -> Nat] /\ nvlReturns' = rounds' /\ nvlCalls' \in [Ranks -> Nat]
      BY <1>2, <1>14
    <2>2. ASSUME NEW t \in Ranks
          PROVE  nvlCalls'[t] = rounds'[t] + (IF Begun(t)' THEN 1 ELSE 0)
      <3>1. CASE t = r
        BY <3>1, <1>2, <1>11, <1>12, <1>14
      <3>2. CASE t # r
        BY <3>2, <1>2, <1>13, <1>14
      <3> QED BY <3>1, <3>2
    <2> QED BY <2>1, <2>2
  <1>21. NvlInv'
    BY <1>2, <1>14, <1>18, <1>19, <1>20 DEF NvlInv
  <1>22. Nvl!Leave(r)
    <2>1. nvlCalls[r] = rounds[r] + 1 /\ nvlReturns[r] = rounds[r] /\ rounds[r] \in Nat
      BY <1>11, <1>14
    <2>2. ASSUME NEW q \in Ranks
          PROVE  nvlCalls[r] <= nvlCalls[q]
      <3>1. Signalled(q, r) <= nvlCalls[q]
        <4>1. Reached(q, r) => Begun(q)
          BY DEF Begun, Reached
        <4> QED BY <4>1, <1>14 DEF Signalled
      <3>2. Signalled(q, r) \in Nat /\ nvlCalls[q] \in Nat
        BY <1>14, SignalledIs
      <3> QED BY <2>1, <3>1, <3>2, <1>17
    <2> QED BY <1>2, <2>1, <2>2 DEF Nvl!Leave
  <1> QED BY <1>4, <1>6, <1>8, <1>21, <1>22

-----------------------------------------------------------------------------
(* The counter of a grid_sync.                                              *)

LEMMA DoubleMod ==
  ASSUME NEW f \in Nat \ {0}, NEW x \in 0 .. 2 * f
  PROVE  x % (2 * f) = IF x = 2 * f THEN 0 ELSE x
  <1>1. CASE x = 2 * f
    <2> DEFINE m == 2 * f
    <2>1. m \in Nat \ {0} /\ m = 1 * m + 0
      OBVIOUS
    <2> HIDE DEF m
    <2>2. m % m = 0
      BY <2>1
    <2> QED BY <1>1, <2>2 DEF m
  <1>2. CASE x # 2 * f
    BY <1>2
  <1> QED BY <1>1, <1>2

(* One more SM in the open phase: what it adds, and when that closes it.     *)
LEMMA AddedIs ==
  ASSUME BarrierSizes, NEW A \in SUBSET SMs
  PROVE  /\ Added(A) \in 0 .. FinishTag
         /\ Added(A) = FinishTag <=> A = SMs
         /\ \A s \in SMs \ A : Added(A \cup {s}) = Added(A) + GridAdd(s)
         /\ Added({}) = 0
  <1>1. IsFiniteSet(A) /\ Cardinality(A) <= NumSMs /\ Cardinality(A) \in Nat
        /\ (Cardinality(A) = NumSMs => A = SMs)
    BY SizeFacts, FS_Subset, FS_CardinalityType
  <1>2. 0 \notin A => Cardinality(A) # NumSMs
    BY <1>1, SizeFacts
  <1>3. A = SMs => Cardinality(A) = NumSMs /\ 0 \in A
    BY SizeFacts
  <1>4. Added(A) \in 0 .. FinishTag /\ (Added(A) = FinishTag <=> A = SMs)
    BY <1>1, <1>2, <1>3, SizeFacts DEF Added
  <1>5. ASSUME NEW s \in SMs \ A
        PROVE  Added(A \cup {s}) = Added(A) + GridAdd(s)
    <2>1. Cardinality(A \cup {s}) = Cardinality(A) + 1
      BY <1>1, <1>5, FS_AddElement
    <2>2. CASE s = 0
      <3>1. 0 \in A \cup {s} /\ 0 \notin A
        BY <1>5, <2>2
      <3>2. Added(A \cup {s}) = Cardinality(A) + 1 + (FinishTag - NumSMs)
        BY <2>1, <3>1 DEF Added
      <3>3. Added(A) = Cardinality(A) + 0
        BY <3>1 DEF Added
      <3> QED BY <1>1, <2>2, <3>2, <3>3, SizeFacts DEF GridAdd
    <2>3. CASE s # 0
      <3>1. 0 \in A \cup {s} <=> 0 \in A
        BY <2>3
      <3>2. Added(A \cup {s}) = Cardinality(A) + 1 + (IF 0 \in A THEN FinishTag - NumSMs ELSE 0)
        BY <2>1, <3>1 DEF Added
      <3> QED BY <1>1, <2>3, <3>2, SizeFacts DEF GridAdd, Added
    <2> QED BY <2>2, <2>3
  <1>6. Added({}) = 0
    BY FS_EmptySet DEF Added
  <1> QED BY <1>4, <1>5, <1>6

(* A phase of a grid_sync, seen from its calls: who is first to be in the    *)
(* open phase finds the top bit as the phase before left it.                *)
LEMMA CountedOpen ==
  ASSUME BarrierSizes, NEW c, NEW g, NEW k \in Nat, Counted(c, g, k)
  PROVE  /\ g \in Nat
         /\ Tagged(g) <=> k % 2 = 1
  <1> DEFINE A == {s \in SMs : c[s] = k + 1}
  <1>1. A \in SUBSET SMs /\ A # SMs
    BY DEF Counted
  <1> HIDE DEF A
  <1>2. Added(A) \in 0 .. FinishTag /\ Added(A) # FinishTag
    BY <1>1, AddedIs
  <1>3. g = (k % 2) * FinishTag + Added(A) /\ k % 2 \in {0, 1}
    BY DEF Counted, A
  <1>4. CASE k % 2 = 0
    BY <1>2, <1>3, <1>4, SizeFacts DEF Tagged
  <1>5. CASE k % 2 = 1
    BY <1>2, <1>3, <1>5, SizeFacts DEF Tagged
  <1> QED BY <1>3, <1>4, <1>5

LEMMA CountedArrive ==
  ASSUME BarrierSizes, NEW c \in [SMs -> Nat], NEW g, NEW k \in Nat, Counted(c, g, k),
         NEW s \in SMs, c[s] = k
  PROVE  \E m \in Nat : Counted([c EXCEPT ![s] = @ + 1], (g + GridAdd(s)) % (2 * FinishTag), m)
  <1> DEFINE A == {t \in SMs : c[t] = k + 1}
             d == [c EXCEPT ![s] = @ + 1]
             h == (g + GridAdd(s)) % (2 * FinishTag)
  <1>1. A \in SUBSET SMs /\ s \in SMs \ A
    OBVIOUS
  <1>2. /\ d \in [SMs -> Nat] /\ d[s] = k + 1 /\ \A t \in SMs : t # s => d[t] = c[t]
        /\ \A t \in SMs : d[t] \in {k, k + 1}
        /\ {t \in SMs : d[t] = k + 1} = A \cup {s}
    BY DEF Counted
  <1>3. g = (k % 2) * FinishTag + Added(A) /\ k % 2 \in {0, 1}
    BY DEF Counted
  <1> HIDE DEF A, d
  <1>4. /\ Added(A) \in 0 .. FinishTag
        /\ Added(A \cup {s}) = Added(A) + GridAdd(s)
    BY <1>1, AddedIs
  <1>5. /\ Added(A \cup {s}) \in 0 .. FinishTag
        /\ Added(A \cup {s}) = FinishTag <=> A \cup {s} = SMs
    <2>1. A \cup {s} \in SUBSET SMs
      BY <1>1
    <2> QED BY <2>1, AddedIs
  <1>6. GridAdd(s) \in Int
    BY SizeFacts DEF GridAdd
  <1>7. FinishTag \in Nat \ {0}
    BY SizeFacts
  <1>8. g + GridAdd(s) = (k % 2) * FinishTag + Added(A \cup {s})
    BY <1>3, <1>4, <1>6, <1>7
  <1>9. g + GridAdd(s) \in 0 .. 2 * FinishTag
    BY <1>3, <1>5, <1>7, <1>8
  <1>10. h = IF g + GridAdd(s) = 2 * FinishTag THEN 0 ELSE g + GridAdd(s)
    BY <1>7, <1>9, DoubleMod
  <1> HIDE DEF h
  <1>11. CASE A \cup {s} = SMs
    <2>1. g + GridAdd(s) = (k % 2) * FinishTag + FinishTag
      BY <1>5, <1>8, <1>11
    <2>2. h = ((k + 1) % 2) * FinishTag
      <3>1. CASE k % 2 = 0
        <4>1. (k + 1) % 2 = 1
          BY <3>1
        <4> QED BY <3>1, <4>1, <2>1, <1>10, <1>7
      <3>2. CASE k % 2 = 1
        <4>1. (k + 1) % 2 = 0
          BY <3>2
        <4> QED BY <3>2, <4>1, <2>1, <1>10, <1>7
      <3> QED BY <1>3, <3>1, <3>2
    <2>3. \A t \in SMs : d[t] = k + 1
      BY <1>2, <1>11
    <2>4. {t \in SMs : d[t] = (k + 1) + 1} = {}
      BY <2>3
    <2>5. Added({}) = 0
      BY AddedIs
    <2>6. h = ((k + 1) % 2) * FinishTag + Added({t \in SMs : d[t] = (k + 1) + 1})
      <3>1. (k + 1) % 2 \in Nat /\ ((k + 1) % 2) * FinishTag \in Nat
        BY <1>7
      <3>2. h = h + 0
        BY <2>2, <3>1
      <3> QED BY <2>2, <2>4, <2>5, <3>2
    <2>7. Counted(d, h, k + 1)
      BY <2>3, <2>6, <1>1 DEF Counted
    <2> QED BY <2>7 DEF d, h
  <1>12. CASE A \cup {s} # SMs
    <2>1. g + GridAdd(s) # 2 * FinishTag
      BY <1>3, <1>5, <1>7, <1>8, <1>12
    <2>2. h = (k % 2) * FinishTag + Added(A \cup {s})
      BY <2>1, <1>8, <1>10
    <2>3. \E t \in SMs : d[t] = k
      BY <1>2, <1>12
    <2>4. Counted(d, h, k)
      BY <2>2, <2>3, <1>2 DEF Counted
    <2> QED BY <2>4 DEF d, h
  <1> QED BY <1>11, <1>12

(* An SM that has returned from as many calls as some SM has made is where   *)
(* the open phase begins.                                                   *)
LEMMA LeastCalls ==
  ASSUME NEW c \in [SMs -> Nat], NEW g, NEW k \in Nat, Counted(c, g, k),
         NEW s \in SMs, \A t \in SMs : c[s] <= c[t]
  PROVE  c[s] = k
  BY DEF Counted

LEMMA ArriveInv ==
  ASSUME BarrierSizes, PcInv, GridTyped, NEW i \in GridIndices, NEW r \in Ranks, NEW s \in SMs,
         GridInv(r, i), GridArrive(i, r, s)
  PROVE  GridInv(r, i)' /\ GridOf(r, i)!Enter(s)
  <1> DEFINE c == gridCalls[r][i]
             l == gridReturns[r][i]
             a == <<i, r, s>>
  <1>1. /\ At(a, "arrive") /\ pc' = [pc EXCEPT ![a] = @ + 1]
        /\ drawn' = [drawn EXCEPT ![r][i][s] = grid[r][i]]
        /\ grid' = [grid EXCEPT ![r][i] = (@ + GridAdd(s)) % (2 * FinishTag)]
        /\ gridCalls' = [gridCalls EXCEPT ![r][i][s] = @ + 1]
        /\ gridReturns' = gridReturns
    BY DEF GridArrive, Go
  <1>2. /\ grid[r][i] \in Nat
        /\ c \in [SMs -> Nat] /\ l \in [SMs -> Nat]
        /\ drawn[r][i] \in [SMs -> Nat]
    BY DEF GridTyped
  <1>3. /\ drawn'[r][i] = [drawn[r][i] EXCEPT ![s] = grid[r][i]]
        /\ grid'[r][i] = (grid[r][i] + GridAdd(s)) % (2 * FinishTag)
        /\ gridCalls'[r][i] = [c EXCEPT ![s] = @ + 1]
        /\ gridReturns'[r][i] = l
    BY <1>1 DEF GridTyped
  <1>4. a \in Agents /\ ~ At(a, "depart") /\ At(a, "depart")'
        /\ \A t \in SMs : t # s => (At(<<i, r, t>>, "depart")' <=> At(<<i, r, t>>, "depart"))
    <2>1. a \in Agents /\ \A t \in SMs : <<i, r, t>> \in Agents /\ (t # s => <<i, r, t>> # a)
      BY AgentFacts
    <2>2. ~ At(a, "depart")
      BY <1>1, OneAt
    <2> HIDE DEF a
    <2>3. At(a, "depart")' /\ \A b \in Agents : b # a => Steady(b)
      BY <1>1, <2>1, StepMoves
    <2> QED BY <2>1, <2>2, <2>3 DEF Steady
  <1> HIDE DEF a
  <1>5. /\ \A t \in SMs : c[t] = l[t] + (IF At(<<i, r, t>>, "depart") THEN 1 ELSE 0)
        /\ \A t \in SMs : At(<<i, r, t>>, "depart") => (Tagged(drawn[r][i][t]) <=> l[t] % 2 = 1)
        /\ \A t, u \in SMs : l[t] <= c[u]
    BY DEF GridInv
  <1>6. PICK k \in Nat : Counted(c, grid[r][i], k)
    BY DEF GridInv
  <1>7. c[s] = l[s] /\ \A t \in SMs : c[s] <= c[t]
    BY <1>2, <1>4, <1>5 DEF a
  <1> HIDE DEF c, l
  <1>8. c[s] = k
    BY <1>2, <1>6, <1>7, LeastCalls
  <1>9. \E m \in Nat : Counted(gridCalls'[r][i], grid'[r][i], m)
    <2> DEFINE g == grid[r][i]
    <2>1. c \in [SMs -> Nat] /\ Counted(c, g, k) /\ c[s] = k
      BY <1>2, <1>6, <1>8
    <2> HIDE DEF g
    <2>2. \E m \in Nat : Counted([c EXCEPT ![s] = @ + 1], (g + GridAdd(s)) % (2 * FinishTag), m)
      BY <2>1, CountedArrive
    <2> QED BY <1>3, <2>2 DEF g
  <1>10. grid'[r][i] \in Nat
    BY <1>9, CountedOpen
  <1>11. Tagged(grid[r][i]) <=> l[s] % 2 = 1
    BY <1>6, <1>7, <1>8, CountedOpen
  <1>12. /\ drawn'[r][i] \in [SMs -> Nat] /\ gridCalls'[r][i] \in [SMs -> Nat]
         /\ gridReturns'[r][i] \in [SMs -> Nat]
    BY <1>2, <1>3
  <1>13. \A t, u \in SMs : gridReturns'[r][i][t] <= gridCalls'[r][i][u]
    BY <1>2, <1>3, <1>5
  <1>14. ASSUME NEW t \in SMs
         PROVE  /\ gridCalls'[r][i][t] = gridReturns'[r][i][t] + (IF At(<<i, r, t>>, "depart")' THEN 1 ELSE 0)
                /\ At(<<i, r, t>>, "depart")' => (Tagged(drawn'[r][i][t]) <=> gridReturns'[r][i][t] % 2 = 1)
    <2>1. CASE t = s
      BY <2>1, <1>2, <1>3, <1>4, <1>7, <1>11 DEF a
    <2>2. CASE t # s
      BY <2>2, <1>2, <1>3, <1>4, <1>5
    <2> QED BY <2>1, <2>2
  <1>15. GridInv(r, i)'
    BY <1>9, <1>10, <1>12, <1>13, <1>14 DEF GridInv, Tagged
  <1>16. GridOf(r, i)!Enter(s)
    BY <1>3, <1>7 DEF GridOf!Enter, c, l
  <1> QED BY <1>15, <1>16

LEMMA LeaveInv ==
  ASSUME BarrierSizes, PcInv, GridTyped, NEW i \in GridIndices, NEW r \in Ranks, NEW s \in SMs,
         GridInv(r, i), GridLeave(i, r, s)
  PROVE  GridInv(r, i)' /\ GridOf(r, i)!Leave(s)
  <1> DEFINE c == gridCalls[r][i]
             l == gridReturns[r][i]
             a == <<i, r, s>>
             g == grid[r][i]
  <1>1. /\ At(a, "depart") /\ pc' = [pc EXCEPT ![a] = @ + 1]
        /\ Tagged(grid[r][i]) # Tagged(drawn[r][i][s])
        /\ gridReturns' = [gridReturns EXCEPT ![r][i][s] = @ + 1]
        /\ UNCHANGED <<grid, drawn, gridCalls>>
    BY DEF GridLeave, Go
  <1>2. /\ g \in Nat
        /\ c \in [SMs -> Nat] /\ l \in [SMs -> Nat]
        /\ drawn[r][i] \in [SMs -> Nat]
    BY DEF GridTyped
  <1>3. gridReturns'[r][i] = [l EXCEPT ![s] = @ + 1]
    BY <1>1 DEF GridTyped
  <1>4. a \in Agents /\ ~ At(a, "depart")'
        /\ \A t \in SMs : t # s => (At(<<i, r, t>>, "depart")' <=> At(<<i, r, t>>, "depart"))
    <2>1. a \in Agents /\ \A t \in SMs : <<i, r, t>> \in Agents /\ (t # s => <<i, r, t>> # a)
      BY AgentFacts
    <2>2. ~ At(a, "arrive")
      BY <1>1, OneAt
    <2> HIDE DEF a
    <2>3. ~ At(a, "depart")' /\ \A b \in Agents : b # a => Steady(b)
      BY <1>1, <2>1, <2>2, StepMoves
    <2> QED BY <2>1, <2>3 DEF Steady
  <1> HIDE DEF a
  <1>5. /\ \A t \in SMs : c[t] = l[t] + (IF At(<<i, r, t>>, "depart") THEN 1 ELSE 0)
        /\ \A t \in SMs : At(<<i, r, t>>, "depart") => (Tagged(drawn[r][i][t]) <=> l[t] % 2 = 1)
        /\ \A t, u \in SMs : l[t] <= c[u]
    BY DEF GridInv
  <1>6. PICK k \in Nat : Counted(c, g, k)
    BY DEF GridInv
  <1>7. c[s] = l[s] + 1 /\ (Tagged(drawn[r][i][s]) <=> l[s] % 2 = 1)
    BY <1>1, <1>5 DEF a
  <1>8. Tagged(g) # Tagged(drawn[r][i][s])
    BY <1>1
  <1> HIDE DEF c, l, g
  <1>9. Tagged(g) <=> k % 2 = 1
    BY <1>6, CountedOpen
  <1>10. c[s] \in {k, k + 1} /\ l[s] \in Nat /\ \A t \in SMs : c[t] \in {k, k + 1}
    BY <1>2, <1>6 DEF Counted
  <1>11. ~ (k % 2 = 1 <=> l[s] % 2 = 1)
    BY <1>7, <1>8, <1>9 DEF Tagged
  <1>12. c[s] = k /\ l[s] + 1 = k
    BY <1>7, <1>10, <1>11
  <1>13. \A t \in SMs : c[s] <= c[t]
    BY <1>10, <1>12
  <1>14. gridReturns'[r][i] \in [SMs -> Nat]
    BY <1>2, <1>3
  <1>15. \A t, u \in SMs : gridReturns'[r][i][t] <= c[u]
    BY <1>2, <1>3, <1>5, <1>7, <1>13
  <1>16. ASSUME NEW t \in SMs
         PROVE  /\ c[t] = gridReturns'[r][i][t] + (IF At(<<i, r, t>>, "depart")' THEN 1 ELSE 0)
                /\ At(<<i, r, t>>, "depart")' => (Tagged(drawn[r][i][t]) <=> gridReturns'[r][i][t] % 2 = 1)
    <2>1. CASE t = s
      BY <2>1, <1>2, <1>3, <1>4, <1>7 DEF a
    <2>2. CASE t # s
      BY <2>2, <1>2, <1>3, <1>4, <1>5
    <2> QED BY <2>1, <2>2
  <1>17. gridCalls'[r][i] = c /\ drawn'[r][i] = drawn[r][i] /\ grid'[r][i] = g
    BY <1>1 DEF c, g
  <1>18. GridInv(r, i)'
    BY <1>2, <1>6, <1>14, <1>15, <1>16, <1>17 DEF GridInv, Tagged
  <1>19. GridOf(r, i)!Leave(s)
    BY <1>2, <1>3, <1>7, <1>13, <1>17 DEF GridOf!Leave, c, l
  <1> QED BY <1>18, <1>19

(* Steps that leave a counter and those at it as they are.                  *)
LEMMA GridStill ==
  ASSUME NEW i \in GridIndices, NEW r \in Ranks, GridInv(r, i),
         \A s \in SMs : At(<<i, r, s>>, "depart")' <=> At(<<i, r, s>>, "depart"),
         grid'[r][i] = grid[r][i], drawn'[r][i] = drawn[r][i],
         gridCalls'[r][i] = gridCalls[r][i], gridReturns'[r][i] = gridReturns[r][i]
  PROVE  GridInv(r, i)' /\ UNCHANGED GridOf(r, i)!vars
  <1>1. GridInv(r, i)'
    BY DEF GridInv, Tagged
  <1> QED BY <1>1 DEF GridOf!vars

-----------------------------------------------------------------------------
IInv ==
  /\ PcInv /\ SentInv /\ NvlInv /\ GridTyped
  /\ \A r \in Ranks, i \in GridIndices : GridInv(r, i)

Phases ==
  /\ Nvl!Next \/ UNCHANGED Nvl!vars
  /\ \A r \in Ranks, i \in GridIndices :
       GridOf(r, i)!Next \/ UNCHANGED GridOf(r, i)!vars

(* Steps at a grid_sync leave the signals alone, and the other counters.     *)
LEMMA GridStep ==
  ASSUME BarrierSizes, IInv, NEW i \in GridIndices, NEW r \in Ranks, NEW s \in SMs,
         GridArrive(i, r, s) \/ GridLeave(i, r, s)
  PROVE  IInv' /\ Phases
  <1> DEFINE a == <<i, r, s>>
  <1> USE DEF IInv
  <1>1. /\ At(a, "arrive") \/ At(a, "depart")
        /\ pc' = [pc EXCEPT ![a] = @ + 1]
        /\ UNCHANGED <<sent, rounds, signal, nvlCalls, nvlReturns>>
    BY DEF GridArrive, GridLeave, Go
  <1>2. /\ a \in Agents /\ a \in {D(r, s), E(r, s)}
        /\ \A q \in Ranks, j \in GridIndices, t \in SMs :
             <<j, q, t>> \in Agents /\ (q # r \/ j # i => <<j, q, t>> # a)
    BY AgentFacts, AgentsAre
  <1> HIDE DEF a
  <1>3. ~ At(a, "meet") /\ ~ At(a, "signal") /\ ~ At(a, "await") /\ pc[a] <= Len(Program[a])
    BY <1>1, OneAt DEF At
  <1>4. PcInv'
    BY <1>1, <1>2, <1>3, Advance
  <1>5. ~ At(a, "await")' /\ \A b \in Agents : b # a => Steady(b)
    BY <1>1, <1>2, <1>3, StepMoves
  <1>6. \A b \in Agents : Calm(b)
    BY <1>3, <1>5 DEF Calm, Steady
  <1>7. SentInv' /\ NvlInv' /\ UNCHANGED Nvl!vars
    BY <1>1, <1>6, SizeFacts, NvlCalm DEF Nvl!vars
  <1>8. GridInv(r, i)' /\ GridOf(r, i)!Next
    BY ArriveInv, LeaveInv DEF GridOf!Next
  <1>9. /\ GridTyped'
        /\ \A q \in Ranks, j \in GridIndices : q # r \/ j # i =>
             /\ grid'[q][j] = grid[q][j] /\ drawn'[q][j] = drawn[q][j]
             /\ gridCalls'[q][j] = gridCalls[q][j] /\ gridReturns'[q][j] = gridReturns[q][j]
    <2>1. CASE GridArrive(i, r, s)
      <3>1. /\ drawn' = [drawn EXCEPT ![r][i][s] = grid[r][i]]
            /\ grid' = [grid EXCEPT ![r][i] = (@ + GridAdd(s)) % (2 * FinishTag)]
            /\ gridCalls' = [gridCalls EXCEPT ![r][i][s] = @ + 1]
            /\ gridReturns' = gridReturns
        BY <2>1 DEF GridArrive
      <3>2. grid'[r][i] \in Nat
        BY <1>8 DEF GridInv
      <3>3. grid' \in [Ranks -> [GridIndices -> Nat]]
        BY <3>1, <3>2 DEF GridTyped
      <3>4. drawn' \in [Ranks -> [GridIndices -> [SMs -> Nat]]]
        BY <3>1 DEF GridTyped
      <3>5. gridCalls' \in [Ranks -> [GridIndices -> [SMs -> Nat]]]
        BY <3>1 DEF GridTyped
      <3> QED BY <3>1, <3>3, <3>4, <3>5 DEF GridTyped
    <2>2. CASE GridLeave(i, r, s)
      <3>1. /\ gridReturns' = [gridReturns EXCEPT ![r][i][s] = @ + 1]
            /\ UNCHANGED <<grid, drawn, gridCalls>>
        BY <2>2 DEF GridLeave
      <3> QED BY <3>1 DEF GridTyped
    <2> QED BY <2>1, <2>2
  <1>10. ASSUME NEW q \in Ranks, NEW j \in GridIndices, q # r \/ j # i
         PROVE  GridInv(q, j)' /\ UNCHANGED GridOf(q, j)!vars
    <2>1. \A t \in SMs : At(<<j, q, t>>, "depart")' <=> At(<<j, q, t>>, "depart")
      BY <1>2, <1>5, <1>10 DEF Steady
    <2> QED BY <2>1, <1>9, <1>10, GridStill
  <1>11. \A q \in Ranks, j \in GridIndices :
           GridInv(q, j)' /\ (GridOf(q, j)!Next \/ UNCHANGED GridOf(q, j)!vars)
    BY <1>8, <1>10
  <1> QED BY <1>4, <1>7, <1>9, <1>11 DEF Phases

LEMMA OtherStep ==
  ASSUME IInv,
         \A a \in Agents : At(a, "depart")' <=> At(a, "depart"),
         UNCHANGED <<grid, drawn, gridCalls, gridReturns>>
  PROVE  /\ GridTyped'
         /\ \A r \in Ranks, i \in GridIndices : GridInv(r, i)' /\ UNCHANGED GridOf(r, i)!vars
  <1>1. GridTyped'
    BY DEF IInv, GridTyped
  <1>2. ASSUME NEW r \in Ranks, NEW i \in GridIndices
        PROVE  GridInv(r, i)' /\ UNCHANGED GridOf(r, i)!vars
    <2>1. \A s \in SMs : At(<<i, r, s>>, "depart")' <=> At(<<i, r, s>>, "depart")
      BY AgentFacts
    <2> QED BY <2>1, GridStill DEF IInv
  <1> QED BY <1>1, <1>2

LEMMA NextStep ==
  ASSUME BarrierSizes, IInv, [Next]_vars
  PROVE  IInv' /\ Phases
  <1> USE DEF IInv
  <1>1. ASSUME NEW i \in GridIndices, NEW r \in Ranks, NEW s \in SMs,
               GridArrive(i, r, s) \/ GridLeave(i, r, s)
        PROVE  IInv' /\ Phases
    BY <1>1, GridStep
  <1>2. ASSUME NEW i \in GridIndices, NEW r \in Ranks, NEW q \in Ranks, SendSignal(i, r, q)
        PROVE  IInv' /\ Phases
    <2>1. PcInv' /\ \A a \in Agents : At(a, "depart")' <=> At(a, "depart")
      BY <1>2, SizeFacts, SendReached
    <2>2. UNCHANGED <<grid, drawn, gridCalls, gridReturns>>
      BY <1>2 DEF SendSignal
    <2>3. SentInv' /\ NvlInv' /\ (UNCHANGED <<nvlCalls, nvlReturns>> \/ Nvl!Enter(r))
      BY <1>2, SendInv
    <2>4. /\ GridTyped'
          /\ \A p \in Ranks, j \in GridIndices : GridInv(p, j)' /\ UNCHANGED GridOf(p, j)!vars
      BY <2>1, <2>2, OtherStep
    <2> QED BY <2>1, <2>3, <2>4 DEF Phases, Nvl!Next, Nvl!vars
  <1>3. ASSUME NEW i \in GridIndices, NEW r \in Ranks, AllSignalled(i, r)
        PROVE  IInv' /\ Phases
    <2>1. PcInv' /\ SentInv' /\ NvlInv' /\ Nvl!Leave(r)
          /\ \A a \in Agents : At(a, "depart")' <=> At(a, "depart")
      BY <1>3, AwaitInv
    <2>2. UNCHANGED <<grid, drawn, gridCalls, gridReturns>>
      BY <1>3 DEF AllSignalled
    <2>4. /\ GridTyped'
          /\ \A p \in Ranks, j \in GridIndices : GridInv(p, j)' /\ UNCHANGED GridOf(p, j)!vars
      BY <2>1, <2>2, OtherStep
    <2> QED BY <2>1, <2>4 DEF Phases, Nvl!Next
  <1>4. ASSUME PcInv', \A a \in Agents : Steady(a), UNCHANGED <<sent, words>>
        PROVE  IInv' /\ Phases
    <2>1. UNCHANGED <<rounds, signal, nvlCalls, nvlReturns, grid, drawn, gridCalls, gridReturns, sent>>
      BY <1>4 DEF words
    <2>2. SentInv' /\ NvlInv'
      <3>1. \A a \in Agents : Calm(a)
        BY <1>4 DEF Calm, Steady
      <3> QED BY <2>1, <3>1, SizeFacts, NvlCalm
    <2>3. \A a \in Agents : At(a, "depart")' <=> At(a, "depart")
      BY <1>4 DEF Steady
    <2>4. /\ GridTyped'
          /\ \A p \in Ranks, j \in GridIndices : GridInv(p, j)' /\ UNCHANGED GridOf(p, j)!vars
      BY <2>1, <2>3, OtherStep
    <2> QED BY <1>4, <2>1, <2>2, <2>4 DEF Phases, Nvl!vars
  <1>5. ASSUME NEW r \in Ranks, Launch(r)
        PROVE  IInv' /\ Phases
    BY <1>4, <1>5, LaunchPc, LaunchMoves DEF Launch
  <1>6. ASSUME NEW r \in Ranks, NEW s \in SMs, Meet(r, s)
        PROVE  IInv' /\ Phases
    BY <1>4, <1>6, MeetPc, MeetMoves DEF Meet
  <1>7. ASSUME UNCHANGED vars
        PROVE  IInv' /\ Phases
    <2>1. PcInv' /\ UNCHANGED <<sent, words>> /\ \A a \in Agents : Steady(a)
      BY <1>7 DEF vars, PcInv, Steady, At
    <2> QED BY <1>4, <2>1
  <1> QED BY <1>1, <1>2, <1>3, <1>5, <1>6, <1>7 DEF Next

LEMMA InitIInv ==
  ASSUME BarrierSizes, Init
  PROVE  /\ IInv
         /\ Nvl!Init /\ \A r \in Ranks, i \in GridIndices : GridOf(r, i)!Init
  <1>1. PcInv
    BY AgentsAre DEF Init, PcInv
  <1>2. \A a \in Agents : ~ At(a, "depart") /\ ~ At(a, "await")
    <2>1. ASSUME NEW a \in Agents
          PROVE  ~ At(a, "depart") /\ ~ At(a, "await")
      <3>1. PICK r \in Ranks, s \in SMs : a \in {D(r, s), E(r, s)}
        BY AgentsAre
      <3>2. ~ StepAt(a, 1, "depart") /\ ~ StepAt(a, 1, "await")
        BY <1>1, <3>1, Following
      <3> QED BY <3>2 DEF Init, At, StepAt
    <2> QED BY <2>1
  <1>3. SentInv
    BY SizeFacts DEF Init, SentInv
  <1>4. \A r \in Ranks : ~ Awaits(r) /\ ~ Begun(r) /\ \A q : ~ Reached(r, q)
    BY <1>2, SizeFacts, AgentsAre DEF Awaits, Begun, Reached, Init
  <1>5. \A r \in Ranks : \A q : Signalled(r, q) = 0
    BY <1>4 DEF Signalled, Init
  <1>6. NvlInv
    <2>1. \A q \in Ranks, p \in {0, 1} : Marked(q, p) = {}
      BY <1>5 DEF Marked, Marks
    <2>2. \A q \in Ranks, p \in {0, 1} : signal[q][p] = Cardinality(Marked(q, p))
      BY <2>1, FS_EmptySet DEF Init
    <2>3. /\ rounds \in [Ranks -> Nat] /\ signal \in [Ranks -> [{0, 1} -> Int]]
          /\ nvlReturns = rounds /\ nvlCalls \in [Ranks -> Nat]
      BY DEF Init
    <2>4. /\ \A r \in Ranks : nvlCalls[r] = rounds[r] + (IF Begun(r) THEN 1 ELSE 0)
          /\ \A r, q \in Ranks : rounds[r] <= Signalled(q, r)
      BY <1>4, <1>5 DEF Init
    <2> QED BY <2>2, <2>3, <2>4 DEF NvlInv
  <1>7. /\ grid = [r \in Ranks |-> [i \in GridIndices |-> 0]]
        /\ drawn = Each(0) /\ gridCalls = Each(0) /\ gridReturns = Each(0)
        /\ Each(0) \in [Ranks -> [GridIndices -> [SMs -> Nat]]]
        /\ \A r \in Ranks, i \in GridIndices : Each(0)[r][i] = [s \in SMs |-> 0]
    BY DEF Init, Each
  <1>8. GridTyped
    BY <1>7 DEF GridTyped
  <1>9. ASSUME NEW r \in Ranks, NEW i \in GridIndices
        PROVE  GridInv(r, i)
    <2> DEFINE z == [s \in SMs |-> 0]
    <2>1. gridCalls[r][i] = z /\ gridReturns[r][i] = z /\ grid[r][i] = 0 /\ drawn[r][i] = z
      BY <1>7
    <2>2. {s \in SMs : z[s] = 0 + 1} = {}
      OBVIOUS
    <2>3. Counted(z, 0, 0)
      <3>1. /\ \A s \in SMs : z[s] \in {0, 0 + 1}
            /\ \E s \in SMs : z[s] = 0
        BY SizeFacts
      <3>2. 0 = (0 % 2) * FinishTag + Added({s \in SMs : z[s] = 0 + 1})
        <4>1. 0 % 2 = 0
          OBVIOUS
        <4>2. Added({}) = 0
          BY AddedIs
        <4>3. Added({s \in SMs : z[s] = 0 + 1}) = 0
          BY <2>2, <4>2
        <4>4. 0 * FinishTag = 0
          BY SizeFacts
        <4> HIDE DEF z
        <4> QED BY <4>1, <4>3, <4>4
      <3> QED BY <3>1, <3>2 DEF Counted
    <2>4. \A s \in SMs : ~ At(<<i, r, s>>, "depart")
      BY <1>2, AgentFacts
    <2>5. z \in [SMs -> Nat] /\ \A s \in SMs : z[s] = 0
      OBVIOUS
    <2> HIDE DEF z
    <2>6. \E k \in Nat : Counted(z, 0, k)
      BY <2>3
    <2> QED BY <2>1, <2>4, <2>5, <2>6 DEF GridInv
  <1>10. Nvl!Init
    BY DEF Init, Nvl!Init
  <1>11. \A r \in Ranks, i \in GridIndices : GridOf(r, i)!Init
    BY <1>7 DEF GridOf!Init
  <1> QED BY <1>1, <1>3, <1>6, <1>8, <1>9, <1>10, <1>11 DEF IInv

(* The barriers of the SM100 mega MoE kernel, on any number of ranks and SMs *)
(* and for any number of launches: no rank leaves a round of NVLink signals  *)
(* before every rank has entered it, and no SM leaves a grid_sync before all *)
(* SMs of its rank are there.  (Nothing is assumed of the scheduling.)       *)
THEOREM Refinement == BarrierSizes /\ Init /\ [][Next]_vars => ImplementsPhase
  <1>1. BarrierSizes /\ Init => IInv
    BY InitIInv
  <1>2. BarrierSizes /\ Init => Nvl!Init /\ \A r \in Ranks, i \in GridIndices : GridOf(r, i)!Init
    BY InitIInv
  <1>3. BarrierSizes /\ IInv /\ [Next]_vars => IInv'
    BY NextStep
  <1>4. BarrierSizes /\ IInv /\ [Next]_vars =>
          [/\ Nvl!Next \/ UNCHANGED Nvl!vars
           /\ \A r \in Ranks, i \in GridIndices :
                GridOf(r, i)!Next \/ UNCHANGED GridOf(r, i)!vars]_words
    BY NextStep DEF Phases
  <1>5. BarrierSizes => BarrierSizes'
    BY DEF BarrierSizes
  <1> QED BY <1>1, <1>2, <1>3, <1>4, <1>5, PTL DEF ImplementsPhase
=============================================================================

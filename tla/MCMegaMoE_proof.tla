---------------------------- MODULE MCMegaMoE_proof ----------------------------
(***************************************************************************)
(* The launches of MegaMoE, for all numbers of ranks, SMs, experts and     *)
(* tiles and all inputs: what is read belongs to the launch that reads it  *)
(* (Reads).  The inductive invariant IInv says where the agents are, how   *)
(* far their loops are, which rounds of signals are over, and for every    *)
(* word of the workspace from which steps of which rank it comes.  Then    *)
(* the barriers of the instance that TLC checks: they are those of         *)
(* NvlinkBarrier_proof, so what is proved there holds of it (Barriers).    *)
(***************************************************************************)
EXTENDS MCMegaMoE, NaturalsInduction, WellFoundedInduction, FiniteSetTheorems, SequenceTheorems, TLAPS

LEMMA LeastElement ==
  ASSUME NEW S \in SUBSET Nat, S # {}
  PROVE  \E m \in S : \A k \in S : m <= k
  <1> DEFINE R == {ss \in Nat \X Nat : ss[1] < ss[2]}
  <1>1. IsWellFoundedOn(R, Nat)
    BY NatLessThanWellFounded DEF OpToRel
  <1>2. PICK m \in S : \A k \in S : ~ (<<k, m>> \in R)
    <2> HIDE DEF R
    <2> QED BY <1>1, WFMin
  <1>3. ASSUME NEW k \in S
        PROVE  m <= k
    <2>1. <<k, m>> \in Nat \X Nat /\ <<k, m>>[1] = k /\ <<k, m>>[2] = m
      OBVIOUS
    <2> QED BY <1>2, <2>1
  <1> QED BY <1>3

(* Induction, with the set of numbers that satisfy the hypothesis for it.   *)
LEMMA InductionTo ==
  ASSUME NEW n \in Nat, NEW S, 0 \in S, \A m \in 0 .. n - 1 : m \in S => m + 1 \in S
  PROVE  0 .. n \subseteq S
  <1> DEFINE Missing == {m \in 0 .. n : m \notin S}
  <1> SUFFICES ASSUME Missing # {}
               PROVE  FALSE
    OBVIOUS
  <1>1. Missing \in SUBSET Nat
    OBVIOUS
  <1>2. PICK m \in Missing : \A k \in Missing : m <= k
    <2> HIDE DEF Missing
    <2> QED BY <1>1, LeastElement
  <1>3. m \in 1 .. n
    OBVIOUS
  <1>4. m - 1 \in 0 .. n - 1 /\ m - 1 \in 0 .. n /\ (m - 1) + 1 = m
    BY <1>3
  <1>5. m - 1 \in S
    BY <1>2, <1>3, <1>4
  <1> QED BY <1>4, <1>5

LEMMA TimesLess ==
  ASSUME NEW n \in Nat, NEW a \in Int, NEW b \in Int, a < b
  PROVE  a * n + n <= b * n
  <1>1. b - a - 1 \in Nat
    OBVIOUS
  <1>2. (b - a - 1) * n \in Nat
    BY <1>1
  <1>3. (b - a - 1) * n = b * n - a * n - n
    OBVIOUS
  <1> QED BY <1>2, <1>3

LEMMA TimesLeq ==
  ASSUME NEW n \in Nat, NEW a \in Int, NEW b \in Int, a <= b
  PROVE  a * n <= b * n
  <1>1. (b - a) * n \in Nat
    OBVIOUS
  <1>2. (b - a) * n = b * n - a * n
    OBVIOUS
  <1> QED BY <1>1, <1>2

LEMMA QuotientUnique ==
  ASSUME NEW n \in Nat \ {0}, NEW q \in Int, NEW p \in Int,
         NEW s \in 0 .. n - 1, NEW t \in 0 .. n - 1, q * n + s = p * n + t
  PROVE  q = p /\ s = t
  <1>1. ASSUME q < p PROVE FALSE
    BY <1>1, TimesLess
  <1>2. ASSUME p < q PROVE FALSE
    BY <1>2, TimesLess
  <1> QED BY <1>1, <1>2

LEMMA DivMod ==
  ASSUME NEW n \in Nat \ {0}, NEW a \in Nat
  PROVE  a \div n \in Nat /\ a % n \in 0 .. n - 1 /\ a = (a \div n) * n + (a % n)
  OBVIOUS

LEMMA DivIs ==
  ASSUME NEW n \in Nat \ {0}, NEW q \in Nat, NEW s \in 0 .. n - 1
  PROVE  (q * n + s) \div n = q /\ (q * n + s) % n = s
  <1>1. q * n + s \in Nat
    OBVIOUS
  <1> DEFINE a == q * n + s
  <1>2. a \div n \in Nat /\ a % n \in 0 .. n - 1 /\ a = (a \div n) * n + (a % n)
    BY <1>1, DivMod
  <1> QED BY <1>2, QuotientUnique

(* A quotient is below a bound when the dividend is.                        *)
LEMMA DivLess ==
  ASSUME NEW n \in Nat \ {0}, NEW a \in Nat, NEW m \in Int
  PROVE  a < m * n <=> a \div n < m
  <1>1. a \div n \in Nat /\ a % n \in 0 .. n - 1 /\ a = (a \div n) * n + (a % n)
    BY DivMod
  <1>2. ASSUME a \div n < m PROVE a < m * n
    <2>1. (a \div n) * n + n <= m * n
      BY <1>1, <1>2, TimesLess
    <2> QED BY <1>1, <2>1
  <1>3. ASSUME m <= a \div n PROVE m * n <= a
    <2>1. m * n <= (a \div n) * n
      BY <1>1, <1>3, TimesLeq
    <2> QED BY <1>1, <2>1
  <1> QED BY <1>1, <1>2, <1>3


-----------------------------------------------------------------------------
(* Sums over a set.  S elements with g[x] units each; MapThenSumSet counts   *)
(* the units.                                                               *)

Units(g, S) == UNION {{x} \X (0 .. g[x] - 1) : x \in S}
Weigh(g, S) == Cardinality(Units(g, S))
Pick(s) == CHOOSE x \in s : TRUE

LEMMA IntervalSize ==
  ASSUME NEW n \in Nat
  PROVE  IsFiniteSet(0 .. n - 1) /\ Cardinality(0 .. n - 1) = n
  <1>1. n - 1 \in Int /\ 0 \in Int
    OBVIOUS
  <1>2. IsFiniteSet(0 .. n - 1) /\ Cardinality(0 .. n - 1) = IF 0 > n - 1 THEN 0 ELSE (n - 1) - 0 + 1
    BY <1>1, FS_Interval
  <1> QED BY <1>2

LEMMA UnitsOne ==
  ASSUME NEW n \in Nat, NEW x
  PROVE  IsFiniteSet({x} \X (0 .. n - 1)) /\ Cardinality({x} \X (0 .. n - 1)) = n
  <1> DEFINE f == [k \in 0 .. n - 1 |-> <<x, k>>]
  <1>1. IsFiniteSet(0 .. n - 1) /\ Cardinality(0 .. n - 1) = n
    BY IntervalSize
  <1>2. f \in Bijection(0 .. n - 1, {x} \X (0 .. n - 1))
    BY DEF Bijection, Injection, Surjection, IsInjective
  <1>3. ExistsBijection(0 .. n - 1, {x} \X (0 .. n - 1))
    BY <1>2 DEF ExistsBijection
  <1> QED BY <1>1, <1>3, FS_Bijection

LEMMA WeighFinite ==
  ASSUME NEW S, IsFiniteSet(S), NEW g, \A x \in S : g[x] \in Nat
  PROVE  IsFiniteSet(Units(g, S)) /\ Weigh(g, S) \in Nat
  <1> DEFINE piece(x) == {x} \X (0 .. g[x] - 1)
  <1>1. ASSUME NEW x \in S
        PROVE  IsFiniteSet(piece(x))
    BY UnitsOne
  <1>2. IsFiniteSet({piece(x) : x \in S})
    <2> DEFINE f == [x \in S |-> piece(x)]
    <2>1. f \in Surjection(S, {piece(x) : x \in S})
      BY DEF Surjection
    <2> QED BY <2>1, FS_Surjection
  <1>3. IsFiniteSet(UNION {piece(x) : x \in S})
    BY <1>1, <1>2, FS_UNION
  <1> QED BY <1>3, FS_CardinalityType DEF Units, Weigh

LEMMA DisjointUnion ==
  ASSUME NEW S, NEW T, IsFiniteSet(S), IsFiniteSet(T), S \cap T = {}
  PROVE  IsFiniteSet(S \cup T) /\ Cardinality(S \cup T) = Cardinality(S) + Cardinality(T)
  <1>1. Cardinality(S) \in Nat /\ Cardinality(T) \in Nat /\ Cardinality({}) = 0
    BY FS_CardinalityType, FS_EmptySet
  <1>3. Cardinality(S \cap T) = 0
    BY <1>1, Zenon
  <1>2. /\ IsFiniteSet(S \cup T)
        /\ Cardinality(S \cup T) = Cardinality(S) + Cardinality(T) - Cardinality(S \cap T)
    BY FS_Union
  <1> QED BY <1>1, <1>2, <1>3

LEMMA WeighStep ==
  ASSUME NEW S, IsFiniteSet(S), NEW g, \A y \in S : g[y] \in Nat, NEW x \in S
  PROVE  Weigh(g, S) = g[x] + Weigh(g, S \ {x})
  <1> DEFINE one == {x} \X (0 .. g[x] - 1)
             rest == Units(g, S \ {x})
  <1>1. IsFiniteSet(one) /\ Cardinality(one) = g[x]
    BY UnitsOne
  <1>2. IsFiniteSet(S \ {x}) /\ \A y \in S \ {x} : g[y] \in Nat
    BY FS_Subset
  <1>3. IsFiniteSet(rest) /\ Cardinality(rest) \in Nat
    BY <1>2, WeighFinite DEF Weigh
  <1>4. one \cap rest = {}
    BY DEF Units
  <1>5. Units(g, S) = one \cup rest
    BY DEF Units
  <1>6. Cardinality(one \cup rest) = Cardinality(one) + Cardinality(rest)
    <2> HIDE DEF one, rest
    <2> QED BY <1>1, <1>3, <1>4, DisjointUnion
  <1> QED BY <1>1, <1>5, <1>6 DEF Weigh

Folds(iter, g, S) ==
  iter = [s \in SUBSET S |-> IF s = {} THEN 0 ELSE g[Pick(s)] + iter[s \ {Pick(s)}]]

LEMMA WeighFolds ==
  ASSUME NEW S, IsFiniteSet(S), NEW g, \A x \in S : g[x] \in Nat
  PROVE  /\ Folds([s \in SUBSET S |-> Weigh(g, s)], g, S)
         /\ \A iter : Folds(iter, g, S) => iter[S] = Weigh(g, S)
  <1>1. ASSUME NEW s \in SUBSET S, s # {}
        PROVE  /\ Pick(s) \in s /\ s \ {Pick(s)} \in SUBSET S
               /\ Weigh(g, s) = g[Pick(s)] + Weigh(g, s \ {Pick(s)})
    <2>1. Pick(s) \in s
      BY <1>1 DEF Pick
    <2>2. IsFiniteSet(s)
      BY FS_Subset
    <2> QED BY <2>1, <2>2, WeighStep
  <1>2. Weigh(g, {}) = 0
    BY FS_EmptySet DEF Weigh, Units
  <1>3. Folds([s \in SUBSET S |-> Weigh(g, s)], g, S)
    <2> DEFINE w == [s \in SUBSET S |-> Weigh(g, s)]
    <2>1. ASSUME NEW s \in SUBSET S
          PROVE  w[s] = IF s = {} THEN 0 ELSE g[Pick(s)] + w[s \ {Pick(s)}]
      BY <1>1, <1>2
    <2>2. w = [s \in SUBSET S |-> w[s]]
      OBVIOUS
    <2> HIDE DEF w
    <2>3. w = [s \in SUBSET S |-> IF s = {} THEN 0 ELSE g[Pick(s)] + w[s \ {Pick(s)}]]
      BY <2>1, <2>2
    <2> QED BY <2>3 DEF Folds, w
  <1>4. ASSUME NEW iter, Folds(iter, g, S)
        PROVE  iter[S] = Weigh(g, S)
    <2> DEFINE Right == {n \in Nat : \A s \in SUBSET S : Cardinality(s) = n => iter[s] = Weigh(g, s)}
    <2>1. \A s \in SUBSET S : iter[s] = IF s = {} THEN 0 ELSE g[Pick(s)] + iter[s \ {Pick(s)}]
      BY <1>4 DEF Folds
    <2>2. \A s \in SUBSET S : IsFiniteSet(s) /\ Cardinality(s) \in Nat
      BY FS_Subset, FS_CardinalityType
    <2>3. 0 \in Right
      <3>1. ASSUME NEW s \in SUBSET S, Cardinality(s) = 0
            PROVE  iter[s] = Weigh(g, s)
        BY <1>2, <2>1, <2>2, <3>1, FS_EmptySet
      <3> QED BY <3>1
    <2>4. ASSUME NEW n \in Nat, n \in Right
          PROVE  n + 1 \in Right
      <3>1. ASSUME NEW s \in SUBSET S, Cardinality(s) = n + 1
            PROVE  iter[s] = Weigh(g, s)
        <4>1. s # {}
          BY <3>1, FS_EmptySet
        <4>2. Cardinality(s \ {Pick(s)}) = n
          <5>1. IsFiniteSet(s) /\ Pick(s) \in s
            BY <1>1, <2>2, <4>1
          <5>2. Cardinality(s \ {Pick(s)}) = Cardinality(s) - 1
            BY <5>1, FS_RemoveElement
          <5> QED BY <3>1, <5>2
        <4>3. iter[s \ {Pick(s)}] = Weigh(g, s \ {Pick(s)})
          BY <1>1, <2>4, <4>1, <4>2
        <4> QED BY <1>1, <2>1, <4>1, <4>3
      <3> QED BY <3>1
    <2>5. Cardinality(S) \in Right
      <3> DEFINE c == Cardinality(S)
      <3>1. c \in Nat
        BY <2>2
      <3> HIDE DEF Right, c
      <3>2. 0 .. c \subseteq Right
        BY <2>3, <2>4, <3>1, InductionTo
      <3> QED BY <3>1, <3>2 DEF c
    <2> QED BY <2>5
  <1> QED BY <1>3, <1>4

(* MapThenSumSet, for what it is used for here.                             *)
LEMMA SumIs ==
  ASSUME NEW S, IsFiniteSet(S), NEW g, \A x \in S : g[x] \in Nat
  PROVE  MapThenSumSet(LAMBDA x : g[x], S) = Weigh(g, S)
  <1>1. MapThenSumSet(LAMBDA x : g[x], S)
          = (CHOOSE iter : iter = [s \in SUBSET S |->
               IF s = {} THEN 0 ELSE g[Pick(s)] + iter[s \ {Pick(s)}]])[S]
    BY DEF MapThenSumSet, MapThenFoldSet, Pick
  <1> DEFINE it == CHOOSE iter : Folds(iter, g, S)
  <1>2. \E iter : Folds(iter, g, S)
    BY WeighFolds
  <1>3. Folds(it, g, S)
    BY <1>2
  <1>4. it[S] = Weigh(g, S)
    BY <1>3, WeighFolds
  <1> QED BY <1>1, <1>4 DEF Folds

LEMMA BlocksSum ==
  ASSUME NEW c, NEW g, NEW e \in Nat, NEW S, S = 0 .. e - 1, IsFiniteSet(S),
         \A x \in S : g[x] \in Nat /\ NumMBlocks(c, x) = g[x]
  PROVE  PoolBlockOffset(c, e) = Weigh(g, S)
  <1> DEFINE F(iter) == iter = [s \in SUBSET S |->
               IF s = {} THEN 0 ELSE NumMBlocks(c, Pick(s)) + iter[s \ {Pick(s)}]]
  <1>1. PoolBlockOffset(c, e) = (CHOOSE iter : F(iter))[S]
    BY DEF PoolBlockOffset, MapThenSumSet, MapThenFoldSet, Pick
  <1>2. ASSUME NEW iter
        PROVE  F(iter) <=> Folds(iter, g, S)
    <2>1. \A s \in SUBSET S : s # {} => NumMBlocks(c, Pick(s)) = g[Pick(s)]
      BY DEF Pick
    <2>2. [s \in SUBSET S |-> IF s = {} THEN 0 ELSE NumMBlocks(c, Pick(s)) + iter[s \ {Pick(s)}]]
          = [s \in SUBSET S |-> IF s = {} THEN 0 ELSE g[Pick(s)] + iter[s \ {Pick(s)}]]
      BY <2>1
    <2> QED BY <2>2 DEF Folds
  <1>3. \E iter : F(iter)
    BY <1>2, WeighFolds
  <1> DEFINE it == CHOOSE iter : F(iter)
  <1>4. F(it)
    <2> HIDE DEF F
    <2> QED BY <1>3
  <1>5. Folds(it, g, S)
    BY <1>2, <1>4
  <1>6. it[S] = Weigh(g, S)
    <2> HIDE DEF it
    <2> QED BY <1>5, WeighFolds
  <1> QED BY <1>1, <1>6

(* Sums over the numbers below e grow by one weight at a time.              *)
LEMMA WeighUpto ==
  ASSUME NEW n \in Nat, NEW g \in [0 .. n - 1 -> Nat]
  PROVE  /\ Weigh(g, 0 .. 0 - 1) = 0
         /\ \A e \in 0 .. n : Weigh(g, 0 .. e - 1) \in Nat
         /\ \A e \in 0 .. n - 1 : Weigh(g, 0 .. (e + 1) - 1) = Weigh(g, 0 .. e - 1) + g[e]
  <1>1. Weigh(g, 0 .. 0 - 1) = 0
    <2>1. Units(g, 0 .. 0 - 1) = {}
      BY DEF Units
    <2> QED BY <2>1, FS_EmptySet DEF Weigh
  <1>2. ASSUME NEW e \in 0 .. n
        PROVE  IsFiniteSet(0 .. e - 1) /\ Weigh(g, 0 .. e - 1) \in Nat
    <2>1. e - 1 \in Int /\ 0 \in Int
      OBVIOUS
    <2>2. IsFiniteSet(0 .. e - 1)
      BY <2>1, FS_Interval
    <2>3. \A x \in 0 .. e - 1 : g[x] \in Nat
      OBVIOUS
    <2> QED BY <2>2, <2>3, WeighFinite
  <1>3. ASSUME NEW e \in 0 .. n - 1
        PROVE  Weigh(g, 0 .. (e + 1) - 1) = Weigh(g, 0 .. e - 1) + g[e]
    <2> DEFINE S == 0 .. (e + 1) - 1
    <2>1. e + 1 \in 0 .. n /\ e \in 0 .. n
      OBVIOUS
    <2>2. IsFiniteSet(S) /\ (\A x \in S : g[x] \in Nat) /\ e \in S /\ S \ {e} = 0 .. e - 1
      <3>1. IsFiniteSet(S)
        BY <1>2, <2>1
      <3>2. \A x \in S : x \in 0 .. n - 1
        OBVIOUS
      <3>3. e \in S /\ S \ {e} = 0 .. e - 1
        OBVIOUS
      <3> QED BY <3>1, <3>2, <3>3
    <2>3. Weigh(g, 0 .. e - 1) \in Nat
      BY <1>2, <2>1
    <2> HIDE DEF S
    <2>4. Weigh(g, S) = g[e] + Weigh(g, S \ {e})
      BY <2>2, WeighStep
    <2>5. Weigh(g, S \ {e}) = Weigh(g, 0 .. e - 1)
      BY <2>2, Zenon
    <2>6. Weigh(g, S) = Weigh(g, 0 .. e - 1) + g[e]
      BY <2>2, <2>3, <2>4, <2>5
    <2> QED BY <2>6 DEF S
  <1> QED BY <1>1, <1>2, <1>3

(* Ranges laid end to end: who is where.                                    *)
Adjoin(f, w, n) ==
  /\ f \in [0 .. n -> Nat] /\ w \in [0 .. n - 1 -> Nat] /\ f[0] = 0
  /\ \A e \in 0 .. n - 1 : f[e + 1] = f[e] + w[e]

LEMMA AdjoinMono ==
  ASSUME NEW n \in Nat, NEW f, NEW w, Adjoin(f, w, n), NEW d \in 0 .. n, NEW e \in d .. n
  PROVE  f[d] <= f[e]
  <1> DEFINE Below == {m \in 0 .. n - d : f[d] <= f[d + m]}
  <1>1. 0 \in Below
    BY DEF Adjoin
  <1>2. ASSUME NEW m \in 0 .. (n - d) - 1, m \in Below
        PROVE  m + 1 \in Below
    <2>1. d + m \in 0 .. n - 1 /\ d + (m + 1) = (d + m) + 1 /\ m + 1 \in 0 .. n - d
      OBVIOUS
    <2>2. f[d + (m + 1)] = f[d + m] + w[d + m] /\ w[d + m] \in Nat /\ f[d + m] \in Nat /\ f[d] \in Nat
      BY <2>1 DEF Adjoin
    <2> QED BY <1>2, <2>1, <2>2
  <1>3. 0 .. n - d \subseteq Below
    <2> DEFINE k == n - d
    <2>1. k \in Nat
      OBVIOUS
    <2>2. \A m \in 0 .. k - 1 : m \in Below => m + 1 \in Below
      BY <1>2
    <2> HIDE DEF Below, k
    <2>3. 0 .. k \subseteq Below
      BY <1>1, <2>1, <2>2, InductionTo
    <2> QED BY <2>3 DEF k
  <1>4. e - d \in 0 .. n - d /\ d + (e - d) = e
    OBVIOUS
  <1> QED BY <1>3, <1>4

LEMMA AdjoinOwner ==
  ASSUME NEW n \in Nat, NEW f, NEW w, Adjoin(f, w, n), NEW i \in 0 .. f[n] - 1
  PROVE  \E e \in 0 .. n - 1 : f[e] <= i /\ i < f[e + 1] /\ \A d \in 0 .. n - 1 : i < f[d + 1] => e <= d
  <1> DEFINE Past == {e \in 0 .. n : i < f[e]}
  <1>1. n \in Past /\ Past \in SUBSET Nat
    BY DEF Adjoin
  <1>2. PICK m \in Past : \A k \in Past : m <= k
    <2> HIDE DEF Past
    <2> QED BY <1>1, LeastElement
  <1>3. m # 0
    BY <1>2 DEF Adjoin
  <1>4. m - 1 \in 0 .. n - 1 /\ m - 1 \in 0 .. n /\ (m - 1) + 1 = m /\ i < f[m]
    BY <1>2, <1>3
  <1>5. m - 1 \notin Past
    BY <1>2, <1>4
  <1>6. f[m - 1] \in Nat
    BY <1>4 DEF Adjoin
  <1>7. f[m - 1] <= i
    BY <1>4, <1>5, <1>6
  <1>8. \A d \in 0 .. n - 1 : i < f[d + 1] => m - 1 <= d
    <2> TAKE d \in 0 .. n - 1
    <2>1. d + 1 \in 0 .. n
      OBVIOUS
    <2> QED BY <1>2, <2>1
  <1> QED BY <1>4, <1>7, <1>8

LEMMA AdjoinUnique ==
  ASSUME NEW n \in Nat, NEW f, NEW w, Adjoin(f, w, n), NEW d \in 0 .. n - 1, NEW e \in 0 .. n - 1,
         NEW i \in Int, f[d] <= i, i < f[d + 1], f[e] <= i, i < f[e + 1]
  PROVE  d = e
  <1>1. ASSUME NEW a \in 0 .. n - 1, NEW b \in 0 .. n - 1, a < b
        PROVE  f[a + 1] <= f[b] /\ f[a + 1] \in Nat /\ f[b] \in Nat
    <2>1. a + 1 \in 0 .. n /\ b \in (a + 1) .. n /\ b \in 0 .. n
      BY <1>1
    <2> QED BY <2>1, AdjoinMono DEF Adjoin
  <1>2. f[d] \in Nat /\ f[e] \in Nat
    BY DEF Adjoin
  <1> QED BY <1>1, <1>2

-----------------------------------------------------------------------------
(* The rows of the pool and the tokens to pull, for n[e] tokens for expert   *)
(* e.                                                                       *)

Plans == [LocalExperts -> Nat]

LEMMA Sizes1 ==
  /\ NumRanks \in Nat \ {0} /\ NumSMs \in Nat \ {0} /\ NumSMs >= 2 /\ NumExperts \in Nat \ {0}
  /\ BlockM \in Nat \ {0} /\ L1BlockNs \in Nat \ {0} /\ L2BlockNs \in Nat \ {0}
  /\ MaxReceived \in Nat
  BY MegaSizes

LEMMA CeilDivIs ==
  ASSUME NEW n \in Nat, NEW b \in Nat \ {0}
  PROVE  /\ CeilDiv(n, b) \in Nat
         /\ \A k \in 0 .. n - 1 : k \div b \in 0 .. CeilDiv(n, b) - 1
         /\ \A m \in 0 .. CeilDiv(n, b) - 1 : m * b < n
  <1>1. n + b - 1 \in Nat
    OBVIOUS
  <1> DEFINE d == (n + b - 1) \div b
  <1>2. d \in Nat /\ (n + b - 1) % b \in 0 .. b - 1 /\ n + b - 1 = d * b + ((n + b - 1) % b)
    BY <1>1, DivMod
  <1>3. ASSUME NEW k \in 0 .. n - 1
        PROVE  k \div b \in 0 .. d - 1
    <2>1. k < d * b
      BY <1>2
    <2> HIDE DEF d
    <2>2. k \in Nat /\ d \in Int
      BY <1>2
    <2>3. k \div b \in Nat /\ k \div b < d
      BY <2>1, <2>2, DivLess, DivMod
    <2> QED BY <1>2, <2>3
  <1>4. ASSUME NEW m \in 0 .. d - 1
        PROVE  m * b < n
    <2> HIDE DEF d
    <2>1. m * b + b <= d * b
      BY <1>2, TimesLess
    <2>2. m * b \in Nat /\ d * b \in Nat
      BY <1>2
    <2> QED BY <1>2, <2>1, <2>2
  <1> QED BY <1>2, <1>3, <1>4 DEF CeilDiv

LEMMA InstanceIs ==
  ASSUME NEW n, NEW c, c = Instance(n)
  PROVE  /\ c.experts = NumExperts /\ c.wave = ExpertsPerWave /\ c.tokens = n /\ c.bm = BlockM
         /\ c.l1n = L1BlockNs /\ c.l2n = L2BlockNs /\ c.sms = NumSMs
         /\ Experts(c) = LocalExperts
  BY DEF Instance, Experts, LocalExperts

Offsets(c) == [e \in 0 .. NumExperts |-> PoolBlockOffset(c, e)]
Heights(c) == [e \in 0 .. NumExperts - 1 |-> NumMBlocks(c, e)]
Starts(c) == [e \in 0 .. NumExperts |-> TokensBefore(c, e)]

LEMMA OffsetsAdjoin ==
  ASSUME NEW n \in Plans, NEW c, c = Instance(n)
  PROVE  Adjoin(Offsets(c), Heights(c), NumExperts)
  <1>1. NumExperts \in Nat /\ n \in [0 .. NumExperts - 1 -> Nat]
    BY Sizes1 DEF Plans, LocalExperts
  <1>2. \A e \in 0 .. NumExperts - 1 : NumMBlocks(c, e) \in Nat
    <2> TAKE e \in 0 .. NumExperts - 1
    <2>1. c.tokens[e] = n[e] /\ c.bm = BlockM /\ n[e] \in Nat /\ BlockM \in Nat \ {0}
      BY <1>1, InstanceIs, Sizes1
    <2> QED BY <2>1, CeilDivIs DEF NumMBlocks
  <1>3. Heights(c) \in [0 .. NumExperts - 1 -> Nat]
    BY <1>2 DEF Heights
  <1> DEFINE g == Heights(c)
  <1>4. ASSUME NEW e \in 0 .. NumExperts
        PROVE  PoolBlockOffset(c, e) = Weigh(g, 0 .. e - 1)
    <2>1. e - 1 \in Int /\ 0 \in Int
      BY <1>1
    <2>2. IsFiniteSet(0 .. e - 1)
      BY <2>1, FS_Interval
    <2>3. \A x \in 0 .. e - 1 : g[x] \in Nat /\ NumMBlocks(c, x) = g[x]
      BY <1>1, <1>2 DEF Heights
    <2>4. e \in Nat
      OBVIOUS
    <2> HIDE DEF g
    <2> QED BY <2>2, <2>3, <2>4, BlocksSum
  <1>5. /\ Weigh(g, 0 .. 0 - 1) = 0
        /\ \A e \in 0 .. NumExperts : Weigh(g, 0 .. e - 1) \in Nat
        /\ \A e \in 0 .. NumExperts - 1 : Weigh(g, 0 .. (e + 1) - 1) = Weigh(g, 0 .. e - 1) + g[e]
    <2> HIDE DEF g
    <2> QED BY <1>1, <1>3, WeighUpto DEF g
  <1>6. 0 \in 0 .. NumExperts /\ \A e \in 0 .. NumExperts - 1 : e \in 0 .. NumExperts /\ e + 1 \in 0 .. NumExperts
    BY <1>1
  <1> HIDE DEF g
  <1>7. PoolBlockOffset(c, 0) = 0
    BY <1>4, <1>5, <1>6
  <1>8. \A e \in 0 .. NumExperts : PoolBlockOffset(c, e) \in Nat
    BY <1>4, <1>5
  <1>9. \A e \in 0 .. NumExperts - 1 : PoolBlockOffset(c, e + 1) = PoolBlockOffset(c, e) + g[e]
    BY <1>4, <1>5, <1>6
  <1> QED BY <1>3, <1>6, <1>7, <1>8, <1>9 DEF Adjoin, Offsets, g

LEMMA StartsAdjoin ==
  ASSUME NEW n \in Plans, NEW c, c = Instance(n)
  PROVE  Adjoin(Starts(c), n, NumExperts)
  <1>1. NumExperts \in Nat /\ n \in [0 .. NumExperts - 1 -> Nat] /\ c.tokens = n
    BY Sizes1, InstanceIs DEF Plans, LocalExperts
  <1>4. ASSUME NEW e \in 0 .. NumExperts
        PROVE  TokensBefore(c, e) = Weigh(n, 0 .. e - 1)
    <2>1. e - 1 \in Int /\ 0 \in Int
      BY <1>1
    <2>2. IsFiniteSet(0 .. e - 1)
      BY <2>1, FS_Interval
    <2>3. \A x \in 0 .. e - 1 : n[x] \in Nat
      BY <1>1
    <2>4. MapThenSumSet(LAMBDA x : n[x], 0 .. e - 1) = Weigh(n, 0 .. e - 1)
      BY <2>2, <2>3, SumIs
    <2> QED BY <1>1, <2>4 DEF TokensBefore
  <1>5. /\ Weigh(n, 0 .. 0 - 1) = 0
        /\ \A e \in 0 .. NumExperts : Weigh(n, 0 .. e - 1) \in Nat
        /\ \A e \in 0 .. NumExperts - 1 : Weigh(n, 0 .. (e + 1) - 1) = Weigh(n, 0 .. e - 1) + n[e]
    BY <1>1, WeighUpto
  <1>6. 0 \in 0 .. NumExperts /\ \A e \in 0 .. NumExperts - 1 : e \in 0 .. NumExperts /\ e + 1 \in 0 .. NumExperts
    BY <1>1
  <1>7. TokensBefore(c, 0) = 0
    BY <1>4, <1>5, <1>6
  <1>8. \A e \in 0 .. NumExperts : TokensBefore(c, e) \in Nat
    BY <1>4, <1>5
  <1>9. \A e \in 0 .. NumExperts - 1 : TokensBefore(c, e + 1) = TokensBefore(c, e) + n[e]
    BY <1>4, <1>5, <1>6
  <1> QED BY <1>1, <1>6, <1>7, <1>8, <1>9 DEF Adjoin, Starts

(* The tokens of a rank are the tokens of its experts.                      *)
LEMMA TaskIs ==
  ASSUME NEW n \in Plans, NEW c, c = Instance(n)
  PROVE  /\ TotalTokens(c) \in Nat
         /\ \A i \in 0 .. TotalTokens(c) - 1 :
              LET t == PullTask(c, i) IN
              /\ t = [expert |-> t.expert, idx |-> t.idx]
              /\ t.expert \in LocalExperts /\ t.idx \in 0 .. n[t.expert] - 1
              /\ i = TokensBefore(c, t.expert) + t.idx
         /\ \A e \in LocalExperts : \A k \in 0 .. n[e] - 1 :
              \E i \in 0 .. TotalTokens(c) - 1 : PullTask(c, i) = [expert |-> e, idx |-> k]
  <1>1. NumExperts \in Nat /\ n \in [0 .. NumExperts - 1 -> Nat] /\ Experts(c) = LocalExperts
        /\ LocalExperts = 0 .. NumExperts - 1 /\ c.experts = NumExperts
    BY Sizes1, InstanceIs DEF Plans, LocalExperts
  <1>2. Adjoin(Starts(c), n, NumExperts)
    BY StartsAdjoin
  <1>3. /\ \A e \in 0 .. NumExperts : Starts(c)[e] = TokensBefore(c, e) /\ TokensBefore(c, e) \in Nat
        /\ \A e \in 0 .. NumExperts - 1 : /\ e + 1 \in 0 .. NumExperts /\ e \in 0 .. NumExperts
                                          /\ TokensBefore(c, e + 1) = TokensBefore(c, e) + n[e]
    <2>1. \A e \in 0 .. NumExperts : Starts(c)[e] = TokensBefore(c, e)
      BY DEF Starts
    <2>2. \A e \in 0 .. NumExperts - 1 : e + 1 \in 0 .. NumExperts /\ e \in 0 .. NumExperts
      BY <1>1
    <2>3. /\ \A e \in 0 .. NumExperts : Starts(c)[e] \in Nat
          /\ \A e \in 0 .. NumExperts - 1 : Starts(c)[e + 1] = Starts(c)[e] + n[e]
      BY <1>2 DEF Adjoin
    <2> QED BY <2>1, <2>2, <2>3
  <1>4. NumExperts \in 0 .. NumExperts /\ TotalTokens(c) = TokensBefore(c, NumExperts)
        /\ TotalTokens(c) = Starts(c)[NumExperts] /\ TotalTokens(c) \in Nat
    BY <1>1, <1>3 DEF TotalTokens
  <1>5. ASSUME NEW i \in 0 .. TotalTokens(c) - 1, NEW e \in LocalExperts,
               TokensBefore(c, e) <= i, i < TokensBefore(c, e + 1)
        PROVE  PullTask(c, i) = [expert |-> e, idx |-> i - TokensBefore(c, e)]
    <2> DEFINE Past == {x \in Experts(c) : i < TokensBefore(c, x + 1)}
    <2>1. e \in Past
      BY <1>1, <1>5
    <2>2. \A d \in Past : e <= d
      <3> SUFFICES ASSUME NEW d \in 0 .. NumExperts - 1, i < TokensBefore(c, d + 1), d < e
                   PROVE  FALSE
        BY <1>1
      <3>1. d + 1 \in 0 .. NumExperts /\ e \in (d + 1) .. NumExperts /\ e \in 0 .. NumExperts
        BY <1>1
      <3>2. Starts(c)[d + 1] <= Starts(c)[e]
        BY <1>1, <1>2, <3>1, AdjoinMono
      <3> QED BY <1>3, <1>5, <3>1, <3>2
    <2>3. \A x \in Past : (\A y \in Past : x <= y) => x = e
      <3> SUFFICES ASSUME NEW x \in Past, \A y \in Past : x <= y
                   PROVE  x = e
        OBVIOUS
      <3>1. x <= e /\ e <= x /\ x \in Int /\ e \in Int
        BY <1>1, <2>1, <2>2
      <3> QED BY <3>1
    <2> HIDE DEF Past
    <2>4. Min(Past) = e
      BY <2>1, <2>2, <2>3 DEF Min
    <2> QED BY <2>4 DEF PullTask, Past
  <1>6. ASSUME NEW i \in 0 .. TotalTokens(c) - 1
        PROVE  LET t == PullTask(c, i) IN
               /\ t = [expert |-> t.expert, idx |-> t.idx]
               /\ t.expert \in LocalExperts /\ t.idx \in 0 .. n[t.expert] - 1
               /\ i = TokensBefore(c, t.expert) + t.idx
    <2>1. i \in 0 .. Starts(c)[NumExperts] - 1
      BY <1>4
    <2>2. PICK e \in 0 .. NumExperts - 1 : Starts(c)[e] <= i /\ i < Starts(c)[e + 1]
      BY <1>1, <1>2, <2>1, AdjoinOwner
    <2>3. TokensBefore(c, e) <= i /\ i < TokensBefore(c, e + 1)
      BY <1>3, <2>2
    <2>4. PullTask(c, i) = [expert |-> e, idx |-> i - TokensBefore(c, e)]
      BY <1>1, <1>5, <2>3
    <2>5. TokensBefore(c, e) \in Nat /\ n[e] \in Nat /\ TokensBefore(c, e + 1) = TokensBefore(c, e) + n[e]
      BY <1>1, <1>3
    <2>6. i - TokensBefore(c, e) \in 0 .. n[e] - 1 /\ i = TokensBefore(c, e) + (i - TokensBefore(c, e))
      BY <1>4, <2>3, <2>5
    <2> QED BY <1>1, <2>4, <2>6
  <1>7. ASSUME NEW e \in LocalExperts, NEW k \in 0 .. n[e] - 1
        PROVE  \E i \in 0 .. TotalTokens(c) - 1 : PullTask(c, i) = [expert |-> e, idx |-> k]
    <2>1. TokensBefore(c, e) \in Nat /\ n[e] \in Nat /\ TokensBefore(c, e + 1) = TokensBefore(c, e) + n[e]
      BY <1>1, <1>3
    <2> DEFINE i == TokensBefore(c, e) + k
    <2>2. e + 1 \in 0 .. NumExperts /\ NumExperts \in (e + 1) .. NumExperts
      BY <1>1
    <2>3. Starts(c)[e + 1] <= Starts(c)[NumExperts]
      BY <1>1, <1>2, <2>2, AdjoinMono
    <2>4. i \in 0 .. TotalTokens(c) - 1 /\ TokensBefore(c, e) <= i /\ i < TokensBefore(c, e + 1)
          /\ i - TokensBefore(c, e) = k
      BY <1>3, <1>4, <2>1, <2>2, <2>3
    <2>5. PullTask(c, i) = [expert |-> e, idx |-> i - TokensBefore(c, e)]
      <3> HIDE DEF i
      <3> QED BY <1>5, <2>4
    <2>6. PullTask(c, i) = [expert |-> e, idx |-> k]
      BY <2>4, <2>5
    <2> HIDE DEF i
    <2> QED BY <2>4, <2>6
  <1> QED BY <1>4, <1>6, <1>7

-----------------------------------------------------------------------------
(* Counting.                                                                *)

(* The elements of a finite set, each numbered by how many precede it.      *)
LEMMA Numbering ==
  ASSUME NEW S, IsFiniteSet(S), NEW Before \in [S -> SUBSET S],
         \A x \in S : x \notin Before[x],
         \A x \in S : \A y \in Before[x] : Before[y] \subseteq Before[x],
         \A x, y \in S : x # y => x \in Before[y] \/ y \in Before[x]
  PROVE  /\ Cardinality(S) \in Nat
         /\ \A x \in S : Cardinality(Before[x]) \in 0 .. Cardinality(S) - 1
         /\ \A x, y \in S : Cardinality(Before[x]) = Cardinality(Before[y]) => x = y
         /\ \A k \in 0 .. Cardinality(S) - 1 : \E x \in S : Cardinality(Before[x]) = k
  <1> DEFINE n == Cardinality(S)
             f == [x \in S |-> Cardinality(Before[x])]
  <1>1. n \in Nat
    BY FS_CardinalityType
  <1>2. \A x \in S : IsFiniteSet(Before[x]) /\ Cardinality(Before[x]) \in 0 .. n - 1
    <2> TAKE x \in S
    <2>1. Before[x] \in SUBSET (S \ {x})
      OBVIOUS
    <2>2. IsFiniteSet(S \ {x}) /\ Cardinality(S \ {x}) = n - 1
      BY FS_RemoveElement
    <2>3. IsFiniteSet(Before[x]) /\ Cardinality(Before[x]) <= n - 1
      BY <2>1, <2>2, FS_Subset
    <2>4. Cardinality(Before[x]) \in Nat
      BY <2>3, FS_CardinalityType
    <2> QED BY <1>1, <2>3, <2>4
  <1>3. ASSUME NEW x \in S, NEW y \in S, y \in Before[x]
        PROVE  Cardinality(Before[y]) # Cardinality(Before[x])
    <2>1. Before[y] \in SUBSET Before[x] /\ Before[y] # Before[x]
      BY <1>3
    <2> QED BY <1>2, <2>1, FS_Subset
  <1>4. \A x, y \in S : f[x] = f[y] => x = y
    BY <1>3
  <1>5. f \in Injection(S, 0 .. n - 1)
    <2>1. f \in [S -> 0 .. n - 1]
      BY <1>2
    <2> QED BY <1>4, <2>1 DEF Injection, IsInjective
  <1>6. IsFiniteSet(0 .. n - 1) /\ Cardinality(0 .. n - 1) = n
    BY <1>1, FS_Interval
  <1>7. f \in Surjection(S, 0 .. n - 1)
    <2> HIDE DEF f
    <2> QED BY <1>5, <1>6, FS_Injection
  <1>8. \A k \in 0 .. n - 1 : \E x \in S : f[x] = k
    <2> HIDE DEF f
    <2> QED BY <1>7 DEF Surjection
  <1> QED BY <1>1, <1>2, <1>4, <1>8

(* The numbers below N that are s modulo S.                                 *)
LEMMA Stride ==
  ASSUME NEW N \in Nat, NEW S \in Nat \ {0}, NEW s \in 0 .. S - 1, NEW C, C = {i \in 0 .. N - 1 : i % S = s}
  PROVE  /\ Cardinality(C) \in Nat
         /\ \A j \in Nat : j < Cardinality(C) <=> s + S * j < N
  <1>0. \A i \in C : i \in Nat /\ i < N /\ i \div S \in Nat /\ i = (i \div S) * S + s
    BY DivMod
  <1>1. CASE N <= s
    <2>1. \A q \in Nat : q * S \in Nat
      OBVIOUS
    <2>2. C = {}
      BY <1>0, <1>1, <2>1
    <2>3. Cardinality(C) = 0
      BY <2>2, FS_EmptySet
    <2>4. \A j \in Nat : ~ (s + S * j < N) /\ ~ (j < 0)
      BY <1>1, <2>1
    <2> DEFINE Fits(j) == s + S * j < N
    <2> HIDE DEF Fits
    <2>5. \A j \in Nat : ~ Fits(j) /\ ~ (j < 0)
      BY <2>4 DEF Fits
    <2>6. Cardinality(C) \in Nat /\ \A j \in Nat : j < Cardinality(C) <=> Fits(j)
      <3>1. \A n : n = 0 => n \in Nat /\ \A j \in Nat : j < n <=> Fits(j)
        BY <2>5
      <3> QED BY <2>3, <3>1, Zenon
    <2> QED BY <2>6 DEF Fits
  <1>2. CASE s < N
    <2> DEFINE M == N - s
               T == CeilDiv(M, S)
               f == [j \in 0 .. T - 1 |-> s + S * j]
    <2>1. M \in Nat /\ T \in Nat /\ (\A k \in 0 .. M - 1 : k \div S \in 0 .. T - 1)
          /\ \A m \in 0 .. T - 1 : m * S < M
      <3>1. M \in Nat
        BY <1>2
      <3> QED BY <3>1, CeilDivIs
    <2> HIDE DEF T
    <2>2. ASSUME NEW q \in Nat
          PROVE  q * S \in Nat /\ (q * S) \div S = q /\ (q * S + s) % S = s /\ q * S + s = s + S * q
      <3>1. 0 \in 0 .. S - 1
        OBVIOUS
      <3>2. (q * S + 0) \div S = q
        BY <3>1, DivIs
      <3>3. (q * S + s) % S = s
        BY DivIs
      <3>4. q * S \in Nat /\ q * S + 0 = q * S
        OBVIOUS
      <3> QED BY <3>2, <3>3, <3>4
    <2>3. ASSUME NEW j \in 0 .. T - 1
          PROVE  s + S * j \in C
      <3>1. j \in Nat /\ j * S < M /\ j * S \in Nat /\ (j * S + s) % S = s /\ j * S + s = s + S * j
        BY <2>1, <2>2
      <3>2. j * S + s \in 0 .. N - 1
        BY <3>1
      <3> QED BY <3>1, <3>2
    <2>4. ASSUME NEW j \in Nat, s + S * j < N
          PROVE  j \in 0 .. T - 1
      <3>1. j * S \in 0 .. M - 1 /\ (j * S) \div S = j
        BY <2>2, <2>4
      <3> QED BY <2>1, <3>1
    <2>5. ASSUME NEW i \in C
          PROVE  \E j \in 0 .. T - 1 : s + S * j = i
      <3> DEFINE q == i \div S
      <3>1. q \in Nat /\ i = q * S + s /\ i < N
        BY <1>0
      <3> HIDE DEF q
      <3>2. s + S * q = i
        BY <3>1, <2>2
      <3>3. q \in 0 .. T - 1
        BY <2>4, <3>1, <3>2
      <3> QED BY <3>2, <3>3
    <2>6. \A j, k \in 0 .. T - 1 : s + S * j = s + S * k => j = k
      <3> SUFFICES ASSUME NEW j \in 0 .. T - 1, NEW k \in 0 .. T - 1, s + S * j = s + S * k
                   PROVE  j = k
        OBVIOUS
      <3>1. j * S + s = k * S + s /\ j \in Int /\ k \in Int
        BY <2>1, <2>2
      <3> QED BY <3>1, QuotientUnique
    <2>7. f \in Bijection(0 .. T - 1, C)
      <3>1. f \in [0 .. T - 1 -> C]
        BY <2>3
      <3>2. \A j, k \in 0 .. T - 1 : f[j] = f[k] => j = k
        BY <2>6
      <3>3. \A i \in C : \E j \in 0 .. T - 1 : f[j] = i
        BY <2>5
      <3> HIDE DEF f
      <3> QED BY <3>1, <3>2, <3>3 DEF Bijection, Injection, Surjection, IsInjective
    <2>8. ExistsBijection(0 .. T - 1, C)
      BY <2>7 DEF ExistsBijection
    <2>9. IsFiniteSet(0 .. T - 1) /\ Cardinality(0 .. T - 1) = T
      BY <2>1, IntervalSize
    <2>10. Cardinality(C) = T
      BY <2>8, <2>9, FS_Bijection
    <2>11. \A j \in Nat : j < T <=> s + S * j < N
      <3> TAKE j \in Nat
      <3>1. ASSUME j < T PROVE s + S * j < N
        <4>1. j \in 0 .. T - 1
          BY <2>1, <3>1
        <4> QED BY <2>3, <4>1
      <3>2. ASSUME s + S * j < N PROVE j < T
        BY <2>1, <2>4, <3>2
      <3> QED BY <3>1, <3>2
    <2> QED BY <2>1, <2>10, <2>11
  <1> QED BY <1>1, <1>2

(* A subset with as many elements is the set.                               *)
LEMMA SameSize ==
  ASSUME NEW T, IsFiniteSet(T), NEW S \in SUBSET T
  PROVE  /\ IsFiniteSet(S) /\ Cardinality(S) \in Nat /\ Cardinality(T) \in Nat
         /\ Cardinality(S) <= Cardinality(T)
         /\ Cardinality(S) = Cardinality(T) => S = T
  BY FS_Subset, FS_CardinalityType

LEMMA OneMore ==
  ASSUME NEW S, IsFiniteSet(S), NEW x, x \notin S, NEW T, T = S \cup {x}
  PROVE  IsFiniteSet(T) /\ Cardinality(T) = Cardinality(S) + 1 /\ Cardinality(S) \in Nat
  BY FS_AddElement, FS_CardinalityType

-----------------------------------------------------------------------------
(* The blocks of the pool: where the tokens go.                             *)

PlanRow(c, i) == PoolRow(c, PullTask(c, i))
InPart(c, i, e, m) == PullTask(c, i).expert = e /\ PullTask(c, i).idx \div BlockM = m
Part(c, e) == PoolBlockOffset(c, e) .. PoolBlockOffset(c, e) + NumMBlocks(c, e) - 1

LEMMA PartsApart ==
  ASSUME NEW n \in Plans, NEW c, c = Instance(n), NEW e \in LocalExperts
  PROVE  /\ PoolBlockOffset(c, e) \in Nat /\ NumMBlocks(c, e) \in Nat
         /\ NumMBlocks(c, e) = CeilDiv(n[e], BlockM)
         /\ \A d \in LocalExperts, k \in Int : k \in Part(c, e) /\ k \in Part(c, d) => d = e
  <1>1. Adjoin(Offsets(c), Heights(c), NumExperts) /\ NumExperts \in Nat
    BY OffsetsAdjoin, Sizes1
  <1>2. ASSUME NEW d \in LocalExperts
        PROVE  /\ d \in 0 .. NumExperts - 1 /\ d \in 0 .. NumExperts /\ d + 1 \in 0 .. NumExperts
               /\ Offsets(c)[d] = PoolBlockOffset(c, d) /\ Offsets(c)[d] \in Nat
               /\ Heights(c)[d] = NumMBlocks(c, d) /\ Heights(c)[d] \in Nat
               /\ Offsets(c)[d + 1] = Offsets(c)[d] + Heights(c)[d]
    <2>1. d \in 0 .. NumExperts - 1 /\ d \in 0 .. NumExperts /\ d + 1 \in 0 .. NumExperts
      BY <1>1 DEF LocalExperts
    <2>2. Offsets(c)[d] = PoolBlockOffset(c, d) /\ Heights(c)[d] = NumMBlocks(c, d)
      BY <2>1 DEF Offsets, Heights
    <2>3. Offsets(c)[d] \in Nat /\ Heights(c)[d] \in Nat /\ Offsets(c)[d + 1] = Offsets(c)[d] + Heights(c)[d]
      BY <1>1, <2>1 DEF Adjoin
    <2> QED BY <2>1, <2>2, <2>3
  <1>3. ASSUME NEW d \in LocalExperts, NEW k \in Int, k \in Part(c, e), k \in Part(c, d)
        PROVE  d = e
    <2>1. Offsets(c)[d] <= k /\ k < Offsets(c)[d + 1] /\ Offsets(c)[e] <= k /\ k < Offsets(c)[e + 1]
      BY <1>2, <1>3 DEF Part
    <2> QED BY <1>1, <1>2, <2>1, AdjoinUnique
  <1>4. NumMBlocks(c, e) = CeilDiv(n[e], BlockM)
    BY InstanceIs DEF NumMBlocks
  <1> QED BY <1>2, <1>3, <1>4

LEMMA RowIs ==
  ASSUME NEW n \in Plans, NEW c, c = Instance(n), NEW i \in 0 .. TotalTokens(c) - 1,
         NEW e, NEW d, e = PullTask(c, i).expert, d = PullTask(c, i).idx
  PROVE  /\ e \in LocalExperts /\ d \in 0 .. n[e] - 1 /\ i = TokensBefore(c, e) + d
         /\ d \div BlockM \in 0 .. NumMBlocks(c, e) - 1
         /\ PlanRow(c, i) \in Nat /\ PlanRow(c, i) = PoolBlockOffset(c, e) * BlockM + d
         /\ PlanRow(c, i) \div BlockM = PoolBlockOffset(c, e) + d \div BlockM
         /\ PlanRow(c, i) \div BlockM \in Part(c, e)
  <1>1. e \in LocalExperts /\ d \in 0 .. n[e] - 1 /\ i = TokensBefore(c, e) + d
    BY TaskIs
  <1>2. BlockM \in Nat \ {0} /\ n[e] \in Nat /\ c.bm = BlockM
    BY <1>1, Sizes1, InstanceIs DEF Plans
  <1>3. NumMBlocks(c, e) = CeilDiv(n[e], BlockM) /\ PoolBlockOffset(c, e) \in Nat
    BY <1>1, PartsApart
  <1>4. d \div BlockM \in 0 .. NumMBlocks(c, e) - 1
    BY <1>1, <1>2, <1>3, CeilDivIs
  <1> DEFINE o == PoolBlockOffset(c, e)
             q == d \div BlockM
             s == d % BlockM
  <1>5. d \in Nat /\ q \in Nat /\ s \in 0 .. BlockM - 1 /\ d = q * BlockM + s
    <2>1. d \in Nat
      BY <1>1
    <2> QED BY <1>2, <2>1, DivMod
  <1>6. PlanRow(c, i) = o * BlockM + d
    BY <1>2 DEF PlanRow, PoolRow
  <1>7. o \in Nat
    BY <1>3
  <1>8. NumMBlocks(c, e) \in Nat
    BY <1>1, PartsApart
  <1> HIDE DEF o, q, s
  <1>9. o * BlockM + d = (o + q) * BlockM + s
    BY <1>2, <1>5, <1>7
  <1>10. ((o + q) * BlockM + s) \div BlockM = o + q
    <2>1. o + q \in Nat
      BY <1>5, <1>7
    <2> QED BY <1>2, <1>5, <2>1, DivIs
  <1>11. PlanRow(c, i) \in Nat
    <2>1. o * BlockM \in Nat
      BY <1>2, <1>7
    <2> QED BY <1>5, <1>6, <2>1
  <1>12. o + q \in Part(c, e)
    <2>1. q \in 0 .. NumMBlocks(c, e) - 1
      BY <1>4 DEF q
    <2> QED BY <1>7, <1>8, <2>1 DEF Part, o
  <1>13. PlanRow(c, i) \div BlockM = o + q
    BY <1>6, <1>9, <1>10
  <1>14. PlanRow(c, i) \div BlockM \in Part(c, e)
    BY <1>12, <1>13, Zenon
  <1> QED BY <1>1, <1>4, <1>6, <1>11, <1>13, <1>14, Zenon DEF o, q

LEMMA RowsApart ==
  ASSUME NEW n \in Plans, NEW c, c = Instance(n),
         NEW i \in 0 .. TotalTokens(c) - 1, NEW j \in 0 .. TotalTokens(c) - 1, PlanRow(c, i) = PlanRow(c, j)
  PROVE  i = j
  <1> DEFINE e == PullTask(c, i).expert
             d == PullTask(c, i).idx
             f == PullTask(c, j).expert
             g == PullTask(c, j).idx
             k == PlanRow(c, i) \div BlockM
  <1>1. /\ e \in LocalExperts /\ d \in 0 .. n[e] - 1 /\ i = TokensBefore(c, e) + d
        /\ PlanRow(c, i) = PoolBlockOffset(c, e) * BlockM + d /\ k \in Part(c, e)
    BY RowIs
  <1>2. /\ f \in LocalExperts /\ g \in 0 .. n[f] - 1 /\ j = TokensBefore(c, f) + g
        /\ PlanRow(c, j) = PoolBlockOffset(c, f) * BlockM + g /\ PlanRow(c, j) \div BlockM \in Part(c, f)
    BY RowIs
  <1>3. k \in Part(c, f)
    BY <1>2
  <1>4. PoolBlockOffset(c, e) \in Nat /\ NumMBlocks(c, e) \in Nat
        /\ \A x \in LocalExperts, y \in Int : y \in Part(c, e) /\ y \in Part(c, x) => x = e
    BY <1>1, PartsApart
  <1>5. k \in Int
    BY <1>1, <1>4 DEF Part
  <1> HIDE DEF e, d, f, g, k
  <1>6. f = e
    BY <1>1, <1>2, <1>3, <1>4, <1>5
  <1>7. PoolBlockOffset(c, e) * BlockM \in Int
    BY <1>4, Sizes1
  <1>8. d \in Int /\ g \in Int
    BY <1>1, <1>2
  <1>9. d = g
    <2>1. PoolBlockOffset(c, e) * BlockM + d = PoolBlockOffset(c, e) * BlockM + g
      BY <1>1, <1>2, <1>6
    <2> QED BY <1>7, <1>8, <2>1
  <1> QED BY <1>1, <1>2, <1>6, <1>9

(* The tokens of a block, its rows, and how many they are.                  *)
RowsIn(c, b) == {PlanRow(c, i) : i \in {x \in 0 .. TotalTokens(c) - 1 : InPart(c, x, b.expert, b.m)}}

LEMMA PartIs ==
  ASSUME NEW n \in Plans, NEW c, c = Instance(n), NEW b, b.expert \in LocalExperts,
         b.m \in 0 .. NumMBlocks(c, b.expert) - 1, NEW k, k = PoolBlock(c, b)
  PROVE  /\ k \in Nat
         /\ \A i \in 0 .. TotalTokens(c) - 1 :
              PlanRow(c, i) \div BlockM = k <=> InPart(c, i, b.expert, b.m)
         /\ Rows(c, b, k) = RowsIn(c, b)
         /\ IsFiniteSet({x \in 0 .. TotalTokens(c) - 1 : InPart(c, x, b.expert, b.m)})
         /\ Cardinality({x \in 0 .. TotalTokens(c) - 1 : InPart(c, x, b.expert, b.m)}) = ValidM(c, b.expert, b.m)
  <1> DEFINE e == b.expert
             m == b.m
             o == PoolBlockOffset(c, e)
             v == ValidM(c, e, m)
             in == {x \in 0 .. TotalTokens(c) - 1 : InPart(c, x, e, m)}
  <1>1. /\ o \in Nat /\ NumMBlocks(c, e) \in Nat /\ NumMBlocks(c, e) = CeilDiv(n[e], BlockM)
        /\ \A d \in LocalExperts, y \in Int : y \in Part(c, e) /\ y \in Part(c, d) => d = e
    BY PartsApart
  <1>2. BlockM \in Nat \ {0} /\ n[e] \in Nat /\ c.bm = BlockM /\ c.tokens = n
    BY Sizes1, InstanceIs DEF Plans
  <1>3. k = o + m /\ m \in Nat /\ k \in Nat /\ k \in Part(c, e)
    BY <1>1 DEF PoolBlock, Part
  <1>4. m * BlockM \in Nat /\ m * BlockM < n[e]
    <2> DEFINE h == n[e]
    <2>1. m \in 0 .. CeilDiv(h, BlockM) - 1 /\ h \in Nat
      BY <1>1, <1>2
    <2> HIDE DEF h, m
    <2>2. m * BlockM < h
      BY <1>2, <2>1, CeilDivIs
    <2> QED BY <1>2, <1>3, <2>2 DEF h
  <1>5. v \in Nat /\ v <= BlockM /\ v <= n[e] - m * BlockM /\ (v = BlockM \/ v = n[e] - m * BlockM)
    <2> DEFINE x == n[e] - m * BlockM
    <2>1. v = Min({x, BlockM}) /\ x \in Nat /\ BlockM \in Nat
      BY <1>2, <1>4 DEF ValidM
    <2> HIDE DEF x, v
    <2>2. v \in {x, BlockM} /\ \A y \in {x, BlockM} : v <= y
      <3>1. \E y \in {x, BlockM} : \A z \in {x, BlockM} : y <= z
        BY <2>1
      <3> QED BY <2>1, <3>1 DEF Min
    <2> QED BY <2>1, <2>2 DEF x
  <1>6. ASSUME NEW i \in 0 .. TotalTokens(c) - 1
        PROVE  PlanRow(c, i) \div BlockM = k <=> InPart(c, i, e, m)
    <2> DEFINE f == PullTask(c, i).expert
               d == PullTask(c, i).idx
    <2>1. /\ f \in LocalExperts /\ d \div BlockM \in Int
          /\ PlanRow(c, i) \div BlockM = PoolBlockOffset(c, f) + d \div BlockM
          /\ PlanRow(c, i) \div BlockM \in Part(c, f)
      <3>1. /\ f \in LocalExperts /\ d \div BlockM \in 0 .. NumMBlocks(c, f) - 1
            /\ PlanRow(c, i) \div BlockM = PoolBlockOffset(c, f) + d \div BlockM
            /\ PlanRow(c, i) \div BlockM \in Part(c, f)
        BY RowIs
      <3> QED BY <3>1
    <2> HIDE DEF f, d
    <2>2. ASSUME PlanRow(c, i) \div BlockM = k
          PROVE  f = e /\ d \div BlockM = m
      <3>1. f = e
        BY <1>1, <1>3, <2>1, <2>2
      <3> QED BY <1>1, <1>3, <2>1, <2>2, <3>1
    <2>3. ASSUME f = e, d \div BlockM = m
          PROVE  PlanRow(c, i) \div BlockM = k
      BY <1>3, <2>1, <2>3
    <2> QED BY <2>2, <2>3 DEF InPart, f, d
  <1>7. ASSUME NEW i \in in
        PROVE  \E x \in 0 .. v - 1 : PlanRow(c, i) = k * BlockM + x
    <2> DEFINE d == PullTask(c, i).idx
    <2>1. PullTask(c, i).expert = e /\ d \div BlockM = m
      BY DEF InPart
    <2>2. d \in 0 .. n[e] - 1 /\ PlanRow(c, i) = o * BlockM + d
      BY <2>1, RowIs
    <2> DEFINE x == d % BlockM
    <2> HIDE DEF d
    <2>3. d \in Nat /\ x \in 0 .. BlockM - 1 /\ d = m * BlockM + x
      <3>1. d \in Nat
        BY <2>2
      <3> QED BY <1>2, <2>1, <3>1, DivMod
    <2> HIDE DEF x, v
    <2>4. x \in 0 .. v - 1
      BY <1>2, <1>4, <1>5, <2>2, <2>3
    <2>5. o * BlockM + (m * BlockM + x) = (o + m) * BlockM + x
      BY <1>1, <1>2, <1>3, <2>3
    <2>6. PlanRow(c, i) = k * BlockM + x
      BY <1>3, <2>2, <2>3, <2>5
    <2> QED BY <2>4, <2>6
  <1>8. ASSUME NEW x \in 0 .. v - 1
        PROVE  \E i \in in : PlanRow(c, i) = k * BlockM + x
    <2> DEFINE d == m * BlockM + x
    <2>1. d \in 0 .. n[e] - 1 /\ x \in 0 .. BlockM - 1
      <3> HIDE DEF v
      <3> QED BY <1>2, <1>4, <1>5
    <2>2. d \div BlockM = m /\ d % BlockM = x
      BY <1>2, <1>3, <2>1, DivIs
    <2> HIDE DEF d
    <2>3. PICK i \in 0 .. TotalTokens(c) - 1 : PullTask(c, i) = [expert |-> e, idx |-> d]
      BY <2>1, TaskIs
    <2>4. i \in in
      BY <2>2, <2>3 DEF InPart
    <2>5. PlanRow(c, i) = o * BlockM + d
      <3>1. PullTask(c, i).idx = d /\ PullTask(c, i).expert = e
        BY <2>3
      <3> QED BY <3>1, RowIs
    <2>6. o * BlockM + (m * BlockM + x) = (o + m) * BlockM + x
      BY <1>1, <1>2, <1>3
    <2>7. PlanRow(c, i) = k * BlockM + x
      BY <1>3, <2>5, <2>6 DEF d
    <2> QED BY <2>4, <2>7
  <1>9. Rows(c, b, k) = {k * BlockM + x : x \in 0 .. v - 1}
    BY <1>2 DEF Rows
  <1> HIDE DEF v, in
  <1>10. Rows(c, b, k) = {PlanRow(c, i) : i \in in}
    BY <1>7, <1>8, <1>9
  <1>11. IsFiniteSet(0 .. v - 1) /\ Cardinality(0 .. v - 1) = v
    BY <1>5, IntervalSize
  <1>12. IsFiniteSet(in) /\ Cardinality(in) = v
    <2> DEFINE f == [i \in in |-> PlanRow(c, i)]
               g == [x \in 0 .. v - 1 |-> k * BlockM + x]
               R == {k * BlockM + x : x \in 0 .. v - 1}
    <2>2. g \in Bijection(0 .. v - 1, R)
      <3>1. k * BlockM \in Int
        BY <1>2, <1>3
      <3>2. g \in [0 .. v - 1 -> R] /\ (\A y \in R : \E x \in 0 .. v - 1 : g[x] = y)
        OBVIOUS
      <3>3. \A x, y \in 0 .. v - 1 : g[x] = g[y] => x = y
        BY <3>1
      <3> HIDE DEF g
      <3> QED BY <3>2, <3>3 DEF Bijection, Injection, Surjection, IsInjective
    <2>3. IsFiniteSet(R) /\ Cardinality(R) = v
      <3>1. ExistsBijection(0 .. v - 1, R)
        BY <2>2 DEF ExistsBijection
      <3> HIDE DEF R
      <3> QED BY <1>11, <3>1, FS_Bijection
    <2>4. f \in Bijection(in, R)
      <3>1. f \in [in -> R]
        BY <1>7
      <3>2. \A y \in R : \E i \in in : f[i] = y
        BY <1>8
      <3>3. \A i, j \in in : f[i] = f[j] => i = j
        <4> SUFFICES ASSUME NEW i \in in, NEW j \in in, PlanRow(c, i) = PlanRow(c, j)
                     PROVE  i = j
          OBVIOUS
        <4>1. i \in 0 .. TotalTokens(c) - 1 /\ j \in 0 .. TotalTokens(c) - 1
          BY DEF in
        <4> QED BY <4>1, RowsApart
      <3> HIDE DEF f, R
      <3> QED BY <3>1, <3>2, <3>3 DEF Bijection, Injection, Surjection, IsInjective
    <2>5. f \in Injection(in, R) /\ f \in Surjection(in, R)
      <3> HIDE DEF f, R
      <3> QED BY <2>4 DEF Bijection
    <2> HIDE DEF f, R
    <2> QED BY <2>3, <2>5, FS_Injection
  <1> QED BY <1>3, <1>6, <1>10, <1>12 DEF in, v, RowsIn

-----------------------------------------------------------------------------
(* Experts and routes.                                                      *)

LEMMA RanksAre == IsFiniteSet(Ranks) /\ Cardinality(Ranks) = NumRanks
  BY Sizes1, FS_Interval DEF Ranks

Glob(r, e) == r * NumExperts + e

LEMMA GlobalIs ==
  /\ \A r \in Ranks, e \in LocalExperts :
       /\ Glob(r, e) \in GlobalExperts /\ Glob(r, e) \in Nat
       /\ Owner(Glob(r, e)) = r /\ Local(Glob(r, e)) = e
  /\ \A x \in GlobalExperts :
       Owner(x) \in Ranks /\ Local(x) \in LocalExperts /\ x = Glob(Owner(x), Local(x))
  <1>1. NumRanks \in Nat /\ NumExperts \in Nat \ {0}
    BY Sizes1
  <1>2. ASSUME NEW r \in Ranks, NEW e \in LocalExperts
        PROVE  /\ Glob(r, e) \in GlobalExperts /\ Glob(r, e) \in Nat
               /\ Owner(Glob(r, e)) = r /\ Local(Glob(r, e)) = e
    <2>1. r \in Nat /\ e \in 0 .. NumExperts - 1 /\ r < NumRanks
      BY <1>1 DEF Ranks, LocalExperts
    <2>2. (r * NumExperts + e) \div NumExperts = r /\ (r * NumExperts + e) % NumExperts = e
      BY <1>1, <2>1, DivIs
    <2>3. r * NumExperts + NumExperts <= NumRanks * NumExperts
      BY <1>1, <2>1, TimesLess
    <2>4. r * NumExperts \in Nat /\ NumRanks * NumExperts \in Nat
      BY <1>1, <2>1
    <2>5. r * NumExperts + e \in 0 .. NumRanks * NumExperts - 1 /\ r * NumExperts + e \in Nat
      <3> DEFINE a == r * NumExperts
                 z == NumRanks * NumExperts
      <3>1. a \in Nat /\ z \in Nat /\ a + NumExperts <= z /\ e \in Nat /\ e < NumExperts /\ NumExperts \in Nat
        BY <1>1, <2>1, <2>3, <2>4
      <3> HIDE DEF a, z
      <3>2. a + e \in 0 .. z - 1 /\ a + e \in Nat
        BY <3>1
      <3> QED BY <3>2 DEF a, z
    <2> QED BY <2>2, <2>5 DEF Glob, Owner, Local, GlobalExperts
  <1>3. ASSUME NEW x \in GlobalExperts
        PROVE  Owner(x) \in Ranks /\ Local(x) \in LocalExperts /\ x = Glob(Owner(x), Local(x))
    <2>1. NumRanks * NumExperts \in Nat
      BY <1>1
    <2>2. x \in Nat /\ x < NumRanks * NumExperts
      BY <2>1 DEF GlobalExperts
    <2>3. x \div NumExperts \in Nat /\ x % NumExperts \in 0 .. NumExperts - 1
          /\ x = (x \div NumExperts) * NumExperts + (x % NumExperts)
      BY <1>1, <2>2, DivMod
    <2>4. x \div NumExperts < NumRanks
      BY <1>1, <2>2, DivLess
    <2>5. x \div NumExperts \in 0 .. NumRanks - 1
      BY <1>1, <2>3, <2>4
    <2> QED BY <2>3, <2>5 DEF Glob, Owner, Local, Ranks, LocalExperts
  <1> QED BY <1>2, <1>3

(* The routes of an SM, of some SMs, of some ranks.                         *)
Of(C, l, r, e) == UNION {RoutesTo(l, r, s, e) : s \in C}
Sent(l, r, e) == Of(SMs, l, r, e)
Tagged(Q, l, x) == UNION {{<<q, y>> : y \in Sent(l, q, x)} : q \in Q}

LEMMA RoutesAre ==
  ASSUME NEW l \in Nths, NEW r \in Ranks, NEW s \in SMs
  PROVE  /\ IsFiniteSet(Routes(l, r, s))
         /\ \A x \in Routes(l, r, s) :
              /\ x = <<x[1], x[2], x[3]>> /\ x[1] \in Nat /\ x[2] \in Nat
              /\ x[1] % NumSMs = s /\ x[3] \in GlobalExperts \cup {-1}
         /\ \A t \in SMs : \A x \in Routes(l, r, s), y \in Routes(l, r, t) :
              x[1] = y[1] /\ x[2] = y[2] => x = y
  <1> DEFINE tokens == Inputs[l][r]
             E == GlobalExperts \cup {-1}
             J == UNION {DOMAIN tokens[x] : x \in DOMAIN tokens}
             T(u) == {x \in DOMAIN tokens : x % NumSMs = u}
  <1>1. Inputs[l] \in [Ranks -> Seq(Seq(E))]
    BY InputsFit DEF Nths
  <1>2. tokens \in Seq(Seq(E))
    BY <1>1
  <1>3. \A x, y \in DOMAIN tokens : Len(tokens[x]) = Len(tokens[y])
    BY InputsFit
  <1>4. Len(tokens) \in Nat /\ DOMAIN tokens = 1 .. Len(tokens)
    BY <1>2
  <1>5. \A x \in DOMAIN tokens : tokens[x] \in Seq(E)
    BY <1>2
  <1>6. \A x \in DOMAIN tokens : DOMAIN tokens[x] = J /\ tokens[x] \in [J -> E]
    <2> HIDE DEF E
    <2> SUFFICES ASSUME NEW x \in DOMAIN tokens
                 PROVE  DOMAIN tokens[x] = J /\ tokens[x] \in [J -> E]
      OBVIOUS
    <2>1. \A y \in DOMAIN tokens : tokens[y] \in Seq(E) /\ Len(tokens[y]) = Len(tokens[x])
      BY <1>3, <1>5
    <2> HIDE DEF tokens
    <2>2. \A y \in DOMAIN tokens : DOMAIN tokens[y] = 1 .. Len(tokens[x])
      BY <2>1
    <2>3. DOMAIN tokens[x] = J
      BY <2>2
    <2>4. tokens[x] \in [1 .. Len(tokens[x]) -> E]
      BY <2>1
    <2> QED BY <2>2, <2>3, <2>4
  <1>7. IsFiniteSet(J)
    <2> HIDE DEF tokens, E
    <2>1. CASE DOMAIN tokens = {}
      BY <2>1, FS_EmptySet
    <2>2. ASSUME NEW x \in DOMAIN tokens
          PROVE  IsFiniteSet(J)
      <3>1. tokens[x] \in Seq(E) /\ J = DOMAIN tokens[x]
        BY <1>5, <1>6
      <3> HIDE DEF J
      <3>2. Len(tokens[x]) \in Nat /\ J = 1 .. Len(tokens[x])
        BY <3>1
      <3> QED BY <3>2, FS_Interval
    <2> QED BY <2>1, <2>2
  <1>8. \A u : Routes(l, r, u) = {<<t, j, tokens[t][j]>> : t \in T(u), j \in J}
    BY DEF Routes
  <1>9. IsFiniteSet(Routes(l, r, s))
    <2>1. IsFiniteSet(DOMAIN tokens)
      BY <1>4, FS_Interval
    <2>2. T(s) \in SUBSET DOMAIN tokens
      OBVIOUS
    <2> DEFINE U == T(s)
               f == [p \in U \X J |-> <<p[1], p[2], tokens[p[1]][p[2]]>>]
    <2> HIDE DEF J, tokens
    <2>3. IsFiniteSet(U)
      <3> HIDE DEF U
      <3> QED BY <2>1, <2>2, FS_Subset DEF U
    <2> HIDE DEF U
    <2>4. IsFiniteSet(U \X J)
      BY <1>7, <2>3, FS_Product
    <2> DEFINE Y == {<<t, j, tokens[t][j]>> : t \in U, j \in J}
    <2>5. f \in Surjection(U \X J, Y)
      <3>1. ASSUME NEW y \in Y
            PROVE  \E p \in U \X J : f[p] = y
        <4>1. PICK t \in U, j \in J : y = <<t, j, tokens[t][j]>>
          OBVIOUS
        <4>2. <<t, j>> \in U \X J /\ f[<<t, j>>] = y
          BY <4>1
        <4> HIDE DEF f, Y
        <4> QED BY <4>2
      <3>2. f \in [U \X J -> Y]
        OBVIOUS
      <3> HIDE DEF f, Y
      <3> QED BY <3>1, <3>2 DEF Surjection
    <2>6. Routes(l, r, s) = Y
      BY <1>8 DEF U
    <2> HIDE DEF f, Y
    <2>7. IsFiniteSet(Y)
      BY <2>4, <2>5, FS_Surjection
    <2> QED BY <2>6, <2>7
  <1>10. ASSUME NEW u \in SMs, NEW x \in Routes(l, r, u)
         PROVE  /\ x = <<x[1], x[2], x[3]>> /\ x[1] \in DOMAIN tokens /\ x[2] \in J /\ x[1] % NumSMs = u
                /\ x[3] = tokens[x[1]][x[2]]
    <2> HIDE DEF J, tokens
    <2> QED BY <1>8, <1>10
  <1>11. J \subseteq Nat /\ DOMAIN tokens \subseteq Nat
    <2>1. \A x \in DOMAIN tokens : DOMAIN tokens[x] \subseteq Nat
      <3> TAKE x \in DOMAIN tokens
      <3>1. tokens[x] \in Seq(E)
        BY <1>5
      <3> HIDE DEF tokens, E
      <3> QED BY <3>1
    <2> HIDE DEF tokens
    <2> QED BY <1>4, <2>1
  <1>12. \A x \in Routes(l, r, s) : x[3] \in E
    <2> HIDE DEF J, tokens, E
    <2> QED BY <1>6, <1>10
  <1>13. \A t \in SMs : \A x \in Routes(l, r, s), y \in Routes(l, r, t) : x[1] = y[1] /\ x[2] = y[2] => x = y
    <2> HIDE DEF J, tokens, E
    <2> QED BY <1>10
  <1>14. \A x \in Routes(l, r, s) :
           /\ x = <<x[1], x[2], x[3]>> /\ x[1] \in Nat /\ x[2] \in Nat /\ x[1] % NumSMs = s
    <2> HIDE DEF J, tokens, E
    <2> QED BY <1>10, <1>11
  <1> QED BY <1>9, <1>12, <1>13, <1>14

(* The routes of an SM to an expert, numbered by token and top-k slot.      *)
Nth(l, r, s, x) ==
  Cardinality({y \in RoutesTo(l, r, s, x[3]) : y[1] < x[1] \/ (y[1] = x[1] /\ y[2] < x[2])})

LEMMA NthIs ==
  ASSUME NEW l \in Nths, NEW r \in Ranks, NEW s \in SMs, NEW e, NEW own, own = RoutesTo(l, r, s, e)
  PROVE  /\ IsFiniteSet(own) /\ Cardinality(own) \in Nat
         /\ \A x \in own : Nth(l, r, s, x) \in 0 .. Cardinality(own) - 1
         /\ \A x, y \in own : Nth(l, r, s, x) = Nth(l, r, s, y) => x = y
         /\ \A k \in 0 .. Cardinality(own) - 1 : \E x \in own : Nth(l, r, s, x) = k
  <1> DEFINE Before == [x \in own |-> {y \in own : y[1] < x[1] \/ (y[1] = x[1] /\ y[2] < x[2])}]
  <1>1. own \in SUBSET Routes(l, r, s) /\ \A x \in own : x[3] = e
    BY DEF RoutesTo
  <1>2. IsFiniteSet(own)
    BY <1>1, RoutesAre, FS_Subset
  <1>3. \A x, y \in own : /\ x[1] \in Nat /\ x[2] \in Nat
                          /\ x[1] = y[1] /\ x[2] = y[2] => x = y
    BY <1>1, RoutesAre
  <1>4. Before \in [own -> SUBSET own]
    OBVIOUS
  <1>5. \A x \in own : x \notin Before[x]
    BY <1>3
  <1>6. \A x \in own : \A y \in Before[x] : Before[y] \subseteq Before[x]
    BY <1>3
  <1>7. \A x, y \in own : x # y => x \in Before[y] \/ y \in Before[x]
    BY <1>3
  <1>8. \A x \in own : Nth(l, r, s, x) = Cardinality(Before[x])
    BY <1>1 DEF Nth
  <1> HIDE DEF Before
  <1>9. /\ Cardinality(own) \in Nat
        /\ \A x \in own : Cardinality(Before[x]) \in 0 .. Cardinality(own) - 1
        /\ \A x, y \in own : Cardinality(Before[x]) = Cardinality(Before[y]) => x = y
        /\ \A k \in 0 .. Cardinality(own) - 1 : \E x \in own : Cardinality(Before[x]) = k
    BY <1>2, <1>4, <1>5, <1>6, <1>7, Numbering
  <1> QED BY <1>2, <1>8, <1>9

LEMMA OfAdd ==
  ASSUME NEW l \in Nths, NEW r \in Ranks, NEW C \in SUBSET SMs, NEW e
  PROVE  /\ IsFiniteSet(Of(C, l, r, e)) /\ Cardinality(Of(C, l, r, e)) \in Nat
         /\ \A s \in SMs \ C : Cardinality(Of(C \cup {s}, l, r, e))
                                = Cardinality(Of(C, l, r, e)) + Cardinality(RoutesTo(l, r, s, e))
  <1>1. IsFiniteSet(SMs)
    BY Sizes1, FS_Interval DEF SMs
  <1>2. IsFiniteSet(C)
    BY <1>1, FS_Subset
  <1>3. IsFiniteSet({RoutesTo(l, r, s, e) : s \in C})
    <2> DEFINE f == [s \in C |-> RoutesTo(l, r, s, e)]
               Y == {RoutesTo(l, r, s, e) : s \in C}
    <2>1. f \in Surjection(C, Y)
      BY DEF Surjection
    <2> HIDE DEF f, Y
    <2>2. IsFiniteSet(Y)
      BY <1>2, <2>1, FS_Surjection
    <2> QED BY <2>2 DEF Y
  <1>4. \A s \in SMs : IsFiniteSet(RoutesTo(l, r, s, e))
    BY NthIs
  <1>5. IsFiniteSet(Of(C, l, r, e)) /\ Cardinality(Of(C, l, r, e)) \in Nat
    <2>1. \A S \in {RoutesTo(l, r, s, e) : s \in C} : IsFiniteSet(S)
      BY <1>4
    <2>2. IsFiniteSet(Of(C, l, r, e))
      BY <1>3, <2>1, FS_UNION DEF Of
    <2> QED BY <2>2, FS_CardinalityType
  <1>6. ASSUME NEW s \in SMs \ C
        PROVE  Cardinality(Of(C \cup {s}, l, r, e))
                 = Cardinality(Of(C, l, r, e)) + Cardinality(RoutesTo(l, r, s, e))
    <2>1. Of(C \cup {s}, l, r, e) = Of(C, l, r, e) \cup RoutesTo(l, r, s, e)
      BY DEF Of
    <2>2. \A x \in RoutesTo(l, r, s, e) : x[1] % NumSMs = s
      BY RoutesAre DEF RoutesTo
    <2>3. \A x \in Of(C, l, r, e) : x[1] % NumSMs \in C
      <3> SUFFICES ASSUME NEW t \in C, NEW x \in RoutesTo(l, r, t, e)
                   PROVE  x[1] % NumSMs \in C
        BY DEF Of
      <3>1. x \in Routes(l, r, t) /\ t \in SMs
        BY DEF RoutesTo
      <3>2. x[1] % NumSMs = t
        BY <3>1, RoutesAre
      <3> QED BY <3>2
    <2>4. Of(C, l, r, e) \cap RoutesTo(l, r, s, e) = {}
      BY <2>2, <2>3
    <2> DEFINE S == Of(C, l, r, e)
               T == RoutesTo(l, r, s, e)
    <2>5. IsFiniteSet(S) /\ IsFiniteSet(T) /\ S \cap T = {}
      BY <1>4, <1>5, <2>4
    <2> HIDE DEF S, T
    <2>6. Cardinality(S \cup T) = Cardinality(S) + Cardinality(T)
      BY <2>5, DisjointUnion
    <2> QED BY <2>1, <2>6 DEF S, T
  <1> QED BY <1>5, <1>6

LEMMA TaggedAdd ==
  ASSUME NEW l \in Nths, NEW Q \in SUBSET Ranks, NEW x
  PROVE  /\ IsFiniteSet(Tagged(Q, l, x)) /\ Cardinality(Tagged(Q, l, x)) \in Nat
         /\ \A q \in Ranks \ Q : Cardinality(Tagged(Q \cup {q}, l, x))
                                   = Cardinality(Tagged(Q, l, x)) + Cardinality(Sent(l, q, x))
  <1> DEFINE piece(q) == {<<q, y>> : y \in Sent(l, q, x)}
  <1>1. IsFiniteSet(Q)
    <2>1. IsFiniteSet(Ranks)
      BY Sizes1, FS_Interval DEF Ranks
    <2> QED BY <2>1, FS_Subset
  <1>2. ASSUME NEW q \in Ranks
        PROVE  IsFiniteSet(piece(q)) /\ Cardinality(piece(q)) = Cardinality(Sent(l, q, x))
    <2> DEFINE S == Sent(l, q, x)
               f == [y \in S |-> <<q, y>>]
    <2>1. IsFiniteSet(S)
      BY OfAdd DEF Sent
    <2> HIDE DEF S
    <2>2. f \in Bijection(S, {<<q, y>> : y \in S})
      BY DEF Bijection, Injection, Surjection, IsInjective
    <2>3. ExistsBijection(S, {<<q, y>> : y \in S})
      BY <2>2 DEF ExistsBijection
    <2>4. IsFiniteSet({<<q, y>> : y \in S}) /\ Cardinality({<<q, y>> : y \in S}) = Cardinality(S)
      BY <2>1, <2>3, FS_Bijection
    <2> QED BY <2>4 DEF S
  <1>3. IsFiniteSet({piece(q) : q \in Q})
    <2> DEFINE f == [q \in Q |-> piece(q)]
               Y == {piece(q) : q \in Q}
    <2>1. f \in Surjection(Q, Y)
      <3> HIDE DEF piece
      <3> QED BY DEF Surjection
    <2> HIDE DEF f, Y
    <2>2. IsFiniteSet(Y)
      BY <1>1, <2>1, FS_Surjection
    <2> QED BY <2>2 DEF Y
  <1>4. IsFiniteSet(Tagged(Q, l, x)) /\ Cardinality(Tagged(Q, l, x)) \in Nat
    <2>1. \A S \in {piece(q) : q \in Q} : IsFiniteSet(S)
      BY <1>2
    <2>2. IsFiniteSet(Tagged(Q, l, x))
      BY <1>3, <2>1, FS_UNION DEF Tagged
    <2> QED BY <2>2, FS_CardinalityType
  <1>5. ASSUME NEW q \in Ranks \ Q
        PROVE  Cardinality(Tagged(Q \cup {q}, l, x))
                 = Cardinality(Tagged(Q, l, x)) + Cardinality(Sent(l, q, x))
    <2>1. Tagged(Q \cup {q}, l, x) = Tagged(Q, l, x) \cup piece(q)
      BY DEF Tagged
    <2>2. Tagged(Q, l, x) \cap piece(q) = {}
      BY DEF Tagged
    <2> DEFINE S == Tagged(Q, l, x)
               T == piece(q)
    <2>3. IsFiniteSet(S) /\ IsFiniteSet(T) /\ S \cap T = {}
      BY <1>2, <1>4, <2>2
    <2>4. Cardinality(T) = Cardinality(Sent(l, q, x))
      BY <1>2
    <2> HIDE DEF S, T
    <2>5. Cardinality(S \cup T) = Cardinality(S) + Cardinality(T)
      BY <2>3, DisjointUnion
    <2> QED BY <2>1, <2>4, <2>5 DEF S, T
  <1> QED BY <1>4, <1>5

-----------------------------------------------------------------------------
(* What launch l has for rank r.                                            *)

Tokens(l, r) == [e \in LocalExperts |-> Received(l, r, e)]
Ins(l, r) == Instance(Tokens(l, r))
Vec(l, r, e) == [q \in Ranks |-> Cardinality(Sent(l, q, Glob(r, e)))]
Toks(l, r) == 0 .. TotalTokens(Ins(l, r)) - 1
Task(l, r, i) == PullTask(Ins(l, r), i)
From(l, r, i) ==
  <<Task(l, r, i).expert, PullSource(Vec(l, r, Task(l, r, i).expert), Task(l, r, i).idx)>>
Row(l, r, i) == PlanRow(Ins(l, r), i)
Walk(l, r, s) == BlocksOf(Ins(l, r), s)
InBlock(l, r, i, b) == InPart(Ins(l, r), i, b.expert, b.m)
Own(l, r, e) == Part(Ins(l, r), e)

LEMMA ReceivedIs ==
  ASSUME NEW l \in Nths, NEW r \in Ranks, NEW e \in LocalExperts
  PROVE  /\ Received(l, r, e) = Cardinality(Tagged(Ranks, l, Glob(r, e)))
         /\ Received(l, r, e) \in 0 .. MaxReceived
  <1>1. UNION {{<<q, x>> : x \in RoutesTo(l, q, s, r * NumExperts + e)} : q \in Ranks, s \in SMs}
          = Tagged(Ranks, l, Glob(r, e))
    <2> DEFINE g == Glob(r, e)
               piece(q, s) == {<<q, x>> : x \in RoutesTo(l, q, s, g)}
    <2>1. \A q \in Ranks : {<<q, y>> : y \in Sent(l, q, g)} = UNION {piece(q, s) : s \in SMs}
      BY DEF Sent, Of
    <2> HIDE DEF g, piece
    <2>2. UNION {piece(q, s) : q \in Ranks, s \in SMs} = UNION {UNION {piece(q, s) : s \in SMs} : q \in Ranks}
      OBVIOUS
    <2>3. UNION {piece(q, s) : q \in Ranks, s \in SMs} = Tagged(Ranks, l, g)
      BY <2>1, <2>2 DEF Tagged
    <2> QED BY <2>3 DEF piece, g, Glob
  <1>2. Received(l, r, e) = Cardinality(Tagged(Ranks, l, Glob(r, e)))
    BY <1>1 DEF Received
  <1>3. Cardinality(Tagged(Ranks, l, Glob(r, e))) \in Nat
    BY TaggedAdd
  <1>4. Received(l, r, e) <= MaxReceived /\ MaxReceived \in Nat
    BY InputsFit, Sizes1
  <1> QED BY <1>2, <1>3, <1>4

LEMMA TokensAre ==
  ASSUME NEW l \in Nths, NEW r \in Ranks
  PROVE  /\ Tokens(l, r) \in [LocalExperts -> 0 .. MaxReceived] /\ Tokens(l, r) \in Plans
         /\ \A e \in LocalExperts : Tokens(l, r)[e] = Received(l, r, e)
         /\ Tokens(l, r) # <<>> 
  <1>1. \A e \in LocalExperts : Received(l, r, e) \in 0 .. MaxReceived /\ Received(l, r, e) \in Nat
    BY ReceivedIs, Sizes1
  <1>2. 0 \in LocalExperts
    BY Sizes1 DEF LocalExperts
  <1>3. DOMAIN Tokens(l, r) = LocalExperts /\ DOMAIN <<>> = {}
    BY DEF Tokens
  <1> QED BY <1>1, <1>2, <1>3 DEF Tokens, Plans

LEMMA VecIs ==
  ASSUME NEW l \in Nths, NEW r \in Ranks, NEW e \in LocalExperts
  PROVE  /\ Vec(l, r, e) \in [Ranks -> 0 .. MaxReceived]
         /\ MapThenSumSet(LAMBDA q : Vec(l, r, e)[q], Ranks) = Received(l, r, e)
  <1> DEFINE x == Glob(r, e)
             v == Vec(l, r, e)
             m == NumRanks
  <1>1. \A q \in Ranks : v[q] = Cardinality(Sent(l, q, x)) /\ v[q] \in Nat
    BY OfAdd DEF Vec, Sent
  <1>2. m \in Nat /\ Ranks = 0 .. m - 1
    BY Sizes1 DEF Ranks
  <1>3. v \in [0 .. m - 1 -> Nat]
    BY <1>1, <1>2 DEF Vec
  <1> DEFINE Good == {k \in 0 .. m : Weigh(v, 0 .. k - 1) = Cardinality(Tagged(0 .. k - 1, l, x))}
  <1>4. /\ Weigh(v, 0 .. 0 - 1) = 0
        /\ \A k \in 0 .. m - 1 : Weigh(v, 0 .. (k + 1) - 1) = Weigh(v, 0 .. k - 1) + v[k]
    <2> HIDE DEF v, m
    <2> QED BY <1>2, <1>3, WeighUpto
  <1>5. 0 \in Good
    <2>1. Tagged(0 .. 0 - 1, l, x) = {}
      BY DEF Tagged
    <2>2. Cardinality(Tagged(0 .. 0 - 1, l, x)) = 0
      BY <2>1, FS_EmptySet
    <2> HIDE DEF v
    <2> QED BY <1>2, <1>4, <2>2
  <1>6. ASSUME NEW k \in 0 .. m - 1, k \in Good
        PROVE  k + 1 \in Good
    <2>1. 0 .. (k + 1) - 1 = (0 .. k - 1) \cup {k} /\ k \in Ranks \ (0 .. k - 1) /\ (0 .. k - 1) \in SUBSET Ranks
          /\ k + 1 \in 0 .. m
      BY <1>2
    <2>2. Cardinality(Tagged((0 .. k - 1) \cup {k}, l, x))
            = Cardinality(Tagged(0 .. k - 1, l, x)) + Cardinality(Sent(l, k, x))
      BY <2>1, TaggedAdd
    <2>3. Weigh(v, 0 .. (k + 1) - 1) = Weigh(v, 0 .. k - 1) + v[k]
      BY <1>4
    <2>4. Weigh(v, 0 .. k - 1) = Cardinality(Tagged(0 .. k - 1, l, x)) /\ v[k] = Cardinality(Sent(l, k, x))
      BY <1>1, <1>6, <2>1
    <2>5. Weigh(v, 0 .. (k + 1) - 1) = Cardinality(Tagged(0 .. (k + 1) - 1, l, x))
      BY <2>1, <2>2, <2>3, <2>4, Zenon
    <2> QED BY <2>1, <2>5
  <1>7. 0 .. m \subseteq Good
    <2> HIDE DEF Good, m
    <2> QED BY <1>2, <1>5, <1>6, InductionTo
  <1>8. Weigh(v, Ranks) = Cardinality(Tagged(Ranks, l, x))
    <2>1. m \in Good
      BY <1>2, <1>7
    <2> HIDE DEF v, m
    <2> QED BY <1>2, <2>1
  <1>9. MapThenSumSet(LAMBDA q : v[q], Ranks) = Weigh(v, Ranks)
    <2>1. IsFiniteSet(Ranks)
      BY Sizes1, FS_Interval DEF Ranks
    <2> HIDE DEF v
    <2> QED BY <1>1, <2>1, SumIs
  <1>10. ASSUME NEW q \in Ranks
         PROVE  v[q] \in 0 .. MaxReceived
    <2>1. (Ranks \ {q}) \in SUBSET Ranks /\ q \in Ranks \ (Ranks \ {q}) /\ (Ranks \ {q}) \cup {q} = Ranks
      OBVIOUS
    <2>2. /\ Cardinality(Tagged(Ranks \ {q}, l, x)) \in Nat
          /\ Cardinality(Tagged((Ranks \ {q}) \cup {q}, l, x))
               = Cardinality(Tagged(Ranks \ {q}, l, x)) + Cardinality(Sent(l, q, x))
      BY <2>1, TaggedAdd
    <2>3. Cardinality(Tagged(Ranks, l, x)) = Cardinality(Tagged(Ranks \ {q}, l, x)) + v[q]
      BY <1>1, <2>1, <2>2
    <2>4. Cardinality(Tagged(Ranks, l, x)) \in 0 .. MaxReceived
      BY ReceivedIs
    <2> HIDE DEF v
    <2> QED BY <1>1, <2>2, <2>3, <2>4, Sizes1
  <1>11. v \in [Ranks -> 0 .. MaxReceived]
    BY <1>10 DEF Vec
  <1> QED BY <1>8, <1>9, <1>11, ReceivedIs

LEMMA TableIs == \A f : Table(f) = f
  BY DEF Table

LEMMA PlanIs ==
  ASSUME NEW l \in Nths, NEW r \in Ranks, NEW p, p = Plan[Tokens(l, r)]
  PROVE  /\ \A s \in SMs : p.blocks[s] = Walk(l, r, s)
         /\ DOMAIN p.pulls = Toks(l, r)
         /\ \A i \in Toks(l, r) :
              p.pulls[i] = [expert |-> Task(l, r, i).expert, idx |-> Task(l, r, i).idx, row |-> Row(l, r, i)]
  <1> DEFINE n == Tokens(l, r)
             c == Instance(n)
             blocks(x) == [s \in SMs |-> BlocksOf(x, s)]
             pull(x, task) == [expert |-> task.expert, idx |-> task.idx, row |-> PoolRow(x, task)]
             pulls(x) == [i \in 0 .. TotalTokens(x) - 1 |-> pull(x, PullTask(x, i))]
             rec(y) == [blocks |-> Table(blocks(Instance(y))), pulls |-> Table(pulls(Instance(y)))]
             P == [y \in [LocalExperts -> 0 .. MaxReceived] |-> rec(y)]
  <1>1. Plan = Table(P)
    BY DEF Plan
  <1>2. Table(P) = P
    BY TableIs
  <1>3. p = rec(n)
    <2>1. n \in [LocalExperts -> 0 .. MaxReceived]
      BY TokensAre
    <2> HIDE DEF rec, n
    <2>2. P[n] = rec(n)
      BY <2>1
    <2> QED BY <1>1, <1>2, <2>2 DEF n
  <1>4. Table(blocks(c)) = blocks(c) /\ Table(pulls(c)) = pulls(c)
    BY TableIs
  <1>6. p.blocks = blocks(c) /\ p.pulls = pulls(c)
    BY <1>3, <1>4
  <1> QED BY <1>6 DEF Ins, Walk, Toks, Task, Row, PlanRow

LEMMA SourcesIs ==
  ASSUME NEW l \in Nths, NEW r \in Ranks, NEW e \in LocalExperts, NEW k \in 0 .. Received(l, r, e) - 1
  PROVE  Sources[Vec(l, r, e)][k] = PullSource(Vec(l, r, e), k)
  <1> DEFINE total(y) == MapThenSumSet(LAMBDA q : y[q], Ranks)
             inner(y) == [slot \in 0 .. total(y) - 1 |-> PullSource(y, slot)]
             P == [y \in [Ranks -> 0 .. MaxReceived] |-> Table(inner(y))]
             v == Vec(l, r, e)
  <1>1. Sources = Table(P)
    BY DEF Sources
  <1>2. Table(P) = P
    BY TableIs
  <1>3. v \in [Ranks -> 0 .. MaxReceived] /\ total(v) = Received(l, r, e)
    BY VecIs
  <1>4. P[v] = Table(inner(v))
    <2> HIDE DEF inner, v
    <2> QED BY <1>3
  <1>5. Table(inner(v)) = inner(v)
    BY TableIs
  <1>6. inner(v)[k] = PullSource(v, k)
    <2>1. k \in 0 .. total(v) - 1
      BY <1>3
    <2> HIDE DEF total, v
    <2> QED BY <2>1
  <1> HIDE DEF inner, total
  <1> QED BY <1>1, <1>2, <1>4, <1>5, <1>6, Zenon

(* The tokens of a rank come from its routes, all of them.                  *)
LEMMA FromIs ==
  ASSUME SchedulesFit, NEW l \in Nths, NEW r \in Ranks
  PROVE  /\ \A i \in Toks(l, r) :
              /\ Task(l, r, i).expert \in LocalExperts
              /\ Task(l, r, i).idx \in 0 .. Received(l, r, Task(l, r, i).expert) - 1
              /\ \E q \in Ranks : \E k \in 0 .. Cardinality(Sent(l, q, Glob(r, Task(l, r, i).expert))) - 1 :
                   From(l, r, i) = <<Task(l, r, i).expert, [rank |-> q, slot |-> k]>>
         /\ \A e \in LocalExperts, q \in Ranks : \A k \in 0 .. Cardinality(Sent(l, q, Glob(r, e))) - 1 :
              \E i \in Toks(l, r) :
                Task(l, r, i).expert = e /\ From(l, r, i) = <<e, [rank |-> q, slot |-> k]>>
  <1> DEFINE n == Tokens(l, r)
             c == Ins(l, r)
  <1>1. n \in Plans /\ c = Instance(n) /\ \A e \in LocalExperts : n[e] = Received(l, r, e)
    BY TokensAre DEF Ins
  <1>2. ASSUME NEW e \in LocalExperts
        PROVE  {PullSource(Vec(l, r, e), i) : i \in 0 .. Received(l, r, e) - 1}
                 = UNION {{[rank |-> q, slot |-> k] : k \in 0 .. Vec(l, r, e)[q] - 1} : q \in Ranks}
    <2> DEFINE v == Vec(l, r, e)
    <2>1. v \in [Ranks -> 0 .. MaxReceived] /\ MapThenSumSet(LAMBDA q : v[q], Ranks) = Received(l, r, e)
      BY VecIs
    <2>2. DOMAIN v = Ranks
      BY <2>1
    <2> HIDE DEF v
    <2>3. SourcesDistinct(v)
      BY <2>1 DEF SchedulesFit
    <2>4. {PullSource(v, i) : i \in 0 .. MapThenSumSet(LAMBDA q : v[q], DOMAIN v) - 1}
           = UNION {{[rank |-> q, slot |-> k] : k \in 0 .. v[q] - 1} : q \in DOMAIN v}
      BY <2>3 DEF SourcesDistinct
    <2> QED BY <2>1, <2>2, <2>4 DEF v
  <1>3. \A e \in LocalExperts, q \in Ranks : Vec(l, r, e)[q] = Cardinality(Sent(l, q, Glob(r, e)))
    BY DEF Vec
  <1>4. ASSUME NEW i \in Toks(l, r)
        PROVE  /\ Task(l, r, i).expert \in LocalExperts
               /\ Task(l, r, i).idx \in 0 .. Received(l, r, Task(l, r, i).expert) - 1
               /\ \E q \in Ranks : \E k \in 0 .. Cardinality(Sent(l, q, Glob(r, Task(l, r, i).expert))) - 1 :
                    From(l, r, i) = <<Task(l, r, i).expert, [rank |-> q, slot |-> k]>>
    <2> DEFINE e == Task(l, r, i).expert
               d == Task(l, r, i).idx
    <2>1. e \in LocalExperts /\ d \in 0 .. n[e] - 1
      BY <1>1, TaskIs DEF Toks, Task
    <2>2. d \in 0 .. Received(l, r, e) - 1 /\ From(l, r, i) = <<e, PullSource(Vec(l, r, e), d)>>
      BY <1>1, <2>1 DEF From
    <2> HIDE DEF e, d
    <2>3. PullSource(Vec(l, r, e), d) \in UNION {{[rank |-> q, slot |-> k] : k \in 0 .. Vec(l, r, e)[q] - 1} : q \in Ranks}
      BY <1>2, <2>1, <2>2
    <2>4. \E q \in Ranks : \E k \in 0 .. Vec(l, r, e)[q] - 1 : PullSource(Vec(l, r, e), d) = [rank |-> q, slot |-> k]
      BY <2>3
    <2>5. \E q \in Ranks : \E k \in 0 .. Cardinality(Sent(l, q, Glob(r, e))) - 1 : PullSource(Vec(l, r, e), d) = [rank |-> q, slot |-> k]
      BY <1>3, <2>1, <2>4
    <2> QED BY <2>1, <2>2, <2>5 DEF e, d
  <1>5. ASSUME NEW e \in LocalExperts, NEW q \in Ranks,
               NEW k \in 0 .. Cardinality(Sent(l, q, Glob(r, e))) - 1
        PROVE  \E i \in Toks(l, r) :
                 Task(l, r, i).expert = e /\ From(l, r, i) = <<e, [rank |-> q, slot |-> k]>>
    <2>1. [rank |-> q, slot |-> k] \in UNION {{[rank |-> y, slot |-> z] : z \in 0 .. Vec(l, r, e)[y] - 1} : y \in Ranks}
      BY <1>3
    <2>2. PICK d \in 0 .. Received(l, r, e) - 1 : PullSource(Vec(l, r, e), d) = [rank |-> q, slot |-> k]
      BY <1>2, <2>1
    <2>3. d \in 0 .. n[e] - 1
      BY <1>1
    <2>4. PICK i \in 0 .. TotalTokens(c) - 1 : PullTask(c, i) = [expert |-> e, idx |-> d]
      BY <1>1, <2>3, TaskIs
    <2>5. i \in Toks(l, r) /\ Task(l, r, i).expert = e /\ Task(l, r, i).idx = d
      BY <2>4 DEF Toks, Task
    <2> QED BY <2>2, <2>5 DEF From
  <1> QED BY <1>4, <1>5

(* The walks of the SMs reach all blocks and no others.                     *)
IsBlock(l, r, b) ==
  /\ b.phase \in {1, 2} /\ b.expert \in LocalExperts /\ b.m \in 0 .. NumMBlocks(Ins(l, r), b.expert) - 1
  /\ b.phase = 1 => b.n \in 0 .. L1BlockNs - 1
  /\ b.phase = 2 => b.n \in 0 .. L2BlockNs - 1

LEMMA WalkIs ==
  ASSUME SchedulesFit, NEW l \in Nths, NEW r \in Ranks
  PROVE  /\ \A s \in SMs : Len(Walk(l, r, s)) \in Nat
         /\ \A s \in SMs : \A j \in 1 .. Len(Walk(l, r, s)) : IsBlock(l, r, Walk(l, r, s)[j])
         /\ \A e \in LocalExperts, n \in 0 .. L2BlockNs - 1 : \A m \in 0 .. NumMBlocks(Ins(l, r), e) - 1 :
              \E s \in SMs : \E j \in 1 .. Len(Walk(l, r, s)) :
                LET b == Walk(l, r, s)[j] IN b.phase = 2 /\ b.expert = e /\ b.m = m /\ b.n = n
  <1> DEFINE n == Tokens(l, r)
             c == Ins(l, r)
             given == UNION {Numbered(s, BlocksOf(c, s)) : s \in SMs}
             wanted == Layer(c, 1, L1BlockNs) \cup Layer(c, 2, L2BlockNs)
  <1>1. n \in [LocalExperts -> 0 .. MaxReceived] /\ c = Instance(n)
    BY TokensAre DEF Ins
  <1>2. PartitionsBlocks(c) /\ \A s \in SMs : Walk(l, r, s) \in Seq([phase : {1, 2}, expert : Nat, m : Nat, n : Nat])
    BY <1>1 DEF SchedulesFit, Walk
  <1>3. c.l1n = L1BlockNs /\ c.l2n = L2BlockNs /\ 0 .. c.sms - 1 = SMs /\ Experts(c) = LocalExperts
    BY <1>1, InstanceIs DEF SMs
  <1>4. {g[3] : g \in given} = wanted
    BY <1>2, <1>3 DEF PartitionsBlocks, Divides
  <1>5. \A s \in SMs : Len(Walk(l, r, s)) \in Nat /\ DOMAIN BlocksOf(c, s) = 1 .. Len(Walk(l, r, s))
    <2> TAKE s \in SMs
    <2> DEFINE w == Walk(l, r, s)
    <2>1. w \in Seq([phase : {1, 2}, expert : Nat, m : Nat, n : Nat])
      BY <1>2
    <2> HIDE DEF w
    <2>2. Len(w) \in Nat /\ DOMAIN w = 1 .. Len(w)
      BY <2>1
    <2> QED BY <2>2 DEF w, Walk
  <1>6. \A b : b \in wanted <=>
          \/ \E e \in LocalExperts : \E m \in 0 .. NumMBlocks(c, e) - 1, k \in 0 .. L1BlockNs - 1 :
               b = [phase |-> 1, expert |-> e, m |-> m, n |-> k]
          \/ \E e \in LocalExperts : \E m \in 0 .. NumMBlocks(c, e) - 1, k \in 0 .. L2BlockNs - 1 :
               b = [phase |-> 2, expert |-> e, m |-> m, n |-> k]
    BY <1>3 DEF Layer
  <1>7. \A b : b \in {g[3] : g \in given} <=> \E s \in SMs : \E j \in DOMAIN BlocksOf(c, s) : b = BlocksOf(c, s)[j]
    <2>1. \A g : g \in given <=> \E s \in SMs : \E j \in DOMAIN BlocksOf(c, s) : g = <<s, j, BlocksOf(c, s)[j]>>
      BY DEF Numbered
    <2> HIDE DEF given
    <2>2. ASSUME NEW b, b \in {g[3] : g \in given}
          PROVE  \E s \in SMs : \E j \in DOMAIN BlocksOf(c, s) : b = BlocksOf(c, s)[j]
      <3>1. PICK g \in given : b = g[3]
        BY <2>2
      <3> QED BY <2>1, <3>1
    <2>3. ASSUME NEW s \in SMs, NEW j \in DOMAIN BlocksOf(c, s)
          PROVE  BlocksOf(c, s)[j] \in {g[3] : g \in given}
      <3> DEFINE g == <<s, j, BlocksOf(c, s)[j]>>
      <3>1. g \in given /\ g[3] = BlocksOf(c, s)[j]
        BY <2>1
      <3> HIDE DEF g
      <3> QED BY <3>1
    <2> QED BY <2>2, <2>3
  <1>8. ASSUME NEW s \in SMs, NEW j \in 1 .. Len(Walk(l, r, s))
        PROVE  IsBlock(l, r, Walk(l, r, s)[j])
    <2> DEFINE b == Walk(l, r, s)[j]
    <2>1. b \in {g[3] : g \in given}
      BY <1>5, <1>7 DEF Walk
    <2>2. b \in wanted
      BY <1>4, <2>1, Zenon
    <2> HIDE DEF b, wanted, given
    <2>3. \E e \in LocalExperts : \E m \in 0 .. NumMBlocks(c, e) - 1 : \E ph \in {1, 2} :
            \E k \in 0 .. (IF ph = 1 THEN L1BlockNs ELSE L2BlockNs) - 1 :
              b = [phase |-> ph, expert |-> e, m |-> m, n |-> k]
      BY <1>6, <2>2
    <2> QED BY <2>3 DEF IsBlock, b
  <1>9. ASSUME NEW e \in LocalExperts, NEW k \in 0 .. L2BlockNs - 1, NEW m \in 0 .. NumMBlocks(c, e) - 1
        PROVE  \E s \in SMs : \E j \in 1 .. Len(Walk(l, r, s)) :
                 LET b == Walk(l, r, s)[j] IN b.phase = 2 /\ b.expert = e /\ b.m = m /\ b.n = k
    <2> DEFINE x == [phase |-> 2, expert |-> e, m |-> m, n |-> k]
    <2>1. x \in wanted
      BY <1>6
    <2>2. x \in {g[3] : g \in given}
      BY <1>4, <2>1, Zenon
    <2>3. x.phase = 2 /\ x.expert = e /\ x.m = m /\ x.n = k
      OBVIOUS
    <2> HIDE DEF x, wanted, given
    <2>4. PICK s \in SMs : \E j \in DOMAIN BlocksOf(c, s) : x = BlocksOf(c, s)[j]
      BY <1>7, <2>2
    <2>5. \E j \in 1 .. Len(Walk(l, r, s)) : Walk(l, r, s)[j] = x
      BY <1>5, <2>4 DEF Walk
    <2> QED BY <2>3, <2>5
  <1> QED BY <1>5, <1>8, <1>9

Reached(l, r, e, m, n, s, j) ==
  /\ j \in 1 .. Len(Walk(l, r, s))
  /\ LET b == Walk(l, r, s)[j] IN b.phase = 2 /\ b.expert = e /\ b.m = m /\ b.n = n
LEMMA AllReached ==
  ASSUME SchedulesFit, NEW l \in Nths, NEW r \in Ranks,
         NEW e \in LocalExperts, NEW n \in 0 .. L2BlockNs - 1, NEW m \in 0 .. NumMBlocks(Ins(l, r), e) - 1
  PROVE  \E s \in SMs : \E j : Reached(l, r, e, m, n, s, j)
  BY WalkIs DEF Reached

-----------------------------------------------------------------------------
(* The agents.                                                              *)

D(r, s) == <<"dispatch", r, s>>
E(r, s) == <<"epilogue", r, s>>
G(r, s) == <<"gemm", r, Leader(s)>>

LEMMA AgentsAre ==
  /\ \A r \in Ranks, s \in SMs : D(r, s) \in Agents /\ E(r, s) \in Agents /\ G(r, s) \in Agents
  /\ \A r, s, q, t : D(r, s) # E(q, t) /\ D(r, s) # G(q, t) /\ E(r, s) # G(q, t)
  /\ \A r, s, q, t : D(r, s) = D(q, t) => r = q /\ s = t
  /\ \A r, s, q, t : E(r, s) = E(q, t) => r = q /\ s = t
  /\ \A a \in Agents : \E r \in Ranks, s \in SMs : a \in {D(r, s), E(r, s), G(r, s)}
  /\ \A r, s : /\ D(r, s)[1] = "dispatch" /\ D(r, s)[2] = r /\ D(r, s)[3] = s
               /\ E(r, s)[1] = "epilogue" /\ E(r, s)[2] = r /\ E(r, s)[3] = s
               /\ G(r, s)[1] = "gemm" /\ G(r, s)[2] = r
  BY DEF D, E, G, Agents

LEMMA TurnsAre ==
  ASSUME NEW l \in Nths, NEW r \in Ranks, NEW s \in SMs, NEW p, p = Plan[Tokens(l, r)]
  PROVE  /\ Turns(D(r, s), p) \in Nat
         /\ \A j \in Nat : j < Turns(D(r, s), p) <=> s + NumSMs * j \in Toks(l, r)
         /\ Turns(E(r, s), p) = Len(Walk(l, r, s))
         /\ Turns(G(r, s), p) = 1
  <1>1. p.blocks[s] = Walk(l, r, s) /\ DOMAIN p.pulls = Toks(l, r)
    BY PlanIs
  <1>2. Turns(E(r, s), p) = Len(Walk(l, r, s)) /\ Turns(G(r, s), p) = 1
    BY <1>1 DEF Turns, E, G
  <1> DEFINE N == TotalTokens(Ins(l, r))
             C == {i \in 0 .. N - 1 : i % NumSMs = s}
  <1>3. Turns(D(r, s), p) = Cardinality(C)
    BY <1>1 DEF Turns, Toks, D
  <1>4. N \in Nat /\ NumSMs \in Nat \ {0} /\ s \in 0 .. NumSMs - 1
    <2>1. Tokens(l, r) \in Plans
      BY TokensAre
    <2> QED BY <2>1, TaskIs, Sizes1 DEF SMs, Ins
  <1> HIDE DEF N
  <1>5. Cardinality(C) \in Nat /\ \A j \in Nat : j < Cardinality(C) <=> s + NumSMs * j < N
    <2> HIDE DEF C
    <2> QED BY <1>4, Stride DEF C
  <1>6. \A j \in Nat : s + NumSMs * j < N <=> s + NumSMs * j \in 0 .. N - 1
    <2> TAKE j \in Nat
    <2>1. NumSMs * j \in Nat
      BY <1>4
    <2> DEFINE y == NumSMs * j
    <2> HIDE DEF y
    <2>2. s + y < N <=> s + y \in 0 .. N - 1
      BY <1>4, <2>1 DEF y
    <2> QED BY <2>2 DEF y
  <1> HIDE DEF C
  <1>7. \A j \in Nat : j < Cardinality(C) <=> s + NumSMs * j \in Toks(l, r)
    BY <1>5, <1>6 DEF Toks, N
  <1> QED BY <1>2, <1>3, <1>5, <1>7

-----------------------------------------------------------------------------
(* Where the agents are: the step of an SM's dispatch and epilogue warps,   *)
(* numbered as on SM 0, which alone has the steps of the NVLink rounds.     *)

DNames == <<"claim", "index", "grid", "report", "enter", "leave", "grid", "meet", "fetch", "pull",
            "meet", "clean", "grid", "enter", "leave">>
ENames == <<"meet", "fetch", "compute", "grid", "enter", "leave", "grid", "meet", "reduce">>
DStage(s, p) == IF s = 0 \/ p <= 3 THEN p ELSE IF p <= 10 THEN p + 3 ELSE 16
EStage(s, p) == IF s = 0 \/ p <= 4 THEN p ELSE p + 2
DS(r, s) == DStage(s, pc[D(r, s)])
ES(r, s) == EStage(s, pc[E(r, s)])

StageInv ==
  \A r \in Ranks, s \in SMs :
    /\ DS(r, s) \in 1 .. 16 /\ ES(r, s) \in 1 .. 10
    /\ s # 0 => DS(r, s) \notin {4, 5, 6, 14, 15} /\ ES(r, s) \notin {5, 6}
    /\ DS(r, s) <= 8 <=> ES(r, s) = 1
    /\ DS(r, s) <= 11 <=> ES(r, s) <= 8
    /\ \A t \in SMs :
         /\ DS(r, s) <= 3 <=> DS(r, t) <= 3
         /\ DS(r, s) <= 7 <=> DS(r, t) <= 7
         /\ DS(r, s) <= 13 <=> DS(r, t) <= 13
         /\ ES(r, s) <= 4 <=> ES(r, t) <= 4
         /\ ES(r, s) <= 7 <=> ES(r, t) <= 7
PcInv == pc \in [Agents -> Nat \ {0}] /\ StageInv

LEMMA DispatchIs ==
  /\ Dispatch(0) = DNames
  /\ \A s : s # 0 => Dispatch(s) = <<"claim", "index", "grid", "grid", "meet", "fetch", "pull", "meet",
                                     "clean", "grid">>
  /\ Epilogue(0) = ENames
  /\ \A s : s # 0 => Epilogue(s) = <<"meet", "fetch", "compute", "grid", "grid", "meet", "reduce">>
  BY DEF Dispatch, Epilogue, DNames, ENames

LEMMA ProgramIs ==
  \A r \in Ranks, s \in SMs :
    Program[D(r, s)] = Dispatch(s) /\ Program[E(r, s)] = Epilogue(s) /\ Program[G(r, s)] = Gemm
  <1> DEFINE P == [a \in Agents |-> CASE a[1] = "dispatch" -> Dispatch(a[3])
                                      [] a[1] = "gemm" -> Gemm
                                      [] a[1] = "epilogue" -> Epilogue(a[3])]
  <1>1. Program = P
    BY TableIs DEF Program
  <1>2. \A r \in Ranks, s \in SMs : D(r, s) \in Agents /\ E(r, s) \in Agents /\ G(r, s) \in Agents
    BY AgentsAre
  <1>3. \A r \in Ranks, s \in SMs : P[D(r, s)] = Dispatch(s) /\ P[E(r, s)] = Epilogue(s) /\ P[G(r, s)] = Gemm
    BY <1>2 DEF D, E, G
  <1> QED BY <1>1, <1>3

LEMMA AtD ==
  ASSUME PcInv, NEW r \in Ranks, NEW s \in SMs
  PROVE  /\ Done(D(r, s)) <=> DS(r, s) = 16
         /\ \A x : At(D(r, s), x) <=> DS(r, s) # 16 /\ DNames[DS(r, s)] = x
  <1> DEFINE p == pc[D(r, s)]
  <1>1. p \in Nat /\ DStage(s, p) \in 1 .. 16 /\ DS(r, s) = DStage(s, p) /\ (s # 0 => DStage(s, p) \notin {4, 5, 6, 14, 15})
    BY AgentsAre DEF PcInv, StageInv, DS
  <1>2. Program[D(r, s)] = Dispatch(s)
    BY ProgramIs
  <1>3. CASE s = 0
    <2>1. Program[D(r, s)] = DNames /\ Len(DNames) = 15 /\ DStage(s, p) = p
      BY <1>2, <1>3, DispatchIs DEF DNames, DStage
    <2>2. Done(D(r, s)) <=> p > 15
      BY <2>1 DEF Done
    <2> HIDE DEF p
    <2>3. p > 15 <=> DStage(s, p) = 16
      BY <1>1, <2>1
    <2>4. \A x : At(D(r, s), x) <=> ~ (p > 15) /\ DNames[p] = x
      BY <2>1, <2>2 DEF At, p
    <2> QED BY <1>1, <2>1, <2>2, <2>3, <2>4
  <1>4. CASE s # 0
    <2> DEFINE w == <<"claim", "index", "grid", "grid", "meet", "fetch", "pull", "meet", "clean", "grid">>
    <2>1. Program[D(r, s)] = w /\ Len(w) = 10
      BY <1>2, <1>4, DispatchIs
    <2>2. Done(D(r, s)) <=> p > 10
      BY <2>1 DEF Done
    <2>3. \A x : At(D(r, s), x) <=> ~ (p > 10) /\ w[p] = x
      <3> HIDE DEF w
      <3> QED BY <2>1, <2>2 DEF At
    <2> HIDE DEF p
    <2>4. p > 10 <=> DStage(s, p) = 16
      BY <1>1, <1>4 DEF DStage
    <2>5. p <= 10 => p \in 1 .. 10
      BY <1>1, <1>4 DEF DStage
    <2>6. p \in 1 .. 3 => DStage(s, p) = p
      BY <1>4 DEF DStage
    <2>7. p \in 4 .. 10 => DStage(s, p) = p + 3
      BY <1>4 DEF DStage
    <2>8. p \in 1 .. 10 => w[p] = DNames[DStage(s, p)]
      BY <2>6, <2>7 DEF DNames
    <2> HIDE DEF w
    <2> QED BY <1>1, <2>2, <2>3, <2>4, <2>5, <2>8
  <1> QED BY <1>3, <1>4

LEMMA AtE ==
  ASSUME PcInv, NEW r \in Ranks, NEW s \in SMs
  PROVE  /\ Done(E(r, s)) <=> ES(r, s) = 10
         /\ \A x : At(E(r, s), x) <=> ES(r, s) # 10 /\ ENames[ES(r, s)] = x
  <1> DEFINE p == pc[E(r, s)]
  <1>1. p \in Nat /\ EStage(s, p) \in 1 .. 10 /\ ES(r, s) = EStage(s, p) /\ (s # 0 => EStage(s, p) \notin {5, 6})
    BY AgentsAre DEF PcInv, StageInv, ES
  <1>2. Program[E(r, s)] = Epilogue(s)
    BY ProgramIs
  <1>3. CASE s = 0
    <2>1. Program[E(r, s)] = ENames /\ Len(ENames) = 9 /\ EStage(s, p) = p
      BY <1>2, <1>3, DispatchIs DEF ENames, EStage
    <2>2. Done(E(r, s)) <=> p > 9
      BY <2>1 DEF Done
    <2> HIDE DEF p
    <2>3. p > 9 <=> EStage(s, p) = 10
      BY <1>1, <2>1
    <2>4. \A x : At(E(r, s), x) <=> ~ (p > 9) /\ ENames[p] = x
      BY <2>1, <2>2 DEF At, p
    <2> QED BY <1>1, <2>1, <2>2, <2>3, <2>4
  <1>4. CASE s # 0
    <2> DEFINE w == <<"meet", "fetch", "compute", "grid", "grid", "meet", "reduce">>
    <2>1. Program[E(r, s)] = w /\ Len(w) = 7
      BY <1>2, <1>4, DispatchIs
    <2>2. Done(E(r, s)) <=> p > 7
      BY <2>1 DEF Done
    <2>3. \A x : At(E(r, s), x) <=> ~ (p > 7) /\ w[p] = x
      <3> HIDE DEF w
      <3> QED BY <2>1, <2>2 DEF At
    <2> HIDE DEF p
    <2>4. p > 7 <=> EStage(s, p) = 10
      BY <1>1, <1>4 DEF EStage
    <2>5. p <= 7 => p \in 1 .. 7
      BY <1>1, <1>4 DEF EStage
    <2>6. p \in 1 .. 4 => EStage(s, p) = p
      BY <1>4 DEF EStage
    <2>7. p \in 5 .. 7 => EStage(s, p) = p + 2
      BY <1>4 DEF EStage
    <2>8. p \in 1 .. 7 => w[p] = ENames[EStage(s, p)]
      BY <2>6, <2>7 DEF ENames
    <2> HIDE DEF w
    <2> QED BY <1>1, <2>2, <2>3, <2>4, <2>5, <2>8
  <1> QED BY <1>3, <1>4

LEMMA AtG ==
  ASSUME PcInv, NEW r \in Ranks, NEW s \in SMs, NEW x, At(G(r, s), x)
  PROVE  x = "fetch"
  <1>1. Program[G(r, s)] = <<"fetch">>
    BY ProgramIs DEF Gemm
  <1>2. ~ (pc[G(r, s)] > 1) /\ <<"fetch">>[pc[G(r, s)]] = x
    BY <1>1 DEF At, Done
  <1>3. pc[G(r, s)] \in Nat \ {0}
    BY AgentsAre DEF PcInv
  <1>4. pc[G(r, s)] = 1
    BY <1>2, <1>3
  <1> QED BY <1>2, <1>4

-----------------------------------------------------------------------------
(* The rounds of signals.                                                   *)

One(b) == IF b THEN 1 ELSE 0
Begun(r) == One(DS(r, 0) > 5) + One(ES(r, 0) > 5) + One(DS(r, 0) > 14)
Ended(r) == One(DS(r, 0) > 6) + One(ES(r, 0) > 6) + One(DS(r, 0) > 15)
LaunchInv == launch \in [Ranks -> Nths]
RoundInv ==
  /\ entered = [r \in Ranks |-> 3 * (launch[r] - 1) + Begun(r)]
  /\ left = [r \in Ranks |-> 3 * (launch[r] - 1) + Ended(r)]
  /\ \A q, r \in Ranks : left[r] <= entered[q]

(* How far the loops are.                                                   *)
TodoInv ==
  /\ todo \in [Agents -> Nat]
  /\ \A r \in Ranks, s \in SMs :
       /\ DS(r, s) \notin {4, 10, 12} => todo[D(r, s)] = 0
       /\ ES(r, s) # 3 => todo[E(r, s)] = 0
       /\ DS(r, s) = 4 => todo[D(r, s)] < NumRanks * NumExperts
       /\ DS(r, s) = 10 => s + NumSMs * todo[D(r, s)] \in Toks(launch[r], r)
       /\ ES(r, s) = 3 => todo[E(r, s)] < Len(Walk(launch[r], r, s))
CountsInv ==
  /\ counts = [a \in Agents |-> counts[a]]
  /\ \A r \in Ranks, s \in SMs :
       /\ DS(r, s) >= 10 => counts[D(r, s)] = Tokens(launch[r], r)
       /\ ES(r, s) >= 3 => counts[E(r, s)] = Tokens(launch[r], r)

-----------------------------------------------------------------------------
(* What a rank sends.                                                       *)

Claimed(r) == {s \in SMs : DS(r, s) >= 2}
Sending(r) == DS(r, 0) <= 12
Counted(r, e) == Of(Claimed(r), launch[r], r, e)
Upto(r, s, e) == slots[r][s][e] + Cardinality(RoutesTo(launch[r], r, s, e))
Interval(r, s, e) == slots[r][s][e] .. Upto(r, s, e) - 1

SendInv(r) ==
  /\ send[r] = [e \in GlobalExperts |-> send[r][e]]
  /\ \A e \in GlobalExperts :
       send[r][e] = IF Sending(r) THEN [sms |-> Cardinality(Claimed(r)), n |-> Cardinality(Counted(r, e))]
                    ELSE [sms |-> 0, n |-> 0]
SlotInv(r) ==
  /\ slots[r] = [s \in SMs |-> slots[r][s]]
  /\ \A s \in Claimed(r), e \in GlobalExperts :
       /\ slots[r][s][e] \in Nat
       /\ Upto(r, s, e) <= Cardinality(Counted(r, e))
       /\ \A t \in Claimed(r) : t # s => Interval(r, s, e) \cap Interval(r, t, e) = {}
  /\ \A e \in GlobalExperts : \A k \in 0 .. Cardinality(Counted(r, e)) - 1 :
       \E s \in Claimed(r) : k \in Interval(r, s, e)

(* What is in the index of the owners for it.                               *)
Indexed(r) == {s \in SMs : DS(r, s) >= 3}
Key(r, e, k) == <<Local(e), [rank |-> r, slot |-> k]>>
Found(r, e, k, x) ==
  /\ Key(r, e, k) \in DOMAIN index[Owner(e)]
  /\ index[Owner(e)][Key(r, e, k)] = <<launch[r], r, x[1], x[2]>>
IndexInv(r) ==
  \A s \in Indexed(r), e \in GlobalExperts :
    /\ \A k \in Interval(r, s, e) : \E x \in RoutesTo(launch[r], r, s, e) : Found(r, e, k, x)
    /\ \A x \in RoutesTo(launch[r], r, s, e) : \E k \in Interval(r, s, e) : Found(r, e, k, x)

-----------------------------------------------------------------------------
(* What a rank has heard of the others.                                     *)

Told(r) == {x \in GlobalExperts : DS(r, 0) > 4 \/ (DS(r, 0) = 4 /\ x < todo[D(r, 0)])}
Cleaner(e) == 1 + (e % (NumSMs - 1))
Cleared(r) ==
  {e \in LocalExperts :
     \/ DS(r, Cleaner(e)) > 12
     \/ DS(r, Cleaner(e)) = 12 /\ e \div (NumSMs - 1) < todo[D(r, Cleaner(e))]}
Epoch(r, e) == IF e \in Cleared(r) THEN launch[r] + 1 ELSE launch[r]
Heard(r, e) == {q \in Ranks : Glob(r, e) \in Told(q) /\ launch[q] = Epoch(r, e)}

HeardInv(r) ==
  /\ sums[r] = [e \in LocalExperts |-> sums[r][e]]
  /\ recv[r] = [q \in Ranks |-> [e \in LocalExperts |-> recv[r][q][e]]]
  /\ \A e \in LocalExperts :
       /\ sums[r][e] = [sms |-> NumSMs * Cardinality(Heard(r, e)),
                        n |-> Cardinality(Tagged(Heard(r, e), Epoch(r, e), Glob(r, e)))]
       /\ \A q \in Ranks :
            recv[r][q][e] = IF q \in Heard(r, e) THEN Cardinality(Sent(Epoch(r, e), q, Glob(r, e))) ELSE 0

-----------------------------------------------------------------------------
(* What a rank has pulled and computed.                                     *)

Working(r) == DS(r, 0) >= 7 /\ \A p \in Ranks : launch[p] = launch[r]
NoClean(r) == \A s \in SMs : DS(r, s) <= 11
Pulled(r) ==
  {i \in Toks(launch[r], r) :
     \/ DS(r, i % NumSMs) > 10
     \/ DS(r, i % NumSMs) = 10 /\ i \div NumSMs < todo[D(r, i % NumSMs)]}
Whole(r, b) == \A i \in Toks(launch[r], r) : InBlock(launch[r], r, i, b) => i \in Pulled(r)
Worked(r) ==
  {w \in SMs \X (Nat \ {0}) :
     /\ w[2] <= Len(Walk(launch[r], r, w[1]))
     /\ ES(r, w[1]) > 3 \/ (ES(r, w[1]) = 3 /\ w[2] <= todo[E(r, w[1])])}
Tile(r, w) == Walk(launch[r], r, w[1])[w[2]]

Arrivals(r, k) == {i \in Pulled(r) : Row(launch[r], r, i) \div BlockM = k}
PoolInv(r) ==
  Working(r) => \A i \in Pulled(r) :
    /\ Row(launch[r], r, i) \in DOMAIN pool[r]
    /\ pool[r][Row(launch[r], r, i)] = index[r][From(launch[r], r, i)]
ArrivedInv(r) == NoClean(r) => \A k \in Nat : Entry(arrived[r], k, 0) = Cardinality(Arrivals(r, k))
MaskInv(r) ==
  NoClean(r) => \A k \in Nat : \A n \in Entry(mask[r], k, {}) :
    /\ Entry(hidden[r], <<k, n>>, 0) = launch[r]
    /\ \A i \in Toks(launch[r], r) : Row(launch[r], r, i) \div BlockM = k => i \in Pulled(r)
DirtyInv(r) ==
  \A k \in Nat : Entry(arrived[r], k, 0) # 0 \/ Entry(mask[r], k, {}) # {} =>
    \E e \in LocalExperts \ Cleared(r) : k \in Own(launch[r], r, e)
WorkInv(r) == \A w \in Worked(r) : Whole(r, Tile(r, w))

Back(l, r, x, n) == Entry(combine[r], <<x[1], x[2], n>>, <<>>) = <<l, r, x[1], x[2]>>
Returned(r, v, n) == Back(launch[r], v[2], <<v[3], v[4]>>, n)
BackInv(r) ==
  Working(r) => \A w \in Worked(r) : Tile(r, w).phase = 2 =>
    \A i \in Toks(launch[r], r) : InBlock(launch[r], r, i, Tile(r, w)) =>
      Returned(r, index[r][From(launch[r], r, i)], Tile(r, w).n)
Reducing(r) == ES(r, 0) >= 7
ReduceInv(r) ==
  Reducing(r) => \A s \in SMs : \A x \in Routes(launch[r], r, s), n \in 0 .. L2BlockNs - 1 :
    x[3] >= 0 => Back(launch[r], r, x, n)

Shape ==
  /\ slots = [r \in Ranks |-> slots[r]]
  /\ send = [r \in Ranks |-> send[r]]
  /\ recv = [r \in Ranks |-> recv[r]]
  /\ sums = [r \in Ranks |-> sums[r]]
  /\ index = [r \in Ranks |-> index[r]]
  /\ pool = [r \in Ranks |-> pool[r]]
  /\ arrived = [r \in Ranks |-> arrived[r]]
  /\ mask = [r \in Ranks |-> mask[r]]
  /\ hidden = [r \in Ranks |-> hidden[r]]
  /\ combine = [r \in Ranks |-> combine[r]]

SendsInv(r) == SendInv(r) /\ SlotInv(r) /\ IndexInv(r)
WorksInv(r) == PoolInv(r) /\ ArrivedInv(r) /\ MaskInv(r) /\ DirtyInv(r) /\ WorkInv(r)
BacksInv(r) == BackInv(r) /\ ReduceInv(r)
DataInv(r) == SendsInv(r) /\ HeardInv(r) /\ WorksInv(r) /\ BacksInv(r)
Control == PcInv /\ LaunchInv /\ RoundInv /\ TodoInv
IInv == Control /\ CountsInv /\ Shape /\ \A r \in Ranks : DataInv(r)

-----------------------------------------------------------------------------
(* The steps of the programs, in stages.                                    *)

NextD(s, k) == IF s # 0 /\ k = 3 THEN 7 ELSE IF s # 0 /\ k = 13 THEN 16 ELSE k + 1
NextE(s, k) == IF s # 0 /\ k = 4 THEN 7 ELSE k + 1
OnlyD(r, s, k) ==
  \A q \in Ranks, t \in SMs : DS(q, t)' = (IF q = r /\ t = s THEN k ELSE DS(q, t)) /\ ES(q, t)' = ES(q, t)
OnlyE(r, s, k) ==
  \A q \in Ranks, t \in SMs : ES(q, t)' = (IF q = r /\ t = s THEN k ELSE ES(q, t)) /\ DS(q, t)' = DS(q, t)

LEMMA StageFacts ==
  ASSUME PcInv, NEW r \in Ranks, NEW s \in SMs
  PROVE  /\ DS(r, s) \in 1 .. 16 /\ ES(r, s) \in 1 .. 10
         /\ s # 0 => DS(r, s) \notin {4, 5, 6, 14, 15} /\ ES(r, s) \notin {5, 6}
         /\ DS(r, s) <= 8 <=> ES(r, s) = 1
         /\ DS(r, s) <= 11 <=> ES(r, s) <= 8
         /\ \A t \in SMs :
              /\ DS(r, t) \in 1 .. 16 /\ ES(r, t) \in 1 .. 10
              /\ DS(r, s) <= 3 <=> DS(r, t) <= 3
              /\ DS(r, s) <= 7 <=> DS(r, t) <= 7
              /\ DS(r, s) <= 13 <=> DS(r, t) <= 13
              /\ ES(r, s) <= 4 <=> ES(r, t) <= 4
              /\ ES(r, s) <= 7 <=> ES(r, t) <= 7
  BY DEF PcInv, StageInv

LEMMA ZeroSM == 0 \in SMs
  BY Sizes1 DEF SMs

LEMMA StepD ==
  ASSUME PcInv, NEW r \in Ranks, NEW s \in SMs, DS(r, s) # 16
  PROVE  /\ DStage(s, pc[D(r, s)] + 1) = NextD(s, DS(r, s))
         /\ DS(r, s) = 9 => DStage(s, pc[D(r, s)] + 2) = 11
  <1> DEFINE p == pc[D(r, s)]
  <1>1. p \in Nat \ {0} /\ DS(r, s) = DStage(s, p) /\ DStage(s, p) \in 1 .. 16
    BY AgentsAre, StageFacts DEF PcInv, DS
  <1>2. s # 0 => DStage(s, p) \notin {4, 5, 6, 14, 15} /\ DStage(s, p) # 16
    BY <1>1, StageFacts
  <1>3. DStage(s, p) # 16
    BY <1>1
  <1> HIDE DEF p
  <1>4. DStage(s, p + 1) = NextD(s, DStage(s, p)) /\ (DStage(s, p) = 9 => DStage(s, p + 2) = 11)
    BY <1>1, <1>2, <1>3 DEF DStage, NextD
  <1> QED BY <1>1, <1>4 DEF p

LEMMA StepE ==
  ASSUME PcInv, NEW r \in Ranks, NEW s \in SMs, ES(r, s) # 10
  PROVE  /\ EStage(s, pc[E(r, s)] + 1) = NextE(s, ES(r, s))
         /\ ES(r, s) = 2 => EStage(s, pc[E(r, s)] + 2) = 4
  <1> DEFINE p == pc[E(r, s)]
  <1>1. p \in Nat \ {0} /\ ES(r, s) = EStage(s, p) /\ EStage(s, p) \in 1 .. 10
    BY AgentsAre, StageFacts DEF PcInv, ES
  <1>2. s # 0 => EStage(s, p) \notin {5, 6}
    BY <1>1, StageFacts
  <1>3. EStage(s, p) # 10
    BY <1>1
  <1> HIDE DEF p
  <1>4. EStage(s, p + 1) = NextE(s, EStage(s, p)) /\ (EStage(s, p) = 2 => EStage(s, p + 2) = 4)
    BY <1>1, <1>2, <1>3 DEF EStage, NextE
  <1> QED BY <1>1, <1>4 DEF p

(* An agent alone moves.                                                    *)
LEMMA MoveD ==
  ASSUME PcInv, NEW r \in Ranks, NEW s \in SMs, NEW n \in Nat \ {0}, pc' = [pc EXCEPT ![D(r, s)] = n]
  PROVE  OnlyD(r, s, DStage(s, n)) /\ pc' \in [Agents -> Nat \ {0}]
  <1>1. pc \in [Agents -> Nat \ {0}]
    BY DEF PcInv
  <1>2. ASSUME NEW q \in Ranks, NEW t \in SMs
        PROVE  DS(q, t)' = (IF q = r /\ t = s THEN DStage(s, n) ELSE DS(q, t)) /\ ES(q, t)' = ES(q, t)
    <2>1. D(q, t) \in Agents /\ E(q, t) \in Agents /\ E(q, t) # D(r, s) /\ (D(q, t) = D(r, s) => q = r /\ t = s)
      BY AgentsAre
    <2>2. pc'[E(q, t)] = pc[E(q, t)] /\ pc'[D(q, t)] = (IF q = r /\ t = s THEN n ELSE pc[D(q, t)])
      BY <1>1, <2>1
    <2> QED BY <2>2 DEF DS, ES
  <1>3. pc' \in [Agents -> Nat \ {0}]
    BY <1>1
  <1> QED BY <1>2, <1>3 DEF OnlyD

LEMMA MoveE ==
  ASSUME PcInv, NEW r \in Ranks, NEW s \in SMs, NEW n \in Nat \ {0}, pc' = [pc EXCEPT ![E(r, s)] = n]
  PROVE  OnlyE(r, s, EStage(s, n)) /\ pc' \in [Agents -> Nat \ {0}]
  <1>1. pc \in [Agents -> Nat \ {0}]
    BY DEF PcInv
  <1>2. ASSUME NEW q \in Ranks, NEW t \in SMs
        PROVE  ES(q, t)' = (IF q = r /\ t = s THEN EStage(s, n) ELSE ES(q, t)) /\ DS(q, t)' = DS(q, t)
    <2>1. D(q, t) \in Agents /\ E(q, t) \in Agents /\ D(q, t) # E(r, s) /\ (E(q, t) = E(r, s) => q = r /\ t = s)
      BY AgentsAre
    <2>2. pc'[D(q, t)] = pc[D(q, t)] /\ pc'[E(q, t)] = (IF q = r /\ t = s THEN n ELSE pc[E(q, t)])
      BY <1>1, <2>1
    <2> QED BY <2>2 DEF DS, ES
  <1>3. pc' \in [Agents -> Nat \ {0}]
    BY <1>1
  <1> QED BY <1>2, <1>3 DEF OnlyE

LEMMA PcIs ==
  ASSUME PcInv, NEW r \in Ranks, NEW s \in SMs
  PROVE  pc[D(r, s)] \in Nat \ {0} /\ pc[E(r, s)] \in Nat \ {0}
  BY AgentsAre DEF PcInv

(* Within a phase of the barriers of its rank.                              *)
LEMMA KeepsD ==
  ASSUME PcInv, NEW r \in Ranks, NEW s \in SMs, NEW k \in 1 .. 16, OnlyD(r, s, k), pc' \in [Agents -> Nat \ {0}],
         DS(r, s) <= 3 <=> k <= 3, DS(r, s) <= 7 <=> k <= 7, DS(r, s) <= 8 <=> k <= 8,
         DS(r, s) <= 11 <=> k <= 11, DS(r, s) <= 13 <=> k <= 13, s # 0 => k \notin {4, 5, 6, 14, 15}
  PROVE  PcInv'
  <1>1. ASSUME NEW q \in Ranks, NEW t \in SMs
        PROVE  /\ DS(q, t)' \in 1 .. 16 /\ ES(q, t)' = ES(q, t)
               /\ t # 0 => DS(q, t)' \notin {4, 5, 6, 14, 15}
               /\ DS(q, t)' <= 3 <=> DS(q, t) <= 3
               /\ DS(q, t)' <= 7 <=> DS(q, t) <= 7
               /\ DS(q, t)' <= 8 <=> DS(q, t) <= 8
               /\ DS(q, t)' <= 11 <=> DS(q, t) <= 11
               /\ DS(q, t)' <= 13 <=> DS(q, t) <= 13
    BY StageFacts DEF OnlyD
  <1>2. StageInv'
    BY <1>1, StageFacts DEF StageInv
  <1> QED BY <1>2 DEF PcInv

LEMMA KeepsE ==
  ASSUME PcInv, NEW r \in Ranks, NEW s \in SMs, NEW k \in 1 .. 10, OnlyE(r, s, k), pc' \in [Agents -> Nat \ {0}],
         ES(r, s) = 1 <=> k = 1, ES(r, s) <= 4 <=> k <= 4, ES(r, s) <= 7 <=> k <= 7,
         ES(r, s) <= 8 <=> k <= 8, s # 0 => k \notin {5, 6}
  PROVE  PcInv'
  <1>1. ASSUME NEW q \in Ranks, NEW t \in SMs
        PROVE  /\ ES(q, t)' \in 1 .. 10 /\ DS(q, t)' = DS(q, t)
               /\ t # 0 => ES(q, t)' \notin {5, 6}
               /\ ES(q, t)' = 1 <=> ES(q, t) = 1
               /\ ES(q, t)' <= 4 <=> ES(q, t) <= 4
               /\ ES(q, t)' <= 7 <=> ES(q, t) <= 7
               /\ ES(q, t)' <= 8 <=> ES(q, t) <= 8
    BY StageFacts DEF OnlyE
  <1>2. StageInv'
    BY <1>1, StageFacts DEF StageInv
  <1> QED BY <1>2 DEF PcInv

-----------------------------------------------------------------------------
(* What the steps leave alone.                                              *)

SameSends(q) == Claimed(q)' = Claimed(q) /\ Indexed(q)' = Indexed(q) /\ (Sending(q)' <=> Sending(q))
SameHears(q) == Told(q)' = Told(q) /\ Cleared(q)' = Cleared(q)
SameDone(q) == Pulled(q)' = Pulled(q) /\ Worked(q)' = Worked(q) /\ (NoClean(q)' => NoClean(q))
SameWorks(q) == SameDone(q) /\ (Working(q)' => Working(q)) /\ (Reducing(q)' => Reducing(q))

LEMMA KeepSend ==
  ASSUME NEW q \in Ranks, SendInv(q), Claimed(q)' = Claimed(q), Sending(q)' <=> Sending(q),
         launch'[q] = launch[q], send'[q] = send[q]
  PROVE  SendInv(q)'
  <1>1. \A e : Counted(q, e)' = Counted(q, e)
    BY DEF Counted
  <1> QED BY <1>1 DEF SendInv

LEMMA SameInterval ==
  ASSUME NEW q \in Ranks, launch'[q] = launch[q], NEW s, slots'[q][s] = slots[q][s], NEW e
  PROVE  Upto(q, s, e)' = Upto(q, s, e) /\ Interval(q, s, e)' = Interval(q, s, e)
  <1>1. Upto(q, s, e)' = Upto(q, s, e)
    BY DEF Upto
  <1> QED BY <1>1 DEF Interval

LEMMA KeepSlot ==
  ASSUME NEW q \in Ranks, SlotInv(q), Claimed(q)' = Claimed(q), launch'[q] = launch[q], slots'[q] = slots[q]
  PROVE  SlotInv(q)'
  <1>1. \A e : Counted(q, e)' = Counted(q, e)
    BY DEF Counted
  <1>2. \A s, e : Upto(q, s, e)' = Upto(q, s, e) /\ Interval(q, s, e)' = Interval(q, s, e)
    BY SameInterval
  <1> QED BY <1>1, <1>2 DEF SlotInv

LEMMA KeepIndex ==
  ASSUME NEW q \in Ranks, IndexInv(q), Indexed(q)' = Indexed(q), launch'[q] = launch[q],
         \A s \in Indexed(q) : slots'[q][s] = slots[q][s],
         \A o \in Ranks : index'[o] = index[o]
  PROVE  IndexInv(q)'
  <1>1. \A s \in Indexed(q) : \A e : Interval(q, s, e)' = Interval(q, s, e)
    BY SameInterval
  <1>2. \A e \in GlobalExperts : \A k, x : Found(q, e, k, x)' <=> Found(q, e, k, x)
    BY GlobalIs DEF Found
  <1> QED BY <1>1, <1>2 DEF IndexInv

LEMMA KeepSends ==
  ASSUME NEW q \in Ranks, SendsInv(q), SameSends(q), launch'[q] = launch[q], send'[q] = send[q],
         slots'[q] = slots[q], \A o \in Ranks : index'[o] = index[o]
  PROVE  SendsInv(q)'
  BY KeepSend, KeepSlot, KeepIndex DEF SendsInv, SameSends

LEMMA KeepHeard ==
  ASSUME NEW q \in Ranks, HeardInv(q), sums'[q] = sums[q], recv'[q] = recv[q],
         \A e \in LocalExperts : Epoch(q, e)' = Epoch(q, e) /\ Heard(q, e)' = Heard(q, e)
  PROVE  HeardInv(q)'
  BY DEF HeardInv

LEMMA KeepHears ==
  ASSUME NEW q \in Ranks, HeardInv(q), \A p \in Ranks : SameHears(p), launch' = launch,
         sums'[q] = sums[q], recv'[q] = recv[q]
  PROVE  HeardInv(q)'
  <1>1. \A e \in LocalExperts : Epoch(q, e)' = Epoch(q, e)
    BY DEF Epoch, SameHears
  <1>2. \A e \in LocalExperts : Heard(q, e)' = Heard(q, e)
    BY <1>1 DEF Heard, SameHears
  <1> QED BY <1>1, <1>2, KeepHeard

LEMMA KeepPool ==
  ASSUME NEW q \in Ranks, PoolInv(q), Pulled(q)' = Pulled(q), Working(q)' => Working(q), launch'[q] = launch[q],
         pool'[q] = pool[q], Working(q)' => index'[q] = index[q]
  PROVE  PoolInv(q)'
  BY DEF PoolInv

LEMMA KeepArrived ==
  ASSUME NEW q \in Ranks, ArrivedInv(q), Pulled(q)' = Pulled(q), NoClean(q)' => NoClean(q), launch'[q] = launch[q],
         arrived'[q] = arrived[q]
  PROVE  ArrivedInv(q)'
  <1>1. \A k : Arrivals(q, k)' = Arrivals(q, k)
    BY DEF Arrivals
  <1> QED BY <1>1 DEF ArrivedInv

LEMMA KeepMask ==
  ASSUME NEW q \in Ranks, MaskInv(q), Pulled(q) \subseteq Pulled(q)', NoClean(q)' => NoClean(q),
         launch'[q] = launch[q], mask'[q] = mask[q], hidden'[q] = hidden[q]
  PROVE  MaskInv(q)'
  BY DEF MaskInv

LEMMA KeepDirty ==
  ASSUME NEW q \in Ranks, DirtyInv(q), Cleared(q)' = Cleared(q), launch'[q] = launch[q],
         arrived'[q] = arrived[q], mask'[q] = mask[q]
  PROVE  DirtyInv(q)'
  BY DEF DirtyInv

LEMMA KeepWork ==
  ASSUME NEW q \in Ranks, WorkInv(q), Pulled(q) \subseteq Pulled(q)', Worked(q)' \subseteq Worked(q),
         launch'[q] = launch[q]
  PROVE  WorkInv(q)'
  <1>1. \A w : Tile(q, w)' = Tile(q, w)
    BY DEF Tile
  <1>2. \A b : Whole(q, b) => Whole(q, b)'
    BY DEF Whole
  <1> QED BY <1>1, <1>2 DEF WorkInv

LEMMA KeepWorks ==
  ASSUME NEW q \in Ranks, WorksInv(q), SameWorks(q), Cleared(q)' = Cleared(q), launch'[q] = launch[q],
         pool'[q] = pool[q], arrived'[q] = arrived[q], mask'[q] = mask[q], hidden'[q] = hidden[q],
         Working(q)' => index'[q] = index[q]
  PROVE  WorksInv(q)'
  BY KeepPool, KeepArrived, KeepMask, KeepDirty, KeepWork DEF WorksInv, SameWorks, SameDone

LEMMA KeepBack ==
  ASSUME NEW q \in Ranks, BackInv(q), Working(q)' => Working(q), Worked(q)' = Worked(q), launch'[q] = launch[q],
         Working(q)' => index'[q] = index[q], combine' = combine
  PROVE  BackInv(q)'
  <1>1. \A w : Tile(q, w)' = Tile(q, w)
    BY DEF Tile
  <1>2. \A v, n : Returned(q, v, n)' <=> Returned(q, v, n)
    BY DEF Returned, Back
  <1> QED BY <1>1, <1>2 DEF BackInv

LEMMA KeepReduce ==
  ASSUME NEW q \in Ranks, ReduceInv(q), Reducing(q)' => Reducing(q), launch'[q] = launch[q], combine' = combine
  PROVE  ReduceInv(q)'
  BY DEF ReduceInv, Back

LEMMA KeepBacks ==
  ASSUME NEW q \in Ranks, BacksInv(q), SameWorks(q), launch'[q] = launch[q],
         Working(q)' => index'[q] = index[q], combine' = combine
  PROVE  BacksInv(q)'
  BY KeepBack, KeepReduce DEF BacksInv, SameWorks, SameDone

LEMMA KeepShape ==
  ASSUME Shape, UNCHANGED <<slots, workspace>>
  PROVE  Shape'
  BY DEF Shape, workspace

(* Of all that, a step changes nothing.                                     *)
LEMMA KeepData ==
  ASSUME \A q \in Ranks : DataInv(q) /\ SameSends(q) /\ SameHears(q) /\ SameWorks(q),
         UNCHANGED <<launch, slots, workspace>>
  PROVE  \A q \in Ranks : DataInv(q)'
  <1> TAKE q \in Ranks
  <1>1. UNCHANGED <<launch, slots, send, recv, sums, index, pool, arrived, mask, hidden, combine>>
    BY DEF workspace
  <1>2. SendsInv(q)' /\ HeardInv(q)'
    BY <1>1, KeepSends, KeepHears DEF DataInv
  <1>3. WorksInv(q)' /\ BacksInv(q)'
    BY <1>1, KeepWorks, KeepBacks DEF DataInv, SameHears
  <1> QED BY <1>2, <1>3 DEF DataInv

LEMMA CleanerIs ==
  /\ NumSMs - 1 \in Nat \ {0}
  /\ \A e \in LocalExperts : e \in Nat /\ Cleaner(e) \in SMs \ {0} /\ e \div (NumSMs - 1) \in Nat
  <1>1. NumSMs - 1 \in Nat \ {0} /\ NumSMs \in Nat
    BY Sizes1
  <1>2. ASSUME NEW e \in LocalExperts
        PROVE  e \in Nat /\ Cleaner(e) \in SMs \ {0} /\ e \div (NumSMs - 1) \in Nat
    <2>1. e \in Nat
      BY Sizes1 DEF LocalExperts
    <2> DEFINE n == NumSMs - 1
    <2>2. e \div n \in Nat /\ e % n \in 0 .. n - 1
      BY <1>1, <2>1, DivMod
    <2>3. Cleaner(e) = 1 + (e % n)
      BY DEF Cleaner
    <2> DEFINE m == e % n
    <2> HIDE DEF m
    <2>4. 1 + m \in SMs \ {0}
      BY <1>1, <2>2 DEF SMs, m
    <2> QED BY <2>1, <2>2, <2>3, <2>4 DEF m
  <1> QED BY <1>1, <1>2

LEMMA TokIs ==
  ASSUME NEW l \in Nths, NEW r \in Ranks
  PROVE  /\ TotalTokens(Ins(l, r)) \in Nat
         /\ \A i \in Toks(l, r) : i \in Nat /\ i % NumSMs \in SMs /\ i \div NumSMs \in Nat
                                  /\ i = (i % NumSMs) + NumSMs * (i \div NumSMs)
  <1>1. TotalTokens(Ins(l, r)) \in Nat
    <2>1. Tokens(l, r) \in Plans
      BY TokensAre
    <2> QED BY <2>1, TaskIs DEF Ins
  <1>2. ASSUME NEW i \in Toks(l, r)
        PROVE  i \in Nat /\ i % NumSMs \in SMs /\ i \div NumSMs \in Nat
               /\ i = (i % NumSMs) + NumSMs * (i \div NumSMs)
    <2>1. i \in Nat
      BY <1>1 DEF Toks
    <2>2. /\ i \div NumSMs \in Nat /\ i % NumSMs \in 0 .. NumSMs - 1
          /\ i = (i \div NumSMs) * NumSMs + (i % NumSMs) /\ NumSMs \in Nat
      BY <2>1, Sizes1, DivMod
    <2> DEFINE x == i % NumSMs
               y == i \div NumSMs
    <2> HIDE DEF x, y
    <2>3. y * NumSMs + x = x + NumSMs * y
      BY <2>2 DEF x, y
    <2> QED BY <2>1, <2>2, <2>3 DEF x, y, SMs
  <1> QED BY <1>1, <1>2

(* Steps that a set of stages above does not tell apart.                    *)
Still(x, y, k, n, m) == (x > k <=> y > k) /\ (x = k \/ y = k => (n = m /\ (x # y => m = 0)))

StagesOK == \A q \in Ranks, t \in SMs : DS(q, t) \in Nat /\ ES(q, t) \in Nat
TodoOK == todo \in [Agents -> Nat]

LEMMA TodoIs ==
  ASSUME TodoOK, NEW q \in Ranks, NEW t \in SMs
  PROVE  todo[D(q, t)] \in Nat /\ todo[E(q, t)] \in Nat
  BY AgentsAre DEF TodoOK

LEMMA StagesAre ==
  ASSUME PcInv
  PROVE  StagesOK
  BY StageFacts DEF StagesOK

LEMMA ClaimsSame ==
  ASSUME NEW q \in Ranks, DS(q, 0)' <= 12 <=> DS(q, 0) <= 12,
         \A t \in SMs : (DS(q, t)' >= 2 <=> DS(q, t) >= 2) /\ (DS(q, t)' >= 3 <=> DS(q, t) >= 3)
  PROVE  SameSends(q)
  BY DEF SameSends, Claimed, Indexed, Sending

LEMMA ToldSame ==
  ASSUME StagesOK, StagesOK', TodoOK, TodoOK', NEW q \in Ranks,
         Still(DS(q, 0)', DS(q, 0), 4, todo'[D(q, 0)], todo[D(q, 0)])
  PROVE  Told(q)' = Told(q)
  <1>1. /\ DS(q, 0) \in Nat /\ DS(q, 0)' \in Nat /\ todo[D(q, 0)] \in Nat /\ todo'[D(q, 0)] \in Nat
        /\ \A x \in GlobalExperts : x \in Nat
    <2>1. DS(q, 0) \in Nat /\ DS(q, 0)' \in Nat
      BY ZeroSM DEF StagesOK
    <2>2. todo[D(q, 0)] \in Nat /\ todo'[D(q, 0)] \in Nat
      BY ZeroSM, TodoIs, AgentsAre DEF TodoOK
    <2> QED BY <2>1, <2>2, GlobalIs
  <1>2. \A x \in GlobalExperts : (DS(q, 0)' > 4 \/ (DS(q, 0)' = 4 /\ x < todo'[D(q, 0)]))
                                  <=> (DS(q, 0) > 4 \/ (DS(q, 0) = 4 /\ x < todo[D(q, 0)]))
    BY <1>1 DEF Still
  <1> QED BY <1>2 DEF Told

LEMMA ClearedSame ==
  ASSUME StagesOK, StagesOK', TodoOK, TodoOK', NEW q \in Ranks,
         \A t \in SMs \ {0} : Still(DS(q, t)', DS(q, t), 12, todo'[D(q, t)], todo[D(q, t)])
  PROVE  Cleared(q)' = Cleared(q)
  <1>1. ASSUME NEW e \in LocalExperts
        PROVE  (e \in Cleared(q))' <=> e \in Cleared(q)
    <2> DEFINE t == Cleaner(e)
               k == e \div (NumSMs - 1)
    <2>1. t \in SMs \ {0} /\ k \in Nat
      BY CleanerIs
    <2>2. /\ e \in Cleared(q) <=> (DS(q, t) > 12 \/ (DS(q, t) = 12 /\ k < todo[D(q, t)]))
          /\ (e \in Cleared(q))' <=> (DS(q, t)' > 12 \/ (DS(q, t)' = 12 /\ k < todo'[D(q, t)]))
      BY DEF Cleared
    <2> HIDE DEF t, k
    <2>3. DS(q, t) \in Nat /\ DS(q, t)' \in Nat /\ todo[D(q, t)] \in Nat /\ todo'[D(q, t)] \in Nat
      BY <2>1, AgentsAre DEF StagesOK, TodoOK
    <2>4. Still(DS(q, t)', DS(q, t), 12, todo'[D(q, t)], todo[D(q, t)])
      BY <2>1
    <2> QED BY <2>1, <2>2, <2>3, <2>4 DEF Still
  <1>2. Cleared(q) \subseteq LocalExperts /\ Cleared(q)' \subseteq LocalExperts
    BY DEF Cleared
  <1> QED BY <1>1, <1>2

LEMMA PulledSame ==
  ASSUME LaunchInv, launch' = launch, StagesOK, StagesOK', TodoOK, TodoOK', NEW q \in Ranks,
         \A t \in SMs : Still(DS(q, t)', DS(q, t), 10, todo'[D(q, t)], todo[D(q, t)])
  PROVE  Pulled(q)' = Pulled(q)
  <1> DEFINE T == Toks(launch[q], q)
  <1>1. ASSUME NEW i \in T
        PROVE  (i \in Pulled(q))' <=> i \in Pulled(q)
    <2> DEFINE t == i % NumSMs
               k == i \div NumSMs
    <2>1. t \in SMs /\ k \in Nat
      BY TokIs DEF LaunchInv
    <2>2. /\ i \in Pulled(q) <=> (DS(q, t) > 10 \/ (DS(q, t) = 10 /\ k < todo[D(q, t)]))
          /\ (i \in Pulled(q))' <=> (DS(q, t)' > 10 \/ (DS(q, t)' = 10 /\ k < todo'[D(q, t)]))
      BY DEF Pulled
    <2> HIDE DEF t, k
    <2>3. DS(q, t) \in Nat /\ DS(q, t)' \in Nat /\ todo[D(q, t)] \in Nat /\ todo'[D(q, t)] \in Nat
      BY <2>1, AgentsAre DEF StagesOK, TodoOK
    <2>4. Still(DS(q, t)', DS(q, t), 10, todo'[D(q, t)], todo[D(q, t)])
      BY <2>1
    <2> QED BY <2>1, <2>2, <2>3, <2>4 DEF Still
  <1>2. Pulled(q) \subseteq T /\ Pulled(q)' \subseteq T
    BY DEF Pulled
  <1> QED BY <1>1, <1>2

LEMMA WorkedSame ==
  ASSUME launch' = launch, StagesOK, StagesOK', TodoOK, TodoOK', NEW q \in Ranks,
         \A t \in SMs : Still(ES(q, t)', ES(q, t), 3, todo'[E(q, t)], todo[E(q, t)])
  PROVE  Worked(q)' = Worked(q)
  <1>1. ASSUME NEW t \in SMs, NEW k \in Nat \ {0}
        PROVE  (ES(q, t)' > 3 \/ (ES(q, t)' = 3 /\ k <= todo'[E(q, t)]))
                <=> (ES(q, t) > 3 \/ (ES(q, t) = 3 /\ k <= todo[E(q, t)]))
    <2>1. ES(q, t) \in Nat /\ ES(q, t)' \in Nat /\ todo[E(q, t)] \in Nat /\ todo'[E(q, t)] \in Nat
      BY AgentsAre DEF StagesOK, TodoOK
    <2> QED BY <2>1 DEF Still
  <1> QED BY <1>1 DEF Worked

(* A rank in which nobody moves.                                            *)
LEMMA OthersSame ==
  ASSUME LaunchInv, launch' = launch, StagesOK, StagesOK', TodoOK, TodoOK', NEW q \in Ranks,
         \A t \in SMs : /\ DS(q, t)' = DS(q, t) /\ ES(q, t)' = ES(q, t)
                        /\ todo'[D(q, t)] = todo[D(q, t)] /\ todo'[E(q, t)] = todo[E(q, t)]
  PROVE  SameSends(q) /\ SameHears(q) /\ SameWorks(q)
  <1>1. DS(q, 0)' = DS(q, 0) /\ ES(q, 0)' = ES(q, 0) /\ todo'[D(q, 0)] = todo[D(q, 0)]
    BY ZeroSM
  <1>2. SameSends(q)
    BY <1>1, ClaimsSame
  <1>3. \A k, x, m : Still(x, x, k, m, m)
    BY DEF Still
  <1>4. SameHears(q)
    BY <1>1, <1>3, ToldSame, ClearedSame DEF SameHears
  <1>5. SameDone(q)
    BY <1>3, PulledSame, WorkedSame DEF SameDone, NoClean
  <1>6. (Working(q)' => Working(q)) /\ (Reducing(q)' => Reducing(q))
    BY <1>1 DEF Working, Reducing
  <1> QED BY <1>2, <1>4, <1>5, <1>6 DEF SameWorks

(* Steps to which all of that is the same.                                  *)
SameD(q, t) ==
  /\ DS(q, t)' >= 2 <=> DS(q, t) >= 2
  /\ DS(q, t)' >= 3 <=> DS(q, t) >= 3
  /\ DS(q, t)' > 10 <=> DS(q, t) > 10
  /\ DS(q, t)' > 12 <=> DS(q, t) > 12
  /\ DS(q, t)' # DS(q, t) => todo[D(q, t)] = 0
  /\ DS(q, t)' <= 11 => DS(q, t) <= 11
SameE(q, t) == (ES(q, t)' > 3 <=> ES(q, t) > 3) /\ (ES(q, t)' # ES(q, t) => todo[E(q, t)] = 0)

LEMMA SameStages ==
  ASSUME PcInv, PcInv', LaunchInv, todo \in [Agents -> Nat], todo' = todo, launch' = launch, NEW q \in Ranks,
         \A t \in SMs : SameD(q, t) /\ SameE(q, t), DS(q, 0)' > 4 <=> DS(q, 0) > 4
  PROVE  SameSends(q) /\ SameHears(q) /\ SameDone(q)
  <1>1. StagesOK /\ StagesOK' /\ TodoOK /\ TodoOK'
    <2>1. StagesOK'
      BY DEF PcInv, StageInv, StagesOK
    <2> QED BY <2>1, StagesAre DEF TodoOK
  <1>2. SameSends(q)
    <2>1. DS(q, 0) \in Nat /\ DS(q, 0)' \in Nat
      BY <1>1, ZeroSM DEF StagesOK
    <2> QED BY <2>1, ZeroSM, ClaimsSame DEF SameD
  <1>3. SameHears(q)
    <2>1. Still(DS(q, 0)', DS(q, 0), 4, todo'[D(q, 0)], todo[D(q, 0)])
      BY ZeroSM DEF SameD, Still
    <2>2. \A t \in SMs \ {0} : Still(DS(q, t)', DS(q, t), 12, todo'[D(q, t)], todo[D(q, t)])
      BY DEF SameD, Still
    <2> QED BY <1>1, <2>1, <2>2, ToldSame, ClearedSame DEF SameHears
  <1>4. SameDone(q)
    <2>1. \A t \in SMs : Still(DS(q, t)', DS(q, t), 10, todo'[D(q, t)], todo[D(q, t)])
      BY DEF SameD, Still
    <2>2. \A t \in SMs : Still(ES(q, t)', ES(q, t), 3, todo'[E(q, t)], todo[E(q, t)])
      BY DEF SameE, Still
    <2> QED BY <1>1, <2>1, <2>2, PulledSame, WorkedSame DEF SameDone, NoClean, SameD
  <1> QED BY <1>2, <1>3, <1>4

-----------------------------------------------------------------------------
(* What the rounds of signals keep apart.                                   *)

LEMMA RoundIs ==
  ASSUME PcInv, NEW r \in Ranks
  PROVE  /\ Begun(r) \in 0 .. 3 /\ Ended(r) \in 0 .. 3
         /\ Begun(r) >= 1 <=> DS(r, 0) > 5
         /\ Begun(r) >= 2 <=> ES(r, 0) > 5
         /\ Begun(r) >= 3 <=> DS(r, 0) > 14
         /\ Ended(r) >= 1 <=> DS(r, 0) > 6
         /\ Ended(r) >= 2 <=> ES(r, 0) > 6
         /\ Ended(r) >= 3 <=> DS(r, 0) > 15
  BY StageFacts, ZeroSM DEF Begun, Ended, One

LEMMA LaunchIs ==
  ASSUME LaunchInv, NEW r \in Ranks
  PROVE  launch[r] \in Nths /\ launch[r] \in Nat \ {0}
  <1>1. Len(Inputs) \in Nat
    BY InputsFit
  <1> QED BY <1>1 DEF LaunchInv, Nths

LEMMA Apart ==
  ASSUME PcInv, LaunchInv, RoundInv, NEW r \in Ranks, NEW q \in Ranks
  PROVE  3 * launch[r] + Ended(r) <= 3 * launch[q] + Begun(q)
  <1>1. launch[r] \in Nat /\ launch[q] \in Nat
    BY LaunchIs
  <1>2. Ended(r) \in Nat /\ Begun(q) \in Nat
    BY RoundIs
  <1>3. left[r] = 3 * (launch[r] - 1) + Ended(r) /\ entered[q] = 3 * (launch[q] - 1) + Begun(q)
    BY DEF RoundInv
  <1>4. left[r] <= entered[q]
    BY DEF RoundInv
  <1> DEFINE l == launch[r]
             m == launch[q]
  <1>5. 3 * (l - 1) + Ended(r) <= 3 * (m - 1) + Begun(q)
    BY <1>3, <1>4
  <1> HIDE DEF l, m
  <1>6. 3 * l + Ended(r) <= 3 * m + Begun(q)
    BY <1>1, <1>2, <1>5 DEF l, m
  <1> QED BY <1>6 DEF l, m

LEMMA Together ==
  ASSUME PcInv, LaunchInv, RoundInv, NEW r \in Ranks, NEW q \in Ranks
  PROVE  /\ DS(r, 0) >= 7 /\ DS(r, 0) <= 14 => launch[q] = launch[r]
         /\ DS(r, 0) >= 7 /\ launch[q] = launch[r] => DS(q, 0) >= 6
         /\ launch[q] <= launch[r] + 1
         /\ launch[q] = launch[r] + 1 => DS(r, 0) >= 15 /\ DS(q, 0) <= 6
         /\ ES(r, 0) >= 7 /\ launch[q] = launch[r] => ES(q, 0) >= 6
  <1>1. 3 * launch[r] + Ended(r) <= 3 * launch[q] + Begun(q) /\ 3 * launch[q] + Ended(q) <= 3 * launch[r] + Begun(r)
    BY Apart
  <1>2. launch[r] \in Nat /\ launch[q] \in Nat
    BY LaunchIs
  <1>3. DS(r, 0) \in Nat /\ ES(r, 0) \in Nat /\ DS(q, 0) \in Nat /\ ES(q, 0) \in Nat
    BY StageFacts, ZeroSM
  <1>4. DS(r, 0) <= 14 => Begun(r) <= 2
    BY <1>3, RoundIs
  <1>5. DS(r, 0) >= 7 => Ended(r) >= 1
    BY <1>3, RoundIs
  <1>6. ES(r, 0) >= 7 => Ended(r) >= 2
    BY <1>3, RoundIs
  <1>7. Begun(q) \in 0 .. 3 /\ Begun(r) \in 0 .. 3 /\ Ended(q) \in 0 .. 3 /\ Ended(r) \in 0 .. 3
    BY RoundIs
  <1>8. DS(r, 0) >= 7 /\ DS(r, 0) <= 14 => launch[q] = launch[r]
    BY <1>1, <1>2, <1>4, <1>5, <1>7
  <1>9. DS(r, 0) >= 7 /\ launch[q] = launch[r] => Begun(q) >= 1
    BY <1>1, <1>2, <1>5, <1>7
  <1>10. launch[q] <= launch[r] + 1
    BY <1>1, <1>2, <1>7
  <1>11. launch[q] = launch[r] + 1 => Begun(r) >= 3 /\ ~ (Ended(q) >= 1)
    BY <1>1, <1>2, <1>7
  <1>12. ES(r, 0) >= 7 /\ launch[q] = launch[r] => Begun(q) >= 2
    BY <1>1, <1>2, <1>6, <1>7
  <1> QED BY <1>3, <1>8, <1>9, <1>10, <1>11, <1>12, RoundIs

(* A rank works only while all are in the same launch and have told it      *)
(* everything.                                                              *)
LEMMA AllWork ==
  ASSUME PcInv, LaunchInv, RoundInv, NEW r \in Ranks, NEW s \in SMs, DS(r, s) \in 8 .. 13
  PROVE  /\ Working(r) /\ \A q \in Ranks : launch[q] = launch[r]
         /\ \A q \in Ranks : DS(q, 0) >= 6
         /\ \A q \in Ranks, t \in SMs : DS(q, t) >= 4
         /\ \A t \in SMs : DS(r, t) \in 8 .. 13
         /\ DS(r, 0) \in 8 .. 13
  <1>1. \A t \in SMs : DS(r, t) \in 8 .. 13
    BY StageFacts
  <1>2. DS(r, 0) \in 8 .. 13
    BY <1>1, ZeroSM
  <1>3. \A q \in Ranks : launch[q] = launch[r]
    BY <1>2, Together
  <1>4. \A q \in Ranks : DS(q, 0) >= 6
    BY <1>2, <1>3, Together
  <1>5. \A q \in Ranks, t \in SMs : DS(q, t) >= 4
    <2> TAKE q \in Ranks, t \in SMs
    <2>1. DS(q, 0) \in 1 .. 16 /\ DS(q, t) \in 1 .. 16 /\ (DS(q, t) <= 3 <=> DS(q, 0) <= 3)
      BY StageFacts, ZeroSM
    <2> QED BY <1>4, <2>1
  <1> QED BY <1>1, <1>2, <1>3, <1>4, <1>5 DEF Working

(* No rank works while another is early in the same launch.                 *)
LEMMA NoneWork ==
  ASSUME PcInv, LaunchInv, RoundInv, NEW r \in Ranks, DS(r, 0) <= 5, NEW q \in Ranks
  PROVE  ~ Working(q)
  <1>1. DS(r, 0) \in 1 .. 16
    BY StageFacts, ZeroSM
  <1> QED BY <1>1, Together DEF Working

-----------------------------------------------------------------------------
(* Control.                                                                 *)

LEMMA KeepRounds ==
  ASSUME PcInv, PcInv', RoundInv, UNCHANGED <<barrier, launch>>,
         \A q \in Ranks : /\ DS(q, 0)' > 5 <=> DS(q, 0) > 5
                          /\ DS(q, 0)' > 6 <=> DS(q, 0) > 6
                          /\ DS(q, 0)' > 14 <=> DS(q, 0) > 14
                          /\ DS(q, 0)' > 15 <=> DS(q, 0) > 15
                          /\ ES(q, 0)' > 5 <=> ES(q, 0) > 5
                          /\ ES(q, 0)' > 6 <=> ES(q, 0) > 6
  PROVE  RoundInv'
  <1>1. entered' = entered /\ left' = left /\ launch' = launch
    BY DEF barrier
  <1>2. \A q \in Ranks : Begun(q)' = Begun(q) /\ Ended(q)' = Ended(q)
    BY DEF Begun, Ended, One
  <1> QED BY <1>1, <1>2 DEF RoundInv

LEMMA KeepTodo ==
  ASSUME PcInv, PcInv', TodoInv, todo' = todo, launch' = launch,
         \A q \in Ranks, t \in SMs : /\ DS(q, t)' # DS(q, t) => todo[D(q, t)] = 0 /\ DS(q, t)' # 10
                                     /\ ES(q, t)' # ES(q, t) => todo[E(q, t)] = 0 /\ ES(q, t)' # 3
  PROVE  TodoInv'
  <1>1. NumRanks * NumExperts > 0
    BY Sizes1
  <1> QED BY <1>1 DEF TodoInv

LEMMA KeepCounts ==
  ASSUME CountsInv, counts' = counts, launch' = launch,
         \A q \in Ranks, t \in SMs : (DS(q, t)' >= 10 => DS(q, t) >= 10) /\ (ES(q, t)' >= 3 => ES(q, t) >= 3)
  PROVE  CountsInv'
  BY DEF CountsInv

(* A step that only moves agents from one wait to the next.                 *)
LEMMA Benign ==
  ASSUME IInv, PcInv', RoundInv', UNCHANGED <<launch, todo, counts, slots, workspace>>,
         \A q \in Ranks, t \in SMs : /\ SameD(q, t) /\ SameE(q, t)
                                     /\ DS(q, t)' # DS(q, t) => DS(q, t)' # 10
                                     /\ ES(q, t)' # ES(q, t) => ES(q, t)' # 3,
         \A q \in Ranks : DS(q, 0)' > 4 <=> DS(q, 0) > 4
  PROVE  /\ Control' /\ CountsInv' /\ Shape'
         /\ \A q \in Ranks : SameSends(q) /\ SameHears(q) /\ SameDone(q)
         /\ (\A q \in Ranks : (Working(q)' => Working(q)) /\ (Reducing(q)' => Reducing(q))) => IInv'
  <1>1. PcInv /\ LaunchInv /\ TodoInv /\ CountsInv /\ Shape /\ todo \in [Agents -> Nat]
    BY DEF IInv, Control, TodoInv
  <1>2. TodoInv'
    BY <1>1, KeepTodo DEF SameD, SameE
  <1>3. ASSUME NEW q \in Ranks, NEW t \in SMs
        PROVE  (DS(q, t)' >= 10 => DS(q, t) >= 10) /\ (ES(q, t)' >= 3 => ES(q, t) >= 3)
    <2>1. DS(q, t) \in 1 .. 16 /\ DS(q, t)' \in 1 .. 16 /\ ES(q, t) \in 1 .. 10 /\ ES(q, t)' \in 1 .. 10
      BY <1>1 DEF PcInv, StageInv
    <2> QED BY <2>1 DEF SameD, SameE
  <1>4. CountsInv'
    BY <1>1, <1>3, KeepCounts
  <1>5. Shape'
    BY <1>1, KeepShape
  <1>6. \A q \in Ranks : SameSends(q) /\ SameHears(q) /\ SameDone(q)
    BY <1>1, SameStages
  <1>7. LaunchInv'
    BY <1>1 DEF LaunchInv
  <1>8. ASSUME \A q \in Ranks : (Working(q)' => Working(q)) /\ (Reducing(q)' => Reducing(q))
        PROVE  \A q \in Ranks : DataInv(q)'
    <2>1. \A q \in Ranks : DataInv(q)
      BY DEF IInv
    <2>2. \A q \in Ranks : SameWorks(q)
      BY <1>6, <1>8 DEF SameWorks
    <2> QED BY <1>6, <2>1, <2>2, KeepData
  <1> QED BY <1>2, <1>4, <1>5, <1>6, <1>7, <1>8 DEF IInv, Control

LEMMA Parts ==
  ASSUME IInv
  PROVE  PcInv /\ LaunchInv /\ RoundInv /\ TodoInv /\ CountsInv /\ Shape /\ \A q \in Ranks : DataInv(q)
  BY DEF IInv, Control

LEMMA GroupMoves ==
  ASSUME PcInv, NEW group \in SUBSET Agents, pc' = [a \in Agents |-> IF a \in group THEN pc[a] + 1 ELSE pc[a]]
  PROVE  /\ pc' \in [Agents -> Nat \ {0}]
         /\ \A q \in Ranks, t \in SMs :
              /\ DS(q, t)' = (IF D(q, t) \in group THEN DStage(t, pc[D(q, t)] + 1) ELSE DS(q, t))
              /\ ES(q, t)' = (IF E(q, t) \in group THEN EStage(t, pc[E(q, t)] + 1) ELSE ES(q, t))
  <1>1. pc \in [Agents -> Nat \ {0}]
    BY DEF PcInv
  <1>2. \A a \in Agents : pc'[a] = IF a \in group THEN pc[a] + 1 ELSE pc[a]
    OBVIOUS
  <1>3. pc' \in [Agents -> Nat \ {0}]
    <2>1. \A a \in Agents : (IF a \in group THEN pc[a] + 1 ELSE pc[a]) \in Nat \ {0}
      BY <1>1
    <2> QED BY <2>1
  <1>4. ASSUME NEW q \in Ranks, NEW t \in SMs
        PROVE  /\ DS(q, t)' = (IF D(q, t) \in group THEN DStage(t, pc[D(q, t)] + 1) ELSE DS(q, t))
               /\ ES(q, t)' = (IF E(q, t) \in group THEN EStage(t, pc[E(q, t)] + 1) ELSE ES(q, t))
    <2>1. D(q, t) \in Agents /\ E(q, t) \in Agents
      BY AgentsAre
    <2> QED BY <1>2, <2>1 DEF DS, ES
  <1> QED BY <1>3, <1>4

LEMMA GridD ==
  ASSUME IInv, NEW r \in Ranks, Grid(r, "dispatch")
  PROVE  IInv'
  <1> DEFINE group == {<<"dispatch", r, s>> : s \in SMs}
  <1>1. PcInv /\ LaunchInv /\ RoundInv /\ TodoInv
    BY Parts
  <1>2. /\ \A s \in SMs : At(D(r, s), "grid")
        /\ pc' = [a \in Agents |-> IF a \in group THEN pc[a] + 1 ELSE pc[a]]
        /\ UNCHANGED <<barrier, launch, todo, counts, slots, workspace>>
    BY DEF Grid, GoTogether, D
  <1>3. ASSUME NEW s \in SMs
        PROVE  DS(r, s) \in {3, 7, 13}
    <2>1. DS(r, s) # 16 /\ DNames[DS(r, s)] = "grid"
      BY <1>1, <1>2, AtD
    <2>2. DS(r, s) \in 1 .. 16
      BY <1>1, StageFacts
    <2> QED BY <2>1, <2>2 DEF DNames
  <1>4. group \in SUBSET Agents /\ \A q \in Ranks, t \in SMs : (D(q, t) \in group <=> q = r) /\ E(q, t) \notin group
    BY AgentsAre DEF D, E
  <1> HIDE DEF group
  <1>5. /\ pc' \in [Agents -> Nat \ {0}]
        /\ \A q \in Ranks, t \in SMs :
              /\ DS(q, t)' = (IF q = r THEN NextD(t, DS(q, t)) ELSE DS(q, t))
              /\ ES(q, t)' = ES(q, t)
    <2>1. \A t \in SMs : DStage(t, pc[D(r, t)] + 1) = NextD(t, DS(r, t))
      BY <1>1, <1>3, StepD
    <2> QED BY <1>1, <1>2, <1>4, <2>1, GroupMoves
  <1>6. \A s \in SMs : DS(r, s) = DS(r, 0)
    <2> TAKE s \in SMs
    <2>1. DS(r, s) \in {3, 7, 13} /\ DS(r, 0) \in {3, 7, 13}
      BY <1>3, ZeroSM
    <2>2. (DS(r, s) <= 3 <=> DS(r, 0) <= 3) /\ (DS(r, s) <= 7 <=> DS(r, 0) <= 7)
      BY <1>1, StageFacts, ZeroSM
    <2> QED BY <2>1, <2>2
  <1>7. \A s \in SMs : DS(r, s)' = NextD(s, DS(r, 0))
    BY <1>5, <1>6
  <1>8. DS(r, 0) \in {3, 7, 13}
    BY <1>3, ZeroSM
  <1>9. PcInv'
    <2>1. \A q \in Ranks, t \in SMs : ES(q, t)' = ES(q, t) /\ (q # r => DS(q, t)' = DS(q, t))
      BY <1>5
    <2>2. \A s \in SMs : /\ DS(r, s)' \in 1 .. 16 /\ (s # 0 => DS(r, s)' \notin {4, 5, 6, 14, 15})
                         /\ DS(r, s)' <= 8 <=> DS(r, s) <= 8
                         /\ DS(r, s)' <= 11 <=> DS(r, s) <= 11
      BY <1>6, <1>7, <1>8 DEF NextD
    <2>3. \A s, t \in SMs : /\ DS(r, s)' <= 3 <=> DS(r, t)' <= 3
                            /\ DS(r, s)' <= 7 <=> DS(r, t)' <= 7
                            /\ DS(r, s)' <= 13 <=> DS(r, t)' <= 13
      BY <1>7, <1>8 DEF NextD
    <2>4. StageInv'
      BY <1>1, <2>1, <2>2, <2>3, StageFacts DEF StageInv
    <2> QED BY <1>5, <2>4 DEF PcInv
  <1>10. DS(r, 0)' = DS(r, 0) + 1
    BY <1>7, <1>8, ZeroSM DEF NextD
  <1>11. RoundInv'
    <2>1. UNCHANGED <<barrier, launch>>
      BY <1>2
    <2> QED BY <1>1, <1>5, <1>8, <1>9, <1>10, <2>1, ZeroSM, KeepRounds
  <1>12. ASSUME NEW q \in Ranks, NEW t \in SMs
         PROVE  /\ SameD(q, t) /\ SameE(q, t)
                /\ DS(q, t)' # DS(q, t) => DS(q, t)' # 10
                /\ ES(q, t)' # ES(q, t) => ES(q, t)' # 3
    <2>1. CASE q # r
      BY <1>5, <2>1 DEF SameD, SameE
    <2>2. CASE q = r
      <3>1. todo[D(r, t)] = 0
        BY <1>1, <1>3 DEF TodoInv
      <3> QED BY <1>3, <1>5, <2>2, <3>1 DEF SameD, SameE, NextD
    <2> QED BY <2>1, <2>2
  <1>13. \A q \in Ranks : /\ DS(q, 0)' > 4 <=> DS(q, 0) > 4
                          /\ Working(q)' => Working(q)
                          /\ Reducing(q)' => Reducing(q)
    BY <1>2, <1>5, <1>8, <1>10, ZeroSM DEF Working, Reducing
  <1> QED BY <1>2, <1>9, <1>11, <1>12, <1>13, Benign

LEMMA GridE ==
  ASSUME IInv, NEW r \in Ranks, Grid(r, "epilogue")
  PROVE  IInv'
  <1> DEFINE group == {<<"epilogue", r, s>> : s \in SMs}
  <1>1. PcInv /\ LaunchInv /\ RoundInv /\ TodoInv
    BY Parts
  <1>2. /\ \A s \in SMs : At(E(r, s), "grid")
        /\ pc' = [a \in Agents |-> IF a \in group THEN pc[a] + 1 ELSE pc[a]]
        /\ UNCHANGED <<barrier, launch, todo, counts, slots, workspace>>
    BY DEF Grid, GoTogether, E
  <1>3. ASSUME NEW s \in SMs
        PROVE  ES(r, s) \in {4, 7}
    <2>1. ES(r, s) # 10 /\ ENames[ES(r, s)] = "grid"
      BY <1>1, <1>2, AtE
    <2>2. ES(r, s) \in 1 .. 10
      BY <1>1, StageFacts
    <2> QED BY <2>1, <2>2 DEF ENames
  <1>4. group \in SUBSET Agents /\ \A q \in Ranks, t \in SMs : (E(q, t) \in group <=> q = r) /\ D(q, t) \notin group
    BY AgentsAre DEF D, E
  <1> HIDE DEF group
  <1>5. /\ pc' \in [Agents -> Nat \ {0}]
        /\ \A q \in Ranks, t \in SMs :
              /\ ES(q, t)' = (IF q = r THEN NextE(t, ES(q, t)) ELSE ES(q, t))
              /\ DS(q, t)' = DS(q, t)
    <2>1. \A t \in SMs : EStage(t, pc[E(r, t)] + 1) = NextE(t, ES(r, t))
      BY <1>1, <1>3, StepE
    <2> QED BY <1>1, <1>2, <1>4, <2>1, GroupMoves
  <1>6. \A s \in SMs : ES(r, s) = ES(r, 0)
    <2> TAKE s \in SMs
    <2>1. ES(r, s) \in {4, 7} /\ ES(r, 0) \in {4, 7}
      BY <1>3, ZeroSM
    <2>2. ES(r, s) <= 4 <=> ES(r, 0) <= 4
      BY <1>1, StageFacts, ZeroSM
    <2> QED BY <2>1, <2>2
  <1>7. \A s \in SMs : ES(r, s)' = NextE(s, ES(r, 0))
    BY <1>5, <1>6
  <1>8. ES(r, 0) \in {4, 7}
    BY <1>3, ZeroSM
  <1>9. PcInv'
    <2>1. \A q \in Ranks, t \in SMs : DS(q, t)' = DS(q, t) /\ (q # r => ES(q, t)' = ES(q, t))
      BY <1>5
    <2>2. \A s \in SMs : /\ ES(r, s)' \in 1 .. 10 /\ (s # 0 => ES(r, s)' \notin {5, 6})
                         /\ ES(r, s)' = 1 <=> ES(r, s) = 1
                         /\ ES(r, s)' <= 8 <=> ES(r, s) <= 8
      BY <1>6, <1>7, <1>8 DEF NextE
    <2>3. \A s, t \in SMs : /\ ES(r, s)' <= 4 <=> ES(r, t)' <= 4
                            /\ ES(r, s)' <= 7 <=> ES(r, t)' <= 7
      BY <1>7, <1>8 DEF NextE
    <2>4. StageInv'
      BY <1>1, <2>1, <2>2, <2>3, StageFacts DEF StageInv
    <2> QED BY <1>5, <2>4 DEF PcInv
  <1>10. ES(r, 0)' = ES(r, 0) + 1
    BY <1>7, <1>8, ZeroSM DEF NextE
  <1>11. RoundInv'
    <2>1. UNCHANGED <<barrier, launch>>
      BY <1>2
    <2> QED BY <1>1, <1>5, <1>8, <1>9, <1>10, <2>1, ZeroSM, KeepRounds
  <1>12. ASSUME NEW q \in Ranks, NEW t \in SMs
         PROVE  /\ SameD(q, t) /\ SameE(q, t)
                /\ DS(q, t)' # DS(q, t) => DS(q, t)' # 10
                /\ ES(q, t)' # ES(q, t) => ES(q, t)' # 3
    <2>1. CASE q # r
      BY <1>5, <2>1 DEF SameD, SameE
    <2>2. CASE q = r
      <3>1. todo[E(r, t)] = 0
        BY <1>1, <1>3 DEF TodoInv
      <3> QED BY <1>3, <1>5, <2>2, <3>1 DEF SameD, SameE, NextE
    <2> QED BY <2>1, <2>2
  <1>13. \A q \in Ranks : /\ DS(q, 0)' > 4 <=> DS(q, 0) > 4
                          /\ Working(q)' => Working(q)
                          /\ Reducing(q)' => Reducing(q)
    BY <1>2, <1>5, <1>8, <1>10, ZeroSM DEF Working, Reducing
  <1> QED BY <1>2, <1>9, <1>11, <1>12, <1>13, Benign

LEMMA MeetStep ==
  ASSUME IInv, NEW r \in Ranks, NEW s \in SMs, Meet(r, s)
  PROVE  IInv'
  <1> DEFINE group == {<<"dispatch", r, s>>, <<"epilogue", r, s>>}
  <1>1. PcInv /\ LaunchInv /\ RoundInv /\ TodoInv
    BY Parts
  <1>2. /\ At(D(r, s), "meet") /\ At(E(r, s), "meet")
        /\ pc' = [a \in Agents |-> IF a \in group THEN pc[a] + 1 ELSE pc[a]]
        /\ UNCHANGED <<barrier, launch, todo, counts, slots, workspace>>
    BY DEF Meet, GoTogether, D, E
  <1>3. (DS(r, s) = 8 /\ ES(r, s) = 1) \/ (DS(r, s) = 11 /\ ES(r, s) = 8)
    <2>1. ES(r, s) # 10 /\ ENames[ES(r, s)] = "meet" /\ DS(r, s) # 16 /\ DNames[DS(r, s)] = "meet"
      BY <1>1, <1>2, AtE, AtD
    <2>2. ES(r, s) \in 1 .. 10 /\ DS(r, s) \in 1 .. 16 /\ (DS(r, s) <= 8 <=> ES(r, s) = 1)
      BY <1>1, StageFacts
    <2>3. ES(r, s) \in {1, 8}
      BY <2>1, <2>2 DEF ENames
    <2>4. DS(r, s) \in {8, 11}
      BY <2>1, <2>2 DEF DNames
    <2> QED BY <2>2, <2>3, <2>4
  <1>4. /\ group \in SUBSET Agents
        /\ \A q \in Ranks, t \in SMs : (E(q, t) \in group <=> q = r /\ t = s) /\ (D(q, t) \in group <=> q = r /\ t = s)
    BY AgentsAre DEF D, E
  <1> HIDE DEF group
  <1>5. /\ pc' \in [Agents -> Nat \ {0}]
        /\ \A q \in Ranks, t \in SMs :
              /\ DS(q, t)' = (IF q = r /\ t = s THEN DS(q, t) + 1 ELSE DS(q, t))
              /\ ES(q, t)' = (IF q = r /\ t = s THEN ES(q, t) + 1 ELSE ES(q, t))
    <2>1. EStage(s, pc[E(r, s)] + 1) = ES(r, s) + 1 /\ DStage(s, pc[D(r, s)] + 1) = DS(r, s) + 1
      BY <1>1, <1>3, StepE, StepD DEF NextE, NextD
    <2> QED BY <1>1, <1>2, <1>4, <2>1, GroupMoves
  <1>6. ASSUME NEW q \in Ranks, NEW t \in SMs
        PROVE  /\ DS(q, t)' \in 1 .. 16 /\ ES(q, t)' \in 1 .. 10
               /\ t # 0 => DS(q, t)' \notin {4, 5, 6, 14, 15} /\ ES(q, t)' \notin {5, 6}
               /\ DS(q, t)' <= 8 <=> ES(q, t)' = 1
               /\ DS(q, t)' <= 11 <=> ES(q, t)' <= 8
               /\ DS(q, t)' <= 3 <=> DS(q, t) <= 3
               /\ DS(q, t)' <= 7 <=> DS(q, t) <= 7
               /\ DS(q, t)' <= 13 <=> DS(q, t) <= 13
               /\ ES(q, t)' <= 4 <=> ES(q, t) <= 4
               /\ ES(q, t)' <= 7 <=> ES(q, t) <= 7
    BY <1>1, <1>3, <1>5, StageFacts
  <1>7. PcInv'
    <2>1. StageInv'
      BY <1>1, <1>6, StageFacts DEF StageInv
    <2> QED BY <1>5, <2>1 DEF PcInv
  <1>8. \A q \in Ranks : /\ DS(q, 0)' > 4 <=> DS(q, 0) > 4
                         /\ DS(q, 0)' > 5 <=> DS(q, 0) > 5
                         /\ DS(q, 0)' > 6 <=> DS(q, 0) > 6
                         /\ DS(q, 0)' > 14 <=> DS(q, 0) > 14
                         /\ DS(q, 0)' > 15 <=> DS(q, 0) > 15
                         /\ ES(q, 0)' > 5 <=> ES(q, 0) > 5
                         /\ ES(q, 0)' > 6 <=> ES(q, 0) > 6
                         /\ ES(q, 0)' >= 7 <=> ES(q, 0) >= 7
                         /\ DS(q, 0)' >= 7 <=> DS(q, 0) >= 7
    BY <1>3, <1>5, ZeroSM
  <1>9. RoundInv'
    <2>1. UNCHANGED <<barrier, launch>>
      BY <1>2
    <2> QED BY <1>1, <1>7, <1>8, <2>1, KeepRounds
  <1>10. ASSUME NEW q \in Ranks, NEW t \in SMs
         PROVE  /\ SameD(q, t) /\ SameE(q, t)
                /\ DS(q, t)' # DS(q, t) => DS(q, t)' # 10
                /\ ES(q, t)' # ES(q, t) => ES(q, t)' # 3
    <2>1. CASE q # r \/ t # s
      BY <1>5, <2>1 DEF SameD, SameE
    <2>2. CASE q = r /\ t = s
      <3>1. todo[E(r, t)] = 0 /\ todo[D(r, t)] = 0
        BY <1>1, <1>3, <2>2 DEF TodoInv
      <3> QED BY <1>3, <1>5, <2>2, <3>1 DEF SameD, SameE
    <2> QED BY <2>1, <2>2
  <1>11. \A q \in Ranks : (Working(q)' => Working(q)) /\ (Reducing(q)' => Reducing(q))
    BY <1>2, <1>8 DEF Working, Reducing
  <1> QED BY <1>2, <1>7, <1>8, <1>9, <1>10, <1>11, Benign

LEMMA GoD ==
  ASSUME PcInv, TodoInv, NEW r \in Ranks, NEW s \in SMs, DS(r, s) # 16, Go(D(r, s))
  PROVE  /\ OnlyD(r, s, NextD(s, DS(r, s))) /\ pc' \in [Agents -> Nat \ {0}]
         /\ todo' = [todo EXCEPT ![D(r, s)] = 0]
         /\ todo[D(r, s)] = 0 => todo' = todo
  <1>1. pc' = [pc EXCEPT ![D(r, s)] = pc[D(r, s)] + 1] /\ todo' = [todo EXCEPT ![D(r, s)] = 0]
    BY DEF Go
  <1>2. pc[D(r, s)] + 1 \in Nat \ {0}
    BY PcIs
  <1>3. OnlyD(r, s, NextD(s, DS(r, s))) /\ pc' \in [Agents -> Nat \ {0}]
    BY <1>1, <1>2, MoveD, StepD
  <1>4. todo[D(r, s)] = 0 => todo' = todo
    BY <1>1 DEF TodoInv
  <1> QED BY <1>1, <1>3, <1>4

LEMMA GoE ==
  ASSUME PcInv, TodoInv, NEW r \in Ranks, NEW s \in SMs, ES(r, s) # 10, Go(E(r, s))
  PROVE  /\ OnlyE(r, s, NextE(s, ES(r, s))) /\ pc' \in [Agents -> Nat \ {0}]
         /\ todo' = [todo EXCEPT ![E(r, s)] = 0]
         /\ todo[E(r, s)] = 0 => todo' = todo
  <1>1. pc' = [pc EXCEPT ![E(r, s)] = pc[E(r, s)] + 1] /\ todo' = [todo EXCEPT ![E(r, s)] = 0]
    BY DEF Go
  <1>2. pc[E(r, s)] + 1 \in Nat \ {0}
    BY PcIs
  <1>3. OnlyE(r, s, NextE(s, ES(r, s))) /\ pc' \in [Agents -> Nat \ {0}]
    BY <1>1, <1>2, MoveE, StepE
  <1>4. todo[E(r, s)] = 0 => todo' = todo
    BY <1>1 DEF TodoInv
  <1> QED BY <1>1, <1>3, <1>4

LEMMA ReduceStep ==
  ASSUME IInv, NEW r \in Ranks, NEW s \in SMs, Reduce(r, s)
  PROVE  IInv'
  <1>1. PcInv /\ LaunchInv /\ RoundInv /\ TodoInv
    BY Parts
  <1>2. At(E(r, s), "reduce") /\ Go(E(r, s)) /\ UNCHANGED <<barrier, launch, counts, slots, workspace>>
    BY DEF Reduce, E
  <1>3. ES(r, s) = 9
    <2>1. ES(r, s) # 10 /\ ENames[ES(r, s)] = "reduce" /\ ES(r, s) \in 1 .. 10
      BY <1>1, <1>2, AtE, StageFacts
    <2> QED BY <2>1 DEF ENames
  <1>4. OnlyE(r, s, 10) /\ pc' \in [Agents -> Nat \ {0}] /\ todo' = todo
    <2>1. todo[E(r, s)] = 0
      BY <1>1, <1>3 DEF TodoInv
    <2>2. NextE(s, ES(r, s)) = 10
      BY <1>3 DEF NextE
    <2> QED BY <1>1, <1>2, <1>3, <2>1, <2>2, GoE
  <1>5. PcInv'
    BY <1>1, <1>3, <1>4, KeepsE
  <1>6. RoundInv'
    <2>1. UNCHANGED <<barrier, launch>>
      BY <1>2
    <2> QED BY <1>1, <1>3, <1>4, <1>5, <2>1, ZeroSM, KeepRounds DEF OnlyE
  <1>7. ASSUME NEW q \in Ranks, NEW t \in SMs
        PROVE  /\ SameD(q, t) /\ SameE(q, t)
               /\ DS(q, t)' # DS(q, t) => DS(q, t)' # 10
               /\ ES(q, t)' # ES(q, t) => ES(q, t)' # 3
    <2>1. todo[E(r, s)] = 0
      BY <1>1, <1>3 DEF TodoInv
    <2> QED BY <1>3, <1>4, <2>1 DEF SameD, SameE, OnlyE
  <1>8. \A q \in Ranks : /\ DS(q, 0)' > 4 <=> DS(q, 0) > 4
                         /\ Working(q)' => Working(q)
                         /\ Reducing(q)' => Reducing(q)
    BY <1>2, <1>3, <1>4, ZeroSM DEF Working, Reducing, OnlyE
  <1> QED BY <1>2, <1>4, <1>5, <1>6, <1>7, <1>8, Benign

LEMMA Stutter ==
  ASSUME IInv, UNCHANGED vars
  PROVE  IInv'
  <1>1. PcInv /\ RoundInv
    BY Parts
  <1>2. /\ UNCHANGED <<barrier, launch, todo, counts, slots, workspace>> /\ pc' = pc
        /\ UNCHANGED <<launch, todo, counts, slots, workspace>>
    BY DEF vars
  <1>3. \A q, t : DS(q, t)' = DS(q, t) /\ ES(q, t)' = ES(q, t)
    BY <1>2 DEF DS, ES
  <1>4. PcInv'
    BY <1>1, <1>2, <1>3 DEF PcInv, StageInv
  <1>5. RoundInv'
    <2>1. UNCHANGED <<barrier, launch>>
      BY <1>2
    <2> QED BY <1>1, <1>3, <1>4, <2>1, KeepRounds
  <1>6. \A q \in Ranks, t \in SMs : SameD(q, t) /\ SameE(q, t)
    BY <1>3 DEF SameD, SameE
  <1>7. \A q \in Ranks : (Working(q)' => Working(q)) /\ (Reducing(q)' => Reducing(q))
    BY <1>2, <1>3 DEF Working, Reducing
  <1> QED BY <1>2, <1>3, <1>4, <1>5, <1>6, <1>7, Benign

LEMMA RoundEnter ==
  ASSUME PcInv, PcInv', LaunchInv, RoundInv, NEW r \in Ranks, Nvl!Enter(r), launch' = launch,
         Begun(r)' = Begun(r) + 1, \A q \in Ranks : Ended(q)' = Ended(q) /\ (q # r => Begun(q)' = Begun(q))
  PROVE  RoundInv'
  <1>1. entered' = [entered EXCEPT ![r] = @ + 1] /\ left' = left
    BY DEF Nvl!Enter
  <1>2. \A q \in Ranks : launch[q] \in Nat /\ Begun(q) \in Nat /\ Ended(q) \in Nat
    BY LaunchIs, RoundIs
  <1>3. /\ entered = [q \in Ranks |-> 3 * (launch[q] - 1) + Begun(q)]
        /\ left = [q \in Ranks |-> 3 * (launch[q] - 1) + Ended(q)]
        /\ \A q, p \in Ranks : left[p] <= entered[q]
    BY DEF RoundInv
  <1>4. \A q \in Ranks : entered[q] = 3 * (launch[q] - 1) + Begun(q) /\ entered[q] \in Int
    BY <1>2, <1>3
  <1>5. \A q \in Ranks : entered'[q] = (IF q = r THEN entered[q] + 1 ELSE entered[q])
    BY <1>1, <1>3
  <1>6. entered' = [q \in Ranks |-> entered'[q]]
    BY <1>1, <1>3
  <1>7. \A q \in Ranks : entered'[q] = 3 * (launch[q] - 1) + Begun(q)'
    BY <1>2, <1>4, <1>5
  <1>8. entered' = [q \in Ranks |-> 3 * (launch'[q] - 1) + Begun(q)']
    BY <1>6, <1>7
  <1>9. left' = [q \in Ranks |-> 3 * (launch'[q] - 1) + Ended(q)']
    BY <1>1, <1>3
  <1>10. \A q, p \in Ranks : left'[p] <= entered'[q]
    <2>1. \A p \in Ranks : left[p] \in Int
      BY <1>2, <1>3
    <2> QED BY <1>1, <1>3, <1>4, <1>5, <2>1
  <1> QED BY <1>8, <1>9, <1>10 DEF RoundInv

LEMMA RoundLeave ==
  ASSUME PcInv, PcInv', LaunchInv, RoundInv, NEW r \in Ranks, Nvl!Leave(r), launch' = launch,
         Ended(r)' = Ended(r) + 1, \A q \in Ranks : Begun(q)' = Begun(q) /\ (q # r => Ended(q)' = Ended(q))
  PROVE  RoundInv'
  <1>1. /\ left' = [left EXCEPT ![r] = @ + 1] /\ entered' = entered
        /\ left[r] < entered[r] /\ \A q \in Ranks : entered[r] <= entered[q]
    BY DEF Nvl!Leave
  <1>2. \A q \in Ranks : launch[q] \in Nat /\ Begun(q) \in Nat /\ Ended(q) \in Nat
    BY LaunchIs, RoundIs
  <1>3. /\ entered = [q \in Ranks |-> 3 * (launch[q] - 1) + Begun(q)]
        /\ left = [q \in Ranks |-> 3 * (launch[q] - 1) + Ended(q)]
        /\ \A q, p \in Ranks : left[p] <= entered[q]
    BY DEF RoundInv
  <1>4. \A q \in Ranks : left[q] = 3 * (launch[q] - 1) + Ended(q) /\ left[q] \in Int /\ entered[q] \in Int
    BY <1>2, <1>3
  <1>5. \A q \in Ranks : left'[q] = (IF q = r THEN left[q] + 1 ELSE left[q])
    BY <1>1, <1>3
  <1>6. left' = [q \in Ranks |-> left'[q]]
    BY <1>1, <1>3
  <1>7. \A q \in Ranks : left'[q] = 3 * (launch[q] - 1) + Ended(q)'
    BY <1>2, <1>4, <1>5
  <1>8. left' = [q \in Ranks |-> 3 * (launch'[q] - 1) + Ended(q)']
    BY <1>6, <1>7
  <1>9. entered' = [q \in Ranks |-> 3 * (launch'[q] - 1) + Begun(q)']
    BY <1>1, <1>3
  <1>10. \A q, p \in Ranks : left'[p] <= entered'[q]
    BY <1>1, <1>3, <1>4, <1>5
  <1> QED BY <1>8, <1>9, <1>10 DEF RoundInv

(* When every rank has computed its blocks, every route has come back.      *)
LEMMA AllBack ==
  ASSUME SchedulesFit, IInv, NEW r \in Ranks,
         \A q \in Ranks : launch[q] = launch[r] /\ Working(q) /\ \A t \in SMs : DS(q, t) >= 3 /\ ES(q, t) > 3
  PROVE  \A s \in SMs : \A x \in Routes(launch[r], r, s), n \in 0 .. L2BlockNs - 1 :
           x[3] >= 0 => Back(launch[r], r, x, n)
  <1> DEFINE l == launch[r]
  <1>1. l \in Nths /\ PcInv /\ \A q \in Ranks : DataInv(q)
    BY Parts, LaunchIs
  <1> SUFFICES ASSUME NEW s \in SMs, NEW x \in Routes(l, r, s), NEW n \in 0 .. L2BlockNs - 1, x[3] >= 0
               PROVE  Back(l, r, x, n)
    OBVIOUS
  <1> DEFINE e == x[3]
             q == Owner(e)
             d == Local(e)
  <1>2. e \in GlobalExperts /\ x \in RoutesTo(l, r, s, e)
    <2>1. e \in GlobalExperts \cup {-1}
      BY <1>1, RoutesAre
    <2>2. e # -1
      OBVIOUS
    <2> QED BY <2>1, <2>2 DEF RoutesTo
  <1>3. q \in Ranks /\ d \in LocalExperts /\ e = Glob(q, d)
    BY <1>2, GlobalIs
  <1>4. s \in Indexed(r) /\ Claimed(r) = SMs
    <2>1. \A t \in SMs : DS(r, t) \in 1 .. 16 /\ DS(r, t) >= 3
      BY <1>1, StageFacts
    <2> QED BY <2>1 DEF Indexed, Claimed
  <1>5. PICK k \in Interval(r, s, e) : Found(r, e, k, x)
    BY <1>1, <1>2, <1>4 DEF DataInv, SendsInv, IndexInv
  <1> HIDE DEF e, q, d, l
  <1>6. k \in 0 .. Cardinality(Sent(l, r, e)) - 1
    <2>0. SlotInv(r)
      BY <1>1 DEF DataInv, SendsInv
    <2>1. slots[r][s][e] \in Nat /\ Upto(r, s, e) <= Cardinality(Counted(r, e))
      BY <1>2, <1>4, <2>0 DEF SlotInv
    <2>2. Counted(r, e) = Sent(l, r, e)
      BY <1>4 DEF Counted, Sent, l
    <2>3. Cardinality(Sent(l, r, e)) \in Nat /\ Cardinality(RoutesTo(l, r, s, e)) \in Nat
      <3>1. Cardinality(Of(SMs, l, r, e)) \in Nat
        BY <1>1, OfAdd
      <3>2. Cardinality(RoutesTo(l, r, s, e)) \in Nat
        BY <1>1, NthIs
      <3> QED BY <3>1, <3>2 DEF Sent
    <2>4. Upto(r, s, e) = slots[r][s][e] + Cardinality(RoutesTo(l, r, s, e))
      BY DEF Upto, l
    <2> QED BY <1>5, <2>1, <2>2, <2>3, <2>4 DEF Interval
  <1>7. PICK i \in Toks(l, q) : Task(l, q, i).expert = d /\ From(l, q, i) = <<d, [rank |-> r, slot |-> k]>>
    BY <1>1, <1>3, <1>6, FromIs
  <1>8. index[q][From(l, q, i)] = <<l, r, x[1], x[2]>>
    BY <1>5, <1>7 DEF Found, Key, q, d, l
  <1> DEFINE m == Task(l, q, i).idx \div BlockM
  <1>9. m \in 0 .. NumMBlocks(Ins(l, q), d) - 1
    <2>1. Tokens(l, q) \in Plans
      BY <1>1, <1>3, TokensAre
    <2> QED BY <1>7, <2>1, RowIs DEF Toks, Task, Ins
  <1> HIDE DEF m
  <1>10. PICK t \in SMs : \E j : Reached(l, q, d, m, n, t, j)
    BY <1>1, <1>3, <1>9, AllReached
  <1>11. PICK j : /\ j \in 1 .. Len(Walk(l, q, t))
                  /\ LET b == Walk(l, q, t)[j] IN b.phase = 2 /\ b.expert = d /\ b.m = m /\ b.n = n
    BY <1>10 DEF Reached
  <1> DEFINE w == <<t, j>>
  <1>12. launch[q] = l /\ Working(q) /\ ES(q, t) > 3
    BY <1>3 DEF l
  <1>13. w \in Worked(q) /\ Tile(q, w) = Walk(l, q, t)[j]
    <2>1. Len(Walk(l, q, t)) \in Nat
      BY <1>1, <1>3, WalkIs
    <2>2. j \in Nat \ {0} /\ j <= Len(Walk(l, q, t))
      BY <1>11, <2>1
    <2> QED BY <1>12, <2>2 DEF Worked, Tile
  <1>14. InBlock(l, q, i, Tile(q, w))
    BY <1>7, <1>11, <1>13 DEF InBlock, InPart, Task, m
  <1>15. Returned(q, index[q][From(l, q, i)], Tile(q, w).n)
    <2>1. BackInv(q)
      BY <1>1, <1>3 DEF DataInv, BacksInv
    <2> HIDE DEF w
    <2> QED BY <1>7, <1>11, <1>12, <1>13, <1>14, <2>1 DEF BackInv
  <1>16. Tile(q, w).n = n
    BY <1>11, <1>13
  <1> QED BY <1>8, <1>12, <1>15, <1>16 DEF Returned, Back, e

(* Signals: only leaving a round lets a rank work, or reduce.               *)
LEMMA NvlinkD ==
  ASSUME IInv, NEW r \in Ranks, NEW s \in SMs, NvlinkStep(D(r, s))
  PROVE  IInv'
  <1>1. PcInv /\ LaunchInv /\ RoundInv /\ TodoInv
    BY Parts
  <1>2. /\ (At(D(r, s), "enter") /\ Nvl!Enter(r)) \/ (At(D(r, s), "leave") /\ Nvl!Leave(r))
        /\ Go(D(r, s)) /\ UNCHANGED <<launch, counts, slots, workspace>>
    <2>1. D(r, s)[2] = r
      BY AgentsAre
    <2> QED BY <2>1 DEF NvlinkStep
  <1> DEFINE k == DS(r, s)
  <1>3. (k \in {5, 14} /\ Nvl!Enter(r)) \/ (k \in {6, 15} /\ Nvl!Leave(r))
    <2>1. k \in 1 .. 16
      BY <1>1, StageFacts
    <2>2. \A x : At(D(r, s), x) <=> k # 16 /\ DNames[k] = x
      BY <1>1, AtD
    <2> HIDE DEF k
    <2>3. k # 16 /\ DNames[k] = "enter" => k \in {5, 14}
      BY <2>1 DEF DNames
    <2>4. k # 16 /\ DNames[k] = "leave" => k \in {6, 15}
      BY <2>1 DEF DNames
    <2> QED BY <1>2, <2>2, <2>3, <2>4
  <1>4. k \in {5, 6, 14, 15}
    BY <1>3
  <1>5. s = 0 /\ (k <= 8 => ES(r, 0) = 1) /\ (k > 11 => ES(r, 0) > 8)
    <2>1. s = 0
      BY <1>1, <1>4, StageFacts
    <2>2. ES(r, 0) \in 1 .. 10 /\ k \in 1 .. 16
      BY <1>1, <2>1, StageFacts
    <2> QED BY <1>1, <2>1, <2>2, StageFacts
  <1>6. OnlyD(r, 0, k + 1) /\ pc' \in [Agents -> Nat \ {0}] /\ todo' = todo
    <2>1. todo[D(r, s)] = 0
      BY <1>1, <1>4 DEF TodoInv
    <2>2. NextD(s, k) = k + 1
      BY <1>4 DEF NextD
    <2> QED BY <1>1, <1>2, <1>4, <1>5, <2>1, <2>2, GoD
  <1>7. DS(r, 0) = k /\ DS(r, 0)' = k + 1
    BY <1>5, <1>6, ZeroSM DEF OnlyD
  <1>8. \A q \in Ranks, t \in SMs : ES(q, t)' = ES(q, t) /\ (q # r \/ t # 0 => DS(q, t)' = DS(q, t))
    BY <1>6 DEF OnlyD
  <1> HIDE DEF k
  <1>9. PcInv'
    <2>1. k + 1 \in 1 .. 16
      BY <1>4
    <2> QED BY <1>1, <1>4, <1>6, <1>7, <2>1, ZeroSM, KeepsD
  <1>10. \A q \in Ranks : q # r => Begun(q)' = Begun(q) /\ Ended(q)' = Ended(q)
    BY <1>8, ZeroSM DEF Begun, Ended
  <1>11. ES(r, 0)' = ES(r, 0)
    BY <1>8, ZeroSM
  <1>12. RoundInv'
    <2>0. launch' = launch
      BY <1>2
    <2>1. CASE k \in {5, 14}
      <3>1. Begun(r)' = Begun(r) + 1 /\ Ended(r)' = Ended(r)
        BY <1>5, <1>7, <1>11, <2>1 DEF Begun, Ended, One
      <3>2. Nvl!Enter(r)
        BY <1>3, <2>1
      <3> QED BY <1>1, <1>9, <1>10, <2>0, <3>1, <3>2, RoundEnter
    <2>2. CASE k \in {6, 15}
      <3>1. Ended(r)' = Ended(r) + 1 /\ Begun(r)' = Begun(r)
        BY <1>5, <1>7, <1>11, <2>2 DEF Begun, Ended, One
      <3>2. Nvl!Leave(r)
        BY <1>3, <2>2
      <3> QED BY <1>1, <1>9, <1>10, <2>0, <3>1, <3>2, RoundLeave
    <2> QED BY <1>4, <2>1, <2>2
  <1>13. ASSUME NEW q \in Ranks, NEW t \in SMs
         PROVE  /\ SameD(q, t) /\ SameE(q, t)
                /\ DS(q, t)' # DS(q, t) => DS(q, t)' # 10
                /\ ES(q, t)' # ES(q, t) => ES(q, t)' # 3
    <2>1. CASE q # r \/ t # 0
      BY <1>8, <2>1 DEF SameD, SameE
    <2>2. CASE q = r /\ t = 0
      <3>1. todo[D(r, 0)] = 0
        BY <1>1, <1>4, <1>7, ZeroSM DEF TodoInv
      <3> QED BY <1>4, <1>7, <1>8, <2>2, <3>1 DEF SameD, SameE
    <2> QED BY <2>1, <2>2
  <1>14. \A q \in Ranks : DS(q, 0)' > 4 <=> DS(q, 0) > 4
    BY <1>4, <1>7, <1>8, ZeroSM
  <1>15. UNCHANGED <<launch, todo, counts, slots, workspace>>
    BY <1>2, <1>6
  <1>16. /\ Control' /\ CountsInv' /\ Shape'
         /\ \A q \in Ranks : SameSends(q) /\ SameHears(q) /\ SameDone(q)
         /\ (\A q \in Ranks : (Working(q)' => Working(q)) /\ (Reducing(q)' => Reducing(q))) => IInv'
    BY <1>9, <1>12, <1>13, <1>14, <1>15, Benign
  <1>17. \A q \in Ranks : /\ Reducing(q)' => Reducing(q)
                          /\ q # r \/ k # 6 => (Working(q)' => Working(q))
    BY <1>2, <1>4, <1>7, <1>8, ZeroSM DEF Working, Reducing
  <1>18. CASE k # 6
    BY <1>16, <1>17, <1>18
  <1>19. CASE k = 6
    <2>1. \A t \in SMs : DS(r, t) \in 1 .. 7 /\ ES(r, t) = 1
      <3> TAKE t \in SMs
      <3>1. DS(r, t) \in 1 .. 16 /\ (DS(r, t) <= 7 <=> DS(r, 0) <= 7) /\ (DS(r, t) <= 8 <=> ES(r, t) = 1)
        BY <1>1, ZeroSM, StageFacts
      <3> QED BY <1>7, <1>19, <3>1
    <2>2. Pulled(r) = {}
      <3>1. \A i \in Toks(launch[r], r) : i % NumSMs \in SMs
        BY <1>1, LaunchIs, TokIs
      <3>2. \A i \in Toks(launch[r], r) : DS(r, i % NumSMs) \in 1 .. 7
        BY <2>1, <3>1
      <3>3. \A k_1 \in 1 .. 7 : ~ (k_1 > 10) /\ k_1 # 10
        OBVIOUS
      <3> QED BY <3>2, <3>3 DEF Pulled
    <2>3. Worked(r) = {}
      BY <2>1 DEF Worked
    <2>4. Pulled(r)' = {} /\ Worked(r)' = {}
      BY <1>16, <2>2, <2>3 DEF SameDone
    <2>5. PoolInv(r)' /\ BackInv(r)'
      BY <2>4 DEF PoolInv, BackInv
    <2>6. UNCHANGED <<launch, slots, send, recv, sums, index, pool, arrived, mask, hidden, combine>>
      BY <1>2 DEF workspace
    <2>7. ASSUME NEW q \in Ranks
          PROVE  DataInv(q)'
      <3>1. DataInv(q)
        BY Parts
      <3>2. SendsInv(q)' /\ HeardInv(q)'
        BY <1>16, <2>6, <3>1, KeepSends, KeepHears DEF DataInv
      <3>3. Cleared(q)' = Cleared(q)
        BY <1>16 DEF SameHears
      <3>4. CASE q # r
        <4>1. SameWorks(q)
          BY <1>16, <1>17, <3>4 DEF SameWorks
        <4> QED BY <2>6, <3>1, <3>2, <3>3, <4>1, KeepWorks, KeepBacks DEF DataInv
      <3>5. CASE q = r
        <4>1. ArrivedInv(q)' /\ MaskInv(q)' /\ DirtyInv(q)' /\ WorkInv(q)'
          BY <1>16, <2>6, <3>1, <3>3, KeepArrived, KeepMask, KeepDirty, KeepWork DEF DataInv, WorksInv, SameDone
        <4>2. ReduceInv(q)'
          BY <1>17, <2>6, <3>1, KeepReduce DEF DataInv, BacksInv
        <4> QED BY <2>5, <3>2, <3>5, <4>1, <4>2 DEF DataInv, WorksInv, BacksInv
      <3> QED BY <3>4, <3>5
    <2> QED BY <1>16, <2>7 DEF IInv
  <1> QED BY <1>18, <1>19

LEMMA NvlinkE ==
  ASSUME SchedulesFit, IInv, NEW r \in Ranks, NEW s \in SMs, NvlinkStep(E(r, s))
  PROVE  IInv'
  <1>1. PcInv /\ LaunchInv /\ RoundInv /\ TodoInv
    BY Parts
  <1>2. /\ (At(E(r, s), "enter") /\ Nvl!Enter(r)) \/ (At(E(r, s), "leave") /\ Nvl!Leave(r))
        /\ Go(E(r, s)) /\ UNCHANGED <<launch, counts, slots, workspace>>
    <2>1. E(r, s)[2] = r
      BY AgentsAre
    <2> QED BY <2>1 DEF NvlinkStep
  <1> DEFINE k == ES(r, s)
  <1>3. (k = 5 /\ Nvl!Enter(r)) \/ (k = 6 /\ Nvl!Leave(r))
    <2>1. k \in 1 .. 10
      BY <1>1, StageFacts
    <2>2. \A x : At(E(r, s), x) <=> k # 10 /\ ENames[k] = x
      BY <1>1, AtE
    <2> HIDE DEF k
    <2>3. k # 10 /\ ENames[k] = "enter" => k = 5
      BY <2>1 DEF ENames
    <2>4. k # 10 /\ ENames[k] = "leave" => k = 6
      BY <2>1 DEF ENames
    <2> QED BY <1>2, <2>2, <2>3, <2>4
  <1>4. k \in {5, 6}
    BY <1>3
  <1>5. s = 0 /\ DS(r, 0) \in 9 .. 11
    <2>1. s = 0
      BY <1>1, <1>4, StageFacts
    <2>2. DS(r, 0) \in 1 .. 16
      BY <1>1, <2>1, StageFacts
    <2>3. (DS(r, 0) <= 8 <=> k = 1) /\ (DS(r, 0) <= 11 <=> k <= 8)
      BY <1>1, <2>1, ZeroSM, StageFacts
    <2> QED BY <1>4, <2>1, <2>2, <2>3
  <1>6. OnlyE(r, 0, k + 1) /\ pc' \in [Agents -> Nat \ {0}] /\ todo' = todo
    <2>1. todo[E(r, s)] = 0
      BY <1>1, <1>4 DEF TodoInv
    <2>2. NextE(s, k) = k + 1
      BY <1>4 DEF NextE
    <2> QED BY <1>1, <1>2, <1>4, <1>5, <2>1, <2>2, GoE
  <1>7. ES(r, 0) = k /\ ES(r, 0)' = k + 1
    BY <1>5, <1>6, ZeroSM DEF OnlyE
  <1>8. \A q \in Ranks, t \in SMs : DS(q, t)' = DS(q, t) /\ (q # r \/ t # 0 => ES(q, t)' = ES(q, t))
    BY <1>6 DEF OnlyE
  <1> HIDE DEF k
  <1>9. PcInv'
    <2>1. k + 1 \in 1 .. 10
      BY <1>4
    <2> QED BY <1>1, <1>4, <1>6, <1>7, <2>1, ZeroSM, KeepsE
  <1>10. \A q \in Ranks : q # r => Begun(q)' = Begun(q) /\ Ended(q)' = Ended(q)
    BY <1>8, ZeroSM DEF Begun, Ended
  <1>11. DS(r, 0)' = DS(r, 0)
    BY <1>8, ZeroSM
  <1>12. RoundInv'
    <2>0. launch' = launch
      BY <1>2
    <2>1. CASE k = 5
      <3>1. Begun(r)' = Begun(r) + 1 /\ Ended(r)' = Ended(r)
        BY <1>5, <1>7, <1>11, <2>1 DEF Begun, Ended, One
      <3>2. Nvl!Enter(r)
        BY <1>3, <2>1
      <3> QED BY <1>1, <1>9, <1>10, <2>0, <3>1, <3>2, RoundEnter
    <2>2. CASE k = 6
      <3>1. Ended(r)' = Ended(r) + 1 /\ Begun(r)' = Begun(r)
        BY <1>5, <1>7, <1>11, <2>2 DEF Begun, Ended, One
      <3>2. Nvl!Leave(r)
        BY <1>3, <2>2
      <3> QED BY <1>1, <1>9, <1>10, <2>0, <3>1, <3>2, RoundLeave
    <2> QED BY <1>4, <2>1, <2>2
  <1>13. ASSUME NEW q \in Ranks, NEW t \in SMs
         PROVE  /\ SameD(q, t) /\ SameE(q, t)
                /\ DS(q, t)' # DS(q, t) => DS(q, t)' # 10
                /\ ES(q, t)' # ES(q, t) => ES(q, t)' # 3
    <2>1. CASE q # r \/ t # 0
      BY <1>8, <2>1 DEF SameD, SameE
    <2>2. CASE q = r /\ t = 0
      <3>1. todo[E(r, 0)] = 0
        BY <1>1, <1>4, <1>7, ZeroSM DEF TodoInv
      <3> QED BY <1>4, <1>7, <1>8, <2>2, <3>1 DEF SameD, SameE
    <2> QED BY <2>1, <2>2
  <1>14. \A q \in Ranks : DS(q, 0)' > 4 <=> DS(q, 0) > 4
    BY <1>8, ZeroSM
  <1>15. UNCHANGED <<launch, todo, counts, slots, workspace>>
    BY <1>2, <1>6
  <1>16. /\ Control' /\ CountsInv' /\ Shape'
         /\ \A q \in Ranks : SameSends(q) /\ SameHears(q) /\ SameDone(q)
         /\ (\A q \in Ranks : (Working(q)' => Working(q)) /\ (Reducing(q)' => Reducing(q))) => IInv'
    BY <1>9, <1>12, <1>13, <1>14, <1>15, Benign
  <1>17. \A q \in Ranks : /\ Working(q)' => Working(q)
                          /\ q # r \/ k # 6 => (Reducing(q)' => Reducing(q))
    BY <1>2, <1>4, <1>7, <1>8, ZeroSM DEF Working, Reducing
  <1>18. CASE k # 6
    BY <1>16, <1>17, <1>18
  <1>19. CASE k = 6
    <2>6. UNCHANGED <<launch, slots, send, recv, sums, index, pool, arrived, mask, hidden, combine>>
      BY <1>2 DEF workspace
    <2>1. Nvl!Leave(r) /\ ES(r, 0) = 6
      BY <1>3, <1>7, <1>19
    <2>2. ASSUME NEW q \in Ranks
          PROVE  launch[q] = launch[r] /\ ES(q, 0) > 5 /\ DS(q, 0) \in 9 .. 16
      <3>1. launch[q] = launch[r]
        BY <1>1, <1>5, Together
      <3>2. Begun(r) >= 2 /\ Begun(r) \in 0 .. 3 /\ Begun(q) \in 0 .. 3 /\ (Begun(q) >= 2 <=> ES(q, 0) > 5)
        BY <1>1, <2>1, RoundIs
      <3>3. entered[r] <= entered[q]
        BY <2>1 DEF Nvl!Leave
      <3>4. entered[r] = 3 * (launch[r] - 1) + Begun(r) /\ entered[q] = 3 * (launch[r] - 1) + Begun(q)
        BY <1>1, <3>1 DEF RoundInv
      <3>5. Begun(r) <= Begun(q)
        <4> DEFINE y == 3 * (launch[r] - 1)
        <4>1. y \in Int
          BY <1>1, LaunchIs
        <4> HIDE DEF y
        <4>2. y + Begun(r) <= y + Begun(q)
          BY <3>3, <3>4 DEF y
        <4> QED BY <3>2, <4>1, <4>2
      <3>6. ES(q, 0) > 5
        BY <3>2, <3>5
      <3>7. DS(q, 0) \in 1 .. 16 /\ (DS(q, 0) <= 8 <=> ES(q, 0) = 1)
        BY <1>1, ZeroSM, StageFacts
      <3> QED BY <3>1, <3>6, <3>7
    <2>3. \A q \in Ranks : launch[q] = launch[r] /\ Working(q) /\ \A t \in SMs : DS(q, t) >= 3 /\ ES(q, t) > 3
      <3> TAKE q \in Ranks
      <3>1. launch[q] = launch[r] /\ Working(q)
        BY <2>2 DEF Working
      <3>2. ASSUME NEW t \in SMs
            PROVE  DS(q, t) >= 3 /\ ES(q, t) > 3
        <4>1. /\ DS(q, t) \in 1 .. 16 /\ ES(q, t) \in 1 .. 10
              /\ (DS(q, t) <= 3 <=> DS(q, 0) <= 3) /\ (ES(q, t) <= 4 <=> ES(q, 0) <= 4)
          BY <1>1, ZeroSM, StageFacts
        <4>2. ES(q, 0) > 5 /\ DS(q, 0) \in 9 .. 16 /\ ES(q, 0) \in 1 .. 10
          BY <1>1, <2>2, ZeroSM, StageFacts
        <4> QED BY <4>1, <4>2
      <3> QED BY <3>1, <3>2
    <2>4. \A t \in SMs : \A x \in Routes(launch[r], r, t), n \in 0 .. L2BlockNs - 1 :
            x[3] >= 0 => Back(launch[r], r, x, n)
      BY <2>3, AllBack
    <2>5. ReduceInv(r)'
      BY <2>4, <2>6 DEF ReduceInv, Back
    <2>7. ASSUME NEW q \in Ranks
          PROVE  DataInv(q)'
      <3>1. DataInv(q)
        BY Parts
      <3>2. SendsInv(q)' /\ HeardInv(q)'
        BY <1>16, <2>6, <3>1, KeepSends, KeepHears DEF DataInv
      <3>3. Cleared(q)' = Cleared(q)
        BY <1>16 DEF SameHears
      <3>4. CASE q # r
        <4>1. SameWorks(q)
          BY <1>16, <1>17, <3>4 DEF SameWorks
        <4> QED BY <2>6, <3>1, <3>2, <3>3, <4>1, KeepWorks, KeepBacks DEF DataInv
      <3>5. CASE q = r
        <4>1. PoolInv(q)' /\ ArrivedInv(q)' /\ MaskInv(q)' /\ DirtyInv(q)' /\ WorkInv(q)'
          BY <1>16, <1>17, <2>6, <3>1, <3>3, KeepPool, KeepArrived, KeepMask, KeepDirty, KeepWork
             DEF DataInv, WorksInv, SameDone
        <4>2. BackInv(q)'
          BY <1>16, <1>17, <2>6, <3>1, KeepBack DEF DataInv, BacksInv, SameDone
        <4> QED BY <2>5, <3>2, <3>5, <4>1, <4>2 DEF DataInv, WorksInv, BacksInv
      <3> QED BY <3>4, <3>5
    <2> QED BY <1>16, <2>7 DEF IInv
  <1> QED BY <1>18, <1>19

(* Final counts are the counts of this launch, from every rank.             *)
LEMMA CountsAre ==
  ASSUME LaunchInv, NEW r \in Ranks, HeardInv(r), NEW e \in LocalExperts, sums[r][e].sms = NumSMs * NumRanks
  PROVE  /\ Heard(r, e) = Ranks /\ e \notin Cleared(r) /\ Epoch(r, e) = launch[r]
         /\ sums[r][e].n = Received(launch[r], r, e)
  <1>1. launch[r] \in Nths /\ launch[r] \in Nat
    BY LaunchIs
  <1> DEFINE H == Heard(r, e)
  <1>2. sums[r][e].sms = NumSMs * Cardinality(H) /\ sums[r][e].n = Cardinality(Tagged(H, Epoch(r, e), Glob(r, e)))
    <2>1. sums[r][e] = [sms |-> NumSMs * Cardinality(H), n |-> Cardinality(Tagged(H, Epoch(r, e), Glob(r, e)))]
      BY DEF HeardInv
    <2> QED BY <2>1
  <1>3. IsFiniteSet(Ranks) /\ Cardinality(Ranks) = NumRanks
    BY RanksAre
  <1>4. H \in SUBSET Ranks
    BY DEF Heard
  <1> HIDE DEF H
  <1>5. Cardinality(H) \in Nat /\ (Cardinality(H) = Cardinality(Ranks) => H = Ranks)
    BY <1>3, <1>4, SameSize
  <1>6. Cardinality(H) = NumRanks
    <2> DEFINE x == Cardinality(H)
    <2>1. x \in Nat /\ NumSMs * x = NumSMs * NumRanks
      BY <1>2, <1>5
    <2> HIDE DEF x
    <2>2. x = NumRanks
      BY <2>1, Sizes1
    <2> QED BY <2>2 DEF x
  <1>7. H = Ranks
    BY <1>3, <1>5, <1>6
  <1>8. launch[r] = Epoch(r, e)
    BY <1>7 DEF H, Heard
  <1>9. e \notin Cleared(r)
    BY <1>1, <1>8 DEF Epoch
  <1> QED BY <1>1, <1>2, <1>7, <1>8, <1>9, ReceivedIs DEF H

LEMMA FetchedIs ==
  ASSUME LaunchInv, NEW r \in Ranks, HeardInv(r), CountsFinal(r)
  PROVE  [e \in LocalExperts |-> sums[r][e].n] = Tokens(launch[r], r)
  <1>1. \A e \in LocalExperts : sums[r][e].n = Received(launch[r], r, e)
    BY CountsAre DEF CountsFinal
  <1> QED BY <1>1 DEF Tokens

(* The workspace is as it was.                                              *)
LEMMA WorkspaceIs ==
  ASSUME UNCHANGED workspace
  PROVE  UNCHANGED <<send, recv, sums, index, pool, arrived, mask, hidden, combine>>
  BY DEF workspace

LEMMA FetchIs ==
  ASSUME IInv, NEW a \in Agents, NEW r, r = a[2], r \in Ranks, Fetch(a)
  PROVE  /\ At(a, "fetch") /\ counts' = [counts EXCEPT ![a] = Tokens(launch[r], r)]
         /\ pc' = [pc EXCEPT ![a] = IF Turns(a, Plan[Tokens(launch[r], r)]) = 0 THEN pc[a] + 2 ELSE pc[a] + 1]
         /\ UNCHANGED <<barrier, launch, todo, slots, workspace>>
  <1> DEFINE n == [e \in LocalExperts |-> sums[a[2]][e].n]
  <1>1. CountsFinal(r)
    BY DEF Fetch
  <1>2. n = Tokens(launch[r], r)
    BY <1>1, Parts, FetchedIs DEF DataInv
  <1>3. /\ At(a, "fetch") /\ counts' = [counts EXCEPT ![a] = n]
        /\ pc' = [pc EXCEPT ![a] = IF Turns(a, Plan[n]) = 0 THEN pc[a] + 2 ELSE pc[a] + 1]
        /\ UNCHANGED <<barrier, launch, todo, slots, workspace>>
    BY DEF Fetch
  <1> HIDE DEF n
  <1> QED BY <1>2, <1>3

LEMMA FetchG ==
  ASSUME IInv, NEW r \in Ranks, NEW s \in SMs, Fetch(G(r, s))
  PROVE  IInv'
  <1> DEFINE a == G(r, s)
             n == Tokens(launch[r], r)
             k == IF Turns(a, Plan[n]) = 0 THEN pc[a] + 2 ELSE pc[a] + 1
  <1>1. PcInv /\ LaunchInv /\ RoundInv /\ TodoInv /\ CountsInv /\ Shape /\ \A q \in Ranks : DataInv(q)
    BY Parts
  <1>2. a \in Agents /\ a[2] = r /\ \A q \in Ranks, t \in SMs : /\ D(q, t) \in Agents /\ E(q, t) \in Agents
                                                                /\ D(q, t) # a /\ E(q, t) # a
    BY AgentsAre
  <1> HIDE DEF a
  <1>3. counts' = [counts EXCEPT ![a] = n] /\ pc' = [pc EXCEPT ![a] = k]
        /\ UNCHANGED <<barrier, launch, todo, slots, workspace>>
    <2>1. Fetch(a)
      BY DEF a
    <2> QED BY <1>2, <2>1, FetchIs
  <1>4. pc \in [Agents -> Nat \ {0}] /\ pc' \in [Agents -> Nat \ {0}]
    <2>1. pc \in [Agents -> Nat \ {0}]
      BY <1>1 DEF PcInv
    <2>2. k \in Nat \ {0}
      BY <1>2, <2>1
    <2> HIDE DEF k
    <2> QED BY <1>3, <2>1, <2>2
  <1> HIDE DEF k
  <1>5. \A q \in Ranks, t \in SMs : DS(q, t)' = DS(q, t) /\ ES(q, t)' = ES(q, t)
    BY <1>2, <1>3, <1>4 DEF DS, ES
  <1>6. PcInv'
    BY <1>1, <1>4, <1>5 DEF PcInv, StageInv
  <1>7. RoundInv'
    BY <1>1, <1>3, <1>5, <1>6, ZeroSM, KeepRounds
  <1>8. TodoInv' /\ LaunchInv'
    BY <1>1, <1>3, <1>5, <1>6, KeepTodo DEF LaunchInv
  <1>9. CountsInv'
    <2>1. \A q \in Ranks, t \in SMs : counts'[D(q, t)] = counts[D(q, t)] /\ counts'[E(q, t)] = counts[E(q, t)]
      BY <1>1, <1>2, <1>3 DEF CountsInv
    <2>2. counts' = [x \in Agents |-> counts'[x]]
      BY <1>1, <1>3 DEF CountsInv
    <2> QED BY <1>1, <1>3, <1>5, <2>1, <2>2 DEF CountsInv
  <1>10. StagesOK /\ StagesOK' /\ TodoOK /\ TodoOK'
    <2>1. StagesOK
      BY <1>1, StagesAre
    <2> QED BY <1>1, <1>3, <1>5, <2>1 DEF StagesOK, TodoOK, TodoInv
  <1>11. \A q \in Ranks : SameSends(q) /\ SameHears(q) /\ SameWorks(q)
    BY <1>1, <1>3, <1>5, <1>10, OthersSame
  <1>12. \A q \in Ranks : DataInv(q)'
    BY <1>1, <1>3, <1>11, KeepData
  <1>13. Shape'
    BY <1>1, <1>3, KeepShape
  <1> QED BY <1>6, <1>7, <1>8, <1>9, <1>12, <1>13 DEF IInv, Control

LEMMA FetchD ==
  ASSUME IInv, NEW r \in Ranks, NEW s \in SMs, Fetch(D(r, s))
  PROVE  IInv'
  <1> DEFINE a == D(r, s)
             l == launch[r]
             n == Tokens(l, r)
             none == Turns(a, Plan[n]) = 0
             k == IF none THEN 11 ELSE 10
  <1>1. PcInv /\ LaunchInv /\ RoundInv /\ TodoInv /\ CountsInv /\ Shape /\ \A q \in Ranks : DataInv(q)
    BY Parts
  <1>2. a \in Agents /\ a[2] = r /\ l \in Nths
    BY <1>1, AgentsAre, LaunchIs
  <1>3. /\ At(a, "fetch") /\ counts' = [counts EXCEPT ![a] = n]
        /\ pc' = [pc EXCEPT ![a] = IF none THEN pc[a] + 2 ELSE pc[a] + 1]
        /\ UNCHANGED <<barrier, launch, todo, slots, workspace>>
    BY <1>2, FetchIs
  <1>4. DS(r, s) = 9
    <2>1. DS(r, s) # 16 /\ DNames[DS(r, s)] = "fetch" /\ DS(r, s) \in 1 .. 16
      BY <1>1, <1>3, AtD, StageFacts
    <2> QED BY <2>1 DEF DNames
  <1>5. Turns(a, Plan[n]) \in Nat /\ \A j \in Nat : j < Turns(a, Plan[n]) <=> s + NumSMs * j \in Toks(l, r)
    BY <1>2, TurnsAre
  <1>6. todo[a] = 0
    BY <1>1, <1>4 DEF TodoInv
  <1> HIDE DEF none, n
  <1>7. OnlyD(r, s, k) /\ pc' \in [Agents -> Nat \ {0}]
    <2>1. pc[a] \in Nat \ {0} /\ DStage(s, pc[a] + 1) = 10 /\ DStage(s, pc[a] + 2) = 11
      BY <1>1, <1>4, PcIs, StepD DEF NextD
    <2>2. CASE none
      <3>1. pc' = [pc EXCEPT ![a] = pc[a] + 2] /\ pc[a] + 2 \in Nat \ {0}
        BY <1>3, <2>1, <2>2
      <3> QED BY <1>1, <2>1, <2>2, <3>1, MoveD
    <2>3. CASE ~ none
      <3>1. pc' = [pc EXCEPT ![a] = pc[a] + 1] /\ pc[a] + 1 \in Nat \ {0}
        BY <1>3, <2>1, <2>3
      <3> QED BY <1>1, <2>1, <2>3, <3>1, MoveD
    <2> QED BY <2>2, <2>3
  <1>8. k \in {10, 11}
    OBVIOUS
  <1> HIDE DEF a
  <1>9. PcInv'
    BY <1>1, <1>4, <1>7, <1>8, KeepsD
  <1>10. \A q \in Ranks, t \in SMs : ES(q, t)' = ES(q, t) /\ DS(q, t)' = (IF q = r /\ t = s THEN k ELSE DS(q, t))
    BY <1>7 DEF OnlyD
  <1>11. RoundInv'
    BY <1>1, <1>3, <1>4, <1>8, <1>9, <1>10, ZeroSM, KeepRounds
  <1>12. none <=> s + NumSMs * 0 \notin Toks(l, r)
    BY <1>5 DEF none
  <1>13. TodoInv' /\ LaunchInv'
    <2>1. \A q \in Ranks, t \in SMs : DS(q, t)' = 10 => t + NumSMs * todo[D(q, t)] \in Toks(launch[q], q)
      BY <1>1, <1>6, <1>10, <1>12 DEF TodoInv, a
    <2> QED BY <1>1, <1>3, <1>4, <1>6, <1>8, <1>10, <2>1 DEF TodoInv, LaunchInv, a
  <1>14. CountsInv'
    <2>0. counts = [x \in Agents |-> counts[x]] /\ counts' = [counts EXCEPT ![a] = n]
      BY <1>1, <1>3 DEF CountsInv
    <2>1. ASSUME NEW q \in Ranks, NEW t \in SMs
          PROVE  /\ counts'[E(q, t)] = counts[E(q, t)]
                 /\ counts'[D(q, t)] = (IF q = r /\ t = s THEN n ELSE counts[D(q, t)])
      <3>1. D(q, t) \in Agents /\ E(q, t) \in Agents /\ E(q, t) # D(r, s) /\ (D(q, t) = D(r, s) => q = r /\ t = s)
        BY AgentsAre
      <3> QED BY <2>0, <3>1 DEF a
    <2>2. counts' = [x \in Agents |-> counts'[x]]
      BY <1>1, <1>3 DEF CountsInv
    <2> QED BY <1>1, <1>3, <1>10, <2>1, <2>2 DEF CountsInv, n
  <1>15. StagesOK /\ StagesOK' /\ TodoOK /\ TodoOK'
    <2>1. StagesOK
      BY <1>1, StagesAre
    <2> QED BY <1>1, <1>3, <1>8, <1>10, <2>1 DEF StagesOK, TodoOK, TodoInv
  <1>16. ASSUME NEW q \in Ranks
         PROVE  SameSends(q) /\ SameHears(q) /\ Worked(q)' = Worked(q) /\ (NoClean(q)' => NoClean(q))
                /\ (Working(q)' => Working(q)) /\ (Reducing(q)' => Reducing(q))
    <2>1. SameSends(q)
      BY <1>4, <1>8, <1>10, ZeroSM, ClaimsSame
    <2>2. SameHears(q)
      BY <1>3, <1>4, <1>8, <1>10, <1>15, ZeroSM, ToldSame, ClearedSame DEF SameHears, Still
    <2>3. Worked(q)' = Worked(q)
      BY <1>3, <1>10, <1>15, WorkedSame DEF Still
    <2>4. (NoClean(q)' => NoClean(q)) /\ (Working(q)' => Working(q)) /\ (Reducing(q)' => Reducing(q))
      BY <1>3, <1>4, <1>8, <1>10, ZeroSM DEF NoClean, Working, Reducing
    <2> QED BY <2>1, <2>2, <2>3, <2>4
  <1>17. ASSUME NEW q \in Ranks
         PROVE  Pulled(q)' = Pulled(q)
    <2>1. CASE q # r
      BY <1>1, <1>3, <1>10, <1>15, <2>1, PulledSame DEF Still
    <2>2. CASE q = r
      <3>1. ASSUME NEW i \in Toks(l, r)
            PROVE  (i \in Pulled(r))' <=> i \in Pulled(r)
        <4> DEFINE t == i % NumSMs
                   j == i \div NumSMs
        <4>1. t \in SMs /\ j \in Nat /\ i = t + NumSMs * j
          BY <1>2, TokIs
        <4>2. /\ i \in Pulled(r) <=> (DS(r, t) > 10 \/ (DS(r, t) = 10 /\ j < todo[D(r, t)]))
              /\ (i \in Pulled(r))' <=> (DS(r, t)' > 10 \/ (DS(r, t)' = 10 /\ j < todo[D(r, t)]))
          BY <1>3 DEF Pulled
        <4> HIDE DEF t, j
        <4>3. CASE t # s
          BY <1>10, <4>1, <4>2, <4>3
        <4>4. CASE t = s
          <5>1. ~ none
            <6>1. s + NumSMs * j \in Toks(l, r)
              BY <4>1, <4>4
            <6>2. j < Turns(a, Plan[n])
              BY <1>5, <4>1, <6>1
            <6> QED BY <1>5, <4>1, <6>2 DEF none
          <5>2. DS(r, t)' = 10 /\ DS(r, t) = 9
            BY <1>4, <1>10, <4>1, <4>4, <5>1
          <5>3. todo[D(r, t)] = 0 /\ ~ (j < 0)
            BY <1>6, <4>1, <4>4 DEF a
          <5> QED BY <4>2, <5>2, <5>3
        <4> QED BY <4>3, <4>4
      <3>2. (Pulled(r) \subseteq Toks(l, r)) /\ (Pulled(r)' \subseteq Toks(l, r))
        BY <1>3 DEF Pulled
      <3> QED BY <2>2, <3>1, <3>2
    <2> QED BY <2>1, <2>2
  <1>18. \A q \in Ranks : DataInv(q)'
    <2>1. \A q \in Ranks : SameSends(q) /\ SameHears(q) /\ SameWorks(q)
      BY <1>16, <1>17 DEF SameWorks, SameDone
    <2> QED BY <1>1, <1>3, <2>1, KeepData
  <1>19. Shape'
    BY <1>1, <1>3, KeepShape
  <1> QED BY <1>9, <1>11, <1>13, <1>14, <1>18, <1>19 DEF IInv, Control

LEMMA FetchE ==
  ASSUME SchedulesFit, IInv, NEW r \in Ranks, NEW s \in SMs, Fetch(E(r, s))
  PROVE  IInv'
  <1> DEFINE a == E(r, s)
             l == launch[r]
             n == Tokens(l, r)
             len == Len(Walk(l, r, s))
             k == IF len = 0 THEN 4 ELSE 3
  <1>1. PcInv /\ LaunchInv /\ RoundInv /\ TodoInv /\ CountsInv /\ Shape /\ \A q \in Ranks : DataInv(q)
    BY Parts
  <1>2. a \in Agents /\ a[2] = r /\ l \in Nths
    BY <1>1, AgentsAre, LaunchIs
  <1>3. len \in Nat
    BY <1>2, WalkIs
  <1>4. /\ At(a, "fetch") /\ counts' = [counts EXCEPT ![a] = n]
        /\ pc' = [pc EXCEPT ![a] = IF len = 0 THEN pc[a] + 2 ELSE pc[a] + 1]
        /\ UNCHANGED <<barrier, launch, todo, slots, workspace>>
    <2>1. Turns(a, Plan[n]) = len
      BY <1>2, TurnsAre
    <2> QED BY <1>2, <2>1, FetchIs
  <1>5. ES(r, s) = 2
    <2>1. ES(r, s) # 10 /\ ENames[ES(r, s)] = "fetch" /\ ES(r, s) \in 1 .. 10
      BY <1>1, <1>4, AtE, StageFacts
    <2> QED BY <2>1 DEF ENames
  <1>6. todo[a] = 0
    BY <1>1, <1>5 DEF TodoInv
  <1> HIDE DEF len, n
  <1>7. OnlyE(r, s, k) /\ pc' \in [Agents -> Nat \ {0}]
    <2>1. pc[a] \in Nat \ {0} /\ EStage(s, pc[a] + 1) = 3 /\ EStage(s, pc[a] + 2) = 4
      BY <1>1, <1>5, PcIs, StepE DEF NextE
    <2>2. CASE len = 0
      <3>1. pc' = [pc EXCEPT ![a] = pc[a] + 2] /\ pc[a] + 2 \in Nat \ {0}
        BY <1>4, <2>1, <2>2
      <3> QED BY <1>1, <2>1, <2>2, <3>1, MoveE
    <2>3. CASE len # 0
      <3>1. pc' = [pc EXCEPT ![a] = pc[a] + 1] /\ pc[a] + 1 \in Nat \ {0}
        BY <1>4, <2>1, <2>3
      <3> QED BY <1>1, <2>1, <2>3, <3>1, MoveE
    <2> QED BY <2>2, <2>3
  <1>8. k \in {3, 4}
    OBVIOUS
  <1> HIDE DEF a
  <1>9. PcInv'
    BY <1>1, <1>5, <1>7, <1>8, KeepsE
  <1>10. \A q \in Ranks, t \in SMs : DS(q, t)' = DS(q, t) /\ ES(q, t)' = (IF q = r /\ t = s THEN k ELSE ES(q, t))
    BY <1>7 DEF OnlyE
  <1>11. RoundInv'
    BY <1>1, <1>4, <1>5, <1>8, <1>9, <1>10, ZeroSM, KeepRounds
  <1>12. TodoInv' /\ LaunchInv'
    <2>1. \A q \in Ranks, t \in SMs : ES(q, t)' = 3 => todo[E(q, t)] < Len(Walk(launch[q], q, t))
      BY <1>1, <1>3, <1>6, <1>10 DEF TodoInv, a, len
    <2> QED BY <1>1, <1>4, <1>5, <1>6, <1>8, <1>10, <2>1 DEF TodoInv, LaunchInv, a
  <1>13. CountsInv'
    <2>0. counts = [x \in Agents |-> counts[x]] /\ counts' = [counts EXCEPT ![a] = n]
      BY <1>1, <1>4 DEF CountsInv
    <2>1. ASSUME NEW q \in Ranks, NEW t \in SMs
          PROVE  /\ counts'[D(q, t)] = counts[D(q, t)]
                 /\ counts'[E(q, t)] = (IF q = r /\ t = s THEN n ELSE counts[E(q, t)])
      <3>1. D(q, t) \in Agents /\ E(q, t) \in Agents /\ D(q, t) # E(r, s) /\ (E(q, t) = E(r, s) => q = r /\ t = s)
        BY AgentsAre
      <3> QED BY <2>0, <3>1 DEF a
    <2>2. counts' = [x \in Agents |-> counts'[x]]
      BY <1>1, <1>4 DEF CountsInv
    <2> QED BY <1>1, <1>4, <1>10, <2>1, <2>2 DEF CountsInv, n
  <1>14. StagesOK /\ StagesOK' /\ TodoOK /\ TodoOK'
    <2>1. StagesOK
      BY <1>1, StagesAre
    <2> QED BY <1>1, <1>4, <1>8, <1>10, <2>1 DEF StagesOK, TodoOK, TodoInv
  <1>15. ASSUME NEW q \in Ranks
         PROVE  SameSends(q) /\ SameHears(q) /\ Pulled(q)' = Pulled(q) /\ (NoClean(q)' => NoClean(q))
                /\ (Working(q)' => Working(q)) /\ (Reducing(q)' => Reducing(q))
    <2>1. SameSends(q)
      BY <1>10, ZeroSM, ClaimsSame
    <2>2. SameHears(q)
      BY <1>4, <1>10, <1>14, ZeroSM, ToldSame, ClearedSame DEF SameHears, Still
    <2>3. Pulled(q)' = Pulled(q)
      BY <1>1, <1>4, <1>10, <1>14, PulledSame DEF Still
    <2>4. (NoClean(q)' => NoClean(q)) /\ (Working(q)' => Working(q)) /\ (Reducing(q)' => Reducing(q))
      BY <1>4, <1>5, <1>8, <1>10, ZeroSM DEF NoClean, Working, Reducing
    <2> QED BY <2>1, <2>2, <2>3, <2>4
  <1>16. ASSUME NEW q \in Ranks
         PROVE  Worked(q)' = Worked(q)
    <2>1. CASE q # r
      BY <1>4, <1>10, <1>14, <2>1, WorkedSame DEF Still
    <2>2. CASE q = r
      <3>1. ASSUME NEW t \in SMs, NEW j \in Nat \ {0}, j <= Len(Walk(l, r, t))
            PROVE  (ES(r, t)' > 3 \/ (ES(r, t)' = 3 /\ j <= todo[E(r, t)]))
                    <=> (ES(r, t) > 3 \/ (ES(r, t) = 3 /\ j <= todo[E(r, t)]))
        <4>1. CASE t # s
          BY <1>10, <4>1
        <4>2. CASE t = s
          <5>1. len # 0
            BY <1>3, <3>1, <4>2 DEF len
          <5>2. ES(r, t)' = 3 /\ ES(r, t) = 2 /\ todo[E(r, t)] = 0
            BY <1>5, <1>6, <1>10, <4>2, <5>1 DEF a
          <5> QED BY <5>2
        <4> QED BY <4>1, <4>2
      <3> QED BY <1>4, <2>2, <3>1 DEF Worked
    <2> QED BY <2>1, <2>2
  <1>17. \A q \in Ranks : DataInv(q)'
    <2>1. \A q \in Ranks : SameSends(q) /\ SameHears(q) /\ SameWorks(q)
      BY <1>15, <1>16 DEF SameWorks, SameDone
    <2> QED BY <1>1, <1>4, <2>1, KeepData
  <1>18. Shape'
    BY <1>1, <1>4, KeepShape
  <1> QED BY <1>9, <1>11, <1>12, <1>13, <1>17, <1>18 DEF IInv, Control

-----------------------------------------------------------------------------
(* The steps of the dispatch warps.                                         *)

SetD(r, s, n) == todo' = [todo EXCEPT ![D(r, s)] = n]
SetE(r, s, n) == todo' = [todo EXCEPT ![E(r, s)] = n]

LEMMA TodoMove ==
  ASSUME todo \in [Agents -> Nat], NEW r \in Ranks, NEW s \in SMs, NEW n \in Nat, SetD(r, s, n)
  PROVE  /\ todo' \in [Agents -> Nat]
         /\ \A q \in Ranks, t \in SMs : /\ todo'[E(q, t)] = todo[E(q, t)]
                                        /\ todo'[D(q, t)] = (IF q = r /\ t = s THEN n ELSE todo[D(q, t)])
  <1>1. todo' \in [Agents -> Nat]
    BY DEF SetD
  <1>2. ASSUME NEW q \in Ranks, NEW t \in SMs
        PROVE  /\ todo'[E(q, t)] = todo[E(q, t)]
               /\ todo'[D(q, t)] = (IF q = r /\ t = s THEN n ELSE todo[D(q, t)])
    <2>1. D(q, t) \in Agents /\ E(q, t) \in Agents /\ E(q, t) # D(r, s) /\ (D(q, t) = D(r, s) => q = r /\ t = s)
      BY AgentsAre
    <2> QED BY <2>1 DEF SetD
  <1> QED BY <1>1, <1>2

LEMMA TodoMoveE ==
  ASSUME todo \in [Agents -> Nat], NEW r \in Ranks, NEW s \in SMs, NEW n \in Nat, SetE(r, s, n)
  PROVE  /\ todo' \in [Agents -> Nat]
         /\ \A q \in Ranks, t \in SMs : /\ todo'[D(q, t)] = todo[D(q, t)]
                                        /\ todo'[E(q, t)] = (IF q = r /\ t = s THEN n ELSE todo[E(q, t)])
  <1>1. todo' \in [Agents -> Nat]
    BY DEF SetE
  <1>2. ASSUME NEW q \in Ranks, NEW t \in SMs
        PROVE  /\ todo'[D(q, t)] = todo[D(q, t)]
               /\ todo'[E(q, t)] = (IF q = r /\ t = s THEN n ELSE todo[E(q, t)])
    <2>1. D(q, t) \in Agents /\ E(q, t) \in Agents /\ D(q, t) # E(r, s) /\ (E(q, t) = E(r, s) => q = r /\ t = s)
      BY AgentsAre
    <2> QED BY <2>1 DEF SetE
  <1> QED BY <1>1, <1>2

LEMMA ClaimedAre ==
  ASSUME NEW r \in Ranks
  PROVE  Claimed(r) \in SUBSET SMs /\ IsFiniteSet(Claimed(r)) /\ IsFiniteSet(SMs) /\ Cardinality(SMs) = NumSMs
  <1>1. IsFiniteSet(SMs) /\ Cardinality(SMs) = NumSMs
    BY Sizes1, FS_Interval DEF SMs
  <1>2. Claimed(r) \in SUBSET SMs
    BY DEF Claimed
  <1> QED BY <1>1, <1>2, FS_Subset

LEMMA SlotAdd ==
  ASSUME NEW r \in Ranks, NEW s \in SMs, LaunchInv, SendInv(r), SlotInv(r), Sending(r), s \notin Claimed(r),
         Claimed(r)' = Claimed(r) \cup {s}, launch' = launch,
         slots'[r] = [slots[r] EXCEPT ![s] = [e \in GlobalExperts |-> send[r][e].n]]
  PROVE  SlotInv(r)'
  <1> DEFINE C == Claimed(r)
             l == launch[r]
  <1>1. C \in SUBSET SMs /\ l \in Nths
    BY ClaimedAre, LaunchIs
  <1>2. slots[r] = [t \in SMs |-> slots[r][t]]
    BY DEF SlotInv
  <1>3. \A t \in SMs : slots'[r][t] = IF t = s THEN [e \in GlobalExperts |-> send[r][e].n] ELSE slots[r][t]
    BY <1>2
  <1>4. slots'[r] = [t \in SMs |-> slots'[r][t]]
    BY <1>2
  <1>5. ASSUME NEW e \in GlobalExperts
        PROVE  /\ Cardinality(Counted(r, e)) \in Nat /\ Cardinality(RoutesTo(l, r, s, e)) \in Nat
               /\ Cardinality(Counted(r, e)') = Cardinality(Counted(r, e)) + Cardinality(RoutesTo(l, r, s, e))
               /\ slots'[r][s][e] = Cardinality(Counted(r, e))
               /\ Upto(r, s, e)' = Cardinality(Counted(r, e)')
               /\ \A t \in C : t # s /\ Upto(r, t, e)' = Upto(r, t, e) /\ Interval(r, t, e)' = Interval(r, t, e)
    <2>1. Counted(r, e) = Of(C, l, r, e) /\ Counted(r, e)' = Of(C \cup {s}, l, r, e)
      BY DEF Counted
    <2>2. Cardinality(RoutesTo(l, r, s, e)) \in Nat
      BY <1>1, NthIs
    <2>3. Cardinality(Counted(r, e)) \in Nat
          /\ Cardinality(Counted(r, e)') = Cardinality(Counted(r, e)) + Cardinality(RoutesTo(l, r, s, e))
      <3>1. s \in SMs \ C
        OBVIOUS
      <3> HIDE DEF C, l
      <3> QED BY <1>1, <2>1, <3>1, OfAdd
    <2>4. slots'[r][s][e] = Cardinality(Counted(r, e))
      <3>1. send[r][e] = [sms |-> Cardinality(Claimed(r)), n |-> Cardinality(Counted(r, e))]
        BY DEF SendInv
      <3>2. send[r][e].n = Cardinality(Counted(r, e))
        BY <3>1
      <3>3. slots'[r][s] = [x \in GlobalExperts |-> send[r][x].n]
        BY <1>3
      <3> QED BY <3>2, <3>3
    <2>5. Upto(r, s, e)' = slots'[r][s][e] + Cardinality(RoutesTo(l, r, s, e))
      BY DEF Upto
    <2>6. ASSUME NEW t \in C
          PROVE  t # s /\ Upto(r, t, e)' = Upto(r, t, e) /\ Interval(r, t, e)' = Interval(r, t, e)
      <3>1. t # s /\ slots'[r][t] = slots[r][t]
        BY <1>1, <1>3
      <3> QED BY <3>1, SameInterval
    <2> QED BY <2>2, <2>3, <2>4, <2>5, <2>6
  <1>6. ASSUME NEW e \in GlobalExperts, NEW t \in C
        PROVE  /\ slots'[r][t][e] = slots[r][t][e] /\ slots[r][t][e] \in Nat /\ Upto(r, t, e) <= Cardinality(Counted(r, e))
               /\ Upto(r, t, e) \in Nat /\ t \in SMs
               /\ \A u \in C : u # t => Interval(r, t, e) \cap Interval(r, u, e) = {}
    <2>1. t \in SMs /\ t # s
      BY <1>1
    <2>2. Cardinality(RoutesTo(l, r, t, e)) \in Nat
      BY <1>1, <2>1, NthIs
    <2>3. /\ slots[r][t][e] \in Nat /\ Upto(r, t, e) <= Cardinality(Counted(r, e))
          /\ \A u \in C : u # t => Interval(r, t, e) \cap Interval(r, u, e) = {}
      BY DEF SlotInv
    <2>4. Upto(r, t, e) \in Nat
      BY <2>2, <2>3 DEF Upto
    <2>5. slots'[r][t] = slots[r][t]
      BY <1>3, <2>1
    <2> QED BY <2>1, <2>3, <2>4, <2>5
  <1> DEFINE m(e) == Cardinality(Counted(r, e))
             w(e) == Cardinality(RoutesTo(l, r, s, e))
  <1>7. ASSUME NEW e \in GlobalExperts
        PROVE  /\ Interval(r, s, e)' = m(e) .. m(e) + w(e) - 1
               /\ \A t \in C : Interval(r, t, e)' \cap Interval(r, s, e)' = {}
    <2>1. Interval(r, s, e)' = m(e) .. m(e) + w(e) - 1
      BY <1>5 DEF Interval
    <2>2. \A t \in C : Interval(r, t, e)' = slots[r][t][e] .. Upto(r, t, e) - 1
      BY <1>5 DEF Interval
    <2> HIDE DEF m, w
    <2>3. \A t \in C : slots[r][t][e] \in Nat /\ Upto(r, t, e) \in Nat /\ Upto(r, t, e) <= m(e)
      BY <1>6 DEF m
    <2>4. m(e) \in Nat /\ w(e) \in Nat
      BY <1>5 DEF m, w
    <2> QED BY <2>1, <2>2, <2>3, <2>4
  <1>8. ASSUME NEW t \in C \cup {s}, NEW e \in GlobalExperts
        PROVE  /\ slots'[r][t][e] \in Nat
               /\ Upto(r, t, e)' <= Cardinality(Counted(r, e)')
               /\ \A u \in C \cup {s} : u # t => Interval(r, t, e)' \cap Interval(r, u, e)' = {}
    <2>1. CASE t = s
      BY <1>5, <1>7, <2>1
    <2>2. CASE t # s
      <3>1. t \in C
        BY <2>2
      <3>2. slots'[r][t][e] \in Nat /\ Upto(r, t, e)' <= Cardinality(Counted(r, e)')
        BY <1>5, <1>6, <3>1
      <3>3. ASSUME NEW u \in C \cup {s}, u # t
            PROVE  Interval(r, t, e)' \cap Interval(r, u, e)' = {}
        <4>1. CASE u = s
          BY <1>7, <3>1, <4>1
        <4>2. CASE u \in C
          BY <1>5, <1>6, <3>1, <3>3, <4>2
        <4> QED BY <4>1, <4>2
      <3> QED BY <3>2, <3>3
    <2> QED BY <2>1, <2>2
  <1>9. ASSUME NEW e \in GlobalExperts, NEW k \in 0 .. Cardinality(Counted(r, e)') - 1
        PROVE  \E t \in C \cup {s} : k \in Interval(r, t, e)'
    <2>1. m(e) \in Nat /\ w(e) \in Nat /\ Cardinality(Counted(r, e)') = m(e) + w(e)
      BY <1>5
    <2>2. CASE k < m(e)
      <3>1. PICK t \in C : k \in Interval(r, t, e)
        <4>1. k \in 0 .. Cardinality(Counted(r, e)) - 1
          BY <2>1, <2>2
        <4> QED BY <4>1 DEF SlotInv
      <3> QED BY <1>5, <3>1
    <2>3. CASE k >= m(e)
      <3> HIDE DEF m, w
      <3>1. k \in m(e) .. m(e) + w(e) - 1
        BY <2>1, <2>3
      <3> QED BY <1>7, <3>1
    <2> QED BY <2>1, <2>2, <2>3
  <1> QED BY <1>4, <1>8, <1>9 DEF SlotInv

LEMMA ClaimStep ==
  ASSUME IInv, NEW r \in Ranks, NEW s \in SMs, Claim(r, s)
  PROVE  IInv'
  <1> DEFINE l == launch[r]
  <1>1. PcInv /\ LaunchInv /\ RoundInv /\ TodoInv /\ CountsInv /\ Shape /\ \A q \in Ranks : DataInv(q)
    BY Parts
  <1>2. /\ At(D(r, s), "claim") /\ Go(D(r, s))
        /\ slots' = [slots EXCEPT ![r][s] = [e \in GlobalExperts |-> send[r][e].n]]
        /\ send' = [send EXCEPT ![r] = [e \in GlobalExperts |->
             [sms |-> @[e].sms + 1, n |-> @[e].n + Cardinality(RoutesTo(launch[r], r, s, e))]]]
        /\ UNCHANGED <<barrier, launch, counts, recv, sums, index, pool, arrived, mask, hidden, combine>>
    BY DEF Claim, D
  <1>3. DS(r, s) = 1
    <2>1. DS(r, s) # 16 /\ DNames[DS(r, s)] = "claim" /\ DS(r, s) \in 1 .. 16
      BY <1>1, <1>2, AtD, StageFacts
    <2> QED BY <2>1 DEF DNames
  <1>4. todo[D(r, s)] = 0
    BY <1>1, <1>3 DEF TodoInv
  <1>5. OnlyD(r, s, 2) /\ pc' \in [Agents -> Nat \ {0}] /\ todo' = todo
    <2>1. NextD(s, 1) = 2
      BY DEF NextD
    <2> QED BY <1>1, <1>2, <1>3, <1>4, <2>1, GoD
  <1>6. PcInv'
    BY <1>1, <1>3, <1>5, KeepsD
  <1>7. \A q \in Ranks, t \in SMs : ES(q, t)' = ES(q, t) /\ DS(q, t)' = (IF q = r /\ t = s THEN 2 ELSE DS(q, t))
    BY <1>5 DEF OnlyD
  <1>8. RoundInv'
    BY <1>1, <1>2, <1>3, <1>6, <1>7, ZeroSM, KeepRounds
  <1>9. TodoInv' /\ LaunchInv'
    BY <1>1, <1>2, <1>4, <1>5, <1>6, <1>7, KeepTodo DEF LaunchInv
  <1>10. CountsInv'
    BY <1>1, <1>2, <1>3, <1>7, KeepCounts
  <1>11. StagesOK /\ StagesOK' /\ TodoOK /\ TodoOK'
    <2>1. StagesOK
      BY <1>1, StagesAre
    <2> QED BY <1>1, <1>5, <1>7, <2>1 DEF StagesOK, TodoOK, TodoInv
  <1>12. ASSUME NEW q \in Ranks
         PROVE  SameHears(q) /\ SameWorks(q) /\ Indexed(q)' = Indexed(q) /\ (Sending(q)' <=> Sending(q))
                /\ (q # r => Claimed(q)' = Claimed(q))
    <2>1. SameHears(q)
      BY <1>3, <1>5, <1>7, <1>11, ZeroSM, ToldSame, ClearedSame DEF SameHears, Still
    <2>2. Worked(q)' = Worked(q)
      BY <1>2, <1>5, <1>7, <1>11, WorkedSame DEF Still
    <2>3. Pulled(q)' = Pulled(q)
      BY <1>1, <1>2, <1>3, <1>5, <1>7, <1>11, PulledSame DEF Still
    <2>4. (NoClean(q)' => NoClean(q)) /\ (Working(q)' => Working(q)) /\ (Reducing(q)' => Reducing(q))
      BY <1>2, <1>3, <1>7, ZeroSM DEF NoClean, Working, Reducing
    <2>5. Indexed(q)' = Indexed(q) /\ (Sending(q)' <=> Sending(q)) /\ (q # r => Claimed(q)' = Claimed(q))
      BY <1>3, <1>7, ZeroSM DEF Indexed, Sending, Claimed
    <2> QED BY <2>1, <2>2, <2>3, <2>4, <2>5 DEF SameWorks, SameDone
  <1>13. s \notin Claimed(r) /\ Claimed(r)' = Claimed(r) \cup {s} /\ Sending(r) /\ s \notin Indexed(r)
    <2>1. Sending(r)
      <3>1. DS(r, 0) <= 3 /\ DS(r, 0) \in 1 .. 16
        BY <1>1, <1>3, ZeroSM, StageFacts
      <3> QED BY <3>1 DEF Sending
    <2> QED BY <1>3, <1>7, <2>1 DEF Claimed, Indexed
  <1>14. /\ \A q \in Ranks : q # r => slots'[q] = slots[q] /\ send'[q] = send[q]
         /\ slots'[r] = [slots[r] EXCEPT ![s] = [e \in GlobalExperts |-> send[r][e].n]]
         /\ send'[r] = [e \in GlobalExperts |->
             [sms |-> send[r][e].sms + 1, n |-> send[r][e].n + Cardinality(RoutesTo(l, r, s, e))]]
         /\ slots' = [q \in Ranks |-> slots'[q]] /\ send' = [q \in Ranks |-> send'[q]]
    <2>1. slots = [q \in Ranks |-> slots[q]] /\ send = [q \in Ranks |-> send[q]]
      BY <1>1 DEF Shape
    <2> QED BY <1>2, <2>1
  <1>15. SendInv(r)'
    <2>1. send'[r] = [e \in GlobalExperts |-> send'[r][e]]
      BY <1>14
    <2>2. ASSUME NEW e \in GlobalExperts
          PROVE  send'[r][e] = [sms |-> Cardinality(Claimed(r)'), n |-> Cardinality(Counted(r, e)')]
      <3>1. send[r][e] = [sms |-> Cardinality(Claimed(r)), n |-> Cardinality(Counted(r, e))]
        BY <1>1, <1>13 DEF DataInv, SendsInv, SendInv
      <3>2. Cardinality(Claimed(r)') = Cardinality(Claimed(r)) + 1
        BY <1>13, ClaimedAre, OneMore
      <3>3. Cardinality(Counted(r, e)') = Cardinality(Counted(r, e)) + Cardinality(RoutesTo(l, r, s, e))
        <4>1. Counted(r, e) = Of(Claimed(r), l, r, e) /\ Counted(r, e)' = Of(Claimed(r) \cup {s}, l, r, e)
          BY <1>2, <1>13 DEF Counted
        <4>2. Claimed(r) \in SUBSET SMs /\ s \in SMs \ Claimed(r) /\ l \in Nths
          BY <1>1, <1>13, ClaimedAre, LaunchIs
        <4> QED BY <4>1, <4>2, OfAdd
      <3>4. send'[r][e] = [sms |-> send[r][e].sms + 1, n |-> send[r][e].n + Cardinality(RoutesTo(l, r, s, e))]
        BY <1>14
      <3> QED BY <3>1, <3>2, <3>3, <3>4
    <2>3. Sending(r)'
      BY <1>12, <1>13
    <2> QED BY <2>1, <2>2, <2>3 DEF SendInv
  <1>16. SlotInv(r)'
    <2>1. SendInv(r) /\ SlotInv(r)
      BY <1>1 DEF DataInv, SendsInv
    <2> QED BY <1>1, <1>2, <1>13, <1>14, <2>1, SlotAdd
  <1>17. IndexInv(r)'
    <2>1. IndexInv(r) /\ slots[r] = [t \in SMs |-> slots[r][t]]
      BY <1>1 DEF DataInv, SendsInv, SlotInv
    <2>2. \A t \in Indexed(r) : slots'[r][t] = slots[r][t]
      BY <1>13, <1>14, <2>1 DEF Indexed
    <2> QED BY <1>2, <1>12, <2>1, <2>2, KeepIndex
  <1>18. ASSUME NEW q \in Ranks
         PROVE  DataInv(q)'
    <2>1. SendsInv(q)'
      <3>1. CASE q = r
        BY <1>15, <1>16, <1>17, <3>1 DEF SendsInv
      <3>2. CASE q # r
        BY <1>1, <1>2, <1>12, <1>14, <3>2, KeepSends DEF SameSends, DataInv
      <3> QED BY <3>1, <3>2
    <2>2. HeardInv(q)'
      BY <1>1, <1>2, <1>12, KeepHears DEF DataInv
    <2>3. WorksInv(q)' /\ BacksInv(q)'
      BY <1>1, <1>2, <1>12, KeepWorks, KeepBacks DEF DataInv, SameHears
    <2> QED BY <2>1, <2>2, <2>3 DEF DataInv
  <1>19. Shape'
    BY <1>1, <1>2, <1>14 DEF Shape
  <1> QED BY <1>6, <1>8, <1>9, <1>10, <1>18, <1>19 DEF IInv, Control

LEMMA SetIs ==
  ASSUME NEW f, NEW g
  PROVE  /\ \A x \in DOMAIN g : x \in DOMAIN Set(f, g) /\ Set(f, g)[x] = g[x]
         /\ \A x : x \notin DOMAIN g => (x \in DOMAIN Set(f, g) <=> x \in DOMAIN f)
         /\ \A x \in DOMAIN f : x \notin DOMAIN g => Set(f, g)[x] = f[x]
  BY DEF Set

(* Where SM s of rank r puts its routes, and that it puts nothing elsewhere. *)
Place(r, s, x) == Key(r, x[3], slots[r][s][x[3]] + Nth(launch[r], r, s, x))

LEMMA IndexIs ==
  ASSUME LaunchInv, NEW r \in Ranks, NEW s \in SMs, Index(r, s)
  PROVE  LET sent(q) == {x \in Routes(launch[r], r, s) : x[3] >= 0 /\ Owner(x[3]) = q} IN
         index' = [q \in Ranks |-> Set(index[q],
           [y \in {Place(r, s, x) : x \in sent(q)} |->
             LET x == CHOOSE x \in sent(q) : Place(r, s, x) = y IN <<launch[r], r, x[1], x[2]>>])]
  BY DEF Index, Place, Key, Nth

LEMMA PlaceApart ==
  ASSUME LaunchInv, NEW r \in Ranks, NEW s \in SMs, \A e \in GlobalExperts : slots[r][s][e] \in Nat,
         NEW x \in Routes(launch[r], r, s), x[3] \in GlobalExperts,
         NEW y \in Routes(launch[r], r, s), y[3] \in GlobalExperts,
         Owner(x[3]) = Owner(y[3]), Place(r, s, x) = Place(r, s, y)
  PROVE  x = y
  <1> DEFINE l == launch[r]
  <1>1. l \in Nths
    BY LaunchIs
  <1>2. Local(x[3]) = Local(y[3])
        /\ slots[r][s][x[3]] + Nth(l, r, s, x) = slots[r][s][y[3]] + Nth(l, r, s, y)
    BY DEF Place, Key
  <1>3. x[3] = y[3]
    BY <1>2, GlobalIs
  <1>4. x \in RoutesTo(l, r, s, x[3]) /\ y \in RoutesTo(l, r, s, x[3])
    BY <1>3 DEF RoutesTo
  <1> HIDE DEF l
  <1>5. Nth(l, r, s, x) \in Int /\ Nth(l, r, s, y) \in Int
        /\ (Nth(l, r, s, x) = Nth(l, r, s, y) => x = y)
    BY <1>1, <1>4, NthIs
  <1> QED BY <1>2, <1>3, <1>5

LEMMA Indexes ==
  ASSUME LaunchInv, NEW r \in Ranks, NEW s \in SMs, Index(r, s), \A e \in GlobalExperts : slots[r][s][e] \in Nat
  PROVE  /\ \A e \in GlobalExperts : \A x \in RoutesTo(launch[r], r, s, e) :
              LET k == slots[r][s][e] + Nth(launch[r], r, s, x) IN
              k \in Interval(r, s, e) /\ Key(r, e, k) \in DOMAIN index'[Owner(e)]
              /\ index'[Owner(e)][Key(r, e, k)] = <<launch[r], r, x[1], x[2]>>
         /\ \A q \in Ranks, e \in GlobalExperts, k \in Nat :
              (q # r \/ k \notin Interval(r, s, e)) =>
                /\ Key(q, e, k) \in DOMAIN index'[Owner(e)] <=> Key(q, e, k) \in DOMAIN index[Owner(e)]
                /\ Key(q, e, k) \in DOMAIN index[Owner(e)] =>
                     index'[Owner(e)][Key(q, e, k)] = index[Owner(e)][Key(q, e, k)]
  <1> DEFINE l == launch[r]
             sent(o) == {x \in Routes(l, r, s) : x[3] >= 0 /\ Owner(x[3]) = o}
             new(o) == [y \in {Place(r, s, x) : x \in sent(o)} |->
                         LET x == CHOOSE x \in sent(o) : Place(r, s, x) = y IN <<l, r, x[1], x[2]>>]
  <1>1. l \in Nths
    BY LaunchIs
  <1>2. \A o \in Ranks : index'[o] = Set(index[o], new(o))
    BY IndexIs
  <1>3. \A o \in Ranks : \A x \in sent(o) : x[3] \in GlobalExperts /\ x \in RoutesTo(l, r, s, x[3])
    <2>1. \A x \in Routes(l, r, s) : x[3] \in GlobalExperts \cup {-1}
      BY <1>1, RoutesAre
    <2>2. ~ (-1 >= 0)
      OBVIOUS
    <2> QED BY <2>1, <2>2 DEF RoutesTo
  <1>4. \A e \in GlobalExperts : e >= 0
    BY GlobalIs
  <1>5. ASSUME NEW e \in GlobalExperts, NEW x \in RoutesTo(l, r, s, e)
        PROVE  Nth(l, r, s, x) \in 0 .. Cardinality(RoutesTo(l, r, s, e)) - 1 /\ Cardinality(RoutesTo(l, r, s, e)) \in Nat
    BY <1>1, NthIs
  <1>6. ASSUME NEW e \in GlobalExperts, NEW x \in RoutesTo(l, r, s, e), NEW k, k = slots[r][s][e] + Nth(l, r, s, x)
        PROVE  k \in Interval(r, s, e) /\ k \in Nat /\ Place(r, s, x) = Key(r, e, k) /\ x \in sent(Owner(e)) /\ x[3] = e
    <2>1. k \in Interval(r, s, e) /\ k \in Nat
      <3> DEFINE a == slots[r][s][e]
                 b == Nth(l, r, s, x)
                 c == Cardinality(RoutesTo(l, r, s, e))
      <3>1. a \in Nat /\ c \in Nat /\ b \in 0 .. c - 1 /\ k = a + b
        BY <1>5, <1>6
      <3>2. Interval(r, s, e) = a .. (a + c) - 1
        BY DEF Interval, Upto
      <3> HIDE DEF a, b, c
      <3> QED BY <3>1, <3>2
    <2>2. x[3] = e /\ x \in Routes(l, r, s)
      BY DEF RoutesTo
    <2> QED BY <1>4, <1>6, <2>1, <2>2 DEF Place
  <1>7. ASSUME NEW e \in GlobalExperts, NEW x \in RoutesTo(l, r, s, e), NEW k, k = slots[r][s][e] + Nth(l, r, s, x)
        PROVE  Key(r, e, k) \in DOMAIN index'[Owner(e)] /\ index'[Owner(e)][Key(r, e, k)] = <<l, r, x[1], x[2]>>
    <2> DEFINE o == Owner(e)
               y == Place(r, s, x)
               z == CHOOSE z \in sent(o) : Place(r, s, z) = y
    <2>1. o \in Ranks /\ x \in sent(o) /\ y = Key(r, e, k) /\ x[3] = e
      BY <1>6, <1>7, GlobalIs
    <2>2. z \in sent(o) /\ Place(r, s, z) = y
      BY <2>1
    <2>3. z = x
      <3>1. z \in Routes(l, r, s) /\ x \in Routes(l, r, s) /\ Owner(z[3]) = Owner(x[3])
            /\ z[3] \in GlobalExperts /\ x[3] \in GlobalExperts
        BY <1>3, <2>1, <2>2
      <3> HIDE DEF z
      <3> QED BY <2>2, <3>1, PlaceApart
    <2>4. y \in DOMAIN new(o) /\ new(o)[y] = <<l, r, z[1], z[2]>>
      BY <2>1
    <2> HIDE DEF new, z, y
    <2>5. y \in DOMAIN Set(index[o], new(o)) /\ Set(index[o], new(o))[y] = new(o)[y]
      BY <2>4, SetIs
    <2> QED BY <1>2, <2>1, <2>3, <2>4, <2>5
  <1>8. ASSUME NEW q \in Ranks, NEW e \in GlobalExperts, NEW k \in Nat, q # r \/ k \notin Interval(r, s, e)
        PROVE  Key(q, e, k) \notin DOMAIN new(Owner(e))
    <2> SUFFICES ASSUME NEW x \in sent(Owner(e)), Place(r, s, x) = Key(q, e, k)
                 PROVE  FALSE
      OBVIOUS
    <2>1. x[3] \in GlobalExperts /\ x \in RoutesTo(l, r, s, x[3]) /\ Owner(x[3]) = Owner(e)
      BY <1>3, GlobalIs
    <2> DEFINE m == slots[r][s][x[3]] + Nth(l, r, s, x)
    <2>2. m \in Interval(r, s, x[3]) /\ Place(r, s, x) = Key(r, x[3], m)
      BY <1>6, <2>1
    <2> HIDE DEF m
    <2>3. q = r /\ k = m /\ Local(x[3]) = Local(e)
      BY <2>2 DEF Key
    <2>4. x[3] = e
      BY <2>1, <2>3, GlobalIs
    <2> QED BY <1>8, <2>2, <2>3, <2>4
  <1> HIDE DEF new
  <1>9. ASSUME NEW q \in Ranks, NEW e \in GlobalExperts, NEW k \in Nat, q # r \/ k \notin Interval(r, s, e)
        PROVE  /\ Key(q, e, k) \in DOMAIN index'[Owner(e)] <=> Key(q, e, k) \in DOMAIN index[Owner(e)]
               /\ Key(q, e, k) \in DOMAIN index[Owner(e)] =>
                    index'[Owner(e)][Key(q, e, k)] = index[Owner(e)][Key(q, e, k)]
    <2> DEFINE o == Owner(e)
    <2>1. o \in Ranks /\ index'[o] = Set(index[o], new(o)) /\ Key(q, e, k) \notin DOMAIN new(o)
      BY <1>2, <1>8, <1>9, GlobalIs
    <2> HIDE DEF o
    <2>2. /\ Key(q, e, k) \in DOMAIN index'[o] <=> Key(q, e, k) \in DOMAIN index[o]
          /\ Key(q, e, k) \in DOMAIN index[o] => index'[o][Key(q, e, k)] = index[o][Key(q, e, k)]
      BY <2>1, SetIs
    <2> QED BY <2>2 DEF o
  <1>10. \A e \in GlobalExperts : \A x \in RoutesTo(l, r, s, e) :
           LET k == slots[r][s][e] + Nth(l, r, s, x) IN
           k \in Interval(r, s, e) /\ Key(r, e, k) \in DOMAIN index'[Owner(e)]
           /\ index'[Owner(e)][Key(r, e, k)] = <<l, r, x[1], x[2]>>
    BY <1>6, <1>7
  <1> QED BY <1>9, <1>10

LEMMA IntervalIs ==
  ASSUME PcInv, NEW r \in Ranks, SlotInv(r), NEW s \in Claimed(r), NEW e \in GlobalExperts
  PROVE  slots[r][s][e] \in Nat /\ Interval(r, s, e) \subseteq Nat
  <1>1. slots[r][s][e] \in Nat
    BY DEF SlotInv
  <1> QED BY <1>1 DEF Interval

LEMMA IndexedClaimed ==
  ASSUME PcInv, NEW r \in Ranks
  PROVE  Indexed(r) \subseteq Claimed(r)
  <1>1. \A s \in SMs : DS(r, s) \in 1 .. 16
    BY StageFacts
  <1> QED BY <1>1 DEF Indexed, Claimed

LEMMA IndexAdd ==
  ASSUME PcInv, LaunchInv, NEW r \in Ranks, NEW s \in Claimed(r), s \in SMs, Index(r, s), slots' = slots, launch' = launch,
         SlotInv(r), IndexInv(r), s \notin Indexed(r), Indexed(r)' = Indexed(r) \cup {s}
  PROVE  IndexInv(r)'
  <1> DEFINE l == launch[r]
  <1>1. \A t, e : Interval(r, t, e)' = Interval(r, t, e)
    BY SameInterval
  <1>2. \A e \in GlobalExperts : slots[r][s][e] \in Nat
    BY IntervalIs
  <1>3. l \in Nths
    BY LaunchIs
  <1>4. ASSUME NEW e \in GlobalExperts, NEW x \in RoutesTo(l, r, s, e)
        PROVE  \E k \in Interval(r, s, e) : Found(r, e, k, x)' /\ k = slots[r][s][e] + Nth(l, r, s, x)
    BY <1>2, Indexes DEF Found
  <1>5. ASSUME NEW e \in GlobalExperts, NEW k \in Interval(r, s, e)
        PROVE  \E x \in RoutesTo(l, r, s, e) : Found(r, e, k, x)'
    <2> DEFINE own == RoutesTo(l, r, s, e)
               a == slots[r][s][e]
    <2>1. Cardinality(own) \in Nat /\ \A j \in 0 .. Cardinality(own) - 1 : \E x \in own : Nth(l, r, s, x) = j
      BY <1>3, NthIs
    <2>2. a \in Nat /\ k \in a .. (a + Cardinality(own)) - 1
      BY <1>2 DEF Interval, Upto
    <2>3. k - a \in 0 .. Cardinality(own) - 1
      <3> HIDE DEF own, a
      <3> QED BY <2>1, <2>2
    <2>4. PICK x \in own : Nth(l, r, s, x) = k - a
      BY <2>1, <2>3
    <2>5. PICK j \in Interval(r, s, e) : Found(r, e, j, x)' /\ j = a + Nth(l, r, s, x)
      BY <1>4
    <2>6. j = k
      <3> HIDE DEF a
      <3> QED BY <2>2, <2>4, <2>5
    <2> QED BY <2>5, <2>6
  <1>6. ASSUME NEW t \in Indexed(r), NEW e \in GlobalExperts, NEW k \in Interval(r, t, e), NEW x, Found(r, e, k, x)
        PROVE  Found(r, e, k, x)'
    <2>1. t \in Claimed(r) /\ t # s
      BY IndexedClaimed
    <2>2. k \in Nat /\ k \notin Interval(r, s, e)
      BY <2>1, IntervalIs DEF SlotInv
    <2> QED BY <1>2, <1>6, <2>2, Indexes DEF Found
  <1> QED BY <1>1, <1>4, <1>5, <1>6 DEF IndexInv

LEMMA IndexOthers ==
  ASSUME PcInv, LaunchInv, NEW r \in Ranks, NEW s \in Claimed(r), s \in SMs, SlotInv(r), Index(r, s),
         slots' = slots, launch' = launch,
         NEW q \in Ranks \ {r}, SlotInv(q), IndexInv(q), Indexed(q)' = Indexed(q)
  PROVE  IndexInv(q)'
  <1>1. \A t, e : Interval(q, t, e)' = Interval(q, t, e)
    BY SameInterval
  <1>2. \A e \in GlobalExperts : slots[r][s][e] \in Nat
    BY IntervalIs
  <1>3. ASSUME NEW t \in Indexed(q), NEW e \in GlobalExperts, NEW k \in Interval(q, t, e), NEW x, Found(q, e, k, x)
        PROVE  Found(q, e, k, x)'
    <2>1. t \in Claimed(q)
      BY IndexedClaimed
    <2>2. k \in Nat
      BY <2>1, IntervalIs
    <2> QED BY <1>2, <1>3, <2>2, Indexes DEF Found
  <1> QED BY <1>1, <1>3 DEF IndexInv

LEMMA IndexStep ==
  ASSUME IInv, NEW r \in Ranks, NEW s \in SMs, Index(r, s)
  PROVE  IInv'
  <1>1. PcInv /\ LaunchInv /\ RoundInv /\ TodoInv /\ CountsInv /\ Shape /\ \A q \in Ranks : DataInv(q)
    BY Parts
  <1>2. /\ At(D(r, s), "index") /\ Go(D(r, s)) /\ index' = [q \in Ranks |-> index'[q]]
        /\ UNCHANGED <<barrier, launch, counts, slots, send, recv, sums, pool, arrived, mask, hidden, combine>>
    BY DEF Index, D
  <1>3. DS(r, s) = 2
    <2>1. DS(r, s) # 16 /\ DNames[DS(r, s)] = "index" /\ DS(r, s) \in 1 .. 16
      BY <1>1, <1>2, AtD, StageFacts
    <2> QED BY <2>1 DEF DNames
  <1>4. todo[D(r, s)] = 0
    BY <1>1, <1>3 DEF TodoInv
  <1>5. OnlyD(r, s, 3) /\ pc' \in [Agents -> Nat \ {0}] /\ todo' = todo
    <2>1. NextD(s, 2) = 3
      BY DEF NextD
    <2> QED BY <1>1, <1>2, <1>3, <1>4, <2>1, GoD
  <1>6. PcInv'
    BY <1>1, <1>3, <1>5, KeepsD
  <1>7. \A q \in Ranks, t \in SMs : ES(q, t)' = ES(q, t) /\ DS(q, t)' = (IF q = r /\ t = s THEN 3 ELSE DS(q, t))
    BY <1>5 DEF OnlyD
  <1>8. RoundInv'
    BY <1>1, <1>2, <1>3, <1>6, <1>7, ZeroSM, KeepRounds
  <1>9. TodoInv' /\ LaunchInv'
    BY <1>1, <1>2, <1>4, <1>5, <1>6, <1>7, KeepTodo DEF LaunchInv
  <1>10. CountsInv'
    BY <1>1, <1>2, <1>3, <1>7, KeepCounts
  <1>11. StagesOK /\ StagesOK' /\ TodoOK /\ TodoOK'
    <2>1. StagesOK
      BY <1>1, StagesAre
    <2> QED BY <1>1, <1>5, <1>7, <2>1 DEF StagesOK, TodoOK, TodoInv
  <1>12. ASSUME NEW q \in Ranks
         PROVE  SameHears(q) /\ SameWorks(q) /\ Claimed(q)' = Claimed(q) /\ (Sending(q)' <=> Sending(q))
                /\ (q # r => Indexed(q)' = Indexed(q))
    <2>1. SameHears(q)
      BY <1>3, <1>5, <1>7, <1>11, ZeroSM, ToldSame, ClearedSame DEF SameHears, Still
    <2>2. Worked(q)' = Worked(q)
      BY <1>2, <1>5, <1>7, <1>11, WorkedSame DEF Still
    <2>3. Pulled(q)' = Pulled(q)
      BY <1>1, <1>2, <1>3, <1>5, <1>7, <1>11, PulledSame DEF Still
    <2>4. (NoClean(q)' => NoClean(q)) /\ (Working(q)' => Working(q)) /\ (Reducing(q)' => Reducing(q))
      BY <1>2, <1>3, <1>7, ZeroSM DEF NoClean, Working, Reducing
    <2>5. Claimed(q)' = Claimed(q) /\ (Sending(q)' <=> Sending(q)) /\ (q # r => Indexed(q)' = Indexed(q))
      BY <1>3, <1>7, ZeroSM DEF Indexed, Sending, Claimed
    <2> QED BY <2>1, <2>2, <2>3, <2>4, <2>5 DEF SameWorks, SameDone
  <1>13. s \in Claimed(r) /\ s \notin Indexed(r) /\ Indexed(r)' = Indexed(r) \cup {s}
    BY <1>3, <1>7 DEF Claimed, Indexed
  <1>14. \A q \in Ranks : ~ Working(q)
    <2>1. DS(r, 0) <= 3 /\ DS(r, 0) \in 1 .. 16
      BY <1>1, <1>3, ZeroSM, StageFacts
    <2>2. DS(r, 0) <= 5
      BY <2>1
    <2> QED BY <1>1, <2>2, NoneWork
  <1>15. ASSUME NEW q \in Ranks
         PROVE  DataInv(q)'
    <2>1. SendInv(q) /\ SlotInv(q) /\ IndexInv(q) /\ SlotInv(r) /\ IndexInv(r)
      BY <1>1 DEF DataInv, SendsInv
    <2>2. SendInv(q)' /\ SlotInv(q)'
      BY <1>2, <1>12, <2>1, KeepSend, KeepSlot
    <2>3. IndexInv(q)'
      <3>1. CASE q = r
        BY <1>1, <1>2, <1>13, <2>1, <3>1, IndexAdd
      <3>2. CASE q # r
        BY <1>1, <1>2, <1>12, <1>13, <2>1, <3>2, IndexOthers
      <3> QED BY <3>1, <3>2
    <2>4. HeardInv(q)'
      BY <1>1, <1>2, <1>12, KeepHears DEF DataInv
    <2>5. ~ Working(q)'
      BY <1>12, <1>14 DEF SameWorks
    <2>6. WorksInv(q)' /\ BacksInv(q)'
      BY <1>1, <1>2, <1>12, <2>5, KeepWorks, KeepBacks DEF DataInv, SameHears
    <2> QED BY <2>2, <2>3, <2>4, <2>6 DEF DataInv, SendsInv
  <1>16. Shape'
    BY <1>1, <1>2 DEF Shape
  <1> QED BY <1>6, <1>8, <1>9, <1>10, <1>15, <1>16 DEF IInv, Control

LEMMA TurnD ==
  ASSUME PcInv, TodoInv, NEW r \in Ranks, NEW s \in SMs, DS(r, s) # 16, NEW n \in Nat, Turn(D(r, s), n),
         NEW more, more = (todo[D(r, s)] + 1 < n)
  PROVE  /\ OnlyD(r, s, IF more THEN DS(r, s) ELSE NextD(s, DS(r, s))) /\ pc' \in [Agents -> Nat \ {0}]
         /\ SetD(r, s, IF more THEN todo[D(r, s)] + 1 ELSE 0)
  <1>1. CASE more
    <2>1. todo' = [todo EXCEPT ![D(r, s)] = todo[D(r, s)] + 1] /\ pc' = pc
      BY <1>1 DEF Turn
    <2>2. OnlyD(r, s, DS(r, s)) /\ pc' \in [Agents -> Nat \ {0}]
      BY <2>1 DEF OnlyD, DS, ES, PcInv
    <2> QED BY <1>1, <2>1, <2>2 DEF SetD
  <1>2. CASE ~ more
    <2>1. Go(D(r, s))
      BY <1>2 DEF Turn
    <2>2. OnlyD(r, s, NextD(s, DS(r, s))) /\ pc' \in [Agents -> Nat \ {0}] /\ todo' = [todo EXCEPT ![D(r, s)] = 0]
      BY <2>1, GoD
    <2> QED BY <1>2, <2>2 DEF SetD
  <1> QED BY <1>1, <1>2

LEMMA TurnE ==
  ASSUME PcInv, TodoInv, NEW r \in Ranks, NEW s \in SMs, ES(r, s) # 10, NEW n \in Nat, Turn(E(r, s), n),
         NEW more, more = (todo[E(r, s)] + 1 < n)
  PROVE  /\ OnlyE(r, s, IF more THEN ES(r, s) ELSE NextE(s, ES(r, s))) /\ pc' \in [Agents -> Nat \ {0}]
         /\ SetE(r, s, IF more THEN todo[E(r, s)] + 1 ELSE 0)
  <1>1. CASE more
    <2>1. todo' = [todo EXCEPT ![E(r, s)] = todo[E(r, s)] + 1] /\ pc' = pc
      BY <1>1 DEF Turn
    <2>2. OnlyE(r, s, ES(r, s)) /\ pc' \in [Agents -> Nat \ {0}]
      BY <2>1 DEF OnlyE, DS, ES, PcInv
    <2> QED BY <1>1, <2>1, <2>2 DEF SetE
  <1>2. CASE ~ more
    <2>1. Go(E(r, s))
      BY <1>2 DEF Turn
    <2>2. OnlyE(r, s, NextE(s, ES(r, s))) /\ pc' \in [Agents -> Nat \ {0}] /\ todo' = [todo EXCEPT ![E(r, s)] = 0]
      BY <2>1, GoE
    <2> QED BY <1>2, <2>2 DEF SetE
  <1> QED BY <1>1, <1>2

(* Whoever reports finds the counters of its own launch.                    *)
LEMMA EpochIs ==
  ASSUME PcInv, LaunchInv, RoundInv, NEW r \in Ranks, NEW q \in Ranks, DS(r, 0) <= 5, NEW e \in LocalExperts
  PROVE  Epoch(q, e) = launch[r]
  <1>1. launch[r] \in Nat /\ launch[q] \in Nat
    BY LaunchIs
  <1>2. launch[q] <= launch[r] + 1 /\ launch[r] <= launch[q] + 1
    BY Together
  <1>3. DS(r, 0) \in 1 .. 16 /\ DS(q, 0) \in 1 .. 16
    BY ZeroSM, StageFacts
  <1>4. launch[q] # launch[r] + 1
    BY <1>3, Together
  <1>5. Cleaner(e) \in SMs
    BY CleanerIs
  <1>6. CASE launch[r] = launch[q]
    <2>1. e \notin Cleared(q)
      <3> SUFFICES ASSUME e \in Cleared(q) PROVE FALSE
        OBVIOUS
      <3>1. DS(q, Cleaner(e)) \in 1 .. 16 /\ DS(q, Cleaner(e)) >= 12
        BY <1>5, StageFacts DEF Cleared
      <3>2. DS(q, 0) >= 7
        BY <1>3, <1>5, <3>1, ZeroSM, StageFacts
      <3>3. DS(r, 0) >= 6
        BY <1>6, <3>2, Together
      <3> QED BY <1>3, <3>3
    <2> QED BY <1>6, <2>1 DEF Epoch
  <1>7. CASE launch[r] = launch[q] + 1
    <2>1. DS(q, 0) >= 15
      BY <1>7, Together
    <2>2. DS(q, Cleaner(e)) > 12
      BY <1>3, <1>5, <2>1, ZeroSM, StageFacts
    <2>3. e \in Cleared(q)
      BY <2>2 DEF Cleared
    <2> QED BY <1>7, <2>3 DEF Epoch
  <1> QED BY <1>1, <1>2, <1>4, <1>6, <1>7

(* A count of one rank for one expert is set.                               *)
CountsOf(f) == [x \in Ranks |-> [y \in LocalExperts |-> f[x][y]]]
CountPut(f, a, b, v) == [f EXCEPT ![a][b] = v]
LEMMA CountSet ==
  ASSUME NEW f, f = CountsOf(f), NEW a \in Ranks, NEW b \in LocalExperts, NEW v, NEW g, g = CountPut(f, a, b, v)
  PROVE  /\ g = CountsOf(g)
         /\ \A x \in Ranks, y \in LocalExperts : g[x][y] = IF x = a /\ y = b THEN v ELSE f[x][y]
  <1>1. g = [x \in Ranks |-> IF x = a THEN [f[a] EXCEPT ![b] = v] ELSE f[x]]
    BY DEF CountsOf, CountPut
  <1>2. \A x \in Ranks : f[x] = [y \in LocalExperts |-> f[x][y]]
    BY DEF CountsOf
  <1>3. g[a] = [y \in LocalExperts |-> IF y = b THEN v ELSE f[a][y]]
    BY <1>1, <1>2
  <1>4. \A x \in Ranks : x # a => g[x] = f[x]
    BY <1>1
  <1>5. \A x \in Ranks, y \in LocalExperts : g[x][y] = IF x = a /\ y = b THEN v ELSE f[x][y]
    BY <1>3, <1>4
  <1>6. \A x \in Ranks : g[x] = [y \in LocalExperts |-> g[x][y]]
    BY <1>2, <1>3, <1>4
  <1> QED BY <1>1, <1>5, <1>6 DEF CountsOf

Reported(r, x) ==
  /\ recv' = [recv EXCEPT ![Owner(x)][r][Local(x)] = send[r][x].n]
  /\ sums' = [sums EXCEPT ![Owner(x)][Local(x)] = [sms |-> @.sms + send[r][x].sms, n |-> @.n + send[r][x].n]]

LEMMA HeardAdd ==
  ASSUME PcInv, LaunchInv, RoundInv, NEW r \in Ranks, DS(r, 0) = 4, SendInv(r), launch' = launch,
         NEW x \in GlobalExperts, x \notin Told(r), Told(r)' = Told(r) \cup {x},
         \A q \in Ranks : Cleared(q)' = Cleared(q) /\ (q # r => Told(q)' = Told(q)),
         recv = [o \in Ranks |-> recv[o]], sums = [o \in Ranks |-> sums[o]],
         Reported(r, x), NEW q \in Ranks, HeardInv(q)
  PROVE  HeardInv(q)'
  <1> DEFINE l == launch[r]
  <1>1. l \in Nths
    BY LaunchIs
  <1>2. send[r][x] = [sms |-> NumSMs, n |-> Cardinality(Sent(l, r, x))]
    <2>1. Sending(r)
      BY DEF Sending
    <2>2. Claimed(r) = SMs
      BY ZeroSM, StageFacts DEF Claimed
    <2>3. send[r][x] = [sms |-> Cardinality(Claimed(r)), n |-> Cardinality(Counted(r, x))]
      BY <2>1 DEF SendInv
    <2>4. Cardinality(Claimed(r)) = NumSMs
      BY <2>2, ClaimedAre
    <2> QED BY <2>2, <2>3, <2>4 DEF Counted, Sent
  <1>3. Owner(x) \in Ranks /\ Local(x) \in LocalExperts /\ x = Glob(Owner(x), Local(x))
    BY GlobalIs
  <1>4. \A e \in LocalExperts : Epoch(q, e)' = Epoch(q, e)
    BY DEF Epoch
  <1>5. sums[q] = [e \in LocalExperts |-> sums[q][e]] /\ recv[q] = [o \in Ranks |-> [e \in LocalExperts |-> recv[q][o][e]]]
    BY DEF HeardInv
  <1>6. ASSUME NEW e \in LocalExperts, Glob(q, e) # x
        PROVE  Heard(q, e)' = Heard(q, e)
    BY <1>4, <1>6 DEF Heard
  <1>7. CASE q # Owner(x)
    <2>1. sums'[q] = sums[q] /\ recv'[q] = recv[q]
      BY <1>7 DEF Reported
    <2>2. \A e \in LocalExperts : Glob(q, e) # x
      BY <1>7, GlobalIs
    <2> QED BY <1>4, <1>6, <2>1, <2>2, KeepHeard
  <1>8. CASE q = Owner(x)
    <2> DEFINE y == Local(x)
    <2>1. y \in LocalExperts /\ Glob(q, y) = x
      BY <1>3, <1>8
    <2>2. /\ sums'[q] = [sums[q] EXCEPT ![y] = [sms |-> @.sms + send[r][x].sms, n |-> @.n + send[r][x].n]]
          /\ recv'[q] = [recv[q] EXCEPT ![r][y] = send[r][x].n]
      BY <1>8 DEF Reported
    <2>3. Epoch(q, y) = l
      BY <2>1, EpochIs
    <2>4. Heard(q, y)' = Heard(q, y) \cup {r} /\ r \notin Heard(q, y)
      BY <1>4, <2>1, <2>3 DEF Heard
    <2> HIDE DEF y
    <2>5. \A e \in LocalExperts : e # y => Glob(q, e) # x
      BY <2>1, GlobalIs
    <2>0. /\ recv'[q] = [o \in Ranks |-> [e \in LocalExperts |-> recv'[q][o][e]]]
          /\ \A o \in Ranks, e \in LocalExperts :
               recv'[q][o][e] = IF o = r /\ e = y THEN send[r][x].n ELSE recv[q][o][e]
      <3> DEFINE f == recv[q]
                 g == recv'[q]
                 v == send[r][x].n
      <3>1. f = CountsOf(f) /\ g = CountPut(f, r, y, v)
        BY <1>5, <2>2 DEF CountsOf, CountPut
      <3> HIDE DEF f, g, v
      <3>2. /\ g = CountsOf(g)
            /\ \A o \in Ranks, e \in LocalExperts : g[o][e] = IF o = r /\ e = y THEN v ELSE f[o][e]
        BY <2>1, <3>1, CountSet
      <3> QED BY <3>2 DEF f, g, v, CountsOf
    <2>6. sums'[q] = [e \in LocalExperts |-> sums'[q][e]]
      BY <1>5, <2>1, <2>2
    <2>7. \A e \in LocalExperts : e # y => sums'[q][e] = sums[q][e] /\ \A o \in Ranks : recv'[q][o][e] = recv[q][o][e]
      BY <1>5, <2>0, <2>2
    <2>8. sums'[q][y] = [sms |-> sums[q][y].sms + NumSMs, n |-> sums[q][y].n + Cardinality(Sent(l, r, x))]
      <3>1. send[r][x].sms = NumSMs /\ send[r][x].n = Cardinality(Sent(l, r, x))
        BY <1>2
      <3>2. sums'[q][y] = [sms |-> sums[q][y].sms + send[r][x].sms, n |-> sums[q][y].n + send[r][x].n]
        BY <1>5, <2>1, <2>2
      <3> QED BY <3>1, <3>2
    <2>9. \A o \in Ranks : recv'[q][o][y] = IF o = r THEN Cardinality(Sent(l, r, x)) ELSE recv[q][o][y]
      <3>1. send[r][x].n = Cardinality(Sent(l, r, x))
        BY <1>2
      <3> QED BY <2>0, <2>1, <3>1
    <2>10. sums'[q][y] = [sms |-> NumSMs * Cardinality(Heard(q, y)'), n |-> Cardinality(Tagged(Heard(q, y)', l, x))]
      <3> DEFINE H == Heard(q, y)
      <3>1. sums[q][y] = [sms |-> NumSMs * Cardinality(H), n |-> Cardinality(Tagged(H, l, x))]
        BY <2>1, <2>3 DEF HeardInv
      <3>2. H \in SUBSET Ranks /\ IsFiniteSet(Ranks)
        <4>1. IsFiniteSet(Ranks)
          BY RanksAre
        <4>2. H \in SUBSET Ranks
          BY DEF Heard
        <4> QED BY <4>1, <4>2
      <3>3. Cardinality(H \cup {r}) = Cardinality(H) + 1 /\ Cardinality(H) \in Nat
        <4> HIDE DEF H
        <4>1. IsFiniteSet(H)
          BY <3>2, FS_Subset
        <4>2. r \notin H
          BY <2>4 DEF H
        <4> QED BY <4>1, <4>2, OneMore
      <3>4. Cardinality(Tagged(H \cup {r}, l, x)) = Cardinality(Tagged(H, l, x)) + Cardinality(Sent(l, r, x))
        <4>1. r \in Ranks \ H
          BY <2>4
        <4> HIDE DEF H, l
        <4> QED BY <1>1, <3>2, <4>1, TaggedAdd
      <3>5. NumSMs * Cardinality(H) + NumSMs = NumSMs * Cardinality(H \cup {r})
        <4> DEFINE m == Cardinality(H)
        <4>1. m \in Nat /\ Cardinality(H \cup {r}) = m + 1
          BY <3>3
        <4> HIDE DEF m, H
        <4> QED BY <4>1, Sizes1 DEF m
      <3>6. sums'[q][y] = [sms |-> NumSMs * Cardinality(H) + NumSMs,
                           n |-> Cardinality(Tagged(H, l, x)) + Cardinality(Sent(l, r, x))]
        BY <2>8, <3>1
      <3>7. Heard(q, y)' = H \cup {r}
        BY <2>4
      <3> HIDE DEF H
      <3> QED BY <3>4, <3>5, <3>6, <3>7
    <2>11. \A o \in Ranks : recv'[q][o][y] = IF o \in Heard(q, y)' THEN Cardinality(Sent(l, o, x)) ELSE 0
      <3>1. \A o \in Ranks : recv[q][o][y] = IF o \in Heard(q, y) THEN Cardinality(Sent(l, o, x)) ELSE 0
        BY <2>1, <2>3 DEF HeardInv
      <3> QED BY <2>4, <2>9, <3>1
    <2>12. ASSUME NEW e \in LocalExperts
           PROVE  /\ sums'[q][e] = [sms |-> NumSMs * Cardinality(Heard(q, e)'),
                                    n |-> Cardinality(Tagged(Heard(q, e)', Epoch(q, e)', Glob(q, e)))]
                  /\ \A o \in Ranks :
                       recv'[q][o][e] = IF o \in Heard(q, e)' THEN Cardinality(Sent(Epoch(q, e)', o, Glob(q, e))) ELSE 0
      <3>1. CASE e = y
        BY <1>4, <2>1, <2>3, <2>10, <2>11, <3>1
      <3>2. CASE e # y
        <4>1. Heard(q, e)' = Heard(q, e) /\ Epoch(q, e)' = Epoch(q, e)
          BY <1>4, <1>6, <2>5, <3>2
        <4> QED BY <2>7, <3>2, <4>1 DEF HeardInv
      <3> QED BY <3>1, <3>2
    <2> QED BY <2>0, <2>6, <2>12 DEF HeardInv
  <1> QED BY <1>7, <1>8

LEMMA TodoD ==
  ASSUME PcInv, TodoInv, launch' = launch, NEW r \in Ranks, NEW s \in SMs, NEW k \in 1 .. 16, OnlyD(r, s, k),
         NEW m \in Nat, SetD(r, s, m),
         k \notin {4, 10, 12} => m = 0, k = 4 => m < NumRanks * NumExperts,
         k = 10 => s + NumSMs * m \in Toks(launch[r], r)
  PROVE  TodoInv' /\ TodoOK /\ TodoOK'
  <1>1. /\ todo' \in [Agents -> Nat]
        /\ \A q \in Ranks, t \in SMs : /\ todo'[E(q, t)] = todo[E(q, t)]
                                       /\ todo'[D(q, t)] = (IF q = r /\ t = s THEN m ELSE todo[D(q, t)])
    <2>1. todo \in [Agents -> Nat]
      BY DEF TodoInv
    <2> QED BY <2>1, TodoMove
  <1>2. \A q \in Ranks, t \in SMs : ES(q, t)' = ES(q, t) /\ DS(q, t)' = (IF q = r /\ t = s THEN k ELSE DS(q, t))
    BY DEF OnlyD
  <1> DEFINE N == NumRanks * NumExperts
  <1> HIDE DEF N
  <1>3. ASSUME NEW q \in Ranks, NEW t \in SMs
        PROVE  /\ DS(q, t)' \notin {4, 10, 12} => todo'[D(q, t)] = 0
               /\ ES(q, t)' # 3 => todo'[E(q, t)] = 0
               /\ DS(q, t)' = 4 => todo'[D(q, t)] < N
               /\ DS(q, t)' = 10 => t + NumSMs * todo'[D(q, t)] \in Toks(launch'[q], q)
               /\ ES(q, t)' = 3 => todo'[E(q, t)] < Len(Walk(launch'[q], q, t))
    <2>1. CASE q = r /\ t = s
      BY <1>1, <1>2, <2>1 DEF TodoInv, N
    <2>2. CASE ~ (q = r /\ t = s)
      BY <1>1, <1>2, <2>2 DEF TodoInv, N
    <2> QED BY <2>1, <2>2
  <1>4. TodoInv'
    BY <1>1, <1>3 DEF TodoInv, N
  <1> QED BY <1>1, <1>4 DEF TodoInv, TodoOK

LEMMA ReportStep ==
  ASSUME IInv, NEW r \in Ranks, Report(r)
  PROVE  IInv'
  <1> DEFINE N == NumRanks * NumExperts
             x == todo[D(r, 0)]
             more == x + 1 < N
             k == IF more THEN 4 ELSE 5
             m == IF more THEN x + 1 ELSE 0
  <1>1. PcInv /\ LaunchInv /\ RoundInv /\ TodoInv /\ CountsInv /\ Shape /\ \A q \in Ranks : DataInv(q)
    BY Parts
  <1>2. /\ At(D(r, 0), "report") /\ Reported(r, x) /\ Turn(D(r, 0), N)
        /\ UNCHANGED <<barrier, launch, counts, slots, send, index, pool, arrived, mask, hidden, combine>>
    BY DEF Report, D, Reported
  <1>3. DS(r, 0) = 4
    <2>1. DS(r, 0) # 16 /\ DNames[DS(r, 0)] = "report" /\ DS(r, 0) \in 1 .. 16
      BY <1>1, <1>2, ZeroSM, AtD, StageFacts
    <2> QED BY <2>1 DEF DNames
  <1>4. x \in Nat /\ x < N /\ N \in Nat /\ x \in GlobalExperts /\ GlobalExperts = 0 .. N - 1
    <2>1. x \in Nat /\ x < N
      BY <1>1, <1>3, ZeroSM, AgentsAre DEF TodoInv
    <2>2. N \in Nat
      BY Sizes1
    <2>3. GlobalExperts = 0 .. N - 1
      BY DEF GlobalExperts
    <2> HIDE DEF N, x
    <2> QED BY <2>1, <2>2, <2>3
  <1>5. OnlyD(r, 0, k) /\ pc' \in [Agents -> Nat \ {0}] /\ SetD(r, 0, m)
    <2>1. NextD(0, 4) = 5
      BY DEF NextD
    <2> HIDE DEF N
    <2>2. more = (todo[D(r, 0)] + 1 < N)
      OBVIOUS
    <2> HIDE DEF more
    <2>3. /\ OnlyD(r, 0, IF more THEN DS(r, 0) ELSE NextD(0, DS(r, 0))) /\ pc' \in [Agents -> Nat \ {0}]
          /\ SetD(r, 0, IF more THEN todo[D(r, 0)] + 1 ELSE 0)
      BY <1>1, <1>2, <1>3, <1>4, <2>2, ZeroSM, TurnD
    <2> QED BY <1>3, <2>1, <2>3
  <1>6. k \in {4, 5} /\ m \in Nat /\ (k = 5 => m = 0) /\ (k = 4 => m < N)
    BY <1>4
  <1>7. \A q \in Ranks, t \in SMs : ES(q, t)' = ES(q, t) /\ DS(q, t)' = (IF q = r /\ t = 0 THEN k ELSE DS(q, t))
    BY <1>5 DEF OnlyD
  <1>8. Told(r)' = Told(r) \cup {x} /\ x \notin Told(r)
    <2>1. Told(r) = {y \in GlobalExperts : y < x}
      BY <1>3 DEF Told
    <2>2. Told(r)' = {y \in GlobalExperts : k > 4 \/ (k = 4 /\ y < m)}
      <3>1. DS(r, 0)' = k /\ todo'[D(r, 0)] = m
        BY <1>1, <1>5, <1>6, <1>7, ZeroSM, TodoMove DEF TodoInv
      <3> HIDE DEF k, m
      <3> QED BY <3>1 DEF Told
    <2> HIDE DEF N, x
    <2>3. CASE more
      BY <1>4, <2>1, <2>2, <2>3
    <2>4. CASE ~ more
      BY <1>4, <2>1, <2>2, <2>4
    <2> QED BY <2>3, <2>4
  <1> HIDE DEF k, m, more, N, x
  <1>9. PcInv'
    BY <1>1, <1>3, <1>5, <1>6, ZeroSM, KeepsD
  <1>10. RoundInv'
    BY <1>1, <1>2, <1>3, <1>6, <1>7, <1>9, ZeroSM, KeepRounds
  <1>11. TodoInv' /\ LaunchInv' /\ TodoOK /\ TodoOK'
    <2>1. TodoInv' /\ TodoOK /\ TodoOK'
      BY <1>1, <1>2, <1>5, <1>6, ZeroSM, TodoD DEF N
    <2> QED BY <1>1, <1>2, <2>1 DEF LaunchInv
  <1>12. CountsInv'
    BY <1>1, <1>2, <1>3, <1>6, <1>7, KeepCounts
  <1>13. StagesOK /\ StagesOK'
    <2>1. StagesOK
      BY <1>1, StagesAre
    <2> QED BY <1>1, <1>6, <1>7, <2>1 DEF StagesOK
  <1>14. \A q \in Ranks, t \in SMs : /\ todo'[E(q, t)] = todo[E(q, t)]
                                     /\ (q # r \/ t # 0) => todo'[D(q, t)] = todo[D(q, t)]
    BY <1>1, <1>5, <1>6, ZeroSM, TodoMove DEF TodoInv
  <1>15. ASSUME NEW q \in Ranks
         PROVE  /\ SameSends(q) /\ SameWorks(q) /\ Cleared(q)' = Cleared(q) /\ (q # r => Told(q)' = Told(q))
    <2>1. SameSends(q)
      BY <1>3, <1>6, <1>7, ZeroSM, ClaimsSame
    <2>2. Cleared(q)' = Cleared(q)
      BY <1>7, <1>11, <1>13, <1>14, ClearedSame DEF Still
    <2>3. q # r => Told(q)' = Told(q)
      BY <1>7, <1>11, <1>13, <1>14, ZeroSM, ToldSame DEF Still
    <2>4. Worked(q)' = Worked(q)
      BY <1>2, <1>7, <1>11, <1>13, <1>14, WorkedSame DEF Still
    <2>5. Pulled(q)' = Pulled(q)
      BY <1>1, <1>2, <1>3, <1>6, <1>7, <1>11, <1>13, <1>14, PulledSame DEF Still
    <2>6. (NoClean(q)' => NoClean(q)) /\ (Working(q)' => Working(q)) /\ (Reducing(q)' => Reducing(q))
      BY <1>2, <1>3, <1>6, <1>7, ZeroSM DEF NoClean, Working, Reducing
    <2> QED BY <2>1, <2>2, <2>3, <2>4, <2>5, <2>6 DEF SameWorks, SameDone
  <1>16. recv = [q \in Ranks |-> recv[q]] /\ sums = [q \in Ranks |-> sums[q]]
    BY <1>1 DEF Shape
  <1>17. recv' = [q \in Ranks |-> recv'[q]] /\ sums' = [q \in Ranks |-> sums'[q]]
    BY <1>2, <1>16 DEF Reported
  <1>18. ASSUME NEW q \in Ranks
         PROVE  DataInv(q)'
    <2>1. SendsInv(q)'
      BY <1>1, <1>2, <1>15, KeepSends DEF DataInv
    <2>2. HeardInv(q)'
      <3>1. SendInv(r) /\ HeardInv(q)
        BY <1>1 DEF DataInv, SendsInv
      <3>2. launch' = launch
        BY <1>2
      <3> QED BY <1>1, <1>2, <1>3, <1>4, <1>8, <1>15, <1>16, <3>1, <3>2, HeardAdd
    <2>3. WorksInv(q)' /\ BacksInv(q)'
      BY <1>1, <1>2, <1>15, KeepWorks, KeepBacks DEF DataInv
    <2> QED BY <2>1, <2>2, <2>3 DEF DataInv
  <1>19. Shape'
    BY <1>1, <1>2, <1>17 DEF Shape
  <1> QED BY <1>9, <1>10, <1>11, <1>12, <1>18, <1>19 DEF IInv, Control

-----------------------------------------------------------------------------
(* Pulling.                                                                 *)

(* Blocks that are all worked off had all their tokens.                     *)
LEMMA AllPulled ==
  ASSUME SchedulesFit, LaunchInv, NEW r \in Ranks, WorkInv(r), \A t \in SMs : ES(r, t) > 3, NEW i \in Toks(launch[r], r)
  PROVE  i \in Pulled(r)
  <1> DEFINE l == launch[r]
             e == Task(l, r, i).expert
             m == Task(l, r, i).idx \div BlockM
  <1>1. l \in Nths
    BY LaunchIs
  <1>2. e \in LocalExperts /\ m \in 0 .. NumMBlocks(Ins(l, r), e) - 1
    <2>1. Tokens(l, r) \in Plans
      BY <1>1, TokensAre
    <2> QED BY <2>1, RowIs DEF Toks, Task, Ins
  <1>3. 0 \in 0 .. L2BlockNs - 1
    BY Sizes1
  <1> HIDE DEF l, e, m
  <1>4. PICK t \in SMs : \E j : Reached(l, r, e, m, 0, t, j)
    BY <1>1, <1>2, <1>3, AllReached
  <1>5. PICK j : /\ j \in 1 .. Len(Walk(l, r, t))
                 /\ LET b == Walk(l, r, t)[j] IN b.phase = 2 /\ b.expert = e /\ b.m = m /\ b.n = 0
    BY <1>4 DEF Reached
  <1> DEFINE w == <<t, j>>
  <1>6. w \in Worked(r) /\ Tile(r, w) = Walk(l, r, t)[j]
    <2>1. Len(Walk(l, r, t)) \in Nat
      BY <1>1, WalkIs
    <2>2. j \in Nat \ {0} /\ j <= Len(Walk(l, r, t))
      BY <1>5, <2>1
    <2> QED BY <2>2 DEF Worked, Tile, l
  <1>7. InBlock(l, r, i, Tile(r, w))
    BY <1>5, <1>6 DEF InBlock, InPart, Task, e, m
  <1> HIDE DEF w
  <1> QED BY <1>6, <1>7 DEF WorkInv, Whole, l

LEMMA NoCleanPull ==
  ASSUME SchedulesFit, IInv, NEW r \in Ranks, NEW s \in SMs, DS(r, s) = 10
  PROVE  NoClean(r)
  <1>1. PcInv /\ LaunchInv /\ TodoInv /\ WorkInv(r)
    BY Parts DEF DataInv, WorksInv
  <1> SUFFICES ASSUME NEW t \in SMs, ~ (DS(r, t) <= 11)
               PROVE  FALSE
    BY DEF NoClean
  <1>2. ES(r, t) \in 1 .. 10 /\ ~ (ES(r, t) <= 8)
    BY <1>1, StageFacts
  <1>3. \A u \in SMs : ES(r, u) > 3
    <2> TAKE u \in SMs
    <2>1. ES(r, u) \in 1 .. 10 /\ (ES(r, u) <= 7 <=> ES(r, t) <= 7)
      BY <1>1, StageFacts
    <2> QED BY <1>2, <2>1
  <1> DEFINE i == s + NumSMs * todo[D(r, s)]
  <1>4. i \in Toks(launch[r], r) /\ todo[D(r, s)] \in Nat
    BY <1>1, TodoIs DEF TodoInv, TodoOK
  <1>5. i % NumSMs = s /\ i \div NumSMs = todo[D(r, s)]
    <2> DEFINE j == todo[D(r, s)]
    <2>1. j \in Nat /\ NumSMs \in Nat \ {0} /\ s \in 0 .. NumSMs - 1
      BY <1>4, Sizes1 DEF SMs
    <2> HIDE DEF j
    <2>2. (j * NumSMs + s) \div NumSMs = j /\ (j * NumSMs + s) % NumSMs = s
      BY <2>1, DivIs
    <2>3. j * NumSMs + s = s + NumSMs * j
      BY <2>1
    <2> QED BY <2>2, <2>3 DEF j
  <1> HIDE DEF i
  <1>6. i \notin Pulled(r)
    BY <1>4, <1>5 DEF Pulled
  <1> QED BY <1>1, <1>3, <1>4, <1>6, AllPulled

LEMMA NothingCleared ==
  ASSUME PcInv, NEW r \in Ranks, NoClean(r)
  PROVE  Cleared(r) = {} /\ \A e \in LocalExperts : Epoch(r, e) = launch[r]
  <1>1. Cleared(r) = {}
    <2> SUFFICES ASSUME NEW e \in Cleared(r) PROVE FALSE
      OBVIOUS
    <2>1. e \in LocalExperts
      BY DEF Cleared
    <2>2. Cleaner(e) \in SMs
      BY <2>1, CleanerIs
    <2>3. DS(r, Cleaner(e)) <= 11 /\ DS(r, Cleaner(e)) \in 1 .. 16
      BY <2>2, StageFacts DEF NoClean
    <2>4. DS(r, Cleaner(e)) >= 12
      BY <2>3 DEF Cleared
    <2> QED BY <2>3, <2>4
  <1> QED BY <1>1 DEF Epoch

(* The counts by rank are there, and so is the index.                       *)
LEMMA RecvIs ==
  ASSUME IInv, NEW r \in Ranks, NEW s \in SMs, DS(r, s) \in 8 .. 13, NoClean(r), NEW e \in LocalExperts
  PROVE  [q \in Ranks |-> recv[r][q][e]] = Vec(launch[r], r, e)
  <1>1. PcInv /\ LaunchInv /\ RoundInv /\ HeardInv(r)
    BY Parts DEF DataInv
  <1>2. Epoch(r, e) = launch[r]
    BY <1>1, NothingCleared
  <1>3. \A q \in Ranks : q \in Heard(r, e)
    <2> TAKE q \in Ranks
    <2>1. launch[q] = launch[r] /\ DS(q, 0) >= 6 /\ DS(q, 0) \in 1 .. 16
      BY <1>1, AllWork, StageFacts, ZeroSM
    <2>2. Glob(r, e) \in Told(q)
      BY <2>1, GlobalIs DEF Told
    <2> QED BY <1>2, <2>1, <2>2 DEF Heard
  <1>4. \A q \in Ranks : recv[r][q][e] = Cardinality(Sent(launch[r], q, Glob(r, e)))
    BY <1>1, <1>2, <1>3 DEF HeardInv
  <1> QED BY <1>4 DEF Vec

InIndex(l, r, i, from) ==
  /\ from[2].rank \in Ranks /\ from \in DOMAIN index[r]
  /\ \E g \in GlobalExperts, t \in SMs : \E x \in RoutesTo(l, from[2].rank, t, g) :
       index[r][from] = <<l, from[2].rank, x[1], x[2]>> /\ g = Glob(r, Task(l, r, i).expert)
LEMMA IndexHas ==
  ASSUME SchedulesFit, IInv, NEW r \in Ranks, NEW l, l = launch[r],
         \A q \in Ranks : launch[q] = l /\ \A t \in SMs : DS(q, t) >= 3, NEW i \in Toks(l, r)
  PROVE  InIndex(l, r, i, From(l, r, i))
  <1>1. PcInv /\ LaunchInv /\ l \in Nths /\ \A q \in Ranks : DataInv(q)
    BY Parts, LaunchIs
  <1> DEFINE e == Task(l, r, i).expert
             g == Glob(r, e)
  <1>2. PICK q \in Ranks : \E k \in 0 .. Cardinality(Sent(l, q, g)) - 1 :
          From(l, r, i) = <<e, [rank |-> q, slot |-> k]>>
    BY <1>1, FromIs
  <1>3. PICK k \in 0 .. Cardinality(Sent(l, q, g)) - 1 : From(l, r, i) = <<e, [rank |-> q, slot |-> k]>>
    BY <1>2
  <1>4. e \in LocalExperts
    BY <1>1, FromIs
  <1> HIDE DEF e
  <1>5. g \in GlobalExperts /\ Owner(g) = r /\ Local(g) = e
    BY <1>4, GlobalIs
  <1> HIDE DEF g
  <1>6. Claimed(q) = SMs /\ Indexed(q) = SMs
    <2>1. \A t \in SMs : DS(q, t) \in 1 .. 16 /\ DS(q, t) >= 3
      BY <1>1, StageFacts
    <2> QED BY <2>1 DEF Indexed, Claimed
  <1>7. Counted(q, g) = Sent(l, q, g)
    BY <1>6 DEF Counted, Sent
  <1>8. PICK t \in SMs : k \in Interval(q, t, g)
    <2>1. SlotInv(q)
      BY <1>1 DEF DataInv, SendsInv
    <2> QED BY <1>3, <1>5, <1>6, <1>7, <2>1 DEF SlotInv
  <1>9. PICK x \in RoutesTo(l, q, t, g) : Found(q, g, k, x)
    <2>1. IndexInv(q) /\ launch[q] = l
      BY <1>1 DEF DataInv, SendsInv
    <2> QED BY <1>5, <1>6, <1>8, <2>1 DEF IndexInv
  <1>10. From(l, r, i) = Key(q, g, k) /\ From(l, r, i)[2].rank = q
    BY <1>3, <1>5 DEF Key
  <1>11. From(l, r, i) \in DOMAIN index[r] /\ index[r][From(l, r, i)] = <<l, q, x[1], x[2]>>
    BY <1>5, <1>9, <1>10 DEF Found
  <1> QED BY <1>5, <1>9, <1>10, <1>11 DEF g, e, InIndex

(* What an SM pulls.                                                        *)
Next1(r, s) == s + NumSMs * todo[D(r, s)]
LEMMA PullIs ==
  ASSUME SchedulesFit, IInv, NEW r \in Ranks, NEW s \in SMs, DS(r, s) = 10, NEW l, l = launch[r],
         NEW i, i = Next1(r, s), NEW p, p = PlanOf(D(r, s))
  PROVE  /\ i \in Toks(l, r) /\ NoClean(r) /\ p = Plan[Tokens(l, r)]
         /\ NextPull(D(r, s), p) = [expert |-> Task(l, r, i).expert, idx |-> Task(l, r, i).idx, row |-> Row(l, r, i)]
         /\ PullFrom(r, NextPull(D(r, s), p)) = From(l, r, i)
  <1>1. LaunchInv /\ TodoInv /\ CountsInv /\ l \in Nths
    BY Parts, LaunchIs
  <1>2. i \in Toks(l, r)
    BY <1>1 DEF TodoInv, Next1
  <1>3. p = Plan[Tokens(l, r)]
    BY <1>1 DEF CountsInv, PlanOf
  <1>4. NoClean(r)
    BY NoCleanPull
  <1> DEFINE e == Task(l, r, i).expert
             d == Task(l, r, i).idx
             pull == [expert |-> e, idx |-> d, row |-> Row(l, r, i)]
  <1>5. NextPull(D(r, s), p) = pull
    <2>1. NextPull(D(r, s), p) = p.pulls[i]
      <3>1. D(r, s)[3] = s
        BY DEF D
      <3> QED BY <3>1 DEF NextPull, Next1
    <2> QED BY <1>1, <1>2, <1>3, <2>1, PlanIs
  <1>6. e \in LocalExperts /\ d \in 0 .. Received(l, r, e) - 1
    BY <1>1, <1>2, FromIs
  <1>7. PullFrom(r, pull) = From(l, r, i)
    <2>1. PullFrom(r, pull) = <<e, Sources[[q \in Ranks |-> recv[r][q][e]]][d]>>
      BY DEF PullFrom
    <2>2. [q \in Ranks |-> recv[r][q][e]] = Vec(l, r, e)
      BY <1>4, <1>6, RecvIs
    <2>3. Sources[Vec(l, r, e)][d] = PullSource(Vec(l, r, e), d)
      BY <1>1, <1>6, SourcesIs
    <2> QED BY <2>1, <2>2, <2>3 DEF From
  <1> HIDE DEF pull
  <1>8. NextPull(D(r, s), p) = pull /\ PullFrom(r, NextPull(D(r, s), p)) = From(l, r, i)
    BY <1>5, <1>7
  <1> QED BY <1>2, <1>3, <1>4, <1>8 DEF pull

(* The workspace after a token is pulled.                                   *)
Arrives(r, row, v) ==
  /\ pool' = [pool EXCEPT ![r] = Set(@, [x \in {row} |-> v])]
  /\ arrived' = [arrived EXCEPT ![r] = Set(@, [x \in {row \div BlockM} |-> Entry(@, x, 0) + 1])]

LEMMA ArrivesIs ==
  ASSUME Shape, NEW r \in Ranks, NEW row, NEW v, Arrives(r, row, v)
  PROVE  /\ pool' = [q \in Ranks |-> pool'[q]] /\ arrived' = [q \in Ranks |-> arrived'[q]]
         /\ \A q \in Ranks : q # r => pool'[q] = pool[q] /\ arrived'[q] = arrived[q]
         /\ row \in DOMAIN pool'[r] /\ pool'[r][row] = v
         /\ \A x \in DOMAIN pool[r] : x # row => x \in DOMAIN pool'[r] /\ pool'[r][x] = pool[r][x]
         /\ \A k : IF k = row \div BlockM THEN Entry(arrived'[r], k, 0) = Entry(arrived[r], k, 0) + 1
                   ELSE Entry(arrived'[r], k, 0) = Entry(arrived[r], k, 0)
  <1> DEFINE b == row \div BlockM
             f == [x \in {row} |-> v]
             g == [x \in {b} |-> Entry(arrived[r], x, 0) + 1]
  <1>1. pool = [q \in Ranks |-> pool[q]] /\ arrived = [q \in Ranks |-> arrived[q]]
    BY DEF Shape
  <1>2. pool' = [pool EXCEPT ![r] = Set(pool[r], f)] /\ arrived' = [arrived EXCEPT ![r] = Set(arrived[r], g)]
    BY DEF Arrives
  <1>3. DOMAIN f = {row} /\ f[row] = v /\ DOMAIN g = {b} /\ g[b] = Entry(arrived[r], b, 0) + 1
    OBVIOUS
  <1> HIDE DEF f, g, b
  <1>4. /\ pool' = [q \in Ranks |-> pool'[q]] /\ arrived' = [q \in Ranks |-> arrived'[q]]
        /\ \A q \in Ranks : q # r => pool'[q] = pool[q] /\ arrived'[q] = arrived[q]
        /\ pool'[r] = Set(pool[r], f) /\ arrived'[r] = Set(arrived[r], g)
    BY <1>1, <1>2
  <1>5. /\ row \in DOMAIN pool'[r] /\ pool'[r][row] = v
        /\ \A x \in DOMAIN pool[r] : x # row => x \in DOMAIN pool'[r] /\ pool'[r][x] = pool[r][x]
    BY <1>3, <1>4, SetIs
  <1>6. ASSUME NEW k
        PROVE  IF k = b THEN Entry(arrived'[r], k, 0) = Entry(arrived[r], k, 0) + 1
               ELSE Entry(arrived'[r], k, 0) = Entry(arrived[r], k, 0)
    <2>1. CASE k = b
      <3>1. k \in DOMAIN arrived'[r] /\ arrived'[r][k] = g[b]
        BY <1>3, <1>4, <2>1, SetIs
      <3>2. Entry(arrived'[r], k, 0) = g[b]
        BY <3>1 DEF Entry
      <3> QED BY <1>3, <2>1, <3>2
    <2>2. CASE k # b
      <3>1. k \in DOMAIN arrived'[r] <=> k \in DOMAIN arrived[r]
        BY <1>3, <1>4, <2>2, SetIs
      <3>2. k \in DOMAIN arrived[r] => arrived'[r][k] = arrived[r][k]
        BY <1>3, <1>4, <2>2, SetIs
      <3> QED BY <2>2, <3>1, <3>2 DEF Entry
    <2> QED BY <2>1, <2>2
  <1> QED BY <1>4, <1>5, <1>6 DEF b

LEMMA PullDoes ==
  ASSUME SchedulesFit, IInv, NEW r \in Ranks, NEW s \in SMs, Pull(r, s), NEW l, l = launch[r],
         NEW i, i = Next1(r, s)
  PROVE  /\ DS(r, s) = 10 /\ i \in Toks(l, r) /\ NoClean(r)
         /\ Arrives(r, Row(l, r, i), index[r][From(l, r, i)])
         /\ Turn(D(r, s), Turns(D(r, s), Plan[Tokens(l, r)]))
         /\ UNCHANGED <<barrier, launch, counts, slots, send, recv, sums, index, mask, hidden, combine>>
  <1> DEFINE a == D(r, s)
             p == PlanOf(a)
             pull == NextPull(a, p)
             from == PullFrom(r, pull)
             source == index[r][from]
  <1>1. PcInv /\ LaunchInv /\ RoundInv
    BY Parts
  <1>2. At(a, "pull") /\ PullNext(a, p) /\ a[2] = r
        /\ UNCHANGED <<barrier, launch, counts, slots, send, recv, sums, index, mask, hidden, combine>>
    BY DEF Pull, D
  <1>3. DS(r, s) = 10
    <2>1. DS(r, s) # 16 /\ DNames[DS(r, s)] = "pull" /\ DS(r, s) \in 1 .. 16
      BY <1>1, <1>2, AtD, StageFacts
    <2> QED BY <2>1 DEF DNames
  <1>4. PullToken(r, pull, from, source) /\ Turn(a, Turns(a, p))
    BY <1>2 DEF PullNext
  <1>5. /\ i \in Toks(l, r) /\ NoClean(r) /\ p = Plan[Tokens(l, r)]
        /\ pull = [expert |-> Task(l, r, i).expert, idx |-> Task(l, r, i).idx, row |-> Row(l, r, i)]
        /\ from = From(l, r, i)
    BY <1>3, PullIs
  <1>6. pull.row = Row(l, r, i)
    BY <1>5
  <1> HIDE DEF p, pull, from
  <1>7. <<launch[from[2].rank], from[2].rank, source[3], source[4]>> = source
    <2>1. \A q \in Ranks : launch[q] = l /\ \A t \in SMs : DS(q, t) >= 3
      <3>1. \A q \in Ranks, t \in SMs : launch[q] = l /\ DS(q, t) >= 4 /\ DS(q, t) \in 1 .. 16
        BY <1>1, <1>3, AllWork, StageFacts
      <3> QED BY <3>1
    <2>2. from[2].rank \in Ranks /\ \E g \in GlobalExperts, t \in SMs : \E x \in RoutesTo(l, from[2].rank, t, g) :
              source = <<l, from[2].rank, x[1], x[2]>>
      <3>1. InIndex(l, r, i, From(l, r, i))
        BY <1>5, <2>1, IndexHas
      <3>2. InIndex(l, r, i, from)
        BY <1>5, <3>1
      <3> QED BY <3>2 DEF InIndex
    <2> QED BY <2>1, <2>2
  <1>8. Arrives(r, Row(l, r, i), source)
    BY <1>4, <1>6, <1>7 DEF PullToken, Arrives
  <1> QED BY <1>2, <1>3, <1>4, <1>5, <1>8

(* The tokens pulled are those so far and that one.                         *)
LEMMA PulledAdd ==
  ASSUME PcInv, LaunchInv, TodoInv, NEW r \in Ranks, NEW s \in SMs, DS(r, s) = 10, launch' = launch,
         NEW more, more = (Next1(r, s) + NumSMs \in Toks(launch[r], r)),
         OnlyD(r, s, IF more THEN 10 ELSE 11), SetD(r, s, IF more THEN todo[D(r, s)] + 1 ELSE 0)
  PROVE  /\ Next1(r, s) \notin Pulled(r) /\ Pulled(r)' = Pulled(r) \cup {Next1(r, s)}
  <1> DEFINE l == launch[r]
             n == todo[D(r, s)]
             i == Next1(r, s)
             m == IF more THEN n + 1 ELSE 0
             k == IF more THEN 10 ELSE 11
  <1>1. l \in Nths /\ n \in Nat /\ i \in Toks(l, r) /\ i = s + NumSMs * n
    <2>1. l \in Nths
      BY LaunchIs
    <2>2. n \in Nat
      BY TodoIs DEF TodoInv, TodoOK
    <2> QED BY <2>1, <2>2 DEF TodoInv, Next1
  <1>2. \A t \in SMs : DS(r, t)' = IF t = s THEN k ELSE DS(r, t)
    BY DEF OnlyD
  <1>3. \A t \in SMs : todo'[D(r, t)] = IF t = s THEN m ELSE todo[D(r, t)]
    <2>1. m \in Nat /\ todo \in [Agents -> Nat]
      BY <1>1 DEF TodoInv
    <2> HIDE DEF m
    <2>2. SetD(r, s, m)
      BY DEF m
    <2> QED BY <2>1, <2>2, TodoMove
  <1>4. NumSMs \in Nat \ {0} /\ s \in 0 .. NumSMs - 1
    BY Sizes1 DEF SMs
  <1>5. i % NumSMs = s /\ i \div NumSMs = n
    <2> HIDE DEF n
    <2>1. (n * NumSMs + s) \div NumSMs = n /\ (n * NumSMs + s) % NumSMs = s
      BY <1>1, <1>4, DivIs
    <2>2. n * NumSMs + s = s + NumSMs * n
      BY <1>1, <1>4
    <2> QED BY <1>1, <2>1, <2>2
  <1>6. ASSUME NEW j \in Toks(l, r)
        PROVE  (j \in Pulled(r))' <=> (j \in Pulled(r) \/ j = i)
    <2> DEFINE t == j % NumSMs
               u == j \div NumSMs
    <2>1. t \in SMs /\ u \in Nat /\ j = t + NumSMs * u /\ j \in Nat
      BY <1>1, TokIs
    <2>2. /\ j \in Pulled(r) <=> (DS(r, t) > 10 \/ (DS(r, t) = 10 /\ u < todo[D(r, t)]))
          /\ (j \in Pulled(r))' <=> (DS(r, t)' > 10 \/ (DS(r, t)' = 10 /\ u < todo'[D(r, t)]))
      BY DEF Pulled
    <2> HIDE DEF t, u
    <2>3. CASE t # s
      <3>1. j # i
        BY <1>5, <2>3 DEF t
      <3> QED BY <1>2, <1>3, <2>1, <2>2, <2>3, <3>1
    <2>4. CASE t = s
      <3>1. j = i <=> u = n
        BY <1>1, <1>5, <2>1, <2>4 DEF u
      <3>2. (j \in Pulled(r) <=> u < n) /\ ((j \in Pulled(r))' <=> (~ more \/ u < m))
        BY <1>2, <1>3, <2>1, <2>2, <2>4
      <3>3. CASE more
        <4> HIDE DEF n, i
        <4> QED BY <1>1, <2>1, <3>1, <3>2, <3>3
      <3>4. CASE ~ more
        <4>1. ~ (u > n)
          <5> SUFFICES ASSUME u > n PROVE more
            BY <3>4
          <5> HIDE DEF n, i
          <5>1. n + 1 <= u /\ NumSMs \in Nat
            BY <1>1, <1>4, <2>1
          <5>2. (n + 1) * NumSMs <= u * NumSMs
            BY <1>1, <2>1, <5>1, TimesLeq
          <5>3. i + NumSMs <= j /\ i + NumSMs \in Nat
            BY <1>1, <1>4, <2>1, <2>4, <5>1, <5>2
          <5>4. i + NumSMs \in Toks(l, r)
            <6>1. TotalTokens(Ins(l, r)) \in Nat
              BY <1>1, TokIs
            <6> QED BY <5>3, <6>1, <2>1 DEF Toks
          <5> QED BY <5>4 DEF i
        <4> QED BY <1>1, <2>1, <3>1, <3>2, <3>4, <4>1
      <3> QED BY <3>3, <3>4
    <2> QED BY <2>3, <2>4
  <1>7. (Pulled(r) \subseteq Toks(l, r)) /\ (Pulled(r)' \subseteq Toks(l, r))
    BY DEF Pulled
  <1>8. i \notin Pulled(r)
    BY <1>1, <1>5 DEF Pulled
  <1> HIDE DEF i
  <1>9. Pulled(r)' = Pulled(r) \cup {i}
    BY <1>1, <1>6, <1>7
  <1> QED BY <1>8, <1>9 DEF i

LEMMA PullData ==
  ASSUME Shape, LaunchInv, NEW r \in Ranks, WorksInv(r), NoClean(r), Cleared(r) = {}, NEW l, l = launch[r],
         NEW i \in Toks(l, r), i \notin Pulled(r), Pulled(r)' = Pulled(r) \cup {i},
         Arrives(r, Row(l, r, i), index[r][From(l, r, i)]), UNCHANGED <<launch, index, mask, hidden>>,
         Worked(r)' = Worked(r), Cleared(r)' = Cleared(r), Working(r)' => Working(r)
  PROVE  WorksInv(r)'
  <1> DEFINE row == Row(l, r, i)
             b == row \div BlockM
             v == index[r][From(l, r, i)]
  <1>1. /\ l \in Nths /\ Tokens(l, r) \in Plans /\ launch'[r] = l /\ index'[r] = index[r]
        /\ mask'[r] = mask[r] /\ hidden'[r] = hidden[r]
    BY LaunchIs, TokensAre
  <1>2. Pulled(r) \subseteq Toks(l, r)
    BY DEF Pulled
  <1>3. /\ row \in DOMAIN pool'[r] /\ pool'[r][row] = v
        /\ \A x \in DOMAIN pool[r] : x # row => x \in DOMAIN pool'[r] /\ pool'[r][x] = pool[r][x]
        /\ \A k : IF k = b THEN Entry(arrived'[r], k, 0) = Entry(arrived[r], k, 0) + 1
                  ELSE Entry(arrived'[r], k, 0) = Entry(arrived[r], k, 0)
    BY ArrivesIs
  <1>4. PoolInv(r) /\ ArrivedInv(r) /\ MaskInv(r) /\ DirtyInv(r) /\ WorkInv(r)
    BY DEF WorksInv
  <1>5. PoolInv(r)'
    <2> SUFFICES ASSUME Working(r), NEW j \in Pulled(r) \cup {i}
                 PROVE  Row(l, r, j) \in DOMAIN pool'[r] /\ pool'[r][Row(l, r, j)] = index[r][From(l, r, j)]
      BY <1>1 DEF PoolInv
    <2>1. CASE j = i
      BY <1>3, <2>1
    <2>2. CASE j # i
      <3>1. j \in Pulled(r) /\ j \in Toks(l, r)
        BY <1>2, <2>2
      <3>2. Row(l, r, j) # row
        BY <1>1, <2>2, <3>1, RowsApart DEF Row, Toks, Ins
      <3>3. Row(l, r, j) \in DOMAIN pool[r] /\ pool[r][Row(l, r, j)] = index[r][From(l, r, j)]
        BY <1>4, <3>1 DEF PoolInv
      <3> QED BY <1>3, <3>2, <3>3
    <2> QED BY <2>1, <2>2
  <1>6. ArrivedInv(r)'
    <2> SUFFICES ASSUME NEW k \in Nat
                 PROVE  Entry(arrived'[r], k, 0) = Cardinality(Arrivals(r, k)')
      BY DEF ArrivedInv
    <2>1. Entry(arrived[r], k, 0) = Cardinality(Arrivals(r, k))
      BY <1>4 DEF ArrivedInv
    <2>2. Arrivals(r, k)' = {j \in Pulled(r) \cup {i} : Row(l, r, j) \div BlockM = k}
      BY <1>1 DEF Arrivals
    <2>3. CASE k # b
      <3>1. Arrivals(r, k)' = Arrivals(r, k)
        BY <2>2, <2>3 DEF Arrivals
      <3> QED BY <1>3, <2>1, <2>3, <3>1
    <2>4. CASE k = b
      <3>1. Arrivals(r, k)' = Arrivals(r, k) \cup {i} /\ i \notin Arrivals(r, k)
        BY <2>2, <2>4 DEF Arrivals
      <3>2. IsFiniteSet(Arrivals(r, k))
        <4>1. IsFiniteSet(Toks(l, r))
          <5>1. TotalTokens(Ins(l, r)) \in Nat
            BY <1>1, TokIs
          <5> QED BY <5>1, FS_Interval DEF Toks
        <4>2. Arrivals(r, k) \subseteq Toks(l, r)
          BY <1>2 DEF Arrivals
        <4> QED BY <4>1, <4>2, FS_Subset
      <3>3. Cardinality(Arrivals(r, k)') = Cardinality(Arrivals(r, k)) + 1
        BY <3>1, <3>2, OneMore
      <3> QED BY <1>3, <2>1, <2>4, <3>3
    <2> QED BY <2>3, <2>4
  <1>7. MaskInv(r)'
    BY <1>1, <1>4, KeepMask
  <1>8. DirtyInv(r)'
    <2> SUFFICES ASSUME NEW k \in Nat, Entry(arrived'[r], k, 0) # 0 \/ Entry(mask[r], k, {}) # {}
                 PROVE  \E e \in LocalExperts \ Cleared(r) : k \in Own(l, r, e)
      BY <1>1 DEF DirtyInv
    <2>1. CASE k = b
      <3>1. Task(l, r, i).expert \in LocalExperts /\ b \in Own(l, r, Task(l, r, i).expert)
        BY <1>1, RowIs DEF Row, Toks, Task, Own, Ins
      <3> QED BY <2>1, <3>1
    <2>2. CASE k # b
      <3>1. Entry(arrived'[r], k, 0) = Entry(arrived[r], k, 0)
        BY <1>3, <2>2
      <3> QED BY <1>4, <3>1 DEF DirtyInv
    <2> QED BY <2>1, <2>2
  <1>9. WorkInv(r)'
    BY <1>1, <1>4, KeepWork
  <1> QED BY <1>5, <1>6, <1>7, <1>8, <1>9 DEF WorksInv

LEMMA PullStep ==
  ASSUME SchedulesFit, IInv, NEW r \in Ranks, NEW s \in SMs, Pull(r, s)
  PROVE  IInv'
  <1> DEFINE l == launch[r]
             i == Next1(r, s)
             n == todo[D(r, s)]
             more == (i + NumSMs \in Toks(l, r))
             k == IF more THEN 10 ELSE 11
             m == IF more THEN n + 1 ELSE 0
  <1>1. PcInv /\ LaunchInv /\ RoundInv /\ TodoInv /\ CountsInv /\ Shape /\ \A q \in Ranks : DataInv(q)
    BY Parts
  <1>2. /\ DS(r, s) = 10 /\ i \in Toks(l, r) /\ NoClean(r)
        /\ Arrives(r, Row(l, r, i), index[r][From(l, r, i)])
        /\ Turn(D(r, s), Turns(D(r, s), Plan[Tokens(l, r)]))
        /\ UNCHANGED <<barrier, launch, counts, slots, send, recv, sums, index, mask, hidden, combine>>
    BY PullDoes
  <1>3. n \in Nat /\ l \in Nths /\ i = s + NumSMs * n /\ NumSMs \in Nat /\ s \in Nat
    BY <1>1, TodoIs, LaunchIs, Sizes1 DEF TodoInv, TodoOK, Next1, SMs
  <1>4. s + NumSMs * (n + 1) = i + NumSMs
    <2> HIDE DEF n, i
    <2> QED BY <1>3
  <1>5. OnlyD(r, s, k) /\ pc' \in [Agents -> Nat \ {0}] /\ SetD(r, s, m)
    <2> DEFINE T == Turns(D(r, s), Plan[Tokens(l, r)])
    <2>1. T \in Nat /\ (n + 1 < T <=> s + NumSMs * (n + 1) \in Toks(l, r))
      <3>1. T \in Nat /\ \A j \in Nat : j < T <=> s + NumSMs * j \in Toks(l, r)
        BY <1>3, TurnsAre
      <3>2. n + 1 \in Nat
        BY <1>3
      <3> HIDE DEF T
      <3> QED BY <3>1, <3>2
    <2>2. NextD(s, 10) = 11
      BY DEF NextD
    <2>3. more = (n + 1 < T)
      BY <1>4, <2>1
    <2> HIDE DEF T, more, n, i, l
    <2>4. Turn(D(r, s), T) /\ more = (todo[D(r, s)] + 1 < T)
      BY <1>2, <2>3 DEF T, n
    <2>5. /\ OnlyD(r, s, IF more THEN DS(r, s) ELSE NextD(s, DS(r, s))) /\ pc' \in [Agents -> Nat \ {0}]
          /\ SetD(r, s, IF more THEN todo[D(r, s)] + 1 ELSE 0)
      BY <1>1, <1>2, <2>1, <2>4, TurnD
    <2> QED BY <1>2, <2>2, <2>5 DEF n
  <1>6. k \in {10, 11} /\ m \in Nat /\ (k = 11 => m = 0) /\ (k = 10 => s + NumSMs * m \in Toks(l, r))
    <2>1. more => s + NumSMs * (n + 1) \in Toks(l, r)
      BY <1>4
    <2> HIDE DEF n, i, more
    <2> QED BY <1>3, <2>1
  <1>7. i \notin Pulled(r) /\ Pulled(r)' = Pulled(r) \cup {i}
    <2>1. launch' = launch
      BY <1>2
    <2> HIDE DEF more
    <2>2. more = (Next1(r, s) + NumSMs \in Toks(launch[r], r))
      BY DEF more
    <2> QED BY <1>1, <1>2, <1>5, <2>1, <2>2, PulledAdd
  <1> HIDE DEF k, m, more, i, n
  <1>8. \A q \in Ranks, t \in SMs : ES(q, t)' = ES(q, t) /\ DS(q, t)' = (IF q = r /\ t = s THEN k ELSE DS(q, t))
    BY <1>5 DEF OnlyD
  <1>9. PcInv'
    BY <1>1, <1>2, <1>5, <1>6, KeepsD
  <1>10. RoundInv'
    BY <1>1, <1>2, <1>6, <1>8, <1>9, ZeroSM, KeepRounds
  <1>11. TodoInv' /\ LaunchInv' /\ TodoOK /\ TodoOK'
    <2>1. TodoInv' /\ TodoOK /\ TodoOK'
      BY <1>1, <1>2, <1>5, <1>6, TodoD
    <2> QED BY <1>1, <1>2, <2>1 DEF LaunchInv
  <1>12. CountsInv'
    BY <1>1, <1>2, <1>6, <1>8, KeepCounts
  <1>13. StagesOK /\ StagesOK'
    <2>1. StagesOK
      BY <1>1, StagesAre
    <2> QED BY <1>1, <1>6, <1>8, <2>1 DEF StagesOK
  <1>14. \A q \in Ranks, t \in SMs : /\ todo'[E(q, t)] = todo[E(q, t)]
                                     /\ (q # r \/ t # s) => todo'[D(q, t)] = todo[D(q, t)]
    BY <1>1, <1>5, <1>6, TodoMove DEF TodoInv
  <1>15. ASSUME NEW q \in Ranks
         PROVE  /\ SameSends(q) /\ SameHears(q) /\ Worked(q)' = Worked(q) /\ (NoClean(q)' => NoClean(q))
                /\ (Working(q)' => Working(q)) /\ (Reducing(q)' => Reducing(q))
    <2>1. SameSends(q)
      BY <1>2, <1>6, <1>8, ZeroSM, ClaimsSame
    <2>2. Cleared(q)' = Cleared(q)
      BY <1>2, <1>6, <1>8, <1>11, <1>13, <1>14, ClearedSame DEF Still
    <2>3. Told(q)' = Told(q)
      BY <1>2, <1>6, <1>8, <1>11, <1>13, <1>14, ZeroSM, ToldSame DEF Still
    <2>4. Worked(q)' = Worked(q)
      BY <1>2, <1>8, <1>11, <1>13, <1>14, WorkedSame DEF Still
    <2>5. (NoClean(q)' => NoClean(q)) /\ (Working(q)' => Working(q)) /\ (Reducing(q)' => Reducing(q))
      BY <1>2, <1>6, <1>8, ZeroSM DEF NoClean, Working, Reducing
    <2> QED BY <2>1, <2>2, <2>3, <2>4, <2>5 DEF SameHears
  <1>16. \A q \in Ranks : q # r => Pulled(q)' = Pulled(q)
    BY <1>1, <1>2, <1>8, <1>11, <1>13, <1>14, PulledSame DEF Still
  <1>17. /\ pool' = [q \in Ranks |-> pool'[q]] /\ arrived' = [q \in Ranks |-> arrived'[q]]
         /\ \A q \in Ranks : q # r => pool'[q] = pool[q] /\ arrived'[q] = arrived[q]
    BY <1>1, <1>2, ArrivesIs
  <1>18. ASSUME NEW q \in Ranks
         PROVE  DataInv(q)'
    <2>1. SendsInv(q)' /\ HeardInv(q)'
      BY <1>1, <1>2, <1>15, KeepSends, KeepHears DEF DataInv
    <2>2. WorksInv(q)'
      <3>1. CASE q = r
        <4>1. Cleared(r) = {}
          BY <1>1, <1>2, NothingCleared
        <4>2. UNCHANGED <<launch, index, mask, hidden>> /\ WorksInv(r)
          BY <1>1, <1>2 DEF DataInv
        <4>3. Cleared(r)' = Cleared(r)
          BY <1>15 DEF SameHears
        <4> QED BY <1>1, <1>2, <1>7, <1>15, <3>1, <4>1, <4>2, <4>3, PullData
      <3>2. CASE q # r
        BY <1>1, <1>2, <1>15, <1>16, <1>17, <3>2, KeepWorks DEF DataInv, SameWorks, SameDone, SameHears
      <3> QED BY <3>1, <3>2
    <2>3. BacksInv(q)'
      BY <1>1, <1>2, <1>15, KeepBack, KeepReduce DEF DataInv, BacksInv
    <2> QED BY <2>1, <2>2, <2>3 DEF DataInv
  <1>19. Shape'
    BY <1>1, <1>2, <1>17 DEF Shape
  <1> QED BY <1>9, <1>10, <1>11, <1>12, <1>18, <1>19 DEF IInv, Control

-----------------------------------------------------------------------------
(* Computing.                                                               *)

LEMMA NoCleanCompute ==
  ASSUME PcInv, NEW r \in Ranks, NEW s \in SMs, ES(r, s) = 3
  PROVE  NoClean(r) /\ DS(r, s) \in 9 .. 11
  <1>1. DS(r, s) \in 9 .. 11
    BY StageFacts
  <1> SUFFICES ASSUME NEW t \in SMs, ~ (DS(r, t) <= 11)
               PROVE  FALSE
    BY <1>1 DEF NoClean
  <1>2. ES(r, t) \in 1 .. 10 /\ ~ (ES(r, t) <= 8) /\ (ES(r, t) <= 7 <=> ES(r, s) <= 7)
    BY StageFacts
  <1> QED BY <1>2

(* A block whose wait is over has all its tokens, and its linear-1 outputs. *)
LEMMA LoadWhole ==
  ASSUME LaunchInv, NEW r \in Ranks, WorksInv(r), NoClean(r), NEW l, l = launch[r],
         NEW b, IsBlock(l, r, b), NEW k, k = PoolBlock(Ins(l, r), b), Loadable(r, Ins(l, r), b, k)
  PROVE  Whole(r, b) /\ (b.phase = 2 => \A n \in 0 .. L1BlockNs - 1 : Entry(hidden[r], <<k, n>>, 0) = l)
  <1> DEFINE c == Ins(l, r)
             in == {x \in Toks(l, r) : InPart(c, x, b.expert, b.m)}
  <1>1. /\ l \in Nths /\ Tokens(l, r) \in Plans /\ c = Instance(Tokens(l, r))
        /\ b.expert \in LocalExperts /\ b.m \in 0 .. NumMBlocks(c, b.expert) - 1
    BY LaunchIs, TokensAre DEF IsBlock, Ins
  <1>2. /\ k \in Nat
        /\ \A i \in Toks(l, r) : Row(l, r, i) \div BlockM = k <=> InBlock(l, r, i, b)
        /\ IsFiniteSet(in) /\ Cardinality(in) = ValidM(c, b.expert, b.m)
    <2> HIDE DEF c
    <2>1. /\ k \in Nat
          /\ \A i \in 0 .. TotalTokens(c) - 1 : PlanRow(c, i) \div BlockM = k <=> InPart(c, i, b.expert, b.m)
          /\ IsFiniteSet({x \in 0 .. TotalTokens(c) - 1 : InPart(c, x, b.expert, b.m)})
          /\ Cardinality({x \in 0 .. TotalTokens(c) - 1 : InPart(c, x, b.expert, b.m)}) = ValidM(c, b.expert, b.m)
      <3>1. k = PoolBlock(c, b)
        BY DEF c
      <3> QED BY <1>1, <3>1, PartIs
    <2> QED BY <2>1 DEF c, Toks, Row, InBlock
  <1>3. CASE b.phase = 1
    <2>1. Entry(arrived[r], k, 0) = ValidM(c, b.expert, b.m)
      BY <1>3 DEF Loadable
    <2>2. Cardinality(Arrivals(r, k)) = Cardinality(in)
      BY <1>2, <2>1 DEF WorksInv, ArrivedInv
    <2>3. Arrivals(r, k) \in SUBSET in
      <3>1. Pulled(r) \subseteq Toks(l, r)
        BY DEF Pulled
      <3> QED BY <1>2, <3>1 DEF Arrivals, InBlock
    <2> HIDE DEF in
    <2>4. Arrivals(r, k) = in
      BY <1>2, <2>2, <2>3, SameSize
    <2> QED BY <1>3, <2>4 DEF Arrivals, in, Whole, InBlock
  <1>4. CASE b.phase = 2
    <2>1. Entry(mask[r], k, {}) = 0 .. L1BlockNs - 1
      BY <1>4 DEF Loadable
    <2>2. 0 \in 0 .. L1BlockNs - 1
      BY Sizes1
    <2>3. \A n \in 0 .. L1BlockNs - 1 :
            /\ Entry(hidden[r], <<k, n>>, 0) = l
            /\ \A i \in Toks(l, r) : Row(l, r, i) \div BlockM = k => i \in Pulled(r)
      BY <1>2, <2>1 DEF WorksInv, MaskInv
    <2> QED BY <1>2, <2>2, <2>3 DEF Whole
  <1> QED BY <1>3, <1>4 DEF IsBlock

(* What an SM computes.                                                     *)
At1(r, s) == todo[E(r, s)] + 1
LEMMA ComputeIs ==
  ASSUME SchedulesFit, IInv, NEW r \in Ranks, NEW s \in SMs, ES(r, s) = 3, NEW l, l = launch[r],
         NEW p, p = PlanOf(E(r, s)), NEW b, b = Tile(r, <<s, At1(r, s)>>)
  PROVE  /\ At1(r, s) \in Nat \ {0} /\ At1(r, s) <= Len(Walk(l, r, s)) /\ Len(Walk(l, r, s)) \in Nat
         /\ Instance(counts[E(r, s)]) = Ins(l, r) /\ p = Plan[Tokens(l, r)]
         /\ Block(E(r, s), p) = b /\ IsBlock(l, r, b)
         /\ NoClean(r) /\ Working(r)
         /\ \A q \in Ranks : launch[q] = l /\ \A t \in SMs : DS(q, t) >= 3
  <1>1. PcInv /\ LaunchInv /\ RoundInv /\ TodoInv /\ CountsInv /\ l \in Nths
    BY Parts, LaunchIs
  <1> DEFINE n == todo[E(r, s)]
  <1>2. n \in Nat /\ n < Len(Walk(l, r, s)) /\ Len(Walk(l, r, s)) \in Nat
    BY <1>1, TodoIs, WalkIs DEF TodoInv, TodoOK
  <1>3. counts[E(r, s)] = Tokens(l, r)
    BY <1>1 DEF CountsInv
  <1>4. p = Plan[Tokens(l, r)] /\ Instance(counts[E(r, s)]) = Ins(l, r)
    BY <1>3 DEF PlanOf, Ins
  <1>5. Block(E(r, s), p) = Walk(l, r, s)[n + 1]
    <2>1. E(r, s)[3] = s
      BY DEF E
    <2>2. p.blocks[s] = Walk(l, r, s)
      BY <1>1, <1>4, PlanIs
    <2> QED BY <2>1, <2>2 DEF Block
  <1>6. b = Walk(l, r, s)[n + 1]
    BY DEF Tile, At1
  <1>7. n + 1 \in 1 .. Len(Walk(l, r, s))
    <2> HIDE DEF n
    <2> QED BY <1>2
  <1>8. IsBlock(l, r, b)
    <2> HIDE DEF n
    <2> QED BY <1>1, <1>6, <1>7, WalkIs
  <1>9. At1(r, s) \in Nat \ {0} /\ At1(r, s) <= Len(Walk(l, r, s))
    BY <1>2, <1>7 DEF At1
  <1>10. NoClean(r) /\ DS(r, s) \in 8 .. 13
    BY <1>1, NoCleanCompute
  <1>11. Working(r) /\ \A q \in Ranks, t \in SMs : launch[q] = l /\ DS(q, t) >= 4 /\ DS(q, t) \in 1 .. 16
    BY <1>1, <1>10, AllWork, StageFacts
  <1>12. \A q \in Ranks : launch[q] = l /\ \A t \in SMs : DS(q, t) >= 3
    BY <1>11, ZeroSM
  <1> QED BY <1>2, <1>4, <1>5, <1>6, <1>8, <1>9, <1>10, <1>11, <1>12

LEMMA ComputeDoes ==
  ASSUME SchedulesFit, IInv, NEW r \in Ranks, NEW s \in SMs, Compute(r, s), NEW l, l = launch[r],
         NEW b, b = Tile(r, <<s, At1(r, s)>>), NEW k, k = PoolBlock(Ins(l, r), b)
  PROVE  /\ ES(r, s) = 3 /\ Loadable(r, Ins(l, r), b, k)
         /\ Linear1(r, b, k) \/ Linear2(r, Ins(l, r), b, k)
         /\ Turn(E(r, s), Len(Walk(l, r, s)))
         /\ UNCHANGED <<barrier, launch, counts, slots, send, recv, sums, index, pool, arrived>>
  <1> DEFINE a == E(r, s)
             p == PlanOf(a)
             c == Instance(counts[a])
  <1>1. PcInv /\ l \in Nths
    BY Parts, LaunchIs
  <1>2. At(a, "compute") /\ ComputeNext(a, p, c) /\ a[2] = r
        /\ UNCHANGED <<barrier, launch, counts, slots, send, recv, sums, index, pool, arrived>>
    BY DEF Compute, E
  <1>3. ES(r, s) = 3
    <2>1. ES(r, s) # 10 /\ ENames[ES(r, s)] = "compute" /\ ES(r, s) \in 1 .. 10
      BY <1>1, <1>2, AtE, StageFacts
    <2> QED BY <2>1 DEF ENames
  <1>4. c = Ins(l, r) /\ p = Plan[Tokens(l, r)] /\ Block(a, p) = b
    BY <1>3, ComputeIs
  <1>5. Turns(a, p) = Len(Walk(l, r, s))
    BY <1>1, <1>4, TurnsAre
  <1> HIDE DEF p, c
  <1>6. ComputeBlock(r, Ins(l, r), b, k) /\ Turn(a, Len(Walk(l, r, s)))
    BY <1>2, <1>4, <1>5 DEF ComputeNext
  <1> QED BY <1>2, <1>3, <1>6 DEF ComputeBlock

LEMMA TodoE ==
  ASSUME PcInv, TodoInv, launch' = launch, NEW r \in Ranks, NEW s \in SMs, NEW k \in 1 .. 10, OnlyE(r, s, k),
         NEW m \in Nat, SetE(r, s, m), k # 3 => m = 0, k = 3 => m < Len(Walk(launch[r], r, s))
  PROVE  TodoInv' /\ TodoOK /\ TodoOK'
  <1>1. /\ todo' \in [Agents -> Nat]
        /\ \A q \in Ranks, t \in SMs : /\ todo'[D(q, t)] = todo[D(q, t)]
                                       /\ todo'[E(q, t)] = (IF q = r /\ t = s THEN m ELSE todo[E(q, t)])
    <2>1. todo \in [Agents -> Nat]
      BY DEF TodoInv
    <2> QED BY <2>1, TodoMoveE
  <1>2. \A q \in Ranks, t \in SMs : DS(q, t)' = DS(q, t) /\ ES(q, t)' = (IF q = r /\ t = s THEN k ELSE ES(q, t))
    BY DEF OnlyE
  <1> DEFINE N == NumRanks * NumExperts
  <1> HIDE DEF N
  <1>3. ASSUME NEW q \in Ranks, NEW t \in SMs
        PROVE  /\ DS(q, t)' \notin {4, 10, 12} => todo'[D(q, t)] = 0
               /\ ES(q, t)' # 3 => todo'[E(q, t)] = 0
               /\ DS(q, t)' = 4 => todo'[D(q, t)] < N
               /\ DS(q, t)' = 10 => t + NumSMs * todo'[D(q, t)] \in Toks(launch'[q], q)
               /\ ES(q, t)' = 3 => todo'[E(q, t)] < Len(Walk(launch'[q], q, t))
    <2>1. CASE q = r /\ t = s
      BY <1>1, <1>2, <2>1 DEF TodoInv, N
    <2>2. CASE ~ (q = r /\ t = s)
      BY <1>1, <1>2, <2>2 DEF TodoInv, N
    <2> QED BY <2>1, <2>2
  <1>4. TodoInv'
    BY <1>1, <1>3 DEF TodoInv, N
  <1> QED BY <1>1, <1>4 DEF TodoInv, TodoOK

LEMMA WorkedAdd ==
  ASSUME TodoOK, StagesOK, NEW r \in Ranks, NEW s \in SMs, ES(r, s) = 3, launch' = launch,
         NEW N \in Nat, N = Len(Walk(launch[r], r, s)), At1(r, s) <= N,
         NEW more, more = (At1(r, s) < N),
         OnlyE(r, s, IF more THEN 3 ELSE 4), SetE(r, s, IF more THEN todo[E(r, s)] + 1 ELSE 0)
  PROVE  Worked(r)' = Worked(r) \cup {<<s, At1(r, s)>>}
  <1> DEFINE l == launch[r]
             n == todo[E(r, s)]
             k == IF more THEN 3 ELSE 4
             m == IF more THEN n + 1 ELSE 0
  <1>1. n \in Nat /\ At1(r, s) = n + 1
    BY TodoIs DEF At1
  <1>2. \A t \in SMs : ES(r, t)' = (IF t = s THEN k ELSE ES(r, t))
    BY DEF OnlyE
  <1>3. \A t \in SMs : todo'[E(r, t)] = (IF t = s THEN m ELSE todo[E(r, t)])
    <2>1. m \in Nat /\ todo \in [Agents -> Nat]
      BY <1>1 DEF TodoOK
    <2> HIDE DEF m
    <2>2. SetE(r, s, m)
      BY DEF m
    <2> QED BY <2>1, <2>2, TodoMoveE
  <1>4. ASSUME NEW t \in SMs, NEW j \in Nat \ {0}
        PROVE  (<<t, j>> \in Worked(r))' <=> (<<t, j>> \in Worked(r) \/ (t = s /\ j = n + 1))
    <2>1. /\ <<t, j>> \in Worked(r) <=> (j <= Len(Walk(l, r, t)) /\ (ES(r, t) > 3 \/ (ES(r, t) = 3 /\ j <= todo[E(r, t)])))
          /\ (<<t, j>> \in Worked(r))' <=>
               (j <= Len(Walk(l, r, t)) /\ (ES(r, t)' > 3 \/ (ES(r, t)' = 3 /\ j <= todo'[E(r, t)])))
      BY DEF Worked
    <2>2. CASE t # s
      BY <1>2, <1>3, <2>1, <2>2
    <2>3. CASE t = s
      <3> HIDE DEF n
      <3>1. ES(r, s) = 3 /\ ES(r, s)' = k /\ todo'[E(r, s)] = m
        BY <1>2, <1>3
      <3>2. <<t, j>> \in Worked(r) <=> (j <= N /\ j <= n)
        BY <2>1, <2>3, <3>1 DEF n
      <3>3. (<<t, j>> \in Worked(r))' <=> (j <= N /\ (~ more \/ j <= m))
        BY <2>1, <2>3, <3>1
      <3>4. CASE more
        BY <1>1, <2>3, <3>2, <3>3, <3>4
      <3>5. CASE ~ more
        <4>1. ~ (At1(r, s) < N)
          BY <3>5
        <4>2. At1(r, s) = n + 1 /\ n \in Nat /\ At1(r, s) <= N
          BY <1>1
        <4>3. N = n + 1
          <5> DEFINE x == At1(r, s)
          <5>1. ~ (x < N) /\ x = n + 1 /\ x <= N
            BY <4>1, <4>2
          <5> HIDE DEF x
          <5> QED BY <4>2, <5>1
        <4> QED BY <1>1, <2>3, <3>2, <3>3, <3>5, <4>3
      <3> QED BY <3>4, <3>5
    <2> QED BY <2>2, <2>3
  <1>5. Worked(r) \subseteq SMs \X (Nat \ {0}) /\ Worked(r)' \subseteq SMs \X (Nat \ {0})
    BY DEF Worked
  <1>6. <<s, n + 1>> \in SMs \X (Nat \ {0})
    BY <1>1
  <1> DEFINE A == Worked(r)
             B1 == Worked(r)'
  <1>7. \A t \in SMs, j \in Nat \ {0} : <<t, j>> \in B1 <=> (<<t, j>> \in A \/ (t = s /\ j = n + 1))
    BY <1>4
  <1>8. A \subseteq SMs \X (Nat \ {0}) /\ B1 \subseteq SMs \X (Nat \ {0})
    BY <1>5
  <1> HIDE DEF A, B1, n
  <1>9. B1 = A \cup {<<s, n + 1>>}
    <2>1. \A w \in SMs \X (Nat \ {0}) : w \in B1 <=> (w \in A \/ w = <<s, n + 1>>)
      BY <1>7
    <2> QED BY <1>6, <1>8, <2>1
  <1> QED BY <1>1, <1>9 DEF A, B1

(* What the two layers write.                                               *)
Marked(r, b, k) ==
  /\ \A x : Entry(hidden'[r], x, 0) = IF x = <<k, b.n>> THEN launch[r] ELSE Entry(hidden[r], x, 0)
  /\ \A x : Entry(mask'[r], x, {}) = IF x = k THEN Entry(mask[r], k, {}) \cup {b.n} ELSE Entry(mask[r], x, {})

LEMMA Linear1Is ==
  ASSUME Shape, NEW r \in Ranks, NEW b, NEW k, Linear1(r, b, k)
  PROVE  /\ b.phase = 1 /\ combine' = combine
         /\ mask' = [q \in Ranks |-> mask'[q]] /\ hidden' = [q \in Ranks |-> hidden'[q]]
         /\ \A q \in Ranks : q # r => mask'[q] = mask[q] /\ hidden'[q] = hidden[q]
         /\ Marked(r, b, k)
  <1>1. mask = [q \in Ranks |-> mask[q]] /\ hidden = [q \in Ranks |-> hidden[q]]
    BY DEF Shape
  <1> DEFINE g == [x \in {<<k, b.n>>} |-> launch[r]]
             h == [x \in {k} |-> Entry(mask[r], x, {}) \cup {b.n}]
  <1>2. /\ b.phase = 1 /\ combine' = combine
        /\ hidden' = [hidden EXCEPT ![r] = Set(hidden[r], g)]
        /\ mask' = [mask EXCEPT ![r] = Set(mask[r], h)]
    BY <1>1 DEF Linear1
  <1>3. DOMAIN g = {<<k, b.n>>} /\ g[<<k, b.n>>] = launch[r]
    OBVIOUS
  <1>4. DOMAIN h = {k} /\ h[k] = Entry(mask[r], k, {}) \cup {b.n}
    OBVIOUS
  <1> HIDE DEF g, h
  <1>5. /\ hidden'[r] = Set(hidden[r], g) /\ mask'[r] = Set(mask[r], h)
        /\ mask' = [q \in Ranks |-> mask'[q]] /\ hidden' = [q \in Ranks |-> hidden'[q]]
        /\ \A q \in Ranks : q # r => mask'[q] = mask[q] /\ hidden'[q] = hidden[q]
    BY <1>1, <1>2
  <1>6. \A x : Entry(hidden'[r], x, 0) = IF x = <<k, b.n>> THEN launch[r] ELSE Entry(hidden[r], x, 0)
    BY <1>3, <1>5, SetIs DEF Entry
  <1>7. \A x : Entry(mask'[r], x, {}) = IF x = k THEN Entry(mask[r], k, {}) \cup {b.n} ELSE Entry(mask[r], x, {})
    <2> SUFFICES ASSUME NEW x
                 PROVE  Entry(mask'[r], x, {}) = IF x = k THEN Entry(mask[r], k, {}) \cup {b.n} ELSE Entry(mask[r], x, {})
      OBVIOUS
    <2>1. CASE x = k
      <3>1. k \in DOMAIN Set(mask[r], h) /\ Set(mask[r], h)[k] = h[k]
        BY <1>4, SetIs
      <3>2. Entry(mask'[r], k, {}) = h[k]
        BY <1>5, <3>1 DEF Entry
      <3> QED BY <1>4, <2>1, <3>2
    <2>2. CASE x # k
      <3>1. /\ x \in DOMAIN Set(mask[r], h) <=> x \in DOMAIN mask[r]
            /\ x \in DOMAIN mask[r] => Set(mask[r], h)[x] = mask[r][x]
        BY <1>4, <2>2, SetIs
      <3> QED BY <1>5, <2>2, <3>1 DEF Entry
    <2> QED BY <2>1, <2>2
  <1> QED BY <1>2, <1>5, <1>6, <1>7 DEF Marked

(* What has come back in the next state.                                    *)
BackNext(l, p, x, n) == Entry(combine'[p], <<x[1], x[2], n>>, <<>>) = <<l, p, x[1], x[2]>>
BacksStay(l) == \A p \in Ranks : \A x, n : Back(l, p, x, n) => BackNext(l, p, x, n)

LEMMA Linear2Is ==
  ASSUME NEW r \in Ranks, NEW c, NEW b, NEW k, Linear2(r, c, b, k), NEW l,
         \A y \in Rows(c, b, k) : pool[r][y] = <<l, pool[r][y][2], pool[r][y][3], pool[r][y][4]>>
  PROVE  /\ b.phase = 2 /\ mask' = mask /\ hidden' = hidden
         /\ combine' = [q \in Ranks |-> combine'[q]]
         /\ BacksStay(l)
         /\ \A y \in Rows(c, b, k) : \A v :
              v = pool[r][y] /\ v[2] \in Ranks => BackNext(l, v[2], <<v[3], v[4]>>, b.n)
  <1> DEFINE back(q) == {pool[r][x] : x \in {y \in Rows(c, b, k) : pool[r][y][2] = q}}
             g(q) == [y \in {<<v[3], v[4], b.n>> : v \in back(q)} |->
                        CHOOSE v \in back(q) : <<v[3], v[4]>> = <<y[1], y[2]>>]
  <1>1. b.phase = 2 /\ mask' = mask /\ hidden' = hidden /\ combine' = [q \in Ranks |-> Set(combine[q], g(q))]
    BY DEF Linear2
  <1>2. ASSUME NEW q, NEW v \in back(q)
        PROVE  v = <<l, q, v[3], v[4]>>
    OBVIOUS
  <1>3. ASSUME NEW q, NEW y \in DOMAIN g(q)
        PROVE  g(q)[y] = <<l, q, y[1], y[2]>>
    <2>1. PICK v \in back(q) : y = <<v[3], v[4], b.n>>
      OBVIOUS
    <2>2. y[1] = v[3] /\ y[2] = v[4]
      BY <2>1
    <2>3. \E u \in back(q) : <<u[3], u[4]>> = <<y[1], y[2]>>
      BY <2>2
    <2>4. g(q)[y] = CHOOSE u \in back(q) : <<u[3], u[4]>> = <<y[1], y[2]>>
      OBVIOUS
    <2> DEFINE u == CHOOSE u \in back(q) : <<u[3], u[4]>> = <<y[1], y[2]>>
    <2>5. u \in back(q) /\ <<u[3], u[4]>> = <<y[1], y[2]>>
      BY <2>3
    <2> HIDE DEF u, back
    <2>6. u = <<l, q, u[3], u[4]>> /\ u[3] = y[1] /\ u[4] = y[2]
      BY <1>2, <2>5
    <2> QED BY <2>4, <2>6 DEF u
  <1>4. ASSUME NEW q, NEW v \in back(q)
        PROVE  <<v[3], v[4], b.n>> \in DOMAIN g(q)
    OBVIOUS
  <1>5. \A y \in Rows(c, b, k) : pool[r][y] \in back(pool[r][y][2])
    OBVIOUS
  <1> HIDE DEF g, back
  <1>6. \A q \in Ranks : combine'[q] = Set(combine[q], g(q))
    BY <1>1
  <1>7. combine' = [q \in Ranks |-> combine'[q]]
    BY <1>1
  <1>8. ASSUME NEW q \in Ranks, NEW t, NEW j, NEW n, <<t, j, n>> \in DOMAIN g(q)
        PROVE  Entry(combine'[q], <<t, j, n>>, <<>>) = <<l, q, t, j>>
    <2> DEFINE y == <<t, j, n>>
    <2>1. y[1] = t /\ y[2] = j
      OBVIOUS
    <2>2. g(q)[y] = <<l, q, t, j>>
      BY <1>3, <1>8, <2>1
    <2> HIDE DEF y
    <2>3. y \in DOMAIN Set(combine[q], g(q)) /\ Set(combine[q], g(q))[y] = g(q)[y]
      BY <1>8, SetIs DEF y
    <2> QED BY <1>6, <2>2, <2>3 DEF Entry, y
  <1>9. ASSUME NEW q \in Ranks, NEW x, NEW n, Back(l, q, x, n)
        PROVE  BackNext(l, q, x, n)
    <2> DEFINE y == <<x[1], x[2], n>>
    <2>1. CASE y \in DOMAIN g(q)
      BY <1>8, <2>1 DEF BackNext
    <2>2. CASE y \notin DOMAIN g(q)
      <3>1. Entry(combine[q], y, <<>>) = <<l, q, x[1], x[2]>>
        BY <1>9 DEF Back
      <3> HIDE DEF y
      <3>2. Entry(combine'[q], y, <<>>) = Entry(combine[q], y, <<>>)
        BY <1>6, <2>2, SetIs DEF Entry
      <3> QED BY <3>1, <3>2 DEF BackNext, y
    <2> QED BY <2>1, <2>2
  <1>10. ASSUME NEW y \in Rows(c, b, k), NEW v, v = pool[r][y], v[2] \in Ranks
         PROVE  BackNext(l, v[2], <<v[3], v[4]>>, b.n)
    <2>1. <<v[3], v[4], b.n>> \in DOMAIN g(v[2])
      BY <1>4, <1>5, <1>10
    <2>2. Entry(combine'[v[2]], <<v[3], v[4], b.n>>, <<>>) = <<l, v[2], v[3], v[4]>>
      BY <1>8, <1>10, <2>1
    <2> QED BY <2>2 DEF BackNext
  <1> QED BY <1>1, <1>7, <1>9, <1>10 DEF BacksStay

(* The rows and the place of a block in the pool.                           *)
LEMMA PartOf ==
  ASSUME NEW l \in Nths, NEW r \in Ranks, NEW b, IsBlock(l, r, b), NEW k, k = PoolBlock(Ins(l, r), b)
  PROVE  /\ k \in Nat /\ k \in Own(l, r, b.expert) /\ b.expert \in LocalExperts
         /\ \A i \in Toks(l, r) : Row(l, r, i) \div BlockM = k <=> InBlock(l, r, i, b)
         /\ Rows(Ins(l, r), b, k) = {Row(l, r, i) : i \in {x \in Toks(l, r) : InBlock(l, r, x, b)}}
  <1>1. \A n \in Plans : \A c : c = Instance(n) /\ b.m \in 0 .. NumMBlocks(c, b.expert) - 1 /\ k = PoolBlock(c, b) =>
          /\ k \in Nat
          /\ \A i \in 0 .. TotalTokens(c) - 1 : PlanRow(c, i) \div BlockM = k <=> InPart(c, i, b.expert, b.m)
          /\ Rows(c, b, k) = RowsIn(c, b)
          /\ k \in Part(c, b.expert)
    <2> SUFFICES ASSUME NEW n \in Plans, NEW c, c = Instance(n), b.m \in 0 .. NumMBlocks(c, b.expert) - 1, k = PoolBlock(c, b)
                 PROVE  /\ k \in Nat
                        /\ \A i \in 0 .. TotalTokens(c) - 1 : PlanRow(c, i) \div BlockM = k <=> InPart(c, i, b.expert, b.m)
                        /\ Rows(c, b, k) = RowsIn(c, b)
                        /\ k \in Part(c, b.expert)
      OBVIOUS
    <2>1. b.expert \in LocalExperts
      BY DEF IsBlock
    <2>2. k \in Part(c, b.expert)
      <3>1. PoolBlockOffset(c, b.expert) \in Nat /\ NumMBlocks(c, b.expert) \in Nat
        BY <2>1, PartsApart
      <3>2. k = PoolBlockOffset(c, b.expert) + b.m
        BY DEF PoolBlock
      <3> QED BY <3>1, <3>2 DEF Part
    <2>3. /\ k \in Nat
          /\ \A i \in 0 .. TotalTokens(c) - 1 : PlanRow(c, i) \div BlockM = k <=> InPart(c, i, b.expert, b.m)
          /\ Rows(c, b, k) = RowsIn(c, b)
          /\ IsFiniteSet({x \in 0 .. TotalTokens(c) - 1 : InPart(c, x, b.expert, b.m)})
          /\ Cardinality({x \in 0 .. TotalTokens(c) - 1 : InPart(c, x, b.expert, b.m)}) = ValidM(c, b.expert, b.m)
      BY <2>1, PartIs
    <2> QED BY <2>2, <2>3
  <1> DEFINE c == Ins(l, r)
  <1>2. Tokens(l, r) \in Plans /\ c = Instance(Tokens(l, r)) /\ b.m \in 0 .. NumMBlocks(c, b.expert) - 1 /\ k = PoolBlock(c, b)
    BY TokensAre DEF IsBlock, Ins
  <1> HIDE DEF c
  <1>3. /\ k \in Nat /\ k \in Part(c, b.expert)
        /\ \A i \in 0 .. TotalTokens(c) - 1 : PlanRow(c, i) \div BlockM = k <=> InPart(c, i, b.expert, b.m)
        /\ Rows(c, b, k) = RowsIn(c, b)
    BY <1>1, <1>2
  <1> QED BY <1>3 DEF c, Toks, Row, InBlock, Own, IsBlock, RowsIn

LEMMA WorkAdd ==
  ASSUME NEW r \in Ranks, WorkInv(r), launch' = launch, Pulled(r)' = Pulled(r), NEW w, Whole(r, Tile(r, w)),
         Worked(r)' = Worked(r) \cup {w}
  PROVE  WorkInv(r)'
  <1> SUFFICES ASSUME NEW v \in Worked(r) \cup {w}
               PROVE  Whole(r, Tile(r, v))'
    BY DEF WorkInv
  <1>1. Whole(r, Tile(r, v))
    BY DEF WorkInv
  <1> QED BY <1>1 DEF Whole, Tile

LEMMA Linear1Data ==
  ASSUME Shape, LaunchInv, NEW r \in Ranks, WorksInv(r), NoClean(r), Cleared(r) = {}, NEW l, l = launch[r],
         NEW w, NEW b, b = Tile(r, w), IsBlock(l, r, b), NEW k, k = PoolBlock(Ins(l, r), b),
         Whole(r, b), Linear1(r, b, k), Worked(r)' = Worked(r) \cup {w},
         UNCHANGED <<launch, index, pool, arrived>>, Pulled(r)' = Pulled(r), Cleared(r)' = Cleared(r),
         Working(r)' => Working(r), NoClean(r)' => NoClean(r)
  PROVE  WorksInv(r)'
  <1>1. /\ l \in Nths /\ Tokens(l, r) \in Plans /\ launch'[r] = l
        /\ b.expert \in LocalExperts /\ b.m \in 0 .. NumMBlocks(Ins(l, r), b.expert) - 1
    BY LaunchIs, TokensAre DEF IsBlock
  <1>2. PoolInv(r) /\ ArrivedInv(r) /\ MaskInv(r) /\ DirtyInv(r) /\ WorkInv(r)
    BY DEF WorksInv
  <1>3. /\ \A x : Entry(hidden'[r], x, 0) = IF x = <<k, b.n>> THEN launch[r] ELSE Entry(hidden[r], x, 0)
        /\ \A x : Entry(mask'[r], x, {}) = IF x = k THEN Entry(mask[r], k, {}) \cup {b.n} ELSE Entry(mask[r], x, {})
    <2>1. Marked(r, b, k)
      BY Linear1Is
    <2> QED BY <2>1 DEF Marked
  <1>4. PoolInv(r)' /\ ArrivedInv(r)'
    <2>1. launch'[r] = launch[r] /\ pool'[r] = pool[r] /\ arrived'[r] = arrived[r] /\ index'[r] = index[r]
      OBVIOUS
    <2>2. PoolInv(r)'
      BY <1>2, <2>1, KeepPool
    <2>3. ArrivedInv(r)'
      BY <1>2, <2>1, KeepArrived
    <2> QED BY <2>2, <2>3
  <1>5. WorkInv(r)'
    BY <1>2, WorkAdd
  <1>6. /\ \A i \in Toks(l, r) : Row(l, r, i) \div BlockM = k => i \in Pulled(r)
        /\ k \in Own(l, r, b.expert)
    BY <1>1, PartOf DEF Whole
  <1>7. MaskInv(r)'
    <2> SUFFICES ASSUME NEW j \in Nat, NEW n \in Entry(mask'[r], j, {})
                 PROVE  /\ Entry(hidden'[r], <<j, n>>, 0) = l
                        /\ \A i \in Toks(l, r) : Row(l, r, i) \div BlockM = j => i \in Pulled(r)
      BY <1>1 DEF MaskInv
    <2>1. CASE j = k /\ n = b.n
      BY <1>3, <1>6, <2>1
    <2>2. CASE ~ (j = k /\ n = b.n)
      <3>1. n \in Entry(mask[r], j, {})
        BY <1>3, <2>2
      <3>2. /\ Entry(hidden[r], <<j, n>>, 0) = l
            /\ \A i \in Toks(l, r) : Row(l, r, i) \div BlockM = j => i \in Pulled(r)
        BY <1>2, <3>1 DEF MaskInv
      <3>3. <<j, n>> # <<k, b.n>>
        BY <2>2
      <3> QED BY <1>3, <3>2, <3>3
    <2> QED BY <2>1, <2>2
  <1>8. DirtyInv(r)'
    <2> SUFFICES ASSUME NEW j \in Nat, Entry(arrived[r], j, 0) # 0 \/ Entry(mask'[r], j, {}) # {}
                 PROVE  \E e \in LocalExperts \ Cleared(r) : j \in Own(l, r, e)
      BY <1>1 DEF DirtyInv
    <2>1. CASE j = k
      BY <1>1, <1>6, <2>1
    <2>2. CASE j # k
      <3>1. Entry(mask'[r], j, {}) = Entry(mask[r], j, {})
        BY <1>3, <2>2
      <3> QED BY <1>2, <3>1 DEF DirtyInv
    <2> QED BY <2>1, <2>2
  <1> QED BY <1>4, <1>5, <1>7, <1>8 DEF WorksInv

(* A token in the index, by what it is.                                      *)
LEMMA TokenIs ==
  ASSUME SchedulesFit, IInv, NEW r \in Ranks, NEW l, l = launch[r],
         \A q \in Ranks : launch[q] = l /\ \A t \in SMs : DS(q, t) >= 3, NEW i \in Toks(l, r),
         NEW v, v = index[r][From(l, r, i)]
  PROVE  v[2] \in Ranks /\ v = <<l, v[2], v[3], v[4]>>
  <1>1. \E q \in Ranks : \E x1, x2 : v = <<l, q, x1, x2>>
    <2> DEFINE from == From(l, r, i)
               q == from[2].rank
    <2>1. /\ q \in Ranks
          /\ \E g \in GlobalExperts, t \in SMs : \E x \in RoutesTo(l, q, t, g) :
               index[r][from] = <<l, q, x[1], x[2]>> /\ g = Glob(r, Task(l, r, i).expert)
      <3>1. InIndex(l, r, i, from)
        BY IndexHas
      <3> HIDE DEF from
      <3> QED BY <3>1 DEF InIndex
    <2> HIDE DEF q
    <2>2. PICK g \in GlobalExperts, t \in SMs : \E x \in RoutesTo(l, q, t, g) :
            index[r][from] = <<l, q, x[1], x[2]>> /\ g = Glob(r, Task(l, r, i).expert)
      BY <2>1
    <2>3. PICK x \in RoutesTo(l, q, t, g) : index[r][from] = <<l, q, x[1], x[2]>>
      BY <2>2
    <2> QED BY <2>1, <2>3
  <1>2. PICK q \in Ranks : \E x1, x2 : v = <<l, q, x1, x2>>
    BY <1>1
  <1>3. PICK x1, x2 : v = <<l, q, x1, x2>>
    BY <1>2
  <1> QED BY <1>3

(* Every value in the rows of a block is the token pulled there.             *)
LEMMA RowsHave ==
  ASSUME SchedulesFit, IInv, NEW r \in Ranks, NEW l, l = launch[r], Working(r),
         \A q \in Ranks : launch[q] = l /\ \A t \in SMs : DS(q, t) >= 3,
         NEW b, IsBlock(l, r, b), NEW k, k = PoolBlock(Ins(l, r), b), Whole(r, b)
  PROVE  /\ \A y \in Rows(Ins(l, r), b, k) :
              /\ pool[r][y] = <<l, pool[r][y][2], pool[r][y][3], pool[r][y][4]>>
              /\ y \in DOMAIN pool[r]
         /\ \A i \in Toks(l, r) : InBlock(l, r, i, b) =>
              /\ Row(l, r, i) \in Rows(Ins(l, r), b, k)
              /\ pool[r][Row(l, r, i)] = index[r][From(l, r, i)]
  <1> DEFINE c == Ins(l, r)
  <1>1. /\ l \in Nths /\ Tokens(l, r) \in Plans /\ c = Instance(Tokens(l, r))
        /\ b.expert \in LocalExperts /\ b.m \in 0 .. NumMBlocks(c, b.expert) - 1 /\ k = PoolBlock(c, b)
    BY Parts, LaunchIs, TokensAre DEF IsBlock, Ins
  <1>2. PoolInv(r)
    BY Parts DEF DataInv, WorksInv
  <1>3. Rows(c, b, k) = {Row(l, r, i) : i \in {x \in Toks(l, r) : InBlock(l, r, x, b)}}
    BY <1>1, PartOf
  <1>4. ASSUME NEW i \in Toks(l, r), InBlock(l, r, i, b)
        PROVE  /\ Row(l, r, i) \in DOMAIN pool[r]
               /\ pool[r][Row(l, r, i)] = index[r][From(l, r, i)]
               /\ pool[r][Row(l, r, i)] = <<l, pool[r][Row(l, r, i)][2], pool[r][Row(l, r, i)][3], pool[r][Row(l, r, i)][4]>>
    <2>1. i \in Pulled(r)
      BY <1>4 DEF Whole
    <2>2. Row(l, r, i) \in DOMAIN pool[r] /\ pool[r][Row(l, r, i)] = index[r][From(l, r, i)]
      BY <1>2, <2>1 DEF PoolInv
    <2> DEFINE v == index[r][From(l, r, i)]
    <2>4. v = <<l, v[2], v[3], v[4]>>
      BY TokenIs
    <2> HIDE DEF v
    <2> QED BY <2>2, <2>4 DEF v
  <1> QED BY <1>3, <1>4

(* What has come back stays: whoever writes it again writes the same.        *)
Written(l, q, i, n) ==
  \A u : u = index[q][From(l, q, i)] => BackNext(l, u[2], <<u[3], u[4]>>, n)
LEMMA BacksKept ==
  ASSUME SchedulesFit, IInv, NEW q \in Ranks, NEW l, l = launch[q],
         \A p \in Ranks : launch[p] = l /\ \A t \in SMs : DS(p, t) >= 3,
         UNCHANGED <<launch, index>>, Working(q)' => Working(q), Reducing(q)' => Reducing(q), BacksStay(l),
         \A v \in Worked(q)' : v \in Worked(q) \/
           (Tile(q, v).phase = 2 =>
              \A i \in Toks(l, q) : InBlock(l, q, i, Tile(q, v)) => Written(l, q, i, Tile(q, v).n))
  PROVE  BacksInv(q)'
  <1>1. BackInv(q) /\ ReduceInv(q) /\ launch'[q] = l /\ index'[q] = index[q]
    BY Parts DEF DataInv, BacksInv
  <1>2. BackInv(q)'
    <2> SUFFICES ASSUME Working(q)', NEW v \in Worked(q)', Tile(q, v)'.phase = 2,
                        NEW i \in Toks(l, q), InBlock(l, q, i, Tile(q, v)')
                 PROVE  Returned(q, index[q][From(launch[q], q, i)], Tile(q, v).n)'
      BY <1>1 DEF BackInv
    <2>1. Tile(q, v)' = Tile(q, v) /\ Working(q)
      BY DEF Tile
    <2> DEFINE u == index[q][From(l, q, i)]
               n == Tile(q, v).n
    <2>3. CASE v \in Worked(q)
      <3>1. Returned(q, u, n)
        BY <1>1, <2>1, <2>3 DEF BackInv
      <3>2. u[2] \in Ranks
        BY TokenIs
      <3> HIDE DEF u, n
      <3>3. Back(l, u[2], <<u[3], u[4]>>, n)
        BY <3>1 DEF Returned
      <3>4. \A p \in Ranks : \A x, m : Back(l, p, x, m) => BackNext(l, p, x, m)
        BY DEF BacksStay
      <3>5. Entry(combine'[u[2]], <<u[3], u[4], n>>, <<>>) = <<l, u[2], u[3], u[4]>>
        BY <3>2, <3>3, <3>4 DEF BackNext
      <3>6. Entry(combine'[u[2]], <<u[3], u[4], n>>, <<>>) = <<l, u[2], u[3], u[4]>>
            => Returned(q, index[q][From(launch[q], q, i)], Tile(q, v).n)'
        BY <1>1, <2>1 DEF Returned, Back, u, n
      <3> QED BY <3>5, <3>6
    <2>4. CASE v \notin Worked(q)
      <3>1. Written(l, q, i, n)
        BY <2>1, <2>4
      <3>2. Entry(combine'[u[2]], <<u[3], u[4], n>>, <<>>) = <<l, u[2], u[3], u[4]>>
        <4>1. u = index[q][From(l, q, i)]
          OBVIOUS
        <4> HIDE DEF u, n
        <4>2. \A z : z = index[q][From(l, q, i)] =>
                     Entry(combine'[z[2]], <<z[3], z[4], n>>, <<>>) = <<l, z[2], z[3], z[4]>>
          BY <3>1 DEF Written, BackNext
        <4> QED BY <4>1, <4>2
      <3>3. Entry(combine'[u[2]], <<u[3], u[4], n>>, <<>>) = <<l, u[2], u[3], u[4]>>
            => Returned(q, index[q][From(launch[q], q, i)], Tile(q, v).n)'
        BY <1>1, <2>1 DEF Returned, Back
      <3> QED BY <3>2, <3>3
    <2> QED BY <2>3, <2>4
  <1>3. ReduceInv(q)'
    <2> SUFFICES ASSUME Reducing(q), NEW s \in SMs, NEW x \in Routes(l, q, s), NEW n \in 0 .. L2BlockNs - 1, x[3] >= 0
                 PROVE  Back(l, q, x, n)'
      BY <1>1 DEF ReduceInv, Back
    <2>1. Back(l, q, x, n)
      BY <1>1 DEF ReduceInv
    <2> QED BY <1>1, <2>1 DEF BacksStay, BackNext, Back
  <1> QED BY <1>2, <1>3 DEF BacksInv

(* After a block: its rows are back, and nothing is lost.                    *)
LEMMA ComputeBacks ==
  ASSUME SchedulesFit, IInv, NEW r \in Ranks, NEW l, l = launch[r], Working(r),
         \A q \in Ranks : launch[q] = l /\ \A t \in SMs : DS(q, t) >= 3,
         NEW b, IsBlock(l, r, b), NEW k, k = PoolBlock(Ins(l, r), b), Whole(r, b),
         Linear1(r, b, k) \/ Linear2(r, Ins(l, r), b, k)
  PROVE  /\ BacksStay(l) /\ combine' = [q \in Ranks |-> combine'[q]]
         /\ b.phase = 2 => \A i \in Toks(l, r) : InBlock(l, r, i, b) => Written(l, r, i, b.n)
  <1>1. Shape
    BY Parts
  <1>2. CASE Linear1(r, b, k)
    <2>1. b.phase = 1 /\ combine' = combine
      BY <1>2 DEF Linear1
    <2>2. combine' = [q \in Ranks |-> combine'[q]]
      BY <1>1, <2>1 DEF Shape
    <2>3. BacksStay(l)
      BY <2>1 DEF BacksStay, Back, BackNext
    <2> QED BY <2>1, <2>2, <2>3
  <1>3. CASE Linear2(r, Ins(l, r), b, k)
    <2> DEFINE c == Ins(l, r)
    <2>1. /\ \A y \in Rows(c, b, k) : pool[r][y] = <<l, pool[r][y][2], pool[r][y][3], pool[r][y][4]>>
          /\ \A i \in Toks(l, r) : InBlock(l, r, i, b) =>
               Row(l, r, i) \in Rows(c, b, k) /\ pool[r][Row(l, r, i)] = index[r][From(l, r, i)]
      BY RowsHave
    <2>2. Linear2(r, c, b, k)
      BY <1>3
    <2> HIDE DEF c
    <2>3. /\ combine' = [q \in Ranks |-> combine'[q]] /\ BacksStay(l)
          /\ \A y \in Rows(c, b, k) : \A v : v = pool[r][y] /\ v[2] \in Ranks => BackNext(l, v[2], <<v[3], v[4]>>, b.n)
      BY <2>1, <2>2, Linear2Is
    <2>4. ASSUME NEW i \in Toks(l, r), InBlock(l, r, i, b), NEW v, v = index[r][From(l, r, i)]
          PROVE  BackNext(l, v[2], <<v[3], v[4]>>, b.n)
      <3>1. v[2] \in Ranks
        BY <2>4, TokenIs
      <3>2. Row(l, r, i) \in Rows(c, b, k) /\ v = pool[r][Row(l, r, i)]
        BY <2>1, <2>4
      <3> QED BY <2>3, <3>1, <3>2
    <2> QED BY <2>3, <2>4 DEF Written
  <1> QED BY <1>2, <1>3

(* Linear 2 leaves the workspace alone.                                     *)
LEMMA Linear2Data ==
  ASSUME NEW r \in Ranks, WorksInv(r), mask' = mask, hidden' = hidden,
         NEW w, Whole(r, Tile(r, w)), Worked(r)' = Worked(r) \cup {w},
         UNCHANGED <<launch, index, pool, arrived>>, Pulled(r)' = Pulled(r), Cleared(r)' = Cleared(r),
         Working(r)' => Working(r), NoClean(r)' => NoClean(r)
  PROVE  WorksInv(r)'
  <1>1. PoolInv(r) /\ ArrivedInv(r) /\ MaskInv(r) /\ DirtyInv(r) /\ WorkInv(r)
    BY DEF WorksInv
  <1>2. /\ launch'[r] = launch[r] /\ pool'[r] = pool[r] /\ arrived'[r] = arrived[r] /\ index'[r] = index[r]
        /\ mask'[r] = mask[r] /\ hidden'[r] = hidden[r]
    OBVIOUS
  <1>3. PoolInv(r)'
    BY <1>1, <1>2, KeepPool
  <1>4. ArrivedInv(r)'
    BY <1>1, <1>2, KeepArrived
  <1>5. MaskInv(r)'
    BY <1>1, <1>2, KeepMask
  <1>6. DirtyInv(r)'
    BY <1>1, <1>2, KeepDirty
  <1>7. WorkInv(r)'
    BY <1>1, WorkAdd
  <1> QED BY <1>3, <1>4, <1>5, <1>6, <1>7 DEF WorksInv

LEMMA ComputeStep ==
  ASSUME SchedulesFit, IInv, NEW r \in Ranks, NEW s \in SMs, Compute(r, s)
  PROVE  IInv'
  <1> DEFINE l == launch[r]
             w == <<s, At1(r, s)>>
             b == Tile(r, w)
             kb == PoolBlock(Ins(l, r), b)
             N == Len(Walk(l, r, s))
             n == todo[E(r, s)]
             more == At1(r, s) < N
             k == IF more THEN 3 ELSE 4
             m == IF more THEN n + 1 ELSE 0
  <1>1. PcInv /\ LaunchInv /\ RoundInv /\ TodoInv /\ CountsInv /\ Shape /\ \A q \in Ranks : DataInv(q)
    BY Parts
  <1>2. /\ ES(r, s) = 3 /\ Loadable(r, Ins(l, r), b, kb)
        /\ Linear1(r, b, kb) \/ Linear2(r, Ins(l, r), b, kb)
        /\ Turn(E(r, s), N)
        /\ UNCHANGED <<barrier, launch, counts, slots, send, recv, sums, index, pool, arrived>>
    BY ComputeDoes
  <1>3. /\ At1(r, s) \in Nat \ {0} /\ At1(r, s) <= N /\ N \in Nat
        /\ IsBlock(l, r, b) /\ NoClean(r) /\ Working(r)
        /\ \A q \in Ranks : launch[q] = l /\ \A t \in SMs : DS(q, t) >= 3
    BY <1>2, ComputeIs
  <1>4. n \in Nat /\ l \in Nths /\ At1(r, s) = n + 1
    BY <1>1, TodoIs, LaunchIs DEF TodoInv, TodoOK, At1
  <1>5. OnlyE(r, s, k) /\ pc' \in [Agents -> Nat \ {0}] /\ SetE(r, s, m)
    <2>1. NextE(s, 3) = 4
      BY DEF NextE
    <2> HIDE DEF more, N, l
    <2>2. more = (todo[E(r, s)] + 1 < N)
      BY DEF more, At1
    <2>3. /\ OnlyE(r, s, IF more THEN ES(r, s) ELSE NextE(s, ES(r, s))) /\ pc' \in [Agents -> Nat \ {0}]
          /\ SetE(r, s, IF more THEN todo[E(r, s)] + 1 ELSE 0)
      BY <1>1, <1>2, <1>3, <2>2, TurnE
    <2> QED BY <1>2, <2>1, <2>3
  <1>6. k \in {3, 4} /\ m \in Nat /\ (k # 3 => m = 0) /\ (k = 3 => m < N)
    <2>1. more => n + 1 < N
      BY <1>4
    <2> HIDE DEF more, n, N
    <2> QED BY <1>4, <2>1
  <1>7. StagesOK /\ TodoOK
    BY <1>1, StagesAre DEF TodoOK, TodoInv
  <1>8. Worked(r)' = Worked(r) \cup {w}
    <2>1. launch' = launch
      BY <1>2
    <2> HIDE DEF more, N
    <2>2. more = (At1(r, s) < N) /\ N = Len(Walk(launch[r], r, s))
      BY DEF more, N
    <2> QED BY <1>2, <1>3, <1>5, <1>7, <2>1, <2>2, WorkedAdd
  <1> HIDE DEF k, m, more, n, N
  <1>9. \A q \in Ranks, t \in SMs : DS(q, t)' = DS(q, t) /\ ES(q, t)' = (IF q = r /\ t = s THEN k ELSE ES(q, t))
    BY <1>5 DEF OnlyE
  <1>10. PcInv'
    BY <1>1, <1>2, <1>5, <1>6, KeepsE
  <1>11. RoundInv'
    BY <1>1, <1>2, <1>6, <1>9, <1>10, ZeroSM, KeepRounds
  <1>12. TodoInv' /\ LaunchInv' /\ TodoOK'
    <2>1. k \in 1 .. 10 /\ (k = 3 => m < Len(Walk(launch[r], r, s)))
      BY <1>6 DEF N
    <2>2. TodoInv' /\ TodoOK'
      BY <1>1, <1>2, <1>5, <1>6, <2>1, TodoE
    <2> QED BY <1>1, <1>2, <2>2 DEF LaunchInv
  <1>13. CountsInv'
    BY <1>1, <1>2, <1>6, <1>9, KeepCounts
  <1>14. StagesOK'
    BY <1>6, <1>7, <1>9 DEF StagesOK
  <1>15. \A q \in Ranks, t \in SMs : /\ todo'[D(q, t)] = todo[D(q, t)]
                                     /\ (q # r \/ t # s) => todo'[E(q, t)] = todo[E(q, t)]
    BY <1>1, <1>5, <1>6, TodoMoveE DEF TodoInv
  <1>16. ASSUME NEW q \in Ranks
         PROVE  /\ SameSends(q) /\ SameHears(q) /\ Pulled(q)' = Pulled(q) /\ (NoClean(q)' => NoClean(q))
                /\ (Working(q)' => Working(q)) /\ (Reducing(q)' => Reducing(q))
    <2>1. SameSends(q)
      BY <1>2, <1>9, ZeroSM, ClaimsSame
    <2>2. Cleared(q)' = Cleared(q)
      BY <1>2, <1>9, <1>7, <1>12, <1>14, <1>15, ClearedSame DEF Still
    <2>3. Told(q)' = Told(q)
      BY <1>2, <1>9, <1>7, <1>12, <1>14, <1>15, ZeroSM, ToldSame DEF Still
    <2>4. Pulled(q)' = Pulled(q)
      BY <1>1, <1>2, <1>9, <1>7, <1>12, <1>14, <1>15, PulledSame DEF Still
    <2>5. (NoClean(q)' => NoClean(q)) /\ (Working(q)' => Working(q))
      BY <1>2, <1>9, ZeroSM DEF NoClean, Working
    <2>6. Reducing(q)' => Reducing(q)
      BY <1>2, <1>6, <1>9, ZeroSM DEF Reducing
    <2> QED BY <2>1, <2>2, <2>3, <2>4, <2>5, <2>6 DEF SameHears
  <1>17. \A q \in Ranks : q # r => Worked(q)' = Worked(q)
    BY <1>2, <1>9, <1>7, <1>12, <1>14, <1>15, WorkedSame DEF Still
  <1>18. WorksInv(r) /\ Whole(r, b)
    <2>1. WorksInv(r)
      BY <1>1 DEF DataInv
    <2> QED BY <1>1, <1>2, <1>3, <2>1, LoadWhole
  <1> HIDE DEF b, kb, w, l
  <1>19. l = launch[r] /\ b = Tile(r, w) /\ kb = PoolBlock(Ins(l, r), b)
    BY DEF l, b, kb
  <1>20. /\ BacksStay(l) /\ combine' = [q \in Ranks |-> combine'[q]]
         /\ b.phase = 2 => \A i \in Toks(l, r) : InBlock(l, r, i, b) => Written(l, r, i, b.n)
    BY <1>2, <1>3, <1>18, <1>19, ComputeBacks
  <1>21. /\ mask' = [q \in Ranks |-> mask'[q]] /\ hidden' = [q \in Ranks |-> hidden'[q]]
         /\ \A q \in Ranks : q # r => mask'[q] = mask[q] /\ hidden'[q] = hidden[q]
    <2>1. CASE Linear1(r, b, kb)
      BY <1>1, <2>1, Linear1Is
    <2>2. CASE Linear2(r, Ins(l, r), b, kb)
      BY <1>1, <2>2 DEF Linear2, Shape
    <2> QED BY <1>2, <2>1, <2>2
  <1>22. WorksInv(r)'
    <2>1. /\ UNCHANGED <<launch, index, pool, arrived>> /\ Cleared(r)' = Cleared(r) /\ Cleared(r) = {}
          /\ Pulled(r)' = Pulled(r) /\ (Working(r)' => Working(r)) /\ (NoClean(r)' => NoClean(r))
      BY <1>1, <1>2, <1>3, <1>16, NothingCleared DEF SameHears
    <2>2. CASE Linear1(r, b, kb)
      BY <1>1, <1>3, <1>8, <1>18, <1>19, <2>1, <2>2, Linear1Data
    <2>3. CASE Linear2(r, Ins(l, r), b, kb)
      <3>1. mask' = mask /\ hidden' = hidden /\ Whole(r, Tile(r, w))
        BY <1>18, <1>19, <2>3 DEF Linear2
      <3> QED BY <1>8, <1>18, <2>1, <3>1, Linear2Data
    <2> QED BY <1>2, <2>2, <2>3
  <1>23. ASSUME NEW q \in Ranks
         PROVE  BacksInv(q)'
    <2>1. UNCHANGED <<launch, index>> /\ launch[q] = l
      BY <1>2, <1>3
    <2>2. \A v \in Worked(q)' : v \in Worked(q) \/
            (Tile(q, v).phase = 2 =>
               \A i \in Toks(l, q) : InBlock(l, q, i, Tile(q, v)) => Written(l, q, i, Tile(q, v).n))
      <3>1. CASE q # r
        BY <1>17, <3>1
      <3>2. CASE q = r
        BY <1>8, <1>19, <1>20, <3>2
      <3> QED BY <3>1, <3>2
    <2> QED BY <1>3, <1>16, <1>20, <2>1, <2>2, BacksKept
  <1>24. ASSUME NEW q \in Ranks
         PROVE  DataInv(q)'
    <2>1. SendsInv(q)' /\ HeardInv(q)'
      BY <1>1, <1>2, <1>16, KeepSends, KeepHears DEF DataInv
    <2>2. WorksInv(q)'
      <3>1. CASE q # r
        BY <1>1, <1>2, <1>16, <1>17, <1>21, <3>1, KeepWorks DEF DataInv, SameWorks, SameDone, SameHears
      <3> QED BY <1>22, <3>1
    <2> QED BY <1>23, <2>1, <2>2 DEF DataInv
  <1>25. Shape'
    BY <1>1, <1>2, <1>20, <1>21 DEF Shape
  <1> QED BY <1>10, <1>11, <1>12, <1>13, <1>24, <1>25 DEF IInv, Control

-----------------------------------------------------------------------------
(* Cleaning.                                                                *)

Expert1(r, s) == s - 1 + todo[D(r, s)] * (NumSMs - 1)

LEMMA ClearedAdd ==
  ASSUME TodoOK, NEW r \in Ranks, NEW s \in SMs \ {0}, DS(r, s) = 12, NEW e, e = Expert1(r, s),
         NEW more, more = (e + NumSMs - 1 < NumExperts),
         OnlyD(r, s, IF more THEN 12 ELSE 13), SetD(r, s, IF more THEN todo[D(r, s)] + 1 ELSE 0)
  PROVE  e \in Nat /\ e \notin Cleared(r) /\ Cleared(r)' = Cleared(r) \cup ({e} \cap LocalExperts)
  <1> DEFINE N == NumSMs - 1
             n == todo[D(r, s)]
             k == IF more THEN 12 ELSE 13
             m == IF more THEN n + 1 ELSE 0
  <1>1. N \in Nat \ {0} /\ n \in Nat /\ s \in Nat /\ s - 1 \in 0 .. N - 1 /\ NumExperts \in Nat /\ NumSMs \in Nat
    <2>1. NumSMs \in Nat \ {0} /\ NumExperts \in Nat /\ N \in Nat \ {0}
      BY Sizes1, CleanerIs
    <2>2. s \in 1 .. NumSMs - 1
      BY <2>1 DEF SMs
    <2> QED BY <2>1, <2>2, TodoIs
  <1>2. e = n * N + (s - 1) /\ more = (e + N < NumExperts)
    <2>1. e = s - 1 + n * N /\ more = (e + NumSMs - 1 < NumExperts)
      BY DEF Expert1
    <2>2. n * N \in Nat
      <3> HIDE DEF n, N
      <3> QED BY <1>1
    <2> DEFINE x == n * N
    <2>3. x \in Nat /\ e = s - 1 + x
      BY <2>1, <2>2
    <2> HIDE DEF x
    <2>4. e = x + (s - 1) /\ (e + NumSMs - 1 = e + (NumSMs - 1)) /\ e \in Int
      BY <1>1, <2>3
    <2> QED BY <2>1, <2>4 DEF x
  <1>3. \A t \in SMs : DS(r, t)' = IF t = s THEN k ELSE DS(r, t)
    BY DEF OnlyD
  <1>4. \A t \in SMs : todo'[D(r, t)] = IF t = s THEN m ELSE todo[D(r, t)]
    <2>1. m \in Nat /\ todo \in [Agents -> Nat]
      BY <1>1 DEF TodoOK
    <2> HIDE DEF m
    <2>2. SetD(r, s, m)
      BY DEF m
    <2> QED BY <2>1, <2>2, TodoMove
  <1>5. e % N = s - 1 /\ e \div N = n /\ e \in Nat
    <2> HIDE DEF N, n
    <2> DEFINE x == n * N + (s - 1)
    <2>1. x \div N = n /\ x % N = s - 1
      BY <1>1, DivIs
    <2>2. x \in Nat
      BY <1>1
    <2>3. e = x
      BY <1>2
    <2> HIDE DEF x
    <2> QED BY <2>1, <2>2, <2>3
  <1>6. Cleaner(e) = s
    <2>1. Cleaner(e) = 1 + (e % N)
      BY DEF Cleaner
    <2> HIDE DEF N
    <2> QED BY <1>1, <1>5, <2>1
  <1>7. ASSUME NEW x \in LocalExperts
        PROVE  (x \in Cleared(r))' <=> (x \in Cleared(r) \/ x = e)
    <2> DEFINE t == Cleaner(x)
               u == x \div N
    <2>1. t \in SMs /\ u \in Nat /\ x \in Nat /\ x < NumExperts
      <3>1. x \in Nat /\ x < NumExperts
        BY <1>1 DEF LocalExperts
      <3> QED BY <3>1, CleanerIs
    <2>2. /\ x \in Cleared(r) <=> (DS(r, t) > 12 \/ (DS(r, t) = 12 /\ u < todo[D(r, t)]))
          /\ (x \in Cleared(r))' <=> (DS(r, t)' > 12 \/ (DS(r, t)' = 12 /\ u < todo'[D(r, t)]))
      BY DEF Cleared
    <2>3. CASE t # s
      <3>1. x # e
        BY <1>6, <2>3
      <3> HIDE DEF t, u
      <3> QED BY <1>3, <1>4, <2>1, <2>2, <2>3, <3>1
    <2>4. CASE t = s
      <3>1. x % N = s - 1
        <4>1. t = 1 + (x % N)
          BY DEF Cleaner
        <4>2. x % N \in Int
          BY <1>1, <2>1
        <4> HIDE DEF t, N
        <4> QED BY <1>1, <2>4, <4>1, <4>2
      <3>2. x = u * N + (s - 1)
        <4> HIDE DEF N
        <4> QED BY <1>1, <2>1, <3>1, DivMod
      <3>3. x = e <=> u = n
        <4>1. u = n => x = e
          BY <1>2, <3>2
        <4>2. x = e => u = n
          BY <1>5
        <4> QED BY <4>1, <4>2
      <3> HIDE DEF t, u, N, n
      <3>4. (x \in Cleared(r) <=> u < n) /\ ((x \in Cleared(r))' <=> (~ more \/ u < m))
        <4>1. DS(r, t) = 12 /\ DS(r, t)' = k /\ todo[D(r, t)] = n /\ todo'[D(r, t)] = m
          BY <1>3, <1>4, <2>1, <2>4 DEF n
        <4> QED BY <2>2, <4>1
      <3>5. CASE more
        BY <1>1, <2>1, <3>3, <3>4, <3>5
      <3>6. CASE ~ more
        <4>1. ~ (u > n)
          <5> SUFFICES ASSUME u > n PROVE FALSE
            OBVIOUS
          <5>1. n + 1 <= u /\ n + 1 \in Int
            BY <1>1, <2>1
          <5>2. (n + 1) * N <= u * N
            BY <1>1, <2>1, <5>1, TimesLeq
          <5>3. (n + 1) * N = n * N + N /\ n * N \in Nat /\ u * N \in Nat
            BY <1>1, <2>1
          <5>4. e + N <= x
            BY <1>1, <1>2, <3>2, <5>2, <5>3
          <5>5. ~ (e + N < NumExperts)
            BY <1>2, <3>6
          <5> QED BY <1>1, <1>5, <2>1, <5>4, <5>5
        <4> QED BY <1>1, <2>1, <3>3, <3>4, <3>6, <4>1
      <3> QED BY <3>5, <3>6
    <2> QED BY <2>3, <2>4
  <1>8. (Cleared(r) \subseteq LocalExperts) /\ (Cleared(r)' \subseteq LocalExperts)
    BY DEF Cleared
  <1>9. e \notin Cleared(r)
    <2> SUFFICES ASSUME e \in Cleared(r) PROVE FALSE
      OBVIOUS
    <2>1. DS(r, Cleaner(e)) > 12 \/ (DS(r, Cleaner(e)) = 12 /\ e \div N < todo[D(r, Cleaner(e))])
      BY DEF Cleared
    <2> HIDE DEF N
    <2>2. DS(r, s) > 12 \/ n < n
      BY <1>5, <1>6, <2>1
    <2> QED BY <1>1, <2>2
  <1> HIDE DEF N
  <1>10. Cleared(r)' = Cleared(r) \cup ({e} \cap LocalExperts)
    BY <1>7, <1>8
  <1> QED BY <1>5, <1>9, <1>10

Wiped(r, e) ==
  /\ sums' = [sums EXCEPT ![r][e] = [sms |-> 0, n |-> 0]]
  /\ recv' = [recv EXCEPT ![r] = [q \in Ranks |-> [@[q] EXCEPT ![e] = 0]]]

LEMMA WipedIs ==
  ASSUME Shape, NEW r \in Ranks, HeardInv(r), NEW e \in LocalExperts, Wiped(r, e)
  PROVE  /\ sums' = [q \in Ranks |-> sums'[q]] /\ recv' = [q \in Ranks |-> recv'[q]]
         /\ \A q \in Ranks : q # r => sums'[q] = sums[q] /\ recv'[q] = recv[q]
         /\ sums'[r] = [x \in LocalExperts |-> sums'[r][x]]
         /\ recv'[r] = [q \in Ranks |-> [x \in LocalExperts |-> recv'[r][q][x]]]
         /\ \A x \in LocalExperts : x # e => sums'[r][x] = sums[r][x]
         /\ \A q \in Ranks, x \in LocalExperts : x # e => recv'[r][q][x] = recv[r][q][x]
         /\ sums'[r][e] = [sms |-> 0, n |-> 0] /\ \A q \in Ranks : recv'[r][q][e] = 0
  <1>1. sums = [q \in Ranks |-> sums[q]] /\ recv = [q \in Ranks |-> recv[q]]
    BY DEF Shape
  <1>2. /\ sums[r] = [x \in LocalExperts |-> sums[r][x]]
        /\ recv[r] = [q \in Ranks |-> [x \in LocalExperts |-> recv[r][q][x]]]
    BY DEF HeardInv
  <1> DEFINE f == [sums[r] EXCEPT ![e] = [sms |-> 0, n |-> 0]]
             g == [q \in Ranks |-> [recv[r][q] EXCEPT ![e] = 0]]
  <1>3. sums' = [sums EXCEPT ![r] = f] /\ recv' = [recv EXCEPT ![r] = g]
    BY <1>1 DEF Wiped
  <1>4. f = [x \in LocalExperts |-> f[x]] /\ f[e] = [sms |-> 0, n |-> 0]
        /\ \A x \in LocalExperts : x # e => f[x] = sums[r][x]
    BY <1>2
  <1>5. \A q \in Ranks : recv[r][q] = [x \in LocalExperts |-> recv[r][q][x]]
    BY <1>2
  <1>6. g = [q \in Ranks |-> [x \in LocalExperts |-> g[q][x]]]
        /\ (\A q \in Ranks : g[q][e] = 0 /\ \A x \in LocalExperts : x # e => g[q][x] = recv[r][q][x])
    BY <1>5
  <1> HIDE DEF f, g
  <1>7. /\ sums'[r] = f /\ recv'[r] = g
        /\ sums' = [q \in Ranks |-> sums'[q]] /\ recv' = [q \in Ranks |-> recv'[q]]
        /\ \A q \in Ranks : q # r => sums'[q] = sums[q] /\ recv'[q] = recv[q]
    BY <1>1, <1>3
  <1> QED BY <1>4, <1>6, <1>7

(* The blocks of an expert, cleared.                                        *)
Bare(r, o, h) ==
  \A k : /\ Entry(arrived'[r], k, 0) = IF k - o \in 0 .. h - 1 THEN 0 ELSE Entry(arrived[r], k, 0)
         /\ Entry(mask'[r], k, {}) = IF k - o \in 0 .. h - 1 THEN {} ELSE Entry(mask[r], k, {})

LEMMA ClearIs ==
  ASSUME Shape, NEW r \in Ranks, NEW c, NEW e, Clear(r, c, e)
  PROVE  /\ arrived' = [q \in Ranks |-> arrived'[q]] /\ mask' = [q \in Ranks |-> mask'[q]]
         /\ \A q \in Ranks : q # r => arrived'[q] = arrived[q] /\ mask'[q] = mask[q]
         /\ Bare(r, PoolBlockOffset(c, e), CeilDiv(sums[r][e].n, BlockM))
  <1>1. arrived = [q \in Ranks |-> arrived[q]] /\ mask = [q \in Ranks |-> mask[q]]
    BY DEF Shape
  <1> DEFINE own(k) == k - PoolBlockOffset(c, e) \in 0 .. CeilDiv(sums[r][e].n, BlockM) - 1
             f == [k \in DOMAIN arrived[r] |-> IF own(k) THEN 0 ELSE arrived[r][k]]
             g == [k \in DOMAIN mask[r] |-> IF own(k) THEN {} ELSE mask[r][k]]
  <1>2. arrived' = [arrived EXCEPT ![r] = f] /\ mask' = [mask EXCEPT ![r] = g]
    BY <1>1 DEF Clear
  <1>3. \A k : /\ Entry(f, k, 0) = IF own(k) THEN 0 ELSE Entry(arrived[r], k, 0)
               /\ Entry(g, k, {}) = IF own(k) THEN {} ELSE Entry(mask[r], k, {})
    <2> HIDE DEF own
    <2> QED BY DEF Entry
  <1> HIDE DEF f, g, own
  <1>4. /\ arrived'[r] = f /\ mask'[r] = g
        /\ arrived' = [q \in Ranks |-> arrived'[q]] /\ mask' = [q \in Ranks |-> mask'[q]]
        /\ \A q \in Ranks : q # r => arrived'[q] = arrived[q] /\ mask'[q] = mask[q]
    BY <1>1, <1>2
  <1> QED BY <1>3, <1>4 DEF Bare, own

LEMMA CleanDoes ==
  ASSUME IInv, NEW r \in Ranks, NEW s \in SMs \ {0}, Clean(r, s), NEW l, l = launch[r],
         NEW e, e = Expert1(r, s), NEW more, more = (e + NumSMs - 1 < NumExperts)
  PROVE  /\ DS(r, s) = 12
         /\ OnlyD(r, s, IF more THEN 12 ELSE 13) /\ pc' \in [Agents -> Nat \ {0}]
         /\ SetD(r, s, IF more THEN todo[D(r, s)] + 1 ELSE 0)
         /\ e \in LocalExperts => Clear(r, Ins(l, r), e) /\ Wiped(r, e)
         /\ e \notin LocalExperts => UNCHANGED <<recv, sums, arrived, mask>>
         /\ UNCHANGED <<barrier, launch, counts, slots, send, index, pool, hidden, combine>>
  <1> DEFINE a == D(r, s)
             N == NumSMs - 1
             n == todo[a]
  <1>1. PcInv /\ TodoInv /\ CountsInv
    BY Parts
  <1>2. N \in Nat \ {0} /\ n \in Nat /\ s - 1 \in Nat /\ NumExperts \in Nat /\ NumSMs \in Nat
    <2>1. NumSMs \in Nat \ {0} /\ NumExperts \in Nat /\ N \in Nat \ {0}
      BY Sizes1, CleanerIs
    <2>2. s \in 1 .. NumSMs - 1
      BY <2>1 DEF SMs
    <2> QED BY <1>1, <2>1, <2>2, TodoIs DEF TodoInv, TodoOK
  <1>3. e \in Nat
    <2>1. n * N \in Nat
      <3> HIDE DEF n, N
      <3> QED BY <1>2
    <2>2. e = s - 1 + n * N
      BY DEF Expert1
    <2> HIDE DEF n, N
    <2> QED BY <1>2, <2>1, <2>2
  <1>4. /\ At(a, "clean")
        /\ IF e < NumExperts
           THEN /\ Clear(r, Instance(counts[a]), e) /\ Wiped(r, e)
                /\ IF more THEN todo' = [todo EXCEPT ![a] = @ + 1] /\ UNCHANGED pc ELSE Go(a)
                /\ UNCHANGED send
           ELSE Go(a) /\ UNCHANGED <<send, recv, sums, arrived, mask>>
        /\ UNCHANGED <<barrier, launch, counts, slots, index, pool, hidden, combine>>
    BY DEF Clean, D, Wiped, Expert1
  <1>5. DS(r, s) = 12
    <2>1. DS(r, s) # 16 /\ DNames[DS(r, s)] = "clean" /\ DS(r, s) \in 1 .. 16
      BY <1>1, <1>4, AtD, StageFacts
    <2> QED BY <2>1 DEF DNames
  <1>6. e < NumExperts <=> e \in LocalExperts
    BY <1>2, <1>3 DEF LocalExperts
  <1>7. counts[a] = Tokens(l, r)
    BY <1>1, <1>5 DEF CountsInv
  <1>8. more => e < NumExperts
    <2>1. more => e + NumSMs - 1 < NumExperts
      OBVIOUS
    <2>2. NumSMs - 1 > 0
      BY <1>2
    <2> HIDE DEF n
    <2> QED BY <1>2, <1>3, <2>1, <2>2
  <1>9. /\ OnlyD(r, s, IF more THEN 12 ELSE 13) /\ pc' \in [Agents -> Nat \ {0}]
        /\ SetD(r, s, IF more THEN todo[D(r, s)] + 1 ELSE 0)
    <2>1. CASE more
      <3>1. todo' = [todo EXCEPT ![a] = todo[a] + 1] /\ pc' = pc
        BY <1>4, <1>8, <2>1
      <3>2. OnlyD(r, s, DS(r, s)) /\ pc' \in [Agents -> Nat \ {0}]
        BY <1>1, <3>1 DEF OnlyD, DS, ES, PcInv
      <3> QED BY <1>5, <2>1, <3>1, <3>2 DEF SetD
    <2>2. CASE ~ more
      <3>1. Go(D(r, s))
        BY <1>4, <2>2
      <3>2. OnlyD(r, s, NextD(s, DS(r, s))) /\ pc' \in [Agents -> Nat \ {0}] /\ todo' = [todo EXCEPT ![D(r, s)] = 0]
        BY <1>1, <1>5, <3>1, GoD
      <3>3. NextD(s, 12) = 13
        BY DEF NextD
      <3> QED BY <1>5, <2>2, <3>2, <3>3 DEF SetD
    <2> QED BY <2>1, <2>2
  <1>10. UNCHANGED send
    BY <1>4
  <1> HIDE DEF a
  <1> QED BY <1>4, <1>5, <1>6, <1>7, <1>9, <1>10 DEF Ins

LEMMA CleanCounts ==
  ASSUME PcInv, LaunchInv, RoundInv, NEW r \in Ranks, HeardInv(r), NEW s \in SMs, DS(r, s) = 12,
         NEW e \in LocalExperts, e \notin Cleared(r)
  PROVE  sums[r][e].n = Received(launch[r], r, e)
  <1> DEFINE l == launch[r]
             x == Glob(r, e)
  <1>1. l \in Nths /\ x \in GlobalExperts /\ Epoch(r, e) = l
    BY LaunchIs, GlobalIs DEF Epoch
  <1>2. \A q \in Ranks : DS(q, 0) >= 6 /\ DS(q, 0) \in 1 .. 16 /\ launch[q] = l
    <2>1. DS(r, s) \in 8 .. 13
      OBVIOUS
    <2> QED BY <2>1, AllWork, ZeroSM, StageFacts
  <1>3. Heard(r, e) = Ranks
    <2>1. \A q \in Ranks : x \in Told(q)
      BY <1>1, <1>2 DEF Told
    <2> QED BY <1>1, <1>2, <2>1 DEF Heard
  <1>4. sums[r][e] = [sms |-> NumSMs * Cardinality(Heard(r, e)), n |-> Cardinality(Tagged(Heard(r, e), Epoch(r, e), x))]
    BY DEF HeardInv
  <1>5. sums[r][e].n = Cardinality(Tagged(Ranks, l, x))
    BY <1>1, <1>3, <1>4
  <1> QED BY <1>1, <1>5, ReceivedIs

(* The counters of an expert, cleared, have heard nothing of the next launch. *)
LEMMA HeardWipe ==
  ASSUME PcInv, LaunchInv, RoundInv, Shape, NEW r \in Ranks, HeardInv(r), NEW s \in SMs, DS(r, s) = 12,
         NEW e \in LocalExperts, Cleared(r)' = Cleared(r) \cup {e}, launch' = launch,
         \A q \in Ranks : Told(q)' = Told(q), Wiped(r, e)
  PROVE  HeardInv(r)'
  <1>1. /\ sums'[r] = [x \in LocalExperts |-> sums'[r][x]]
        /\ recv'[r] = [q \in Ranks |-> [x \in LocalExperts |-> recv'[r][q][x]]]
        /\ \A x \in LocalExperts : x # e => sums'[r][x] = sums[r][x]
        /\ \A q \in Ranks, x \in LocalExperts : x # e => recv'[r][q][x] = recv[r][q][x]
        /\ sums'[r][e] = [sms |-> 0, n |-> 0] /\ \A q \in Ranks : recv'[r][q][e] = 0
    BY WipedIs
  <1>2. launch[r] \in Nat /\ \A q \in Ranks : launch[q] = launch[r]
    <2>1. DS(r, s) \in 8 .. 13
      OBVIOUS
    <2> QED BY <2>1, AllWork, LaunchIs
  <1>3. ASSUME NEW x \in LocalExperts
        PROVE  /\ sums'[r][x] = [sms |-> NumSMs * Cardinality(Heard(r, x)'),
                                 n |-> Cardinality(Tagged(Heard(r, x)', Epoch(r, x)', Glob(r, x)))]
               /\ \A q \in Ranks :
                    recv'[r][q][x] = IF q \in Heard(r, x)' THEN Cardinality(Sent(Epoch(r, x)', q, Glob(r, x))) ELSE 0
    <2>1. CASE x # e
      <3>1. Epoch(r, x)' = Epoch(r, x)
        BY <2>1 DEF Epoch
      <3>2. Heard(r, x)' = Heard(r, x)
        BY <3>1 DEF Heard
      <3>3. /\ sums[r][x] = [sms |-> NumSMs * Cardinality(Heard(r, x)),
                             n |-> Cardinality(Tagged(Heard(r, x), Epoch(r, x), Glob(r, x)))]
            /\ \A q \in Ranks :
                 recv[r][q][x] = IF q \in Heard(r, x) THEN Cardinality(Sent(Epoch(r, x), q, Glob(r, x))) ELSE 0
        BY DEF HeardInv
      <3> QED BY <1>1, <2>1, <3>1, <3>2, <3>3
    <2>2. CASE x = e
      <3>1. Epoch(r, e)' = launch[r] + 1
        BY DEF Epoch
      <3>2. Heard(r, e)' = {}
        <4>1. Heard(r, e)' = {q \in Ranks : Glob(r, e) \in Told(q) /\ launch[q] = launch[r] + 1}
          BY <3>1 DEF Heard
        <4> QED BY <1>2, <4>1
      <3>3. Tagged({}, Epoch(r, e)', Glob(r, e)) = {}
        BY DEF Tagged
      <3>4. Cardinality({}) = 0
        BY FS_EmptySet
      <3>5. NumSMs * 0 = 0
        BY Sizes1
      <3> QED BY <1>1, <2>2, <3>2, <3>3, <3>4, <3>5
    <2> QED BY <2>1, <2>2
  <1> QED BY <1>1, <1>3 DEF HeardInv

(* The blocks that are cleared are those of the expert.                     *)
LEMMA DirtyWipe ==
  ASSUME LaunchInv, Shape, NEW r \in Ranks, DirtyInv(r), NEW l, l = launch[r], NEW e \in LocalExperts,
         Cleared(r)' = Cleared(r) \cup {e}, launch' = launch,
         sums[r][e].n = Received(l, r, e), Clear(r, Ins(l, r), e)
  PROVE  DirtyInv(r)'
  <1> DEFINE c == Ins(l, r)
             o == PoolBlockOffset(c, e)
             h == CeilDiv(sums[r][e].n, BlockM)
  <1>1. l \in Nths /\ Tokens(l, r) \in Plans /\ Tokens(l, r)[e] = Received(l, r, e) /\ launch'[r] = l
    BY LaunchIs, TokensAre
  <1>2. Bare(r, o, h)
    BY ClearIs
  <1>3. o \in Nat /\ h \in Nat /\ Own(l, r, e) = o .. o + h - 1
    <2>1. c = Instance(Tokens(l, r))
      BY DEF Ins
    <2> HIDE DEF c
    <2>2. /\ PoolBlockOffset(c, e) \in Nat /\ NumMBlocks(c, e) \in Nat
          /\ NumMBlocks(c, e) = CeilDiv(Tokens(l, r)[e], BlockM)
      BY <1>1, <2>1, PartsApart
    <2> QED BY <1>1, <2>2 DEF Own, Part, c
  <1> HIDE DEF o, h
  <1> SUFFICES ASSUME NEW k \in Nat, Entry(arrived'[r], k, 0) # 0 \/ Entry(mask'[r], k, {}) # {}
               PROVE  \E d \in LocalExperts \ (Cleared(r) \cup {e}) : k \in Own(l, r, d)
    BY <1>1 DEF DirtyInv
  <1>4. ~ (k - o \in 0 .. h - 1) /\ (Entry(arrived[r], k, 0) # 0 \/ Entry(mask[r], k, {}) # {})
    <2>1. /\ Entry(arrived'[r], k, 0) = IF k - o \in 0 .. h - 1 THEN 0 ELSE Entry(arrived[r], k, 0)
          /\ Entry(mask'[r], k, {}) = IF k - o \in 0 .. h - 1 THEN {} ELSE Entry(mask[r], k, {})
      BY <1>2 DEF Bare
    <2> QED BY <2>1
  <1>5. PICK d \in LocalExperts \ Cleared(r) : k \in Own(l, r, d)
    BY <1>4 DEF DirtyInv
  <1>6. k \notin Own(l, r, e)
    BY <1>3, <1>4
  <1> QED BY <1>5, <1>6

LEMMA CleanStep ==
  ASSUME IInv, NEW r \in Ranks, NEW s \in SMs \ {0}, Clean(r, s)
  PROVE  IInv'
  <1> DEFINE l == launch[r]
             e == Expert1(r, s)
             more == (e + NumSMs - 1 < NumExperts)
             n == todo[D(r, s)]
             k == IF more THEN 12 ELSE 13
             m == IF more THEN n + 1 ELSE 0
  <1>1. PcInv /\ LaunchInv /\ RoundInv /\ TodoInv /\ CountsInv /\ Shape /\ \A q \in Ranks : DataInv(q)
    BY Parts
  <1>2. /\ DS(r, s) = 12 /\ OnlyD(r, s, k) /\ pc' \in [Agents -> Nat \ {0}] /\ SetD(r, s, m)
        /\ e \in LocalExperts => Clear(r, Ins(l, r), e) /\ Wiped(r, e)
        /\ e \notin LocalExperts => UNCHANGED <<recv, sums, arrived, mask>>
        /\ UNCHANGED <<barrier, launch, counts, slots, send, index, pool, hidden, combine>>
    <2> HIDE DEF more, e
    <2>1. more = (e + NumSMs - 1 < NumExperts) /\ e = Expert1(r, s)
      BY DEF more, e
    <2> QED BY <2>1, CleanDoes
  <1>3. n \in Nat /\ TodoOK
    BY <1>1, TodoIs DEF TodoInv, TodoOK
  <1>4. e \notin Cleared(r) /\ Cleared(r)' = Cleared(r) \cup ({e} \cap LocalExperts)
    <2> HIDE DEF more, e
    <2>1. more = (e + NumSMs - 1 < NumExperts) /\ e = Expert1(r, s)
      BY DEF more, e
    <2> QED BY <1>2, <1>3, <2>1, ClearedAdd
  <1>5. k \in {12, 13} /\ m \in Nat /\ (k = 13 => m = 0)
    <2> HIDE DEF n, more
    <2> QED BY <1>3
  <1> HIDE DEF k, m, more, n, e
  <1>6. \A q \in Ranks, t \in SMs : ES(q, t)' = ES(q, t) /\ DS(q, t)' = (IF q = r /\ t = s THEN k ELSE DS(q, t))
    BY <1>2 DEF OnlyD
  <1>7. PcInv'
    BY <1>1, <1>2, <1>5, KeepsD
  <1>8. RoundInv'
    BY <1>1, <1>2, <1>5, <1>6, <1>7, ZeroSM, KeepRounds
  <1>9. TodoInv' /\ LaunchInv' /\ TodoOK'
    <2>1. TodoInv' /\ TodoOK'
      BY <1>1, <1>2, <1>5, TodoD
    <2> QED BY <1>1, <1>2, <2>1 DEF LaunchInv
  <1>10. CountsInv'
    BY <1>1, <1>2, <1>5, <1>6, KeepCounts
  <1>11. StagesOK /\ StagesOK'
    <2>1. StagesOK
      BY <1>1, StagesAre
    <2> QED BY <1>1, <1>5, <1>6, <2>1 DEF StagesOK
  <1>12. \A q \in Ranks, t \in SMs : /\ todo'[E(q, t)] = todo[E(q, t)]
                                     /\ (q # r \/ t # s) => todo'[D(q, t)] = todo[D(q, t)]
    BY <1>1, <1>2, <1>5, TodoMove DEF TodoInv
  <1>13. ASSUME NEW q \in Ranks
         PROVE  /\ SameSends(q) /\ Told(q)' = Told(q) /\ SameWorks(q)
                /\ (q # r => Cleared(q)' = Cleared(q))
    <2>1. SameSends(q)
      BY <1>2, <1>5, <1>6, ZeroSM, ClaimsSame
    <2>2. Told(q)' = Told(q)
      BY <1>2, <1>5, <1>6, <1>3, <1>9, <1>11, <1>12, ZeroSM, ToldSame DEF Still
    <2>3. q # r => Cleared(q)' = Cleared(q)
      BY <1>2, <1>6, <1>3, <1>9, <1>11, <1>12, ClearedSame DEF Still
    <2>4. Worked(q)' = Worked(q)
      BY <1>2, <1>6, <1>3, <1>9, <1>11, <1>12, WorkedSame DEF Still
    <2>5. Pulled(q)' = Pulled(q)
      BY <1>1, <1>2, <1>5, <1>6, <1>3, <1>9, <1>11, <1>12, PulledSame DEF Still
    <2>6. (NoClean(q)' => NoClean(q)) /\ (Working(q)' => Working(q)) /\ (Reducing(q)' => Reducing(q))
      BY <1>2, <1>5, <1>6, ZeroSM DEF NoClean, Working, Reducing
    <2> QED BY <2>1, <2>2, <2>3, <2>4, <2>5, <2>6 DEF SameWorks, SameDone
  <1>14. ~ NoClean(r)'
    <2>1. DS(r, s)' \in {12, 13}
      BY <1>5, <1>6
    <2>2. ~ (DS(r, s)' <= 11)
      BY <2>1
    <2> QED BY <2>2 DEF NoClean
  <1>15. launch' = launch /\ \A q \in Ranks : launch'[q] = launch[q] /\ pool'[q] = pool[q] /\ index'[q] = index[q]
                                              /\ hidden'[q] = hidden[q]
    BY <1>2
  <1>16. ASSUME e \notin LocalExperts
         PROVE  Shape' /\ \A q \in Ranks : HeardInv(q)' /\ WorksInv(q)'
    <2>1. UNCHANGED <<recv, sums, arrived, mask>>
      BY <1>2, <1>16
    <2>2. \A q \in Ranks : Cleared(q)' = Cleared(q)
      BY <1>4, <1>13, <1>16
    <2>3. \A q \in Ranks : SameHears(q)
      BY <1>13, <2>2 DEF SameHears
    <2>4. Shape'
      BY <1>1, <1>2, <2>1 DEF Shape
    <2>5. ASSUME NEW q \in Ranks
          PROVE  HeardInv(q)' /\ WorksInv(q)'
      <3>1. HeardInv(q)'
        BY <1>1, <1>15, <2>1, <2>3, KeepHears DEF DataInv
      <3>2. WorksInv(q)'
        BY <1>1, <1>13, <1>15, <2>1, <2>2, KeepWorks DEF DataInv
      <3> QED BY <3>1, <3>2
    <2> QED BY <2>4, <2>5
  <1>17. ASSUME e \in LocalExperts
         PROVE  Shape' /\ \A q \in Ranks : HeardInv(q)' /\ WorksInv(q)'
    <2>1. Clear(r, Ins(l, r), e) /\ Wiped(r, e) /\ Cleared(r)' = Cleared(r) \cup {e}
      BY <1>2, <1>4, <1>17
    <2>2. /\ arrived' = [q \in Ranks |-> arrived'[q]] /\ mask' = [q \in Ranks |-> mask'[q]]
          /\ \A q \in Ranks : q # r => arrived'[q] = arrived[q] /\ mask'[q] = mask[q]
      BY <1>1, <2>1, ClearIs
    <2>3. HeardInv(r) /\ WorksInv(r)
      BY <1>1 DEF DataInv
    <2>4. /\ sums' = [q \in Ranks |-> sums'[q]] /\ recv' = [q \in Ranks |-> recv'[q]]
          /\ \A q \in Ranks : q # r => sums'[q] = sums[q] /\ recv'[q] = recv[q]
      BY <1>1, <1>17, <2>1, <2>3, WipedIs
    <2>5. Shape'
      BY <1>1, <1>2, <2>2, <2>4 DEF Shape
    <2>6. HeardInv(r)'
      BY <1>1, <1>2, <1>13, <1>15, <1>17, <2>1, <2>3, HeardWipe
    <2>7. WorksInv(r)'
      <3>1. PoolInv(r) /\ DirtyInv(r) /\ WorkInv(r)
        BY <2>3 DEF WorksInv
      <3>2. sums[r][e].n = Received(l, r, e)
        BY <1>1, <1>2, <1>4, <1>17, <2>3, CleanCounts
      <3>3. DirtyInv(r)'
        BY <1>1, <1>15, <1>17, <2>1, <3>1, <3>2, DirtyWipe
      <3>4. PoolInv(r)'
        BY <1>13, <1>15, <3>1, KeepPool DEF SameWorks, SameDone
      <3>5. WorkInv(r)'
        BY <1>13, <1>15, <3>1, KeepWork DEF SameWorks, SameDone
      <3>6. ArrivedInv(r)' /\ MaskInv(r)'
        BY <1>14 DEF ArrivedInv, MaskInv
      <3> QED BY <3>3, <3>4, <3>5, <3>6 DEF WorksInv
    <2>8. ASSUME NEW q \in Ranks, q # r
          PROVE  HeardInv(q)' /\ WorksInv(q)'
      <3>1. Cleared(q)' = Cleared(q) /\ launch'[q] = launch[q]
        BY <1>13, <1>15, <2>8
      <3>2. \A x \in LocalExperts : Epoch(q, x)' = Epoch(q, x)
        BY <3>1 DEF Epoch
      <3>3. \A x \in LocalExperts : Heard(q, x)' = Heard(q, x)
        BY <1>13, <1>15, <3>2 DEF Heard
      <3>4. HeardInv(q)'
        BY <1>1, <2>4, <2>8, <3>2, <3>3, KeepHeard DEF DataInv
      <3>5. WorksInv(q)'
        BY <1>1, <1>13, <1>15, <2>2, <2>8, <3>1, KeepWorks DEF DataInv
      <3> QED BY <3>4, <3>5
    <2> QED BY <2>5, <2>6, <2>7, <2>8
  <1>18. ASSUME NEW q \in Ranks
         PROVE  DataInv(q)'
    <2>1. SendsInv(q)'
      BY <1>1, <1>2, <1>13, KeepSends DEF DataInv
    <2>2. BacksInv(q)'
      BY <1>1, <1>2, <1>13, KeepBacks DEF DataInv
    <2> QED BY <1>16, <1>17, <2>1, <2>2 DEF DataInv
  <1>19. Shape'
    BY <1>16, <1>17
  <1> QED BY <1>7, <1>8, <1>9, <1>10, <1>18, <1>19 DEF IInv, Control

(* SM 0 clears what the rank sent.                                          *)
LEMMA CleanZero ==
  ASSUME IInv, NEW r \in Ranks, Clean(r, 0)
  PROVE  IInv'
  <1>1. PcInv /\ LaunchInv /\ RoundInv /\ TodoInv /\ CountsInv /\ Shape /\ \A q \in Ranks : DataInv(q)
    BY Parts
  <1>2. /\ At(D(r, 0), "clean") /\ Go(D(r, 0))
        /\ send' = [send EXCEPT ![r] = [x \in GlobalExperts |-> [sms |-> 0, n |-> 0]]]
        /\ UNCHANGED <<barrier, launch, counts, slots, recv, sums, index, pool, arrived, mask, hidden, combine>>
    BY DEF Clean, D
  <1>3. DS(r, 0) = 12
    <2>1. DS(r, 0) # 16 /\ DNames[DS(r, 0)] = "clean" /\ DS(r, 0) \in 1 .. 16
      BY <1>1, <1>2, ZeroSM, AtD, StageFacts
    <2> QED BY <2>1 DEF DNames
  <1>4. OnlyD(r, 0, 13) /\ pc' \in [Agents -> Nat \ {0}] /\ SetD(r, 0, 0)
    <2>1. NextD(0, 12) = 13
      BY DEF NextD
    <2>2. OnlyD(r, 0, NextD(0, DS(r, 0))) /\ pc' \in [Agents -> Nat \ {0}] /\ todo' = [todo EXCEPT ![D(r, 0)] = 0]
      BY <1>1, <1>2, <1>3, ZeroSM, GoD
    <2> QED BY <1>3, <2>1, <2>2 DEF SetD
  <1>5. \A q \in Ranks, t \in SMs : ES(q, t)' = ES(q, t) /\ DS(q, t)' = (IF q = r /\ t = 0 THEN 13 ELSE DS(q, t))
    BY <1>4 DEF OnlyD
  <1>6. PcInv'
    BY <1>1, <1>3, <1>4, ZeroSM, KeepsD
  <1>7. RoundInv'
    BY <1>1, <1>2, <1>3, <1>5, <1>6, ZeroSM, KeepRounds
  <1>8. TodoInv' /\ LaunchInv' /\ TodoOK /\ TodoOK'
    <2>1. TodoInv' /\ TodoOK /\ TodoOK'
      BY <1>1, <1>2, <1>4, ZeroSM, TodoD
    <2> QED BY <1>1, <1>2, <2>1 DEF LaunchInv
  <1>9. CountsInv'
    BY <1>1, <1>2, <1>3, <1>5, KeepCounts
  <1>10. StagesOK /\ StagesOK'
    <2>1. StagesOK
      BY <1>1, StagesAre
    <2> QED BY <1>1, <1>5, <2>1 DEF StagesOK
  <1>11. \A q \in Ranks, t \in SMs : /\ todo'[E(q, t)] = todo[E(q, t)]
                                     /\ (q # r \/ t # 0) => todo'[D(q, t)] = todo[D(q, t)]
    BY <1>1, <1>4, ZeroSM, TodoMove DEF TodoInv
  <1>12. ASSUME NEW q \in Ranks
         PROVE  /\ SameHears(q) /\ SameWorks(q) /\ Claimed(q)' = Claimed(q) /\ Indexed(q)' = Indexed(q)
                /\ (q # r => (Sending(q)' <=> Sending(q)))
    <2>1. Told(q)' = Told(q)
      BY <1>3, <1>5, <1>8, <1>10, <1>11, ZeroSM, ToldSame DEF Still
    <2>2. Cleared(q)' = Cleared(q)
      BY <1>5, <1>8, <1>10, <1>11, ClearedSame DEF Still
    <2>3. Worked(q)' = Worked(q)
      BY <1>2, <1>5, <1>8, <1>10, <1>11, WorkedSame DEF Still
    <2>4. Pulled(q)' = Pulled(q)
      BY <1>1, <1>2, <1>3, <1>5, <1>8, <1>10, <1>11, PulledSame DEF Still
    <2>5. (NoClean(q)' => NoClean(q)) /\ (Working(q)' => Working(q)) /\ (Reducing(q)' => Reducing(q))
      BY <1>2, <1>3, <1>5, ZeroSM DEF NoClean, Working, Reducing
    <2>6. Claimed(q)' = Claimed(q) /\ Indexed(q)' = Indexed(q) /\ (q # r => (Sending(q)' <=> Sending(q)))
      BY <1>3, <1>5, ZeroSM DEF Claimed, Indexed, Sending
    <2> QED BY <2>1, <2>2, <2>3, <2>4, <2>5, <2>6 DEF SameHears, SameWorks, SameDone
  <1>13. /\ \A q \in Ranks : q # r => send'[q] = send[q]
         /\ send'[r] = [x \in GlobalExperts |-> [sms |-> 0, n |-> 0]]
         /\ send' = [q \in Ranks |-> send'[q]]
    <2>1. send = [q \in Ranks |-> send[q]]
      BY <1>1 DEF Shape
    <2> QED BY <1>2, <2>1
  <1>14. SendInv(r)'
    <2>1. ~ Sending(r)'
      BY <1>5, ZeroSM DEF Sending
    <2> QED BY <1>13, <2>1 DEF SendInv
  <1>15. launch' = launch /\ \A q \in Ranks : launch'[q] = launch[q] /\ slots'[q] = slots[q] /\ index'[q] = index[q]
    BY <1>2
  <1>16. ASSUME NEW q \in Ranks
         PROVE  DataInv(q)'
    <2>1. SendsInv(q)'
      <3>1. SendInv(q) /\ SlotInv(q) /\ IndexInv(q)
        BY <1>1 DEF DataInv, SendsInv
      <3>2. SlotInv(q)'
        BY <1>12, <1>15, <3>1, KeepSlot
      <3>3. IndexInv(q)'
        BY <1>12, <1>15, <3>1, KeepIndex
      <3>4. SendInv(q)'
        <4>1. CASE q = r
          BY <1>14, <4>1
        <4>2. CASE q # r
          BY <1>12, <1>13, <1>15, <3>1, <4>2, KeepSend
        <4> QED BY <4>1, <4>2
      <3> QED BY <3>2, <3>3, <3>4 DEF SendsInv
    <2>2. HeardInv(q)'
      BY <1>1, <1>2, <1>12, KeepHears DEF DataInv
    <2>3. WorksInv(q)' /\ BacksInv(q)'
      BY <1>1, <1>2, <1>12, KeepWorks, KeepBacks DEF DataInv, SameHears
    <2> QED BY <2>1, <2>2, <2>3 DEF DataInv
  <1>17. Shape'
    BY <1>1, <1>2, <1>13 DEF Shape
  <1> QED BY <1>6, <1>7, <1>8, <1>9, <1>16, <1>17 DEF IInv, Control

-----------------------------------------------------------------------------
(* The next launch on a rank.                                               *)

(* Whoever has ended a launch is nobody's source of tokens any more.        *)
LEMMA EndedApart ==
  ASSUME PcInv, LaunchInv, RoundInv, NEW r \in Ranks, DS(r, 0) = 16, ES(r, 0) = 10, NEW q \in Ranks
  PROVE  /\ \A e \in LocalExperts : Epoch(q, e) # launch[r]
         /\ launch[q] = launch[r] + 1 => DS(q, 0) <= 6
         /\ launch[q] = launch[r] => \A e \in LocalExperts : Epoch(q, e) = launch[r] + 1 /\ e \in Cleared(q)
  <1>1. launch[q] \in Nat /\ launch[r] \in Nat
    BY LaunchIs
  <1>2. 3 * launch[r] + Ended(r) <= 3 * launch[q] + Begun(q)
    BY Apart
  <1>3. Ended(r) = 3 /\ Begun(q) \in 0 .. 3
    <2>1. Ended(r) = 3
      BY DEF Ended, One
    <2> QED BY <2>1, RoundIs
  <1>4. launch[q] >= launch[r] /\ (launch[q] = launch[r] => Begun(q) = 3)
    <2> DEFINE a == launch[q]
               b == launch[r]
               c == Begun(q)
    <2>1. a \in Nat /\ b \in Nat /\ c \in 0 .. 3 /\ 3 * b + 3 <= 3 * a + c
      BY <1>1, <1>2, <1>3
    <2> HIDE DEF a, b, c
    <2>2. a >= b /\ (a = b => c = 3)
      BY <2>1
    <2> QED BY <2>2 DEF a, b, c
  <1>5. ASSUME launch[q] = launch[r]
        PROVE  \A e \in LocalExperts : e \in Cleared(q)
    <2>1. DS(q, 0) > 14 /\ DS(q, 0) \in 1 .. 16
      BY <1>3, <1>4, <1>5, RoundIs, ZeroSM, StageFacts
    <2>2. \A t \in SMs : DS(q, t) \in 1 .. 16 /\ (DS(q, 0) <= 13 <=> DS(q, t) <= 13)
      BY ZeroSM, StageFacts
    <2>3. \A t \in SMs : DS(q, t) > 12
      BY <2>1, <2>2
    <2> QED BY <2>3, CleanerIs DEF Cleared
  <1>6. launch[q] = launch[r] + 1 => DS(q, 0) <= 6
    BY Together
  <1>7. launch[q] = launch[r] => \A e \in LocalExperts : Epoch(q, e) = launch[r] + 1 /\ e \in Cleared(q)
    BY <1>5 DEF Epoch
  <1>8. ASSUME NEW e \in LocalExperts
        PROVE  Epoch(q, e) # launch[r]
    <2>1. CASE launch[q] = launch[r]
      BY <1>1, <1>7, <2>1
    <2>2. CASE launch[q] > launch[r]
      BY <1>1, <2>2 DEF Epoch
    <2> QED BY <1>1, <1>4, <2>1, <2>2
  <1> QED BY <1>6, <1>7, <1>8

(* A rank at its start has nothing, and nothing is left of its last launch. *)
Fresh(r) == \A s \in SMs : DS(r, s) = 1 /\ ES(r, s) = 1
Emptied(r) ==
  /\ \A e \in GlobalExperts : send[r][e] = [sms |-> 0, n |-> 0]
  /\ \A k \in Nat : Entry(arrived[r], k, 0) = 0 /\ Entry(mask[r], k, {}) = {}
  /\ send[r] = [e \in GlobalExperts |-> send[r][e]]
  /\ slots[r] = [s \in SMs |-> slots[r][s]]

LEMMA FreshIs ==
  ASSUME NEW r \in Ranks, LaunchInv, Fresh(r), Emptied(r)
  PROVE  SendsInv(r) /\ WorksInv(r) /\ BacksInv(r) /\ Told(r) = {} /\ Cleared(r) = {}
  <1>1. Claimed(r) = {} /\ Indexed(r) = {} /\ Sending(r)
    BY ZeroSM DEF Fresh, Claimed, Indexed, Sending
  <1>2. \A e : Counted(r, e) = {} /\ Cardinality(Counted(r, e)) = 0 /\ Cardinality(Claimed(r)) = 0
    BY <1>1, FS_EmptySet DEF Counted, Of
  <1>3. SendInv(r)
    BY <1>1, <1>2 DEF SendInv, Emptied
  <1>4. SlotInv(r)
    BY <1>1, <1>2 DEF SlotInv, Emptied
  <1>5. IndexInv(r)
    BY <1>1 DEF IndexInv
  <1>6. Told(r) = {}
    BY ZeroSM DEF Fresh, Told
  <1>7. Cleared(r) = {}
    BY CleanerIs DEF Fresh, Cleared
  <1>8. Pulled(r) = {}
    <2>1. launch[r] \in Nths
      BY LaunchIs
    <2>2. \A i \in Toks(launch[r], r) : i % NumSMs \in SMs
      BY <2>1, TokIs
    <2> QED BY <2>2 DEF Fresh, Pulled
  <1>9. Worked(r) = {}
    BY DEF Fresh, Worked
  <1>10. ~ Working(r) /\ ~ Reducing(r)
    BY ZeroSM DEF Fresh, Working, Reducing
  <1>11. PoolInv(r) /\ BackInv(r) /\ ReduceInv(r)
    BY <1>10 DEF PoolInv, BackInv, ReduceInv
  <1>12. ArrivedInv(r)
    <2>1. \A k : Arrivals(r, k) = {}
      BY <1>8 DEF Arrivals
    <2>2. \A k : Cardinality(Arrivals(r, k)) = 0
      BY <2>1, FS_EmptySet
    <2> QED BY <2>2 DEF ArrivedInv, Emptied
  <1>13. MaskInv(r) /\ DirtyInv(r)
    BY DEF MaskInv, DirtyInv, Emptied
  <1>14. WorkInv(r)
    BY <1>9 DEF WorkInv
  <1> QED BY <1>3, <1>4, <1>5, <1>6, <1>7, <1>11, <1>12, <1>13, <1>14 DEF SendsInv, WorksInv, BacksInv

LEMMA FreshNext ==
  ASSUME NEW r \in Ranks
  PROVE  (LaunchInv /\ Fresh(r) /\ Emptied(r))'
         => (SendsInv(r) /\ WorksInv(r) /\ BacksInv(r) /\ Told(r) = {} /\ Cleared(r) = {})'
  <1>1. LaunchInv /\ Fresh(r) /\ Emptied(r)
        => SendsInv(r) /\ WorksInv(r) /\ BacksInv(r) /\ Told(r) = {} /\ Cleared(r) = {}
    BY FreshIs
  <1> QED BY <1>1, PTL

LEMMA DoneIs ==
  ASSUME PcInv, NEW r \in Ranks, KernelDone(r)
  PROVE  \A s \in SMs : DS(r, s) = 16 /\ ES(r, s) = 10
  <1>1. ASSUME NEW s \in SMs
        PROVE  Done(D(r, s)) /\ Done(E(r, s))
    <2>1. D(r, s) \in Agents /\ E(r, s) \in Agents /\ D(r, s)[2] = r /\ E(r, s)[2] = r
      BY AgentsAre
    <2> QED BY <2>1 DEF KernelDone
  <1> QED BY <1>1, AtD, AtE

Restart(r) ==
  /\ pc' = [a \in Agents |-> IF a[2] = r THEN 1 ELSE pc[a]]
  /\ counts' = [a \in Agents |-> IF a[2] = r THEN <<>> ELSE counts[a]]

LEMMA RestartIs ==
  ASSUME PcInv, NEW r \in Ranks, Restart(r)
  PROVE  /\ PcInv' /\ pc' \in [Agents -> Nat \ {0}]
         /\ Fresh(r)' /\ \A q \in Ranks, t \in SMs : q # r => DS(q, t)' = DS(q, t) /\ ES(q, t)' = ES(q, t)
         /\ counts' = [a \in Agents |-> counts'[a]]
         /\ \A q \in Ranks, t \in SMs : q # r => counts'[D(q, t)] = counts[D(q, t)] /\ counts'[E(q, t)] = counts[E(q, t)]
  <1>1. pc' \in [Agents -> Nat \ {0}]
    BY DEF Restart, PcInv
  <1>2. \A q \in Ranks, t \in SMs : /\ D(q, t) \in Agents /\ E(q, t) \in Agents
                                    /\ D(q, t)[2] = q /\ E(q, t)[2] = q
    BY AgentsAre
  <1>3. \A q \in Ranks, t \in SMs : /\ pc'[D(q, t)] = (IF q = r THEN 1 ELSE pc[D(q, t)])
                                    /\ pc'[E(q, t)] = (IF q = r THEN 1 ELSE pc[E(q, t)])
    BY <1>2 DEF Restart
  <1>4. \A q \in Ranks, t \in SMs : q # r => DS(q, t)' = DS(q, t) /\ ES(q, t)' = ES(q, t)
    BY <1>3 DEF DS, ES
  <1>5. \A t \in SMs : DS(r, t)' = 1 /\ ES(r, t)' = 1
    <2>1. \A t \in SMs : DStage(t, 1) = 1 /\ EStage(t, 1) = 1
      BY DEF DStage, EStage
    <2> QED BY <1>3, <2>1 DEF DS, ES
  <1>6. StageInv'
    <2>1. ASSUME NEW q \in Ranks, NEW s \in SMs
          PROVE  /\ DS(q, s)' \in 1 .. 16 /\ ES(q, s)' \in 1 .. 10
                 /\ s # 0 => DS(q, s)' \notin {4, 5, 6, 14, 15} /\ ES(q, s)' \notin {5, 6}
                 /\ DS(q, s)' <= 8 <=> ES(q, s)' = 1
                 /\ DS(q, s)' <= 11 <=> ES(q, s)' <= 8
                 /\ \A t \in SMs :
                      /\ DS(q, s)' <= 3 <=> DS(q, t)' <= 3
                      /\ DS(q, s)' <= 7 <=> DS(q, t)' <= 7
                      /\ DS(q, s)' <= 13 <=> DS(q, t)' <= 13
                      /\ ES(q, s)' <= 4 <=> ES(q, t)' <= 4
                      /\ ES(q, s)' <= 7 <=> ES(q, t)' <= 7
      <3>1. CASE q = r
        BY <1>5, <3>1
      <3>2. CASE q # r
        BY <1>4, <3>2, StageFacts
      <3> QED BY <3>1, <3>2
    <2> QED BY <2>1 DEF StageInv
  <1>7. counts' = [a \in Agents |-> counts'[a]]
        /\ \A q \in Ranks, t \in SMs : q # r => counts'[D(q, t)] = counts[D(q, t)] /\ counts'[E(q, t)] = counts[E(q, t)]
    BY <1>2 DEF Restart
  <1> QED BY <1>1, <1>4, <1>5, <1>6, <1>7 DEF PcInv, Fresh

(* What the others have heard does not change: the rank is not yet heard of *)
(* in the launch it begins, and nobody listens to its last one.             *)
LEMMA HeardLaunch ==
  ASSUME PcInv, LaunchInv, RoundInv, NEW r \in Ranks, DS(r, 0) = 16, ES(r, 0) = 10,
         Told(r)' = {}, Cleared(r)' = {}, launch'[r] = launch[r] + 1,
         \A q \in Ranks : q # r => launch'[q] = launch[q] /\ Told(q)' = Told(q) /\ Cleared(q)' = Cleared(q),
         NEW q \in Ranks, HeardInv(q), sums'[q] = sums[q], recv'[q] = recv[q]
  PROVE  HeardInv(q)'
  <1>1. \A e \in LocalExperts : Epoch(q, e) # launch[r]
    BY EndedApart
  <1>2. \A e \in LocalExperts : Epoch(r, e) = launch[r] + 1
    BY EndedApart
  <1>3. \A e \in LocalExperts : Epoch(q, e)' = Epoch(q, e)
    <2>1. CASE q = r
      BY <1>2, <2>1 DEF Epoch
    <2>2. CASE q # r
      BY <2>2 DEF Epoch
    <2> QED BY <2>1, <2>2
  <1>4. ASSUME NEW e \in LocalExperts
        PROVE  Heard(q, e)' = Heard(q, e)
    <2>1. ASSUME NEW p \in Ranks
          PROVE  (Glob(q, e) \in Told(p)' /\ launch'[p] = Epoch(q, e)')
                 <=> (Glob(q, e) \in Told(p) /\ launch[p] = Epoch(q, e))
      <3>1. CASE p = r
        BY <1>1, <3>1
      <3>2. CASE p # r
        BY <1>3, <3>2
      <3> QED BY <3>1, <3>2
    <2> QED BY <2>1 DEF Heard
  <1> QED BY <1>3, <1>4, KeepHeard

LEMMA LaunchStep ==
  ASSUME IInv, NEW r \in Ranks, Launch(r)
  PROVE  IInv'
  <1>1. PcInv /\ LaunchInv /\ RoundInv /\ TodoInv /\ CountsInv /\ Shape /\ \A q \in Ranks : DataInv(q)
    BY Parts
  <1>2. /\ KernelDone(r) /\ launch[r] < Len(Inputs) /\ Restart(r)
        /\ launch' = [launch EXCEPT ![r] = launch[r] + 1]
        /\ UNCHANGED <<barrier, todo, slots, workspace>>
    BY DEF Launch, Restart
  <1>3. UNCHANGED <<send, recv, sums, index, pool, arrived, mask, hidden, combine>>
    BY <1>2, WorkspaceIs
  <1>4. (\A s \in SMs : DS(r, s) = 16 /\ ES(r, s) = 10) /\ DS(r, 0) = 16 /\ ES(r, 0) = 10
    BY <1>1, <1>2, ZeroSM, DoneIs
  <1>5. /\ PcInv' /\ Fresh(r)'
        /\ \A q \in Ranks, t \in SMs : q # r => DS(q, t)' = DS(q, t) /\ ES(q, t)' = ES(q, t)
        /\ counts' = [a \in Agents |-> counts'[a]]
        /\ \A q \in Ranks, t \in SMs : q # r => /\ counts'[D(q, t)] = counts[D(q, t)]
                                                /\ counts'[E(q, t)] = counts[E(q, t)]
    BY <1>1, <1>2, RestartIs
  <1>6. /\ LaunchInv' /\ launch'[r] = launch[r] + 1 /\ \A q \in Ranks : q # r => launch'[q] = launch[q]
    <2>1. launch[r] \in Nths /\ launch[r] \in Nat \ {0} /\ Len(Inputs) \in Nat
      BY <1>1, LaunchIs, InputsFit
    <2>2. launch[r] + 1 \in Nths
      BY <1>2, <2>1 DEF Nths
    <2>3. launch \in [Ranks -> Nths] /\ launch'= [launch EXCEPT ![r] = launch[r] + 1]
      BY <1>1, <1>2 DEF LaunchInv
    <2>4. launch' \in [Ranks -> Nths]
      BY <2>2, <2>3
    <2>5. launch'[r] = launch[r] + 1 /\ \A q \in Ranks : q # r => launch'[q] = launch[q]
      BY <2>3
    <2> QED BY <2>4, <2>5 DEF LaunchInv, Nths
  <1>7. \A s \in SMs : DS(r, s)' = 1 /\ ES(r, s)' = 1
    BY <1>5 DEF Fresh
  <1>8. RoundInv'
    <2>1. ASSUME NEW q \in Ranks
          PROVE  /\ 3 * (launch'[q] - 1) + Begun(q)' = 3 * (launch[q] - 1) + Begun(q)
                 /\ 3 * (launch'[q] - 1) + Ended(q)' = 3 * (launch[q] - 1) + Ended(q)
      <3>1. CASE q = r
        <4>1. Begun(r) = 3 /\ Ended(r) = 3
          BY <1>4 DEF Begun, Ended, One
        <4>2. Begun(r)' = 0 /\ Ended(r)' = 0
          BY <1>7, ZeroSM DEF Begun, Ended, One
        <4>3. launch[r] \in Nat
          BY <1>1, LaunchIs
        <4>5. /\ 3 * (launch'[r] - 1) + Begun(r)' = 3 * (launch[r] - 1) + Begun(r)
              /\ 3 * (launch'[r] - 1) + Ended(r)' = 3 * (launch[r] - 1) + Ended(r)
          <5> DEFINE x == launch[r]
                     y == launch'[r]
                     b == Begun(r)
                     c == Begun(r)'
                     d == Ended(r)
                     e == Ended(r)'
          <5>1. x \in Nat /\ y = x + 1 /\ b = 3 /\ c = 0 /\ d = 3 /\ e = 0
            BY <1>6, <4>1, <4>2, <4>3
          <5> HIDE DEF x, y, b, c, d, e
          <5>2. 3 * (y - 1) + c = 3 * (x - 1) + b /\ 3 * (y - 1) + e = 3 * (x - 1) + d
            BY <5>1
          <5> QED BY <5>2 DEF x, y, b, c, d, e
        <4> QED BY <3>1, <4>5
      <3>2. CASE q # r
        <4>1. Begun(q)' = Begun(q) /\ Ended(q)' = Ended(q)
          BY <1>5, <3>2, ZeroSM DEF Begun, Ended
        <4> QED BY <1>6, <3>2, <4>1
      <3> QED BY <3>1, <3>2
    <2>2. entered' = entered /\ left' = left
      BY <1>2 DEF barrier
    <2> QED BY <1>1, <2>1, <2>2 DEF RoundInv
  <1>9. TodoInv'
    <2>1. todo \in [Agents -> Nat] /\ todo' = todo
      BY <1>1, <1>2 DEF TodoInv
    <2>2. ASSUME NEW q \in Ranks, NEW s \in SMs
          PROVE  /\ DS(q, s)' \notin {4, 10, 12} => todo'[D(q, s)] = 0
                 /\ ES(q, s)' # 3 => todo'[E(q, s)] = 0
                 /\ DS(q, s)' = 4 => todo'[D(q, s)] < NumRanks * NumExperts
                 /\ DS(q, s)' = 10 => s + NumSMs * todo'[D(q, s)] \in Toks(launch'[q], q)
                 /\ ES(q, s)' = 3 => todo'[E(q, s)] < Len(Walk(launch'[q], q, s))
      <3>1. CASE q = r
        <4>1. todo[D(r, s)] = 0 /\ todo[E(r, s)] = 0
          BY <1>1, <1>4 DEF TodoInv
        <4> QED BY <1>7, <2>1, <3>1, <4>1
      <3>2. CASE q # r
        BY <1>1, <1>5, <1>6, <2>1, <3>2 DEF TodoInv
      <3> QED BY <3>1, <3>2
    <2> QED BY <2>1, <2>2 DEF TodoInv
  <1>10. CountsInv'
    <2>1. ASSUME NEW q \in Ranks, NEW s \in SMs
          PROVE  /\ DS(q, s)' >= 10 => counts'[D(q, s)] = Tokens(launch'[q], q)
                 /\ ES(q, s)' >= 3 => counts'[E(q, s)] = Tokens(launch'[q], q)
      <3>1. CASE q = r
        BY <1>7, <3>1
      <3>2. CASE q # r
        BY <1>1, <1>5, <1>6, <3>2 DEF CountsInv
      <3> QED BY <3>1, <3>2
    <2> QED BY <1>5, <2>1 DEF CountsInv
  <1>11. Shape'
    BY <1>1, <1>2, KeepShape
  <1>12. Emptied(r)'
    <2>1. SendInv(r) /\ SlotInv(r) /\ DirtyInv(r)
      BY <1>1 DEF DataInv, SendsInv, WorksInv
    <2>2. ~ Sending(r)
      BY <1>4 DEF Sending
    <2>3. /\ send[r] = [e \in GlobalExperts |-> send[r][e]]
          /\ \A e \in GlobalExperts : send[r][e] = [sms |-> 0, n |-> 0]
      BY <2>1, <2>2 DEF SendInv
    <2>4. slots[r] = [s \in SMs |-> slots[r][s]]
      BY <2>1 DEF SlotInv
    <2>5. \A e \in LocalExperts : e \in Cleared(r)
      BY <1>1, <1>4, EndedApart
    <2>6. \A k \in Nat : Entry(arrived[r], k, 0) = 0 /\ Entry(mask[r], k, {}) = {}
      BY <2>1, <2>5 DEF DirtyInv
    <2>7. send' = send /\ slots' = slots /\ arrived' = arrived /\ mask' = mask
      BY <1>2, <1>3
    <2> QED BY <2>3, <2>4, <2>6, <2>7 DEF Emptied
  <1>13. SendsInv(r)' /\ WorksInv(r)' /\ BacksInv(r)' /\ Told(r)' = {} /\ Cleared(r)' = {}
    BY <1>5, <1>6, <1>12, FreshNext
  <1>14. /\ \A q \in Ranks : /\ send'[q] = send[q] /\ slots'[q] = slots[q] /\ sums'[q] = sums[q] /\ recv'[q] = recv[q]
                             /\ index'[q] = index[q] /\ pool'[q] = pool[q] /\ arrived'[q] = arrived[q]
                             /\ mask'[q] = mask[q] /\ hidden'[q] = hidden[q]
         /\ combine' = combine
    BY <1>2, <1>3
  <1>15. ASSUME NEW q \in Ranks, q # r
         PROVE  SameSends(q) /\ SameHears(q) /\ SameWorks(q)
    <2>1. \A t \in SMs : /\ DS(q, t)' = DS(q, t) /\ ES(q, t)' = ES(q, t)
                         /\ todo'[D(q, t)] = todo[D(q, t)] /\ todo'[E(q, t)] = todo[E(q, t)]
      BY <1>2, <1>5, <1>15
    <2>2. launch'[q] = launch[q] /\ launch[q] \in Nths
      BY <1>1, <1>6, <1>15, LaunchIs
    <2>3. SameSends(q)
      BY <2>1, ZeroSM DEF SameSends, Claimed, Indexed, Sending
    <2>4. SameHears(q)
      BY <2>1, ZeroSM, CleanerIs DEF SameHears, Told, Cleared
    <2>5. Pulled(q)' = Pulled(q)
      <3>1. \A i \in Toks(launch[q], q) : i % NumSMs \in SMs
        BY <2>2, TokIs
      <3> QED BY <2>1, <2>2, <3>1 DEF Pulled
    <2>6. Worked(q)' = Worked(q)
      BY <2>1, <2>2 DEF Worked
    <2>7. NoClean(q)' => NoClean(q)
      BY <2>1 DEF NoClean
    <2>8. Reducing(q)' => Reducing(q)
      BY <2>1, ZeroSM DEF Reducing
    <2>9. ~ Working(q)'
      <3>1. launch[q] = launch[r] + 1 => DS(q, 0) <= 6
        BY <1>1, <1>4, EndedApart
      <3>2. DS(q, 0)' = DS(q, 0) /\ DS(q, 0) \in 1 .. 16
        BY <1>1, <2>1, ZeroSM, StageFacts
      <3>3. Working(q)' => DS(q, 0)' >= 7 /\ launch'[r] = launch'[q]
        BY DEF Working
      <3> QED BY <1>6, <2>2, <3>1, <3>2, <3>3
    <2> QED BY <2>3, <2>4, <2>5, <2>6, <2>7, <2>8, <2>9 DEF SameWorks, SameDone
  <1>16. ASSUME NEW q \in Ranks
         PROVE  DataInv(q)'
    <2>1. HeardInv(q)'
      <3>1. \A p \in Ranks : p # r => launch'[p] = launch[p] /\ Told(p)' = Told(p) /\ Cleared(p)' = Cleared(p)
        BY <1>6, <1>15 DEF SameHears
      <3>2. HeardInv(q)
        BY <1>1 DEF DataInv
      <3> QED BY <1>1, <1>4, <1>6, <1>13, <1>14, <3>1, <3>2, HeardLaunch
    <2>2. SendsInv(q)' /\ WorksInv(q)' /\ BacksInv(q)'
      <3>1. CASE q = r
        BY <1>13, <3>1
      <3>2. CASE q # r
        <4>1. SendsInv(q) /\ WorksInv(q) /\ BacksInv(q)
          BY <1>1 DEF DataInv
        <4>2. launch'[q] = launch[q]
          BY <1>6, <3>2
        <4>3. SameSends(q) /\ SameHears(q) /\ SameWorks(q) /\ Cleared(q)' = Cleared(q)
          BY <1>15, <3>2 DEF SameHears
        <4> QED BY <1>14, <4>1, <4>2, <4>3, KeepSends, KeepWorks, KeepBacks
      <3> QED BY <3>1, <3>2
    <2> QED BY <2>1, <2>2 DEF DataInv
  <1> QED BY <1>5, <1>6, <1>8, <1>9, <1>10, <1>11, <1>16 DEF IInv, Control

-----------------------------------------------------------------------------
(* The initial states.                                                      *)
LEMMA InitControl ==
  ASSUME Init
  PROVE  Control /\ CountsInv /\ Shape /\ \A r \in Ranks : Fresh(r) /\ Emptied(r)
  <1>1. \A r \in Ranks, s \in SMs : D(r, s) \in Agents /\ E(r, s) \in Agents
    BY AgentsAre
  <1>2. \A r \in Ranks, s \in SMs : pc[D(r, s)] = 1 /\ pc[E(r, s)] = 1 /\ todo[D(r, s)] = 0 /\ todo[E(r, s)] = 0
    BY <1>1 DEF Init
  <1>3. \A r \in Ranks, s \in SMs : DS(r, s) = 1 /\ ES(r, s) = 1
    <2>1. \A t \in SMs : DStage(t, 1) = 1 /\ EStage(t, 1) = 1
      BY DEF DStage, EStage
    <2> QED BY <1>2, <2>1 DEF DS, ES
  <1>4. PcInv
    <2>1. pc \in [Agents -> Nat \ {0}]
      BY DEF Init
    <2>2. StageInv
      BY <1>3 DEF StageInv
    <2> QED BY <2>1, <2>2 DEF PcInv
  <1>5. LaunchInv /\ \A r \in Ranks : launch[r] = 1
    <2>1. Len(Inputs) \in Nat /\ Inputs # <<>> /\ Inputs \in Seq([Ranks -> Seq(Seq(GlobalExperts \cup {-1}))])
      BY InputsFit
    <2>2. 1 \in Nths
      BY <2>1 DEF Nths
    <2> QED BY <2>2 DEF Init, LaunchInv
  <1>6. RoundInv
    <2>1. \A r \in Ranks : Begun(r) = 0 /\ Ended(r) = 0
      BY <1>3, ZeroSM DEF Begun, Ended, One
    <2>2. entered = [r \in Ranks |-> 0] /\ left = [r \in Ranks |-> 0]
      BY DEF Init, Nvl!Init
    <2>3. \A r \in Ranks : /\ 3 * (launch[r] - 1) + Begun(r) = 0
                           /\ 3 * (launch[r] - 1) + Ended(r) = 0
      BY <1>5, <2>1
    <2>4. entered = [r \in Ranks |-> 3 * (launch[r] - 1) + Begun(r)]
          /\ left = [r \in Ranks |-> 3 * (launch[r] - 1) + Ended(r)]
      BY <2>2, <2>3
    <2>5. \A q, r \in Ranks : left[r] <= entered[q]
      BY <2>2
    <2> QED BY <2>4, <2>5 DEF RoundInv
  <1>7. TodoInv
    <2>1. todo \in [Agents -> Nat]
      BY DEF Init
    <2> QED BY <1>2, <1>3, <2>1 DEF TodoInv
  <1>8. CountsInv
    <2>1. counts = [a \in Agents |-> counts[a]]
      BY DEF Init
    <2> QED BY <1>3, <2>1 DEF CountsInv
  <1>9. Shape
    BY DEF Shape, Init
  <1>10. ASSUME NEW r \in Ranks
         PROVE  Emptied(r)
    <2>1. slots[r] = [s \in SMs |-> <<>>] /\ send[r] = [e \in GlobalExperts |-> [sms |-> 0, n |-> 0]]
          /\ arrived[r] = <<>> /\ mask[r] = <<>>
      BY DEF Init
    <2>2. \A k \in Nat : Entry(arrived[r], k, 0) = 0 /\ Entry(mask[r], k, {}) = {}
      BY <2>1 DEF Entry
    <2> QED BY <2>1, <2>2 DEF Emptied
  <1> QED BY <1>3, <1>4, <1>5, <1>6, <1>7, <1>8, <1>9, <1>10 DEF Control, Fresh

LEMMA InitInv ==
  ASSUME Init
  PROVE  IInv
  <1>1. Control /\ CountsInv /\ Shape /\ LaunchInv /\ \A r \in Ranks : Fresh(r) /\ Emptied(r)
    BY InitControl DEF Control
  <1>2. \A r \in Ranks : SendsInv(r) /\ WorksInv(r) /\ BacksInv(r) /\ Told(r) = {} /\ Cleared(r) = {}
    BY <1>1, FreshIs
  <1>3. ASSUME NEW r \in Ranks
        PROVE  HeardInv(r)
    <2>1. sums[r] = [e \in LocalExperts |-> [sms |-> 0, n |-> 0]]
          /\ recv[r] = [q \in Ranks |-> [e \in LocalExperts |-> 0]]
      BY DEF Init
    <2>2. \A e : Heard(r, e) = {}
      BY <1>2 DEF Heard
    <2>3. \A e : Cardinality(Heard(r, e)) = 0 /\ Cardinality(Tagged(Heard(r, e), Epoch(r, e), Glob(r, e))) = 0
      BY <2>2, FS_EmptySet DEF Tagged
    <2>4. NumSMs * 0 = 0
      BY Sizes1
    <2> QED BY <2>1, <2>2, <2>3, <2>4 DEF HeardInv
  <1> QED BY <1>1, <1>2, <1>3 DEF IInv, DataInv

-----------------------------------------------------------------------------
(* Every step.                                                              *)
LEMMA NextStep ==
  ASSUME SchedulesFit, IInv, Next
  PROVE  IInv'
  <1>1. PcInv
    BY Parts
  <1>2. ASSUME NEW r \in Ranks, Launch(r) \/ Report(r) \/ Grid(r, "dispatch") \/ Grid(r, "epilogue")
        PROVE  IInv'
    BY <1>2, LaunchStep, ReportStep, GridD, GridE
  <1>3. ASSUME NEW r \in Ranks, NEW s \in SMs, DispatchStep(r, s)
        PROVE  IInv'
    <2>1. CASE Clean(r, s)
      <3>1. CASE s = 0
        BY <2>1, <3>1, CleanZero
      <3>2. CASE s # 0
        BY <2>1, <3>2, CleanStep
      <3> QED BY <3>1, <3>2
    <2>2. CASE Claim(r, s) \/ Index(r, s) \/ Pull(r, s)
      BY <2>2, ClaimStep, IndexStep, PullStep
    <2> QED BY <1>3, <2>1, <2>2 DEF DispatchStep
  <1>4. ASSUME NEW r \in Ranks, NEW s \in SMs, EpilogueStep(r, s) \/ Meet(r, s)
        PROVE  IInv'
    BY <1>4, ComputeStep, ReduceStep, MeetStep DEF EpilogueStep
  <1>5. ASSUME NEW a \in Agents, NvlinkStep(a) \/ Fetch(a)
        PROVE  IInv'
    <2>1. PICK r \in Ranks, s \in SMs : a \in {D(r, s), E(r, s), G(r, s)}
      BY AgentsAre
    <2>2. CASE a = D(r, s)
      BY <1>5, <2>2, NvlinkD, FetchD
    <2>3. CASE a = E(r, s)
      BY <1>5, <2>3, NvlinkE, FetchE
    <2>4. CASE a = G(r, s)
      <3>1. CASE Fetch(a)
        BY <2>4, <3>1, FetchG
      <3>2. CASE NvlinkStep(a)
        <4>1. \E x \in {"enter", "leave"} : At(G(r, s), x)
          BY <2>4, <3>2 DEF NvlinkStep
        <4>2. "fetch" \in {"enter", "leave"}
          BY <1>1, <4>1, AtG
        <4> QED BY <4>2
      <3> QED BY <1>5, <3>1, <3>2
    <2> QED BY <2>1, <2>2, <2>3, <2>4
  <1>6. CASE UNCHANGED vars
    BY <1>6, Stutter
  <1> QED BY <1>2, <1>3, <1>4, <1>5, <1>6 DEF Next

-----------------------------------------------------------------------------
(* What is read.                                                            *)
Plays(a, r, s) ==
  /\ a[2] = r
  /\ a[1] = "dispatch" => a = D(r, s)
  /\ a[1] = "epilogue" => a = E(r, s)
LEMMA WhoIs ==
  ASSUME NEW a \in Agents
  PROVE  \E r \in Ranks, s \in SMs : Plays(a, r, s)
  <1>1. PICK r \in Ranks, s \in SMs : a \in {D(r, s), E(r, s), G(r, s)}
    BY AgentsAre
  <1>2. /\ D(r, s)[1] = "dispatch" /\ D(r, s)[2] = r /\ E(r, s)[1] = "epilogue" /\ E(r, s)[2] = r
        /\ G(r, s)[1] = "gemm" /\ G(r, s)[2] = r
    BY DEF D, E, G
  <1>3. Plays(a, r, s)
    <2>1. CASE a = D(r, s)
      BY <1>2, <2>1 DEF Plays
    <2>2. CASE a = E(r, s)
      BY <1>2, <2>2 DEF Plays
    <2>3. CASE a = G(r, s)
      BY <1>2, <2>3 DEF Plays
    <2> QED BY <1>1, <2>1, <2>2, <2>3
  <1> QED BY <1>3

LEMMA CountsSeen ==
  ASSUME IInv
  PROVE  CountsRight
  <1>1. LaunchInv /\ \A q \in Ranks : HeardInv(q)
    BY Parts DEF DataInv
  <1>2. ASSUME NEW a \in Agents, CountsFinal(a[2]), NEW e \in LocalExperts
        PROVE  sums[a[2]][e].n = Received(launch[a[2]], a[2], e)
    <2>0. PICK r \in Ranks, s \in SMs : Plays(a, r, s)
      BY WhoIs
    <2>1. /\ a[2] = r
          /\ a[1] = "dispatch" => a = D(r, s)
          /\ a[1] = "epilogue" => a = E(r, s)
      BY <2>0 DEF Plays
    <2>2. a[2] = r
      BY <2>1
    <2>3. sums[r][e].sms = NumSMs * NumRanks
      BY <1>2, <2>2 DEF CountsFinal
    <2>4. sums[r][e].n = Received(launch[r], r, e)
      BY <1>1, <2>3, CountsAre
    <2> QED BY <2>2, <2>4
  <1> QED BY <1>2 DEF CountsRight

LEMMA PullFound ==
  ASSUME SchedulesFit, IInv, NEW r \in Ranks, NEW l, l = launch[r],
         \A q \in Ranks : launch[q] = l /\ \A t \in SMs : DS(q, t) >= 3, NEW i \in Toks(l, r)
  PROVE  FoundRight(r, From(l, r, i))
  <1> DEFINE from == From(l, r, i)
  <1>1. InIndex(l, r, i, from)
    BY IndexHas
  <1> HIDE DEF from
  <1>2. /\ from[2].rank \in Ranks /\ from \in DOMAIN index[r]
        /\ \E x : index[r][from] = <<l, from[2].rank, x[1], x[2]>>
    BY <1>1 DEF InIndex
  <1>3. launch[from[2].rank] = l
    BY <1>2
  <1>4. FoundRight(r, from)
    BY <1>2, <1>3 DEF FoundRight
  <1> QED BY <1>4 DEF from

LEMMA PullsSeen ==
  ASSUME SchedulesFit, IInv
  PROVE  PullsRight
  <1>1. PcInv /\ LaunchInv /\ RoundInv
    BY Parts
  <1>2. ASSUME NEW a \in Agents, a[1] = "dispatch", At(a, "pull")
        PROVE  FoundRight(a[2], PullFrom(a[2], NextPull(a, PlanOf(a))))
    <2>0. PICK r \in Ranks, s \in SMs : Plays(a, r, s)
      BY WhoIs
    <2>1. /\ a[2] = r
          /\ a[1] = "dispatch" => a = D(r, s)
          /\ a[1] = "epilogue" => a = E(r, s)
      BY <2>0 DEF Plays
    <2>2. a = D(r, s) /\ a[2] = r
      BY <1>2, <2>1
    <2>3. DS(r, s) = 10
      <3>1. DS(r, s) # 16 /\ DNames[DS(r, s)] = "pull" /\ DS(r, s) \in 1 .. 16
        BY <1>1, <1>2, <2>2, AtD, StageFacts
      <3> QED BY <3>1 DEF DNames
    <2> DEFINE l == launch[r]
               i == Next1(r, s)
               from == From(l, r, i)
    <2>4. i \in Toks(l, r) /\ PullFrom(r, NextPull(D(r, s), PlanOf(D(r, s)))) = from
      BY <2>3, PullIs
    <2>5. \A q \in Ranks : launch[q] = l /\ \A t \in SMs : DS(q, t) >= 3
      <3>1. \A q \in Ranks : launch[q] = l /\ \A t \in SMs : DS(q, t) >= 4 /\ DS(q, t) \in 1 .. 16
        BY <1>1, <2>3, AllWork, StageFacts
      <3> QED BY <3>1
    <2> HIDE DEF i
    <2>7. FoundRight(r, from)
      BY <2>4, <2>5, PullFound
    <2> QED BY <2>2, <2>4, <2>7
  <1> QED BY <1>2 DEF PullsRight

LEMMA LoadsSeen ==
  ASSUME SchedulesFit, IInv
  PROVE  LoadsRight
  <1>1. PcInv /\ LaunchInv /\ RoundInv /\ \A q \in Ranks : DataInv(q)
    BY Parts
  <1>2. ASSUME NEW a \in Agents, a[1] = "epilogue", At(a, "compute")
        PROVE  BlockRight(a[2], Instance(counts[a]), Block(a, PlanOf(a)))
    <2>0. PICK r \in Ranks, s \in SMs : Plays(a, r, s)
      BY WhoIs
    <2>1. /\ a[2] = r
          /\ a[1] = "dispatch" => a = D(r, s)
          /\ a[1] = "epilogue" => a = E(r, s)
      BY <2>0 DEF Plays
    <2>2. a = E(r, s) /\ a[2] = r
      BY <1>2, <2>1
    <2>3. ES(r, s) = 3
      <3>1. ES(r, s) # 10 /\ ENames[ES(r, s)] = "compute" /\ ES(r, s) \in 1 .. 10
        BY <1>1, <1>2, <2>2, AtE, StageFacts
      <3> QED BY <3>1 DEF ENames
    <2> DEFINE l == launch[r]
               c == Ins(l, r)
               b == Tile(r, <<s, At1(r, s)>>)
               k == PoolBlock(c, b)
    <2>4. /\ Block(E(r, s), PlanOf(E(r, s))) = b
          /\ Instance(counts[E(r, s)]) = c /\ IsBlock(l, r, b) /\ NoClean(r) /\ Working(r)
          /\ \A q \in Ranks : launch[q] = l /\ \A t \in SMs : DS(q, t) >= 3
      BY <2>3, ComputeIs
    <2> HIDE DEF b
    <2>5. ASSUME Loadable(r, c, b, k)
          PROVE  IF b.phase = 1
                 THEN \A x \in Rows(c, b, k) : x \in DOMAIN pool[r] /\ pool[r][x][1] = launch[r]
                 ELSE \A n \in 0 .. L1BlockNs - 1 : Entry(hidden[r], <<k, n>>, 0) = launch[r]
      <3>1. WorksInv(r) /\ b.phase \in {1, 2}
        BY <1>1, <2>4 DEF DataInv, IsBlock
      <3>2. Whole(r, b) /\ (b.phase = 2 => \A n \in 0 .. L1BlockNs - 1 : Entry(hidden[r], <<k, n>>, 0) = l)
        BY <1>1, <2>4, <2>5, <3>1, LoadWhole
      <3>3. \A y \in Rows(c, b, k) :
              pool[r][y] = <<l, pool[r][y][2], pool[r][y][3], pool[r][y][4]>> /\ y \in DOMAIN pool[r]
        BY <2>4, <3>2, RowsHave
      <3>4. \A y \in Rows(c, b, k) : y \in DOMAIN pool[r] /\ pool[r][y][1] = l
        BY <3>3
      <3> QED BY <3>1, <3>2, <3>4
    <2>6. BlockRight(r, c, b)
      BY <2>5 DEF BlockRight, Complete
    <2> QED BY <2>2, <2>4, <2>6
  <1> QED BY <1>2 DEF LoadsRight

LEMMA ReducesSeen ==
  ASSUME IInv
  PROVE  ReducesRight
  <1>1. PcInv /\ LaunchInv /\ RoundInv /\ \A q \in Ranks : DataInv(q)
    BY Parts
  <1>2. ASSUME NEW a \in Agents, At(a, "reduce"), NEW x \in Routes(launch[a[2]], a[2], a[3]),
               NEW n \in 0 .. L2BlockNs - 1, x[3] >= 0
        PROVE  Entry(combine[a[2]], <<x[1], x[2], n>>, <<>>) = <<launch[a[2]], a[2], x[1], x[2]>>
    <2>1. PICK r \in Ranks, s \in SMs : a \in {D(r, s), E(r, s), G(r, s)}
      BY AgentsAre
    <2>2. a = E(r, s) /\ a[2] = r /\ a[3] = s
      <3>3. E(r, s)[2] = r /\ E(r, s)[3] = s
        BY DEF E
      <3>1. a # D(r, s)
        <4>1. ASSUME a = D(r, s)
              PROVE  FALSE
          <5>1. DS(r, s) # 16 /\ DNames[DS(r, s)] = "reduce" /\ DS(r, s) \in 1 .. 16
            BY <1>1, <1>2, <4>1, AtD, StageFacts
          <5> QED BY <5>1 DEF DNames
        <4> QED BY <4>1
      <3>2. a # G(r, s)
        BY <1>1, <1>2, AtG
      <3> QED BY <2>1, <3>1, <3>2, <3>3
    <2>3. ES(r, s) = 9
      <3>1. ES(r, s) # 10 /\ ENames[ES(r, s)] = "reduce" /\ ES(r, s) \in 1 .. 10
        BY <1>1, <1>2, <2>2, AtE, StageFacts
      <3> QED BY <3>1 DEF ENames
    <2>4. Reducing(r)
      <3>1. ES(r, 0) \in 1 .. 10 /\ (ES(r, s) <= 7 <=> ES(r, 0) <= 7)
        BY <1>1, ZeroSM, StageFacts
      <3> QED BY <2>3, <3>1 DEF Reducing
    <2>5. Back(launch[r], r, x, n)
      BY <1>1, <1>2, <2>2, <2>4 DEF DataInv, BacksInv, ReduceInv
    <2> QED BY <2>2, <2>5 DEF Back
  <1> QED BY <1>2 DEF ReducesRight

-----------------------------------------------------------------------------
(* The launches.                                                            *)
LEMMA MCStep == SchedulesFit /\ IInv /\ [MCNext]_both => IInv'
  <1>1. SchedulesFit /\ IInv /\ Next => IInv'
    BY NextStep
  <1>2. IInv /\ UNCHANGED vars => IInv'
    BY Stutter
  <1>3. MCNext => Next \/ UNCHANGED vars
    BY DEF MCNext
  <1>4. UNCHANGED both => UNCHANGED vars
    BY DEF both
  <1> QED BY <1>1, <1>2, <1>3, <1>4

LEMMA LaunchesKeep == SchedulesFit /\ MCSpec => []IInv
  <1>1. MCInit => IInv
    BY InitInv DEF MCInit
  <1>2. SchedulesFit /\ IInv /\ [MCNext]_both => IInv'
    BY MCStep
  <1>3. SchedulesFit => SchedulesFit'
    OBVIOUS
  <1> QED BY <1>1, <1>2, <1>3, PTL DEF MCSpec

(* Launch after launch, for all numbers of ranks, SMs, experts and tiles,   *)
(* all inputs and all distributions of the routes: final counts are those   *)
(* of this launch, a pull finds an index and a token of this launch, a      *)
(* block that is loaded is whole, and the reduction finds every route back, *)
(* although nothing but the two barriers and the counters orders the ranks, *)
(* and the workspace is only cleared in part (run mega_moe checks it on an  *)
(* instance).                                                               *)
THEOREM Reads == SchedulesFit /\ MCSpec => []ReadsSeeThisLaunch
  <1>1. SchedulesFit /\ IInv => ReadsSeeThisLaunch
    BY CountsSeen, PullsSeen, LoadsSeen, ReducesSeen DEF ReadsSeeThisLaunch
  <1>2. SchedulesFit => SchedulesFit'
    OBVIOUS
  <1>3. SchedulesFit /\ MCSpec => []IInv
    BY LaunchesKeep
  <1> QED BY <1>1, <1>2, <1>3, PTL

-----------------------------------------------------------------------------
(* The barriers.  The instance of the theorems and that of MCMegaMoE are   *)
(* two copies of one module; that they are the same is shown definition by *)
(* definition.                                                             *)
P == INSTANCE NvlinkBarrier_proof WITH
       launch <- nvLaunch, pc <- nvPc, sent <- nvSent, grid <- nvGrid,
       drawn <- nvDrawn, rounds <- nvRounds, signal <- nvSignal

(* The constants and what is defined from them.                            *)
LEMMA SameSets ==
  /\ P!BarrierSizes = B!BarrierSizes /\ P!Ranks = B!Ranks /\ P!SMs = B!SMs
  /\ P!GridIndices = B!GridIndices /\ P!Agents = B!Agents /\ P!Program = B!Program
  /\ P!words = B!words /\ P!vars = B!vars
  BY DEF P!BarrierSizes, B!BarrierSizes, P!Ranks, B!Ranks, P!SMs, B!SMs, P!GridIndices, B!GridIndices,
         P!Agents, B!Agents, P!Program, B!Program, P!GridSync, B!GridSync, P!Nvlink, B!Nvlink,
         P!words, B!words, P!vars, B!vars

(* The initial states.                                                     *)
LEMMA SameInit == B!Init => P!Init
  BY SameSets DEF P!Init, B!Init, P!Each, B!Each

(* The steps.                                                              *)
LEMMA SameNext == [B!Next]_(B!vars) => [P!Next]_(P!vars)
  <1>1. \A a, x : P!At(a, x) = B!At(a, x)
    BY SameSets DEF P!At, B!At
  <1>2. \A a : P!Go(a) = B!Go(a)
    BY SameSets DEF P!Go, B!Go
  <1>3. \A r : P!KernelDone(r) = B!KernelDone(r)
    BY SameSets DEF P!KernelDone, B!KernelDone
  <1>4. \A i, r, s : B!GridArrive(i, r, s) => P!GridArrive(i, r, s)
    BY <1>1, <1>2 DEF P!GridArrive, B!GridArrive, P!GridAdd, B!GridAdd
  <1>5. \A i, r, s : B!GridLeave(i, r, s) => P!GridLeave(i, r, s)
    BY <1>1, <1>2 DEF P!GridLeave, B!GridLeave, P!Tagged, B!Tagged
  <1>6. \A i, r, q : B!SendSignal(i, r, q) => P!SendSignal(i, r, q)
    BY <1>1, SameSets DEF P!SendSignal, B!SendSignal, P!SignalPhase, B!SignalPhase, P!SignalDelta,
                B!SignalDelta, P!CountsDown, B!CountsDown
  <1>7. \A i, r : B!AllSignalled(i, r) => P!AllSignalled(i, r)
    BY <1>1, <1>2 DEF P!AllSignalled, B!AllSignalled, P!SignalPhase, B!SignalPhase, P!Target,
                B!Target, P!CountsDown, B!CountsDown
  <1>8. \A r, s : B!Meet(r, s) => P!Meet(r, s)
    BY <1>1, SameSets DEF P!Meet, B!Meet, P!words, B!words
  <1>9. \A r : B!Launch(r) => P!Launch(r)
    BY <1>3, SameSets DEF P!Launch, B!Launch, P!words, B!words
  <1>10. B!Finished => P!Finished
    BY <1>3, SameSets DEF P!Finished, B!Finished
  <1>11. UNCHANGED B!vars => UNCHANGED P!vars
    BY DEF P!vars, B!vars, P!words, B!words
  <1>12. B!Next => P!Next
    BY <1>4, <1>5, <1>6, <1>7, <1>8, <1>9, <1>10, <1>11, SameSets DEF P!Next, B!Next
  <1> QED BY <1>11, <1>12

(* The barriers beside the launches, or instead of them, implement the     *)
(* phase barrier: grid_sync and nvlink_barrier of every rank.              *)
THEOREM Barriers == MCSpec => ImplementsPhase
  <1>1. P!BarrierSizes
    BY Sizes, SameSets
  <1>2. MCInit => P!Init
    BY SameInit DEF MCInit
  <1>3. [MCNext]_both => [P!Next]_(P!vars)
    <2>1. [MCNext]_both => [B!Next]_(B!vars)
      BY DEF MCNext, both, barriers, B!vars, B!words
    <2> QED BY <2>1, SameNext
  <1>4. P!BarrierSizes /\ P!Init /\ [][P!Next]_(P!vars) => P!ImplementsPhase
    BY P!Refinement
  <1>5. P!ImplementsPhase => B!ImplementsPhase
    <2>1. /\ P!Nvl!Init => B!Nvl!Init
          /\ \A r, i : P!GridOf(r, i)!Init => B!GridOf(r, i)!Init
      BY SameSets DEF P!Nvl!Init, B!Nvl!Init, P!GridOf!Init, B!GridOf!Init
    <2>2. /\ P!Nvl!Init /\ \A r \in P!Ranks, i \in P!GridIndices : P!GridOf(r, i)!Init
          => /\ B!Nvl!Init
             /\ \A r \in B!Ranks, i \in B!GridIndices : B!GridOf(r, i)!Init
      BY <2>1, SameSets
    <2>3. P!Nvl!Next \/ UNCHANGED P!Nvl!vars => B!Nvl!Next \/ UNCHANGED B!Nvl!vars
      BY SameSets DEF P!Nvl!Next, B!Nvl!Next, P!Nvl!Enter, B!Nvl!Enter, P!Nvl!Leave, B!Nvl!Leave,
                      P!Nvl!vars, B!Nvl!vars
    <2>4. ASSUME NEW r, NEW i
          PROVE  P!GridOf(r, i)!Next \/ UNCHANGED P!GridOf(r, i)!vars
                  => B!GridOf(r, i)!Next \/ UNCHANGED B!GridOf(r, i)!vars
      <3>1. \A s : P!GridOf(r, i)!Enter(s) => B!GridOf(r, i)!Enter(s)
        BY DEF P!GridOf!Enter, B!GridOf!Enter
      <3>2. \A s : P!GridOf(r, i)!Leave(s) => B!GridOf(r, i)!Leave(s)
        BY SameSets DEF P!GridOf!Leave, B!GridOf!Leave
      <3>3. P!GridOf(r, i)!Next => B!GridOf(r, i)!Next
        BY <3>1, <3>2, SameSets DEF P!GridOf!Next, B!GridOf!Next
      <3>4. UNCHANGED P!GridOf(r, i)!vars => UNCHANGED B!GridOf(r, i)!vars
        BY DEF P!GridOf!vars, B!GridOf!vars
      <3> QED BY <3>3, <3>4
    <2>5. [/\ P!Nvl!Next \/ UNCHANGED P!Nvl!vars
           /\ \A r \in P!Ranks, i \in P!GridIndices :
                P!GridOf(r, i)!Next \/ UNCHANGED P!GridOf(r, i)!vars]_P!words
          => [/\ B!Nvl!Next \/ UNCHANGED B!Nvl!vars
              /\ \A r \in B!Ranks, i \in B!GridIndices :
                   B!GridOf(r, i)!Next \/ UNCHANGED B!GridOf(r, i)!vars]_B!words
      <3>1. UNCHANGED P!words => UNCHANGED B!words
        BY DEF P!words, B!words
      <3> QED BY <2>3, <2>4, <3>1, SameSets
    <2> QED BY <2>2, <2>5, PTL DEF P!ImplementsPhase, B!ImplementsPhase
  <1> QED BY <1>1, <1>2, <1>3, <1>4, <1>5, PTL DEF MCSpec, ImplementsPhase
================================================================================

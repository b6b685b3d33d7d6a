--------------------------- MODULE RouteTiles_proof ---------------------------
(***************************************************************************)
(* The task arithmetic of the fused kernel is right for every routing,     *)
(* every tile size and every schedule: L1 task ids and L2 queue entries    *)
(* are each piece of work once, and the tile table holds every routed row. *)
(*                                                                         *)
(* The argument.  TileStart never decreases, so an expert owns a range of  *)
(* tiles, and with it a range of subtiles and a range of L1 task ids; each *)
(* id lies in the range of one expert (a least counterexample on the       *)
(* number of experts).  Inside a range every schedule is a mixed-radix     *)
(* numbering of (window, chunk, subtile), which division undoes: Encode is *)
(* the inverse of the decoding.                                            *)
(***************************************************************************)
EXTENDS RouteTiles, FiniteSetTheorems, TLAPS

-----------------------------------------------------------------------------
(* Numbers.                                                                 *)

LEMMA LeastElement ==
  ASSUME NEW S \in SUBSET Nat, S # {}
  PROVE  \E m \in S : \A k \in S : m <= k
  <1> DEFINE R == {ss \in Nat \X Nat : ss[1] < ss[2]}
  <1>1. IsWellFoundedOn(R, Nat)
    BY NatLessThanWellFounded DEF OpToRel
  <1>2. PICK m \in S : \A k \in S : ~ (<<k, m>> \in R)
    <2> HIDE DEF R
    <2> QED BY <1>1, WFMin
  <1>3. ASSUME NEW k \in S
        PROVE  m <= k
    <2>1. <<k, m>> \in Nat \X Nat /\ <<k, m>>[1] = k /\ <<k, m>>[2] = m
      OBVIOUS
    <2> QED BY <1>2, <2>1
  <1> QED BY <1>3

(* Induction, with the set of numbers that satisfy the hypothesis for it.   *)
LEMMA InductionTo ==
  ASSUME NEW n \in Nat, NEW S, 0 \in S, \A m \in 0 .. n - 1 : m \in S => m + 1 \in S
  PROVE  0 .. n \subseteq S
  <1> DEFINE Missing == {m \in 0 .. n : m \notin S}
  <1> SUFFICES ASSUME Missing # {}
               PROVE  FALSE
    OBVIOUS
  <1>1. Missing \in SUBSET Nat
    OBVIOUS
  <1>2. PICK m \in Missing : \A k \in Missing : m <= k
    <2> HIDE DEF Missing
    <2> QED BY <1>1, LeastElement
  <1>3. m \in 1 .. n
    OBVIOUS
  <1>4. m - 1 \in 0 .. n - 1 /\ m - 1 \in 0 .. n /\ (m - 1) + 1 = m
    BY <1>3
  <1>5. m - 1 \in S
    BY <1>2, <1>3, <1>4
  <1> QED BY <1>4, <1>5

(* A function may be defined by what it adds to the value before.           *)
Follows(f, g, n) == f = [e \in 0 .. n |-> IF e = 0 THEN 0 ELSE g[f[e - 1]][e - 1]]

LEMMA Recurrence ==
  ASSUME NEW n \in Nat, NEW g
  PROVE  \E f : Follows(f, g, n)
  <1> DEFINE Def(f, e) == IF e = 0 THEN 0 ELSE g[f[e - 1]][e - 1]
             Exists == {m \in 0 .. n : \E f : f = [e \in 0 .. m |-> Def(f, e)]}
  <1>1. 0 \in Exists
    <2> DEFINE f == [e \in 0 .. 0 |-> 0]
    <2>1. f = [e \in 0 .. 0 |-> Def(f, e)]
      OBVIOUS
    <2>2. \E k : k = [e \in 0 .. 0 |-> Def(k, e)]
      <3> HIDE DEF f
      <3> QED BY <2>1
    <2> QED BY <2>2
  <1>2. ASSUME NEW m \in 0 .. n - 1, m \in Exists
        PROVE  m + 1 \in Exists
    <2>1. PICK h : h = [e \in 0 .. m |-> Def(h, e)]
      BY <1>2
    <2> DEFINE f == [e \in 0 .. m + 1 |-> IF e = m + 1 THEN Def(h, m + 1) ELSE h[e]]
    <2>2. ASSUME NEW e \in 0 .. m + 1
          PROVE  f[e] = Def(f, e)
      <3>1. CASE e = 0
        BY <2>1, <3>1
      <3>2. CASE e # 0
        <4>1. e - 1 \in 0 .. m + 1 /\ e - 1 # m + 1
          BY <3>2
        <4>2. f[e - 1] = h[e - 1]
          BY <4>1
        <4>3. CASE e = m + 1
          BY <3>2, <4>2, <4>3
        <4>4. CASE e # m + 1
          <5>1. e \in 0 .. m
            BY <4>4
          <5>2. h[e] = Def(h, e)
            BY <2>1, <5>1
          <5> QED BY <3>2, <4>2, <4>4, <5>2
        <4> QED BY <4>3, <4>4
      <3> QED BY <3>1, <3>2
    <2>3. f = [e \in 0 .. m + 1 |-> Def(f, e)]
      BY <2>2
    <2>4. \E k : k = [e \in 0 .. m + 1 |-> Def(k, e)]
      <3> HIDE DEF f
      <3> QED BY <2>3
    <2> QED BY <2>4
  <1>3. n \in Exists
    <2> HIDE DEF Exists
    <2>1. n \in 0 .. n
      OBVIOUS
    <2> QED BY <1>1, <1>2, <2>1, InductionTo
  <1> QED BY <1>3 DEF Follows

LEMMA TimesLess ==
  ASSUME NEW n \in Nat, NEW a \in Int, NEW b \in Int, a < b
  PROVE  a * n + n <= b * n
  <1>1. b - a - 1 \in Nat
    OBVIOUS
  <1>2. (b - a - 1) * n \in Nat
    BY <1>1
  <1>3. (b - a - 1) * n = b * n - a * n - n
    OBVIOUS
  <1> QED BY <1>2, <1>3

LEMMA TimesLeq ==
  ASSUME NEW n \in Nat, NEW a \in Int, NEW b \in Int, a <= b
  PROVE  a * n <= b * n
  <1>1. (b - a) * n \in Nat
    OBVIOUS
  <1>2. (b - a) * n = b * n - a * n
    OBVIOUS
  <1> QED BY <1>1, <1>2

LEMMA TimesNat ==
  ASSUME NEW a \in Nat, NEW b \in Nat
  PROVE  /\ a * b \in Nat
         /\ a \in Nat \ {0} /\ b \in Nat \ {0} => a * b \in Nat \ {0}
  OBVIOUS

LEMMA TimesAssoc ==
  ASSUME NEW a \in Int, NEW b \in Int, NEW c \in Int
  PROVE  a * (b * c) = a * b * c
  OBVIOUS

LEMMA QuotientUnique ==
  ASSUME NEW n \in Nat \ {0}, NEW q \in Int, NEW p \in Int,
         NEW s \in 0 .. n - 1, NEW t \in 0 .. n - 1, q * n + s = p * n + t
  PROVE  q = p /\ s = t
  <1>1. ASSUME q < p PROVE FALSE
    BY <1>1, TimesLess
  <1>2. ASSUME p < q PROVE FALSE
    BY <1>2, TimesLess
  <1> QED BY <1>1, <1>2

LEMMA DivMod ==
  ASSUME NEW n \in Nat \ {0}, NEW a \in Nat
  PROVE  a \div n \in Nat /\ a % n \in 0 .. n - 1 /\ a = (a \div n) * n + (a % n)
  OBVIOUS

LEMMA DivIs ==
  ASSUME NEW n \in Nat \ {0}, NEW q \in Nat, NEW s \in 0 .. n - 1
  PROVE  (q * n + s) \div n = q /\ (q * n + s) % n = s
  <1>1. q * n + s \in Nat
    OBVIOUS
  <1> DEFINE a == q * n + s
  <1>2. a \div n \in Nat /\ a % n \in 0 .. n - 1 /\ a = (a \div n) * n + (a % n)
    BY <1>1, DivMod
  <1> QED BY <1>2, QuotientUnique

(* A quotient is below a bound when the dividend is.                        *)
LEMMA DivLess ==
  ASSUME NEW n \in Nat \ {0}, NEW a \in Nat, NEW m \in Int
  PROVE  a < m * n <=> a \div n < m
  <1>1. a \div n \in Nat /\ a % n \in 0 .. n - 1 /\ a = (a \div n) * n + (a % n)
    BY DivMod
  <1>2. ASSUME a \div n < m PROVE a < m * n
    <2>1. (a \div n) * n + n <= m * n
      BY <1>1, <1>2, TimesLess
    <2> QED BY <1>1, <2>1
  <1>3. ASSUME m <= a \div n PROVE m * n <= a
    <2>1. m * n <= (a \div n) * n
      BY <1>1, <1>3, TimesLeq
    <2> QED BY <1>1, <2>1
  <1> QED BY <1>1, <1>2, <1>3

LEMMA CeilDivIs ==
  ASSUME NEW n \in Nat \ {0}, NEW a \in Nat
  PROVE  /\ CeilDiv(a, n) \in Nat
         /\ a <= CeilDiv(a, n) * n
         /\ CeilDiv(a, n) * n <= a + n - 1
  <1> DEFINE b == a + n - 1
             q == CeilDiv(a, n)
  <1>1. b \in Nat /\ q = b \div n
    BY DEF CeilDiv
  <1>2. q \in Nat /\ b % n \in 0 .. n - 1 /\ b = q * n + (b % n)
    <2> HIDE DEF b, q
    <2> QED BY <1>1, DivMod
  <1> HIDE DEF q
  <1>3. q * n \in Nat
    BY <1>2
  <1>4. q * n <= b /\ b <= q * n + n - 1
    BY <1>2, <1>3
  <1> QED BY <1>2, <1>3, <1>4 DEF q

-----------------------------------------------------------------------------
(* The tile table: the first tiles of the experts never decrease.           *)

TilesOf(e) == CeilDiv(PooledRows(e), RouteTileM)

LEMMA Inputs ==
  ASSUME RouteInputs
  PROVE  /\ \A e \in Experts : /\ e \in 0 .. NumExperts /\ e + 1 \in 0 .. NumExperts
                               /\ PooledRows(e) \in Nat /\ TilesOf(e) \in Nat
         /\ RouteScratchTiles \in Nat
         /\ SubtilesPerTile \in Nat \ {0}
         /\ RouteTileM = SubtilesPerTile * MtileM
  <1>1. \A e \in Experts : /\ e \in 0 .. NumExperts /\ e + 1 \in 0 .. NumExperts
                           /\ PooledRows(e) \in Nat
    BY DEF RouteInputs, Experts, PooledRows, Least
  <1>2. \A e \in Experts : TilesOf(e) \in Nat
    BY <1>1, CeilDivIs DEF RouteInputs, TilesOf
  <1>3. RouteScratchTiles \in Nat
    BY CeilDivIs DEF RouteInputs, RouteScratchTiles
  <1>4. SubtilesPerTile \in Nat /\ RouteTileM = SubtilesPerTile * MtileM
    BY DivMod DEF RouteInputs, SubtilesPerTile
  <1>5. SubtilesPerTile # 0
    BY <1>4 DEF RouteInputs
  <1> QED BY <1>1, <1>2, <1>3, <1>4, <1>5

LEMMA TileStartStep ==
  ASSUME RouteInputs
  PROVE  /\ TileStart \in [0 .. NumExperts -> 0 .. RouteScratchTiles]
         /\ TileStart[0] = 0
         /\ \A e \in Experts :
              TileStart[e + 1] = Least(RouteScratchTiles, TileStart[e] + TilesOf(e))
  <1> DEFINE cap == RouteScratchTiles
             Def(f, e) == IF e = 0 THEN 0 ELSE Least(cap, f[e - 1] + TilesOf(e - 1))
             g == [x \in 0 .. cap |-> [e \in Experts |-> Least(cap, x + TilesOf(e))]]
  <1>1. NumExperts \in Nat /\ cap \in Nat
    BY Inputs DEF RouteInputs
  <1>2. PICK f : Follows(f, g, NumExperts)
    <2> HIDE DEF g
    <2> QED BY <1>1, Recurrence
  <1>. USE DEF Follows
  <1>3. f[0] = 0
    BY <1>1, <1>2
  <1>4. ASSUME NEW e \in Experts
        PROVE  f[e + 1] = g[f[e]][e]
    <2>1. e + 1 \in 0 .. NumExperts /\ e + 1 # 0 /\ (e + 1) - 1 = e
      BY <1>1 DEF Experts
    <2> HIDE DEF g
    <2> QED BY <1>2, <2>1
  <1>5. ASSUME NEW x \in 0 .. cap, NEW e \in Experts
        PROVE  g[x][e] = Least(cap, x + TilesOf(e)) /\ g[x][e] \in 0 .. cap
    BY <1>1, Inputs DEF Least
  <1> HIDE DEF g, cap
  <1>6. \A e \in 0 .. NumExperts : f[e] \in 0 .. cap
    <2> DEFINE Typed == {e \in 0 .. NumExperts : f[e] \in 0 .. cap}
    <2>1. 0 \in Typed
      BY <1>1, <1>3
    <2>2. \A e \in 0 .. NumExperts - 1 : e \in Typed => e + 1 \in Typed
      BY <1>1, <1>4, <1>5 DEF Experts
    <2> HIDE DEF Typed
    <2>3. 0 .. NumExperts \subseteq Typed
      BY <1>1, <2>1, <2>2, InductionTo
    <2> QED BY <2>3 DEF Typed
  <1>7. ASSUME NEW e \in 0 .. NumExperts
        PROVE  f[e] = Def(f, e)
    <2>1. CASE e = 0
      BY <1>3, <2>1
    <2>2. CASE e # 0
      <3>1. e - 1 \in Experts /\ e - 1 \in 0 .. NumExperts /\ (e - 1) + 1 = e
        BY <1>1, <2>2 DEF Experts
      <3> QED BY <1>4, <1>5, <1>6, <2>2, <3>1
    <2> QED BY <2>1, <2>2
  <1>8. DOMAIN f = 0 .. NumExperts /\ f = [e \in DOMAIN f |-> f[e]]
    BY <1>2
  <1>9. f = [e \in 0 .. NumExperts |-> Def(f, e)]
    BY <1>7, <1>8
  <1>10. TileStart = [e \in 0 .. NumExperts |-> Def(TileStart, e)]
    BY <1>9 DEF TileStart, TilesOf, cap
  <1>11. TileStart[0] = 0
    BY <1>1, <1>10
  <1>12. ASSUME NEW e \in Experts
         PROVE  TileStart[e + 1] = Least(cap, TileStart[e] + TilesOf(e))
    <2>1. e + 1 \in 0 .. NumExperts /\ e + 1 # 0 /\ (e + 1) - 1 = e
      BY <1>1 DEF Experts
    <2> QED BY <1>10, <2>1
  <1>13. \A e \in 0 .. NumExperts : TileStart[e] \in 0 .. cap
    <2> DEFINE Typed == {e \in 0 .. NumExperts : TileStart[e] \in 0 .. cap}
    <2>1. 0 \in Typed
      BY <1>1, <1>11
    <2>2. \A e \in 0 .. NumExperts - 1 : e \in Typed => e + 1 \in Typed
      BY <1>1, <1>12, Inputs DEF Experts, Least
    <2> HIDE DEF Typed
    <2>3. 0 .. NumExperts \subseteq Typed
      BY <1>1, <2>1, <2>2, InductionTo
    <2> QED BY <2>3 DEF Typed
  <1> QED BY <1>10, <1>11, <1>12, <1>13 DEF cap

LEMMA TileStartMono ==
  ASSUME RouteInputs, NEW e \in 0 .. NumExperts, NEW d \in 0 .. e
  PROVE  /\ d \in 0 .. NumExperts
         /\ TileStart[d] \in Nat /\ TileStart[e] \in Nat
         /\ TileStart[d] <= TileStart[e]
  <1>1. NumExperts \in Nat /\ \A x \in 0 .. NumExperts : TileStart[x] \in 0 .. RouteScratchTiles
    BY TileStartStep DEF RouteInputs
  <1>2. \A x \in Experts : TileStart[x] <= TileStart[x + 1]
    BY <1>1, TileStartStep, Inputs DEF Least
  <1> DEFINE Above == {x \in 0 .. NumExperts : \A y \in 0 .. x : TileStart[y] <= TileStart[x]}
  <1>3. 0 \in Above
    BY <1>1
  <1>4. ASSUME NEW x \in 0 .. NumExperts - 1, x \in Above
        PROVE  x + 1 \in Above
    <2>1. x \in Experts /\ x + 1 \in 0 .. NumExperts /\ x \in 0 .. NumExperts
      BY <1>1 DEF Experts
    <2>2. ASSUME NEW y \in 0 .. x + 1
          PROVE  TileStart[y] <= TileStart[x + 1]
      <3>1. y \in 0 .. NumExperts /\ (y = x + 1 \/ y \in 0 .. x)
        BY <1>1
      <3>2. CASE y = x + 1
        BY <1>1, <3>1, <3>2
      <3>3. CASE y \in 0 .. x
        BY <1>1, <1>2, <1>4, <2>1, <3>1, <3>3
      <3> QED BY <3>1, <3>2, <3>3
    <2> QED BY <2>1, <2>2
  <1>5. 0 .. NumExperts \subseteq Above
    <2> HIDE DEF Above
    <2> QED BY <1>1, <1>3, <1>4, InductionTo
  <1>6. d \in 0 .. NumExperts
    BY <1>1
  <1> QED BY <1>1, <1>5, <1>6

(* A tile is one expert's.                                                  *)
LEMMA TileOwner ==
  ASSUME RouteInputs, NEW t \in Tiles
  PROVE  /\ TileExpert(t) \in Experts
         /\ TileStart[TileExpert(t)] <= t /\ t < TileStart[TileExpert(t) + 1]
         /\ \A e \in Experts :
              TileStart[e] <= t /\ t < TileStart[e + 1] => e = TileExpert(t)
  <1>1. NumExperts \in Nat /\ TileStart[NumExperts] \in Nat /\ TileStart[0] = 0
        /\ t \in 0 .. TileStart[NumExperts] - 1
    BY TileStartStep, TileStartMono DEF RouteInputs, Tiles, total_tiles
  <1> DEFINE Past == {e \in 0 .. NumExperts : t < TileStart[e]}
  <1>2. Past \in SUBSET Nat /\ NumExperts \in Past
    BY <1>1
  <1>3. PICK m \in Past : \A k \in Past : m <= k
    <2> HIDE DEF Past
    <2> QED BY <1>2, LeastElement
  <1>4. m \in 0 .. NumExperts /\ t < TileStart[m] /\ m # 0
    BY <1>1
  <1>5. m - 1 \in Experts /\ m - 1 \in 0 .. NumExperts /\ (m - 1) + 1 = m
    BY <1>1, <1>4 DEF Experts
  <1>6. ~ (t < TileStart[m - 1])
    BY <1>3, <1>4, <1>5
  <1>7. TileStart[m - 1] <= t
    BY <1>1, <1>5, <1>6, TileStartStep
  <1>8. \E e \in Experts : TileStart[e] <= t /\ t < TileStart[e + 1]
    BY <1>4, <1>5, <1>7
  <1>9. ASSUME NEW d \in Experts, NEW e \in Experts, d < e,
               t < TileStart[d + 1], TileStart[e] <= t
        PROVE  FALSE
    <2>1. d + 1 \in 0 .. e /\ e \in 0 .. NumExperts
      BY <1>1, <1>9 DEF Experts
    <2>2. TileStart[d + 1] <= TileStart[e] /\ TileStart[d + 1] \in Nat /\ TileStart[e] \in Nat
      BY <2>1, TileStartMono
    <2> QED BY <1>1, <1>9, <2>2
  <1> DEFINE Owns(e) == TileStart[e] <= t /\ t < TileStart[e + 1]
  <1>10. TileExpert(t) \in Experts /\ Owns(TileExpert(t))
    BY <1>8 DEF TileExpert
  <1>11. ASSUME NEW e \in Experts, Owns(e)
         PROVE  e = TileExpert(t)
    <2> DEFINE o == TileExpert(t)
    <2>1. o \in Experts /\ Owns(o)
      BY <1>10
    <2> HIDE DEF o
    <2>2. ~ (o < e) /\ ~ (e < o)
      BY <1>9, <1>11, <2>1
    <2>3. o = e
      BY <1>1, <2>1, <2>2 DEF Experts
    <2> QED BY <2>3 DEF o
  <1> QED BY <1>10, <1>11

-----------------------------------------------------------------------------
(* The subtiles of an expert, and its L1 tasks.                             *)

First(e) == TileStart[e] * SubtilesPerTile

Width(e) == (TileStart[e + 1] - TileStart[e]) * SubtilesPerTile

LEMMA ExpertRange ==
  ASSUME RouteInputs, NEW e \in Experts
  PROVE  /\ First(e) \in Nat /\ Width(e) \in Nat /\ First(e + 1) = First(e) + Width(e)
         /\ total_tiles \in Nat /\ total_subtiles \in Nat
         /\ First(e + 1) <= total_subtiles
         /\ L1Offset(e) = First(e) * NumInterChunks
         /\ L1Offset(e + 1) = L1Offset(e) + Width(e) * NumInterChunks
         /\ SubtileBegin(e) = First(e)
         /\ ExpertSubtiles(e) = Width(e)
  <1> DEFINE a == TileStart[e]
             b == TileStart[e + 1]
             S == SubtilesPerTile
             C == NumInterChunks
  <1>1. e \in 0 .. e + 1 /\ e + 1 \in 0 .. NumExperts /\ NumExperts \in 0 .. NumExperts
    BY DEF RouteInputs, Experts
  <1>2. a \in Nat /\ b \in Nat /\ a <= b
    BY <1>1, TileStartMono
  <1>3. total_tiles \in Nat /\ b <= total_tiles
    BY <1>1, TileStartMono DEF RouteInputs, total_tiles
  <1>4. S \in Nat \ {0} /\ C \in Nat \ {0}
    BY Inputs DEF RouteInputs
  <1> DEFINE first == First(e)
             width == Width(e)
             next == First(e + 1)
  <1>5. first = a * S /\ width = (b - a) * S /\ next = b * S
    BY DEF First, Width
  <1>6. L1Offset(e) = (a * S) * C /\ L1Offset(e + 1) = (b * S) * C
        /\ total_subtiles = total_tiles * S
    BY DEF L1Offset, total_subtiles
  <1> HIDE DEF a, b, S, C
  <1>7. first \in Nat /\ width \in Nat /\ next = first + width /\ total_subtiles \in Nat
        /\ next <= total_subtiles
    <2>1. b - a \in Nat
      BY <1>2
    <2>2. first \in Nat /\ width \in Nat /\ total_subtiles \in Nat
      BY <1>2, <1>3, <1>4, <1>5, <1>6, <2>1, TimesNat
    <2>3. (b - a) * S = b * S - a * S
      BY <1>2, <1>4
    <2>4. b * S <= total_tiles * S
      BY <1>2, <1>3, <1>4, TimesLeq
    <2>5. next \in Nat
      BY <1>2, <1>4, <1>5, TimesNat
    <2>6. next = first + width
      BY <1>5, <2>2, <2>3, <2>5
    <2> QED BY <1>5, <1>6, <2>2, <2>4, <2>6
  <1>8. L1Offset(e) = first * C /\ L1Offset(e + 1) = next * C
    BY <1>5, <1>6
  <1> HIDE DEF first, width, next
  <1>9. L1Offset(e + 1) = L1Offset(e) + width * C
    <2>1. next * C = first * C + width * C
      BY <1>4, <1>7
    <2> QED BY <1>8, <2>1
  <1>10. \A q \in Nat : (q * C) \div C = q
    <2> SUFFICES ASSUME NEW q \in Nat
                 PROVE  (q * C) \div C = q
      OBVIOUS
    <2>1. (q * C + 0) \div C = q
      BY <1>4, DivIs
    <2>2. q * C + 0 = q * C
      BY <1>4
    <2> QED BY <2>1, <2>2
  <1>11. SubtileBegin(e) = first
    BY <1>7, <1>8, <1>10 DEF SubtileBegin, C
  <1>12. ExpertSubtiles(e) = width
    <2>1. L1Offset(e + 1) - L1Offset(e) = width * C
      <3>1. first * C \in Int /\ width * C \in Int
        BY <1>4, <1>7
      <3> QED BY <1>8, <1>9, <3>1
    <2> QED BY <1>7, <1>10, <2>1 DEF ExpertSubtiles, C
  <1> QED BY <1>3, <1>7, <1>8, <1>9, <1>11, <1>12 DEF first, width, next, C

LEMMA SubtileOwner ==
  ASSUME RouteInputs, NEW s \in Subtiles
  PROVE  LET e == TileExpert(TileOf(s))
         IN  /\ TileOf(s) \in Tiles
             /\ e \in Experts
             /\ s \in First(e) .. First(e) + Width(e) - 1
  <1> DEFINE t == TileOf(s)
             e == TileExpert(t)
  <1>1. SubtilesPerTile \in Nat \ {0} /\ total_tiles \in Nat
        /\ s \in Nat /\ s < total_tiles * SubtilesPerTile
    <2>1. NumExperts \in 0 .. NumExperts
      BY DEF RouteInputs
    <2>2. total_tiles \in Nat /\ SubtilesPerTile \in Nat \ {0}
      BY <2>1, TileStartMono, Inputs DEF total_tiles
    <2>3. total_tiles * SubtilesPerTile \in Nat
      BY <2>2, TimesNat
    <2> QED BY <2>2, <2>3 DEF Subtiles, total_subtiles
  <1>2. t \in Tiles
    <2>1. t = s \div SubtilesPerTile
      BY DEF TileOf
    <2> HIDE DEF t
    <2>2. t \in Nat
      BY <1>1, <2>1, DivMod
    <2>3. t < total_tiles
      BY <1>1, <2>1, DivLess
    <2> QED BY <1>1, <2>2, <2>3 DEF Tiles
  <1>3. e \in Experts /\ TileStart[e] <= t /\ t < TileStart[e + 1]
    BY <1>2, TileOwner
  <1>4. TileStart[e] \in Nat /\ TileStart[e + 1] \in Nat
    <2>1. e \in 0 .. e + 1 /\ e + 1 \in 0 .. NumExperts
      BY <1>3 DEF RouteInputs, Experts
    <2> QED BY <2>1, TileStartMono
  <1>5. First(e) <= s /\ s < First(e + 1)
    <2>1. t = s \div SubtilesPerTile
      BY DEF TileOf
    <2>2. First(e) = TileStart[e] * SubtilesPerTile
          /\ First(e + 1) = TileStart[e + 1] * SubtilesPerTile
      BY DEF First
    <2>3. t \in Nat
      BY <1>1, <2>1, DivMod
    <2> HIDE DEF t, e
    <2>4. s < TileStart[e + 1] * SubtilesPerTile
      BY <1>1, <1>3, <1>4, <2>1, DivLess
    <2>5. ~ (s < TileStart[e] * SubtilesPerTile)
      <3>1. ~ (t < TileStart[e])
        BY <1>3, <1>4, <2>3
      <3> QED BY <1>1, <1>4, <2>1, <3>1, DivLess
    <2>6. TileStart[e] * SubtilesPerTile \in Nat
      BY <1>1, <1>4, TimesNat
    <2> QED BY <1>1, <2>2, <2>4, <2>5, <2>6
  <1>6. First(e) \in Nat /\ Width(e) \in Nat /\ First(e + 1) = First(e) + Width(e)
    BY <1>3, ExpertRange
  <1> HIDE DEF e
  <1>7. s \in First(e) .. First(e) + Width(e) - 1
    BY <1>1, <1>5, <1>6
  <1> QED BY <1>2, <1>3, <1>7 DEF e

LEMMA SubtileOwned ==
  ASSUME RouteInputs, NEW e \in Experts, NEW s \in First(e) .. First(e) + Width(e) - 1
  PROVE  s \in Subtiles /\ TileExpert(TileOf(s)) = e
  <1>1. First(e) \in Nat /\ Width(e) \in Nat /\ First(e + 1) = First(e) + Width(e)
        /\ First(e + 1) <= total_subtiles /\ total_subtiles \in Nat
    BY ExpertRange
  <1>2. s \in Subtiles
    BY <1>1 DEF Subtiles
  <1>3. TileOf(s) \in Tiles
    BY <1>2, SubtileOwner
  <1>4. SubtilesPerTile \in Nat \ {0} /\ s \in Nat
    BY <1>1, Inputs
  <1>5. TileStart[e] \in Nat /\ TileStart[e + 1] \in Nat
    <2>1. e \in 0 .. e + 1 /\ e + 1 \in 0 .. NumExperts
      BY DEF RouteInputs, Experts
    <2> QED BY <2>1, TileStartMono
  <1>6. s < TileStart[e + 1] * SubtilesPerTile /\ ~ (s < TileStart[e] * SubtilesPerTile)
    <2> DEFINE f == First(e)
               g == First(e + 1)
    <2>1. f = TileStart[e] * SubtilesPerTile /\ g = TileStart[e + 1] * SubtilesPerTile
      BY DEF First
    <2>2. s < g /\ ~ (s < f)
      BY <1>1
    <2> HIDE DEF f, g
    <2> QED BY <2>1, <2>2
  <1>7. TileStart[e] <= TileOf(s) /\ TileOf(s) < TileStart[e + 1]
    <2> DEFINE t == s \div SubtilesPerTile
    <2>1. t \in Nat
      BY <1>4, DivMod
    <2>2. t < TileStart[e + 1] /\ ~ (t < TileStart[e])
      BY <1>4, <1>5, <1>6, DivLess
    <2> HIDE DEF t
    <2>3. TileStart[e] <= t
      BY <1>5, <2>1, <2>2
    <2> QED BY <2>2, <2>3 DEF t, TileOf
  <1> QED BY <1>2, <1>3, <1>7, TileOwner

(* The decoding loop finds the expert whose range the task is in.           *)
LEMMA TaskOwner ==
  ASSUME RouteInputs, NEW e \in Experts, NEW k \in Int,
         L1Offset(e) <= k, k < L1Offset(e) + Width(e) * NumInterChunks
  PROVE  k \in L1Tasks /\ ExpertOfL1Task(k) = e
  <1> DEFINE Ends(d) == k < L1Offset(d + 1) /\ \A c \in 0 .. d - 1 : k >= L1Offset(c + 1)
  <1>1. NumExperts \in Nat /\ NumInterChunks \in Nat \ {0}
        /\ \A d \in Experts : L1Offset(d) \in Nat /\ L1Offset(d + 1) \in Nat
    <2>1. ASSUME NEW d \in Experts
          PROVE  L1Offset(d) \in Nat /\ L1Offset(d + 1) \in Nat
      <3>1. First(d) \in Nat /\ Width(d) \in Nat /\ NumInterChunks \in Nat
        BY ExpertRange DEF RouteInputs
      <3>2. First(d) * NumInterChunks \in Nat /\ Width(d) * NumInterChunks \in Nat
        BY <3>1, TimesNat
      <3> QED BY <3>2, ExpertRange
    <2> QED BY <2>1 DEF RouteInputs
  <1>2. ASSUME NEW d \in Experts, NEW c \in 0 .. d - 1
        PROVE  L1Offset(c + 1) <= L1Offset(d)
    <2>1. c + 1 \in 0 .. d /\ d \in 0 .. NumExperts
      BY <1>1 DEF Experts
    <2>2. TileStart[c + 1] \in Nat /\ TileStart[d] \in Nat /\ TileStart[c + 1] <= TileStart[d]
      BY <2>1, TileStartMono
    <2>3. SubtilesPerTile \in Nat
      BY Inputs
    <2>4. TileStart[c + 1] * SubtilesPerTile <= TileStart[d] * SubtilesPerTile
          /\ TileStart[c + 1] * SubtilesPerTile \in Nat /\ TileStart[d] * SubtilesPerTile \in Nat
      BY <2>2, <2>3, TimesLeq, TimesNat
    <2> QED BY <1>1, <2>4, TimesLeq DEF L1Offset
  <1>3. Ends(e)
    <2>1. k < L1Offset(e + 1)
      BY ExpertRange
    <2>2. ASSUME NEW c \in 0 .. e - 1
          PROVE  k >= L1Offset(c + 1)
      <3>1. L1Offset(c + 1) <= L1Offset(e) /\ c \in Experts
        BY <1>1, <1>2 DEF Experts
      <3> QED BY <1>1, <3>1
    <2> QED BY <2>1, <2>2
  <1>4. ASSUME NEW d \in Experts, Ends(d)
        PROVE  d = e
    <2>1. ~ (d < e)
      <3> SUFFICES ASSUME d < e
                   PROVE  FALSE
        OBVIOUS
      <3>1. d \in 0 .. e - 1
        BY <1>1 DEF Experts
      <3>2. k >= L1Offset(d + 1) /\ k < L1Offset(d + 1)
        BY <1>3, <1>4, <3>1
      <3> QED BY <1>1, <3>2
    <2>2. ~ (e < d)
      <3> SUFFICES ASSUME e < d
                   PROVE  FALSE
        OBVIOUS
      <3>1. e \in 0 .. d - 1
        BY <1>1 DEF Experts
      <3>2. k >= L1Offset(e + 1) /\ k < L1Offset(e + 1)
        BY <1>3, <1>4, <3>1
      <3> QED BY <1>1, <3>2
    <2> QED BY <1>1, <2>1, <2>2 DEF Experts
  <1>5. ExpertOfL1Task(k) = e
    <2> DEFINE o == ExpertOfL1Task(k)
    <2>1. o \in Experts /\ Ends(o)
      BY <1>3 DEF ExpertOfL1Task
    <2> HIDE DEF o, Ends
    <2> QED BY <1>4, <2>1 DEF o
  <1>6. k \in L1Tasks
    <2>1. First(e + 1) <= total_subtiles /\ total_subtiles \in Nat
          /\ First(e + 1) = First(e) + Width(e) /\ First(e) \in Nat /\ Width(e) \in Nat
          /\ L1Offset(e) = First(e) * NumInterChunks
      BY ExpertRange
    <2>2. (First(e) + Width(e)) * NumInterChunks <= total_subtiles * NumInterChunks
      BY <1>1, <2>1, TimesLeq
    <2>3. (First(e) + Width(e)) * NumInterChunks
            = First(e) * NumInterChunks + Width(e) * NumInterChunks
      BY <1>1, <2>1
    <2>4. total_subtiles * NumInterChunks \in Nat /\ First(e) * NumInterChunks \in Nat
          /\ Width(e) * NumInterChunks \in Nat
      BY <1>1, <2>1, TimesNat
    <2>5. 0 <= k /\ k < total_subtiles * NumInterChunks
      BY <2>1, <2>2, <2>3, <2>4
    <2> QED BY <2>4, <2>5 DEF L1Tasks, total_l1_tasks
  <1> QED BY <1>5, <1>6

LEMMA TaskOwned ==
  ASSUME RouteInputs, NEW k \in L1Tasks
  PROVE  LET e == ExpertOfL1Task(k)
         IN  /\ k \in Nat
             /\ e \in Experts
             /\ L1Offset(e) \in Nat
             /\ L1Offset(e) <= k /\ k < L1Offset(e) + Width(e) * NumInterChunks
  <1> DEFINE C == NumInterChunks
             s == k \div C
             e == TileExpert(TileOf(s))
  <1>1. C \in Nat \ {0}
    BY DEF RouteInputs
  <1>2. total_subtiles \in Nat /\ k \in Nat /\ k < total_subtiles * C
    <2>1. NumExperts \in 0 .. NumExperts /\ SubtilesPerTile \in Nat
      BY Inputs DEF RouteInputs
    <2>2. total_subtiles \in Nat
      BY <2>1, TileStartMono, TimesNat DEF total_tiles, total_subtiles
    <2>3. total_subtiles * C \in Nat
      BY <1>1, <2>2, TimesNat
    <2> QED BY <2>2, <2>3 DEF L1Tasks, total_l1_tasks
  <1>3. s \in Nat /\ s < total_subtiles
    <2>1. s = k \div C
      OBVIOUS
    <2> HIDE DEF C, s
    <2>2. s \in Nat
      BY <1>1, <1>2, <2>1, DivMod
    <2>3. s < total_subtiles
      BY <1>1, <1>2, <2>1, DivLess
    <2> QED BY <2>2, <2>3
  <1>4. s \in Subtiles
    BY <1>2, <1>3 DEF Subtiles
  <1>5. e \in Experts /\ s \in First(e) .. First(e) + Width(e) - 1
    BY <1>4, SubtileOwner
  <1>6. First(e) \in Nat /\ Width(e) \in Nat /\ L1Offset(e) = First(e) * C
    BY <1>5, ExpertRange
  <1>7. First(e) * C <= k /\ k < First(e) * C + Width(e) * C /\ First(e) * C \in Nat
    <2> HIDE DEF C, s, e
    <2>1. s < First(e) + Width(e) /\ ~ (s < First(e)) /\ First(e) + Width(e) \in Nat
      BY <1>3, <1>5, <1>6
    <2>2. k < (First(e) + Width(e)) * C /\ ~ (k < First(e) * C)
      BY <1>1, <1>2, <1>6, <2>1, DivLess DEF s
    <2>3. (First(e) + Width(e)) * C = First(e) * C + Width(e) * C
      BY <1>1, <1>6
    <2>4. First(e) * C \in Nat /\ Width(e) * C \in Nat
      BY <1>1, <1>6, TimesNat
    <2> QED BY <1>2, <2>2, <2>3, <2>4
  <1> HIDE DEF e, s
  <1>8. ExpertOfL1Task(k) = e
    BY <1>2, <1>5, <1>6, <1>7, TaskOwner
  <1> QED BY <1>2, <1>5, <1>6, <1>7, <1>8

-----------------------------------------------------------------------------
(* Numbering pairs, and pairs in windows.                                   *)

LEMMA PackPair ==
  ASSUME NEW n \in Nat \ {0}, NEW m \in Nat, NEW q \in 0 .. m - 1, NEW p \in 0 .. n - 1
  PROVE  /\ q * n + p \in 0 .. m * n - 1
         /\ (q * n + p) \div n = q /\ (q * n + p) % n = p
  <1>1. q * n + n <= m * n
    BY TimesLess
  <1>2. q * n \in Nat /\ m * n \in Nat
    BY TimesNat
  <1>3. (q * n + p) \div n = q /\ (q * n + p) % n = p
    BY DivIs
  <1> QED BY <1>1, <1>2, <1>3

LEMMA UnpackPair ==
  ASSUME NEW n \in Nat, NEW m \in Nat, NEW l \in Nat, l < m * n
  PROVE  /\ n \in Nat \ {0}
         /\ l \div n \in 0 .. m - 1 /\ l % n \in 0 .. n - 1
         /\ l = (l \div n) * n + (l % n)
  <1>1. n # 0
    OBVIOUS
  <1>2. l \div n \in Nat /\ l % n \in 0 .. n - 1 /\ l = (l \div n) * n + (l % n)
    BY <1>1, DivMod
  <1>3. l \div n < m
    BY <1>1, DivLess
  <1> QED BY <1>1, <1>2, <1>3

WindowUnpacks(W, C, V, l) ==
  LET w == l \div (V * C)
      start == w * V
      width == Least(V, W - start)
      t == l - w * V * C
  IN  /\ start \in Nat /\ width \in Nat \ {0} /\ t \in Nat
      /\ start + (t % width) \in 0 .. W - 1 /\ t \div width \in 0 .. C - 1
      /\ (start + (t % width)) \div V = w
      /\ (start + (t % width)) % V = t % width
      /\ l = start * C + ((t \div width) * width + (t % width))

LEMMA UnpackWindow ==
  ASSUME NEW W \in Nat, NEW C \in Nat \ {0}, NEW V \in Nat \ {0},
         NEW l \in Nat, l < W * C
  PROVE  WindowUnpacks(W, C, V, l)
  <1> DEFINE n == V * C
             m == W * C
             w == l \div n
             start == w * V
             a == start * C
             width == Least(V, W - start)
             t == l - a
             q == t \div width
             p == t % width
  <1>1. n \in Nat \ {0} /\ m \in Nat /\ l < m
    BY TimesNat
  <1> HIDE DEF w
  <1>2. w \in Nat /\ l % n \in 0 .. n - 1 /\ l = w * n + (l % n)
    <2> HIDE DEF n
    <2> QED BY <1>1, DivMod DEF w
  <1>3. w * n = a /\ start \in Nat /\ a \in Nat
    <2>1. w \in Nat
      BY <1>2
    <2> QED BY <2>1, TimesAssoc, TimesNat
  <1>4. V * C = n /\ start * C = a /\ w * V = start /\ W * C = m
    OBVIOUS
  <1> HIDE DEF n, m, a, start
  <1>5. t \in 0 .. n - 1 /\ t \in Nat
    BY <1>1, <1>2, <1>3
  <1>6. start < W
    <2> SUFFICES ASSUME W <= start
                 PROVE  FALSE
      BY <1>3
    <2>1. m <= a
      BY <1>3, <1>4, TimesLeq
    <2> QED BY <1>1, <1>3, <1>5, <2>1
  <1>7. width \in Nat \ {0} /\ width <= V /\ start + width <= W
    BY <1>3, <1>6 DEF Least
  <1>8. t < C * width
    <2>1. CASE width = V
      <3>1. C * V = n
        BY <1>4
      <3> QED BY <1>1, <1>5, <2>1, <3>1
    <2>2. CASE width = W - start
      <3>1. C * (W - start) = m - a
        BY <1>3, <1>4
      <3>2. t < m - a
        BY <1>1, <1>3, <1>5
      <3> QED BY <2>2, <3>1, <3>2
    <2> QED BY <2>1, <2>2 DEF Least
  <1> HIDE DEF t, width
  <1>9. q \in 0 .. C - 1 /\ p \in 0 .. width - 1 /\ t = q * width + p
    BY <1>5, <1>7, <1>8, UnpackPair
  <1> HIDE DEF p, q
  <1>10. p \in 0 .. V - 1
    BY <1>7, <1>9
  <1>11. (start + p) \div V = w /\ (start + p) % V = p
    BY <1>2, <1>4, <1>10, DivIs
  <1>12. start + p \in 0 .. W - 1
    BY <1>3, <1>7, <1>9
  <1>13. l = a + (q * width + p)
    <2>1. l = a + t
      BY <1>1, <1>3 DEF t
    <2> QED BY <1>9, <2>1
  <1> QED BY <1>3, <1>5, <1>7, <1>9, <1>11, <1>12, <1>13
          DEF WindowUnpacks, p, q, t, width, a, start, w, n

WindowPacks(W, C, V, p, c) ==
  LET start == (p \div V) * V
      width == Least(V, W - start)
      t == c * width + (p % V)
      l == start * C + t
  IN  /\ l \in Nat /\ l < W * C
      /\ l \div (V * C) = p \div V /\ l - (p \div V) * V * C = t
      /\ t \div width = c /\ t % width = p % V /\ start + (p % V) = p

LEMMA PackWindow ==
  ASSUME NEW W \in Nat, NEW C \in Nat \ {0}, NEW V \in Nat \ {0},
         NEW p \in 0 .. W - 1, NEW c \in 0 .. C - 1
  PROVE  WindowPacks(W, C, V, p, c)
  <1> DEFINE w == p \div V
             o == p % V
             n == V * C
             m == W * C
             start == w * V
             a == start * C
             width == Least(V, W - start)
             b == C * width
             t == c * width + o
             l == a + t
  <1> HIDE DEF w, o, n, m, start, a, width, b, t, l
  <1>1. p \in Nat /\ p < W
    OBVIOUS
  <1>2. w \in Nat /\ o \in 0 .. V - 1 /\ p = start + o
    BY <1>1, DivMod DEF w, o, start
  <1>3. start \in Nat
    BY <1>2, TimesNat DEF start
  <1>4. width \in Nat \ {0} /\ width <= V /\ start + width <= W /\ o \in 0 .. width - 1
    BY <1>1, <1>2, <1>3 DEF Least, width
  <1>5. t \in 0 .. b - 1 /\ t \div width = c /\ t % width = o
    BY <1>4, PackPair DEF t, b
  <1>6. n \in Nat \ {0} /\ m \in Nat /\ b \in Nat /\ a \in Nat
    BY <1>3, <1>4, TimesNat DEF n, m, b, a
  <1>7. b <= n
    <2>1. width * C <= V * C
      BY <1>4, TimesLeq
    <2> QED BY <1>4, <2>1 DEF b, n
  <1>8. a = w * n /\ w * V * C = a
    BY <1>2, TimesAssoc DEF a, start, n
  <1>9. a + b <= m
    <2>1. (start + width) * C <= W * C
      BY <1>3, <1>4, TimesLeq
    <2>2. (start + width) * C = start * C + C * width
      BY <1>3, <1>4
    <2> QED BY <2>1, <2>2 DEF a, b, m
  <1>10. l \in Nat /\ l < m /\ l - a = t /\ t \in 0 .. n - 1
    BY <1>5, <1>6, <1>7, <1>9 DEF l
  <1>11. l \div n = w
    <2>1. l = w * n + t
      BY <1>8 DEF l
    <2> QED BY SMTT(30), <1>2, <1>6, <1>10, <2>1, DivIs
  <1> QED BY <1>2, <1>5, <1>8, <1>10, <1>11 DEF WindowPacks, l, t, b, width, a, start, m, n, o, w

-----------------------------------------------------------------------------
(* Every schedule is undone by a numbering of the subtiles and chunks.      *)

Pieces == [subtile : Subtiles, chunk : Chunks]

EncodeTileMajor(s, c) == s * NumInterChunks + c

EncodeChunkMajor(s, c) == c * total_subtiles + s

EncodeExpertChunkMajor(s, c) ==
  LET e == TileExpert(TileOf(s))
  IN  L1Offset(e) + (c * Width(e) + (s - First(e)))

EncodeExpertWindowChunkMajor(s, c) ==
  LET e == TileExpert(TileOf(s))
      p == s - First(e)
      start == (p \div WindowMtiles) * WindowMtiles
      width == Least(WindowMtiles, Width(e) - start)
  IN  L1Offset(e) + (start * NumInterChunks + (c * width + (p % WindowMtiles)))

EncodeL1(s, c) ==
  CASE L1Schedule = "TileMajor" -> EncodeTileMajor(s, c)
    [] L1Schedule = "ChunkMajor" -> EncodeChunkMajor(s, c)
    [] L1Schedule = "ExpertChunkMajor" -> EncodeExpertChunkMajor(s, c)
    [] L1Schedule = "ExpertWindowChunkMajor" -> EncodeExpertWindowChunkMajor(s, c)

LEMMA Totals ==
  ASSUME RouteInputs
  PROVE  /\ NumInterChunks \in Nat \ {0} /\ NumHiddenChunks \in Nat \ {0}
         /\ SubtilesPerTile \in Nat \ {0}
         /\ total_tiles \in Nat /\ total_subtiles \in Nat
         /\ total_l1_tasks \in Nat /\ total_l2_tasks \in Nat
  <1>1. NumExperts \in 0 .. NumExperts
    BY DEF RouteInputs
  <1>2. total_tiles \in Nat /\ SubtilesPerTile \in Nat \ {0}
    BY <1>1, TileStartMono, Inputs DEF total_tiles
  <1>3. total_subtiles \in Nat
    BY <1>2, TimesNat DEF total_subtiles
  <1> QED BY <1>2, <1>3, TimesNat DEF RouteInputs, total_l1_tasks, total_l2_tasks

LEMMA TileMajorCodec ==
  ASSUME RouteInputs
  PROVE  /\ \A k \in L1Tasks :
              LET r == DecodeTileMajor(k)
              IN  r \in Pieces /\ r.subtile <= k /\ EncodeTileMajor(r.subtile, r.chunk) = k
         /\ \A s \in Subtiles, c \in Chunks :
              /\ EncodeTileMajor(s, c) \in L1Tasks
              /\ DecodeTileMajor(EncodeTileMajor(s, c)) = [subtile |-> s, chunk |-> c]
  <1> DEFINE n == total_subtiles
             C == NumInterChunks
  <1>1. C \in Nat \ {0} /\ n \in Nat /\ n * C \in Nat /\ total_l1_tasks = n * C
    BY Totals DEF total_l1_tasks
  <1> HIDE DEF n, C
  <1>2. ASSUME NEW k \in L1Tasks
        PROVE  /\ k \div C \in 0 .. n - 1 /\ k % C \in 0 .. C - 1
               /\ k \div C <= k /\ (k \div C) * C + (k % C) = k
    <2>1. k \in Nat /\ k < n * C
      BY <1>1 DEF L1Tasks
    <2>2. k \div C \in 0 .. n - 1 /\ k % C \in 0 .. C - 1 /\ k = (k \div C) * C + (k % C)
      BY <1>1, <2>1, UnpackPair
    <2> DEFINE q == k \div C
    <2>3. q \in Nat /\ q * C <= k
      <3>1. q \in Nat
        BY <1>1, <2>2
      <3> HIDE DEF q
      <3> QED BY <1>1, <2>2, <3>1, TimesNat DEF q
    <2>4. q <= q * C
      <3> HIDE DEF q
      <3>1. q * 1 <= q * C
        BY <1>1, <2>3
      <3> QED BY <2>3, <3>1
    <2>5. q <= k
      <3> HIDE DEF q
      <3> QED BY <1>1, <2>1, <2>3, <2>4
    <2> QED BY <2>2, <2>5
  <1>3. ASSUME NEW s \in 0 .. n - 1, NEW c \in 0 .. C - 1
        PROVE  s * C + c \in L1Tasks /\ (s * C + c) \div C = s /\ (s * C + c) % C = c
    BY <1>1, PackPair DEF L1Tasks
  <1>4. Subtiles = 0 .. n - 1 /\ Chunks = 0 .. C - 1
    BY DEF Subtiles, Chunks, n, C
  <1>5. \A k : DecodeTileMajor(k) = [subtile |-> k \div C, chunk |-> k % C]
    BY DEF DecodeTileMajor, C
  <1>6. \A s, c : EncodeTileMajor(s, c) = s * C + c
    BY DEF EncodeTileMajor, C
  <1>7. ASSUME NEW k \in L1Tasks
        PROVE  LET r == DecodeTileMajor(k)
               IN  r \in Pieces /\ r.subtile <= k /\ EncodeTileMajor(r.subtile, r.chunk) = k
    BY <1>2, <1>4, <1>5, <1>6 DEF Pieces
  <1>8. ASSUME NEW s \in Subtiles, NEW c \in Chunks
        PROVE  /\ EncodeTileMajor(s, c) \in L1Tasks
               /\ DecodeTileMajor(EncodeTileMajor(s, c)) = [subtile |-> s, chunk |-> c]
    BY <1>3, <1>4, <1>5, <1>6
  <1> QED BY <1>7, <1>8

LEMMA ChunkMajorCodec ==
  ASSUME RouteInputs
  PROVE  /\ \A k \in L1Tasks :
              LET r == DecodeChunkMajor(k)
              IN  r \in Pieces /\ r.subtile <= k /\ EncodeChunkMajor(r.subtile, r.chunk) = k
         /\ \A s \in Subtiles, c \in Chunks :
              /\ EncodeChunkMajor(s, c) \in L1Tasks
              /\ DecodeChunkMajor(EncodeChunkMajor(s, c)) = [subtile |-> s, chunk |-> c]
  <1> DEFINE n == total_subtiles
             C == NumInterChunks
  <1>1. C \in Nat \ {0} /\ n \in Nat /\ n * C \in Nat /\ total_l1_tasks = n * C /\ n * C = C * n
    BY Totals DEF total_l1_tasks
  <1> HIDE DEF n, C
  <1>2. ASSUME NEW k \in L1Tasks
        PROVE  /\ k \div n \in 0 .. C - 1 /\ k % n \in 0 .. n - 1
               /\ k % n <= k /\ (k \div n) * n + (k % n) = k
    <2>1. k \in Nat /\ k < C * n
      BY <1>1 DEF L1Tasks
    <2>2. n \in Nat \ {0} /\ k \div n \in 0 .. C - 1 /\ k % n \in 0 .. n - 1
          /\ k = (k \div n) * n + (k % n)
      BY <1>1, <2>1, UnpackPair
    <2> DEFINE q == k \div n
               a == q * n
               p == k % n
    <2>3. q \in Nat
      BY <1>1, <2>2
    <2> HIDE DEF q, p
    <2>4. a \in Nat /\ k = a + p
      BY <1>1, <2>2, <2>3, TimesNat DEF q, p
    <2> HIDE DEF a
    <2>5. p <= k
      BY <1>1, <2>1, <2>2, <2>4 DEF p
    <2> QED BY <2>2, <2>5 DEF p
  <1>3. ASSUME NEW s \in 0 .. n - 1, NEW c \in 0 .. C - 1
        PROVE  c * n + s \in L1Tasks /\ (c * n + s) \div n = c /\ (c * n + s) % n = s
    <2>1. n \in Nat \ {0}
      BY <1>1
    <2> QED BY <1>1, <2>1, PackPair DEF L1Tasks
  <1>4. Subtiles = 0 .. n - 1 /\ Chunks = 0 .. C - 1
    BY DEF Subtiles, Chunks, n, C
  <1>5. \A k : DecodeChunkMajor(k) = [subtile |-> k % n, chunk |-> k \div n]
    BY DEF DecodeChunkMajor, n
  <1>6. \A s, c : EncodeChunkMajor(s, c) = c * n + s
    BY DEF EncodeChunkMajor, n
  <1>7. ASSUME NEW k \in L1Tasks
        PROVE  LET r == DecodeChunkMajor(k)
               IN  r \in Pieces /\ r.subtile <= k /\ EncodeChunkMajor(r.subtile, r.chunk) = k
    BY <1>2, <1>4, <1>5, <1>6 DEF Pieces
  <1>8. ASSUME NEW s \in Subtiles, NEW c \in Chunks
        PROVE  /\ EncodeChunkMajor(s, c) \in L1Tasks
               /\ DecodeChunkMajor(EncodeChunkMajor(s, c)) = [subtile |-> s, chunk |-> c]
    BY <1>3, <1>4, <1>5, <1>6
  <1> QED BY <1>7, <1>8

LEMMA ExpertOffset ==
  ASSUME RouteInputs, NEW e \in Experts
  PROVE  /\ First(e) \in Nat /\ Width(e) \in Nat /\ L1Offset(e) \in Nat
         /\ First(e) <= L1Offset(e)
         /\ Width(e) * NumInterChunks \in Nat
         /\ Width(e) * NumInterChunks = NumInterChunks * Width(e)
         /\ SubtileBegin(e) = First(e) /\ ExpertSubtiles(e) = Width(e)
  <1> DEFINE C == NumInterChunks
             f == First(e)
             w == Width(e)
  <1>1. C \in Nat \ {0} /\ f \in Nat /\ w \in Nat /\ L1Offset(e) = f * C
        /\ SubtileBegin(e) = f /\ ExpertSubtiles(e) = w
    BY Totals, ExpertRange
  <1> HIDE DEF C, f, w
  <1>2. f * C \in Nat /\ w * C \in Nat /\ w * C = C * w
    BY <1>1, TimesNat
  <1>3. f * 1 <= f * C
    BY <1>1
  <1> QED BY <1>1, <1>2, <1>3 DEF C, f, w

LEMMA ExpertChunkMajorCodec ==
  ASSUME RouteInputs
  PROVE  /\ \A k \in L1Tasks :
              LET r == DecodeExpertChunkMajor(k)
              IN  /\ r \in Pieces /\ r.subtile <= k
                  /\ EncodeExpertChunkMajor(r.subtile, r.chunk) = k
         /\ \A s \in Subtiles, c \in Chunks :
              /\ EncodeExpertChunkMajor(s, c) \in L1Tasks
              /\ DecodeExpertChunkMajor(EncodeExpertChunkMajor(s, c))
                   = [subtile |-> s, chunk |-> c]
  <1> DEFINE C == NumInterChunks
  <1>1. C \in Nat \ {0} /\ Chunks = 0 .. C - 1
    BY Totals DEF Chunks
  <1>2. ASSUME NEW k \in L1Tasks
        PROVE  LET r == DecodeExpertChunkMajor(k)
               IN  /\ r \in Pieces /\ r.subtile <= k
                   /\ EncodeExpertChunkMajor(r.subtile, r.chunk) = k
    <2> DEFINE e == ExpertOfL1Task(k)
               f == First(e)
               w == Width(e)
               o == L1Offset(e)
               l == k - o
               q == l \div w
               p == l % w
               s == f + p
    <2>1. k \in Nat /\ e \in Experts /\ o <= k /\ k < o + w * C
      BY TaskOwned
    <2>2. f \in Nat /\ w \in Nat /\ o \in Nat /\ f <= o /\ w * C \in Nat /\ w * C = C * w
          /\ SubtileBegin(e) = f /\ ExpertSubtiles(e) = w
      BY <2>1, ExpertOffset
    <2>3. DecodeExpertChunkMajor(k) = [subtile |-> s, chunk |-> q]
      BY <2>2 DEF DecodeExpertChunkMajor
    <2> HIDE DEF C, e, f, w, o
    <2>4. l \in Nat /\ l < C * w
      BY <2>1, <2>2
    <2>5. q \in 0 .. C - 1 /\ p \in 0 .. w - 1 /\ l = q * w + p
      BY <1>1, <2>2, <2>4, UnpackPair
    <2>6. p <= l
      <3> HIDE DEF q, p, l
      <3>1. q * w \in Nat
        BY <1>1, <2>2, <2>5, TimesNat
      <3> QED BY <2>2, <2>5, <3>1
    <2> HIDE DEF p, q
    <2>7. s \in First(e) .. First(e) + Width(e) - 1 /\ s <= k /\ s - f = p
      BY <2>1, <2>2, <2>5, <2>6 DEF f, w
    <2> HIDE DEF s
    <2>8. s \in Subtiles /\ TileExpert(TileOf(s)) = e
      BY <2>1, <2>7, SubtileOwned
    <2>9. EncodeExpertChunkMajor(s, q) = o + (q * w + p)
      BY <2>7, <2>8 DEF EncodeExpertChunkMajor, o, w, f
    <2>10. EncodeExpertChunkMajor(s, q) = k
      <3>1. o + l = k
        BY <2>1, <2>2
      <3> HIDE DEF l
      <3> QED BY <2>5, <2>9, <3>1
    <2>11. [subtile |-> s, chunk |-> q] \in Pieces
      BY <1>1, <2>5, <2>8 DEF Pieces
    <2> QED BY <2>3, <2>7, <2>10, <2>11
  <1>3. ASSUME NEW s \in Subtiles, NEW c \in Chunks
        PROVE  /\ EncodeExpertChunkMajor(s, c) \in L1Tasks
               /\ DecodeExpertChunkMajor(EncodeExpertChunkMajor(s, c))
                    = [subtile |-> s, chunk |-> c]
    <2> DEFINE e == TileExpert(TileOf(s))
               f == First(e)
               w == Width(e)
               o == L1Offset(e)
               p == s - f
               l == c * w + p
               k == o + l
    <2>1. e \in Experts /\ s \in f .. f + w - 1
      BY SubtileOwner
    <2>2. f \in Nat /\ w \in Nat /\ o \in Nat /\ w * C \in Nat /\ w * C = C * w
          /\ SubtileBegin(e) = f /\ ExpertSubtiles(e) = w
      BY <2>1, ExpertOffset
    <2>3. EncodeExpertChunkMajor(s, c) = k
      BY DEF EncodeExpertChunkMajor
    <2> HIDE DEF C, e, f, w, o
    <2>4. w \in Nat \ {0} /\ p \in 0 .. w - 1 /\ f + p = s
      BY <2>1, <2>2
    <2> HIDE DEF p
    <2>5. l \in 0 .. C * w - 1 /\ l \div w = c /\ l % w = p
      BY <1>1, <2>4, PackPair
    <2> HIDE DEF l
    <2>6. k \in Int /\ o <= k /\ k < o + w * C /\ k - o = l
      BY <2>2, <2>5
    <2>7. k \in L1Tasks /\ ExpertOfL1Task(k) = e
      BY <2>1, <2>6, TaskOwner DEF o, w, C
    <2>8. DecodeExpertChunkMajor(k) = [subtile |-> f + (l % w), chunk |-> l \div w]
      BY <2>2, <2>6, <2>7 DEF DecodeExpertChunkMajor, o
    <2> QED BY <2>3, <2>4, <2>5, <2>7, <2>8
  <1> QED BY <1>2, <1>3

LEMMA ExpertWindowChunkMajorCodec ==
  ASSUME RouteInputs
  PROVE  /\ \A k \in L1Tasks :
              LET r == DecodeExpertWindowChunkMajor(k)
              IN  /\ r \in Pieces /\ r.subtile <= k
                  /\ EncodeExpertWindowChunkMajor(r.subtile, r.chunk) = k
         /\ \A s \in Subtiles, c \in Chunks :
              /\ EncodeExpertWindowChunkMajor(s, c) \in L1Tasks
              /\ DecodeExpertWindowChunkMajor(EncodeExpertWindowChunkMajor(s, c))
                   = [subtile |-> s, chunk |-> c]
  <1> DEFINE C == NumInterChunks
             V == WindowMtiles
  <1>1. C \in Nat \ {0} /\ Chunks = 0 .. C - 1 /\ V \in Nat \ {0}
    BY Totals DEF Chunks, RouteInputs
  <1>2. ASSUME NEW k \in L1Tasks
        PROVE  LET r == DecodeExpertWindowChunkMajor(k)
               IN  /\ r \in Pieces /\ r.subtile <= k
                   /\ EncodeExpertWindowChunkMajor(r.subtile, r.chunk) = k
    <2> DEFINE e == ExpertOfL1Task(k)
               f == First(e)
               w == Width(e)
               o == L1Offset(e)
               l == k - o
               window == l \div (V * C)
               start == window * V
               width == Least(V, w - start)
               t == l - window * V * C
               q == t \div width
               r == t % width
               p == start + r
               s == f + start + r
    <2>1. k \in Nat /\ e \in Experts /\ o <= k /\ k < o + w * C
      BY TaskOwned
    <2>2. f \in Nat /\ w \in Nat /\ o \in Nat /\ f <= o /\ w * C \in Nat
          /\ SubtileBegin(e) = f /\ ExpertSubtiles(e) = w
      BY <2>1, ExpertOffset
    <2>3. DecodeExpertWindowChunkMajor(k) = [subtile |-> s, chunk |-> q]
      BY <2>2 DEF DecodeExpertWindowChunkMajor
    <2> HIDE DEF C, V, e, f, w, o
    <2>4. l \in Nat /\ l < w * C /\ o + l = k
      BY <2>1, <2>2
    <2> HIDE DEF l
    <2>5. /\ start \in Nat /\ width \in Nat \ {0} /\ t \in Nat
          /\ p \in 0 .. w - 1 /\ q \in 0 .. C - 1
          /\ p \div V = window /\ p % V = r
          /\ l = start * C + (q * width + r)
      <3>1. WindowUnpacks(w, C, V, l)
        BY <1>1, <2>2, <2>4, UnpackWindow
      <3> QED BY <3>1 DEF WindowUnpacks
    <2>6. r \in 0 .. width - 1
      BY <2>5, DivMod
    <2>7. start * C \in Nat /\ q * width \in Nat /\ start <= start * C
      <3> HIDE DEF start, width, q
      <3>1. start * 1 <= start * C
        BY <1>1, <2>5
      <3> QED BY <1>1, <2>5, <3>1, TimesNat
    <2> DEFINE a == start * C
               b == q * width
    <2>8. a \in Nat /\ b \in Nat /\ start <= a /\ l = a + (b + r)
      BY <2>5, <2>7
    <2> HIDE DEF a, b, start, width, t, q, r, window
    <2>9. s \in First(e) .. First(e) + Width(e) - 1 /\ s <= k /\ s - f = p
      BY <2>1, <2>2, <2>4, <2>5, <2>6, <2>8 DEF f, w
    <2> HIDE DEF s
    <2>10. s \in Subtiles /\ TileExpert(TileOf(s)) = e
      BY <2>1, <2>9, SubtileOwned
    <2>11. EncodeExpertWindowChunkMajor(s, q) = o + (start * C + (q * width + r))
      <3>1. (p \div V) * V = start /\ Least(V, w - start) = width
        BY <2>5 DEF start, width
      <3> HIDE DEF p
      <3> QED BY <2>5, <2>9, <2>10, <3>1 DEF EncodeExpertWindowChunkMajor, o, w, f, C, V
    <2>12. EncodeExpertWindowChunkMajor(s, q) = k
      BY <2>4, <2>5, <2>11
    <2>13. [subtile |-> s, chunk |-> q] \in Pieces
      BY <1>1, <2>5, <2>10 DEF Pieces
    <2> QED BY <2>3, <2>9, <2>12, <2>13
  <1>3. ASSUME NEW s \in Subtiles, NEW c \in Chunks
        PROVE  /\ EncodeExpertWindowChunkMajor(s, c) \in L1Tasks
               /\ DecodeExpertWindowChunkMajor(EncodeExpertWindowChunkMajor(s, c))
                    = [subtile |-> s, chunk |-> c]
    <2> DEFINE e == TileExpert(TileOf(s))
               f == First(e)
               w == Width(e)
               o == L1Offset(e)
               p == s - f
               start == (p \div V) * V
               width == Least(V, w - start)
               t == c * width + (p % V)
               l == start * C + t
               k == o + l
    <2>1. e \in Experts /\ s \in f .. f + w - 1
      BY SubtileOwner
    <2>2. f \in Nat /\ w \in Nat /\ o \in Nat /\ w * C \in Nat
          /\ SubtileBegin(e) = f /\ ExpertSubtiles(e) = w
      BY <2>1, ExpertOffset
    <2>3. EncodeExpertWindowChunkMajor(s, c) = k
      BY DEF EncodeExpertWindowChunkMajor
    <2> HIDE DEF C, V, e, f, w, o
    <2>4. p \in 0 .. w - 1 /\ f + p = s
      BY <2>1, <2>2
    <2> HIDE DEF p
    <2>5. /\ l \in Nat /\ l < w * C
          /\ l \div (V * C) = p \div V /\ l - (p \div V) * V * C = t
          /\ t \div width = c /\ t % width = p % V /\ start + (p % V) = p
      <3>1. WindowPacks(w, C, V, p, c)
        BY <1>1, <2>2, <2>4, PackWindow
      <3> QED BY <3>1 DEF WindowPacks
    <2>6. p \in Nat
      BY <2>2, <2>4
    <2>7. start \in Nat /\ p % V \in Nat
      <3>1. p \div V \in Nat /\ p % V \in 0 .. V - 1
        BY <1>1, <2>6, DivMod
      <3> QED BY <1>1, <3>1, TimesNat
    <2> DEFINE u == p \div V
               r == p % V
    <2> HIDE DEF l, u, r, t, width, start
    <2>8. k \in Int /\ o <= k /\ k < o + w * C /\ k - o = l
      BY <2>2, <2>5
    <2>9. k \in L1Tasks /\ ExpertOfL1Task(k) = e
      BY <2>1, <2>8, TaskOwner DEF o, w, C
    <2>10. DecodeExpertWindowChunkMajor(k)
             = [subtile |-> f + start + (t % width), chunk |-> t \div width]
      <3>1. start = (l \div (V * C)) * V /\ width = Least(V, w - start)
            /\ t = l - (l \div (V * C)) * V * C
        BY <2>5 DEF start, width
      <3> HIDE DEF k
      <3> QED BY <2>2, <2>8, <2>9, <3>1 DEF DecodeExpertWindowChunkMajor, o, C, V
    <2>11. f + start + (p % V) = s
      BY <2>2, <2>4, <2>5, <2>7
    <2> QED BY <2>3, <2>5, <2>9, <2>10, <2>11
  <1> QED BY <1>2, <1>3

LEMMA L1Codec ==
  ASSUME RouteInputs
  PROVE  /\ \A k \in L1Tasks :
              LET r == DecodeL1(k)
              IN  r \in Pieces /\ r.subtile <= k /\ EncodeL1(r.subtile, r.chunk) = k
         /\ \A s \in Subtiles, c \in Chunks :
              /\ EncodeL1(s, c) \in L1Tasks
              /\ DecodeL1(EncodeL1(s, c)) = [subtile |-> s, chunk |-> c]
  <1>1. CASE L1Schedule = "TileMajor"
    BY <1>1, TileMajorCodec DEF DecodeL1, EncodeL1
  <1>2. CASE L1Schedule = "ChunkMajor"
    BY <1>2, ChunkMajorCodec DEF DecodeL1, EncodeL1
  <1>3. CASE L1Schedule = "ExpertChunkMajor"
    BY <1>3, ExpertChunkMajorCodec DEF DecodeL1, EncodeL1
  <1>4. CASE L1Schedule = "ExpertWindowChunkMajor"
    BY <1>4, ExpertWindowChunkMajorCodec DEF DecodeL1, EncodeL1
  <1> QED BY <1>1, <1>2, <1>3, <1>4 DEF RouteInputs

LEMMA UpTo ==
  ASSUME NEW n \in Nat
  PROVE  IsFiniteSet(0 .. n - 1) /\ Cardinality(0 .. n - 1) = n
  BY FS_Interval

(* Two tasks never decode to the same piece of work.                        *)
LEMMA DecodeInjective ==
  ASSUME RouteInputs, NEW j \in L1Tasks, NEW k \in L1Tasks, DecodeL1(j) = DecodeL1(k)
  PROVE  j = k
  <1>1. EncodeL1(DecodeL1(j).subtile, DecodeL1(j).chunk) = j
        /\ EncodeL1(DecodeL1(k).subtile, DecodeL1(k).chunk) = k
    BY L1Codec
  <1> QED BY <1>1

(* For every routing and each of the four schedules, the linear task ids    *)
(* decode to every subtile and chunk, each once (dcu_decode_l1_task).       *)
THEOREM TasksBijective == RouteInputs => L1Bijective
  <1> SUFFICES ASSUME RouteInputs
               PROVE  L1Bijective
    OBVIOUS
  <1>1. {DecodeL1(k) : k \in L1Tasks} = Pieces
    <2>1. ASSUME NEW r \in Pieces
          PROVE  \E k \in L1Tasks : r = DecodeL1(k)
      <3>1. r.subtile \in Subtiles /\ r.chunk \in Chunks
            /\ r = [subtile |-> r.subtile, chunk |-> r.chunk]
        BY DEF Pieces
      <3>2. EncodeL1(r.subtile, r.chunk) \in L1Tasks
            /\ DecodeL1(EncodeL1(r.subtile, r.chunk)) = r
        BY <3>1, L1Codec
      <3> QED BY <3>2
    <2>2. \A k \in L1Tasks : DecodeL1(k) \in Pieces
      BY L1Codec
    <2> QED BY <2>1, <2>2
  <1>2. Cardinality(L1Tasks) = total_l1_tasks /\ Cardinality(Subtiles) = total_subtiles
        /\ Cardinality(Chunks) = NumInterChunks
    BY Totals, UpTo DEF L1Tasks, Subtiles, Chunks
  <1> QED BY <1>1, <1>2 DEF L1Bijective, Pieces, total_l1_tasks

(* The tile of task k is one of the first k + 1 tiles, so a block that has  *)
(* claimed a tile before each L1 claim never waits for an unclaimed one.    *)
THEOREM PullsCoverTasks == RouteInputs => PullCoversL1
  <1> SUFFICES ASSUME RouteInputs, NEW k \in L1Tasks
               PROVE  TileOf(DecodeL1(k).subtile) <= k
    BY DEF PullCoversL1
  <1> DEFINE s == DecodeL1(k).subtile
             S == SubtilesPerTile
             t == s \div S
  <1>1. s \in Nat /\ s <= k /\ k \in Nat
    BY L1Codec, Totals DEF Pieces, Subtiles, L1Tasks
  <1>2. S \in Nat \ {0}
    BY Totals
  <1> HIDE DEF s, S
  <1>3. t \in Nat /\ s % S \in 0 .. S - 1 /\ s = t * S + (s % S)
    BY <1>1, <1>2, DivMod
  <1> HIDE DEF t
  <1>4. t * 1 <= t * S
    BY <1>2, <1>3
  <1>5. t <= s
    <2>1. t * S \in Nat
      BY <1>2, <1>3, TimesNat
    <2> QED BY <1>1, <1>3, <1>4, <2>1
  <1> QED BY <1>1, <1>3, <1>5 DEF s, S, t, TileOf

-----------------------------------------------------------------------------
(* Groups of subtiles for the L2 queue.                                     *)

Limit(e) == IF GroupSubtiles > 0 THEN GroupSubtiles ELSE Width(e)

(* Under ExpertHiddenMajor: the group is a window of its expert's subtiles. *)
LEMMA GroupIs ==
  ASSUME RouteInputs, L2Schedule # "SubtileMajor", NEW e \in Experts,
         NEW s \in First(e) .. First(e) + Width(e) - 1
  PROVE  LET begin == ((s - First(e)) \div Limit(e)) * Limit(e)
         IN  /\ GroupOf(s) = [begin |-> First(e) + begin,
                              size |-> Least(Limit(e), Width(e) - begin),
                              slot |-> First(e) + ((s - First(e)) \div Limit(e))]
             /\ s \in GroupMembers(GroupOf(s))
             /\ GroupOf(s).begin >= First(e)
             /\ GroupOf(s).size \in Nat \ {0}
             /\ GroupOf(s).begin + GroupOf(s).size <= First(e) + Width(e)
             /\ GroupOf(s).slot \in First(e) .. First(e) + Width(e) - 1
             /\ \A t \in First(e) .. First(e) + Width(e) - 1 :
                  t \in GroupMembers(GroupOf(s))
                    <=> (t - First(e)) \div Limit(e) = (s - First(e)) \div Limit(e)
  <1> DEFINE f == First(e)
             w == Width(e)
             n == Limit(e)
             p == s - f
             q == p \div n
             begin == q * n
             size == Least(n, w - begin)
  <1>1. f \in Nat /\ w \in Nat /\ SubtileBegin(e) = f /\ ExpertSubtiles(e) = w
    BY ExpertRange
  <1>2. TileExpert(TileOf(s)) = e
    BY SubtileOwned
  <1>3. GroupOf(s) = [begin |-> f + begin, size |-> size, slot |-> f + q]
    BY <1>1, <1>2 DEF GroupOf, Limit
  <1>4. n \in Nat \ {0}
    BY <1>1 DEF RouteInputs, Limit
  <1> HIDE DEF f, w, n
  <1>5. p \in Nat /\ p < w /\ s = f + p
    BY <1>1 DEF f, w
  <1> HIDE DEF p
  <1>6. q \in Nat /\ p % n \in 0 .. n - 1 /\ p = begin + (p % n)
    BY <1>4, <1>5, DivMod
  <1>7. begin \in Nat /\ q <= begin
    <2> HIDE DEF q
    <2>1. q * 1 <= q * n
      BY <1>4, <1>6
    <2> QED BY <1>4, <1>6, <2>1, TimesNat
  <1>8. ASSUME NEW t \in Nat
        PROVE  (t \div n = q) <=> (begin <= t /\ t <= begin + n - 1)
    <2>1. t \div n = q => begin <= t /\ t <= begin + n - 1
      <3>1. t \div n \in Nat /\ t % n \in 0 .. n - 1 /\ t = (t \div n) * n + (t % n)
        BY <1>4, DivMod
      <3> QED BY <1>4, <1>7, <3>1
    <2>2. ASSUME begin <= t, t <= begin + n - 1
          PROVE  t \div n = q
      <3>1. t - begin \in 0 .. n - 1 /\ t = begin + (t - begin)
        BY <1>4, <1>7, <2>2
      <3> HIDE DEF q
      <3> QED BY <1>4, <1>6, <3>1, DivIs
    <2> QED BY <2>1, <2>2
  <1> HIDE DEF q, begin
  <1>9. size \in Nat \ {0} /\ begin + size <= w /\ size <= n
        /\ (size = n \/ size = w - begin)
    <2>1. begin < w
      BY <1>1, <1>4, <1>5, <1>6, <1>7
    <2> QED BY <1>1, <1>4, <1>7, <2>1 DEF Least
  <1> HIDE DEF size
  <1>10. s \in f + begin .. f + begin + size - 1
    BY <1>1, <1>4, <1>5, <1>6, <1>7, <1>9
  <1>11. ASSUME NEW t \in f .. f + w - 1
         PROVE  t \in f + begin .. f + begin + size - 1 <=> (t - f) \div n = q
    <2>1. t - f \in Nat /\ t - f < w
      BY <1>1
    <2>2. (t - f) \div n = q <=> (begin <= t - f /\ t - f <= begin + n - 1)
      BY <1>8, <2>1
    <2> QED BY <1>1, <1>4, <1>7, <1>9, <2>1, <2>2
  <1>12. f + q \in f .. f + w - 1
    BY <1>1, <1>5, <1>6, <1>7, <1>4
  <1> QED BY <1>1, <1>3, <1>7, <1>9, <1>10, <1>11, <1>12
          DEF GroupMembers, f, w, n, p, q, begin, size

LEMMA GroupShape ==
  ASSUME RouteInputs, NEW s \in Subtiles
  PROVE  /\ GroupOf(s).begin \in Nat /\ GroupOf(s).size \in Nat \ {0}
         /\ GroupOf(s).slot \in Subtiles
         /\ GroupMembers(GroupOf(s)) \subseteq Subtiles
         /\ s \in GroupMembers(GroupOf(s))
         /\ \A t \in GroupMembers(GroupOf(s)) : GroupOf(t) = GroupOf(s)
         /\ \A t \in Subtiles :
              GroupOf(t).slot = GroupOf(s).slot => t \in GroupMembers(GroupOf(s))
  <1>1. CASE L2Schedule = "SubtileMajor"
    <2>1. \A t : GroupOf(t) = [begin |-> t, size |-> 1, slot |-> t]
      BY <1>1 DEF GroupOf
    <2>2. s \in Nat
      BY Totals DEF Subtiles
    <2>3. GroupMembers(GroupOf(s)) = {s}
      BY <2>1, <2>2 DEF GroupMembers
    <2> QED BY <2>1, <2>2, <2>3
  <1>2. CASE L2Schedule # "SubtileMajor"
    <2> DEFINE Mine(e) == First(e) .. First(e) + Width(e) - 1
               E == TileExpert(TileOf(s))
               g == GroupOf(s)
    <2>1. \A t \in Subtiles : /\ TileExpert(TileOf(t)) \in Experts
                              /\ t \in Mine(TileExpert(TileOf(t)))
      BY SubtileOwner
    <2>2. \A e \in Experts : \A t \in Mine(e) : t \in Subtiles /\ TileExpert(TileOf(t)) = e
      BY SubtileOwned
    <2>3. E \in Experts /\ s \in Mine(E) /\ First(E) \in Nat /\ Width(E) \in Nat
      BY <2>1, ExpertRange
    <2>4. /\ s \in GroupMembers(g) /\ g.begin >= First(E) /\ g.size \in Nat \ {0}
          /\ g.begin + g.size <= First(E) + Width(E)
          /\ g.slot \in Mine(E) /\ g.begin \in Int
      <3> DEFINE begin == ((s - First(E)) \div Limit(E)) * Limit(E)
      <3>1. g.begin = First(E) + begin
        BY <1>2, <2>3, GroupIs
      <3>2. begin \in Int
        <4>1. Limit(E) \in Nat \ {0} /\ s - First(E) \in Nat
          BY <2>3 DEF RouteInputs, Limit
        <4>2. (s - First(E)) \div Limit(E) \in Nat
          BY <4>1, DivMod
        <4> QED BY <4>1, <4>2, TimesNat
      <3> HIDE DEF begin
      <3>3. g.begin \in Int
        BY <2>3, <3>1, <3>2
      <3> QED BY <1>2, <2>3, <3>3, GroupIs
    <2>5. GroupMembers(g) \subseteq Mine(E)
      <3> HIDE DEF g, E
      <3> QED BY <2>3, <2>4 DEF GroupMembers
    <2>6. ASSUME NEW t \in GroupMembers(g)
          PROVE  GroupOf(t) = g
      <3>1. t \in Mine(E)
        BY <2>5
      <3>2. (t - First(E)) \div Limit(E) = (s - First(E)) \div Limit(E)
        BY <1>2, <2>3, <3>1, GroupIs
      <3> DEFINE Of(q) == [begin |-> First(E) + q * Limit(E),
                           size |-> Least(Limit(E), Width(E) - q * Limit(E)),
                           slot |-> First(E) + q]
      <3>3. GroupOf(t) = Of((t - First(E)) \div Limit(E))
        BY <1>2, <2>3, <3>1, GroupIs
      <3>4. GroupOf(s) = Of((s - First(E)) \div Limit(E))
        BY <1>2, <2>3, GroupIs
      <3> HIDE DEF Of
      <3> QED BY <3>2, <3>3, <3>4
    <2>7. ASSUME NEW t \in Subtiles, GroupOf(t).slot = g.slot
          PROVE  t \in GroupMembers(g)
      <3> DEFINE e == TileExpert(TileOf(t))
      <3>1. e \in Experts /\ t \in Mine(e)
        BY <2>1
      <3>2. GroupOf(t).slot \in Mine(e)
        BY <1>2, <3>1, GroupIs
      <3>3. e = E
        BY <2>2, <2>3, <2>4, <2>7, <3>1, <3>2
      <3>4. GroupOf(t).slot = First(E) + ((t - First(E)) \div Limit(E))
            /\ g.slot = First(E) + ((s - First(E)) \div Limit(E))
        BY <1>2, <2>3, <3>1, <3>3, GroupIs
      <3>5. t \in Mine(E)
        BY <3>1, <3>3
      <3>6. (t - First(E)) \div Limit(E) = (s - First(E)) \div Limit(E)
        <4> DEFINE n == Limit(E)
                   a == t - First(E)
                   b == s - First(E)
        <4>1. n \in Nat \ {0} /\ a \in Nat /\ b \in Nat
          BY <2>3, <3>5 DEF RouteInputs, Limit
        <4> HIDE DEF n, a, b
        <4>2. a \div n \in Nat /\ b \div n \in Nat
          BY <4>1, DivMod
        <4>3. First(E) + (a \div n) = First(E) + (b \div n)
          BY <2>7, <3>4 DEF a, b, n
        <4>4. a \div n = b \div n
          <5> DEFINE x == a \div n
                     y == b \div n
          <5> HIDE DEF x, y, E
          <5> QED BY <2>3, <4>2, <4>3 DEF x, y
        <4> QED BY <4>4 DEF a, b, n
      <3> QED BY <1>2, <2>3, <3>5, <3>6, GroupIs
    <2> HIDE DEF g, E
    <2>8. g.begin \in Nat /\ g.slot \in Subtiles /\ GroupMembers(g) \subseteq Subtiles
      BY <2>2, <2>3, <2>4, <2>5
    <2> QED BY <2>4, <2>6, <2>7, <2>8 DEF g
  <1> QED BY <1>1, <1>2

(* The queue entries of a group are the L2 tasks of its members, each once. *)
LEMMA EntriesAre ==
  ASSUME RouteInputs, NEW s \in Subtiles
  PROVE  LET g == GroupOf(s)
             n == g.size * NumHiddenChunks
         IN  /\ n \in Nat \ {0}
             /\ \A i \in 0 .. n - 1 :
                  GroupEntry(g, i) \in L2Tasks
                  /\ SubtileOfL2(GroupEntry(g, i)) \in GroupMembers(g)
             /\ \A i, j \in 0 .. n - 1 : GroupEntry(g, i) = GroupEntry(g, j) => i = j
             /\ \A k \in L2Tasks : SubtileOfL2(k) \in GroupMembers(g) =>
                  \E i \in 0 .. n - 1 : k = GroupEntry(g, i)
  <1> DEFINE g == GroupOf(s)
             H == NumHiddenChunks
             b == g.begin
             m == g.size
             n == m * H
             N == total_subtiles
  <1>1. H \in Nat \ {0} /\ N \in Nat /\ N * H \in Nat /\ total_l2_tasks = N * H
    BY Totals DEF total_l2_tasks
  <1>2. b \in Nat /\ m \in Nat \ {0} /\ GroupMembers(g) = b .. b + m - 1
        /\ GroupMembers(g) \subseteq 0 .. N - 1
    BY GroupShape DEF GroupMembers, Subtiles
  <1>3. \A i : GroupEntry(g, i) = (b + (i % m)) * H + (i \div m)
    BY DEF GroupEntry
  <1>4. L2Tasks = 0 .. N * H - 1 /\ \A k : SubtileOfL2(k) = k \div H
    BY DEF L2Tasks, total_l2_tasks, SubtileOfL2
  <1> HIDE DEF g, H, b, m, N
  <1>5. n \in Nat \ {0} /\ n = H * m
    BY <1>1, <1>2, TimesNat
  <1>6. ASSUME NEW i \in 0 .. n - 1
        PROVE  /\ i \div m \in 0 .. H - 1 /\ i % m \in 0 .. m - 1
               /\ i = (i \div m) * m + (i % m)
               /\ GroupEntry(g, i) \in L2Tasks
               /\ SubtileOfL2(GroupEntry(g, i)) = b + (i % m)
               /\ GroupEntry(g, i) % H = i \div m
    <2>1. i \in Nat /\ i < H * m
      <3> HIDE DEF n
      <3> QED BY <1>5
    <2>2. i \div m \in 0 .. H - 1 /\ i % m \in 0 .. m - 1 /\ i = (i \div m) * m + (i % m)
      BY <1>1, <1>2, <2>1, UnpackPair
    <2> DEFINE p == i % m
               q == i \div m
    <2> HIDE DEF p, q
    <2>3. b + p \in 0 .. N - 1
      BY <1>2, <2>2 DEF p
    <2>4. (b + p) * H + q \in 0 .. N * H - 1 /\ ((b + p) * H + q) \div H = b + p
          /\ ((b + p) * H + q) % H = q
      <3>1. H \in Nat \ {0} /\ N \in Nat /\ q \in 0 .. H - 1
        BY <1>1, <2>2 DEF q
      <3> DEFINE x == b + p
      <3>2. x \in 0 .. N - 1
        BY <2>3
      <3> HIDE DEF x
      <3>3. x * H + q \in 0 .. N * H - 1 /\ (x * H + q) \div H = x /\ (x * H + q) % H = q
        BY <3>1, <3>2, PackPair
      <3> QED BY <3>3 DEF x
    <2>5. GroupEntry(g, i) = (b + p) * H + q
      BY <1>3 DEF p, q
    <2> QED BY <1>4, <2>2, <2>4, <2>5 DEF p, q
  <1>7. ASSUME NEW i \in 0 .. n - 1
        PROVE  SubtileOfL2(GroupEntry(g, i)) \in GroupMembers(g)
    <2>1. i % m \in 0 .. m - 1 /\ SubtileOfL2(GroupEntry(g, i)) = b + (i % m)
      BY <1>6
    <2> DEFINE p == i % m
    <2> HIDE DEF p
    <2> QED BY <1>2, <2>1 DEF p
  <1>8. ASSUME NEW i \in 0 .. n - 1, NEW j \in 0 .. n - 1,
               GroupEntry(g, i) = GroupEntry(g, j)
        PROVE  i = j
    <2>1. b + (i % m) = b + (j % m) /\ i \div m = j \div m
      BY <1>6, <1>8
    <2>2. i % m \in 0 .. m - 1 /\ j % m \in 0 .. m - 1
      BY <1>6
    <2>3. i % m = j % m
      <3> DEFINE x == i % m
                 y == j % m
      <3> HIDE DEF x, y
      <3> QED BY <1>2, <2>1, <2>2 DEF x, y
    <2>4. i = (i \div m) * m + (i % m) /\ j = (j \div m) * m + (j % m)
      BY <1>6
    <2> QED BY <2>1, <2>3, <2>4
  <1>9. ASSUME NEW k \in L2Tasks, SubtileOfL2(k) \in GroupMembers(g)
        PROVE  \E i \in 0 .. n - 1 : k = GroupEntry(g, i)
    <2> DEFINE p == k \div H - b
               q == k % H
               i == q * m + p
    <2>1. k \in Nat
      BY <1>1, <1>4
    <2>2. k \div H \in Nat /\ q \in 0 .. H - 1 /\ k = (k \div H) * H + q
      BY <1>1, <2>1, DivMod
    <2>3. k \div H \in b .. b + m - 1
      BY <1>2, <1>4, <1>9
    <2>4. p \in 0 .. m - 1 /\ b + p = k \div H
      <3> DEFINE x == k \div H
      <3> HIDE DEF x
      <3> QED BY <1>2, <2>2, <2>3 DEF x
    <2> HIDE DEF p, q
    <2>5. i \in 0 .. H * m - 1 /\ i \div m = q /\ i % m = p
      <3>1. H \in Nat /\ m \in Nat \ {0} /\ q \in 0 .. H - 1 /\ p \in 0 .. m - 1
        BY <1>1, <1>2, <2>2, <2>4
      <3> QED BY <3>1, PackPair
    <2>6. GroupEntry(g, i) = (b + p) * H + q
      BY <1>3, <2>5
    <2>7. i \in 0 .. n - 1
      BY <1>5, <2>5
    <2> HIDE DEF i
    <2> QED BY <2>2, <2>4, <2>6, <2>7
  <1> QED BY <1>5, <1>6, <1>7, <1>8, <1>9 DEF g, H, m

LEMMA EntriesCount ==
  ASSUME RouteInputs, NEW s \in Subtiles
  PROVE  /\ IsFiniteSet(GroupEntries(GroupOf(s)))
         /\ Cardinality(GroupEntries(GroupOf(s))) = GroupOf(s).size * NumHiddenChunks
  <1> DEFINE g == GroupOf(s)
             n == g.size * NumHiddenChunks
             f == [i \in 0 .. n - 1 |-> GroupEntry(g, i)]
  <1>1. n \in Nat \ {0} /\ \A i, j \in 0 .. n - 1 : GroupEntry(g, i) = GroupEntry(g, j) => i = j
    BY EntriesAre
  <1> HIDE DEF n, g
  <1>2. GroupEntries(g) = {GroupEntry(g, i) : i \in 0 .. n - 1}
    BY DEF GroupEntries, n
  <1>3. f \in [0 .. n - 1 -> GroupEntries(g)]
        /\ \A k \in GroupEntries(g) : \E i \in 0 .. n - 1 : f[i] = k
    BY <1>2
  <1>4. \A i, j \in 0 .. n - 1 : f[i] = f[j] => i = j
    BY <1>1
  <1>5. IsFiniteSet(0 .. n - 1) /\ Cardinality(0 .. n - 1) = n
    BY <1>1, UpTo
  <1>6. ExistsBijection(0 .. n - 1, GroupEntries(g))
    <2> HIDE DEF f
    <2>1. f \in Bijection(0 .. n - 1, GroupEntries(g))
      BY <1>3, <1>4 DEF Bijection, Injection, Surjection, IsInjective
    <2> QED BY <2>1 DEF ExistsBijection
  <1>7. IsFiniteSet(GroupEntries(g)) /\ Cardinality(GroupEntries(g)) = n
    BY <1>5, <1>6, FS_Bijection
  <1> QED BY <1>7 DEF g, n

(* For every schedule the groups partition the subtiles, and their queue    *)
(* entries the L2 tasks (dcu_enqueue_l2_ready_for_subtile).                 *)
THEOREM GroupsSplitTasks == RouteInputs => GroupsPartition
  <1> SUFFICES ASSUME RouteInputs
               PROVE  GroupsPartition
    OBVIOUS
  <1> DEFINE groups == {GroupOf(s) : s \in Subtiles}
  <1>1. ASSUME NEW s \in Subtiles
        PROVE  {t \in Subtiles : GroupOf(t).slot = GroupOf(s).slot} = GroupMembers(GroupOf(s))
    BY GroupShape
  <1>2. \A g \in groups : g.slot \in Subtiles
    BY GroupShape
  <1>3. UNION {GroupEntries(g) : g \in groups} = L2Tasks
    <2>1. ASSUME NEW g \in groups
          PROVE  GroupEntries(g) \subseteq L2Tasks
      BY EntriesAre DEF GroupEntries
    <2>2. ASSUME NEW k \in L2Tasks
          PROVE  \E g \in groups : k \in GroupEntries(g)
      <3> DEFINE s == SubtileOfL2(k)
      <3>1. s \in Subtiles
        <4> DEFINE H == NumHiddenChunks
                   N == total_subtiles
        <4>1. H \in Nat \ {0} /\ N \in Nat /\ N * H \in Nat
          BY Totals DEF total_l2_tasks
        <4> HIDE DEF H, N
        <4>2. k \in Nat /\ k < N * H
          BY <4>1 DEF L2Tasks, total_l2_tasks, N, H
        <4>3. k \div H \in 0 .. N - 1
          BY <4>1, <4>2, UnpackPair
        <4> QED BY <4>3 DEF SubtileOfL2, Subtiles, H, N
      <3>2. s \in GroupMembers(GroupOf(s))
        BY <3>1, GroupShape
      <3> HIDE DEF s
      <3>3. k \in GroupEntries(GroupOf(s))
        BY <3>1, <3>2, EntriesAre DEF GroupEntries, s
      <3> QED BY <3>1, <3>3
    <2> QED BY <2>1, <2>2
  <1>4. \A g \in groups : Cardinality(GroupEntries(g)) = g.size * NumHiddenChunks
    BY EntriesCount
  <1> QED BY <1>1, <1>2, <1>3, <1>4 DEF GroupsPartition

-----------------------------------------------------------------------------
(* The rows in the tiles.                                                   *)

(* The valid rows of a subtile are those inside its expert's pool.          *)
LEMMA SubtileRows ==
  ASSUME RouteInputs, NEW e \in Experts, NEW s \in First(e) .. First(e) + Width(e) - 1
  PROVE  /\ \A r : PoolRow(s, r) = (s - First(e)) * MtileM + r
         /\ ValidRows(s) \in 0 .. MtileM
         /\ \A r \in 0 .. MtileM - 1 :
              r < ValidRows(s) <=> (s - First(e)) * MtileM + r < PooledRows(e)
  <1> DEFINE S == SubtilesPerTile
             M == RouteTileM
             u == MtileM
             t == s \div S
             j == s % S
             b == (t - TileStart[e]) * M
             o == b + j * u
             P == PooledRows(e)
             rest == Least(M, P - b) - j * u
  <1>1. S \in Nat \ {0} /\ M \in Nat /\ u \in Nat \ {0} /\ M = S * u
        /\ P \in Nat /\ First(e) \in Nat
    BY Inputs, ExpertRange DEF RouteInputs
  <1>2. TileStart[e] \in Nat /\ First(e) = TileStart[e] * S
    <2>1. e \in 0 .. e /\ e \in 0 .. NumExperts
      BY DEF RouteInputs, Experts
    <2> QED BY <2>1, TileStartMono DEF First
  <1>3. s \in Nat /\ s \in Subtiles /\ TileExpert(TileOf(s)) = e
    BY <1>1, SubtileOwned
  <1>4. TileOf(s) = t /\ TilePoolBase(t) = b /\ TileCount(t) = Least(M, P - b)
    BY <1>3 DEF TileOf, TilePoolBase, TileCount
  <1>5. ValidRows(s) = IF rest <= 0 THEN 0 ELSE Least(rest, u)
    BY <1>4 DEF ValidRows
  <1>6. \A r : PoolRow(s, r) = b + j * u + r
    BY <1>4 DEF PoolRow
  <1> HIDE DEF S, M, u, t, j, b, P
  <1>7. t \in Nat /\ j \in 0 .. S - 1 /\ s = t * S + j
    BY <1>1, <1>3, DivMod DEF t, j
  <1>8. o = (s - First(e)) * u /\ b \in Int /\ j * u \in Int
    <2> DEFINE d == t - TileStart[e]
    <2>1. d \in Int /\ s - First(e) = d * S + j
      <3>1. d \in Int /\ d * S = t * S - TileStart[e] * S
        BY <1>1, <1>2, <1>7
      <3> QED BY <1>1, <1>2, <1>3, <1>7, <3>1
    <2>2. b = d * M
      BY DEF b
    <2> HIDE DEF d
    <2>3. d * M = d * S * u
      BY <1>1, <2>1, TimesAssoc
    <2>4. (d * S + j) * u = d * S * u + j * u
      BY <1>1, <1>7, <2>1
    <2>5. d * S * u \in Int /\ j * u \in Int
      BY <1>1, <1>7, <2>1
    <2> QED BY <2>1, <2>2, <2>3, <2>4, <2>5
  <1>9. j * u + u <= M
    BY <1>1, <1>7, TimesLess
  <1> DEFINE a == j * u
  <1>10. a \in Int /\ a + u <= M /\ rest = Least(M, P - b) - a /\ o = b + a
    BY <1>8, <1>9
  <1> HIDE DEF a, rest, o
  <1>11. (rest = M - a \/ rest = P - o) /\ rest <= M - a /\ rest <= P - o
    BY <1>1, <1>8, <1>10 DEF Least
  <1>12. \A r \in 0 .. u - 1 : r < ValidRows(s) <=> o + r < P
    BY <1>1, <1>5, <1>8, <1>10, <1>11 DEF Least
  <1>13. ValidRows(s) \in 0 .. u
    BY <1>1, <1>5, <1>8, <1>10, <1>11 DEF Least
  <1>14. \A r : PoolRow(s, r) = o + r
    BY <1>6, <1>10 DEF a
  <1> QED BY <1>8, <1>12, <1>13, <1>14 DEF u, P

LEMMA RowsBeforeStep ==
  ASSUME RouteInputs
  PROVE  /\ RowsBefore \in [0 .. NumExperts -> Nat]
         /\ RowsBefore[0] = 0
         /\ \A e \in Experts : RowsBefore[e + 1] = RowsBefore[e] + PooledRows(e)
  <1> DEFINE Def(f, e) == IF e = 0 THEN 0 ELSE f[e - 1] + PooledRows(e - 1)
             g == [x \in Nat |-> [e \in Experts |-> x + PooledRows(e)]]
  <1>1. NumExperts \in Nat /\ \A e \in Experts : PooledRows(e) \in Nat
    BY Inputs DEF RouteInputs
  <1>2. PICK f : Follows(f, g, NumExperts)
    <2> HIDE DEF g
    <2> QED BY <1>1, Recurrence
  <1> USE DEF Follows
  <1>3. f[0] = 0
    BY <1>1, <1>2
  <1>4. ASSUME NEW e \in Experts
        PROVE  f[e + 1] = g[f[e]][e]
    <2>1. e + 1 \in 0 .. NumExperts /\ e + 1 # 0 /\ (e + 1) - 1 = e
      BY <1>1 DEF Experts
    <2> HIDE DEF g
    <2> QED BY <1>2, <2>1
  <1>5. ASSUME NEW x \in Nat, NEW e \in Experts
        PROVE  g[x][e] = x + PooledRows(e) /\ g[x][e] \in Nat
    BY <1>1
  <1> HIDE DEF g
  <1>6. \A e \in 0 .. NumExperts : f[e] \in Nat
    <2> DEFINE Typed == {e \in 0 .. NumExperts : f[e] \in Nat}
    <2>1. 0 \in Typed
      BY <1>1, <1>3
    <2>2. \A e \in 0 .. NumExperts - 1 : e \in Typed => e + 1 \in Typed
      BY SMTT(30), <1>1, <1>4, <1>5 DEF Experts
    <2> HIDE DEF Typed
    <2>3. 0 .. NumExperts \subseteq Typed
      BY <1>1, <2>1, <2>2, InductionTo
    <2> QED BY <2>3 DEF Typed
  <1>7. ASSUME NEW e \in 0 .. NumExperts
        PROVE  f[e] = Def(f, e)
    <2>1. CASE e = 0
      BY <1>3, <2>1
    <2>2. CASE e # 0
      <3>1. e - 1 \in Experts /\ e - 1 \in 0 .. NumExperts /\ (e - 1) + 1 = e
        BY <1>1, <2>2 DEF Experts
      <3> QED BY <1>4, <1>5, <1>6, <2>2, <3>1
    <2> QED BY <2>1, <2>2
  <1>8. DOMAIN f = 0 .. NumExperts /\ f = [e \in DOMAIN f |-> f[e]]
    BY <1>2
  <1>9. f = [e \in 0 .. NumExperts |-> Def(f, e)]
    BY <1>7, <1>8
  <1>10. RowsBefore = [e \in 0 .. NumExperts |-> Def(RowsBefore, e)]
    BY <1>9 DEF RowsBefore
  <1>11. RowsBefore[0] = 0
    BY <1>1, <1>10
  <1>12. ASSUME NEW e \in Experts
         PROVE  RowsBefore[e + 1] = RowsBefore[e] + PooledRows(e)
    <2>1. e + 1 \in 0 .. NumExperts /\ e + 1 # 0 /\ (e + 1) - 1 = e
      BY <1>1 DEF Experts
    <2> QED BY <1>10, <2>1
  <1>13. \A e \in 0 .. NumExperts : RowsBefore[e] \in Nat
    <2> DEFINE Typed == {e \in 0 .. NumExperts : RowsBefore[e] \in Nat}
    <2>1. 0 \in Typed
      BY <1>1, <1>11
    <2>2. \A e \in 0 .. NumExperts - 1 : e \in Typed => e + 1 \in Typed
      BY <1>1, <1>12 DEF Experts
    <2> HIDE DEF Typed
    <2>3. 0 .. NumExperts \subseteq Typed
      BY <1>1, <2>1, <2>2, InductionTo
    <2> QED BY <2>3 DEF Typed
  <1> QED BY <1>10, <1>11, <1>12, <1>13

LEMMA RowsBeforeMono ==
  ASSUME RouteInputs, NEW e \in 0 .. NumExperts
  PROVE  RowsBefore[e] <= RowsBefore[NumExperts]
  <1>1. NumExperts \in Nat /\ \A x \in 0 .. NumExperts : RowsBefore[x] \in Nat
    BY RowsBeforeStep DEF RouteInputs
  <1>2. \A x \in Experts : RowsBefore[x] <= RowsBefore[x + 1]
    BY <1>1, RowsBeforeStep, Inputs
  <1> DEFINE Above == {x \in 0 .. NumExperts : e <= x => RowsBefore[e] <= RowsBefore[x]}
  <1>3. 0 \in Above
    BY <1>1
  <1>4. ASSUME NEW x \in 0 .. NumExperts - 1, x \in Above
        PROVE  x + 1 \in Above
    <2>1. x \in Experts /\ x \in 0 .. NumExperts /\ x + 1 \in 0 .. NumExperts
      BY <1>1 DEF Experts
    <2>2. CASE e = x + 1
      BY <1>1, <2>1, <2>2
    <2>3. CASE e # x + 1
      BY <1>1, <1>2, <1>4, <2>1, <2>3
    <2> QED BY <2>2, <2>3
  <1>5. 0 .. NumExperts \subseteq Above
    <2> HIDE DEF Above
    <2> QED BY <1>1, <1>3, <1>4, InductionTo
  <1>6. NumExperts \in 0 .. NumExperts /\ e <= NumExperts
    BY <1>1
  <1> QED BY <1>5, <1>6

(* The table has room for the tiles of every expert.                        *)
LEMMA TilesRecorded ==
  ASSUME RouteInputs, RowsFit, NEW e \in Experts
  PROVE  TileStart[e + 1] = TileStart[e] + TilesOf(e)
  <1> DEFINE M == RouteTileM
             E == NumExperts
             T(x) == TileStart[x]
             B(x) == RowsBefore[x]
             cap == RouteScratchTiles
  <1>1. M \in Nat \ {0} /\ E \in Nat /\ RouteTasks \in Nat /\ cap \in Nat
    BY Inputs DEF RouteInputs
  <1>2. \A x \in 0 .. E : T(x) \in Nat /\ B(x) \in Nat
    BY TileStartStep, RowsBeforeStep
  <1>3. \A x \in Experts : x \in 0 .. E /\ x + 1 \in 0 .. E /\ x \in Nat
    BY <1>1 DEF Experts
  <1>4. ASSUME NEW x \in Experts
        PROVE  /\ TilesOf(x) \in Nat /\ PooledRows(x) \in Nat
               /\ TilesOf(x) * M <= PooledRows(x) + M - 1
               /\ T(x + 1) = Least(cap, T(x) + TilesOf(x))
               /\ B(x + 1) = B(x) + PooledRows(x)
    <2>1. PooledRows(x) \in Nat /\ TilesOf(x) \in Nat
      BY Inputs
    <2>2. TilesOf(x) * M <= PooledRows(x) + M - 1
      BY <1>1, <2>1, CeilDivIs DEF TilesOf
    <2> QED BY <2>1, <2>2, TileStartStep, RowsBeforeStep
  <1>5. ASSUME NEW x \in Experts, T(x) * M <= B(x) + x * (M - 1)
        PROVE  (T(x) + TilesOf(x)) * M <= B(x + 1) + (x + 1) * (M - 1)
    <2> DEFINE a == T(x)
               b == TilesOf(x)
               y == B(x)
               p == PooledRows(x)
    <2>1. a \in Nat /\ b \in Nat /\ y \in Nat /\ p \in Nat /\ x \in Nat /\ B(x + 1) = y + p
          /\ b * M <= p + M - 1
      BY <1>2, <1>3, <1>4
    <2>2. a * M <= y + x * (M - 1)
      BY <1>5
    <2> HIDE DEF a, b, y, p, M
    <2>3. (a + b) * M = a * M + b * M /\ (x + 1) * (M - 1) = x * (M - 1) + M - 1
      BY <1>1, <2>1
    <2>4. a * M \in Nat /\ b * M \in Nat /\ x * (M - 1) \in Nat
      BY <1>1, <2>1
    <2>5. (a + b) * M <= (y + p) + (x + 1) * (M - 1)
      <3> DEFINE am == a * M
                 bm == b * M
                 xm == x * (M - 1)
      <3> HIDE DEF am, bm, xm
      <3>1. am + bm <= (y + p) + (xm + M - 1)
        BY <1>1, <2>1, <2>2, <2>4 DEF am, bm, xm
      <3> QED BY <2>3, <3>1 DEF am, bm, xm
    <2> QED BY <2>1, <2>5 DEF a, b
  <1> DEFINE Bounded == {x \in 0 .. E : T(x) * M <= B(x) + x * (M - 1)}
  <1>6. 0 \in Bounded
    <2>1. T(0) = 0 /\ B(0) = 0
      BY TileStartStep, RowsBeforeStep
    <2> QED BY <1>1, <2>1
  <1>7. ASSUME NEW x \in 0 .. E - 1, x \in Bounded
        PROVE  x + 1 \in Bounded
    <2>1. x \in Experts /\ x + 1 \in 0 .. E
      BY <1>3 DEF Experts
    <2>2. (T(x) + TilesOf(x)) * M <= B(x + 1) + (x + 1) * (M - 1)
      BY <1>5, <1>7, <2>1
    <2>3. T(x + 1) <= T(x) + TilesOf(x) /\ T(x + 1) \in Nat /\ T(x) + TilesOf(x) \in Nat
      BY <1>1, <1>2, <1>3, <1>4, <2>1 DEF Least
    <2>4. T(x + 1) * M <= (T(x) + TilesOf(x)) * M
      BY <1>1, <2>3, TimesLeq
    <2> DEFINE am == T(x + 1) * M
               bm == (T(x) + TilesOf(x)) * M
               c == B(x + 1) + (x + 1) * (M - 1)
    <2>5. am \in Nat /\ bm \in Nat /\ c \in Int
      <3>1. am \in Nat /\ bm \in Nat
        BY <1>1, <2>3, TimesNat
      <3>2. B(x + 1) \in Nat /\ (x + 1) * (M - 1) \in Int
        BY <1>1, <1>2, <2>1
      <3> QED BY <3>1, <3>2
    <2>6. am <= c
      <3> HIDE DEF am, bm, c
      <3> QED BY <2>2, <2>4, <2>5 DEF am, bm, c
    <2> QED BY <2>1, <2>6
  <1>8. e \in Bounded
    <2> HIDE DEF Bounded
    <2>1. 0 .. E \subseteq Bounded
      BY <1>1, <1>6, <1>7, InductionTo
    <2> QED BY <1>3, <2>1
  <1> DEFINE x == T(e) + TilesOf(e)
  <1>9. x \in Nat /\ x * M <= B(e + 1) + (e + 1) * (M - 1)
    BY <1>2, <1>3, <1>4, <1>5, <1>8
  <1>10. B(e + 1) <= RouteTasks /\ B(e + 1) \in Nat
    <2>1. e + 1 \in 0 .. E
      BY <1>3
    <2>2. B(e + 1) <= B(E) /\ B(E) <= RouteTasks /\ B(e + 1) \in Nat /\ B(E) \in Nat
      BY <1>1, <1>2, <2>1, RowsBeforeMono DEF RowsFit
    <2> QED BY <1>1, <2>2
  <1>11. x <= cap
    <2> SUFFICES ASSUME cap < x
                 PROVE  FALSE
      BY <1>1, <1>9
    <2>1. cap * M + M <= x * M
      BY <1>1, <1>9, TimesLess
    <2> DEFINE c == CeilDiv(RouteTasks, M)
    <2>2. c \in Nat /\ RouteTasks <= c * M /\ cap = E + c
      BY <1>1, CeilDivIs DEF RouteScratchTiles
    <2> HIDE DEF c, M, E
    <2>3. cap * M = E * M + c * M /\ E * M \in Nat /\ c * M \in Nat
      BY <1>1, <2>2
    <2>4. (e + 1) * (M - 1) <= E * M
      <3>1. e + 1 \in Nat /\ e + 1 <= E
        BY <1>1, <1>3
      <3>2. (e + 1) * M <= E * M
        BY <1>1, <3>1, TimesLeq
      <3>3. (e + 1) * (M - 1) = (e + 1) * M - (e + 1) /\ (e + 1) * M \in Nat
        BY <1>1, <3>1
      <3> QED BY <2>3, <3>1, <3>2, <3>3
    <2> DEFINE xm == x * M
               em == E * M
               cm == c * M
               d == (e + 1) * (M - 1)
               y == B(e + 1)
    <2>5. xm \in Nat /\ d \in Int
      BY <1>1, <1>3, <1>9
    <2>6. em + cm + M <= xm /\ xm <= y + d /\ y <= RouteTasks /\ RouteTasks <= cm /\ d <= em
      BY <1>9, <1>10, <2>1, <2>2, <2>3, <2>4
    <2>7. em \in Nat /\ cm \in Nat /\ y \in Nat
      BY <1>10, <2>3
    <2> HIDE DEF xm, em, cm, d, y
    <2> QED BY <1>1, <2>5, <2>6, <2>7
  <1> QED BY <1>1, <1>4, <1>9, <1>11 DEF Least

(* The launcher's table holds the tiles of every expert, and the valid rows *)
(* of an expert's subtiles are its pool's rows, each once: no routed row is *)
(* lost and none is computed twice.                                         *)
THEOREM TilesHoldRows == RouteInputs /\ RowsFit => TilesCoverRows
  <1> SUFFICES ASSUME RouteInputs, RowsFit, NEW e \in Experts
               PROVE  LET mine == {s \in Subtiles : TileExpert(TileOf(s)) = e}
                          rows == UNION {{<<s, r>> : r \in 0 .. ValidRows(s) - 1} : s \in mine}
                      IN  /\ {PoolRow(x[1], x[2]) : x \in rows} = 0 .. PooledRows(e) - 1
                          /\ \A x, y \in rows :
                               PoolRow(x[1], x[2]) = PoolRow(y[1], y[2]) => x = y
    BY DEF TilesCoverRows
  <1> DEFINE mine == {s \in Subtiles : TileExpert(TileOf(s)) = e}
             rows == UNION {{<<s, r>> : r \in 0 .. ValidRows(s) - 1} : s \in mine}
             f == First(e)
             w == Width(e)
             u == MtileM
             P == PooledRows(e)
  <1>1. f \in Nat /\ w \in Nat /\ u \in Nat \ {0} /\ P \in Nat
    BY Inputs, ExpertRange DEF RouteInputs
  <1>2. P <= w * u
    <2>1. w = TilesOf(e) * SubtilesPerTile
      <3>1. TileStart[e + 1] - TileStart[e] = TilesOf(e)
        <4>1. e \in 0 .. NumExperts /\ TilesOf(e) \in Nat
          BY Inputs
        <4>2. TileStart[e] \in Nat
          BY <4>1, TileStartStep
        <4> QED BY <4>1, <4>2, TilesRecorded
      <3> QED BY <3>1 DEF Width
    <2>2. TilesOf(e) \in Nat /\ SubtilesPerTile \in Nat /\ RouteTileM = SubtilesPerTile * u
      BY Inputs
    <2>3. w * u = TilesOf(e) * RouteTileM
      BY <1>1, <2>1, <2>2, TimesAssoc
    <2>4. P <= TilesOf(e) * RouteTileM
      BY <1>1, CeilDivIs DEF TilesOf, RouteInputs
    <2> QED BY <2>3, <2>4
  <1>3. mine = f .. f + w - 1
    BY SubtileOwner, SubtileOwned
  <1>4. ASSUME NEW s \in mine
        PROVE  /\ \A r : PoolRow(s, r) = (s - f) * u + r
               /\ ValidRows(s) \in 0 .. u
               /\ \A r \in 0 .. u - 1 : r < ValidRows(s) <=> (s - f) * u + r < P
    BY <1>3, SubtileRows
  <1> HIDE DEF mine, f, w, u, P
  <1>5. \A s \in mine : s - f \in Nat /\ s \in Int
    BY <1>1, <1>3
  <1>6. \A x \in rows : /\ x = <<x[1], x[2]>> /\ x[1] \in mine /\ x[2] \in 0 .. u - 1
                        /\ x[2] < ValidRows(x[1])
    BY <1>1, <1>4
  <1>7. ASSUME NEW x \in rows
        PROVE  PoolRow(x[1], x[2]) \in 0 .. P - 1
    <2> DEFINE a == (x[1] - f) * u
    <2>1. a \in Nat /\ PoolRow(x[1], x[2]) = a + x[2]
      BY <1>1, <1>4, <1>5, <1>6, TimesNat
    <2>2. a + x[2] < P
      BY <1>4, <1>6
    <2> HIDE DEF a
    <2>3. x[2] \in 0 .. u - 1
      BY <1>6
    <2> QED BY <1>1, <2>1, <2>2, <2>3
  <1>8. ASSUME NEW p \in 0 .. P - 1
        PROVE  \E x \in rows : PoolRow(x[1], x[2]) = p
    <2> DEFINE q == p \div u
               r == p % u
               s == f + q
    <2>1. p \in Nat /\ p < P /\ p < w * u
      <3>1. w * u \in Nat
        BY <1>1, TimesNat
      <3> DEFINE z == w * u
      <3> HIDE DEF z
      <3>2. p \in Nat /\ p < P /\ p < z
        BY <1>1, <1>2, <3>1 DEF z
      <3> QED BY <3>2 DEF z
    <2>2. q \in 0 .. w - 1 /\ r \in 0 .. u - 1 /\ p = q * u + r
      BY <1>1, <2>1, UnpackPair
    <2> HIDE DEF q, r
    <2>3. s \in mine /\ s - f = q
      BY <1>1, <1>3, <2>2
    <2> HIDE DEF s
    <2>4. PoolRow(s, r) = p /\ r < ValidRows(s)
      BY <1>4, <2>1, <2>2, <2>3
    <2>5. r \in 0 .. ValidRows(s) - 1
      <3>1. ValidRows(s) \in 0 .. u
        BY <1>4, <2>3
      <3> QED BY <1>1, <2>2, <2>4, <3>1
    <2>6. <<s, r>> \in rows
      BY <2>3, <2>5
    <2> QED BY <2>4, <2>6
  <1>9. ASSUME NEW x \in rows, NEW y \in rows, PoolRow(x[1], x[2]) = PoolRow(y[1], y[2])
        PROVE  x = y
    <2>1. (x[1] - f) * u + x[2] = (y[1] - f) * u + y[2]
      BY <1>4, <1>6, <1>9
    <2>2. x[1] - f = y[1] - f /\ x[2] = y[2]
      <3> DEFINE a == x[1] - f
                 b == y[1] - f
                 c == x[2]
                 d == y[2]
      <3>1. a \in Int /\ b \in Int /\ c \in 0 .. u - 1 /\ d \in 0 .. u - 1
        BY <1>5, <1>6
      <3> HIDE DEF a, b, c, d
      <3>2. a * u + c = b * u + d
        BY <2>1 DEF a, b, c, d
      <3>3. a = b /\ c = d
        BY <1>1, <3>1, <3>2, QuotientUnique
      <3> QED BY <3>3 DEF a, b, c, d
    <2>3. x[1] = y[1]
      BY <1>1, <1>5, <1>6, <2>2
    <2> QED BY <1>6, <2>2, <2>3
  <1>10. {PoolRow(x[1], x[2]) : x \in rows} = 0 .. P - 1
    <2> HIDE DEF rows
    <2> QED BY <1>7, <1>8
  <1> QED BY <1>9, <1>10 DEF P, mine
===============================================================================

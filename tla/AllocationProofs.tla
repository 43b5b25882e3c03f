----------------------------- MODULE AllocationProofs ---------------------------
(****************************************************************************)
(* The allocation service, for any processes, cycles, fleets, limits and    *)
(* faults.  First the engine: it divides every budget among every fleet     *)
(* fairly.  Then the service: its state is well typed, one instruction at   *)
(* most is in doubt, and the store accounts for what left the wallet.  The  *)
(* planner looks for instructions in flight once, many steps before it      *)
(* sends; that nobody else sends meanwhile is what the run lock is for, and *)
(* the only thing that keeps two processes apart.  Last the lock itself,    *)
(* which is code, and a module, of its own.                                 *)
(****************************************************************************)
EXTENDS Allocation, RunLock, Sums

--------------------------------------------------------------------------------
(****************************************************************************)
(* The engine.  Discarded fractions and addresses order the wallets, so     *)
(* that each has a rank of its own; what the floors leave over is less than *)
(* the number of wallets with a fraction to discard, so that a wallet gets  *)
(* one mojo of it or none, and none without a fraction.                     *)
(****************************************************************************)

(* What an engine is given: Trees with wallets and uptimes.                 *)
Fleetlike(records) ==
  IsFiniteSet(records) /\ \A r \in records : r.wallet \in Nat /\ r.uptime \in Nat

(* The wallets that come before w for a leftover mojo.                      *)
Ahead(C, d, w) == {v \in C : Before(d, v, w)}
RankIn(C, d, w) == Cardinality(Ahead(C, d, w))

(* A rank is a number below that of the wallets.                            *)
LEMMA RankBelow ==
  ASSUME NEW C, IsFiniteSet(C), C \subseteq Nat, NEW d \in [C -> Nat], NEW w \in C
  PROVE  /\ RankIn(C, d, w) \in 0..(Cardinality(C) - 1) /\ RankIn(C, d, w) \in Nat
         /\ IsFiniteSet(Ahead(C, d, w))
<1> DEFINE R == C \ {w}
<1>1. Ahead(C, d, w) \subseteq R
  BY DEF Ahead, Before
<1>2. IsFiniteSet(R) /\ Cardinality(R) = Cardinality(C) - 1
  BY FS_RemoveElement
<1>3. Cardinality(C) \in Nat
  BY FS_CardinalityType
<1>4. IsFiniteSet(Ahead(C, d, w)) /\ Cardinality(Ahead(C, d, w)) <= Cardinality(R)
  <2> HIDE DEF R
  <2> QED BY <1>1, <1>2, FS_Subset
<1>5. Cardinality(Ahead(C, d, w)) \in Nat
  BY <1>4, FS_CardinalityType
<1> HIDE DEF R
<1> QED BY <1>2, <1>3, <1>4, <1>5 DEF RankIn

(* Who comes before has the smaller rank.                                   *)
LEMMA RankOrders ==
  ASSUME NEW C, IsFiniteSet(C), C \subseteq Nat, NEW d \in [C -> Nat], NEW v \in C, NEW w \in C,
         Before(d, v, w)
  PROVE  RankIn(C, d, v) < RankIn(C, d, w)
<1>1. Ahead(C, d, v) \subseteq Ahead(C, d, w)
  <2> SUFFICES ASSUME NEW u \in C, Before(d, u, v) PROVE Before(d, u, w)
    BY DEF Ahead
  <2>1. d[u] \in Nat /\ d[v] \in Nat /\ d[w] \in Nat /\ u \in Nat /\ v \in Nat /\ w \in Nat
    OBVIOUS
  <2> QED BY <2>1 DEF Before
<1>2. v \in Ahead(C, d, w) /\ v \notin Ahead(C, d, v)
  BY DEF Ahead, Before
<1>3. IsFiniteSet(Ahead(C, d, w)) /\ IsFiniteSet(Ahead(C, d, v))
  BY RankBelow
<1>4. /\ Cardinality(Ahead(C, d, v)) <= Cardinality(Ahead(C, d, w))
      /\ Cardinality(Ahead(C, d, v)) # Cardinality(Ahead(C, d, w))
  BY <1>1, <1>2, <1>3, FS_Subset
<1>5. Cardinality(Ahead(C, d, v)) \in Nat /\ Cardinality(Ahead(C, d, w)) \in Nat
  BY <1>3, FS_CardinalityType
<1> QED BY <1>4, <1>5 DEF RankIn

(* Of two wallets one comes before.                                         *)
LEMMA OneIsBefore ==
  ASSUME NEW C, C \subseteq Nat, NEW d \in [C -> Nat], NEW v \in C, NEW w \in C, v # w
  PROVE  Before(d, v, w) \/ Before(d, w, v)
<1>1. d[v] \in Nat /\ d[w] \in Nat /\ v \in Nat /\ w \in Nat
  OBVIOUS
<1> QED BY <1>1 DEF Before

(* So the first k ranks belong to k wallets.                                *)
LEMMA RanksCount ==
  ASSUME NEW C, IsFiniteSet(C), C \subseteq Nat, NEW d \in [C -> Nat],
         NEW k \in 0..Cardinality(C)
  PROVE  Cardinality({w \in C : RankIn(C, d, w) < k}) = k
<1> DEFINE n == Cardinality(C)
           f == [w \in C |-> RankIn(C, d, w)]
           T == {w \in C : RankIn(C, d, w) < k}
           g == [w \in T |-> RankIn(C, d, w)]
<1>1. n \in Nat
  BY FS_CardinalityType
<1>2. IsFiniteSet(0..(n - 1)) /\ Cardinality(0..(n - 1)) = n
  <2> HIDE DEF n
  <2> QED BY <1>1, FS_Interval
<1>3. \A w \in C : RankIn(C, d, w) \in 0..(n - 1)
  BY RankBelow
<1>4. \A v, w \in C : RankIn(C, d, v) = RankIn(C, d, w) => v = w
  <2> SUFFICES ASSUME NEW v \in C, NEW w \in C, v # w PROVE RankIn(C, d, v) # RankIn(C, d, w)
    OBVIOUS
  <2>1. RankIn(C, d, v) \in Int /\ RankIn(C, d, w) \in Int
    BY <1>1, <1>3
  <2>2. RankIn(C, d, v) < RankIn(C, d, w) \/ RankIn(C, d, w) < RankIn(C, d, v)
    BY OneIsBefore, RankOrders
  <2> QED BY <2>1, <2>2
<1>5. f \in Injection(C, 0..(n - 1))
  BY <1>3, <1>4 DEF Injection, IsInjective
<1>6. f \in Surjection(C, 0..(n - 1))
  <2> HIDE DEF f
  <2> QED BY <1>2, <1>5, FS_Injection
<1>7. \A i \in 0..(n - 1) : \E w \in C : RankIn(C, d, w) = i
  BY <1>6 DEF Surjection
<1>8. IsFiniteSet(T)
  BY FS_Subset
<1>9. g \in Bijection(T, 0..(k - 1))
  <2>1. \A w \in T : g[w] \in 0..(k - 1)
    BY <1>1, <1>3
  <2>2. \A v, w \in T : g[v] = g[w] => v = w
    BY <1>4
  <2>3. \A i \in 0..(k - 1) : \E w \in T : g[w] = i
    <3> SUFFICES ASSUME NEW i \in 0..(k - 1) PROVE \E w \in T : g[w] = i
      OBVIOUS
    <3>1. i \in 0..(n - 1) /\ i < k
      BY <1>1
    <3>2. PICK w \in C : RankIn(C, d, w) = i
      BY <1>7, <3>1
    <3> QED BY <3>1, <3>2
  <2> QED BY <2>1, <2>2, <2>3 DEF Bijection, Injection, Surjection, IsInjective
<1>10. Cardinality(0..(k - 1)) = Cardinality(T)
  <2>1. ExistsBijection(T, 0..(k - 1))
    BY <1>9 DEF ExistsBijection
  <2> HIDE DEF T
  <2> QED BY <1>8, <2>1, FS_Bijection
<1>11. Cardinality(0..(k - 1)) = k
  BY <1>1, FS_Interval
<1> QED BY <1>10, <1>11

(* Floors and what they discard.                                            *)
Floored(C, weight, total, budget) == [w \in C |-> (budget * weight[w]) \div total]
Discarded(C, weight, total, budget) == [w \in C |-> (budget * weight[w]) % total]
Leftover(C, weight, total, budget) ==
  budget - SumFunctionOnSet(Floored(C, weight, total, budget), C)

(* Something to divide, and somebody to divide it among.                    *)
Divisible(C, weight, total, budget) ==
  /\ IsFiniteSet(C) /\ weight \in [C -> Nat]
  /\ total \in Nat /\ total # 0 /\ total = SumFunctionOnSet(weight, C)
  /\ budget \in Nat

(* f are the floors of the exact shares and d the rest.                     *)
Split(C, weight, total, budget, f, d) ==
  /\ f \in [C -> Nat] /\ d \in [C -> Nat]
  /\ \A w \in C : /\ budget * weight[w] \in Nat
                  /\ d[w] < total
                  /\ budget * weight[w] = total * f[w] + d[w]

(* What is left over is less than the wallets with a rest.                  *)
Little(C, d, left) == left \in Nat /\ (left = 0 \/ left < Cardinality({w \in C : d[w] # 0}))

LEMMA Divided ==
  ASSUME NEW a \in Nat, NEW t \in Nat, t # 0
  PROVE  a = t * (a \div t) + (a % t) /\ a \div t \in Nat /\ a % t \in 0..(t - 1)
  OBVIOUS

LEMMA FloorsDivide ==
  ASSUME NEW C, NEW weight, NEW total, NEW budget, Divisible(C, weight, total, budget)
  PROVE  Split(C, weight, total, budget, Floored(C, weight, total, budget),
                                         Discarded(C, weight, total, budget))
<1>0. weight \in [C -> Nat] /\ total \in Nat /\ total # 0 /\ budget \in Nat
  BY DEF Divisible
<1>1. ASSUME NEW w \in C
      PROVE  /\ budget * weight[w] \in Nat
             /\ (budget * weight[w]) \div total \in Nat
             /\ (budget * weight[w]) % total \in Nat
             /\ (budget * weight[w]) % total < total
             /\ budget * weight[w] = total * ((budget * weight[w]) \div total)
                                       + ((budget * weight[w]) % total)
  <2>1. PICK a : a = budget * weight[w]
    OBVIOUS
  <2>2. a \in Nat
    <3>1. weight[w] \in Nat
      BY <1>0
    <3>2. \A x, y \in Nat : x * y \in Nat
      OBVIOUS
    <3> QED BY <1>0, <2>1, <3>1, <3>2
  <2>3. /\ a = total * (a \div total) + (a % total)
        /\ a \div total \in Nat /\ a % total \in Nat /\ a % total < total
    BY <1>0, <2>2
  <2> QED BY <2>1, <2>2, <2>3
<1> QED BY <1>0, <1>1 DEF Split, Floored, Discarded

(* The leftover mojos are the discarded fractions, of which each is less    *)
(* than one: they are fewer than the wallets that discard something.        *)
LEMMA LeftoverIsSmall ==
  ASSUME NEW C, NEW weight, NEW total, NEW budget, Divisible(C, weight, total, budget)
  PROVE  Little(C, Discarded(C, weight, total, budget), Leftover(C, weight, total, budget))
<1>0. /\ IsFiniteSet(C) /\ weight \in [C -> Nat]
      /\ total \in Nat /\ total # 0 /\ total = SumFunctionOnSet(weight, C)
      /\ budget \in Nat
  BY DEF Divisible
<1> DEFINE f == Floored(C, weight, total, budget)
           d == Discarded(C, weight, total, budget)
           exact == [w \in C |-> budget * weight[w]]
           whole == [w \in C |-> total * f[w]]
           Z == {w \in C : d[w] # 0}
           most == [w \in C |-> total - 1]
           one == [w \in C |-> 1]
<1>1. \A w \in C : /\ f[w] \in Nat /\ d[w] \in Nat /\ d[w] < total
                   /\ budget * weight[w] \in Nat
                   /\ budget * weight[w] = total * f[w] + d[w]
  BY FloorsDivide DEF Split
<1>2. IsFiniteSet(Z) /\ Z \subseteq C
  BY <1>0, FS_Subset
<1>3. \A w \in Z : d[w] <= total - 1
  <2>1. \A x \in Nat : x < total => x <= total - 1
    BY <1>0
  <2> HIDE DEF d, f
  <2> QED BY <1>1, <2>1
<1>4. PICK sf : sf = SumFunctionOnSet(f, C)
  OBVIOUS
<1>5. PICK sd : sd = SumFunctionOnSet(d, C)
  OBVIOUS
<1> HIDE DEF f, d
<1>6. sf \in Nat /\ sd \in Nat
  BY <1>0, <1>1, <1>4, <1>5, SumNat
<1>7. \A w \in C : whole[w] \in Int /\ whole[w] = total * f[w]
  <2>1. \A x \in Nat : total * x \in Int
    BY <1>0
  <2> QED BY <1>1, <2>1
<1>8. SumFunctionOnSet(exact, C) = budget * total
  <2>1. \A w \in C : weight[w] \in Int /\ exact[w] = budget * weight[w]
    BY <1>0
  <2> HIDE DEF exact
  <2> QED BY <1>0, <2>1, SumScaled
<1>9. SumFunctionOnSet(whole, C) = total * sf
  <2> HIDE DEF whole
  <2> QED BY <1>0, <1>1, <1>4, <1>7, SumScaled
<1>10. SumFunctionOnSet(exact, C) = SumFunctionOnSet(whole, C) + sd
  <2>1. \A w \in C : whole[w] \in Int /\ d[w] \in Int /\ exact[w] = whole[w] + d[w]
    BY <1>1, <1>7
  <2> HIDE DEF exact, whole
  <2> QED BY <1>0, <1>5, <2>1, SumPlus
<1>11. budget * total = total * sf + sd
  BY <1>8, <1>9, <1>10
<1>12. PICK m : m = Cardinality(Z)
  OBVIOUS
<1>13. m \in Nat
  BY <1>2, <1>12, FS_CardinalityType
<1>14. sd <= (total - 1) * m
  <2>1. sd = SumFunctionOnSet(d, Z)
    <3>1. (\A w \in C : d[w] \in Int) /\ \A w \in C \ Z : d[w] = 0
      BY <1>1
    <3>2. Z \in SUBSET C
      OBVIOUS
    <3> HIDE DEF Z
    <3> QED BY <1>0, <1>5, <3>1, <3>2, SumSupport
  <2>2. SumFunctionOnSet(one, Z) = m
    <3>1. \A w \in Z : one[w] = 1
      OBVIOUS
    <3> HIDE DEF Z, one
    <3> QED BY <1>2, <1>12, <3>1, SumOnes
  <2>3. SumFunctionOnSet(most, Z) = (total - 1) * m
    <3>1. total - 1 \in Int /\ \A w \in Z : one[w] \in Int /\ most[w] = (total - 1) * one[w]
      BY <1>0
    <3> HIDE DEF Z, one, most
    <3> QED BY <1>2, <2>2, <3>1, SumScaled
  <2>4. \A w \in Z : d[w] \in Int /\ most[w] \in Int /\ d[w] <= most[w]
    BY <1>0, <1>1, <1>3
  <2> HIDE DEF Z, most
  <2> QED BY <1>2, <2>1, <2>3, <2>4, SumMonotone
<1>15. (budget - sf) * total = sd
  BY <1>0, <1>6, <1>11
<1>16. budget - sf \in Int /\ budget - sf >= 0
  <2>1. \A x \in Int : x * total >= 0 => x >= 0
    BY <1>0
  <2> QED BY <1>0, <1>6, <1>15, <2>1
<1>17. budget - sf = 0 \/ budget - sf < m
  <2>1. \A x, y \in Nat : x * total <= (total - 1) * y => x = 0 \/ x < y
    <3> SUFFICES ASSUME NEW x \in Nat, NEW y \in Nat, x * total <= (total - 1) * y, x >= y, x # 0
                 PROVE  FALSE
      OBVIOUS
    <3>1. (total - 1) * y <= (total - 1) * x
      BY <1>0
    <3>2. (total - 1) * x = x * total - x
      BY <1>0
    <3>3. (total - 1) * y \in Int /\ x * total \in Int
      BY <1>0
    <3> QED BY <3>1, <3>2, <3>3
  <2>2. budget - sf \in Nat
    BY <1>16
  <2>3. (budget - sf) * total <= (total - 1) * m
    BY <1>14, <1>15
  <2> QED BY <1>13, <2>1, <2>2, <2>3
<1>18. Leftover(C, weight, total, budget) = budget - sf
  BY <1>4 DEF Leftover, f
<1>19. Little(C, d, budget - sf)
  BY <1>12, <1>16, <1>17 DEF Little
<1> QED BY <1>18, <1>19 DEF d

(****************************************************************************)
(* What allocate gives, and why it is fair.                                 *)
(****************************************************************************)

(* A rank below the leftover means one more mojo.                           *)
Bump(C, d, left, w) == IF RankIn(C, d, w) < left THEN 1 ELSE 0
(* The turns of handing out what is left in which a rank is served.         *)
Turns(left, n, rank) == {i \in 0..(left - 1) : i % n = rank}

LEMMA TurnsAreOne ==
  ASSUME NEW n \in Nat, NEW left \in 0..n, NEW rank \in 0..(n - 1)
  PROVE  Cardinality(Turns(left, n, rank)) = IF rank < left THEN 1 ELSE 0
<1>1. \A i \in 0..(left - 1) : i % n = i
  OBVIOUS
<1>2. CASE rank < left
  <2>1. Turns(left, n, rank) = {rank}
    BY <1>1, <1>2 DEF Turns
  <2> QED BY <1>2, <2>1, FS_Singleton
<1>3. CASE ~(rank < left)
  <2>1. Turns(left, n, rank) = {}
    BY <1>1, <1>3 DEF Turns
  <2> QED BY <1>3, <2>1, FS_EmptySet
<1> QED BY <1>2, <1>3

(* Who gets a leftover mojo has discarded a fraction.                       *)
LEMMA BumpedDiscard ==
  ASSUME NEW C, IsFiniteSet(C), C \subseteq Nat, NEW d \in [C -> Nat], NEW left, Little(C, d, left),
         NEW w \in C, RankIn(C, d, w) < left
  PROVE  d[w] > 0
<1> DEFINE Z == {v \in C : d[v] # 0}
<1>1. IsFiniteSet(Ahead(C, d, w)) /\ RankIn(C, d, w) \in Nat
  BY RankBelow
<1>2. left < Cardinality(Z) /\ left \in Nat
  BY <1>1 DEF Little
<1>3. CASE d[w] = 0
  <2>1. Z \subseteq Ahead(C, d, w)
    <3> SUFFICES ASSUME NEW v \in Z PROVE d[v] > d[w]
      BY DEF Ahead, Before
    <3>1. d[v] \in Nat /\ d[v] # 0
      OBVIOUS
    <3> QED BY <1>3, <3>1
  <2>2. Cardinality(Z) <= RankIn(C, d, w)
    <3> HIDE DEF Z
    <3> QED BY <1>1, <2>1, FS_Subset DEF RankIn
  <2>3. Cardinality(Z) \in Nat
    <3>1. IsFiniteSet(Z)
      BY FS_Subset
    <3> HIDE DEF Z
    <3> QED BY <3>1, FS_CardinalityType
  <2> HIDE DEF Z
  <2> QED BY <1>1, <1>2, <2>2, <2>3
<1>4. d[w] \in Nat
  OBVIOUS
<1> QED BY <1>3, <1>4

(* The leftover mojos all find a wallet.                                    *)
LEMMA BumpsSpend ==
  ASSUME NEW C, IsFiniteSet(C), C \subseteq Nat, NEW d \in [C -> Nat],
         NEW left \in 0..Cardinality(C)
  PROVE  SumFunctionOnSet([w \in C |-> Bump(C, d, left, w)], C) = left
<1> DEFINE e == [w \in C |-> Bump(C, d, left, w)]
           T == {w \in C : RankIn(C, d, w) < left}
<1>1. SumFunctionOnSet(e, C) = SumFunctionOnSet(e, T)
  <2>1. T \in SUBSET C /\ (\A w \in C : e[w] \in Int) /\ \A w \in C \ T : e[w] = 0
    BY DEF Bump
  <2> HIDE DEF e, T
  <2> QED BY <2>1, SumSupport
<1>2. SumFunctionOnSet(e, T) = Cardinality(T)
  <2>1. IsFiniteSet(T) /\ \A w \in T : e[w] = 1
    BY FS_Subset DEF Bump
  <2> HIDE DEF e, T
  <2> QED BY <2>1, SumOnes
<1>3. Cardinality(T) = left
  BY RanksCount
<1> QED BY <1>1, <1>2, <1>3

(* The arithmetic of two wallets v and w, f the floors, d the fractions and *)
(* e the leftover mojos.                                                    *)
Pair(t, b, wv, ww, fv, fw, dv, dw, ev, ew) ==
  /\ t \in Nat /\ t # 0 /\ b \in Nat /\ wv \in Nat /\ ww \in Nat
  /\ fv \in Nat /\ fw \in Nat /\ dv \in 0..(t - 1) /\ dw \in 0..(t - 1)
  /\ ev \in 0..1 /\ ew \in 0..1
  /\ b * wv = t * fv + dv /\ b * ww = t * fw + dw
  /\ (ev = 1 => dv > 0) /\ (ew = 1 => dw > 0)

LEMMA PairIsFair ==
  ASSUME NEW t, NEW b, NEW wv, NEW ww, NEW fv, NEW fw, NEW dv, NEW dw, NEW ev, NEW ew,
         Pair(t, b, wv, ww, fv, fw, dv, dw, ev, ew),
         ev > ew => dv >= dw
  PROVE  /\ (fw + ew) * t - b * ww < t /\ (fw + ew) * t - b * ww > -t
         /\ ((fv + ev) * t - b * wv) - ((fw + ew) * t - b * ww) <= t
<1>0. /\ t \in Nat /\ t # 0 /\ b \in Nat /\ wv \in Nat /\ ww \in Nat
      /\ fv \in Nat /\ fw \in Nat /\ dv \in 0..(t - 1) /\ dw \in 0..(t - 1)
      /\ ev \in 0..1 /\ ew \in 0..1
      /\ b * wv = t * fv + dv /\ b * ww = t * fw + dw
      /\ (ev = 1 => dv > 0) /\ (ew = 1 => dw > 0)
  BY DEF Pair
<1> USE <1>0
<1>1. (fv + ev) * t - b * wv = ev * t - dv /\ (fw + ew) * t - b * ww = ew * t - dw
  <2>1. \A f, e \in Nat : (f + e) * t = t * f + e * t
    OBVIOUS
  <2>2. ev \in Nat /\ ew \in Nat
    OBVIOUS
  <2>3. PICK xv : xv = t * fv
    OBVIOUS
  <2>4. PICK xw : xw = t * fw
    OBVIOUS
  <2>5. PICK yv : yv = ev * t
    OBVIOUS
  <2>6. PICK yw : yw = ew * t
    OBVIOUS
  <2>7. xv \in Int /\ xw \in Int /\ yv \in Int /\ yw \in Int
    <3>1. \A x, y \in Nat : x * y \in Int
      OBVIOUS
    <3> QED BY <2>2, <2>3, <2>4, <2>5, <2>6, <3>1
  <2>8. (fv + ev) * t = xv + yv /\ (fw + ew) * t = xw + yw
    BY <2>1, <2>2, <2>3, <2>4, <2>5, <2>6
  <2> QED BY <2>3, <2>4, <2>5, <2>6, <2>7, <2>8
<1>2. \A e \in 0..1 : e * t = IF e = 1 THEN t ELSE 0
  OBVIOUS
<1>3. PICK x : x = (fv + ev) * t - b * wv
  OBVIOUS
<1>4. PICK y : y = (fw + ew) * t - b * ww
  OBVIOUS
<1>5. x = (IF ev = 1 THEN t ELSE 0) - dv /\ y = (IF ew = 1 THEN t ELSE 0) - dw
  BY <1>1, <1>2, <1>3, <1>4
<1>6. y < t /\ y > -t /\ x - y <= t
  BY <1>5
<1> QED BY <1>3, <1>4, <1>6

(* More weight, or the same and the smaller address, is no less money.      *)
LEMMA PairIsMonotone ==
  ASSUME NEW t, NEW b, NEW wv, NEW ww, NEW fv, NEW fw, NEW dv, NEW dw, NEW ev, NEW ew,
         Pair(t, b, wv, ww, fv, fw, dv, dw, ev, ew),
         wv >= ww,
         ew > ev => dw > dv \/ (dw = dv /\ wv # ww)
  PROVE  fv + ev >= fw + ew
<1>0. /\ t \in Nat /\ t # 0 /\ b \in Nat /\ wv \in Nat /\ ww \in Nat
      /\ fv \in Nat /\ fw \in Nat /\ dv \in 0..(t - 1) /\ dw \in 0..(t - 1)
      /\ ev \in 0..1 /\ ew \in 0..1
      /\ b * wv = t * fv + dv /\ b * ww = t * fw + dw
      /\ (ev = 1 => dv > 0) /\ (ew = 1 => dw > 0)
  BY DEF Pair
<1> USE <1>0
<1>1. b * wv >= b * ww
  OBVIOUS
<1>2. fv >= fw
  <2>1. SUFFICES ASSUME fv < fw PROVE FALSE
    OBVIOUS
  <2>2. t * (fv + 1) <= t * fw
    BY <2>1
  <2>3. t * (fv + 1) = t * fv + t
    OBVIOUS
  <2>4. t * fv \in Int /\ t * fw \in Int
    OBVIOUS
  <2> QED BY <1>1, <2>2, <2>3, <2>4
<1>3. CASE fv = fw /\ ew > ev
  <2>1. dv >= dw
    BY <1>1, <1>3
  <2>2. dv = dw /\ wv # ww
    BY <1>3, <2>1
  <2>3. b * wv = b * ww
    BY <1>3, <2>2
  <2>4. b = 0
    BY <2>2, <2>3
  <2>5. b * ww = 0 /\ t * fw >= 0
    BY <2>4
  <2> QED BY <1>3, <2>5
<1> QED BY <1>2, <1>3

(* The sums of the engine are the sums above.                               *)
LEMMA WeightsAre ==
  ASSUME NEW records, Fleetlike(records)
  PROVE  /\ IsFiniteSet(Claimants(records)) /\ Claimants(records) \subseteq Nat
         /\ Weights(records) \in [Claimants(records) -> Nat]
<1> DEFINE C == Claimants(records)
<1>1. IsFiniteSet(Eligible(records)) /\ \A r \in Eligible(records) : r \in records
  BY FS_Subset DEF Eligible, Fleetlike
<1>2. IsFiniteSet(C)
  <2> DEFINE g == [r \in Eligible(records) |-> r.wallet]
  <2>1. g \in Surjection(Eligible(records), C)
    BY DEF Surjection, Claimants
  <2> HIDE DEF g, C
  <2> QED BY <1>1, <2>1, FS_Surjection
<1>3. C \subseteq Nat
  BY <1>1 DEF Claimants, Fleetlike
<1>4. ASSUME NEW w \in C
      PROVE  /\ IsFiniteSet(RecordsOf(records, w)) /\ RecordsOf(records, w) # {}
             /\ Uptime(RecordsOf(records, w)) \in Nat
             /\ Cardinality(RecordsOf(records, w)) \in Nat \ {0}
  <2>1. PICK rs : rs = RecordsOf(records, w)
    OBVIOUS
  <2>2. IsFiniteSet(rs) /\ rs # {} /\ \A r \in rs : r.uptime \in Nat
    BY <1>1, <2>1, FS_Subset DEF RecordsOf, Claimants, Fleetlike
  <2>3. Uptime(rs) \in Nat
    <3> DEFINE u == [r \in rs |-> r.uptime]
    <3>1. \A r \in rs : u[r] \in Nat
      BY <2>2
    <3> HIDE DEF u
    <3>2. SumFunctionOnSet(u, rs) \in Nat
      BY <2>2, <3>1, SumNat
    <3> QED BY <3>2 DEF Uptime, u
  <2>4. Cardinality(rs) \in Nat /\ Cardinality(rs) # 0
    BY <2>2, FS_CardinalityType, FS_EmptySet
  <2> QED BY <2>1, <2>2, <2>3, <2>4
<1>5. Denominator(records) \in Nat
  <2> DEFINE count == [w \in C |-> Cardinality(RecordsOf(records, w))]
  <2>1. \A w \in C : count[w] \in Nat
    BY <1>4
  <2>2. Denominator(records) = Product(count, C)
    BY DEF Denominator, Product
  <2> HIDE DEF count, C
  <2> QED BY <1>2, <2>1, <2>2, ProductNat
<1>6. ASSUME NEW w \in C
      PROVE  Uptime(RecordsOf(records, w)) * (Denominator(records) \div Cardinality(RecordsOf(records, w))) \in Nat
  <2>1. \A a \in Nat, b \in Nat, c \in Nat \ {0} : a * (b \div c) \in Nat
    <3>1. \A b \in Nat, c \in Nat \ {0} : b \div c \in Nat
      BY Divided
    <3>2. \A a, b \in Nat : a * b \in Nat
      OBVIOUS
    <3> QED BY <3>1, <3>2
  <2> QED BY <1>4, <1>5, <2>1
<1>7. Weights(records) \in [C -> Nat]
  BY <1>6 DEF Weights
<1> QED BY <1>2, <1>3, <1>7

(* What allocate gives, if anybody was up.                                  *)
LEMMA AllocateGives ==
  ASSUME NEW records, Fleetlike(records), NEW budget \in Nat,
         NEW C, C = Claimants(records), NEW weight, weight = Weights(records),
         NEW total, total = SumFunctionOnSet(weight, C), total # 0,
         NEW f, f = Floored(C, weight, total, budget),
         NEW d, d = Discarded(C, weight, total, budget),
         NEW left, left = Leftover(C, weight, total, budget), left \in 0..Cardinality(C)
  PROVE  Allocate(records, budget) = [w \in C |-> f[w] + Bump(C, d, left, w)]
<1>1. /\ IsFiniteSet(C) /\ C \subseteq Nat /\ weight \in [C -> Nat]
      /\ DOMAIN weight = C /\ DOMAIN f = C
  BY WeightsAre DEF Floored
<1>2. total \in Nat /\ total # 0
  BY <1>1, SumNat
<1>3. d \in [C -> Nat]
  <2>1. Divisible(C, weight, total, budget)
    BY <1>1, <1>2 DEF Divisible
  <2> QED BY <2>1, FloorsDivide DEF Split
<1>4. PICK n : n = Cardinality(C)
  OBVIOUS
<1>5. n \in Nat
  BY <1>1, <1>4, FS_CardinalityType
<1>6. ASSUME NEW w \in C
      PROVE  Cardinality({i \in 0..(left - 1) : i % n = Cardinality({v \in C : Before(d, v, w)})})
               = Bump(C, d, left, w)
  <2>1. PICK rank : rank = RankIn(C, d, w)
    OBVIOUS
  <2>2. rank \in 0..(n - 1)
    BY <1>1, <1>3, <1>4, <2>1, RankBelow
  <2>3. Cardinality(Turns(left, n, rank)) = IF rank < left THEN 1 ELSE 0
    BY <1>4, <1>5, <2>2, TurnsAreOne
  <2>4. Turns(left, n, rank) = {i \in 0..(left - 1) : i % n = Cardinality({v \in C : Before(d, v, w)})}
    BY <2>1 DEF Turns, RankIn, Ahead
  <2> QED BY <2>1, <2>3, <2>4 DEF Bump
<1>7. SumOver(weight) = total /\ SumOver(f) = SumFunctionOnSet(f, C)
  BY <1>1 DEF SumOver
<1>8. left = budget - SumOver(f)
  BY <1>7 DEF Leftover
<1>9. Allocate(records, budget)
        = [w \in C |-> f[w] + Cardinality({i \in 0..(left - 1) :
                               i % n = Cardinality({v \in C : Before(d, v, w)})})]
  BY <1>4, <1>7, <1>8 DEF Allocate, Floored, Discarded
<1> QED BY <1>6, <1>9

(* Whoever is up, whatever the budget: the engine divides it fairly.        *)
THEOREM DivisionIsFair ==
  ASSUME NEW records, Fleetlike(records), NEW budget \in Nat
  PROVE  Apportions(Allocate(records, budget), records, budget)
<1>1. PICK C : C = Claimants(records)
  OBVIOUS
<1>2. PICK weight : weight = Weights(records)
  OBVIOUS
<1>3. PICK total : total = SumFunctionOnSet(weight, C)
  OBVIOUS
<1>4. IsFiniteSet(C) /\ C \subseteq Nat /\ weight \in [C -> Nat] /\ SumOver(weight) = total
  BY <1>1, <1>2, <1>3, WeightsAre DEF SumOver
<1>5. total \in Nat
  BY <1>3, <1>4, SumNat
<1>6. PICK given : given = Allocate(records, budget)
  OBVIOUS
<1> SUFFICES Apportions(given, records, budget)
  BY <1>6
<1>7. CASE total = 0
  <2>1. given = [w \in C |-> 0]
    BY <1>1, <1>2, <1>4, <1>6, <1>7 DEF Allocate
  <2>2. SumFunctionOnSet(given, C) = 0
    <3>1. \A w \in C : given[w] = 0
      BY <2>1
    <3> QED BY <1>4, <3>1, SumZero
  <2>3. DOMAIN given = C /\ \A w \in C : given[w] >= 0
    BY <2>1
  <2>4. SumOver(given) = 0 /\ ~(total > 0)
    BY <1>7, <2>2, <2>3 DEF SumOver
  <2> QED BY <1>2, <1>4, <1>7, <2>3, <2>4 DEF Apportions
<1>8. CASE total # 0
  <2>1. PICK f : f = Floored(C, weight, total, budget)
    OBVIOUS
  <2>2. PICK d : d = Discarded(C, weight, total, budget)
    OBVIOUS
  <2>3. PICK left : left = Leftover(C, weight, total, budget)
    OBVIOUS
  <2>4. total \in Nat /\ total # 0 /\ total > 0
    BY <1>5, <1>8
  <2>5. /\ f \in [C -> Nat] /\ d \in [C -> Nat]
        /\ \A w \in C : /\ d[w] < total
                        /\ budget * weight[w] = total * f[w] + d[w]
    <3>1. Divisible(C, weight, total, budget)
      BY <1>3, <1>4, <2>4 DEF Divisible
    <3>2. Split(C, weight, total, budget, f, d)
      BY <2>1, <2>2, <3>1, FloorsDivide
    <3> QED BY <3>2 DEF Split
  <2>6. left \in Nat /\ (left = 0 \/ left < Cardinality({w \in C : d[w] # 0}))
    <3>1. Divisible(C, weight, total, budget)
      BY <1>3, <1>4, <2>4 DEF Divisible
    <3>2. Little(C, d, left)
      BY <2>2, <2>3, <3>1, LeftoverIsSmall
    <3> QED BY <3>2 DEF Little
  <2>7. left \in 0..Cardinality(C)
    <3>1. PICK Z : Z = {w \in C : d[w] # 0}
      OBVIOUS
    <3>2. Cardinality(Z) <= Cardinality(C) /\ Cardinality(Z) \in Nat /\ Cardinality(C) \in Nat
      BY <1>4, <3>1, FS_Subset, FS_CardinalityType
    <3> QED BY <2>6, <3>1, <3>2
  <2>8. PICK e : e = [w \in C |-> Bump(C, d, left, w)]
    OBVIOUS
  <2>9. given = [w \in C |-> f[w] + e[w]]
    <3>1. given = [w \in C |-> f[w] + Bump(C, d, left, w)]
      BY <1>1, <1>2, <1>3, <1>6, <1>8, <2>1, <2>2, <2>3, <2>7, AllocateGives
    <3> QED BY <2>8, <3>1
  <2>10. e \in [C -> 0..1]
    BY <2>8 DEF Bump
  <2>11. SumFunctionOnSet(given, C) = budget
    <3>1. SumFunctionOnSet(e, C) = left
      BY <1>4, <2>5, <2>7, <2>8, BumpsSpend
    <3>2. SumFunctionOnSet(given, C) = SumFunctionOnSet(f, C) + SumFunctionOnSet(e, C)
      <4>1. \A w \in C : f[w] \in Int /\ e[w] \in Int /\ given[w] = f[w] + e[w]
        BY <2>5, <2>9, <2>10
      <4> QED BY <1>4, <4>1, SumPlus
    <3>3. left = budget - SumFunctionOnSet(f, C)
      BY <2>1, <2>3 DEF Leftover
    <3>4. SumFunctionOnSet(f, C) \in Nat
      <4>1. \A w \in C : f[w] \in Nat
        BY <2>5
      <4> QED BY <1>4, <4>1, SumNat
    <3> QED BY <3>1, <3>2, <3>3, <3>4
  <2>12. DOMAIN given = C /\ \A w \in C : given[w] >= 0
    BY <2>5, <2>9, <2>10
  <2>13. \A w \in C : e[w] = 1 => d[w] > 0
    <3> SUFFICES ASSUME NEW w \in C, e[w] = 1 PROVE d[w] > 0
      OBVIOUS
    <3>1. RankIn(C, d, w) < left
      BY <2>8 DEF Bump
    <3> QED BY <1>4, <2>5, <2>6, <3>1, BumpedDiscard DEF Little
  <2>14. \A v, w \in C : e[v] > e[w] => Before(d, v, w)
    <3> SUFFICES ASSUME NEW v \in C, NEW w \in C, e[v] > e[w] PROVE Before(d, v, w)
      OBVIOUS
    <3>1. RankIn(C, d, v) < left /\ ~(RankIn(C, d, w) < left)
      BY <2>8 DEF Bump
    <3>2. RankIn(C, d, v) \in Nat /\ RankIn(C, d, w) \in Nat
      BY <1>4, <2>5, RankBelow
    <3>3. v # w
      BY <3>1
    <3>4. ~Before(d, w, v)
      <4>1. Before(d, w, v) => RankIn(C, d, w) < RankIn(C, d, v)
        BY <1>4, <2>5, RankOrders
      <4> QED BY <2>6, <3>1, <3>2, <4>1
    <3> QED BY <1>4, <2>5, <3>3, <3>4, OneIsBefore
  <2>15. ASSUME NEW v \in C, NEW w \in C
         PROVE  LET Error(u) == given[u] * total - budget * weight[u] IN
                /\ Error(w) < total /\ Error(w) > -total
                /\ Error(v) - Error(w) <= total
                /\ weight[v] >= weight[w] /\ (weight[v] = weight[w] => v <= w) => given[v] >= given[w]
    <3>1. /\ weight[v] \in Nat /\ weight[w] \in Nat /\ f[v] \in Nat /\ f[w] \in Nat
          /\ e[v] \in 0..1 /\ e[w] \in 0..1
          /\ given[v] = f[v] + e[v] /\ given[w] = f[w] + e[w]
      BY <1>4, <2>5, <2>9, <2>10
    <3>2. d[v] \in 0..(total - 1) /\ d[w] \in 0..(total - 1)
      <4>1. \A x \in Nat : x < total => x \in 0..(total - 1)
        BY <2>4
      <4>2. d[v] \in Nat /\ d[w] \in Nat /\ d[v] < total /\ d[w] < total
        BY <2>5
      <4> QED BY <4>1, <4>2
    <3>3. budget * weight[v] = total * f[v] + d[v] /\ budget * weight[w] = total * f[w] + d[w]
      BY <2>5
    <3>4. (e[v] = 1 => d[v] > 0) /\ (e[w] = 1 => d[w] > 0)
      BY <2>13
    <3>5. e[v] > e[w] => d[v] >= d[w]
      BY <2>14, <3>2 DEF Before
    <3>6. e[w] > e[v] => d[w] > d[v] \/ (d[w] = d[v] /\ w < v)
      BY <2>14 DEF Before
    <3>7. v \in Nat /\ w \in Nat
      BY <1>4
    <3>0. Pair(total, budget, weight[v], weight[w], f[v], f[w], d[v], d[w], e[v], e[w])
      BY <2>4, <3>1, <3>2, <3>3, <3>4 DEF Pair
    <3>8. /\ (f[w] + e[w]) * total - budget * weight[w] < total
          /\ (f[w] + e[w]) * total - budget * weight[w] > -total
          /\ ((f[v] + e[v]) * total - budget * weight[v])
               - ((f[w] + e[w]) * total - budget * weight[w]) <= total
      BY <3>0, <3>5, PairIsFair
    <3>9. ASSUME weight[v] >= weight[w], weight[v] = weight[w] => v <= w
          PROVE  f[v] + e[v] >= f[w] + e[w]
      <4>1. e[w] > e[v] => d[w] > d[v] \/ (d[w] = d[v] /\ weight[v] # weight[w])
        BY <3>6, <3>7, <3>9
      <4> QED BY <3>0, <3>9, <4>1, PairIsMonotone
    <3> QED BY <3>1, <3>8, <3>9
  <2>16. SumOver(given) = budget
    BY <2>11, <2>12 DEF SumOver
  <2> QED BY <1>2, <1>4, <1>8, <2>12, <2>15, <2>16 DEF Apportions
<1> QED BY <1>7, <1>8

(* The collector's records are such a fleet, so that whatever a cycle plans *)
(* is an apportionment of its budget.                                       *)
THEOREM PlansAreFair ==
  \A c \in Cycles :
    Apportions(Allocate(Collect(Fleet[c]), Budget), Collect(Fleet[c]), Budget)
<1> SUFFICES ASSUME NEW c \in Cycles
             PROVE  Apportions(Allocate(Collect(Fleet[c]), Budget), Collect(Fleet[c]), Budget)
  OBVIOUS
<1> DEFINE asked == {t \in Fleet[c] : t.wallet # NoWallet /\ t.answers}
           Record(t) == [tree |-> t.tree, wallet |-> t.wallet,
                         uptime |-> UptimeOf(t), eligible |-> IsEligible(t)]
           g == [t \in asked |-> Record(t)]
<1>1. Budget \in Nat /\ Period \in Nat /\ Period # 0 /\ IsFiniteSet(asked)
  BY ServiceAssumption, FS_Subset
<1>2. \A t \in asked : t.wallet \in Nat /\ t.hours \in Nat
  <2>1. Wallets \subseteq Nat
    BY DataAssumption
  <2>2. \A t \in Fleet[c] : t \in Trees
    BY ServiceAssumption
  <2> QED BY <2>1, <2>2 DEF Trees
<1>3. ASSUME NEW t \in asked PROVE UptimeOf(t) \in Nat
  <2>1. PICK h : h = IF t.hours < Period THEN t.hours ELSE Period
    OBVIOUS
  <2>2. h * BasisPointsFull \in Nat
    BY <1>1, <1>2, <2>1 DEF BasisPointsFull
  <2>3. \A n \in Nat : n \div Period \in Nat
    BY <1>1
  <2> QED BY <2>1, <2>2, <2>3 DEF UptimeOf
<1>4. IsFiniteSet(Collect(Fleet[c]))
  <2>1. g \in Surjection(asked, Collect(Fleet[c]))
    BY DEF Surjection, Collect
  <2> HIDE DEF g, asked
  <2> QED BY <1>1, <2>1, FS_Surjection
<1>5. \A r \in Collect(Fleet[c]) : r.wallet \in Nat /\ r.uptime \in Nat
  BY <1>2, <1>3 DEF Collect
<1> QED BY <1>1, <1>4, <1>5, DivisionIsFair DEF Fleetlike

(* Any budget of the samples is divided whole and in proportion to uptime   *)
(* (engine.py:62-115): the samples that the run tries are no special ones.  *)
THEOREM SharesFair == Spec => []SharesAreFair
<1>1. SharesAreFair
  <2>1. ASSUME NEW records \in Samples, NEW budget \in 0..Budget
        PROVE  Apportions(Allocate(records, budget), records, budget)
    <3>1. Fleetlike(records) /\ budget \in Nat
      BY SamplesAssumption, ServiceAssumption DEF Fleetlike
    <3> QED BY <3>1, DivisionIsFair
  <2> QED BY <2>1 DEF SharesAreFair, Unfair
<1> QED BY <1>1, PTL

--------------------------------------------------------------------------------
LEMMA CurrentIsUnique ==
  ASSUME NEW p, NEW v, NEW w, v \in Wallets, w \in Wallets, Current(p, v), Current(p, w)
  PROVE  v = w
<1>1. v \in Nat /\ w \in Nat
  BY DataAssumption
<1>2. v <= w /\ w <= v
  BY DEF Current
<1> QED BY <1>1, <1>2

LEMMA AmountType ==
  ASSUME NEW j \in Jobs, NEW w \in Wallets
  PROVE  PlanAmount(j.cycle, w, j.cap) \in Nat
<1>1. j.cycle \in Cycles /\ j.cap \in Nat
  BY LimitsAssumption DEF Jobs
<1>2. Allocated[j.cycle][w] \in Nat
  BY <1>1, DataAssumption
<1> QED BY <1>1, <1>2 DEF PlanAmount

(* One cell of a table of rows changes.                                     *)
LEMMA UpdateType ==
  ASSUME NEW S, NEW T, NEW V, NEW f \in [S -> [T -> V]], NEW s \in S, NEW t \in T, NEW v \in V
  PROVE  [f EXCEPT ![s][t] = v] \in [S -> [T -> V]]
  OBVIOUS

LEMMA LabelsListed ==
  /\ "idle" \in Labels /\ "balance" \in Labels /\ "check" \in Labels /\ "plan" \in Labels
  /\ "open" \in Labels /\ "put" \in Labels /\ "gate" \in Labels /\ "begin" \in Labels
  /\ "next" \in Labels /\ "skip" \in Labels /\ "mark" \in Labels /\ "send" \in Labels
  /\ "sent" \in Labels /\ "fail" \in Labels /\ "close" \in Labels /\ "report" \in Labels
  BY DEF Labels

LEMMA StatesListed ==
  /\ "planned" \in InstructionStates /\ "sending" \in InstructionStates
  /\ "sent" \in InstructionStates /\ "failed" \in InstructionStates
  /\ "skipped" \in InstructionStates
  BY DEF InstructionStates

(****************************************************************************)
(* Types.                                                                   *)
(****************************************************************************)

LEMMA AcceptType ==
  ASSUME CoreTypeOK, NEW p \in Procs, pc[p] # "idle", NEW w \in Wallets,
         MaybeAccept(job[p].cycle, w, PlanAmount(job[p].cycle, w, job[p].cap))
  PROVE  balance' \in Nat /\ spends' \in [Cycles -> [Wallets -> Nat]]
<1> DEFINE c == job[p].cycle
           mojos == PlanAmount(c, w, job[p].cap)
<1>1. job[p] \in Jobs /\ c \in Cycles /\ mojos \in Nat
  BY AmountType DEF CoreTypeOK, Jobs
<1>2. balance \in Nat /\ spends \in [Cycles -> [Wallets -> Nat]]
  BY DEF CoreTypeOK
<1> HIDE DEF mojos
<1>3. CASE UNCHANGED walletVars
  BY <1>2, <1>3 DEF walletVars
<1>4. CASE Accept(c, w, mojos)
  <2>1. spends[c][w] + 1 \in Nat /\ spends' = [spends EXCEPT ![c][w] = spends[c][w] + 1]
    BY <1>1, <1>2, <1>4 DEF Accept
  <2>2. spends' \in [Cycles -> [Wallets -> Nat]]
    BY <1>1, <1>2, <2>1, UpdateType
  <2>3. balance' \in Nat
    BY <1>1, <1>2, <1>4 DEF Accept
  <2> QED BY <2>2, <2>3
<1> QED BY <1>3, <1>4 DEF MaybeAccept, mojos

(* The steps of the executor keep the types of the spending core.           *)
LEMMA ExecuteTypes ==
  ASSUME CoreTypeOK, NEW p \in Procs, Execute(p)
  PROVE  CoreTypeOK'
<1> USE LabelsListed, StatesListed
    DEF CoreTypeOK, Goto, storeVars, walletVars, planVars, runVars
<1>0. pc[p] # "idle" /\ job[p] \in Jobs /\ job[p].cycle \in Cycles
  BY DEF Execute, BeginSending, NextInstruction, MarkSkipped, MarkSending, WalletAccepts,
         WalletRejects, WalletAnswerLost, WalletAnswerUnknown, MarkSent, MarkFailed, CloseCycle, Jobs
<1>1. CASE BeginSending(p)
  BY <1>0, <1>1 DEF BeginSending, Instructed, CycleStates
<1>2. CASE NextInstruction(p)
  <2>1. pc' \in [Procs -> Labels] /\ \A q \in Procs : q # p => pc'[q] = pc[q]
    BY <1>2 DEF NextInstruction
  <2>2. attempt' = [attempt EXCEPT ![p] = 0] /\ attempt' \in [Procs -> 0..MaxAttempts]
    BY <1>2, LimitsAssumption DEF NextInstruction
  <2>3. \A q \in Procs : /\ pc'[q] # "idle" => job[q] \in Jobs
                        /\ pc'[q] = "mark" => attempt'[q] < MaxAttempts
    BY <1>2, <2>1, <2>2, LimitsAssumption DEF NextInstruction
  <2> QED BY <1>2, <2>1, <2>2, <2>3 DEF NextInstruction
<1>3. CASE MarkSkipped(p)
  BY <1>0, <1>3 DEF MarkSkipped
<1>4. CASE MarkSending(p)
  <2>1. PICK w \in Wallets : state' = [state EXCEPT ![job[p].cycle][w] = "sending"]
    BY <1>4 DEF MarkSending
  <2>2. state' \in [Cycles -> [Wallets -> InstructionStates]]
    BY <1>0, <2>1, UpdateType
  <2>3. attempt' \in [Procs -> 0..MaxAttempts]
    BY <1>4, LimitsAssumption DEF MarkSending
  <2> QED BY <1>4, <2>2, <2>3 DEF MarkSending
<1>5. CASE WalletAccepts(p)
  <2>1. balance' \in Nat /\ spends' \in [Cycles -> [Wallets -> Nat]]
    BY <1>0, <1>5, AcceptType DEF WalletAccepts, MaybeAccept
  <2> QED BY <1>5, <2>1 DEF WalletAccepts
<1>6. CASE WalletRejects(p)
  BY <1>6, FaultsAssumption DEF WalletRejects, RetryOrFail, Fault
<1>7. CASE WalletAnswerLost(p)
  <2>1. balance' \in Nat /\ spends' \in [Cycles -> [Wallets -> Nat]]
    BY <1>0, <1>7, AcceptType DEF WalletAnswerLost, MaybeAccept
  <2> QED BY <1>7, <2>1, FaultsAssumption DEF WalletAnswerLost, RetryOrFail, Fault
<1>8. CASE WalletAnswerUnknown(p)
  <2>1. balance' \in Nat /\ spends' \in [Cycles -> [Wallets -> Nat]]
    BY <1>0, <1>8, AcceptType DEF WalletAnswerUnknown
  <2> QED BY <1>8, <2>1, FaultsAssumption DEF WalletAnswerUnknown, Fault
<1>9. CASE MarkSent(p)
  BY <1>0, <1>9 DEF MarkSent
<1>10. CASE MarkFailed(p)
  BY <1>0, <1>10 DEF MarkFailed
<1>11. CASE CloseCycle(p)
  BY <1>0, <1>11 DEF CloseCycle, CycleStates
<1> QED BY <1>1, <1>2, <1>3, <1>4, <1>5, <1>6, <1>7, <1>8, <1>9, <1>10, <1>11 DEF Execute

(* So do those of the planner,                                              *)
LEMMA PlanTypes ==
  ASSUME CoreTypeOK, NEW p \in Procs,
         ReadBalance(p, "plan") \/ Plan(p, paused) \/ OpenCycle(p) \/ PutInstruction(p),
         paused \in BOOLEAN
  PROVE  CoreTypeOK'
<1> USE LabelsListed, StatesListed
    DEF CoreTypeOK, Goto, storeVars, walletVars, planVars, runVars
<1>1. CASE ReadBalance(p, "plan")
  BY <1>1 DEF ReadBalance
<1>2. CASE Plan(p, paused)
  <2> DEFINE b == \/ paused \/ InFlight \/ HasSent(job[p].cycle)
                  \/ OverCycleMaximum(job[p].cycle, job[p].cap)
                  \/ ShortOfBalance(job[p].cycle, job[p].cap, bal[p])
  <2>1. b \in BOOLEAN
    OBVIOUS
  <2>2. blocked' = [blocked EXCEPT ![p] = b]
    BY <1>2 DEF Plan
  <2> HIDE DEF b
  <2>3. blocked' \in [Procs -> BOOLEAN]
    BY <2>1, <2>2
  <2> QED BY <1>2, <2>3 DEF Plan
<1>3. CASE OpenCycle(p)
  BY <1>3 DEF OpenCycle, Instructed, Jobs, CycleStates
<1>4. CASE PutInstruction(p)
  <2> DEFINE c == job[p].cycle
  <2>1. PICK w \in Wallets :
          /\ \/ /\ state' = [state EXCEPT ![c][w] = "planned"]
                /\ amount' = [amount EXCEPT ![c][w] = PlanAmount(c, w, job[p].cap)]
             \/ UNCHANGED <<state, amount>>
          /\ todo' = [todo EXCEPT ![p] = @ \ {w}]
          /\ pc' = [pc EXCEPT ![p] = IF todo[p] = {w} THEN "gate" ELSE "put"]
    BY <1>4 DEF PutInstruction
  <2>2. c \in Cycles /\ PlanAmount(c, w, job[p].cap) \in Nat
    BY <1>4, AmountType DEF PutInstruction, Jobs
  <2>3. /\ state' \in [Cycles -> [Wallets -> InstructionStates]]
        /\ amount' \in [Cycles -> [Wallets -> Nat]]
    <3>1. CASE UNCHANGED <<state, amount>>
      BY <3>1
    <3>2. CASE /\ state' = [state EXCEPT ![c][w] = "planned"]
               /\ amount' = [amount EXCEPT ![c][w] = PlanAmount(c, w, job[p].cap)]
      BY <2>2, <3>2, UpdateType
    <3> QED BY <2>1, <3>1, <3>2
  <2> QED BY <1>4, <2>1, <2>3 DEF PutInstruction
<1> QED BY <1>1, <1>2, <1>3, <1>4

(* and the end of a process.                                                *)
LEMMA ExitTypes ==
  ASSUME CoreTypeOK, NEW p \in Procs, Exit(p), UNCHANGED <<state, amount, tx>>,
         cycleState' \in [Cycles -> CycleStates],
         balance' \in Nat, spends' \in [Cycles -> [Wallets -> Nat]], faults' \in 0..MaxFaults
  PROVE  CoreTypeOK'
<1> USE LabelsListed DEF CoreTypeOK, Exit, Goto
<1>1. /\ pc' = [pc EXCEPT ![p] = "idle"] /\ pc' \in [Procs -> Labels]
      /\ job' = [job EXCEPT ![p] = NoJob] /\ job' \in [Procs -> Jobs \union {NoJob}]
      /\ attempt' = [attempt EXCEPT ![p] = 0] /\ attempt' \in [Procs -> 0..MaxAttempts]
  BY LimitsAssumption
<1>2. /\ bal' \in [Procs -> Nat \union {Unknown}]
      /\ blocked' \in [Procs -> BOOLEAN]
      /\ todo' \in [Procs -> SUBSET Wallets]
      /\ outcome' \in [Procs -> {"ok", "failed", "halted"}]
  OBVIOUS
<1>3. \A q \in Procs : /\ pc'[q] # "idle" => job'[q] \in Jobs
                      /\ pc'[q] = "mark" => attempt'[q] < MaxAttempts
  BY <1>1
<1> QED BY <1>1, <1>2, <1>3

(* What the service adds: cycles are begun in the order of time, each by a  *)
(* command that is running.                                                 *)
ServiceTypeOK ==
  /\ clock \in Nat
  /\ paused \in BOOLEAN
  /\ command \in [Procs -> Commands \union {Off}]
  /\ lock \in Procs \union {Free, Orphan}
  /\ \A p \in Procs : pc[p] # "idle" => command[p] # Off /\ job[p].cycle < clock

LEMMA OffIsNoCommand == Off \notin Commands
  BY DEF Off, Commands

LEMMA TypeStep == ASSUME TypeOK, [Next]_vars PROVE TypeOK'
<1> SUFFICES CoreTypeOK' /\ ServiceTypeOK'
  BY DEF TypeOK, ServiceTypeOK
<1>0. CoreTypeOK /\ ServiceTypeOK
  BY DEF TypeOK, ServiceTypeOK
<1> USE DEF storeVars, walletVars, planVars, runVars, service
<1>1. ASSUME NEW p \in Procs, NEW halted \in BOOLEAN, Return(p, halted), lock' \in {lock, Free},
             UNCHANGED <<clock, paused>>
      PROVE  ServiceTypeOK'
  BY <1>0, <1>1 DEF Return, Exit, Goto, ServiceTypeOK, CoreTypeOK
<1>2. ASSUME NEW p \in Procs, NEW halted \in BOOLEAN, Return(p, halted), lock' \in {lock, Free},
             UNCHANGED <<storeVars, walletVars, faults, clock, paused>>
      PROVE  CoreTypeOK' /\ ServiceTypeOK'
  <2>1. CoreTypeOK'
    BY <1>0, <1>2, ExitTypes DEF Return, CoreTypeOK
  <2> QED BY <2>1, <1>1, <1>2
<1>3. ASSUME NEW p \in Procs, NEW cmd \in Commands, Start(p, cmd) PROVE CoreTypeOK' /\ ServiceTypeOK'
  <2>1. CoreTypeOK'
    BY <1>0, <1>3 DEF Start, coreVars, CoreTypeOK
  <2>2. ServiceTypeOK'
    BY <1>0, <1>3, OffIsNoCommand DEF Start, coreVars, ServiceTypeOK, CoreTypeOK
  <2> QED BY <2>1, <2>2
<1>4. CASE Pause \/ Resume
  <2>1. CoreTypeOK'
    BY <1>0, <1>4 DEF Pause, Resume, coreVars, CoreTypeOK
  <2>2. ServiceTypeOK'
    BY <1>0, <1>4 DEF Pause, Resume, coreVars, ServiceTypeOK
  <2> QED BY <2>1, <2>2
<1>5. ASSUME NEW p \in Procs, BeginCycle(p) PROVE CoreTypeOK' /\ ServiceTypeOK'
  <2> DEFINE j == [cycle |-> clock, live |-> command[p].live, cap |-> command[p].cap]
  <2>1. command[p] \in Commands /\ clock \in Cycles
    BY <1>0, <1>5 DEF BeginCycle, ServiceTypeOK
  <2>2. j \in Jobs /\ j.cycle = clock
    BY <2>1 DEF Jobs, Commands
  <2>3. /\ job' = [job EXCEPT ![p] = j] /\ pc' = [pc EXCEPT ![p] = "check"]
        /\ clock' = clock + 1 /\ command[p] # Off /\ lock' = p
        /\ UNCHANGED <<storeVars, walletVars, bal, blocked, todo, attempt, outcome, faults, paused, command>>
    BY <1>5 DEF BeginCycle, Goto
  <2> HIDE DEF j
  <2>4. CoreTypeOK'
    BY <1>0, <2>2, <2>3, LabelsListed DEF CoreTypeOK
  <2>5. ASSUME NEW q \in Procs, pc'[q] # "idle" PROVE command'[q] # Off /\ job'[q].cycle < clock'
    <3>1. CASE q = p
      BY <1>0, <2>2, <2>3, <3>1 DEF CoreTypeOK, ServiceTypeOK
    <3>2. CASE q # p
      <4>1. pc[q] # "idle" /\ job'[q] = job[q] /\ command'[q] = command[q]
        BY <1>0, <2>3, <2>5, <3>2 DEF CoreTypeOK
      <4>2. job[q].cycle \in Nat
        BY <1>0, <4>1, ServiceAssumption DEF CoreTypeOK, Jobs
      <4> QED BY <1>0, <2>3, <4>1, <4>2 DEF ServiceTypeOK
    <3> QED BY <3>1, <3>2
  <2> QED BY <1>0, <2>3, <2>4, <2>5 DEF ServiceTypeOK
<1>6. ASSUME NEW p \in Procs, LockHeld(p) PROVE CoreTypeOK' /\ ServiceTypeOK'
  BY <1>2, <1>6 DEF LockHeld
<1>7. ASSUME NEW p \in Procs, CollectFleet(p) PROVE CoreTypeOK' /\ ServiceTypeOK'
  <2>1. CASE EndCycle(p, FALSE)
    BY <1>2, <1>7, <2>1 DEF CollectFleet, EndCycle
  <2>2. CASE Goto(p, "balance") /\ UNCHANGED <<planVars, todo, attempt, outcome, command, lock>>
    <3>1. UNCHANGED <<storeVars, walletVars, faults, clock, paused>> /\ pc[p] # "idle"
      BY <1>7 DEF CollectFleet
    <3>2. CoreTypeOK'
      BY <1>0, <2>2, <3>1, LabelsListed DEF Goto, CoreTypeOK
    <3>3. ServiceTypeOK'
      BY <1>0, <2>2, <3>1 DEF Goto, CoreTypeOK, ServiceTypeOK
    <3> QED BY <3>2, <3>3
  <2> QED BY <1>7, <2>1, <2>2 DEF CollectFleet
<1>8. ASSUME NEW p \in Procs, PlanAndPersist(p) PROVE CoreTypeOK' /\ ServiceTypeOK'
  <2>1. CoreTypeOK'
    BY <1>0, <1>8, PlanTypes DEF PlanAndPersist, ServiceTypeOK
  <2>2. pc[p] # "idle" /\ UNCHANGED <<job, service>> /\ \A q \in Procs \ {p} : pc'[q] = pc[q]
    BY <1>0, <1>8 DEF PlanAndPersist, ReadBalance, Plan, OpenCycle, PutInstruction, Goto, CoreTypeOK
  <2>3. ServiceTypeOK'
    BY <1>0, <2>2 DEF ServiceTypeOK
  <2> QED BY <2>1, <2>3
<1>9. ASSUME NEW p \in Procs, Refuse(p) \/ Report(p) PROVE CoreTypeOK' /\ ServiceTypeOK'
  <2>1. (outcome[p] = "halted") \in BOOLEAN
    OBVIOUS
  <2>2. CASE Refuse(p)
    BY <1>2, <2>2 DEF Refuse, EndCycle
  <2>3. CASE Report(p)
    BY <1>2, <2>1, <2>3 DEF Report, EndCycle
  <2> QED BY <1>9, <2>2, <2>3
<1>10. ASSUME NEW p \in Procs, DryRun(p) PROVE CoreTypeOK' /\ ServiceTypeOK'
  <2>1. Exit(p) /\ UNCHANGED <<state, amount, tx, walletVars, faults>>
    BY <1>10 DEF DryRun, EndCycle, Return
  <2>2. cycleState' \in [Cycles -> CycleStates]
    BY <1>0, <1>10 DEF DryRun, CoreTypeOK, CycleStates
  <2>3. CoreTypeOK'
    BY <1>0, <2>1, <2>2, ExitTypes DEF CoreTypeOK
  <2> QED BY <2>3, <1>1, <1>10 DEF DryRun, EndCycle
<1>11. ASSUME NEW p \in Procs, GoLive(p) PROVE CoreTypeOK' /\ ServiceTypeOK'
  <2>1. CoreTypeOK'
    BY <1>0, <1>11, LabelsListed DEF GoLive, Goto, CoreTypeOK
  <2>2. ServiceTypeOK'
    BY <1>0, <1>11 DEF GoLive, Goto, CoreTypeOK, ServiceTypeOK
  <2> QED BY <2>1, <2>2
<1>12. ASSUME NEW p \in Procs, ExecutePlan(p) PROVE CoreTypeOK' /\ ServiceTypeOK'
  <2>1. CoreTypeOK'
    BY <1>0, <1>12, ExecuteTypes DEF ExecutePlan
  <2>2. UNCHANGED job
    BY <1>12 DEF ExecutePlan, Execute, BeginSending, NextInstruction, MarkSkipped, MarkSending,
         WalletAccepts, WalletRejects, WalletAnswerLost, WalletAnswerUnknown, MarkSent, MarkFailed,
         CloseCycle
  <2>3. pc[p] # "idle" /\ \A q \in Procs \ {p} : pc'[q] = pc[q]
    BY <1>0, <1>12 DEF ExecutePlan, Execute, BeginSending, NextInstruction, MarkSkipped, MarkSending,
         WalletAccepts, WalletRejects, WalletAnswerLost, WalletAnswerUnknown, MarkSent, MarkFailed,
         CloseCycle, Goto, RetryOrFail, CoreTypeOK
  <2>4. UNCHANGED service
    BY <1>12 DEF ExecutePlan
  <2>5. ServiceTypeOK'
    BY <1>0, <2>2, <2>3, <2>4 DEF ServiceTypeOK
  <2> QED BY <2>1, <2>5
<1>13. ASSUME NEW p \in Procs, Die(p) PROVE CoreTypeOK' /\ ServiceTypeOK'
  <2>1. Exit(p) /\ UNCHANGED <<storeVars, clock, paused>> /\ faults' \in 0..MaxFaults
    BY <1>0, <1>13, FaultsAssumption DEF Die, Crash, Fault, CoreTypeOK
  <2>2. balance' \in Nat /\ spends' \in [Cycles -> [Wallets -> Nat]]
    <3>1. CASE UNCHANGED walletVars
      BY <1>0, <3>1 DEF CoreTypeOK
    <3>2. CASE ~UNCHANGED walletVars
      BY <1>0, <1>13, <3>2, AcceptType DEF Die, Crash
    <3> QED BY <3>1, <3>2
  <2>3. CoreTypeOK'
    BY <1>0, <2>1, <2>2, ExitTypes DEF CoreTypeOK
  <2>4. command' = [command EXCEPT ![p] = Off] /\ lock' = Orphan
    BY <1>13 DEF Die
  <2>5. ServiceTypeOK'
    BY <1>0, <2>1, <2>4 DEF Exit, Goto, CoreTypeOK, ServiceTypeOK
  <2> QED BY <2>3, <2>5
<1>14. ASSUME NEW c \in Cycles, NEW w \in Wallets, Resolve(c, w), UNCHANGED service
       PROVE  CoreTypeOK' /\ ServiceTypeOK'
  <2>1. PICK s \in {"sent", "failed"} : state' = [state EXCEPT ![c][w] = s]
    BY <1>14 DEF Resolve
  <2>2. state' \in [Cycles -> [Wallets -> InstructionStates]]
    BY <1>0, <2>1, StatesListed, UpdateType DEF CoreTypeOK
  <2>3. tx' \in [Cycles -> [Wallets -> BOOLEAN]]
    <3>1. UNCHANGED tx \/ \E known \in BOOLEAN : tx' = [tx EXCEPT ![c][w] = known]
      BY <1>14 DEF Resolve
    <3>2. ASSUME NEW known \in BOOLEAN, tx' = [tx EXCEPT ![c][w] = known]
          PROVE  tx' \in [Cycles -> [Wallets -> BOOLEAN]]
      BY <1>0, <3>2 DEF CoreTypeOK
    <3> QED BY <1>0, <3>1, <3>2 DEF CoreTypeOK
  <2>4. CoreTypeOK'
    BY <1>0, <1>14, <2>2, <2>3 DEF Resolve, CoreTypeOK
  <2> QED BY <1>0, <1>14, <2>4 DEF Resolve, ServiceTypeOK
<1>15. CASE UNCHANGED vars
  BY <1>0, <1>15 DEF vars, coreVars, CoreTypeOK, ServiceTypeOK
<1>16. CASE ClearLock
  <2>1. CoreTypeOK'
    BY <1>0, <1>16 DEF ClearLock, coreVars, CoreTypeOK
  <2>2. ServiceTypeOK'
    BY <1>0, <1>16 DEF ClearLock, coreVars, ServiceTypeOK
  <2> QED BY <2>1, <2>2
<1> QED
  BY <1>16, <1>3, <1>4, <1>5, <1>6, <1>7, <1>8, <1>9, <1>10, <1>11, <1>12, <1>13, <1>14, <1>15
  DEF Next, RunCycle

LEMMA TypeInit == Init => TypeOK
<1> SUFFICES ASSUME Init PROVE CoreTypeOK /\ ServiceTypeOK
  BY DEF TypeOK, ServiceTypeOK
<1>1. CoreTypeOK
  BY LimitsAssumption, FaultsAssumption
     DEF Init, CoreInit, CoreTypeOK, CycleStates, InstructionStates, Labels
<1>2. ServiceTypeOK
  BY DEF Init, CoreInit, ServiceTypeOK
<1> QED BY <1>1, <1>2

(* The state of the service is well typed, and a cycle under way belongs to *)
(* a running command and to a time that has passed.                         *)
THEOREM TypeCorrect == Spec => []TypeOK
  BY TypeInit, TypeStep, PTL DEF Spec

(****************************************************************************)
(* One instruction in doubt.  The planner of a cycle that goes on saw no    *)
(* instruction in flight; the lock keeps that true until the cycle marks    *)
(* one of its own, and one is marked at a time.                             *)
(****************************************************************************)

(* A run under way holds the lock, so that there is one.                    *)
OneRun == \A p \in Procs : pc[p] # "idle" => lock = p

(* Whatever is in doubt is the instruction the run is at.                   *)
Mine(p) ==
  \A c \in Cycles, w \in Wallets :
    state[c][w] = "sending" => c = job[p].cycle /\ Current(p, w)

Clear(p) ==
  /\ pc[p] \in {"open", "put", "gate"} /\ ~blocked[p] => ~InFlight
  /\ pc[p] \in {"begin", "next", "skip"} => ~InFlight
  /\ pc[p] \in {"mark", "send", "sent", "fail"} => Mine(p)

DoubtInv == TypeOK /\ OneRun /\ \A p \in Procs : Clear(p)

(* The instruction the run is at gets an outcome, and nothing is in doubt.  *)
LEMMA OutcomeClears ==
  ASSUME CoreTypeOK, NEW p \in Procs, job[p].cycle \in Cycles, Mine(p),
         NEW w \in Wallets, Current(p, w), NEW s \in InstructionStates \ {"sending"},
         state' = [state EXCEPT ![job[p].cycle][w] = s]
  PROVE  ~InFlight'
<1> SUFFICES ASSUME NEW d \in Cycles, NEW v \in Wallets, state'[d][v] = "sending"
             PROVE  FALSE
  BY DEF InFlight
<1>1. state[d][v] = "sending" /\ (d # job[p].cycle \/ v # w)
  BY DEF CoreTypeOK
<1>2. d = job[p].cycle /\ Current(p, v)
  BY <1>1 DEF Mine
<1> QED BY <1>1, <1>2, CurrentIsUnique

LEMMA ExecuteClears == ASSUME CoreTypeOK, NEW p \in Procs, Clear(p), Execute(p) PROVE Clear(p)'
<1> DEFINE c == job[p].cycle
<1>0. pc[p] # "idle" /\ c \in Cycles
  BY DEF Execute, BeginSending, NextInstruction, MarkSkipped, MarkSending, WalletAccepts,
         WalletRejects, WalletAnswerLost, WalletAnswerUnknown, MarkSent, MarkFailed, CloseCycle,
         CoreTypeOK, Jobs
<1>1. CASE BeginSending(p)
  BY <1>1 DEF BeginSending, Goto, CoreTypeOK, Clear, InFlight
<1>2. CASE NextInstruction(p)
  <2>1. pc[p] = "next" /\ UNCHANGED <<state, job, todo>> /\ pc'[p] \in {"close", "skip", "mark"}
    BY <1>2 DEF NextInstruction, Goto, CoreTypeOK, storeVars, planVars
  <2>2. ~InFlight /\ ~InFlight'
    BY <2>1 DEF Clear, InFlight
  <2> QED BY <2>1, <2>2 DEF Clear, Mine, InFlight
<1>3. CASE MarkSkipped(p)
  <2>1. pc[p] = "skip" /\ pc'[p] = "next"
    BY <1>3 DEF MarkSkipped, Goto, CoreTypeOK
  <2>2. PICK w \in Wallets : state' = [state EXCEPT ![c][w] = "skipped"]
    BY <1>3 DEF MarkSkipped
  <2>3. ~InFlight'
    BY <1>0, <2>1, <2>2 DEF Clear, InFlight, CoreTypeOK
  <2> QED BY <2>1, <2>3 DEF Clear
<1>4. CASE MarkSending(p)
  <2>1. pc[p] = "mark" /\ pc'[p] = "send" /\ UNCHANGED <<job, todo>>
    BY <1>4 DEF MarkSending, Goto, CoreTypeOK, planVars
  <2>2. PICK w \in Wallets : Current(p, w) /\ state' = [state EXCEPT ![c][w] = "sending"]
    BY <1>4 DEF MarkSending
  <2>3. ASSUME NEW d \in Cycles, NEW v \in Wallets, state'[d][v] = "sending"
        PROVE  d = job'[p].cycle /\ Current(p, v)'
    <3>1. CASE d = c /\ v = w
      BY <2>1, <2>2, <3>1 DEF Current
    <3>2. CASE ~(d = c /\ v = w)
      <4>1. state[d][v] = "sending"
        BY <1>0, <2>2, <2>3, <3>2 DEF CoreTypeOK
      <4> QED BY <2>1, <4>1 DEF Clear, Mine, Current
    <3> QED BY <3>1, <3>2
  <2> QED BY <2>1, <2>3 DEF Clear, Mine
<1>5. CASE WalletAccepts(p) \/ WalletRejects(p) \/ WalletAnswerLost(p)
  <2>1. pc[p] = "send" /\ pc'[p] \in {"sent", "mark", "fail"} /\ UNCHANGED <<state, job, todo>>
    BY <1>5 DEF WalletAccepts, WalletRejects, WalletAnswerLost, RetryOrFail, Goto, CoreTypeOK,
            storeVars, planVars
  <2> QED BY <2>1 DEF Clear, Mine, Current
<1>6. CASE WalletAnswerUnknown(p)
  BY <1>6 DEF WalletAnswerUnknown, Goto, CoreTypeOK, Clear
<1>7. CASE MarkSent(p) \/ MarkFailed(p)
  <2>1. pc[p] \in {"sent", "fail"} /\ pc'[p] = "next"
    BY <1>7 DEF MarkSent, MarkFailed, Goto, CoreTypeOK
  <2>2. PICK w \in Wallets, s \in {"sent", "failed"} :
          Current(p, w) /\ state' = [state EXCEPT ![c][w] = s]
    BY <1>7 DEF MarkSent, MarkFailed
  <2>3. ~InFlight'
    BY <1>0, <2>1, <2>2, OutcomeClears DEF Clear, InstructionStates
  <2> QED BY <2>1, <2>3 DEF Clear
<1>8. CASE CloseCycle(p)
  BY <1>8 DEF CloseCycle, Goto, CoreTypeOK, Clear
<1> QED BY <1>1, <1>2, <1>3, <1>4, <1>5, <1>6, <1>7, <1>8 DEF Execute

LEMMA PlanClears ==
  ASSUME CoreTypeOK, NEW p \in Procs, Clear(p),
         ReadBalance(p, "plan") \/ Plan(p, paused) \/ OpenCycle(p) \/ PutInstruction(p)
  PROVE  Clear(p)'
<1>1. CASE ReadBalance(p, "plan")
  BY <1>1 DEF ReadBalance, Goto, CoreTypeOK, Clear
<1>2. CASE Plan(p, paused)
  <2>1. pc'[p] = "open" /\ (InFlight => blocked'[p]) /\ UNCHANGED state
    BY <1>2 DEF Plan, Goto, CoreTypeOK, storeVars
  <2> QED BY <2>1 DEF Clear, InFlight
<1>3. CASE OpenCycle(p)
  <2>1. pc[p] = "open" /\ pc'[p] \in {"put", "gate"} /\ UNCHANGED <<state, blocked>>
    BY <1>3 DEF OpenCycle, Goto, CoreTypeOK, planVars
  <2> QED BY <2>1 DEF Clear, InFlight
<1>4. CASE PutInstruction(p)
  <2>1. pc[p] = "put" /\ pc'[p] \in {"put", "gate"} /\ UNCHANGED blocked /\ job[p].cycle \in Cycles
    BY <1>4 DEF PutInstruction, Goto, CoreTypeOK, planVars, Jobs
  <2>2. \/ UNCHANGED state
        \/ \E w \in Wallets : state' = [state EXCEPT ![job[p].cycle][w] = "planned"]
    BY <1>4 DEF PutInstruction
  <2>3. InFlight' => InFlight
    <3>1. CASE UNCHANGED state
      BY <3>1 DEF InFlight
    <3>2. ASSUME NEW w \in Wallets, state' = [state EXCEPT ![job[p].cycle][w] = "planned"]
          PROVE  InFlight' => InFlight
      BY <2>1, <3>2 DEF InFlight, CoreTypeOK
    <3> QED BY <2>2, <3>1, <3>2
  <2> QED BY <2>1, <2>3 DEF Clear
<1> QED BY <1>1, <1>2, <1>3, <1>4

(* While a run is under way the others are not, so what it does to the      *)
(* store is nobody else's concern.                                          *)
LEMMA DoubtAlone ==
  ASSUME DoubtInv, TypeOK', NEW p \in Procs, pc[p] # "idle",
         \A q \in Procs : q # p => pc'[q] = pc[q], Clear(p)', UNCHANGED lock
  PROVE  DoubtInv'
<1>1. lock' = p /\ \A q \in Procs : q # p => pc'[q] = "idle"
  BY DEF DoubtInv, OneRun
<1>2. OneRun'
  BY <1>1 DEF OneRun
<1>3. \A q \in Procs : Clear(q)'
  BY <1>1 DEF Clear
<1> QED BY <1>2, <1>3 DEF DoubtInv

(* Nobody is in a cycle while no process has the lock file.                 *)
LEMMA FreeLock == ASSUME OneRun, lock \in {Free, Orphan} PROVE \A q \in Procs : pc[q] = "idle"
  BY ServiceAssumption DEF OneRun

LEMMA DoubtStep == ASSUME DoubtInv, [Next]_vars PROVE DoubtInv'
<1>0. TypeOK /\ CoreTypeOK /\ OneRun /\ TypeOK'
  BY TypeStep DEF DoubtInv, TypeOK
<1>1. ASSUME UNCHANGED <<pc, job, blocked, todo, state, lock>> PROVE DoubtInv'
  BY <1>0, <1>1 DEF DoubtInv, OneRun, Clear, Mine, InFlight, Current
<1>2. ASSUME NEW p \in Procs, Exit(p), UNCHANGED state, pc[p] # "idle" \/ UNCHANGED lock
      PROVE  DoubtInv'
  <2>1. pc' = [pc EXCEPT ![p] = "idle"]
    BY <1>2 DEF Exit, Goto
  <2>2. \A q \in Procs : pc'[q] # "idle" =>
          /\ pc'[q] = pc[q] /\ job'[q] = job[q] /\ blocked'[q] = blocked[q] /\ todo'[q] = todo[q]
    BY <1>0, <1>2, <2>1 DEF Exit, CoreTypeOK
  <2>3. \A q \in Procs : Clear(q)'
    BY <1>2, <2>2 DEF DoubtInv, Clear, Mine, InFlight, Current
  <2>4. OneRun'
    BY <1>0, <1>2, <2>1, <2>2 DEF OneRun, CoreTypeOK
  <2> QED BY <1>0, <2>3, <2>4 DEF DoubtInv
<1>3. ASSUME NEW p \in Procs, BeginCycle(p) PROVE DoubtInv'
  <2>1. /\ pc' = [pc EXCEPT ![p] = "check"] /\ lock' = p
        /\ \A q \in Procs : pc[q] = "idle"
    BY <1>0, <1>3, FreeLock DEF BeginCycle, LockFree, Goto
  <2>2. \A q \in Procs : pc'[q] # "idle" => q = p /\ pc'[q] = "check"
    BY <1>0, <2>1 DEF CoreTypeOK
  <2> QED BY <1>0, <2>1, <2>2 DEF DoubtInv, OneRun, Clear
<1>4. ASSUME NEW p \in Procs, RunCycle(p) \/ Die(p) PROVE DoubtInv'
  <2>1. CASE Exit(p) /\ UNCHANGED state /\ pc[p] # "idle"
    BY <1>2, <2>1
  <2>2. CASE CollectFleet(p) /\ ~Exit(p)
    <3>1. pc[p] = "check" /\ pc' = [pc EXCEPT ![p] = "balance"] /\ UNCHANGED lock
      BY <2>2 DEF CollectFleet, EndCycle, Return, Goto
    <3>2. Clear(p)' /\ \A q \in Procs : q # p => pc'[q] = pc[q]
      BY <1>0, <3>1 DEF Clear, CoreTypeOK
    <3> QED BY <1>0, <3>1, <3>2, DoubtAlone
  <2>3. CASE PlanAndPersist(p)
    <3>1. pc[p] # "idle" /\ UNCHANGED lock /\ \A q \in Procs : q # p => pc'[q] = pc[q]
      BY <1>0, <2>3 DEF service, PlanAndPersist, ReadBalance, Plan, OpenCycle, PutInstruction, Goto, CoreTypeOK
    <3>2. Clear(p)'
      BY <1>0, <2>3, PlanClears DEF PlanAndPersist, DoubtInv
    <3> QED BY <1>0, <3>1, <3>2, DoubtAlone
  <2>4. CASE GoLive(p)
    <3>1. /\ pc[p] = "gate" /\ ~blocked[p] /\ pc' = [pc EXCEPT ![p] = "begin"]
          /\ UNCHANGED <<state, lock>>
      BY <2>4 DEF GoLive, Goto, storeVars, service
    <3>2. Clear(p)' /\ \A q \in Procs : q # p => pc'[q] = pc[q]
      BY <1>0, <3>1 DEF DoubtInv, Clear, InFlight, CoreTypeOK
    <3> QED BY <1>0, <3>1, <3>2, DoubtAlone
  <2>5. CASE ExecutePlan(p)
    <3>1. pc[p] # "idle" /\ UNCHANGED lock /\ \A q \in Procs : q # p => pc'[q] = pc[q]
      BY <1>0, <2>5 DEF service, ExecutePlan, Execute, BeginSending, NextInstruction, MarkSkipped, MarkSending,
         WalletAccepts, WalletRejects, WalletAnswerLost, WalletAnswerUnknown, MarkSent, MarkFailed,
         CloseCycle, Goto, RetryOrFail, CoreTypeOK
    <3>2. Clear(p)'
      BY <1>0, <2>5, ExecuteClears DEF ExecutePlan, DoubtInv
    <3> QED BY <1>0, <3>1, <3>2, DoubtAlone
  <2>6. CASE Refuse(p) \/ DryRun(p) \/ Report(p) \/ Die(p)
    BY <2>1, <2>6 DEF Refuse, DryRun, Report, Die, Crash, EndCycle, Return, storeVars
  <2>7. CollectFleet(p) => UNCHANGED state /\ pc[p] # "idle"
    BY DEF CollectFleet, storeVars
  <2> QED BY <1>4, <2>1, <2>2, <2>3, <2>4, <2>5, <2>6, <2>7 DEF RunCycle
<1>5. ASSUME NEW p \in Procs, LockHeld(p) PROVE DoubtInv'
  BY <1>2, <1>5 DEF LockHeld, Return, storeVars
<1>6. ASSUME NEW c \in Cycles, NEW w \in Wallets, Resolve(c, w) PROVE DoubtInv'
  <2>1. \A p \in Procs : pc'[p] = "idle"
    BY <1>6 DEF Resolve, runVars
  <2> QED BY <1>0, <2>1 DEF DoubtInv, OneRun, Clear
<1>7. CASE (\E p \in Procs, cmd \in Commands : Start(p, cmd)) \/ Pause \/ Resume \/ UNCHANGED vars
  BY <1>1, <1>7 DEF Start, Pause, Resume, vars, coreVars, storeVars, runVars, service
<1>8. CASE ClearLock
  <2>1. \A p \in Procs : pc'[p] = "idle"
    BY <1>0, <1>8, FreeLock DEF ClearLock, coreVars, runVars
  <2> QED BY <1>0, <2>1 DEF DoubtInv, OneRun, Clear
<1> QED BY <1>3, <1>4, <1>5, <1>6, <1>7, <1>8 DEF Next

(* While the fate of one instruction is open no other is sent, whatever the *)
(* processes, the faults and the commands (executor.py:144-228,             *)
(* service.py:153-197).                                                     *)
THEOREM OneAtATime == Spec => []OneInDoubt
<1>1. Init => DoubtInv
  <2> SUFFICES ASSUME Init PROVE DoubtInv
    OBVIOUS
  <2>1. \A p \in Procs : pc[p] = "idle"
    BY DEF Init, CoreInit
  <2> QED BY <2>1, TypeInit DEF DoubtInv, OneRun, Clear
<1>2. DoubtInv => OneInDoubt
  BY DEF DoubtInv, Clear, Mine, OneInDoubt
<1> QED BY <1>1, <1>2, DoubtStep, PTL DEF Spec

(****************************************************************************)
(* What the audit store accounts for.  A cycle is of a time of its own, so  *)
(* a run finds no rows of it, gives each instruction a row with the amount  *)
(* it is going to send, and sends it once.                                  *)
(****************************************************************************)

(* No spend whose answer is lost: after one the row says "failed" or the    *)
(* instruction is sent again, and the store no longer tells what moved.     *)
AnswersArrive == "lost" \notin FaultKinds

(* What a row says of the money; the cycles to come have no rows.           *)
RowTrue(c, w) ==
  /\ spends[c][w] \in {0, 1}
  /\ state[c][w] = "sent" => spends[c][w] = 1
  /\ state[c][w] \in {"none", "planned", "failed"} => spends[c][w] = 0
  /\ state[c][w] # "skipped"
  /\ c >= clock => state[c][w] = "none"

(* The instruction waits to be sent, for what the run will send.            *)
Priced(p, w) == amount[job[p].cycle][w] = PlanAmount(job[p].cycle, w, job[p].cap)
Waits(p, w) == state[job[p].cycle][w] = "planned" /\ Priced(p, w)

Loop == {"next", "mark", "send", "sent", "fail"}

(* Where the rows of its cycle stand, from the point of view of a run.      *)
PlanTrue(p) ==
  LET c == job[p].cycle
  IN /\ pc[p] \in {"check", "balance", "plan", "open"} => \A w \in Wallets : state[c][w] = "none"
     /\ pc[p] = "put" =>
          /\ todo[p] \subseteq Instructed(c)
          /\ \A w \in todo[p] : state[c][w] = "none"
          /\ \A w \in Instructed(c) \ todo[p] : Waits(p, w)
     /\ pc[p] \in {"gate", "begin"} => \A w \in Instructed(c) : Waits(p, w)

LoopTrue(p) ==
  LET c == job[p].cycle
  IN /\ pc[p] # "skip"
     /\ pc[p] \in Loop => \A w \in todo[p] :
          /\ Priced(p, w)
          /\ pc[p] = "next" \/ ~Current(p, w) => Waits(p, w)
     /\ pc[p] \in {"mark", "send", "fail"} => \A w \in todo[p] : Current(p, w) => spends[c][w] = 0
     /\ pc[p] = "sent" => \A w \in todo[p] : Current(p, w) => spends[c][w] = 1
     /\ pc[p] \in {"send", "sent", "fail"} =>
          \A w \in todo[p] : Current(p, w) => state[c][w] = "sending"

Rows == Cycles \X Wallets
Moved == [r \in Rows |-> IF spends[r[1]][r[2]] = 1 THEN amount[r[1]][r[2]] ELSE 0]
Balanced == InitialBalance - balance = SumFunctionOnSet(Moved, Rows)

AccountInv ==
  /\ DoubtInv
  /\ \A c \in Cycles, w \in Wallets : RowTrue(c, w)
  /\ \A p \in Procs : PlanTrue(p) /\ LoopTrue(p)
  /\ Balanced

LEMMA RowsAreFinite == IsFiniteSet(Rows)
  BY FS_Product, ServiceAssumption DEF Rows

LEMMA MovedType == CoreTypeOK => \A r \in Rows : Moved[r] \in Nat
  BY DEF CoreTypeOK, Moved, Rows

LEMMA UpdateAt ==
  ASSUME NEW S, NEW T, NEW V, NEW f \in [S -> [T -> V]], NEW s \in S, NEW t \in T, NEW x
  PROVE  \A d \in S, v \in T :
           [f EXCEPT ![s][t] = x][d][v] = IF d = s /\ v = t THEN x ELSE f[d][v]
  OBVIOUS

(* No money moves, and the amount of a row that was paid stays.             *)
LEMMA MoneyStays ==
  ASSUME AccountInv, CoreTypeOK', UNCHANGED walletVars,
         \A c \in Cycles, w \in Wallets : spends[c][w] = 1 => amount'[c][w] = amount[c][w]
  PROVE  Balanced'
<1>1. \A r \in Rows : Moved'[r] = Moved[r]
  BY DEF Moved, Rows, walletVars
<1>2. SumFunctionOnSet(Moved, Rows)' = SumFunctionOnSet(Moved, Rows)
  <2>1. PICK f : f = Moved
    OBVIOUS
  <2>2. PICK g : g = Moved'
    OBVIOUS
  <2>3. \A r \in Rows : g[r] = f[r]
    BY <1>1, <2>1, <2>2
  <2>4. SumFunctionOnSet(g, Rows) = SumFunctionOnSet(f, Rows)
    BY <2>3, RowsAreFinite, SumCongruent
  <2>5. Rows' = Rows
    BY DEF Rows
  <2> QED BY <2>1, <2>2, <2>4, <2>5
<1> QED BY <1>2 DEF AccountInv, Balanced, walletVars

(* The wallet takes a spend of what the row is for, the first for that row. *)
LEMMA MoneyMoves ==
  ASSUME AccountInv, CoreTypeOK', NEW c \in Cycles, NEW w \in Wallets,
         spends[c][w] = 0, Accept(c, w, amount[c][w]), UNCHANGED amount
  PROVE  /\ Balanced'
         /\ \A d \in Cycles, v \in Wallets :
              spends'[d][v] = IF d = c /\ v = w THEN 1 ELSE spends[d][v]
<1>0. CoreTypeOK
  BY DEF AccountInv, DoubtInv, TypeOK
<1>1. \A d \in Cycles, v \in Wallets :
         spends'[d][v] = IF d = c /\ v = w THEN 1 ELSE spends[d][v]
  <2>1. spends' = [spends EXCEPT ![c][w] = 1]
    BY <1>0 DEF Accept, CoreTypeOK
  <2> QED BY <1>0, <2>1, UpdateAt DEF CoreTypeOK
<1>2. PICK f : f = Moved
  OBVIOUS
<1>3. PICK g : g = Moved'
  OBVIOUS
<1>4. PICK x : x = <<c, w>>
  OBVIOUS
<1>5. x \in Rows /\ \A r \in Rows : f[r] \in Int /\ g[r] \in Int
  BY <1>0, <1>2, <1>3, <1>4, MovedType DEF Moved, Rows, CoreTypeOK
<1>6. g[x] = amount[c][w] /\ f[x] = 0
  BY <1>1, <1>2, <1>3, <1>4, <1>5 DEF Moved, Rows
<1>7. \A r \in Rows \ {x} : g[r] = f[r]
  BY <1>1, <1>2, <1>3, <1>4 DEF Moved, Rows
<1>8. SumFunctionOnSet(g, Rows) = SumFunctionOnSet(f, Rows) + (g[x] - f[x])
  BY <1>5, <1>7, RowsAreFinite, SumUpdate
<1>9. SumFunctionOnSet(f, Rows) = InitialBalance - balance /\ balance' = balance - amount[c][w]
  BY <1>2 DEF AccountInv, Balanced, Accept
<1>10. InitialBalance \in Int /\ balance \in Int /\ amount[c][w] \in Int
  BY <1>0, LimitsAssumption DEF CoreTypeOK
<1>11. InitialBalance - balance' = SumFunctionOnSet(g, Rows)
  BY <1>6, <1>8, <1>9, <1>10
<1>12. Rows' = Rows
  BY DEF Rows
<1> QED BY <1>1, <1>3, <1>11, <1>12 DEF Balanced

LEMMA IdleTrue ==
  ASSUME NEW p \in Procs, pc[p] = "idle"
  PROVE  PlanTrue(p) /\ LoopTrue(p)
  BY DEF PlanTrue, LoopTrue, Loop

(* While a run is under way the others are not, so it has only itself, the  *)
(* rows and the balance to answer for.                                      *)
LEMMA AccountAlone ==
  ASSUME AccountInv, DoubtInv', NEW p \in Procs, pc[p] # "idle",
         \A q \in Procs : q # p => pc'[q] = pc[q],
         \A c \in Cycles, w \in Wallets : RowTrue(c, w)',
         PlanTrue(p)', LoopTrue(p)', Balanced'
  PROVE  AccountInv'
<1>1. \A q \in Procs : q # p => pc'[q] = "idle"
  BY DEF AccountInv, DoubtInv, OneRun
<1>2. \A q \in Procs : PlanTrue(q)' /\ LoopTrue(q)'
  BY <1>1 DEF PlanTrue, LoopTrue, Loop
<1> QED BY <1>2 DEF AccountInv

LEMMA RowsStay ==
  ASSUME AccountInv, UNCHANGED <<state, spends>>, clock \in Nat, clock' \in Nat, clock <= clock'
  PROVE  \A c \in Cycles, w \in Wallets : RowTrue(c, w)'
<1> SUFFICES ASSUME NEW c \in Cycles, NEW w \in Wallets PROVE RowTrue(c, w)'
  OBVIOUS
<1>1. RowTrue(c, w)
  BY DEF AccountInv
<1>2. c >= clock' => c >= clock
  BY ServiceAssumption
<1> QED BY <1>1, <1>2 DEF RowTrue

(* The run's own row changes, and the others stay.                          *)
RowsAfter(c, w, s) ==
  /\ \A d \in Cycles, v \in Wallets : RowTrue(d, v)'
  /\ \A d \in Cycles, v \in Wallets :
       state'[d][v] = IF d = c /\ v = w THEN s ELSE state[d][v]

LEMMA RowChanges ==
  ASSUME AccountInv, NEW p \in Procs, pc[p] # "idle", NEW w \in Wallets,
         NEW s \in InstructionStates \ {"skipped"},
         state' = [state EXCEPT ![job[p].cycle][w] = s], UNCHANGED <<spends, clock>>,
         s = "sent" => spends[job[p].cycle][w] = 1,
         s \in {"none", "planned", "failed"} => spends[job[p].cycle][w] = 0
  PROVE  RowsAfter(job[p].cycle, w, s)
<1>0. TypeOK /\ CoreTypeOK
  BY DEF AccountInv, DoubtInv, TypeOK
<1>1. PICK c : c = job[p].cycle
  OBVIOUS
<1>2. c \in Cycles /\ c < clock /\ c \in Nat /\ clock \in Nat
  BY <1>0, <1>1, ServiceAssumption DEF TypeOK, CoreTypeOK, Jobs
<1>3. state' = [state EXCEPT ![c][w] = s]
  BY <1>1
<1>4. \A d \in Cycles, v \in Wallets : state'[d][v] = IF d = c /\ v = w THEN s ELSE state[d][v]
  BY <1>0, <1>2, <1>3, UpdateAt DEF CoreTypeOK
<1>5. ASSUME NEW d \in Cycles, NEW v \in Wallets PROVE RowTrue(d, v)'
  <2>1. RowTrue(d, v)
    BY DEF AccountInv
  <2>2. CASE d = c /\ v = w
    BY <1>1, <1>2, <1>4, <2>1, <2>2 DEF RowTrue
  <2>3. CASE ~(d = c /\ v = w)
    BY <1>4, <2>1, <2>3 DEF RowTrue
  <2> QED BY <2>2, <2>3
<1> QED BY <1>1, <1>4, <1>5 DEF RowsAfter

(* The steps of the planner.                                                *)
LEMMA PlanAccounts ==
  ASSUME AccountInv, DoubtInv', NEW p \in Procs, PlanAndPersist(p)
  PROVE  AccountInv'
<1>0. TypeOK /\ CoreTypeOK /\ CoreTypeOK' /\ PlanTrue(p) /\ LoopTrue(p) /\ clock \in Nat
  BY DEF AccountInv, DoubtInv, TypeOK
<1>1. /\ pc[p] \in {"balance", "plan", "open", "put"}
      /\ \A q \in Procs : q # p => pc'[q] = pc[q]
      /\ UNCHANGED <<job, spends, walletVars, clock>>
  BY <1>0 DEF PlanAndPersist, ReadBalance, Plan, OpenCycle, PutInstruction, Goto, CoreTypeOK,
     walletVars, planVars, service
<1>2. PICK c : c = job[p].cycle
  OBVIOUS
<1>3. c \in Cycles /\ job[p] \in Jobs
  BY <1>0, <1>1, <1>2 DEF CoreTypeOK, Jobs
<1>4. CASE ReadBalance(p, "plan") \/ Plan(p, paused)
  <2>1. /\ pc[p] \in {"balance", "plan"} /\ pc'[p] \in {"plan", "open"}
        /\ UNCHANGED <<state, amount, todo>>
    BY <1>0, <1>4 DEF ReadBalance, Plan, Goto, CoreTypeOK, storeVars
  <2>2. \A d \in Cycles, w \in Wallets : RowTrue(d, w)'
    BY <1>0, <1>1, <2>1, RowsStay
  <2>3. Balanced'
    BY <1>0, <1>1, <2>1, MoneyStays
  <2>4. PlanTrue(p)' /\ LoopTrue(p)'
    BY <1>0, <1>1, <2>1 DEF PlanTrue, LoopTrue, Loop
  <2> QED BY <1>1, <2>2, <2>3, <2>4, AccountAlone
<1>5. CASE OpenCycle(p)
  <2>1. /\ pc[p] = "open"
        /\ pc'[p] = IF Instructed(c) = {} THEN "gate" ELSE "put"
        /\ UNCHANGED <<state, amount>> /\ todo'[p] = Instructed(c)
    BY <1>0, <1>2, <1>5 DEF OpenCycle, Goto, CoreTypeOK
  <2>2. \A d \in Cycles, w \in Wallets : RowTrue(d, w)'
    BY <1>0, <1>1, <2>1, RowsStay
  <2>3. Balanced'
    BY <1>0, <1>1, <2>1, MoneyStays
  <2>4. PlanTrue(p)' /\ LoopTrue(p)'
    <3>1. (\A w \in Wallets : state'[c][w] = "none") /\ job'[p].cycle = c
      BY <1>0, <1>1, <1>2, <2>1 DEF PlanTrue
    <3> QED BY <2>1, <3>1 DEF PlanTrue, LoopTrue, Loop, Instructed
  <2> QED BY <1>1, <2>2, <2>3, <2>4, AccountAlone
<1>6. CASE PutInstruction(p)
  <2>1. pc[p] = "put"
    BY <1>6 DEF PutInstruction
  <2>2. PICK w \in Wallets :
          /\ Current(p, w)
          /\ \/ /\ state[c][w] = "none"
                /\ state' = [state EXCEPT ![c][w] = "planned"]
                /\ amount' = [amount EXCEPT ![c][w] = PlanAmount(c, w, job[p].cap)]
             \/ state[c][w] # "none" /\ UNCHANGED <<state, amount>>
          /\ todo' = [todo EXCEPT ![p] = @ \ {w}]
          /\ pc' = [pc EXCEPT ![p] = IF todo[p] = {w} THEN "gate" ELSE "put"]
    BY <1>2, <1>6 DEF PutInstruction, Goto
  <2>3. /\ todo[p] \subseteq Instructed(c) /\ w \in todo[p]
        /\ \A v \in todo[p] : state[c][v] = "none"
        /\ \A v \in Instructed(c) \ todo[p] : Waits(p, v)
    BY <1>0, <1>2, <2>1, <2>2 DEF PlanTrue, Current
  <2>4. /\ state' = [state EXCEPT ![c][w] = "planned"]
        /\ amount' = [amount EXCEPT ![c][w] = PlanAmount(c, w, job[p].cap)]
    BY <2>2, <2>3
  <2>5. RowTrue(c, w) /\ spends[c][w] = 0
    BY <1>3, <2>3 DEF AccountInv, RowTrue
  <2>6. /\ \A d \in Cycles, v \in Wallets : RowTrue(d, v)'
        /\ \A d \in Cycles, v \in Wallets :
             state'[d][v] = IF d = c /\ v = w THEN "planned" ELSE state[d][v]
    <3>1. state' = [state EXCEPT ![job[p].cycle][w] = "planned"] /\ spends[job[p].cycle][w] = 0
      BY <1>2, <2>4, <2>5
    <3>2. pc[p] # "idle" /\ UNCHANGED <<spends, clock>>
      BY <1>1
    <3>3. "planned" \in InstructionStates \ {"skipped"} /\ "planned" # "sent"
      BY DEF InstructionStates
    <3>4. RowsAfter(job[p].cycle, w, "planned")
      BY <3>1, <3>2, <3>3, RowChanges
    <3> QED BY <1>2, <3>4 DEF RowsAfter
  <2>7. \A d \in Cycles, v \in Wallets :
          amount'[d][v] = IF d = c /\ v = w THEN PlanAmount(c, w, job[p].cap) ELSE amount[d][v]
    BY <1>0, <1>3, <2>4, UpdateAt DEF CoreTypeOK
  <2>8. Balanced'
    BY <1>0, <1>1, <2>5, <2>7, MoneyStays
  <2>9. /\ todo'[p] = todo[p] \ {w}
        /\ pc'[p] = IF todo[p] = {w} THEN "gate" ELSE "put"
    BY <1>0, <2>2 DEF CoreTypeOK
  <2>10. \A v \in Instructed(c) \ todo'[p] : Waits(p, v)'
    <3> SUFFICES ASSUME NEW v \in Instructed(c) \ todo'[p] PROVE Waits(p, v)'
      OBVIOUS
    <3>1. v \in Wallets
      BY DEF Instructed
    <3>2. v = w \/ Waits(p, v)
      BY <2>3, <2>9
    <3> QED BY <1>1, <1>2, <1>3, <2>6, <2>7, <3>1, <3>2 DEF Waits, Priced
  <2>11. \A v \in todo'[p] : v \in Wallets /\ state'[c][v] = "none"
    BY <1>0, <1>3, <2>3, <2>6, <2>9 DEF Instructed
  <2>12. todo'[p] \subseteq Instructed(c) /\ (pc'[p] = "gate" => todo'[p] = {})
    BY <2>3, <2>9
  <2>13. PlanTrue(p)' /\ LoopTrue(p)'
    <3>1. pc'[p] \in {"gate", "put"} /\ job'[p].cycle = c
      BY <1>1, <1>2, <2>9
    <3> QED BY <2>10, <2>11, <2>12, <3>1 DEF PlanTrue, LoopTrue, Loop, Instructed
  <2> QED BY <1>1, <2>6, <2>8, <2>13, AccountAlone
<1> QED BY <1>4, <1>5, <1>6 DEF PlanAndPersist

(* The wallet takes the spend the run is at, or does not.                   *)
LEMMA SendAccounts ==
  ASSUME AccountInv, CoreTypeOK', NEW p \in Procs, pc[p] = "send", NEW w \in Wallets, Current(p, w),
         MaybeAccept(job[p].cycle, w, PlanAmount(job[p].cycle, w, job[p].cap)),
         UNCHANGED <<state, amount, clock>>
  PROVE  /\ \A d \in Cycles, v \in Wallets : RowTrue(d, v)'
         /\ Balanced'
         /\ Accept(job[p].cycle, w, PlanAmount(job[p].cycle, w, job[p].cap))
              => spends'[job[p].cycle][w] = 1
<1>0. TypeOK /\ CoreTypeOK /\ LoopTrue(p) /\ clock \in Nat
  BY DEF AccountInv, DoubtInv, TypeOK
<1>1. PICK c : c = job[p].cycle
  OBVIOUS
<1>2. c \in Cycles
  BY <1>0, <1>1 DEF CoreTypeOK, Jobs
<1>3. PICK m : m = PlanAmount(job[p].cycle, w, job[p].cap)
  OBVIOUS
<1>4. amount[c][w] = m /\ spends[c][w] = 0 /\ state[c][w] = "sending"
  BY <1>0, <1>1, <1>3 DEF LoopTrue, Loop, Priced, Current
<1>5. CASE UNCHANGED walletVars
  <2>1. \A d \in Cycles, v \in Wallets : RowTrue(d, v)'
    BY <1>0, <1>5, RowsStay DEF walletVars
  <2>2. Balanced'
    BY <1>0, <1>5, MoneyStays
  <2>3. ~Accept(c, w, m) \/ spends'[c][w] = 1
    BY <1>0, <1>2, <1>4, UpdateAt DEF Accept, CoreTypeOK
  <2> QED BY <1>1, <1>3, <2>1, <2>2, <2>3
<1>6. CASE Accept(c, w, m)
  <2>1. Accept(c, w, amount[c][w])
    BY <1>4, <1>6
  <2>2. /\ Balanced'
        /\ \A d \in Cycles, v \in Wallets :
             spends'[d][v] = IF d = c /\ v = w THEN 1 ELSE spends[d][v]
    BY <1>2, <1>4, <2>1, MoneyMoves
  <2>3. ASSUME NEW d \in Cycles, NEW v \in Wallets PROVE RowTrue(d, v)'
    <3>1. RowTrue(d, v) /\ (d = c /\ v = w => state[d][v] = "sending")
      BY <1>4 DEF AccountInv
    <3>2. spends'[d][v] = IF d = c /\ v = w THEN 1 ELSE spends[d][v]
      BY <2>2
    <3> QED BY <3>1, <3>2 DEF RowTrue
  <2>4. spends'[c][w] = 1
    BY <1>2, <2>2
  <2> QED BY <1>1, <2>2, <2>3, <2>4
<1> QED BY <1>1, <1>3, <1>5, <1>6 DEF MaybeAccept

(* An instruction gets its outcome, and the run goes on to the next.        *)
LEMMA OutcomeAccounts ==
  ASSUME AccountInv, DoubtInv', NEW p \in Procs, NEW w \in Wallets, Current(p, w),
         NEW s \in {"sent", "failed"}, pc[p] = IF s = "sent" THEN "sent" ELSE "fail",
         state' = [state EXCEPT ![job[p].cycle][w] = s],
         todo' = [todo EXCEPT ![p] = @ \ {w}],
         pc' = [pc EXCEPT ![p] = "next"],
         UNCHANGED <<job, amount, spends, balance, clock>>
  PROVE  AccountInv'
<1>0. TypeOK /\ CoreTypeOK /\ CoreTypeOK' /\ PlanTrue(p) /\ LoopTrue(p)
  BY DEF AccountInv, DoubtInv, TypeOK
<1>1. PICK c : c = job[p].cycle
  OBVIOUS
<1>2. c \in Cycles /\ w \in todo[p]
  BY <1>0, <1>1 DEF CoreTypeOK, Jobs, Current
<1>3. spends[c][w] = IF s = "sent" THEN 1 ELSE 0
  BY <1>0, <1>1, <1>2 DEF LoopTrue
<1>4. pc[p] # "idle" /\ s \in InstructionStates \ {"skipped"}
  BY DEF InstructionStates
<1>5. s = "sent" => spends[job[p].cycle][w] = 1
  BY <1>1, <1>3
<1>6. s \in {"none", "planned", "failed"} => spends[job[p].cycle][w] = 0
  BY <1>1, <1>3
<1>7. /\ \A d \in Cycles, v \in Wallets : RowTrue(d, v)'
      /\ \A d \in Cycles, v \in Wallets :
           state'[d][v] = IF d = job[p].cycle /\ v = w THEN s ELSE state[d][v]
  <2>1. RowsAfter(job[p].cycle, w, s)
    BY <1>4, <1>5, <1>6, RowChanges
  <2> QED BY <2>1 DEF RowsAfter
<1>8. Balanced'
  BY <1>0, MoneyStays DEF walletVars
<1>9. pc'[p] = "next" /\ todo'[p] = todo[p] \ {w} /\ \A q \in Procs : q # p => pc'[q] = pc[q]
  BY <1>0 DEF CoreTypeOK
<1>10. \A v \in todo'[p] : Priced(p, v)' /\ Waits(p, v)'
  <2> SUFFICES ASSUME NEW v \in todo'[p] PROVE Priced(p, v)' /\ Waits(p, v)'
    OBVIOUS
  <2>1. v \in todo[p] /\ v # w /\ v \in Wallets
    BY <1>0, <1>9 DEF CoreTypeOK
  <2>2. ~Current(p, v)
    BY <2>1, CurrentIsUnique
  <2>3. Waits(p, v)
    BY <1>0, <2>1, <2>2 DEF LoopTrue, Loop
  <2>4. state'[c][v] = state[c][v]
    BY <1>1, <1>2, <1>7, <2>1
  <2> QED BY <1>1, <2>3, <2>4 DEF Waits, Priced
<1>11. PlanTrue(p)' /\ LoopTrue(p)'
  BY <1>9, <1>10 DEF PlanTrue, LoopTrue
<1> QED BY <1>4, <1>7, <1>8, <1>9, <1>11, AccountAlone

(* The steps of the executor.                                               *)
LEMMA ExecuteAccounts ==
  ASSUME AnswersArrive, AccountInv, DoubtInv', NEW p \in Procs, ExecutePlan(p)
  PROVE  AccountInv'
<1>0. TypeOK /\ CoreTypeOK /\ CoreTypeOK' /\ PlanTrue(p) /\ LoopTrue(p) /\ clock \in Nat
  BY DEF AccountInv, DoubtInv, TypeOK
<1>1. UNCHANGED <<job, amount, clock>> /\ Execute(p)
  BY DEF ExecutePlan, Execute, service, BeginSending, NextInstruction, MarkSkipped, MarkSending,
     WalletAccepts, WalletRejects, WalletAnswerLost, WalletAnswerUnknown, MarkSent, MarkFailed,
     CloseCycle, planVars, storeVars
<1>2. /\ pc[p] # "idle"
      /\ \A q \in Procs : q # p => pc'[q] = pc[q]
  BY <1>0, <1>1 DEF Execute, BeginSending, NextInstruction, MarkSkipped, MarkSending,
     WalletAccepts, WalletRejects, WalletAnswerLost, WalletAnswerUnknown, MarkSent, MarkFailed,
     CloseCycle, Goto, RetryOrFail, CoreTypeOK
<1>3. PICK c : c = job[p].cycle
  OBVIOUS
<1>4. c \in Cycles /\ job'[p].cycle = c
  BY <1>0, <1>1, <1>2, <1>3 DEF CoreTypeOK, Jobs
(* Steps that touch neither the rows nor the wallet.                        *)
<1>5. ASSUME UNCHANGED <<state, walletVars>>, PlanTrue(p)', LoopTrue(p)'
      PROVE  AccountInv'
  <2>1. \A d \in Cycles, w \in Wallets : RowTrue(d, w)'
    BY <1>0, <1>1, <1>5, RowsStay DEF walletVars
  <2>2. Balanced'
    BY <1>0, <1>1, <1>5, MoneyStays
  <2> QED BY <1>2, <1>5, <2>1, <2>2, AccountAlone
<1>6. CASE BeginSending(p)
  <2>1. /\ pc[p] = "begin" /\ pc'[p] = "next" /\ todo'[p] = Instructed(c)
        /\ UNCHANGED <<state, walletVars>>
    BY <1>0, <1>3, <1>6 DEF BeginSending, Goto, CoreTypeOK
  <2>2. \A w \in Instructed(c) : Waits(p, w)'
    BY <1>0, <1>1, <1>3, <2>1 DEF PlanTrue, Waits, Priced
  <2>3. PlanTrue(p)' /\ LoopTrue(p)'
    BY <2>1, <2>2 DEF PlanTrue, LoopTrue, Waits
  <2> QED BY <1>5, <2>1, <2>3
<1>7. CASE NextInstruction(p)
  <2>1. pc[p] = "next" /\ UNCHANGED <<state, walletVars, todo>>
    BY <1>7 DEF NextInstruction, storeVars
  <2>2. \A w \in todo[p] : w \in Wallets /\ Waits(p, w) /\ spends[c][w] = 0
    <3> SUFFICES ASSUME NEW w \in todo[p]
                 PROVE  w \in Wallets /\ Waits(p, w) /\ spends[c][w] = 0
      OBVIOUS
    <3>1. w \in Wallets /\ Waits(p, w)
      BY <1>0, <2>1 DEF LoopTrue, Loop, CoreTypeOK
    <3>2. RowTrue(c, w) /\ state[c][w] = "planned"
      BY <1>3, <1>4, <3>1 DEF AccountInv, Waits
    <3> QED BY <3>1, <3>2 DEF RowTrue
  <2>3. pc'[p] \in {"close", "mark"}
    <3>1. CASE pc' = [pc EXCEPT ![p] = "close"]
      BY <1>0, <3>1 DEF CoreTypeOK
    <3>2. CASE \E w \in Wallets : /\ Current(p, w)
                                  /\ Goto(p, IF state[c][w] \in Paid THEN "skip" ELSE "mark")
      <4>1. PICK w \in Wallets : /\ Current(p, w)
                                 /\ Goto(p, IF state[c][w] \in Paid THEN "skip" ELSE "mark")
        BY <3>2
      <4>2. state[c][w] = "planned"
        BY <1>3, <2>2, <4>1 DEF Waits, Current
      <4> QED BY <1>0, <4>1, <4>2 DEF Goto, Paid, CoreTypeOK
    <3> QED BY <1>3, <1>7, <3>1, <3>2 DEF NextInstruction, Goto
  <2>4. \A w \in todo'[p] : Priced(p, w)' /\ Waits(p, w)' /\ spends'[c][w] = 0
    BY <1>1, <2>1, <2>2 DEF Waits, Priced, walletVars
  <2>5. PlanTrue(p)' /\ LoopTrue(p)'
    BY <1>4, <2>3, <2>4 DEF PlanTrue, LoopTrue, Loop
  <2> QED BY <1>5, <2>1, <2>5
<1>8. CASE MarkSkipped(p)
  BY <1>0, <1>8 DEF MarkSkipped, LoopTrue
<1>9. CASE MarkSending(p)
  <2>1. pc[p] = "mark" /\ pc'[p] = "send" /\ UNCHANGED <<walletVars, todo, spends>>
    BY <1>0, <1>9 DEF MarkSending, Goto, CoreTypeOK, walletVars
  <2>2. PICK w \in Wallets : Current(p, w) /\ state' = [state EXCEPT ![job[p].cycle][w] = "sending"]
    BY <1>9 DEF MarkSending
  <2>3. "sending" \in InstructionStates \ {"skipped"} /\ "sending" \notin {"none", "planned", "failed"}
    BY DEF InstructionStates
  <2>4. /\ \A d \in Cycles, v \in Wallets : RowTrue(d, v)'
        /\ \A d \in Cycles, v \in Wallets :
             state'[d][v] = IF d = job[p].cycle /\ v = w THEN "sending" ELSE state[d][v]
    <3>1. RowsAfter(job[p].cycle, w, "sending")
      BY <1>1, <1>2, <2>1, <2>2, <2>3, RowChanges
    <3> QED BY <3>1 DEF RowsAfter
  <2>5. Balanced'
    BY <1>0, <1>1, <2>1, MoneyStays
  <2>6. ASSUME NEW v \in todo[p]
        PROVE  /\ Priced(p, v)'
               /\ Current(p, v) => spends[c][v] = 0 /\ state'[c][v] = "sending"
               /\ ~Current(p, v) => Waits(p, v)'
    <3>1. v \in Wallets /\ Priced(p, v) /\ (Current(p, v) => spends[c][v] = 0)
      BY <1>0, <1>3, <2>1 DEF LoopTrue, Loop, CoreTypeOK
    <3>2. CASE Current(p, v)
      <4>1. v = w
        BY <2>2, <3>1, <3>2, CurrentIsUnique
      <4> QED BY <1>1, <1>3, <1>4, <2>4, <3>1, <3>2, <4>1 DEF Priced
    <3>3. CASE ~Current(p, v)
      <4>1. v # w /\ Waits(p, v)
        BY <1>0, <2>1, <2>2, <3>3 DEF LoopTrue, Loop
      <4> QED BY <1>1, <1>3, <1>4, <2>4, <3>1, <3>3, <4>1 DEF Priced, Waits
    <3> QED BY <3>2, <3>3
  <2>7. PlanTrue(p)' /\ LoopTrue(p)'
    BY <1>4, <2>1, <2>6 DEF PlanTrue, LoopTrue, Loop, Current
  <2> QED BY <1>2, <2>4, <2>5, <2>7, AccountAlone
<1>10. CASE WalletAccepts(p) \/ WalletAnswerUnknown(p)
  <2>1. pc[p] = "send" /\ UNCHANGED <<state, todo>>
    BY <1>10 DEF WalletAccepts, WalletAnswerUnknown, storeVars
  <2>2. PICK w \in Wallets :
          /\ Current(p, w)
          /\ MaybeAccept(job[p].cycle, w, PlanAmount(job[p].cycle, w, job[p].cap))
          /\ \/ pc'[p] = "close"
             \/ pc'[p] = "sent" /\ Accept(job[p].cycle, w, PlanAmount(job[p].cycle, w, job[p].cap))
    BY <1>0, <1>10 DEF WalletAccepts, WalletAnswerUnknown, MaybeAccept, Goto, CoreTypeOK
  <2>3. /\ \A d \in Cycles, v \in Wallets : RowTrue(d, v)'
        /\ Balanced'
        /\ pc'[p] = "sent" => spends'[c][w] = 1
    BY <1>0, <1>1, <1>3, <2>1, <2>2, SendAccounts
  <2>4. ASSUME NEW v \in todo[p]
        PROVE  /\ Priced(p, v)'
               /\ Current(p, v) => v = w /\ state'[c][v] = "sending"
               /\ ~Current(p, v) => Waits(p, v)'
    <3>1. v \in Wallets /\ Priced(p, v)
      BY <1>0, <2>1 DEF LoopTrue, Loop, CoreTypeOK
    <3>2. ~Current(p, v) => Waits(p, v)
      BY <1>0, <2>1 DEF LoopTrue, Loop
    <3>3. Current(p, v) => state[c][v] = "sending"
      BY <1>0, <1>3, <2>1 DEF LoopTrue
    <3>4. Current(p, v) => v = w
      BY <2>2, <3>1, CurrentIsUnique
    <3> QED BY <1>1, <2>1, <3>1, <3>2, <3>3, <3>4 DEF Priced, Waits
  <2>5. PlanTrue(p)' /\ LoopTrue(p)'
    BY <1>4, <2>1, <2>2, <2>3, <2>4 DEF PlanTrue, LoopTrue, Loop, Current
  <2> QED BY <1>2, <2>3, <2>5, AccountAlone
<1>11. CASE WalletRejects(p)
  <2>1. pc[p] = "send" /\ pc'[p] \in {"mark", "fail"} /\ UNCHANGED <<state, walletVars, todo, spends>>
    BY <1>0, <1>11 DEF WalletRejects, RetryOrFail, Goto, CoreTypeOK, storeVars, walletVars
  <2>2. PlanTrue(p)' /\ LoopTrue(p)'
    BY <1>0, <1>1, <2>1 DEF PlanTrue, LoopTrue, Loop, Current, Priced, Waits
  <2> QED BY <1>5, <2>1, <2>2
<1>12. CASE WalletAnswerLost(p)
  BY <1>12 DEF WalletAnswerLost, Fault, AnswersArrive
<1>13. CASE MarkSent(p)
  <2>1. PICK w \in Wallets :
          /\ Current(p, w)
          /\ state' = [state EXCEPT ![job[p].cycle][w] = "sent"]
          /\ todo' = [todo EXCEPT ![p] = @ \ {w}]
    BY <1>13 DEF MarkSent
  <2>2. pc[p] = "sent" /\ pc' = [pc EXCEPT ![p] = "next"] /\ UNCHANGED <<spends, balance>>
    BY <1>13 DEF MarkSent, Goto, walletVars
  <2> QED BY <1>1, <2>1, <2>2, OutcomeAccounts
<1>14. CASE MarkFailed(p)
  <2>1. PICK w \in Wallets :
          /\ Current(p, w)
          /\ state' = [state EXCEPT ![job[p].cycle][w] = "failed"]
          /\ todo' = [todo EXCEPT ![p] = @ \ {w}]
    BY <1>14 DEF MarkFailed
  <2>2. pc[p] = "fail" /\ pc' = [pc EXCEPT ![p] = "next"] /\ UNCHANGED <<spends, balance>>
    BY <1>14 DEF MarkFailed, Goto, walletVars
  <2> QED BY <1>1, <2>1, <2>2, OutcomeAccounts
<1>15. CASE CloseCycle(p)
  <2>1. pc'[p] = "report" /\ UNCHANGED <<state, walletVars>>
    BY <1>0, <1>15 DEF CloseCycle, Goto, CoreTypeOK
  <2>2. PlanTrue(p)' /\ LoopTrue(p)'
    BY <2>1 DEF PlanTrue, LoopTrue, Loop
  <2> QED BY <1>5, <2>1, <2>2
<1> QED BY <1>1, <1>6, <1>7, <1>8, <1>9, <1>10, <1>11, <1>12, <1>13, <1>14, <1>15 DEF Execute

LEMMA AccountStep ==
  ASSUME AnswersArrive, AccountInv, [Next]_vars PROVE AccountInv'
<1>0. /\ TypeOK /\ CoreTypeOK /\ DoubtInv' /\ CoreTypeOK' /\ clock \in Nat /\ clock' \in Nat
      /\ \A p \in Procs : PlanTrue(p) /\ LoopTrue(p)
  BY DoubtStep DEF AccountInv, DoubtInv, TypeOK
<1>1. ASSUME UNCHANGED <<storeVars, walletVars, runVars, clock>> PROVE AccountInv'
  <2>1. UNCHANGED <<state, amount, spends, pc, job, todo>>
    BY <1>1 DEF storeVars, walletVars, runVars
  <2>2. \A c \in Cycles, w \in Wallets : RowTrue(c, w)'
    BY <1>0, <1>1, <2>1, RowsStay
  <2>3. Balanced'
    BY <1>0, <1>1, <2>1, MoneyStays
  <2>4. \A p \in Procs : PlanTrue(p)' /\ LoopTrue(p)'
    BY <1>0, <2>1 DEF PlanTrue, LoopTrue, Waits, Priced, Current
  <2> QED BY <1>0, <2>2, <2>3, <2>4 DEF AccountInv
(* The end of a process, if the rows and the balance are in order.          *)
<1>2. ASSUME NEW p \in Procs, Exit(p), \A c \in Cycles, w \in Wallets : RowTrue(c, w)', Balanced',
             UNCHANGED <<state, amount, spends>> \/ pc[p] # "idle"
      PROVE  AccountInv'
  <2>1. /\ pc'[p] = "idle"
        /\ \A q \in Procs : q # p =>
             pc'[q] = pc[q] /\ job'[q] = job[q] /\ todo'[q] = todo[q]
    BY <1>0, <1>2 DEF Exit, Goto, CoreTypeOK
  <2>2. PlanTrue(p)' /\ LoopTrue(p)'
    BY <2>1 DEF PlanTrue, LoopTrue, Loop
  <2>3. CASE pc[p] # "idle"
    BY <1>0, <1>2, <2>1, <2>2, <2>3, AccountAlone
  <2>4. CASE UNCHANGED <<state, amount, spends>>
    <3>1. ASSUME NEW q \in Procs, q # p PROVE PlanTrue(q)' /\ LoopTrue(q)'
      BY <1>0, <2>1, <2>4, <3>1 DEF PlanTrue, LoopTrue, Waits, Priced, Current
    <3> QED BY <1>0, <1>2, <2>2, <3>1 DEF AccountInv
  <2> QED BY <1>2, <2>3, <2>4
<1>3. ASSUME NEW p \in Procs, BeginCycle(p) PROVE AccountInv'
  <2>1. /\ pc' = [pc EXCEPT ![p] = "check"] /\ \A q \in Procs : pc[q] = "idle"
        /\ clock \in Cycles /\ clock' = clock + 1
        /\ UNCHANGED <<state, amount, spends, walletVars>>
    BY <1>3, FreeLock DEF BeginCycle, LockFree, AccountInv, DoubtInv, Goto, storeVars, walletVars
  <2>2. pc'[p] = "check" /\ job'[p].cycle = clock /\ \A q \in Procs : q # p => pc'[q] = "idle"
    BY <1>0, <1>3, <2>1 DEF BeginCycle, CoreTypeOK
  <2>3. clock <= clock' /\ clock >= clock
    BY <1>0, <2>1
  <2>4. \A c \in Cycles, w \in Wallets : RowTrue(c, w)'
    BY <1>0, <2>1, <2>3, RowsStay
  <2>5. Balanced'
    BY <1>0, <2>1, MoneyStays
  <2>6. \A w \in Wallets : state'[clock][w] = "none"
    BY <2>1, <2>3 DEF AccountInv, RowTrue
  <2>7. ASSUME NEW q \in Procs PROVE PlanTrue(q)' /\ LoopTrue(q)'
    BY <2>2, <2>6 DEF PlanTrue, LoopTrue, Loop
  <2> QED BY <1>0, <2>4, <2>5, <2>7 DEF AccountInv
<1>4. ASSUME NEW p \in Procs, CollectFleet(p), ~Exit(p) PROVE AccountInv'
  <2>1. /\ pc[p] = "check" /\ pc' = [pc EXCEPT ![p] = "balance"]
        /\ UNCHANGED <<state, amount, spends, walletVars, job, todo, clock>>
    BY <1>4 DEF CollectFleet, EndCycle, Return, Goto, storeVars, walletVars, planVars
  <2>2. pc'[p] = "balance" /\ \A q \in Procs : q # p => pc'[q] = pc[q]
    BY <1>0, <2>1 DEF CoreTypeOK
  <2>3. \A c \in Cycles, w \in Wallets : RowTrue(c, w)'
    BY <1>0, <2>1, RowsStay
  <2>4. Balanced'
    BY <1>0, <2>1, MoneyStays
  <2>5. PlanTrue(p)' /\ LoopTrue(p)'
    BY <1>0, <2>1, <2>2 DEF PlanTrue, LoopTrue, Loop
  <2> QED BY <1>0, <2>1, <2>2, <2>3, <2>4, <2>5, AccountAlone
<1>5. ASSUME NEW p \in Procs, GoLive(p) PROVE AccountInv'
  <2>1. /\ pc[p] = "gate" /\ pc' = [pc EXCEPT ![p] = "begin"]
        /\ UNCHANGED <<state, amount, spends, walletVars, job, todo, clock>>
    BY <1>5 DEF GoLive, Goto, storeVars, walletVars, planVars, service
  <2>2. pc'[p] = "begin" /\ \A q \in Procs : q # p => pc'[q] = pc[q]
    BY <1>0, <2>1 DEF CoreTypeOK
  <2>3. \A c \in Cycles, w \in Wallets : RowTrue(c, w)'
    BY <1>0, <2>1, RowsStay
  <2>4. Balanced'
    BY <1>0, <2>1, MoneyStays
  <2>5. PlanTrue(p)' /\ LoopTrue(p)'
    BY <1>0, <2>1, <2>2 DEF PlanTrue, LoopTrue, Loop, Waits, Priced
  <2> QED BY <1>0, <2>1, <2>2, <2>3, <2>4, <2>5, AccountAlone
<1>6. ASSUME NEW p \in Procs, Exit(p), UNCHANGED <<state, amount, walletVars, clock>>
      PROVE  AccountInv'
  <2>1. UNCHANGED spends
    BY <1>6 DEF walletVars
  <2>2. \A c \in Cycles, w \in Wallets : RowTrue(c, w)'
    BY <1>0, <1>6, <2>1, RowsStay
  <2>3. Balanced'
    BY <1>0, <1>6, MoneyStays
  <2> QED BY <1>2, <1>6, <2>1, <2>2, <2>3
<1>7. ASSUME NEW p \in Procs, Refuse(p) \/ DryRun(p) \/ Report(p) \/ LockHeld(p) PROVE AccountInv'
  BY <1>6, <1>7 DEF Refuse, DryRun, Report, LockHeld, EndCycle, Return, storeVars
<1>8. ASSUME NEW p \in Procs, Die(p) PROVE AccountInv'
  <2>1. pc[p] # "idle" /\ Exit(p) /\ UNCHANGED <<state, amount, clock>>
    BY <1>8 DEF Die, Crash, storeVars
  <2>2. CASE pc[p] = "send"
    <3>1. PICK w \in Wallets :
            /\ Current(p, w)
            /\ MaybeAccept(job[p].cycle, w, PlanAmount(job[p].cycle, w, job[p].cap))
      BY <1>8, <2>2 DEF Die, Crash
    <3>2. (\A d \in Cycles, v \in Wallets : RowTrue(d, v)') /\ Balanced'
      BY <1>0, <2>1, <2>2, <3>1, SendAccounts
    <3> QED BY <1>2, <2>1, <3>2
  <2>3. CASE pc[p] # "send"
    BY <1>6, <1>8, <2>1, <2>3 DEF Die, Crash
  <2> QED BY <2>2, <2>3
<1>9. ASSUME NEW c \in Cycles, NEW w \in Wallets, Resolve(c, w), UNCHANGED service PROVE AccountInv'
  <2>1. /\ state[c][w] = "sending" /\ \A p \in Procs : pc'[p] = "idle"
        /\ UNCHANGED <<amount, spends, walletVars, clock>>
    BY <1>9 DEF Resolve, runVars, walletVars, service
  <2>2. PICK s \in {"sent", "failed"} :
          state' = [state EXCEPT ![c][w] = s] /\ (spends[c][w] > 0 <=> s = "sent")
    BY <1>0, <1>9 DEF Resolve, CoreTypeOK
  <2>3. \A d \in Cycles, v \in Wallets : state'[d][v] = IF d = c /\ v = w THEN s ELSE state[d][v]
    BY <1>0, <2>2, UpdateAt DEF CoreTypeOK
  <2>4. ASSUME NEW d \in Cycles, NEW v \in Wallets PROVE RowTrue(d, v)'
    <3>1. RowTrue(d, v) /\ RowTrue(c, w)
      BY DEF AccountInv
    <3>2. CASE d = c /\ v = w
      BY <2>1, <2>2, <2>3, <3>1, <3>2 DEF RowTrue
    <3>3. CASE ~(d = c /\ v = w)
      <4>1. state'[d][v] = state[d][v]
        BY <2>3, <3>3
      <4> QED BY <2>1, <3>1, <4>1 DEF RowTrue
    <3> QED BY <3>2, <3>3
  <2>5. Balanced'
    BY <1>0, <2>1, MoneyStays
  <2>6. \A p \in Procs : PlanTrue(p)' /\ LoopTrue(p)'
    BY <2>1 DEF PlanTrue, LoopTrue, Loop
  <2> QED BY <1>0, <2>4, <2>5, <2>6 DEF AccountInv
<1>10. CASE (\E p \in Procs, cmd \in Commands : Start(p, cmd)) \/ Pause \/ Resume \/ ClearLock
           \/ UNCHANGED vars
  BY <1>1, <1>10 DEF Start, Pause, Resume, ClearLock, vars, coreVars, service
<1>11. ASSUME NEW p \in Procs, CollectFleet(p), Exit(p) PROVE AccountInv'
  BY <1>6, <1>11 DEF CollectFleet, storeVars
<1> QED
  BY <1>0, <1>3, <1>4, <1>5, <1>7, <1>8, <1>9, <1>10, <1>11, PlanAccounts, ExecuteAccounts
  DEF Next, RunCycle

LEMMA AccountInit == Init => AccountInv
<1> SUFFICES ASSUME Init PROVE AccountInv
  OBVIOUS
<1>1. \A p \in Procs : pc[p] = "idle"
  BY DEF Init, CoreInit
<1>2. DoubtInv
  BY <1>1, TypeInit DEF DoubtInv, OneRun, Clear
<1>3. \A c \in Cycles, w \in Wallets : RowTrue(c, w)
  BY DEF Init, CoreInit, RowTrue
<1>4. Balanced
  <2>1. PICK f : f = Moved
    OBVIOUS
  <2>2. \A r \in Rows : f[r] = 0
    BY <2>1 DEF Init, CoreInit, Moved, Rows
  <2>3. SumFunctionOnSet(f, Rows) = 0
    BY <2>2, RowsAreFinite, SumZero
  <2>4. InitialBalance - balance = 0
    BY LimitsAssumption DEF Init, CoreInit
  <2> QED BY <2>1, <2>3, <2>4 DEF Balanced
<1> QED BY <1>1, <1>2, <1>3, <1>4, IdleTrue DEF AccountInv

(* Of the rows, those that are sent were paid, and what was paid is sent or *)
(* in doubt.                                                                *)
LEMMA AccountsForMoney ==
  ASSUME AccountInv PROVE SpendingIsRecorded
<1>0. CoreTypeOK
  BY DEF AccountInv, DoubtInv, TypeOK
<1> DEFINE Of(states) == {r \in Rows : state[r[1]][r[2]] \in states}
           Price(states) == [r \in Of(states) |-> amount[r[1]][r[2]]]
<1>1. PICK f : f = Moved
  OBVIOUS
<1>2. \A r \in Rows : f[r] \in Nat
  BY <1>0, <1>1, MovedType
<1>3. InitialBalance - balance = SumFunctionOnSet(f, Rows)
  BY <1>1 DEF AccountInv, Balanced
<1>4. \A r \in Rows : RowTrue(r[1], r[2]) /\ r[1] \in Cycles /\ r[2] \in Wallets
  BY DEF AccountInv, Rows
<1>5. ASSUME NEW states
      PROVE  /\ Recorded(states) = SumFunctionOnSet(Price(states), Of(states))
             /\ Of(states) \in SUBSET Rows /\ IsFiniteSet(Of(states))
             /\ \A r \in Of(states) : Price(states)[r] \in Nat
  <2>1. Recorded(states) = SumFunctionOnSet(Price(states), Of(states))
    BY DEF Recorded, Rows
  <2>2. Of(states) \in SUBSET Rows /\ IsFiniteSet(Of(states))
    BY RowsAreFinite, FS_Subset
  <2>3. \A r \in Of(states) : Price(states)[r] \in Nat
    BY <1>0, <1>4 DEF CoreTypeOK
  <2> QED BY <2>1, <2>2, <2>3
<1>6. Recorded({"sent"}) <= InitialBalance - balance
  <2>1. PICK S : S = Of({"sent"})
    OBVIOUS
  <2>2. PICK g : g = Price({"sent"})
    OBVIOUS
  <2>3. \A r \in S : g[r] = f[r]
    BY <1>1, <1>4, <2>1, <2>2 DEF RowTrue, Moved
  <2>4. Recorded({"sent"}) = SumFunctionOnSet(g, S) /\ S \in SUBSET Rows /\ IsFiniteSet(S)
    BY <1>5, <2>1, <2>2
  <2> HIDE DEF Of, Price
  <2>5. SumFunctionOnSet(g, S) = SumFunctionOnSet(f, S)
    BY <2>3, <2>4, SumCongruent
  <2>6. SumFunctionOnSet(f, S) <= SumFunctionOnSet(f, Rows)
    BY <1>2, <2>4, RowsAreFinite, SumSubset
  <2> QED BY <1>3, <2>4, <2>5, <2>6
<1>7. InitialBalance - balance <= Recorded({"sent", "sending"})
  <2>1. PICK S : S = Of({"sent", "sending"})
    OBVIOUS
  <2>2. PICK g : g = Price({"sent", "sending"})
    OBVIOUS
  <2>3. PICK T : T = Rows \ S
    OBVIOUS
  <2>4. /\ Recorded({"sent", "sending"}) = SumFunctionOnSet(g, S)
        /\ S \in SUBSET Rows /\ IsFiniteSet(S) /\ \A r \in S : g[r] \in Nat
    BY <1>5, <2>1, <2>2
  <2>5. \A r \in S : f[r] <= g[r]
    BY <1>0, <1>1, <1>4, <2>1, <2>2 DEF Moved, CoreTypeOK
  <2>6. \A r \in T : f[r] = 0
    <3> SUFFICES ASSUME NEW r \in T PROVE f[r] = 0
      OBVIOUS
    <3>1. r \in Rows /\ state[r[1]][r[2]] \in InstructionStates \ {"sent", "sending"}
      BY <1>0, <1>4, <2>1, <2>3 DEF CoreTypeOK
    <3>2. spends[r[1]][r[2]] = 0
      BY <1>4, <3>1 DEF RowTrue, InstructionStates
    <3> QED BY <1>1, <3>1, <3>2 DEF Moved
  <2> HIDE DEF Of, Price
  <2>7. IsFiniteSet(T) /\ S \intersect T = {} /\ S \union T = Rows
    BY <2>3, <2>4, RowsAreFinite, FS_Subset
  <2>8. SumFunctionOnSet(f, Rows) = SumFunctionOnSet(f, S) + SumFunctionOnSet(f, T)
    <3>1. \A r \in S \union T : f[r] \in Int
      BY <1>2, <2>7
    <3> QED BY <2>4, <2>7, <3>1, SumUnion
  <2>9. SumFunctionOnSet(f, T) = 0
    BY <2>6, <2>7, SumZero
  <2>10. SumFunctionOnSet(f, S) <= SumFunctionOnSet(g, S) /\ SumFunctionOnSet(f, S) \in Int
    <3>1. \A r \in S : f[r] \in Int /\ g[r] \in Int /\ f[r] <= g[r]
      BY <1>2, <2>4, <2>5
    <3> QED BY <2>4, <3>1, SumMonotone, SumType
  <2> QED BY <1>3, <2>4, <2>8, <2>9, <2>10
<1>8. InitialBalance - balance \in Int /\ Recorded({"sent"}) \in Int
  <2>1. Recorded({"sent"}) \in Int
    <3>1. PICK S : S = Of({"sent"})
      OBVIOUS
    <3>2. PICK g : g = Price({"sent"})
      OBVIOUS
    <3>3. Recorded({"sent"}) = SumFunctionOnSet(g, S) /\ IsFiniteSet(S) /\ \A r \in S : g[r] \in Nat
      BY <1>5, <3>1, <3>2
    <3>4. SumFunctionOnSet(g, S) \in Nat
      BY <3>3, SumNat
    <3> QED BY <3>3, <3>4
  <2> QED BY <1>0, <2>1, LimitsAssumption DEF CoreTypeOK
<1> QED BY <1>6, <1>7, <1>8 DEF SpendingIsRecorded

(* What left the wallet is what the rows account for, for any processes,    *)
(* crashes, rejections and unknown outcomes: at least those called sent, at *)
(* most those and the ones in doubt (executor.py:144-228, audit.in_flight). *)
THEOREM SpendingAccounted == ASSUME AnswersArrive PROVE Spec => []SpendingIsRecorded
  BY AccountInit, AccountStep, AccountsForMoney, PTL DEF Spec

(****************************************************************************)
(* What a cycle can cost.                                                   *)
(****************************************************************************)

(* What a cycle has paid out, going by the rows.                            *)
PaidFor(c) == SumFunctionOnSet([w \in Wallets |-> spends[c][w] * amount[c][w]], Wallets)
BudgetHeld == \A c \in Cycles : PaidFor(c) <= Budget

AmountsCapped == \A c \in Cycles, w \in Wallets : amount[c][w] <= Allocated[c][w]

(* The engine gives the wallets of a cycle its budget or nothing.           *)
LEMMA BudgetAllocated ==
  ASSUME NEW c \in Cycles
  PROVE  SumFunctionOnSet(Allocated[c], Wallets) <= Budget
<1>1. PICK given : given = Allocate(Collect(Fleet[c]), Budget)
  OBVIOUS
<1>2. PICK g : g = AllocatedTo(Fleet[c])
  OBVIOUS
<1>3. Allocated[c] = g /\ Budget \in Nat /\ IsFiniteSet(Wallets)
  BY <1>2, EngineAssumption, ServiceAssumption
<1>4. g = [w \in Wallets |-> IF w \in DOMAIN given THEN given[w] ELSE 0]
  BY <1>1, <1>2 DEF AllocatedTo
<1>5. DOMAIN given \subseteq Wallets
  <2>1. DOMAIN given = Claimants(Collect(Fleet[c]))
    BY <1>1 DEF Allocate
  <2>2. \A t \in Fleet[c] : t \in Trees
    BY ServiceAssumption
  <2>3. \A t \in Fleet[c] : t.wallet # NoWallet => t.wallet \in Wallets
    BY <2>2 DEF Trees
  <2> QED BY <2>1, <2>3 DEF Claimants, Eligible, Collect
<1>6. SumFunctionOnSet(given, DOMAIN given) <= Budget
  <2>1. Apportions(given, Collect(Fleet[c]), Budget)
    BY <1>1, PlansAreFair
  <2> QED BY <1>3, <2>1 DEF Apportions, SumOver
<1>7. \A w \in Wallets : g[w] \in Int
  BY <1>3, DataAssumption
<1>8. SumFunctionOnSet(g, Wallets) = SumFunctionOnSet(g, DOMAIN given)
  <2>1. \A w \in Wallets \ DOMAIN given : g[w] = 0
    BY <1>4
  <2> QED BY <1>3, <1>5, <1>7, <2>1, SumSupport
<1>9. SumFunctionOnSet(g, DOMAIN given) = SumFunctionOnSet(given, DOMAIN given)
  <2>1. \A w \in DOMAIN given : g[w] = given[w]
    BY <1>4, <1>5
  <2>2. IsFiniteSet(DOMAIN given)
    BY <1>3, <1>5, FS_Subset
  <2> QED BY <2>1, <2>2, SumCongruent
<1> QED BY <1>3, <1>6, <1>8, <1>9

LEMMA AmountsStep == TypeOK /\ AmountsCapped /\ [Next]_vars => AmountsCapped'
<1> SUFFICES ASSUME TypeOK, AmountsCapped, [Next]_vars PROVE AmountsCapped'
  OBVIOUS
<1>1. CASE UNCHANGED amount
  BY <1>1 DEF AmountsCapped
<1>2. ASSUME NEW p \in Procs, PutInstruction(p) PROVE AmountsCapped'
  <2>1. PICK c, w : /\ c = job[p].cycle /\ w \in Wallets
                    /\ \/ amount' = [amount EXCEPT ![c][w] = PlanAmount(c, w, job[p].cap)]
                       \/ UNCHANGED amount
    BY <1>2 DEF PutInstruction
  <2>2. CASE UNCHANGED amount
    BY <1>1, <2>2
  <2>3. CASE amount' = [amount EXCEPT ![c][w] = PlanAmount(c, w, job[p].cap)]
    <3> SUFFICES ASSUME NEW e \in Cycles, NEW v \in Wallets
                 PROVE  amount'[e][v] <= Allocated[e][v]
      BY DEF AmountsCapped
    <3>1. amount \in [Cycles -> [Wallets -> Nat]]
      BY DEF TypeOK, CoreTypeOK
    <3>2. amount[e][v] <= Allocated[e][v] /\ Allocated[e][v] \in Nat
      BY DataAssumption DEF AmountsCapped
    <3>3. CASE e = c /\ v = w
      <4>1. amount'[e][v] = PlanAmount(e, v, job[p].cap)
        BY <2>3, <3>1, <3>3
      <4>2. job[p].cap \in Nat
        <5>1. pc[p] = "put"
          BY <1>2 DEF PutInstruction
        <5>2. job[p] \in Jobs
          BY <5>1 DEF TypeOK, CoreTypeOK
        <5> QED BY <5>2, LimitsAssumption DEF Jobs
      <4> QED BY <3>2, <4>1, <4>2 DEF PlanAmount
    <3>4. CASE ~(e = c /\ v = w)
      BY <2>3, <3>1, <3>2, <3>4
    <3> QED BY <3>3, <3>4
  <2> QED BY <2>1, <2>2, <2>3
<1>3. ASSUME NEW p \in Procs, RunCycle(p), ~PutInstruction(p) PROVE UNCHANGED amount
  BY <1>3 DEF RunCycle, CollectFleet, PlanAndPersist, Refuse, DryRun, GoLive, ExecutePlan, Execute,
     Report, BeginSending, NextInstruction, MarkSkipped, MarkSending, WalletAccepts, WalletRejects,
     WalletAnswerLost, WalletAnswerUnknown, MarkSent, MarkFailed, CloseCycle, ReadBalance,
     Plan, OpenCycle, storeVars
<1>4. ASSUME NEW p \in Procs, BeginCycle(p) \/ LockHeld(p) \/ Die(p) PROVE UNCHANGED amount
  BY <1>4 DEF BeginCycle, LockHeld, Die, Crash, storeVars
<1>5. ASSUME NEW c \in Cycles, NEW w \in Wallets, Resolve(c, w) PROVE UNCHANGED amount
  BY <1>5 DEF Resolve, storeVars
<1>6. ASSUME (\E p \in Procs, cmd \in Commands : Start(p, cmd)) \/ Pause \/ Resume \/ ClearLock
             \/ UNCHANGED vars
      PROVE  UNCHANGED amount
  BY <1>6 DEF Start, Pause, Resume, ClearLock, vars, coreVars, storeVars
<1>7. \/ UNCHANGED amount
      \/ \E p \in Procs : PutInstruction(p)
  BY <1>3, <1>4, <1>5, <1>6 DEF Next
<1> QED BY <1>1, <1>2, <1>7

(* No cycle pays out more than its budget, whatever is refused, left in     *)
(* doubt, repaired and run beside it (engine.allocate; executor.execute).   *)
THEOREM BudgetKept == ASSUME AnswersArrive PROVE Spec => []BudgetHeld
<1>1. Init => AmountsCapped
  BY DataAssumption DEF Init, CoreInit, AmountsCapped
<1>2. ASSUME AccountInv, AmountsCapped PROVE BudgetHeld
  <2> SUFFICES ASSUME NEW c \in Cycles PROVE PaidFor(c) <= Budget
    BY DEF BudgetHeld
  <2> DEFINE f == [w \in Wallets |-> spends[c][w] * amount[c][w]]
  <2>1. ASSUME NEW w \in Wallets
        PROVE  f[w] \in Int /\ Allocated[c][w] \in Int /\ f[w] <= Allocated[c][w]
    <3>1. spends[c][w] \in {0, 1}
      BY <1>2 DEF AccountInv, RowTrue
    <3>2. amount[c][w] \in Nat
      BY <1>2 DEF AccountInv, DoubtInv, TypeOK, CoreTypeOK
    <3>3. amount[c][w] <= Allocated[c][w] /\ Allocated[c][w] \in Nat
      BY <1>2, DataAssumption DEF AmountsCapped
    <3>4. f[w] = spends[c][w] * amount[c][w]
      OBVIOUS
    <3> HIDE DEF f
    <3> QED BY <3>1, <3>2, <3>3, <3>4
  <2>2. IsFiniteSet(Wallets) /\ Budget \in Nat
    BY ServiceAssumption
  <2>3. SumFunctionOnSet(f, Wallets) <= SumFunctionOnSet(Allocated[c], Wallets)
    <3> HIDE DEF f
    <3> QED BY <2>1, <2>2, SumMonotone
  <2>4. SumFunctionOnSet(f, Wallets) \in Int /\ SumFunctionOnSet(Allocated[c], Wallets) \in Int
    <3> HIDE DEF f
    <3> QED BY <2>1, <2>2, SumType
  <2>5. SumFunctionOnSet(f, Wallets) <= Budget
    <3> HIDE DEF f
    <3> QED BY <2>2, <2>3, <2>4, BudgetAllocated
  <2> QED BY <2>5 DEF PaidFor
<1>3. AccountInv => TypeOK
  BY DEF AccountInv, DoubtInv
<1> QED BY <1>1, <1>2, <1>3, AccountInit, AccountStep, AmountsStep, PTL DEF Spec

--------------------------------------------------------------------------------
(****************************************************************************)
(* The lock file that the service reads and writes in one step, for any     *)
(* number of processes, crashes and reused pids.                            *)
(****************************************************************************)

LEMMA FileTypes ==
  /\ NoFile \in Files
  /\ \A p \in Contenders : NewFile(p) \in Files /\ NewFile(p) = [NoFile EXCEPT !.owner = p]
  BY DEF Files, NoFile, NewFile

(* Type correctness, on either platform and with or without breaking.       *)
THEOREM LockTypeCorrect == LockSpec => []LockTypeOK
<1>1. LockInit => LockTypeOK
  BY FileTypes, LockAssumption DEF LockInit, LockTypeOK, LockLabels
<1>2. LockTypeOK /\ [LockNext]_lockVars => LockTypeOK'
  <2> SUFFICES ASSUME LockTypeOK, [LockNext]_lockVars PROVE LockTypeOK'
    OBVIOUS
  <2> USE DEF LockTypeOK
  <2>1. CASE GrowOld
    BY <2>1 DEF GrowOld, Files
  <2>2. ASSUME NEW p \in Contenders, Acquire(p) PROVE LockTypeOK'
    BY <2>2, FileTypes DEF Acquire, ExclusiveCreate, Move, LockLabels
  <2>3. ASSUME NEW p \in Contenders, CheckAge(p) PROVE LockTypeOK'
    BY <2>3 DEF CheckAge, Move, LockLabels
  <2>4. ASSUME NEW p \in Contenders, Busy(p) PROVE LockTypeOK'
    BY <2>4 DEF Busy, Move, LockLabels
  <2>5. ASSUME NEW p \in Contenders, ReadHolder(p) PROVE LockTypeOK'
    BY <2>5 DEF ReadHolder, Move, LockLabels, Files
  <2>6. ASSUME NEW p \in Contenders, ProbeHolder(p) PROVE LockTypeOK'
    BY <2>6 DEF ProbeHolder, Move, LockLabels
  <2>7. ASSUME NEW p \in Contenders, Break(p) PROVE LockTypeOK'
    BY <2>7, FileTypes DEF Break, Move, LockLabels
  <2>8. ASSUME NEW p \in Contenders, Recreate(p) PROVE LockTypeOK'
    BY <2>8, FileTypes DEF Recreate, ExclusiveCreate, Move, LockLabels
  <2>9. ASSUME NEW p \in Contenders, WritePid(p) PROVE LockTypeOK'
    BY <2>9 DEF WritePid, Move, LockLabels, Files
  <2>10. ASSUME NEW p \in Contenders, Close(p) PROVE LockTypeOK'
    BY <2>10 DEF Close, Move, LockLabels
  <2>11. ASSUME NEW p \in Contenders, Remove(p) PROVE LockTypeOK'
    BY <2>11, FileTypes DEF Remove, Move, LockLabels
  <2>12. ASSUME NEW p \in Contenders, Killed(p) PROVE LockTypeOK'
    <3>1. crashes' \in 0..MaxCrashes
      BY <2>12, LockAssumption DEF Killed
    <3>2. file' \in Files
      BY <2>12 DEF Killed, Files
    <3>3. at' \in [Contenders -> LockLabels] /\ seen' \in [Contenders -> Contenders \union {Nobody}]
      BY <2>12 DEF Killed, Move, LockLabels
    <3> QED BY <3>1, <3>2, <3>3
  <2>13. ASSUME NEW p \in Contenders, Restart(p) PROVE LockTypeOK'
    BY <2>13 DEF Restart, Move, LockLabels
  <2>14. CASE UNCHANGED lockVars
    BY <2>14 DEF lockVars
  <2> QED
    BY <2>1, <2>2, <2>3, <2>4, <2>5, <2>6, <2>7, <2>8, <2>9, <2>10, <2>11, <2>12, <2>13, <2>14
    DEF LockNext, LockOp
<1> QED BY <1>1, <1>2, PTL DEF LockSpec

--------------------------------------------------------------------------------
(****************************************************************************)
(* Mutual exclusion.  An open handle is always on the file at the path;     *)
(* where locks are not broken this is so until the file is removed.         *)
(****************************************************************************)

Safe == Windows \/ ~Breaks

HandlesAreOnThePath ==
  \A p \in Contenders : HasHandle(p) => file.owner = p /\ ~file.orphan

HeldIsWritten == \A p \in Contenders : at[p] = "held" => file.pid = p

OnlyTheHolderRemoves ==
  ~Breaks => \A p \in Contenders : /\ at[p] \notin {"read", "probe", "unlink", "recreate"}
                                   /\ at[p] = "remove" => file.owner = p

LockInv == LockTypeOK /\ HandlesAreOnThePath /\ HeldIsWritten /\ OnlyTheHolderRemoves

(* A file that may be unlinked has no open handle on it.                    *)
LEMMA UnlinkedFilesAreClosed ==
  ASSUME LockInv, Safe, NEW p \in Contenders, MayUnlink,
         at[p] = "unlink" \/ at[p] = "remove", NEW q \in Contenders
  PROVE  ~HasHandle(q)
<1>1. CASE Windows
  BY <1>1 DEF MayUnlink, LockInv, HandlesAreOnThePath
<1>2. CASE ~Breaks
  <2>1. at[p] = "remove" /\ file.owner = p
    BY <1>2 DEF LockInv, OnlyTheHolderRemoves
  <2>2. ~HasHandle(p)
    BY <2>1 DEF HasHandle
  <2> QED BY <2>1, <2>2 DEF LockInv, HandlesAreOnThePath
<1> QED BY <1>1, <1>2 DEF Safe

LEMMA Created ==
  ASSUME LockInv, NEW p \in Contenders, NEW otherwise \in {"age", "idle"},
         otherwise = "idle" => Breaks, at[p] \in {"idle", "recreate"},
         ExclusiveCreate(p, otherwise)
  PROVE  (HandlesAreOnThePath /\ HeldIsWritten /\ OnlyTheHolderRemoves)'
<1> USE DEF LockInv, LockTypeOK, HandlesAreOnThePath, HeldIsWritten, OnlyTheHolderRemoves, HasHandle
<1>1. CASE Gone /\ file' = NewFile(p) /\ Move(p, "write")
  <2>1. \A q \in Contenders : file.owner # q
    BY <1>1, LockAssumption DEF Gone
  <2>2. file'.owner = p /\ ~file'.orphan
    BY <1>1 DEF NewFile, NoFile
  <2> QED BY <1>1, <2>1, <2>2 DEF Move
<1>2. CASE Move(p, otherwise) /\ UNCHANGED file
  BY <1>2 DEF Move
<1> QED BY <1>1, <1>2 DEF ExclusiveCreate

LEMMA LockStep ==
  ASSUME LockInv, Safe, LockTypeOK', LockNext
  PROVE  LockInv'
<1> SUFFICES (HandlesAreOnThePath /\ HeldIsWritten /\ OnlyTheHolderRemoves)'
  BY DEF LockInv
<1> USE DEF LockInv, LockTypeOK, HandlesAreOnThePath, HeldIsWritten, OnlyTheHolderRemoves, HasHandle
<1>1. CASE GrowOld
  BY <1>1 DEF GrowOld, Files
<1>2. ASSUME NEW p \in Contenders, Acquire(p) PROVE LockInv'
  BY <1>2, Created DEF Acquire
<1>3. ASSUME NEW p \in Contenders, CheckAge(p) PROVE LockInv'
  BY <1>3 DEF CheckAge, Move
<1>4. ASSUME NEW p \in Contenders, Busy(p) PROVE LockInv'
  BY <1>4 DEF Busy, Move
<1>5. ASSUME NEW p \in Contenders, ReadHolder(p) PROVE LockInv'
  BY <1>5 DEF ReadHolder, Move
<1>6. ASSUME NEW p \in Contenders, ProbeHolder(p) PROVE LockInv'
  BY <1>6 DEF ProbeHolder, Move
<1>7. ASSUME NEW p \in Contenders, Break(p) PROVE LockInv'
  <2>1. Breaks
    BY <1>7 DEF Break
  <2>2. MayUnlink /\ file' = NoFile => \A q \in Contenders : ~HasHandle(q)
    BY <1>7, UnlinkedFilesAreClosed DEF Break
  <2> QED BY <1>7, <2>1, <2>2 DEF Break, Move
<1>8. ASSUME NEW p \in Contenders, Recreate(p) PROVE LockInv'
  BY <1>8, Created DEF Recreate
<1>9. ASSUME NEW p \in Contenders, WritePid(p) PROVE LockInv'
  <2>1. file.owner = p
    BY <1>9 DEF WritePid
  <2>2. file' = [file EXCEPT !.pid = p]
    BY <1>9, <2>1 DEF WritePid
  <2>3. file'.owner = file.owner /\ file'.orphan = file.orphan /\ file'.pid = p
    BY <2>2 DEF Files
  <2>4. \A q \in Contenders : q # p => at[q] # "held"
    BY <2>1
  <2> QED BY <1>9, <2>1, <2>3, <2>4 DEF WritePid, Move
<1>10. ASSUME NEW p \in Contenders, Close(p) PROVE LockInv'
  BY <1>10 DEF Close, Move
<1>11. ASSUME NEW p \in Contenders, Remove(p) PROVE LockInv'
  <2>1. CASE MayUnlink /\ file' = NoFile
    <3>1. \A q \in Contenders : ~HasHandle(q)
      BY <1>11, <2>1, UnlinkedFilesAreClosed DEF Remove
    <3>2. ~Breaks => file.owner = p /\ \A q \in Contenders : at[q] = "remove" => q = p
      BY <1>11 DEF Remove
    <3> QED BY <1>11, <2>1, <3>1, <3>2 DEF Remove, Move
  <2>2. CASE UNCHANGED file
    BY <1>11, <2>2 DEF Remove, Move
  <2> QED BY <1>11, <2>1, <2>2 DEF Remove
<1>12. ASSUME NEW p \in Contenders, Killed(p) PROVE LockInv'
  <2>1. file'.owner = file.owner /\ file'.pid = file.pid
    BY <1>12 DEF Killed, Files
  <2>2. file.owner # p => file' = file
    BY <1>12 DEF Killed
  <2> QED BY <1>12, <2>1, <2>2 DEF Killed, Move
<1>13. ASSUME NEW p \in Contenders, Restart(p) PROVE LockInv'
  BY <1>13 DEF Restart, Move
<1> QED
  BY <1>1, <1>2, <1>3, <1>4, <1>5, <1>6, <1>7, <1>8, <1>9, <1>10, <1>11, <1>12, <1>13
  DEF LockNext, LockOp

LEMMA LockInvHolds == Safe /\ LockSpec => []LockInv
<1>1. LockInit => LockInv
  BY LockAssumption, FileTypes
  DEF LockInit, LockInv, LockTypeOK, HandlesAreOnThePath, HeldIsWritten, OnlyTheHolderRemoves,
      HasHandle, LockLabels
<1>2. ASSUME Safe, LockInv, LockTypeOK', [LockNext]_lockVars PROVE LockInv'
  <2>1. CASE LockNext
    BY <1>2, <2>1, LockStep
  <2>2. CASE UNCHANGED lockVars
    BY <1>2, <2>2 DEF lockVars, LockInv, LockTypeOK, HandlesAreOnThePath, HeldIsWritten,
                OnlyTheHolderRemoves, HasHandle
  <2> QED BY <1>2, <2>1, <2>2
<1>3. Safe => (LockInv /\ LockTypeOK' /\ [LockNext]_lockVars => LockInv')
  BY <1>2
<1>4. SUFFICES ASSUME Safe PROVE LockSpec => []LockInv
  OBVIOUS
<1>5. LockInv /\ LockTypeOK' /\ [LockNext]_lockVars => LockInv'
  BY <1>3, <1>4
<1> QED BY <1>1, <1>5, LockTypeCorrect, PTL DEF LockSpec

(* At most one run holds the lock where locks are not broken, and where     *)
(* they are if the platform does not unlink open files.                     *)
THEOREM Exclusion == Safe /\ LockSpec => []SingleHolder
<1>1. LockInv => SingleHolder
  BY DEF LockInv, HandlesAreOnThePath, HasHandle, SingleHolder
<1> QED BY <1>1, LockInvHolds, PTL

(* There, the file names the one who holds it.                              *)
THEOREM HolderKnown == Safe /\ LockSpec => []HolderIsNamed
<1>1. LockInv => HolderIsNamed
  BY DEF LockInv, HandlesAreOnThePath, HeldIsWritten, HasHandle, HolderIsNamed
<1> QED BY <1>1, LockInvHolds, PTL

================================================================================

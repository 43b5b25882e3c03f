--------------------------- MODULE PoolLedgerProofs ----------------------------
(****************************************************************************)
(* The ledger of settled days, for any number of days, Trees and concurrent *)
(* settle commands.                                                         *)
(****************************************************************************)
EXTENDS PoolLedger, Sums

(* A settled day keeps its row (record and its primary key), whoever else   *)
(* settles at the same time.                                                *)
THEOREM AppendOnly == Spec => OneAnswer
<1>1. ASSUME [Next]_vars, NEW d \in Settled PROVE ledger'[d] = ledger[d]
  <2>1. ASSUME NEW r \in Runs, Insert(r) PROVE ledger'[d] = ledger[d]
    BY <2>1 DEF Insert, Insertable
  <2>2. CASE UNCHANGED ledger
    BY <2>2
  <2>3. ASSUME NEW r \in Runs, Step(r), ~Insert(r) PROVE UNCHANGED ledger
    BY <2>3
    DEF Step, StartAll, NothingToSettle, StartOne, Begin, Observe, TakeSnapshot, Check, Fail
  <2> QED BY <1>1, <2>1, <2>2, <2>3 DEF Next, DayCloses, vars
<1>2. [Next]_vars => [\A d \in Settled : ledger'[d] = ledger[d]]_vars
  BY <1>1
<1> QED BY <1>2, PTL DEF Spec, OneAnswer

--------------------------------------------------------------------------------
(****************************************************************************)
(* The days of a run.                                                       *)
(****************************************************************************)
LEMMA LeastNatural ==
  ASSUME NEW S, S \subseteq Nat, S # {}
  PROVE  \E n \in S : \A k \in S : n <= k
<1>1. PICK n \in S : \A k \in S : <<k, n>> \notin OpToRel(<, Nat)
  BY NatLessThanWellFounded, WFMin
<1>2. \A k \in S : ~(k < n)
  BY <1>1 DEF OpToRel
<1> QED BY <1>2

LEMMA MinOfDays ==
  ASSUME NEW S, S \subseteq Days, S # {}
  PROVE  Min(S) \in S /\ \A d \in S : Min(S) <= d
<1>1. S \subseteq Nat
  BY LedgerAssumption DEF Days
<1>2. \E n \in S : \A d \in S : n <= d
  BY <1>1, LeastNatural
<1> QED BY <1>2 DEF Min

LEMMA MaxOfDays ==
  ASSUME NEW S, S \subseteq Days
  PROVE  LET last == Max(S \union {NoDay})
         IN  last \in S \union {NoDay} /\ \A d \in S : d <= last
<1>1. \A d \in S : d \in Nat /\ d <= LastDay
  BY LedgerAssumption DEF Days
<1>2. CASE S = {}
  BY <1>2 DEF Max, NoDay
<1>3. CASE S # {}
  <2> DEFINE T == {n \in Nat : n <= LastDay /\ LastDay - n \in S}
  <2>1. \A d \in S : LastDay - d \in T
    BY <1>1, LedgerAssumption
  <2>2. T \subseteq Nat /\ T # {}
    BY <1>3, <2>1
  <2> HIDE DEF T
  <2>3. PICK n \in T : \A k \in T : n <= k
    BY <2>2, LeastNatural
  <2>4. n \in Nat /\ LastDay - n \in S
    BY <2>3 DEF T
  <2>5. \A d \in S : d <= LastDay - n
    BY <1>1, <2>1, <2>3, <2>4, LedgerAssumption
  <2>6. \A d \in S \union {NoDay} : LastDay - n >= d
    BY <1>1, <2>4, <2>5, LedgerAssumption DEF NoDay
  <2> QED BY <1>1, <2>4, <2>6 DEF Max, NoDay
<1> QED BY <1>2, <1>3

--------------------------------------------------------------------------------
(****************************************************************************)
(* Where only `settle --all` is used there are no gaps.                     *)
(****************************************************************************)
OnlyAll == Single = {}

NoGap == \A d \in Settled, e \in Days : e < d => e \in Settled

OnTheWay(j) ==
  /\ DOMAIN j = {"todo", "goal", "snap", "obs"}
  /\ j.goal \in 1..closed
  /\ j.todo \subseteq {d \in Days : d < j.goal} /\ j.todo # {}
  /\ \A d \in Days : d < j.goal => d \in Settled \union j.todo

CompleteInv ==
  /\ closed \in 0..(LastDay + 1)
  /\ DOMAIN ledger = Days /\ pc \in [Runs -> Labels] /\ DOMAIN job = Runs
  /\ said \in [Runs -> 0..(LastDay + 1)]
  /\ NoGap
  /\ \A r \in Runs : pc[r] # "idle" => OnTheWay(job[r])
  /\ CurrentIsComplete

LEMMA PendingCompletes ==
  ASSUME CompleteInv
  PROVE  /\ Pending \subseteq {d \in Days : d < closed}
         /\ \A d \in Days : d < closed => d \in Settled \union Pending
<1>1. Settled \subseteq Days
  BY DEF Settled
<1> DEFINE last == Snapshot.last
<1>2. last \in Settled \union {NoDay} /\ \A d \in Settled : d <= last
  BY <1>1, MaxOfDays DEF Snapshot
<1>3. Pending = {d \in Days : d > last /\ d < closed} \ Settled
  BY DEF Pending
<1> HIDE DEF last
<1>4. ASSUME NEW d \in Days, d < closed, d \notin Pending PROVE d \in Settled
  <2>1. ~(d > last) \/ d \in Settled
    BY <1>3, <1>4
  <2>2. CASE last \in Settled
    BY <1>1, <1>4, <2>1, <2>2, LedgerAssumption DEF CompleteInv, NoGap, Days
  <2>3. CASE last = NoDay
    BY <1>4, <2>1, <2>3, LedgerAssumption DEF NoDay, Days
  <2> QED BY <1>2, <2>2, <2>3
<1> QED BY <1>3, <1>4

LEMMA CompleteInductive ==
  ASSUME OnlyAll, CompleteInv, [Next]_vars
  PROVE  CompleteInv'
<1> USE LedgerAssumption
<1> USE DEF CompleteInv
<1>1. CASE UNCHANGED vars
  BY <1>1 DEF vars, NoGap, OnTheWay, CurrentIsComplete, Settled
<1>2. CASE DayCloses
  <2>1. closed' \in 0..(LastDay + 1) /\ closed' = closed + 1
    BY <1>2 DEF DayCloses
  <2>2. UNCHANGED <<ledger, pc, job, said>> /\ Settled' = Settled
    BY <1>2 DEF DayCloses, Settled
  <2>3. ASSUME NEW r \in Runs, pc[r] # "idle" PROVE OnTheWay(job[r])'
    <3>1. OnTheWay(job[r])
      BY <2>3
    <3>2. job[r].goal \in 1..closed'
      BY <2>1, <3>1 DEF OnTheWay
    <3> QED BY <2>2, <3>1, <3>2 DEF OnTheWay
  <2> QED BY <2>1, <2>2, <2>3 DEF NoGap, CurrentIsComplete
<1>3. ASSUME NEW r \in Runs, NEW d \in Days, StartOne(r, d) PROVE CompleteInv'
  BY <1>3 DEF StartOne, OnlyAll
<1>4. ASSUME NEW r \in Runs, StartAll(r) PROVE CompleteInv'
  <2>1. /\ UNCHANGED <<ledger, closed, said>> /\ Settled' = Settled
        /\ pc' = [pc EXCEPT ![r] = "observe"]
        /\ job' = [job EXCEPT ![r] =
             [todo |-> Pending, goal |-> closed, snap |-> Snapshot, obs |-> NoRow]]
        /\ Pending # {}
    BY <1>4 DEF StartAll, Begin, Goto, Settled
  <2>2. OnTheWay(job'[r])
    <3>1. closed \in 1..closed
      BY <2>1, PendingCompletes DEF Days
    <3> QED BY <2>1, <3>1, PendingCompletes DEF OnTheWay
  <2>3. \A q \in Runs : pc'[q] # "idle" => OnTheWay(job'[q])
    BY <2>1, <2>2
  <2> QED BY <2>1, <2>3 DEF NoGap, CurrentIsComplete, OnTheWay, Labels
<1>5. ASSUME NEW r \in Runs, NothingToSettle(r) PROVE CompleteInv'
  <2>1. /\ UNCHANGED <<ledger, closed, pc, job>> /\ Settled' = Settled
        /\ said' = [said EXCEPT ![r] = closed] /\ Pending = {}
    BY <1>5 DEF NothingToSettle, Settled
  <2> QED BY <2>1, PendingCompletes DEF NoGap, CurrentIsComplete, OnTheWay
<1>6. ASSUME NEW r \in Runs, NEW day, Observe(r, day) PROVE CompleteInv'
  <2>1. /\ UNCHANGED <<ledger, closed, said>> /\ Settled' = Settled
        /\ pc' = [pc EXCEPT ![r] = "settle"] /\ pc[r] # "idle"
        /\ job' = [job EXCEPT ![r].obs = day]
    BY <1>6 DEF Observe, Goto, Settled
  <2>2. OnTheWay(job'[r])
    BY <2>1 DEF OnTheWay
  <2>3. \A q \in Runs : pc'[q] # "idle" => OnTheWay(job'[q])
    BY <2>1, <2>2
  <2> QED BY <2>1, <2>3 DEF NoGap, CurrentIsComplete, OnTheWay, Labels
<1>7. ASSUME NEW r \in Runs, TakeSnapshot(r) PROVE CompleteInv'
  <2>1. /\ UNCHANGED <<ledger, closed, said>> /\ Settled' = Settled
        /\ pc' = [pc EXCEPT ![r] = "check"] /\ pc[r] # "idle"
        /\ job' = job \/ job' = [job EXCEPT ![r].snap = Snapshot]
    BY <1>7 DEF TakeSnapshot, Goto, Settled
  <2>2. OnTheWay(job'[r])
    BY <2>1 DEF OnTheWay
  <2>3. DOMAIN job' = Runs /\ \A q \in Runs : pc'[q] # "idle" => OnTheWay(job'[q])
    BY <2>1, <2>2
  <2> QED BY <2>1, <2>3 DEF NoGap, CurrentIsComplete, OnTheWay, Labels
<1>8. ASSUME NEW r \in Runs, Check(r) PROVE CompleteInv'
  BY <1>8 DEF Check, Goto, Settled, NoGap, CurrentIsComplete, OnTheWay, Labels
<1>9. ASSUME NEW r \in Runs, Fail(r) PROVE CompleteInv'
  BY <1>9 DEF Fail, Finish, Goto, Settled, NoGap, CurrentIsComplete, OnTheWay, Labels
<1>10. ASSUME NEW r \in Runs, Insert(r) PROVE CompleteInv'
  <2> DEFINE j == job[r]
  <2> DEFINE d == Day(r)
  <2>1. OnTheWay(j) /\ d \in j.todo /\ \A e \in j.todo : d <= e
    <3>1. OnTheWay(j) /\ j.todo \subseteq Days /\ j.todo # {}
      BY <1>10 DEF Insert, OnTheWay
    <3> QED BY <3>1, MinOfDays DEF Day
  <2>2. ledger' = [ledger EXCEPT ![d] = Row(r)] /\ UNCHANGED closed
    BY <1>10 DEF Insert
  <2> HIDE DEF d
  <2>3. d \in Days /\ d < j.goal
    BY <2>1 DEF OnTheWay
  <2>4. DOMAIN ledger' = Days /\ ledger'[d] # NoRow
    <3>1. ledger'[d] = Row(r)
      BY <2>2, <2>3
    <3>2. "ceiling" \in DOMAIN Row(r) /\ "ceiling" \notin DOMAIN NoRow
      BY DEF Row, NoRow
    <3> QED BY <2>2, <3>1, <3>2
  <2>5. Settled' = Settled \union {d}
    BY <2>2, <2>3, <2>4 DEF Settled
  <2>6. \A e \in Days : e < d => e \in Settled
    BY <2>1, <2>3 DEF OnTheWay, Days
  <2>7. NoGap'
    BY <2>3, <2>5, <2>6 DEF NoGap, Days
  <2>8. ASSUME NEW x, OnTheWay(x) PROVE OnTheWay(x)'
    BY <2>2, <2>5, <2>8 DEF OnTheWay
  <2> DEFINE rest == j.todo \ {d}
  <2>9. CASE rest # {} /\ job' = [job EXCEPT ![r] = [j EXCEPT !.todo = rest]]
             /\ pc' = [pc EXCEPT ![r] = "observe"] /\ said' = said
    <3> DEFINE k == [j EXCEPT !.todo = rest]
    <3>1. DOMAIN k = {"todo", "goal", "snap", "obs"} /\ k.todo = rest /\ k.goal = j.goal
      BY <2>1 DEF OnTheWay
    <3> HIDE DEF k
    <3>2. job'[r] = k
      BY <2>9, <3>1 DEF k
    <3>3. OnTheWay(job[r])'
      BY <2>1, <2>2, <2>5, <2>9, <3>1, <3>2 DEF OnTheWay
    <3>4. ASSUME NEW q \in Runs, q # r, pc'[q] # "idle" PROVE OnTheWay(job[q])'
      BY <2>8, <2>9, <3>4 DEF OnTheWay
    <3>5. pc' \in [Runs -> Labels] /\ DOMAIN job' = Runs
      BY <2>9 DEF Labels
    <3>6. CurrentIsComplete'
      BY <2>5, <2>9 DEF CurrentIsComplete
    <3> QED BY <2>2, <2>4, <2>7, <2>9, <3>3, <3>4, <3>5, <3>6
  <2>10. CASE rest = {} /\ said' = [said EXCEPT ![r] = j.goal]
              /\ pc' = [pc EXCEPT ![r] = "idle"] /\ job' = [job EXCEPT ![r] = NoRow]
    <3>1. ASSUME NEW q \in Runs, pc'[q] # "idle" PROVE OnTheWay(job[q])'
      BY <2>8, <2>10, <3>1 DEF OnTheWay
    <3>2. pc' \in [Runs -> Labels] /\ DOMAIN job' = Runs
      BY <2>10 DEF Labels
    <3>3. said' \in [Runs -> 0..(LastDay + 1)]
      BY <2>1, <2>10 DEF OnTheWay
    <3>4. \A e \in Days : e < j.goal => e \in Settled'
      BY <2>1, <2>5, <2>10 DEF OnTheWay
    <3>5. CurrentIsComplete'
      BY <2>5, <2>10, <3>4 DEF CurrentIsComplete
    <3> QED BY <2>2, <2>4, <2>7, <3>1, <3>2, <3>3, <3>5
  <2> QED BY <1>10, <2>9, <2>10 DEF Insert, Finish, Goto, d
<1> QED
  BY <1>1, <1>2, <1>3, <1>4, <1>5, <1>6, <1>7, <1>8, <1>9, <1>10 DEF Next, Step

(* Where only `settle --all` is used, by however many at once, a report     *)
(* that the ledger is current means that no closed day is unsettled.  The   *)
(* argument: a run's list and the settled days together always cover the    *)
(* closed days it set out with, and its days are settled lowest first.      *)
THEOREM CompleteReports ==
  ASSUME OnlyAll
  PROVE  Spec => []CurrentIsComplete
<1>1. Init => CompleteInv
  <2> SUFFICES ASSUME Init PROVE CompleteInv
    OBVIOUS
  <2>1. Settled = {}
    BY DEF Init, Settled
  <2> QED
    BY <2>1, LedgerAssumption
    DEF Init, CompleteInv, NoGap, CurrentIsComplete, Labels, Days
<1>2. CompleteInv /\ [Next]_vars => CompleteInv'
  BY CompleteInductive
<1>3. CompleteInv => CurrentIsComplete
  BY DEF CompleteInv
<1> QED BY <1>1, <1>2, <1>3, PTL DEF Spec

--------------------------------------------------------------------------------
(****************************************************************************)
(* A day's rewards.                                                         *)
(****************************************************************************)
LEMMA MinOfTwo == \A a, b \in Int : Min({a, b}) = IF a <= b THEN a ELSE b
  BY DEF Min

LEMMA WholeQuotient ==
  ASSUME NEW a \in Nat, NEW b \in Nat \ {0}
  PROVE  a \div b \in Nat /\ (a \div b) * b <= a
<1>1. b \in Nat /\ b > 0
  OBVIOUS
<1> QED BY <1>1, SMT

LEMMA CeilingType ==
  ASSUME NEW d \in Days, NEW left \in Nat
  PROVE  DailyCeiling(d, left) \in Nat /\ DailyCeiling(d, left) <= left
<1> DEFINE years == Cardinality(DOMAIN Schedule)
<1>1. years \in Nat /\ years # 0
  BY RewardsAssumption, FS_CardinalityType, FS_EmptySet
<1>2. EmissionYear(d) \in Nat \ {0}
  <2>1. d \in Nat /\ DaysPerYear \in Nat \ {0}
    BY RewardsAssumption, LedgerAssumption DEF Days
  <2>2. d \div DaysPerYear \in Nat
    BY <2>1, WholeQuotient
  <2> QED BY <2>2 DEF EmissionYear
<1>3. Min({EmissionYear(d), years}) \in 1..years
  <2> HIDE DEF years
  <2> QED BY <1>1, <1>2, MinOfTwo
<1>4. ScheduledDaily(EmissionYear(d)) \in Nat
  BY <1>3, RewardsAssumption DEF ScheduledDaily
<1> QED BY <1>4, MinOfTwo DEF DailyCeiling

LEMMA WeightType ==
  ASSUME NEW day \in [Trees -> Observations], NEW t \in Trees
  PROVE  Weight(day[t]) \in Nat /\ day[t].beats \in 0..HeartbeatsPerDay
<1>1. day[t].sensors \in Nat /\ day[t].beats \in 0..HeartbeatsPerDay
  BY LedgerAssumption
<1>2. SensorWeight(day[t].sensors) \in Nat
  BY <1>1, MinOfTwo DEF SensorWeight
<1> QED BY <1>1, <1>2 DEF Weight

LEMMA TotalWeightType ==
  ASSUME NEW day \in [Trees -> Observations]
  PROVE  /\ TotalWeight(day) \in Nat
         /\ \A t \in Trees : Weight(day[t]) <= TotalWeight(day)
<1> DEFINE f == [t \in Trees |-> Weight(day[t])]
<1>1. \A t \in Trees : f[t] \in Nat
  BY WeightType
<1>2. TotalWeight(day) = SumFunctionOnSet(f, Trees)
  BY DEF TotalWeight, SumFunction
<1>3. IsFiniteSet(Trees)
  BY RewardsAssumption
<1>4. \A t \in Trees : f[t] <= SumFunctionOnSet(f, Trees)
  <2> SUFFICES ASSUME NEW t \in Trees PROVE f[t] <= SumFunctionOnSet(f, Trees)
    OBVIOUS
  <2>1. SumFunctionOnSet(f, Trees) = f[t] + SumFunctionOnSet(f, Trees \ {t})
    <3> HIDE DEF f
    <3> QED BY <1>1, <1>3, SumTakeOut
  <2>2. SumFunctionOnSet(f, Trees \ {t}) \in Nat
    <3>1. IsFiniteSet(Trees \ {t})
      BY <1>3, FS_Subset
    <3> HIDE DEF f
    <3> QED BY <1>1, <3>1, SumNat
  <2>3. f[t] \in Nat
    BY <1>1
  <2> HIDE DEF f
  <2> QED BY <2>1, <2>2, <2>3
<1>5. SumFunctionOnSet(f, Trees) \in Nat
  <2> HIDE DEF f
  <2> QED BY <1>1, <1>3, SumNat
<1> QED BY <1>2, <1>4, <1>5

(* A Tree's reward, weighed by all, is at most the ceiling weighed by it.   *)
LEMMA RewardIsShare ==
  ASSUME NEW day \in [Trees -> Observations], NEW ceiling \in Nat, NEW t \in Trees
  PROVE  /\ Reward(day, ceiling, t) \in Nat
         /\ Reward(day, ceiling, t) * TotalWeight(day) <= ceiling * Weight(day[t])
<1> DEFINE w == Weight(day[t])
           all == TotalWeight(day)
           b == day[t].beats
           paid == Reward(day, ceiling, t)
<1>1. w \in Nat /\ all \in Nat /\ w <= all /\ b \in 0..24
  BY WeightType, TotalWeightType DEF HeartbeatsPerDay
<1>2. ASSUME w = 0 PROVE paid \in Nat /\ paid * all <= ceiling * w
  <2>1. paid = 0
    BY <1>2 DEF Reward
  <2> HIDE DEF w, all, b, paid
  <2> QED BY <1>1, <1>2, <2>1
<1>3. ASSUME w # 0 PROVE paid \in Nat /\ paid * all <= ceiling * w
  <2>1. paid = (ceiling * w * b) \div (all * 24)
    BY <1>3 DEF Reward, HeartbeatsPerDay
  <2> HIDE DEF w, all, b, paid
  <2>2. ceiling * w \in Nat
    BY <1>1
  <2>3. ceiling * w * b \in Nat /\ ceiling * w * b <= (ceiling * w) * 24
    <3>1. \A x \in Nat, y \in 0..24 : x * y \in Nat /\ x * y <= x * 24
      OBVIOUS
    <3> QED BY <1>1, <2>2, <3>1
  <2>4. all * 24 \in Nat \ {0}
    BY <1>1, <1>3
  <2>5. paid \in Nat /\ paid * (all * 24) <= ceiling * w * b
    BY <2>1, <2>3, <2>4, WholeQuotient
  <2>6. paid * (all * 24) = (paid * all) * 24 /\ paid * all \in Nat
    BY <1>1, <2>5
  <2>7. (paid * all) * 24 <= (ceiling * w) * 24
    BY <2>2, <2>3, <2>5, <2>6
  <2>8. \A x, y \in Nat : x * 24 <= y * 24 => x <= y
    OBVIOUS
  <2> QED BY <2>2, <2>5, <2>6, <2>7, <2>8
<1> QED BY <1>2, <1>3

(* No day hands out more than its ceiling, whatever the Trees reported, and *)
(* whatever flooring does: calculate_daily_rewards.                         *)
THEOREM CeilingKept ==
  ASSUME NEW day \in [Trees -> Observations], NEW ceiling \in Nat
  PROVE  /\ Rewarded(day, ceiling) \in [Trees -> Nat]
         /\ Distributed(Rewarded(day, ceiling)) \in Nat
         /\ Distributed(Rewarded(day, ceiling)) <= ceiling
<1> DEFINE f == Rewarded(day, ceiling)
           w == [t \in Trees |-> Weight(day[t])]
           fw == [t \in Trees |-> TotalWeight(day) * f[t]]
           cw == [t \in Trees |-> ceiling * w[t]]
           x == SumFunctionOnSet(f, Trees)
           all == TotalWeight(day)
<1>1. IsFiniteSet(Trees) /\ all \in Nat
  BY RewardsAssumption, TotalWeightType
<1>2. \A t \in Trees : f[t] \in Nat /\ w[t] \in Nat /\ all * f[t] <= ceiling * w[t]
  <2> SUFFICES ASSUME NEW t \in Trees
               PROVE  f[t] \in Nat /\ w[t] \in Nat /\ all * f[t] <= ceiling * w[t]
    OBVIOUS
  <2>1. f[t] = Reward(day, ceiling, t) /\ w[t] = Weight(day[t])
    BY DEF Rewarded
  <2>2. /\ Reward(day, ceiling, t) \in Nat /\ Weight(day[t]) \in Nat
        /\ Reward(day, ceiling, t) * TotalWeight(day) <= ceiling * Weight(day[t])
    BY RewardIsShare, WeightType
  <2>3. \A p, q \in Nat : p * q = q * p
    OBVIOUS
  <2> QED BY <1>1, <2>1, <2>2, <2>3
<1>3. Distributed(f) = x /\ all = SumFunctionOnSet(w, Trees)
  BY DEF Distributed, TotalWeight, SumFunction, Rewarded
<1>4. x \in Nat
  <2> HIDE DEF f
  <2> QED BY <1>1, <1>2, SumNat
<1>5. all * x <= ceiling * all
  <2>1. SumFunctionOnSet(fw, Trees) = all * x
    <3>1. \A t \in Trees : f[t] \in Int /\ fw[t] = all * f[t]
      BY <1>2
    <3> HIDE DEF f, fw, all
    <3> QED BY <1>1, <3>1, SumScaled
  <2>2. SumFunctionOnSet(cw, Trees) = ceiling * SumFunctionOnSet(w, Trees)
    <3>1. \A t \in Trees : w[t] \in Int /\ cw[t] = ceiling * w[t]
      BY <1>2
    <3> HIDE DEF w, cw
    <3> QED BY <1>1, <3>1, SumScaled
  <2>3. \A t \in Trees : fw[t] \in Int /\ cw[t] \in Int /\ fw[t] <= cw[t]
    <3> SUFFICES ASSUME NEW t \in Trees PROVE fw[t] \in Int /\ cw[t] \in Int /\ fw[t] <= cw[t]
      OBVIOUS
    <3>1. fw[t] = all * f[t] /\ cw[t] = ceiling * w[t]
      OBVIOUS
    <3> HIDE DEF f, w, fw, cw, all
    <3> QED BY <1>1, <1>2, <3>1
  <2>4. SumFunctionOnSet(fw, Trees) <= SumFunctionOnSet(cw, Trees)
    <3> HIDE DEF fw, cw
    <3> QED BY <1>1, <2>3, SumMonotone
  <2> QED BY <1>3, <2>1, <2>2, <2>4
<1>6. x <= ceiling
  <2>1. CASE all = 0
    <3>1. \A t \in Trees : f[t] = 0
      BY <2>1, <1>1, WeightType, TotalWeightType DEF Rewarded, Reward
    <3>2. x = 0
      <4> HIDE DEF f
      <4> QED BY <1>1, <3>1, SumZero
    <3> QED BY <3>2
  <2>2. CASE all # 0
    <3>1. \A p, q, r \in Nat : r # 0 /\ r * p <= q * r => p <= q
      OBVIOUS
    <3> HIDE DEF x, all
    <3> QED BY <1>1, <1>4, <1>5, <2>2, <3>1
  <2> QED BY <2>1, <2>2
<1>7. f \in [Trees -> Nat]
  BY <1>2 DEF Rewarded
<1> QED BY <1>3, <1>4, <1>6, <1>7

(* A day with fewer sensors of one Tree weighs no more, and the others have *)
(* the weight they had.                                                     *)
LEMMA DimmedWeighsLess ==
  ASSUME NEW day \in [Trees -> Observations], NEW t \in Trees,
         NEW sensors \in 0..day[t].sensors, NEW beats,
         NEW dimmed, dimmed = Dimmed(day, t, sensors, beats)
  PROVE  /\ \A u \in Trees : u # t => dimmed[u] = day[u]
         /\ \A u \in Trees : Weight(dimmed[u]) \in Nat /\ Weight(dimmed[u]) <= Weight(day[u])
         /\ SensorWeight(sensors) = SensorWeight(day[t].sensors)
              => TotalWeight(dimmed) = TotalWeight(day)
         /\ TotalWeight(dimmed) <= TotalWeight(day)
<1>1. /\ \A u \in Trees : u # t => dimmed[u] = day[u]
      /\ dimmed[t].sensors = sensors /\ Eligible(dimmed[t]) = Eligible(day[t])
  BY LedgerAssumption DEF Dimmed, Eligible
<1>2. /\ SensorWeight(sensors) \in Nat /\ SensorWeight(day[t].sensors) \in Nat
      /\ SensorWeight(sensors) <= SensorWeight(day[t].sensors)
  <2>1. day[t].sensors \in Nat
    BY LedgerAssumption
  <2>2. PICK n \in Nat : n = day[t].sensors
    BY <2>1
  <2>3. sensors \in Nat /\ sensors <= n
    BY <2>2
  <2> QED BY <2>2, <2>3, MinOfTwo DEF SensorWeight
<1>3. \A u \in Trees : Weight(dimmed[u]) \in Nat /\ Weight(dimmed[u]) <= Weight(day[u])
  <2> SUFFICES ASSUME NEW u \in Trees
               PROVE  Weight(dimmed[u]) \in Nat /\ Weight(dimmed[u]) <= Weight(day[u])
    OBVIOUS
  <2>1. CASE u = t
    BY <1>1, <1>2, <2>1 DEF Weight
  <2>2. CASE u # t
    <3>1. Weight(dimmed[u]) = Weight(day[u]) /\ Weight(day[u]) \in Nat
      BY <1>1, <2>2, WeightType
    <3> QED BY <3>1
  <2> QED BY <2>1, <2>2
<1>4. ASSUME SensorWeight(sensors) = SensorWeight(day[t].sensors)
      PROVE  TotalWeight(dimmed) = TotalWeight(day)
  <2>1. \A u \in Trees : Weight(dimmed[u]) = Weight(day[u])
    BY <1>1, <1>4 DEF Weight
  <2> QED BY <2>1 DEF TotalWeight
<1>5. TotalWeight(dimmed) <= TotalWeight(day)
  <2>1. PICK f, g : f = [u \in Trees |-> Weight(dimmed[u])] /\ g = [u \in Trees |-> Weight(day[u])]
    OBVIOUS
  <2>2. \A u \in Trees : f[u] \in Int /\ g[u] \in Int /\ f[u] <= g[u]
    BY <1>3, <2>1, WeightType
  <2>3. SumFunctionOnSet(f, Trees) <= SumFunctionOnSet(g, Trees)
    BY <2>2, SumMonotone, RewardsAssumption
  <2>4. DOMAIN f = Trees /\ DOMAIN g = Trees
    BY <2>1
  <2> QED BY <2>1, <2>3, <2>4 DEF TotalWeight, SumFunction
<1> QED BY <1>1, <1>3, <1>4, <1>5

(* A smaller divisor gives a whole quotient that is no smaller.             *)
LEMMA SmallerDivisor ==
  ASSUME NEW a \in Nat, NEW b \in Nat \ {0}, NEW c \in Nat \ {0}, c <= b
  PROVE  a \div b <= a \div c
<1>1. PICK q \in Nat : q = a \div b /\ q * b <= a
  BY WholeQuotient
<1>2. q * c <= q * b
  BY <1>1
<1>3. q * c <= a
  BY <1>1, <1>2
<1>4. PICK p \in Nat : p = a \div c /\ a < (p + 1) * c
  <2>1. a \div c \in Nat /\ a < (a \div c + 1) * c
    BY WholeQuotient, SMT
  <2> QED BY <2>1
<1>5. q * c < (p + 1) * c
  BY <1>1, <1>3, <1>4
<1>6. q < p + 1
  BY <1>5
<1> QED BY <1>1, <1>4, <1>6

(* What another Tree is paid when one has fewer sensors and other hours.    *)
LEMMA DimmedPaysOthers ==
  ASSUME NEW day \in [Trees -> Observations], NEW ceiling \in Nat,
         NEW t \in Trees, NEW u \in Trees, t # u,
         NEW sensors \in 0..day[t].sensors, NEW beats,
         NEW given, given = Reward(Dimmed(day, t, sensors, beats), ceiling, u)
  PROVE  /\ given >= Reward(day, ceiling, u)
         /\ (SensorWeight(sensors) = SensorWeight(day[t].sensors)) => (given = Reward(day, ceiling, u))
<1>1. PICK dimmed : dimmed = Dimmed(day, t, sensors, beats)
  OBVIOUS
<1>2. PICK w, hours, less, all :
        /\ w = Weight(day[u]) /\ hours = day[u].beats
        /\ less = TotalWeight(dimmed) /\ all = TotalWeight(day)
  OBVIOUS
<1>3. /\ dimmed[u] = day[u] /\ less <= all /\ Weight(dimmed[u]) \in Nat
      /\ (SensorWeight(sensors) = SensorWeight(day[t].sensors)) => (less = all)
  BY <1>1, <1>2, DimmedWeighsLess
<1>4. w \in Nat /\ hours \in 0..24 /\ all \in Nat
  BY <1>2, WeightType, TotalWeightType DEF HeartbeatsPerDay
<1>5. less \in Nat /\ w <= less
  <2>1. PICK f : f = [x \in Trees |-> Weight(dimmed[x])]
    OBVIOUS
  <2>2. \A x \in Trees : f[x] \in Nat
    BY <1>1, <2>1, DimmedWeighsLess
  <2>3. less = SumFunctionOnSet(f, Trees)
    BY <1>2, <2>1 DEF TotalWeight, SumFunction
  <2>4. SumFunctionOnSet(f, Trees) = f[u] + SumFunctionOnSet(f, Trees \ {u})
    BY <2>2, SumTakeOut, RewardsAssumption
  <2>5. SumFunctionOnSet(f, Trees \ {u}) \in Nat
    <3>1. IsFiniteSet(Trees \ {u})
      BY RewardsAssumption, FS_Subset
    <3> QED BY <2>2, <3>1, SumNat
  <2>6. f[u] = w
    BY <1>2, <1>3, <2>1
  <2> QED BY <1>4, <2>3, <2>4, <2>5, <2>6
<1>6. CASE w = 0
  BY <1>1, <1>2, <1>3, <1>6 DEF Reward
<1>7. CASE w # 0
  <2>1. given = (ceiling * w * hours) \div (less * 24)
        /\ Reward(day, ceiling, u) = (ceiling * w * hours) \div (all * 24)
    BY <1>1, <1>2, <1>3, <1>7 DEF Reward, HeartbeatsPerDay
  <2>2. PICK a \in Nat : a = ceiling * w * hours
    <3>1. ceiling * w \in Nat
      BY <1>4
    <3>2. \A x \in Nat, y \in 0..24 : x * y \in Nat
      OBVIOUS
    <3> QED BY <1>4, <3>1, <3>2
  <2>3. less * 24 \in Nat \ {0} /\ all * 24 \in Nat \ {0} /\ less * 24 <= all * 24
    BY <1>3, <1>4, <1>5, <1>7
  <2>4. PICK p, q \in Nat : p = a \div (less * 24) /\ q = a \div (all * 24) /\ q <= p
    <3>1. PICK b, c \in Nat \ {0} : b = all * 24 /\ c = less * 24 /\ c <= b
      BY <2>3
    <3>2. a \div b \in Nat /\ a \div c \in Nat
      BY WholeQuotient
    <3>3. a \div b <= a \div c
      BY <3>1, SmallerDivisor
    <3> QED BY <3>1, <3>2, <3>3
  <2> QED BY <1>3, <2>1, <2>2, <2>4
<1> QED BY <1>6, <1>7

--------------------------------------------------------------------------------
(****************************************************************************)
(* What the rows of some days have paid.                                    *)
(****************************************************************************)
PaidIn(rows, days) == SumFunction([d \in days |-> Distributed(rows[d].rewards)])

LEMMA PaidOnIsPaidIn ==
  /\ \A days : PaidOn(days) = PaidIn(ledger, days)
  /\ Total = PaidIn(ledger, Settled) /\ Total' = PaidIn(ledger', Settled')
  /\ \A d : /\ SpentBy(d) = PaidIn(ledger, {e \in Settled : e <= d})
            /\ SpentBy(d)' = PaidIn(ledger', {e \in Settled' : e <= d})
  BY DEF PaidOn, Total, SpentBy, PaidIn

LEMMA DistributedType ==
  ASSUME NEW rewards \in [Trees -> Nat]
  PROVE  Distributed(rewards) \in Nat
  BY RewardsAssumption, SumNat DEF Distributed, SumFunction

LEMMA DaysAreFinite == IsFiniteSet(Days)
  BY FS_Interval, LedgerAssumption DEF Days

LEMMA PaidInType ==
  ASSUME NEW rows, NEW S \in SUBSET Days, \A d \in S : rows[d] \in Rows
  PROVE  PaidIn(rows, S) \in Nat
<1> DEFINE f == [d \in S |-> Distributed(rows[d].rewards)]
<1>1. IsFiniteSet(S)
  BY DaysAreFinite, FS_Subset
<1>2. \A d \in S : f[d] \in Nat
  BY DistributedType DEF Rows
<1>3. SumFunctionOnSet(f, S) \in Nat
  <2> HIDE DEF f
  <2> QED BY <1>1, <1>2, SumNat
<1> QED BY <1>3 DEF PaidIn, SumFunction

LEMMA PaidInSame ==
  ASSUME NEW rows, NEW later, NEW S, \A d \in S : later[d] = rows[d]
  PROVE  PaidIn(later, S) = PaidIn(rows, S)
<1>1. [d \in S |-> Distributed(later[d].rewards)] = [d \in S |-> Distributed(rows[d].rewards)]
  OBVIOUS
<1> QED BY <1>1 DEF PaidIn

LEMMA PaidInMore ==
  ASSUME NEW rows, NEW S \in SUBSET Days, NEW x \in Days \ S,
         \A d \in S \union {x} : rows[d] \in Rows
  PROVE  PaidIn(rows, S \union {x}) = PaidIn(rows, S) + Distributed(rows[x].rewards)
<1> DEFINE f == [d \in S |-> Distributed(rows[d].rewards)]
           g == [d \in S \union {x} |-> Distributed(rows[d].rewards)]
<1>1. IsFiniteSet(S)
  BY DaysAreFinite, FS_Subset
<1>2. \A d \in S \union {x} : g[d] \in Nat
  BY DistributedType DEF Rows
<1>3. SumFunctionOnSet(g, S \union {x}) = g[x] + SumFunctionOnSet(g, S)
  <2> HIDE DEF g
  <2> QED BY <1>1, <1>2, SumAdd
<1>4. SumFunctionOnSet(g, S) = SumFunctionOnSet(f, S)
  <2>1. \A d \in S : g[d] = f[d]
    OBVIOUS
  <2> HIDE DEF f, g
  <2> QED BY <1>1, <2>1, SumCongruent
<1>5. SumFunctionOnSet(g, S) \in Nat
  <2> HIDE DEF g
  <2> QED BY <1>1, <1>2, SumNat
<1>6. g[x] = Distributed(rows[x].rewards) /\ g[x] \in Nat
  BY <1>2
<1>7. /\ PaidIn(rows, S \union {x}) = SumFunctionOnSet(g, S \union {x})
      /\ PaidIn(rows, S) = SumFunctionOnSet(f, S)
  BY DEF PaidIn, SumFunction
<1> HIDE DEF f, g
<1> QED BY <1>3, <1>4, <1>5, <1>6, <1>7

LEMMA PaidInPart ==
  ASSUME NEW rows, NEW S \in SUBSET Days, NEW T \in SUBSET S, \A d \in S : rows[d] \in Rows
  PROVE  PaidIn(rows, T) <= PaidIn(rows, S)
<1> DEFINE f == [d \in T |-> Distributed(rows[d].rewards)]
           g == [d \in S |-> Distributed(rows[d].rewards)]
<1>1. IsFiniteSet(S) /\ IsFiniteSet(T)
  BY DaysAreFinite, FS_Subset
<1>2. \A d \in S : g[d] \in Nat
  BY DistributedType DEF Rows
<1>3. SumFunctionOnSet(g, T) <= SumFunctionOnSet(g, S)
  <2> HIDE DEF g
  <2> QED BY <1>1, <1>2, SumSubset
<1>4. SumFunctionOnSet(g, T) = SumFunctionOnSet(f, T)
  <2>1. \A d \in T : g[d] = f[d]
    OBVIOUS
  <2> HIDE DEF f, g
  <2> QED BY <1>1, <2>1, SumCongruent
<1> QED BY <1>3, <1>4 DEF PaidIn, SumFunction

--------------------------------------------------------------------------------
(****************************************************************************)
(* Either one command runs at a time, or no day is left out: then the days  *)
(* below the one a run is at are settled, and of two runs at different      *)
(* days one is at a day that is settled.                                    *)
(****************************************************************************)
Orderly == Exclusive \/ Single \subseteq {0}

Busy(r) == pc[r] # "idle"
HasSnapshot(l, j) == l \in {"check", "insert"} \/ j.goal = 0

(* What is true of a run at label l with job j when the days of settled are *)
(* settled and have cost total.                                             *)
RunInv(settled, total, l, j) ==
  IF l = "idle" THEN j = NoRow
  ELSE LET d == Min(j.todo) IN
    /\ j \in Jobs /\ j.todo # {}
    /\ j.snap.total <= Pool
    /\ j.goal = 0 => j.todo = {d}
    /\ l \in {"settle", "check", "insert"} => j.obs \in DayObservations
    /\ HasSnapshot(l, j) /\ d \notin settled => j.snap.total = total
    /\ l = "insert" /\ d \notin settled => \A e \in settled : e < d
    /\ ~Exclusive => \A e \in j.todo, f \in Days : f < e => f \in settled \union j.todo

LedgerInv ==
  /\ ledger \in [Days -> Rows \union {NoRow}]
  /\ closed \in 0..(LastDay + 1)
  /\ pc \in [Runs -> Labels] /\ job = [r \in Runs |-> job[r]]
  /\ said \in [Runs -> 0..(LastDay + 1)]
  /\ Total <= Pool /\ AuditsClean
  /\ Exclusive => \A q, r \in Runs : Busy(q) /\ Busy(r) => q = r
  /\ ~Exclusive => NoGap
  /\ \A r \in Runs : RunInv(Settled, Total, pc[r], job[r])

LEMMA SettledRows ==
  ASSUME LedgerInv
  PROVE  Settled \in SUBSET Days /\ Total \in Nat /\ \A d \in Settled : ledger[d] \in Rows
<1>1. Settled \in SUBSET Days /\ \A d \in Settled : ledger[d] \in Rows
  BY DEF Settled, LedgerInv
<1> QED BY <1>1, PaidInType, PaidOnIsPaidIn

(* A run goes on, begins or ends, and writes nothing.                       *)
LEMMA OneRunMoves ==
  ASSUME LedgerInv, ledger' = ledger, closed' = closed,
         said' \in [Runs -> 0..(LastDay + 1)],
         NEW r \in Runs, NEW l \in Labels, NEW j,
         pc' = [pc EXCEPT ![r] = l], job' = [job EXCEPT ![r] = j],
         RunInv(Settled, Total, l, j),
         Exclusive /\ l # "idle" => \A q \in Runs : Busy(q) => q = r
  PROVE  LedgerInv'
<1>1. Settled' = Settled /\ Total' = Total /\ AuditsClean' /\ (NoGap => NoGap')
  BY DEF LedgerInv, Settled, Total, PaidOn, AuditsClean, SpentBy, NoGap
<1>2. \A q \in Runs : RunInv(Settled, Total, pc'[q], job'[q])
  BY DEF LedgerInv
<1>3. \A q \in Runs : RunInv(Settled', Total', pc'[q], job'[q])
  BY <1>1, <1>2
<1>4. Exclusive => \A q, s \in Runs : pc'[q] # "idle" /\ pc'[s] # "idle" => q = s
  BY DEF LedgerInv, Busy
<1>5. pc' \in [Runs -> Labels] /\ job' = [q \in Runs |-> job'[q]]
  BY DEF LedgerInv
<1> QED BY <1>1, <1>3, <1>4, <1>5 DEF LedgerInv, Busy

LEMMA SnapshotType ==
  ASSUME LedgerInv
  PROVE  /\ Snapshot.total = Total /\ Snapshot.last \in Settled \union {NoDay}
         /\ \A d \in Settled : d <= Snapshot.last
         /\ Snapshot \in [total: Nat, last: Days \union {NoDay}]
  BY SettledRows, MaxOfDays DEF Snapshot

LEMMA PendingType ==
  ASSUME LedgerInv
  PROVE  /\ Pending \in SUBSET Days /\ (Pending # {} => closed # 0)
         /\ Pending \intersect Settled = {}
         /\ ~Exclusive => \A d \in Pending, e \in Days : e < d => e \in Settled \union Pending
<1> DEFINE last == Snapshot.last
<1>1. last \in Settled \union {NoDay} /\ closed \in 0..(LastDay + 1)
  BY SnapshotType DEF LedgerInv
<1>2. Pending = {d \in Days : d > last /\ d < closed} \ Settled
  BY DEF Pending
<1> HIDE DEF last
<1>3. ASSUME ~Exclusive, NEW d \in Pending, NEW e \in Days, e < d, e \notin Pending
      PROVE  e \in Settled
  <2>1. ~(e > last) \/ e \in Settled
    BY <1>1, <1>2, <1>3, LedgerAssumption DEF Days
  <2>2. CASE last \in Settled
    <3>1. NoGap /\ last \in Days
      BY <1>3, <2>2 DEF LedgerInv, Settled
    <3> QED BY <1>3, <2>1, <2>2, <3>1, LedgerAssumption DEF NoGap, Days
  <2>3. CASE last = NoDay
    BY <1>3, <2>1, <2>3, LedgerAssumption DEF NoDay, Days
  <2> QED BY <1>1, <2>2, <2>3
<1>4. Pending # {} => closed # 0
  BY <1>1, <1>2, LedgerAssumption DEF Days
<1> QED BY <1>2, <1>3, <1>4

(* A run begins with the snapshot of the moment.                            *)
LEMMA BeginKeeps ==
  ASSUME LedgerInv, NEW r \in Runs, MayStart(r), Sound(Snapshot),
         NEW todo \in SUBSET Days, todo # {}, NEW goal \in 0..(LastDay + 1),
         Begin(r, todo, goal),
         goal = 0 => todo = {Min(todo)},
         ~Exclusive => \A d \in todo, e \in Days : e < d => e \in Settled \union todo
  PROVE  LedgerInv'
<1> DEFINE j == [todo |-> todo, goal |-> goal, snap |-> Snapshot, obs |-> NoRow]
<1>1. j \in Jobs
  BY SnapshotType DEF Jobs
<1>2. RunInv(Settled, Total, "observe", j)
  BY <1>1, SnapshotType DEF RunInv, Sound, HasSnapshot
<1>3. /\ pc' = [pc EXCEPT ![r] = "observe"] /\ job' = [job EXCEPT ![r] = j]
      /\ ledger' = ledger /\ closed' = closed /\ said' = said
  BY DEF Begin, Goto
<1>4. Exclusive => \A q \in Runs : Busy(q) => q = r
  BY DEF MayStart, Busy
<1>5. said' \in [Runs -> 0..(LastDay + 1)] /\ "observe" \in Labels
  BY <1>3 DEF LedgerInv, Labels
<1> HIDE DEF j
<1> QED BY <1>2, <1>3, <1>4, <1>5, OneRunMoves

LEMMA StartOneKeeps ==
  ASSUME Orderly, LedgerInv, NEW r \in Runs, NEW d \in Days, StartOne(r, d)
  PROVE  LedgerInv'
<1>1. Min({d}) = d
  BY MinOfDays
<1>2. ~Exclusive => \A e \in {d}, f \in Days : ~(f < e)
  BY LedgerAssumption DEF Orderly, StartOne, Days
<1>3. MayStart(r) /\ Sound(Snapshot) /\ Begin(r, {d}, 0) /\ 0 \in 0..(LastDay + 1)
  BY LedgerAssumption DEF StartOne
<1> QED BY <1>1, <1>2, <1>3, BeginKeeps

LEMMA StartAllKeeps ==
  ASSUME LedgerInv, NEW r \in Runs, StartAll(r)
  PROVE  LedgerInv'
<1>1. /\ MayStart(r) /\ Sound(Snapshot) /\ Begin(r, Pending, closed) /\ Pending # {}
      /\ closed \in 0..(LastDay + 1)
  BY DEF StartAll, LedgerInv
<1> QED BY <1>1, PendingType, BeginKeeps

LEMMA ObserveKeeps ==
  ASSUME LedgerInv, NEW r \in Runs, NEW day \in DayObservations, Observe(r, day)
  PROVE  LedgerInv'
<1> DEFINE j == [job[r] EXCEPT !.obs = day]
<1>1. /\ RunInv(Settled, Total, pc[r], job[r]) /\ pc[r] = "observe"
      /\ pc' = [pc EXCEPT ![r] = "settle"] /\ job' = [job EXCEPT ![r] = j]
      /\ UNCHANGED <<ledger, closed, said>>
  BY DEF Observe, LedgerInv, Goto
<1>2. j \in Jobs /\ j.todo = job[r].todo /\ j.goal = job[r].goal /\ j.snap = job[r].snap
      /\ j.obs = day
  BY <1>1 DEF RunInv, Jobs
<1> HIDE DEF j
<1>3. RunInv(Settled, Total, "settle", j)
  BY <1>1, <1>2 DEF RunInv, HasSnapshot
<1> QED BY <1>1, <1>3, OneRunMoves DEF LedgerInv, Labels, Busy

LEMMA TakeSnapshotKeeps ==
  ASSUME LedgerInv, NEW r \in Runs, TakeSnapshot(r)
  PROVE  LedgerInv'
<1>1. /\ RunInv(Settled, Total, pc[r], job[r]) /\ pc[r] = "settle" /\ Sound(Snapshot)
      /\ pc' = [pc EXCEPT ![r] = "check"] /\ UNCHANGED <<ledger, closed, said>>
  BY DEF TakeSnapshot, LedgerInv, Goto
<1>2. CASE job[r].goal = 0 /\ job' = job
  <2>1. RunInv(Settled, Total, "check", job[r])
    BY <1>1, <1>2 DEF RunInv, HasSnapshot
  <2>2. job' = [job EXCEPT ![r] = job[r]]
    BY <1>2 DEF LedgerInv
  <2> QED BY <1>1, <2>1, <2>2, OneRunMoves DEF LedgerInv, Labels, Busy
<1>3. CASE job[r].goal # 0 /\ job' = [job EXCEPT ![r].snap = Snapshot]
  <2> DEFINE j == [job[r] EXCEPT !.snap = Snapshot]
  <2>1. j \in Jobs /\ j.todo = job[r].todo /\ j.goal = job[r].goal /\ j.snap = Snapshot
        /\ j.obs = job[r].obs /\ job' = [job EXCEPT ![r] = j]
    BY <1>1, <1>3, SnapshotType DEF RunInv, Jobs
  <2> HIDE DEF j
  <2>2. RunInv(Settled, Total, "check", j)
    BY <1>1, <1>3, <2>1, SnapshotType DEF RunInv, HasSnapshot, Sound
  <2> QED BY <1>1, <2>1, <2>2, OneRunMoves DEF LedgerInv, Labels, Busy
<1> QED BY <1>2, <1>3 DEF TakeSnapshot

LEMMA CheckKeeps ==
  ASSUME LedgerInv, NEW r \in Runs, Check(r)
  PROVE  LedgerInv'
<1>1. /\ RunInv(Settled, Total, pc[r], job[r]) /\ pc[r] = "check"
      /\ Day(r) \notin Settled /\ Day(r) >= Snapshot.last
      /\ pc' = [pc EXCEPT ![r] = "insert"] /\ UNCHANGED <<ledger, closed, job, said>>
  BY DEF Check, LedgerInv, Goto
<1>2. Day(r) \in Days
  BY <1>1, MinOfDays DEF RunInv, Jobs, Day
<1>3. \A e \in Settled : e < Day(r)
  <2>1. \A e \in Settled : e \in Days /\ e <= Snapshot.last /\ e # Day(r) /\ Snapshot.last \in Days \union {NoDay}
    BY <1>1, SettledRows, SnapshotType
  <2> QED BY <1>1, <1>2, <2>1, LedgerAssumption DEF Days, NoDay
<1>4. RunInv(Settled, Total, "insert", job[r])
  BY <1>1, <1>3 DEF RunInv, HasSnapshot, Day
<1>5. job' = [job EXCEPT ![r] = job[r]]
  BY <1>1 DEF LedgerInv
<1> QED BY <1>1, <1>4, <1>5, OneRunMoves DEF LedgerInv, Labels, Busy

LEMMA FailKeeps ==
  ASSUME LedgerInv, NEW r \in Runs, Fail(r)
  PROVE  LedgerInv'
<1>1. RunInv(Settled, Total, "idle", NoRow)
  BY DEF RunInv
<1> QED BY <1>1, OneRunMoves DEF Fail, Finish, Goto, LedgerInv, Labels

(* What a run is about to record is covered by what is left of the pool.    *)
LEMMA RowType ==
  ASSUME LedgerInv, NEW r \in Runs, pc[r] \in {"check", "insert"}
  PROVE  /\ Ceiling(r) \in Nat /\ Distributed(Earned(r)) \in Nat
         /\ Distributed(Earned(r)) <= Ceiling(r) /\ Ceiling(r) <= Remaining(r)
         /\ Remaining(r) = Pool - job[r].snap.total /\ job[r].snap.total \in Nat
         /\ Row(r) \in Rows
<1>1. /\ job[r] \in Jobs /\ job[r].todo # {} /\ job[r].snap.total <= Pool
      /\ job[r].obs \in [Trees -> Observations]
  BY DEF LedgerInv, RunInv, DayObservations
<1>2. job[r].snap.total \in Nat /\ job[r].todo \in SUBSET Days
  BY <1>1 DEF Jobs
<1>3. Day(r) \in Days /\ Remaining(r) \in Nat /\ Remaining(r) = Pool - job[r].snap.total
  BY <1>1, <1>2, MinOfDays, RewardsAssumption DEF Day, Remaining
<1>4. Ceiling(r) \in Nat /\ Ceiling(r) <= Remaining(r)
  BY <1>3, CeilingType DEF Ceiling
<1>5. /\ Earned(r) \in [Trees -> Nat] /\ Distributed(Earned(r)) \in Nat
      /\ Distributed(Earned(r)) <= Ceiling(r)
  BY <1>1, <1>4, CeilingKept DEF Earned
<1>6. Closing(r) \in Int
  BY <1>3, <1>5 DEF Closing
<1> QED BY <1>2, <1>3, <1>4, <1>5, <1>6 DEF Row, Rows

(* The row that is inserted continues the books: no other run has written   *)
(* since this one took its snapshot, and no later day is settled.           *)
LEMMA InsertBooks ==
  ASSUME LedgerInv, NEW r \in Runs, Insert(r)
  PROVE  LET d == Day(r) IN
         /\ d \in Days /\ d \notin Settled /\ Settled' = Settled \union {d}
         /\ ledger' \in [Days -> Rows \union {NoRow}]
         /\ Total' <= Pool /\ AuditsClean'
<1> DEFINE paid == Distributed(Earned(r))
<1>0. PICK d : d = Day(r)
  OBVIOUS
<1>1. pc[r] = "insert" /\ d \notin Settled /\ ledger' = [ledger EXCEPT ![d] = Row(r)]
  BY <1>0 DEF Insert, Insertable
<1>2. /\ RunInv(Settled, Total, "insert", job[r])
      /\ ledger \in [Days -> Rows \union {NoRow}] /\ Total <= Pool /\ AuditsClean
  BY <1>1 DEF LedgerInv
<1>3. d \in Days
  BY <1>0, <1>2, MinOfDays DEF RunInv, Jobs, Day
<1>4. job[r].snap.total = Total /\ \A e \in Settled : e < d
  BY <1>0, <1>1, <1>2 DEF RunInv, HasSnapshot, Day
<1>5. /\ Row(r) \in Rows /\ paid \in Nat /\ paid <= Ceiling(r) /\ Ceiling(r) <= Pool - Total
      /\ Ceiling(r) \in Nat /\ Remaining(r) = Pool - Total
  BY <1>1, <1>4, RowType
<1>6. Settled \in SUBSET Days /\ Total \in Nat /\ \A e \in Settled : ledger[e] \in Rows
  BY SettledRows
<1>7. ledger' \in [Days -> Rows \union {NoRow}] /\ ledger'[d] = Row(r)
  BY <1>1, <1>2, <1>3, <1>5
<1>8. Row(r) # NoRow
  <2>1. "ceiling" \in DOMAIN Row(r) /\ "ceiling" \notin DOMAIN NoRow
    BY DEF Row, NoRow
  <2> QED BY <2>1
<1>9. /\ Settled' = Settled \union {d}
      /\ \A e \in Settled : e # d /\ ledger'[e] = ledger[e]
      /\ \A e \in Settled \union {d} : ledger'[e] \in Rows
  <2>1. \A e \in Days : e # d => ledger'[e] = ledger[e]
    BY <1>1, <1>2
  <2>2. Settled' = Settled \union {d}
    BY <2>1, <1>3, <1>7, <1>8 DEF Settled
  <2> QED BY <2>1, <2>2, <1>1, <1>5, <1>6, <1>7
<1>10. Row(r).rewards = Earned(r) /\ Row(r).ceiling = Ceiling(r)
       /\ Row(r).closing = Remaining(r) - paid
  BY DEF Row, Closing
<1> HIDE DEF paid
<1>11. Total' = Total + paid
  <2>1. Total' = PaidIn(ledger', Settled \union {d}) /\ Total = PaidIn(ledger, Settled)
    BY <1>9, PaidOnIsPaidIn
  <2>2. PaidIn(ledger', Settled) = PaidIn(ledger, Settled)
    BY <1>9, PaidInSame
  <2>3. PaidIn(ledger', Settled \union {d})
          = PaidIn(ledger', Settled) + Distributed(ledger'[d].rewards)
    BY <1>1, <1>3, <1>6, <1>9, PaidInMore
  <2> QED BY <2>1, <2>2, <2>3, <1>7, <1>10 DEF paid
<1>12. Total' <= Pool
  BY <1>5, <1>6, <1>11, RewardsAssumption
<1>13. AuditsClean'
  <2>1. ASSUME NEW e \in Settled
        PROVE  /\ Distributed(ledger'[e].rewards) <= ledger'[e].ceiling
               /\ ledger'[e].closing = Pool - SpentBy(e)'
    <3>1. {f \in Settled' : f <= e} = {f \in Settled : f <= e}
      <4>1. ~(d <= e)
        <5>1. e < d /\ e \in Int /\ d \in Int
          BY <1>3, <1>4, <1>6, LedgerAssumption DEF Days
        <5> QED BY <5>1
      <4> QED BY <4>1, <1>9
    <3>2. PaidIn(ledger', {f \in Settled : f <= e}) = PaidIn(ledger, {f \in Settled : f <= e})
      BY <1>9, PaidInSame
    <3>3. SpentBy(e)' = SpentBy(e)
      BY <3>1, <3>2, PaidOnIsPaidIn
    <3>4. Distributed(ledger[e].rewards) <= ledger[e].ceiling
          /\ ledger[e].closing = Pool - SpentBy(e)
      BY <1>2 DEF AuditsClean
    <3> QED BY <3>3, <3>4, <1>9
  <2>2. /\ Distributed(ledger'[d].rewards) <= ledger'[d].ceiling
        /\ ledger'[d].closing = Pool - SpentBy(d)'
    <3>1. {f \in Settled' : f <= d} = Settled'
      <4>1. \A f \in Settled \union {d} : f <= d
        <5>1. Days \subseteq Int
          BY LedgerAssumption DEF Days
        <5>2. d \in Int /\ \A f \in Settled : f < d /\ f \in Int
          BY <1>3, <1>4, <1>6, <5>1
        <5> QED BY <5>1, <5>2
      <4> QED BY <4>1, <1>9
    <3>2. SpentBy(d)' = Total'
      BY <3>1, PaidOnIsPaidIn
    <3>3. ledger'[d].closing = Pool - Total - paid
      BY <1>5, <1>7, <1>10
    <3>4. ledger'[d].closing = Pool - SpentBy(d)'
      BY <3>2, <3>3, <1>5, <1>6, <1>11, RewardsAssumption
    <3> QED BY <3>4, <1>5, <1>7, <1>10 DEF paid
  <2> QED BY <2>1, <2>2, <1>9 DEF AuditsClean
<1> QED BY <1>0, <1>1, <1>3, <1>7, <1>9, <1>12, <1>13

LEMMA InsertKeeps ==
  ASSUME LedgerInv, NEW r \in Runs, Insert(r)
  PROVE  LedgerInv'
<1> DEFINE d == Day(r)
           j == job[r]
           rest == j.todo \ {d}
<1>1. /\ d \in Days /\ d \notin Settled /\ Settled' = Settled \union {d}
      /\ ledger' \in [Days -> Rows \union {NoRow}] /\ Total' <= Pool /\ AuditsClean'
  BY InsertBooks
<1>2. RunInv(Settled, Total, "insert", j) /\ pc[r] = "insert" /\ closed' = closed
  BY DEF LedgerInv, Insert
<1>3. /\ j \in Jobs /\ j.todo # {} /\ j.snap.total <= Pool /\ d = Min(j.todo)
      /\ j.goal = 0 => j.todo = {d}
      /\ ~Exclusive => \A e \in j.todo, f \in Days : f < e => f \in Settled \union j.todo
  BY <1>2 DEF RunInv, Day
<1>4. d \in j.todo /\ j.todo \in SUBSET Days /\ \A e \in j.todo : ~(e < d)
  <2>1. j.todo \in SUBSET Days
    BY <1>3 DEF Jobs
  <2>2. d \in j.todo /\ \A e \in j.todo : d <= e
    BY <2>1, <1>3, MinOfDays
  <2>3. \A e \in j.todo : d <= e => ~(e < d)
    BY <2>1, <1>1, LedgerAssumption DEF Days
  <2> QED BY <2>1, <2>2, <2>3
<1> HIDE DEF d
<1>5. ~Exclusive => \A f \in Days : f < d => f \in Settled
  BY <1>3, <1>4
<1>6. ~Exclusive => NoGap'
  <2> SUFFICES ASSUME ~Exclusive, NEW x \in Settled', NEW y \in Days, y < x
               PROVE  y \in Settled'
    BY DEF NoGap
  <2>1. CASE x = d
    BY <2>1, <1>1, <1>5
  <2>2. CASE x \in Settled
    BY <2>2, <1>1 DEF LedgerInv, NoGap
  <2> QED BY <2>1, <2>2, <1>1
<1>7. ASSUME NEW q \in Runs, q # r
      PROVE  RunInv(Settled', Total', pc[q], job[q])
  <2> DEFINE k == job[q]
             x == Min(k.todo)
  <2>1. RunInv(Settled, Total, pc[q], k)
    BY DEF LedgerInv
  <2>2. CASE pc[q] = "idle"
    BY <2>1, <2>2 DEF RunInv
  <2>3. CASE pc[q] # "idle"
    <3>1. ~Exclusive
      BY <1>2, <1>7, <2>3 DEF LedgerInv, Busy
    <3>2. /\ k \in Jobs /\ k.todo # {}
          /\ \A e \in k.todo, f \in Days : f < e => f \in Settled \union k.todo
      BY <2>1, <2>3, <3>1 DEF RunInv
    <3>3. k.todo \in SUBSET Days
      BY <3>2 DEF Jobs
    <3>4. x \in k.todo /\ x \in Days /\ \A e \in k.todo : x <= e
      BY <3>2, <3>3, MinOfDays
    <3>5. x \in Settled'
      <4> HIDE DEF x, k
      <4>1. CASE x = d
        BY <4>1, <1>1
      <4>2. CASE x < d
        BY <4>2, <3>1, <3>4, <1>1, <1>5
      <4>3. CASE d < x
        <5>1. d \notin k.todo
          BY <4>3, <3>4, <1>1, LedgerAssumption DEF Days
        <5> QED BY <4>3, <5>1, <3>2, <3>4, <1>1
      <4> QED BY <4>1, <4>2, <4>3, <3>4, <1>1, LedgerAssumption DEF Days
    <3> QED BY <2>1, <2>3, <3>5, <1>1 DEF RunInv
  <2> QED BY <2>2, <2>3
<1>8. said' \in [Runs -> 0..(LastDay + 1)]
  <2>1. j.goal \in 0..(LastDay + 1)
    BY <1>3 DEF Jobs
  <2> QED BY <2>1 DEF Insert, LedgerInv
<1>9. CASE /\ rest # {} /\ job' = [job EXCEPT ![r].todo = rest]
           /\ pc' = [pc EXCEPT ![r] = "observe"]
  <2> DEFINE k == [j EXCEPT !.todo = rest]
  <2>1. /\ k \in Jobs /\ k.todo = rest /\ k.goal = j.goal /\ k.snap = j.snap
        /\ job' = [job EXCEPT ![r] = k]
    BY <1>3, <1>4, <1>9 DEF Jobs
  <2> HIDE DEF k
  <2>2. k.goal # 0
    BY <1>3, <1>9, <2>1
  <2>3. ~Exclusive => \A e \in k.todo, f \in Days : f < e => f \in Settled' \union k.todo
    BY <1>1, <1>3, <2>1
  <2>4. RunInv(Settled', Total', "observe", k)
    BY <1>3, <1>9, <2>1, <2>2, <2>3 DEF RunInv, HasSnapshot
  <2>5. \A q \in Runs : RunInv(Settled', Total', pc'[q], job'[q])
    BY <1>7, <1>9, <2>1, <2>4 DEF LedgerInv
  <2>6. /\ pc' \in [Runs -> Labels] /\ job' = [q \in Runs |-> job'[q]]
        /\ Exclusive => \A p, q \in Runs : pc'[p] # "idle" /\ pc'[q] # "idle" => p = q
    BY <1>2, <1>9 DEF LedgerInv, Labels, Busy
  <2> QED BY <1>1, <1>2, <1>6, <1>8, <2>5, <2>6 DEF LedgerInv, Busy
<1>10. CASE pc' = [pc EXCEPT ![r] = "idle"] /\ job' = [job EXCEPT ![r] = NoRow]
  <2>1. \A q \in Runs : RunInv(Settled', Total', pc'[q], job'[q])
    BY <1>7, <1>10 DEF LedgerInv, RunInv
  <2>2. /\ pc' \in [Runs -> Labels] /\ job' = [q \in Runs |-> job'[q]]
        /\ Exclusive => \A p, q \in Runs : pc'[p] # "idle" /\ pc'[q] # "idle" => p = q
    BY <1>2, <1>10 DEF LedgerInv, Labels, Busy
  <2> QED BY <1>1, <1>2, <1>6, <1>8, <2>1, <2>2 DEF LedgerInv, Busy
<1> QED BY <1>9, <1>10 DEF Insert, Finish, Goto, d

LEMMA LedgerInductive ==
  ASSUME Orderly, LedgerInv, [Next]_vars
  PROVE  LedgerInv'
<1>1. CASE UNCHANGED <<ledger, pc, job>> /\ closed' \in 0..(LastDay + 1)
           /\ said' \in [Runs -> 0..(LastDay + 1)]
  <2>1. Settled' = Settled /\ Total' = Total /\ AuditsClean' /\ (NoGap => NoGap')
    BY <1>1 DEF LedgerInv, Settled, Total, PaidOn, AuditsClean, SpentBy, NoGap
  <2> QED BY <1>1, <2>1 DEF LedgerInv, Busy
<1>2. CASE UNCHANGED vars
  BY <1>1, <1>2 DEF vars, LedgerInv
<1>3. CASE DayCloses
  <2>1. closed' \in 0..(LastDay + 1) /\ UNCHANGED <<ledger, pc, job, said>>
    BY <1>3, LedgerAssumption DEF DayCloses, LedgerInv
  <2> QED BY <1>1, <2>1 DEF LedgerInv
<1>4. ASSUME NEW r \in Runs, NothingToSettle(r) PROVE LedgerInv'
  BY <1>1, <1>4 DEF NothingToSettle, LedgerInv
<1> QED
  BY <1>2, <1>3, <1>4, StartOneKeeps, StartAllKeeps, ObserveKeeps, TakeSnapshotKeeps,
     CheckKeeps, InsertKeeps, FailKeeps
  DEF Next, Step, DayObservations

LEMMA LedgerInitially ==
  ASSUME Init
  PROVE  LedgerInv
<1>1. Settled = {}
  BY DEF Init, Settled
<1>2. Total = 0
  BY <1>1, SumEmpty DEF Total, PaidOn, SumFunction
<1> QED
  BY <1>1, <1>2, LedgerAssumption, RewardsAssumption
  DEF Init, LedgerInv, RunInv, Busy, AuditsClean, NoGap, Labels

(* The fixed supply, and an audit that finds nothing: the rows never pay    *)
(* more than the pool, no row more than its ceiling, and each closes with   *)
(* what the rows up to it have left.  It holds for a host that runs one     *)
(* settle command at a time and for one that runs any number at once and    *)
(* leaves no day out.  A run inserts either the row that follows from the   *)
(* present total, since nobody has written after its snapshot, or one that  *)
(* the primary key refuses.                                                 *)
THEOREM PoolKept ==
  ASSUME Orderly
  PROVE  Spec => [](NeverOverdrawn /\ AuditsClean)
<1>1. Init => LedgerInv
  BY LedgerInitially
<1>2. LedgerInv /\ [Next]_vars => LedgerInv'
  BY LedgerInductive
<1>3. LedgerInv => NeverOverdrawn /\ AuditsClean
  <2> SUFFICES ASSUME LedgerInv PROVE SpentBy(LastDay) = Total
    BY DEF LedgerInv, NeverOverdrawn
  <2>1. {e \in Settled : e <= LastDay} = Settled
    BY LedgerAssumption DEF Settled, Days
  <2> QED BY <2>1 DEF SpentBy, Total
<1> QED BY <1>1, <1>2, <1>3, PTL DEF Spec

(* The state is well typed; that a ceiling is a natural number is the fixed *)
(* supply again, since it may be what is left of the pool.                  *)
THEOREM TypeCorrect ==
  ASSUME Orderly
  PROVE  Spec => []TypeOK
<1>1. Init => LedgerInv
  BY LedgerInitially
<1>2. LedgerInv /\ [Next]_vars => LedgerInv'
  BY LedgerInductive
<1>3. LedgerInv => TypeOK
  BY DEF LedgerInv, RunInv, TypeOK
<1> QED BY <1>1, <1>2, <1>3, PTL DEF Spec

(* Downtime costs the others nothing: when a Tree has fewer hours credited  *)
(* and fewer sensors that qualify, nobody else is paid less, and nobody     *)
(* more unless it has lost weight (rewards.py:187-233).                     *)
THEOREM DowntimeStaysOwn ==
  ASSUME Orderly
  PROVE  Spec => []DowntimeIsOwn
<1>1. Init => LedgerInv
  BY LedgerInitially
<1>2. LedgerInv /\ [Next]_vars => LedgerInv'
  BY LedgerInductive
<1>3. LedgerInv => DowntimeIsOwn
  <2> SUFFICES ASSUME LedgerInv, NEW r \in Runs, pc[r] \in {"check", "insert"},
                      NEW t \in Trees, NEW u \in Trees, t # u,
                      NEW sensors \in 0..job[r].obs[t].sensors, NEW beats \in 0..HeartbeatsPerDay,
                      NEW given, given = Reward(Dimmed(job[r].obs, t, sensors, beats), Ceiling(r), u)
               PROVE  /\ given >= Earned(r)[u]
                      /\ SensorWeight(sensors) = SensorWeight(job[r].obs[t].sensors)
                           => given = Earned(r)[u]
    BY DEF DowntimeIsOwn
  <2>1. job[r].obs \in [Trees -> Observations]
    BY DEF LedgerInv, RunInv, DayObservations
  <2>2. Ceiling(r) \in Nat
    BY RowType
  <2>3. Earned(r)[u] = Reward(job[r].obs, Ceiling(r), u)
    BY DEF Earned, Rewarded
  <2> QED BY <2>1, <2>2, <2>3, DimmedPaysOthers
<1> QED BY <1>1, <1>2, <1>3, PTL DEF Spec

================================================================================

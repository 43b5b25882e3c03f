-------------------------------- MODULE Rewards --------------------------------
(****************************************************************************)
(* The daily reward calculation (economics/rewards.py) and the emission     *)
(* schedule (economics/emission.py), in whole mojos.  The code computes     *)
(* exact fractions down to one floor per Tree, which is one integer         *)
(* division.                                                                *)
(*                                                                          *)
(* A Tree's day is a record: qualifying sensors, verified heartbeats,       *)
(* whether a wallet is visible to the caller, and whether the oracle's      *)
(* answer makes it eligible at all.                                         *)
(****************************************************************************)
EXTENDS Integers, FiniteSetsExt, Functions

CONSTANTS
  Trees,
  Pool,         \* TREE_REWARDS_POOL_MOJOS
  Schedule,     \* DAILY_EMISSION_MOJOS_BY_YEAR, as a sequence of SCHEDULE_YEARS
  DaysPerYear   \* DAYS_PER_EMISSION_YEAR, 365

ASSUME RewardsAssumption ==
  /\ IsFiniteSet(Trees) /\ Pool \in Nat /\ DaysPerYear \in Nat \ {0}
  /\ IsFiniteSet(DOMAIN Schedule) /\ DOMAIN Schedule # {}
  /\ DOMAIN Schedule = 1..Cardinality(DOMAIN Schedule)
  /\ \A y \in DOMAIN Schedule : Schedule[y] \in Nat

HeartbeatsPerDay == 24

(****************************************************************************)
(* Emission.                                                                *)
(****************************************************************************)
EmissionYear(day) == day \div DaysPerYear + 1

(* Past the schedule the last year's rate goes on.                          *)
ScheduledDaily(year) == Schedule[Min({year, Cardinality(DOMAIN Schedule)})]

DailyCeiling(day, remaining) == Min({ScheduledDaily(EmissionYear(day)), remaining})

(****************************************************************************)
(* Rewards.  Weights are in twentieths.                                     *)
(****************************************************************************)
SensorWeight(sensors) == IF sensors = 0 THEN 0 ELSE Min({20 + (sensors - 1), 25})

Eligible(tree) == tree.eligible /\ tree.wallet
Weight(tree) == IF Eligible(tree) THEN SensorWeight(tree.sensors) ELSE 0

TotalWeight(day) == SumFunction([t \in Trees |-> Weight(day[t])])

(* Variation: the share is one of the heartbeats of all Trees, so that what *)
(* one Tree misses goes to the others.                                      *)
WrongReward(day, ceiling, t) ==
  LET Worked(u) == Weight(day[u]) * day[u].beats
      all == SumFunction([u \in Trees |-> Worked(u)])
  IN IF all = 0 THEN 0 ELSE (ceiling * Worked(t)) \div all

(* floor(ceiling * weight / total * heartbeats / 24)                        *)
Reward(day, ceiling, t) ==
  IF Weight(day[t]) = 0 THEN 0
  ELSE (ceiling * Weight(day[t]) * day[t].beats) \div (TotalWeight(day) * HeartbeatsPerDay)

Rewarded(day, ceiling) == [t \in Trees |-> Reward(day, ceiling, t)]

Distributed(rewards) == SumFunction(rewards)

================================================================================

----------------------------- MODULE MCPoolLedger ------------------------------
(* Two Trees and a small pool that the schedule's second year exhausts.     *)
EXTENDS PoolLedger, TLC
CONSTANTS t1, t2
TwoTrees == {t1, t2}
Symmetry == Permutations(TwoTrees)

TwoYears == <<7, 5>>
Tree(sensors, beats, wallet, eligible) ==
  [sensors |-> sensors, beats |-> beats, wallet |-> wallet, eligible |-> eligible]

(* Up all day, half a day with five sensors, not at all, without sensors,   *)
(* with its wallet hidden, and disqualified.                                *)
Observed == {Tree(1, 24, TRUE, TRUE), Tree(5, 12, TRUE, TRUE), Tree(2, 0, TRUE, TRUE),
             Tree(0, 24, TRUE, TRUE), Tree(1, 24, FALSE, TRUE), Tree(0, 0, TRUE, FALSE)}
Earning == {Tree(1, 24, TRUE, TRUE), Tree(5, 12, TRUE, TRUE)}
================================================================================

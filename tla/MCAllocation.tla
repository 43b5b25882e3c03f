------------------------------ MODULE MCAllocation ------------------------------
EXTENDS Allocation, TLC

(* Wallet 1 has two Trees, one of them down for a while, and wallet 2 one;  *)
(* at time 2 the first Tree has gone silent, another has no visible wallet, *)
(* and the oracle does not answer about a third.                            *)
Tree(n, w, h, a, ok) == [tree |-> n, wallet |-> w, hours |-> h, age |-> a, answers |-> ok]

MCFleet ==
  1 :> {Tree(1, 1, 9, 0, TRUE), Tree(2, 1, 1, 0, TRUE), Tree(3, 2, 3, 1, TRUE)}
  @@ 2 :> {Tree(1, 1, 9, 5, TRUE), Tree(2, 1, 2, 0, TRUE), Tree(3, 2, 4, 0, TRUE),
           Tree(4, NoWallet, 4, 0, TRUE), Tree(5, 2, 4, 0, FALSE), Tree(6, 2, 0, Never, TRUE)}

(* Time 1: means of 62.5% and 75%.  Time 2: 50% and 100%.                   *)
MCAllocated == 1 :> (1 :> 2 @@ 2 :> 3) @@ 2 :> (1 :> 2 @@ 2 :> 3)

(* Up to three Trees of up to three wallets with zero to three hours.       *)
Record(n, w, h, ok) == [tree |-> n, wallet |-> w, uptime |-> (h * 10000) \div 3, eligible |-> ok]
MCSamples ==
  {{}} \union
  {{Record(1, 1, g, x), Record(2, v, h, y), Record(3, w, k, TRUE)} :
     g \in 0..3, h \in 0..3, k \in 0..3, x \in BOOLEAN, y \in BOOLEAN, v \in 1..2, w \in 1..3}

================================================================================

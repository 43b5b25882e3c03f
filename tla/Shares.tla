--------------------------------- MODULE Shares ---------------------------------
(****************************************************************************)
(* The allocation engine (orchard_chia/allocation/engine.py): a budget of   *)
(* indivisible mojos is split between wallets in proportion to the mean     *)
(* uptime of their Trees, by largest remainder.                             *)
(*                                                                          *)
(* A record says which Tree was up for how many basis points, for which     *)
(* wallet, and whether it is eligible.  Wallets are naturals, so that their *)
(* order is the order of the addresses.  The fractions of the code are kept *)
(* over one common denominator, so that nothing is rounded before the floor.*)
(****************************************************************************)
EXTENDS Integers, FiniteSets, Functions

(* Uptime of 100% in basis points.                                          *)
BasisPointsFull == 10000

SumOver(f) == SumFunctionOnSet(f, DOMAIN f)

(****************************************************************************)
(* wallet_weights: eligible records by wallet, and the mean of each.        *)
(****************************************************************************)
Eligible(records) == {r \in records : r.eligible}
Claimants(records) == {r.wallet : r \in Eligible(records)}
RecordsOf(records, w) == {r \in Eligible(records) : r.wallet = w}

Uptime(rs) == SumFunctionOnSet([r \in rs |-> r.uptime], rs)

(* A denominator that every mean divides into.                              *)
Denominator(records) ==
  LET count == [w \in Claimants(records) |-> Cardinality(RecordsOf(records, w))]
  IN FoldFunctionOnSet(LAMBDA x, y : x * y, 1, count, Claimants(records))

Weights(records) ==
  LET whole == Denominator(records)
  IN [w \in Claimants(records) |->
        LET rs == RecordsOf(records, w)
        IN Uptime(rs) * (whole \div Cardinality(rs))]

(****************************************************************************)
(* allocate: exact share, floor, and the leftover mojos one by one to the   *)
(* largest discarded fraction, ties to the smaller address.  With no weight *)
(* at all the budget is not spent.                                          *)
(****************************************************************************)

(* Variation: ties go to the larger address.                                *)
WrongBefore(discarded, v, w) ==
  \/ discarded[v] > discarded[w]
  \/ discarded[v] = discarded[w] /\ v > w

(* Who of two wallets comes first for a leftover mojo.                      *)
Before(discarded, v, w) ==
  \/ discarded[v] > discarded[w]
  \/ discarded[v] = discarded[w] /\ v < w

Allocate(records, budget) ==
  LET claimants == Claimants(records)
      weight == Weights(records)
      total == SumOver(weight)
      floored == [w \in claimants |-> (budget * weight[w]) \div total]
      discarded == [w \in claimants |-> (budget * weight[w]) % total]
      leftover == budget - SumOver(floored)
      Rank(w) == Cardinality({v \in claimants : Before(discarded, v, w)})
      Turns(w) == {n \in 0..(leftover - 1) : n % Cardinality(claimants) = Rank(w)}
  IN IF total = 0 THEN [w \in claimants |-> 0]
     ELSE [w \in claimants |-> floored[w] + Cardinality(Turns(w))]

(****************************************************************************)
(* What an apportionment has to be, whichever way it is computed.           *)
(****************************************************************************)

(* All of the budget or, if nobody was up, none of it; each wallet less     *)
(* than one mojo off its exact share; no mojo better placed with another    *)
(* wallet; and more uptime never means less money.                          *)
Apportions(given, records, budget) ==
  LET weight == Weights(records)
      total == SumOver(weight)
      Error(w) == given[w] * total - budget * weight[w]
  IN /\ SumOver(given) = IF total = 0 THEN 0 ELSE budget
     /\ \A w \in DOMAIN given : given[w] >= 0
     /\ total > 0 => \A v, w \in DOMAIN given :
          /\ Error(w) < total /\ Error(w) > -total
          /\ Error(v) - Error(w) <= total
          /\ weight[v] >= weight[w] /\ (weight[v] = weight[w] => v <= w) => given[v] >= given[w]

================================================================================

------------------------------- MODULE MCPayment -------------------------------
EXTENDS Payment, TLC

(* Days d1 and d2; d1 owes both wallets and d2 only the second.             *)
CONSTANTS d1, d2

TwoDays == {d1, d2}
OneDay == {d1}
TwoDaysOwed == (d1 :> (1 :> 2 @@ 2 :> 1)) @@ (d2 :> (1 :> 0 @@ 2 :> 2))
OneDayOwed == d1 :> (1 :> 2 @@ 2 :> 1)

================================================================================

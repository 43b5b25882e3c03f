-------------------------------- MODULE Payout --------------------------------
(****************************************************************************)
(* What paying the settled days promises, whatever crashes in between: each *)
(* wallet owed something for a day receives one spend for it and no second  *)
(* one, and a day is closed only when all its wallets have theirs.          *)
(****************************************************************************)
EXTENDS Naturals

CONSTANTS Days, Wallets,
          Owed           \* Owed[d], a subset of Wallets: whom the day owes something
VARIABLES received,      \* received[d][w]: spends made to the wallet for the day
          closed         \* the days recorded as paid

Init == /\ received = [d \in Days |-> [w \in Wallets |-> 0]]
        /\ closed = {}

Pay(d, w) == /\ d \notin closed
             /\ w \in Owed[d]
             /\ received[d][w] = 0
             /\ received' = [received EXCEPT ![d][w] = 1]
             /\ UNCHANGED closed

Close(d) == /\ \A w \in Owed[d] : received[d][w] = 1
            /\ closed' = closed \union {d}
            /\ UNCHANGED received

Next == \E d \in Days : Close(d) \/ \E w \in Wallets : Pay(d, w)

Spec == Init /\ [][Next]_<<received, closed>>

===============================================================================

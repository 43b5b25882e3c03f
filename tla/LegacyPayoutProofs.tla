--------------------------- MODULE LegacyPayoutProofs ---------------------------
(****************************************************************************)
(* The season harvest pays no pair twice, for any Trees, seasons, wallets,  *)
(* rates and attestations and any number of faults of every kind.  The      *)
(* argument is the code's own: a pair is marked before it is spent, so that *)
(* a pair without a mark has not been paid, and only pairs without a mark   *)
(* get into a plan.  What has to be added is that between the plan and the  *)
(* spend nothing happens to a pair whose wallet the run has not come to.    *)
(* From the same order of steps follows that the watermark accounts for     *)
(* what every wallet has received.                                          *)
(****************************************************************************)
EXTENDS LegacyPayout, Sums

(* An unmarked pair is unpaid.                                              *)
MarkedFirst == \A s \in Pairs : row[s] = NoRow => paid[s] = 0

(* What the run has still to pay has not been paid.                         *)
PlanIsNew ==
  /\ pc = "approve" => \A s \in DOMAIN plan : paid[s] = 0
  /\ pc \in {"next", "mark", "send", "confirm"} =>
       \A s \in DOMAIN plan : plan[s].wallet \in todo => paid[s] = 0

(* The wallet the run is at: its pairs are unpaid until the spend, and all  *)
(* marked by then.                                                          *)
WalletIsNext ==
  /\ pc \in {"mark", "send", "confirm"} => wallet \in Wallets \ todo /\ left \subseteq Contributing(wallet)
  /\ pc \in {"mark", "send"} => \A s \in Contributing(wallet) : paid[s] = 0
  /\ pc = "mark" => \A s \in Contributing(wallet) \ left : row[s] # NoRow
  /\ pc \in {"send", "confirm"} => \A s \in Contributing(wallet) : row[s] # NoRow

IInv == TypeOK /\ OncePerPair /\ MarkedFirst /\ PlanIsNew /\ WalletIsNext

--------------------------------------------------------------------------------

LEMMA RewardIsNatural == ASSUME NEW s \in Pairs, Payable(s) PROVE Reward(Attested[s]) \in Nat
<1> DEFINE h == PaidHours(Attested[s])
<1>1. h \in Nat /\ DailyRate \in Nat
  BY DataAssumption DEF Payable
<1>2. h * DailyRate \in Nat
  BY <1>1
<1>3. \A n \in Nat : (2 * n + 24) \div 48 \in Nat
  OBVIOUS
<1>4. Reward(Attested[s]) = (2 * h * DailyRate + 24) \div 48
  BY DEF Reward
<1>5. 2 * h * DailyRate = 2 * (h * DailyRate)
  BY <1>1
<1> QED BY <1>2, <1>3, <1>4, <1>5

LEMMA ReadyPlan ==
  ASSUME IInv, NEW unseen, NEW s \in Ready(unseen)
  PROVE  /\ s \in Pairs /\ row[s] = NoRow /\ paid[s] = 0
         /\ bound[s[1]] \in Wallets /\ Reward(Attested[s]) \in Nat
<1>1. s \in Pairs /\ Payable(s) /\ row[s] = NoRow /\ bound[s[1]] # NoWallet
  BY DEF Ready, IInv, TypeOK
<1>2. s[1] \in Trees
  BY <1>1 DEF Pairs
<1> QED BY <1>1, <1>2, RewardIsNatural DEF IInv, TypeOK, MarkedFirst

LEMMA EmptyPlan == DOMAIN <<>> = {}
  OBVIOUS

LEMMA InitIInv == Init => IInv
  BY EmptyPlan, DataAssumption
  DEF Init, IInv, TypeOK, OncePerPair, MarkedFirst, PlanIsNew, WalletIsNext

(* When the run is over nothing is left of it to be kept true.              *)
LEMMA Stopped ==
  ASSUME IInv, Stop, faults' \in 0..MaxFaults, UNCHANGED <<onChain, bound, row>>,
         paid' \in [Pairs -> Nat], DOMAIN received' = Wallets,
         \A s \in Pairs : paid'[s] <= 1 /\ (row[s] = NoRow => paid'[s] = 0)
  PROVE  IInv'
<1>1. TypeOK'
  BY EmptyPlan DEF IInv, TypeOK, Stop
<1>2. OncePerPair' /\ MarkedFirst'
  BY DEF OncePerPair, MarkedFirst
<1>3. PlanIsNew' /\ WalletIsNext'
  BY EmptyPlan DEF Stop, PlanIsNew, WalletIsNext
<1> QED BY <1>1, <1>2, <1>3 DEF IInv

(* The daemon takes the spend: each pair of the wallet is paid for the      *)
(* first time, and has its mark.                                            *)
LEMMA Accepted ==
  ASSUME IInv, pc = "send", Accept
  PROVE  /\ paid' \in [Pairs -> Nat] /\ DOMAIN received' = Wallets
         /\ \A s \in Pairs : paid'[s] <= 1 /\ (row[s] = NoRow => paid'[s] = 0)
         /\ \A s \in DOMAIN plan : plan[s].wallet \in todo => paid'[s] = 0
<1>1. /\ \A s \in Contributing(wallet) : paid[s] = 0 /\ row[s] # NoRow
      /\ wallet \notin todo
  BY DEF IInv, WalletIsNext
<1>2. paid' = [s \in Pairs |-> IF s \in Contributing(wallet) THEN paid[s] + 1 ELSE paid[s]]
  BY DEF Accept
<1>3. paid' \in [Pairs -> Nat]
  BY <1>2 DEF IInv, TypeOK
<1>4. DOMAIN received' = Wallets
  BY DEF Accept, IInv, TypeOK
<1>5. \A s \in Pairs : paid'[s] <= 1 /\ (row[s] = NoRow => paid'[s] = 0)
  BY <1>1, <1>2 DEF IInv, TypeOK, OncePerPair, MarkedFirst
<1>6. ASSUME NEW s \in DOMAIN plan, plan[s].wallet \in todo PROVE paid'[s] = 0
  <2>1. s \in Pairs /\ s \notin Contributing(wallet)
    BY <1>1, <1>6 DEF IInv, TypeOK, Contributing
  <2>2. paid[s] = 0
    BY <1>6 DEF IInv, PlanIsNew
  <2> QED BY <1>2, <2>1, <2>2
<1> QED BY <1>3, <1>4, <1>5, <1>6

(* The run's place alone moves, or its fault count.                         *)
LEMMA FaultTyped ==
  ASSUME TypeOK, NEW kind, Fault(kind) PROVE faults' \in 0..MaxFaults
  BY DataAssumption DEF Fault, TypeOK

LEMMA StepIInv == ASSUME IInv, [Next]_vars PROVE IInv'
<1> USE DEF IInv, world, money, memory
<1>1. ASSUME NEW s \in Pairs, Attest(s) PROVE IInv'
  BY <1>1 DEF Attest, TypeOK, OncePerPair, MarkedFirst, PlanIsNew, WalletIsNext, Contributing
<1>2. ASSUME NEW s \in Pairs, Reconcile(s) PROVE IInv'
  <2>1. pc = "idle" /\ pc' = "idle" /\ row[s] \in Row /\ UNCHANGED <<world, money, memory, faults>>
    BY <1>2 DEF Reconcile, TypeOK
  <2>2. row' = [row EXCEPT ![s] = IF paid[s] > 0 THEN [row[s] EXCEPT !.tx = TRUE] ELSE NoRow]
    BY <1>2 DEF Reconcile
  <2>3. [row[s] EXCEPT !.tx = TRUE] \in Row /\ [row[s] EXCEPT !.tx = TRUE] # NoRow
    BY <2>1, DataAssumption DEF Row
  <2>4. TypeOK'
    BY <2>1, <2>2, <2>3 DEF TypeOK
  <2>5. MarkedFirst'
    BY <2>1, <2>2, <2>3 DEF TypeOK, MarkedFirst
  <2> QED BY <2>1, <2>4, <2>5 DEF OncePerPair, PlanIsNew, WalletIsNext
<1>3. ASSUME NEW t \in Trees, NEW w \in Wallets, Bind(t, w) PROVE IInv'
  BY <1>3 DEF Bind, TypeOK, OncePerPair, MarkedFirst, PlanIsNew, WalletIsNext, Contributing
<1>4. CASE ReadStore
  <2>1. /\ pc' = "plan" /\ seen' \subseteq Pairs /\ faults' \in 0..MaxFaults
        /\ UNCHANGED <<world, money, row, plan, todo, wallet, left>>
    BY <1>4, FaultTyped DEF ReadStore, TypeOK
  <2> QED BY <2>1 DEF TypeOK, OncePerPair, MarkedFirst, PlanIsNew, WalletIsNext
<1>5. CASE MakePlan
  <2>1. PICK unseen \in {{}} \union {{t} : t \in Trees} :
          /\ unseen # {} => Fault("nonode")
          /\ unseen = {} => UNCHANGED faults
          /\ IF Ready(unseen) = {} THEN Stop
             ELSE /\ pc' = "approve"
                  /\ plan' = [s \in Ready(unseen) |->
                                [wallet |-> bound[s[1]], mojos |-> Reward(Attested[s])]]
                  /\ UNCHANGED <<seen, todo, wallet, left>>
    BY <1>5 DEF MakePlan
  <2>2. UNCHANGED <<world, money, row>> /\ faults' \in 0..MaxFaults
    BY <1>5, <2>1, FaultTyped DEF MakePlan, TypeOK
  <2>3. CASE Ready(unseen) = {}
    BY <2>1, <2>2, <2>3, Stopped DEF TypeOK, OncePerPair, MarkedFirst
  <2>4. CASE Ready(unseen) # {}
    <3>1. \A s \in Ready(unseen) : /\ s \in Pairs /\ paid[s] = 0
                                   /\ bound[s[1]] \in Wallets /\ Reward(Attested[s]) \in Nat
      BY ReadyPlan
    <3>2. DOMAIN plan' = Ready(unseen) /\ pc' = "approve"
      BY <2>1, <2>4
    <3>3. \A s \in DOMAIN plan' : plan'[s] \in [wallet: Wallets, mojos: Nat] /\ paid'[s] = 0
      BY <2>1, <2>2, <2>4, <3>1, <3>2
    <3>4. DOMAIN plan' \subseteq Pairs
      BY <3>1, <3>2
    <3>5. TypeOK'
      BY <2>1, <2>2, <2>4, <3>2, <3>3, <3>4 DEF TypeOK
    <3> QED BY <2>2, <3>2, <3>3, <3>5 DEF OncePerPair, MarkedFirst, PlanIsNew, WalletIsNext
  <2> QED BY <2>3, <2>4
<1>6. CASE Approve
  <2>1. /\ pc = "approve" /\ pc' = "next"
        /\ UNCHANGED <<world, money, row, seen, plan, wallet, left, faults>>
        /\ todo' \subseteq Wallets
    BY <1>6 DEF Approve, TypeOK
  <2> QED BY <2>1 DEF TypeOK, OncePerPair, MarkedFirst, PlanIsNew, WalletIsNext
<1>7. CASE Decline
  BY <1>7, Stopped DEF Decline, TypeOK, OncePerPair, MarkedFirst
<1>8. CASE NextWallet
  <2>1. pc = "next" /\ UNCHANGED <<world, money, row, faults>>
    BY <1>8 DEF NextWallet
  <2>2. CASE Stop
    BY <2>1, <2>2, Stopped DEF TypeOK, OncePerPair, MarkedFirst
  <2>3. CASE ~Stop
    <3>1. PICK w \in todo :
            /\ todo' = todo \ {w}
            /\ IF w \in ValidWallets
               THEN pc' = "mark" /\ wallet' = w /\ left' = Contributing(w)
               ELSE pc' = "next" /\ UNCHANGED <<wallet, left>>
            /\ UNCHANGED <<seen, plan>>
      BY <1>8, <2>3 DEF NextWallet
    <3>2. w \in Wallets /\ Contributing(w) \subseteq Pairs
      BY DEF TypeOK, Contributing
    <3>3. TypeOK'
      BY <2>1, <3>1, <3>2 DEF TypeOK
    <3>4. \A s \in Contributing(w) : paid[s] = 0
      BY <2>1, <3>1 DEF PlanIsNew, Contributing
    <3>5. PlanIsNew'
      BY <2>1, <3>1 DEF PlanIsNew
    <3>6. WalletIsNext'
      BY <2>1, <3>1, <3>2, <3>4 DEF WalletIsNext, Contributing
    <3> QED BY <2>1, <3>3, <3>5, <3>6 DEF OncePerPair, MarkedFirst
  <2> QED BY <2>2, <2>3
<1>9. CASE Mark
  <2>1. PICK s \in left :
          /\ row' = IF row[s] = NoRow
                    THEN [row EXCEPT ![s] = [wallet |-> wallet, mojos |-> plan[s].mojos, tx |-> FALSE]]
                    ELSE row
          /\ left' = left \ {s}
          /\ pc' = IF left = {s} THEN "send" ELSE "mark"
    BY <1>9 DEF Mark
  <2>2. pc = "mark" /\ UNCHANGED <<world, money, seen, plan, todo, wallet, faults>>
    BY <1>9 DEF Mark
  <2> DEFINE new == [wallet |-> wallet, mojos |-> plan[s].mojos, tx |-> FALSE]
  <2>3. s \in Pairs /\ s \in Contributing(wallet) /\ s \in DOMAIN plan /\ wallet \in Wallets
    BY <2>1, <2>2 DEF WalletIsNext, Contributing, TypeOK
  <2>4. new \in Row /\ new # NoRow
    <3>1. plan[s].mojos \in Nat
      BY <2>3 DEF TypeOK
    <3>2. new \in Row
      BY <2>3, <3>1 DEF Row
    <3> QED BY <3>2, DataAssumption
  <2>5. row' \in [Pairs -> Row \union {NoRow}] /\ row'[s] # NoRow
    BY <2>1, <2>3, <2>4 DEF TypeOK
  <2>6. \A q \in Pairs : row[q] # NoRow => row'[q] # NoRow
    BY <2>1, <2>3, <2>4 DEF TypeOK
  <2>7. TypeOK'
    BY <2>1, <2>2, <2>5 DEF TypeOK
  <2>8. OncePerPair' /\ MarkedFirst' /\ PlanIsNew'
    BY <2>1, <2>2, <2>6 DEF OncePerPair, MarkedFirst, PlanIsNew
  <2>9. WalletIsNext'
    <3>1. \A q \in Contributing(wallet) \ left' : row'[q] # NoRow
      BY <2>1, <2>2, <2>5, <2>6 DEF WalletIsNext, Contributing, TypeOK
    <3>2. Contributing(wallet)' = Contributing(wallet) /\ left' \subseteq Contributing(wallet)
      BY <2>1, <2>2 DEF Contributing, WalletIsNext
    <3>3. pc' = "send" => left' = {}
      BY <2>1
    <3> QED BY <2>1, <2>2, <3>1, <3>2, <3>3 DEF WalletIsNext
  <2> QED BY <2>7, <2>8, <2>9
<1>10. CASE Send
  <2>1. /\ pc = "send" /\ pc' = "confirm" /\ Accept /\ left' = Contributing(wallet)
        /\ UNCHANGED <<world, row, seen, plan, todo, wallet, faults>>
    BY <1>10 DEF Send
  <2>2. Contributing(wallet) \subseteq Pairs /\ Contributing(wallet)' = Contributing(wallet)
    BY <2>1 DEF Contributing, TypeOK
  <2>3. TypeOK'
    BY <2>1, <2>2, Accepted DEF TypeOK
  <2>4. OncePerPair' /\ MarkedFirst' /\ PlanIsNew'
    BY <2>1, Accepted DEF OncePerPair, MarkedFirst, PlanIsNew
  <2>5. WalletIsNext'
    BY <2>1, <2>2 DEF WalletIsNext
  <2> QED BY <2>3, <2>4, <2>5
<1>11. CASE SendFails
  <2>1. /\ pc = "send" /\ pc' = "next" /\ faults' \in 0..MaxFaults
        /\ UNCHANGED money \/ Accept
        /\ UNCHANGED <<world, row, memory>>
    BY <1>11, FaultTyped DEF SendFails
  <2>2. /\ paid' \in [Pairs -> Nat] /\ DOMAIN received' = Wallets
        /\ \A s \in Pairs : paid'[s] <= 1 /\ (row[s] = NoRow => paid'[s] = 0)
        /\ \A s \in DOMAIN plan : plan[s].wallet \in todo => paid'[s] = 0
    <3>1. CASE Accept
      BY <2>1, <3>1, Accepted
    <3>2. CASE UNCHANGED money
      BY <2>1, <3>2 DEF TypeOK, OncePerPair, MarkedFirst, PlanIsNew
    <3> QED BY <2>1, <3>1, <3>2
  <2>3. TypeOK'
    BY <2>1, <2>2 DEF TypeOK
  <2> QED BY <2>1, <2>2, <2>3 DEF OncePerPair, MarkedFirst, PlanIsNew, WalletIsNext
<1>12. CASE Confirm
  <2>1. PICK s \in left :
          /\ row' = [row EXCEPT ![s] = [row[s] EXCEPT !.tx = TRUE]]
          /\ left' = left \ {s}
          /\ pc' = IF left = {s} THEN "next" ELSE "confirm"
    BY <1>12 DEF Confirm
  <2>2. pc = "confirm" /\ UNCHANGED <<world, money, seen, plan, todo, wallet, faults>>
    BY <1>12 DEF Confirm
  <2>3. s \in Pairs /\ row[s] \in Row
    BY <2>1, <2>2 DEF WalletIsNext, TypeOK
  <2>4. [row[s] EXCEPT !.tx = TRUE] \in Row /\ [row[s] EXCEPT !.tx = TRUE] # NoRow
    BY <2>3, DataAssumption DEF Row
  <2>5. row' \in [Pairs -> Row \union {NoRow}] /\ \A q \in Pairs : row[q] # NoRow <=> row'[q] # NoRow
    BY <2>1, <2>3, <2>4, DataAssumption DEF TypeOK
  <2>6. TypeOK'
    BY <2>1, <2>2, <2>5 DEF TypeOK
  <2>7. OncePerPair' /\ MarkedFirst' /\ PlanIsNew'
    BY <2>1, <2>2, <2>5 DEF OncePerPair, MarkedFirst, PlanIsNew
  <2>8. Contributing(wallet)' = Contributing(wallet) /\ Contributing(wallet) \subseteq Pairs
    BY <2>2 DEF Contributing, TypeOK
  <2>9. WalletIsNext'
    BY <2>1, <2>2, <2>5, <2>8 DEF WalletIsNext
  <2> QED BY <2>6, <2>7, <2>9
<1>13. CASE Crash
  <2>1. /\ Stop /\ faults' \in 0..MaxFaults /\ UNCHANGED <<world, row>>
        /\ UNCHANGED money \/ (pc = "send" /\ Accept)
    BY <1>13, FaultTyped DEF Crash
  <2>2. CASE UNCHANGED money
    BY <2>1, <2>2, Stopped DEF TypeOK, OncePerPair, MarkedFirst
  <2>3. CASE pc = "send" /\ Accept
    BY <2>1, <2>3, Accepted, Stopped
  <2> QED BY <2>1, <2>2, <2>3
<1>14. CASE UNCHANGED vars
  BY <1>14 DEF vars, TypeOK, OncePerPair, MarkedFirst, PlanIsNew, WalletIsNext, Contributing
<1> QED
  BY <1>1, <1>2, <1>3, <1>4, <1>5, <1>6, <1>7, <1>8, <1>9, <1>10, <1>11, <1>12, <1>13, <1>14
  DEF Next, Go

--------------------------------------------------------------------------------
(* The state of the harvest is well typed.                                  *)
THEOREM TypeCorrect == Spec => []TypeOK
<1>1. IInv => TypeOK
  BY DEF IInv
<1> QED BY <1>1, InitIInv, StepIInv, PTL DEF Spec

(* No pair of Tree and season is paid twice (payout/main.py:415-449), for   *)
(* any number of crashes, refusals, lost answers, changes of wallet and     *)
(* repairs by the operator.                                                 *)
THEOREM NeverPaidTwice == Spec => []OncePerPair
<1>1. IInv => OncePerPair
  BY DEF IInv
<1> QED BY <1>1, InitIInv, StepIInv, PTL DEF Spec

(* An unmarked pair has not been paid: the mark is committed before the     *)
(* spend (payout/main.py:415-431).                                          *)
THEOREM MarksComeFirst == Spec => []MarkedFirst
<1>1. IInv => MarkedFirst
  BY DEF IInv
<1> QED BY <1>1, InitIInv, StepIInv, PTL DEF Spec

--------------------------------------------------------------------------------
(****************************************************************************)
(* The account.  What a wallet has received is, to the mojo, what the rows  *)
(* of its paid pairs say.                                                   *)
(****************************************************************************)
MojosIn(rows, S) == SumFunctionOnSet([s \in S |-> rows[s].mojos], S)

PaidRows(w) == {s \in Pairs : paid[s] > 0 /\ row[s].wallet = w}

ReceivedIsPaid == \A w \in Wallets : received[w] = MojosIn(row, PaidRows(w))

TxIsPaid == \A s \in Pairs : row[s] # NoRow /\ row[s].tx => paid[s] > 0

(* Until the run comes to a wallet its pairs have no row, and from then on  *)
(* the row that the plan gives them.                                        *)
RowsFollowPlan ==
  /\ pc = "approve" => \A s \in DOMAIN plan : row[s] = NoRow
  /\ pc \in {"next", "mark", "send", "confirm"} =>
       \A s \in DOMAIN plan : plan[s].wallet \in todo => row[s] = NoRow
  /\ pc = "mark" => \A s \in left : row[s] = NoRow
  /\ pc \in {"mark", "send"} => \A s \in Contributing(wallet) :
       \/ pc = "mark" /\ s \in left
       \/ row[s] # NoRow /\ row[s].wallet = wallet /\ row[s].mojos = plan[s].mojos
  /\ pc = "confirm" => \A s \in left : paid[s] > 0

AccountInv == IInv /\ ReceivedIsPaid /\ TxIsPaid /\ RowsFollowPlan

LEMMA PairsAreFinite == IsFiniteSet(Pairs)
  BY DataAssumption, FS_Product DEF Pairs

LEMMA MojosInType ==
  ASSUME NEW rows, NEW S \in SUBSET Pairs, \A s \in S : rows[s] \in Row
  PROVE  MojosIn(rows, S) \in Nat
<1> DEFINE f == [s \in S |-> rows[s].mojos]
<1>1. IsFiniteSet(S)
  BY PairsAreFinite, FS_Subset
<1>2. \A s \in S : f[s] \in Nat
  BY DEF Row
<1>3. SumFunctionOnSet(f, S) \in Nat
  <2> HIDE DEF f
  <2> QED BY <1>1, <1>2, SumNat
<1> QED BY <1>3 DEF MojosIn

LEMMA MojosInPart ==
  ASSUME NEW rows, NEW S \in SUBSET Pairs, NEW T \in SUBSET S, \A s \in S : rows[s] \in Row
  PROVE  MojosIn(rows, T) <= MojosIn(rows, S)
<1> DEFINE f == [s \in T |-> rows[s].mojos]
           g == [s \in S |-> rows[s].mojos]
<1>1. IsFiniteSet(S) /\ IsFiniteSet(T)
  BY PairsAreFinite, FS_Subset
<1>2. \A s \in S : g[s] \in Nat
  BY DEF Row
<1>3. SumFunctionOnSet(g, T) <= SumFunctionOnSet(g, S)
  <2> HIDE DEF g
  <2> QED BY <1>1, <1>2, SumSubset
<1>4. SumFunctionOnSet(g, T) = SumFunctionOnSet(f, T)
  <2>1. \A s \in T : g[s] = f[s]
    OBVIOUS
  <2> HIDE DEF f, g
  <2> QED BY <1>1, <2>1, SumCongruent
<1> QED BY <1>3, <1>4 DEF MojosIn

LEMMA PaidRowsTyped ==
  ASSUME IInv, NEW w \in Wallets
  PROVE  PaidRows(w) \in SUBSET Pairs /\ \A s \in PaidRows(w) : row[s] \in Row
  BY DEF IInv, TypeOK, MarkedFirst, PaidRows

(* The account stands when no pair is paid and the rows of the paid pairs   *)
(* keep their wallets and amounts.                                          *)
LEMMA AccountStands ==
  ASSUME IInv, ReceivedIsPaid, UNCHANGED money,
         \A s \in Pairs : paid[s] > 0 => /\ row'[s].wallet = row[s].wallet
                                         /\ row'[s].mojos = row[s].mojos
  PROVE  ReceivedIsPaid'
<1> SUFFICES ASSUME NEW w \in Wallets PROVE received'[w] = MojosIn(row', PaidRows(w)')
  BY DEF ReceivedIsPaid, PaidRows, MojosIn
<1>1. PaidRows(w)' = PaidRows(w)
  BY DEF PaidRows, money
<1>2. [s \in PaidRows(w) |-> row'[s].mojos] = [s \in PaidRows(w) |-> row[s].mojos]
  BY DEF PaidRows
<1>3. MojosIn(row', PaidRows(w)) = MojosIn(row, PaidRows(w))
  BY <1>2 DEF MojosIn
<1> QED BY <1>1, <1>3 DEF ReceivedIsPaid, money

(* The spend adds to the account of its wallet what it adds to the wallet.  *)
LEMMA AccountGrows ==
  ASSUME AccountInv, pc = "send", Accept, row' = row
  PROVE  ReceivedIsPaid' /\ TxIsPaid'
<1> DEFINE C == Contributing(wallet)
<1>1. /\ wallet \in Wallets /\ C \in SUBSET Pairs
      /\ \A s \in C : /\ paid[s] = 0 /\ row[s] # NoRow /\ row[s].wallet = wallet
                      /\ row[s].mojos = plan[s].mojos
  BY DEF AccountInv, IInv, TypeOK, WalletIsNext, RowsFollowPlan, Contributing
<1>2. /\ paid' = [s \in Pairs |-> IF s \in C THEN paid[s] + 1 ELSE paid[s]]
      /\ received' = [received EXCEPT ![wallet] = received[wallet] + Owed(wallet)]
  BY DEF Accept
<1>3. \A s \in Pairs : paid[s] \in Nat /\ (paid'[s] > 0 <=> s \in C \/ paid[s] > 0)
  BY <1>1, <1>2 DEF AccountInv, IInv, TypeOK
<1>4. TxIsPaid'
  BY <1>3 DEF AccountInv, TxIsPaid
<1>5. ASSUME NEW w \in Wallets, w # wallet
      PROVE  received'[w] = MojosIn(row', PaidRows(w)')
  <2>1. PaidRows(w)' = PaidRows(w)
    BY <1>1, <1>3, <1>5 DEF PaidRows
  <2>2. received'[w] = received[w]
    BY <1>2, <1>5 DEF AccountInv, IInv, TypeOK
  <2> QED BY <2>1, <2>2 DEF AccountInv, ReceivedIsPaid
<1>6. ASSUME NEW w \in Wallets, w = wallet
      PROVE  received'[w] = MojosIn(row', PaidRows(w)')
  <2> DEFINE P == PaidRows(w)
             U == {s \in Pairs : paid'[s] > 0 /\ row'[s].wallet = w}
             g == [s \in U |-> row[s].mojos]
             f == [s \in P |-> row[s].mojos]
             h == [s \in DOMAIN plan |-> plan[s].mojos]
  <2>1. U = P \union C /\ P \intersect C = {} /\ P \in SUBSET Pairs
    BY <1>1, <1>3, <1>6 DEF PaidRows
  <2>2. IsFiniteSet(P) /\ IsFiniteSet(C)
    <3> HIDE DEF P, C
    <3> QED BY <1>1, <2>1, PairsAreFinite, FS_Subset
  <2>3. \A s \in U : g[s] \in Nat
    <3>1. \A s \in U : row[s] \in Row
      BY <1>1, <2>1, PaidRowsTyped DEF AccountInv, IInv, TypeOK
    <3> QED BY <3>1 DEF Row
  <2>4. SumFunctionOnSet(g, P \union C) = SumFunctionOnSet(g, P) + SumFunctionOnSet(g, C)
    <3>1. \A s \in P \union C : g[s] \in Int
      BY <2>1, <2>3
    <3> HIDE DEF g, P, C
    <3> QED BY <2>1, <2>2, <3>1, SumUnion
  <2>5. SumFunctionOnSet(g, P) = SumFunctionOnSet(f, P)
    <3>1. \A s \in P : g[s] = f[s]
      BY <2>1
    <3> HIDE DEF f, g, P
    <3> QED BY <2>2, <3>1, SumCongruent
  <2>6. SumFunctionOnSet(g, C) = SumFunctionOnSet(h, C)
    <3>1. \A s \in C : g[s] = h[s]
      <4>1. \A s \in C : s \in U /\ s \in DOMAIN plan
        BY <2>1 DEF Contributing
      <4> QED BY <1>1, <4>1
    <3> HIDE DEF g, h, C
    <3> QED BY <2>2, <3>1, SumCongruent
  <2>7. /\ MojosIn(row, P) = SumFunctionOnSet(f, P) /\ MojosIn(row, U) = SumFunctionOnSet(g, U)
        /\ Owed(w) = SumFunctionOnSet(h, C)
    BY <1>6 DEF MojosIn, Owed
  <2>8. received[w] = MojosIn(row, P)
    BY <1>1 DEF AccountInv, ReceivedIsPaid
  <2>9. received'[w] = received[w] + Owed(w)
    BY <1>2, <1>6 DEF AccountInv, IInv, TypeOK
  <2>10. PaidRows(w)' = U
    BY DEF PaidRows
  <2> HIDE DEF U, P, f, g, h, C
  <2> QED BY <2>1, <2>4, <2>5, <2>6, <2>7, <2>8, <2>9, <2>10
<1> QED BY <1>4, <1>5, <1>6 DEF ReceivedIsPaid, PaidRows, MojosIn

LEMMA AccountInitially == Init => AccountInv
<1> SUFFICES ASSUME Init PROVE AccountInv
  OBVIOUS
<1>1. \A w \in Wallets : PaidRows(w) = {} /\ received[w] = 0
  BY DEF Init, PaidRows
<1>2. \A w \in Wallets : received[w] = MojosIn(row, PaidRows(w))
  BY <1>1, SumEmpty DEF MojosIn
<1> QED BY <1>2, InitIInv DEF Init, AccountInv, ReceivedIsPaid, TxIsPaid, RowsFollowPlan

LEMMA AccountStep == ASSUME AccountInv, [Next]_vars PROVE AccountInv'
<1>1. IInv /\ IInv' /\ ReceivedIsPaid /\ TxIsPaid /\ RowsFollowPlan
  BY StepIInv DEF AccountInv
<1>2. SUFFICES ReceivedIsPaid' /\ TxIsPaid' /\ RowsFollowPlan'
  BY <1>1 DEF AccountInv
<1>3. UNCHANGED <<money, row>> => ReceivedIsPaid' /\ TxIsPaid'
  BY <1>1, AccountStands DEF TxIsPaid, money
<1>4. pc' \in {"idle", "plan"} => RowsFollowPlan'
  BY DEF RowsFollowPlan
<1>5. CASE UNCHANGED <<money, memory, row, pc>>
  BY <1>1, <1>3, <1>5 DEF RowsFollowPlan, Contributing, memory, money
<1>6. CASE ReadStore \/ Decline
  BY <1>3, <1>4, <1>6 DEF ReadStore, Decline, Stop
<1>7. ASSUME NEW s \in Pairs, Reconcile(s) PROVE ReceivedIsPaid' /\ TxIsPaid' /\ RowsFollowPlan'
  <2>1. /\ pc' = "idle" /\ UNCHANGED money /\ row[s] \in Row
        /\ row' = [row EXCEPT ![s] = IF paid[s] > 0 THEN [row[s] EXCEPT !.tx = TRUE] ELSE NoRow]
    BY <1>1, <1>7 DEF Reconcile, IInv, TypeOK
  <2>2. \A q \in Pairs : q # s => row'[q] = row[q]
    BY <2>1, <1>1 DEF IInv, TypeOK
  <2>3. row'[s] = IF paid[s] > 0 THEN [row[s] EXCEPT !.tx = TRUE] ELSE NoRow
    BY <2>1, <1>1 DEF IInv, TypeOK
  <2>4. \A q \in Pairs : paid[q] > 0 => /\ row'[q].wallet = row[q].wallet
                                       /\ row'[q].mojos = row[q].mojos
    BY <2>1, <2>2, <2>3 DEF Row
  <2>5. TxIsPaid'
    BY <2>1, <2>2, <2>3, <1>1 DEF TxIsPaid, money
  <2> QED BY <1>1, <1>4, <2>1, <2>4, <2>5, AccountStands
<1>8. CASE MakePlan
  <2>1. PICK unseen \in {{}} \union {{t} : t \in Trees} :
          IF Ready(unseen) = {} THEN Stop
          ELSE /\ pc' = "approve"
               /\ plan' = [s \in Ready(unseen) |->
                             [wallet |-> bound[s[1]], mojos |-> Reward(Attested[s])]]
    BY <1>8 DEF MakePlan
  <2>2. UNCHANGED <<money, row>>
    BY <1>8 DEF MakePlan
  <2>3. CASE Stop
    BY <1>3, <1>4, <2>2, <2>3 DEF Stop
  <2>4. CASE pc' = "approve" /\ DOMAIN plan' = Ready(unseen)
    <3>1. \A s \in DOMAIN plan' : row'[s] = NoRow
      BY <2>2, <2>4, <1>1, ReadyPlan
    <3> QED BY <1>3, <2>2, <2>4, <3>1 DEF RowsFollowPlan
  <2> QED BY <2>1, <2>3, <2>4
<1>9. CASE Approve
  <2>1. pc = "approve" /\ pc' = "next" /\ UNCHANGED <<money, row, plan>>
    BY <1>9 DEF Approve
  <2> QED BY <1>1, <1>3, <2>1 DEF RowsFollowPlan
<1>10. CASE NextWallet
  <2>1. pc = "next" /\ UNCHANGED <<money, row>>
    BY <1>10 DEF NextWallet
  <2>2. CASE Stop
    BY <1>3, <1>4, <2>1, <2>2 DEF Stop
  <2>3. CASE ~Stop
    <3>1. PICK w \in todo :
            /\ todo' = todo \ {w} /\ plan' = plan
            /\ \/ pc' = "mark" /\ wallet' = w /\ left' = Contributing(w)
               \/ pc' = "next"
      BY <1>10, <2>3 DEF NextWallet
    <3>2. \A s \in Contributing(w) : row[s] = NoRow
      BY <1>1, <2>1 DEF RowsFollowPlan, Contributing
    <3>3. RowsFollowPlan'
      BY <1>1, <2>1, <3>1, <3>2 DEF RowsFollowPlan, Contributing
    <3> QED BY <1>3, <2>1, <3>3
  <2> QED BY <2>2, <2>3
<1>11. CASE Mark
  <2>1. PICK s \in left :
          /\ row' = IF row[s] = NoRow
                    THEN [row EXCEPT ![s] = [wallet |-> wallet, mojos |-> plan[s].mojos, tx |-> FALSE]]
                    ELSE row
          /\ left' = left \ {s}
          /\ pc' = IF left = {s} THEN "send" ELSE "mark"
    BY <1>11 DEF Mark
  <2>2. pc = "mark" /\ UNCHANGED <<money, plan, todo, wallet>>
    BY <1>11 DEF Mark
  <2>3. /\ s \in Pairs /\ s \in Contributing(wallet) /\ wallet \notin todo /\ row[s] = NoRow
        /\ paid[s] = 0
    BY <1>1, <2>1, <2>2 DEF IInv, WalletIsNext, TypeOK, RowsFollowPlan
  <2> DEFINE new == [wallet |-> wallet, mojos |-> plan[s].mojos, tx |-> FALSE]
  <2>4. row' = [row EXCEPT ![s] = new]
    BY <2>1, <2>3
  <2>5. /\ row'[s] = new /\ new.wallet = wallet /\ new.mojos = plan[s].mojos /\ ~new.tx
        /\ \A q \in Pairs : q # s => row'[q] = row[q]
    BY <2>3, <2>4, <1>1 DEF IInv, TypeOK
  <2>6. new # NoRow
    <3>1. plan[s].mojos \in Nat /\ wallet \in Wallets
      BY <1>1, <2>2, <2>3 DEF IInv, TypeOK, Contributing, WalletIsNext
    <3>2. new \in Row
      BY <3>1 DEF Row
    <3> QED BY <3>2, DataAssumption
  <2> HIDE DEF new
  <2>7. ReceivedIsPaid'
    <3>1. \A q \in Pairs : paid[q] > 0 => row'[q] = row[q]
      BY <2>3, <2>5
    <3> QED BY <1>1, <2>2, <3>1, AccountStands
  <2>8. TxIsPaid'
    BY <1>1, <2>2, <2>5 DEF TxIsPaid, money
  <2>9. Contributing(wallet) \in SUBSET Pairs /\ Contributing(wallet)' = Contributing(wallet)
    BY <1>1, <2>2 DEF IInv, TypeOK, Contributing
  <2>10. \A q \in DOMAIN plan : plan[q].wallet \in todo => row'[q] = NoRow
    <3>1. \A q \in DOMAIN plan : q \in Pairs /\ (plan[q].wallet \in todo => row[q] = NoRow)
      BY <1>1, <2>2 DEF IInv, TypeOK, RowsFollowPlan
    <3>2. plan[s].wallet \notin todo
      BY <2>3 DEF Contributing
    <3> QED BY <2>5, <3>1, <3>2
  <2>11. \A q \in left' : row'[q] = NoRow
    BY <1>1, <2>1, <2>2, <2>5 DEF IInv, TypeOK, RowsFollowPlan
  <2>12. \A q \in Contributing(wallet) :
           \/ q \in left'
           \/ row'[q] # NoRow /\ row'[q].wallet = wallet /\ row'[q].mojos = plan[q].mojos
    <3>1. \A q \in Contributing(wallet) : q \in Pairs /\
            \/ q \in left
            \/ row[q] # NoRow /\ row[q].wallet = wallet /\ row[q].mojos = plan[q].mojos
      BY <1>1, <2>2, <2>9 DEF RowsFollowPlan
    <3> TAKE q \in Contributing(wallet)
    <3>2. CASE q = s
      BY <3>2, <2>5, <2>6
    <3>3. CASE q # s
      BY <3>1, <3>3, <2>1, <2>5
    <3> QED BY <3>2, <3>3
  <2>13. pc' \in {"mark", "send"} /\ (pc' = "send" => left' = {})
    BY <2>1
  <2>14. RowsFollowPlan'
    BY <2>2, <2>9, <2>10, <2>11, <2>12, <2>13 DEF RowsFollowPlan
  <2> QED BY <2>7, <2>8, <2>14
<1>12. CASE Send
  <2>1. /\ pc = "send" /\ pc' = "confirm" /\ Accept /\ row' = row /\ UNCHANGED <<plan, todo, wallet>>
        /\ left' = Contributing(wallet)
    BY <1>12 DEF Send
  <2>2. \A s \in left' : paid'[s] > 0
    <3>1. \A s \in Contributing(wallet) : s \in Pairs /\ paid[s] \in Nat
      BY <1>1 DEF IInv, TypeOK, Contributing
    <3> QED BY <2>1, <3>1 DEF Accept
  <2>3. RowsFollowPlan'
    BY <1>1, <2>1, <2>2 DEF RowsFollowPlan
  <2> QED BY <2>1, <2>3, AccountGrows DEF AccountInv
<1>13. CASE SendFails
  <2>1. pc = "send" /\ pc' = "next" /\ (UNCHANGED money \/ Accept) /\ UNCHANGED <<row, plan, todo>>
    BY <1>13 DEF SendFails, memory
  <2>2. RowsFollowPlan'
    BY <1>1, <2>1 DEF RowsFollowPlan
  <2> QED BY <1>3, <2>1, <2>2, AccountGrows DEF AccountInv
<1>14. CASE Confirm
  <2>1. PICK s \in left :
          /\ row' = [row EXCEPT ![s] = [row[s] EXCEPT !.tx = TRUE]]
          /\ left' = left \ {s}
          /\ pc' = IF left = {s} THEN "next" ELSE "confirm"
    BY <1>14 DEF Confirm
  <2>2. pc = "confirm" /\ UNCHANGED <<money, plan, todo, wallet>>
    BY <1>14 DEF Confirm
  <2>3. s \in Pairs /\ row[s] \in Row /\ paid[s] > 0 /\ s \in Contributing(wallet) /\ wallet \notin todo
    BY <1>1, <2>1, <2>2 DEF IInv, WalletIsNext, TypeOK, RowsFollowPlan
  <2>4. /\ row'[s].wallet = row[s].wallet /\ row'[s].mojos = row[s].mojos
        /\ \A q \in Pairs : q # s => row'[q] = row[q]
    BY <2>1, <2>3, <1>1 DEF IInv, TypeOK, Row
  <2>5. ReceivedIsPaid'
    BY <1>1, <2>2, <2>4, AccountStands
  <2>6. TxIsPaid'
    BY <1>1, <2>2, <2>3, <2>4 DEF TxIsPaid, money
  <2>7. \A q \in DOMAIN plan : plan[q].wallet \in todo => row'[q] = NoRow
    <3>1. \A q \in DOMAIN plan : q \in Pairs /\ (plan[q].wallet \in todo => row[q] = NoRow)
      BY <1>1, <2>2 DEF IInv, TypeOK, RowsFollowPlan
    <3>2. plan[s].wallet \notin todo
      BY <2>3 DEF Contributing
    <3> QED BY <2>4, <3>1, <3>2
  <2>8. RowsFollowPlan'
    BY <1>1, <2>1, <2>2, <2>7 DEF RowsFollowPlan, money
  <2> QED BY <2>5, <2>6, <2>8
<1>15. CASE Crash
  <2>1. pc' = "idle" /\ row' = row /\ (UNCHANGED money \/ (pc = "send" /\ Accept))
    BY <1>15 DEF Crash, Stop
  <2> QED BY <1>3, <1>4, <2>1, AccountGrows DEF AccountInv
<1> QED
  BY <1>5, <1>6, <1>7, <1>8, <1>9, <1>10, <1>11, <1>12, <1>13, <1>14, <1>15
  DEF Next, Go, Attest, Bind, vars

(* The watermark accounts for the money (watermark.total_paid_to_wallet):   *)
(* what a wallet has received lies between what its rows with a transaction *)
(* say and what all its rows say, whatever was refused, lost or cut short.  *)
THEOREM WatermarkAccounts == Spec => []RowsAccount
<1>1. AccountInv => RowsAccount
  <2> SUFFICES ASSUME AccountInv, NEW w \in Wallets
               PROVE  received[w] >= Mojos(w, {TRUE}) /\ received[w] <= Mojos(w, BOOLEAN)
    BY DEF RowsAccount
  <2> DEFINE P == PaidRows(w)
             T == RowsOf(w, {TRUE})
             A == RowsOf(w, BOOLEAN)
  <2>1. /\ T \in SUBSET P /\ P \in SUBSET A /\ A \in SUBSET Pairs
        /\ \A s \in A : row[s] \in Row
    <3>1. \A s \in Pairs : row[s] # NoRow => row[s] \in Row /\ row[s].tx \in BOOLEAN
      BY DEF AccountInv, IInv, TypeOK, Row
    <3>2. T \in SUBSET P
      BY DEF AccountInv, TxIsPaid, RowsOf, PaidRows
    <3>3. P \in SUBSET A
      BY <3>1 DEF AccountInv, IInv, MarkedFirst, RowsOf, PaidRows
    <3> QED BY <3>1, <3>2, <3>3 DEF RowsOf
  <2>2. received[w] = MojosIn(row, P) /\ Mojos(w, {TRUE}) = MojosIn(row, T)
        /\ Mojos(w, BOOLEAN) = MojosIn(row, A)
    BY DEF AccountInv, ReceivedIsPaid, Mojos, MojosIn
  <2> HIDE DEF P, T, A
  <2>3. MojosIn(row, P) <= MojosIn(row, A)
    BY <2>1, MojosInPart
  <2>4. MojosIn(row, T) <= MojosIn(row, P)
    BY <2>1, MojosInPart
  <2>5. MojosIn(row, P) \in Nat /\ MojosIn(row, T) \in Nat
    BY <2>1, MojosInType
  <2> QED BY <2>2, <2>3, <2>4, <2>5
<1> QED BY <1>1, AccountInitially, AccountStep, PTL DEF Spec

================================================================================

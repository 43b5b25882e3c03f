------------------------------ MODULE LegacyPayout ------------------------------
(****************************************************************************)
(* `python -m orchard_chia.payout`, the superseded season harvest: every    *)
(* attestation in the DataLayer store is paid once, summed up per wallet,   *)
(* with a local watermark of the (Tree, season) pairs already paid.  The    *)
(* pairs of a wallet are marked before its spend and get their transaction  *)
(* after it; each mark is a commit of its own, and nothing is ever unmarked *)
(* by the program.                                                          *)
(*                                                                          *)
(* One payer at a time: the program has no lock, and an operator who runs   *)
(* two of them is outside of this module.                                   *)
(****************************************************************************)
EXTENDS Integers, FiniteSets, Functions

CONSTANTS
  Trees,        \* node ids
  Seasons,      \* season numbers
  Wallets,      \* wallet addresses; ValidWallets match _XCH_ADDR
  ValidWallets,
  Attested,     \* Attested[s]: what the attestation of a pair says
  DailyRate,    \* mojos for a whole day
  NoHours,      \* no verified_hours in an attestation
  NoWallet,     \* a Tree that has no wallet bound
  NoRow,        \* no row in the watermark
  FaultKinds,   \* faults that happen, and how many of them: a bound of the
  MaxFaults     \* model

VARIABLES
  onChain,  \* the pairs whose attestation is in the store
  bound,    \* the oracle's wallet of each Tree
  row,      \* paid_attestations
  paid,     \* how many spends that the daemon took included the pair
  received, \* mojos each wallet has received
  pc,       \* where the run is, "idle" between runs
  seen,     \* the attestations the run has read
  plan,     \* its ready rows, a function of the pair
  todo,     \* wallets it has not come to
  wallet,   \* the wallet it is at
  left,     \* pairs of that wallet that are still to be marked or confirmed
  faults    \* faults that have happened so far

world == <<onChain, bound>>
money == <<paid, received>>
memory == <<seen, plan, todo, wallet, left>>
vars == <<world, money, memory, row, pc, faults>>

Pairs == Trees \X Seasons

(* An attestation: whether its signature verifies, the hours anyone can     *)
(* recompute, and whether it declares that nothing was published.           *)
Attestation == [signed: BOOLEAN, verified: Nat \union {NoHours}, placeholder: BOOLEAN]
Row == [wallet: Wallets, mojos: Nat, tx: BOOLEAN]

ASSUME DataAssumption ==
  /\ IsFiniteSet(Trees) /\ IsFiniteSet(Seasons)
  /\ ValidWallets \subseteq Wallets
  /\ Attested \in [Pairs -> Attestation]
  /\ DailyRate \in Nat
  /\ NoWallet \notin Wallets /\ NoHours \notin Nat /\ NoRow \notin Row
  /\ FaultKinds \subseteq {"crash", "refused", "lost", "unread", "nonode"}
  /\ MaxFaults \in Nat

(* paid_hours: nothing unprovable is paid.                                  *)
PaidHours(a) == IF a.verified = NoHours \/ a.placeholder THEN 0 ELSE a.verified

(* juice_mojos_for_attestation rounds to the nearest mojo.                  *)
Reward(a) == (2 * PaidHours(a) * DailyRate + 24) \div 48

(* Signed, with hours that a day has, and worth something.                  *)
Payable(s) ==
  LET a == Attested[s]
  IN a.signed /\ PaidHours(a) \in 0..24 /\ Reward(a) > 0

--------------------------------------------------------------------------------

Init ==
  /\ onChain = {}
  /\ bound \in [Trees -> Wallets \union {NoWallet}]
  /\ row = [s \in Pairs |-> NoRow]
  /\ paid = [s \in Pairs |-> 0]
  /\ received = [w \in Wallets |-> 0]
  /\ pc = "idle"
  /\ seen = {} /\ plan = <<>> /\ todo = {} /\ wallet = NoWallet /\ left = {}
  /\ faults = 0

Fault(kind) == kind \in FaultKinds /\ faults < MaxFaults /\ faults' = faults + 1

(* The season attester writes an attestation.                               *)
Attest(s) ==
  /\ s \notin onChain
  /\ onChain' = onChain \union {s}
  /\ UNCHANGED <<bound, money, memory, row, pc, faults>>

(* An owner registers a wallet for a Tree, or another one.                  *)
Bind(t, w) ==
  /\ bound' = [bound EXCEPT ![t] = w]
  /\ UNCHANGED <<onChain, money, memory, row, pc, faults>>

(* The run is over; so is its memory.                                       *)
Stop ==
  /\ pc' = "idle"
  /\ seen' = {} /\ plan' = <<>> /\ todo' = {} /\ wallet' = NoWallet /\ left' = {}

(* read_all_attestations: the keys are read strictly, each value softly, so *)
(* that one that cannot be read looks absent.                               *)
ReadStore ==
  /\ pc = "idle"
  /\ \/ seen' = onChain /\ UNCHANGED faults
     \/ Fault("unread") /\ \E s \in onChain : seen' = onChain \ {s}
  /\ pc' = "plan"
  /\ UNCHANGED <<world, money, row, plan, todo, wallet, left>>

(* Variation: the watermark is asked per wallet.                            *)
WrongReady(unseen) ==
  {s \in seen : /\ Payable(s)
                /\ bound[s[1]] \notin {NoWallet} \union unseen
                /\ \A q \in Pairs : row[q] # NoRow => row[q].wallet # bound[s[1]]}

(* Variation: only a row with its transaction counts as paid.               *)
TxReady(unseen) ==
  {s \in seen : /\ Payable(s)
                /\ row[s] = NoRow \/ ~row[s].tx
                /\ bound[s[1]] # NoWallet /\ s[1] \notin unseen}

(* What the plan calls ready: payable, not in the watermark, and of a Tree  *)
(* whose wallet the oracle would tell.                                      *)
Ready(unseen) ==
  {s \in seen : /\ Payable(s)
                /\ row[s] = NoRow
                /\ bound[s[1]] # NoWallet /\ s[1] \notin unseen}

MakePlan ==
  /\ pc = "plan"
  /\ \E unseen \in {{}} \union {{t} : t \in Trees} :
       /\ unseen # {} => Fault("nonode")
       /\ unseen = {} => UNCHANGED faults
       /\ LET ready == Ready(unseen)
          IN IF ready = {} THEN Stop
             ELSE /\ pc' = "approve"
                  /\ plan' = [s \in ready |-> [wallet |-> bound[s[1]], mojos |-> Reward(Attested[s])]]
                  /\ UNCHANGED <<seen, todo, wallet, left>>
  /\ UNCHANGED <<world, money, row>>

(* --yes or PAY, with the acknowledgement that the model is superseded.     *)
Approve ==
  /\ pc = "approve"
  /\ todo' = {plan[s].wallet : s \in DOMAIN plan}
  /\ pc' = "next"
  /\ UNCHANGED <<world, money, row, seen, plan, wallet, left, faults>>

(* A dry run, an operator who does not confirm, or no CAT wallet.           *)
Decline ==
  /\ pc = "approve"
  /\ Stop
  /\ UNCHANGED <<world, money, row, faults>>

Contributing(w) == {s \in DOMAIN plan : plan[s].wallet = w}

(* Variation: the amount goes by the wallets as they are bound now.          *)
WrongOwed(w) ==
  SumFunctionOnSet([s \in DOMAIN plan |-> plan[s].mojos], {s \in DOMAIN plan : bound[s[1]] = w})

Owed(w) == SumFunctionOnSet([s \in DOMAIN plan |-> plan[s].mojos], Contributing(w))

(* The next recipient; an address that does not look like one is skipped.   *)
NextWallet ==
  /\ pc = "next"
  /\ \/ /\ todo = {}
        /\ Stop
     \/ \E w \in todo :
          /\ todo' = todo \ {w}
          /\ IF w \in ValidWallets
             THEN pc' = "mark" /\ wallet' = w /\ left' = Contributing(w)
             ELSE pc' = "next" /\ UNCHANGED <<wallet, left>>
          /\ UNCHANGED <<seen, plan>>
  /\ UNCHANGED <<world, money, row, faults>>

(* record_payment: a row of a pair that has one already stays as it is.     *)
Mark ==
  /\ pc = "mark"
  /\ \E s \in left :
       /\ row' = IF row[s] = NoRow
                 THEN [row EXCEPT ![s] = [wallet |-> wallet, mojos |-> plan[s].mojos, tx |-> FALSE]]
                 ELSE row
       /\ left' = left \ {s}
       /\ pc' = IF left = {s} THEN "send" ELSE "mark"
  /\ UNCHANGED <<world, money, seen, plan, todo, wallet, faults>>

(* The daemon takes the spend.                                              *)
Accept ==
  /\ paid' = [s \in Pairs |-> IF s \in Contributing(wallet) THEN paid[s] + 1 ELSE paid[s]]
  /\ received' = [received EXCEPT ![wallet] = @ + Owed(wallet)]

Send ==
  /\ pc = "send"
  /\ Accept
  /\ left' = Contributing(wallet)
  /\ pc' = "confirm"
  /\ UNCHANGED <<world, row, seen, plan, todo, wallet, faults>>

(* WalletRpcError: refused, or taken and the answer lost.  Either way the   *)
(* marks stay.                                                              *)
SendFails ==
  /\ pc = "send"
  /\ \/ Fault("refused") /\ UNCHANGED money
     \/ Fault("lost") /\ Accept
  /\ pc' = "next"
  /\ UNCHANGED <<world, row, memory>>

(* set_tx, one pair after the other.                                        *)
Confirm ==
  /\ pc = "confirm"
  /\ \E s \in left :
       /\ row' = [row EXCEPT ![s] = [@ EXCEPT !.tx = TRUE]]
       /\ left' = left \ {s}
       /\ pc' = IF left = {s} THEN "next" ELSE "confirm"
  /\ UNCHANGED <<world, money, seen, plan, todo, wallet, faults>>

(* The process dies; a spend under way may be taken all the same.           *)
Crash ==
  /\ pc # "idle"
  /\ Fault("crash")
  /\ UNCHANGED money \/ (pc = "send" /\ Accept)
  /\ Stop
  /\ UNCHANGED <<world, row>>

(* "reconcile before re-running": the operator looks a mark without a       *)
(* transaction up in the wallet's history, and completes or removes it.     *)
Reconcile(s) ==
  /\ pc = "idle"
  /\ row[s] # NoRow /\ ~row[s].tx
  /\ row' = [row EXCEPT ![s] = IF paid[s] > 0 THEN [@ EXCEPT !.tx = TRUE] ELSE NoRow]
  /\ UNCHANGED <<world, money, memory, pc, faults>>

Go == MakePlan \/ NextWallet \/ Mark \/ Send \/ SendFails \/ Confirm

Next ==
  \/ \E s \in Pairs : Attest(s) \/ Reconcile(s)
  \/ \E t \in Trees, w \in Wallets : Bind(t, w)
  \/ ReadStore \/ Approve \/ Decline \/ Go \/ Crash

Spec == Init /\ [][Next]_vars

(* An operator who keeps running the harvest, confirms it and looks up what *)
(* it has left in doubt.                                                    *)
FairSpec ==
  /\ Spec
  /\ WF_vars(Go) /\ SF_vars(ReadStore) /\ SF_vars(Approve)
  /\ SF_vars(\E s \in Pairs : Reconcile(s))

--------------------------------------------------------------------------------

(* The state is well typed.                                                 *)
TypeOK ==
  /\ onChain \subseteq Pairs /\ seen \subseteq Pairs /\ left \subseteq Pairs
  /\ bound \in [Trees -> Wallets \union {NoWallet}]
  /\ row \in [Pairs -> Row \union {NoRow}]
  /\ paid \in [Pairs -> Nat]
  /\ DOMAIN received = Wallets
  /\ DOMAIN plan \subseteq Pairs
  /\ \A s \in DOMAIN plan : plan[s] \in [wallet: Wallets, mojos: Nat]
  /\ pc \in {"idle", "plan", "approve", "next", "mark", "send", "confirm"}
  /\ todo \subseteq Wallets
  /\ wallet \in Wallets \union {NoWallet}
  /\ faults \in 0..MaxFaults

(* A pair is paid at most once, whatever crashes, lost answers, re-bindings *)
(* and repeats there were: "a crash after the tx is sent can't double-pay"  *)
(* (payout/main.py:415-419).                                                *)
OncePerPair == \A s \in Pairs : paid[s] <= 1

(* The watermark accounts for the money: each wallet has received at least  *)
(* what its rows with a transaction say and at most what all its rows say   *)
(* (watermark.total_paid_to_wallet).                                        *)
RowsOf(w, tx) == {s \in Pairs : row[s] # NoRow /\ row[s].wallet = w /\ row[s].tx \in tx}
Mojos(w, tx) == SumFunctionOnSet([s \in RowsOf(w, tx) |-> row[s].mojos], RowsOf(w, tx))
RowsAccount ==
  \A w \in Wallets : /\ received[w] >= Mojos(w, {TRUE})
                     /\ received[w] <= Mojos(w, BOOLEAN)

(* An attestation that is worth something is paid in the end if its Tree    *)
(* keeps a wallet that can be paid, although a crash among the marks leaves *)
(* some pairs of a wallet marked and unpaid, and a mark is for good.        *)
HarvestedInTheEnd ==
  \A s \in Pairs : Payable(s) =>
    (<>[](s \in onChain /\ bound[s[1]] \in ValidWallets) => <>(paid[s] = 1))

================================================================================

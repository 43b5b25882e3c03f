-------------------------------- MODULE Payment --------------------------------
(****************************************************************************)
(* `python -m orchard_chia.economics pay`: one settled day of the pool      *)
(* ledger is one payment cycle, planned and executed by the spending core.  *)
(* The command takes no lock, so several of them may be under way at once   *)
(* unless their callers see to it that they are not (Exclusive).            *)
(****************************************************************************)
EXTENDS SpendExecutor

VARIABLE ledger   \* settled_days: "open" has no row, "paid" has paid_at

(* The day's payment has no dust floor and no fee of its own.               *)
ASSUME EconomicsLimits == MinPayout = 1 /\ Fee = 0

vars == <<coreVars, ledger>>

(* What the day's rows add up to per wallet is Allocated[d]: the cycle of a *)
(* day is a function of the day, its total and the asset.                   *)
Days == Cycles
Owes(d) == {w \in Wallets : Allocated[d][w] > 0}

Init == CoreInit /\ ledger = [d \in Days |-> "open"]

(* `economics settle` inserts the day and its rewards in one transaction.   *)
Settle(d) ==
  /\ ledger[d] = "open"
  /\ ledger' = [ledger EXCEPT ![d] = "settled"]
  /\ UNCHANGED coreVars

(* The command, for the day it is given or the first unpaid one, dry or     *)
(* live, under the maximum the operator has exported.                       *)
StartPay(p, d, live, cap) ==
  /\ MayStart(p)
  /\ job' = [job EXCEPT ![p] = [cycle |-> d, live |-> live, cap |-> cap]]
  /\ Goto(p, "balance")
  /\ UNCHANGED <<storeVars, walletVars, bal, blocked, todo, attempt, outcome, faults, ledger>>

AskBalance(p) == ReadBalance(p, "check") /\ UNCHANGED ledger

(* plan_day_payment refuses a day that is not settled, one already paid and *)
(* one that distributed nothing.                                            *)
CheckDay(p) ==
  LET d == job[p].cycle
  IN /\ pc[p] = "check"
     /\ \/ /\ ledger[d] = "settled" /\ Owes(d) # {}
           /\ Goto(p, "plan")
           /\ UNCHANGED <<job, bal, blocked, todo, attempt, outcome>>
        \/ /\ ledger[d] # "settled" \/ Owes(d) = {}
           /\ Exit(p)
     /\ UNCHANGED <<storeVars, walletVars, faults, ledger>>

PlanAndPersist(p) ==
  /\ Plan(p, FALSE) \/ OpenCycle(p) \/ PutInstruction(p)
  /\ UNCHANGED ledger

(* Variation: it is enough for the heal that something was sent.            *)
WrongFullySent(d) == \E w \in Wallets : state[d][w] = "sent"

(* Every instruction on record is sent and has its transaction.             *)
FullySent(d) ==
  /\ \E w \in Wallets : state[d][w] # "none"
  /\ \A w \in Wallets : state[d][w] # "none" => state[d][w] = "sent" /\ tx[d][w]

(* mark_paid does not look at what the row says.                            *)
MarkPaid(d) == ledger' = [ledger EXCEPT ![d] = "paid"]

(* The crash-heal: the plan is blocked because a former run sent it all.    *)
Heal(p) ==
  LET d == job[p].cycle
  IN /\ pc[p] = "gate" /\ blocked[p] /\ FullySent(d)
     /\ MarkPaid(d)
     /\ Exit(p)
     /\ UNCHANGED <<storeVars, walletVars, faults>>

(* A dry run ends here, and so does a plan that is blocked.                 *)
Stop(p) ==
  /\ pc[p] = "gate"
  /\ IF blocked[p] THEN ~FullySent(job[p].cycle) ELSE ~job[p].live
  /\ Exit(p)
  /\ UNCHANGED <<storeVars, walletVars, faults, ledger>>

GoLive(p) ==
  /\ pc[p] = "gate" /\ ~blocked[p] /\ job[p].live
  /\ Goto(p, "begin")
  /\ UNCHANGED <<storeVars, walletVars, planVars, todo, attempt, outcome, faults, ledger>>

ExecuteDay(p) == Execute(p) /\ UNCHANGED ledger

(* Variation: only a halt leaves the day unpaid.                            *)
WrongReport(p) ==
  /\ pc[p] = "report"
  /\ IF outcome[p] # "halted" THEN MarkPaid(job[p].cycle) ELSE UNCHANGED ledger
  /\ Exit(p)
  /\ UNCHANGED <<storeVars, walletVars, faults>>

(* A run that halted or failed anything leaves the day unpaid.              *)
Report(p) ==
  /\ pc[p] = "report"
  /\ IF outcome[p] = "ok" THEN MarkPaid(job[p].cycle) ELSE UNCHANGED ledger
  /\ Exit(p)
  /\ UNCHANGED <<storeVars, walletVars, faults>>

Run(p) == AskBalance(p) \/ CheckDay(p) \/ PlanAndPersist(p) \/ Heal(p) \/ Stop(p)
          \/ GoLive(p) \/ ExecuteDay(p) \/ Report(p)

Next ==
  \/ \E d \in Days : Settle(d)
  \/ \E p \in Procs, d \in Days, live \in BOOLEAN, cap \in Caps : StartPay(p, d, live, cap)
  \/ \E p \in Procs : Run(p)
  \/ \E p \in Procs : Crash(p) /\ UNCHANGED ledger
  \/ \E d \in Days, w \in Wallets : Resolve(d, w) /\ UNCHANGED ledger

Spec == Init /\ [][Next]_vars

--------------------------------------------------------------------------------
(****************************************************************************)
(* Liveness needs an operator who keeps at it: settled days are paid again  *)
(* and again while they are unpaid, and rows left in doubt are looked up.   *)
(****************************************************************************)

PayLive(d) == /\ ledger[d] = "settled"
              /\ \E p \in Procs, cap \in Caps : StartPay(p, d, TRUE, cap)

ResolveRow(d, w) == Resolve(d, w) /\ UNCHANGED ledger

FairSpec ==
  /\ Spec
  /\ \A p \in Procs : WF_vars(Run(p))
  /\ \A d \in Days : WF_vars(Settle(d)) /\ SF_vars(PayLive(d))
  /\ \A d \in Days, w \in Wallets : SF_vars(ResolveRow(d, w))

--------------------------------------------------------------------------------

(* The state is well typed.                                                 *)
TypeOK == CoreTypeOK /\ ledger \in [Days -> {"open", "settled", "paid"}]

(* No wallet is paid twice for a day, whatever crashed, failed or was run   *)
(* again in between: what the cycle identity, the in-flight rule and        *)
(* already_paid are for.                                                    *)
AtMostOnce == \A d \in Days, w \in Wallets : spends[d][w] <= 1

(* The ledger says "paid" only of a day whose every wallet has been sent    *)
(* its share: paid_at is written by Report after a run without failures, or *)
(* by the heal.                                                             *)
PaidMeansSent ==
  \A d \in Days : ledger[d] = "paid" => \A w \in Owes(d) : spends[d][w] > 0

(* The audit rows are right about the money: "sent" and "skipped" rows have *)
(* moved some, "planned" and "failed" rows have not; only "sending" leaves  *)
(* it open.                                                                 *)
AuditTellsTruth ==
  \A d \in Days, w \in Wallets :
    /\ state[d][w] \in {"sent", "skipped"} => spends[d][w] > 0
    /\ state[d][w] \in {"none", "planned", "failed"} => spends[d][w] = 0

(* A spend that went out has left a trace: its row was committed as         *)
(* "sending" before the RPC, and nothing turns it back into a mere plan.    *)
SpendLeavesTrace ==
  \A d \in Days, w \in Wallets :
    spends[d][w] > 0 => state[d][w] \notin {"none", "planned"}

(* Paying implements the abstract payout: one spend per wallet and day, all *)
(* of them before the day is closed, none after.                            *)
Abstract == INSTANCE Payout WITH
  Owed <- [d \in Days |-> Owes(d)],
  received <- spends,
  closed <- {d \in Days : ledger[d] = "paid"}
PaysOut == Abstract!Spec

(* A settled day that owes something is paid in the end if the operator     *)
(* keeps paying.                                                            *)
EventuallyPaid ==
  \A d \in Days : Owes(d) # {} => (ledger[d] = "settled" ~> ledger[d] = "paid")

================================================================================

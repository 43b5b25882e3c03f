----------------------------- MODULE SpendExecutor -----------------------------
(****************************************************************************)
(* The spending core shared by both payers: the planner, the audit store,   *)
(* the executor and the wallet daemon it calls (orchard_chia/allocation).   *)
(*                                                                          *)
(* A run of a payer goes                                                    *)
(*                                                                          *)
(*   balance -> plan -> open -> put* -> gate -> begin ->                    *)
(*      ( next -> [skip] | mark -> send -> sent | fail )* -> close -> report *)
(*                                                                          *)
(* with one step per commit to the audit store, per read that a later step  *)
(* relies on, and per answer of the wallet, so that a crash or another      *)
(* process can come between any two of them.  What precedes "balance",      *)
(* what "gate" decides and what "report" records differ between the payers  *)
(* and is left to the modules that extend this one.                         *)
(****************************************************************************)
EXTENDS Integers, FiniteSets, Functions

CONSTANTS
  Procs,          \* processes that may run a payer
  Cycles,         \* payment cycles (audit.cycle_id_for)
  Wallets,        \* wallet addresses; naturals, since runs go in address order
  Allocated,      \* Allocated[c][w]: mojos the cycle allocates to the wallet
  Caps,           \* the per-wallet maxima an operator may configure
  MaxPerCycle,    \* the per-cycle maximum
  MinPayout,      \* the dust floor
  Fee,            \* the planner's fee per instruction
  MaxAttempts,    \* executor.execute max_attempts (3 in the code)
  InitialBalance, \* CAT mojos the wallet holds at the start
  FaultKinds,     \* which faults happen; see Fault below
  MaxFaults,      \* how many of them: a bound of the model
  Exclusive,      \* TRUE iff the environment runs one payer at a time
  Unknown         \* a balance the wallet did not report

ASSUME ProcsAssumption == Procs # {}
ASSUME DataAssumption ==
  /\ Wallets \subseteq Nat
  /\ Allocated \in [Cycles -> [Wallets -> Nat]]
ASSUME LimitsAssumption ==
  /\ Caps \subseteq Nat \ {0}
  /\ MaxPerCycle \in Nat
  /\ MinPayout \in Nat \ {0}
  /\ Fee \in Nat
  /\ MaxAttempts \in Nat \ {0}
  /\ InitialBalance \in Nat
ASSUME FaultsAssumption ==
  /\ FaultKinds \subseteq {"reject", "lost", "unknown", "crash", "nobalance"}
  /\ MaxFaults \in Nat
  /\ Exclusive \in BOOLEAN
  /\ Unknown \notin Nat

VARIABLES
  cycleState,  \* cycles.state, "none" while the row does not exist
  state,       \* instructions.state of cycle and wallet, "none" likewise
  amount,      \* instructions.amount_mojos
  tx,          \* whether instructions.tx_id is set
  balance,     \* CAT mojos in the wallet
  spends,      \* how many spends of cycle and wallet the daemon accepted
  pc, job, bal, blocked, todo, attempt, outcome,  \* the memory of each run
  faults       \* faults that have happened so far

storeVars  == <<cycleState, state, amount, tx>>
walletVars == <<balance, spends>>
planVars   == <<job, bal, blocked>>
runVars    == <<pc, job, bal, blocked, todo, attempt, outcome>>
coreVars   == <<storeVars, walletVars, runVars, faults>>

CycleStates == {"none", "planned", "sending", "halted", "settled", "dry-run"}
InstructionStates == {"none", "planned", "sending", "sent", "failed", "skipped"}

(* already_paid counts an instruction whose outcome is not known as paid.   *)
Paid == {"sent", "sending"}

Labels == {"idle", "balance", "check", "plan", "open", "put", "gate", "begin",
           "next", "skip", "mark", "send", "sent", "fail", "close", "report"}

(* What a run was started with; NoJob between runs.                         *)
NoJob == [cycle |-> Unknown, live |-> FALSE, cap |-> 1]
Jobs == [cycle: Cycles, live: BOOLEAN, cap: Caps]

(****************************************************************************)
(* The planner's arithmetic.                                                *)
(****************************************************************************)

(* Wallets that get an instruction: nothing allocated and dust are dropped. *)
Instructed(c) == {w \in Wallets : Allocated[c][w] > 0 /\ Allocated[c][w] >= MinPayout}

(* What the instruction is for: capped, and the shortfall goes to nobody.   *)
PlanAmount(c, w, cap) == IF Allocated[c][w] > cap THEN cap ELSE Allocated[c][w]

PlanTotal(c, cap) ==
  SumFunctionOnSet([w \in Wallets |-> PlanAmount(c, w, cap)], Instructed(c))

OverCycleMaximum(c, cap) == PlanTotal(c, cap) > MaxPerCycle

(* An unknown balance is not compared with anything.                        *)
ShortOfBalance(c, cap, known) ==
  known # Unknown /\ PlanTotal(c, cap) + Fee * Cardinality(Instructed(c)) > known

(****************************************************************************)
(* Reads of the audit store.                                                *)
(****************************************************************************)

InFlight == \E c \in Cycles, w \in Wallets : state[c][w] = "sending"

HasSent(c) ==
  /\ cycleState[c] # "none"
  /\ \E w \in Wallets : state[c][w] \in Paid /\ amount[c][w] > 0

(* The instruction a run is at: it takes them in the order of the address.  *)
Current(p, w) == w \in todo[p] /\ \A v \in todo[p] : w <= v

--------------------------------------------------------------------------------

CoreInit ==
  /\ cycleState = [c \in Cycles |-> "none"]
  /\ state = [c \in Cycles |-> [w \in Wallets |-> "none"]]
  /\ amount = [c \in Cycles |-> [w \in Wallets |-> 0]]
  /\ tx = [c \in Cycles |-> [w \in Wallets |-> FALSE]]
  /\ balance = InitialBalance
  /\ spends = [c \in Cycles |-> [w \in Wallets |-> 0]]
  /\ pc = [p \in Procs |-> "idle"]
  /\ job = [p \in Procs |-> NoJob]
  /\ bal = [p \in Procs |-> Unknown]
  /\ blocked = [p \in Procs |-> FALSE]
  /\ todo = [p \in Procs |-> {}]
  /\ attempt = [p \in Procs |-> 0]
  /\ outcome = [p \in Procs |-> "ok"]
  /\ faults = 0

Goto(p, label) == pc' = [pc EXCEPT ![p] = label]

(* The process ends, by returning or by dying: its memory is gone.          *)
Exit(p) ==
  /\ Goto(p, "idle")
  /\ job' = [job EXCEPT ![p] = NoJob]
  /\ bal' = [bal EXCEPT ![p] = Unknown]
  /\ blocked' = [blocked EXCEPT ![p] = FALSE]
  /\ todo' = [todo EXCEPT ![p] = {}]
  /\ attempt' = [attempt EXCEPT ![p] = 0]
  /\ outcome' = [outcome EXCEPT ![p] = "ok"]

(* Something goes wrong that the environment is allowed to do wrong.        *)
Fault(kind) ==
  /\ kind \in FaultKinds
  /\ faults < MaxFaults
  /\ faults' = faults + 1

MayStart(p) == pc[p] = "idle" /\ (Exclusive => \A q \in Procs : pc[q] = "idle")

(****************************************************************************)
(* WalletSpender.spendable_balance: a live run asks, and the answer may be  *)
(* missing; a dry run does not ask.                                         *)
(****************************************************************************)
ReadBalance(p, label) ==
  /\ pc[p] = "balance"
  /\ \/ job[p].live /\ bal' = [bal EXCEPT ![p] = balance]
     \/ (job[p].live => "nobalance" \in FaultKinds) /\ bal' = [bal EXCEPT ![p] = Unknown]
  /\ Goto(p, label)
  /\ UNCHANGED <<storeVars, walletVars, job, blocked, todo, attempt, outcome, faults>>

(****************************************************************************)
(* plan(): one look at the store decides whether the run may spend.         *)
(****************************************************************************)
Plan(p, paused) ==
  LET c == job[p].cycle
      cap == job[p].cap
  IN /\ pc[p] = "plan"
     /\ blocked' = [blocked EXCEPT ![p] = \/ paused
                                          \/ InFlight
                                          \/ HasSent(c)
                                          \/ OverCycleMaximum(c, cap)
                                          \/ ShortOfBalance(c, cap, bal[p])]
     /\ Goto(p, "open")
     /\ UNCHANGED <<storeVars, walletVars, job, bal, todo, attempt, outcome, faults>>

(* persist(): the cycle row is replaced, whatever it said before.           *)
OpenCycle(p) ==
  LET c == job[p].cycle
  IN /\ pc[p] = "open"
     /\ cycleState' = [cycleState EXCEPT ![c] = "planned"]
     /\ todo' = [todo EXCEPT ![p] = Instructed(c)]
     /\ Goto(p, IF Instructed(c) = {} THEN "gate" ELSE "put")
     /\ UNCHANGED <<state, amount, tx, walletVars, planVars, attempt, outcome, faults>>

(* Variation: INSERT OR REPLACE.                                            *)
WrongPutInstruction(p) ==
  LET c == job[p].cycle
  IN /\ pc[p] = "put"
     /\ \E w \in Wallets :
          /\ Current(p, w)
          /\ state' = [state EXCEPT ![c][w] = "planned"]
          /\ amount' = [amount EXCEPT ![c][w] = PlanAmount(c, w, job[p].cap)]
          /\ todo' = [todo EXCEPT ![p] = @ \ {w}]
          /\ Goto(p, IF todo[p] = {w} THEN "gate" ELSE "put")
     /\ UNCHANGED <<cycleState, tx, walletVars, planVars, attempt, outcome, faults>>

(* put_instruction: INSERT OR IGNORE, so a row that exists keeps its state  *)
(* and its amount.                                                          *)
PutInstruction(p) ==
  LET c == job[p].cycle
  IN /\ pc[p] = "put"
     /\ \E w \in Wallets :
          /\ Current(p, w)
          /\ \/ /\ state[c][w] = "none"
                /\ state' = [state EXCEPT ![c][w] = "planned"]
                /\ amount' = [amount EXCEPT ![c][w] = PlanAmount(c, w, job[p].cap)]
             \/ state[c][w] # "none" /\ UNCHANGED <<state, amount>>
          /\ todo' = [todo EXCEPT ![p] = @ \ {w}]
          /\ Goto(p, IF todo[p] = {w} THEN "gate" ELSE "put")
     /\ UNCHANGED <<cycleState, tx, walletVars, planVars, attempt, outcome, faults>>

--------------------------------------------------------------------------------
(****************************************************************************)
(* execute(), live and not blocked.                                         *)
(****************************************************************************)

BeginSending(p) ==
  LET c == job[p].cycle
  IN /\ pc[p] = "begin"
     /\ cycleState' = [cycleState EXCEPT ![c] = "sending"]
     /\ todo' = [todo EXCEPT ![p] = Instructed(c)]
     /\ Goto(p, "next")
     /\ UNCHANGED <<state, amount, tx, walletVars, planVars, attempt, outcome, faults>>

(* The head of the loop, and already_paid.                                  *)
NextInstruction(p) ==
  LET c == job[p].cycle
  IN /\ pc[p] = "next"
     /\ \/ todo[p] = {} /\ Goto(p, "close")
        \/ \E w \in Wallets :
             /\ Current(p, w)
             /\ Goto(p, IF state[c][w] \in Paid THEN "skip" ELSE "mark")
     /\ attempt' = [attempt EXCEPT ![p] = 0]
     /\ UNCHANGED <<storeVars, walletVars, planVars, todo, outcome, faults>>

(* mark_skipped replaces the state it finds, "sent" and "sending" included. *)
MarkSkipped(p) ==
  LET c == job[p].cycle
  IN /\ pc[p] = "skip"
     /\ \E w \in Wallets :
          /\ Current(p, w)
          /\ state' = [state EXCEPT ![c][w] = "skipped"]
          /\ todo' = [todo EXCEPT ![p] = @ \ {w}]
     /\ Goto(p, "next")
     /\ UNCHANGED <<cycleState, amount, tx, walletVars, planVars, attempt, outcome, faults>>

(* Variation: the row is not committed before the RPC.                      *)
WrongMarkSending(p) ==
  /\ pc[p] = "mark"
  /\ attempt' = [attempt EXCEPT ![p] = @ + 1]
  /\ Goto(p, "send")
  /\ UNCHANGED <<storeVars, walletVars, planVars, todo, outcome, faults>>

(* mark_sending, committed before the RPC.                                  *)
MarkSending(p) ==
  LET c == job[p].cycle
  IN /\ pc[p] = "mark"
     /\ \E w \in Wallets :
          /\ Current(p, w)
          /\ state' = [state EXCEPT ![c][w] = "sending"]
     /\ attempt' = [attempt EXCEPT ![p] = @ + 1]
     /\ Goto(p, "send")
     /\ UNCHANGED <<cycleState, amount, tx, walletVars, planVars, todo, outcome, faults>>

(* The daemon takes the spend and the money moves.                          *)
Accept(c, w, mojos) ==
  /\ mojos <= balance
  /\ balance' = balance - mojos
  /\ spends' = [spends EXCEPT ![c][w] = @ + 1]

(* The daemon may have taken the spend, and nobody will know from here.     *)
MaybeAccept(c, w, mojos) == Accept(c, w, mojos) \/ UNCHANGED walletVars

(* send() came back with a transaction id.                                  *)
WalletAccepts(p) ==
  LET c == job[p].cycle
  IN /\ pc[p] = "send"
     /\ \E w \in Wallets : Current(p, w) /\ Accept(c, w, PlanAmount(c, w, job[p].cap))
     /\ Goto(p, "sent")
     /\ UNCHANGED <<storeVars, planVars, todo, attempt, outcome, faults>>

NoRetry(p) == Goto(p, "fail")

(* Any exception but ExecutorError: back to the top of the retry loop, or   *)
(* out of attempts.                                                         *)
RetryOrFail(p) == Goto(p, IF attempt[p] < MaxAttempts THEN "mark" ELSE "fail")

(* The daemon refused, for want of coins or because it was busy or syncing. *)
WalletRejects(p) ==
  LET c == job[p].cycle
  IN /\ pc[p] = "send"
     /\ \E w \in Wallets :
          /\ Current(p, w)
          /\ \/ Fault("reject")
             \/ PlanAmount(c, w, job[p].cap) > balance /\ UNCHANGED faults
     /\ RetryOrFail(p)
     /\ UNCHANGED <<storeVars, walletVars, planVars, todo, attempt, outcome>>

(* The daemon took the spend and the answer did not arrive: the HTTP call   *)
(* timed out or its body did not parse, which WalletRpc reports with the    *)
(* same exception as a refusal.                                             *)
WalletAnswerLost(p) ==
  LET c == job[p].cycle
  IN /\ pc[p] = "send"
     /\ Fault("lost")
     /\ \E w \in Wallets : Current(p, w) /\ Accept(c, w, PlanAmount(c, w, job[p].cap))
     /\ RetryOrFail(p)
     /\ UNCHANGED <<storeVars, planVars, todo, attempt, outcome>>

(* Variation: ExecutorError is one more exception to retry after.           *)
WrongWalletAnswerUnknown(p) ==
  LET c == job[p].cycle
  IN /\ pc[p] = "send"
     /\ Fault("unknown")
     /\ \E w \in Wallets : Current(p, w) /\ MaybeAccept(c, w, PlanAmount(c, w, job[p].cap))
     /\ RetryOrFail(p)
     /\ UNCHANGED <<storeVars, planVars, todo, attempt, outcome>>

(* The answer has no transaction id: ExecutorError, and the run halts with  *)
(* the row left in "sending".                                               *)
WalletAnswerUnknown(p) ==
  LET c == job[p].cycle
  IN /\ pc[p] = "send"
     /\ Fault("unknown")
     /\ \E w \in Wallets : Current(p, w) /\ MaybeAccept(c, w, PlanAmount(c, w, job[p].cap))
     /\ outcome' = [outcome EXCEPT ![p] = "halted"]
     /\ Goto(p, "close")
     /\ UNCHANGED <<storeVars, planVars, todo, attempt>>

MarkSent(p) ==
  LET c == job[p].cycle
  IN /\ pc[p] = "sent"
     /\ \E w \in Wallets :
          /\ Current(p, w)
          /\ state' = [state EXCEPT ![c][w] = "sent"]
          /\ tx' = [tx EXCEPT ![c][w] = TRUE]
          /\ todo' = [todo EXCEPT ![p] = @ \ {w}]
     /\ Goto(p, "next")
     /\ UNCHANGED <<cycleState, amount, walletVars, planVars, attempt, outcome, faults>>

(* Variation: the instruction that failed is taken up again.                *)
WrongMarkFailed(p) ==
  LET c == job[p].cycle
  IN /\ pc[p] = "fail"
     /\ \E w \in Wallets :
          /\ Current(p, w)
          /\ state' = [state EXCEPT ![c][w] = "failed"]
     /\ outcome' = [outcome EXCEPT ![p] = "failed"]
     /\ Goto(p, "next")
     /\ UNCHANGED <<cycleState, amount, tx, walletVars, planVars, todo, attempt, faults>>

MarkFailed(p) ==
  LET c == job[p].cycle
  IN /\ pc[p] = "fail"
     /\ \E w \in Wallets :
          /\ Current(p, w)
          /\ state' = [state EXCEPT ![c][w] = "failed"]
          /\ todo' = [todo EXCEPT ![p] = @ \ {w}]
     /\ outcome' = [outcome EXCEPT ![p] = "failed"]
     /\ Goto(p, "next")
     /\ UNCHANGED <<cycleState, amount, tx, walletVars, planVars, attempt, faults>>

CloseCycle(p) ==
  LET c == job[p].cycle
  IN /\ pc[p] = "close"
     /\ cycleState' = [cycleState EXCEPT ![c] =
                         IF outcome[p] = "halted" THEN "halted" ELSE "settled"]
     /\ Goto(p, "report")
     /\ UNCHANGED <<state, amount, tx, walletVars, planVars, todo, attempt, outcome, faults>>

Execute(p) ==
  \/ BeginSending(p) \/ NextInstruction(p) \/ MarkSkipped(p) \/ MarkSending(p)
  \/ WalletAccepts(p) \/ WalletRejects(p) \/ WalletAnswerLost(p) \/ WalletAnswerUnknown(p)
  \/ MarkSent(p) \/ MarkFailed(p) \/ CloseCycle(p)

(* The process dies at any point; a request already at the daemon may still *)
(* be taken.                                                                *)
Crash(p) ==
  LET c == job[p].cycle
  IN /\ pc[p] # "idle"
     /\ Fault("crash")
     /\ IF pc[p] = "send"
        THEN \E w \in Wallets : Current(p, w) /\ MaybeAccept(c, w, PlanAmount(c, w, job[p].cap))
        ELSE UNCHANGED walletVars
     /\ Exit(p)
     /\ UNCHANGED storeVars

(* Between runs a person looks at the wallet and writes into the audit row  *)
(* what became of an instruction left in "sending", with or without copying *)
(* the transaction id.                                                      *)
Resolve(c, w) ==
  /\ state[c][w] = "sending"
  /\ \A p \in Procs : pc[p] = "idle"
  /\ \/ spends[c][w] > 0 /\ state' = [state EXCEPT ![c][w] = "sent"]
                         /\ \E known \in BOOLEAN : tx' = [tx EXCEPT ![c][w] = known]
     \/ spends[c][w] = 0 /\ state' = [state EXCEPT ![c][w] = "failed"] /\ UNCHANGED tx
  /\ UNCHANGED <<cycleState, amount, walletVars, runVars, faults>>

--------------------------------------------------------------------------------

CoreTypeOK ==
  /\ cycleState \in [Cycles -> CycleStates]
  /\ state \in [Cycles -> [Wallets -> InstructionStates]]
  /\ amount \in [Cycles -> [Wallets -> Nat]]
  /\ tx \in [Cycles -> [Wallets -> BOOLEAN]]
  /\ balance \in Nat
  /\ spends \in [Cycles -> [Wallets -> Nat]]
  /\ pc \in [Procs -> Labels]
  /\ job \in [Procs -> Jobs \union {NoJob}]
  /\ bal \in [Procs -> Nat \union {Unknown}]
  /\ blocked \in [Procs -> BOOLEAN]
  /\ todo \in [Procs -> SUBSET Wallets]
  /\ attempt \in [Procs -> 0..MaxAttempts]
  /\ outcome \in [Procs -> {"ok", "failed", "halted"}]
  /\ faults \in 0..MaxFaults
  /\ \A p \in Procs : pc[p] # "idle" => job[p] \in Jobs
  /\ \A p \in Procs : pc[p] = "mark" => attempt[p] < MaxAttempts

================================================================================

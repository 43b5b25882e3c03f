------------------------------- MODULE Allocation -------------------------------
(****************************************************************************)
(* `python -m orchard_chia.allocation`: the payout by mean uptime.  A cycle *)
(* collects the fleet's uptime from the oracle, splits the budget with the  *)
(* engine and hands the plan to the spending core, all of it under the run  *)
(* lock; the scheduler (`serve`) does so again and again.                   *)
(*                                                                          *)
(* A cycle is named by the moment it ran: its period ends "now", so cycles  *)
(* are numbered by the clock and the fleet is a function of the cycle.      *)
(****************************************************************************)
EXTENDS SpendExecutor, Shares

CONSTANTS
  Fleet,      \* Fleet[c]: the Trees as the oracle reports them at time c
  Budget,     \* budget_mojos
  Period,     \* period_hours
  StaleAfter, \* stale_after_hours
  MinUptime,  \* min_uptime_bp
  Samples,    \* collections of records to try the engine on
  Free,       \* there is no lock file
  Orphan,     \* the lock file is that of a process that has died
  NoWallet,   \* the wallet of a Tree whose address the oracle does not show
  Never       \* the age of the last reading of a Tree that sent none

VARIABLES
  clock,    \* the time of the next cycle
  paused,   \* whether the pause file exists
  command,  \* command[p]: what process p was started as, Off if it is not
  lock      \* whose lock file there is, Free if there is none

service == <<clock, paused, command, lock>>
vars == <<coreVars, service>>

(* A Tree as /nodes and /uptime show it: hours are those of the whole       *)
(* season, age is that of the last reading in hours, and answers says       *)
(* whether /uptime answered.                                                *)
Trees == [tree: Nat, wallet: Wallets \union {NoWallet}, hours: Nat,
          age: Nat \union {Never}, answers: BOOLEAN]

ASSUME ServiceAssumption ==
  /\ Cycles \subseteq Nat /\ IsFiniteSet(Cycles) /\ IsFiniteSet(Wallets)
  /\ Fleet \in [Cycles -> SUBSET Trees] /\ \A c \in Cycles : IsFiniteSet(Fleet[c])
  /\ Budget \in Nat /\ Period \in Nat \ {0} /\ StaleAfter \in Nat
  /\ MinUptime \in 0..BasisPointsFull
  /\ NoWallet \notin Nat /\ Never \notin Nat /\ {Free, Orphan} \cap Procs = {} /\ Free # Orphan

ASSUME SamplesAssumption ==
  \A records \in Samples :
    IsFiniteSet(records) /\ \A r \in records : r.wallet \in Nat /\ r.uptime \in Nat

(* Settings.validate refuses a ceiling below the budget.                    *)
ASSUME CeilingAssumption == MaxPerCycle >= Budget

(****************************************************************************)
(* The collector.                                                           *)
(****************************************************************************)

(* Uptime as a share of the period, capped at all of it.                    *)
UptimeOf(t) ==
  LET capped == IF t.hours < Period THEN t.hours ELSE Period
  IN (capped * BasisPointsFull) \div Period

IsEligible(t) == /\ t.age # Never
                 /\ t.age <= StaleAfter
                 /\ UptimeOf(t) >= MinUptime

(* A Tree without a visible wallet or without an answer about its uptime is *)
(* skipped; one that is stale or below the floor is kept, not eligible.     *)
Collect(fleet) ==
  {[tree |-> t.tree, wallet |-> t.wallet, uptime |-> UptimeOf(t), eligible |-> IsEligible(t)] :
     t \in {u \in fleet : u.wallet # NoWallet /\ u.answers}}

AllocatedTo(fleet) ==
  LET given == Allocate(Collect(fleet), Budget)
  IN [w \in Wallets |-> IF w \in DOMAIN given THEN given[w] ELSE 0]

ASSUME EngineAssumption == Allocated = [c \in Cycles |-> AllocatedTo(Fleet[c])]

(****************************************************************************)
(* The command.                                                             *)
(****************************************************************************)

Off == [kind |-> "off", live |-> FALSE, cap |-> 1]
Commands == [kind: {"run", "serve"}, live: BOOLEAN, cap: Caps]

Init ==
  /\ CoreInit
  /\ clock = 1
  /\ paused = FALSE
  /\ command = [p \in Procs |-> Off]
  /\ lock = Free

(* main: a live command has been acknowledged twice, `report` is a dry run. *)
Start(p, cmd) ==
  /\ command[p] = Off
  /\ command' = [command EXCEPT ![p] = cmd]
  /\ UNCHANGED <<coreVars, clock, paused, lock>>

(* `pause` and `resume` write and remove the pause file.                    *)
Pause == paused' = TRUE /\ UNCHANGED <<coreVars, clock, command, lock>>
Resume == paused' = FALSE /\ UNCHANGED <<coreVars, clock, command, lock>>

(* `run` returns, and the scheduler sleeps until the next cycle unless the  *)
(* report names a reason to halt.                                           *)
Return(p, halted) ==
  /\ Exit(p)
  /\ command' = [command EXCEPT ![p] = IF command[p].kind = "serve" /\ ~halted
                                       THEN command[p] ELSE Off]

(* The cycle is over and releases the lock.                                 *)
EndCycle(p, halted) == Return(p, halted) /\ lock' = Free

LockFree == lock = Free

(* Variation: the lock is taken whoever holds it.                           *)
WrongBeginCycle(p) ==
  /\ command[p] # Off /\ pc[p] = "idle"
  /\ clock \in Cycles
  /\ clock' = clock + 1 /\ lock' = p
  /\ job' = [job EXCEPT ![p] = [cycle |-> clock, live |-> command[p].live, cap |-> command[p].cap]]
  /\ Goto(p, "check")
  /\ UNCHANGED <<storeVars, walletVars, bal, blocked, todo, attempt, outcome, faults, paused, command>>

(* run_cycle names its cycle by the time and takes the lock.                *)
BeginCycle(p) ==
  /\ command[p] # Off /\ pc[p] = "idle"
  /\ clock \in Cycles
  /\ LockFree
  /\ clock' = clock + 1 /\ lock' = p
  /\ job' = [job EXCEPT ![p] = [cycle |-> clock, live |-> command[p].live, cap |-> command[p].cap]]
  /\ Goto(p, "check")
  /\ UNCHANGED <<storeVars, walletVars, bal, blocked, todo, attempt, outcome, faults, paused, command>>

(* The lock is held, by a process or by what a dead one left: LockBusy ends *)
(* `run`, the scheduler tries again later.                                  *)
LockHeld(p) ==
  /\ command[p] # Off /\ pc[p] = "idle"
  /\ ~LockFree
  /\ Return(p, FALSE)
  /\ UNCHANGED <<storeVars, walletVars, faults, clock, paused, lock>>

(* No age breaks this lock: the operator deletes a dead holder's file.      *)
ClearLock ==
  /\ lock = Orphan
  /\ lock' = Free
  /\ UNCHANGED <<coreVars, clock, paused, command>>

(* The oracle answers, or CollectorError ends the cycle.                    *)
CollectFleet(p) ==
  /\ pc[p] = "check"
  /\ \/ Goto(p, "balance") /\ UNCHANGED <<planVars, todo, attempt, outcome, command, lock>>
     \/ EndCycle(p, FALSE)
  /\ UNCHANGED <<storeVars, walletVars, faults, clock, paused>>

PlanAndPersist(p) ==
  /\ ReadBalance(p, "plan") \/ Plan(p, paused) \/ OpenCycle(p) \/ PutInstruction(p)
  /\ UNCHANGED service

(* execute: a blocked plan is reported as a halt.                           *)
Refuse(p) ==
  /\ pc[p] = "gate" /\ blocked[p]
  /\ EndCycle(p, TRUE)
  /\ UNCHANGED <<storeVars, walletVars, faults, clock, paused>>

DryRun(p) ==
  /\ pc[p] = "gate" /\ ~blocked[p] /\ ~job[p].live
  /\ cycleState' = [cycleState EXCEPT ![job[p].cycle] = "dry-run"]
  /\ EndCycle(p, FALSE)
  /\ UNCHANGED <<state, amount, tx, walletVars, faults, clock, paused>>

GoLive(p) ==
  /\ pc[p] = "gate" /\ ~blocked[p] /\ job[p].live
  /\ Goto(p, "begin")
  /\ UNCHANGED <<storeVars, walletVars, planVars, todo, attempt, outcome, faults, service>>

ExecutePlan(p) == Execute(p) /\ UNCHANGED service

Report(p) ==
  /\ pc[p] = "report"
  /\ EndCycle(p, outcome[p] = "halted")
  /\ UNCHANGED <<storeVars, walletVars, faults, clock, paused>>

(* The process dies inside its cycle, and its lock file stays.              *)
Die(p) ==
  /\ Crash(p)
  /\ command' = [command EXCEPT ![p] = Off]
  /\ lock' = Orphan
  /\ UNCHANGED <<clock, paused>>

RunCycle(p) == CollectFleet(p) \/ PlanAndPersist(p) \/ Refuse(p) \/ DryRun(p)
               \/ GoLive(p) \/ ExecutePlan(p) \/ Report(p)

Next ==
  \/ \E p \in Procs, cmd \in Commands : Start(p, cmd)
  \/ Pause \/ Resume \/ ClearLock
  \/ \E p \in Procs : BeginCycle(p) \/ LockHeld(p) \/ RunCycle(p) \/ Die(p)
  \/ \E c \in Cycles, w \in Wallets : Resolve(c, w) /\ UNCHANGED service

Spec == Init /\ [][Next]_vars

(* A process that is inside a cycle goes on with it.                        *)
FairSpec == Spec /\ \A p \in Procs : WF_vars(RunCycle(p))

--------------------------------------------------------------------------------

(* The state is well typed, and cycles are begun in the order of time.      *)
TypeOK ==
  /\ CoreTypeOK
  /\ clock \in Nat
  /\ paused \in BOOLEAN
  /\ command \in [Procs -> Commands \union {Off}]
  /\ lock \in Procs \union {Free, Orphan}
  /\ \A p \in Procs : pc[p] # "idle" => command[p] # Off /\ job[p].cycle < clock

Recorded(states) ==
  LET rows == {r \in Cycles \X Wallets : state[r[1]][r[2]] \in states}
  IN SumFunctionOnSet([r \in rows |-> amount[r[1]][r[2]]], rows)

(* What left the wallet is what the audit store accounts for: at least the  *)
(* rows called sent, at most those and the ones in doubt, over all cycles,  *)
(* commands and crashes (executor.execute, audit.in_flight).                *)
SpendingIsRecorded ==
  /\ InitialBalance - balance >= Recorded({"sent"})
  /\ InitialBalance - balance <= Recorded({"sent", "sending"})

(* While the fate of one instruction is open, no other is handed to the     *)
(* wallet, by this process or another: the in-flight check of the planner   *)
(* is worth something only because the lock spans it and the spend          *)
(* (service.run_cycle).                                                     *)
OneInDoubt ==
  \A p \in Procs : pc[p] \in {"mark", "send"} =>
    \A c \in Cycles, w \in Wallets :
      state[c][w] = "sending" => c = job[p].cycle /\ Current(p, w)

(* Whatever collection a cycle under way is going to hand to the engine,    *)
(* and whatever the budget, the split is an apportionment (engine.allocate  *)
(* and its list of guarantees).                                             *)
Unfair == {records \in Samples :
  \E budget \in 0..Budget : ~Apportions(Allocate(records, budget), records, budget)}
SharesAreFair == \A p \in Procs : pc[p] = "check" => Unfair = {}

(* Every cycle that was begun ends, each instruction being tried a bounded  *)
(* number of times, and no process keeps the lock: the end of the cycle     *)
(* gives it back, whatever its outcome.  One that dies leaves its file, and *)
(* all later cycles are refused until the operator has deleted that         *)
(* (executor.execute's two loops; lock.RunLock).                            *)
CyclesEnd ==
  /\ \A p \in Procs : pc[p] # "idle" ~> pc[p] = "idle"
  /\ \A p \in Procs : lock = p ~> lock # p

(* "A HALT does stop it, because a halt means we do not know whether money  *)
(* moved" (service.run_scheduler): the scheduler leaves its loop only when  *)
(* the fate of some instruction is unknown.  It is not so: a blocked plan   *)
(* is reported as a halt whatever blocked it (executor.py:154-157).         *)
StopsOnlyInDoubt ==
  [][\A p \in Procs : command[p].kind = "serve" /\ command'[p] = Off /\ pc[p] = "gate"
       => InFlight]_vars

(* "Two runs over the same period ... must collide" (audit.cycle_id_for):   *)
(* of two cycles whose periods overlap, one pays.  It is not so: a period   *)
(* ends when the cycle runs, so no two cycles are of the same period.       *)
PaidOncePerPeriod ==
  \A c, d \in Cycles : c < d /\ d < c + Period =>
    \A w \in Wallets : spends[c][w] = 0 \/ spends[d][w] = 0

================================================================================

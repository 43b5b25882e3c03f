----------------------------- MODULE PaymentProofs -----------------------------
(****************************************************************************)
(* Paying a settled day, for any days, wallets, allocations and limits and  *)
(* any number of faults.                                                    *)
(****************************************************************************)
EXTENDS Payment, TLAPS

LEMMA CurrentIsUnique ==
  ASSUME NEW p, todo[p] \subseteq Wallets, NEW v, NEW w, Current(p, v), Current(p, w)
  PROVE  v = w
<1>1. v \in Nat /\ w \in Nat
  BY DataAssumption DEF Current
<1>2. v <= w /\ w <= v
  BY DEF Current
<1> QED BY <1>1, <1>2

LEMMA PlanAmountIsPositive ==
  ASSUME NEW j \in Jobs, NEW w \in Instructed(j.cycle)
  PROVE  PlanAmount(j.cycle, w, j.cap) \in Nat \ {0}
<1>1. j.cycle \in Cycles /\ j.cap \in Nat \ {0} /\ w \in Wallets
  BY LimitsAssumption DEF Jobs, Instructed
<1>2. Allocated[j.cycle][w] \in Nat /\ Allocated[j.cycle][w] > 0
  BY <1>1, DataAssumption DEF Instructed
<1> QED BY <1>1, <1>2 DEF PlanAmount

LEMMA AmountType ==
  ASSUME NEW j \in Jobs, NEW w \in Wallets
  PROVE  PlanAmount(j.cycle, w, j.cap) \in Nat
<1>1. j.cycle \in Cycles /\ j.cap \in Nat
  BY LimitsAssumption DEF Jobs
<1>2. Allocated[j.cycle][w] \in Nat
  BY <1>1, DataAssumption
<1> QED BY <1>1, <1>2 DEF PlanAmount

(* One cell of a table of rows changes.                                     *)
LEMMA UpdateType ==
  ASSUME NEW S, NEW T, NEW V, NEW f \in [S -> [T -> V]], NEW s \in S, NEW t \in T, NEW v \in V
  PROVE  [f EXCEPT ![s][t] = v] \in [S -> [T -> V]]
  OBVIOUS

LEMMA LabelsListed ==
  /\ "idle" \in Labels /\ "balance" \in Labels /\ "check" \in Labels /\ "plan" \in Labels
  /\ "open" \in Labels /\ "put" \in Labels /\ "gate" \in Labels /\ "begin" \in Labels
  /\ "next" \in Labels /\ "skip" \in Labels /\ "mark" \in Labels /\ "send" \in Labels
  /\ "sent" \in Labels /\ "fail" \in Labels /\ "close" \in Labels /\ "report" \in Labels
  BY DEF Labels

LEMMA StatesListed ==
  /\ "planned" \in InstructionStates /\ "sending" \in InstructionStates
  /\ "sent" \in InstructionStates /\ "failed" \in InstructionStates
  /\ "skipped" \in InstructionStates
  BY DEF InstructionStates

LEMMA AcceptType ==
  ASSUME TypeOK, NEW p \in Procs, pc[p] # "idle", NEW w \in Wallets,
         MaybeAccept(job[p].cycle, w, PlanAmount(job[p].cycle, w, job[p].cap))
  PROVE  balance' \in Nat /\ spends' \in [Cycles -> [Wallets -> Nat]]
<1>1. job[p] \in Jobs /\ job[p].cycle \in Cycles
  BY DEF TypeOK, CoreTypeOK, Jobs
<1>2. PlanAmount(job[p].cycle, w, job[p].cap) \in Nat
  BY <1>1, AmountType
<1>3. balance \in Nat /\ spends \in [Cycles -> [Wallets -> Nat]]
  BY DEF TypeOK, CoreTypeOK
<1>4. CASE UNCHANGED walletVars
  BY <1>3, <1>4 DEF walletVars
<1>5. CASE Accept(job[p].cycle, w, PlanAmount(job[p].cycle, w, job[p].cap))
  <2> DEFINE c == job[p].cycle
  <2>1. spends[c][w] + 1 \in Nat
    BY <1>1, <1>3
  <2>2. spends' = [spends EXCEPT ![c][w] = spends[c][w] + 1]
    BY <1>5 DEF Accept
  <2>3. spends' \in [Cycles -> [Wallets -> Nat]]
    BY <1>1, <1>3, <2>1, <2>2, UpdateType
  <2>4. balance' \in Nat
    BY <1>2, <1>3, <1>5 DEF Accept
  <2> QED BY <2>3, <2>4
<1> QED BY <1>4, <1>5 DEF MaybeAccept

(* Every reachable state is well typed.                                     *)
LEMMA TypeInit == Init => TypeOK
  BY LimitsAssumption, FaultsAssumption
     DEF Init, CoreInit, TypeOK, CoreTypeOK, CycleStates, InstructionStates, Labels, Days

LEMMA TypeNext == TypeOK /\ [Next]_vars => TypeOK'
<1> SUFFICES ASSUME TypeOK, [Next]_vars PROVE TypeOK'
  OBVIOUS
<1> USE LabelsListed, StatesListed
    DEF TypeOK, CoreTypeOK, Days, Goto, storeVars, walletVars, planVars, runVars
<1>1. ASSUME NEW d \in Days, Settle(d) PROVE TypeOK'
  BY <1>1 DEF Settle, coreVars
<1>2. ASSUME NEW p \in Procs, NEW d \in Days, NEW live \in BOOLEAN, NEW cap \in Caps,
             StartPay(p, d, live, cap)
      PROVE  TypeOK'
  <2> DEFINE j == [cycle |-> d, live |-> live, cap |-> cap]
  <2>1. j \in Jobs
    BY DEF Jobs
  <2>2. /\ pc' = [pc EXCEPT ![p] = "balance"]
        /\ job' = [job EXCEPT ![p] = j]
        /\ UNCHANGED <<storeVars, walletVars, bal, blocked, todo, attempt, outcome, faults, ledger>>
    BY <1>2 DEF StartPay
  <2> HIDE DEF j
  <2> QED BY <2>1, <2>2
<1>3. ASSUME NEW p \in Procs, Exit(p), UNCHANGED storeVars,
             balance' \in Nat, spends' \in [Cycles -> [Wallets -> Nat]],
             faults' \in 0..MaxFaults, ledger' \in [Days -> {"open", "settled", "paid"}]
      PROVE  TypeOK'
  <2>1. /\ pc' = [pc EXCEPT ![p] = "idle"] /\ pc' \in [Procs -> Labels]
        /\ job' = [job EXCEPT ![p] = NoJob] /\ job' \in [Procs -> Jobs \union {NoJob}]
        /\ attempt' = [attempt EXCEPT ![p] = 0] /\ attempt' \in [Procs -> 0..MaxAttempts]
    BY <1>3, LimitsAssumption DEF Exit
  <2>2. /\ bal' \in [Procs -> Nat \union {Unknown}]
        /\ blocked' \in [Procs -> BOOLEAN]
        /\ todo' \in [Procs -> SUBSET Wallets]
        /\ outcome' \in [Procs -> {"ok", "failed", "halted"}]
    BY <1>3 DEF Exit
  <2>3. \A q \in Procs : /\ pc'[q] # "idle" => job'[q] \in Jobs
                        /\ pc'[q] = "mark" => attempt'[q] < MaxAttempts
    BY <2>1
  <2> QED BY <1>3, <2>1, <2>2, <2>3
<1>4. ASSUME NEW p \in Procs, AskBalance(p) PROVE TypeOK'
  BY <1>4 DEF AskBalance, ReadBalance
<1>5. ASSUME NEW p \in Procs, CheckDay(p) PROVE TypeOK'
  <2>1. CASE Exit(p)
    BY <1>3, <1>5, <2>1 DEF CheckDay
  <2>2. CASE ~Exit(p)
    BY <1>5, <2>2 DEF CheckDay
  <2> QED BY <2>1, <2>2
<1>6. ASSUME NEW p \in Procs, Plan(p, FALSE), UNCHANGED ledger PROVE TypeOK'
  <2> DEFINE b == \/ FALSE \/ InFlight \/ HasSent(job[p].cycle)
                  \/ OverCycleMaximum(job[p].cycle, job[p].cap)
                  \/ ShortOfBalance(job[p].cycle, job[p].cap, bal[p])
  <2>1. b \in BOOLEAN
    OBVIOUS
  <2>2. blocked' = [blocked EXCEPT ![p] = b]
    BY <1>6 DEF Plan
  <2> HIDE DEF b
  <2>3. blocked' \in [Procs -> BOOLEAN]
    BY <2>1, <2>2
  <2> QED BY <1>6, <2>3 DEF Plan
<1>7. ASSUME NEW p \in Procs, OpenCycle(p), UNCHANGED ledger PROVE TypeOK'
  BY <1>7 DEF OpenCycle, Instructed, Jobs, CycleStates
<1>8. ASSUME NEW p \in Procs, PutInstruction(p), UNCHANGED ledger PROVE TypeOK'
  <2>1. PICK w \in Wallets :
          /\ \/ /\ state' = [state EXCEPT ![job[p].cycle][w] = "planned"]
                /\ amount' = [amount EXCEPT ![job[p].cycle][w] =
                                PlanAmount(job[p].cycle, w, job[p].cap)]
             \/ UNCHANGED <<state, amount>>
          /\ todo' = [todo EXCEPT ![p] = @ \ {w}]
          /\ pc' = [pc EXCEPT ![p] = IF todo[p] = {w} THEN "gate" ELSE "put"]
    BY <1>8 DEF PutInstruction
  <2>2. job[p] \in Jobs /\ job[p].cycle \in Cycles
    BY <1>8 DEF PutInstruction, Jobs
  <2>3. PlanAmount(job[p].cycle, w, job[p].cap) \in Nat
    BY <2>2, AmountType
  <2>4. /\ state' \in [Cycles -> [Wallets -> InstructionStates]]
        /\ amount' \in [Cycles -> [Wallets -> Nat]]
    <3>1. CASE UNCHANGED <<state, amount>>
      BY <3>1
    <3>2. CASE ~ UNCHANGED <<state, amount>>
      <4>1. /\ state' = [state EXCEPT ![job[p].cycle][w] = "planned"]
            /\ amount' = [amount EXCEPT ![job[p].cycle][w] =
                            PlanAmount(job[p].cycle, w, job[p].cap)]
        BY <2>1, <3>2
      <4> QED BY <2>2, <2>3, <4>1, UpdateType
    <3> QED BY <3>1, <3>2
  <2> QED BY <1>8, <2>1, <2>4 DEF PutInstruction
<1>9. ASSUME NEW p \in Procs, Heal(p) PROVE TypeOK'
  BY <1>3, <1>9 DEF Heal, MarkPaid
<1>10. ASSUME NEW p \in Procs, Stop(p) PROVE TypeOK'
  BY <1>3, <1>10 DEF Stop
<1>11. ASSUME NEW p \in Procs, GoLive(p) PROVE TypeOK'
  BY <1>11 DEF GoLive
<1>12. ASSUME NEW p \in Procs, ExecuteDay(p) PROVE TypeOK'
  <2>1. CASE BeginSending(p)
    BY <1>12, <2>1 DEF ExecuteDay, BeginSending, Instructed, Jobs, CycleStates
  <2>2. CASE NextInstruction(p)
    <3>1. pc' \in [Procs -> Labels] /\ \A q \in Procs : q # p => pc'[q] = pc[q]
      BY <2>2 DEF NextInstruction
    <3>2. attempt' = [attempt EXCEPT ![p] = 0] /\ attempt' \in [Procs -> 0..MaxAttempts]
      BY <2>2, LimitsAssumption DEF NextInstruction
    <3>3. \A q \in Procs : /\ pc'[q] # "idle" => job[q] \in Jobs
                          /\ pc'[q] = "mark" => attempt'[q] < MaxAttempts
      BY <2>2, <3>1, <3>2, LimitsAssumption DEF NextInstruction
    <3> QED BY <1>12, <2>2, <3>1, <3>2, <3>3 DEF ExecuteDay, NextInstruction
  <2>3. CASE MarkSkipped(p)
    BY <1>12, <2>3 DEF ExecuteDay, MarkSkipped, Jobs
  <2>4. CASE MarkSending(p)
    <3>1. PICK w \in Wallets : state' = [state EXCEPT ![job[p].cycle][w] = "sending"]
      BY <2>4 DEF MarkSending
    <3>2. job[p].cycle \in Cycles
      BY <2>4 DEF MarkSending, Jobs
    <3>3. state' \in [Cycles -> [Wallets -> InstructionStates]]
      BY <3>1, <3>2, UpdateType
    <3>4. attempt' \in [Procs -> 0..MaxAttempts]
      BY <2>4, LimitsAssumption DEF MarkSending
    <3> QED BY <1>12, <2>4, <3>3, <3>4 DEF ExecuteDay, MarkSending
  <2>5. CASE WalletAccepts(p)
    BY <1>12, <2>5, AmountType DEF ExecuteDay, WalletAccepts, Accept, Jobs
  <2>6. CASE WalletRejects(p)
    BY <1>12, <2>6, FaultsAssumption DEF ExecuteDay, WalletRejects, RetryOrFail, Fault
  <2>7. CASE WalletAnswerLost(p)
    BY <1>12, <2>7, AmountType, FaultsAssumption
       DEF ExecuteDay, WalletAnswerLost, Accept, RetryOrFail, Fault, Jobs
  <2>8. CASE WalletAnswerUnknown(p)
    <3>1. balance' \in Nat /\ spends' \in [Cycles -> [Wallets -> Nat]]
      BY <2>8, AcceptType DEF WalletAnswerUnknown
    <3> QED BY <1>12, <2>8, <3>1, FaultsAssumption DEF ExecuteDay, WalletAnswerUnknown, Fault
  <2>9. CASE MarkSent(p)
    BY <1>12, <2>9 DEF ExecuteDay, MarkSent, Jobs
  <2>10. CASE MarkFailed(p)
    BY <1>12, <2>10 DEF ExecuteDay, MarkFailed, Jobs
  <2>11. CASE CloseCycle(p)
    BY <1>12, <2>11 DEF ExecuteDay, CloseCycle, Jobs, CycleStates
  <2> QED BY <1>12, <2>1, <2>2, <2>3, <2>4, <2>5, <2>6, <2>7, <2>8, <2>9, <2>10, <2>11
          DEF ExecuteDay, Execute
<1>13. ASSUME NEW p \in Procs, Report(p) PROVE TypeOK'
  BY <1>3, <1>13 DEF Report, MarkPaid
<1>14. ASSUME NEW p \in Procs, Crash(p), UNCHANGED ledger PROVE TypeOK'
  <2>1. balance' \in Nat /\ spends' \in [Cycles -> [Wallets -> Nat]]
    BY <1>14, AcceptType DEF Crash
  <2>2. faults' \in 0..MaxFaults /\ UNCHANGED storeVars /\ Exit(p)
    BY <1>14, FaultsAssumption DEF Crash, Fault
  <2> QED BY <1>3, <1>14, <2>1, <2>2
<1>15. ASSUME NEW d \in Days, NEW w \in Wallets, Resolve(d, w), UNCHANGED ledger PROVE TypeOK'
  <2>1. state' \in [Cycles -> [Wallets -> InstructionStates]]
    <3>1. PICK s \in {"sent", "failed"} : state' = [state EXCEPT ![d][w] = s]
      BY <1>15 DEF Resolve
    <3> QED BY <3>1, UpdateType
  <2>2. tx' \in [Cycles -> [Wallets -> BOOLEAN]]
    <3>1. UNCHANGED tx \/ \E known \in BOOLEAN : tx' = [tx EXCEPT ![d][w] = known]
      BY <1>15 DEF Resolve
    <3>2. ASSUME NEW known \in BOOLEAN, tx' = [tx EXCEPT ![d][w] = known]
          PROVE  tx' \in [Cycles -> [Wallets -> BOOLEAN]]
      BY <3>2
    <3> QED BY <3>1, <3>2
  <2> QED BY <1>15, <2>1, <2>2 DEF Resolve
<1>16. CASE UNCHANGED vars
  BY <1>16 DEF vars, coreVars
<1> QED
  BY <1>1, <1>2, <1>4, <1>5, <1>6, <1>7, <1>8, <1>9, <1>10, <1>11, <1>12, <1>13, <1>14,
     <1>15, <1>16
     DEF Next, Run, PlanAndPersist

(* The state of a payment (runner.py:487-695) is of the types TypeOK gives.  *)
THEOREM TypeCorrect == Spec => []TypeOK
<1>1. Init => TypeOK
  BY TypeInit
<1>2. TypeOK /\ [Next]_vars => TypeOK'
  BY TypeNext
<1> QED BY <1>1, <1>2, PTL DEF Spec
--------------------------------------------------------------------------------
(****************************************************************************)
(* At most once.  What the callers and the wallet have to grant: one payer  *)
(* at a time, and no spend whose answer is lost.                            *)
(****************************************************************************)
Discipline == Exclusive /\ "lost" \notin FaultKinds

(* One run at most is under way.                                            *)
OneRun == \A p, q \in Procs : pc[p] # "idle" /\ pc[q] # "idle" => p = q

(* What a row says of the money, and what its existence implies.            *)
RowTrue(d, w) ==
  /\ spends[d][w] \in {0, 1}
  /\ state[d][w] = "sent" => spends[d][w] = 1
  /\ state[d][w] \in {"none", "planned", "failed"} => spends[d][w] = 0
  /\ state[d][w] # "skipped"
  /\ state[d][w] # "none" => cycleState[d] # "none" /\ amount[d][w] > 0

Loop == {"next", "mark", "send", "sent", "fail"}

(* A plan that is not blocked was made with nothing paid, and nothing is    *)
(* paid until its own run does; every instruction gets a row.               *)
PlanTrue(p) ==
  LET c == job[p].cycle
  IN /\ pc[p] \in Labels \ {"idle", "balance", "check"} => ledger[c] = "settled"
     /\ pc[p] \in {"put", "gate"} => cycleState[c] # "none"
     /\ pc[p] = "put" => todo[p] \subseteq Instructed(c)
     /\ pc[p] = "put" => \A w \in Instructed(c) \ todo[p] : state[c][w] # "none"
     /\ pc[p] = "gate" => \A w \in Instructed(c) : state[c][w] # "none"
     /\ pc[p] \in {"open", "put", "gate"} /\ ~blocked[p] =>
          \A w \in Wallets : state[c][w] \notin Paid
     /\ pc[p] = "begin" =>
          /\ cycleState[c] # "none"
          /\ \A w \in Wallets : state[c][w] \notin Paid
          /\ \A w \in Instructed(c) : state[c][w] # "none"

(* Inside the loop nothing ahead of the run is paid, everything behind it   *)
(* is sent unless it failed, and it knows where its own instruction stands. *)
LoopTrue(p) ==
  LET c == job[p].cycle
  IN /\ pc[p] # "skip"
     /\ pc[p] \in Loop =>
          /\ cycleState[c] # "none"
          /\ todo[p] \subseteq Instructed(c)
          /\ \A w \in Instructed(c) : state[c][w] # "none"
          /\ outcome[p] = "ok" => \A w \in Instructed(c) \ todo[p] : state[c][w] = "sent"
          /\ \A w \in todo[p] : pc[p] = "next" \/ ~Current(p, w) => state[c][w] \notin Paid
     /\ pc[p] \in {"mark", "send", "fail"} => \A w \in todo[p] : Current(p, w) => spends[c][w] = 0
     /\ pc[p] = "sent" => \A w \in todo[p] : Current(p, w) => spends[c][w] = 1
     /\ pc[p] \in {"send", "sent", "fail"} =>
          \A w \in todo[p] : Current(p, w) => state[c][w] = "sending"
     /\ pc[p] \in {"close", "report"} /\ outcome[p] = "ok" =>
          \A w \in Instructed(c) : state[c][w] = "sent"

LedgerTrue(d) == ledger[d] = "paid" => \A w \in Owes(d) : spends[d][w] = 1

IInv ==
  /\ TypeOK
  /\ OneRun
  /\ \A d \in Days, w \in Wallets : RowTrue(d, w)
  /\ \A p \in Procs : PlanTrue(p) /\ LoopTrue(p)
  /\ \A d \in Days : LedgerTrue(d)

LEMMA UpdateAt ==
  ASSUME NEW S, NEW T, NEW V, NEW f \in [S -> [T -> V]], NEW s \in S, NEW t \in T, NEW x
  PROVE  \A d \in S, v \in T :
           [f EXCEPT ![s][t] = x][d][v] = IF d = s /\ v = t THEN x ELSE f[d][v]
  OBVIOUS

(* A process that is idle has nothing to be true to.                        *)
LEMMA IdleTrue ==
  ASSUME NEW p \in Procs, pc[p] = "idle"
  PROVE  PlanTrue(p) /\ LoopTrue(p)
  BY DEF PlanTrue, LoopTrue, Loop

(* While one run is under way the others are idle, so that a step of it has *)
(* only itself, the rows and the ledger to answer for.                      *)
LEMMA OneAtATime ==
  ASSUME IInv, TypeOK', NEW p \in Procs, pc[p] # "idle",
         \A q \in Procs \ {p} : pc'[q] = pc[q],
         \A d \in Days, w \in Wallets : RowTrue(d, w)',
         PlanTrue(p)', LoopTrue(p)',
         \A d \in Days : LedgerTrue(d)'
  PROVE  IInv'
<1>1. \A q \in Procs \ {p} : pc'[q] = "idle"
  BY DEF IInv, OneRun
<1>2. OneRun'
  BY <1>1 DEF OneRun
<1>3. ASSUME NEW q \in Procs PROVE PlanTrue(q)' /\ LoopTrue(q)'
  <2>1. CASE q = p
    BY <2>1
  <2>2. CASE q # p
    BY <1>1, <2>2 DEF PlanTrue, LoopTrue, Loop
  <2> QED BY <2>1, <2>2
<1> QED BY <1>2, <1>3 DEF IInv

LEMMA InitInv == Init => IInv
<1> SUFFICES ASSUME Init PROVE IInv
  OBVIOUS
<1>1. TypeOK
  BY TypeInit
<1>2. \A p \in Procs : PlanTrue(p) /\ LoopTrue(p)
  BY IdleTrue DEF Init, CoreInit
<1>3. \A d \in Days, w \in Wallets : RowTrue(d, w)
  BY DEF Init, CoreInit, RowTrue, Days
<1> QED BY <1>1, <1>2, <1>3 DEF IInv, OneRun, LedgerTrue, Init, CoreInit, Days

(* Steps that leave rows, money and ledger alone and end the run.           *)
LEMMA ExitInv ==
  ASSUME IInv, TypeOK', NEW p \in Procs, pc[p] # "idle", Exit(p),
         \A d \in Days, w \in Wallets : RowTrue(d, w)',
         \A d \in Days : LedgerTrue(d)'
  PROVE  IInv'
<1>1. pc'[p] = "idle" /\ \A q \in Procs \ {p} : pc'[q] = pc[q]
  BY DEF Exit, Goto, IInv, TypeOK, CoreTypeOK
<1>2. PlanTrue(p)' /\ LoopTrue(p)'
  BY <1>1 DEF PlanTrue, LoopTrue, Loop
<1> QED BY <1>1, <1>2, OneAtATime

(* The wallet may have taken the spend a run is at, and nothing was written. *)
LEMMA InDoubtInv ==
  ASSUME IInv, NEW p \in Procs, pc[p] = "send", NEW w \in Wallets, Current(p, w),
         MaybeAccept(job[p].cycle, w, PlanAmount(job[p].cycle, w, job[p].cap)),
         UNCHANGED <<storeVars, ledger>>
  PROVE  /\ \A d \in Days, v \in Wallets : RowTrue(d, v)'
         /\ \A d \in Days : LedgerTrue(d)'
<1> DEFINE c == job[p].cycle
<1>1. TypeOK /\ PlanTrue(p) /\ LoopTrue(p)
  BY DEF IInv
<1>2. c \in Days /\ ledger[c] = "settled"
  BY <1>1 DEF TypeOK, CoreTypeOK, Jobs, PlanTrue, Labels, Days
<1>3. state[c][w] = "sending" /\ spends[c][w] = 0
  BY <1>1 DEF LoopTrue, Current
<1>4. \A d \in Days, v \in Wallets : d # c \/ v # w => spends'[d][v] = spends[d][v]
  <2>1. CASE UNCHANGED walletVars
    BY <2>1 DEF walletVars
  <2>2. CASE spends' = [spends EXCEPT ![c][w] = @ + 1]
    BY <1>1, <1>2, <2>2, UpdateAt DEF TypeOK, CoreTypeOK, Days
  <2> QED BY <2>1, <2>2 DEF MaybeAccept, Accept
<1>5. spends'[c][w] \in {0, 1}
  <2>1. CASE UNCHANGED walletVars
    BY <1>3, <2>1 DEF walletVars
  <2>2. CASE spends' = [spends EXCEPT ![c][w] = @ + 1]
    BY <1>1, <1>2, <1>3, <2>2, UpdateAt DEF TypeOK, CoreTypeOK, Days
  <2> QED BY <2>1, <2>2 DEF MaybeAccept, Accept
<1>6. ASSUME NEW d \in Days, NEW v \in Wallets PROVE RowTrue(d, v)'
  <2>1. RowTrue(d, v)
    BY DEF IInv
  <2> QED BY <1>3, <1>4, <1>5, <2>1 DEF RowTrue, storeVars
<1>7. \A d \in Days : LedgerTrue(d)'
  BY <1>2, <1>4 DEF IInv, LedgerTrue, Owes
<1> QED BY <1>6, <1>7

(* Every step of a disciplined system preserves the invariant.              *)
LEMMA NextInv == Discipline /\ IInv /\ [Next]_vars => IInv'
<1> SUFFICES ASSUME Discipline, IInv, [Next]_vars PROVE IInv'
  OBVIOUS
<1>0. TypeOK /\ TypeOK'
  BY TypeNext DEF IInv
<1> USE DEF Days
<1>rows. ASSUME UNCHANGED <<storeVars, walletVars>>
         PROVE  \A d \in Days, w \in Wallets : RowTrue(d, w)'
  BY <1>rows DEF IInv, RowTrue, storeVars, walletVars
<1>books. ASSUME UNCHANGED <<walletVars, ledger>>
          PROVE  \A d \in Days : LedgerTrue(d)'
  BY <1>books DEF IInv, LedgerTrue, walletVars
<1>act. ASSUME NEW p \in Procs, pc[p] # "idle"
        PROVE  job[p] \in Jobs /\ job[p].cycle \in Days
  BY <1>act, <1>0 DEF TypeOK, CoreTypeOK, Jobs
<1>1. ASSUME NEW d \in Days, Settle(d) PROVE IInv'
  <2>1. UNCHANGED coreVars /\ ledger' = [ledger EXCEPT ![d] = "settled"] /\ ledger[d] = "open"
    BY <1>1 DEF Settle
  <2>2. \A e \in Days : LedgerTrue(e)'
    BY <2>1, <1>0 DEF IInv, LedgerTrue, coreVars, walletVars, TypeOK
  <2>3. \A p \in Procs : PlanTrue(p)' /\ LoopTrue(p)'
    <3> SUFFICES ASSUME NEW p \in Procs PROVE PlanTrue(p)' /\ LoopTrue(p)'
      OBVIOUS
    <3>1. UNCHANGED <<pc, job, blocked, todo, outcome, cycleState, state, amount, spends>>
      BY <2>1 DEF coreVars, runVars, storeVars, walletVars
    <3>2. LoopTrue(p)'
      BY <3>1 DEF IInv, LoopTrue, Current
    <3>3. pc[p] \in Labels \ {"idle", "balance", "check"} => ledger'[job[p].cycle] = "settled"
      BY <2>1, <1>0, <1>act DEF IInv, PlanTrue, TypeOK
    <3>4. PlanTrue(p)'
      BY <3>1, <3>3 DEF IInv, PlanTrue
    <3> QED BY <3>2, <3>4
  <2> QED BY <1>0, <1>rows, <2>1, <2>2, <2>3 DEF IInv, OneRun, coreVars, runVars
<1>2. ASSUME NEW p \in Procs, NEW d \in Days, NEW live \in BOOLEAN, NEW cap \in Caps,
             StartPay(p, d, live, cap)
      PROVE  IInv'
  <2>1. /\ pc' = [pc EXCEPT ![p] = "balance"]
        /\ \A q \in Procs : pc[q] = "idle"
        /\ UNCHANGED <<storeVars, walletVars, ledger>>
    BY <1>2 DEF StartPay, MayStart, Discipline, Goto
  <2>2. \A q \in Procs : pc'[q] = IF q = p THEN "balance" ELSE "idle"
    BY <1>0, <2>1 DEF TypeOK, CoreTypeOK
  <2>3. \A q \in Procs : PlanTrue(q)' /\ LoopTrue(q)'
    BY <2>2 DEF PlanTrue, LoopTrue, Loop
  <2> QED BY <1>0, <1>rows, <1>books, <2>1, <2>2, <2>3 DEF IInv, OneRun
<1>3. ASSUME NEW p \in Procs, AskBalance(p) PROVE IInv'
  <2>1. /\ pc[p] = "balance" /\ pc' = [pc EXCEPT ![p] = "check"]
        /\ UNCHANGED <<storeVars, walletVars, ledger>>
    BY <1>3 DEF AskBalance, ReadBalance, Goto
  <2>2. pc'[p] = "check" /\ \A q \in Procs \ {p} : pc'[q] = pc[q]
    BY <1>0, <2>1 DEF TypeOK, CoreTypeOK
  <2>3. PlanTrue(p)' /\ LoopTrue(p)'
    BY <2>2 DEF PlanTrue, LoopTrue, Loop
  <2> QED BY <1>0, <1>rows, <1>books, <2>1, <2>2, <2>3, OneAtATime
<1>4. ASSUME NEW p \in Procs, CheckDay(p) PROVE IInv'
  <2>1. pc[p] = "check" /\ UNCHANGED <<storeVars, walletVars, ledger>>
    BY <1>4 DEF CheckDay
  <2>2. CASE Exit(p)
    BY <1>0, <1>rows, <1>books, <2>1, <2>2, ExitInv
  <2>3. CASE ~Exit(p)
    <3>1. ledger[job[p].cycle] = "settled" /\ pc' = [pc EXCEPT ![p] = "plan"] /\ job' = job
      BY <1>4, <2>3 DEF CheckDay, Goto
    <3>2. pc'[p] = "plan" /\ \A q \in Procs \ {p} : pc'[q] = pc[q]
      BY <1>0, <3>1 DEF TypeOK, CoreTypeOK
    <3>3. PlanTrue(p)' /\ LoopTrue(p)'
      BY <2>1, <3>1, <3>2 DEF PlanTrue, LoopTrue, Loop
    <3> QED BY <1>0, <1>rows, <1>books, <2>1, <3>2, <3>3, OneAtATime
  <2> QED BY <2>2, <2>3
<1>5. ASSUME NEW p \in Procs, Plan(p, FALSE), UNCHANGED ledger PROVE IInv'
  <2> DEFINE c == job[p].cycle
  <2>1. /\ pc[p] = "plan" /\ pc' = [pc EXCEPT ![p] = "open"]
        /\ UNCHANGED <<storeVars, walletVars, job, ledger>>
    BY <1>5 DEF Plan, Goto
  <2>2. pc'[p] = "open" /\ \A q \in Procs \ {p} : pc'[q] = pc[q]
    BY <1>0, <2>1 DEF TypeOK, CoreTypeOK
  <2>3. c \in Days
    BY <1>act, <2>1
  <2>4. ~blocked'[p] => ~InFlight /\ ~HasSent(c)
    BY <1>0, <1>5 DEF Plan, TypeOK, CoreTypeOK
  <2>5. ~blocked'[p] => \A w \in Wallets : state[c][w] \notin Paid
    <3> SUFFICES ASSUME ~blocked'[p], NEW w \in Wallets PROVE state[c][w] \notin Paid
      OBVIOUS
    <3>1. RowTrue(c, w)
      BY <2>3 DEF IInv
    <3>2. state[c][w] # "sending"
      BY <2>3, <2>4 DEF InFlight
    <3>3. state[c][w] # "sent"
      BY <2>4, <3>1 DEF HasSent, RowTrue, Paid
    <3> QED BY <3>2, <3>3 DEF Paid
  <2>6. ledger[c] = "settled"
    BY <2>1 DEF IInv, PlanTrue, Labels
  <2>7. PlanTrue(p)' /\ LoopTrue(p)'
    BY <2>1, <2>2, <2>5, <2>6 DEF PlanTrue, LoopTrue, Loop, storeVars
  <2> QED BY <1>0, <1>rows, <1>books, <2>1, <2>2, <2>7, OneAtATime
<1>6. ASSUME NEW p \in Procs, OpenCycle(p), UNCHANGED ledger PROVE IInv'
  <2> DEFINE c == job[p].cycle
  <2>1. /\ pc[p] = "open"
        /\ pc' = [pc EXCEPT ![p] = IF Instructed(c) = {} THEN "gate" ELSE "put"]
        /\ cycleState' = [cycleState EXCEPT ![c] = "planned"]
        /\ todo' = [todo EXCEPT ![p] = Instructed(c)]
        /\ UNCHANGED <<state, amount, walletVars, job, blocked, ledger>>
    BY <1>6 DEF OpenCycle, Goto, planVars
  <2>2. pc'[p] \in {"gate", "put"} /\ \A q \in Procs \ {p} : pc'[q] = pc[q]
    BY <1>0, <2>1 DEF TypeOK, CoreTypeOK
  <2>3. c \in Days
    BY <1>act, <2>1
  <2>4. cycleState'[c] = "planned" /\ todo'[p] = Instructed(c)
        /\ (pc'[p] = "gate" => Instructed(c) = {})
    BY <1>0, <2>1, <2>3 DEF TypeOK, CoreTypeOK
  <2>5. \A d \in Days, w \in Wallets : RowTrue(d, w)'
    BY <1>0, <2>1, <2>3 DEF IInv, RowTrue, walletVars, TypeOK, CoreTypeOK
  <2>6. ledger[c] = "settled" /\ (~blocked[p] => \A w \in Wallets : state[c][w] \notin Paid)
    BY <2>1 DEF IInv, PlanTrue, Labels
  <2>7. PlanTrue(p)' /\ LoopTrue(p)'
    BY <2>1, <2>2, <2>4, <2>6 DEF PlanTrue, LoopTrue, Loop
  <2> QED BY <1>0, <1>books, <2>1, <2>2, <2>5, <2>7, OneAtATime
<1>7. ASSUME NEW p \in Procs, PutInstruction(p), UNCHANGED ledger PROVE IInv'
  <2> DEFINE c == job[p].cycle
  <2>1. /\ pc[p] = "put"
        /\ UNCHANGED <<cycleState, walletVars, job, blocked, ledger>>
    BY <1>7 DEF PutInstruction, planVars
  <2>2. job[p] \in Jobs /\ c \in Days
    BY <1>act, <2>1
  <2>3. PICK w \in Wallets :
          /\ w \in todo[p]
          /\ \/ /\ state[c][w] = "none"
                /\ state' = [state EXCEPT ![c][w] = "planned"]
                /\ amount' = [amount EXCEPT ![c][w] = PlanAmount(c, w, job[p].cap)]
             \/ state[c][w] # "none" /\ UNCHANGED <<state, amount>>
          /\ todo' = [todo EXCEPT ![p] = @ \ {w}]
          /\ pc' = [pc EXCEPT ![p] = IF todo[p] = {w} THEN "gate" ELSE "put"]
    BY <1>7 DEF PutInstruction, Current, Goto
  <2>4. /\ todo[p] \subseteq Instructed(c) /\ cycleState[c] # "none" /\ ledger[c] = "settled"
        /\ \A v \in Instructed(c) \ todo[p] : state[c][v] # "none"
        /\ ~blocked[p] => \A v \in Wallets : state[c][v] \notin Paid
    BY <2>1 DEF IInv, PlanTrue, Labels
  <2>5. /\ pc'[p] \in {"gate", "put"} /\ (pc'[p] = "gate" => todo[p] = {w})
        /\ todo'[p] = todo[p] \ {w}
        /\ \A q \in Procs \ {p} : pc'[q] = pc[q]
    BY <1>0, <2>3 DEF TypeOK, CoreTypeOK
  <2>6. PlanAmount(c, w, job[p].cap) > 0
    <3>1. job[p] \in Jobs /\ w \in Instructed(job[p].cycle)
      BY <2>2, <2>3, <2>4
    <3>2. PlanAmount(job[p].cycle, w, job[p].cap) \in Nat \ {0}
      BY <3>1, PlanAmountIsPositive
    <3> QED BY <3>2
  <2>7. \A d \in Days, v \in Wallets :
          /\ state'[d][v] = IF d = c /\ v = w /\ state[c][w] = "none" THEN "planned" ELSE state[d][v]
          /\ state'[d][v] # state[d][v] => amount'[d][v] > 0
          /\ state'[d][v] = state[d][v] /\ state[d][v] # "none" => amount'[d][v] = amount[d][v]
    <3>1. CASE UNCHANGED <<state, amount>> /\ state[c][w] # "none"
      BY <3>1
    <3>2. CASE /\ state[c][w] = "none"
               /\ state' = [state EXCEPT ![c][w] = "planned"]
               /\ amount' = [amount EXCEPT ![c][w] = PlanAmount(c, w, job[p].cap)]
      <4>1. /\ \A d \in Days, v \in Wallets :
                 state'[d][v] = IF d = c /\ v = w THEN "planned" ELSE state[d][v]
            /\ \A d \in Days, v \in Wallets :
                 amount'[d][v] = IF d = c /\ v = w THEN PlanAmount(c, w, job[p].cap)
                                                   ELSE amount[d][v]
        BY <1>0, <2>2, <3>2, UpdateAt DEF TypeOK, CoreTypeOK
      <4> QED BY <2>6, <3>2, <4>1
    <3> QED BY <2>3, <3>1, <3>2
  <2>8. ASSUME NEW d \in Days, NEW v \in Wallets PROVE RowTrue(d, v)'
    <3>1. RowTrue(d, v)
      BY DEF IInv
    <3>2. UNCHANGED <<spends, cycleState>>
      BY <2>1 DEF walletVars
    <3> QED BY <2>4, <2>7, <3>1, <3>2 DEF RowTrue
  <2>9. PlanTrue(p)'
    <3>1. UNCHANGED <<job, blocked, cycleState, ledger>>
      BY <2>1
    <3>2. todo[p] \subseteq Wallets
      BY <1>0 DEF TypeOK, CoreTypeOK
    <3>3. \A v \in Instructed(c) \ todo'[p] : state'[c][v] # "none"
      BY <2>2, <2>4, <2>5, <2>7 DEF Instructed
    <3>4. ~blocked[p] => \A v \in Wallets : state'[c][v] \notin Paid
      BY <2>2, <2>4, <2>7 DEF Paid
    <3> QED BY <2>4, <2>5, <3>1, <3>3, <3>4 DEF PlanTrue
  <2>10. LoopTrue(p)'
    BY <2>5 DEF LoopTrue, Loop
  <2> QED BY <1>0, <1>books, <2>1, <2>5, <2>8, <2>9, <2>10, OneAtATime
<1>8. ASSUME NEW p \in Procs, Heal(p) PROVE IInv'
  <2> DEFINE c == job[p].cycle
  <2>1. /\ pc[p] = "gate" /\ FullySent(c) /\ Exit(p)
        /\ ledger' = [ledger EXCEPT ![c] = "paid"]
        /\ UNCHANGED <<storeVars, walletVars>>
    BY <1>8 DEF Heal, MarkPaid
  <2>2. c \in Days
    BY <1>act, <2>1
  <2>3. \A w \in Owes(c) : spends[c][w] = 1
    <3> SUFFICES ASSUME NEW w \in Owes(c) PROVE spends[c][w] = 1
      OBVIOUS
    <3>1. w \in Wallets /\ w \in Instructed(c)
      BY <2>2, DataAssumption, EconomicsLimits DEF Owes, Instructed
    <3>2. state[c][w] # "none"
      BY <2>1, <3>1 DEF IInv, PlanTrue
    <3>3. RowTrue(c, w)
      BY <2>2, <3>1 DEF IInv
    <3> QED BY <2>1, <3>1, <3>2, <3>3 DEF FullySent, RowTrue
  <2>4. \A d \in Days : LedgerTrue(d)'
    BY <1>0, <2>1, <2>3 DEF IInv, LedgerTrue, walletVars, TypeOK
  <2> QED BY <1>0, <1>rows, <2>1, <2>4, ExitInv
<1>9. ASSUME NEW p \in Procs, Stop(p) PROVE IInv'
  BY <1>0, <1>9, <1>rows, <1>books, ExitInv DEF Stop
<1>10. ASSUME NEW p \in Procs, GoLive(p) PROVE IInv'
  <2>1. /\ pc[p] = "gate" /\ ~blocked[p] /\ pc' = [pc EXCEPT ![p] = "begin"]
        /\ UNCHANGED <<storeVars, walletVars, job, ledger>>
    BY <1>10 DEF GoLive, Goto, planVars
  <2>2. pc'[p] = "begin" /\ \A q \in Procs \ {p} : pc'[q] = pc[q]
    BY <1>0, <2>1 DEF TypeOK, CoreTypeOK
  <2>3. PlanTrue(p)
    BY DEF IInv
  <2>4. PlanTrue(p)' /\ LoopTrue(p)'
    BY <2>1, <2>2, <2>3 DEF PlanTrue, LoopTrue, Loop, Labels, storeVars
  <2> QED BY <1>0, <1>rows, <1>books, <2>1, <2>2, <2>4, OneAtATime
<1>11. ASSUME NEW p \in Procs, ExecuteDay(p) PROVE IInv'
  <2> DEFINE c == job[p].cycle
  <2>0. pc[p] # "idle" /\ UNCHANGED <<ledger, job>>
    BY <1>11 DEF ExecuteDay, Execute, BeginSending, NextInstruction, MarkSkipped, MarkSending,
          WalletAccepts, WalletRejects, WalletAnswerLost, WalletAnswerUnknown, MarkSent,
          MarkFailed, CloseCycle, planVars
  <2>job. job[p] \in Jobs /\ c \in Days
    BY <1>act, <2>0
  <2>now. PlanTrue(p) /\ LoopTrue(p) /\ todo[p] \subseteq Wallets
    BY <1>0 DEF IInv, TypeOK, CoreTypeOK
  <2>row. ASSUME NEW w \in Wallets, NEW x, state' = [state EXCEPT ![c][w] = x],
                 UNCHANGED <<cycleState, amount, spends>>, state[c][w] # "none",
                 x \in {"sending", "sent", "failed"},
                 x = "sent" => spends[c][w] = 1,
                 x = "failed" => spends[c][w] = 0
          PROVE  /\ \A d \in Days, v \in Wallets : RowTrue(d, v)'
                 /\ \A v \in Wallets : state'[c][v] = IF v = w THEN x ELSE state[c][v]
    <3>1. \A d \in Days, v \in Wallets : state'[d][v] = IF d = c /\ v = w THEN x ELSE state[d][v]
      BY <1>0, <2>job, <2>row, UpdateAt DEF TypeOK, CoreTypeOK
    <3>2. ASSUME NEW d \in Days, NEW v \in Wallets PROVE RowTrue(d, v)'
      <4>1. RowTrue(d, v)
        BY DEF IInv
      <4> QED BY <2>row, <3>1, <4>1 DEF RowTrue
    <3> QED BY <2>job, <3>1, <3>2
  <2>one. ASSUME NEW v, NEW w, Current(p, v), Current(p, w) PROVE v = w
    BY <2>now, <2>one, CurrentIsUnique
  <2>1. CASE BeginSending(p)
    <3>1. /\ pc[p] = "begin" /\ pc' = [pc EXCEPT ![p] = "next"]
          /\ cycleState' = [cycleState EXCEPT ![c] = "sending"]
          /\ todo' = [todo EXCEPT ![p] = Instructed(c)]
          /\ UNCHANGED <<state, amount, walletVars, spends, outcome>>
      BY <2>1 DEF BeginSending, Goto, planVars, walletVars
    <3>2. /\ pc'[p] = "next" /\ \A q \in Procs \ {p} : pc'[q] = pc[q]
          /\ todo'[p] = Instructed(c)
      BY <1>0, <3>1 DEF TypeOK, CoreTypeOK
    <3>3. cycleState'[c] = "sending" /\ \A d \in Days : d # c => cycleState'[d] = cycleState[d]
      BY <1>0, <2>job, <3>1 DEF TypeOK, CoreTypeOK
    <3>4. ASSUME NEW d \in Days, NEW w \in Wallets PROVE RowTrue(d, w)'
      <4>1. RowTrue(d, w)
        BY DEF IInv
      <4> QED BY <3>1, <3>3, <4>1 DEF RowTrue
    <3>5. PlanTrue(p)'
      BY <2>0, <2>now, <3>1, <3>2 DEF PlanTrue, Labels
    <3>6. LoopTrue(p)'
      BY <2>0, <2>now, <3>1, <3>2, <3>3 DEF PlanTrue, LoopTrue, Loop, Instructed
    <3> QED BY <1>0, <1>books, <2>0, <3>1, <3>2, <3>4, <3>5, <3>6, OneAtATime
  <2>2. CASE NextInstruction(p)
    <3>1. /\ pc[p] = "next"
          /\ UNCHANGED <<storeVars, walletVars, todo, outcome, state, cycleState, spends>>
      BY <2>2 DEF NextInstruction, storeVars, walletVars
    <3>2. \A w \in todo[p] : state[c][w] \notin Paid
      BY <2>now, <3>1 DEF LoopTrue, Loop
    <3>3. \/ todo[p] = {} /\ pc' = [pc EXCEPT ![p] = "close"]
          \/ pc' = [pc EXCEPT ![p] = "mark"]
      BY <2>2, <3>2 DEF NextInstruction, Goto, Current
    <3>4. /\ pc'[p] = "mark" \/ (pc'[p] = "close" /\ todo[p] = {})
          /\ \A q \in Procs \ {p} : pc'[q] = pc[q]
      BY <1>0, <3>3 DEF TypeOK, CoreTypeOK
    <3>5. \A w \in todo[p] : spends[c][w] = 0
      <4> SUFFICES ASSUME NEW w \in todo[p] PROVE spends[c][w] = 0
        OBVIOUS
      <4>1. RowTrue(c, w) /\ state[c][w] # "sending" /\ state[c][w] # "sent"
        BY <2>job, <2>now, <3>2 DEF IInv, Paid
      <4>2. state[c][w] \in {"none", "planned", "failed", "skipped"}
        BY <1>0, <2>job, <2>now, <4>1 DEF TypeOK, CoreTypeOK, InstructionStates
      <4> QED BY <4>1, <4>2 DEF RowTrue
    <3>6. PlanTrue(p)'
      BY <2>0, <2>now, <3>1, <3>4 DEF PlanTrue, Labels
    <3>7. LoopTrue(p)'
      BY <2>0, <2>now, <3>1, <3>2, <3>4, <3>5 DEF LoopTrue, Loop, Current
    <3> QED BY <1>0, <1>rows, <1>books, <2>0, <3>1, <3>4, <3>6, <3>7, OneAtATime
  <2>3. CASE MarkSkipped(p)
    BY <2>3, <2>now DEF MarkSkipped, LoopTrue
  <2>4. CASE MarkSending(p)
    <3>1. /\ pc[p] = "mark" /\ pc' = [pc EXCEPT ![p] = "send"]
          /\ UNCHANGED <<cycleState, amount, walletVars, todo, outcome, spends>>
      BY <2>4 DEF MarkSending, Goto, walletVars
    <3>2. PICK w \in Wallets : Current(p, w) /\ state' = [state EXCEPT ![c][w] = "sending"]
      BY <2>4 DEF MarkSending
    <3>3. pc'[p] = "send" /\ \A q \in Procs \ {p} : pc'[q] = pc[q]
      BY <1>0, <3>1 DEF TypeOK, CoreTypeOK
    <3>4. w \in todo[p] /\ w \in Instructed(c) /\ state[c][w] # "none"
      BY <2>now, <3>1, <3>2 DEF LoopTrue, Loop, Current
    <3>5. /\ \A d \in Days, v \in Wallets : RowTrue(d, v)'
          /\ \A v \in Wallets : state'[c][v] = IF v = w THEN "sending" ELSE state[c][v]
      BY <2>row, <3>1, <3>2, <3>4
    <3>6. PlanTrue(p)'
      BY <2>0, <2>now, <3>1, <3>3 DEF PlanTrue, Labels
    <3>7. LoopTrue(p)'
      <4>1. \A v : Current(p, v)' <=> Current(p, v)
        BY <3>1 DEF Current
      <4>2. \A v \in todo[p] : Current(p, v) => v = w
        BY <2>one, <3>2
      <4>3. Instructed(c) \subseteq Wallets /\ c' = c
        BY <2>0 DEF Instructed
      <4> QED BY <2>0, <2>now, <3>1, <3>2, <3>3, <3>4, <3>5, <4>1, <4>2, <4>3 DEF LoopTrue, Loop
    <3> QED BY <1>0, <1>books, <2>0, <3>1, <3>3, <3>5, <3>6, <3>7, OneAtATime
  <2>5. CASE WalletAccepts(p)
    <3>1. pc[p] = "send" /\ pc' = [pc EXCEPT ![p] = "sent"] /\ UNCHANGED <<storeVars, todo, outcome>>
      BY <2>5 DEF WalletAccepts, Goto
    <3>2. PICK w \in Wallets : Current(p, w) /\ spends' = [spends EXCEPT ![c][w] = @ + 1]
      BY <2>5 DEF WalletAccepts, Accept
    <3>3. w \in todo[p] /\ state[c][w] = "sending" /\ spends[c][w] = 0
      BY <2>now, <3>1, <3>2 DEF LoopTrue, Current
    <3>4. \A d \in Days, v \in Wallets :
            spends'[d][v] = IF d = c /\ v = w THEN 1 ELSE spends[d][v]
      BY <1>0, <2>job, <3>2, <3>3, UpdateAt DEF TypeOK, CoreTypeOK
    <3>5. pc'[p] = "sent" /\ \A q \in Procs \ {p} : pc'[q] = pc[q]
      BY <1>0, <3>1 DEF TypeOK, CoreTypeOK
    <3>6. ASSUME NEW d \in Days, NEW v \in Wallets PROVE RowTrue(d, v)'
      <4>1. RowTrue(d, v)
        BY DEF IInv
      <4> QED BY <3>1, <3>3, <3>4, <4>1 DEF RowTrue, storeVars
    <3>7. ledger[c] = "settled" /\ PlanTrue(p)'
      BY <2>0, <2>now, <3>1, <3>5 DEF PlanTrue, Labels
    <3>8. LoopTrue(p)'
      <4>1. \A v : Current(p, v)' <=> Current(p, v)
        BY <3>1 DEF Current
      <4>2. \A v \in todo[p] : Current(p, v) => v = w
        BY <2>one, <3>2
      <4>3. c' = c /\ UNCHANGED <<state, cycleState>>
        BY <2>0, <3>1 DEF storeVars
      <4> QED BY <2>job, <2>now, <3>1, <3>2, <3>3, <3>4, <3>5, <4>1, <4>2, <4>3 DEF LoopTrue, Loop
    <3>9. \A d \in Days : LedgerTrue(d)'
      BY <2>0, <3>4, <3>7 DEF IInv, LedgerTrue, Owes
    <3> QED BY <1>0, <2>0, <3>5, <3>6, <3>7, <3>8, <3>9, OneAtATime
  <2>6. CASE WalletRejects(p)
    <3>1. /\ pc[p] = "send"
          /\ pc' = [pc EXCEPT ![p] = IF attempt[p] < MaxAttempts THEN "mark" ELSE "fail"]
          /\ UNCHANGED <<storeVars, walletVars, todo, outcome>>
      BY <2>6 DEF WalletRejects, RetryOrFail, Goto
    <3>2. pc'[p] \in {"mark", "fail"} /\ \A q \in Procs \ {p} : pc'[q] = pc[q]
      BY <1>0, <3>1 DEF TypeOK, CoreTypeOK
    <3>3. PlanTrue(p)'
      BY <2>0, <2>now, <3>1, <3>2 DEF PlanTrue, Labels
    <3>4. LoopTrue(p)'
      BY <2>0, <2>now, <3>1, <3>2 DEF LoopTrue, Loop, Current, storeVars, walletVars
    <3> QED BY <1>0, <1>rows, <1>books, <2>0, <3>1, <3>2, <3>3, <3>4, OneAtATime
  <2>7. CASE WalletAnswerLost(p)
    BY <2>7 DEF WalletAnswerLost, Fault, Discipline
  <2>8. CASE WalletAnswerUnknown(p)
    <3>1. /\ pc[p] = "send" /\ pc' = [pc EXCEPT ![p] = "close"]
          /\ outcome' = [outcome EXCEPT ![p] = "halted"]
          /\ UNCHANGED storeVars
      BY <2>8 DEF WalletAnswerUnknown, Goto
    <3>2. PICK w \in Wallets : Current(p, w) /\ MaybeAccept(c, w, PlanAmount(c, w, job[p].cap))
      BY <2>8 DEF WalletAnswerUnknown
    <3>3. /\ pc'[p] = "close" /\ outcome'[p] = "halted"
          /\ \A q \in Procs \ {p} : pc'[q] = pc[q]
      BY <1>0, <3>1 DEF TypeOK, CoreTypeOK
    <3>4. /\ \A d \in Days, v \in Wallets : RowTrue(d, v)'
          /\ \A d \in Days : LedgerTrue(d)'
      BY <1>0, <2>0, <2>now, <3>1, <3>2, InDoubtInv
    <3>5. PlanTrue(p)' /\ LoopTrue(p)'
      BY <2>0, <2>now, <3>1, <3>3 DEF PlanTrue, LoopTrue, Loop, Labels
    <3> QED BY <1>0, <2>0, <3>3, <3>4, <3>5, OneAtATime
  <2>9. CASE MarkSent(p)
    <3>1. /\ pc[p] = "sent" /\ pc' = [pc EXCEPT ![p] = "next"]
          /\ UNCHANGED <<cycleState, amount, walletVars, outcome, spends>>
      BY <2>9 DEF MarkSent, Goto, walletVars
    <3>2. PICK w \in Wallets : /\ Current(p, w)
                               /\ state' = [state EXCEPT ![c][w] = "sent"]
                               /\ todo' = [todo EXCEPT ![p] = @ \ {w}]
      BY <2>9 DEF MarkSent
    <3>3. /\ pc'[p] = "next" /\ \A q \in Procs \ {p} : pc'[q] = pc[q]
          /\ todo'[p] = todo[p] \ {w}
      BY <1>0, <3>1, <3>2 DEF TypeOK, CoreTypeOK
    <3>4. w \in todo[p] /\ state[c][w] # "none" /\ spends[c][w] = 1
      BY <2>now, <3>1, <3>2 DEF LoopTrue, Loop, Current
    <3>5. /\ \A d \in Days, v \in Wallets : RowTrue(d, v)'
          /\ \A v \in Wallets : state'[c][v] = IF v = w THEN "sent" ELSE state[c][v]
      BY <2>row, <3>1, <3>2, <3>4
    <3>6. PlanTrue(p)'
      BY <2>0, <2>now, <3>1, <3>3 DEF PlanTrue, Labels
    <3>7. LoopTrue(p)'
      <4>1. \A v \in todo[p] \ {w} : ~Current(p, v)
        BY <2>one, <3>2
      <4>2. Instructed(c) \subseteq Wallets /\ c' = c
        BY <2>0 DEF Instructed
      <4> QED BY <2>0, <2>now, <3>1, <3>3, <3>5, <4>1, <4>2 DEF LoopTrue, Loop
    <3> QED BY <1>0, <1>books, <2>0, <3>1, <3>3, <3>5, <3>6, <3>7, OneAtATime
  <2>10. CASE MarkFailed(p)
    <3>1. /\ pc[p] = "fail" /\ pc' = [pc EXCEPT ![p] = "next"]
          /\ outcome' = [outcome EXCEPT ![p] = "failed"]
          /\ UNCHANGED <<cycleState, amount, walletVars, spends>>
      BY <2>10 DEF MarkFailed, Goto, walletVars
    <3>2. PICK w \in Wallets : /\ Current(p, w)
                               /\ state' = [state EXCEPT ![c][w] = "failed"]
                               /\ todo' = [todo EXCEPT ![p] = @ \ {w}]
      BY <2>10 DEF MarkFailed
    <3>3. /\ pc'[p] = "next" /\ \A q \in Procs \ {p} : pc'[q] = pc[q]
          /\ todo'[p] = todo[p] \ {w} /\ outcome'[p] = "failed"
      BY <1>0, <3>1, <3>2 DEF TypeOK, CoreTypeOK
    <3>4. w \in todo[p] /\ state[c][w] # "none" /\ spends[c][w] = 0
      BY <2>now, <3>1, <3>2 DEF LoopTrue, Loop, Current
    <3>5. /\ \A d \in Days, v \in Wallets : RowTrue(d, v)'
          /\ \A v \in Wallets : state'[c][v] = IF v = w THEN "failed" ELSE state[c][v]
      BY <2>row, <3>1, <3>2, <3>4
    <3>6. PlanTrue(p)'
      BY <2>0, <2>now, <3>1, <3>3 DEF PlanTrue, Labels
    <3>7. LoopTrue(p)'
      <4>1. \A v \in todo[p] \ {w} : ~Current(p, v)
        BY <2>one, <3>2
      <4>2. Instructed(c) \subseteq Wallets /\ c' = c
        BY <2>0 DEF Instructed
      <4> QED BY <2>0, <2>now, <3>1, <3>3, <3>5, <4>1, <4>2 DEF LoopTrue, Loop
    <3> QED BY <1>0, <1>books, <2>0, <3>1, <3>3, <3>5, <3>6, <3>7, OneAtATime
  <2>11. CASE CloseCycle(p)
    <3>1. /\ pc[p] = "close" /\ pc' = [pc EXCEPT ![p] = "report"]
          /\ \E x \in {"halted", "settled"} : cycleState' = [cycleState EXCEPT ![c] = x]
          /\ UNCHANGED <<state, amount, walletVars, spends, todo, outcome>>
      BY <2>11 DEF CloseCycle, Goto, walletVars
    <3>2. pc'[p] = "report" /\ \A q \in Procs \ {p} : pc'[q] = pc[q]
      BY <1>0, <3>1 DEF TypeOK, CoreTypeOK
    <3>3. ASSUME NEW d \in Days, NEW w \in Wallets PROVE RowTrue(d, w)'
      <4>1. RowTrue(d, w)
        BY DEF IInv
      <4>2. cycleState[d] # "none" => cycleState'[d] # "none"
        BY <1>0, <2>job, <3>1 DEF TypeOK, CoreTypeOK
      <4> QED BY <3>1, <4>1, <4>2 DEF RowTrue
    <3>4. PlanTrue(p)' /\ LoopTrue(p)'
      BY <2>0, <2>now, <3>1, <3>2 DEF PlanTrue, LoopTrue, Loop, Labels
    <3> QED BY <1>0, <1>books, <2>0, <3>1, <3>2, <3>3, <3>4, OneAtATime
  <2> QED BY <1>11, <2>1, <2>2, <2>3, <2>4, <2>5, <2>6, <2>7, <2>8, <2>9, <2>10, <2>11
          DEF ExecuteDay, Execute
<1>12. ASSUME NEW p \in Procs, Report(p) PROVE IInv'
  <2> DEFINE c == job[p].cycle
  <2>1. /\ pc[p] = "report" /\ Exit(p) /\ UNCHANGED <<storeVars, walletVars>>
        /\ IF outcome[p] = "ok" THEN ledger' = [ledger EXCEPT ![c] = "paid"] ELSE UNCHANGED ledger
    BY <1>12 DEF Report, MarkPaid
  <2>2. CASE outcome[p] # "ok"
    BY <1>0, <1>rows, <1>books, <2>1, <2>2, ExitInv
  <2>3. CASE outcome[p] = "ok"
    <3>1. c \in Days
      BY <1>act, <2>1
    <3>2. ASSUME NEW w \in Owes(c) PROVE spends[c][w] = 1
      <4>1. w \in Wallets /\ w \in Instructed(c)
        BY <3>1, DataAssumption, EconomicsLimits DEF Owes, Instructed
      <4>2. state[c][w] = "sent"
        BY <2>1, <2>3, <4>1 DEF IInv, LoopTrue
      <4>3. RowTrue(c, w)
        BY <3>1, <4>1 DEF IInv
      <4> QED BY <4>2, <4>3 DEF RowTrue
    <3>3. \A d \in Days : LedgerTrue(d)'
      BY <1>0, <2>1, <2>3, <3>2 DEF IInv, LedgerTrue, walletVars, TypeOK
    <3> QED BY <1>0, <1>rows, <2>1, <3>3, ExitInv
  <2> QED BY <2>2, <2>3
<1>13. ASSUME NEW p \in Procs, Crash(p), UNCHANGED ledger PROVE IInv'
  <2>1. pc[p] # "idle" /\ Exit(p) /\ UNCHANGED storeVars
    BY <1>13 DEF Crash
  <2>2. CASE pc[p] # "send"
    BY <1>0, <1>13, <1>rows, <1>books, <2>1, <2>2, ExitInv DEF Crash
  <2>3. CASE pc[p] = "send"
    <3>1. PICK w \in Wallets :
            /\ Current(p, w)
            /\ MaybeAccept(job[p].cycle, w, PlanAmount(job[p].cycle, w, job[p].cap))
      BY <1>13, <2>3 DEF Crash
    <3>2. /\ \A d \in Days, v \in Wallets : RowTrue(d, v)'
          /\ \A d \in Days : LedgerTrue(d)'
      BY <1>0, <1>13, <2>1, <2>3, <3>1, InDoubtInv
    <3> QED BY <1>0, <2>1, <3>2, ExitInv
  <2> QED BY <2>2, <2>3
<1>14. ASSUME NEW c \in Days, NEW w \in Wallets, Resolve(c, w), UNCHANGED ledger PROVE IInv'
  <2>1. /\ \A p \in Procs : pc[p] = "idle"
        /\ state[c][w] = "sending"
        /\ UNCHANGED <<cycleState, amount, spends, pc>>
    BY <1>14 DEF Resolve, walletVars, runVars
  <2>2. PICK x \in {"sent", "failed"} :
          /\ state' = [state EXCEPT ![c][w] = x]
          /\ x = "sent" => spends[c][w] > 0
          /\ x = "failed" => spends[c][w] = 0
    BY <1>14 DEF Resolve
  <2>3. \A d \in Days, v \in Wallets : state'[d][v] = IF d = c /\ v = w THEN x ELSE state[d][v]
    BY <1>0, <2>2, UpdateAt DEF TypeOK, CoreTypeOK
  <2>4. ASSUME NEW d \in Days, NEW v \in Wallets PROVE RowTrue(d, v)'
    <3>1. RowTrue(d, v)
      BY DEF IInv
    <3> QED BY <2>1, <2>2, <2>3, <3>1 DEF RowTrue
  <2>5. \A p \in Procs : PlanTrue(p)' /\ LoopTrue(p)'
    BY <2>1 DEF PlanTrue, LoopTrue, Loop
  <2>6. \A d \in Days : LedgerTrue(d)'
    BY <1>14, <2>1 DEF IInv, LedgerTrue
  <2> QED BY <1>0, <2>1, <2>4, <2>5, <2>6 DEF IInv, OneRun
<1>15. CASE UNCHANGED vars
  <2>1. UNCHANGED <<storeVars, walletVars, ledger, pc, job, blocked, todo, outcome, state,
                    cycleState, amount, spends>>
    BY <1>15 DEF vars, coreVars, runVars, storeVars, walletVars
  <2>2. \A p \in Procs : PlanTrue(p)' /\ LoopTrue(p)'
    BY <2>1 DEF IInv, PlanTrue, LoopTrue, Current
  <2> QED BY <1>0, <1>rows, <1>books, <2>1, <2>2 DEF IInv, OneRun
<1> QED
  BY <1>1, <1>2, <1>3, <1>4, <1>5, <1>6, <1>7, <1>8, <1>9, <1>10, <1>11, <1>12, <1>13,
     <1>14, <1>15
     DEF Next, Run, PlanAndPersist

LEMMA DisciplinedInv == ASSUME Discipline PROVE Spec => []IInv
<1>1. Init => IInv
  BY InitInv
<1>2. IInv /\ [Next]_vars => IInv'
  BY NextInv
<1> QED BY <1>1, <1>2, PTL DEF Spec

LEMMA InvConsequences ==
  ASSUME IInv
  PROVE  AtMostOnce /\ PaidMeansSent /\ AuditTellsTruth
<1>1. ASSUME NEW d \in Days, NEW w \in Wallets
      PROVE  /\ spends[d][w] \in {0, 1}
             /\ state[d][w] \in {"sent", "skipped"} => spends[d][w] > 0
             /\ state[d][w] \in {"none", "planned", "failed"} => spends[d][w] = 0
  <2>1. RowTrue(d, w)
    BY DEF IInv
  <2> QED BY <2>1 DEF RowTrue
<1>2. PaidMeansSent
  BY DEF IInv, LedgerTrue, PaidMeansSent
<1>3. AtMostOnce
  BY <1>1 DEF AtMostOnce
<1> QED BY <1>1, <1>2, <1>3 DEF AuditTellsTruth

(* AtMostOnce: with one payer at a time and no answer lost no wallet is     *)
(* paid twice for a day, however often runs crash, fail or are repeated.    *)
THEOREM NeverPaidTwice == ASSUME Discipline PROVE Spec => []AtMostOnce
<1>1. IInv => AtMostOnce
  BY InvConsequences
<1> QED BY <1>1, DisciplinedInv, PTL

(* PaidMeansSent: under the same discipline a day the ledger calls paid has *)
(* sent every wallet it owes its share.                                     *)
THEOREM PaidDaysAreSent == ASSUME Discipline PROVE Spec => []PaidMeansSent
<1>1. IInv => PaidMeansSent
  BY InvConsequences
<1> QED BY <1>1, DisciplinedInv, PTL

(* AuditTellsTruth: under the same discipline the audit rows are right      *)
(* about the money.                                                         *)
THEOREM RowsAreTrue == ASSUME Discipline PROVE Spec => []AuditTellsTruth
<1>1. IInv => AuditTellsTruth
  BY InvConsequences
<1> QED BY <1>1, DisciplinedInv, PTL

--------------------------------------------------------------------------------
(****************************************************************************)
(* Whatever happens, payers at once and lost answers included, a spend has  *)
(* left a trace.                                                            *)
(****************************************************************************)
Traced(d, w) == state[d][w] \notin {"none", "planned"}

TraceInv ==
  /\ TypeOK
  /\ SpendLeavesTrace
  /\ \A p \in Procs : pc[p] = "send" => \A w \in todo[p] : Current(p, w) => Traced(job[p].cycle, w)

(* No step takes a row back to being a mere plan.                           *)
LEMMA TracesStay ==
  ASSUME TypeOK, [Next]_vars, NEW d \in Days, NEW w \in Wallets, Traced(d, w)
  PROVE  Traced(d, w)'
<1> USE DEF Days, Traced
<1>act. ASSUME NEW p \in Procs, pc[p] # "idle" PROVE job[p].cycle \in Days
  BY <1>act DEF TypeOK, CoreTypeOK, Jobs
<1>set. ASSUME NEW c \in Days, NEW v \in Wallets, NEW x \in InstructionStates \ {"none", "planned"},
               state' = [state EXCEPT ![c][v] = x]
        PROVE  Traced(d, w)'
  <2>1. state'[d][w] = IF d = c /\ w = v THEN x ELSE state[d][w]
    BY <1>set, UpdateAt DEF TypeOK, CoreTypeOK
  <2> QED BY <2>1
<1>1. CASE UNCHANGED state
  BY <1>1
<1>2. ASSUME NEW p \in Procs, PutInstruction(p) PROVE Traced(d, w)'
  <2>1. job[p].cycle \in Days
    BY <1>2, <1>act DEF PutInstruction
  <2>2. CASE UNCHANGED state
    BY <2>2
  <2>3. ASSUME NEW v \in Wallets, state[job[p].cycle][v] = "none",
               state' = [state EXCEPT ![job[p].cycle][v] = "planned"]
        PROVE  Traced(d, w)'
    <3>1. state'[d][w] = IF d = job[p].cycle /\ w = v THEN "planned" ELSE state[d][w]
      BY <2>1, <2>3, UpdateAt DEF TypeOK, CoreTypeOK
    <3> QED BY <2>3, <3>1
  <2> QED BY <1>2, <2>2, <2>3 DEF PutInstruction
<1>3. ASSUME NEW p \in Procs, MarkSkipped(p) \/ MarkSending(p) \/ MarkSent(p) \/ MarkFailed(p)
      PROVE  Traced(d, w)'
  <2>1. pc[p] # "idle" /\ \E v \in Wallets, x \in {"skipped", "sending", "sent", "failed"} :
          state' = [state EXCEPT ![job[p].cycle][v] = x]
    BY <1>3 DEF MarkSkipped, MarkSending, MarkSent, MarkFailed
  <2> QED BY <1>act, <1>set, <2>1, StatesListed
<1>4. ASSUME NEW c \in Days, NEW v \in Wallets, Resolve(c, v) PROVE Traced(d, w)'
  <2>1. \E x \in {"sent", "failed"} : state' = [state EXCEPT ![c][v] = x]
    BY <1>4 DEF Resolve
  <2> QED BY <1>set, <2>1, StatesListed
<1>5. ASSUME NEW p \in Procs, ExecuteDay(p) PROVE Traced(d, w)'
  BY <1>1, <1>3, <1>5 DEF ExecuteDay, Execute, BeginSending, NextInstruction, WalletAccepts,
       WalletRejects, WalletAnswerLost, WalletAnswerUnknown, CloseCycle, storeVars
<1>6. ASSUME NEW p \in Procs, Run(p) PROVE Traced(d, w)'
  BY <1>1, <1>2, <1>5, <1>6 DEF Run, AskBalance, ReadBalance, CheckDay, PlanAndPersist, Plan,
       OpenCycle, Heal, Stop, GoLive, Report, storeVars
<1> QED
  BY <1>1, <1>4, <1>6 DEF Next, Settle, StartPay, Crash, vars, coreVars, storeVars

(* Only the run that is at an instruction can have its spend accepted.      *)
LEMMA SpendsAtSend ==
  ASSUME TypeOK, [Next]_vars, NEW d \in Days, NEW w \in Wallets, spends'[d][w] # spends[d][w]
  PROVE  \E p \in Procs : pc[p] = "send" /\ d = job[p].cycle /\ w \in todo[p] /\ Current(p, w)
<1> USE DEF Days
<1>acc. ASSUME NEW p \in Procs, pc[p] = "send", NEW v \in Wallets, Current(p, v),
               MaybeAccept(job[p].cycle, v, PlanAmount(job[p].cycle, v, job[p].cap))
        PROVE  d = job[p].cycle /\ w \in todo[p] /\ Current(p, w)
  <2>1. job[p].cycle \in Days
    BY <1>acc DEF TypeOK, CoreTypeOK, Jobs
  <2>2. spends' = [spends EXCEPT ![job[p].cycle][v] = @ + 1]
    BY <1>acc DEF MaybeAccept, Accept, walletVars
  <2>3. spends'[d][w] = IF d = job[p].cycle /\ w = v THEN spends[job[p].cycle][v] + 1 ELSE spends[d][w]
    BY <2>1, <2>2, UpdateAt DEF TypeOK, CoreTypeOK
  <2> QED BY <1>acc, <2>3 DEF Current
<1>1. spends' # spends
  OBVIOUS
<1>2. ASSUME NEW p \in Procs, WalletAccepts(p) \/ WalletAnswerLost(p) \/ WalletAnswerUnknown(p)
      PROVE  pc[p] = "send" /\ d = job[p].cycle /\ w \in todo[p] /\ Current(p, w)
  <2>1. pc[p] = "send" /\ \E v \in Wallets :
           Current(p, v) /\ MaybeAccept(job[p].cycle, v, PlanAmount(job[p].cycle, v, job[p].cap))
    BY <1>2 DEF WalletAccepts, WalletAnswerLost, WalletAnswerUnknown, MaybeAccept
  <2> QED BY <1>acc, <2>1
<1>3. ASSUME NEW p \in Procs, Crash(p)
      PROVE  pc[p] = "send" /\ d = job[p].cycle /\ w \in todo[p] /\ Current(p, w)
  <2>1. pc[p] = "send" /\ \E v \in Wallets :
           Current(p, v) /\ MaybeAccept(job[p].cycle, v, PlanAmount(job[p].cycle, v, job[p].cap))
    BY <1>1, <1>3 DEF Crash, walletVars
  <2> QED BY <1>acc, <2>1
<1>4. ASSUME NEW p \in Procs, ExecuteDay(p)
      PROVE  WalletAccepts(p) \/ WalletAnswerLost(p) \/ WalletAnswerUnknown(p)
  BY <1>1, <1>4 DEF ExecuteDay, Execute, BeginSending, NextInstruction, MarkSkipped, MarkSending,
       WalletRejects, MarkSent, MarkFailed, CloseCycle, walletVars
<1>5. ASSUME NEW p \in Procs, Run(p) PROVE ExecuteDay(p)
  BY <1>1, <1>5 DEF Run, AskBalance, ReadBalance, CheckDay, PlanAndPersist, Plan, OpenCycle,
       PutInstruction, Heal, Stop, GoLive, Report, walletVars
<1> QED
  BY <1>1, <1>2, <1>3, <1>4, <1>5
     DEF Next, Settle, StartPay, Resolve, vars, coreVars, walletVars

(* A run gets to "send" by committing the row first, and stays there with   *)
(* the same instruction.                                                    *)
LEMMA SendFollowsMark ==
  ASSUME TypeOK, [Next]_vars, NEW p \in Procs, pc'[p] = "send"
  PROVE  \/ MarkSending(p)
         \/ pc[p] = "send" /\ job'[p] = job[p] /\ todo'[p] = todo[p]
<1> USE DEF TypeOK, CoreTypeOK, Goto, Exit
<1>1. ASSUME NEW q \in Procs, ExecuteDay(q)
      PROVE  \/ MarkSending(p)
             \/ pc[p] = "send" /\ job'[p] = job[p] /\ todo'[p] = todo[p]
  <2>1. /\ q = p => MarkSending(p)
        /\ job' = job
        /\ q # p => pc'[p] = pc[p] /\ todo'[p] = todo[p]
    BY <1>1 DEF ExecuteDay, Execute, BeginSending, NextInstruction, MarkSkipped, MarkSending,
         WalletAccepts, WalletRejects, WalletAnswerLost, WalletAnswerUnknown, RetryOrFail,
         MarkSent, MarkFailed, CloseCycle, planVars
  <2> QED BY <2>1
<1>2. ASSUME NEW q \in Procs, Run(q), ~ExecuteDay(q)
      PROVE  q # p /\ pc'[p] = pc[p] /\ job'[p] = job[p] /\ todo'[p] = todo[p]
  <2> DEFINE Elsewhere == q # p /\ pc'[p] = pc[p] /\ job'[p] = job[p] /\ todo'[p] = todo[p]
  <2>1. AskBalance(q) \/ CheckDay(q) => Elsewhere
    BY DEF AskBalance, ReadBalance, CheckDay, planVars
  <2>2. Plan(q, FALSE) => Elsewhere
    BY DEF Plan
  <2>3. OpenCycle(q) => Elsewhere
    BY DEF OpenCycle, planVars
  <2>4. PutInstruction(q) => Elsewhere
    BY DEF PutInstruction, planVars
  <2>5. Heal(q) \/ Stop(q) \/ GoLive(q) \/ Report(q) => Elsewhere
    BY DEF Heal, Stop, GoLive, Report, planVars
  <2> HIDE DEF Elsewhere
  <2>6. Elsewhere
    BY <1>2, <2>1, <2>2, <2>3, <2>4, <2>5 DEF Run, PlanAndPersist
  <2> QED BY <2>6 DEF Elsewhere
<1>3. ASSUME NEW q \in Procs, Crash(q)
      PROVE  q # p /\ pc'[p] = pc[p] /\ job'[p] = job[p] /\ todo'[p] = todo[p]
  BY <1>3 DEF Crash
<1>4. ASSUME NEW q \in Procs, NEW d \in Days, NEW live \in BOOLEAN, NEW cap \in Caps,
             StartPay(q, d, live, cap)
      PROVE  q # p /\ pc'[p] = pc[p] /\ job'[p] = job[p] /\ todo'[p] = todo[p]
  BY <1>4 DEF StartPay
<1>5. CASE UNCHANGED runVars
  BY <1>5 DEF runVars
<1> QED
  BY <1>1, <1>2, <1>3, <1>4, <1>5 DEF Next, Settle, Resolve, vars, coreVars

LEMMA TraceNext == TraceInv /\ [Next]_vars => TraceInv'
<1> SUFFICES ASSUME TraceInv, [Next]_vars PROVE TraceInv'
  OBVIOUS
<1>1. TypeOK /\ TypeOK'
  BY TypeNext DEF TraceInv
<1>2. SpendLeavesTrace'
  <2> SUFFICES ASSUME NEW d \in Days, NEW w \in Wallets, spends'[d][w] > 0 PROVE Traced(d, w)'
    BY DEF SpendLeavesTrace, Traced
  <2>1. CASE spends'[d][w] = spends[d][w]
    <3>1. Traced(d, w)
      BY <2>1 DEF TraceInv, SpendLeavesTrace, Traced
    <3> QED BY <1>1, <3>1, TracesStay
  <2>2. CASE spends'[d][w] # spends[d][w]
    <3>1. Traced(d, w)
      BY <1>1, <2>2, SpendsAtSend DEF TraceInv
    <3> QED BY <1>1, <3>1, TracesStay
  <2> QED BY <2>1, <2>2
<1>3. ASSUME NEW p \in Procs, pc'[p] = "send", NEW w \in todo'[p], Current(p, w)'
      PROVE  Traced(job[p].cycle, w)'
  <2>1. w \in Wallets /\ job'[p].cycle \in Days
    BY <1>1, <1>3 DEF TypeOK, CoreTypeOK, Jobs, Days
  <2>2. CASE MarkSending(p)
    <3>1. job' = job /\ todo' = todo
      BY <2>2 DEF MarkSending, planVars
    <3>2. PICK v \in Wallets : Current(p, v) /\ state' = [state EXCEPT ![job[p].cycle][v] = "sending"]
      BY <2>2 DEF MarkSending
    <3>3. todo[p] \subseteq Wallets
      BY <1>1 DEF TypeOK, CoreTypeOK
    <3>4. Current(p, w)
      BY <1>3, <3>1 DEF Current
    <3>5. v = w
      BY <3>2, <3>3, <3>4, CurrentIsUnique
    <3>6. state'[job[p].cycle][w] = "sending"
      BY <1>1, <2>1, <3>1, <3>2, <3>5, UpdateAt DEF TypeOK, CoreTypeOK, Days
    <3> QED BY <3>1, <3>6 DEF Traced
  <2>3. CASE pc[p] = "send" /\ job'[p] = job[p] /\ todo'[p] = todo[p]
    <3>1. Traced(job[p].cycle, w)
      BY <1>3, <2>3 DEF TraceInv, Current
    <3>2. Traced(job[p].cycle, w)' <=> state'[job[p].cycle][w] \notin {"none", "planned"}
      BY <2>3 DEF Traced
    <3>3. \A d \in Days : Traced(d, w) => state'[d][w] \notin {"none", "planned"}
      BY <1>1, <2>1, TracesStay DEF Traced
    <3> QED BY <2>1, <2>3, <3>1, <3>2, <3>3
  <2> QED BY <1>1, <1>3, <2>2, <2>3, SendFollowsMark
<1> QED BY <1>1, <1>2, <1>3 DEF TraceInv

(* SpendLeavesTrace, with any number of payers and under every fault: a     *)
(* spend the daemon took has a row that says it was at least tried.         *)
THEOREM SpendsAreTraced == Spec => []SpendLeavesTrace
<1>1. Init => TraceInv
  BY TypeInit DEF TraceInv, Init, CoreInit, SpendLeavesTrace, Days
<1>2. TraceInv /\ [Next]_vars => TraceInv'
  BY TraceNext
<1>3. TraceInv => SpendLeavesTrace
  BY DEF TraceInv
<1> QED BY <1>1, <1>2, <1>3, PTL DEF Spec

--------------------------------------------------------------------------------
(****************************************************************************)
(* Paying implements the payout.                                            *)
(****************************************************************************)

LEMMA AbstractInit == Init => Abstract!Init
  BY DEF Init, CoreInit, Abstract!Init, Days

(* A step that accepts a spend is a Pay of that wallet.                     *)
LEMMA AbstractPay ==
  ASSUME IInv, NEW p \in Procs, pc[p] = "send", NEW w \in Wallets, Current(p, w),
         Accept(job[p].cycle, w, PlanAmount(job[p].cycle, w, job[p].cap)), UNCHANGED ledger
  PROVE  Abstract!Next
<1> DEFINE c == job[p].cycle
<1>1. TypeOK /\ PlanTrue(p) /\ LoopTrue(p)
  BY DEF IInv
<1>2. c \in Days /\ ledger[c] = "settled"
  BY <1>1 DEF TypeOK, CoreTypeOK, Jobs, PlanTrue, Labels, Days
<1>3. spends[c][w] = 0 /\ w \in Instructed(c)
  BY <1>1 DEF LoopTrue, Current, Loop
<1>4. w \in Owes(c)
  BY <1>3 DEF Instructed, Owes
<1>5. spends' = [spends EXCEPT ![c][w] = 1]
  BY <1>1, <1>2, <1>3 DEF Accept, TypeOK, CoreTypeOK, Days
<1>6. Abstract!Pay(c, w)
  BY <1>2, <1>3, <1>4, <1>5 DEF Abstract!Pay
<1> QED BY <1>2, <1>6 DEF Abstract!Next

(* A step that marks a day paid closes it.                                  *)
LEMMA AbstractClose ==
  ASSUME TypeOK, IInv', NEW d \in Days, ledger' = [ledger EXCEPT ![d] = "paid"], UNCHANGED spends
  PROVE  Abstract!Next
<1>1. {e \in Days : ledger'[e] = "paid"} = {e \in Days : ledger[e] = "paid"} \union {d}
  BY DEF TypeOK
<1>2. \A w \in Owes(d) : spends[d][w] = 1
  <2>1. LedgerTrue(d)'
    BY DEF IInv
  <2>2. ledger'[d] = "paid"
    BY DEF TypeOK
  <2> QED BY <2>1, <2>2 DEF LedgerTrue, Owes
<1>3. Abstract!Close(d)
  BY <1>1, <1>2 DEF Abstract!Close
<1> QED BY <1>3 DEF Abstract!Next

LEMMA AbstractStep ==
  ASSUME Discipline, IInv, IInv', [Next]_vars
  PROVE  Abstract!Next \/ UNCHANGED <<spends, {d \in Days : ledger[d] = "paid"}>>
<1>0. TypeOK
  BY DEF IInv
<1>act. ASSUME NEW p \in Procs, pc[p] # "idle" PROVE job[p].cycle \in Days
  BY <1>0, <1>act DEF TypeOK, CoreTypeOK, Jobs, Days
<1>1. ASSUME NEW p \in Procs, ExecuteDay(p), spends' # spends PROVE Abstract!Next
  <2>1. /\ WalletAccepts(p) \/ WalletAnswerLost(p) \/ WalletAnswerUnknown(p)
        /\ UNCHANGED ledger
    BY <1>1 DEF ExecuteDay, Execute, BeginSending, NextInstruction, MarkSkipped, MarkSending,
         WalletRejects, MarkSent, MarkFailed, CloseCycle, walletVars
  <2>2. pc[p] = "send" /\ \E w \in Wallets :
          Current(p, w) /\ Accept(job[p].cycle, w, PlanAmount(job[p].cycle, w, job[p].cap))
    BY <1>1, <2>1 DEF WalletAccepts, WalletAnswerLost, WalletAnswerUnknown, MaybeAccept, walletVars
  <2> QED BY <2>1, <2>2, AbstractPay
<1>2. ASSUME NEW p \in Procs, Crash(p), UNCHANGED ledger, spends' # spends PROVE Abstract!Next
  <2>1. pc[p] = "send" /\ \E w \in Wallets :
          Current(p, w) /\ Accept(job[p].cycle, w, PlanAmount(job[p].cycle, w, job[p].cap))
    BY <1>2 DEF Crash, MaybeAccept, walletVars
  <2> QED BY <1>2, <2>1, AbstractPay
<1>3. ASSUME NEW p \in Procs, Heal(p) \/ Report(p), ledger' # ledger PROVE Abstract!Next
  <2>1. /\ pc[p] # "idle" /\ UNCHANGED spends
        /\ ledger' = [ledger EXCEPT ![job[p].cycle] = "paid"]
    BY <1>3 DEF Heal, Report, MarkPaid, walletVars
  <2> QED BY <1>0, <1>act, <2>1, AbstractClose
<1>4. ASSUME NEW d \in Days, Settle(d)
      PROVE  UNCHANGED <<spends, {e \in Days : ledger[e] = "paid"}>>
  BY <1>0, <1>4 DEF Settle, coreVars, walletVars, TypeOK
<1>5. ASSUME NEW p \in Procs, Run(p)
      PROVE  \/ ExecuteDay(p) /\ UNCHANGED ledger
             \/ (Heal(p) \/ Report(p)) /\ UNCHANGED spends
             \/ UNCHANGED <<spends, ledger>>
  BY <1>5 DEF Run, AskBalance, ReadBalance, CheckDay, PlanAndPersist, Plan, OpenCycle,
       PutInstruction, Heal, Stop, GoLive, ExecuteDay, Report, walletVars
<1> QED
  BY <1>1, <1>2, <1>3, <1>4, <1>5
     DEF Next, StartPay, Resolve, vars, coreVars, walletVars

(* PaysOut: under the discipline every behaviour of the payer is one of the *)
(* abstract payout, step by step.                                           *)
THEOREM PaymentImplementsPayout == ASSUME Discipline PROVE Spec => PaysOut
<1>1. Init => Abstract!Init
  BY AbstractInit
<1>2. IInv /\ IInv' /\ [Next]_vars
        => [Abstract!Next]_<<spends, {d \in Days : ledger[d] = "paid"}>>
  BY AbstractStep
<1> QED BY <1>1, <1>2, DisciplinedInv, PTL DEF Spec, PaysOut, Abstract!Spec

================================================================================

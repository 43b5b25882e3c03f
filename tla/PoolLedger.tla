------------------------------- MODULE PoolLedger ------------------------------
(****************************************************************************)
(* `economics settle`: closed days of the network are settled, one row per  *)
(* day, against a pool whose balance is derived from the rows               *)
(* (economics/runner.py, settlement.py, ledger.py).  `settle --season N`    *)
(* settles one day, `settle --all` the days after the last settled one.     *)
(* The command takes no lock: several runs may be under way at once unless  *)
(* the operator sees to it that they are not (Exclusive).  Dry runs change  *)
(* nothing and are left out.                                                *)
(****************************************************************************)
EXTENDS Rewards

CONSTANTS
  Runs,          \* processes that run the command
  Exclusive,
  Single,        \* the days for which someone may run `settle --season`
  Observations,  \* what the oracle and the chain may say of a Tree's day
  LastDay        \* bound: the days of the model are 0..LastDay

ASSUME LedgerAssumption ==
  /\ Exclusive \in BOOLEAN /\ LastDay \in Nat /\ Single \subseteq 0..LastDay
  /\ Observations \subseteq
       [sensors: Nat, beats: 0..HeartbeatsPerDay, wallet: BOOLEAN, eligible: BOOLEAN]

VARIABLES
  ledger,   \* settled_days with day_rewards
  closed,   \* the days before this one are over
  pc,
  job,      \* what a run works with
  said      \* the days before this one an --all run has reported done, 0 for none

vars == <<ledger, closed, pc, job, said>>

NoRow == <<>>
Days == 0..LastDay
NoDay == -1
Labels == {"idle", "observe", "settle", "check", "insert"}

Settled == {d \in Days : ledger[d] # NoRow}

(* Variation: the last day's distribution is taken for the total.           *)
WrongTotal == IF Settled = {} THEN 0 ELSE Distributed(ledger[Max(Settled)].rewards)

(* snapshot(): always derived from the rows.                                *)
PaidOn(days) == SumFunction([d \in days |-> Distributed(ledger[d].rewards)])
Total == PaidOn(Settled)
Snapshot == [total |-> Total, last |-> Max(Settled \union {NoDay})]
Sound(s) == s.total <= Pool

Init ==
  /\ ledger = [d \in Days |-> NoRow]
  /\ closed = 0
  /\ pc = [r \in Runs |-> "idle"]
  /\ job = [r \in Runs |-> NoRow]
  /\ said = [r \in Runs |-> 0]

Goto(r, l) == pc' = [pc EXCEPT ![r] = l]
MayStart(r) == pc[r] = "idle" /\ (Exclusive => \A q \in Runs : pc[q] = "idle")

DayCloses == /\ closed <= LastDay
             /\ closed' = closed + 1
             /\ UNCHANGED <<ledger, pc, job, said>>

(* A run sets out to settle the days of todo; goal is what it will report.  *)
Begin(r, todo, goal) ==
  /\ job' = [job EXCEPT ![r] =
       [todo |-> todo, goal |-> goal, snap |-> Snapshot, obs |-> NoRow]]
  /\ Goto(r, "observe")
  /\ UNCHANGED <<ledger, closed, said>>

(* settle --season: the snapshot is taken before the oracle is asked.  A    *)
(* day that is not closed, or settled already, is not gone into.            *)
StartOne(r, d) ==
  /\ MayStart(r) /\ Sound(Snapshot)
  /\ d \in Single /\ d < closed /\ d \notin Settled
  /\ Begin(r, {d}, 0)

(* Variation: the run begins one day late.                                  *)
WrongPending == {d \in Days : d > Snapshot.last + 1 /\ d < closed} \ Settled

(* The days after the last settled one.                                     *)
Pending == {d \in Days : d > Snapshot.last /\ d < closed} \ Settled

(* settle --all, with something to do and without.                          *)
StartAll(r) ==
  /\ MayStart(r) /\ Sound(Snapshot) /\ Pending # {}
  /\ Begin(r, Pending, closed)

NothingToSettle(r) ==
  /\ MayStart(r) /\ Sound(Snapshot) /\ Pending = {}
  /\ said' = [said EXCEPT ![r] = closed]
  /\ UNCHANGED <<ledger, closed, pc, job>>

Day(r) == Min(job[r].todo)

(* observe_season: the oracle's answers and the seals on the chain.         *)
Observe(r, day) ==
  /\ pc[r] = "observe"
  /\ job' = [job EXCEPT ![r].obs = day]
  /\ Goto(r, "settle")
  /\ UNCHANGED <<ledger, closed, said>>

(* A Tree with heartbeats and no visible wallet stops the run: the day      *)
(* would be recorded without it for ever.                                   *)
Blind(day) == \E t \in Trees : day[t].eligible /\ day[t].beats > 0 /\ ~day[t].wallet

(* --all takes its snapshot after observing, --season has one already.      *)
TakeSnapshot(r) ==
  /\ pc[r] = "settle"
  /\ Sound(Snapshot) /\ ~Blind(job[r].obs)
  /\ job' = IF job[r].goal = 0 THEN job ELSE [job EXCEPT ![r].snap = Snapshot]
  /\ Goto(r, "check")
  /\ UNCHANGED <<ledger, closed, said>>

(* settle_day                                                               *)
Remaining(r) == Pool - job[r].snap.total
Ceiling(r) == DailyCeiling(Day(r), Remaining(r))
Earned(r) == Rewarded(job[r].obs, Ceiling(r))

(* Variation: what was not earned leaves the pool as well.                  *)
WrongClosing(r) == Remaining(r) - Ceiling(r)
Closing(r) == Remaining(r) - Distributed(Earned(r))

Row(r) == [ceiling |-> Ceiling(r), rewards |-> Earned(r), closing |-> Closing(r)]

(* record() reads the ledger again before it writes.                        *)
Check(r) ==
  /\ pc[r] = "check"
  /\ Day(r) \notin Settled /\ Sound(Snapshot)
  /\ Day(r) >= Snapshot.last
  /\ Snapshot.total + Distributed(Earned(r)) <= Pool
  /\ Goto(r, "insert")
  /\ UNCHANGED <<ledger, closed, job, said>>

(* The primary key refuses a row that has come in between.                  *)
Insertable(d) == d \notin Settled

Finish(r) == /\ Goto(r, "idle")
             /\ job' = [job EXCEPT ![r] = NoRow]

Insert(r) ==
  /\ pc[r] = "insert"
  /\ Insertable(Day(r))
  /\ ledger' = [ledger EXCEPT ![Day(r)] = Row(r)]
  /\ LET rest == job[r].todo \ {Day(r)}
     IN \/ /\ rest # {}
           /\ job' = [job EXCEPT ![r].todo = rest]
           /\ Goto(r, "observe")
           /\ UNCHANGED said
        \/ /\ rest = {}
           /\ said' = [said EXCEPT ![r] = job[r].goal]
           /\ Finish(r)
  /\ UNCHANGED closed

(* The run is refused or dies: the oracle or the chain does not answer, a   *)
(* wallet is not visible, record() or the primary key objects.  What it has *)
(* recorded stands.                                                         *)
Fail(r) == /\ pc[r] # "idle"
           /\ Finish(r)
           /\ UNCHANGED <<ledger, closed, said>>

Step(r) ==
  \/ StartAll(r) \/ NothingToSettle(r) \/ \E d \in Days : StartOne(r, d)
  \/ \E day \in [Trees -> Observations] : Observe(r, day)
  \/ TakeSnapshot(r) \/ Check(r) \/ Insert(r) \/ Fail(r)

Next == DayCloses \/ \E r \in Runs : Step(r)

Spec == Init /\ [][Next]_vars

(* The host runs `settle --all` every day.  A run ends, and whatever keeps  *)
(* one from going on does not do so for ever.                               *)
FairSpec ==
  /\ Spec
  /\ WF_vars(DayCloses)
  /\ \A r \in Runs :
       /\ WF_vars(pc[r] # "idle" /\ Step(r))
       /\ SF_vars(StartAll(r))
       /\ SF_vars(\E day \in [Trees -> Observations] : ~Blind(day) /\ Observe(r, day))
       /\ SF_vars(TakeSnapshot(r)) /\ SF_vars(Check(r)) /\ SF_vars(Insert(r))

--------------------------------------------------------------------------------
(* The state is well typed.                                                 *)
DayObservations == [Trees -> Observations]
Rows == [ceiling: Nat, rewards: [Trees -> Nat], closing: Int]
Jobs == [todo: SUBSET Days, goal: 0..(LastDay + 1), snap: [total: Nat, last: Days \union {NoDay}],
         obs: DayObservations \union {NoRow}]
TypeOK ==
  /\ ledger \in [Days -> Rows \union {NoRow}]
  /\ closed \in 0..(LastDay + 1)
  /\ pc \in [Runs -> Labels]
  /\ \A r \in Runs : IF pc[r] = "idle" THEN job[r] = NoRow
                     ELSE job[r] \in Jobs /\ job[r].todo # {}
  /\ said \in [Runs -> 0..(LastDay + 1)]

SpentBy(d) == PaidOn({e \in Settled : e <= d})

(* The fixed supply: never is more distributed than the pool holds.         *)
NeverOverdrawn == SpentBy(LastDay) <= Pool

(* audit() finds nothing: no day exceeds its ceiling and each day closes    *)
(* with what the days up to it have left of the pool.                       *)
AuditsClean ==
  \A d \in Settled : /\ Distributed(ledger[d].rewards) <= ledger[d].ceiling
                     /\ ledger[d].closing = Pool - SpentBy(d)

(* Append-only: whoever settles at the same time, a day has one answer.     *)
OneAnswer == [][\A d \in Settled : ledger'[d] = ledger[d]]_vars

(* A Tree's day with other hours and fewer qualifying sensors.  Its hours   *)
(* are those of its seal, its sensors those the oracle heard for long       *)
(* enough: one may fall without the other (runner.py:192-197).              *)
Dimmed(day, t, sensors, beats) ==
  [day EXCEPT ![t].sensors = sensors, ![t].beats = beats]

(* Downtime costs the others nothing, and as long as it costs the Tree no   *)
(* weight they gain nothing by it: what it forfeits stays in the pool       *)
(* (rewards.py:187-233).  A Tree that was silent all day has no qualifying  *)
(* sensor and no weight, and the others divide its share.                   *)
DowntimeIsOwn ==
  \A r \in Runs : pc[r] \in {"check", "insert"} =>
    \A t, u \in Trees : t # u =>
      \A sensors \in 0..job[r].obs[t].sensors, beats \in 0..HeartbeatsPerDay :
        LET given == Reward(Dimmed(job[r].obs, t, sensors, beats), Ceiling(r), u)
        IN /\ given >= Earned(r)[u]
           /\ SensorWeight(sensors) = SensorWeight(job[r].obs[t].sensors)
                => given = Earned(r)[u]

(* An --all run that reports success has left no closed day unsettled.      *)
CurrentIsComplete == \A r \in Runs, d \in Days : d < said[r] => d \in Settled

(* Every day that is over is settled in the end.                            *)
AllSettled == <>[](Settled = Days)

================================================================================

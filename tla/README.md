# The Orchard in TLA+

The Orchard is a network of small sensor stations ("Trees") that sign a reading every minute, an
oracle that collects the readings and counts the hours each Tree was up, writers that put the
signed evidence on Chia's DataLayer, payers that turn uptime into $JUICE, and a verifier with which
anyone checks the evidence. This directory models the parts of that system where money, uptime,
evidence and ownership are decided, checks the models with TLC and proves their most important
properties with TLAPS.

Every definition is translated from the code named in `PROJECT.json` ("map"); where the code and
its comments disagree, the model follows the code. Definitions whose name begins with `Wrong` (or
`NoRetry`, `TxReady`) are variations that a plausible slip in the code would produce. No specification uses
them; they exist to show that the properties below can fail.

- [1 The system](#1-the-system)
- [2 The modules and the code](#2-the-modules-and-the-code)
- [3 What TLC checks](#3-what-tlc-checks)
- [4 What is proved](#4-what-is-proved)
- [5 Where code and documentation part](#5-where-code-and-documentation-part)
- [6 What is not modelled, and the plan](#6-what-is-not-modelled-and-the-plan)

## 1 The system

### Inventory

| Component | State | Operations | What is hard | What makes it correct |
|---|---|---|---|---|
| Spending core (`allocation/planner.py`, `audit.py`, `executor.py`, `wallet/rpc.py`) | audit store: cycles and instructions; the wallet daemon's balance | plan, persist, execute with retries | a crash between the RPC and the commit; an answer that never comes; two runs at once | no instruction is paid twice; a row never denies money that moved |
| Day payment (`economics/runner.py pay`, `payment.py`) | `settled_days.paid_at` | check the day, plan, execute, heal, mark paid | reruns after a crash at any point | a day is called paid when and only when all its wallets are |
| Allocation service (`allocation/service.py`, `collector.py`, `__main__.py`) | its lock file, pause file, audit store | run, schedule, pause, confirmations | overlapping timers; what another process left in doubt; identity of a cycle | one instruction in doubt at most; the store accounts for the wallet |
| Run lock (`allocation/lock.py`) | one file | acquire, break, release | steps of several processes between two system calls; dead holders; reused pids | one holder; where an age is configured a dead one does not block for ever |
| Allocation engine (`allocation/engine.py`) | none | largest-remainder apportionment | rounding, ties, nobody up | the whole budget, each share off by less than a mojo |
| Emission and rewards (`economics/emission.py`, `rewards.py`) | none | daily ceiling, reward per Tree | floors, exhaustion | what hours miss stays in the pool, and nobody is paid less for it |
| Pool ledger and settlement (`economics/ledger.py`, `settlement.py`, `runner.py settle`) | `settled_days`, `day_rewards` | settle one day, settle all, audit | concurrent settles, stale snapshots, gaps | fixed supply, append-only, a chain of balances |
| Legacy payout (`payout/`) | watermark database | read, plan, mark, send | a crash among the marks or before the send; re-bound wallets | no season of a Tree is paid twice; the marks account for the money |
| DataLayer publisher (`datalayer/publish.py`, `publish_watermark.py`, `confirm.py`, `retry.py`) | watermark of hours, the writer lock, the store's root | harvest, plan, batch update, confirm, mark | lost answers, a second batch on the old root, a crash before the watermark | each closed hour on chain, once, unchanged |
| Season attester (`datalayer/main.py`, `attest.py`, `seal.py`, `reconcile.py`) | the store | seal a Season from what is on chain, report | hours that land between reading and writing; an hour that cannot be read | a seal over everything that is on chain, or none |
| Tree registry (`routes/provision.py`, `register.py`, `nodes.py`, `admin.py`, firmware `provisioning.cpp`) | nodes, claims, the Tree's provisioned flag | announce, claim, poll, register, delete, retire | requests that read, wait for a third party, then write | rows that belong together stay together; no silent change of owner |
| Reading ingest (`routes/readings.py`, `auth.py`, `uptime_calc.py`, firmware `identity.cpp`, `oracle.cpp`) | last_seq, readings, uptime hours; the Tree's counter in flash | post, authenticate, deduplicate, count | retries, replays, reboots, several workers, re-registration | credit only for what was heard, once |
| Attestation records (`routes/attestations.py`), oracle catch-up (`sync_oracle.py`) | attestations | record, read the chain and post | a lost report, insert races | every seal is known to the oracle in the end |
| Bundle schema and verifier (`schema.py`, `merkle.py`, `verify.py`, `inclusion.py`, `fetch.py`, `verify_latest.py`, `cli/orchard_verify.py`) | none | season, hour, reading, latest | records of different versions; a store that moves while it is read | VALID only what is signed, backed and on chain; honest stores are not refused |
| Wallet sessions (`routes/auth.py`, `sessions.py`) | challenges in memory | challenge, verify | reuse, expiry, several workers | a challenge serves once |
| Rate limiter (`ratelimit.py`) | windows per key | allow, prune | the window's edge | no more than the limit per window |
| Beacon and Pass caches (`routes/beacon.py`, `pass_verify.py`) | one cached answer | get, refresh | the source fails | stale answers are bounded |
| Firmware network (`wifi_mgr.cpp`, `improv_serial.cpp`, `serial_console.cpp`, `ota.cpp`) | connection state, serial router, update window | connect, provision, update | timers against events | the Tree comes back on line |
| DataLayer plumbing, monitor, dashboard, panel, flasher, NFTs, puzzles, simulator | little or none | | | |

### How the parts interact

A **Tree** announces itself with a claim code until an operator's **wallet** claims it (registry),
then posts signed readings (ingest). The **oracle** answers `/seasons` and `/uptime` queries from the
uptime table; it is a FastAPI process whose plain `def` routes run in a thread pool, on a SQLite
database in which a plain `SELECT` holds no lock and the write lock is taken by the first write of
a transaction. The **settle** command reads uptime and the evidence on chain and appends a day to the
**pool ledger**; the **pay** command takes a settled day to the **spending core**, which writes every
intention to the **audit store** before it calls the **wallet daemon**. The allocation service is a
second client of the same core and runs under a **run lock** (`allocation/lock.py`). There is no lock around `settle` and `pay`.

The **publisher** (hourly) and the **attester** (daily) write the operator's **store**, a key-value map whose root
is on chain; they exclude each other with a file of the same kind, the writer lock. A write is a batch that the DataLayer daemon
accepts and a block takes later, or never. The publisher puts the readings of closed hours there, the
attester a seal over a season's hours; the attester reports the seal to the oracle, and **sync-oracle** repeats
what was lost. The **verifier** reads the store key by key, checks records against each other and proves them
under the root; it asks the oracle nothing.

## 2 The modules and the code

| Module | Models | Its state in the code |
|---|---|---|
| `SpendExecutor` | planner, audit store, executor, wallet | `cycleState`, `state`, `amount`, `tx`: columns of `cycles` and `instructions`; `balance`, `spends`: the daemon; `pc`, `job`, `bal`, `blocked`, `todo`, `attempt`, `outcome`: the memory of a run |
| `Payment` (extends it) | the pay command | `ledger`: the row of `settled_days` and its `paid_at` |
| `Payout` | what paying promises | `received`, `closed` |
| `Allocation` (extends `SpendExecutor` and `Shares`), `MCAllocation`, `AllocationProofs` | the allocation service: commands, scheduler, collector, run lock, pause file | `clock`: the moment that names a cycle; `paused`: the pause file; `command`: what a process was started as; `lock`: whose lock file there is, that of a process that has died included |
| `Shares` | the allocation engine as operators | |
| `LegacyPayout`, `MCLegacyPayout`, `LegacyPayoutProofs` | the season harvest | `row`: `paid_attestations`; `onChain`, `bound`: the store and the oracle's wallets; `seen`, `plan`, `todo`, `wallet`, `left`: a run's memory |
| `MCPayment` | values for TLC | |
| `PaymentProofs` | theorems | |
| `RunLock` (theorems in `AllocationProofs`) | the lock file | `file`: what is at the path (creator, pid in it, orphaned, older than the threshold); `seen`: the pid a process has read |
| `TreeSequence` | the Tree's counter | `stored`: flash; `mark`, `counter`: memory; `sent`: every body that left |
| `ReadingIngest` (extends it), `ReadingIngestProofs` | network, oracle and routes | `lastSeq`, `rows`, `count`, `slots`; `pending`: what a worker has authenticated |
| `Sums` | lemmas about sums over finite sets | |
| `Rewards` | emission and rewards as operators | |
| `PoolLedger` (extends `Rewards`), `MCPoolLedger`, `PoolLedgerProofs` | the settle command | `ledger`: `settled_days` with `day_rewards`; `job`: a run's snapshot and observations; `said`: the days it has reported done |
| `Merkle` | the tree of `merkle.py` and its audit paths, as operators | |
| `Schema` (extends it) | records, roots, verified hours and the basis of a seal; a record's readings are a list, whose repeated entries differ in `copy` | |
| `DataLayer` (extends it) | the store and the client's calls | `chain`: the map at the confirmed root; `mempool`: batches that wait |
| `Publisher` (extends it) | a run of `publish-readings`, and the writing both writers share | `now`, `heard`, `card`: the oracle; `pc`, `job`, `base`, `batch`, `before`, `todo`: a run; `watermark`: its database |
| `EvidencePipeline` (extends it), `MCEvidence` | the attester, sync-oracle, the oracle's records | `rows`: attestations; `fetched`: what sync-oracle holds |
| `Evidence`, `EvidenceProofs` | what the store promises; theorems about the writers, the verifier and the trees | `published`, `sealed` |
| `Verifier` (extends `EvidencePipeline`), `MCVerifier` | every verification command | `asked`, `stage`, `wanted`, `bundle`, `proven`: one verification; `verdict`: its exit code |
| `TreeRegistry`, `TreeRegistryProofs` | routes, administrator's tool, the Tree's loop | `node`, `retired`, `claim`, `claimedBy`, `fresh`: rows; `device`: the Tree; `announce`, `request`: what a handler has read and not yet written |

**Grain.** A step ends where another actor can come in: at each commit to a database, at each read
whose result is used later, at each answer of a remote party and at each file system call of the
lock. `SpendExecutor` has one action per label of the run:
`balance, plan, open, put*, gate, begin, (next, [skip] | mark, send, sent | fail)*, close, report`.
What is left out within a step are values nobody decides on: formatting, journal lines, metrics.

**Processes, crashes and messages.** A process that dies loses its variables and keeps the store
(`Exit`, `Crash`, `Die`, `ServerDies`). A spend has five outcomes: accepted, refused, accepted with the
answer lost, answered without a transaction id (accepted or not), and interrupted by the caller's
death (accepted or not). A reading may be delivered late, several times or never. A Tree may lose
power between two numbers or be rebooted, and finds in flash what it had stored.

The store takes a batch that applies to its root whole or not at all, an insert needing an absent key and a
delete a present one, also among the entries of one batch (`again`: a key that is upserted twice); batches of a crashed run or with a lost answer stay in the mempool and land in any
order. Reads of the store may fail, and a soft read (`get_value`) that fails looks like an absent key.

**Composition.** `SpendExecutor` is composed with the pay command in `Payment` and with the service in `Allocation`. The lock of
`allocation/lock.py` is a module of its own. `Allocation` takes and releases it in one step, which is what `RunLock` shows where nobody
breaks locks; the service never does (it names no age), so a dead process's file stays until the operator removes it (`ClearLock`).
`Publisher` assumes of the writer lock that it has one holder, and that a dead one's is broken: it has an age. `Verifier` runs beside the writers of `EvidencePipeline`. The pool ledger and the registry
meet the others through values only (uptime, wallets, days owed), which are inputs of the models.

**External parts.** The wallet daemon, the DataLayer daemon and its mempool, the operator who resolves a row left in doubt, the
clock and the power supply are modelled from how the code uses them and marked so in the map. `Resolve` is the
manual procedure the executor's halt message asks for, `ClearLock` the one the busy lock's does, `Reconcile` the legacy payout's.

## 3 What TLC checks

Run `tlc -config X.cfg M` in this directory. Every run finishes within two or three minutes.

| Run | Module and configuration | Distinct states | Question |
|---|---|---|---|
| `payment` | `MCPayment`, `MCPayment_serial.cfg` | 1,204,917 | one payer at a time and any fault but a lost answer: are wallets paid once, days closed honestly, rows true? |
| `payment_concurrent` | `MCPayment`, `MCPayment_concurrent.cfg` | 45,778 | two payers at once with lost answers: is every spend still traced, and is the day paid in the end? |
| `payment_lost` | `MCPayment`, `MCPayment_lost.cfg` | violation | can a spend whose answer is lost be paid twice? |
| `allocation` | `MCAllocation` | 186,930 | two processes over two cycles: does the store account for the wallet, is one instruction in doubt at most, is the split fair, does every cycle end and give back its lock? |
| `legacy_payout` | `MCLegacyPayout` | 288,416 | any one fault and changing wallets: is each season of a Tree paid once, and in the end? |
| `evidence` | `MCEvidence` | 219,484 | publisher, attester and sync-oracle over one store, with one fault of any kind anywhere: does the store keep its promise, and does the evidence get there? |
| `verifier` | `MCVerifier` | 43,839 | every verification over honest, earlier and wrong stores while they are written: are verdicts true? |
| `lock` | `RunLock` | 34,898 | three processes, two crashes, reused pids, on Windows: one holder, and stale locks broken? |
| `ingest` | `ReadingIngest` | 32,328 | one server process: does uptime equal what was heard, once, across reboots and re-registrations? |
| `pool` | `MCPoolLedger`, `MCPoolLedger_serial.cfg` | 50,415 | one settle at a time: does a Tree's downtime cost only itself, and do all days get settled? |
| `pool_concurrent` | `MCPoolLedger`, `MCPoolLedger_concurrent.cfg` | 209,265 | two `settle --all` at once: supply, the chain of balances, true reports? |
| `registry` | `TreeRegistry` | 103,632 | two operators, the administrator and a dying server: do tables agree, owners stay, codes get claimed? |

### The properties

*Paying.* `AtMostOnce`: no second spend to a wallet for a day. `PaidMeansSent`: `paid_at` only when every
wallet owed has been sent. `AuditTellsTruth`: sent and skipped rows moved money, planned and failed
rows did not. `PaysOut`: the command implements
`Payout`, which knows nothing of stores, retries or crashes. `SpendLeavesTrace`: money that moved is
never behind a row that is missing or merely planned. `EventuallyPaid`: a settled day is paid.

*Allocation.* `SpendingIsRecorded`: what left the wallet lies between the rows called sent and those plus the ones in
doubt, over all cycles, commands, crashes and repairs by hand. `OneInDoubt`: while the fate of an instruction is open no other is
handed out, although nothing but the run lock keeps two processes apart. `SharesAreFair`: over a set of fleets and every
budget up to 5 the engine gives out the whole budget, is less than a mojo off each exact share, and never gives more
uptime less money. `CyclesEnd`: every cycle ends and gives back the lock; that of a
process that died stays until the operator has deleted it, and stops all cycles (section 5).

*Legacy payout.* `OncePerPair`, `RowsAccount` (a wallet has received at least what its rows with a transaction say and at most what all
its rows say), `HarvestedInTheEnd`.

*Evidence.* `ImplementsEvidence`: published hours are final, and a seal is over hours that are published, in whatever
order batches of several runs land. `SealsAll`: a seal is over everything on chain of its season, or is not made.
`WatermarkBacked`: an hour that every later run will skip is on chain. `ClaimsBacked`: what `latest:` tells the public is.
`EvidenceComplete`: once a card and a `latest:` are on chain, an hour with a reading gets there too and into its seal, whatever run
died on the way, as long as it is in the publisher's window; a first publish may never land (section 5, "a first publish").
`OracleInformed`: the oracle comes to know every seal.

*Verifier.* `ValidIsCurrent`: everything behind a VALID is on chain under one root, although it was read piece by piece.
`ValidIsEarned`: under a node card with the Tree's key, no season is VALID with more hours than the Tree signed readings in, nor, where
no reading is listed twice, than it signed enough readings in; no reading is that it did not sign.
`ValidIsBacked`: in stores that declare the schema of the readings, a seal that predates them is not called VALID. `HonestIsValid`: an honest store that stands still
is not refused. `TreesAreExact`: a tree is that of RFC 6962, and an audit path proves one leaf.

*Lock.* `SingleHolder`, `HolderIsNamed`, `StaleIsBroken`.

*Ingest.* `HoursMatchReadings`, `CountedOnce`, `CreditIsEarned`: hours are the readings, readings are
bodies that were sent, one row each. `CatchesUp`: after a reboot, one block of numbers puts the Tree past
every number it has used. `HeardAgain`: so it is not locked out.

*Pool.* `NeverOverdrawn`, `AuditsClean` (the ledger's own audit), `DowntimeIsOwn` (when a Tree has fewer
hours or fewer sensors, nobody else is paid less, and nobody more unless it loses weight by it), `CurrentIsComplete` (a report "nothing to settle" is true), `OneAnswer`
(append-only), `AllSettled`.

*Registry.* `ConsumedIsBound`: a code the poll calls claimed belongs to a Tree with an owner.
`TablesAgree`: a node that announced has its claim and a claim has its node. `NoSilentTransfer`: no
request moves a Tree from one wallet to another. `ComesIntoService`: a code that is shown gets claimed.

### Bounds, and why they are enough

- *Payment*: two days, two wallets, one day owing only one of them, amounts 1 and 2. Two wallets are
  the least with a "between", two days the least for a doubt in one to matter to the other. A run caps an instruction at 1 or
  at 2, so that a cycle is planned again under another maximum. The
  balance (4 of 5 owed) runs out in the second day. Four faults exceed the three attempts of a run.
  With two payers the balance covers two payments of the day, so that a second spend is not stopped
  by poverty.
- *Allocation*: two processes (each a command or a scheduler), two cycles at different fleets, two wallets, a budget of 5 with a balance of
  6, so that the second cycle finds too little; two faults, so that one can follow upon the trace of another. The fleets hold a Tree
  that is silent, one without a visible wallet and one about which the oracle does not answer. `SharesAreFair` tries up to three
  Trees of three wallets with every uptime of 0 to 3 thirds, where remainders tie; the theorem of section 4 is for every fleet and budget.
- *Legacy payout*: two Trees of two seasons, so that one wallet has pairs of both Trees; two wallets and a string that is not an
  address; one fault.
- *Evidence*: three hours in two seasons of two. The first run finds one closed hour or, if it comes late, several; later runs catch up
  with two, all that the window (`PublishLookback`) shows. Two pending batches, the least that can be reordered; one fault, which can
  be a failed read, a lost answer or a crash at any step.
- *Verifier*: one season of two hours with five readings (an odd last node on two levels) and one (below the threshold of two). The wrong stores
  claim an hour too many, each in another way: by a false number, a foreign or a repeated reading, a threshold of nothing, or another
  key on the node card. They satisfy the hypotheses of section 4 (`MCStoresAssumption`). The publisher looks back one hour here,
  since a first publish of both is refused and would leave the empty store empty.
- *Lock*: three processes, since breaking goes wrong between a dead holder and two others.
- *Ingest*: blocks of two numbers (256, `identity.cpp:27`), two posts a boot, so a boot uses up its block or
  does not; two boots after the first, three slots in two hours of two slots (six in the code), two registrations or
  deletions. One worker, as `docs/DEPLOY_ORACLE.md:163` starts it; the theorem of section 4 covers any number with sequence numbers required.
- *Pool*: three days of one-day years with two rates, so the schedule ends inside the run, and a pool of 13
  that is exhausted inside it. Two Trees, with observations that cover none, partial and full uptime, a hidden
  wallet and ineligibility.
- *Registry*: one Tree set up by its code and one over USB, two operators, each with a request per Tree,
  one deletion by the administrator of any set of Trees, one crash. Trees do not share rows; the second
  is there because the ways of setting one up differ.

`MaxFaults`, `MaxCrashes`, `MaxBoots`, `MaxPosts`, `MaxClock`, `MaxResets`, `LastDay`, `LastHour`, `MaxPending`, `StartHour` and
`MaxDeletes` are bounds of the models. `ReadingIngest` is allowed to end when its bounded Tree has nothing left to post; all other
runs check for deadlock.

### Fairness

- *Paying* is a manual command: `EventuallyPaid` assumes an operator who pays again and again while a day
  is unpaid (`SF` of `PayLive`) and looks up rows in doubt (`SF` of `Resolve`), and that a run that goes on
  ends (`WF` of `Run`). Faults are fewer than the attempts of a run; a wallet that always refuses pays nobody.
- *Allocation*: `CyclesEnd` assumes only that a process inside a cycle goes on (`WF` of `RunCycle`): its two loops are bounded and each
  call has a timeout.
- *Legacy payout* is a manual command: an operator runs it again, confirms it and reconciles what it left in doubt.
- *Evidence*: publish, attest and sync-oracle are started by timers, so each finds the writer lock free again and again
  (`SF`); every call of a run has a timeout, so a started run gets on (`WF`); a batch that fits the root is mined in the end, one that does not is dropped (`Evict`).
- *Lock*: processes take their steps, files age, and a reader of the file does not meet every attempt to
  remove it.
- *Ingest*: the Tree posts every minute while it is up; the network and the server do not fail its
  newest body for ever. There is no fairness for reboots or registrations.
- *Pool*: the host's scheduled task runs `settle --all` every day (`tools/schedule_windows.ps1`), and neither the
  oracle nor the chain fails a day for ever.
- *Registry*: the Tree's loop announces and polls on a timer, its operators keep entering the code, and a
  request that has started is finished unless the server dies.

## 4 What is proved

TLAPS checks the theorems for every value of the constants that satisfies the named assumptions (sets of Trees, wallets, days and readings
are finite; amounts are numbers; `None` is none of the values it is compared with).

- `PaymentProofs`. *TypeCorrect* and *SpendsAreTraced* for any number of payers and any faults. *NeverPaidTwice*,
  *PaidDaysAreSent*, *RowsAreTrue* and *PaymentImplementsPayout* under `Discipline`: one payer at a time and no lost answer. The
  run `payment_lost` and the note on two payers in section 5 show that neither half can be dropped. The invariant
  `IInv` says, for each label of a run, what the rows it has passed and has yet to visit look like:
  `AtMostOnce` is not inductive, because whether a spend is the first depends on the row and
  on where the run is, and a run's right to send depends on its plan having found no row in doubt.
  The refinement maps the wallet's acceptance to `Pay`, marking the day to `Close`, and every other step to a stutter.
- `AllocationProofs`, the service. *TypeCorrect* and *OneAtATime* (`OneInDoubt`) for any number of processes, cycles, crashes, lost answers and repairs by hand. The invariant says
  that at most one process is inside a cycle, and that a run whose plan is not blocked has found no row in doubt and has made none since but
  the one it is at. It is the lock that makes the first part true, since a run that is inside a cycle has its name in it (`OneRun`): a variation without it violates the run. *SpendingAccounted* (`SpendingIsRecorded`) and
  *BudgetKept* where the wallet's answers arrive (`AnswersArrive`): a wallet of a cycle has then been paid once or not, as its row tells unless
  it is in doubt, and what left the wallet is, to the mojo, the sum of the amounts of the rows that were paid. No amount is more than the engine's share, and the
  shares are no more than the budget. With answers lost the run `payment_lost` shows the second spend.
- `AllocationProofs`, the engine. *DivisionIsFair*: for any finite set of records and any budget the division is what `Apportions` asks. The wallets' ranks by
  remainder are one to one, so the first k ranks are those of exactly k wallets; the floors leave fewer mojos than there are wallets with
  a remainder, so the round of leftovers never comes to a wallet twice and never to one whose share was exact. *PlansAreFair* applies it to what a cycle plans, *SharesFair* (`SharesAreFair`) to the samples of the run.
- `AllocationProofs`, the lock. *LockTypeCorrect*; *Exclusion* and *HolderKnown* where locks are never broken or open files cannot be unlinked, for any
  number of processes, crashes and reused pids. The invariant says that the file at the path is that of the process
  that has a handle on it.
- `ReadingIngestProofs`. *BlockCatchesUp*: the invariant bounds how far a boot's n-th number can lie behind those of earlier boots
  (less than a block, less n). *UptimeMatches* for any number of workers. *OneWorkerCountsOnce* and *CreditEarned* with one, for any
  deliveries, registrations and deletions; *SequenceCountsOnce* for any number of workers where sequence numbers
  are required and the Tree is registered once: there `last_seq` bounds every row, without it two workers can
  count a body twice (section 5).
- `PoolLedgerProofs`. *AppendOnly*, from the primary key alone. *CompleteReports*: with `settle --all` only, by any number of processes,
  the settled days have no gap, each run's remaining days begin no later than the first unsettled one, and so what it reports is true.
  *CeilingKept* for any day: the floors sum to no more than the day's ceiling. *DowntimeStaysOwn* (`DowntimeIsOwn`): fewer sensors of one Tree lower its weight or leave it, so that the divisor of the others'
  rewards falls or stays, and heartbeats enter a Tree's own reward alone.
  *DowntimeStaysOwn*, *PoolKept* (`NeverOverdrawn`) and *TypeCorrect*, with `AuditsClean`, under `Orderly`: one process, or several of which none names a season. The
  invariant says that the settled days chain, each balance being the one before less what its day distributed, and that a run whose snapshot is still the end of
  that chain may append to it; one whose snapshot is old meets the primary key.
- `LegacyPayoutProofs`. *TypeCorrect*, *NeverPaidTwice* (`OncePerPair`), *MarksComeFirst* and *WatermarkAccounts* (`RowsAccount`) for one payer at a time and any faults. `OncePerPair` is not inductive; the invariant adds
  that a pair without a mark is unpaid, that what a run has yet to pay is unpaid, and that all pairs of the wallet it spends to are marked by then. For the account it
  adds that a wallet has received, to the mojo, what the rows of its paid pairs say, and that a pair has no row until the run comes to its wallet and then the one the plan gives it.
- `TreeRegistryProofs`. *RowsStayTogether*, *ClaimedHasOwner*, *HandsAreKept* (`NoSilentTransfer`) and *TypeCorrect* where a Tree is set up in one of two ways and
  one with a code is not deleted by its owner. The invariant adds what unfinished requests may have read: an announce's two reads
  agree with each other, and only Trees with codes have claims. For owners it adds that the node of an open code is free, that
  a Tree set up over USB is never without an owner once it is known, and that a registration goes on only when it has seen no owner or its own.
- `EvidenceProofs`, the writers. *HoursStay* and *WatermarksAreBacked* for any faults and any number of waiting batches: no batch that waits replaces the readings of an hour,
  and one that inserts them does not apply once they are there. *StoreKeepsPromise* (`ImplementsEvidence`) where placeholders are not opted into: a seal in a
  waiting batch is over hours that were on chain when it was read and, being final, still are. The refinement maps a landing batch with readings to
  `Publish`, one with a seal to `Seal`, and every other step to a stutter. `AttestsAreValues`, that a season's record is not the absent value, is a hypothesis
  because `None` is an unspecified constant. *SealsAreComplete* (`SealsAll`) where a listing shows every key. *ClaimsAreBacked* (`ClaimsBacked`): the
  invariant carries a claim from the moment it is counted, over the hours that are on chain or in its own batch, to the moment its batch lands.
- `EvidenceProofs`, the verifier. *VerifierTypeCorrect*. *VerdictIsCurrent* (`ValidIsCurrent`) for any stores at all: only the comparison with a proof whose root is confirmed once more at
  the end leads to a 0. *VerdictIsEarned* (`ValidIsEarned`) and *VerdictIsBacked* (`ValidIsBacked`) whatever lands while the records are read, for any stores that start as `VerifierInit` says (`Sound`):
  an entry under the Tree's key repeats a reading it sent, since a signature is not made up; readings lie under their hours; and a seal of the first schema claims no hour too many. The verifier checks neither of the last two (section 5). What the card
  says is not assumed: the verdict is about the Tree whose key is on it. Entries are counted as the code counts them, so that without repeated entries an hour has as many readings as the threshold asks, and with them at least one.
  `StoresDeclare`, for the second theorem only: a store with readings declares the schema that brought them; where it does not, section 5 tells what is called VALID.
  The invariants say that every writer keeps stores so (`WriteInv`, `DeclInv`), and that what has been read and what is yet to be read covers the question (`ReadInv`); a season's hours that are
  counted are then among those in which the Tree was heard.
- `EvidenceProofs`, the trees. *AuditPathsAreExact*: for every sequence of leaves, the root that pairing and promoting computes is the tree hash that RFC 6962 defines by splitting, and
  folding an audit path takes its own leaf to it and no other hash. The invariant of the levels: where each hash stands for `q` leaves, `q` a power of two, the p-th is the tree hash of
  the `q` leaves from `(p - 1) * q + 1` on, and the last one that of the leaves that are left, at most `q` (`IsLevel`); pairing keeps it for `2 * q`, since `q` is where the definition splits, and after as many
  levels as there are leaves one hash is left. The invariant of the path: it takes the leaf to its place on the level reached, and no two hashes to one. A loop is a recursive function
  here; that there is one, and only one, is shown once for all the loops (`LoopExists`, `LoopsAgree`), by a smallest number of rounds for which it failed (`Induction`).
  *PublishedTreesAreExact* (`TreesAreExact`) where `Readings` is finite: whatever batch lands brings finitely many readings (`FiniteInv`).
- `Sums`. The lemmas about `SumFunctionOnSet` and products over finite sets that the proofs above use. The library's induction rules have an operator as parameter, so each is
  proved from well-foundedness of strict inclusion: a smallest subset for which it failed would be empty or have a smaller one.

Only model-checked: everything temporal (`EventuallyPaid`, `CyclesEnd`, `HarvestedInTheEnd`, `EvidenceComplete`, `OracleInformed`, `StaleIsBroken`, `HeardAgain`, `AllSettled`, `ComesIntoService`: liveness
under fairness and `ENABLED` are out of the prover's reach); `HonestIsValid`, which rests on the fact that two sets of hours with one season root are the same set.
No module declares a RECURSIVE operator.

`PoolLedger.TypeOK`, `EvidencePipeline.TypeOK` and `Verifier.VerifierTypeOK` say what the variables hold and are in no configuration.

## 5 Where code and documentation part

One divergence has a run that exhibits it (`payment_lost`; `PROJECT.json`, "findings"): a lost answer is retried
and pays twice. Others can be seen with the property and the constants named in brackets; the rest were met while modelling.

Paying:

- *A wedge.* A run that dies after paying the first of two wallets leaves a sent row; every later plan of the day is blocked by it
  (`allocation/planner.py:139`), and the heal wants every row sent. `economics/payment.py:9` says that "re-running a crashed payment resumes it instead of
  paying twice"; the day is never completed. [`EventuallyPaid` of `MCPayment_concurrent.cfg` with "crash" in `FaultKinds`]
- *Two payers.* `economics pay` takes no lock (`economics/runner.py:635`). Two runs of one day can both find nothing paid
  (`allocation/executor.py:180`) and both send; or one skips what the other is about to fail to send and then calls the day paid.
  The properties of `payment` therefore hold for one payer at a time.
- *Unknown balance.* `allocation/planner.py:187` compares only a balance that is known; the executor's comment says that the planner
  treats an unknown one as unusable.
- *Dry runs leave rows.* `put_instruction` ignores a row that exists (`allocation/audit.py:209`), so an amount planned by a dry run under a
  higher maximum stays in the store while a lower one is sent. `open_cycle` replaces a settled cycle's row by a planned one (`audit.py:179`).
- *A rerun pays again.* The allocation service takes the present for the end of its period, so each run is a cycle of its own and
  `already_paid` finds nothing of the last one, though `run_cycle` is "Safe to call repeatedly" (`allocation/service.py:155`) and two runs over one
  period "must collide" (`allocation/audit.py:110`). [`Allocation!PaidOncePerPeriod`]
- *Hours are paid again.* `hours_online` is that of the whole season, capped at the period, so hours of earlier periods count in every later cycle
  (`allocation/collector.py:197`). The default source sends no token, and the oracle then hides all wallets: everybody is skipped.
- *The scheduler stops on any block.* It leaves its loop for a pause file or a short balance too, and `resume` does not start it again, though only
  "a HALT does stop it" (`allocation/service.py:273`). [`Allocation!StopsOnlyInDoubt`]
- *Legacy payout.* A record without a basis pays its `verified_hours`, where `paid_hours` says zero (`payout/calculator.py:65`). An attestation that cannot be read looks absent.
  No lock keeps two payers apart.

The lock:

- *POSIX.* Two processes can break one stale lock, or one release another's, since an open file can be unlinked (`allocation/lock.py:111`, `:146`), though it is "a single-holder lock"
  (`lock.py:2`). [`SingleHolder` with `Windows = FALSE`]
- *A dead run stops the payouts.* The allocation service names no age (`allocation/service.py:166`), so the file of a run that died is never removed: every later cycle is refused
  until the operator deletes it by hand, as the message asks (`lock.py:126`). `CyclesEnd` therefore promises the lock only of processes that live.
- *Stale lock kept.* On POSIX the pid of a dead holder may belong to a new process (`allocation/lock.py:104`), and the lock stays.

The oracle, the Tree and the pool:

- *Numbers repeat.* After a boot the Tree resumes one block below its watermark (`identity.cpp:323`) and uses numbers it has used, though "never" is said in `identity.h:52`; the
  oracle answers 409 to them. [`TreeSequence!NeverRepeats` in `ReadingIngest.cfg`]
- *Overdrawn pool.* `record` checks outside the transaction of its insert (`economics/ledger.py:202`); two settles of which one names a season can together pay out more
  than the pool holds, though the invariant is said to be enforced at write time (`ledger.py:15`). [`NeverOverdrawn` with `Single = {0, 1, 2}`]
- *Refused but counted.* A reading that is too old is refused after `last_seq` was advanced, and the commit of the refusal counter commits the advance
  (`routes/readings.py:61`, `:190`).
- *Two workers.* With several server processes, a body checked by two of them before a re-registration resets `last_seq`
  (`routes/register.py:331`) is counted twice. The deployment starts one process (`docs/DEPLOY_ORACLE.md:163`).
- *Stale snapshot.* `settle --season` takes its snapshot before the oracle answers (`economics/runner.py:305`); another settle in between breaks the chain of
  balances. A day skipped with `--season` is never settled by `--all` (`runner.py:373`).
- *A silent Tree's share goes to the others.* A Tree without a credited hour has no qualifying sensor (`sensor_classes.py:87`, `:139`), so it is not in the divisor (`economics/rewards.py:195`) and
  the others divide the whole day's ceiling, though "a Tree's downtime is forfeited to the pool, never to another Tree" (`rewards.py:177`). It is so for a Tree that keeps its weight: `DowntimeIsOwn` says no more.
- *More sensors, more pay for all.* Adding a sensor to one Tree can raise the total distributed, since weights are normalised before heartbeats are applied (`economics/rewards.py:221`).
- *Owner's delete.* `DELETE /nodes/{id}` removes the node "and all its child rows" (`routes/nodes.py:244`) but not its claim; the
  administrator's tool does (`admin.py:44`). A Tree that has been claimed and deleted before it polled announces again: its node comes
  back without an owner, its consumed code stays consumed, the poll reports it claimed, the Tree stops announcing and no code can claim it again.
  The registry's properties hold for Trees with codes that only the administrator deletes.
- *Claim over registration.* `/provision/claim` overwrites the node's wallet (`routes/provision.py:176`) without the ownership guard of
  `/register` (`routes/register.py:253`). A Tree that announced and was then registered by one wallet can be claimed by another with the code that is still open.
  The registry's properties hold where each Tree is set up in one way.

The evidence:

- *An unbacked season is VALID.* A seal without a basis passes, and the root is not compared when it is the placeholder's (`datalayer/verify.py:264`), so a season of the first schema is
  VALID whatever hours it claims, though `schema.py:406` says "Never treat as proven." [`ValidIsBacked` with `HonestStores <- MCLegacyStores` and
  without `StoresDeclare` among the assumptions of `MCVerifier`]
- *Dead handlers.* `get_value` never raises, so the handlers around it (`datalayer/publish.py:549`, `main.py:452`) do not run, and a value that cannot be read is taken for
  absent: `latest:` can regress or undercount.
- *A first publish.* A run upserts the node card and `latest:` once for each hour, against what it found before the first (`datalayer/publish.py:247`, `:260`). Where it found nothing and several hours are
  due it inserts each key twice, though "a key change is delete-then-insert" (`docs/datalayer/reference/CHIA_DATALAYER_RPC.md:114`), and a daemon that keeps to that refuses the batch. So it does at every retry, as long as
  the window of 48 hours shows more than one hour; a Tree that keeps up then never gets its first hour on chain. [`EvidenceComplete` without `Begun`]
- *Never caught up.* A reading that reaches the oracle after its hour was published never gets on chain; an unchanged seal is not reported again, so "re-running the writer will catch up" does
  not (sync-oracle does). The seal of placeholders, when opted in, can overwrite a backed seal if the mempool reorders two runs.
- *sync-oracle* asks for the oracle's default page of 50 rows and posts again what is beyond it; a concurrent insert of one attestation meets the unique constraint and is a 500.
- *Pages.* Keys of a second page are not normalised (`datalayer/rpc.py:350`), so hours on it are not found in a store of more keys than a page.
  [`SealsAll` with `FirstPage <- MCShortPage`]
- *Honest stores refused.* The season command exits 1 for an honest store when hours were published after the seal or the store moves between two reads; verify-latest
  excuses the anchor check alone (`verify_latest.py:13`).
- *Two hours from one.* Readings are counted by the hour of the record that lists them, and none is checked to lie in that hour (`datalayer/schema.py:347`), only in its season:
  a reading that is listed under two hours of a season counts in both. The model's readings lie under their hours.
- *An hour from one reading.* Entries of a record are counted, not readings (`datalayer/schema.py:354`), and nothing looks for repetition: one signed reading listed as often as the threshold asks makes an
  hour that is VALID, though the count is to say that "an hour of near-silence cannot be sold as an hour of sensing" (`schema.py:284`). [`ValidIsEarned` without `~repeats`]
- *Whose key.* The key the readings are verified by comes from the node card of the same store (`datalayer/verify.py:179`); nothing ties it to the Tree the oracle knows. `ValidIsEarned` is about the Tree whose key is on the card.
- *Signatures.* The publisher does not check the signatures of the readings it publishes; the seal counts only those that verify.

## 6 What is not modelled, and the plan

Not modelled, for good: sensor drivers, the dashboard, the panel, the flasher and the web view (no state that a
property of the system tells apart), the simulator (a test tool), migrations and read-only pages.
Within the modelled components: the values and locations in readings, the declared location of a node, the device's public key,
several Trees in one store (their keys do not meet, except `meta:`), the matching of an anchor to a block, `track_confirmations`, the history of
cycles, `reconcile.py` and `uptime.py` (they only read), the gate against an oracle that names no Tree (`provenance.py`), wording and journals.
The model confirms every value of a batch; `confirm.py:157` looks at up to 32 of them, spread over the batch.

Candidates, in this order, each left out because what it decides neither pays nor seals anything:

1. Wallet sessions: challenges that serve once, in several workers; with the rate limiter's window.
2. The Tree's network: the asynchronous connect, the byte router between Improv and the console, the update window.
3. The caches of the beacon and of the Pass check; the mint's record; the heartbeat puzzle, which nothing spends yet.
4. The owner's delete and a claim over a registration (section 5) inside the registry's run, once the routes guard against them.

Theorems worth adding: that honest stores are not refused (`HonestIsValid`): an audit path takes its leaf to the root (`AuditPathsAreExact`), and what is left is that a season
root tells the hours under it apart, which holds only because readings carry their hour, since a season's leaves are the hours' roots without a prefix of their own (`datalayer/schema.py:260`);
the amount a plan sends against its caps.

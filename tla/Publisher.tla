------------------------------- MODULE Publisher -------------------------------
(****************************************************************************)
(* The hourly publisher (orchard_chia/datalayer/publish.py) and the steps   *)
(* it shares with the daily attester: both write one store under one lock   *)
(* file, so that at most one of them runs, and both read the root before    *)
(* they send, wait until it has moved, and look at what they wrote.         *)
(*                                                                          *)
(* A run reads the Tree's closed hours from the oracle, builds one batch    *)
(* of what is new, sends it, and when it has confirmed marks its hours in   *)
(* the watermark, a cache of its own that later runs skip by.               *)
(****************************************************************************)
EXTENDS DataLayer

CONSTANTS
  Device,           \* the key of the Tree
  Signer,           \* the season key, which meta: names
  Readings,         \* the readings it may send; a bound of the model
  PublishLookback   \* --lookback-hours, 48

ASSUME PublisherAssumption ==
  /\ Device # None
  /\ \A r \in Readings : r.at \in Hour /\ Original(r) = r
  /\ PublishLookback \in Nat

(* A record of readings is a value.                                         *)
ASSUME RecordsAssumption == \A R \in SUBSET Readings : ReadingsRecord(R) # None

VARIABLES
  now,        \* the hours that have closed
  heard,      \* the readings the oracle holds
  card,       \* the Tree's key as the oracle knows it
  pc,         \* where the run that holds the writer lock is
  job,        \* which of the two it is
  base,       \* the hours per season it counted on chain
  batch,      \* what it writes
  before,     \* the store at the root read before the write
  todo,       \* the hours to mark, the seasons to report
  watermark   \* the hours in the publisher's database

oracleVars == <<now, heard, card>>
runVars == <<pc, job, base, batch, before, todo>>

NoCount == [s \in Season |-> 0]

ClosedHours == {h \in Hour : now - PublishLookback < h /\ h <= now}
CurrentSeason == SeasonOf(now + 1)
InHour(h) == {r \in heard : r.at = h}

-----------------------------------------------------------------------------
(* The oracle's side: a reading arrives, in its hour or later; the oracle   *)
(* learns the Tree's key; an hour closes.                                   *)
Hear(r) ==
  /\ r.at <= now + 1
  /\ r \notin heard
  /\ heard' = heard \union {r}
  /\ UNCHANGED <<storeVars, faults, now, card, runVars, watermark>>

LearnKey ==
  /\ card = None
  /\ card' = Device
  /\ UNCHANGED <<storeVars, faults, now, heard, runVars, watermark>>

CloseHour ==
  /\ now < LastHour
  /\ now' = now + 1
  /\ UNCHANGED <<storeVars, faults, heard, card, runVars, watermark>>

-----------------------------------------------------------------------------
(* What a publish writes, given the values it could read.                   *)

MetaRecord(at) == [declares |-> TRUE, at |-> at, signer |-> Signer]
NodeRecord == [pubkey |-> card]

(* The time of a declaration is kept as long as it declares the same.       *)
StableMeta(prior) ==
  IF prior # None /\ prior = MetaRecord(prior.at) THEN prior ELSE MetaRecord(now)

(* The last sealed season before s that can be seen.                        *)
SealedClaim(view, s) ==
  LET sealed == {t \in Season : s - ClaimDepth <= t /\ t < s /\ view[AttestKey(t)] # None}
  IN IF sealed = {} THEN None ELSE CHOOSE t \in sealed : \A u \in sealed : u <= t

(* Variation: the hour of the day, as if the Tree had been up all of it.    *)
WrongLatestRecord(h, view) ==
  [season |-> SeasonOf(h), hour |-> h, running |-> h - HoursPerSeason * (SeasonOf(h) - 1) + 1,
   sealed |-> SealedClaim(view, SeasonOf(h)), at |-> now]

LatestRecord(h, view) ==
  [season |-> SeasonOf(h), hour |-> h, running |-> base[SeasonOf(h)] + 1,
   sealed |-> SealedClaim(view, SeasonOf(h)), at |-> now]

(* Variation: the last closed hour alone.                                   *)
WrongHarvest(missed) == {h \in {now} \ (watermark \union missed) : InHour(h) # {}}

(* Closed hours that are not marked, that the oracle answered for, and that *)
(* it holds readings of.                                                    *)
Harvest(missed) ==
  {h \in ClosedHours \ (watermark \union missed) : InHour(h) # {}}

(* An hour is appended once, and only where the key to it is or comes along.*)
NewHours(harvest, view) ==
  {h \in harvest : view[ReadingsKey(h)] = None /\ (card # None \/ view[NodeKey] # None)}

PublishKeys(harvest, new) ==
  {MetaKey} \union (IF harvest # {} /\ card # None THEN {NodeKey} ELSE {})
    \union {ReadingsKey(h) : h \in new} \union (IF new # {} THEN {LatestKey} ELSE {})

PublishValue(k, new, view) ==
  CASE k = MetaKey   -> StableMeta(view[MetaKey])
    [] k = NodeKey   -> NodeRecord
    [] k = LatestKey -> LatestRecord(CHOOSE h \in new : \A g \in new : g <= h, view)
    [] OTHER         -> ReadingsRecord(InHour(k[2]))

(* The node card is written once per hour, and latest: once per new hour.   *)
Again(k, harvest, new) ==
  \/ k = NodeKey /\ Cardinality(harvest) > 1
  \/ k = LatestKey /\ Cardinality(new) > 1

PublishBatch(harvest, new, view) ==
  LET Value(k) == PublishValue(k, new, view)
  IN [k \in {k \in PublishKeys(harvest, new) : Value(k) # view[k]} |->
        Upsert(view[k], Value(k), Again(k, harvest, new))]

-----------------------------------------------------------------------------
(* Steps of the run.  A run that cannot read the oracle, finds no Trees, or *)
(* cannot list the store has changed nothing.                               *)

Release ==
  /\ pc' = "idle" /\ job' = "none" /\ base' = NoCount
  /\ batch' = NoBatch /\ before' = EmptyStore /\ todo' = {}

PublishStart ==
  /\ pc = "idle"
  /\ pc' = "counted" /\ job' = "publish"
  /\ base' = [s \in Season |-> Cardinality(HoursOnChain(s))]
  /\ UNCHANGED <<storeVars, faults, oracleVars, batch, before, todo, watermark>>

PublishPlanBut(missed, blind) ==
  /\ pc = "counted"
  /\ \E view \in {ValuesBut(blind)} : \E harvest \in {Harvest(missed)} :
     \E new \in {NewHours(harvest, view)} : \E planned \in {PublishBatch(harvest, new, view)} :
       IF DOMAIN planned = {}
       THEN Release
       ELSE /\ pc' = "ready" /\ batch' = planned /\ todo' = new
            /\ UNCHANGED <<job, base, before>>
  /\ Fault(Cardinality(missed) + Cardinality(blind))
  /\ UNCHANGED <<storeVars, oracleVars, watermark>>

PublishPlan ==
  \E missed \in Unread(ClosedHours), blind \in Unread(Key) : PublishPlanBut(missed, blind)

(* The root before the write; without it nothing is sent.                   *)
Baseline ==
  /\ pc = "ready"
  /\ pc' = "based" /\ before' = chain
  /\ UNCHANGED <<storeVars, faults, oracleVars, job, base, batch, todo, watermark>>

(* batch_update, sent once: taken, refused, or its answer is lost.          *)
Send ==
  /\ pc = "based"
  /\ \/ /\ Take(batch)
        /\ pc' = "sent"
        /\ UNCHANGED <<faults, job, base, batch, before, todo>>
     \/ /\ ~Applies(batch) \/ Cardinality(mempool) >= MaxPending
        /\ Release
        /\ UNCHANGED <<mempool, faults>>
     \/ /\ Take(batch) \/ UNCHANGED mempool
        /\ Fault(1)
        /\ Release
  /\ UNCHANGED <<chain, oracleVars, watermark>>

(* wait_for_root: the confirmed root is another than the one before.        *)
Moved == chain # before

(* Variation: a write is not looked at again.                               *)
WrongConfirm ==
  /\ pc = "sent"
  /\ Moved
  /\ pc' = "done"
  /\ UNCHANGED <<job, base, batch, before, todo, storeVars, faults, oracleVars, watermark>>

(* The root has moved: the values are there, or this is an error.           *)
Confirm ==
  /\ pc = "sent"
  /\ Moved
  /\ IF Confirmed(batch)
     THEN pc' = "done" /\ UNCHANGED <<job, base, batch, before, todo>>
     ELSE Release
  /\ UNCHANGED <<storeVars, faults, oracleVars, watermark>>

(* The root has not moved in time.  That the batch waits longer than a run  *)
(* counts as a fault; one that left the root as it was can do nothing else. *)
GiveUp ==
  /\ pc = "sent"
  /\ ~Moved
  /\ Fault(IF batch \in mempool THEN 1 ELSE 0)
  /\ Release
  /\ UNCHANGED <<storeVars, oracleVars, watermark>>

(* An hour of the confirmed batch is marked, each in a transaction.         *)
Mark ==
  /\ pc = "done" /\ job = "publish"
  /\ \/ todo = {} /\ Release /\ UNCHANGED watermark
     \/ \E h \in todo :
          /\ \A g \in todo : h <= g
          /\ watermark' = watermark \union {h}
          /\ todo' = todo \ {h}
          /\ UNCHANGED <<pc, job, base, batch, before>>
  /\ UNCHANGED <<storeVars, faults, oracleVars>>

(* The process dies, or a read fails that it does not go on without.        *)
Abort ==
  /\ pc # "idle"
  /\ Fault(1)
  /\ Release
  /\ UNCHANGED <<storeVars, oracleVars, watermark>>
================================================================================

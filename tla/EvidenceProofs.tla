----------------------------- MODULE EvidenceProofs -----------------------------
(****************************************************************************)
(* Publisher, attester and store, for any readings, windows, page of keys,  *)
(* number of waiting batches and faults.  Everything rests on the insert of *)
(* an hour's readings: a batch that writes them never deletes, so that it   *)
(* can only land where the hour is absent.  What a batch was built on may   *)
(* be long past when it lands; the readings it was built on are still there.*)
(* And the verifier beside them, for any stores it may find; and the trees, *)
(* for any number of leaves.                                                *)
(****************************************************************************)
EXTENDS Verifier, Sums

LEMMA KeysDiffer ==
  ASSUME NEW h \in Hour, NEW s \in Season
  PROVE  /\ ReadingsKey(h) # AttestKey(s) /\ ReadingsKey(h) # MetaKey
         /\ ReadingsKey(h) # NodeKey /\ ReadingsKey(h) # LatestKey
         /\ AttestKey(s) # MetaKey /\ AttestKey(s) # NodeKey /\ AttestKey(s) # LatestKey
         /\ ReadingsKey(h) \in Key /\ AttestKey(s) \in Key
         /\ \A g \in Hour : ReadingsKey(g) = ReadingsKey(h) => g = h
         /\ \A t \in Season : AttestKey(t) = AttestKey(s) => t = s
  BY DEF ReadingsKey, AttestKey, MetaKey, NodeKey, LatestKey, Key

(****************************************************************************)
(* An hour is written once.                                                 *)
(****************************************************************************)

OnChain(h) == chain[ReadingsKey(h)] # None

(* What a batch has of readings it inserts, and they are some.              *)
WriteOnce(b) ==
  \A h \in Hour : ReadingsKey(h) \in DOMAIN b =>
    LET entry == b[ReadingsKey(h)]
    IN entry.replace = FALSE /\ entry.value # None /\ entry.value.readings # {}

(* The hours a run is going to mark are in its batch until it has seen them *)
(* on chain.                                                                *)
TodoTrue ==
  job = "publish" =>
    /\ pc \in {"ready", "based", "sent"} =>
         todo \subseteq Hour /\ \A h \in todo : ReadingsKey(h) \in DOMAIN batch
    /\ pc = "done" => todo \subseteq Hour /\ \A h \in todo : OnChain(h)

HoursInv ==
  /\ \A b \in mempool \union {batch} : WriteOnce(b)
  /\ \A h \in Hour : OnChain(h) => chain[ReadingsKey(h)].readings # {}
  /\ pc = "sealing" => job = "attest"
  /\ TodoTrue
  /\ watermark \subseteq Hour /\ WatermarkBacked
  /\ heard \subseteq Readings

(* The batch a run of the publisher plans.                                  *)
LEMMA PlannedOnce ==
  ASSUME NEW view, NEW missed, NEW new, new = NewHours(Harvest(missed), view),
         heard \subseteq Readings
  PROVE  LET b == PublishBatch(Harvest(missed), new, view)
         IN  /\ WriteOnce(b)
             /\ new \subseteq Hour /\ \A h \in new : ReadingsKey(h) \in DOMAIN b
             /\ \A s \in Season : AttestKey(s) \notin DOMAIN b
<1> DEFINE harvest == Harvest(missed)
           b == PublishBatch(harvest, new, view)
           V(k) == PublishValue(k, new, view)
           A(k) == Again(k, harvest, new)
<1>1. \A h \in new : h \in Hour /\ InHour(h) # {} /\ view[ReadingsKey(h)] = None
  BY DEF NewHours, Harvest, ClosedHours
<1>2. ASSUME NEW h \in Hour PROVE V(ReadingsKey(h)) = ReadingsRecord(InHour(h))
  BY KeysDiffer, <1>2 DEF PublishValue, ReadingsKey, MetaKey, NodeKey, LatestKey
<1>3. \A h \in Hour : ReadingsRecord(InHour(h)) # None
  BY RecordsAssumption DEF InHour
<1>4. b = [k \in {k \in PublishKeys(harvest, new) : V(k) # view[k]} |->
               Upsert(view[k], V(k), A(k))]
  BY DEF PublishBatch
<1>5. DOMAIN b = {k \in PublishKeys(harvest, new) : V(k) # view[k]}
  BY <1>4
<1>6. \A k \in DOMAIN b : b[k] = Upsert(view[k], V(k), A(k))
  BY <1>4
<1> HIDE DEF b, V, A
<1>7. ASSUME NEW h \in Hour, ReadingsKey(h) \in DOMAIN b PROVE h \in new
  BY <1>5, <1>7 DEF PublishKeys, ReadingsKey, MetaKey, NodeKey, LatestKey
<1>8. ASSUME NEW h \in new PROVE ReadingsKey(h) \in DOMAIN b
  BY <1>1, <1>2, <1>3, <1>5, <1>8 DEF PublishKeys
<1>9. ASSUME NEW h \in Hour, ReadingsKey(h) \in DOMAIN b
      PROVE  /\ b[ReadingsKey(h)].replace = FALSE
             /\ b[ReadingsKey(h)].value = ReadingsRecord(InHour(h))
  <2>1. PICK k, again : k = ReadingsKey(h) /\ again = A(k)
    OBVIOUS
  <2>2. b[k] = Upsert(view[k], V(k), again)
    BY <1>6, <1>9, <2>1
  <2>3. view[k] = None /\ V(k) = ReadingsRecord(InHour(h))
    BY <1>1, <1>2, <1>7, <1>9, <2>1
  <2>4. \A v, a : Upsert(None, v, a).replace = FALSE /\ Upsert(None, v, a).value = v
    BY DEF Upsert
  <2>5. b[k] = Upsert(None, ReadingsRecord(InHour(h)), again)
    BY <2>2, <2>3
  <2> QED BY <2>1, <2>4, <2>5
<1>10. WriteOnce(b)
  <2> SUFFICES ASSUME NEW h \in Hour, ReadingsKey(h) \in DOMAIN b
               PROVE  /\ b[ReadingsKey(h)].replace = FALSE /\ b[ReadingsKey(h)].value # None
                      /\ b[ReadingsKey(h)].value.readings # {}
    BY DEF WriteOnce
  <2>1. h \in new
    BY <1>7
  <2>2. b[ReadingsKey(h)].replace = FALSE /\ b[ReadingsKey(h)].value = ReadingsRecord(InHour(h))
    BY <1>9
  <2>3. ReadingsRecord(InHour(h)).readings = InHour(h)
    BY DEF ReadingsRecord
  <2> QED BY <1>1, <1>3, <2>1, <2>2, <2>3
<1>11. \A s \in Season : AttestKey(s) \notin DOMAIN b
  BY <1>5 DEF PublishKeys, ReadingsKey, MetaKey, NodeKey, LatestKey, AttestKey
<1> QED BY <1>1, <1>8, <1>10, <1>11 DEF b

(* A block that takes a batch leaves an hour that is on chain as it is.     *)
LEMMA LandKeeps ==
  ASSUME NEW b, WriteOnce(b), Land(b), NEW h \in Hour
  PROVE  /\ OnChain(h) => chain'[ReadingsKey(h)] = chain[ReadingsKey(h)]
         /\ ~OnChain(h) /\ chain'[ReadingsKey(h)] # None =>
              /\ chain'[ReadingsKey(h)] = b[ReadingsKey(h)].value
              /\ chain'[ReadingsKey(h)].readings # {}
<1> DEFINE k == ReadingsKey(h)
<1>1. k \in Key
  BY DEF Key
<1>2. chain'[k] = IF k \in DOMAIN b THEN b[k].value ELSE chain[k]
  BY <1>1 DEF Land, After
<1>3. k \in DOMAIN b => chain[k] = None
  BY DEF Land, Applies, WriteOnce
<1> QED BY <1>2, <1>3 DEF OnChain, WriteOnce

(* Every step keeps what is published.                                      *)
HoursKept == \A h \in Hour : OnChain(h) => chain'[ReadingsKey(h)] = chain[ReadingsKey(h)]

LEMMA StepKeeps == ASSUME HoursInv, [Next]_vars PROVE HoursKept
<1>1. ASSUME NEW b \in mempool, Land(b) PROVE HoursKept
  BY <1>1, LandKeeps DEF HoursInv, HoursKept
<1>2. CASE UNCHANGED chain
  BY <1>2 DEF HoursKept
<1>3. (\E b \in mempool : Land(b)) \/ UNCHANGED chain
  BY DEF Next, vars, storeVars, Environment, Hear, LearnKey, CloseHour, Settles, Evict, Writer,
         PublishStart, PublishPlan, PublishPlanBut, Baseline, Send, Confirm, GiveUp, Mark, Abort,
         AttestStart, AttestPlan, AttestPlanBut, Report, SyncFetch, SyncPost
<1> QED BY <1>1, <1>2, <1>3

(* Steps that leave the store as it is and the hours to mark to no run.     *)
LEMMA ReleaseInv ==
  ASSUME HoursInv, Release, UNCHANGED <<chain, watermark, heard>>,
         mempool' \subseteq mempool \union {batch}
  PROVE  HoursInv'
<1>1. WriteOnce(batch')
  BY DEF Release, NoBatch, WriteOnce
<1>2. \A b \in mempool' \union {batch'} : WriteOnce(b)
  BY <1>1 DEF HoursInv
<1>3. TodoTrue' /\ pc' # "sealing"
  BY DEF Release, TodoTrue
<1> QED BY <1>2, <1>3 DEF HoursInv, OnChain, WatermarkBacked

(* The batch of the attester holds no readings.                             *)
LEMMA SealsHoldNoReadings ==
  ASSUME NEW seasons, seasons \subseteq Season, NEW unread, NEW view
  PROVE  \A h \in Hour : ReadingsKey(h) \notin DOMAIN AttestBatch(seasons, unread, view)
<1>1. DOMAIN AttestBatch(seasons, unread, view) = {AttestKey(s) : s \in seasons}
  BY DEF AttestBatch
<1> QED BY <1>1 DEF AttestKey, ReadingsKey

LEMMA SeasonsAreSeasons ==
  ASSUME NEW missed, NEW unread, NEW view
  PROVE  SeasonsToSeal(missed, unread, view) \subseteq Season
BY DEF SeasonsToSeal, ClosedSeasons

LEMMA HoursStep == ASSUME HoursInv, [Next]_vars PROVE HoursInv'
<1>0. HoursKept
  BY StepKeeps
<1> USE DEF storeVars, oracleVars, runVars, syncVars
<1>1. CASE \E r \in Readings : Hear(r)
  BY <1>1 DEF Hear, HoursInv, TodoTrue, OnChain, WatermarkBacked
<1>2. CASE LearnKey \/ CloseHour \/ UNCHANGED vars
  BY <1>2 DEF LearnKey, CloseHour, vars, HoursInv, TodoTrue, OnChain, WatermarkBacked
<1>3. ASSUME NEW b \in mempool, Land(b), UNCHANGED <<oracleVars, runVars, watermark>> PROVE HoursInv'
  <2>1. mempool' \subseteq mempool
    BY <1>3 DEF Land
  <2>2. \A h \in Hour : OnChain(h)' => chain'[ReadingsKey(h)].readings # {}
    <3> SUFFICES ASSUME NEW h \in Hour, OnChain(h)' PROVE chain'[ReadingsKey(h)].readings # {}
      OBVIOUS
    <3>1. CASE OnChain(h)
      BY <1>0, <3>1 DEF HoursKept, HoursInv
    <3>2. CASE ~OnChain(h)
      BY <1>3, <3>2, LandKeeps DEF HoursInv, OnChain
    <3> QED BY <3>1, <3>2
  <2>3. \A h \in Hour : OnChain(h) => OnChain(h)'
    BY <1>0 DEF HoursKept, OnChain
  <2>4. TodoTrue'
    BY <1>3, <2>3 DEF HoursInv, TodoTrue
  <2>5. WatermarkBacked'
    BY <1>3, <2>3 DEF HoursInv, WatermarkBacked, OnChain
  <2> QED BY <1>3, <2>1, <2>2, <2>4, <2>5 DEF HoursInv
<1>4. ASSUME NEW b \in mempool, Evict(b), UNCHANGED <<oracleVars, runVars, watermark>> PROVE HoursInv'
  BY <1>4 DEF Evict, HoursInv, TodoTrue, OnChain, WatermarkBacked
<1>5. CASE PublishStart
  BY <1>5 DEF PublishStart, HoursInv, TodoTrue, OnChain, WatermarkBacked
<1>6. ASSUME NEW missed, NEW blind, PublishPlanBut(missed, blind) PROVE HoursInv'
  <2>1. UNCHANGED <<chain, mempool, watermark, heard>>
    BY <1>6 DEF PublishPlanBut
  <2>2. CASE Release
    BY <2>1, <2>2, ReleaseInv
  <2>3. CASE ~Release
    <3> DEFINE view == ValuesBut(blind)
               new == NewHours(Harvest(missed), view)
               b == PublishBatch(Harvest(missed), new, view)
    <3>1. pc' = "ready" /\ batch' = b /\ todo' = new
      BY <1>6, <2>3 DEF PublishPlanBut
    <3>2. /\ WriteOnce(b)
          /\ new \subseteq Hour /\ \A h \in new : ReadingsKey(h) \in DOMAIN b
      BY PlannedOnce DEF HoursInv
    <3> HIDE DEF b, new
    <3>3. WriteOnce(batch') /\ TodoTrue'
      BY <3>1, <3>2 DEF TodoTrue
    <3> QED BY <2>1, <3>1, <3>3 DEF HoursInv, OnChain, WatermarkBacked
  <2> QED BY <2>2, <2>3
<1>7. CASE Baseline
  BY <1>7 DEF Baseline, HoursInv, TodoTrue, OnChain, WatermarkBacked
<1>8. CASE Send
  <2>1. UNCHANGED <<chain, watermark, heard>> /\ mempool' \subseteq mempool \union {batch}
    BY <1>8 DEF Send, Take
  <2>2. CASE Release
    BY <2>1, <2>2, ReleaseInv
  <2>3. CASE ~Release
    <3>1. pc = "based" /\ pc' = "sent" /\ UNCHANGED <<job, batch, todo>>
      BY <1>8, <2>3 DEF Send
    <3> QED BY <2>1, <3>1 DEF HoursInv, TodoTrue, OnChain, WatermarkBacked
  <2> QED BY <2>2, <2>3
<1>9. CASE Confirm
  <2>1. UNCHANGED <<chain, mempool, watermark, heard>>
    BY <1>9 DEF Confirm
  <2>2. CASE Release
    BY <2>1, <2>2, ReleaseInv
  <2>3. CASE ~Release
    <3>1. pc = "sent" /\ pc' = "done" /\ Confirmed(batch) /\ UNCHANGED <<job, batch, todo>>
      BY <1>9, <2>3 DEF Confirm
    <3>2. TodoTrue'
      BY <2>1, <3>1 DEF HoursInv, TodoTrue, OnChain, Confirmed, WriteOnce
    <3> QED BY <2>1, <3>1, <3>2 DEF HoursInv, OnChain, WatermarkBacked
  <2> QED BY <2>2, <2>3
<1>10. CASE GiveUp \/ Abort
  BY <1>10, ReleaseInv DEF GiveUp, Abort
<1>11. CASE Mark
  <2>1. UNCHANGED <<chain, mempool, heard>>
    BY <1>11 DEF Mark
  <2>2. CASE todo = {} /\ Release /\ UNCHANGED watermark
    BY <2>1, <2>2, ReleaseInv
  <2>3. ASSUME NEW h \in todo, watermark' = watermark \union {h}, todo' = todo \ {h},
               UNCHANGED <<pc, job, base, batch, before>>
        PROVE  HoursInv'
    <3>1. h \in Hour /\ OnChain(h) /\ TodoTrue'
      BY <1>11, <2>1, <2>3 DEF Mark, HoursInv, TodoTrue, OnChain
    <3> QED BY <2>1, <2>3, <3>1 DEF HoursInv, OnChain, WatermarkBacked
  <2> QED BY <1>11, <2>2, <2>3 DEF Mark
<1>12. CASE AttestStart
  BY <1>12 DEF AttestStart, HoursInv, TodoTrue, OnChain, WatermarkBacked
<1>13. ASSUME NEW missed, NEW unread, NEW blind, AttestPlanBut(missed, unread, blind)
       PROVE  HoursInv'
  <2>1. UNCHANGED <<chain, mempool, watermark, heard>> /\ pc = "sealing"
    BY <1>13 DEF AttestPlanBut
  <2>2. CASE Release
    BY <2>1, <2>2, ReleaseInv
  <2>3. CASE ~Release
    <3> DEFINE seasons == SeasonsToSeal(missed, unread, ValuesBut(blind))
    <3>1. /\ pc' = "ready" /\ UNCHANGED job
          /\ batch' = AttestBatch(seasons, unread, ValuesBut(blind))
      BY <1>13, <2>3 DEF AttestPlanBut
    <3>2. WriteOnce(batch')
      BY <3>1, SeasonsAreSeasons, SealsHoldNoReadings DEF WriteOnce
    <3>3. job = "attest"
      BY <2>1 DEF HoursInv
    <3> QED BY <2>1, <3>1, <3>2, <3>3 DEF HoursInv, TodoTrue, OnChain, WatermarkBacked
  <2> QED BY <2>2, <2>3
<1>14. CASE Report
  <2>1. UNCHANGED <<chain, mempool, watermark, heard>> /\ job = "attest"
    BY <1>14 DEF Report
  <2>2. CASE Release
    BY <2>1, <2>2, ReleaseInv
  <2>3. CASE ~Release
    <3>1. UNCHANGED <<pc, job, batch>>
      BY <1>14, <2>3 DEF Report
    <3> QED BY <2>1, <3>1 DEF HoursInv, TodoTrue, OnChain, WatermarkBacked
  <2> QED BY <2>2, <2>3
<1>15. CASE (\E s \in Season : SyncFetch(s)) \/ SyncPost
  BY <1>15 DEF SyncFetch, SyncPost, HoursInv, TodoTrue, OnChain, WatermarkBacked
<1> QED
  BY <1>1, <1>2, <1>3, <1>4, <1>5, <1>6, <1>7, <1>8, <1>9, <1>10, <1>11, <1>12, <1>13, <1>14, <1>15
  DEF Next, Environment, Settles, Writer, PublishPlan, AttestPlan

LEMMA HoursInit == Init => HoursInv
<1> SUFFICES ASSUME Init PROVE HoursInv
  OBVIOUS
<1>1. \A h \in Hour : ~OnChain(h)
  BY KeysDiffer DEF Init, OnChain, EmptyStore, Key, MetaKey, ReadingsKey
<1> QED BY <1>1 DEF Init, HoursInv, WriteOnce, TodoTrue, WatermarkBacked, NoBatch

(* An hour's readings, once on chain, stay as they are, whatever batches of *)
(* however many runs still wait (publish.py:221-226).                       *)
HoursAreFinal == [][HoursKept]_vars

THEOREM HoursStay == Spec => HoursAreFinal
<1>1. HoursInv /\ [Next]_vars => [HoursKept]_vars
  BY StepKeeps
<1> QED BY <1>1, HoursInit, HoursStep, PTL DEF Spec, HoursAreFinal

(* An hour in the publisher's watermark is on chain (publish.py:705-772).   *)
THEOREM WatermarksAreBacked == Spec => []WatermarkBacked
<1>1. HoursInv => WatermarkBacked
  BY DEF HoursInv
<1> QED BY <1>1, HoursInit, HoursStep, PTL DEF Spec

--------------------------------------------------------------------------------
(****************************************************************************)
(* The store keeps the promise of Evidence, where the attester writes no    *)
(* placeholders.  A waiting batch that seals a season was built over hours  *)
(* that were on chain, and they are still there, as they were, when it      *)
(* lands.                                                                   *)
(****************************************************************************)

(* The record of a season is a value.                                       *)
AttestsAreValues ==
  \A season, hours, seal, height : BuildAttest(season, hours, seal, height, Signer) # None

(* The root of some hours that are on chain.                                *)
SealsChain(s, root) ==
  \E hours \in SUBSET (HoursOf(s) \intersect Hour) :
    /\ hours # {} /\ \A h \in hours : OnChain(h)
    /\ root = SeasonRoot([h \in hours |-> chain[ReadingsKey(h)].readings])

(* A batch writes readings or seals, not both, and its seals are true.      *)
SealsTrue(b) ==
  \/ \A s \in Season : AttestKey(s) \notin DOMAIN b
  \/ /\ \A h \in Hour : ReadingsKey(h) \notin DOMAIN b
     /\ \A s \in Season : AttestKey(s) \in DOMAIN b =>
          LET a == b[AttestKey(s)].value
          IN a # None /\ a.source = "readings" /\ SealsChain(s, a.root)

SealsInv == \A b \in mempool \union {batch} : SealsTrue(b)

(* A seal that was true stays true.                                         *)
LEMMA SealsStay ==
  ASSUME HoursKept, NEW b, SealsTrue(b)
  PROVE  SealsTrue(b)'
<1>1. ASSUME NEW s \in Season, NEW root, SealsChain(s, root) PROVE SealsChain(s, root)'
  <2>1. PICK hours \in SUBSET (HoursOf(s) \intersect Hour) :
          /\ hours # {} /\ \A h \in hours : OnChain(h)
          /\ root = SeasonRoot([h \in hours |-> chain[ReadingsKey(h)].readings])
    BY <1>1 DEF SealsChain
  <2>2. \A h \in hours : chain'[ReadingsKey(h)] = chain[ReadingsKey(h)]
    BY <2>1 DEF HoursKept
  <2>3. [h \in hours |-> chain'[ReadingsKey(h)].readings] = [h \in hours |-> chain[ReadingsKey(h)].readings]
    BY <2>2
  <2>4. \A h \in hours : OnChain(h)'
    BY <2>1, <2>2 DEF OnChain
  <2> QED BY <2>1, <2>3, <2>4 DEF SealsChain
<1> QED BY <1>1 DEF SealsTrue

(* The record the attester builds of a season it seals.                     *)
LEMMA AttestIsTrue ==
  ASSUME NEW s \in Season, NEW unread, DiscoveredHours(s) \ unread # {}
  PROVE  /\ Attest(s, unread, now).source = "readings"
         /\ Attest(s, unread, now).root =
              SeasonRoot([h \in DiscoveredHours(s) \ unread |-> chain[ReadingsKey(h)].readings])
<1> DEFINE hours == DiscoveredHours(s) \ unread
           records == [h \in hours |-> chain[ReadingsKey(h)]]
           by_hour == [h \in hours |-> chain[ReadingsKey(h)].readings]
<1>1. DOMAIN records = hours /\ [h \in DOMAIN records |-> records[h].readings] = by_hour
  OBVIOUS
<1>2. Sealed(s, unread) = SealFromReadings(records, card, s)
  BY <1>1 DEF Sealed
<1>3. SealFromReadings(records, card, s).source = "readings"
      /\ SealFromReadings(records, card, s).root = SeasonRoot(by_hour)
  BY <1>1 DEF SealFromReadings
<1>4. /\ Attest(s, unread, now).source = Sealed(s, unread).source
      /\ Attest(s, unread, now).root = Sealed(s, unread).root
  BY DEF Attest, BuildAttest
<1> QED BY <1>2, <1>3, <1>4

LEMMA DiscoveredOnChain == \A s, h : h \in DiscoveredHours(s) => h \in Hour /\ OnChain(h)
  BY DEF DiscoveredHours, Bare, Listed, OnChain

LEMMA SealsStep ==
  ASSUME ~WritePlaceholders, AttestsAreValues, HoursInv, SealsInv, [Next]_vars
  PROVE  SealsInv'
<1>0. HoursKept
  BY StepKeeps
<1> USE DEF storeVars, oracleVars, runVars, syncVars
<1>1. ASSUME mempool' \union {batch'} \subseteq mempool \union {batch} \union {NoBatch} PROVE SealsInv'
  <2>1. SealsTrue(NoBatch)'
    BY DEF SealsTrue, NoBatch
  <2>2. \A b \in mempool \union {batch} : SealsTrue(b)'
    BY <1>0, SealsStay DEF SealsInv
  <2> QED BY <1>1, <2>1, <2>2 DEF SealsInv
<1>2. ASSUME NEW b, UNCHANGED mempool, batch' = b, SealsTrue(b)' PROVE SealsInv'
  BY <1>0, <1>2, SealsStay DEF SealsInv
<1>3. ASSUME NEW missed, NEW blind, PublishPlanBut(missed, blind) PROVE SealsInv'
  <2>1. UNCHANGED mempool
    BY <1>3 DEF PublishPlanBut
  <2>2. CASE Release
    BY <1>1, <2>1, <2>2 DEF Release
  <2>3. CASE ~Release
    <3> DEFINE view == ValuesBut(blind)
               new == NewHours(Harvest(missed), view)
               b == PublishBatch(Harvest(missed), new, view)
    <3>1. batch' = b
      BY <1>3, <2>3 DEF PublishPlanBut
    <3>2. \A s \in Season : AttestKey(s) \notin DOMAIN b
      BY PlannedOnce DEF HoursInv
    <3> HIDE DEF b
    <3>3. \A s \in Season : AttestKey(s) \notin DOMAIN batch'
      BY <3>1, <3>2
    <3>4. SealsTrue(batch)'
      BY <3>3 DEF SealsTrue
    <3>5. \A c \in mempool : SealsTrue(c)'
      BY <1>0, SealsStay DEF SealsInv
    <3> QED BY <2>1, <3>4, <3>5 DEF SealsInv
  <2> QED BY <2>2, <2>3
<1>4. ASSUME NEW missed, NEW unread, NEW blind, AttestPlanBut(missed, unread, blind)
      PROVE  SealsInv'
  <2>1. UNCHANGED <<mempool, chain>>
    BY <1>4 DEF AttestPlanBut
  <2>2. CASE Release
    BY <1>1, <2>1, <2>2 DEF Release
  <2>3. CASE ~Release
    <3> DEFINE view == ValuesBut(blind)
               seasons == SeasonsToSeal(missed, unread, view)
               b == AttestBatch(seasons, unread, view)
    <3>1. batch' = b
      BY <1>4, <2>3 DEF AttestPlanBut
    <3>2. \A h \in Hour : ReadingsKey(h) \notin DOMAIN b
      BY SeasonsAreSeasons, SealsHoldNoReadings
    <3>3. ASSUME NEW s \in Season, AttestKey(s) \in DOMAIN b
          PROVE  LET a == b[AttestKey(s)].value
                 IN  a # None /\ a.source = "readings" /\ SealsChain(s, a.root)
      <4>1. DOMAIN b = {AttestKey(t) : t \in seasons}
        BY DEF AttestBatch
      <4>2. s \in seasons
        BY <3>3, <4>1, SeasonsAreSeasons, KeysDiffer DEF AttestKey
      <4>3. DiscoveredHours(s) \ unread # {}
        BY <4>2 DEF SeasonsToSeal
      <4>4. b[AttestKey(s)].value = Attest(s, unread, now)
        BY <3>3, <4>1 DEF AttestBatch, Upsert, AttestKey
      <4>5. SealsChain(s, Attest(s, unread, now).root)
        <5> DEFINE hours == DiscoveredHours(s) \ unread
        <5>1. hours \in SUBSET (HoursOf(s) \intersect Hour) /\ hours # {}
              /\ \A h \in hours : OnChain(h)
          BY <4>3, DiscoveredOnChain DEF DiscoveredHours
        <5> HIDE DEF hours
        <5>2. Attest(s, unread, now).root = SeasonRoot([h \in hours |-> chain[ReadingsKey(h)].readings])
          BY <4>3, AttestIsTrue DEF hours
        <5> QED BY <5>1, <5>2 DEF SealsChain
      <4>6. Attest(s, unread, now) # None
        BY DEF AttestsAreValues, Attest
      <4> QED BY <4>3, <4>4, <4>5, <4>6, AttestIsTrue
    <3> HIDE DEF b
    <3>4. PICK c : c = b
      OBVIOUS
    <3>5. SealsTrue(c)
      BY <3>2, <3>3, <3>4 DEF SealsTrue
    <3>6. SealsTrue(c)'
      BY <1>0, <3>5, SealsStay
    <3>7. SealsTrue(batch)'
      BY <3>1, <3>4, <3>6 DEF SealsTrue
    <3>8. \A d \in mempool : SealsTrue(d)'
      BY <1>0, SealsStay DEF SealsInv
    <3> QED BY <2>1, <3>7, <3>8 DEF SealsInv
  <2> QED BY <2>2, <2>3
<1>5. CASE Send
  BY <1>1, <1>5 DEF Send, Take, Release
<1>6. CASE (\E b \in mempool : Land(b) \/ Evict(b)) /\ UNCHANGED runVars
  BY <1>1, <1>6 DEF Land, Evict
<1>7. CASE Confirm \/ GiveUp \/ Abort \/ Mark \/ Report
  BY <1>1, <1>7 DEF Confirm, GiveUp, Abort, Mark, Report, Release
<1>8. CASE (\E r \in Readings : Hear(r)) \/ LearnKey \/ CloseHour \/ PublishStart \/ Baseline
           \/ AttestStart \/ (\E s \in Season : SyncFetch(s)) \/ SyncPost \/ UNCHANGED vars
  BY <1>1, <1>8 DEF Hear, LearnKey, CloseHour, PublishStart, Baseline, AttestStart, SyncFetch,
     SyncPost, vars
<1> QED
  BY <1>3, <1>4, <1>5, <1>6, <1>7, <1>8
  DEF Next, Environment, Settles, Writer, PublishPlan, AttestPlan

(* A block publishes, or it seals.                                          *)
LEMMA LandKeepsPromise ==
  ASSUME HoursInv, SealsInv, NEW b \in mempool, Land(b)
  PROVE  Promise!Publish \/ Promise!Seal
<1> DEFINE pub == [h \in Hour |-> IF chain[ReadingsKey(h)] = None THEN {}
                                  ELSE chain[ReadingsKey(h)].readings]
           seals == [s \in Season |-> SealOf(chain[AttestKey(s)])]
<1>1. WriteOnce(b) /\ SealsTrue(b)
  BY DEF HoursInv, SealsInv
<1>2. ASSUME NEW h \in Hour, pub[h] # {} PROVE pub'[h] = pub[h]
  BY <1>1, <1>2, LandKeeps DEF OnChain
<1>3. ASSUME NEW h \in Hour, ReadingsKey(h) \notin DOMAIN b PROVE pub'[h] = pub[h]
  BY <1>3, KeysDiffer DEF Land, After, Key
<1>4. ASSUME NEW s \in Season, AttestKey(s) \notin DOMAIN b PROVE seals'[s] = seals[s]
  BY <1>4, KeysDiffer DEF Land, After, Key
<1>5. CASE \A s \in Season : AttestKey(s) \notin DOMAIN b
  <2>1. seals' = seals
    BY <1>4, <1>5
  <2> QED BY <1>2, <2>1 DEF Promise!Publish
<1>6. CASE ~\A s \in Season : AttestKey(s) \notin DOMAIN b
  <2>1. /\ \A h \in Hour : ReadingsKey(h) \notin DOMAIN b
        /\ \A s \in Season : AttestKey(s) \in DOMAIN b =>
             LET a == b[AttestKey(s)].value
             IN a # None /\ a.source = "readings" /\ SealsChain(s, a.root)
    BY <1>1, <1>6 DEF SealsTrue
  <2>2. pub' = pub
    BY <1>3, <2>1
  <2>3. ASSUME NEW s \in Season, seals'[s] # seals[s]
        PROVE  \E root \in seals'[s] : seals'[s] = {root} /\ Promise!IsSealOf(s, root)
    <3>1. AttestKey(s) \in DOMAIN b
      BY <1>4, <2>3
    <3> DEFINE a == b[AttestKey(s)].value
    <3>2. chain'[AttestKey(s)] = a
      BY <3>1, KeysDiffer DEF Land, After, Key
    <3>3. a # None /\ a.source = "readings" /\ SealsChain(s, a.root)
      BY <2>1, <3>1
    <3> HIDE DEF a
    <3>4. seals'[s] = {a.root}
      BY <3>2, <3>3 DEF SealOf
    <3>5. PICK hours \in SUBSET (HoursOf(s) \intersect Hour) :
            /\ hours # {} /\ \A h \in hours : OnChain(h)
            /\ a.root = SeasonRoot([h \in hours |-> chain[ReadingsKey(h)].readings])
      BY <3>3 DEF SealsChain
    <3>6. \A h \in hours : pub[h] = chain[ReadingsKey(h)].readings /\ pub[h] # {}
      BY <3>5 DEF HoursInv, OnChain
    <3>7. [h \in hours |-> pub[h]] = [h \in hours |-> chain[ReadingsKey(h)].readings]
      BY <3>6
    <3>8. Promise!IsSealOf(s, a.root)
      BY <3>5, <3>6, <3>7 DEF Promise!IsSealOf
    <3> QED BY <3>4, <3>8
  <2> QED BY <2>2, <2>3 DEF Promise!Seal
<1> QED BY <1>5, <1>6

LEMMA PromiseStep ==
  ASSUME HoursInv, SealsInv, [Next]_vars
  PROVE  [Promise!Publish \/ Promise!Seal]_Promise!evidenceVars
<1>1. CASE \E b \in mempool : Land(b)
  BY <1>1, LandKeepsPromise
<1>2. CASE UNCHANGED chain
  BY <1>2 DEF Promise!evidenceVars
<1>3. (\E b \in mempool : Land(b)) \/ UNCHANGED chain
  BY DEF Next, vars, storeVars, Environment, Hear, LearnKey, CloseHour, Settles, Evict, Writer,
         PublishStart, PublishPlan, PublishPlanBut, Baseline, Send, Confirm, GiveUp, Mark, Abort,
         AttestStart, AttestPlan, AttestPlanBut, Report, SyncFetch, SyncPost
<1> QED BY <1>1, <1>2, <1>3

LEMMA PromiseInit == Init => Promise!Start
<1> SUFFICES ASSUME Init PROVE Promise!Start
  OBVIOUS
<1>1. \A h \in Hour : chain[ReadingsKey(h)] = None
  BY KeysDiffer DEF Init, EmptyStore, Key, MetaKey, ReadingsKey
<1>2. \A s \in Season : chain[AttestKey(s)] = None
  BY KeysDiffer DEF Init, EmptyStore, Key, MetaKey, AttestKey
<1> QED BY <1>1, <1>2 DEF Promise!Start, SealOf

LEMMA SealsInit == Init => SealsInv
  BY DEF Init, SealsInv, SealsTrue, NoBatch

(* Without placeholders the store keeps the promise of Evidence, whatever   *)
(* run died and in whatever order the batches land (main.py:372-398,        *)
(* publish.py:221-226).                                                     *)
THEOREM StoreKeepsPromise ==
  ASSUME ~WritePlaceholders, AttestsAreValues PROVE Spec => ImplementsEvidence
<1>1. Init => HoursInv /\ SealsInv /\ Promise!Start
  BY HoursInit, SealsInit, PromiseInit
<1>2. HoursInv /\ SealsInv /\ [Next]_vars => HoursInv' /\ SealsInv'
  BY HoursStep, SealsStep
<1>3. HoursInv /\ SealsInv /\ [Next]_vars
        => [Promise!Publish \/ Promise!Seal]_Promise!evidenceVars
  BY PromiseStep
<1> QED BY <1>1, <1>2, <1>3, PTL DEF Spec, ImplementsEvidence, Promise!EvidenceSpec

(****************************************************************************)
(* What a seal is over, where a listing shows every key of the store.       *)
(****************************************************************************)

LEMMA SealIsOverAll ==
  ASSUME Key \subseteq FirstPage, NEW s \in Season, NEW unread, Readable(s, unread)
  PROVE  Attest(s, unread, now).root =
           IF HoursOnChain(s) = {} THEN PlaceholderRoot(s, HoursOnline(s)) ELSE RootOnChain(s)
<1>1. DiscoveredHours(s) = HoursOnChain(s)
  BY KeysDiffer DEF DiscoveredHours, HoursOnChain, Bare, Listed
<1>2. DiscoveredHours(s) \ unread = HoursOnChain(s)
  BY <1>1 DEF Readable
<1>3. CASE HoursOnChain(s) # {}
  BY <1>2, <1>3, AttestIsTrue DEF RootOnChain
<1>4. CASE HoursOnChain(s) = {}
  <2>1. Sealed(s, unread) = Placeholder(s, HoursOnline(s))
    BY <1>2, <1>4 DEF Sealed
  <2> QED BY <1>4, <2>1 DEF Attest, BuildAttest, Placeholder
<1> QED BY <1>3, <1>4

(* A season is sealed over everything that is on chain of it, or it is not  *)
(* sealed in that run (seal.py:114-170).                                    *)
THEOREM SealsAreComplete == ASSUME Key \subseteq FirstPage PROVE Spec => SealsAll
<1> DEFINE Complete ==
      \A s \in Season : pc = "sealing" /\ pc' = "ready" /\ AttestKey(s) \in DOMAIN batch'
        => batch'[AttestKey(s)].value.root =
             IF HoursOnChain(s) = {} THEN PlaceholderRoot(s, HoursOnline(s)) ELSE RootOnChain(s)
<1>1. ASSUME NEW missed, NEW unread, NEW blind, AttestPlanBut(missed, unread, blind) PROVE Complete
  <2> SUFFICES ASSUME NEW s \in Season, pc' = "ready", AttestKey(s) \in DOMAIN batch'
               PROVE  batch'[AttestKey(s)].value = Attest(s, unread, now) /\ Readable(s, unread)
    BY SealIsOverAll
  <2> DEFINE view == ValuesBut(blind)
             seasons == SeasonsToSeal(missed, unread, view)
             b == AttestBatch(seasons, unread, view)
  <2>1. batch' = b
    BY <1>1 DEF AttestPlanBut, Release
  <2>2. DOMAIN b = {AttestKey(t) : t \in seasons}
    BY DEF AttestBatch
  <2>3. s \in seasons
    BY <2>1, <2>2, SeasonsAreSeasons, KeysDiffer DEF AttestKey
  <2>4. b[AttestKey(s)].value = Attest(s, unread, now)
    BY <2>2, <2>3 DEF AttestBatch, Upsert, AttestKey
  <2> QED BY <2>1, <2>3, <2>4 DEF SeasonsToSeal
<1>2. ASSUME ~(pc = "sealing" /\ pc' = "ready") PROVE Complete
  BY <1>2
<1>3. [Next]_vars /\ pc = "sealing" /\ pc' = "ready"
        => \E missed, unread, blind : AttestPlanBut(missed, unread, blind)
  BY DEF Next, vars, runVars, Environment, Hear, LearnKey, CloseHour, Settles, Evict, Land, Writer,
         PublishStart, PublishPlan, PublishPlanBut, Baseline, Send, Confirm, GiveUp, Mark, Abort,
         AttestStart, AttestPlan, Report, SyncFetch, SyncPost, Release
<1>4. [Next]_vars => [Complete]_vars
  BY <1>1, <1>2, <1>3
<1> QED BY <1>4, PTL DEF Spec, SealsAll

--------------------------------------------------------------------------------
(****************************************************************************)
(* What latest: says.  A claim is computed at the start of a run from what  *)
(* is on chain, and can come on chain long after, behind batches of other   *)
(* runs; it comes together with its hour, which was not there before, so    *)
(* that the hours counted at the start and this one make up what it says.   *)
(****************************************************************************)

(* A season that is named as sealed is.                                     *)
SealSeen(s) == s # None => s \in Season /\ chain[AttestKey(s)] # None

ClaimHolds(v) ==
  /\ v.hour \in Hour /\ OnChain(v.hour)
  /\ v.running \in Nat /\ v.running <= Cardinality(HoursOnChain(v.season))
  /\ SealSeen(v.sealed)

(* What a claim says but for its own hour, which its batch inserts.         *)
Claims(b) ==
  LatestKey \in DOMAIN b =>
    \E h \in Hour : LET v == b[LatestKey].value IN
      /\ v.hour = h /\ v.season = SeasonOf(h) /\ ReadingsKey(h) \in DOMAIN b
      /\ v.running \in Nat /\ v.running - 1 <= Cardinality(HoursOnChain(SeasonOf(h)))
      /\ SealSeen(v.sealed)

(* Seals replace seals.                                                     *)
KeepsSeals(b) == \A s \in Season : AttestKey(s) \in DOMAIN b => b[AttestKey(s)].value # None

BatchClaims(b) == KeepsSeals(b) /\ Claims(b)

ClaimsInv ==
  /\ HoursInv
  /\ \A s \in Season : base[s] \in Nat /\ base[s] <= Cardinality(HoursOnChain(s))
  /\ \A b \in mempool \union {batch} : BatchClaims(b)
  /\ chain[LatestKey] # None => ClaimHolds(chain[LatestKey])

LEMMA HourOfSeason ==
  ASSUME NEW h \in Hour PROVE h \in HoursOf(SeasonOf(h)) /\ SeasonOf(h) \in Season
<1>1. h \in HoursOf(SeasonOf(h))
  BY SchemaAssumption, StoreAssumption DEF Hour, HoursOf, SeasonOf
<1>2. SeasonOf(h) \in Season
  BY SchemaAssumption, StoreAssumption DEF Hour, Season, SeasonOf
<1> QED BY <1>1, <1>2

(* A finite set of integers that is not empty has a greatest element.       *)
LEMMA GreatestExists ==
  ASSUME NEW T, IsFiniteSet(T), T \subseteq Int, T # {}
  PROVE  \E m \in T : \A x \in T : x <= m
<1> DEFINE G == {U \in SUBSET T : U = {} \/ \E m \in U : \A x \in U : x <= m}
<1>1. ASSUME NEW U \in SUBSET T, \A W \in SUBSET U : W # U => W \in G
      PROVE  U \in G
  <2>1. CASE U = {}
    BY <2>1
  <2>2. CASE U # {}
    <3>1. PICK u : u \in U
      BY <2>2
    <3>2. U \ {u} \in G
      BY <1>1, <3>1
    <3>3. CASE U \ {u} = {}
      BY <3>1, <3>3
    <3>4. CASE U \ {u} # {}
      <4>1. PICK m \in U \ {u} : \A x \in U \ {u} : x <= m
        BY <3>2, <3>4
      <4>2. CASE u <= m
        BY <4>1, <4>2
      <4>3. CASE ~(u <= m)
        <5>1. \A x \in U : x <= u
          BY <3>1, <4>1, <4>3
        <5> QED BY <3>1, <5>1
      <4> QED BY <4>2, <4>3
    <3> QED BY <3>3, <3>4
  <2> QED BY <2>1, <2>2
<1>2. T \in G
  <2> HIDE DEF G
  <2>1. \A U \in SUBSET T : U \in G
    BY <1>1, SubsetInduction
  <2> QED BY <2>1
<1> QED BY <1>2

LEMMA Countable ==
  /\ \A S \in SUBSET Hour : IsFiniteSet(S) /\ Cardinality(S) \in Nat
  /\ IsFiniteSet(Season)
<1>1. IsFiniteSet(Hour)
  BY StoreAssumption, FS_Interval DEF Hour
<1>2. SeasonOf(LastHour) \in Int
  BY SchemaAssumption, StoreAssumption DEF SeasonOf
<1>3. IsFiniteSet(Season)
  BY <1>2, FS_Interval DEF Season
<1> QED BY <1>1, <1>3, FS_Subset, FS_CardinalityType

(* Hours are added to what is on chain, and none is taken away.             *)
LEMMA CountGrows ==
  ASSUME HoursKept, NEW s
  PROVE  /\ HoursOnChain(s) \subseteq HoursOnChain(s)'
         /\ Cardinality(HoursOnChain(s)) \in Nat /\ Cardinality(HoursOnChain(s)') \in Nat
         /\ Cardinality(HoursOnChain(s)) <= Cardinality(HoursOnChain(s)')
<1>1. HoursOnChain(s) \subseteq HoursOnChain(s)' /\ HoursOnChain(s)' \subseteq Hour
  BY DEF HoursKept, HoursOnChain, OnChain
<1>2. IsFiniteSet(HoursOnChain(s)')
  BY <1>1, Countable
<1>3. PICK S, T : S = HoursOnChain(s) /\ T = HoursOnChain(s)'
  OBVIOUS
<1>4. Cardinality(S) <= Cardinality(T)
  BY <1>1, <1>2, <1>3, FS_Subset
<1> QED BY <1>1, <1>3, <1>4, Countable

(* An hour that was not there and now is makes one more.                    *)
LEMMA HourAdds ==
  ASSUME HoursKept, NEW h \in Hour, ~OnChain(h), OnChain(h)'
  PROVE  Cardinality(HoursOnChain(SeasonOf(h))) + 1 <= Cardinality(HoursOnChain(SeasonOf(h))')
<1>1. PICK S, T : S = HoursOnChain(SeasonOf(h)) /\ T = HoursOnChain(SeasonOf(h))'
  OBVIOUS
<1>2. S \union {h} \subseteq T /\ h \notin S /\ T \subseteq Hour /\ S \subseteq Hour
  BY <1>1, HourOfSeason DEF HoursKept, HoursOnChain, OnChain
<1>3. IsFiniteSet(T) /\ IsFiniteSet(S) /\ Cardinality(S) \in Nat
  BY <1>2, Countable
<1>4. Cardinality(S \union {h}) = Cardinality(S) + 1
  BY <1>2, <1>3, FS_AddElement
<1>5. Cardinality(S \union {h}) <= Cardinality(T)
  BY <1>2, <1>3, FS_Subset
<1> QED BY <1>1, <1>4, <1>5

(* What a batch claims stays true while it waits.                           *)
LEMMA ClaimsStay ==
  ASSUME HoursKept, \A s \in Season : chain[AttestKey(s)] # None => chain'[AttestKey(s)] # None,
         NEW b, BatchClaims(b)
  PROVE  BatchClaims(b)'
<1>1. ASSUME LatestKey \in DOMAIN b PROVE Claims(b)'
  <2>1. PICK h \in Hour : LET v == b[LatestKey].value IN
          /\ v.hour = h /\ v.season = SeasonOf(h) /\ ReadingsKey(h) \in DOMAIN b
          /\ v.running \in Nat /\ v.running - 1 <= Cardinality(HoursOnChain(SeasonOf(h)))
          /\ SealSeen(v.sealed)
    BY <1>1 DEF BatchClaims, Claims
  <2>2. PICK m, n : m = Cardinality(HoursOnChain(SeasonOf(h)))
                    /\ n = Cardinality(HoursOnChain(SeasonOf(h))')
    OBVIOUS
  <2>3. m \in Nat /\ n \in Nat /\ m <= n
    BY <2>2, CountGrows
  <2>4. PICK v : v = b[LatestKey].value
    OBVIOUS
  <2>5. v.running \in Nat /\ v.running - 1 <= n
    BY <2>1, <2>2, <2>3, <2>4
  <2>6. SealSeen(v.sealed)'
    BY <2>1, <2>4 DEF SealSeen
  <2> QED BY <2>1, <2>2, <2>4, <2>5, <2>6 DEF Claims
<1> QED BY <1>1 DEF BatchClaims, Claims, KeepsSeals

(* The batch a run of the publisher plans claims no more than it adds.      *)
LEMMA PlannedClaims ==
  ASSUME ClaimsInv, NEW blind, NEW missed, NEW new, new = NewHours(Harvest(missed), ValuesBut(blind))
  PROVE  BatchClaims(PublishBatch(Harvest(missed), new, ValuesBut(blind)))
<1> DEFINE view == ValuesBut(blind)
           b == PublishBatch(Harvest(missed), new, view)
           V(k) == PublishValue(k, new, view)
           A(k) == Again(k, Harvest(missed), new)
           h == CHOOSE g \in new : \A f \in new : f <= g
           s == SeasonOf(h)
           sealed == {t \in Season : s - ClaimDepth <= t /\ t < s /\ view[AttestKey(t)] # None}
<1>1. DOMAIN b = {k \in PublishKeys(Harvest(missed), new) : V(k) # view[k]}
      /\ \A k \in DOMAIN b : b[k] = Upsert(view[k], V(k), A(k))
  BY DEF PublishBatch
<1>2. /\ new \subseteq Hour /\ \A g \in new : ReadingsKey(g) \in DOMAIN b
      /\ \A t \in Season : AttestKey(t) \notin DOMAIN b
  BY PlannedOnce DEF ClaimsInv, HoursInv
<1> HIDE DEF b, V, A
<1>3. KeepsSeals(b)
  BY <1>2 DEF KeepsSeals
<1>4. ASSUME LatestKey \in DOMAIN b PROVE Claims(b)
  <2>1. new # {}
    <3>1. LatestKey \in PublishKeys(Harvest(missed), new)
      BY <1>1, <1>4
    <3> QED BY <3>1 DEF PublishKeys, LatestKey, MetaKey, NodeKey, ReadingsKey
  <2>2. h \in new /\ h \in Hour
    <3>1. IsFiniteSet(new) /\ new \subseteq Int
      BY <1>2, Countable DEF Hour
    <3>2. \E g \in new : \A f \in new : f <= g
      BY <2>1, <3>1, GreatestExists
    <3> QED BY <1>2, <3>2
  <2>3. V(LatestKey) = LatestRecord(h, view)
    BY DEF V, PublishValue, LatestKey, MetaKey, NodeKey
  <2>4. b[LatestKey].value = LatestRecord(h, view)
    <3>1. b[LatestKey] = Upsert(view[LatestKey], V(LatestKey), A(LatestKey))
      BY <1>1, <1>4
    <3> HIDE DEF h
    <3> QED BY <2>3, <3>1 DEF Upsert
  <2>5. s \in Season /\ base[s] \in Nat /\ base[s] <= Cardinality(HoursOnChain(s))
    BY <2>2, HourOfSeason DEF ClaimsInv
  <2>6. SealSeen(SealedClaim(view, s))
    <3>1. CASE sealed = {}
      BY <3>1 DEF SealedClaim, SealSeen
    <3>2. CASE sealed # {}
      <4>1. IsFiniteSet(sealed) /\ sealed \subseteq Int
        <5>1. sealed \in SUBSET Season /\ Season \subseteq Int
          BY DEF Season
        <5> HIDE DEF sealed
        <5> QED BY <5>1, Countable, FS_Subset
      <4>2. \E t \in sealed : \A u \in sealed : u <= t
        BY <3>2, <4>1, GreatestExists
      <4>3. SealedClaim(view, s) \in sealed
        BY <3>2, <4>2 DEF SealedClaim
      <4>4. \A t \in sealed : t \in Season /\ chain[AttestKey(t)] # None
        BY DEF ValuesBut, Key
      <4> QED BY <4>3, <4>4 DEF SealSeen
    <3> QED BY <3>1, <3>2
  <2>7. PICK v : v = LatestRecord(h, view)
    OBVIOUS
  <2>8. v.hour = h /\ v.season = s /\ v.running = base[s] + 1 /\ v.sealed = SealedClaim(view, s)
    BY <2>7 DEF LatestRecord
  <2>9. v.running \in Nat /\ v.running - 1 <= Cardinality(HoursOnChain(s))
    <3> HIDE DEF s
    <3>1. Cardinality(HoursOnChain(s)) \in Nat
      BY Countable DEF HoursOnChain
    <3> QED BY <2>5, <2>8, <3>1
  <2>10. ReadingsKey(h) \in DOMAIN b
    BY <1>2, <2>2
  <2> HIDE DEF h
  <2> QED BY <2>2, <2>4, <2>6, <2>7, <2>8, <2>9, <2>10 DEF Claims
<1> QED BY <1>3, <1>4 DEF BatchClaims, Claims, b

(* A batch that seals seasons claims nothing.                               *)
LEMMA SealsClaimNothing ==
  ASSUME AttestsAreValues, NEW seasons, seasons \subseteq Season, NEW unread, NEW view
  PROVE  BatchClaims(AttestBatch(seasons, unread, view))
<1> DEFINE b == AttestBatch(seasons, unread, view)
<1>1. DOMAIN b = {AttestKey(s) : s \in seasons}
  BY DEF AttestBatch
<1>2. LatestKey \notin DOMAIN b
  BY <1>1 DEF LatestKey, AttestKey
<1>3. ASSUME NEW s \in Season, AttestKey(s) \in DOMAIN b PROVE b[AttestKey(s)].value # None
  <2>1. b[AttestKey(s)].value = Attest(s, unread, now)
    BY <1>1, <1>3 DEF AttestBatch, Upsert, AttestKey
  <2> QED BY <2>1 DEF AttestsAreValues, Attest
<1> QED BY <1>2, <1>3 DEF BatchClaims, Claims, KeepsSeals

(* A block that takes a batch with a claim takes the hour of the claim.     *)
LEMMA LandClaims ==
  ASSUME ClaimsInv, HoursKept, NEW b \in mempool, Land(b),
         \A s \in Season : chain[AttestKey(s)] # None => chain'[AttestKey(s)] # None,
         chain'[LatestKey] # None
  PROVE  ClaimHolds(chain[LatestKey])'
<1>1. PICK v : v = chain'[LatestKey]
  OBVIOUS
<1>2. v = IF LatestKey \in DOMAIN b THEN b[LatestKey].value ELSE chain[LatestKey]
  BY <1>1 DEF Land, After, Key
<1>3. PICK m, n : m = Cardinality(HoursOnChain(v.season))
                  /\ n = Cardinality(HoursOnChain(v.season)')
  OBVIOUS
<1>4. m \in Nat /\ n \in Nat /\ m <= n
  BY <1>3, CountGrows
<1>5. SealSeen(v.sealed) => SealSeen(v.sealed)'
  BY DEF SealSeen
<1>6. CASE LatestKey \notin DOMAIN b
  <2>1. ClaimHolds(v) /\ v # None
    BY <1>1, <1>2, <1>6 DEF ClaimsInv
  <2>2. v.hour \in Hour /\ OnChain(v.hour)' /\ SealSeen(v.sealed)'
    BY <1>5, <2>1 DEF ClaimHolds, HoursKept, OnChain
  <2>3. v.running \in Nat /\ v.running <= n
    <3>1. PICK r : r = v.running
      OBVIOUS
    <3>2. r \in Nat /\ r <= m
      BY <1>3, <2>1, <3>1 DEF ClaimHolds
    <3>3. r <= n
      BY <1>4, <3>2
    <3> QED BY <3>1, <3>2, <3>3
  <2> QED BY <1>1, <1>3, <2>2, <2>3 DEF ClaimHolds
<1>7. CASE LatestKey \in DOMAIN b
  <2>1. PICK h \in Hour :
          /\ v.hour = h /\ v.season = SeasonOf(h) /\ ReadingsKey(h) \in DOMAIN b
          /\ v.running \in Nat /\ v.running - 1 <= Cardinality(HoursOnChain(SeasonOf(h)))
          /\ SealSeen(v.sealed)
    BY <1>2, <1>7 DEF ClaimsInv, BatchClaims, Claims
  <2>2. ~OnChain(h) /\ OnChain(h)'
    <3>1. WriteOnce(b)
      BY DEF ClaimsInv, HoursInv
    <3>2. b[ReadingsKey(h)].replace = FALSE /\ b[ReadingsKey(h)].value # None
      BY <2>1, <3>1 DEF WriteOnce
    <3>3. chain[ReadingsKey(h)] = None
      BY <2>1, <3>2 DEF Land, Applies
    <3>4. chain'[ReadingsKey(h)] = b[ReadingsKey(h)].value
      BY <2>1, KeysDiffer DEF Land, After, Key
    <3> QED BY <3>2, <3>3, <3>4 DEF OnChain
  <2>3. m + 1 <= n
    BY <1>3, <2>1, <2>2, HourAdds
  <2>4. v.running <= n
    BY <1>3, <1>4, <2>1, <2>3
  <2> QED BY <1>1, <1>3, <1>5, <2>1, <2>2, <2>4 DEF ClaimHolds
<1> QED BY <1>6, <1>7

LEMMA ClaimsStep ==
  ASSUME AttestsAreValues, ClaimsInv, [Next]_vars PROVE ClaimsInv'
<1>0. HoursKept /\ HoursInv /\ HoursInv'
  BY StepKeeps, HoursStep DEF ClaimsInv
<1> USE DEF storeVars, oracleVars, runVars, syncVars
<1>1. ASSUME NEW s \in Season, chain[AttestKey(s)] # None PROVE chain'[AttestKey(s)] # None
  <2>1. CASE UNCHANGED chain
    BY <1>1, <2>1
  <2>2. ASSUME NEW b \in mempool, Land(b) PROVE chain'[AttestKey(s)] # None
    BY <1>1, <2>2, KeysDiffer DEF Land, After, Key, ClaimsInv, BatchClaims, KeepsSeals
  <2>3. (\E b \in mempool : Land(b)) \/ UNCHANGED chain
    BY DEF Next, vars, Environment, Hear, LearnKey, CloseHour, Settles, Evict, Writer,
           PublishStart, PublishPlan, PublishPlanBut, Baseline, Send, Confirm, GiveUp, Mark, Abort,
           AttestStart, AttestPlan, AttestPlanBut, Report, SyncFetch, SyncPost
  <2> QED BY <2>1, <2>2, <2>3
<1>2. ASSUME NEW b, BatchClaims(b) PROVE BatchClaims(b)'
  BY <1>0, <1>1, <1>2, ClaimsStay
<1>3. ASSUME NEW s \in Season
      PROVE  base[s] \in Nat /\ base[s] <= Cardinality(HoursOnChain(s)')
  <2>1. PICK m, n : m = Cardinality(HoursOnChain(s)) /\ n = Cardinality(HoursOnChain(s)')
    OBVIOUS
  <2>2. m \in Nat /\ n \in Nat /\ m <= n
    BY <1>0, <2>1, CountGrows
  <2>3. base[s] \in Nat /\ base[s] <= m
    BY <2>1 DEF ClaimsInv
  <2> QED BY <2>1, <2>2, <2>3
<1>4. BatchClaims(NoBatch) /\ BatchClaims(NoBatch)'
  BY DEF NoBatch, BatchClaims, KeepsSeals, Claims
<1>5. \A s \in Season : /\ NoCount[s] \in Nat /\ NoCount[s] <= Cardinality(HoursOnChain(s)')
                        /\ Cardinality(HoursOnChain(s)) \in Nat
  <2>1. \A s \in Season : /\ Cardinality(HoursOnChain(s)') \in Nat
                          /\ Cardinality(HoursOnChain(s)) \in Nat
    BY <1>0, CountGrows
  <2> QED BY <2>1 DEF NoCount
(* Steps that leave the claim on chain, and plan no batch.                  *)
<1>6. ASSUME UNCHANGED chain, base' \in {base, NoCount},
             mempool' \union {batch'} \subseteq mempool \union {batch} \union {NoBatch}
      PROVE  ClaimsInv'
  <2>1. \A b \in mempool' \union {batch'} : BatchClaims(b)'
    BY <1>2, <1>4, <1>6 DEF ClaimsInv
  <2>2. \A s \in Season : base'[s] \in Nat /\ base'[s] <= Cardinality(HoursOnChain(s)')
    BY <1>3, <1>5, <1>6
  <2>3. chain'[LatestKey] # None => ClaimHolds(chain[LatestKey])'
    BY <1>6 DEF ClaimsInv, ClaimHolds, HoursOnChain, OnChain, SealSeen
  <2> QED BY <1>0, <2>1, <2>2, <2>3 DEF ClaimsInv
<1>7. ASSUME UNCHANGED <<chain, mempool, base>>, BatchClaims(batch') PROVE ClaimsInv'
  <2>1. BatchClaims(batch)'
    BY <1>7 DEF BatchClaims, KeepsSeals, Claims, HoursOnChain, SealSeen
  <2>2. \A b \in mempool' \union {batch'} : BatchClaims(b)'
    BY <1>2, <1>7, <2>1 DEF ClaimsInv
  <2>3. chain'[LatestKey] # None => ClaimHolds(chain[LatestKey])'
    BY <1>7 DEF ClaimsInv, ClaimHolds, HoursOnChain, OnChain, SealSeen
  <2> QED BY <1>0, <1>3, <1>7, <2>2, <2>3 DEF ClaimsInv
<1>8. ASSUME NEW b \in mempool, Land(b), UNCHANGED runVars PROVE ClaimsInv'
  <2>1. \A c \in mempool' \union {batch'} : BatchClaims(c)'
    BY <1>2, <1>8 DEF Land, ClaimsInv
  <2>2. chain'[LatestKey] # None => ClaimHolds(chain[LatestKey])'
    BY <1>0, <1>1, <1>8, LandClaims
  <2> QED BY <1>0, <1>3, <1>8, <2>1, <2>2 DEF ClaimsInv
<1>9. CASE PublishStart
  <2>1. UNCHANGED <<chain, mempool, batch>> /\ base' = [s \in Season |-> Cardinality(HoursOnChain(s))]
    BY <1>9 DEF PublishStart
  <2>2. \A s \in Season : base'[s] \in Nat /\ base'[s] <= Cardinality(HoursOnChain(s)')
    BY <1>5, <2>1 DEF HoursOnChain
  <2>3. \A b \in mempool' \union {batch'} : BatchClaims(b)'
    BY <1>2, <2>1 DEF ClaimsInv
  <2>4. chain'[LatestKey] # None => ClaimHolds(chain[LatestKey])'
    BY <2>1 DEF ClaimsInv, ClaimHolds, HoursOnChain, OnChain, SealSeen
  <2> QED BY <1>0, <2>2, <2>3, <2>4 DEF ClaimsInv
<1>10. ASSUME NEW missed, NEW blind, PublishPlanBut(missed, blind) PROVE ClaimsInv'
  <2>1. CASE Release
    BY <1>6, <1>10, <2>1 DEF PublishPlanBut, Release
  <2>2. CASE ~Release
    <3> DEFINE new == NewHours(Harvest(missed), ValuesBut(blind))
    <3>1. /\ batch' = PublishBatch(Harvest(missed), new, ValuesBut(blind))
          /\ UNCHANGED <<chain, mempool, base>>
      BY <1>10, <2>2 DEF PublishPlanBut
    <3>2. BatchClaims(PublishBatch(Harvest(missed), new, ValuesBut(blind)))
      BY PlannedClaims
    <3> HIDE DEF new
    <3> QED BY <1>7, <3>1, <3>2
  <2> QED BY <2>1, <2>2
<1>11. ASSUME NEW missed, NEW unread, NEW blind, AttestPlanBut(missed, unread, blind)
       PROVE  ClaimsInv'
  <2>1. CASE Release
    BY <1>6, <1>11, <2>1 DEF AttestPlanBut, Release
  <2>2. CASE ~Release
    <3> DEFINE seasons == SeasonsToSeal(missed, unread, ValuesBut(blind))
    <3>1. /\ batch' = AttestBatch(seasons, unread, ValuesBut(blind))
          /\ UNCHANGED <<chain, mempool, base>>
      BY <1>11, <2>2 DEF AttestPlanBut
    <3>2. BatchClaims(AttestBatch(seasons, unread, ValuesBut(blind)))
      BY SeasonsAreSeasons, SealsClaimNothing
    <3> HIDE DEF seasons
    <3> QED BY <1>7, <3>1, <3>2
  <2> QED BY <2>1, <2>2
<1>12. CASE Send
  BY <1>6, <1>12 DEF Send, Take, Release
<1>13. CASE \E b \in mempool : Evict(b) /\ UNCHANGED runVars
  BY <1>6, <1>13 DEF Evict
<1>14. CASE Confirm \/ GiveUp \/ Abort \/ Mark \/ Report
  BY <1>6, <1>14 DEF Confirm, GiveUp, Abort, Mark, Report, Release
<1>15. CASE (\E r \in Readings : Hear(r)) \/ LearnKey \/ CloseHour \/ Baseline
            \/ AttestStart \/ (\E s \in Season : SyncFetch(s)) \/ SyncPost \/ UNCHANGED vars
  BY <1>6, <1>15 DEF Hear, LearnKey, CloseHour, Baseline, AttestStart, SyncFetch, SyncPost, vars
<1> QED
  BY <1>8, <1>9, <1>10, <1>11, <1>12, <1>13, <1>14, <1>15
  DEF Next, Environment, Settles, Writer, PublishPlan, AttestPlan

LEMMA ClaimsInit == Init => ClaimsInv
<1> SUFFICES ASSUME Init PROVE ClaimsInv
  OBVIOUS
<1>1. HoursInv /\ chain[LatestKey] = None
  BY HoursInit DEF Init, EmptyStore, Key, LatestKey, MetaKey
<1>2. \A s \in Season : base[s] \in Nat /\ base[s] <= Cardinality(HoursOnChain(s))
  <2>1. \A s \in Season : Cardinality(HoursOnChain(s)) \in Nat
    BY Countable DEF HoursOnChain
  <2> QED BY <2>1 DEF Init, NoCount
<1> QED BY <1>1, <1>2 DEF Init, ClaimsInv, BatchClaims, Claims, KeepsSeals, NoBatch

(* What latest: tells the public is on the same chain: its hour, as many    *)
(* hours of the season as it counts, and the sealed season it names,        *)
(* however long its batch waited and whatever landed before it              *)
(* (publish.py:545-582, 618-620).                                           *)
THEOREM ClaimsAreBacked == ASSUME AttestsAreValues PROVE Spec => []ClaimsBacked
<1>1. ClaimsInv => ClaimsBacked
  BY DEF ClaimsInv, ClaimsBacked, ClaimHolds, SealSeen, OnChain
<1> QED BY <1>1, ClaimsInit, ClaimsStep, PTL DEF Spec

(****************************************************************************)
(* The verifier.                                                            *)
(****************************************************************************)

(* What is checked locally ends in one of three codes.                      *)
LEMMA LocalCodes ==
  /\ LocalVerdict \in 0 .. 2
  /\ LocalVerdict = 0 /\ asked.mode # "reading" => Failed(bundle, asked.mode = "season") = {}
  /\ LocalVerdict = 0 /\ asked.mode = "reading"
       => ReadingHolds(asked.reading, bundle[NodeKey], bundle[ReadingsKey(asked.hour)])
<1>1. CASE asked.mode = "reading"
  BY <1>1 DEF LocalVerdict
<1>2. CASE asked.mode # "reading"
  <2>1. PICK failed : failed = Failed(bundle, asked.mode = "season")
    OBVIOUS
  <2>2. PICK code : code = IF failed \ CannotVerify # {} THEN 1 ELSE IF failed # {} THEN 2 ELSE 0
    OBVIOUS
  <2>3. LocalVerdict = CHOOSE c \in 0 .. 2 : c = code
    BY <1>2, <2>1, <2>2 DEF LocalVerdict
  <2>4. code \in 0 .. 2
    BY <2>2
  <2>5. LocalVerdict = code
    BY <2>3, <2>4
  <2> QED BY <1>2, <2>1, <2>2, <2>4, <2>5
<1> QED BY <1>1, <1>2

(* A verification that ends with 0, verify-latest aside, has compared the   *)
(* records with a proof that chains to the root of this moment.             *)
LEMMA ValidStep ==
  ASSUME VerifierNext, Concludes, verdict' = 0, asked.mode # "latest"
  PROVE  /\ stage = "proven"
         /\ LocalVerdict = 0
         /\ \A k \in DOMAIN bundle : bundle[k] = chain[k]
         /\ UNCHANGED chain
<1>1. Verification /\ UNCHANGED chain
  BY DEF VerifierNext, Concludes, verifierVars, vars, storeVars
<1>2. ExitCode(2) # 0 /\ Open # 0
  BY DEF ExitCode, Open
<1>3. VerifyProofs
  <2>1. \A q \in Questions : ~Ask(q)
    BY DEF Ask, Concludes
  <2>2. ~Say(Open) /\ ~Say(2) /\ ~Say(ExitCode(2)) /\ ~Conclude(Open) /\ ~Conclude(ExitCode(2))
    BY <1>2 DEF Say, Conclude
  <2>3. ~Fetch
    <3> SUFFICES ASSUME Fetch PROVE FALSE
      OBVIOUS
    <3>1. stage \in {"records", "hours"} /\ stage' \in {stage, "discover", "prove"}
      BY <2>2 DEF Fetch
    <3> QED BY <3>1 DEF Concludes
  <2>4. ~Discover /\ ~Audit /\ ~NotFound /\ ~GetRoot
    BY <2>2 DEF Discover, Audit, NotFound, GetRoot, Concludes
  <2>5. ~GetProof /\ ~Fail
    BY <2>2 DEF GetProof, Fail, Concludes
  <2> QED BY <1>1, <2>1, <2>3, <2>4, <2>5 DEF Verification
<1>4. stage = "proven"
  BY <1>3 DEF VerifyProofs
<1>5. 0 = ExitCode(IF chain # proven THEN 2 ELSE IF Differs THEN 1 ELSE 0)
  BY <1>3 DEF VerifyProofs, Say, Conclude
<1>6. chain = proven /\ ~Differs
  BY <1>5 DEF ExitCode
<1>7. LocalVerdict = 0
  <2>1. 0 = ExitCode(0)
    BY <1>5, <1>6
  <2> QED BY <2>1, LocalCodes DEF ExitCode
<1> QED BY <1>1, <1>4, <1>6, <1>7 DEF Differs, Bound

(* What is called valid is what is on chain at that moment, although it was *)
(* read key by key while batches landed (inclusion.py:156-309,              *)
(* orchard_verify.py:140-160).                                              *)
THEOREM VerdictIsCurrent == VerifierSpec => ValidIsCurrent
<1>1. [VerifierNext]_allVars
        => [Concludes /\ verdict' = 0 /\ asked.mode # "latest"
              => \A k \in DOMAIN bundle : bundle[k] = chain[k]]_allVars
  BY ValidStep
<1> QED BY <1>1, PTL DEF VerifierSpec, ValidIsCurrent

(* The hours of a set that come before one.                                 *)
Earlier(H, h) == {g \in H : g < h}

(* The keys of hours in their order are keys of these hours.                *)
LEMMA OrderLists ==
  ASSUME NEW H, H \subseteq Hour, H # {}
  PROVE  /\ InOrder(H) \in Seq({ReadingsKey(h) : h \in H})
         /\ InOrder(H) # <<>>
<1> DEFINE n == Cardinality(H)
           f == [h \in H |-> Cardinality(Earlier(H, h))]
<1>1. H \subseteq Nat /\ IsFiniteSet(H)
  <2>1. IsFiniteSet(Hour) /\ Hour \subseteq Nat
    BY StoreAssumption, FS_Interval DEF Hour
  <2> QED BY <2>1, FS_Subset
<1>2. n \in Nat /\ n # 0
  BY <1>1, FS_CardinalityType, FS_EmptySet
<1>3. ASSUME NEW h \in H
      PROVE  IsFiniteSet(Earlier(H, h)) /\ Cardinality(Earlier(H, h)) \in 0 .. n - 1
  <2>1. PICK T : T = H \ {h}
    OBVIOUS
  <2>2. IsFiniteSet(T) /\ Cardinality(T) = n - 1
    BY <1>1, <2>1, FS_RemoveElement
  <2>3. Earlier(H, h) \subseteq T
    BY <1>1, <2>1 DEF Earlier
  <2>4. IsFiniteSet(Earlier(H, h)) /\ Cardinality(Earlier(H, h)) <= Cardinality(T)
    BY <2>2, <2>3, FS_Subset
  <2>5. Cardinality(Earlier(H, h)) \in Nat
    BY <2>4, FS_CardinalityType
  <2> HIDE DEF n
  <2> QED BY <1>2, <2>2, <2>4, <2>5
<1>4. ASSUME NEW g \in H, NEW h \in H, g < h
      PROVE  Cardinality(Earlier(H, g)) # Cardinality(Earlier(H, h))
  <2>1. Earlier(H, g) \subseteq Earlier(H, h) /\ g \in Earlier(H, h) /\ g \notin Earlier(H, g)
    <3>1. \A e \in H : e \in Nat
      BY <1>1
    <3>2. \A e \in H : e < g => e < h
      BY <1>4, <3>1
    <3>3. ~(g < g)
      BY <3>1
    <3> QED BY <1>4, <3>2, <3>3 DEF Earlier
  <2>2. IsFiniteSet(Earlier(H, h))
    BY <1>3
  <2>3. PICK S, T : S = Earlier(H, g) /\ T = Earlier(H, h)
    OBVIOUS
  <2>4. S \in SUBSET T /\ S # T /\ IsFiniteSet(T)
    BY <2>1, <2>2, <2>3
  <2>5. Cardinality(S) # Cardinality(T)
    BY <2>4, FS_Subset
  <2> QED BY <2>3, <2>5
<1>5. f \in Injection(H, 0 .. n - 1)
  <2>1. \A h \in H : f[h] \in 0 .. n - 1
    BY <1>3
  <2>2. \A g, h \in H : f[g] = f[h] => g = h
    <3> SUFFICES ASSUME NEW g \in H, NEW h \in H, g # h PROVE f[g] # f[h]
      OBVIOUS
    <3>1. g < h \/ h < g
      BY <1>1
    <3> QED BY <1>4, <3>1
  <2> QED BY <2>1, <2>2 DEF Injection, IsInjective
<1>6. f \in Surjection(H, 0 .. n - 1)
  <2>1. IsFiniteSet(0 .. n - 1) /\ Cardinality(0 .. n - 1) = n
    <3> HIDE DEF n
    <3> QED BY <1>2, FS_Interval
  <2> HIDE DEF f
  <2> QED BY <1>5, <2>1, FS_Injection
<1>7. ASSUME NEW i \in 1 .. n PROVE InOrder(H)[i] \in {ReadingsKey(h) : h \in H}
  <2>1. i - 1 \in 0 .. n - 1
    BY <1>2, <1>7
  <2>2. \E h \in H : Cardinality(Earlier(H, h)) = i - 1
    BY <1>6, <2>1 DEF Surjection
  <2>3. (CHOOSE h \in H : Cardinality({g \in H : g < h}) = i - 1) \in H
    BY <2>2 DEF Earlier
  <2> QED BY <2>3 DEF InOrder
<1>8. InOrder(H) = [i \in 1 .. n |-> InOrder(H)[i]]
  BY DEF InOrder
<1>9. InOrder(H) \in [1 .. n -> {ReadingsKey(h) : h \in H}]
  BY <1>7, <1>8
<1> HIDE DEF n
<1> QED BY <1>2, <1>9

(****************************************************************************)
(* What the writers beside it do to the store.                              *)
(****************************************************************************)

Planned(missed, blind) ==
  PublishBatch(Harvest(missed), NewHours(Harvest(missed), ValuesBut(blind)), ValuesBut(blind))
Seals(missed, unread, blind) ==
  AttestBatch(SeasonsToSeal(missed, unread, ValuesBut(blind)), unread, ValuesBut(blind))

(* A step takes up a batch, lands one, plans one, or learns something.      *)
LEMMA WriterShape ==
  ASSUME [Next]_vars
  PROVE  /\ mempool' \subseteq mempool \union {batch}
         /\ chain' = chain \/ \E b \in mempool : chain' = After(b)
         /\ heard' = heard \/ \E r \in Readings : heard' = heard \union {r}
         /\ card' = card \/ card' = Device
         /\ now' = now \/ (now < LastHour /\ now' = now + 1)
         /\ \/ batch' \in {batch, NoBatch}
            \/ /\ UNCHANGED <<chain, mempool, heard, card, now>>
               /\ \/ \E missed, blind : batch' = Planned(missed, blind)
                  \/ \E missed, unread, blind : batch' = Seals(missed, unread, blind)
<1> DEFINE Shape ==
         /\ mempool' \subseteq mempool \union {batch}
         /\ chain' = chain \/ \E b \in mempool : chain' = After(b)
         /\ heard' = heard \/ \E r \in Readings : heard' = heard \union {r}
         /\ card' = card \/ card' = Device
         /\ now' = now \/ (now < LastHour /\ now' = now + 1)
         /\ \/ batch' \in {batch, NoBatch}
            \/ /\ UNCHANGED <<chain, mempool, heard, card, now>>
               /\ \/ \E missed, blind : batch' = Planned(missed, blind)
                  \/ \E missed, unread, blind : batch' = Seals(missed, unread, blind)
<1> SUFFICES Shape
  OBVIOUS
<1> USE DEF storeVars, oracleVars, runVars, syncVars
<1>1. ASSUME NEW r \in Readings, Hear(r) PROVE Shape
  BY <1>1 DEF Hear
<1>2. CASE LearnKey \/ CloseHour \/ UNCHANGED vars
  BY <1>2 DEF LearnKey, CloseHour, vars
<1>3. ASSUME NEW b \in mempool, Land(b) \/ Evict(b), UNCHANGED <<oracleVars, runVars>> PROVE Shape
  BY <1>3 DEF Land, Evict
<1>4. CASE PublishStart \/ Baseline \/ AttestStart
  BY <1>4 DEF PublishStart, Baseline, AttestStart
<1>5. CASE Confirm \/ GiveUp \/ Abort \/ Mark \/ Report
  BY <1>5 DEF Confirm, GiveUp, Abort, Mark, Report, Release
<1>6. CASE Send
  <2>1. UNCHANGED <<chain, heard, card, now>>
    BY <1>6 DEF Send
  <2>2. mempool' \subseteq mempool \union {batch} /\ batch' \in {batch, NoBatch}
    BY <1>6 DEF Send, Take, Release
  <2> QED BY <2>1, <2>2
<1>7. ASSUME NEW missed, NEW blind, PublishPlanBut(missed, blind) PROVE Shape
  <2>1. UNCHANGED <<chain, mempool, heard, card, now>>
    BY <1>7 DEF PublishPlanBut
  <2>2. batch' = NoBatch \/ batch' = Planned(missed, blind)
    BY <1>7 DEF PublishPlanBut, Release, Planned
  <2> QED BY <2>1, <2>2
<1>8. ASSUME NEW missed, NEW unread, NEW blind, AttestPlanBut(missed, unread, blind) PROVE Shape
  <2>1. UNCHANGED <<chain, mempool, heard, card, now>>
    BY <1>8 DEF AttestPlanBut
  <2>2. batch' = NoBatch \/ batch' = Seals(missed, unread, blind)
    BY <1>8 DEF AttestPlanBut, Release, Seals
  <2> QED BY <2>1, <2>2
<1>9. CASE (\E s \in Season : SyncFetch(s)) \/ SyncPost
  BY <1>9 DEF SyncFetch, SyncPost
<1> HIDE DEF Shape
<1> QED
  BY <1>1, <1>2, <1>3, <1>4, <1>5, <1>6, <1>7, <1>8, <1>9
  DEF Next, Environment, Settles, Writer, PublishPlan, AttestPlan

(* What a publisher's batch writes.                                         *)
LEMMA PlannedWrites ==
  ASSUME now \in 0 .. LastHour, NEW missed, NEW blind, NEW b, b = Planned(missed, blind)
  PROVE  /\ NodeKey \in DOMAIN b => b[NodeKey].value.pubkey = card /\ card # None
         /\ \A h \in Hour : ReadingsKey(h) \in DOMAIN b
              => b[ReadingsKey(h)].value = ReadingsRecord(InHour(h))
         /\ \A s \in Season : AttestKey(s) \notin DOMAIN b
         /\ MetaKey \in DOMAIN b => b[MetaKey].value.declares = TRUE
         /\ MetaKey \notin DOMAIN b => chain[MetaKey].declares = TRUE
<1> DEFINE view == ValuesBut(blind)
           new == NewHours(Harvest(missed), view)
           keys == PublishKeys(Harvest(missed), new)
           V(k) == PublishValue(k, new, view)
           A(k) == Again(k, Harvest(missed), new)
<1>1. /\ DOMAIN b = {k \in keys : V(k) # view[k]}
      /\ \A k \in DOMAIN b : b[k] = Upsert(view[k], V(k), A(k))
  BY DEF Planned, PublishBatch
<1>2. \A k \in DOMAIN b : b[k].value = V(k)
  <2>1. \A e, v, a : Upsert(e, v, a).value = v
    BY DEF Upsert
  <2> QED BY <1>1, <2>1
<1>3. V(NodeKey) = NodeRecord
  <2>1. NodeKey # MetaKey /\ NodeKey # LatestKey
    BY DEF NodeKey, MetaKey, LatestKey
  <2> QED BY <2>1 DEF PublishValue
<1>4. \A h \in Hour : V(ReadingsKey(h)) = ReadingsRecord(InHour(h))
  BY KeysDiffer DEF PublishValue, ReadingsKey, MetaKey, NodeKey, LatestKey
<1>5. V(MetaKey) = StableMeta(view[MetaKey])
  <2>1. MetaKey # NodeKey /\ MetaKey # LatestKey
    BY DEF NodeKey, MetaKey, LatestKey
  <2> QED BY <2>1 DEF PublishValue
<1>6. StableMeta(view[MetaKey]).declares = TRUE /\ StableMeta(view[MetaKey]) # None
  <2>1. /\ \A at : MetaRecord(at).declares = TRUE
        /\ MetaRecord(now) # None
    BY NoneAssumption DEF MetaRecord
  <2> HIDE DEF view
  <2> QED BY <2>1 DEF StableMeta
<1>7. NodeKey \in keys => card # None
  BY DEF PublishKeys, NodeKey, MetaKey, ReadingsKey, LatestKey
<1>8. \A s \in Season : AttestKey(s) \notin keys
  BY DEF PublishKeys, ReadingsKey, MetaKey, NodeKey, LatestKey, AttestKey
<1>9. MetaKey \in keys /\ MetaKey \in Key
  BY DEF PublishKeys, Key
<1>10. view[MetaKey] # None => view[MetaKey] = chain[MetaKey]
  BY <1>9 DEF ValuesBut
<1> HIDE DEF V, A, keys, view
<1>11. MetaKey \notin DOMAIN b => chain[MetaKey].declares = TRUE
  BY <1>1, <1>5, <1>6, <1>9, <1>10
<1> QED BY <1>1, <1>2, <1>3, <1>4, <1>5, <1>6, <1>7, <1>8, <1>11 DEF NodeRecord

(* What an attester's batch writes.                                         *)
LEMMA SealsWrite ==
  ASSUME NEW missed, NEW unread, NEW blind, NEW b, b = Seals(missed, unread, blind), NEW k \in DOMAIN b
  PROVE  \E s \in Season : k = AttestKey(s) /\ b[k].value = Attest(s, unread, now)
<1>1. PICK seasons : seasons = SeasonsToSeal(missed, unread, ValuesBut(blind))
  OBVIOUS
<1>2. seasons \subseteq Season
  BY <1>1, SeasonsAreSeasons
<1>3. b = [c \in {AttestKey(s) : s \in seasons} |->
             Upsert(ValuesBut(blind)[c], Attest(c[2], unread, now), FALSE)]
  BY <1>1 DEF Seals, AttestBatch
<1>4. PICK s \in seasons : k = AttestKey(s)
  BY <1>3
<1>5. b[k].value = Attest(k[2], unread, now)
  BY <1>3 DEF Upsert
<1> QED BY <1>2, <1>4, <1>5 DEF AttestKey

(* The chain, the mempool and the batch at hand hold sound values.          *)
WriteInv ==
  /\ heard \subseteq Readings /\ card \in {None, Device} /\ now \in 0 .. LastHour
  /\ \A k \in Key : chain[k] # None => Sound(k, chain[k], heard)
  /\ \A b \in mempool \union {batch}, k \in Key : k \in DOMAIN b => Sound(k, b[k].value, heard)

LEMMA HoursByFinite ==
  ASSUME NEW s \in Nat PROVE IsFiniteSet(HoursOf(s))
<1>1. (s - 1) * HoursPerSeason + 1 \in Int /\ s * HoursPerSeason \in Int
  BY SchemaAssumption
<1>2. PICK i, j : i = (s - 1) * HoursPerSeason + 1 /\ j = s * HoursPerSeason
  OBVIOUS
<1>3. IsFiniteSet(i .. j)
  BY <1>1, <1>2, FS_Interval
<1> QED BY <1>2, <1>3 DEF HoursOf

(* More readings, or fewer that are asked for, make as many hours or more.  *)
LEMMA HoursGrow ==
  ASSUME NEW a, a.season \in Nat, NEW m \in Nat, NEW n \in Nat, n <= m,
         NEW G, NEW H, G \subseteq H, IsFiniteSet(H)
  PROVE  /\ Cardinality(HoursBy(a, G, m)) \in Nat /\ Cardinality(HoursBy(a, H, n)) \in Nat
         /\ Cardinality(HoursBy(a, G, m)) <= Cardinality(HoursBy(a, H, n))
<1>1. ASSUME NEW h \in HoursBy(a, G, m) PROVE h \in HoursBy(a, H, n)
  <2>1. PICK S, T : S = {r \in G : r.at = h} /\ T = {r \in H : r.at = h}
    OBVIOUS
  <2>2. S \in SUBSET T /\ T \in SUBSET H
    BY <2>1
  <2>3. IsFiniteSet(T) /\ IsFiniteSet(S) /\ Cardinality(S) <= Cardinality(T)
    BY <2>2, FS_Subset
  <2>4. Cardinality(S) \in Nat /\ Cardinality(T) \in Nat
    BY <2>3, FS_CardinalityType
  <2>5. h \in HoursOf(a.season) /\ Cardinality(S) >= m
    BY <1>1, <2>1 DEF HoursBy
  <2>6. Cardinality(T) >= n
    BY <2>3, <2>4, <2>5
  <2> QED BY <2>1, <2>5, <2>6 DEF HoursBy
<1>2. PICK S, T : S = HoursBy(a, G, m) /\ T = HoursBy(a, H, n)
  OBVIOUS
<1>3. IsFiniteSet(T) /\ S \in SUBSET T
  <2>1. T \in SUBSET HoursOf(a.season)
    BY <1>2 DEF HoursBy
  <2> QED BY <1>1, <1>2, <2>1, HoursByFinite, FS_Subset
<1>4. IsFiniteSet(S) /\ Cardinality(S) <= Cardinality(T)
  BY <1>3, FS_Subset
<1>5. Cardinality(S) \in Nat /\ Cardinality(T) \in Nat
  BY <1>3, <1>4, FS_CardinalityType
<1> QED BY <1>2, <1>4, <1>5

LEMMA ThresholdCounts == ASSUME NEW a PROVE Threshold(a) \in Nat /\ 1 <= Threshold(a)
<1>1. PICK t : t = a.min
  OBVIOUS
<1>2. CASE t \in Nat \ {0}
  BY <1>1, <1>2 DEF Threshold
<1>3. CASE t \notin Nat \ {0}
  BY <1>1, <1>3 DEF Threshold
<1> QED BY <1>2, <1>3

LEMMA SoundGrows ==
  ASSUME NEW k, NEW v, NEW G, NEW H, Sound(k, v, G), G \subseteq H, IsFiniteSet(H)
  PROVE  Sound(k, v, H)
<1>1. ASSUME SealSound(v, G) PROVE SealSound(v, H)
  <2>1. PICK t \in Nat : t = Threshold(v)
    BY ThresholdCounts
  <2>2. PICK m, n : m = Cardinality(HoursBy(v, G, t)) /\ n = Cardinality(HoursBy(v, H, t))
    OBVIOUS
  <2>3. m \in Nat /\ n \in Nat /\ m <= n
    BY <1>1, <2>2, HoursGrow DEF SealSound
  <2> QED BY <1>1, <2>1, <2>2, <2>3 DEF SealSound
<1> QED BY <1>1 DEF Sound

(* The attester's records are.                                              *)
LEMMA AttestSound ==
  ASSUME NEW s \in Season, NEW unread, NEW H
  PROVE  SealSound(Attest(s, unread, now), H)
<1>1. PICK sealed : sealed = Sealed(s, unread)
  OBVIOUS
<1>2. sealed.source \in {"readings", "placeholder"}
  BY <1>1 DEF Sealed, Placeholder, SealFromReadings
<1>3. PICK a : a = BuildAttest(s, HoursOnline(s), sealed, now, Signer)
  OBVIOUS
<1>4. a.season = s /\ a.source = sealed.source /\ a.min = MinReadings
  BY <1>3 DEF BuildAttest
<1>5. s \in Nat
  BY SchemaAssumption, StoreAssumption DEF Season, SeasonOf
<1>6. SealSound(a, H)
  BY <1>2, <1>4, <1>5, NoneAssumption DEF SealSound
<1> QED BY <1>1, <1>3, <1>6 DEF Attest

LEMMA WriteStep == ASSUME IsFiniteSet(Readings), WriteInv, [Next]_vars PROVE WriteInv'
<1>1. heard \subseteq heard' /\ heard' \subseteq Readings /\ card' \in {None, Device}
  BY WriterShape DEF WriteInv
<1>2. IsFiniteSet(heard')
  BY <1>1, FS_Subset
<1>3. \A k, v : Sound(k, v, heard) => Sound(k, v, heard')
  BY <1>1, <1>2, SoundGrows
<1>4. ASSUME NEW k \in Key, chain'[k] # None PROVE Sound(k, chain'[k], heard)
  <2>1. CASE chain' = chain
    BY <1>4, <2>1 DEF WriteInv
  <2>2. ASSUME NEW b \in mempool, chain' = After(b) PROVE Sound(k, chain'[k], heard)
    <3>1. chain'[k] = IF k \in DOMAIN b THEN b[k].value ELSE chain[k]
      BY <2>2 DEF After
    <3> QED BY <1>4, <3>1 DEF WriteInv
  <2> QED BY <2>1, <2>2, WriterShape
<1>5. ASSUME NEW k \in Key, k \in DOMAIN batch' PROVE Sound(k, batch'[k].value, heard)
  <2>1. CASE batch' \in {batch, NoBatch}
    BY <1>5, <2>1 DEF WriteInv, NoBatch
  <2>2. ASSUME NEW missed, NEW blind, batch' = Planned(missed, blind)
        PROVE  Sound(k, batch'[k].value, heard)
    <3>1. PICK b : b = batch'
      OBVIOUS
    <3>2. /\ NodeKey \in DOMAIN b => b[NodeKey].value.pubkey = card /\ card # None
          /\ \A h \in Hour : ReadingsKey(h) \in DOMAIN b
                => b[ReadingsKey(h)].value = ReadingsRecord(InHour(h))
          /\ \A t \in Season : AttestKey(t) \notin DOMAIN b
      BY <2>2, <3>1, PlannedWrites DEF WriteInv
    <3>3. \A h \in Hour : \A r \in ReadingsRecord(InHour(h)).readings : r.at = h /\ Original(r) \in heard
      BY PublisherAssumption DEF ReadingsRecord, InHour, WriteInv
    <3>4. \A h \in Hour : k = ReadingsKey(h) =>
            \A r \in b[k].value.readings : r.at = h /\ (r.key = Device => Original(r) \in heard)
      BY <1>5, <3>1, <3>2, <3>3
    <3> QED BY <1>5, <3>1, <3>2, <3>4 DEF Sound
  <2>3. ASSUME NEW missed, NEW unread, NEW blind, batch' = Seals(missed, unread, blind)
        PROVE  Sound(k, batch'[k].value, heard)
    <3>1. PICK b : b = batch'
      OBVIOUS
    <3>2. PICK s \in Season : k = AttestKey(s) /\ b[k].value = Attest(s, unread, now)
      BY <1>5, <2>3, <3>1, SealsWrite
    <3>3. SealSound(b[k].value, heard)
      BY <3>2, AttestSound
    <3>4. \A h \in Hour : k # ReadingsKey(h)
      BY <3>2 DEF AttestKey, ReadingsKey
    <3> QED BY <3>1, <3>3, <3>4 DEF Sound
  <2> QED BY <2>1, <2>2, <2>3, WriterShape
<1>6. \A b \in mempool' \union {batch'}, k \in Key : k \in DOMAIN b => Sound(k, b[k].value, heard)
  BY <1>5, WriterShape DEF WriteInv
<1>7. now' \in 0 .. LastHour
  BY WriterShape, StoreAssumption DEF WriteInv
<1> QED BY <1>1, <1>3, <1>4, <1>6, <1>7 DEF WriteInv

(****************************************************************************)
(* A store with readings declares its schema: the batch that brings the     *)
(* first ones brings the declaration, or was planned when it was there.     *)
(****************************************************************************)

Declared == chain[MetaKey].declares = TRUE

Declares(b) ==
  /\ MetaKey \in DOMAIN b => b[MetaKey].value.declares = TRUE
  /\ (\E h \in Hour : ReadingsKey(h) \in DOMAIN b) /\ MetaKey \notin DOMAIN b => Declared

DeclInv ==
  /\ (\E h \in Hour : OnChain(h)) => Declared
  /\ \A b \in mempool \union {batch} : Declares(b)

LEMMA DeclStep == ASSUME WriteInv, DeclInv, [Next]_vars PROVE DeclInv'
<1>1. Declared => Declared'
  <2>1. ASSUME NEW b \in mempool, chain' = After(b), Declared PROVE Declared'
    <3>1. MetaKey \in Key
      BY DEF Key
    <3>2. chain'[MetaKey] = IF MetaKey \in DOMAIN b THEN b[MetaKey].value ELSE chain[MetaKey]
      BY <2>1, <3>1 DEF After
    <3> QED BY <2>1, <3>2 DEF DeclInv, Declares, Declared
  <2> QED BY <2>1, WriterShape DEF Declared
<1>2. ASSUME NEW h \in Hour, OnChain(h)' PROVE Declared'
  <2>1. CASE OnChain(h)
    BY <1>1, <2>1 DEF DeclInv
  <2>2. CASE ~OnChain(h)
    <3>1. PICK b \in mempool : chain' = After(b)
      BY <1>2, <2>2, WriterShape DEF OnChain
    <3>2. MetaKey \in Key /\ ReadingsKey(h) \in Key
      BY DEF Key
    <3>3. ReadingsKey(h) \in DOMAIN b
      BY <1>2, <2>2, <3>1, <3>2 DEF OnChain, After
    <3>4. CASE MetaKey \in DOMAIN b
      BY <3>1, <3>2, <3>4 DEF DeclInv, Declares, Declared, After
    <3>5. CASE MetaKey \notin DOMAIN b
      BY <1>1, <3>3, <3>5 DEF DeclInv, Declares
    <3> QED BY <3>4, <3>5
  <2> QED BY <2>1, <2>2
<1>3. \A b : Declares(b) => Declares(b)'
  BY <1>1 DEF Declares
<1>4. Declares(batch)'
  <2>1. CASE batch' = batch
    BY <1>1, <2>1 DEF DeclInv, Declares
  <2>2. CASE batch' = NoBatch
    BY <2>2 DEF NoBatch, Declares
  <2>3. ASSUME NEW missed, NEW blind, batch' = Planned(missed, blind) PROVE Declares(batch)'
    <3>1. PICK b : b = batch'
      OBVIOUS
    <3>2. /\ MetaKey \in DOMAIN b => b[MetaKey].value.declares = TRUE
          /\ MetaKey \notin DOMAIN b => Declared
      BY <2>3, <3>1, PlannedWrites DEF Declared, WriteInv
    <3>3. Declares(b)'
      BY <1>1, <3>2 DEF Declares
    <3> QED BY <3>1, <3>3
  <2>4. ASSUME NEW missed, NEW unread, NEW blind, batch' = Seals(missed, unread, blind)
        PROVE  Declares(batch)'
    <3>1. PICK b : b = batch'
      OBVIOUS
    <3>2. \A k \in DOMAIN b : \E s \in Season : k = AttestKey(s)
      BY <2>4, <3>1, SealsWrite
    <3>3. MetaKey \notin DOMAIN b /\ \A h \in Hour : ReadingsKey(h) \notin DOMAIN b
      BY <3>2 DEF AttestKey, MetaKey, ReadingsKey
    <3>4. Declares(b)'
      BY <3>3 DEF Declares
    <3> QED BY <3>1, <3>4
  <2> QED BY <2>1, <2>2, <2>3, <2>4, WriterShape
<1>5. \A b \in mempool' \union {batch'} : Declares(b)'
  BY <1>3, <1>4, WriterShape DEF DeclInv
<1> QED BY <1>2, <1>5 DEF DeclInv

(****************************************************************************)
(* What a verification has read and will read.                              *)
(****************************************************************************)

Pending(w) == {w[i] : i \in 1 .. Len(w)}
Covers(k) == k \in DOMAIN bundle \/ k \in Pending(wanted)

Asked(q) ==
  /\ q.season \in Season
  /\ \/ q.mode \in {"season", "latest"} /\ q.hour = None
     \/ q.mode \in {"hour", "reading"} /\ q.hour \in Hour

(* All that the question is about is read before anything is concluded, of  *)
(* a whole season one hour at least.                                        *)
CoversQuestion ==
  /\ Covers(NodeKey)
  /\ asked.mode # "reading" => Covers(MetaKey) /\ Covers(AttestKey(asked.season))
  /\ asked.hour # None => Covers(ReadingsKey(asked.hour)) /\ stage \notin {"discover", "hours"}
  /\ asked.hour = None /\ stage \notin {"records", "discover"}
       => \E h \in Hour : Covers(ReadingsKey(h))

ReadInv ==
  /\ stage \in {"idle", "records", "discover", "hours", "prove", "rooted", "proven"}
  /\ DOMAIN bundle \subseteq Key
  /\ \A k \in DOMAIN bundle : bundle[k] # None /\ Sound(k, bundle[k], heard)
  /\ wanted \in Seq(Key)
  /\ stage \in {"records", "hours"} => wanted # <<>>
  /\ stage \notin {"records", "hours"} => wanted = <<>>
  /\ stage = "idle" => bundle = NoBundle /\ asked = NoQuestion
  /\ verdict \in {None, 0, 1, 2}
  /\ stage # "idle" => Asked(asked) /\ CoversQuestion
  /\ stage \in {"rooted", "proven"} => asked.mode # "latest" /\ Found

LEMMA PendingHead ==
  ASSUME NEW S, NEW w \in Seq(S), w # <<>>
  PROVE  /\ Head(w) \in S /\ Tail(w) \in Seq(S)
         /\ Pending(w) = {Head(w)} \union Pending(Tail(w))
<1>1. Head(w) = w[1] /\ Head(w) \in S /\ Tail(w) \in Seq(S)
  OBVIOUS
<1>2. Len(w) \in Nat /\ Len(w) # 0 /\ Len(Tail(w)) = Len(w) - 1
  OBVIOUS
<1>3. \A i \in 1 .. Len(Tail(w)) : Tail(w)[i] = w[i + 1]
  OBVIOUS
<1>4. ASSUME NEW x \in Pending(w) PROVE x \in {Head(w)} \union Pending(Tail(w))
  <2>1. PICK i \in 1 .. Len(w) : x = w[i]
    BY <1>4 DEF Pending
  <2>2. CASE i = 1
    BY <1>1, <2>1, <2>2
  <2>3. CASE i # 1
    <3>1. i - 1 \in 1 .. Len(Tail(w)) /\ (i - 1) + 1 = i
      BY <1>2, <2>1, <2>3
    <3>2. Tail(w)[i - 1] = w[i]
      BY <1>3, <3>1
    <3> QED BY <2>1, <3>1, <3>2 DEF Pending
  <2> QED BY <2>2, <2>3
<1>5. ASSUME NEW x \in {Head(w)} \union Pending(Tail(w)) PROVE x \in Pending(w)
  <2>1. CASE x = Head(w)
    <3>1. 1 \in 1 .. Len(w)
      BY <1>2
    <3> QED BY <1>1, <2>1, <3>1 DEF Pending
  <2>2. ASSUME NEW i \in 1 .. Len(Tail(w)), x = Tail(w)[i] PROVE x \in Pending(w)
    <3>1. i + 1 \in 1 .. Len(w)
      BY <1>2, <2>2
    <3> QED BY <1>3, <2>2, <3>1 DEF Pending
  <2> QED BY <1>5, <2>1, <2>2 DEF Pending
<1> QED BY <1>1, <1>4, <1>5

(* Every question is about a season or an hour of the store.                *)
LEMMA QuestionsAsked ==
  ASSUME WriteInv, NEW q \in Questions
  PROVE  Asked(q) /\ (q.hour # None => q.hour \in Hour)
<1>1. ASSUME NEW s \in Season, q = About("season", s, None, None) \/ q = About("latest", s, None, None)
      PROVE  Asked(q) /\ q.hour = None
  BY <1>1 DEF About, Asked
<1>2. ASSUME NEW h \in Hour, NEW r, q = About("hour", SeasonOf(h), h, None) \/ q = About("reading", SeasonOf(h), h, r)
      PROVE  Asked(q) /\ q.hour \in Hour
  BY <1>2, HourOfSeason DEF About, Asked
<1>3. ASSUME SealedSeasons # {} PROVE Newest \in Season
  <2>1. SealedSeasons \subseteq Season /\ Season \subseteq Int
    BY DEF SealedSeasons, Season
  <2>2. IsFiniteSet(SealedSeasons)
    BY <2>1, Countable, FS_Subset
  <2>3. \E m \in SealedSeasons : \A x \in SealedSeasons : x <= m
    BY <1>3, <2>1, <2>2, GreatestExists
  <2> QED BY <2>1, <2>3 DEF Newest
<1>4. ASSUME NEW r \in heard \union ReadingsIn(RecordsIn([k \in Listed |-> chain[k]]))
      PROVE  r.at \in Hour
  <2>1. CASE r \in heard
    BY <2>1, PublisherAssumption DEF WriteInv
  <2>2. CASE r \in ReadingsIn(RecordsIn([k \in Listed |-> chain[k]]))
    <3>1. PICK f : f = [k \in Listed |-> chain[k]]
      OBVIOUS
    <3>2. PICK h \in Hour : ReadingsKey(h) \in DOMAIN f /\ r \in f[ReadingsKey(h)].readings
      BY <2>2, <3>1 DEF ReadingsIn, RecordsIn
    <3>3. ReadingsKey(h) \in Key /\ chain[ReadingsKey(h)] # None /\ r \in chain[ReadingsKey(h)].readings
      BY <3>1, <3>2 DEF Listed
    <3>4. Sound(ReadingsKey(h), chain[ReadingsKey(h)], heard)
      BY <3>3 DEF WriteInv
    <3> QED BY <3>3, <3>4 DEF Sound
  <2> QED BY <1>4, <2>1, <2>2
<1> QED BY <1>1, <1>2, <1>3, <1>4 DEF Questions

(* The writers leave what is read as it is.                                 *)
LEMMA ReadWriter ==
  ASSUME IsFiniteSet(Readings), WriteInv, ReadInv, [Next]_vars, UNCHANGED verifierVars
  PROVE  ReadInv'
<1>1. heard \subseteq heard' /\ heard' \subseteq Readings
  BY WriterShape DEF WriteInv
<1>2. IsFiniteSet(heard')
  BY <1>1, FS_Subset
<1>3. \A k \in DOMAIN bundle : Sound(k, bundle[k], heard')
  BY <1>1, <1>2, SoundGrows DEF ReadInv
<1>4. UNCHANGED <<asked, stage, wanted, bundle, verdict>>
  BY DEF verifierVars
<1>5. CoversQuestion => CoversQuestion'
  BY <1>4 DEF CoversQuestion, Covers
<1> QED BY <1>3, <1>4, <1>5 DEF ReadInv, Found

LEMMA AskReads ==
  ASSUME WriteInv, ReadInv, NEW q \in Questions, Ask(q), UNCHANGED vars
  PROVE  ReadInv'
<1>1. Asked(q)
  BY QuestionsAsked
<1>2. asked' = q /\ stage' = "records" /\ bundle' = bundle /\ bundle = NoBundle
  BY DEF Ask, ReadInv
<1>3. /\ NodeKey \in Key /\ MetaKey \in Key /\ AttestKey(q.season) \in Key
      /\ q.hour # None => ReadingsKey(q.hour) \in Key
  BY <1>1 DEF Key, Asked
<1>4. PICK front, last :
        /\ front = IF q.mode = "reading" THEN <<NodeKey>> ELSE <<MetaKey, NodeKey, AttestKey(q.season)>>
        /\ last = IF q.hour = None THEN <<>> ELSE <<ReadingsKey(q.hour)>>
  OBVIOUS
<1>5. wanted' = front \o last
  BY <1>4 DEF Ask
<1>6. /\ front \in Seq(Key) /\ last \in Seq(Key) /\ front # <<>>
      /\ NodeKey \in Pending(front)
      /\ q.mode # "reading" => MetaKey \in Pending(front) /\ AttestKey(q.season) \in Pending(front)
      /\ q.hour # None => ReadingsKey(q.hour) \in Pending(last)
  <2>1. CASE q.mode = "reading"
    <3>1. front = <<NodeKey>>
      BY <1>4, <2>1
    <3> QED BY <1>3, <1>4, <2>1, <3>1 DEF Pending
  <2>2. CASE q.mode # "reading"
    <3>1. front = <<MetaKey, NodeKey, AttestKey(q.season)>>
      BY <1>4, <2>2
    <3>2. front[1] = MetaKey /\ front[2] = NodeKey /\ front[3] = AttestKey(q.season) /\ Len(front) = 3
      BY <3>1
    <3> QED BY <1>3, <1>4, <2>2, <3>1, <3>2 DEF Pending
  <2> QED BY <2>1, <2>2
<1>7. front \o last \in Seq(Key) /\ front \o last # <<>>
  BY <1>6
<1>8. ASSUME NEW k, k \in Pending(front) \/ k \in Pending(last) PROVE k \in Pending(front \o last)
  <2>1. PICK w : w = front \o last
    OBVIOUS
  <2>2. /\ Len(w) = Len(front) + Len(last) /\ Len(front) \in Nat /\ Len(last) \in Nat
        /\ \A i \in 1 .. Len(front) : w[i] = front[i]
        /\ \A i \in 1 .. Len(last) : w[Len(front) + i] = last[i]
    BY <1>6, <2>1
  <2>3. ASSUME NEW i \in 1 .. Len(front), k = front[i] PROVE k \in Pending(w)
    BY <2>2, <2>3 DEF Pending
  <2>4. ASSUME NEW i \in 1 .. Len(last), k = last[i] PROVE k \in Pending(w)
    <3>1. Len(front) + i \in 1 .. Len(w)
      BY <2>2
    <3> QED BY <2>2, <2>4, <3>1 DEF Pending
  <2> QED BY <1>8, <2>1, <2>3, <2>4 DEF Pending
<1>9. CoversQuestion'
  BY <1>1, <1>2, <1>5, <1>6, <1>8 DEF CoversQuestion, Covers
<1>10. verdict' = None /\ heard' = heard
  BY DEF Ask, vars, oracleVars
<1> QED BY <1>1, <1>2, <1>5, <1>7, <1>9, <1>10 DEF ReadInv, NoBundle, Asked

LEMMA ConcludeReads == ASSUME NEW code \in 0 .. 2, Conclude(code) PROVE ReadInv'
  BY DEF Conclude, ReadInv, NoBundle

LEMMA Codes == Open \in 0 .. 2 /\ \A proof : ExitCode(proof) \in 0 .. 2
  BY DEF Open, ExitCode

LEMMA FetchReads ==
  ASSUME WriteInv, ReadInv, Fetch, UNCHANGED vars
  PROVE  ReadInv'
<1>1. PICK k : k = Head(wanted)
  OBVIOUS
<1>2. wanted \in Seq(Key) /\ wanted # <<>>
  BY DEF Fetch, ReadInv
<1>3. k \in Key /\ Tail(wanted) \in Seq(Key) /\ Pending(wanted) = {k} \union Pending(Tail(wanted))
  BY <1>1, <1>2, PendingHead
<1>4. CASE chain[k] = None
  BY <1>1, <1>4, Codes, ConcludeReads DEF Fetch, Say
<1>5. CASE chain[k] # None
  <2>1. /\ bundle' = [c \in DOMAIN bundle \union {k} |-> IF c = k THEN chain[k] ELSE bundle[c]]
        /\ wanted' = Tail(wanted) /\ UNCHANGED <<asked, verdict>>
        /\ stage' = IF Tail(wanted) # <<>> THEN stage
                    ELSE IF stage = "records" /\ asked.hour = None THEN "discover" ELSE "prove"
        /\ stage \in {"records", "hours"}
    BY <1>1, <1>5 DEF Fetch
  <2>2. \A c : Covers(c) => Covers(c)'
    BY <1>3, <2>1 DEF Covers
  <2>3. Sound(k, chain[k], heard)
    BY <1>3, <1>5 DEF WriteInv
  <2>4. heard' = heard
    BY DEF vars, oracleVars
  <2>5. \A c \in DOMAIN bundle' : bundle'[c] # None /\ Sound(c, bundle'[c], heard')
    BY <1>5, <2>1, <2>3, <2>4 DEF ReadInv
  <2>6. CoversQuestion'
    BY <2>1, <2>2 DEF ReadInv, CoversQuestion
  <2>7. DOMAIN bundle' \subseteq Key
    BY <1>3, <2>1 DEF ReadInv
  <2> QED BY <1>3, <2>1, <2>5, <2>6, <2>7 DEF ReadInv
<1> QED BY <1>4, <1>5

LEMMA DiscoverReads ==
  ASSUME ReadInv, Discover, UNCHANGED vars
  PROVE  ReadInv'
<1>1. CASE DiscoveredHours(asked.season) = {}
  BY <1>1, Codes, ConcludeReads DEF Discover, Say
<1>2. CASE DiscoveredHours(asked.season) # {}
  <2>1. PICK H : H = DiscoveredHours(asked.season)
    OBVIOUS
  <2>2. PICK w : w = InOrder(H)
    OBVIOUS
  <2>3. H \subseteq Hour /\ H # {}
    BY <1>2, <2>1 DEF DiscoveredHours
  <2>4. w \in Seq({ReadingsKey(h) : h \in H}) /\ w # <<>>
    BY <2>2, <2>3, OrderLists
  <2>5. Len(w) \in Nat /\ Len(w) # 0 /\ \A i \in 1 .. Len(w) : w[i] \in {ReadingsKey(h) : h \in H}
    BY <2>4
  <2>6. w \in Seq(Key)
    <3>1. {ReadingsKey(h) : h \in H} \subseteq Key
      BY <2>3 DEF Key
    <3> QED BY <2>4, <3>1
  <2>7. \E h \in Hour : ReadingsKey(h) \in Pending(w)
    <3>1. 1 \in 1 .. Len(w)
      BY <2>5
    <3>2. PICK h \in H : w[1] = ReadingsKey(h)
      BY <2>5, <3>1
    <3> QED BY <2>3, <3>1, <3>2 DEF Pending
  <2>8. /\ wanted' = w /\ stage' = "hours" /\ stage = "discover" /\ wanted = <<>>
        /\ UNCHANGED <<asked, bundle, verdict, heard>>
    BY <1>2, <2>1, <2>2 DEF Discover, vars, oracleVars, ReadInv
  <2>9. \A c : Covers(c) => Covers(c)'
    BY <2>8 DEF Covers, Pending
  <2>10. CoversQuestion'
    BY <2>7, <2>8, <2>9 DEF ReadInv, CoversQuestion, Covers
  <2> QED BY <2>4, <2>6, <2>8, <2>10 DEF ReadInv
<1> QED BY <1>1, <1>2

LEMMA ReadStep ==
  ASSUME WriteInv, ReadInv, Verification, UNCHANGED vars
  PROVE  ReadInv'
<1>1. CASE Audit \/ NotFound \/ Fail \/ VerifyProofs
  <2>1. PICK code \in 0 .. 2 : Conclude(code)
    <3>1. CASE Audit
      <4>1. PICK code \in 0 .. 2 : code = IF Failed(bundle, TRUE) \subseteq {"anchors"} THEN 0 ELSE 1
        OBVIOUS
      <4> QED BY <3>1, <4>1 DEF Audit, Say
    <3>2. CASE NotFound
      BY <3>2 DEF NotFound, Say
    <3>3. CASE Fail
      BY <3>3, Codes DEF Fail
    <3>4. CASE VerifyProofs
      BY <3>4, Codes DEF VerifyProofs, Say
    <3> QED BY <1>1, <3>1, <3>2, <3>3, <3>4
  <2> QED BY <2>1, ConcludeReads
<1>2. CASE GetRoot
  BY <1>2 DEF GetRoot, ReadInv, CoversQuestion, Covers, Found, vars, oracleVars
<1>3. CASE GetProof
  <2>1. CASE Say(ExitCode(2))
    BY <2>1, Codes, ConcludeReads DEF Say
  <2>2. CASE ~Say(ExitCode(2))
    BY <1>3, <2>2 DEF GetProof, ReadInv, CoversQuestion, Covers, Found, vars, oracleVars
  <2> QED BY <2>1, <2>2
<1> QED BY <1>1, <1>2, <1>3, AskReads, FetchReads, DiscoverReads DEF Verification

LEMMA VerifierStarts == VerifierInit => WriteInv /\ ReadInv /\ (StoresDeclare => DeclInv)
<1> SUFFICES ASSUME VerifierInit PROVE WriteInv /\ ReadInv /\ (StoresDeclare => DeclInv)
  OBVIOUS
<1>1. WriteInv
  <2>1. heard \subseteq Readings /\ now \in 0 .. LastHour
    BY AttesterAssumption, StoreAssumption DEF VerifierInit
  <2> QED BY <2>1 DEF VerifierInit, WriteInv, NoBatch
<1>2. ReadInv
  BY DEF VerifierInit, ReadInv, NoBundle
<1>3. StoresDeclare => DeclInv
  BY DEF VerifierInit, StoresDeclare, DeclInv, Declares, Declared, NoBatch, OnChain
<1> QED BY <1>1, <1>2, <1>3

LEMMA VerifierStep ==
  ASSUME IsFiniteSet(Readings), WriteInv, ReadInv, [VerifierNext]_allVars
  PROVE  WriteInv' /\ ReadInv' /\ (DeclInv => DeclInv')
<1>1. CASE Writing /\ UNCHANGED verifierVars
  <2>1. [Next]_vars
    BY <1>1 DEF Writing, Next
  <2> QED BY <1>1, <2>1, WriteStep, ReadWriter, DeclStep
<1>2. CASE Verification /\ UNCHANGED vars
  <2>1. [Next]_vars
    BY <1>2
  <2> QED BY <1>2, <2>1, WriteStep, ReadStep, DeclStep
<1>3. CASE UNCHANGED allVars
  <2>1. [Next]_vars /\ UNCHANGED verifierVars
    BY <1>3 DEF allVars
  <2> QED BY <2>1, WriteStep, ReadWriter, DeclStep
<1> QED BY <1>1, <1>2, <1>3 DEF VerifierNext

(****************************************************************************)
(* What a verdict says.                                                     *)
(****************************************************************************)

(* A bundle that fails nothing but its anchors.                             *)
LEMMA NothingFails ==
  ASSUME NEW b, NEW full \in BOOLEAN, Failed(b, full) \subseteq {"anchors"},
         NEW a, a = b[AttestKey(asked.season)],
         NEW basis, basis = AttestBasis(a, b[MetaKey].declares)
  PROVE  /\ basis # FALSE
         /\ \A h \in DOMAIN RecordsIn(b) : SeasonOf(h) = a.season
         /\ full /\ ~PlaceholderSealed(a, basis) =>
              VerifiedHours([h \in DOMAIN RecordsIn(b) |-> RecordsIn(b)[h].readings],
                            b[NodeKey].pubkey, MinDeclared(a), a.window) = a.verified
<1>1. PICK records : records = RecordsIn(b)
  OBVIOUS
<1>2. PICK by_hour : by_hour = [h \in DOMAIN RecordsIn(b) |-> RecordsIn(b)[h].readings]
  OBVIOUS
<1>3. PICK general, season : /\ general = SealChecks(b[MetaKey], a, basis, records)
                             /\ season = SeasonChecks(b[NodeKey], a, by_hour)
  OBVIOUS
<1>4. /\ Failing(general) \subseteq {"anchors"}
      /\ full /\ ~PlaceholderSealed(a, basis) => Failing(season) \subseteq {"anchors"}
  <2> DEFINE rs == RecordsIn(b)
             G(x) == Failing(SealChecks(b[MetaKey], x, AttestBasis(x, b[MetaKey].declares), rs))
             R(x) == IF PlaceholderSealed(x, AttestBasis(x, b[MetaKey].declares)) /\ ReadingsIn(rs) = {}
                     THEN {} ELSE Failing(ReadingChecks(b[NodeKey], rs))
             S(x) == IF full /\ ~PlaceholderSealed(x, AttestBasis(x, b[MetaKey].declares))
                     THEN Failing(SeasonChecks(b[NodeKey], x, [h \in DOMAIN rs |-> rs[h].readings]))
                     ELSE {}
  <2>1. Failed(b, full) = UNION {G(x) \union R(x) \union S(x) : x \in {b[AttestKey(asked.season)]}}
    BY DEF Failed
  <2>2. G(a) = Failing(general)
    BY <1>1, <1>3
  <2>3. full /\ ~PlaceholderSealed(a, basis) => S(a) = Failing(season)
    BY <1>2, <1>3
  <2> HIDE DEF G, R, S
  <2>4. G(a) \subseteq Failed(b, full) /\ S(a) \subseteq Failed(b, full)
    BY <2>1
  <2> QED BY <2>2, <2>3, <2>4
<1>5. /\ "agree" \in DOMAIN general /\ "basis" \in DOMAIN general
      /\ general["agree"] = (\A h \in DOMAIN records : SeasonOf(h) = a.season)
      /\ general["basis"] = (basis # FALSE)
  BY <1>3 DEF SealChecks
<1>6. general["agree"] # FALSE /\ general["basis"] # FALSE
  <2>1. "agree" \notin Failing(general) /\ "basis" \notin Failing(general)
    BY <1>4
  <2>2. "agree" \in DOMAIN general /\ "basis" \in DOMAIN general
    BY <1>5
  <2> QED BY <2>1, <2>2 DEF Failing
<1>7. /\ "hours" \in DOMAIN season
      /\ season["hours"] =
           (VerifiedHours(by_hour, b[NodeKey].pubkey, MinDeclared(a), a.window) = a.verified)
  BY <1>3 DEF SeasonChecks
<1>8. full /\ ~PlaceholderSealed(a, basis) => season["hours"] # FALSE
  <2> SUFFICES ASSUME full, ~PlaceholderSealed(a, basis) PROVE season["hours"] # FALSE
    OBVIOUS
  <2>1. "hours" \notin Failing(season)
    BY <1>4
  <2>2. "hours" \in DOMAIN season
    BY <1>7
  <2> QED BY <2>1, <2>2 DEF Failing
<1> QED BY <1>1, <1>2, <1>5, <1>6, <1>7, <1>8

(* The hours counted are hours of the season the Tree was heard in, and     *)
(* where no reading is listed again, hours it was heard in often enough.    *)
LEMMA CountedAreEarned ==
  ASSUME WriteInv, ReadInv, IsFiniteSet(Readings), bundle[NodeKey].pubkey = Device,
         NEW a, a.season \in Nat,
         \A h \in DOMAIN RecordsIn(bundle) : SeasonOf(h) = a.season,
         NEW min \in {1, Threshold(a)}, min = 1 \/ ~Repeats
  PROVE  VerifiedHours([h \in DOMAIN RecordsIn(bundle) |-> RecordsIn(bundle)[h].readings],
                       bundle[NodeKey].pubkey, MinDeclared(a), a.window)
           <= Cardinality(HoursBy(a, heard, min))
<1>1. PICK records, by_hour :
        /\ records = RecordsIn(bundle)
        /\ by_hour = [h \in DOMAIN RecordsIn(bundle) |-> RecordsIn(bundle)[h].readings]
  OBVIOUS
<1>2. PICK t \in Nat : t = Threshold(a) /\ 1 <= t
  BY ThresholdCounts
<1>3. PICK S, T : /\ S = {h \in DOMAIN by_hour : Cardinality(Signed(by_hour[h], Device, a.window)) >= t}
                  /\ T = HoursBy(a, heard, min)
  OBVIOUS
<1>4. IsFiniteSet(heard)
  BY FS_Subset DEF WriteInv
<1>5. ASSUME NEW h \in S PROVE h \in T
  <2>1. /\ h \in Hour /\ ReadingsKey(h) \in DOMAIN bundle
        /\ by_hour[h] = bundle[ReadingsKey(h)].readings
        /\ SeasonOf(h) = a.season /\ h \in DOMAIN records /\ by_hour[h] = records[h].readings
    BY <1>1, <1>3, <1>5 DEF RecordsIn
  <2>2. PICK C, D : C = Signed(by_hour[h], Device, a.window) /\ D = {r \in heard : r.at = h}
    OBVIOUS
  <2>3. \A r \in C : r \in by_hour[h] /\ r.at = h /\ Original(r) \in heard
    <3>1. Sound(ReadingsKey(h), bundle[ReadingsKey(h)], heard)
      BY <2>1 DEF ReadInv
    <3>2. \A r \in by_hour[h] : r.at = h /\ (r.key = Device => Original(r) \in heard)
      BY <2>1, <3>1 DEF Sound
    <3>3. \A r \in C : r \in by_hour[h] /\ r.key = Device
      BY <2>2 DEF Signed
    <3> QED BY <3>2, <3>3
  <2>4. \A r \in C : Original(r) \in D
    BY <2>2, <2>3 DEF Original
  <2>5. Cardinality(C) >= t
    BY <1>3, <1>5, <2>2
  <2>6. IsFiniteSet(D) /\ D \in SUBSET heard
    BY <1>4, <2>2, FS_Subset
  <2>7. Cardinality(D) \in Nat
    BY <2>6, FS_CardinalityType
  <2>8. Cardinality(D) >= min
    <3>1. CASE min = 1
      <4>1. C # {}
        BY <1>2, <2>5, FS_EmptySet
      <4>2. D # {}
        BY <2>4, <4>1
      <4>3. Cardinality(D) # 0
        BY <2>6, <4>2, FS_EmptySet
      <4> QED BY <2>7, <3>1, <4>3
    <3>2. CASE min = t /\ ~Repeats
      <4>1. \A r \in C : Original(r) = r
        BY <1>1, <2>1, <2>3, <3>2 DEF Repeats, ReadingsIn
      <4>2. C \in SUBSET D
        BY <2>4, <4>1
      <4>3. IsFiniteSet(C) /\ Cardinality(C) <= Cardinality(D)
        BY <2>6, <4>2, FS_Subset
      <4>4. Cardinality(C) \in Nat
        BY <4>3, FS_CardinalityType
      <4> QED BY <2>5, <2>7, <3>2, <4>3, <4>4
    <3> QED BY <1>2, <3>1, <3>2
  <2>9. h \in HoursOf(a.season)
    BY <2>1, HourOfSeason
  <2> QED BY <1>3, <2>2, <2>8, <2>9 DEF HoursBy
<1>6. IsFiniteSet(T)
  <2>1. T \in SUBSET HoursOf(a.season)
    BY <1>3 DEF HoursBy
  <2> QED BY <2>1, HoursByFinite, FS_Subset
<1>7. S \in SUBSET T
  BY <1>5
<1>8. Cardinality(S) <= Cardinality(T)
  BY <1>6, <1>7, FS_Subset
<1>9. VerifiedHours(by_hour, bundle[NodeKey].pubkey, MinDeclared(a), a.window) = Cardinality(S)
  <2>1. MinDeclared(a) = t
    BY <1>2 DEF MinDeclared, Threshold, LegacyMinReadings
  <2> QED BY <1>3, <2>1 DEF VerifiedHours
<1> QED BY <1>1, <1>3, <1>8, <1>9

(* A seal in a bundle that fails nothing but its anchors.                   *)
LEMMA SealIsEarned ==
  ASSUME IsFiniteSet(Readings), WriteInv, ReadInv, bundle[NodeKey].pubkey = Device,
         stage \in {"prove", "proven"}, asked.mode \in {"season", "latest"},
         Failed(bundle, TRUE) \subseteq {"anchors"}
  PROVE  Earned(bundle[AttestKey(asked.season)], Repeats)
<1>1. PICK a : a = bundle[AttestKey(asked.season)]
  OBVIOUS
<1>2. PICK basis : basis = AttestBasis(a, bundle[MetaKey].declares)
  OBVIOUS
<1>3. asked.season \in Season /\ AttestKey(asked.season) \in DOMAIN bundle /\ NodeKey \in DOMAIN bundle
  BY DEF ReadInv, Asked, CoversQuestion, Covers, Pending
<1>4. SealSound(a, heard)
  BY <1>1, <1>3 DEF ReadInv, Sound
<1>5. basis # FALSE
  BY <1>1, <1>2, NothingFails
<1>6. CASE PlaceholderSealed(a, basis)
  <2>1. a.source # "placeholder"
    BY <1>2, <1>5, NoneAssumption DEF AttestBasis
  <2>2. basis = None /\ a.root = PlaceholderRoot(a.season, a.hours_online)
    BY <1>6, <2>1 DEF PlaceholderSealed, DeclaresPlaceholder
  <2>3. a.source = None
    <3> SUFFICES ASSUME a.source # None PROVE basis \in BOOLEAN
      BY <2>2, NoneAssumption
    <3> QED BY <1>2 DEF AttestBasis
  <2>4. PICK t \in Nat, v \in Int :
          /\ t = Threshold(a) /\ 1 <= t /\ v = a.verified
          /\ v <= Cardinality(HoursBy(a, heard, t))
    BY <1>4, <2>2, <2>3, ThresholdCounts DEF SealSound
  <2>5. PICK m, n : m = Cardinality(HoursBy(a, heard, t)) /\ n = Cardinality(HoursBy(a, heard, 1))
    OBVIOUS
  <2>6. IsFiniteSet(heard)
    BY FS_Subset DEF WriteInv
  <2>7. m \in Nat /\ n \in Nat /\ m <= n
    BY <1>4, <2>4, <2>5, <2>6, HoursGrow DEF SealSound
  <2>8. v <= n
    BY <2>4, <2>5, <2>7
  <2> QED BY <1>1, <2>4, <2>5, <2>8 DEF Earned
<1>7. CASE ~PlaceholderSealed(a, basis)
  <2>1. /\ \A h \in DOMAIN RecordsIn(bundle) : SeasonOf(h) = a.season
        /\ VerifiedHours([h \in DOMAIN RecordsIn(bundle) |-> RecordsIn(bundle)[h].readings],
                         bundle[NodeKey].pubkey, MinDeclared(a), a.window) = a.verified
    BY <1>1, <1>2, <1>7, NothingFails
  <2>2. a.season \in Nat
    BY <1>4 DEF SealSound
  <2>3. a.verified <= Cardinality(HoursBy(a, heard, 1))
    BY <2>1, <2>2, CountedAreEarned
  <2>4. ~Repeats => a.verified <= Cardinality(HoursBy(a, heard, Threshold(a)))
    BY <2>1, <2>2, CountedAreEarned
  <2> QED BY <1>1, <2>3, <2>4 DEF Earned
<1> QED BY <1>6, <1>7

(* The step that calls something valid.                                     *)
LEMMA EarnedStep ==
  ASSUME IsFiniteSet(Readings), WriteInv, ReadInv,
         VerifierNext, Concludes, verdict' = 0, Checked, bundle[NodeKey].pubkey = Device
  PROVE  /\ asked.mode \in {"season", "latest"} =>
              Earned(bundle[AttestKey(asked.season)], Repeats)
         /\ asked.mode = "reading" => asked.reading \in heard
<1>1. CASE asked.mode = "season"
  <2>1. LocalVerdict = 0
    BY <1>1, ValidStep
  <2>2. Failed(bundle, asked.mode = "season") = {}
    BY <1>1, <2>1, LocalCodes
  <2>3. Failed(bundle, TRUE) = {}
    BY <1>1, <2>2
  <2> QED BY <1>1, <2>3, SealIsEarned DEF Checked
<1>2. CASE asked.mode = "latest"
  <2>1. stage = "prove"
    BY <1>2 DEF ReadInv, Checked
  <2>2. Failed(bundle, TRUE) \subseteq {"anchors"}
    <3>1. Verification
      BY DEF VerifierNext, Concludes, verifierVars, vars, storeVars
    <3>2. Audit
      BY <1>2, <2>1, <3>1
      DEF Verification, Ask, Fetch, Discover, NotFound, GetRoot, GetProof, VerifyProofs, Fail,
          Say, Conclude
    <3>3. PICK code : code = IF Failed(bundle, TRUE) \subseteq {"anchors"} THEN 0 ELSE 1
      OBVIOUS
    <3>4. verdict' = code
      BY <3>2, <3>3 DEF Audit, Say, Conclude
    <3>5. CASE Failed(bundle, TRUE) \subseteq {"anchors"}
      BY <3>5
    <3>6. CASE ~(Failed(bundle, TRUE) \subseteq {"anchors"})
      <4>1. code = 1
        BY <3>3, <3>6
      <4> QED BY <3>4, <4>1
    <3> QED BY <3>5, <3>6
  <2> QED BY <1>2, <2>2, SealIsEarned DEF Checked
<1>3. ASSUME asked.mode = "reading" PROVE asked.reading \in heard
  <2>1. stage = "proven" /\ LocalVerdict = 0
    BY <1>3, ValidStep
  <2>2. ReadingHolds(asked.reading, bundle[NodeKey], bundle[ReadingsKey(asked.hour)])
    BY <1>3, <2>1, LocalCodes
  <2>3. asked.reading.key = Device
    BY <2>2 DEF ReadingHolds
  <2>4. PICK r \in bundle[ReadingsKey(asked.hour)].readings : Original(r) = asked.reading
    BY <1>3, <2>1 DEF ReadInv, Found
  <2>5. asked.hour \in Hour /\ ReadingsKey(asked.hour) \in DOMAIN bundle
    <3>1. asked.hour \in Hour /\ (asked.hour # None => ReadingsKey(asked.hour) \in DOMAIN bundle)
      BY <1>3, <2>1 DEF ReadInv, Asked, CoversQuestion, Covers, Pending
    <3> QED BY <3>1, NoneAssumption
  <2>6. \A q \in bundle[ReadingsKey(asked.hour)].readings : q.key = Device => Original(q) \in heard
    BY <2>5 DEF ReadInv, Sound
  <2>7. r.key = Device
    BY <2>3, <2>4 DEF Original
  <2> QED BY <2>4, <2>6, <2>7
<1> QED BY <1>1, <1>2, <1>3

LEMMA BackedStep ==
  ASSUME IsFiniteSet(Readings), WriteInv, ReadInv, DeclInv,
         VerifierNext, Concludes, verdict' = 0, asked.mode \in {"season", "hour"}
  PROVE  AttestBasis(bundle[AttestKey(asked.season)], TRUE) = TRUE
<1>1. PICK a : a = bundle[AttestKey(asked.season)]
  OBVIOUS
<1>2. /\ stage = "proven" /\ LocalVerdict = 0
      /\ \A k \in DOMAIN bundle : bundle[k] = chain[k]
  BY ValidStep
<1>3. Failed(bundle, asked.mode = "season") = {}
  BY <1>2, LocalCodes
<1>4. AttestBasis(a, bundle[MetaKey].declares) # FALSE
  <2>1. PICK full \in BOOLEAN : full = (asked.mode = "season")
    OBVIOUS
  <2>2. Failed(bundle, full) \subseteq {"anchors"}
    BY <1>3, <2>1
  <2> QED BY <1>1, <2>2, NothingFails
<1>5. MetaKey \in DOMAIN bundle /\ \E h \in Hour : ReadingsKey(h) \in DOMAIN bundle
  <2>1. wanted = <<>> /\ CoversQuestion /\ Asked(asked)
    BY <1>2 DEF ReadInv
  <2>2. \A k : Covers(k) => k \in DOMAIN bundle
    BY <2>1 DEF Covers, Pending
  <2> QED BY <1>2, <2>1, <2>2 DEF CoversQuestion, Asked
<1>6. \E h \in Hour : OnChain(h)
  BY <1>2, <1>5 DEF ReadInv, OnChain
<1>7. bundle[MetaKey].declares = TRUE
  BY <1>2, <1>5, <1>6 DEF DeclInv, Declared
<1>8. AttestBasis(a, TRUE) # FALSE
  BY <1>4, <1>7
<1>9. a.source = "readings"
  BY <1>8, NoneAssumption DEF AttestBasis
<1>10. AttestBasis(a, TRUE) = (a.sigs = TRUE)
  BY <1>9, NoneAssumption DEF AttestBasis
<1> QED BY <1>1, <1>8, <1>10

(* The variables of the verifier have their types.                          *)
THEOREM VerifierTypeCorrect ==
  ASSUME IsFiniteSet(Readings)
  PROVE  VerifierSpec => []VerifierTypeOK
<1>1. VerifierInit => WriteInv /\ ReadInv
  BY VerifierStarts
<1>2. WriteInv /\ ReadInv /\ [VerifierNext]_allVars => (WriteInv /\ ReadInv)'
  BY VerifierStep
<1>3. ReadInv => VerifierTypeOK
  BY DEF ReadInv, VerifierTypeOK, Asked, NoQuestion
<1> QED BY <1>1, <1>2, <1>3, PTL DEF VerifierSpec

(* Under a node card with the Tree's key no season is called valid that     *)
(* claims more hours than the Tree was heard in, or, where no reading is    *)
(* listed again, was heard in often enough; and no reading that it did not  *)
(* sign (verify.py:139-171, 435-453, schema.py:354-360): whatever the store *)
(* holds, and whatever lands while it is read, if nobody signs for the Tree *)
(* and readings are filed under their hours.                                *)
THEOREM VerdictIsEarned ==
  ASSUME IsFiniteSet(Readings)
  PROVE  VerifierSpec => ValidIsEarned
<1>1. VerifierInit => WriteInv /\ ReadInv
  BY VerifierStarts
<1>2. WriteInv /\ ReadInv /\ [VerifierNext]_allVars => (WriteInv /\ ReadInv)'
  BY VerifierStep
<1>3. WriteInv /\ ReadInv /\ [VerifierNext]_allVars
        => [Concludes /\ verdict' = 0 /\ Checked /\ bundle[NodeKey].pubkey = Device
              => CASE asked.mode \in {"season", "latest"} ->
                        Earned(bundle[AttestKey(asked.season)], Repeats)
                   [] asked.mode = "reading" -> asked.reading \in heard
                   [] OTHER -> TRUE]_allVars
  <2> SUFFICES ASSUME WriteInv, ReadInv, VerifierNext, Concludes, verdict' = 0, Checked,
                      bundle[NodeKey].pubkey = Device
               PROVE  CASE asked.mode \in {"season", "latest"} ->
                             Earned(bundle[AttestKey(asked.season)], Repeats)
                        [] asked.mode = "reading" -> asked.reading \in heard
                        [] OTHER -> TRUE
    OBVIOUS
  <2>1. /\ asked.mode \in {"season", "latest"} => Earned(bundle[AttestKey(asked.season)], Repeats)
        /\ asked.mode = "reading" => asked.reading \in heard
    BY EarnedStep
  <2> QED BY <2>1
<1> QED BY <1>1, <1>2, <1>3, PTL DEF VerifierSpec, ValidIsEarned

(* A season is called valid only on signed readings (schema.py:388-407), in *)
(* a store that declares the schema which brought them.                     *)
THEOREM VerdictIsBacked ==
  ASSUME IsFiniteSet(Readings), StoresDeclare
  PROVE  VerifierSpec => ValidIsBacked
<1>1. VerifierInit => WriteInv /\ ReadInv /\ DeclInv
  BY VerifierStarts
<1>2. WriteInv /\ ReadInv /\ DeclInv /\ [VerifierNext]_allVars => (WriteInv /\ ReadInv /\ DeclInv)'
  BY VerifierStep
<1>3. WriteInv /\ ReadInv /\ DeclInv /\ [VerifierNext]_allVars
        => [Concludes /\ verdict' = 0 /\ asked.mode \in {"season", "hour"}
              => AttestBasis(bundle[AttestKey(asked.season)], TRUE) = TRUE]_allVars
  BY BackedStep
<1> QED BY <1>1, <1>2, <1>3, PTL DEF VerifierSpec, ValidIsBacked

(****************************************************************************)
(* The trees, for any number of leaves.  They and their audit paths are     *)
(* computed by loops, here by functions on the number of rounds.  That      *)
(* there is such a function, and one, is shown for loops of all the kinds.  *)
(****************************************************************************)

(* If the first number is in G and the next of each that is, all are.       *)
LEMMA Induction ==
  ASSUME NEW G, 0 \in G, \A k \in Nat : k \in G => k + 1 \in G
  PROVE  \A k \in Nat : k \in G
<1> DEFINE B == Nat \ G
<1> SUFFICES ASSUME B # {} PROVE FALSE
  OBVIOUS
<1>1. PICK m \in B : \A k \in B : <<k, m>> \notin OpToRel(<, Nat)
  <2>1. B \subseteq Nat
    OBVIOUS
  <2> HIDE DEF B
  <2> QED BY <2>1, NatLessThanWellFounded, WFMin
<1>2. m \in Nat /\ m # 0 /\ m \notin G
  OBVIOUS
<1>3. PICK k : k = m - 1
  OBVIOUS
<1>4. k \in Nat /\ k < m /\ k + 1 = m
  BY <1>2, <1>3
<1>5. <<k, m>> \in OpToRel(<, Nat)
  BY <1>2, <1>4 DEF OpToRel
<1>6. k \in G
  BY <1>1, <1>4, <1>5
<1> QED BY <1>2, <1>4, <1>6

(* The tree hashes of m leaves, from those of fewer.                        *)
TreeRow(hash, leaves, m) ==
  [lo \in 1 .. Len(leaves) - m + 1 |->
     IF m = 1 THEN leaves[lo]
     ELSE NodeHash(hash[Split(m)][lo], hash[m - Split(m)][lo + Split(m)])]

Round(kind, x, data, k) ==
  IF kind = "level" THEN Up(x)
  ELSE IF kind = "half" THEN (x + 1) \div 2
  ELSE IF kind = "double" THEN 2 * x
  ELSE IF kind = "flat" THEN x \o data[k + 1]
  ELSE IF kind = "fold" THEN IF data[k].side = "R" THEN NodeHash(x, data[k].sibling)
                                                    ELSE NodeHash(data[k].sibling, x)
  ELSE [m \in 1 .. k |-> IF m < k THEN x[m] ELSE TreeRow(x, data, m)]

IsLoop(kind, start, data, n, f) ==
  f = [k \in 0 .. n |-> IF k = 0 THEN start ELSE Round(kind, f[k - 1], data, k)]

Rounds(kind, start, data, n, f) ==
  f[0] = start /\ \A k \in 1 .. n : f[k] = Round(kind, f[k - 1], data, k)

LEMMA LoopAt ==
  ASSUME NEW kind, NEW start, NEW data, NEW n \in Nat, NEW f, IsLoop(kind, start, data, n, f)
  PROVE  Rounds(kind, start, data, n, f)
<1>1. 0 \in 0 .. n
  OBVIOUS
<1>2. f[0] = start
  BY <1>1 DEF IsLoop
<1>3. ASSUME NEW k \in 1 .. n PROVE f[k] = Round(kind, f[k - 1], data, k)
  <2>1. k \in 0 .. n /\ k # 0
    OBVIOUS
  <2> QED BY <2>1 DEF IsLoop
<1> QED BY <1>2, <1>3 DEF Rounds

LEMMA LoopExists ==
  ASSUME NEW kind, NEW start, NEW data
  PROVE  \A n \in Nat : \E f : IsLoop(kind, start, data, n, f)
<1> DEFINE G == {n \in Nat : \E f : IsLoop(kind, start, data, n, f)}
<1>1. 0 \in G
  <2> DEFINE f == [k \in 0 .. 0 |-> start]
  <2>1. f = [k \in 0 .. 0 |-> IF k = 0 THEN start ELSE Round(kind, f[k - 1], data, k)]
    <3>1. \A k \in 0 .. 0 : k = 0
      OBVIOUS
    <3> QED BY <3>1
  <2> HIDE DEF f
  <2> QED BY <2>1 DEF IsLoop
<1>2. ASSUME NEW n \in Nat, n \in G PROVE n + 1 \in G
  <2>1. PICK f : IsLoop(kind, start, data, n, f)
    BY <1>2
  <2> DEFINE g == [k \in 0 .. n + 1 |-> IF k = n + 1 THEN Round(kind, f[n], data, n + 1) ELSE f[k]]
  <2>2. ASSUME NEW k \in 0 .. n + 1
        PROVE  g[k] = IF k = 0 THEN start ELSE Round(kind, g[k - 1], data, k)
    <3>1. CASE k = 0
      <4>1. g[k] = f[0]
        BY <3>1
      <4>2. f[0] = start
        BY <2>1, LoopAt DEF Rounds
      <4> HIDE DEF g
      <4> QED BY <3>1, <4>1, <4>2
    <3>2. CASE k = n + 1
      <4>1. g[k - 1] = f[n] /\ g[k] = Round(kind, f[n], data, n + 1)
        BY <3>2
      <4> HIDE DEF g
      <4> QED BY <3>2, <4>1
    <3>3. CASE k \in 1 .. n
      <4>1. g[k - 1] = f[k - 1] /\ g[k] = f[k]
        BY <3>3
      <4>2. f[k] = Round(kind, f[k - 1], data, k)
        BY <2>1, <3>3, LoopAt DEF Rounds
      <4> HIDE DEF g
      <4> QED BY <3>3, <4>1, <4>2
    <3> QED BY <3>1, <3>2, <3>3
  <2>3. g = [k \in 0 .. n + 1 |-> g[k]]
    OBVIOUS
  <2> HIDE DEF g
  <2>4. IsLoop(kind, start, data, n + 1, g)
    BY <2>2, <2>3 DEF IsLoop
  <2> QED BY <2>4
<1>3. \A n \in Nat : n \in G
  <2> HIDE DEF G
  <2> QED BY <1>1, <1>2, Induction
<1> QED BY <1>3

LEMMA LoopsAgree ==
  ASSUME NEW kind, NEW start, NEW data, NEW n \in Nat, NEW m \in Nat,
         NEW f, IsLoop(kind, start, data, n, f), NEW g, IsLoop(kind, start, data, m, g)
  PROVE  \A k \in Nat : k <= n /\ k <= m => f[k] = g[k]
<1> DEFINE G == {k \in Nat : k <= n /\ k <= m => f[k] = g[k]}
<1>f. Rounds(kind, start, data, n, f) /\ Rounds(kind, start, data, m, g)
  BY LoopAt
<1>1. 0 \in G
  BY <1>f DEF Rounds
<1>2. ASSUME NEW k \in Nat, k \in G PROVE k + 1 \in G
  <2>1. CASE k + 1 <= n /\ k + 1 <= m
    <3>1. f[k] = g[k]
      BY <1>2, <2>1
    <3>2. k + 1 \in 1 .. n /\ k + 1 \in 1 .. m /\ (k + 1) - 1 = k
      BY <2>1
    <3>3. f[k + 1] = Round(kind, f[k], data, k + 1)
      BY <3>2, <1>f DEF Rounds
    <3>4. g[k + 1] = Round(kind, g[k], data, k + 1)
      BY <3>2, <1>f DEF Rounds
    <3> QED BY <3>1, <3>3, <3>4
  <2> QED BY <2>1
<1>3. \A k \in Nat : k \in G
  <2> HIDE DEF G
  <2> QED BY <1>1, <1>2, Induction
<1> QED BY <1>3

(* The loops of the trees.                                                  *)

LEMMA LevelsAre ==
  ASSUME NEW leaves, Len(leaves) \in Nat
  PROVE  IsLoop("level", leaves, 0, Len(leaves), Levels(leaves))
<1>1. PICK n \in Nat : n = Len(leaves)
  OBVIOUS
<1>2. PICK f : f = [k \in 0 .. n |-> IF k = 0 THEN leaves ELSE Up(f[k - 1])]
  <2>1. PICK f : IsLoop("level", leaves, 0, n, f)
    BY LoopExists
  <2>2. f = [k \in 0 .. n |-> IF k = 0 THEN leaves ELSE Up(f[k - 1])]
    BY <2>1 DEF IsLoop, Round
  <2> QED BY <2>2
<1>3. Levels(leaves) = [k \in 0 .. n |-> IF k = 0 THEN leaves ELSE Up(Levels(leaves)[k - 1])]
  BY <1>1, <1>2 DEF Levels
<1> QED BY <1>1, <1>3 DEF IsLoop, Round

LEMMA PositionsAre ==
  ASSUME NEW index, NEW n \in Nat
  PROVE  IsLoop("half", index, 0, n, Positions(index, n))
<1>1. PICK f : f = [k \in 0 .. n |-> IF k = 0 THEN index ELSE (f[k - 1] + 1) \div 2]
  <2>1. PICK f : IsLoop("half", index, 0, n, f)
    BY LoopExists
  <2>2. f = [k \in 0 .. n |-> IF k = 0 THEN index ELSE (f[k - 1] + 1) \div 2]
    BY <2>1 DEF IsLoop, Round
  <2> QED BY <2>2
<1>2. Positions(index, n)
        = [k \in 0 .. n |-> IF k = 0 THEN index ELSE (Positions(index, n)[k - 1] + 1) \div 2]
  BY <1>1 DEF Positions
<1> QED BY <1>2 DEF IsLoop, Round

LEMMA PowersAre ==
  ASSUME NEW n \in Nat
  PROVE  IsLoop("double", 1, 0, n, Powers(n))
<1>1. PICK f : f = [k \in 0 .. n |-> IF k = 0 THEN 1 ELSE 2 * f[k - 1]]
  <2>1. PICK f : IsLoop("double", 1, 0, n, f)
    BY LoopExists
  <2>2. f = [k \in 0 .. n |-> IF k = 0 THEN 1 ELSE 2 * f[k - 1]]
    BY <2>1 DEF IsLoop, Round
  <2> QED BY <2>2
<1>2. Powers(n) = [k \in 0 .. n |-> IF k = 0 THEN 1 ELSE 2 * Powers(n)[k - 1]]
  BY <1>1 DEF Powers
<1> QED BY <1>2 DEF IsLoop, Round

LEMMA LevelsAt ==
  ASSUME NEW leaves, Len(leaves) \in Nat
  PROVE  /\ Levels(leaves)[0] = leaves
         /\ \A k \in 1 .. Len(leaves) : Levels(leaves)[k] = Up(Levels(leaves)[k - 1])
<1>1. Rounds("level", leaves, 0, Len(leaves), Levels(leaves))
  BY LevelsAre, LoopAt
<1> QED BY <1>1 DEF Rounds, Round

LEMMA PositionsAt ==
  ASSUME NEW index, NEW n \in Nat
  PROVE  /\ Positions(index, n)[0] = index
         /\ \A k \in 1 .. n : Positions(index, n)[k] = (Positions(index, n)[k - 1] + 1) \div 2
<1>1. Rounds("half", index, 0, n, Positions(index, n))
  BY PositionsAre, LoopAt
<1> QED BY <1>1 DEF Rounds, Round

LEMMA PowersAt ==
  ASSUME NEW n \in Nat
  PROVE  /\ Powers(n)[0] = 1
         /\ \A k \in 1 .. n : Powers(n)[k] = 2 * Powers(n)[k - 1]
<1>1. Rounds("double", 1, 0, n, Powers(n))
  BY PowersAre, LoopAt
<1> QED BY <1>1 DEF Rounds, Round

LEMMA PowersSame ==
  ASSUME NEW n \in Nat, NEW m \in Nat, NEW k \in Nat, k <= n, k <= m
  PROVE  Powers(n)[k] = Powers(m)[k]
  BY PowersAre, LoopsAgree

LEMMA PowersGrow ==
  ASSUME NEW n \in Nat
  PROVE  \A k \in 0 .. n : Powers(n)[k] \in Nat /\ Powers(n)[k] > k
<1> DEFINE G == {k \in Nat : k <= n => Powers(n)[k] \in Nat /\ Powers(n)[k] > k}
<1>1. PICK p : p = Powers(n)
  OBVIOUS
<1>2. p[0] = 1 /\ \A k \in 1 .. n : p[k] = 2 * p[k - 1]
  BY <1>1, PowersAt
<1>3. 0 \in G
  BY <1>1, <1>2
<1>4. ASSUME NEW k \in Nat, k \in G PROVE k + 1 \in G
  <2>1. k + 1 <= n => p[k + 1] = 2 * p[k]
    BY <1>2
  <2> QED BY <1>1, <1>4, <2>1
<1>5. \A k \in Nat : k \in G
  <2> HIDE DEF G
  <2> QED BY <1>3, <1>4, Induction
<1> QED BY <1>5

LEMMA PowersApart ==
  ASSUME NEW n \in Nat, NEW a \in 0 .. n
  PROVE  \A b \in 0 .. n : a < b => 2 * Powers(n)[a] <= Powers(n)[b]
<1> DEFINE G == {b \in Nat : b <= n /\ a < b => 2 * Powers(n)[a] <= Powers(n)[b]}
<1>1. PICK p : p = Powers(n)
  OBVIOUS
<1>2. \A k \in 1 .. n : p[k] = 2 * p[k - 1]
  BY <1>1, PowersAt
<1>3. \A k \in 0 .. n : p[k] \in Nat
  BY <1>1, PowersGrow
<1>4. 0 \in G
  OBVIOUS
<1>5. ASSUME NEW k \in Nat, k \in G PROVE k + 1 \in G
  <2>1. CASE k + 1 <= n /\ a < k + 1
    <3>1. p[k + 1] = 2 * p[k] /\ p[k] \in Nat /\ p[a] \in Nat
      BY <1>2, <1>3, <2>1
    <3>2. a = k \/ 2 * p[a] <= p[k]
      BY <1>1, <1>5, <2>1
    <3> QED BY <1>1, <3>1, <3>2
  <2> QED BY <2>1
<1>6. \A k \in Nat : k \in G
  <2> HIDE DEF G
  <2> QED BY <1>4, <1>5, Induction
<1> QED BY <1>6

(* There is a largest power of two below every number of leaves.            *)
LEMMA SplitExists ==
  ASSUME NEW m \in Nat, m > 1
  PROVE  /\ Split(m) \in 1 .. m - 1
         /\ 2 * Split(m) >= m
         /\ \E e \in 0 .. m : Split(m) = Powers(m)[e]
<1>1. PICK p : p = Powers(m)
  OBVIOUS
<1>2. p[0] = 1 /\ \A k \in 1 .. m : p[k] = 2 * p[k - 1]
  BY <1>1, PowersAt
<1>3. \A k \in 0 .. m : p[k] \in Nat /\ p[k] > k
  BY <1>1, PowersGrow
<1>4. \E e \in 0 .. m : p[e] < m /\ 2 * p[e] >= m
  <2> SUFFICES ASSUME \A e \in 0 .. m : p[e] < m => 2 * p[e] < m PROVE FALSE
    BY <1>3
  <2> DEFINE G == {k \in Nat : k <= m => p[k] < m}
  <2>1. 0 \in G
    BY <1>2
  <2>2. ASSUME NEW k \in Nat, k \in G PROVE k + 1 \in G
    <3>1. k + 1 <= m => p[k + 1] = 2 * p[k] /\ p[k] \in Nat
      BY <1>2, <1>3
    <3> QED BY <2>2, <3>1
  <2>3. \A k \in Nat : k \in G
    <3> HIDE DEF G
    <3> QED BY <2>1, <2>2, Induction
  <2>4. m \in G
    BY <2>3
  <2> QED BY <1>3, <2>4
<1>5. \E k \in 1 .. m - 1 : 2 * k >= m /\ \E e \in 0 .. m : k = Powers(m)[e]
  <2>1. PICK e \in 0 .. m : p[e] < m /\ 2 * p[e] >= m
    BY <1>4
  <2>2. p[e] \in 1 .. m - 1
    BY <1>3, <2>1
  <2> QED BY <1>1, <2>1, <2>2
<1> QED BY <1>5 DEF Split

LEMMA SplitIs ==
  ASSUME NEW n \in Nat, NEW k \in 0 .. n, NEW m \in Nat, Powers(n)[k] < m, m <= 2 * Powers(n)[k]
  PROVE  Split(m) = Powers(n)[k]
<1>1. PICK q : q = Powers(n)[k]
  OBVIOUS
<1>2. q \in Nat /\ q > k
  BY <1>1, PowersGrow
<1>3. m > 1 /\ k <= m
  BY <1>1, <1>2
<1>4. PICK p : p = Powers(m)
  OBVIOUS
<1>5. p[k] = q
  BY <1>1, <1>3, <1>4, PowersSame
<1>6. PICK s : s = Split(m)
  OBVIOUS
<1>7. PICK e \in 0 .. m : s = p[e]
  BY <1>3, <1>4, <1>6, SplitExists
<1>8. s \in 1 .. m - 1 /\ 2 * s >= m
  BY <1>3, <1>6, SplitExists
<1>9. e < k => 2 * p[e] <= p[k]
  BY <1>3, <1>4, PowersApart
<1>10. k < e => 2 * p[k] <= p[e]
  BY <1>3, <1>4, PowersApart
<1>11. e = k
  BY <1>1, <1>2, <1>5, <1>7, <1>8, <1>9, <1>10
<1> QED BY <1>1, <1>5, <1>6, <1>7, <1>11

(* The table of the tree hashes: a row needs those before it.               *)
LEMMA TreeHashesAre ==
  ASSUME NEW leaves, Len(leaves) \in Nat
  PROVE  TreeHashes(leaves) = [m \in 1 .. Len(leaves) |-> TreeRow(TreeHashes(leaves), leaves, m)]
<1>1. PICK n \in Nat : n = Len(leaves)
  OBVIOUS
<1>2. PICK f : IsLoop("tree", <<>>, leaves, n, f)
  BY LoopExists
<1>3. ASSUME NEW k \in 1 .. n, NEW m \in 1 .. k
      PROVE  f[k][m] = IF m < k THEN f[k - 1][m] ELSE TreeRow(f[k - 1], leaves, m)
  <2>1. Rounds("tree", <<>>, leaves, n, f)
    BY <1>2, LoopAt
  <2>2. f[k] = Round("tree", f[k - 1], leaves, k)
    BY <2>1 DEF Rounds
  <2>3. PICK g : g = f[k - 1]
    OBVIOUS
  <2>4. f[k] = [i \in 1 .. k |-> IF i < k THEN g[i] ELSE TreeRow(g, leaves, i)]
    BY <2>2, <2>3 DEF Round
  <2> QED BY <2>3, <2>4
<1>4. ASSUME NEW j \in Nat PROVE \A k \in Nat : 1 <= j /\ j <= k /\ k <= n => f[k][j] = f[j][j]
  <2> DEFINE G == {k \in Nat : 1 <= j /\ j <= k /\ k <= n => f[k][j] = f[j][j]}
  <2>1. 0 \in G
    OBVIOUS
  <2>2. ASSUME NEW k \in Nat, k \in G PROVE k + 1 \in G
    <3>1. CASE 1 <= j /\ j <= k /\ k + 1 <= n
      <4>1. k + 1 \in 1 .. n /\ j \in 1 .. k + 1 /\ j < k + 1 /\ (k + 1) - 1 = k
        BY <3>1
      <4>2. f[k + 1][j] = f[k][j]
        BY <1>3, <4>1
      <4> QED BY <2>2, <3>1, <4>2
    <3>2. CASE j = k + 1
      BY <3>2
    <3> QED BY <3>1, <3>2
  <2>3. \A k \in Nat : k \in G
    <3> HIDE DEF G
    <3> QED BY <2>1, <2>2, Induction
  <2> QED BY <2>3
<1> DEFINE h == [m \in 1 .. n |-> f[m][m]]
<1>5. \A j \in 1 .. n : h[j] = f[j][j]
  OBVIOUS
<1>6. h = [m \in 1 .. n |-> h[m]]
  OBVIOUS
<1> HIDE DEF h
<1>7. ASSUME NEW j \in 1 .. n PROVE h[j] = TreeRow(h, leaves, j)
  <2>1. PICK g : g = f[j - 1]
    OBVIOUS
  <2>2. h[j] = TreeRow(g, leaves, j)
    <3>1. j \in 1 .. j /\ ~ (j < j)
      OBVIOUS
    <3>2. f[j][j] = TreeRow(f[j - 1], leaves, j)
      BY <1>3, <3>1
    <3> QED BY <1>5, <2>1, <3>2
  <2>3. ASSUME NEW i \in 1 .. j - 1 PROVE g[i] = h[i]
    <3>1. i \in Nat /\ j - 1 \in Nat /\ 1 <= i /\ i <= j - 1 /\ j - 1 <= n /\ i \in 1 .. n
      BY <1>1
    <3> QED BY <1>4, <1>5, <2>1, <3>1
  <2>4. CASE j = 1
    BY <2>2, <2>4 DEF TreeRow
  <2>5. CASE j # 1
    <3>1. PICK s : s = Split(j)
      OBVIOUS
    <3>2. s \in 1 .. j - 1
      BY <2>5, <3>1, SplitExists
    <3>3. g[s] = h[s] /\ g[j - s] = h[j - s]
      BY <2>3, <3>2
    <3> QED BY <2>2, <2>5, <3>1, <3>3 DEF TreeRow
  <2> QED BY <2>4, <2>5
<1>8. h = [m \in 1 .. Len(leaves) |->
             [lo \in 1 .. Len(leaves) - m + 1 |->
                IF m = 1 THEN leaves[lo]
                ELSE NodeHash(h[Split(m)][lo], h[m - Split(m)][lo + Split(m)])]]
  BY <1>1, <1>6, <1>7 DEF TreeRow
<1>9. TreeHashes(leaves) = [m \in 1 .. Len(leaves) |->
             [lo \in 1 .. Len(leaves) - m + 1 |->
                IF m = 1 THEN leaves[lo]
                ELSE NodeHash(TreeHashes(leaves)[Split(m)][lo],
                              TreeHashes(leaves)[m - Split(m)][lo + Split(m)])]]
  BY <1>8 DEF TreeHashes
<1> QED BY <1>9 DEF TreeRow

LEMMA TreeHashesAt ==
  ASSUME NEW leaves, Len(leaves) \in Nat, NEW T, T = TreeHashes(leaves)
  PROVE  /\ \A lo \in 1 .. Len(leaves) : T[1][lo] = leaves[lo]
         /\ \A m \in 2 .. Len(leaves) : \A lo \in 1 .. Len(leaves) - m + 1 :
              T[m][lo] = NodeHash(T[Split(m)][lo], T[m - Split(m)][lo + Split(m)])
<1>1. \A m \in 1 .. Len(leaves) : T[m] = TreeRow(T, leaves, m)
  BY TreeHashesAre
<1>2. ASSUME NEW lo \in 1 .. Len(leaves) PROVE T[1][lo] = leaves[lo]
  <2>1. T[1] = TreeRow(T, leaves, 1)
    BY <1>1
  <2> QED BY <2>1 DEF TreeRow
<1>3. ASSUME NEW m \in 2 .. Len(leaves), NEW lo \in 1 .. Len(leaves) - m + 1
      PROVE  T[m][lo] = NodeHash(T[Split(m)][lo], T[m - Split(m)][lo + Split(m)])
  <2>1. T[m] = TreeRow(T, leaves, m) /\ m # 1
    BY <1>1
  <2> QED BY <2>1 DEF TreeRow
<1> QED BY <1>2, <1>3

(* The root is the tree hash.  On a level each hash but the last stands for *)
(* q leaves, a power of two, and the last for those that are left.          *)

Width(n, q, p) == IF p * q <= n THEN q ELSE n - (p - 1) * q

IsLevel(level, n, q, T) ==
  /\ Len(level) \in Nat \ {0}
  /\ (Len(level) - 1) * q < n /\ n <= Len(level) * q
  /\ \A p \in 1 .. Len(level) : level[p] = T[Width(n, q, p)][(p - 1) * q + 1]

LEMMA UpAt ==
  ASSUME NEW level, Len(level) \in Nat
  PROVE  /\ Len(Up(level)) = (Len(level) + 1) \div 2
         /\ \A p \in 1 .. Len(Up(level)) :
              Up(level)[p] = IF 2 * p <= Len(level) THEN NodeHash(level[2 * p - 1], level[2 * p])
                             ELSE level[2 * p - 1]
<1>1. (Len(level) + 1) \div 2 \in Nat
  OBVIOUS
<1> QED BY <1>1 DEF Up

(* The products of a level's width by its positions.                        *)
LEMMA Doubled ==
  ASSUME NEW p \in Int, NEW q \in Int
  PROVE  /\ (p - 1) * (2 * q) = (2 * p - 2) * q
         /\ (2 * p - 1) * q = (2 * p - 2) * q + q
         /\ (2 * p) * q = (2 * p - 2) * q + 2 * q
         /\ p * (2 * q) = (2 * p) * q
         /\ (2 * p - 2) * q \in Int
  OBVIOUS

LEMMA ProductGrows ==
  ASSUME NEW a \in Int, NEW b \in Int, NEW q \in Nat, a <= b
  PROVE  a * q <= b * q /\ a * q \in Int /\ b * q \in Int
<1>1. b - a \in Nat
  OBVIOUS
<1>2. (b - a) * q \in Nat
  <2> PICK d \in Nat : d = b - a
    BY <1>1
  <2> QED OBVIOUS
<1>3. (b - a) * q = b * q - a * q
  OBVIOUS
<1> QED BY <1>2, <1>3

(* The facts about a level's numbers: both children, or an odd one.         *)
LEMMA Widths ==
  ASSUME NEW n \in Nat, NEW q \in Nat \ {0}, NEW len \in Nat \ {0},
         (len - 1) * q < n, n <= len * q, NEW p \in 1 .. (len + 1) \div 2
  PROVE  /\ 2 * p <= len =>
              /\ Width(n, q, 2 * p - 1) = q
              /\ Width(n, q, 2 * p) = Width(n, 2 * q, p) - q
              /\ q < Width(n, 2 * q, p) /\ Width(n, 2 * q, p) <= 2 * q
              /\ Width(n, 2 * q, p) \in 2 .. n
              /\ (p - 1) * (2 * q) + 1 \in 1 .. n - Width(n, 2 * q, p) + 1
              /\ (2 * p - 1 - 1) * q + 1 = (p - 1) * (2 * q) + 1
              /\ (2 * p - 1) * q + 1 = (p - 1) * (2 * q) + 1 + q
         /\ 2 * p > len =>
              /\ 2 * p - 1 = len
              /\ Width(n, q, 2 * p - 1) = Width(n, 2 * q, p)
              /\ (2 * p - 1 - 1) * q + 1 = (p - 1) * (2 * q) + 1
<1>1. PICK x \in Int : x = (2 * p - 2) * q
  BY Doubled
<1>2. /\ (p - 1) * (2 * q) = x
      /\ (2 * p - 1) * q = x + q
      /\ (2 * p) * q = x + 2 * q
      /\ p * (2 * q) = x + 2 * q
      /\ (2 * p - 1 - 1) * q = x
  <2>1. p \in Int /\ q \in Int /\ 2 * p - 1 - 1 = 2 * p - 2
    OBVIOUS
  <2> QED BY <1>1, <2>1, Doubled
<1>3. x >= 0
  <2>1. 0 <= 2 * p - 2 /\ 0 * q = 0
    OBVIOUS
  <2>2. 0 * q <= (2 * p - 2) * q
    BY <2>1, ProductGrows
  <2> QED BY <1>1, <2>1, <2>2
<1>4. CASE 2 * p <= len
  <2>1. (2 * p - 1) * q <= (len - 1) * q /\ (2 * p - 1) * q \in Int /\ (len - 1) * q \in Int
    <3>1. 2 * p - 1 <= len - 1 /\ 2 * p - 1 \in Int /\ len - 1 \in Int
      BY <1>4
    <3> QED BY <3>1, ProductGrows
  <2>2. x + q < n
    BY <1>2, <2>1
  <2>3. Width(n, q, 2 * p - 1) = q
    BY <1>2, <2>2 DEF Width
  <2>4. Width(n, q, 2 * p) = IF x + 2 * q <= n THEN q ELSE n - (x + q)
    BY <1>2 DEF Width
  <2>5. Width(n, 2 * q, p) = IF x + 2 * q <= n THEN 2 * q ELSE n - x
    BY <1>2 DEF Width
  <2> QED BY <1>2, <1>3, <1>4, <2>2, <2>3, <2>4, <2>5
<1>5. CASE 2 * p > len
  <2>1. 2 * p - 1 = len
    BY <1>5
  <2>2. x < n /\ n <= x + q
    <3>1. len - 1 = 2 * p - 2
      BY <2>1
    <3> QED BY <1>1, <1>2, <2>1, <3>1
  <2>3. Width(n, q, 2 * p - 1) = IF x + q <= n THEN q ELSE n - x
    <3>1. Width(n, q, 2 * p - 1) = IF (2 * p - 1) * q <= n THEN q ELSE n - (2 * p - 1 - 1) * q
      BY DEF Width
    <3> QED BY <1>2, <3>1
  <2>4. Width(n, 2 * q, p) = IF x + 2 * q <= n THEN 2 * q ELSE n - x
    BY <1>2 DEF Width
  <2> QED BY <1>2, <1>5, <2>1, <2>2, <2>3, <2>4
<1> QED BY <1>4, <1>5

LEMMA UpIsLevel ==
  ASSUME NEW n \in Nat \ {0}, NEW q \in Nat \ {0}, NEW level, NEW T, IsLevel(level, n, q, T),
         \A m \in 2 .. n : q < m /\ m <= 2 * q =>
           \A lo \in 1 .. n - m + 1 : T[m][lo] = NodeHash(T[q][lo], T[m - q][lo + q])
  PROVE  IsLevel(Up(level), n, 2 * q, T)
<1>1. PICK len \in Nat \ {0} : len = Len(level)
  BY DEF IsLevel
<1>2. (len - 1) * q < n /\ n <= len * q
  BY <1>1 DEF IsLevel
<1>3. PICK up : up = (len + 1) \div 2
  OBVIOUS
<1>4. Len(Up(level)) = up /\ up \in Nat \ {0}
  BY <1>1, <1>3, UpAt
<1>5. (up - 1) * (2 * q) < n /\ n <= up * (2 * q)
  <2>1. /\ (up - 1) * (2 * q) = (2 * up - 2) * q
        /\ up * (2 * q) = (2 * up) * q
    <3>1. up \in Int /\ q \in Int
      BY <1>4
    <3> QED BY <3>1, Doubled
  <2>2. 2 * up - 2 <= len - 1 /\ len <= 2 * up /\ {2 * up - 2, len - 1, len, 2 * up} \subseteq Int
    BY <1>3
  <2>3. (2 * up - 2) * q <= (len - 1) * q /\ {(2 * up - 2) * q, (len - 1) * q} \subseteq Int
    BY <2>2, ProductGrows
  <2>4. len * q <= (2 * up) * q /\ {len * q, (2 * up) * q} \subseteq Int
    BY <2>2, ProductGrows
  <2> QED BY <1>2, <2>1, <2>3, <2>4
<1>6. ASSUME NEW p \in 1 .. up
      PROVE  Up(level)[p] = T[Width(n, 2 * q, p)][(p - 1) * (2 * q) + 1]
  <2>1. Up(level)[p] = IF 2 * p <= len THEN NodeHash(level[2 * p - 1], level[2 * p])
                       ELSE level[2 * p - 1]
    BY <1>1, <1>4, UpAt
  <2>2. \A i \in 1 .. len : level[i] = T[Width(n, q, i)][(i - 1) * q + 1]
    BY <1>1 DEF IsLevel
  <2>3. 2 * p - 1 \in 1 .. len
    BY <1>3
  <2>4. level[2 * p - 1] = T[Width(n, q, 2 * p - 1)][(2 * p - 1 - 1) * q + 1]
    BY <2>2, <2>3
  <2>5. CASE 2 * p <= len
    <3>1. level[2 * p] = T[Width(n, q, 2 * p)][(2 * p - 1) * q + 1]
      BY <2>2, <2>5
    <3>2. PICK m : m = Width(n, 2 * q, p)
      OBVIOUS
    <3>3. PICK lo : lo = (p - 1) * (2 * q) + 1
      OBVIOUS
    <3>4. /\ Width(n, q, 2 * p - 1) = q
          /\ Width(n, q, 2 * p) = m - q
          /\ q < m /\ m <= 2 * q
          /\ m \in 2 .. n
          /\ lo \in 1 .. n - m + 1
          /\ (2 * p - 1 - 1) * q + 1 = lo
          /\ (2 * p - 1) * q + 1 = lo + q
      BY <1>2, <1>3, <2>5, <3>2, <3>3, Widths
    <3>5. level[2 * p - 1] = T[q][lo]
      BY <2>4, <3>4
    <3>6. level[2 * p] = T[m - q][lo + q]
      BY <3>1, <3>4
    <3>7. T[m][lo] = NodeHash(T[q][lo], T[m - q][lo + q])
      BY <3>4
    <3> QED BY <2>1, <2>5, <3>2, <3>3, <3>5, <3>6, <3>7
  <2>6. CASE 2 * p > len
    <3>1. /\ Width(n, q, 2 * p - 1) = Width(n, 2 * q, p)
          /\ (2 * p - 1 - 1) * q + 1 = (p - 1) * (2 * q) + 1
      BY <1>2, <1>3, <2>6, Widths
    <3> QED BY <2>1, <2>4, <2>6, <3>1
  <2> QED BY <2>5, <2>6
<1> QED BY <1>4, <1>5, <1>6 DEF IsLevel

LEMMA LevelsAreLevels ==
  ASSUME NEW leaves, Len(leaves) \in Nat \ {0}
  PROVE  \A k \in 0 .. Len(leaves) :
           IsLevel(Levels(leaves)[k], Len(leaves), Powers(Len(leaves))[k], TreeHashes(leaves))
<1>1. PICK n \in Nat \ {0} : n = Len(leaves)
  OBVIOUS
<1>2. PICK L : L = Levels(leaves)
  OBVIOUS
<1>3. PICK P : P = Powers(n)
  OBVIOUS
<1>4. PICK T : T = TreeHashes(leaves)
  OBVIOUS
<1>5. L[0] = leaves /\ \A k \in 1 .. n : L[k] = Up(L[k - 1])
  BY <1>1, <1>2, LevelsAt
<1>6. P[0] = 1 /\ \A k \in 1 .. n : P[k] = 2 * P[k - 1]
  BY <1>3, PowersAt
<1>7. \A k \in 0 .. n : P[k] \in Nat \ {0}
  BY <1>3, PowersGrow
<1>8. /\ \A lo \in 1 .. n : T[1][lo] = leaves[lo]
      /\ \A m \in 2 .. n : \A lo \in 1 .. n - m + 1 :
           T[m][lo] = NodeHash(T[Split(m)][lo], T[m - Split(m)][lo + Split(m)])
  BY <1>1, <1>4, TreeHashesAt
<1> DEFINE G == {k \in Nat : k <= n => IsLevel(L[k], n, P[k], T)}
<1>9. 0 \in G
  <2>1. \A p \in 1 .. n : Width(n, 1, p) = 1 /\ (p - 1) * 1 + 1 = p
    BY DEF Width
  <2>2. IsLevel(leaves, n, 1, T)
    BY <1>1, <1>8, <2>1 DEF IsLevel
  <2> QED BY <1>5, <1>6, <2>2
<1>10. ASSUME NEW k \in Nat, k \in G PROVE k + 1 \in G
  <2>1. CASE k + 1 <= n
    <3>1. k \in 0 .. n /\ k + 1 \in 1 .. n /\ (k + 1) - 1 = k
      BY <2>1
    <3>2. PICK q : q = P[k]
      OBVIOUS
    <3>3. q \in Nat \ {0} /\ P[k + 1] = 2 * q
      BY <1>6, <1>7, <3>1, <3>2
    <3>4. IsLevel(L[k], n, q, T)
      BY <1>10, <3>1, <3>2
    <3>5. L[k + 1] = Up(L[k])
      BY <1>5, <3>1
    <3>6. \A m \in 2 .. n : q < m /\ m <= 2 * q => Split(m) = q
      BY <1>3, <3>1, <3>2, SplitIs
    <3>7. \A m \in 2 .. n : q < m /\ m <= 2 * q =>
            \A lo \in 1 .. n - m + 1 : T[m][lo] = NodeHash(T[q][lo], T[m - q][lo + q])
      BY <1>8, <3>6
    <3>8. IsLevel(Up(L[k]), n, 2 * q, T)
      BY <3>3, <3>4, <3>7, UpIsLevel
    <3> QED BY <3>3, <3>5, <3>8
  <2> QED BY <2>1
<1>11. \A k \in Nat : k \in G
  <2> HIDE DEF G
  <2> QED BY <1>9, <1>10, Induction
<1> QED BY <1>1, <1>2, <1>3, <1>4, <1>11

(* The last level is the root, and the root is the tree hash.               *)
LEMMA RootIsTreeHash ==
  ASSUME NEW leaves, Len(leaves) \in Nat \ {0}
  PROVE  /\ Len(Levels(leaves)[Len(leaves)]) = 1
         /\ Levels(leaves)[Len(leaves)][1] = TreeHashes(leaves)[Len(leaves)][1]
<1>1. PICK n \in Nat \ {0} : n = Len(leaves)
  OBVIOUS
<1>2. PICK q : q = Powers(n)[n]
  OBVIOUS
<1>3. PICK top : top = Levels(leaves)[n]
  OBVIOUS
<1>4. q \in Nat /\ q > n
  BY <1>2, PowersGrow
<1>5. IsLevel(top, n, q, TreeHashes(leaves))
  BY <1>1, <1>2, <1>3, LevelsAreLevels
<1>6. PICK len \in Nat \ {0} : len = Len(top)
  BY <1>5 DEF IsLevel
<1>7. len = 1
  <2>1. (len - 1) * q < n
    BY <1>5, <1>6 DEF IsLevel
  <2>2. CASE len - 1 >= 1
    <3>1. 1 * q <= (len - 1) * q /\ 1 * q = q /\ (len - 1) * q \in Int
      BY <1>4, <2>2, ProductGrows
    <3> QED BY <1>4, <2>1, <3>1
  <2> QED BY <2>2
<1>8. Width(n, q, 1) = n /\ (1 - 1) * q + 1 = 1
  BY <1>4 DEF Width
<1>9. top[1] = TreeHashes(leaves)[Width(n, q, 1)][(1 - 1) * q + 1]
  BY <1>5, <1>6, <1>7 DEF IsLevel
<1> QED BY <1>1, <1>3, <1>6, <1>7, <1>8, <1>9

(* Audit paths.                                                             *)

IsSeq(s) == \E S : s \in Seq(S)

Taken(level, p, hash) ==
  IF p % 2 = 0 THEN NodeHash(level[p - 1], hash)
  ELSE IF p < Len(level) THEN NodeHash(hash, level[p + 1]) ELSE hash

LEMMA FoldedIs ==
  ASSUME NEW leaf, NEW proof, Len(proof) \in Nat
  PROVE  \E f : IsLoop("fold", leaf, proof, Len(proof), f) /\ Folded(leaf, proof) = f[Len(proof)]
<1>1. PICK n \in Nat : n = Len(proof)
  OBVIOUS
<1> DEFINE Is(f) == f = [k \in 0 .. Len(proof) |->
                 IF k = 0 THEN leaf
                 ELSE IF proof[k].side = "R" THEN NodeHash(f[k - 1], proof[k].sibling)
                 ELSE NodeHash(proof[k].sibling, f[k - 1])]
<1>2. \A f : Is(f) <=> IsLoop("fold", leaf, proof, Len(proof), f)
  BY DEF IsLoop, Round
<1>3. \E f : Is(f)
  BY <1>1, <1>2, LoopExists
<1>4. PICK f : f = CHOOSE g : Is(g)
  OBVIOUS
<1>5. Is(f)
  <2> HIDE DEF Is
  <2> QED BY <1>3, <1>4
<1>6. Folded(leaf, proof) = f[Len(proof)]
  BY <1>4 DEF Folded
<1> HIDE DEF Is
<1> QED BY <1>2, <1>5, <1>6

LEMMA FoldedNone ==
  ASSUME NEW leaf
  PROVE  Folded(leaf, <<>>) = leaf
<1>1. Len(<<>>) = 0
  OBVIOUS
<1>2. PICK f : IsLoop("fold", leaf, <<>>, 0, f) /\ Folded(leaf, <<>>) = f[0]
  BY <1>1, FoldedIs
<1>3. Rounds("fold", leaf, <<>>, 0, f)
  BY <1>2, LoopAt
<1> QED BY <1>2, <1>3 DEF Rounds

LEMMA FoldedOneMore ==
  ASSUME NEW leaf, NEW s, IsSeq(s), NEW e
  PROVE  Folded(leaf, s \o <<e>>) = IF e.side = "R" THEN NodeHash(Folded(leaf, s), e.sibling)
                                    ELSE NodeHash(e.sibling, Folded(leaf, s))
<1>1. PICK n \in Nat : n = Len(s)
  BY DEF IsSeq
<1>2. PICK t : t = s \o <<e>>
  OBVIOUS
<1>3. Len(t) = n + 1 /\ t[n + 1] = e /\ \A k \in 1 .. n : t[k] = s[k]
  BY <1>1, <1>2 DEF IsSeq
<1>4. PICK f : IsLoop("fold", leaf, s, n, f) /\ Folded(leaf, s) = f[n]
  BY <1>1, FoldedIs
<1>5. PICK g : IsLoop("fold", leaf, t, n + 1, g) /\ Folded(leaf, t) = g[n + 1]
  BY <1>3, FoldedIs
<1>6. Rounds("fold", leaf, s, n, f) /\ Rounds("fold", leaf, t, n + 1, g)
  BY <1>4, <1>5, LoopAt
<1> DEFINE G == {k \in Nat : k <= n => f[k] = g[k]}
<1>7. 0 \in G
  BY <1>6 DEF Rounds
<1>8. ASSUME NEW k \in Nat, k \in G PROVE k + 1 \in G
  <2>1. CASE k + 1 <= n
    <3>1. k + 1 \in 1 .. n /\ k + 1 \in 1 .. n + 1 /\ (k + 1) - 1 = k
      BY <2>1
    <3>2. f[k + 1] = Round("fold", f[k], s, k + 1) /\ g[k + 1] = Round("fold", g[k], t, k + 1)
      BY <1>6, <3>1 DEF Rounds
    <3>3. f[k] = g[k] /\ s[k + 1] = t[k + 1]
      BY <1>3, <1>8, <3>1
    <3> QED BY <3>2, <3>3 DEF Round
  <2> QED BY <2>1
<1>9. \A k \in Nat : k \in G
  <2> HIDE DEF G
  <2> QED BY <1>7, <1>8, Induction
<1>10. g[n] = Folded(leaf, s)
  BY <1>4, <1>9
<1>11. g[n + 1] = Round("fold", g[n], t, n + 1)
  <2>1. n + 1 \in 1 .. n + 1 /\ (n + 1) - 1 = n
    OBVIOUS
  <2> QED BY <1>6, <2>1 DEF Rounds
<1> QED BY <1>2, <1>3, <1>5, <1>10, <1>11 DEF Round

LEMMA FoldedStep ==
  ASSUME NEW s, IsSeq(s), NEW level, NEW p
  PROVE  /\ IsSeq(s \o Step(level, p))
         /\ \A leaf : Folded(leaf, s \o Step(level, p)) = Taken(level, p, Folded(leaf, s))
<1>1. ASSUME NEW e PROVE IsSeq(s \o <<e>>)
  <2>1. PICK S : s \in Seq(S)
    BY DEF IsSeq
  <2>2. s \o <<e>> \in Seq(S \cup {e})
    BY <2>1
  <2> QED BY <2>2 DEF IsSeq
<1>2. s \o <<>> = s
  BY DEF IsSeq
<1>3. CASE p % 2 = 0
  <2>1. PICK e : e = [side |-> "L", sibling |-> level[p - 1]]
    OBVIOUS
  <2>2. Step(level, p) = <<e>> /\ e.side # "R" /\ e.sibling = level[p - 1]
    BY <1>3, <2>1 DEF Step
  <2>3. \A leaf : Folded(leaf, s \o <<e>>) = NodeHash(level[p - 1], Folded(leaf, s))
    BY <2>2, FoldedOneMore
  <2> QED BY <1>1, <1>3, <2>2, <2>3 DEF Taken
<1>4. CASE p % 2 # 0 /\ p < Len(level)
  <2>1. PICK e : e = [side |-> "R", sibling |-> level[p + 1]]
    OBVIOUS
  <2>2. Step(level, p) = <<e>> /\ e.side = "R" /\ e.sibling = level[p + 1]
    BY <1>4, <2>1 DEF Step
  <2>3. \A leaf : Folded(leaf, s \o <<e>>) = NodeHash(Folded(leaf, s), level[p + 1])
    BY <2>2, FoldedOneMore
  <2> QED BY <1>1, <1>4, <2>2, <2>3 DEF Taken
<1>5. CASE p % 2 # 0 /\ ~ (p < Len(level))
  <2>1. Step(level, p) = <<>>
    BY <1>5 DEF Step
  <2> QED BY <1>2, <1>5, <2>1 DEF Taken
<1> QED BY <1>3, <1>4, <1>5

(* A step takes the hash of a position to that of the next level's, and no  *)
(* other hash.                                                              *)
LEMMA TakenIsUp ==
  ASSUME NEW level, Len(level) \in Nat, NEW p \in 1 .. Len(level)
  PROVE  /\ Taken(level, p, level[p]) = Up(level)[(p + 1) \div 2]
         /\ (p + 1) \div 2 \in 1 .. Len(Up(level))
         /\ \A a, b : Taken(level, p, a) = Taken(level, p, b) => a = b
<1>1. PICK i : i = (p + 1) \div 2
  OBVIOUS
<1>2. i \in 1 .. Len(Up(level))
  BY <1>1, UpAt
<1>3. Up(level)[i] = IF 2 * i <= Len(level) THEN NodeHash(level[2 * i - 1], level[2 * i])
                     ELSE level[2 * i - 1]
  BY <1>2, UpAt
<1>4. \A a, b, c : /\ NodeHash(c, a) = NodeHash(c, b) => a = b
                   /\ NodeHash(a, c) = NodeHash(b, c) => a = b
  BY DEF NodeHash
<1>5. CASE p % 2 = 0
  <2>1. 2 * i = p /\ 2 * i - 1 = p - 1
    BY <1>1, <1>5
  <2> QED BY <1>1, <1>2, <1>3, <1>4, <1>5, <2>1 DEF Taken
<1>6. CASE p % 2 # 0
  <2>1. 2 * i - 1 = p /\ 2 * i = p + 1
    BY <1>1, <1>6
  <2> QED BY <1>1, <1>2, <1>3, <1>4, <1>6, <2>1 DEF Taken
<1> QED BY <1>5, <1>6

LEMMA FlattenedIs ==
  ASSUME NEW ss, Len(ss) \in Nat \ {0}
  PROVE  \E f : /\ f[1] = ss[1]
                /\ \A k \in 2 .. Len(ss) : f[k] = f[k - 1] \o ss[k]
                /\ FlattenSeq(ss) = f[Len(ss)]
<1>1. PICK n \in Nat : n + 1 = Len(ss)
  <2>1. Len(ss) - 1 \in Nat /\ (Len(ss) - 1) + 1 = Len(ss)
    OBVIOUS
  <2> QED BY <2>1
<1>2. PICK g : IsLoop("flat", ss[1], ss, n, g)
  BY LoopExists
<1>3. g[0] = ss[1] /\ \A k \in 1 .. n : g[k] = g[k - 1] \o ss[k + 1]
  <2>1. Rounds("flat", ss[1], ss, n, g)
    BY <1>2, LoopAt
  <2> QED BY <2>1 DEF Rounds, Round
<1> DEFINE Is(f) == f = [i \in 1 .. Len(ss) |-> IF i = 1 THEN ss[i] ELSE f[i - 1] \o ss[i]]
           h == [i \in 1 .. Len(ss) |-> g[i - 1]]
<1>4. \A i \in 1 .. Len(ss) : h[i] = g[i - 1]
  OBVIOUS
<1>5. h = [i \in 1 .. Len(ss) |-> h[i]]
  OBVIOUS
<1> HIDE DEF h
<1>6. ASSUME NEW i \in 1 .. Len(ss) PROVE h[i] = IF i = 1 THEN ss[i] ELSE h[i - 1] \o ss[i]
  <2>1. CASE i = 1
    BY <1>3, <1>4, <2>1
  <2>2. CASE i # 1
    <3>1. i - 1 \in 1 .. n /\ i - 1 \in 1 .. Len(ss) /\ (i - 1) + 1 = i
      BY <1>1, <2>2
    <3>2. g[i - 1] = g[(i - 1) - 1] \o ss[i]
      BY <1>3, <3>1
    <3> QED BY <1>4, <2>2, <3>1, <3>2
  <2> QED BY <2>1, <2>2
<1>7. Is(h)
  BY <1>5, <1>6
<1>8. PICK f : f = CHOOSE x : Is(x)
  OBVIOUS
<1>9. Is(f)
  <2> HIDE DEF Is
  <2> QED BY <1>7, <1>8
<1>10. FlattenSeq(ss) = f[Len(ss)]
  BY <1>8 DEF FlattenSeq
<1>11. f[1] = ss[1]
  <2>1. 1 \in 1 .. Len(ss)
    OBVIOUS
  <2> QED BY <1>9, <2>1
<1>12. ASSUME NEW k \in 2 .. Len(ss) PROVE f[k] = f[k - 1] \o ss[k]
  <2>1. k \in 1 .. Len(ss) /\ k # 1
    OBVIOUS
  <2> QED BY <1>9, <2>1
<1> QED BY <1>10, <1>11, <1>12

(* Folding the path of a leaf i takes that leaf to the root, and takes no   *)
(* two hashes to the same one.                                              *)
LEMMA ProofFolds ==
  ASSUME NEW leaves, IsSeq(leaves), NEW i \in 1 .. Len(leaves)
  PROVE  /\ Folded(leaves[i], MerkleProof(leaves, i)) = Levels(leaves)[Len(leaves)][1]
         /\ \A a, b : Folded(a, MerkleProof(leaves, i)) = Folded(b, MerkleProof(leaves, i)) => a = b
<1>1. PICK n \in Nat \ {0} : n = Len(leaves)
  <2>1. Len(leaves) \in Nat
    BY DEF IsSeq
  <2> QED BY <2>1
<1>2. PICK L : L = Levels(leaves)
  OBVIOUS
<1>3. PICK at : at = Positions(i, n)
  OBVIOUS
<1>4. L[0] = leaves /\ \A k \in 1 .. n : L[k] = Up(L[k - 1])
  BY <1>1, <1>2, LevelsAt
<1>5. at[0] = i /\ \A k \in 1 .. n : at[k] = (at[k - 1] + 1) \div 2
  BY <1>3, PositionsAt
<1>6. ASSUME NEW k \in 0 .. n PROVE Len(L[k]) \in Nat
  BY <1>1, <1>2, LevelsAreLevels DEF IsLevel
<1>7. PICK ss : ss = [k \in 1 .. n |-> Step(L[k - 1], at[k - 1])]
  OBVIOUS
<1>8. MerkleProof(leaves, i) = FlattenSeq(ss)
  BY <1>1, <1>2, <1>3, <1>7 DEF MerkleProof
<1>9. Len(ss) = n /\ \A k \in 1 .. n : ss[k] = Step(L[k - 1], at[k - 1])
  BY <1>7
<1>10. PICK f : /\ f[1] = ss[1]
                /\ \A k \in 2 .. n : f[k] = f[k - 1] \o ss[k]
                /\ FlattenSeq(ss) = f[n]
  BY <1>9, FlattenedIs
<1> DEFINE Reaches(path, k) ==
             /\ IsSeq(path)
             /\ at[k] \in 1 .. Len(L[k])
             /\ Folded(leaves[i], path) = L[k][at[k]]
             /\ \A a, b : Folded(a, path) = Folded(b, path) => a = b
           G == {k \in Nat : 1 <= k /\ k <= n => Reaches(f[k], k)}
<1>11. ASSUME NEW k \in 1 .. n, NEW path, Reaches(path, k - 1) PROVE Reaches(path \o ss[k], k)
  <2>1. PICK level : level = L[k - 1]
    OBVIOUS
  <2>2. PICK p : p = at[k - 1]
    OBVIOUS
  <2>3. ss[k] = Step(level, p) /\ L[k] = Up(level) /\ at[k] = (p + 1) \div 2
    BY <1>4, <1>5, <1>9, <2>1, <2>2
  <2>4. k - 1 \in 0 .. n
    OBVIOUS
  <2>5. Len(level) \in Nat /\ p \in 1 .. Len(level)
    BY <1>6, <1>11, <2>1, <2>2, <2>4
  <2>6. IsSeq(path) /\ Folded(leaves[i], path) = level[p]
        /\ \A a, b : Folded(a, path) = Folded(b, path) => a = b
    BY <1>11, <2>1, <2>2
  <2>7. /\ IsSeq(path \o ss[k])
        /\ \A leaf : Folded(leaf, path \o ss[k]) = Taken(level, p, Folded(leaf, path))
    BY <2>3, <2>6, FoldedStep
  <2>8. /\ Taken(level, p, level[p]) = L[k][at[k]]
        /\ at[k] \in 1 .. Len(L[k])
        /\ \A a, b : Taken(level, p, a) = Taken(level, p, b) => a = b
    BY <2>3, <2>5, TakenIsUp
  <2> QED BY <2>6, <2>7, <2>8
<1>12. Reaches(<<>>, 0)
  <2>1. IsSeq(<<>>)
    <3>1. <<>> \in Seq({})
      OBVIOUS
    <3> QED BY <3>1 DEF IsSeq
  <2>2. at[0] \in 1 .. Len(L[0]) /\ L[0][at[0]] = leaves[i]
    BY <1>4, <1>5
  <2> QED BY <2>1, <2>2, FoldedNone
<1>13. <<>> \o ss[1] = ss[1]
  <2>1. ss[1] = Step(L[0], at[0])
    BY <1>9
  <2> QED BY <2>1 DEF Step
<1>14. Reaches(f[1], 1)
  <2>1. 1 \in 1 .. n /\ 1 - 1 = 0
    OBVIOUS
  <2>2. Reaches(<<>> \o ss[1], 1)
    <3> HIDE DEF Reaches
    <3> QED BY <1>11, <1>12, <2>1
  <2> HIDE DEF Reaches
  <2> QED BY <1>10, <1>13, <2>2
<1> HIDE DEF Reaches
<1>15. 0 \in G
  OBVIOUS
<1>16. ASSUME NEW k \in Nat, k \in G PROVE k + 1 \in G
  <2>1. CASE k = 0
    BY <1>14, <2>1
  <2>2. CASE 1 <= k /\ k + 1 <= n
    <3>1. k + 1 \in 1 .. n /\ k + 1 \in 2 .. n /\ (k + 1) - 1 = k
      BY <2>2
    <3>2. Reaches(f[k], k)
      BY <1>16, <2>2
    <3>3. Reaches(f[k] \o ss[k + 1], k + 1)
      BY <1>11, <3>1, <3>2
    <3>4. f[k + 1] = f[k] \o ss[k + 1]
      BY <1>10, <3>1
    <3>5. Reaches(f[k + 1], k + 1)
      BY <3>3, <3>4
    <3> QED BY <3>5
  <2>3. CASE ~ (k + 1 <= n)
    BY <2>3
  <2> QED BY <2>1, <2>2, <2>3
<1>17. \A k \in Nat : k \in G
  <2> HIDE DEF G
  <2> QED BY <1>15, <1>16, Induction
<1>18. Reaches(f[n], n)
  BY <1>17
<1>19. Len(L[n]) = 1
  BY <1>1, <1>2, RootIsTreeHash
<1>20. at[n] = 1 /\ Folded(leaves[i], f[n]) = L[n][at[n]]
       /\ \A a, b : Folded(a, f[n]) = Folded(b, f[n]) => a = b
  BY <1>18, <1>19 DEF Reaches
<1> QED BY <1>1, <1>2, <1>8, <1>10, <1>20

(* For any number of leaves the root is the tree hash of RFC 6962, and an   *)
(* audit path proves its own leaf and no other.                             *)
THEOREM AuditPathsAreExact ==
  ASSUME NEW leaves, IsSeq(leaves)
  PROVE  Exact(leaves)
<1>1. PICK root : root = MerkleRoot(leaves)
  OBVIOUS
<1>2. DOMAIN leaves = 1 .. Len(leaves) /\ Len(leaves) \in Nat /\ (leaves # <<>> => Len(leaves) # 0)
  BY DEF IsSeq
<1>3. root = TreeHash(leaves)
  <2>1. CASE leaves = <<>>
    BY <1>1, <2>1 DEF MerkleRoot, TreeHash
  <2>2. CASE leaves # <<>>
    BY <1>1, <1>2, <2>2, RootIsTreeHash DEF MerkleRoot, TreeHash
  <2> QED BY <2>1, <2>2
<1>4. ASSUME NEW i \in DOMAIN leaves
      PROVE  \E proof \in {MerkleProof(leaves, i)} :
               \A j \in DOMAIN leaves : VerifyProof(leaves[j], proof, root) <=> leaves[i] = leaves[j]
  <2>1. PICK proof : proof = MerkleProof(leaves, i)
    OBVIOUS
  <2>2. i \in 1 .. Len(leaves) /\ leaves # <<>>
    BY <1>2
  <2>3. /\ Folded(leaves[i], proof) = Levels(leaves)[Len(leaves)][1]
        /\ \A a, b : Folded(a, proof) = Folded(b, proof) => a = b
    BY <2>1, <2>2, ProofFolds
  <2>4. Folded(leaves[i], proof) = root
    BY <1>1, <2>2, <2>3 DEF MerkleRoot
  <2>5. \A j \in DOMAIN leaves : VerifyProof(leaves[j], proof, root) <=> leaves[i] = leaves[j]
    BY <2>3, <2>4 DEF VerifyProof
  <2> QED BY <2>1, <2>5
<1> QED BY <1>1, <1>3, <1>4 DEF Exact

(* The records that are to be written have finitely many readings.          *)
FiniteInv ==
  /\ heard \subseteq Readings /\ now \in 0 .. LastHour
  /\ \A b \in mempool \union {batch}, h \in Hour :
       ReadingsKey(h) \in DOMAIN b => IsFiniteSet(b[ReadingsKey(h)].value.readings)

LEMMA FiniteStep == ASSUME IsFiniteSet(Readings), FiniteInv, [Next]_vars PROVE FiniteInv'
<1>1. heard' \subseteq Readings /\ now' \in 0 .. LastHour
  BY WriterShape, StoreAssumption DEF FiniteInv
<1>2. ASSUME NEW h \in Hour, ReadingsKey(h) \in DOMAIN batch'
      PROVE  IsFiniteSet(batch'[ReadingsKey(h)].value.readings)
  <2>1. CASE batch' \in {batch, NoBatch}
    BY <1>2, <2>1 DEF FiniteInv, NoBatch
  <2>2. ASSUME NEW missed, NEW blind, batch' = Planned(missed, blind)
        PROVE  IsFiniteSet(batch'[ReadingsKey(h)].value.readings)
    <3>1. PICK b : b = batch'
      OBVIOUS
    <3>2. b[ReadingsKey(h)].value = ReadingsRecord(InHour(h))
      BY <1>2, <2>2, <3>1, PlannedWrites DEF FiniteInv
    <3>3. ReadingsRecord(InHour(h)).readings = InHour(h) /\ InHour(h) \subseteq Readings
      BY DEF ReadingsRecord, InHour, FiniteInv
    <3> QED BY <3>1, <3>2, <3>3, FS_Subset
  <2>3. ASSUME NEW missed, NEW unread, NEW blind, batch' = Seals(missed, unread, blind)
        PROVE  FALSE
    <3>1. PICK b : b = batch'
      OBVIOUS
    <3>2. PICK s \in Season : ReadingsKey(h) = AttestKey(s)
      BY <1>2, <2>3, <3>1, SealsWrite
    <3> QED BY <3>2, KeysDiffer
  <2> QED BY <2>1, <2>2, <2>3, WriterShape
<1>3. mempool' \subseteq mempool \union {batch}
  BY WriterShape
<1> QED BY <1>1, <1>2, <1>3 DEF FiniteInv

LEMMA LeavesAreSeq == ASSUME NEW R, IsFiniteSet(R) PROVE IsSeq(Leaves(R))
<1>1. PICK n : n = Cardinality(R)
  OBVIOUS
<1>2. n \in Nat
  BY <1>1, FS_CardinalityType
<1>3. PICK f : f = Sorted(R)
  OBVIOUS
<1>4. Leaves(R) = [i \in 1 .. n |-> LeafHash(Original(f[i]))]
  BY <1>1, <1>3 DEF Leaves
<1>5. Leaves(R) \in Seq({LeafHash(Original(f[i])) : i \in 1 .. n})
  BY <1>2, <1>4
<1> QED BY <1>5 DEF IsSeq

LEMMA LandedTrees ==
  ASSUME FiniteInv, [Next]_vars, NEW h \in Hour, chain'[ReadingsKey(h)] # chain[ReadingsKey(h)]
  PROVE  \E leaves \in {Leaves(chain'[ReadingsKey(h)].readings)} : Exact(leaves)
<1>1. PICK b \in mempool : chain' = After(b)
  BY WriterShape
<1>2. PICK k : k = ReadingsKey(h)
  OBVIOUS
<1>3. chain'[k] = IF k \in DOMAIN b THEN b[k].value ELSE chain[k]
  <2>1. k \in Key
    BY <1>2 DEF Key
  <2> QED BY <1>1, <2>1 DEF After
<1>4. PICK R : R = chain'[k].readings
  OBVIOUS
<1>5. IsFiniteSet(R)
  BY <1>2, <1>3, <1>4 DEF FiniteInv
<1>6. Exact(Leaves(R))
  BY <1>5, LeavesAreSeq, AuditPathsAreExact
<1> QED BY <1>2, <1>4, <1>6

(* Every hour's tree that comes on chain is that of RFC 6962, whatever the  *)
(* number of its readings, and each of its audit paths proves one leaf.     *)
THEOREM PublishedTreesAreExact ==
  ASSUME IsFiniteSet(Readings)
  PROVE  VerifierSpec => TreesAreExact
<1>1. VerifierInit => FiniteInv
  BY AttesterAssumption, StoreAssumption DEF VerifierInit, FiniteInv, NoBatch
<1>2. ASSUME [VerifierNext]_allVars PROVE [Next]_vars
  BY <1>2 DEF VerifierNext, Writing, Next, allVars
<1>3. FiniteInv /\ [VerifierNext]_allVars => FiniteInv'
  BY <1>2, FiniteStep
<1>4. FiniteInv /\ [VerifierNext]_allVars
        => [\A h \in Hour : chain'[ReadingsKey(h)] # chain[ReadingsKey(h)]
              => \E leaves \in {Leaves(chain'[ReadingsKey(h)].readings)} : Exact(leaves)]_allVars
  BY <1>2, LandedTrees
<1> QED BY <1>1, <1>3, <1>4, PTL DEF VerifierSpec, TreesAreExact
================================================================================

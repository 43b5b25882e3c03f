---------------------------- MODULE EvidencePipeline ----------------------------
(****************************************************************************)
(* The way of a Tree's readings from the oracle to its operator's store and *)
(* back: the publisher and the attester (orchard_chia/datalayer/main.py),   *)
(* one at a time under the writer lock; the store, whose waiting batches    *)
(* land in any order; the oracle's table of attestations (oracle/app/routes/*)
(* attestations.py), filled by the attester's report and by sync-oracle     *)
(* (sync_oracle.py), which runs without the lock.                           *)
(****************************************************************************)
EXTENDS Publisher

CONSTANTS
  MaxLookbackSeasons,  \* max_lookback_seasons, 45
  WritePlaceholders,   \* ORCHARD_ATTEST_WRITE_PLACEHOLDERS
  StartHour            \* the hours that have closed before the first run; a bound of the model

ASSUME AttesterAssumption ==
  /\ MaxLookbackSeasons \in Nat /\ WritePlaceholders \in BOOLEAN
  /\ StartHour \in 0 .. LastHour

VARIABLES
  rows,     \* the oracle's attestations, per season
  fetched   \* the record sync-oracle is about to post

syncVars == <<rows, fetched>>
vars == <<storeVars, faults, oracleVars, runVars, watermark, syncVars>>

-----------------------------------------------------------------------------
(* The attester.                                                            *)

ClosedSeasons == {s \in Season : CurrentSeason - MaxLookbackSeasons <= s /\ s < CurrentSeason}

(* GET /uptime: hours with a reading.                                       *)
HoursOnline(s) == Cardinality({h \in HoursOf(s) : InHour(h) # {}})

(* Variation: an hour that cannot be read is taken for one that was not     *)
(* published.                                                               *)
WrongReadable(s, unread) == TRUE

(* load_season_readings(strict): all that is discovered, or no seal.        *)
Readable(s, unread) == DiscoveredHours(s) \intersect unread = {}

(* Variation: seals what the oracle holds.                                  *)
WrongSealed(s, unread) ==
  LET records == [h \in {h \in HoursOf(s) : InHour(h) # {}} |-> ReadingsRecord(InHour(h))]
  IN IF DOMAIN records = {} THEN Placeholder(s, HoursOnline(s))
                            ELSE SealFromReadings(records, card, s)

Sealed(s, unread) ==
  LET records == [h \in DiscoveredHours(s) \ unread |-> chain[ReadingsKey(h)]]
  IN IF DOMAIN records = {} THEN Placeholder(s, HoursOnline(s))
                            ELSE SealFromReadings(records, card, s)

Attest(s, unread, height) ==
  BuildAttest(s, HoursOnline(s), Sealed(s, unread), height, Signer)

(* The record is the one on chain but for the height of the write.          *)
Unchanged(prior, new) == prior # None /\ [new EXCEPT !.height = prior.height] = prior

Downgrades(prior, new) ==
  prior # None /\ AttestBasis(prior, FALSE) = TRUE /\ AttestBasis(new, FALSE) # TRUE

SeasonsToSeal(missed, unread, view) ==
  {s \in ClosedSeasons \ missed :
     LET prior == view[AttestKey(s)]
         new == Attest(s, unread, now)
     IN /\ HoursOnline(s) > 0
        /\ Readable(s, unread)
        /\ WritePlaceholders \/ DiscoveredHours(s) \ unread # {}
        /\ ~Unchanged(prior, new)
        /\ ~Downgrades(prior, new)}

AttestBatch(seasons, unread, view) ==
  [k \in {AttestKey(s) : s \in seasons} |-> Upsert(view[k], Attest(k[2], unread, now), FALSE)]

AttestStart ==
  /\ pc = "idle"
  /\ CurrentSeason >= 2
  /\ pc' = "sealing" /\ job' = "attest"
  /\ UNCHANGED <<storeVars, faults, oracleVars, base, batch, before, todo, watermark, syncVars>>

(* A run reads the uptime, the readings and the record of every closed      *)
(* season; one season's failed read leaves that season out.                 *)
AttestPlanBut(missed, unread, blind) ==
  /\ pc = "sealing"
  /\ \E view \in {ValuesBut(blind)} :
     \E seasons \in {SeasonsToSeal(missed, unread, view)} :
       IF seasons = {}
       THEN Release
       ELSE /\ pc' = "ready" /\ batch' = AttestBatch(seasons, unread, view)
            /\ todo' = seasons
            /\ UNCHANGED <<job, base, before>>
  /\ Fault(Cardinality(missed) + Cardinality(unread) + Cardinality(blind))
  /\ UNCHANGED <<storeVars, oracleVars, watermark, syncVars>>

AttestPlan ==
  \E missed \in Unread(ClosedSeasons), unread \in Unread(Hour), blind \in Unread(Key) :
    AttestPlanBut(missed, unread, blind)

-----------------------------------------------------------------------------
(* The oracle's table.                                                      *)

Row(a) == [hours |-> a.hours_online, data_hash |-> a.data_hash]

(* POST /attestations: inserts the season's row or rewrites it.             *)
Record(s, row) == rows' = [rows EXCEPT ![s] = row]

(* A season of the confirmed batch is reported; a post that fails is passed *)
(* over.                                                                    *)
Report ==
  /\ pc = "done" /\ job = "attest"
  /\ \/ todo = {} /\ Release /\ UNCHANGED <<faults, rows>>
     \/ \E s \in todo :
          /\ \A t \in todo : s <= t
          /\ \/ Record(s, Row(batch[AttestKey(s)].value)) /\ UNCHANGED faults
             \/ Fault(1) /\ UNCHANGED rows
          /\ todo' = todo \ {s}
          /\ UNCHANGED <<pc, job, base, batch, before>>
  /\ UNCHANGED <<storeVars, oracleVars, watermark, fetched>>

(* GET /attestations: the seasons the oracle has a row of.                  *)
KnownSeasons == {s \in Season : rows[s] # None}

(* sync-oracle: a sealed season without a row is read, and then posted.     *)
SyncFetch(s) ==
  /\ fetched = None
  /\ s \in SealedSeasons \ KnownSeasons
  /\ fetched' = [season |-> s, row |-> Row(chain[AttestKey(s)])]
  /\ UNCHANGED <<storeVars, faults, oracleVars, runVars, watermark, rows>>

SyncPost ==
  /\ fetched # None
  /\ fetched' = None
  /\ \/ Record(fetched.season, fetched.row) /\ UNCHANGED faults
     \/ Fault(1) /\ UNCHANGED rows
  /\ UNCHANGED <<storeVars, oracleVars, runVars, watermark>>

-----------------------------------------------------------------------------

Init ==
  /\ now = StartHour /\ heard = {r \in Readings : r.at <= StartHour} /\ card \in {None, Device}
  /\ \E meta \in {None, [declares |-> FALSE, at |-> 0, signer |-> Signer]} :
       chain = [EmptyStore EXCEPT ![MetaKey] = meta]
  /\ mempool = {} /\ faults = 0
  /\ pc = "idle" /\ job = "none" /\ base = NoCount
  /\ batch = NoBatch /\ before = EmptyStore /\ todo = {}
  /\ watermark = {}
  /\ rows = [s \in Season |-> None]  /\ fetched = None

Environment == (\E r \in Readings : Hear(r)) \/ LearnKey \/ CloseHour

Settles ==
  /\ \E b \in mempool : Land(b) \/ Evict(b)
  /\ UNCHANGED <<faults, oracleVars, runVars, watermark>>

Writer ==
  PublishStart \/ PublishPlan \/ Baseline \/ Send \/ Confirm \/ GiveUp \/ Mark \/ Abort

Next ==
  \/ (Environment \/ Settles \/ Writer) /\ UNCHANGED syncVars
  \/ AttestStart \/ AttestPlan \/ Report
  \/ (\E s \in Season : SyncFetch(s)) \/ SyncPost

Spec == Init /\ [][Next]_vars

-----------------------------------------------------------------------------
(* Properties.                                                              *)

Value ==
  [declares: BOOLEAN, at: 0 .. LastHour, signer: {Signer}]
    \union [pubkey: {Device}]
    \union [readings: SUBSET Readings, root: {HourRoot(R) : R \in SUBSET Readings}]
    \union [season: Season, hour: Hour, running: 1 .. HoursPerSeason + 1,
            sealed: Season \union {None}, at: 0 .. LastHour]

IsAttest(a) ==
  /\ a.season \in Season /\ a.source \in {"readings", "placeholder"}
  /\ a.hours_online \in 0 .. HoursPerSeason /\ a.verified \in 0 .. HoursPerSeason
  /\ a.score \in 0 .. 100
  /\ a.height \in 0 .. LastHour /\ a.data_hash = a.root

IsValue(k, v) == v = None \/ (IF k[1] = "attest" THEN IsAttest(v) ELSE v \in Value)
IsBatch(b) ==
  /\ DOMAIN b \subseteq Key
  /\ \A k \in DOMAIN b : /\ b[k].replace \in BOOLEAN /\ b[k].again \in BOOLEAN
                         /\ b[k].value # None /\ IsValue(k, b[k].value)

Phase == {"idle", "counted", "sealing", "ready", "based", "sent", "done"}

(* The variables have their types.                                          *)
TypeOK ==
  /\ DOMAIN chain = Key /\ \A k \in Key : IsValue(k, chain[k])
  /\ \A b \in mempool \union {batch} : IsBatch(b)
  /\ now \in 0 .. LastHour /\ heard \subseteq Readings /\ card \in {None, Device}
  /\ pc \in Phase
  /\ job \in {"none", "publish", "attest"}
  /\ base \in [Season -> 0 .. HoursPerSeason]
  /\ DOMAIN before = Key /\ todo \subseteq Hour \union Season /\ watermark \subseteq Hour
  /\ faults \in 0 .. MaxFaults
  /\ DOMAIN rows = Season

(* An hour that the watermark says is published, and that every later run   *)
(* will therefore pass over, is on chain (publish.py:678-745).              *)
WatermarkBacked == \A h \in watermark : chain[ReadingsKey(h)] # None

(* What latest: tells the public is on the same chain: its hour, as many    *)
(* hours as it counts, and the sealed season it names (publish.py:545-582). *)
ClaimsBacked ==
  LET claim == chain[LatestKey]
  IN claim # None =>
       /\ chain[ReadingsKey(claim.hour)] # None
       /\ claim.running <= Cardinality(HoursOnChain(claim.season))
       /\ claim.sealed # None => chain[AttestKey(claim.sealed)] # None

(* The store keeps the promise of Evidence, whatever the order in which     *)
(* batches of several runs land (main.py:372-398, publish.py:221-226).      *)
SealOf(a) == IF a # None /\ a.source = "readings" THEN {a.root} ELSE {}

Promise == INSTANCE Evidence WITH
  Hours <- Hour, Seasons <- Season, HoursIn <- HoursOf, RootOf <- SeasonRoot,
  published <- [h \in Hour |-> IF chain[ReadingsKey(h)] = None THEN {}
                               ELSE chain[ReadingsKey(h)].readings],
  sealed <- [s \in Season |-> SealOf(chain[AttestKey(s)])]

ImplementsEvidence == Promise!EvidenceSpec

RootOnChain(s) == SeasonRoot([h \in HoursOnChain(s) |-> chain[ReadingsKey(h)].readings])

(* A season is sealed over everything that is on chain of it at that time,  *)
(* or not at all (seal.py:114-170).                                         *)
SealsAll ==
  [][\A s \in Season : pc = "sealing" /\ pc' = "ready" /\ AttestKey(s) \in DOMAIN batch'
        => batch'[AttestKey(s)].value.root =
             IF HoursOnChain(s) = {} THEN PlaceholderRoot(s, HoursOnline(s)) ELSE RootOnChain(s)]_vars

-----------------------------------------------------------------------------
(* Fairness.  publish and attest are started by timers of their own, so     *)
(* each finds the lock free again and again; every call of a run has a      *)
(* timeout, so that a started run gets on; a batch is mined or drops out;   *)
(* sync-oracle has a timer too.                                             *)
Proceeds == pc # "idle" /\ pc' \in Phase \ {pc}

Fairness ==
  /\ WF_vars(CloseHour /\ UNCHANGED syncVars)
  /\ SF_vars(PublishStart /\ UNCHANGED syncVars)
  /\ SF_vars(AttestStart)
  /\ WF_pc(Proceeds)
  /\ WF_vars(Settles /\ UNCHANGED syncVars)
  /\ WF_vars((\E s \in Season : SyncFetch(s)) \/ SyncPost)

FairSpec == Spec /\ Fairness

(* Once the Tree has a card and a latest: in the store, an hour with a      *)
(* reading is in the end on chain, and its season's seal counts it, whatever*)
(* run died or timed out on the way, unless it has left the publisher's     *)
(* window (publish.py:319-420, main.py:372-520).  A first publish of more   *)
(* than one hour inserts both keys twice and is refused every time.         *)
Begun == chain[NodeKey] # None /\ chain[LatestKey] # None

EvidenceComplete ==
  \A h \in Hour :
    h > LastHour - PublishLookback =>
      [](InHour(h) # {} /\ card # None /\ Begun
           => <>(/\ chain[ReadingsKey(h)] # None
                 /\ SeasonOf(h) < SeasonOf(LastHour + 1) =>
                      /\ chain[AttestKey(SeasonOf(h))] # None
                      /\ chain[AttestKey(SeasonOf(h))].root = RootOnChain(SeasonOf(h))))

(* The oracle comes to hold a row for every season sealed on chain, though  *)
(* the attester's report was lost (sync_oracle.py:1-40).                    *)
OracleInformed ==
  \A s \in Season : chain[AttestKey(s)] # None ~> rows[s] # None
================================================================================

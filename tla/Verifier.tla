-------------------------------- MODULE Verifier --------------------------------
(****************************************************************************)
(* Anyone's check of what an operator's store claims of a Tree              *)
(* (orchard_chia/datalayer/verify.py, inclusion.py, fetch.py,               *)
(* verify_latest.py, cli/orchard_verify.py), beside the writers of that     *)
(* store: the records are read one after the other, checked against each    *)
(* other, and proven under the store's confirmed root; meanwhile batches    *)
(* land.  The store may be one that an older or a wrong writer left behind. *)
(****************************************************************************)
EXTENDS EvidencePipeline

CONSTANTS
  HonestStores,   \* stores of the present and earlier versions to start with
  WrongStores     \* stores that claim something that is not so

(* None stands apart from the values it is compared with.                   *)
ASSUME NoneAssumption ==
  /\ None \notin {"readings", "placeholder"} /\ None \notin Hour /\ None \notin BOOLEAN
  /\ \A at \in 0 .. LastHour : MetaRecord(at) # None

VARIABLES
  asked,    \* what is verified: [mode, season, hour, reading]
  stage,    \* where the verification is
  wanted,   \* the keys still to be read
  bundle,   \* the values read
  proven,   \* the store of the proof
  verdict,  \* the exit code
  honest,   \* whether the store was honest; a history variable
  calm      \* no read failed and the store stayed as it was; a history variable

verifierVars == <<asked, stage, wanted, bundle, proven, verdict, honest>>
allVars == <<vars, verifierVars, calm>>

-----------------------------------------------------------------------------
(* The checks of verify_bundle.                                             *)

RecordsIn(b) == [h \in {h \in Hour : ReadingsKey(h) \in DOMAIN b} |-> b[ReadingsKey(h)]]
ReadingsIn(records) == UNION {records[h].readings : h \in DOMAIN records}

(* Every reading is proven to its record's root by its own audit path.      *)
AllIncluded(records) ==
  /\ ReadingsIn(records) # {}
  /\ \A h \in DOMAIN records :
       \E leaves \in {Leaves(records[h].readings)} :
         \A i \in DOMAIN leaves :
           VerifyProof(leaves[i], MerkleProof(leaves, i), records[h].root)

(* A seal without readings: it says so and is consistent, or it is of a     *)
(* version that said nothing and its root is the stand-in.                  *)
PlaceholderSealed(a, basis) ==
  \/ DeclaresPlaceholder(a) /\ ~PlaceholderInconsistent(a)
  \/ basis = None /\ a.root = PlaceholderRoot(a.season, a.hours_online)

(* Variation: the threshold of this version.                                *)
WrongMinDeclared(a) == MinReadings

(* The threshold a record was made under, if it says a positive number.     *)
MinDeclared(a) == IF a.min \in Nat \ {0} THEN a.min ELSE LegacyMinReadings

(* Variation: the number of hours is believed.                              *)
WrongSeasonChecks(node, a, by_hour) ==
  [season_root |-> SeasonRoot(by_hour) = a.root /\ a.root = a.data_hash,
   hours |-> TRUE, score |-> SeasonScore(a.verified) = a.score]

SeasonChecks(node, a, by_hour) ==
  LET verified == VerifiedHours(by_hour, node.pubkey, MinDeclared(a), a.window)
  IN [season_root |-> SeasonRoot(by_hour) = a.root /\ a.root = a.data_hash,
      hours       |-> verified = a.verified,
      score       |-> SeasonScore(verified) = a.score]

ReadingChecks(node, records) ==
  LET readings == ReadingsIn(records)
  IN [signatures |-> readings # {} /\ Signed(readings, node.pubkey, None) = readings,
      anchors    |-> readings # {} /\ \A r \in readings : r.anchored,
      inclusion  |-> AllIncluded(records),
      hour_roots |-> \A h \in DOMAIN records : records[h].root = HourRoot(records[h].readings)]

SealChecks(meta, a, basis, records) ==
  [agree       |-> \A h \in DOMAIN records : SeasonOf(h) = a.season,
   basis       |-> basis # FALSE,
   declared    |-> a.mismatches \in {None, 0},
   placeholder |-> ~PlaceholderInconsistent(a),
   stand_in    |-> PlaceholderSealed(a, basis) =>
                     /\ a.root = PlaceholderRoot(a.season, a.hours_online)
                     /\ a.data_hash = a.root,
   season_sig  |-> a.signer = meta.signer]

Failing(checks) == {c \in DOMAIN checks : checks[c] = FALSE}

(* What a bundle fails.  A check that does not apply is not made.           *)
Failed(b, full) ==
  LET meta == b[MetaKey]  node == b[NodeKey]
      records == RecordsIn(b)
      by_hour == [h \in DOMAIN records |-> records[h].readings]
  IN UNION {
    LET basis == AttestBasis(a, meta.declares)
        sealed_empty == PlaceholderSealed(a, basis)
    IN Failing(SealChecks(meta, a, basis, records))
         \union (IF sealed_empty /\ ReadingsIn(records) = {} THEN {}
                 ELSE Failing(ReadingChecks(node, records)))
         \union (IF full /\ ~sealed_empty THEN Failing(SeasonChecks(node, a, by_hour)) ELSE {})
    : a \in {b[AttestKey(asked.season)]}}

(* Checks whose failure leaves the question open.                           *)
CannotVerify == {"anchors", "basis"}

(* One reading against its hour's record.                                   *)
ReadingHolds(r, node, record) ==
  \E leaves \in {Leaves(record.readings)} : \E root \in {HourRoot(record.readings)} :
    /\ r.key = node.pubkey
    /\ \E i \in DOMAIN leaves : /\ leaves[i] = LeafHash(Original(r))
                                /\ VerifyProof(leaves[i], MerkleProof(leaves, i), root)
    /\ root = record.root

-----------------------------------------------------------------------------
(* The commands: verify live (a season, or one hour of it), verify reading, *)
(* and verify-latest, which takes the newest seal it can list.              *)

NoBundle == [k \in {} |-> None]
NoQuestion == [mode |-> "none", season |-> None, hour |-> None, reading |-> None]

About(mode, s, h, r) == [mode |-> mode, season |-> s, hour |-> h, reading |-> r]

Newest == CHOOSE s \in SealedSeasons : \A t \in SealedSeasons : t <= s

Questions ==
  {About("season", s, None, None) : s \in Season}
    \union {About("hour", SeasonOf(h), h, None) : h \in Hour}
    \union {About("reading", SeasonOf(r.at), r.at, Original(r)) :
              r \in heard \union ReadingsIn(RecordsIn([k \in Listed |-> chain[k]]))}
    \union (IF SealedSeasons = {} THEN {} ELSE {About("latest", Newest, None, None)})

Ask(q) ==
  /\ stage = "idle"
  /\ stage' = "records" /\ asked' = q /\ verdict' = None /\ calm' = TRUE
  /\ wanted' = (IF q.mode = "reading" THEN <<NodeKey>>
                ELSE <<MetaKey, NodeKey, AttestKey(q.season)>>)
               \o (IF q.hour = None THEN <<>> ELSE <<ReadingsKey(q.hour)>>)
  /\ UNCHANGED <<bundle, proven, honest>>

Conclude(code) ==
  /\ verdict' = code
  /\ stage' = "idle" /\ asked' = NoQuestion /\ wanted' = <<>>
  /\ bundle' = NoBundle /\ proven' = None
  /\ UNCHANGED honest

Say(code) == Conclude(code) /\ UNCHANGED calm

(* What could not be read: try again later.  verify-latest passes over it.  *)
Open == IF asked.mode = "latest" THEN 0 ELSE 2

(* The next key; what is not there cannot be verified.                      *)
Fetch ==
  /\ stage \in {"records", "hours"}
  /\ \E k \in {Head(wanted)} :
       IF chain[k] = None
       THEN Say(Open)
       ELSE /\ bundle' = [c \in DOMAIN bundle \union {k} |-> IF c = k THEN chain[k] ELSE bundle[c]]
            /\ wanted' = Tail(wanted)
            /\ stage' = IF Tail(wanted) # <<>> THEN stage
                        ELSE IF stage = "records" /\ asked.hour = None THEN "discover"
                        ELSE "prove"
            /\ UNCHANGED <<asked, proven, verdict, honest, calm>>

(* The keys of some hours, in the order of the hours.                       *)
InOrder(hours) ==
  [n \in 1 .. Cardinality(hours) |->
     ReadingsKey(CHOOSE h \in hours : Cardinality({g \in hours : g < h}) = n - 1)]

(* The hours of a whole season are those that the store lists.              *)
Discover ==
  /\ stage = "discover"
  /\ IF DiscoveredHours(asked.season) = {}
     THEN Say(Open)
     ELSE /\ wanted' = InOrder(DiscoveredHours(asked.season))
          /\ stage' = "hours"
          /\ UNCHANGED <<asked, bundle, proven, verdict, honest, calm>>

(* verify-latest goes by the bundle alone, and by all checks but the anchor.*)
Audit ==
  /\ stage = "prove" /\ asked.mode = "latest"
  /\ Say(IF Failed(bundle, TRUE) \subseteq {"anchors"} THEN 0 ELSE 1)

Found ==
  asked.mode = "reading" =>
    \E r \in bundle[ReadingsKey(asked.hour)].readings : Original(r) = asked.reading

NotFound ==
  /\ stage = "prove" /\ ~Found
  /\ Say(2)

GetRoot ==
  /\ stage = "prove" /\ Found /\ asked.mode # "latest"
  /\ stage' = "rooted"
  /\ UNCHANGED <<asked, wanted, bundle, proven, verdict, honest, calm>>

(* The records hold together (0), contradict each other (1), or leave the   *)
(* question open (2).                                                       *)
LocalVerdict ==
  IF asked.mode = "reading"
  THEN IF ReadingHolds(asked.reading, bundle[NodeKey], bundle[ReadingsKey(asked.hour)])
       THEN 0 ELSE 1
  ELSE CHOOSE code \in 0 .. 2 : \E failed \in {Failed(bundle, asked.mode = "season")} :
         code = (IF failed \ CannotVerify # {} THEN 1 ELSE IF failed # {} THEN 2 ELSE 0)

(* The exit code with the outcome of the proof; a contradiction counts      *)
(* whatever else is open.                                                   *)
ExitCode(proof) ==
  IF 1 \in {LocalVerdict, proof} THEN 1 ELSE IF 2 \in {LocalVerdict, proof} THEN 2 ELSE 0

(* The keys that a proof asked for now would cover.                         *)
Covered == {k \in DOMAIN bundle : chain[k] # None}

GetProof ==
  /\ stage = "rooted"
  /\ IF Covered = DOMAIN bundle
     THEN stage' = "proven" /\ proven' = chain
          /\ UNCHANGED <<asked, wanted, bundle, verdict, honest, calm>>
     ELSE Say(ExitCode(2))

(* Variation: only the readings are compared.                               *)
WrongBound == {k \in DOMAIN bundle : k[1] = "readings"}

(* The keys whose values are compared with those of the proof: all that the *)
(* verdict trusts.                                                          *)
Bound == DOMAIN bundle

Differs == \E k \in Bound : proven[k] # bundle[k]

(* The proof must chain to the root of this moment.                         *)
VerifyProofs ==
  /\ stage = "proven"
  /\ Say(ExitCode(IF chain # proven THEN 2 ELSE IF Differs THEN 1 ELSE 0))

(* A call fails, or the root is reported as unconfirmed.                    *)
Fail ==
  /\ \/ stage \in {"records", "discover", "hours"} /\ Conclude(Open)
     \/ stage \in {"prove", "rooted", "proven"} /\ asked.mode # "latest" /\ Found
          /\ Conclude(ExitCode(2))
  /\ calm' = FALSE

Verification ==
  (\E q \in Questions : Ask(q)) \/ Fetch \/ Discover \/ Audit \/ NotFound \/ GetRoot \/ GetProof
    \/ VerifyProofs \/ Fail

-----------------------------------------------------------------------------
(* What a verifier has to rely on.  Signatures are not made up: an entry    *)
(* under the Tree's key repeats a reading it sent.  Nothing checks that a   *)
(* reading lies under its hour, or that a seal from before there were       *)
(* readings claims no more hours than there should have been.               *)

(* The hours of a seal's season with this many of these readings.           *)
Threshold(a) == IF a.min \in Nat \ {0} THEN a.min ELSE 1
HoursBy(a, R, min) == {h \in HoursOf(a.season) : Cardinality({r \in R : r.at = h}) >= min}

SealSound(a, R) ==
  /\ a.season \in Nat
  /\ a.source = None /\ a.root = PlaceholderRoot(a.season, a.hours_online)
       => a.verified \in Int /\ a.verified <= Cardinality(HoursBy(a, R, Threshold(a)))

(* A value under its key, where the Tree has sent the readings in R.        *)
Sound(k, v, R) ==
  /\ \A h \in Hour : k = ReadingsKey(h) =>
       \A r \in v.readings : r.at = h /\ (r.key = Device => Original(r) \in R)
  /\ \A s \in Season : k = AttestKey(s) => SealSound(v, R)

StoresAreSound ==
  /\ IsFiniteSet(Readings)
  /\ \A store \in HonestStores \union WrongStores, k \in Key :
       store[k] # None => Sound(k, store[k], Readings)

(* A store with readings declares its schema.                               *)
StoresDeclare ==
  \A store \in HonestStores \union WrongStores :
    (\E h \in Hour : store[ReadingsKey(h)] # None) => store[MetaKey].declares = TRUE

-----------------------------------------------------------------------------

VerifierInit ==
  /\ card = Device
  /\ \/ chain \in HonestStores /\ honest = TRUE
     \/ chain \in WrongStores /\ honest = FALSE
  /\ now = (IF chain = EmptyStore THEN StartHour ELSE LastHour)
  /\ \E h \in Hour : heard = {r \in Readings : r.at <= h}
  /\ \A k \in Key : chain[k] # None => Sound(k, chain[k], heard)
  /\ mempool = {} /\ faults = 0
  /\ pc = "idle" /\ job = "none" /\ base = NoCount
  /\ batch = NoBatch /\ before = EmptyStore /\ todo = {}
  /\ watermark = {} /\ rows = [s \in Season |-> None] /\ fetched = None
  /\ asked = NoQuestion /\ stage = "idle" /\ wanted = <<>> /\ bundle = NoBundle
  /\ proven = None /\ verdict = None /\ calm = TRUE

Writing ==
  \/ (Environment \/ Settles \/ Writer) /\ UNCHANGED syncVars
  \/ AttestStart \/ AttestPlan \/ Report

VerifierNext ==
  \/ /\ Writing
     /\ calm' = (calm /\ (stage = "idle" \/ chain' = chain))
     /\ UNCHANGED verifierVars
  \/ Verification /\ UNCHANGED vars

VerifierSpec == VerifierInit /\ [][VerifierNext]_allVars

-----------------------------------------------------------------------------
(* Properties.                                                              *)

(* The variables have their types.                                          *)
VerifierTypeOK ==
  /\ asked = NoQuestion \/ (asked.season \in Season /\ asked.hour \in Hour \union {None})
  /\ stage \in {"idle", "records", "discover", "hours", "prove", "rooted", "proven"}
  /\ stage \in {"records", "hours"} <=> wanted # <<>>
  /\ DOMAIN bundle \subseteq Key /\ \A k \in DOMAIN bundle : bundle[k] # None
  /\ verdict \in {None, 0, 1, 2}

Concludes == stage # "idle" /\ stage' = "idle"
Checked == stage \in {"prove", "proven"}

(* "VALID" is about one moment: everything that was checked is on chain     *)
(* under the root of that moment, although it was read key by key while     *)
(* batches landed (inclusion.py:156-309, orchard_verify.py:140-160).        *)
ValidIsCurrent ==
  [][Concludes /\ verdict' = 0 /\ asked.mode # "latest"
       => \A k \in DOMAIN bundle : bundle[k] = chain[k]]_allVars

(* A seal claims no more hours than the Tree was heard in, and if its hours *)
(* list each reading once, no more than it was heard in often enough.       *)
Earned(a, repeats) ==
  /\ a.verified <= Cardinality(HoursBy(a, heard, 1))
  /\ ~repeats => a.verified <= Cardinality(HoursBy(a, heard, Threshold(a)))

Repeats == \E r \in ReadingsIn(RecordsIn(bundle)) : Original(r) # r

(* Under a node card with the Tree's key, which comes from the same store,  *)
(* no season is called valid whose claim is not earned, whoever wrote its   *)
(* other records, if only readings are filed under their hours; nor is a    *)
(* reading the Tree did not sign.  Entries are counted, so that a reading   *)
(* listed often enough makes its hour (verify.py:139-171, 179, 435-453,     *)
(* schema.py:354-360).                                                      *)
ValidIsEarned ==
  [][Concludes /\ verdict' = 0 /\ Checked /\ bundle[NodeKey].pubkey = Device
       => CASE asked.mode \in {"season", "latest"} ->
                 Earned(bundle[AttestKey(asked.season)], Repeats)
            [] asked.mode = "reading" -> asked.reading \in heard
            [] OTHER -> TRUE]_allVars

(* A season is called valid only if its seal stands on signed readings, not *)
(* if it predates them, in stores that declare the schema which brought the *)
(* readings: one with readings under schema 1.0 is another matter           *)
(* (StoresDeclare; schema.py:388-407).                                      *)
ValidIsBacked ==
  [][Concludes /\ verdict' = 0 /\ asked.mode \in {"season", "hour"}
       => AttestBasis(bundle[AttestKey(asked.season)], TRUE) = TRUE]_allVars

(* Who asks an honest store that stands still is told so: a seal over all   *)
(* that is on chain is valid, in whole, by the hour and by the reading      *)
(* (orchard_verify.py:111-137, verify_latest.py:13-22).                     *)
HonestIsValid ==
  [][Concludes /\ Checked /\ honest /\ calm'
       => IF asked.mode = "reading" \/ asked.mode = "hour" THEN verdict' # 1
          ELSE LET a == chain[AttestKey(asked.season)]
               IN AttestBasis(a, TRUE) = TRUE /\ a.root = RootOnChain(asked.season)
                    => verdict' = 0]_allVars

(* The tree of an hour that comes on chain is that of RFC 6962, and an      *)
(* audit path proves one leaf of it (merkle.py:46-110).                     *)
TreesAreExact ==
  [][\A h \in Hour : chain'[ReadingsKey(h)] # chain[ReadingsKey(h)]
       => \E leaves \in {Leaves(chain'[ReadingsKey(h)].readings)} : Exact(leaves)]_allVars
================================================================================

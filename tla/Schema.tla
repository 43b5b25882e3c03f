--------------------------------- MODULE Schema ---------------------------------
(****************************************************************************)
(* The records of an operator's DataLayer store and what is computed from   *)
(* them (orchard_chia/datalayer/schema.py, seal.py, schedule.py, attest.py):*)
(* hour and season roots, verified hours, the basis of a sealed season.     *)
(*                                                                          *)
(* Hours are numbered from 1 since the genesis of the seasons.  A reading   *)
(* is a record [at, key, n, anchored, copy]: the hour of its own timestamp, *)
(* the key that signed it, a number that orders it among the others of its  *)
(* hour, and whether it carries the hash of a block.  The readings of a     *)
(* record are a list; entries that repeat one signed reading differ in copy *)
(* alone, and the first has copy 1.                                         *)
(****************************************************************************)
EXTENDS Merkle, FiniteSets

CONSTANTS
  None,            \* no value: a key that is absent, a field that is null
  HoursPerSeason,  \* 24
  MinReadings,     \* MIN_VERIFIED_READINGS_PER_HOUR, 30
  ClaimDepth       \* how far back a sealed season is looked for, 12

ASSUME SchemaAssumption ==
  /\ HoursPerSeason \in Nat \ {0} /\ MinReadings \in Nat \ {0}
  /\ ClaimDepth \in Nat

LegacyMinReadings == 1

SeasonOf(h) == 1 + (h - 1) \div HoursPerSeason
HoursOf(s) == (s - 1) * HoursPerSeason + 1 .. s * HoursPerSeason

(* The Merkle root over the readings of an hour, by their time; that over   *)
(* the roots of the hours of a season, in their order, from a function on   *)
(* these hours; and the hash that stands in for it when there are none.     *)
Sorted(readings) ==
  SetToSortSeq(readings, LAMBDA r, q : \/ r.at < q.at
                                       \/ r.at = q.at /\ r.n < q.n
                                       \/ r.at = q.at /\ r.n = q.n /\ r.copy < q.copy)

(* What was signed, however often a list repeats it.                        *)
Original(r) == [at |-> r.at, key |-> r.key, n |-> r.n, anchored |-> r.anchored, copy |-> 1]

Leaves(readings) == [i \in 1 .. Cardinality(readings) |-> LeafHash(Original(Sorted(readings)[i]))]
HourRoot(readings) == MerkleRoot(Leaves(readings))

SeasonRoot(by_hour) ==
  LET hours == SetToSortSeq(DOMAIN by_hour, <)
  IN MerkleRoot([i \in 1 .. Len(hours) |-> HourRoot(by_hour[hours[i]])])

PlaceholderRoot(season, hours) == <<"placeholder", season, hours>>

(* What a record declares as its bounds, here by their season; a record     *)
(* without readable bounds has no window.                                   *)
InWindow(r, window) == window = None \/ SeasonOf(r.at) = window

Signed(readings, pub, window) ==
  {r \in readings : InWindow(r, window) /\ r.key = pub}

VerifiedHours(by_hour, pub, min, window) ==
  Cardinality({h \in DOMAIN by_hour : Cardinality(Signed(by_hour[h], pub, window)) >= min})

(* Without the device's key an hour counts by the presence of readings.     *)
PresentHours(by_hour, min, window) ==
  Cardinality({h \in DOMAIN by_hour :
                 Cardinality({r \in by_hour[h] : InWindow(r, window)}) >= min})

SeasonScore(v) == (100 * v + HoursPerSeason \div 2) \div HoursPerSeason

ReadingsRecord(readings) == [readings |-> readings, root |-> HourRoot(readings)]

Total(f) == FoldFunction(LAMBDA x, y : x + y, 0, f)

(* What a season's published records seal to; the roots are recomputed and  *)
(* a stored one that differs is counted.                                    *)
SealFromReadings(records, pub, window) ==
  LET by_hour == [h \in DOMAIN records |-> records[h].readings]
  IN [source     |-> "readings",
      root       |-> SeasonRoot(by_hour),
      verified   |-> IF pub # None THEN VerifiedHours(by_hour, pub, MinReadings, window)
                                   ELSE PresentHours(by_hour, MinReadings, window),
      sigs       |-> pub # None,
      count      |-> Total([h \in DOMAIN by_hour |-> Cardinality(by_hour[h])]),
      mismatches |-> Cardinality({h \in DOMAIN records : records[h].root # HourRoot(by_hour[h])})]

Placeholder(season, hours) ==
  [source |-> "placeholder", root |-> PlaceholderRoot(season, hours),
   verified |-> 0, sigs |-> FALSE, count |-> 0, mismatches |-> 0]

(* The signed record of a season.  data_hash is the root again.             *)
BuildAttest(season, hours, sealed, height, signer) ==
  [season |-> season, window |-> season, hours_online |-> hours,
   verified |-> sealed.verified, source |-> sealed.source, sigs |-> sealed.sigs,
   mismatches |-> sealed.mismatches, score |-> SeasonScore(sealed.verified),
   min |-> MinReadings, count |-> sealed.count, height |-> height,
   root |-> sealed.root, data_hash |-> sealed.root, signer |-> signer]

(* Variation: the schema of the store is not looked at.                     *)
WrongAttestBasis(a, declares) ==
  CASE a.source = None -> None
    [] a.source = "readings" -> a.sigs = TRUE
    [] OTHER -> FALSE

(* TRUE: proof-backed.  FALSE: not.  None: it says nothing in a store that  *)
(* does not ask for it.  declares: the store's schema is 1.1 or later.      *)
AttestBasis(a, declares) ==
  CASE a.source = None -> IF declares THEN FALSE ELSE None
    [] a.source = "readings" -> a.sigs = TRUE
    [] OTHER -> FALSE

DeclaresPlaceholder(a) == a.source = "placeholder"

PlaceholderInconsistent(a) ==
  /\ DeclaresPlaceholder(a)
  /\ a.verified # 0 \/ a.score # 0 \/ a.count # 0
================================================================================

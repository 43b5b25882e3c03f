------------------------------- MODULE DataLayer -------------------------------
(****************************************************************************)
(* An operator's DataLayer store, as the client in orchard_chia/datalayer/  *)
(* rpc.py and confirm.py finds it: a map of keys to values at the root that *)
(* is confirmed on chain, and the batches that have been accepted and wait  *)
(* for a block, in an order of the mempool's own.                           *)
(*                                                                          *)
(* The store is about one Tree.  The store's daemon is not in the           *)
(* repository; it takes a batch that applies to its root, whole or not at   *)
(* all: an insert needs an absent key, a delete a present one.              *)
(****************************************************************************)
EXTENDS Schema

CONSTANTS
  LastHour,    \* the hours of the model; a bound of the model
  FirstPage,   \* the keys that a listing returns on its first page
  MaxPending,  \* batches that wait for a block; a bound of the model
  MaxFaults    \* failed reads, lost answers, crashes; a bound of the model

ASSUME StoreAssumption ==
  /\ LastHour \in Nat /\ MaxPending \in Nat /\ MaxFaults \in Nat

VARIABLES
  chain,    \* the store at its confirmed root
  mempool,  \* the batches that wait for a block
  faults    \* how many faults the environment has made

storeVars == <<chain, mempool>>

Hour == 1 .. LastHour
Season == 1 .. SeasonOf(LastHour)

MetaKey == <<"meta", 0>>
NodeKey == <<"node", 0>>
LatestKey == <<"latest", 0>>
ReadingsKey(h) == <<"readings", h>>
AttestKey(s) == <<"attest", s>>
Key == {MetaKey, NodeKey, LatestKey} \union {ReadingsKey(h) : h \in Hour}
         \union {AttestKey(s) : s \in Season}

EmptyStore == [k \in Key |-> None]

(* A batch maps each key it touches to its last value, to whether it        *)
(* deletes the old one first, and to whether it does so again.              *)
NoBatch == [k \in {} |-> None]

(* delete and insert, or insert alone where the key was found absent: what  *)
(* was found is not brought up to date between two upserts of one key.      *)
Upsert(existing, v, again) == [replace |-> existing # None, value |-> v, again |-> again]

(* A second insert alone meets the first.                                   *)
Applies(b) ==
  \A k \in DOMAIN b : /\ b[k].replace <=> chain[k] # None
                      /\ b[k].again => b[k].replace
After(b) == [k \in Key |-> IF k \in DOMAIN b THEN b[k].value ELSE chain[k]]

(* A block takes a waiting batch, or the batch has become inapplicable.     *)
Land(b) ==
  /\ b \in mempool
  /\ Applies(b)
  /\ chain' = After(b)
  /\ mempool' = mempool \ {b}

Evict(b) ==
  /\ b \in mempool
  /\ ~Applies(b)
  /\ mempool' = mempool \ {b}
  /\ UNCHANGED chain

Fault(n) == faults + n <= MaxFaults /\ faults' = faults + n

(* A listing of the store's keys.  The first page is normalised to bare hex;*)
(* the keys of later pages keep the prefix the daemon gives them, and the   *)
(* readers that take keys for bare hex pass over them.                      *)
Listed == {k \in Key : chain[k] # None}

Bare == Listed \intersect FirstPage

HoursOnChain(s) == {h \in HoursOf(s) \intersect Hour : chain[ReadingsKey(h)] # None}
DiscoveredHours(s) == {h \in HoursOf(s) \intersect Hour : ReadingsKey(h) \in Bare}

(* Variation: the range begins after its first season.                      *)
WrongSealedSeasons == {s \in 2 .. SeasonOf(LastHour) : AttestKey(s) \in Bare}

SealedSeasons == {s \in Season : AttestKey(s) \in Bare}

(* A read is tried again while its error looks transient; what at most one  *)
(* fault leaves unread in the end.                                          *)
Unread(S) == {{}} \union (IF faults < MaxFaults THEN {{x} : x \in S} ELSE {})

(* get_value is soft: a key that could not be read looks absent.            *)
ValuesBut(blind) == [k \in Key |-> IF k \in blind THEN None ELSE chain[k]]

(* batch_update, sent once and never again: the daemon refuses it or takes  *)
(* it, and its answer may be lost either way.                               *)
Take(b) ==
  /\ Applies(b)
  /\ Cardinality(mempool) < MaxPending
  /\ mempool' = mempool \union {b}

(* confirm_inserts: every value of the batch is there.                       *)
Confirmed(b) == \A k \in DOMAIN b : chain[k] = b[k].value
================================================================================

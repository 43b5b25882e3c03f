------------------------------- MODULE MCVerifier -------------------------------
(* One season of two hours: the first with five readings, whose tree has an *)
(* odd last node on two levels, the second with one, which is below the     *)
(* present threshold and not below the earlier one.                         *)
EXTENDS Verifier

MCReading(h, n) == [at |-> h, key |-> Device, n |-> n, anchored |-> TRUE, copy |-> 1]
MCReadings == {MCReading(1, n) : n \in 1 .. 5} \union {MCReading(2, 1)}
MCFirstPage == Key

MCMeta(declares) == [declares |-> declares, at |-> 0, signer |-> Signer]
MCHours == [h \in 1 .. 2 |-> ReadingsRecord({r \in MCReadings : r.at = h})]
MCStoreOf(pubkey, meta, hours, attest) ==
  [k \in Key |->
     CASE k = MetaKey -> meta
       [] k = NodeKey -> [pubkey |-> pubkey]
       [] k = AttestKey(1) -> attest
       [] k[1] = "readings" /\ k[2] \in DOMAIN hours -> hours[k[2]]
       [] OTHER -> None]
MCStore(meta, hours, attest) == MCStoreOf(Device, meta, hours, attest)

MCSeal == BuildAttest(1, 2, SealFromReadings(MCHours, Device, 1), 0, Signer)

(* As the attester wrote them before records declared their basis, and when *)
(* one reading made an hour.                                                *)
MCLegacySeal ==
  [MCSeal EXCEPT !.source = None, !.sigs = None, !.mismatches = None, !.min = None,
     !.count = None, !.verified = 2, !.score = SeasonScore(2),
     !.root = PlaceholderRoot(1, 2), !.data_hash = PlaceholderRoot(1, 2)]
MCEarlierSeal == [MCSeal EXCEPT !.min = 1, !.verified = 2, !.score = SeasonScore(2)]
MCPlaceholder == BuildAttest(1, 2, Placeholder(1, 2), 0, Signer)

MCHonestStores ==
  {EmptyStore, MCStore(MCMeta(FALSE), <<>>, MCLegacySeal),
   MCStore(MCMeta(TRUE), MCHours, MCEarlierSeal), MCStore(MCMeta(TRUE), <<>>, MCPlaceholder)}

(* A legacy seal beside readings that were published under the old schema.  *)
MCLegacyStores == {MCStore(MCMeta(FALSE), MCHours, MCLegacySeal)}

(* Seals that claim an hour too many, each in another way; an hour with a   *)
(* reading that the Tree did not sign; one whose reading is listed twice;   *)
(* one without readings under a threshold of nothing; and a store under a   *)
(* key that is not the Tree's.                                              *)
MCOverclaim == [MCSeal EXCEPT !.verified = 2, !.score = SeasonScore(2)]
MCForeign == [MCReading(2, 2) EXCEPT !.key = Signer]
MCPadded == [MCHours EXCEPT ![2] = ReadingsRecord(MCHours[2].readings \union {MCForeign})]
MCRepeated == [MCHours EXCEPT ![2] = ReadingsRecord({[MCReading(2, 1) EXCEPT !.copy = c] : c \in 1 .. 2})]
MCHollow == [MCHours EXCEPT ![2] = ReadingsRecord({})]
MCOthers == [h \in 1 .. 2 |-> ReadingsRecord({[MCReading(h, n) EXCEPT !.key = Signer] : n \in 1 .. 2})]
MCSealOf(hours, pub) ==
  [BuildAttest(1, 2, SealFromReadings(hours, pub, 1), 0, Signer)
     EXCEPT !.verified = 2, !.score = SeasonScore(2)]
MCWrongStores ==
  {MCStore(MCMeta(TRUE), MCHours, a) :
     a \in {MCOverclaim,
            [MCOverclaim EXCEPT !.root = PlaceholderRoot(1, 2), !.data_hash = PlaceholderRoot(1, 2)],
            [MCOverclaim EXCEPT !.source = "placeholder"],
            [MCOverclaim EXCEPT !.source = None],
            [MCOverclaim EXCEPT !.sigs = FALSE],
            [MCOverclaim EXCEPT !.mismatches = 1]}}
    \union {MCStore(MCMeta(TRUE), hours, MCSealOf(hours, Device)) : hours \in {MCPadded, MCRepeated}}
    \union {MCStore(MCMeta(TRUE), MCHollow, [MCSealOf(MCHollow, Device) EXCEPT !.min = 0]),
            MCStoreOf(Signer, MCMeta(TRUE), MCOthers, MCSealOf(MCOthers, Signer))}

ASSUME MCStoresAssumption == StoresAreSound /\ StoresDeclare
================================================================================

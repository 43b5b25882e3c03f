-------------------------------- MODULE Evidence --------------------------------
(****************************************************************************)
(* What an operator's store promises about a Tree: an hour's readings stay  *)
(* as they were published, and a season's seal is over readings that are    *)
(* published.  It says nothing of batches, runs, locks or faults.           *)
(****************************************************************************)

CONSTANTS
  Hours, Seasons,  \* the hours and the seasons there are
  HoursIn(_),      \* HoursIn(s): the hours of a season
  RootOf(_)        \* RootOf(f): the root of the readings f of some hours

VARIABLES
  published,  \* the readings of each hour, none until it is published
  sealed      \* per season, at most the root of the published readings it was sealed over

evidenceVars == <<published, sealed>>

Start ==
  /\ published = [h \in Hours |-> {}]
  /\ sealed = [s \in Seasons |-> {}]

Publish ==
  /\ \A h \in Hours : published[h] # {} => published'[h] = published[h]
  /\ UNCHANGED sealed

IsSealOf(s, root) ==
  \E hours \in SUBSET (HoursIn(s) \intersect Hours) :
    /\ hours # {} /\ \A h \in hours : published[h] # {}
    /\ root = RootOf([h \in hours |-> published[h]])

Seal ==
  /\ \A s \in Seasons :
       \/ sealed'[s] = sealed[s]
       \/ \E root \in sealed'[s] : sealed'[s] = {root} /\ IsSealOf(s, root)
  /\ UNCHANGED published

EvidenceSpec == Start /\ [][Publish \/ Seal]_evidenceVars
================================================================================

----------------------------- MODULE ReadingIngest -----------------------------
(****************************************************************************)
(* One Tree, the network and the oracle's POST /readings                    *)
(* (oracle/app/routes/readings.py), with the routes that register and       *)
(* delete the Tree meanwhile.  The network delivers a body late, several    *)
(* times or never.                                                          *)
(*                                                                          *)
(* A worker handles a body in two steps: it authenticates it and looks for  *)
(* a duplicate, then it advances last_seq, which takes the write lock, and  *)
(* commits.  Other requests come in between.                                *)
(****************************************************************************)
EXTENDS TreeSequence, FiniteSets

CONSTANTS
  Workers,       \* server processes, each handling one post at a time
  NoBody,
  RequireSeq,    \* settings.require_seq
  MaxAge,        \* settings.max_reading_age_seconds in slots, 0 for off
  SlotsPerHour,  \* ten-minute slots: 6 in the code
  MinReadings, MinSlots,  \* what an hour needs to be credited
  MaxClock, MaxResets     \* bounds of the model: time, registrations and deletions

ASSUME IngestAssumption ==
  /\ RequireSeq \in BOOLEAN /\ MaxAge \in Nat
  /\ SlotsPerHour \in Nat \ {0}
  /\ MinReadings \in Nat \ {0} /\ MinSlots \in Nat \ {0}
  /\ MaxClock \in Nat /\ MaxResets \in Nat

VARIABLES
  clock,       \* the oracle's time, in slots
  registered,  \* whether the Tree's node row exists
  lastSeq,     \* nodes.last_seq
  rows,        \* readings: id, body and time of receipt
  count,       \* uptime_hours.reading_count
  slots,       \* uptime_hours.slots_mask
  pending,     \* what each worker has authenticated and not yet committed
  resets

oracleVars == <<registered, lastSeq, rows, count, slots>>
vars == <<treeVars, oracleVars, clock, pending, resets>>

Times == 0..MaxClock
HourOf(t) == t \div SlotsPerHour

SlotOf(t) == t % SlotsPerHour

Hours == 0..MaxClock
Rows == [id: Nat, body: Bodies(Times), at: Times]

Init ==
  /\ TreeInit
  /\ clock = 0
  /\ registered = FALSE /\ lastSeq = 0
  /\ rows = {}
  /\ count = [h \in Hours |-> 0]
  /\ slots = [h \in Hours |-> {}]
  /\ pending = [w \in Workers |-> NoBody]
  /\ resets = 0

Tick == /\ clock < MaxClock
        /\ clock' = clock + 1
        /\ UNCHANGED <<treeVars, oracleVars, pending, resets>>

TreeBoots == (Boot \/ PowerLoss) /\ UNCHANGED <<oracleVars, clock, pending, resets>>
TreePosts == Post(clock) /\ UNCHANGED <<oracleVars, clock, pending, resets>>

(****************************************************************************)
(* The other routes.                                                        *)
(****************************************************************************)

(* POST /register, and the first announce: a new row, or the old one with   *)
(* its replay watermark reset.                                              *)
Register ==
  /\ resets < MaxResets
  /\ registered' = TRUE
  /\ lastSeq' = 0
  /\ resets' = resets + 1
  /\ UNCHANGED <<treeVars, rows, count, slots, clock, pending>>

(* Variation: uptime_hours is left out of the deletion.                     *)
WrongDelete ==
  /\ registered /\ resets < MaxResets
  /\ registered' = FALSE /\ lastSeq' = 0
  /\ rows' = {}
  /\ resets' = resets + 1
  /\ UNCHANGED <<treeVars, count, slots, clock, pending>>

(* DELETE /nodes/{node_id}: the row and its children, in one transaction.   *)
Delete ==
  /\ registered /\ resets < MaxResets
  /\ registered' = FALSE /\ lastSeq' = 0
  /\ rows' = {}
  /\ count' = [h \in Hours |-> 0]
  /\ slots' = [h \in Hours |-> {}]
  /\ resets' = resets + 1
  /\ UNCHANGED <<treeVars, clock, pending>>

--------------------------------------------------------------------------------
(****************************************************************************)
(* post_reading.                                                            *)
(****************************************************************************)

(* Variation: the signature lookup is forgotten.                            *)
WrongKnown(b) == FALSE

(* The signature covers the whole body, so the same one means a duplicate.  *)
Known(b) == \E r \in rows : r.body = b

(* Authentication and the duplicate check.  An unregistered Tree gets 404,  *)
(* a duplicate 202 and no credit.                                           *)
Receive(w, b) ==
  /\ pending[w] = NoBody
  /\ b \in sent /\ registered /\ ~Known(b)
  /\ pending' = [pending EXCEPT ![w] = b]
  /\ UNCHANGED <<treeVars, oracleVars, clock, resets>>

(* UPDATE nodes ... WHERE last_seq < seq changed a row.                     *)
Advances(b) == registered /\ lastSeq < b.seq

Stale(b) == MaxAge > 0 /\ clock - b.ts > MaxAge

Answered(w) == /\ pending' = [pending EXCEPT ![w] = NoBody]
               /\ UNCHANGED <<treeVars, clock, resets>>

(* 409, with seq required.  Without, a row whose node was deleted meanwhile *)
(* fails when the node is touched.                                          *)
Refuse(w) ==
  /\ pending[w] # NoBody
  /\ ~Advances(pending[w]) /\ (RequireSeq \/ ~registered)
  /\ Answered(w)
  /\ UNCHANGED oracleVars

(* 422: the commit that counts the refusal commits the advance as well.     *)
RefuseStale(w) ==
  LET b == pending[w]
  IN /\ b # NoBody
     /\ registered /\ (Advances(b) \/ ~RequireSeq)
     /\ Stale(b)
     /\ lastSeq' = IF Advances(b) THEN b.seq ELSE lastSeq
     /\ Answered(w)
     /\ UNCHANGED <<registered, rows, count, slots>>

(* Variation: the hour of the Tree's clock is credited, not the oracle's.   *)
WrongBumpUptimeHour(b) ==
  /\ count' = [count EXCEPT ![HourOf(b.ts)] = @ + 1]
  /\ slots' = [slots EXCEPT ![HourOf(b.ts)] = @ \union {SlotOf(b.ts)}]

BumpUptimeHour(b) ==
  /\ count' = [count EXCEPT ![HourOf(clock)] = @ + 1]
  /\ slots' = [slots EXCEPT ![HourOf(clock)] = @ \union {SlotOf(clock)}]

Accept(w) ==
  LET b == pending[w]
  IN /\ b # NoBody
     /\ registered /\ (Advances(b) \/ ~RequireSeq)
     /\ ~Stale(b)
     /\ lastSeq' = IF Advances(b) THEN b.seq ELSE lastSeq
     /\ rows' = rows \union {[id |-> Cardinality(rows) + 1, body |-> b, at |-> clock]}
     /\ BumpUptimeHour(b)
     /\ Answered(w)
     /\ UNCHANGED registered

(* The server process dies and the request with it.                         *)
Die(w) ==
  /\ pending[w] # NoBody
  /\ Answered(w)
  /\ UNCHANGED oracleVars

Handle(w) == Refuse(w) \/ RefuseStale(w) \/ Accept(w)

Next ==
  \/ Tick \/ TreeBoots \/ TreePosts \/ Register \/ Delete
  \/ \E w \in Workers : Handle(w) \/ Die(w) \/ \E b \in sent : Receive(w, b)

Spec == Init /\ [][Next]_vars

(* While the Tree is up it posts every minute.  The network and the server  *)
(* do not fail its last body for ever, and a handler that does not die ends.*)
Newest(b) == b.boot = boot /\ b.nth = posts
FairSpec ==
  /\ Spec
  /\ WF_vars(TreePosts)
  /\ \A w \in Workers :
       /\ WF_vars(Handle(w))
       /\ SF_vars(\E b \in sent : Newest(b) /\ Receive(w, b))
       /\ SF_vars(pending[w] # NoBody /\ Newest(pending[w]) /\ Handle(w))

--------------------------------------------------------------------------------

(* hours_online_for: an hour counts with enough readings in enough slots.   *)
SpreadOK(h) == slots[h] = {} \/ Cardinality(slots[h]) >= MinSlots
CreditedHours == {h \in Hours : count[h] >= MinReadings /\ SpreadOK(h)}

(* The state is well typed.                                                 *)
TypeOK ==
  /\ TreeTypeOK(Times)
  /\ clock \in Times
  /\ registered \in BOOLEAN /\ lastSeq \in Nat
  /\ rows \subseteq Rows
  /\ count \in [Hours -> Nat]
  /\ slots \in [Hours -> SUBSET (0..(SlotsPerHour - 1))]
  /\ pending \in [Workers -> sent \union {NoBody}]
  /\ resets \in 0..MaxResets

(* No reading is counted twice, however often and late it is delivered and  *)
(* whatever happens to the Tree's row in between: hours are paid for.       *)
CountedOnce == \A r, s \in rows : r.body = s.body => r = s

(* The two tables agree: the counter and the slots of an hour are those of  *)
(* the readings received in it.                                             *)
ReceivedIn(h) == {r \in rows : HourOf(r.at) = h}
HoursMatchReadings ==
  \A h \in Hours :
    /\ count[h] = Cardinality(ReceivedIn(h))
    /\ slots[h] = {SlotOf(r.at) : r \in ReceivedIn(h)}

(* A credited hour was earned: so many different bodies of the Tree arrived *)
(* in it, at that many different times.                                     *)
CreditIsEarned ==
  \A h \in CreditedHours :
    /\ Cardinality({r.body : r \in ReceivedIn(h)}) >= MinReadings
    /\ Cardinality({r.at : r \in ReceivedIn(h)}) >= MinSlots

(* A registered Tree that stays up after a reboot is heard again: what the  *)
(* oracle holds of its earlier numbers does not lock it out.  The last body *)
(* the model has it post must not have gone stale.                          *)
HeardAgain ==
  <>[](/\ up /\ registered /\ boot = MaxBoots
       /\ \A b \in sent : Newest(b) => ~Stale(b)) =>
    <>[](\E r \in rows : r.body.boot = MaxBoots)

================================================================================

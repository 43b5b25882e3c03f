-------------------------- MODULE ReadingIngestProofs --------------------------
(****************************************************************************)
(* The Tree's numbers and the oracle's uptime, for every reservation, clock *)
(* and number of boots, deliveries, workers and registrations.              *)
(****************************************************************************)
EXTENDS ReadingIngest, FiniteSetTheorems, TLAPS

(****************************************************************************)
(* The Tree.  Flash is ahead of every number sent; and the n-th number of a *)
(* boot is less than a block, less n, behind what earlier boots have sent.  *)
(****************************************************************************)
FlashAhead == \A b \in sent : b.seq < stored

BlockBehind ==
  \A b, c \in sent : b.boot > c.boot => b.seq + Reserve > c.seq + b.nth

Resuming ==
  /\ stored = 0 \/ stored >= Reserve
  /\ mark = 0 => posts = 0
  /\ mark # 0 =>
       /\ mark = stored /\ counter < mark
       /\ \A c \in sent : c.boot < boot => counter + Reserve > c.seq + posts
  /\ \A b \in sent : b.boot <= boot

TreeInv == TreeTypeOK(Times) /\ FlashAhead /\ BlockBehind /\ Resuming

LEMMA TreeInitially == ASSUME Init PROVE TreeInv
<1>1. TreeTypeOK(Times)
  <2>1. up \in BOOLEAN
    BY Zenon DEF Init, TreeInit
  <2>2. boot \in 0..MaxBoots /\ posts \in 0..MaxPosts
    BY ReserveAssumption DEF Init, TreeInit
  <2>3. stored \in Nat /\ mark \in Nat /\ counter \in Nat /\ sent = {}
    BY DEF Init, TreeInit
  <2> QED BY <2>1, <2>2, <2>3 DEF TreeTypeOK
<1>2. FlashAhead /\ BlockBehind /\ Resuming
  BY DEF Init, TreeInit, FlashAhead, BlockBehind, Resuming
<1> QED BY <1>1, <1>2 DEF TreeInv

LEMMA NextNumber ==
  ASSUME TreeInv
  PROVE  /\ Loaded \in Nat /\ Loaded >= stored /\ Loaded >= Reserve
         /\ NextSeq \in Nat /\ NextSeq <= Loaded
         /\ NextMark \in Nat /\ NextMark > NextSeq /\ NextMark >= Loaded
         /\ \A c \in sent : c.boot < boot => NextSeq + Reserve > c.seq + posts + 1
<1> USE ReserveAssumption
<1>1. stored \in Nat /\ mark \in Nat /\ counter \in Nat /\ posts \in Nat
  BY DEF TreeInv, TreeTypeOK
<1>2. \A c \in sent : c.seq \in Nat /\ c.seq < stored
  BY DEF TreeInv, TreeTypeOK, FlashAhead, Bodies
<1>3. Resuming
  BY DEF TreeInv
<1>4. Loaded \in Nat /\ Loaded >= stored /\ Loaded >= Reserve
  BY <1>1, <1>3 DEF Resuming, Loaded
<1>5. NextSeq \in Nat /\ NextSeq <= Loaded
  BY <1>1, <1>3, <1>4 DEF Resuming, Loaded, NextSeq, Resumed
<1>6. NextMark \in Nat /\ NextMark > NextSeq /\ NextMark >= Loaded
  BY <1>4, <1>5 DEF NextMark
<1>7. ASSUME NEW c \in sent, c.boot < boot
      PROVE  NextSeq + Reserve > c.seq + posts + 1
  <2>1. CASE mark # 0
    BY <1>1, <1>2, <1>3, <1>7, <2>1 DEF Resuming, NextSeq, Resumed
  <2>2. CASE mark = 0
    BY <1>1, <1>2, <1>3, <2>2 DEF Resuming, NextSeq, Resumed, Loaded
  <2> QED BY <2>1, <2>2
<1> QED BY <1>4, <1>5, <1>6, <1>7

LEMMA TreeInductive ==
  ASSUME TreeInv, [TreeBoots \/ TreePosts]_treeVars, clock \in Times
  PROVE  TreeInv'
<1> USE ReserveAssumption
<1>1. CASE UNCHANGED treeVars
  BY <1>1
  DEF treeVars, TreeInv, TreeTypeOK, FlashAhead, BlockBehind, Resuming, Bodies
<1>2. CASE Boot
  BY <1>2
  DEF Boot, TreeInv, TreeTypeOK, FlashAhead, BlockBehind, Resuming, Bodies
<1>3. CASE PowerLoss
  BY <1>3
  DEF PowerLoss, TreeInv, TreeTypeOK, FlashAhead, BlockBehind, Resuming, Bodies
<1>4. CASE Post(clock)
  <2> DEFINE b == Body(clock)
  <2>1. /\ stored \in Nat /\ mark \in Nat /\ counter \in Nat
        /\ boot \in Nat /\ posts \in Nat
        /\ \A c \in sent : c.seq \in Nat /\ c.boot \in Nat /\ c.nth \in Nat
    BY DEF TreeInv, TreeTypeOK, Bodies
  <2>2. /\ b \in Bodies(Times)
        /\ b.seq = NextSeq /\ b.boot = boot /\ b.nth = posts + 1
    BY <2>1, NextNumber DEF Body, Bodies
  <2>3. /\ sent' = sent \union {b}
        /\ stored' = NextMark /\ mark' = NextMark /\ counter' = NextSeq
        /\ posts' = posts + 1 /\ boot' = boot /\ up' = up
    BY <1>4 DEF Post
  <2>4. TreeTypeOK(Times)'
    BY <1>4, <2>1, <2>2, <2>3, NextNumber DEF TreeInv, TreeTypeOK, Post, Bodies
  <2>5. FlashAhead'
    BY <2>1, <2>2, <2>3, NextNumber DEF TreeInv, FlashAhead
  <2>6. BlockBehind'
    <3> SUFFICES ASSUME NEW x \in sent', NEW c \in sent', x.boot > c.boot
                 PROVE  x.seq + Reserve > c.seq + x.nth
      BY DEF BlockBehind
    <3>1. CASE x \in sent /\ c \in sent
      BY <3>1 DEF TreeInv, BlockBehind
    <3>2. CASE x = b /\ c \in sent
      BY <2>1, <2>2, <3>2, NextNumber
    <3>3. CASE c = b
      BY <2>1, <2>2, <2>3, <3>3 DEF TreeInv, Resuming
    <3> QED BY <2>3, <3>1, <3>2, <3>3
  <2>7. Resuming'
    <3>1. NextMark >= Reserve /\ NextSeq < NextMark /\ NextMark # 0
      BY NextNumber
    <3>2. ASSUME NEW c \in sent', c.boot < boot
          PROVE  NextSeq + Reserve > c.seq + (posts + 1)
      BY <2>1, <2>2, <2>3, <3>2, NextNumber
    <3>3. \A c \in sent' : c.boot <= boot
      BY <2>1, <2>2, <2>3 DEF TreeInv, Resuming
    <3> QED BY <2>3, <3>1, <3>2, <3>3 DEF Resuming
  <2> QED BY <2>4, <2>5, <2>6, <2>7 DEF TreeInv
<1> QED BY <1>1, <1>2, <1>3, <1>4 DEF TreeBoots, TreePosts

--------------------------------------------------------------------------------
(****************************************************************************)
(* The oracle.                                                              *)
(****************************************************************************)
LEMMA HourIsHour == \A t \in Times : HourOf(t) \in Hours
<1>1. \A t \in Nat, n \in Nat \ {0} : t \div n \in 0..t
  OBVIOUS
<1> QED BY <1>1, IngestAssumption DEF HourOf, Hours, Times

LEMMA SlotIsSlot == \A t \in Times : SlotOf(t) \in 0..(SlotsPerHour - 1)
<1>1. \A t \in Nat, n \in Nat \ {0} : t % n \in 0..(n - 1)
  OBVIOUS
<1> QED BY <1>1, IngestAssumption DEF SlotOf, Times

NewRow(b) == [id |-> Cardinality(rows) + 1, body |-> b, at |-> clock]

FewRows ==
  /\ IsFiniteSet(rows)
  /\ \A r \in rows : r.id <= Cardinality(rows)

IngestInv == TreeInv /\ TypeOK /\ FewRows

LEMMA RowIsNew ==
  ASSUME IngestInv, NEW b \in sent
  PROVE  /\ NewRow(b) \in Rows /\ NewRow(b) \notin rows
         /\ IsFiniteSet(rows \union {NewRow(b)})
         /\ Cardinality(rows \union {NewRow(b)}) = Cardinality(rows) + 1
<1>1. Cardinality(rows) \in Nat
  BY FS_CardinalityType DEF IngestInv, FewRows
<1>2. NewRow(b) \notin rows
  BY <1>1 DEF IngestInv, FewRows, NewRow
<1>3. NewRow(b) \in Rows
  BY <1>1 DEF IngestInv, TypeOK, TreeTypeOK, NewRow, Rows
<1> QED BY <1>2, <1>3, FS_AddElement DEF IngestInv, FewRows

LEMMA NextMovesTree ==
  ASSUME [Next]_vars
  PROVE  [TreeBoots \/ TreePosts]_treeVars
  BY DEF Next, vars, Tick, Register, Delete, Handle, Refuse, RefuseStale, Accept,
         Die, Receive, Answered

(* The steps of the oracle, apart from the Tree's.                          *)
LEMMA IngestInductive ==
  ASSUME IngestInv, [Next]_vars
  PROVE  IngestInv'
<1> USE IngestAssumption
<1>1. TreeInv'
  BY NextMovesTree, TreeInductive DEF IngestInv, TypeOK
<1>2. TreeTypeOK(Times)'
  BY <1>1 DEF TreeInv
<1>3. sent \subseteq sent'
  BY NextMovesTree
  DEF treeVars, TreeBoots, TreePosts, Boot, PowerLoss, Post
<1>4. CASE UNCHANGED vars
  BY <1>1, <1>2, <1>4 DEF vars, oracleVars, treeVars, IngestInv, TypeOK, FewRows
<1>5. CASE Tick
  BY <1>1, <1>2, <1>5
  DEF Tick, oracleVars, treeVars, IngestInv, TypeOK, FewRows, Times
<1>6. CASE TreeBoots \/ TreePosts
  BY <1>1, <1>2, <1>3, <1>6
  DEF TreeBoots, TreePosts, oracleVars, IngestInv, TypeOK, FewRows
<1>7. CASE Register
  BY <1>1, <1>2, <1>7 DEF Register, treeVars, IngestInv, TypeOK, FewRows
<1>8. CASE Delete
  <2>1. registered' \in BOOLEAN
    BY <1>8, Zenon DEF Delete
  <2>2. resets' \in 0..MaxResets
    BY <1>8 DEF Delete, IngestInv, TypeOK
  <2>3. /\ lastSeq' \in Nat /\ rows' \subseteq Rows
        /\ count' \in [Hours -> Nat]
        /\ slots' \in [Hours -> SUBSET (0..(SlotsPerHour - 1))]
        /\ clock' \in Times /\ pending' \in [Workers -> sent' \union {NoBody}]
    BY <1>8 DEF Delete, treeVars, IngestInv, TypeOK
  <2>4. FewRows'
    BY <1>8, FS_EmptySet DEF Delete, FewRows
  <2> QED BY <1>1, <1>2, <2>1, <2>2, <2>3, <2>4 DEF IngestInv, TypeOK
<1>9. ASSUME NEW w \in Workers, Refuse(w) \/ Die(w) PROVE IngestInv'
  BY <1>1, <1>2, <1>9
  DEF Refuse, Die, Answered, oracleVars, treeVars, IngestInv, TypeOK, FewRows
<1>10. ASSUME NEW w \in Workers, NEW b \in sent, Receive(w, b) PROVE IngestInv'
  BY <1>1, <1>2, <1>10
  DEF Receive, oracleVars, treeVars, IngestInv, TypeOK, FewRows
<1>11. ASSUME NEW w \in Workers, pending[w] # NoBody
       PROVE  pending[w] \in sent /\ pending[w].seq \in Nat
  BY <1>11 DEF IngestInv, TypeOK, TreeTypeOK, Bodies
<1>12. ASSUME NEW w \in Workers, RefuseStale(w) PROVE IngestInv'
  BY <1>1, <1>2, <1>11, <1>12
  DEF RefuseStale, Answered, treeVars, IngestInv, TypeOK, FewRows
<1>13. ASSUME NEW w \in Workers, Accept(w) PROVE IngestInv'
  <2>1. pending[w] \in sent /\ pending[w].seq \in Nat
    BY <1>11, <1>13 DEF Accept
  <2>2. rows' = rows \union {NewRow(pending[w])}
    BY <1>13 DEF Accept, NewRow
  <2>3. FewRows'
    <3>1. Cardinality(rows) \in Nat
      BY FS_CardinalityType DEF IngestInv, FewRows
    <3>2. NewRow(pending[w]).id = Cardinality(rows) + 1
      BY DEF NewRow
    <3> QED BY <2>1, <2>2, <3>1, <3>2, RowIsNew DEF IngestInv, FewRows, TypeOK, Rows
  <2>4. count' \in [Hours -> Nat]
    BY <1>13, HourIsHour DEF Accept, BumpUptimeHour, IngestInv, TypeOK
  <2>5. slots' \in [Hours -> SUBSET (0..(SlotsPerHour - 1))]
    BY <1>13, HourIsHour, SlotIsSlot
    DEF Accept, BumpUptimeHour, IngestInv, TypeOK
  <2>6. rows' \subseteq Rows /\ lastSeq' \in Nat
    BY <1>13, <2>1, <2>2, RowIsNew DEF Accept, IngestInv, TypeOK
  <2> QED
    BY <1>1, <1>2, <1>3, <1>13, <2>3, <2>4, <2>5, <2>6
    DEF Accept, Answered, treeVars, IngestInv, TypeOK
<1> QED
  BY <1>4, <1>5, <1>6, <1>7, <1>8, <1>9, <1>10, <1>12, <1>13 DEF Next, Handle

LEMMA IngestInitially == ASSUME Init PROVE IngestInv
<1>1. TypeOK
  <2>1. registered \in BOOLEAN
    BY Zenon DEF Init
  <2>2. clock \in Times /\ resets \in 0..MaxResets /\ lastSeq \in Nat /\ rows = {}
    BY IngestAssumption DEF Init, Times
  <2>3. /\ count \in [Hours -> Nat]
        /\ slots \in [Hours -> SUBSET (0..(SlotsPerHour - 1))]
        /\ pending \in [Workers -> sent \union {NoBody}]
    BY DEF Init
  <2> QED BY <2>1, <2>2, <2>3, TreeInitially DEF TreeInv, TypeOK
<1> QED BY <1>1, TreeInitially, FS_EmptySet DEF Init, IngestInv, FewRows

LEMMA IngestInvariant == Spec => []IngestInv
  BY IngestInitially, IngestInductive, PTL DEF Spec

(* The state of the Tree and of the oracle is well typed.                   *)
THEOREM TypeCorrect == Spec => []TypeOK
<1>1. IngestInv => TypeOK
  BY DEF IngestInv
<1> QED BY <1>1, IngestInvariant, PTL

(* Whatever the Tree has used before a reboot, one block of numbers after   *)
(* it is past it, however often it rebooted before that (next_seq).         *)
THEOREM BlockCatchesUp == Spec => []CatchesUp
<1>1. ASSUME IngestInv PROVE CatchesUp
  <2>1. \A b \in sent : b.seq \in Nat /\ b.nth \in Nat
    BY <1>1 DEF IngestInv, TypeOK, TreeTypeOK, Bodies
  <2> QED
    BY <1>1, <2>1, ReserveAssumption DEF IngestInv, TreeInv, BlockBehind, CatchesUp
<1> QED BY <1>1, IngestInvariant, PTL

--------------------------------------------------------------------------------
(****************************************************************************)
(* The hours.                                                               *)
(****************************************************************************)
LEMMA AcceptedRow ==
  ASSUME IngestInv, NEW w \in Workers, Accept(w)
  PROVE  /\ pending[w] \in sent
         /\ rows' = rows \union {NewRow(pending[w])}
         /\ HourOf(clock) \in Hours
         /\ \A h \in Hours :
              ReceivedIn(h)' = IF h = HourOf(clock)
                                 THEN ReceivedIn(h) \union {NewRow(pending[w])}
                                 ELSE ReceivedIn(h)
<1>1. pending[w] \in sent
  BY DEF Accept, IngestInv, TypeOK
<1>2. rows' = rows \union {NewRow(pending[w])}
  BY DEF Accept, NewRow
<1>3. NewRow(pending[w]).at = clock
  BY DEF NewRow
<1>4. HourOf(clock) \in Hours
  BY HourIsHour DEF IngestInv, TypeOK
<1>5. ASSUME NEW h \in Hours
      PROVE  ReceivedIn(h)' = IF h = HourOf(clock)
                                THEN ReceivedIn(h) \union {NewRow(pending[w])}
                                ELSE ReceivedIn(h)
  <2>1. ReceivedIn(h)' = {r \in rows' : HourOf(r.at) = h}
    BY DEF ReceivedIn, HourOf
  <2> QED BY <1>2, <1>3, <2>1 DEF ReceivedIn
<1> QED BY <1>1, <1>2, <1>4, <1>5

LEMMA HoursInductive ==
  ASSUME IngestInv, HoursMatchReadings, [Next]_vars
  PROVE  HoursMatchReadings'
<1>1. ASSUME rows' = rows, count' = count, slots' = slots
      PROVE  HoursMatchReadings'
  BY <1>1 DEF HoursMatchReadings, ReceivedIn, HourOf, SlotOf
<1>2. CASE Delete
  <2>1. \A h : ReceivedIn(h)' = {}
    BY <1>2 DEF Delete, ReceivedIn
  <2>2. \A h \in Hours : count'[h] = 0 /\ slots'[h] = {}
    BY <1>2 DEF Delete
  <2> QED BY <2>1, <2>2, FS_EmptySet DEF HoursMatchReadings
<1>3. ASSUME NEW w \in Workers, Accept(w) PROVE HoursMatchReadings'
  <2> DEFINE b == pending[w]
  <2>1. count \in [Hours -> Nat] /\ slots \in [Hours -> SUBSET (0..(SlotsPerHour - 1))]
    BY DEF IngestInv, TypeOK
  <2>2. /\ count' = [count EXCEPT ![HourOf(clock)] = @ + 1]
        /\ slots' = [slots EXCEPT ![HourOf(clock)] = @ \union {SlotOf(clock)}]
    BY <1>3 DEF Accept, BumpUptimeHour
  <2>3. ASSUME NEW h \in Hours, h # HourOf(clock)
        PROVE  /\ count'[h] = Cardinality(ReceivedIn(h)')
               /\ slots'[h] = {SlotOf(r.at) : r \in ReceivedIn(h)'}
    BY <1>3, <2>1, <2>2, <2>3, AcceptedRow DEF HoursMatchReadings
  <2>4. ASSUME NEW h \in Hours, h = HourOf(clock)
        PROVE  /\ count'[h] = Cardinality(ReceivedIn(h)')
               /\ slots'[h] = {SlotOf(r.at) : r \in ReceivedIn(h)'}
    <3>1. ReceivedIn(h)' = ReceivedIn(h) \union {NewRow(b)}
      BY <1>3, <2>4, AcceptedRow
    <3>2. IsFiniteSet(ReceivedIn(h)) /\ NewRow(b) \notin ReceivedIn(h)
      BY <1>3, AcceptedRow, RowIsNew, FS_Subset DEF ReceivedIn, IngestInv, FewRows
    <3>3. count'[h] = count[h] + 1 /\ count[h] = Cardinality(ReceivedIn(h))
      BY <2>1, <2>2, <2>4 DEF HoursMatchReadings
    <3>4. Cardinality(ReceivedIn(h) \union {NewRow(b)}) = Cardinality(ReceivedIn(h)) + 1
      BY <3>2, FS_AddElement
    <3>5. slots'[h] = slots[h] \union {SlotOf(clock)}
      BY <2>1, <2>2, <2>4
    <3>6. slots[h] = {SlotOf(r.at) : r \in ReceivedIn(h)}
      BY <2>4 DEF HoursMatchReadings
    <3>7. NewRow(b).at = clock
      BY DEF NewRow
    <3>8. slots'[h] = {SlotOf(r.at) : r \in ReceivedIn(h)'}
      BY <3>1, <3>5, <3>6, <3>7
    <3> QED BY <3>1, <3>3, <3>4, <3>8
  <2>5. \A h \in Hours : /\ count'[h] = Cardinality(ReceivedIn(h)')
                         /\ slots'[h] = {SlotOf(r.at) : r \in ReceivedIn(h)'}
    BY <2>3, <2>4
  <2> QED BY <2>5 DEF HoursMatchReadings, SlotOf
<1>4. CASE UNCHANGED vars
  BY <1>1, <1>4 DEF vars, oracleVars
<1>5. CASE Tick \/ TreeBoots \/ TreePosts \/ Register
  BY <1>1, <1>5 DEF Tick, TreeBoots, TreePosts, Register, oracleVars
<1>6. ASSUME NEW w \in Workers,
             Refuse(w) \/ RefuseStale(w) \/ Die(w) \/ \E b \in sent : Receive(w, b)
      PROVE  HoursMatchReadings'
  BY <1>1, <1>6 DEF Refuse, RefuseStale, Die, Receive, oracleVars
<1> QED BY <1>2, <1>3, <1>4, <1>5, <1>6 DEF Next, Handle

(* The counter and the slots of every hour are those of the readings        *)
(* received in it (_bump_uptime_hour), with any number of server processes. *)
THEOREM UptimeMatches == Spec => []HoursMatchReadings
<1>1. Init => HoursMatchReadings
  BY FS_EmptySet DEF Init, HoursMatchReadings, ReceivedIn
<1> QED BY <1>1, IngestInvariant, HoursInductive, PTL DEF Spec

--------------------------------------------------------------------------------
(****************************************************************************)
(* A reading counts once.  With one server process the signature lookup is  *)
(* enough; with several the sequence number does it, until a registration   *)
(* resets it while the Tree has readings.                                   *)
(****************************************************************************)
OneWorker == \A v, w \in Workers : v = w

OnceInv ==
  /\ CountedOnce
  /\ \A w \in Workers : pending[w] # NoBody => ~Known(pending[w])

LEMMA OnceInductive ==
  ASSUME OneWorker, IngestInv, OnceInv, [Next]_vars
  PROVE  OnceInv'
<1>1. pending \in [Workers -> sent \union {NoBody}]
  BY DEF IngestInv, TypeOK
<1>2. CASE UNCHANGED <<rows, pending>>
  BY <1>2 DEF OnceInv, CountedOnce, Known
<1>3. CASE Delete
  BY <1>3 DEF Delete, OnceInv, CountedOnce, Known
<1>4. ASSUME NEW w \in Workers, NEW b \in sent, Receive(w, b) PROVE OnceInv'
  BY <1>1, <1>4 DEF Receive, OnceInv, CountedOnce, Known, oracleVars
<1>5. ASSUME NEW w \in Workers, Refuse(w) \/ RefuseStale(w) \/ Die(w) PROVE OnceInv'
  BY <1>1, <1>5
  DEF Refuse, RefuseStale, Die, Answered, OnceInv, CountedOnce, Known, oracleVars
<1>6. ASSUME NEW w \in Workers, Accept(w) PROVE OnceInv'
  <2>1. rows' = rows \union {NewRow(pending[w])} /\ ~Known(pending[w])
    BY <1>6, AcceptedRow DEF Accept, OnceInv
  <2>2. NewRow(pending[w]).body = pending[w]
    BY DEF NewRow
  <2>3. CountedOnce'
    BY <2>1, <2>2 DEF OnceInv, CountedOnce, Known
  <2>4. \A v \in Workers : pending'[v] = NoBody
    BY <1>1, <1>6 DEF Accept, Answered, OneWorker
  <2> QED BY <2>3, <2>4 DEF OnceInv
<1> QED
  BY <1>2, <1>3, <1>4, <1>5, <1>6
  DEF Next, Handle, vars, oracleVars, Tick, TreeBoots, TreePosts, Register

(* One server process never counts a reading twice, whether or not sequence *)
(* numbers are required and however often the Tree is registered.           *)
THEOREM OneWorkerCountsOnce == ASSUME OneWorker PROVE Spec => []CountedOnce
<1>1. Init => OnceInv
  BY DEF Init, OnceInv, CountedOnce
<1>2. OnceInv => CountedOnce
  BY DEF OnceInv
<1> QED BY <1>1, <1>2, IngestInvariant, OnceInductive, PTL DEF Spec

RegisteredOnce == RequireSeq /\ MaxResets <= 1

SeqInv ==
  /\ CountedOnce
  /\ \A r \in rows : r.body.seq <= lastSeq
  /\ resets = 0 => ~registered /\ rows = {}

LEMMA SeqInductive ==
  ASSUME RegisteredOnce, IngestInv, SeqInv, [Next]_vars
  PROVE  SeqInv'
<1> USE IngestAssumption
<1>1. /\ resets \in Nat /\ lastSeq \in Nat
      /\ \A r \in rows : r.body.seq \in Nat
  BY DEF IngestInv, TypeOK, Rows, Bodies
<1>2. CASE UNCHANGED <<rows, lastSeq, registered, resets>>
  BY <1>2 DEF SeqInv, CountedOnce
<1>3. CASE Register
  BY <1>1, <1>3 DEF Register, SeqInv, CountedOnce, RegisteredOnce
<1>4. CASE Delete
  BY <1>1, <1>4 DEF Delete, SeqInv, CountedOnce, RegisteredOnce
<1>5. ASSUME NEW w \in Workers, pending[w] # NoBody PROVE pending[w].seq \in Nat
  BY <1>5 DEF IngestInv, TypeOK, TreeTypeOK, Bodies
<1>6. ASSUME NEW w \in Workers, RefuseStale(w) PROVE SeqInv'
  BY <1>1, <1>5, <1>6
  DEF RefuseStale, Answered, Advances, SeqInv, CountedOnce
<1>7. ASSUME NEW w \in Workers, Accept(w) PROVE SeqInv'
  <2>1. /\ rows' = rows \union {NewRow(pending[w])}
        /\ lastSeq < pending[w].seq /\ lastSeq' = pending[w].seq
        /\ registered /\ UNCHANGED <<registered, resets>>
    BY <1>7, AcceptedRow DEF Accept, Answered, Advances, RegisteredOnce
  <2>2. NewRow(pending[w]).body = pending[w] /\ pending[w].seq \in Nat
    BY <1>5, <1>7 DEF NewRow, Accept
  <2> QED BY <1>1, <2>1, <2>2 DEF SeqInv, CountedOnce
<1> QED
  BY <1>2, <1>3, <1>4, <1>6, <1>7
  DEF Next, Handle, vars, oracleVars, Tick, TreeBoots, TreePosts, Refuse, Die, Receive,
      Answered

(* Any number of server processes count a reading once when sequence        *)
(* numbers are required and the Tree is registered once.                    *)
THEOREM SequenceCountsOnce == ASSUME RegisteredOnce PROVE Spec => []CountedOnce
<1>1. Init => SeqInv
  BY Zenon DEF Init, SeqInv, CountedOnce
<1>2. SeqInv => CountedOnce
  BY DEF SeqInv
<1> QED BY <1>1, <1>2, IngestInvariant, SeqInductive, PTL DEF Spec

--------------------------------------------------------------------------------
(****************************************************************************)
(* What an hour is credited for.                                            *)
(****************************************************************************)
LEMMA ImageCardinality ==
  ASSUME NEW S, NEW T, NEW f \in [S -> T], IsFiniteSet(S), T = {f[x] : x \in S}
  PROVE  /\ IsFiniteSet(T) /\ Cardinality(T) <= Cardinality(S)
         /\ (\A x, y \in S : f[x] = f[y] => x = y) => Cardinality(T) = Cardinality(S)
<1>1. f \in Surjection(S, T)
  BY DEF Surjection
<1>2. (\A x, y \in S : f[x] = f[y] => x = y) => f \in Injection(S, T)
  BY DEF Injection, IsInjective
<1> QED BY <1>1, <1>2, FS_Surjection

LEMMA EarnedHour ==
  ASSUME IngestInv, HoursMatchReadings, CountedOnce
  PROVE  CreditIsEarned
<1> USE IngestAssumption
<1> SUFFICES ASSUME NEW h \in CreditedHours
             PROVE  /\ Cardinality({r.body : r \in ReceivedIn(h)}) >= MinReadings
                    /\ Cardinality({r.at : r \in ReceivedIn(h)}) >= MinSlots
  BY DEF CreditIsEarned
<1> DEFINE R == ReceivedIn(h)
<1> DEFINE bodies == {r.body : r \in R}
<1> DEFINE ats == {r.at : r \in R}
<1>1. IsFiniteSet(R) /\ R \subseteq rows
  BY FS_Subset DEF ReceivedIn, IngestInv, FewRows
<1>2. /\ h \in Hours /\ count[h] >= MinReadings /\ SpreadOK(h)
      /\ count[h] = Cardinality(R) /\ slots[h] = {SlotOf(r.at) : r \in R}
  BY DEF CreditedHours, HoursMatchReadings
<1>3. Cardinality(bodies) = Cardinality(R)
  <2> DEFINE f == [r \in R |-> r.body]
  <2> HIDE DEF R
  <2>1. f \in [R -> bodies] /\ bodies = {f[r] : r \in R}
    OBVIOUS
  <2>2. \A r, s \in R : f[r] = f[s] => r = s
    BY <1>1 DEF CountedOnce
  <2> HIDE DEF f, bodies
  <2> QED BY <1>1, <2>1, <2>2, ImageCardinality
<1>4. IsFiniteSet(ats)
  <2> DEFINE f == [r \in R |-> r.at]
  <2> HIDE DEF R
  <2>1. f \in [R -> ats] /\ ats = {f[r] : r \in R}
    OBVIOUS
  <2> HIDE DEF f, ats
  <2> QED BY <1>1, <2>1, ImageCardinality
<1>5. IsFiniteSet(slots[h]) /\ Cardinality(slots[h]) <= Cardinality(ats)
  <2> DEFINE f == [t \in ats |-> SlotOf(t)]
  <2>1. slots[h] = {SlotOf(t) : t \in ats}
    BY <1>2
  <2> HIDE DEF ats
  <2>2. f \in [ats -> slots[h]] /\ slots[h] = {f[t] : t \in ats}
    BY <2>1
  <2> HIDE DEF f
  <2> QED BY <1>4, <2>2, ImageCardinality
<1>6. Cardinality(slots[h]) >= MinSlots
  <2>1. R # {}
    BY <1>1, <1>2, FS_EmptySet
  <2>2. slots[h] # {}
    BY <1>2, <2>1
  <2> QED BY <1>2, <2>2 DEF SpreadOK
<1>7. Cardinality(slots[h]) \in Nat /\ Cardinality(ats) \in Nat
  BY <1>4, <1>5, FS_CardinalityType
<1> QED BY <1>2, <1>3, <1>5, <1>6, <1>7

(* With one server process every credited hour (hours_online_for) stands on *)
(* as many different readings, received at as many different times, as the  *)
(* thresholds ask for.                                                      *)
THEOREM CreditEarned == ASSUME OneWorker PROVE Spec => []CreditIsEarned
  BY OneWorkerCountsOnce, UptimeMatches, IngestInvariant, EarnedHour, PTL

================================================================================

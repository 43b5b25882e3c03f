--------------------------- MODULE TreeRegistryProofs ---------------------------
(****************************************************************************)
(* That the nodes and claims tables stay together, for any number of Trees, *)
(* operators, deletions and crashes, where a Tree is set up in one way and  *)
(* one with a code is not deleted by its owner.                             *)
(****************************************************************************)
EXTENDS TreeRegistry, TLAPS

Separate == Coded \cap Wired = {} /\ Coded \cap Released = {}

Requests == [kind: {"claim", "register", "delete"}, seen: Wallets \union {NoRow, Unbound}]
Announces == [kind: {"announce"}, seen: Wallets \union {NoRow, Unbound},
              code: {"none", "open", "consumed"}, heard: BOOLEAN]

(* The rows and what the handlers hold have their types.                    *)
Typed ==
  /\ node \in [Trees -> Wallets \union {NoRow, Unbound}]
  /\ claim \in [Trees -> {"none", "open", "consumed"}]
  /\ announce \in [Trees -> Announces \union {Idle}]
  /\ request \in [Trees -> [Wallets -> Requests \union {Idle}]]

(* An announce has read rows that agree, and is of a Tree with a code.      *)
ReadsAgree ==
  \A t \in Trees : announce[t] # Idle =>
    /\ t \in Coded
    /\ announce[t].seen = NoRow <=> announce[t].code = "none"

(* Who may have asked for what.                                             *)
AskedRightly ==
  \A t \in Trees, w \in Wallets :
    /\ request[t][w].kind = "register" => t \in Wired
    /\ request[t][w].kind = "delete" => t \in Released

ClaimsAreCoded == \A t \in Trees : claim[t] # "none" => t \in Coded

IInv == Typed /\ ReadsAgree /\ AskedRightly /\ ClaimsAreCoded /\ TablesAgree /\ ConsumedIsBound

LEMMA InitIInv == Init => IInv
  BY TreesAssumption
  DEF Init, IInv, Typed, ReadsAgree, AskedRightly, ClaimsAreCoded, TablesAgree, ConsumedIsBound,
      NoAnnounces, NoRequests, Idle

(* Steps that write neither table nor begin anything keep the invariant.    *)
LEMMA FrameIInv ==
  ASSUME IInv, UNCHANGED <<node, claim, announce, request>>
  PROVE  IInv'
  BY DEF IInv, Typed, ReadsAgree, AskedRightly, ClaimsAreCoded, TablesAgree, ConsumedIsBound

(* A step that touches the rows of one Tree has to care for that one only.  *)
LEMMA OneTree ==
  ASSUME IInv, NEW t \in Trees,
         \A u \in Trees \ {t} : node'[u] = node[u] /\ claim'[u] = claim[u],
         claim'[t] # "none" => t \in Coded,
         t \in Coded => (node'[t] = NoRow <=> claim'[t] = "none"),
         claim'[t] = "consumed" => node'[t] \in Wallets
  PROVE  ClaimsAreCoded' /\ TablesAgree' /\ ConsumedIsBound'
<1>1. ClaimsAreCoded'
  BY DEF IInv, ClaimsAreCoded
<1>2. TablesAgree'
  BY TreesAssumption DEF IInv, TablesAgree
<1>3. ConsumedIsBound'
  BY DEF IInv, ConsumedIsBound
<1> QED
  BY <1>1, <1>2, <1>3

LEMMA TreeIInv ==
  ASSUME IInv, NEW t \in Trees, Tree(t)
  PROVE  IInv'
<1>1. CASE TreeAnnounces(t)
  <2>1. UNCHANGED <<node, claim, request>>
    BY <1>1 DEF TreeAnnounces, tables
  <2> DEFINE new == [kind |-> "announce", seen |-> node[t], code |-> claim[t], heard |-> TRUE]
  <2>2. t \in Coded /\ announce' = [announce EXCEPT ![t] = new]
    BY <1>1 DEF TreeAnnounces
  <2>3. new \in Announces
    BY DEF IInv, Typed, Announces
  <2>4. node[t] = NoRow <=> claim[t] = "none"
    BY <2>2 DEF IInv, TablesAgree
  <2>5. Typed'
    BY <2>1, <2>2, <2>3 DEF IInv, Typed
  <2>6. ReadsAgree'
    BY <2>1, <2>2, <2>3, <2>4 DEF IInv, Typed, ReadsAgree
  <2> QED
    BY <2>1, <2>5, <2>6 DEF IInv, AskedRightly, ClaimsAreCoded, TablesAgree, ConsumedIsBound
<1>2. CASE AnnounceTimesOut(t)
  <2>1. UNCHANGED <<node, claim, request>>
    BY <1>2 DEF AnnounceTimesOut, tables
  <2>2. announce' = [announce EXCEPT ![t].heard = FALSE]
    BY <1>2 DEF AnnounceTimesOut
  <2>3. Typed' /\ ReadsAgree'
    <3>1. CASE announce[t] = Idle
      <4>1. announce'[t] = Idle
        BY <3>1, <2>2 DEF IInv, Typed, Idle
      <4> QED BY <2>1, <2>2, <4>1 DEF IInv, Typed, ReadsAgree
    <3>2. CASE announce[t] # Idle
      <4>1. announce[t] \in Announces
        BY <3>2 DEF IInv, Typed
      <4>2. /\ announce'[t] \in Announces
            /\ announce'[t].seen = announce[t].seen /\ announce'[t].code = announce[t].code
        BY <2>2, <4>1 DEF IInv, Typed, Announces
      <4> QED BY <2>1, <2>2, <3>2, <4>2 DEF IInv, Typed, ReadsAgree
    <3> QED BY <3>1, <3>2
  <2> QED
    BY <2>1, <2>3 DEF IInv, AskedRightly, ClaimsAreCoded, TablesAgree, ConsumedIsBound
<1>3. CASE AnnounceFails(t) \/ Poll(t) \/ PollFails(t) \/ Configure(t)
  BY <1>3, FrameIInv DEF AnnounceFails, Poll, PollFails, Configure, tables
<1> QED
  BY <1>1, <1>2, <1>3 DEF Tree

LEMMA AnnounceWritesIInv ==
  ASSUME IInv, NEW t \in Trees, AnnounceWrites(t)
  PROVE  IInv'
<1> DEFINE r == announce[t]
<1>1. /\ r # Idle /\ r \in Announces /\ t \in Coded
      /\ r.seen = NoRow <=> r.code = "none"
  BY DEF AnnounceWrites, IInv, Typed, ReadsAgree
<1>2. request' = request /\ announce' = [announce EXCEPT ![t] = Idle]
  BY DEF AnnounceWrites
<1>3. /\ node \in [Trees -> Wallets \union {NoRow, Unbound}]
      /\ claim \in [Trees -> {"none", "open", "consumed"}]
      /\ NoRow # Unbound /\ Unbound \notin Wallets /\ NoRow \notin Wallets
  BY TreesAssumption DEF IInv, Typed
<1>4. \/ UNCHANGED <<node, claim>>
      \/ /\ r.seen = NoRow /\ node[t] = NoRow /\ claim[t] = "none"
         /\ node' = [node EXCEPT ![t] = Unbound]
         /\ claim' = [claim EXCEPT ![t] = "open"]
  <2>1. CASE UNCHANGED tables
    BY <2>1 DEF tables
  <2>2. CASE ~UNCHANGED tables
    <3>1. /\ ~Overtaken(t, r)
          /\ node' = [node EXCEPT ![t] = IF r.seen = NoRow THEN Unbound ELSE @]
          /\ claim' = [claim EXCEPT ![t] = IF r.code = "none" THEN "open" ELSE @]
      BY <2>2 DEF AnnounceWrites
    <3>2. CASE r.seen = NoRow
      BY <1>1, <3>1, <3>2 DEF Overtaken
    <3>3. CASE r.seen # NoRow
      BY <1>1, <1>3, <3>1, <3>3
    <3> QED BY <3>2, <3>3
  <2> QED BY <2>1, <2>2
<1>5. Typed' /\ ReadsAgree'
  <2>1. /\ node' \in [Trees -> Wallets \union {NoRow, Unbound}]
        /\ claim' \in [Trees -> {"none", "open", "consumed"}]
    BY <1>3, <1>4
  <2>2. Typed'
    BY <1>2, <2>1 DEF IInv, Typed
  <2>3. ReadsAgree'
    BY <1>2 DEF IInv, Typed, ReadsAgree
  <2> QED BY <2>2, <2>3
<1>6. AskedRightly'
  BY <1>2 DEF IInv, AskedRightly
<1>7. ClaimsAreCoded' /\ TablesAgree' /\ ConsumedIsBound'
  <2>1. CASE UNCHANGED <<node, claim>>
    BY <2>1 DEF IInv, ClaimsAreCoded, TablesAgree, ConsumedIsBound
  <2>2. CASE ~UNCHANGED <<node, claim>>
    <3>1. /\ node'[t] = Unbound /\ claim'[t] = "open"
          /\ \A u \in Trees \ {t} : node'[u] = node[u] /\ claim'[u] = claim[u]
      BY <1>3, <1>4, <2>2
    <3> QED BY <1>1, <1>3, <3>1, OneTree
  <2> QED BY <2>1, <2>2
<1> QED
  BY <1>5, <1>6, <1>7 DEF IInv

LEMMA ReadsIInv ==
  ASSUME IInv, NEW t \in Trees, NEW w \in Wallets, Reads(t, w)
  PROVE  IInv'
<1>1. UNCHANGED <<node, claim, announce>>
  BY DEF Reads, ClaimReads, RegisterReads, DeleteReads, tables
<1>2. PICK k \in {"claim", "register", "delete"} :
        /\ request' = [request EXCEPT ![t][w] = [kind |-> k, seen |-> node[t]]]
        /\ k = "register" => t \in Wired
        /\ k = "delete" => t \in Released
  BY DEF Reads, ClaimReads, RegisterReads, DeleteReads, Begin
<1>3. [kind |-> k, seen |-> node[t]] \in Requests
  BY DEF IInv, Typed, Requests
<1>4. Typed' /\ AskedRightly'
  BY <1>1, <1>2, <1>3 DEF IInv, Typed, AskedRightly
<1> QED
  BY <1>1, <1>4 DEF IInv, ReadsAgree, ClaimsAreCoded, TablesAgree, ConsumedIsBound

LEMMA WritesIInv ==
  ASSUME Separate, IInv, NEW t \in Trees, NEW w \in Wallets, Writes(t, w)
  PROVE  IInv'
<1>1. /\ request' = [request EXCEPT ![t][w] = Idle]
      /\ announce' = announce
  BY DEF Writes, ClaimWrites, RegisterWrites, DeleteWrites, End
<1>2. /\ node \in [Trees -> Wallets \union {NoRow, Unbound}]
      /\ claim \in [Trees -> {"none", "open", "consumed"}]
      /\ NoRow # Unbound /\ Unbound \notin Wallets /\ NoRow \notin Wallets
  BY TreesAssumption DEF IInv, Typed
<1>3. /\ request' \in [Trees -> [Wallets -> Requests \union {Idle}]]
      /\ AskedRightly'
  BY <1>1 DEF IInv, Typed, AskedRightly, Idle
<1>4. /\ ReadsAgree'
      /\ announce' \in [Trees -> Announces \union {Idle}]
  BY <1>1 DEF IInv, Typed, ReadsAgree
<1>5. CASE ClaimWrites(t, w)
  <2>1. \/ UNCHANGED <<node, claim>>
        \/ /\ claim[t] = "open"
           /\ claim' = [claim EXCEPT ![t] = "consumed"]
           /\ node' = [node EXCEPT ![t] = IF @ = NoRow THEN @ ELSE w]
    BY <1>5 DEF ClaimWrites, tables
  <2>2. claim[t] = "open" => t \in Coded /\ node[t] # NoRow
    BY DEF IInv, ClaimsAreCoded, TablesAgree
  <2>3. ClaimsAreCoded' /\ TablesAgree' /\ ConsumedIsBound'
    <3>1. CASE UNCHANGED <<node, claim>>
      BY <3>1 DEF IInv, ClaimsAreCoded, TablesAgree, ConsumedIsBound
    <3>2. CASE ~UNCHANGED <<node, claim>>
      <4>1. /\ t \in Coded /\ node'[t] = w /\ claim'[t] = "consumed"
            /\ \A u \in Trees \ {t} : node'[u] = node[u] /\ claim'[u] = claim[u]
        BY <1>2, <2>1, <2>2, <3>2
      <4> QED BY <1>2, <4>1, OneTree
    <3> QED BY <3>1, <3>2
  <2>4. Typed'
    BY <1>2, <1>3, <1>4, <2>1 DEF Typed
  <2> QED BY <1>3, <1>4, <2>3, <2>4 DEF IInv
<1>6. CASE RegisterWrites(t, w) \/ DeleteWrites(t, w)
  <2>1. t \notin Coded
    BY <1>6 DEF RegisterWrites, DeleteWrites, IInv, AskedRightly, Separate
  <2>2. /\ claim' = claim
        /\ node' \in [Trees -> Wallets \union {NoRow, Unbound}]
        /\ \A u \in Trees \ {t} : node'[u] = node[u]
    BY <1>2, <1>6 DEF RegisterWrites, DeleteWrites
  <2>3. claim[t] = "none"
    BY <2>1, <1>2 DEF IInv, ClaimsAreCoded
  <2>4. ClaimsAreCoded' /\ TablesAgree' /\ ConsumedIsBound'
    BY <2>1, <2>2, <2>3, OneTree
  <2>5. Typed'
    BY <1>2, <1>3, <1>4, <2>2 DEF Typed
  <2> QED BY <1>3, <1>4, <2>4, <2>5 DEF IInv
<1> QED
  BY <1>5, <1>6 DEF Writes

LEMMA AdminIInv ==
  ASSUME IInv, NEW targets \in SUBSET Trees, AdminDeletes(targets)
  PROVE  IInv'
<1>1. /\ node' = [t \in Trees |-> IF t \in targets THEN NoRow ELSE node[t]]
      /\ claim' = [t \in Trees |-> IF t \in targets THEN "none" ELSE claim[t]]
      /\ UNCHANGED <<announce, request>>
  BY DEF AdminDeletes
<1>2. Coded \subseteq Trees
  BY TreesAssumption
<1>3. Typed'
  BY <1>1 DEF IInv, Typed
<1>4. ClaimsAreCoded' /\ TablesAgree' /\ ConsumedIsBound'
  BY <1>1, <1>2 DEF IInv, Typed, ClaimsAreCoded, TablesAgree, ConsumedIsBound
<1> QED
  BY <1>1, <1>3, <1>4 DEF IInv, ReadsAgree, AskedRightly

LEMMA ServerDiesIInv == ASSUME IInv, ServerDies PROVE IInv'
<1>1. UNCHANGED <<node, claim>> /\ announce' = NoAnnounces /\ request' = NoRequests
  BY DEF ServerDies, tables
<1>2. Typed' /\ ReadsAgree' /\ AskedRightly'
  BY <1>1 DEF IInv, Typed, ReadsAgree, AskedRightly, NoAnnounces, NoRequests, Idle
<1> QED
  BY <1>1, <1>2 DEF IInv, ClaimsAreCoded, TablesAgree, ConsumedIsBound

LEMMA StepIInv == ASSUME Separate, IInv, [Next]_vars PROVE IInv'
<1>1. CASE \E t \in Trees : Tree(t) \/ AnnounceWrites(t)
  BY <1>1, TreeIInv, AnnounceWritesIInv
<1>2. CASE \E t \in Trees : Expire(t) \/ Retire(t) \/ Unretire(t)
  BY <1>2, FrameIInv DEF Expire, Retire, Unretire
<1>3. CASE \E t \in Trees, w \in Wallets : Reads(t, w) \/ Writes(t, w)
  BY <1>3, ReadsIInv, WritesIInv
<1>4. CASE \E targets \in SUBSET Trees : AdminDeletes(targets)
  BY <1>4, AdminIInv
<1>5. CASE ServerDies
  BY <1>5, ServerDiesIInv
<1>6. CASE UNCHANGED vars
  BY <1>6, FrameIInv DEF vars, tables
<1> QED
  BY <1>1, <1>2, <1>3, <1>4, <1>5, <1>6 DEF Next

(* A node that announced has its claim and a claim has its node, at every   *)
(* moment between the steps of announces, claims, deletions and crashes.    *)
THEOREM RowsStayTogether == ASSUME Separate PROVE Spec => []TablesAgree
<1>1. Init => IInv
  BY InitIInv
<1>2. IInv /\ [Next]_vars => IInv'
  BY StepIInv
<1>3. IInv => TablesAgree
  BY DEF IInv
<1> QED
  BY <1>1, <1>2, <1>3, PTL DEF Spec

(* Where the poll calls a code claimed, the Tree has an owner.              *)
THEOREM ClaimedHasOwner == ASSUME Separate PROVE Spec => []ConsumedIsBound
<1>1. Init => IInv
  BY InitIInv
<1>2. IInv /\ [Next]_vars => IInv'
  BY StepIInv
<1>3. IInv => ConsumedIsBound
  BY DEF IInv
<1> QED
  BY <1>1, <1>2, <1>3, PTL DEF Spec

--------------------------------------------------------------------------------
(****************************************************************************)
(* The other variables, and the type invariant of all of them.              *)
(****************************************************************************)

States == {"waiting", "announcing", "polling", "provisioned"}
RestTyped ==
  /\ retired \subseteq Trees
  /\ claimedBy \in [Trees -> Wallets \union {Unbound}]
  /\ fresh \in [Trees -> BOOLEAN]
  /\ device \in [Trees -> States]
  /\ deletes \in 0..MaxDeletes /\ crashes \in 0..MaxCrashes

LEMMA RestStep == ASSUME Typed, RestTyped, [Next]_vars PROVE RestTyped'
<1> USE DEF RestTyped, States, tables
<1>1. ASSUME NEW t \in Trees, Tree(t) PROVE RestTyped'
  BY <1>1
  DEF Tree, TreeAnnounces, AnnounceFails, AnnounceTimesOut, Poll, PollFails, Configure
<1>2. ASSUME NEW t \in Trees, AnnounceWrites(t) PROVE RestTyped'
  <2>1. UNCHANGED <<retired, claimedBy, deletes, crashes>>
    BY <1>2 DEF AnnounceWrites
  <2>2. PICK b \in BOOLEAN : fresh' = [fresh EXCEPT ![t] = b]
    <3>1. fresh = [fresh EXCEPT ![t] = fresh[t]] /\ fresh[t] \in BOOLEAN
      OBVIOUS
    <3>2. CASE UNCHANGED tables
      BY <3>1, <3>2
    <3>3. CASE fresh' = [fresh EXCEPT ![t] = announce[t].code \in {"none", "open"} \/ fresh[t]]
      BY <3>3, Zenon
    <3> QED BY <1>2, <3>2, <3>3 DEF AnnounceWrites
  <2>3. device' \in [Trees -> States]
    BY <1>2 DEF AnnounceWrites
  <2>4. fresh' \in [Trees -> BOOLEAN]
    BY <2>2
  <2> QED BY <2>1, <2>3, <2>4
<1>3. ASSUME NEW t \in Trees, Expire(t) \/ Retire(t) \/ Unretire(t) PROVE RestTyped'
  BY <1>3 DEF Expire, Retire, Unretire, Known
<1>4. ASSUME NEW t \in Trees, NEW w \in Wallets, Reads(t, w) PROVE RestTyped'
  BY <1>4 DEF Reads, ClaimReads, RegisterReads, DeleteReads
<1>5. ASSUME NEW t \in Trees, NEW w \in Wallets, Writes(t, w) PROVE RestTyped'
  BY <1>5 DEF Writes, ClaimWrites, RegisterWrites, DeleteWrites
<1>6. ASSUME NEW targets \in SUBSET Trees, AdminDeletes(targets) PROVE RestTyped'
  <2>1. deletes' \in 0..MaxDeletes
    BY <1>6, TreesAssumption DEF AdminDeletes
  <2>2. fresh' \in [Trees -> BOOLEAN]
    BY <1>6, Zenon DEF AdminDeletes
  <2>3. retired' \subseteq Trees /\ claimedBy' \in [Trees -> Wallets \union {Unbound}]
    BY <1>6 DEF AdminDeletes
  <2>4. UNCHANGED <<device, crashes>>
    BY <1>6 DEF AdminDeletes
  <2> QED BY <2>1, <2>2, <2>3, <2>4
<1>7. CASE ServerDies
  BY <1>7, TreesAssumption DEF ServerDies
<1>8. CASE UNCHANGED vars
  BY <1>8 DEF vars
<1> QED BY <1>1, <1>2, <1>3, <1>4, <1>5, <1>6, <1>7, <1>8 DEF Next

(* The state is well typed where a Tree is set up in one way.               *)
THEOREM TypeCorrect == ASSUME Separate PROVE Spec => []TypeOK
<1>1. Init => IInv /\ RestTyped
  <2>1. Init => RestTyped
    BY TreesAssumption DEF Init, RestTyped, States
  <2> QED BY <2>1, InitIInv
<1>2. IInv /\ RestTyped /\ [Next]_vars => IInv' /\ RestTyped'
  BY StepIInv, RestStep DEF IInv
<1>3. IInv /\ RestTyped => TypeOK
  <2> SUFFICES ASSUME IInv, RestTyped PROVE TypeOK
    OBVIOUS
  <2>1. \A t \in Trees : announce[t].kind \in {"idle", "announce"}
    BY DEF IInv, Typed, Announces, Idle
  <2>2. \A t \in Trees, w \in Wallets :
          request[t][w].kind \in {"idle", "claim", "register", "delete"}
    BY DEF IInv, Typed, Requests, Idle
  <2> QED BY <2>1, <2>2 DEF IInv, Typed, RestTyped, States, TypeOK
<1> QED
  BY <1>1, <1>2, <1>3, PTL DEF Spec

--------------------------------------------------------------------------------
(****************************************************************************)
(* No Tree changes hands without a release.  A code is open only while its  *)
(* Tree has no owner; a Tree set up over USB has a row only when it has an  *)
(* owner; and a registration goes on only when it has seen none, or its     *)
(* own.                                                                     *)
(****************************************************************************)

OpenIsFree == \A t \in Trees : claim[t] = "open" => node[t] \notin Wallets
WiredIsOwned == \A t \in Trees \ Coded : node[t] # Unbound
RegisterSawNoOther ==
  \A t \in Trees, w \in Wallets :
    request[t][w].kind = "register" => request[t][w].seen \in {NoRow, w}

Free == OpenIsFree /\ WiredIsOwned /\ RegisterSawNoOther

LEMMA FreeStep == ASSUME Separate, IInv, Free, [Next]_vars PROVE Free'
<1> USE DEF Free
<1>1. ASSUME NEW t \in Trees, Tree(t) PROVE Free'
  <2>1. UNCHANGED <<node, claim, request>>
    BY <1>1 DEF Tree, TreeAnnounces, AnnounceFails, AnnounceTimesOut, Poll, PollFails, Configure, tables
  <2> QED BY <2>1 DEF OpenIsFree, WiredIsOwned, RegisterSawNoOther
<1>2. ASSUME NEW t \in Trees, AnnounceWrites(t) PROVE Free'
  <2>1. UNCHANGED request /\ t \in Coded
    BY <1>2 DEF AnnounceWrites, IInv, ReadsAgree
  <2>2. CASE UNCHANGED <<node, claim>>
    BY <2>1, <2>2 DEF OpenIsFree, WiredIsOwned, RegisterSawNoOther
  <2>3. CASE /\ announce[t].seen \notin Wallets /\ ~Overtaken(t, announce[t])
             /\ node' = [node EXCEPT ![t] = IF announce[t].seen = NoRow THEN Unbound ELSE @]
             /\ claim' = [claim EXCEPT ![t] = IF announce[t].code = "none" THEN "open" ELSE @]
    <3>1. announce[t] # Idle
      BY <1>2 DEF AnnounceWrites
    <3>2. \A u \in Trees \ {t} : node'[u] = node[u] /\ claim'[u] = claim[u]
      BY <2>3 DEF IInv, Typed
    <3>3. claim'[t] = "open" => node'[t] \notin Wallets
      <4>1. CASE announce[t].seen = NoRow
        BY <2>3, <4>1, TreesAssumption DEF IInv, Typed
      <4>2. CASE announce[t].seen # NoRow
        <5>1. announce[t].code # "none"
          BY <3>1, <4>2 DEF IInv, ReadsAgree
        <5> QED BY <2>3, <4>2, <5>1 DEF OpenIsFree, IInv, Typed
      <4> QED BY <4>1, <4>2
    <3>4. OpenIsFree'
      BY <3>2, <3>3 DEF OpenIsFree
    <3>5. WiredIsOwned'
      BY <2>1, <3>2 DEF WiredIsOwned
    <3> QED BY <2>1, <3>4, <3>5 DEF RegisterSawNoOther
  <2> QED BY <1>2, <2>2, <2>3 DEF AnnounceWrites, tables
<1>3. ASSUME NEW t \in Trees, Expire(t) \/ Retire(t) \/ Unretire(t) PROVE Free'
  BY <1>3 DEF Expire, Retire, Unretire, OpenIsFree, WiredIsOwned, RegisterSawNoOther
<1>4. ASSUME NEW t \in Trees, NEW w \in Wallets, Reads(t, w) PROVE Free'
  <2>1. UNCHANGED <<node, claim>>
    BY <1>4 DEF Reads, ClaimReads, RegisterReads, DeleteReads, tables
  <2>2. RegisterSawNoOther'
    <3>1. PICK kind \in {"claim", "register", "delete"} :
            /\ request' = [request EXCEPT ![t][w] = [kind |-> kind, seen |-> node[t]]]
            /\ kind = "register" => t \in Wired /\ node[t] \in {NoRow, Unbound, w}
      BY <1>4 DEF Reads, ClaimReads, RegisterReads, DeleteReads, Begin
    <3>2. kind = "register" => node[t] \in {NoRow, w}
      BY <3>1 DEF Separate, WiredIsOwned
    <3>3. \A u \in Trees, v \in Wallets :
            request'[u][v] = IF u = t /\ v = w THEN [kind |-> kind, seen |-> node[t]]
                             ELSE request[u][v]
      BY <3>1 DEF IInv, Typed
    <3> QED BY <3>2, <3>3 DEF RegisterSawNoOther
  <2> QED BY <2>1, <2>2 DEF OpenIsFree, WiredIsOwned
<1>5. ASSUME NEW t \in Trees, NEW w \in Wallets, Writes(t, w) PROVE Free'
  <2>1. End(t, w)
    BY <1>5 DEF Writes, ClaimWrites, RegisterWrites, DeleteWrites
  <2>2. RegisterSawNoOther'
    <3>1. \A u \in Trees, v \in Wallets :
            request'[u][v] = IF u = t /\ v = w THEN Idle ELSE request[u][v]
      BY <2>1 DEF End, IInv, Typed
    <3> QED BY <3>1 DEF RegisterSawNoOther, Idle
  <2>3. CASE ClaimWrites(t, w)
    <3>1. CASE UNCHANGED <<node, claim>>
      BY <2>2, <3>1 DEF OpenIsFree, WiredIsOwned
    <3>2. CASE /\ claim' = [claim EXCEPT ![t] = "consumed"]
               /\ node' = [node EXCEPT ![t] = IF @ = NoRow THEN @ ELSE w]
      BY <2>2, <3>2, TreesAssumption DEF OpenIsFree, WiredIsOwned, IInv, Typed
    <3> QED BY <2>3, <3>1, <3>2 DEF ClaimWrites, tables
  <2>4. CASE RegisterWrites(t, w)
    <3>1. t \in Wired /\ UNCHANGED claim
      BY <2>4 DEF RegisterWrites, IInv, AskedRightly
    <3>2. \A u \in Trees \ {t} : node'[u] = node[u]
      BY <2>4 DEF RegisterWrites, IInv, Typed
    <3>3. node'[t] = node[t] \/ node'[t] = w
      BY <2>4 DEF RegisterWrites, IInv, Typed
    <3>4. claim[t] # "open"
      BY <3>1 DEF Separate, IInv, ClaimsAreCoded
    <3> QED BY <2>2, <3>1, <3>2, <3>3, <3>4, TreesAssumption DEF OpenIsFree, WiredIsOwned
  <2>5. CASE DeleteWrites(t, w)
    BY <2>2, <2>5, TreesAssumption DEF DeleteWrites, OpenIsFree, WiredIsOwned, IInv, Typed
  <2> QED BY <1>5, <2>3, <2>4, <2>5 DEF Writes
<1>6. ASSUME NEW targets \in SUBSET Trees, AdminDeletes(targets) PROVE Free'
  BY <1>6, TreesAssumption DEF AdminDeletes, OpenIsFree, WiredIsOwned, RegisterSawNoOther
<1>7. CASE ServerDies
  BY <1>7 DEF ServerDies, tables, NoRequests, Idle, OpenIsFree, WiredIsOwned, RegisterSawNoOther
<1>8. CASE UNCHANGED vars
  BY <1>8 DEF vars, tables, OpenIsFree, WiredIsOwned, RegisterSawNoOther
<1> QED BY <1>1, <1>2, <1>3, <1>4, <1>5, <1>6, <1>7, <1>8 DEF Next

OwnersStay == \A t \in Trees : node[t] \in Wallets /\ node'[t] \in Wallets => node'[t] = node[t]

LEMMA NoTransfer == ASSUME Separate, IInv, Free, [Next]_vars PROVE OwnersStay
<1>1. CASE \E t \in Trees : Tree(t) \/ Expire(t) \/ Retire(t) \/ Unretire(t)
  BY <1>1 DEF Tree, TreeAnnounces, AnnounceFails, AnnounceTimesOut, Poll, PollFails, Configure,
              Expire, Retire, Unretire, tables, OwnersStay
<1>2. ASSUME NEW t \in Trees, AnnounceWrites(t) PROVE OwnersStay
  BY <1>2, TreesAssumption DEF AnnounceWrites, tables, OwnersStay, IInv, Typed
<1>3. ASSUME NEW t \in Trees, NEW w \in Wallets, Reads(t, w) PROVE OwnersStay
  BY <1>3 DEF Reads, ClaimReads, RegisterReads, DeleteReads, tables, OwnersStay
<1>4. ASSUME NEW t \in Trees, NEW w \in Wallets, ClaimWrites(t, w) PROVE OwnersStay
  BY <1>4 DEF ClaimWrites, tables, Free, OpenIsFree, OwnersStay, IInv, Typed
<1>5. ASSUME NEW t \in Trees, NEW w \in Wallets, RegisterWrites(t, w) PROVE OwnersStay
  <2>1. request[t][w].seen \in {NoRow, w}
    BY <1>5 DEF RegisterWrites, Free, RegisterSawNoOther
  <2>2. node' = [node EXCEPT ![t] =
          IF (request[t][w].seen = NoRow) = (@ = NoRow) /\ request[t][w].seen # w THEN w ELSE @]
    BY <1>5 DEF RegisterWrites
  <2>3. node[t] \in Wallets => node'[t] = node[t]
    BY <2>1, <2>2, TreesAssumption DEF IInv, Typed
  <2>4. \A u \in Trees \ {t} : node'[u] = node[u]
    BY <2>2 DEF IInv, Typed
  <2> QED BY <2>3, <2>4 DEF OwnersStay
<1>6. ASSUME NEW t \in Trees, NEW w \in Wallets, DeleteWrites(t, w) PROVE OwnersStay
  BY <1>6, TreesAssumption DEF DeleteWrites, OwnersStay, IInv, Typed
<1>7. ASSUME NEW targets \in SUBSET Trees, AdminDeletes(targets) PROVE OwnersStay
  BY <1>7, TreesAssumption DEF AdminDeletes, OwnersStay
<1>8. CASE ServerDies \/ UNCHANGED vars
  BY <1>8 DEF ServerDies, vars, tables, OwnersStay
<1> QED
  BY <1>1, <1>2, <1>3, <1>4, <1>5, <1>6, <1>7, <1>8 DEF Next, Writes

(* No request, however it was overtaken between its two steps, gives a Tree *)
(* that has an owner to another wallet (provision.py:165-197,               *)
(* register.py:243-330).                                                    *)
THEOREM HandsAreKept == ASSUME Separate PROVE Spec => NoSilentTransfer
<1>1. Init => IInv /\ Free
  <2>1. Init => Free
    BY TreesAssumption DEF Init, Free, OpenIsFree, WiredIsOwned, RegisterSawNoOther, NoRequests, Idle
  <2> QED BY <2>1, InitIInv
<1>2. IInv /\ Free /\ [Next]_vars => IInv' /\ Free'
  BY StepIInv, FreeStep
<1>3. IInv /\ Free /\ [Next]_vars
        => [\A t \in Trees : node[t] \in Wallets /\ node'[t] \in Wallets => node'[t] = node[t]]_vars
  BY NoTransfer DEF OwnersStay
<1> QED
  BY <1>1, <1>2, <1>3, PTL DEF Spec, NoSilentTransfer

================================================================================

------------------------------ MODULE TreeRegistry ------------------------------
(****************************************************************************)
(* How a Tree comes to belong to a wallet: the oracle's nodes and claims    *)
(* tables, the routes that write them, the administrator's tool and the     *)
(* Tree's side of the exchange.                                             *)
(*                                                                          *)
(* A Tree announces its claim code and polls until the oracle reports it    *)
(* claimed; an operator claims the code, or registers the Tree over USB.    *)
(* A route reads rows first, checks the wallet's Pass with a slow call to a *)
(* third party, and writes when it commits, so a request is two steps and   *)
(* what the first one saw may be gone at the second.                        *)
(****************************************************************************)
EXTENDS Naturals, FiniteSets

CONSTANTS
  Trees,       \* node ids; a Tree has one signing key and one claim code
  Coded,       \* the Trees that are set up with their claim code
  Wired,       \* the Trees that are set up over USB
  Released,    \* the Trees whose owner may delete them
  Wallets,
  MaxDeletes,  \* how often the administrator deletes: a bound of the model
  MaxCrashes,  \* how often the server dies: a bound of the model
  NoRow, Unbound   \* no row in nodes; a row without a wallet

ASSUME TreesAssumption ==
  /\ Coded \subseteq Trees /\ Wired \subseteq Trees /\ Released \subseteq Trees
  /\ NoRow # Unbound /\ {NoRow, Unbound} \cap Wallets = {}
  /\ MaxDeletes \in Nat /\ MaxCrashes \in Nat

VARIABLES
  node,       \* nodes.wallet_address by node id, NoRow without a row
  retired,    \* the Trees whose retired_at is set
  claim,      \* the Tree's row in claims: "none", "open" or "consumed"
  claimedBy,  \* claims.claimed_by
  fresh,      \* whether claims.expires_at lies ahead
  device,     \* what the Tree is doing; "provisioned" is in its flash
  announce,   \* what the handler of the Tree's announce has read
  request,    \* likewise for the operator's request about the Tree
  deletes, crashes

tables == <<node, retired, claim, claimedBy, fresh>>
vars == <<tables, device, announce, request, deletes, crashes>>

Idle == [kind |-> "idle"]
NoRequests == [t \in Trees |-> [w \in Wallets |-> Idle]]
NoAnnounces == [t \in Trees |-> Idle]

Init ==
  /\ node = [t \in Trees |-> NoRow]
  /\ retired = {}
  /\ claim = [t \in Trees |-> "none"]
  /\ claimedBy = [t \in Trees |-> Unbound]
  /\ fresh = [t \in Trees |-> FALSE]
  /\ device = [t \in Trees |-> "waiting"]
  /\ announce = NoAnnounces
  /\ request = NoRequests
  /\ deletes = 0
  /\ crashes = 0

(* An operator's request about a Tree: what it does and what it has read.   *)
Begin(kind, t, w) ==
  /\ request[t][w] = Idle
  /\ request' = [request EXCEPT ![t][w] = [kind |-> kind, seen |-> node[t]]]

End(t, w) == request' = [request EXCEPT ![t][w] = Idle]

--------------------------------------------------------------------------------
(****************************************************************************)
(* The Tree: announce, then poll, until it is provisioned.                  *)
(****************************************************************************)

(* The announce reaches the server, which reads both rows.                  *)
TreeAnnounces(t) ==
  /\ t \in Coded /\ device[t] = "waiting"
  /\ device' = [device EXCEPT ![t] = "announcing"]
  /\ announce[t] = Idle
  /\ announce' = [announce EXCEPT ![t] =
       [kind |-> "announce", seen |-> node[t], code |-> claim[t], heard |-> TRUE]]
  /\ UNCHANGED <<tables, request, deletes, crashes>>

(* It does not; the Tree goes on to poll.                                   *)
AnnounceFails(t) ==
  /\ t \in Coded /\ device[t] = "waiting"
  /\ device' = [device EXCEPT ![t] = "polling"]
  /\ UNCHANGED <<tables, announce, request, deletes, crashes>>

(* The Tree stops waiting for an answer the server may still be working on. *)
AnnounceTimesOut(t) ==
  /\ device[t] = "announcing"
  /\ device' = [device EXCEPT ![t] = "polling"]
  /\ announce' = [announce EXCEPT ![t].heard = FALSE]
  /\ UNCHANGED <<tables, request, deletes, crashes>>

(* The transaction inserts a row that someone else has inserted meanwhile,  *)
(* or updates one that is gone: it fails and is rolled back.                *)
Overtaken(t, r) ==
  \/ r.seen = NoRow /\ node[t] # NoRow
  \/ r.code = "none" /\ claim[t] # "none"
  \/ r.code = "open" /\ claim[t] = "none"

(* Variation: announcing again does not renew the code.                     *)
WrongAnnounceWrites(t) ==
  LET r == announce[t]
  IN /\ r # Idle
     /\ \/ /\ r.seen \in Wallets \/ Overtaken(t, r)
           /\ UNCHANGED tables
        \/ /\ r.seen \notin Wallets /\ ~Overtaken(t, r)
           /\ node' = [node EXCEPT ![t] = IF r.seen = NoRow THEN Unbound ELSE @]
           /\ claim' = [claim EXCEPT ![t] = IF r.code = "none" THEN "open" ELSE @]
           /\ fresh' = [fresh EXCEPT ![t] = r.code = "none" \/ @]
           /\ UNCHANGED <<retired, claimedBy>>
     /\ device' = [device EXCEPT ![t] =
          IF ~r.heard THEN @ ELSE IF r.seen \in Wallets THEN "provisioned" ELSE "polling"]
     /\ announce' = [announce EXCEPT ![t] = Idle]
     /\ UNCHANGED <<request, deletes, crashes>>

(* The announce commits, and the Tree hears whether it has an owner.  A     *)
(* code that was consumed stays so, and its row is left as it is.           *)
AnnounceWrites(t) ==
  LET r == announce[t]
  IN /\ r # Idle
     /\ \/ /\ r.seen \in Wallets \/ Overtaken(t, r)
           /\ UNCHANGED tables
        \/ /\ r.seen \notin Wallets /\ ~Overtaken(t, r)
           /\ node' = [node EXCEPT ![t] = IF r.seen = NoRow THEN Unbound ELSE @]
           /\ claim' = [claim EXCEPT ![t] = IF r.code = "none" THEN "open" ELSE @]
           /\ fresh' = [fresh EXCEPT ![t] = r.code \in {"none", "open"} \/ @]
           /\ UNCHANGED <<retired, claimedBy>>
     /\ device' = [device EXCEPT ![t] =
          IF ~r.heard THEN @ ELSE IF r.seen \in Wallets THEN "provisioned" ELSE "polling"]
     /\ announce' = [announce EXCEPT ![t] = Idle]
     /\ UNCHANGED <<request, deletes, crashes>>

(* The poll reads the claim and nothing else.                               *)
Poll(t) ==
  /\ device[t] = "polling"
  /\ device' = [device EXCEPT ![t] = IF claim[t] = "consumed" THEN "provisioned" ELSE "waiting"]
  /\ UNCHANGED <<tables, announce, request, deletes, crashes>>

PollFails(t) ==
  /\ device[t] = "polling"
  /\ device' = [device EXCEPT ![t] = "waiting"]
  /\ UNCHANGED <<tables, announce, request, deletes, crashes>>

(* The USB wizard writes the oracle's address to flash, which ends the wait.*)
Configure(t) ==
  /\ t \in Wired /\ device[t] = "waiting"
  /\ device' = [device EXCEPT ![t] = "provisioned"]
  /\ UNCHANGED <<tables, announce, request, deletes, crashes>>

--------------------------------------------------------------------------------
(****************************************************************************)
(* The operators' requests.  One that is refused writes nothing.            *)
(****************************************************************************)

(* The code is looked at before the Pass is.                                *)
ClaimReads(t, w) ==
  /\ claim[t] = "open" /\ fresh[t]
  /\ Begin("claim", t, w)
  /\ UNCHANGED <<tables, device, announce, deletes, crashes>>

(* Variation: the code is consumed without looking again.                   *)
WrongClaimWrites(t, w) ==
  /\ request[t][w].kind = "claim"
     /\ claim' = [claim EXCEPT ![t] = IF @ = "none" THEN @ ELSE "consumed"]
     /\ claimedBy' = [claimedBy EXCEPT ![t] = IF claim[t] = "none" THEN @ ELSE w]
     /\ node' = [node EXCEPT ![t] = IF @ = NoRow \/ claim[t] = "none" THEN @ ELSE w]
     /\ End(t, w)
     /\ UNCHANGED <<retired, fresh, device, announce, deletes, crashes>>

(* The guarded update, and the wallet whatever the node's row says.         *)
ClaimWrites(t, w) ==
  /\ request[t][w].kind = "claim"
     /\ \/ claim[t] # "open" /\ UNCHANGED tables
        \/ /\ claim[t] = "open"
           /\ claim' = [claim EXCEPT ![t] = "consumed"]
           /\ claimedBy' = [claimedBy EXCEPT ![t] = w]
           /\ node' = [node EXCEPT ![t] = IF @ = NoRow THEN @ ELSE w]
           /\ UNCHANGED <<retired, fresh>>
     /\ End(t, w)
     /\ UNCHANGED <<device, announce, deletes, crashes>>

(* The ownership guard.                                                     *)
RegisterReads(t, w) ==
  /\ t \in Wired /\ node[t] \in {NoRow, Unbound, w}
  /\ Begin("register", t, w)
  /\ UNCHANGED <<tables, device, announce, deletes, crashes>>

(* A row is inserted if there was none, and the wallet is written if it was *)
(* another than the row had.                                                *)
RegisterWrites(t, w) ==
  LET r == request[t][w]
  IN /\ r.kind = "register"
     /\ node' = [node EXCEPT ![t] =
          IF (r.seen = NoRow) = (@ = NoRow) /\ r.seen # w THEN w ELSE @]
     /\ End(t, w)
     /\ UNCHANGED <<retired, claim, claimedBy, fresh, device, announce, deletes, crashes>>

DeleteReads(t, w) ==
  /\ t \in Released /\ node[t] = w
  /\ Begin("delete", t, w)
  /\ UNCHANGED <<tables, device, announce, deletes, crashes>>

(* The node goes, with its readings, its uptime and its attestations; its   *)
(* claim stays.                                                             *)
DeleteWrites(t, w) ==
  /\ request[t][w].kind = "delete"
     /\ node' = [node EXCEPT ![t] = NoRow]
     /\ retired' = retired \ {t}
     /\ End(t, w)
     /\ UNCHANGED <<claim, claimedBy, fresh, device, announce, deletes, crashes>>

(* The process dies with the requests it was serving.                       *)
ServerDies ==
  /\ announce # NoAnnounces \/ request # NoRequests
  /\ crashes < MaxCrashes /\ crashes' = crashes + 1
  /\ announce' = NoAnnounces
  /\ request' = NoRequests
  /\ device' = [t \in Trees |-> IF device[t] = "announcing" THEN "polling" ELSE device[t]]
  /\ UNCHANGED <<tables, deletes>>

Expire(t) ==
  /\ fresh[t]
  /\ fresh' = [fresh EXCEPT ![t] = FALSE]
  /\ UNCHANGED <<node, retired, claim, claimedBy, device, announce, request, deletes, crashes>>

--------------------------------------------------------------------------------
(****************************************************************************)
(* The administrator's tool.                                                *)
(****************************************************************************)

Known == {t \in Trees : node[t] # NoRow}

(* Variation: the claims are not among the child tables.                    *)
WrongAdminDeletes(targets) ==
  /\ targets \subseteq Known /\ targets # {}
  /\ deletes < MaxDeletes /\ deletes' = deletes + 1
  /\ node' = [t \in Trees |-> IF t \in targets THEN NoRow ELSE node[t]]
  /\ retired' = retired \ targets
  /\ UNCHANGED <<claim, claimedBy, fresh, device, announce, request, crashes>>

(* `delete`, and `keep`, which deletes all the others.                      *)
AdminDeletes(targets) ==
  /\ targets \subseteq Known /\ targets # {}
  /\ deletes < MaxDeletes /\ deletes' = deletes + 1
  /\ node' = [t \in Trees |-> IF t \in targets THEN NoRow ELSE node[t]]
  /\ retired' = retired \ targets
  /\ claim' = [t \in Trees |-> IF t \in targets THEN "none" ELSE claim[t]]
  /\ claimedBy' = [t \in Trees |-> IF t \in targets THEN Unbound ELSE claimedBy[t]]
  /\ fresh' = [t \in Trees |-> fresh[t] /\ t \notin targets]
  /\ UNCHANGED <<device, announce, request, crashes>>

Retire(t) ==
  /\ t \in Known \ retired
  /\ retired' = retired \union {t}
  /\ UNCHANGED <<node, claim, claimedBy, fresh, device, announce, request, deletes, crashes>>

Unretire(t) ==
  /\ t \in retired
  /\ retired' = retired \ {t}
  /\ UNCHANGED <<node, claim, claimedBy, fresh, device, announce, request, deletes, crashes>>

Tree(t) == TreeAnnounces(t) \/ AnnounceFails(t) \/ AnnounceTimesOut(t) \/ Poll(t)
           \/ PollFails(t) \/ Configure(t)
Reads(t, w) == ClaimReads(t, w) \/ RegisterReads(t, w) \/ DeleteReads(t, w)
Writes(t, w) == ClaimWrites(t, w) \/ RegisterWrites(t, w) \/ DeleteWrites(t, w)

Next ==
  \/ \E t \in Trees : Tree(t) \/ AnnounceWrites(t) \/ Expire(t) \/ Retire(t) \/ Unretire(t)
  \/ \E t \in Trees, w \in Wallets : Reads(t, w) \/ Writes(t, w)
  \/ \E targets \in SUBSET Trees : AdminDeletes(targets)
  \/ ServerDies

Spec == Init /\ [][Next]_vars

(* A Tree keeps announcing and polling, an operator keeps entering the code *)
(* it shows, and the network does not fail them for ever.                   *)
FairSpec ==
  /\ Spec
  /\ \A t \in Coded : /\ SF_vars(TreeAnnounces(t)) /\ SF_vars(Poll(t))
                      /\ WF_vars(AnnounceWrites(t))
                      /\ \A w \in Wallets : SF_vars(ClaimReads(t, w)) /\ WF_vars(Writes(t, w))

--------------------------------------------------------------------------------

(* The state is well typed.                                                 *)
TypeOK ==
  /\ node \in [Trees -> Wallets \union {NoRow, Unbound}]
  /\ retired \subseteq Trees
  /\ claim \in [Trees -> {"none", "open", "consumed"}]
  /\ claimedBy \in [Trees -> Wallets \union {Unbound}]
  /\ fresh \in [Trees -> BOOLEAN]
  /\ device \in [Trees -> {"waiting", "announcing", "polling", "provisioned"}]
  /\ \A t \in Trees : announce[t].kind \in {"idle", "announce"}
  /\ \A t \in Trees, w \in Wallets : request[t][w].kind \in {"idle", "claim", "register", "delete"}
  /\ deletes \in 0..MaxDeletes /\ crashes \in 0..MaxCrashes

(* A consumed code belongs to a Tree that has an owner: so a Tree that      *)
(* stops waiting because the poll calls its code claimed can earn, and one  *)
(* whose node was deleted can be claimed again.  Every path that removes a  *)
(* node has to remove its claim.                                            *)
ConsumedIsBound == \A t \in Trees : claim[t] = "consumed" => node[t] \in Wallets

(* No request gives a Tree that has an owner to another wallet: two claims  *)
(* or registrations at once do not both win, and one that was overtaken by  *)
(* a deletion and a new owner changes nothing.                              *)
NoSilentTransfer ==
  [][\A t \in Trees : node[t] \in Wallets /\ node'[t] \in Wallets => node'[t] = node[t]]_vars

(* A Tree that was never deleted is never dropped from a table by half: a   *)
(* node that announced has its claim, and a claim has its node.             *)
TablesAgree == \A t \in Coded : node[t] = NoRow <=> claim[t] = "none"

(* A Tree that shows its code to an operator who keeps entering it is       *)
(* claimed and hears of it, whatever the administrator deletes meanwhile.   *)
ComesIntoService == \A t \in Coded : <>(device[t] = "provisioned")

================================================================================

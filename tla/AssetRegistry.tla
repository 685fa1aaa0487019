---------------------------- MODULE AssetRegistry ----------------------------
(***************************************************************************)
(* The life of assets in the API (assets.py) and the reconciliation that   *)
(* queues what was recorded before the ledger existed                      *)
(* (reconcile_ledger.py), running beside each other.                       *)
(*                                                                         *)
(* An update, a deletion or a decommission loads the asset, checks it and  *)
(* commits later; the rows are not locked in between (READ COMMITTED), so  *)
(* each handler is two actions.  Handlers whose checks are repeated by the *)
(* keys of their commit are one action.  Delivery to the ledger is one     *)
(* step here (Deliver of FieldLedgerContract): LedgerDelivery is about its *)
(* interleavings and failures.                                             *)
(***************************************************************************)
EXTENDS FieldLedgerContract

CONSTANTS
  Requesters,  \* requests that update, delete or decommission an asset
  Changes,     \* the kinds of request they may make
  Asked,       \* the statuses creations and updates ask for (bound)
  DecomEvent,  \* event id of the decommission of each asset, "EVT-DECOM-" and its id
  OldAssets,   \* assets that may exist since before the ledger
  OldEvents    \* maintenance events that may exist since before the ledger

CreateOf(a)       == <<"asset", a, "create">>
DecommissionOf(a) == <<"asset", a, "decommission">>
ProposeOf(e)      == <<"event", e, "propose">>
ReviewOf(e)       == <<"event", e, "review">>

RegistryOperationIds ==
  {CreateOf(a) : a \in AssetIds} \cup {DecommissionOf(a) : a \in AssetIds}
    \cup {ProposeOf(e) : e \in EventIds} \cup {ReviewOf(e) : e \in EventIds}

AssetStatus == {"ACTIVE", "MAINTENANCE", "OUT_OF_SERVICE", "DECOMMISSIONED"}

ASSUME RegistryAssumption ==
  /\ OperationIds = RegistryOperationIds
  /\ Changes \subseteq {"update", "delete", "decommission"}
  /\ Asked \subseteq AssetStatus
  /\ DecomEvent \in [AssetIds -> EventIds]
  /\ \A a, b \in AssetIds : DecomEvent[a] = DecomEvent[b] => a = b
  /\ OldAssets \subseteq AssetIds
  /\ OldEvents \subseteq EventIds \ {DecomEvent[a] : a \in AssetIds}

VARIABLES
  assets,      \* asset rows
  events,      \* event rows
  outbox,      \* ledger_outbox rows
  latest,      \* the last operation created for each event
  requests,    \* requests between their check and their commit
  scan,        \* what the running reconciliation found missing
  reconciled   \* a reconciliation has been completed

tables == <<assets, events, outbox, latest>>
vars == <<contractVars, tables, requests, scan, reconciled>>

LedgerStatus == {"PENDING", "COMMITTED", "FAILED"}

(* decommissioned_at is set in a retired row. *)
AssetRows == [status : AssetStatus, retired : BOOLEAN]
EventRows ==
  [assetId : AssetIds, organization : Orgs, status : {"PROPOSED"} \cup Decisions,
   ledger : LedgerStatus]
OutboxRows == [request : Requests, status : LedgerStatus]
Sessions ==
  [change : Changes, assetId : AssetIds, loaded : AssetStatus, assigned : AssetStatus]

(* Rows, sessions and the records of the contract have their shape; every    *)
(* outbox row is one the constraints of its table and the gateway accept.    *)
TypeOK ==
  /\ ContractTypeOK
  /\ assets \in [AssetIds -> AssetRows \cup {None}]
  /\ events \in [EventIds -> EventRows \cup {None}]
  /\ outbox \in [OperationIds -> OutboxRows \cup {None}]
  /\ latest \in [EventIds -> OperationIds \cup {None}]
  /\ requests \in [Requesters -> Sessions \cup {None}]
  /\ scan = None \/ scan \subseteq Requests
  /\ reconciled \in BOOLEAN

(* A row that is not there, or a field that is unset, is like no row.       *)
ASSUME NoneIsNoRow ==
  /\ None \notin AssetRows \cup EventRows \cup OutboxRows \cup Sessions
  /\ None \notin OperationIds

OldRows ==
  {row \in EventRows : /\ row.assetId \in OldAssets
                       /\ row.organization = "ContractorOrg"
                       /\ row.ledger = "PENDING"}

(* Rows written before migration 20260814_0003 have no outbox rows. *)
Init ==
  /\ ContractInit
  /\ \E old \in SUBSET OldAssets :
       assets = [a \in AssetIds |-> IF a \in old THEN [status |-> "ACTIVE", retired |-> FALSE]
                                                 ELSE None]
  /\ events \in {f \in [EventIds -> OldRows \cup {None}] :
                   \A e \in EventIds :
                      f[e] # None => e \in OldEvents /\ assets[f[e].assetId] # None}
  /\ outbox = [o \in OperationIds |-> None]
  /\ latest = [e \in EventIds |-> None]
  /\ requests = [s \in Requesters |-> None]
  /\ scan = None
  /\ reconciled = FALSE

-----------------------------------------------------------------------------
(* Rows of the outbox. *)

RegisterAsset(a) ==
  [operationId |-> CreateOf(a), action |-> "REGISTER_ASSET",
   organization |-> "OperatorOrg", payload |-> [assetId |-> a]]

Decommissioning(a) ==
  [operationId |-> DecommissionOf(a), action |-> "DECOMMISSION_ASSET",
   organization |-> "OperatorOrg",
   payload |-> [assetId |-> a, decommissionedBy |-> "OperatorOrg"]]

Proposal(e, a, organization) ==
  [operationId |-> ProposeOf(e), action |-> "PROPOSE_EVENT",
   organization |-> organization, payload |-> [eventId |-> e, assetId |-> a]]
Review(e, decision) ==
  [operationId |-> ReviewOf(e), action |-> "REVIEW_EVENT",
   organization |-> "OperatorOrg", payload |-> [eventId |-> e, decision |-> decision]]

Missing(r) == outbox[r.operationId] = None

(* Part of a commit, which fails on the primary key if a row exists.  Of two *)
(* rows of one event the proposal is created first.                          *)
Enqueue(rs) ==
  /\ \A r \in rs : Missing(r)
  /\ outbox' = [o \in OperationIds |->
                  IF \E r \in rs : r.operationId = o
                  THEN [request |-> CHOOSE r \in rs : r.operationId = o,
                        status |-> "PENDING"]
                  ELSE outbox[o]]
  /\ latest' = [e \in EventIds |->
                  IF \E r \in rs : r.operationId = ReviewOf(e) THEN ReviewOf(e)
                  ELSE IF \E r \in rs : r.operationId = ProposeOf(e) THEN ProposeOf(e)
                  ELSE latest[e]]

-----------------------------------------------------------------------------
(* The API.                                                                *)

(* The status is part of the request. *)
CreateAssetRow(a, status) ==
  /\ assets[a] = None
  /\ assets' = [assets EXCEPT ![a] = [status |-> status, retired |-> FALSE]]
  /\ Enqueue({RegisterAsset(a)})
  /\ UNCHANGED <<contractVars, events, requests, scan, reconciled>>

ProposeMaintenance(e, a) ==
  /\ assets[a] # None
  /\ events[e] = None
  /\ events' = [events EXCEPT ![e] =
                  [assetId |-> a, organization |-> "ContractorOrg",
                   status |-> "PROPOSED", ledger |-> "PENDING"]]
  /\ Enqueue({Proposal(e, a, "ContractorOrg")})
  /\ UNCHANGED <<contractVars, assets, requests, scan, reconciled>>

WrongReviewEventRow(e, decision) ==  \* a second review changes the row, not the outbox
  /\ events[e] # None
  /\ events' = [events EXCEPT ![e].status = decision, ![e].ledger = "PENDING"]
  /\ IF Missing(Review(e, decision)) THEN Enqueue({Review(e, decision)})
                                     ELSE UNCHANGED <<outbox, latest>>
  /\ UNCHANGED <<contractVars, assets, requests, scan, reconciled>>

(* One action: LedgerDelivery has two reviews that race. *)
ReviewEventRow(e, decision) ==
  /\ events[e] # None
  /\ events[e].status = "PROPOSED"
  /\ events' = [events EXCEPT ![e].status = decision, ![e].ledger = "PENDING"]
  /\ Enqueue({Review(e, decision)})
  /\ UNCHANGED <<contractVars, assets, requests, scan, reconciled>>

(* get_asset_or_404 of a handler that will assign a status, or the same one. *)
Load(s, a, change, assigned) ==
  /\ change \in Changes
  /\ requests[s] = None
  /\ assets[a] # None
  /\ requests' = [requests EXCEPT ![s] =
                    [change |-> change, assetId |-> a, loaded |-> assets[a].status,
                     assigned |-> assigned]]
  /\ UNCHANGED <<contractVars, tables, scan, reconciled>>

UpdateCheck(s, a, status) == Load(s, a, "update", status)
DeleteCheck(s, a)         == Load(s, a, "delete", assets[a].status)
DecommissionCheck(s, a) ==
  /\ assets[a] # None => assets[a].status # "DECOMMISSIONED"
  /\ Load(s, a, "decommission", "DECOMMISSIONED")

Open(s, change) == requests[s] # None /\ requests[s].change = change
Close(s) == requests' = [requests EXCEPT ![s] = None]

(* The session writes the status only if it differs from the loaded one. *)
StatusAfter(s) ==
  IF requests[s].assigned = requests[s].loaded THEN assets[requests[s].assetId].status
                                               ELSE requests[s].assigned

UpdateCommit(s) ==
  LET a == requests[s].assetId IN
  /\ Open(s, "update")
  /\ assets[a] # None
  /\ assets' = [assets EXCEPT ![a].status = StatusAfter(s)]
  /\ Close(s)
  /\ UNCHANGED <<contractVars, events, outbox, latest, scan, reconciled>>

WrongReferenced(a) ==  \* only events under review keep their asset
  \E e \in EventIds :
     events[e] # None /\ events[e].assetId = a /\ events[e].status = "PROPOSED"

Referenced(a) == \E e \in EventIds : events[e] # None /\ events[e].assetId = a

(* The foreign key of the events refuses it; a row that is gone already is  *)
(* not missed.  The rows of the outbox stay.                                *)
DeleteCommit(s) ==
  LET a == requests[s].assetId IN
  /\ Open(s, "delete")
  /\ ~Referenced(a)
  /\ assets' = [assets EXCEPT ![a] = None]
  /\ Close(s)
  /\ UNCHANGED <<contractVars, events, outbox, latest, scan, reconciled>>

DecommissionCommit(s) ==
  LET a == requests[s].assetId
      e == DecomEvent[a]
  IN  /\ Open(s, "decommission")
      /\ assets[a] # None
      /\ events[e] = None
      /\ assets' = [assets EXCEPT ![a] = [status |-> "DECOMMISSIONED", retired |-> TRUE]]
      /\ events' = [events EXCEPT ![e] =
                      [assetId |-> a, organization |-> "OperatorOrg",
                       status |-> "APPROVED", ledger |-> "PENDING"]]
      /\ Enqueue({Decommissioning(a)})
      /\ Close(s)
      /\ UNCHANGED <<contractVars, scan, reconciled>>

(* A key or a row that is gone made the commit fail, or the process died. *)
Rollback(s) ==
  /\ requests[s] # None
  /\ Close(s)
  /\ UNCHANGED <<contractVars, tables, scan, reconciled>>

-----------------------------------------------------------------------------
(* Reconciliation: one transaction over all rows.                          *)

ReviewedEvents == {e \in EventIds : events[e] # None /\ events[e].status \in Decisions}

(* The organization of an event proposes it, that of its reviewer reviews it. *)
Records ==
  {RegisterAsset(a) : a \in {a \in AssetIds : assets[a] # None}}
    \cup {Proposal(e, events[e].assetId, events[e].organization) :
            e \in {e \in EventIds : events[e] # None}}
    \cup {Review(e, events[e].status) : e \in ReviewedEvents}

ReconcileRead ==
  /\ scan = None
  /\ scan' = {r \in Records : Missing(r)}
  /\ UNCHANGED <<contractVars, tables, requests, reconciled>>

ReconcileCommit ==
  /\ scan # None
  /\ Enqueue(scan)
  /\ scan' = None
  /\ reconciled' = TRUE
  /\ UNCHANGED <<contractVars, assets, events, requests>>

WrongReconcileFail ==  \* a failed run is taken for a completed one
  /\ scan # None
  /\ scan' = None
  /\ reconciled' = TRUE
  /\ UNCHANGED <<contractVars, tables, requests>>

(* A handler queued one of the rows first, or the run was stopped. *)
ReconcileFail ==
  /\ scan # None
  /\ scan' = None
  /\ UNCHANGED <<contractVars, tables, requests, reconciled>>

-----------------------------------------------------------------------------
(* The worker and the ledger.                                              *)

Unconfirmed(o) == outbox[o] # None /\ outbox[o].status # "COMMITTED"

(* update_aggregate: only the last operation of an event touches its row. *)
Settle(o, status) ==
  /\ outbox' = [outbox EXCEPT ![o].status = status]
  /\ events' = [e \in EventIds |->
                  IF latest[e] = o THEN [events[e] EXCEPT !.ledger = status]
                                   ELSE events[e]]
  /\ UNCHANGED <<assets, latest, requests, scan, reconciled>>

WrongConfirmable(o) ==  \* what failed once is not tried again
  /\ Unconfirmed(o)
  /\ outbox[o].status = "PENDING"
  /\ Endorsable(outbox[o].request)

(* The worker takes the row and the contract accepts its request. *)
Confirmable(o) == Unconfirmed(o) /\ Endorsable(outbox[o].request)

Confirm(o) ==
  /\ Confirmable(o)
  /\ \E id \in TxIds : Deliver(outbox[o].request, id)
  /\ Settle(o, "COMMITTED")

(* The contract refused it, or the attempt failed on the way. *)
Fail(o) ==
  /\ Unconfirmed(o)
  /\ Settle(o, "FAILED")
  /\ UNCHANGED contractVars

RequestStep ==
  \/ \E a \in AssetIds, status \in Asked : CreateAssetRow(a, status)
  \/ \E e \in EventIds, a \in AssetIds : ProposeMaintenance(e, a)
  \/ \E e \in EventIds, decision \in Decisions : ReviewEventRow(e, decision)
  \/ \E s \in Requesters, a \in AssetIds, status \in Asked : UpdateCheck(s, a, status)
  \/ \E s \in Requesters, a \in AssetIds : DeleteCheck(s, a) \/ DecommissionCheck(s, a)
  \/ \E s \in Requesters :
       UpdateCommit(s) \/ DeleteCommit(s) \/ DecommissionCommit(s) \/ Rollback(s)
ReconcileStep == ReconcileRead \/ ReconcileCommit \/ ReconcileFail
DeliveryStep  == \E o \in OperationIds : Confirm(o) \/ Fail(o)

Next == RequestStep \/ ReconcileStep \/ DeliveryStep

Spec == Init /\ [][Next]_vars

-----------------------------------------------------------------------------
(* Properties.                                                             *)

Retired(a)  == assets[a] # None /\ assets[a].retired
OnLedger(a) == Exists(<<"asset", a>>) /\ world[<<"asset", a>>].status = "DECOMMISSIONED"

(* Whatever updates, deletions and decommissions race, a decommission is in *)
(* the asset row, in the events and in the outbox, or in none of them       *)
(* (decommission_asset commits the three together and nothing takes one     *)
(* back), and the ledger decommissions nothing else.                        *)
RetirementIsWhole ==
  \A a \in AssetIds :
     /\ Retired(a) <=> ~Missing(Decommissioning(a))
     /\ Retired(a) => /\ events[DecomEvent[a]] # None
                      /\ events[DecomEvent[a]].organization = "OperatorOrg"
     /\ OnLedger(a) => Retired(a)

OfRetirement(e) == events[e] # None /\ events[e].organization = "OperatorOrg"

(* Once a reconciliation has completed, every asset, every proposal and      *)
(* every review in the tables is queued as it is recorded, however the API   *)
(* worked beside it (reconcile_ledger.py reads, then adds what is missing).  *)
(* Events of decommissions are apart: nobody proposed them.                  *)
HistoryIsQueued ==
  reconciled =>
    \A r \in Records :
       \/ ~Missing(r) /\ outbox[r.operationId].request = r
       \/ \E e \in EventIds :
            OfRetirement(e) /\ r.operationId \in {ProposeOf(e), ReviewOf(e)}

(* The ledger never says of an event anything but what its row says.        *)
LedgerAgrees ==
  \A e \in EventIds :
     Exists(<<"event", e>>) =>
       /\ events[e] # None
       /\ world[<<"event", e>>].assetId = events[e].assetId
       /\ world[<<"event", e>>].organization = events[e].organization
       /\ world[<<"event", e>>].status \in {"PROPOSED", events[e].status}

(* What must be on the ledger before an operation of asset a or event e.    *)
Before(o) ==
  {CreateOf(a) : a \in {a \in AssetIds : \/ o = DecommissionOf(a)
                                          \/ \E e \in EventIds : /\ o \in {ProposeOf(e), ReviewOf(e)}
                                                                 /\ events[e] # None
                                                                 /\ events[e].assetId = a}}
    \cup {ProposeOf(e) : e \in {e \in EventIds : o = ReviewOf(e)}}

(* After a reconciliation no queued operation waits for something that is    *)
(* not coming: the contract accepts it now, or accepts one that comes before *)
(* it, whatever was refused, retried, deleted or queued in another order     *)
(* meanwhile (ledger_worker.py retries what failed).  Events of decommissions *)
(* are apart: the reconciliation queues proposals nobody may make.           *)
NothingIsStuck ==
  reconciled =>
    \A o \in OperationIds :
       \/ ~Unconfirmed(o)
       \/ \E p \in Before(o) \cup {o} : Confirmable(p)
       \/ \E e \in EventIds : OfRetirement(e) /\ o \in {ProposeOf(e), ReviewOf(e)}
=============================================================================

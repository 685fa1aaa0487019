-------------------------- MODULE AssetRegistry_proofs --------------------------
(***************************************************************************)
(* Retirements are whole, the history is queued, the ledger agrees with    *)
(* the rows and nothing queued is stuck, for any assets and events, any    *)
(* number of racing requests and any records older than the ledger.        *)
(***************************************************************************)
EXTENDS AssetRegistry, FieldLedgerContract_proofs

-----------------------------------------------------------------------------
(* The inductive invariant.                                                *)

(* A request says what rows of events say.  Nothing takes that back: the     *)
(* fields of an event that a proposal carries never change, a decision is    *)
(* final.  Only the row of an asset may go.                                  *)
RecordedIn(r, rows) ==
  \/ \E a \in AssetIds : r = RegisterAsset(a)
  \/ \E e \in EventIds : /\ rows[e] # None
                         /\ r = Proposal(e, rows[e].assetId, rows[e].organization)
  \/ \E e \in EventIds : /\ rows[e] # None
                         /\ rows[e].status \in Decisions
                         /\ r = Review(e, rows[e].status)
Recorded(r) == RecordedIn(r, events)

(* What is queued, or will be by the running reconciliation, was recorded.  *)
QueueIsRecorded ==
  /\ \A o \in OperationIds :
       outbox[o] # None =>
         /\ outbox[o].request.operationId = o
         /\ \/ Recorded(outbox[o].request)
            \/ \E a \in AssetIds : outbox[o].request = Decommissioning(a)
  /\ scan # None => \A r \in scan : Recorded(r)
  /\ \A e \in EventIds : latest[e] # None => events[e] # None

(* The foreign key of the events; who writes them. *)
EventsKeepTheirAsset ==
  \A e \in EventIds :
    events[e] # None => /\ assets[events[e].assetId] # None
                        /\ events[e].organization \in {"ContractorOrg", "OperatorOrg"}

(* The event of a decommission is the reference that keeps its asset.       *)
RetirementIsKept ==
  \A a \in AssetIds :
     /\ Retired(a) <=> ~Missing(Decommissioning(a))
     /\ Retired(a) => /\ events[DecomEvent[a]] # None
                      /\ events[DecomEvent[a]].organization = "OperatorOrg"
                      /\ events[DecomEvent[a]].assetId = a

(* The worker confirms exactly what the ledger applied.                     *)
CommittedIsApplied ==
  \A o \in OperationIds :
     Applied(o) <=> outbox[o] # None /\ outbox[o].status = "COMMITTED"

(* The records of the ledger are what the applied operations made of them.  *)
AssetRecordIsApplied(a) ==
  /\ Exists(<<"asset", a>>) <=> Applied(CreateOf(a))
  /\ OnLedger(a) <=> Applied(DecommissionOf(a))

EventRecordIsApplied(e) ==
  /\ Exists(<<"event", e>>) <=> Applied(ProposeOf(e))
  /\ Applied(ReviewOf(e)) => Applied(ProposeOf(e))
  /\ Exists(<<"event", e>>) =>
       /\ world[<<"event", e>>].assetId = events[e].assetId
       /\ world[<<"event", e>>].organization = events[e].organization
       /\ world[<<"event", e>>].status =
            IF Applied(ReviewOf(e)) THEN events[e].status ELSE "PROPOSED"

RecordsAreApplied ==
  /\ \A a \in AssetIds : AssetRecordIsApplied(a)
  /\ \A e \in EventIds : EventRecordIsApplied(e)

(* An operation that is queued, or that nobody has to queue.                *)
Covered(o) ==
  \/ outbox[o] # None
  \/ \E e \in EventIds : OfRetirement(e) /\ o \in {ProposeOf(e), ReviewOf(e)}

(* What is recorded while a reconciliation runs is queued by its handler,   *)
(* so that what it read is all that is missing when it commits.             *)
HistoryIsCovered ==
  /\ reconciled => \A r \in Records : Covered(r.operationId)
  /\ scan # None =>
       \A r \in Records : \/ Covered(r.operationId)
                          \/ \E q \in scan : q.operationId = r.operationId

Inv ==
  /\ TypeOK
  /\ QueueIsRecorded
  /\ EventsKeepTheirAsset
  /\ RetirementIsKept
  /\ CommittedIsApplied
  /\ RecordsAreApplied
  /\ HistoryIsCovered

-----------------------------------------------------------------------------
(* Operation ids and requests.                                             *)

LEMMA IdOfAsset ==
  ASSUME NEW a \in AssetIds
  PROVE  CreateOf(a) \in OperationIds /\ DecommissionOf(a) \in OperationIds
BY RegistryAssumption DEF RegistryOperationIds

LEMMA IdOfEvent ==
  ASSUME NEW e \in EventIds
  PROVE  ProposeOf(e) \in OperationIds /\ ReviewOf(e) \in OperationIds
BY RegistryAssumption DEF RegistryOperationIds

LEMMA OperationOf ==
  ASSUME NEW o \in OperationIds
  PROVE  \/ \E a \in AssetIds : o = CreateOf(a) \/ o = DecommissionOf(a)
         \/ \E e \in EventIds : o = ProposeOf(e) \/ o = ReviewOf(e)
BY RegistryAssumption DEF RegistryOperationIds

LEMMA DifferentAssets ==
  ASSUME NEW a, NEW b
  PROVE  /\ CreateOf(a) # DecommissionOf(b)
         /\ CreateOf(a) = CreateOf(b) => a = b
         /\ DecommissionOf(a) = DecommissionOf(b) => a = b
         /\ CreateOf(a) # ProposeOf(b) /\ CreateOf(a) # ReviewOf(b)
         /\ DecommissionOf(a) # ProposeOf(b) /\ DecommissionOf(a) # ReviewOf(b)
BY DEF CreateOf, DecommissionOf, ProposeOf, ReviewOf

LEMMA DifferentEvents ==
  ASSUME NEW e, NEW f
  PROVE  /\ ProposeOf(e) # ReviewOf(f)
         /\ ProposeOf(e) = ProposeOf(f) => e = f
         /\ ReviewOf(e) = ReviewOf(f) => e = f
BY DEF ProposeOf, ReviewOf

LEMMA RegisterAssetRequest ==
  ASSUME NEW a \in AssetIds
  PROVE  RegisterAsset(a) \in Requests
<1>1. [assetId |-> a] \in PayloadsOf["REGISTER_ASSET"]
  BY RegisterAssetPayload
<1>2. "REGISTER_ASSET" \in Actions /\ "OperatorOrg" \in Orgs
  BY ActionNames DEF Orgs
<1>. QED  BY <1>1, <1>2, IdOfAsset, RequestIn DEF RegisterAsset

LEMMA DecommissioningRequest ==
  ASSUME NEW a \in AssetIds
  PROVE  Decommissioning(a) \in Requests
<1>1. [assetId |-> a, decommissionedBy |-> "OperatorOrg"] \in PayloadsOf["DECOMMISSION_ASSET"]
  BY DecommissionAssetPayload
<1>2. "DECOMMISSION_ASSET" \in Actions /\ "OperatorOrg" \in Orgs
  BY ActionNames DEF Orgs
<1>. QED  BY <1>1, <1>2, IdOfAsset, RequestIn DEF Decommissioning

LEMMA ProposalRequest ==
  ASSUME NEW e \in EventIds, NEW a \in AssetIds, NEW organization \in Orgs
  PROVE  Proposal(e, a, organization) \in Requests
<1>1. [eventId |-> e, assetId |-> a] \in PayloadsOf["PROPOSE_EVENT"]
  BY ProposeEventPayload
<1>2. "PROPOSE_EVENT" \in Actions
  BY ActionNames
<1>. QED  BY <1>1, <1>2, IdOfEvent, RequestIn DEF Proposal

LEMMA ReviewRequest ==
  ASSUME NEW e \in EventIds, NEW decision \in Decisions
  PROVE  Review(e, decision) \in Requests
<1>1. [eventId |-> e, decision |-> decision] \in PayloadsOf["REVIEW_EVENT"]
  BY ReviewEventPayload
<1>2. "REVIEW_EVENT" \in Actions /\ "OperatorOrg" \in Orgs
  BY ActionNames DEF Orgs
<1>. QED  BY <1>1, <1>2, IdOfEvent, RequestIn DEF Review

LEMMA EventRow ==
  ASSUME TypeOK, NEW e \in EventIds, events[e] # None
  PROVE  events[e] \in EventRows
BY DEF TypeOK

LEMMA RecordedRequest ==
  ASSUME TypeOK, NEW r, Recorded(r)
  PROVE  r \in Requests
<1>1. ASSUME NEW a \in AssetIds, r = RegisterAsset(a)
      PROVE  r \in Requests
  BY <1>1, RegisterAssetRequest
<1>2. ASSUME NEW e \in EventIds, events[e] # None,
             r = Proposal(e, events[e].assetId, events[e].organization)
      PROVE  r \in Requests
  <2>1. events[e].assetId \in AssetIds /\ events[e].organization \in Orgs
    BY <1>2, EventRow DEF EventRows
  <2>. QED  BY <1>2, <2>1, ProposalRequest
<1>3. ASSUME NEW e \in EventIds, events[e].status \in Decisions,
             r = Review(e, events[e].status)
      PROVE  r \in Requests
  BY <1>3, ReviewRequest
<1>. QED  BY <1>1, <1>2, <1>3 DEF Recorded, RecordedIn

(* All records say what the tables say. *)
LEMMA RecordsAreRecorded ==
  ASSUME NEW r \in Records
  PROVE  Recorded(r)
BY DEF Records, Recorded, RecordedIn, ReviewedEvents

(* The id of a request that was recorded tells the request. *)
LEMMA RecordedOf ==
  ASSUME NEW r, NEW rows, RecordedIn(r, rows)
  PROVE  /\ \A a \in AssetIds : r.operationId # DecommissionOf(a)
         /\ \A a \in AssetIds : r.operationId = CreateOf(a) => r = RegisterAsset(a)
         /\ \A e \in EventIds :
              /\ r.operationId = ProposeOf(e) =>
                   /\ rows[e] # None
                   /\ r = Proposal(e, rows[e].assetId, rows[e].organization)
              /\ r.operationId = ReviewOf(e) =>
                   /\ rows[e] # None
                   /\ rows[e].status \in Decisions
                   /\ r = Review(e, rows[e].status)
<1>1. ASSUME NEW a \in AssetIds, r = RegisterAsset(a)
      PROVE  r.operationId = CreateOf(a)
  BY <1>1 DEF RegisterAsset
<1>2. ASSUME NEW e \in EventIds, rows[e] # None,
             r = Proposal(e, rows[e].assetId, rows[e].organization)
      PROVE  r.operationId = ProposeOf(e)
  BY <1>2 DEF Proposal
<1>3. ASSUME NEW e \in EventIds, r = Review(e, rows[e].status)
      PROVE  r.operationId = ReviewOf(e)
  BY <1>3 DEF Review
<1>. QED  BY <1>1, <1>2, <1>3, DifferentAssets, DifferentEvents DEF RecordedIn

-----------------------------------------------------------------------------
(* What an enqueueing commit does to the outbox.                           *)

QueuedFrom(rs, o) ==
  \E r \in rs : r.operationId = o /\ outbox'[o] = [request |-> r, status |-> "PENDING"]

LEMMA Enqueued ==
  ASSUME TypeOK, NEW rs \in SUBSET Requests, Enqueue(rs)
  PROVE  /\ outbox' \in [OperationIds -> OutboxRows \cup {None}]
         /\ latest' \in [EventIds -> OperationIds \cup {None}]
         /\ \A o \in OperationIds :
              IF \E r \in rs : r.operationId = o
              THEN outbox[o] = None /\ QueuedFrom(rs, o)
              ELSE outbox'[o] = outbox[o]
         /\ \A e \in EventIds :
              \/ latest'[e] = latest[e]
              \/ \E r \in rs : r.operationId \in {ProposeOf(e), ReviewOf(e)}
<1>1. ASSUME NEW o \in OperationIds, \E r \in rs : r.operationId = o
      PROVE  outbox[o] = None /\ QueuedFrom(rs, o)
  <2> DEFINE q == CHOOSE r \in rs : r.operationId = o
  <2>1. q \in rs /\ q.operationId = o
    BY <1>1
  <2>2. outbox'[o] = [request |-> q, status |-> "PENDING"]
    BY <1>1 DEF Enqueue
  <2>3. outbox[o] = None
    BY <2>1 DEF Enqueue, Missing
  <2>. HIDE DEF q
  <2>. QED  BY <2>1, <2>2, <2>3 DEF QueuedFrom
<1>2. ASSUME NEW o \in OperationIds, ~(\E r \in rs : r.operationId = o)
      PROVE  outbox'[o] = outbox[o]
  BY <1>2 DEF Enqueue
<1>3. \A o \in OperationIds : outbox'[o] \in OutboxRows \cup {None}
  <2>. TAKE o \in OperationIds
  <2>1. CASE \E r \in rs : r.operationId = o
    <3>1. PICK r \in rs : outbox'[o] = [request |-> r, status |-> "PENDING"]
      BY <1>1, <2>1 DEF QueuedFrom
    <3>. QED  BY <3>1 DEF OutboxRows, LedgerStatus
  <2>2. CASE ~(\E r \in rs : r.operationId = o)
    BY <1>2, <2>2 DEF TypeOK
  <2>. QED  BY <2>1, <2>2
<1>4. outbox' \in [OperationIds -> OutboxRows \cup {None}]
  <2>1. outbox' = [o \in OperationIds |-> outbox'[o]]
    BY DEF Enqueue
  <2>. QED  BY <1>3, <2>1
<1>5. \A e \in EventIds :
        /\ latest'[e] \in OperationIds \cup {None}
        /\ latest'[e] = latest[e]
           \/ \E r \in rs : r.operationId \in {ProposeOf(e), ReviewOf(e)}
  <2>. TAKE e \in EventIds
  <2>1. ProposeOf(e) \in OperationIds /\ ReviewOf(e) \in OperationIds
    BY IdOfEvent
  <2>2. latest[e] \in OperationIds \cup {None}
    BY DEF TypeOK
  <2>3. latest'[e] = IF \E r \in rs : r.operationId = ReviewOf(e) THEN ReviewOf(e)
                     ELSE IF \E r \in rs : r.operationId = ProposeOf(e) THEN ProposeOf(e)
                     ELSE latest[e]
    BY DEF Enqueue
  <2>. QED  BY <2>1, <2>2, <2>3
<1>6. latest' \in [EventIds -> OperationIds \cup {None}]
  <2>1. latest' = [e \in EventIds |-> latest'[e]]
    BY DEF Enqueue
  <2>. QED  BY <1>5, <2>1
<1>. QED  BY <1>1, <1>2, <1>4, <1>5, <1>6

(* A commit that enqueues one request. *)
LEMMA EnqueuedOne ==
  ASSUME TypeOK, NEW r \in Requests, Enqueue({r})
  PROVE  /\ r.operationId \in OperationIds
         /\ outbox' \in [OperationIds -> OutboxRows \cup {None}]
         /\ latest' \in [EventIds -> OperationIds \cup {None}]
         /\ outbox[r.operationId] = None
         /\ outbox'[r.operationId] = [request |-> r, status |-> "PENDING"]
         /\ \A o \in OperationIds : o # r.operationId => outbox'[o] = outbox[o]
         /\ \A e \in EventIds :
              latest'[e] = latest[e] \/ r.operationId \in {ProposeOf(e), ReviewOf(e)}
<1> DEFINE rs == {r}
<1>1. rs \in SUBSET Requests /\ r.operationId \in OperationIds
  BY RequestShape
<1>2. \A q : q \in rs <=> q = r
  OBVIOUS
<1>3. Enqueue(rs)
  OBVIOUS
<1>. HIDE DEF rs
<1>4. /\ outbox' \in [OperationIds -> OutboxRows \cup {None}]
      /\ latest' \in [EventIds -> OperationIds \cup {None}]
  BY <1>1, <1>3, Enqueued
<1>5. \A o \in OperationIds :
        IF o = r.operationId THEN outbox[o] = None /\ QueuedFrom(rs, o)
                             ELSE outbox'[o] = outbox[o]
  BY <1>1, <1>2, <1>3, Enqueued
<1>6. \A e \in EventIds :
        latest'[e] = latest[e] \/ r.operationId \in {ProposeOf(e), ReviewOf(e)}
  BY <1>1, <1>2, <1>3, Enqueued
<1>7. outbox'[r.operationId] = [request |-> r, status |-> "PENDING"]
  BY <1>1, <1>2, <1>5 DEF QueuedFrom
<1>. QED  BY <1>1, <1>4, <1>5, <1>6, <1>7

-----------------------------------------------------------------------------
(* Type correctness.                                                       *)

LEMMA CreateAssetRowType ==
  ASSUME TypeOK, NEW a \in AssetIds, NEW status \in Asked, CreateAssetRow(a, status)
  PROVE  TypeOK'
<1>1. ContractTypeOK'
  BY IdleKeepsType DEF TypeOK, CreateAssetRow
<1>2. [status |-> status, retired |-> FALSE] \in AssetRows
  BY RegistryAssumption DEF AssetRows
<1>3. assets' \in [AssetIds -> AssetRows \cup {None}]
  BY <1>2 DEF TypeOK, CreateAssetRow
<1>4. /\ outbox' \in [OperationIds -> OutboxRows \cup {None}]
      /\ latest' \in [EventIds -> OperationIds \cup {None}]
  BY RegisterAssetRequest, EnqueuedOne DEF CreateAssetRow
<1>. QED  BY <1>1, <1>3, <1>4 DEF TypeOK, CreateAssetRow

LEMMA ProposeMaintenanceType ==
  ASSUME TypeOK, NEW e \in EventIds, NEW a \in AssetIds, ProposeMaintenance(e, a)
  PROVE  TypeOK'
<1>1. ContractTypeOK'
  BY IdleKeepsType DEF TypeOK, ProposeMaintenance
<1>2. [assetId |-> a, organization |-> "ContractorOrg", status |-> "PROPOSED",
       ledger |-> "PENDING"] \in EventRows
  BY DEF EventRows, Orgs, LedgerStatus
<1>3. events' \in [EventIds -> EventRows \cup {None}]
  BY <1>2 DEF TypeOK, ProposeMaintenance
<1>4. "ContractorOrg" \in Orgs
  BY DEF Orgs
<1>5. /\ outbox' \in [OperationIds -> OutboxRows \cup {None}]
      /\ latest' \in [EventIds -> OperationIds \cup {None}]
  BY <1>4, ProposalRequest, EnqueuedOne DEF ProposeMaintenance
<1>. QED  BY <1>1, <1>3, <1>5 DEF TypeOK, ProposeMaintenance

LEMMA ReviewEventRowType ==
  ASSUME TypeOK, NEW e \in EventIds, NEW decision \in Decisions, ReviewEventRow(e, decision)
  PROVE  TypeOK'
<1>1. ContractTypeOK'
  BY IdleKeepsType DEF TypeOK, ReviewEventRow
<1>2. events[e] \in EventRows
  BY EventRow DEF ReviewEventRow
<1>3. [events[e] EXCEPT !.status = decision, !.ledger = "PENDING"] \in EventRows
  BY <1>2 DEF EventRows, LedgerStatus
<1>4. events' = [events EXCEPT ![e] = [events[e] EXCEPT !.status = decision,
                                                        !.ledger = "PENDING"]]
  BY <1>2 DEF ReviewEventRow, TypeOK, EventRows
<1>5. events' \in [EventIds -> EventRows \cup {None}]
  BY <1>3, <1>4 DEF TypeOK
<1>6. /\ outbox' \in [OperationIds -> OutboxRows \cup {None}]
      /\ latest' \in [EventIds -> OperationIds \cup {None}]
  BY ReviewRequest, EnqueuedOne DEF ReviewEventRow
<1>. QED  BY <1>1, <1>5, <1>6 DEF TypeOK, ReviewEventRow

LEMMA AssetRow ==
  ASSUME TypeOK, NEW a \in AssetIds, assets[a] # None
  PROVE  assets[a] \in AssetRows /\ assets[a].status \in AssetStatus
BY DEF TypeOK, AssetRows

LEMMA LoadType ==
  ASSUME TypeOK, NEW s \in Requesters, NEW a \in AssetIds, NEW change,
         NEW assigned \in AssetStatus, Load(s, a, change, assigned)
  PROVE  TypeOK'
<1>1. ContractTypeOK'
  BY IdleKeepsType DEF TypeOK, Load
<1>2. assets[a].status \in AssetStatus
  BY AssetRow DEF Load
<1>3. [change |-> change, assetId |-> a, loaded |-> assets[a].status, assigned |-> assigned]
        \in Sessions
  BY <1>2 DEF Load, Sessions
<1>4. requests' \in [Requesters -> Sessions \cup {None}]
  BY <1>3 DEF TypeOK, Load
<1>. QED  BY <1>1, <1>4 DEF TypeOK, Load, tables

LEMMA CheckType ==
  ASSUME TypeOK, NEW s \in Requesters, NEW a \in AssetIds,
         \/ \E status \in Asked : UpdateCheck(s, a, status)
         \/ DeleteCheck(s, a)
         \/ DecommissionCheck(s, a)
  PROVE  TypeOK'
<1>1. ASSUME NEW status \in Asked, UpdateCheck(s, a, status)
      PROVE  TypeOK'
  BY <1>1, LoadType, RegistryAssumption DEF UpdateCheck
<1>2. CASE DeleteCheck(s, a)
  <2>1. assets[a].status \in AssetStatus
    BY <1>2, AssetRow DEF DeleteCheck, Load
  <2>. QED  BY <1>2, <2>1, LoadType DEF DeleteCheck
<1>3. CASE DecommissionCheck(s, a)
  BY <1>3, LoadType DEF DecommissionCheck, AssetStatus
<1>. QED  BY <1>1, <1>2, <1>3

LEMMA CloseType ==
  ASSUME TypeOK, NEW s \in Requesters, Close(s)
  PROVE  requests' \in [Requesters -> Sessions \cup {None}]
BY DEF TypeOK, Close

LEMMA Session ==
  ASSUME TypeOK, NEW s \in Requesters, requests[s] # None
  PROVE  /\ requests[s] \in Sessions
         /\ requests[s].assetId \in AssetIds
         /\ requests[s].assigned \in AssetStatus
BY DEF TypeOK, Sessions

LEMMA UpdateCommitType ==
  ASSUME TypeOK, NEW s \in Requesters, UpdateCommit(s)
  PROVE  TypeOK'
<1> DEFINE a == requests[s].assetId
<1>1. ContractTypeOK'
  BY IdleKeepsType DEF TypeOK, UpdateCommit
<1>2. a \in AssetIds /\ assets[a] # None
  BY Session DEF UpdateCommit, Open
<1>3. assets[a] \in AssetRows
  BY <1>2, AssetRow
<1>4. StatusAfter(s) \in AssetStatus
  BY <1>2, Session, AssetRow DEF StatusAfter, UpdateCommit, Open
<1>5. [assets[a] EXCEPT !.status = StatusAfter(s)] \in AssetRows
  BY <1>3, <1>4 DEF AssetRows
<1>6. assets' = [assets EXCEPT ![a] = [assets[a] EXCEPT !.status = StatusAfter(s)]]
  BY <1>2 DEF UpdateCommit, TypeOK
<1>. HIDE DEF a
<1>7. assets' \in [AssetIds -> AssetRows \cup {None}]
  BY <1>5, <1>6 DEF TypeOK
<1>8. requests' \in [Requesters -> Sessions \cup {None}]
  BY CloseType DEF UpdateCommit
<1>. QED  BY <1>1, <1>7, <1>8 DEF TypeOK, UpdateCommit

LEMMA DeleteCommitType ==
  ASSUME TypeOK, NEW s \in Requesters, DeleteCommit(s)
  PROVE  TypeOK'
<1>1. ContractTypeOK'
  BY IdleKeepsType DEF TypeOK, DeleteCommit
<1>2. assets' \in [AssetIds -> AssetRows \cup {None}]
  BY DEF TypeOK, DeleteCommit
<1>3. requests' \in [Requesters -> Sessions \cup {None}]
  BY CloseType DEF DeleteCommit
<1>. QED  BY <1>1, <1>2, <1>3 DEF TypeOK, DeleteCommit

LEMMA DecommissionCommitType ==
  ASSUME TypeOK, NEW s \in Requesters, DecommissionCommit(s)
  PROVE  TypeOK'
<1> DEFINE a == requests[s].assetId
           row == [status |-> "DECOMMISSIONED", retired |-> TRUE]
           record == [assetId |-> a, organization |-> "OperatorOrg",
                      status |-> "APPROVED", ledger |-> "PENDING"]
<1>1. ContractTypeOK'
  BY IdleKeepsType DEF TypeOK, DecommissionCommit
<1>2. a \in AssetIds
  BY Session DEF DecommissionCommit, Open
<1>3. row \in AssetRows
  BY DEF AssetRows, AssetStatus
<1>4. record \in EventRows
  BY <1>2 DEF EventRows, Orgs, Decisions, LedgerStatus
<1>5. /\ assets' = [assets EXCEPT ![a] = row]
      /\ events' = [events EXCEPT ![DecomEvent[a]] = record]
      /\ Enqueue({Decommissioning(a)})
      /\ Close(s)
      /\ UNCHANGED <<scan, reconciled>>
  BY DEF DecommissionCommit
<1>. HIDE DEF a, row, record
<1>6. assets' \in [AssetIds -> AssetRows \cup {None}]
  BY <1>3, <1>5 DEF TypeOK
<1>7. events' \in [EventIds -> EventRows \cup {None}]
  BY <1>4, <1>5 DEF TypeOK
<1>8. /\ outbox' \in [OperationIds -> OutboxRows \cup {None}]
      /\ latest' \in [EventIds -> OperationIds \cup {None}]
  BY <1>2, <1>5, DecommissioningRequest, EnqueuedOne
<1>9. requests' \in [Requesters -> Sessions \cup {None}]
  BY <1>5, CloseType
<1>. QED  BY <1>1, <1>5, <1>6, <1>7, <1>8, <1>9 DEF TypeOK

LEMMA RollbackType ==
  ASSUME TypeOK, NEW s \in Requesters, Rollback(s)
  PROVE  TypeOK'
<1>1. ContractTypeOK'
  BY IdleKeepsType DEF TypeOK, Rollback
<1>2. requests' \in [Requesters -> Sessions \cup {None}]
  BY CloseType DEF Rollback
<1>. QED  BY <1>1, <1>2 DEF TypeOK, Rollback, tables

LEMMA ReconcileType ==
  ASSUME TypeOK, ReconcileStep
  PROVE  TypeOK'
<1>1. ContractTypeOK'
  BY IdleKeepsType DEF TypeOK, ReconcileStep, ReconcileRead, ReconcileCommit, ReconcileFail
<1>2. CASE ReconcileRead
  <2>1. scan' \subseteq Requests
    BY <1>2, RecordsAreRecorded, RecordedRequest DEF ReconcileRead
  <2>. QED  BY <1>1, <1>2, <2>1 DEF TypeOK, ReconcileRead, tables
<1>3. CASE ReconcileCommit
  <2>1. scan \in SUBSET Requests
    BY <1>3 DEF ReconcileCommit, TypeOK
  <2>2. /\ outbox' \in [OperationIds -> OutboxRows \cup {None}]
        /\ latest' \in [EventIds -> OperationIds \cup {None}]
    BY <1>3, <2>1, Enqueued DEF ReconcileCommit
  <2>. QED  BY <1>1, <1>3, <2>2 DEF TypeOK, ReconcileCommit
<1>4. CASE ReconcileFail
  BY <1>1, <1>4 DEF TypeOK, ReconcileFail, tables
<1>. QED  BY <1>2, <1>3, <1>4 DEF ReconcileStep

LEMMA OutboxRow ==
  ASSUME TypeOK, NEW o \in OperationIds, outbox[o] # None
  PROVE  /\ outbox[o] \in OutboxRows
         /\ outbox[o].request \in Requests
BY DEF TypeOK, OutboxRows

(* What the answer of the ledger does to the rows. *)
LEMMA Settled ==
  ASSUME TypeOK, QueueIsRecorded, NEW o \in OperationIds, outbox[o] # None,
         NEW status \in LedgerStatus, Settle(o, status)
  PROVE  /\ outbox'[o] = [request |-> outbox[o].request, status |-> status]
         /\ \A p \in OperationIds : p # o => outbox'[p] = outbox[p]
         /\ outbox' \in [OperationIds -> OutboxRows \cup {None}]
         /\ events' \in [EventIds -> EventRows \cup {None}]
         /\ \A e \in EventIds :
              /\ events'[e] # None <=> events[e] # None
              /\ events'[e].assetId = events[e].assetId
              /\ events'[e].organization = events[e].organization
              /\ events'[e].status = events[e].status
<1>1. outbox[o] \in OutboxRows
  BY OutboxRow
<1>2. outbox' = [outbox EXCEPT ![o] = [outbox[o] EXCEPT !.status = status]]
  BY <1>1 DEF Settle, TypeOK, OutboxRows
<1>3. [outbox[o] EXCEPT !.status = status] = [request |-> outbox[o].request, status |-> status]
  BY <1>1 DEF OutboxRows
<1>4. [request |-> outbox[o].request, status |-> status] \in OutboxRows
  BY <1>1 DEF OutboxRows
<1>5. outbox' \in [OperationIds -> OutboxRows \cup {None}]
  BY <1>2, <1>3, <1>4 DEF TypeOK
<1>6. ASSUME NEW e \in EventIds
      PROVE  /\ events'[e] \in EventRows \cup {None}
             /\ events'[e] # None <=> events[e] # None
             /\ events'[e].assetId = events[e].assetId
             /\ events'[e].organization = events[e].organization
             /\ events'[e].status = events[e].status
  <2>1. CASE latest[e] = o
    <3>1. events[e] # None
      BY <2>1, NoneIsNoRow DEF QueueIsRecorded
    <3>2. events[e] \in EventRows
      BY <3>1, EventRow
    <3>3. events'[e] = [events[e] EXCEPT !.ledger = status]
      BY <2>1 DEF Settle
    <3>4. events'[e] \in EventRows
      BY <3>2, <3>3 DEF EventRows
    <3>. QED  BY <3>1, <3>2, <3>3, <3>4, NoneIsNoRow DEF EventRows
  <2>2. CASE latest[e] # o
    BY <2>2 DEF Settle, TypeOK
  <2>. QED  BY <2>1, <2>2
<1>7. events' \in [EventIds -> EventRows \cup {None}]
  <2>1. events' = [e \in EventIds |-> events'[e]]
    BY DEF Settle
  <2>. QED  BY <1>6, <2>1
<1>8. \A p \in OperationIds : p # o => outbox'[p] = outbox[p]
  BY <1>2 DEF TypeOK
<1>9. outbox'[o] = [request |-> outbox[o].request, status |-> status]
  BY <1>2, <1>3 DEF TypeOK
<1>. QED  BY <1>5, <1>6, <1>7, <1>8, <1>9

LEMMA DeliveryType ==
  ASSUME TypeOK, QueueIsRecorded, NEW o \in OperationIds, Confirm(o) \/ Fail(o)
  PROVE  TypeOK'
<1>1. outbox[o] # None /\ outbox[o].request \in Requests
  BY OutboxRow DEF Confirm, Fail, Confirmable, Unconfirmed
<1>2. PICK status \in LedgerStatus : Settle(o, status)
  BY DEF Confirm, Fail, LedgerStatus
<1>3. ContractTypeOK'
  <2>1. CASE Confirm(o)
    BY <1>1, <2>1, DeliverKeepsType DEF TypeOK, Confirm
  <2>2. CASE Fail(o)
    BY <2>2, IdleKeepsType DEF TypeOK, Fail
  <2>. QED  BY <2>1, <2>2
<1>4. /\ outbox' \in [OperationIds -> OutboxRows \cup {None}]
      /\ events' \in [EventIds -> EventRows \cup {None}]
  BY <1>1, <1>2, Settled
<1>. QED  BY <1>2, <1>3, <1>4 DEF TypeOK, Settle

-----------------------------------------------------------------------------
(* The steps that matter to the rest of the invariant.                     *)

(* Checks, rollbacks and a reconciliation that ends without a commit.       *)
Quiet == UNCHANGED <<contractVars, tables, reconciled>> /\ scan' \in {scan, None}

LEMMA Steps ==
  ASSUME [Next]_vars
  PROVE  \/ \E a \in AssetIds, status \in Asked : CreateAssetRow(a, status)
         \/ \E e \in EventIds, a \in AssetIds : ProposeMaintenance(e, a)
         \/ \E e \in EventIds, decision \in Decisions : ReviewEventRow(e, decision)
         \/ \E s \in Requesters : UpdateCommit(s)
         \/ \E s \in Requesters : DeleteCommit(s)
         \/ \E s \in Requesters : DecommissionCommit(s)
         \/ ReconcileRead
         \/ ReconcileCommit
         \/ \E o \in OperationIds : Confirm(o) \/ Fail(o)
         \/ Quiet
<1>1. ASSUME NEW s \in Requesters, NEW a \in AssetIds,
             \/ \E status \in Asked : UpdateCheck(s, a, status)
             \/ DeleteCheck(s, a)
             \/ DecommissionCheck(s, a)
      PROVE  Quiet
  <2>1. PICK change, assigned : Load(s, a, change, assigned)
    BY <1>1 DEF UpdateCheck, DeleteCheck, DecommissionCheck
  <2>. QED  BY <2>1 DEF Load, Quiet
<1>2. ASSUME NEW s \in Requesters, Rollback(s)
      PROVE  Quiet
  BY <1>2 DEF Rollback, Quiet
<1>3. CASE ReconcileFail
  BY <1>3 DEF ReconcileFail, Quiet
<1>4. CASE UNCHANGED vars
  BY <1>4 DEF vars, Quiet
<1>5. CASE Next
  BY <1>1, <1>2, <1>3, <1>5 DEF Next, RequestStep, ReconcileStep, DeliveryStep
<1>. QED  BY <1>4, <1>5

LEMMA NextKeepsType ==
  ASSUME TypeOK, QueueIsRecorded, [Next]_vars
  PROVE  TypeOK'
<1>1. CASE RequestStep
  BY <1>1, CreateAssetRowType, ProposeMaintenanceType, ReviewEventRowType, CheckType,
     UpdateCommitType, DeleteCommitType, DecommissionCommitType, RollbackType
     DEF RequestStep
<1>2. CASE DeliveryStep
  BY <1>2, DeliveryType DEF DeliveryStep
<1>3. CASE UNCHANGED vars
  <2>1. ContractTypeOK'
    BY <1>3, IdleKeepsType DEF TypeOK, vars
  <2>. QED  BY <1>3, <2>1 DEF TypeOK, vars, tables
<1>. QED  BY <1>1, <1>2, <1>3, ReconcileType DEF Next

(* An event keeps its asset and its organization, and its decision. *)
EventKept(e) ==
  events[e] # None =>
    /\ events'[e] # None
    /\ events'[e].assetId = events[e].assetId
    /\ events'[e].organization = events[e].organization
    /\ events[e].status \in Decisions => events'[e].status = events[e].status

LEMMA EventsAreKept ==
  ASSUME TypeOK, QueueIsRecorded, [Next]_vars
  PROVE  \A e \in EventIds : EventKept(e)
<1>1. ASSUME UNCHANGED events
      PROVE  \A e \in EventIds : EventKept(e)
  BY <1>1 DEF EventKept
<1>2. ASSUME NEW e \in EventIds, NEW row, events[e] = None, events' = [events EXCEPT ![e] = row]
      PROVE  \A f \in EventIds : EventKept(f)
  BY <1>2 DEF EventKept, TypeOK
<1>3. ASSUME NEW e \in EventIds, NEW a \in AssetIds, ProposeMaintenance(e, a)
      PROVE  \A f \in EventIds : EventKept(f)
  BY <1>2, <1>3 DEF ProposeMaintenance
<1>4. ASSUME NEW e \in EventIds, NEW decision \in Decisions, ReviewEventRow(e, decision)
      PROVE  \A f \in EventIds : EventKept(f)
  <2>. TAKE f \in EventIds
  <2>1. CASE f = e
    <3>1. events[e] \in EventRows /\ events[e].status = "PROPOSED"
      BY <1>4, EventRow DEF ReviewEventRow
    <3>2. events'[e] = [events[e] EXCEPT !.status = decision, !.ledger = "PENDING"]
      BY <1>4 DEF ReviewEventRow, TypeOK
    <3>3. events'[e] \in EventRows
      BY <3>1, <3>2 DEF EventRows, LedgerStatus
    <3>4. /\ events'[e].assetId = events[e].assetId
          /\ events'[e].organization = events[e].organization
      BY <3>1, <3>2 DEF EventRows
    <3>. QED  BY <2>1, <3>1, <3>3, <3>4, NoneIsNoRow DEF EventKept, Decisions
  <2>2. CASE f # e
    BY <1>4, <2>2 DEF ReviewEventRow, TypeOK, EventKept
  <2>. QED  BY <2>1, <2>2
<1>5. ASSUME NEW s \in Requesters, DecommissionCommit(s)
      PROVE  \A f \in EventIds : EventKept(f)
  <2>1. requests[s].assetId \in AssetIds
    BY <1>5, Session DEF DecommissionCommit, Open
  <2>2. DecomEvent[requests[s].assetId] \in EventIds
    BY <2>1, RegistryAssumption
  <2>. QED  BY <1>2, <1>5, <2>2 DEF DecommissionCommit
<1>6. ASSUME NEW o \in OperationIds, Confirm(o) \/ Fail(o)
      PROVE  \A f \in EventIds : EventKept(f)
  <2>1. outbox[o] # None
    BY <1>6 DEF Confirm, Fail, Confirmable, Unconfirmed
  <2>2. PICK status \in LedgerStatus : Settle(o, status)
    BY <1>6 DEF Confirm, Fail, LedgerStatus
  <2>. QED  BY <2>1, <2>2, Settled DEF EventKept
<1>. QED  BY <1>1, <1>3, <1>4, <1>5, <1>6, Steps
          DEF CreateAssetRow, UpdateCommit, DeleteCommit, ReconcileRead, ReconcileCommit,
              Quiet, tables

LEMMA RecordedStays ==
  ASSUME \A e \in EventIds : EventKept(e), NEW r, Recorded(r)
  PROVE  RecordedIn(r, events')
BY DEF EventKept, Recorded, RecordedIn

-----------------------------------------------------------------------------
(* What is queued was recorded.                                            *)

(* Rows of the outbox that were there stay, new ones are requests of rs.    *)
Queues(rs) ==
  /\ \A o \in OperationIds :
       IF \E r \in rs : r.operationId = o
       THEN outbox[o] = None /\ QueuedFrom(rs, o)
       ELSE outbox'[o] = outbox[o]
  /\ \A e \in EventIds :
       \/ latest'[e] = latest[e]
       \/ \E r \in rs : r.operationId \in {ProposeOf(e), ReviewOf(e)}

LEMMA EnqueueQueues ==
  ASSUME TypeOK, NEW rs \in SUBSET Requests, Enqueue(rs)
  PROVE  Queues(rs)
BY Enqueued DEF Queues

LEMMA QueueStaysRecorded ==
  ASSUME TypeOK, QueueIsRecorded, \A e \in EventIds : EventKept(e),
         NEW rs \in SUBSET Requests, Queues(rs), scan' = scan \/ scan' = None,
         \A r \in rs : \/ RecordedIn(r, events')
                       \/ \E a \in AssetIds : r = Decommissioning(a)
  PROVE  QueueIsRecorded'
<1>1. ASSUME NEW o \in OperationIds, outbox'[o] # None
      PROVE  /\ outbox'[o].request.operationId = o
             /\ \/ RecordedIn(outbox'[o].request, events')
                \/ \E a \in AssetIds : outbox'[o].request = Decommissioning(a)
  <2>1. CASE \E r \in rs : r.operationId = o
    <3>1. PICK r \in rs : r.operationId = o /\ outbox'[o] = [request |-> r, status |-> "PENDING"]
      BY <2>1 DEF Queues, QueuedFrom
    <3>2. outbox'[o].request = r
      BY <3>1
    <3>. QED  BY <3>1, <3>2
  <2>2. CASE ~(\E r \in rs : r.operationId = o)
    BY <1>1, <2>2, RecordedStays DEF Queues, QueueIsRecorded
  <2>. QED  BY <2>1, <2>2
<1>2. ASSUME scan' # None, NEW r \in scan'
      PROVE  RecordedIn(r, events')
  BY <1>2, RecordedStays DEF QueueIsRecorded
<1>3. ASSUME NEW e \in EventIds, latest'[e] # None
      PROVE  events'[e] # None
  <2>1. CASE latest'[e] = latest[e]
    BY <1>3, <2>1 DEF QueueIsRecorded, EventKept
  <2>2. ASSUME NEW r \in rs, r.operationId \in {ProposeOf(e), ReviewOf(e)}
        PROVE  events'[e] # None
    <3>1. ~(\E a \in AssetIds : r = Decommissioning(a))
      BY <2>2, DifferentAssets DEF Decommissioning
    <3>. QED  BY <2>2, <3>1, RecordedOf
  <2>. QED  BY <2>1, <2>2 DEF Queues
<1>. QED  BY <1>1, <1>2, <1>3 DEF QueueIsRecorded, Recorded

LEMMA NothingQueues ==
  ASSUME UNCHANGED <<outbox, latest>>
  PROVE  Queues({})
BY DEF Queues

LEMMA QueueIsRecordedStep ==
  ASSUME TypeOK, QueueIsRecorded, [Next]_vars
  PROVE  QueueIsRecorded'
<1>1. \A e \in EventIds : EventKept(e)
  BY EventsAreKept
<1>2. ASSUME UNCHANGED <<outbox, latest>>, scan' = scan \/ scan' = None
      PROVE  QueueIsRecorded'
  <2>1. Queues({}) /\ {} \in SUBSET Requests
    BY <1>2, NothingQueues
  <2>. QED  BY <1>1, <1>2, <2>1, QueueStaysRecorded
<1>3. ASSUME NEW r \in Requests, Enqueue({r}), scan' = scan,
             \/ RecordedIn(r, events')
             \/ \E a \in AssetIds : r = Decommissioning(a)
      PROVE  QueueIsRecorded'
  <2>1. {r} \in SUBSET Requests
    OBVIOUS
  <2>2. Queues({r})
    BY <1>3, <2>1, EnqueueQueues
  <2>. QED  BY <1>1, <1>3, <2>1, <2>2, QueueStaysRecorded
<1>4. ASSUME NEW a \in AssetIds, NEW status \in Asked, CreateAssetRow(a, status)
      PROVE  QueueIsRecorded'
  BY <1>3, <1>4, RegisterAssetRequest DEF CreateAssetRow, RecordedIn
<1>5. ASSUME NEW e \in EventIds, NEW a \in AssetIds, ProposeMaintenance(e, a)
      PROVE  QueueIsRecorded'
  <2> DEFINE r == Proposal(e, a, "ContractorOrg")
             row == [assetId |-> a, organization |-> "ContractorOrg",
                     status |-> "PROPOSED", ledger |-> "PENDING"]
  <2>1. "ContractorOrg" \in Orgs /\ row \in EventRows
    BY DEF Orgs, EventRows, LedgerStatus
  <2>2. r \in Requests
    BY <2>1, ProposalRequest
  <2>3. events'[e] = row
    BY <1>5 DEF ProposeMaintenance, TypeOK
  <2>4. events'[e] # None /\ r = Proposal(e, events'[e].assetId, events'[e].organization)
    BY <2>1, <2>3, NoneIsNoRow
  <2>5. RecordedIn(r, events')
    BY <2>4 DEF RecordedIn
  <2>. HIDE DEF r
  <2>. QED  BY <1>3, <1>5, <2>2, <2>5 DEF ProposeMaintenance, r
<1>6. ASSUME NEW e \in EventIds, NEW decision \in Decisions, ReviewEventRow(e, decision)
      PROVE  QueueIsRecorded'
  <2>1. events[e] \in EventRows
    BY <1>6, EventRow DEF ReviewEventRow
  <2>2. events'[e] = [events[e] EXCEPT !.status = decision, !.ledger = "PENDING"]
    BY <1>6 DEF ReviewEventRow, TypeOK
  <2>3. events'[e].status = decision
    BY <2>1, <2>2 DEF EventRows
  <2>4. events'[e] # None
    BY <1>1, <1>6 DEF EventKept, ReviewEventRow
  <2>5. RecordedIn(Review(e, decision), events')
    BY <2>3, <2>4 DEF RecordedIn
  <2>. QED  BY <1>3, <1>6, <2>5, ReviewRequest DEF ReviewEventRow
<1>7. ASSUME NEW s \in Requesters, DecommissionCommit(s)
      PROVE  QueueIsRecorded'
  <2>1. requests[s].assetId \in AssetIds
    BY <1>7, Session DEF DecommissionCommit, Open
  <2>. QED  BY <1>3, <1>7, <2>1, DecommissioningRequest DEF DecommissionCommit
<1>8. CASE ReconcileRead
  <2>1. \A r \in scan' : RecordedIn(r, events')
    BY <1>8, RecordsAreRecorded DEF ReconcileRead, tables, Recorded
  <2>. QED  BY <1>8, <2>1 DEF ReconcileRead, tables, QueueIsRecorded, Recorded
<1>9. CASE ReconcileCommit
  <2>1. scan \in SUBSET Requests
    BY <1>9 DEF ReconcileCommit, TypeOK
  <2>2. Queues(scan)
    BY <1>9, <2>1, EnqueueQueues DEF ReconcileCommit
  <2>3. \A r \in scan : RecordedIn(r, events')
    BY <1>1, <1>9, RecordedStays DEF ReconcileCommit, QueueIsRecorded
  <2>. QED  BY <1>1, <1>9, <2>1, <2>2, <2>3, QueueStaysRecorded DEF ReconcileCommit
<1>10. ASSUME NEW o \in OperationIds, Confirm(o) \/ Fail(o)
       PROVE  QueueIsRecorded'
  <2>1. outbox[o] # None
    BY <1>10 DEF Confirm, Fail, Confirmable, Unconfirmed
  <2>2. PICK status \in LedgerStatus : Settle(o, status)
    BY <1>10 DEF Confirm, Fail, LedgerStatus
  <2>3. ASSUME NEW p \in OperationIds, outbox'[p] # None
        PROVE  outbox[p] # None /\ outbox'[p].request = outbox[p].request
    <3>1. CASE p = o
      <4>1. outbox'[o] = [request |-> outbox[o].request, status |-> status]
        BY <2>1, <2>2, Settled
      <4>. QED  BY <2>1, <3>1, <4>1
    <3>2. CASE p # o
      BY <2>1, <2>2, <2>3, <3>2, Settled
    <3>. QED  BY <3>1, <3>2
  <2>4. latest' = latest /\ scan' = scan
    BY <2>2 DEF Settle
  <2>. QED  BY <1>1, <2>3, <2>4, RecordedStays DEF QueueIsRecorded, EventKept, Recorded
<1>. QED  BY <1>2, <1>4, <1>5, <1>6, <1>7, <1>8, <1>9, <1>10, Steps
          DEF UpdateCommit, DeleteCommit, Quiet, tables

-----------------------------------------------------------------------------
(* What a step does to an asset, to an event and to the outbox.            *)

AssetStays(a) ==
  /\ assets'[a] # None <=> assets[a] # None
  /\ assets[a] # None => assets'[a].retired = assets[a].retired

Appears(a) ==
  /\ assets[a] = None
  /\ assets'[a] # None /\ ~assets'[a].retired
  /\ outbox'[CreateOf(a)] # None

Disappears(a) ==
  /\ assets'[a] = None
  /\ ~Referenced(a)
  /\ UNCHANGED <<events, outbox>>

Retires(a) ==
  /\ assets[a] # None /\ assets'[a] # None /\ assets'[a].retired
  /\ events[DecomEvent[a]] = None
  /\ events'[DecomEvent[a]] # None
  /\ events'[DecomEvent[a]].organization = "OperatorOrg"
  /\ events'[DecomEvent[a]].assetId = a
  /\ outbox'[DecommissionOf(a)] # None

LEMMA DecommissionRetires ==
  ASSUME TypeOK, NEW s \in Requesters, DecommissionCommit(s)
  PROVE  /\ requests[s].assetId \in AssetIds
         /\ Retires(requests[s].assetId)
         /\ \A b \in AssetIds : b # requests[s].assetId => assets'[b] = assets[b]
         /\ \A e \in EventIds : e # DecomEvent[requests[s].assetId] => events'[e] = events[e]
         /\ \A o \in OperationIds : o # DecommissionOf(requests[s].assetId) => outbox'[o] = outbox[o]
<1> DEFINE a == requests[s].assetId
           row == [status |-> "DECOMMISSIONED", retired |-> TRUE]
           record == [assetId |-> a, organization |-> "OperatorOrg",
                      status |-> "APPROVED", ledger |-> "PENDING"]
<1>1. a \in AssetIds
  BY Session DEF DecommissionCommit, Open
<1>2. DecomEvent[a] \in EventIds /\ DecommissionOf(a) \in OperationIds
  BY <1>1, IdOfAsset, RegistryAssumption
<1>3. row \in AssetRows /\ record \in EventRows
  BY <1>1 DEF AssetRows, AssetStatus, EventRows, Orgs, Decisions, LedgerStatus
<1>4. row # None /\ record # None /\ row.retired
      /\ record.organization = "OperatorOrg" /\ record.assetId = a
  BY <1>3, NoneIsNoRow
<1>5. /\ assets' = [assets EXCEPT ![a] = row]
      /\ events' = [events EXCEPT ![DecomEvent[a]] = record]
      /\ assets[a] # None /\ events[DecomEvent[a]] = None
      /\ Enqueue({Decommissioning(a)})
  BY DEF DecommissionCommit
<1>. HIDE DEF a, row, record
<1>6. assets'[a] = row /\ events'[DecomEvent[a]] = record
  BY <1>1, <1>2, <1>5 DEF TypeOK
<1>7. /\ \A b \in AssetIds : b # a => assets'[b] = assets[b]
      /\ \A e \in EventIds : e # DecomEvent[a] => events'[e] = events[e]
  BY <1>5 DEF TypeOK
<1> DEFINE r == Decommissioning(a)
<1>8. r \in Requests /\ r.operationId = DecommissionOf(a)
  BY <1>1, DecommissioningRequest DEF Decommissioning
<1>9. Enqueue({r})
  BY <1>5
<1>. HIDE DEF r
<1>10. /\ outbox' \in [OperationIds -> OutboxRows \cup {None}]
       /\ outbox'[DecommissionOf(a)] = [request |-> r, status |-> "PENDING"]
       /\ \A o \in OperationIds : o # DecommissionOf(a) => outbox'[o] = outbox[o]
  BY <1>8, <1>9, EnqueuedOne
<1>11. outbox'[DecommissionOf(a)] # None
  BY <1>8, <1>10, NoneIsNoRow DEF OutboxRows, LedgerStatus
<1>12. Retires(a)
  BY <1>4, <1>5, <1>6, <1>11 DEF Retires
<1>. QED  BY <1>1, <1>7, <1>10, <1>12 DEF a

LEMMA QueuedOne ==
  ASSUME TypeOK, NEW r \in Requests, Enqueue({r})
  PROVE  outbox'[r.operationId] # None
<1>1. outbox'[r.operationId] = [request |-> r, status |-> "PENDING"]
  BY EnqueuedOne
<1>. QED  BY <1>1, NoneIsNoRow DEF OutboxRows, LedgerStatus

LEMMA AssetMoves ==
  ASSUME TypeOK, [Next]_vars
  PROVE  \A a \in AssetIds : AssetStays(a) \/ Appears(a) \/ Disappears(a) \/ Retires(a)
<1> DEFINE Moves == \A a \in AssetIds : AssetStays(a) \/ Appears(a) \/ Disappears(a) \/ Retires(a)
<1>1. ASSUME UNCHANGED assets
      PROVE  Moves
  BY <1>1 DEF AssetStays
<1>2. ASSUME NEW a \in AssetIds, NEW status \in Asked, CreateAssetRow(a, status)
      PROVE  Moves
  <2> DEFINE row == [status |-> status, retired |-> FALSE]
  <2>1. row \in AssetRows
    BY RegistryAssumption DEF AssetRows
  <2>2. row # None /\ ~row.retired
    BY <2>1, NoneIsNoRow
  <2>3. assets[a] = None /\ assets' = [assets EXCEPT ![a] = row] /\ Enqueue({RegisterAsset(a)})
    BY <1>2 DEF CreateAssetRow
  <2>. HIDE DEF row
  <2>4. assets'[a] = row /\ \A b \in AssetIds : b # a => assets'[b] = assets[b]
    BY <2>3 DEF TypeOK
  <2>5. outbox'[CreateOf(a)] # None
    BY <2>3, RegisterAssetRequest, QueuedOne DEF RegisterAsset
  <2>6. Appears(a)
    BY <2>2, <2>3, <2>4, <2>5 DEF Appears
  <2>. QED  BY <2>4, <2>6 DEF AssetStays
<1>3. ASSUME NEW s \in Requesters, UpdateCommit(s)
      PROVE  Moves
  <2> DEFINE a == requests[s].assetId
  <2>1. a \in AssetIds /\ assets[a] # None
    BY <1>3, Session DEF UpdateCommit, Open
  <2>2. assets[a] \in AssetRows
    BY <2>1, AssetRow
  <2>3. assets' \in [AssetIds -> AssetRows \cup {None}]
    BY <1>3, UpdateCommitType DEF TypeOK
  <2>4. /\ assets'[a] = [assets[a] EXCEPT !.status = StatusAfter(s)]
        /\ \A b \in AssetIds : b # a => assets'[b] = assets[b]
    BY <1>3, <2>1 DEF UpdateCommit, TypeOK
  <2>. HIDE DEF a
  <2>5. assets'[a].retired = assets[a].retired
    BY <2>2, <2>4 DEF AssetRows
  <2>6. StatusAfter(s) \in AssetStatus
    BY <1>3, <2>1, Session, AssetRow DEF StatusAfter, UpdateCommit, Open, a
  <2>7. [assets[a] EXCEPT !.status = StatusAfter(s)] \in AssetRows
    BY <2>2, <2>6 DEF AssetRows
  <2>8. assets'[a] # None
    BY <2>4, <2>7, NoneIsNoRow
  <2>. QED  BY <2>1, <2>4, <2>5, <2>8 DEF AssetStays
<1>4. ASSUME NEW s \in Requesters, DeleteCommit(s)
      PROVE  Moves
  <2>1. requests[s].assetId \in AssetIds
    BY <1>4, Session DEF DeleteCommit, Open
  <2>2. Disappears(requests[s].assetId)
    BY <1>4, <2>1 DEF DeleteCommit, Disappears, TypeOK
  <2>3. \A b \in AssetIds : b # requests[s].assetId => assets'[b] = assets[b]
    BY <1>4 DEF DeleteCommit, TypeOK
  <2>. QED  BY <2>2, <2>3 DEF AssetStays
<1>5. ASSUME NEW s \in Requesters, DecommissionCommit(s)
      PROVE  Moves
  <2>1. Retires(requests[s].assetId)
    BY <1>5, DecommissionRetires
  <2>2. \A b \in AssetIds : b # requests[s].assetId => assets'[b] = assets[b]
    BY <1>5, DecommissionRetires
  <2>. QED  BY <2>1, <2>2 DEF AssetStays
<1>. HIDE DEF Moves
<1>6. ASSUME NEW o \in OperationIds, Confirm(o) \/ Fail(o)
      PROVE  Moves
  BY <1>1, <1>6 DEF Confirm, Fail, Settle
<1>7. Moves
  BY <1>1, <1>2, <1>3, <1>4, <1>5, <1>6, Steps
     DEF ProposeMaintenance, ReviewEventRow, ReconcileRead, ReconcileCommit, Quiet, tables
<1>. QED  BY <1>7 DEF Moves

EventStays(e) ==
  /\ events'[e] # None <=> events[e] # None
  /\ events'[e].assetId = events[e].assetId
  /\ events'[e].organization = events[e].organization
  /\ events'[e].status = events[e].status

IsReviewed(e) ==
  /\ events[e] # None /\ events'[e] # None
  /\ events'[e].assetId = events[e].assetId
  /\ events'[e].organization = events[e].organization
  /\ events[e].status = "PROPOSED"
  /\ outbox[ReviewOf(e)] = None /\ outbox'[ReviewOf(e)] # None
  /\ UNCHANGED contractVars

IsProposed(e) ==
  /\ events[e] = None /\ events'[e] # None
  /\ events'[e].status = "PROPOSED"
  /\ events'[e].organization = "ContractorOrg"
  /\ outbox'[ProposeOf(e)] # None
  /\ assets[events'[e].assetId] # None /\ events'[e].assetId \in AssetIds
  /\ UNCHANGED <<assets, contractVars>>

IsRetirement(e) ==
  /\ events[e] = None /\ events'[e] # None
  /\ events'[e].organization = "OperatorOrg"
  /\ assets[events'[e].assetId] # None
  /\ events'[e].assetId \in AssetIds
  /\ Retires(events'[e].assetId)
  /\ UNCHANGED contractVars

LEMMA EventMoves ==
  ASSUME TypeOK, QueueIsRecorded, [Next]_vars
  PROVE  \A e \in EventIds :
           EventStays(e) \/ IsReviewed(e) \/ IsProposed(e) \/ IsRetirement(e)
<1> DEFINE Moves == \A e \in EventIds :
                      EventStays(e) \/ IsReviewed(e) \/ IsProposed(e) \/ IsRetirement(e)
<1>1. ASSUME UNCHANGED events
      PROVE  Moves
  BY <1>1 DEF EventStays
<1>2. ASSUME NEW e \in EventIds, NEW a \in AssetIds, ProposeMaintenance(e, a)
      PROVE  Moves
  <2> DEFINE row == [assetId |-> a, organization |-> "ContractorOrg",
                     status |-> "PROPOSED", ledger |-> "PENDING"]
             r == Proposal(e, a, "ContractorOrg")
  <2>1. row \in EventRows /\ r \in Requests /\ r.operationId = ProposeOf(e)
    BY ProposalRequest DEF EventRows, Orgs, LedgerStatus, Proposal
  <2>2. row # None /\ row.status = "PROPOSED" /\ row.organization = "ContractorOrg"
        /\ row.assetId = a
    BY <2>1, NoneIsNoRow
  <2>3. /\ events[e] = None /\ assets[a] # None
        /\ events' = [events EXCEPT ![e] = row]
        /\ Enqueue({r})
        /\ UNCHANGED <<assets, contractVars>>
    BY <1>2 DEF ProposeMaintenance
  <2>. HIDE DEF row, r
  <2>4. events'[e] = row /\ \A f \in EventIds : f # e => events'[f] = events[f]
    BY <2>3 DEF TypeOK
  <2>5. outbox'[ProposeOf(e)] # None
    BY <2>1, <2>3, QueuedOne
  <2>6. IsProposed(e)
    BY <2>2, <2>3, <2>4, <2>5 DEF IsProposed
  <2>. QED  BY <2>4, <2>6 DEF EventStays
<1>3. ASSUME NEW e \in EventIds, NEW decision \in Decisions, ReviewEventRow(e, decision)
      PROVE  Moves
  <2> DEFINE r == Review(e, decision)
  <2>1. r \in Requests /\ r.operationId = ReviewOf(e)
    BY ReviewRequest DEF Review
  <2>2. /\ events[e] # None /\ events[e].status = "PROPOSED"
        /\ Enqueue({r})
        /\ UNCHANGED contractVars
    BY <1>3 DEF ReviewEventRow
  <2>3. \A f \in EventIds : f # e => events'[f] = events[f]
    BY <1>3 DEF ReviewEventRow, TypeOK
  <2>. HIDE DEF r
  <2>4. outbox[ReviewOf(e)] = None /\ outbox'[ReviewOf(e)] # None
    BY <2>1, <2>2, EnqueuedOne, QueuedOne
  <2>5. EventKept(e)
    BY EventsAreKept
  <2>6. IsReviewed(e)
    BY <2>2, <2>4, <2>5 DEF IsReviewed, EventKept
  <2>. QED  BY <2>3, <2>6 DEF EventStays
<1>4. ASSUME NEW s \in Requesters, DecommissionCommit(s)
      PROVE  Moves
  <2> DEFINE a == requests[s].assetId
             e == DecomEvent[a]
  <2>1. /\ a \in AssetIds /\ Retires(a)
        /\ \A f \in EventIds : f # e => events'[f] = events[f]
    BY <1>4, DecommissionRetires
  <2>2. UNCHANGED contractVars
    BY <1>4 DEF DecommissionCommit
  <2>. HIDE DEF a
  <2>3. IsRetirement(e)
    BY <2>1, <2>2 DEF IsRetirement, Retires
  <2>. HIDE DEF e
  <2>. QED  BY <2>1, <2>3 DEF EventStays
<1>5. ASSUME NEW o \in OperationIds, Confirm(o) \/ Fail(o)
      PROVE  Moves
  <2>1. outbox[o] # None
    BY <1>5 DEF Confirm, Fail, Confirmable, Unconfirmed
  <2>2. PICK status \in LedgerStatus : Settle(o, status)
    BY <1>5 DEF Confirm, Fail, LedgerStatus
  <2>. QED  BY <2>1, <2>2, Settled DEF EventStays
<1>. HIDE DEF Moves
<1>6. Moves
  BY <1>1, <1>2, <1>3, <1>4, <1>5, Steps
     DEF CreateAssetRow, UpdateCommit, DeleteCommit, ReconcileRead, ReconcileCommit, Quiet, tables
<1>. QED  BY <1>6 DEF Moves

(* A row is added, or settled, or stays; only a decommission queues one.    *)
IsQueued(o) ==
  /\ outbox[o] = None /\ outbox'[o] # None
  /\ outbox'[o].status = "PENDING"
  /\ UNCHANGED contractVars
  /\ \A a \in AssetIds : o = DecommissionOf(a) => Retires(a)

IsSettled(o) ==
  /\ outbox[o] # None /\ outbox'[o] # None
  /\ outbox'[o].request = outbox[o].request
  /\ \/ Confirm(o) /\ outbox'[o].status = "COMMITTED"
     \/ Fail(o) /\ outbox'[o].status = "FAILED"

LEMMA OneIsQueued ==
  ASSUME TypeOK, NEW r \in Requests, Enqueue({r}), UNCHANGED contractVars,
         \A a \in AssetIds : r.operationId = DecommissionOf(a) => Retires(a)
  PROVE  \A o \in OperationIds : outbox'[o] = outbox[o] \/ IsQueued(o)
<1>1. /\ outbox'[r.operationId] = [request |-> r, status |-> "PENDING"]
      /\ outbox[r.operationId] = None
      /\ \A o \in OperationIds : o # r.operationId => outbox'[o] = outbox[o]
  BY EnqueuedOne
<1>2. outbox'[r.operationId].status = "PENDING"
  BY <1>1
<1>3. outbox'[r.operationId] # None
  BY QueuedOne
<1>4. IsQueued(r.operationId)
  BY <1>1, <1>2, <1>3 DEF IsQueued
<1>. QED  BY <1>1, <1>4

LEMMA OutboxMoves ==
  ASSUME TypeOK, QueueIsRecorded, [Next]_vars
  PROVE  \A o \in OperationIds : outbox'[o] = outbox[o] \/ IsQueued(o) \/ IsSettled(o)
<1> DEFINE Moves == \A o \in OperationIds : outbox'[o] = outbox[o] \/ IsQueued(o) \/ IsSettled(o)
<1>1. ASSUME UNCHANGED outbox
      PROVE  Moves
  BY <1>1
<1>2. ASSUME NEW a \in AssetIds, NEW status \in Asked, CreateAssetRow(a, status)
      PROVE  Moves
  <2> DEFINE r == RegisterAsset(a)
  <2>1. r \in Requests /\ r.operationId = CreateOf(a)
    BY RegisterAssetRequest DEF RegisterAsset
  <2>2. Enqueue({r}) /\ UNCHANGED contractVars
    BY <1>2 DEF CreateAssetRow
  <2>. HIDE DEF r
  <2>. QED  BY <2>1, <2>2, OneIsQueued, DifferentAssets
<1>3. ASSUME NEW e \in EventIds, NEW a \in AssetIds, ProposeMaintenance(e, a)
      PROVE  Moves
  <2> DEFINE r == Proposal(e, a, "ContractorOrg")
  <2>1. "ContractorOrg" \in Orgs
    BY DEF Orgs
  <2>2. r \in Requests /\ r.operationId = ProposeOf(e)
    BY <2>1, ProposalRequest DEF Proposal
  <2>3. Enqueue({r}) /\ UNCHANGED contractVars
    BY <1>3 DEF ProposeMaintenance
  <2>. HIDE DEF r
  <2>. QED  BY <2>2, <2>3, OneIsQueued, DifferentAssets
<1>4. ASSUME NEW e \in EventIds, NEW decision \in Decisions, ReviewEventRow(e, decision)
      PROVE  Moves
  <2> DEFINE r == Review(e, decision)
  <2>1. r \in Requests /\ r.operationId = ReviewOf(e)
    BY ReviewRequest DEF Review
  <2>2. Enqueue({r}) /\ UNCHANGED contractVars
    BY <1>4 DEF ReviewEventRow
  <2>. HIDE DEF r
  <2>. QED  BY <2>1, <2>2, OneIsQueued, DifferentAssets
<1>5. ASSUME NEW s \in Requesters, DecommissionCommit(s)
      PROVE  Moves
  <2> DEFINE a == requests[s].assetId
             r == Decommissioning(a)
  <2>1. a \in AssetIds /\ Retires(a)
    BY <1>5, DecommissionRetires
  <2>2. r \in Requests /\ r.operationId = DecommissionOf(a)
    BY <2>1, DecommissioningRequest DEF Decommissioning
  <2>3. Enqueue({r}) /\ UNCHANGED contractVars
    BY <1>5 DEF DecommissionCommit
  <2>. HIDE DEF r, a
  <2>. QED  BY <2>1, <2>2, <2>3, OneIsQueued, DifferentAssets
<1>6. ASSUME ReconcileCommit
      PROVE  Moves
  <2>. SUFFICES ASSUME NEW o \in OperationIds
                PROVE  outbox'[o] = outbox[o] \/ IsQueued(o)
    OBVIOUS
  <2>1. scan \in SUBSET Requests /\ Enqueue(scan) /\ UNCHANGED contractVars
    BY <1>6 DEF ReconcileCommit, TypeOK
  <2>2. \A r \in scan : RecordedIn(r, events)
    BY <1>6 DEF ReconcileCommit, QueueIsRecorded, Recorded
  <2>3. ASSUME NEW r \in scan, r.operationId = o
        PROVE  IsQueued(o)
    <3>1. /\ outbox[o] = None
          /\ QueuedFrom(scan, o)
          /\ outbox'[o] \in OutboxRows \cup {None}
      BY <2>1, <2>3, Enqueued
    <3>2. PICK q \in scan : outbox'[o] = [request |-> q, status |-> "PENDING"]
      BY <3>1 DEF QueuedFrom
    <3>3. [request |-> q, status |-> "PENDING"] \in OutboxRows
      BY <2>1 DEF OutboxRows, LedgerStatus
    <3>4. outbox'[o] # None /\ outbox'[o].status = "PENDING"
      BY <3>2, <3>3, NoneIsNoRow
    <3>5. \A a \in AssetIds : o # DecommissionOf(a)
      BY <2>2, <2>3, RecordedOf
    <3>. QED  BY <2>1, <3>1, <3>4, <3>5 DEF IsQueued
  <2>. QED  BY <2>1, <2>3, Enqueued
<1>7. ASSUME NEW o \in OperationIds, Confirm(o) \/ Fail(o)
      PROVE  Moves
  <2>1. outbox[o] # None
    BY <1>7 DEF Confirm, Fail, Confirmable, Unconfirmed
  <2>2. PICK status \in LedgerStatus : /\ Settle(o, status)
                                       /\ \/ Confirm(o) /\ status = "COMMITTED"
                                          \/ Fail(o) /\ status = "FAILED"
    BY <1>7 DEF Confirm, Fail, LedgerStatus
  <2>3. /\ outbox'[o] = [request |-> outbox[o].request, status |-> status]
        /\ \A p \in OperationIds : p # o => outbox'[p] = outbox[p]
        /\ outbox'[o] \in OutboxRows \cup {None}
    BY <2>1, <2>2, Settled
  <2>4. outbox[o].request \in Requests
    BY <2>1, OutboxRow
  <2>5. [request |-> outbox[o].request, status |-> status] \in OutboxRows
    BY <2>4 DEF OutboxRows
  <2>6. outbox'[o] # None /\ outbox'[o].request = outbox[o].request /\ outbox'[o].status = status
    BY <2>3, <2>5, NoneIsNoRow
  <2>7. IsSettled(o)
    BY <2>1, <2>2, <2>6 DEF IsSettled
  <2>. QED  BY <2>3, <2>7
<1>. HIDE DEF Moves
<1>8. ASSUME Quiet \/ ReconcileRead \/ \E s \in Requesters : UpdateCommit(s) \/ DeleteCommit(s)
      PROVE  Moves
  <2>1. UNCHANGED outbox
    BY <1>8 DEF UpdateCommit, DeleteCommit, ReconcileRead, Quiet, tables
  <2>. QED  BY <1>1, <2>1
<1>9. Moves
  BY <1>2, <1>3, <1>4, <1>5, <1>6, <1>7, <1>8, Steps
<1>. QED  BY <1>9 DEF Moves

LEMMA QueuedStays ==
  ASSUME TypeOK, QueueIsRecorded, [Next]_vars, NEW o \in OperationIds, outbox[o] # None
  PROVE  outbox'[o] # None
BY OutboxMoves DEF IsQueued, IsSettled

-----------------------------------------------------------------------------
(* Events keep their asset, and retirements are kept.                      *)

LEMMA EventsKeepTheirAssetStep ==
  ASSUME TypeOK, QueueIsRecorded, EventsKeepTheirAsset, [Next]_vars
  PROVE  EventsKeepTheirAsset'
<1> SUFFICES ASSUME NEW e \in EventIds, events'[e] # None
             PROVE  /\ assets'[events'[e].assetId] # None
                    /\ events'[e].organization \in {"ContractorOrg", "OperatorOrg"}
  BY DEF EventsKeepTheirAsset
<1> DEFINE a == events'[e].assetId
<1>1. CASE events[e] # None
  <2>1. /\ a = events[e].assetId
        /\ events'[e].organization = events[e].organization
    BY <1>1, EventsAreKept DEF EventKept
  <2>2. a \in AssetIds /\ assets[a] # None /\ Referenced(a)
    BY <1>1, <2>1, EventRow DEF EventRows, EventsKeepTheirAsset, Referenced
  <2>3. assets'[a] # None
    BY <2>2, AssetMoves DEF AssetStays, Appears, Disappears, Retires
  <2>. QED  BY <1>1, <2>1, <2>3 DEF EventsKeepTheirAsset
<1>2. CASE events[e] = None
  <2>1. IsProposed(e) \/ IsRetirement(e)
    BY <1>2, EventMoves DEF EventStays, IsReviewed
  <2>. QED  BY <2>1 DEF IsProposed, IsRetirement, Retires
<1>. QED  BY <1>1, <1>2

LEMMA RetirementIsKeptStep ==
  ASSUME TypeOK, QueueIsRecorded, RetirementIsKept, [Next]_vars
  PROVE  RetirementIsKept'
<1> SUFFICES ASSUME NEW a \in AssetIds
             PROVE  /\ Retired(a)' <=> outbox'[DecommissionOf(a)] # None
                    /\ Retired(a)' => /\ events'[DecomEvent[a]] # None
                                      /\ events'[DecomEvent[a]].organization = "OperatorOrg"
                                      /\ events'[DecomEvent[a]].assetId = a
  BY DEF RetirementIsKept, Missing, Decommissioning
<1> DEFINE e == DecomEvent[a]
           o == DecommissionOf(a)
<1>1. e \in EventIds /\ o \in OperationIds
  BY IdOfAsset, RegistryAssumption
<1>2. /\ Retired(a) <=> outbox[o] # None
      /\ Retired(a) => events[e] # None /\ events[e].organization = "OperatorOrg"
                       /\ events[e].assetId = a
  BY DEF RetirementIsKept, Missing, Decommissioning
<1>3. EventKept(e)
  BY <1>1, EventsAreKept
<1>4. outbox'[o] # None => outbox[o] # None \/ Retires(a)
  BY <1>1, OutboxMoves DEF IsQueued, IsSettled
<1>5. outbox[o] # None => outbox'[o] # None
  BY <1>1, QueuedStays
<1>. HIDE DEF e, o
<1>6. CASE Retires(a)
  BY <1>6 DEF Retires, Retired, e, o
<1>7. CASE ~Retires(a) /\ Retired(a)
  <2>1. Referenced(a)
    BY <1>1, <1>2, <1>7 DEF Referenced
  <2>2. Retired(a)'
    BY <1>7, <2>1, AssetMoves DEF AssetStays, Appears, Disappears, Retired
  <2>. QED  BY <1>2, <1>3, <1>5, <1>7, <2>2 DEF EventKept, e, o
<1>8. CASE ~Retires(a) /\ ~Retired(a)
  <2>1. ~Retired(a)'
    BY <1>8, AssetMoves DEF AssetStays, Appears, Disappears, Retired
  <2>. QED  BY <1>2, <1>4, <1>8, <2>1 DEF o
<1>. QED  BY <1>6, <1>7, <1>8

-----------------------------------------------------------------------------
(* The worker confirms what the ledger applied.                            *)

(* A confirmation delivers an operation that was not applied before.        *)
LEMMA Delivered ==
  ASSUME TypeOK, QueueIsRecorded, CommittedIsApplied, NEW o \in OperationIds, Confirm(o)
  PROVE  /\ outbox[o] # None /\ outbox[o].request \in Requests
         /\ outbox[o].request.operationId = o
         /\ ~Applied(o)
         /\ \E id \in TxIds : Deliver(outbox[o].request, id)
BY OutboxRow DEF Confirm, Confirmable, Unconfirmed, QueueIsRecorded, CommittedIsApplied

LEMMA DeliveryApplies ==
  ASSUME TypeOK, QueueIsRecorded, CommittedIsApplied, NEW o \in OperationIds, Confirm(o)
  PROVE  /\ Applied(o)'
         /\ \A p \in OperationIds : p # o => (Applied(p)' <=> Applied(p))
<1> DEFINE r == outbox[o].request
<1>1. r \in Requests /\ r.operationId = o /\ ~Applied(o)
  BY Delivered
<1>2. PICK id \in TxIds : Deliver(r, id)
  BY Delivered
<1>. HIDE DEF r
<1>3. ContractTypeOK
  BY DEF TypeOK
<1>4. \A p \in OperationIds : p # o => operations'[p] = operations[p]
  BY <1>1, <1>2, <1>3, DeliverApplies
<1>5. Endorsed(r, id).seen = None /\ Endorsed(r, id).request = r /\ Endorsed(r, id).id = id
  BY <1>1 DEF Endorsed, Applied
<1>6. operations' = [operations EXCEPT ![o] = [digest |-> r.payload, txId |-> id]]
  BY <1>1, <1>2, <1>5 DEF Deliver, Apply
<1>7. operations'[o] = [digest |-> r.payload, txId |-> id]
  BY <1>3, <1>6 DEF ContractTypeOK
<1>8. [digest |-> r.payload, txId |-> id] \in OperationRecords
  BY <1>1, RequestShape DEF OperationRecords
<1>9. operations'[o] # None
  BY <1>7, <1>8, NoneIsNoRecord
<1>. QED  BY <1>4, <1>9 DEF Applied

LEMMA LedgerStays ==
  ASSUME UNCHANGED contractVars
  PROVE  /\ \A o \in OperationIds : Applied(o)' <=> Applied(o)
         /\ world' = world
BY DEF contractVars, Applied

(* Either the ledger does not move, or one operation is confirmed and the    *)
(* tables only note it.                                                     *)
LEMMA LedgerMoves ==
  ASSUME TypeOK, QueueIsRecorded, [Next]_vars
  PROVE  \/ UNCHANGED contractVars /\ \A o \in OperationIds : ~Confirm(o)
         \/ \E o \in OperationIds : Confirm(o)
BY Steps DEF CreateAssetRow, ProposeMaintenance, ReviewEventRow, UpdateCommit, DeleteCommit,
   DecommissionCommit, ReconcileRead, ReconcileCommit, Fail, Quiet

LEMMA CommittedIsAppliedStep ==
  ASSUME TypeOK, QueueIsRecorded, CommittedIsApplied, [Next]_vars
  PROVE  CommittedIsApplied'
<1>1. ASSUME UNCHANGED contractVars, \A o \in OperationIds : ~Confirm(o), NEW o \in OperationIds
      PROVE  Applied(o)' <=> outbox'[o] # None /\ outbox'[o].status = "COMMITTED"
  <2>1. Applied(o)' <=> Applied(o)
    BY <1>1, LedgerStays
  <2>2. CASE outbox'[o] = outbox[o]
    BY <2>1, <2>2 DEF CommittedIsApplied
  <2>3. CASE IsQueued(o)
    BY <2>1, <2>3 DEF IsQueued, CommittedIsApplied
  <2>4. CASE IsSettled(o)
    BY <1>1, <2>1, <2>4 DEF IsSettled, CommittedIsApplied, Fail, Unconfirmed
  <2>. QED  BY <2>2, <2>3, <2>4, OutboxMoves
<1>2. ASSUME NEW o \in OperationIds, Confirm(o), NEW p \in OperationIds
      PROVE  Applied(p)' <=> outbox'[p] # None /\ outbox'[p].status = "COMMITTED"
  <2>1. outbox[o] # None /\ outbox[o].request \in Requests
    BY <1>2, Delivered
  <2>2. Settle(o, "COMMITTED") /\ "COMMITTED" \in LedgerStatus
    BY <1>2 DEF Confirm, LedgerStatus
  <2>3. /\ outbox'[o] = [request |-> outbox[o].request, status |-> "COMMITTED"]
        /\ \A q \in OperationIds : q # o => outbox'[q] = outbox[q]
    BY <2>1, <2>2, Settled
  <2>4. CASE p = o
    <3>1. [request |-> outbox[o].request, status |-> "COMMITTED"] \in OutboxRows
      BY <2>1, <2>2 DEF OutboxRows
    <3>2. outbox'[o] # None /\ outbox'[o].status = "COMMITTED"
      BY <2>3, <3>1, NoneIsNoRow
    <3>. QED  BY <1>2, <2>4, <3>2, DeliveryApplies
  <2>5. CASE p # o
    BY <1>2, <2>3, <2>5, DeliveryApplies DEF CommittedIsApplied
  <2>. QED  BY <2>4, <2>5
<1>. QED  BY <1>1, <1>2, LedgerMoves DEF CommittedIsApplied

-----------------------------------------------------------------------------
(* The records of the ledger are what the applied operations made of them. *)

(* What is queued under an id. *)
LEMMA QueuedRequest ==
  ASSUME QueueIsRecorded
  PROVE  /\ \A a \in AssetIds :
              /\ outbox[CreateOf(a)] # None => outbox[CreateOf(a)].request = RegisterAsset(a)
              /\ outbox[DecommissionOf(a)] # None =>
                   outbox[DecommissionOf(a)].request = Decommissioning(a)
         /\ \A e \in EventIds :
              /\ outbox[ProposeOf(e)] # None =>
                   /\ events[e] # None
                   /\ outbox[ProposeOf(e)].request
                        = Proposal(e, events[e].assetId, events[e].organization)
              /\ outbox[ReviewOf(e)] # None =>
                   /\ events[e] # None
                   /\ events[e].status \in Decisions
                   /\ outbox[ReviewOf(e)].request = Review(e, events[e].status)
<1>1. ASSUME NEW o \in OperationIds, outbox[o] # None
      PROVE  /\ outbox[o].request.operationId = o
             /\ \/ RecordedIn(outbox[o].request, events)
                \/ \E b \in AssetIds : /\ outbox[o].request = Decommissioning(b)
                                       /\ o = DecommissionOf(b)
  <2>1. \A b : Decommissioning(b).operationId = DecommissionOf(b)
    BY DEF Decommissioning
  <2>. QED  BY <1>1, <2>1 DEF QueueIsRecorded, Recorded
<1>2. ASSUME NEW a \in AssetIds, outbox[CreateOf(a)] # None
      PROVE  outbox[CreateOf(a)].request = RegisterAsset(a)
  BY <1>1, <1>2, IdOfAsset, RecordedOf, DifferentAssets
<1>3. ASSUME NEW a \in AssetIds, outbox[DecommissionOf(a)] # None
      PROVE  outbox[DecommissionOf(a)].request = Decommissioning(a)
  BY <1>1, <1>3, IdOfAsset, RecordedOf, DifferentAssets
<1>4. ASSUME NEW e \in EventIds, outbox[ProposeOf(e)] # None
      PROVE  /\ events[e] # None
             /\ outbox[ProposeOf(e)].request
                  = Proposal(e, events[e].assetId, events[e].organization)
  <2> DEFINE o == ProposeOf(e)
  <2>1. o \in OperationIds /\ \A b \in AssetIds : o # DecommissionOf(b)
    BY IdOfEvent, DifferentAssets
  <2>2. outbox[o].request.operationId = o /\ RecordedIn(outbox[o].request, events)
    BY <1>1, <1>4, <2>1
  <2>. QED  BY <2>2, RecordedOf
<1>5. ASSUME NEW e \in EventIds, outbox[ReviewOf(e)] # None
      PROVE  /\ events[e] # None
             /\ events[e].status \in Decisions
             /\ outbox[ReviewOf(e)].request = Review(e, events[e].status)
  <2> DEFINE o == ReviewOf(e)
  <2>1. o \in OperationIds /\ \A b \in AssetIds : o # DecommissionOf(b)
    BY IdOfEvent, DifferentAssets
  <2>2. outbox[o].request.operationId = o /\ RecordedIn(outbox[o].request, events)
    BY <1>1, <1>5, <2>1
  <2>. QED  BY <2>2, RecordedOf
<1>. QED  BY <1>2, <1>3, <1>4, <1>5

(* The ledger is where it was; a review changes the row of its event only.  *)
LEMMA RecordsStayApplied ==
  ASSUME TypeOK, QueueIsRecorded, CommittedIsApplied, RecordsAreApplied, [Next]_vars,
         UNCHANGED contractVars
  PROVE  RecordsAreApplied'
<1>1. /\ \A o \in OperationIds : Applied(o)' <=> Applied(o)
      /\ world' = world
  BY LedgerStays
<1>2. ASSUME NEW a \in AssetIds
      PROVE  AssetRecordIsApplied(a)'
  BY <1>1, IdOfAsset DEF RecordsAreApplied, AssetRecordIsApplied, Exists, OnLedger
<1>3. ASSUME NEW e \in EventIds
      PROVE  EventRecordIsApplied(e)'
  <2>1. /\ Applied(ProposeOf(e))' <=> Applied(ProposeOf(e))
        /\ Applied(ReviewOf(e))' <=> Applied(ReviewOf(e))
    BY <1>1, IdOfEvent
  <2>2. EventRecordIsApplied(e)
    BY DEF RecordsAreApplied
  <2>3. Exists(<<"event", e>>) => events[e] # None
    BY <2>2, IdOfEvent, QueuedRequest DEF EventRecordIsApplied, CommittedIsApplied
  <2>4. CASE EventStays(e)
    BY <1>1, <2>1, <2>2, <2>4 DEF EventRecordIsApplied, EventStays, Exists
  <2>5. CASE IsReviewed(e)
    <3>1. ~Applied(ReviewOf(e))
      BY <2>5, IdOfEvent DEF IsReviewed, CommittedIsApplied
    <3>. QED  BY <1>1, <2>1, <2>2, <2>5, <3>1 DEF EventRecordIsApplied, IsReviewed, Exists
  <2>6. CASE IsProposed(e) \/ IsRetirement(e)
    BY <1>1, <2>1, <2>2, <2>3, <2>6 DEF EventRecordIsApplied, IsProposed, IsRetirement, Exists
  <2>. QED  BY <2>4, <2>5, <2>6, EventMoves
<1>. QED  BY <1>2, <1>3 DEF RecordsAreApplied

(* Only the rows' view of the ledger changes when an operation is settled.  *)
LEMMA SettledRows ==
  ASSUME TypeOK, QueueIsRecorded, NEW o \in OperationIds, Confirm(o)
  PROVE  \A e \in EventIds : EventStays(e)
<1>1. outbox[o] # None /\ Settle(o, "COMMITTED") /\ "COMMITTED" \in LedgerStatus
  BY DEF Confirm, Confirmable, Unconfirmed, LedgerStatus
<1>. QED  BY <1>1, Settled DEF EventStays

LEMMA AssetRecordStays ==
  ASSUME NEW a \in AssetIds, AssetRecordIsApplied(a),
         world'[<<"asset", a>>] = world[<<"asset", a>>],
         Applied(CreateOf(a))' <=> Applied(CreateOf(a)),
         Applied(DecommissionOf(a))' <=> Applied(DecommissionOf(a))
  PROVE  AssetRecordIsApplied(a)'
BY DEF AssetRecordIsApplied, OnLedger, Exists

LEMMA EventRecordStays ==
  ASSUME NEW e \in EventIds, EventRecordIsApplied(e), EventStays(e),
         world'[<<"event", e>>] = world[<<"event", e>>],
         Applied(ProposeOf(e))' <=> Applied(ProposeOf(e)),
         Applied(ReviewOf(e))' <=> Applied(ReviewOf(e))
  PROVE  EventRecordIsApplied(e)'
BY DEF EventRecordIsApplied, EventStays, Exists

LEMMA DifferentKeys ==
  ASSUME NEW x, NEW y
  PROVE  /\ <<"asset", x>> # <<"event", y>>
         /\ <<"asset", x>> = <<"asset", y>> => x = y
         /\ <<"event", x>> = <<"event", y>> => x = y
OBVIOUS

LEMMA CreationApplies ==
  ASSUME TypeOK, QueueIsRecorded, CommittedIsApplied, RecordsAreApplied,
         NEW a \in AssetIds, Confirm(CreateOf(a))
  PROVE  RecordsAreApplied'
<1> DEFINE o == CreateOf(a)
           key == <<"asset", a>>
           record == [recordType |-> "ASSET", status |-> "REGISTERED"]
           r == RegisterAsset(a)
           ok == ~Exists(key)
           reads == {key}
           writes == [k \in {key} |-> record]
<1>1. o \in OperationIds /\ key \in Keys
  BY IdOfAsset, AssetKey
<1>2. outbox[o].request = r
  BY <1>1, Delivered, QueuedRequest
<1>3. PICK id \in TxIds : Deliver(r, id)
  BY <1>1, <1>2, Delivered
<1>4. r \in Requests /\ ~Applied(r.operationId)
  BY <1>1, <1>2, Delivered
<1>5. Simulate(r) = Outcome(ok, reads, writes) /\ DOMAIN writes = {key} /\ writes[key] = record
  BY DEF Simulate, CreateAsset, RegisterAsset
<1>6. record \in AssetRecords /\ record # None /\ record.status = "REGISTERED"
  <2>1. record \in AssetRecords
    BY DEF AssetRecords
  <2>2. None \notin AssetRecords
    BY NoneIsNoRecord DEF RecordsOf
  <2>. QED  BY <2>1, <2>2
<1>. HIDE DEF r, record, ok, reads, writes
<1>7. ContractTypeOK
  BY DEF TypeOK
<1>8. ok /\ \A k \in Keys : world'[k] = IF k = key THEN record ELSE world[k]
  BY <1>1, <1>3, <1>4, <1>5, <1>7, DeliverOne
<1>9. /\ Applied(o)'
      /\ \A p \in OperationIds : p # o => (Applied(p)' <=> Applied(p))
  BY <1>1, DeliveryApplies
<1>. HIDE DEF o, key
<1>10. ASSUME NEW b \in AssetIds
       PROVE  AssetRecordIsApplied(b)'
  <2>1. AssetRecordIsApplied(b)
    BY DEF RecordsAreApplied
  <2>2. <<"asset", b>> \in Keys
    BY AssetKey
  <2>3. CASE b = a
    <3>1. world'[<<"asset", a>>] = record
      BY <1>1, <1>8 DEF key
    <3>2. ~Applied(DecommissionOf(a)) /\ ~Applied(DecommissionOf(a))'
      BY <1>8, <1>9, <2>1, <2>3, IdOfAsset, DifferentAssets
         DEF AssetRecordIsApplied, OnLedger, key, o, ok
    <3>. QED  BY <1>6, <1>9, <2>3, <3>1, <3>2 DEF AssetRecordIsApplied, OnLedger, Exists, o
  <2>4. CASE b # a
    <3>1. world'[<<"asset", b>>] = world[<<"asset", b>>]
      BY <1>8, <2>2, <2>4, DifferentKeys DEF key
    <3>2. /\ Applied(CreateOf(b))' <=> Applied(CreateOf(b))
          /\ Applied(DecommissionOf(b))' <=> Applied(DecommissionOf(b))
      BY <1>9, <2>4, IdOfAsset, DifferentAssets DEF o
    <3>. QED  BY <2>1, <3>1, <3>2, AssetRecordStays
  <2>. QED  BY <2>3, <2>4
<1>11. ASSUME NEW e \in EventIds
       PROVE  EventRecordIsApplied(e)'
  <2>1. EventRecordIsApplied(e) /\ EventStays(e)
    BY <1>1, SettledRows DEF RecordsAreApplied, o
  <2>2. world'[<<"event", e>>] = world[<<"event", e>>]
    BY <1>8, EventKey, DifferentKeys DEF key
  <2>3. /\ Applied(ProposeOf(e))' <=> Applied(ProposeOf(e))
        /\ Applied(ReviewOf(e))' <=> Applied(ReviewOf(e))
    BY <1>9, IdOfEvent, DifferentAssets DEF o
  <2>. QED  BY <2>1, <2>2, <2>3, EventRecordStays
<1>. QED  BY <1>10, <1>11 DEF RecordsAreApplied

LEMMA DecommissionApplies ==
  ASSUME TypeOK, QueueIsRecorded, CommittedIsApplied, RecordsAreApplied,
         NEW a \in AssetIds, Confirm(DecommissionOf(a))
  PROVE  RecordsAreApplied'
<1> DEFINE o == DecommissionOf(a)
           key == <<"asset", a>>
           record == [world[key] EXCEPT !.status = "DECOMMISSIONED"]
           r == Decommissioning(a)
           ok == Exists(key) /\ world[key].status # "DECOMMISSIONED"
           reads == {key}
           writes == [k \in {key} |-> record]
<1>1. o \in OperationIds /\ key \in Keys /\ RecordsAt(key) = AssetRecords
  BY IdOfAsset, AssetKey
<1>2. outbox[o].request = r
  BY <1>1, Delivered, QueuedRequest
<1>3. PICK id \in TxIds : Deliver(r, id)
  BY <1>1, <1>2, Delivered
<1>4. r \in Requests /\ ~Applied(r.operationId)
  BY <1>1, <1>2, Delivered
<1>5. Simulate(r) = Outcome(ok, reads, writes) /\ DOMAIN writes = {key} /\ writes[key] = record
  BY DEF Simulate, DecommissionAsset, Decommissioning
<1>. HIDE DEF r, record, ok, reads, writes
<1>6. ContractTypeOK
  BY DEF TypeOK
<1>7. ok /\ \A k \in Keys : world'[k] = IF k = key THEN record ELSE world[k]
  BY <1>1, <1>3, <1>4, <1>5, <1>6, DeliverOne
<1>8. record # None /\ record.status = "DECOMMISSIONED"
  <2>1. world[key] \in AssetRecords
    BY <1>1, <1>6, <1>7 DEF ContractTypeOK, Exists, ok
  <2>2. record \in AssetRecords /\ record.status = "DECOMMISSIONED"
    BY <2>1 DEF AssetRecords, record
  <2>3. None \notin AssetRecords
    BY NoneIsNoRecord DEF RecordsOf
  <2>. QED  BY <2>2, <2>3
<1>9. /\ Applied(o)'
      /\ \A p \in OperationIds : p # o => (Applied(p)' <=> Applied(p))
  BY <1>1, DeliveryApplies
<1>. HIDE DEF o, key
<1>10. ASSUME NEW b \in AssetIds
       PROVE  AssetRecordIsApplied(b)'
  <2>1. AssetRecordIsApplied(b)
    BY DEF RecordsAreApplied
  <2>2. <<"asset", b>> \in Keys
    BY AssetKey
  <2>3. CASE b = a
    <3>1. world'[<<"asset", a>>] = record
      BY <1>1, <1>7 DEF key
    <3>2. Applied(CreateOf(a))'
      BY <1>7, <1>9, <2>1, <2>3, IdOfAsset, DifferentAssets DEF AssetRecordIsApplied, key, o, ok
    <3>. QED  BY <1>8, <1>9, <2>3, <3>1, <3>2 DEF AssetRecordIsApplied, OnLedger, Exists, o
  <2>4. CASE b # a
    <3>1. world'[<<"asset", b>>] = world[<<"asset", b>>]
      BY <1>7, <2>2, <2>4, DifferentKeys DEF key
    <3>2. /\ Applied(CreateOf(b))' <=> Applied(CreateOf(b))
          /\ Applied(DecommissionOf(b))' <=> Applied(DecommissionOf(b))
      BY <1>9, <2>4, IdOfAsset, DifferentAssets DEF o
    <3>. QED  BY <2>1, <3>1, <3>2, AssetRecordStays
  <2>. QED  BY <2>3, <2>4
<1>11. ASSUME NEW e \in EventIds
       PROVE  EventRecordIsApplied(e)'
  <2>1. EventRecordIsApplied(e) /\ EventStays(e)
    BY <1>1, SettledRows DEF RecordsAreApplied, o
  <2>2. world'[<<"event", e>>] = world[<<"event", e>>]
    BY <1>7, EventKey, DifferentKeys DEF key
  <2>3. /\ Applied(ProposeOf(e))' <=> Applied(ProposeOf(e))
        /\ Applied(ReviewOf(e))' <=> Applied(ReviewOf(e))
    BY <1>9, IdOfEvent, DifferentAssets DEF o
  <2>. QED  BY <2>1, <2>2, <2>3, EventRecordStays
<1>. QED  BY <1>10, <1>11 DEF RecordsAreApplied

(* An operation of an event leaves the records of all assets, and those of   *)
(* the other events.                                                        *)
LEMMA OtherRecordsStay ==
  ASSUME TypeOK, QueueIsRecorded, CommittedIsApplied, RecordsAreApplied,
         NEW e \in EventIds, NEW o \in {ProposeOf(e), ReviewOf(e)}, Confirm(o),
         \A k \in Keys : k # <<"event", e>> => world'[k] = world[k],
         EventRecordIsApplied(e)'
  PROVE  RecordsAreApplied'
<1>1. o \in OperationIds
  BY IdOfEvent
<1>2. \A p \in OperationIds : p # o => (Applied(p)' <=> Applied(p))
  BY <1>1, DeliveryApplies
<1>3. ASSUME NEW a \in AssetIds
      PROVE  AssetRecordIsApplied(a)'
  <2>1. AssetRecordIsApplied(a)
    BY DEF RecordsAreApplied
  <2>2. world'[<<"asset", a>>] = world[<<"asset", a>>]
    BY AssetKey, DifferentKeys
  <2>3. /\ Applied(CreateOf(a))' <=> Applied(CreateOf(a))
        /\ Applied(DecommissionOf(a))' <=> Applied(DecommissionOf(a))
    BY <1>2, IdOfAsset, DifferentAssets
  <2>. QED  BY <2>1, <2>2, <2>3, AssetRecordStays
<1>4. ASSUME NEW f \in EventIds, f # e
      PROVE  EventRecordIsApplied(f)'
  <2>1. EventRecordIsApplied(f) /\ EventStays(f)
    BY <1>1, SettledRows DEF RecordsAreApplied
  <2>2. world'[<<"event", f>>] = world[<<"event", f>>]
    BY <1>4, EventKey, DifferentKeys
  <2>3. /\ Applied(ProposeOf(f))' <=> Applied(ProposeOf(f))
        /\ Applied(ReviewOf(f))' <=> Applied(ReviewOf(f))
    BY <1>2, <1>4, IdOfEvent, DifferentEvents
  <2>. QED  BY <2>1, <2>2, <2>3, EventRecordStays
<1>. QED  BY <1>3, <1>4 DEF RecordsAreApplied

LEMMA ProposalApplies ==
  ASSUME TypeOK, QueueIsRecorded, CommittedIsApplied, RecordsAreApplied,
         NEW e \in EventIds, Confirm(ProposeOf(e))
  PROVE  RecordsAreApplied'
<1> DEFINE o == ProposeOf(e)
           a == events[e].assetId
           organization == events[e].organization
           key == <<"event", e>>
           record == [recordType |-> "EVENT", assetId |-> a, organization |-> organization,
                      status |-> "PROPOSED", reviewedBy |-> None, documentHash |-> None]
           r == Proposal(e, a, organization)
           ok == Exists(<<"asset", a>>) /\ ~Exists(key)
           reads == {<<"asset", a>>, key}
           writes == [k \in {key} |-> record]
<1>1. o \in OperationIds /\ key \in Keys
  BY IdOfEvent, EventKey
<1>2. outbox[o].request = r /\ events[e] # None
  BY <1>1, Delivered, QueuedRequest
<1>3. PICK id \in TxIds : Deliver(r, id)
  BY <1>1, <1>2, Delivered
<1>4. r \in Requests /\ ~Applied(r.operationId)
  BY <1>1, <1>2, Delivered
<1>5. Simulate(r) = Outcome(ok, reads, writes) /\ DOMAIN writes = {key} /\ writes[key] = record
  BY DEF Simulate, ProposeEvent, Proposal
<1>6. a \in AssetIds /\ organization \in Orgs
  BY <1>2, EventRow DEF EventRows
<1>7. record # None /\ record.status = "PROPOSED" /\ record.assetId = a
      /\ record.organization = organization
  <2>1. record \in EventRecords
    BY <1>6 DEF EventRecords
  <2>2. None \notin EventRecords
    BY NoneIsNoRecord DEF RecordsOf
  <2>. QED  BY <2>1, <2>2
<1>. HIDE DEF r, record, ok, reads, writes
<1>8. ContractTypeOK
  BY DEF TypeOK
<1>9. ok /\ \A k \in Keys : world'[k] = IF k = key THEN record ELSE world[k]
  BY <1>1, <1>3, <1>4, <1>5, <1>8, DeliverOne
<1>10. /\ Applied(o)' /\ ~Applied(o)
       /\ \A p \in OperationIds : p # o => (Applied(p)' <=> Applied(p))
  BY <1>1, Delivered, DeliveryApplies
<1>. HIDE DEF key
<1>11. EventRecordIsApplied(e)'
  <2>1. EventRecordIsApplied(e) /\ EventStays(e)
    BY <1>1, SettledRows DEF RecordsAreApplied
  <2>2. ~Applied(ReviewOf(e)) /\ ~Applied(ReviewOf(e))'
    BY <1>10, <2>1, IdOfEvent, DifferentEvents DEF EventRecordIsApplied
  <2>3. world'[<<"event", e>>] = record
    BY <1>1, <1>9 DEF key
  <2>4. a = events'[e].assetId /\ organization = events'[e].organization
    BY <2>1 DEF EventStays
  <2>. QED  BY <1>7, <1>10, <2>2, <2>3, <2>4 DEF EventRecordIsApplied, Exists
<1>. QED  BY <1>9, <1>11, OtherRecordsStay DEF key

LEMMA ReviewApplies ==
  ASSUME TypeOK, QueueIsRecorded, CommittedIsApplied, RecordsAreApplied,
         NEW e \in EventIds, Confirm(ReviewOf(e))
  PROVE  RecordsAreApplied'
<1> DEFINE o == ReviewOf(e)
           decision == events[e].status
           key == <<"event", e>>
           record == [world[key] EXCEPT !.status = decision, !.reviewedBy = "OperatorOrg"]
           r == Review(e, decision)
           ok == /\ Exists(key)
                 /\ world[key].status = "PROPOSED"
                 /\ world[key].organization # "OperatorOrg"
           reads == {key}
           writes == [k \in {key} |-> record]
<1>1. o \in OperationIds /\ key \in Keys /\ RecordsAt(key) = EventRecords
  BY IdOfEvent, EventKey
<1>2. outbox[o].request = r /\ decision \in Decisions
  BY <1>1, Delivered, QueuedRequest
<1>3. PICK id \in TxIds : Deliver(r, id)
  BY <1>1, <1>2, Delivered
<1>4. r \in Requests /\ ~Applied(r.operationId)
  BY <1>1, <1>2, Delivered
<1>5. Simulate(r) = Outcome(ok, reads, writes) /\ DOMAIN writes = {key} /\ writes[key] = record
  BY DEF Simulate, ReviewEvent, Review
<1>. HIDE DEF r, record, ok, reads, writes
<1>6. ContractTypeOK
  BY DEF TypeOK
<1>7. ok /\ \A k \in Keys : world'[k] = IF k = key THEN record ELSE world[k]
  BY <1>1, <1>3, <1>4, <1>5, <1>6, DeliverOne
<1>8. record # None /\ record.status = decision /\ record.assetId = world[key].assetId
      /\ record.organization = world[key].organization
  <2>1. world[key] \in EventRecords
    BY <1>1, <1>6, <1>7 DEF ContractTypeOK, Exists, ok
  <2>2. record \in EventRecords
    BY <1>2, <2>1 DEF EventRecords, Orgs, record
  <2>3. /\ record.status = decision
        /\ record.assetId = world[key].assetId
        /\ record.organization = world[key].organization
    BY <2>1 DEF EventRecords, record
  <2>4. None \notin EventRecords
    BY NoneIsNoRecord DEF RecordsOf
  <2>. QED  BY <2>2, <2>3, <2>4
<1>9. /\ Applied(o)'
      /\ \A p \in OperationIds : p # o => (Applied(p)' <=> Applied(p))
  BY <1>1, DeliveryApplies
<1>. HIDE DEF key
<1>10. EventRecordIsApplied(e)'
  <2>1. EventRecordIsApplied(e) /\ EventStays(e)
    BY <1>1, SettledRows DEF RecordsAreApplied
  <2>2. Applied(ProposeOf(e)) /\ Applied(ProposeOf(e))'
    BY <1>7, <1>9, <2>1, IdOfEvent, DifferentEvents DEF EventRecordIsApplied, ok, key
  <2>3. world'[<<"event", e>>] = record
    BY <1>1, <1>7 DEF key
  <2>4. /\ world[key].assetId = events[e].assetId
        /\ world[key].organization = events[e].organization
    BY <1>7, <2>1 DEF EventRecordIsApplied, ok, key
  <2>. QED  BY <1>8, <1>9, <2>1, <2>2, <2>3, <2>4 DEF EventRecordIsApplied, EventStays, Exists
<1>. QED  BY <1>7, <1>10, OtherRecordsStay DEF key

LEMMA RecordsAreAppliedStep ==
  ASSUME TypeOK, QueueIsRecorded, CommittedIsApplied, RecordsAreApplied, [Next]_vars
  PROVE  RecordsAreApplied'
<1>1. ASSUME NEW o \in OperationIds, Confirm(o)
      PROVE  RecordsAreApplied'
  BY <1>1, OperationOf, CreationApplies, DecommissionApplies, ProposalApplies, ReviewApplies
<1>. QED  BY <1>1, LedgerMoves, RecordsStayApplied

-----------------------------------------------------------------------------
(* What is recorded is covered.                                            *)

LEMMA CoveredStays ==
  ASSUME TypeOK, QueueIsRecorded, [Next]_vars, NEW o \in OperationIds, Covered(o)
  PROVE  Covered(o)'
<1>1. CASE outbox[o] # None
  BY <1>1, QueuedStays DEF Covered
<1>2. ASSUME NEW e \in EventIds, OfRetirement(e), o \in {ProposeOf(e), ReviewOf(e)}
      PROVE  Covered(o)'
  BY <1>2, EventsAreKept DEF EventKept, OfRetirement, Covered
<1>. QED  BY <1>1, <1>2 DEF Covered

(* The kinds of records, by the ids of their operations. *)
LEMMA RecordIds ==
  /\ \A r \in Records :
       \/ \E a \in AssetIds : assets[a] # None /\ r.operationId = CreateOf(a)
       \/ \E e \in EventIds : events[e] # None /\ r.operationId = ProposeOf(e)
       \/ \E e \in EventIds : /\ events[e] # None /\ events[e].status \in Decisions
                              /\ r.operationId = ReviewOf(e)
  /\ \A a \in AssetIds :
       assets[a] # None => \E r \in Records : r.operationId = CreateOf(a)
  /\ \A e \in EventIds :
       events[e] # None =>
         /\ \E r \in Records : r.operationId = ProposeOf(e)
         /\ events[e].status \in Decisions =>
              \E r \in Records : r.operationId = ReviewOf(e)
<1>1. \A r \in Records :
        \/ \E a \in AssetIds : assets[a] # None /\ r.operationId = CreateOf(a)
        \/ \E e \in EventIds : events[e] # None /\ r.operationId = ProposeOf(e)
        \/ \E e \in EventIds : /\ events[e] # None /\ events[e].status \in Decisions
                               /\ r.operationId = ReviewOf(e)
  BY DEF Records, ReviewedEvents, RegisterAsset, Proposal, Review
<1>2. ASSUME NEW a \in AssetIds, assets[a] # None
      PROVE  \E r \in Records : r.operationId = CreateOf(a)
  <2>1. RegisterAsset(a) \in Records
    BY <1>2 DEF Records
  <2>. QED  BY <2>1 DEF RegisterAsset
<1>3. ASSUME NEW e \in EventIds, events[e] # None
      PROVE  \E r \in Records : r.operationId = ProposeOf(e)
  <2>1. Proposal(e, events[e].assetId, events[e].organization) \in Records
    BY <1>3 DEF Records
  <2>. QED  BY <2>1 DEF Proposal
<1>4. ASSUME NEW e \in EventIds, events[e] # None, events[e].status \in Decisions
      PROVE  \E r \in Records : r.operationId = ReviewOf(e)
  <2>1. Review(e, events[e].status) \in Records
    BY <1>4 DEF Records, ReviewedEvents
  <2>. QED  BY <2>1 DEF Review
<1>. QED  BY <1>1, <1>2, <1>3, <1>4

(* What is new in the tables is covered at once. *)
LEMMA NewRecordsAreCovered ==
  ASSUME TypeOK, QueueIsRecorded, [Next]_vars, NEW o,
         \E r \in Records' : r.operationId = o
  PROVE  Covered(o)' \/ \E r \in Records : r.operationId = o
<1>1. \/ \E a \in AssetIds : assets'[a] # None /\ o = CreateOf(a)
      \/ \E e \in EventIds : events'[e] # None /\ o = ProposeOf(e)
      \/ \E e \in EventIds : /\ events'[e] # None /\ events'[e].status \in Decisions
                             /\ o = ReviewOf(e)
  BY DEF Records, ReviewedEvents, RegisterAsset, Proposal, Review
<1>2. ASSUME NEW a \in AssetIds, assets'[a] # None, o = CreateOf(a)
      PROVE  Covered(o)' \/ \E r \in Records : r.operationId = o
  <2>1. assets[a] # None \/ outbox'[o] # None
    BY <1>2, AssetMoves DEF AssetStays, Appears, Disappears, Retires
  <2>. QED  BY <1>2, <2>1, RecordIds DEF Covered
<1>3. ASSUME NEW e \in EventIds, events'[e] # None, o = ProposeOf(e)
      PROVE  Covered(o)' \/ \E r \in Records : r.operationId = o
  <2>1. events[e] # None \/ outbox'[o] # None \/ OfRetirement(e)'
    BY <1>3, EventMoves DEF EventStays, IsReviewed, IsProposed, IsRetirement, OfRetirement
  <2>. QED  BY <1>3, <2>1, RecordIds DEF Covered
<1>4. ASSUME NEW e \in EventIds, events'[e] # None, events'[e].status \in Decisions,
             o = ReviewOf(e)
      PROVE  Covered(o)' \/ \E r \in Records : r.operationId = o
  <2>1. \/ events[e] # None /\ events[e].status \in Decisions
        \/ outbox'[o] # None
        \/ OfRetirement(e)'
    BY <1>4, EventMoves
       DEF EventStays, IsReviewed, IsProposed, IsRetirement, OfRetirement, Decisions
  <2>. QED  BY <1>4, <2>1, RecordIds DEF Covered
<1>. QED  BY <1>1, <1>2, <1>3, <1>4

LEMMA RecordsHaveIds ==
  ASSUME TypeOK, NEW r \in Records
  PROVE  r.operationId \in OperationIds
BY RecordsAreRecorded, RecordedRequest, RequestShape

LEMMA HistoryIsCoveredStep ==
  ASSUME TypeOK, QueueIsRecorded, HistoryIsCovered, [Next]_vars
  PROVE  HistoryIsCovered'
<1>1. TypeOK'
  BY NextKeepsType
<1>2. ASSUME reconciled', NEW r \in Records'
      PROVE  Covered(r.operationId)'
  <2> DEFINE o == r.operationId
  <2>1. ASSUME NEW q \in Records, q.operationId = o
        PROVE  Covered(o)'
    <3>1. o \in OperationIds
      BY <2>1, RecordsHaveIds
    <3>2. CASE reconciled
      BY <2>1, <3>1, <3>2, CoveredStays DEF HistoryIsCovered
    <3>3. CASE ~reconciled
      <4>1. ReconcileCommit
        BY <1>2, <3>3, Steps
           DEF CreateAssetRow, ProposeMaintenance, ReviewEventRow, UpdateCommit, DeleteCommit,
               DecommissionCommit, ReconcileRead, Confirm, Fail, Settle, Quiet
      <4>2. scan # None /\ scan \in SUBSET Requests /\ Enqueue(scan)
        BY <4>1 DEF ReconcileCommit, TypeOK
      <4>3. CASE Covered(o)
        BY <3>1, <4>3, CoveredStays
      <4>4. ASSUME NEW p \in scan, p.operationId = o
            PROVE  Covered(o)'
        <5>1. /\ outbox'[o] \in OutboxRows \cup {None}
              /\ QueuedFrom(scan, o)
          BY <3>1, <4>2, <4>4, Enqueued
        <5>2. PICK s \in scan : outbox'[o] = [request |-> s, status |-> "PENDING"]
          BY <5>1 DEF QueuedFrom
        <5>3. [request |-> s, status |-> "PENDING"] \in OutboxRows
          BY <4>2 DEF OutboxRows, LedgerStatus
        <5>. QED  BY <5>2, <5>3, NoneIsNoRow DEF Covered
      <4>. QED  BY <2>1, <4>2, <4>3, <4>4 DEF HistoryIsCovered
    <3>. QED  BY <3>2, <3>3
  <2>. QED  BY <2>1, NewRecordsAreCovered
<1>3. ASSUME scan' # None, NEW r \in Records'
      PROVE  Covered(r.operationId)' \/ \E q \in scan' : q.operationId = r.operationId
  <2> DEFINE o == r.operationId
  <2>1. ASSUME NEW q \in Records, q.operationId = o
        PROVE  Covered(o)' \/ \E p \in scan' : p.operationId = o
    <3>1. o \in OperationIds
      BY <2>1, RecordsHaveIds
    <3>2. CASE ReconcileRead
      BY <2>1, <3>2 DEF ReconcileRead, Missing, tables, Covered
    <3>3. CASE ~ReconcileRead
      <4>1. scan' = scan
        BY <1>3, <3>3, Steps
           DEF CreateAssetRow, ProposeMaintenance, ReviewEventRow, UpdateCommit, DeleteCommit,
               DecommissionCommit, ReconcileCommit, Confirm, Fail, Settle, Quiet
      <4>. QED  BY <1>3, <2>1, <3>1, <4>1, CoveredStays DEF HistoryIsCovered
    <3>. QED  BY <3>2, <3>3
  <2>. QED  BY <2>1, NewRecordsAreCovered
<1>. QED  BY <1>2, <1>3 DEF HistoryIsCovered

-----------------------------------------------------------------------------
(* The invariant holds.                                                    *)

LEMMA InitInv == Init => Inv
<1> SUFFICES ASSUME Init
             PROVE  Inv
  OBVIOUS
<1>1. PICK old \in SUBSET OldAssets :
        assets = [a \in AssetIds |-> IF a \in old THEN [status |-> "ACTIVE", retired |-> FALSE]
                                                  ELSE None]
  BY DEF Init
<1>2. [status |-> "ACTIVE", retired |-> FALSE] \in AssetRows
  BY DEF AssetRows, AssetStatus
<1>3. assets \in [AssetIds -> AssetRows \cup {None}]
  BY <1>1, <1>2
<1>4. \A a \in AssetIds : ~Retired(a)
  BY <1>1 DEF Retired
<1>5. events \in [EventIds -> EventRows \cup {None}]
  BY DEF Init, OldRows
<1>6. ASSUME NEW e \in EventIds, events[e] # None
      PROVE  /\ assets[events[e].assetId] # None
             /\ events[e].organization = "ContractorOrg"
  BY <1>6 DEF Init, OldRows
<1>7. /\ outbox = [o \in OperationIds |-> None]
      /\ latest = [e \in EventIds |-> None]
      /\ requests = [s \in Requesters |-> None]
      /\ scan = None /\ reconciled = FALSE
      /\ operations = [o \in OperationIds |-> None]
      /\ world = [k \in Keys |-> None]
      /\ ContractInit
  BY DEF Init, ContractInit
<1>8. TypeOK
  BY <1>3, <1>5, <1>7, InitKeepsType DEF TypeOK
<1>9. QueueIsRecorded
  BY <1>7 DEF QueueIsRecorded
<1>10. EventsKeepTheirAsset
  BY <1>6 DEF EventsKeepTheirAsset
<1>11. RetirementIsKept
  BY <1>4, <1>7, IdOfAsset DEF RetirementIsKept, Missing, Decommissioning
<1>12. CommittedIsApplied
  BY <1>7 DEF CommittedIsApplied, Applied
<1>13. RecordsAreApplied
  BY <1>7, IdOfAsset, IdOfEvent, AssetKey, EventKey
     DEF RecordsAreApplied, AssetRecordIsApplied, EventRecordIsApplied, OnLedger, Exists, Applied
<1>14. HistoryIsCovered
  BY <1>7 DEF HistoryIsCovered
<1>. QED  BY <1>8, <1>9, <1>10, <1>11, <1>12, <1>13, <1>14 DEF Inv

LEMMA NextInv == Inv /\ [Next]_vars => Inv'
BY NextKeepsType, QueueIsRecordedStep, EventsKeepTheirAssetStep, RetirementIsKeptStep,
   CommittedIsAppliedStep, RecordsAreAppliedStep, HistoryIsCoveredStep DEF Inv

LEMMA RegistryIsSound == Spec => []Inv
BY InitInv, NextInv, PTL DEF Spec

(* Rows, requests under way and the running reconciliation keep their shape. *)
THEOREM TypeCorrect == Spec => []TypeOK
<1>1. Inv => TypeOK
  BY DEF Inv
<1>. QED  BY <1>1, RegistryIsSound, PTL

-----------------------------------------------------------------------------
(* What it means.                                                          *)

LEMMA RetirementsAreWhole ==
  ASSUME Inv
  PROVE  RetirementIsWhole
<1> SUFFICES ASSUME NEW a \in AssetIds
             PROVE  /\ Retired(a) <=> ~Missing(Decommissioning(a))
                    /\ Retired(a) => /\ events[DecomEvent[a]] # None
                                     /\ events[DecomEvent[a]].organization = "OperatorOrg"
                    /\ OnLedger(a) => Retired(a)
  BY DEF RetirementIsWhole
<1>1. /\ Retired(a) <=> ~Missing(Decommissioning(a))
      /\ Retired(a) => /\ events[DecomEvent[a]] # None
                       /\ events[DecomEvent[a]].organization = "OperatorOrg"
  BY DEF Inv, RetirementIsKept
<1>2. ASSUME OnLedger(a)
      PROVE  Retired(a)
  <2>1. outbox[DecommissionOf(a)] # None
    BY <1>2, IdOfAsset
       DEF Inv, RecordsAreApplied, AssetRecordIsApplied, CommittedIsApplied
  <2>. QED  BY <1>1, <2>1 DEF Missing, Decommissioning
<1>. QED  BY <1>1, <1>2

(* Whatever updates, deletions and decommissions race, a decommission is in  *)
(* the row, the events and the outbox, or in none of them, and the ledger    *)
(* decommissions nothing else.                                              *)
THEOREM RetirementIsWholeHolds == Spec => []RetirementIsWhole
<1>1. Inv => RetirementIsWhole
  BY RetirementsAreWhole
<1>. QED  BY <1>1, RegistryIsSound, PTL

LEMMA LedgerAgreesWithRows ==
  ASSUME Inv
  PROVE  LedgerAgrees
<1> SUFFICES ASSUME NEW e \in EventIds, Exists(<<"event", e>>)
             PROVE  /\ events[e] # None
                    /\ world[<<"event", e>>].assetId = events[e].assetId
                    /\ world[<<"event", e>>].organization = events[e].organization
                    /\ world[<<"event", e>>].status \in {"PROPOSED", events[e].status}
  BY DEF LedgerAgrees
<1>1. EventRecordIsApplied(e)
  BY DEF Inv, RecordsAreApplied
<1>2. outbox[ProposeOf(e)] # None
  BY <1>1, IdOfEvent DEF EventRecordIsApplied, Inv, CommittedIsApplied
<1>3. events[e] # None
  BY <1>2, QueuedRequest DEF Inv
<1>. QED  BY <1>1, <1>3 DEF EventRecordIsApplied

(* The ledger never says of an event anything but what its row says.        *)
THEOREM LedgerAgreesHolds == Spec => []LedgerAgrees
<1>1. Inv => LedgerAgrees
  BY LedgerAgreesWithRows
<1>. QED  BY <1>1, RegistryIsSound, PTL

LEMMA RecordsAreQueued ==
  ASSUME Inv
  PROVE  HistoryIsQueued
<1> SUFFICES ASSUME reconciled, NEW r \in Records, ~Missing(r)
             PROVE  outbox[r.operationId].request = r
  BY DEF HistoryIsQueued, Inv, HistoryIsCovered, Covered, Missing
<1>1. RecordedIn(r, events)
  BY RecordsAreRecorded DEF Recorded
<1>2. outbox[r.operationId] # None
  BY DEF Missing
<1>3. QueueIsRecorded
  BY DEF Inv
<1>4. ASSUME NEW a \in AssetIds, r = RegisterAsset(a)
      PROVE  outbox[r.operationId].request = r
  BY <1>2, <1>3, <1>4, QueuedRequest DEF RegisterAsset
<1>5. ASSUME NEW e \in EventIds, r = Proposal(e, events[e].assetId, events[e].organization)
      PROVE  outbox[r.operationId].request = r
  BY <1>2, <1>3, <1>5, QueuedRequest DEF Proposal
<1>6. ASSUME NEW e \in EventIds, r = Review(e, events[e].status)
      PROVE  outbox[r.operationId].request = r
  BY <1>2, <1>3, <1>6, QueuedRequest DEF Review
<1>. QED  BY <1>1, <1>4, <1>5, <1>6 DEF RecordedIn

(* After a reconciliation, whatever the API did beside it, what the tables   *)
(* record is queued as it is recorded, the events of decommissions apart.   *)
THEOREM HistoryIsQueuedHolds == Spec => []HistoryIsQueued
<1>1. Inv => HistoryIsQueued
  BY RecordsAreQueued
<1>. QED  BY <1>1, RegistryIsSound, PTL

-----------------------------------------------------------------------------
(* Nothing is stuck.                                                       *)

LEMMA WaitingIsNotApplied ==
  ASSUME Inv, NEW o \in OperationIds, Unconfirmed(o)
  PROVE  outbox[o] # None /\ ~Applied(o)
BY DEF Inv, CommittedIsApplied, Unconfirmed

(* The creation of an asset is on the ledger, or the contract accepts it.    *)
LEMMA AssetIsReady ==
  ASSUME Inv, NEW a \in AssetIds, outbox[CreateOf(a)] # None
  PROVE  Exists(<<"asset", a>>) \/ Confirmable(CreateOf(a))
<1> SUFFICES ASSUME ~Exists(<<"asset", a>>)
             PROVE  Confirmable(CreateOf(a))
  OBVIOUS
<1> DEFINE r == RegisterAsset(a)
<1>1. outbox[CreateOf(a)].request = r /\ r.operationId = CreateOf(a)
  BY QueuedRequest DEF Inv, RegisterAsset
<1>2. ~Applied(CreateOf(a))
  BY DEF Inv, RecordsAreApplied, AssetRecordIsApplied
<1>3. Unconfirmed(CreateOf(a))
  BY <1>2, IdOfAsset DEF Inv, CommittedIsApplied, Unconfirmed
<1>4. Simulate(r).ok /\ Authorized(r)
  BY DEF Simulate, CreateAsset, Outcome, Authorized, RegisterAsset
<1>. HIDE DEF r
<1>. QED  BY <1>1, <1>2, <1>3, <1>4 DEF Confirmable, Endorsable

(* So does the proposal of an event that is nobody's decommission.           *)
LEMMA EventIsReady ==
  ASSUME Inv, NEW e \in EventIds, outbox[ProposeOf(e)] # None, ~OfRetirement(e),
         Exists(<<"asset", events[e].assetId>>)
  PROVE  Exists(<<"event", e>>) \/ Confirmable(ProposeOf(e))
<1> SUFFICES ASSUME ~Exists(<<"event", e>>)
             PROVE  Confirmable(ProposeOf(e))
  OBVIOUS
<1> DEFINE a == events[e].assetId
           r == Proposal(e, a, "ContractorOrg")
<1>1. /\ events[e] # None
      /\ outbox[ProposeOf(e)].request = Proposal(e, a, events[e].organization)
  BY QueuedRequest DEF Inv
<1>2. events[e].organization = "ContractorOrg"
  BY <1>1 DEF Inv, EventsKeepTheirAsset, OfRetirement
<1>3. outbox[ProposeOf(e)].request = r /\ r.operationId = ProposeOf(e)
  BY <1>1, <1>2 DEF Proposal
<1>4. ~Applied(ProposeOf(e))
  BY DEF Inv, RecordsAreApplied, EventRecordIsApplied
<1>5. Unconfirmed(ProposeOf(e))
  BY <1>4, IdOfEvent DEF Inv, CommittedIsApplied, Unconfirmed
<1>6. Simulate(r).ok /\ Authorized(r)
  BY DEF Simulate, ProposeEvent, Outcome, Authorized, Proposal
<1>. HIDE DEF r
<1>. QED  BY <1>3, <1>4, <1>5, <1>6 DEF Confirmable, Endorsable

LEMMA DecommissionIsReady ==
  ASSUME Inv, NEW a \in AssetIds, Unconfirmed(DecommissionOf(a)), Exists(<<"asset", a>>)
  PROVE  Confirmable(DecommissionOf(a))
<1> DEFINE r == Decommissioning(a)
<1>1. outbox[DecommissionOf(a)] # None /\ ~Applied(DecommissionOf(a))
  BY IdOfAsset, WaitingIsNotApplied
<1>2. outbox[DecommissionOf(a)].request = r /\ r.operationId = DecommissionOf(a)
  BY <1>1, QueuedRequest DEF Inv, Decommissioning
<1>3. world[<<"asset", a>>].status # "DECOMMISSIONED"
  BY <1>1 DEF Inv, RecordsAreApplied, AssetRecordIsApplied, OnLedger
<1>4. Simulate(r).ok /\ Authorized(r)
  BY <1>3 DEF Simulate, DecommissionAsset, Outcome, Authorized, Decommissioning
<1>. HIDE DEF r
<1>. QED  BY <1>1, <1>2, <1>4 DEF Confirmable, Endorsable

LEMMA ReviewIsReady ==
  ASSUME Inv, NEW e \in EventIds, Unconfirmed(ReviewOf(e)), ~OfRetirement(e),
         Exists(<<"event", e>>)
  PROVE  Confirmable(ReviewOf(e))
<1> DEFINE r == Review(e, events[e].status)
<1>1. outbox[ReviewOf(e)] # None /\ ~Applied(ReviewOf(e))
  BY IdOfEvent, WaitingIsNotApplied
<1>2. /\ events[e] # None
      /\ outbox[ReviewOf(e)].request = r /\ r.operationId = ReviewOf(e)
  BY <1>1, QueuedRequest DEF Inv, Review
<1>3. events[e].organization = "ContractorOrg"
  BY <1>2 DEF Inv, EventsKeepTheirAsset, OfRetirement
<1>4. /\ world[<<"event", e>>].status = "PROPOSED"
      /\ world[<<"event", e>>].organization # "OperatorOrg"
  BY <1>1, <1>3 DEF Inv, RecordsAreApplied, EventRecordIsApplied
<1>5. Simulate(r).ok /\ Authorized(r)
  BY <1>4 DEF Simulate, ReviewEvent, Outcome, Authorized, Review
<1>. HIDE DEF r
<1>. QED  BY <1>1, <1>2, <1>5 DEF Confirmable, Endorsable

(* A reconciliation queues what an operation waits for. *)
LEMMA CreationIsQueued ==
  ASSUME Inv, reconciled, NEW a \in AssetIds, assets[a] # None
  PROVE  outbox[CreateOf(a)] # None
<1>1. Covered(CreateOf(a))
  BY RecordIds DEF Inv, HistoryIsCovered
<1>. QED  BY <1>1, DifferentAssets DEF Covered

LEMMA ProposalIsQueued ==
  ASSUME Inv, reconciled, NEW e \in EventIds, events[e] # None, ~OfRetirement(e)
  PROVE  outbox[ProposeOf(e)] # None
<1>1. Covered(ProposeOf(e))
  BY RecordIds DEF Inv, HistoryIsCovered
<1>. QED  BY <1>1, DifferentEvents DEF Covered

(* An event waits for its asset only, which nobody deletes.                  *)
LEMMA AssetOfEvent ==
  ASSUME Inv, reconciled, NEW e \in EventIds, events[e] # None,
         NEW o \in {ProposeOf(e), ReviewOf(e)}
  PROVE  \/ Exists(<<"asset", events[e].assetId>>)
         \/ \E p \in Before(o) : Confirmable(p)
<1> DEFINE a == events[e].assetId
<1>1. a \in AssetIds /\ assets[a] # None
  BY EventRow DEF Inv, EventRows, EventsKeepTheirAsset
<1>2. outbox[CreateOf(a)] # None
  BY <1>1, CreationIsQueued
<1>3. CreateOf(a) \in Before(o)
  BY <1>1 DEF Before
<1>. HIDE DEF a
<1>4. Exists(<<"asset", a>>) \/ Confirmable(CreateOf(a))
  BY <1>1, <1>2, AssetIsReady
<1>. QED  BY <1>3, <1>4 DEF a

LEMMA SomethingIsReady ==
  ASSUME Inv, reconciled, NEW o \in OperationIds, Unconfirmed(o),
         ~(\E e \in EventIds : OfRetirement(e) /\ o \in {ProposeOf(e), ReviewOf(e)})
  PROVE  \E p \in Before(o) \cup {o} : Confirmable(p)
<1>1. outbox[o] # None
  BY WaitingIsNotApplied
<1>2. ASSUME NEW a \in AssetIds, o = CreateOf(a)
      PROVE  Confirmable(o)
  <2>1. ~Exists(<<"asset", a>>)
    BY <1>2, WaitingIsNotApplied DEF Inv, RecordsAreApplied, AssetRecordIsApplied
  <2>. QED  BY <1>1, <1>2, <2>1, AssetIsReady
<1>3. ASSUME NEW a \in AssetIds, o = DecommissionOf(a)
      PROVE  \E p \in Before(o) \cup {o} : Confirmable(p)
  <2>1. assets[a] # None
    BY <1>1, <1>3 DEF Inv, RetirementIsKept, Missing, Decommissioning, Retired
  <2>2. Exists(<<"asset", a>>) \/ Confirmable(CreateOf(a))
    BY <2>1, CreationIsQueued, AssetIsReady
  <2>3. CreateOf(a) \in Before(o)
    BY <1>3 DEF Before
  <2>. QED  BY <1>3, <2>2, <2>3, DecommissionIsReady
<1>4. ASSUME NEW e \in EventIds, o \in {ProposeOf(e), ReviewOf(e)}
      PROVE  \E p \in Before(o) \cup {o} : Confirmable(p)
  <2>1. ~OfRetirement(e)
    BY <1>4
  <2>2. events[e] # None
    BY <1>1, <1>4, QueuedRequest DEF Inv
  <2>3. outbox[ProposeOf(e)] # None
    BY <2>1, <2>2, ProposalIsQueued
  <2>4. CASE ~Exists(<<"asset", events[e].assetId>>)
    BY <1>4, <2>2, <2>4, AssetOfEvent
  <2>5. CASE ~Exists(<<"event", e>>) /\ Exists(<<"asset", events[e].assetId>>)
    <3>1. Confirmable(ProposeOf(e))
      BY <2>1, <2>3, <2>5, EventIsReady
    <3>2. ProposeOf(e) \in Before(o) \cup {o}
      BY <1>4 DEF Before
    <3>. QED  BY <3>1, <3>2
  <2>6. CASE Exists(<<"event", e>>)
    <3>1. o # ProposeOf(e)
      BY <2>6, WaitingIsNotApplied DEF Inv, RecordsAreApplied, EventRecordIsApplied
    <3>2. Confirmable(o)
      BY <1>4, <2>1, <2>6, <3>1, ReviewIsReady
    <3>. QED  BY <3>2
  <2>. QED  BY <2>4, <2>5, <2>6
<1>. QED  BY <1>2, <1>3, <1>4, OperationOf

(* After a reconciliation no queued operation waits for something that is    *)
(* not coming: the contract accepts it, or one that comes before it, the     *)
(* events of decommissions apart.                                           *)
THEOREM NothingIsStuckHolds == Spec => []NothingIsStuck
<1>1. Inv => NothingIsStuck
  BY SomethingIsReady DEF NothingIsStuck
<1>. QED  BY <1>1, RegistryIsSound, PTL
=============================================================================

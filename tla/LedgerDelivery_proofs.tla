------------------------- MODULE LedgerDelivery_proofs -------------------------
(* Type correctness of the delivery path, and the truth of COMMITTED: the    *)
(* database confirms only what the ledger holds.  The delivery path          *)
(* implements ConfirmedDelivery when one worker runs, and the database keeps *)
(* its own books whatever runs.                                              *)
EXTENDS LedgerDelivery, FieldLedgerContract_proofs

Inv == TypeOK /\ DeliveryInv

(* Operation ids tell the kind and the subject of an operation. *)
LEMMA IdOfEvent ==
  ASSUME NEW e \in EventIds
  PROVE  /\ ProposeOf(e) \in OperationIds /\ ReviewOf(e) \in OperationIds
         /\ ProposeOf(e) # ReviewOf(e)
BY DeliveryAssumption DEF ApiOperationIds, ProposeOf, ReviewOf

LEMMA IdOfAsset ==
  ASSUME NEW a \in AssetIds
  PROVE  CreateOf(a) \in OperationIds
BY DeliveryAssumption DEF ApiOperationIds

LEMMA IdOfDocument ==
  ASSUME NEW d \in DocumentIds
  PROVE  RegisterOf(d) \in OperationIds
BY DeliveryAssumption DEF ApiOperationIds

LEMMA OperationOfEvent ==
  ASSUME NEW o \in OperationIds, o[1] = "event"
  PROVE  /\ o[2] \in EventIds
         /\ o = ProposeOf(o[2]) \/ o = ReviewOf(o[2])
BY DeliveryAssumption
   DEF ApiOperationIds, CreateOf, ProposeOf, ReviewOf, RegisterOf

LEMMA OperationOfDocument ==
  ASSUME NEW o \in OperationIds, o[1] = "document"
  PROVE  o[2] \in DocumentIds /\ o = RegisterOf(o[2])
BY DeliveryAssumption
   DEF ApiOperationIds, CreateOf, ProposeOf, ReviewOf, RegisterOf

LEMMA DifferentSubjects ==
  ASSUME NEW a \in AssetIds, NEW e \in EventIds, NEW d \in DocumentIds
  PROVE  /\ CreateOf(a) \notin {ProposeOf(e), ReviewOf(e), RegisterOf(d)}
         /\ RegisterOf(d) \notin {ProposeOf(e), ReviewOf(e)}
         /\ \A f \in EventIds : /\ ProposeOf(e) = ProposeOf(f) => e = f
                                /\ ReviewOf(e) = ReviewOf(f) => e = f
                                /\ ProposeOf(e) # ReviewOf(f)
         /\ \A f \in DocumentIds : RegisterOf(d) = RegisterOf(f) => d = f
BY DEF CreateOf, ProposeOf, ReviewOf, RegisterOf

(* The requests of the handlers are requests of the contract. *)
LEMMA CreateRequest ==
  ASSUME NEW a \in AssetIds
  PROVE  [operationId |-> CreateOf(a), action |-> "REGISTER_ASSET",
          organization |-> "OperatorOrg", payload |-> [assetId |-> a]] \in Requests
<1>1. [assetId |-> a] \in PayloadsOf["REGISTER_ASSET"]
  BY RegisterAssetPayload
<1>2. "REGISTER_ASSET" \in Actions /\ "OperatorOrg" \in Orgs
  BY ActionNames DEF Orgs
<1>. QED  BY <1>1, <1>2, IdOfAsset, RequestIn

LEMMA ProposeRequest ==
  ASSUME NEW e \in EventIds, NEW a \in AssetIds
  PROVE  [operationId |-> ProposeOf(e), action |-> "PROPOSE_EVENT",
          organization |-> "ContractorOrg",
          payload |-> [eventId |-> e, assetId |-> a]] \in Requests
<1>1. [eventId |-> e, assetId |-> a] \in PayloadsOf["PROPOSE_EVENT"]
  BY ProposeEventPayload
<1>2. "PROPOSE_EVENT" \in Actions /\ "ContractorOrg" \in Orgs
  BY ActionNames DEF Orgs
<1>. QED  BY <1>1, <1>2, IdOfEvent, RequestIn

LEMMA ReviewRequest ==
  ASSUME NEW e \in EventIds, NEW decision \in Decisions
  PROVE  [operationId |-> ReviewOf(e), action |-> "REVIEW_EVENT",
          organization |-> "OperatorOrg",
          payload |-> [eventId |-> e, decision |-> decision]] \in Requests
<1>1. [eventId |-> e, decision |-> decision] \in PayloadsOf["REVIEW_EVENT"]
  BY ReviewEventPayload
<1>2. "REVIEW_EVENT" \in Actions /\ "OperatorOrg" \in Orgs
  BY ActionNames DEF Orgs
<1>. QED  BY <1>1, <1>2, IdOfEvent, RequestIn

LEMMA DocumentRequest ==
  ASSUME NEW d \in DocumentIds, NEW e \in EventIds, NEW a \in AssetIds,
         NEW h \in Hashes, NEW organization \in Orgs
  PROVE  [operationId |-> RegisterOf(d), action |-> "REGISTER_DOCUMENT",
          organization |-> organization,
          payload |-> [documentId |-> d, eventId |-> e, assetId |-> a,
                       sha256Hash |-> h]] \in Requests
<1>1. [documentId |-> d, eventId |-> e, assetId |-> a, sha256Hash |-> h]
        \in PayloadsOf["REGISTER_DOCUMENT"]
  BY RegisterDocumentPayload
<1>2. "REGISTER_DOCUMENT" \in Actions
  BY ActionNames
<1>. QED  BY <1>1, <1>2, IdOfDocument, RequestIn

-----------------------------------------------------------------------------
(* What a handler adds to the outbox. *)
LEMMA EnqueueShape ==
  ASSUME TypeOK, NEW r \in Requests, Enqueue(r)
  PROVE  /\ r.operationId \in OperationIds
         /\ outbox' \in [OperationIds -> OutboxRows \cup {None}]
         /\ created' \in Seq(OperationIds)
         /\ outbox'[r.operationId] # None
         /\ outbox'[r.operationId].request = r
         /\ outbox'[r.operationId].status = "PENDING"
         /\ \A o \in OperationIds \ {r.operationId} : outbox'[o] = outbox[o]
<1> DEFINE row == [request |-> r, status |-> "PENDING", due |-> TRUE, tx |-> None]
<1>1. r.operationId \in OperationIds
  BY RequestShape
<1>2. row \in OutboxRows
  BY DEF OutboxRows, LedgerStatus
<1>3. row # None
  BY <1>2, NoneIsNoRow
<1>4. row.request = r /\ row.status = "PENDING"
  OBVIOUS
<1>5. outbox' = [outbox EXCEPT ![r.operationId] = row]
  BY DEF Enqueue
<1>. HIDE DEF row
<1>6. outbox \in [OperationIds -> OutboxRows \cup {None}]
  BY DEF TypeOK
<1>7. outbox' \in [OperationIds -> OutboxRows \cup {None}]
  BY <1>2, <1>5, <1>6
<1>8. outbox'[r.operationId] = row
  BY <1>1, <1>5, <1>6
<1>9. \A o \in OperationIds \ {r.operationId} : outbox'[o] = outbox[o]
  BY <1>5, <1>6
<1>10. created' \in Seq(OperationIds)
  BY <1>1 DEF TypeOK, Enqueue
<1>. QED  BY <1>1, <1>3, <1>4, <1>7, <1>8, <1>9, <1>10

-----------------------------------------------------------------------------
(* Every step keeps the rows there are and what they ask for, confirms only   *)
(* applied operations, and puts a new row of the outbox beside the business  *)
(* row it is about.                                                          *)
RowsKept ==
  /\ \A o \in OperationIds :
       outbox[o] # None => /\ outbox'[o] # None
                           /\ outbox'[o].request = outbox[o].request
                           /\ outbox'[o].status = "COMMITTED" => Applied(o)
  /\ \A e \in EventIds : events[e] # None => events'[e] # None
  /\ \A d \in DocumentIds : documents[d] # None => documents'[d] # None

NewRowsAreSound ==
  \A o \in OperationIds :
    (outbox[o] = None /\ outbox'[o] # None) =>
      /\ outbox'[o].request.operationId = o
      /\ outbox'[o].status = "PENDING"
      /\ o[1] = "event" => events'[o[2]] # None
      /\ o[1] = "document" => documents'[o[2]] # None

RowsStep == RowsKept /\ NewRowsAreSound

LEMMA CommittedIsApplied ==
  ASSUME Inv, NEW o \in OperationIds, outbox[o] # None, outbox[o].status = "COMMITTED"
  PROVE  Applied(o)
BY DEF Inv, DeliveryInv, CommittedIsOnLedger

LEMMA NoRowsStep ==
  ASSUME Inv, UNCHANGED <<outbox, events, documents>>
  PROVE  RowsStep
BY CommittedIsApplied DEF RowsStep, RowsKept, NewRowsAreSound

-----------------------------------------------------------------------------
(* Types and rows, action by action.                                        *)
LEMMA CreateAssetRowType ==
  ASSUME Inv, NEW a \in AssetIds, CreateAssetRow(a)
  PROVE  TypeOK' /\ RowsStep
<1> DEFINE r == [operationId |-> CreateOf(a), action |-> "REGISTER_ASSET",
                 organization |-> "OperatorOrg", payload |-> [assetId |-> a]]
<1>1. r \in Requests
  BY CreateRequest
<1>2. TypeOK /\ Enqueue(r)
  BY DEF Inv, CreateAssetRow
<1>. HIDE DEF r
<1>3. outbox' \in [OperationIds -> OutboxRows \cup {None}] /\ created' \in Seq(OperationIds)
  BY <1>1, <1>2, EnqueueShape
<1>4. ContractTypeOK'
  BY <1>2, IdleKeepsType DEF TypeOK, CreateAssetRow
<1>5. TypeOK'
  BY <1>2, <1>3, <1>4 DEF TypeOK, CreateAssetRow
<1>6. r.operationId[1] = "asset"
  BY DEF r, CreateOf
<1>7. outbox[r.operationId] = None /\ UNCHANGED <<events, documents>>
  BY <1>2 DEF Enqueue, CreateAssetRow
<1>8. RowsKept
  BY <1>1, <1>2, <1>7, EnqueueShape, CommittedIsApplied DEF RowsKept
<1>9. NewRowsAreSound
  BY <1>1, <1>2, <1>6, <1>7, EnqueueShape DEF NewRowsAreSound
<1>. QED  BY <1>5, <1>8, <1>9 DEF RowsStep

LEMMA ProposeMaintenanceType ==
  ASSUME Inv, NEW e \in EventIds, NEW a \in AssetIds, ProposeMaintenance(e, a)
  PROVE  TypeOK' /\ RowsStep
<1> DEFINE r == [operationId |-> ProposeOf(e), action |-> "PROPOSE_EVENT",
                 organization |-> "ContractorOrg",
                 payload |-> [eventId |-> e, assetId |-> a]]
           row == [assetId |-> a, status |-> "PROPOSED", documentHash |-> None,
                   ledger |-> "PENDING", tx |-> None]
<1>1. r \in Requests
  BY ProposeRequest
<1>2. TypeOK /\ Enqueue(r)
  BY DEF Inv, ProposeMaintenance
<1>3. row \in EventRows
  BY DEF EventRows, EventStatus, LedgerStatus
<1>4. events' = [events EXCEPT ![e] = row]
  BY DEF ProposeMaintenance
<1>. HIDE DEF r, row
<1>5. outbox' \in [OperationIds -> OutboxRows \cup {None}] /\ created' \in Seq(OperationIds)
  BY <1>1, <1>2, EnqueueShape
<1>6. ContractTypeOK'
  BY <1>2, IdleKeepsType DEF TypeOK, ProposeMaintenance
<1>7. events' \in [EventIds -> EventRows \cup {None}]
  BY <1>2, <1>3, <1>4 DEF TypeOK
<1>8. TypeOK'
  BY <1>2, <1>5, <1>6, <1>7 DEF TypeOK, ProposeMaintenance, apiVars
<1>9. r.operationId[1] = "event" /\ r.operationId[2] = e
  BY DEF r, ProposeOf
<1>10. outbox[r.operationId] = None /\ UNCHANGED documents
  BY <1>2 DEF Enqueue, ProposeMaintenance, apiVars
<1>11. events'[e] # None /\ \A f \in EventIds : events[f] # None => events'[f] # None
  BY <1>2, <1>3, <1>4, NoneIsNoRow DEF TypeOK
<1>12. RowsStep
  BY <1>1, <1>2, <1>9, <1>10, <1>11, EnqueueShape, CommittedIsApplied
     DEF RowsStep, RowsKept, NewRowsAreSound
<1>. QED  BY <1>8, <1>12

LEMMA ReviewCheckType ==
  ASSUME Inv, NEW u \in Reviewers, NEW e \in EventIds, NEW decision \in Decisions,
         ReviewCheck(u, e, decision)
  PROVE  TypeOK'
<1> DEFINE session == [eventId |-> e, decision |-> decision,
                       ledger |-> events[e].ledger, tx |-> events[e].tx]
<1>1. TypeOK
  BY DEF Inv
<1>2. events[e] \in EventRows
  BY <1>1 DEF TypeOK, ReviewCheck
<1>3. session \in ReviewSessions
  BY <1>2 DEF ReviewSessions, EventRows
<1>4. reviews' = [reviews EXCEPT ![u] = session]
  BY DEF ReviewCheck
<1>. HIDE DEF session
<1>5. reviews' \in [Reviewers -> ReviewSessions \cup {None}]
  BY <1>1, <1>3, <1>4 DEF TypeOK
<1>6. ContractTypeOK'
  BY <1>1, IdleKeepsType DEF TypeOK, ReviewCheck
<1>. QED  BY <1>1, <1>5, <1>6 DEF TypeOK, ReviewCheck

LEMMA ReviewCommitType ==
  ASSUME Inv, NEW u \in Reviewers, ReviewCommit(u)
  PROVE  TypeOK' /\ RowsStep
<1> DEFINE session == reviews[u]
           e == session.eventId
           r == [operationId |-> ReviewOf(e), action |-> "REVIEW_EVENT",
                 organization |-> "OperatorOrg",
                 payload |-> [eventId |-> e, decision |-> session.decision]]
           row == [events[e] EXCEPT !.status = session.decision,
                                    !.ledger = Flush(session.ledger, "PENDING", @),
                                    !.tx = Flush(session.tx, None, @)]
<1>1. TypeOK
  BY DEF Inv
<1>2. session \in ReviewSessions /\ e \in EventIds /\ session.decision \in Decisions
  BY <1>1 DEF TypeOK, ReviewCommit, ReviewSessions
<1>3. events[e] \in EventRows
  BY <1>1, <1>2 DEF TypeOK, Inv, DeliveryInv, SessionsHaveRows, ReviewCommit
<1>4. row \in EventRows
  BY <1>2, <1>3 DEF EventRows, EventStatus, LedgerStatus, Flush
<1>5. r \in Requests /\ Enqueue(r)
  BY <1>2, ReviewRequest DEF ReviewCommit
<1>6. events' = [events EXCEPT ![e] = row]
  BY DEF ReviewCommit
<1>. HIDE DEF r, row
<1>7. outbox' \in [OperationIds -> OutboxRows \cup {None}] /\ created' \in Seq(OperationIds)
  BY <1>1, <1>5, EnqueueShape
<1>8. ContractTypeOK'
  BY <1>1, IdleKeepsType DEF TypeOK, ReviewCommit
<1>9. events' \in [EventIds -> EventRows \cup {None}]
  BY <1>1, <1>2, <1>4, <1>6 DEF TypeOK
<1>10. reviews' \in [Reviewers -> ReviewSessions \cup {None}]
  BY <1>1 DEF TypeOK, ReviewCommit
<1>11. TypeOK'
  BY <1>1, <1>7, <1>8, <1>9, <1>10 DEF TypeOK, ReviewCommit
<1>12. r.operationId[1] = "event" /\ r.operationId[2] = e
  BY DEF r, ReviewOf
<1>13. outbox[r.operationId] = None /\ UNCHANGED documents
  BY <1>5 DEF Enqueue, ReviewCommit
<1>14. events'[e] # None /\ \A f \in EventIds : events[f] # None => events'[f] # None
  BY <1>1, <1>2, <1>4, <1>6, NoneIsNoRow DEF TypeOK
<1>15. RowsStep
  BY <1>1, <1>5, <1>12, <1>13, <1>14, EnqueueShape, CommittedIsApplied
     DEF RowsStep, RowsKept, NewRowsAreSound
<1>. QED  BY <1>11, <1>15

LEMMA UploadCheckType ==
  ASSUME Inv, NEW d \in DocumentIds, NEW e \in EventIds, UploadCheck(d, e)
  PROVE  TypeOK'
<1> DEFINE session == [eventId |-> e, ledger |-> events[e].ledger, stored |-> FALSE]
<1>1. TypeOK
  BY DEF Inv
<1>2. events[e] \in EventRows
  BY <1>1 DEF TypeOK, UploadCheck
<1>3. session \in UploadSessions
  BY <1>2 DEF UploadSessions, EventRows
<1>4. uploads' = [uploads EXCEPT ![d] = session]
  BY DEF UploadCheck
<1>. HIDE DEF session
<1>5. uploads' \in [DocumentIds -> UploadSessions \cup {None}]
  BY <1>1, <1>3, <1>4 DEF TypeOK
<1>6. ContractTypeOK'
  BY <1>1, IdleKeepsType DEF TypeOK, UploadCheck
<1>. QED  BY <1>1, <1>5, <1>6 DEF TypeOK, UploadCheck

LEMMA UploadPutType ==
  ASSUME Inv, NEW d \in DocumentIds, UploadPut(d)
  PROVE  TypeOK'
<1> DEFINE session == [uploads[d] EXCEPT !.stored = TRUE]
<1>1. TypeOK
  BY DEF Inv
<1>2. uploads[d] \in UploadSessions
  BY <1>1 DEF TypeOK, UploadPut
<1>3. session \in UploadSessions
  BY <1>2 DEF UploadSessions
<1>4. uploads' = [uploads EXCEPT ![d] = session]
  BY DEF UploadPut
<1>. HIDE DEF session
<1>5. uploads' \in [DocumentIds -> UploadSessions \cup {None}]
  BY <1>1, <1>3, <1>4 DEF TypeOK
<1>6. ContractTypeOK'
  BY <1>1, IdleKeepsType DEF TypeOK, UploadPut
<1>. QED  BY <1>1, <1>5, <1>6 DEF TypeOK, UploadPut

LEMMA FaultIsCounted ==
  ASSUME TypeOK, Fault
  PROVE  faults' \in 0..MaxFaults
BY DeliveryAssumption DEF TypeOK, Fault

(* What an upload commits, on either of its two ways to end. *)
LEMMA UploadRequest ==
  ASSUME Inv, NEW d \in DocumentIds, uploads[d] # None, UploadRows(d)
  PROVE  /\ uploads[d] \in UploadSessions
         /\ events[uploads[d].eventId] \in EventRows
         /\ \E r \in Requests : /\ Enqueue(r)
                                /\ r.operationId = RegisterOf(d)
                                /\ r.action = "REGISTER_DOCUMENT"
                                /\ r.payload.eventId = uploads[d].eventId
<1>1. uploads[d] \in UploadSessions
  BY DEF Inv, TypeOK
<1>2. events[uploads[d].eventId] \in EventRows
  BY <1>1 DEF Inv, TypeOK, DeliveryInv, SessionsHaveRows, UploadSessions
<1>3. PICK organization \in UploadOrgs :
        Enqueue([operationId |-> RegisterOf(d), action |-> "REGISTER_DOCUMENT",
                 organization |-> organization,
                 payload |-> [documentId |-> d, eventId |-> uploads[d].eventId,
                              assetId |-> events[uploads[d].eventId].assetId,
                              sha256Hash |-> HashOf[d]]])
  BY DEF UploadRows, Attached
<1>4. /\ uploads[d].eventId \in EventIds
      /\ events[uploads[d].eventId].assetId \in AssetIds
      /\ HashOf[d] \in Hashes
      /\ organization \in Orgs
  BY <1>1, <1>2, <1>3, DeliveryAssumption DEF UploadSessions, EventRows
<1> DEFINE r == [operationId |-> RegisterOf(d), action |-> "REGISTER_DOCUMENT",
                 organization |-> organization,
                 payload |-> [documentId |-> d, eventId |-> uploads[d].eventId,
                              assetId |-> events[uploads[d].eventId].assetId,
                              sha256Hash |-> HashOf[d]]]
<1>5. r \in Requests
  BY <1>4, DocumentRequest
<1>6. /\ r.operationId = RegisterOf(d) /\ r.action = "REGISTER_DOCUMENT"
      /\ r.payload.eventId = uploads[d].eventId
  OBVIOUS
<1>7. Enqueue(r)
  BY <1>3
<1>. HIDE DEF r
<1>. QED  BY <1>1, <1>2, <1>5, <1>6, <1>7

LEMMA UploadRowsType ==
  ASSUME Inv, NEW d \in DocumentIds, uploads[d] # None, UploadRows(d)
  PROVE  /\ documents' \in [DocumentIds -> DocumentRows \cup {None}]
         /\ events' \in [EventIds -> EventRows \cup {None}]
         /\ outbox' \in [OperationIds -> OutboxRows \cup {None}]
         /\ created' \in Seq(OperationIds)
         /\ RowsStep
<1> DEFINE e == uploads[d].eventId
           document == [eventId |-> e, ledger |-> "PENDING", tx |-> None]
           row == [events[e] EXCEPT !.documentHash = HashOf[d],
                                    !.ledger = Flush(uploads[d].ledger, "PENDING", @)]
<1>1. TypeOK
  BY DEF Inv
<1>2. e \in EventIds /\ events[e] \in EventRows
  BY UploadRequest DEF UploadSessions
<1>3. document \in DocumentRows
  BY <1>2 DEF DocumentRows, LedgerStatus
<1>4. row \in EventRows
  BY <1>2, DeliveryAssumption DEF EventRows, LedgerStatus, Flush
<1>5. events' = [events EXCEPT ![e] = row] /\ documents' = [documents EXCEPT ![d] = document]
  BY DEF UploadRows, Attached
<1>. HIDE DEF document, row
<1>6. documents' \in [DocumentIds -> DocumentRows \cup {None}]
  BY <1>1, <1>3, <1>5 DEF TypeOK
<1>7. events' \in [EventIds -> EventRows \cup {None}]
  BY <1>1, <1>2, <1>4, <1>5 DEF TypeOK
<1>8. PICK r \in Requests : Enqueue(r) /\ r.operationId = RegisterOf(d)
  BY UploadRequest
<1>9. r.operationId[1] = "document" /\ r.operationId[2] = d
  BY <1>8 DEF RegisterOf
<1>10. outbox[r.operationId] = None
  BY <1>8 DEF Enqueue
<1>11. /\ documents'[d] # None
       /\ \A f \in DocumentIds : documents[f] # None => documents'[f] # None
       /\ \A f \in EventIds : events[f] # None => events'[f] # None
  BY <1>1, <1>2, <1>3, <1>4, <1>5, NoneIsNoRow DEF TypeOK
<1>12. RowsStep
  BY <1>1, <1>8, <1>9, <1>10, <1>11, EnqueueShape, CommittedIsApplied
     DEF RowsStep, RowsKept, NewRowsAreSound
<1>. QED  BY <1>1, <1>6, <1>7, <1>8, <1>12, EnqueueShape

LEMMA UploadEndType ==
  ASSUME Inv, NEW d \in DocumentIds,
         \/ UploadCommit(d) \/ UploadCommitUnacknowledged(d)
         \/ UploadRollback(d) \/ UploadCrash(d)
  PROVE  TypeOK' /\ RowsStep
<1>1. TypeOK
  BY DEF Inv
<1>2. UNCHANGED contractVars /\ uploads' = [uploads EXCEPT ![d] = None]
  BY DEF UploadCommit, UploadCommitUnacknowledged, UploadRollback, UploadCrash
<1>3. ContractTypeOK'
  BY <1>1, <1>2, IdleKeepsType DEF TypeOK
<1>4. uploads' \in [DocumentIds -> UploadSessions \cup {None}]
  BY <1>1, <1>2 DEF TypeOK
<1>5. CASE UploadCommit(d)
  BY <1>1, <1>3, <1>4, <1>5, UploadRowsType DEF TypeOK, UploadCommit
<1>6. CASE UploadCommitUnacknowledged(d)
  BY <1>1, <1>3, <1>4, <1>6, UploadRowsType, FaultIsCounted
     DEF TypeOK, UploadCommitUnacknowledged
<1>7. CASE UploadRollback(d)
  BY <1>1, <1>3, <1>4, <1>7, NoRowsStep DEF TypeOK, UploadRollback
<1>8. CASE UploadCrash(d)
  BY <1>1, <1>3, <1>4, <1>8, FaultIsCounted, NoRowsStep DEF TypeOK, UploadCrash
<1>. QED  BY <1>5, <1>6, <1>7, <1>8

LEMMA ReviewRollbackType ==
  ASSUME Inv, NEW u \in Reviewers, ReviewRollback(u)
  PROVE  TypeOK'
<1>1. TypeOK
  BY DEF Inv
<1>2. ContractTypeOK'
  BY <1>1, IdleKeepsType DEF TypeOK, ReviewRollback
<1>. QED  BY <1>1, <1>2 DEF TypeOK, ReviewRollback


-----------------------------------------------------------------------------
LEMMA TimePassesType ==
  ASSUME Inv, NEW o \in OperationIds, TimePasses(o)
  PROVE  TypeOK' /\ RowsStep
<1> DEFINE row == [outbox[o] EXCEPT !.due = TRUE]
<1>1. TypeOK
  BY DEF Inv
<1>2. outbox[o] \in OutboxRows
  BY <1>1 DEF TypeOK, TimePasses
<1>3. row \in OutboxRows
  BY <1>2 DEF OutboxRows
<1>4. outbox' = [outbox EXCEPT ![o] = row]
  BY DEF TimePasses
<1>. HIDE DEF row
<1>5. outbox' \in [OperationIds -> OutboxRows \cup {None}]
  BY <1>1, <1>3, <1>4 DEF TypeOK
<1>6. ContractTypeOK'
  BY <1>1, IdleKeepsType DEF TypeOK, TimePasses
<1>7. TypeOK'
  BY <1>1, <1>5, <1>6 DEF TypeOK, TimePasses, apiVars
<1>8. row # None /\ row.request = outbox[o].request /\ row.status = outbox[o].status
  BY <1>2, <1>3, NoneIsNoRow DEF row, OutboxRows
<1>9. RowsStep
  BY <1>1, <1>4, <1>8, CommittedIsApplied
     DEF TypeOK, TimePasses, apiVars, RowsStep, RowsKept, NewRowsAreSound
<1>. QED  BY <1>7, <1>9

LEMMA ClaimType ==
  ASSUME Inv, NEW w \in Workers, NEW o \in OperationIds, Claim(w, o)
  PROVE  TypeOK' /\ RowsStep
<1> DEFINE row == [outbox[o] EXCEPT !.status = "SUBMITTED", !.due = FALSE]
           state == [Idle EXCEPT !.pc = "claimed", !.op = o]
<1>1. TypeOK
  BY DEF Inv
<1>2. outbox[o] \in OutboxRows
  BY <1>1 DEF TypeOK, Claim, IsNextItem, Eligible
<1>3. row \in OutboxRows
  BY <1>2 DEF OutboxRows, LedgerStatus
<1>4. state \in WorkerStates
  BY DEF WorkerStates, Idle, LedgerStatus
<1>5. outbox' = [outbox EXCEPT ![o] = row] /\ worker' = [worker EXCEPT ![w] = state]
  BY DEF Claim
<1>. HIDE DEF row, state
<1>6. outbox' \in [OperationIds -> OutboxRows \cup {None}]
  BY <1>1, <1>3, <1>5 DEF TypeOK
<1>7. worker' \in [Workers -> WorkerStates]
  BY <1>1, <1>4, <1>5 DEF TypeOK
<1>8. ContractTypeOK'
  BY <1>1, IdleKeepsType DEF TypeOK, Claim
<1>9. TypeOK'
  BY <1>1, <1>6, <1>7, <1>8 DEF TypeOK, Claim, apiVars
<1>10. /\ row # None /\ outbox[o] # None
       /\ row.request = outbox[o].request /\ row.status = "SUBMITTED"
  BY <1>2, <1>3, NoneIsNoRow DEF row, OutboxRows
<1>11. RowsStep
  BY <1>1, <1>5, <1>10, CommittedIsApplied
     DEF TypeOK, Claim, apiVars, RowsStep, RowsKept, NewRowsAreSound
<1>. QED  BY <1>9, <1>11

LEMMA IdleIsState == Idle \in WorkerStates
BY DEF Idle, WorkerStates, LedgerStatus

LEMMA AnsweredIsState ==
  ASSUME TypeOK, NEW w \in Workers, NEW ok \in BOOLEAN
  PROVE  Answered(w, ok) \in WorkerStates
<1>1. worker[w] \in WorkerStates
  BY DEF TypeOK
<1>. QED  BY <1>1 DEF Answered, WorkerStates

LEMMA OrphanedIsCalls ==
  ASSUME TypeOK, NEW w \in Workers
  PROVE  Orphaned(w) \subseteq Calls
<1>1. SUFFICES ASSUME NEW c \in calls
               PROVE  [c EXCEPT !.owner = IF @ = w THEN None ELSE @] \in Calls
  BY DEF Orphaned
<1>2. c \in Calls
  BY DEF TypeOK
<1>. QED  BY <1>2 DEF Calls

LEMMA PostType ==
  ASSUME Inv, NEW w \in Workers, Post(w)
  PROVE  TypeOK'
<1> DEFINE state == [worker[w] EXCEPT !.pc = "waiting"]
           call == [op |-> worker[w].op, owner |-> w]
<1>1. TypeOK
  BY DEF Inv
<1>2. worker[w] \in WorkerStates /\ worker[w].op \in OperationIds
  BY <1>1 DEF TypeOK, Post, Inv, DeliveryInv, WorkIsQueued
<1>3. state \in WorkerStates
  BY <1>2 DEF WorkerStates
<1>4. call \in Calls
  BY <1>2 DEF Calls
<1>5. worker' = [worker EXCEPT ![w] = state] /\ calls' = calls \cup {call}
  BY DEF Post
<1>. HIDE DEF state, call
<1>6. worker' \in [Workers -> WorkerStates] /\ calls' \subseteq Calls
  BY <1>1, <1>3, <1>4, <1>5 DEF TypeOK
<1>7. ContractTypeOK'
  BY <1>1, IdleKeepsType DEF TypeOK, Post
<1>. QED  BY <1>1, <1>6, <1>7 DEF TypeOK, Post, apiVars

LEMMA WorkerFaultType ==
  ASSUME Inv, NEW w \in Workers, Unreachable(w) \/ Timeout(w) \/ Crash(w)
  PROVE  TypeOK'
<1>1. TypeOK
  BY DEF Inv
<1>2. UNCHANGED contractVars
  BY DEF Unreachable, Timeout, Crash
<1>3. ContractTypeOK'
  BY <1>1, <1>2, IdleKeepsType DEF TypeOK
<1>4. Answered(w, FALSE) \in WorkerStates /\ Orphaned(w) \subseteq Calls
  BY <1>1, AnsweredIsState, OrphanedIsCalls
<1>5. worker' \in [Workers -> WorkerStates] /\ calls' \subseteq Calls
  BY <1>1, <1>4, IdleIsState DEF TypeOK, Unreachable, Timeout, Crash
<1>6. faults' \in 0..MaxFaults
  <2>1. Fault
    BY DEF Unreachable, Timeout, Crash
  <2>. QED  BY <1>1, <2>1, FaultIsCounted
<1>. QED  BY <1>1, <1>3, <1>5, <1>6 DEF TypeOK, Unreachable, Timeout, Crash, apiVars

(* What a worker records about an operation belongs to a row that exists. *)
LEMMA SubjectExists ==
  ASSUME Inv, NEW o \in OperationIds, outbox[o] # None
  PROVE  /\ o[1] = "event" => o[2] \in EventIds /\ events[o[2]] \in EventRows
         /\ o[1] = "document" => o[2] \in DocumentIds /\ documents[o[2]] \in DocumentRows
BY OperationOfEvent, OperationOfDocument
   DEF Inv, TypeOK, DeliveryInv, QueuedHaveRows

LEMMA LoadType ==
  ASSUME Inv, NEW w \in Workers, FindLatest(w) \/ LoadView(w)
  PROVE  TypeOK'
<1> DEFINE o == worker[w].op
           found == [worker[w] EXCEPT !.pc = "looked", !.latest = IsLatest(o),
                                      !.row = outbox[o].status]
           loaded == [worker[w] EXCEPT !.pc = "recording", !.view = LedgerView(o)]
<1>1. TypeOK
  BY DEF Inv
<1>2. worker[w] \in WorkerStates
  BY <1>1 DEF TypeOK
<1>3. o \in OperationIds /\ outbox[o] # None
  BY DEF FindLatest, LoadView, Inv, DeliveryInv, WorkIsQueued
<1>4. outbox[o].status \in LedgerStatus
  BY <1>1, <1>3 DEF TypeOK, OutboxRows
<1>5. LedgerView(o) \in LedgerStatus
  BY <1>3, SubjectExists DEF LedgerView, EventRows, DocumentRows, LedgerStatus
<1>6. IsLatest(o) \in BOOLEAN
  BY DEF IsLatest
<1>7. found \in WorkerStates /\ loaded \in WorkerStates
  BY <1>2, <1>4, <1>5, <1>6 DEF WorkerStates
<1>8. worker' = [worker EXCEPT ![w] = found] \/ worker' = [worker EXCEPT ![w] = loaded]
  BY DEF FindLatest, LoadView
<1>. HIDE DEF found, loaded
<1>9. worker' \in [Workers -> WorkerStates]
  BY <1>1, <1>7, <1>8 DEF TypeOK
<1>10. ContractTypeOK'
  BY <1>1, IdleKeepsType DEF TypeOK, FindLatest, LoadView
<1>. QED  BY <1>1, <1>9, <1>10 DEF TypeOK, FindLatest, LoadView, apiVars

LEMMA RecordType ==
  ASSUME Inv, NEW w \in Workers, Record(w)
  PROVE  TypeOK' /\ RowsStep
<1> DEFINE s == worker[w]
           status == IF s.ok THEN "COMMITTED" ELSE "FAILED"
           row == [outbox[s.op] EXCEPT !.status = Flush(s.row, status, @),
                                       !.due = s.ok,
                                       !.tx = IF s.ok THEN s.tx ELSE @]
<1>1. TypeOK
  BY DEF Inv
<1>2. s \in WorkerStates
  BY <1>1 DEF TypeOK
<1>3. s.op \in OperationIds /\ outbox[s.op] # None
  BY DEF Record, Inv, DeliveryInv, WorkIsQueued
<1>4. outbox[s.op] \in OutboxRows
  BY <1>1, <1>3 DEF TypeOK
<1>5. row \in OutboxRows
  BY <1>2, <1>4 DEF OutboxRows, WorkerStates, LedgerStatus, Flush
<1>6. outbox' = [outbox EXCEPT ![s.op] = row]
  BY DEF Record
<1>7. \A e \in EventIds : Aggregate(s.op) = <<"event", e>> =>
         events[e] \in EventRows /\ Recorded(w, events[e]) \in EventRows
  <2>1. SUFFICES ASSUME NEW e \in EventIds, Aggregate(s.op) = <<"event", e>>
                 PROVE  events[e] \in EventRows /\ Recorded(w, events[e]) \in EventRows
    OBVIOUS
  <2>2. events[e] \in EventRows
    BY <1>3, <2>1, SubjectExists DEF Aggregate
  <2>. QED  BY <1>2, <2>2 DEF Recorded, EventRows, WorkerStates, LedgerStatus, Flush
<1>8. \A d \in DocumentIds : Aggregate(s.op) = <<"document", d>> =>
         documents[d] \in DocumentRows /\ Recorded(w, documents[d]) \in DocumentRows
  <2>1. SUFFICES ASSUME NEW d \in DocumentIds, Aggregate(s.op) = <<"document", d>>
                 PROVE  /\ documents[d] \in DocumentRows
                        /\ Recorded(w, documents[d]) \in DocumentRows
    OBVIOUS
  <2>2. documents[d] \in DocumentRows
    BY <1>3, <2>1, SubjectExists DEF Aggregate
  <2>. QED  BY <1>2, <2>2 DEF Recorded, DocumentRows, WorkerStates, LedgerStatus, Flush
<1>. HIDE DEF row
<1>9. outbox' \in [OperationIds -> OutboxRows \cup {None}]
  BY <1>1, <1>5, <1>6 DEF TypeOK
<1>10. events' \in [EventIds -> EventRows \cup {None}]
  BY <1>1, <1>7 DEF TypeOK, Record
<1>11. documents' \in [DocumentIds -> DocumentRows \cup {None}]
  BY <1>1, <1>8 DEF TypeOK, Record
<1>12. worker' \in [Workers -> WorkerStates]
  BY <1>1, IdleIsState DEF TypeOK, Record
<1>13. ContractTypeOK'
  BY <1>1, IdleKeepsType DEF TypeOK, Record
<1>14. TypeOK'
  BY <1>1, <1>9, <1>10, <1>11, <1>12, <1>13 DEF TypeOK, Record
<1>15. row # None /\ row.request = outbox[s.op].request
  BY <1>4, <1>5, NoneIsNoRow DEF row, OutboxRows
<1>16. row.status = "COMMITTED" => Applied(s.op)
  <2>1. s.ok => Applied(s.op)
    BY DEF Record, Inv, DeliveryInv, AnswersAreTrue
  <2>2. ~s.ok => row.status \in {"FAILED", outbox[s.op].status}
    BY <1>4 DEF row, OutboxRows, Flush
  <2>. QED  BY <1>3, <2>1, <2>2, CommittedIsApplied
<1>17. /\ \A e \in EventIds : events[e] # None => events'[e] # None
       /\ \A d \in DocumentIds : documents[d] # None => documents'[d] # None
  BY <1>7, <1>8, NoneIsNoRow DEF Record
<1>18. RowsStep
  BY <1>1, <1>3, <1>6, <1>15, <1>16, <1>17, CommittedIsApplied
     DEF TypeOK, RowsStep, RowsKept, NewRowsAreSound
<1>. QED  BY <1>14, <1>18

-----------------------------------------------------------------------------
LEMMA FreshTxIdIsFresh ==
  ASSUME TxIds \ UsedTxIds # {}
  PROVE  FreshTxId \in TxIds /\ FreshTxId \notin UsedTxIds
BY DEF FreshTxId

LEMMA GatewayType ==
  ASSUME Inv, NEW c \in calls,
         GatewayEndorse(c) \/ GatewayReject(c) \/ GatewayFail(c)
  PROVE  TypeOK'
<1>1. TypeOK
  BY DEF Inv
<1>2. calls' \subseteq Calls
  BY <1>1 DEF TypeOK, GatewayEndorse, GatewayReject, GatewayFail, Handled
<1>3. CASE GatewayEndorse(c)
  <2>1. FreshTxId \in TxIds
    BY <1>3, FreshTxIdIsFresh DEF GatewayEndorse
  <2>2. outbox[c.op].request \in Requests
    BY <1>1 DEF TypeOK, Calls, OutboxRows, Inv, DeliveryInv, WorkIsQueued
  <2>3. ContractTypeOK'
    BY <1>1, <1>3, <2>1, <2>2, EndorseKeepsType DEF TypeOK, GatewayEndorse
  <2>4. \A w \in Workers : [worker[w] EXCEPT !.tx = FreshTxId] \in WorkerStates
    BY <1>1, <2>1 DEF TypeOK, WorkerStates
  <2>5. worker' \in [Workers -> WorkerStates]
    BY <1>1, <1>3, <2>4 DEF TypeOK, GatewayEndorse, ToOwner
  <2>. QED  BY <1>1, <1>2, <1>3, <2>3, <2>5 DEF TypeOK, GatewayEndorse, NoApiStep, apiVars
<1>4. CASE GatewayReject(c) \/ GatewayFail(c)
  <2>1. ContractTypeOK'
    BY <1>1, <1>4, IdleKeepsType DEF TypeOK, GatewayReject, GatewayFail
  <2>2. \A w \in Workers : Answered(w, FALSE) \in WorkerStates
    BY <1>1, AnsweredIsState
  <2>3. worker' \in [Workers -> WorkerStates]
    BY <1>1, <1>4, <2>2 DEF TypeOK, GatewayReject, GatewayFail, ToOwner
  <2>4. faults' \in 0..MaxFaults
    BY <1>1, <1>4, FaultIsCounted DEF TypeOK, GatewayReject, GatewayFail
  <2>. QED  BY <1>1, <1>2, <1>4, <2>1, <2>3, <2>4
            DEF TypeOK, GatewayReject, GatewayFail, NoApiStep, apiVars
<1>. QED  BY <1>3, <1>4

LEMMA ChannelType ==
  ASSUME Inv, NEW tx \in inflight,
         OrderValid(tx) \/ OrderInvalid(tx) \/ OrdererFail(tx)
  PROVE  TypeOK'
<1>1. TypeOK
  BY DEF Inv
<1>2. ContractTypeOK'
  BY <1>1, CommitValidKeepsType, RemovalKeepsType
     DEF TypeOK, OrderValid, OrderInvalid, OrdererFail, CommitInvalid, Lose
<1>3. \A w \in Workers, ok \in BOOLEAN : Answered(w, ok) \in WorkerStates
  BY <1>1, AnsweredIsState
<1>4. worker' \in [Workers -> WorkerStates]
  BY <1>1, <1>3 DEF TypeOK, OrderValid, OrderInvalid, OrdererFail, Answer
<1>5. faults' \in 0..MaxFaults
  BY <1>1, FaultIsCounted DEF TypeOK, OrderValid, OrderInvalid, OrdererFail
<1>. QED  BY <1>1, <1>2, <1>4, <1>5
          DEF TypeOK, OrderValid, OrderInvalid, OrdererFail, NoApiStep, apiVars

LEMMA NextKeepsType ==
  ASSUME Inv, [Next]_vars
  PROVE  TypeOK' /\ RowsStep
<1>1. CASE \/ \E u \in Reviewers, e \in EventIds, decision \in Decisions :
                ReviewCheck(u, e, decision)
           \/ \E u \in Reviewers : ReviewRollback(u)
           \/ \E d \in DocumentIds, e \in EventIds : UploadCheck(d, e)
           \/ \E d \in DocumentIds : UploadPut(d)
  BY <1>1, ReviewCheckType, ReviewRollbackType, UploadCheckType, UploadPutType, NoRowsStep
     DEF ReviewCheck, ReviewRollback, UploadCheck, UploadPut
<1>2. CASE \E w \in Workers : Post(w) \/ FindLatest(w) \/ LoadView(w)
  BY <1>2, PostType, LoadType, NoRowsStep DEF Post, FindLatest, LoadView, apiVars
<1>3. CASE \E w \in Workers : Unreachable(w) \/ Timeout(w) \/ Crash(w)
  BY <1>3, WorkerFaultType, NoRowsStep DEF Unreachable, Timeout, Crash, apiVars
<1>4. CASE \E c \in calls : GatewayEndorse(c) \/ GatewayReject(c) \/ GatewayFail(c)
  BY <1>4, GatewayType, NoRowsStep
     DEF GatewayEndorse, GatewayReject, GatewayFail, NoApiStep, apiVars
<1>5. CASE \E tx \in inflight : OrderValid(tx) \/ OrderInvalid(tx) \/ OrdererFail(tx)
  BY <1>5, ChannelType, NoRowsStep
     DEF OrderValid, OrderInvalid, OrdererFail, NoApiStep, apiVars
<1>6. CASE ApiStep
  BY <1>1, <1>6, CreateAssetRowType, ProposeMaintenanceType, ReviewCommitType,
     UploadEndType DEF ApiStep
<1>7. CASE WorkerStep
  BY <1>2, <1>7, ClaimType, RecordType DEF WorkerStep
<1>8. CASE \E o \in OperationIds : TimePasses(o)
  BY <1>8, TimePassesType
<1>9. CASE UNCHANGED vars
  BY <1>9, IdleKeepsType, NoRowsStep DEF Inv, TypeOK, vars
<1>. QED  BY <1>3, <1>4, <1>5, <1>6, <1>7, <1>8, <1>9
          DEF Next, GatewayStep, ChannelStep, FaultStep

-----------------------------------------------------------------------------
(* The invariant, conjunct by conjunct.                                     *)
LEMMA Steps ==
  ASSUME [Next]_vars
  PROVE  \/ UNCHANGED <<contractVars, worker, calls>>
         \/ \E w \in Workers :
              \/ \E o \in OperationIds : Claim(w, o)
              \/ Post(w) \/ FindLatest(w) \/ LoadView(w) \/ Record(w)
              \/ Unreachable(w) \/ Timeout(w) \/ Crash(w)
         \/ \E c \in calls : GatewayEndorse(c) \/ GatewayReject(c) \/ GatewayFail(c)
         \/ \E tx \in inflight : OrderValid(tx) \/ OrderInvalid(tx) \/ OrdererFail(tx)
<1>1. CASE ApiStep
  BY <1>1 DEF ApiStep, CreateAssetRow, ProposeMaintenance, ReviewCheck, ReviewCommit,
     ReviewRollback, UploadCheck, UploadPut, UploadCommit, UploadRollback,
     UploadCommitUnacknowledged, UploadCrash
<1>2. CASE \E o \in OperationIds : TimePasses(o)
  BY <1>2 DEF TimePasses
<1>. QED  BY <1>1, <1>2
          DEF Next, vars, WorkerStep, GatewayStep, ChannelStep, FaultStep

(* The worker, the gateway and the channel touch no session of the API. *)
LEMMA BackendFrame ==
  ASSUME [Next]_vars, ~ApiStep
  PROVE  UNCHANGED <<reviews, uploads>>
<1>1. CASE \/ WorkerStep
           \/ \E o \in OperationIds : TimePasses(o)
           \/ \E w \in Workers : Unreachable(w) \/ Timeout(w) \/ Crash(w)
  BY <1>1 DEF WorkerStep, Claim, Post, FindLatest, LoadView, Record, TimePasses, Unreachable,
     Timeout, Crash, apiVars
<1>2. CASE \/ \E c \in calls : GatewayEndorse(c) \/ GatewayReject(c) \/ GatewayFail(c)
           \/ \E tx \in inflight : OrderValid(tx) \/ OrderInvalid(tx) \/ OrdererFail(tx)
  BY <1>2 DEF GatewayEndorse, GatewayReject, GatewayFail, OrderValid, OrderInvalid,
     OrdererFail, NoApiStep, apiVars
<1>3. CASE UNCHANGED vars
  BY <1>3 DEF vars
<1>. QED  BY <1>1, <1>2, <1>3 DEF Next, GatewayStep, ChannelStep, FaultStep

LEMMA ReviewsFrame ==
  ASSUME [Next]_vars
  PROVE  \/ UNCHANGED reviews
         \/ \E u \in Reviewers, e \in EventIds, decision \in Decisions :
              ReviewCheck(u, e, decision)
         \/ \E u \in Reviewers : ReviewCommit(u) \/ ReviewRollback(u)
<1>1. CASE ApiStep
  BY <1>1 DEF ApiStep, CreateAssetRow, ProposeMaintenance, apiVars, UploadCheck, UploadPut,
     UploadCommit, UploadRollback, UploadCommitUnacknowledged, UploadCrash
<1>2. CASE ~ApiStep
  BY <1>2, BackendFrame
<1>. QED  BY <1>1, <1>2

LEMMA UploadsFrame ==
  ASSUME [Next]_vars
  PROVE  \/ UNCHANGED uploads
         \/ \E d \in DocumentIds, e \in EventIds : UploadCheck(d, e)
         \/ \E d \in DocumentIds : UploadPut(d)
         \/ \E d \in DocumentIds : uploads' = [uploads EXCEPT ![d] = None]
<1>1. CASE ApiStep
  BY <1>1 DEF ApiStep, CreateAssetRow, ProposeMaintenance, apiVars, ReviewCheck,
     ReviewCommit, ReviewRollback, UploadCommit, UploadRollback,
     UploadCommitUnacknowledged, UploadCrash
<1>2. CASE ~ApiStep
  BY <1>2, BackendFrame
<1>. QED  BY <1>1, <1>2

LEMMA SessionsHaveRowsStep ==
  ASSUME Inv, [Next]_vars, TypeOK', RowsStep
  PROVE  SessionsHaveRows'
<1>1. SessionsHaveRows /\ TypeOK
  BY DEF Inv, DeliveryInv
<1>2. \A u \in Reviewers :
        \/ reviews'[u] \in {None, reviews[u]}
        \/ reviews'[u].eventId \in EventIds /\ events[reviews'[u].eventId] # None
  <2>1. CASE \E u \in Reviewers, e \in EventIds, decision \in Decisions :
               ReviewCheck(u, e, decision)
    BY <1>1, <2>1 DEF ReviewCheck, TypeOK
  <2>2. CASE \E u \in Reviewers : ReviewCommit(u) \/ ReviewRollback(u)
    BY <1>1, <2>2 DEF ReviewCommit, ReviewRollback, TypeOK
  <2>3. CASE UNCHANGED reviews
    BY <2>3
  <2>. QED  BY <2>1, <2>2, <2>3, ReviewsFrame
<1>3. \A d \in DocumentIds :
        \/ uploads'[d] = None
        \/ uploads[d] # None /\ uploads'[d].eventId = uploads[d].eventId
        \/ uploads'[d].eventId \in EventIds /\ events[uploads'[d].eventId] # None
  <2>1. CASE \E d \in DocumentIds, e \in EventIds : UploadCheck(d, e)
    BY <1>1, <2>1 DEF UploadCheck, TypeOK
  <2>2. CASE \E d \in DocumentIds : UploadPut(d)
    BY <1>1, <2>2 DEF UploadPut, TypeOK, UploadSessions
  <2>3. CASE \E d \in DocumentIds : uploads' = [uploads EXCEPT ![d] = None]
    BY <1>1, <2>3 DEF TypeOK
  <2>4. CASE UNCHANGED uploads
    BY <2>4
  <2>. QED  BY <2>1, <2>2, <2>3, <2>4, UploadsFrame
<1>4. \A u \in Reviewers : reviews[u] # None => reviews[u].eventId \in EventIds
  BY <1>1 DEF TypeOK, ReviewSessions
<1>5. \A d \in DocumentIds : uploads[d] # None => uploads[d].eventId \in EventIds
  BY <1>1 DEF TypeOK, UploadSessions
<1>. QED  BY <1>1, <1>2, <1>3, <1>4, <1>5 DEF SessionsHaveRows, RowsStep, RowsKept

LEMMA QueuedHaveRowsStep ==
  ASSUME Inv, RowsStep
  PROVE  QueuedHaveRows'
<1>1. QueuedHaveRows
  BY DEF Inv, DeliveryInv
<1>2. ASSUME NEW e \in EventIds, NEW o \in {ProposeOf(e), ReviewOf(e)}, outbox'[o] # None
      PROVE  events'[e] # None
  <2>1. o \in OperationIds /\ o[1] = "event" /\ o[2] = e
    <3>1. ProposeOf(e)[1] = "event" /\ ProposeOf(e)[2] = e
      BY DEF ProposeOf
    <3>2. ReviewOf(e)[1] = "event" /\ ReviewOf(e)[2] = e
      BY DEF ReviewOf
    <3>. QED  BY <3>1, <3>2, IdOfEvent
  <2>. QED  BY <1>1, <1>2, <2>1 DEF QueuedHaveRows, RowsStep, RowsKept, NewRowsAreSound
<1>3. ASSUME NEW d \in DocumentIds, outbox'[RegisterOf(d)] # None
      PROVE  documents'[d] # None
  <2>1. RegisterOf(d)[1] = "document" /\ RegisterOf(d)[2] = d
    BY DEF RegisterOf
  <2>. QED  BY <1>1, <1>3, <2>1, IdOfDocument
            DEF QueuedHaveRows, RowsStep, RowsKept, NewRowsAreSound
<1>. QED  BY <1>2, <1>3 DEF QueuedHaveRows

-----------------------------------------------------------------------------
(* What a step does to one worker: nothing, it drops its item, claims one, or *)
(* goes on with it.                                                          *)
Claims(w) ==
  /\ worker'[w].pc = "claimed"
  /\ worker'[w].tx = None
  /\ worker'[w].op \in OperationIds
  /\ outbox[worker'[w].op] # None

Posts(w) ==
  /\ worker[w].pc = "claimed"
  /\ worker'[w].pc = "waiting"
  /\ worker'[w].tx = worker[w].tx

Submits(w) ==
  /\ worker'[w].pc = "waiting"
  /\ \E c \in calls : c.owner = w /\ GatewayEndorse(c)
  /\ worker'[w].tx = FreshTxId

HearsNo(w) == worker'[w].pc = "answered" /\ ~worker'[w].ok
HearsYes(w) ==
  /\ worker[w].pc = "waiting"
  /\ worker'[w].pc = "answered"
  /\ \E tx \in inflight : CommitValid(tx) /\ worker[w].tx = tx.id

Loads(w) ==
  /\ worker[w].pc \in {"answered", "looked"}
  /\ worker'[w].pc \in {"looked", "recording"}
  /\ worker'[w].ok = worker[w].ok

GoesOn(w) ==
  /\ worker[w].pc # "idle"
  /\ worker'[w].op = worker[w].op
  /\ Posts(w) \/ Submits(w) \/ HearsNo(w) \/ HearsYes(w) \/ Loads(w)

LEMMA WorkerMoves ==
  ASSUME Inv, [Next]_vars, NEW w \in Workers
  PROVE  worker'[w] = worker[w] \/ worker'[w] = Idle \/ Claims(w) \/ GoesOn(w)
<1>1. /\ worker \in [Workers -> WorkerStates]
      /\ worker[w] \in WorkerStates
      /\ CallsKnowTheirOwner
  BY DEF Inv, TypeOK, DeliveryInv
<1>2. CASE UNCHANGED worker
  BY <1>2
<1>3. ASSUME NEW v \in Workers, NEW o \in OperationIds, Claim(v, o)
      PROVE  worker'[w] = worker[w] \/ Claims(w)
  BY <1>1, <1>3 DEF Claim, Claims, IsNextItem, Eligible, Idle
<1>4. ASSUME NEW v \in Workers, Post(v)
      PROVE  worker'[w] = worker[w] \/ GoesOn(w)
  BY <1>1, <1>4 DEF Post, GoesOn, Posts, WorkerStates
<1>5. ASSUME NEW v \in Workers, FindLatest(v) \/ LoadView(v)
      PROVE  worker'[w] = worker[w] \/ GoesOn(w)
  BY <1>1, <1>5 DEF FindLatest, LoadView, GoesOn, Loads, WorkerStates
<1>6. ASSUME NEW v \in Workers, Record(v) \/ Crash(v)
      PROVE  worker'[w] = worker[w] \/ worker'[w] = Idle
  BY <1>1, <1>6 DEF Record, Crash
<1>7. Answered(w, FALSE).pc = "answered" /\ ~Answered(w, FALSE).ok
        /\ Answered(w, FALSE).op = worker[w].op
  BY <1>1 DEF Answered, WorkerStates
<1>8. ASSUME NEW v \in Workers, Unreachable(v) \/ Timeout(v)
      PROVE  worker'[w] = worker[w] \/ GoesOn(w)
  BY <1>1, <1>7, <1>8 DEF Unreachable, Timeout, GoesOn, HearsNo
<1>9. ASSUME NEW c \in calls, GatewayEndorse(c)
      PROVE  worker'[w] = worker[w] \/ GoesOn(w)
  <2>1. CASE c.owner = w
    <3>1. worker'[w] = [worker[w] EXCEPT !.tx = FreshTxId] /\ worker[w].pc = "waiting"
      BY <1>1, <1>9, <2>1 DEF GatewayEndorse, ToOwner, CallsKnowTheirOwner
    <3>. QED  BY <1>1, <1>9, <2>1, <3>1 DEF GoesOn, Submits, WorkerStates
  <2>2. CASE c.owner # w
    BY <1>9, <2>2 DEF GatewayEndorse, ToOwner
  <2>. QED  BY <2>1, <2>2
<1>10. ASSUME NEW c \in calls, GatewayReject(c) \/ GatewayFail(c)
       PROVE  worker'[w] = worker[w] \/ GoesOn(w)
  <2>1. CASE c.owner = w
    <3>1. worker'[w] = Answered(w, FALSE) /\ worker[w].pc = "waiting"
      BY <1>1, <1>10, <2>1 DEF GatewayReject, GatewayFail, ToOwner, CallsKnowTheirOwner
    <3>. QED  BY <1>7, <3>1 DEF GoesOn, HearsNo
  <2>2. CASE c.owner # w
    BY <1>10, <2>2 DEF GatewayReject, GatewayFail, ToOwner
  <2>. QED  BY <2>1, <2>2
<1>11. ASSUME NEW tx \in inflight, OrderInvalid(tx) \/ OrdererFail(tx)
       PROVE  worker'[w] = worker[w] \/ GoesOn(w)
  BY <1>7, <1>11 DEF OrderInvalid, OrdererFail, Answer, GoesOn, HearsNo
<1>12. ASSUME NEW tx \in inflight, OrderValid(tx)
       PROVE  worker'[w] = worker[w] \/ GoesOn(w)
  <2>1. Answered(w, TRUE).pc = "answered" /\ Answered(w, TRUE).op = worker[w].op
    BY <1>1 DEF Answered, WorkerStates
  <2>. QED  BY <1>12, <2>1 DEF OrderValid, Answer, GoesOn, HearsYes
<1>. QED  BY <1>2, <1>3, <1>4, <1>5, <1>6, <1>8, <1>9, <1>10, <1>11, <1>12, Steps

LEMMA CallMoves ==
  ASSUME Inv, [Next]_vars, NEW c \in calls'
  PROVE  \/ \E b \in calls : c.op = b.op
         \/ \E w \in Workers : worker[w].pc # "idle" /\ c.op = worker[w].op
<1>1. CASE \E w \in Workers : Post(w)
  BY <1>1 DEF Post
<1>2. CASE \E w \in Workers : calls' = Orphaned(w)
  <2>1. PICK w \in Workers : calls' = Orphaned(w)
    BY <1>2
  <2>2. PICK b \in calls : c = [b EXCEPT !.owner = IF @ = w THEN None ELSE @]
    BY <2>1 DEF Orphaned
  <2>3. b \in Calls
    BY DEF Inv, TypeOK
  <2>. QED  BY <2>2, <2>3 DEF Calls
<1>3. CASE calls' \subseteq calls
  BY <1>3
<1>. QED  BY <1>1, <1>2, <1>3, Steps
          DEF Claim, FindLatest, LoadView, Record, Unreachable, Timeout, Crash, GatewayEndorse,
          GatewayReject, GatewayFail, Handled, OrderValid, OrderInvalid, OrdererFail

LEMMA WorkIsQueuedStep ==
  ASSUME Inv, [Next]_vars, TypeOK', RowsStep
  PROVE  WorkIsQueued'
<1>1. WorkIsQueued /\ TypeOK
  BY DEF Inv, DeliveryInv
<1>2. \A o \in OperationIds : outbox'[o] # None => outbox'[o].request.operationId = o
  BY <1>1 DEF WorkIsQueued, RowsStep, RowsKept, NewRowsAreSound
<1>3. ASSUME NEW c \in calls'
      PROVE  outbox'[c.op] # None
  <2>1. c.op \in OperationIds
    BY <1>3 DEF TypeOK, Calls
  <2>2. outbox[c.op] # None
    BY <1>1, CallMoves DEF WorkIsQueued
  <2>. QED  BY <2>1, <2>2 DEF RowsStep, RowsKept
<1>4. ASSUME NEW w \in Workers, worker'[w].pc # "idle"
      PROVE  worker'[w].op \in OperationIds /\ outbox'[worker'[w].op] # None
  <2>1. worker'[w].op \in OperationIds /\ outbox[worker'[w].op] # None
    BY <1>1, <1>4, WorkerMoves DEF WorkIsQueued, Claims, GoesOn, Idle
  <2>. QED  BY <2>1 DEF RowsStep, RowsKept
<1>. QED  BY <1>2, <1>3, <1>4 DEF WorkIsQueued

LEMMA CallsKnowTheirOwnerStep ==
  ASSUME Inv, [Next]_vars, TypeOK'
  PROVE  CallsKnowTheirOwner'
<1>1. CallsKnowTheirOwner /\ TypeOK
  BY DEF Inv, DeliveryInv
<1>2. worker \in [Workers -> WorkerStates]
  BY <1>1 DEF TypeOK
<1>3. \A w \in Workers : worker'[w].pc = "claimed" => worker'[w].tx = None
  BY <1>1, WorkerMoves
     DEF CallsKnowTheirOwner, Claims, GoesOn, Posts, Submits, HearsNo, HearsYes, Loads, Idle
<1> DEFINE Knows(c, w) == c.owner = w => /\ worker'[w].pc = "waiting"
                                         /\ worker'[w].op = c.op
                                         /\ worker'[w].tx = None
<1>4. CASE UNCHANGED <<worker, calls>>
  BY <1>1, <1>4 DEF CallsKnowTheirOwner
<1>5. ASSUME NEW v \in Workers, UNCHANGED calls,
             worker[v].pc # "waiting",
             \A w \in Workers \ {v} : worker'[w] = worker[w],
             NEW c \in calls', NEW w \in Workers
      PROVE  Knows(c, w)
  BY <1>1, <1>5 DEF CallsKnowTheirOwner
<1>6. ASSUME NEW v \in Workers,
             \/ \E o \in OperationIds : Claim(v, o)
             \/ FindLatest(v) \/ LoadView(v) \/ Record(v) \/ Unreachable(v)
      PROVE  /\ UNCHANGED calls /\ worker[v].pc # "waiting"
             /\ \A w \in Workers \ {v} : worker'[w] = worker[w]
  BY <1>2, <1>6 DEF Claim, FindLatest, LoadView, Record, Unreachable
<1>7. ASSUME NEW v \in Workers, Post(v), NEW c \in calls', NEW w \in Workers
      PROVE  Knows(c, w)
  <2>1. CASE c \in calls
    BY <1>1, <1>2, <1>7, <2>1 DEF CallsKnowTheirOwner, Post
  <2>2. CASE c = [op |-> worker[v].op, owner |-> v]
    BY <1>1, <1>2, <1>7, <2>2 DEF CallsKnowTheirOwner, Post, WorkerStates
  <2>. QED  BY <1>7, <2>1, <2>2 DEF Post
<1>8. ASSUME NEW v \in Workers, Timeout(v) \/ Crash(v), NEW c \in calls', NEW w \in Workers
      PROVE  Knows(c, w)
  <2>1. PICK b \in calls : c = [b EXCEPT !.owner = IF @ = v THEN None ELSE @]
    BY <1>8 DEF Timeout, Crash, Orphaned
  <2>2. b \in Calls
    BY <1>1 DEF TypeOK
  <2>3. /\ c.op = b.op
        /\ c.owner = w => b.owner = w /\ w # v
    BY <2>1, <2>2, DeliveryAssumption DEF Calls
  <2>4. w # v => worker'[w] = worker[w]
    BY <1>2, <1>8 DEF Timeout, Crash
  <2>. QED  BY <1>1, <2>3, <2>4 DEF CallsKnowTheirOwner
<1>9. ASSUME NEW b \in calls, GatewayEndorse(b) \/ GatewayReject(b) \/ GatewayFail(b),
             NEW c \in calls', NEW w \in Workers
      PROVE  Knows(c, w)
  <2>1. c \in calls /\ c # b
    BY <1>9 DEF GatewayEndorse, GatewayReject, GatewayFail, Handled
  <2>2. c \in Calls /\ b \in Calls
    BY <1>1, <2>1 DEF TypeOK
  <2>3. CASE c.owner = w
    <3>1. b.owner # w
      BY <1>1, <2>1, <2>2, <2>3 DEF CallsKnowTheirOwner, Calls
    <3>2. worker'[w] = worker[w]
      BY <1>9, <3>1 DEF GatewayEndorse, GatewayReject, GatewayFail, ToOwner
    <3>. QED  BY <1>1, <2>1, <3>2 DEF CallsKnowTheirOwner
  <2>. QED  BY <2>3
<1>10. ASSUME NEW tx \in inflight, OrderValid(tx) \/ OrderInvalid(tx) \/ OrdererFail(tx),
              NEW c \in calls', NEW w \in Workers
       PROVE  Knows(c, w)
  <2>1. calls' = calls
    BY <1>10 DEF OrderValid, OrderInvalid, OrdererFail
  <2>2. tx.id # None
    BY <1>1, NoneIsNoRecord DEF TypeOK, ContractTypeOK, TransactionOK
  <2>3. worker[w].tx = None => worker'[w] = worker[w]
    BY <1>10, <2>2 DEF OrderValid, OrderInvalid, OrdererFail, Answer
  <2>. QED  BY <1>1, <2>1, <2>3 DEF CallsKnowTheirOwner
<1>11. \A c \in calls', w \in Workers : Knows(c, w)
  BY <1>1, <1>4, <1>5, <1>6, <1>7, <1>8, <1>9, <1>10, Steps DEF CallsKnowTheirOwner
<1>. QED  BY <1>3, <1>11 DEF CallsKnowTheirOwner

(* A fresh id belongs to no transaction and to no worker yet. *)
LEMMA FreshTxIdIsNobodys ==
  ASSUME TxIds \ UsedTxIds # {}
  PROVE  /\ \A tx \in inflight : tx.id # FreshTxId
         /\ \A w \in Workers : worker[w].tx # FreshTxId
BY FreshTxIdIsFresh DEF UsedTxIds

LEMMA TransactionMoves ==
  ASSUME Inv, [Next]_vars, NEW tx \in inflight'
  PROVE  \/ tx \in inflight
         \/ \E c \in calls : /\ GatewayEndorse(c)
                             /\ tx = Endorsed(outbox[c.op].request, FreshTxId)
BY Steps DEF contractVars, Claim, Post, FindLatest, LoadView, Record, Unreachable, Timeout, Crash,
   GatewayEndorse, Endorse, GatewayReject, GatewayFail, OrderValid, CommitValid, Apply,
   OrderInvalid, CommitInvalid, OrdererFail, Lose

LEMMA TransactionsAreFaithfulStep ==
  ASSUME Inv, [Next]_vars, TypeOK', RowsStep
  PROVE  TransactionsAreFaithful'
<1>1. /\ TypeOK /\ WorkIsQueued /\ CallsKnowTheirOwner /\ TransactionsAreFaithful
  BY DEF Inv, DeliveryInv
<1>2. ASSUME NEW tx \in inflight
      PROVE  LET o == tx.request.operationId IN
             /\ outbox'[o] # None
             /\ outbox'[o].request = tx.request
             /\ \A w \in Workers :
                  (worker'[w].pc = "waiting" /\ worker'[w].tx = tx.id) => worker'[w].op = o
  <2> DEFINE o == tx.request.operationId
  <2>1. o \in OperationIds /\ tx.id # None
    BY <1>1, RequestShape, NoneIsNoRecord DEF TypeOK, ContractTypeOK, TransactionOK
  <2>2. outbox'[o] # None /\ outbox'[o].request = tx.request
    BY <1>1, <2>1 DEF TransactionsAreFaithful, RowsStep, RowsKept
  <2>3. ASSUME NEW w \in Workers, worker'[w].pc = "waiting", worker'[w].tx = tx.id
        PROVE  worker'[w] = worker[w] \/ Submits(w)
    BY <1>1, <2>1, <2>3, WorkerMoves
       DEF CallsKnowTheirOwner, Idle, Claims, GoesOn, Posts, HearsNo, HearsYes, Loads
  <2>4. ASSUME NEW w \in Workers, Submits(w)
        PROVE  worker'[w].tx # tx.id
    BY <2>4, FreshTxIdIsNobodys DEF Submits, GatewayEndorse
  <2>. QED  BY <1>1, <2>2, <2>3, <2>4 DEF TransactionsAreFaithful
<1>3. ASSUME NEW c \in calls, GatewayEndorse(c),
             NEW tx, tx = Endorsed(outbox[c.op].request, FreshTxId)
      PROVE  LET o == tx.request.operationId IN
             /\ outbox'[o] # None
             /\ outbox'[o].request = tx.request
             /\ \A w \in Workers :
                  (worker'[w].pc = "waiting" /\ worker'[w].tx = tx.id) => worker'[w].op = o
  <2> DEFINE o == tx.request.operationId
  <2>1. tx.request = outbox[c.op].request /\ tx.id = FreshTxId
    BY <1>3 DEF Endorsed
  <2>2. c.op \in OperationIds /\ outbox[c.op] # None /\ o = c.op
    BY <1>1, <2>1 DEF TypeOK, Calls, WorkIsQueued
  <2>3. outbox'[o] # None /\ outbox'[o].request = tx.request
    BY <2>1, <2>2 DEF RowsStep, RowsKept
  <2>4. ASSUME NEW w \in Workers, worker'[w].pc = "waiting", worker'[w].tx = FreshTxId
        PROVE  Submits(w)
    <3>1. worker[w].tx # FreshTxId
      BY <1>3, FreshTxIdIsNobodys DEF GatewayEndorse
    <3>. QED  BY <2>4, <3>1, WorkerMoves
              DEF Idle, Claims, GoesOn, Posts, HearsNo, HearsYes, Loads
  <2>5. ASSUME NEW w \in Workers, Submits(w)
        PROVE  worker'[w].op = c.op
    <3>1. PICK b \in calls : b.owner = w /\ GatewayEndorse(b)
      BY <2>5 DEF Submits
    <3>2. b = c
      BY <1>3, <3>1 DEF GatewayEndorse, Handled
    <3>3. worker[w].op = c.op
      BY <1>1, <3>1, <3>2 DEF CallsKnowTheirOwner
    <3>4. worker'[w] = [worker[w] EXCEPT !.tx = FreshTxId]
      BY <3>1, <3>2 DEF GatewayEndorse, ToOwner
    <3>5. worker[w] \in WorkerStates
      BY <1>1 DEF TypeOK
    <3>. QED  BY <3>3, <3>4, <3>5 DEF WorkerStates
  <2>. QED  BY <2>1, <2>2, <2>3, <2>4, <2>5
<1>. QED  BY <1>2, <1>3, TransactionMoves DEF TransactionsAreFaithful

-----------------------------------------------------------------------------
(* What a step applies: nothing, or the operation of a transaction.          *)
LEMMA Applies ==
  ASSUME Inv, [Next]_vars, NEW o \in OperationIds
  PROVE  \/ operations'[o] = operations[o]
         \/ \E tx \in inflight :
              /\ tx.request.operationId = o
              /\ operations'[o].digest = tx.request.payload
<1>1. operations \in [OperationIds -> OperationRecords \cup {None}]
  BY DEF Inv, TypeOK, ContractTypeOK
<1>2. ASSUME NEW tx \in inflight, CommitValid(tx)
      PROVE  \/ operations'[o] = operations[o]
             \/ /\ tx.request.operationId = o
                /\ operations'[o].digest = tx.request.payload
  BY <1>1, <1>2 DEF CommitValid, Apply
<1>3. UNCHANGED operations \/ \E tx \in inflight : CommitValid(tx)
  BY Steps DEF contractVars, Claim, Post, FindLatest, LoadView, Record, Unreachable, Timeout, Crash,
     GatewayEndorse, Endorse, GatewayReject, GatewayFail, OrderValid, OrderInvalid,
     CommitInvalid, OrdererFail, Lose
<1>. QED  BY <1>2, <1>3

(* A transaction of a valid block leaves its operation applied, and no step  *)
(* takes an operation back.                                                  *)
LEMMA CommitApplies ==
  ASSUME Inv, NEW tx \in inflight, CommitValid(tx)
  PROVE  Applied(tx.request.operationId)'
<1>1. tx.request.operationId \in OperationIds
  BY RequestShape DEF Inv, TypeOK, ContractTypeOK, TransactionOK
<1>2. operations \in [OperationIds -> OperationRecords \cup {None}]
  BY DEF Inv, TypeOK, ContractTypeOK
<1>3. CASE tx.seen = None
  <2>1. tx.request.payload \in Payloads /\ tx.id \in TxIds
    BY RequestShape DEF Inv, TypeOK, ContractTypeOK, TransactionOK
  <2>2. [digest |-> tx.request.payload, txId |-> tx.id] \in OperationRecords
    BY <2>1 DEF OperationRecords
  <2>3. operations'[tx.request.operationId]
          = [digest |-> tx.request.payload, txId |-> tx.id]
    BY <1>1, <1>2, <1>3 DEF CommitValid, Apply
  <2>. QED  BY <2>2, <2>3, NoneIsNoRecord DEF Applied
<1>4. CASE tx.seen # None
  BY <1>4 DEF CommitValid, Apply, Valid, Applied
<1>. QED  BY <1>3, <1>4

LEMMA AppliedStays ==
  ASSUME Inv, [Next]_vars, NEW o \in OperationIds, Applied(o)
  PROVE  Applied(o)'
<1>1. ASSUME NEW tx \in inflight, CommitValid(tx)
      PROVE  Applied(o)'
  <2>1. operations \in [OperationIds -> OperationRecords \cup {None}]
    BY DEF Inv, TypeOK, ContractTypeOK
  <2>2. CASE tx.request.operationId = o
    BY <1>1, <2>2, CommitApplies
  <2>3. CASE tx.request.operationId # o
    BY <1>1, <2>1, <2>3 DEF CommitValid, Apply, Applied
  <2>. QED  BY <2>2, <2>3
<1>2. UNCHANGED operations \/ \E tx \in inflight : CommitValid(tx)
  BY Steps DEF contractVars, Claim, Post, FindLatest, LoadView, Record, Unreachable, Timeout, Crash,
     GatewayEndorse, Endorse, GatewayReject, GatewayFail, OrderValid, OrderInvalid,
     CommitInvalid, OrdererFail, Lose
<1>. QED  BY <1>1, <1>2 DEF Applied

LEMMA AppliedWasQueuedStep ==
  ASSUME Inv, [Next]_vars, TypeOK', RowsStep
  PROVE  AppliedWasQueued'
<1>1. TypeOK /\ AppliedWasQueued /\ TransactionsAreFaithful
  BY DEF Inv, DeliveryInv
<1>2. ASSUME NEW o \in OperationIds, Applied(o)'
      PROVE  outbox'[o] # None /\ outbox'[o].request.payload = operations'[o].digest
  <2>1. CASE operations'[o] = operations[o]
    BY <1>1, <1>2, <2>1 DEF AppliedWasQueued, Applied, RowsStep, RowsKept
  <2>2. CASE \E tx \in inflight : /\ tx.request.operationId = o
                                  /\ operations'[o].digest = tx.request.payload
    BY <1>1, <2>2 DEF TransactionsAreFaithful, RowsStep, RowsKept
  <2>. QED  BY <2>1, <2>2, Applies
<1>. QED  BY <1>2 DEF AppliedWasQueued

LEMMA CommittedIsOnLedgerStep ==
  ASSUME Inv, [Next]_vars, RowsStep, AppliedWasQueued'
  PROVE  CommittedIsOnLedger'
<1>1. ASSUME NEW o \in OperationIds, outbox'[o] # None, outbox'[o].status = "COMMITTED"
      PROVE  Applied(o)'
  <2>1. Applied(o)
    BY <1>1 DEF RowsStep, RowsKept, NewRowsAreSound
  <2>. QED  BY <2>1, AppliedStays
<1>. QED  BY <1>1 DEF CommittedIsOnLedger, AppliedWasQueued

LEMMA AnswersAreTrueStep ==
  ASSUME Inv, [Next]_vars, TypeOK'
  PROVE  AnswersAreTrue'
<1>1. TypeOK /\ WorkIsQueued /\ AnswersAreTrue /\ TransactionsAreFaithful
  BY DEF Inv, DeliveryInv
<1>2. ASSUME NEW w \in Workers, worker'[w].pc \in {"answered", "looked", "recording"}, worker'[w].ok
      PROVE  operations'[worker'[w].op] # None
  <2>1. CASE \/ worker'[w] = worker[w]
             \/ worker'[w].op = worker[w].op /\ Loads(w)
    <3>1. worker'[w].op = worker[w].op /\ Applied(worker[w].op)
      BY <1>1, <1>2, <2>1 DEF AnswersAreTrue, Loads
    <3>2. worker[w].op \in OperationIds
      BY <1>1, <1>2, <2>1 DEF WorkIsQueued, Loads
    <3>. QED  BY <3>1, <3>2, AppliedStays DEF Applied
  <2>2. CASE worker'[w].op = worker[w].op /\ HearsYes(w)
    <3>1. PICK tx \in inflight : CommitValid(tx) /\ worker[w].tx = tx.id
      BY <2>2 DEF HearsYes
    <3>2. worker[w].op = tx.request.operationId
      BY <1>1, <2>2, <3>1 DEF HearsYes, TransactionsAreFaithful
    <3>. QED  BY <2>2, <3>1, <3>2, CommitApplies DEF Applied
  <2>. QED  BY <1>2, <2>1, <2>2, WorkerMoves
            DEF Idle, Claims, GoesOn, Posts, Submits, HearsNo
<1>. QED  BY <1>2 DEF AnswersAreTrue, Applied

-----------------------------------------------------------------------------
LEMMA InitInv == Init => Inv
<1>. SUFFICES ASSUME Init PROVE Inv
  OBVIOUS
<1>2. ContractTypeOK
  BY InitKeepsType DEF Init
<1>3. created \in Seq(OperationIds) /\ faults \in 0..MaxFaults
  BY DeliveryAssumption DEF Init
<1>4. worker \in [Workers -> WorkerStates]
  BY IdleIsState DEF Init
<1>5. TypeOK
  BY <1>2, <1>3, <1>4 DEF Init, TypeOK
<1>6. SessionsHaveRows /\ QueuedHaveRows /\ WorkIsQueued
  BY IdOfEvent, IdOfDocument
     DEF Init, Idle, SessionsHaveRows, QueuedHaveRows, WorkIsQueued
<1>7. CallsKnowTheirOwner /\ TransactionsAreFaithful /\ AnswersAreTrue
  BY DEF Init, ContractInit, Idle, CallsKnowTheirOwner, TransactionsAreFaithful,
     AnswersAreTrue
<1>8. AppliedWasQueued /\ CommittedIsOnLedger
  BY DEF Init, ContractInit, AppliedWasQueued, CommittedIsOnLedger, Applied
<1>. QED  BY <1>5, <1>6, <1>7, <1>8 DEF Inv, DeliveryInv

LEMMA NextInv == Inv /\ [Next]_vars => Inv'
<1>. SUFFICES ASSUME Inv, [Next]_vars PROVE Inv'
  OBVIOUS
<1>2. TypeOK' /\ RowsStep
  BY NextKeepsType
<1>3. AppliedWasQueued'
  BY <1>2, AppliedWasQueuedStep
<1>. QED  BY <1>2, <1>3, SessionsHaveRowsStep, QueuedHaveRowsStep, WorkIsQueuedStep,
             CallsKnowTheirOwnerStep, TransactionsAreFaithfulStep, AnswersAreTrueStep,
             CommittedIsOnLedgerStep
          DEF Inv, DeliveryInv

(* Every row, session, message and transaction has its shape, through any    *)
(* number of faults, with any number of workers, reviewers and events.       *)
THEOREM TypeCorrect == Spec => []TypeOK
BY InitInv, NextInv, PTL DEF Spec, Inv

(* The rows, messages and answers between the outbox and the contract are    *)
(* about the operations they are taken for, through any number of faults.    *)
THEOREM DeliveryIsSound == Spec => []DeliveryInv
BY InitInv, NextInv, PTL DEF Spec, Inv

(* COMMITTED is never invented: an operation the database confirms has been  *)
(* applied by the contract, with the payload of its outbox row.              *)
THEOREM CommittedIsTrue == Spec => []CommittedIsOnLedger
BY DeliveryIsSound, PTL DEF DeliveryInv

(* The ledger applies nothing that was not queued, and only with the payload *)
(* that was queued.                                                          *)
THEOREM AppliedIsQueued == Spec => []AppliedWasQueued
BY DeliveryIsSound, PTL DEF DeliveryInv

-----------------------------------------------------------------------------
(* What a step does to the outbox. *)
Enqueues == \E r \in Requests :
              Enqueue(r) /\ UNCHANGED <<contractVars, worker, calls>>

LEMMA OutboxMoves ==
  ASSUME Inv, [Next]_vars
  PROVE  \/ UNCHANGED outbox
         \/ Enqueues
         \/ \E o \in OperationIds : TimePasses(o)
         \/ \E w \in Workers, o \in OperationIds : Claim(w, o)
         \/ \E w \in Workers : Record(w)
<1>1. TypeOK
  BY DEF Inv
<1>2. ASSUME NEW a \in AssetIds, CreateAssetRow(a)
      PROVE  Enqueues
  BY <1>2, CreateRequest DEF CreateAssetRow, Enqueues
<1>3. ASSUME NEW e \in EventIds, NEW a \in AssetIds, ProposeMaintenance(e, a)
      PROVE  Enqueues
  BY <1>3, ProposeRequest DEF ProposeMaintenance, Enqueues
<1>4. ASSUME NEW u \in Reviewers, ReviewCommit(u)
      PROVE  Enqueues
  <2>1. reviews[u] \in ReviewSessions
    BY <1>1, <1>4 DEF ReviewCommit, TypeOK
  <2>2. reviews[u].eventId \in EventIds /\ reviews[u].decision \in Decisions
    BY <2>1 DEF ReviewSessions
  <2>. QED  BY <1>4, <2>2, ReviewRequest DEF ReviewCommit, Enqueues
<1>5. ASSUME NEW d \in DocumentIds, UploadCommit(d) \/ UploadCommitUnacknowledged(d)
      PROVE  Enqueues
  <2>1. UploadRows(d) /\ uploads[d] # None /\ UNCHANGED <<contractVars, worker, calls>>
    BY <1>5 DEF UploadCommit, UploadCommitUnacknowledged
  <2>2. \E r \in Requests : Enqueue(r)
    BY <2>1, <1>1, UploadRequest DEF Inv, UploadRows, Attached
  <2>. QED  BY <2>1, <2>2 DEF Enqueues
<1>6. CASE ApiStep
  BY <1>2, <1>3, <1>4, <1>5, <1>6
     DEF ApiStep, ReviewCheck, ReviewRollback, UploadCheck, UploadPut, UploadRollback,
         UploadCrash
<1>7. CASE WorkerStep
  BY <1>7 DEF WorkerStep, Post, FindLatest, LoadView
<1>8. CASE GatewayStep \/ ChannelStep \/ FaultStep
  BY <1>8 DEF GatewayStep, ChannelStep, FaultStep, GatewayEndorse, GatewayReject,
     GatewayFail, OrderValid, OrderInvalid, OrdererFail, NoApiStep, Unreachable,
     Timeout, Crash
<1>. QED  BY <1>6, <1>7, <1>8 DEF Next, vars
-----------------------------------------------------------------------------
(* With one worker an item stays SUBMITTED while it is worked on: only that  *)
(* worker could claim it again or record an answer to it.                    *)
OneWorker == \A v, w \in Workers : v = w

ClaimIsExclusive ==
  \A w \in Workers :
    worker[w].pc # "idle" =>
      /\ outbox[worker[w].op].status = "SUBMITTED"
      /\ worker[w].pc \in {"looked", "recording"} => worker[w].row = "SUBMITTED"

(* A worker keeps its item, and the status it is about to record over is the *)
(* one it had or the one it reads now.                                       *)
Keeps(w) ==
  /\ worker[w].pc # "idle"
  /\ worker'[w].op = worker[w].op
  /\ worker'[w].pc \in {"looked", "recording"} =>
       \/ worker[w].pc \in {"looked", "recording"} /\ worker'[w].row = worker[w].row
       \/ worker'[w].row = outbox[worker[w].op].status

LEMMA Moved ==
  ASSUME NEW w \in Workers, worker[w] \in WorkerStates, worker[w].pc # "idle",
         \/ worker'[w] = [worker[w] EXCEPT !.pc = "waiting"]
         \/ worker'[w] = [worker[w] EXCEPT !.tx = FreshTxId]
         \/ worker'[w] = Answered(w, TRUE)
         \/ worker'[w] = Answered(w, FALSE)
  PROVE  Keeps(w)
BY DEF Keeps, Answered, WorkerStates

LEMMA WorkerEffects ==
  ASSUME Inv, [Next]_vars, NEW w \in Workers
  PROVE  worker'[w].pc = "idle" \/ (\E o \in OperationIds : Claim(w, o)) \/ Keeps(w)
<1>1. worker \in [Workers -> WorkerStates] /\ worker[w] \in WorkerStates
  BY DEF Inv, TypeOK
<1>2. CASE worker'[w] = worker[w]
  BY <1>2 DEF Keeps
<1>3. ASSUME NEW v \in Workers, NEW o \in OperationIds, Claim(v, o), v # w
      PROVE  worker'[w] = worker[w]
  BY <1>1, <1>3 DEF Claim
<1>4. ASSUME NEW v \in Workers, Record(v) \/ Crash(v)
      PROVE  worker'[w] = worker[w] \/ worker'[w].pc = "idle"
  BY <1>1, <1>4 DEF Record, Crash, Idle
<1>5. ASSUME NEW v \in Workers, Post(v) \/ Unreachable(v) \/ Timeout(v)
      PROVE  worker'[w] = worker[w] \/ Keeps(w)
  <2>1. CASE v = w
    <3>1. worker'[w] \in {[worker[w] EXCEPT !.pc = "waiting"], Answered(w, FALSE)}
      BY <1>1, <1>5, <2>1 DEF Post, Unreachable, Timeout
    <3>2. worker[w].pc # "idle"
      BY <1>5, <2>1 DEF Post, Unreachable, Timeout
    <3>. QED  BY <1>1, <3>1, <3>2, Moved
  <2>2. CASE v # w
    BY <1>1, <1>5, <2>2 DEF Post, Unreachable, Timeout
  <2>. QED  BY <2>1, <2>2
<1>6. ASSUME NEW v \in Workers, FindLatest(v) \/ LoadView(v)
      PROVE  worker'[w] = worker[w] \/ Keeps(w)
  BY <1>1, <1>6 DEF FindLatest, LoadView, Keeps, WorkerStates
<1>7. ASSUME NEW c \in calls, GatewayEndorse(c) \/ GatewayReject(c) \/ GatewayFail(c)
      PROVE  worker'[w] = worker[w] \/ Keeps(w)
  <2>1. c.owner = w => worker[w].pc = "waiting"
    BY DEF Inv, DeliveryInv, CallsKnowTheirOwner
  <2>2. \/ worker'[w] = worker[w]
        \/ c.owner = w /\ worker'[w] \in {[worker[w] EXCEPT !.tx = FreshTxId],
                                         Answered(w, FALSE)}
    BY <1>1, <1>7 DEF GatewayEndorse, GatewayReject, GatewayFail, ToOwner
  <2>. QED  BY <1>1, <2>1, <2>2, Moved
<1>8. ASSUME NEW tx \in inflight, OrderValid(tx) \/ OrderInvalid(tx) \/ OrdererFail(tx)
      PROVE  worker'[w] = worker[w] \/ Keeps(w)
  <2>1. \/ worker'[w] = worker[w]
        \/ worker[w].pc = "waiting"
             /\ worker'[w] \in {Answered(w, TRUE), Answered(w, FALSE)}
    BY <1>1, <1>8 DEF OrderValid, OrderInvalid, OrdererFail, Answer
  <2>. QED  BY <1>1, <2>1, Moved
<1>. QED  BY <1>2, <1>3, <1>4, <1>5, <1>6, <1>7, <1>8, Steps

LEMMA ClaimIsExclusiveStep ==
  ASSUME OneWorker, Inv, ClaimIsExclusive, [Next]_vars
  PROVE  ClaimIsExclusive'
<1>1. /\ worker \in [Workers -> WorkerStates]
      /\ outbox \in [OperationIds -> OutboxRows \cup {None}]
      /\ WorkIsQueued
  BY DEF Inv, TypeOK, DeliveryInv
<1>2. SUFFICES ASSUME NEW w \in Workers, worker'[w].pc # "idle"
               PROVE  /\ outbox'[worker'[w].op].status = "SUBMITTED"
                      /\ worker'[w].pc \in {"looked", "recording"} => worker'[w].row = "SUBMITTED"
  BY DEF ClaimIsExclusive
<1>3. ASSUME NEW o \in OperationIds, Claim(w, o)
      PROVE  /\ outbox'[worker'[w].op].status = "SUBMITTED"
             /\ worker'[w].pc \notin {"looked", "recording"}
  <2>1. outbox[o] \in OutboxRows
    BY <1>1, <1>3 DEF Claim, IsNextItem, Eligible
  <2>2. outbox'[o].status = "SUBMITTED"
    BY <1>1, <1>3, <2>1 DEF Claim, OutboxRows
  <2>3. worker'[w].op = o /\ worker'[w].pc = "claimed"
    BY <1>1, <1>3 DEF Claim, Idle
  <2>. QED  BY <2>2, <2>3
<1>4. CASE Keeps(w)
  <2>1. worker[w].op \in OperationIds /\ outbox[worker[w].op] # None
    BY <1>1, <1>4 DEF WorkIsQueued, Keeps
  <2>2. outbox[worker[w].op].status = "SUBMITTED" /\ outbox[worker[w].op] \in OutboxRows
    BY <1>1, <1>4, <2>1 DEF ClaimIsExclusive, Keeps
  <2>3. \A v \in Workers : ~Record(v) /\ \A o \in OperationIds : ~Claim(v, o)
    <3>1. SUFFICES ~Record(w) /\ \A o \in OperationIds : ~Claim(w, o)
      BY DEF OneWorker
    <3>2. ~Record(w)
      BY <1>1, <1>2 DEF Record, Idle
    <3>. QED  BY <1>4, <3>2 DEF Claim, Keeps
  <2>4. CASE Enqueues
    <3>1. PICK r \in Requests : Enqueue(r)
      BY <2>4 DEF Enqueues
    <3>2. outbox'[worker[w].op] = outbox[worker[w].op]
      BY <1>1, <2>1, <3>1, RequestShape DEF Enqueue
    <3>. QED  BY <1>4, <2>2, <3>2 DEF Keeps, ClaimIsExclusive
  <2>5. CASE \E o \in OperationIds : TimePasses(o)
    <3>1. outbox'[worker[w].op].status = outbox[worker[w].op].status
      BY <1>1, <2>1, <2>2, <2>5 DEF TimePasses, OutboxRows
    <3>. QED  BY <1>4, <2>2, <3>1 DEF Keeps, ClaimIsExclusive
  <2>6. CASE UNCHANGED outbox
    BY <1>4, <2>2, <2>6 DEF Keeps, ClaimIsExclusive
  <2>. QED  BY <2>3, <2>4, <2>5, <2>6, OutboxMoves
<1>. QED  BY <1>2, <1>3, <1>4, WorkerEffects

LEMMA ClaimIsExclusiveHolds ==
  ASSUME OneWorker
  PROVE  Spec => []ClaimIsExclusive
<1>1. Init => ClaimIsExclusive
  BY DEF Init, Idle, ClaimIsExclusive
<1>2. Inv /\ ClaimIsExclusive /\ [Next]_vars => ClaimIsExclusive'
  BY ClaimIsExclusiveStep
<1>. QED  BY <1>1, <1>2, InitInv, NextInv, PTL DEF Spec

(* One worker takes no confirmation back, however late an answer comes.      *)
THEOREM CommittedIsFinalHolds ==
  ASSUME OneWorker
  PROVE  Spec => CommittedIsFinal
<1>1. Inv /\ ClaimIsExclusive /\ [Next]_vars =>
        [\A o \in OperationIds :
           (outbox[o] # None /\ outbox[o].status = "COMMITTED") =>
             outbox'[o] = outbox[o]]_vars
  <2>1. SUFFICES ASSUME Inv, ClaimIsExclusive, [Next]_vars, NEW o \in OperationIds,
                        outbox[o] # None, outbox[o].status = "COMMITTED"
                 PROVE  outbox'[o] = outbox[o]
    OBVIOUS
  <2>2. outbox \in [OperationIds -> OutboxRows \cup {None}]
    BY <2>1 DEF Inv, TypeOK
  <2>3. CASE Enqueues
    BY <2>1, <2>2, <2>3 DEF Enqueues, Enqueue
  <2>4. CASE \E p \in OperationIds : TimePasses(p)
    BY <2>1, <2>2, <2>4 DEF TimePasses
  <2>5. CASE \E w \in Workers, p \in OperationIds : Claim(w, p)
    BY <2>1, <2>2, <2>5 DEF Claim, IsNextItem, Eligible
  <2>6. CASE \E w \in Workers : Record(w)
    BY <2>1, <2>2, <2>6 DEF Record, ClaimIsExclusive
  <2>. QED  BY <2>1, <2>3, <2>4, <2>5, <2>6, OutboxMoves
<1>. QED  BY <1>1, ClaimIsExclusiveHolds, InitInv, NextInv, PTL DEF Spec, CommittedIsFinal
-----------------------------------------------------------------------------
(* ConfirmedDelivery, as LedgerDelivery instantiates it. *)
Queued    == {o \in OperationIds : outbox[o] # None}
OnLedger  == {o \in OperationIds : Applied(o)}
Confirmed == {o \in OperationIds : outbox[o] # None /\ outbox[o].status = "COMMITTED"}

LEMMA EnqueueQueues ==
  ASSUME Inv, Enqueues
  PROVE  \E o \in OperationIds : Promise!Queue(o)
<1>1. PICK r \in Requests : Enqueue(r) /\ UNCHANGED contractVars
  BY DEF Enqueues
<1> DEFINE o == r.operationId
<1>2. /\ o \in OperationIds /\ outbox[o] = None /\ outbox'[o] # None
      /\ outbox'[o].status = "PENDING"
      /\ \A p \in OperationIds \ {o} : outbox'[p] = outbox[p]
  BY <1>1, EnqueueShape DEF Inv, Enqueue
<1>. HIDE DEF o
<1>3. o \notin Queued /\ Queued' = Queued \cup {o} /\ Confirmed' = Confirmed
  BY <1>2 DEF Queued, Confirmed
<1>4. OnLedger' = OnLedger
  BY <1>1 DEF OnLedger, Applied, contractVars
<1>. QED  BY <1>2, <1>3, <1>4 DEF Promise!Queue, Queued, Confirmed, OnLedger

LEMMA RecordConfirms ==
  ASSUME Inv, ClaimIsExclusive, NEW w \in Workers, Record(w)
  PROVE  \/ \E o \in OperationIds : Promise!Confirm(o)
         \/ UNCHANGED <<Queued, OnLedger, Confirmed>>
<1> DEFINE o == worker[w].op
<1>1. /\ o \in OperationIds /\ outbox[o] # None
      /\ outbox \in [OperationIds -> OutboxRows \cup {None}]
      /\ worker[w].ok => Applied(o)
  BY DEF Inv, TypeOK, DeliveryInv, WorkIsQueued, AnswersAreTrue, Record
<1>2. outbox[o] \in OutboxRows /\ outbox[o].status = "SUBMITTED"
      /\ worker[w].row = "SUBMITTED"
  BY <1>1 DEF ClaimIsExclusive, Record
<1>3. /\ outbox'[o].status = IF worker[w].ok THEN "COMMITTED" ELSE "FAILED"
      /\ \A p \in OperationIds \ {o} : outbox'[p] = outbox[p]
      /\ \A p \in OperationIds : operations'[p] = operations[p]
  BY <1>1, <1>2 DEF Record, Flush, OutboxRows, contractVars
<1>4. outbox'[o] # None
  <2>1. RowsStep
    BY RecordType
  <2>. QED  BY <1>1, <2>1 DEF RowsStep, RowsKept
<1>5. worker[w].ok \in BOOLEAN
  BY DEF Inv, TypeOK, WorkerStates
<1>. HIDE DEF o
<1>6. Queued' = Queued /\ OnLedger' = OnLedger
  BY <1>1, <1>3, <1>4 DEF Queued, OnLedger, Applied
<1>7. CASE worker[w].ok
  <2>1. o \in OnLedger \ Confirmed /\ Confirmed' = Confirmed \cup {o}
    BY <1>1, <1>2, <1>3, <1>4, <1>7 DEF OnLedger, Confirmed
  <2>. QED  BY <1>1, <1>6, <2>1 DEF Promise!Confirm, Queued, Confirmed, OnLedger
<1>8. CASE ~worker[w].ok
  <2>1. Confirmed' = Confirmed
    BY <1>1, <1>2, <1>3, <1>4, <1>8 DEF Confirmed
  <2>. QED  BY <1>6, <2>1
<1>. QED  BY <1>7, <1>8

LEMMA CommitAppliesOne ==
  ASSUME Inv, NEW tx \in inflight, CommitValid(tx), UNCHANGED outbox
  PROVE  \/ \E o \in OperationIds : Promise!Apply(o)
         \/ UNCHANGED <<Queued, OnLedger, Confirmed>>
<1> DEFINE o == tx.request.operationId
<1>1. o \in OperationIds
  BY RequestShape DEF Inv, TypeOK, ContractTypeOK, TransactionOK
<1>2. operations \in [OperationIds -> OperationRecords \cup {None}]
  BY DEF Inv, TypeOK, ContractTypeOK
<1>3. outbox[o] # None
  BY DEF Inv, DeliveryInv, TransactionsAreFaithful
<1>4. operations'[o] # None
  BY CommitApplies DEF Applied
<1>5. Queued' = Queued /\ Confirmed' = Confirmed
  BY DEF Queued, Confirmed
<1>6. CASE tx.seen = None
  <2>1. operations[o] = None /\ \A p \in OperationIds \ {o} : operations'[p] = operations[p]
    BY <1>1, <1>2, <1>6 DEF CommitValid, Valid, Apply
  <2>. HIDE DEF o
  <2>2. o \in Queued \ OnLedger /\ OnLedger' = OnLedger \cup {o}
    BY <1>1, <1>3, <1>4, <2>1 DEF Queued, OnLedger, Applied
  <2>. QED  BY <1>1, <1>5, <2>2 DEF Promise!Apply, Queued, Confirmed, OnLedger
<1>7. CASE tx.seen # None
  <2>1. operations' = operations
    BY <1>7 DEF CommitValid, Apply
  <2>2. OnLedger' = OnLedger
    BY <2>1 DEF OnLedger, Applied
  <2>. QED  BY <1>5, <2>2
<1>. QED  BY <1>6, <1>7

LEMMA StepKeepsPromise ==
  ASSUME OneWorker, Inv, ClaimIsExclusive, [Next]_vars
  PROVE  [Promise!Next]_(Promise!vars)
<1>1. outbox \in [OperationIds -> OutboxRows \cup {None}]
  BY DEF Inv, TypeOK
<1>2. SUFFICES \/ \E o \in OperationIds :
                    Promise!Queue(o) \/ Promise!Apply(o) \/ Promise!Confirm(o)
               \/ UNCHANGED <<Queued, OnLedger, Confirmed>>
  BY DEF Promise!Next, Promise!vars, Queued, OnLedger, Confirmed
<1>3. CASE Enqueues
  BY <1>3, EnqueueQueues
<1>4. CASE \E w \in Workers : Record(w)
  BY <1>4, RecordConfirms
<1>5. CASE \E p \in OperationIds : TimePasses(p)
  <2>1. PICK p \in OperationIds : TimePasses(p)
    BY <1>5
  <2>2. outbox[p] \in OutboxRows
    BY <1>1, <2>1 DEF TimePasses
  <2>3. outbox' = [outbox EXCEPT ![p].due = TRUE] /\ UNCHANGED operations
    BY <2>1 DEF TimePasses, contractVars
  <2>4. outbox'[p] \in OutboxRows /\ outbox'[p].status = outbox[p].status
        /\ \A q \in OperationIds \ {p} : outbox'[q] = outbox[q]
    BY <1>1, <2>2, <2>3 DEF OutboxRows
  <2>5. outbox'[p] # None /\ outbox[p] # None
    BY <2>2, <2>4, NoneIsNoRow
  <2>. QED  BY <2>3, <2>4, <2>5 DEF Queued, OnLedger, Confirmed, Applied
<1>6. CASE \E w \in Workers, p \in OperationIds : Claim(w, p)
  <2>1. PICK w \in Workers, p \in OperationIds : Claim(w, p)
    BY <1>6
  <2>2. outbox[p] # None /\ outbox[p].status # "COMMITTED"
    BY <2>1 DEF Claim, IsNextItem, Eligible
  <2>3. /\ outbox' = [outbox EXCEPT ![p].status = "SUBMITTED", ![p].due = FALSE]
        /\ UNCHANGED operations
    BY <2>1 DEF Claim, contractVars
  <2>4. outbox[p] \in OutboxRows
    BY <1>1, <2>2
  <2>5. outbox'[p] \in OutboxRows /\ outbox'[p].status = "SUBMITTED"
        /\ \A q \in OperationIds \ {p} : outbox'[q] = outbox[q]
    BY <1>1, <2>3, <2>4 DEF OutboxRows, LedgerStatus
  <2>6. outbox'[p] # None
    BY <2>5, NoneIsNoRow
  <2>. QED  BY <2>2, <2>3, <2>5, <2>6 DEF Queued, OnLedger, Confirmed, Applied
<1>7. CASE UNCHANGED outbox
  <2>1. UNCHANGED operations \/ \E tx \in inflight : CommitValid(tx)
    BY Steps DEF contractVars, Claim, Post, FindLatest, LoadView, Record, Unreachable, Timeout, Crash,
       GatewayEndorse, Endorse, GatewayReject, GatewayFail, OrderValid, OrderInvalid,
       CommitInvalid, OrdererFail, Lose
  <2>2. CASE UNCHANGED operations
    BY <1>7, <2>2 DEF Queued, OnLedger, Confirmed, Applied
  <2>. QED  BY <1>7, <2>1, <2>2, CommitAppliesOne
<1>. QED  BY <1>3, <1>4, <1>5, <1>6, <1>7, OutboxMoves

(* The system implements ConfirmedDelivery: whatever the API, the worker, the *)
(* gateway and the channel do, and whatever fails, each step queues, applies  *)
(* or confirms one operation, in that order, or none.                         *)
THEOREM KeepsThePromiseHolds ==
  ASSUME OneWorker
  PROVE  Spec => KeepsThePromise
<1>1. Init => Promise!Init
  BY DEF Init, ContractInit, Applied, Promise!Init
<1>2. Inv /\ ClaimIsExclusive /\ [Next]_vars => [Promise!Next]_(Promise!vars)
  BY StepKeepsPromise
<1>. QED  BY <1>1, <1>2, ClaimIsExclusiveHolds, InitInv, NextInv, PTL
          DEF Spec, KeepsThePromise, Promise!Spec
-----------------------------------------------------------------------------
(* The books of the database: what is there of each row, and what the outbox *)
(* asks for.                                                                 *)
BooksKept ==
  /\ assets' = assets
  /\ \A e \in EventIds :
       /\ events'[e] # None <=> events[e] # None
       /\ events[e] # None => events'[e].status = events[e].status
  /\ \A d \in DocumentIds : documents'[d] # None <=> documents[d] # None
  /\ \A o \in OperationIds :
       /\ outbox'[o] # None <=> outbox[o] # None
       /\ outbox[o] # None => outbox'[o].request = outbox[o].request

HandlerCommits ==
  \/ \E a \in AssetIds : CreateAssetRow(a)
  \/ \E e \in EventIds, a \in AssetIds : ProposeMaintenance(e, a)
  \/ \E u \in Reviewers : ReviewCommit(u)
  \/ \E d \in DocumentIds : UploadCommit(d) \/ UploadCommitUnacknowledged(d)

LEMMA RecordKeepsBooks ==
  ASSUME Inv, NEW w \in Workers, Record(w)
  PROVE  BooksKept
<1> DEFINE o == worker[w].op
<1>1. RowsStep
  BY RecordType
<1>2. /\ o \in OperationIds /\ outbox[o] # None
      /\ outbox \in [OperationIds -> OutboxRows \cup {None}]
      /\ events \in [EventIds -> EventRows \cup {None}]
  BY DEF Inv, TypeOK, DeliveryInv, WorkIsQueued, Record
<1>3. \A p \in OperationIds \ {o} : outbox'[p] = outbox[p]
  BY <1>2 DEF Record
<1>4. \A e \in EventIds : Aggregate(o) = <<"event", e>> => events[e] # None
  <2>1. \A e \in EventIds : Aggregate(o) = <<"event", e>> => o[1] = "event" /\ o[2] = e
    BY DEF Aggregate
  <2>. QED  BY <1>2, <2>1, SubjectExists, NoneIsNoRow
<1>5. \A d \in DocumentIds : Aggregate(o) = <<"document", d>> => documents[d] # None
  <2>1. \A d \in DocumentIds : Aggregate(o) = <<"document", d>> =>
                                o[1] = "document" /\ o[2] = d
    BY DEF Aggregate
  <2>. QED  BY <1>2, <2>1, SubjectExists, NoneIsNoRow
<1>6. ASSUME NEW e \in EventIds
      PROVE  /\ events'[e] # None <=> events[e] # None
             /\ events[e] # None => events'[e].status = events[e].status
  <2>1. CASE Aggregate(o) = <<"event", e>>
    <3>1. events[e] \in EventRows /\ events'[e] # None
      BY <1>1, <1>2, <1>4, <2>1 DEF RowsStep, RowsKept
    <3>2. events'[e] \in {events[e], Recorded(w, events[e])}
      BY DEF Record
    <3>. QED  BY <3>1, <3>2, <1>4, <2>1 DEF Recorded, EventRows
  <2>2. CASE Aggregate(o) # <<"event", e>>
    BY <2>2 DEF Record
  <2>. QED  BY <2>1, <2>2
<1>7. ASSUME NEW d \in DocumentIds
      PROVE  documents'[d] # None <=> documents[d] # None
  <2>1. CASE Aggregate(o) = <<"document", d>>
    BY <1>1, <1>5, <2>1 DEF RowsStep, RowsKept
  <2>2. CASE Aggregate(o) # <<"document", d>>
    BY <2>2 DEF Record
  <2>. QED  BY <2>1, <2>2
<1>8. assets' = assets
  BY DEF Record
<1>. QED  BY <1>1, <1>2, <1>3, <1>6, <1>7, <1>8 DEF BooksKept, RowsStep, RowsKept

LEMMA OtherStepsKeepBooks ==
  ASSUME Inv, [Next]_vars, ~HandlerCommits
  PROVE  BooksKept
<1>1. outbox \in [OperationIds -> OutboxRows \cup {None}] /\ RowsStep
  BY NextKeepsType DEF Inv, TypeOK
<1>2. CASE UNCHANGED <<assets, events, documents, outbox>>
  BY <1>2 DEF BooksKept
<1>3. CASE UNCHANGED <<assets, events, documents>>
             /\ \E p \in OperationIds : /\ outbox[p] # None
                                        /\ \A q \in OperationIds \ {p} : outbox'[q] = outbox[q]
  BY <1>1, <1>3 DEF BooksKept, RowsStep, RowsKept
<1>4. CASE \E p \in OperationIds : TimePasses(p)
  BY <1>1, <1>3, <1>4 DEF TimePasses, apiVars
<1>5. CASE \E w \in Workers, p \in OperationIds : Claim(w, p)
  BY <1>1, <1>3, <1>5 DEF Claim, IsNextItem, Eligible, apiVars
<1>6. CASE \E w \in Workers : Record(w)
  BY <1>6, RecordKeepsBooks
<1>7. CASE ApiStep
  BY <1>2, <1>7 DEF ApiStep, HandlerCommits, ReviewCheck, ReviewRollback, UploadCheck,
     UploadPut, UploadRollback, UploadCrash
<1>8. CASE \E w \in Workers : \/ Post(w) \/ FindLatest(w) \/ LoadView(w)
                               \/ Unreachable(w) \/ Timeout(w) \/ Crash(w)
  BY <1>2, <1>8 DEF Post, FindLatest, LoadView, Unreachable, Timeout, Crash, apiVars
<1>9. CASE \/ \E c \in calls : GatewayEndorse(c) \/ GatewayReject(c) \/ GatewayFail(c)
           \/ \E tx \in inflight : OrderValid(tx) \/ OrderInvalid(tx) \/ OrdererFail(tx)
  BY <1>2, <1>9 DEF GatewayEndorse, GatewayReject, GatewayFail, OrderValid, OrderInvalid,
     OrdererFail, NoApiStep, apiVars
<1>10. CASE UNCHANGED vars
  BY <1>2, <1>10 DEF vars
<1>. QED  BY <1>4, <1>5, <1>6, <1>7, <1>8, <1>9, <1>10
          DEF Next, WorkerStep, GatewayStep, ChannelStep, FaultStep

(* What the commit of a handler adds. *)
LEMMA Added ==
  ASSUME Inv, NEW r \in Requests, Enqueue(r)
  PROVE  /\ r.operationId \in OperationIds
         /\ outbox[r.operationId] = None /\ outbox'[r.operationId] # None
         /\ outbox'[r.operationId].request = r
         /\ \A o \in OperationIds \ {r.operationId} : outbox'[o] = outbox[o]
BY EnqueueShape DEF Inv, Enqueue

LEMMA CreateKeepsQueue ==
  ASSUME Inv, EveryChangeIsQueued, NEW a \in AssetIds, CreateAssetRow(a)
  PROVE  EveryChangeIsQueued'
<1>1. /\ outbox'[CreateOf(a)] # None
      /\ \A o \in OperationIds \ {CreateOf(a)} : outbox'[o] = outbox[o]
  <2> DEFINE r == [operationId |-> CreateOf(a), action |-> "REGISTER_ASSET",
                   organization |-> "OperatorOrg", payload |-> [assetId |-> a]]
  <2>1. r \in Requests /\ Enqueue(r) /\ r.operationId = CreateOf(a)
    BY CreateRequest DEF CreateAssetRow
  <2>. HIDE DEF r
  <2>. QED  BY <2>1, Added
<1>2. /\ \A b \in AssetIds : CreateOf(b) = CreateOf(a) => b = a
      /\ \A e \in EventIds : CreateOf(a) \notin {ProposeOf(e), ReviewOf(e)}
      /\ \A d \in DocumentIds : CreateOf(a) # RegisterOf(d)
  BY DEF CreateOf, ProposeOf, ReviewOf, RegisterOf
<1>3. assets' = assets \cup {a} /\ UNCHANGED <<events, documents>>
  BY DEF CreateAssetRow
<1>. QED  BY <1>1, <1>2, <1>3, IdOfAsset, IdOfEvent, IdOfDocument DEF EveryChangeIsQueued

LEMMA ProposeKeepsQueue ==
  ASSUME Inv, EveryChangeIsQueued, NEW e \in EventIds, NEW a \in AssetIds,
         ProposeMaintenance(e, a)
  PROVE  EveryChangeIsQueued'
<1>1. /\ outbox'[ProposeOf(e)] # None
      /\ \A o \in OperationIds \ {ProposeOf(e)} : outbox'[o] = outbox[o]
  <2> DEFINE r == [operationId |-> ProposeOf(e), action |-> "PROPOSE_EVENT",
                   organization |-> "ContractorOrg",
                   payload |-> [eventId |-> e, assetId |-> a]]
  <2>1. r \in Requests /\ Enqueue(r) /\ r.operationId = ProposeOf(e)
    BY ProposeRequest DEF ProposeMaintenance
  <2>. HIDE DEF r
  <2>. QED  BY <2>1, Added
<1>2. /\ \A b \in AssetIds : CreateOf(b) # ProposeOf(e)
      /\ \A f \in EventIds : /\ ProposeOf(f) = ProposeOf(e) => f = e
                             /\ ReviewOf(f) # ProposeOf(e)
      /\ \A d \in DocumentIds : RegisterOf(d) # ProposeOf(e)
  BY DEF CreateOf, ProposeOf, ReviewOf, RegisterOf
<1>3. /\ UNCHANGED <<assets, documents>> /\ events[e] = None
      /\ \A f \in EventIds \ {e} : events'[f] = events[f]
  BY DEF ProposeMaintenance, apiVars, Inv, TypeOK
<1>4. events'[e] # None /\ events'[e].status \notin Decisions
  <2>1. events'[e] = [assetId |-> a, status |-> "PROPOSED", documentHash |-> None,
                      ledger |-> "PENDING", tx |-> None]
    BY DEF ProposeMaintenance, Inv, TypeOK
  <2>2. events'[e] \in EventRows
    BY <2>1 DEF EventRows, EventStatus, LedgerStatus
  <2>. QED  BY <2>1, <2>2, NoneIsNoRow DEF Decisions
<1>. QED  BY <1>1, <1>2, <1>3, <1>4, IdOfAsset, IdOfEvent, IdOfDocument
          DEF EveryChangeIsQueued

LEMMA ReviewKeepsQueue ==
  ASSUME Inv, EveryChangeIsQueued, NEW u \in Reviewers, ReviewCommit(u)
  PROVE  EveryChangeIsQueued'
<1> DEFINE e == reviews[u].eventId
           decision == reviews[u].decision
<1>1. e \in EventIds /\ decision \in Decisions /\ events[e] \in EventRows
  <2>1. reviews[u] \in ReviewSessions /\ reviews[u] # None
    BY DEF ReviewCommit, Inv, TypeOK
  <2>2. e \in EventIds /\ decision \in Decisions
    BY <2>1 DEF ReviewSessions
  <2>. QED  BY <2>1, <2>2 DEF Inv, TypeOK, DeliveryInv, SessionsHaveRows
<1>2. /\ outbox'[ReviewOf(e)] # None
      /\ outbox'[ReviewOf(e)].request.payload.decision = decision
      /\ \A o \in OperationIds \ {ReviewOf(e)} : outbox'[o] = outbox[o]
  <2> DEFINE r == [operationId |-> ReviewOf(e), action |-> "REVIEW_EVENT",
                   organization |-> "OperatorOrg",
                   payload |-> [eventId |-> e, decision |-> decision]]
  <2>1. /\ r \in Requests /\ Enqueue(r) /\ r.operationId = ReviewOf(e)
        /\ r.payload.decision = decision
    BY <1>1, ReviewRequest DEF ReviewCommit
  <2>. HIDE DEF r
  <2>. QED  BY <2>1, Added
<1>3. UNCHANGED <<assets, documents>> /\ \A f \in EventIds \ {e} : events'[f] = events[f]
  BY DEF ReviewCommit, Inv, TypeOK
<1>4. events'[e] # None /\ events'[e].status = decision
  <2>1. RowsStep
    BY ReviewCommitType
  <2>2. events'[e].status = decision
    BY <1>1 DEF ReviewCommit, Inv, TypeOK, EventRows
  <2>. QED  BY <1>1, <2>1, <2>2, NoneIsNoRow DEF RowsStep, RowsKept
<1>. HIDE DEF e, decision
<1>5. /\ \A a \in AssetIds : CreateOf(a) # ReviewOf(e)
      /\ \A f \in EventIds : /\ ReviewOf(f) = ReviewOf(e) => f = e
                             /\ ProposeOf(f) # ReviewOf(e)
      /\ \A d \in DocumentIds : RegisterOf(d) # ReviewOf(e)
  BY DEF CreateOf, ProposeOf, ReviewOf, RegisterOf
<1>6. events[e] # None
  BY <1>1, NoneIsNoRow
<1>. QED  BY <1>1, <1>2, <1>3, <1>4, <1>5, <1>6, IdOfAsset, IdOfEvent, IdOfDocument
          DEF EveryChangeIsQueued

LEMMA UploadKeepsQueue ==
  ASSUME Inv, EveryChangeIsQueued, NEW d \in DocumentIds,
         UploadCommit(d) \/ UploadCommitUnacknowledged(d)
  PROVE  EveryChangeIsQueued'
<1>1. UploadRows(d) /\ uploads[d] # None /\ assets' = assets
  BY DEF UploadCommit, UploadCommitUnacknowledged
<1> DEFINE e == uploads[d].eventId
<1>2. /\ outbox'[RegisterOf(d)] # None
      /\ \A o \in OperationIds \ {RegisterOf(d)} : outbox'[o] = outbox[o]
  BY <1>1, UploadRequest, Added
<1>3. e \in EventIds /\ events[e] \in EventRows
  BY <1>1, UploadRequest DEF UploadSessions
<1>4. RowsStep
  BY <1>1, UploadRowsType
<1>5. /\ \A f \in EventIds \ {e} : events'[f] = events[f]
      /\ events'[e].status = events[e].status
  BY <1>1, <1>3 DEF UploadRows, Attached, Inv, TypeOK, EventRows
<1>6. documents'[d] # None /\ \A f \in DocumentIds \ {d} : documents'[f] = documents[f]
  <2>1. documents'[d] = [eventId |-> e, ledger |-> "PENDING", tx |-> None]
    BY <1>1 DEF UploadRows, Attached, Inv, TypeOK
  <2>2. documents'[d] \in DocumentRows
    BY <1>3, <2>1 DEF DocumentRows, LedgerStatus
  <2>. QED  BY <1>1, <2>2, NoneIsNoRow DEF UploadRows, Attached, Inv, TypeOK
<1>. HIDE DEF e
<1>7. events[e] # None /\ events'[e] # None
  BY <1>3, <1>4, NoneIsNoRow DEF RowsStep, RowsKept
<1>8. /\ \A a \in AssetIds : CreateOf(a) # RegisterOf(d)
      /\ \A f \in EventIds : RegisterOf(d) \notin {ProposeOf(f), ReviewOf(f)}
      /\ \A f \in DocumentIds : RegisterOf(f) = RegisterOf(d) => f = d
  BY DEF CreateOf, ProposeOf, ReviewOf, RegisterOf
<1>. QED  BY <1>1, <1>2, <1>3, <1>5, <1>6, <1>7, <1>8, IdOfAsset, IdOfEvent, IdOfDocument
          DEF EveryChangeIsQueued

LEMMA EveryChangeIsQueuedStep ==
  ASSUME Inv, EveryChangeIsQueued, [Next]_vars
  PROVE  EveryChangeIsQueued'
<1>1. CASE HandlerCommits
  BY <1>1, CreateKeepsQueue, ProposeKeepsQueue, ReviewKeepsQueue, UploadKeepsQueue
     DEF HandlerCommits
<1>2. CASE ~HandlerCommits
  BY <1>2, OtherStepsKeepBooks, IdOfAsset, IdOfEvent, IdOfDocument
     DEF BooksKept, EveryChangeIsQueued
<1>. QED  BY <1>1, <1>2

(* The transactional outbox: a change and the operation that reports it are  *)
(* committed together, however requests race and whatever crashes.           *)
THEOREM EveryChangeIsQueuedHolds == Spec => []EveryChangeIsQueued
<1>1. Init => EveryChangeIsQueued
  BY IdOfAsset, IdOfEvent, IdOfDocument DEF Init, EveryChangeIsQueued
<1>. QED  BY <1>1, EveryChangeIsQueuedStep, InitInv, NextInv, PTL DEF Spec
-----------------------------------------------------------------------------
(* The two stores of a document.  An upload that is open has no row yet, so  *)
(* what its failure removes belongs to nobody else.                          *)
UploadsAreOpen ==
  \A d \in DocumentIds :
    uploads[d] # None =>
      /\ documents[d] = None
      /\ uploads[d].stored => d \in objects

StoresInv == UploadsAreOpen /\ EvidenceIsWhole

LEMMA StoresFrame ==
  ASSUME [Next]_vars
  PROVE  \/ UNCHANGED <<uploads, objects>>
         \/ \E d \in DocumentIds :
              \/ \E e \in EventIds : UploadCheck(d, e)
              \/ UploadPut(d) \/ UploadCommit(d) \/ UploadRollback(d)
              \/ UploadCommitUnacknowledged(d) \/ UploadCrash(d)
<1>1. CASE ApiStep
  BY <1>1 DEF ApiStep, CreateAssetRow, ProposeMaintenance, apiVars, ReviewCheck,
     ReviewCommit, ReviewRollback
<1>2. CASE \/ WorkerStep
           \/ \E o \in OperationIds : TimePasses(o)
           \/ \E w \in Workers : Unreachable(w) \/ Timeout(w) \/ Crash(w)
  BY <1>2 DEF WorkerStep, Claim, Post, FindLatest, LoadView, Record, TimePasses, Unreachable,
     Timeout, Crash, apiVars
<1>3. CASE \/ \E c \in calls : GatewayEndorse(c) \/ GatewayReject(c) \/ GatewayFail(c)
           \/ \E tx \in inflight : OrderValid(tx) \/ OrderInvalid(tx) \/ OrdererFail(tx)
  BY <1>3 DEF GatewayEndorse, GatewayReject, GatewayFail, OrderValid, OrderInvalid,
     OrdererFail, NoApiStep, apiVars
<1>4. CASE UNCHANGED vars
  BY <1>4 DEF vars
<1>. QED  BY <1>1, <1>2, <1>3, <1>4 DEF Next, GatewayStep, ChannelStep, FaultStep

(* What a step does to document d, its upload and its object. *)
LEMMA StoresMoves ==
  ASSUME Inv, [Next]_vars, NEW d \in DocumentIds
  PROVE  \/ /\ uploads'[d] = uploads[d] /\ (d \in objects' <=> d \in objects)
            /\ documents'[d] # None <=> documents[d] # None
         \/ \E e \in EventIds : UploadCheck(d, e)
         \/ UploadPut(d) \/ UploadCommit(d) \/ UploadRollback(d)
         \/ UploadCommitUnacknowledged(d) \/ UploadCrash(d)
<1>1. /\ uploads \in [DocumentIds -> UploadSessions \cup {None}]
      /\ documents \in [DocumentIds -> DocumentRows \cup {None}]
  BY DEF Inv, TypeOK
<1>2. CASE UNCHANGED <<uploads, objects>>
  <2>1. CASE HandlerCommits
    <3>1. \A f \in DocumentIds : ~UploadCommit(f) /\ ~UploadCommitUnacknowledged(f)
      BY <1>1, <1>2 DEF UploadCommit, UploadCommitUnacknowledged
    <3>2. UNCHANGED documents
      BY <2>1, <3>1 DEF HandlerCommits, CreateAssetRow, ProposeMaintenance, apiVars,
         ReviewCommit
    <3>. QED  BY <1>2, <3>2
  <2>2. CASE ~HandlerCommits
    BY <1>2, <2>2, OtherStepsKeepBooks DEF BooksKept
  <2>. QED  BY <2>1, <2>2
<1>3. ASSUME NEW f \in DocumentIds, f # d,
             \/ \E e \in EventIds : UploadCheck(f, e)
             \/ UploadPut(f) \/ UploadCommit(f) \/ UploadRollback(f)
             \/ UploadCommitUnacknowledged(f) \/ UploadCrash(f)
      PROVE  /\ uploads'[d] = uploads[d] /\ (d \in objects' <=> d \in objects)
             /\ documents'[d] = documents[d]
  BY <1>1, <1>3 DEF UploadCheck, UploadPut, UploadCommit, UploadRollback, UploadRows, Attached,
     UploadCommitUnacknowledged, UploadCrash
<1>. QED  BY <1>2, <1>3, StoresFrame

LEMMA UploadLeavesDocument ==
  ASSUME Inv, NEW d \in DocumentIds, UploadCommit(d)
  PROVE  documents'[d] # None
<1>1. uploads[d].eventId \in EventIds /\ uploads[d] # None /\ UploadRows(d)
  BY UploadRequest DEF UploadCommit, UploadSessions
<1>2. documents'[d] = [eventId |-> uploads[d].eventId, ledger |-> "PENDING", tx |-> None]
  BY <1>1 DEF UploadRows, Attached, Inv, TypeOK
<1>3. documents'[d] \in DocumentRows
  BY <1>1, <1>2 DEF DocumentRows, LedgerStatus
<1>. QED  BY <1>3, NoneIsNoRow

LEMMA FaultsFrame ==
  ASSUME [Next]_vars
  PROVE  faults' = faults \/ faults' = faults + 1
<1>1. CASE ApiStep
  BY <1>1 DEF ApiStep, CreateAssetRow, ProposeMaintenance, ReviewCheck, ReviewCommit,
     ReviewRollback, UploadCheck, UploadPut, UploadCommit, UploadRollback,
     UploadCommitUnacknowledged, UploadCrash, Fault
<1>2. CASE WorkerStep \/ \E o \in OperationIds : TimePasses(o)
  BY <1>2 DEF WorkerStep, Claim, Post, FindLatest, LoadView, Record, TimePasses
<1>3. CASE GatewayStep \/ ChannelStep
  BY <1>3 DEF GatewayStep, ChannelStep, GatewayEndorse, GatewayReject, OrderValid,
     OrderInvalid
<1>4. CASE FaultStep
  BY <1>4 DEF FaultStep, Unreachable, Timeout, Crash, GatewayFail, OrdererFail, Fault
<1>. QED  BY <1>1, <1>2, <1>3, <1>4 DEF Next, vars

(* An upload that stored its bytes is still open. *)
LEMMA UploadPutKeeps ==
  ASSUME Inv, NEW d \in DocumentIds, UploadPut(d)
  PROVE  uploads'[d] # None
<1>1. uploads[d] \in UploadSessions /\ uploads' = [uploads EXCEPT ![d].stored = TRUE]
  BY DEF Inv, TypeOK, UploadPut
<1>2. uploads'[d] = [uploads[d] EXCEPT !.stored = TRUE]
  BY <1>1 DEF Inv, TypeOK
<1>3. uploads'[d] \in UploadSessions
  BY <1>1, <1>2 DEF UploadSessions
<1>. QED  BY <1>3, NoneIsNoRow

LEMMA StoresInvStep ==
  ASSUME Inv, StoresInv, [Next]_vars
  PROVE  StoresInv'
<1>1. /\ uploads \in [DocumentIds -> UploadSessions \cup {None}]
      /\ documents \in [DocumentIds -> DocumentRows \cup {None}]
      /\ faults \in 0..MaxFaults /\ faults' \in 0..MaxFaults
  BY NextKeepsType DEF Inv, TypeOK
<1>2. faults' = 0 => faults = 0
  <2>1. faults' = faults \/ faults' = faults + 1
    BY FaultsFrame
  <2>. QED  BY <1>1, <2>1, DeliveryAssumption
<1>3. ASSUME NEW d \in DocumentIds
      PROVE  /\ uploads'[d] # None => /\ documents'[d] = None
                                      /\ uploads'[d].stored => d \in objects'
             /\ faults' = 0 => /\ documents'[d] # None => d \in objects'
                               /\ d \in objects' => documents'[d] # None \/ uploads'[d] # None
  <2>1. /\ uploads[d] # None => documents[d] = None /\ (uploads[d].stored => d \in objects)
        /\ faults' = 0 => /\ documents[d] # None => d \in objects
                          /\ d \in objects => documents[d] # None \/ uploads[d] # None
    BY <1>2 DEF StoresInv, UploadsAreOpen, EvidenceIsWhole
  <2>2. ASSUME NEW e \in EventIds, UploadCheck(d, e)
        PROVE  /\ uploads'[d].stored = FALSE /\ UNCHANGED <<documents, objects>>
               /\ documents[d] = None /\ d \notin objects
    BY <1>1, <2>2 DEF UploadCheck
  <2>3. CASE UploadPut(d)
    <3>1. /\ UNCHANGED documents /\ d \in objects' /\ uploads[d] # None
          /\ uploads[d] \in UploadSessions
      BY <1>1, <2>3 DEF UploadPut
    <3>2. uploads'[d] \in UploadSessions
      BY <1>1, <2>3, <3>1 DEF UploadPut, UploadSessions
    <3>3. uploads'[d] # None
      BY <1>1, <2>3, UploadPutKeeps
    <3>. QED  BY <2>1, <3>1, <3>3
  <2>4. CASE UploadCommit(d)
    <3>1. /\ UNCHANGED objects /\ d \in objects /\ uploads'[d] = None
      BY <1>1, <2>1, <2>4 DEF UploadCommit
    <3>2. documents'[d] # None
      BY <1>1, <2>4, UploadLeavesDocument
    <3>. QED  BY <3>1, <3>2
  <2>5. CASE UploadRollback(d)
    BY <1>1, <2>1, <2>5 DEF UploadRollback
  <2>6. CASE UploadCommitUnacknowledged(d) \/ UploadCrash(d)
    BY <1>1, <2>6 DEF UploadCommitUnacknowledged, UploadCrash, Fault
  <2>. QED  BY <2>1, <2>2, <2>3, <2>4, <2>5, <2>6, StoresMoves
<1>. QED  BY <1>3 DEF StoresInv, UploadsAreOpen, EvidenceIsWhole

(* As long as nothing breaks, a document has its bytes and bytes without a   *)
(* document belong to an open upload, whatever uploads and reviews race.     *)
THEOREM EvidenceIsWholeHolds == Spec => []EvidenceIsWhole
<1>1. Init => StoresInv
  BY DEF Init, StoresInv, UploadsAreOpen, EvidenceIsWhole
<1>2. StoresInv => EvidenceIsWhole
  BY DEF StoresInv
<1>. QED  BY <1>1, <1>2, StoresInvStep, InitInv, NextInv, PTL DEF Spec
-----------------------------------------------------------------------------
(* The decisions.  The ledger learns a decision only from a transaction, and *)
(* a transaction writes one only if it carries the review of that event or   *)
(* found the decision on the ledger.                                         *)
ReviewsNameTheirEvent ==
  \A o \in OperationIds :
    (outbox[o] # None /\ outbox[o].request.action = "REVIEW_EVENT") =>
      o = ReviewOf(outbox[o].request.payload.eventId)

DecisionIsQueued(record, e) ==
  record.status \in Decisions =>
    /\ outbox[ReviewOf(e)] # None
    /\ outbox[ReviewOf(e)].request.payload.decision = record.status

DecisionsAreQueued ==
  /\ \A e \in EventIds :
       Exists(<<"event", e>>) => DecisionIsQueued(world[<<"event", e>>], e)
  /\ \A tx \in inflight, e \in EventIds :
       <<"event", e>> \in DOMAIN tx.writes =>
         DecisionIsQueued(tx.writes[<<"event", e>>], e)

DecisionInv == ReviewsNameTheirEvent /\ DecisionsAreQueued

(* A request added to the outbox that is a review names its event. *)
LEMMA AddedReview ==
  ASSUME Inv, ReviewsNameTheirEvent, NEW r \in Requests, Enqueue(r),
         r.action = "REVIEW_EVENT" => r.operationId = ReviewOf(r.payload.eventId)
  PROVE  ReviewsNameTheirEvent'
BY Added DEF ReviewsNameTheirEvent

LEMMA ReviewsNameTheirEventStep ==
  ASSUME Inv, ReviewsNameTheirEvent, [Next]_vars
  PROVE  ReviewsNameTheirEvent'
<1>1. ASSUME NEW a \in AssetIds, CreateAssetRow(a)
      PROVE  ReviewsNameTheirEvent'
  <2> DEFINE r == [operationId |-> CreateOf(a), action |-> "REGISTER_ASSET",
                   organization |-> "OperatorOrg", payload |-> [assetId |-> a]]
  <2>1. r \in Requests /\ Enqueue(r) /\ r.action # "REVIEW_EVENT"
    BY <1>1, CreateRequest DEF CreateAssetRow
  <2>. HIDE DEF r
  <2>. QED  BY <2>1, AddedReview
<1>2. ASSUME NEW e \in EventIds, NEW a \in AssetIds, ProposeMaintenance(e, a)
      PROVE  ReviewsNameTheirEvent'
  <2> DEFINE r == [operationId |-> ProposeOf(e), action |-> "PROPOSE_EVENT",
                   organization |-> "ContractorOrg",
                   payload |-> [eventId |-> e, assetId |-> a]]
  <2>1. r \in Requests /\ Enqueue(r) /\ r.action # "REVIEW_EVENT"
    BY <1>2, ProposeRequest DEF ProposeMaintenance
  <2>. HIDE DEF r
  <2>. QED  BY <2>1, AddedReview
<1>3. ASSUME NEW u \in Reviewers, ReviewCommit(u)
      PROVE  ReviewsNameTheirEvent'
  <2> DEFINE e == reviews[u].eventId
             r == [operationId |-> ReviewOf(e), action |-> "REVIEW_EVENT",
                   organization |-> "OperatorOrg",
                   payload |-> [eventId |-> e, decision |-> reviews[u].decision]]
  <2>1. reviews[u] \in ReviewSessions
    BY <1>3 DEF ReviewCommit, Inv, TypeOK
  <2>2. e \in EventIds /\ reviews[u].decision \in Decisions
    BY <2>1 DEF ReviewSessions
  <2>3. r \in Requests /\ Enqueue(r) /\ r.operationId = ReviewOf(r.payload.eventId)
    BY <1>3, <2>2, ReviewRequest DEF ReviewCommit
  <2>. HIDE DEF r
  <2>. QED  BY <2>3, AddedReview
<1>4. ASSUME NEW d \in DocumentIds, UploadCommit(d) \/ UploadCommitUnacknowledged(d)
      PROVE  ReviewsNameTheirEvent'
  <2>1. UploadRows(d) /\ uploads[d] # None
    BY <1>4 DEF UploadCommit, UploadCommitUnacknowledged
  <2>2. PICK r \in Requests : Enqueue(r) /\ r.action = "REGISTER_DOCUMENT"
    BY <2>1, UploadRequest
  <2>. QED  BY <2>2, AddedReview
<1>5. CASE HandlerCommits
  BY <1>1, <1>2, <1>3, <1>4, <1>5 DEF HandlerCommits
<1>6. CASE ~HandlerCommits
  BY <1>6, OtherStepsKeepBooks DEF BooksKept, ReviewsNameTheirEvent
<1>. QED  BY <1>5, <1>6

(* What a submit function writes to an event: the proposal, the status it    *)
(* read, or the decision of its own request.                                 *)
LEMMA WritesOfEvent ==
  ASSUME ContractTypeOK, NEW r \in Requests, NEW e \in EventIds,
         <<"event", e>> \in DOMAIN Simulate(r).writes
  PROVE  LET new == Simulate(r).writes[<<"event", e>>] IN
         \/ new.status = "PROPOSED"
         \/ /\ Exists(<<"event", e>>)
            /\ new.status = world[<<"event", e>>].status
         \/ /\ r.action = "REVIEW_EVENT" /\ r.payload.eventId = e
            /\ new.status = r.payload.decision
<1>1. r.organization \in Orgs /\ r.action \in Actions /\ r.payload \in PayloadsOf[r.action]
  BY RequestShape
<1>2. world[<<"event", e>>] # None => world[<<"event", e>>] \in EventRecords
  BY EventKey DEF ContractTypeOK
<1>3. CASE r.action = "PROPOSE_EVENT"
  BY <1>3 DEF Simulate, ProposeEvent, Outcome, NoKeys
<1>4. CASE r.action = "REVIEW_EVENT"
  BY <1>2, <1>4 DEF Simulate, ReviewEvent, Outcome, NoKeys, Exists, EventRecords
<1>5. CASE r.action = "REGISTER_DOCUMENT"
  BY <1>2, <1>5 DEF Simulate, RegisterDocument, Registration, Outcome, NoKeys, Exists,
     EventRecords
<1>6. CASE r.action \in {"REGISTER_ASSET", "DECOMMISSION_ASSET", "REGISTER_TELEMETRY_BATCH"}
  BY <1>6 DEF Simulate, CreateAsset, DecommissionAsset, RegisterTelemetryBatch,
     BatchRegistration, Outcome, NoKeys
<1>. QED  BY <1>1, <1>3, <1>4, <1>5, <1>6, ActionNames

(* What the queue asks for stays asked for. *)
LEMMA QueuedStays ==
  ASSUME Inv, [Next]_vars, NEW e \in EventIds, NEW record, DecisionIsQueued(record, e)
  PROVE  /\ outbox[ReviewOf(e)] # None =>
              /\ outbox'[ReviewOf(e)] # None
              /\ outbox'[ReviewOf(e)].request = outbox[ReviewOf(e)].request
         /\ record.status \in Decisions =>
              /\ outbox'[ReviewOf(e)] # None
              /\ outbox'[ReviewOf(e)].request.payload.decision = record.status
BY NextKeepsType, IdOfEvent DEF RowsStep, RowsKept, DecisionIsQueued

(* A new transaction writes only decisions that are queued. *)
LEMMA EndorsedDecision ==
  ASSUME Inv, DecisionInv, NEW c \in calls, outbox[c.op] # None, NEW e \in EventIds,
         NEW id,
         <<"event", e>> \in DOMAIN Endorsed(outbox[c.op].request, id).writes
  PROVE  DecisionIsQueued(Endorsed(outbox[c.op].request, id).writes[<<"event", e>>], e)
<1> DEFINE r == outbox[c.op].request
           new == Endorsed(r, id).writes[<<"event", e>>]
<1>1. c.op \in OperationIds /\ r \in Requests
  BY DEF Inv, TypeOK, Calls, OutboxRows
<1>2. /\ <<"event", e>> \in DOMAIN Simulate(r).writes
      /\ new = Simulate(r).writes[<<"event", e>>]
  BY DEF Endorsed, NoKeys
<1>3. r.action = "REVIEW_EVENT" => c.op = ReviewOf(r.payload.eventId)
  BY <1>1 DEF DecisionInv, ReviewsNameTheirEvent
<1>4. ContractTypeOK
  BY DEF Inv, TypeOK
<1>. SUFFICES DecisionIsQueued(new, e)
  OBVIOUS
<1>5. CASE new.status = "PROPOSED"
  BY <1>5 DEF DecisionIsQueued, Decisions
<1>6. CASE Exists(<<"event", e>>) /\ new.status = world[<<"event", e>>].status
  BY <1>6 DEF DecisionInv, DecisionsAreQueued, DecisionIsQueued
<1>7. CASE /\ r.action = "REVIEW_EVENT" /\ r.payload.eventId = e
           /\ new.status = r.payload.decision
  BY <1>3, <1>7 DEF DecisionIsQueued
<1>. HIDE DEF r, new
<1>. QED  BY <1>1, <1>2, <1>4, <1>5, <1>6, <1>7, WritesOfEvent

(* What a step does to an event on the ledger. *)
LEMMA EventOnLedgerMoves ==
  ASSUME Inv, [Next]_vars, NEW e \in EventIds
  PROVE  \/ world'[<<"event", e>>] = world[<<"event", e>>]
         \/ \E tx \in inflight : /\ <<"event", e>> \in DOMAIN tx.writes
                                 /\ world'[<<"event", e>>] = tx.writes[<<"event", e>>]
<1>1. <<"event", e>> \in Keys
  BY EventKey
<1>2. UNCHANGED world \/ \E tx \in inflight : CommitValid(tx)
  BY Steps DEF contractVars, Claim, Post, FindLatest, LoadView, Record, Unreachable, Timeout, Crash,
     GatewayEndorse, Endorse, GatewayReject, GatewayFail, OrderValid, OrderInvalid,
     CommitInvalid, OrdererFail, Lose
<1>. QED  BY <1>1, <1>2 DEF CommitValid, Apply

LEMMA DecisionsAreQueuedStep ==
  ASSUME Inv, DecisionInv, [Next]_vars
  PROVE  DecisionsAreQueued'
<1>1. ASSUME NEW e \in EventIds, NEW record, DecisionIsQueued(record, e)
      PROVE  record.status \in Decisions =>
               /\ outbox'[ReviewOf(e)] # None
               /\ outbox'[ReviewOf(e)].request.payload.decision = record.status
  BY <1>1, QueuedStays
<1>2. ASSUME NEW e \in EventIds, Exists(<<"event", e>>)'
      PROVE  DecisionIsQueued(world[<<"event", e>>], e)'
  <2>1. CASE world'[<<"event", e>>] = world[<<"event", e>>]
    <3>1. DecisionIsQueued(world[<<"event", e>>], e)
      BY <1>2, <2>1 DEF DecisionInv, DecisionsAreQueued, Exists
    <3>. QED  BY <1>1, <2>1, <3>1 DEF DecisionIsQueued
  <2>2. CASE \E tx \in inflight : /\ <<"event", e>> \in DOMAIN tx.writes
                                  /\ world'[<<"event", e>>] = tx.writes[<<"event", e>>]
    <3>1. PICK tx \in inflight : /\ <<"event", e>> \in DOMAIN tx.writes
                                 /\ world'[<<"event", e>>] = tx.writes[<<"event", e>>]
      BY <2>2
    <3>2. DecisionIsQueued(tx.writes[<<"event", e>>], e)
      BY <3>1 DEF DecisionInv, DecisionsAreQueued
    <3>. QED  BY <1>1, <3>1, <3>2 DEF DecisionIsQueued
  <2>. QED  BY <2>1, <2>2, EventOnLedgerMoves
<1>3. ASSUME NEW tx \in inflight', NEW e \in EventIds,
             <<"event", e>> \in DOMAIN tx.writes
      PROVE  DecisionIsQueued(tx.writes[<<"event", e>>], e)'
  <2>1. DecisionIsQueued(tx.writes[<<"event", e>>], e)
    <3>1. CASE tx \in inflight
      BY <1>3, <3>1 DEF DecisionInv, DecisionsAreQueued
    <3>2. ASSUME NEW c \in calls, tx = Endorsed(outbox[c.op].request, FreshTxId)
          PROVE  DecisionIsQueued(tx.writes[<<"event", e>>], e)
      BY <1>3, <3>2, EndorsedDecision DEF Inv, DeliveryInv, WorkIsQueued
    <3>. QED  BY <3>1, <3>2, TransactionMoves
  <2>. QED  BY <1>1, <2>1 DEF DecisionIsQueued
<1>. QED  BY <1>2, <1>3 DEF DecisionsAreQueued

(* A decision on the ledger is the one the event shows in the database,      *)
(* whatever operators review at the same time.                               *)
THEOREM DecisionsAgreeHolds == Spec => []DecisionsAgree
<1>1. Init => DecisionInv
  BY IdOfEvent, EventKey DEF Init, ContractInit, DecisionInv, ReviewsNameTheirEvent,
     DecisionsAreQueued, Exists
<1>2. Inv /\ DecisionInv /\ [Next]_vars => DecisionInv'
  BY ReviewsNameTheirEventStep, DecisionsAreQueuedStep DEF DecisionInv
<1>3. ASSUME EveryChangeIsQueued, DecisionInv
      PROVE  DecisionsAgree
  <2>1. ASSUME NEW e \in EventIds, Exists(<<"event", e>>),
               world[<<"event", e>>].status \in Decisions
        PROVE  /\ events[e] # None
               /\ events[e].status = world[<<"event", e>>].status
    <3>1. /\ outbox[ReviewOf(e)] # None
          /\ outbox[ReviewOf(e)].request.payload.decision
                = world[<<"event", e>>].status
      BY <1>3, <2>1 DEF DecisionInv, DecisionsAreQueued, DecisionIsQueued
    <3>. QED  BY <1>3, <3>1 DEF EveryChangeIsQueued
  <2>. QED  BY <2>1 DEF DecisionsAgree
<1>. QED  BY <1>1, <1>2, <1>3, EveryChangeIsQueuedHolds, InitInv, NextInv, PTL DEF Spec

-----------------------------------------------------------------------------
(* The order of creation: every row of the outbox is listed once, and the    *)
(* review of an event after its proposal.                                    *)
CreatedOnce ==
  /\ \A i \in DOMAIN created : outbox[created[i]] # None
  /\ \A o \in OperationIds : outbox[o] # None => \E i \in DOMAIN created : created[i] = o
  /\ \A i, j \in DOMAIN created : created[i] = created[j] => i = j

ProposedFirst ==
  \A e \in EventIds : \A i, j \in DOMAIN created :
    (created[i] = ProposeOf(e) /\ created[j] = ReviewOf(e)) => i < j

(* The transaction that records the answer of w has begun to read.          *)
Recording(w) == worker[w].pc \in {"looked", "recording"}

(* A worker that loaded the row of a document writes to what it has read.    *)
DocumentsAreLoaded ==
  \A w \in Workers, d \in DocumentIds :
    (Recording(w) /\ worker[w].op = RegisterOf(d)) =>
      /\ worker[w].latest
      /\ worker[w].pc = "recording" => worker[w].view = documents[d].ledger

(* An upload sets the status of its event back to PENDING although its own   *)
(* operation never writes to the event: this and nothing else may come       *)
(* between a worker that loaded the event for its last operation and what it *)
(* writes ...                                                               *)
EventsAreLoaded ==
  \A w \in Workers, e \in EventIds :
    (Recording(w) /\ worker[w].op = LastOperation(e)) =>
      /\ worker[w].latest
      /\ worker[w].pc = "recording" =>
           \/ worker[w].view = events[e].ledger
           \/ events[e].ledger = "PENDING" /\ HasDocument(e)

(* ... and one that took the proposal for the last operation comes before     *)
(* any confirmation of the review that was queued meanwhile.                  *)
OvertakenInTime ==
  \A w \in Workers, e \in EventIds :
    (/\ Recording(w) /\ worker[w].op = ProposeOf(e) /\ worker[w].latest
     /\ outbox[ReviewOf(e)] # None) =>
      outbox[ReviewOf(e)].status # "COMMITTED"

(* Once the last operation is confirmed, the event shows it.                 *)
LastIsShown ==
  \A e \in EventIds :
    (events[e] # None /\ outbox[LastOperation(e)].status = "COMMITTED") =>
      /\ events[e].tx = outbox[LastOperation(e)].tx
      /\ \/ events[e].ledger = "COMMITTED"
         \/ events[e].ledger = "PENDING" /\ HasDocument(e)

-----------------------------------------------------------------------------
(* What is created is listed.                                               *)
LEMMA NothingIsListed ==
  ASSUME Inv, [Next]_vars, ~HandlerCommits
  PROVE  UNCHANGED created
<1>1. CASE ApiStep
  BY <1>1 DEF ApiStep, HandlerCommits, ReviewCheck, ReviewRollback, UploadCheck, UploadPut,
     UploadRollback, UploadCrash
<1>2. CASE WorkerStep \/ \E o \in OperationIds : TimePasses(o)
  BY <1>2 DEF WorkerStep, Claim, Post, FindLatest, LoadView, Record, TimePasses
<1>3. CASE GatewayStep \/ ChannelStep \/ FaultStep
  BY <1>3 DEF GatewayStep, ChannelStep, FaultStep, GatewayEndorse, GatewayReject,
     GatewayFail, OrderValid, OrderInvalid, OrdererFail, NoApiStep, Unreachable,
     Timeout, Crash
<1>. QED  BY <1>1, <1>2, <1>3 DEF Next, vars

LEMMA ReviewIsQueuedLater ==
  ASSUME Inv, EveryChangeIsQueued, HandlerCommits
  PROVE  \E r \in Requests :
           /\ Enqueue(r)
           /\ \A e \in EventIds : r.operationId = ProposeOf(e) => outbox[ReviewOf(e)] = None
<1>1. CASE \E a \in AssetIds : CreateAssetRow(a)
  <2>1. PICK a \in AssetIds : CreateAssetRow(a)
    BY <1>1
  <2> DEFINE r == [operationId |-> CreateOf(a), action |-> "REGISTER_ASSET",
                   organization |-> "OperatorOrg", payload |-> [assetId |-> a]]
  <2>2. r \in Requests /\ Enqueue(r) /\ r.operationId = CreateOf(a)
    BY <2>1, CreateRequest DEF CreateAssetRow
  <2>3. \A e \in EventIds : CreateOf(a) # ProposeOf(e)
    BY DEF CreateOf, ProposeOf
  <2>. HIDE DEF r
  <2>. QED  BY <2>2, <2>3
<1>2. CASE \E e \in EventIds, a \in AssetIds : ProposeMaintenance(e, a)
  <2>1. PICK e \in EventIds, a \in AssetIds : ProposeMaintenance(e, a)
    BY <1>2
  <2> DEFINE r == [operationId |-> ProposeOf(e), action |-> "PROPOSE_EVENT",
                   organization |-> "ContractorOrg",
                   payload |-> [eventId |-> e, assetId |-> a]]
  <2>2. r \in Requests /\ Enqueue(r) /\ r.operationId = ProposeOf(e)
    BY <2>1, ProposeRequest DEF ProposeMaintenance
  <2>3. outbox[ReviewOf(e)] = None
    BY <2>1 DEF ProposeMaintenance, EveryChangeIsQueued
  <2>4. \A f \in EventIds : ProposeOf(e) = ProposeOf(f) => f = e
    BY DEF ProposeOf
  <2>. HIDE DEF r
  <2>. QED  BY <2>2, <2>3, <2>4
<1>3. CASE \E u \in Reviewers : ReviewCommit(u)
  <2>1. PICK u \in Reviewers : ReviewCommit(u)
    BY <1>3
  <2> DEFINE e == reviews[u].eventId
             r == [operationId |-> ReviewOf(e), action |-> "REVIEW_EVENT",
                   organization |-> "OperatorOrg",
                   payload |-> [eventId |-> e, decision |-> reviews[u].decision]]
  <2>2. reviews[u] \in ReviewSessions
    BY <2>1 DEF ReviewCommit, Inv, TypeOK
  <2>3. e \in EventIds /\ reviews[u].decision \in Decisions
    BY <2>2 DEF ReviewSessions
  <2>4. r \in Requests /\ Enqueue(r) /\ r.operationId = ReviewOf(e)
    BY <2>1, <2>3, ReviewRequest DEF ReviewCommit
  <2>5. \A f \in EventIds : ReviewOf(e) # ProposeOf(f)
    BY DEF ProposeOf, ReviewOf
  <2>. HIDE DEF r
  <2>. QED  BY <2>4, <2>5
<1>4. CASE \E d \in DocumentIds : UploadCommit(d) \/ UploadCommitUnacknowledged(d)
  <2>1. PICK d \in DocumentIds : UploadRows(d) /\ uploads[d] # None
    BY <1>4 DEF UploadCommit, UploadCommitUnacknowledged
  <2>2. PICK r \in Requests : Enqueue(r) /\ r.operationId = RegisterOf(d)
    BY <2>1, UploadRequest DEF Inv, UploadRows, Attached
  <2>3. \A e \in EventIds : RegisterOf(d) # ProposeOf(e)
    BY DEF RegisterOf, ProposeOf
  <2>. QED  BY <2>2, <2>3
<1>. QED  BY <1>1, <1>2, <1>3, <1>4 DEF HandlerCommits

LEMMA CreatedStep ==
  ASSUME Inv, EveryChangeIsQueued, CreatedOnce, ProposedFirst, [Next]_vars
  PROVE  CreatedOnce' /\ ProposedFirst'
<1>0. created \in Seq(OperationIds)
  BY DEF Inv, TypeOK
<1>1. CASE ~HandlerCommits
  <2>1. UNCHANGED created
    BY <1>1, NothingIsListed
  <2>2. \A o \in OperationIds : outbox'[o] # None <=> outbox[o] # None
    BY <1>1, OtherStepsKeepBooks DEF BooksKept
  <2>. QED  BY <1>0, <2>1, <2>2 DEF CreatedOnce, ProposedFirst
<1>2. CASE HandlerCommits
  <2>1. PICK r \in Requests :
          /\ Enqueue(r)
          /\ \A e \in EventIds : r.operationId = ProposeOf(e) => outbox[ReviewOf(e)] = None
    BY <1>2, ReviewIsQueuedLater
  <2> DEFINE o == r.operationId
             last == Len(created) + 1
  <2>2. /\ o \in OperationIds /\ outbox[o] = None /\ outbox'[o] # None
        /\ \A p \in OperationIds \ {o} : outbox'[p] = outbox[p]
    BY <2>1, Added
  <2>3. created' = Append(created, o)
    BY <2>1 DEF Enqueue
  <2> HIDE DEF o
  <2>4. /\ DOMAIN created' = 1..last /\ DOMAIN created = 1..Len(created)
        /\ Len(created) \in Nat
        /\ created'[last] = o
        /\ \A i \in DOMAIN created : created'[i] = created[i] /\ created[i] \in OperationIds
    BY <1>0, <2>2, <2>3
  <2>5. \A i \in DOMAIN created : created[i] # o
    BY <2>2 DEF CreatedOnce
  <2>6. \A i \in DOMAIN created' : i = last \/ i \in DOMAIN created
    BY <2>4
  <2>7. \A i \in DOMAIN created : i < last /\ i \in DOMAIN created'
    BY <2>4
  <2>8. last \in DOMAIN created'
    BY <2>4
  <2> HIDE DEF last
  <2>9. CreatedOnce'
    <3>1. \A i \in DOMAIN created' : outbox'[created'[i]] # None
      BY <2>2, <2>4, <2>5, <2>6 DEF CreatedOnce
    <3>2. \A p \in OperationIds : outbox'[p] # None => \E i \in DOMAIN created' : created'[i] = p
      BY <2>2, <2>4, <2>7, <2>8 DEF CreatedOnce
    <3>3. \A i, j \in DOMAIN created' : created'[i] = created'[j] => i = j
      BY <2>4, <2>5, <2>6 DEF CreatedOnce
    <3>. QED  BY <3>1, <3>2, <3>3 DEF CreatedOnce
  <2>10. ProposedFirst'
    <3>1. SUFFICES ASSUME NEW e \in EventIds, NEW i \in DOMAIN created', NEW j \in DOMAIN created',
                          created'[i] = ProposeOf(e), created'[j] = ReviewOf(e)
                   PROVE  i < j
      BY DEF ProposedFirst
    <3>2. ProposeOf(e) # ReviewOf(e)
      BY IdOfEvent
    <3>3. CASE i = last
      <4>1. outbox[ReviewOf(e)] = None /\ j \in DOMAIN created /\ j # last
        BY <2>1, <2>4, <2>6, <3>1, <3>2, <3>3 DEF o
      <4>. QED  BY <2>4, <3>1, <4>1 DEF CreatedOnce
    <3>4. CASE i \in DOMAIN created /\ j = last
      BY <2>7, <3>4
    <3>5. CASE i \in DOMAIN created /\ j \in DOMAIN created
      BY <2>4, <3>1, <3>5 DEF ProposedFirst
    <3>. QED  BY <2>6, <3>3, <3>4, <3>5
  <2>. QED  BY <2>9, <2>10
<1>. QED  BY <1>1, <1>2

LEMMA CreatedHolds == Spec => [](CreatedOnce /\ ProposedFirst)
<1>1. Init => CreatedOnce /\ ProposedFirst
  BY DEF Init, CreatedOnce, ProposedFirst
<1>. QED  BY <1>1, CreatedStep, EveryChangeIsQueuedHolds, InitInv, NextInv, PTL DEF Spec

(* Which operation is the latest of a document or of an event.              *)
LEMMA LatestOfDocument ==
  ASSUME Inv, CreatedOnce, NEW d \in DocumentIds, outbox[RegisterOf(d)] # None
  PROVE  IsLatest(RegisterOf(d)) = TRUE
<1>0. created \in Seq(OperationIds) /\ RegisterOf(d) \in OperationIds
  BY IdOfDocument DEF Inv, TypeOK
<1>1. PICK i \in DOMAIN created : created[i] = RegisterOf(d)
  BY <1>0 DEF CreatedOnce
<1>2. ASSUME NEW j \in (i + 1)..Len(created), Aggregate(created[j]) = Aggregate(RegisterOf(d))
      PROVE  FALSE
  <2>1. j \in DOMAIN created /\ created[j] \in OperationIds /\ j # i
    BY <1>0, <1>1, <1>2
  <2>2. created[j][1] = "document" /\ created[j][2] = d
    BY <1>2 DEF Aggregate, RegisterOf
  <2>3. created[j] = RegisterOf(d)
    BY <2>1, <2>2, OperationOfDocument
  <2>. QED  BY <1>1, <2>1, <2>3 DEF CreatedOnce
<1>. QED  BY <1>1, <1>2 DEF IsLatest

LEMMA LatestOfEvent ==
  ASSUME Inv, CreatedOnce, ProposedFirst, NEW e \in EventIds, outbox[LastOperation(e)] # None
  PROVE  IsLatest(LastOperation(e)) = TRUE
<1> DEFINE o == LastOperation(e)
<1>0. created \in Seq(OperationIds) /\ o \in OperationIds
  BY IdOfEvent DEF Inv, TypeOK, LastOperation
<1>1. PICK i \in DOMAIN created : created[i] = o
  BY <1>0 DEF CreatedOnce
<1>2. ASSUME NEW j \in (i + 1)..Len(created), Aggregate(created[j]) = Aggregate(o)
      PROVE  FALSE
  <2>1. j \in DOMAIN created /\ created[j] \in OperationIds /\ j # i
    BY <1>0, <1>1, <1>2
  <2>2. created[j][1] = "event" /\ created[j][2] = e
    BY <1>2 DEF Aggregate, LastOperation, ProposeOf, ReviewOf
  <2>3. created[j] = ProposeOf(e) \/ created[j] = ReviewOf(e)
    BY <2>1, <2>2, OperationOfEvent
  <2>4. outbox[created[j]] # None /\ created[j] # o
    BY <1>1, <2>1 DEF CreatedOnce
  <2>5. created[j] = ProposeOf(e) /\ o = ReviewOf(e)
    BY <2>3, <2>4 DEF LastOperation
  <2>6. j < i
    BY <1>1, <2>1, <2>5 DEF ProposedFirst
  <2>. QED  BY <1>0, <1>1, <1>2, <2>6
<1>. QED  BY <1>1, <1>2 DEF IsLatest

(* The proposal is the latest operation of its event only until the review.  *)
LEMMA ProposalIsOvertaken ==
  ASSUME Inv, CreatedOnce, ProposedFirst, NEW e \in EventIds, IsLatest(ProposeOf(e))
  PROVE  outbox[ReviewOf(e)] = None
<1>0. created \in Seq(OperationIds) /\ ReviewOf(e) \in OperationIds
  BY IdOfEvent DEF Inv, TypeOK
<1>1. PICK i \in DOMAIN created :
        /\ created[i] = ProposeOf(e)
        /\ \A j \in (i + 1)..Len(created) : Aggregate(created[j]) # Aggregate(ProposeOf(e))
  BY DEF IsLatest
<1>2. ASSUME outbox[ReviewOf(e)] # None
      PROVE  FALSE
  <2>1. PICK j \in DOMAIN created : created[j] = ReviewOf(e)
    BY <1>0, <1>2 DEF CreatedOnce
  <2>2. i < j
    BY <1>1, <2>1 DEF ProposedFirst
  <2>3. j \in (i + 1)..Len(created)
    BY <1>0, <2>2
  <2>4. Aggregate(ReviewOf(e)) = Aggregate(ProposeOf(e))
    BY DEF Aggregate, ReviewOf, ProposeOf
  <2>. QED  BY <1>1, <2>1, <2>3, <2>4
<1>. QED  BY <1>2

-----------------------------------------------------------------------------
(* What a step does to a row that is there, the recording of an answer apart. *)
Records == \E w \in Workers : Record(w)

LEMMA RowMoves ==
  ASSUME Inv, [Next]_vars, ~Records, NEW o \in OperationIds, outbox[o] # None
  PROVE  /\ outbox'[o] # None
         /\ outbox'[o].status = "COMMITTED" <=> outbox[o].status = "COMMITTED"
         /\ outbox'[o].tx = outbox[o].tx
<1>1. /\ outbox \in [OperationIds -> OutboxRows \cup {None}] /\ outbox[o] \in OutboxRows
      /\ outbox'[o] # None
  BY NextKeepsType DEF Inv, TypeOK, RowsStep, RowsKept
<1>2. CASE UNCHANGED outbox
  BY <1>1, <1>2
<1>3. CASE Enqueues
  <2>1. PICK r \in Requests : Enqueue(r)
    BY <1>3 DEF Enqueues
  <2>2. outbox'[o] = outbox[o]
    BY <2>1, Added
  <2>. QED  BY <1>1, <2>2
<1>4. CASE \E p \in OperationIds : TimePasses(p)
  <2>1. outbox'[o].status = outbox[o].status /\ outbox'[o].tx = outbox[o].tx
    BY <1>1, <1>4 DEF TimePasses, OutboxRows
  <2>. QED  BY <1>1, <2>1
<1>5. ASSUME NEW w \in Workers, NEW p \in OperationIds, Claim(w, p)
      PROVE  /\ outbox'[o].status = "COMMITTED" <=> outbox[o].status = "COMMITTED"
             /\ outbox'[o].tx = outbox[o].tx
  <2>1. /\ outbox[p].status # "COMMITTED"
        /\ outbox' = [outbox EXCEPT ![p].status = "SUBMITTED", ![p].due = FALSE]
    BY <1>5 DEF Claim, IsNextItem, Eligible
  <2>2. CASE o = p
    <3>1. outbox'[o].status = "SUBMITTED" /\ outbox'[o].tx = outbox[o].tx
      BY <1>1, <2>1, <2>2 DEF OutboxRows
    <3>. QED  BY <2>1, <2>2, <3>1
  <2>3. CASE o # p
    BY <1>1, <2>1, <2>3
  <2>. QED  BY <2>2, <2>3
<1>. QED  BY <1>1, <1>2, <1>3, <1>4, <1>5, OutboxMoves DEF Records

(* A row that a step adds is PENDING.                                       *)
LEMMA NewRowIsPending ==
  ASSUME Inv, [Next]_vars, NEW o \in OperationIds, outbox[o] = None, outbox'[o] # None
  PROVE  outbox'[o].status = "PENDING"
BY NextKeepsType DEF RowsStep, NewRowsAreSound

(* The recording of an answer, with the row of the outbox still SUBMITTED.   *)
LEMMA RecordedRow ==
  ASSUME Inv, ClaimIsExclusive, NEW w \in Workers, Record(w)
  PROVE  /\ worker[w].op \in OperationIds /\ outbox[worker[w].op] # None
         /\ worker[w].pc = "recording"
         /\ outbox'[worker[w].op].status = IF worker[w].ok THEN "COMMITTED" ELSE "FAILED"
         /\ worker[w].ok => outbox'[worker[w].op].tx = worker[w].tx
         /\ \A o \in OperationIds \ {worker[w].op} : outbox'[o] = outbox[o]
<1> DEFINE s == worker[w]
<1>1. /\ s.op \in OperationIds /\ outbox[s.op] # None /\ s.pc = "recording"
      /\ outbox \in [OperationIds -> OutboxRows \cup {None}]
      /\ s \in WorkerStates
  BY DEF Record, Inv, TypeOK, DeliveryInv, WorkIsQueued
<1>2. outbox[s.op] \in OutboxRows /\ outbox[s.op].status = "SUBMITTED" /\ s.row = "SUBMITTED"
  BY <1>1 DEF ClaimIsExclusive
<1>3. s.ok \in BOOLEAN
  BY <1>1 DEF WorkerStates
<1>4. outbox'[s.op].status = Flush("SUBMITTED", IF s.ok THEN "COMMITTED" ELSE "FAILED", "SUBMITTED")
  BY <1>1, <1>2 DEF Record, OutboxRows
<1>5. s.ok => outbox'[s.op].tx = s.tx
  BY <1>1, <1>2 DEF Record, OutboxRows
<1>6. \A o \in OperationIds \ {s.op} : outbox'[o] = outbox[o]
  BY <1>1 DEF Record
<1>7. outbox'[s.op].status = IF s.ok THEN "COMMITTED" ELSE "FAILED"
  BY <1>3, <1>4 DEF Flush
<1>. QED  BY <1>1, <1>5, <1>6, <1>7

(* A worker that is about to record has read something in this step or       *)
(* before it.                                                               *)
LEMMA RecordingMoves ==
  ASSUME Inv, [Next]_vars, NEW w \in Workers, Recording(w)'
  PROVE  worker'[w] = worker[w] \/ FindLatest(w) \/ LoadView(w)
<1>1. /\ worker \in [Workers -> WorkerStates] /\ worker[w] \in WorkerStates
      /\ CallsKnowTheirOwner
  BY DEF Inv, TypeOK, DeliveryInv
<1>2. \A ok \in BOOLEAN : Answered(w, ok).pc = "answered"
  BY <1>1 DEF Answered, WorkerStates
<1>0. worker'[w].pc \in {"looked", "recording"}
  BY DEF Recording
<1>3. ASSUME NEW v \in Workers, NEW o \in OperationIds, Claim(v, o)
      PROVE  worker'[w] = worker[w]
  BY <1>0, <1>1, <1>3 DEF Claim, Idle
<1>4. ASSUME NEW v \in Workers, Post(v) \/ Record(v) \/ Crash(v)
      PROVE  worker'[w] = worker[w]
  BY <1>0, <1>1, <1>4 DEF Post, Record, Crash, Idle, WorkerStates
<1>5. ASSUME NEW v \in Workers, Unreachable(v) \/ Timeout(v)
      PROVE  worker'[w] = worker[w]
  BY <1>0, <1>1, <1>2, <1>5 DEF Unreachable, Timeout
<1>6. ASSUME NEW v \in Workers, FindLatest(v) \/ LoadView(v)
      PROVE  worker'[w] = worker[w] \/ FindLatest(w) \/ LoadView(w)
  <2>1. CASE v = w
    BY <1>6, <2>1
  <2>2. CASE v # w
    BY <1>1, <1>6, <2>2 DEF FindLatest, LoadView
  <2>. QED  BY <2>1, <2>2
<1>7. ASSUME NEW c \in calls, GatewayEndorse(c) \/ GatewayReject(c) \/ GatewayFail(c)
      PROVE  worker'[w] = worker[w]
  <2>1. \/ worker'[w] = worker[w]
        \/ c.owner = w /\ worker'[w] \in {[worker[w] EXCEPT !.tx = FreshTxId], Answered(w, FALSE)}
    BY <1>7 DEF GatewayEndorse, GatewayReject, GatewayFail, ToOwner
  <2>2. c.owner = w => [worker[w] EXCEPT !.tx = FreshTxId].pc = "waiting"
    BY <1>1 DEF CallsKnowTheirOwner, WorkerStates
  <2>. QED  BY <1>0, <1>2, <2>1, <2>2
<1>8. ASSUME NEW tx \in inflight, OrderValid(tx) \/ OrderInvalid(tx) \/ OrdererFail(tx)
      PROVE  worker'[w] = worker[w]
  BY <1>0, <1>2, <1>8 DEF OrderValid, OrderInvalid, OrdererFail, Answer
<1>. QED  BY <1>3, <1>4, <1>5, <1>6, <1>7, <1>8, Steps

(* While one worker is about to record, nobody does.                         *)
LEMMA RecordingAlone ==
  ASSUME OneWorker, Inv, NEW w \in Workers, Recording(w)'
  PROVE  ~Records
<1>1. ASSUME Record(w)
      PROVE  FALSE
  <2>1. worker'[w] = Idle
    BY <1>1 DEF Record, Inv, TypeOK
  <2>. QED  BY <2>1 DEF Idle, Recording
<1>. QED  BY <1>1 DEF Records, OneWorker

-----------------------------------------------------------------------------
(* Documents.                                                               *)

(* Who writes to the row of a document: its upload and the worker.           *)
LEMMA DocumentWrites ==
  ASSUME Inv, [Next]_vars, ~Records, NEW d \in DocumentIds, documents'[d] # documents[d]
  PROVE  /\ outbox[RegisterOf(d)] = None /\ outbox'[RegisterOf(d)] # None
         /\ documents'[d].eventId = uploads[d].eventId /\ documents'[d].ledger = "PENDING"
<1>1. PICK f \in DocumentIds : /\ UploadCommit(f) \/ UploadCommitUnacknowledged(f)
                               /\ UploadRows(f) /\ uploads[f] # None
  <2>1. CASE ApiStep
    BY <2>1 DEF ApiStep, CreateAssetRow, ProposeMaintenance, ReviewCheck, ReviewCommit,
       ReviewRollback, UploadCheck, UploadPut, UploadRollback, UploadCrash, UploadCommit,
       UploadCommitUnacknowledged, apiVars
  <2>2. CASE WorkerStep \/ \E o \in OperationIds : TimePasses(o)
    BY <2>2 DEF WorkerStep, Claim, Post, FindLatest, LoadView, Records, TimePasses, apiVars
  <2>3. CASE GatewayStep \/ ChannelStep \/ FaultStep
    BY <2>3 DEF GatewayStep, ChannelStep, FaultStep, GatewayEndorse, GatewayReject,
       GatewayFail, OrderValid, OrderInvalid, OrdererFail, NoApiStep, Unreachable,
       Timeout, Crash, apiVars
  <2>. QED  BY <2>1, <2>2, <2>3 DEF Next, vars
<1>2. documents \in [DocumentIds -> DocumentRows \cup {None}]
  BY DEF Inv, TypeOK
<1>3. f = d
  BY <1>1, <1>2 DEF UploadRows, Attached
<1>4. documents'[d] = [eventId |-> uploads[d].eventId, ledger |-> "PENDING", tx |-> None]
  BY <1>1, <1>2, <1>3 DEF UploadRows, Attached
<1>5. PICK r \in Requests : Enqueue(r) /\ r.operationId = RegisterOf(d)
  BY <1>1, <1>3, UploadRequest
<1>6. outbox[RegisterOf(d)] = None /\ outbox'[RegisterOf(d)] # None
  BY <1>5, Added
<1>. QED  BY <1>4, <1>6

LEMMA RecordedDocument ==
  ASSUME Inv, NEW w \in Workers, Record(w), NEW d \in DocumentIds
  PROVE  documents'[d] = IF worker[w].latest /\ worker[w].op = RegisterOf(d)
                         THEN Recorded(w, documents[d]) ELSE documents[d]
<1>1. worker[w].op \in OperationIds
  BY DEF Record, Inv, DeliveryInv, WorkIsQueued
<1>2. Aggregate(worker[w].op) = <<"document", d>> <=> worker[w].op = RegisterOf(d)
  <2>1. ASSUME Aggregate(worker[w].op) = <<"document", d>>
        PROVE  worker[w].op = RegisterOf(d)
    <3>1. worker[w].op[1] = "document" /\ worker[w].op[2] = d
      BY <2>1 DEF Aggregate
    <3>. QED  BY <1>1, <3>1, OperationOfDocument
  <2>2. Aggregate(RegisterOf(d)) = <<"document", d>>
    BY DEF Aggregate, RegisterOf
  <2>. QED  BY <2>1, <2>2
<1>3. documents'[d] = IF worker[w].latest /\ Aggregate(worker[w].op) = <<"document", d>>
                      THEN Recorded(w, documents[d]) ELSE documents[d]
  BY DEF Record
<1>. QED  BY <1>2, <1>3

LEMMA DocumentsAreLoadedStep ==
  ASSUME OneWorker, Inv, EveryChangeIsQueued, CreatedOnce, DocumentsAreLoaded, [Next]_vars
  PROVE  DocumentsAreLoaded'
<1>1. SUFFICES ASSUME NEW w \in Workers, NEW d \in DocumentIds,
                      Recording(w)', worker'[w].op = RegisterOf(d)
               PROVE  /\ worker'[w].latest
                      /\ worker'[w].pc = "recording" => worker'[w].view = documents'[d].ledger
  BY DEF DocumentsAreLoaded
<1>2. worker \in [Workers -> WorkerStates] /\ worker[w] \in WorkerStates /\ WorkIsQueued
  BY DEF Inv, TypeOK, DeliveryInv
<1>3. CASE FindLatest(w)
  <2>1. /\ worker'[w].op = worker[w].op
        /\ worker'[w].latest = IsLatest(worker[w].op)
        /\ worker'[w].pc = "looked"
        /\ worker[w].pc # "idle"
    BY <1>2, <1>3 DEF FindLatest, WorkerStates
  <2>2. worker[w].op = RegisterOf(d) /\ outbox[RegisterOf(d)] # None
    BY <1>1, <1>2, <2>1 DEF WorkIsQueued
  <2>3. worker'[w].latest
    BY <2>1, <2>2, LatestOfDocument
  <2>. QED  BY <2>1, <2>3
<1>4. CASE LoadView(w)
  <2>1. /\ worker'[w].op = worker[w].op
        /\ worker'[w].latest = worker[w].latest
        /\ worker'[w].view = LedgerView(worker[w].op)
        /\ worker[w].pc = "looked"
        /\ documents' = documents
    BY <1>2, <1>4 DEF LoadView, WorkerStates, apiVars
  <2>2. worker[w].latest
    BY <1>1, <2>1 DEF DocumentsAreLoaded, Recording
  <2>3. LedgerView(RegisterOf(d)) = documents[d].ledger
    BY DEF LedgerView, RegisterOf
  <2>. QED  BY <1>1, <2>1, <2>2, <2>3
<1>5. CASE worker'[w] = worker[w]
  <2>1. ~Records
    BY <1>1, RecordingAlone
  <2>2. outbox[RegisterOf(d)] # None
    BY <1>1, <1>2, <1>5 DEF WorkIsQueued, Recording
  <2>3. documents'[d] = documents[d]
    BY <2>1, <2>2, DocumentWrites
  <2>. QED  BY <1>1, <1>5, <2>3 DEF DocumentsAreLoaded, Recording
<1>. QED  BY <1>1, <1>3, <1>4, <1>5, RecordingMoves

LEMMA DocumentShowsItsOperationStep ==
  ASSUME OneWorker, Inv, ClaimIsExclusive, EveryChangeIsQueued, DocumentsAreLoaded,
         DocumentShowsItsOperation, [Next]_vars
  PROVE  DocumentShowsItsOperation'
<1>1. SUFFICES ASSUME NEW d \in DocumentIds, documents'[d] # None
               PROVE  /\ documents'[d].ledger = "COMMITTED"
                           <=> outbox'[RegisterOf(d)].status = "COMMITTED"
                      /\ outbox'[RegisterOf(d)].status = "COMMITTED" =>
                           documents'[d].tx = outbox'[RegisterOf(d)].tx
  BY DEF DocumentShowsItsOperation
<1> DEFINE o == RegisterOf(d)
<1>2. o \in OperationIds /\ documents \in [DocumentIds -> DocumentRows \cup {None}]
  BY IdOfDocument DEF Inv, TypeOK
<1>3. ASSUME documents'[d] = documents[d], documents[d] # None,
             outbox'[o].status = "COMMITTED" <=> outbox[o].status = "COMMITTED",
             outbox'[o].tx = outbox[o].tx
      PROVE  /\ documents'[d].ledger = "COMMITTED" <=> outbox'[o].status = "COMMITTED"
             /\ outbox'[o].status = "COMMITTED" => documents'[d].tx = outbox'[o].tx
  BY <1>3 DEF DocumentShowsItsOperation
<1>4. CASE ~Records /\ documents'[d] = documents[d]
  <2>1. outbox[o] # None
    BY <1>1, <1>4 DEF EveryChangeIsQueued
  <2>. QED  BY <1>1, <1>2, <1>3, <1>4, <2>1, RowMoves
<1>5. CASE ~Records /\ documents'[d] # documents[d]
  <2>1. outbox[o] = None /\ outbox'[o] # None /\ documents'[d].ledger = "PENDING"
    BY <1>5, DocumentWrites
  <2>2. outbox'[o].status = "PENDING"
    BY <1>2, <2>1, NewRowIsPending
  <2>. QED  BY <2>1, <2>2
<1>6. ASSUME NEW w \in Workers, Record(w)
      PROVE  /\ documents'[d].ledger = "COMMITTED" <=> outbox'[o].status = "COMMITTED"
             /\ outbox'[o].status = "COMMITTED" => documents'[d].tx = outbox'[o].tx
  <2>1. documents[d] # None
    BY <1>1, <1>6, RecordKeepsBooks DEF BooksKept
  <2>2. CASE worker[w].op # o
    BY <1>2, <1>3, <1>6, <2>1, <2>2, RecordedRow, RecordedDocument
  <2>3. CASE worker[w].op = o
    <3> DEFINE status == IF worker[w].ok THEN "COMMITTED" ELSE "FAILED"
    <3>1. worker[w].latest /\ worker[w].view = documents[d].ledger
      BY <1>6, <2>3, RecordedRow DEF DocumentsAreLoaded, Recording
    <3>2. documents'[d] = Recorded(w, documents[d])
      BY <1>6, <2>3, <3>1, RecordedDocument
    <3>3. documents[d] \in DocumentRows
      BY <1>2, <2>1
    <3>4. /\ documents'[d].ledger = Flush(worker[w].view, status, documents[d].ledger)
          /\ worker[w].ok => documents'[d].tx = worker[w].tx
      BY <3>2, <3>3 DEF Recorded, DocumentRows
    <3>5. documents'[d].ledger = status
      BY <3>1, <3>4 DEF Flush
    <3>6. outbox'[o].status = status /\ (worker[w].ok => outbox'[o].tx = worker[w].tx)
      BY <1>6, <2>3, RecordedRow
    <3>. QED  BY <3>4, <3>5, <3>6
  <2>. QED  BY <2>2, <2>3
<1>. QED  BY <1>4, <1>5, <1>6 DEF Records

(* With one worker a document shows COMMITTED exactly while its registration *)
(* is, with the same transaction, whatever fails, repeats or is reviewed.    *)
THEOREM DocumentShowsItsOperationHolds ==
  ASSUME OneWorker
  PROVE  Spec => []DocumentShowsItsOperation
<1>1. Init => DocumentsAreLoaded /\ DocumentShowsItsOperation
  BY DEF Init, Idle, DocumentsAreLoaded, Recording, DocumentShowsItsOperation
<1>2. Inv /\ ClaimIsExclusive /\ EveryChangeIsQueued /\ CreatedOnce
        /\ DocumentsAreLoaded /\ DocumentShowsItsOperation /\ [Next]_vars =>
      DocumentsAreLoaded' /\ DocumentShowsItsOperation'
  BY DocumentsAreLoadedStep, DocumentShowsItsOperationStep
<1>. QED  BY <1>1, <1>2, ClaimIsExclusiveHolds, EveryChangeIsQueuedHolds, CreatedHolds, InitInv,
          NextInv, PTL DEF Spec
-----------------------------------------------------------------------------
(* Events.                                                                  *)

LEMMA EvidenceStays ==
  ASSUME Inv, EveryChangeIsQueued, [Next]_vars, NEW e \in EventIds, HasDocument(e)
  PROVE  HasDocument(e)'
<1>1. SUFFICES ASSUME NEW d \in DocumentIds, documents[d] # None
               PROVE  documents'[d] # None /\ documents'[d].eventId = documents[d].eventId
  BY DEF HasDocument
<1>2. documents[d] \in DocumentRows /\ documents'[d] # None
  BY <1>1, NextKeepsType DEF Inv, TypeOK, RowsStep, RowsKept
<1>3. CASE ~Records
  BY <1>1, <1>3, DocumentWrites DEF EveryChangeIsQueued
<1>4. ASSUME NEW w \in Workers, Record(w)
      PROVE  documents'[d].eventId = documents[d].eventId
  <2>1. documents'[d] \in {documents[d], Recorded(w, documents[d])}
    BY <1>4, RecordedDocument
  <2>2. Recorded(w, documents[d]).eventId = documents[d].eventId
    BY <1>2 DEF Recorded, DocumentRows
  <2>. QED  BY <2>1, <2>2
<1>. QED  BY <1>2, <1>3, <1>4 DEF Records

(* Who writes to an event: its proposal, its review, an upload of evidence   *)
(* and the worker.                                                          *)
LEMMA EventWrites ==
  ASSUME Inv, [Next]_vars, ~Records, NEW e \in EventIds, events'[e] # events[e]
  PROVE  \/ events[e] = None
         \/ outbox[ReviewOf(e)] = None /\ outbox'[ReviewOf(e)] # None
         \/ /\ HasDocument(e)'
            /\ events'[e].ledger \in {events[e].ledger, "PENDING"}
            /\ events'[e].tx = events[e].tx
<1>0. events \in [EventIds -> EventRows \cup {None}]
  BY DEF Inv, TypeOK
<1>1. \/ \E f \in EventIds, a \in AssetIds : ProposeMaintenance(f, a)
      \/ \E u \in Reviewers : ReviewCommit(u)
      \/ \E d \in DocumentIds : /\ UploadCommit(d) \/ UploadCommitUnacknowledged(d)
                               /\ UploadRows(d) /\ uploads[d] # None
  <2>1. CASE ApiStep
    BY <2>1 DEF ApiStep, CreateAssetRow, ReviewCheck, ReviewRollback, UploadCheck, UploadPut,
       UploadRollback, UploadCrash, UploadCommit, UploadCommitUnacknowledged
  <2>2. CASE WorkerStep \/ \E o \in OperationIds : TimePasses(o)
    BY <2>2 DEF WorkerStep, Claim, Post, FindLatest, LoadView, Records, TimePasses
  <2>3. CASE GatewayStep \/ ChannelStep \/ FaultStep
    BY <2>3 DEF GatewayStep, ChannelStep, FaultStep, GatewayEndorse, GatewayReject,
       GatewayFail, OrderValid, OrderInvalid, OrdererFail, NoApiStep, Unreachable,
       Timeout, Crash
  <2>. QED  BY <2>1, <2>2, <2>3 DEF Next, vars
<1>2. ASSUME NEW f \in EventIds, NEW a \in AssetIds, ProposeMaintenance(f, a)
      PROVE  events[e] = None
  BY <1>0, <1>2 DEF ProposeMaintenance
<1>3. ASSUME NEW u \in Reviewers, ReviewCommit(u)
      PROVE  outbox[ReviewOf(e)] = None /\ outbox'[ReviewOf(e)] # None
  <2>1. reviews[u].eventId = e
    BY <1>0, <1>3 DEF ReviewCommit
  <2> DEFINE r == [operationId |-> ReviewOf(e), action |-> "REVIEW_EVENT",
                   organization |-> "OperatorOrg",
                   payload |-> [eventId |-> e, decision |-> reviews[u].decision]]
  <2>2. reviews[u] \in ReviewSessions
    BY <1>3 DEF ReviewCommit, Inv, TypeOK
  <2>3. reviews[u].decision \in Decisions
    BY <2>2 DEF ReviewSessions
  <2>4. r \in Requests /\ Enqueue(r) /\ r.operationId = ReviewOf(e)
    BY <1>3, <2>1, <2>3, ReviewRequest DEF ReviewCommit
  <2>. HIDE DEF r
  <2>. QED  BY <2>4, Added
<1>4. ASSUME NEW d \in DocumentIds, UploadRows(d), uploads[d] # None, events[e] # None
      PROVE  /\ HasDocument(e)'
             /\ events'[e].ledger \in {events[e].ledger, "PENDING"}
             /\ events'[e].tx = events[e].tx
  <2>1. uploads[d].eventId = e
    BY <1>0, <1>4 DEF UploadRows, Attached
  <2>2. documents \in [DocumentIds -> DocumentRows \cup {None}] /\ uploads[d] \in UploadSessions
    BY <1>4 DEF Inv, TypeOK
  <2>3. documents'[d] = [eventId |-> e, ledger |-> "PENDING", tx |-> None]
    BY <1>4, <2>1, <2>2 DEF UploadRows, Attached
  <2>4. documents'[d] \in DocumentRows /\ documents'[d].eventId = e
    BY <2>1, <2>2, <2>3 DEF DocumentRows, UploadSessions, LedgerStatus
  <2>5. HasDocument(e)'
    BY <2>4, NoneIsNoRow DEF HasDocument
  <2>6. events[e] \in EventRows
    BY <1>0, <1>4
  <2>7. /\ events'[e].ledger = Flush(uploads[d].ledger, "PENDING", events[e].ledger)
        /\ events'[e].tx = events[e].tx
    BY <1>0, <1>4, <2>1, <2>6 DEF UploadRows, Attached, EventRows
  <2>. QED  BY <2>5, <2>7 DEF Flush
<1>. QED  BY <1>1, <1>2, <1>3, <1>4

LEMMA RecordedEvent ==
  ASSUME Inv, NEW w \in Workers, Record(w), NEW e \in EventIds
  PROVE  events'[e] = IF worker[w].latest /\ worker[w].op \in {ProposeOf(e), ReviewOf(e)}
                      THEN Recorded(w, events[e]) ELSE events[e]
<1>1. worker[w].op \in OperationIds
  BY DEF Record, Inv, DeliveryInv, WorkIsQueued
<1>2. Aggregate(worker[w].op) = <<"event", e>> <=>
        worker[w].op = ProposeOf(e) \/ worker[w].op = ReviewOf(e)
  <2>1. ASSUME Aggregate(worker[w].op) = <<"event", e>>
        PROVE  worker[w].op = ProposeOf(e) \/ worker[w].op = ReviewOf(e)
    <3>1. worker[w].op[1] = "event" /\ worker[w].op[2] = e
      BY <2>1 DEF Aggregate
    <3>. QED  BY <1>1, <3>1, OperationOfEvent
  <2>2. Aggregate(ProposeOf(e)) = <<"event", e>> /\ Aggregate(ReviewOf(e)) = <<"event", e>>
    BY DEF Aggregate, ProposeOf, ReviewOf
  <2>. QED  BY <2>1, <2>2
<1>3. events'[e] = IF worker[w].latest /\ Aggregate(worker[w].op) = <<"event", e>>
                   THEN Recorded(w, events[e]) ELSE events[e]
  BY DEF Record
<1>. QED  BY <1>2, <1>3

(* The last operation of an event changes when a review is queued.           *)
LEMMA LastMoves ==
  ASSUME Inv, [Next]_vars, NEW e \in EventIds
  PROVE  \/ LastOperation(e)' = LastOperation(e)
         \/ /\ LastOperation(e)' = ReviewOf(e)
            /\ outbox[ReviewOf(e)] = None /\ outbox'[ReviewOf(e)] # None
<1>1. outbox[ReviewOf(e)] # None => outbox'[ReviewOf(e)] # None
  BY NextKeepsType, IdOfEvent DEF RowsStep, RowsKept
<1>. QED  BY <1>1 DEF LastOperation

LEMMA LastInOutbox ==
  ASSUME NEW e \in EventIds
  PROVE  LastOperation(e) \in OperationIds /\ LastOperation(e) \in {ProposeOf(e), ReviewOf(e)}
BY IdOfEvent DEF LastOperation

LEMMA EventsAreLoadedStep ==
  ASSUME OneWorker, Inv, EveryChangeIsQueued, CreatedOnce, ProposedFirst, EventsAreLoaded,
         [Next]_vars
  PROVE  EventsAreLoaded'
<1> DEFINE Loaded(w, e) == worker'[w].pc = "recording" =>
                             \/ worker'[w].view = events'[e].ledger
                             \/ events'[e].ledger = "PENDING" /\ HasDocument(e)'
<1>1. SUFFICES ASSUME NEW w \in Workers, NEW e \in EventIds,
                      Recording(w)', worker'[w].op = LastOperation(e)'
               PROVE  worker'[w].latest /\ Loaded(w, e)
  BY DEF EventsAreLoaded
<1>2. worker \in [Workers -> WorkerStates] /\ worker[w] \in WorkerStates /\ WorkIsQueued
  BY DEF Inv, TypeOK, DeliveryInv
<1>3. CASE FindLatest(w)
  <2>1. /\ worker'[w].op = worker[w].op
        /\ worker'[w].latest = IsLatest(worker[w].op)
        /\ worker'[w].pc = "looked"
        /\ worker[w].pc # "idle"
        /\ outbox' = outbox
    BY <1>2, <1>3 DEF FindLatest, WorkerStates
  <2>2. worker[w].op = LastOperation(e)
    BY <1>1, <2>1 DEF LastOperation
  <2>3. outbox[LastOperation(e)] # None
    BY <1>2, <2>1, <2>2 DEF WorkIsQueued
  <2>4. worker'[w].latest
    BY <2>1, <2>2, <2>3, LatestOfEvent
  <2>. QED  BY <2>1, <2>4
<1>4. CASE LoadView(w)
  <2>1. /\ worker'[w].op = worker[w].op
        /\ worker'[w].latest = worker[w].latest
        /\ worker'[w].view = LedgerView(worker[w].op)
        /\ worker[w].pc = "looked"
        /\ events' = events /\ outbox' = outbox
    BY <1>2, <1>4 DEF LoadView, WorkerStates
  <2>2. worker[w].op = LastOperation(e)
    BY <1>1, <2>1 DEF LastOperation
  <2>3. worker[w].latest
    BY <2>1, <2>2 DEF EventsAreLoaded, Recording
  <2>4. LedgerView(LastOperation(e)) = events[e].ledger
    BY DEF LedgerView, LastOperation, ProposeOf, ReviewOf
  <2>. QED  BY <2>1, <2>2, <2>3, <2>4
<1>5. CASE worker'[w] = worker[w]
  <2>1. ~Records
    BY <1>1, RecordingAlone
  <2>2. worker[w].op \in OperationIds /\ outbox[worker[w].op] # None /\ Recording(w)
    BY <1>1, <1>2, <1>5 DEF WorkIsQueued, Recording
  <2>3. worker[w].op = LastOperation(e) /\ LastOperation(e)' = LastOperation(e)
    BY <1>1, <1>5, <2>2, LastMoves
  <2>4. ~(outbox[ReviewOf(e)] = None /\ outbox'[ReviewOf(e)] # None)
    BY <2>3, IdOfEvent DEF LastOperation
  <2>5. events[e] # None
    BY <2>2, <2>3, LastInOutbox DEF Inv, DeliveryInv, QueuedHaveRows
  <2>6. \/ events'[e].ledger = events[e].ledger
        \/ events'[e].ledger = "PENDING" /\ HasDocument(e)'
    BY <2>1, <2>4, <2>5, EventWrites
  <2>7. /\ worker[w].latest
        /\ worker[w].pc = "recording" => \/ worker[w].view = events[e].ledger
                                         \/ events[e].ledger = "PENDING" /\ HasDocument(e)
    BY <2>2, <2>3 DEF EventsAreLoaded
  <2>. QED  BY <1>5, <2>6, <2>7, EvidenceStays
<1>. QED  BY <1>1, <1>3, <1>4, <1>5, RecordingMoves

LEMMA OvertakenInTimeStep ==
  ASSUME OneWorker, Inv, CreatedOnce, ProposedFirst, OvertakenInTime, [Next]_vars
  PROVE  OvertakenInTime'
<1>1. SUFFICES ASSUME NEW w \in Workers, NEW e \in EventIds,
                      Recording(w)', worker'[w].op = ProposeOf(e),
                      worker'[w].latest, outbox'[ReviewOf(e)] # None
               PROVE  outbox'[ReviewOf(e)].status # "COMMITTED"
  BY DEF OvertakenInTime
<1>2. worker \in [Workers -> WorkerStates] /\ worker[w] \in WorkerStates
  BY DEF Inv, TypeOK
<1>3. CASE FindLatest(w)
  <2>1. /\ worker'[w].op = worker[w].op
        /\ worker'[w].latest = IsLatest(worker[w].op)
        /\ outbox' = outbox
    BY <1>2, <1>3 DEF FindLatest, WorkerStates
  <2>2. outbox[ReviewOf(e)] = None
    BY <1>1, <2>1, ProposalIsOvertaken
  <2>. QED  BY <1>1, <2>1, <2>2
<1>4. CASE LoadView(w)
  <2>1. /\ worker'[w].op = worker[w].op
        /\ worker'[w].latest = worker[w].latest
        /\ Recording(w)
        /\ outbox' = outbox
    BY <1>2, <1>4 DEF LoadView, WorkerStates, Recording
  <2>. QED  BY <1>1, <2>1 DEF OvertakenInTime
<1>5. CASE worker'[w] = worker[w]
  <2>1. ~Records
    BY <1>1, RecordingAlone
  <2>2. CASE outbox[ReviewOf(e)] = None
    BY <1>1, <2>2, IdOfEvent, NewRowIsPending
  <2>3. CASE outbox[ReviewOf(e)] # None
    BY <1>1, <1>5, <2>1, <2>3, IdOfEvent, RowMoves DEF OvertakenInTime, Recording
  <2>. QED  BY <2>2, <2>3
<1>. QED  BY <1>1, <1>3, <1>4, <1>5, RecordingMoves

LEMMA LastIsShownStep ==
  ASSUME OneWorker, Inv, ClaimIsExclusive, EveryChangeIsQueued, EventsAreLoaded,
         OvertakenInTime, LastIsShown, [Next]_vars
  PROVE  LastIsShown'
<1> DEFINE Shown(e) == /\ events'[e].tx = outbox'[LastOperation(e)'].tx
                       /\ \/ events'[e].ledger = "COMMITTED"
                          \/ events'[e].ledger = "PENDING" /\ HasDocument(e)'
<1>1. SUFFICES ASSUME NEW e \in EventIds, events'[e] # None,
                      outbox'[LastOperation(e)'].status = "COMMITTED"
               PROVE  Shown(e)
  BY DEF LastIsShown
<1> DEFINE o == LastOperation(e)
<1>2. o \in OperationIds /\ events \in [EventIds -> EventRows \cup {None}]
  BY LastInOutbox DEF Inv, TypeOK
<1>3. LastOperation(e)' = o /\ ~(outbox[ReviewOf(e)] = None /\ outbox'[ReviewOf(e)] # None)
  <2>1. ASSUME outbox[ReviewOf(e)] = None, outbox'[ReviewOf(e)] # None
        PROVE  FALSE
    <3>1. LastOperation(e)' = ReviewOf(e)
      BY <2>1 DEF LastOperation
    <3>2. outbox'[ReviewOf(e)].status = "PENDING"
      BY <2>1, IdOfEvent, NewRowIsPending
    <3>. QED  BY <1>1, <3>1, <3>2
  <2>. QED  BY <2>1, LastMoves
<1>4. ASSUME events[e] # None, outbox[o].status = "COMMITTED", outbox'[o].tx = outbox[o].tx,
             events'[e].tx = events[e].tx,
             \/ events'[e].ledger = events[e].ledger
             \/ events'[e].ledger = "PENDING" /\ HasDocument(e)'
      PROVE  Shown(e)
  BY <1>3, <1>4, EvidenceStays DEF LastIsShown
<1>5. CASE ~Records
  <2>1. outbox'[o] # None
    BY <1>1, <1>3, EveryChangeIsQueuedStep DEF LastOperation, EveryChangeIsQueued
  <2>2. outbox[o] # None
    BY <1>1, <1>2, <1>3, <2>1, NewRowIsPending
  <2>3. outbox[o].status = "COMMITTED" /\ outbox'[o].tx = outbox[o].tx
    BY <1>1, <1>2, <1>3, <1>5, <2>2, RowMoves
  <2>4. events[e] # None
    BY <2>2, LastInOutbox DEF Inv, DeliveryInv, QueuedHaveRows
  <2>5. /\ events'[e].tx = events[e].tx
        /\ \/ events'[e].ledger = events[e].ledger
           \/ events'[e].ledger = "PENDING" /\ HasDocument(e)'
    BY <1>1, <1>3, <1>5, <2>4, EventWrites
  <2>. QED  BY <1>4, <2>3, <2>4, <2>5
<1>6. ASSUME NEW w \in Workers, Record(w)
      PROVE  Shown(e)
  <2>1. events[e] # None /\ events[e] \in EventRows
    BY <1>1, <1>2, <1>6, RecordKeepsBooks DEF BooksKept
  <2>2. CASE worker[w].op = o
    <3> DEFINE status == IF worker[w].ok THEN "COMMITTED" ELSE "FAILED"
    <3>1. outbox'[o].status = status /\ (worker[w].ok => outbox'[o].tx = worker[w].tx)
      BY <1>6, <2>2, RecordedRow
    <3>2. worker[w].ok
      BY <1>1, <1>3, <3>1
    <3>3. /\ worker[w].latest
          /\ \/ worker[w].view = events[e].ledger
             \/ events[e].ledger = "PENDING" /\ HasDocument(e)
      BY <1>2, <1>6, <2>2, RecordedRow DEF EventsAreLoaded, Recording
    <3>4. events'[e] = Recorded(w, events[e])
      BY <1>6, <2>2, <3>3, LastInOutbox, RecordedEvent
    <3>5. /\ events'[e].ledger = Flush(worker[w].view, "COMMITTED", events[e].ledger)
          /\ events'[e].tx = worker[w].tx
      BY <2>1, <3>2, <3>4 DEF Recorded, EventRows
    <3>6. \/ events'[e].ledger = "COMMITTED"
          \/ events'[e].ledger = "PENDING" /\ HasDocument(e)'
      BY <3>3, <3>5, EvidenceStays DEF Flush
    <3>. QED  BY <1>3, <3>1, <3>2, <3>5, <3>6
  <2>3. CASE worker[w].op # o
    <3>1. outbox'[o] = outbox[o] /\ outbox[o].status = "COMMITTED"
      BY <1>1, <1>2, <1>3, <1>6, <2>3, RecordedRow
    <3>2. ~(worker[w].latest /\ worker[w].op \in {ProposeOf(e), ReviewOf(e)})
      <4>1. worker[w].pc = "recording" /\ outbox[worker[w].op] # None
        BY <1>6, RecordedRow
      <4>2. ASSUME worker[w].latest, worker[w].op \in {ProposeOf(e), ReviewOf(e)}
            PROVE  FALSE
        <5>1. outbox[ReviewOf(e)] # None /\ o = ReviewOf(e) /\ worker[w].op = ProposeOf(e)
          BY <2>3, <4>1, <4>2 DEF LastOperation
        <5>. QED  BY <3>1, <4>1, <4>2, <5>1 DEF OvertakenInTime, Recording
      <4>. QED  BY <4>2
    <3>3. events'[e] = events[e]
      BY <1>6, <3>2, RecordedEvent
    <3>. QED  BY <1>4, <2>1, <3>1, <3>3
  <2>. QED  BY <2>2, <2>3
<1>. QED  BY <1>5, <1>6 DEF Records

(* With one worker an event shows the transaction of its last operation once  *)
(* that is confirmed, and the confirmation unless an upload took it back,     *)
(* whatever an earlier answer or a racing review overwrote on the way.        *)
THEOREM LastIsShownHolds ==
  ASSUME OneWorker
  PROVE  Spec => []LastIsShown
<1>1. Init => EventsAreLoaded /\ OvertakenInTime /\ LastIsShown
  BY DEF Init, Idle, EventsAreLoaded, OvertakenInTime, LastIsShown, Recording
<1>2. Inv /\ ClaimIsExclusive /\ EveryChangeIsQueued /\ CreatedOnce /\ ProposedFirst
        /\ EventsAreLoaded /\ OvertakenInTime /\ LastIsShown /\ [Next]_vars =>
      EventsAreLoaded' /\ OvertakenInTime' /\ LastIsShown'
  BY EventsAreLoadedStep, OvertakenInTimeStep, LastIsShownStep
<1>. QED  BY <1>1, <1>2, ClaimIsExclusiveHolds, EveryChangeIsQueuedHolds, CreatedHolds, InitInv,
          NextInv, PTL DEF Spec

(* With one worker an event whose operations are all confirmed shows the      *)
(* transaction of the last one, and COMMITTED unless an upload took it back.  *)
THEOREM SettledEventShowsLastOperationHolds ==
  ASSUME OneWorker
  PROVE  Spec => []SettledEventShowsLastOperation
<1>1. LastIsShown /\ EveryChangeIsQueued => SettledEventShowsLastOperation
  <2>1. SUFFICES ASSUME LastIsShown, EveryChangeIsQueued, NEW e \in EventIds, events[e] # None,
                        AllCommitted(EventOperations(e))
                 PROVE  /\ events[e].tx = outbox[LastOperation(e)].tx
                        /\ \/ events[e].ledger = "COMMITTED"
                           \/ events[e].ledger = "PENDING" /\ HasDocument(e)
    BY DEF SettledEventShowsLastOperation
  <2>2. LastOperation(e) \in EventOperations(e)
    BY <2>1 DEF EveryChangeIsQueued, LastOperation, EventOperations
  <2>. QED  BY <2>1, <2>2 DEF AllCommitted, LastIsShown
<1>. QED  BY <1>1, LastIsShownHolds, EveryChangeIsQueuedHolds, PTL
=============================================================================

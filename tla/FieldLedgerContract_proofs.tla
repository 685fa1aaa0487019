---------------------- MODULE FieldLedgerContract_proofs ----------------------
(* Facts about the contract that hold for all sets of ids.                  *)
EXTENDS FieldLedgerContract, TLAPS

(* A request carries the payload its action asks for. *)
LEMMA RequestShape ==
  ASSUME NEW r \in Requests
  PROVE  /\ r.operationId \in OperationIds
         /\ r.organization \in Orgs
         /\ r.action \in Actions
         /\ r.payload \in PayloadsOf[r.action]
         /\ r.payload \in Payloads
BY DEF Requests, Payloads

LEMMA RequestIn ==
  ASSUME NEW o \in OperationIds, NEW a \in Actions, NEW organization \in Orgs,
         NEW p \in PayloadsOf[a]
  PROVE  [operationId |-> o, action |-> a, organization |-> organization,
          payload |-> p] \in Requests
<1> DEFINE RequestsOf(b) == [operationId : OperationIds, action : {b},
                             organization : Orgs, payload : PayloadsOf[b]]
<1>1. [operationId |-> o, action |-> a, organization |-> organization,
       payload |-> p] \in RequestsOf(a)
  OBVIOUS
<1>. HIDE DEF RequestsOf
<1>2. Requests = UNION {RequestsOf(b) : b \in Actions}
  BY DEF Requests, RequestsOf
<1>. QED  BY <1>1, <1>2

(* The actions, listed. *)
LEMMA ActionNames ==
  Actions = {"REGISTER_ASSET", "PROPOSE_EVENT", "REVIEW_EVENT", "REGISTER_DOCUMENT",
             "DECOMMISSION_ASSET", "REGISTER_TELEMETRY_BATCH"}
BY DEF Actions, PayloadsOf

LEMMA RegisterAssetPayload ==
  PayloadsOf["REGISTER_ASSET"] = [assetId : AssetIds]
BY DEF PayloadsOf

LEMMA ProposeEventPayload ==
  PayloadsOf["PROPOSE_EVENT"] = [eventId : EventIds, assetId : AssetIds]
BY DEF PayloadsOf

LEMMA ReviewEventPayload ==
  PayloadsOf["REVIEW_EVENT"] = [eventId : EventIds, decision : Decisions]
BY DEF PayloadsOf

LEMMA RegisterDocumentPayload ==
  PayloadsOf["REGISTER_DOCUMENT"] =
    [documentId : DocumentIds, eventId : EventIds, assetId : AssetIds,
     sha256Hash : Hashes]
BY DEF PayloadsOf

LEMMA DecommissionAssetPayload ==
  PayloadsOf["DECOMMISSION_ASSET"] =
    [assetId : AssetIds, decommissionedBy : {"OperatorOrg"}]
BY DEF PayloadsOf

LEMMA RegisterTelemetryBatchPayload ==
  PayloadsOf["REGISTER_TELEMETRY_BATCH"] =
    [batchId : BatchIds, assetId : AssetIds, merkleRoot : Roots]
BY DEF PayloadsOf


-----------------------------------------------------------------------------
(* What a simulation reads is the current state of keys of the world, and   *)
(* what it writes has the shape of the record kept at the key it writes to.  *)
SimulationOK(out) ==
  /\ DOMAIN out.reads \subseteq Keys
  /\ \A k \in DOMAIN out.reads : out.reads[k] = world[k]
  /\ DOMAIN out.writes \subseteq Keys
  /\ \A k \in DOMAIN out.writes : out.writes[k] \in RecordsAt(k)

LEMMA OutcomeShape ==
  ASSUME NEW ok, NEW reads \in SUBSET Keys, NEW writes,
         ok => /\ DOMAIN writes \subseteq Keys
               /\ \A k \in DOMAIN writes : writes[k] \in RecordsAt(k)
  PROVE  SimulationOK(Outcome(ok, reads, writes))
<1>1. CASE ok
  BY <1>1 DEF SimulationOK, Outcome
<1>2. CASE ~ok
  BY <1>2 DEF SimulationOK, Outcome, NoKeys
<1>. QED  BY <1>1, <1>2

(* The records kept at each kind of key. *)
LEMMA AssetKey ==
  ASSUME NEW a \in AssetIds
  PROVE  <<"asset", a>> \in Keys /\ RecordsAt(<<"asset", a>>) = AssetRecords
BY DEF Keys, RecordsAt, RecordsOf

LEMMA EventKey ==
  ASSUME NEW e \in EventIds
  PROVE  <<"event", e>> \in Keys /\ RecordsAt(<<"event", e>>) = EventRecords
BY DEF Keys, RecordsAt, RecordsOf

LEMMA HashKey ==
  ASSUME NEW h \in Hashes
  PROVE  /\ <<"documentHash", h>> \in Keys
         /\ RecordsAt(<<"documentHash", h>>) = DocumentRecords
BY DEF Keys, RecordsAt, RecordsOf

LEMMA DocumentKey ==
  ASSUME NEW d \in DocumentIds
  PROVE  /\ <<"document", d>> \in Keys
         /\ RecordsAt(<<"document", d>>) = DocumentRecords
BY DEF Keys, RecordsAt, RecordsOf

LEMMA BatchKey ==
  ASSUME NEW b \in BatchIds
  PROVE  /\ <<"telemetryBatch", b>> \in Keys
         /\ RecordsAt(<<"telemetryBatch", b>>) = BatchRecords
BY DEF Keys, RecordsAt, RecordsOf

LEMMA MerkleKey ==
  ASSUME NEW root \in Roots
  PROVE  /\ <<"telemetryMerkle", root>> \in Keys
         /\ RecordsAt(<<"telemetryMerkle", root>>) = BatchRecords
BY DEF Keys, RecordsAt, RecordsOf

-----------------------------------------------------------------------------
(* Each submit function. *)
LEMMA CreateAssetShape ==
  ASSUME NEW p \in [assetId : AssetIds]
  PROVE  SimulationOK(CreateAsset(p))
<1> DEFINE asset == <<"asset", p.assetId>>
<1>1. asset \in Keys /\ RecordsAt(asset) = AssetRecords
  BY AssetKey
<1>2. [recordType |-> "ASSET", status |-> "REGISTERED"] \in AssetRecords
  BY DEF AssetRecords
<1>. QED  BY <1>1, <1>2, OutcomeShape DEF CreateAsset

LEMMA ProposeEventShape ==
  ASSUME NEW p \in [eventId : EventIds, assetId : AssetIds],
         NEW organization \in Orgs
  PROVE  SimulationOK(ProposeEvent(p, organization))
<1> DEFINE asset == <<"asset", p.assetId>>
           event == <<"event", p.eventId>>
<1>1. asset \in Keys /\ event \in Keys /\ RecordsAt(event) = EventRecords
  BY AssetKey, EventKey
<1>2. [recordType |-> "EVENT", assetId |-> p.assetId, organization |-> organization,
       status |-> "PROPOSED", reviewedBy |-> None, documentHash |-> None]
        \in EventRecords
  BY DEF EventRecords
<1>. QED  BY <1>1, <1>2, OutcomeShape DEF ProposeEvent

LEMMA ReviewEventShape ==
  ASSUME ContractTypeOK,
         NEW p \in [eventId : EventIds, decision : Decisions],
         NEW organization \in Orgs
  PROVE  SimulationOK(ReviewEvent(p, organization))
<1> DEFINE event  == <<"event", p.eventId>>
           record == [world[event] EXCEPT !.status = p.decision,
                                          !.reviewedBy = organization]
<1>1. event \in Keys /\ RecordsAt(event) = EventRecords
  BY EventKey
<1>2. Exists(event) => world[event] \in EventRecords
  BY <1>1 DEF ContractTypeOK, Exists
<1>3. Exists(event) => record \in EventRecords
  BY <1>2 DEF EventRecords
<1>. QED  BY <1>1, <1>3, OutcomeShape DEF ReviewEvent

LEMMA RegisterDocumentShape ==
  ASSUME ContractTypeOK,
         NEW p \in [documentId : DocumentIds, eventId : EventIds,
                    assetId : AssetIds, sha256Hash : Hashes],
         NEW organization \in Orgs
  PROVE  SimulationOK(RegisterDocument(p, organization))
<1> DEFINE event    == <<"event", p.eventId>>
           hash     == <<"documentHash", p.sha256Hash>>
           document == <<"document", p.documentId>>
           record   == [recordType |-> "DOCUMENT_HASH", documentId |-> p.documentId,
                        eventId |-> p.eventId, assetId |-> p.assetId,
                        sha256Hash |-> p.sha256Hash, organization |-> organization]
           updated  == [world[event] EXCEPT !.documentHash = p.sha256Hash]
<1>1. event \in Keys /\ RecordsAt(event) = EventRecords
  BY EventKey
<1>2. hash \in Keys /\ RecordsAt(hash) = DocumentRecords
  BY HashKey
<1>3. document \in Keys /\ RecordsAt(document) = DocumentRecords
  BY DocumentKey
<1>4. record \in DocumentRecords
  BY DEF DocumentRecords
<1>5. Exists(event) => world[event] \in EventRecords
  BY <1>1 DEF ContractTypeOK, Exists
<1>6. Exists(event) => updated \in EventRecords
  BY <1>5 DEF EventRecords
<1>. HIDE DEF record, updated
<1>7. Exists(event) =>
        \A k \in {event, hash, document} :
          (IF k = event THEN updated ELSE record) \in RecordsAt(k)
  BY <1>1, <1>2, <1>3, <1>4, <1>6
<1>. QED  BY <1>1, <1>2, <1>3, <1>7, OutcomeShape
          DEF RegisterDocument, Registration, DocumentRecord, record, updated

LEMMA DecommissionAssetShape ==
  ASSUME ContractTypeOK,
         NEW p \in [assetId : AssetIds, decommissionedBy : {"OperatorOrg"}]
  PROVE  SimulationOK(DecommissionAsset(p))
<1> DEFINE asset  == <<"asset", p.assetId>>
           record == [world[asset] EXCEPT !.status = "DECOMMISSIONED"]
<1>1. asset \in Keys /\ RecordsAt(asset) = AssetRecords
  BY AssetKey
<1>2. Exists(asset) => world[asset] \in AssetRecords
  BY <1>1 DEF ContractTypeOK, Exists
<1>3. Exists(asset) => record \in AssetRecords
  BY <1>2 DEF AssetRecords
<1>. QED  BY <1>1, <1>3, OutcomeShape DEF DecommissionAsset

LEMMA RegisterTelemetryBatchShape ==
  ASSUME NEW p \in [batchId : BatchIds, assetId : AssetIds, merkleRoot : Roots]
  PROVE  SimulationOK(RegisterTelemetryBatch(p))
<1> DEFINE asset  == <<"asset", p.assetId>>
           batch  == <<"telemetryBatch", p.batchId>>
           merkle == <<"telemetryMerkle", p.merkleRoot>>
           record == [recordType |-> "TELEMETRY_BATCH", batchId |-> p.batchId,
                      assetId |-> p.assetId, merkleRoot |-> p.merkleRoot]
<1>1. asset \in Keys
  BY AssetKey
<1>2. batch \in Keys /\ RecordsAt(batch) = BatchRecords
  BY BatchKey
<1>3. merkle \in Keys /\ RecordsAt(merkle) = BatchRecords
  BY MerkleKey
<1>4. record \in BatchRecords
  BY DEF BatchRecords
<1>. QED  BY <1>1, <1>2, <1>3, <1>4, OutcomeShape
          DEF RegisterTelemetryBatch, BatchRegistration

LEMMA SimulateShape ==
  ASSUME ContractTypeOK, NEW r \in Requests
  PROVE  SimulationOK(Simulate(r))
<1>1. r.organization \in Orgs /\ r.action \in Actions /\ r.payload \in PayloadsOf[r.action]
  BY RequestShape
<1>2. CASE r.action = "REGISTER_ASSET"
  BY <1>1, <1>2, RegisterAssetPayload, CreateAssetShape DEF Simulate
<1>3. CASE r.action = "PROPOSE_EVENT"
  BY <1>1, <1>3, ProposeEventPayload, ProposeEventShape DEF Simulate
<1>4. CASE r.action = "REVIEW_EVENT"
  BY <1>1, <1>4, ReviewEventPayload, ReviewEventShape DEF Simulate
<1>5. CASE r.action = "REGISTER_DOCUMENT"
  BY <1>1, <1>5, RegisterDocumentPayload, RegisterDocumentShape DEF Simulate
<1>6. CASE r.action = "DECOMMISSION_ASSET"
  BY <1>1, <1>6, DecommissionAssetPayload, DecommissionAssetShape DEF Simulate
<1>7. CASE r.action = "REGISTER_TELEMETRY_BATCH"
  BY <1>1, <1>7, RegisterTelemetryBatchPayload, RegisterTelemetryBatchShape DEF Simulate
<1>. QED  BY <1>1, <1>2, <1>3, <1>4, <1>5, <1>6, <1>7, ActionNames

-----------------------------------------------------------------------------
(* The type invariant of the contract.                                      *)
LEMMA EndorsedShape ==
  ASSUME ContractTypeOK, NEW r \in Requests, NEW id \in TxIds
  PROVE  TransactionOK(Endorsed(r, id))
<1>1. r.operationId \in OperationIds
  BY RequestShape
<1>2. operations[r.operationId] \in OperationRecords \cup {None}
  BY <1>1 DEF ContractTypeOK
<1>3. SimulationOK(Simulate(r))
  BY SimulateShape
<1>4. \A k \in Keys : world[k] \in RecordsAt(k) \cup {None}
  BY DEF ContractTypeOK
<1>5. CASE Repeats(r)
  BY <1>2, <1>5 DEF TransactionOK, Endorsed, NoKeys
<1>6. CASE ~Repeats(r)
  BY <1>2, <1>3, <1>4, <1>6 DEF TransactionOK, Endorsed, SimulationOK
<1>. QED  BY <1>5, <1>6

LEMMA EndorseKeepsType ==
  ASSUME ContractTypeOK, NEW r \in Requests, NEW id \in TxIds, Endorse(r, id)
  PROVE  ContractTypeOK'
<1>1. TransactionOK(Endorsed(r, id))
  BY EndorsedShape
<1>2. \A tx : TransactionOK(tx) => TransactionOK(tx)'
  BY DEF TransactionOK
<1>3. \A tx \in inflight' : TransactionOK(tx)'
  BY <1>1, <1>2 DEF Endorse, ContractTypeOK
<1>. QED  BY <1>3 DEF Endorse, ContractTypeOK

LEMMA RemovalKeepsType ==
  ASSUME ContractTypeOK, NEW tx, inflight' = inflight \ {tx},
         UNCHANGED <<operations, world>>
  PROVE  ContractTypeOK'
BY DEF ContractTypeOK, TransactionOK

LEMMA CommitValidKeepsType ==
  ASSUME ContractTypeOK, NEW tx \in inflight, CommitValid(tx)
  PROVE  ContractTypeOK'
<1>1. TransactionOK(tx)
  BY DEF ContractTypeOK
<1>2. tx.request.operationId \in OperationIds /\ tx.request.payload \in Payloads
  BY <1>1, RequestShape DEF TransactionOK
<1>3. [digest |-> tx.request.payload, txId |-> tx.id] \in OperationRecords
  BY <1>1, <1>2 DEF TransactionOK, OperationRecords
<1>4. operations' \in [OperationIds -> OperationRecords \cup {None}]
  BY <1>2, <1>3 DEF CommitValid, Apply, ContractTypeOK
<1>5. DOMAIN world' = Keys
  BY DEF CommitValid, Apply
<1>6. \A k \in Keys : world'[k] \in RecordsAt(k) \cup {None}
  BY <1>1 DEF CommitValid, Apply, ContractTypeOK, TransactionOK
<1>7. \A t \in inflight' : TransactionOK(t)'
  BY DEF CommitValid, Apply, ContractTypeOK, TransactionOK
<1>. QED  BY <1>4, <1>5, <1>6, <1>7 DEF ContractTypeOK

LEMMA DeliverKeepsType ==
  ASSUME ContractTypeOK, NEW r \in Requests, NEW id \in TxIds, Deliver(r, id)
  PROVE  ContractTypeOK'
<1> DEFINE tx == Endorsed(r, id)
<1>1. TransactionOK(tx)
  BY EndorsedShape
<1>2. tx.request = r /\ tx.id = id
  BY DEF Endorsed
<1>3. Apply(tx) /\ UNCHANGED inflight
  BY DEF Deliver
<1>. HIDE DEF tx
<1>4. r.operationId \in OperationIds /\ [digest |-> r.payload, txId |-> id] \in OperationRecords
  BY RequestShape DEF OperationRecords
<1>5. operations' \in [OperationIds -> OperationRecords \cup {None}]
  BY <1>2, <1>3, <1>4 DEF Apply, ContractTypeOK
<1>6. DOMAIN world' = Keys
  BY <1>3 DEF Apply
<1>7. \A k \in Keys : world'[k] \in RecordsAt(k) \cup {None}
  BY <1>1, <1>3 DEF Apply, ContractTypeOK, TransactionOK
<1>8. \A t \in inflight' : TransactionOK(t)'
  BY <1>3 DEF ContractTypeOK, TransactionOK
<1>. QED  BY <1>5, <1>6, <1>7, <1>8 DEF ContractTypeOK

(* What a delivery does to operations and to the batches: an operation that  *)
(* was applied before changes nothing, and only the registration of a batch  *)
(* writes to batches, to its own and if there was none.                      *)
LEMMA DeliverApplies ==
  ASSUME ContractTypeOK, NEW r \in Requests, NEW id \in TxIds, Deliver(r, id)
  PROVE  /\ \A o \in OperationIds \ {r.operationId} : operations'[o] = operations[o]
         /\ Applied(r.operationId) =>
              /\ UNCHANGED operations
              /\ \A k \in Keys : world'[k] = world[k]
         /\ ~Applied(r.operationId) =>
              /\ Simulate(r).ok
              /\ world' = [k \in Keys |-> IF k \in DOMAIN Simulate(r).writes
                                          THEN Simulate(r).writes[k] ELSE world[k]]
<1>1. r.operationId \in OperationIds
  BY RequestShape
<1>2. CASE Applied(r.operationId)
  <2>1. Repeats(r)
    BY <1>2 DEF Deliver, Endorsable
  <2>2. Endorsed(r, id).seen # None /\ Endorsed(r, id).writes = NoKeys
    BY <1>2, <2>1 DEF Endorsed, Applied
  <2>3. operations' = operations
    BY <2>2 DEF Deliver, Apply
  <2>4. world' = [k \in Keys |-> world[k]]
    BY <2>2 DEF Deliver, Apply, NoKeys
  <2>. QED  BY <1>2, <2>3, <2>4
<1>3. CASE ~Applied(r.operationId)
  <2>1. ~Repeats(r) /\ Simulate(r).ok
    BY <1>3 DEF Deliver, Endorsable, Repeats
  <2>2. /\ Endorsed(r, id).seen = None
        /\ Endorsed(r, id).writes = Simulate(r).writes
        /\ Endorsed(r, id).request = r
    BY <1>3, <2>1 DEF Endorsed, Applied
  <2>3. \A o \in OperationIds \ {r.operationId} : operations'[o] = operations[o]
    BY <1>1, <2>2 DEF Deliver, Apply, ContractTypeOK
  <2>4. world' = [k \in Keys |-> IF k \in DOMAIN Simulate(r).writes
                                 THEN Simulate(r).writes[k] ELSE world[k]]
    BY <2>2 DEF Deliver, Apply
  <2>. QED  BY <1>3, <2>1, <2>3, <2>4
<1>. QED  BY <1>2, <1>3

(* A submit function that writes one record. *)
LEMMA DeliverOne ==
  ASSUME ContractTypeOK, NEW r \in Requests, NEW id \in TxIds, Deliver(r, id),
         ~Applied(r.operationId),
         NEW ok, NEW reads, NEW writes, NEW key \in Keys,
         Simulate(r) = Outcome(ok, reads, writes), DOMAIN writes = {key}
  PROVE  /\ ok
         /\ \A k \in Keys : world'[k] = IF k = key THEN writes[key] ELSE world[k]
<1>1. Simulate(r).ok /\ Simulate(r).ok = ok
  BY DeliverApplies DEF Outcome
<1>2. Simulate(r).writes = writes
  BY <1>1 DEF Outcome
<1>3. \A k \in Keys : world'[k] = IF k \in DOMAIN Simulate(r).writes
                                  THEN Simulate(r).writes[k] ELSE world[k]
  BY DeliverApplies
<1>. QED  BY <1>1, <1>2, <1>3

LEMMA DeliverAsset ==
  ASSUME ContractTypeOK, NEW r \in Requests, NEW id \in TxIds, Deliver(r, id),
         r.action = "REGISTER_ASSET"
  PROVE  \A b \in BatchIds :
           world'[<<"telemetryBatch", b>>] = world[<<"telemetryBatch", b>>]
<1>1. DOMAIN Simulate(r).writes \subseteq {<<"asset", r.payload.assetId>>}
  BY DEF Simulate, CreateAsset, Outcome, NoKeys
<1>2. \A b \in BatchIds : <<"telemetryBatch", b>> \in Keys
  BY BatchKey
<1>. QED  BY <1>1, <1>2, DeliverApplies

LEMMA DeliverBatch ==
  ASSUME ContractTypeOK, NEW r \in Requests, NEW id \in TxIds, Deliver(r, id),
         r.action = "REGISTER_TELEMETRY_BATCH"
  PROVE  \A b \in BatchIds :
           world'[<<"telemetryBatch", b>>] =
             IF b = r.payload.batchId /\ ~Applied(r.operationId)
             THEN [recordType |-> "TELEMETRY_BATCH", batchId |-> b,
                   assetId |-> r.payload.assetId, merkleRoot |-> r.payload.merkleRoot]
             ELSE world[<<"telemetryBatch", b>>]
<1> DEFINE p == r.payload
           written == {<<"telemetryBatch", p.batchId>>, <<"telemetryMerkle", p.merkleRoot>>}
<1>1. CASE Applied(r.operationId)
  BY <1>1, BatchKey, DeliverApplies
<1>2. CASE ~Applied(r.operationId)
  <2>1. Simulate(r) = RegisterTelemetryBatch(p)
    BY DEF Simulate
  <2>2. Simulate(r).writes =
          [k \in written |->
             [recordType |-> "TELEMETRY_BATCH", batchId |-> p.batchId,
              assetId |-> p.assetId, merkleRoot |-> p.merkleRoot]]
    BY <1>2, <2>1, DeliverApplies DEF RegisterTelemetryBatch, BatchRegistration, Outcome
  <2>3. \A b \in BatchIds : <<"telemetryBatch", b>> \in Keys
    BY BatchKey
  <2>4. \A b \in BatchIds : <<"telemetryBatch", b>> \in written <=> b = p.batchId
    OBVIOUS
  <2>5. DOMAIN Simulate(r).writes = written
    BY <2>2
  <2>6. \A b \in BatchIds :
          world'[<<"telemetryBatch", b>>] =
            IF <<"telemetryBatch", b>> \in written
            THEN Simulate(r).writes[<<"telemetryBatch", b>>]
            ELSE world[<<"telemetryBatch", b>>]
    BY <1>2, <2>3, <2>5, DeliverApplies
  <2>7. ASSUME NEW k \in written
        PROVE  Simulate(r).writes[k] =
                 [recordType |-> "TELEMETRY_BATCH", batchId |-> p.batchId,
                  assetId |-> p.assetId, merkleRoot |-> p.merkleRoot]
    BY <2>2
  <2>. HIDE DEF written
  <2>. QED  BY <1>2, <2>4, <2>6, <2>7
<1>. QED  BY <1>1, <1>2

LEMMA IdleKeepsType ==
  ASSUME ContractTypeOK, UNCHANGED contractVars
  PROVE  ContractTypeOK'
BY DEF ContractTypeOK, contractVars, TransactionOK

LEMMA InitKeepsType ==
  ASSUME ContractInit
  PROVE  ContractTypeOK
BY DEF ContractInit, ContractTypeOK
=============================================================================

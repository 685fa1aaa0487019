------------------------- MODULE FieldLedgerContract -------------------------
(***************************************************************************)
(* The chaincode "fieldledger" (fieldledger-contract.ts) on a Fabric       *)
(* channel.  A transaction lives in two steps: a peer simulates it on the  *)
(* current world state and endorses the keys it read and the writes it     *)
(* wants (Endorse); later the orderer puts it in a block, where it is      *)
(* applied only if nothing it read has changed since (CommitValid,         *)
(* CommitInvalid), or it never reaches a block (Lose).                     *)
(*                                                                         *)
(* Every submit function of the contract is an operator that gives the     *)
(* outcome of its simulation.  Free text (names, descriptions, reasons) is *)
(* left out: two payloads differ here exactly when they name different     *)
(* things or take a different decision, and the digest of a payload is the *)
(* payload itself (SHA-256 without collisions).                            *)
(*                                                                         *)
(* An operator whose name begins with Wrong is a mutant: the definition    *)
(* below it as a plausible mistake would have it.  No specification uses   *)
(* it; README.md says which property each of them breaks.                  *)
(***************************************************************************)
EXTENDS Naturals, FiniteSets

CONSTANTS
  OperationIds,  \* operation ids a client may name
  AssetIds, EventIds, DocumentIds, BatchIds,
  Hashes,        \* SHA-256 hashes of documents
  Roots,         \* Merkle roots of telemetry batches
  TxIds,         \* transaction ids
  None           \* an absent key, an unset field

Orgs == {"OperatorOrg", "ContractorOrg", "AuditorOrg"}
Decisions == {"APPROVED", "REJECTED"}

(* The fields of the payloads the contract tells apart, for each action. *)
PayloadsOf ==
  [ REGISTER_ASSET           |-> [assetId : AssetIds],
    PROPOSE_EVENT            |-> [eventId : EventIds, assetId : AssetIds],
    REVIEW_EVENT             |-> [eventId : EventIds, decision : Decisions],
    REGISTER_DOCUMENT        |-> [documentId : DocumentIds, eventId : EventIds,
                                  assetId : AssetIds, sha256Hash : Hashes],
    DECOMMISSION_ASSET       |-> [assetId : AssetIds, decommissionedBy : {"OperatorOrg"}],
    REGISTER_TELEMETRY_BATCH |-> [batchId : BatchIds, assetId : AssetIds,
                                  merkleRoot : Roots] ]

Actions  == DOMAIN PayloadsOf
Payloads == UNION {PayloadsOf[a] : a \in Actions}

Requests ==
  UNION {[operationId : OperationIds, action : {a}, organization : Orgs,
          payload : PayloadsOf[a]] : a \in Actions}

(* The records of the world state under each type of composite key. *)
Keys ==
  ({"asset"} \X AssetIds) \cup ({"event"} \X EventIds)
    \cup ({"documentHash"} \X Hashes) \cup ({"document"} \X DocumentIds)
    \cup ({"telemetryBatch"} \X BatchIds) \cup ({"telemetryMerkle"} \X Roots)

(* The record of an asset has no status until it is decommissioned; here it  *)
(* is REGISTERED until then.                                                 *)
AssetRecords == [recordType : {"ASSET"}, status : {"REGISTERED", "DECOMMISSIONED"}]
EventRecords ==
  [recordType : {"EVENT"}, assetId : AssetIds, organization : Orgs,
   status : {"PROPOSED"} \cup Decisions, reviewedBy : Orgs \cup {None},
   documentHash : Hashes \cup {None}]
DocumentRecords ==
  [recordType : {"DOCUMENT_HASH"}, documentId : DocumentIds, eventId : EventIds,
   assetId : AssetIds, sha256Hash : Hashes, organization : Orgs]
BatchRecords ==
  [recordType : {"TELEMETRY_BATCH"}, batchId : BatchIds, assetId : AssetIds,
   merkleRoot : Roots]
RecordsOf ==
  [asset |-> AssetRecords, event |-> EventRecords,
   documentHash |-> DocumentRecords, document |-> DocumentRecords,
   telemetryBatch |-> BatchRecords, telemetryMerkle |-> BatchRecords]
RecordsAt(k) == RecordsOf[k[1]]

OperationRecords == [digest : Payloads, txId : TxIds]

ASSUME NoneIsNoRecord ==
  /\ \A type \in DOMAIN RecordsOf : None \notin RecordsOf[type]
  /\ None \notin OperationRecords
  /\ None \notin TxIds
  /\ None \notin Requests

VARIABLES
  operations,  \* the idempotency records, None until the operation is applied
  world,       \* the rest of the world state
  inflight     \* endorsed transactions that are not in a block yet

contractVars == <<operations, world, inflight>>

TransactionOK(tx) ==
  /\ tx.id \in TxIds
  /\ tx.request \in Requests
  /\ tx.seen \in OperationRecords \cup {None}
  /\ DOMAIN tx.reads \subseteq Keys
  /\ \A k \in DOMAIN tx.reads : tx.reads[k] \in RecordsAt(k) \cup {None}
  /\ DOMAIN tx.writes \subseteq Keys
  /\ \A k \in DOMAIN tx.writes : tx.writes[k] \in RecordsAt(k)

ContractTypeOK ==
  /\ operations \in [OperationIds -> OperationRecords \cup {None}]
  /\ DOMAIN world = Keys
  /\ \A k \in Keys : world[k] \in RecordsAt(k) \cup {None}
  /\ \A tx \in inflight : TransactionOK(tx)

ContractInit ==
  /\ operations = [o \in OperationIds |-> None]
  /\ world = [k \in Keys |-> None]
  /\ inflight = {}

-----------------------------------------------------------------------------
(* What a submit function does: whether it succeeds, the keys it read and  *)
(* what it writes if it succeeds.                                          *)
NoKeys == [k \in {} |-> None]
Outcome(ok, reads, writes) ==
  [ok |-> ok, reads |-> [k \in reads |-> world[k]],
   writes |-> IF ok THEN writes ELSE NoKeys]
Exists(k) == world[k] # None

WrongCreateAsset(p) ==  \* the status the asset has in PostgreSQL
  LET asset == <<"asset", p.assetId>>
  IN  Outcome(~Exists(asset), {asset},
              [k \in {asset} |-> [recordType |-> "ASSET", status |-> "ACTIVE"]])

CreateAsset(p) ==
  LET asset == <<"asset", p.assetId>>
  IN  Outcome(~Exists(asset), {asset},
              [k \in {asset} |-> [recordType |-> "ASSET", status |-> "REGISTERED"]])

WrongProposeEvent(p, organization) ==  \* the asset is not looked up
  LET event == <<"event", p.eventId>>
  IN  Outcome(~Exists(event), {event},
              [k \in {event} |->
                 [recordType |-> "EVENT", assetId |-> p.assetId,
                  organization |-> organization, status |-> "PROPOSED",
                  reviewedBy |-> None, documentHash |-> None]])

ProposeEvent(p, organization) ==
  LET asset == <<"asset", p.assetId>>
      event == <<"event", p.eventId>>
  IN  Outcome(Exists(asset) /\ ~Exists(event), {asset, event},
              [k \in {event} |->
                 [recordType |-> "EVENT", assetId |-> p.assetId,
                  organization |-> organization, status |-> "PROPOSED",
                  reviewedBy |-> None, documentHash |-> None]])

WrongReviewEvent(p, organization) ==  \* a reviewed event is reviewed again
  LET event == <<"event", p.eventId>>
      ok == Exists(event) /\ world[event].organization # organization
  IN  Outcome(ok, {event},
              [k \in {event} |-> [world[event] EXCEPT !.status = p.decision,
                                                      !.reviewedBy = organization]])

ReviewEvent(p, organization) ==
  LET event == <<"event", p.eventId>>
      ok == /\ Exists(event)
            /\ world[event].status = "PROPOSED"
            /\ world[event].organization # organization
  IN  Outcome(ok, {event},
              [k \in {event} |-> [world[event] EXCEPT !.status = p.decision,
                                                      !.reviewedBy = organization]])

DocumentRecord(p, organization) ==
  [recordType |-> "DOCUMENT_HASH", documentId |-> p.documentId, eventId |-> p.eventId,
   assetId |-> p.assetId, sha256Hash |-> p.sha256Hash, organization |-> organization]

(* What a registration leads to if it is accepted under the condition ok. *)
Registration(p, organization, ok) ==
  LET event == <<"event", p.eventId>>
      hash  == <<"documentHash", p.sha256Hash>>
  IN  Outcome(ok, {event, hash},
              [k \in {event, hash, <<"document", p.documentId>>} |->
                 IF k = event THEN [world[event] EXCEPT !.documentHash = p.sha256Hash]
                              ELSE DocumentRecord(p, organization)])

WrongRegisterAgain(p, organization) ==  \* the hash is not looked up
  LET event == <<"event", p.eventId>>
  IN  Registration(p, organization, Exists(event) /\ world[event].assetId = p.assetId)

WrongRegisterAnywhere(p, organization) ==  \* the event is not compared with the asset
  Registration(p, organization,
               Exists(<<"event", p.eventId>>) /\ ~Exists(<<"documentHash", p.sha256Hash>>))

RegisterDocument(p, organization) ==
  LET event == <<"event", p.eventId>>
  IN  Registration(p, organization,
                   /\ Exists(event)
                   /\ world[event].assetId = p.assetId
                   /\ ~Exists(<<"documentHash", p.sha256Hash>>))

DecommissionAsset(p) ==
  LET asset == <<"asset", p.assetId>>
      ok == /\ Exists(asset)
            /\ world[asset].status # "DECOMMISSIONED"
  IN  Outcome(ok, {asset},
              [k \in {asset} |-> [world[asset] EXCEPT !.status = "DECOMMISSIONED"]])

(* The Merkle index is written without being read. *)
BatchRegistration(p, ok) ==
  LET asset == <<"asset", p.assetId>>
      batch == <<"telemetryBatch", p.batchId>>
  IN  Outcome(ok, {asset, batch},
              [k \in {batch, <<"telemetryMerkle", p.merkleRoot>>} |->
                 [recordType |-> "TELEMETRY_BATCH", batchId |-> p.batchId,
                  assetId |-> p.assetId, merkleRoot |-> p.merkleRoot]])

WrongRegisterTelemetryBatch(p) ==  \* a batch is registered again
  BatchRegistration(p, Exists(<<"asset", p.assetId>>))

RegisterTelemetryBatch(p) ==
  BatchRegistration(p, /\ Exists(<<"asset", p.assetId>>)
                       /\ ~Exists(<<"telemetryBatch", p.batchId>>))

Simulate(r) ==
  CASE r.action = "REGISTER_ASSET"           -> CreateAsset(r.payload)
    [] r.action = "PROPOSE_EVENT"            -> ProposeEvent(r.payload, r.organization)
    [] r.action = "REVIEW_EVENT"             -> ReviewEvent(r.payload, r.organization)
    [] r.action = "REGISTER_DOCUMENT"        -> RegisterDocument(r.payload, r.organization)
    [] r.action = "DECOMMISSION_ASSET"       -> DecommissionAsset(r.payload)
    [] r.action = "REGISTER_TELEMETRY_BATCH" -> RegisterTelemetryBatch(r.payload)

Authorized(r) ==
  CASE r.action = "PROPOSE_EVENT"     -> r.organization = "ContractorOrg"
    [] r.action = "REGISTER_DOCUMENT" -> r.organization \in Orgs
    [] OTHER                          -> r.organization = "OperatorOrg"

-----------------------------------------------------------------------------
(* The idempotent wrapper: an applied operation is not simulated again, its *)
(* repetition succeeds only with the same payload and writes nothing.       *)
Applied(o)  == operations[o] # None
Repeats(r)  == Applied(r.operationId) /\ operations[r.operationId].digest = r.payload
Endorsable(r) ==
  /\ Authorized(r)
  /\ Repeats(r) \/ (~Applied(r.operationId) /\ Simulate(r).ok)

Endorsed(r, id) ==
  [id |-> id, request |-> r, seen |-> operations[r.operationId],
   reads  |-> IF Repeats(r) THEN NoKeys ELSE Simulate(r).reads,
   writes |-> IF Repeats(r) THEN NoKeys ELSE Simulate(r).writes]

Endorse(r, id) ==
  /\ Endorsable(r)
  /\ inflight' = inflight \cup {Endorsed(r, id)}
  /\ UNCHANGED <<operations, world>>

(* Fabric's validation of a transaction in a block: every version it read,  *)
(* the idempotency record among them, is still the current one.  No key     *)
(* ever returns to an earlier value, so values stand for versions.          *)
Valid(tx) ==
  /\ operations[tx.request.operationId] = tx.seen
  /\ \A k \in DOMAIN tx.reads : world[k] = tx.reads[k]

WrongApply(tx) ==  \* a repetition writes the idempotency record again
  /\ operations' = [operations EXCEPT ![tx.request.operationId] =
                      [digest |-> tx.request.payload, txId |-> tx.id]]
  /\ world' = [k \in Keys |-> IF k \in DOMAIN tx.writes THEN tx.writes[k] ELSE world[k]]

(* A valid transaction writes what its function wrote and, unless the        *)
(* operation was applied before, its idempotency record.                     *)
Apply(tx) ==
  /\ operations' = IF tx.seen = None
                   THEN [operations EXCEPT ![tx.request.operationId] =
                           [digest |-> tx.request.payload, txId |-> tx.id]]
                   ELSE operations
  /\ world' = [k \in Keys |-> IF k \in DOMAIN tx.writes THEN tx.writes[k] ELSE world[k]]

CommitValid(tx) ==
  /\ tx \in inflight
  /\ Valid(tx)
  /\ Apply(tx)
  /\ inflight' = inflight \ {tx}

CommitInvalid(tx) ==
  /\ tx \in inflight
  /\ ~Valid(tx)
  /\ inflight' = inflight \ {tx}
  /\ UNCHANGED <<operations, world>>

(* The submission to the orderer failed, or its envelope was dropped. *)
Lose(tx) ==
  /\ tx \in inflight
  /\ inflight' = inflight \ {tx}
  /\ UNCHANGED <<operations, world>>

(* Endorsement and block in one step, for modules about other interleavings  *)
(* than those of the channel.                                                *)
Deliver(r, id) ==
  /\ Endorsable(r)
  /\ Apply(Endorsed(r, id))
  /\ UNCHANGED inflight
=============================================================================

------------------------- MODULE LedgerChannel_proofs -------------------------
(* What the contract guarantees to any number of clients, with any number of *)
(* transactions waiting for a block.                                         *)
EXTENDS LedgerChannel, FieldLedgerContract_proofs

LEMMA FreshTxIdIsTxId ==
  ASSUME TxIds \ UsedTxIds # {}
  PROVE  FreshTxId \in TxIds /\ FreshTxId \notin UsedTxIds
BY DEF FreshTxId

(* A step endorses a request under a fresh id or takes a transaction off the *)
(* channel.                                                                  *)
LEMMA Steps ==
  ASSUME Next
  PROVE  \/ \E r \in Requests, id \in TxIds : Endorse(r, id)
         \/ \E tx \in inflight : CommitValid(tx)
         \/ \E tx \in inflight : /\ inflight' = inflight \ {tx}
                                 /\ UNCHANGED <<operations, world>>
<1>1. CASE \E r \in ClientRequests : Submit(r)
  BY <1>1, FreshTxIdIsTxId, ClientAssumption DEF Submit
<1>2. CASE \E tx \in inflight : CommitValid(tx) \/ CommitInvalid(tx) \/ Lose(tx)
  BY <1>2 DEF CommitInvalid, Lose
<1>. QED  BY <1>1, <1>2 DEF Next

LEMMA NextKeepsType ==
  ASSUME TypeOK, [Next]_contractVars
  PROVE  TypeOK'
<1>. USE DEF TypeOK
<1>1. ASSUME NEW r \in Requests, NEW id \in TxIds, Endorse(r, id)
      PROVE  ContractTypeOK'
  BY <1>1, EndorseKeepsType
<1>2. ASSUME NEW tx \in inflight, CommitValid(tx)
      PROVE  ContractTypeOK'
  BY <1>2, CommitValidKeepsType
<1>3. ASSUME NEW tx \in inflight, inflight' = inflight \ {tx},
             UNCHANGED <<operations, world>>
      PROVE  ContractTypeOK'
  BY <1>3, RemovalKeepsType
<1>4. CASE UNCHANGED contractVars
  BY <1>4, IdleKeepsType
<1>. QED  BY <1>1, <1>2, <1>3, <1>4, Steps

(* Every record the contract ever writes has the shape its readers expect.   *)
THEOREM TypeCorrect == Spec => []TypeOK
<1>1. Init => TypeOK
  BY InitKeepsType DEF Init, TypeOK
<1>2. TypeOK /\ [Next]_contractVars => TypeOK'
  BY NextKeepsType
<1>. QED  BY <1>1, <1>2, PTL DEF Spec

-----------------------------------------------------------------------------
(* An operation is applied once: a transaction that was endorsed before the  *)
(* operation was applied is not valid any more, and one that was endorsed    *)
(* afterwards writes no idempotency record.                                  *)
THEOREM AppliedOnceHolds == Spec => AppliedOnce
<1>1. TypeOK /\ [Next]_contractVars =>
        [\A o \in OperationIds : Applied(o) => operations'[o] = operations[o]]_contractVars
  <2>1. SUFFICES ASSUME TypeOK, [Next]_contractVars,
                        NEW o \in OperationIds, Applied(o)
                 PROVE  operations'[o] = operations[o]
    OBVIOUS
  <2>2. ASSUME NEW tx \in inflight, CommitValid(tx)
        PROVE  operations'[o] = operations[o]
    BY <2>1, <2>2 DEF CommitValid, Apply, Valid, Applied, TypeOK, ContractTypeOK
  <2>. QED  BY <2>1, <2>2, Steps DEF Endorse, contractVars
<1>. QED  BY <1>1, TypeCorrect, PTL DEF Spec, AppliedOnce

-----------------------------------------------------------------------------
(* A transaction that writes a hash has read that the hash was free. *)
HashWritesAreGuarded(tx) ==
  \A h \in Hashes :
    <<"documentHash", h>> \in DOMAIN tx.writes =>
      /\ <<"documentHash", h>> \in DOMAIN tx.reads
      /\ tx.reads[<<"documentHash", h>>] = None

-----------------------------------------------------------------------------
(* A write of a record is guarded by what the transaction read.  What is     *)
(* said here of tx.reads and tx.writes is also said of the outcome of a      *)
(* simulation.                                                               *)
Proposes(tx, e) ==
  LET new == tx.writes[<<"event", e>>] IN
  /\ tx.reads[<<"event", e>>] = None
  /\ new.status = "PROPOSED" /\ new.documentHash = None
  /\ <<"asset", new.assetId>> \in DOMAIN tx.reads
  /\ tx.reads[<<"asset", new.assetId>>] # None

Reviews(tx, e) ==
  LET old == tx.reads[<<"event", e>>]
      new == tx.writes[<<"event", e>>]
  IN  /\ old # None
      /\ old.status = "PROPOSED" /\ new.status \in Decisions
      /\ new.reviewedBy \in Orgs \ {new.organization}
      /\ new.assetId = old.assetId /\ new.documentHash = old.documentHash

Attaches(tx, e) ==
  LET old == tx.reads[<<"event", e>>]
      new == tx.writes[<<"event", e>>]
      hash == <<"documentHash", new.documentHash>>
  IN  /\ old # None
      /\ new.status = old.status /\ new.reviewedBy = old.reviewedBy
      /\ new.organization = old.organization /\ new.assetId = old.assetId
      /\ hash \in DOMAIN tx.writes
      /\ tx.writes[hash].eventId = e /\ tx.writes[hash].assetId = new.assetId

AssetWritesAreGuarded(tx) ==
  \A a \in AssetIds :
    <<"asset", a>> \in DOMAIN tx.writes =>
      /\ <<"asset", a>> \in DOMAIN tx.reads
      /\ tx.reads[<<"asset", a>>] # None =>
           tx.reads[<<"asset", a>>].status # "DECOMMISSIONED"

EventWritesAreGuarded(tx) ==
  \A e \in EventIds :
    <<"event", e>> \in DOMAIN tx.writes =>
      /\ <<"event", e>> \in DOMAIN tx.reads
      /\ Proposes(tx, e) \/ Reviews(tx, e) \/ Attaches(tx, e)

BatchWritesAreGuarded(tx) ==
  /\ \A b \in BatchIds :
       <<"telemetryBatch", b>> \in DOMAIN tx.writes =>
         /\ <<"telemetryBatch", b>> \in DOMAIN tx.reads
         /\ tx.reads[<<"telemetryBatch", b>>] = None
  /\ \A root \in Roots :
       <<"telemetryMerkle", root>> \in DOMAIN tx.writes =>
         LET batch == tx.writes[<<"telemetryMerkle", root>>] IN
         /\ batch.merkleRoot = root
         /\ <<"telemetryBatch", batch.batchId>> \in DOMAIN tx.writes
         /\ tx.writes[<<"telemetryBatch", batch.batchId>>] = batch

Guarded(tx) ==
  /\ AssetWritesAreGuarded(tx)
  /\ EventWritesAreGuarded(tx)
  /\ HashWritesAreGuarded(tx)
  /\ BatchWritesAreGuarded(tx)

LEMMA CreateAssetIsGuarded ==
  ASSUME NEW p \in [assetId : AssetIds], CreateAsset(p).ok
  PROVE  Guarded(CreateAsset(p))
<1> DEFINE out == CreateAsset(p)
           asset == <<"asset", p.assetId>>
<1>1. /\ DOMAIN out.reads = {asset} /\ DOMAIN out.writes = {asset}
      /\ out.reads[asset] = None
  BY DEF CreateAsset, Outcome, Exists
<1>. SUFFICES Guarded(out)
  OBVIOUS
<1>. HIDE DEF out
<1>. QED  BY <1>1 DEF Guarded, AssetWritesAreGuarded, EventWritesAreGuarded,
                      HashWritesAreGuarded, BatchWritesAreGuarded

LEMMA ProposeEventIsGuarded ==
  ASSUME NEW p \in [eventId : EventIds, assetId : AssetIds], NEW organization \in Orgs,
         ProposeEvent(p, organization).ok
  PROVE  Guarded(ProposeEvent(p, organization))
<1> DEFINE out == ProposeEvent(p, organization)
           asset == <<"asset", p.assetId>>
           event == <<"event", p.eventId>>
<1>1. /\ DOMAIN out.reads = {asset, event} /\ DOMAIN out.writes = {event}
      /\ out.reads[event] = None /\ out.reads[asset] # None
      /\ out.writes[event].status = "PROPOSED"
      /\ out.writes[event].documentHash = None
      /\ out.writes[event].assetId = p.assetId
  BY DEF ProposeEvent, Outcome, Exists
<1>. SUFFICES Guarded(out)
  OBVIOUS
<1>. HIDE DEF out
<1>2. \A e \in EventIds : <<"event", e>> = event => e = p.eventId
  OBVIOUS
<1>3. Proposes(out, p.eventId)
  BY <1>1 DEF Proposes
<1>4. EventWritesAreGuarded(out)
  BY <1>1, <1>2, <1>3 DEF EventWritesAreGuarded
<1>. QED  BY <1>1, <1>4 DEF Guarded, AssetWritesAreGuarded, HashWritesAreGuarded,
                            BatchWritesAreGuarded

LEMMA ReviewEventIsGuarded ==
  ASSUME ContractTypeOK, NEW p \in [eventId : EventIds, decision : Decisions],
         NEW organization \in Orgs, ReviewEvent(p, organization).ok
  PROVE  Guarded(ReviewEvent(p, organization))
<1> DEFINE out == ReviewEvent(p, organization)
           event == <<"event", p.eventId>>
<1>1. world[event] \in EventRecords
  BY EventKey DEF ContractTypeOK, ReviewEvent, Outcome, Exists
<1>2. /\ DOMAIN out.reads = {event} /\ DOMAIN out.writes = {event}
      /\ out.reads[event] = world[event]
      /\ out.writes[event] = [world[event] EXCEPT !.status = p.decision,
                                                  !.reviewedBy = organization]
      /\ world[event] # None
      /\ world[event].status = "PROPOSED" /\ world[event].organization # organization
  BY DEF ReviewEvent, Outcome, Exists
<1>. SUFFICES Guarded(out)
  OBVIOUS
<1>. HIDE DEF out
<1>3. \A e \in EventIds : <<"event", e>> = event => e = p.eventId
  OBVIOUS
<1>4. Reviews(out, p.eventId)
  BY <1>1, <1>2 DEF Reviews, EventRecords
<1>5. EventWritesAreGuarded(out)
  BY <1>2, <1>3, <1>4 DEF EventWritesAreGuarded
<1>. QED  BY <1>2, <1>5 DEF Guarded, AssetWritesAreGuarded, HashWritesAreGuarded,
                            BatchWritesAreGuarded

LEMMA RegisterDocumentIsGuarded ==
  ASSUME ContractTypeOK,
         NEW p \in [documentId : DocumentIds, eventId : EventIds,
                    assetId : AssetIds, sha256Hash : Hashes],
         NEW organization \in Orgs, RegisterDocument(p, organization).ok
  PROVE  Guarded(RegisterDocument(p, organization))
<1> DEFINE out == RegisterDocument(p, organization)
           event == <<"event", p.eventId>>
           hash  == <<"documentHash", p.sha256Hash>>
           document == <<"document", p.documentId>>
<1>1. world[event] \in EventRecords
  BY EventKey DEF ContractTypeOK, RegisterDocument, Registration, Outcome, Exists
<1>2. /\ DOMAIN out.reads = {event, hash} /\ DOMAIN out.writes = {event, hash, document}
      /\ out.reads[event] = world[event] /\ out.reads[hash] = None
      /\ out.writes[event] = [world[event] EXCEPT !.documentHash = p.sha256Hash]
      /\ out.writes[hash] = DocumentRecord(p, organization)
      /\ world[event] # None /\ world[event].assetId = p.assetId
  BY DEF RegisterDocument, Registration, Outcome, Exists
<1>. SUFFICES Guarded(out)
  OBVIOUS
<1>. HIDE DEF out
<1>3. \A e \in EventIds : <<"event", e>> \in {event, hash, document} => e = p.eventId
  OBVIOUS
<1>4. Attaches(out, p.eventId)
  BY <1>1, <1>2 DEF Attaches, EventRecords, DocumentRecord
<1>5. EventWritesAreGuarded(out)
  BY <1>2, <1>3, <1>4 DEF EventWritesAreGuarded
<1>6. HashWritesAreGuarded(out)
  <2>1. \A h \in Hashes : <<"documentHash", h>> \in {event, hash, document} =>
                            <<"documentHash", h>> = hash
    OBVIOUS
  <2>. QED  BY <1>2, <2>1 DEF HashWritesAreGuarded
<1>. QED  BY <1>2, <1>5, <1>6 DEF Guarded, AssetWritesAreGuarded, BatchWritesAreGuarded

LEMMA DecommissionAssetIsGuarded ==
  ASSUME NEW p \in [assetId : AssetIds, decommissionedBy : {"OperatorOrg"}],
         DecommissionAsset(p).ok
  PROVE  Guarded(DecommissionAsset(p))
<1> DEFINE out == DecommissionAsset(p)
           asset == <<"asset", p.assetId>>
<1>1. /\ DOMAIN out.reads = {asset} /\ DOMAIN out.writes = {asset}
      /\ out.reads[asset] = world[asset] /\ world[asset].status # "DECOMMISSIONED"
  BY DEF DecommissionAsset, Outcome, Exists
<1>. SUFFICES Guarded(out)
  OBVIOUS
<1>. HIDE DEF out
<1>. QED  BY <1>1 DEF Guarded, AssetWritesAreGuarded, EventWritesAreGuarded,
                      HashWritesAreGuarded, BatchWritesAreGuarded

LEMMA RegisterTelemetryBatchIsGuarded ==
  ASSUME NEW p \in [batchId : BatchIds, assetId : AssetIds, merkleRoot : Roots],
         RegisterTelemetryBatch(p).ok
  PROVE  Guarded(RegisterTelemetryBatch(p))
<1> DEFINE out == RegisterTelemetryBatch(p)
           asset == <<"asset", p.assetId>>
           batch == <<"telemetryBatch", p.batchId>>
           merkle == <<"telemetryMerkle", p.merkleRoot>>
           record == [recordType |-> "TELEMETRY_BATCH", batchId |-> p.batchId,
                      assetId |-> p.assetId, merkleRoot |-> p.merkleRoot]
<1>1. /\ DOMAIN out.reads = {asset, batch} /\ DOMAIN out.writes = {batch, merkle}
      /\ out.reads[batch] = None
      /\ out.writes[batch] = record /\ out.writes[merkle] = record
  BY DEF RegisterTelemetryBatch, BatchRegistration, Outcome, Exists
<1>2. record.batchId = p.batchId /\ record.merkleRoot = p.merkleRoot
  OBVIOUS
<1>. SUFFICES Guarded(out)
  OBVIOUS
<1>. HIDE DEF out, record
<1>3. /\ \A b \in BatchIds : <<"telemetryBatch", b>> \in {batch, merkle} =>
                               <<"telemetryBatch", b>> = batch
      /\ \A root \in Roots : <<"telemetryMerkle", root>> \in {batch, merkle} =>
                               root = p.merkleRoot
  OBVIOUS
<1>4. BatchWritesAreGuarded(out)
  BY <1>1, <1>2, <1>3 DEF BatchWritesAreGuarded
<1>. QED  BY <1>1, <1>4 DEF Guarded, AssetWritesAreGuarded, EventWritesAreGuarded,
                            HashWritesAreGuarded

LEMMA SimulationIsGuarded ==
  ASSUME ContractTypeOK, NEW r \in Requests, Simulate(r).ok
  PROVE  Guarded(Simulate(r))
<1>1. r.organization \in Orgs /\ r.action \in Actions /\ r.payload \in PayloadsOf[r.action]
  BY RequestShape
<1>2. CASE r.action = "REGISTER_ASSET"
  BY <1>1, <1>2, RegisterAssetPayload, CreateAssetIsGuarded DEF Simulate
<1>3. CASE r.action = "PROPOSE_EVENT"
  BY <1>1, <1>3, ProposeEventPayload, ProposeEventIsGuarded DEF Simulate
<1>4. CASE r.action = "REVIEW_EVENT"
  BY <1>1, <1>4, ReviewEventPayload, ReviewEventIsGuarded DEF Simulate
<1>5. CASE r.action = "REGISTER_DOCUMENT"
  BY <1>1, <1>5, RegisterDocumentPayload, RegisterDocumentIsGuarded DEF Simulate
<1>6. CASE r.action = "DECOMMISSION_ASSET"
  BY <1>1, <1>6, DecommissionAssetPayload, DecommissionAssetIsGuarded DEF Simulate
<1>7. CASE r.action = "REGISTER_TELEMETRY_BATCH"
  BY <1>1, <1>7, RegisterTelemetryBatchPayload, RegisterTelemetryBatchIsGuarded
     DEF Simulate
<1>. QED  BY <1>1, <1>2, <1>3, <1>4, <1>5, <1>6, <1>7, ActionNames

LEMMA EndorsedIsGuarded ==
  ASSUME TypeOK, NEW r \in Requests, NEW id \in TxIds, Endorsable(r)
  PROVE  Guarded(Endorsed(r, id))
<1> DEFINE tx == Endorsed(r, id)
<1>1. CASE Repeats(r)
  <2>1. DOMAIN tx.writes = {}
    BY <1>1 DEF Endorsed, NoKeys
  <2>. SUFFICES Guarded(tx)
    OBVIOUS
  <2>. HIDE DEF tx
  <2>. QED  BY <2>1 DEF Guarded, AssetWritesAreGuarded, EventWritesAreGuarded,
                        HashWritesAreGuarded, BatchWritesAreGuarded
<1>2. CASE ~Repeats(r)
  <2>1. Guarded(Simulate(r))
    BY <1>2, SimulationIsGuarded DEF Endorsable, TypeOK
  <2>2. tx.reads = Simulate(r).reads /\ tx.writes = Simulate(r).writes
    BY <1>2 DEF Endorsed
  <2>. SUFFICES Guarded(tx)
    OBVIOUS
  <2>. HIDE DEF tx
  <2>. QED  BY <2>1, <2>2 DEF Guarded, AssetWritesAreGuarded, EventWritesAreGuarded,
                 HashWritesAreGuarded, BatchWritesAreGuarded, Proposes, Reviews, Attaches
<1>. QED  BY <1>1, <1>2

GuardInv == \A tx \in inflight : Guarded(tx)

LEMMA GuardInvHolds == Spec => []GuardInv
<1>1. Init => GuardInv
  BY DEF Init, ContractInit, GuardInv
<1>2. ASSUME TypeOK, GuardInv, [Next]_contractVars
      PROVE  GuardInv'
  <2>1. \A tx : Guarded(tx) => Guarded(tx)'
    BY DEF Guarded, AssetWritesAreGuarded, EventWritesAreGuarded,
           HashWritesAreGuarded, BatchWritesAreGuarded, Proposes, Reviews, Attaches
  <2>2. ASSUME NEW r \in Requests, NEW id \in TxIds, Endorse(r, id)
        PROVE  GuardInv'
    BY <1>2, <2>1, <2>2, EndorsedIsGuarded DEF Endorse, GuardInv
  <2>3. CASE inflight' \subseteq inflight
    BY <1>2, <2>1, <2>3 DEF GuardInv
  <2>. QED  BY <1>2, <2>2, <2>3, Steps DEF CommitValid, Apply, contractVars
<1>. QED  BY <1>1, <1>2, TypeCorrect, PTL DEF Spec

-----------------------------------------------------------------------------
(* A registered hash keeps its document, event and asset: of two documents   *)
(* with the same bytes the second is refused, even when both were endorsed   *)
(* while the hash was free.                                                  *)
THEOREM HashKeepsItsDocumentHolds == Spec => HashKeepsItsDocument
<1>1. TypeOK /\ GuardInv /\ [Next]_contractVars =>
        [\A h \in Hashes : Exists(<<"documentHash", h>>) =>
           world'[<<"documentHash", h>>] = world[<<"documentHash", h>>]]_contractVars
  <2>1. SUFFICES ASSUME TypeOK, GuardInv, [Next]_contractVars,
                        NEW h \in Hashes, Exists(<<"documentHash", h>>)
                 PROVE  world'[<<"documentHash", h>>] = world[<<"documentHash", h>>]
    OBVIOUS
  <2>2. <<"documentHash", h>> \in Keys
    BY HashKey
  <2>3. ASSUME NEW tx \in inflight, CommitValid(tx)
        PROVE  <<"documentHash", h>> \notin DOMAIN tx.writes
    BY <2>1, <2>3 DEF CommitValid, Apply, Valid, Exists, GuardInv, Guarded,
                       HashWritesAreGuarded
  <2>4. ASSUME NEW tx \in inflight, CommitValid(tx)
        PROVE  world'[<<"documentHash", h>>] = world[<<"documentHash", h>>]
    BY <2>2, <2>3, <2>4 DEF CommitValid, Apply
  <2>. QED  BY <2>1, <2>4, Steps DEF Endorse, contractVars
<1>. QED  BY <1>1, TypeCorrect, GuardInvHolds, PTL DEF Spec, HashKeepsItsDocument
-----------------------------------------------------------------------------
(* What a valid transaction leaves at a key: what it wrote, or what was      *)
(* there; and what it read is what was there.                                *)
LEMMA Committed ==
  ASSUME TypeOK, GuardInv, NEW tx \in inflight, CommitValid(tx)
  PROVE  /\ Guarded(tx)
         /\ \A k \in Keys : world'[k] = IF k \in DOMAIN tx.writes THEN tx.writes[k]
                                                                  ELSE world[k]
         /\ \A k \in DOMAIN tx.reads : tx.reads[k] = world[k]
         /\ \A k \in DOMAIN tx.writes : k \in Keys /\ tx.writes[k] # None
<1>1. TransactionOK(tx)
  BY DEF TypeOK, ContractTypeOK
<1>2. ASSUME NEW k \in Keys
      PROVE  None \notin RecordsAt(k)
  BY <1>2, NoneIsNoRecord DEF RecordsAt, RecordsOf, Keys
<1>. QED  BY <1>1, <1>2 DEF CommitValid, Apply, Valid, GuardInv, TransactionOK

(* What the ledger holds stays there: nothing is removed, a decommissioned   *)
(* asset stays so, and an event keeps its asset and organization for ever    *)
(* and its decision once it is taken.                                        *)
EventKept(e) ==
  LET event == world[<<"event", e>>] IN
  event # None =>
    /\ world'[<<"event", e>>] # None
    /\ event.status \in Decisions =>
         /\ world'[<<"event", e>>].status = event.status
         /\ world'[<<"event", e>>].reviewedBy = event.reviewedBy

AssetKept(a) ==
  LET asset == world[<<"asset", a>>] IN
  asset # None =>
    /\ world'[<<"asset", a>>] # None
    /\ asset.status = "DECOMMISSIONED" => world'[<<"asset", a>>] = asset

LEMMA NothingIsLost ==
  ASSUME TypeOK, GuardInv, [Next]_contractVars
  PROVE  /\ \A k \in Keys : world[k] # None => world'[k] # None
         /\ \A e \in EventIds : EventKept(e)
         /\ \A a \in AssetIds : AssetKept(a)
<1>1. ASSUME NEW tx \in inflight, CommitValid(tx)
      PROVE  /\ \A k \in Keys : world[k] # None => world'[k] # None
             /\ \A e \in EventIds : EventKept(e)
             /\ \A a \in AssetIds : AssetKept(a)
  <2>1. \A k \in Keys : world[k] # None => world'[k] # None
    BY <1>1, Committed
  <2>2. ASSUME NEW e \in EventIds
        PROVE  EventKept(e)
    <3>1. <<"event", e>> \in Keys
      BY EventKey
    <3>2. CASE <<"event", e>> \notin DOMAIN tx.writes
      BY <1>1, <3>1, <3>2, Committed DEF EventKept
    <3>3. CASE <<"event", e>> \in DOMAIN tx.writes
      <4>1. /\ world'[<<"event", e>>] = tx.writes[<<"event", e>>]
            /\ tx.reads[<<"event", e>>] = world[<<"event", e>>]
            /\ Proposes(tx, e) \/ Reviews(tx, e) \/ Attaches(tx, e)
        BY <1>1, <3>1, <3>3, Committed DEF Guarded, EventWritesAreGuarded
      <4>2. "PROPOSED" \notin Decisions
        BY DEF Decisions
      <4>. QED  BY <2>1, <3>1, <4>1, <4>2 DEF EventKept, Proposes, Reviews, Attaches
    <3>. QED  BY <3>2, <3>3
  <2>3. ASSUME NEW a \in AssetIds
        PROVE  AssetKept(a)
    <3>1. <<"asset", a>> \in Keys
      BY AssetKey
    <3>. QED  BY <1>1, <2>1, <3>1, Committed
              DEF AssetKept, Guarded, AssetWritesAreGuarded
  <2>. QED  BY <2>1, <2>2, <2>3
<1>2. CASE UNCHANGED world
  BY <1>2 DEF EventKept, AssetKept
<1>. QED  BY <1>1, <1>2, Steps DEF Endorse, contractVars

(* A decision of the ledger is final: of two reviews endorsed side by side   *)
(* one is refused, and a registration keeps the decision it read.            *)
THEOREM ReviewIsFinalHolds == Spec => ReviewIsFinal
<1>1. TypeOK /\ GuardInv /\ [Next]_contractVars =>
        [\A e \in EventIds :
           LET event == world[<<"event", e>>] IN
           (event # None /\ event.status \in Decisions) =>
             /\ world'[<<"event", e>>].status = event.status
             /\ world'[<<"event", e>>].reviewedBy = event.reviewedBy]_contractVars
  BY NothingIsLost DEF EventKept
<1>. QED  BY <1>1, TypeCorrect, GuardInvHolds, PTL DEF Spec, ReviewIsFinal

-----------------------------------------------------------------------------
(* What an event shows: evidence of its own, and a decision of another       *)
(* organization about an asset that is in the ledger.                        *)
EventIsSound(e) ==
  LET event == world[<<"event", e>>] IN
  event # None =>
    /\ Exists(<<"asset", event.assetId>>)
    /\ event.status \in Decisions => event.reviewedBy \in Orgs \ {event.organization}
    /\ event.documentHash # None =>
         LET document == world[<<"documentHash", event.documentHash>>] IN
         /\ document # None
         /\ document.eventId = e
         /\ document.assetId = event.assetId

EventsAreSound == \A e \in EventIds : EventIsSound(e)

LEMMA CommitKeepsEvents ==
  ASSUME TypeOK, GuardInv, EventsAreSound, NEW tx \in inflight, CommitValid(tx)
  PROVE  EventsAreSound'
<1>1. SUFFICES ASSUME NEW e \in EventIds, world'[<<"event", e>>] # None
               PROVE  EventIsSound(e)'
  BY DEF EventsAreSound, EventIsSound
<1> DEFINE k == <<"event", e>>
           asset == <<"asset", world'[k].assetId>>
           hash == <<"documentHash", world'[k].documentHash>>
<1>2. k \in Keys
  BY EventKey
<1>3. world'[k] \in EventRecords
  <2>1. TypeOK'
    BY CommitValidKeepsType DEF TypeOK
  <2>2. RecordsAt(k)' = EventRecords
    BY EventKey
  <2>. QED  BY <1>1, <1>2, <2>1, <2>2 DEF TypeOK, ContractTypeOK
<1>4. asset \in Keys
  BY <1>3, AssetKey DEF EventRecords
<1>5. world'[k].documentHash # None => hash \in Keys
  BY <1>3, HashKey DEF EventRecords
<1>6. EventIsSound(e)
  BY DEF EventsAreSound
<1>7. world[asset] # None => world'[asset] # None
  BY <1>4, Committed
<1>8. CASE k \notin DOMAIN tx.writes
  <2>1. world'[k] = world[k]
    BY <1>2, <1>8, Committed
  <2>2. world[asset] # None
    BY <1>1, <1>6, <2>1 DEF EventIsSound, Exists
  <2>3. world'[k].documentHash # None => world'[hash] = world[hash]
    BY <1>1, <1>3, <1>5, <1>6, <2>1, Committed
       DEF EventIsSound, Guarded, HashWritesAreGuarded, EventRecords
  <2>. QED  BY <1>1, <1>6, <1>7, <2>1, <2>2, <2>3 DEF EventIsSound, Exists
<1>9. CASE k \in DOMAIN tx.writes
  <2>1. /\ world'[k] = tx.writes[k] /\ tx.reads[k] = world[k]
        /\ Proposes(tx, e) \/ Reviews(tx, e) \/ Attaches(tx, e)
    BY <1>2, <1>9, Committed DEF Guarded, EventWritesAreGuarded
  <2>2. "PROPOSED" \notin Decisions
    BY DEF Decisions
  <2>3. CASE Proposes(tx, e)
    <3>1. world[asset] # None
      BY <2>1, <2>3, Committed DEF Proposes
    <3>. QED  BY <1>7, <2>1, <2>2, <2>3, <3>1 DEF Proposes, EventIsSound, Exists
  <2>4. CASE Reviews(tx, e)
    <3>1. /\ world[k] # None /\ world'[k].assetId = world[k].assetId
          /\ world'[k].documentHash = world[k].documentHash
          /\ world'[k].reviewedBy \in Orgs \ {world'[k].organization}
      BY <2>1, <2>4 DEF Reviews
    <3>2. world[asset] # None
      BY <1>6, <3>1 DEF EventIsSound, Exists
    <3>3. world'[k].documentHash # None => world'[hash] = world[hash]
      BY <1>3, <1>5, <1>6, <3>1, Committed
         DEF EventIsSound, Guarded, HashWritesAreGuarded, EventRecords
    <3>. QED  BY <1>6, <1>7, <3>1, <3>2, <3>3 DEF EventIsSound, Exists
  <2>5. CASE Attaches(tx, e)
    <3>1. /\ world[k] # None /\ world'[k].assetId = world[k].assetId
          /\ world'[k].status = world[k].status
          /\ world'[k].reviewedBy = world[k].reviewedBy
          /\ world'[k].organization = world[k].organization
          /\ hash \in DOMAIN tx.writes
          /\ tx.writes[hash].eventId = e /\ tx.writes[hash].assetId = world'[k].assetId
      BY <2>1, <2>5 DEF Attaches
    <3>2. world[asset] # None
      BY <1>6, <3>1 DEF EventIsSound, Exists
    <3>3. world'[hash] = tx.writes[hash] /\ world'[hash] # None
      BY <3>1, Committed
    <3>. QED  BY <1>6, <1>7, <3>1, <3>2, <3>3 DEF EventIsSound, Exists
  <2>. QED  BY <2>1, <2>3, <2>4, <2>5
<1>. QED  BY <1>8, <1>9

LEMMA EventsAreSoundHolds == Spec => []EventsAreSound
<1>1. Init => EventsAreSound
  BY EventKey DEF Init, ContractInit, EventsAreSound, EventIsSound
<1>2. TypeOK /\ GuardInv /\ EventsAreSound /\ [Next]_contractVars => EventsAreSound'
  <2>1. ASSUME EventsAreSound, UNCHANGED world
        PROVE  EventsAreSound'
    BY <2>1 DEF EventsAreSound, EventIsSound, Exists
  <2>. QED  BY <2>1, CommitKeepsEvents, Steps DEF Endorse, contractVars
<1>. QED  BY <1>1, <1>2, TypeCorrect, GuardInvHolds, PTL DEF Spec

(* The hash an event shows was registered for that event and its asset.      *)
THEOREM EvidenceBelongsToEventHolds == Spec => []EvidenceBelongsToEvent
<1>1. EventsAreSound => EvidenceBelongsToEvent
  BY DEF EventsAreSound, EventIsSound, EvidenceBelongsToEvent
<1>. QED  BY <1>1, EventsAreSoundHolds, PTL

(* No organization decides about work it proposed itself.                    *)
THEOREM FourEyesHolds == Spec => []FourEyes
<1>1. EventsAreSound => FourEyes
  BY DEF EventsAreSound, EventIsSound, FourEyes
<1>. QED  BY <1>1, EventsAreSoundHolds, PTL

-----------------------------------------------------------------------------
(* The Merkle index is written without being read; it stays sound because    *)
(* the batch it names is written in the same transaction and never again.    *)
THEOREM MerkleIndexIsSoundHolds == Spec => []MerkleIndexIsSound
<1>1. Init => MerkleIndexIsSound
  BY MerkleKey DEF Init, ContractInit, MerkleIndexIsSound
<1>2. ASSUME TypeOK, GuardInv, MerkleIndexIsSound, [Next]_contractVars
      PROVE  MerkleIndexIsSound'
  <2>1. ASSUME NEW tx \in inflight, CommitValid(tx)
        PROVE  MerkleIndexIsSound'
    <3>1. SUFFICES ASSUME NEW root \in Roots,
                          world'[<<"telemetryMerkle", root>>] # None
                   PROVE  LET batch == world'[<<"telemetryMerkle", root>>] IN
                          /\ batch.merkleRoot = root
                          /\ world'[<<"telemetryBatch", batch.batchId>>] = batch
      BY DEF MerkleIndexIsSound
    <3> DEFINE merkle == <<"telemetryMerkle", root>>
               batch == <<"telemetryBatch", world'[merkle].batchId>>
    <3>2. merkle \in Keys
      BY MerkleKey
    <3>3. CASE merkle \in DOMAIN tx.writes
      <4>1. /\ world'[merkle] = tx.writes[merkle] /\ tx.writes[merkle].merkleRoot = root
            /\ batch \in DOMAIN tx.writes /\ tx.writes[batch] = tx.writes[merkle]
        <5>1. world'[merkle] = tx.writes[merkle] /\ BatchWritesAreGuarded(tx)
          BY <1>2, <2>1, <3>2, <3>3, Committed DEF Guarded
        <5>. QED  BY <3>3, <5>1 DEF BatchWritesAreGuarded
      <4>2. world'[batch] = tx.writes[batch]
        BY <1>2, <2>1, <4>1, Committed
      <4>. QED  BY <4>1, <4>2
    <3>4. CASE merkle \notin DOMAIN tx.writes
      <4>1. world'[merkle] = world[merkle]
        BY <1>2, <2>1, <3>2, <3>4, Committed
      <4>2. /\ world[merkle].merkleRoot = root
            /\ world[batch] = world[merkle] /\ world[merkle] # None
        BY <1>2, <3>1, <4>1 DEF MerkleIndexIsSound
      <4>3. world[merkle].batchId \in BatchIds
        <5>1. world[merkle] \in BatchRecords
          BY <1>2, <3>2, <4>2, MerkleKey DEF TypeOK, ContractTypeOK
        <5>. QED  BY <5>1 DEF BatchRecords
      <4>4. batch \in Keys /\ batch \notin DOMAIN tx.writes
        BY <2>1, <1>2, <4>1, <4>2, <4>3, BatchKey, Committed
           DEF Guarded, BatchWritesAreGuarded
      <4>5. world'[batch] = world[batch]
        BY <1>2, <2>1, <4>4, Committed
      <4>. QED  BY <4>1, <4>2, <4>5
    <3>. QED  BY <3>3, <3>4
  <2>2. CASE UNCHANGED world
    BY <1>2, <2>2 DEF MerkleIndexIsSound
  <2>. QED  BY <1>2, <2>1, <2>2, Steps DEF Endorse, contractVars
<1>. QED  BY <1>1, <1>2, TypeCorrect, GuardInvHolds, PTL DEF Spec
-----------------------------------------------------------------------------
(* Every applied operation left its mark, and one that is about to be        *)
(* applied found the mark missing when it was endorsed.                      *)
LEMMA PayloadFields ==
  ASSUME NEW p
  PROVE  /\ p \in PayloadsOf["REGISTER_ASSET"] => DOMAIN p = {"assetId"}
         /\ p \in PayloadsOf["PROPOSE_EVENT"] => DOMAIN p = {"eventId", "assetId"}
         /\ p \in PayloadsOf["REVIEW_EVENT"] => DOMAIN p = {"eventId", "decision"}
         /\ p \in PayloadsOf["REGISTER_DOCUMENT"] =>
              DOMAIN p = {"documentId", "eventId", "assetId", "sha256Hash"}
         /\ p \in PayloadsOf["DECOMMISSION_ASSET"] =>
              DOMAIN p = {"assetId", "decommissionedBy"}
         /\ p \in PayloadsOf["REGISTER_TELEMETRY_BATCH"] =>
              DOMAIN p = {"batchId", "assetId", "merkleRoot"}
BY RegisterAssetPayload, ProposeEventPayload, ReviewEventPayload,
   RegisterDocumentPayload, DecommissionAssetPayload, RegisterTelemetryBatchPayload

JobDone(p) ==
  /\ DOMAIN p = {"assetId"} => Exists(<<"asset", p.assetId>>)
  /\ DOMAIN p = {"eventId", "assetId"} => Exists(<<"event", p.eventId>>)
  /\ DOMAIN p = {"eventId", "decision"} =>
       /\ Exists(<<"event", p.eventId>>)
       /\ world[<<"event", p.eventId>>].status \in Decisions
  /\ DOMAIN p = {"documentId", "eventId", "assetId", "sha256Hash"} =>
       Exists(<<"documentHash", p.sha256Hash>>)
  /\ DOMAIN p = {"assetId", "decommissionedBy"} =>
       /\ Exists(<<"asset", p.assetId>>)
       /\ world[<<"asset", p.assetId>>].status = "DECOMMISSIONED"
  /\ DOMAIN p = {"batchId", "assetId", "merkleRoot"} =>
       Exists(<<"telemetryBatch", p.batchId>>)

Creates(tx, k) ==
  k \in DOMAIN tx.reads /\ tx.reads[k] = None /\ k \in DOMAIN tx.writes

JobIsOpen(tx, p) ==
  /\ DOMAIN p = {"assetId"} => Creates(tx, <<"asset", p.assetId>>)
  /\ DOMAIN p = {"eventId", "assetId"} => Creates(tx, <<"event", p.eventId>>)
  /\ DOMAIN p = {"eventId", "decision"} =>
       LET k == <<"event", p.eventId>> IN
       /\ k \in DOMAIN tx.reads /\ tx.reads[k].status \notin Decisions
       /\ k \in DOMAIN tx.writes /\ tx.writes[k].status \in Decisions
  /\ DOMAIN p = {"documentId", "eventId", "assetId", "sha256Hash"} =>
       Creates(tx, <<"documentHash", p.sha256Hash>>)
  /\ DOMAIN p = {"assetId", "decommissionedBy"} =>
       LET k == <<"asset", p.assetId>> IN
       /\ k \in DOMAIN tx.reads /\ tx.reads[k].status # "DECOMMISSIONED"
       /\ k \in DOMAIN tx.writes /\ tx.writes[k].status = "DECOMMISSIONED"
  /\ DOMAIN p = {"batchId", "assetId", "merkleRoot"} =>
       Creates(tx, <<"telemetryBatch", p.batchId>>)

LEMMA SimulationFindsItsJobOpen ==
  ASSUME ContractTypeOK, NEW r \in Requests, Simulate(r).ok
  PROVE  JobIsOpen(Simulate(r), r.payload)
<1> DEFINE p == r.payload
           out == Simulate(r)
<1>1. r.organization \in Orgs /\ r.action \in Actions /\ p \in PayloadsOf[r.action]
  BY RequestShape
<1>2. CASE r.action = "REGISTER_ASSET"
  <2>1. DOMAIN p = {"assetId"}
    BY <1>1, <1>2, PayloadFields
  <2>2. Creates(out, <<"asset", p.assetId>>)
    BY <1>2 DEF Simulate, CreateAsset, Outcome, Exists, Creates
  <2>. QED  BY <2>1, <2>2 DEF JobIsOpen
<1>3. CASE r.action = "PROPOSE_EVENT"
  <2>1. DOMAIN p = {"eventId", "assetId"}
    BY <1>1, <1>3, PayloadFields
  <2>2. Creates(out, <<"event", p.eventId>>)
    BY <1>3 DEF Simulate, ProposeEvent, Outcome, Exists, Creates
  <2>. QED  BY <2>1, <2>2 DEF JobIsOpen
<1>4. CASE r.action = "REVIEW_EVENT"
  <2>1. DOMAIN p = {"eventId", "decision"} /\ p \in [eventId : EventIds, decision : Decisions]
    BY <1>1, <1>4, PayloadFields, ReviewEventPayload
  <2> DEFINE k == <<"event", p.eventId>>
  <2>2. /\ k \in DOMAIN out.reads /\ out.reads[k] = world[k]
        /\ world[k] # None /\ world[k].status = "PROPOSED"
        /\ k \in DOMAIN out.writes
        /\ out.writes[k] = [world[k] EXCEPT !.status = p.decision,
                                            !.reviewedBy = r.organization]
    BY <1>4 DEF Simulate, ReviewEvent, Outcome, Exists
  <2>3. world[k] \in EventRecords
    BY <2>1, <2>2, EventKey DEF ContractTypeOK
  <2>4. out.writes[k].status = p.decision /\ "PROPOSED" \notin Decisions
    BY <2>2, <2>3 DEF EventRecords, Decisions
  <2>. QED  BY <2>1, <2>2, <2>4 DEF JobIsOpen
<1>5. CASE r.action = "REGISTER_DOCUMENT"
  <2>1. DOMAIN p = {"documentId", "eventId", "assetId", "sha256Hash"}
    BY <1>1, <1>5, PayloadFields
  <2>2. Creates(out, <<"documentHash", p.sha256Hash>>)
    BY <1>5 DEF Simulate, RegisterDocument, Registration, Outcome, Exists, Creates
  <2>. QED  BY <2>1, <2>2 DEF JobIsOpen
<1>6. CASE r.action = "DECOMMISSION_ASSET"
  <2>1. /\ DOMAIN p = {"assetId", "decommissionedBy"}
        /\ p \in [assetId : AssetIds, decommissionedBy : {"OperatorOrg"}]
    BY <1>1, <1>6, PayloadFields, DecommissionAssetPayload
  <2> DEFINE k == <<"asset", p.assetId>>
  <2>2. /\ k \in DOMAIN out.reads /\ out.reads[k] = world[k]
        /\ world[k] # None /\ world[k].status # "DECOMMISSIONED"
        /\ k \in DOMAIN out.writes
        /\ out.writes[k] = [world[k] EXCEPT !.status = "DECOMMISSIONED"]
    BY <1>6 DEF Simulate, DecommissionAsset, Outcome, Exists
  <2>3. world[k] \in AssetRecords
    BY <2>1, <2>2, AssetKey DEF ContractTypeOK
  <2>4. out.writes[k].status = "DECOMMISSIONED"
    BY <2>2, <2>3 DEF AssetRecords
  <2>. QED  BY <2>1, <2>2, <2>4 DEF JobIsOpen
<1>7. CASE r.action = "REGISTER_TELEMETRY_BATCH"
  <2>1. DOMAIN p = {"batchId", "assetId", "merkleRoot"}
    BY <1>1, <1>7, PayloadFields
  <2>2. Creates(out, <<"telemetryBatch", p.batchId>>)
    BY <1>7 DEF Simulate, RegisterTelemetryBatch, BatchRegistration, Outcome, Exists,
                Creates
  <2>. QED  BY <2>1, <2>2 DEF JobIsOpen
<1>. QED  BY <1>1, <1>2, <1>3, <1>4, <1>5, <1>6, <1>7, ActionNames

(* The jobs of applied operations are done, those of transactions that would *)
(* apply a new one were open when they were endorsed.                        *)
JobInv ==
  /\ \A o \in OperationIds : Applied(o) => JobDone(operations[o].digest)
  /\ \A tx \in inflight : tx.seen = None => JobIsOpen(tx, tx.request.payload)

LEMMA DoneStaysDone ==
  ASSUME TypeOK, GuardInv, [Next]_contractVars, NEW p \in Payloads, JobDone(p)
  PROVE  JobDone(p)'
<1>1. PICK a \in Actions : p \in PayloadsOf[a]
  BY DEF Payloads
<1>2. \A k \in Keys : world[k] # None => world'[k] # None
  BY NothingIsLost
<1>3. CASE a = "REGISTER_ASSET"
  <2>1. DOMAIN p = {"assetId"} /\ <<"asset", p.assetId>> \in Keys
    BY <1>1, <1>3, PayloadFields, RegisterAssetPayload, AssetKey
  <2>. QED  BY <1>2, <2>1 DEF JobDone, Exists
<1>4. CASE a = "PROPOSE_EVENT"
  <2>1. DOMAIN p = {"eventId", "assetId"} /\ <<"event", p.eventId>> \in Keys
    BY <1>1, <1>4, PayloadFields, ProposeEventPayload, EventKey
  <2>. QED  BY <1>2, <2>1 DEF JobDone, Exists
<1>5. CASE a = "REVIEW_EVENT"
  <2>1. DOMAIN p = {"eventId", "decision"} /\ p.eventId \in EventIds
    BY <1>1, <1>5, PayloadFields, ReviewEventPayload
  <2>2. EventKept(p.eventId)
    BY <2>1, NothingIsLost
  <2>. QED  BY <2>1, <2>2 DEF JobDone, Exists, EventKept
<1>6. CASE a = "REGISTER_DOCUMENT"
  <2>1. /\ DOMAIN p = {"documentId", "eventId", "assetId", "sha256Hash"}
        /\ <<"documentHash", p.sha256Hash>> \in Keys
    BY <1>1, <1>6, PayloadFields, RegisterDocumentPayload, HashKey
  <2>. QED  BY <1>2, <2>1 DEF JobDone, Exists
<1>7. CASE a = "DECOMMISSION_ASSET"
  <2>1. DOMAIN p = {"assetId", "decommissionedBy"} /\ p.assetId \in AssetIds
    BY <1>1, <1>7, PayloadFields, DecommissionAssetPayload
  <2>2. AssetKept(p.assetId)
    BY <2>1, NothingIsLost
  <2>. QED  BY <2>1, <2>2 DEF JobDone, Exists, AssetKept
<1>8. CASE a = "REGISTER_TELEMETRY_BATCH"
  <2>1. /\ DOMAIN p = {"batchId", "assetId", "merkleRoot"}
        /\ <<"telemetryBatch", p.batchId>> \in Keys
    BY <1>1, <1>8, PayloadFields, RegisterTelemetryBatchPayload, BatchKey
  <2>. QED  BY <1>2, <2>1 DEF JobDone, Exists
<1>. QED  BY <1>3, <1>4, <1>5, <1>6, <1>7, <1>8, ActionNames

(* A commit does the job of its operation, and it was not done before. *)
LEMMA CommitDoesItsJob ==
  ASSUME TypeOK, GuardInv, JobInv, NEW tx \in inflight, CommitValid(tx), tx.seen = None
  PROVE  JobDone(tx.request.payload)'
<1> DEFINE p == tx.request.payload
<1>1. JobIsOpen(tx, p)
  BY DEF JobInv
<1>2. \A k \in DOMAIN tx.writes : world'[k] = tx.writes[k] /\ world'[k] # None
  BY Committed
<1>. QED  BY <1>1, <1>2 DEF JobDone, JobIsOpen, Creates, Exists

LEMMA JobInvHolds == Spec => []JobInv
<1>1. Init => JobInv
  BY DEF Init, ContractInit, JobInv, Applied
<1>2. ASSUME TypeOK, GuardInv, JobInv, [Next]_contractVars
      PROVE  JobInv'
  <2>1. \A tx, p : JobIsOpen(tx, p) => JobIsOpen(tx, p)'
    BY DEF JobIsOpen, Creates
  <2>2. ASSUME NEW o \in OperationIds, operations'[o] = operations[o], Applied(o)
        PROVE  JobDone(operations[o].digest)'
    <3>1. operations[o].digest \in Payloads /\ JobDone(operations[o].digest)
      BY <1>2, <2>2 DEF TypeOK, ContractTypeOK, OperationRecords, JobInv, Applied
    <3>2. PICK d \in Payloads : d = operations[o].digest
      BY <3>1
    <3>3. JobDone(d)'
      BY <1>2, <3>1, <3>2, DoneStaysDone
    <3>. QED  BY <2>2, <3>2, <3>3
  <2>3. ASSUME NEW r \in Requests, NEW id \in TxIds, Endorse(r, id)
        PROVE  JobInv'
    <3>1. \A o \in OperationIds : operations'[o] = operations[o]
      BY <2>3 DEF Endorse
    <3> DEFINE tx == Endorsed(r, id)
    <3>2. tx.seen = None => JobIsOpen(tx, tx.request.payload)
      <4>1. SUFFICES ASSUME tx.seen = None
                     PROVE  JobIsOpen(tx, r.payload)
        BY DEF Endorsed
      <4>2. ~Applied(r.operationId)
        BY <4>1 DEF Endorsed, Applied
      <4>3. ~Repeats(r) /\ Simulate(r).ok
        BY <2>3, <4>2 DEF Endorse, Endorsable, Repeats
      <4>4. tx.reads = Simulate(r).reads /\ tx.writes = Simulate(r).writes
        BY <4>3 DEF Endorsed
      <4>5. JobIsOpen(Simulate(r), r.payload)
        BY <1>2, <4>3, SimulationFindsItsJobOpen DEF TypeOK
      <4>. HIDE DEF tx
      <4>. QED  BY <4>4, <4>5 DEF JobIsOpen, Creates
    <3>3. inflight' = inflight \cup {tx}
      BY <2>3 DEF Endorse
    <3>. HIDE DEF tx
    <3>. QED  BY <1>2, <2>1, <2>2, <3>1, <3>2, <3>3 DEF JobInv, Applied
  <2>4. ASSUME NEW tx \in inflight, CommitValid(tx)
        PROVE  JobInv'
    <3>1. inflight' \subseteq inflight
      BY <2>4 DEF CommitValid
    <3> DEFINE o == tx.request.operationId
    <3>2. o \in OperationIds
      BY <1>2, RequestShape DEF TypeOK, ContractTypeOK, TransactionOK
    <3>3. \A i \in OperationIds \ {o} : operations'[i] = operations[i]
      BY <1>2, <2>4, <3>2 DEF CommitValid, Apply, TypeOK, ContractTypeOK
    <3>4. CASE tx.seen = None
      <4>1. operations'[o].digest = tx.request.payload
        BY <1>2, <2>4, <3>2, <3>4 DEF CommitValid, Apply, TypeOK, ContractTypeOK
      <4>2. JobDone(tx.request.payload)'
        BY <1>2, <2>4, <3>4, CommitDoesItsJob
      <4>3. JobDone(operations[o].digest)'
        BY <4>1, <4>2
      <4>. QED  BY <1>2, <2>1, <2>2, <3>1, <3>3, <4>3 DEF JobInv, Applied
    <3>5. CASE tx.seen # None
      <4>1. operations' = operations
        BY <2>4, <3>5 DEF CommitValid, Apply
      <4>. QED  BY <1>2, <2>1, <2>2, <3>1, <4>1 DEF JobInv, Applied
    <3>. QED  BY <3>4, <3>5
  <2>5. CASE inflight' \subseteq inflight /\ operations' = operations
    BY <1>2, <2>1, <2>2, <2>5 DEF JobInv, Applied
  <2>. QED  BY <1>2, <2>3, <2>4, <2>5, Steps DEF contractVars
<1>. QED  BY <1>1, <1>2, TypeCorrect, GuardInvHolds, PTL DEF Spec

(* Two payloads that ask for the same job. *)
SameJob(p1, p2) ==
  LET Same(field) == field \in DOMAIN p1 /\ p1[field] = p2[field] IN
  \/ DOMAIN p1 = {"assetId"} /\ Same("assetId")
  \/ DOMAIN p1 = {"assetId", "decommissionedBy"} /\ Same("assetId")
  \/ "documentId" \notin DOMAIN p1 /\ Same("eventId")
  \/ Same("sha256Hash")
  \/ Same("batchId")

LEMMA NewJobWasOpen ==
  ASSUME TypeOK, GuardInv, JobInv, NEW tx \in inflight, CommitValid(tx), tx.seen = None,
         NEW q \in Payloads, JobDone(q), DOMAIN tx.request.payload = DOMAIN q
  PROVE  ~SameJob(tx.request.payload, q) /\ ~SameJob(q, tx.request.payload)
<1> DEFINE p == tx.request.payload
<1>1. PICK a \in Actions : q \in PayloadsOf[a]
  BY DEF Payloads
<1>2. JobIsOpen(tx, p)
  BY DEF JobInv
<1>3. \A k \in DOMAIN tx.reads : tx.reads[k] = world[k]
  BY Committed
<1>. HIDE DEF p
<1>4. SUFFICES ASSUME DOMAIN p = DOMAIN q
               PROVE  ~SameJob(p, q) /\ ~SameJob(q, p)
  BY DEF p
<1>5. CASE a = "REGISTER_ASSET"
  <2>1. DOMAIN q = {"assetId"}
    BY <1>1, <1>5, PayloadFields
  <2>2. p.assetId # q.assetId
    BY <1>2, <1>3, <1>4, <2>1 DEF JobIsOpen, Creates, JobDone, Exists
  <2>. QED  BY <1>4, <2>1, <2>2 DEF SameJob
<1>6. CASE a = "PROPOSE_EVENT"
  <2>1. DOMAIN q = {"eventId", "assetId"}
    BY <1>1, <1>6, PayloadFields
  <2>2. p.eventId # q.eventId
    BY <1>2, <1>3, <1>4, <2>1 DEF JobIsOpen, Creates, JobDone, Exists
  <2>. QED  BY <1>4, <2>1, <2>2 DEF SameJob
<1>7. CASE a = "REVIEW_EVENT"
  <2>1. DOMAIN q = {"eventId", "decision"}
    BY <1>1, <1>7, PayloadFields
  <2>2. p.eventId # q.eventId
    BY <1>2, <1>3, <1>4, <2>1 DEF JobIsOpen, JobDone, Exists
  <2>. QED  BY <1>4, <2>1, <2>2 DEF SameJob
<1>8. CASE a = "REGISTER_DOCUMENT"
  <2>1. DOMAIN q = {"documentId", "eventId", "assetId", "sha256Hash"}
    BY <1>1, <1>8, PayloadFields
  <2>2. p.sha256Hash # q.sha256Hash
    BY <1>2, <1>3, <1>4, <2>1 DEF JobIsOpen, Creates, JobDone, Exists
  <2>. QED  BY <1>4, <2>1, <2>2 DEF SameJob
<1>9. CASE a = "DECOMMISSION_ASSET"
  <2>1. DOMAIN q = {"assetId", "decommissionedBy"}
    BY <1>1, <1>9, PayloadFields
  <2>2. p.assetId # q.assetId
    BY <1>2, <1>3, <1>4, <2>1 DEF JobIsOpen, JobDone, Exists
  <2>. QED  BY <1>4, <2>1, <2>2 DEF SameJob
<1>10. CASE a = "REGISTER_TELEMETRY_BATCH"
  <2>1. DOMAIN q = {"batchId", "assetId", "merkleRoot"}
    BY <1>1, <1>10, PayloadFields
  <2>2. p.batchId # q.batchId
    BY <1>2, <1>3, <1>4, <2>1 DEF JobIsOpen, Creates, JobDone, Exists
  <2>. QED  BY <1>4, <2>1, <2>2 DEF SameJob
<1>. QED  BY <1>5, <1>6, <1>7, <1>8, <1>9, <1>10, ActionNames

LEMMA JobsAreSeparate ==
  NoJobDoneTwice <=>
    \A o1, o2 \in {o \in OperationIds : Applied(o)} :
      (o1 # o2 /\ DOMAIN operations[o1].digest = DOMAIN operations[o2].digest) =>
        ~SameJob(operations[o1].digest, operations[o2].digest)
BY DEF NoJobDoneTwice, SameJob

(* No two applied operations did the same job, although two were endorsed    *)
(* on the same state: the second does not find its job open any more.        *)
THEOREM NoJobDoneTwiceHolds == Spec => []NoJobDoneTwice
<1>1. Init => NoJobDoneTwice
  BY DEF Init, ContractInit, NoJobDoneTwice, Applied
<1>2. ASSUME TypeOK, GuardInv, JobInv, NoJobDoneTwice, [Next]_contractVars
      PROVE  NoJobDoneTwice'
  <2>1. CASE operations' = operations
    BY <1>2, <2>1 DEF NoJobDoneTwice, Applied
  <2>2. ASSUME NEW tx \in inflight, CommitValid(tx)
        PROVE  NoJobDoneTwice'
    <3> DEFINE o == tx.request.operationId
               p == tx.request.payload
    <3>1. o \in OperationIds
      BY <1>2, RequestShape DEF TypeOK, ContractTypeOK, TransactionOK
    <3>2. CASE tx.seen # None
      BY <1>2, <2>1, <2>2, <3>2 DEF CommitValid, Apply
    <3>3. CASE tx.seen = None
      <4>1. /\ operations'[o].digest = p
            /\ \A i \in OperationIds \ {o} : operations'[i] = operations[i]
        BY <1>2, <2>2, <3>1, <3>3 DEF CommitValid, Apply, TypeOK, ContractTypeOK
      <4>2. ASSUME NEW i \in OperationIds, Applied(i), DOMAIN p = DOMAIN operations[i].digest
            PROVE  /\ ~SameJob(p, operations[i].digest)
                   /\ ~SameJob(operations[i].digest, p)
        <5>1. operations[i].digest \in Payloads /\ JobDone(operations[i].digest)
          BY <1>2, <4>2 DEF TypeOK, ContractTypeOK, OperationRecords, JobInv, Applied
        <5>. QED  BY <1>2, <2>2, <3>3, <4>2, <5>1, NewJobWasOpen
      <4>3. SUFFICES ASSUME NEW i \in OperationIds, NEW j \in OperationIds, i # j,
                            operations'[i] # None, operations'[j] # None,
                            DOMAIN operations'[i].digest = DOMAIN operations'[j].digest
                     PROVE  ~SameJob(operations'[i].digest, operations'[j].digest)
        BY DEF NoJobDoneTwice, SameJob, Applied
      <4>. HIDE DEF o, p
      <4>4. CASE i = o
        BY <4>1, <4>2, <4>3, <4>4 DEF Applied
      <4>5. CASE j = o
        BY <4>1, <4>2, <4>3, <4>5 DEF Applied
      <4>6. CASE i # o /\ j # o
        BY <1>2, <4>1, <4>3, <4>6, JobsAreSeparate DEF Applied
      <4>. QED  BY <4>4, <4>5, <4>6
    <3>. QED  BY <3>2, <3>3
  <2>. QED  BY <1>2, <2>1, <2>2, Steps DEF Endorse, contractVars
<1>. QED  BY <1>1, <1>2, TypeCorrect, GuardInvHolds, JobInvHolds, PTL DEF Spec
=============================================================================

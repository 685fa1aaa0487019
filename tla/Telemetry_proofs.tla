---------------------------- MODULE Telemetry_proofs ----------------------------
(***************************************************************************)
(* What anchors rest on.  Anchored readings, batches and the ledger agree, *)
(* for any readings, any batches and any number of requests; and a root    *)
(* identifies its readings, for batches of any length.                     *)
(***************************************************************************)
EXTENDS TelemetryAnchor, MerkleTree, FieldLedgerContract_proofs, FunctionTheorems,
        FiniteSetTheorems, WellFoundedInduction

Inv == TypeOK /\ AnchorInv

-----------------------------------------------------------------------------
(* Ids and requests.                                                        *)

LEMMA RegisterId ==
  ASSUME NEW b \in BatchIds
  PROVE  /\ RegisterOf(b) \in OperationIds
         /\ RegisterOf(b) # RegisterAssetOp
         /\ \A c \in BatchIds : RegisterOf(b) = RegisterOf(c) => b = c
BY AnchorAssumption DEF AnchorOperationIds, RegisterOf, RegisterAssetOp

LEMMA OperationOf ==
  ASSUME NEW o \in OperationIds
  PROVE  o = RegisterAssetOp \/ \E b \in BatchIds : o = RegisterOf(b)
BY AnchorAssumption DEF AnchorOperationIds

LEMMA AssetRequest ==
  [operationId |-> RegisterAssetOp, action |-> "REGISTER_ASSET",
   organization |-> "OperatorOrg", payload |-> [assetId |-> Asset]] \in Requests
<1>1. RegisterAssetOp \in OperationIds /\ Asset \in AssetIds
  BY AnchorAssumption DEF AnchorOperationIds
<1>2. "REGISTER_ASSET" \in Actions /\ "OperatorOrg" \in Orgs
  BY ActionNames DEF Orgs
<1>3. [assetId |-> Asset] \in PayloadsOf["REGISTER_ASSET"]
  BY <1>1, RegisterAssetPayload
<1>. QED  BY <1>1, <1>2, <1>3, RequestIn

LEMMA AnchorRequest ==
  ASSUME TypeOK, NEW s \in Sessions, found[s] # None, NEW b \in BatchIds,
         NEW organization \in AnchorOrgs
  PROVE  Anchor(s, b, organization) \in Requests
<1>1. found[s] \in Roots
  BY DEF TypeOK
<1>2. RegisterOf(b) \in OperationIds /\ Asset \in AssetIds /\ organization \in Orgs
  BY RegisterId, AnchorAssumption
<1>3. "REGISTER_TELEMETRY_BATCH" \in Actions
  BY ActionNames
<1>4. [batchId |-> b, assetId |-> Asset, merkleRoot |-> found[s]]
        \in PayloadsOf["REGISTER_TELEMETRY_BATCH"]
  BY <1>1, <1>2, RegisterTelemetryBatchPayload
<1>. QED  BY <1>2, <1>3, <1>4, RequestIn DEF Anchor

-----------------------------------------------------------------------------
(* Earliest takes some readings, if there are any, and not too many.        *)

LEMMA EarlierIsFinite ==
  ASSUME NEW rs \in SUBSET Nat, NEW r \in Nat
  PROVE  /\ IsFiniteSet({q \in rs : q < r})
         /\ Cardinality({q \in rs : q < r}) \in Nat
<1> DEFINE below == {q \in rs : q < r}
<1>1. \A q \in below : q \in 0..r
  OBVIOUS
<1>2. IsFiniteSet(0..r)
  BY FS_Interval
<1>. HIDE DEF below
<1>3. IsFiniteSet(below)
  BY <1>1, <1>2, FS_Subset
<1>4. Cardinality(below) \in Nat
  BY <1>3, FS_CardinalityType
<1>. QED  BY <1>3, <1>4 DEF below

LEMMA EarlierGrows ==
  ASSUME NEW rs \in SUBSET Nat, NEW q \in rs, NEW r \in rs, q < r
  PROVE  Cardinality({p \in rs : p < q}) < Cardinality({p \in rs : p < r})
<1> DEFINE below(x) == {p \in rs : p < x}
<1>1. IsFiniteSet(below(q)) /\ IsFiniteSet(below(r))
  BY EarlierIsFinite
<1>2. Cardinality(below(q)) \in Nat /\ Cardinality(below(r)) \in Nat
  BY EarlierIsFinite
<1>3. q \notin below(q) /\ q \in below(r)
  OBVIOUS
<1>. \A p \in below(q) : p \in below(r)
  OBVIOUS
<1>. HIDE DEF below
<1>4. Cardinality(below(q) \cup {q}) = Cardinality(below(q)) + 1
  BY <1>1, <1>3, FS_AddElement
<1>5. Cardinality(below(q) \cup {q}) <= Cardinality(below(r))
  <2>1. below(q) \cup {q} \in SUBSET below(r)
    BY <1>3
  <2>. QED  BY <1>1, <2>1, FS_Subset
<1>6. Cardinality(below(q)) < Cardinality(below(r))
  BY <1>2, <1>4, <1>5
<1>. QED  BY <1>6 DEF below

LEMMA EarliestIsSmall ==
  ASSUME NEW rs \in SUBSET Nat
  PROVE  Cardinality(Earliest(rs)) <= MaxReadings
<1> DEFINE rank == [r \in Earliest(rs) |-> Cardinality({q \in rs : q < r})]
           slots == 0..(MaxReadings - 1)
<1>1. MaxReadings \in Nat \ {0}
  BY AnchorAssumption
<1>2. Earliest(rs) \subseteq rs
  BY DEF Earliest
<1>3. \A r \in Earliest(rs) : rank[r] \in slots
  <2>. TAKE r \in Earliest(rs)
  <2>1. Cardinality({q \in rs : q < r}) \in Nat
    BY <1>2, EarlierIsFinite
  <2>2. Cardinality({q \in rs : q < r}) < MaxReadings
    BY DEF Earliest
  <2>. QED  BY <1>1, <2>1, <2>2
<1>4. rank \in [Earliest(rs) -> slots]
  BY <1>3
<1>5. \A q, r \in Earliest(rs) : rank[q] = rank[r] => q = r
  <2>. TAKE q, r \in Earliest(rs)
  <2>1. q \in Nat /\ r \in Nat
    BY <1>2
  <2>2. rank[q] \in Nat /\ rank[r] \in Nat
    BY <1>3
  <2>3. /\ rank[q] = Cardinality({p \in rs : p < q})
        /\ rank[r] = Cardinality({p \in rs : p < r})
    OBVIOUS
  <2>. HIDE DEF rank
  <2>4. CASE q < r
    <3>1. Cardinality({p \in rs : p < q}) < Cardinality({p \in rs : p < r})
      BY <1>2, <2>4, EarlierGrows
    <3>. QED  BY <2>2, <2>3, <3>1
  <2>5. CASE r < q
    <3>1. Cardinality({p \in rs : p < r}) < Cardinality({p \in rs : p < q})
      BY <1>2, <2>5, EarlierGrows
    <3>. QED  BY <2>2, <2>3, <3>1
  <2>. QED  BY <2>1, <2>4, <2>5
<1>6. IsFiniteSet(slots) /\ Cardinality(slots) = MaxReadings
  BY <1>1, FS_Interval
<1>. HIDE DEF rank, slots
<1>7. rank \in Injection(Earliest(rs), slots)
  BY <1>4, <1>5, Fun_IsInj
<1>. QED  BY <1>6, <1>7, FS_Injection

LEMMA EarliestIsNotEmpty ==
  ASSUME NEW rs \in SUBSET Nat, rs # {}
  PROVE  Earliest(rs) # {}
<1>1. PICK r \in rs : \A q \in rs : ~ (<<q, r>> \in OpToRel(<, Nat))
  BY NatLessThanWellFounded, WFMin
<1>2. \A q \in rs : ~ (q < r)
  BY <1>1 DEF OpToRel
<1>3. {q \in rs : q < r} = {}
  BY <1>2
<1>4. Cardinality({}) < MaxReadings
  BY FS_EmptySet, AnchorAssumption
<1>5. Cardinality({q \in rs : q < r}) < MaxReadings
  BY <1>3, <1>4
<1>. QED  BY <1>5 DEF Earliest

LEMMA EarliestFits ==
  ASSUME TypeOK, Unbatched # {}
  PROVE  /\ Earliest(Unbatched) \in Roots \ {{}}
         /\ Cardinality(Earliest(Unbatched)) <= MaxReadings
<1>1. Unbatched \in SUBSET Readings /\ Unbatched \in SUBSET Nat
  BY AnchorAssumption DEF Unbatched, TypeOK
<1>2. Earliest(Unbatched) \in SUBSET Readings
  BY <1>1 DEF Earliest
<1>3. Earliest(Unbatched) \in Roots
  BY <1>2, AnchorAssumption
<1>. QED  BY <1>1, <1>3, EarliestIsSmall, EarliestIsNotEmpty

-----------------------------------------------------------------------------
(* The initial state.                                                       *)

LEMMA InitInv == Init => Inv
<1> SUFFICES ASSUME Init PROVE Inv
  OBVIOUS
<1> DEFINE request == [operationId |-> RegisterAssetOp, action |-> "REGISTER_ASSET",
                       organization |-> "OperatorOrg", payload |-> [assetId |-> Asset]]
           row     == [request |-> request, status |-> "PENDING"]
<1>1. ContractTypeOK
  BY InitKeepsType DEF Init
<1>2. row \in OutboxRows /\ row # None
  <2>1. request \in Requests
    BY AssetRequest
  <2>. HIDE DEF request
  <2>. QED  BY <2>1, NoneIsNoAnchor DEF OutboxRows, LedgerStatus
<1>3. row.request.operationId = RegisterAssetOp /\ row.request.action = "REGISTER_ASSET"
  OBVIOUS
<1>4. outbox = [o \in OperationIds |-> IF o = RegisterAssetOp THEN row ELSE None]
  BY DEF Init
<1>5. RegisterAssetOp \in OperationIds
  BY AnchorAssumption DEF AnchorOperationIds
<1>. HIDE DEF row
<1>6. TypeOK
  BY <1>1, <1>2, <1>4 DEF Init, TypeOK
<1>7. RowsMatch
  BY <1>2, <1>3, <1>4, <1>5, RegisterId DEF Init, RowsMatch
<1>8. \A b \in BatchIds : ~Applied(RegisterOf(b)) /\ ~Exists(<<"telemetryBatch", b>>)
  BY RegisterId, BatchKey DEF Init, ContractInit, Applied, Exists
<1>9. AppliedIsRegistered /\ CoveredIsLinked /\ LinkedIsCovered /\ LedgerHasTheRoot
  BY <1>8 DEF Init, AppliedIsRegistered, CoveredIsLinked, LinkedIsCovered, LedgerHasTheRoot
<1>. QED  BY <1>6, <1>7, <1>9 DEF Inv, AnchorInv

-----------------------------------------------------------------------------
(* The API.  A step that leaves the rows and the contract alone keeps all    *)
(* that is claimed about them.                                               *)

LEMMA RowsUntouched ==
  ASSUME AnchorInv, UNCHANGED <<contractVars, batchOf, batches, outbox>>
  PROVE  AnchorInv'
BY DEF AnchorInv, RowsMatch, AppliedIsRegistered, CoveredIsLinked, LinkedIsCovered,
       LedgerHasTheRoot, Applied, Exists, contractVars

LEMMA IngestReadingInv ==
  ASSUME Inv, NEW r \in Readings, IngestReading(r)
  PROVE  Inv'
<1>1. TypeOK'
  BY IdleKeepsType DEF Inv, TypeOK, IngestReading
<1>. QED  BY <1>1, RowsUntouched DEF Inv, IngestReading

LEMMA AnchorReadInv ==
  ASSUME Inv, NEW s \in Sessions, AnchorRead(s)
  PROVE  Inv'
<1>1. /\ Earliest(Unbatched) \in Roots \ {{}}
      /\ Cardinality(Earliest(Unbatched)) <= MaxReadings
  BY EarliestFits DEF Inv, AnchorRead
<1>2. found' = [found EXCEPT ![s] = Earliest(Unbatched)]
  BY DEF AnchorRead
<1>3. /\ found' \in [Sessions -> (Roots \ {{}}) \cup {None}]
      /\ \A t \in Sessions : found'[t] # None => Cardinality(found'[t]) <= MaxReadings
  BY <1>1, <1>2 DEF Inv, TypeOK
<1>4. TypeOK'
  BY <1>3, IdleKeepsType DEF Inv, TypeOK, AnchorRead
<1>. QED  BY <1>4, RowsUntouched DEF Inv, AnchorRead

LEMMA AnchorRollbackInv ==
  ASSUME Inv, NEW s \in Sessions, AnchorRollback(s)
  PROVE  Inv'
<1>1. /\ found' \in [Sessions -> (Roots \ {{}}) \cup {None}]
      /\ \A t \in Sessions : found'[t] # None => Cardinality(found'[t]) <= MaxReadings
  BY DEF Inv, TypeOK, AnchorRollback
<1>2. TypeOK'
  BY <1>1, IdleKeepsType DEF Inv, TypeOK, AnchorRollback
<1>. QED  BY <1>2, RowsUntouched DEF Inv, AnchorRollback

LEMMA AnchorCommitInv ==
  ASSUME Inv, NEW s \in Sessions, NEW b \in BatchIds, NEW organization \in AnchorOrgs,
         AnchorCommit(s, b, organization)
  PROVE  Inv'
<1> DEFINE batch == [merkleRoot |-> found[s], ledger |-> "PENDING"]
           request == Anchor(s, b, organization)
           row   == [request |-> request, status |-> "PENDING"]
<1>1. TypeOK /\ found[s] \in Roots /\ batches[b] = None
  BY DEF Inv, TypeOK, AnchorCommit
<1>2. batch \in BatchRows /\ batch # None
  BY <1>1, NoneIsNoAnchor DEF BatchRows, LedgerStatus
<1>3. row \in OutboxRows /\ row # None
  <2>1. request \in Requests
    BY <1>1, AnchorRequest DEF AnchorCommit
  <2>. HIDE DEF request
  <2>. QED  BY <2>1, NoneIsNoAnchor DEF OutboxRows, LedgerStatus
<1>4. /\ row.status = batch.ledger
      /\ batch.merkleRoot = found[s]
      /\ row.request.operationId = RegisterOf(b)
      /\ row.request.action = "REGISTER_TELEMETRY_BATCH"
      /\ row.request.payload = [batchId |-> b, assetId |-> Asset,
                                merkleRoot |-> batch.merkleRoot]
  BY DEF Anchor
<1>5. /\ batches' = [batches EXCEPT ![b] = batch]
      /\ outbox' = [outbox EXCEPT ![RegisterOf(b)] = row]
      /\ batchOf' = [r \in Readings |-> IF r \in found[s] THEN b ELSE batchOf[r]]
      /\ found' = [found EXCEPT ![s] = None]
      /\ UNCHANGED <<contractVars, ingested>>
  BY DEF AnchorCommit, Linked
<1>. HIDE DEF batch, row, request
<1>6. RegisterOf(b) \in OperationIds
  BY RegisterId
<1>7. /\ batches'[b] = batch
      /\ \A c \in BatchIds \ {b} : batches'[c] = batches[c]
      /\ outbox'[RegisterOf(b)] = row
      /\ \A o \in OperationIds \ {RegisterOf(b)} : outbox'[o] = outbox[o]
  BY <1>1, <1>5, <1>6 DEF TypeOK
<1>8. TypeOK'
  <2>1. ContractTypeOK'
    BY <1>1, <1>5, IdleKeepsType DEF TypeOK
  <2>2. batchOf' \in [Readings -> BatchIds \cup {None}]
    BY <1>1, <1>5 DEF TypeOK
  <2>3. batches' \in [BatchIds -> BatchRows \cup {None}]
    BY <1>1, <1>2, <1>5 DEF TypeOK
  <2>4. outbox' \in [OperationIds -> OutboxRows \cup {None}]
    BY <1>1, <1>3, <1>5 DEF TypeOK
  <2>5. /\ found' \in [Sessions -> (Roots \ {{}}) \cup {None}]
        /\ \A t \in Sessions : found'[t] # None => Cardinality(found'[t]) <= MaxReadings
    BY <1>1, <1>5 DEF TypeOK
  <2>. QED  BY <1>1, <1>5, <2>1, <2>2, <2>3, <2>4, <2>5 DEF TypeOK
<1>9. RowsMatch'
  <2>1. outbox'[RegisterAssetOp] = outbox[RegisterAssetOp]
    BY <1>7, RegisterId, AnchorAssumption DEF AnchorOperationIds
  <2>2. \A c \in BatchIds \ {b} : outbox'[RegisterOf(c)] = outbox[RegisterOf(c)]
    BY <1>7, RegisterId
  <2>. QED  BY <1>2, <1>3, <1>4, <1>7, <2>1, <2>2 DEF Inv, AnchorInv, RowsMatch
<1>10. UNCHANGED <<operations, world>>
  BY <1>5 DEF contractVars
<1>11. AppliedIsRegistered'
  BY <1>10 DEF Inv, AnchorInv, AppliedIsRegistered, Applied, Exists
<1>12. LinkedIsCovered'
  <2>. SUFFICES ASSUME NEW r \in Readings, batchOf'[r] # None
                PROVE  /\ batches'[batchOf'[r]] # None
                       /\ r \in batches'[batchOf'[r]].merkleRoot
    BY DEF LinkedIsCovered
  <2>1. CASE r \in found[s]
    BY <1>2, <1>4, <1>5, <1>7, <2>1
  <2>2. CASE r \notin found[s]
    <3>1. batchOf'[r] = batchOf[r] /\ batchOf[r] \in BatchIds
      BY <1>1, <1>5, <2>2 DEF TypeOK
    <3>2. batches[batchOf[r]] # None /\ r \in batches[batchOf[r]].merkleRoot
      BY <3>1 DEF Inv, AnchorInv, LinkedIsCovered
    <3>. QED  BY <1>1, <1>7, <3>1, <3>2
  <2>. QED  BY <2>1, <2>2
<1>13. LedgerHasTheRoot'
  <2>1. \A c \in BatchIds : Exists(<<"telemetryBatch", c>>)' <=> Exists(<<"telemetryBatch", c>>)
    BY <1>10 DEF Exists
  <2>2. ~Exists(<<"telemetryBatch", b>>)
    BY <1>1 DEF Inv, AnchorInv, LedgerHasTheRoot
  <2>3. batch.ledger # "COMMITTED"
    BY DEF batch
  <2>. QED  BY <1>7, <1>10, <2>1, <2>2, <2>3 DEF Inv, AnchorInv, LedgerHasTheRoot
<1>14. CoveredIsLinked'
  <2>. SUFFICES ASSUME NEW c \in BatchIds, batches'[c] # None,
                       NEW r \in batches'[c].merkleRoot
                PROVE  batchOf'[r] # None
    BY DEF CoveredIsLinked
  <2>1. b # None
    BY AnchorAssumption
  <2>2. r \in Readings
    BY <1>8, AnchorAssumption DEF TypeOK, BatchRows
  <2>3. CASE c = b
    BY <1>4, <1>5, <1>7, <2>1, <2>2, <2>3
  <2>4. CASE c # b
    <3>1. batchOf[r] # None
      BY <1>7, <2>4 DEF Inv, AnchorInv, CoveredIsLinked
    <3>. QED  BY <1>5, <2>1, <2>2, <3>1
  <2>. QED  BY <2>3, <2>4
<1>. QED  BY <1>8, <1>9, <1>11, <1>12, <1>13, <1>14 DEF Inv, AnchorInv

-----------------------------------------------------------------------------
(* The worker.                                                              *)

LEMMA SettleType ==
  ASSUME Inv, NEW o \in OperationIds, Unconfirmed(o), NEW status \in LedgerStatus,
         Settle(o, status), ContractTypeOK'
  PROVE  /\ TypeOK'
         /\ outbox'[o] # None
         /\ outbox'[o].request = outbox[o].request
         /\ outbox'[o].status = status
         /\ \A p \in OperationIds \ {o} : outbox'[p] = outbox[p]
         /\ \A b \in BatchIds :
              IF RegisterOf(b) = o
              THEN /\ batches[b] # None
                   /\ batches'[b] # None
                   /\ batches'[b].merkleRoot = batches[b].merkleRoot
                   /\ batches'[b].ledger = status
              ELSE batches'[b] = batches[b]
<1>1. TypeOK /\ outbox[o] # None
  BY DEF Inv, Unconfirmed
<1> DEFINE row == [outbox[o] EXCEPT !.status = status]
<1>2. /\ row \in OutboxRows /\ row # None
      /\ row.request = outbox[o].request /\ row.status = status
  <2>1. outbox[o] \in OutboxRows
    BY <1>1 DEF TypeOK
  <2>. QED  BY <2>1, NoneIsNoAnchor DEF OutboxRows
<1>3. outbox' = [outbox EXCEPT ![o] = row]
  BY DEF Settle
<1>. HIDE DEF row
<1>4. /\ outbox' \in [OperationIds -> OutboxRows \cup {None}]
      /\ outbox'[o] = row
      /\ \A p \in OperationIds \ {o} : outbox'[p] = outbox[p]
  BY <1>1, <1>2, <1>3 DEF TypeOK
<1>5. ASSUME NEW b \in BatchIds
      PROVE  /\ batches'[b] \in BatchRows \cup {None}
             /\ IF RegisterOf(b) = o
                THEN /\ batches[b] # None
                     /\ batches'[b] # None
                     /\ batches'[b].merkleRoot = batches[b].merkleRoot
                     /\ batches'[b].ledger = status
                ELSE batches'[b] = batches[b]
  <2>1. CASE RegisterOf(b) = o
    <3>1. batches[b] # None
      BY <1>1, <2>1 DEF Inv, AnchorInv, RowsMatch
    <3>2. batches[b] \in BatchRows
      BY <1>1, <3>1 DEF TypeOK
    <3>3. batches'[b] = [batches[b] EXCEPT !.ledger = status]
      BY <2>1 DEF Settle
    <3>4. /\ batches'[b] \in BatchRows
          /\ batches'[b].merkleRoot = batches[b].merkleRoot
          /\ batches'[b].ledger = status
      BY <3>2, <3>3 DEF BatchRows
    <3>. QED  BY <2>1, <3>1, <3>4, NoneIsNoAnchor
  <2>2. CASE RegisterOf(b) # o
    BY <1>1, <2>2 DEF Settle, TypeOK
  <2>. QED  BY <2>1, <2>2
<1>6. batches' \in [BatchIds -> BatchRows \cup {None}]
  <2>1. batches' = [b \in BatchIds |-> batches'[b]]
    BY DEF Settle
  <2>. QED  BY <1>5, <2>1
<1>7. TypeOK'
  BY <1>1, <1>4, <1>6 DEF TypeOK, Settle
<1>. QED  BY <1>2, <1>4, <1>5, <1>7

(* The claims about rows and links survive whatever an attempt records. *)
LEMMA SettleRows ==
  ASSUME Inv, NEW o \in OperationIds, Unconfirmed(o), NEW status \in LedgerStatus,
         Settle(o, status), ContractTypeOK'
  PROVE  TypeOK' /\ RowsMatch' /\ LinkedIsCovered' /\ CoveredIsLinked'
<1>1. TypeOK'
  BY SettleType
<1>2. RowsMatch'
  <2>1. /\ outbox'[RegisterAssetOp] # None
        /\ outbox'[RegisterAssetOp].request.operationId = RegisterAssetOp
        /\ outbox'[RegisterAssetOp].request.action = "REGISTER_ASSET"
    BY SettleType, AnchorAssumption DEF Inv, AnchorInv, RowsMatch, AnchorOperationIds
  <2>2. ASSUME NEW b \in BatchIds, RegisterOf(b) = o
        PROVE  /\ batches'[b] # None /\ outbox'[o] # None
               /\ outbox'[o].status = batches'[b].ledger
               /\ outbox'[o].request = outbox[o].request
               /\ batches'[b].merkleRoot = batches[b].merkleRoot
               /\ outbox[o] # None
    BY <2>2, SettleType DEF Unconfirmed
  <2>3. ASSUME NEW b \in BatchIds, RegisterOf(b) # o
        PROVE  batches'[b] = batches[b] /\ outbox'[RegisterOf(b)] = outbox[RegisterOf(b)]
    BY <2>3, SettleType, RegisterId
  <2>. QED  BY <2>1, <2>2, <2>3 DEF Inv, AnchorInv, RowsMatch
<1>3. LinkedIsCovered'
  <2>. SUFFICES ASSUME NEW r \in Readings, batchOf'[r] # None
                PROVE  /\ batches'[batchOf'[r]] # None
                       /\ r \in batches'[batchOf'[r]].merkleRoot
    BY DEF LinkedIsCovered
  <2>1. batchOf'[r] = batchOf[r] /\ batchOf[r] \in BatchIds
    BY DEF Inv, TypeOK, Settle
  <2>2. batches[batchOf[r]] # None /\ r \in batches[batchOf[r]].merkleRoot
    BY <2>1 DEF Inv, AnchorInv, LinkedIsCovered
  <2>. QED  BY <2>1, <2>2, SettleType
<1>4. CoveredIsLinked'
  <2>. SUFFICES ASSUME NEW b \in BatchIds, batches'[b] # None,
                       NEW r \in batches'[b].merkleRoot
                PROVE  batchOf'[r] # None
    BY DEF CoveredIsLinked
  <2>1. batches[b] # None /\ r \in batches[b].merkleRoot
    BY SettleType
  <2>2. batchOf' = batchOf
    BY DEF Settle
  <2>. QED  BY <2>1, <2>2 DEF Inv, AnchorInv, CoveredIsLinked
<1>. QED  BY <1>1, <1>2, <1>3, <1>4

LEMMA FailInv ==
  ASSUME Inv, NEW o \in OperationIds, Fail(o)
  PROVE  Inv'
<1>1. ContractTypeOK'
  BY IdleKeepsType DEF Inv, TypeOK, Fail
<1>2. /\ Unconfirmed(o) /\ Settle(o, "FAILED") /\ "FAILED" \in LedgerStatus
      /\ UNCHANGED <<operations, world>>
  BY DEF Fail, LedgerStatus, contractVars
<1>3. TypeOK' /\ RowsMatch' /\ LinkedIsCovered' /\ CoveredIsLinked'
  BY <1>1, <1>2, SettleRows
<1>4. AppliedIsRegistered'
  BY <1>2 DEF Inv, AnchorInv, AppliedIsRegistered, Applied, Exists
<1>5. LedgerHasTheRoot'
  <2>1. \A b \in BatchIds :
          \/ batches'[b] = batches[b]
          \/ /\ batches[b] # None /\ batches'[b] # None
             /\ batches'[b].merkleRoot = batches[b].merkleRoot
             /\ batches'[b].ledger # "COMMITTED"
    BY <1>1, <1>2, SettleType
  <2>. QED  BY <1>2, <2>1 DEF Inv, AnchorInv, LedgerHasTheRoot, Exists
<1>. QED  BY <1>3, <1>4, <1>5 DEF Inv, AnchorInv

(* The attempt that registers a batch; it may not be the first that does.   *)
LEMMA ConfirmBatch ==
  ASSUME Inv, NEW b \in BatchIds, Confirm(RegisterOf(b))
  PROVE  Inv'
<1> DEFINE o == RegisterOf(b)
           r == outbox[o].request
<1>1. o \in OperationIds /\ Unconfirmed(o) /\ Settle(o, "COMMITTED")
  BY RegisterId DEF Confirm
<1>2. PICK id \in TxIds : Deliver(r, id)
  BY DEF Confirm
<1>3. /\ r \in Requests /\ r.operationId = o
      /\ r.action = "REGISTER_TELEMETRY_BATCH"
      /\ r.payload.batchId = b
      /\ r.payload.merkleRoot = batches[b].merkleRoot
  <2>1. outbox[o] \in OutboxRows /\ outbox[o] # None
    BY <1>1 DEF Unconfirmed, Inv, TypeOK
  <2>2. r \in Requests
    BY <2>1 DEF OutboxRows
  <2>3. /\ r.operationId = o
        /\ r.action = "REGISTER_TELEMETRY_BATCH"
        /\ r.payload = [batchId |-> b, assetId |-> Asset,
                        merkleRoot |-> batches[b].merkleRoot]
    BY <2>1 DEF Inv, AnchorInv, RowsMatch
  <2>. HIDE DEF r
  <2>. QED  BY <2>2, <2>3
<1>. HIDE DEF r
<1>4. ContractTypeOK /\ "COMMITTED" \in LedgerStatus
  BY DEF Inv, TypeOK, LedgerStatus
<1>5. ContractTypeOK'
  BY <1>2, <1>3, <1>4, DeliverKeepsType
<1>6. TypeOK' /\ RowsMatch' /\ LinkedIsCovered' /\ CoveredIsLinked'
  BY <1>1, <1>4, <1>5, SettleRows
<1>7. \A c \in BatchIds \ {b} :
        /\ world'[<<"telemetryBatch", c>>] = world[<<"telemetryBatch", c>>]
        /\ operations'[RegisterOf(c)] = operations[RegisterOf(c)]
        /\ batches'[c] = batches[c]
  <2>. TAKE c \in BatchIds \ {b}
  <2>1. RegisterOf(c) # o /\ RegisterOf(c) \in OperationIds
    BY RegisterId
  <2>2. world'[<<"telemetryBatch", c>>] = world[<<"telemetryBatch", c>>]
    BY <1>2, <1>3, <1>4, DeliverBatch
  <2>3. operations'[RegisterOf(c)] = operations[RegisterOf(c)]
    BY <1>2, <1>3, <1>4, <2>1, DeliverApplies
  <2>4. batches'[c] = batches[c]
    BY <1>1, <1>4, <1>5, <2>1, SettleType
  <2>. QED  BY <2>2, <2>3, <2>4
<1>8. /\ Exists(<<"telemetryBatch", b>>)'
      /\ batches'[b] # None
      /\ world'[<<"telemetryBatch", b>>].merkleRoot = batches'[b].merkleRoot
  <2>1. batches[b] # None /\ batches'[b] # None /\ batches'[b].merkleRoot = batches[b].merkleRoot
    BY <1>1, <1>4, <1>5, SettleType
  <2>2. CASE Applied(o)
    <3>1. Exists(<<"telemetryBatch", b>>)
      BY <2>2 DEF Inv, AnchorInv, AppliedIsRegistered
    <3>2. world'[<<"telemetryBatch", b>>] = world[<<"telemetryBatch", b>>]
      BY <1>2, <1>3, <1>4, <2>2, DeliverBatch
    <3>3. world[<<"telemetryBatch", b>>].merkleRoot = batches[b].merkleRoot
      BY <3>1 DEF Inv, AnchorInv, LedgerHasTheRoot
    <3>. QED  BY <2>1, <3>1, <3>2, <3>3 DEF Exists
  <2>3. CASE ~Applied(o)
    <3> DEFINE record == [recordType |-> "TELEMETRY_BATCH", batchId |-> b,
                          assetId |-> r.payload.assetId,
                          merkleRoot |-> r.payload.merkleRoot]
    <3>1. world'[<<"telemetryBatch", b>>] = record
      BY <1>2, <1>3, <1>4, <2>3, DeliverBatch
    <3>2. record \in BatchRecords
      <4>1. r.payload \in [batchId : BatchIds, assetId : AssetIds, merkleRoot : Roots]
        BY <1>3, RequestShape, RegisterTelemetryBatchPayload
      <4>. QED  BY <4>1 DEF BatchRecords
    <3>3. record # None
      BY <3>2, NoneIsNoRecord DEF RecordsOf
    <3>. QED  BY <1>3, <2>1, <3>1, <3>3 DEF Exists
  <2>. QED  BY <2>2, <2>3
<1>9. AppliedIsRegistered'
  BY <1>7, <1>8 DEF Inv, AnchorInv, AppliedIsRegistered, Applied, Exists
<1>10. LedgerHasTheRoot'
  BY <1>7, <1>8 DEF Inv, AnchorInv, LedgerHasTheRoot, Exists
<1>. QED  BY <1>6, <1>9, <1>10 DEF Inv, AnchorInv

(* The registration of the asset, which batches wait for. *)
LEMMA ConfirmAsset ==
  ASSUME Inv, Confirm(RegisterAssetOp)
  PROVE  Inv'
<1> DEFINE o == RegisterAssetOp
           r == outbox[o].request
<1>1. o \in OperationIds /\ Unconfirmed(o) /\ Settle(o, "COMMITTED")
  BY AnchorAssumption DEF Confirm, AnchorOperationIds
<1>2. PICK id \in TxIds : Deliver(r, id)
  BY DEF Confirm
<1>3. r \in Requests /\ r.operationId = o /\ r.action = "REGISTER_ASSET"
  <2>1. outbox[o] \in OutboxRows /\ outbox[o] # None
    BY <1>1 DEF Unconfirmed, Inv, TypeOK
  <2>2. r \in Requests
    BY <2>1 DEF OutboxRows
  <2>3. r.operationId = o /\ r.action = "REGISTER_ASSET"
    BY DEF Inv, AnchorInv, RowsMatch
  <2>. QED  BY <2>2, <2>3
<1>. HIDE DEF r
<1>4. ContractTypeOK /\ "COMMITTED" \in LedgerStatus
  BY DEF Inv, TypeOK, LedgerStatus
<1>5. ContractTypeOK'
  BY <1>2, <1>3, <1>4, DeliverKeepsType
<1>6. TypeOK' /\ RowsMatch' /\ LinkedIsCovered' /\ CoveredIsLinked'
  BY <1>1, <1>4, <1>5, SettleRows
<1>7. \A b \in BatchIds :
        /\ world'[<<"telemetryBatch", b>>] = world[<<"telemetryBatch", b>>]
        /\ operations'[RegisterOf(b)] = operations[RegisterOf(b)]
        /\ batches'[b] = batches[b]
  <2>. TAKE b \in BatchIds
  <2>1. RegisterOf(b) # o /\ RegisterOf(b) \in OperationIds
    BY RegisterId
  <2>2. world'[<<"telemetryBatch", b>>] = world[<<"telemetryBatch", b>>]
    BY <1>2, <1>3, <1>4, DeliverAsset
  <2>3. operations'[RegisterOf(b)] = operations[RegisterOf(b)]
    BY <1>2, <1>3, <1>4, <2>1, DeliverApplies
  <2>4. batches'[b] = batches[b]
    BY <1>1, <1>4, <1>5, <2>1, SettleType
  <2>. QED  BY <2>2, <2>3, <2>4
<1>8. AppliedIsRegistered' /\ LedgerHasTheRoot'
  BY <1>7 DEF Inv, AnchorInv, AppliedIsRegistered, LedgerHasTheRoot, Applied, Exists
<1>. QED  BY <1>6, <1>8 DEF Inv, AnchorInv

-----------------------------------------------------------------------------
LEMMA NextInv == Inv /\ [Next]_vars => Inv'
<1> SUFFICES ASSUME Inv, [Next]_vars PROVE Inv'
  OBVIOUS
<1>1. CASE \E r \in Readings : IngestReading(r)
  BY <1>1, IngestReadingInv
<1>2. CASE \E s \in Sessions : AnchorRead(s) \/ AnchorRollback(s)
  BY <1>2, AnchorReadInv, AnchorRollbackInv
<1>3. CASE \E s \in Sessions, b \in BatchIds, organization \in AnchorOrgs :
             AnchorCommit(s, b, organization)
  BY <1>3, AnchorCommitInv
<1>4. CASE \E o \in OperationIds : Confirm(o) \/ Fail(o)
  BY <1>4, OperationOf, ConfirmAsset, ConfirmBatch, FailInv
<1>5. CASE UNCHANGED vars
  <2>1. UNCHANGED <<contractVars, batchOf, batches, outbox>> /\ UNCHANGED <<ingested, found>>
    BY <1>5 DEF vars
  <2>2. TypeOK'
    BY <2>1, IdleKeepsType DEF Inv, TypeOK
  <2>. QED  BY <2>1, <2>2, RowsUntouched DEF Inv
<1>. QED  BY <1>1, <1>2, <1>3, <1>4, <1>5 DEF Next

(* Rows, requests and the ledger's records keep their shape, and no anchor   *)
(* takes more readings than it may, for any readings, batches and requests.  *)
THEOREM TypeCorrect == Spec => []TypeOK
BY InitInv, NextInv, PTL DEF Spec, Inv

(* The invariant of the anchors (AnchorInv): every reading a batch covers is *)
(* linked, every link is covered, and every batch is queued with its root.   *)
THEOREM AnchorIsSound == Spec => []AnchorInv
BY InitInv, NextInv, PTL DEF Spec, Inv

(* However many anchors race, a reading is linked only to a batch whose root *)
(* covers it (create_telemetry_batch_anchor).                                *)
THEOREM LinkedIsCoveredHolds == Spec => []LinkedIsCovered
BY InitInv, NextInv, PTL DEF Spec, Inv, AnchorInv

(* The ledger has of a batch the root its row has, and has it if the row     *)
(* says COMMITTED (ledger_worker.py, registerTelemetryBatch), whatever       *)
(* attempts failed or were repeated.                                         *)
THEOREM LedgerHasTheRootHolds == Spec => []LedgerHasTheRoot
BY InitInv, NextInv, PTL DEF Spec, Inv, AnchorInv

LEMMA UnsharedVerifies ==
  ASSUME Inv
  PROVE  UnsharedBatchVerifies
<1>. SUFFICES ASSUME NEW b \in BatchIds, batches[b] # None, ~Shares(b)
              PROVE  ReadingsOf(b) = batches[b].merkleRoot
  BY DEF UnsharedBatchVerifies, Verified
<1>1. batches[b].merkleRoot \subseteq Readings
  BY AnchorAssumption DEF Inv, TypeOK, BatchRows
<1>2. ASSUME NEW r \in Readings, batchOf[r] = b
      PROVE  r \in batches[b].merkleRoot
  BY <1>2, AnchorAssumption DEF Inv, AnchorInv, LinkedIsCovered
<1>3. ASSUME NEW r \in batches[b].merkleRoot
      PROVE  batchOf[r] = b
  <2>1. r \in Readings /\ batchOf[r] # None
    BY <1>1 DEF Inv, AnchorInv, CoveredIsLinked
  <2>2. batchOf[r] \in BatchIds
    BY <2>1 DEF Inv, TypeOK
  <2>3. batches[batchOf[r]] # None /\ r \in batches[batchOf[r]].merkleRoot
    BY <2>1 DEF Inv, AnchorInv, LinkedIsCovered
  <2>4. CASE batchOf[r] # b
    BY <2>2, <2>3, <2>4 DEF Shares
  <2>. QED  BY <2>4
<1>. QED  BY <1>1, <1>2, <1>3 DEF ReadingsOf

(* Whatever races, a batch none of whose readings is in another one verifies *)
(* (verify_telemetry_batch).                                                 *)
THEOREM UnsharedBatchVerifiesHolds == Spec => []UnsharedBatchVerifies
BY InitInv, NextInv, UnsharedVerifies, PTL DEF Spec

(* An anchor takes no reading that a committed batch covers, however many    *)
(* requests have taken which readings over meanwhile.                        *)
THEOREM AnchorsTakeNewReadingsHolds == Spec => AnchorsTakeNewReadings
<1> DEFINE New ==
  \A s \in Sessions, b \in BatchIds :
    (found[s] = None /\ found'[s] # None /\ batches[b] # None) =>
      found'[s] \cap batches[b].merkleRoot = {}
<1>1. Inv /\ [Next]_vars => New \/ UNCHANGED vars
  <2> SUFFICES ASSUME Inv, [Next]_vars, NEW s \in Sessions, NEW b \in BatchIds,
                      found[s] = None, found'[s] # None, batches[b] # None
               PROVE  found'[s] \cap batches[b].merkleRoot = {}
    OBVIOUS
  <2>1. found'[s] = Earliest(Unbatched)
    <3>1. ASSUME NEW t \in Sessions, AnchorRead(t)
          PROVE  found'[s] = Earliest(Unbatched)
      BY <3>1 DEF AnchorRead, Inv, TypeOK
    <3>2. ASSUME NEW t \in Sessions, found' = [found EXCEPT ![t] = None]
          PROVE  FALSE
      BY <3>2 DEF Inv, TypeOK
    <3>3. CASE UNCHANGED found
      BY <3>3
    <3>. QED  BY <3>1, <3>2, <3>3
              DEF Next, IngestReading, AnchorRollback, AnchorCommit, Confirm, Fail,
                  Settle, vars
  <2>2. \A r \in Earliest(Unbatched) : r \in Readings /\ batchOf[r] = None
    BY DEF Earliest, Unbatched, Inv, TypeOK
  <2>3. \A r \in batches[b].merkleRoot : batchOf[r] # None
    BY DEF Inv, AnchorInv, CoveredIsLinked
  <2>. QED  BY <2>1, <2>2, <2>3
<1>2. Inv /\ [Next]_vars => [New]_vars
  BY <1>1
<1>. QED  BY <1>2, InitInv, NextInv, PTL DEF Spec, AnchorsTakeNewReadings

-----------------------------------------------------------------------------
(* Induction over the natural numbers, in the form of sets. *)

NatLess == OpToRel(<, Nat)

LEMMA NatLessIsLess == \A x, y \in Nat : <<x, y>> \in NatLess <=> x < y
BY DEF OpToRel, NatLess

LEMMA NatLessIsWellFounded == IsWellFoundedOn(NatLess, Nat)
BY NatLessThanWellFounded DEF NatLess

LEMMA LeastNumber ==
  ASSUME NEW T, T \subseteq Nat, T # {}
  PROVE  \E x \in T : \A y \in T : x <= y
<1>1. PICK x \in T : \A y \in T : ~(<<y, x>> \in NatLess)
  BY NatLessIsWellFounded, WFMin
<1>2. ASSUME NEW y \in T
      PROVE  x <= y
  <2>1. x \in Nat /\ y \in Nat
    OBVIOUS
  <2>2. ~(y < x)
    BY <1>1, <2>1, NatLessIsLess
  <2> QED BY <2>1, <2>2
<1> QED BY <1>2

LEMMA SetInduction ==
  ASSUME NEW S, 0 \in S, \A n \in Nat : n \in S => n + 1 \in S
  PROVE  Nat \subseteq S
<1> DEFINE T == Nat \ S
<1> SUFFICES ASSUME T # {} PROVE FALSE
  OBVIOUS
<1>1. PICK x \in T : \A y \in T : x <= y
  BY LeastNumber
<1>2. x \in Nat /\ x # 0 /\ x - 1 \in Nat
  OBVIOUS
<1>3. x - 1 \notin S
  <2>1. (x - 1) + 1 = x
    BY <1>2
  <2> QED BY <1>2, <2>1
<1> QED BY <1>1, <1>2, <1>3

-----------------------------------------------------------------------------
(* Powers of two and widths. *)

PowersUpTo(f, n) == f = [k \in 0..n |-> IF k = 0 THEN 1 ELSE 2 * f[k - 1]]

LEMMA PowersExist ==
  ASSUME NEW n \in Nat
  PROVE  \E f : PowersUpTo(f, n)
<1> DEFINE S == {m \in Nat : \E f : PowersUpTo(f, m)}
<1>1. 0 \in S
  <2>1. PowersUpTo([k \in 0..0 |-> 1], 0)
    BY DEF PowersUpTo
  <2> QED BY <2>1
<1>2. ASSUME NEW m \in Nat, m \in S
      PROVE  m + 1 \in S
  <2>1. PICK f : PowersUpTo(f, m)
    BY <1>2
  <2> DEFINE g == [k \in 0..(m + 1) |-> IF k = 0 THEN 1 ELSE 2 * f[k - 1]]
  <2>2. \A k \in 0..m : g[k] = f[k]
    BY <2>1 DEF PowersUpTo
  <2>3. \A k \in 0..(m + 1) : k # 0 => k - 1 \in 0..m
    OBVIOUS
  <2>4. \A k \in 0..(m + 1) : k # 0 => g[k - 1] = f[k - 1]
    BY <2>2, <2>3
  <2>5. g = [k \in 0..(m + 1) |-> IF k = 0 THEN 1 ELSE 2 * g[k - 1]]
    BY <2>4
  <2>6. PowersUpTo(g, m + 1)
    BY <2>5 DEF PowersUpTo
  <2> QED BY <2>6
<1> QED BY <1>1, <1>2, SetInduction

LEMMA PowersAre ==
  ASSUME NEW n \in Nat
  PROVE  /\ PowersOfTwo(n)[0] = 1
         /\ \A k \in 0..n : k # 0 => PowersOfTwo(n)[k] = 2 * PowersOfTwo(n)[k - 1]
         /\ \A k \in 0..n : PowersOfTwo(n)[k] \in Nat /\ PowersOfTwo(n)[k] > k
<1> DEFINE p == PowersOfTwo(n)
<1>1. p = CHOOSE f : PowersUpTo(f, n)
  BY DEF PowersOfTwo, PowersUpTo
<1>2. PowersUpTo(p, n)
  BY <1>1, PowersExist
<1>3. p[0] = 1 /\ \A k \in 0..n : k # 0 => p[k] = 2 * p[k - 1]
  <2> HIDE DEF p
  <2> QED BY <1>2 DEF PowersUpTo
<1> HIDE DEF p
<1> DEFINE S == {k \in Nat : k <= n => p[k] \in Nat /\ p[k] > k}
<1>4. 0 \in S
  BY <1>3
<1>5. ASSUME NEW k \in Nat, k \in S
      PROVE  k + 1 \in S
  <2> SUFFICES ASSUME k + 1 <= n
               PROVE  p[k + 1] \in Nat /\ p[k + 1] > k + 1
    OBVIOUS
  <2>1. p[k] \in Nat /\ p[k] > k
    BY <1>5
  <2>2. k + 1 \in 0..n /\ k + 1 # 0 /\ (k + 1) - 1 = k
    OBVIOUS
  <2>3. p[k + 1] = 2 * p[k]
    BY <1>3, <2>2
  <2> QED BY <2>1, <2>3
<1>6. Nat \subseteq S
  <2> HIDE DEF S
  <2> QED BY <1>4, <1>5, SetInduction
<1>7. \A k \in 0..n : p[k] \in Nat /\ p[k] > k
  BY <1>6
<1> QED BY <1>3, <1>7 DEF p

LEMMA QuotientIs ==
  ASSUME NEW a \in Int, NEW d \in Nat, d > 0, NEW q \in Int, NEW r \in Int,
         a = q * d + r, 0 <= r, r < d
  PROVE  a \div d = q
OBVIOUS
LEMMA QuotientOne ==
  ASSUME NEW n \in Nat, NEW d \in Nat, 0 < n, n < d
  PROVE  (n + d - 1) \div d = 1
<1> DEFINE a == n + d - 1
           r == n - 1
<1>1. a \in Int /\ 1 \in Int /\ r \in Int /\ a = 1 * d + r /\ 0 <= r /\ r < d /\ d > 0
  OBVIOUS
<1>2. a \div d = 1
  <2> HIDE DEF a, r
  <2> QED BY <1>1, QuotientIs
<1> QED BY <1>2

(* Half of the width of a level is the width of the next one. *)
LEMMA WidthHalves ==
  ASSUME NEW n \in Nat, NEW p \in Nat, p > 0
  PROVE  (n + 2 * p - 1) \div (2 * p) = ((n + p - 1) \div p + 1) \div 2
<1> DEFINE q == (n + p - 1) \div p
           r == (n + p - 1) % p
           m == (q + 1) \div 2
<1>1. q \in Int /\ r \in Int /\ 0 <= r /\ r < p /\ n + p - 1 = q * p + r
  OBVIOUS
<1> HIDE DEF q, r
<1>2. m \in Int /\ (q + 1 = 2 * m \/ q + 1 = 2 * m + 1)
  BY <1>1
<1>3. CASE q + 1 = 2 * m
  <2>1. n + 2 * p - 1 = m * (2 * p) + r
    <3>1. (q + 1) * p = (2 * m) * p
      BY <1>3
    <3>2. (q + 1) * p = q * p + p /\ (2 * m) * p = m * (2 * p)
      BY <1>1, <1>2
    <3> HIDE DEF m
    <3> QED BY <1>1, <1>2, <3>1, <3>2
  <2>2. 0 <= r /\ r < 2 * p /\ 2 * p \in Nat /\ 2 * p > 0 /\ n + 2 * p - 1 \in Int
    BY <1>1
  <2> HIDE DEF m
  <2>3. (n + 2 * p - 1) \div (2 * p) = m
    BY <1>1, <1>2, <2>1, <2>2, QuotientIs
  <2> QED BY <2>3 DEF m, q
<1>4. CASE q + 1 = 2 * m + 1
  <2>1. n + 2 * p - 1 = m * (2 * p) + (r + p)
    <3>1. q * p = (2 * m) * p
      BY <1>4, <1>1, <1>2
    <3>2. (2 * m) * p = m * (2 * p)
      BY <1>1, <1>2
    <3> HIDE DEF m
    <3> QED BY <1>1, <1>2, <3>1, <3>2
  <2>2. 0 <= r + p /\ r + p < 2 * p /\ 2 * p \in Nat /\ 2 * p > 0 /\ n + 2 * p - 1 \in Int
        /\ r + p \in Int
    BY <1>1
  <2> HIDE DEF m
  <2>3. (n + 2 * p - 1) \div (2 * p) = m
    BY <1>1, <1>2, <2>1, <2>2, QuotientIs
  <2> QED BY <2>3 DEF m, q
<1> QED BY <1>2, <1>3, <1>4

LEMMA Widths ==
  ASSUME NEW s, Len(s) \in Nat \ {0}
  PROVE  /\ Width(s, 0) = Len(s)
         /\ \A k \in 0..Len(s) : Width(s, k) \in Nat \ {0}
         /\ \A k \in 0..Len(s) : k # 0 => Width(s, k) = (Width(s, k - 1) + 1) \div 2
         /\ Width(s, Len(s)) = 1
<1> DEFINE n == Len(s)
           p == PowersOfTwo(n)
<1>1. /\ p[0] = 1
      /\ \A k \in 0..n : k # 0 => p[k] = 2 * p[k - 1]
      /\ \A k \in 0..n : p[k] \in Nat /\ p[k] > k
  BY PowersAre
<1>2. \A k : Width(s, k) = (n + p[k] - 1) \div p[k]
  BY DEF Width
<1> HIDE DEF p, n
<1>n. n \in Nat /\ n > 0 /\ n = Len(s)
  BY DEF n
<1>3. Width(s, 0) = n
  <2>1. (n + 1 - 1) \div 1 = n
    BY <1>n
  <2> QED BY <1>1, <1>2, <2>1
<1>4. ASSUME NEW k \in 0..n, k # 0
      PROVE  Width(s, k) = (Width(s, k - 1) + 1) \div 2
  <2>1. k - 1 \in 0..n
    BY <1>4, <1>n
  <2>2. p[k - 1] \in Nat /\ p[k - 1] > 0
    BY <1>1, <2>1
  <2>3. p[k] = 2 * p[k - 1]
    BY <1>1, <1>4
  <2>4. (n + 2 * p[k - 1] - 1) \div (2 * p[k - 1]) = ((n + p[k - 1] - 1) \div p[k - 1] + 1) \div 2
    BY <1>n, <2>2, WidthHalves
  <2> QED BY <1>2, <2>3, <2>4
<1>5. ASSUME NEW k \in 0..n
      PROVE  Width(s, k) \in Nat \ {0}
  <2>1. ASSUME NEW d \in Nat, d > 0
        PROVE  (n + d - 1) \div d \in Nat \ {0}
    <3> DEFINE q == (n + d - 1) \div d
               r == (n + d - 1) % d
    <3>1. q \in Int /\ r \in Int /\ 0 <= r /\ r < d /\ n + d - 1 = q * d + r
      BY <1>n, <2>1
    <3> HIDE DEF q, r
    <3>2. q > 0
      <4> SUFFICES ASSUME q <= 0 PROVE FALSE
        BY <3>1
      <4>1. q * d <= 0
        BY <3>1, <2>1
      <4> QED BY <4>1, <3>1, <2>1, <1>n
    <3> QED BY <3>1, <3>2 DEF q
  <2>2. p[k] \in Nat /\ p[k] > 0
    BY <1>1, <1>5
  <2> QED BY <1>2, <2>1, <2>2
<1>6. Width(s, n) = 1
  <2>1. n \in 0..n
    BY <1>n
  <2>2. p[n] \in Nat /\ p[n] > n
    BY <1>1, <2>1
  <2>3. ASSUME NEW d \in Nat, d > n
        PROVE  (n + d - 1) \div d = 1
    BY <2>3, <1>n, QuotientOne
  <2>4. (n + p[n] - 1) \div p[n] = 1
    BY <2>2, <2>3
  <2> QED BY <1>2, <2>4
<1> QED BY <1>3, <1>4, <1>5, <1>6 DEF n
-----------------------------------------------------------------------------
(* The height of the tree and its levels. *)

LEMMA HeightIs ==
  ASSUME NEW s, Len(s) \in Nat \ {0}
  PROVE  /\ Height(s) \in 0..Len(s)
         /\ Width(s, Height(s)) = 1
         /\ \A g \in 0..(Height(s) - 1) : Width(s, g) > 1
<1> DEFINE S == {h \in 0..Len(s) : Width(s, h) = 1}
<1>1. S \subseteq Nat /\ S # {}
  BY Widths
<1>2. PICK h \in S : \A g \in S : h <= g
  <2> HIDE DEF S
  <2> QED BY <1>1, LeastNumber
<1>3. ASSUME NEW g \in 0..(h - 1)
      PROVE  Width(s, g) > 1
  <2>1. g \in 0..Len(s) /\ ~(h <= g)
    OBVIOUS
  <2>2. g \notin S
    BY <1>2, <2>1
  <2>3. Width(s, g) \in Nat \ {0} /\ Width(s, g) # 1
    BY <2>1, <2>2, Widths
  <2> QED BY <2>3
<1>4. h \in 0..Len(s) /\ Width(s, h) = 1 /\ \A g \in 0..(h - 1) : Width(s, g) > 1
  BY <1>3
<1> QED BY <1>4 DEF Height

(* What the definition of Tree asks of its levels up to n. *)
LevelOf(f, s, k) ==
  IF k = 0 THEN LeafHashes(s)
  ELSE [i \in 1..Width(s, k) |->
          <<f[k - 1][2 * i - 1],
            f[k - 1][IF 2 * i > Width(s, k - 1) THEN Width(s, k - 1) ELSE 2 * i]>>]
LevelsUpTo(f, s, n) == f = [k \in 0..n |-> LevelOf(f, s, k)]

LEMMA LevelsExist ==
  ASSUME NEW s, NEW n \in Nat
  PROVE  \E f : LevelsUpTo(f, s, n)
<1> DEFINE S == {m \in Nat : \E f : LevelsUpTo(f, s, m)}
<1>1. 0 \in S
  <2>1. LevelsUpTo([k \in 0..0 |-> LeafHashes(s)], s, 0)
    BY DEF LevelsUpTo, LevelOf
  <2> QED BY <2>1
<1>2. ASSUME NEW m \in Nat, m \in S
      PROVE  m + 1 \in S
  <2>1. PICK f : LevelsUpTo(f, s, m)
    BY <1>2
  <2> DEFINE g == [k \in 0..(m + 1) |-> LevelOf(f, s, k)]
  <2>2. \A k \in 0..m : g[k] = f[k]
    BY <2>1 DEF LevelsUpTo
  <2>3. \A k \in 0..(m + 1) : k # 0 => k - 1 \in 0..m
    OBVIOUS
  <2>4. \A k \in 0..(m + 1) : k # 0 => g[k - 1] = f[k - 1]
    BY <2>2, <2>3
  <2>5. \A k \in 0..(m + 1) : LevelOf(g, s, k) = LevelOf(f, s, k)
    <3> HIDE DEF g
    <3> QED BY <2>4 DEF LevelOf
  <2>6. g = [k \in 0..(m + 1) |-> LevelOf(g, s, k)]
    <3>1. \A h : (\A k \in 0..(m + 1) : LevelOf(h, s, k) = LevelOf(f, s, k))
                 => [k \in 0..(m + 1) |-> LevelOf(h, s, k)] = [k \in 0..(m + 1) |-> LevelOf(f, s, k)]
      OBVIOUS
    <3> QED BY <2>5, <3>1
  <2>7. LevelsUpTo(g, s, m + 1)
    BY <2>6 DEF LevelsUpTo
  <2> QED BY <2>7
<1> QED BY <1>1, <1>2, SetInduction

LEMMA TreeIs ==
  ASSUME NEW s, Len(s) \in Nat \ {0}
  PROVE  LevelsUpTo(Tree(s), s, Height(s))
<1>1. Tree(s) = CHOOSE f : LevelsUpTo(f, s, Height(s))
  BY DEF Tree, LevelsUpTo, LevelOf
<1>2. Height(s) \in Nat
  BY HeightIs
<1> QED BY <1>1, <1>2, LevelsExist
-----------------------------------------------------------------------------
(* Layers. *)

(* A layer of n nodes. *)
IsLayer(a, n) == a = [i \in 1..n |-> a[i]]

LEMMA LayerLength ==
  ASSUME NEW n \in Nat, NEW a, IsLayer(a, n)
  PROVE  Len(a) = n /\ DOMAIN a = 1..n
<1> DEFINE S == {a[i] : i \in 1..n}
<1>1. a \in [1..n -> S]
  BY DEF IsLayer
<1>2. a \in Seq(S)
  BY <1>1
<1>3. DOMAIN a = 1..n
  BY <1>1
<1> QED BY <1>2, <1>3

LEMMA BatchIs ==
  ASSUME NEW s \in Batches
  PROVE  /\ Len(s) \in Nat \ {0}
         /\ DOMAIN s = 1..Len(s)
         /\ \A i, j \in 1..Len(s) : s[i].id = s[j].id => i = j
<1>1. PICK n \in 1..MaxRows : s \in [1..n -> TelemetryRows]
  BY DEF Batches
<1>2. n \in Nat \ {0}
  BY TreeAssumption
<1>3. IsLayer(s, n)
  BY <1>1 DEF IsLayer
<1>4. Len(s) = n /\ DOMAIN s = 1..n
  BY <1>2, <1>3, LayerLength
<1> QED BY <1>2, <1>4 DEF Batches

LEMMA LeavesAre ==
  ASSUME NEW s \in Batches
  PROVE  /\ IsLayer(LeafHashes(s), Len(s))
         /\ Len(LeafHashes(s)) = Len(s)
         /\ \A i, j \in 1..Len(s) : LeafHashes(s)[i] = LeafHashes(s)[j] => i = j
         /\ \A i \in 1..Len(s) : \A l, r : LeafHashes(s)[i] # <<l, r>>
<1>1. IsLayer(LeafHashes(s), Len(s))
  BY BatchIs DEF LeafHashes, IsLayer
<1>2. Len(LeafHashes(s)) = Len(s)
  BY <1>1, LayerLength, BatchIs
<1>3. ASSUME NEW i \in 1..Len(s), NEW j \in 1..Len(s), LeafHashes(s)[i] = LeafHashes(s)[j]
      PROVE  i = j
  <2>1. LeafHash(s[i]) = LeafHash(s[j])
    BY <1>3, BatchIs DEF LeafHashes
  <2>2. s[i].id = s[j].id
    BY <2>1 DEF LeafHash, Canonical
  <2> QED BY <2>2, BatchIs
<1>4. ASSUME NEW i \in 1..Len(s), NEW l, NEW r, LeafHashes(s)[i] = <<l, r>>
      PROVE  FALSE
  <2>1. LeafHashes(s)[i] = <<Canonical(s[i])>>
    BY BatchIs DEF LeafHashes, LeafHash
  <2>2. \A x : <<x>> # <<l, r>>
    <3>1. \A x : 2 \notin DOMAIN <<x>> /\ 2 \in DOMAIN <<l, r>>
      OBVIOUS
    <3> QED BY <3>1
  <2> QED BY <2>1, <2>2, <1>4
<1> QED BY <1>1, <1>2, <1>3, <1>4

LEMMA LevelsAre ==
  ASSUME NEW s \in Batches
  PROVE  /\ Tree(s)[0] = LeafHashes(s)
         /\ \A k \in 0..Height(s) : /\ IsLayer(Tree(s)[k], Width(s, k))
                                    /\ Len(Tree(s)[k]) = Width(s, k)
                                    /\ Width(s, k) \in Nat \ {0}
         /\ \A k \in 0..Height(s) : k # 0 => Tree(s)[k] = NextLayer(Tree(s)[k - 1])
<1> DEFINE t == Tree(s)
<1>s. Len(s) \in Nat \ {0}
  BY BatchIs
<1>h. Height(s) \in 0..Len(s) /\ Height(s) \in Nat
  BY <1>s, HeightIs
<1>1. \A k \in 0..Height(s) : t[k] = LevelOf(t, s, k)
  <2>1. LevelsUpTo(t, s, Height(s))
    BY <1>s, TreeIs
  <2> HIDE DEF t
  <2> QED BY <2>1 DEF LevelsUpTo
<1> HIDE DEF t
<1>2. t[0] = LeafHashes(s)
  <2>1. t[0] = LevelOf(t, s, 0)
    BY <1>1, <1>h
  <2>2. LevelOf(t, s, 0) = LeafHashes(s)
    BY DEF LevelOf
  <2> QED BY <2>1, <2>2
<1>3. \A k \in 0..Height(s) : Width(s, k) \in Nat \ {0}
  BY <1>s, <1>h, Widths
<1>4. ASSUME NEW k \in 0..Height(s)
      PROVE  IsLayer(t[k], Width(s, k))
  <2>1. CASE k = 0
    BY <2>1, <1>2, <1>s, LeavesAre, Widths
  <2>2. CASE k # 0
    <3>1. t[k] = [i \in 1..Width(s, k) |->
                    <<t[k - 1][2 * i - 1],
                      t[k - 1][IF 2 * i > Width(s, k - 1) THEN Width(s, k - 1) ELSE 2 * i]>>]
      BY <1>1, <2>2 DEF LevelOf
    <3> QED BY <3>1 DEF IsLayer
  <2> QED BY <2>1, <2>2
<1>5. \A k \in 0..Height(s) : Len(t[k]) = Width(s, k)
  BY <1>3, <1>4, LayerLength
<1>6. ASSUME NEW k \in 0..Height(s), k # 0
      PROVE  t[k] = NextLayer(t[k - 1])
  <2> DEFINE w == Width(s, k - 1)
  <2>1. k - 1 \in 0..Height(s) /\ k \in 0..Len(s)
    BY <1>6, <1>h, <1>s
  <2>2. w \in Nat \ {0} /\ Len(t[k - 1]) = w
    BY <2>1, <1>3, <1>5
  <2>3. Width(s, k) = (w + 1) \div 2
    BY <1>6, <2>1, <1>s, Widths
  <2>4. t[k] = [i \in 1..Width(s, k) |->
                  <<t[k - 1][2 * i - 1], t[k - 1][IF 2 * i > w THEN w ELSE 2 * i]>>]
    BY <1>1, <1>6 DEF LevelOf
  <2> HIDE DEF w
  <2>5. \A i \in 1..((w + 1) \div 2) :
          t[k - 1][IF 2 * i > w THEN w ELSE 2 * i]
            = IF 2 * i <= w THEN t[k - 1][2 * i] ELSE t[k - 1][2 * i - 1]
    <3>1. \A i \in 1..((w + 1) \div 2) : 2 * i > w => w = 2 * i - 1
      BY <2>2
    <3> QED BY <2>2, <3>1
  <2> QED BY <2>2, <2>3, <2>4, <2>5 DEF NextLayer
<1> QED BY <1>2, <1>3, <1>4, <1>5, <1>6 DEF t
-----------------------------------------------------------------------------
(* A pass keeps different layers different. *)

Second(i, n) == IF 2 * i <= n THEN 2 * i ELSE 2 * i - 1
AllDifferent(a, n) == \A i, j \in 1..n : a[i] = a[j] => i = j
NothingShared(a, n, b, m) == \A i \in 1..n, j \in 1..m : a[i] # b[j]

LEMMA PassIs ==
  ASSUME NEW n \in Nat \ {0}, NEW a, IsLayer(a, n)
  PROVE  /\ (n + 1) \div 2 \in Nat \ {0}
         /\ IsLayer(NextLayer(a), (n + 1) \div 2)
         /\ Len(NextLayer(a)) = (n + 1) \div 2
         /\ \A i \in 1..((n + 1) \div 2) : /\ NextLayer(a)[i] = <<a[2 * i - 1], a[Second(i, n)]>>
                                           /\ 2 * i - 1 \in 1..n
                                           /\ Second(i, n) \in 1..n
<1> DEFINE m == (n + 1) \div 2
<1>1. m \in Nat \ {0}
  OBVIOUS
<1>2. Len(a) = n
  BY LayerLength
<1>3. \A i \in 1..m : 2 * i - 1 \in 1..n /\ Second(i, n) \in 1..n
  BY DEF Second
<1> HIDE DEF m
<1>4. NextLayer(a) = [i \in 1..m |-> <<a[2 * i - 1], a[Second(i, n)]>>]
  BY <1>2 DEF NextLayer, Second, m
<1>5. IsLayer(NextLayer(a), m)
  BY <1>4 DEF IsLayer
<1>6. Len(NextLayer(a)) = m
  BY <1>1, <1>5, LayerLength
<1> QED BY <1>1, <1>3, <1>4, <1>5, <1>6 DEF m

LEMMA PassMakesPairs ==
  ASSUME NEW n \in Nat \ {0}, NEW a, IsLayer(a, n)
  PROVE  \A i \in 1..((n + 1) \div 2) : \E l, r : NextLayer(a)[i] = <<l, r>>
<1>1. \A i \in 1..((n + 1) \div 2) : NextLayer(a)[i] = <<a[2 * i - 1], a[Second(i, n)]>>
  BY PassIs
<1> QED BY ONLY <1>1

LEMMA PairsAre == \A a, b, c, d : <<a, b>> = <<c, d>> => a = c /\ b = d
OBVIOUS

LEMMA PassKeepsNodesDifferent ==
  ASSUME NEW n \in Nat \ {0}, NEW a, IsLayer(a, n), AllDifferent(a, n)
  PROVE  AllDifferent(NextLayer(a), (n + 1) \div 2)
<1> DEFINE m == (n + 1) \div 2
<1> SUFFICES ASSUME NEW i \in 1..m, NEW j \in 1..m, NextLayer(a)[i] = NextLayer(a)[j]
             PROVE  i = j
  BY DEF AllDifferent
<1>1. /\ NextLayer(a)[i] = <<a[2 * i - 1], a[Second(i, n)]>> /\ 2 * i - 1 \in 1..n
      /\ NextLayer(a)[j] = <<a[2 * j - 1], a[Second(j, n)]>> /\ 2 * j - 1 \in 1..n
  BY PassIs
<1>2. a[2 * i - 1] = a[2 * j - 1]
  <2>1. <<a[2 * i - 1], a[Second(i, n)]>> = <<a[2 * j - 1], a[Second(j, n)]>>
    BY <1>1
  <2> QED BY ONLY <2>1, PairsAre
<1>3. 2 * i - 1 = 2 * j - 1
  BY <1>1, <1>2 DEF AllDifferent
<1> QED BY <1>3

LEMMA PassSharesNothing ==
  ASSUME NEW n \in Nat \ {0}, NEW a, IsLayer(a, n),
         NEW p \in Nat \ {0}, NEW b, IsLayer(b, p), NothingShared(a, n, b, p)
  PROVE  NothingShared(NextLayer(a), (n + 1) \div 2, NextLayer(b), (p + 1) \div 2)
<1> SUFFICES ASSUME NEW i \in 1..((n + 1) \div 2), NEW j \in 1..((p + 1) \div 2),
                    NextLayer(a)[i] = NextLayer(b)[j]
             PROVE  FALSE
  BY DEF NothingShared
<1>1. NextLayer(a)[i] = <<a[2 * i - 1], a[Second(i, n)]>> /\ 2 * i - 1 \in 1..n
  BY PassIs
<1>2. NextLayer(b)[j] = <<b[2 * j - 1], b[Second(j, p)]>> /\ 2 * j - 1 \in 1..p
  BY PassIs
<1>3. a[2 * i - 1] = b[2 * j - 1]
  <2>1. <<a[2 * i - 1], a[Second(i, n)]>> = <<b[2 * j - 1], b[Second(j, p)]>>
    BY <1>1, <1>2
  <2> QED BY ONLY <2>1, PairsAre
<1> QED BY <1>1, <1>2, <1>3 DEF NothingShared

(* An odd node is paired with itself, and nowhere else is a node paired with *)
(* one like it: layers of different lengths do not meet.                     *)
LEMMA PassTellsLongerLayersApart ==
  ASSUME NEW n \in Nat \ {0}, NEW a, IsLayer(a, n),
         NEW p \in Nat \ {0}, NEW b, IsLayer(b, p), AllDifferent(b, p),
         NextLayer(a) = NextLayer(b)
  PROVE  ~(n < p)
<1> SUFFICES ASSUME n < p
             PROVE  FALSE
  OBVIOUS
<1>1. (n + 1) \div 2 = (p + 1) \div 2
  BY PassIs
<1> DEFINE m == (n + 1) \div 2
<1>2. n = 2 * m - 1 /\ p = 2 * m /\ m \in 1..m /\ m \in Nat
  BY <1>1
<1>3. Second(m, n) = n /\ Second(m, p) = p
  BY <1>2 DEF Second
<1>p. m \in 1..((p + 1) \div 2) /\ m \in 1..((n + 1) \div 2) /\ 2 * m - 1 = n
  BY <1>1, <1>2
<1> HIDE DEF m
<1>4. NextLayer(a)[m] = <<a[2 * m - 1], a[Second(m, n)]>>
  BY <1>p, PassIs
<1>5. NextLayer(b)[m] = <<b[2 * m - 1], b[Second(m, p)]>>
  BY <1>p, PassIs
<1>6. b[n] = b[p]
  <2>1. a[2 * m - 1] = b[2 * m - 1] /\ a[Second(m, n)] = b[Second(m, p)]
    BY <1>4, <1>5, PairsAre
  <2> QED BY <1>3, <1>p, <2>1
<1>7. n \in 1..p /\ p \in 1..p /\ n # p
  OBVIOUS
<1> QED BY <1>6, <1>7 DEF AllDifferent

LEMMA PassTellsLayersApart ==
  ASSUME NEW n \in Nat \ {0}, NEW a, IsLayer(a, n), AllDifferent(a, n),
         NEW p \in Nat \ {0}, NEW b, IsLayer(b, p), AllDifferent(b, p),
         NextLayer(a) = NextLayer(b)
  PROVE  a = b /\ n = p
<1>1. n = p
  <2>1. ~(n < p)
    BY PassTellsLongerLayersApart
  <2>2. ~(p < n)
    BY PassTellsLongerLayersApart
  <2> QED BY <2>1, <2>2
<1>2. ASSUME NEW i \in 1..n
      PROVE  a[i] = b[i]
  <2> DEFINE m == (n + 1) \div 2
             k == (i + 1) \div 2
  <2>1. k \in 1..m
    OBVIOUS
  <2>2. i = 2 * k - 1 \/ i = 2 * k
    OBVIOUS
  <2>3. i = 2 * k => Second(k, n) = i
    BY DEF Second
  <2> HIDE DEF k
  <2>4. NextLayer(a)[k] = <<a[2 * k - 1], a[Second(k, n)]>>
    BY <2>1, PassIs
  <2>5. NextLayer(b)[k] = <<b[2 * k - 1], b[Second(k, n)]>>
    BY <2>1, <1>1, PassIs
  <2>6. a[2 * k - 1] = b[2 * k - 1] /\ a[Second(k, n)] = b[Second(k, n)]
    BY <2>4, <2>5, PairsAre
  <2> QED BY <2>2, <2>3, <2>6
<1> QED BY <1>1, <1>2 DEF IsLayer
-----------------------------------------------------------------------------
(* Trees of different batches have different roots. *)

LEMMA LevelWidths ==
  ASSUME NEW s \in Batches, NEW k \in 0..Height(s), k # 0
  PROVE  /\ k - 1 \in 0..Height(s)
         /\ Width(s, k) = (Width(s, k - 1) + 1) \div 2
<1>1. Len(s) \in Nat \ {0}
  BY BatchIs
<1>2. Height(s) \in 0..Len(s)
  BY <1>1, HeightIs
<1>3. k - 1 \in 0..Height(s) /\ k \in 0..Len(s)
  BY <1>1, <1>2
<1> QED BY <1>1, <1>3, Widths

LEMMA NodesAreDifferent ==
  ASSUME NEW s \in Batches
  PROVE  \A k \in 0..Height(s) : AllDifferent(Tree(s)[k], Width(s, k))
<1> DEFINE S == {k \in Nat : k <= Height(s) => AllDifferent(Tree(s)[k], Width(s, k))}
<1>h. Height(s) \in Nat
  BY HeightIs, BatchIs
<1>1. 0 \in S
  <2>1. Tree(s)[0] = LeafHashes(s) /\ Width(s, 0) = Len(s)
    BY LevelsAre, BatchIs, Widths
  <2> QED BY <2>1, LeavesAre DEF AllDifferent
<1>2. ASSUME NEW k \in Nat, k \in S
      PROVE  k + 1 \in S
  <2> SUFFICES ASSUME k + 1 <= Height(s)
               PROVE  AllDifferent(Tree(s)[k + 1], Width(s, k + 1))
    OBVIOUS
  <2>1. k \in 0..Height(s) /\ k + 1 \in 0..Height(s) /\ k + 1 # 0 /\ (k + 1) - 1 = k
    BY <1>h
  <2>2. AllDifferent(Tree(s)[k], Width(s, k))
    BY <1>2, <2>1
  <2>3. IsLayer(Tree(s)[k], Width(s, k)) /\ Width(s, k) \in Nat \ {0}
    BY <2>1, LevelsAre
  <2>4. Tree(s)[k + 1] = NextLayer(Tree(s)[k])
    BY <2>1, LevelsAre
  <2>5. Width(s, k + 1) = (Width(s, k) + 1) \div 2
    BY <2>1, LevelWidths
  <2> QED BY <2>2, <2>3, <2>4, <2>5, PassKeepsNodesDifferent
<1>3. Nat \subseteq S
  <2> HIDE DEF S
  <2> QED BY <1>1, <1>2, SetInduction
<1> QED BY <1>h, <1>3

(* Trees of the same height: going down from the root, every level of one is *)
(* that of the other.                                                        *)
LEMMA SameHeights ==
  ASSUME NEW s \in Batches, NEW t \in Batches, Height(s) = Height(t),
         LeafHashes(s) # LeafHashes(t)
  PROVE  \A k \in 0..Height(s) : Tree(s)[k] # Tree(t)[k]
<1> DEFINE S == {k \in Nat : k <= Height(s) => Tree(s)[k] # Tree(t)[k]}
<1>h. Height(s) \in Nat
  BY HeightIs, BatchIs
<1>1. 0 \in S
  BY LevelsAre
<1>2. ASSUME NEW k \in Nat, k \in S
      PROVE  k + 1 \in S
  <2> SUFFICES ASSUME k + 1 <= Height(s), Tree(s)[k + 1] = Tree(t)[k + 1]
               PROVE  FALSE
    OBVIOUS
  <2>1. k \in 0..Height(s) /\ k + 1 \in 0..Height(s) /\ k + 1 # 0 /\ (k + 1) - 1 = k
    BY <1>h
  <2>2. Tree(s)[k] # Tree(t)[k]
    BY <1>2, <2>1
  <2>3. /\ IsLayer(Tree(s)[k], Width(s, k)) /\ Width(s, k) \in Nat \ {0}
        /\ IsLayer(Tree(t)[k], Width(t, k)) /\ Width(t, k) \in Nat \ {0}
    BY <2>1, LevelsAre
  <2>4. AllDifferent(Tree(s)[k], Width(s, k)) /\ AllDifferent(Tree(t)[k], Width(t, k))
    BY <2>1, NodesAreDifferent
  <2>5. NextLayer(Tree(s)[k]) = NextLayer(Tree(t)[k])
    <3>1. Tree(s)[k + 1] = NextLayer(Tree(s)[k])
      BY <2>1, LevelsAre
    <3>2. Tree(t)[k + 1] = NextLayer(Tree(t)[k])
      BY <2>1, LevelsAre
    <3> QED BY <3>1, <3>2
  <2> QED BY <2>2, <2>3, <2>4, <2>5, PassTellsLayersApart
<1>3. Nat \subseteq S
  <2> HIDE DEF S
  <2> QED BY <1>1, <1>2, SetInduction
<1> QED BY <1>h, <1>3

(* Trees of different heights: a leaf is no pair, so no node of a level of   *)
(* one is a node of the level of the other that is as far from its root.     *)
LEMMA DifferentHeights ==
  ASSUME NEW s \in Batches, NEW t \in Batches, NEW d \in Nat \ {0}, Height(s) + d = Height(t)
  PROVE  \A k \in 0..Height(s) :
           NothingShared(Tree(s)[k], Width(s, k), Tree(t)[k + d], Width(t, k + d))
<1> DEFINE S == {k \in Nat : k <= Height(s) =>
                   NothingShared(Tree(s)[k], Width(s, k), Tree(t)[k + d], Width(t, k + d))}
<1>h. Height(s) \in Nat
  BY HeightIs, BatchIs
<1>1. 0 \in S
  <2>1. d \in 0..Height(t) /\ d # 0 /\ 0 + d = d
    BY <1>h
  <2>2. d - 1 \in 0..Height(t) /\ Width(t, d) = (Width(t, d - 1) + 1) \div 2
    BY <2>1, LevelWidths
  <2>3. IsLayer(Tree(t)[d - 1], Width(t, d - 1)) /\ Width(t, d - 1) \in Nat \ {0}
    BY <2>2, LevelsAre
  <2>4. Tree(t)[d] = NextLayer(Tree(t)[d - 1])
    BY <2>1, LevelsAre
  <2>5. \A j \in 1..Width(t, d) : \E l, r : Tree(t)[d][j] = <<l, r>>
    <3>1. \A j \in 1..((Width(t, d - 1) + 1) \div 2) :
            \E l, r : NextLayer(Tree(t)[d - 1])[j] = <<l, r>>
      BY <2>3, PassMakesPairs
    <3> QED BY <2>2, <2>4, <3>1
  <2>6. Tree(s)[0] = LeafHashes(s) /\ Width(s, 0) = Len(s)
    BY LevelsAre, BatchIs, Widths
  <2>7. NothingShared(Tree(s)[0], Width(s, 0), Tree(t)[d], Width(t, d))
    BY <2>5, <2>6, LeavesAre DEF NothingShared
  <2> QED BY <2>1, <2>7
<1>2. ASSUME NEW k \in Nat, k \in S
      PROVE  k + 1 \in S
  <2> SUFFICES ASSUME k + 1 <= Height(s)
               PROVE  NothingShared(Tree(s)[k + 1], Width(s, k + 1),
                                    Tree(t)[(k + 1) + d], Width(t, (k + 1) + d))
    OBVIOUS
  <2> DEFINE e == k + d
  <2>1. /\ k \in 0..Height(s) /\ k + 1 \in 0..Height(s) /\ k + 1 # 0 /\ (k + 1) - 1 = k
        /\ e \in 0..Height(t) /\ e + 1 \in 0..Height(t) /\ e + 1 # 0 /\ (e + 1) - 1 = e
        /\ (k + 1) + d = e + 1
    BY <1>h
  <2>2. NothingShared(Tree(s)[k], Width(s, k), Tree(t)[e], Width(t, e))
    BY <1>2, <2>1
  <2> HIDE DEF e
  <2>3. /\ IsLayer(Tree(s)[k], Width(s, k)) /\ Width(s, k) \in Nat \ {0}
        /\ IsLayer(Tree(t)[e], Width(t, e)) /\ Width(t, e) \in Nat \ {0}
    BY <2>1, LevelsAre
  <2>4. Tree(s)[k + 1] = NextLayer(Tree(s)[k]) /\ Width(s, k + 1) = (Width(s, k) + 1) \div 2
    BY <2>1, LevelsAre, LevelWidths
  <2>5. Tree(t)[e + 1] = NextLayer(Tree(t)[e]) /\ Width(t, e + 1) = (Width(t, e) + 1) \div 2
    BY <2>1, LevelsAre, LevelWidths
  <2>6. NothingShared(Tree(s)[k + 1], Width(s, k + 1), Tree(t)[e + 1], Width(t, e + 1))
    BY <2>2, <2>3, <2>4, <2>5, PassSharesNothing
  <2> QED BY <2>1, <2>6
<1>3. Nat \subseteq S
  <2> HIDE DEF S
  <2> QED BY <1>1, <1>2, SetInduction
<1> QED BY <1>h, <1>3
LEMMA RootIs ==
  ASSUME NEW s \in Batches
  PROVE  /\ Height(s) \in Nat /\ Height(s) \in 0..Height(s)
         /\ Width(s, Height(s)) = 1
         /\ Tree(s)[Height(s)] = <<Root(s)>>
<1>1. Height(s) \in Nat /\ Height(s) \in 0..Height(s) /\ Width(s, Height(s)) = 1
  BY HeightIs, BatchIs
<1>2. IsLayer(Tree(s)[Height(s)], 1)
  BY <1>1, LevelsAre
<1>3. \A a : IsLayer(a, 1) => a = <<a[1]>>
  BY DEF IsLayer
<1> QED BY <1>1, <1>2, <1>3 DEF Root

LEMMA HigherTreeDiffers ==
  ASSUME NEW s \in Batches, NEW t \in Batches, Height(s) < Height(t)
  PROVE  Root(s) # Root(t)
<1> DEFINE d == Height(t) - Height(s)
<1>1. d \in Nat \ {0} /\ Height(s) + d = Height(t)
  BY RootIs
<1> HIDE DEF d
<1>2. NothingShared(Tree(s)[Height(s)], 1, Tree(t)[Height(t)], 1)
  BY <1>1, DifferentHeights, RootIs
<1>3. Tree(s)[Height(s)][1] # Tree(t)[Height(t)][1]
  BY <1>2 DEF NothingShared
<1> QED BY <1>3 DEF Root

(* Batches with one root have the same leaves in the same order: nothing is  *)
(* added, dropped, repeated or moved, and no canonical text is another one   *)
(* (compute_merkle_root), for batches of any length.                         *)
THEOREM RootsTellBatchesApart ==
  ASSUME NEW s \in Batches, NEW t \in Batches, Root(s) = Root(t)
  PROVE  LeafHashes(s) = LeafHashes(t)
<1>1. Height(s) \in Nat /\ Height(t) \in Nat
  BY RootIs
<1>2. ~(Height(s) < Height(t)) /\ ~(Height(t) < Height(s))
  BY HigherTreeDiffers
<1>3. Height(s) = Height(t)
  BY <1>1, <1>2
<1>4. Tree(s)[Height(s)] = Tree(t)[Height(s)]
  BY <1>3, RootIs
<1> QED BY <1>3, <1>4, RootIs, SameHeights

-----------------------------------------------------------------------------
(* The loop. *)

(* The layer is a level of the tree of the readings. *)
LoopInv ==
  /\ readings \in Batches
  /\ \E k \in 0..Height(readings) : layer = Tree(readings)[k]

LEMMA LoopInit == TreeInit => LoopInv
<1> SUFFICES ASSUME TreeInit
             PROVE  LoopInv
  OBVIOUS
<1>1. readings \in Batches /\ layer = LeafHashes(readings)
  BY DEF TreeInit
<1>2. 0 \in 0..Height(readings) /\ layer = Tree(readings)[0]
  BY <1>1, RootIs, LevelsAre
<1> QED BY <1>1, <1>2 DEF LoopInv

LEMMA LoopNext == LoopInv /\ [TreeNext]_treeVars => LoopInv'
<1> SUFFICES ASSUME LoopInv, [TreeNext]_treeVars
             PROVE  LoopInv'
  OBVIOUS
<1>1. CASE TreeNext
  <2>1. PICK k \in 0..Height(readings) : layer = Tree(readings)[k]
    BY DEF LoopInv
  <2>2. readings \in Batches /\ Height(readings) \in Nat
    BY RootIs DEF LoopInv
  <2>3. Len(layer) > 1 /\ layer' = NextLayer(layer) /\ readings' = readings
    BY <1>1 DEF TreeNext
  <2>4. k # Height(readings)
    <3> SUFFICES ASSUME k = Height(readings)
                 PROVE  FALSE
      OBVIOUS
    <3>1. Len(Tree(readings)[k]) = 1
      BY <2>2, RootIs, LevelsAre
    <3> QED BY <2>1, <2>3, <3>1
  <2>5. k + 1 \in 0..Height(readings) /\ k + 1 # 0 /\ (k + 1) - 1 = k
    BY <2>2, <2>4
  <2>6. layer' = Tree(readings)[k + 1]
    BY <2>1, <2>2, <2>3, <2>5, LevelsAre
  <2> QED BY <2>2, <2>3, <2>5, <2>6 DEF LoopInv
<1>2. CASE UNCHANGED treeVars
  BY <1>2 DEF treeVars, LoopInv
<1> QED BY <1>1, <1>2

LEMMA LoopEnd ==
  ASSUME LoopInv, Len(layer) = 1
  PROVE  layer = <<Root(readings)>>
<1>1. PICK k \in 0..Height(readings) : layer = Tree(readings)[k]
  BY DEF LoopInv
<1>2. readings \in Batches
  BY DEF LoopInv
<1>3. Width(readings, k) = 1
  BY <1>1, <1>2, LevelsAre
<1>4. ~(k \in 0..(Height(readings) - 1))
  <2>1. \A g \in 0..(Height(readings) - 1) : Width(readings, g) > 1
    BY <1>2, BatchIs, HeightIs
  <2> QED BY <1>3, <2>1
<1>5. k = Height(readings)
  BY <1>2, <1>4, RootIs
<1> QED BY <1>1, <1>2, <1>5, RootIs

LEMMA LoopTypes == LoopInv => TreeTypeOK
<1> SUFFICES ASSUME LoopInv
             PROVE  Len(layer) \in 1..Len(readings)
  BY DEF LoopInv, TreeTypeOK
<1> DEFINE s == readings
           S == {k \in Nat : k <= Height(s) => Width(s, k) <= Len(s)}
<1>1. s \in Batches /\ Len(s) \in Nat \ {0} /\ Height(s) \in Nat
  BY BatchIs, RootIs DEF LoopInv
<1>2. 0 \in S
  BY <1>1, Widths
<1>3. ASSUME NEW k \in Nat, k \in S
      PROVE  k + 1 \in S
  <2> SUFFICES ASSUME k + 1 <= Height(s)
               PROVE  Width(s, k + 1) <= Len(s)
    OBVIOUS
  <2>1. k \in 0..Height(s) /\ k + 1 \in 0..Height(s) /\ k + 1 # 0 /\ (k + 1) - 1 = k
    BY <1>1
  <2>2. Width(s, k) <= Len(s) /\ Width(s, k) \in Nat \ {0}
    BY <1>1, <1>3, <2>1, LevelsAre
  <2>3. Width(s, k + 1) = (Width(s, k) + 1) \div 2
    BY <1>1, <2>1, LevelWidths
  <2> QED BY <1>1, <2>2, <2>3
<1>4. Nat \subseteq S
  <2> HIDE DEF S
  <2> QED BY <1>2, <1>3, SetInduction
<1>5. PICK k \in 0..Height(s) : layer = Tree(s)[k]
  BY DEF LoopInv
<1>6. Len(layer) = Width(s, k) /\ Width(s, k) \in Nat \ {0}
  BY <1>1, <1>5, LevelsAre
<1>7. Width(s, k) <= Len(s)
  BY <1>1, <1>4, <1>5
<1> QED BY <1>1, <1>6, <1>7

LEMMA LoopAlways == TreeSpec => []LoopInv
<1>1. TreeInit => LoopInv
  BY LoopInit
<1>2. LoopInv /\ [TreeNext]_treeVars => LoopInv'
  BY LoopNext
<1> QED BY <1>1, <1>2, PTL DEF TreeSpec

(* No layer is empty or wider than the batch (compute_merkle_root).          *)
THEOREM TreeTypeCorrect == TreeSpec => []TreeTypeOK
BY LoopAlways, LoopTypes, PTL

(* When the loop of compute_merkle_root has one node left, that node is the  *)
(* root of the tree by its definition.                                       *)
THEOREM LoopComputesTheRoot ==
  TreeSpec => [](Len(layer) = 1 => layer = <<Root(readings)>>)
<1>1. LoopInv => (Len(layer) = 1 => layer = <<Root(readings)>>)
  BY LoopEnd
<1> QED BY <1>1, LoopAlways, PTL

(* What the loop computes identifies the readings of the batch: whatever     *)
(* batch has that root has the same canonical texts in the same order        *)
(* (compute_merkle_root), for batches of any length.                         *)
THEOREM RootIdentifiesReadingsHolds == TreeSpec => []RootIdentifiesReadings
<1>1. LoopInv => RootIdentifiesReadings
  <2> SUFFICES ASSUME LoopInv, Len(layer) = 1, NEW other \in Batches, Root(other) = layer[1]
               PROVE  LeafHashes(other) = LeafHashes(readings)
    BY DEF RootIdentifiesReadings
  <2>1. layer = <<Root(readings)>> /\ readings \in Batches
    BY LoopEnd DEF LoopInv
  <2>2. Root(other) = Root(readings)
    BY <2>1
  <2> QED BY <2>1, <2>2, RootsTellBatchesApart
<1> QED BY <1>1, LoopAlways, PTL
=============================================================================

--------------------------- MODULE TelemetryAnchor ---------------------------
(***************************************************************************)
(* Sensor readings of one asset, their batches and the anchor of a batch   *)
(* on the ledger (telemetry.py).  create_telemetry_batch_anchor reads the  *)
(* unbatched readings, computes their Merkle root and commits a batch, the *)
(* links of the readings to it and an outbox row; nothing is locked, so it *)
(* is two actions.                                                         *)
(*                                                                         *)
(* The Merkle root of readings is the set of them: their order is fixed by *)
(* their time, and MerkleTree shows that a root identifies its readings.   *)
(* Readings are numbered by time (and id, among those of one time).        *)
(* Delivery to the ledger is one step, as in AssetRegistry.                *)
(***************************************************************************)
EXTENDS FieldLedgerContract

CONSTANTS
  Asset,        \* the asset
  Readings,     \* numbers of the readings
  MaxReadings,  \* max_readings of the anchor requests
  Sessions,     \* anchor requests between their query and their commit
  AnchorOrgs    \* organizations of the users that anchor

RegisterAssetOp  == <<"asset", Asset, "create">>
RegisterOf(b)    == <<"telemetry", b, "register">>
AnchorOperationIds == {RegisterAssetOp} \cup {RegisterOf(b) : b \in BatchIds}

ASSUME AnchorAssumption ==
  /\ AssetIds = {Asset}
  /\ OperationIds = AnchorOperationIds
  /\ Readings \subseteq Nat
  /\ Roots = SUBSET Readings
  /\ MaxReadings \in Nat \ {0}
  /\ AnchorOrgs \subseteq Orgs
  /\ None \notin BatchIds

VARIABLES
  batchOf,   \* the batch of each reading, None while it has none
  ingested,  \* the readings that have been stored
  batches,   \* telemetry_batches rows
  outbox,    \* ledger_outbox rows
  found      \* what each anchor request has read, None if there is no request

vars == <<contractVars, batchOf, ingested, batches, outbox, found>>

LedgerStatus == {"PENDING", "COMMITTED", "FAILED"}
BatchRows  == [merkleRoot : Roots, ledger : LedgerStatus]
OutboxRows == [request : Requests, status : LedgerStatus]

(* Rows and requests have their shape; an anchor request has found some      *)
(* readings, and not more than it asked for.                                 *)
TypeOK ==
  /\ ContractTypeOK
  /\ batchOf \in [Readings -> BatchIds \cup {None}]
  /\ ingested \subseteq Readings
  /\ batches \in [BatchIds -> BatchRows \cup {None}]
  /\ outbox \in [OperationIds -> OutboxRows \cup {None}]
  /\ found \in [Sessions -> (Roots \ {{}}) \cup {None}]
  /\ \A s \in Sessions : found[s] # None => Cardinality(found[s]) <= MaxReadings

ASSUME NoneIsNoAnchor ==
  /\ None \notin BatchRows
  /\ None \notin OutboxRows
  /\ \A root \in Roots : root # None

(* The asset has been created; its registration may still be on its way. *)
Init ==
  /\ ContractInit
  /\ batchOf = [r \in Readings |-> None]
  /\ ingested = {}
  /\ batches = [b \in BatchIds |-> None]
  /\ outbox = [o \in OperationIds |->
                 IF o = RegisterAssetOp
                 THEN [request |-> [operationId |-> o, action |-> "REGISTER_ASSET",
                                    organization |-> "OperatorOrg",
                                    payload |-> [assetId |-> Asset]],
                       status |-> "PENDING"]
                 ELSE None]
  /\ found = [s \in Sessions |-> None]

-----------------------------------------------------------------------------
(* A sensor or the simulation stores a reading; its time comes with it, so   *)
(* readings are not stored in order of time.                                 *)
IngestReading(r) ==
  /\ r \notin ingested
  /\ ingested' = ingested \cup {r}
  /\ UNCHANGED <<contractVars, batchOf, batches, outbox, found>>

WrongUnbatched == ingested  \* no test for the batch

Unbatched == {r \in ingested : batchOf[r] = None}

Earliest(rs) == {r \in rs : Cardinality({q \in rs : q < r}) < MaxReadings}

AnchorRead(s) ==
  /\ found[s] = None
  /\ Unbatched # {}
  /\ found' = [found EXCEPT ![s] = Earliest(Unbatched)]
  /\ UNCHANGED <<contractVars, batchOf, ingested, batches, outbox>>

WrongLinked(s) == Earliest(Unbatched)  \* UPDATE ... WHERE batch_id IS NULL

(* Every row the session has loaded is written, whatever it holds by now. *)
Linked(s) == found[s]

Anchor(s, b, organization) ==
  [operationId |-> RegisterOf(b), action |-> "REGISTER_TELEMETRY_BATCH",
   organization |-> organization,
   payload |-> [batchId |-> b, assetId |-> Asset, merkleRoot |-> found[s]]]

(* The id of the batch is new (uuid4). *)
AnchorCommit(s, b, organization) ==
  /\ found[s] # None
  /\ batches[b] = None
  /\ batches' = [batches EXCEPT ![b] = [merkleRoot |-> found[s], ledger |-> "PENDING"]]
  /\ batchOf' = [r \in Readings |-> IF r \in Linked(s) THEN b ELSE batchOf[r]]
  /\ outbox' = [outbox EXCEPT ![RegisterOf(b)] =
                  [request |-> Anchor(s, b, organization), status |-> "PENDING"]]
  /\ found' = [found EXCEPT ![s] = None]
  /\ UNCHANGED <<contractVars, ingested>>

(* The request ends without a commit. *)
AnchorRollback(s) ==
  /\ found[s] # None
  /\ found' = [found EXCEPT ![s] = None]
  /\ UNCHANGED <<contractVars, batchOf, ingested, batches, outbox>>

-----------------------------------------------------------------------------
(* The worker and the ledger.                                              *)

Unconfirmed(o) == outbox[o] # None /\ outbox[o].status # "COMMITTED"

(* update_aggregate: the one operation of a batch is its last one. *)
Settle(o, status) ==
  /\ outbox' = [outbox EXCEPT ![o].status = status]
  /\ batches' = [b \in BatchIds |->
                   IF RegisterOf(b) = o THEN [batches[b] EXCEPT !.ledger = status]
                                        ELSE batches[b]]
  /\ UNCHANGED <<batchOf, ingested, found>>

WrongConfirm(o) ==  \* what failed once is not tried again
  /\ Unconfirmed(o)
  /\ outbox[o].status = "PENDING"
  /\ \E id \in TxIds : Deliver(outbox[o].request, id)
  /\ Settle(o, "COMMITTED")

Confirm(o) ==
  /\ Unconfirmed(o)
  /\ \E id \in TxIds : Deliver(outbox[o].request, id)
  /\ Settle(o, "COMMITTED")

(* The contract refused it, or the attempt failed on the way. *)
Fail(o) ==
  /\ Unconfirmed(o)
  /\ Settle(o, "FAILED")
  /\ UNCHANGED contractVars

Next ==
  \/ \E r \in Readings : IngestReading(r)
  \/ \E s \in Sessions : AnchorRead(s) \/ AnchorRollback(s)
  \/ \E s \in Sessions, b \in BatchIds, organization \in AnchorOrgs :
       AnchorCommit(s, b, organization)
  \/ \E o \in OperationIds : Confirm(o) \/ Fail(o)

Spec == Init /\ [][Next]_vars

(* The worker tries every row again and again (LedgerDelivery), and attempts *)
(* the contract would accept do not fail for ever.                           *)
FairSpec == Spec /\ \A o \in OperationIds : WF_vars(Confirm(o))

-----------------------------------------------------------------------------
(* verify_telemetry_batch: the root of the readings that are linked now is   *)
(* compared with the one in the batch's row.                                 *)
ReadingsOf(b) == {r \in Readings : batchOf[r] = b}
Verified(b)   == batches[b] # None /\ ReadingsOf(b) = batches[b].merkleRoot

(* However anchors race, a reading is linked only to a batch whose root      *)
(* covers it: no reading counts as anchored that is not.                     *)
LinkedIsCovered ==
  \A r \in Readings :
     batchOf[r] # None =>
       batches[batchOf[r]] # None /\ r \in batches[batchOf[r]].merkleRoot

(* What the ledger says of a batch is what its row says, and a batch shown   *)
(* as COMMITTED is on the ledger.                                            *)
LedgerHasTheRoot ==
  \A b \in BatchIds :
     LET record == <<"telemetryBatch", b>> IN
     /\ Exists(record) =>
          batches[b] # None /\ world[record].merkleRoot = batches[b].merkleRoot
     /\ batches[b] # None /\ batches[b].ledger = "COMMITTED" => Exists(record)

(* Every batch has its outbox row, which asks for what the batch's row says. *)
RowsMatch ==
  /\ outbox[RegisterAssetOp] # None
  /\ outbox[RegisterAssetOp].request.operationId = RegisterAssetOp
  /\ outbox[RegisterAssetOp].request.action = "REGISTER_ASSET"
  /\ \A b \in BatchIds :
       LET row == outbox[RegisterOf(b)] IN
       /\ batches[b] # None <=> row # None
       /\ row # None =>
            /\ row.status = batches[b].ledger
            /\ row.request.operationId = RegisterOf(b)
            /\ row.request.action = "REGISTER_TELEMETRY_BATCH"
            /\ row.request.payload = [batchId |-> b, assetId |-> Asset,
                                      merkleRoot |-> batches[b].merkleRoot]

(* An applied registration has registered its batch. *)
AppliedIsRegistered ==
  \A b \in BatchIds : Applied(RegisterOf(b)) => Exists(<<"telemetryBatch", b>>)

(* A reading that a root covers stays linked, if not to that batch. *)
CoveredIsLinked ==
  \A b \in BatchIds :
     batches[b] # None => \A r \in batches[b].merkleRoot : batchOf[r] # None

(* The ledger's records and the links of the readings, with the rows and     *)
(* operations they rest on (create_telemetry_batch_anchor commits batch,     *)
(* links and outbox row together; the worker sends what the row holds).      *)
AnchorInv ==
  /\ RowsMatch
  /\ AppliedIsRegistered
  /\ CoveredIsLinked
  /\ LinkedIsCovered
  /\ LedgerHasTheRoot

(* An anchor that starts after another one has committed takes none of the   *)
(* readings that one covers, whoever has them linked by now (telemetry.py    *)
(* looks for readings without a batch, and no link is ever removed).         *)
AnchorsTakeNewReadings ==
  [][\A s \in Sessions, b \in BatchIds :
       (found[s] = None /\ found'[s] # None /\ batches[b] # None) =>
         found'[s] \cap batches[b].merkleRoot = {}]_vars

Shares(b) ==
  \E c \in BatchIds \ {b} :
     batches[c] # None /\ batches[c].merkleRoot \cap batches[b].merkleRoot # {}

(* A batch none of whose readings is in another one too verifies from its    *)
(* anchor on, whatever is ingested, anchored and delivered beside it.        *)
UnsharedBatchVerifies ==
  \A b \in BatchIds : batches[b] # None /\ ~Shares(b) => Verified(b)

(* Every batch of the operator is confirmed, whatever failed before.         *)
EveryBatchIsConfirmed ==
  \A b \in BatchIds :
     batches[b] # None ~> (batches[b] # None /\ batches[b].ledger = "COMMITTED")

(* A statement of the code and its tests that a run refutes: an anchored     *)
(* batch verifies (test_telemetry.py:117), also when two anchors race.       *)
AnchoredBatchVerifies == \A b \in BatchIds : batches[b] # None => Verified(b)
=============================================================================

# A verified model of FieldLedger

FieldLedger keeps the maintenance history of industrial assets: a FastAPI
application stores assets, maintenance events, evidence files and telemetry, and
an outbox worker copies the facts that matter to a Hyperledger Fabric channel
shared by an operator, a contractor and an auditor. This directory holds TLA+
modules of its core, TLC configurations that check them on small instances, and
proofs, checked by TLAPS, of what holds for instances of every size. Paths below
are relative to `src/`.

## 1. Inventory

| Component (source) | State | Operations | Interacts with | What makes it correct |
|---|---|---|---|---|
| Chaincode (`blockchain/chaincode/fieldledger/src/`) | world state: assets, events, documents by hash and by id, telemetry batches by id and by root, idempotency records | CreateAsset, ProposeEvent, ReviewEvent, RegisterDocument, DecommissionAsset, RegisterTelemetryBatch; queries | called by the gateway, validated by the channel | an operation applied once; a review final and by another organization; a hash bound to one document; no job done twice |
| Gateway (`services/fabric-gateway/src/`) | none | submit (endorse, submit, wait for the block), evaluate | HTTP from the worker and the API, gRPC to Fabric | says "ok" only of a valid transaction |
| Outbox worker (`apps/api/app/ledger_worker.py`) | `ledger_outbox` rows, ledger columns of events, documents and batches | next_item, submit, update_aggregate, main loop | PostgreSQL shared with the API, HTTP to the gateway | COMMITTED is true and final; every row is confirmed in the end; business rows show the fate of their last operation |
| Outbox (`app/ledger.py`) | `ledger_outbox` rows | enqueue | inside the transaction of each API handler | a change and its row are committed together |
| Events (`app/events.py`) | `asset_events` | propose, approve, reject | outbox | one decision per event, the one on the ledger |
| Documents (`app/documents.py`, `app/storage.py`) | `asset_documents`, MinIO objects | upload, download, verify | MinIO, outbox, gateway | a document has its object and its outbox row; evidence only before the review |
| Assets (`app/assets.py`) | `assets` | create, update, delete, decommission, timeline | outbox, events | what is retired stays retired; ledger and database agree |
| Telemetry (`app/telemetry.py`) | readings, batches | ingest, simulate, anchor, verify | outbox, gateway | a reading in one batch; an anchored batch verifies |
| Reconciliation (`app/reconcile_ledger.py`) | outbox | one run | PostgreSQL while the API runs | enqueues everything that is missing |
| Backup (`scripts/backup.sh`) | a dump and a copy of the volume | dump, stop MinIO, copy, start | PostgreSQL and MinIO while the API runs | every row of the dump has its object in the copy |
| Authentication (`app/auth.py`) | login failures per client, in the memory of one process | login, demo login, token check | every handler | hardly more failures than the configured attempts in a window; nobody refused who has some left |
| Requests (`app/schemas.py`, columns of `app/models.py`, `validation.ts`) | none | validation at the API, the database, the gateway and the contract | handlers, worker | what one of them accepts the next one takes |
| Schema (`migrations/`) | the tables, their constraints, `alembic_version` | upgrade, downgrade, by hand and at the start of every replica | the API and the worker while they run | no sequence of migrations loses what the ledger has |
| Web interface (`app/static/app.js`) | selected asset, lists, refresh flag | refresh, select, create, review, upload, verify | API | lists belong to the selected asset |
| Demo identities, smoke test, deployment (`app/seed.py`, `app/e2e_ledger_smoke.py`, `infra/`) | - | run by hand or once | - | - |

The behaviours that are hard to test are between components: two handlers that
check a row before either commits; an API handler that commits while the worker
records an answer about the same row; a crash of the worker after the gateway has
the request; a transaction that takes effect after everybody gave up on it; the
same operation submitted twice, or by two clients; a commit that happened and was
not acknowledged; a reader of several rows, or of two stores, among writers; two
processes that migrate one database; a password that is verified outside of the lock
that counts its failures. `PROJECT.json` lists them with their lines under `hazards`.

## 2. Modules

| Module | Models |
|---|---|
| `FieldLedgerContract` | the chaincode and the channel's treatment of a transaction; no specification of its own |
| `LedgerChannel` | the channel with arbitrary clients of the three organizations |
| `LedgerDelivery` | API handlers, PostgreSQL, MinIO, worker, gateway and channel together |
| `ConfirmedDelivery` | abstract: what the outbox promises |
| `AssetRegistry` | the life of assets with racing requests, the reconciliation beside it, and their delivery in steps of whole attempts |
| `TelemetryAnchor` | readings, batches, concurrent anchors and the verification, with the same delivery |
| `MerkleTree` | the loop that computes a Merkle root, and the tree it should compute |
| `EvidenceTrail` | two uploads of one file and what reads them: the backup, the timeline, the verification |
| `LoginLimiter` | failed logins of one process, with threads and a clock |
| `SchemaHistory` | migrations up and down beside the API, the worker and the reconciliation |
| `RequestBounds` | lengths of texts and ids through schemas, columns and contract |
| `MCLedgerChannel`, `MCLedgerDelivery`, `MCAssetRegistry`, `MCTelemetryAnchor`, `MCMerkleTree`, `MCEvidenceTrail`, `MCLoginLimiter`, `MCSchemaHistory`, `MCRequestBounds` | instances for TLC |
| `FieldLedgerContract_proofs`, `LedgerChannel_proofs`, `LedgerDelivery_proofs`, `AssetRegistry_proofs`, `Telemetry_proofs` (of `TelemetryAnchor` and `MerkleTree`), `EvidenceTrail_proofs`, `SchemaHistory_proofs`, `ApiEntry_proofs` (of `LoginLimiter` and `RequestBounds`) | theorems and proofs |

`LedgerDelivery` composes the API, the two stores, the worker, the gateway and the channel.
`AssetRegistry` and `TelemetryAnchor` put the contract of `FieldLedgerContract` under their own
handlers. The other modules stand alone: they follow one question through several components
and leave to `LedgerDelivery` what happens inside an attempt of the worker.

### FieldLedgerContract

A transaction takes two steps. `Endorse` simulates a submit function on the
current state and records what it read and what it wants to write; `CommitValid`
applies the writes if nothing that was read has changed since, `CommitInvalid`
and `Lose` drop the transaction. Each submit function is an operator of the same
name that gives its checks, its read set and its writes; `Repeats`, `Endorsable`
and `Endorsed` are the wrapper `idempotent`, `Authorized` is `organization`.

`operations` holds the idempotency records, `world` every other key. The digest of
a payload is the payload (no collisions of SHA-256). Free text is left out.
Fabric compares versions of keys where `Valid` compares values; the two
agree because no key that is read ever returns to an earlier value (assets only
get decommissioned, events only get decided and take hashes that can be
registered once, hashes, batches and idempotency records are written once). An
asset record of the contract has no field `status` before it is decommissioned;
the model writes REGISTERED.

### LedgerDelivery

| Variable | Stands for |
|---|---|
| `assets`, `events`, `documents`, `outbox` | PostgreSQL rows, `None` where there is no row |
| `created` | the order of `created_at` |
| `objects` | objects in MinIO |
| `reviews`, `uploads` | requests between the check and the commit, with the column values their session loaded |
| `worker` | where the worker is in `next_item` / `submit`, and what it has loaded |
| `calls` | requests the gateway has and has not endorsed |
| `operations`, `world`, `inflight` | the contract (from `FieldLedgerContract`) |
| `faults` | how many faults have happened |

| Action | Code |
|---|---|
| `CreateAssetRow`, `ProposeMaintenance` | `create_asset`, `propose_maintenance`: checks and keys are enforced by the commit, so one action each |
| `ReviewCheck`, `ReviewCommit`, `ReviewRollback` | `review_event` before and after its commit |
| `UploadCheck`, `UploadPut`, `UploadCommit`, `UploadRollback`, `UploadCommitUnacknowledged`, `UploadCrash` | `upload_document` |
| `Claim` | `next_item` (one transaction with `FOR UPDATE SKIP LOCKED`) |
| `Post`, `Unreachable`, `Timeout` | the HTTP request of `submit` |
| `FindLatest`, `LoadView`, `Record` | the transaction that records the answer: the query of `update_aggregate` for the latest operation, the load of the business row, the commit |
| `Crash` | the worker process dies and is restarted |
| `TimePasses` | `next_attempt_at` comes, or a SUBMITTED row gets two minutes old |
| `GatewayEndorse`, `GatewayReject`, `GatewayFail` | `submit` of the gateway up to the orderer |
| `OrderValid`, `OrderInvalid`, `OrdererFail` | the block, its commit status, or none |

Choices a reader should know:

- PostgreSQL runs at READ COMMITTED and the handlers lock nothing, so a handler
  that reads and commits is two actions. SQLAlchemy writes only columns whose value
  differs from the one loaded; `Flush` says so, and it matters: an upload that
  assigns PENDING to a row it loaded as PENDING does not undo a COMMITTED written
  meanwhile.
- The recording transaction loads its outbox row with the query for the latest operation
  (`FindLatest`), as no column of that row is compared with anything: each is assigned, and nobody
  else writes it while the one worker has the row. The business row is read one step later (`LoadView`).
- `created_at` is taken when the row is built and is assumed to order rows as
  their commits do.
- The idempotency key of a proposal is unique with its event: a proposal for an
  existing event fails either way.
- A reviewer is never the performer: only contractors propose, only operators and
  admins review. Checks of single request fields (422) are left out.
- A transaction id is taken from a finite set and may be taken again once nothing
  refers to it.
- One asset, event or document never changes its id; assets are only created here,
  the rest of their life is `AssetRegistry`.

### ConfirmedDelivery

Three growing sets: operations queued, applied, confirmed, each a subset of the one
before. Every step adds one element to one of them. `LedgerDelivery` implements it
with the rows of the outbox, the idempotency records and the rows marked COMMITTED: safety for
every instance with one worker by proof (`KeepsThePromise`), liveness by TLC
(`KeepsThePromiseFairly`).

### AssetRegistry

| Variable | Stands for |
|---|---|
| `assets`, `events`, `outbox` | PostgreSQL rows; `retired` is `decommissioned_at` being set |
| `latest` | the operation of each event with the last `created_at` |
| `requests` | updates, deletions and decommissions between `get_asset_or_404` and the commit, with the status their session loaded and the one it assigns |
| `scan` | what the running reconciliation found missing |
| `reconciled` | a reconciliation has been completed |
| `operations`, `world`, `inflight` | the contract |

| Action | Code |
|---|---|
| `CreateAssetRow`, `ProposeMaintenance`, `ReviewEventRow` | `create_asset`, `propose_maintenance`, `review_event` |
| `UpdateCheck`, `UpdateCommit` | `update_asset` |
| `DeleteCheck`, `DeleteCommit` | `delete_asset`, with the foreign key of the events |
| `DecommissionCheck`, `DecommissionCommit` | `decommission_asset` |
| `Rollback` | a commit that fails, or the death of the process |
| `ReconcileRead`, `ReconcileCommit`, `ReconcileFail` | `reconcile_ledger.main`: one transaction, read and then committed, stopped, or refused because a handler queued one of the rows meanwhile |
| `Confirm`, `Fail` | an attempt of the worker, from claim to answer |

- Of the columns an update may assign only the status matters to anything else. As
  everywhere, a session writes the status only if it differs from the one it loaded
  (`StatusAfter`).
- `Confirm` endorses and commits in one step (`Deliver` of `FieldLedgerContract`). What may
  happen between the steps of an attempt is the subject of `LedgerDelivery`, which is
  also why an event is reviewed in one action here.
- Rows from before the ledger (migration `20260814_0003` adds the outbox) are part of
  the initial states: an asset, with or without an event that may have been reviewed.
- The reconciliation's pass over documents is in `SchemaHistory`. Events of decommissions are created by decommissions only: contractors
  may send any event id, and one of the form `EVT-DECOM-<asset>` would block the decommission.
  `ProposeMaintenance` ranges over all event ids, these included.
- Ids are taken to be short enough for the ids that are built from them; `RequestBounds` says
  which are.
- `Confirmable` is the condition under which an attempt succeeds; `NothingIsStuck`, a safety
  property, says with it what a liveness property would rest on, without a fairness assumption.

### TelemetryAnchor

| Variable | Stands for |
|---|---|
| `ingested`, `batchOf` | `telemetry_readings` rows and their `batch_id` |
| `batches`, `outbox` | PostgreSQL rows |
| `found` | `unbatched` of each open request of `create_telemetry_batch_anchor` |
| `operations`, `world`, `inflight` | the contract |

`IngestReading` is `ingest_reading` and `simulate_telemetry_stream`; `AnchorRead`, `AnchorCommit` and
`AnchorRollback` are `create_telemetry_batch_anchor` before and after its commit; `Confirm` and
`Fail` are as in `AssetRegistry`; `Verified` is what `verify_telemetry_batch` answers. Readings are
numbered by time, with which they arrive in any order. The root of a batch is the set of its
readings; `MerkleTree` says why it may be. The update of the links is by primary key, so
`Linked` overwrites whatever a reading is linked to by then.

### MerkleTree

`readings` and `layer` are the argument and `current_layer` of `compute_merkle_root`; a step is an
iteration of its `while`. A hash is the tuple of what was hashed (no collisions). The definition
the loop is compared with, `Tree`, takes the number of nodes of each level from the readings a node
covers, a power of two, and not from the level below. Of the four values of a reading one is
modelled, with the rounding of its text; two hashes side by side, the text of an inner node, are
taken never to read like the text of a leaf.

### EvidenceTrail

| Variable | Stands for |
|---|---|
| `uploads` | how far each `upload_document` got: checked, bytes stored, answered |
| `objects` | objects in MinIO |
| `rows`, `event`, `outbox` | PostgreSQL: status of the document rows, status and `document_hash` of the event, status of the operations |
| `ledger`, `registry` | operations the contract applied, and its key `documentHash` |
| `minio`, `backup` | whether MinIO runs; the step of `backup.sh` with what its dump and its copy hold |
| `timeline` | the reads `get_asset_timeline` has done so far |
| `doubtful` | documents whose commit PostgreSQL performed but could not acknowledge |

| Action | Code |
|---|---|
| `UploadCheck`, `UploadPut`, `UploadPutFails`, `UploadCommit`, `UploadCommitUnacknowledged`, `UploadRollback` | `upload_document` with `put_bytes` and `remove`, which may raise and do while MinIO is stopped; what `put_bytes` was to store may be there although it raised |
| `ReviewEvent` | `review_event` |
| `Deliver`, `RecordCommit`, `RecordFailure` | an attempt of the worker: the transaction, and the record of its answer |
| `Dump`, `StopMinio`, `Copy`, `StartMinio`, `BackupFails` | the commands of `backup.sh`, any of which may fail; the trap then starts MinIO, unless it is not set yet (`:41`, after the stop) or does not run |
| `MakeUp` | somebody starts MinIO after such a backup (`make up`) |
| `ReadEvent`, `ReadDocuments`, `ReadOperation`, `ReadReview`, `Answer` | the statements of `get_asset_timeline`, each of which sees what is committed when it runs |

A late answer may be recorded as a failure of an applied operation (`RecordFailure` does not look
at the ledger), and it may be repaired by the retry. The two documents have one hash, as the
column is not unique. The order of the backup matters in one direction only: what is
uploaded between the dump and the copy leaves objects without rows, which harm nothing. Nobody is
assumed to start MinIO while a backup copies its volume. The event is one that was proposed: that of
a decommission is created APPROVED, without a review operation and without documents.

### LoginLimiter

`times` and `popped` are the deque of each client, `logins` the requests between
`enforce_login_rate_limit` and its answer, `now` the monotonic clock in ticks. `Arrive` reads the
clock, which the code does before it takes the lock, so entries are pruned for an older time than
those that follow are counted with. `Admit` and `Refuse` are what happens under the lock, `Fails`
and `Succeeds` what happens after the password was verified, `Errs` the login that ends with
an error before (`db.get` raises) and counts nothing. A success drops the
entry, whoever of the client's users had it. The failures are those of one process: a deployment
with several counts each on its own. An address that is refused, or never succeeds, keeps its entry.

### SchemaHistory

A revision is the number of its migration. An alembic run is planned from the
revision it reads (`Start`) and is one transaction (`env.py`), so it takes effect as a whole if the
version row is still the one it read and no constraint refuses (`Migrate`), or not at all
(`RollBack`). What matters of the revisions: 2 brings events and documents, one per event; 3 the
outbox; 5 several documents per event, decommissions and telemetry; 6 the two
actions those need. The history starts at revision 2 with whatever an older API left. Handlers are
one action each, as their races are the subject of the other modules; those whose
models have a column the table lacks fail before they write (`revision >= 5`). `Reconcile` is one
transaction; of each event it takes one document, whichever the database returns. Nothing
takes an operation back from the ledger, whatever the database forgets.

### RequestBounds

A text is three numbers: the characters the contract keeps, how many of them are outside the basic
plane (two UTF-16 units each), and the characters that Python's `strip` leaves and JavaScript's `trim`
takes (U+FEFF and blanks behind it); and whether it has a NUL. `Bounds` collects for each field the
limits of `schemas.py`, of the column and of `validation.ts`, and what handlers add to ids
(`EVT-DECOM-`, `BATCH-` with twelve digits, `asset:...:decommission`). `Validate`, `Store` and `Submit` are
the three places that judge a request; a refusal by the contract is retried, so `Submit` takes
what was refused again.

### Mutants

An operator whose name begins with `Wrong` stands before the definition it is a
mistaken version of. No specification uses it; replacing the definition by it must
make TLC find the named property violated.

| Operator | The mistake | Property that breaks |
|---|---|---|
| `WrongCreateAsset` | an asset gets the status it has in PostgreSQL | `TypeOK` |
| `WrongProposeEvent` | the asset is not looked up | `FourEyes` |
| `WrongReviewEvent` | a reviewed event is reviewed again | `ReviewIsFinal`, `NoJobDoneTwice` |
| `WrongRegisterAgain` | the hash is not looked up | `HashKeepsItsDocument` |
| `WrongRegisterAnywhere` | event and asset are not compared | `EvidenceBelongsToEvent` |
| `WrongRegisterTelemetryBatch` | a batch is registered again | `MerkleIndexIsSound` |
| `WrongApply` | a repetition writes the idempotency record again | `AppliedOnce` |
| `WrongEnqueueOnce` | a second row is silently dropped | `DecisionsAgree` |
| `WrongUploadCrash` | the document is committed before its outbox row | `EveryChangeIsQueued` |
| `WrongEligible` | the status is not looked at | `CommittedIsFinal` |
| `WrongTimePasses` | a SUBMITTED row is never claimed again | `EveryOperationIsConfirmed`, `KeepsThePromiseFairly` |
| `WrongOrphaned` | a late answer goes to whoever waits next | `DeliveryInv` |
| `WrongTimeout` | no answer is taken for success | `CommittedIsOnLedger`, `KeepsThePromise` |
| `WrongIsLatest` | every operation updates the aggregate | `SettledEventShowsLastOperation` (`reviews`) |
| `WrongAttached` | an upload resets the transaction of the event with its status | `SettledEventShowsLastOperation` (`evidence`) |
| `WrongRecordedCommitted` | a failed attempt is shown like a good one | `DocumentShowsItsOperation` |
| `WrongUploadRollback` | the object of a failed upload is left | `EvidenceIsWhole` |
| `WrongReferenced` | only events under review keep their asset | `RetirementIsWhole` |
| `WrongReconcileFail` | a failed reconciliation is taken for a completed one | `HistoryIsQueued` |
| `WrongReviewEventRow` | a second review changes the row, but not the outbox | `LedgerAgrees` |
| `WrongConfirmable` | what failed once is not tried again | `NothingIsStuck` |
| `WrongConfirm` | the same, of a batch | `EveryBatchIsConfirmed` |
| `WrongLinked` | the readings are looked up again when they are linked | `AnchorInv`, `UnsharedBatchVerifies` |
| `WrongUnbatched` | readings of a batch are anchored again | `AnchorsTakeNewReadings` |
| `WrongNextLayer` | the last node of an odd layer is forgotten | `RootIdentifiesReadings`, `EndsWithTheRoot` |
| `WrongFull` | one failure more than the limit is let through | `WindowIsBounded` |
| `WrongFails` | a failure is counted with the time its login arrived at | `RefusedOnlyWhenFull` |
| `WrongAcceptedTwins` | the downgrade does not put the unique constraint back | `SchemaInv` |
| `WrongAccepted` | the downgrade does not put the check on the actions back | `NewerIsKept` |
| `WrongWanted` | the reconciliation leaves out reviewed events | `ReconciledIsQueued` |
| `WrongRequireString` | the contract's limit is one unit less | `OnlyUnitsAreRefused` |
| `WrongIdIsValid` | the schema has no limit on ids | `OnlyDerivedIdsAreTooLong` |
| `WrongUploadPut` | an error of MinIO does not end the upload | `BackupIsRestorable` |
| `WrongRegistrable` | a registered hash is taken over | `VerifiedIsKept` |
| `WrongReadDocuments` | the timeline reads the documents before the event | `TimelineIsCoherent` |

## 3. What TLC checks

| Run | Question | Instance |
|---|---|---|
| `channel_clients` | Does the contract keep its records sound whatever clients send? | 1 event, 2 assets, 2 documents with one hash, 2 batches, 2 roots, 4 operation ids, 2 transactions in flight |
| `reviews` | Do database and ledger agree under racing reviews and faults, and is ConfirmedDelivery implemented? | 1 asset, 1 event, 2 reviewers, 2 faults |
| `evidence` | Does the inductive invariant hold with uploads, is every change queued, what do events and documents show, do the two stores agree, and is every operation applied and confirmed? | 1 asset, 1 event, 1 document, 1 reviewer, 1 fault |
| `races` | Is a decommission whole, does the reconciliation miss nothing, does the ledger agree, and does nothing queued wait in vain, whatever requests race? | 1 asset, 1 maintenance event, 2 requests, old rows or none |
| `anchors` | Which readings does a batch have, what does the ledger say of it, when does it verify, is it confirmed? | 3 readings, at most 2 in a batch, 2 batches, 2 requests |
| `roots` | Does the loop compute the tree, and does a root tell batches apart? | up to 5 readings in any order, one of them with 4 values |
| `logins` | How far do parallel logins exceed the limit, and is anybody refused too early? | 2 clients, 3 threads, limit 2, window of 2 ticks, clock up to 3 |
| `migrations` | What do upgrades and downgrades keep, and what does the reconciliation leave out? | 1 maintenance event with 2 documents, 1 retirement, 1 batch, 2 migrators, 6 revisions |
| `bounds` | What does one place accept and the next one refuse? | 9 fields, lengths on both sides of every bound |
| `readers` | Do backup, verification and timeline see whole evidence while it is written? | 2 uploads of one file, 1 event, 1 backup and 1 timeline at a time |
| `shown`, `overlap` | Statements of the documentation, the code or its tests that do not hold | as `reviews` with one reviewer and no fault, as `anchors` |

Why these bounds: the properties of the contract speak about two transactions that
conflict, so two in flight and two candidates for each contended key are enough
to reach every conflict; four operation ids allow a reuse beside a full sequence
create, propose, register, review. In the delivery the contended rows are one
event's; two reviewers give the race of two decisions, one document the race with
an upload. Two faults give a crash followed by a lost answer of the retry (three
submissions of one operation). Transaction ids are never exhausted
(`TxIds` is larger than what can be referred to; one is enough where an attempt is one step).

A race over an asset is between two requests, its events and the reconciliation, which all
name one asset: nothing relates two of them. `Asked` lets updates and creations ask for two
statuses, DECOMMISSIONED and another one. Three readings and batches of at most two give
batches that overlap in part, entirely or not at all, and a reading that is left over. Five is
the first length at which two layers of a tree in a row are odd (5, 3, 2, 1).

Three threads are the fewest of which two pass the check while the third one's failure is
counted; with a limit and a window of two, failures expire one after the other within the
three ticks of the clock. Two documents are what the unique constraint of
revision 2 refuses and the reconciliation confuses; two migrators plan from one revision and find
another. Two uploads of one file contend for its hash, and one of them may be on either side of
each step of the backup and the timeline. `bounds` has no parameter to be small in: the
lengths lie at, below and above each limit and each limit less what is added to it, and the
proofs cover all others.

Symmetry is used where values are interchangeable and no liveness is checked (`channel_clients`,
`races`, `logins`, `migrations`, `readers`).

Deadlock is checked in `channel_clients`, `logins`, `migrations` and `readers`, whose systems never stop. It is not
checked (`CHECK_DEADLOCK FALSE`) in the other runs: when everything is confirmed and no request is
left the system stops, so does the loop at the root, and a request ends when it is
answered or applied, as they should.

Fairness (`Fairness` in `LedgerDelivery`): the worker is a `while True` loop
(`ledger_worker.py:148-156`) restarted by its supervisor (`restart: unless-stopped`,
one replica), so it takes its enabled steps; time passes; the gateway handles each
request and Fabric orders each transaction within deadlines
(`fabric.ts:75-78`), which otherwise count as faults. Faults are finitely many: without
that nothing can be promised. No fairness is assumed of users. Weak fairness of
`WorkerStep` as a whole is enough, as only one of its actions is enabled for the one
worker at a time. `TelemetryAnchor` assumes weak fairness of `Confirm` for each
operation: an attempt the contract would accept does not fail for ever, which is what
`LedgerDelivery` shows of the steps of an attempt. The other modules assume none.

### What does not hold

| Run | The code | The statement |
|---|---|---|
| `shown` | the worker overwrites the PENDING of a review that commits between its reads and its commit | "nunca presenta `PENDING` o `FAILED` como “en blockchain”" (`docs/non-technical-guide.md:109`) |
| `overlap` | two anchors that read the same readings both commit, and the later one takes them over | an anchored batch verifies (`tests/test_telemetry.py:117`) |

Seen while modelling, and visible in the models without a run of their own:

- An upload that passed its check commits its document after the event was reviewed, although
  "Reviewed events cannot accept documents" (`documents.py:77`).
- An upload sets its event to PENDING and queues nothing for it: if all operations of the
  event are confirmed by then, it shows PENDING until its review (`documents.py:104`).
- The event of a decommission is created PENDING, and the one operation that is queued belongs to
  the asset, so the event shows "Encolado ...; todavía no enviado" for ever (`assets.py:166`,
  `docs/non-technical-guide.md:103`).
- `next_item` passes over FAILED rows in backoff, so operations reach the ledger out of
  order although "El worker procesa las filas en orden de creación" (`docs/technical-guide.md:116`).
- A repetition of an applied operation is confirmed with its own transaction id, which wrote
  nothing; the ledger's record names the first one (`ledger_worker.py:64`).
- A commit that PostgreSQL performed and could not acknowledge makes `upload_document` remove
  the object of a registered document (`documents.py:136`, `UploadCommitUnacknowledged`). An upload
  that is rolled back while a backup has stopped MinIO leaves an object that nothing
  removes (`documents.py:138`), as does one whose `put_bytes` raised after MinIO had stored the bytes (`:102`).
- A backup that is killed between the stop of MinIO and its trap leaves MinIO stopped
  (`backup.sh:40`, `:41`).
- The second of two documents with the same bytes is accepted, and its registration refused for
  ever (`fieldledger-contract.ts:163`).
- A deleted asset leaves its row `asset:<id>:create` behind, so nobody can create that id
  again; the answer is "Asset already exists" (`assets.py:75`, `:122`).
- A decommission is refused by the status alone, which two requests may pass together and
  `PATCH` may set back: the second one ends in a key violation that is not handled
  (`assets.py:141`, `:188`).
- An asset id of more than 54 characters cannot be decommissioned and one of more than 45 not be
  anchored; both end in an unhandled error of the database, as does a NUL in any text
  (`assets.py:158`, `telemetry.py:193`).
- A text with characters outside the basic plane may be short enough for the API and too long for the
  contract, and one of U+FEFF alone is empty for the contract only: both are queued and retried for
  ever (`validation.ts:27`).
- The reconciliation queues the event of a decommission as a proposal by the operator, which
  the contract refuses for ever (`reconcile_ledger.py:44`); and it queues the proposal of an old
  event after a review of it that came first, so that the worker takes the proposal
  for the latest operation and shows the event as COMMITTED before its review is (`:40`).
- The reconciliation looks at one document of each event: one older than the outbox beside one that
  was uploaded later may never be queued (`:54`). Its payload has no category, so
  a document that is on the ledger already is refused for ever if the outbox was lost (`:67`).
- A batch anchored by a user of another organization than the operator's is refused for ever
  (`telemetry.py:220`); `anchors` has users of the operator.
- The verification of a batch compares with the root in PostgreSQL and never asks the
  ledger (`telemetry.py:278`); the timeline says of a batch that it is anchored in Fabric whatever its
  status (`assets.py:343`); the text that is hashed has two decimals and shows no value as zero
  (`telemetry.py:46`).
- The limit on failed logins is counted in each process on its own, and an address that never logs in
  keeps its entry until the process ends (`auth.py:24`, `:76`).

## 4. What TLAPS proves

For every value of the constants that satisfies the named assumptions
(`NoneIsNoRecord`: `None` is no record, request or transaction id; `ClientAssumption`;
`DeliveryAssumption`, `RegistryAssumption`, each with a `NoneIsNoRow`; `AnchorAssumption`, `NoneIsNoAnchor`; `TreeAssumption`;
`TrailAssumption`; `LimiterAssumption`; `SchemaAssumption`; `BoundsAssumption`):

| Theorem | Statement |
|---|---|
| `LedgerChannel_proofs!TypeCorrect` | `Spec => []TypeOK` |
| `LedgerChannel_proofs!AppliedOnceHolds` | `Spec => AppliedOnce` |
| `LedgerChannel_proofs!HashKeepsItsDocumentHolds` | `Spec => HashKeepsItsDocument` |
| `LedgerChannel_proofs!ReviewIsFinalHolds` | `Spec => ReviewIsFinal` |
| `LedgerChannel_proofs!EvidenceBelongsToEventHolds` | `Spec => []EvidenceBelongsToEvent` |
| `LedgerChannel_proofs!FourEyesHolds` | `Spec => []FourEyes` |
| `LedgerChannel_proofs!MerkleIndexIsSoundHolds` | `Spec => []MerkleIndexIsSound` |
| `LedgerChannel_proofs!NoJobDoneTwiceHolds` | `Spec => []NoJobDoneTwice` |
| `LedgerDelivery_proofs!TypeCorrect` | `Spec => []TypeOK` |
| `LedgerDelivery_proofs!DeliveryIsSound` | `Spec => []DeliveryInv` |
| `LedgerDelivery_proofs!CommittedIsTrue` | `Spec => []CommittedIsOnLedger` |
| `LedgerDelivery_proofs!AppliedIsQueued` | `Spec => []AppliedWasQueued` |
| `LedgerDelivery_proofs!CommittedIsFinalHolds` | one worker: `Spec => CommittedIsFinal` |
| `LedgerDelivery_proofs!KeepsThePromiseHolds` | one worker: `Spec => KeepsThePromise`, the refinement of `ConfirmedDelivery` |
| `LedgerDelivery_proofs!EveryChangeIsQueuedHolds` | `Spec => []EveryChangeIsQueued` |
| `LedgerDelivery_proofs!EvidenceIsWholeHolds` | `Spec => []EvidenceIsWhole` |
| `LedgerDelivery_proofs!DecisionsAgreeHolds` | `Spec => []DecisionsAgree` |
| `LedgerDelivery_proofs!DocumentShowsItsOperationHolds` | one worker: `Spec => []DocumentShowsItsOperation` |
| `LedgerDelivery_proofs!LastIsShownHolds` | one worker: `Spec => []LastIsShown` |
| `LedgerDelivery_proofs!SettledEventShowsLastOperationHolds` | one worker: `Spec => []SettledEventShowsLastOperation` |
| `AssetRegistry_proofs!TypeCorrect` | `Spec => []TypeOK` |
| `AssetRegistry_proofs!RetirementIsWholeHolds` | `Spec => []RetirementIsWhole` |
| `AssetRegistry_proofs!LedgerAgreesHolds` | `Spec => []LedgerAgrees` |
| `AssetRegistry_proofs!HistoryIsQueuedHolds` | `Spec => []HistoryIsQueued` |
| `AssetRegistry_proofs!NothingIsStuckHolds` | `Spec => []NothingIsStuck` |
| `EvidenceTrail_proofs!TypeCorrect` | `Spec => []TypeOK` |
| `EvidenceTrail_proofs!BackupIsRestorableHolds` | `Spec => []BackupIsRestorable` |
| `EvidenceTrail_proofs!VerifiedIsKeptHolds` | `Spec => []VerifiedIsKept` |
| `EvidenceTrail_proofs!TimelineIsCoherentHolds` | `Spec => []TimelineIsCoherent` |
| `Telemetry_proofs!TypeCorrect` | `Spec => []TypeOK` |
| `Telemetry_proofs!LinkedIsCoveredHolds` | `Spec => []LinkedIsCovered` |
| `Telemetry_proofs!LedgerHasTheRootHolds` | `Spec => []LedgerHasTheRoot`, a conjunct of `AnchorInv` |
| `Telemetry_proofs!AnchorIsSound` | `Spec => []AnchorInv` |
| `Telemetry_proofs!UnsharedBatchVerifiesHolds` | `Spec => []UnsharedBatchVerifies` |
| `Telemetry_proofs!AnchorsTakeNewReadingsHolds` | `Spec => AnchorsTakeNewReadings` |
| `Telemetry_proofs!TreeTypeCorrect` | `TreeSpec => []TreeTypeOK` |
| `Telemetry_proofs!LoopComputesTheRoot` | `TreeSpec => [](Len(layer) = 1 => layer = <<Root(readings)>>)` |
| `Telemetry_proofs!RootsTellBatchesApart` | for batches `s` and `t`: `Root(s) = Root(t)` implies `LeafHashes(s) = LeafHashes(t)` |
| `Telemetry_proofs!RootIdentifiesReadingsHolds` | `TreeSpec => []RootIdentifiesReadings` |
| `ApiEntry_proofs!WindowIsBoundedHolds` | `Spec => []WindowIsBounded` |
| `ApiEntry_proofs!RefusedOnlyWhenFullHolds` | `Spec => RefusedOnlyWhenFull` |
| `SchemaHistory_proofs!SchemaIsSound` | `Spec => []SchemaInv` |
| `SchemaHistory_proofs!NewerIsKeptHolds` | `Spec => []NewerIsKept` |
| `SchemaHistory_proofs!ReconciledIsQueuedHolds` | `Spec => []ReconciledIsQueued` |
| `ApiEntry_proofs!OnlyUnitsAreRefusedHolds` | `RequestSpec => []OnlyUnitsAreRefused` |
| `ApiEntry_proofs!OnlyDerivedIdsAreTooLongHolds` | `RequestSpec => []OnlyDerivedIdsAreTooLong` |

`FieldLedgerContract_proofs` holds the lemmas the modules over the contract share: what a simulation
reads and writes has the shape of its keys, so endorsing, committing, delivering and dropping a
transaction keep `ContractTypeOK`; and which records a delivery may write.

### The contract

None of its properties is a fact about the state only: a transaction in flight that writes a key
must have read what made it right to write it. `GuardInv` says so for each transaction in flight,
kind of key by kind of key (`Guarded`): who registers a hash has read that it is free, who
decides an event has read it as PROPOSED by another organization, who attaches a hash has
read the event it writes back, and so on. Endorsing establishes it, since the writes are computed
from what is read; validation (`Valid`) turns it into a fact about the state at the commit, and each
property follows from what one commit may write. `EventsAreSound` carries `EvidenceBelongsToEvent` and
`FourEyes` along; `JobInv` says of every applied operation that its job is done and stays done, from
which `NoJobDoneTwice` follows, as a new operation found its job open.

### The delivery

`CommittedIsOnLedger` is not inductive: a row becomes COMMITTED because the worker
was told "ok", it was told so because its transaction became valid, and that
transaction carries the request of the row. `DeliveryInv` names each link: sessions
and outbox rows are about rows that exist (`SessionsHaveRows`, `QueuedHaveRows`),
whoever works on an operation works on a queued one (`WorkIsQueued`), calls are
answered to the worker that posted them and still waits (`CallsKnowTheirOwner`),
transactions carry the request of their row and are waited for only by a worker on
that operation (`TransactionsAreFaithful`), "ok" is true (`AnswersAreTrue`). It is
checked by TLC as an invariant of the run `evidence`. The proof has a lemma for each
action and under it one step for each conjunct the action can disturb. It holds for
any number of workers, although the deployment runs one.

That a confirmation is final needs the one worker: two could work on one row, and a late failure of
one would take back what the other recorded. With one (`OneWorker`), nobody works on a row that is
COMMITTED (`ClaimIsExclusive`), and what a step does to the outbox (`OutboxMoves`) leaves such rows
alone. The refinement follows: a step queues at most one operation, a valid transaction
applies at most one that was queued, and recording confirms at most one that was applied.

`EveryChangeIsQueued` is inductive beside `DeliveryInv`: only commits of handlers change a business
row or add one to the outbox (`HandlerCommits`), and they do both; what the worker records
changes neither. `EvidenceIsWhole` needs that an upload in progress has no
document yet, and has its bytes once they are stored (`StoresInv`). `DecisionsAgree` needs that a decision that travels is the one that is queued
(`DecisionInv`): a decided record of an event, on the ledger or about to be written, comes from an operation
that reviews this event, and the outbox has that operation; as one review is queued for an
event, with the decision of its row, they agree however many reviewers passed the check.

What a document or an event shows is written with what the worker loaded some steps before, and a
session writes a column only if it differs from what it loaded (`Flush`): a stale view would
leave the old status in place, and two workers could make that happen, so both proofs are about one worker. For a
document, what was loaded is still there when the answer is recorded (`DocumentsAreLoaded`), since only its own
operation writes its row, and its operation is the only one of its aggregate (`CreatedOnce`: a row of
the outbox is listed once in the order of creation). An event has two operations. The last one
finds itself the latest and its view still true (`EventsAreLoaded`, with `ProposedFirst`: no review
is queued before its proposal). The proposal may be loaded as the latest and recorded after a
review was queued; it then overwrites the status, but before any confirmation of the
review (`OvertakenInTime`), which will correct it. From these `LastIsShown` follows: once the last
operation is confirmed the event shows its transaction, and COMMITTED. An upload sets the status back to
PENDING, with or without the worker having loaded the row, and the operation of the document never writes to the event: so an
event with a document (`HasDocument`) may show PENDING instead, which a later step of its own operations
or an upload keeps true; its transaction is still that of the last operation (`EventWrites`).

### The assets

In `AssetRegistry` rows go and change that elsewhere only come: an asset may be deleted, an update
may undo the status of a decommission, and the reconciliation queues what it read some time before. The invariant ties all of it to the rows of the events, which are never
deleted and keep what a request says of them. `QueueIsRecorded`: whatever is queued, or will be by the
running reconciliation, is what an event's row records, or a decommission. `EventsKeepTheirAsset` is the foreign key that stops a
deletion, and `RetirementIsKept` names the event of a decommission as the one that keeps its asset.
`CommittedIsApplied` and `RecordsAreApplied` say of each record of the ledger which operations made
it, from which `LedgerAgrees` follows. `HistoryIsQueued` needs `HistoryIsCovered`: while a
reconciliation runs, what is recorded is queued, or in what it has read, or queued by
the handler that recorded it, so that it may commit what it read late. For `NothingIsStuck` the
proof finds the operation that is to be confirmed first: the asset's, then the proposal, then the
review, each of which is queued, and accepted by the contract once those before it are applied.

### The evidence

The readers of `EvidenceTrail` need no lock because of the order of the writes and because nothing
they rely on is taken back: rows and operations stay and a COMMITTED row is not
written again (`Grows`, an action every writer satisfies). `BytesBeforeRows` says that bytes
are there before the row and go only without one, or with a commit in doubt; as the dump is older than
the copy, `BackupIsRestorable` follows when the copy is made. `RegistryIsExact` ties the
contract's document of a hash to the operation that was applied, for `VerifiedIsKept`. `ReadSoFar`
is the invariant of a timeline step by step: what it has read of the event has its rows, what
it has read of the documents is still true, and so is what it will find in the outbox.

### The other modules

`AnchorInv` is the inductive invariant of `TelemetryAnchor`, and an invariant of the run `anchors`.
`LedgerHasTheRoot` needs two more links: the outbox row of a batch asks for what the batch's
row says (`RowsMatch`), and an operation that was applied has registered its batch
(`AppliedIsRegistered`), for a repetition is confirmed without writing anything. That anchors take
new readings, and that a batch verifies unless it shares one, rests on a reading never losing
its link (`CoveredIsLinked`). That an anchor finds some readings and not too many is proved from the
order of the readings: the ranks of those it takes are different numbers below `MaxReadings`.

The loop of `MerkleTree` stays on the levels of the tree (`LoopInv`) for batches of every length, and
two trees with one root are compared from the top. At equal heights a pass maps different layers to
different layers (`PassTellsLayersApart`): of equal length, because every node is in a pair; of
lengths 2m - 1 and 2m, because the longer one would have to end with a node twice, and no reading,
so no node of a level, is there twice (`NodesAreDifferent`). Without that the theorem would be wrong:
a, b, c and a, b, c, c have one root. At different heights the level of the lower tree that has
leaves meets one of pairs, and a pass keeps levels that share no node apart (`PassSharesNothing`).
The library's induction takes an operator as a parameter, which no prover here instantiates; the
existence of minima (`WFMin`) does not, and gives induction for sets of numbers (`SetInduction`).
With it the functions that `PowersOfTwo` and `Tree` define by recursion are shown to exist, the
height is found, and a level is compared with the one above it.

`WindowIsBounded` is about failures that were counted; the invariant (`LimiterInv`) counts those to
come: what is left in a deque and the logins that were admitted stay together within the bound, for
an admission finds fewer than the limit and every other handler counts once at most. That pruning
for an older time takes nothing that is still recent, and that a full deque is full of recent
failures, needs the entries in the order of their times (`Ordered`), which the lock gives.

`SchemaInv` ties what the newer migrations brought to the operations of the newer kinds: they have
their rows as long as the outbox has them, and no downgrade passes the check while it does. It
is inductive with `ReconciledIsQueued`, which it supports: at most one document of an event is not
queued, so the one the reconciliation looks up is it, or there is another one that is queued.

`BoundsInv` remembers what has been checked so far; the rest is arithmetic on the table `Bounds`.

### Only model-checked

Liveness, and so `KeepsThePromiseFairly`, `EveryOperationIsConfirmed` and `EveryBatchIsConfirmed`, is
outside the prover's reach. `EndsWithTheRoot` is too, as it says that the loop ends; that it ends
with nothing else is `LoopComputesTheRoot`. Every other property of a run is stated by a theorem.

## 5. Not modelled, and what is left

Not modelled: tokens, which a library checks without any state of this program, and password
hashing; patterns, enumerations and dates of single requests; pages, whose state lives in one browser and
is read by no other component (`app.js` may show the events of one asset under the name of another
when two selections are answered in the other order, line 370); the demo identities, which are written
once, and the smoke test, a client of the API; definitions of the deployment, whose facts the
models use are cited where they are used.

Left, in the order of weight:

1. Bounds for what two workers may do to the status that is shown: the proofs for one worker say where
   the second one would break them (`ClaimIsExclusive`), not how far it goes.
2. The length of the loop of `MerkleTree`: that it ends is liveness, but a bound on its passes is not.
   (`AssetRegistry` and `TelemetryAnchor` do not implement `ConfirmedDelivery`: they take an attempt
   as one step, and hold several operations in one.)
3. The page as a module of its own: refreshes and selections answered in any order.

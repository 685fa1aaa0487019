----------------------------- MODULE EvidenceTrail -----------------------------
(***************************************************************************)
(* The evidence of one event as others read it while it is written: a       *)
(* backup, which copies the two stores one after the other and stops MinIO  *)
(* in between, the timeline, which reads the rows in several statements,    *)
(* and the verification of a file, which asks the ledger for its hash.      *)
(*                                                                         *)
(* The worker's attempts are two steps here, the transaction and its       *)
(* record; LedgerDelivery has what can happen between them.                 *)
(***************************************************************************)
EXTENDS FiniteSets, Functions

CONSTANTS
  Documents,  \* ids of uploads
  HashOf,     \* the SHA-256 of each file
  None

Hashes == Range(HashOf)

ASSUME TrailAssumption ==
  /\ IsFiniteSet(Documents)
  /\ HashOf \in [Documents -> Hashes]
  /\ None \notin Hashes \cup Documents
  /\ {"proposal", "review"} \cap Documents = {}  \* operations have ids of their own

VARIABLES
  uploads,   \* how far each upload got
  objects,   \* documents whose bytes are in MinIO
  rows,      \* ledger status of the rows of asset_documents
  event,     \* status and document_hash of the event's row
  outbox,    \* status of the operations in ledger_outbox
  ledger,    \* operations applied by the contract
  registry,  \* the document the contract has for each hash
  minio,     \* whether MinIO runs
  backup,    \* the backup being made
  timeline,  \* the timeline being read
  doubtful   \* documents whose commit was not acknowledged

writers == <<uploads, objects, rows, event, outbox, ledger, registry, doubtful>>
vars == <<writers, minio, backup, timeline>>

UploadStates == {"none", "checked", "stored", "done"}
LedgerStatus == {"PENDING", "COMMITTED", "FAILED"}
Operations == {"proposal", "review"} \cup Documents
Found == [status : {"PROPOSED", "APPROVED"}, hash : Hashes \cup {None}]

BackupSteps == {"idle", "dumped", "stopped", "copied"}
TimelineSteps == {"idle", "event", "documents", "operations", "review"}

(* Maps whose domain grows: the rows of a table, or what was read of it. *)
TableOf(keys, values) == UNION {[ks -> values] : ks \in SUBSET keys}

TypeOK ==
  /\ uploads \in [Documents -> UploadStates]
  /\ objects \subseteq Documents
  /\ rows \in TableOf(Documents, LedgerStatus)
  /\ event \in Found
  /\ outbox \in TableOf(Operations, LedgerStatus)
  /\ ledger \subseteq Operations
  /\ registry \in [Hashes -> Documents \cup {None}]
  /\ minio \in BOOLEAN
  /\ backup \in [step : BackupSteps, dump : SUBSET Documents, tar : SUBSET Documents]
  /\ timeline \in [step : TimelineSteps, event : Found,
                   documents : TableOf(Documents, LedgerStatus),
                   operations : TableOf(Documents, LedgerStatus), review : BOOLEAN]
  /\ doubtful \subseteq Documents

NoTimeline ==
  [step |-> "idle", event |-> [status |-> "PROPOSED", hash |-> None],
   documents |-> <<>>, operations |-> <<>>, review |-> FALSE]

Init ==
  /\ uploads = [d \in Documents |-> "none"]
  /\ objects = {} /\ rows = <<>>
  /\ event = [status |-> "PROPOSED", hash |-> None]
  /\ outbox = [op \in {"proposal"} |-> "PENDING"]
  /\ ledger = {}
  /\ registry = [h \in Hashes |-> None]
  /\ minio = TRUE
  /\ backup = [step |-> "idle", dump |-> {}, tar |-> {}]
  /\ timeline = NoTimeline
  /\ doubtful = {}

With(table, key, value) ==
  [k \in DOMAIN table \cup {key} |-> IF k = key THEN value ELSE table[k]]

-----------------------------------------------------------------------------
(* Uploads and the review. *)

NoReader == UNCHANGED <<minio, backup, timeline>>
Goes(d, step) == uploads' = [uploads EXCEPT ![d] = step]

UploadCheck(d) ==
  /\ uploads[d] = "none"
  /\ event.status = "PROPOSED"
  /\ Goes(d, "checked")
  /\ UNCHANGED <<objects, rows, event, outbox, ledger, registry, doubtful>>
  /\ NoReader

WrongUploadPut(d) ==  \* an error of MinIO does not end the upload
  /\ uploads[d] = "checked"
  /\ Goes(d, "stored")
  /\ objects' = IF minio THEN objects \cup {d} ELSE objects
  /\ UNCHANGED <<rows, event, outbox, ledger, registry, doubtful>>
  /\ NoReader

UploadPut(d) ==
  /\ uploads[d] = "checked"
  /\ minio
  /\ Goes(d, "stored")
  /\ objects' = objects \cup {d}
  /\ UNCHANGED <<rows, event, outbox, ledger, registry, doubtful>>
  /\ NoReader

(* put_bytes raises, and nobody removes what MinIO may have stored all the  *)
(* same when its answer was lost.                                          *)
UploadPutFails(d) ==
  /\ uploads[d] = "checked"
  /\ Goes(d, "done")
  /\ objects' = objects \/ (minio /\ objects' = objects \cup {d})
  /\ UNCHANGED <<rows, event, outbox, ledger, registry, doubtful>>
  /\ NoReader

Commits(d) ==
  /\ uploads[d] = "stored"
  /\ Goes(d, "done")
  /\ rows' = With(rows, d, "PENDING")
  /\ outbox' = With(outbox, d, "PENDING")
  /\ event' = [event EXCEPT !.hash = HashOf[d]]

UploadCommit(d) ==
  /\ Commits(d)
  /\ UNCHANGED <<objects, ledger, registry, doubtful>>
  /\ NoReader

(* remove may raise, and does while MinIO is stopped: the object stays. *)
Remove(d) == objects' = objects \/ (minio /\ objects' = objects \ {d})

(* The commit took effect, but its answer was lost: the handler removes the *)
(* bytes of the document it has committed.                                  *)
UploadCommitUnacknowledged(d) ==
  /\ Commits(d)
  /\ Remove(d)
  /\ doubtful' = doubtful \cup {d}
  /\ UNCHANGED <<ledger, registry>>
  /\ NoReader

UploadRollback(d) ==
  /\ uploads[d] = "stored"
  /\ Goes(d, "done")
  /\ Remove(d)
  /\ UNCHANGED <<rows, event, outbox, ledger, registry, doubtful>>
  /\ NoReader

ReviewEvent ==
  /\ event.status = "PROPOSED"
  /\ event' = [event EXCEPT !.status = "APPROVED"]
  /\ outbox' = With(outbox, "review", "PENDING")
  /\ UNCHANGED <<uploads, objects, rows, ledger, registry, doubtful>>
  /\ NoReader

-----------------------------------------------------------------------------
(* The worker and the contract. *)

WrongRegistrable(op) ==  \* a known hash is taken over
  op # "proposal" => "proposal" \in ledger

(* A document needs its event and a new hash, a review its event. *)
Registrable(op) ==
  op # "proposal" =>
    "proposal" \in ledger /\ (op \in Documents => registry[HashOf[op]] = None)

Deliver(op) ==
  /\ outbox[op] # "COMMITTED"
  /\ op \notin ledger
  /\ Registrable(op)
  /\ ledger' = ledger \cup {op}
  /\ registry' = IF op \in Documents THEN [registry EXCEPT ![HashOf[op]] = op] ELSE registry
  /\ UNCHANGED <<uploads, objects, rows, event, outbox, doubtful>>
  /\ NoReader

(* The rows of the outbox and of the document in one transaction. *)
Record(op, status) ==
  /\ outbox' = [outbox EXCEPT ![op] = status]
  /\ rows' = IF op \in DOMAIN rows THEN [rows EXCEPT ![op] = status] ELSE rows
  /\ UNCHANGED <<uploads, objects, event, ledger, registry, doubtful>>
  /\ NoReader

RecordCommit(op) == op \in ledger /\ outbox[op] # "COMMITTED" /\ Record(op, "COMMITTED")
RecordFailure(op) == outbox[op] = "PENDING" /\ Record(op, "FAILED")

-----------------------------------------------------------------------------
(* backup.sh. *)

Step(from, to) == backup.step = from /\ backup' = [backup EXCEPT !.step = to]

Dump ==
  /\ backup.step = "idle"
  /\ backup' = [step |-> "dumped", dump |-> DOMAIN rows, tar |-> {}]
  /\ UNCHANGED <<writers, minio, timeline>>

StopMinio ==
  /\ Step("dumped", "stopped")
  /\ minio' = FALSE
  /\ UNCHANGED <<writers, timeline>>

Copy ==
  /\ backup.step = "stopped"
  /\ backup' = [backup EXCEPT !.step = "copied", !.tar = objects]
  /\ UNCHANGED <<writers, minio, timeline>>

StartMinio ==
  /\ Step("copied", "idle")
  /\ minio' = TRUE
  /\ UNCHANGED <<writers, timeline>>

(* Any command fails, or the script is killed: there is no backup.  MinIO  *)
(* is started by the trap, if that has been set and runs.                  *)
BackupFails ==
  /\ backup.step # "idle"
  /\ backup' = [step |-> "idle", dump |-> {}, tar |-> {}]
  /\ minio' = minio \/ (backup.step \in {"stopped", "copied"} /\ minio' = TRUE)
  /\ UNCHANGED <<writers, timeline>>

(* Somebody starts what a failed backup has left stopped (make up). *)
MakeUp ==
  /\ backup.step = "idle" /\ ~minio
  /\ minio' = TRUE
  /\ UNCHANGED <<writers, backup, timeline>>

-----------------------------------------------------------------------------
(* get_asset_timeline: each select sees what is committed when it runs.     *)

Reads(from, new) ==
  /\ timeline.step = from
  /\ timeline' = new
  /\ UNCHANGED <<writers, minio, backup>>

ReadEvent ==
  Reads("idle", [NoTimeline EXCEPT !.step = "event", !.event = event])

WrongReadDocuments ==  \* read before the event
  \E known \in SUBSET DOMAIN rows :
    Reads("event", [timeline EXCEPT !.step = "documents", !.documents = Restrict(rows, known)])

ReadDocuments ==
  Reads("event", [timeline EXCEPT !.step = "documents", !.documents = rows])

ReadOperation(d) ==
  /\ d \in DOMAIN timeline.documents \ DOMAIN timeline.operations
  /\ Reads("documents",
           [timeline EXCEPT !.operations = With(timeline.operations, d, outbox[d])])

(* The review is looked for when the event was read as reviewed. *)
ReadReview ==
  /\ DOMAIN timeline.operations = DOMAIN timeline.documents
  /\ Reads("documents", [timeline EXCEPT !.step = "review", !.review =
                        timeline.event.status = "APPROVED" /\ "review" \in DOMAIN outbox])

Answer == Reads("review", NoTimeline)

Next ==
  \/ \E d \in Documents :
       \/ UploadCheck(d) \/ UploadPut(d) \/ UploadPutFails(d) \/ UploadCommit(d)
       \/ UploadCommitUnacknowledged(d) \/ UploadRollback(d) \/ ReadOperation(d)
  \/ ReviewEvent
  \/ \E op \in DOMAIN outbox : Deliver(op) \/ RecordCommit(op) \/ RecordFailure(op)
  \/ Dump \/ StopMinio \/ Copy \/ StartMinio \/ BackupFails \/ MakeUp
  \/ ReadEvent \/ ReadDocuments \/ ReadReview \/ Answer

Spec == Init /\ [][Next]_vars

-----------------------------------------------------------------------------
(* Properties. *)

(* A backup that is complete holds the bytes of every document in its dump, *)
(* although uploads go on while it is made: the dump is the older of the     *)
(* two (backup.sh), and an object is stored before its row and removed only *)
(* without one (documents.py).  Except for a commit that was not            *)
(* acknowledged.                                                            *)
BackupIsRestorable ==
  backup.step = "copied" => backup.dump \ doubtful \subseteq backup.tar

(* The document that the verification of a file names has its row and its   *)
(* bytes, and among uploads of one file it is the only one ever shown        *)
(* COMMITTED.                                                               *)
VerifiedIsKept ==
  /\ \A h \in Hashes : registry[h] # None =>
       registry[h] \in DOMAIN rows /\ registry[h] \in objects \cup doubtful
  /\ \A d \in DOMAIN rows : rows[d] = "COMMITTED" => registry[HashOf[d]] = d

(* A timeline agrees with itself, although its statements read at different *)
(* times: the hash of the event is that of a document it lists, a document   *)
(* listed as COMMITTED has its transaction, and a review has its operation. *)
TimelineIsCoherent ==
  timeline.step = "review" =>
    /\ timeline.event.hash # None =>
         \E d \in DOMAIN timeline.documents : HashOf[d] = timeline.event.hash
    /\ \A d \in DOMAIN timeline.documents :
         timeline.documents[d] = "COMMITTED" => timeline.operations[d] = "COMMITTED"
    /\ timeline.event.status = "APPROVED" => timeline.review
=============================================================================

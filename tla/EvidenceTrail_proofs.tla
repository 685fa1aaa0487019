-------------------------- MODULE EvidenceTrail_proofs --------------------------
(***************************************************************************)
(* Proofs about EvidenceTrail: what a backup, a timeline and a verification *)
(* find, for any number of uploads and of files.                            *)
(*                                                                         *)
(* Each reader is right because of the order in which the handlers write,   *)
(* and because what it has read can only grow: rows and operations are      *)
(* never taken back, COMMITTED is final, and bytes are removed only without *)
(* a row or after a commit that was not acknowledged.                       *)
(***************************************************************************)
EXTENDS EvidenceTrail, TLAPS

(* The bytes of an upload are stored before its row, which it gets once.    *)
BytesBeforeRows ==
  \A d \in Documents :
    /\ uploads[d] = "stored" => d \in objects
    /\ uploads[d] # "done" => d \notin DOMAIN rows
    /\ d \in DOMAIN rows => d \in objects \cup doubtful

(* A document and its operation are recorded together.                      *)
RowsAreQueued ==
  /\ DOMAIN outbox \cap Documents = DOMAIN rows
  /\ \A d \in DOMAIN rows : outbox[d] = rows[d]

(* The ledger has only what was queued, and all that is COMMITTED.          *)
AppliedIsQueued ==
  /\ ledger \subseteq DOMAIN outbox
  /\ \A op \in DOMAIN outbox : outbox[op] = "COMMITTED" => op \in ledger

(* The contract knows a hash by the document it registered with it.         *)
RegistryIsExact ==
  \A d \in Documents :
    /\ d \in ledger => registry[HashOf[d]] = d
    /\ \A h \in Hashes : registry[h] = d => d \in ledger /\ HashOf[d] = h

(* What an event says of itself has its rows.                               *)
HasRows(e, table, queue) ==
  /\ e.hash # None => \E d \in DOMAIN table : HashOf[d] = e.hash
  /\ e.status = "APPROVED" => "review" \in DOMAIN queue

(* The documents of a dump have their rows, and those of a copy their bytes. *)
DumpHasRows ==
  /\ backup.dump \subseteq DOMAIN rows
  /\ BackupIsRestorable

(* What a timeline has read up to a step still holds.                       *)
ReadSoFar ==
  /\ timeline.step \in {"idle", "event"} => DOMAIN timeline.operations = {}
  /\ timeline.step # "idle" => HasRows(timeline.event, rows, outbox)
  /\ timeline.step \in {"documents", "review"} =>
       /\ timeline.event.hash # None =>
            \E d \in DOMAIN timeline.documents : HashOf[d] = timeline.event.hash
       /\ \A d \in DOMAIN timeline.documents :
            d \in DOMAIN rows /\ (timeline.documents[d] = "COMMITTED" => rows[d] = "COMMITTED")
       /\ \A d \in DOMAIN timeline.operations :
            /\ d \in DOMAIN timeline.documents
            /\ timeline.documents[d] = "COMMITTED" => timeline.operations[d] = "COMMITTED"
  /\ timeline.step = "review" =>
       /\ DOMAIN timeline.operations = DOMAIN timeline.documents
       /\ timeline.event.status = "APPROVED" => timeline.review

Inv ==
  /\ TypeOK
  /\ BytesBeforeRows
  /\ RowsAreQueued
  /\ AppliedIsQueued
  /\ RegistryIsExact
  /\ HasRows(event, rows, outbox)
  /\ DumpHasRows
  /\ ReadSoFar

WriterInv ==
  BytesBeforeRows /\ RowsAreQueued /\ AppliedIsQueued /\ RegistryIsExact /\ HasRows(event, rows, outbox)

-----------------------------------------------------------------------------
(* Tables. *)

LEMMA InTable ==
  ASSUME NEW K, NEW V, NEW t
  PROVE  t \in TableOf(K, V) <=> DOMAIN t \subseteq K /\ t \in [DOMAIN t -> V]
BY DEF TableOf

LEMMA EmptyTable ==
  ASSUME NEW K, NEW V
  PROVE  <<>> \in TableOf(K, V) /\ DOMAIN <<>> = {}
<1>1. DOMAIN <<>> = {}
  OBVIOUS
<1>2. <<>> \in [{} -> V]
  OBVIOUS
<1>. QED  BY <1>1, <1>2, InTable

(* A row that is PENDING at first.                                          *)
LEMMA NewRow ==
  ASSUME NEW K, NEW t \in TableOf(K, LedgerStatus), NEW k \in K
  PROVE  With(t, k, "PENDING") \in TableOf(K, LedgerStatus)
<1> DEFINE w == With(t, k, "PENDING")
<1>1. DOMAIN t \subseteq K /\ t \in [DOMAIN t -> LedgerStatus]
  BY InTable
<1>2. DOMAIN w \subseteq K /\ w \in [DOMAIN w -> LedgerStatus]
  BY <1>1 DEF With, LedgerStatus
<1> HIDE DEF w
<1>3. w \in TableOf(K, LedgerStatus)
  BY <1>2, InTable
<1>. QED  BY <1>3 DEF w

LEMMA WithTable ==
  ASSUME NEW K, NEW V, NEW t \in TableOf(K, V), NEW k \in K, NEW v \in V
  PROVE  With(t, k, v) \in TableOf(K, V)
<1> DEFINE w == With(t, k, v)
<1>1. DOMAIN t \subseteq K /\ t \in [DOMAIN t -> V]
  BY InTable
<1>2. DOMAIN w \subseteq K /\ w \in [DOMAIN w -> V]
  BY <1>1 DEF With
<1> HIDE DEF w
<1>3. w \in TableOf(K, V)
  BY <1>2, InTable
<1>. QED  BY <1>3 DEF w

LEMMA ExceptShape ==
  ASSUME NEW K, NEW V, NEW t \in TableOf(K, V), NEW k \in DOMAIN t, NEW v \in V
  PROVE  /\ [t EXCEPT ![k] = v] \in TableOf(K, V)
         /\ DOMAIN [t EXCEPT ![k] = v] = DOMAIN t
         /\ [t EXCEPT ![k] = v][k] = v
         /\ \A x \in DOMAIN t \ {k} : [t EXCEPT ![k] = v][x] = t[x]
<1> DEFINE w == [t EXCEPT ![k] = v]
<1>1. DOMAIN t \subseteq K /\ t \in [DOMAIN t -> V]
  BY InTable
<1>2. w \in [DOMAIN t -> V] /\ DOMAIN w = DOMAIN t
  BY <1>1
<1>. QED  BY <1>1, <1>2, InTable

LEMMA OperationOf ==
  ASSUME NEW d \in Documents
  PROVE  d \in Operations /\ d # "proposal" /\ d # "review" /\ d # None
BY TrailAssumption DEF Operations

LEMMA KnownOperation == "review" \in Operations
BY DEF Operations

LEMMA HashIn ==
  ASSUME NEW d \in Documents
  PROVE  HashOf[d] \in Hashes /\ HashOf[d] # None
BY TrailAssumption DEF Hashes, Range

-----------------------------------------------------------------------------
(* The beginning. *)

LEMMA InitInv == Init => Inv
<1> SUFFICES ASSUME Init
             PROVE  Inv
  OBVIOUS
<1>1. rows \in TableOf(Documents, LedgerStatus) /\ DOMAIN rows = {}
  BY EmptyTable DEF Init
<1>2. /\ outbox \in TableOf(Operations, LedgerStatus)
      /\ DOMAIN outbox = {"proposal"} /\ outbox["proposal"] = "PENDING"
  BY InTable DEF Init, Operations, LedgerStatus
<1>3. /\ DOMAIN timeline.documents = {} /\ DOMAIN timeline.operations = {}
      /\ timeline.step = "idle"
      /\ timeline \in [step : TimelineSteps, event : Found,
                       documents : TableOf(Documents, LedgerStatus),
                       operations : TableOf(Documents, LedgerStatus), review : BOOLEAN]
  BY EmptyTable DEF Init, NoTimeline, TimelineSteps, Found
<1>4. TypeOK
  BY <1>1, <1>2, <1>3 DEF Init, TypeOK, UploadStates, Found, BackupSteps
<1>5. WriterInv
  BY <1>1, <1>2, OperationOf
  DEF WriterInv, Init, BytesBeforeRows, RowsAreQueued, AppliedIsQueued, RegistryIsExact, HasRows
<1>6. DumpHasRows /\ ReadSoFar
  BY <1>1, <1>3 DEF Init, DumpHasRows, BackupIsRestorable, ReadSoFar
<1>. QED  BY <1>4, <1>5, <1>6 DEF Inv, WriterInv

-----------------------------------------------------------------------------
(* The writers. *)

(* What a reader has read is not taken back.                                *)
Grows ==
  /\ DOMAIN rows \subseteq DOMAIN rows'
  /\ \A d \in DOMAIN rows : rows[d] = "COMMITTED" => rows'[d] = "COMMITTED"
  /\ DOMAIN outbox \subseteq DOMAIN outbox'
  /\ doubtful \subseteq doubtful'

WriterOK ==
  /\ uploads' \in [Documents -> UploadStates]
  /\ objects' \subseteq Documents
  /\ rows' \in TableOf(Documents, LedgerStatus)
  /\ event' \in Found
  /\ outbox' \in TableOf(Operations, LedgerStatus)
  /\ ledger' \subseteq Operations
  /\ registry' \in [Hashes -> Documents \cup {None}]
  /\ doubtful' \subseteq Documents

LEMMA GoesShape ==
  ASSUME TypeOK, NEW d \in Documents, NEW step \in UploadStates, Goes(d, step)
  PROVE  /\ uploads' \in [Documents -> UploadStates]
         /\ uploads'[d] = step
         /\ \A x \in Documents \ {d} : uploads'[x] = uploads[x]
BY DEF TypeOK, Goes

(* Steps of an upload that leave the database alone.                        *)
LEMMA UploadWrites ==
  ASSUME TypeOK, WriterInv, NEW d \in Documents,
         UploadCheck(d) \/ UploadPut(d) \/ UploadPutFails(d) \/ UploadRollback(d)
  PROVE  WriterOK /\ WriterInv' /\ Grows
<1>0. UNCHANGED <<rows, event, outbox, ledger, registry, doubtful>>
  BY DEF UploadCheck, UploadPut, UploadPutFails, UploadRollback
<1>1. /\ uploads' \in [Documents -> UploadStates]
      /\ \A x \in Documents \ {d} : uploads'[x] = uploads[x]
      /\ uploads[d] # "done"
  BY GoesShape DEF UploadCheck, UploadPut, UploadPutFails, UploadRollback, UploadStates
<1>2. /\ objects' \subseteq Documents
      /\ \A x \in Documents \ {d} : x \in objects => x \in objects'
  BY DEF TypeOK, UploadCheck, UploadPut, UploadPutFails, UploadRollback, Remove
<1>3. uploads'[d] = "stored" => d \in objects'
  BY GoesShape DEF UploadCheck, UploadPut, UploadPutFails, UploadRollback, UploadStates
<1>4. BytesBeforeRows'
  BY <1>0, <1>1, <1>2, <1>3 DEF WriterInv, BytesBeforeRows
<1>5. WriterOK
  BY <1>0, <1>1, <1>2 DEF WriterOK, TypeOK
<1>6. RowsAreQueued' /\ AppliedIsQueued' /\ RegistryIsExact' /\ HasRows(event', rows', outbox')
  BY <1>0 DEF WriterInv, RowsAreQueued, AppliedIsQueued, RegistryIsExact, HasRows
<1>. QED  BY <1>0, <1>4, <1>5, <1>6 DEF WriterInv, Grows

(* The commit of an upload, acknowledged or not.                            *)
LEMMA CommitWrites ==
  ASSUME TypeOK, WriterInv, NEW d \in Documents,
         UploadCommit(d) \/ UploadCommitUnacknowledged(d)
  PROVE  WriterOK /\ WriterInv' /\ Grows
<1>0. Commits(d) /\ UNCHANGED <<ledger, registry>>
  BY DEF UploadCommit, UploadCommitUnacknowledged
<1>1. /\ uploads' \in [Documents -> UploadStates]
      /\ \A x \in Documents \ {d} : uploads'[x] = uploads[x]
      /\ uploads'[d] = "done" /\ uploads[d] = "stored"
  BY <1>0, GoesShape DEF Commits, UploadStates
<1>2. d \notin DOMAIN rows /\ d \notin DOMAIN outbox /\ d \in objects
  BY <1>1 DEF WriterInv, BytesBeforeRows, RowsAreQueued
<1>3. rows' \in TableOf(Documents, LedgerStatus) /\ outbox' \in TableOf(Operations, LedgerStatus)
  BY <1>0, NewRow, OperationOf DEF Commits, TypeOK
<1>4. /\ DOMAIN rows' = DOMAIN rows \cup {d} /\ rows'[d] = "PENDING"
      /\ \A x \in DOMAIN rows : rows'[x] = rows[x]
      /\ DOMAIN outbox' = DOMAIN outbox \cup {d} /\ outbox'[d] = "PENDING"
      /\ \A x \in DOMAIN outbox : outbox'[x] = outbox[x]
  BY <1>0, <1>2 DEF Commits, With
<1>5. event' \in Found /\ event'.hash = HashOf[d] /\ event'.status = event.status
  BY <1>0, HashIn DEF Commits, TypeOK, Found
<1>6. /\ objects' \subseteq Documents /\ doubtful' \subseteq Documents
      /\ doubtful \subseteq doubtful'
      /\ d \in objects' \cup doubtful'
      /\ \A x \in Documents \ {d} : x \in objects => x \in objects'
  BY <1>2 DEF TypeOK, UploadCommit, UploadCommitUnacknowledged, Remove
<1>7. WriterOK
  BY <1>0, <1>1, <1>3, <1>5, <1>6 DEF WriterOK, TypeOK
<1>8. BytesBeforeRows'
  BY <1>1, <1>4, <1>6 DEF WriterInv, BytesBeforeRows
<1>9. RowsAreQueued' /\ AppliedIsQueued'
  BY <1>0, <1>2, <1>4 DEF WriterInv, RowsAreQueued, AppliedIsQueued
<1>10. RegistryIsExact' /\ HasRows(event', rows', outbox')
  BY <1>0, <1>4, <1>5 DEF WriterInv, RegistryIsExact, HasRows
<1>. QED  BY <1>4, <1>6, <1>7, <1>8, <1>9, <1>10 DEF WriterInv, Grows

LEMMA ReviewWrites ==
  ASSUME TypeOK, WriterInv, ReviewEvent
  PROVE  WriterOK /\ WriterInv' /\ Grows
<1>0. UNCHANGED <<uploads, objects, rows, ledger, registry, doubtful>>
  BY DEF ReviewEvent
<1>1. outbox' \in TableOf(Operations, LedgerStatus)
  BY NewRow, KnownOperation DEF ReviewEvent, TypeOK
<1>2. /\ DOMAIN outbox' = DOMAIN outbox \cup {"review"} /\ outbox'["review"] = "PENDING"
      /\ \A x \in DOMAIN outbox \ {"review"} : outbox'[x] = outbox[x]
  BY DEF ReviewEvent, With
<1>6. event' \in Found /\ event'.hash = event.hash
  BY DEF ReviewEvent, TypeOK, Found
<1>3. WriterOK
  BY <1>0, <1>1, <1>6 DEF WriterOK, TypeOK
<1>4. BytesBeforeRows' /\ RegistryIsExact' /\ HasRows(event', rows', outbox')
  BY <1>0, <1>2, <1>6 DEF WriterInv, BytesBeforeRows, RegistryIsExact, HasRows
<1>5. RowsAreQueued' /\ AppliedIsQueued'
  BY <1>0, <1>2, OperationOf DEF WriterInv, RowsAreQueued, AppliedIsQueued, TypeOK
<1>. QED  BY <1>0, <1>2, <1>3, <1>4, <1>5 DEF WriterInv, Grows

LEMMA DeliverWrites ==
  ASSUME TypeOK, WriterInv, NEW op \in DOMAIN outbox, Deliver(op)
  PROVE  WriterOK /\ WriterInv' /\ Grows
<1>0. UNCHANGED <<uploads, objects, rows, event, outbox, doubtful>>
  BY DEF Deliver
<1>1. op \in Operations /\ op \notin ledger /\ ledger' = ledger \cup {op}
  BY InTable DEF Deliver, TypeOK
<1>2. registry' \in [Hashes -> Documents \cup {None}]
  BY HashIn DEF Deliver, TypeOK
<1>3. WriterOK
  BY <1>0, <1>1, <1>2 DEF WriterOK, TypeOK
<1>4. BytesBeforeRows' /\ RowsAreQueued' /\ AppliedIsQueued' /\ HasRows(event', rows', outbox')
  BY <1>0, <1>1 DEF WriterInv, BytesBeforeRows, RowsAreQueued, AppliedIsQueued, HasRows
<1>5. RegistryIsExact'
  <2>1. CASE op \notin Documents
    BY <1>0, <1>1, <2>1 DEF WriterInv, RegistryIsExact, Deliver
  <2>2. CASE op \in Documents
    <3>1. /\ registry[HashOf[op]] = None
          /\ registry' = [registry EXCEPT ![HashOf[op]] = op]
      BY <2>2, OperationOf DEF Deliver, Registrable
    <3>2. /\ registry'[HashOf[op]] = op
          /\ \A h \in Hashes \ {HashOf[op]} : registry'[h] = registry[h]
      BY <2>2, <3>1, HashIn DEF TypeOK
    <3>3. \A d \in Documents : d \in ledger => HashOf[d] # HashOf[op]
      BY <3>1, OperationOf DEF WriterInv, RegistryIsExact
    <3>. QED  BY <1>1, <2>2, <3>2, <3>3, HashIn DEF WriterInv, RegistryIsExact
  <2>. QED  BY <2>1, <2>2
<1>. QED  BY <1>0, <1>3, <1>4, <1>5 DEF WriterInv, Grows

LEMMA RecordWrites ==
  ASSUME TypeOK, WriterInv, NEW op \in DOMAIN outbox, RecordCommit(op) \/ RecordFailure(op)
  PROVE  WriterOK /\ WriterInv' /\ Grows
<1>1. PICK status \in LedgerStatus :
        /\ Record(op, status)
        /\ status = "COMMITTED" => op \in ledger
        /\ outbox[op] # "COMMITTED"
  BY DEF RecordCommit, RecordFailure, LedgerStatus
<1>0. UNCHANGED <<uploads, objects, event, ledger, registry, doubtful>>
  BY <1>1 DEF Record
<1>2. /\ outbox' \in TableOf(Operations, LedgerStatus)
      /\ DOMAIN outbox' = DOMAIN outbox /\ outbox'[op] = status
      /\ \A x \in DOMAIN outbox \ {op} : outbox'[x] = outbox[x]
  BY <1>1, ExceptShape DEF Record, TypeOK
<1>3. /\ rows' \in TableOf(Documents, LedgerStatus)
      /\ DOMAIN rows' = DOMAIN rows
      /\ op \in DOMAIN rows => rows'[op] = status
      /\ \A x \in DOMAIN rows \ {op} : rows'[x] = rows[x]
  <2>1. CASE op \in DOMAIN rows
    BY <1>1, <2>1, ExceptShape DEF Record, TypeOK
  <2>2. CASE op \notin DOMAIN rows
    BY <1>1, <2>2 DEF Record, TypeOK
  <2>. QED  BY <2>1, <2>2
<1>4. WriterOK
  BY <1>0, <1>2, <1>3 DEF WriterOK, TypeOK
<1>5. BytesBeforeRows' /\ RegistryIsExact' /\ HasRows(event', rows', outbox')
  BY <1>0, <1>2, <1>3 DEF WriterInv, BytesBeforeRows, RegistryIsExact, HasRows
<1>6. RowsAreQueued' /\ AppliedIsQueued'
  BY <1>0, <1>1, <1>2, <1>3 DEF WriterInv, RowsAreQueued, AppliedIsQueued
<1>7. Grows
  BY <1>0, <1>1, <1>2, <1>3 DEF WriterInv, RowsAreQueued, Grows
<1>. QED  BY <1>4, <1>5, <1>6, <1>7 DEF WriterInv

(* An action of a writer, whichever it is.                                  *)
Writes ==
  \/ \E d \in Documents :
       \/ UploadCheck(d) \/ UploadPut(d) \/ UploadPutFails(d) \/ UploadRollback(d)
       \/ UploadCommit(d) \/ UploadCommitUnacknowledged(d)
  \/ ReviewEvent
  \/ \E op \in DOMAIN outbox : Deliver(op) \/ RecordCommit(op) \/ RecordFailure(op)

LEMMA WritesKeep ==
  ASSUME TypeOK, WriterInv, Writes
  PROVE  WriterOK /\ WriterInv' /\ Grows
BY UploadWrites, CommitWrites, ReviewWrites, DeliverWrites, RecordWrites DEF Writes

LEMMA WritersOnly ==
  ASSUME Writes
  PROVE  UNCHANGED <<minio, backup, timeline>>
BY DEF Writes, NoReader, UploadCheck, UploadPut, UploadPutFails, UploadRollback, UploadCommit,
       UploadCommitUnacknowledged, ReviewEvent, Deliver, RecordCommit, RecordFailure, Record

LEMMA Unwritten ==
  ASSUME TypeOK, WriterInv, UNCHANGED writers
  PROVE  WriterOK /\ WriterInv' /\ Grows
<1>1. WriterOK /\ Grows
  BY DEF writers, TypeOK, WriterOK, Grows
<1>2. WriterInv'
  BY DEF writers, WriterInv, BytesBeforeRows, RowsAreQueued, AppliedIsQueued, RegistryIsExact,
         HasRows
<1>. QED  BY <1>1, <1>2

-----------------------------------------------------------------------------
(* The backup. *)

BackupMoves == Dump \/ StopMinio \/ Copy \/ StartMinio \/ BackupFails \/ MakeUp

Backups == [step : BackupSteps, dump : SUBSET Documents, tar : SUBSET Documents]

LEMMA NewBackup ==
  ASSUME NEW step \in BackupSteps, NEW dump \in SUBSET Documents
  PROVE  [step |-> step, dump |-> dump, tar |-> {}] \in Backups
BY DEF Backups

LEMMA BackupFrame ==
  ASSUME BackupMoves
  PROVE  UNCHANGED <<writers, timeline>>
BY DEF BackupMoves, Dump, StopMinio, Copy, StartMinio, BackupFails, MakeUp, Step

LEMMA BackupShape ==
  ASSUME TypeOK, BackupMoves
  PROVE  minio' \in BOOLEAN /\ backup' \in Backups
<1>1. DOMAIN rows \subseteq Documents /\ objects \subseteq Documents
  BY InTable DEF TypeOK
<1>2. minio \in BOOLEAN /\ backup \in Backups
  BY DEF TypeOK, Backups
<1>3. CASE Dump \/ BackupFails
  <2>1. "idle" \in BackupSteps /\ "dumped" \in BackupSteps
    BY DEF BackupSteps
  <2>2. CASE Dump
    <3> DEFINE step == "dumped"
    <3>1. backup' = [step |-> step, dump |-> DOMAIN rows, tar |-> {}] /\ step \in BackupSteps
      BY <2>1, <2>2 DEF Dump
    <3> HIDE DEF step
    <3>2. backup' \in Backups
      BY <1>1, <3>1, NewBackup
    <3>. QED  BY <1>2, <2>2, <3>2 DEF Dump
  <2>3. CASE BackupFails
    <3>1. minio' = minio \/ minio' = TRUE
      BY <2>3 DEF BackupFails
    <3>2. backup' \in Backups
      BY <2>3 DEF BackupFails, Backups, BackupSteps
    <3>. QED  BY <1>2, <3>1, <3>2
  <2>. QED  BY <1>3, <2>2, <2>3
<1>4. CASE StopMinio \/ Copy \/ StartMinio
  BY <1>1, <1>2, <1>4 DEF StopMinio, Copy, StartMinio, Step, Backups, BackupSteps
<1>5. CASE MakeUp
  BY <1>2, <1>5 DEF MakeUp
<1>. QED  BY <1>3, <1>4, <1>5 DEF BackupMoves

(* The dump is taken of the rows that are there, the copy of the objects.   *)
LEMMA BackupKeeps ==
  ASSUME TypeOK, WriterInv, DumpHasRows, BackupMoves
  PROVE  DumpHasRows'
<1>1. UNCHANGED <<rows, doubtful>>
  BY BackupFrame DEF writers
<1>0. backup \in Backups /\ backup.dump \subseteq DOMAIN rows
  BY DEF TypeOK, Backups, DumpHasRows
<1>2. backup'.dump \subseteq DOMAIN rows
  <2>1. CASE Dump \/ BackupFails
    BY <2>1 DEF Dump, BackupFails
  <2>2. CASE StopMinio \/ Copy \/ StartMinio \/ MakeUp
    <3>1. backup'.dump = backup.dump
      BY <1>0, <2>2 DEF StopMinio, Copy, StartMinio, MakeUp, Step, Backups
    <3>. QED  BY <1>0, <3>1
  <2>. QED  BY <2>1, <2>2 DEF BackupMoves
<1>3. ASSUME backup'.step = "copied"
      PROVE  backup'.dump \ doubtful \subseteq backup'.tar
  <2>1. Copy
    BY <1>0, <1>3
    DEF BackupMoves, Dump, StopMinio, Copy, StartMinio, BackupFails, MakeUp, Step, Backups
  <2>2. backup'.dump = backup.dump /\ backup'.tar = objects
    BY <1>0, <2>1 DEF Copy, Backups
  <2>3. DOMAIN rows \subseteq objects \cup doubtful
    BY InTable DEF TypeOK, WriterInv, BytesBeforeRows
  <2>. QED  BY <2>2, <2>3 DEF DumpHasRows
<1>. QED  BY <1>1, <1>2, <1>3 DEF DumpHasRows, BackupIsRestorable

LEMMA DumpStays ==
  ASSUME TypeOK, DumpHasRows, Grows, UNCHANGED backup
  PROVE  DumpHasRows'
BY DEF DumpHasRows, BackupIsRestorable, Grows

-----------------------------------------------------------------------------
(* The timeline. *)

Timelines == [step : TimelineSteps, event : Found,
              documents : TableOf(Documents, LedgerStatus),
              operations : TableOf(Documents, LedgerStatus), review : BOOLEAN]

TimelineMoves ==
  ReadEvent \/ ReadDocuments \/ (\E d \in Documents : ReadOperation(d)) \/ ReadReview \/ Answer

LEMMA ReadingStays ==
  ASSUME TypeOK, ReadSoFar, Grows, UNCHANGED timeline
  PROVE  ReadSoFar'
<1>1. timeline.step # "idle" => HasRows(timeline'.event, rows', outbox')
  BY DEF ReadSoFar, HasRows, Grows
<1>. QED  BY <1>1 DEF ReadSoFar, Grows

LEMMA TimelineShape ==
  ASSUME TimelineMoves
  PROVE  UNCHANGED <<writers, minio, backup>>
BY DEF TimelineMoves, ReadEvent, ReadDocuments, ReadOperation, ReadReview, Answer, Reads

LEMMA AnswerKeeps ==
  ASSUME Answer
  PROVE  timeline' \in Timelines /\ ReadSoFar'
<1>1. timeline' = NoTimeline
  BY DEF Answer, Reads
<1>2. NoTimeline \in Timelines /\ NoTimeline.step = "idle" /\ DOMAIN NoTimeline.operations = {}
  BY EmptyTable DEF NoTimeline, Timelines, TimelineSteps, Found
<1>. QED  BY <1>1, <1>2 DEF ReadSoFar

LEMMA ReadEventKeeps ==
  ASSUME TypeOK, WriterInv, ReadEvent
  PROVE  timeline' \in Timelines /\ ReadSoFar'
<1>1. /\ NoTimeline \in Timelines /\ DOMAIN NoTimeline.operations = {}
  BY EmptyTable DEF NoTimeline, Timelines, TimelineSteps, Found
<1>2. timeline' = [NoTimeline EXCEPT !.step = "event", !.event = event]
  BY DEF ReadEvent, Reads
<1>3. /\ timeline' \in Timelines
      /\ timeline'.step = "event" /\ timeline'.event = event
      /\ DOMAIN timeline'.operations = {}
  BY <1>1, <1>2 DEF Timelines, TimelineSteps, TypeOK
<1>4. UNCHANGED <<rows, outbox>>
  BY TimelineShape DEF TimelineMoves, writers
<1>5. HasRows(timeline'.event, rows', outbox')
  BY <1>3, <1>4 DEF WriterInv, HasRows
<1>. QED  BY <1>3, <1>5 DEF ReadSoFar

LEMMA ReadDocumentsKeeps ==
  ASSUME TypeOK, WriterInv, ReadSoFar, ReadDocuments
  PROVE  timeline' \in Timelines /\ ReadSoFar'
<1>1. timeline \in Timelines /\ rows \in TableOf(Documents, LedgerStatus)
  BY DEF TypeOK, Timelines
<1>2. /\ timeline.step = "event"
      /\ timeline' = [timeline EXCEPT !.step = "documents", !.documents = rows]
  BY DEF ReadDocuments, Reads
<1>3. /\ timeline' \in Timelines
      /\ timeline'.step = "documents" /\ timeline'.documents = rows
      /\ timeline'.event = timeline.event /\ timeline'.operations = timeline.operations
  BY <1>1, <1>2 DEF Timelines, TimelineSteps
<1>4. UNCHANGED <<rows, outbox>>
  BY TimelineShape DEF TimelineMoves, writers
<1>5. HasRows(timeline.event, rows, outbox) /\ DOMAIN timeline.operations = {}
  BY <1>2 DEF ReadSoFar
<1>. QED  BY <1>3, <1>4, <1>5 DEF ReadSoFar, HasRows

LEMMA ReadOperationKeeps ==
  ASSUME TypeOK, WriterInv, ReadSoFar, NEW d \in Documents, ReadOperation(d)
  PROVE  timeline' \in Timelines /\ ReadSoFar'
<1> DEFINE read == With(timeline.operations, d, outbox[d])
<1>1. timeline \in Timelines
  BY DEF TypeOK, Timelines
<1>2. /\ timeline.step = "documents"
      /\ timeline' = [timeline EXCEPT !.operations = read]
      /\ d \in DOMAIN timeline.documents \ DOMAIN timeline.operations
  BY DEF ReadOperation, Reads
<1>3. d \in DOMAIN rows /\ d \in DOMAIN outbox /\ outbox[d] = rows[d]
  BY <1>2 DEF ReadSoFar, WriterInv, RowsAreQueued
<1>4. outbox[d] \in LedgerStatus
  BY <1>3, InTable DEF TypeOK
<1>5. timeline.operations \in TableOf(Documents, LedgerStatus)
  BY <1>1 DEF Timelines
<1>6. read \in TableOf(Documents, LedgerStatus)
  BY <1>4, <1>5, WithTable
<1>7. /\ DOMAIN read = DOMAIN timeline.operations \cup {d}
      /\ read[d] = outbox[d]
      /\ \A x \in DOMAIN timeline.operations : read[x] = timeline.operations[x]
  BY <1>2 DEF With
<1> HIDE DEF read
<1>8. /\ timeline' \in Timelines
      /\ timeline'.step = "documents" /\ timeline'.documents = timeline.documents
      /\ timeline'.event = timeline.event /\ timeline'.operations = read
  BY <1>1, <1>2, <1>6 DEF Timelines
<1>9. UNCHANGED <<rows, outbox>>
  BY TimelineShape DEF TimelineMoves, writers
<1>10. HasRows(timeline'.event, rows', outbox')
  BY <1>2, <1>8, <1>9 DEF ReadSoFar, HasRows
<1>11. timeline.documents[d] = "COMMITTED" => read[d] = "COMMITTED"
  BY <1>2, <1>3, <1>7 DEF ReadSoFar
<1>. QED  BY <1>2, <1>7, <1>8, <1>9, <1>10, <1>11 DEF ReadSoFar

LEMMA ReadReviewKeeps ==
  ASSUME TypeOK, WriterInv, ReadSoFar, ReadReview
  PROVE  timeline' \in Timelines /\ ReadSoFar'
<1> DEFINE found == timeline.event.status = "APPROVED" /\ "review" \in DOMAIN outbox
<1>1. timeline \in Timelines
  BY DEF TypeOK, Timelines
<1>2. /\ timeline.step = "documents"
      /\ timeline' = [timeline EXCEPT !.step = "review", !.review = found]
      /\ DOMAIN timeline.operations = DOMAIN timeline.documents
  BY DEF ReadReview, Reads
<1>3. /\ timeline' \in Timelines
      /\ timeline'.step = "review" /\ timeline'.documents = timeline.documents
      /\ timeline'.event = timeline.event /\ timeline'.operations = timeline.operations
      /\ timeline'.review = found
  BY <1>1, <1>2 DEF Timelines, TimelineSteps
<1>4. UNCHANGED <<rows, outbox>>
  BY TimelineShape DEF TimelineMoves, writers
<1>5. HasRows(timeline'.event, rows', outbox')
  BY <1>2, <1>3, <1>4 DEF ReadSoFar, HasRows
<1>6. timeline'.event.status = "APPROVED" => timeline'.review
  BY <1>2, <1>3 DEF ReadSoFar, HasRows
<1>. QED  BY <1>2, <1>3, <1>4, <1>5, <1>6 DEF ReadSoFar

LEMMA TimelineKeeps ==
  ASSUME TypeOK, WriterInv, ReadSoFar, TimelineMoves
  PROVE  timeline' \in Timelines /\ ReadSoFar'
BY AnswerKeeps, ReadEventKeeps, ReadDocumentsKeeps, ReadOperationKeeps, ReadReviewKeeps
DEF TimelineMoves

-----------------------------------------------------------------------------
(* Every step. *)

LEMMA NextInv ==
  ASSUME Inv, [Next]_vars
  PROVE  Inv'
<1>0. TypeOK /\ WriterInv /\ DumpHasRows /\ ReadSoFar
  BY DEF Inv, WriterInv
<1>1. Writes \/ BackupMoves \/ TimelineMoves \/ UNCHANGED vars
  BY DEF Next, Writes, BackupMoves, TimelineMoves
<1>2. WriterOK /\ WriterInv' /\ Grows
  BY <1>0, <1>1, WritesKeep, Unwritten, BackupFrame, TimelineShape DEF vars
<1>3. minio' \in BOOLEAN /\ backup' \in Backups /\ DumpHasRows'
  <2>1. ASSUME UNCHANGED <<minio, backup>>
        PROVE  <1>3!:
    BY <1>0, <1>2, <2>1, DumpStays DEF TypeOK, Backups
  <2>. QED  BY <1>0, <1>1, <2>1, BackupShape, BackupKeeps, WritersOnly, TimelineShape DEF vars
<1>4. timeline' \in Timelines /\ ReadSoFar'
  <2>1. ASSUME UNCHANGED timeline
        PROVE  <1>4!:
    BY <1>0, <1>2, <2>1, ReadingStays DEF TypeOK, Timelines
  <2>. QED  BY <1>0, <1>1, <2>1, TimelineKeeps, WritersOnly, BackupFrame DEF vars
<1>5. TypeOK'
  BY <1>2, <1>3, <1>4 DEF TypeOK, WriterOK, Backups, Timelines
<1>. QED  BY <1>2, <1>3, <1>4, <1>5 DEF Inv, WriterInv

LEMMA TrailIsSound == Spec => []Inv
BY InitInv, NextInv, PTL DEF Spec

-----------------------------------------------------------------------------
(* What the readers find. *)

(* Rows, operations and what was read keep their shape.                     *)
THEOREM TypeCorrect == Spec => []TypeOK
<1>1. Inv => TypeOK
  BY DEF Inv
<1>. QED  BY <1>1, TrailIsSound, PTL

(* A backup that is complete holds the bytes of every document in its dump, *)
(* however many uploads go on while it is made.                             *)
THEOREM BackupIsRestorableHolds == Spec => []BackupIsRestorable
<1>1. Inv => BackupIsRestorable
  BY DEF Inv, DumpHasRows
<1>. QED  BY <1>1, TrailIsSound, PTL

(* The document that the verification of a file names has its row and its   *)
(* bytes, and no other upload of that file is ever shown COMMITTED.          *)
THEOREM VerifiedIsKeptHolds == Spec => []VerifiedIsKept
<1>1. Inv => VerifiedIsKept
  <2> SUFFICES ASSUME Inv
               PROVE  VerifiedIsKept
    OBVIOUS
  <2>0. TypeOK /\ WriterInv
    BY DEF Inv, WriterInv
  <2>1. ASSUME NEW h \in Hashes, registry[h] # None
        PROVE  registry[h] \in DOMAIN rows /\ registry[h] \in objects \cup doubtful
    <3>1. registry[h] \in Documents
      BY <2>0, <2>1 DEF TypeOK
    <3>2. registry[h] \in DOMAIN rows
      BY <2>0, <3>1 DEF WriterInv, RegistryIsExact, AppliedIsQueued, RowsAreQueued
    <3>. QED  BY <2>0, <3>1, <3>2 DEF WriterInv, BytesBeforeRows
  <2>2. ASSUME NEW d \in DOMAIN rows, rows[d] = "COMMITTED"
        PROVE  registry[HashOf[d]] = d
    <3>1. d \in Documents /\ d \in DOMAIN outbox /\ outbox[d] = "COMMITTED"
      BY <2>0, <2>2 DEF WriterInv, RowsAreQueued
    <3>. QED  BY <2>0, <3>1 DEF WriterInv, AppliedIsQueued, RegistryIsExact
  <2>. QED  BY <2>1, <2>2 DEF VerifiedIsKept
<1>. QED  BY <1>1, TrailIsSound, PTL

(* A timeline agrees with itself, whatever is written between its            *)
(* statements.                                                              *)
THEOREM TimelineIsCoherentHolds == Spec => []TimelineIsCoherent
<1>1. Inv => TimelineIsCoherent
  BY DEF Inv, ReadSoFar, TimelineIsCoherent
<1>. QED  BY <1>1, TrailIsSound, PTL
=============================================================================

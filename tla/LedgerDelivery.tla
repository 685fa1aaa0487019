---------------------------- MODULE LedgerDelivery ----------------------------
(***************************************************************************)
(* The path of a maintenance event from the API to the ledger.             *)
(*                                                                         *)
(* API handlers (assets.py, events.py, documents.py) change a business row *)
(* and add a row to ledger_outbox in one PostgreSQL transaction.  A worker *)
(* (ledger_worker.py) claims outbox rows one by one, posts them to the     *)
(* Fabric gateway and records the answer in the outbox and in the business *)
(* row.  The gateway (fabric.ts) endorses, submits and waits for the block *)
(* of the contract modelled by FieldLedgerContract.                        *)
(*                                                                         *)
(* PostgreSQL runs at READ COMMITTED and no handler locks what it reads:   *)
(* a handler that checks a row and commits later is two actions.  A commit *)
(* writes only the columns whose value differs from the one the session    *)
(* loaded (Flush).  Clocks appear as the flag "due" of an outbox row.      *)
(***************************************************************************)
EXTENDS FieldLedgerContract, Sequences

CONSTANTS
  Workers,    \* worker processes; the deployment runs one
  Reviewers,  \* operator and admin users that review events
  UploadOrgs, \* organizations whose users upload documents
  HashOf,     \* the SHA-256 hash of the file of each document
  MaxFaults   \* bound on crashes, timeouts and lost messages

(* Operation ids, as the handlers build them. *)
CreateOf(a)   == <<"asset", a, "create">>
ProposeOf(e)  == <<"event", e, "propose">>
ReviewOf(e)   == <<"event", e, "review">>
RegisterOf(d) == <<"document", d, "register">>

ApiOperationIds ==
  {CreateOf(a) : a \in AssetIds} \cup {ProposeOf(e) : e \in EventIds}
    \cup {ReviewOf(e) : e \in EventIds} \cup {RegisterOf(d) : d \in DocumentIds}

(* aggregate_type and aggregate_id of an outbox row. *)
Aggregate(o) == <<o[1], o[2]>>

ASSUME DeliveryAssumption ==
  /\ OperationIds = ApiOperationIds
  /\ UploadOrgs \subseteq Orgs
  /\ HashOf \in [DocumentIds -> Hashes]
  /\ MaxFaults \in Nat
  /\ None \notin Workers

VARIABLES
  assets,     \* asset rows
  events,     \* event rows
  documents,  \* document rows
  objects,    \* documents whose bytes are in MinIO
  outbox,     \* ledger_outbox rows
  created,    \* operation ids of the rows in order of created_at
  reviews,    \* review requests between their check and their commit
  uploads,    \* upload requests between their check and their commit
  worker,     \* local state of each worker
  calls,      \* submit calls the gateway has received and not endorsed yet
  faults      \* how many faults have happened

apiVars  == <<assets, documents, objects, reviews, uploads>>
vars == <<contractVars, assets, events, documents, objects, outbox, created,
          reviews, uploads, worker, calls, faults>>

EventStatus  == {"PROPOSED"} \cup Decisions
LedgerStatus == {"PENDING", "SUBMITTED", "COMMITTED", "FAILED"}

EventRows ==
  [assetId : AssetIds, status : EventStatus, documentHash : Hashes \cup {None},
   ledger : LedgerStatus, tx : TxIds \cup {None}]
DocumentRows ==
  [eventId : EventIds, ledger : LedgerStatus, tx : TxIds \cup {None}]
OutboxRows ==
  [request : Requests, status : LedgerStatus, due : BOOLEAN,
   tx : TxIds \cup {None}]
ReviewSessions ==
  [eventId : EventIds, decision : Decisions, ledger : LedgerStatus,
   tx : TxIds \cup {None}]
UploadSessions == [eventId : EventIds, ledger : LedgerStatus, stored : BOOLEAN]

(* A worker is idle, has claimed an item, waits for the gateway, has an      *)
(* answer, has looked for the last operation of the aggregate, or has loaded *)
(* all it is about to write to.  "tx" is the transaction the gateway         *)
(* submitted for it; "row" and "view" are the statuses it loaded and         *)
(* "latest" says whether its operation was found to be the last one.         *)
WorkerStates ==
  [pc : {"idle", "claimed", "waiting", "answered", "looked", "recording"},
   op : OperationIds \cup {None}, tx : TxIds \cup {None}, ok : BOOLEAN,
   latest : BOOLEAN, row : LedgerStatus, view : LedgerStatus]
Idle == [pc |-> "idle", op |-> None, tx |-> None, ok |-> FALSE,
         latest |-> FALSE, row |-> "PENDING", view |-> "PENDING"]

Calls == [op : OperationIds, owner : Workers \cup {None}]

ASSUME NoneIsNoRow ==
  None \notin EventRows \cup DocumentRows \cup OutboxRows \cup UploadSessions

Init ==
  /\ ContractInit
  /\ assets = {}
  /\ events = [e \in EventIds |-> None]
  /\ documents = [d \in DocumentIds |-> None]
  /\ objects = {}
  /\ outbox = [o \in OperationIds |-> None]
  /\ created = <<>>
  /\ reviews = [u \in Reviewers |-> None]
  /\ uploads = [d \in DocumentIds |-> None]
  /\ worker = [w \in Workers |-> Idle]
  /\ calls = {}
  /\ faults = 0

-----------------------------------------------------------------------------
(* The API.                                                                *)

(* A session writes a column only if it assigned another value than the one *)
(* it loaded; otherwise the current value stays.                            *)
Flush(loaded, assigned, current) == IF assigned = loaded THEN current ELSE assigned

WrongEnqueueOnce(r) ==  \* ON CONFLICT DO NOTHING
  IF outbox[r.operationId] # None
  THEN UNCHANGED <<outbox, created>>
  ELSE /\ outbox' = [outbox EXCEPT ![r.operationId] =
                       [request |-> r, status |-> "PENDING", due |-> TRUE, tx |-> None]]
       /\ created' = Append(created, r.operationId)

(* Part of the commit of a handler: a second row with the same operation id *)
(* violates the primary key and the whole commit fails.                     *)
Enqueue(r) ==
  /\ outbox[r.operationId] = None
  /\ outbox' = [outbox EXCEPT ![r.operationId] =
                  [request |-> r, status |-> "PENDING", due |-> TRUE, tx |-> None]]
  /\ created' = Append(created, r.operationId)

CreateAssetRow(a) ==
  /\ a \notin assets
  /\ assets' = assets \cup {a}
  /\ Enqueue([operationId |-> CreateOf(a), action |-> "REGISTER_ASSET",
              organization |-> "OperatorOrg", payload |-> [assetId |-> a]])
  /\ UNCHANGED <<contractVars, events, documents, objects, reviews, uploads,
                 worker, calls, faults>>

ProposeMaintenance(e, a) ==
  /\ a \in assets
  /\ events[e] = None
  /\ events' = [events EXCEPT ![e] =
                  [assetId |-> a, status |-> "PROPOSED", documentHash |-> None,
                   ledger |-> "PENDING", tx |-> None]]
  /\ Enqueue([operationId |-> ProposeOf(e), action |-> "PROPOSE_EVENT",
              organization |-> "ContractorOrg",
              payload |-> [eventId |-> e, assetId |-> a]])
  /\ UNCHANGED <<contractVars, apiVars, worker, calls, faults>>

(* review_event up to its commit: the row is read and checked, not locked. *)
ReviewCheck(u, e, decision) ==
  /\ reviews[u] = None
  /\ events[e] # None
  /\ events[e].status = "PROPOSED"
  /\ reviews' = [reviews EXCEPT ![u] =
                   [eventId |-> e, decision |-> decision,
                    ledger |-> events[e].ledger, tx |-> events[e].tx]]
  /\ UNCHANGED <<contractVars, assets, events, documents, objects, outbox,
                 created, uploads, worker, calls, faults>>

ReviewCommit(u) ==
  LET session == reviews[u]
      e == session.eventId
  IN  /\ session # None
      /\ Enqueue([operationId |-> ReviewOf(e), action |-> "REVIEW_EVENT",
                  organization |-> "OperatorOrg",
                  payload |-> [eventId |-> e, decision |-> session.decision]])
      /\ events' = [events EXCEPT
                      ![e].status = session.decision,
                      ![e].ledger = Flush(session.ledger, "PENDING", @),
                      ![e].tx = Flush(session.tx, None, @)]
      /\ reviews' = [reviews EXCEPT ![u] = None]
      /\ UNCHANGED <<contractVars, assets, documents, objects, uploads, worker,
                     calls, faults>>

(* The commit failed, on the primary key of the outbox for one, or the      *)
(* process died: PostgreSQL keeps nothing of the session.                   *)
ReviewRollback(u) ==
  /\ reviews[u] # None
  /\ reviews' = [reviews EXCEPT ![u] = None]
  /\ UNCHANGED <<contractVars, assets, events, documents, objects, outbox,
                 created, uploads, worker, calls, faults>>

(* upload_document checks the event, stores the bytes, then commits. *)
UploadCheck(d, e) ==
  /\ uploads[d] = None
  /\ documents[d] = None
  /\ d \notin objects
  /\ events[e] # None
  /\ events[e].status = "PROPOSED"
  /\ uploads' = [uploads EXCEPT ![d] =
                   [eventId |-> e, ledger |-> events[e].ledger, stored |-> FALSE]]
  /\ UNCHANGED <<contractVars, assets, events, documents, objects, outbox,
                 created, reviews, worker, calls, faults>>

UploadPut(d) ==
  /\ uploads[d] # None
  /\ ~uploads[d].stored
  /\ uploads' = [uploads EXCEPT ![d].stored = TRUE]
  /\ objects' = objects \cup {d}
  /\ UNCHANGED <<contractVars, assets, events, documents, outbox, created,
                 reviews, worker, calls, faults>>

WrongAttached(d, row) ==  \* the transaction is reset with the status, as by a review
  [row EXCEPT !.documentHash = HashOf[d], !.ledger = Flush(uploads[d].ledger, "PENDING", @),
              !.tx = None]

(* The row of an event with the evidence of upload d. *)
Attached(d, row) ==
  [row EXCEPT !.documentHash = HashOf[d], !.ledger = Flush(uploads[d].ledger, "PENDING", @)]

(* What PostgreSQL keeps of an upload whose commit succeeds. *)
UploadRows(d) ==
  LET e == uploads[d].eventId IN
  /\ documents' = [documents EXCEPT ![d] =
                     [eventId |-> e, ledger |-> "PENDING", tx |-> None]]
  /\ events' = [events EXCEPT ![e] = Attached(d, @)]
  /\ \E organization \in UploadOrgs :
       Enqueue([operationId |-> RegisterOf(d), action |-> "REGISTER_DOCUMENT",
                organization |-> organization,
                payload |-> [documentId |-> d, eventId |-> e,
                             assetId |-> events[e].assetId,
                             sha256Hash |-> HashOf[d]]])

UploadCommit(d) ==
  /\ uploads[d] # None
  /\ uploads[d].stored
  /\ UploadRows(d)
  /\ uploads' = [uploads EXCEPT ![d] = None]
  /\ UNCHANGED <<contractVars, assets, objects, reviews, worker, calls, faults>>

WrongUploadRollback(d) ==  \* only the rows are rolled back
  /\ uploads[d] # None
  /\ uploads' = [uploads EXCEPT ![d] = None]
  /\ UNCHANGED <<contractVars, assets, events, documents, objects, outbox, created,
                 reviews, worker, calls, faults>>

(* A later check, put_bytes or the commit failed: nothing of it is left. *)
UploadRollback(d) ==
  /\ uploads[d] # None
  /\ uploads' = [uploads EXCEPT ![d] = None]
  /\ objects' = objects \ {d}
  /\ UNCHANGED <<contractVars, assets, events, documents, outbox, created,
                 reviews, worker, calls, faults>>

Fault == faults < MaxFaults /\ faults' = faults + 1

(* The connection breaks after PostgreSQL has committed and before the API  *)
(* knows: the handler takes the failure branch and removes the object.      *)
UploadCommitUnacknowledged(d) ==
  /\ Fault
  /\ uploads[d] # None
  /\ uploads[d].stored
  /\ UploadRows(d)
  /\ uploads' = [uploads EXCEPT ![d] = None]
  /\ objects' = objects \ {d}
  /\ UNCHANGED <<contractVars, assets, reviews, worker, calls>>

WrongUploadCrash(d) ==  \* the document is committed before its outbox row
  /\ Fault
  /\ uploads[d] # None
  /\ uploads[d].stored
  /\ documents' = [documents EXCEPT ![d] =
                     [eventId |-> uploads[d].eventId, ledger |-> "PENDING", tx |-> None]]
  /\ uploads' = [uploads EXCEPT ![d] = None]
  /\ UNCHANGED <<contractVars, assets, events, objects, outbox, created, reviews,
                 worker, calls>>

(* The API process dies after it stored the bytes or before, or put_object  *)
(* stored them and timed out, or the removal fails: nothing cleans up.      *)
UploadCrash(d) ==
  /\ Fault
  /\ uploads[d] # None
  /\ uploads' = [uploads EXCEPT ![d] = None]
  /\ UNCHANGED <<contractVars, assets, events, documents, objects, outbox,
                 created, reviews, worker, calls>>

-----------------------------------------------------------------------------
(* The worker.                                                             *)

WrongEligible(o) ==  \* the status is not looked at
  outbox[o] # None /\ outbox[o].due

(* PENDING rows and FAILED rows are eligible when next_attempt_at has come,  *)
(* SUBMITTED rows when they have not been updated for two minutes.           *)
Eligible(o) == outbox[o] # None /\ outbox[o].status # "COMMITTED" /\ outbox[o].due
IsNextItem(o) ==
  \E i \in DOMAIN created :
     /\ created[i] = o
     /\ Eligible(o)
     /\ \A j \in 1..(i - 1) : ~Eligible(created[j])

WrongTimePasses(o) ==  \* a row that stays SUBMITTED is never claimed again
  /\ outbox[o] # None
  /\ outbox[o].status = "FAILED"
  /\ ~outbox[o].due
  /\ outbox' = [outbox EXCEPT ![o].due = TRUE]
  /\ UNCHANGED <<contractVars, apiVars, events, created, worker, calls, faults>>

TimePasses(o) ==
  /\ outbox[o] # None
  /\ outbox[o].status \in {"SUBMITTED", "FAILED"}
  /\ ~outbox[o].due
  /\ outbox' = [outbox EXCEPT ![o].due = TRUE]
  /\ UNCHANGED <<contractVars, apiVars, events, created, worker, calls, faults>>

(* next_item: one transaction, the row is locked while it is claimed. *)
Claim(w, o) ==
  /\ worker[w].pc = "idle"
  /\ IsNextItem(o)
  /\ outbox' = [outbox EXCEPT ![o].status = "SUBMITTED", ![o].due = FALSE]
  /\ worker' = [worker EXCEPT ![w] = [Idle EXCEPT !.pc = "claimed", !.op = o]]
  /\ UNCHANGED <<contractVars, apiVars, events, created, calls, faults>>

(* The first half of submit: the item is read again and posted. *)
Post(w) ==
  /\ worker[w].pc = "claimed"
  /\ worker' = [worker EXCEPT ![w].pc = "waiting"]
  /\ calls' = calls \cup {[op |-> worker[w].op, owner |-> w]}
  /\ UNCHANGED <<contractVars, apiVars, events, outbox, created, faults>>

Answered(w, ok) == [worker[w] EXCEPT !.pc = "answered", !.ok = ok]

WrongOrphaned(w) == calls  \* a late answer goes to whoever waits next

(* Nobody waits any more for the calls of w; the gateway goes on with them. *)
Orphaned(w) == {[c EXCEPT !.owner = IF @ = w THEN None ELSE @] : c \in calls}

(* The gateway cannot be reached, or 120 seconds pass without an answer. *)
Unreachable(w) ==
  /\ Fault
  /\ worker[w].pc = "claimed"
  /\ worker' = [worker EXCEPT ![w] = Answered(w, FALSE)]
  /\ UNCHANGED <<contractVars, apiVars, events, outbox, created, calls>>

WrongTimeout(w) ==  \* no answer is taken for success
  /\ Fault
  /\ worker[w].pc = "waiting"
  /\ worker' = [worker EXCEPT ![w] = Answered(w, TRUE)]
  /\ calls' = Orphaned(w)
  /\ UNCHANGED <<contractVars, apiVars, events, outbox, created>>

Timeout(w) ==
  /\ Fault
  /\ worker[w].pc = "waiting"
  /\ worker' = [worker EXCEPT ![w] = Answered(w, FALSE)]
  /\ calls' = Orphaned(w)
  /\ UNCHANGED <<contractVars, apiVars, events, outbox, created>>

(* The worker process dies and is started again; its row stays SUBMITTED. *)
Crash(w) ==
  /\ Fault
  /\ worker[w].pc # "idle"
  /\ worker' = [worker EXCEPT ![w] = Idle]
  /\ calls' = Orphaned(w)
  /\ UNCHANGED <<contractVars, apiVars, events, outbox, created>>

WrongIsLatest(o) == TRUE  \* every operation of the aggregate counts

IsLatest(o) ==
  \E i \in DOMAIN created :
     /\ created[i] = o
     /\ \A j \in (i + 1)..Len(created) : Aggregate(created[j]) # Aggregate(o)

LedgerView(o) ==
  CASE o[1] = "event"    -> events[o[2]].ledger
    [] o[1] = "document" -> documents[o[2]].ledger
    [] OTHER             -> "PENDING"

(* The transaction that records an answer reads the outbox row, which only   *)
(* workers write, and the latest operation of the aggregate ...             *)
FindLatest(w) ==
  LET o == worker[w].op IN
  /\ worker[w].pc = "answered"
  /\ worker' = [worker EXCEPT ![w].pc = "looked",
                              ![w].latest = IsLatest(o),
                              ![w].row = outbox[o].status]
  /\ UNCHANGED <<contractVars, apiVars, events, outbox, created, calls, faults>>

(* ... then the business row, which a handler may have committed meanwhile   *)
(* (what is loaded is used for the latest operation only) ...               *)
LoadView(w) ==
  /\ worker[w].pc = "looked"
  /\ worker' = [worker EXCEPT ![w].pc = "recording",
                              ![w].view = LedgerView(worker[w].op)]
  /\ UNCHANGED <<contractVars, apiVars, events, outbox, created, calls, faults>>

WrongRecordedCommitted(w, row) ==  \* a failed attempt is shown like a good one
  [row EXCEPT !.ledger = "COMMITTED", !.tx = IF worker[w].ok THEN worker[w].tx ELSE @]

(* ... then writes the answer: update_aggregate touches events and documents *)
(* only, and only for the latest operation of the aggregate.                 *)
Recorded(w, row) ==
  LET s == worker[w]
      status == IF s.ok THEN "COMMITTED" ELSE "FAILED"
  IN  [row EXCEPT !.ledger = Flush(s.view, status, @),
                  !.tx = IF s.ok THEN s.tx ELSE @]

Record(w) ==
  LET s == worker[w]
      status == IF s.ok THEN "COMMITTED" ELSE "FAILED"
  IN  /\ s.pc = "recording"
      /\ outbox' = [outbox EXCEPT ![s.op].status = Flush(s.row, status, @),
                                  ![s.op].due = s.ok,
                                  ![s.op].tx = IF s.ok THEN s.tx ELSE @]
      /\ events' = [e \in EventIds |->
                      IF s.latest /\ Aggregate(s.op) = <<"event", e>>
                      THEN Recorded(w, events[e]) ELSE events[e]]
      /\ documents' = [d \in DocumentIds |->
                         IF s.latest /\ Aggregate(s.op) = <<"document", d>>
                         THEN Recorded(w, documents[d]) ELSE documents[d]]
      /\ worker' = [worker EXCEPT ![w] = Idle]
      /\ UNCHANGED <<contractVars, assets, objects, reviews, uploads, created,
                     calls, faults>>

-----------------------------------------------------------------------------
(* The gateway and the channel.                                            *)

UsedTxIds ==
  {tx.id : tx \in inflight}
    \cup {operations[o].txId : o \in {p \in OperationIds : operations[p] # None}}
    \cup {outbox[o].tx : o \in {p \in OperationIds : outbox[p] # None}}
    \cup {events[e].tx : e \in {f \in EventIds : events[f] # None}}
    \cup {documents[d].tx : d \in {f \in DocumentIds : documents[f] # None}}
    \cup {worker[w].tx : w \in Workers}
FreshTxId == CHOOSE id \in TxIds : id \notin UsedTxIds

Handled(c) == c \in calls /\ calls' = calls \ {c}
NoApiStep == UNCHANGED <<apiVars, events, outbox, created>>

(* The worker that waits for call c, if it still does, gets the state new. *)
ToOwner(c, new(_)) ==
  worker' = [w \in Workers |-> IF w = c.owner THEN new(w) ELSE worker[w]]

GatewayEndorse(c) ==
  /\ Handled(c)
  /\ TxIds \ UsedTxIds # {}
  /\ Endorse(outbox[c.op].request, FreshTxId)
  /\ LET new(w) == [worker[w] EXCEPT !.tx = FreshTxId] IN ToOwner(c, new)
  /\ NoApiStep
  /\ UNCHANGED faults

(* The contract refuses the request: the gateway answers 502. *)
GatewayReject(c) ==
  /\ Handled(c)
  /\ ~Endorsable(outbox[c.op].request)
  /\ LET new(w) == Answered(w, FALSE) IN ToOwner(c, new)
  /\ NoApiStep
  /\ UNCHANGED <<contractVars, faults>>

(* Peers do not endorse in time or cannot be reached. *)
GatewayFail(c) ==
  /\ Fault
  /\ Handled(c)
  /\ LET new(w) == Answered(w, FALSE) IN ToOwner(c, new)
  /\ NoApiStep
  /\ UNCHANGED contractVars

(* The worker whose call became tx, if it still waits, gets the answer. *)
Answer(tx, ok) ==
  worker' = [w \in Workers |->
               IF worker[w].pc = "waiting" /\ worker[w].tx = tx.id
               THEN Answered(w, ok) ELSE worker[w]]

OrderValid(tx) ==
  /\ CommitValid(tx)
  /\ Answer(tx, TRUE)
  /\ NoApiStep
  /\ UNCHANGED <<calls, faults>>

OrderInvalid(tx) ==
  /\ CommitInvalid(tx)
  /\ Answer(tx, FALSE)
  /\ NoApiStep
  /\ UNCHANGED <<calls, faults>>

OrdererFail(tx) ==
  /\ Fault
  /\ Lose(tx)
  /\ Answer(tx, FALSE)
  /\ NoApiStep
  /\ UNCHANGED calls

-----------------------------------------------------------------------------
ApiStep ==
  \/ \E a \in AssetIds : CreateAssetRow(a)
  \/ \E e \in EventIds, a \in AssetIds : ProposeMaintenance(e, a)
  \/ \E u \in Reviewers, e \in EventIds, decision \in Decisions :
        ReviewCheck(u, e, decision)
  \/ \E u \in Reviewers : ReviewCommit(u) \/ ReviewRollback(u)
  \/ \E d \in DocumentIds, e \in EventIds : UploadCheck(d, e)
  \/ \E d \in DocumentIds :
        UploadPut(d) \/ UploadCommit(d) \/ UploadRollback(d)
          \/ UploadCommitUnacknowledged(d) \/ UploadCrash(d)

WorkerStep ==
  \E w \in Workers :
     \/ \E o \in OperationIds : Claim(w, o)
     \/ Post(w) \/ FindLatest(w) \/ LoadView(w) \/ Record(w)

GatewayStep == \E c \in calls : GatewayEndorse(c) \/ GatewayReject(c)
ChannelStep == \E tx \in inflight : OrderValid(tx) \/ OrderInvalid(tx)

FaultStep ==
  \/ \E w \in Workers : Unreachable(w) \/ Timeout(w) \/ Crash(w)
  \/ \E c \in calls : GatewayFail(c)
  \/ \E tx \in inflight : OrdererFail(tx)

Next ==
  \/ ApiStep
  \/ WorkerStep
  \/ \E o \in OperationIds : TimePasses(o)
  \/ GatewayStep
  \/ ChannelStep
  \/ FaultStep

Fairness ==
  /\ WF_vars(WorkerStep)
  /\ WF_vars(GatewayStep)
  /\ WF_vars(ChannelStep)
  /\ \A o \in OperationIds : WF_vars(TimePasses(o))

Spec == Init /\ [][Next]_vars
FairSpec == Spec /\ Fairness

-----------------------------------------------------------------------------
(* Every row, session and message has the shape its readers expect, and the *)
(* order of creation lists the rows of the outbox once each.                *)
TypeOK ==
  /\ ContractTypeOK
  /\ assets \subseteq AssetIds
  /\ events \in [EventIds -> EventRows \cup {None}]
  /\ documents \in [DocumentIds -> DocumentRows \cup {None}]
  /\ objects \subseteq DocumentIds
  /\ outbox \in [OperationIds -> OutboxRows \cup {None}]
  /\ created \in Seq(OperationIds)
  /\ reviews \in [Reviewers -> ReviewSessions \cup {None}]
  /\ uploads \in [DocumentIds -> UploadSessions \cup {None}]
  /\ worker \in [Workers -> WorkerStates]
  /\ calls \subseteq Calls
  /\ faults \in 0..MaxFaults

(* The status COMMITTED of an outbox row is never invented: the contract has *)
(* applied that operation with the payload of that row, whatever was lost,   *)
(* repeated or answered late on the way (ledger_worker.submit).              *)
CommittedIsOnLedger ==
  \A o \in OperationIds :
    (outbox[o] # None /\ outbox[o].status = "COMMITTED") =>
      /\ Applied(o)
      /\ operations[o].digest = outbox[o].request.payload

(* The ledger holds nothing the database did not ask for: an applied         *)
(* operation has its outbox row, with the very payload that was applied.     *)
AppliedWasQueued ==
  \A o \in OperationIds :
    Applied(o) => /\ outbox[o] # None
                  /\ outbox[o].request.payload = operations[o].digest

(* The ledger and the database never disagree on a decision, although two    *)
(* operators may review the same event at the same time (review_event).      *)
DecisionsAgree ==
  \A e \in EventIds :
    (Exists(<<"event", e>>) /\ world[<<"event", e>>].status \in Decisions) =>
      /\ events[e] # None
      /\ events[e].status = world[<<"event", e>>].status

(* The transactional outbox: a business change and its outbox row are there  *)
(* together, and the queued decision is the one the event shows.             *)
EveryChangeIsQueued ==
  /\ \A a \in AssetIds : a \in assets <=> outbox[CreateOf(a)] # None
  /\ \A d \in DocumentIds : documents[d] # None <=> outbox[RegisterOf(d)] # None
  /\ \A e \in EventIds :
       /\ events[e] # None <=> outbox[ProposeOf(e)] # None
       /\ (events[e] # None /\ events[e].status \in Decisions)
            <=> outbox[ReviewOf(e)] # None
       /\ outbox[ReviewOf(e)] # None =>
            outbox[ReviewOf(e)].request.payload.decision = events[e].status

(* A confirmation is final: no late failure and no second attempt takes a    *)
(* COMMITTED row back or gives it another transaction (one worker runs).     *)
CommittedIsFinal ==
  [][\A o \in OperationIds :
       (outbox[o] # None /\ outbox[o].status = "COMMITTED") =>
         outbox'[o] = outbox[o]]_vars

EventOperations(e) == {o \in {ProposeOf(e), ReviewOf(e)} : outbox[o] # None}
AllCommitted(O) == \A o \in O : outbox[o].status = "COMMITTED"
LastOperation(e) == IF outbox[ReviewOf(e)] # None THEN ReviewOf(e) ELSE ProposeOf(e)

HasDocument(e) == \E d \in DocumentIds : documents[d] # None /\ documents[d].eventId = e

(* When everything queued for an event is confirmed, the event shows the     *)
(* transaction of its last operation and COMMITTED, whatever the reviews and *)
(* the recording of earlier answers overwrote on the way (update_aggregate,  *)
(* review_event).  Only an upload takes the status back, to PENDING, and it  *)
(* leaves the transaction alone (upload_document).                           *)
SettledEventShowsLastOperation ==
  \A e \in EventIds :
    (events[e] # None /\ AllCommitted(EventOperations(e))) =>
      /\ events[e].tx = outbox[LastOperation(e)].tx
      /\ \/ events[e].ledger = "COMMITTED"
         \/ events[e].ledger = "PENDING" /\ HasDocument(e)

(* A document shows the confirmation of its own operation, and no other.     *)
DocumentShowsItsOperation ==
  \A d \in DocumentIds :
    documents[d] # None =>
      LET row == outbox[RegisterOf(d)] IN
      /\ documents[d].ledger = "COMMITTED" <=> row.status = "COMMITTED"
      /\ row.status = "COMMITTED" => documents[d].tx = row.tx

(* Until something breaks, the two stores of a document agree: its row has   *)
(* its object, and an object without a row belongs to an open upload, however *)
(* reviews and uploads race (upload_document cleans up what it cannot        *)
(* commit).  After a fault they need not: the object of a commit without an  *)
(* acknowledgement is removed, that of a crashed upload stays.               *)
EvidenceIsWhole ==
  faults = 0 =>
    \A d \in DocumentIds :
      /\ documents[d] # None => d \in objects
      /\ d \in objects => documents[d] # None \/ uploads[d] # None

(* Every queued operation is confirmed in the end, through crashes, timeouts *)
(* and refusals of operations whose predecessor is not on the ledger yet.    *)
EveryOperationIsConfirmed ==
  \A o \in OperationIds :
    (outbox[o] # None) ~> (outbox[o] # None /\ outbox[o].status = "COMMITTED")

-----------------------------------------------------------------------------
(* The outbox and the worker keep what ConfirmedDelivery promises.          *)
Promise == INSTANCE ConfirmedDelivery WITH
  Operations <- OperationIds,
  queued     <- {o \in OperationIds : outbox[o] # None},
  applied    <- {o \in OperationIds : Applied(o)},
  confirmed  <- {o \in OperationIds :
                   outbox[o] # None /\ outbox[o].status = "COMMITTED"}

(* Every step of the system queues, applies or confirms one operation, in    *)
(* that order and never backwards, or leaves the three sets alone.           *)
KeepsThePromise == Promise!Spec

(* ... and every queued operation goes all the way.                          *)
KeepsThePromiseFairly == Promise!FairSpec

-----------------------------------------------------------------------------
(* Why CommittedIsOnLedger holds: the inductive invariant.                  *)

(* Sessions and queued operations are about rows that exist. *)
SessionsHaveRows ==
  /\ \A u \in Reviewers : reviews[u] # None => events[reviews[u].eventId] # None
  /\ \A d \in DocumentIds : uploads[d] # None => events[uploads[d].eventId] # None

QueuedHaveRows ==
  /\ \A e \in EventIds :
        (outbox[ProposeOf(e)] # None \/ outbox[ReviewOf(e)] # None) => events[e] # None
  /\ \A d \in DocumentIds : outbox[RegisterOf(d)] # None => documents[d] # None

(* Whoever works on an operation works on one that is in the outbox. *)
WorkIsQueued ==
  /\ \A o \in OperationIds : outbox[o] # None => outbox[o].request.operationId = o
  /\ \A c \in calls : outbox[c.op] # None
  /\ \A w \in Workers : worker[w].pc # "idle" =>
        worker[w].op \in OperationIds /\ outbox[worker[w].op] # None

(* A call is answered to the worker that posted it and still waits for it. *)
CallsKnowTheirOwner ==
  /\ \A w \in Workers : worker[w].pc = "claimed" => worker[w].tx = None
  /\ \A c \in calls, w \in Workers :
       c.owner = w => /\ worker[w].pc = "waiting"
                      /\ worker[w].op = c.op
                      /\ worker[w].tx = None

(* A transaction carries the request of its row, and a worker that waits for *)
(* it waits for that operation.                                              *)
TransactionsAreFaithful ==
  \A tx \in inflight :
    LET o == tx.request.operationId IN
    /\ outbox[o] # None
    /\ outbox[o].request = tx.request
    /\ \A w \in Workers :
         (worker[w].pc = "waiting" /\ worker[w].tx = tx.id) => worker[w].op = o

(* A worker that is told "ok" was told the truth. *)
AnswersAreTrue ==
  \A w \in Workers :
    (worker[w].pc \in {"answered", "looked", "recording"} /\ worker[w].ok) =>
      Applied(worker[w].op)

(* The application's claims about the ledger, with all they rest on: every   *)
(* row, message and answer between the outbox and the contract is about the  *)
(* operation it is taken for (ledger_worker.submit, fabric.ts).              *)
DeliveryInv ==
  /\ SessionsHaveRows
  /\ QueuedHaveRows
  /\ WorkIsQueued
  /\ CallsKnowTheirOwner
  /\ TransactionsAreFaithful
  /\ AnswersAreTrue
  /\ AppliedWasQueued
  /\ CommittedIsOnLedger

-----------------------------------------------------------------------------
(* A statement of the repository that the code does not keep.               *)

(* non-technical-guide.md: PENDING is never presented as "in the blockchain".*)
(* An event that shows COMMITTED has no operation still to be confirmed.     *)
ShownCommittedIsCommitted ==
  \A e \in EventIds :
    (events[e] # None /\ events[e].ledger = "COMMITTED") =>
      AllCommitted(EventOperations(e))
=============================================================================

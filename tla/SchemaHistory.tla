----------------------------- MODULE SchemaHistory -----------------------------
(***************************************************************************)
(* The database through its migrations, up and down, while the API and the *)
(* worker run, and the reconciliation that queues what is older than the   *)
(* outbox.  A run of alembic is one transaction (env.py): it takes effect  *)
(* from the revision it was planned for or not at all, and what its        *)
(* constraints refuse rolls it back.                                       *)
(*                                                                         *)
(* A revision is the number of its migration.  A retirement is the event   *)
(* EVT-DECOM of an asset; `retired' holds those whose asset has its        *)
(* decommission columns.                                                   *)
(***************************************************************************)
EXTENDS Integers, FiniteSets

CONSTANTS
  Events,       \* ids of asset_events
  Retirements,  \* those that decommission_asset makes up
  Documents,    \* ids of asset_documents
  EventOf,      \* the event each document is uploaded to
  Batches,      \* ids of telemetry_batches
  Migrators,    \* processes that run alembic
  None

ASSUME SchemaAssumption ==
  /\ Retirements \subseteq Events
  /\ EventOf \in [Documents -> Events]
  /\ None \notin (1 .. 6) \X (1 .. 6)

Head == 6

VARIABLES
  revision,    \* alembic_version
  events,      \* rows of asset_events
  reviewed,    \* those that are APPROVED or REJECTED
  documents,   \* rows of asset_documents
  retired,     \* retirements whose asset has decommissioned_at
  batches,     \* rows of telemetry_batches
  outbox,      \* rows of ledger_outbox: the operations queued
  ledger,      \* operations applied by the contract
  plans,       \* what each migrator is about to do
  reconciled   \* a reconciliation has run since the outbox was created

rows == <<events, reviewed, documents, retired, batches>>
vars == <<revision, rows, outbox, ledger, plans, reconciled>>

Proposal(e)     == <<"PROPOSE_EVENT", e>>
Review(e)       == <<"REVIEW_EVENT", e>>
Registration(d) == <<"REGISTER_DOCUMENT", d>>
Retirement(e)   == <<"DECOMMISSION_ASSET", e>>
Anchor(b)       == <<"REGISTER_TELEMETRY_BATCH", b>>

Operations ==
  {Proposal(e) : e \in Events} \cup {Review(e) : e \in Events}
  \cup {Registration(d) : d \in Documents}
  \cup {Retirement(e) : e \in Retirements} \cup {Anchor(b) : b \in Batches}

(* The actions that only the check of revision 6 allows. *)
IsNewer(op) == op[1] \in {"DECOMMISSION_ASSET", "REGISTER_TELEMETRY_BATCH"}
Newer(ops)  == {op \in ops : IsNewer(op)}

OnePerEvent(ds) == \A d1, d2 \in ds : EventOf[d1] = EventOf[d2] => d1 = d2

TypeOK ==
  /\ revision \in 1 .. Head
  /\ events \subseteq Events
  /\ reviewed \subseteq events
  /\ documents \subseteq {d \in Documents : EventOf[d] \in events}
  /\ retired \subseteq Retirements
  /\ batches \subseteq Batches
  /\ outbox \subseteq Operations
  /\ ledger \subseteq Operations
  /\ plans \in [Migrators -> (1 .. Head) \X (1 .. Head) \cup {None}]
  /\ reconciled \in BOOLEAN

(* Revision 2 with what an older API left: one document per event at most. *)
Init ==
  /\ revision = 2
  /\ events \in SUBSET (Events \ Retirements)
  /\ reviewed \in SUBSET events
  /\ documents \in SUBSET {d \in Documents : EventOf[d] \in events}
  /\ OnePerEvent(documents)
  /\ retired = {} /\ batches = {} /\ outbox = {} /\ ledger = {}
  /\ plans = [m \in Migrators |-> None]
  /\ reconciled = FALSE

-----------------------------------------------------------------------------
(* The API: its models have the columns of revision 5, which the rows of    *)
(* events lack nothing of.                                                  *)

(* The check constraint of the outbox. *)
Allowed(op) == revision = Head \/ (revision >= 3 /\ ~IsNewer(op))

Enqueue(op) ==
  /\ Allowed(op)
  /\ op \notin outbox
  /\ outbox' = outbox \cup {op}
  /\ UNCHANGED <<revision, ledger, plans, reconciled>>

ProposeMaintenance(e) ==
  /\ revision >= 5
  /\ e \notin events \cup Retirements
  /\ Enqueue(Proposal(e))
  /\ events' = events \cup {e}
  /\ UNCHANGED <<reviewed, documents, retired, batches>>

ReviewEvent(e) ==
  /\ e \in events \ reviewed
  /\ Enqueue(Review(e))
  /\ reviewed' = reviewed \cup {e}
  /\ UNCHANGED <<events, documents, retired, batches>>

UploadDocument(d) ==
  /\ revision >= 5
  /\ EventOf[d] \in events \ reviewed
  /\ d \notin documents
  /\ Enqueue(Registration(d))
  /\ documents' = documents \cup {d}
  /\ UNCHANGED <<events, reviewed, retired, batches>>

DecommissionAsset(e) ==
  /\ revision >= 5
  /\ e \in Retirements \ events
  /\ Enqueue(Retirement(e))
  /\ events' = events \cup {e}
  /\ reviewed' = reviewed \cup {e}
  /\ retired' = retired \cup {e}
  /\ UNCHANGED <<documents, batches>>

AnchorBatch(b) ==
  /\ revision >= 5
  /\ b \notin batches
  /\ Enqueue(Anchor(b))
  /\ batches' = batches \cup {b}
  /\ UNCHANGED <<events, reviewed, documents, retired>>

(* What the contract needs first, when the operation is new to it. *)
Needs(op) ==
  CASE op[1] = "REVIEW_EVENT" -> {Proposal(op[2])}
    [] op[1] = "REGISTER_DOCUMENT" -> {Proposal(EventOf[op[2]])}
    [] OTHER -> {}

Deliver(op) ==
  /\ op \in outbox \ ledger
  /\ Needs(op) \subseteq ledger
  /\ ledger' = ledger \cup {op}
  /\ UNCHANGED <<revision, rows, outbox, plans, reconciled>>

-----------------------------------------------------------------------------
(* The reconciliation: one transaction.  Of each event it looks up one     *)
(* document, whichever the database returns first.                         *)

WrongWanted(chosen) ==  \* only events that are still proposed
  {Proposal(e) : e \in events \ reviewed} \cup {Registration(d) : d \in chosen}

Wanted(chosen) ==
  {Proposal(e) : e \in events} \cup {Review(e) : e \in reviewed}
  \cup {Registration(d) : d \in chosen}

OneOfEach(chosen) ==
  /\ OnePerEvent(chosen)
  /\ \A d \in documents : \E c \in chosen : EventOf[c] = EventOf[d]

Reconcile ==
  /\ revision >= 5
  /\ \E chosen \in SUBSET documents :
       /\ OneOfEach(chosen)
       /\ outbox' = outbox \cup Wanted(chosen)
  /\ reconciled' = TRUE
  /\ UNCHANGED <<revision, rows, ledger, plans>>

-----------------------------------------------------------------------------
(* Migrations. *)

(* alembic upgrade head, or downgrade to an earlier revision. *)
Start(m) ==
  /\ plans[m] = None
  /\ \E to \in 1 .. Head :
       /\ to < revision \/ (to = Head /\ revision < Head)
       /\ plans' = [plans EXCEPT ![m] = <<revision, to>>]
  /\ UNCHANGED <<revision, rows, outbox, ledger, reconciled>>

Undoes(plan, k) == plan[2] < k /\ k =< plan[1]

WrongAccepted(plan) ==  \* the old check is not put back
  Undoes(plan, 5) => OnePerEvent(documents)

WrongAcceptedTwins(plan) ==  \* the unique constraint is not put back
  Undoes(plan, 6) => Newer(outbox) = {}

(* The constraints that a downgrade puts back: the check on the actions and *)
(* one document per event.                                                  *)
Accepted(plan) ==
  /\ Undoes(plan, 6) => Newer(outbox) = {}
  /\ Undoes(plan, 5) => OnePerEvent(documents)

Kept(table, gone) == IF gone THEN {} ELSE table

(* The version row of the plan is the one in the database, and the whole   *)
(* path commits.                                                           *)
Migrate(m) ==
  LET plan == plans[m]
      tablesGone == Undoes(plan, 2)
      outboxGone == Undoes(plan, 3)
      newerGone  == Undoes(plan, 5) IN
  /\ plan # None
  /\ plan[1] = revision
  /\ Accepted(plan)
  /\ revision' = plan[2]
  /\ events' = Kept(events, tablesGone)
  /\ reviewed' = Kept(reviewed, tablesGone)
  /\ documents' = Kept(documents, tablesGone)
  /\ retired' = Kept(retired, newerGone)
  /\ batches' = Kept(batches, newerGone)
  /\ outbox' = Kept(outbox, outboxGone)
  /\ reconciled' = (reconciled /\ ~outboxGone)
  /\ plans' = [plans EXCEPT ![m] = None]
  /\ UNCHANGED ledger

(* Another migrator was faster, a constraint refuses, or the connection is  *)
(* lost: nothing has happened.                                              *)
RollBack(m) ==
  /\ plans[m] # None
  /\ plans' = [plans EXCEPT ![m] = None]
  /\ UNCHANGED <<revision, rows, outbox, ledger, reconciled>>

Next ==
  \/ \E e \in Events : ProposeMaintenance(e) \/ ReviewEvent(e) \/ DecommissionAsset(e)
  \/ \E d \in Documents : UploadDocument(d)
  \/ \E b \in Batches : AnchorBatch(b)
  \/ \E op \in outbox : Deliver(op)
  \/ Reconcile
  \/ \E m \in Migrators : Start(m) \/ Migrate(m) \/ RollBack(m)

Spec == Init /\ [][Next]_vars

-----------------------------------------------------------------------------
(* Properties. *)

Unqueued == {d \in documents : Registration(d) \notin outbox}

(* The invariant of the proofs.  Of each event at most one document is not  *)
(* queued, whatever was migrated: where there is no outbox there is one      *)
(* document per event, and a document that comes later brings its row.      *)
SchemaInv ==
  /\ TypeOK
  /\ OnePerEvent(Unqueued)
  /\ revision < 5 => OnePerEvent(documents)
  /\ revision < 5 => retired = {} /\ batches = {}
  /\ revision < 3 => outbox = {} /\ ~reconciled
  /\ revision < Head => Newer(outbox) = {}
  /\ {Retirement(e) : e \in retired} \cup {Anchor(b) : b \in batches} = Newer(outbox)
  /\ Newer(ledger) \subseteq outbox

(* A retirement or a batch that is on the ledger keeps its row and its      *)
(* columns through every sequence of downgrades and upgrades, by however     *)
(* many processes: the check of revision 5 refuses them all (0006            *)
(* downgrade), although 0005 would drop the tables.                          *)
NewerIsKept ==
  /\ \A e \in Retirements : Retirement(e) \in ledger => e \in retired
  /\ \A b \in Batches : Anchor(b) \in ledger => b \in batches

(* Once a reconciliation has run, every proposal and every review is queued, *)
(* and a document is left out only beside another one of its event that is   *)
(* queued: the one uploaded before the reconciliation ran.                   *)
ReconciledIsQueued ==
  reconciled =>
    /\ \A e \in events \ Retirements :
         /\ Proposal(e) \in outbox
         /\ e \in reviewed => Review(e) \in outbox
    /\ \A d \in documents :
         \E d2 \in documents : EventOf[d2] = EventOf[d] /\ Registration(d2) \in outbox
=============================================================================

--------------------------- MODULE SchemaHistory_proofs ---------------------------
(***************************************************************************)
(* What migrations and reconciliation keep, for any events, documents,      *)
(* batches, migrators and any sequence of upgrades and downgrades.          *)
(***************************************************************************)
EXTENDS SchemaHistory, TLAPS

USE SchemaAssumption

-----------------------------------------------------------------------------
(* Operations. *)

LEMMA OperationKinds ==
  /\ \A e \in Events : /\ Proposal(e) \in Operations /\ ~IsNewer(Proposal(e))
                       /\ Review(e) \in Operations /\ ~IsNewer(Review(e))
  /\ \A d \in Documents : Registration(d) \in Operations /\ ~IsNewer(Registration(d))
  /\ \A e \in Retirements : Retirement(e) \in Operations /\ IsNewer(Retirement(e))
  /\ \A b \in Batches : Anchor(b) \in Operations /\ IsNewer(Anchor(b))
BY DEF Operations, IsNewer, Proposal, Review, Registration, Retirement, Anchor

LEMMA OperationIds ==
  /\ \A d1, d2 : Registration(d1) = Registration(d2) => d1 = d2
  /\ \A e1, e2 : Retirement(e1) = Retirement(e2) => e1 = e2
  /\ \A b1, b2 : Anchor(b1) = Anchor(b2) => b1 = b2
  /\ \A e, b : Retirement(e) # Anchor(b)
  /\ \A e, d : Proposal(e) # Registration(d) /\ Review(e) # Registration(d)
BY DEF Proposal, Review, Registration, Retirement, Anchor

NewerRows == {Retirement(e) : e \in retired} \cup {Anchor(b) : b \in batches}

(* The parts of the invariant that are about what is queued. *)
QueueInv ==
  /\ OnePerEvent(Unqueued)
  /\ revision < 5 => OnePerEvent(documents)
  /\ revision < 5 => retired = {} /\ batches = {}
  /\ revision < 3 => outbox = {} /\ ~reconciled
  /\ revision < Head => Newer(outbox) = {}
  /\ NewerRows = Newer(outbox)
  /\ Newer(ledger) \subseteq outbox

LEMMA InvParts == SchemaInv <=> TypeOK /\ QueueInv
BY DEF SchemaInv, QueueInv, NewerRows

(* The invariant of the proofs. *)
Inv == SchemaInv /\ ReconciledIsQueued

LEMMA InitInv == Init => Inv
<1> SUFFICES ASSUME Init
             PROVE  Inv
  OBVIOUS
<1>1. TypeOK
  <2>1. plans \in [Migrators -> (1 .. Head) \X (1 .. Head) \cup {None}]
    BY DEF Init
  <2>2. events \subseteq Events /\ reviewed \subseteq events
    BY DEF Init
  <2>3. documents \subseteq {d \in Documents : EventOf[d] \in events}
    BY DEF Init
  <2>4. revision \in 1 .. Head
    BY DEF Init, Head
  <2>5. reconciled \in BOOLEAN
    BY DEF Init
  <2>. QED  BY <2>1, <2>2, <2>3, <2>4, <2>5 DEF Init, TypeOK
<1>2. QueueInv
  <2>1. OnePerEvent(Unqueued)
    BY DEF Init, OnePerEvent, Unqueued
  <2>2. NewerRows = {} /\ Newer(outbox) = {} /\ Newer(ledger) = {}
    BY DEF Init, NewerRows, Newer
  <2>. QED  BY <2>1, <2>2 DEF QueueInv, Init
<1>3. ReconciledIsQueued
  BY DEF Init, ReconciledIsQueued
<1>. QED  BY <1>1, <1>2, <1>3, InvParts DEF Inv

-----------------------------------------------------------------------------
(* The API and the worker. *)

(* A row that comes with its operation, when the operation is not newer. *)
LEMMA EnqueueKeepsQueue ==
  ASSUME Inv, NEW op \in Operations, ~IsNewer(op), Enqueue(op),
         UNCHANGED <<retired, batches>>,
         documents \subseteq documents',
         \A d \in documents' \ documents : op = Registration(d) /\ revision >= 5
  PROVE  QueueInv'
<1>1. /\ outbox' = outbox \cup {op}
      /\ UNCHANGED <<revision, ledger, plans, reconciled>>
      /\ revision >= 3 /\ revision \in 1 .. 6
  BY DEF Enqueue, Allowed, Inv, SchemaInv, TypeOK, Head
<1>2. Newer(outbox)' = Newer(outbox)
  BY <1>1 DEF Newer
<1>3. Unqueued' \subseteq Unqueued
  BY <1>1 DEF Unqueued
<1>4. OnePerEvent(Unqueued)'
  BY <1>3 DEF Inv, SchemaInv, OnePerEvent
<1>5. revision' < 5 => OnePerEvent(documents)'
  BY <1>1 DEF Inv, SchemaInv, OnePerEvent
<1>6. NewerRows' = NewerRows
  BY DEF NewerRows
<1>. QED  BY <1>1, <1>2, <1>4, <1>5, <1>6, InvParts DEF Inv, QueueInv, Newer

LEMMA ProposeMaintenanceInv ==
  ASSUME Inv, NEW e \in Events, ProposeMaintenance(e)
  PROVE  Inv'
<1>1. TypeOK'
  BY OperationKinds DEF ProposeMaintenance, Enqueue, Inv, SchemaInv, TypeOK
<1>2. QueueInv'
  BY OperationKinds, EnqueueKeepsQueue DEF ProposeMaintenance
<1>3. ReconciledIsQueued'
  BY DEF ProposeMaintenance, Enqueue, Inv, ReconciledIsQueued, SchemaInv, TypeOK
<1>. QED  BY <1>1, <1>2, <1>3, InvParts DEF Inv, SchemaInv, QueueInv, NewerRows

LEMMA ReviewEventInv ==
  ASSUME Inv, NEW e \in Events, ReviewEvent(e)
  PROVE  Inv'
<1>1. TypeOK'
  BY OperationKinds DEF ReviewEvent, Enqueue, Inv, SchemaInv, TypeOK
<1>2. QueueInv'
  BY OperationKinds, EnqueueKeepsQueue DEF ReviewEvent
<1>3. ReconciledIsQueued'
  BY DEF ReviewEvent, Enqueue, Inv, ReconciledIsQueued
<1>. QED  BY <1>1, <1>2, <1>3, InvParts DEF Inv, SchemaInv, QueueInv, NewerRows

LEMMA UploadDocumentInv ==
  ASSUME Inv, NEW d \in Documents, UploadDocument(d)
  PROVE  Inv'
<1>1. TypeOK'
  BY OperationKinds DEF UploadDocument, Enqueue, Inv, SchemaInv, TypeOK
<1>2. QueueInv'
  BY OperationKinds, EnqueueKeepsQueue DEF UploadDocument
<1>3. ReconciledIsQueued'
  BY DEF UploadDocument, Enqueue, Inv, ReconciledIsQueued
<1>. QED  BY <1>1, <1>2, <1>3, InvParts DEF Inv, SchemaInv, QueueInv, NewerRows

(* A newer operation is queued only at the head, with its row. *)
LEMMA EnqueueNewer ==
  ASSUME Inv, NEW op \in Operations, IsNewer(op), Enqueue(op),
         UNCHANGED documents, NewerRows' = NewerRows \cup {op}
  PROVE  QueueInv'
<1>1. /\ outbox' = outbox \cup {op}
      /\ UNCHANGED <<revision, ledger, plans, reconciled>>
      /\ revision = 6
  BY DEF Enqueue, Allowed, Head
<1>2. Newer(outbox)' = Newer(outbox) \cup {op}
  BY <1>1 DEF Newer
<1>3. OnePerEvent(Unqueued)'
  BY <1>1 DEF Inv, SchemaInv, OnePerEvent, Unqueued
<1>. QED  BY <1>1, <1>2, <1>3, InvParts DEF Inv, QueueInv, Head, Newer

LEMMA DecommissionAssetInv ==
  ASSUME Inv, NEW e \in Events, DecommissionAsset(e)
  PROVE  Inv'
<1>0. e \in Retirements
  BY DEF DecommissionAsset
<1>1. TypeOK'
  BY <1>0, OperationKinds DEF DecommissionAsset, Enqueue, Inv, SchemaInv, TypeOK
<1>2. NewerRows' = NewerRows \cup {Retirement(e)}
  BY DEF DecommissionAsset, NewerRows
<1>3. QueueInv'
  BY <1>0, <1>2, OperationKinds, EnqueueNewer DEF DecommissionAsset
<1>4. ReconciledIsQueued'
  BY <1>0 DEF DecommissionAsset, Enqueue, Inv, ReconciledIsQueued
<1>. QED  BY <1>1, <1>3, <1>4, InvParts DEF Inv, SchemaInv, QueueInv, NewerRows

LEMMA AnchorBatchInv ==
  ASSUME Inv, NEW b \in Batches, AnchorBatch(b)
  PROVE  Inv'
<1>1. TypeOK'
  BY OperationKinds DEF AnchorBatch, Enqueue, Inv, SchemaInv, TypeOK
<1>2. NewerRows' = NewerRows \cup {Anchor(b)}
  BY DEF AnchorBatch, NewerRows
<1>3. QueueInv'
  BY <1>2, OperationKinds, EnqueueNewer DEF AnchorBatch
<1>4. ReconciledIsQueued'
  BY DEF AnchorBatch, Enqueue, Inv, ReconciledIsQueued
<1>. QED  BY <1>1, <1>3, <1>4, InvParts DEF Inv, SchemaInv, QueueInv, NewerRows

LEMMA DeliverInv ==
  ASSUME Inv, NEW op \in outbox, Deliver(op)
  PROVE  Inv'
<1>1. UNCHANGED <<revision, events, reviewed, documents, retired, batches, outbox, plans, reconciled>>
  BY DEF Deliver, rows
<1>2. ledger' = ledger \cup {op}
  BY DEF Deliver
<1>3. TypeOK'
  BY <1>1, <1>2 DEF Inv, SchemaInv, TypeOK
<1>4. QueueInv'
  BY <1>1, <1>2, InvParts DEF Inv, QueueInv, OnePerEvent, Unqueued, NewerRows, Newer
<1>5. ReconciledIsQueued'
  BY <1>1 DEF Inv, ReconciledIsQueued
<1>. QED  BY <1>3, <1>4, <1>5, InvParts DEF Inv, SchemaInv, QueueInv, NewerRows

-----------------------------------------------------------------------------
(* The reconciliation. *)

LEMMA ReconcileInv ==
  ASSUME Inv, Reconcile
  PROVE  Inv'
<1>1. PICK chosen \in SUBSET documents :
        OneOfEach(chosen) /\ outbox' = outbox \cup Wanted(chosen)
  BY DEF Reconcile
<1>2. /\ revision >= 5 /\ reconciled' = TRUE
      /\ UNCHANGED <<revision, events, reviewed, documents, retired, batches, ledger, plans>>
  BY DEF Reconcile, rows
<1>3. \A op \in Wanted(chosen) : op \in Operations /\ ~IsNewer(op)
  BY OperationKinds DEF Wanted, Inv, SchemaInv, TypeOK
<1>4. TypeOK'
  BY <1>1, <1>2, <1>3 DEF Inv, SchemaInv, TypeOK
<1>5. QueueInv'
  <2>1. Newer(outbox)' = Newer(outbox)
    BY <1>1, <1>3 DEF Newer
  <2>2. OnePerEvent(Unqueued)'
    BY <1>1, <1>2 DEF Inv, SchemaInv, OnePerEvent, Unqueued
  <2>. QED  BY <1>1, <1>2, <2>1, <2>2, InvParts DEF Inv, SchemaInv, TypeOK, QueueInv, NewerRows, Newer, Head
<1>6. ReconciledIsQueued'
  <2>1. \A e \in events : Proposal(e) \in outbox'
    BY <1>1 DEF Wanted
  <2>2. \A e \in reviewed : Review(e) \in outbox'
    BY <1>1 DEF Wanted
  <2>3. \A d \in documents : \E d2 \in documents :
          EventOf[d2] = EventOf[d] /\ Registration(d2) \in outbox'
    BY <1>1 DEF Wanted, OneOfEach
  <2>. QED  BY <1>2, <2>1, <2>2, <2>3 DEF ReconciledIsQueued
<1>. QED  BY <1>4, <1>5, <1>6, InvParts DEF Inv, SchemaInv, QueueInv, NewerRows

-----------------------------------------------------------------------------
(* Migrations. *)

LEMMA PlansInv ==
  ASSUME Inv, NEW m \in Migrators, Start(m) \/ RollBack(m)
  PROVE  Inv'
<1>1. UNCHANGED <<revision, events, reviewed, documents, retired, batches, outbox, ledger, reconciled>>
  BY DEF Start, RollBack, rows
<1>2. TypeOK'
  BY <1>1 DEF Start, RollBack, Inv, SchemaInv, TypeOK, Head
<1>3. QueueInv'
  BY <1>1, InvParts DEF Inv, QueueInv, OnePerEvent, Unqueued, NewerRows, Newer
<1>4. ReconciledIsQueued'
  BY <1>1 DEF Inv, ReconciledIsQueued
<1>. QED  BY <1>2, <1>3, <1>4, InvParts DEF Inv, SchemaInv, QueueInv, NewerRows

(* What a migration keeps of the newer rows: a downgrade passes the check   *)
(* of revision 6 only when there are none.                                  *)
LEMMA MigrateInv ==
  ASSUME Inv, NEW m \in Migrators, Migrate(m)
  PROVE  Inv'
<1>1. PICK to \in 1 .. 6 : plans[m] = <<revision, to>>
  BY DEF Migrate, Inv, SchemaInv, TypeOK, Head
<1> DEFINE undoes(k) == to < k /\ k =< revision
<1>2. /\ revision \in 1 .. 6 /\ revision' = to
      /\ undoes(6) => Newer(outbox) = {}
      /\ undoes(5) => OnePerEvent(documents)
      /\ events' = Kept(events, undoes(2))
      /\ reviewed' = Kept(reviewed, undoes(2))
      /\ documents' = Kept(documents, undoes(2))
      /\ retired' = Kept(retired, undoes(5))
      /\ batches' = Kept(batches, undoes(5))
      /\ outbox' = Kept(outbox, undoes(3))
      /\ reconciled' = (reconciled /\ ~undoes(3))
      /\ plans' = [plans EXCEPT ![m] = None]
      /\ ledger' = ledger
  BY <1>1 DEF Migrate, Accepted, Undoes, Inv, SchemaInv, TypeOK, Head
<1>3. TypeOK'
  <2>1. reconciled' \in BOOLEAN
    BY <1>2 DEF Inv, SchemaInv, TypeOK
  <2>. QED  BY <1>2, <2>1 DEF Kept, Inv, SchemaInv, TypeOK, Head
<1>4. revision' < 6 => Newer(outbox) = {}
  BY <1>2 DEF Inv, SchemaInv, Head
<1>5. revision' < 5 => OnePerEvent(documents)
  BY <1>2 DEF Inv, SchemaInv
<1>6. undoes(5) => retired = {} /\ batches = {}
  <2>1. undoes(5) => Newer(outbox) = {}
    BY <1>2, <1>4
  <2>. QED  BY <2>1 DEF Inv, SchemaInv
<1>7. retired' = retired /\ batches' = batches
  BY <1>2, <1>6 DEF Kept
<1>8. Newer(outbox)' = Newer(outbox) /\ Newer(outbox) \subseteq outbox'
  <2>1. undoes(3) => Newer(outbox) = {}
    BY <1>2, <1>4
  <2>. QED  BY <1>2, <2>1 DEF Kept, Newer
<1>9. OnePerEvent(Unqueued)'
  <2>1. CASE undoes(3)
    <3>1. Unqueued' \subseteq documents
      BY <1>2 DEF Unqueued, Kept
    <3>2. OnePerEvent(documents)
      BY <1>2, <1>5, <2>1
    <3>. QED  BY <3>1, <3>2 DEF OnePerEvent
  <2>2. CASE ~undoes(3)
    <3>1. Unqueued' \subseteq Unqueued
      BY <1>2, <2>2 DEF Unqueued, Kept
    <3>. QED  BY <3>1 DEF OnePerEvent, Inv, SchemaInv
  <2>. QED  BY <2>1, <2>2
<1>10. revision' < 5 => OnePerEvent(documents)'
  BY <1>2, <1>5 DEF Kept, OnePerEvent
<1>11. revision' < 5 => retired' = {} /\ batches' = {}
  BY <1>2, <1>6, <1>7 DEF Inv, SchemaInv
<1>12. revision' < 3 => outbox' = {} /\ ~reconciled'
  <2>1. CASE undoes(3)
    BY <1>2, <2>1 DEF Kept
  <2>2. CASE ~undoes(3)
    <3>1. revision' < 3 => revision < 3
      BY <1>2, <2>2
    <3>2. outbox' = outbox /\ reconciled' = (reconciled /\ TRUE)
      BY <1>2, <2>2 DEF Kept
    <3>. QED  BY <3>1, <3>2 DEF Inv, SchemaInv
  <2>. QED  BY <2>1, <2>2
<1>13. NewerRows' = Newer(outbox)' /\ Newer(ledger)' \subseteq outbox'
  <2>1. NewerRows' = Newer(outbox)'
    BY <1>7, <1>8 DEF NewerRows, Inv, SchemaInv
  <2>2. Newer(ledger) \subseteq Newer(outbox)
    BY DEF Newer, Inv, SchemaInv
  <2>. QED  BY <1>2, <1>8, <2>1, <2>2 DEF Newer
<1>14. QueueInv'
  BY <1>2, <1>4, <1>8, <1>9, <1>10, <1>11, <1>12, <1>13 DEF QueueInv, Head
<1>15. ReconciledIsQueued'
  BY <1>2 DEF Kept, Inv, ReconciledIsQueued
<1>. QED  BY <1>3, <1>14, <1>15, InvParts DEF Inv, SchemaInv, QueueInv, NewerRows

-----------------------------------------------------------------------------

LEMMA NextInv == Inv /\ [Next]_vars => Inv'
<1> SUFFICES ASSUME Inv, [Next]_vars
             PROVE  Inv'
  OBVIOUS
<1>1. CASE UNCHANGED vars
  BY <1>1 DEF vars, rows, Inv, SchemaInv, TypeOK, OnePerEvent, Unqueued, Newer, ReconciledIsQueued
<1>. QED  BY <1>1, ProposeMaintenanceInv, ReviewEventInv, DecommissionAssetInv,
             UploadDocumentInv, AnchorBatchInv, DeliverInv, ReconcileInv, PlansInv, MigrateInv
          DEF Next

(* The schema keeps its invariant through every history: in particular, of   *)
(* an event at most one document was never queued.                           *)
THEOREM SchemaIsSound == Spec => []SchemaInv
BY InitInv, NextInv, PTL DEF Spec, Inv

LEMMA KeptByInv ==
  ASSUME Inv
  PROVE  NewerIsKept
<1>1. ASSUME NEW e \in Retirements, Retirement(e) \in ledger
      PROVE  e \in retired
  <2>1. Retirement(e) \in Newer(outbox)
    BY <1>1, OperationKinds DEF Inv, SchemaInv, Newer
  <2>. QED  BY <2>1, OperationIds DEF Inv, SchemaInv
<1>2. ASSUME NEW b \in Batches, Anchor(b) \in ledger
      PROVE  b \in batches
  <2>1. Anchor(b) \in Newer(outbox)
    BY <1>2, OperationKinds DEF Inv, SchemaInv, Newer
  <2>. QED  BY <2>1, OperationIds DEF Inv, SchemaInv
<1>. QED  BY <1>1, <1>2 DEF NewerIsKept

(* No downgrade loses a retirement or a batch that is on the ledger.         *)
THEOREM NewerIsKeptHolds == Spec => []NewerIsKept
BY InitInv, NextInv, KeptByInv, PTL DEF Spec

(* After a reconciliation every proposal and review is queued, and one       *)
(* document of each event that has any.                                      *)
THEOREM ReconciledIsQueuedHolds == Spec => []ReconciledIsQueued
BY InitInv, NextInv, PTL DEF Spec, Inv
=============================================================================

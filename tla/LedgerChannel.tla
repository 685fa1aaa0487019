----------------------------- MODULE LedgerChannel -----------------------------
(***************************************************************************)
(* The channel with every client of the three organizations: any request   *)
(* may be submitted at any time and repeated, under a fresh or a used      *)
(* operation id, while other transactions are waiting to be ordered.  The  *)
(* contract must keep the shared record sound for all of them, whatever    *)
(* the application that sends the requests does.                           *)
(***************************************************************************)
EXTENDS FieldLedgerContract

CONSTANTS
  ClientRequests,  \* the requests clients submit
  MaxInflight      \* bound on endorsed transactions waiting for a block

ASSUME ClientAssumption ==
  /\ ClientRequests \subseteq Requests
  /\ MaxInflight \in Nat

UsedTxIds == {tx.id : tx \in inflight}
               \cup {operations[o].txId : o \in {p \in OperationIds : Applied(p)}}

FreshTxId == CHOOSE id \in TxIds : id \notin UsedTxIds

Submit(r) ==
  /\ Cardinality(inflight) < MaxInflight
  /\ TxIds \ UsedTxIds # {}
  /\ Endorse(r, FreshTxId)

Init == ContractInit

Next ==
  \/ \E r \in ClientRequests : Submit(r)
  \/ \E tx \in inflight : CommitValid(tx) \/ CommitInvalid(tx) \/ Lose(tx)

Spec == Init /\ [][Next]_contractVars

-----------------------------------------------------------------------------
(* Every record of the contract has the shape its readers expect, at the    *)
(* kind of key that holds it.                                               *)
TypeOK == ContractTypeOK

(* An operation is applied at most once: once its idempotency record is     *)
(* written, no repetition or reuse of its id replaces the digest or the     *)
(* transaction, however many submissions of it were endorsed meanwhile      *)
(* (idempotent).                                                            *)
AppliedOnce ==
  [][\A o \in OperationIds : Applied(o) => operations'[o] = operations[o]]_contractVars

(* A review is final: after APPROVED or REJECTED is in the ledger, no later *)
(* transaction changes the decision or the organization that took it, two   *)
(* reviews endorsed side by side included (ReviewEvent).                    *)
ReviewIsFinal ==
  [][\A e \in EventIds :
       LET event == world[<<"event", e>>] IN
       (event # None /\ event.status \in Decisions) =>
         /\ world'[<<"event", e>>].status = event.status
         /\ world'[<<"event", e>>].reviewedBy = event.reviewedBy]_contractVars

(* A registered hash keeps the document, event and asset it was registered  *)
(* for: no second document with the same bytes takes it over                *)
(* (RegisterDocument).                                                      *)
HashKeepsItsDocument ==
  [][\A h \in Hashes : Exists(<<"documentHash", h>>) =>
       world'[<<"documentHash", h>>] = world[<<"documentHash", h>>]]_contractVars

(* The latest hash shown by an event is one registered for that event and   *)
(* for the asset of that event (RegisterDocument, ReviewEvent keeps it).    *)
EvidenceBelongsToEvent ==
  \A e \in EventIds :
    LET event == world[<<"event", e>>] IN
    (event # None /\ event.documentHash # None) =>
      LET document == world[<<"documentHash", event.documentHash>>] IN
      /\ document # None
      /\ document.eventId = e
      /\ document.assetId = event.assetId

(* A decision comes from an organization other than the one that proposed   *)
(* the work, on an event whose asset is in the ledger (four eyes).          *)
FourEyes ==
  \A e \in EventIds :
    LET event == world[<<"event", e>>] IN
    (event # None /\ event.status \in Decisions) =>
      /\ event.reviewedBy \in Orgs \ {event.organization}
      /\ Exists(<<"asset", event.assetId>>)

(* No two applied operations did the same job: two creations of an asset,   *)
(* two proposals or two reviews of an event, two registrations of a batch   *)
(* are never both in the ledger, even when they were endorsed on the same   *)
(* state.                                                                   *)
NoJobDoneTwice ==
  \A o1, o2 \in {o \in OperationIds : Applied(o)} :
    LET p1 == operations[o1].digest
        p2 == operations[o2].digest
        Same(field) == field \in DOMAIN p1 /\ p1[field] = p2[field]
    IN  (o1 # o2 /\ DOMAIN p1 = DOMAIN p2) =>
          ~ \/ DOMAIN p1 = {"assetId"} /\ Same("assetId")
            \/ DOMAIN p1 = {"assetId", "decommissionedBy"} /\ Same("assetId")
            \/ "documentId" \notin DOMAIN p1 /\ Same("eventId")
            \/ Same("sha256Hash")
            \/ Same("batchId")

(* The Merkle index leads from a root to a batch that is registered with    *)
(* that very root.                                                          *)
MerkleIndexIsSound ==
  \A root \in Roots :
    LET batch == world[<<"telemetryMerkle", root>>] IN
    batch # None =>
      /\ batch.merkleRoot = root
      /\ world[<<"telemetryBatch", batch.batchId>>] = batch
=============================================================================

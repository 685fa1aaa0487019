--------------------------- MODULE MCLedgerDelivery ---------------------------
(* Instances of LedgerDelivery: one asset, one event, at most one document.  *)
EXTENDS LedgerDelivery

MCOperationIds == ApiOperationIds
MCHashOf == [d \in DocumentIds |-> "h1"]
=============================================================================

-------------------------- MODULE MCTelemetryAnchor --------------------------
(* Instances of TelemetryAnchor. *)
EXTENDS TelemetryAnchor

MCOperationIds == AnchorOperationIds
MCRoots == SUBSET Readings
=============================================================================

--------------------------- MODULE MCAssetRegistry ---------------------------
(* Instances of AssetRegistry.  "EVT-DECOM-a" is the event of the            *)
(* decommission of asset a.                                                  *)
EXTENDS AssetRegistry, Sequences, TLC

CONSTANTS MaintenanceIds

MCDecomEvent == [a \in AssetIds |-> "EVT-DECOM-" \o a]
MCEventIds == MaintenanceIds \cup {MCDecomEvent[a] : a \in AssetIds}
MCOperationIds == RegistryOperationIds
RequesterSymmetry == Permutations(Requesters)
=============================================================================

\* Two anchor requests beside ingestion and delivery.
SPECIFICATION FairSpec
CONSTANTS
  OperationIds <- MCOperationIds
  Asset = "a1"
  AssetIds = {"a1"}
  EventIds = {}
  DocumentIds = {}
  BatchIds = {"b1", "b2"}
  Hashes = {}
  Roots <- MCRoots
  TxIds = {1}
  None = None
  Readings = {1, 2, 3}
  MaxReadings = 2
  Sessions = {"s1", "s2"}
  AnchorOrgs = {"OperatorOrg"}
INVARIANTS AnchorInv UnsharedBatchVerifies
PROPERTIES AnchorsTakeNewReadings EveryBatchIsConfirmed
CHECK_DEADLOCK FALSE

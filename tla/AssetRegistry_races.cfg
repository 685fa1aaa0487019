\* Two requests race over an old or a new asset, beside the reconciliation.
SPECIFICATION Spec
CONSTANTS
  OperationIds <- MCOperationIds
  AssetIds = {"a1"}
  MaintenanceIds = {"m1"}
  EventIds <- MCEventIds
  DecomEvent <- MCDecomEvent
  DocumentIds = {}
  BatchIds = {}
  Hashes = {}
  Roots = {}
  TxIds = {1}
  None = None
  Requesters = {r1, r2}
  Changes = {"update", "delete", "decommission"}
  Asked = {"MAINTENANCE", "DECOMMISSIONED"}
  OldAssets = {"a1"}
  OldEvents = {"m1"}
INVARIANTS RetirementIsWhole HistoryIsQueued LedgerAgrees NothingIsStuck
CHECK_DEADLOCK FALSE
SYMMETRY RequesterSymmetry

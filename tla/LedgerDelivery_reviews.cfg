\* Two operators review one event; at most two faults.
SPECIFICATION Spec
CONSTANTS
  OperationIds <- MCOperationIds
  AssetIds = {"a1"}
  EventIds = {"e1"}
  DocumentIds = {}
  BatchIds = {}
  Hashes = {"h1"}
  Roots = {}
  TxIds = {1, 2, 3, 4, 5, 6, 7, 8, 9, 10, 11, 12}
  None = None
  Workers = {"w1"}
  Reviewers = {"u1", "u2"}
  UploadOrgs = {"ContractorOrg"}
  HashOf <- MCHashOf
  MaxFaults = 2
INVARIANTS CommittedIsOnLedger DecisionsAgree SettledEventShowsLastOperation
PROPERTIES CommittedIsFinal KeepsThePromise
CHECK_DEADLOCK FALSE

\* Status shown by an event under review.
SPECIFICATION Spec
CONSTANTS
  OperationIds <- MCOperationIds
  AssetIds = {"a1"}
  EventIds = {"e1"}
  DocumentIds = {}
  BatchIds = {}
  Hashes = {"h1"}
  Roots = {}
  TxIds = {1, 2, 3, 4, 5, 6, 7, 8, 9, 10, 11, 12}
  None = None
  Workers = {"w1"}
  Reviewers = {"u1"}
  UploadOrgs = {"ContractorOrg"}
  HashOf <- MCHashOf
  MaxFaults = 0
INVARIANTS ShownCommittedIsCommitted
CHECK_DEADLOCK FALSE

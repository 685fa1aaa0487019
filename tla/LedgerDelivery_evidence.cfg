\* A document is uploaded to an event under review; at most one fault, under
\* fairness.
SPECIFICATION FairSpec
CONSTANTS
  OperationIds <- MCOperationIds
  AssetIds = {"a1"}
  EventIds = {"e1"}
  DocumentIds = {"d1"}
  BatchIds = {}
  Hashes = {"h1"}
  Roots = {}
  TxIds = {1, 2, 3, 4, 5, 6, 7, 8, 9, 10, 11, 12}
  None = None
  Workers = {"w1"}
  Reviewers = {"u1"}
  UploadOrgs = {"ContractorOrg"}
  HashOf <- MCHashOf
  MaxFaults = 1
INVARIANTS DeliveryInv EveryChangeIsQueued DocumentShowsItsOperation
           EvidenceIsWhole SettledEventShowsLastOperation
PROPERTIES EveryOperationIsConfirmed KeepsThePromiseFairly
CHECK_DEADLOCK FALSE

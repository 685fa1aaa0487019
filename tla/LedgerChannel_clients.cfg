\* One event, one asset registered under two ids, two documents with the same
\* bytes, two telemetry batches that may share a root or be registered twice.
SPECIFICATION Spec
CONSTANTS
  o1 = o1 o2 = o2 o3 = o3 o4 = o4
  b1 = b1 b2 = b2 r1 = r1 r2 = r2
  OperationIds <- MCOperationIds
  AssetIds = {"a1", "a2"}
  EventIds = {"e1"}
  DocumentIds = {"d1", "d2"}
  Hashes = {"h1"}
  BatchIds = {b1, b2}
  Roots = {r1, r2}
  TxIds = {1, 2, 3, 4, 5, 6}
  None = None
  MaxInflight = 2
  ClientRequests <- Requests
SYMMETRY ClientSymmetry
INVARIANTS TypeOK EvidenceBelongsToEvent FourEyes NoJobDoneTwice MerkleIndexIsSound
PROPERTIES AppliedOnce ReviewIsFinal HashKeepsItsDocument

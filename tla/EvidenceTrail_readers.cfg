\* Two uploads of one file to one event, read by a backup and a timeline.
SPECIFICATION Spec
CONSTANTS
  d1 = d1 d2 = d2 h1 = h1
  Documents = {d1, d2}
  HashOf <- MCHashOf
  None = None
SYMMETRY TrailSymmetry
INVARIANTS BackupIsRestorable VerifiedIsKept TimelineIsCoherent

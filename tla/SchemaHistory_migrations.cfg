\* An event with two documents, a retirement and a batch; two migrators.
SPECIFICATION Spec
CONSTANTS
  e1 = e1 z1 = z1 d1 = d1 d2 = d2 b1 = b1 m1 = m1 m2 = m2
  Events = {e1, z1}
  Retirements = {z1}
  Documents = {d1, d2}
  EventOf <- MCEventOf
  Batches = {b1}
  Migrators = {m1, m2}
  None = None
SYMMETRY SchemaSymmetry
INVARIANTS SchemaInv NewerIsKept ReconciledIsQueued

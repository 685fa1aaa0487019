---------------------------- MODULE MCSchemaHistory ----------------------------
(* Instances of SchemaHistory. *)
EXTENDS SchemaHistory, TLC

CONSTANTS e1, z1, d1, d2, b1, m1, m2

MCEventOf == [d \in Documents |-> e1]

SchemaSymmetry == Permutations(Migrators) \cup Permutations(Documents)
=============================================================================

---------------------------- MODULE MCEvidenceTrail ----------------------------
(* Instances of EvidenceTrail. *)
EXTENDS EvidenceTrail, TLC

CONSTANTS d1, d2, h1

(* Two uploads of one file. *)
MCHashOf == [d \in Documents |-> h1]

TrailSymmetry == Permutations(Documents)
=============================================================================

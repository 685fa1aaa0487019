----------------------------- MODULE MCMerkleTree -----------------------------
(* Instances of MerkleTree.  Reading 1 has several values: none, one that    *)
(* reads like zero and two that do not.                                      *)
EXTENDS MerkleTree

MCRows == [id : {1}, value : {Null, 4, 10, 20}] \cup [id : 2..5, value : {10}]
=============================================================================

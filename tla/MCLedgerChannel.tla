---------------------------- MODULE MCLedgerChannel ----------------------------
(* Instances of LedgerChannel: clients may send every request there is.  No  *)
(* operation id, batch or root is special.                                   *)
EXTENDS LedgerChannel, TLC

CONSTANTS o1, o2, o3, o4, b1, b2, r1, r2

MCOperationIds == {o1, o2, o3, o4}
ClientSymmetry ==
  Permutations(MCOperationIds) \cup Permutations(BatchIds) \cup Permutations(Roots)
=============================================================================

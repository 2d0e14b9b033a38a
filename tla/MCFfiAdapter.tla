---------------------------- MODULE MCFfiAdapter ----------------------------
(* FfiAdapter on a few interchangeable calls. *)
EXTENDS FfiAdapter, TLC

CallSymmetry == Permutations(Calls)
=============================================================================

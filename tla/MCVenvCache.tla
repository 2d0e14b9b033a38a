---------------------------- MODULE MCVenvCache ----------------------------
(* VenvCache on a few interchangeable calls and keys. *)
EXTENDS VenvCache, TLC

Interchangeable == Permutations(Requests) \cup Permutations(Keys)
=============================================================================

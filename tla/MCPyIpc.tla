------------------------------ MODULE MCPyIpc ------------------------------
(* PyIpc on a few interchangeable calls. *)
EXTENDS PyIpc, TLC

CallSymmetry == Permutations(Calls)
=============================================================================

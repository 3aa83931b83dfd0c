----------------------------- MODULE MCServing -----------------------------
(***************************************************************************)
(* Small instances of Serving.                                             *)
(***************************************************************************)
EXTENDS Serving, TLC

Symmetry == Permutations(Requests) \cup Permutations(Users)
=============================================================================

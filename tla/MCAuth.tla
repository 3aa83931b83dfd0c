------------------------------- MODULE MCAuth -------------------------------
(***************************************************************************)
(* Small instances of Auth.                                                *)
(***************************************************************************)
EXTENDS Auth, TLC

Symmetry == Permutations(Calls) \cup Permutations(Emails)
=============================================================================

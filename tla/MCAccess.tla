------------------------------ MODULE MCAccess ------------------------------
(***************************************************************************)
(* Small instances of Access: calls on workspaces race with calls on the   *)
(* projects in them.                                                       *)
(***************************************************************************)
EXTENDS Access, TLC

OwnerOrNot  == {"OWNER", "VIEWER"}
Subordinate == {"COLLABORATOR"}

Symmetry == Permutations(WsCalls) \cup Permutations(PjCalls) \cup Permutations(Users)
=============================================================================

----------------------------- MODULE MCMembers -----------------------------
(***************************************************************************)
(* A small instance of Members as ProjectsService uses it: projects live   *)
(* in workspaces, which may be deleted at any time, and the guard of their *)
(* PATCH route admits COLLABORATORs.  Calls on workspaces do less: they    *)
(* have no parent to ask and no cascade from above.                        *)
(***************************************************************************)
EXTENDS Members, TLC

OwnerOrCollaborator == {"OWNER", "COLLABORATOR"}
OwnerOrNot == {"OWNER", "VIEWER"}

Symmetry == Permutations(Calls) \cup Permutations(Users)
=============================================================================

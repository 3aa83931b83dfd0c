------------------------------- MODULE Access -------------------------------
(***************************************************************************)
(* WorkspacesService and ProjectsService over one database                 *)
(* (src/prisma/schema.prisma): two instances of Members, tied together     *)
(* where the code ties them.  The creator of a project must be a member of *)
(* its workspace, the row refers to the workspace, and deleting the        *)
(* workspace deletes its projects.                                         *)
(***************************************************************************)
EXTENDS Naturals, FiniteSets

CONSTANTS
    WsCalls,      \* the calls on /workspaces, which name the workspaces
    PjCalls,      \* the calls on /projects, which name the projects
    Users,
    NoRequest,
    NoWorkspace,  \* the call does not create a project
    GrantRoles    \* the roles that addMember calls ask for

ASSUME NoWorkspaceAssumption == NoWorkspace \notin WsCalls

VARIABLES
    workspaces, wsRole, wsReq, wsAt,
    projects, pjRole, pjReq, pjAt,
    home  \* dto.workspaceId of each call that creates a project

wsVars == <<workspaces, wsRole, wsReq, wsAt>>
pjVars == <<projects, pjRole, pjReq, pjAt>>
vars == <<wsVars, pjVars, home>>

Ws == INSTANCE Members
        WITH Calls <- WsCalls, live <- workspaces, role <- wsRole,
             req <- wsReq, at <- wsAt,
             GuardRoles <- {"OWNER"}, HasParent <- FALSE

Pj == INSTANCE Members
        WITH Calls <- PjCalls, live <- projects, role <- pjRole,
             req <- pjReq, at <- pjAt,
             GuardRoles <- {"OWNER", "COLLABORATOR"}, HasParent <- TRUE

TypeOK ==
    /\ Ws!TypeOK
    /\ Pj!TypeOK
    /\ home \in [PjCalls -> WsCalls \cup {NoWorkspace}]
    /\ \A c \in PjCalls : home[c] # NoWorkspace <=>
                            pjAt[c] # "idle" /\ pjReq[c].op = "create"

Init ==
    /\ Ws!Init
    /\ Pj!Init
    /\ home = [c \in PjCalls |-> NoWorkspace]

-----------------------------------------------------------------------------
ReceiveHomeless(c) ==  \* seeded bug: workspaceId is not stored
    Pj!Receive(c) /\ UNCHANGED <<wsVars, home>>

ReceiveProjectCall(c) ==
    /\ Pj!Receive(c)
    /\ IF pjReq'[c].op = "create"
       THEN \E w \in Ws!Known : home' = [home EXCEPT ![c] = w]
       ELSE UNCHANGED home
    /\ UNCHANGED wsVars

(* Verify user is a member of the workspace: any role will do.              *)
AnybodyJoined(c) == TRUE  \* seeded bug: the check is skipped
JoinedWorkspace(c) == wsRole[home[c]][pjReq[c].by] # "none"

CheckWorkspaceMember(c) ==
    /\ Pj!CheckParent(c, JoinedWorkspace(c))
    /\ UNCHANGED <<wsVars, home>>

(* The foreign key on the workspace; the membership is not read again.      *)
WorkspaceIgnored(c) == TRUE  \* seeded bug: no foreign key
WorkspaceExists(c) == home[c] \in workspaces

CreateProject(c) ==
    /\ Pj!Create(c, WorkspaceExists(c))
    /\ UNCHANGED <<wsVars, home>>

ProjectCall(c) ==
    /\ \/ Pj!Guard(c) \/ Pj!CheckPermission(c) \/ Pj!FindExistingMember(c)
       \/ Pj!Update(c) \/ Pj!Remove(c) \/ Pj!AddMember(c) \/ Pj!RemoveMember(c)
       \/ Pj!Fail(c)
    /\ UNCHANGED <<wsVars, home>>

(* Project.workspace and ProjectMember.project are onDelete: Cascade.       *)
SweepOwned(gone) ==  \* seeded bug: the memberships of the projects stay
    projects' = projects \ gone /\ UNCHANGED <<pjRole, pjReq, pjAt>>
SweepProjects(gone) == Pj!Sweep(gone)

WorkspaceCall ==
    /\ Ws!Next
    /\ LET gone == {p \in projects : home[p] \notin workspaces'}
       IN IF gone = {} THEN UNCHANGED pjVars ELSE SweepProjects(gone)
    /\ UNCHANGED home

Next ==
    \/ WorkspaceCall
    \/ \E c \in PjCalls : \/ ReceiveProjectCall(c) \/ CheckWorkspaceMember(c)
                          \/ CreateProject(c) \/ ProjectCall(c)

Spec == Init /\ [][Next]_vars

-----------------------------------------------------------------------------
(* Properties.                                                             *)

(* A project never outlives its workspace, nor is it born into one that a   *)
(* racing call deleted, and no membership outlives its project.             *)
ProjectsLiveInWorkspaces ==
    /\ \A p \in projects : home[p] \in workspaces
    /\ Pj!NoOrphanRows

(* Whoever creates a project had been made a member of that workspace.      *)
CreatorsJoinedWorkspace ==
    \A c \in PjCalls :
        pjAt[c] = "create" \/ c \in projects =>
            Ws!Asked({"create", "addMember"}, home[c], pjReq[c].by,
                     {"ok", "error"}) # {}

(* Whatever happens to workspaces, projects go through the steps of        *)
(* Members, with the cascade as one step: what is proved there of rows,     *)
(* roles and owners holds for projects.                                    *)
ProjectsSpec == Pj!Spec

(* projects.controller.ts: "Update project (Owner or Collaborator only)":   *)
(* neither is refused.                                                     *)
CollaboratorMayUpdate ==
    [][\A c \in PjCalls :
        /\ pjAt[c] \in {"guard", "check"} /\ pjAt'[c] = "forbidden"
        /\ pjReq[c].op = "update"
        => Pj!RequesterRole(c) \notin {"OWNER", "COLLABORATOR"}]_vars
=============================================================================

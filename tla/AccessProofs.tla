---------------------------- MODULE AccessProofs ----------------------------
(***************************************************************************)
(* Theorems about Access, for any number of calls, users and workspaces.   *)
(***************************************************************************)
EXTENDS Access, TLAPS

(* One step of the whole is one step of the projects' Members, or none.     *)
LEMMA ProjectStep ==
  ASSUME [Next]_vars
  PROVE  [Pj!Next]_pjVars
<1>1. ASSUME NEW c \in PjCalls,
             \/ ReceiveProjectCall(c) \/ CheckWorkspaceMember(c)
             \/ CreateProject(c) \/ ProjectCall(c)
      PROVE  Pj!Next
  <2>1. CASE ReceiveProjectCall(c)
    BY <2>1 DEF ReceiveProjectCall, Pj!Next, Pj!CallStep
  <2>2. CASE CheckWorkspaceMember(c)
    <3>1. JoinedWorkspace(c) \in BOOLEAN
      BY DEF JoinedWorkspace
    <3> QED BY <2>2, <3>1 DEF CheckWorkspaceMember, Pj!Next
  <2>3. CASE CreateProject(c)
    <3>1. CASE WorkspaceExists(c)
      BY <2>3, <3>1 DEF CreateProject, Pj!Next, Pj!Create
    <3>2. CASE ~WorkspaceExists(c)
      BY <2>3, <3>2 DEF CreateProject, Pj!Next, Pj!Create
    <3> QED BY <3>1, <3>2
  <2>4. CASE ProjectCall(c)
    BY <2>4 DEF ProjectCall, Pj!Next, Pj!CallStep
  <2> QED BY <1>1, <2>1, <2>2, <2>3, <2>4
<1>2. ASSUME WorkspaceCall PROVE [Pj!Next]_pjVars
  <2> DEFINE gone == {p \in projects : home[p] \notin workspaces'}
  <2>1. CASE gone = {}
    BY <1>2, <2>1 DEF WorkspaceCall
  <2>2. CASE gone # {}
    <3>1. Pj!Sweep(gone) /\ gone \in SUBSET projects
      BY <1>2, <2>2 DEF WorkspaceCall, SweepProjects
    <3> QED BY <3>1 DEF Pj!Next
  <2> QED BY <2>1, <2>2
<1>3. CASE UNCHANGED vars
  BY <1>3 DEF vars
<1> QED BY <1>1, <1>2, <1>3 DEF Next

(* Projects behave as Members says whatever happens to workspaces:          *)
(* ProjectsSpec for all constants.                                         *)
THEOREM ProjectsAreMembers == Spec => ProjectsSpec
<1>1. Init => Pj!Init
  BY DEF Init
<1>2. [Next]_vars => [Pj!Next]_(Pj!vars)
  BY ProjectStep DEF pjVars, Pj!vars
<1> QED BY <1>1, <1>2, PTL DEF Spec, ProjectsSpec, Pj!Spec

-----------------------------------------------------------------------------
(* The theorems of MembersProofs, for projects.                            *)

PjT == INSTANCE MembersProofs
        WITH Calls <- PjCalls, live <- projects, role <- pjRole,
             req <- pjReq, at <- pjAt,
             GuardRoles <- {"OWNER", "COLLABORATOR"}, HasParent <- TRUE

(* Pj and PjT are the same instance under two names.                        *)
LEMMA SameSteps == Pj!Next <=> PjT!Next
  BY DEF Pj!Next, PjT!Next, Pj!CallStep, PjT!CallStep,
       Pj!Create, PjT!Create, Pj!Update, PjT!Update, Pj!Remove, PjT!Remove,
       Pj!AddMember, PjT!AddMember, Pj!RemoveMember, PjT!RemoveMember,
       Pj!Receive, PjT!Receive, Pj!Guard, PjT!Guard, Pj!Fail, PjT!Fail,
       Pj!CheckPermission, PjT!CheckPermission, Pj!CheckParent, PjT!CheckParent,
       Pj!FindExistingMember, PjT!FindExistingMember, Pj!Sweep, PjT!Sweep,
       Pj!Delete, PjT!Delete, Pj!PutRow, PjT!PutRow, Pj!NoRows, PjT!NoRows,
       Pj!Goto, PjT!Goto, Pj!Commit, PjT!Commit, Pj!Known, PjT!Known,
       Pj!RequestsOf, PjT!RequestsOf, Pj!FirstAwait, PjT!FirstAwait,
       Pj!Request, PjT!Request, Pj!RequesterRole, PjT!RequesterRole,
       Pj!TargetRole, PjT!TargetRole, Pj!IsOwner, PjT!IsOwner,
       Pj!Exists, PjT!Exists, Pj!Insertable, PjT!Insertable,
       Pj!InFlight, PjT!InFlight, Pj!Permitted, PjT!Permitted,
       Pj!Roles, PjT!Roles, Pj!Ops, PjT!Ops

LEMMA MembersSpec == Spec => PjT!Spec
<1>1. Init => PjT!Init
  BY DEF Init, Pj!Init, PjT!Init, Pj!NoRows, PjT!NoRows
<1>2. [Next]_vars => [PjT!Next]_(PjT!vars)
  BY ProjectStep, SameSteps DEF pjVars, PjT!vars
<1> QED BY <1>1, <1>2, PTL DEF Spec, PjT!Spec

(* Nobody passes the permission check of a project who was not its creator  *)
(* or made OWNER of it, whatever happens to its workspace meanwhile.        *)
THEOREM OnlyProjectOwnersGetThrough == Spec => []Pj!OnlyOwnersGetThrough
<1>1. PjT!OnlyOwnersGetThrough <=> Pj!OnlyOwnersGetThrough
  BY DEF Pj!OnlyOwnersGetThrough, PjT!OnlyOwnersGetThrough, Pj!WasMadeOwner,
       PjT!WasMadeOwner, Pj!Permitted, PjT!Permitted
<1> QED BY <1>1, MembersSpec, PjT!OnlyMadeOwnersGetThrough, PTL

-----------------------------------------------------------------------------
(* Projects and their workspaces.                                          *)

HomesExist ==
    /\ home \in [PjCalls -> WsCalls \cup {NoWorkspace}]
    /\ \A p \in projects : home[p] \in workspaces

LEMMA HomeStep ==
  ASSUME PjT!TypeOK, PjT!Born, HomesExist, [Next]_vars
  PROVE  HomesExist'
<1> USE DEF HomesExist
<1>0. projects \subseteq PjCalls
  BY DEF PjT!TypeOK
<1>1. ASSUME NEW c \in PjCalls, ReceiveProjectCall(c) PROVE HomesExist'
  <2>1. c \notin projects
    BY <1>1 DEF ReceiveProjectCall, Pj!Receive, PjT!Born, PjT!Over
  <2>2. UNCHANGED <<projects, workspaces>>
    BY <1>1 DEF ReceiveProjectCall, Pj!Receive, wsVars
  <2>3. \/ home' = home
        \/ \E w \in WsCalls : home' = [home EXCEPT ![c] = w]
    BY <1>1 DEF ReceiveProjectCall, Ws!Known
  <2> QED BY <1>0, <2>1, <2>2, <2>3
<1>2. ASSUME NEW c \in PjCalls, CreateProject(c) PROVE HomesExist'
  BY <1>2 DEF CreateProject, WorkspaceExists, Pj!Create, wsVars
<1>3. ASSUME NEW c \in PjCalls, CheckWorkspaceMember(c) \/ ProjectCall(c)
      PROVE  HomesExist'
  <2>1. UNCHANGED <<workspaces, home>> /\ projects' \subseteq projects
    BY <1>3 DEF CheckWorkspaceMember, ProjectCall, wsVars, Pj!CheckParent, Pj!Guard,
         Pj!CheckPermission, Pj!FindExistingMember, Pj!Update, Pj!Remove, Pj!Delete,
         Pj!AddMember, Pj!RemoveMember, Pj!Fail
  <2> QED BY <2>1
<1>4. CASE WorkspaceCall
  <2> DEFINE gone == {p \in projects : home[p] \notin workspaces'}
  <2>1. home' = home /\ projects' = projects \ gone
    BY <1>4 DEF WorkspaceCall, SweepProjects, Pj!Sweep, Pj!Delete, pjVars
  <2> QED BY <2>1
<1>5. CASE UNCHANGED vars
  BY <1>5 DEF vars, wsVars, pjVars
<1> QED BY <1>1, <1>2, <1>3, <1>4, <1>5 DEF Next

(* A project never outlives its workspace and no membership its project:    *)
(* ProjectsLiveInWorkspaces for all constants.                             *)
THEOREM ProjectsStayInWorkspaces == Spec => []ProjectsLiveInWorkspaces
<1>1. Init => HomesExist
  BY DEF Init, Pj!Init, HomesExist
<1>2. PjT!TypeOK /\ PjT!Born /\ HomesExist /\ [Next]_vars => HomesExist'
  BY HomeStep
<1>3. HomesExist /\ PjT!NoOrphanRows => ProjectsLiveInWorkspaces
  BY DEF HomesExist, ProjectsLiveInWorkspaces, Pj!NoOrphanRows, PjT!NoOrphanRows,
       Pj!NoRows, PjT!NoRows
<1> QED BY <1>1, <1>2, <1>3, MembersSpec, PjT!BornInvariant, PTL DEF Spec

-----------------------------------------------------------------------------
(* The theorems of MembersProofs, for workspaces.                          *)

WsT == INSTANCE MembersProofs
        WITH Calls <- WsCalls, live <- workspaces, role <- wsRole,
             req <- wsReq, at <- wsAt,
             GuardRoles <- {"OWNER"}, HasParent <- FALSE

LEMMA SameWorkspaceSteps == Ws!Next <=> WsT!Next
  BY DEF Ws!Next, WsT!Next, Ws!CallStep, WsT!CallStep,
       Ws!Create, WsT!Create, Ws!Update, WsT!Update, Ws!Remove, WsT!Remove,
       Ws!AddMember, WsT!AddMember, Ws!RemoveMember, WsT!RemoveMember,
       Ws!Receive, WsT!Receive, Ws!Guard, WsT!Guard, Ws!Fail, WsT!Fail,
       Ws!CheckPermission, WsT!CheckPermission, Ws!CheckParent, WsT!CheckParent,
       Ws!FindExistingMember, WsT!FindExistingMember, Ws!Sweep, WsT!Sweep,
       Ws!Delete, WsT!Delete, Ws!PutRow, WsT!PutRow, Ws!NoRows, WsT!NoRows,
       Ws!Goto, WsT!Goto, Ws!Commit, WsT!Commit, Ws!Known, WsT!Known,
       Ws!RequestsOf, WsT!RequestsOf, Ws!FirstAwait, WsT!FirstAwait,
       Ws!Request, WsT!Request, Ws!RequesterRole, WsT!RequesterRole,
       Ws!TargetRole, WsT!TargetRole, Ws!IsOwner, WsT!IsOwner,
       Ws!Exists, WsT!Exists, Ws!Insertable, WsT!Insertable,
       Ws!InFlight, WsT!InFlight, Ws!Permitted, WsT!Permitted,
       Ws!Roles, WsT!Roles, Ws!Ops, WsT!Ops

(* No call on a project touches the workspaces.                             *)
LEMMA WorkspaceStep ==
  ASSUME [Next]_vars
  PROVE  [WsT!Next]_wsVars
<1>1. ASSUME NEW c \in PjCalls,
             \/ ReceiveProjectCall(c) \/ CheckWorkspaceMember(c)
             \/ CreateProject(c) \/ ProjectCall(c)
      PROVE  UNCHANGED wsVars
  BY <1>1 DEF ReceiveProjectCall, CheckWorkspaceMember, CreateProject, ProjectCall
<1>2. CASE WorkspaceCall
  BY <1>2, SameWorkspaceSteps DEF WorkspaceCall
<1>3. CASE UNCHANGED vars
  BY <1>3 DEF vars
<1> QED BY <1>1, <1>2, <1>3 DEF Next

LEMMA WorkspacesSpec == Spec => WsT!Spec
<1>1. Init => WsT!Init
  BY DEF Init, Ws!Init, WsT!Init, Ws!NoRows, WsT!NoRows
<1>2. [Next]_vars => [WsT!Next]_(WsT!vars)
  BY WorkspaceStep DEF wsVars, WsT!vars
<1> QED BY <1>1, <1>2, PTL DEF Spec, WsT!Spec

-----------------------------------------------------------------------------
(* What Members promises, in both services at once.                        *)

(* No call on a project changes what the workspaces do: they behave as      *)
(* Members says without a parent, whatever happens to their projects.       *)
THEOREM WorkspacesAreMembers == Spec => Ws!Spec
<1>1. Init => Ws!Init
  BY DEF Init
<1>2. [Next]_vars => [Ws!Next]_(Ws!vars)
  BY WorkspaceStep, SameWorkspaceSteps DEF wsVars, Ws!vars
<1> QED BY <1>1, <1>2, PTL DEF Spec, Ws!Spec

(* Nobody passes the permission check of a workspace who was not its        *)
(* creator or made OWNER of it.                                            *)
THEOREM OnlyWorkspaceOwnersGetThrough == Spec => []Ws!OnlyOwnersGetThrough
<1>1. WsT!OnlyOwnersGetThrough <=> Ws!OnlyOwnersGetThrough
  BY DEF Ws!OnlyOwnersGetThrough, WsT!OnlyOwnersGetThrough, Ws!WasMadeOwner,
       WsT!WasMadeOwner, Ws!Permitted, WsT!Permitted
<1> QED BY <1>1, WorkspacesSpec, WsT!OnlyMadeOwnersGetThrough, PTL

(* In either service, on a resource that exists, the calls that were told   *)
(* they succeeded account for the membership rows, although deleting a      *)
(* workspace removes projects and rows that no call on them asked to remove. *)
THEOREM AnswersAddUpInBoth ==
    Spec => [](Ws!AnswersAccountForRows /\ Pj!AnswersAccountForRows)
<1>1. WsT!AnswersAccountForRows <=> Ws!AnswersAccountForRows
  BY DEF Ws!AnswersAccountForRows, WsT!AnswersAccountForRows, Ws!Added, WsT!Added,
       Ws!Removed, WsT!Removed, Ws!Rows, WsT!Rows, Ws!Asked, WsT!Asked,
       Ws!Cardinality, WsT!Cardinality
<1>2. PjT!AnswersAccountForRows <=> Pj!AnswersAccountForRows
  BY DEF Pj!AnswersAccountForRows, PjT!AnswersAccountForRows, Pj!Added, PjT!Added,
       Pj!Removed, PjT!Removed, Pj!Rows, PjT!Rows, Pj!Asked, PjT!Asked,
       Pj!Cardinality, PjT!Cardinality
<1> QED BY <1>1, <1>2, WorkspacesSpec, MembersSpec, WsT!AnswersAddUp,
           PjT!AnswersAddUp, PTL

(* In either service no step changes a member's role in place, not even     *)
(* one that belongs to the other service.                                  *)
THEOREM RolesStayFixedInBoth == Spec => Ws!RolesAreFixed /\ Pj!RolesAreFixed
<1>1. WsT!RolesAreFixed => Ws!RolesAreFixed
  BY DEF Ws!RolesAreFixed, WsT!RolesAreFixed, Ws!vars, WsT!vars
<1>2. PjT!RolesAreFixed => Pj!RolesAreFixed
  BY DEF Pj!RolesAreFixed, PjT!RolesAreFixed, Pj!vars, PjT!vars
<1> QED BY <1>1, <1>2, WorkspacesSpec, MembersSpec, WsT!RolesStayFixed,
           PjT!RolesStayFixed, PTL

(* A workspace without OWNER stays as it is for ever; a project without     *)
(* OWNER stays as it is until its workspace is deleted.                    *)
THEOREM OwnerlessStaysFrozenInBoth ==
    Spec => Ws!OwnerlessIsFrozen /\ Pj!OwnerlessIsFrozen
<1>1. WsT!OwnerlessIsFrozen => Ws!OwnerlessIsFrozen
  BY DEF Ws!OwnerlessIsFrozen, WsT!OwnerlessIsFrozen, Ws!vars, WsT!vars,
       Ws!Frozen, WsT!Frozen, Ws!Permitted, WsT!Permitted
<1>2. PjT!OwnerlessIsFrozen => Pj!OwnerlessIsFrozen
  BY DEF Pj!OwnerlessIsFrozen, PjT!OwnerlessIsFrozen, Pj!vars, PjT!vars,
       Pj!Frozen, PjT!Frozen, Pj!Permitted, PjT!Permitted
<1> QED BY <1>1, <1>2, WorkspacesSpec, MembersSpec, WsT!OwnerlessStaysFrozen,
           PjT!OwnerlessStaysFrozen, PTL

-----------------------------------------------------------------------------
(* Types.                                                                  *)

(* A call has a home once it has arrived and if it creates a project.       *)
HomesFit ==
    /\ home \in [PjCalls -> WsCalls \cup {NoWorkspace}]
    /\ \A c \in PjCalls : home[c] # NoWorkspace <=>
                            pjAt[c] # "idle" /\ pjReq[c].op = "create"

LEMMA HomesFitStep ==
  ASSUME PjT!TypeOK, HomesFit, [Next]_vars
  PROVE  HomesFit'
<1> USE DEF HomesFit
<1>0. /\ pjAt \in [PjCalls -> PjT!Labels]
      /\ pjReq \in [PjCalls -> PjT!Request \cup {NoRequest}]
  BY DEF PjT!TypeOK, PjT!Labels
<1>1. ASSUME NEW c \in PjCalls, ReceiveProjectCall(c) PROVE HomesFit'
  <2>1. PICK r \in Pj!RequestsOf(c) :
            /\ pjReq' = [pjReq EXCEPT ![c] = r]
            /\ pjAt' = [pjAt EXCEPT ![c] = Pj!FirstAwait(r.op)]
    BY <1>1 DEF ReceiveProjectCall, Pj!Receive, Pj!Goto
  <2>2. pjAt[c] = "idle" /\ Pj!FirstAwait(r.op) # "idle" /\ home[c] = NoWorkspace
    BY <1>1 DEF ReceiveProjectCall, Pj!Receive, Pj!FirstAwait
  <2>3. pjReq'[c] = r /\ pjAt'[c] # "idle"
    BY <1>0, <2>1, <2>2
  <2>4. CASE r.op = "create"
    <3>1. PICK w \in WsCalls : home' = [home EXCEPT ![c] = w]
      BY <1>1, <2>3, <2>4 DEF ReceiveProjectCall, Ws!Known
    <3>2. w # NoWorkspace
      BY NoWorkspaceAssumption
    <3> QED BY <1>0, <2>1, <2>3, <2>4, <3>1, <3>2
  <2>5. CASE r.op # "create"
    <3>1. home' = home
      BY <1>1, <2>3, <2>5 DEF ReceiveProjectCall
    <3> QED BY <1>0, <2>1, <2>2, <2>3, <2>5, <3>1
  <2> QED BY <2>4, <2>5
<1>2. ASSUME NEW c \in PjCalls,
             CheckWorkspaceMember(c) \/ CreateProject(c) \/ ProjectCall(c)
      PROVE  HomesFit'
  <2>1. \/ Pj!CheckParent(c, JoinedWorkspace(c)) \/ Pj!Create(c, WorkspaceExists(c))
        \/ Pj!Guard(c) \/ Pj!CheckPermission(c) \/ Pj!FindExistingMember(c)
        \/ Pj!Update(c) \/ Pj!Remove(c) \/ Pj!AddMember(c) \/ Pj!RemoveMember(c)
        \/ Pj!Fail(c) \/ Pj!Receive(c)
    BY <1>2 DEF CheckWorkspaceMember, CreateProject, ProjectCall
  <2>2. home' = home
    BY <1>2 DEF CheckWorkspaceMember, CreateProject, ProjectCall
  <2>3. UNCHANGED pjReq /\ pjAt[c] # "idle"
    BY <1>2 DEF CheckWorkspaceMember, CreateProject, ProjectCall, Pj!CheckParent,
         Pj!Create, Pj!Guard, Pj!CheckPermission, Pj!FindExistingMember, Pj!Update,
         Pj!Remove, Pj!AddMember, Pj!RemoveMember, Pj!Fail, Pj!InFlight, Pj!Permitted
  <2>4. \E l : l # "idle" /\ pjAt' = [pjAt EXCEPT ![c] = l]
    BY <1>2 DEF CheckWorkspaceMember, CreateProject, ProjectCall, Pj!CheckParent,
         Pj!Create, Pj!Guard, Pj!CheckPermission, Pj!FindExistingMember, Pj!Update,
         Pj!Remove, Pj!AddMember, Pj!RemoveMember, Pj!Fail, Pj!Goto, Pj!Commit
  <2> QED BY <1>0, <2>2, <2>3, <2>4
<1>3. CASE WorkspaceCall
  <2>1. UNCHANGED <<home, pjAt, pjReq>>
    BY <1>3 DEF WorkspaceCall, SweepProjects, Pj!Sweep, pjVars
  <2> QED BY <2>1
<1>4. CASE UNCHANGED vars
  BY <1>4 DEF vars, pjVars
<1> QED BY <1>1, <1>2, <1>3, <1>4 DEF Next

(* The tables and the calls of both services keep their types, and a call   *)
(* has a workspace exactly when it creates a project: TypeOK for all        *)
(* constants.                                                              *)
THEOREM TypeCorrect == Spec => []TypeOK
<1>1. Init => HomesFit
  BY DEF Init, Pj!Init, HomesFit
<1>2. PjT!TypeOK /\ HomesFit /\ [Next]_vars => HomesFit'
  BY HomesFitStep
<1>3. WsT!TypeOK <=> Ws!TypeOK
  BY DEF Ws!TypeOK, WsT!TypeOK, Ws!Roles, WsT!Roles, Ws!Ops, WsT!Ops, Ws!Request,
       WsT!Request, Ws!InFlight, WsT!InFlight, Ws!Permitted, WsT!Permitted,
       Ws!Answers, WsT!Answers
<1>4. PjT!TypeOK <=> Pj!TypeOK
  BY DEF Pj!TypeOK, PjT!TypeOK, Pj!Roles, PjT!Roles, Pj!Ops, PjT!Ops, Pj!Request,
       PjT!Request, Pj!InFlight, PjT!InFlight, Pj!Permitted, PjT!Permitted,
       Pj!Answers, PjT!Answers
<1>5. WsT!TypeOK /\ PjT!TypeOK /\ HomesFit => TypeOK
  BY <1>3, <1>4 DEF TypeOK, HomesFit
<1> QED BY <1>1, <1>2, <1>5, MembersSpec, WorkspacesSpec, PjT!TypeCorrect,
           WsT!TypeCorrect, PTL DEF Spec

-----------------------------------------------------------------------------
(* Creators.                                                               *)

Joined(c) == WsT!Invited(home[c], pjReq[c].by) # {}

CreatorsJoined ==
    \A c \in PjCalls : pjAt[c] = "create" \/ c \in projects => Joined(c)

(* What a call that creates a project was told on its way stays true.       *)
LEMMA JoinedStays ==
  ASSUME PjT!TypeOK, WsT!TypeOK, HomesFit, [Next]_vars,
         NEW c \in PjCalls, pjAt[c] # "idle", Joined(c)
  PROVE  Joined(c)'
<1>1. pjReq'[c] = pjReq[c]
  <2>1. [PjT!Next]_(PjT!vars)
    BY ProjectStep, SameSteps DEF pjVars, PjT!vars
  <2> QED BY <2>1, PjT!CallsEnd
<1>2. home'[c] = home[c]
  <2>1. ASSUME NEW d \in PjCalls, ReceiveProjectCall(d) PROVE home'[c] = home[c]
    <3>1. d # c /\ (home' = home \/ \E w : home' = [home EXCEPT ![d] = w])
      BY <2>1 DEF ReceiveProjectCall, Pj!Receive
    <3> QED BY <3>1 DEF HomesFit
  <2>2. ASSUME NEW d \in PjCalls,
               CheckWorkspaceMember(d) \/ CreateProject(d) \/ ProjectCall(d)
        PROVE  home' = home
    BY <2>2 DEF CheckWorkspaceMember, CreateProject, ProjectCall
  <2>3. CASE WorkspaceCall \/ UNCHANGED vars
    BY <2>3 DEF WorkspaceCall, vars
  <2> QED BY <2>1, <2>2, <2>3 DEF Next
<1>3. [WsT!Next]_(WsT!vars)
  BY WorkspaceStep DEF wsVars, WsT!vars
<1>4. PICK w, u : w = home[c] /\ u = pjReq[c].by
  OBVIOUS
<1>5. WsT!Invited(w, u) \subseteq WsT!Invited(w, u)'
  BY <1>3, WsT!InvitationsStay
<1>6. w = home'[c] /\ u = pjReq'[c].by
  BY <1>1, <1>2, <1>4
<1> QED BY <1>4, <1>5, <1>6 DEF Joined, WsT!Invited, WsT!Asked

LEMMA CreatorsStep ==
  ASSUME PjT!TypeOK, PjT!LabelsFit, PjT!Born, WsT!TypeOK, WsT!MembersWereInvited,
         HomesFit, CreatorsJoined, [Next]_vars
  PROVE  CreatorsJoined'
<1>0. /\ pjAt \in [PjCalls -> PjT!Labels] /\ projects \subseteq PjCalls
      /\ \A c \in projects : pjAt[c] # "idle"
  BY DEF PjT!TypeOK, PjT!Labels, PjT!Born, PjT!Over
<1> SUFFICES ASSUME NEW c \in PjCalls,
                    pjAt'[c] = "create" \/ c \in projects',
                    ~(pjAt[c] = "create" \/ c \in projects)
             PROVE  Joined(c)'
  BY <1>0, JoinedStays DEF CreatorsJoined
<1>1. ASSUME NEW d \in PjCalls, CheckWorkspaceMember(d) PROVE Joined(c)'
  <2>1. pjAt' = [pjAt EXCEPT ![d] =
                     IF JoinedWorkspace(d) THEN "create" ELSE "forbidden"]
    BY <1>1 DEF CheckWorkspaceMember, Pj!CheckParent, Pj!Goto
  <2>2. UNCHANGED <<projects, pjReq, wsVars, home>> /\ pjAt[d] = "parent"
    BY <1>1 DEF CheckWorkspaceMember, Pj!CheckParent
  <2>3. c = d /\ JoinedWorkspace(c)
    BY <1>0, <2>1, <2>2
  <2>4. pjReq[c].op = "create" /\ pjReq[c] \in PjT!Request
    BY <2>2, <2>3 DEF PjT!LabelsFit, PjT!TypeOK
  <2>5. home[c] \in WsCalls /\ pjReq[c].by \in Users
    BY <2>2, <2>3, <2>4 DEF HomesFit, PjT!Request
  <2>6. Joined(c)
    BY <2>3, <2>5 DEF JoinedWorkspace, Joined, WsT!MembersWereInvited
  <2> QED BY <2>2, <2>3, <2>6, JoinedStays
<1>2. ASSUME NEW d \in PjCalls, CreateProject(d) PROVE FALSE
  <2>1. pjAt[d] = "create" /\ projects' \subseteq projects \cup {d}
    BY <1>2 DEF CreateProject, Pj!Create
  <2>2. \E l : l # "create" /\ pjAt' = [pjAt EXCEPT ![d] = l]
    BY <1>2 DEF CreateProject, Pj!Create, Pj!Commit, Pj!Goto
  <2> QED BY <1>0, <2>1, <2>2
<1>3. ASSUME NEW d \in PjCalls, ReceiveProjectCall(d) \/ ProjectCall(d) PROVE FALSE
  <2>1. projects' \subseteq projects
    BY <1>3 DEF ReceiveProjectCall, ProjectCall, Pj!Receive, Pj!Guard,
         Pj!CheckPermission, Pj!FindExistingMember, Pj!Update, Pj!Remove, Pj!Delete,
         Pj!AddMember, Pj!RemoveMember, Pj!Fail
  <2>2. \E l : l # "create" /\ pjAt' = [pjAt EXCEPT ![d] = l]
    BY <1>3 DEF ReceiveProjectCall, ProjectCall, Pj!Receive, Pj!FirstAwait, Pj!Guard,
         Pj!CheckPermission, Pj!FindExistingMember, Pj!Update, Pj!Remove,
         Pj!AddMember, Pj!RemoveMember, Pj!Fail, Pj!Goto, Pj!Commit
  <2> QED BY <1>0, <2>1, <2>2
<1>4. CASE WorkspaceCall
  <2>1. pjAt' = pjAt /\ projects' \subseteq projects
    BY <1>4 DEF WorkspaceCall, SweepProjects, Pj!Sweep, Pj!Delete, pjVars
  <2> QED BY <2>1
<1>5. CASE UNCHANGED vars
  BY <1>5 DEF vars, pjVars
<1> QED BY <1>1, <1>2, <1>3, <1>4, <1>5 DEF Next

(* Nobody creates a project in a workspace without having been made a       *)
(* member of it by an answered call, however removals and deletions race    *)
(* with the creation: CreatorsJoinedWorkspace for all constants.           *)
THEOREM CreatorsHadJoined == Spec => []CreatorsJoinedWorkspace
<1>1. Init => HomesFit /\ CreatorsJoined
  BY DEF Init, Pj!Init, HomesFit, CreatorsJoined
<1>2. PjT!TypeOK /\ HomesFit /\ [Next]_vars => HomesFit'
  BY HomesFitStep
<1>3. /\ PjT!TypeOK /\ PjT!LabelsFit /\ PjT!Born /\ WsT!TypeOK
      /\ WsT!MembersWereInvited /\ HomesFit /\ CreatorsJoined /\ [Next]_vars
      => CreatorsJoined'
  BY CreatorsStep
<1>4. CreatorsJoined => CreatorsJoinedWorkspace
  BY DEF CreatorsJoined, CreatorsJoinedWorkspace, Joined, WsT!Invited,
       WsT!Asked, Ws!Asked
<1> QED BY <1>1, <1>2, <1>3, <1>4, MembersSpec, WorkspacesSpec, PjT!BornInvariant,
           PjT!LabelsInvariant, WsT!TypeCorrect, WsT!InvitedInvariant, PTL DEF Spec
=============================================================================

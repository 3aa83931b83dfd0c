SPECIFICATION Spec
CONSTANTS
    WsCalls = {w1, w2, w3}
    PjCalls = {p1, p2}
    Users = {u1, u2}
    NoRequest = NoRequest
    NoWorkspace = NoWorkspace
    GrantRoles <- OwnerOrNot
SYMMETRY Symmetry
INVARIANTS
    TypeOK
    ProjectsLiveInWorkspaces
    CreatorsJoinedWorkspace
PROPERTIES
    ProjectsSpec
CHECK_DEADLOCK FALSE

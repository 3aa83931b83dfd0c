SPECIFICATION Spec
CONSTANTS
    WsCalls = {w1}
    PjCalls = {p1, p2, p3}
    Users = {u1, u2}
    NoRequest = NoRequest
    NoWorkspace = NoWorkspace
    GrantRoles <- Subordinate
PROPERTIES
    CollaboratorMayUpdate
CHECK_DEADLOCK FALSE

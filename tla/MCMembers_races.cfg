SPECIFICATION Spec
CONSTANTS
    Calls = {c1, c2, c3, c4}
    Users = {u1, u2}
    NoRequest = NoRequest
    GrantRoles <- OwnerOrNot
    GuardRoles <- OwnerOrCollaborator
    HasParent = TRUE
SYMMETRY Symmetry
INVARIANTS
    TypeOK
    AnswersAccountForRows
    OnlyOwnersGetThrough
    NoOrphanRows
PROPERTIES
    OwnerlessIsFrozen
    RolesAreFixed
CHECK_DEADLOCK FALSE

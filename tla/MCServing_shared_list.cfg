SPECIFICATION Spec
CONSTANTS
    Requests = {q1, q2, q3}
    Users = {u1, u2}
    ListUrls = {workspaces}
    OtherUrls = {members}
    Nothing = Nothing
SYMMETRY Symmetry
INVARIANTS
    ListsAreTheCallersOwn
CHECK_DEADLOCK FALSE

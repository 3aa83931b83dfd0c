SPECIFICATION FairSpec
CONSTANTS
    Requests = {q1, q2, q3}
    Users = {u1}
    ListUrls = {workspaces}
    OtherUrls = {members}
    Nothing = Nothing
INVARIANTS
    TypeOK
    OnlyReadyAppsServe
    CountersAccount
PROPERTIES
    RequestsEnd
    StalenessDrains
    ListsSettle
CHECK_DEADLOCK FALSE

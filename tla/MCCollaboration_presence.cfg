SPECIFICATION FairSpec
CONSTANTS
    r1 = r1
    r2 = r2
    p1 = p1
    p2 = p2
    s1 = s1
    s2 = s2
    s3 = s3
    u1 = u1
    u2 = u2
    Process = {p1, p2}
    Socket = {s1, s2, s3}
    Room = {r1, r2}
    User = {u1, u2}
    HomeOf <- Homes
    UserOf <- Users
    Visits <- Rooms
    MaxPending <- Bounds
INVARIANTS
    TypeOK
    EntriesMatchSockets
    PresenceIsTrue
    NoGhosts
    NoStrangers
PROPERTIES
    MembersGetKnown
CHECK_DEADLOCK FALSE

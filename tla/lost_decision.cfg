SPECIFICATION ConfSpec
CONSTANTS
    c1 = c1
    c2 = c2
    c3 = c3
    u1 = u1
    u2 = u2
    ConfIDs = {c1, c2}
    Users = {u1, u2}
    HostReqs = {h1}
    DeskReqs = {d1}
    Windows <- MCWindows
    SeatChoices = {1}
    MaxTime = 1
    Seeds <- OnePendingSeeds
PROPERTIES
    NotPendingNotUpdated
CHECK_DEADLOCK FALSE

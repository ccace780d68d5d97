SPECIFICATION ConfSpec
CONSTANTS
    c1 = c1
    c2 = c2
    c3 = c3
    u1 = u1
    u2 = u2
    ConfIDs = {c1, c2, c3}
    Users = {u1, u2}
    HostReqs = {}
    DeskReqs = {d1, d2}
    Windows <- MCWindows
    SeatChoices = {1}
    MaxTime = 1
    Seeds <- CrowdedSeeds
INVARIANTS
    NoOverlapApproved
CHECK_DEADLOCK FALSE

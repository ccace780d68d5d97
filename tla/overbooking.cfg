SPECIFICATION RegSpec
CONSTANTS
    c1 = c1
    c2 = c2
    u1 = u1
    u2 = u2
    u3 = u3
    u4 = u4
    ConfIDs = {c1, c2}
    Users = {u1, u2, u3}
    HostReqs = {}
    DeskReqs = {}
    RegReqs = {g1, g2}
    Windows <- MCWindows
    SeatChoices = {1}
    MaxTime = 1
    Seeds <- OneSeatSeeds
INVARIANTS
    SeatsNeverExceeded
CHECK_DEADLOCK FALSE

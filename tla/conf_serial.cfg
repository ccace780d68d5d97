SPECIFICATION RegSpec
CONSTANTS
    c1 = c1
    c2 = c2
    u1 = u1
    u2 = u2
    u3 = u3
    u4 = u4
    ConfIDs = {c1, c2}
    Users = {u1, u2, u3, u4}
    HostReqs = {r1}
    DeskReqs = {r1}
    RegReqs = {g1, g2}
    Windows <- MCWindows
    SeatChoices = {1}
    MaxTime = 2
    Seeds <- MCSeeds
SYMMETRY GuestSymmetry
INVARIANTS
    RegTypeOK
    SeatBound
    HostNeverAttends
    RegisteredStayApproved
    NoDoubleBooking
    ClashOnlyTouches
PROPERTIES
    NotPendingNotUpdated
    NoSecondProposal
    ImplementsPlan
CHECK_DEADLOCK FALSE

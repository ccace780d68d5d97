SPECIFICATION FbSpec
CONSTANTS
    c1 = c1
    c2 = c2
    u1 = u1
    u2 = u2
    u3 = u3
    ConfIDs = {c1, c2}
    Users = {u1, u2, u3}
    HostReqs = {r1}
    DeskReqs = {r1}
    RegReqs = {g1, g2}
    FbReqs = {f1, f2}
    FeedbackIDs = {i1, i2, i3}
    Windows <- MCWindows
    SeatChoices = {}
    MaxTime = 2
    Seeds <- MCSeeds
SYMMETRY AttendeeSymmetry
INVARIANTS
    FbTypeOK
    FeedbackBound
    FeedbackFromAttendees
    FeedbackAfterEnd
PROPERTIES
    ImplementsAuditorium
CHECK_DEADLOCK FALSE

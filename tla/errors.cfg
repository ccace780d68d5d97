SPECIFICATION ErrSpec
CONSTANTS
    Requests = {r1, r2, r3}
    Traced = {internal}
    Detailed = {conflict}
    Reworded = {notFound}
    Fixed = {ended}
    Nobody = Nobody
    None = None
SYMMETRY RequestSymmetry
INVARIANTS
    ErrTypeOK
    OwnOrMet
CHECK_DEADLOCK FALSE

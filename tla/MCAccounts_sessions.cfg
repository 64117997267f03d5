SPECIFICATION Spec
CONSTANTS
    Devices = {d1, d2}
    Admins = {a1, a2}
    MaxAttempts = 2
    MaxSessions = 2
    MaxActs = 4
SYMMETRY Symmetry
CHECK_DEADLOCK FALSE
INVARIANTS
    GuessesBounded
    RevocationHolds
    NoSessionLeft

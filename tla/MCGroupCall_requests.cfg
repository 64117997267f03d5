SPECIFICATION HistorySpec
CONSTANTS
    Users = {u1, u2, u3}
    Creator = u1
    NoUser = NoUser
    Rows = {r1, r2, r3, r4}
    NoRow = NoRow
    Slots = {s1, s2}
    MaxParticipants = 2
    MaxRequests = 6
    MaxParallel = 5
    MaxWebhooks = 1
    MaxFailures = 1
CHECK_DEADLOCK FALSE
SYMMETRY Symmetry
INVARIANTS
    BoundedOvershoot
    NoEmptyCall
    SerialCall

SPECIFICATION Spec
CONSTANTS
    Attempts = {a1, a2, a3, a4}
    NoMessage = NoMessage
    MaxFailures = 1
    MaxRestarts = 2
CHECK_DEADLOCK FALSE
SYMMETRY Symmetry
INVARIANTS
    SerialRetriesSafe
    AnsweredIsStored

SPECIFICATION Spec
CONSTANTS
    Calls = {c1, c2}
    NoCall = NoCall
    Dialing = Dialing
    MaxActs = 5
CHECK_DEADLOCK FALSE
INVARIANTS
    EndedHasExit
    ModalTruthful
PROPERTIES
    HeldKept
    DisplayLegal

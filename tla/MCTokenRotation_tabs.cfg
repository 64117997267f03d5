SPECIFICATION Spec
CONSTANTS
    Tabs = {t1, t2, t3}
    NoToken = NoToken
    MaxToken = 4
    MaxFailures = 1
    MaxDisturbances = 2
CHECK_DEADLOCK FALSE
SYMMETRY Symmetry
INVARIANTS
    HandedOutIsDurable
    NoFork
    CurrentTokenHeld

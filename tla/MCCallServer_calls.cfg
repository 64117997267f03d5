SPECIFICATION FairSpec
CONSTANTS
    Tabs = {t1, t2}
    NoTab = NoTab
    Slots = {s1, s2}
    TimerSlot = timerSlot
    Refs = {r1, r2, r3, r4}
    NoRef = NoRef
    MaxRequests = 3
    MaxFailures = 1
    MaxRestarts = 1
CHECK_DEADLOCK FALSE
INVARIANTS
    OneOwner
    SerialWriteThrough
PROPERTIES
    
    NoTimeoutOnceAnswered
    UnclaimedCallExpires

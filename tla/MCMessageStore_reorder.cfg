SPECIFICATION StoreSpec
CONSTANTS
    Messages = {m1, m2}
    Nothing = Nothing
    Users = {u1, u2}
    NoUser = NoUser
    Contents = {c1, c2}
    Tombstone = Tombstone
    Slots = {s1, s2}
    PinLimit = 1
    MaxRequests = 5
    MaxRejections = 1
    MaxBoots = 1
CHECK_DEADLOCK FALSE
SYMMETRY Symmetry
INVARIANTS
    StoreTypeOK
    SerialStore
    OneReaction
    PinsAgree

    

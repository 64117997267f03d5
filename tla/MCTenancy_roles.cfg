CONSTANTS
    Users = {f, a}
    Founder = f
    Slots = {s1, s2}
    MaxArrivals = 3
    MaxFaults = 1
    MaxBoots = 1
SPECIFICATION TenancySpec
SYMMETRY Symmetry
INVARIANTS
    TenancyTypeOK
    OwnerKept
    
    
CHECK_DEADLOCK FALSE

SPECIFICATION LinkSpec
CONSTANTS
    Caller = a
    CalleeTabs = {b1, b2}
    Candidates = {c1}
    Prefixes = {p1}
    PrefixOf <- OnePrefix
    MaxDrops = 1
    NoTab = none
SYMMETRY Symmetry
CHECK_DEADLOCK FALSE
INVARIANTS
    NegotiationSettles
    CandidatesArrive
    

    

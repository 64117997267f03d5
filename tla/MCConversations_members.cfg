SPECIFICATION Spec

CONSTANTS
    u1 = u1
    u2 = u2
    u3 = u3
    r1 = r1
    r2 = r2
    Users = {u1, u2, u3}
    Requests = {r1, r2}
    MaxConvs = 2
    MaxActs = 4
    MaxFailures = 1
    MaxRestarts = 1

SYMMETRY Symmetry

INVARIANTS
    OneDirect
    
    

CHECK_DEADLOCK FALSE

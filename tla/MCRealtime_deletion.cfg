SPECIFICATION Spec

CONSTANTS
    None = None
    d1 = d1
    d2 = d2
    t1 = t1
    t2 = t2
    x = x
    y = y
    m = m
    n = n
    z = z
    Devices = {d1}
    Tenants = {t1, t2}
    Channels = {x, y, z}
    Home = t1
    FirstTenant = t2
    TenantOf <- MCTenantOf
    Messages = {m, n}
    ChannelOf <- MCChannelOf
    MaxActs = 4
    MaxUnderWay = 1


INVARIANT
    DeletedLeavesView

CHECK_DEADLOCK FALSE

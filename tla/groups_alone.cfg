SPECIFICATION FairSpec
CONSTANTS
    a1 = a1
    a2 = a2
    b1 = b1
    t1 = t1
    t2 = t2
    None = None
    Groups = {g1}
    Users = {a1, a2}
    Tenants = {t1}
    TenantOf <- OneTenant
    Reqs = {r1}
    Offered = {"create", "sync", "join", "update", "remove"}
    Faults = {"push", "late", "crash"}
    MaxLate = 1
INVARIANT TypeOK
PROPERTIES SyncAligns RemovalTakesEffect EveryCallAnswered

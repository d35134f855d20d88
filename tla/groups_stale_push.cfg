SPECIFICATION Spec
CONSTANTS
    a1 = a1
    a2 = a2
    b1 = b1
    t1 = t1
    t2 = t2
    None = None
    Groups = {g1}
    Users = {a1, a2}
    Tenants = {t1}
    TenantOf <- OneTenant
    Reqs = {r1, r2}
    Offered = {"create", "sync", "add", "remove"}
    Faults = {}
    MaxLate = 0
SYMMETRY Interchangeable
INVARIANT NoLeftovers

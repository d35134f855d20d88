SPECIFICATION Spec
CONSTANTS
    a1 = a1
    a2 = a2
    b1 = b1
    t1 = t1
    t2 = t2
    None = None
    Groups = {g1}
    Users = {a1, a2, b1}
    Tenants = {t1, t2}
    TenantOf <- TwoTenants
    Reqs = {r1, r2}
    Offered = {"create", "sync", "add", "remove"}
    Faults = {}
    MaxLate = 0
SYMMETRY Interchangeable
INVARIANTS OwnerKeepsRow AffiliationsWereDue SameTenantOnly
PROPERTY Membership

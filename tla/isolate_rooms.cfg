SPECIFICATION Spec
CONSTANTS
    v1 = v1
    v2 = v2
    c1 = c1
    c2 = c2
    up1 = up1
    lh = lh
    x1 = x1
    y1 = y1
    x2 = x2
    adm = adm
    m1 = m1
    m2 = m2
    s1 = s1
    t1 = t1
    t2 = t2
    p1 = p1
    p2 = p2
    n1 = n1
    n2 = n2
    None = None
    Domains = {v1, v2, c1, c2, up1, lh}
    Tenants = {t1, t2}
    DomainOf <- JidDomain
    TenantOf <- JidTenant
    ConferenceOf <- Conferences
    OtherOf <- Others
    Localhost = lh
    Nodes = {n1, n2}
    Hosts = {v1, v2}
    Procs = {p1, p2}
    NodeOf <- Placement
    Jids = {x1, y1, x2, s1, adm, m1}
    Stoppable = {v1}
    Aborts = {"lookup", "bind"}
INVARIANTS TypeOK OneTenantPerRoom
PROPERTIES BindingsStay NoCrossTenantDelivery

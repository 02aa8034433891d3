CONSTANTS
    o1 = o1  o2 = o2  s1 = s1  s2 = s2
    g1 = g1  g2 = g2  g3 = g3  p1 = p1  p2 = p2  p3 = p3  p4 = p4  p5 = p5
    None = None
    Owner = {o1}
    Slug = {s1, s2}
    Generation = {g1, g2}
    Op = {p1, p2, p3}
    Creates <- TwoSites
    Requests <- Redeploys
    Charges = {1}
    MaxName = 0
    UserCap = 3
    MaxVersions = 3
    MaxFaults = 1
    LateKinds = {}
    EarlyOps = FALSE
SPECIFICATION Spec
INVARIANTS CapRespected ChargeIsAllocation SettledAgrees  ServesLive
CHECK_DEADLOCK FALSE

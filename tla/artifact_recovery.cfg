CONSTANTS
    o1 = o1  o2 = o2  s1 = s1  s2 = s2
    g1 = g1  g2 = g2  g3 = g3  p1 = p1  p2 = p2  p3 = p3  p4 = p4  p5 = p5
    None = None
    Owner = {o1}
    Slug = {s1}
    Generation = {g1}
    Op = {p1, p2, p3, p4, p5}
    Creates <- OneUpload
    Requests <- Finalized
    Charges = {1}
    MaxName = 1
    UserCap = 2
    MaxVersions = 2
    MaxFaults = 1
    LateKinds = {"decide"}
    EarlyOps = FALSE
SPECIFICATION FairSpec
PROPERTIES KeepsBook OperationEnds CreateSettles ChargeReleased
CHECK_DEADLOCK FALSE

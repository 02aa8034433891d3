CONSTANTS
    o1 = o1  o2 = o2  s1 = s1  s2 = s2
    g1 = g1  g2 = g2  g3 = g3  p1 = p1  p2 = p2  p3 = p3  p4 = p4  p5 = p5
    None = None
    Owner = {o1, o2}
    Slug = {s1}
    Generation = {g1, g2, g3}
    Op = {p1, p2}
    Creates <- SharedSlug
    Requests <- FailsBoth
    Charges = {1}
    MaxName = 0
    UserCap = 2
    MaxVersions = 1
    MaxFaults = 2
    LateKinds = {"put", "abort", "decide", "drop"}
    EarlyOps = FALSE
SPECIFICATION Spec
INVARIANTS VisibleCharged NothingStranded
PROPERTY IncarnationsApart
CHECK_DEADLOCK FALSE

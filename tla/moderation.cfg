CONSTANTS
    s1 = s1  s2 = s2
    Slugs = {s1, s2}
    Watched = {s1}
    Late = {s2}
    FillWindow = 1
    RepurgeAfter = 2
    MaxTime = 11
    SessionEnds = 2
    Batch = 1
    Continue = 1
    FirstSweep = 3
    SweepEvery = 4
    ErrorRetry = 2
    Retention = 6
    LastBan = 0
    Budgets <- OneEach
SPECIFICATION Spec
INVARIANT RouteDark
PROPERTIES BanDeletes LiftReleases
CHECK_DEADLOCK FALSE

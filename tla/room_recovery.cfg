CONSTANTS
    r1 = r1  r2 = r2  k1 = k1  k2 = k2  o1 = o1  o2 = o2
    None = None
    Room = {r1}
    Key = {k1, k2}
    Owner = {o1, o2}
    Sizes = {1}
    AppCaps = {2}
    RoomCap = 0
    KeyCap = 1
    RoomLimit = 0
    UserCap = 2
    MaxBudget = 2
    MaxMoves = 1
    MaxFaults = 1
    LateKinds = {"charge", "seed"}
SPECIFICATION FairSpec
INVARIANT OwnerCovers
PROPERTIES BudgetSettles RemovalReleases
CHECK_DEADLOCK FALSE

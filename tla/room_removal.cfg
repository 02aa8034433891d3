CONSTANTS
    r1 = r1  r2 = r2  k1 = k1  k2 = k2  o1 = o1  o2 = o2
    None = None
    Room = {r1}
    Key = {k1}
    Owner = {o1}
    Sizes = {1}
    AppCaps = {2}
    RoomCap = 0
    KeyCap = 0
    RoomLimit = 0
    UserCap = 2
    MaxBudget = 3
    MaxMoves = 0
    MaxFaults = 1
    LateKinds = {}
SPECIFICATION FairSpec
PROPERTY RemovalEnds
CHECK_DEADLOCK FALSE

CONSTANTS
    r1 = r1  r2 = r2  k1 = k1  k2 = k2  o1 = o1  o2 = o2
    None = None
    Room = {r1, r2}
    Key = {k1}
    Owner = {o1}
    Sizes = {1, 2}
    AppCaps = {3}
    RoomCap = 2
    KeyCap = 0
    RoomLimit = 2
    UserCap = 2
    MaxBudget = 2
    MaxMoves = 0
    MaxFaults = 1
    LateKinds = {"decide", "charge", "record"}
SPECIFICATION Spec
INVARIANTS EscrowExact CeilingsKept
SYMMETRY Symmetry
CHECK_DEADLOCK FALSE

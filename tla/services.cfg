CONSTANTS
    Movers = {"m1", "m2"}
    Keys = {1, 2, 3}
    PageLimit = 1
    MaxWrites = 1
    Clients = {"a", "b", "c"}
    RoomKeys = {"k"}
    RoomValues = {"v"}
    SocketCap = 2
    MaxSeq = 1
    MaxFrames = 1
    Subs = {"p"}
    Daily = {"daily"}
    OneShot = {"once"}
    Instant <- ItemInstants
    Day = 3
    MaxSubs = 1
    DailyCap = 1
    PushStale = 1
    PruneGrace = 1
    TestEvery = 2
    MaxLate = 2
    MaxClock = 6
    MaxStops = 1
    MaxEdits = 3
    Creds = {"c1", "c2"}
    HourlyCap = 2
    Hours = {0}
    MaxFaults = 1
    Size = 2
    MaxChunks = 2
    Links = {"l1", "l2"}
    Logins = {"g1", "g2"}
    Storages = {"a", "b"}
    Isolates = {"i", "j"}
    Attempts = 1
    Rooms = {"r"}
    Stamps = {"x", "y"}
    Requests = {"p", "q"}
    Every = 2
    Retention = 3
    PageMax = 1
    MaxInstant = 5
    Works <- FeedWorks
    KeysSeen = {"k1", "k2"}
    WordBits = 2
    Spellings <- Networks
    Lifetimes = {0, 2}
    DenyCap = 2
    KeyLimit = 1
    KeyWindow = 2
    LastInstant = 3
    Allowances <- GateWorks
    Uploads = {"u0", "u1", "u2"}
    Files = {"a", "b"}
    Packed = {"b"}
    ObjectSize <- ObjectSizes
    FirstUpload = "u0"
    FirstFiles = {"a", "b"}
    Twice = {"b"}
    MaxSlips = 1
    Hosts = {"h"}
    Calls = {"x", "y", "z"}
    RepurgeDelay = 2
    LastTick = 5
SPECIFICATION ServicesSpec
INVARIANTS  PushOnce TurnTracked StoredWhole PodBound FeedComplete  ReuseExact PurgedAgain
PROPERTIES MoveIsWhole PushFires TurnRevoked ClientServed
CHECK_DEADLOCK FALSE

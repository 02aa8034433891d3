SPECIFICATION FrontEndsSpec
CONSTANTS
    Uploads = {"u1", "u2", "u3"}
    OwnerOf <- OneOwner
    Size <- Sizes
    Slots = 2
    Width = 1
    Budget = 2
    Mixes <- Works
    Docs <- ThreeDocs
    Panels = {"dir"}
    Root = "root"
    RootDoc = "a"
    DocSize <- DocSizes
    MaxFiles = 2
    MaxBytes = 3
    Every = 2
    Queries = {"q"}
    Readings <- Sittings
    Creates = {"c1", "c2", "c3", "c4"}
    SubnetOf <- TwoNetworks
    PerSubnet = 1
    PerApp = 2
    Window = 3
    RoomLimit = 2
    Together = 2
    MaxFlight = 1
    MaxInstant = 3
INVARIANTS GatesHold BytesFollowRows LastAskedShown IndexFaithful CreationLimits
PROPERTIES  WalkEnds
CHECK_DEADLOCK FALSE

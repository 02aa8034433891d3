SPECIFICATION Spec
CONSTANTS
    Uploads = {"u1", "u2", "u3"}
    OwnerOf <- OneOwner
    Size <- Sizes
    Slots = 2
    Width = 1
    Budget = 2
    Mixes <- Works
INVARIANTS FailureShown
CHECK_DEADLOCK FALSE

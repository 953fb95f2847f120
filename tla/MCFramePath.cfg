SPECIFICATION PathSpec
CONSTANTS
    low = low
    verylow = verylow
    medium = medium
    Profiles <- MCProfiles
    KindOf <- MCKindOf
    Parts <- MCParts
    SizeOf <- MCSizeOf
    Mdu = 3
    Batch = 2
    Capacity = 2
    Policies = {"DropOldest", "DropNewest"}
    MaxFrames = 3
    MaxFlight = 2
    MaxUnderruns = 1
    None = None
SYMMETRY Codec2Symmetry
INVARIANTS
    FrameLedger
    CodecsInStep
CHECK_DEADLOCK FALSE

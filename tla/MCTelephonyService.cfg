CONSTANTS
    l1 = l1
    l2 = l2
    alice = alice
    medium = medium
    low = low
    Links <- MCLinks
    Identities <- OneCaller
    Profiles <- MCProfiles
    DefaultProfile = medium
    NoProfile = NoProfile
    NoCall = NoCall
    None = None
    Payloads <- MCPayloads
    Dials <- MCDials
    MaxTasks = 2
    Patience = 1
    Disorders = {"batch"}
SPECIFICATION FairSpec
INVARIANTS
    CallsTold
    EveryCallTimed
    DialLedger
    LoopAgrees
PROPERTIES
    SetupEnds
CHECK_DEADLOCK FALSE

CONSTANTS
    l1 = l1
    l2 = l2
    alice = alice
    medium = medium
    low = low
    Links <- MCLinks
    Identities <- OneCaller
    Profiles <- MCProfiles
    DefaultProfile = medium
    NoProfile = NoProfile
    NoCall = NoCall
    None = None
    Payloads <- MCPayloads
    Dials <- OneDial
    MaxTasks = 1
    Patience = 1
    Disorders = {"dispatch", "promote", "batch", "control", "drive", "stray", "again", "audio", "encode", "drop"}
SYMMETRY LinkSymmetry
SPECIFICATION Spec
INVARIANTS
    AnsweredMeansOffered
    NoCrossTalk
CHECK_DEADLOCK FALSE

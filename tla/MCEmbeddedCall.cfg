CONSTANTS
    medium = medium
    low = low
    verylow = verylow
    Profiles <- MCProfiles
    DefaultProfile = medium
    NoProfile = NoProfile
    SetupTime = 2
    RingTime = 2
    AnswerTime = 5
    ProfileTime = 2
    TalkLimit = 2
    RetryTime = 1
    Generations = 4
    NotEnded = NotEnded
    Roles <- MCRoles
    Configs <- MCConfigs
    MaxJobs = 2
SPECIFICATION FairSpec
INVARIANTS
    MicNeedsAuthority
    DeviceAgrees
PROPERTIES
    FreshPressOnly
    SessionResolves

CONSTANTS
    medium = medium
    low = low
    verylow = verylow
    Profiles <- MCProfiles
    DefaultProfile = medium
    NoProfile = NoProfile
    SetupTime = 1
    RingTime = 1
    AnswerTime = 3
    ProfileTime = 1
    TalkLimit = 1
    RetryTime = 1
    Generations = 3
    NotEnded = NotEnded
    Callers <- MCDevices
    Callees <- MCCallees
    HostOffers <- MCOffers
SPECIFICATION PairFairSpec
INVARIANTS
    OffersMeet
PROPERTIES
    NoEchoLoop

CONSTANTS
    link = link
    alice = alice
    medium = medium
    low = low
    callerId = alice
    Links <- MCLinks
    Identities <- MCIdentities
    Profiles <- MCProfiles
    DefaultProfile = medium
    NoProfile = NoProfile
    NoCall = NoCall
    Policies <- MCPolicies
    Intents <- MCIntents
SPECIFICATION Spec
INVARIANTS
    TalkIsMutual
    SwitchAgreement
PROPERTIES
    NoOneSidedCall
    NobodyWaitsForever
    RetryRecovers
CHECK_DEADLOCK FALSE

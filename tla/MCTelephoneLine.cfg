CONSTANTS
    l1 = l1
    l2 = l2
    l3 = l3
    alice = alice
    mallory = mallory
    medium = medium
    low = low
    Links <- MCLinks
    Identities <- MCIdentities
    Profiles <- MCProfiles
    DefaultProfile = medium
    NoProfile = NoProfile
    NoCall = NoCall
    Policies <- MCPolicies
    Payloads <- MCPayloads
SYMMETRY LinkSymmetry
SPECIFICATION Spec
INVARIANTS
    LedgerExact
    AudioFollowsCall
    NoOrphanLink
    ActiveCallHears
PROPERTIES
    StatusNeverRegresses
    PromiseKept

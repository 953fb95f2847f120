SPECIFICATION Spec
CONSTANTS
    Outgoing = {o1}
    Incoming = {i1}
    Cap = 3
    MaxMail = 2
    MaxSends = 1
    None = None
INVARIANTS
    NothingForgotten
    NoDeafCall
PROPERTIES
    ImplementsLinkLife
    Released
CHECK_DEADLOCK FALSE

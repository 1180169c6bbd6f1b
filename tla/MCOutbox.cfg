\* Two relays with batches of their own, every fault.
SPECIFICATION FairSpec
CONSTANTS
    Rows = {x1, x2}
    Relays = {k1, k2}
    ConnectionBreaks = TRUE
    None = None
    MaxFaults = 2
INVARIANTS
    TypeOK
    SentWasPublished
    CopiesBounded
PROPERTIES
    EveryRowMarked
    ImplementsAtLeastOnce

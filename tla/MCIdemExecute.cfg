\* Three requests racing for one key, with two payloads.
SPECIFICATION FairSpec
CONSTANTS
    Keys = {k1}
    Fingerprints = {f1, f2}
    Requests = {r1, r2, r3}
    Lease = 1
    None = None
INVARIANTS
    CompletedIffApplied
    AtMostOneEffect
    AnswersAreDurable
PROPERTIES
    CompletedIsFinal
    EveryRequestEnds
    ImplementsExactlyOnce
CHECK_DEADLOCK FALSE

\* Two requests with one key or two, funds for one, one relay, one worker.
SPECIFICATION NamedSpec
CONSTANTS
    Keys = {k1, k2}
    Fingerprints = {f1}
    Requests = {r1, r2}
    FirstRequest = r1
    FirstKey = k1
    Lease = 1
    None = None
    Relays = {relay}
    ConnectionBreaks = FALSE
    Workers = {worker}
    Count = 10
    MaxEntries = 4
    Account = account
    Amount <- AmountTwo
    Funds = 2
    MaxFaults = 1
INVARIANTS
    OnePayoutPerKey
    LockHasIntent
    RefundedWasNotSent
PROPERTY EveryAcceptedEnds
CHECK_DEADLOCK FALSE

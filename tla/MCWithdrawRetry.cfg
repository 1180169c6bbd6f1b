\* Two requests with one key or two, funds for one; nothing fails.
SPECIFICATION NamedSpec
CONSTANTS
    Keys = {k1, k2}
    Fingerprints = {f1}
    Requests = {r1, r2}
    FirstRequest = r1
    FirstKey = k1
    Lease = 1
    None = None
    Relays = {relay}
    ConnectionBreaks = FALSE
    Workers = {worker}
    Count = 10
    MaxEntries = 2
    Account = account
    Amount <- AmountTwo
    Funds = 2
    MaxFaults = 0
PROPERTY RetryIsReplayed
CHECK_DEADLOCK FALSE

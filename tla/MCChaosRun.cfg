\* Fourteen crash points, four schedules, two takeover runs.
SPECIFICATION FairRunSpec
CONSTANTS
    Keys = {k1, k2, k3}
    Fingerprints = {f1}
    Requests = {"post1", "post2", "post3"}
    Lease = 1
    None = None
    Relays = {"relay"}
    ConnectionBreaks = FALSE
    Workers = {"worker1", "worker2"}
    Count = 10
    MaxEntries = 4
    Account = "account"
    Each = 2
    Amount <- AmountEach
    Funds = 4
    MaxFaults = 10
    Processors = {"processor1", "processor2"}
    Api = "api"
    OnlyOrder = "order"
    OnlyDeposit = "deposit"
    First = "post1"
    Posts <- PostOrder
INVARIANTS
    AlarmIsReal
    PassIsEarned
PROPERTY EveryRunEnds
CHECK_DEADLOCK FALSE

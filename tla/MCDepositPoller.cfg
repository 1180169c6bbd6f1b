\* Bursts of up to two pages and one, while the poller pages, dies and is misled.
SPECIFICATION FairSpec
CONSTANTS
    PageLimit = 2
    MaxTxs = 5
    MaxFaults = 2
INVARIANTS
    TypeOK
    CheckpointCovers
    CopiesBounded
PROPERTY EveryDepositAdded

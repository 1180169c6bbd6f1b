\* The consumer loop alone, with one crash.
SPECIFICATION FairSpec
CONSTANTS
    Withdrawals = {w1}
    Accounts = {"account"}
    AccountOf <- OneAccount
    Amount <- AmountTwo
    Funds <- FundsAmple
    Workers = {k1}
    Count = 10
    OrphansArrive = FALSE
    GarbledAnswers = FALSE
    Redelivery = FALSE
    MaxFaults = 1
    MaxCopies = 1
    MaxEntries = 1
PROPERTY EveryPayoutEnds

\* Two workers and a republished entry, nothing failing.
SPECIFICATION Spec
CONSTANTS
    Withdrawals = {w1}
    Accounts = {"account"}
    AccountOf <- OneAccount
    Amount <- AmountTwo
    Funds <- FundsAmple
    Workers = {k1, k2}
    Count = 10
    OrphansArrive = FALSE
    GarbledAnswers = FALSE
    Redelivery = FALSE
    MaxFaults = 0
    MaxCopies = 2
    MaxEntries = 2
INVARIANT AtMostOneSend

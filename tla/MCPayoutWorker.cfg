\* Two workers, two withdrawals of either sign, every fault: what holds whatever
\* interleaves.
SPECIFICATION Spec
CONSTANTS
    Withdrawals = {w1, w2}
    Accounts = {"account"}
    AccountOf <- OneAccount
    Amount <- AmountMixed
    Funds <- FundsScarce
    Workers = {k1, k2}
    Count = 10
    OrphansArrive = TRUE
    GarbledAnswers = TRUE
    Redelivery = TRUE
    MaxFaults = 1
    MaxCopies = 2
    MaxEntries = 4
SYMMETRY SymmetryMixed
INVARIANTS
    TypeOK
    NotForgotten
    CompletedWasSent
    SentWasAdvanced
    LockedBacksOpen
    OverdraftIsClawback
    Conservation
PROPERTIES
    TerminalIsFinal

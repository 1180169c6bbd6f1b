\* Every damage the reconciler's tests seed, and none, with the services running.
SPECIFICATION Spec
CONSTANTS
    Accounts = {"account"}
    Apps = {"app1", "app2"}
    OwnerOf <- OneOwner
    Orders = {"order1", "order2"}
    AppOf <- AppOfOrder
    Deposits = {"deposit1", "deposit2"}
    OrderOf <- OrderOfDeposit
    Withdrawals = {"payout1", "payout2"}
    AccountOf <- OneAccount
    Worth <- Amounts
    Seeded = "deposit1"
    Holdings <- Seeds
INVARIANT StuckWasProcessing
PROPERTIES
    ImbalanceHasCause
    OrphanHasCause

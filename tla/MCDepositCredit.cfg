\* Two processors, two deposits of one order, a quote call that may span their
\* crediting, every fault, entries added twice by the poller or put back.
SPECIFICATION FairSpec
CONSTANTS
    Orders = {"order"}
    Merchants = {"merchant"}
    MerchantOf <- OneMerchant
    Mints = {"sol", "usdc"}
    Sol = "sol"
    NoMint = ""
    Tolerance = 1
    Deposits = {"token", "lamports"}
    MemoOf <- Memos
    Paid <- Transfers
    Offers <- Quotes
    QuoteAtFirst <- QuotedInUsdc
    Quoters = {q1}
    Overlap = TRUE
    Processors = {k1, k2}
    Count = 10
    Redelivery = TRUE
    None = None
    MaxFaults = 1
    MaxCopies = 2
    MaxEntries = 3
INVARIANTS
    TypeOK
    BalanceIsDeposits
    AckedIsSettled
    PaidByItsDeposit
    TokenCreditWasQuoted
    PaidOrOverwritten
PROPERTY EveryDepositSettles

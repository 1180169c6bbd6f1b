\* A SOL deposit for an order quoted in SOL.
SPECIFICATION Spec
CONSTANTS
    Orders = {"order"}
    Merchants = {"merchant"}
    MerchantOf <- OneMerchant
    Mints = {"sol", "usdc"}
    Sol = "sol"
    NoMint = ""
    Tolerance = 1
    Deposits = {"lamports"}
    MemoOf <- Memos
    Paid <- Transfers
    Offers <- Quotes
    QuoteAtFirst <- QuotedInSol
    Quoters = {}
    Overlap = FALSE
    Processors = {k1}
    Count = 10
    Redelivery = FALSE
    None = None
    MaxFaults = 0
    MaxCopies = 1
    MaxEntries = 1
INVARIANT CreditGoesToQuotedMint

-------------------------- MODULE MCDepositCredit --------------------------
(* Instances of DepositCredit for TLC: one merchant, one order, quoted in a  *)
(* token or in SOL, and deposits that do and do not pay the quote.           *)
EXTENDS DepositCredit

OneMerchant == [o \in Orders |-> "merchant"]

Memos == [d \in Deposits |-> "order"]

\* "token" pays the second quote in the token, "lamports" is a SOL deposit within
\* the tolerance of the numbers quoted.
Transfers ==
    [d \in Deposits |->
       IF d = "lamports" THEN [mint |-> "sol", amount |-> 3]
                         ELSE [mint |-> "usdc", amount |-> 2]]

InUsdc(n) == [mint |-> "usdc", amount |-> n]
InSol(n) == [mint |-> "sol", amount |-> n]
Quotes == {InUsdc(3), InUsdc(2), InSol(4)}

QuotedInUsdc == [o \in Orders |-> InUsdc(3)]
QuotedInSol == [o \in Orders |-> InSol(4)]
=============================================================================

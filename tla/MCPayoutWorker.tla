--------------------------- MODULE MCPayoutWorker ---------------------------
(* Instances of PayoutWorker for TLC. *)
EXTENDS PayoutWorker, TLC

\* One account that can cover all of its withdrawals.
OneAccount == [w \in Withdrawals |-> "account"]
AmountTwo == [w \in Withdrawals |-> 2]
FundsAmple == [a \in Accounts |-> 4]

Symmetry == Permutations(Withdrawals) \cup Permutations(Workers)

\* A negative withdrawal beside a positive one that only its credit covers: if
\* the first is refunded after the second was made, the account is overdrawn.
OneOfThem == CHOOSE w \in Withdrawals : TRUE
AmountMixed == [w \in Withdrawals |-> IF w = OneOfThem THEN -1 ELSE 2]
FundsScarce == [a \in Accounts |-> 1]

SymmetryMixed == Permutations(Workers)
=============================================================================

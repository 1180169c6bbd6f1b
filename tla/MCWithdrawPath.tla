--------------------------- MODULE MCWithdrawPath ---------------------------
(* Instances of WithdrawPath for TLC.  The keys are interchangeable: of the  *)
(* ways to name them, the one in which this request carries this key.        *)
EXTENDS WithdrawPath

AmountTwo == [r \in Requests |-> 2]

CONSTANTS FirstRequest, FirstKey

NamedInit == Init /\ KeyOf(FirstRequest) = FirstKey

NamedSpec == NamedInit /\ [][Next]_vars /\ Fairness
=============================================================================

----------------------------- MODULE MCReconcile -----------------------------
(* Instances of Reconcile for TLC: one account, a deposit that is there and   *)
(* one that arrives under an order and an app of its own, two withdrawals.    *)
EXTENDS Reconcile

OneOwner == [p \in Apps |-> "account"]
AppOfOrder == [o \in Orders |-> IF o = "order1" THEN "app1" ELSE "app2"]
OrderOfDeposit == [d \in Deposits |-> IF d = "deposit1" THEN "order1" ELSE "order2"]
OneAccount == [w \in Withdrawals |-> "account"]
Amounts == [x \in Deposits \cup Withdrawals |-> IF x \in {"deposit1", "payout2"} THEN 2 ELSE 1]

\* Sound, not credited, credited twice, locked for nothing.
Seeds == {[available |-> 2, locked |-> 0], [available |-> 0, locked |-> 0],
          [available |-> 4, locked |-> 0], [available |-> 0, locked |-> 2]}
=============================================================================

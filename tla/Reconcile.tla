------------------------------ MODULE Reconcile ------------------------------
(***************************************************************************)
(* The reconciler (store/src/reconcile.rs, reconciler/src/main.rs) over the *)
(* live tables: it reads apps, orders, deposits, withdrawals, balances and  *)
(* the outbox, each in a statement of its own and in no transaction, while  *)
(* the services commit theirs (store/src/models/api.rs).                    *)
(*                                                                          *)
(* One action is one transaction of a service or one statement of the       *)
(* reconciler.  Timestamps are kept as what the report asks of them: does   *)
(* one lie before the cutoff the report computed when it began?             *)
(***************************************************************************)
EXTENDS Integers, FiniteSets, FiniteSetsExt

CONSTANTS
    Accounts,       \* pairs of a merchant and a token
    Apps, OwnerOf,  \* an app belongs to a merchant
    Orders, AppOf,
    Deposits, OrderOf,
    Withdrawals, AccountOf,
    Worth,          \* the amount of a deposit or a withdrawal
    Seeded,         \* the one deposit recorded at first, its order and app with it
    Holdings        \* what its account may hold then: [available, locked]

ASSUME ConstantsAssumption ==
    /\ OwnerOf \in [Apps -> Accounts]
    /\ AppOf \in [Orders -> Apps]
    /\ OrderOf \in [Deposits -> Orders]
    /\ AccountOf \in [Withdrawals -> Accounts]
    /\ Worth \in [Deposits \cup Withdrawals -> Nat \ {0}]
    /\ Seeded \in Deposits
    /\ Holdings \subseteq [available : Nat, locked : Nat]

VARIABLES
    apps, orders, deposits,     \* the rows there are
    status,                     \* withdrawals
    available, locked,          \* balances
    unsent,                     \* withdrawals whose outbox row is unsent
    agedUpdate, agedIntent,     \* withdrawals whose updated_at, and whose outbox
                                \* row, is older than the running report's cutoff
    pc,                         \* the table the report reads next
    seen,                       \* what it has read
    report                      \* what it has found

ledger == <<apps, orders, deposits, status, available, locked, unsent>>
clocks == <<agedUpdate, agedIntent>>
reader == <<pc, seen, report>>
vars == <<ledger, clocks, reader>>

Open == {"pending", "processing"}

MerchantOf(d) == OwnerOf[AppOf[OrderOf[d]]]

Total(S) == MapThenSumSet(LAMBDA x : Worth[x], S)

NothingSeen == [apps |-> {}, orders |-> {}, deposits |-> {}, processing |-> {},
                status |-> [w \in Withdrawals |-> "none"]]

NoDrift == [imbalance |-> {}, stuck |-> {}, orphans |-> {}, aged |-> {}]

\* A sound start, or one of the damages the reconciler is there to find: a
\* deposit not credited or credited twice, funds locked for no withdrawal.
Init ==
    /\ deposits = {Seeded}
    /\ orders = {OrderOf[Seeded]}
    /\ apps = {AppOf[OrderOf[Seeded]]}
    /\ status = [w \in Withdrawals |-> "none"]
    /\ \E h \in Holdings :
          /\ available = [a \in Accounts |-> IF a = MerchantOf(Seeded) THEN h.available ELSE 0]
          /\ locked = [a \in Accounts |-> IF a = MerchantOf(Seeded) THEN h.locked ELSE 0]
    /\ unsent = {} /\ agedUpdate = {} /\ agedIntent = {}
    /\ pc = "apps" /\ seen = NothingSeen /\ report = NoDrift

----------------------------------------------------------------------------
(* The services' transactions *)

InsertApp(p) ==
    /\ apps' = apps \cup {p}
    /\ UNCHANGED <<orders, deposits, status, available, locked, unsent, clocks, reader>>

InsertOrder(o) ==
    /\ AppOf[o] \in apps
    /\ orders' = orders \cup {o}
    /\ UNCHANGED <<apps, deposits, status, available, locked, unsent, clocks, reader>>

\* insert_deposit_on_conflict and upsert_balance
Credit(d) ==
    /\ OrderOf[d] \in orders /\ d \notin deposits
    /\ deposits' = deposits \cup {d}
    /\ available' = [available EXCEPT ![MerchantOf(d)] = @ + Worth[d]]
    /\ UNCHANGED <<apps, orders, status, locked, unsent, clocks, reader>>

\* create_withdrawal_and_lock and insert_outbox
CreateWithdrawal(w) ==
    LET a == AccountOf[w] IN
    /\ status[w] = "none"
    /\ available[a] >= Worth[w]
    /\ status' = [status EXCEPT ![w] = "pending"]
    /\ available' = [available EXCEPT ![a] = @ - Worth[w]]
    /\ locked' = [locked EXCEPT ![a] = @ + Worth[w]]
    /\ unsent' = unsent \cup {w}
    /\ UNCHANGED <<apps, orders, deposits, clocks, reader>>

\* What every change of a withdrawal's status does: updated_at is now.
\* (TouchNothing leaves it as it is.)
TouchNothing(w) == UNCHANGED clocks
Touch(w) == agedUpdate' = agedUpdate \ {w} /\ UNCHANGED agedIntent

SetProcessing(w) ==
    /\ status[w] = "pending"
    /\ status' = [status EXCEPT ![w] = "processing"]
    /\ Touch(w)
    /\ UNCHANGED <<apps, orders, deposits, available, locked, unsent, reader>>

FinalizeSuccess(w) ==
    /\ status[w] = "processing"
    /\ status' = [status EXCEPT ![w] = "completed"]
    /\ locked' = [locked EXCEPT ![AccountOf[w]] = @ - Worth[w]]
    /\ Touch(w)
    /\ UNCHANGED <<apps, orders, deposits, available, unsent, reader>>

FinalizeFailed(w) ==
    LET a == AccountOf[w] IN
    /\ status[w] = "processing"
    /\ status' = [status EXCEPT ![w] = "failed"]
    /\ locked' = [locked EXCEPT ![a] = @ - Worth[w]]
    /\ available' = [available EXCEPT ![a] = @ + Worth[w]]
    /\ Touch(w)
    /\ UNCHANGED <<apps, orders, deposits, unsent, reader>>

MarkSent(w) ==
    /\ w \in unsent
    /\ unsent' = unsent \ {w}
    /\ UNCHANGED <<apps, orders, deposits, status, available, locked, clocks, reader>>

----------------------------------------------------------------------------
(* The report *)

Reading(table, next) == pc = table /\ pc' = next

\* A run begins: now is taken, and with it the cutoffs; the apps are read.
\* Any row there is may have grown old since the last run.
ReadApps ==
    /\ Reading("apps", "orders")
    /\ \E S \in SUBSET {w \in Withdrawals : status[w] # "none"} : agedUpdate' = agedUpdate \cup S
    /\ \E S \in SUBSET unsent : agedIntent' = agedIntent \cup S
    /\ seen' = [NothingSeen EXCEPT
                  !.apps = apps,
                  !.processing = {w \in Withdrawals : status[w] = "processing"}]
    /\ report' = NoDrift
    /\ UNCHANGED ledger

ReadOrders ==
    /\ Reading("orders", "deposits")
    /\ seen' = [seen EXCEPT !.orders = orders]
    /\ UNCHANGED <<ledger, clocks, report>>

ReadDeposits ==
    /\ Reading("deposits", "withdrawals")
    /\ seen' = [seen EXCEPT !.deposits = deposits]
    /\ UNCHANGED <<ledger, clocks, report>>

ReadWithdrawals ==
    /\ Reading("withdrawals", "balances")
    /\ seen' = [seen EXCEPT !.status = status]
    /\ report' = [report EXCEPT
                    !.stuck = {w \in agedUpdate : status[w] = "processing"}]
    /\ UNCHANGED <<ledger, clocks>>

\* A deposit counts for the merchant that its order and app, as read, lead to.
Attributed(d) == OrderOf[d] \in seen.orders /\ AppOf[OrderOf[d]] \in seen.apps

Confirmed(a) == Total({d \in seen.deposits : Attributed(d) /\ MerchantOf(d) = a})

\* (OutForgotten leaves the completed withdrawals out.)
OutForgotten(a, st) == {}
CompletedOut(a, st) == {w \in Withdrawals : AccountOf[w] = a /\ st[w] = "completed"}

\* (PendingOnly takes a processing withdrawal for one that released its lock.)
PendingOnly(a, st) == {w \in Withdrawals : AccountOf[w] = a /\ st[w] = "pending"}
ActiveLocked(a, st) == {w \in Withdrawals : AccountOf[w] = a /\ st[w] \in Open}

Held(a) == available[a] + locked[a]

ReadBalances ==
    /\ Reading("balances", "outbox")
    /\ report' = [report EXCEPT
          !.imbalance = {a \in Accounts :
                            Confirmed(a) # Held(a) + Total(CompletedOut(a, seen.status))},
          !.orphans = {a \in Accounts : locked[a] > Total(ActiveLocked(a, seen.status))}]
    /\ UNCHANGED <<ledger, clocks, seen>>

ReadOutbox ==
    /\ Reading("outbox", "exit")
    /\ report' = [report EXCEPT !.aged = unsent \cap agedIntent]
    /\ UNCHANGED <<ledger, clocks, seen>>

\* The process ends, with code 1 if there is drift, and is run again some time.
Exit ==
    /\ Reading("exit", "apps")
    /\ UNCHANGED <<ledger, clocks, seen, report>>

\* A statement fails: no report.
ReportFails ==
    /\ Reading(pc, "apps")
    /\ pc # "exit"
    /\ UNCHANGED <<ledger, clocks, seen, report>>

Service ==
    \/ \E p \in Apps : InsertApp(p)
    \/ \E o \in Orders : InsertOrder(o)
    \/ \E d \in Deposits : Credit(d)
    \/ \E w \in Withdrawals :
          \/ CreateWithdrawal(w) \/ SetProcessing(w) \/ MarkSent(w)
          \/ FinalizeSuccess(w) \/ FinalizeFailed(w)

Reconciler ==
    \/ ReadApps \/ ReadOrders \/ ReadDeposits \/ ReadWithdrawals
    \/ ReadBalances \/ ReadOutbox \/ Exit \/ ReportFails

Next == Service \/ Reconciler

Spec == Init /\ [][Next]_vars

----------------------------------------------------------------------------
(* Properties *)

\* What the tables themselves say, read in one moment.
Recorded(a) == Total({d \in deposits : MerchantOf(d) = a})
PaidOut(a) == Total({w \in Withdrawals : AccountOf[w] = a /\ status[w] = "completed"})
Due(a) == Total({w \in Withdrawals : AccountOf[w] = a /\ status[w] \in Open})

Unbalanced(a) == Recorded(a) # Held(a) + PaidOut(a)

\* The same money as at the time of the other reads: every deposit of the
\* account was read, and led to it; no withdrawal of it was paid out since.
CreditsWereSeen(a) ==
    \A d \in deposits : MerchantOf(d) = a => d \in seen.deposits /\ Attributed(d)

PayoutsWereSeen(a) ==
    \A w \in Withdrawals :
       AccountOf[w] = a /\ status[w] = "completed" => seen.status[w] = "completed"

\* "A clean system yields all-empty vectors" (reconcile.rs), as far as it is so
\* while the services run: the reported balance of an account is right, alarm or
\* not, unless a deposit was credited, its order or app created, or a withdrawal
\* completed behind the reader's back.  Creating, advancing and refunding
\* withdrawals meanwhile mislead it of nothing.
ImbalanceHasCause ==
    [][ReadBalances =>
         \A a \in Accounts :
            CreditsWereSeen(a) /\ PayoutsWereSeen(a) =>
               (a \in report'.imbalance <=> Unbalanced(a))]_vars

\* An orphan lock is reported of a sound account only if a withdrawal was created
\* after the withdrawals were read, and one is missed only if a withdrawal has
\* released its lock since.
OrphanHasCause ==
    [][ReadBalances =>
         \A a \in Accounts :
            LET of == {w \in Withdrawals : AccountOf[w] = a} IN
            /\ a \in report'.orphans /\ locked[a] <= Due(a) =>
                 \E w \in of : seen.status[w] = "none" /\ status[w] # "none"
            /\ locked[a] > Due(a) /\ a \notin report'.orphans =>
                 \E w \in of : seen.status[w] \in Open /\ status[w] \notin Open]_vars

\* "Withdrawals stuck in processing past the deadline" (reconcile.rs): one that
\* is reported was processing when the run began, however long it had been
\* pending before.
StuckWasProcessing ==
    pc # "apps" => report.stuck \subseteq seen.processing
=============================================================================

--------------------------- MODULE ReconcileProofs ---------------------------
(***************************************************************************)
(* The reconciler over live tables, for any number of rows and whatever the *)
(* services commit between two of its reads: what it reports as stuck was   *)
(* processing when the run began, and a balance it reports wrongly has a    *)
(* commit behind its back for a cause.                                      *)
(***************************************************************************)
EXTENDS Reconcile, SetLemmas, FiniteSetTheorems, TLAPS

Statuses == {"none", "pending", "processing", "completed", "failed"}

RowsOK ==
    /\ apps \in SUBSET Apps /\ orders \in SUBSET Orders /\ deposits \in SUBSET Deposits
    /\ status \in [Withdrawals -> Statuses] /\ locked \in [Accounts -> Int]
    /\ unsent \in SUBSET Withdrawals /\ agedUpdate \in SUBSET Withdrawals

ReaderOK ==
    /\ seen \in [apps : SUBSET Apps, orders : SUBSET Orders, deposits : SUBSET Deposits,
                 processing : SUBSET Withdrawals, status : [Withdrawals -> Statuses]]
    /\ report \in [imbalance : SUBSET Accounts, stuck : SUBSET Withdrawals,
                   orphans : SUBSET Accounts, aged : SUBSET Withdrawals]

\* What was read of the deposits and of the ended withdrawals stays true.
SeenIsPast ==
    /\ seen.deposits \subseteq deposits
    /\ \A w \in Withdrawals :
          seen.status[w] \in {"completed", "failed"} => status[w] = seen.status[w]

\* There are finitely many rows of withdrawals, and were when they were read.
FewRows ==
    /\ IsFiniteSet({w \in Withdrawals : status[w] # "none"})
    /\ \A w \in Withdrawals : seen.status[w] # "none" => status[w] # "none"

\* Whoever began to process after the run did is not old enough to be reported.
Fresh ==
    pc # "apps" =>
       \A w \in agedUpdate : status[w] = "processing" => w \in seen.processing

IInv == RowsOK /\ ReaderOK /\ SeenIsPast /\ FewRows /\ Fresh /\ StuckWasProcessing

LEMMA InvInit == Init => IInv
<1> SUFFICES ASSUME Init PROVE IInv
  OBVIOUS
<1>1. RowsOK
  <2>1. locked \in [Accounts -> Int]
    BY ConstantsAssumption DEF Init
  <2> QED BY <2>1, ConstantsAssumption DEF Init, RowsOK, Statuses
<1>2. ReaderOK
  BY DEF Init, NothingSeen, NoDrift, ReaderOK, Statuses
<1>3. SeenIsPast /\ Fresh /\ StuckWasProcessing
  BY DEF Init, NothingSeen, NoDrift, SeenIsPast, Fresh, StuckWasProcessing
<1>4. FewRows
  <2>1. {w \in Withdrawals : status[w] # "none"} = {}
    BY DEF Init
  <2> QED BY <2>1, FS_EmptySet DEF Init, NothingSeen, FewRows
<1> QED BY <1>1, <1>2, <1>3, <1>4 DEF IInv

\* A service's transaction adds rows, or moves one withdrawal that is not
\* completed, and takes it from the old ones.
LEMMA ServiceMoves ==
    ASSUME RowsOK, Service
    PROVE  /\ RowsOK' /\ UNCHANGED reader
           /\ deposits \subseteq deposits'
           /\ \A w \in Withdrawals : status[w] \in {"completed", "failed"} => status'[w] = status[w]
           /\ \A w \in agedUpdate' :
                 \/ w \in agedUpdate /\ status'[w] = status[w]
                 \/ status'[w] # "processing"
<1>1. ASSUME NEW p \in Apps, InsertApp(p)
      PROVE  RowsOK' /\ UNCHANGED <<reader, deposits, status, agedUpdate>>
  BY <1>1 DEF InsertApp, RowsOK, clocks
<1>2. ASSUME NEW o \in Orders, InsertOrder(o)
      PROVE  RowsOK' /\ UNCHANGED <<reader, deposits, status, agedUpdate>>
  BY <1>2 DEF InsertOrder, RowsOK, clocks
<1>3. ASSUME NEW d \in Deposits, Credit(d)
      PROVE  RowsOK' /\ deposits \subseteq deposits' /\ UNCHANGED <<reader, status, agedUpdate>>
  BY <1>3 DEF Credit, RowsOK, clocks
<1>4. ASSUME NEW w \in Withdrawals, MarkSent(w)
      PROVE  RowsOK' /\ UNCHANGED <<reader, deposits, status, agedUpdate>>
  BY <1>4 DEF MarkSent, RowsOK, clocks
<1>5. ASSUME NEW w \in Withdrawals, CreateWithdrawal(w)
      PROVE  /\ RowsOK' /\ UNCHANGED <<reader, deposits, agedUpdate>>
             /\ status[w] = "none" /\ status' = [status EXCEPT ![w] = "pending"]
  <2>1. AccountOf[w] \in Accounts /\ Worth[w] \in Int
    BY ConstantsAssumption
  <2>2. locked' \in [Accounts -> Int]
    BY <1>5, <2>1 DEF CreateWithdrawal, RowsOK
  <2> QED BY <1>5, <2>2 DEF CreateWithdrawal, RowsOK, Statuses, clocks
<1>6. ASSUME NEW w \in Withdrawals, SetProcessing(w) \/ FinalizeSuccess(w) \/ FinalizeFailed(w)
      PROVE  /\ RowsOK' /\ UNCHANGED <<reader, deposits>>
             /\ agedUpdate' = agedUpdate \ {w} /\ status[w] \in Open
             /\ \A v \in Withdrawals \ {w} : status'[v] = status[v]
  <2>1. AccountOf[w] \in Accounts /\ Worth[w] \in Int
    BY ConstantsAssumption
  <2>2. locked' \in [Accounts -> Int]
    BY <1>6, <2>1 DEF SetProcessing, FinalizeSuccess, FinalizeFailed, RowsOK
  <2> QED BY <1>6, <2>2 DEF SetProcessing, FinalizeSuccess, FinalizeFailed, Touch, RowsOK, Statuses, Open
<1> QED BY <1>1, <1>2, <1>3, <1>4, <1>5, <1>6 DEF Service, RowsOK, Open

\* It moves rows that are there, or inserts one.
LEMMA ServiceInserts ==
    ASSUME RowsOK, Service
    PROVE  /\ \A w \in Withdrawals : status[w] # "none" => status'[w] # "none"
           /\ \E v : {w \in Withdrawals : status'[w] # "none"}
                        \subseteq {w \in Withdrawals : status[w] # "none"} \cup {v}
<1>1. ASSUME NEW v \in Withdrawals,
             CreateWithdrawal(v) \/ SetProcessing(v) \/ FinalizeSuccess(v) \/ FinalizeFailed(v)
      PROVE  status'[v] # "none" /\ \A w \in Withdrawals \ {v} : status'[w] = status[w]
  BY <1>1 DEF CreateWithdrawal, SetProcessing, FinalizeSuccess, FinalizeFailed, RowsOK, Statuses
<1>2. ASSUME ~\E v \in Withdrawals :
                CreateWithdrawal(v) \/ SetProcessing(v) \/ FinalizeSuccess(v) \/ FinalizeFailed(v)
      PROVE  status' = status
  BY <1>2 DEF Service, InsertApp, InsertOrder, Credit, MarkSent
<1> QED BY <1>1, <1>2

LEMMA ServiceKeeps ==
    ASSUME IInv, Service
    PROVE  IInv'
<1>1. RowsOK /\ ReaderOK /\ SeenIsPast /\ FewRows /\ Fresh /\ StuckWasProcessing
  BY DEF IInv
<1>2. RowsOK' /\ UNCHANGED <<pc, seen, report>>
  BY <1>1, ServiceMoves DEF reader
<1>3. ReaderOK' /\ StuckWasProcessing'
  BY <1>1, <1>2 DEF ReaderOK, StuckWasProcessing
<1>4. SeenIsPast'
  <2>1. \A w \in Withdrawals :
           seen.status[w] \in {"completed", "failed"} => status'[w] = seen.status[w]
    BY <1>1, ServiceMoves DEF SeenIsPast
  <2> QED BY <1>1, <1>2, <2>1, ServiceMoves DEF SeenIsPast
<1>5. Fresh'
  BY <1>1, <1>2, ServiceMoves DEF Fresh
<1>6. FewRows'
  <2> DEFINE rows == {w \in Withdrawals : status[w] # "none"}
             next == {w \in Withdrawals : status'[w] # "none"}
  <2>1. PICK v : next \subseteq rows \cup {v}
    BY <1>1, ServiceInserts
  <2>2. IsFiniteSet(rows \cup {v})
    BY <1>1, FS_AddElement DEF FewRows
  <2>3. IsFiniteSet(next)
    BY <2>1, <2>2, FS_Subset
  <2>4. \A w \in Withdrawals : seen.status[w] # "none" => status'[w] # "none"
    BY <1>1, ServiceInserts DEF FewRows
  <2> QED BY <1>2, <2>3, <2>4 DEF FewRows
<1> QED BY <1>2, <1>3, <1>4, <1>5, <1>6 DEF IInv

LEMMA ReaderKeeps ==
    ASSUME IInv, Reconciler
    PROVE  IInv'
<1>1. RowsOK /\ ReaderOK /\ SeenIsPast /\ FewRows /\ Fresh /\ StuckWasProcessing
  BY DEF IInv
<1>2. CASE ReadApps
  <2> DEFINE now == {w \in Withdrawals : status[w] = "processing"}
  <2>1. /\ seen' = [apps |-> apps, orders |-> {}, deposits |-> {}, processing |-> now,
                    status |-> [w \in Withdrawals |-> "none"]]
        /\ report' = NoDrift /\ UNCHANGED ledger
        /\ agedUpdate' \in SUBSET Withdrawals
    BY <1>1, <1>2 DEF ReadApps, NothingSeen, RowsOK
  <2>2. RowsOK' /\ ReaderOK'
    BY <1>1, <2>1 DEF ledger, RowsOK, ReaderOK, NoDrift, Statuses
  <2>3. SeenIsPast' /\ FewRows' /\ Fresh' /\ StuckWasProcessing'
    BY <1>1, <2>1 DEF ledger, SeenIsPast, FewRows, Fresh, StuckWasProcessing, NoDrift
  <2> QED BY <2>2, <2>3 DEF IInv
<1>3. CASE ReadOrders \/ ReadDeposits
  <2>1. /\ UNCHANGED <<ledger, clocks, report>> /\ pc # "apps"
        /\ \/ seen' = [seen EXCEPT !.orders = orders]
           \/ seen' = [seen EXCEPT !.deposits = deposits]
    BY <1>3 DEF ReadOrders, ReadDeposits, Reading
  <2>2. ReaderOK' /\ RowsOK'
    BY <1>1, <2>1 DEF ledger, clocks, RowsOK, ReaderOK
  <2>3. /\ seen'.status = seen.status /\ seen'.processing = seen.processing
        /\ seen'.deposits = seen.deposits \/ seen'.deposits = deposits
    BY <1>1, <2>1 DEF ReaderOK
  <2>4. SeenIsPast' /\ FewRows' /\ Fresh' /\ StuckWasProcessing'
    BY <1>1, <2>1, <2>3 DEF ledger, clocks, SeenIsPast, FewRows, Fresh, StuckWasProcessing
  <2> QED BY <2>2, <2>4 DEF IInv
<1>4. CASE ReadWithdrawals
  <2> DEFINE old == {w \in agedUpdate : status[w] = "processing"}
  <2>1. /\ UNCHANGED <<ledger, clocks>> /\ pc # "apps"
        /\ seen' = [seen EXCEPT !.status = status]
        /\ report' = [report EXCEPT !.stuck = old]
    BY <1>4 DEF ReadWithdrawals, Reading
  <2>2. ReaderOK' /\ RowsOK'
    BY <1>1, <2>1 DEF ledger, clocks, RowsOK, ReaderOK
  <2>3. /\ seen'.status = status /\ seen'.processing = seen.processing
        /\ seen'.deposits = seen.deposits /\ report'.stuck = old
    BY <1>1, <2>1 DEF ReaderOK
  <2>4. SeenIsPast' /\ FewRows' /\ Fresh'
    BY <1>1, <2>1, <2>3 DEF ledger, clocks, SeenIsPast, FewRows, Fresh
  <2>5. StuckWasProcessing'
    BY <1>1, <2>1, <2>3 DEF Fresh, StuckWasProcessing
  <2> QED BY <2>2, <2>4, <2>5 DEF IInv
<1>5. CASE ReadBalances \/ ReadOutbox
  <2>1. UNCHANGED <<ledger, clocks, seen>> /\ pc # "apps"
    BY <1>5 DEF ReadBalances, ReadOutbox, Reading
  <2>2. ReaderOK' /\ report'.stuck = report.stuck
    <3>1. ASSUME NEW A, report' = [report EXCEPT !.aged = A], A \in SUBSET Withdrawals
          PROVE  ReaderOK' /\ report'.stuck = report.stuck
      BY <1>1, <2>1, <3>1 DEF ReaderOK
    <3>2. ASSUME NEW A, NEW B, A \in SUBSET Accounts, B \in SUBSET Accounts,
                 report' = [report EXCEPT !.imbalance = A, !.orphans = B]
          PROVE  ReaderOK' /\ report'.stuck = report.stuck
      BY <1>1, <2>1, <3>2 DEF ReaderOK
    <3>3. CASE ReadOutbox
      BY <1>1, <3>1, <3>3 DEF ReadOutbox, RowsOK
    <3>4. CASE ReadBalances
      <4> DEFINE wrong == {a \in Accounts :
                              Confirmed(a) # Held(a) + Total(CompletedOut(a, seen.status))}
                 over == {a \in Accounts : locked[a] > Total(ActiveLocked(a, seen.status))}
      <4>1. report' = [report EXCEPT !.imbalance = wrong, !.orphans = over]
        BY <3>4 DEF ReadBalances
      <4>2. wrong \in SUBSET Accounts /\ over \in SUBSET Accounts
        OBVIOUS
      <4> HIDE DEF wrong, over
      <4> QED BY <3>2, <4>1, <4>2
    <3> QED BY <1>5, <3>3, <3>4
  <2>3. RowsOK' /\ SeenIsPast' /\ FewRows' /\ Fresh' /\ StuckWasProcessing'
    BY <1>1, <2>1, <2>2 DEF ledger, clocks, RowsOK, SeenIsPast, FewRows, Fresh, StuckWasProcessing
  <2> QED BY <2>2, <2>3 DEF IInv
<1>6. CASE Exit \/ ReportFails
  BY <1>1, <1>6 DEF Exit, ReportFails, Reading, ledger, clocks, IInv, RowsOK, ReaderOK,
                    SeenIsPast, FewRows, Fresh, StuckWasProcessing
<1> QED BY <1>2, <1>3, <1>4, <1>5, <1>6 DEF Reconciler

LEMMA Invariance == Spec => []IInv
<1>1. IInv /\ [Next]_vars => IInv'
  <2> SUFFICES ASSUME IInv, [Next]_vars PROVE IInv'
    OBVIOUS
  <2>1. CASE UNCHANGED vars
    BY <2>1 DEF vars, ledger, clocks, reader, IInv, RowsOK, ReaderOK, SeenIsPast,
              FewRows, Fresh, StuckWasProcessing
  <2> QED BY <2>1, ServiceKeeps, ReaderKeeps DEF Next
<1> QED BY <1>1, InvInit, PTL DEF Spec

----------------------------------------------------------------------------
(* Theorems *)

\* "Withdrawals stuck in processing past the deadline" (store/src/reconcile.rs):
\* one that is reported was processing when the run began, though the services
\* moved withdrawals on while it read.
THEOREM StuckIsStuck == Spec => []StuckWasProcessing
<1>1. IInv => StuckWasProcessing
  BY DEF IInv
<1> QED BY <1>1, Invariance, PTL

\* Where the reader saw the deposits and the payouts of an account, it sums over
\* the very sets the tables hold.
LEMMA SameSets ==
    ASSUME IInv, NEW a \in Accounts, CreditsWereSeen(a), PayoutsWereSeen(a)
    PROVE  /\ Confirmed(a) = Recorded(a)
           /\ Total(CompletedOut(a, seen.status)) = PaidOut(a)
<1>1. {d \in seen.deposits : Attributed(d) /\ MerchantOf(d) = a}
         = {d \in deposits : MerchantOf(d) = a}
  BY DEF IInv, SeenIsPast, CreditsWereSeen
<1>2. CompletedOut(a, seen.status) = {w \in Withdrawals : AccountOf[w] = a /\ status[w] = "completed"}
  BY DEF IInv, SeenIsPast, PayoutsWereSeen, CompletedOut
<1> QED BY <1>1, <1>2 DEF Confirmed, Recorded, PaidOut

\* "A clean system yields all-empty vectors" (store/src/reconcile.rs), while the
\* services run: the reported balance of an account is right, alarm or not,
\* unless a deposit or a payout of it escaped the earlier reads.
THEOREM AlarmsHaveCause == Spec => ImbalanceHasCause
<1>1. IInv /\ [Next]_vars =>
         (ReadBalances =>
            \A a \in Accounts :
               CreditsWereSeen(a) /\ PayoutsWereSeen(a) =>
                  (a \in report'.imbalance <=> Unbalanced(a)))
  <2> SUFFICES ASSUME IInv, ReadBalances, NEW a \in Accounts,
                      CreditsWereSeen(a), PayoutsWereSeen(a)
               PROVE  a \in report'.imbalance <=> Unbalanced(a)
    OBVIOUS
  <2> DEFINE wrong == {b \in Accounts :
                          Confirmed(b) # Held(b) + Total(CompletedOut(b, seen.status))}
  <2>1. report'.imbalance = wrong
    BY DEF ReadBalances, IInv, ReaderOK
  <2>2. a \in wrong <=> Unbalanced(a)
    BY SameSets DEF Unbalanced
  <2> QED BY <2>1, <2>2
<1>2. IInv /\ [Next]_vars =>
         [ReadBalances =>
            \A a \in Accounts :
               CreditsWereSeen(a) /\ PayoutsWereSeen(a) =>
                  (a \in report'.imbalance <=> Unbalanced(a))]_vars
  BY <1>1
<1> QED BY <1>2, Invariance, PTL DEF Spec, ImbalanceHasCause

\* The sums over two sets of withdrawals that were inserted, one in the other.
LEMMA TotalsOrdered ==
    ASSUME IInv, NEW T \in SUBSET {w \in Withdrawals : status[w] # "none"}, NEW S \in SUBSET T
    PROVE  Total(S) \in Nat /\ Total(T) \in Nat /\ Total(S) <= Total(T)
<1>1. IsFiniteSet(T) /\ IsFiniteSet(S)
  BY FS_Subset DEF IInv, FewRows
<1>2. \A w \in T : Worth[w] \in Nat
  BY ConstantsAssumption
<1>3. \A U : Total(U) = SumOf(Worth, U)
  BY Zenon DEF Total, SumOf
<1>4. SumOf(Worth, S) \in Nat /\ SumOf(Worth, T) \in Nat
  BY <1>1, <1>2, SumNatural
<1>5. SumOf(Worth, S) <= SumOf(Worth, T)
  BY <1>1, <1>2, SumMonotone
<1> QED BY <1>3, <1>4, <1>5

\* Open now, and inserted when the withdrawals were read: open then.
LEMMA OpenThenAndNow ==
    ASSUME IInv, NEW a \in Accounts
    PROVE  LET now == {w \in Withdrawals : AccountOf[w] = a /\ status[w] \in Open}
               rows == {w \in Withdrawals : status[w] # "none"}
           IN  /\ ActiveLocked(a, seen.status) \in SUBSET rows /\ now \in SUBSET rows
               /\ \A w \in now : seen.status[w] # "none" => w \in ActiveLocked(a, seen.status)
<1>1. \A w \in Withdrawals : seen.status[w] \in Statuses
  BY DEF IInv, ReaderOK
<1>2. \A w \in Withdrawals : status[w] \in Open /\ seen.status[w] # "none" => seen.status[w] \in Open
  BY <1>1 DEF IInv, SeenIsPast, Statuses, Open
<1> QED BY <1>2 DEF IInv, FewRows, ActiveLocked, Open

\* An orphan lock reported of a sound account was locked by a withdrawal created
\* after the withdrawals were read, and one that was missed was made by a
\* withdrawal that released its lock since: whatever else the services commit
\* between the two reads, the verdict on the account's locks is right.
THEOREM OrphansHaveCause == Spec => OrphanHasCause
<1>1. IInv /\ [Next]_vars =>
         (ReadBalances =>
            \A a \in Accounts :
               LET of == {w \in Withdrawals : AccountOf[w] = a} IN
               /\ a \in report'.orphans /\ locked[a] <= Due(a) =>
                    \E w \in of : seen.status[w] = "none" /\ status[w] # "none"
               /\ locked[a] > Due(a) /\ a \notin report'.orphans =>
                    \E w \in of : seen.status[w] \in Open /\ status[w] \notin Open)
  <2> SUFFICES ASSUME IInv, ReadBalances, NEW a \in Accounts
               PROVE  /\ a \in report'.orphans /\ locked[a] <= Due(a) =>
                           \E w \in Withdrawals : /\ AccountOf[w] = a
                                                  /\ seen.status[w] = "none" /\ status[w] # "none"
                      /\ locked[a] > Due(a) /\ a \notin report'.orphans =>
                           \E w \in Withdrawals : /\ AccountOf[w] = a
                                                  /\ seen.status[w] \in Open /\ status[w] \notin Open
    OBVIOUS
  <2> DEFINE now == {w \in Withdrawals : AccountOf[w] = a /\ status[w] \in Open}
             then == ActiveLocked(a, seen.status)
             rows == {w \in Withdrawals : status[w] # "none"}
             over == {b \in Accounts : locked[b] > Total(ActiveLocked(b, seen.status))}
  <2>1. a \in report'.orphans <=> locked[a] > Total(then)
    <3>1. report'.orphans = over
      BY DEF ReadBalances, IInv, ReaderOK
    <3> QED BY <3>1
  <2>2. Due(a) = Total(now) /\ locked[a] \in Int
    BY DEF Due, IInv, RowsOK
  <2>3. /\ then \in SUBSET rows /\ now \in SUBSET rows
        /\ \A w \in now : seen.status[w] # "none" => w \in then
    BY OpenThenAndNow
  <2>4. ASSUME locked[a] > Total(then), locked[a] <= Total(now)
        PROVE  \E w \in Withdrawals : /\ AccountOf[w] = a
                                      /\ seen.status[w] = "none" /\ status[w] # "none"
    <3>1. CASE now \in SUBSET then
      <4>1. Total(now) \in Nat /\ Total(then) \in Nat /\ Total(now) <= Total(then)
        <5> HIDE DEF now, then, rows
        <5> QED BY <2>3, <3>1, TotalsOrdered DEF rows
      <4> HIDE DEF now, then
      <4> QED BY <2>2, <2>4, <4>1
    <3>2. CASE \E w \in now : w \notin then
      BY <2>3, <3>2 DEF Open
    <3> QED BY <3>1, <3>2
  <2>5. ASSUME locked[a] > Total(now), ~(locked[a] > Total(then))
        PROVE  \E w \in Withdrawals : /\ AccountOf[w] = a
                                      /\ seen.status[w] \in Open /\ status[w] \notin Open
    <3>1. CASE then \in SUBSET now
      <4>1. Total(now) \in Nat /\ Total(then) \in Nat /\ Total(then) <= Total(now)
        <5> HIDE DEF now, then, rows
        <5> QED BY <2>3, <3>1, TotalsOrdered DEF rows
      <4> HIDE DEF now, then
      <4> QED BY <2>2, <2>5, <4>1
    <3>2. CASE \E w \in then : w \notin now
      BY <3>2 DEF ActiveLocked
    <3> QED BY <3>1, <3>2
  <2> HIDE DEF now, then, rows, over
  <2> QED BY <2>1, <2>2, <2>4, <2>5
<1>2. IInv /\ [Next]_vars =>
         [ReadBalances =>
            \A a \in Accounts :
               LET of == {w \in Withdrawals : AccountOf[w] = a} IN
               /\ a \in report'.orphans /\ locked[a] <= Due(a) =>
                    \E w \in of : seen.status[w] = "none" /\ status[w] # "none"
               /\ locked[a] > Due(a) /\ a \notin report'.orphans =>
                    \E w \in of : seen.status[w] \in Open /\ status[w] \notin Open]_vars
  BY <1>1
<1> QED BY <1>2, Invariance, PTL DEF Spec, OrphanHasCause
=============================================================================

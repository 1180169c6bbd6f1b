------------------------ MODULE DepositCreditProofs ------------------------
(***************************************************************************)
(* The credit path, for any number of orders, deposits, processors, quote   *)
(* calls and faults: what is acked is settled, a paid order names a deposit *)
(* credited for it, a credited deposit's order is paid or overwritten, and  *)
(* a token credit is for a quote the order had.                             *)
(***************************************************************************)
EXTENDS DepositCredit, SetLemmas, FiniteSetTheorems, TLAPS

Working(k) == pc[k] \notin {"read", "claim"}

\* A processor that is not between replies has an entry in hand, which it was
\* handed and which is for some deposit.
LEMMA CurrentEntry ==
    ASSUME StreamOK, ProcessorsOK, NEW k \in Processors, Working(k)
    PROVE  /\ Current(k) \in inbox[k]
           /\ Current(k) \in 1..read
           /\ Current(k) \in Entries
           /\ Deposit(k) \in Deposits
<1>1. inbox[k] \in SUBSET (1..read) /\ inbox[k] # {}
  BY DEF StreamOK, ProcessorsOK, Working
<1>2. inbox[k] \in SUBSET Nat
  BY <1>1 DEF StreamOK
<1>3. \E i \in inbox[k] : \A j \in inbox[k] : i <= j
  BY <1>1, <1>2, LeastNatural
<1>4. Current(k) \in inbox[k]
  BY <1>3 DEF Current
<1>5. Current(k) \in 1..read /\ Current(k) \in 1..Len(stream)
  BY <1>1, <1>4 DEF StreamOK
<1>6. stream[Current(k)] \in Deposits
  BY <1>5 DEF StreamOK
<1> QED BY <1>4, <1>5, <1>6 DEF Deposit, Entries

----------------------------------------------------------------------------
(* Types *)

LEMMA GotoPlaces ==
    ASSUME ProcessorsOK, NEW k \in Processors, Working(k),
           NEW step \in Steps \ {"read", "claim"}, Goto(k, step),
           UNCHANGED <<inbox, read>>, seen' \in [Processors -> {"pending", "paid"}]
    PROVE  ProcessorsOK'
BY DEF ProcessorsOK, Goto, Working

LEMMA NextPlaces ==
    ASSUME StreamOK, ProcessorsOK, NEW k \in Processors, Working(k), NextEntry(k),
           UNCHANGED <<read, seen>>
    PROVE  ProcessorsOK'
<1> DEFINE left == inbox[k] \ {Current(k)}
<1>1. /\ inbox' = [inbox EXCEPT ![k] = left]
      /\ pc' = [pc EXCEPT ![k] = IF left = {} THEN "claim" ELSE "order"]
  BY DEF NextEntry, Goto
<1>2. left \in SUBSET (1..read)
  BY DEF ProcessorsOK
<1> HIDE DEF left
<1>3. \A j \in Processors : pc'[j] \in {"read", "claim"} <=> inbox'[j] = {}
  BY <1>1 DEF ProcessorsOK
<1> QED BY <1>1, <1>2, <1>3 DEF ProcessorsOK, Steps

LEMMA CreditTables ==
    ASSUME TablesOK, StreamOK, ProcessorsOK, NEW k \in Processors, Working(k),
           CreditTx(k), UNCHANGED offered
    PROVE  TablesOK'
<1> DEFINE s == Deposit(k)
           o == MemoOf[s]
<1>1. s \in Deposits
  BY CurrentEntry
<1>2. Paid[s].amount \in Nat
  BY <1>1, ConstantsAssumption DEF Quote
<1>3. balance' \in [Accounts -> Nat]
  <2> DEFINE a == <<MerchantOf[o], EntryMint(s)>>
  <2>1. balance' = [balance EXCEPT ![a] = @ + Paid[s].amount]
    BY DEF CreditTx
  <2> HIDE DEF a
  <2>2. balance \in [Accounts -> Nat]
    BY DEF TablesOK
  <2>3. \A b \in Accounts : balance'[b] = balance[b] \/ balance'[b] = balance[b] + Paid[s].amount
    BY <2>1, <2>2
  <2>4. \A b \in Accounts : balance'[b] \in Nat
    <3> DEFINE n == Paid[s].amount
    <3> HIDE DEF n
    <3> QED BY <1>2, <2>2, <2>3 DEF n
  <2> QED BY <2>1, <2>2, <2>4
<1>4. order' \in [Orders -> OrderRow]
  <2>1. CASE UNCHANGED order
    BY <2>1 DEF TablesOK
  <2>2. CASE order' = [order EXCEPT ![o] = [@ EXCEPT !.status = "paid", !.by = s]]
    <3>1. ASSUME NEW row \in OrderRow
          PROVE  [row EXCEPT !.status = "paid", !.by = s] \in OrderRow
      BY <1>1 DEF OrderRow
    <3> QED BY <2>2, <3>1 DEF TablesOK
  <2> QED BY <2>1, <2>2 DEF CreditTx, MarkPaid
<1>5. deposits' \in SUBSET Deposits /\ UNCHANGED dead
  BY <1>1 DEF CreditTx, TablesOK
<1> QED BY <1>3, <1>4, <1>5 DEF TablesOK

LEMMA FetchPlaces ==
    ASSUME StreamOK, ProcessorsOK, NEW k \in Processors, Fetch(k)
    PROVE  /\ StreamOK' /\ ProcessorsOK'
           /\ read <= read'
           /\ pending' = pending \cup (read + 1)..read'
<1> DEFINE n == IF Len(stream) - read < Count THEN Len(stream) - read ELSE Count
           got == (read + 1)..(read + n)
<1>1. Len(stream) \in Nat /\ read \in Nat /\ read <= Len(stream) /\ Count \in Nat
  BY BoundsAssumption DEF StreamOK
<1>2. n \in Nat /\ read + n \in 0..Len(stream)
  BY <1>1
<1>3. /\ read' = read + n
      /\ pending' = pending \cup got
      /\ inbox' = [inbox EXCEPT ![k] = got]
      /\ pc' = [pc EXCEPT ![k] = IF got = {} THEN "claim" ELSE "order"]
      /\ pc[k] = "read" /\ UNCHANGED <<stream, seen>>
  BY DEF Fetch, Goto
<1> HIDE DEF n
<1>4. got \in SUBSET (1..read') /\ 1..read \subseteq 1..read'
  BY <1>1, <1>2, <1>3
<1>5. StreamOK'
  BY <1>2, <1>3, <1>4 DEF StreamOK
<1>6. got = (read + 1)..read'
  BY <1>3
<1> HIDE DEF got
<1>7. \A j \in Processors : pc'[j] \in {"read", "claim"} <=> inbox'[j] = {}
  BY <1>3 DEF ProcessorsOK
<1>8. inbox' \in [Processors -> SUBSET (1..read')]
  BY <1>3, <1>4 DEF ProcessorsOK
<1>9. ProcessorsOK'
  BY <1>3, <1>7, <1>8 DEF ProcessorsOK, Steps
<1> QED BY <1>1, <1>2, <1>3, <1>5, <1>6, <1>9

\* Typing, processor by processor.
LEMMA WorkTypes ==
    ASSUME TypeOK, NEW k \in Processors, Work(k)
    PROVE  TypeOK'
<1> USE DEF TypeOK
<1>1. CASE Fetch(k)
  <2>1. TablesOK' /\ CallsOK' /\ UNCHANGED faults
    BY <1>1 DEF Fetch, db, TablesOK, CallsOK
  <2> QED BY <1>1, <2>1, FetchPlaces
<1>2. CASE Reclaim(k)
  <2>1. TablesOK' /\ CallsOK' /\ StreamOK' /\ UNCHANGED faults
    BY <1>2 DEF Reclaim, db, redis, TablesOK, CallsOK, StreamOK
  <2>2. ProcessorsOK'
    BY <1>2 DEF Reclaim, redis, Goto, ProcessorsOK, Steps
  <2> QED BY <2>1, <2>2
<1>3. CASE FindOrder(k)
  <2>1. TablesOK' /\ CallsOK' /\ StreamOK' /\ UNCHANGED <<faults, inbox, read>>
    BY <1>3 DEF FindOrder, db, redis, TablesOK, CallsOK, StreamOK
  <2>2. seen' \in [Processors -> {"pending", "paid"}]
    <3>1. ASSUME Creditable(Deposit(k))
          PROVE  order[MemoOf[Deposit(k)]].status \in {"pending", "paid"}
      <4>1. Working(k)
        BY <1>3 DEF FindOrder, Working
      <4>2. MemoOf[Deposit(k)] \in Orders
        BY <3>1, <4>1, CurrentEntry, ConstantsAssumption DEF Creditable
      <4> QED BY <4>2 DEF TablesOK, OrderRow
    <3> QED BY <1>3, <3>1 DEF FindOrder, ProcessorsOK
  <2>3. Working(k) /\ (Goto(k, "credit") \/ Goto(k, "dead"))
    BY <1>3 DEF FindOrder, Working
  <2>4. ProcessorsOK'
    BY <2>1, <2>2, <2>3, GotoPlaces DEF Steps
  <2> QED BY <2>1, <2>4
<1>4. CASE DeadLetter(k)
  <2>1. Working(k) /\ Goto(k, "ack") /\ UNCHANGED <<inbox, read, seen, faults>>
    BY <1>4 DEF DeadLetter, Working, redis
  <2>2. TablesOK' /\ CallsOK' /\ StreamOK'
    BY <1>4, <2>1, CurrentEntry DEF DeadLetter, redis, TablesOK, CallsOK, StreamOK
  <2>3. ProcessorsOK'
    BY <2>1, GotoPlaces DEF Steps, ProcessorsOK
  <2> QED BY <2>1, <2>2, <2>3
<1>5. CASE InsertDeposit(k)
  <2>1. Working(k) /\ (Goto(k, "ack") \/ Goto(k, "commit")) /\ UNCHANGED <<inbox, read, seen, faults>>
    BY <1>5 DEF InsertDeposit, Working, redis
  <2>2. TablesOK' /\ CallsOK' /\ StreamOK'
    BY <1>5 DEF InsertDeposit, db, redis, TablesOK, CallsOK, StreamOK
  <2>3. ProcessorsOK'
    BY <2>1, GotoPlaces DEF Steps, ProcessorsOK
  <2> QED BY <2>1, <2>2, <2>3
<1>6. CASE Credit(k)
  <2>1. /\ Working(k) /\ Goto(k, "ack") /\ CreditTx(k)
        /\ UNCHANGED <<inbox, read, seen, faults, offered, call, redis>>
    BY <1>6 DEF Credit, Working, redis
  <2>2. CallsOK' /\ StreamOK'
    BY <2>1 DEF redis, CallsOK, StreamOK
  <2>3. ProcessorsOK' /\ TablesOK'
    BY <2>1, GotoPlaces, CreditTables DEF Steps, ProcessorsOK
  <2> QED BY <2>1, <2>2, <2>3
<1>7. CASE Xack(k)
  <2>1. Working(k) /\ NextEntry(k) /\ UNCHANGED <<read, seen, faults>>
    BY <1>7 DEF Xack, Working
  <2>2. TablesOK' /\ CallsOK' /\ StreamOK'
    BY <1>7 DEF Xack, db, TablesOK, CallsOK, StreamOK
  <2>3. ProcessorsOK'
    BY <2>1, NextPlaces
  <2> QED BY <2>1, <2>2, <2>3
<1> QED BY <1>1, <1>2, <1>3, <1>4, <1>5, <1>6, <1>7 DEF Work

LEMMA BreakTypes ==
    ASSUME TypeOK, NEW k \in Processors, Break(k)
    PROVE  TypeOK'
<1> USE DEF TypeOK
<1>0. ASSUME Fault PROVE faults' \in 0..MaxFaults
  BY <1>0, BoundsAssumption DEF Fault
<1>1. CASE FindOrderFails(k)
  <2>1. Working(k) /\ Goto(k, "dead") /\ UNCHANGED <<inbox, read, seen>> /\ Fault
    BY <1>1 DEF FindOrderFails, Working, redis
  <2>2. TablesOK' /\ CallsOK' /\ StreamOK'
    BY <1>1 DEF FindOrderFails, db, redis, TablesOK, CallsOK, StreamOK
  <2>3. ProcessorsOK'
    BY <2>1, GotoPlaces DEF Steps, ProcessorsOK
  <2> QED BY <1>0, <2>1, <2>2, <2>3
<1>2. CASE LeaveOnError(k)
  <2>1. Working(k) /\ NextEntry(k) /\ UNCHANGED <<read, seen>> /\ Fault
    BY <1>2 DEF LeaveOnError, Working, redis
  <2>2. TablesOK' /\ CallsOK' /\ StreamOK'
    BY <1>2 DEF LeaveOnError, db, redis, TablesOK, CallsOK, StreamOK
  <2>3. ProcessorsOK'
    BY <2>1, NextPlaces
  <2> QED BY <1>0, <2>1, <2>2, <2>3
<1>3. CASE CommitUnheard(k)
  <2>1. /\ Working(k) /\ NextEntry(k) /\ CreditTx(k) /\ Fault
        /\ UNCHANGED <<read, seen, offered, call, redis>>
    BY <1>3 DEF CommitUnheard, Working, redis
  <2>2. CallsOK' /\ StreamOK'
    BY <2>1 DEF redis, CallsOK, StreamOK
  <2>3. ProcessorsOK' /\ TablesOK'
    BY <2>1, NextPlaces, CreditTables
  <2> QED BY <1>0, <2>1, <2>2, <2>3
<1>4. CASE Crash(k)
  <2>1. TablesOK' /\ CallsOK' /\ StreamOK' /\ Fault
    BY <1>4 DEF Crash, db, redis, TablesOK, CallsOK, StreamOK
  <2>2. ProcessorsOK'
    BY <1>4 DEF Crash, redis, Goto, ProcessorsOK, Steps
  <2> QED BY <1>0, <2>1, <2>2
<1> QED BY <1>1, <1>2, <1>3, <1>4 DEF Break

LEMMA TypeInit == Init => TypeOK
<1> SUFFICES ASSUME Init PROVE TypeOK
  OBVIOUS
<1>1. TablesOK
  BY ConstantsAssumption DEF Init, TablesOK, NewOrder, OrderRow
<1>2. CallsOK
  BY DEF Init, CallsOK, Call, NoCall
<1>3. StreamOK /\ ProcessorsOK
  BY DEF Init, StreamOK, ProcessorsOK, Steps
<1> QED BY <1>1, <1>2, <1>3, BoundsAssumption DEF Init, TypeOK

LEMMA TypeStep == TypeOK /\ [Next]_vars => TypeOK'
<1> SUFFICES ASSUME TypeOK, [Next]_vars PROVE TypeOK'
  OBVIOUS
<1>1. ASSUME NEW q \in Quoters, NEW o \in Orders, QuoteStart(q, o) PROVE TypeOK'
  <2>1. order[o] \in OrderRow
    BY DEF TypeOK, TablesOK
  <2>2. [at |-> "quoting", order |-> o, copy |-> order[o], over |-> None] \in Call
    BY <2>1 DEF Call
  <2>3. CallsOK'
    BY <1>1, <2>1, <2>2 DEF QuoteStart, TypeOK, CallsOK
  <2>4. TablesOK' /\ StreamOK' /\ ProcessorsOK' /\ UNCHANGED faults
    BY <1>1 DEF QuoteStart, db, redis, consumer, TypeOK, TablesOK, StreamOK, ProcessorsOK
  <2> QED BY <2>3, <2>4 DEF TypeOK
<1>2. ASSUME NEW q \in Quoters, NEW offer \in Offers, QuoteWrite(q, offer) PROVE TypeOK'
  <2> DEFINE o == call[q].order
             row == [call[q].copy EXCEPT !.quote = offer]
  <2>1. o \in Orders /\ call[q].copy \in OrderRow
    BY <1>2 DEF QuoteWrite, TypeOK, CallsOK
  <2>2. row \in OrderRow
    BY <2>1 DEF OrderRow
  <2>3. /\ order' = [order EXCEPT ![o] = row]
        /\ offered' = [offered EXCEPT ![o] = @ \cup {offer}]
        /\ call' = [call EXCEPT ![q] = [call[q] EXCEPT !.at = "done", !.over = order[o].status]]
        /\ UNCHANGED <<deposits, balance, dead, redis, consumer, faults>>
    BY <1>2 DEF QuoteWrite
  <2> HIDE DEF o, row
  <2>4. TablesOK'
    BY <2>2, <2>3 DEF TypeOK, TablesOK
  <2>5. CallsOK'
    <3> DEFINE written == [call[q] EXCEPT !.at = "done", !.over = order[o].status]
    <3>1. order[o].status \in {"pending", "paid"}
      BY <2>1 DEF TypeOK, TablesOK, OrderRow
    <3>2. written \in Call /\ written.order = call[q].order /\ written.copy = call[q].copy
      BY <3>1 DEF TypeOK, CallsOK, Call
    <3>3. call' = [call EXCEPT ![q] = written]
      BY <2>3
    <3> HIDE DEF written
    <3> QED BY <2>1, <3>2, <3>3 DEF TypeOK, CallsOK, o
  <2>6. StreamOK' /\ ProcessorsOK'
    BY <2>3 DEF redis, consumer, TypeOK, StreamOK, ProcessorsOK
  <2> QED BY <2>3, <2>4, <2>5, <2>6 DEF TypeOK
<1>3. ASSUME NEW s \in Deposits, Publish(s) PROVE TypeOK'
  <2>1. StreamOK'
    BY <1>3 DEF Publish, TypeOK, StreamOK
  <2>2. TablesOK' /\ CallsOK' /\ ProcessorsOK' /\ UNCHANGED faults
    BY <1>3 DEF Publish, db, consumer, TypeOK, TablesOK, CallsOK, ProcessorsOK
  <2> QED BY <2>1, <2>2 DEF TypeOK
<1>4. ASSUME NEW i \in Entries, Redeliver(i) PROVE TypeOK'
  <2>1. stream[i] \in Deposits
    BY DEF TypeOK, StreamOK, Entries
  <2>2. StreamOK'
    <3>1. stream' = Append(stream, stream[i]) /\ pending' = pending \ {i} /\ UNCHANGED read
      BY <1>4 DEF Redeliver
    <3>2. stream' \in Seq(Deposits) /\ Len(stream') = Len(stream) + 1
      BY <2>1, <3>1 DEF TypeOK, StreamOK
    <3>3. read \in 0..Len(stream) /\ Len(stream) \in Nat /\ pending \in SUBSET (1..read)
      BY DEF TypeOK, StreamOK
    <3>4. read' \in 0..Len(stream')
      BY <3>1, <3>2, <3>3
    <3>5. pending' \in SUBSET (1..read')
      BY <3>1, <3>3
    <3> QED BY <3>2, <3>4, <3>5 DEF StreamOK
  <2>3. TablesOK' /\ CallsOK' /\ ProcessorsOK' /\ UNCHANGED faults
    BY <1>4 DEF Redeliver, db, consumer, TypeOK, TablesOK, CallsOK, ProcessorsOK
  <2> QED BY <2>2, <2>3 DEF TypeOK
<1>5. ASSUME NEW k \in Processors, Work(k) \/ Break(k) PROVE TypeOK'
  BY <1>5, WorkTypes, BreakTypes
<1>6. CASE UNCHANGED vars
  BY <1>6 DEF vars, db, redis, consumer, TypeOK, TablesOK, CallsOK, StreamOK, ProcessorsOK
<1> QED BY <1>1, <1>2, <1>3, <1>4, <1>5, <1>6 DEF Next

\* The rows, the calls, the stream and the processors keep their types.
THEOREM TypeCorrect == Spec => []TypeOK
<1> QED BY TypeInit, TypeStep, PTL DEF Spec

----------------------------------------------------------------------------
(* What no step takes back *)

Settled(o) == order[o].status = "paid" \/ Overwritten(o)

LEMMA StreamGrows ==
    ASSUME TypeOK, [Next]_vars
    PROVE  /\ Entries \subseteq Entries'
           /\ \A i \in Entries : stream'[i] = stream[i]
           /\ Len(stream) \in Nat
           /\ \/ UNCHANGED stream
              \/ /\ Len(stream') = Len(stream) + 1
                 /\ \A i \in Entries' : i \in Entries \/ i = Len(stream) + 1
<1>1. stream \in Seq(Deposits) /\ Len(stream) \in Nat
  BY DEF TypeOK, StreamOK
<1>2. UNCHANGED stream \/ \E s \in Deposits : stream' = Append(stream, s)
  <2>1. ASSUME NEW i \in Entries, Redeliver(i)
        PROVE  stream[i] \in Deposits /\ stream' = Append(stream, stream[i])
    BY <1>1, <2>1 DEF Redeliver, Entries
  <2> QED BY <2>1 DEF Next, vars, redis, Work, Break, QuoteStart, QuoteWrite, Publish, Fetch, Reclaim,
                      FindOrder, DeadLetter, InsertDeposit, Credit, Xack,
                      FindOrderFails, LeaveOnError, CommitUnheard, Crash
<1>3. CASE UNCHANGED stream
  BY <1>1, <1>3 DEF Entries
<1>4. ASSUME NEW s \in Deposits, stream' = Append(stream, s)
      PROVE  /\ Len(stream') = Len(stream) + 1
             /\ \A i \in 1..Len(stream) : stream'[i] = stream[i]
  BY <1>1, <1>4
<1> QED BY <1>1, <1>2, <1>3, <1>4 DEF Entries

LEMMA SameDeposit ==
    ASSUME TypeOK, [Next]_vars, NEW k \in Processors, Working(k), inbox'[k] = inbox[k]
    PROVE  /\ Deposit(k)' = Deposit(k)
           /\ Deposit(k) \in Deposits
<1>1. Current(k)' = Current(k)
  BY DEF Current
<1>2. Current(k) \in Entries /\ Deposit(k) \in Deposits
  BY CurrentEntry DEF TypeOK
<1> QED BY <1>1, <1>2, StreamGrows DEF Deposit

\* What a step does to the tables of deposits and dead letters: nothing, a
\* letter, or a credit.
LEMMA TablesMove ==
    ASSUME [Next]_vars
    PROVE  \/ UNCHANGED <<deposits, dead>>
           \/ \E k \in Processors : DeadLetter(k)
           \/ \E k \in Processors : (Credit(k) \/ CommitUnheard(k)) /\ CreditTx(k)
BY DEF Next, vars, db, Work, Break, QuoteStart, QuoteWrite, Publish, Redeliver, Fetch, Reclaim,
       FindOrder, InsertDeposit, Credit, Xack, FindOrderFails, LeaveOnError, CommitUnheard, Crash

LEMMA RecordsGrow ==
    ASSUME [Next]_vars
    PROVE  deposits \subseteq deposits' /\ dead \subseteq dead'
BY TablesMove DEF DeadLetter, CreditTx

\* What it does to the orders: nothing, a quote, or the mark of a credit.
LEMMA OrdersMove ==
    ASSUME [Next]_vars
    PROVE  \/ UNCHANGED <<order, offered>>
           \/ \E q \in Quoters, offer \in Offers : QuoteWrite(q, offer)
           \/ /\ \E k \in Processors : (Credit(k) \/ CommitUnheard(k)) /\ CreditTx(k)
              /\ UNCHANGED <<offered, call>>
BY DEF Next, vars, db, Work, Break, QuoteStart, Publish, Redeliver, Fetch, Reclaim,
       FindOrder, DeadLetter, InsertDeposit, Credit, Xack,
       FindOrderFails, LeaveOnError, CommitUnheard, Crash

LEMMA OffersGrow ==
    ASSUME TypeOK, [Next]_vars, NEW o \in Orders
    PROVE  offered[o] \subseteq offered'[o]
<1>1. ASSUME NEW q \in Quoters, NEW offer \in Offers, QuoteWrite(q, offer)
      PROVE  offered[o] \subseteq offered'[o]
  BY <1>1 DEF QuoteWrite, TypeOK, TablesOK
<1> QED BY <1>1, OrdersMove

\* A call moves on from where it is: one that has written stays as it was.
LEMMA CallsMove ==
    ASSUME TypeOK, [Next]_vars, NEW q \in Quoters
    PROVE  \/ call'[q] = call[q]
           \/ \E o \in Orders : QuoteStart(q, o)
           \/ \E offer \in Offers : QuoteWrite(q, offer)
<1>1. call \in [Quoters -> Call]
  BY DEF TypeOK, CallsOK
<1>2. ASSUME NEW p \in Quoters, p # q, NEW o \in Orders, QuoteStart(p, o) PROVE call'[q] = call[q]
  BY <1>1, <1>2 DEF QuoteStart
<1>3. ASSUME NEW p \in Quoters, p # q, NEW offer \in Offers, QuoteWrite(p, offer) PROVE call'[q] = call[q]
  BY <1>1, <1>3 DEF QuoteWrite
<1>4. \/ UNCHANGED call
      \/ \E p \in Quoters, o \in Orders : QuoteStart(p, o)
      \/ \E p \in Quoters, offer \in Offers : QuoteWrite(p, offer)
  BY DEF Next, vars, Work, Break, Publish, Redeliver, Fetch, Reclaim,
         FindOrder, DeadLetter, InsertDeposit, Credit, Xack,
         FindOrderFails, LeaveOnError, CommitUnheard, Crash
<1> QED BY <1>2, <1>3, <1>4

LEMMA OverwrittenStays ==
    ASSUME TypeOK, [Next]_vars, NEW o \in Orders, Overwritten(o)
    PROVE  Overwritten(o)'
<1>1. PICK q \in Quoters : /\ call[q].at = "done" /\ call[q].order = o
                           /\ call[q].copy.status = "pending" /\ call[q].over = "paid"
  BY DEF Overwritten
<1>2. call'[q] = call[q]
  BY <1>1, CallsMove DEF QuoteStart, QuoteWrite
<1> QED BY <1>1, <1>2 DEF Overwritten

\* A paid order stays so, or a call that had read it as pending writes over it.
LEMMA SettledStays ==
    ASSUME TypeOK, [Next]_vars, NEW o \in Orders, Settled(o)
    PROVE  Settled(o)'
<1>1. CASE Overwritten(o)
  BY <1>1, OverwrittenStays DEF Settled
<1>2. CASE order[o].status = "paid"
  <2>1. CASE UNCHANGED order
    BY <1>2, <2>1 DEF Settled
  <2>2. ASSUME NEW q \in Quoters, NEW offer \in Offers, QuoteWrite(q, offer) PROVE Settled(o)'
    <3>1. /\ call[q].order \in Orders /\ call[q].copy \in OrderRow
          /\ call[q] \in Call /\ call \in [Quoters -> Call] /\ order \in [Orders -> OrderRow]
      BY <2>2 DEF QuoteWrite, TypeOK, CallsOK, TablesOK
    <3>2. CASE call[q].order # o
      BY <1>2, <2>2, <3>1, <3>2 DEF QuoteWrite, Settled
    <3>3. CASE call[q].order = o /\ call[q].copy.status = "paid"
      <4>1. order'[o] = [call[q].copy EXCEPT !.quote = offer]
        BY <2>2, <3>1, <3>3 DEF QuoteWrite
      <4> QED BY <3>1, <3>3, <4>1 DEF Settled, OrderRow
    <3>4. CASE call[q].order = o /\ call[q].copy.status = "pending"
      <4>1. call'[q] = [call[q] EXCEPT !.at = "done", !.over = "paid"]
        BY <1>2, <2>2, <3>1, <3>4 DEF QuoteWrite
      <4>2. /\ call'[q].at = "done" /\ call'[q].over = "paid"
            /\ call'[q].order = o /\ call'[q].copy.status = "pending"
        BY <3>1, <3>4, <4>1 DEF Call
      <4> QED BY <4>2 DEF Settled, Overwritten
    <3> QED BY <3>1, <3>2, <3>3, <3>4 DEF OrderRow
  <2>3. ASSUME NEW k \in Processors, CreditTx(k) PROVE order'[o].status = "paid"
    BY <1>2, <2>3 DEF CreditTx, MarkPaid, TypeOK, TablesOK, OrderRow
  <2> QED BY <2>1, <2>2, <2>3, OrdersMove DEF Settled
<1> QED BY <1>1, <1>2 DEF Settled

----------------------------------------------------------------------------
(* The inductive invariant *)

\* The copy a call works on was true when it was read: what paid the order
\* then is still credited for it.
CopiesHold ==
    \A q \in Quoters :
       call[q].at # "start" /\ call[q].copy.status = "paid"
          => call[q].copy.by \in deposits /\ MemoOf[call[q].copy.by] = call[q].order

QuotesHold == \A o \in Orders : order[o].quote # None => order[o].quote \in offered[o]

CreditsHold == \A s \in deposits : MemoOf[s] \in Orders

\* A deposit on its way to the credit has passed the verification, and what
\* its processor saw of the order still binds.
Verified(s) == MemoOf[s] \in Orders /\ (~IsSol(s) => Paid[s] \in offered[MemoOf[s]])

StepsHold ==
    \A k \in Processors :
       /\ pc[k] \in {"credit", "commit"} =>
             /\ Verified(Deposit(k))
             /\ seen[k] = "paid" => Settled(MemoOf[Deposit(k)])
       /\ pc[k] = "ack" => Deposit(k) \in deposits \cup dead

\* One transaction at a time holds the index entry of a deposit, and only while
\* the deposit has no row.
InsertsHold ==
    \A k \in Processors : pc[k] = "commit" =>
       /\ Deposit(k) \notin deposits
       /\ \A j \in Processors : pc[j] = "commit" /\ Deposit(j) = Deposit(k) => j = k

\* What holds of the tables and the processors whatever is pending.
Core ==
    /\ TypeOK
    /\ InsertsHold /\ IsFiniteSet(deposits) /\ BalanceIsDeposits
    /\ CopiesHold /\ QuotesHold /\ CreditsHold /\ StepsHold
    /\ PaidByItsDeposit /\ PaidOrOverwritten /\ TokenCreditWasQuoted

IInv == Core /\ AckedIsSettled

LEMMA InvInit == Init => IInv
<1> SUFFICES ASSUME Init PROVE IInv
  OBVIOUS
<1>1. TypeOK
  BY TypeInit
<1>2. CopiesHold /\ CreditsHold /\ StepsHold
  BY DEF Init, NoCall, CopiesHold, CreditsHold, StepsHold
<1>3. QuotesHold /\ PaidByItsDeposit
  BY DEF Init, NewOrder, QuotesHold, PaidByItsDeposit
<1>4. PaidOrOverwritten /\ TokenCreditWasQuoted
  BY DEF Init, PaidOrOverwritten, TokenCreditWasQuoted
<1>5. AckedIsSettled
  BY DEF Init, AckedIsSettled, Copies, Entries
<1>6. InsertsHold /\ IsFiniteSet(deposits)
  BY FS_EmptySet DEF Init, InsertsHold
<1>7. BalanceIsDeposits
  <2>1. AmountOf({}) = 0
    <3>1. AmountOf({}) = SumOf(AmountPaid, {})
      BY Zenon DEF AmountOf, SumOf
    <3> QED BY <3>1, SumEmpty
  <2>2. ASSUME NEW m \in Merchants, NEW t \in Mints \cup {NoMint}
        PROVE  balance[<<m, t>>] = AmountOf({s \in deposits : MerchantOf[MemoOf[s]] = m /\ EntryMint(s) = t})
    <3>1. {s \in deposits : MerchantOf[MemoOf[s]] = m /\ EntryMint(s) = t} = {}
      BY DEF Init
    <3>2. balance[<<m, t>>] = 0
      BY DEF Init, Accounts
    <3> QED BY <2>1, <3>1, <3>2
  <2> QED BY <2>2 DEF BalanceIsDeposits
<1> QED BY <1>1, <1>2, <1>3, <1>4, <1>5, <1>6, <1>7 DEF IInv, Core

\* Where a processor can have come from.
LEMMA Moves ==
    ASSUME TypeOK, [Next]_vars, NEW j \in Processors,
           pc'[j] \in {"credit", "commit", "ack"}
    PROVE  /\ Working(j) /\ inbox'[j] = inbox[j]
           /\ \/ pc'[j] = pc[j] /\ seen'[j] = seen[j]
              \/ FindOrder(j) /\ pc'[j] = "credit"
              \/ InsertDeposit(j) /\ seen'[j] = seen[j]
              \/ DeadLetter(j) /\ pc'[j] = "ack"
              \/ Credit(j) /\ pc'[j] = "ack"
<1> DEFINE Goal ==
      /\ Working(j) /\ inbox'[j] = inbox[j]
      /\ \/ pc'[j] = pc[j] /\ seen'[j] = seen[j]
         \/ FindOrder(j) /\ pc'[j] = "credit"
         \/ InsertDeposit(j) /\ seen'[j] = seen[j]
         \/ DeadLetter(j) /\ pc'[j] = "ack"
         \/ Credit(j) /\ pc'[j] = "ack"
<1>1. /\ pc \in [Processors -> Steps] /\ inbox \in [Processors -> SUBSET (1..read)]
      /\ seen \in [Processors -> {"pending", "paid"}]
  BY DEF TypeOK, ProcessorsOK
<1>2. ASSUME pc'[j] = pc[j], inbox'[j] = inbox[j], seen'[j] = seen[j] PROVE Goal
  BY <1>2 DEF Working
<1>3. ASSUME NEW k \in Processors, k # j, Work(k) \/ Break(k)
      PROVE  pc'[j] = pc[j] /\ inbox'[j] = inbox[j] /\ seen'[j] = seen[j]
  BY <1>1, <1>3 DEF Work, Break, Goto, NextEntry, Fetch, Reclaim, FindOrder, DeadLetter,
         InsertDeposit, Credit, Xack, FindOrderFails, LeaveOnError, CommitUnheard, Crash
<1>4. ASSUME Work(j) PROVE Goal
  <2>1. CASE Fetch(j) \/ Reclaim(j) \/ Xack(j)
    BY <1>1, <2>1 DEF Fetch, Reclaim, Xack, NextEntry, Goto
  <2>2. CASE FindOrder(j)
    BY <1>1, <2>2 DEF FindOrder, Goto, Working
  <2>3. CASE InsertDeposit(j)
    BY <1>1, <2>3 DEF InsertDeposit, Goto, Working
  <2>4. CASE DeadLetter(j) \/ Credit(j)
    BY <1>1, <2>4 DEF DeadLetter, Credit, Goto, Working
  <2> QED BY <1>4, <2>1, <2>2, <2>3, <2>4 DEF Work
<1>5. ASSUME Break(j) PROVE FALSE
  BY <1>1, <1>5 DEF Break, FindOrderFails, LeaveOnError, CommitUnheard, Crash, NextEntry, Goto
<1>6. \/ UNCHANGED consumer
      \/ \E k \in Processors : Work(k) \/ Break(k)
  BY DEF Next, vars, QuoteStart, QuoteWrite, Publish, Redeliver
<1>7. CASE UNCHANGED consumer
  BY <1>2, <1>7 DEF consumer
<1> HIDE DEF Goal
<1> QED
  <2>1. Goal
    BY <1>2, <1>3, <1>4, <1>5, <1>6, <1>7 DEF Goal
  <2> QED BY <2>1 DEF Goal

LEMMA VerifiedStays ==
    ASSUME TypeOK, [Next]_vars, NEW s \in Deposits, Verified(s)
    PROVE  Verified(s)'
BY OffersGrow DEF Verified, IsSol

\* One lemma for each part of the invariant: the verification binds to the end ...
LEMMA KeepsSteps ==
    ASSUME Core, [Next]_vars
    PROVE  StepsHold'
<1>1. TypeOK /\ StepsHold /\ QuotesHold
  BY DEF Core
<1>2. ASSUME NEW j \in Processors, pc'[j] \in {"credit", "commit", "ack"}
      PROVE  /\ pc'[j] \in {"credit", "commit"} =>
                   /\ Verified(Deposit(j))'
                   /\ seen'[j] = "paid" => Settled(MemoOf[Deposit(j)])'
             /\ pc'[j] = "ack" => Deposit(j)' \in deposits' \cup dead'
  <2>1. Working(j) /\ inbox'[j] = inbox[j]
    BY <1>1, <1>2, Moves
  <2>2. Deposit(j)' = Deposit(j) /\ Deposit(j) \in Deposits
    BY <1>1, <2>1, SameDeposit
  <2> DEFINE s == Deposit(j)
  <2>3. /\ Verified(s) => Verified(s)'
        /\ Verified(s) /\ Settled(MemoOf[s]) => Settled(MemoOf[s])'
        /\ s \in deposits \cup dead => s \in deposits' \cup dead'
    BY <1>1, <2>2, VerifiedStays, SettledStays, RecordsGrow DEF Verified
  <2>4. CASE pc'[j] = pc[j] /\ seen'[j] = seen[j]
    BY <1>1, <2>2, <2>3, <2>4 DEF StepsHold, Settled, Verified
  <2>5. CASE FindOrder(j) /\ pc'[j] = "credit"
    <3>1. Creditable(s) /\ seen'[j] = order[MemoOf[s]].status
      BY <1>1, <2>5 DEF FindOrder, Goto, TypeOK, ProcessorsOK
    <3>2. MemoOf[s] \in Orders
      BY <2>2, <3>1, ConstantsAssumption DEF Creditable
    <3>3. ~IsSol(s) => Paid[s] \in offered[MemoOf[s]]
      <4>1. Paid[s] # None
        BY <2>2, ConstantsAssumption, NoneAssumption
      <4> QED BY <1>1, <3>1, <3>2, <4>1 DEF Creditable, Verifies, VerifiesSol, VerifiesToken, QuotesHold
    <3>4. Verified(s) /\ (seen'[j] = "paid" => Settled(MemoOf[s]))
      BY <3>1, <3>2, <3>3 DEF Verified, Settled
    <3> QED BY <2>2, <2>3, <2>5, <3>4 DEF Verified, Settled
  <2>6. CASE InsertDeposit(j) /\ seen'[j] = seen[j]
    <3>1. pc[j] = "credit" /\ (pc'[j] = "ack" => s \in deposits)
      BY <1>1, <2>6 DEF InsertDeposit, Goto, TypeOK, ProcessorsOK
    <3>2. pc'[j] \in {"ack", "commit"}
      BY <1>1, <2>6 DEF InsertDeposit, Goto, TypeOK, ProcessorsOK
    <3> QED BY <1>1, <2>2, <2>3, <2>6, <3>1, <3>2 DEF StepsHold, Settled, Verified
  <2>7. CASE DeadLetter(j) /\ pc'[j] = "ack"
    BY <2>2, <2>7 DEF DeadLetter
  <2>8. CASE Credit(j) /\ pc'[j] = "ack"
    BY <2>2, <2>8 DEF Credit, CreditTx
  <2> QED BY <1>1, <1>2, <2>4, <2>5, <2>6, <2>7, <2>8, Moves
<1> QED BY <1>2 DEF StepsHold

\* ... what is credited was verified ...
LEMMA Credited ==
    ASSUME Core, [Next]_vars, NEW s \in deposits', s \notin deposits
    PROVE  \E k \in Processors :
              /\ Credit(k) \/ CommitUnheard(k)
              /\ CreditTx(k) /\ s = Deposit(k) /\ s \in Deposits /\ Verified(s)
              /\ Working(k) /\ (seen[k] = "paid" => Settled(MemoOf[s]))
<1>1. PICK k \in Processors : (Credit(k) \/ CommitUnheard(k)) /\ CreditTx(k)
  BY TablesMove DEF DeadLetter
<1>2. pc[k] = "commit"
  BY <1>1 DEF Credit, CommitUnheard
<1>3. s = Deposit(k)
  BY <1>1 DEF CreditTx
<1>4. Working(k)
  BY <1>2 DEF Working
<1>5. s \in Deposits
  BY <1>3, <1>4, CurrentEntry DEF Core, TypeOK
<1> QED BY <1>1, <1>2, <1>3, <1>4, <1>5 DEF Core, StepsHold

LEMMA KeepsCredits ==
    ASSUME Core, [Next]_vars
    PROVE  CreditsHold' /\ TokenCreditWasQuoted' /\ PaidOrOverwritten'
<1>1. TypeOK /\ deposits \subseteq Deposits
  BY DEF Core, TypeOK, TablesOK
<1>2. ASSUME NEW s \in deposits'
      PROVE  /\ MemoOf[s] \in Orders
             /\ ~IsSol(s) => Paid[s] \in offered'[MemoOf[s]]
             /\ Settled(MemoOf[s])'
  <2>1. CASE s \in deposits
    BY <1>1, <2>1, OffersGrow, SettledStays
       DEF Core, CreditsHold, TokenCreditWasQuoted, PaidOrOverwritten, Settled
  <2>2. CASE s \notin deposits
    <3>1. PICK k \in Processors :
              /\ Credit(k) \/ CommitUnheard(k)
              /\ CreditTx(k) /\ s = Deposit(k) /\ s \in Deposits /\ Verified(s)
              /\ Working(k) /\ (seen[k] = "paid" => Settled(MemoOf[s]))
      BY <2>2, Credited
    <3>2. MemoOf[s] \in Orders /\ (~IsSol(s) => Paid[s] \in offered'[MemoOf[s]])
      BY <1>1, <3>1, OffersGrow DEF Verified
    <3>3. CASE seen[k] = "paid"
      BY <1>1, <3>1, <3>2, <3>3, SettledStays
    <3>4. CASE seen[k] # "paid"
      <4>1. PICK o \in Orders : o = MemoOf[s] /\ MarkPaid(k, o, s)
        BY <3>1, <3>2 DEF CreditTx
      <4>2. order \in [Orders -> OrderRow] /\ order[o] \in OrderRow
        BY <1>1 DEF TypeOK, TablesOK
      <4>3. CASE order[o].status = "paid"
        BY <3>2, <3>4, <4>1, <4>3 DEF MarkPaid, Settled
      <4>4. CASE order[o].status # "paid"
        <5>1. order'[o] = [order[o] EXCEPT !.status = "paid", !.by = s]
          BY <3>4, <4>1, <4>2, <4>4 DEF MarkPaid
        <5>2. order'[o].status = "paid"
          BY <4>2, <5>1 DEF OrderRow
        <5> QED BY <3>2, <4>1, <5>2 DEF Settled
      <4> QED BY <4>3, <4>4
    <3> QED BY <3>2, <3>3, <3>4
  <2> QED BY <2>1, <2>2
<1>3. CreditsHold' /\ PaidOrOverwritten'
  BY <1>2 DEF CreditsHold, PaidOrOverwritten, Settled
<1>4. TokenCreditWasQuoted'
  BY <1>2 DEF TokenCreditWasQuoted, IsSol
<1> QED BY <1>3, <1>4

\* ... a quote an order has was offered, and its payer is credited for it ...
LEMMA KeepsOrders ==
    ASSUME Core, [Next]_vars
    PROVE  QuotesHold' /\ PaidByItsDeposit'
<1>1. /\ TypeOK /\ order \in [Orders -> OrderRow] /\ offered \in [Orders -> SUBSET Offers]
      /\ QuotesHold /\ PaidByItsDeposit /\ deposits \subseteq deposits'
  BY RecordsGrow DEF Core, TypeOK, TablesOK
<1> SUFFICES ASSUME NEW o \in Orders
             PROVE  /\ order'[o].quote # None => order'[o].quote \in offered'[o]
                    /\ order'[o].status = "paid" =>
                          order'[o].by \in deposits' /\ MemoOf[order'[o].by] = o
  BY DEF QuotesHold, PaidByItsDeposit
<1>2. CASE order'[o] = order[o]
  BY <1>1, <1>2, OffersGrow DEF QuotesHold, PaidByItsDeposit
<1>3. ASSUME NEW q \in Quoters, NEW offer \in Offers, QuoteWrite(q, offer), order'[o] # order[o]
      PROVE  /\ order'[o].quote \in offered'[o]
             /\ order'[o].status = "paid" =>
                   order'[o].by \in deposits' /\ MemoOf[order'[o].by] = o
  <2>1. call[q].at = "quoting" /\ call[q].copy \in OrderRow
    BY <1>1, <1>3 DEF QuoteWrite, TypeOK, CallsOK
  <2>2. call[q].order = o
    BY <1>1, <1>3 DEF QuoteWrite
  <2>3. order'[o] = [call[q].copy EXCEPT !.quote = offer] /\ offer \in offered'[o]
    BY <1>1, <1>3, <2>2 DEF QuoteWrite
  <2>4. /\ order'[o].quote = offer /\ order'[o].status = call[q].copy.status
        /\ order'[o].by = call[q].copy.by
    BY <2>1, <2>3 DEF OrderRow
  <2> QED BY <1>1, <2>1, <2>2, <2>3, <2>4 DEF Core, CopiesHold
<1>4. ASSUME NEW k \in Processors, Credit(k) \/ CommitUnheard(k), CreditTx(k),
             UNCHANGED <<offered, call>>, order'[o] # order[o]
      PROVE  /\ order'[o].quote = order[o].quote
             /\ order'[o].by \in deposits' /\ MemoOf[order'[o].by] = o
  <2>1. order' = [order EXCEPT ![MemoOf[Deposit(k)]] =
                     [@ EXCEPT !.status = "paid", !.by = Deposit(k)]]
    BY <1>4 DEF CreditTx, MarkPaid
  <2>2. o = MemoOf[Deposit(k)]
    BY <1>1, <1>4, <2>1
  <2>3. order'[o] = [order[o] EXCEPT !.status = "paid", !.by = Deposit(k)]
    BY <1>1, <2>1, <2>2
  <2>4. order'[o].quote = order[o].quote /\ order'[o].by = Deposit(k)
    BY <1>1, <2>3 DEF OrderRow
  <2> QED BY <1>4, <2>2, <2>4 DEF CreditTx
<1> QED BY <1>1, <1>2, <1>3, <1>4, OrdersMove DEF QuotesHold

\* ... a call's copy is the row it read ...
LEMMA KeepsCopies ==
    ASSUME Core, [Next]_vars
    PROVE  CopiesHold'
<1>1. TypeOK /\ call \in [Quoters -> Call] /\ CopiesHold /\ deposits \subseteq deposits'
  BY RecordsGrow DEF Core, TypeOK, CallsOK
<1> SUFFICES ASSUME NEW q \in Quoters, call'[q].at # "start", call'[q].copy.status = "paid"
             PROVE  call'[q].copy.by \in deposits' /\ MemoOf[call'[q].copy.by] = call'[q].order
  BY DEF CopiesHold
<1>2. CASE call'[q] = call[q]
  BY <1>1, <1>2 DEF CopiesHold
<1>3. ASSUME NEW o \in Orders, QuoteStart(q, o)
      PROVE  call'[q].copy = order[o] /\ call'[q].order = o
  BY <1>1, <1>3 DEF QuoteStart
<1>4. ASSUME NEW offer \in Offers, QuoteWrite(q, offer)
      PROVE  /\ call[q].at = "quoting"
             /\ call'[q].copy = call[q].copy /\ call'[q].order = call[q].order
  <2>1. call'[q] = [call[q] EXCEPT !.at = "done", !.over = order[call[q].order].status]
    BY <1>1, <1>4 DEF QuoteWrite
  <2> QED BY <1>1, <1>4, <2>1 DEF QuoteWrite, Call
<1> QED BY <1>1, <1>2, <1>3, <1>4, CallsMove DEF CopiesHold, Core, PaidByItsDeposit

\* ... an ack follows the credit or the letter.
LEMMA PendingMoves ==
    ASSUME TypeOK, [Next]_vars, NEW i \in 1..read, i \in pending
    PROVE  \/ i \in pending'
           \/ \E k \in Processors : Xack(k) /\ i = Current(k)
           \/ \E j \in Entries : Redeliver(j) /\ i = j
<1>1. ASSUME NEW k \in Processors, Fetch(k) PROVE i \in pending'
  BY <1>1, FetchPlaces DEF TypeOK
<1> QED BY <1>1 DEF Next, vars, redis, Work, Break, QuoteStart, QuoteWrite, Publish, Redeliver,
                    Reclaim, FindOrder, DeadLetter, InsertDeposit, Credit, Xack,
                    FindOrderFails, LeaveOnError, CommitUnheard, Crash

LEMMA ReadMoves ==
    ASSUME TypeOK, [Next]_vars, NEW i \in Entries, i > read
    PROVE  i > read' \/ i \in pending'
<1>1. ASSUME NEW k \in Processors, Fetch(k) PROVE i > read' \/ i \in pending'
  <2>1. pending' = pending \cup (read + 1)..read' /\ read' \in Nat /\ read \in Nat
    BY <1>1, FetchPlaces DEF TypeOK, StreamOK
  <2> QED BY <2>1 DEF Entries
<1> QED BY <1>1 DEF Next, vars, redis, Work, Break, QuoteStart, QuoteWrite, Publish, Redeliver,
                    Reclaim, FindOrder, DeadLetter, InsertDeposit, Credit, Xack,
                    FindOrderFails, LeaveOnError, CommitUnheard, Crash

LEMMA AppendedIsNew ==
    ASSUME TypeOK, [Next]_vars, stream' # stream
    PROVE  Len(stream) + 1 \in Entries' /\ Len(stream) + 1 > read'
<1>1. Len(stream) \in Nat /\ read \in 0..Len(stream)
  BY DEF TypeOK, StreamOK
<1>2. UNCHANGED read
  BY DEF Next, vars, redis, Work, Break, QuoteStart, QuoteWrite, Publish, Redeliver, Fetch, Reclaim,
         FindOrder, DeadLetter, InsertDeposit, Credit, Xack,
         FindOrderFails, LeaveOnError, CommitUnheard, Crash
<1> QED BY <1>1, <1>2, StreamGrows DEF Entries

LEMMA KeepsAcked ==
    ASSUME IInv, [Next]_vars
    PROVE  AckedIsSettled'
<1>1. TypeOK /\ StepsHold /\ AckedIsSettled
  BY DEF IInv, Core
<1> SUFFICES ASSUME NEW s \in Deposits, s \notin deposits' \cup dead', Copies(s)' # {}
             PROVE  \E i \in Copies(s)' : i > read' \/ i \in pending'
  BY DEF AckedIsSettled
<1>2. s \notin deposits \cup dead
  BY RecordsGrow
<1>3. CASE Copies(s) = {}
  <2>1. PICK i \in Entries' : stream'[i] = s
    BY DEF Copies
  <2>2. i \notin Entries
    BY <1>1, <1>3, <2>1, StreamGrows DEF Copies
  <2>3. stream' # stream /\ i = Len(stream) + 1
    BY <1>1, <2>1, <2>2, StreamGrows DEF Entries
  <2> QED BY <1>1, <2>1, <2>3, AppendedIsNew DEF Copies
<1>4. ASSUME NEW i \in Copies(s), i > read \/ i \in pending
      PROVE  \E j \in Copies(s)' : j > read' \/ j \in pending'
  <2>1. i \in Entries /\ stream[i] = s /\ i \in Copies(s)'
    BY <1>1, <1>4, StreamGrows DEF Copies
  <2>2. CASE i > read
    BY <1>1, <2>1, <2>2, ReadMoves
  <2>3. CASE i \in pending'
    BY <2>1, <2>3
  <2>4. ASSUME NEW k \in Processors, Xack(k), i = Current(k) PROVE FALSE
    <3>1. pc[k] = "ack" /\ Deposit(k) = s
      BY <2>1, <2>4 DEF Xack, Deposit
    <3> QED BY <1>1, <1>2, <3>1 DEF StepsHold
  <2>5. ASSUME Redeliver(i) PROVE \E j \in Copies(s)' : j > read'
    <3>1. stream' = Append(stream, s) /\ stream \in Seq(Deposits)
      BY <1>1, <2>1, <2>5 DEF Redeliver, TypeOK, StreamOK
    <3>2. stream' # stream /\ stream'[Len(stream) + 1] = s
      BY <3>1
    <3>3. Len(stream) + 1 \in Copies(s)' /\ Len(stream) + 1 > read'
      BY <1>1, <3>2, AppendedIsNew DEF Copies
    <3> QED BY <3>3
  <2>6. i \in pending => i \in 1..read
    BY <1>1 DEF TypeOK, StreamOK
  <2> QED BY <1>1, <1>4, <2>2, <2>3, <2>4, <2>5, <2>6, PendingMoves
<1> QED BY <1>1, <1>2, <1>3, <1>4 DEF AckedIsSettled

\* ... the index entry keeps other transactions of a deposit out ...
LEMMA KeepsInserts ==
    ASSUME Core, [Next]_vars
    PROVE  InsertsHold'
<1>1. TypeOK /\ InsertsHold
  BY DEF Core
<1>2. ASSUME NEW k \in Processors, pc'[k] = "commit"
      PROVE  /\ Deposit(k)' = Deposit(k)
             /\ \/ pc[k] = "commit"
                \/ /\ InsertDeposit(k) /\ ~Inserting(Deposit(k)) /\ Deposit(k) \notin deposits
                   /\ UNCHANGED deposits
                   /\ \A j \in Processors : j # k => pc'[j] = pc[j]
  <2>1. Working(k) /\ inbox'[k] = inbox[k] /\ (pc'[k] = pc[k] \/ InsertDeposit(k))
    BY <1>1, <1>2, Moves
  <2>2. Deposit(k)' = Deposit(k)
    BY <1>1, <2>1, SameDeposit
  <2>3. InsertDeposit(k) => /\ ~Inserting(Deposit(k)) /\ Deposit(k) \notin deposits
                            /\ UNCHANGED deposits
                            /\ \A j \in Processors : j # k => pc'[j] = pc[j]
    BY <1>1, <1>2 DEF InsertDeposit, Goto, TypeOK, ProcessorsOK, db
  <2> QED BY <1>2, <2>1, <2>2, <2>3
<1>3. ASSUME NEW k \in Processors, pc'[k] = "commit", NEW j \in Processors, pc'[j] = "commit",
             Deposit(j) = Deposit(k)
      PROVE  j = k
  BY <1>1, <1>2, <1>3 DEF InsertsHold, Inserting
<1>4. ASSUME NEW k \in Processors, pc'[k] = "commit", Deposit(k) \in deposits' PROVE FALSE
  <2>1. pc[k] = "commit" /\ Deposit(k) \notin deposits
    BY <1>1, <1>2, <1>4 DEF InsertsHold
  <2>2. PICK j \in Processors : (Credit(j) \/ CommitUnheard(j)) /\ CreditTx(j) /\ Deposit(j) = Deposit(k)
    BY <1>4, <2>1, Credited
  <2>3. pc[j] = "commit" /\ pc'[j] # "commit"
    BY <1>1, <2>2 DEF Credit, CommitUnheard, NextEntry, Goto, TypeOK, ProcessorsOK
  <2> QED BY <1>1, <1>4, <2>1, <2>2, <2>3 DEF InsertsHold
<1> QED BY <1>2, <1>3, <1>4 DEF InsertsHold

\* ... so that every credit is of a new row, and is what the row adds.
LEMMA KeepsBalance ==
    ASSUME Core, [Next]_vars
    PROVE  IsFiniteSet(deposits)' /\ BalanceIsDeposits'
<1>1. /\ TypeOK /\ InsertsHold /\ IsFiniteSet(deposits) /\ BalanceIsDeposits
      /\ deposits \in SUBSET Deposits /\ balance \in [Accounts -> Nat]
  BY DEF Core, TypeOK, TablesOK
<1>2. \A S : AmountOf(S) = SumOf(AmountPaid, S)
  BY Zenon DEF AmountOf, SumOf
<1>3. \A s \in Deposits : AmountPaid[s] = Paid[s].amount /\ AmountPaid[s] \in Nat
  BY ConstantsAssumption DEF AmountPaid, Quote
<1>4. CASE UNCHANGED <<deposits, balance>>
  BY <1>1, <1>4 DEF BalanceIsDeposits
<1>5. ASSUME NEW k \in Processors, Credit(k) \/ CommitUnheard(k), CreditTx(k)
      PROVE  IsFiniteSet(deposits)' /\ BalanceIsDeposits'
  <2> DEFINE d == Deposit(k)
             a == <<MerchantOf[MemoOf[d]], EntryMint(d)>>
             At(S, m, t) == {s \in S : MerchantOf[MemoOf[s]] = m /\ EntryMint(s) = t}
  <2>1. pc[k] = "commit" /\ Working(k)
    BY <1>5 DEF Credit, CommitUnheard, Working
  <2>2. d \in Deposits /\ d \notin deposits
    BY <1>1, <2>1, CurrentEntry DEF InsertsHold, TypeOK
  <2>3. deposits' = deposits \cup {d} /\ balance' = [balance EXCEPT ![a] = @ + Paid[d].amount]
    BY <1>5 DEF CreditTx
  <2> HIDE DEF d
  <2>4. IsFiniteSet(deposits')
    BY <1>1, <2>3, FS_AddElement
  <2>5. ASSUME NEW m \in Merchants, NEW t \in Mints \cup {NoMint}
        PROVE  balance'[<<m, t>>] = AmountOf(At(deposits', m, t))
    <3> DEFINE S == At(deposits, m, t)
    <3>1. <<m, t>> \in Accounts /\ balance[<<m, t>>] = SumOf(AmountPaid, S)
      BY <1>1, <1>2 DEF Accounts, BalanceIsDeposits
    <3>2. S \in SUBSET deposits
      OBVIOUS
    <3>3. IsFiniteSet(S) /\ \A s \in S : AmountPaid[s] \in Nat
      BY <1>1, <1>3, <3>2, FS_Subset
    <3>4. d \notin S
      BY <2>2
    <3>5. CASE a = <<m, t>>
      <4>1. At(deposits', m, t) = S \cup {d}
        BY <2>3, <3>5
      <4>2. balance'[<<m, t>>] = balance[<<m, t>>] + AmountPaid[d]
        BY <1>1, <1>3, <2>2, <2>3, <3>1, <3>5
      <4> HIDE DEF S, At
      <4>3. SumOf(AmountPaid, S \cup {d}) = AmountPaid[d] + SumOf(AmountPaid, S)
        BY <1>3, <2>2, <3>3, <3>4, SumAdd
      <4>4. SumOf(AmountPaid, S) \in Nat /\ AmountPaid[d] \in Nat
        BY <1>3, <2>2, <3>3, SumNatural
      <4>5. balance'[<<m, t>>] = SumOf(AmountPaid, S) + AmountPaid[d]
        BY <3>1, <4>2
      <4>6. balance'[<<m, t>>] = SumOf(AmountPaid, S \cup {d})
        BY <4>3, <4>4, <4>5
      <4> QED BY <1>2, <4>1, <4>6
    <3>6. CASE a # <<m, t>>
      <4>1. At(deposits', m, t) = S
        BY <2>3, <3>6
      <4>2. balance'[<<m, t>>] = balance[<<m, t>>]
        <5> HIDE DEF a
        <5> QED BY <1>1, <2>3, <3>1, <3>6
      <4> QED BY <1>2, <3>1, <4>1, <4>2
    <3> QED BY <3>5, <3>6
  <2> HIDE DEF a
  <2>6. BalanceIsDeposits'
    BY <2>5 DEF BalanceIsDeposits, EntryMint, IsSol
  <2> QED BY <2>4, <2>6
<1>6. \/ UNCHANGED <<deposits, balance>>
      \/ \E k \in Processors : (Credit(k) \/ CommitUnheard(k)) /\ CreditTx(k)
  BY DEF Next, vars, db, Work, Break, QuoteStart, QuoteWrite, Publish, Redeliver, Fetch, Reclaim,
         FindOrder, DeadLetter, InsertDeposit, Credit, Xack, FindOrderFails, LeaveOnError,
         CommitUnheard, Crash
<1> QED BY <1>4, <1>5, <1>6

LEMMA CoreStep == Core /\ [Next]_vars => Core'
<1> SUFFICES ASSUME Core, [Next]_vars PROVE Core'
  OBVIOUS
<1>1. TypeOK'
  BY TypeStep DEF Core
<1> QED BY <1>1, KeepsSteps, KeepsCredits, KeepsOrders, KeepsCopies, KeepsInserts, KeepsBalance
        DEF Core

\* Nor does it mind entries that someone takes off the pending list, or faults
\* elsewhere.
LEMMA PendingForgotten ==
    ASSUME Core, UNCHANGED <<db, call, stream, read, consumer, offered>>,
           pending' \subseteq pending, faults' \in 0..MaxFaults
    PROVE  Core'
<1>1. TypeOK'
  BY DEF Core, TypeOK, TablesOK, CallsOK, StreamOK, ProcessorsOK, db, consumer
<1>2. \A k \in Processors : Deposit(k)' = Deposit(k)
  BY DEF Deposit, Current, consumer
<1>3. InsertsHold' /\ StepsHold'
  BY <1>2 DEF Core, InsertsHold, StepsHold, Verified, Settled, Overwritten, db, consumer
<1>4. /\ IsFiniteSet(deposits)' /\ BalanceIsDeposits' /\ CreditsHold'
      /\ TokenCreditWasQuoted' /\ PaidOrOverwritten'
  BY DEF Core, BalanceIsDeposits, CreditsHold, TokenCreditWasQuoted, PaidOrOverwritten, Overwritten, db
<1>5. CopiesHold' /\ QuotesHold' /\ PaidByItsDeposit'
  BY DEF Core, CopiesHold, QuotesHold, PaidByItsDeposit, db
<1> QED BY <1>1, <1>3, <1>4, <1>5 DEF Core

LEMMA Invariance == Spec => []IInv
<1>1. IInv /\ [Next]_vars => IInv'
  BY CoreStep, KeepsAcked DEF IInv
<1> QED BY <1>1, InvInit, PTL DEF Spec

----------------------------------------------------------------------------
(* Theorems *)

\* "nothing is silently dropped" (processor/src/main.rs): a deposit all of whose
\* entries are acked was credited or is in dead_letter.
THEOREM NothingDropped == Spec => []AckedIsSettled
<1>1. IInv => AckedIsSettled
  BY DEF IInv
<1> QED BY <1>1, Invariance, PTL

\* A paid order names a deposit that was credited, and made for it.
THEOREM PayerIsCredited == Spec => []PaidByItsDeposit
<1>1. IInv => PaidByItsDeposit
  BY DEF IInv, Core
<1> QED BY <1>1, Invariance, PTL

\* "balance credited, order marked paid": a credited deposit's order is paid,
\* unless a quote call that had read it as pending wrote its copy over the paid
\* row (update_order in api/src/routes/payment.rs).
THEOREM CreditMarks == Spec => []PaidOrOverwritten
<1>1. IInv => PaidOrOverwritten
  BY DEF IInv, Core
<1> QED BY <1>1, Invariance, PTL

\* A token deposit is credited only for exactly what its order was quoted,
\* whatever calls quoted the order anew in the meantime.
THEOREM TokenCreditQuoted == Spec => []TokenCreditWasQuoted
<1>1. IInv => TokenCreditWasQuoted
  BY DEF IInv, Core
<1> QED BY <1>1, Invariance, PTL

\* conservation: every balance is what the deposits recorded for it add up to,
\* each counted once, however often it was delivered and wherever its processor
\* died (insert_deposit_on_conflict gates the credit).
THEOREM EveryCreditCountsOnce == Spec => []BalanceIsDeposits
<1>1. IInv => BalanceIsDeposits
  BY DEF IInv, Core
<1> QED BY <1>1, Invariance, PTL
=============================================================================

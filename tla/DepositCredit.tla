---------------------------- MODULE DepositCredit ----------------------------
(***************************************************************************)
(* The credit path: the payment_transactions stream with its consumer       *)
(* group, the processors (processor/src/main.rs), the orders, deposits,     *)
(* balances and dead_letter tables (store/src/models/api.rs), and the API's *)
(* create_payment_tx (api/src/routes/payment.rs), which quotes an order in  *)
(* a read-modify-write of its row.                                          *)
(*                                                                          *)
(* One action is one Redis command, one autocommitted statement, or the     *)
(* opening or the commit of the crediting transaction, which holds the      *)
(* UNIQUE(tx_hash) index entry in between.  A processor may die, or a       *)
(* statement fail, at each of them; faults are capped by MaxFaults, what    *)
(* the poller adds of one deposit by MaxCopies, the stream by MaxEntries.   *)
(***************************************************************************)
EXTENDS Integers, Sequences, FiniteSets, FiniteSetsExt

CONSTANTS
    Orders,
    Merchants,
    MerchantOf,     \* of the order's app
    Mints,          \* tokens; Sol is the native one
    Sol,
    NoMint,         \* the empty mint the poller writes for a SOL deposit
    Tolerance,      \* lamports a SOL deposit may be off
    Deposits,       \* deposit signatures (tx_hash)
    MemoOf,         \* the order its memo names; None: no memo, order or app
    Paid,           \* what it transfers: [mint, amount]
    Offers,         \* quotes the API may compute
    QuoteAtFirst,   \* the quote an order starts with, or None
    Quoters,        \* calls of create_payment_tx
    Overlap,        \* may such a call span the crediting of its order?
    Processors,     \* consumers of the group
    Count,          \* COUNT of XREADGROUP
    Redelivery,     \* does someone put stranded entries back on the stream?
    None,
    MaxFaults, MaxCopies, MaxEntries

Quote == [mint : Mints, amount : Nat]

ASSUME ConstantsAssumption ==
    /\ MerchantOf \in [Orders -> Merchants]
    /\ Sol \in Mints /\ NoMint \notin Mints
    /\ Tolerance \in Nat
    /\ MemoOf \in [Deposits -> Orders \cup {None}]
    /\ Paid \in [Deposits -> Quote]
    /\ Offers \subseteq Quote
    /\ QuoteAtFirst \in [Orders -> Offers \cup {None}]
ASSUME NoneAssumption == None \notin Orders /\ None \notin Deposits /\ None \notin Quote
ASSUME BoundsAssumption ==
    /\ Count \in Nat \ {0}
    /\ MaxFaults \in Nat /\ MaxCopies \in Nat /\ MaxEntries \in Nat
    /\ {Overlap, Redelivery} \subseteq BOOLEAN

VARIABLES
    order,      \* orders: [status, by (tx_hash), quote (selected_mint, expected_amount)]
    deposits,   \* deposits: the tx_hashes
    balance,    \* balances, per merchant and mint
    dead,       \* dead_letter: the deposits recorded there
    call,       \* create_payment_tx calls: [at, order, copy, over], copy the row as
                \* read, over (history) the status of the row it was written over
    stream,     \* payment_transactions: the deposit each entry is for
    read,       \* how many entries the group has handed out
    pending,    \* handed out, not acked
    pc,         \* where each processor is
    inbox,      \* entries of the reply it is working through
    seen,       \* the order status it read
    offered,    \* history: the quotes an order has had
    faults

db == <<order, deposits, balance, dead>>
redis == <<stream, read, pending>>
consumer == <<pc, inbox, seen>>
vars == <<db, call, redis, consumer, offered, faults>>

----------------------------------------------------------------------------
OrderRow == [status : {"pending", "paid"},
             by     : Deposits \cup {None},
             quote  : Offers \cup {None}]

Accounts == Merchants \X (Mints \cup {NoMint})

Steps == {"read", "claim", "order", "credit", "commit", "dead", "ack"}

Entries == 1..Len(stream)

TablesOK ==
    /\ order \in [Orders -> OrderRow]
    /\ deposits \in SUBSET Deposits
    /\ balance \in [Accounts -> Nat]
    /\ dead \in SUBSET Deposits
    /\ offered \in [Orders -> SUBSET Offers]

Call == [at : {"start", "quoting", "done"},
         order : Orders \cup {None},
         copy : OrderRow \cup {None},
         over : {"pending", "paid", None}]

CallsOK ==
    /\ call \in [Quoters -> Call]
    /\ \A q \in Quoters :
          call[q].at # "start" => call[q].order \in Orders /\ call[q].copy \in OrderRow

StreamOK ==
    /\ stream \in Seq(Deposits)
    /\ read \in 0..Len(stream)
    /\ pending \in SUBSET (1..read)

ProcessorsOK ==
    /\ pc \in [Processors -> Steps]
    /\ inbox \in [Processors -> SUBSET (1..read)]
    /\ \A k \in Processors : pc[k] \in {"read", "claim"} <=> inbox[k] = {}
    /\ seen \in [Processors -> {"pending", "paid"}]

TypeOK == TablesOK /\ CallsOK /\ StreamOK /\ ProcessorsOK /\ faults \in 0..MaxFaults

NewOrder(o) == [status |-> "pending", by |-> None, quote |-> QuoteAtFirst[o]]

NoCall == [at |-> "start", order |-> None, copy |-> None, over |-> None]

Init ==
    /\ order = [o \in Orders |-> NewOrder(o)]
    /\ deposits = {}
    /\ balance = [a \in Accounts |-> 0]
    /\ dead = {}
    /\ call = [q \in Quoters |-> NoCall]
    /\ stream = <<>>
    /\ read = 0
    /\ pending = {}
    /\ pc = [k \in Processors |-> "read"]
    /\ inbox = [k \in Processors |-> {}]
    /\ seen = [k \in Processors |-> "pending"]
    /\ offered = [o \in Orders |-> {QuoteAtFirst[o]} \ {None}]
    /\ faults = 0

----------------------------------------------------------------------------
(* create_payment_tx: read the order, ask the outside world for a price,    *)
(* write the row back.                                                      *)

QuoteStart(q, o) ==
    /\ call[q].at = "start"
    /\ call' = [call EXCEPT ![q] = [at |-> "quoting", order |-> o, copy |-> order[o],
                                    over |-> None]]
    /\ UNCHANGED <<db, redis, consumer, offered, faults>>

\* update_order sets status and tx_hash too, from the copy that was read.
QuoteWrite(q, offer) ==
    LET o == call[q].order IN
    /\ call[q].at = "quoting"
    /\ Overlap \/ call[q].copy.status = order[o].status
    /\ order' = [order EXCEPT ![o] = [call[q].copy EXCEPT !.quote = offer]]
    /\ offered' = [offered EXCEPT ![o] = @ \cup {offer}]
    /\ call' = [call EXCEPT ![q] = [@ EXCEPT !.at = "done", !.over = order[o].status]]
    /\ UNCHANGED <<deposits, balance, dead, redis, consumer, faults>>

----------------------------------------------------------------------------
(* The stream *)

Copies(s) == {i \in Entries : stream[i] = s}

\* The poller's XADD; its next round may see the same signature again.
Publish(s) ==
    /\ Cardinality(Copies(s)) < MaxCopies /\ Len(stream) < MaxEntries
    /\ stream' = Append(stream, s)
    /\ UNCHANGED <<db, call, read, pending, consumer, offered, faults>>

\* An entry no processor holds is acked and added anew, as the test harness does
\* in place of a redelivery (harness/src/fixtures.rs, reclaim_and_ack).
Redeliver(i) ==
    /\ Redelivery
    /\ i \in pending
    /\ \A k \in Processors : i \notin inbox[k]
    /\ Len(stream) < MaxEntries
    /\ pending' = pending \ {i}
    /\ stream' = Append(stream, stream[i])
    /\ UNCHANGED <<db, call, read, consumer, offered, faults>>

----------------------------------------------------------------------------
(* The processor's loop *)

Current(k) == CHOOSE i \in inbox[k] : \A j \in inbox[k] : i <= j
Deposit(k) == stream[Current(k)]

Goto(k, step) == pc' = [pc EXCEPT ![k] = step]

NextEntry(k) ==
    LET left == inbox[k] \ {Current(k)} IN
    /\ inbox' = [inbox EXCEPT ![k] = left]
    /\ Goto(k, IF left = {} THEN "claim" ELSE "order")

\* XREADGROUP ... >: the next entries nobody was handed, Count at most.
\* (FetchOverreads counts what it asked for as read.)
FetchOverreads(k) ==
    /\ pc[k] = "read"
    /\ read' = read + Count
    /\ pending' = pending \cup (read + 1)..(read + Count)
    /\ Goto(k, "claim")
    /\ UNCHANGED <<db, call, stream, inbox, seen, offered, faults>>

Fetch(k) ==
    LET n == IF Len(stream) - read < Count THEN Len(stream) - read ELSE Count
        got == (read + 1)..(read + n)
    IN  /\ pc[k] = "read"
        /\ read' = read + n
        /\ pending' = pending \cup got
        /\ inbox' = [inbox EXCEPT ![k] = got]
        /\ Goto(k, IF got = {} THEN "claim" ELSE "order")
        /\ UNCHANGED <<db, call, stream, seen, offered, faults>>

\* XAUTOCLAIM: its reply goes through the parser that finds nothing in it
\* (StreamReply, ReclaimYieldsNothing).
Reclaim(k) ==
    /\ pc[k] = "claim"
    /\ Goto(k, "read")
    /\ UNCHANGED <<db, call, redis, inbox, seen, offered, faults>>

\* verify_sol_transaction and verify_token_transaction.
\* (VerifiesMint looks at the mint only.)
IsSol(s) == Paid[s].mint = Sol

Expected(o) == IF order[o].quote = None THEN 0 ELSE order[o].quote.amount

VerifiesSol(o, s) ==
    /\ IsSol(s)
    /\ Expected(o) - Paid[s].amount \in -Tolerance..Tolerance

VerifiesToken(o, s) ==
    /\ ~IsSol(s)
    /\ order[o].quote = Paid[s]

VerifiesMint(o, s) == order[o].quote # None /\ order[o].quote.mint = Paid[s].mint
Verifies(o, s) == VerifiesSol(o, s) \/ VerifiesToken(o, s)

Creditable(s) == MemoOf[s] # None /\ Verifies(MemoOf[s], s)

\* The order is looked up by the memo and the deposit verified against it.
\* (FindOrderMarking marks the order paid at once, ahead of the credit.)
FindOrderMarking(k) ==
    LET s == Deposit(k)
        o == MemoOf[s]
    IN  /\ pc[k] = "order"
        /\ Creditable(s)
        /\ order' = [order EXCEPT ![o] = [@ EXCEPT !.status = "paid", !.by = s]]
        /\ Goto(k, "credit")
        /\ UNCHANGED <<deposits, balance, dead, seen, call, redis, inbox, offered, faults>>

FindOrder(k) ==
    /\ pc[k] = "order"
    /\ \/ /\ Creditable(Deposit(k))
          /\ seen' = [seen EXCEPT ![k] = order[MemoOf[Deposit(k)]].status]
          /\ Goto(k, "credit")
       \/ /\ ~Creditable(Deposit(k))
          /\ Goto(k, "dead")
          /\ UNCHANGED seen
    /\ UNCHANGED <<db, call, redis, inbox, offered, faults>>

Fault == faults < MaxFaults /\ faults' = faults + 1

\* Any error of that query is taken for "no order".
FindOrderFails(k) ==
    /\ pc[k] = "order"
    /\ Fault
    /\ Goto(k, "dead")
    /\ UNCHANGED <<db, call, redis, inbox, seen, offered>>

\* dead_letter, a transaction of its own.
\* (DeadLetterSkipped goes straight on to the ack.)
DeadLetterSkipped(k) ==
    /\ pc[k] = "dead"
    /\ Goto(k, "ack")
    /\ UNCHANGED <<db, call, redis, inbox, seen, offered, faults>>

DeadLetter(k) ==
    /\ pc[k] = "dead"
    /\ dead' = dead \cup {Deposit(k)}
    /\ Goto(k, "ack")
    /\ UNCHANGED <<order, deposits, balance, call, redis, inbox, seen, offered, faults>>

\* An open transaction's index entry makes a second insert of it wait.
Inserting(s) == \E j \in Processors : pc[j] = "commit" /\ Deposit(j) = s

\* insert_deposit_on_conflict: first delivery, or a duplicate.
\* (InsertUnlocked only looks, as a SELECT ahead of the insert would.)
InsertUnlocked(k) ==
    /\ pc[k] = "credit"
    /\ Goto(k, IF Deposit(k) \in deposits THEN "ack" ELSE "commit")
    /\ UNCHANGED <<db, call, redis, inbox, seen, offered, faults>>

InsertDeposit(k) ==
    /\ pc[k] = "credit"
    /\ ~Inserting(Deposit(k))
    /\ Goto(k, IF Deposit(k) \in deposits THEN "ack" ELSE "commit")
    /\ UNCHANGED <<db, call, redis, inbox, seen, offered, faults>>

\* The mint the entry carries: the empty one is a mint like any other.
EntryMint(s) == IF IsSol(s) THEN NoMint ELSE Paid[s].mint

\* upsert_balance and mark_order_paid become durable with the deposit's row.
\* (MarkSkipped leaves the order as it is.)
MarkSkipped(k, o, s) == UNCHANGED order

MarkPaid(k, o, s) ==
    IF seen[k] # "paid" /\ order[o].status # "paid"
      THEN order' = [order EXCEPT ![o] = [@ EXCEPT !.status = "paid", !.by = s]]
      ELSE UNCHANGED order

CreditTx(k) ==
    LET s == Deposit(k)
        o == MemoOf[s]
    IN  /\ deposits' = deposits \cup {s}
        /\ balance' = [balance EXCEPT ![<<MerchantOf[o], EntryMint(s)>>] = @ + Paid[s].amount]
        /\ MarkPaid(k, o, s)
        /\ UNCHANGED dead

Credit(k) ==
    /\ pc[k] = "commit"
    /\ CreditTx(k)
    /\ Goto(k, "ack")
    /\ UNCHANGED <<call, redis, inbox, seen, offered, faults>>

Xack(k) ==
    /\ pc[k] = "ack"
    /\ pending' = pending \ {Current(k)}
    /\ NextEntry(k)
    /\ UNCHANGED <<db, call, stream, read, seen, offered, faults>>

----------------------------------------------------------------------------
(* Faults *)

\* A statement or the XACK fails: what is open rolls back, the entry is left
\* un-acked.  (AckOnError acks it.)
AckOnError(k) ==
    /\ pc[k] \in {"order", "credit", "commit", "dead", "ack"}
    /\ Fault
    /\ pending' = pending \ {Current(k)}
    /\ NextEntry(k)
    /\ UNCHANGED <<db, call, stream, read, seen, offered>>

LeaveOnError(k) ==
    /\ pc[k] \in {"order", "credit", "commit", "dead", "ack"}
    /\ Fault
    /\ NextEntry(k)
    /\ UNCHANGED <<db, call, redis, seen, offered>>

\* The transaction commits but the processor is told of an error.
CommitUnheard(k) ==
    /\ pc[k] = "commit"
    /\ Fault
    /\ CreditTx(k)
    /\ NextEntry(k)
    /\ UNCHANGED <<call, redis, seen, offered>>

\* The processor dies, also of a failed Redis read, and is started again.
Crash(k) ==
    /\ Fault
    /\ inbox' = [inbox EXCEPT ![k] = {}]
    /\ Goto(k, "read")
    /\ UNCHANGED <<db, call, redis, seen, offered>>

----------------------------------------------------------------------------
Work(k) ==
    \/ Fetch(k) \/ Reclaim(k) \/ FindOrder(k) \/ DeadLetter(k)
    \/ InsertDeposit(k) \/ Credit(k) \/ Xack(k)

Break(k) == FindOrderFails(k) \/ LeaveOnError(k) \/ CommitUnheard(k) \/ Crash(k)

Next ==
    \/ \E q \in Quoters, o \in Orders : QuoteStart(q, o)
    \/ \E q \in Quoters, offer \in Offers : QuoteWrite(q, offer)
    \/ \E s \in Deposits : Publish(s)
    \/ \E i \in Entries : Redeliver(i)
    \/ \E k \in Processors : Work(k) \/ Break(k)

\* A running processor goes on.  Nobody has to put a stranded entry back.
Fairness == \A k \in Processors : WF_vars(Work(k))

Spec == Init /\ [][Next]_vars

FairSpec == Spec /\ Fairness

----------------------------------------------------------------------------
(* Properties *)

AmountPaid == [s \in Deposits |-> Paid[s].amount]
AmountOf(S) == MapThenSumSet(LAMBDA s : AmountPaid[s], S)

\* conservation (harness/src/oracles.rs): every balance is what the deposits
\* recorded for it add up to, each counted once however often it was delivered,
\* to however many processors, and wherever they died.
BalanceIsDeposits ==
    \A m \in Merchants, t \in Mints \cup {NoMint} :
       balance[<<m, t>>] =
          AmountOf({s \in deposits : MerchantOf[MemoOf[s]] = m /\ EntryMint(s) = t})

\* "nothing is silently dropped" (processor/src/main.rs): a deposit whose
\* entries are all acked was credited or is in dead_letter.
AckedIsSettled ==
    \A s \in Deposits :
       \/ s \in deposits \cup dead
       \/ Copies(s) = {}
       \/ \E i \in Copies(s) : i > read \/ i \in pending

\* A paid order names the deposit that paid it, credited and made for it.
PaidByItsDeposit ==
    \A o \in Orders :
       order[o].status = "paid" => order[o].by \in deposits /\ MemoOf[order[o].by] = o

\* A quote call that had read the order as pending has written its copy over
\* the row of the paid order.
Overwritten(o) ==
    \E q \in Quoters :
       /\ call[q].at = "done" /\ call[q].order = o
       /\ call[q].copy.status = "pending" /\ call[q].over = "paid"

\* "balance credited, order marked paid" (processor/src/main.rs), and "paid is
\* terminal" (idempotency/src/lifecycle.rs), with the one exception the code
\* has: a credited deposit's order is paid, unless a quote call that had read
\* it before it was paid came back after.
PaidOrOverwritten ==
    \A s \in deposits : order[MemoOf[s]].status = "paid" \/ Overwritten(MemoOf[s])

\* A token deposit is credited only for exactly what its order was quoted.
TokenCreditWasQuoted ==
    \A s \in deposits : ~IsSol(s) => Paid[s] \in offered[MemoOf[s]]

\* "SOL native mint, used as the deposit token when a stream entry omits an
\* explicit mint" and "Verify amount/mint. A mismatch is unverifiable ->
\* dead-letter, never a silent credit" (processor/src/main.rs): a credit goes
\* to a balance of a mint its order was quoted in.
CreditGoesToQuotedMint ==
    \A s \in deposits : \E q \in offered[MemoOf[s]] : q.mint = EntryMint(s)

\* An entry of the deposit is un-acked, and no processor has it in hand.
Stranded(s) ==
    \E i \in Copies(s) \cap pending : \A k \in Processors : i \notin inbox[k]

\* A deposit on the stream is eventually credited or recorded as dead: only a
\* fault can put it where the processor's loop leaves it, un-acked with nobody
\* at it.
EveryDepositSettles ==
    \A s \in Deposits :
       Copies(s) # {} ~> s \in deposits \cup dead \/ (faults > 0 /\ Stranded(s))
=============================================================================

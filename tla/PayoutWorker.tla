---------------------------- MODULE PayoutWorker ----------------------------
(***************************************************************************)
(* The payout path after a withdrawal is accepted: the withdrawals and      *)
(* balances tables (store/src/models/api.rs), the withdrawal_requests       *)
(* stream with its consumer group, the workers (worker/src/main.rs) and the *)
(* MPC signer they call (external/src/signer.rs).                           *)
(*                                                                          *)
(* One action is one database transaction, one Redis command, or one half   *)
(* of an HTTP exchange.  A worker may die between any two of them.  Faults  *)
(* (crashes, lost answers, failed statements) are capped by MaxFaults, the  *)
(* copies the relay publishes of one withdrawal by MaxCopies, the stream by *)
(* MaxEntries.                                                              *)
(***************************************************************************)
EXTENDS Integers, Sequences, FiniteSets, FiniteSetsExt, StreamReply

CONSTANTS
    Withdrawals,    \* withdrawal ids: the idempotency key of the send
    Accounts,       \* (merchant, token) pairs: the rows of balances
    AccountOf,      \* the account each withdrawal debits
    Amount,         \* its amount, of either sign: nothing asks for a positive one
    Funds,          \* what each account holds at first
    Workers,        \* consumers of the group
    Count,          \* COUNT of XREADGROUP
    OrphansArrive,  \* may a request outlive the connection it was sent on?
    GarbledAnswers, \* may a performed send be answered without a usable signature?
    Redelivery,     \* does someone put stranded entries back on the stream?
    MaxFaults, MaxCopies, MaxEntries

ASSUME DataAssumption ==
    /\ AccountOf \in [Withdrawals -> Accounts]
    /\ Amount \in [Withdrawals -> Int]
    /\ Funds \in [Accounts -> Nat]
ASSUME CountAssumption == Count \in Nat \ {0}
ASSUME BoundsAssumption ==
    /\ MaxFaults \in Nat /\ MaxCopies \in Nat /\ MaxEntries \in Nat
    /\ {OrphansArrive, GarbledAnswers, Redelivery} \subseteq BOOLEAN

VARIABLES
    status,     \* withdrawals.status, "none" before the row exists
    available,  \* balances.balance
    locked,     \* balances.locked_balance
    stream,     \* withdrawal_requests: the withdrawal each entry is for
    read,       \* how many entries the group has handed out
    pending,    \* the group's pending list: handed out, not acked
    pc,         \* where each worker is
    batch,      \* the reply it is working through: entries left, and what then
    signed,     \* withdrawals the signer has a signature for
    sends,      \* how often it performed the send of each
    orphans,    \* send requests on the wire whose sender is gone
    faults

db == <<status, available, locked>>
redis == <<stream, read, pending>>
consumer == <<pc, batch>>
signer == <<signed, sends, orphans>>
vars == <<db, redis, consumer, signer, faults>>

----------------------------------------------------------------------------
Open == {"pending", "processing"}
Terminal == {"completed", "failed"}
Status == {"none"} \cup Open \cup Terminal

Steps == {"claim", "fetch", "find", "lookup", "advance", "send", "await",
          "signed", "rejected", "ack"}

Entries == 1..Len(stream)

NoReply == [left |-> {}, then |-> "claim"]

TablesOK ==
    /\ status \in [Withdrawals -> Status]
    /\ available \in [Accounts -> Int]
    /\ locked \in [Accounts -> Int]

StreamOK ==
    /\ stream \in Seq(Withdrawals)
    /\ read \in 0..Len(stream)
    /\ pending \in SUBSET (1..read)

WorkersOK ==
    /\ pc \in [Workers -> Steps]
    /\ batch \in [Workers -> [left : SUBSET (1..read), then : {"claim", "fetch"}]]
    /\ \A k \in Workers : pc[k] \in {"claim", "fetch"} <=> batch[k].left = {}

SignerOK ==
    /\ signed \in SUBSET Withdrawals
    /\ sends \in [Withdrawals -> Nat]
    /\ orphans \in [Withdrawals -> Nat]

TypeOK == TablesOK /\ StreamOK /\ WorkersOK /\ SignerOK /\ faults \in 0..MaxFaults

Init ==
    /\ status = [w \in Withdrawals |-> "none"]
    /\ available = Funds
    /\ locked = [a \in Accounts |-> 0]
    /\ stream = <<>>
    /\ read = 0
    /\ pending = {}
    /\ pc = [k \in Workers |-> "claim"]
    /\ batch = [k \in Workers |-> NoReply]
    /\ signed = {}
    /\ sends = [w \in Withdrawals |-> 0]
    /\ orphans = [w \in Withdrawals |-> 0]
    /\ faults = 0

----------------------------------------------------------------------------
(* The rest of the system *)

\* create_withdrawal_and_lock with its outbox row, committed: enough funds, of
\* which a negative amount asks for none, and adds to what is available.
CreateWithdrawal(w) ==
    LET a == AccountOf[w] IN
    /\ status[w] = "none"
    /\ available[a] >= Amount[w]
    /\ status' = [status EXCEPT ![w] = "pending"]
    /\ available' = [available EXCEPT ![a] = @ - Amount[w]]
    /\ locked' = [locked EXCEPT ![a] = @ + Amount[w]]
    /\ UNCHANGED <<redis, consumer, signer, faults>>

Copies(w) == {i \in Entries : stream[i] = w}

\* The relay's XADD of a committed outbox row; a republished row is one more.
Publish(w) ==
    /\ status[w] # "none"
    /\ Cardinality(Copies(w)) < MaxCopies
    /\ stream' = Append(stream, w)
    /\ UNCHANGED <<db, read, pending, consumer, signer, faults>>

\* An entry no consumer holds is acked and added anew, as the test harness does
\* in place of a redelivery (harness/src/fixtures.rs, reclaim_and_ack).
Redeliver(i) ==
    /\ Redelivery
    /\ i \in pending
    /\ \A k \in Workers : i \notin batch[k].left
    /\ Len(stream) < MaxEntries
    /\ pending' = pending \ {i}
    /\ stream' = Append(stream, stream[i])
    /\ UNCHANGED <<db, read, consumer, signer, faults>>

\* A request whose sender is gone reaches the signer, which may reject it.
OrphanArrives(w) ==
    /\ orphans[w] > 0
    /\ orphans' = [orphans EXCEPT ![w] = @ - 1]
    /\ \/ /\ signed' = signed \cup {w}
          /\ sends' = [sends EXCEPT ![w] = @ + 1]
       \/ UNCHANGED <<signed, sends>>
    /\ UNCHANGED <<db, redis, consumer, faults>>

----------------------------------------------------------------------------
(* The worker's loop *)

\* Entries of a reply are handled in the order of their ids.
Current(k) == CHOOSE i \in batch[k].left : \A j \in batch[k].left : i <= j
Payout(k) == stream[Current(k)]

Goto(k, step) == pc' = [pc EXCEPT ![k] = step]

\* The next entry of the reply, or the command that follows its last one.
NextEntry(k) ==
    LET left == batch[k].left \ {Current(k)} IN
    /\ batch' = [batch EXCEPT ![k].left = left]
    /\ Goto(k, IF left = {} THEN batch[k].then ELSE "find")

Take(k, entries, then) ==
    /\ batch' = [batch EXCEPT ![k] = [left |-> entries, then |-> then]]
    /\ Goto(k, IF entries = {} THEN then ELSE "find")

\* What the group stores of entry i.
StreamEntry(i) == [id |-> i, fields |-> <<Data("data"), Data(stream[i])>>]

\* XAUTOCLAIM hands this worker what it says has been idle: any claimed
\* entries, in id order (whose they were is not tracked: nobody reads it).
InOrder(S) == [n \in 1..Cardinality(S) |-> CHOOSE i \in S : Cardinality({j \in S : j < i}) = n - 1]

Reclaim(k) ==
    /\ pc[k] = "claim"
    /\ \E idle \in SUBSET pending :
          LET claimed == [n \in 1..Cardinality(idle) |-> StreamEntry(InOrder(idle)[n])]
          IN  Take(k, Delivered(AutoclaimReply("0-0", claimed, <<>>)), "fetch")
    /\ UNCHANGED <<db, redis, signer, faults>>

\* XREADGROUP ... >: the next entries nobody was handed, Count at most; an
\* empty reply when it times out.
\* (FetchOverreads counts what it asked for as read.)
FetchOverreads(k) ==
    /\ pc[k] = "fetch"
    /\ read' = read + Count
    /\ pending' = pending \cup (read + 1)..(read + Count)
    /\ Take(k, {}, "claim")
    /\ UNCHANGED <<db, stream, signer, faults>>

Fetch(k) ==
    /\ pc[k] = "fetch"
    /\ LET n == IF Len(stream) - read < Count THEN Len(stream) - read ELSE Count
           new == [i \in 1..n |-> StreamEntry(read + i)]
           got == (read + 1)..(read + n)
       IN  /\ read' = read + n
           /\ pending' = pending \cup got
           /\ Take(k, Delivered(ReadGroupReply("withdrawal_requests", new)), "claim")
    /\ UNCHANGED <<db, stream, signer, faults>>

\* process_withdrawal: dispatch on the status as it is now.
Find(k) ==
    /\ pc[k] = "find"
    /\ \/ status[Payout(k)] \in Terminal /\ Goto(k, "ack")
       \/ status[Payout(k)] = "processing" /\ Goto(k, "lookup")
       \/ status[Payout(k)] = "pending" /\ Goto(k, "advance")
    /\ UNCHANGED <<db, redis, batch, signer, faults>>

\* "processing": a prior send is finalized, otherwise the send is made now.
\* (LookupSkipped sends again without asking; LookupTrusted takes any answer
\* for a signature.)
LookupTrusted(k) ==
    /\ pc[k] = "lookup"
    /\ Goto(k, "signed")
    /\ UNCHANGED <<db, redis, batch, signer, faults>>

LookupSkipped(k) ==
    /\ pc[k] = "lookup"
    /\ Goto(k, "send")
    /\ UNCHANGED <<db, redis, batch, signer, faults>>

Lookup(k) ==
    /\ pc[k] = "lookup"
    /\ Goto(k, IF Payout(k) \in signed THEN "signed" ELSE "send")
    /\ UNCHANGED <<db, redis, batch, signer, faults>>

\* set_withdrawal_processing matched its row: committed before the send.
\* (SendBeforeAdvance would leave the commit for later.)
SendBeforeAdvance(k) ==
    /\ pc[k] = "advance"
    /\ status[Payout(k)] = "pending"
    /\ Goto(k, "send")
    /\ UNCHANGED <<db, redis, batch, signer, faults>>

Advance(k) ==
    /\ pc[k] = "advance"
    /\ status[Payout(k)] = "pending"
    /\ status' = [status EXCEPT ![Payout(k)] = "processing"]
    /\ Goto(k, "send")
    /\ UNCHANGED <<available, locked, redis, batch, signer, faults>>

\* It matched no row: another worker was faster; the entry is left un-acked.
AdvanceRaced(k) ==
    /\ pc[k] = "advance"
    /\ status[Payout(k)] # "pending"
    /\ NextEntry(k)
    /\ UNCHANGED <<db, redis, signer, faults>>

IssueSend(k) ==
    /\ pc[k] = "send"
    /\ Goto(k, "await")
    /\ UNCHANGED <<db, redis, batch, signer, faults>>

Perform(w) ==
    /\ signed' = signed \cup {w}
    /\ sends' = [sends EXCEPT ![w] = @ + 1]
    /\ UNCHANGED orphans

\* The signer performs the send and its answer, a signature, comes back.
SignerAccepts(k) ==
    /\ pc[k] = "await"
    /\ Perform(Payout(k))
    /\ Goto(k, "signed")
    /\ UNCHANGED <<db, redis, batch, faults>>

\* A performed send answered with an error status, or with a success whose
\* signature is missing or unreadable: Rejected, NoSignature and
\* InvalidSignature are all one to the worker.
SignerAnswersGarbled(k) ==
    /\ GarbledAnswers
    /\ pc[k] = "await"
    /\ Perform(Payout(k))
    /\ Goto(k, "rejected")
    /\ UNCHANGED <<db, redis, batch, faults>>

\* A definite failure: the signer answers that it did not send.
SignerRejects(k) ==
    /\ pc[k] = "await"
    /\ Goto(k, "rejected")
    /\ UNCHANGED <<db, redis, batch, signer, faults>>

----------------------------------------------------------------------------
(* Finalizing: each is one transaction, gated on the status transition.     *)

\* finalize_withdrawal_success: the lock is spent.
\* (SpendAnyStatus and RefundAnyStatus do not look whether it is processing.)
SpendAnyStatus(w) ==
    /\ status' = [status EXCEPT ![w] = "completed"]
    /\ locked' = [locked EXCEPT ![AccountOf[w]] = @ - Amount[w]]
    /\ UNCHANGED available

Spend(w) ==
    IF status[w] = "processing"
      THEN /\ status' = [status EXCEPT ![w] = "completed"]
           /\ locked' = [locked EXCEPT ![AccountOf[w]] = @ - Amount[w]]
           /\ UNCHANGED available
      ELSE UNCHANGED db

\* finalize_withdrawal_failed: the lock goes back to the available balance.
\* (RefundKeepsLock credits without unlocking.)
RefundKeepsLock(w) ==
    IF status[w] = "processing"
      THEN /\ status' = [status EXCEPT ![w] = "failed"]
           /\ available' = [available EXCEPT ![AccountOf[w]] = @ + Amount[w]]
           /\ UNCHANGED locked
      ELSE UNCHANGED db

RefundAnyStatus(w) ==
    /\ status' = [status EXCEPT ![w] = "failed"]
    /\ locked' = [locked EXCEPT ![AccountOf[w]] = @ - Amount[w]]
    /\ available' = [available EXCEPT ![AccountOf[w]] = @ + Amount[w]]

Refund(w) ==
    IF status[w] = "processing"
      THEN /\ status' = [status EXCEPT ![w] = "failed"]
           /\ locked' = [locked EXCEPT ![AccountOf[w]] = @ - Amount[w]]
           /\ available' = [available EXCEPT ![AccountOf[w]] = @ + Amount[w]]
      ELSE UNCHANGED db

FinalizeSuccess(k) ==
    /\ pc[k] = "signed"
    /\ Spend(Payout(k))
    /\ Goto(k, "ack")
    /\ UNCHANGED <<redis, batch, signer, faults>>

FinalizeFailed(k) ==
    /\ pc[k] = "rejected"
    /\ Refund(Payout(k))
    /\ Goto(k, "ack")
    /\ UNCHANGED <<redis, batch, signer, faults>>

Xack(k) ==
    /\ pc[k] = "ack"
    /\ pending' = pending \ {Current(k)}
    /\ NextEntry(k)
    /\ UNCHANGED <<db, stream, read, signer, faults>>
----------------------------------------------------------------------------
(* Faults *)

Fault == faults < MaxFaults /\ faults' = faults + 1

\* What becomes of a request whose sender stops waiting for the answer: it was
\* never delivered, was performed, or is still on the wire.
Abandon(k) ==
    \/ UNCHANGED signer
    \/ /\ pc[k] = "await"
       /\ Perform(Payout(k))
    \/ /\ pc[k] = "await"
       /\ OrphansArrive
       /\ orphans' = [orphans EXCEPT ![Payout(k)] = @ + 1]
       /\ UNCHANGED <<signed, sends>>

\* SignerError::Transport from send: ambiguous, the entry is left un-acked.
\* (TransportAcked and AckOnError ack what they should leave.)
TransportAcked(k) ==
    /\ pc[k] = "await"
    /\ Fault
    /\ Abandon(k)
    /\ pending' = pending \ {Current(k)}
    /\ NextEntry(k)
    /\ UNCHANGED <<db, stream, read>>

TransportError(k) ==
    /\ pc[k] = "await"
    /\ Fault
    /\ Abandon(k)
    /\ NextEntry(k)
    /\ UNCHANGED <<db, redis>>

\* A statement, the lookup or the XACK fails: the entry is left un-acked.
AckOnError(k) ==
    /\ pc[k] \in {"find", "lookup", "advance", "send", "signed", "rejected"}
    /\ Fault
    /\ pending' = pending \ {Current(k)}
    /\ NextEntry(k)
    /\ UNCHANGED <<db, stream, read, signer>>

LeaveOnError(k) ==
    /\ pc[k] \in {"find", "lookup", "advance", "send", "signed", "rejected", "ack"}
    /\ Fault
    /\ NextEntry(k)
    /\ UNCHANGED <<db, redis, signer>>

\* A transaction commits but the worker is told of an error.
CommitUnheard(k) ==
    /\ \/ /\ pc[k] = "advance"
          /\ status[Payout(k)] = "pending"
          /\ status' = [status EXCEPT ![Payout(k)] = "processing"]
          /\ UNCHANGED <<available, locked>>
       \/ pc[k] = "signed" /\ Spend(Payout(k))
       \/ pc[k] = "rejected" /\ Refund(Payout(k))
    /\ Fault
    /\ NextEntry(k)
    /\ UNCHANGED <<redis, signer>>

\* The worker dies, also of a failed XAUTOCLAIM or XREADGROUP, and is started
\* again: what it was handed stays pending in the group.
Crash(k) ==
    /\ Fault
    /\ Abandon(k)
    /\ Goto(k, "claim")
    /\ batch' = [batch EXCEPT ![k] = NoReply]
    /\ UNCHANGED <<db, redis>>

----------------------------------------------------------------------------
Work(k) ==
    \/ Reclaim(k) \/ Fetch(k)
    \/ Find(k) \/ Lookup(k) \/ Advance(k) \/ AdvanceRaced(k)
    \/ IssueSend(k) \/ SignerAccepts(k) \/ SignerAnswersGarbled(k) \/ SignerRejects(k)
    \/ FinalizeSuccess(k) \/ FinalizeFailed(k) \/ Xack(k)

Break(k) == TransportError(k) \/ LeaveOnError(k) \/ CommitUnheard(k) \/ Crash(k)

Next ==
    \/ \E w \in Withdrawals : CreateWithdrawal(w) \/ Publish(w) \/ OrphanArrives(w)
    \/ \E i \in Entries : Redeliver(i)
    \/ \E k \in Workers : Work(k) \/ Break(k)

\* A running worker goes on and gets answers, and the relay publishes what it
\* has not published yet.  Nobody has to put a stranded entry back.
FirstPublish(w) == Copies(w) = {} /\ Publish(w)

Fairness ==
    /\ \A k \in Workers : WF_vars(Work(k))
    /\ \A w \in Withdrawals : WF_vars(FirstPublish(w))

Spec == Init /\ [][Next]_vars

FairSpec == Spec /\ Fairness

----------------------------------------------------------------------------
(* Properties *)

\* "Nothing is XACK-ed before its effect is durably committed" (docs/DESIGN.md
\* 2.4): a published withdrawal that is not terminal still has an entry that is
\* unread or un-acked, whatever raced, failed or crashed.
NotForgotten ==
    \A w \in Withdrawals :
       Copies(w) # {} /\ status[w] \in Open
          => \E i \in Copies(w) : i > read \/ i \in pending

\* A withdrawal is completed, and its lock spent, only on the signer's word
\* for that very withdrawal.
CompletedWasSent ==
    \A w \in Withdrawals : status[w] = "completed" => w \in signed

\* The commit of pending -> processing comes before anything is on its way to
\* the signer: a redelivery that reads "pending" cannot find a send behind it.
SentWasAdvanced ==
    \A w \in Withdrawals :
       \/ w \in signed
       \/ orphans[w] > 0
       \/ \E k \in Workers : pc[k] \in {"send", "await", "signed", "rejected"} /\ Payout(k) = w
       => status[w] \in {"processing"} \cup Terminal

\* However often a withdrawal is delivered, reconciled or finalized, its
\* terminal status stays what it first became.
TerminalIsFinal ==
    [][\A w \in Withdrawals : status[w] \in Terminal => status'[w] = status[w]]_vars

AmountOf(S) == MapThenSumSet(LAMBDA w : Amount[w], S)
Of(a, statuses) == {w \in Withdrawals : AccountOf[w] = a /\ status[w] \in statuses}

\* no_stranded (harness/src/oracles.rs): what an account has locked is exactly
\* the amount of its open withdrawals.
LockedBacksOpen ==
    \A a \in Accounts : locked[a] = AmountOf(Of(a, Open))

\* "The authoritative FOR UPDATE check" (api/src/routes/withdraw.rs) looks at
\* every debit but one: taking back the credit that a negative withdrawal was
\* until it failed.  Whoever finalizes, and however often, an account is
\* overdrawn by no more than that, and not at all if its amounts are positive.
Clawback(a) == {w \in Of(a, {"failed"}) : Amount[w] < 0}

OverdraftIsClawback ==
    \A a \in Accounts : available[a] >= AmountOf(Clawback(a))

\* conservation (harness/src/oracles.rs): an account's funds are available,
\* locked, or paid out by a completed withdrawal.
Conservation ==
    \A a \in Accounts :
       Funds[a] = available[a] + locked[a] + AmountOf(Of(a, {"completed"}))

\* at_most_once (harness/src/oracles.rs): the signer performs at most one send
\* for a withdrawal, exactly one for a completed one.
AtMostOneSend ==
    \A w \in Withdrawals : sends[w] <= 1 /\ (status[w] = "completed" => sends[w] = 1)

\* "a crash before the ack simply redelivers" (docs/DESIGN.md 2.4): an accepted
\* withdrawal is eventually paid out or refunded.
EveryPayoutEnds ==
    \A w \in Withdrawals : status[w] # "none" ~> status[w] \in Terminal
=============================================================================

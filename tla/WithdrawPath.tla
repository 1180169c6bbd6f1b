---------------------------- MODULE WithdrawPath ----------------------------
(***************************************************************************)
(* A withdrawal from end to end: the POST /withdrawals handler              *)
(* (api/src/routes/withdraw.rs) over the idempotency spine (IdemExecute),   *)
(* the outbox and its relay (Outbox), and the payout workers                *)
(* (PayoutWorker), composed over the tables and the stream they share.      *)
(*                                                                          *)
(* A request that executes creates a withdrawal of its own, so requests,    *)
(* withdrawals and outbox rows share their names.  What the components do   *)
(* together: the commit of the handler's transaction completes the key,     *)
(* locks the funds and adds the outbox row in one step; the relay's XADD is *)
(* what the workers read; the transactions of API and workers wait for each *)
(* other on the balance row.                                                *)
(***************************************************************************)
EXTENDS Integers, Sequences, FiniteSets, FiniteSetsExt

CONSTANTS
    Keys, Fingerprints, Requests, Lease, None,    \* of the spine
    Relays, ConnectionBreaks,                     \* of the outbox
    Workers, Count, MaxEntries,                   \* of the payout
    Account,        \* the merchant's balance row in the token
    Amount,         \* what each request asks for: its body, of which nothing but
                    \* the amount matters here; of either sign
    Funds,          \* what the account holds at first
    MaxFaults

ASSUME FundsAssumption == Amount \in [Requests -> Int] /\ Funds \in Nat
ASSUME SpineAssumption == Lease \in Nat \ {0} /\ None \notin Requests
ASSUME RelayAssumption == IsFiniteSet(Relays) /\ ConnectionBreaks \in BOOLEAN
ASSUME BoundsAssumption == Count \in Nat \ {0} /\ MaxEntries \in Nat /\ MaxFaults \in Nat

VARIABLES
    checked, refused,                             \* the handler, ahead of the spine
    req, row, pc, rec, applied, resp,             \* the spine
    committed, sent, batch, hand, broken,         \* outbox and relays
    status, available, locked,                    \* withdrawals and balances
    read, pending, at, reply,                     \* consumer group and workers
    signed, sends, orphans,                       \* the signer
    stream, faults                                \* shared by relay and workers

handler == <<checked, refused>>
spine == <<req, row, pc, rec, applied, resp>>
relay == <<committed, sent, batch, hand, broken>>
tables == <<status, available, locked>>
worker == <<read, pending, at, reply, signed, sends, orphans>>
vars == <<handler, spine, relay, tables, worker, stream, faults>>

API == INSTANCE IdemExecute

OB == INSTANCE Outbox WITH Rows <- Requests

PW == INSTANCE PayoutWorker WITH
    Withdrawals <- Requests,
    Accounts <- {Account},
    AccountOf <- [r \in Requests |-> Account],
    Funds <- [a \in {Account} |-> Funds],
    GarbledAnswers <- FALSE,
    Redelivery <- TRUE,
    OrphansArrive <- FALSE,
    MaxCopies <- MaxEntries,
    pc <- at, batch <- reply

\* The fingerprint of a request hashes its body.
BodiesAgree == \A r, s \in Requests : req[r].fp = req[s].fp => Amount[r] = Amount[s]

Init ==
    /\ checked = {} /\ refused = {}
    /\ API!Init
    /\ BodiesAgree
    /\ OB!Init
    /\ PW!Init

----------------------------------------------------------------------------
(* The handler                                                              *)

Arrived(r) == pc[r] = "acquire" /\ r \notin checked

Pass(r) ==
    /\ checked' = checked \cup {r}
    /\ UNCHANGED <<refused, spine>>

\* 400, without a look at the key.
TurnAway(r) ==
    /\ refused' = refused \cup {r}
    /\ API!Goto(r, "done")
    /\ UNCHANGED <<checked, req, row, rec, applied, resp>>

\* get_balance ahead of the spine: would the balance cover the request?
Precheck(r) ==
    /\ Arrived(r)
    /\ available[Account] >= Amount[r]
    /\ Pass(r)
    /\ UNCHANGED <<relay, tables, worker, stream, faults>>

Refuse(r) ==
    /\ Arrived(r)
    /\ available[Account] < Amount[r]
    /\ TurnAway(r)
    /\ UNCHANGED <<relay, tables, worker, stream, faults>>

\* A balance that cannot be read is taken to be 0, whatever it is.
ReadFails(r) ==
    /\ Arrived(r)
    /\ faults < MaxFaults /\ faults' = faults + 1
    /\ IF Amount[r] <= 0 THEN Pass(r) ELSE TurnAway(r)
    /\ UNCHANGED <<relay, tables, worker, stream>>

\* The effect's SELECT ... FOR UPDATE holds the balance row to the end of the
\* transaction.
BalanceHeld == \E r \in Requests : pc[r] \in {"complete", "commit"}

\* create_withdrawal_and_lock and insert_outbox, uncommitted.
Execute(r) ==
    /\ ~BalanceHeld
    /\ available[Account] >= Amount[r]
    /\ API!RunEffect(r)
    /\ UNCHANGED <<handler, relay, tables, worker, stream, faults>>

\* The authoritative check fails: the funds went since the handler looked.
ShortOfFunds(r) ==
    /\ ~BalanceHeld
    /\ available[Account] < Amount[r]
    /\ API!EffectRollsBack(r)
    /\ UNCHANGED <<handler, relay, tables, worker, stream, faults>>

\* COMMIT: the completed key, the locked funds, the withdrawal and its outbox
\* row become durable in one step.  (AcceptUnpublished leaves the row out.)
AcceptUnpublished(r) ==
    /\ API!Commit(r)
    /\ PW!CreateWithdrawal(r)
    /\ UNCHANGED <<handler, relay>>

Accept(r) ==
    /\ API!Commit(r)
    /\ PW!CreateWithdrawal(r)
    /\ OB!Commit(r)
    /\ UNCHANGED handler

AcceptUnheard(r) ==
    /\ API!CommitUnheard(r)
    /\ PW!CreateWithdrawal(r)
    /\ OB!Commit(r)
    /\ UNCHANGED handler

\* The steps of the spine that touch nothing but its own table.
SpineStep(r) ==
    /\ r \in checked
    /\ \/ API!AcquireFresh(r) \/ API!AcquireExisting(r)
       \/ API!DecideReplay(r) \/ API!DecideConflict(r)
       \/ API!DecideRetryAfter(r) \/ API!DecideTakeover(r)
       \/ API!TakeoverWon(r) \/ API!TakeoverLost(r)
       \/ API!CompleteWon(r) \/ API!CompleteLost(r)
       \/ API!Reread(r)
    /\ UNCHANGED <<handler, relay, tables, worker, stream, faults>>

SpineBreaks(r) ==
    \/ /\ API!DbError(r) \/ API!Crash(r)
       /\ UNCHANGED <<handler, relay, tables, worker, stream, faults>>
    \/ ReadFails(r)

Tick ==
    /\ API!Tick
    /\ UNCHANGED <<handler, relay, tables, worker, stream, faults>>

Post(r) ==
    \/ Precheck(r) \/ Refuse(r) \/ SpineStep(r)
    \/ Execute(r) \/ ShortOfFunds(r) \/ Accept(r) \/ AcceptUnheard(r)

----------------------------------------------------------------------------
(* Relay and worker                                                         *)

RelayStep(k) ==
    /\ OB!ReadUnsent(k) \/ OB!Publish(k) \/ OB!PassOver(k) \/ OB!MarkSent(k)
    /\ Len(stream') <= MaxEntries
    /\ UNCHANGED <<handler, spine, tables, worker>>

RelayBreaks(k) ==
    /\ OB!MarkFails(k) \/ OB!Crash(k)
    /\ UNCHANGED <<handler, spine, tables, worker>>

\* A finalization updates the balance row: it waits for the API's transaction.
MayFinalize(k) == at[k] \in {"signed", "rejected"} => ~BalanceHeld

WorkerStep(k) ==
    /\ MayFinalize(k)
    /\ PW!Work(k)
    /\ UNCHANGED <<handler, spine, relay>>

WorkerBreaks(k) ==
    /\ MayFinalize(k)
    /\ PW!Break(k)
    /\ UNCHANGED <<handler, spine, relay>>

Redeliver(i) ==
    /\ PW!Redeliver(i)
    /\ UNCHANGED <<handler, spine, relay>>

Next ==
    \/ \E r \in Requests : Post(r) \/ SpineBreaks(r)
    \/ Tick
    \/ \E k \in Relays : RelayStep(k) \/ RelayBreaks(k)
    \/ \E k \in Workers : WorkerStep(k) \/ WorkerBreaks(k)
    \/ \E i \in PW!Entries : Redeliver(i)

\* A running process goes on; time passes.  Nobody has to put a stranded entry
\* back: XAUTOCLAIM yields none (StreamReply), and only the harness does.
Fairness ==
    /\ WF_vars(Tick)
    /\ \A r \in Requests : WF_vars(Post(r))
    /\ \A k \in Relays : WF_vars(RelayStep(k))
    /\ \A k \in Workers : WF_vars(WorkerStep(k))

Spec == Init /\ [][Next]_vars

FairSpec == Spec /\ Fairness

----------------------------------------------------------------------------
(* Properties *)

KeyOf(r) == req[r].key

PaidUnder(k) == MapThenSumSet(LAMBDA r : sends[r], {r \in Requests : KeyOf(r) = k})

\* Exactly-once from the client to the signer, with one worker: however many
\* requests carry a key, are taken over, republished or redelivered, the signer
\* sends at most once for that key, and only what an accepted request locked.
OnePayoutPerKey ==
    /\ \A k \in Keys : PaidUnder(k) <= 1
    /\ \A r \in Requests : sends[r] > 0 => r \in applied

AmountOf(S) == MapThenSumSet(LAMBDA r : Amount[r], S)

\* "Funds are never locked without a matching publish-intent"
\* (chaos_hooks/src/lib.rs, WithdrawAfterLockBeforeOutbox), nor the other way
\* round: what is locked is the amount of the accepted withdrawals that are
\* open, each in the outbox; and what is available was overdrawn by no more
\* than the refunds of negative amounts.
LockHasIntent ==
    LET open == {r \in Requests : status[r] \in PW!Open} IN
    /\ locked[Account] = AmountOf(open)
    /\ available[Account] >= AmountOf(PW!Clawback(Account))
    /\ open \subseteq committed
    /\ committed = applied

\* "processing -> failed (definite rejection)" (docs/LIFECYCLE.md): what was
\* refunded, and so may be withdrawn under another key, was never sent.
RefundedWasNotSent == \A r \in Requests : status[r] = "failed" => sends[r] = 0

\* An entry of the withdrawal is un-acked, and no worker has it in hand.
Stranded(r) ==
    \E i \in PW!Copies(r) \cap pending : \A k \in Workers : i \notin reply[k].left

\* An accepted withdrawal, whether its client heard of it or not, is eventually
\* paid out or refunded, while some relay is connected: only a fault can put it
\* where the worker's loop leaves it, un-acked with nobody at it.
EveryAcceptedEnds ==
    \A r \in Requests :
       r \in applied ~> \/ status[r] \in PW!Terminal
                        \/ ~OB!Connected
                        \/ faults > 0 /\ Stranded(r)

\* "a client retry with the same key replays the stored response"
\* (api/src/routes/withdraw.rs): no request is refused once its key is accepted.
RetryIsReplayed ==
    [][\A r \in refused' \ refused : \A s \in applied : KeyOf(s) # KeyOf(r)]_vars
=============================================================================

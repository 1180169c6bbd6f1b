# Coingate: specifications and proofs

TLA+ models of the payment gateway in this repository, the TLC runs that check
them on small instances, and TLAPS proofs of what matters most for any number
of requests, rows, workers and faults.

The gateway takes deposits on Solana, credits merchants, and pays withdrawals
out through an external MPC signer. Nearly all of its difficulty is in one
sentence of `docs/DESIGN.md`: every hop may be repeated, and every effect must
happen once. The models are therefore about interleaving, crashing and
repeating; payloads, wording and arithmetic inside a single statement are kept
only where a property can tell them apart.

## 1. Inventory

| Part (source) | State | Operations | Interacts with |
|---|---|---|---|
| Idempotency-key spine (`api/src/idem.rs`, `store/src/idempotency_pg.rs`, `idempotency/src/*`, `store/src/pool.rs`) | `idempotency_keys` rows: status, fingerprint, lease deadline and owner, response snapshot | acquire, read, decide, takeover, effect + complete in one transaction, replay | called by the routes for orders and withdrawals; shares the table with every other API process |
| Withdraw route and outbox insert (`api/src/routes/withdraw.rs`, `store/src/models/api.rs`) | `withdrawals`, `balances`, `outbox` | lock funds, insert withdrawal and outbox row in the spine's transaction | the effect of the spine; feeds the relay |
| Relay (`relay/src/main.rs`) | its batch, its one Redis connection | read unsent rows, XADD, mark sent | outbox table, `withdrawal_requests` stream |
| Payout worker (`worker/src/main.rs`) | consumer group position and pending list; the withdrawal's status | XAUTOCLAIM, XREADGROUP, find, lookup, advance, send, finalize (success, failure), XACK | stream, tables, MPC signer (`external/src/signer.rs`) |
| Stream reply parser (`worker/src/main.rs`, `processor/src/main.rs`) | none | `parse_xreadgroup_response` on two kinds of reply | both consumers |
| Deposit poller (`poller/src/main.rs`, `external/src/chain.rs`) | `poller:last_sig` | page through signatures, fetch, XADD, move the checkpoint | RPC node, `payment_transactions` stream |
| Deposit processor (`processor/src/main.rs`, `store/src/models/api.rs`) | `orders`, `deposits`, `balances`, `dead_letter` | find order, verify, insert-and-credit transaction, dead letter, XACK | stream, tables |
| Payment route (`api/src/routes/payment.rs`) | `orders` | read the order, quote, write the row back | the processor, through the order row |
| Reconciler (`store/src/reconcile.rs`, `reconciler/src/main.rs`) | the report of the run under way | recompute balances, orphan locks, stuck and aged rows, each table in a statement of its own | reads all tables while the services commit |
| Units of money (`store/src/money.rs`, `worker/src/main.rs` `to_base_units`) | none | parse, scale | withdraw route, worker |
| Merchant and wallet routes, authentication, configuration, schema | plain rows | single statements | |
| Harness, crash points, mock MPC (`harness`, `chaos`, `chaos_hooks`, `mock-mpc`) | the run's plan, the processes it supervises, the violations recorded | seed, arm, feed or post, wait, kill, redeliver, restart, drain, judge | spawns and kills the services, reads all tables and both streams |

What is hard, by part, and what makes the part correct:

- *Spine.* Requests with one key race through separate autocommitted
  statements; a lease expires while its owner is alive; COMMIT's answer is
  lost. Correct: one durable effect per key, a completed row exactly when there
  is one, true answers, and an end of the retry loop.
- *Outbox and relay.* XADD and mark are not atomic and a batch is stale as soon
  as it is read. Correct: no row is marked unpublished, duplicates are paid for
  by faults or by further relays, and the backlog drains.
- *Payout.* An external send sits between two database transactions; its answer
  may be lost, or come after the sender is gone; the same withdrawal is
  delivered several times, to several workers; its amount need not be positive.
  Correct: funds conserved, locks back exactly the open withdrawals, no account
  overdrawn beyond what the code itself takes back, at most one send, a refund
  only of what was not sent, every withdrawal ends.
- *Deposits.* A deposit is delivered several times, to several processors, while
  the order is rewritten by a quote call. Correct: each deposit credited once
  or recorded as dead, the order paid by its own deposit, the credit in the
  quoted mint.
- *Withdraw route.* It looks at the balance before the spine looks at the key;
  its commit is the outbox's input and the worker's lock. Correct: one payout
  per key end to end, funds locked only with a publish-intent, every accepted
  withdrawal paid or refunded.
- *Poller.* A checkpoint that outruns what was fetched. Correct: it passes no
  deposit that is not on the stream.
- *Reconciler.* Six reads at six moments, with commits in between. Correct: an
  alarm, or its absence, has a cause in the tables or in a commit one can name.
- *Harness.* It tests all of the above through timeouts, kills and queries that
  race with the services. Correct: it ends, what it records is the system's
  doing, and a pass means that the work was done.
- *Units.* Two conversions of one amount.

`PROJECT.json` lists the hazards one by one with their lines and with the
properties that would show them.

## 2. Modules

| Module | Models | EXTENDS / INSTANCE |
|---|---|---|
| `IdemExecute` | the spine, one action per statement or transaction boundary | |
| `ExactlyOnceEffect` | what the spine promises: per key one effect, and answers that report it | implemented by `IdemExecute` |
| `Outbox` | outbox table and relays | |
| `AtLeastOnce` | what the outbox promises: accepted is eventually published, nothing else is | implemented by `Outbox` |
| `StreamReply` | the parser, on the replies of XREADGROUP and XAUTOCLAIM | |
| `PayoutWorker` | tables, stream and group, workers, signer | `StreamReply` |
| `WithdrawPath` | the POST /withdrawals handler, and the path of a withdrawal from there to the signer | `IdemExecute`, `Outbox`, `PayoutWorker`, over shared tables and stream |
| `DepositCredit` | tables, stream and group, processors, quote calls | |
| `DepositPoller` | the poller over the wallet's history on chain | |
| `Reconcile` | a report read table by table, and the transactions that commit meanwhile | |
| `ChaosRun` | one run of the chaos harness over the services | `WithdrawPath`, `DepositCredit` |
| `*Proofs` | theorems of `IdemExecute`, `Outbox`, `PayoutWorker` (with those of its parser), `DepositCredit`, `DepositPoller`, `Reconcile` | the module, `TLAPS` |
| `SystemProofs` | theorems of `WithdrawPath` and of `ChaosRun`, from those of their components | `ChaosRun`; the components' proofs, over the shared state |
| `SetLemmas` | lemmas about finite sets: least elements, induction, sums | `WellFoundedInduction` |
| `MC*` | definitions TLC's instances need | the module |

### IdemExecute

Each member of `Requests` is one call of `execute_idempotent`. `row` is the
committed row of a key, `rec` the `KeyRecord` the call last read, `pc` where the
call is, `applied` the calls whose effect is committed, `resp` the answer.
A lease deadline is only ever compared with the clock, so rows and records keep
the time *left*, clipped below 0, and `Tick` takes one unit off each. That keeps
the corner where a deadline equals now: expired for `decide`, not expired for
the takeover's `UPDATE`, so the loop goes round. The deadline is computed from a
clock read before a pooled connection was waited for, so a new lease may start
at any value up to `Lease`, an expired one included. `complete` holds the row
lock from its `UPDATE` to the commit (`RowLocked`); takeovers and completions of
others wait for it, plain reads do not. The effect is opaque: it succeeds
(uncommitted), asks for a rollback, or fails.

### Outbox

`batch` and `hand` are a relay's rows still to handle and the row added but not
marked. The connection is opened once per life of the relay: once it is
`broken`, every XADD fails on it until the process is started again.
`XaddLost` is every way an XADD ends in an error, the entry added or not.

### StreamReply

RESP replies are records that tell arrays, texts and nil apart; the parser
skips whatever is not an array of two. XREADGROUP's reply is an array of
`[stream, entries]`, XAUTOCLAIM's is `[cursor, entries, deleted]`.

### PayoutWorker

`status`, `available`, `locked` are the tables; `stream`, `read`, `pending` the
stream and its group; `pc` and `batch` the workers; `signed`, `sends`, `orphans`
the signer: what it has a signature for, how often it performed a send, and
requests still on the wire whose sender is gone. `Amount` is of either sign, as
neither the route nor `create_withdrawal_and_lock` asks for a positive one: a
negative withdrawal is a credit while it is open and when it is completed, and
its refund takes the credit back from what is available by then (`Clawback`). A send is two actions,
`IssueSend` and an answer (or none: `TransportError`, `Crash`), so another
worker's `Lookup` can fall in between. `Reclaim` is XAUTOCLAIM with its reply
put through the parser, `Fetch` likewise: what they deliver follows from
`StreamReply` and not from an assumption.

### WithdrawPath

The handler ahead of the spine is `checked` and `refused`: `get_balance` is
looked at before `execute_idempotent` is entered, and a short balance is a 400
(`Refuse`), as is any positive amount when the balance cannot be read (`ReadFails`:
the error is taken for a balance of 0). The effect is no longer opaque: `Execute` asks the balance row for
the amount under `FOR UPDATE` (`BalanceHeld`, held to the commit, and waited for
by the workers' finalizations), `ShortOfFunds` is its rollback, and the commit
(`Accept`) is one step of three modules: the key is completed, the withdrawal
and its lock are there, the outbox row is there. Requests, withdrawals and
outbox rows share their names, because each executed request creates one of
each. The relay's XADD and the worker's XREADGROUP meet in `stream`; `faults`
is shared too.

### DepositCredit

`order`, `deposits`, `balance`, `dead` are the tables. The crediting transaction
is opened by `InsertDeposit`, which holds the `UNIQUE(tx_hash)` index entry
until the commit (`Credit`); a second insert of the same hash waits. The order's
status read before it (`seen`) and the guard of the `UPDATE` are both there. A
quote call is `QuoteStart` (read), the network calls, `QuoteWrite` (the whole
row back, its status and tx_hash too): `call` keeps the copy, and the status it
was written over, so that `Overwritten` can say which paid orders such a call
has set back. `offered`
is a history variable, the quotes an order has had. `EntryMint` is the mint as
the processor sees it: the poller's empty string for SOL is a mint like any
other. The memo of a deposit may name no order.

### DepositPoller

A signature is its place in the wallet's history, and 0 is none, so "newer" is
"greater" and a page is a stretch of places. `chain` grows by `Land` between any
two steps of the poller, between two pages too. `cursor` is the poller's own
checkpoint, `stored` the one in Redis; `before`, `sigs` and `head` are what
`deposits_since` has collected, `events` what is left to add. Every error but
two leaves `main`, so it is a `Crash` and a new start; the two are the `.ok()`
on the first `GET` (`LoadFails`) and the `continue` on a failed `get_transaction`
(`LookupFails`). `Unheard` is a command that was carried out and ends the
process with an error all the same. `base` and `missed` are history variables:
where the last start without a checkpoint began, and whose lookup has failed.
What a transaction transfers is data, which `DepositCredit` takes up.

### Reconcile

One action per statement of `reconcile`, and one per transaction of a service
that changes a table it reads. `seen` is what the run has read, `report` what it
has found, `pc` the table it reads next. `status` of a withdrawal is read once
and used for three sums; `available` and `locked` are read in one statement,
after it. A timestamp is only ever compared with the cutoff the run computed
when it began, so the model keeps the rows older than that (`agedUpdate`,
`agedIntent`): any row may have become so between two runs, and a row that is
updated during one is not. `Init` ranges over a sound ledger and the damaged
ones that the reconciler's own tests seed (not credited, credited twice, locked
for no withdrawal).

### ChaosRun

`cell` is the run's place in the grid of `enumerate.rs`: the service that is
armed, its crash point, the schedule. `step` walks through the functions of that
file; `up` are the running processes, and a process takes a step of its module
(`Serve`) only between its spawn and its end. `armed` aborts where it stands at
the crash point (`AtPoint`): the services' steps are cut fine enough that every
point is a place between two of them; points inside one transaction are the
same place, because the transaction's rollback is. `gaveUp` records that a wait
of the harness ran out, which it may do at any moment: the model has no idea how
slow the services are. `Reap` is `reclaim_and_ack`, `ExpireLease` the direct
`UPDATE` of the takeover run, `Verdict` the oracles, whose SQL is translated in
`Violations`. Of what makes the reconciler report drift, an unsent outbox row
counts after a minute, which here it may or may not have been (`Overdue`). The signer is mock-mpc, which accepts every send.

## 3. Runs

Distinct states in parentheses. `CHECK_DEADLOCK FALSE` is set for the spine and
the withdrawal path, whose requests all end, and for the harness, whose run is
over.

| Run | Instance | Shows |
|---|---|---|
| `MCIdemExecute` (159 336) | 3 requests, 1 key, 2 payloads, lease of 1 | safety, finality, termination, and refinement of `ExactlyOnceEffect` |
| `MCOutbox` (8 439) | 2 rows, 2 relays, 2 faults, connections that break | no loss, bounded duplicates, drainage, refinement of `AtLeastOnce` |
| `MCPayoutWorker` (991 167) | 2 workers, a withdrawal of 2 and one of -1 on one account with 1, 4 entries, 1 fault, orphans, garbled answers, redelivery | what holds whatever interleaves |
| `MCPayoutTwoWorkers` | 2 workers, 2 copies, no fault | violated: `AtMostOneSend` |
| `MCPayoutStranded` | 1 worker, 1 crash, nobody puts entries back | violated: `EveryPayoutEnds` |
| `MCWithdrawPath` (48 548) | 2 requests with one key or two, funds for one, 1 relay, 1 worker, 1 fault anywhere, redelivery | one payout per key, locks backed by intents, no refund of what was sent, every accepted withdrawal ends unless a fault strands it |
| `MCWithdrawRetry` | the same without faults | violated: `RetryIsReplayed` |
| `MCDepositCredit` (116 872) | 2 processors, a token and a SOL deposit of one order, each published up to twice, 3 entries, 3 quotes, 1 quote call that may span the credit, 1 fault, redelivery | each deposit credited once or recorded, orders paid by their own deposit, every deposit settles unless a fault strands it |
| `MCDepositNoMint` | 1 SOL deposit of an order quoted in SOL | violated: `CreditGoesToQuotedMint` |
| `MCDepositPoller` (199 813) | pages of 2, 5 transactions, 2 faults | the checkpoint passes no deposit, duplicates only after faults, every deposit added |
| `MCReconcile` (1 557 728) | 1 account, 2 apps, 2 orders, 2 deposits, 2 withdrawals, 4 ledgers to start from | an alarm, or none, is right or has one of the named commits for a cause |
| `MCChaosRun` (247 359) | the whole grid: 14 crash points under 4 schedules, 2 takeover runs; 3 posts, 2 workers, 2 processors | recorded violations are real, passes are earned, every run ends |

What the last run shows in more detail. `AlarmIsReal`: conservation is never
violated and no orphan lock ever found, in none of the 58 cells and whatever is killed when;
the send made twice is recorded only for the relay's crash between XADD and mark
under `ConcurrentConsumers` (two copies, two workers: the violation of
`MCPayoutTwoWorkers` again); `A2(a)` is recorded also when the lease has run out
before the harness asks for the Retry-After. All else that a run records is a
wait that ran out. `PassIsEarned`: a pass of a worker's, a processor's or the
API's run means what the case is about; a pass of a relay's or takeover run
means only that the row was published, because quiescence is asked of the
streams first and of the outbox afterwards (`harness/src/fixtures.rs:304`), and
an entry published between the two is not waited for.

**Why these bounds are enough to matter.** A takeover race needs an owner, a
taker and a late third request: three requests on one key, with a lease that can
be live, due and past (1, 0, -1). Two keys do not interact (every action touches
one row), so one is enough. A payout conflict needs two workers with copies of
one entry, and two withdrawals on one account to mix up locks; four entries hold
both withdrawals twice, and one fault sets up a worker's misstep. End to end, a
request, its retry or its competitor for the funds make two requests, and four
entries leave room for a republication and two redeliveries. Of the two payout
amounts the positive one needs the credit of the negative one, so that a refund
of the latter overdraws the account. A deposit conflict needs two processors
with an entry each of one deposit, which the poller adds twice when it dies
before its checkpoint (three entries leave one for the other deposit), or two
deposits of one order, and a quote call that has read the order before the
credit. Five transactions over pages of two give a
burst of two full pages and a short one, an exactly full last page, and a
transaction landing between pages; two faults give a start without a checkpoint
after one with. A misled report needs a row that was there and one that arrives
behind the reader, of each kind, on one account; the second deposit comes
through an app and an order of its own, so that any of the three may be missed.
The harness posts three times at most, and its own kills and aborts are the
only faults, fewer than `MaxFaults` allows. `Count` is 10 as in the code, above
every stream length.

**Bounds by name.** `Lease`; `MaxFaults` (crashes, failed statements, lost
answers; in `ChaosRun` kills and aborts), `MaxCopies` (how often one thing is
published), `MaxEntries` (length of the stream that an XADD or a redelivery may
reach), `MaxTxs` (length of the wallet's history), `PageLimit` (1000 in the
code). `OrphansArrive`, `GarbledAnswers`, `Overlap`, `ConnectionBreaks` and
`Redelivery` switch parts of the environment on and off; they are off only in
the runs whose question is what the code does without them. In
`MCWithdrawPath` the keys are interchangeable, so the first request is made to
carry the first of them.

**Fairness.** A process that is not dead goes on with its next step, because its
loop is sequential code and its statements have timeouts: `WF` of each
request's, relay's, worker's, processor's and the poller's own step. The clock
runs. The relay publishes a committed row at least once (what `Outbox` shows; in
`WithdrawPath` the relay itself is fair). In `ChaosRun` nothing is assumed of
the services: the harness goes on (`WF`), and as its waits have deadlines, one
of the checks that fail comes after the deadline (`SF` of `GiveUpDrain`).
Nothing makes a fault happen, and nothing makes `Redeliver` happen: acking
stranded entries and adding them anew is what the test harness does
(`harness/src/fixtures.rs`, `reclaim_and_ack`) and no service of the gateway, so
it may happen where `Redelivery` is on, and never has to. `EveryAcceptedEnds` and
`EveryDepositSettles` therefore except, after a fault, what is `Stranded`: an
entry un-acked that no consumer has in hand. Without a fault every one
of them ends, and with one whatever is not stranded; that the consumers do strand
entries is `MCPayoutStranded`.

Every property of a passing run has a mutant in `PROJECT.json`: a plausible bug
in one modelled definition that makes TLC find the property violated. The
mutated forms stand beside the originals, named in the comment above each.

## 4. Proofs

All for arbitrary constants, under the assumptions named in the modules
(`None` is no request or row; the lease is positive; amounts to be withdrawn are
integers, funds naturals; `Count` and `PageLimit` are positive; relays are finitely many).
`WithdrawPath` assumes for itself what its components assume. `ChaosRun` assumes
of its constants what is a matter of naming: services and processes have
different names, there is one of each, the harness posts three different
requests of one positive amount (`PostsAssumption`, `ProcessAssumption`, `DepositAssumption`); the
theorems of `WithdrawPath` use none of these.

Three restrictions are hypotheses of single theorems, because the system does
not satisfy them by itself and the theorem fails without them. `OneWorker`, with
no request of a dead worker arriving late (`~OrphansArrive`): two workers break
at-most-once, as `MCPayoutTwoWorkers` shows, and so does a request whose sender
is dead when it reaches the signer. In `WithdrawPath`, and so in the theorems and
runs about it (`OnePayoutPerKey`, `RefundedWasNotSent`) and about `ChaosRun`, such
late requests and garbled answers are switched off altogether. A signer whose rejections are true
(`~GarbledAnswers`): see section 5. `IsFiniteSet(Requests)` in `KeyPaidOnce`
only makes the sum of a key's sends defined.

- **`IdemExecuteProofs`**: `TypeCorrect`, `CompletedIffEffect`,
  `EffectAtMostOnce`, `AnswersTrue`, `CompletionIsFinal`, `Refinement`. The
  inductive invariant `IInv` adds to the checked properties three facts the code
  relies on without saying so: a record read as completed still describes its
  row, a completed row has no running lease (so the clock no longer touches it),
  and only a 2xx carries a snapshot. `CompletionHoldsLease` is the heart: the
  row lock makes the owner check of `complete` still true at commit, so the
  commit finds no earlier effect for its key, and a second one is impossible.
  `Refinement` maps commit to `Apply` and each 2xx answer to `Replay`, all else
  to stuttering.
- **`SetLemmas`**: induction over the naturals and over the subsets of a finite
  set, by a least counterexample; the set of those for which the claim fails
  takes the place of the predicate that the library's induction theorems have
  for a parameter. From them, what the models' sums by `MapThenSumSet` are:
  taken apart by an element or by a disjoint set, equal for equal summands,
  bounded by a larger set's, at most one where one summand is not zero.
- **`OutboxProofs`**: `TypeCorrect`, `SentIsPublished`, `DuplicatesArePaid`,
  `PublishesOnlyAccepted` (the safety half of `AtLeastOnce`), for a finite
  number of relays. The bound on duplicates is not inductive: a row gains a copy
  without a fault whenever a relay with an old batch gets to it. `CopiesPaid`
  counts who still may: an unsent row's copies are paid for by the relays that
  hold it and by faults, a sent row's copies and the relays that still have it
  in their batch by relays and faults. The two meet when the row is marked,
  because no relay holds a row that is also in its batch (`HandTaken`).
- **`PayoutWorkerProofs`**: `TypeCorrect`, `AckedIsTerminal`,
  `CompletedOnlyWhenSent`, `AdvancedBeforeSent`, `TerminalStays`. The invariant
  ties each step of a worker to the status of the withdrawal in its hand
  (`lookup` and later: past `pending`; `signed`: the signature exists; `ack`:
  terminal), and each outstanding request to a status past `pending`. The
  statuses only move forward and signatures only accumulate, which is what keeps
  these facts true while *other* workers step.
  *The parser*: `NewEntriesCarried` (it makes of a reply of XREADGROUP exactly
  its entries, with ids and fields), `PayloadFound` (the relay's one field is
  found under its name), `ReclaimYieldsNothing` (it makes nothing of any reply
  of XAUTOCLAIM: the cursor and an array of claimed entries are not
  `[stream, entries]` pairs, except when exactly two entries were claimed or
  deleted, and then the field list inside holds no array).
  *Money*: `LockedIsOpen`, `FundsAreConserved` and `OverdrawnByClawback`, for any
  amounts of either sign. A step of the tables changes the status of at most one
  withdrawal, and the account's columns by that withdrawal's amount: it moves
  from one of the sums over pending, processing, completed and failed withdrawals
  to another. A repeated or stale finalization finds no row to update and moves
  nothing. That nothing is overdrawn is false: the lock's check covers every
  debit but the refund of a negative amount. What holds is that the failed
  negative withdrawals add up to at least the overdraft, so that an account all
  of whose amounts are positive has none (`KeepsOverdraft`).
  *One worker*: `OneWorkerSendsOnce` and `RefundIsOfUnsent`. Whoever has a
  withdrawal between `lookup` and the finalization finds it `processing`, and up
  to `await` unsigned; sends are counted by signatures (`SoleHolds`), and what
  is rejected has none (`RefundHolds`). The one worker matters twice: nobody
  else signs between its lookup and its send, or between the rejection and
  the refund.
- **`DepositPollerProofs`**: `TypeCorrect`, `CheckpointPassesNothing`, for any
  page size, history and number of faults. Two conjuncts of the invariant carry
  it: between two pages exactly the stretch from `before` to the head is
  collected, whatever has landed since (`PagesMeet`), so that after a short page
  nothing down to the checkpoint is left out; from then on every deposit of the
  round is still to be looked up, in hand, on the stream, or missed
  (`RoundCovers`). `PageReaches` says what a full and a short page contain.
  `AddedOncePerFault`: a deposit is added again only when a fault has come
  between its XADD and the checkpoint. The invariant (`OncePerFault`) allows a
  deposit that is still to be added by the round, or by any later one, a copy
  fewer than the others; it needs that a round never has a deposit twice in hand
  (`HandDistinct`) and that the checkpoint does not go back.
- **`DepositCreditProofs`**: `TypeCorrect`, `NothingDropped`,
  `PayerIsCredited`, `CreditMarks`, `TokenCreditQuoted`, for any number of
  orders, processors and quote calls. None is inductive: what a processor
  verified it uses two statements later, and what a quote call copied it writes
  back after any number of credits. `StepsHold` ties a processor's step to what
  it verified and read (`credit`, `commit`: the order had this quote, and if it
  was seen paid it is paid or was overwritten; `ack`: credited or dead), `CopiesHold`
  says that a copy of a paid row names a deposit that is still credited. They
  survive the steps of others because nothing shrinks: deposits, letters and
  offers only accumulate, a call that has written stays as it is
  (`RecordsGrow`, `OffersGrow`, `OverwrittenStays`), and an order once paid is paid
  or overwritten from then on (`SettledStays`): only a call that finds the row paid
  takes that from it, and records so. `CreditMarks` thus says of an order
  quoted before it was paid that only a write-back *after* the payment excuses it. `EveryCreditCountsOnce`: the balance
  of a merchant and mint moves only in the commit that records a deposit, which
  the unique index makes a new one, so the sum over the recorded deposits moves
  by the same amount.
- **`ReconcileProofs`**: `StuckIsStuck`, `AlarmsHaveCause`, for any number of
  accounts, rows and commits. What was read of deposits and completed
  withdrawals stays true (`SeenIsPast`), so that where all of them were read the
  report sums over the sets the tables hold (`SameSets`). `OrphansHaveCause` does
  need sums: the report's sum of open withdrawals and the tables' differ only by
  withdrawals that were read in another status, and if none of them was created
  (or none released) since, one set contains the other and bounds its sum. `Fresh` is why `updated_at` has to move with every status: a
  withdrawal taken up since the run began is not old.

- **`SystemProofs`**, of `WithdrawPath`: `FundsHaveIntent` (amounts of either sign,
  any number of workers; the overdraft bounded as above),
  `KeyPaidOnce` and `RefundWasUnsent` (one worker), `AcceptedIsNeverLost`, for any
  number of requests, keys, relays and faults. The argument is compositional:
  each component's proofs are instantiated over the shared tables and stream, and
  the invariant is the conjunction of the components' and of `TablesAgree`, which
  says that what the spine has applied, the outbox has accepted and the tables
  hold are the same withdrawals. Every step of the whole is a step of each
  component or leaves it alone (`SameSpine`, `SameRelay` and their like identify
  the instances), so each component's step lemma applies unchanged. To the
  worker, an XADD whose relay was told of an error is neither a publication nor
  nothing, so its proofs admit a step in which an entry just `Appears`.
  `KeyPaidOnce` meets in the middle: the spine says that one request of a key is
  applied, the payout path that a withdrawal is sent at most once and one that
  was never created not at all, so that a sum over the key's requests has at
  most one summand that is not zero. `AcceptedIsNeverLost` is a promise no run
  states: an accepted withdrawal that is still open is in the outbox, unsent, or
  has an entry that is unread or un-acked, wherever any part died. It follows
  from the worker's `NotForgotten`, once what a relay marks as sent is what the
  worker's stream has been given (`MarkedIsPublished`).

- **`SystemProofs`**, of `ChaosRun`: `EmptyReportIsEarned` and `AlarmsAreReal`,
  for every cell of the grid and any number of requests, workers, processors,
  relays and faults. First, the components' invariants survive what only the
  harness does: aborting a process, cutting requests off, ending a lease by an
  `UPDATE`, clearing the pending entries (`PartsStep`). Two of the invariants had
  to be cut in two for this: a cleared entry *is* forgotten, so `NotForgotten`
  and `AckedIsSettled` do not survive `Reap`; they hold again from the redelivery
  on (`PayoutDone`, `CreditDone`), which is why a run that drained has done its
  work. `Plan` says where the harness is and what runs; `Ties` what the run has
  made durable, by its owner.
  *An empty report*: nothing is left to drain, one row exists, and what is
  marked as sent is on the stream.
  *An alarm*: the ledger's theorems hold of every state, so the oracles about money
  speak of nothing but an unsent outbox row (`MoneyIsRight`); one consumer sends once, as in `OneWorkerSendsOnce`
  (`SentTwice`). The other oracles are about the API. An armed API never gets
  past its crash point (`ApiRun`), so its run leaves nothing durable. In the
  takeover run the aborted post leaves its row, and while the harness waits for
  its answers only one post is at work on the key (`KeyHeld`); so the third post
  finds an expired lease or a completed key, goes by acquire, decide and takeover
  to its own commit, and nothing can make it wait, lose or roll back (`Third`).
  What was published when the harness looked at the outbox is all there will be,
  because no post is under way any more (`OutboxDone`).

Model-checked only: all liveness (`EveryRequestEnds`, `EveryRowMarked`,
`EveryAcceptedEnds`, `EveryDepositSettles`, `EveryDepositAdded`, `EveryRunEnds`,
and the liveness half of `ImplementsAtLeastOnce`), which the prover does not
reach. Every invariant and action property of a passing run has a theorem.

## 5. Where code and documents disagree

Each with a run (`findings` in `PROJECT.json`): the balance is looked at before
the key, so that a retry of an accepted withdrawal is answered 400
(`MCWithdrawRetry`); two workers can both send (`MCPayoutTwoWorkers`); an
un-acked entry is never redelivered (`MCPayoutStranded`); a SOL deposit is
credited to the mint `""` (`MCDepositNoMint`).

Met while modelling, in the models, and without a run of their own:

- A takeover by another payload keeps the first payload's fingerprint
  (`store/src/idempotency_pg.rs:122`): `ReplayMatchesPayload` in `IdemExecute`
  says what one might expect, and does not hold.
- A quote call that spans the crediting of its order writes `pending` and no
  tx_hash over `paid` (`api/src/routes/payment.rs:123-147`): the exception in
  `PaidOrOverwritten`.
- A report that runs beside commits raises alarms about a clean system, and
  misses some of a damaged one ("A clean system yields all-empty vectors",
  `store/src/reconcile.rs:41`): `ImbalanceHasCause` and `OrphanHasCause` say
  after which commits.
- `ConcurrentConsumers` is described with a duplicate
  (`harness/src/schedules.rs:11-13`), but `redeliveries()` is 1 for it: the
  duplicate comes only from the relay's crash.
- A send the signer performed but answered with an error status, or a success
  whose signature cannot be read, is refunded as a "definite rejection"
  (`external/src/signer.rs:90-105`, `worker/src/main.rs:279`). `GarbledAnswers`
  switches it on; `RefundedWasNotSent` is checked with an honest signer.
- The relay never reconnects to Redis (`relay/src/main.rs:33-72`); hence
  `~Connected` in `EveryRowMarked` and in `AtLeastOnce`.
- Any error of the order lookup, a lost connection too, dead-letters the deposit
  (`processor/src/main.rs:158-163`), although line 313 says infra errors leave
  it un-acked: `FindOrderFails`.
- `verify_sol_transaction` does not look at the quoted mint
  (`processor/src/main.rs:250-261`): a SOL deposit near the number quoted in a
  token is credited. `TokenCreditWasQuoted` therefore speaks of tokens only.
- Nothing asks for a positive amount of a withdrawal (`api/src/routes/withdraw.rs:43-57`,
  `store/src/models/api.rs:439`; `up.sql` has no `CHECK`), although
  `parse_base_units` (`store/src/money.rs`), through which orders go
  (`api/src/routes/merchant.rs:307`), rejects negative ones: a negative amount raises the
  balance, and its refund may overdraw it. `OverdraftIsClawback` says by how much.
- A balance that cannot be read before the spine is taken for 0
  (`api/src/routes/withdraw.rs:53-56`), and the client is told of an insufficient
  balance: `ReadFails`.
- The poller's checkpoint passes a transaction it could not fetch
  (`external/src/chain.rs:172-178`), against "no signature between the checkpoint
  and chain head is skipped" (`chain.rs:123-129`, on paging): hence `missed` in
  `CheckpointCovers`.
- An error of the poller's first `GET` is taken for no checkpoint
  (`poller/src/main.rs:35-39`), and the stored one is overwritten with the head
  of the chain: hence `base`.

Seen in code that is not modelled: the worker multiplies amounts that are
already in base units by the token's decimals (`worker/src/main.rs:233-244`);
malformed worker entries are neither acked nor dead-lettered
(`worker/src/main.rs:213`).

## 6. Abstractions and their limits

- Amounts beyond the column's width are left out. `Reconcile` takes what
  withdrawals and deposits are worth to be positive, and `ChaosRun` what the
  harness posts, which is; a report of an account with negative withdrawals is
  not covered. A deposit's amount is what the chain moved, hence not negative.
- Balance rows exist from the start. A merchant without one is refused as if it
  were 0, which is what the model's row of 0 does; the failed insert of a first
  row is the spine's `DbError`.
- Entries are well formed, as the repository's producers write them.
- A Redis entry, once added, stays; Redis itself does not lose data.
- The group's pending list does not say whose an entry is, and XAUTOCLAIM may
  claim any of it: idle times are not modelled.
- The wallet's history only grows: no forks below the confirmed commitment, and
  the RPC node answers from the whole of it.
- `DepositCredit` reads entries directly; that its parser, the same function,
  finds what XREADGROUP delivered and nothing of XAUTOCLAIM is cited, not
  recomputed.
- The order of rows in a relay's batch is free; nothing depends on it.
- In `WithdrawPath` one connection carries the relay, requests do not carry two
  payloads, and the signer is honest and hears of nothing after its sender's
  death (`GarbledAnswers` and `OrphansArrive` are FALSE): a late request can make
  it send twice and a garbled answer refunds what was sent, so `OnePayoutPerKey`
  and `RefundedWasNotSent` are claims about the path without these two. What else
  they do to the tables is in `MCPayoutWorker`.
- In `Reconcile` a service's transaction is a single step: the reader, which
  takes no locks, sees it before its commit or after.
- In `ChaosRun` the reconciler's category of withdrawals processing for five
  minutes (`store/src/reconcile.rs:77-79`) is left out of the oracle: the waits of
  a run sum up to less than two.
- In `ChaosRun` a kill takes effect at once, and the harness's own statements do
  not fail; a port that does not answer ends the sweep (`bailed`).

## 7. Not modelled

- *Units of money* (`store/src/money.rs`, `to_base_units`): sequential
  conversions of strings. Amounts are opaque or small naturals in all modules.
- *Merchant and wallet routes, authentication, configuration, schema*: single
  statements without a second actor; the columns that matter are fields of the
  models' rows. The insert of a merchant's first balance row
  (`store/src/models/api.rs:404`), which two requests may race for, ends in a
  failed statement, which the spine's model has.
- *`run_seeded`* of the harness: the same services, waits and oracles with
  seeded delays, which the interleavings of `ChaosRun` include.
- *`beforeafter.rs`*: it drives binaries of an earlier build that is not in the
  repository.
- *Payloads no producer writes*: entries that are not JSON, amounts beyond the
  width of their columns.

## 8. Plan

Done, in this order: the spine with its abstract specification and proofs; the
payout path; the parser; the outbox; the credit path; the poller; the path of a
withdrawal end to end; the reconciler; the harness; the proofs of credit path
and reconciler; the lemmas on sums and the proofs of the ledger, of at-most-once
with one worker, of the path end to end, and of the harness's reports.

Open: `MoneyUnits` (`parse_base_units`, `to_base_units` and their composition
against "integer base units throughout", `harness/src/workload.rs:6`), which is
computation on strings, without a state.

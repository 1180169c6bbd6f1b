------------------------------ MODULE ChaosRun ------------------------------
(***************************************************************************)
(* One run of the chaos harness (harness/src/enumerate.rs) over the system  *)
(* it tests: it seeds a case, starts a service with one crash point armed,  *)
(* drives it to its abort, restarts it, delivers the work again, drains to  *)
(* quiescence, kills everything and asks its oracles.                       *)
(*                                                                          *)
(* The services are those of WithdrawPath and DepositCredit, each process   *)
(* running between its spawn and its kill.  A wait of the harness may run   *)
(* out at any time it is not over; faults are its kills, and the aborts.    *)
(* The signer is mock-mpc, which accepts every send.                        *)
(***************************************************************************)
EXTENDS WithdrawPath

CONSTANTS
    Processors,
    Api,
    Each,           \* what each post asks for
    OnlyOrder, OnlyDeposit,
    First,          \* the request whose withdrawal the harness seeds
    Posts           \* requests in the order in which they are posted

ASSUME PostsAssumption ==
    /\ Each \in Nat \ {0} /\ Amount = [r \in Requests |-> Each]
    /\ First \in Requests
    /\ Posts \in [1..3 -> Requests]
    /\ \A i, j \in 1..3 : Posts[i] = Posts[j] => i = j
ASSUME ProcessAssumption ==
    /\ Workers # {} /\ Processors # {} /\ Relays # {}
    /\ Workers \cap Processors = {} /\ Workers \cap Relays = {} /\ Processors \cap Relays = {}
    /\ Api \notin Workers \cup Processors \cup Relays
    /\ None \notin Workers \cup Processors \cup Relays \cup {Api}
ASSUME DepositAssumption ==
    None \notin {OnlyOrder, OnlyDeposit} /\ None \notin [mint : {"usdc", "sol"}, amount : Nat]

VARIABLES
    order, deposits, balance, dead, call,                 \* the credit path
    delivered, handed, unacked, stage, inbox, seen, offered,
    cell,           \* [owner, point, sched]: what this run is about
    step,           \* what the harness does next
    left,           \* how many XADDs or POSTs it has still to make
    up,             \* running processes
    armed,          \* the one with the armed crash point
    asked,          \* requests it has posted
    aborted, drained, gaveUp,   \* gaveUp: some wait has run out
    verdict         \* the violations it records

credit == <<order, deposits, balance, dead, call, delivered, handed, unacked,
            stage, inbox, seen, offered>>
payout == <<handler, spine, relay, tables, worker, stream>>
plan == <<cell, left, armed, asked, aborted, drained, gaveUp, verdict>>
harness == <<plan, step, up>>

Quote == [mint |-> "usdc", amount |-> Each]

DC == INSTANCE DepositCredit WITH
    Orders <- {OnlyOrder}, Merchants <- {Account},
    MerchantOf <- [o \in {OnlyOrder} |-> Account],
    Mints <- {"usdc", "sol"}, Sol <- "sol", NoMint <- "", Tolerance <- 0,
    Deposits <- {OnlyDeposit}, MemoOf <- [d \in {OnlyDeposit} |-> OnlyOrder],
    Paid <- [d \in {OnlyDeposit} |-> Quote],
    Offers <- {Quote}, QuoteAtFirst <- [o \in {OnlyOrder} |-> Quote],
    Quoters <- {}, Overlap <- FALSE, Redelivery <- FALSE, MaxCopies <- MaxEntries,
    stream <- delivered, read <- handed, pending <- unacked, pc <- stage

----------------------------------------------------------------------------
(* The grid of runs *)

Schedules == {"Single", "DuplicateStream", "ConcurrentConsumers", "RestartRedelivery"}

\* Where a process stands when it passes a crash point.
WorkerPoints == [WorkerAfterStatusProcessingBeforeSend |-> "send",
                 WorkerAfterSendBeforeFinalize |-> "signed",
                 WorkerAfterFinalizeBeforeXack |-> "ack"]
ProcPoints == [ProcAfterDepositInsertBeforeCredit |-> "commit",
               ProcAfterCreditBeforeOrderPaid |-> "commit",
               ProcAfterOrderPaidBeforeCommit |-> "commit",
               ProcAfterCommitBeforeXack |-> "ack"]
RelayPoints == [RelayAfterReadBeforeXadd |-> "read", RelayAfterXaddBeforeMarkSent |-> "hand"]
ApiPoints == [IdemAfterAcquireBeforeExecute |-> "execute",
              IdemAfterEffectBeforeComplete |-> "complete",
              WithdrawAfterLockBeforeOutbox |-> "complete",
              WithdrawAfterOutboxBeforeComplete |-> "complete",
              IdemAfterCompleteBeforeCommit |-> "commit"]

Cells(owner, points, scheds) ==
    [owner : {owner}, point : DOMAIN points, sched : scheds]

Grid ==
    Cells("worker", WorkerPoints, Schedules) \cup Cells("processor", ProcPoints, Schedules)
    \cup Cells("relay", RelayPoints, Schedules) \cup Cells("api", ApiPoints, Schedules)
    \cup Cells("a2", [IdemAfterEffectBeforeComplete |-> "complete",
                      IdemAfterAcquireBeforeExecute |-> "execute"], {"A2-takeover"})

Owner == cell.owner
Redeliveries == IF cell.sched = "DuplicateStream" THEN 2 ELSE 1
Instances == IF cell.sched = "ConcurrentConsumers" THEN 2 ELSE 1

\* The first instances to be spawned of a service.
Leader(S) == CHOOSE k \in S : TRUE
Consumers(S) == IF Instances = 2 THEN S ELSE {Leader(S)}
Relay == Leader(Relays)

\* Every post has the same body; the takeover run posts one key, the others a
\* key of each request's own.
OwnKey == CHOOSE f \in [Requests -> Keys] : \A r, s \in Requests : f[r] = f[s] => r = s
AsPosted ==
    \A r \in Requests : /\ req[r].fp = req[First].fp
                        /\ KeyOf(r) = OwnKey[IF Owner = "a2" THEN First ELSE r]

RunInit ==
    /\ checked = {} /\ refused = {}
    /\ API!Init /\ OB!Init /\ PW!Init /\ DC!Init
    /\ cell \in Grid
    /\ AsPosted
    /\ step = "seed" /\ left = 0 /\ up = {} /\ armed = None /\ asked = {}
    /\ aborted = FALSE /\ drained = FALSE /\ gaveUp = FALSE /\ verdict = {}

----------------------------------------------------------------------------
(* Processes under the supervisor *)

AtPoint(k) ==
    CASE k \in Workers -> cell.point \in DOMAIN WorkerPoints /\ at[k] = WorkerPoints[cell.point]
      [] k \in Processors -> cell.point \in DOMAIN ProcPoints /\ stage[k] = ProcPoints[cell.point]
      [] k \in Relays -> \/ cell.point = "RelayAfterReadBeforeXadd" /\ batch[k] # {} /\ hand[k] = None
                         \/ cell.point = "RelayAfterXaddBeforeMarkSent" /\ hand[k] # None
      [] k = Api -> \E r \in asked : pc[r] = ApiPoints[cell.point]

Fires(k) == k = armed /\ AtPoint(k)

Runs(k) == k \in up /\ ~Fires(k)

\* A process goes on with its loop: mock-mpc rejects nothing, no statement
\* fails, the funds suffice for every post.
Serve ==
    /\ \/ /\ \E k \in Workers : Runs(k) /\ WorkerStep(k) /\ at'[k] # "rejected"
          /\ UNCHANGED credit
       \/ /\ \E k \in Relays : Runs(k) /\ RelayStep(k)
          /\ UNCHANGED <<credit, faults>>
       \/ /\ \E k \in Processors : Runs(k) /\ DC!Work(k)
          /\ UNCHANGED payout
       \/ /\ Runs(Api)
          /\ \E r \in asked : Precheck(r) \/ SpineStep(r) \/ Execute(r) \/ Accept(r)
          /\ UNCHANGED credit
       \/ Tick /\ UNCHANGED credit
    /\ UNCHANGED harness

CutOff(R) == pc' = [r \in Requests |-> IF r \in R THEN "crashed" ELSE pc[r]]

\* A process is gone, by its armed crash point or by a kill: what it had in hand
\* is lost, a request the API was serving is cut off.
Ends(k) ==
    \/ k \in Workers /\ PW!Crash(k) /\ UNCHANGED <<handler, spine, relay, credit>>
    \/ k \in Relays /\ OB!Crash(k) /\ UNCHANGED <<handler, spine, tables, worker, credit>>
    \/ k \in Processors /\ DC!Crash(k) /\ UNCHANGED payout
    \/ /\ k = Api
       /\ CutOff({r \in asked : pc[r] # "done"})
       /\ UNCHANGED <<handler, req, row, rec, applied, resp, relay, tables, worker,
                      stream, faults, credit>>

Abort ==
    /\ armed \in up /\ AtPoint(armed)
    /\ Ends(armed)
    /\ up' = up \ {armed}
    /\ UNCHANGED <<plan, step>>

----------------------------------------------------------------------------
(* The harness *)

At(here, next) == step = here /\ step' = next

System == <<payout, credit, faults>>

\* Seed the case and spawn the armed service, downstream workers first.
Seed ==
    /\ \/ /\ Owner = "worker" /\ At("seed", "feed")
          /\ PW!CreateWithdrawal(First)
          /\ armed' = Leader(Workers) /\ up' = {Leader(Workers)}
          /\ UNCHANGED <<handler, spine, relay, credit>>
       \/ /\ Owner = "relay" /\ At("seed", "await")
          /\ PW!CreateWithdrawal(First) /\ OB!Commit(First)
          /\ armed' = Relay /\ up' = Consumers(Workers) \cup {Relay}
          /\ UNCHANGED <<handler, spine, credit>>
       \/ /\ Owner = "processor" /\ At("seed", "feed")
          /\ armed' = Leader(Processors) /\ up' = {Leader(Processors)}
          /\ UNCHANGED System
       \/ /\ Owner \in {"api", "a2"} /\ At("seed", "bind")
          /\ armed' = Api /\ up' = {Api}
          /\ UNCHANGED System
    /\ left' = CASE Owner = "api" -> (IF Redeliveries = 2 \/ Instances = 2 THEN 2 ELSE 1)
                 [] Owner = "a2" -> 1
                 [] OTHER -> Redeliveries
    /\ UNCHANGED <<cell, asked, aborted, drained, gaveUp, verdict>>

\* wait_for_port: the API answers, or the sweep ends and drops its processes.
Bound(next, running) ==
    \/ step' = next /\ up' = running
    \/ step' = "bailed" /\ up' = {}

Bind ==
    /\ step = "bind" /\ Bound("post", up)
    /\ UNCHANGED <<System, plan>>

\* enqueue_withdrawal, enqueue_deposit
Enqueue ==
    \/ Owner = "worker" /\ PW!Publish(First) /\ UNCHANGED <<handler, spine, relay, credit>>
    \/ Owner = "processor" /\ DC!Publish(OnlyDeposit) /\ UNCHANGED payout

Feed ==
    /\ step \in {"feed", "redeliver"}
    /\ Enqueue
    /\ left' = left - 1
    /\ step' = IF left > 1 THEN step ELSE IF step = "feed" THEN "await" ELSE "drain"
    /\ UNCHANGED <<cell, up, armed, asked, aborted, drained, gaveUp, verdict>>

\* post_withdrawal, which blocks: a response, a refused or reset connection, or
\* its own timeout, on which the API drops the request or is past that point.
Current == Posts[Cardinality(asked)]

Send ==
    /\ At("post", "answer")
    /\ LET r == Posts[Cardinality(asked) + 1] IN
          /\ asked' = asked \cup {r}
          /\ CutOff(IF Api \in up THEN {} ELSE {r})
    /\ left' = left - 1
    /\ UNCHANGED <<handler, req, row, rec, applied, resp, relay, tables, worker, stream, faults,
                   credit, cell, up, armed, aborted, drained, gaveUp, verdict>>

Answered ==
    /\ step = "answer"
    /\ \/ pc[Current] \in {"done", "crashed"} /\ UNCHANGED <<pc, gaveUp>>
       \/ /\ pc[Current] \notin {"done", "crashed"}
          /\ UNCHANGED pc \/ CutOff({Current})
          /\ gaveUp' = TRUE
    /\ IF left > 0
         THEN step' = "post" /\ UNCHANGED verdict
         ELSE CASE Cardinality(asked) = 2 /\ Owner = "a2" ->
                     /\ step' = "expire"
                     /\ verdict' = IF resp[Current].kind = "retry_after" THEN {} ELSE {"A2(a)"}
                [] Cardinality(asked) = 3 ->
                     /\ step' = "drain"
                     /\ verdict' = verdict \cup
                          (IF resp[Current].kind = "ok" THEN {} ELSE {"A2(b)"})
                [] OTHER -> step' = "await" /\ UNCHANGED verdict
    /\ UNCHANGED <<handler, req, row, rec, applied, resp, relay, tables, worker, stream, faults,
                   credit, cell, left, up, armed, asked, aborted, drained>>

\* expire_idem_lease: the deadline is an hour ago.
ExpireLease ==
    /\ At("expire", "post")
    /\ row' = [row EXCEPT ![KeyOf(First)].left = API!Expired]
    /\ left' = 1
    /\ UNCHANGED <<handler, req, pc, rec, applied, resp, relay, tables, worker, stream,
                   faults, credit, cell, up, armed, asked, aborted, drained, gaveUp, verdict>>

\* wait_timeout on the armed process: it has exited, or it is killed.
AfterAwait == IF Owner \in {"worker", "processor"} THEN "reap" ELSE "restart"

SeeAbort ==
    /\ At("await", AfterAwait)
    /\ armed \notin up
    /\ aborted' = TRUE /\ armed' = None
    /\ UNCHANGED <<System, cell, left, up, asked, drained, gaveUp, verdict>>

GiveUpAbort ==
    /\ At("await", AfterAwait)
    /\ armed \in up
    /\ Ends(armed)
    /\ up' = up \ {armed} /\ armed' = None
    /\ gaveUp' = TRUE
    /\ UNCHANGED <<cell, left, asked, aborted, drained, verdict>>

\* reclaim_and_ack clears the crashed consumer's entries; the consumers restart.
Reap ==
    /\ At("reap", "redeliver")
    /\ \/ /\ Owner = "worker"
          /\ pending' = {} /\ up' = Consumers(Workers)
          /\ UNCHANGED <<read, at, reply, signed, sends, orphans, handler, spine, relay, tables,
                         stream, credit>>
       \/ /\ Owner = "processor"
          /\ unacked' = {} /\ up' = Consumers(Processors)
          /\ UNCHANGED <<order, deposits, balance, dead, call, delivered, handed, stage, inbox,
                         seen, offered, payout>>
    /\ left' = Redeliveries
    /\ UNCHANGED <<faults, cell, armed, asked, aborted, drained, gaveUp, verdict>>

\* The crashed relay or API comes back disarmed, in the takeover run with relay
\* and worker; in the other API runs only to see it bind.
Restart ==
    /\ step = "restart"
    /\ CASE Owner = "relay" -> step' = "drain" /\ up' = up \cup {Relay}
         [] Owner = "a2" -> Bound("post", {Api, Relay, Leader(Workers)})
         [] OTHER -> Bound("kill", {Api})
    /\ left' = IF Owner = "a2" THEN 1 ELSE 0
    /\ UNCHANGED <<System, cell, armed, asked, aborted, drained, gaveUp, verdict>>

\* quiescent: no undelivered and no pending entry on either stream; then, in a
\* query of its own, no unsent outbox row.
\* (LagIsZero looks for undelivered entries only.)
LagIsZero == read = Len(stream) /\ handed = Len(delivered)
StreamsDrained ==
    /\ read = Len(stream) /\ pending = {}
    /\ handed = Len(delivered) /\ unacked = {}

ReadStreams ==
    /\ At("drain", "outbox")
    /\ StreamsDrained
    /\ UNCHANGED <<System, plan, up>>

ReadOutbox ==
    /\ step = "outbox"
    /\ drained' = (OB!Unsent = {})
    /\ step' = IF OB!Unsent = {} THEN "kill" ELSE "drain"
    /\ UNCHANGED <<System, cell, left, up, armed, asked, aborted, gaveUp, verdict>>

\* The deadline of drain_to_quiescence, looked at after a check that failed.
\* (NeverGivesUp is a loop without one.)
NeverGivesUp == FALSE
GiveUpDrain ==
    /\ \/ At("drain", "kill") /\ ~StreamsDrained
       \/ At("outbox", "kill") /\ OB!Unsent # {}
    /\ gaveUp' = TRUE
    /\ UNCHANGED <<System, cell, left, up, armed, asked, aborted, drained, verdict>>

\* One process after the other, the API and the relay before the workers.
Kill ==
    /\ step = "kill"
    /\ \E k \in up :
          /\ k \in Workers => up \subseteq Workers
          /\ k \in Relays => Api \notin up
          /\ Ends(k)
          /\ up' = up \ {k}
    /\ UNCHANGED <<plan, step>>

----------------------------------------------------------------------------
(* The oracles (harness/src/oracles.rs), read with no process running *)

PaidOut == Each * Cardinality({r \in Requests : status[r] = "completed"})
Due == Each * Cardinality({r \in Requests : status[r] \in PW!Open})
OrphanLock == locked[Account] > Due

Conserved ==
    /\ Funds = available[Account] + locked[Account] + PaidOut
    /\ DC!BalanceIsDeposits

AtMostOnce == \A r \in Requests : sends[r] <= 1 /\ (status[r] = "completed" => sends[r] = 1)

Rows == Cardinality({r \in Requests : status[r] # "none"})
Expected == IF Owner = "api" THEN 0 ELSE 1

Violations ==
    {v \in {"conservation", "at_most_once", "no_stranded", "reconciler", "replay_safety",
            "dedup", "drain", "closure"} :
       CASE v = "conservation" -> ~Conserved
         [] v = "at_most_once" -> ~AtMostOnce
         [] v = "no_stranded" -> OrphanLock \/ OB!Unsent # {}
         [] v = "reconciler" -> ~Conserved \/ OrphanLock
         [] v = "replay_safety" -> Owner # "processor" /\ Rows # Expected
         [] v = "dedup" -> Owner = "processor" /\ Cardinality(deposits) # 1
         [] v = "drain" -> Owner # "api" /\ ~drained
         [] v = "closure" -> ~aborted}

\* The reconciler counts an outbox row that has been unsent for a minute, which
\* it may or may not have been.  (Its last category, processing for five minutes,
\* is out of reach: the waits of a run sum up to less than two.)
Overdue == {v \in {"reconciler"} : OB!Unsent # {}}

Verdict ==
    /\ At("kill", "done")
    /\ up = {}
    /\ \E late \in SUBSET Overdue : verdict' = verdict \cup Violations \cup late
    /\ UNCHANGED <<System, cell, left, up, armed, asked, aborted, drained, gaveUp>>

Harness ==
    \/ Seed \/ Bind \/ Feed \/ Send \/ Answered \/ ExpireLease
    \/ SeeAbort \/ GiveUpAbort \/ Reap \/ Restart
    \/ ReadStreams \/ ReadOutbox \/ GiveUpDrain \/ Kill \/ Verdict

RunNext == Serve \/ Abort \/ Harness

RunSpec == RunInit /\ [][RunNext]_<<System, harness>>

\* The harness has a clock, so that of the checks that fail one is past the
\* deadline: of the services nothing is assumed.
FairRunSpec ==
    /\ RunSpec
    /\ WF_<<System, harness>>(Harness)
    /\ SF_<<System, harness>>(GiveUpDrain)

----------------------------------------------------------------------------
(* Properties *)

DoubleSend == \E r \in Requests : sends[r] > 1

\* A recorded violation is the system's: whatever the harness kills and when,
\* funds are conserved, and what is stranded is an outbox row, never a lock for
\* no withdrawal; and with no wait
\* run out, the one thing a run records is a send made twice, by two workers, or
\* a lease that ran out before the first replay.
AlarmIsReal ==
    step = "done" =>
       /\ "conservation" \notin verdict
       /\ verdict \cap {"no_stranded", "reconciler"} # {} => OB!Unsent # {}
       /\ "at_most_once" \in verdict => DoubleSend /\ Instances = 2
       /\ verdict \ {"A2(a)"} # {} => gaveUp \/ DoubleSend

\* "Empty == all five invariants held" (report.rs): a run without violations had
\* its crash, and the work it was about is done exactly once; of a run with a
\* relay, that is only that the row was published and nothing sent twice.
PassIsEarned ==
    step = "done" /\ verdict = {} =>
       /\ aborted
       /\ Owner = "worker" => status[First] = "completed" /\ sends[First] = 1
       /\ Owner = "processor" => order[OnlyOrder].status = "paid" /\ deposits = {OnlyDeposit}
       /\ Owner = "api" => applied = {} /\ available[Account] = Funds
       /\ Owner \in {"relay", "a2"} =>
            \E r \in Requests : /\ committed = {r} /\ sent = {r}
                                /\ r \in {stream[i] : i \in 1..Len(stream)}
                                /\ sends[r] <= 1

\* A run ends, whatever becomes of the services.
EveryRunEnds == <>(step \in {"done", "bailed"})
=============================================================================

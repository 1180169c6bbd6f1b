---------------------------- MODULE SystemProofs ----------------------------
(***************************************************************************)
(* The services together.                                                   *)
(*                                                                          *)
(* First a withdrawal from the client to the signer (WithdrawPath), for any  *)
(* number of requests, keys, relays, workers and faults: one payout per key, *)
(* locked funds with their intent in the outbox, no refund of what was sent. *)
(* Then a run of the chaos harness over all services (ChaosRun), for every   *)
(* crash point and schedule: an empty report is earned, an alarm is real.    *)
(* The first part rests on none of ChaosRun's assumptions.                   *)
(*                                                                          *)
(* The argument is compositional.  Each component keeps the invariant its   *)
(* own proofs found; what is new is that a step of the whole is a step of   *)
(* each component, or nothing to it, and what ties their states together.   *)
(***************************************************************************)
EXTENDS ChaosRun, SetLemmas, FiniteSetTheorems, TLAPS

APIP == INSTANCE IdemExecuteProofs

OBP == INSTANCE OutboxProofs WITH Rows <- Requests

PWP == INSTANCE PayoutWorkerProofs WITH
    Withdrawals <- Requests,
    Accounts <- {Account},
    AccountOf <- [r \in Requests |-> Account],
    Funds <- [a \in {Account} |-> Funds],
    GarbledAnswers <- FALSE,
    Redelivery <- TRUE,
    OrphansArrive <- FALSE,
    MaxCopies <- MaxEntries,
    pc <- at, batch <- reply

----------------------------------------------------------------------------
(* The components' assumptions hold of what they are given here.            *)

LEMMA SpineGiven == APIP!LeaseAssumption /\ APIP!NoneAssumption
BY SpineAssumption DEF APIP!LeaseAssumption, APIP!NoneAssumption

LEMMA RelayGiven == OBP!NoneAssumption /\ OBP!RelaysAssumption /\ OBP!FaultAssumption
<1>1. OBP!IsFiniteSet(Relays)
  BY RelayAssumption, Zenon DEF IsFiniteSet, OBP!IsFiniteSet
<1> QED BY <1>1, SpineAssumption, RelayAssumption, BoundsAssumption
        DEF OBP!NoneAssumption, OBP!RelaysAssumption, OBP!FaultAssumption

LEMMA PayoutGiven == PWP!DataAssumption /\ PWP!CountAssumption /\ PWP!BoundsAssumption
BY FundsAssumption, BoundsAssumption
   DEF PWP!DataAssumption, PWP!CountAssumption, PWP!BoundsAssumption

----------------------------------------------------------------------------
(* The proofs' instances of a component define its steps anew: they are     *)
(* those of the instances the specification is made of.                     *)

LEMMA SameSpine ==
    \A r : /\ API!Step(r) <=> APIP!Step(r)
           /\ API!DbError(r) <=> APIP!DbError(r)
           /\ API!Crash(r) <=> APIP!Crash(r)
           /\ API!Commit(r) <=> APIP!Commit(r)
           /\ API!CommitUnheard(r) <=> APIP!CommitUnheard(r)
BY ZenonT(30) DEF API!Step, APIP!Step, API!AcquireFresh, APIP!AcquireFresh, API!AcquireExisting,
       APIP!AcquireExisting, API!DecideReplay, APIP!DecideReplay, API!DecideConflict,
       APIP!DecideConflict, API!DecideRetryAfter, APIP!DecideRetryAfter,
       API!DecideTakeover, APIP!DecideTakeover, API!TakeoverWon, APIP!TakeoverWon,
       API!TakeoverLost, APIP!TakeoverLost, API!RunEffect, APIP!RunEffect,
       API!EffectRollsBack, APIP!EffectRollsBack, API!CompleteWon, APIP!CompleteWon,
       API!CompleteLost, APIP!CompleteLost, API!Commit, APIP!Commit, API!CommitUnheard,
       APIP!CommitUnheard, API!Reread, APIP!Reread, API!DbError, APIP!DbError, API!Crash,
       APIP!Crash, API!CommitTx, APIP!CommitTx, API!Answer, APIP!Answer, API!Goto,
       APIP!Goto, API!Key, APIP!Key, API!RowLocked, APIP!RowLocked, API!MayTakeOver,
       APIP!MayTakeOver, API!StillOwns, APIP!StillOwns, API!TimeLeft, APIP!TimeLeft,
       API!Expired, APIP!Expired

LEMMA SameTick == (API!Tick <=> APIP!Tick) /\ (API!Init <=> APIP!Init)
BY Zenon DEF API!Tick, APIP!Tick, API!Init, APIP!Init, API!LeaseRuns, APIP!LeaseRuns, API!Aged,
       APIP!Aged, API!Expired, APIP!Expired, API!AbsentRow, APIP!AbsentRow, API!Unanswered,
       APIP!Unanswered

LEMMA SameRelay ==
    \A x : /\ OB!ReadUnsent(x) <=> OBP!ReadUnsent(x)
           /\ OB!Publish(x) <=> OBP!Publish(x)
           /\ OB!PassOver(x) <=> OBP!PassOver(x)
           /\ OB!MarkSent(x) <=> OBP!MarkSent(x)
           /\ OB!MarkFails(x) <=> OBP!MarkFails(x)
           /\ OB!Crash(x) <=> OBP!Crash(x)
           /\ OB!Commit(x) <=> OBP!Commit(x)
BY Zenon DEF OB!ReadUnsent, OBP!ReadUnsent, OB!Publish, OBP!Publish, OB!PassOver, OBP!PassOver,
       OB!MarkSent, OBP!MarkSent, OB!MarkFails, OBP!MarkFails, OB!Crash, OBP!Crash,
       OB!Commit, OBP!Commit, OB!Xadd, OBP!Xadd, OB!XaddFails, OBP!XaddFails, OB!XaddLost,
       OBP!XaddLost, OB!Unsent, OBP!Unsent, OB!Fault, OBP!Fault

LEMMA SameCounting == \A S : /\ PWP!Cardinality(S) = Cardinality(S)
                             /\ PW!Cardinality(S) = Cardinality(S)
BY Zenon DEF Cardinality, PW!Cardinality, PWP!Cardinality

LEMMA SameParser ==
    /\ \A v : PW!Delivered(v) = PWP!Delivered(v)
    /\ \A o, e : PW!ReadGroupReply(o, e) = PWP!ReadGroupReply(o, e)
    /\ \A o, e, d : PW!AutoclaimReply(o, e, d) = PWP!AutoclaimReply(o, e, d)
    /\ \A i : PW!StreamEntry(i) = PWP!StreamEntry(i)
BY Zenon DEF PW!Delivered, PWP!Delivered, PW!Parse, PWP!Parse, PW!EntriesOf, PWP!EntriesOf,
       PW!PairsIn, PWP!PairsIn, PW!NamesIn, PWP!NamesIn, PW!FieldMap, PWP!FieldMap,
       PW!Text, PWP!Text, PW!IsBulk, PWP!IsBulk, PW!IsData, PWP!IsData, PW!NoText,
       PWP!NoText, PW!ReadGroupReply, PWP!ReadGroupReply, PW!AutoclaimReply,
       PWP!AutoclaimReply, PW!EntriesReply, PWP!EntriesReply, PW!EntryReply,
       PWP!EntryReply, PW!StreamEntry, PWP!StreamEntry, PW!Bulk, PWP!Bulk, PW!Data,
       PWP!Data, PW!Nil, PWP!Nil

LEMMA SamePlaces ==
    \A k : /\ PW!Payout(k) = PWP!Payout(k) /\ PW!Current(k) = PWP!Current(k)
           /\ PW!NextEntry(k) <=> PWP!NextEntry(k)
           /\ \A s : PW!Goto(k, s) <=> PWP!Goto(k, s)
           /\ \A entries, then : PW!Take(k, entries, then) <=> PWP!Take(k, entries, then)
BY Zenon DEF PW!Payout, PWP!Payout, PW!Current, PWP!Current, PW!NextEntry, PWP!NextEntry,
       PW!Goto, PWP!Goto, PW!Take, PWP!Take

LEMMA SameEffects ==
    \A w : /\ PW!Spend(w) <=> PWP!Spend(w)
           /\ PW!Refund(w) <=> PWP!Refund(w)
           /\ PW!Perform(w) <=> PWP!Perform(w)
           /\ PW!Abandon(w) <=> PWP!Abandon(w)
           /\ PW!CreateWithdrawal(w) <=> PWP!CreateWithdrawal(w)
           /\ PW!Redeliver(w) <=> PWP!Redeliver(w)
BY Zenon DEF PW!Spend, PWP!Spend, PW!Refund, PWP!Refund, PW!Perform, PWP!Perform, PW!Abandon,
       PWP!Abandon, PW!CreateWithdrawal, PWP!CreateWithdrawal, PW!Redeliver, PWP!Redeliver,
       PW!Payout, PWP!Payout, PW!Current, PWP!Current, PW!db, PWP!db, PW!redis, PWP!redis,
       PW!consumer, PWP!consumer, PW!signer, PWP!signer

LEMMA SameWork == \A k : PW!Work(k) <=> PWP!Work(k)
<1>1. \A S : PW!InOrder(S) = PWP!InOrder(S)
  BY Zenon DEF PW!InOrder, PWP!InOrder, PW!Cardinality, PWP!Cardinality
<1>2. \A k : PW!Reclaim(k) <=> PWP!Reclaim(k)
  BY <1>1, SameCounting, SameParser, SamePlaces
     DEF PW!Reclaim, PWP!Reclaim, PW!db, PWP!db, PW!signer, PWP!signer, PW!redis, PWP!redis
<1>3. \A k : PW!Fetch(k) <=> PWP!Fetch(k)
  BY SameParser, SamePlaces DEF PW!Fetch, PWP!Fetch, PW!db, PWP!db, PW!signer, PWP!signer
<1>4. \A k : /\ PW!Find(k) <=> PWP!Find(k)
             /\ PW!Lookup(k) <=> PWP!Lookup(k)
             /\ PW!Advance(k) <=> PWP!Advance(k)
             /\ PW!AdvanceRaced(k) <=> PWP!AdvanceRaced(k)
             /\ PW!IssueSend(k) <=> PWP!IssueSend(k)
  BY SamePlaces, SameEffects, Zenon
     DEF PW!Find, PWP!Find, PW!Lookup, PWP!Lookup, PW!Advance, PWP!Advance,
         PW!AdvanceRaced, PWP!AdvanceRaced, PW!IssueSend, PWP!IssueSend, PW!db, PWP!db,
         PW!redis, PWP!redis, PW!consumer, PWP!consumer, PW!signer, PWP!signer,
         PW!Terminal, PWP!Terminal
<1>5. \A k : /\ PW!SignerAccepts(k) <=> PWP!SignerAccepts(k)
             /\ PW!SignerAnswersGarbled(k) <=> PWP!SignerAnswersGarbled(k)
             /\ PW!SignerRejects(k) <=> PWP!SignerRejects(k)
  BY SamePlaces, SameEffects, Zenon
     DEF PW!SignerAccepts, PWP!SignerAccepts, PW!SignerAnswersGarbled,
         PWP!SignerAnswersGarbled, PW!SignerRejects, PWP!SignerRejects, PW!db, PWP!db,
         PW!redis, PWP!redis, PW!consumer, PWP!consumer, PW!signer, PWP!signer,
         PW!Terminal, PWP!Terminal
<1>6. \A k : /\ PW!FinalizeSuccess(k) <=> PWP!FinalizeSuccess(k)
             /\ PW!FinalizeFailed(k) <=> PWP!FinalizeFailed(k)
             /\ PW!Xack(k) <=> PWP!Xack(k)
  BY SamePlaces, SameEffects, Zenon
     DEF PW!FinalizeSuccess, PWP!FinalizeSuccess, PW!FinalizeFailed, PWP!FinalizeFailed,
         PW!Xack, PWP!Xack, PW!db, PWP!db, PW!redis, PWP!redis, PW!consumer, PWP!consumer,
         PW!signer, PWP!signer, PW!Terminal, PWP!Terminal
<1> QED BY <1>2, <1>3, <1>4, <1>5, <1>6, Zenon DEF PW!Work, PWP!Work

LEMMA SameBreak == \A k : PW!Break(k) <=> PWP!Break(k)
<1>1. \A k : PW!TransportError(k) <=> PWP!TransportError(k)
  BY SamePlaces, SameEffects, Zenon
     DEF PW!TransportError, PWP!TransportError, PW!Fault, PWP!Fault, PW!db, PWP!db,
         PW!redis, PWP!redis
<1>2. \A k : PW!LeaveOnError(k) <=> PWP!LeaveOnError(k)
  BY SamePlaces, SameEffects, Zenon
     DEF PW!LeaveOnError, PWP!LeaveOnError, PW!Fault, PWP!Fault, PW!db, PWP!db, PW!redis,
         PWP!redis, PW!signer, PWP!signer
<1>3. \A k : PW!CommitUnheard(k) <=> PWP!CommitUnheard(k)
  BY SamePlaces, SameEffects, Zenon
     DEF PW!CommitUnheard, PWP!CommitUnheard, PW!Fault, PWP!Fault, PW!redis, PWP!redis,
         PW!signer, PWP!signer
<1>4. \A k : PW!Crash(k) <=> PWP!Crash(k)
  BY SamePlaces, SameEffects, Zenon
     DEF PW!Crash, PWP!Crash, PW!Fault, PWP!Fault, PW!db, PWP!db, PW!redis, PWP!redis,
         PW!NoReply, PWP!NoReply
<1> QED BY <1>1, <1>2, <1>3, <1>4, Zenon DEF PW!Break, PWP!Break

LEMMA SameInit == (OB!Init <=> OBP!Init) /\ (PW!Init <=> PWP!Init)
BY Zenon DEF OB!Init, OBP!Init, PW!Init, PWP!Init, PW!NoReply, PWP!NoReply

LEMMA SameMoney ==
    /\ \A S : AmountOf(S) = PWP!AmountOf(S)
    /\ \A a : PW!Clawback(a) = PWP!Clawback(a)
<1>1. \A S : AmountOf(S) = SumOf(Amount, S)
  BY Zenon DEF AmountOf, SumOf
<1>2. \A S : PWP!Adder(Amount, S) = Adder(Amount, S)
  BY Zenon DEF Adder, Adds, AddStep, Pick, PWP!Adder, PWP!Adds, PWP!AddStep, PWP!Pick
<1>3. \A S : PWP!AmountOf(S) = PWP!Adder(Amount, S)[S]
  BY PayoutGiven, PWP!AmountIsAdder
<1>4. \A S : AmountOf(S) = PWP!AmountOf(S)
  BY <1>1, <1>2, <1>3, SumIsAdder
<1>5. \A a : PW!Clawback(a) = PWP!Clawback(a)
  BY Zenon DEF PW!Clawback, PWP!Clawback, PW!Of, PWP!Of
<1> QED BY <1>4, <1>5

----------------------------------------------------------------------------
(* The steps of the whole, as each component sees them                      *)

\* What ties the components' states together: an effect is durable, a row is
\* in the outbox, and a withdrawal exists, all at once.
TablesAgree ==
    /\ committed = applied
    /\ \A r \in Requests : status[r] # "none" <=> r \in applied

\* The inductive invariant.
IInv ==
    /\ APIP!IInv
    /\ OBP!TypeOK
    /\ PWP!IInv
    /\ TablesAgree

\* To the spine a step is one of its own, or nothing, or the handler's refusal
\* of a request ahead of it.
LEMMA StepOfSpine ==
    ASSUME Next
    PROVE  \/ APIP!Next \/ UNCHANGED spine
           \/ \E r \in Requests : Arrived(r) /\ TurnAway(r)
<1>1. ASSUME NEW r \in Requests, Post(r)
      PROVE  APIP!Step(r) \/ UNCHANGED spine \/ (Arrived(r) /\ TurnAway(r))
  <2>1. SpineStep(r) \/ Execute(r) \/ ShortOfFunds(r) \/ Accept(r) \/ AcceptUnheard(r)
           => API!Step(r)
    BY DEF SpineStep, Execute, ShortOfFunds, Accept, AcceptUnheard, API!Step
  <2> QED BY <1>1, <2>1, SameSpine DEF Post, Precheck, Pass, Refuse
<1>2. ASSUME NEW r \in Requests, SpineBreaks(r)
      PROVE  \/ APIP!DbError(r) \/ APIP!Crash(r) \/ UNCHANGED spine
             \/ Arrived(r) /\ TurnAway(r)
  BY <1>2, SameSpine DEF SpineBreaks, ReadFails, Pass
<1>3. Tick => APIP!Tick
  BY SameTick DEF Tick
<1>4. \A k : RelayStep(k) \/ RelayBreaks(k) \/ WorkerStep(k) \/ WorkerBreaks(k) \/ Redeliver(k)
                => UNCHANGED spine
  BY DEF RelayStep, RelayBreaks, WorkerStep, WorkerBreaks, Redeliver
<1> QED BY <1>1, <1>2, <1>3, <1>4 DEF Next, APIP!Next

\* A fault may be one of the handler's own.
MayCount == \/ faults' = faults
            \/ faults < MaxFaults /\ faults' = faults + 1

\* What the tables and the workers are not told of.
LEMMA QuietSteps ==
    ASSUME Next
    PROVE  \/ \E r \in Requests : Accept(r) \/ AcceptUnheard(r)
           \/ \E k \in Relays : RelayStep(k) \/ RelayBreaks(k)
           \/ \E k \in Workers : WorkerStep(k) \/ WorkerBreaks(k)
           \/ \E i \in PW!Entries : Redeliver(i)
           \/ /\ UNCHANGED <<relay, tables, worker, stream>>
              /\ MayCount
<1>1. ASSUME NEW r \in Requests, Post(r) \/ SpineBreaks(r), ~Accept(r), ~AcceptUnheard(r)
      PROVE  UNCHANGED <<relay, tables, worker, stream>> /\ MayCount
  BY <1>1 DEF Post, SpineBreaks, Precheck, Refuse, ReadFails, SpineStep, Execute, ShortOfFunds,
     MayCount
<1>2. Tick => UNCHANGED <<relay, tables, worker, stream>> /\ MayCount
  BY DEF Tick, MayCount
<1> QED BY <1>1, <1>2 DEF Next

\* A relay adds to the stream what it has in its batch, or nothing.
LEMMA RelayAdds ==
    ASSUME NEW k \in Relays, batch[k] \in SUBSET committed, RelayStep(k) \/ RelayBreaks(k)
    PROVE  stream' = stream \/ \E r \in committed : stream' = Append(stream, r)
<1>1. ASSUME NEW r \in Requests, OB!Xadd(k, r) \/ OB!XaddFails(k, r)
      PROVE  r \in batch[k] /\ (stream' = stream \/ stream' = Append(stream, r))
  BY <1>1 DEF OB!Xadd, OB!XaddFails, OB!XaddLost
<1>2. \/ stream' = stream
      \/ \E r \in Requests : OB!Xadd(k, r) \/ OB!XaddFails(k, r)
  BY DEF RelayStep, RelayBreaks, OB!ReadUnsent, OB!Publish, OB!PassOver, OB!MarkSent,
         OB!MarkFails, OB!Crash
<1> QED BY <1>1, <1>2

\* To the payout path: a withdrawal is created, an entry appears of one that
\* was, a worker moves or an entry is put back, or nothing changes.
LEMMA StepOfPayout ==
    ASSUME IInv, Next
    PROVE  PWP!Step
<1>1. ASSUME NEW r \in Requests, Accept(r) \/ AcceptUnheard(r) PROVE PWP!Next
  <2>1. PWP!CreateWithdrawal(r)
    BY <1>1, SameEffects DEF Accept, AcceptUnheard
  <2> QED BY <2>1 DEF PWP!Next
<1>2. ASSUME NEW k \in Relays, RelayStep(k) \/ RelayBreaks(k)
      PROVE  \/ \E r \in Requests : PWP!Appears(r)
             \/ UNCHANGED <<PWP!db, PWP!redis, PWP!consumer, PWP!signer>>
  <2>1. UNCHANGED <<tables, worker>>
    BY <1>2 DEF RelayStep, RelayBreaks
  <2>2. CASE stream' = stream
    BY <2>1, <2>2 DEF tables, worker, PWP!db, PWP!redis, PWP!consumer, PWP!signer
  <2>3. ASSUME NEW r \in committed, stream' = Append(stream, r)
        PROVE  r \in Requests /\ PWP!Appears(r)
    <3>1. r \in Requests /\ status[r] # "none"
      BY DEF IInv, TablesAgree, OBP!TypeOK
    <3> QED BY <2>1, <2>3, <3>1
            DEF tables, worker, PWP!Appears, PWP!db, PWP!consumer, PWP!signer
  <2> QED BY <1>2, <2>2, <2>3, RelayAdds DEF IInv, OBP!TypeOK
<1>3. ASSUME NEW k \in Workers, WorkerStep(k) \/ WorkerBreaks(k) PROVE PWP!Next
  BY <1>3, SameWork, SameBreak DEF WorkerStep, WorkerBreaks, PWP!Next
<1>4. ASSUME NEW i \in PW!Entries, Redeliver(i) PROVE PWP!Next
  BY <1>4, SameEffects DEF Redeliver, PWP!Next, PW!Entries, PWP!Entries
<1>5. UNCHANGED <<relay, tables, worker, stream>>
         => UNCHANGED <<PWP!db, PWP!redis, PWP!consumer, PWP!signer>>
  BY DEF tables, worker, PWP!db, PWP!redis, PWP!consumer, PWP!signer
<1> QED BY <1>1, <1>2, <1>3, <1>4, <1>5, QuietSteps DEF PWP!Step

\* Workers and redelivery create no withdrawal, and add to the stream at most
\* a copy of what is on it.
LEMMA WorkerKeeps ==
    ASSUME PWP!TypeOK,
           \/ \E k \in Workers : WorkerStep(k) \/ WorkerBreaks(k)
           \/ \E i \in PW!Entries : Redeliver(i)
    PROVE  /\ \A r \in Requests : status'[r] # "none" <=> status[r] # "none"
           /\ stream' = stream \/ \E i \in 1..Len(stream) : stream' = Append(stream, stream[i])
           /\ faults' \in 0..MaxFaults
           /\ UNCHANGED <<spine, relay>>
<1>1. ASSUME NEW k \in Workers, WorkerStep(k) \/ WorkerBreaks(k)
      PROVE  /\ PWP!Work(k) \/ PWP!Break(k)
             /\ UNCHANGED <<spine, relay>>
  BY <1>1, SameWork, SameBreak DEF WorkerStep, WorkerBreaks
<1>2. ASSUME NEW i \in PW!Entries, Redeliver(i)
      PROVE  /\ UNCHANGED <<spine, relay, status, faults>>
             /\ i \in 1..Len(stream) /\ stream' = Append(stream, stream[i])
  BY <1>2 DEF Redeliver, PW!Redeliver, PW!Entries, PW!db
<1>3. ASSUME NEW k \in Workers, PWP!Work(k) \/ PWP!Break(k)
      PROVE  /\ \A r \in Requests : status'[r] # "none" <=> status[r] # "none"
             /\ stream' = stream
             /\ faults' \in 0..MaxFaults
  BY <1>3, PayoutGiven, PWP!WorkersCreateNone
<1>4. faults \in 0..MaxFaults
  BY DEF PWP!TypeOK
<1> QED BY <1>1, <1>2, <1>3, <1>4

----------------------------------------------------------------------------
(* Each component keeps its invariant in the whole                          *)

LEMMA InvInit == Init => IInv
<1> SUFFICES ASSUME Init PROVE IInv
  OBVIOUS
<1>1. APIP!IInv
  BY SameTick, SpineGiven, APIP!SafeInit DEF Init
<1>2. OBP!TypeOK
  BY SameInit, RelayGiven, OBP!TypeInit DEF Init
<1>3. PWP!IInv
  BY SameInit, PayoutGiven, PWP!InvInit DEF Init
<1>4. TablesAgree
  BY DEF Init, TablesAgree, API!Init, OB!Init, PW!Init
<1> QED BY <1>1, <1>2, <1>3, <1>4 DEF IInv

\* The spine does not mind a request that ends before it begins.
LEMMA KeepsSpine ==
    ASSUME IInv, Next
    PROVE  APIP!IInv'
<1>1. APIP!Next => APIP!IInv'
  BY SpineGiven, APIP!SafeStep DEF IInv
<1>2. UNCHANGED spine => APIP!IInv'
  <2>1. UNCHANGED spine => UNCHANGED APIP!vars
    BY DEF spine, APIP!vars
  <2> QED BY <2>1, SpineGiven, APIP!SafeStep DEF IInv
<1>3. ASSUME NEW r \in Requests, Arrived(r), TurnAway(r) PROVE APIP!IInv'
  <2>1. APIP!Goto(r, "done") /\ pc[r] # "done" /\ UNCHANGED <<req, row, rec, applied, resp>>
    BY <1>3 DEF Arrived, TurnAway, API!Goto, APIP!Goto
  <2>2. APIP!TypeOK'
    BY <2>1 DEF IInv, APIP!IInv, APIP!TypeOK, APIP!Goto, APIP!Steps
  <2>3. "done" \in APIP!Steps \ {"commit"}
    BY DEF APIP!Steps
  <2> QED BY <2>1, <2>2, <2>3, SpineGiven, APIP!QuietStep DEF IInv
<1> QED BY <1>1, <1>2, <1>3, StepOfSpine

LEMMA KeepsRelay ==
    ASSUME IInv, Next
    PROVE  OBP!TypeOK'
<1>1. OBP!Next => OBP!TypeOK'
  BY RelayGiven, OBP!TypeStep DEF IInv
<1>2. ASSUME UNCHANGED <<relay, stream>>, MayCount PROVE OBP!TypeOK'
  <2>1. faults' \in 0..MaxFaults
    BY <1>2, BoundsAssumption DEF IInv, OBP!TypeOK, MayCount
  <2> QED BY <1>2, <2>1 DEF IInv, OBP!TypeOK, relay
<1>3. ASSUME UNCHANGED relay, faults' \in 0..MaxFaults,
             \E i \in 1..Len(stream) : stream' = Append(stream, stream[i])
      PROVE  OBP!TypeOK'
  <2>1. stream \in Seq(committed)
    BY DEF IInv, OBP!TypeOK
  <2>2. stream' \in Seq(committed)
    BY <1>3, <2>1
  <2> QED BY <1>3, <2>2 DEF IInv, OBP!TypeOK, relay
<1>4. ASSUME UNCHANGED relay, faults' \in 0..MaxFaults, stream' = stream PROVE OBP!TypeOK'
  BY <1>4 DEF IInv, OBP!TypeOK, relay
<1>5. PWP!TypeOK
  BY DEF IInv, PWP!IInv, PWP!Core
<1>6. ASSUME NEW r \in Requests, Accept(r) \/ AcceptUnheard(r) PROVE OBP!Next
  BY <1>6, SameRelay DEF Accept, AcceptUnheard, OBP!Next
<1>7. ASSUME NEW k \in Relays, RelayStep(k) \/ RelayBreaks(k) PROVE OBP!Next
  BY <1>7, SameRelay DEF RelayStep, RelayBreaks, OBP!Next
<1>8. \/ \E r \in Requests : Accept(r) \/ AcceptUnheard(r)
      \/ \E k \in Relays : RelayStep(k) \/ RelayBreaks(k)
      \/ \E k \in Workers : WorkerStep(k) \/ WorkerBreaks(k)
      \/ \E i \in PW!Entries : Redeliver(i)
      \/ UNCHANGED <<relay, stream>> /\ MayCount
  BY QuietSteps
<1> QED BY <1>1, <1>2, <1>3, <1>4, <1>5, <1>6, <1>7, <1>8, WorkerKeeps

LEMMA KeepsPayout ==
    ASSUME IInv, Next
    PROVE  /\ PWP!Step /\ faults' \in 0..MaxFaults
           /\ PWP!IInv'
<1>1. PWP!Step
  BY StepOfPayout
<1>2. faults' \in 0..MaxFaults
  BY KeepsRelay DEF OBP!TypeOK
<1> QED BY <1>1, <1>2, PayoutGiven, PWP!InvStep DEF IInv

\* The commit of an accepted request writes all three tables; no other step
\* adds to any of them.
LEMMA KeepsTables ==
    ASSUME IInv, Next
    PROVE  TablesAgree'
<1>1. ASSUME NEW r \in Requests, Accept(r) \/ AcceptUnheard(r) PROVE TablesAgree'
  <2>1. applied' = applied \cup {r} /\ committed' = committed \cup {r}
    BY <1>1 DEF Accept, AcceptUnheard, API!Commit, API!CommitUnheard, API!CommitTx, OB!Commit
  <2>2. status' = [status EXCEPT ![r] = "pending"]
    BY <1>1 DEF Accept, AcceptUnheard, PW!CreateWithdrawal
  <2>3. DOMAIN status = Requests
    BY DEF IInv, PWP!IInv, PWP!Core, PWP!TypeOK, PWP!TablesOK
  <2> QED BY <2>1, <2>2, <2>3 DEF IInv, TablesAgree
<1>2. ASSUME NEW k \in Relays, RelayStep(k) \/ RelayBreaks(k) PROVE TablesAgree'
  <2>1. UNCHANGED <<spine, tables, committed>>
    BY <1>2 DEF RelayStep, RelayBreaks, OB!ReadUnsent, OB!Publish, OB!PassOver, OB!Xadd,
                OB!XaddFails, OB!MarkSent, OB!MarkFails, OB!Crash
  <2> QED BY <2>1 DEF IInv, TablesAgree, spine, tables
<1>3. CASE \/ \E k \in Workers : WorkerStep(k) \/ WorkerBreaks(k)
           \/ \E i \in PW!Entries : Redeliver(i)
  <2>1. PWP!TypeOK
    BY DEF IInv, PWP!IInv, PWP!Core
  <2> QED BY <1>3, <2>1, WorkerKeeps DEF IInv, TablesAgree, spine, relay
<1>4. CASE UNCHANGED <<relay, tables, worker, stream>>
  <2>1. ASSUME NEW r \in Requests, Post(r) \/ SpineBreaks(r), ~Accept(r), ~AcceptUnheard(r)
        PROVE  applied' = applied
    BY <2>1 DEF Post, SpineBreaks, Precheck, Pass, Refuse, ReadFails, TurnAway, SpineStep,
       Execute, ShortOfFunds, spine,
       API!AcquireFresh, API!AcquireExisting, API!DecideReplay, API!DecideConflict,
       API!DecideRetryAfter, API!DecideTakeover, API!TakeoverWon, API!TakeoverLost,
       API!RunEffect, API!EffectRollsBack, API!CompleteWon, API!CompleteLost, API!Reread,
       API!DbError, API!Crash
  <2>2. Tick => applied' = applied
    BY DEF Tick, API!Tick
  <2>3. (\E k \in Relays : RelayStep(k) \/ RelayBreaks(k))
        \/ (\E k \in Workers : WorkerStep(k) \/ WorkerBreaks(k))
        \/ (\E i \in PW!Entries : Redeliver(i))
          => applied' = applied
    BY DEF RelayStep, RelayBreaks, WorkerStep, WorkerBreaks, Redeliver, spine
  <2>4. CASE \E r \in Requests : Accept(r) \/ AcceptUnheard(r)
    BY <1>1, <2>4
  <2>5. CASE ~\E r \in Requests : Accept(r) \/ AcceptUnheard(r)
    <3>1. applied' = applied
      BY <2>1, <2>2, <2>3, <2>5 DEF Next
    <3> QED BY <1>4, <3>1 DEF IInv, TablesAgree, relay, tables
  <2> QED BY <2>4, <2>5
<1> QED BY <1>1, <1>2, <1>3, <1>4, QuietSteps

LEMMA InvStep == IInv /\ [Next]_vars => IInv'
<1>1. ASSUME IInv, Next PROVE IInv'
  BY <1>1, KeepsSpine, KeepsRelay, KeepsPayout, KeepsTables DEF IInv
<1>2. ASSUME IInv, UNCHANGED vars PROVE IInv'
  <2>1. UNCHANGED APIP!vars /\ UNCHANGED OBP!vars
    BY <1>2 DEF vars, spine, relay, APIP!vars, OBP!vars
  <2>2. APIP!IInv' /\ OBP!TypeOK'
    BY <1>2, <2>1, SpineGiven, RelayGiven, APIP!SafeStep, OBP!TypeStep DEF IInv
  <2>3. PWP!Step /\ faults' \in 0..MaxFaults
    BY <1>2 DEF IInv, PWP!IInv, PWP!Core, PWP!TypeOK, vars, tables, worker, PWP!Step,
                PWP!db, PWP!redis, PWP!consumer, PWP!signer
  <2>4. PWP!IInv'
    BY <1>2, <2>3, PayoutGiven, PWP!InvStep DEF IInv
  <2>5. TablesAgree'
    BY <1>2 DEF IInv, TablesAgree, vars, spine, relay, tables
  <2> QED BY <2>2, <2>4, <2>5 DEF IInv
<1> QED BY <1>1, <1>2

LEMMA Invariance == Spec => []IInv
BY InvInit, InvStep, PTL DEF Spec

----------------------------------------------------------------------------
(* The promises                                                             *)

\* "Funds are never locked without a matching publish-intent", nor the other
\* way round, whoever crashes, retries or takes over, and however many workers
\* there are (api/src/routes/withdraw.rs, worker/src/main.rs).
THEOREM FundsHaveIntent == Spec => []LockHasIntent
<1>1. ASSUME IInv PROVE LockHasIntent
  <2> DEFINE open == {r \in Requests : status[r] \in PW!Open}
  <2>1. /\ available[Account] >= PWP!AmountOf(PWP!Clawback(Account))
        /\ locked[Account] = PWP!AmountOf(PWP!Of(Account, PWP!Open))
    BY <1>1 DEF IInv, PWP!IInv, PWP!Core, PWP!LockedBacksOpen, PWP!OverdraftIsClawback
  <2>2. PWP!Of(Account, PWP!Open) = open
    BY DEF PWP!Of, PWP!Open, PW!Open
  <2>3. /\ locked[Account] = AmountOf(open)
        /\ available[Account] >= AmountOf(PW!Clawback(Account))
    BY <2>1, <2>2, SameMoney
  <2>4. open \subseteq applied /\ committed = applied
    BY <1>1 DEF IInv, TablesAgree, PW!Open
  <2> QED BY <2>3, <2>4 DEF LockHasIntent
<1> QED BY <1>1, Invariance, PTL

\* What the two promises about sends need beyond the code: one consumer.
OneWorker == \A j, k \in Workers : j = k

\* The worker's own argument, in the whole: it finds a withdrawal as it left it.
SoleWorker == PWP!SoleHolds /\ PWP!RefundHolds

\* With one worker, what its sends need holds throughout.
LEMMA SoleInvariance == OneWorker /\ Spec => []SoleWorker
<1> SUFFICES ASSUME OneWorker PROVE Spec => []SoleWorker
  OBVIOUS
<1>1. Init => SoleWorker
  BY SameInit, PayoutGiven, PWP!SoleInit DEF Init, SoleWorker
<1>2. PWP!OneBusy
  BY DEF OneWorker, PWP!OneBusy
<1>3. ASSUME IInv, SoleWorker, PWP!Step PROVE SoleWorker'
  <2>1. PWP!Core /\ PWP!SoleHolds /\ PWP!RefundHolds
    BY <1>3 DEF IInv, PWP!IInv, SoleWorker
  <2>2. PWP!SoleHolds'
    BY <1>2, <1>3, <2>1, PayoutGiven, PWP!KeepsSole
  <2>3. PWP!RefundHolds'
    BY <1>2, <1>3, <2>1, PayoutGiven, PWP!KeepsRefund
  <2> QED BY <2>2, <2>3 DEF SoleWorker
<1>4. IInv /\ [Next]_vars => PWP!Step
  <2>1. UNCHANGED vars => PWP!Step
    BY DEF vars, tables, worker, PWP!Step, PWP!db, PWP!redis, PWP!consumer, PWP!signer
  <2> QED BY <2>1, StepOfPayout
<1>5. IInv /\ SoleWorker /\ [Next]_vars => SoleWorker'
  BY <1>3, <1>4
<1> QED BY <1>1, <1>5, Invariance, PTL DEF Spec

\* Of the requests with a key one has an effect, so one is ever sent, and once.
LEMMA SentByOne ==
    ASSUME IInv, SoleWorker
    PROVE  /\ \A r \in Requests : sends[r] \in {0, 1} /\ (sends[r] > 0 => r \in applied)
           /\ \A r, s \in Requests : sends[r] = 1 /\ sends[s] = 1 /\ KeyOf(r) = KeyOf(s) => r = s
<1>1. \A r \in Requests : sends[r] = IF r \in signed THEN 1 ELSE 0
  BY DEF SoleWorker, PWP!SoleHolds
<1>2. \A r \in Requests : r \in signed => r \in applied
  BY DEF IInv, TablesAgree, PWP!IInv, PWP!Core, PWP!SignerHolds, PWP!Advanced, PWP!Terminal
<1>3. \A r, s \in applied : KeyOf(r) = KeyOf(s) => r = s
  BY DEF IInv, APIP!IInv, APIP!AtMostOneEffect, APIP!SameKey, APIP!Key, KeyOf
<1> QED BY <1>1, <1>2, <1>3

\* Exactly-once from the client to the signer: with one worker, a key's requests
\* have the signer send at most once, however they are retried and taken over,
\* republished by relays, redelivered, or met by crashes and lost answers, and
\* what is sent was accepted.
THEOREM KeyPaidOnce == OneWorker /\ IsFiniteSet(Requests) /\ Spec => []OnePayoutPerKey
<1> SUFFICES ASSUME OneWorker, IsFiniteSet(Requests) PROVE Spec => []OnePayoutPerKey
  OBVIOUS
<1>1. ASSUME IInv, SoleWorker PROVE OnePayoutPerKey
  <2>1. ASSUME NEW k \in Keys PROVE PaidUnder(k) <= 1
    <3> DEFINE S == {r \in Requests : KeyOf(r) = k}
    <3>1. PaidUnder(k) = SumOf(sends, S)
      BY Zenon DEF PaidUnder, SumOf
    <3>2. IsFiniteSet(S)
      BY FS_Subset
    <3>3. /\ \A r \in S : sends[r] \in {0, 1}
          /\ \A r, s \in S : sends[r] = 1 /\ sends[s] = 1 => r = s
      BY <1>1, SentByOne
    <3> HIDE DEF S
    <3> QED BY <3>1, <3>2, <3>3, SumAtMostOne
  <2> QED BY <1>1, <2>1, SentByOne DEF OnePayoutPerKey
<1> QED BY <1>1, Invariance, SoleInvariance, PTL

\* "processing -> failed (definite rejection)" (docs/LIFECYCLE.md): with one
\* worker and a signer whose rejections are true, what is refunded, and may be
\* withdrawn anew under another key, was not sent.
THEOREM RefundWasUnsent == OneWorker /\ Spec => []RefundedWasNotSent
<1> SUFFICES ASSUME OneWorker PROVE Spec => []RefundedWasNotSent
  OBVIOUS
<1>1. SoleWorker => RefundedWasNotSent
  BY DEF SoleWorker, PWP!SoleHolds, PWP!RefundHolds, RefundedWasNotSent
<1> QED BY <1>1, SoleInvariance, PTL

\* An accepted withdrawal that is neither paid out nor refunded is still before
\* a relay, unsent, or before the workers, unread or un-acked: no crash, lost
\* answer or second relay drops it on the way from the commit to the ack.
NoneLost ==
    \A r \in applied :
       status[r] \in PW!Open
          => r \notin sent \/ \E i \in 1..Len(stream) : stream[i] = r /\ (i > read \/ i \in pending)

\* What is marked sent, and what a relay is about to mark, is on the stream.
MarkedIsPublished ==
    /\ sent \subseteq OBP!Published
    /\ \A k \in Relays : hand[k] # None => hand[k] \in OBP!Published

\* The stream only grows, and an entry added is on it.
LEMMA StreamGrows ==
    ASSUME NEW S, stream \in Seq(S), NEW r, stream' = stream \/ stream' = Append(stream, r)
    PROVE  /\ OBP!Published \subseteq OBP!Published'
           /\ stream' = Append(stream, r) => r \in OBP!Published'
<1>1. ASSUME stream' = Append(stream, r)
      PROVE  /\ 1..Len(stream') = (1..Len(stream)) \cup {Len(stream) + 1}
             /\ \A i \in 1..Len(stream) : stream'[i] = stream[i]
             /\ stream'[Len(stream) + 1] = r
  BY <1>1
<1> QED BY <1>1 DEF OBP!Published

\* A relay marks a row only when its entry is on the stream.
LEMMA RelayKeepsMarked ==
    ASSUME MarkedIsPublished, NEW S, stream \in Seq(S),
           batch \in [Relays -> SUBSET committed], hand \in [Relays -> committed \cup {None}],
           NEW k \in Relays, RelayStep(k) \/ RelayBreaks(k)
    PROVE  MarkedIsPublished'
<1>1. OBP!Published \subseteq OBP!Published'
  BY RelayAdds, StreamGrows
<1>2. \/ \E r \in Requests : OB!Xadd(k, r)
      \/ sent' = sent /\ hand' = [hand EXCEPT ![k] = None]
      \/ sent' = sent /\ hand' = hand
      \/ /\ hand[k] # None /\ sent' = sent \cup {hand[k]}
         /\ hand' = [hand EXCEPT ![k] = None]
  BY DEF RelayStep, RelayBreaks, OB!ReadUnsent, OB!Publish, OB!PassOver, OB!XaddFails,
         OB!MarkSent, OB!MarkFails, OB!Crash
<1>3. ASSUME NEW r \in Requests, OB!Xadd(k, r) PROVE MarkedIsPublished'
  <2>1. sent' = sent /\ hand' = [hand EXCEPT ![k] = r] /\ stream' = Append(stream, r)
    BY <1>3 DEF OB!Xadd
  <2>2. r \in OBP!Published'
    BY <2>1, StreamGrows
  <2> QED BY <1>1, <2>1, <2>2 DEF MarkedIsPublished
<1> QED BY <1>1, <1>2, <1>3 DEF MarkedIsPublished

\* Nor does any other step take a published row off the stream.
LEMMA KeepsMarked ==
    ASSUME IInv, MarkedIsPublished, Next
    PROVE  MarkedIsPublished'
<1>1. /\ stream \in Seq(committed) /\ batch \in [Relays -> SUBSET committed]
      /\ hand \in [Relays -> committed \cup {None}]
  BY DEF IInv, OBP!TypeOK
<1>2. ASSUME NEW k \in Relays, RelayStep(k) \/ RelayBreaks(k) PROVE MarkedIsPublished'
  BY <1>1, <1>2, RelayKeepsMarked
<1>3. ASSUME NEW r \in Requests, Accept(r) \/ AcceptUnheard(r)
      PROVE  UNCHANGED <<sent, hand, stream>>
  BY <1>3 DEF Accept, AcceptUnheard, OB!Commit
<1>4. CASE \/ \E k \in Workers : WorkerStep(k) \/ WorkerBreaks(k)
           \/ \E i \in PW!Entries : Redeliver(i)
  <2>1. /\ UNCHANGED <<sent, hand>>
        /\ stream' = stream \/ \E i \in 1..Len(stream) : stream' = Append(stream, stream[i])
    BY <1>4, WorkerKeeps DEF IInv, PWP!IInv, PWP!Core, relay
  <2>2. OBP!Published \subseteq OBP!Published'
    BY <1>1, <2>1, StreamGrows
  <2> QED BY <2>1, <2>2 DEF MarkedIsPublished
<1>5. UNCHANGED <<sent, hand, stream>> => MarkedIsPublished'
  BY DEF MarkedIsPublished, OBP!Published
<1>6. UNCHANGED <<relay, tables, worker, stream>> => UNCHANGED <<sent, hand, stream>>
  BY DEF relay
<1> QED BY <1>2, <1>3, <1>4, <1>5, <1>6, QuietSteps

\* From the commit to the ack, through any interleaving of requests, relays,
\* workers and faults, an accepted withdrawal stays where someone will find it
\* (insert_outbox, drain_outbox and the worker's XACK).
THEOREM AcceptedIsNeverLost == Spec => []NoneLost
<1>1. Init => MarkedIsPublished
  BY DEF Init, OB!Init, MarkedIsPublished
<1>2. IInv /\ MarkedIsPublished /\ [Next]_vars => MarkedIsPublished'
  <2>1. ASSUME MarkedIsPublished, UNCHANGED vars PROVE MarkedIsPublished'
    BY <2>1 DEF vars, relay, MarkedIsPublished, OBP!Published
  <2> QED BY <2>1, KeepsMarked
<1>3. ASSUME IInv, MarkedIsPublished PROVE NoneLost
  <2> SUFFICES ASSUME NEW r \in applied, status[r] \in PW!Open, r \in sent
               PROVE  \E i \in 1..Len(stream) : stream[i] = r /\ (i > read \/ i \in pending)
    BY DEF NoneLost
  <2>1. r \in Requests /\ PWP!Copies(r) # {}
    BY <1>3 DEF IInv, APIP!IInv, APIP!TypeOK, MarkedIsPublished, OBP!Published, PWP!Copies,
                PWP!Entries
  <2>2. status[r] \in PWP!Open
    BY DEF PW!Open, PWP!Open
  <2> QED BY <1>3, <2>1, <2>2 DEF IInv, PWP!IInv, PWP!Core, PWP!NotForgotten, PWP!Copies, PWP!Entries
<1> QED BY <1>1, <1>2, <1>3, Invariance, PTL DEF Spec

----------------------------------------------------------------------------
(* A run of the chaos harness                                               *)


DCP == INSTANCE DepositCreditProofs WITH
    Orders <- {OnlyOrder}, Merchants <- {Account},
    MerchantOf <- [o \in {OnlyOrder} |-> Account],
    Mints <- {"usdc", "sol"}, Sol <- "sol", NoMint <- "", Tolerance <- 0,
    Deposits <- {OnlyDeposit}, MemoOf <- [d \in {OnlyDeposit} |-> OnlyOrder],
    Paid <- [d \in {OnlyDeposit} |-> Quote],
    Offers <- {Quote}, QuoteAtFirst <- [o \in {OnlyOrder} |-> Quote],
    Quoters <- {}, Overlap <- FALSE, Redelivery <- FALSE, MaxCopies <- MaxEntries,
    stream <- delivered, read <- handed, pending <- unacked, pc <- stage

\* The credit path's assumptions hold of what it is given here, too,
LEMMA CreditGiven ==
    /\ DCP!ConstantsAssumption /\ DCP!NoneAssumption /\ DCP!BoundsAssumption
<1>1. Quote \in DCP!Quote
  BY PostsAssumption DEF Quote, DCP!Quote
<1>2. DCP!ConstantsAssumption
  <2> DEFINE q == Quote
  <2> HIDE DEF q
  <2>1. q \in DCP!Quote
    BY <1>1 DEF q
  <2>2. "sol" \in {"usdc", "sol"} /\ "" \notin {"usdc", "sol"} /\ 0 \in Nat
    OBVIOUS
  <2> QED BY <2>1, <2>2 DEF DCP!ConstantsAssumption, q
<1>3. DCP!NoneAssumption
  BY DepositAssumption DEF DCP!NoneAssumption, DCP!Quote
<1>4. DCP!BoundsAssumption
  BY BoundsAssumption DEF DCP!BoundsAssumption
<1> QED BY <1>2, <1>3, <1>4

\* and its steps are those its proofs are about.
LEMMA SameCredit ==
    /\ DC!Init <=> DCP!Init
    /\ \A k : DC!Work(k) <=> DCP!Work(k)
    /\ \A k : DC!Crash(k) <=> DCP!Crash(k)
    /\ \A d : DC!Publish(d) <=> DCP!Publish(d)
    /\ DC!BalanceIsDeposits <=> DCP!BalanceIsDeposits
<1>1. DC!Init <=> DCP!Init
  BY ZenonT(30) DEF DC!Init, DCP!Init, DC!NewOrder, DCP!NewOrder, DC!NoCall, DCP!NoCall,
     DC!Accounts, DCP!Accounts
<1>2. \A k : DC!Crash(k) <=> DCP!Crash(k)
  BY ZenonT(30) DEF DC!Crash, DCP!Crash, DC!Goto, DCP!Goto, DC!Fault, DCP!Fault, DC!db, DCP!db,
     DC!redis, DCP!redis
<1>3. \A d : DC!Publish(d) <=> DCP!Publish(d)
  BY ZenonT(30) DEF DC!Publish, DCP!Publish, DC!Copies, DCP!Copies, DC!Entries, DCP!Entries,
     DC!Cardinality, DCP!Cardinality, DC!db, DCP!db, DC!consumer, DCP!consumer
<1>4. \A k : /\ DC!Current(k) = DCP!Current(k) /\ DC!Deposit(k) = DCP!Deposit(k)
             /\ DC!NextEntry(k) <=> DCP!NextEntry(k)
             /\ \A s : DC!Goto(k, s) <=> DCP!Goto(k, s)
  BY ZenonT(30) DEF DC!Current, DCP!Current, DC!Deposit, DCP!Deposit, DC!NextEntry, DCP!NextEntry,
     DC!Goto, DCP!Goto
<1>5. \A s : /\ DC!Creditable(s) <=> DCP!Creditable(s)
             /\ DC!EntryMint(s) = DCP!EntryMint(s)
             /\ DC!Inserting(s) <=> DCP!Inserting(s)
  BY <1>4, ZenonT(30) DEF DC!Creditable, DCP!Creditable, DC!Verifies, DCP!Verifies, DC!VerifiesSol,
     DCP!VerifiesSol, DC!VerifiesToken, DCP!VerifiesToken, DC!IsSol, DCP!IsSol, DC!Expected,
     DCP!Expected, DC!EntryMint, DCP!EntryMint, DC!Inserting, DCP!Inserting
<1>6. \A k : DC!CreditTx(k) <=> DCP!CreditTx(k)
  BY <1>4, <1>5, ZenonT(30) DEF DC!CreditTx, DCP!CreditTx, DC!MarkPaid, DCP!MarkPaid
<1>7. \A k : /\ DC!Fetch(k) <=> DCP!Fetch(k)
             /\ DC!Reclaim(k) <=> DCP!Reclaim(k)
             /\ DC!FindOrder(k) <=> DCP!FindOrder(k)
  BY <1>4, <1>5, ZenonT(30) DEF DC!Fetch, DCP!Fetch, DC!Reclaim, DCP!Reclaim, DC!FindOrder, DCP!FindOrder,
     DC!db, DCP!db, DC!redis, DCP!redis
<1>8. \A k : /\ DC!DeadLetter(k) <=> DCP!DeadLetter(k)
             /\ DC!InsertDeposit(k) <=> DCP!InsertDeposit(k)
             /\ DC!Credit(k) <=> DCP!Credit(k)
             /\ DC!Xack(k) <=> DCP!Xack(k)
  BY <1>4, <1>5, <1>6, ZenonT(30) DEF DC!DeadLetter, DCP!DeadLetter, DC!InsertDeposit,
     DCP!InsertDeposit, DC!Credit, DCP!Credit, DC!Xack, DCP!Xack, DC!db, DCP!db, DC!redis, DCP!redis
<1>9. \A k : DC!Work(k) <=> DCP!Work(k)
  BY <1>7, <1>8, Zenon DEF DC!Work, DCP!Work
<1>10. \A S : DC!AmountOf(S) = DCP!AmountOf(S)
  <2>1. DC!AmountPaid = DCP!AmountPaid
    BY Zenon DEF DC!AmountPaid, DCP!AmountPaid
  <2> QED BY <2>1, ZenonT(30) DEF DC!AmountOf, DCP!AmountOf, DC!MapThenSumSet, DCP!MapThenSumSet,
                  DC!MapThenFoldSet, DCP!MapThenFoldSet
<1>11. DC!BalanceIsDeposits <=> DCP!BalanceIsDeposits
  BY <1>5, <1>10 DEF DC!BalanceIsDeposits, DCP!BalanceIsDeposits
<1> QED BY <1>1, <1>2, <1>3, <1>9, <1>11

----------------------------------------------------------------------------
(* The harness by itself                                                    *)

Posted(n) == {Posts[i] : i \in 1..n}

\* The posts made so far are as many as they are said to be.
LEMMA PostedCount ==
    /\ Posted(0) = {}
    /\ \A n \in 0..3 : Posted(n) \subseteq Requests /\ Cardinality(Posted(n)) = n
    /\ \A n \in 0..2 : /\ Posts[n + 1] \in Requests /\ Posts[n + 1] \notin Posted(n)
                       /\ Posted(n + 1) = Posted(n) \cup {Posts[n + 1]}
<1>1. Posts[1] \in Requests /\ Posts[2] \in Requests /\ Posts[3] \in Requests
  BY PostsAssumption
<1>2. Posts[1] # Posts[2] /\ Posts[1] # Posts[3] /\ Posts[2] # Posts[3]
  BY PostsAssumption
<1>3. /\ Posted(0) = {} /\ Posted(1) = {Posts[1]}
      /\ Posted(2) = {Posts[1]} \cup {Posts[2]}
      /\ Posted(3) = ({Posts[1]} \cup {Posts[2]}) \cup {Posts[3]}
  <2>1. 1..0 = {} /\ 1..1 = {1} /\ 1..2 = {1, 2} /\ 1..3 = {1, 2, 3}
    OBVIOUS
  <2> QED BY <2>1 DEF Posted
<1>4. IsFiniteSet({}) /\ Cardinality({}) = 0
  BY FS_EmptySet
<1>5. \A S, x : IsFiniteSet(S) /\ x \notin S
                  => /\ IsFiniteSet(S \cup {x})
                     /\ Cardinality(S \cup {x}) = Cardinality(S) + 1
  BY FS_AddElement
<1>6. IsFiniteSet({Posts[1]}) /\ Cardinality({Posts[1]}) = 1
  BY FS_Singleton
<1>7. IsFiniteSet(Posted(2)) /\ Cardinality(Posted(2)) = 2
  BY <1>2, <1>3, <1>5, <1>6
<1>8. Posts[3] \notin Posted(2)
  BY <1>2, <1>3
<1>9. Cardinality(Posted(3)) = 3
  BY <1>3, <1>5, <1>7, <1>8
<1>10. \A n \in 0..3 : Posted(n) \subseteq Requests /\ Cardinality(Posted(n)) = n
  <2> SUFFICES ASSUME NEW n \in 0..3
               PROVE  Posted(n) \subseteq Requests /\ Cardinality(Posted(n)) = n
    OBVIOUS
  <2>1. n = 0 \/ n = 1 \/ n = 2 \/ n = 3
    OBVIOUS
  <2>2. Posted(1) \subseteq Requests /\ Posted(2) \subseteq Requests /\ Posted(3) \subseteq Requests
    BY <1>1, <1>3
  <2> QED BY <1>3, <1>4, <1>6, <1>7, <1>9, <2>1, <2>2
<1>11. ASSUME NEW n \in 0..2
       PROVE  /\ Posts[n + 1] \in Requests /\ Posts[n + 1] \notin Posted(n)
              /\ Posted(n + 1) = Posted(n) \cup {Posts[n + 1]}
  <2>1. n = 0 \/ n = 1 \/ n = 2
    OBVIOUS
  <2>2. CASE n = 0
    BY <1>1, <1>3, <2>2
  <2>3. CASE n = 1
    BY <1>1, <1>2, <1>3, <2>3
  <2>4. CASE n = 2
    BY <1>1, <1>3, <1>8, <2>4
  <2> QED BY <2>1, <2>2, <2>3, <2>4
<1> QED BY <1>3, <1>10, <1>11

\* What the harness does next, with n requests posted.
Turn(n) ==
    \/ step = "seed" /\ n = 0 /\ armed = None
    \/ step = "bailed" /\ Owner \in {"api", "a2"}
    \/ /\ Owner \in {"worker", "processor"} /\ n = 0
       /\ \/ step \in {"feed", "await"}
          \/ step \in {"reap", "redeliver", "drain", "outbox", "kill", "done"} /\ armed = None
    \/ /\ Owner = "relay" /\ n = 0
       /\ \/ step = "await"
          \/ step \in {"restart", "drain", "outbox", "kill", "done"} /\ armed = None
    \/ /\ Owner = "api"
       /\ \/ step = "bind" /\ n = 0 /\ left \in 1..2 /\ armed = Api
          \/ step = "post" /\ left \in 1..2 /\ n + left <= 2 /\ armed = Api
          \/ step = "answer" /\ left \in 0..1 /\ n >= 1 /\ n + left <= 2 /\ armed = Api
          \/ step = "await" /\ n <= 2 /\ armed = Api
          \/ step \in {"restart", "kill", "done"} /\ n <= 2 /\ armed = None
    \/ /\ Owner = "a2"
       /\ \/ step = "bind" /\ n = 0 /\ left = 1 /\ armed = Api
          \/ step = "post" /\ n = 0 /\ left = 1 /\ armed = Api
          \/ step = "answer" /\ n = 1 /\ left = 0 /\ armed = Api
          \/ step = "await" /\ n = 1 /\ armed = Api
          \/ step = "restart" /\ n = 1 /\ armed = None
          \/ step = "post" /\ n \in 1..2 /\ left = 1 /\ armed = None
          \/ step = "answer" /\ n \in 2..3 /\ left = 0 /\ armed = None
          \/ step = "expire" /\ n = 2 /\ armed = None
          \/ step \in {"drain", "outbox", "kill", "done"} /\ n = 3 /\ armed = None

\* Which processes run.
Crew ==
    /\ up \subseteq Workers \cup Relays \cup Processors \cup {Api}
    /\ up \cap Workers \subseteq Consumers(Workers)
    /\ step \in {"seed", "done", "bailed"} => up = {}
    /\ Owner = "a2" =>
          /\ step = "bind" => Api \in up
          /\ step = "post" => Api \in up
          /\ step \in {"answer", "expire"} /\ armed = None => Api \in up

\* What it has made a note of.
Notes ==
    /\ {aborted, drained, gaveUp} \subseteq BOOLEAN
    /\ step = "seed" \/ step = "bailed" \/ armed # None \/ aborted \/ gaveUp
    /\ drained => step \in {"kill", "done"} /\ Owner # "api"
    /\ step = "kill" /\ Owner # "api" => drained \/ gaveUp
    /\ step # "done" => verdict \subseteq {"A2(a)", "A2(b)"}

Plan ==
    /\ cell \in Grid
    /\ \E n \in 0..3 : asked = Posted(n) /\ Turn(n)
    /\ Crew
    /\ Notes

\* Who a run is about, and which crash points its API may have armed.
LEMMA CellFacts ==
    ASSUME cell \in Grid
    PROVE  /\ Owner \in {"worker", "processor", "relay", "api", "a2"}
           /\ Owner \in {"api", "a2"} => cell.point \in DOMAIN ApiPoints
<1>1. DOMAIN ApiPoints = {"IdemAfterAcquireBeforeExecute", "IdemAfterEffectBeforeComplete",
         "WithdrawAfterLockBeforeOutbox", "WithdrawAfterOutboxBeforeComplete",
         "IdemAfterCompleteBeforeCommit"}
  BY DEF ApiPoints
<1>2. DOMAIN [IdemAfterEffectBeforeComplete |-> "complete",
              IdemAfterAcquireBeforeExecute |-> "execute"]
        = {"IdemAfterEffectBeforeComplete", "IdemAfterAcquireBeforeExecute"}
  OBVIOUS
<1> QED BY <1>1, <1>2 DEF Grid, Cells, Owner

\* The first instance of a service is one of it.
LEMMA LeaderIn ==
    /\ Leader(Workers) \in Workers /\ Leader(Processors) \in Processors /\ Relay \in Relays
    /\ Consumers(Workers) \subseteq Workers /\ Leader(Workers) \in Consumers(Workers)
    /\ Consumers(Processors) \subseteq Processors
<1>1. \A S : S # {} => Leader(S) \in S
  BY Zenon DEF Leader
<1> QED BY <1>1, ProcessAssumption DEF Relay, Consumers

\* The plan holds at first, and each step of the harness keeps to it.
LEMMA PlanInit == RunInit => Plan
<1> SUFFICES ASSUME RunInit PROVE Plan
  OBVIOUS
<1>1. asked = Posted(0) /\ Turn(0)
  BY PostedCount DEF RunInit, Turn
<1>2. cell \in Grid /\ Crew
  BY DEF RunInit, Crew
<1>3. Notes
  BY DEF RunInit, Notes
<1> QED BY <1>1, <1>2, <1>3 DEF Plan

\* The API is at its crash point on account of a request it was sent.
LEMMA NobodyPastPoint ==
    ASSUME AtPoint(Api)
    PROVE  asked # {}
BY ProcessAssumption DEF AtPoint

\* What a run is about is settled by its cell.
LEMMA SameCell ==
    ASSUME cell' = cell
    PROVE  /\ Owner' = Owner /\ Redeliveries' = Redeliveries
           /\ Consumers(Workers)' = Consumers(Workers)
BY DEF Owner, Redeliveries, Consumers, Instances

LEMMA PlanSeed == Plan /\ Seed => Plan'
<1> SUFFICES ASSUME Plan, Seed PROVE Plan'
  OBVIOUS
<1>1. /\ step = "seed" /\ UNCHANGED <<cell, asked, aborted, drained, gaveUp, verdict>>
      /\ \/ Owner = "worker" /\ step' = "feed" /\ armed' = Leader(Workers) /\ up' = {Leader(Workers)}
         \/ Owner = "relay" /\ step' = "await" /\ armed' = Relay /\ up' = Consumers(Workers) \cup {Relay}
         \/ /\ Owner = "processor" /\ step' = "feed"
            /\ armed' = Leader(Processors) /\ up' = {Leader(Processors)}
         \/ Owner \in {"api", "a2"} /\ step' = "bind" /\ armed' = Api /\ up' = {Api}
      /\ Owner = "api" => left' \in 1..2
      /\ Owner = "a2" => left' = 1
  BY DEF Seed, At
<1>2. /\ Leader(Workers) \notin Processors \cup Relays \cup {Api, None}
      /\ Leader(Processors) \notin Workers \cup Relays \cup {Api, None}
      /\ Relay \notin Workers \cup Processors \cup {Api, None}
      /\ Api \notin Workers \cup {None}
      /\ Consumers(Workers) \subseteq Workers /\ Leader(Workers) \in Consumers(Workers)
  BY LeaderIn, ProcessAssumption
<1>3. asked = Posted(0) /\ Posted(0) = {} /\ 0 \in 0..3
  <2>1. PICK n \in 0..3 : asked = Posted(n) /\ Turn(n)
    BY DEF Plan
  <2>2. n = 0
    BY <1>1, <2>1 DEF Turn
  <2> QED BY <2>1, <2>2, PostedCount
<1>4. Turn(0)'
  BY <1>1, SameCell DEF Turn
<1>5. Crew'
  BY <1>1, <1>2, LeaderIn, SameCell DEF Crew
<1>6. Notes'
  BY <1>1, <1>2, SameCell DEF Plan, Notes
<1> QED BY <1>1, <1>3, <1>4, <1>5, <1>6, SameCell DEF Plan

LEMMA PlanAbort == Plan /\ Abort => Plan'
<1> SUFFICES ASSUME Plan, Abort PROVE Plan'
  OBVIOUS
<1>1. armed \in up /\ AtPoint(armed) /\ up' = up \ {armed} /\ UNCHANGED <<plan, step>>
  BY DEF Abort
<1>2. UNCHANGED <<cell, left, armed, asked, aborted, drained, gaveUp, verdict, step>>
  BY <1>1 DEF plan
<1>3. PICK n \in 0..3 : asked = Posted(n) /\ Turn(n)
  BY DEF Plan
<1>4. Turn(n)'
  BY <1>2, <1>3, SameCell DEF Turn
<1>5. armed # None
  BY <1>1, ProcessAssumption DEF Plan, Crew
<1>6. Crew'
  <2>1. armed = Api => n # 0
    BY <1>1, <1>3, NobodyPastPoint, PostedCount
  <2>2. CASE Owner = "a2" /\ armed = Api
    <3>1. step \notin {"bind", "post"} /\ (step \in {"answer", "expire"} => armed # None)
      BY <1>3, <1>5, <2>1, <2>2 DEF Turn
    <3> QED BY <1>1, <1>2, <2>2, <3>1, SameCell DEF Plan, Crew
  <2>3. CASE Owner # "a2" \/ armed # Api
    BY <1>1, <1>2, <2>3, SameCell DEF Plan, Crew
  <2> QED BY <2>2, <2>3
<1>7. Notes'
  BY <1>2, SameCell DEF Plan, Notes
<1> QED BY <1>2, <1>3, <1>4, <1>6, <1>7, SameCell DEF Plan

LEMMA PlanBind == Plan /\ Bind => Plan'
<1> SUFFICES ASSUME Plan, Bind PROVE Plan'
  OBVIOUS
<1>1. /\ step = "bind" /\ UNCHANGED <<cell, left, armed, asked, aborted, drained, gaveUp, verdict>>
      /\ \/ step' = "post" /\ up' = up
         \/ step' = "bailed" /\ up' = {}
  BY DEF Bind, Bound, plan
<1>2. PICK n \in 0..3 : asked = Posted(n) /\ Turn(n)
  BY DEF Plan
<1>3. Turn(n)'
  BY <1>1, <1>2, SameCell DEF Turn
<1>4. Crew'
  BY <1>1, SameCell DEF Plan, Crew
<1>5. Notes'
  BY <1>1, SameCell DEF Plan, Notes
<1> QED BY <1>1, <1>2, <1>3, <1>4, <1>5, SameCell DEF Plan

LEMMA PlanFeed == Plan /\ Feed => Plan'
<1> SUFFICES ASSUME Plan, Feed PROVE Plan'
  OBVIOUS
<1>1. /\ step \in {"feed", "redeliver"} /\ Owner \in {"worker", "processor"}
      /\ UNCHANGED <<cell, armed, up, asked, aborted, drained, gaveUp, verdict>>
      /\ \/ step' = step
         \/ step = "feed" /\ step' = "await"
         \/ step = "redeliver" /\ step' = "drain"
  BY DEF Feed, Enqueue
<1>2. PICK n \in 0..3 : asked = Posted(n) /\ Turn(n)
  BY DEF Plan
<1>3. Turn(n)'
  BY <1>1, <1>2, SameCell DEF Turn
<1>4. Crew'
  BY <1>1, SameCell DEF Plan, Crew
<1>5. Notes'
  BY <1>1, SameCell DEF Plan, Notes
<1> QED BY <1>1, <1>2, <1>3, <1>4, <1>5, SameCell DEF Plan

LEMMA PlanSend == Plan /\ Send => Plan'
<1> SUFFICES ASSUME Plan, Send PROVE Plan'
  OBVIOUS
<1>1. /\ step = "post" /\ step' = "answer" /\ left' = left - 1
      /\ asked' = asked \cup {Posts[Cardinality(asked) + 1]}
      /\ UNCHANGED <<cell, up, armed, aborted, drained, gaveUp, verdict>>
  BY DEF Send, At
<1>2. PICK n \in 0..3 : asked = Posted(n) /\ Turn(n)
  BY DEF Plan
<1>3. n \in 0..2
  BY <1>1, <1>2 DEF Turn
<1>4. asked' = Posted(n + 1) /\ n + 1 \in 0..3
  BY <1>1, <1>2, <1>3, PostedCount
<1>5. Turn(n + 1)'
  BY <1>1, <1>2, <1>3, SameCell DEF Turn
<1>6. Crew'
  BY <1>1, SameCell DEF Plan, Crew
<1>7. Notes'
  BY <1>1, SameCell DEF Plan, Notes
<1> QED BY <1>1, <1>4, <1>5, <1>6, <1>7, SameCell DEF Plan

LEMMA PlanAnswered == Plan /\ Answered => Plan'
<1> SUFFICES ASSUME Plan, Answered PROVE Plan'
  OBVIOUS
<1>1. PICK n \in 0..3 : asked = Posted(n) /\ Turn(n)
  BY DEF Plan
<1>2. /\ step = "answer" /\ Cardinality(asked) = n /\ n \in 1..3
      /\ UNCHANGED <<cell, left, up, armed, asked, aborted, drained>>
  BY <1>1, PostedCount DEF Answered, Turn
<1>3. gaveUp' \in {gaveUp, TRUE}
  BY DEF Answered
<1>4. /\ left > 0 => step' = "post" /\ verdict' = verdict
      /\ ~(left > 0) =>
            \/ n = 2 /\ Owner = "a2" /\ step' = "expire" /\ verdict' \subseteq {"A2(a)"}
            \/ n = 3 /\ step' = "drain" /\ verdict' \subseteq verdict \cup {"A2(b)"}
            \/ n # 3 /\ ~(n = 2 /\ Owner = "a2") /\ step' = "await" /\ verdict' = verdict
  BY <1>2 DEF Answered
<1>5. Owner \in {"api", "a2"}
  BY <1>1, <1>2 DEF Turn
<1>6. CASE Owner = "api"
  <2>1. n + left <= 2 /\ left \in 0..1 /\ armed = Api /\ n # 3
    BY <1>1, <1>2, <1>6 DEF Turn
  <2>2. Turn(n)'
    BY <1>2, <1>4, <1>6, <2>1, SameCell DEF Turn
  <2>3. Crew' /\ Notes'
    BY <1>2, <1>3, <1>4, <1>6, <2>1, SameCell DEF Plan, Crew, Notes
  <2> QED BY <1>1, <1>2, <2>2, <2>3, SameCell DEF Plan
<1>7. CASE Owner = "a2"
  <2>1. left = 0 /\ armed = IF n = 1 THEN Api ELSE None
    BY <1>1, <1>2, <1>7 DEF Turn
  <2>2. Turn(n)'
    BY <1>2, <1>4, <1>7, <2>1, SameCell DEF Turn
  <2>3. Crew'
    BY <1>2, <1>4, <1>7, <2>1, SameCell DEF Plan, Crew
  <2>4. Notes'
    BY <1>2, <1>3, <1>4, <1>7, <2>1, SameCell DEF Plan, Notes
  <2> QED BY <1>1, <1>2, <2>2, <2>3, <2>4, SameCell DEF Plan
<1> QED BY <1>5, <1>6, <1>7

LEMMA PlanAwait == Plan /\ (SeeAbort \/ GiveUpAbort) => Plan'
<1> SUFFICES ASSUME Plan, SeeAbort \/ GiveUpAbort PROVE Plan'
  OBVIOUS
<1>1. PICK n \in 0..3 : asked = Posted(n) /\ Turn(n)
  BY DEF Plan
<1>2. /\ step = "await" /\ armed' = None /\ UNCHANGED <<cell, left, asked, drained, verdict>>
      /\ step' = IF Owner \in {"worker", "processor"} THEN "reap" ELSE "restart"
      /\ up' \subseteq up
      /\ \/ aborted' = TRUE /\ gaveUp' = gaveUp
         \/ aborted' = aborted /\ gaveUp' = TRUE
  BY DEF SeeAbort, GiveUpAbort, At, AfterAwait
<1>3. Turn(n)'
  BY <1>1, <1>2, SameCell DEF Turn
<1>4. Crew'
  BY <1>2, SameCell DEF Plan, Crew
<1>5. Notes'
  BY <1>2, SameCell DEF Plan, Notes
<1> QED BY <1>1, <1>2, <1>3, <1>4, <1>5, SameCell DEF Plan

LEMMA PlanReap == Plan /\ Reap => Plan'
<1> SUFFICES ASSUME Plan, Reap PROVE Plan'
  OBVIOUS
<1>1. PICK n \in 0..3 : asked = Posted(n) /\ Turn(n)
  BY DEF Plan
<1>2. /\ step = "reap" /\ step' = "redeliver"
      /\ UNCHANGED <<cell, armed, asked, aborted, drained, gaveUp, verdict>>
      /\ up' \in {Consumers(Workers), Consumers(Processors)}
  BY DEF Reap, At
<1>3. Turn(n)'
  BY <1>1, <1>2, SameCell DEF Turn
<1>4. Crew'
  <2>1. Owner # "a2"
    BY <1>1, <1>2 DEF Turn
  <2> QED BY <1>2, <2>1, LeaderIn, ProcessAssumption, SameCell DEF Crew
<1>5. Notes'
  BY <1>2, SameCell DEF Plan, Notes
<1> QED BY <1>1, <1>2, <1>3, <1>4, <1>5, SameCell DEF Plan

LEMMA PlanRestart == Plan /\ Restart => Plan'
<1> SUFFICES ASSUME Plan, Restart PROVE Plan'
  OBVIOUS
<1>1. PICK n \in 0..3 : asked = Posted(n) /\ Turn(n)
  BY DEF Plan
<1>2. step = "restart" /\ UNCHANGED <<cell, armed, asked, aborted, drained, gaveUp, verdict>>
  BY DEF Restart
<1>3. Owner \in {"relay", "api", "a2"} /\ (Owner = "a2" => left' = 1)
  BY <1>1, <1>2 DEF Turn, Restart
<1>4. \/ Owner = "relay" /\ step' = "drain" /\ up' = up \cup {Relay}
      \/ Owner = "a2" /\ step' = "post" /\ up' = {Api, Relay, Leader(Workers)}
      \/ Owner = "api" /\ step' = "kill" /\ up' = {Api}
      \/ Owner \in {"api", "a2"} /\ step' = "bailed" /\ up' = {}
  BY <1>3 DEF Restart, Bound
<1>5. Turn(n)'
  BY <1>1, <1>2, <1>3, <1>4, SameCell DEF Turn
<1>6. Crew'
  BY <1>2, <1>4, LeaderIn, ProcessAssumption, SameCell DEF Plan, Crew
<1>7. Notes'
  BY <1>2, <1>4, SameCell DEF Plan, Notes
<1> QED BY <1>1, <1>2, <1>5, <1>6, <1>7, SameCell DEF Plan

LEMMA PlanExpire == Plan /\ ExpireLease => Plan'
<1> SUFFICES ASSUME Plan, ExpireLease PROVE Plan'
  OBVIOUS
<1>1. PICK n \in 0..3 : asked = Posted(n) /\ Turn(n)
  BY DEF Plan
<1>2. /\ step = "expire" /\ step' = "post" /\ left' = 1
      /\ UNCHANGED <<cell, up, armed, asked, aborted, drained, gaveUp, verdict>>
  BY DEF ExpireLease, At
<1>3. Turn(n)'
  BY <1>1, <1>2, SameCell DEF Turn
<1>4. Crew'
  <2>1. Owner = "a2" /\ armed = None
    BY <1>1, <1>2 DEF Turn
  <2> QED BY <1>2, <2>1, SameCell DEF Plan, Crew
<1>5. Notes'
  BY <1>2, SameCell DEF Plan, Notes
<1> QED BY <1>1, <1>2, <1>3, <1>4, <1>5, SameCell DEF Plan

LEMMA PlanDrain == Plan /\ (ReadStreams \/ ReadOutbox \/ GiveUpDrain) => Plan'
<1> SUFFICES ASSUME Plan, ReadStreams \/ ReadOutbox \/ GiveUpDrain PROVE Plan'
  OBVIOUS
<1>1. PICK n \in 0..3 : asked = Posted(n) /\ Turn(n)
  BY DEF Plan
<1>2. /\ step \in {"drain", "outbox"} /\ step' \in {"drain", "outbox", "kill"}
      /\ UNCHANGED <<cell, left, up, armed, asked, aborted, verdict>>
      /\ \/ gaveUp' = TRUE /\ drained' = drained /\ step' = "kill"
         \/ gaveUp' = gaveUp /\ drained' = drained /\ step' # "kill"
         \/ gaveUp' = gaveUp /\ drained' = TRUE /\ step' = "kill"
         \/ gaveUp' = gaveUp /\ drained' = FALSE /\ step' # "kill"
  <2>1. CASE ReadStreams
    BY <2>1 DEF ReadStreams, At, plan
  <2>2. CASE ReadOutbox
    <3>1. OB!Unsent = {} \/ OB!Unsent # {}
      OBVIOUS
    <3> QED BY <2>2, <3>1 DEF ReadOutbox
  <2>3. CASE GiveUpDrain
    BY <2>3 DEF GiveUpDrain, At
  <2> QED BY <2>1, <2>2, <2>3
<1>3. Turn(n)'
  BY <1>1, <1>2, SameCell DEF Turn
<1>4. Crew'
  BY <1>2, SameCell DEF Plan, Crew
<1>5. Owner # "api"
  BY <1>1, <1>2 DEF Turn
<1>6. Notes'
  <2>1. /\ Notes /\ drained = FALSE /\ step \notin {"seed", "bailed"}
        /\ step' \notin {"seed", "bailed"} /\ gaveUp \in BOOLEAN
    BY <1>2 DEF Plan, Notes
  <2>2. /\ armed' # None \/ aborted' \/ gaveUp'
        /\ {aborted', drained', gaveUp'} \subseteq BOOLEAN
    BY <1>2, <2>1 DEF Notes
  <2>3. drained' => step' = "kill"
    BY <1>2, <2>1
  <2>4. step' = "kill" => drained' \/ gaveUp'
    BY <1>2, <2>1
  <2> QED BY <1>2, <1>5, <2>1, <2>2, <2>3, <2>4, SameCell DEF Notes
<1> QED BY <1>1, <1>2, <1>3, <1>4, <1>6, SameCell DEF Plan

LEMMA PlanEnd == Plan /\ (Kill \/ Verdict) => Plan'
<1> SUFFICES ASSUME Plan, Kill \/ Verdict PROVE Plan'
  OBVIOUS
<1>1. PICK n \in 0..3 : asked = Posted(n) /\ Turn(n)
  BY DEF Plan
<1>2. /\ step = "kill" /\ UNCHANGED <<cell, left, armed, asked, aborted, drained, gaveUp>>
      /\ up' \subseteq up
      /\ \/ step' = step /\ verdict' = verdict
         \/ step' = "done" /\ up = {}
  BY DEF Kill, Verdict, At, plan
<1>3. Turn(n)'
  BY <1>1, <1>2, SameCell DEF Turn
<1>4. Crew'
  BY <1>2, SameCell DEF Plan, Crew
<1>5. Notes'
  BY <1>2, SameCell DEF Plan, Notes
<1> QED BY <1>1, <1>2, <1>3, <1>4, <1>5, SameCell DEF Plan

\* Whatever the services do, the harness goes through its script.
LEMMA PlanStep == Plan /\ [RunNext]_<<System, harness>> => Plan'
<1> SUFFICES ASSUME Plan, [RunNext]_<<System, harness>> PROVE Plan'
  OBVIOUS
<1>1. ASSUME UNCHANGED harness PROVE Plan'
  <2>1. UNCHANGED <<cell, left, armed, asked, aborted, drained, gaveUp, verdict, step, up>>
    BY <1>1 DEF harness, plan
  <2>2. PICK n \in 0..3 : asked = Posted(n) /\ Turn(n)
    BY DEF Plan
  <2>3. Turn(n)'
    BY <2>1, <2>2, SameCell DEF Turn
  <2>4. Crew' /\ Notes'
    BY <2>1, SameCell DEF Plan, Crew, Notes
  <2> QED BY <2>1, <2>2, <2>3, <2>4, SameCell DEF Plan
<1>2. Serve => UNCHANGED harness
  BY DEF Serve
<1> QED BY <1>1, <1>2, PlanSeed, PlanAbort, PlanBind, PlanFeed, PlanSend, PlanAnswered, PlanAwait,
           PlanReap, PlanRestart, PlanExpire, PlanDrain, PlanEnd DEF RunNext, Harness

----------------------------------------------------------------------------
(* What a step of a run is to the services                                  *)

Served ==
    \/ /\ \E k \in Workers : Runs(k) /\ WorkerStep(k) /\ at'[k] # "rejected"
       /\ UNCHANGED credit
    \/ /\ \E k \in Relays : Runs(k) /\ RelayStep(k)
       /\ UNCHANGED <<credit, faults>>
    \/ /\ \E k \in Processors : Runs(k) /\ DC!Work(k)
       /\ UNCHANGED payout
    \/ /\ Runs(Api)
       /\ \E r \in asked : Precheck(r) \/ SpineStep(r) \/ Execute(r) \/ Accept(r)
       /\ UNCHANGED credit
    \/ Tick /\ UNCHANGED credit

\* The harness creates the withdrawal the run is about, as the API would.
Seeded ==
    /\ PW!CreateWithdrawal(First)
    /\ \/ Owner = "worker" /\ UNCHANGED <<handler, spine, relay, credit>>
       \/ Owner = "relay" /\ OB!Commit(First) /\ UNCHANGED <<handler, spine, credit>>

\* Requests are cut off; whatever else they had done is undone with them.
Cut ==
    /\ \E R \in SUBSET Requests : CutOff(R) /\ \A r \in R : pc[r] # "done" /\ r \in asked'
    /\ UNCHANGED <<handler, req, row, rec, applied, resp, relay, tables, worker, stream, faults,
                   credit>>

LeaseEnds ==
    /\ row' = [row EXCEPT ![KeyOf(First)].left = API!Expired]
    /\ UNCHANGED <<handler, req, pc, rec, applied, resp, relay, tables, worker, stream,
                   faults, credit>>

Cleared ==
    /\ \/ /\ Owner = "worker" /\ pending' = {}
          /\ UNCHANGED <<read, at, reply, signed, sends, orphans, credit>>
       \/ /\ Owner = "processor" /\ unacked' = {}
          /\ UNCHANGED <<order, deposits, balance, dead, call, delivered, handed, stage, inbox,
                         seen, offered, worker>>
    /\ UNCHANGED <<handler, spine, relay, tables, stream, faults>>

\* The whole of it, and what the harness has then to do.
LEMMA Moves ==
    ASSUME Plan, \A r \in Requests \ asked : pc[r] = "acquire", [RunNext]_<<System, harness>>
    PROVE  \/ UNCHANGED System
           \/ Served /\ UNCHANGED harness
           \/ (\E k \in up : Ends(k)) /\ step \in {"kill", "await"} \cup {step'}
           \/ step = "seed" /\ step' \in {"feed", "await"} /\ Seeded
           \/ step \in {"feed", "redeliver"} /\ Enqueue
           \/ step \in {"post", "answer"} /\ Cut
           \/ step = "expire" /\ LeaseEnds
           \/ step = "reap" /\ Cleared
<1>1. Serve => Served /\ UNCHANGED harness
  BY DEF Serve, Served
<1>2. Abort \/ GiveUpAbort \/ Kill => \E k \in up : Ends(k)
  BY DEF Abort, GiveUpAbort, Kill
<1>3. Abort \/ GiveUpAbort \/ Kill => step \in {"kill", "await", step'}
  BY DEF Abort, GiveUpAbort, Kill, At
<1>4. Seed => \/ UNCHANGED System
              \/ step = "seed" /\ step' \in {"feed", "await"} /\ Seeded
  BY DEF Seed, Seeded, At
<1>5. Feed => step \in {"feed", "redeliver"} /\ Enqueue
  BY DEF Feed
<1>6. Send => step = "post" /\ Cut
  <2> SUFFICES ASSUME Send PROVE step = "post" /\ Cut
    OBVIOUS
  <2>1. PICK n \in 0..3 : asked = Posted(n) /\ Turn(n)
    BY DEF Plan
  <2>2. step = "post" /\ n \in 0..2
    BY <2>1 DEF Send, At, Turn
  <2> DEFINE r == Posts[n + 1]
  <2>3. Cardinality(asked) = n /\ r \in Requests \ asked
    BY <2>1, <2>2, PostedCount
  <2>4. (CutOff({}) \/ CutOff({r})) /\ r \in asked'
    BY <2>3 DEF Send
  <2>5. {} \in SUBSET Requests /\ {r} \in SUBSET Requests /\ pc[r] # "done"
    BY <2>3
  <2> QED BY <2>2, <2>4, <2>5 DEF Send, Cut
<1>7. Answered => UNCHANGED System \/ (step = "answer" /\ Cut)
  <2> SUFFICES ASSUME Answered PROVE UNCHANGED System \/ (step = "answer" /\ Cut)
    OBVIOUS
  <2>1. PICK n \in 0..3 : asked = Posted(n) /\ Turn(n)
    BY DEF Plan
  <2>2. step = "answer" /\ n \in 1..3
    BY <2>1 DEF Answered, Turn
  <2>3. Cardinality(asked) = n
    BY <2>1, PostedCount
  <2>4. Current \in Requests /\ Current \in asked'
    <3>1. Current = Posts[n] /\ asked' = Posted(n)
      BY <2>1, <2>3 DEF Current, Answered
    <3>2. Current \in Posted(n)
      BY <2>2, <3>1 DEF Posted
    <3> QED BY <3>1, <3>2, PostedCount
  <2>5. \/ UNCHANGED pc
        \/ CutOff({Current}) /\ pc[Current] # "done"
    BY DEF Answered
  <2>6. UNCHANGED <<handler, req, row, rec, applied, resp, relay, tables, worker, stream, faults,
                    credit>>
    BY DEF Answered
  <2>7. UNCHANGED pc => UNCHANGED System
    BY <2>6 DEF System, payout, spine
  <2> QED BY <2>2, <2>4, <2>5, <2>6, <2>7 DEF Cut
<1>8. ExpireLease => step = "expire" /\ LeaseEnds
  BY DEF ExpireLease, LeaseEnds, At
<1>9. Reap => step = "reap" /\ Cleared
  BY DEF Reap, Cleared, At, payout, worker
<1>10. Bind \/ SeeAbort \/ Restart \/ ReadStreams \/ ReadOutbox \/ GiveUpDrain \/ Verdict
          => UNCHANGED System
  BY DEF Bind, SeeAbort, Restart, ReadStreams, ReadOutbox, GiveUpDrain, Verdict
<1> QED BY <1>1, <1>2, <1>3, <1>4, <1>5, <1>6, <1>7, <1>8, <1>9, <1>10 DEF RunNext, Harness

----------------------------------------------------------------------------
(* The services keep their own invariants                                   *)

Unasked == \A r \in Requests \ asked : pc[r] = "acquire"

RelayTypes ==
    /\ committed \in SUBSET Requests
    /\ sent \in SUBSET committed
    /\ batch \in [Relays -> SUBSET committed]
    /\ hand \in [Relays -> committed \cup {None}]

Parts ==
    /\ APIP!IInv
    /\ PWP!Core
    /\ DCP!Core
    /\ RelayTypes
    /\ Unasked
    /\ \A r \in committed : status[r] # "none"

\* Each service's own invariant holds at first.
LEMMA PartsInit == RunInit => Parts
<1> SUFFICES ASSUME RunInit PROVE Parts
  OBVIOUS
<1>1. APIP!IInv
  BY SameTick, SpineGiven, APIP!SafeInit DEF RunInit
<1>2. PWP!Core
  BY SameInit, PayoutGiven, PWP!InvInit DEF RunInit, PWP!IInv
<1>3. DCP!Core
  BY SameCredit, CreditGiven, DCP!InvInit DEF RunInit, DCP!IInv
<1>4. RelayTypes /\ \A r \in committed : status[r] # "none"
  BY DEF RunInit, OB!Init, RelayTypes
<1>5. Unasked
  BY DEF RunInit, API!Init, Unasked
<1> QED BY <1>1, <1>2, <1>3, <1>4, <1>5 DEF Parts

\* To the spine.
LEMMA SpineMoves ==
    ASSUME Plan, Unasked, [RunNext]_<<System, harness>>
    PROVE  \/ UNCHANGED spine
           \/ APIP!Next
           \/ Cut
           \/ LeaseEnds
           \/ \E R \in SUBSET Requests :
                 /\ CutOff(R) /\ UNCHANGED <<req, row, rec, applied, resp>>
                 /\ \A r \in R : pc[r] # "done"
<1>1. Served => UNCHANGED spine \/ APIP!Next
  <2>1. ASSUME NEW r \in asked, Precheck(r) \/ SpineStep(r) \/ Execute(r) \/ Accept(r)
        PROVE  UNCHANGED spine \/ APIP!Next
    <3>1. SpineStep(r) \/ Execute(r) \/ Accept(r) => API!Step(r)
      BY DEF SpineStep, Execute, Accept, API!Step
    <3>2. r \in Requests
      BY PostedCount DEF Plan
    <3>3. API!Step(r) => APIP!Next
      BY <3>2, SameSpine DEF APIP!Next
    <3> QED BY <2>1, <3>1, <3>3 DEF Precheck, Pass
  <2>2. Tick => APIP!Next
    BY SameTick DEF Tick, APIP!Next
  <2>3. \A k : WorkerStep(k) \/ RelayStep(k) => UNCHANGED spine
    BY DEF WorkerStep, RelayStep
  <2>4. UNCHANGED payout => UNCHANGED spine
    BY DEF payout
  <2> QED BY <2>1, <2>2, <2>3, <2>4 DEF Served
<1>2. ASSUME NEW k \in up, Ends(k), ~UNCHANGED spine
      PROVE  \E R \in SUBSET Requests :
                 /\ CutOff(R) /\ UNCHANGED <<req, row, rec, applied, resp>>
                 /\ \A r \in R : pc[r] # "done"
  <2>1. /\ CutOff({r \in asked : pc[r] # "done"})
        /\ UNCHANGED <<req, row, rec, applied, resp>>
    BY <1>2 DEF Ends, payout
  <2>2. {r \in asked : pc[r] # "done"} \in SUBSET Requests
    BY PostedCount DEF Plan
  <2> QED BY <2>1, <2>2
<1>3. Seeded \/ Enqueue \/ Cleared \/ UNCHANGED System => UNCHANGED spine
  BY DEF Seeded, Enqueue, Cleared, System, payout
<1> QED BY <1>1, <1>2, <1>3, Moves DEF Unasked

\* The spine's invariant outlives aborts, kills and an expired lease.
LEMMA SpineSurvives ==
    ASSUME APIP!IInv, Plan, Unasked, [RunNext]_<<System, harness>>
    PROVE  APIP!IInv'
<1>1. UNCHANGED spine \/ APIP!Next => APIP!IInv'
  BY SpineGiven, APIP!SafeStep DEF spine, APIP!vars
<1>2. ASSUME NEW R \in SUBSET Requests, CutOff(R), UNCHANGED <<req, row, rec, applied, resp>>,
             \A r \in R : pc[r] # "done"
      PROVE  APIP!IInv'
  <2>1. APIP!TypeOK'
    BY <1>2 DEF APIP!IInv, APIP!TypeOK, CutOff, APIP!Steps
  <2>2. APIP!AnsweredOnce' /\ APIP!CompletionHoldsLease'
    BY <1>2 DEF APIP!IInv, APIP!AnsweredOnce, APIP!CompletionHoldsLease, APIP!StillOwns, APIP!Key,
                CutOff
  <2>3. APIP!CompletedIffApplied' /\ APIP!AtMostOneEffect' /\ APIP!AnswersAreDurable'
    BY <1>2 DEF APIP!IInv, APIP!CompletedIffApplied, APIP!AtMostOneEffect, APIP!AnswersAreDurable,
                APIP!SameKey, APIP!Key
  <2>4. APIP!RecordsHold' /\ APIP!CompletedHasNoLease'
    BY <1>2 DEF APIP!IInv, APIP!RecordsHold, APIP!CompletedHasNoLease, APIP!Key
  <2> QED BY <2>1, <2>2, <2>3, <2>4 DEF APIP!IInv
<1>3. Cut => APIP!IInv'
  BY <1>2 DEF Cut
<1>4. ASSUME LeaseEnds PROVE APIP!IInv'
  <2> USE DEF APIP!IInv
  <2> DEFINE k == KeyOf(First)
  <2>1. /\ row' = [row EXCEPT ![k] = [row[k] EXCEPT !.left = APIP!Expired]]
        /\ UNCHANGED <<req, pc, rec, applied, resp>>
    BY <1>4 DEF LeaseEnds, API!Expired, APIP!Expired
  <2>2. row \in [Keys -> APIP!Row] /\ APIP!Expired \in APIP!TimeLeft
    BY SpineGiven, APIP!RowTypes DEF APIP!TypeOK
  <2>3. \A j \in Keys : /\ row'[j] \in APIP!Row
                        /\ row'[j].status = row[j].status /\ row'[j].owner = row[j].owner
                        /\ row'[j].snap = row[j].snap
                        /\ row'[j].left \in {row[j].left, APIP!Expired}
    BY <2>1, <2>2 DEF APIP!Row
  <2>4. APIP!TypeOK'
    BY <2>1, <2>2, <2>3 DEF APIP!TypeOK
  <2>5. \A r \in Requests : req[r].key \in Keys
    BY DEF APIP!TypeOK
  <2>6. APIP!CompletedIffApplied' /\ APIP!AtMostOneEffect' /\ APIP!AnswersAreDurable'
    BY <2>1, <2>3 DEF APIP!CompletedIffApplied, APIP!AtMostOneEffect, APIP!AnswersAreDurable,
                APIP!SameKey, APIP!Key
  <2>7. APIP!AnsweredOnce' /\ APIP!CompletionHoldsLease'
    BY <2>1, <2>3, <2>5 DEF APIP!AnsweredOnce, APIP!CompletionHoldsLease, APIP!StillOwns, APIP!Key
  <2>8. APIP!RecordsHold' /\ APIP!CompletedHasNoLease'
    BY <2>1, <2>3, <2>5 DEF APIP!RecordsHold, APIP!CompletedHasNoLease, APIP!Key
  <2> QED BY <2>4, <2>6, <2>7, <2>8
<1> QED BY <1>1, <1>2, <1>3, <1>4, SpineMoves

\* A request that was not posted has not been begun.
LEMMA UnaskedStays ==
    ASSUME APIP!TypeOK, Plan, Plan', Unasked, [RunNext]_<<System, harness>>
    PROVE  Unasked'
<1>1. asked \subseteq asked' /\ (asked' # asked => step = "post")
  BY DEF RunNext, Harness, Serve, Abort, Seed, Bind, Feed, Send, Answered, ExpireLease, SeeAbort,
     GiveUpAbort, Reap, Restart, ReadStreams, ReadOutbox, GiveUpDrain, Kill, Verdict, plan, harness,
     At
<1>2. DOMAIN pc = Requests
  BY DEF APIP!TypeOK
<1>3. ASSUME Served PROVE \A r \in Requests \ asked : pc'[r] = pc[r]
  <2>1. ASSUME NEW s \in asked, Precheck(s) \/ SpineStep(s) \/ Execute(s) \/ Accept(s),
               NEW r \in Requests \ asked
        PROVE  pc'[r] = pc[r]
    <3>1. UNCHANGED pc \/ \E next : API!Goto(s, next)
      BY <2>1 DEF Precheck, Pass, SpineStep, Execute, Accept, spine, API!Answer,
         API!AcquireFresh, API!AcquireExisting, API!DecideReplay, API!DecideConflict,
         API!DecideRetryAfter, API!DecideTakeover, API!TakeoverWon, API!TakeoverLost,
         API!CompleteWon, API!CompleteLost, API!Reread, API!RunEffect, API!Commit
    <3> QED BY <1>2, <3>1 DEF API!Goto
  <2>2. (\E k : WorkerStep(k) \/ RelayStep(k)) \/ Tick \/ UNCHANGED payout => UNCHANGED pc
    BY DEF WorkerStep, RelayStep, Tick, API!Tick, payout, spine
  <2> QED BY <1>3, <2>1, <2>2 DEF Served
<1>4. ASSUME NEW k \in up, Ends(k) PROVE \A r \in Requests \ asked : pc'[r] = pc[r]
  BY <1>4 DEF Ends, payout, spine, CutOff
<1>5. Seeded \/ Enqueue \/ Cleared \/ LeaseEnds \/ UNCHANGED System => UNCHANGED pc
  BY DEF Seeded, Enqueue, Cleared, LeaseEnds, System, payout, spine
<1>6. Cut => \A r \in Requests \ asked' : pc'[r] = pc[r]
  BY DEF Cut, CutOff
<1> QED BY <1>1, <1>3, <1>4, <1>5, <1>6, Moves DEF Unasked

\* To outbox and relays.
LEMMA RelayMoves ==
    ASSUME Plan, Unasked, [RunNext]_<<System, harness>>
    PROVE  \/ UNCHANGED relay
           \/ \E r \in Requests : OB!Commit(r) /\ PW!CreateWithdrawal(r)
           \/ \E k \in Relays : RelayStep(k) \/ RelayBreaks(k)
<1>1. ASSUME Served
      PROVE  \/ UNCHANGED relay
             \/ \E r \in Requests : OB!Commit(r) /\ PW!CreateWithdrawal(r)
             \/ \E k \in Relays : RelayStep(k)
  <2>1. asked \subseteq Requests
    BY PostedCount DEF Plan
  <2> QED BY <1>1, <2>1 DEF Served, Precheck, Pass, SpineStep, Execute, Accept, Tick, WorkerStep, payout
<1>2. ASSUME NEW k \in up, Ends(k)
      PROVE  UNCHANGED relay \/ \E j \in Relays : RelayBreaks(j)
  BY <1>2 DEF Ends, RelayBreaks, payout
<1>3. Seeded => \/ UNCHANGED relay
                \/ \E r \in Requests : OB!Commit(r) /\ PW!CreateWithdrawal(r)
  BY PostsAssumption DEF Seeded
<1>4. Enqueue \/ Cut \/ LeaseEnds \/ Cleared \/ UNCHANGED System => UNCHANGED relay
  BY DEF Enqueue, Cut, LeaseEnds, Cleared, System, payout
<1> QED BY <1>1, <1>2, <1>3, <1>4, Moves DEF Unasked

\* The relay's types hold, and it takes back no commit and no mark.
LEMMA RelaySurvives ==
    ASSUME RelayTypes, Plan, Unasked, [RunNext]_<<System, harness>>
    PROVE  RelayTypes' /\ committed \subseteq committed' /\ sent \subseteq sent'
<1>1. UNCHANGED relay => RelayTypes' /\ committed \subseteq committed' /\ sent \subseteq sent'
  BY DEF RelayTypes, relay
<1>2. ASSUME NEW r \in Requests, OB!Commit(r)
      PROVE  RelayTypes' /\ committed \subseteq committed' /\ sent \subseteq sent'
  <2>1. committed' = committed \cup {r} /\ UNCHANGED <<sent, batch, hand>>
    BY <1>2 DEF OB!Commit
  <2> QED BY <2>1 DEF RelayTypes
<1>3. ASSUME NEW k \in Relays, RelayStep(k) \/ RelayBreaks(k)
      PROVE  RelayTypes' /\ committed \subseteq committed' /\ sent \subseteq sent'
  <2>1. batch[k] \in SUBSET committed /\ hand[k] \in committed \cup {None}
    BY DEF RelayTypes
  <2>2. committed' = committed
    BY <1>3 DEF RelayStep, RelayBreaks, OB!ReadUnsent, OB!Publish, OB!PassOver, OB!Xadd,
       OB!XaddFails, OB!MarkSent, OB!MarkFails, OB!Crash
  <2>3. /\ \/ batch' = batch
           \/ \E B \in SUBSET committed : batch' = [batch EXCEPT ![k] = B]
        /\ \/ hand' = hand
           \/ \E r \in committed \cup {None} : hand' = [hand EXCEPT ![k] = r]
        /\ sent' = sent \/ \E r \in committed : sent' = sent \cup {r}
    BY <1>3, <2>1 DEF RelayStep, RelayBreaks, OB!ReadUnsent, OB!Unsent, OB!Publish, OB!PassOver,
       OB!Xadd, OB!XaddFails, OB!MarkSent, OB!MarkFails, OB!Crash
  <2> QED BY <2>2, <2>3 DEF RelayTypes
<1> QED BY <1>1, <1>2, <1>3, RelayMoves

\* To the tables, the stream, the workers and the signer.
LEMMA SamePublish ==
    \A w : PW!Publish(w) <=> PWP!Publish(w)
BY Zenon DEF PW!Publish, PWP!Publish, PW!Copies, PWP!Copies, PW!Entries, PWP!Entries,
   PW!Cardinality, PWP!Cardinality, PW!db, PWP!db, PW!consumer, PWP!consumer, PW!signer, PWP!signer

\* A step of a run is one of the payout path, or the harness's clearing of the
\* pending entries.
LEMMA PayoutMoves ==
    ASSUME RelayTypes, \A r \in committed : status[r] # "none",
           Plan, Unasked, [RunNext]_<<System, harness>>
    PROVE  \/ PWP!Step
           \/ step = "reap" /\ Cleared
<1>1. ASSUME NEW r \in Requests, PW!CreateWithdrawal(r) PROVE PWP!Step
  BY <1>1, SameEffects DEF PWP!Step, PWP!Next
<1>2. ASSUME NEW k \in Relays, RelayStep(k) \/ RelayBreaks(k) PROVE PWP!Step
  <2>1. UNCHANGED <<tables, worker>>
    BY <1>2 DEF RelayStep, RelayBreaks
  <2>2. CASE stream' = stream
    BY <2>1, <2>2 DEF tables, worker, PWP!Step, PWP!db, PWP!redis, PWP!consumer, PWP!signer
  <2>3. ASSUME NEW r \in committed, stream' = Append(stream, r) PROVE PWP!Step
    <3>1. r \in Requests /\ status[r] # "none"
      BY DEF RelayTypes
    <3> QED BY <2>1, <2>3, <3>1 DEF tables, worker, PWP!Step, PWP!Appears, PWP!db, PWP!consumer, PWP!signer
  <2> QED BY <1>2, <2>2, <2>3, RelayAdds DEF RelayTypes
<1>3. ASSUME NEW k \in Workers, PW!Work(k) \/ PW!Crash(k) PROVE PWP!Step
  <2>1. PWP!Work(k) \/ PWP!Break(k)
    BY <1>3, SameWork, SameBreak DEF PW!Break
  <2> QED BY <2>1 DEF PWP!Step, PWP!Next
<1>4. UNCHANGED <<tables, worker, stream>> => PWP!Step
  BY DEF tables, worker, PWP!Step, PWP!db, PWP!redis, PWP!consumer, PWP!signer
<1>5. Served => PWP!Step
  <2>1. ASSUME NEW r \in asked, Precheck(r) \/ SpineStep(r) \/ Execute(r) \/ Accept(r)
        PROVE  PWP!Step
    <3>1. r \in Requests
      BY PostedCount DEF Plan
    <3> QED BY <1>1, <1>4, <2>1, <3>1 DEF Precheck, Pass, SpineStep, Execute, Accept
  <2> QED BY <1>2, <1>3, <1>4, <2>1 DEF Served, WorkerStep, Tick, payout
<1>6. ASSUME NEW k \in up, Ends(k) PROVE PWP!Step
  BY <1>2, <1>3, <1>4, <1>6 DEF Ends, RelayBreaks, payout
<1>7. Seeded \/ Enqueue => PWP!Step
  <2>1. PW!Publish(First) => PWP!Step
    BY SamePublish, PostsAssumption DEF PWP!Step, PWP!Next
  <2> QED BY <1>1, <1>4, <2>1, PostsAssumption DEF Seeded, Enqueue, payout
<1>8. Cut \/ LeaseEnds \/ UNCHANGED System => UNCHANGED <<tables, worker, stream>>
  BY DEF Cut, LeaseEnds, System, payout
<1> QED BY <1>4, <1>5, <1>6, <1>7, <1>8, Moves DEF Unasked

\* A fault is counted, and there are not more than the bound.
LEMMA FaultsBounded ==
    ASSUME PWP!TypeOK, Plan, Unasked, [RunNext]_<<System, harness>>
    PROVE  faults' \in 0..MaxFaults
<1>1. faults \in 0..MaxFaults /\ faults \in Nat
  BY BoundsAssumption DEF PWP!TypeOK
<1>2. ASSUME Served PROVE faults' \in 0..MaxFaults
  <2>1. ASSUME NEW k \in Workers, WorkerStep(k) PROVE faults' \in 0..MaxFaults
    BY <2>1, SameWork, PayoutGiven, PWP!WorkersCreateNone DEF WorkerStep
  <2>2. UNCHANGED faults \/ \E k \in Workers : WorkerStep(k)
    BY <1>2 DEF Served, Precheck, Pass, SpineStep, Execute, Accept, PW!CreateWithdrawal, Tick, DC!Work,
       DC!Fetch, DC!Reclaim, DC!FindOrder, DC!DeadLetter, DC!InsertDeposit, DC!Credit, DC!Xack
  <2> QED BY <1>1, <2>1, <2>2
<1>3. ASSUME NEW k \in up, Ends(k) PROVE faults' \in 0..MaxFaults
  <2>1. \/ UNCHANGED faults
        \/ faults < MaxFaults /\ faults' = faults + 1
    BY <1>3 DEF Ends, PW!Crash, PW!Fault, OB!Crash, OB!Fault, DC!Crash, DC!Fault
  <2> QED BY <1>1, <2>1, BoundsAssumption
<1>4. Seeded \/ Enqueue \/ Cut \/ LeaseEnds \/ Cleared \/ UNCHANGED System => UNCHANGED faults
  BY DEF Seeded, Enqueue, Cut, LeaseEnds, Cleared, System, PW!CreateWithdrawal, PW!Publish,
     DC!Publish
<1> QED BY <1>1, <1>2, <1>3, <1>4, Moves DEF Unasked

\* The payout path's invariant outlives the clearing, which forgets only entries.
LEMMA PayoutSurvives ==
    ASSUME PWP!Core, RelayTypes, \A r \in committed : status[r] # "none",
           Plan, Unasked, [RunNext]_<<System, harness>>
    PROVE  PWP!Core'
<1>1. faults' \in 0..MaxFaults
  BY FaultsBounded DEF PWP!Core
<1>2. PWP!Step => PWP!Core'
  BY <1>1, PayoutGiven, PWP!CoreStep
<1>3. ASSUME Cleared PROVE PWP!Core'
  <2>1. CASE pending' = {}
    <3>1. UNCHANGED <<PWP!db, stream, read, PWP!consumer, PWP!signer, faults>>
      BY <1>3, <2>1 DEF Cleared, tables, worker, PWP!db, PWP!consumer, PWP!signer
    <3> QED BY <2>1, <3>1, PayoutGiven, PWP!PendingCleared
  <2>2. CASE UNCHANGED worker
    <3>1. PWP!Step
      BY <1>3, <2>2 DEF Cleared, tables, worker, PWP!Step, PWP!db, PWP!redis, PWP!consumer, PWP!signer
    <3> QED BY <1>2, <3>1
  <2> QED BY <1>3, <2>1, <2>2 DEF Cleared
<1> QED BY <1>2, <1>3, PayoutMoves

\* To the credit path.
LEMMA CreditMoves ==
    ASSUME Plan, Unasked, [RunNext]_<<System, harness>>
    PROVE  \/ DCP!Next
           \/ UNCHANGED credit
           \/ step = "reap" /\ Cleared
<1>1. Served => DCP!Next \/ UNCHANGED credit
  BY SameCredit DEF Served, DCP!Next
<1>2. ASSUME NEW k \in up, Ends(k) PROVE DCP!Next \/ UNCHANGED credit
  BY <1>2, SameCredit DEF Ends, DCP!Next, DCP!Break
<1>3. Enqueue => DCP!Next \/ UNCHANGED credit
  BY SameCredit DEF Enqueue, DCP!Next
<1>4. Seeded \/ Cut \/ LeaseEnds \/ UNCHANGED System => UNCHANGED credit
  BY DEF Seeded, Cut, LeaseEnds, System
<1> QED BY <1>1, <1>2, <1>3, <1>4, Moves DEF Unasked

\* So does the credit path's.
LEMMA CreditSurvives ==
    ASSUME DCP!Core, PWP!TypeOK, Plan, Unasked, [RunNext]_<<System, harness>>
    PROVE  DCP!Core'
<1>1. faults' \in 0..MaxFaults
  BY FaultsBounded
<1>2. DCP!Next => DCP!Core'
  BY CreditGiven, DCP!CoreStep
<1>3. ASSUME UNCHANGED <<order, deposits, balance, dead, call, delivered, handed, stage, inbox,
                         seen, offered>>,
             unacked' \subseteq unacked
      PROVE  DCP!Core'
  <2>1. UNCHANGED <<DCP!db, call, delivered, handed, DCP!consumer, offered>>
    BY <1>3 DEF DCP!db, DCP!consumer
  <2> QED BY <1>1, <1>3, <2>1, CreditGiven, DCP!PendingForgotten
<1>4. UNCHANGED credit => DCP!Core'
  BY <1>3 DEF credit
<1>5. Cleared => DCP!Core'
  BY <1>3, <1>4 DEF Cleared
<1> QED BY <1>2, <1>4, <1>5, CreditMoves

\* Together: every step keeps the invariant of every service.
LEMMA PartsStep ==
    ASSUME Parts, Plan, Plan', [RunNext]_<<System, harness>>
    PROVE  Parts'
<1> USE DEF Parts
<1>1. APIP!IInv' /\ Unasked'
  BY SpineSurvives, UnaskedStays DEF APIP!IInv
<1>2. RelayTypes'
  BY RelaySurvives
<1>3. PWP!Core' /\ DCP!Core'
  BY PayoutSurvives, CreditSurvives DEF PWP!Core
<1>4. ASSUME NEW r \in Requests, status[r] # "none" PROVE status'[r] # "none"
  <2>1. PWP!TypeOK /\ PWP!StepsHold
    BY DEF PWP!Core
  <2>2. PWP!Step => status'[r] # "none"
    BY <1>4, <2>1, PayoutGiven, PWP!StatusMonotone
  <2>3. Cleared => status'[r] # "none"
    BY <1>4 DEF Cleared, tables
  <2> QED BY <2>2, <2>3, PayoutMoves
<1>5. ASSUME NEW r \in committed' PROVE status'[r] # "none"
  <2>1. CASE r \in committed
    <3>1. r \in Requests
      BY <2>1 DEF RelayTypes
    <3> QED BY <1>4, <2>1, <3>1
  <2>2. CASE r \notin committed
    <3>1. OB!Commit(r) /\ r \in Requests /\ PW!CreateWithdrawal(r)
      BY <1>5, <2>2, RelayMoves
         DEF relay, RelayStep, RelayBreaks, OB!ReadUnsent, OB!Publish, OB!PassOver, OB!Xadd,
             OB!XaddFails, OB!MarkSent, OB!MarkFails, OB!Crash, OB!Commit
    <3>2. DOMAIN status = Requests
      BY DEF PWP!Core, PWP!TypeOK, PWP!TablesOK
    <3> QED BY <3>1, <3>2 DEF PW!CreateWithdrawal
  <2> QED BY <2>1, <2>2
<1> QED BY <1>1, <1>2, <1>3, <1>5

----------------------------------------------------------------------------
(* What ties the services' states together in a run                         *)

Born == {r \in Requests : status[r] # "none"}

\* The signer rejects nothing, so nothing fails.
NothingFails ==
    /\ \A k \in Workers : at[k] # "rejected"
    /\ \A r \in Requests : status[r] # "failed"

\* The one deposit is for the one order's quote.
NothingDies ==
    /\ order[OnlyOrder].quote = Quote
    /\ dead = {}
    /\ \A k \in Processors : stage[k] # "dead"

\* What the run has made durable, by its owner.
TablesTied ==
    /\ Owner \in {"api", "a2"} => TablesAgree
    /\ Owner = "relay" => committed = Born
    /\ Owner \in {"worker", "processor"} => committed = {}
    /\ Owner \in {"worker", "relay"} => Born = IF step = "seed" THEN {} ELSE {First}
    /\ Owner = "processor" => Born = {}

Ties == NothingFails /\ NothingDies /\ MarkedIsPublished /\ TablesTied

\* With the last entry put back nothing the run is about is forgotten, and what
\* the streams have been emptied of is done.
Draining == step \in {"drain", "outbox"}
Emptied == step = "outbox" \/ drained

PayoutDone ==
    Owner = "worker" =>
       /\ Draining => PWP!NotForgotten /\ PWP!Copies(First) # {}
       /\ Emptied => status[First] = "completed"

CreditDone ==
    Owner = "processor" =>
       /\ Draining => DCP!AckedIsSettled /\ DCP!Copies(OnlyDeposit) # {}
       /\ Emptied => deposits = {OnlyDeposit}

\* What ties the services together holds at first.
LEMMA TiesInit == RunInit => Ties
<1> SUFFICES ASSUME RunInit PROVE Ties
  OBVIOUS
<1>1. NothingFails
  BY DEF RunInit, PW!Init, NothingFails
<1>2. NothingDies
  BY DEF RunInit, DC!Init, DC!NewOrder, NothingDies
<1>3. MarkedIsPublished
  BY DEF RunInit, OB!Init, MarkedIsPublished
<1>4. applied = {} /\ committed = {} /\ \A r \in Requests : status[r] = "none"
  BY DEF RunInit, API!Init, OB!Init, PW!Init
<1>5. TablesTied
  BY <1>4 DEF RunInit, TablesTied, TablesAgree, Born
<1> QED BY <1>1, <1>2, <1>3, <1>5 DEF Ties

\* A worker's step is its own.
LEMMA WorkerGoes ==
    ASSUME NEW k \in Workers, PW!Work(k) \/ PW!Crash(k)
    PROVE  /\ \E s : PW!Goto(k, s)
           /\ PW!Crash(k) => PW!Goto(k, "claim")
BY DEF PW!Work, PW!Reclaim, PW!Fetch, PW!Find, PW!Lookup, PW!Advance, PW!AdvanceRaced,
   PW!IssueSend, PW!SignerAccepts, PW!SignerAnswersGarbled, PW!SignerRejects, PW!FinalizeSuccess,
   PW!FinalizeFailed, PW!Xack, PW!Crash, PW!Take, PW!NextEntry

\* A worker that moves either works, and is running, or is ended.
LEMMA WorkersMove ==
    ASSUME Plan, Unasked, [RunNext]_<<System, harness>>
    PROVE  \/ UNCHANGED <<at, reply>>
           \/ \E k \in Workers : /\ PW!Work(k) /\ at'[k] # "rejected"
                                 /\ Runs(k) /\ UNCHANGED harness
           \/ \E k \in Workers : PW!Crash(k)
<1>1. Served => \/ UNCHANGED <<at, reply>>
                \/ \E k \in Workers : PW!Work(k) /\ at'[k] # "rejected" /\ Runs(k)
  BY DEF Served, WorkerStep, RelayStep, Precheck, Pass, SpineStep, Execute, Accept, Tick, payout, worker,
     PW!CreateWithdrawal, PW!consumer
<1>2. ASSUME NEW k \in up, Ends(k) PROVE UNCHANGED <<at, reply>> \/ \E j \in Workers : PW!Crash(j)
  BY <1>2 DEF Ends, payout, worker
<1>3. Seeded \/ Enqueue \/ Cut \/ LeaseEnds \/ Cleared \/ UNCHANGED System => UNCHANGED <<at, reply>>
  BY DEF Seeded, Enqueue, Cut, LeaseEnds, Cleared, System, payout, worker, PW!CreateWithdrawal,
     PW!Publish, PW!consumer
<1> QED BY <1>1, <1>2, <1>3, Moves DEF Unasked

\* No step makes a withdrawal fail.
LEMMA NothingFailsStep ==
    ASSUME Parts, Plan, NothingFails, [RunNext]_<<System, harness>>
    PROVE  NothingFails'
<1>1. DOMAIN at = Workers
  BY DEF Parts, PWP!Core, PWP!TypeOK, PWP!WorkersOK
<1>2. \A k \in Workers : at'[k] # "rejected"
  <2>1. ASSUME NEW k \in Workers, NEW s, PW!Goto(k, s), s # "rejected"
        PROVE  \A j \in Workers : at'[j] # "rejected"
    BY <1>1, <2>1 DEF PW!Goto, NothingFails
  <2>2. ASSUME NEW k \in Workers, NEW s, PW!Goto(k, s) PROVE at'[k] = s
    BY <1>1, <2>2 DEF PW!Goto
  <2> QED BY <2>1, <2>2, WorkersMove, WorkerGoes DEF Parts, NothingFails
<1>3. ASSUME NEW r \in Requests PROVE status'[r] # "failed"
  <2>1. PWP!Step => status'[r] # "failed"
    <3> SUFFICES ASSUME PWP!Step, status'[r] = "failed" PROVE FALSE
      OBVIOUS
    <3>1. PWP!TypeOK /\ status[r] # "failed"
      BY DEF Parts, PWP!Core, NothingFails
    <3> QED BY <3>1, PayoutGiven, PWP!FinalizeStep DEF NothingFails
  <2>2. Cleared => status'[r] # "failed"
    BY DEF Cleared, tables, NothingFails
  <2> QED BY <2>1, <2>2, PayoutMoves DEF Parts
<1> QED BY <1>2, <1>3 DEF NothingFails

\* To the credit path, once more: what its processes do.
LEMMA ProcessorsMove ==
    ASSUME Plan, Unasked, [RunNext]_<<System, harness>>
    PROVE  \/ \E k \in Processors : DCP!Work(k) \/ DCP!Crash(k)
           \/ UNCHANGED <<order, deposits, balance, dead, call, stage, inbox, seen>>
<1>1. Served => \/ \E k \in Processors : DCP!Work(k)
                \/ UNCHANGED credit
  BY SameCredit DEF Served
<1>2. ASSUME NEW k \in up, Ends(k) PROVE (\E j \in Processors : DCP!Crash(j)) \/ UNCHANGED credit
  BY <1>2, SameCredit DEF Ends
<1>3. Enqueue => UNCHANGED <<order, deposits, balance, dead, call, stage, inbox, seen>>
  BY DEF Enqueue, DC!Publish, DC!db, DC!consumer, credit
<1>4. Cleared => UNCHANGED <<order, deposits, balance, dead, call, stage, inbox, seen>>
  BY DEF Cleared, credit
<1>5. Seeded \/ Cut \/ LeaseEnds \/ UNCHANGED System => UNCHANGED credit
  BY DEF Seeded, Cut, LeaseEnds, System
<1>6. UNCHANGED credit => UNCHANGED <<order, deposits, balance, dead, call, stage, inbox, seen>>
  BY DEF credit
<1> QED BY <1>1, <1>2, <1>3, <1>4, <1>5, <1>6, Moves DEF Unasked

\* No step puts the deposit on the dead-letter list, or quotes the order anew.
LEMMA NothingDiesStep ==
    ASSUME Parts, Plan, NothingDies, [RunNext]_<<System, harness>>
    PROVE  NothingDies'
<1>1. DCP!TypeOK
  BY DEF Parts, DCP!Core
<1>2. /\ stage \in [Processors -> DCP!Steps] /\ DCP!StreamOK /\ DCP!ProcessorsOK
      /\ order \in [{OnlyOrder} -> DCP!OrderRow]
  BY <1>1 DEF DCP!TypeOK, DCP!ProcessorsOK, DCP!TablesOK
<1>3. DOMAIN order[OnlyOrder] = {"status", "by", "quote"} /\ DOMAIN order = {OnlyOrder}
  BY <1>2 DEF DCP!OrderRow
<1>4. ASSUME NEW k \in Processors, DCP!FindOrder(k) PROVE NothingDies'
  <2>1. DCP!Deposit(k) = OnlyDeposit
    BY <1>2, <1>4, CreditGiven, DCP!CurrentEntry DEF DCP!Working, DCP!FindOrder
  <2>2. DCP!Creditable(OnlyDeposit)
    <3>1. OnlyOrder # None /\ order[OnlyOrder].quote = Quote /\ ~DCP!IsSol(OnlyDeposit)
      BY DepositAssumption DEF NothingDies, DCP!IsSol, Quote
    <3> QED BY <3>1 DEF DCP!Creditable, DCP!Verifies, DCP!VerifiesToken
  <2>3. stage' = [stage EXCEPT ![k] = "credit"] /\ UNCHANGED <<order, dead>>
    BY <1>4, <2>1, <2>2 DEF DCP!FindOrder, DCP!Goto, DCP!db
  <2> QED BY <1>2, <2>3 DEF NothingDies
<1>5. ASSUME NEW k \in Processors, DCP!DeadLetter(k) PROVE NothingDies'
  BY <1>5 DEF DCP!DeadLetter, NothingDies
<1>6. ASSUME NEW k \in Processors, DCP!Credit(k) PROVE NothingDies'
  <2>1. \/ order' = order
        \/ order' = [order EXCEPT ![OnlyOrder] =
                        [order[OnlyOrder] EXCEPT !.status = "paid", !.by = DCP!Deposit(k)]]
    <3>1. DCP!Deposit(k) = OnlyDeposit
      BY <1>2, <1>6, CreditGiven, DCP!CurrentEntry DEF DCP!Working, DCP!Credit
    <3> QED BY <1>6, <3>1 DEF DCP!Credit, DCP!CreditTx, DCP!MarkPaid
  <2>2. order'[OnlyOrder].quote = Quote
    BY <1>3, <2>1 DEF NothingDies
  <2>3. dead' = dead /\ stage' = [stage EXCEPT ![k] = "ack"]
    BY <1>6 DEF DCP!Credit, DCP!CreditTx, DCP!Goto
  <2> QED BY <1>2, <2>2, <2>3 DEF NothingDies
<1>7. ASSUME NEW k \in Processors,
             DCP!Fetch(k) \/ DCP!Reclaim(k) \/ DCP!InsertDeposit(k) \/ DCP!Xack(k) \/ DCP!Crash(k)
      PROVE  NothingDies'
  <2>1. /\ UNCHANGED <<order, dead>>
        /\ \E s \in {"claim", "order", "read", "ack", "commit"} : DCP!Goto(k, s)
    BY <1>7 DEF DCP!Fetch, DCP!Reclaim, DCP!InsertDeposit, DCP!Xack, DCP!Crash, DCP!NextEntry, DCP!db
  <2> QED BY <1>2, <2>1 DEF DCP!Goto, NothingDies
<1>8. UNCHANGED <<order, dead, stage>> => NothingDies'
  BY DEF NothingDies
<1> QED BY <1>4, <1>5, <1>6, <1>7, <1>8, ProcessorsMove DEF Parts, DCP!Work

\* What is marked as sent is on the stream, whatever the harness ends.
LEMMA MarkedStays ==
    ASSUME Parts, Plan, MarkedIsPublished, [RunNext]_<<System, harness>>
    PROVE  MarkedIsPublished'
<1>1. /\ stream \in Seq(Requests) /\ batch \in [Relays -> SUBSET committed]
      /\ hand \in [Relays -> committed \cup {None}]
  BY DEF Parts, RelayTypes, PWP!Core, PWP!TypeOK, PWP!StreamOK
<1>2. ASSUME NEW k \in Relays, RelayStep(k) \/ RelayBreaks(k) PROVE MarkedIsPublished'
  BY <1>1, <1>2, RelayKeepsMarked
<1>3. ASSUME NEW r \in Requests, OB!Commit(r) PROVE UNCHANGED <<sent, hand>>
  BY <1>3 DEF OB!Commit
<1>4. UNCHANGED relay => UNCHANGED <<sent, hand>>
  BY DEF relay
<1>5. OBP!Published \subseteq OBP!Published'
  <2>1. PWP!Step => \A i \in 1..Len(stream) : i \in 1..Len(stream') /\ stream'[i] = stream[i]
    BY PayoutGiven, PWP!StreamGrows DEF Parts, PWP!Core, PWP!Entries
  <2>2. Cleared => stream' = stream
    BY DEF Cleared
  <2> QED BY <2>1, <2>2, PayoutMoves DEF Parts, OBP!Published
<1>6. UNCHANGED <<sent, hand>> => MarkedIsPublished'
  BY <1>5 DEF MarkedIsPublished
<1> QED BY <1>2, <1>3, <1>4, <1>6, RelayMoves DEF Parts

\* What is made durable: by a post that is accepted, or the harness.
LEMMA TablesMove ==
    ASSUME Parts, Plan, [RunNext]_<<System, harness>>
    PROVE  \/ (\E r \in asked : Accept(r)) /\ UNCHANGED harness
           \/ step = "seed" /\ step' \in {"feed", "await"} /\ Seeded
           \/ /\ UNCHANGED <<committed, applied>>
              /\ \A r \in Requests : status'[r] # "none" <=> status[r] # "none"
<1> DEFINE Quiet == /\ UNCHANGED <<committed, applied>>
                    /\ \A r \in Requests : status'[r] # "none" <=> status[r] # "none"
<1>1. ASSUME NEW k \in Workers, PW!Work(k) \/ PW!Crash(k), UNCHANGED <<spine, relay>> PROVE Quiet
  <2>1. PWP!TypeOK
    BY DEF Parts, PWP!Core
  <2>2. PWP!Work(k) \/ PWP!Break(k)
    BY <1>1, SameWork, SameBreak DEF PW!Break
  <2> QED BY <1>1, <2>1, <2>2, PayoutGiven, PWP!WorkersCreateNone DEF spine, relay
<1>2. ASSUME NEW k \in Relays, RelayStep(k) \/ RelayBreaks(k) PROVE Quiet
  BY <1>2 DEF RelayStep, RelayBreaks, spine, tables, OB!ReadUnsent, OB!Publish, OB!PassOver, OB!Xadd,
     OB!XaddFails, OB!MarkSent, OB!MarkFails, OB!Crash
<1>3. UNCHANGED <<committed, applied, tables>> => Quiet
  BY DEF tables
<1>4. ASSUME NEW r \in asked, Precheck(r) \/ SpineStep(r) \/ Execute(r) PROVE Quiet
  <2>1. UNCHANGED <<committed, applied, tables>>
    BY <1>4 DEF Precheck, Pass, SpineStep, Execute, spine, relay, API!AcquireFresh, API!AcquireExisting,
       API!DecideReplay, API!DecideConflict, API!DecideRetryAfter, API!DecideTakeover,
       API!TakeoverWon, API!TakeoverLost, API!CompleteWon, API!CompleteLost, API!Reread,
       API!RunEffect
  <2> QED BY <1>3, <2>1
<1>5. Tick \/ UNCHANGED payout => Quiet
  BY <1>3 DEF Tick, API!Tick, relay, payout, spine
<1>6. Served => Quiet \/ \E r \in asked : Accept(r)
  BY <1>1, <1>2, <1>4, <1>5 DEF Served, WorkerStep
<1>7. ASSUME NEW k \in up, Ends(k) PROVE Quiet
  <2>1. CASE k \in Workers /\ PW!Crash(k) /\ UNCHANGED <<spine, relay>>
    BY <1>1, <2>1
  <2>2. CASE k \in Relays /\ RelayBreaks(k)
    BY <1>2, <2>2
  <2>3. CASE UNCHANGED <<applied, relay, tables>>
    BY <1>3, <2>3 DEF relay
  <2> QED BY <1>7, <2>1, <2>2, <2>3 DEF Ends, RelayBreaks, payout, spine
<1>8. Enqueue \/ Cut \/ LeaseEnds \/ Cleared \/ UNCHANGED System => Quiet
  BY <1>3 DEF Enqueue, Cut, LeaseEnds, Cleared, System, payout, spine, relay, tables, PW!Publish, PW!db
<1> QED BY <1>6, <1>7, <1>8, Moves DEF Parts, Unasked

\* A run is about one cell, and it is seeded once.
LEMMA SeedOnce ==
    ASSUME [RunNext]_<<System, harness>>
    PROVE  /\ cell' = cell
           /\ step' = "seed" => step = "seed"
           /\ step = "seed" /\ step' # "seed" /\ Owner \in {"worker", "relay"} => Seeded
<1>1. UNCHANGED harness => cell' = cell /\ step' = step
  BY DEF harness, plan
<1>2. Abort => cell' = cell /\ step' = step
  BY DEF Abort, plan
<1>3. Seed => /\ cell' = cell /\ step' # "seed"
              /\ Owner \in {"worker", "relay"} => Seeded
  BY DEF Seed, Seeded, At
<1>4. Harness /\ ~Seed => cell' = cell /\ step # "seed" /\ step' # "seed"
  BY DEF Harness, Bind, Bound, Feed, Send, Answered, ExpireLease, SeeAbort, GiveUpAbort, AfterAwait,
     Reap, Restart, ReadStreams, ReadOutbox, GiveUpDrain, Kill, Verdict, At, plan
<1>5. Serve => UNCHANGED harness
  BY DEF Serve
<1> QED BY <1>1, <1>2, <1>3, <1>4, <1>5 DEF RunNext

\* The tables agree on what was made durable.
LEMMA TablesTiedStep ==
    ASSUME Parts, Plan, TablesTied, [RunNext]_<<System, harness>>
    PROVE  TablesTied'
<1>1. /\ Owner' = Owner /\ (step' = "seed" => step = "seed")
      /\ step = "seed" /\ step' # "seed" /\ Owner \in {"worker", "relay"} => Seeded
  BY SeedOnce, SameCell
<1>2. DOMAIN status = Requests
  BY DEF Parts, PWP!Core, PWP!TypeOK, PWP!TablesOK
<1>3. ASSUME NEW r \in asked, Accept(r) PROVE TablesTied'
  <2>1. r \in Requests /\ Owner \in {"api", "a2"}
    <3>1. PICK n \in 0..3 : asked = Posted(n) /\ Turn(n)
      BY DEF Plan
    <3>2. n # 0
      BY <3>1, PostedCount
    <3> QED BY <3>1, <3>2, PostedCount DEF Turn
  <2>2. applied' = applied \cup {r} /\ committed' = committed \cup {r}
    BY <1>3 DEF Accept, API!Commit, API!CommitTx, OB!Commit
  <2>3. status' = [status EXCEPT ![r] = "pending"]
    BY <1>3 DEF Accept, PW!CreateWithdrawal
  <2>4. TablesAgree'
    BY <1>2, <2>1, <2>2, <2>3 DEF TablesTied, TablesAgree
  <2> QED BY <1>1, <2>1, <2>4 DEF TablesTied
<1>4. ASSUME Seeded, step = "seed", step' # "seed" PROVE TablesTied'
  <2>1. First \in Requests /\ status' = [status EXCEPT ![First] = "pending"]
    BY <1>4, PostsAssumption DEF Seeded, PW!CreateWithdrawal
  <2>2. /\ Owner \in {"worker", "relay"} /\ Born = {}
        /\ committed' = IF Owner = "relay" THEN committed \cup {First} ELSE committed
    BY <1>4 DEF Seeded, TablesTied, OB!Commit, relay
  <2>3. Born' = {First}
    BY <1>2, <2>1, <2>2 DEF Born
  <2> QED BY <1>1, <1>4, <2>2, <2>3 DEF TablesTied
<1>5. ASSUME UNCHANGED <<committed, applied>>, ~Seeded,
             \A r \in Requests : status'[r] # "none" <=> status[r] # "none"
      PROVE  TablesTied'
  <2>1. Born' = Born /\ (TablesAgree => TablesAgree')
    BY <1>5 DEF Born, TablesAgree
  <2> QED BY <1>1, <1>5, <2>1 DEF TablesTied
<1>6. Seeded => ~\A r \in Requests : status'[r] # "none" <=> status[r] # "none"
  BY <1>2, PostsAssumption DEF Seeded, PW!CreateWithdrawal
<1> QED BY <1>3, <1>4, <1>5, <1>6, TablesMove

\* Together: every step keeps the ties.
LEMMA TiesStep ==
    ASSUME Parts, Plan, Ties, [RunNext]_<<System, harness>>
    PROVE  Ties'
BY NothingFailsStep, NothingDiesStep, MarkedStays, TablesTiedStep DEF Ties

\* How a run comes to drain, and to have drained, the streams.
LEMMA DrainMoves ==
    ASSUME Plan, [RunNext]_<<System, harness>>
    PROVE  /\ Owner' = Owner
           /\ Draining' => \/ Draining
                           \/ Feed /\ step = "redeliver" /\ Owner \in {"worker", "processor"}
                           \/ Owner \in {"relay", "a2"}
           /\ Emptied' => Emptied \/ ReadStreams
<1>1. Owner' = Owner
  BY SeedOnce, SameCell
<1>2. PICK n \in 0..3 : asked = Posted(n) /\ Turn(n)
  BY DEF Plan
<1>3. UNCHANGED harness \/ Abort => step' = step /\ drained' = drained
  BY DEF harness, plan, Abort
<1>4. Feed => /\ drained' = drained /\ step' # "outbox"
              /\ Owner \in {"worker", "processor"}
              /\ step' = "drain" => step = "redeliver"
  BY DEF Feed, Enqueue
<1>5. ReadStreams \/ ReadOutbox \/ GiveUpDrain
         => /\ Draining
            /\ drained' /\ ~drained => step = "outbox"
            /\ step' = "outbox" => ReadStreams
  BY DEF ReadStreams, ReadOutbox, GiveUpDrain, At, plan, Draining
<1>6. Seed \/ Bind \/ Send \/ ExpireLease \/ SeeAbort \/ GiveUpAbort \/ Reap \/ Kill \/ Verdict
         => drained' = drained /\ step' \notin {"drain", "outbox"}
  <2>1. Seed => drained' = drained /\ step' \notin {"drain", "outbox"}
    BY DEF Seed, At
  <2>2. Bind \/ Send \/ ExpireLease => drained' = drained /\ step' \notin {"drain", "outbox"}
    BY DEF Bind, Bound, Send, ExpireLease, At, plan
  <2>3. SeeAbort \/ GiveUpAbort \/ Reap => drained' = drained /\ step' \notin {"drain", "outbox"}
    BY DEF SeeAbort, GiveUpAbort, AfterAwait, Reap, At
  <2>4. Kill \/ Verdict => drained' = drained /\ step' \notin {"drain", "outbox"}
    BY DEF Kill, Verdict, At, plan
  <2> QED BY <2>1, <2>2, <2>3, <2>4
<1>7. Restart => /\ drained' = drained /\ step' # "outbox"
                 /\ step' = "drain" => Owner = "relay"
  BY <1>2 DEF Restart, Bound, Turn
<1>8. Answered => /\ drained' = drained /\ step' # "outbox"
                  /\ step' = "drain" => Owner = "a2"
  <2> SUFFICES ASSUME Answered PROVE /\ drained' = drained /\ step' # "outbox"
                                     /\ step' = "drain" => Owner = "a2"
    OBVIOUS
  <2>1. step = "answer" /\ drained' = drained
    BY DEF Answered
  <2>2. Cardinality(asked) = n
    BY <1>2, PostedCount
  <2>3. step' = "drain" => n = 3
    BY <2>2 DEF Answered
  <2>4. step' # "outbox"
    BY DEF Answered
  <2> QED BY <1>2, <2>1, <2>3, <2>4 DEF Turn
<1>9. Serve => UNCHANGED harness
  BY DEF Serve
<1>10. \/ UNCHANGED harness \/ Abort \/ Feed \/ ReadStreams \/ ReadOutbox \/ GiveUpDrain
       \/ Seed \/ Bind \/ Send \/ ExpireLease \/ SeeAbort \/ GiveUpAbort \/ Reap \/ Kill \/ Verdict
       \/ Restart \/ Answered
  BY <1>9 DEF RunNext, Harness
<1>11. Draining' => \/ Draining
                    \/ Feed /\ step = "redeliver" /\ Owner \in {"worker", "processor"}
                    \/ Owner \in {"relay", "a2"}
  BY <1>3, <1>4, <1>5, <1>6, <1>7, <1>8, <1>10 DEF Draining
<1>12. Emptied' => Emptied \/ ReadStreams
  BY <1>3, <1>4, <1>5, <1>6, <1>7, <1>8, <1>10 DEF Emptied
<1> QED BY <1>1, <1>11, <1>12

\* The withdrawal is not forgotten from its redelivery on: once no entry is left
\* on the stream it is completed.
LEMMA PayoutDoneStep ==
    ASSUME Parts, Plan, Ties, Ties', PayoutDone, [RunNext]_<<System, harness>>
    PROVE  PayoutDone'
<1> SUFFICES ASSUME Owner = "worker"
             PROVE  /\ Draining' => PWP!NotForgotten' /\ PWP!Copies(First)' # {}
                    /\ Emptied' => status'[First] = "completed"
  BY DrainMoves DEF PayoutDone
<1>1. First \in Requests /\ PWP!Core /\ PWP!TypeOK /\ PWP!StepsHold
  BY PostsAssumption DEF Parts, PWP!Core
<1>2. PWP!Step \/ (step = "reap" /\ Cleared)
  BY PayoutMoves DEF Parts
<1>3. ASSUME Draining, Draining'
      PROVE  PWP!NotForgotten' /\ PWP!Copies(First)' # {}
  <2>1. PWP!Step /\ PWP!IInv /\ PWP!Copies(First) # {}
    BY <1>1, <1>2, <1>3 DEF Draining, PayoutDone, PWP!IInv
  <2>2. PWP!NotForgotten'
    BY <2>1, PayoutGiven, PWP!KeepsNotForgotten
  <2>3. PWP!Copies(First)' # {}
    <3>1. PICK i \in PWP!Entries : stream[i] = First
      BY <2>1 DEF PWP!Copies
    <3>2. i \in PWP!Entries' /\ stream'[i] = First
      BY <1>1, <2>1, <3>1, PayoutGiven, PWP!StreamGrows
    <3> QED BY <3>2 DEF PWP!Copies
  <2> QED BY <2>2, <2>3
<1>4. ASSUME Feed, step = "redeliver", Draining'
      PROVE  PWP!NotForgotten' /\ PWP!Copies(First)' # {}
  <2>1. PWP!Publish(First)
    BY <1>4, SamePublish DEF Feed, Enqueue
  <2>2. stream' = Append(stream, First) /\ read' = read
    BY <2>1 DEF PWP!Publish
  <2>3. stream \in Seq(Requests) /\ read \in 0..Len(stream)
    BY <1>1 DEF PWP!TypeOK, PWP!StreamOK
  <2>4. Len(stream') = Len(stream) + 1 /\ stream'[Len(stream) + 1] = First
    BY <1>1, <2>2, <2>3
  <2>5. Len(stream) + 1 \in PWP!Copies(First)' /\ Len(stream) + 1 > read'
    BY <2>2, <2>3, <2>4 DEF PWP!Copies, PWP!Entries
  <2>6. step' # "seed"
    BY <1>4 DEF Draining
  <2>7. Owner' = "worker"
    BY DrainMoves
  <2>8. \A w \in Requests : status'[w] # "none" => w = First
    BY <2>6, <2>7 DEF Ties, TablesTied, Born
  <2> QED BY <2>5, <2>8 DEF PWP!NotForgotten, PWP!Open
<1>5. ASSUME Emptied PROVE status'[First] = "completed"
  <2>1. status[First] = "completed"
    BY <1>5 DEF PayoutDone
  <2>2. Cleared => status'[First] = status[First]
    BY DEF Cleared, tables
  <2> QED BY <1>1, <1>2, <2>1, <2>2, PayoutGiven, PWP!StatusMonotone DEF PWP!Terminal
<1>6. ASSUME ReadStreams PROVE status'[First] = "completed"
  <2>1. StreamsDrained /\ UNCHANGED System /\ step = "drain"
    BY <1>6 DEF ReadStreams, At
  <2>2. PWP!NotForgotten /\ PWP!Copies(First) # {}
    BY <2>1 DEF PayoutDone, Draining
  <2>3. \A i \in PWP!Copies(First) : ~(i > read) /\ i \notin pending
    BY <1>1, <2>1 DEF StreamsDrained, PWP!Copies, PWP!Entries, PWP!TypeOK, PWP!StreamOK
  <2>4. status[First] \notin PWP!Open
    BY <1>1, <2>2, <2>3 DEF PWP!NotForgotten
  <2>5. status[First] # "none" /\ status[First] # "failed"
    BY <1>1, <2>1 DEF Ties, TablesTied, Born, NothingFails
  <2>6. status[First] \in PWP!Status
    BY <1>1 DEF PWP!TypeOK, PWP!TablesOK
  <2>7. status[First] = "completed"
    BY <2>4, <2>5, <2>6 DEF PWP!Status, PWP!Open, PWP!Terminal
  <2> QED BY <2>1, <2>7 DEF System, payout, tables
<1>7. Draining' => /\ PWP!NotForgotten' /\ PWP!Copies(First)' # {}
  BY <1>3, <1>4, DrainMoves
<1>8. Emptied' => status'[First] = "completed"
  BY <1>5, <1>6, DrainMoves
<1> QED BY <1>7, <1>8

\* Nor is the deposit: once no entry is left it is credited.
LEMMA CreditDoneStep ==
    ASSUME Parts, Plan, Ties, CreditDone, [RunNext]_<<System, harness>>
    PROVE  CreditDone'
<1> SUFFICES ASSUME Owner = "processor"
             PROVE  /\ Draining' => DCP!AckedIsSettled' /\ DCP!Copies(OnlyDeposit)' # {}
                    /\ Emptied' => deposits' = {OnlyDeposit}
  BY DrainMoves DEF CreditDone
<1>1. DCP!Core /\ DCP!TypeOK
  BY DEF Parts, DCP!Core
<1>2. DCP!Next \/ UNCHANGED credit \/ (step = "reap" /\ Cleared)
  BY CreditMoves DEF Parts
<1>3. ASSUME Draining, Draining'
      PROVE  DCP!AckedIsSettled' /\ DCP!Copies(OnlyDeposit)' # {}
  <2>1. DCP!IInv /\ DCP!Copies(OnlyDeposit) # {}
    BY <1>1, <1>3 DEF CreditDone, DCP!IInv
  <2>2. CASE DCP!Next
    <3>1. DCP!AckedIsSettled'
      BY <2>1, <2>2, CreditGiven, DCP!KeepsAcked
    <3>2. DCP!Copies(OnlyDeposit)' # {}
      <4>1. PICK i \in DCP!Entries : delivered[i] = OnlyDeposit
        BY <2>1 DEF DCP!Copies
      <4>2. i \in DCP!Entries' /\ delivered'[i] = OnlyDeposit
        BY <1>1, <2>2, <4>1, CreditGiven, DCP!StreamGrows
      <4> QED BY <4>2 DEF DCP!Copies
    <3> QED BY <3>1, <3>2
  <2>3. CASE UNCHANGED credit
    <3>1. UNCHANGED <<deposits, dead, delivered, handed, unacked>>
      BY <2>3 DEF credit
    <3> QED BY <1>3, <3>1 DEF CreditDone, DCP!AckedIsSettled, DCP!Copies, DCP!Entries
  <2> QED BY <1>2, <1>3, <2>2, <2>3 DEF Draining
<1>4. ASSUME Feed, step = "redeliver"
      PROVE  DCP!AckedIsSettled' /\ DCP!Copies(OnlyDeposit)' # {}
  <2>1. DCP!Publish(OnlyDeposit)
    BY <1>4, SameCredit DEF Feed, Enqueue
  <2>2. delivered' = Append(delivered, OnlyDeposit) /\ handed' = handed
    BY <2>1 DEF DCP!Publish
  <2>3. delivered \in Seq({OnlyDeposit}) /\ handed \in 0..Len(delivered)
    BY <1>1 DEF DCP!TypeOK, DCP!StreamOK
  <2>4. Len(delivered') = Len(delivered) + 1 /\ delivered'[Len(delivered) + 1] = OnlyDeposit
    BY <2>2, <2>3
  <2>5. Len(delivered) + 1 \in DCP!Copies(OnlyDeposit)' /\ Len(delivered) + 1 > handed'
    BY <2>2, <2>3, <2>4 DEF DCP!Copies, DCP!Entries
  <2>6. \A s \in {OnlyDeposit} : s = OnlyDeposit
    OBVIOUS
  <2> QED BY <2>5, <2>6 DEF DCP!AckedIsSettled
<1>5. ASSUME Emptied PROVE deposits' = {OnlyDeposit}
  <2>1. deposits = {OnlyDeposit}
    BY <1>5 DEF CreditDone
  <2>2. deposits \subseteq deposits' \/ UNCHANGED deposits
    BY <1>2, CreditGiven, DCP!RecordsGrow DEF credit, Cleared
  <2>3. deposits' \subseteq {OnlyDeposit}
    <3>1. DCP!TypeOK'
      BY CreditSurvives DEF Parts, PWP!Core, DCP!Core
    <3> QED BY <3>1 DEF DCP!TypeOK, DCP!TablesOK
  <2> QED BY <2>1, <2>2, <2>3
<1>6. ASSUME ReadStreams PROVE deposits' = {OnlyDeposit}
  <2>1. StreamsDrained /\ UNCHANGED System /\ step = "drain"
    BY <1>6 DEF ReadStreams, At
  <2>2. DCP!AckedIsSettled /\ DCP!Copies(OnlyDeposit) # {}
    BY <2>1 DEF CreditDone, Draining
  <2>3. \A i \in DCP!Copies(OnlyDeposit) : ~(i > handed) /\ i \notin unacked
    BY <1>1, <2>1 DEF StreamsDrained, DCP!Copies, DCP!Entries, DCP!TypeOK, DCP!StreamOK
  <2>4. OnlyDeposit \in deposits \cup dead
    BY <2>2, <2>3 DEF DCP!AckedIsSettled
  <2>5. dead = {} /\ deposits \subseteq {OnlyDeposit}
    BY <1>1 DEF Ties, NothingDies, DCP!TypeOK, DCP!TablesOK
  <2>6. deposits' = deposits
    BY <2>1 DEF System, credit
  <2> QED BY <2>4, <2>5, <2>6
<1>7. Draining' => DCP!AckedIsSettled' /\ DCP!Copies(OnlyDeposit)' # {}
  BY <1>3, <1>4, DrainMoves
<1>8. Emptied' => deposits' = {OnlyDeposit}
  BY <1>5, <1>6, DrainMoves
<1> QED BY <1>7, <1>8

\* Nothing is drained at first.
LEMMA DoneInit == RunInit => PayoutDone /\ CreditDone
BY DEF RunInit, PayoutDone, CreditDone, Draining, Emptied

----------------------------------------------------------------------------
(* That an empty report is earned                                           *)

\* What an oracle that finds nothing has found.
LEMMA NoViolation ==
    ASSUME Violations = {}
    PROVE  /\ Conserved /\ AtMostOnce /\ ~OrphanLock /\ OB!Unsent = {} /\ aborted
           /\ Owner # "processor" => Rows = Expected
           /\ Owner = "processor" => Cardinality(deposits) = 1
           /\ Owner # "api" => drained
<1> DEFINE Kinds == {"conservation", "at_most_once", "no_stranded", "reconciler", "replay_safety",
                     "dedup", "drain", "closure"}
           Bad(v) == CASE v = "conservation" -> ~Conserved
                       [] v = "at_most_once" -> ~AtMostOnce
                       [] v = "no_stranded" -> OrphanLock \/ OB!Unsent # {}
                       [] v = "reconciler" -> ~Conserved \/ OrphanLock
                       [] v = "replay_safety" -> Owner # "processor" /\ Rows # Expected
                       [] v = "dedup" -> Owner = "processor" /\ Cardinality(deposits) # 1
                       [] v = "drain" -> Owner # "api" /\ ~drained
                       [] v = "closure" -> ~aborted
<1>1. Violations = {v \in Kinds : Bad(v)}
  BY DEF Violations
<1> HIDE DEF Kinds, Bad
<1>2. \A v \in Kinds : ~Bad(v)
  BY <1>1
<1>3. ~Bad("conservation") /\ ~Bad("at_most_once") /\ ~Bad("no_stranded") /\ ~Bad("replay_safety")
  BY <1>2 DEF Kinds
<1>4. ~Bad("dedup") /\ ~Bad("drain") /\ ~Bad("closure")
  BY <1>2 DEF Kinds
<1> QED BY <1>3, <1>4 DEF Bad

Earned ==
    /\ aborted
    /\ Owner = "worker" => status[First] = "completed" /\ sends[First] = 1
    /\ Owner = "processor" => order[OnlyOrder].status = "paid" /\ deposits = {OnlyDeposit}
    /\ Owner = "api" => applied = {} /\ available[Account] = Funds
    /\ Owner \in {"relay", "a2"} =>
         \E r \in Requests : /\ committed = {r} /\ sent = {r}
                             /\ r \in {stream[i] : i \in 1..Len(stream)}
                             /\ sends[r] <= 1

\* With no withdrawal the account is as it was.
LEMMA AccountUntouched ==
    ASSUME PWP!Core, Born = {}
    PROVE  available[Account] = Funds
<1>1. PWP!Of(Account, PWP!Open) = {} /\ PWP!Of(Account, {"completed"}) = {}
  BY DEF Born, PWP!Of, PWP!Open
<1>2. PWP!AmountOf({}) = 0
  <2>1. PWP!IsFiniteSet({}) /\ PWP!Cardinality({}) = 0
    <3>1. IsFiniteSet({}) /\ Cardinality({}) = 0
      BY FS_EmptySet
    <3>2. PWP!IsFiniteSet({})
      BY <3>1, Zenon DEF IsFiniteSet, PWP!IsFiniteSet
    <3> QED BY <3>1, <3>2, SameCounting
  <2>2. PWP!AmountOf({}) = 0 * PWP!Cardinality({})
    BY <2>1, PayoutGiven, PWP!AmountOfAlike
  <2> QED BY <2>1, <2>2
<1>3. /\ available[Account] \in Int /\ locked[Account] = 0
      /\ Funds = available[Account] + locked[Account] + 0
  BY <1>1, <1>2 DEF PWP!Core, PWP!TypeOK, PWP!TablesOK, PWP!LockedBacksOpen, PWP!Conservation
<1> QED BY <1>3

\* The rows an oracle counts are the withdrawals there are.
LEMMA BornOf ==
    ASSUME PWP!Core
    PROVE  /\ IsFiniteSet(Born) /\ Rows = Cardinality(Born)
           /\ Rows = 0 => Born = {}
           /\ Rows = 1 => \E r \in Requests : Born = {r}
<1>1. IsFiniteSet(Born)
  BY Zenon DEF PWP!Core, PWP!FewRows, IsFiniteSet, PWP!IsFiniteSet, Born
<1>2. Rows = Cardinality(Born)
  BY DEF Rows, Born
<1>3. Rows = 0 => Born = {}
  BY <1>1, <1>2, FS_EmptySet
<1>4. Rows = 1 => \E r : Born = {r}
  BY <1>1, <1>2, FS_Singleton
<1>5. Born \subseteq Requests
  BY DEF Born
<1> QED BY <1>1, <1>2, <1>3, <1>4, <1>5

\* Oracles that find nothing are asked about a run that has done its work.
LEMMA VerdictEarned ==
    ASSUME Parts, Plan, Ties, PayoutDone, CreditDone, step = "kill", Violations = {}
    PROVE  Earned
<1> USE NoViolation
<1>1. First \in Requests /\ PWP!Core /\ PWP!TypeOK
  BY PostsAssumption DEF Parts, PWP!Core
<1>2. CASE Owner = "worker"
  <2>1. status[First] = "completed"
    BY <1>2 DEF PayoutDone, Emptied
  <2> QED BY <1>1, <1>2, <2>1 DEF Earned, AtMostOnce
<1>3. CASE Owner = "processor"
  <2>1. deposits = {OnlyDeposit}
    BY <1>3 DEF CreditDone, Emptied
  <2>2. ~DCP!Overwritten(OnlyOrder)
    BY DEF DCP!Overwritten
  <2>3. order[OnlyOrder].status = "paid"
    BY <2>1, <2>2 DEF Parts, DCP!Core, DCP!PaidOrOverwritten
  <2> QED BY <1>3, <2>1, <2>3 DEF Earned
<1>4. CASE Owner = "api"
  <2>1. Born = {}
    BY <1>1, <1>4, BornOf DEF Expected
  <2>2. applied = {}
    <3>1. applied \subseteq Requests
      BY DEF Parts, APIP!IInv, APIP!TypeOK
    <3> QED BY <1>4, <2>1, <3>1 DEF Ties, TablesTied, TablesAgree, Born
  <2> QED BY <1>1, <1>4, <2>1, <2>2, AccountUntouched DEF Earned
<1>5. CASE Owner \in {"relay", "a2"}
  <2>1. PICK r \in Requests : Born = {r}
    BY <1>1, <1>5, BornOf DEF Expected
  <2>2. committed = {r}
    <3>1. CASE Owner = "relay"
      BY <2>1, <3>1 DEF Ties, TablesTied
    <3>2. CASE Owner = "a2"
      <4>1. committed \subseteq Requests
        BY DEF Parts, RelayTypes
      <4> QED BY <2>1, <3>2, <4>1 DEF Ties, TablesTied, TablesAgree, Born
    <3> QED BY <1>5, <3>1, <3>2
  <2>3. sent = {r}
    BY <2>2 DEF OB!Unsent, Parts, RelayTypes
  <2>4. r \in {stream[i] : i \in 1..Len(stream)} /\ sends[r] <= 1
    BY <2>3 DEF Ties, MarkedIsPublished, OBP!Published, AtMostOnce
  <2> QED BY <1>5, <2>2, <2>3, <2>4 DEF Earned
<1> QED BY <1>2, <1>3, <1>4, <1>5, CellFacts DEF Plan

\* When it is done a run stays as it is, but for the leases' time.
LEMMA DoneStays ==
    ASSUME Plan, [RunNext]_<<System, harness>>, step = "done"
    PROVE  /\ UNCHANGED harness
           /\ UNCHANGED <<handler, req, pc, applied, resp, relay, tables, worker, stream, faults,
                          credit>>
<1>1. up = {}
  BY DEF Plan, Crew
<1>2. ~Abort /\ ~Harness
  BY <1>1 DEF Abort, Harness, Seed, Bind, Feed, Send, Answered, ExpireLease, SeeAbort, GiveUpAbort,
     Reap, Restart, ReadStreams, ReadOutbox, GiveUpDrain, Kill, Verdict, At
<1>3. Serve => Tick /\ UNCHANGED <<credit, harness>>
  BY <1>1 DEF Serve, Runs
<1>4. Tick => UNCHANGED <<handler, req, pc, applied, resp, relay, tables, worker, stream, faults>>
  BY DEF Tick, API!Tick
<1>5. UNCHANGED System => UNCHANGED <<handler, req, pc, applied, resp, relay, tables, worker, stream,
                                     faults, credit>>
  BY DEF System, payout, spine
<1> QED BY <1>2, <1>3, <1>4, <1>5 DEF RunNext

\* A run is done by its verdict.
LEMMA DoneFrom ==
    ASSUME [RunNext]_<<System, harness>>, step # "done", step' = "done"
    PROVE  Verdict
<1>1. Seed \/ Bind \/ Feed \/ Send \/ Answered \/ ExpireLease => step' # "done"
  BY DEF Seed, Bind, Bound, Feed, Send, Answered, ExpireLease, At
<1>2. SeeAbort \/ GiveUpAbort \/ Reap \/ Restart \/ ReadStreams \/ ReadOutbox \/ GiveUpDrain
         => step' # "done"
  BY DEF SeeAbort, GiveUpAbort, AfterAwait, Reap, Restart, Bound, ReadStreams, ReadOutbox,
     GiveUpDrain, At
<1>3. Kill \/ Abort \/ Serve \/ UNCHANGED harness => step' = step
  BY DEF Kill, Abort, Serve, harness
<1> QED BY <1>1, <1>2, <1>3 DEF RunNext, Harness

\* A report without violations is earned when it is made, and after.
LEMMA EarnedStep ==
    ASSUME Parts, Plan, Ties, PayoutDone, CreditDone, PassIsEarned, [RunNext]_<<System, harness>>
    PROVE  PassIsEarned'
<1>1. PassIsEarned <=> (step = "done" /\ verdict = {} => Earned)
  BY DEF PassIsEarned, Earned
<1>2. PassIsEarned' <=> (step' = "done" /\ verdict' = {} => Earned')
  BY DEF PassIsEarned, Earned
<1>3. Earned /\ UNCHANGED <<aborted, cell, status, sends, order, deposits, applied, available,
                            committed, sent, stream>>
         => Earned'
  BY DEF Earned, Owner
<1>4. CASE step = "done"
  <2>1. UNCHANGED <<step, verdict, aborted, cell, status, sends, order, deposits, applied, available,
                    committed, sent, stream>>
    BY <1>4, DoneStays DEF harness, plan, relay, tables, worker, credit
  <2> QED BY <1>1, <1>2, <1>3, <2>1
<1>5. CASE Verdict
  <2>1. /\ step = "kill" /\ \E late \in SUBSET Overdue : verdict' = verdict \cup Violations \cup late
        /\ UNCHANGED <<aborted, cell, status, sends, order, deposits, applied, available,
                       committed, sent, stream>>
    BY <1>5 DEF Verdict, At, System, payout, spine, relay, tables, worker, credit
  <2>2. verdict' = {} => Violations = {}
    BY <2>1
  <2> QED BY <1>2, <1>3, <2>1, <2>2, VerdictEarned
<1> QED BY <1>2, <1>4, <1>5, DoneFrom

\* The inductive invariant of a run.
RunInv == Plan /\ Parts /\ Ties /\ PayoutDone /\ CreditDone

\* It is invariant.
LEMMA RunInvariance == RunSpec => []RunInv
<1>1. RunInit => RunInv
  BY PlanInit, PartsInit, TiesInit, DoneInit DEF RunInv
<1>2. RunInv /\ [RunNext]_<<System, harness>> => RunInv'
  <2> SUFFICES ASSUME RunInv, [RunNext]_<<System, harness>> PROVE RunInv'
    OBVIOUS
  <2>1. Plan'
    BY PlanStep DEF RunInv
  <2>2. Parts'
    BY <2>1, PartsStep DEF RunInv
  <2>3. Ties'
    BY TiesStep DEF RunInv
  <2>4. PayoutDone' /\ CreditDone'
    BY <2>3, PayoutDoneStep, CreditDoneStep DEF RunInv
  <2> QED BY <2>1, <2>2, <2>3, <2>4 DEF RunInv
<1> QED BY <1>1, <1>2, PTL DEF RunSpec

\* Whatever the harness kills, and when: a run that reports no violation had its
\* crash, and did the work it was about once; in a run with a relay the one row
\* that was accepted was published, and sent at most once (report.rs: "Empty ==
\* all five invariants held").
THEOREM EmptyReportIsEarned == RunSpec => []PassIsEarned
<1>1. RunInit => PassIsEarned
  BY DEF RunInit, PassIsEarned
<1>2. RunInv /\ PassIsEarned /\ [RunNext]_<<System, harness>> => PassIsEarned'
  BY EarnedStep DEF RunInv
<1> QED BY <1>1, <1>2, RunInvariance, PTL DEF RunSpec

----------------------------------------------------------------------------
(* That an alarm is real                                                    *)

\* What the signer has, it was sent; and what one consumer's sends need is
\* kept where there is one, the other workers not running.
Sends ==
    /\ \A r \in Requests : orphans[r] = 0 /\ (r \in signed => sends[r] >= 1)
    /\ \A k \in Workers \ Consumers(Workers) : at[k] = "claim"
    /\ Instances = 1 => PWP!SoleHolds

Over == {"done", "crashed"}

\* Where a request is no more, once it is at the armed crash point.
PastPoint ==
    CASE ApiPoints[cell.point] = "execute" -> {"complete", "commit"}
      [] ApiPoints[cell.point] = "complete" -> {"commit"}
      [] OTHER -> {}

\* The armed API does not come past its crash point, and when it is gone so are
\* its requests.
ApiRun ==
    Owner \in {"api", "a2"} =>
       /\ step = "restart" => Api \notin up
       /\ Api \notin up => \A r \in asked : pc[r] \in Over
       /\ armed = Api => \A r \in Requests : pc[r] \notin PastPoint
       /\ Owner = "api" \/ armed = Api \/ asked = {} => applied = {}
       /\ Owner = "api" /\ armed = None => \A r \in asked : pc[r] \in Over

\* The third post of the takeover run finds the lease expired, or the key
\* completed.
TheKey == KeyOf(First)
TheBody == req[First].fp
Third ==
    LET c == Posts[3] IN
    /\ pc[c] \in {"acquire", "decide", "takeover"} => row[TheKey].left = API!Expired
    /\ pc[c] = "decide" =>
          /\ rec[c].status # "absent" /\ rec[c].left = API!Expired /\ rec[c].fp = TheBody
          /\ rec[c].status = "in_progress" => row[TheKey].status = "in_progress"
    /\ pc[c] = "takeover" => row[TheKey].status = "in_progress"
    /\ pc[c] \in {"execute", "complete", "commit"} =>
          row[TheKey].status = "in_progress" /\ row[TheKey].owner = c
    /\ pc[c] \notin {"reread", "crashed"}
    /\ pc[c] = "done" => resp[c].kind = "ok"

\* Of the takeover run: every post is under the one key, with the one body,
OneKey ==
    Owner = "a2" =>
       /\ \A r \in Requests : KeyOf(r) = TheKey /\ req[r].fp = TheBody
       /\ row[TheKey].status # "absent" => row[TheKey].fp = TheBody

\* whose row is there once the first has come to its crash point, and nobody is
\* at work on it when the next is posted.
KeyHeld ==
    /\ row[TheKey].status # "absent"
    /\ \A r \in asked : pc[r] \in Over \/ (step = "answer" /\ r = Current)
    /\ step = "post" /\ asked = Posted(2) => row[TheKey].left = API!Expired
    /\ asked = Posted(3) => Third

TakeoverRun ==
    Owner = "a2" /\ ~gaveUp =>
       /\ armed = Api => \A r \in asked : pc[r] = "acquire" \/ row[TheKey].status # "absent"
       /\ armed = None /\ asked # {} => KeyHeld
       /\ "A2(b)" \notin verdict

\* What was published when the harness looked still is all there is.
OutboxDone == Owner \in {"relay", "a2"} /\ ~gaveUp /\ drained => OB!Unsent = {}

\* What an account has locked, or paid, in a status is so many times the amount.
LEMMA AmountIn ==
    ASSUME PWP!Core, NEW statuses, "none" \notin statuses
    PROVE  PWP!AmountOf(PWP!Of(Account, statuses))
              = Each * Cardinality({r \in Requests : status[r] \in statuses})
<1> DEFINE S == {r \in Requests : status[r] \in statuses}
<1>1. PWP!Of(Account, statuses) = S
  BY DEF PWP!Of
<1>2. PWP!IsFiniteSet(S)
  <2>1. IsFiniteSet({r \in Requests : status[r] # "none"})
    BY Zenon DEF PWP!Core, PWP!FewRows, IsFiniteSet, PWP!IsFiniteSet
  <2>2. S \subseteq {r \in Requests : status[r] # "none"}
    OBVIOUS
  <2>3. IsFiniteSet(S)
    BY <2>1, <2>2, FS_Subset
  <2> HIDE DEF S
  <2> QED BY <2>3, Zenon DEF IsFiniteSet, PWP!IsFiniteSet
<1>3. PWP!AmountOf(S) = Each * PWP!Cardinality(S)
  <2>1. S \in SUBSET Requests /\ \A r \in S : Amount[r] = Each
    BY PostsAssumption
  <2> HIDE DEF S
  <2> QED BY <1>2, <2>1, PostsAssumption, PayoutGiven, PWP!AmountOfAlike
<1> QED BY <1>1, <1>3, SameCounting

\* The oracles about money never speak up.
LEMMA MoneyIsRight ==
    ASSUME Parts
    PROVE  Conserved /\ ~OrphanLock
<1>1. PWP!Core
  BY DEF Parts
<1>2. locked[Account] = Due
  <2>1. locked[Account] = PWP!AmountOf(PWP!Of(Account, PWP!Open))
    BY <1>1 DEF PWP!Core, PWP!LockedBacksOpen
  <2>2. "none" \notin PWP!Open /\ PWP!Open = PW!Open
    BY DEF PWP!Open, PW!Open
  <2> QED BY <1>1, <2>1, <2>2, AmountIn DEF Due
<1>3. Funds = available[Account] + locked[Account] + PaidOut
  <2>1. Funds = available[Account] + locked[Account]
                  + PWP!AmountOf(PWP!Of(Account, {"completed"}))
    BY <1>1 DEF PWP!Core, PWP!Conservation
  <2>2. {r \in Requests : status[r] \in {"completed"}} = {r \in Requests : status[r] = "completed"}
    OBVIOUS
  <2>3. PWP!AmountOf(PWP!Of(Account, {"completed"})) = PaidOut
    BY <1>1, <2>2, AmountIn DEF PaidOut
  <2> QED BY <2>1, <2>3
<1>4. DC!BalanceIsDeposits
  BY SameCredit DEF Parts, DCP!Core
<1>5. locked[Account] \in Int
  BY <1>1 DEF PWP!Core, PWP!TypeOK, PWP!TablesOK
<1> QED BY <1>2, <1>3, <1>4, <1>5 DEF Conserved, OrphanLock

\* No send is made before the run begins,
LEMMA SendsInit == RunInit => Sends
BY SameInit, PayoutGiven, PWP!SoleInit DEF RunInit, PW!Init, Sends

\* and none is made that its worker did not make.
LEMMA SendsStep ==
    ASSUME Parts, Plan, Sends, [RunNext]_<<System, harness>>
    PROVE  Sends'
<1>1. PWP!Core /\ PWP!TypeOK
  BY DEF Parts, PWP!Core
<1>2. cell' = cell
  BY SeedOnce
<1>3. Instances' = Instances /\ Consumers(Workers)' = Consumers(Workers)
  BY <1>2, SameCell DEF Instances
<1>4. ASSUME NEW r \in Requests PROVE orphans'[r] = 0 /\ (r \in signed' => sends'[r] >= 1)
  <2>1. sends \in [Requests -> Nat] /\ \A w \in Requests : orphans[w] = 0
    BY <1>1 DEF PWP!TypeOK, PWP!SignerOK, Sends
  <2>2. PWP!Step => orphans'[r] = 0 /\ (r \in signed' => sends'[r] >= 1)
    <3> SUFFICES ASSUME PWP!Step PROVE orphans'[r] = 0 /\ (r \in signed' => sends'[r] >= 1)
      OBVIOUS
    <3>1. CASE UNCHANGED <<signed, sends, orphans>>
      BY <3>1 DEF Sends
    <3>2. ASSUME NEW w, PWP!Perform(w) PROVE orphans'[r] = 0 /\ (r \in signed' => sends'[r] >= 1)
      BY <2>1, <3>2 DEF PWP!Perform, Sends
    <3> QED BY <1>1, <2>1, <3>1, <3>2, PayoutGiven, PWP!SendStep
  <2>3. Cleared => orphans'[r] = 0 /\ (r \in signed' => sends'[r] >= 1)
    BY DEF Cleared, worker, Sends
  <2> QED BY <2>2, <2>3, PayoutMoves DEF Parts
<1>5. ASSUME NEW j \in Workers \ Consumers(Workers) PROVE at'[j] = "claim"
  <2>1. DOMAIN at = Workers
    BY <1>1 DEF PWP!TypeOK, PWP!WorkersOK
  <2>2. at[j] = "claim"
    BY <1>5 DEF Sends
  <2>3. ASSUME NEW k \in Workers, PW!Work(k), Runs(k) PROVE at'[j] = "claim"
    <3>1. k \in Consumers(Workers)
      BY <2>3 DEF Plan, Crew, Runs
    <3>2. PICK s : PW!Goto(k, s)
      BY <2>3, WorkerGoes
    <3> QED BY <1>5, <2>1, <2>2, <3>1, <3>2 DEF PW!Goto
  <2>4. ASSUME NEW k \in Workers, PW!Crash(k) PROVE at'[j] = "claim"
    <3>1. PW!Goto(k, "claim")
      BY <2>4, WorkerGoes
    <3> QED BY <2>1, <2>2, <3>1 DEF PW!Goto
  <2> QED BY <2>2, <2>3, <2>4, WorkersMove DEF Parts
<1>6. ASSUME Instances = 1 PROVE PWP!SoleHolds'
  <2>1. PWP!SoleHolds
    BY <1>6 DEF Sends
  <2>2. PWP!OneBusy
    <3>1. Consumers(Workers) = {Leader(Workers)}
      BY <1>6 DEF Consumers
    <3>2. \A k \in Workers : PWP!Working(k) => k = Leader(Workers)
      BY <3>1 DEF Sends, PWP!Working
    <3> QED BY <3>2 DEF PWP!OneBusy
  <2>3. PWP!Step => PWP!SoleHolds'
    BY <1>1, <2>1, <2>2, PayoutGiven, PWP!KeepsSole
  <2>4. Cleared => PWP!SoleHolds'
    BY <2>1 DEF Cleared, worker, tables, PWP!SoleHolds, PWP!Payout, PWP!Current
  <2> QED BY <2>3, <2>4, PayoutMoves DEF Parts
<1> QED BY <1>3, <1>4, <1>5, <1>6 DEF Sends

\* A withdrawal sent other than once is one sent twice, by two consumers.
LEMMA SentTwice ==
    ASSUME Parts, Plan, Sends
    PROVE  /\ AtMostOnce \/ DoubleSend
           /\ DoubleSend => Instances = 2
<1>1. PWP!TypeOK /\ PWP!CompletedWasSent
  BY DEF Parts, PWP!Core
<1>2. \A r \in Requests : sends[r] \in Nat
  BY <1>1 DEF PWP!TypeOK, PWP!SignerOK
<1>3. Instances = 1 \/ Instances = 2
  BY DEF Instances
<1>4. AtMostOnce \/ DoubleSend
  BY <1>1, <1>2 DEF AtMostOnce, DoubleSend, Sends, PWP!CompletedWasSent
<1>5. DoubleSend => Instances = 2
  <2>1. Instances = 1 => \A r \in Requests : sends[r] = IF r \in signed THEN 1 ELSE 0
    BY DEF Sends, PWP!SoleHolds
  <2> QED BY <1>3, <2>1 DEF DoubleSend
<1> QED BY <1>4, <1>5

\* What a post may do next, wherever it is.
LEMMA PostMoves ==
    ASSUME APIP!TypeOK, NEW r \in Requests, Precheck(r) \/ SpineStep(r) \/ Execute(r) \/ Accept(r)
    PROVE  /\ req' = req /\ pc[r] \notin Over
           /\ \/ UNCHANGED pc
              \/ \E s : /\ pc' = [pc EXCEPT ![r] = s]
                        /\ s = "complete" => pc[r] = "execute"
                        /\ s = "commit" => pc[r] = "complete"
           /\ pc[r] = "commit" \/ applied' = applied
<1>1. CASE Precheck(r)
  BY <1>1 DEF Precheck, Arrived, Pass, spine, Over
<1>2. CASE API!AcquireFresh(r) \/ API!AcquireExisting(r) \/ API!RunEffect(r)
  BY <1>2 DEF API!AcquireFresh, API!AcquireExisting, API!RunEffect, API!Goto, Over
<1>3. CASE \/ API!DecideReplay(r) \/ API!DecideConflict(r) \/ API!DecideRetryAfter(r)
           \/ API!DecideTakeover(r)
  BY <1>3 DEF API!DecideReplay, API!DecideConflict, API!DecideRetryAfter, API!DecideTakeover,
     API!Goto, API!Answer, Over
<1>4. CASE \/ API!TakeoverWon(r) \/ API!TakeoverLost(r) \/ API!CompleteWon(r)
           \/ API!CompleteLost(r) \/ API!Reread(r)
  BY <1>4 DEF API!TakeoverWon, API!TakeoverLost, API!CompleteWon, API!CompleteLost, API!Reread,
     API!Goto, API!Answer, Over
<1>5. CASE API!Commit(r)
  <2>1. pc[r] = "commit" /\ req' = req /\ pc' = [pc EXCEPT ![r] = "done"]
    BY <1>5 DEF API!Commit, API!Goto, API!Answer
  <2>2. \E s : pc' = [pc EXCEPT ![r] = s] /\ s = "done"
    BY <2>1
  <2> QED BY <2>1, <2>2 DEF Over
<1>6. \/ Precheck(r) \/ API!AcquireFresh(r) \/ API!AcquireExisting(r) \/ API!RunEffect(r)
      \/ API!DecideReplay(r) \/ API!DecideConflict(r) \/ API!DecideRetryAfter(r)
      \/ API!DecideTakeover(r) \/ API!TakeoverWon(r) \/ API!TakeoverLost(r) \/ API!CompleteWon(r)
      \/ API!CompleteLost(r) \/ API!Reread(r) \/ API!Commit(r)
  BY DEF SpineStep, Execute, Accept
<1> QED BY <1>1, <1>2, <1>3, <1>4, <1>5, <1>6

\* A row that is there stays there, under the fingerprint it was made with.
LEMMA PostRows ==
    ASSUME APIP!IInv, NEW r \in Requests, NEW k \in Keys,
           Precheck(r) \/ SpineStep(r) \/ Execute(r) \/ Accept(r)
    PROVE  /\ row[k].status # "absent" => row'[k].status # "absent" /\ row'[k].fp = row[k].fp
           /\ row[k].status = "absent" /\ row'[k].status # "absent" => row'[k].fp = req[r].fp
           /\ pc[r] = "acquire" => pc'[r] = "acquire" \/ row'[KeyOf(r)].status # "absent"
<1>1. /\ row \in [Keys -> APIP!Row] /\ KeyOf(r) \in Keys /\ API!Key(r) = KeyOf(r)
      /\ DOMAIN pc = Requests
  BY DEF APIP!IInv, APIP!TypeOK, KeyOf, API!Key
<1>2. \A j \in Keys : DOMAIN row[j] = {"status", "fp", "left", "owner", "snap"}
  BY <1>1 DEF APIP!Row
<1>3. CASE API!AcquireFresh(r)
  <2>1. PICK t \in API!TimeLeft :
           row' = [row EXCEPT ![KeyOf(r)] =
                     [status |-> "in_progress", fp |-> req[r].fp, left |-> t,
                      owner |-> r, snap |-> None]]
    BY <1>1, <1>3 DEF API!AcquireFresh
  <2>2. row[KeyOf(r)].status = "absent"
    BY <1>1, <1>3 DEF API!AcquireFresh
  <2>3. row'[KeyOf(r)].status = "in_progress" /\ row'[KeyOf(r)].fp = req[r].fp
    BY <1>1, <2>1
  <2>4. k # KeyOf(r) => row'[k] = row[k]
    BY <1>1, <2>1
  <2> QED BY <2>2, <2>3, <2>4
<1>4. ASSUME row' = row, pc[r] = "acquire" => pc'[r] = "acquire" \/ row[KeyOf(r)].status # "absent"
      PROVE  /\ row[k].status # "absent" => row'[k].status # "absent" /\ row'[k].fp = row[k].fp
             /\ row[k].status = "absent" /\ row'[k].status # "absent" => row'[k].fp = req[r].fp
             /\ pc[r] = "acquire" => pc'[r] = "acquire" \/ row'[KeyOf(r)].status # "absent"
  BY <1>4
<1>5. CASE API!TakeoverWon(r)
  <2>1. PICK t \in API!TimeLeft :
           row' = [row EXCEPT ![KeyOf(r)] = [row[KeyOf(r)] EXCEPT !.left = t, !.owner = r]]
    BY <1>1, <1>5 DEF API!TakeoverWon
  <2>2. /\ row'[KeyOf(r)].status = row[KeyOf(r)].status /\ row'[KeyOf(r)].fp = row[KeyOf(r)].fp
        /\ k # KeyOf(r) => row'[k] = row[k]
    BY <1>1, <1>2, <2>1
  <2>3. pc[r] # "acquire"
    BY <1>5 DEF API!TakeoverWon
  <2> QED BY <2>2, <2>3
<1>6. CASE API!Commit(r)
  <2>1. row' = [row EXCEPT ![KeyOf(r)] = [row[KeyOf(r)] EXCEPT !.status = "completed",
                                             !.left = API!Expired, !.snap = r]]
    BY <1>1, <1>6 DEF API!Commit, API!CommitTx
  <2>2. /\ row'[KeyOf(r)].status = "completed" /\ row'[KeyOf(r)].fp = row[KeyOf(r)].fp
        /\ k # KeyOf(r) => row'[k] = row[k]
    BY <1>1, <1>2, <2>1
  <2>3. pc[r] # "acquire"
    BY <1>6 DEF API!Commit
  <2>4. row[KeyOf(r)].status # "absent"
    BY <1>1, <1>6 DEF APIP!IInv, APIP!CompletionHoldsLease, APIP!StillOwns, APIP!Key, API!Commit, KeyOf
  <2> QED BY <2>2, <2>3, <2>4
<1>7. CASE Precheck(r) \/ Execute(r)
  BY <1>4, <1>7 DEF Precheck, Pass, Execute, API!RunEffect, spine
<1>8. CASE API!AcquireExisting(r)
  BY <1>1, <1>4, <1>8 DEF API!AcquireExisting
<1>9. CASE \/ API!DecideReplay(r) \/ API!DecideConflict(r) \/ API!DecideRetryAfter(r)
           \/ API!DecideTakeover(r) \/ API!TakeoverLost(r) \/ API!CompleteWon(r)
           \/ API!CompleteLost(r) \/ API!Reread(r)
  BY <1>4, <1>9 DEF API!DecideReplay, API!DecideConflict, API!DecideRetryAfter, API!DecideTakeover,
     API!TakeoverLost, API!CompleteWon, API!CompleteLost, API!Reread
<1> QED BY <1>3, <1>5, <1>6, <1>7, <1>8, <1>9 DEF SpineStep, Accept

\* What the API and its requests keep to holds at first.
LEMMA ApiRunInit == RunInit => ApiRun /\ OneKey /\ TakeoverRun /\ OutboxDone
<1> SUFFICES ASSUME RunInit PROVE ApiRun /\ OneKey /\ TakeoverRun /\ OutboxDone
  OBVIOUS
<1>1. ApiRun
  BY DEF RunInit, API!Init, ApiRun, PastPoint
<1>2. ASSUME Owner = "a2", NEW r \in Requests PROVE KeyOf(r) = TheKey /\ req[r].fp = TheBody
  BY <1>2, PostsAssumption DEF RunInit, AsPosted, TheKey, TheBody
<1>3. TheKey \in Keys
  BY PostsAssumption DEF RunInit, API!Init, TheKey, TheBody, KeyOf
<1>4. row[TheKey].status = "absent"
  BY <1>3 DEF RunInit, API!Init, API!AbsentRow
<1>5. drained = FALSE /\ verdict = {} /\ asked = {}
  BY DEF RunInit
<1> QED BY <1>1, <1>2, <1>4, <1>5 DEF OneKey, TakeoverRun, OutboxDone

\* What serving is to the spine, and what the harness is.
LEMMA SpineServed ==
    ASSUME Serve
    PROVE  /\ UNCHANGED harness
           /\ \/ UNCHANGED spine
              \/ /\ Runs(Api)
                 /\ \E r \in asked : Precheck(r) \/ SpineStep(r) \/ Execute(r) \/ Accept(r)
              \/ Tick
BY DEF Serve, WorkerStep, RelayStep, payout

\* The harness takes no step of the spine's: it cuts requests off, and lets a
\* lease expire.
LEMMA SpineLeft ==
    ASSUME Plan, Unasked, APIP!TypeOK, Abort \/ Harness
    PROVE  /\ UNCHANGED <<req, rec, applied, resp>>
           /\ \A r \in Requests : /\ pc'[r] = pc[r] \/ pc'[r] = "crashed"
                                  /\ pc[r] = "done" => pc'[r] = "done"
           /\ row' = row \/ ExpireLease
<1>0. DOMAIN pc = Requests
  BY DEF APIP!TypeOK
<1>1. ASSUME NEW k \in up, Ends(k)
      PROVE  /\ UNCHANGED <<req, row, rec, applied, resp>>
             /\ UNCHANGED pc \/ CutOff({r \in asked : pc[r] # "done"})
  BY <1>1 DEF Ends, spine, payout
<1>2. Abort \/ GiveUpAbort \/ Kill => \E k \in up : Ends(k)
  BY DEF Abort, GiveUpAbort, Kill
<1>3. Seed \/ Bind \/ Feed \/ SeeAbort \/ Reap \/ Restart \/ ReadStreams \/ ReadOutbox \/ GiveUpDrain
        \/ Verdict => UNCHANGED spine
  <2>1. Seed \/ Feed \/ Reap => UNCHANGED spine
    BY DEF Seed, Feed, Enqueue, Reap, System, payout
  <2>2. UNCHANGED System => UNCHANGED spine
    BY DEF System, payout
  <2> QED BY <2>1, <2>2 DEF Bind, SeeAbort, Restart, ReadStreams, ReadOutbox, GiveUpDrain, Verdict
<1>4. ASSUME Send
      PROVE  /\ UNCHANGED <<req, row, rec, applied, resp>>
             /\ \E R \in SUBSET Requests : CutOff(R) /\ \A r \in R : pc[r] # "done"
  <2>1. step = "post" /\ Unasked
    BY <1>4 DEF Send, At
  <2>2. PICK n \in 0..3 : asked = Posted(n) /\ Turn(n)
    BY DEF Plan
  <2>3. n \in 0..2
    BY <2>1, <2>2 DEF Turn
  <2> DEFINE r == Posts[n + 1]
  <2>4. Cardinality(asked) = n /\ r \in Requests \ asked
    BY <2>2, <2>3, PostedCount
  <2>5. CutOff({}) \/ CutOff({r})
    BY <1>4, <2>4 DEF Send
  <2>6. {} \in SUBSET Requests /\ {r} \in SUBSET Requests /\ pc[r] = "acquire"
    BY <2>4 DEF Unasked
  <2> QED BY <1>4, <2>5, <2>6 DEF Send
<1>5. ASSUME Answered
      PROVE  /\ UNCHANGED <<req, row, rec, applied, resp>>
             /\ UNCHANGED pc \/ (CutOff({Current}) /\ pc[Current] # "done")
  BY <1>5 DEF Answered
<1>6. ExpireLease => UNCHANGED <<req, pc, rec, applied, resp>>
  BY DEF ExpireLease
<1>7. UNCHANGED pc => \A r \in Requests : /\ pc'[r] = pc[r] \/ pc'[r] = "crashed"
                                          /\ pc[r] = "done" => pc'[r] = "done"
  OBVIOUS
<1>8. ASSUME NEW R, CutOff(R), \A r \in R : pc[r] # "done"
      PROVE  \A r \in Requests : /\ pc'[r] = pc[r] \/ pc'[r] = "crashed"
                                 /\ pc[r] = "done" => pc'[r] = "done"
  BY <1>8 DEF CutOff
<1>9. ASSUME NEW k \in up, Ends(k)
      PROVE  /\ UNCHANGED <<req, row, rec, applied, resp>>
             /\ \A r \in Requests : /\ pc'[r] = pc[r] \/ pc'[r] = "crashed"
                                    /\ pc[r] = "done" => pc'[r] = "done"
  BY <1>1, <1>7, <1>8, <1>9
<1>10. CASE Abort \/ GiveUpAbort \/ Kill
  BY <1>2, <1>9, <1>10
<1>11. CASE UNCHANGED spine
  BY <1>7, <1>11 DEF spine
<1>12. CASE Send
  BY <1>4, <1>8, <1>12
<1>13. CASE Answered
  <2>1. CASE UNCHANGED pc
    BY <1>5, <1>7, <1>13, <2>1
  <2>2. CASE CutOff({Current}) /\ pc[Current] # "done"
    BY <1>5, <1>8, <1>13, <2>2
  <2> QED BY <1>5, <1>13, <2>1, <2>2
<1>14. CASE ExpireLease
  BY <1>6, <1>7, <1>14
<1> QED BY <1>3, <1>10, <1>11, <1>12, <1>13, <1>14 DEF Harness

\* An API that ends leaves no request behind.
LEMMA ApiEnds ==
    ASSUME APIP!TypeOK, Plan, Ends(Api)
    PROVE  \A r \in asked : pc'[r] \in Over
<1>1. CutOff({r \in asked : pc[r] # "done"})
  BY ProcessAssumption DEF Ends
<1>2. asked \subseteq Requests
  BY PostedCount DEF Plan
<1> QED BY <1>1, <1>2 DEF CutOff, Over

\* A serving API stops short of its armed crash point.
LEMMA ApiRunServe ==
    ASSUME Parts, Plan, ApiRun, Serve
    PROVE  ApiRun'
<1> SUFFICES ASSUME Owner \in {"api", "a2"} PROVE ApiRun'
  BY SameCell DEF ApiRun, Serve, harness, plan
<1>1. UNCHANGED <<cell, step, up, armed, asked>>
  BY DEF Serve, harness, plan
<1>2. Owner' = Owner /\ PastPoint' = PastPoint
  BY <1>1 DEF Owner, PastPoint
<1>3. CASE UNCHANGED <<pc, applied>>
  BY <1>1, <1>2, <1>3 DEF ApiRun
<1>4. ASSUME Runs(Api), NEW r \in asked, Precheck(r) \/ SpineStep(r) \/ Execute(r) \/ Accept(r)
      PROVE  ApiRun'
  <2>1. APIP!TypeOK /\ r \in Requests /\ DOMAIN pc = Requests
    BY PostedCount DEF Parts, APIP!IInv, APIP!TypeOK, Plan
  <2>2. Api \in up /\ pc[r] \notin Over
    BY <1>4, <2>1, PostMoves DEF Runs
  <2>3. PICK n \in 0..3 : asked = Posted(n) /\ Turn(n)
    BY DEF Plan
  <2>4. armed = Api \/ armed = None
    BY <2>2, <2>3 DEF Turn, Plan, Crew
  <2>5. CASE armed = Api
    <3>1. pc[r] # ApiPoints[cell.point] /\ pc[r] \notin PastPoint
      BY <1>4, <2>1, <2>5, ProcessAssumption DEF Runs, Fires, AtPoint, ApiRun
    <3>2. ApiPoints[cell.point] \in {"execute", "complete", "commit"}
      <4>1. cell.point \in DOMAIN ApiPoints
        BY CellFacts DEF Plan
      <4> QED BY <4>1 DEF ApiPoints
    <3>3. pc[r] # "commit"
      BY <3>1, <3>2 DEF PastPoint
    <3>4. applied' = applied
      BY <1>4, <2>1, <3>3, PostMoves
    <3>5. \A q \in Requests : pc'[q] \notin PastPoint
      <4>1. CASE UNCHANGED pc
        BY <2>5, <4>1 DEF ApiRun
      <4>2. ASSUME NEW s, pc' = [pc EXCEPT ![r] = s], s = "complete" => pc[r] = "execute",
                   s = "commit" => pc[r] = "complete"
            PROVE  \A q \in Requests : pc'[q] \notin PastPoint
        <5>1. s \notin PastPoint
          BY <3>1, <3>2, <4>2 DEF PastPoint
        <5> QED BY <2>1, <2>5, <4>2, <5>1 DEF ApiRun
      <4> QED BY <1>4, <2>1, <4>1, <4>2, PostMoves
    <3> QED BY <1>1, <1>2, <2>2, <2>5, <3>4, <3>5, ProcessAssumption DEF ApiRun
  <2>6. CASE armed = None
    <3>1. Owner # "api"
      BY <1>4, <2>2, <2>6 DEF ApiRun
    <3>2. armed # Api
      BY <2>6, ProcessAssumption
    <3> QED BY <1>1, <1>2, <1>4, <2>2, <3>1, <3>2 DEF ApiRun
  <2> QED BY <2>4, <2>5, <2>6
<1>5. Tick => UNCHANGED <<pc, applied>>
  BY DEF Tick, API!Tick
<1>6. UNCHANGED spine => UNCHANGED <<pc, applied>>
  BY DEF spine
<1> QED BY <1>3, <1>4, <1>5, <1>6, SpineServed

\* The harness ends the API with its requests, before it starts it anew.
LEMMA ApiRunHarness ==
    ASSUME Parts, Plan, Plan', ApiRun, Abort \/ Harness
    PROVE  ApiRun'
<1>1. APIP!TypeOK /\ Unasked
  BY DEF Parts, APIP!IInv
<1>2. /\ applied' = applied
      /\ \A r \in Requests : /\ pc'[r] = pc[r] \/ pc'[r] = "crashed"
                             /\ pc[r] = "done" => pc'[r] = "done"
  BY <1>1, SpineLeft
<1>3. cell' = cell
  BY SeedOnce DEF RunNext
<1>4. Owner' = Owner /\ PastPoint' = PastPoint
  BY <1>3 DEF Owner, PastPoint
<1> SUFFICES ASSUME Owner \in {"api", "a2"} PROVE ApiRun'
  BY <1>4 DEF ApiRun
<1>5. PICK n \in 0..3 : asked = Posted(n) /\ Turn(n)
  BY DEF Plan
<1>6. asked \subseteq Requests /\ Posted(0) = {}
  BY <1>5, PostedCount
<1>7. \A r \in Requests : pc[r] \notin PastPoint => pc'[r] \notin PastPoint
  BY <1>2 DEF PastPoint
<1>8. \A r \in Requests : pc[r] \in Over => pc'[r] \in Over
  BY <1>2 DEF Over
<1>9. None \notin up /\ Api # None
  BY ProcessAssumption DEF Plan, Crew
<1> DEFINE Settled == \A r \in asked : pc'[r] \in Over
\* The harness has not armed or disarmed anything, nor posted.
<1>10. ASSUME armed' = armed, asked' = asked, step' = "restart" => step = "restart",
              Api \in up' => Api \in up \/ step' # "restart",
              Api \notin up' => Api \notin up \/ Settled
       PROVE  ApiRun'
  <2>1. \A r \in asked : pc[r] \in Over => pc'[r] \in Over
    BY <1>6, <1>8
  <2> QED BY <1>2, <1>4, <1>7, <1>10, <2>1 DEF ApiRun
<1>11. CASE Seed
  <2>1. n = 0 /\ armed' = Api /\ up' = {Api} /\ asked' = asked /\ step' # "restart"
    BY <1>5, <1>11 DEF Seed, At, Turn
  <2>2. asked = {} /\ applied = {} /\ \A r \in Requests : pc[r] = "acquire"
    BY <1>1, <1>5, <1>6, <2>1 DEF ApiRun, Unasked
  <2>3. \A r \in Requests : pc[r] \notin PastPoint
    BY <2>2 DEF PastPoint
  <2> QED BY <1>2, <1>4, <1>7, <1>9, <2>1, <2>2, <2>3 DEF ApiRun
<1>12. CASE Abort
  <2>1. armed \in up /\ Ends(armed) /\ up' = up \ {armed} /\ UNCHANGED <<armed, asked, step>>
    BY <1>12 DEF Abort, plan
  <2>2. armed = Api
    BY <1>5, <1>9, <2>1 DEF Turn, Plan, Crew
  <2>3. Settled
    BY <1>1, <2>1, <2>2, ApiEnds
  <2> QED BY <1>10, <2>1, <2>3
<1>13. CASE Bind
  <2>1. n = 0 /\ UNCHANGED <<armed, asked>> /\ step' # "restart"
    BY <1>5, <1>13 DEF Bind, Bound, Turn, plan
  <2> QED BY <1>5, <1>6, <1>10, <2>1
<1>14. CASE Send
  <2>1. /\ step = "post" /\ step' = "answer" /\ UNCHANGED <<up, armed>>
        /\ asked' = asked \cup {Posts[n + 1]} /\ n \in 0..2
        /\ CutOff(IF Api \in up THEN {} ELSE {Posts[n + 1]})
    <3>1. step = "post" /\ n \in 0..2
      BY <1>5, <1>14 DEF Send, At, Turn
    <3>2. Cardinality(asked) = n
      BY <1>5, PostedCount
    <3> QED BY <1>14, <3>1, <3>2 DEF Send, At
  <2>2. Posts[n + 1] \in Requests
    BY <2>1, PostedCount
  <2>3. Api \notin up => pc'[Posts[n + 1]] = "crashed"
    BY <2>1, <2>2 DEF CutOff
  <2>4. Api \notin up' => \A r \in asked' : pc'[r] \in Over
    BY <1>6, <1>8, <2>1, <2>3 DEF ApiRun, Over
  <2>5. Owner = "api" => armed = Api
    BY <1>5, <2>1 DEF Turn
  <2>6. asked' # {}
    BY <2>1
  <2> QED BY <1>2, <1>4, <1>7, <1>9, <2>1, <2>4, <2>5, <2>6 DEF ApiRun
<1>15. CASE Answered \/ ExpireLease
  <2>1. UNCHANGED <<armed, asked, up>> /\ step' # "restart"
    BY <1>15 DEF Answered, ExpireLease, At
  <2> QED BY <1>10, <2>1
<1>16. CASE SeeAbort \/ GiveUpAbort
  <2>1. step = "await" /\ armed' = None /\ asked' = asked
    BY <1>16 DEF SeeAbort, GiveUpAbort, At
  <2>2. armed = Api
    BY <1>5, <2>1 DEF Turn
  <2>3. Api \notin up' /\ Settled
    <3>1. CASE SeeAbort
      <4>1. Api \notin up /\ up' = up
        BY <2>2, <3>1 DEF SeeAbort
      <4> QED BY <1>6, <1>8, <4>1 DEF ApiRun
    <3>2. CASE GiveUpAbort
      BY <1>1, <2>2, <3>2, ApiEnds DEF GiveUpAbort
    <3> QED BY <1>16, <3>1, <3>2
  <2>4. applied = {}
    BY <2>2 DEF ApiRun
  <2> QED BY <1>2, <1>4, <1>9, <2>1, <2>3, <2>4 DEF ApiRun
<1>17. CASE Restart
  <2>1. step = "restart" /\ UNCHANGED <<armed, asked>> /\ step' # "restart"
    BY <1>17 DEF Restart, Bound
  <2>2. Api \notin up
    BY <2>1 DEF ApiRun
  <2> QED BY <1>10, <2>1, <2>2
<1>18. CASE ReadStreams \/ ReadOutbox \/ GiveUpDrain \/ Verdict
  <2>1. UNCHANGED <<armed, asked, up>> /\ step' # "restart"
    BY <1>18 DEF ReadStreams, ReadOutbox, GiveUpDrain, Verdict, At, plan
  <2> QED BY <1>10, <2>1
<1>19. CASE Kill
  <2>1. PICK k \in up : Ends(k) /\ up' = up \ {k}
    BY <1>19 DEF Kill
  <2>2. UNCHANGED <<armed, asked, step>> /\ step = "kill"
    BY <1>19 DEF Kill, plan
  <2>3. k = Api => Settled
    BY <1>1, <2>1, ApiEnds
  <2> QED BY <1>10, <2>1, <2>2, <2>3
<1>20. ~Feed /\ ~Reap
  BY DEF Feed, Enqueue, Reap
<1> QED BY <1>11, <1>12, <1>13, <1>14, <1>15, <1>16, <1>17, <1>18, <1>19, <1>20 DEF Harness

\* Together: the armed API does not come past its crash point.
LEMMA ApiRunStep ==
    ASSUME Parts, Plan, Plan', ApiRun, [RunNext]_<<System, harness>>
    PROVE  ApiRun'
<1>1. UNCHANGED <<System, harness>> => ApiRun'
  BY DEF System, harness, payout, spine, plan, ApiRun, Owner, PastPoint
<1> QED BY <1>1, ApiRunServe, ApiRunHarness DEF RunNext

\* The third post goes by acquire, decide and takeover to its commit, whatever
\* the time: nobody else holds the key.
LEMMA ThirdServed ==
    ASSUME APIP!TypeOK, \A r \in Requests : KeyOf(r) = TheKey /\ req[r].fp = TheBody,
           row[TheKey].status # "absent", row[TheKey].fp = TheBody, Third,
           \/ Precheck(Posts[3]) \/ SpineStep(Posts[3]) \/ Execute(Posts[3]) \/ Accept(Posts[3])
    PROVE  Third'
<1> DEFINE c == Posts[3]
           k == TheKey
<1>1. /\ c \in Requests /\ k \in Keys /\ API!Key(c) = k /\ req[c].fp = TheBody
      /\ row \in [Keys -> APIP!Row] /\ rec \in [Requests -> APIP!Row] /\ pc \in [Requests -> APIP!Steps]
      /\ resp \in [Requests -> APIP!Response]
  <2>1. c \in Requests
    BY PostsAssumption
  <2> QED BY <2>1 DEF APIP!TypeOK, KeyOf, API!Key
<1>2. TheKey' = TheKey /\ TheBody' = TheBody
  BY <1>1, PostMoves DEF TheKey, TheBody, KeyOf
<1>3. API!Expired = -1
  BY DEF API!Expired
<1> HIDE DEF c, k
<1> USE DEF API!Goto, API!Answer
<1>4. CASE UNCHANGED <<row, rec, resp, pc>>
  BY <1>2, <1>4 DEF Third
<1>5. CASE API!AcquireExisting(c)
  <2>1. /\ pc[c] = "acquire" /\ row[k].left = API!Expired
        /\ row' = row /\ rec'[c] = row[k] /\ pc'[c] = "decide" /\ resp' = resp
    BY <1>1, <1>5 DEF API!AcquireExisting, Third, c, k
  <2> QED BY <1>2, <2>1 DEF Third, c, k
<1>6. CASE API!DecideReplay(c)
  <2>1. row' = row /\ rec' = rec /\ pc'[c] = "done" /\ resp'[c].kind = "ok"
    BY <1>1, <1>6 DEF API!DecideReplay
  <2> QED BY <1>2, <2>1 DEF Third, c
<1>7. ~API!DecideConflict(c)
  BY <1>1 DEF API!DecideConflict, Third, c
<1>8. ~API!DecideRetryAfter(c)
  BY <1>3 DEF API!DecideRetryAfter, Third, c
<1>9. CASE API!DecideTakeover(c)
  <2>1. /\ pc[c] = "decide" /\ rec[c].status = "in_progress"
        /\ row' = row /\ rec' = rec /\ pc'[c] = "takeover" /\ resp' = resp
    BY <1>1, <1>9 DEF API!DecideTakeover
  <2> QED BY <1>2, <2>1 DEF Third, c
<1>10. CASE API!TakeoverWon(c)
  <2>1. PICK l \in API!TimeLeft :
           row' = [row EXCEPT ![k] = [row[k] EXCEPT !.left = l, !.owner = c]]
    BY <1>1, <1>10 DEF API!TakeoverWon
  <2>2. DOMAIN row[k] = {"status", "fp", "left", "owner", "snap"}
    BY <1>1 DEF APIP!Row
  <2>3. row'[k].status = row[k].status /\ row'[k].owner = c
    BY <1>1, <2>1, <2>2
  <2>4. pc[c] = "takeover" /\ pc'[c] = "execute"
    BY <1>1, <1>10 DEF API!TakeoverWon
  <2> QED BY <1>2, <2>3, <2>4 DEF Third, c, k
<1>11. ~API!TakeoverLost(c)
  BY <1>1, <1>3 DEF API!TakeoverLost, API!MayTakeOver, Third, c, k
<1>12. CASE API!RunEffect(c) \/ API!CompleteWon(c)
  <2>1. /\ pc[c] \in {"execute", "complete"} /\ pc'[c] \in {"complete", "commit"}
        /\ row' = row /\ rec' = rec /\ resp' = resp
    BY <1>1, <1>12 DEF API!RunEffect, API!CompleteWon
  <2> QED BY <1>2, <2>1 DEF Third, c
<1>13. ~API!CompleteLost(c)
  BY <1>1 DEF API!CompleteLost, API!StillOwns, Third, c, k
<1>14. ~API!Reread(c) /\ ~API!AcquireFresh(c)
  BY <1>1 DEF API!Reread, API!AcquireFresh, Third, c, k
<1>15. CASE API!Commit(c)
  <2>1. pc'[c] = "done" /\ resp'[c].kind = "ok"
    BY <1>1, <1>15 DEF API!Commit
  <2> QED BY <1>2, <2>1 DEF Third, c
<1>16. \/ Precheck(c) \/ API!AcquireFresh(c) \/ API!AcquireExisting(c) \/ API!RunEffect(c)
       \/ API!DecideReplay(c) \/ API!DecideConflict(c) \/ API!DecideRetryAfter(c)
       \/ API!DecideTakeover(c) \/ API!TakeoverWon(c) \/ API!TakeoverLost(c) \/ API!CompleteWon(c)
       \/ API!CompleteLost(c) \/ API!Reread(c) \/ API!Commit(c)
  BY DEF SpineStep, Execute, Accept, c
<1>17. Precheck(c) => UNCHANGED <<row, rec, resp, pc>>
  BY DEF Precheck, Pass, spine
<1> QED BY <1>4, <1>5, <1>6, <1>7, <1>8, <1>9, <1>10, <1>11, <1>12, <1>13, <1>14, <1>15, <1>16, <1>17

\* The clock takes nothing back.
LEMMA ClockKeeps ==
    ASSUME APIP!TypeOK, Tick
    PROVE  /\ UNCHANGED <<req, pc, applied, resp>>
           /\ \A k \in Keys : /\ row'[k].status = row[k].status /\ row'[k].fp = row[k].fp
                              /\ row'[k].owner = row[k].owner
                              /\ row[k].left = API!Expired => row'[k].left = API!Expired
           /\ \A r \in Requests : /\ rec'[r].status = rec[r].status /\ rec'[r].fp = rec[r].fp
                                  /\ rec[r].left = API!Expired => rec'[r].left = API!Expired
<1>1. /\ row' = [k \in Keys |-> [row[k] EXCEPT !.left = API!Aged(row[k].left)]]
      /\ rec' = [r \in Requests |-> [rec[r] EXCEPT !.left = API!Aged(rec[r].left)]]
      /\ UNCHANGED <<req, pc, applied, resp>>
  BY DEF Tick, API!Tick
<1>2. \A t : t = API!Expired => API!Aged(t) = API!Expired
  BY DEF API!Aged
<1>3. ASSUME NEW x \in APIP!Row, NEW t
      PROVE  LET y == [x EXCEPT !.left = t]
             IN  y.status = x.status /\ y.fp = x.fp /\ y.owner = x.owner /\ y.left = t
  BY DEF APIP!Row
<1>4. row \in [Keys -> APIP!Row] /\ rec \in [Requests -> APIP!Row]
  BY DEF APIP!TypeOK
<1>5. ASSUME NEW k \in Keys
      PROVE  /\ row'[k].status = row[k].status /\ row'[k].fp = row[k].fp
             /\ row'[k].owner = row[k].owner
             /\ row[k].left = API!Expired => row'[k].left = API!Expired
  <2>1. row[k] \in APIP!Row /\ row'[k] = [row[k] EXCEPT !.left = API!Aged(row[k].left)]
    BY <1>1, <1>4
  <2> QED BY <1>2, <1>3, <2>1
<1>6. ASSUME NEW r \in Requests
      PROVE  /\ rec'[r].status = rec[r].status /\ rec'[r].fp = rec[r].fp
             /\ rec[r].left = API!Expired => rec'[r].left = API!Expired
  <2>1. rec[r] \in APIP!Row /\ rec'[r] = [rec[r] EXCEPT !.left = API!Aged(rec[r].left)]
    BY <1>1, <1>4
  <2> QED BY <1>2, <1>3, <2>1
<1> QED BY <1>1, <1>5, <1>6

\* The takeover's key is a key.
LEMMA KeyType ==
    ASSUME APIP!TypeOK
    PROVE  TheKey \in Keys /\ \A r \in Requests : KeyOf(r) \in Keys
BY PostsAssumption DEF APIP!TypeOK, TheKey, TheBody, KeyOf

\* An expired lease is all that the harness leaves of its own on a row.
LEMMA ExpireKeeps ==
    ASSUME APIP!TypeOK, ExpireLease
    PROVE  /\ row'[TheKey].status = row[TheKey].status /\ row'[TheKey].fp = row[TheKey].fp
           /\ row'[TheKey].left = API!Expired
<1>1. TheKey \in Keys /\ row \in [Keys -> APIP!Row]
  BY KeyType DEF APIP!TypeOK
<1>2. row' = [row EXCEPT ![TheKey] = [row[TheKey] EXCEPT !.left = API!Expired]]
  BY DEF ExpireLease, TheKey, TheBody
<1>3. DOMAIN row[TheKey] = {"status", "fp", "left", "owner", "snap"}
  BY <1>1 DEF APIP!Row
<1> QED BY <1>1, <1>2, <1>3

\* Every post of the takeover run stays under the one key and body.
LEMMA OneKeyStep ==
    ASSUME Parts, Plan, OneKey, [RunNext]_<<System, harness>>
    PROVE  OneKey'
<1>1. APIP!IInv /\ APIP!TypeOK /\ Unasked /\ asked \subseteq Requests
  BY PostedCount DEF Parts, APIP!IInv, Plan
<1>2. Owner' = Owner
  BY SeedOnce, SameCell
<1> SUFFICES ASSUME Owner = "a2" PROVE OneKey'
  BY <1>2 DEF OneKey
<1>3. /\ \A r \in Requests : KeyOf(r) = TheKey /\ req[r].fp = TheBody
      /\ row[TheKey].status # "absent" => row[TheKey].fp = TheBody
      /\ TheKey \in Keys
  BY <1>1, KeyType DEF OneKey
<1>4. ASSUME req' = req, row'[TheKey].status # "absent" => row'[TheKey].fp = TheBody
      PROVE  OneKey'
  BY <1>3, <1>4 DEF OneKey, TheKey, TheBody, KeyOf
<1>5. ASSUME NEW r \in asked, Precheck(r) \/ SpineStep(r) \/ Execute(r) \/ Accept(r) PROVE OneKey'
  BY <1>1, <1>3, <1>4, <1>5, PostMoves, PostRows
<1>6. Tick => OneKey'
  BY <1>1, <1>3, <1>4, ClockKeeps
<1>7. UNCHANGED <<req, row>> => OneKey'
  BY <1>3, <1>4
<1>8. Abort \/ Harness => OneKey'
  BY <1>1, <1>3, <1>4, <1>7, SpineLeft, ExpireKeeps
<1>9. Serve => OneKey'
  BY <1>5, <1>6, <1>7, SpineServed DEF spine
<1>10. UNCHANGED System => UNCHANGED <<req, row>>
  BY DEF System, payout, spine
<1> QED BY <1>7, <1>8, <1>9, <1>10 DEF RunNext

\* Counts tell the harness's own posts apart.
LEMMA PostedApart ==
    ASSUME NEW n \in 0..3, asked = Posted(n)
    PROVE  /\ Cardinality(asked) = n /\ asked \subseteq Requests
           /\ asked = {} <=> n = 0
           /\ \A m \in 0..3 : asked = Posted(m) <=> m = n
           /\ n # 0 => Current = Posts[n] /\ Current \in asked
<1>1. \A m \in 0..3 : Posted(m) \subseteq Requests /\ Cardinality(Posted(m)) = m
  BY PostedCount
<1>2. Posted(0) = {}
  BY PostedCount
<1>3. n # 0 => Posts[n] \in Posted(n)
  BY DEF Posted
<1> QED BY <1>1, <1>2, <1>3 DEF Current

\* A serving API keeps hold of the key.
LEMMA TakeoverServed ==
    ASSUME Parts, Plan, OneKey, TakeoverRun, Serve, Owner = "a2", ~gaveUp
    PROVE  /\ armed = Api => \A r \in asked : pc'[r] = "acquire" \/ row'[TheKey].status # "absent"
           /\ armed = None /\ asked # {} => KeyHeld'
<1>1. APIP!IInv /\ APIP!TypeOK
  BY DEF Parts, APIP!IInv
<1>2. PICK n \in 0..3 : asked = Posted(n) /\ Turn(n)
  BY DEF Plan
<1>3. UNCHANGED <<step, asked>>
  BY DEF Serve, harness, plan
<1>4. /\ TheKey \in Keys /\ \A r \in Requests : KeyOf(r) = TheKey /\ req[r].fp = TheBody
      /\ row[TheKey].status # "absent" => row[TheKey].fp = TheBody
  BY <1>1, KeyType DEF OneKey
<1>5. asked \subseteq Requests /\ (asked # {} => Current' = Current)
  BY <1>2, <1>3, PostedApart DEF Current
<1>6. CASE UNCHANGED spine
  <2>1. UNCHANGED <<req, row, pc, rec, resp>>
    BY <1>6 DEF spine
  <2>2. TheKey' = TheKey /\ TheBody' = TheBody /\ (Third => Third')
    BY <2>1 DEF TheKey, TheBody, KeyOf, Third
  <2>3. KeyHeld /\ asked # {} => KeyHeld'
    BY <1>3, <1>5, <2>1, <2>2 DEF KeyHeld, Over
  <2> QED BY <2>1, <2>3 DEF TakeoverRun
<1>7. CASE Tick
  <2>1. UNCHANGED <<req, pc, resp>>
    BY <1>1, <1>7, ClockKeeps
  <2>2. TheKey' = TheKey /\ TheBody' = TheBody
    BY <2>1 DEF TheKey, TheBody, KeyOf
  <2>3. /\ row'[TheKey].status = row[TheKey].status /\ row'[TheKey].owner = row[TheKey].owner
        /\ row[TheKey].left = API!Expired => row'[TheKey].left = API!Expired
    BY <1>1, <1>4, <1>7, ClockKeeps
  <2>4. Third => Third'
    <3>1. Posts[3] \in Requests
      BY PostsAssumption
    <3>2. /\ rec'[Posts[3]].status = rec[Posts[3]].status /\ rec'[Posts[3]].fp = rec[Posts[3]].fp
          /\ rec[Posts[3]].left = API!Expired => rec'[Posts[3]].left = API!Expired
      BY <1>1, <1>7, <3>1, ClockKeeps
    <3> QED BY <2>1, <2>2, <2>3, <3>2 DEF Third
  <2>5. KeyHeld /\ asked # {} => KeyHeld'
    BY <1>3, <1>5, <2>1, <2>2, <2>3, <2>4 DEF KeyHeld, Over
  <2> QED BY <2>1, <2>3, <2>5 DEF TakeoverRun
<1>8. ASSUME NEW r \in asked, Precheck(r) \/ SpineStep(r) \/ Execute(r) \/ Accept(r)
      PROVE  /\ armed = Api => \A q \in asked : pc'[q] = "acquire" \/ row'[TheKey].status # "absent"
             /\ armed = None /\ asked # {} => KeyHeld'
  <2>1. r \in Requests /\ req' = req /\ pc[r] \notin Over
    BY <1>1, <1>5, <1>8, PostMoves
  <2>2. TheKey' = TheKey /\ TheBody' = TheBody
    BY <2>1 DEF TheKey, TheBody, KeyOf
  <2>3. /\ row[TheKey].status # "absent" => row'[TheKey].status # "absent"
        /\ pc[r] = "acquire" => pc'[r] = "acquire" \/ row'[TheKey].status # "absent"
    BY <1>1, <1>4, <1>8, <2>1, PostRows
  <2>4. \A q \in Requests \ {r} : pc'[q] = pc[q]
    BY <1>1, <1>8, <2>1, PostMoves DEF APIP!TypeOK
  <2>5. ASSUME armed = Api, NEW q \in asked
        PROVE  pc'[q] = "acquire" \/ row'[TheKey].status # "absent"
    BY <1>5, <2>3, <2>4, <2>5 DEF TakeoverRun
  <2>6. ASSUME armed = None PROVE KeyHeld'
    <3>1. KeyHeld
      BY <1>8, <2>6 DEF TakeoverRun
    <3>2. step = "answer" /\ r = Current
      BY <1>8, <2>1, <3>1 DEF KeyHeld
    <3>3. asked = Posted(3) => r = Posts[3]
      BY <1>2, <3>2, PostedApart
    <3>4. asked = Posted(3) => Third'
      BY <1>1, <1>4, <1>8, <3>1, <3>3, ThirdServed DEF KeyHeld
    <3>5. \A q \in asked : pc'[q] \in Over \/ q = Current
      BY <1>5, <2>4, <3>1, <3>2 DEF KeyHeld
    <3>6. row'[TheKey].status # "absent"
      BY <2>3, <3>1 DEF KeyHeld
    <3>7. asked # {}
      BY <1>8
    <3> QED BY <1>3, <1>5, <2>2, <3>2, <3>4, <3>5, <3>6, <3>7 DEF KeyHeld, Over, Posted
  <2> QED BY <2>5, <2>6
<1> QED BY <1>6, <1>7, <1>8, SpineServed

\* The harness alone, with no wait run out.
LEMMA TakeoverDriven ==
    ASSUME Parts, Plan, Plan', ApiRun, OneKey, TakeoverRun, Abort \/ Harness,
           Owner = "a2", ~gaveUp, ~gaveUp'
    PROVE  /\ armed' = Api => \A r \in asked' : pc'[r] = "acquire" \/ row'[TheKey].status # "absent"
           /\ armed' = None /\ asked' # {} => KeyHeld'
           /\ "A2(b)" \notin verdict'
<1> DEFINE Goal == /\ armed' = Api => \A r \in asked' : \/ pc'[r] = "acquire"
                                                        \/ row'[TheKey].status # "absent"
                   /\ armed' = None /\ asked' # {} => KeyHeld'
                   /\ "A2(b)" \notin verdict'
<1>1. APIP!TypeOK /\ Unasked
  BY DEF Parts, APIP!IInv
<1>2. /\ UNCHANGED <<req, rec, applied, resp>>
      /\ \A r \in Requests : /\ pc'[r] = pc[r] \/ pc'[r] = "crashed"
                             /\ pc[r] = "done" => pc'[r] = "done"
      /\ row' = row \/ ExpireLease
  BY <1>1, SpineLeft
<1>3. PICK n \in 0..3 : asked = Posted(n) /\ Turn(n)
  BY DEF Plan
<1>4. /\ Cardinality(asked) = n /\ asked \subseteq Requests
      /\ asked = {} <=> n = 0
      /\ \A m \in 0..3 : asked = Posted(m) <=> m = n
      /\ n # 0 => Current = Posts[n] /\ Current \in asked
  BY <1>3, PostedApart
<1>5. TheKey' = TheKey /\ TheBody' = TheBody /\ "A2(b)" \notin verdict
  BY <1>2 DEF TheKey, TheBody, KeyOf, TakeoverRun
<1>6. Api # None /\ None \notin up
  BY ProcessAssumption DEF Plan, Crew
<1>7. \A r \in Requests : pc[r] \in Over => pc'[r] \in Over
  BY <1>2 DEF Over
\* Nobody at work, and nothing posted: the key stays as it is.
<1>8. ASSUME armed = None, armed' = None, asked' = asked, row' = row, n # 0,
             step # "answer" \/ (pc' = pc /\ pc[Current] \in Over),
             step' = "post" => step = "post" \/ n # 2
      PROVE  armed' = None /\ KeyHeld'
  <2>1. KeyHeld
    BY <1>4, <1>8 DEF TakeoverRun
  <2>2. \A r \in asked : pc[r] \in Over
    BY <1>8, <2>1 DEF KeyHeld
  <2>3. \A r \in asked : pc'[r] \in Over
    BY <1>4, <1>7, <2>2
  <2>4. asked = Posted(3) => Third'
    <3> SUFFICES ASSUME asked = Posted(3) PROVE Third'
      OBVIOUS
    <3>1. n = 3 /\ Posts[3] \in asked /\ Posts[3] \in Requests
      BY <1>4, PostsAssumption
    <3>2. Third /\ pc[Posts[3]] = "done" /\ resp[Posts[3]].kind = "ok"
      BY <2>1, <2>2, <3>1 DEF KeyHeld, Third, Over
    <3>3. pc'[Posts[3]] = "done" /\ resp' = resp
      BY <1>2, <3>1, <3>2
    <3> QED BY <1>5, <3>2, <3>3 DEF Third
  <2>5. step' = "post" /\ asked = Posted(2) => row[TheKey].left = API!Expired
    BY <1>4, <1>8, <2>1 DEF KeyHeld
  <2> QED BY <1>5, <1>8, <2>1, <2>3, <2>4, <2>5 DEF KeyHeld, Over, Posted
<1>9. CASE Seed
  <2>1. n = 0 /\ armed' = Api /\ asked' = asked /\ verdict' = verdict
    BY <1>3, <1>9 DEF Seed, At, Turn
  <2> QED BY <1>4, <1>5, <1>6, <2>1
<1>10. CASE Abort
  <2>1. /\ armed \in up /\ AtPoint(armed) /\ UNCHANGED <<armed, asked, verdict, step>>
        /\ row' = row
    BY <1>2, <1>10 DEF Abort, plan, ExpireLease, At
  <2>2. armed = Api
    BY <1>3, <1>6, <2>1 DEF Turn, Plan, Crew
  <2>3. PICK r \in asked : pc[r] = ApiPoints[cell.point]
    BY <2>1, <2>2, ProcessAssumption DEF AtPoint
  <2>4. n = 1
    <3>1. n # 0
      BY <1>4, <2>3
    <3>2. step \notin {"seed", "bailed"} /\ armed # None
      BY <1>6, <2>1, <2>2 DEF Plan, Crew
    <3>3. Turn(n) /\ Owner = "a2" /\ n \in 0..3
      BY <1>3
    <3> QED BY <2>2, <3>1, <3>2, <3>3 DEF Turn
  <2>5. ApiPoints[cell.point] # "acquire"
    <3>1. cell.point \in DOMAIN ApiPoints
      BY CellFacts DEF Plan
    <3> QED BY <3>1 DEF ApiPoints
  <2>6. asked = {r}
    <3>1. asked = {Posts[1]}
      BY <1>3, <2>4 DEF Posted
    <3> QED BY <3>1
  <2>7. row[TheKey].status # "absent"
    BY <2>2, <2>3, <2>5 DEF TakeoverRun
  <2> QED BY <1>5, <1>6, <2>1, <2>2, <2>7
<1>11. CASE Bind
  <2>1. n = 0 /\ UNCHANGED <<asked, verdict>>
    BY <1>3, <1>11 DEF Bind, Bound, Turn, plan
  <2> QED BY <1>4, <1>5, <2>1
<1>12. CASE Send
  <2>1. /\ step = "post" /\ step' = "answer" /\ UNCHANGED <<up, armed, verdict>> /\ row' = row
        /\ asked' = asked \cup {Posts[n + 1]} /\ n \in 0..2
        /\ CutOff(IF Api \in up THEN {} ELSE {Posts[n + 1]})
    <3>1. step = "post" /\ n \in 0..2
      BY <1>3, <1>12 DEF Send, At, Turn
    <3> QED BY <1>4, <1>12, <3>1 DEF Send, At
  <2> DEFINE r == Posts[n + 1]
  <2>2. r \in Requests \ asked /\ Posted(n + 1) = Posted(n) \cup {r} /\ n + 1 \in 0..3
    BY <1>3, <2>1, PostedCount
  <2>3. asked' = Posted(n + 1)
    BY <1>3, <2>1, <2>2
  <2>4. \A q \in Requests : pc'[q] = pc[q]
    <3>1. Api \in up
      BY <2>1 DEF Plan, Crew
    <3> QED BY <2>1, <3>1 DEF CutOff
  <2>5. pc'[r] = "acquire"
    BY <1>1, <2>2, <2>4 DEF Unasked
  <2>6. Current' = r /\ \A m \in 0..3 : asked' = Posted(m) <=> m = n + 1
    <3>1. Cardinality(asked') = n + 1 /\ \A m \in 0..3 : Cardinality(Posted(m)) = m
      BY <2>2, <2>3, PostedCount
    <3> QED BY <2>2, <2>3, <3>1 DEF Current
  <2>7. ASSUME armed = Api, NEW q \in asked'
        PROVE  pc'[q] = "acquire" \/ row'[TheKey].status # "absent"
    <3>1. CASE q = r
      BY <2>5, <3>1
    <3>2. CASE q \in asked
      <4>1. pc[q] = "acquire" \/ row[TheKey].status # "absent"
        BY <2>7, <3>2 DEF TakeoverRun
      <4> QED BY <1>4, <1>5, <2>1, <2>4, <3>2, <4>1
    <3> QED BY <2>1, <3>1, <3>2
  <2>8. ASSUME armed = None PROVE KeyHeld'
    <3>1. n # 0 /\ KeyHeld
      BY <1>3, <1>4, <1>6, <2>1, <2>8 DEF Turn, TakeoverRun
    <3>2. \A q \in asked : pc'[q] \in Over
      BY <1>4, <2>1, <2>4, <3>1 DEF KeyHeld
    <3>3. asked' = Posted(3) => Third'
      <4> SUFFICES ASSUME asked' = Posted(3) PROVE Third'
        OBVIOUS
      <4>1. n = 2 /\ row[TheKey].left = API!Expired
        BY <1>4, <2>1, <2>6, <3>1 DEF KeyHeld
      <4> QED BY <1>5, <2>1, <2>5, <4>1 DEF Third
    <3>4. \A q \in asked' : pc'[q] \in Over \/ q = r
      BY <2>1, <3>2
    <3> QED BY <1>5, <2>1, <2>6, <3>1, <3>3, <3>4 DEF KeyHeld, Over, Posted
  <2> QED BY <1>5, <2>1, <2>7, <2>8
<1>13. CASE Answered
  <2>1. /\ n \in 1..3 /\ left = 0 /\ armed = IF n = 1 THEN Api ELSE None
        /\ step = "answer" /\ UNCHANGED <<armed, asked>> /\ row' = row
    <3>1. step = "answer" /\ UNCHANGED <<armed, asked>> /\ row' = row
      BY <1>13 DEF Answered
    <3> QED BY <1>3, <3>1 DEF Turn
  <2>2. pc' = pc /\ pc[Current] \in Over
    BY <1>13 DEF Answered, Over
  <2>3. CASE n = 1
    <3>1. verdict' = verdict
      BY <1>4, <1>13, <2>1, <2>3 DEF Answered
    <3> QED BY <1>5, <1>6, <2>1, <2>2, <2>3, <3>1 DEF TakeoverRun
  <2>4. CASE n # 1
    <3>1. KeyHeld'
      <4>1. step' # "post"
        BY <1>4, <1>13, <2>1 DEF Answered
      <4> QED BY <1>8, <2>1, <2>2, <2>4, <4>1
    <3>2. "A2(b)" \notin verdict'
      <4>1. CASE n = 2
        BY <1>4, <1>13, <2>1, <4>1 DEF Answered
      <4>2. CASE n = 3
        <5>1. KeyHeld
          BY <1>4, <2>1, <4>2 DEF TakeoverRun
        <5>2. Current = Posts[3] /\ Third
          BY <1>3, <1>4, <4>2, <5>1 DEF KeyHeld
        <5>3. resp[Current].kind = "ok"
          BY <2>2, <5>2 DEF Third, Over
        <5> QED BY <1>4, <1>5, <1>13, <2>1, <4>2, <5>3 DEF Answered
      <4> QED BY <2>1, <2>4, <4>1, <4>2
    <3> QED BY <1>6, <2>1, <2>4, <3>1, <3>2
  <2> QED BY <2>3, <2>4
<1>14. CASE ExpireLease
  <2>1. n = 2 /\ armed = None /\ step = "expire"
    BY <1>3, <1>14 DEF ExpireLease, At, Turn
  <2>2. UNCHANGED <<armed, asked, verdict, pc>> /\ step' = "post"
    BY <1>14 DEF ExpireLease, At
  <2>3. /\ row'[TheKey].status = row[TheKey].status
        /\ row'[TheKey].left = API!Expired
    BY <1>1, <1>14, ExpireKeeps
  <2>4. KeyHeld /\ asked # Posted(3)
    BY <1>4, <2>1 DEF TakeoverRun
  <2>5. KeyHeld'
    BY <1>5, <2>1, <2>2, <2>3, <2>4 DEF KeyHeld, Over, Posted
  <2> QED BY <1>5, <1>6, <2>1, <2>2, <2>5
<1>15. CASE SeeAbort
  <2>1. step = "await" /\ step' = "restart" /\ armed' = None /\ armed \notin up
    BY <1>15 DEF SeeAbort, At, AfterAwait
  <2>2. UNCHANGED <<asked, verdict, pc, row>>
    BY <1>15 DEF SeeAbort, System, payout, spine
  <2>3. n = 1 /\ armed = Api
    BY <1>3, <2>1 DEF Turn
  <2>4. Posts[1] \in asked /\ \A r \in asked : pc[r] \in Over
    BY <1>4, <2>1, <2>3 DEF ApiRun
  <2>5. row[TheKey].status # "absent"
    BY <2>3, <2>4 DEF TakeoverRun, Over
  <2>6. asked # Posted(3)
    BY <1>4, <2>3
  <2> QED BY <1>5, <1>6, <2>1, <2>2, <2>4, <2>5, <2>6 DEF KeyHeld, Over, Posted
<1>16. CASE Restart
  <2>1. step = "restart" /\ UNCHANGED <<armed, asked, verdict>> /\ row' = row
    BY <1>2, <1>16 DEF Restart, Bound, ExpireLease, At
  <2>2. n = 1 /\ armed = None
    BY <1>3, <2>1 DEF Turn
  <2> QED BY <1>5, <1>6, <1>8, <2>1, <2>2
<1>17. CASE ReadStreams \/ ReadOutbox \/ Kill \/ Verdict
  <2>1. /\ step \in {"drain", "outbox", "kill"} /\ step' # "post"
        /\ UNCHANGED <<armed, asked>> /\ row' = row
    BY <1>2, <1>17 DEF ReadStreams, ReadOutbox, Kill, Verdict, At, plan, ExpireLease
  <2>2. n = 3 /\ armed = None
    BY <1>3, <2>1 DEF Turn
  <2>3. "A2(b)" \notin verdict'
    <3>1. "A2(b)" \notin Violations /\ "A2(b)" \notin Overdue
      BY DEF Violations, Overdue
    <3> QED BY <1>5, <1>17, <3>1 DEF ReadStreams, ReadOutbox, Kill, Verdict, plan
  <2>4. KeyHeld'
    BY <1>8, <2>1, <2>2
  <2> QED BY <1>6, <2>1, <2>2, <2>3, <2>4
<1>18. ~Feed /\ ~Reap /\ ~GiveUpAbort /\ ~GiveUpDrain
  BY DEF Feed, Enqueue, Reap, GiveUpAbort, GiveUpDrain
<1> QED BY <1>9, <1>10, <1>11, <1>12, <1>13, <1>14, <1>15, <1>16, <1>17, <1>18 DEF Harness

\* Together: with no wait run out the third post is answered ok.
LEMMA TakeoverStep ==
    ASSUME Parts, Plan, Plan', ApiRun, OneKey, TakeoverRun, [RunNext]_<<System, harness>>
    PROVE  TakeoverRun'
<1>1. Owner' = Owner
  BY SeedOnce, SameCell
<1>2. gaveUp => gaveUp'
  <2>1. gaveUp \in BOOLEAN
    BY DEF Plan, Notes
  <2> QED BY <2>1 DEF RunNext, Serve, Abort, Harness, Seed, Bind, Feed, Send, Answered, ExpireLease,
     SeeAbort, GiveUpAbort, Reap, Restart, ReadStreams, ReadOutbox, GiveUpDrain, Kill, Verdict, plan,
     harness
<1> SUFFICES ASSUME Owner = "a2", ~gaveUp, ~gaveUp' PROVE TakeoverRun'
  BY <1>1, <1>2 DEF TakeoverRun
<1>3. UNCHANGED req => TheKey' = TheKey /\ TheBody' = TheBody
  BY DEF TheKey, TheBody, KeyOf
<1>4. UNCHANGED <<System, harness>> => TakeoverRun'
  <2> SUFFICES ASSUME UNCHANGED <<System, harness>> PROVE TakeoverRun'
    OBVIOUS
  <2>1. UNCHANGED <<cell, step, armed, asked, gaveUp, verdict, req, row, pc, rec, resp>>
    BY DEF System, harness, plan, payout, spine
  <2>2. TheKey' = TheKey /\ TheBody' = TheBody /\ Third' = Third /\ Current' = Current
    BY <2>1 DEF TheKey, TheBody, KeyOf, Third, Current
  <2>3. KeyHeld' = KeyHeld
    BY <2>1, <2>2 DEF KeyHeld, Over, Posted
  <2> QED BY <2>1, <2>2, <2>3 DEF TakeoverRun
<1>5. Serve => TakeoverRun'
  <2> SUFFICES ASSUME Serve PROVE TakeoverRun'
    OBVIOUS
  <2>1. UNCHANGED <<armed, asked, verdict>>
    BY DEF Serve, harness, plan
  <2>2. "A2(b)" \notin verdict /\ req' = req
    <3>1. req' = req
      <4>1. APIP!TypeOK /\ asked \subseteq Requests
        BY PostedCount DEF Parts, APIP!IInv, Plan
      <4> QED BY <4>1, PostMoves, ClockKeeps, SpineServed DEF spine
    <3> QED BY <3>1 DEF TakeoverRun
  <2> QED BY <2>1, <2>2, <1>3, TakeoverServed DEF TakeoverRun
<1>6. Abort \/ Harness => TakeoverRun'
  <2> SUFFICES ASSUME Abort \/ Harness PROVE TakeoverRun'
    OBVIOUS
  <2>1. req' = req
    BY SpineLeft DEF Parts, APIP!IInv
  <2> QED BY <1>3, <2>1, TakeoverDriven DEF TakeoverRun
<1> QED BY <1>4, <1>5, <1>6 DEF RunNext

\* Only the takeover run has a third post.
Replays == Owner # "a2" => "A2(b)" \notin verdict \/ step = "done"

\* A wait that has run out stays so.
LEMMA GaveUpStays ==
    ASSUME Plan, [RunNext]_<<System, harness>>, gaveUp
    PROVE  gaveUp'
<1>1. gaveUp \in BOOLEAN
  BY DEF Plan, Notes
<1>2. gaveUp' = gaveUp \/ gaveUp' = TRUE
  BY DEF RunNext, Serve, Abort, Harness, Seed, Bind, Feed, Send, Answered, ExpireLease, SeeAbort,
     GiveUpAbort, Reap, Restart, ReadStreams, ReadOutbox, GiveUpDrain, Kill, Verdict, plan, harness
<1> QED BY <1>1, <1>2

\* No step of another run records a failed replay.
LEMMA ReplaysStep ==
    ASSUME Plan, Replays, [RunNext]_<<System, harness>>
    PROVE  Replays'
<1>1. Owner' = Owner
  BY SeedOnce, SameCell
<1>2. step = "done" => step' = "done"
  BY DoneStays DEF Plan, harness
<1> SUFFICES ASSUME Owner # "a2", "A2(b)" \notin verdict PROVE "A2(b)" \notin verdict' \/ step' = "done"
  BY <1>1, <1>2 DEF Replays
<1>3. PICK n \in 0..3 : asked = Posted(n) /\ Turn(n)
  BY DEF Plan
<1>4. ASSUME Answered PROVE "A2(b)" \notin verdict'
  <2>1. Cardinality(asked) # 3
    BY <1>3, <1>4, PostedCount DEF Answered, Turn
  <2> QED BY <1>4, <2>1 DEF Answered
<1>5. Verdict => step' = "done"
  BY DEF Verdict, At
<1>6. Serve \/ Abort \/ UNCHANGED <<System, harness>> => verdict' = verdict
  BY DEF Serve, Abort, harness, plan
<1>7. Harness /\ ~Answered /\ ~Verdict => verdict' = verdict
  BY DEF Harness, Seed, Bind, Feed, Send, ExpireLease, SeeAbort, GiveUpAbort, Reap, Restart,
     ReadStreams, ReadOutbox, GiveUpDrain, Kill, plan
<1> QED BY <1>4, <1>5, <1>6, <1>7 DEF RunNext

\* After the harness has looked nothing is committed that is not published.
LEMMA OutboxDoneStep ==
    ASSUME Parts, Plan, TakeoverRun, OutboxDone, [RunNext]_<<System, harness>>
    PROVE  OutboxDone'
<1>1. Owner' = Owner
  BY SeedOnce, SameCell
<1> SUFFICES ASSUME Owner \in {"relay", "a2"}, ~gaveUp', drained' PROVE OB!Unsent' = {}
  BY <1>1 DEF OutboxDone
<1>2. ~gaveUp
  BY GaveUpStays
<1>3. CASE ReadOutbox
  <2>1. OB!Unsent = {} /\ UNCHANGED <<committed, sent>>
    BY <1>3 DEF ReadOutbox, System, payout, relay
  <2> QED BY <2>1 DEF OB!Unsent
<1>4. CASE ~ReadOutbox
  <2>1. drained
    BY <1>4 DEF RunNext, Serve, Abort, Harness, Seed, Bind, Feed, Send, Answered, ExpireLease,
       SeeAbort, GiveUpAbort, Reap, Restart, ReadStreams, GiveUpDrain, Kill, Verdict, plan, harness
  <2>2. step \in {"kill", "done"} /\ OB!Unsent = {}
    BY <1>2, <2>1 DEF Plan, Notes, OutboxDone
  <2>3. PICK n \in 0..3 : asked = Posted(n) /\ Turn(n)
    BY DEF Plan
  <2>4. ~\E r \in asked : Accept(r)
    <3> SUFFICES ASSUME NEW r \in asked, Accept(r) PROVE FALSE
      OBVIOUS
    <3>1. r \in Requests /\ asked # {}
      BY <2>3, PostedApart
    <3>2. Owner = "a2" /\ armed = None
      BY <2>2, <2>3, <3>1, PostedCount DEF Turn
    <3>3. pc[r] \in Over
      BY <1>2, <2>2, <3>1, <3>2 DEF TakeoverRun, KeyHeld
    <3>4. APIP!TypeOK
      BY DEF Parts, APIP!IInv
    <3> QED BY <3>1, <3>3, <3>4, PostMoves
  <2>5. committed' = committed
    BY <2>2, <2>4, TablesMove
  <2>6. sent \subseteq sent'
    BY RelaySurvives DEF Parts
  <2> QED BY <2>2, <2>5, <2>6 DEF OB!Unsent
<1> QED BY <1>3, <1>4

\* What the oracles ask, turned round.
LEMMA ViolationsMean ==
    /\ "conservation" \in Violations => ~Conserved
    /\ "reconciler" \in Violations => ~Conserved \/ OrphanLock
    /\ "no_stranded" \in Violations => OrphanLock \/ OB!Unsent # {}
    /\ "at_most_once" \in Violations => ~AtMostOnce
    /\ Violations # {} =>
         \/ ~Conserved \/ ~AtMostOnce \/ OrphanLock \/ OB!Unsent # {} \/ ~aborted
         \/ Owner # "processor" /\ Rows # Expected
         \/ Owner = "processor" /\ Cardinality(deposits) # 1
         \/ Owner # "api" /\ ~drained
<1> DEFINE Kinds == {"conservation", "at_most_once", "no_stranded", "reconciler", "replay_safety",
                     "dedup", "drain", "closure"}
           Bad(v) == CASE v = "conservation" -> ~Conserved
                       [] v = "at_most_once" -> ~AtMostOnce
                       [] v = "no_stranded" -> OrphanLock \/ OB!Unsent # {}
                       [] v = "reconciler" -> ~Conserved \/ OrphanLock
                       [] v = "replay_safety" -> Owner # "processor" /\ Rows # Expected
                       [] v = "dedup" -> Owner = "processor" /\ Cardinality(deposits) # 1
                       [] v = "drain" -> Owner # "api" /\ ~drained
                       [] v = "closure" -> ~aborted
<1>1. Violations = {v \in Kinds : Bad(v)}
  BY DEF Violations
<1> HIDE DEF Kinds, Bad
<1>2. \A v \in Violations : v \in Kinds /\ Bad(v)
  BY <1>1
<1>3. "conservation" \in Violations => ~Conserved
  BY <1>2 DEF Bad
<1>4. "reconciler" \in Violations => ~Conserved \/ OrphanLock
  BY <1>2 DEF Bad
<1>5. "at_most_once" \in Violations => ~AtMostOnce
  BY <1>2 DEF Bad
<1>6. ASSUME NEW v \in Violations
      PROVE  \/ ~Conserved \/ ~AtMostOnce \/ OrphanLock \/ OB!Unsent # {} \/ ~aborted
             \/ Owner # "processor" /\ Rows # Expected
             \/ Owner = "processor" /\ Cardinality(deposits) # 1
             \/ Owner # "api" /\ ~drained
  BY <1>2 DEF Bad, Kinds
<1>7. "no_stranded" \in Violations => OrphanLock \/ OB!Unsent # {}
  BY <1>2 DEF Bad
<1> QED BY <1>3, <1>4, <1>5, <1>6, <1>7

\* After a run with no wait run out the takeover's one key has one withdrawal.
LEMMA TakenOver ==
    ASSUME Parts, Plan, OneKey, TakeoverRun, Owner = "a2", ~gaveUp, step = "kill"
    PROVE  \E s : applied = {s}
<1>1. /\ APIP!TypeOK /\ APIP!AnswersAreDurable /\ APIP!AtMostOneEffect
      /\ \A r \in Requests : APIP!Key(r) = KeyOf(r) /\ KeyOf(r) = TheKey
  BY DEF Parts, APIP!IInv, APIP!Key, KeyOf, OneKey
<1>2. PICK n \in 0..3 : asked = Posted(n) /\ Turn(n)
  BY DEF Plan
<1>3. n = 3 /\ armed = None
  BY <1>2 DEF Turn
<1>4. Posts[3] \in asked /\ Posts[3] \in Requests
  BY <1>2, <1>3, PostedApart
<1>5. KeyHeld
  BY <1>3, <1>4 DEF TakeoverRun
<1>6. Third /\ pc[Posts[3]] \in Over
  BY <1>2, <1>3, <1>4, <1>5 DEF KeyHeld
<1>7. resp[Posts[3]].kind = "ok"
  BY <1>6 DEF Third, Over
<1>8. resp[Posts[3]].snap \in applied
  BY <1>1, <1>4, <1>7 DEF APIP!AnswersAreDurable
<1>9. applied \subseteq Requests
  BY <1>1 DEF APIP!TypeOK
<1>10. \A r, s \in applied : r = s
  BY <1>1, <1>9 DEF APIP!AtMostOneEffect, APIP!SameKey
<1>11. applied = {resp[Posts[3]].snap}
  BY <1>8, <1>10
<1> QED BY <1>11

\* There are as many withdrawals as the run is to have.
LEMMA RowsAsExpected ==
    ASSUME Parts, Plan, Ties, ApiRun, OneKey, TakeoverRun, Owner # "processor", ~gaveUp, step = "kill"
    PROVE  Rows = Expected
<1>1. Rows = Cardinality(Born)
  BY BornOf DEF Parts
<1>2. CASE Owner \in {"worker", "relay"}
  <2>1. Born = {First} /\ Expected = 1
    BY <1>2 DEF Ties, TablesTied, Expected
  <2> QED BY <1>1, <2>1, FS_Singleton
<1>3. CASE Owner \in {"api", "a2"}
  <2>1. Born = applied
    <3>1. applied \subseteq Requests
      BY DEF Parts, APIP!IInv, APIP!TypeOK
    <3> QED BY <1>3, <3>1 DEF Ties, TablesTied, TablesAgree, Born
  <2>2. CASE Owner = "api"
    <3>1. applied = {} /\ Expected = 0
      BY <2>2 DEF ApiRun, Expected
    <3> QED BY <1>1, <2>1, <3>1, FS_EmptySet
  <2>3. CASE Owner = "a2"
    <3>1. PICK s : applied = {s}
      BY <2>3, TakenOver
    <3>2. Expected = 1
      BY <2>3 DEF Expected
    <3> QED BY <1>1, <2>1, <3>1, <3>2, FS_Singleton
  <2> QED BY <1>3, <2>2, <2>3
<1> QED BY <1>2, <1>3, CellFacts DEF Plan

\* Nothing is stranded in an outbox when a run has drained.
LEMMA OutboxEmpty ==
    ASSUME Plan, Ties, ApiRun, OutboxDone, ~gaveUp, step = "kill"
    PROVE  OB!Unsent = {}
<1>1. CASE Owner \in {"worker", "processor"}
  BY <1>1 DEF Ties, TablesTied, OB!Unsent
<1>2. CASE Owner = "api"
  BY <1>2 DEF Ties, TablesTied, TablesAgree, ApiRun, OB!Unsent
<1>3. CASE Owner \in {"relay", "a2"}
  <2>1. drained
    BY <1>3 DEF Plan, Notes
  <2> QED BY <1>3, <2>1 DEF OutboxDone
<1> QED BY <1>1, <1>2, <1>3, CellFacts DEF Plan

\* What the oracles find in a run of which no wait has run out.
LEMMA NothingFound ==
    ASSUME Parts, Plan, Ties, CreditDone, Sends, ApiRun, OneKey, TakeoverRun, OutboxDone,
           ~gaveUp, ~DoubleSend, step = "kill"
    PROVE  Violations = {}
<1>1. Conserved /\ ~OrphanLock /\ AtMostOnce /\ OB!Unsent = {}
  BY MoneyIsRight, SentTwice, OutboxEmpty
<1>2. Owner # "processor" => Rows = Expected
  BY RowsAsExpected
<1>3. aborted /\ (Owner # "api" => drained)
  <2>1. PICK n \in 0..3 : asked = Posted(n) /\ Turn(n)
    BY DEF Plan
  <2>2. armed = None
    BY <2>1 DEF Turn
  <2> QED BY <2>2 DEF Plan, Notes
<1>4. Owner = "processor" => Cardinality(deposits) = 1
  BY <1>3, FS_Singleton DEF CreditDone, Emptied
<1> QED BY <1>1, <1>2, <1>3, <1>4, ViolationsMean

\* Alarms, as AlarmIsReal has them.
Real ==
    /\ "conservation" \notin verdict
    /\ verdict \cap {"no_stranded", "reconciler"} # {} => OB!Unsent # {}
    /\ "at_most_once" \in verdict => DoubleSend /\ Instances = 2
    /\ verdict \ {"A2(a)"} # {} => gaveUp \/ DoubleSend

\* An alarm is real when it is recorded, and after.
LEMMA AlarmStep ==
    ASSUME Parts, Plan, Ties, CreditDone, Sends, ApiRun, OneKey, TakeoverRun, OutboxDone, Replays,
           AlarmIsReal, [RunNext]_<<System, harness>>
    PROVE  AlarmIsReal'
<1>1. AlarmIsReal <=> (step = "done" => Real)
  BY DEF AlarmIsReal, Real
<1>2. AlarmIsReal' <=> (step' = "done" => Real')
  BY DEF AlarmIsReal, Real
<1>3. CASE step = "done"
  <2>1. UNCHANGED <<step, verdict, gaveUp, cell, sends, committed, sent>>
    BY <1>3, DoneStays DEF harness, plan, worker, relay
  <2>2. Real => Real'
    BY <2>1 DEF Real, DoubleSend, Instances, OB!Unsent
  <2> QED BY <1>1, <1>2, <2>1, <2>2
<1>4. CASE Verdict
  <2>1. /\ step = "kill" /\ \E late \in SUBSET Overdue : verdict' = verdict \cup Violations \cup late
        /\ UNCHANGED <<gaveUp, cell, sends, committed, sent>>
    BY <1>4 DEF Verdict, At, System, payout, worker, relay
  <2>2. DoubleSend' = DoubleSend /\ Instances' = Instances /\ OB!Unsent' = OB!Unsent
    BY <2>1 DEF DoubleSend, Instances, OB!Unsent
  <2>3. verdict \subseteq {"A2(a)", "A2(b)"}
    BY <2>1 DEF Plan, Notes
  <2>4. PICK late \in SUBSET Overdue : verdict' = verdict \cup Violations \cup late
    BY <2>1
  <2>5. late \subseteq {"reconciler"} /\ (late # {} => OB!Unsent # {})
    BY DEF Overdue
  <2>6. /\ "conservation" \notin verdict'
        /\ verdict' \cap {"no_stranded", "reconciler"} # {} => OB!Unsent # {}
    BY <2>1, <2>3, <2>4, <2>5, MoneyIsRight, ViolationsMean
  <2>7. "at_most_once" \in verdict' => DoubleSend /\ Instances = 2
    BY <2>1, <2>3, <2>4, <2>5, SentTwice, ViolationsMean
  <2>8. ASSUME ~gaveUp, ~DoubleSend PROVE verdict' \ {"A2(a)"} = {}
    <3>1. "A2(b)" \notin verdict
      BY <2>1, <2>8 DEF TakeoverRun, Replays
    <3>2. OB!Unsent = {}
      BY <2>1, <2>8, OutboxEmpty
    <3> QED BY <2>1, <2>3, <2>4, <2>5, <2>8, <3>1, <3>2, NothingFound
  <2> QED BY <1>2, <2>1, <2>2, <2>6, <2>7, <2>8 DEF Real
<1> QED BY <1>2, <1>3, <1>4, DoneFrom

\* Whatever the harness kills, and when: it never reports lost funds, nor
\* stranded ones but for an outbox row that is unsent; it reports a second send
\* only where two consumers made one; and with
\* no wait run out it reports nothing but that and a lease that had expired
\* before the first replay.
THEOREM AlarmsAreReal == RunSpec => []AlarmIsReal
<1>1. RunInit => AlarmIsReal /\ Sends /\ ApiRun /\ OneKey /\ TakeoverRun /\ OutboxDone /\ Replays
  <2>1. RunInit => AlarmIsReal /\ Replays
    BY DEF RunInit, AlarmIsReal, Replays
  <2> QED BY <2>1, SendsInit, ApiRunInit
<1> DEFINE Rest == Sends /\ ApiRun /\ OneKey /\ TakeoverRun /\ OutboxDone /\ Replays /\ AlarmIsReal
<1>2. RunInv /\ RunInv' /\ Rest /\ [RunNext]_<<System, harness>> => Rest'
  <2> SUFFICES ASSUME RunInv, RunInv', Rest, [RunNext]_<<System, harness>> PROVE Rest'
    OBVIOUS
  <2>1. Parts /\ Plan /\ Ties /\ CreditDone /\ Plan'
    BY DEF RunInv
  <2>2. Sends' /\ ApiRun' /\ OneKey' /\ Replays'
    BY <2>1, SendsStep, ApiRunStep, OneKeyStep, ReplaysStep
  <2>3. TakeoverRun' /\ OutboxDone'
    BY <2>1, TakeoverStep, OutboxDoneStep
  <2>4. AlarmIsReal'
    BY <2>1, AlarmStep
  <2> QED BY <2>2, <2>3, <2>4
<1> QED BY <1>1, <1>2, RunInvariance, PTL DEF RunSpec
=============================================================================

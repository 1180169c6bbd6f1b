---------------------------- MODULE IdemExecute ----------------------------
(***************************************************************************)
(* The inbound idempotency-key spine: execute_idempotent (api/src/idem.rs)  *)
(* over the idempotency_keys table (store/src/idempotency_pg.rs) and the    *)
(* pure decision (idempotency/src/decision.rs).                             *)
(*                                                                          *)
(* Each member of Requests is one call of execute_idempotent, in some API   *)
(* process, with a fresh lease owner (the call itself stands for its UUID). *)
(* One action is one database statement or one transaction boundary, so     *)
(* requests interleave between acquire, decide, take-over, effect,          *)
(* completion and commit, and a process may die at each of those points.    *)
(*                                                                          *)
(* Time: a lease deadline is only ever compared with the clock, so a row    *)
(* keeps the time LEFT on its lease, clipped at Expired, and Tick takes one *)
(* unit off every lease at once.                                            *)
(***************************************************************************)
EXTENDS Integers

CONSTANTS
    Keys,           \* values of the Idempotency-Key header
    Fingerprints,   \* hashes of method, path and raw body
    Requests,       \* calls of execute_idempotent
    Lease,          \* IDEMPOTENCY_LEASE_SECS, in clock units
    None            \* no owner, no snapshot

ASSUME LeaseAssumption == Lease \in Nat \ {0}
ASSUME NoneAssumption == None \notin Requests

VARIABLES
    req,       \* [key, fp] of each request: fixed by its HTTP request
    row,       \* the committed idempotency_keys row of each key
    pc,        \* where each request is in execute_idempotent
    rec,       \* the KeyRecord it last read
    applied,   \* requests whose effect is committed
    resp       \* what it answered

vars == <<req, row, pc, rec, applied, resp>>

----------------------------------------------------------------------------
(* Rows and records *)

Expired == -1
TimeLeft == Expired..Lease

\* KeyStatus plus "absent": no row with this key.
Row == [status : {"absent", "in_progress", "completed"},
        fp     : Fingerprints \cup {None},
        left   : TimeLeft,                  \* lease_deadline - now, clipped
        owner  : Requests \cup {None},
        snap   : Requests \cup {None}]      \* whose response is stored

AbsentRow == [status |-> "absent", fp |-> None, left |-> Expired,
              owner |-> None, snap |-> None]

Steps == {"acquire", "decide", "takeover", "execute", "complete", "commit",
          "reread", "done", "crashed"}

Response == [kind : {"none", "ok", "conflict", "retry_after", "error"},
             snap : Requests \cup {None}]

Unanswered == [kind |-> "none", snap |-> None]

Key(r) == req[r].key

\* One unit later.
Aged(t) == IF t = Expired THEN Expired ELSE t - 1

\* The UPDATE of complete() locks its row until its transaction ends.
RowLocked(k) == \E r \in Requests : pc[r] = "commit" /\ Key(r) = k

TypeOK ==
    /\ req \in [Requests -> [key : Keys, fp : Fingerprints]]
    /\ row \in [Keys -> Row]
    /\ pc \in [Requests -> Steps]
    /\ rec \in [Requests -> Row]
    /\ applied \in SUBSET Requests
    /\ resp \in [Requests -> Response]

Init ==
    /\ req \in [Requests -> [key : Keys, fp : Fingerprints]]
    /\ row = [k \in Keys |-> AbsentRow]
    /\ pc = [r \in Requests |-> "acquire"]
    /\ rec = [r \in Requests |-> AbsentRow]
    /\ applied = {}
    /\ resp = [r \in Requests |-> Unanswered]

----------------------------------------------------------------------------
(* Steps of execute_idempotent *)

Goto(r, step) == pc' = [pc EXCEPT ![r] = step]

Answer(r, kind, snap) ==
    /\ Goto(r, "done")
    /\ resp' = [resp EXCEPT ![r] = [kind |-> kind, snap |-> snap]]

\* acquire, the INSERT wins: an autocommitted in_progress row.  The deadline
\* comes from a clock read before a pooled connection was waited for, so the
\* lease may already be partly or wholly spent.
AcquireFresh(r) ==
    /\ pc[r] = "acquire"
    /\ row[Key(r)].status = "absent"
    /\ \E left \in TimeLeft :
          row' = [row EXCEPT ![Key(r)] =
                    [status |-> "in_progress", fp |-> req[r].fp, left |-> left,
                     owner |-> r, snap |-> None]]
    /\ Goto(r, "execute")
    /\ UNCHANGED <<req, rec, applied, resp>>

\* acquire, ON CONFLICT DO NOTHING: read the committed row for decide.
AcquireExisting(r) ==
    /\ pc[r] = "acquire"
    /\ row[Key(r)].status # "absent"
    /\ rec' = [rec EXCEPT ![r] = row[Key(r)]]
    /\ Goto(r, "decide")
    /\ UNCHANGED <<req, row, applied, resp>>

\* decide: the branch for an existing record.  (The record has aged with the
\* clock since it was read, the row may have been changed by others.)
DecideReplay(r) ==
    /\ pc[r] = "decide"
    /\ rec[r].status = "completed"
    /\ rec[r].fp = req[r].fp
    /\ Answer(r, "ok", rec[r].snap)
    /\ UNCHANGED <<req, row, rec, applied>>

DecideConflict(r) ==
    /\ pc[r] = "decide"
    /\ rec[r].status = "completed"
    /\ rec[r].fp # req[r].fp
    /\ Answer(r, "conflict", None)
    /\ UNCHANGED <<req, row, rec, applied>>

DecideRetryAfter(r) ==
    /\ pc[r] = "decide"
    /\ rec[r].status = "in_progress"
    /\ rec[r].left > 0
    /\ Answer(r, "retry_after", None)
    /\ UNCHANGED <<req, row, rec, applied>>

DecideTakeover(r) ==
    /\ pc[r] = "decide"
    /\ rec[r].status = "in_progress"
    /\ rec[r].left <= 0
    /\ Goto(r, "takeover")
    /\ UNCHANGED <<req, row, rec, applied, resp>>

\* What the takeover UPDATE filters on: status and a deadline strictly past.
\* (MayTakeAnyExpired forgets the status; MayTakeLive compares the wrong way.)
MayTakeAnyExpired(k) == row[k].status # "absent" /\ row[k].left < 0
MayTakeLive(k) == row[k].status = "in_progress" /\ row[k].left > 0
MayTakeOver(k) == row[k].status = "in_progress" /\ row[k].left < 0

\* takeover, one row updated: new deadline and owner, same fingerprint.
TakeoverWon(r) ==
    /\ pc[r] = "takeover"
    /\ ~RowLocked(Key(r))
    /\ MayTakeOver(Key(r))
    /\ \E left \in TimeLeft :
          row' = [row EXCEPT ![Key(r)] = [@ EXCEPT !.left = left, !.owner = r]]
    /\ Goto(r, "execute")
    /\ UNCHANGED <<req, rec, applied, resp>>

\* takeover, no row matched: back to the top of the loop.
TakeoverLost(r) ==
    /\ pc[r] = "takeover"
    /\ ~RowLocked(Key(r))
    /\ ~MayTakeOver(Key(r))
    /\ Goto(r, "acquire")
    /\ UNCHANGED <<req, row, rec, applied, resp>>

\* with_tx { run_effect ... }: the effect succeeds, uncommitted; or it asks
\* for a rollback (create_withdrawal_and_lock short of funds); or it errs.
\* (RunEffectDurably commits the effect in a transaction of its own.)
RunEffectDurably(r) ==
    /\ pc[r] = "execute"
    /\ applied' = applied \cup {r}
    /\ Goto(r, "complete")
    /\ UNCHANGED <<req, row, rec, resp>>

RunEffect(r) ==
    /\ pc[r] = "execute"
    /\ Goto(r, "complete")
    /\ UNCHANGED <<req, row, rec, applied, resp>>

EffectRollsBack(r) ==
    /\ pc[r] = "execute"
    /\ Goto(r, "reread")
    /\ UNCHANGED <<req, row, rec, applied, resp>>

\* What the completing UPDATE filters on.
\* (AlwaysOwns is a completion that does not check who owns the key.)
AlwaysOwns(r) == TRUE
StillOwns(r) == row[Key(r)].status = "in_progress" /\ row[Key(r)].owner = r

\* complete matches: the row is updated under its lock, not yet committed.
CompleteWon(r) ==
    /\ pc[r] = "complete"
    /\ ~RowLocked(Key(r))
    /\ StillOwns(r)
    /\ Goto(r, "commit")
    /\ UNCHANGED <<req, row, rec, applied, resp>>

\* complete matches nothing: the whole transaction, effect included, rolls back.
CompleteLost(r) ==
    /\ pc[r] = "complete"
    /\ ~RowLocked(Key(r))
    /\ ~StillOwns(r)
    /\ Goto(r, "reread")
    /\ UNCHANGED <<req, row, rec, applied, resp>>

\* The transaction commits: effect and completed row become durable together.
CommitTx(r) ==
    /\ row' = [row EXCEPT ![Key(r)] = [@ EXCEPT !.status = "completed",
                                               !.left = Expired,
                                               !.snap = r]]
    /\ applied' = applied \cup {r}

Commit(r) ==
    /\ pc[r] = "commit"
    /\ CommitTx(r)
    /\ Answer(r, "ok", r)
    /\ UNCHANGED <<req, rec>>

\* The database commits but the reply to COMMIT is lost: a 500 is answered.
CommitUnheard(r) ==
    /\ pc[r] = "commit"
    /\ CommitTx(r)
    /\ Answer(r, "error", None)
    /\ UNCHANGED <<req, rec>>

\* After RollbackTransaction: replay the winner if there is one, without
\* looking at its fingerprint, else a 500.
\* (RereadBlindly does not look whether a winner has completed.)
RereadBlindly(r) ==
    /\ pc[r] = "reread"
    /\ Answer(r, "ok", row[Key(r)].snap)
    /\ UNCHANGED <<req, row, rec, applied>>

Reread(r) ==
    /\ pc[r] = "reread"
    /\ IF row[Key(r)].status = "completed"
         THEN Answer(r, "ok", row[Key(r)].snap)
         ELSE Answer(r, "error", None)
    /\ UNCHANGED <<req, row, rec, applied>>

\* Any statement may fail (pool timeout, lost connection): the transaction,
\* if one is open, rolls back and the error is answered.
DbError(r) ==
    /\ pc[r] \in {"acquire", "takeover", "execute", "complete", "commit", "reread"}
    /\ Answer(r, "error", None)
    /\ UNCHANGED <<req, row, rec, applied>>

\* The API process dies: an open transaction rolls back, nothing is answered.
Crash(r) ==
    /\ pc[r] \notin {"done", "crashed"}
    /\ Goto(r, "crashed")
    /\ UNCHANGED <<req, row, rec, applied, resp>>

----------------------------------------------------------------------------
(* The clock *)

LeaseRuns(x) == x.left # Expired

Tick ==
    /\ \/ \E k \in Keys : LeaseRuns(row[k])
       \/ \E r \in Requests : LeaseRuns(rec[r])
    /\ row' = [k \in Keys |-> [row[k] EXCEPT !.left = Aged(@)]]
    /\ rec' = [r \in Requests |-> [rec[r] EXCEPT !.left = Aged(@)]]
    /\ UNCHANGED <<req, pc, applied, resp>>

----------------------------------------------------------------------------
Step(r) ==
    \/ AcquireFresh(r) \/ AcquireExisting(r)
    \/ DecideReplay(r) \/ DecideConflict(r)
    \/ DecideRetryAfter(r) \/ DecideTakeover(r)
    \/ TakeoverWon(r) \/ TakeoverLost(r)
    \/ RunEffect(r) \/ EffectRollsBack(r)
    \/ CompleteWon(r) \/ CompleteLost(r)
    \/ Commit(r) \/ CommitUnheard(r)
    \/ Reread(r)

Next == \/ \E r \in Requests : Step(r) \/ DbError(r) \/ Crash(r)
        \/ Tick

\* A request that is not dead keeps executing, and time passes.
Fairness == WF_vars(Tick) /\ \A r \in Requests : WF_vars(Step(r))

Spec == Init /\ [][Next]_vars

FairSpec == Spec /\ Fairness

----------------------------------------------------------------------------
(* Properties *)

SameKey(r, s) == Key(r) = Key(s)

\* The takeover theorem (docs/DESIGN.md section 3): a key's row is completed if
\* and only if some execution's effect is durable, and the snapshot stored in
\* the row is that execution's.
CompletedIffApplied ==
    \A k \in Keys :
       /\ row[k].status = "completed" <=> \E r \in applied : Key(r) = k
       /\ row[k].status = "completed" => row[k].snap \in applied /\ Key(row[k].snap) = k

\* However many requests share a key, expire, are taken over or are retried,
\* the effect is durable at most once (effect and complete commit together).
AtMostOneEffect ==
    \A r, s \in applied : SameKey(r, s) => r = s

\* A 2xx answer, whether from the request's own commit, from decide or from the
\* reread after a rollback, reports an effect that is durable for that key.
AnswersAreDurable ==
    \A r \in Requests :
       resp[r].kind = "ok" => resp[r].snap \in applied /\ SameKey(r, resp[r].snap)

\* The loser of a takeover race leaves nothing behind: a request holding the
\* row lock of a completion is still the owner of an in_progress row.
CompletionHoldsLease ==
    \A r \in Requests : pc[r] = "commit" => StillOwns(r)

\* A completed row is final: no acquire, takeover or late completion touches it.
CompletedIsFinal ==
    [][\A k \in Keys : row[k].status = "completed" => row'[k] = row[k]]_vars

\* Every request is eventually answered or dead: the loop that goes round on a
\* lost takeover ends, the deadline-equals-now corner included.
EveryRequestEnds ==
    \A r \in Requests : <>(pc[r] \in {"done", "crashed"})

\* "The fingerprint is the guard for the same key, different payload case"
\* (idempotency/src/key.rs): a replayed answer is for the caller's own payload.
ReplayMatchesPayload ==
    \A r \in Requests :
       resp[r].kind = "ok" => req[resp[r].snap].fp = req[r].fp

----------------------------------------------------------------------------
(* Refinement *)

Effect == [k \in Keys |-> IF row[k].status = "completed" THEN row[k].snap ELSE None]

Abstract == INSTANCE ExactlyOnceEffect WITH
    keyOf  <- [r \in Requests |-> Key(r)],
    effect <- Effect,
    answer <- [r \in Requests |-> resp[r].snap]

\* The spine implements the promise made to clients.
ImplementsExactlyOnce == Abstract!Spec
=============================================================================

------------------------- MODULE IdemExecuteProofs -------------------------
(***************************************************************************)
(* The takeover theorem of docs/DESIGN.md section 3, for any number of      *)
(* requests, keys, payloads and any lease, with crashes, failed statements  *)
(* and lost commit replies: effect and completed row go together, a key has *)
(* at most one effect, and answers report it.                               *)
(***************************************************************************)
EXTENDS IdemExecute, TLAPS

\* A record read as completed still describes its row: completion is final.
RecordsHold ==
    \A r \in Requests :
       rec[r].status = "completed" =>
          row[Key(r)].status = "completed" /\ rec[r].snap = row[Key(r)].snap

\* Only an answered request has an answer, and only a 2xx carries a snapshot.
AnsweredOnce ==
    \A r \in Requests :
       /\ pc[r] # "done" => resp[r] = Unanswered
       /\ resp[r].kind # "ok" => resp[r].snap = None

\* complete clears the deadline, so the clock no longer changes the row.
CompletedHasNoLease ==
    \A k \in Keys : row[k].status = "completed" => row[k].left = Expired

\* The inductive invariant.
IInv == /\ TypeOK
        /\ CompletedIffApplied
        /\ AtMostOneEffect
        /\ AnswersAreDurable
        /\ CompletionHoldsLease
        /\ RecordsHold
        /\ CompletedHasNoLease
        /\ AnsweredOnce

\* Every row and record the code builds is a Row, every lease stays in range.
LEMMA RowTypes ==
    /\ AbsentRow \in Row
    /\ \A t \in TimeLeft : Aged(t) \in TimeLeft
    /\ \A x \in Row : [x EXCEPT !.left = Aged(@)] \in Row
    /\ Unanswered \in Response
    /\ Expired \in TimeLeft
BY LeaseAssumption DEF AbsentRow, Row, TimeLeft, Aged, Expired, Unanswered, Response

\* An answer of the right kind keeps the types of pc and resp.
LEMMA AnswerTypes ==
    ASSUME TypeOK, NEW r \in Requests,
           NEW kind \in {"ok", "conflict", "retry_after", "error"},
           NEW snap \in Requests \cup {None},
           Answer(r, kind, snap)
    PROVE  pc' \in [Requests -> Steps] /\ resp' \in [Requests -> Response]
BY DEF TypeOK, Answer, Goto, Steps, Response

\* The two updates of a row give rows.
LEMMA UpdatedRows ==
    ASSUME NEW x \in Row, NEW r \in Requests, NEW t \in TimeLeft
    PROVE  /\ [x EXCEPT !.left = t, !.owner = r] \in Row
           /\ [x EXCEPT !.status = "completed", !.left = t, !.snap = r] \in Row
BY DEF Row

LEMMA TypeInit == Init => TypeOK
BY RowTypes DEF Init, TypeOK, Steps

\* Every step of every request, and of the clock, keeps the types.
LEMMA TypeStep == TypeOK /\ [Next]_vars => TypeOK'
<1> SUFFICES ASSUME TypeOK, [Next]_vars PROVE TypeOK'
  OBVIOUS
<1> USE DEF TypeOK
<1>1. ASSUME NEW r \in Requests, Step(r) PROVE TypeOK'
  <2> USE DEF Goto, Steps, Key
  <2>1. CASE AcquireFresh(r)
    BY <2>1 DEF AcquireFresh, Row
  <2>2. CASE AcquireExisting(r)
    BY <2>2 DEF AcquireExisting
  <2>3. CASE DecideReplay(r) \/ DecideConflict(r) \/ DecideRetryAfter(r)
    <3>1. rec[r].snap \in Requests \cup {None} /\ None \in Requests \cup {None}
      BY DEF Row
    <3>2. pc' \in [Requests -> Steps] /\ resp' \in [Requests -> Response]
      BY <2>3, <3>1, AnswerTypes DEF DecideReplay, DecideConflict, DecideRetryAfter
    <3>3. QED
      BY <2>3, <3>2 DEF DecideReplay, DecideConflict, DecideRetryAfter
  <2>4. CASE DecideTakeover(r) \/ TakeoverLost(r)
    BY <2>4 DEF DecideTakeover, TakeoverLost
  <2>5. CASE TakeoverWon(r)
    <3>1. PICK left \in TimeLeft :
             row' = [row EXCEPT ![Key(r)] = [@ EXCEPT !.left = left, !.owner = r]]
      BY <2>5 DEF TakeoverWon
    <3>2. [row[Key(r)] EXCEPT !.left = left, !.owner = r] \in Row
      BY UpdatedRows
    <3>3. row' \in [Keys -> Row]
      BY <3>1, <3>2
    <3>4. QED
      BY <2>5, <3>3 DEF TakeoverWon
  <2>6. CASE RunEffect(r) \/ EffectRollsBack(r) \/ CompleteWon(r) \/ CompleteLost(r)
    BY <2>6 DEF RunEffect, EffectRollsBack, CompleteWon, CompleteLost
  <2>7. CASE Commit(r) \/ CommitUnheard(r)
    <3>1. row' \in [Keys -> Row]
      <4>1. [row[Key(r)] EXCEPT !.status = "completed", !.left = Expired, !.snap = r] \in Row
        BY RowTypes, UpdatedRows
      <4>2. QED
        BY <2>7, <4>1 DEF Commit, CommitUnheard, CommitTx
    <3>2. pc' \in [Requests -> Steps] /\ resp' \in [Requests -> Response]
      BY <2>7, AnswerTypes DEF Commit, CommitUnheard
    <3>3. QED
      BY <2>7, <3>1, <3>2 DEF Commit, CommitUnheard, CommitTx
  <2>8. CASE Reread(r)
    <3>1. row[Key(r)].snap \in Requests \cup {None}
      BY DEF Row
    <3>2. pc' \in [Requests -> Steps] /\ resp' \in [Requests -> Response]
      BY <2>8, <3>1, AnswerTypes DEF Reread
    <3>3. QED
      BY <2>8, <3>2 DEF Reread
  <2>9. QED
    BY <1>1, <2>1, <2>2, <2>3, <2>4, <2>5, <2>6, <2>7, <2>8 DEF Step
<1>2. ASSUME NEW r \in Requests, DbError(r) \/ Crash(r) PROVE TypeOK'
  BY <1>2, AnswerTypes DEF DbError, Crash, Goto, Steps
<1>3. CASE Tick
  BY <1>3, RowTypes DEF Tick
<1>4. CASE UNCHANGED vars
  BY <1>4 DEF vars
<1>5. QED
  BY <1>1, <1>2, <1>3, <1>4 DEF Next

\* The state components always have their types (rows, records, answers).
THEOREM TypeCorrect == Spec => []TypeOK
<1>1. QED
  BY TypeInit, TypeStep, PTL DEF Spec

----------------------------------------------------------------------------
LEMMA SafeInit == Init => IInv
<1> SUFFICES ASSUME Init PROVE IInv
  OBVIOUS
<1>1. TypeOK
  BY TypeInit
<1>2. QED
  BY <1>1 DEF Init, IInv, CompletedIffApplied, AtMostOneEffect, AnswersAreDurable,
              CompletionHoldsLease, RecordsHold, CompletedHasNoLease,
       AnsweredOnce, AbsentRow, Unanswered

\* Steps that neither write the row nor answer, and do not take its lock.
LEMMA QuietStep ==
    ASSUME IInv, NEW r \in Requests, NEW step \in Steps \ {"commit"},
           pc[r] # "done", Goto(r, step), UNCHANGED <<req, row, rec, applied, resp>>,
           TypeOK'
    PROVE  IInv'
BY DEF IInv, TypeOK, Goto, CompletedIffApplied, AtMostOneEffect, AnswersAreDurable,
       CompletionHoldsLease, StillOwns, RecordsHold, CompletedHasNoLease,
       AnsweredOnce, SameKey, Key

\* Steps that only answer: either no snapshot, or one that is durable.
LEMMA AnswerStep ==
    ASSUME IInv, NEW r \in Requests, NEW kind, NEW snap,
           pc[r] # "done", Answer(r, kind, snap), UNCHANGED <<req, row, rec, applied>>,
           TypeOK',
           IF kind = "ok" THEN snap \in applied /\ SameKey(r, snap) ELSE snap = None
    PROVE  IInv'
<1> USE DEF IInv, TypeOK, Answer, Goto, SameKey, Key
<1>1. CompletedIffApplied' /\ AtMostOneEffect' /\ RecordsHold' /\ CompletedHasNoLease'
  BY DEF CompletedIffApplied, AtMostOneEffect, RecordsHold, CompletedHasNoLease
<1>2. CompletionHoldsLease'
  BY DEF CompletionHoldsLease, StillOwns
<1>3. AnswersAreDurable' /\ AnsweredOnce'
  BY DEF AnswersAreDurable, AnsweredOnce
<1>4. QED
  BY <1>1, <1>2, <1>3

\* Steps that give an absent or expired key an owner; nobody holds its lock.
LEMMA OwnerStep ==
    ASSUME IInv, NEW r \in Requests, NEW x \in Row,
           pc[r] \notin {"done", "commit"}, Goto(r, "execute"),
           row[Key(r)].status # "completed", ~RowLocked(Key(r)),
           x.status = "in_progress", row' = [row EXCEPT ![Key(r)] = x],
           UNCHANGED <<req, rec, applied, resp>>, TypeOK'
    PROVE  IInv'
<1> USE DEF IInv, TypeOK, Goto, SameKey, Key
<1>1. AtMostOneEffect' /\ AnswersAreDurable' /\ AnsweredOnce'
  BY DEF AtMostOneEffect, AnswersAreDurable, AnsweredOnce
<1>2. CompletedIffApplied'
  BY DEF CompletedIffApplied
<1>3. CompletionHoldsLease'
  BY DEF CompletionHoldsLease, StillOwns, RowLocked
<1>4. RecordsHold' /\ CompletedHasNoLease'
  BY DEF RecordsHold, CompletedHasNoLease
<1>5. QED
  BY <1>1, <1>2, <1>3, <1>4

\* The commit makes the effect durable and the row completed in one step.
LEMMA CommitStep ==
    ASSUME IInv, NEW r \in Requests, pc[r] = "commit", CommitTx(r),
           Answer(r, "ok", r) \/ Answer(r, "error", None), UNCHANGED <<req, rec>>,
           TypeOK'
    PROVE  IInv'
<1> USE DEF IInv, TypeOK, Answer, Goto, SameKey, Key, CommitTx
<1>1. StillOwns(r)
  BY DEF CompletionHoldsLease
<1>2. /\ row'[Key(r)].status = "completed"
      /\ row'[Key(r)].snap = r
      /\ row'[Key(r)].left = Expired
  BY DEF Row
<1>3. \A k \in Keys : k # Key(r) => row'[k] = row[k]
  OBVIOUS
<1>4. \A s \in applied : ~SameKey(r, s)
  BY <1>1 DEF StillOwns, CompletedIffApplied
<1>5. AtMostOneEffect'
  BY <1>4 DEF AtMostOneEffect
<1>6. CompletedIffApplied'
  BY <1>2, <1>3 DEF CompletedIffApplied
<1>7. CompletionHoldsLease'
  <2>1. \A s \in Requests : pc'[s] = "commit" => Key(s) # Key(r)
    <3> SUFFICES ASSUME NEW s \in Requests, pc'[s] = "commit", Key(s) = Key(r)
                 PROVE  FALSE
      OBVIOUS
    <3>1. pc'[r] = "done"
      OBVIOUS
    <3>2. s # r /\ pc[s] = "commit"
      BY <3>1
    <3>3. row[Key(s)].owner = s
      BY <3>2 DEF CompletionHoldsLease, StillOwns
    <3>4. QED
      BY <3>2, <3>3, <1>1 DEF StillOwns
  <2>2. QED
    BY <2>1, <1>3 DEF CompletionHoldsLease, StillOwns
<1>8. RecordsHold' /\ CompletedHasNoLease'
  BY <1>1, <1>2, <1>3 DEF RecordsHold, CompletedHasNoLease, StillOwns
<1>9. AnswersAreDurable' /\ AnsweredOnce'
  <2>1. PICK a \in {[kind |-> "ok", snap |-> r], [kind |-> "error", snap |-> None]} :
           resp' = [resp EXCEPT ![r] = a]
    OBVIOUS
  <2>2. applied \subseteq applied' /\ r \in applied'
    OBVIOUS
  <2>3. AnswersAreDurable'
    BY <2>1, <2>2 DEF AnswersAreDurable
  <2>4. AnsweredOnce'
    BY <2>1 DEF AnsweredOnce
  <2>5. QED
    BY <2>3, <2>4
<1>10. QED
  BY <1>5, <1>6, <1>7, <1>8, <1>9

\* The clock changes no status, owner or snapshot.
LEMMA TickStep == IInv /\ Tick /\ TypeOK' => IInv'
<1> SUFFICES ASSUME IInv, Tick, TypeOK' PROVE IInv'
  OBVIOUS
<1> USE DEF IInv, TypeOK, Key, SameKey
<1>1. \A k \in Keys : /\ row'[k].status = row[k].status
                      /\ row'[k].owner = row[k].owner
                      /\ row'[k].snap = row[k].snap
  BY DEF Tick, Row
<1>2. \A r \in Requests : /\ rec'[r].status = rec[r].status
                          /\ rec'[r].snap = rec[r].snap
  BY DEF Tick, Row
<1>3. UNCHANGED <<req, pc, applied, resp>>
  BY DEF Tick
<1>4. CompletedIffApplied' /\ AtMostOneEffect' /\ AnswersAreDurable'
  BY <1>1, <1>3 DEF CompletedIffApplied, AtMostOneEffect, AnswersAreDurable
<1>5. CompletionHoldsLease'
  BY <1>1, <1>3 DEF CompletionHoldsLease, StillOwns
<1>6. RecordsHold' /\ CompletedHasNoLease' /\ AnsweredOnce'
  BY <1>1, <1>2, <1>3 DEF RecordsHold, CompletedHasNoLease, AnsweredOnce, Tick, Row, Aged
<1>7. QED
  BY <1>4, <1>5, <1>6

LEMMA SafeStep == IInv /\ [Next]_vars => IInv'
<1> SUFFICES ASSUME IInv, [Next]_vars PROVE IInv'
  OBVIOUS
<1>1. TypeOK'
  BY TypeStep DEF IInv
<1>2. ASSUME NEW r \in Requests, Step(r) PROVE IInv'
  <2>1. CASE AcquireFresh(r)
    <3>1. PICK left \in TimeLeft :
             row' = [row EXCEPT ![Key(r)] =
                       [status |-> "in_progress", fp |-> req[r].fp, left |-> left,
                        owner |-> r, snap |-> None]]
      BY <2>1 DEF AcquireFresh
    <3>2. [status |-> "in_progress", fp |-> req[r].fp, left |-> left,
           owner |-> r, snap |-> None] \in Row
      BY DEF Row, IInv, TypeOK
    <3>3. ~RowLocked(Key(r))
      BY <2>1 DEF AcquireFresh, RowLocked, IInv, CompletionHoldsLease, StillOwns
    <3>4. QED
      BY <1>1, <2>1, <3>1, <3>2, <3>3, OwnerStep DEF AcquireFresh
  <2>2. CASE AcquireExisting(r)
    <3> USE <2>2 DEF AcquireExisting, IInv, TypeOK, Goto, Key, SameKey
    <3>1. CompletedIffApplied' /\ AtMostOneEffect' /\ AnswersAreDurable' /\ AnsweredOnce'
      BY DEF CompletedIffApplied, AtMostOneEffect, AnswersAreDurable, AnsweredOnce
    <3>2. CompletionHoldsLease' /\ CompletedHasNoLease'
      BY DEF CompletionHoldsLease, CompletedHasNoLease, StillOwns
    <3>3. RecordsHold'
      BY DEF RecordsHold
    <3>4. QED
      BY <1>1, <3>1, <3>2, <3>3
  <2>3. CASE DecideReplay(r)
    <3>1. rec[r].snap \in applied /\ SameKey(r, rec[r].snap)
      BY <2>3 DEF DecideReplay, IInv, TypeOK, RecordsHold, CompletedIffApplied, SameKey, Key
    <3>2. QED
      BY <1>1, <2>3, <3>1, AnswerStep DEF DecideReplay
  <2>4. CASE DecideConflict(r) \/ DecideRetryAfter(r)
    BY <1>1, <2>4, AnswerStep DEF DecideConflict, DecideRetryAfter
  <2>5. CASE DecideTakeover(r) \/ TakeoverLost(r)
    BY <1>1, <2>5, QuietStep DEF DecideTakeover, TakeoverLost, Steps
  <2>6. CASE TakeoverWon(r)
    <3>1. PICK left \in TimeLeft :
             row' = [row EXCEPT ![Key(r)] = [@ EXCEPT !.left = left, !.owner = r]]
      BY <2>6 DEF TakeoverWon
    <3>2. row[Key(r)] \in Row
      BY DEF IInv, TypeOK, Key
    <3>3. /\ [row[Key(r)] EXCEPT !.left = left, !.owner = r] \in Row
          /\ [row[Key(r)] EXCEPT !.left = left, !.owner = r].status = row[Key(r)].status
      BY <3>2, UpdatedRows DEF Row
    <3>4. row' = [row EXCEPT ![Key(r)] = [row[Key(r)] EXCEPT !.left = left, !.owner = r]]
      BY <3>1
    <3>5. QED
      BY <1>1, <2>6, <3>3, <3>4, OwnerStep DEF TakeoverWon, MayTakeOver
  <2>7. CASE RunEffect(r) \/ EffectRollsBack(r) \/ CompleteLost(r)
    BY <1>1, <2>7, QuietStep DEF RunEffect, EffectRollsBack, CompleteLost, Steps
  <2>8. CASE CompleteWon(r)
    <3> USE <2>8 DEF CompleteWon, IInv, TypeOK, Goto, Key, SameKey
    <3>1. CompletedIffApplied' /\ AtMostOneEffect' /\ AnswersAreDurable' /\ AnsweredOnce'
      BY DEF CompletedIffApplied, AtMostOneEffect, AnswersAreDurable, AnsweredOnce
    <3>2. CompletionHoldsLease' /\ RecordsHold' /\ CompletedHasNoLease'
      BY DEF CompletionHoldsLease, StillOwns, RecordsHold, CompletedHasNoLease
    <3>3. QED
      BY <1>1, <3>1, <3>2
  <2>9. CASE Commit(r) \/ CommitUnheard(r)
    BY <1>1, <2>9, CommitStep DEF Commit, CommitUnheard
  <2>10. CASE Reread(r)
    <3>1. row[Key(r)].status = "completed" =>
             row[Key(r)].snap \in applied /\ SameKey(r, row[Key(r)].snap)
      BY DEF IInv, TypeOK, CompletedIffApplied, SameKey, Key
    <3>2. QED
      BY <1>1, <2>10, <3>1, AnswerStep DEF Reread
  <2>11. QED
    BY <1>2, <2>1, <2>2, <2>3, <2>4, <2>5, <2>6, <2>7, <2>8, <2>9, <2>10 DEF Step
<1>3. ASSUME NEW r \in Requests, DbError(r) PROVE IInv'
  BY <1>1, <1>3, AnswerStep DEF DbError
<1>4. ASSUME NEW r \in Requests, Crash(r) PROVE IInv'
  BY <1>1, <1>4, QuietStep DEF Crash, Steps
<1>5. CASE Tick
  BY <1>1, <1>5, TickStep
<1>6. CASE UNCHANGED vars
  BY <1>6 DEF vars, IInv, TypeOK, CompletedIffApplied, AtMostOneEffect, AnswersAreDurable,
              CompletionHoldsLease, StillOwns, RecordsHold, CompletedHasNoLease,
              AnsweredOnce, SameKey, Key
<1>7. QED
  BY <1>2, <1>3, <1>4, <1>5, <1>6 DEF Next

LEMMA Invariance == Spec => []IInv
<1>1. QED
  BY SafeInit, SafeStep, PTL DEF Spec

\* A key's row is completed exactly when an effect is durable for it, and the
\* stored snapshot is that effect's (effect and complete share one with_tx).
THEOREM CompletedIffEffect == Spec => []CompletedIffApplied
<1>1. IInv => CompletedIffApplied
  BY DEF IInv
<1>2. QED
  BY <1>1, Invariance, PTL

\* However requests for a key interleave, its effect is durable at most once.
THEOREM EffectAtMostOnce == Spec => []AtMostOneEffect
<1>1. IInv => AtMostOneEffect
  BY DEF IInv
<1>2. QED
  BY <1>1, Invariance, PTL

\* Every 2xx answer reports an effect that is durable for the request's key.
THEOREM AnswersTrue == Spec => []AnswersAreDurable
<1>1. IInv => AnswersAreDurable
  BY DEF IInv
<1>2. QED
  BY <1>1, Invariance, PTL

\* A completed row is never written again.
THEOREM CompletionIsFinal == Spec => CompletedIsFinal
<1>1. ASSUME IInv, [Next]_vars, NEW k \in Keys, row[k].status = "completed"
      PROVE  row'[k] = row[k]
  <2> USE <1>1 DEF IInv, TypeOK
  <2>1. ASSUME NEW r \in Requests, Step(r) PROVE row'[k] = row[k]
    <3>1. CASE AcquireFresh(r)
      BY <3>1 DEF AcquireFresh
    <3>2. CASE TakeoverWon(r)
      BY <3>2 DEF TakeoverWon, MayTakeOver
    <3>3. CASE Commit(r) \/ CommitUnheard(r)
      <4>1. row[Key(r)].status = "in_progress"
        BY <3>3 DEF Commit, CommitUnheard, CompletionHoldsLease, StillOwns
      <4>2. QED
        BY <3>3, <4>1 DEF Commit, CommitUnheard, CommitTx
    <3>4. \/ AcquireFresh(r) \/ TakeoverWon(r) \/ Commit(r) \/ CommitUnheard(r)
          \/ row' = row
      BY <2>1 DEF Step, AcquireExisting, DecideReplay, DecideConflict, DecideRetryAfter,
                  DecideTakeover, TakeoverLost, RunEffect, EffectRollsBack,
                  CompleteWon, CompleteLost, Reread
    <3>5. QED
      BY <3>1, <3>2, <3>3, <3>4
  <2>2. ASSUME NEW r \in Requests, DbError(r) \/ Crash(r) PROVE row'[k] = row[k]
    BY <2>2 DEF DbError, Crash
  <2>3. CASE Tick
    <3>1. row'[k] = [row[k] EXCEPT !.left = Aged(@)]
      BY <2>3 DEF Tick
    <3>2. row[k] \in Row /\ row[k].left = Expired
      BY DEF CompletedHasNoLease
    <3>3. QED
      BY <3>1, <3>2 DEF Row, Aged
  <2>4. CASE UNCHANGED vars
    BY <2>4 DEF vars
  <2>5. QED
    BY <1>1, <2>1, <2>2, <2>3, <2>4 DEF Next
<1>2. IInv /\ [Next]_vars =>
         [\A k \in Keys : row[k].status = "completed" => row'[k] = row[k]]_vars
  BY <1>1
<1>3. QED
  BY <1>2, Invariance, PTL DEF CompletedIsFinal, Spec

----------------------------------------------------------------------------
(* The refinement: keyOf, effect and answer as IdemExecute maps them. *)

KeyMap == [r \in Requests |-> Key(r)]
AnswerMap == [r \in Requests |-> resp[r].snap]

LEMMA AbstractInit == Init => Abstract!Init
<1> SUFFICES ASSUME Init PROVE Abstract!Init
  OBVIOUS
<1>1. KeyMap \in [Requests -> Keys]
  BY DEF Init, KeyMap, Key
<1>2. Effect = [k \in Keys |-> None]
  BY DEF Init, Effect, AbsentRow
<1>3. AnswerMap = [r \in Requests |-> None]
  BY DEF Init, AnswerMap, Unanswered
<1>4. QED
  BY <1>1, <1>2, <1>3 DEF Abstract!Init, KeyMap, AnswerMap

\* A step that completes no row and gives no snapshot is invisible to clients.
LEMMA InvisibleStep ==
    ASSUME UNCHANGED req,
           \A k \in Keys : /\ row'[k].status = "completed" <=> row[k].status = "completed"
                           /\ row[k].status = "completed" => row'[k].snap = row[k].snap,
           \A r \in Requests : resp'[r].snap = resp[r].snap
    PROVE  UNCHANGED Abstract!vars
<1>1. Effect' = Effect
  BY DEF Effect
<1>2. KeyMap' = KeyMap /\ AnswerMap' = AnswerMap
  BY DEF KeyMap, AnswerMap, Key
<1>3. QED
  BY <1>1, <1>2 DEF Abstract!vars, KeyMap, AnswerMap

\* A commit is the abstract Apply, heard of or not by the client.
LEMMA CommitApplies ==
    ASSUME IInv, IInv', NEW r \in Requests, Commit(r) \/ CommitUnheard(r)
    PROVE  Abstract!Apply(r)
<1> USE DEF IInv, TypeOK, Key, KeyMap, AnswerMap
<1>1. row[Key(r)].status = "in_progress" /\ resp[r] = Unanswered
  BY DEF Commit, CommitUnheard, CompletionHoldsLease, StillOwns, AnsweredOnce
<1>2. Effect[Key(r)] = None
  BY <1>1 DEF Effect
<1>3. Effect' = [Effect EXCEPT ![Key(r)] = r]
  <2>1. row'[Key(r)].status = "completed" /\ row'[Key(r)].snap = r
    <3>1. Key(r) \in Keys /\ row[Key(r)] \in Row
      OBVIOUS
    <3>2. row'[Key(r)] = [row[Key(r)] EXCEPT !.status = "completed", !.left = Expired,
                                            !.snap = r]
      BY <3>1 DEF Commit, CommitUnheard, CommitTx
    <3>3. QED
      BY <3>1, <3>2 DEF Row
  <2>2. \A k \in Keys : k # Key(r) => row'[k] = row[k]
    BY DEF Commit, CommitUnheard, CommitTx
  <2>3. QED
    BY <2>1, <2>2 DEF Effect
<1>4. \/ AnswerMap' = [AnswerMap EXCEPT ![r] = r]
      \/ AnswerMap' = AnswerMap
  <2>1. CASE Commit(r)
    BY <2>1 DEF Commit, Answer
  <2>2. CASE CommitUnheard(r)
    BY <2>2, <1>1 DEF CommitUnheard, Answer, Unanswered
  <2>3. QED
    BY <2>1, <2>2
<1>5. KeyMap' = KeyMap
  BY DEF Commit, CommitUnheard
<1>6. KeyMap[r] = Key(r)
  OBVIOUS
<1>7. QED
  BY <1>2, <1>3, <1>4, <1>5, <1>6 DEF Abstract!Apply

\* An answer is the abstract Replay, or tells the client no effect.
LEMMA AnswerReplays ==
    ASSUME IInv, NEW r \in Requests, NEW kind, NEW snap, pc[r] # "done",
           Answer(r, kind, snap), UNCHANGED <<req, row>>,
           \/ snap = None
           \/ row[Key(r)].status = "completed" /\ snap = row[Key(r)].snap
    PROVE  Abstract!Replay(r) \/ UNCHANGED Abstract!vars
<1> USE DEF IInv, TypeOK, Key, KeyMap, AnswerMap
<1>1. resp[r].snap = None
  BY DEF AnsweredOnce, Unanswered
<1>2. Effect' = Effect /\ KeyMap' = KeyMap
  BY DEF Effect
<1>3. AnswerMap' = [AnswerMap EXCEPT ![r] = snap]
  BY DEF Answer
<1>4. CASE snap = None
  BY <1>1, <1>2, <1>3, <1>4 DEF Abstract!vars
<1>5. CASE row[Key(r)].status = "completed" /\ snap = row[Key(r)].snap
  <2>1. Effect[Key(r)] = snap /\ snap # None
    BY <1>5, NoneAssumption DEF Effect, CompletedIffApplied
  <2>2. AnswerMap[r] = None /\ KeyMap[r] = Key(r)
    BY <1>1
  <2>3. QED
    BY <1>2, <1>3, <2>1, <2>2 DEF Abstract!Replay
<1>6. QED
  BY <1>4, <1>5

\* Every step of the spine is one of the abstract steps, or invisible.
LEMMA AbstractStep == IInv /\ IInv' /\ [Next]_vars => [Abstract!Next]_(Abstract!vars)
<1> SUFFICES ASSUME IInv, IInv', [Next]_vars PROVE [Abstract!Next]_(Abstract!vars)
  OBVIOUS
<1>1. ASSUME NEW r \in Requests, Abstract!Apply(r) \/ Abstract!Replay(r)
      PROVE  Abstract!Next
  BY <1>1 DEF Abstract!Next
<1>2. ASSUME NEW r \in Requests, Step(r) PROVE [Abstract!Next]_(Abstract!vars)
  <2>1. CASE AcquireFresh(r)
    BY <2>1, InvisibleStep DEF AcquireFresh, IInv, TypeOK, Key
  <2>2. CASE TakeoverWon(r)
    <3>1. row[Key(r)] \in Row /\ row[Key(r)].status = "in_progress"
      BY <2>2 DEF TakeoverWon, MayTakeOver, IInv, TypeOK, Key
    <3>2. PICK left \in TimeLeft :
             row' = [row EXCEPT ![Key(r)] = [@ EXCEPT !.left = left, !.owner = r]]
      BY <2>2 DEF TakeoverWon
    <3>3. [row[Key(r)] EXCEPT !.left = left, !.owner = r].status = "in_progress"
      BY <3>1 DEF Row
    <3>4. QED
      BY <2>2, <3>1, <3>2, <3>3, InvisibleStep DEF TakeoverWon, IInv, TypeOK, Key
  <2>3. CASE \/ AcquireExisting(r) \/ DecideTakeover(r) \/ TakeoverLost(r) \/ RunEffect(r)
             \/ EffectRollsBack(r) \/ CompleteWon(r) \/ CompleteLost(r)
    BY <2>3, InvisibleStep DEF AcquireExisting, DecideTakeover, TakeoverLost, RunEffect,
                               EffectRollsBack, CompleteWon, CompleteLost
  <2>4. CASE DecideReplay(r)
    <3>1. row[Key(r)].status = "completed" /\ rec[r].snap = row[Key(r)].snap
      BY <2>4 DEF DecideReplay, IInv, RecordsHold
    <3>2. Abstract!Replay(r) \/ UNCHANGED Abstract!vars
      BY <2>4, <3>1, AnswerReplays DEF DecideReplay
    <3>3. QED
      BY <1>1, <3>2
  <2>5. CASE DecideConflict(r) \/ DecideRetryAfter(r)
    <3>1. Abstract!Replay(r) \/ UNCHANGED Abstract!vars
      BY <2>5, AnswerReplays DEF DecideConflict, DecideRetryAfter
    <3>2. QED
      BY <1>1, <3>1
  <2>6. CASE Commit(r) \/ CommitUnheard(r)
    BY <1>1, <2>6, CommitApplies
  <2>7. CASE Reread(r)
    <3>1. Abstract!Replay(r) \/ UNCHANGED Abstract!vars
      BY <2>7, AnswerReplays DEF Reread
    <3>2. QED
      BY <1>1, <3>1
  <2>8. QED
    BY <1>1, <1>2, <2>1, <2>2, <2>3, <2>4, <2>5, <2>6, <2>7 DEF Step
<1>3. ASSUME NEW r \in Requests, DbError(r) PROVE [Abstract!Next]_(Abstract!vars)
  BY <1>1, <1>3, AnswerReplays DEF DbError
<1>4. ASSUME NEW r \in Requests, Crash(r) PROVE [Abstract!Next]_(Abstract!vars)
  BY <1>4, InvisibleStep DEF Crash
<1>5. CASE Tick
  <2>1. \A k \in Keys : row'[k].status = row[k].status /\ row'[k].snap = row[k].snap
    BY <1>5 DEF Tick, IInv, TypeOK, Row
  <2>2. QED
    BY <1>5, <2>1, InvisibleStep DEF Tick
<1>6. CASE UNCHANGED vars
  BY <1>6, InvisibleStep DEF vars
<1>7. QED
  BY <1>2, <1>3, <1>4, <1>5, <1>6 DEF Next

\* The spine implements ExactlyOnceEffect: clients see at most one effect per
\* key and no answer that is not that effect.
THEOREM Refinement == Spec => ImplementsExactlyOnce
<1>1. QED
  BY AbstractInit, AbstractStep, Invariance, PTL DEF Spec, ImplementsExactlyOnce, Abstract!Spec
=============================================================================

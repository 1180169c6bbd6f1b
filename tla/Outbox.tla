------------------------------- MODULE Outbox -------------------------------
(***************************************************************************)
(* The transactional outbox (store/src/models/api.rs) and the relay that    *)
(* drains it to the withdrawal_requests stream (relay/src/main.rs).         *)
(*                                                                          *)
(* The relay's pass is: read the unsent rows, and for each XADD, then mark. *)
(* The two are not atomic, several relays may run, each with a batch that   *)
(* was read long ago, and a relay may die, or be told of a failure, at any  *)
(* statement.  Faults are capped by MaxFaults.  The rows of a batch are     *)
(* taken in any order (the code: by created_at); nothing here depends on it. *)
(***************************************************************************)
EXTENDS Integers, Sequences, FiniteSets

CONSTANTS
    Rows,               \* outbox rows, one for each accepted withdrawal
    Relays,             \* running relay processes
    ConnectionBreaks,   \* may a relay lose its connection to Redis?
    None,               \* no row in hand
    MaxFaults

ASSUME NoneAssumption == None \notin Rows
ASSUME RelaysAssumption == IsFiniteSet(Relays)
ASSUME FaultAssumption == MaxFaults \in Nat /\ ConnectionBreaks \in BOOLEAN

VARIABLES
    committed,   \* rows in the table
    sent,        \* rows with a sent_at
    stream,      \* the stream: the row each entry is a copy of
    batch,       \* per relay: rows of its pass still to be handled
    hand,        \* per relay: the row added to the stream and not marked yet
    broken,      \* relays whose Redis connection is gone
    faults

vars == <<committed, sent, stream, batch, hand, broken, faults>>

----------------------------------------------------------------------------
TypeOK ==
    /\ committed \in SUBSET Rows
    /\ sent \in SUBSET committed
    /\ stream \in Seq(committed)
    /\ batch \in [Relays -> SUBSET committed]
    /\ hand \in [Relays -> committed \cup {None}]
    /\ broken \in SUBSET Relays
    /\ faults \in 0..MaxFaults

Init ==
    /\ committed = {}
    /\ sent = {}
    /\ stream = <<>>
    /\ batch = [k \in Relays |-> {}]
    /\ hand = [k \in Relays |-> None]
    /\ broken = {}
    /\ faults = 0

Fault == faults < MaxFaults /\ faults' = faults + 1

\* insert_outbox, in the transaction that locks the funds.
Commit(x) ==
    /\ x \notin committed
    /\ committed' = committed \cup {x}
    /\ UNCHANGED <<sent, stream, batch, hand, broken, faults>>

----------------------------------------------------------------------------
(* The relay's pass *)

\* select_unsent_outbox.  (Of an empty backlog: the relay sleeps and asks again.)
\* (Backlog: without its filter; DirtyUnsent: of transactions still open, too;
\* UnsentInBulk: only once there are several.)
Backlog == committed
UnsentInBulk == IF Cardinality(committed \ sent) > 1 THEN committed \ sent ELSE {}
DirtyUnsent == Rows \ sent
Unsent == committed \ sent

ReadUnsent(k) ==
    /\ batch[k] = {} /\ hand[k] = None
    /\ batch' = [batch EXCEPT ![k] = Unsent]
    /\ UNCHANGED <<committed, sent, stream, hand, broken, faults>>

\* XADD; the row is in hand until it is marked.
Xadd(k, x) ==
    /\ x \in batch[k] /\ hand[k] = None
    /\ k \notin broken
    /\ stream' = Append(stream, x)
    /\ batch' = [batch EXCEPT ![k] = @ \ {x}]
    /\ hand' = [hand EXCEPT ![k] = x]
    /\ UNCHANGED <<committed, sent, broken, faults>>

\* XADD fails: the row is passed over, unsent.  Redis refuses, or the connection
\* breaks before or after the entry was added; the relay keeps the one
\* connection it opened at its start, and everything fails on it from then on.
\* (XaddFailsMarked goes on to mark the row.)
XaddLost(k, x) ==
    \/ k \in broken /\ UNCHANGED <<stream, broken, faults>>
    \/ k \notin broken /\ Fault /\ UNCHANGED <<stream, broken>>
    \/ /\ ConnectionBreaks /\ k \notin broken /\ Fault
       /\ broken' = broken \cup {k}
       /\ stream' \in {stream, Append(stream, x)}

XaddFailsMarked(k, x) ==
    /\ x \in batch[k] /\ hand[k] = None
    /\ XaddLost(k, x)
    /\ batch' = [batch EXCEPT ![k] = @ \ {x}]
    /\ hand' = [hand EXCEPT ![k] = x]
    /\ UNCHANGED <<committed, sent>>

XaddFails(k, x) ==
    /\ x \in batch[k] /\ hand[k] = None
    /\ XaddLost(k, x)
    /\ batch' = [batch EXCEPT ![k] = @ \ {x}]
    /\ UNCHANGED <<committed, sent, hand>>

\* mark_outbox_sent.  (MarkBatch marks all that was read.)
MarkBatch(k) ==
    /\ hand[k] # None
    /\ sent' = sent \cup {hand[k]} \cup batch[k]
    /\ hand' = [hand EXCEPT ![k] = None]
    /\ UNCHANGED <<committed, stream, batch, broken, faults>>

MarkSent(k) ==
    /\ hand[k] # None
    /\ sent' = sent \cup {hand[k]}
    /\ hand' = [hand EXCEPT ![k] = None]
    /\ UNCHANGED <<committed, stream, batch, broken, faults>>

\* The update fails: logged, and the pass goes on.
MarkFails(k) ==
    /\ hand[k] # None
    /\ Fault
    /\ hand' = [hand EXCEPT ![k] = None]
    /\ UNCHANGED <<committed, sent, stream, batch, broken>>

\* The relay dies, also of a failed read or of no database connection, and is
\* started again with a connection of its own.
Crash(k) ==
    /\ Fault
    /\ batch' = [batch EXCEPT ![k] = {}]
    /\ hand' = [hand EXCEPT ![k] = None]
    /\ broken' = broken \ {k}
    /\ UNCHANGED <<committed, sent, stream>>

----------------------------------------------------------------------------
Publish(k) == \E x \in Rows : Xadd(k, x)
PassOver(k) == \E x \in Rows : XaddFails(k, x)

Next ==
    \/ \E x \in Rows : Commit(x)
    \/ \E k \in Relays :
          ReadUnsent(k) \/ Publish(k) \/ PassOver(k) \/ MarkSent(k) \/ MarkFails(k) \/ Crash(k)

\* A running relay goes on with its pass.
Pass(k) == ReadUnsent(k) \/ Publish(k) \/ (k \in broken /\ PassOver(k)) \/ MarkSent(k)

Fairness == \A k \in Relays : WF_vars(Pass(k))

Spec == Init /\ [][Next]_vars

FairSpec == Spec /\ Fairness

----------------------------------------------------------------------------
(* Properties *)

Published == {stream[i] : i \in 1..Len(stream)}
Copies(x) == {i \in 1..Len(stream) : stream[i] = x}

\* A row is marked sent only after a copy of it is on the stream: no crash,
\* failed statement or second relay loses an accepted withdrawal.
SentWasPublished == sent \subseteq Published

\* Duplicates are paid for: a row has no more copies than there are relays,
\* and one for each fault.
CopiesBounded ==
    \A x \in Rows : Cardinality(Copies(x)) <= Cardinality(Relays) + faults

\* Some relay's connection is still good.
Connected == broken # Relays

\* The backlog is worked off while a relay is connected: a row does not stay
\* unsent, to be published anew on every pass.
EveryRowMarked == \A x \in Rows : x \in committed ~> x \in sent \/ ~Connected

\* "the at-least-once publisher that drains the outbox to Redis"
\* (relay/src/main.rs): only committed rows get onto the stream, and every one
\* does, while a relay is connected.
Abstract == INSTANCE AtLeastOnce WITH
    accepted <- committed, published <- Published, connected <- Connected

ImplementsAtLeastOnce == Abstract!Spec
=============================================================================

---------------------------- MODULE DepositPoller ----------------------------
(***************************************************************************)
(* The deposit poller (poller/src/main.rs) over the Solana client's         *)
(* deposits_since (external/src/chain.rs): page back from the head of the   *)
(* wallet's history to the checkpoint, look every transaction up, add the   *)
(* deposits to the payment_transactions stream, move the checkpoint.        *)
(*                                                                          *)
(* A signature is its place in the history, which grows while the poller    *)
(* reads it; 0 stands for no signature.  The history is capped by MaxTxs,   *)
(* faults (deaths, failed or unheard commands and requests) by MaxFaults.   *)
(***************************************************************************)
EXTENDS Integers, Sequences, FiniteSets

CONSTANTS
    PageLimit,   \* PAGE_LIMIT
    MaxTxs, MaxFaults

ASSUME PageAssumption == PageLimit \in Nat \ {0}
ASSUME BoundsAssumption == MaxTxs \in Nat /\ MaxFaults \in Nat

VARIABLES
    chain,     \* the wallet's history: "deposit", or "other" (no memo, or failed)
    stored,    \* poller:last_sig in Redis
    stream,    \* payment_transactions: the signature of each entry
    pc,        \* where the poller is
    cursor,    \* its checkpoint
    before,    \* where the next page ends
    sigs,      \* signatures of this round still to be looked up
    head,      \* the newest signature of this round
    events,    \* deposits of this round still to be added
    base,      \* history: where the last start without a checkpoint began
    missed,    \* history: signatures whose lookup has failed
    faults

poller == <<pc, cursor, before, sigs, head, events>>
vars == <<chain, stored, stream, poller, base, missed, faults>>

----------------------------------------------------------------------------
None == 0
Signatures == 1..Len(chain)
Deposits == {i \in Signatures : chain[i] = "deposit"}

Steps == {"load", "latest", "init", "page", "lookup", "add"}

TypeOK ==
    /\ chain \in Seq({"deposit", "other"})
    /\ {stored, cursor, base, head, before} \subseteq 0..Len(chain)
    /\ stream \in Seq(Signatures)
    /\ pc \in Steps
    /\ sigs \in SUBSET ((cursor + 1)..head)
    /\ events \in Seq((cursor + 1)..head)
    /\ missed \in SUBSET Signatures
    /\ faults \in 0..MaxFaults

Init ==
    /\ chain = <<>>
    /\ stored = None
    /\ stream = <<>>
    /\ pc = "load"
    /\ cursor = None /\ before = None /\ head = None
    /\ sigs = {} /\ events = <<>>
    /\ base = None
    /\ missed = {}
    /\ faults = 0

Fault == faults < MaxFaults /\ faults' = faults + 1

\* A transaction of the wallet is confirmed.
Land(kind) ==
    /\ Len(chain) < MaxTxs
    /\ chain' = Append(chain, kind)
    /\ UNCHANGED <<stored, stream, poller, base, missed, faults>>

----------------------------------------------------------------------------
(* The start *)

\* GET poller:last_sig.
Load ==
    /\ pc = "load"
    /\ cursor' = stored
    /\ pc' = IF stored = None THEN "latest" ELSE "page"
    /\ UNCHANGED <<chain, stored, stream, before, sigs, head, events, base, missed, faults>>

\* .ok(): an error is taken for no checkpoint.
LoadFails ==
    /\ pc = "load"
    /\ Fault
    /\ pc' = "latest"
    /\ UNCHANGED <<chain, stored, stream, cursor, before, sigs, head, events, base, missed>>

\* latest_cursor; of an empty history, none, and nothing is set.
Latest ==
    /\ pc = "latest"
    /\ cursor' = Len(chain)
    /\ pc' = IF cursor' = None THEN "page" ELSE "init"
    /\ UNCHANGED <<chain, stored, stream, before, sigs, head, events, base, missed, faults>>

SetInitial == stored' = cursor /\ base' = cursor

SetCheckpoint ==
    /\ pc = "init"
    /\ SetInitial
    /\ pc' = "page"
    /\ UNCHANGED <<chain, stream, cursor, before, sigs, head, events, missed, faults>>

----------------------------------------------------------------------------
(* A round *)

\* getSignaturesForAddress: the newest below before and after the checkpoint,
\* PageLimit at most.  (LowestAgain counts in the checkpoint itself.)
LowestAgain == IF cursor = None THEN 1 ELSE cursor
Lowest == cursor + 1
Upper == IF before = None THEN Len(chain) ELSE before - 1
Page == {i \in Lowest..Upper : i > Upper - PageLimit}

\* Pages go back from the head as it was at the first of them; a short one is
\* the last.  (FetchOnePage looks at the first page only.)
FetchOnePage ==
    /\ pc = "page"
    /\ sigs' = Page
    /\ head' = Upper
    /\ pc' = IF Page = {} THEN "page" ELSE "lookup"
    /\ UNCHANGED <<chain, stored, stream, cursor, before, events, base, missed, faults>>

FetchPage ==
    /\ pc = "page"
    /\ sigs' = sigs \cup Page
    /\ head' = IF before = None THEN Upper ELSE head
    /\ \/ /\ Cardinality(Page) = PageLimit
          /\ before' = Upper - PageLimit + 1
          /\ UNCHANGED pc
       \/ /\ Cardinality(Page) < PageLimit
          /\ before' = None
          /\ pc' = IF sigs' = {} THEN "page" ELSE "lookup"
    /\ UNCHANGED <<chain, stored, stream, cursor, events, base, missed, faults>>

\* get_transaction, from the oldest signature on; what is no deposit, or cannot
\* be fetched, is passed over.
Oldest == CHOOSE i \in sigs : \A j \in sigs : i <= j

LookedUp ==
    /\ sigs' = sigs \ {Oldest}
    /\ pc' = IF sigs' = {} THEN "add" ELSE "lookup"
    /\ UNCHANGED <<chain, stored, stream, cursor, before, head, base>>

Lookup ==
    /\ pc = "lookup"
    /\ events' = IF Oldest \in Deposits THEN Append(events, Oldest) ELSE events
    /\ LookedUp
    /\ UNCHANGED <<missed, faults>>

LookupFails ==
    /\ pc = "lookup"
    /\ Fault
    /\ missed' = missed \cup {Oldest}
    /\ LookedUp
    /\ UNCHANGED events

\* XADD, one by one.
Add ==
    /\ pc = "add"
    /\ events # <<>>
    /\ stream' = Append(stream, Head(events))
    /\ events' = Tail(events)
    /\ UNCHANGED <<chain, stored, pc, cursor, before, sigs, head, base, missed, faults>>

\* SET poller:last_sig, once all are added.
\* (SaveUnseen does not advance the poller's own copy.)
SaveUnseen ==
    /\ pc = "add"
    /\ events = <<>>
    /\ stored' = head
    /\ pc' = "page"
    /\ UNCHANGED <<chain, stream, cursor, before, sigs, head, events, base, missed, faults>>

Save ==
    /\ pc = "add"
    /\ events = <<>>
    /\ stored' = head
    /\ cursor' = head
    /\ pc' = "page"
    /\ UNCHANGED <<chain, stream, before, sigs, head, events, base, missed, faults>>

----------------------------------------------------------------------------
(* Faults: every other error ends the process, and it is started again.     *)

Restart ==
    /\ pc' = "load"
    /\ cursor' = None /\ before' = None /\ head' = None
    /\ sigs' = {} /\ events' = <<>>

Crash ==
    /\ Fault
    /\ Restart
    /\ UNCHANGED <<chain, stored, stream, base, missed>>

\* The entry is added, or the checkpoint set, but the poller is told of an error.
Unheard ==
    /\ Fault
    /\ \/ /\ pc = "add" /\ events # <<>>
          /\ stream' = Append(stream, Head(events))
          /\ UNCHANGED <<stored, base>>
       \/ /\ pc = "add" /\ events = <<>>
          /\ stored' = head
          /\ UNCHANGED <<stream, base>>
       \/ pc = "init" /\ SetInitial /\ UNCHANGED stream
    /\ Restart
    /\ UNCHANGED <<chain, missed>>

----------------------------------------------------------------------------
Poll ==
    \/ Load \/ Latest \/ SetCheckpoint
    \/ FetchPage \/ Lookup \/ Add \/ Save

Break == LoadFails \/ LookupFails \/ Crash \/ Unheard

Next == (\E kind \in {"deposit", "other"} : Land(kind)) \/ Poll \/ Break

Spec == Init /\ [][Next]_vars

\* A running poller goes on.
FairSpec == Spec /\ WF_vars(Poll)

----------------------------------------------------------------------------
(* Properties *)

Added == {stream[n] : n \in 1..Len(stream)}

\* "no signature between the checkpoint and chain head is skipped, regardless of
\* burst size" (external/src/chain.rs): a deposit the checkpoint has passed is on
\* the stream, whatever landed between two pages and wherever the poller died;
\* except one whose lookup failed.
CheckpointCovers ==
    \A i \in Deposits : base < i /\ i <= stored => i \in Added \cup missed

\* A deposit is added again only after a fault.
CopiesBounded ==
    \A i \in Deposits :
       Cardinality({n \in 1..Len(stream) : stream[n] = i}) <= 1 + faults

\* Every deposit reaches the stream, unless its lookup failed or the poller has
\* started without a checkpoint since.
EveryDepositAdded ==
    \A i \in 1..MaxTxs :
       i \in Deposits ~> i \in Added \cup missed \/ i <= base
=============================================================================

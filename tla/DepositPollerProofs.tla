------------------------- MODULE DepositPollerProofs -------------------------
(***************************************************************************)
(* The poller, for any history, any page size and any number of faults: the *)
(* checkpoint passes no deposit that is not on the stream.                  *)
(***************************************************************************)
EXTENDS DepositPoller, SetLemmas, FiniteSetTheorems, TLAPS

InHand == {events[n] : n \in 1..Len(events)}

\* While it is at work, the poller's checkpoint is the stored one.
CursorStored == pc \in {"page", "lookup", "add"} => cursor = stored

\* Between two pages, exactly what lies from `before` to the head was collected.
PagesMeet ==
    pc = "page" => IF before = None THEN sigs = {}
                                    ELSE before \in (cursor + 1)..head /\ sigs = before..head

\* Outside a round, and at its start, nothing is in hand.
NothingInHand ==
    /\ pc \in {"load", "latest", "init", "page"} => events = <<>>
    /\ pc \in {"load", "latest", "init"} => sigs = {}
    /\ pc # "page" => before = None

\* The round accounts for every deposit between the checkpoint and its head.
RoundCovers ==
    pc \in {"lookup", "add"} =>
       \A i \in Deposits :
          cursor < i /\ i <= head => i \in sigs \cup InHand \cup Added \cup missed

LeftToLookUp == (pc = "lookup" => sigs # {}) /\ (pc = "add" => sigs = {})

\* The inductive invariant.
IInv == /\ TypeOK
        /\ CheckpointCovers
        /\ CursorStored
        /\ PagesMeet
        /\ NothingInHand
        /\ RoundCovers
        /\ LeftToLookUp

----------------------------------------------------------------------------
LEMMA TypeInit == Init => IInv
BY BoundsAssumption DEF Init, IInv, TypeOK, CheckpointCovers, CursorStored, PagesMeet,
   NothingInHand, RoundCovers, LeftToLookUp, None, Signatures, Deposits, Steps

\* What Len(chain), the checkpoints and the rest are.
LEMMA Numbers ==
    ASSUME TypeOK
    PROVE  /\ Len(chain) \in Nat
           /\ \A x \in {stored, cursor, base, head, before} : x \in Nat /\ x <= Len(chain)
           /\ stream \in Seq(Signatures) /\ Len(stream) \in Nat
           /\ sigs \subseteq (cursor + 1)..head
           /\ events \in Seq((cursor + 1)..head) /\ Len(events) \in Nat
           /\ Deposits \subseteq 1..Len(chain)
BY DEF TypeOK, Signatures, Deposits

\* A transaction lands: what there was stays, and the new one is past every head.
LEMMA LandKeeps ==
    ASSUME IInv, NEW kind \in {"deposit", "other"}, Land(kind)
    PROVE  IInv'
<1>1. /\ Len(chain') = Len(chain) + 1
      /\ chain' \in Seq({"deposit", "other"})
      /\ \A i \in 1..Len(chain) : chain'[i] = chain[i]
  BY DEF Land, IInv, TypeOK
<1>2. UNCHANGED <<stored, stream, poller, base, missed, faults>>
  BY DEF Land
<1>3. Signatures \subseteq Signatures'
  BY <1>1, Numbers DEF Signatures, IInv
<1>4. stream' \in Seq(Signatures')
  <2>1. stream \in [1..Len(stream) -> Signatures'] /\ Len(stream) \in Nat
    BY <1>3, Numbers DEF IInv
  <2> QED BY <1>2, <2>1
<1>5. TypeOK'
  <2>1. {stored, cursor, base, head, before} \subseteq 0..Len(chain')
    BY <1>1, Numbers DEF IInv
  <2>2. missed \in SUBSET Signatures'
    BY <1>3 DEF IInv, TypeOK
  <2> QED BY <1>1, <1>2, <1>4, <2>1, <2>2 DEF IInv, TypeOK, poller
<1>6. \A i \in Deposits' : i \in Deposits \/ i = Len(chain) + 1
  BY <1>1, Numbers DEF Deposits, Signatures, IInv
<1>7. CheckpointCovers'
  <2>1. Added' = Added
    BY <1>2 DEF Added
  <2> QED BY <1>2, <1>6, <2>1, Numbers DEF IInv, CheckpointCovers
<1>8. RoundCovers'
  <2>1. Added' = Added /\ InHand' = InHand
    BY <1>2 DEF Added, InHand, poller
  <2>2. head \in Nat /\ head <= Len(chain)
    BY Numbers DEF IInv
  <2>3. UNCHANGED <<pc, cursor, sigs, head, missed>>
    BY <1>2 DEF poller
  <2> QED BY <1>1, <1>6, <2>1, <2>2, <2>3, Numbers DEF IInv, RoundCovers
<1>9. CursorStored' /\ PagesMeet' /\ NothingInHand' /\ LeftToLookUp'
  <2>1. UNCHANGED <<pc, cursor, sigs, head, events, before, stored>>
    BY <1>2 DEF poller
  <2> QED BY <2>1 DEF IInv, CursorStored, PagesMeet, NothingInHand, LeftToLookUp
<1> QED BY <1>5, <1>7, <1>8, <1>9 DEF IInv

\* The start: no round is open.
LEMMA StartKeeps ==
    ASSUME IInv, Load \/ LoadFails \/ Latest \/ SetCheckpoint
    PROVE  IInv'
<1>1. /\ sigs = {} /\ events = <<>> /\ before = None
      /\ UNCHANGED <<chain, stream, before, sigs, head, events, missed>>
      /\ pc' \in {"latest", "page", "init"}
  BY DEF IInv, NothingInHand, Load, LoadFails, Latest, SetCheckpoint
<1>2. {stored, cursor, base}' \subseteq 0..Len(chain) /\ faults' \in 0..MaxFaults
  BY BoundsAssumption, Numbers
     DEF IInv, TypeOK, Load, LoadFails, Latest, SetCheckpoint, SetInitial, Fault
<1>3. TypeOK'
  BY <1>1, <1>2 DEF IInv, TypeOK, Steps, Signatures
<1>4. CheckpointCovers'
  <2>1. Added' = Added /\ Deposits' = Deposits
    BY <1>1 DEF Added, Deposits, Signatures
  <2>2. stored' = base' \/ UNCHANGED <<stored, base>>
    BY DEF Load, LoadFails, Latest, SetCheckpoint, SetInitial
  <2> QED BY <1>1, <1>2, <2>1, <2>2, Numbers DEF IInv, CheckpointCovers
<1>5. CursorStored'
  BY Numbers DEF IInv, CursorStored, Load, LoadFails, Latest, SetCheckpoint, SetInitial, None
<1> QED BY <1>1, <1>3, <1>4, <1>5
  DEF IInv, PagesMeet, NothingInHand, RoundCovers, LeftToLookUp

\* A page is what lies below `before`; a short one reaches down to the checkpoint.
LEMMA PageReaches ==
    ASSUME TypeOK, before # None => before > cursor
    PROVE  /\ Upper \in Nat /\ Upper <= Len(chain)
           /\ Cardinality(Page) = PageLimit =>
                 /\ Upper - PageLimit + 1 \in (cursor + 1)..Len(chain)
                 /\ Page = (Upper - PageLimit + 1)..Upper
           /\ Cardinality(Page) < PageLimit => Page = (cursor + 1)..Upper
<1>1. cursor \in Nat /\ PageLimit \in Nat /\ PageLimit > 0 /\ Len(chain) \in Nat
  BY PageAssumption, Numbers
<1>2. Upper \in Nat /\ Upper <= Len(chain)
  BY <1>1, Numbers DEF Upper, None
<1>3. CASE Upper - PageLimit >= cursor
  <2>1. Page = (Upper - PageLimit + 1)..Upper
    BY <1>1, <1>2, <1>3 DEF Page, Lowest
  <2>2. Cardinality(Page) = PageLimit
    BY <1>1, <1>2, <2>1, FS_Interval
  <2> QED BY <1>1, <1>2, <1>3, <2>1, <2>2
<1>4. CASE Upper - PageLimit < cursor
  <2>1. Page = (cursor + 1)..Upper
    BY <1>1, <1>2, <1>4 DEF Page, Lowest
  <2>2. Cardinality((cursor + 1)..Upper) = IF cursor + 1 > Upper THEN 0 ELSE Upper - cursor
    <3>1. cursor + 1 \in Int /\ Upper \in Int /\ Upper - (cursor + 1) + 1 = Upper - cursor
      BY <1>1, <1>2
    <3> QED BY <3>1, FS_Interval
  <2>3. Cardinality(Page) # PageLimit
    BY <1>1, <1>2, <1>4, <2>1, <2>2
  <2> QED BY <1>2, <2>1, <2>3
<1> QED BY <1>1, <1>2, <1>3, <1>4

\* A page is fetched: the pages meet, and with the last nothing is left out.
LEMMA FetchPageKeeps ==
    ASSUME IInv, FetchPage
    PROVE  IInv'
<1>1. /\ pc = "page" /\ events = <<>>
      /\ UNCHANGED <<chain, stored, stream, cursor, events, base, missed, faults>>
      /\ cursor = stored
  BY DEF FetchPage, IInv, NothingInHand, CursorStored
<1>2. before # None => before \in (cursor + 1)..head /\ sigs = before..head
  BY <1>1 DEF IInv, PagesMeet
<1>3. before = None => sigs = {}
  BY <1>1 DEF IInv, PagesMeet
<1>4. /\ Upper \in Nat /\ Upper <= Len(chain)
      /\ Cardinality(Page) = PageLimit =>
            /\ Upper - PageLimit + 1 \in (cursor + 1)..Len(chain)
            /\ Page = (Upper - PageLimit + 1)..Upper
      /\ Cardinality(Page) < PageLimit => Page = (cursor + 1)..Upper
  <2>1. before # None => before > cursor
    BY <1>2, Numbers DEF IInv
  <2> QED BY <2>1, PageReaches DEF IInv
<1>5. /\ cursor \in Nat /\ head \in Nat /\ head <= Len(chain) /\ before \in Nat
      /\ before <= Len(chain) /\ Len(chain) \in Nat
  BY Numbers DEF IInv
<1>6. head' \in Nat /\ head' <= Len(chain) /\ (before # None => head' = head)
  BY <1>4, <1>5 DEF FetchPage
<1>7. Upper >= cursor /\ head' >= Upper /\ (before # None => Upper = before - 1)
  BY <1>2, <1>5, Numbers DEF FetchPage, Upper, None, IInv
<1>8. ASSUME NEW a \in 1..(Upper + 1), Page = a..Upper PROVE sigs' = a..head'
  <2>1. CASE before = None
    BY <1>3, <1>4, <2>1, <1>8 DEF FetchPage
  <2>2. CASE before # None
    <3>1. sigs' = (before..head) \cup (a..(before - 1)) /\ head' = head /\ Upper = before - 1
      BY <1>2, <1>7, <2>2, <1>8 DEF FetchPage
    <3> QED BY <1>2, <1>4, <1>5, <2>2, <3>1
  <2> QED BY <2>1, <2>2
<1>9. CASE Cardinality(Page) = PageLimit
  <2>1. before' = Upper - PageLimit + 1 /\ pc' = "page"
    BY <1>1, <1>9, PageAssumption DEF FetchPage
  <2>2. before' \in (cursor + 1)..Len(chain) /\ before' <= Upper
    BY <1>4, <1>5, <1>9, <2>1, PageAssumption
  <2>3. sigs' = before'..head' /\ before' \in (cursor + 1)..head'
    <3>1. before' \in 1..(Upper + 1) /\ Page = before'..Upper
      BY <1>4, <1>5, <1>9, <2>1, <2>2
    <3>2. sigs' = before'..head'
      BY <1>8, <3>1
    <3> QED BY <1>4, <1>5, <1>6, <1>7, <2>2, <3>2
  <2> QED BY <1>1, <1>5, <1>6, <2>1, <2>2, <2>3
    DEF IInv, TypeOK, CheckpointCovers, CursorStored, PagesMeet, NothingInHand, RoundCovers,
        LeftToLookUp, Added, Deposits, Signatures, Steps, None
<1>10. CASE Cardinality(Page) < PageLimit
  <2>1. before' = None /\ pc' = IF sigs' = {} THEN "page" ELSE "lookup"
    BY <1>10, PageAssumption DEF FetchPage
  <2>2. sigs' = (cursor + 1)..head'
    <3>1. cursor + 1 \in 1..(Upper + 1) /\ Page = (cursor + 1)..Upper
      BY <1>4, <1>5, <1>7, <1>10
    <3> QED BY <1>8, <3>1
  <2>3. TypeOK'
    BY <1>1, <1>5, <1>6, <2>1, <2>2 DEF IInv, TypeOK, Steps, Signatures, None
  <2>4. RoundCovers'
    BY <1>1, <1>5, <1>6, <2>2, Numbers DEF IInv, RoundCovers, Deposits, Signatures
  <2> QED BY <1>1, <2>1, <2>3, <2>4
    DEF IInv, CheckpointCovers, CursorStored, PagesMeet, NothingInHand, LeftToLookUp, Added,
        Deposits, Signatures
<1> QED BY <1>9, <1>10 DEF FetchPage

\* What is looked up next.
LEMMA OldestInSigs ==
    ASSUME TypeOK, sigs # {}
    PROVE  Oldest \in sigs
<1>1. sigs \in SUBSET Nat
  BY Numbers
<1>2. \E i \in sigs : \A j \in sigs : i <= j
  BY <1>1, LeastNatural
<1> QED BY <1>2 DEF Oldest

\* A signature leaves the round as an event, as missed, or as no deposit.
LEMMA LookupKeeps ==
    ASSUME IInv, Lookup \/ LookupFails
    PROVE  IInv'
<1>1. Oldest \in sigs /\ Oldest \in (cursor + 1)..head /\ Oldest \in Signatures
  <2>1. sigs # {}
    BY DEF IInv, LeftToLookUp, Lookup, LookupFails
  <2> QED BY <2>1, OldestInSigs, Numbers DEF IInv, Signatures
<1>2. /\ pc = "lookup" /\ sigs' = sigs \ {Oldest}
      /\ pc' = IF sigs' = {} THEN "add" ELSE "lookup"
      /\ UNCHANGED <<chain, stored, stream, cursor, before, head, base>>
  BY DEF Lookup, LookupFails, LookedUp
<1>3. events' \in Seq((cursor + 1)..head) /\ InHand \subseteq InHand'
  <2>1. CASE events' = events
    BY <2>1, Numbers DEF IInv, InHand
  <2>2. CASE events' = Append(events, Oldest)
    <3>1. \A n \in 1..Len(events) : n \in 1..Len(events') /\ events'[n] = events[n]
      BY <1>1, <2>2, Numbers DEF IInv
    <3>2. Oldest \in (cursor + 1)..head /\ events \in Seq((cursor + 1)..head)
      BY <1>1, Numbers DEF IInv
    <3>3. InHand \subseteq InHand'
      BY <3>1 DEF InHand
    <3> QED BY <2>2, <3>2, <3>3
  <2> QED BY <2>1, <2>2 DEF Lookup, LookupFails
<1>4. missed \subseteq missed' /\ missed' \in SUBSET Signatures /\ faults' \in 0..MaxFaults
  <2>1. missed \in SUBSET Signatures /\ faults \in 0..MaxFaults
    BY DEF IInv, TypeOK
  <2>2. CASE Lookup
    BY <2>1, <2>2 DEF Lookup
  <2>3. CASE LookupFails
    BY <1>1, <2>1, <2>3, BoundsAssumption DEF LookupFails, Fault
  <2> QED BY <2>2, <2>3
<1>5. Oldest \in Deposits => Oldest \in InHand' \cup missed'
  <2>1. CASE Lookup
    <3> SUFFICES ASSUME Oldest \in Deposits PROVE Oldest \in InHand'
      OBVIOUS
    <3>1. events' = Append(events, Oldest)
      BY <2>1 DEF Lookup
    <3>2. Len(events') \in 1..Len(events') /\ events'[Len(events')] = Oldest
      BY <1>1, <3>1, Numbers DEF IInv
    <3> QED BY <3>2 DEF InHand
  <2>2. CASE LookupFails
    BY <2>2 DEF LookupFails
  <2> QED BY <2>1, <2>2
<1>6. TypeOK'
  BY <1>2, <1>3, <1>4 DEF IInv, TypeOK, Steps, Signatures
<1>7. Added' = Added /\ Deposits' = Deposits
  BY <1>2 DEF Added, Deposits, Signatures
<1>8. RoundCovers'
  BY <1>2, <1>3, <1>4, <1>5, <1>7 DEF IInv, RoundCovers
<1>9. CheckpointCovers'
  BY <1>2, <1>4, <1>7 DEF IInv, CheckpointCovers
<1> QED BY <1>2, <1>6, <1>8, <1>9
  DEF IInv, CursorStored, PagesMeet, NothingInHand, LeftToLookUp

\* XADD moves the first event to the stream, heard of or not.
LEMMA AddMoves ==
    ASSUME TypeOK, events # <<>>, stream' = Append(stream, Head(events)), chain' = chain
    PROVE  /\ stream' \in Seq(Signatures')
           /\ Tail(events) \in Seq((cursor + 1)..head)
           /\ Added \subseteq Added'
           /\ \A i \in InHand : i \in Added' \/ \E n \in 1..Len(Tail(events)) : Tail(events)[n] = i
<1>1. /\ events \in Seq((cursor + 1)..head) /\ Len(events) \in Nat /\ stream \in Seq(Signatures)
      /\ Len(stream) \in Nat
  BY Numbers
<1>2. Len(events) > 0 /\ Head(events) = events[1] /\ events[1] \in (cursor + 1)..head
  <2> DEFINE S == (cursor + 1)..head
  <2>1. events \in Seq(S)
    BY <1>1
  <2> HIDE DEF S
  <2>2. Len(events) > 0 /\ Head(events) = events[1] /\ events[1] \in S
    BY <2>1
  <2> QED BY <2>2 DEF S
<1>3. Head(events) \in Signatures
  BY <1>2, Numbers, SMTT(20) DEF Signatures
<1>4. stream' \in Seq(Signatures')
  BY <1>1, <1>3 DEF Signatures
<1>5. Added \subseteq Added' /\ Head(events) \in Added'
  <2>1. Len(stream') = Len(stream) + 1 /\ stream'[Len(stream) + 1] = Head(events)
    BY <1>1, <1>3
  <2>2. \A n \in 1..Len(stream) : n \in 1..Len(stream') /\ stream'[n] = stream[n]
    BY <1>1, <1>3, <2>1
  <2>3. Len(stream) + 1 \in 1..Len(stream')
    BY <1>1, <2>1
  <2> QED BY <2>1, <2>2, <2>3 DEF Added
<1>6. Tail(events) \in Seq((cursor + 1)..head)
  BY <1>1
<1>7. ASSUME NEW n \in 1..Len(events), n # 1
      PROVE  n - 1 \in 1..Len(Tail(events)) /\ Tail(events)[n - 1] = events[n]
  BY <1>1, <1>2, <1>7
<1>8. \A i \in InHand : i \in Added' \/ \E n \in 1..Len(Tail(events)) : Tail(events)[n] = i
  BY <1>2, <1>5, <1>7 DEF InHand
<1> QED BY <1>4, <1>5, <1>6, <1>8

\* An event is added, or all are and the checkpoint moves.
LEMMA AddKeeps ==
    ASSUME IInv, Add
    PROVE  IInv'
<1>1. /\ pc = "add" /\ stream' = Append(stream, Head(events)) /\ events' = Tail(events)
      /\ UNCHANGED <<chain, stored, pc, cursor, before, sigs, head, base, missed, faults>>
  BY DEF Add
<1>2. /\ stream' \in Seq(Signatures') /\ Tail(events) \in Seq((cursor + 1)..head)
      /\ Added \subseteq Added' /\ InHand \subseteq Added' \cup InHand'
  BY <1>1, AddMoves DEF IInv, Add, InHand
<1>3. Deposits' = Deposits /\ Signatures' = Signatures
  BY <1>1 DEF Deposits, Signatures
<1>4. TypeOK'
  BY <1>1, <1>2, <1>3 DEF IInv, TypeOK
<1>5. CheckpointCovers' /\ RoundCovers'
  BY <1>1, <1>2, <1>3 DEF IInv, CheckpointCovers, RoundCovers
<1> QED BY <1>1, <1>4, <1>5
  DEF IInv, CursorStored, PagesMeet, NothingInHand, LeftToLookUp

\* With nothing left to look up or to add, all up to the head is on the stream.
LEMMA HeadCovered ==
    ASSUME IInv, pc = "add", events = <<>>
    PROVE  \A i \in Deposits : base < i /\ i <= head => i \in Added \cup missed
<1>1. sigs = {} /\ InHand = {} /\ cursor = stored
  BY DEF IInv, LeftToLookUp, CursorStored, InHand
<1>2. \A i \in Deposits : i <= stored \/ cursor < i
  BY <1>1, Numbers DEF IInv
<1> QED BY <1>1, <1>2 DEF IInv, CheckpointCovers, RoundCovers

LEMMA SaveKeeps ==
    ASSUME IInv, Save
    PROVE  IInv'
<1>1. /\ pc = "add" /\ events = <<>> /\ sigs = {} /\ before = None
      /\ stored' = head /\ cursor' = head /\ pc' = "page"
      /\ UNCHANGED <<chain, stream, before, sigs, head, events, base, missed, faults>>
  BY DEF Save, IInv, LeftToLookUp, NothingInHand
<1>2. Added' = Added /\ Deposits' = Deposits /\ Signatures' = Signatures
  BY <1>1 DEF Added, Deposits, Signatures
<1>3. TypeOK'
  BY <1>1, <1>2 DEF IInv, TypeOK, Steps
<1>4. CheckpointCovers'
  BY <1>1, <1>2, HeadCovered DEF CheckpointCovers
<1> QED BY <1>1, <1>3, <1>4
  DEF IInv, CursorStored, PagesMeet, NothingInHand, RoundCovers, LeftToLookUp

\* The process ends, having heard of its last command or not.
LEMMA RestartKeeps ==
    ASSUME IInv, Crash \/ Unheard
    PROVE  IInv'
<1>1. /\ pc' = "load" /\ cursor' = None /\ before' = None /\ head' = None
      /\ sigs' = {} /\ events' = <<>> /\ UNCHANGED <<chain, missed>>
  BY DEF Crash, Unheard, Restart
<1>2. Deposits' = Deposits /\ Signatures' = Signatures
  BY <1>1 DEF Deposits, Signatures
<1>3. faults' \in 0..MaxFaults
  BY BoundsAssumption DEF Crash, Unheard, Fault, IInv, TypeOK
<1>4. /\ stored' \in 0..Len(chain) /\ base' \in 0..Len(chain)
      /\ stream' \in Seq(Signatures) /\ CheckpointCovers'
  <2>1. CASE UNCHANGED <<stored, stream, base>>
    BY <1>1, <1>2, <2>1 DEF IInv, TypeOK, CheckpointCovers, Added
  <2>2. CASE /\ events # <<>> /\ stream' = Append(stream, Head(events))
             /\ UNCHANGED <<stored, base>>
    BY <1>1, <1>2, <2>2, AddMoves DEF IInv, TypeOK, CheckpointCovers
  <2>3. CASE /\ pc = "add" /\ events = <<>> /\ stored' = head
             /\ UNCHANGED <<stream, base>>
    BY <1>1, <1>2, <2>3, HeadCovered DEF IInv, TypeOK, CheckpointCovers, Added
  <2>4. CASE SetInitial /\ UNCHANGED stream
    <3>1. stored' = base' /\ base' \in 0..Len(chain) /\ base' \in Nat
      BY <2>4, Numbers DEF SetInitial, IInv
    <3>2. \A i \in Deposits : i \in Nat
      BY Numbers DEF IInv
    <3> QED BY <1>2, <2>4, <3>1, <3>2 DEF IInv, TypeOK, CheckpointCovers
  <2> QED BY <2>1, <2>2, <2>3, <2>4 DEF Crash, Unheard
<1>5. TypeOK'
  BY <1>1, <1>2, <1>3, <1>4, Numbers DEF IInv, TypeOK, Steps, None
<1> QED BY <1>1, <1>4, <1>5
  DEF IInv, CursorStored, PagesMeet, NothingInHand, RoundCovers, LeftToLookUp

----------------------------------------------------------------------------
LEMMA Inductive == Spec => []IInv
<1>1. IInv /\ UNCHANGED vars => IInv'
  BY DEF IInv, TypeOK, CheckpointCovers, CursorStored, PagesMeet, NothingInHand, RoundCovers,
         LeftToLookUp, vars, poller, Added, Deposits, Signatures, InHand
<1>2. IInv /\ Next => IInv'
  BY LandKeeps, StartKeeps, FetchPageKeeps, LookupKeeps, AddKeeps, SaveKeeps, RestartKeeps
     DEF Next, Poll, Break
<1> QED BY <1>1, <1>2, TypeInit, PTL DEF Spec

\* The poller's state, the checkpoint and the stream keep their types.
THEOREM TypeCorrect == Spec => []TypeOK
<1>1. IInv => TypeOK
  BY DEF IInv
<1> QED BY <1>1, Inductive, PTL

\* However the wallet's transactions fall on the pages, and wherever the poller
\* fails or dies, the checkpoint has passed no deposit that is not on the stream,
\* except those whose lookup failed.
THEOREM CheckpointPassesNothing == Spec => []CheckpointCovers
<1>1. IInv => CheckpointCovers
  BY DEF IInv
<1> QED BY <1>1, Inductive, PTL

----------------------------------------------------------------------------
(* How often a deposit is added                                              *)

Copies(i) == {n \in 1..Len(stream) : stream[n] = i}

\* What this round has passed: up to its head, and no longer in hand.
Done(i) == pc \in {"lookup", "add"} /\ i <= head /\ i \notin sigs \cup InHand

\* What lies past the checkpoint and this round has not passed is on the stream
\* once for every fault at most, anything else once more.
OncePerFault ==
    \A i \in Nat :
       /\ Cardinality(Copies(i)) <= 1 + faults
       /\ i > stored /\ ~Done(i) => Cardinality(Copies(i)) <= faults

\* A round has every signature in hand once, and the checkpoint never goes back.
HandDistinct ==
    /\ \A m, n \in 1..Len(events) : m # n => events[m] # events[n]
    /\ sigs \cap InHand = {}
    /\ pc = "init" => stored <= cursor
    /\ pc \in {"lookup", "add"} => stored <= head

CInv == IInv /\ OncePerFault /\ HandDistinct

LEMMA CopiesFinite ==
    ASSUME TypeOK, NEW i \in Nat
    PROVE  /\ IsFiniteSet(Copies(i)) /\ Cardinality(Copies(i)) \in Nat
           /\ i > Len(chain) => Cardinality(Copies(i)) = 0
<1>1. IsFiniteSet(1..Len(stream)) /\ Copies(i) \subseteq 1..Len(stream)
  BY Numbers, FS_Interval DEF Copies
<1>2. IsFiniteSet(Copies(i)) /\ Cardinality(Copies(i)) \in Nat
  BY <1>1, FS_Subset, FS_CardinalityType
<1>3. i > Len(chain) => Copies(i) = {}
  BY Numbers DEF Copies, Signatures
<1> QED BY <1>2, <1>3, FS_EmptySet

\* XADD: one copy more of the first event, no other.
LEMMA OneCopyMore ==
    ASSUME IInv, events # <<>>, stream' = Append(stream, Head(events)), NEW i \in Nat
    PROVE  Cardinality(Copies(i)') =
              Cardinality(Copies(i)) + (IF i = Head(events) THEN 1 ELSE 0)
<1>1. /\ stream \in Seq(Signatures) /\ Len(stream) \in Nat /\ events \in Seq((cursor + 1)..head)
  BY Numbers DEF IInv
<1>2. Head(events) \in Signatures
  <2> DEFINE S == (cursor + 1)..head
  <2>1. events \in Seq(S) /\ S \subseteq Signatures
    BY <1>1, Numbers DEF Signatures, IInv
  <2> HIDE DEF S
  <2>2. Head(events) \in S
    BY <2>1
  <2> QED BY <2>1, <2>2
<1>3. /\ Len(stream') = Len(stream) + 1 /\ stream'[Len(stream) + 1] = Head(events)
      /\ \A n \in 1..Len(stream) : stream'[n] = stream[n]
  BY <1>1, <1>2
<1>4. Copies(i)' = Copies(i) \cup IF i = Head(events) THEN {Len(stream) + 1} ELSE {}
  BY <1>1, <1>3 DEF Copies
<1>5. Len(stream) + 1 \notin Copies(i) /\ IsFiniteSet(Copies(i)) /\ Cardinality(Copies(i)) \in Nat
  BY <1>1, CopiesFinite, SMTT(20) DEF Copies, IInv
<1>6. Cardinality(Copies(i) \cup {Len(stream) + 1}) = Cardinality(Copies(i)) + 1
  BY <1>5, FS_AddElement
<1>7. CASE i = Head(events)
  BY <1>4, <1>6, <1>7
<1>8. CASE i # Head(events)
  <2>1. Copies(i)' = Copies(i)
    BY <1>4, <1>8
  <2> QED BY <1>5, <1>8, <2>1
<1> QED BY <1>7, <1>8

LEMMA CopiesInit == Init => CInv
<1> SUFFICES ASSUME Init PROVE CInv
  OBVIOUS
<1>1. IInv
  BY TypeInit
<1>2. \A i \in Nat : Copies(i) = {}
  BY DEF Init, Copies
<1>3. OncePerFault
  BY <1>2, FS_EmptySet DEF Init, OncePerFault
<1>4. HandDistinct
  BY DEF Init, HandDistinct, InHand, None
<1> QED BY <1>1, <1>3, <1>4 DEF CInv

\* Whatever adds nothing and takes no signature from hand to past the checkpoint.
LEMMA NothingAdded ==
    ASSUME CInv, UNCHANGED stream, faults' = faults \/ faults' = faults + 1,
           stored' \in Nat, faults \in Nat,
           \A i \in Nat : i > stored' /\ ~Done(i)' =>
                             i > stored /\ (faults' = faults => ~Done(i))
    PROVE  OncePerFault'
<1>1. \A i \in Nat : Copies(i)' = Copies(i) /\ Cardinality(Copies(i)) \in Nat
  BY CopiesFinite DEF CInv, IInv, Copies
<1> SUFFICES ASSUME NEW i \in Nat
             PROVE  /\ Cardinality(Copies(i)') <= 1 + faults'
                    /\ i > stored' /\ ~Done(i)' => Cardinality(Copies(i)') <= faults'
  BY DEF OncePerFault
<1>2. /\ Cardinality(Copies(i)) <= 1 + faults
      /\ i > stored /\ ~Done(i) => Cardinality(Copies(i)) <= faults
      /\ Cardinality(Copies(i)) \in Nat /\ Cardinality(Copies(i)') = Cardinality(Copies(i))
  BY <1>1 DEF CInv, OncePerFault
<1> QED BY <1>2

LEMMA LandCopies ==
    ASSUME CInv, NEW kind \in {"deposit", "other"}, Land(kind)
    PROVE  OncePerFault' /\ HandDistinct'
<1>1. UNCHANGED <<stored, stream, pc, cursor, before, sigs, head, events, faults>>
  BY DEF Land, poller
<1>2. InHand' = InHand /\ (\A i : Done(i)' <=> Done(i)) /\ (\A i : Copies(i)' = Copies(i))
  BY <1>1 DEF InHand, Done, Copies
<1>3. OncePerFault'
  BY <1>1, <1>2 DEF CInv, OncePerFault
<1> QED BY <1>1, <1>2, <1>3 DEF CInv, HandDistinct

LEMMA StartCopies ==
    ASSUME CInv, Load \/ LoadFails \/ Latest \/ SetCheckpoint
    PROVE  OncePerFault' /\ HandDistinct'
<1>1. /\ pc \in {"load", "latest", "init"} /\ pc' \in {"latest", "init", "page"}
      /\ UNCHANGED <<stream, sigs, head, events>> /\ (faults' = faults \/ faults' = faults + 1)
      /\ stored' = stored \/ (pc = "init" /\ stored' = cursor)
  BY DEF Load, LoadFails, Latest, SetCheckpoint, SetInitial, Fault
<1>2. cursor \in Nat /\ stored \in Nat /\ faults \in Nat /\ Len(chain) \in Nat /\ stored <= Len(chain)
  BY Numbers, BoundsAssumption DEF CInv, IInv, TypeOK
<1>3. stored' \in Nat /\ stored <= stored'
  BY <1>1, <1>2 DEF CInv, HandDistinct
<1>4. \A i : ~Done(i)
  BY <1>1 DEF Done
<1>5. OncePerFault'
  BY <1>1, <1>2, <1>3, <1>4, NothingAdded
<1>6. pc' = "init" => stored' <= cursor'
  BY <1>2 DEF Load, LoadFails, Latest, SetCheckpoint
<1>7. InHand' = InHand
  BY <1>1 DEF InHand
<1> QED BY <1>1, <1>5, <1>6, <1>7 DEF CInv, HandDistinct

\* A range with something in it is not upside down.
LEMMA RangeNotEmpty ==
    ASSUME NEW a \in Nat, NEW b \in Nat, NEW S, S \subseteq (a + 1)..b, S # {}
    PROVE  a <= b
<1>1. PICK x \in S : x \in (a + 1)..b
  OBVIOUS
<1> QED BY <1>1

LEMMA FetchPageCopies ==
    ASSUME CInv, FetchPage
    PROVE  OncePerFault' /\ HandDistinct'
<1>1. /\ pc = "page" /\ pc' \in {"page", "lookup"} /\ events = <<>>
      /\ UNCHANGED <<stored, stream, cursor, events, faults>>
  BY DEF FetchPage, CInv, IInv, NothingInHand
<1>2. stored \in Nat /\ faults \in Nat /\ cursor = stored
  BY <1>1, Numbers, BoundsAssumption DEF CInv, IInv, TypeOK, CursorStored
<1>3. \A i : ~Done(i)
  BY <1>1 DEF Done
<1>4. OncePerFault'
  BY <1>1, <1>2, <1>3, NothingAdded
<1>5. IInv'
  BY FetchPageKeeps DEF CInv
<1>6. pc' = "lookup" => stored' <= head'
  <2>1. pc' = "lookup" => sigs' # {}
    BY <1>5 DEF IInv, LeftToLookUp
  <2>2. sigs' \subseteq (stored' + 1)..head' /\ head' \in Nat
    BY <1>1, <1>2, <1>5 DEF IInv, TypeOK
  <2>3. stored' \in Nat
    BY <1>1, <1>2
  <2> QED BY <2>1, <2>2, <2>3, RangeNotEmpty
<1>7. InHand' = {}
  BY <1>1 DEF InHand
<1> QED BY <1>1, <1>4, <1>6, <1>7 DEF HandDistinct

LEMMA LookupCopies ==
    ASSUME CInv, Lookup \/ LookupFails
    PROVE  OncePerFault' /\ HandDistinct'
<1>1. Oldest \in sigs /\ Oldest \in (cursor + 1)..head
  <2>1. sigs # {}
    BY DEF CInv, IInv, LeftToLookUp, Lookup, LookupFails
  <2> QED BY <2>1, OldestInSigs, Numbers DEF CInv, IInv
<1>2. /\ pc = "lookup" /\ sigs' = sigs \ {Oldest} /\ pc' \in {"lookup", "add"}
      /\ UNCHANGED <<stored, stream, head>> /\ (faults' = faults \/ faults' = faults + 1)
      /\ events' \in {events, Append(events, Oldest)}
  BY DEF Lookup, LookupFails, LookedUp, Fault
<1>3. /\ events \in Seq((cursor + 1)..head) /\ Len(events) \in Nat
      /\ stored \in Nat /\ faults \in Nat /\ head \in Nat
  BY Numbers, BoundsAssumption DEF CInv, IInv, TypeOK
<1>4. InHand' \subseteq InHand \cup {Oldest}
      /\ \A m, n \in 1..Len(events') : m # n => events'[m] # events'[n]
  <2>1. CASE events' = events
    BY <2>1 DEF CInv, HandDistinct, InHand
  <2>2. CASE events' = Append(events, Oldest)
    <3>1. /\ Len(events') = Len(events) + 1 /\ events'[Len(events) + 1] = Oldest
          /\ \A n \in 1..Len(events) : events'[n] = events[n] /\ events[n] \in InHand
      BY <1>1, <1>3, <2>2 DEF InHand
    <3>2. Oldest \notin InHand
      BY <1>1 DEF CInv, HandDistinct
    <3>3. \A m \in 1..Len(events') : m \in 1..Len(events) \/ m = Len(events) + 1
      BY <1>3, <3>1
    <3>4. InHand' \subseteq InHand \cup {Oldest}
      BY <3>1, <3>3 DEF InHand
    <3>5. \A m, n \in 1..Len(events) : m # n => events[m] # events[n]
      BY DEF CInv, HandDistinct
    <3> QED BY <3>1, <3>2, <3>3, <3>4, <3>5
  <2> QED BY <1>2, <2>1, <2>2
<1>5. \A i : ~Done(i)' => ~Done(i)
  <2>1. sigs' \cup InHand' \subseteq sigs \cup InHand
    BY <1>1, <1>2, <1>4
  <2> QED BY <1>2, <2>1 DEF Done
<1>6. OncePerFault'
  BY <1>2, <1>3, <1>5, NothingAdded
<1>7. sigs' \cap InHand' = {}
  BY <1>2, <1>4 DEF CInv, HandDistinct
<1> QED BY <1>2, <1>4, <1>6, <1>7 DEF CInv, HandDistinct

\* The first event was not passed, and there is no second of it.
LEMMA HeadNotDone ==
    ASSUME CInv, events # <<>>, pc = "add"
    PROVE  /\ Head(events) \in Nat /\ Head(events) > stored /\ Head(events) \in InHand
           /\ \A n \in 1..Len(Tail(events)) :
                 Tail(events)[n] # Head(events) /\ Tail(events)[n] \in InHand
           /\ \A m, n \in 1..Len(Tail(events)) : m # n => Tail(events)[m] # Tail(events)[n]
<1> DEFINE S == (cursor + 1)..head
<1>1. events \in Seq(S) /\ Len(events) \in Nat /\ cursor = stored /\ stored \in Nat /\ head \in Nat
  BY Numbers DEF CInv, IInv, CursorStored
<1>2. \A i \in S : i \in Nat /\ i > stored
  BY <1>1
<1> HIDE DEF S
<1>3. /\ Len(events) > 0 /\ Head(events) = events[1] /\ events[1] \in S
      /\ Len(Tail(events)) = Len(events) - 1
      /\ \A n \in 1..Len(Tail(events)) : n + 1 \in 1..Len(events) /\ Tail(events)[n] = events[n + 1]
  BY <1>1
<1>4. 1 \in 1..Len(events) /\ \A n \in 1..Len(Tail(events)) : n + 1 # 1
  BY <1>1, <1>3
<1>5. \A m, n \in 1..Len(events) : m # n => events[m] # events[n]
  BY DEF CInv, HandDistinct
<1>6. \A n \in 1..Len(Tail(events)) : Tail(events)[n] # Head(events) /\ Tail(events)[n] \in InHand
  BY <1>3, <1>4, <1>5 DEF InHand
<1>7. \A m, n \in 1..Len(Tail(events)) : m # n => m + 1 # n + 1
  BY <1>1, <1>3
<1>8. \A m, n \in 1..Len(Tail(events)) : m # n => Tail(events)[m] # Tail(events)[n]
  BY <1>3, <1>5, <1>7
<1>9. Head(events) \in InHand
  BY <1>3, <1>4 DEF InHand
<1> QED BY <1>2, <1>3, <1>6, <1>8, <1>9

LEMMA AddCopies ==
    ASSUME CInv, Add
    PROVE  OncePerFault' /\ HandDistinct'
<1>1. /\ pc = "add" /\ events # <<>> /\ stream' = Append(stream, Head(events))
      /\ events' = Tail(events)
      /\ UNCHANGED <<stored, pc, cursor, sigs, head, faults>>
  BY DEF Add
<1>2. /\ Head(events) \in Nat /\ Head(events) > stored /\ Head(events) \in InHand
      /\ \A n \in 1..Len(Tail(events)) :
            Tail(events)[n] # Head(events) /\ Tail(events)[n] \in InHand
      /\ \A m, n \in 1..Len(Tail(events)) : m # n => Tail(events)[m] # Tail(events)[n]
  BY <1>1, HeadNotDone
<1>3. InHand' \subseteq InHand /\ Head(events) \notin InHand' /\ sigs = {}
  BY <1>1, <1>2 DEF InHand, CInv, IInv, LeftToLookUp
<1>4. \A i \in Nat : Cardinality(Copies(i)) \in Nat
  BY CopiesFinite DEF CInv, IInv
<1>5. \A i \in Nat : i # Head(events) /\ Done(i) => Done(i)'
  BY <1>1, <1>3 DEF Done
<1>6. \A i \in Nat : i = Head(events) => Done(i)' /\ ~Done(i)
  <2>1. Head(events) <= head
    <3> DEFINE S == (cursor + 1)..head
    <3>1. events \in Seq(S) /\ \A i \in S : i <= head
      BY Numbers DEF CInv, IInv
    <3> HIDE DEF S
    <3>2. Head(events) \in S
      BY <1>1, <3>1
    <3> QED BY <3>1, <3>2
  <2> QED BY <1>1, <1>2, <1>3, <2>1 DEF Done
<1>7. OncePerFault'
  <2> SUFFICES ASSUME NEW i \in Nat
               PROVE  /\ Cardinality(Copies(i)') <= 1 + faults'
                      /\ i > stored' /\ ~Done(i)' => Cardinality(Copies(i)') <= faults'
    BY DEF OncePerFault
  <2>1. Cardinality(Copies(i)') = Cardinality(Copies(i)) + (IF i = Head(events) THEN 1 ELSE 0)
    BY <1>1, OneCopyMore DEF CInv
  <2>2. /\ Cardinality(Copies(i)) <= 1 + faults
        /\ i > stored /\ ~Done(i) => Cardinality(Copies(i)) <= faults
    BY DEF CInv, OncePerFault
  <2>3. faults \in Nat
    BY BoundsAssumption DEF CInv, IInv, TypeOK
  <2>4. CASE i = Head(events)
    <3>1. Done(i)' /\ ~Done(i) /\ i > stored
      BY <1>2, <1>6, <2>4
    <3>2. Cardinality(Copies(i)') = Cardinality(Copies(i)) + 1 /\ Cardinality(Copies(i)) \in Nat
      BY <1>4, <2>1, <2>4
    <3> QED BY <1>1, <2>2, <2>3, <3>1, <3>2
  <2>5. CASE i # Head(events)
    <3>1. Cardinality(Copies(i)') = Cardinality(Copies(i)) /\ Cardinality(Copies(i)) \in Nat
      BY <1>4, <2>1, <2>5
    <3>2. ~Done(i)' => ~Done(i)
      BY <1>5, <2>5
    <3> QED BY <1>1, <2>2, <2>3, <3>1, <3>2
  <2> QED BY <2>4, <2>5
<1> QED BY <1>1, <1>2, <1>3, <1>7 DEF CInv, HandDistinct

LEMMA SaveCopies ==
    ASSUME CInv, Save
    PROVE  OncePerFault' /\ HandDistinct'
<1>1. /\ pc = "add" /\ pc' = "page" /\ events = <<>> /\ sigs = {} /\ stored' = head
      /\ UNCHANGED <<stream, sigs, events, faults>>
  BY DEF Save, CInv, IInv, LeftToLookUp
<1>2. head \in Nat /\ stored \in Nat /\ faults \in Nat
  BY Numbers, BoundsAssumption DEF CInv, IInv, TypeOK
<1>3. \A i \in Nat : i > head => ~Done(i)
  BY <1>2 DEF Done
<1>4. stored <= head
  BY <1>1 DEF CInv, HandDistinct
<1>5. OncePerFault'
  BY <1>1, <1>2, <1>3, <1>4, NothingAdded
<1>6. InHand' = {}
  BY <1>1 DEF InHand
<1> QED BY <1>1, <1>5, <1>6 DEF HandDistinct

LEMMA RestartCopies ==
    ASSUME CInv, Crash \/ Unheard
    PROVE  OncePerFault' /\ HandDistinct'
<1>1. pc' = "load" /\ sigs' = {} /\ events' = <<>> /\ faults' = faults + 1
  BY DEF Crash, Unheard, Restart, Fault
<1>2. HandDistinct'
  BY <1>1 DEF HandDistinct, InHand
<1>3. head \in Nat /\ stored \in Nat /\ faults \in Nat /\ cursor \in Nat
  BY Numbers, BoundsAssumption DEF CInv, IInv, TypeOK
<1>4. CASE UNCHANGED stream
  <2>1. stored' \in Nat /\ stored <= stored'
    BY <1>3 DEF Crash, Unheard, SetInitial, CInv, HandDistinct
  <2> QED BY <1>1, <1>2, <1>3, <1>4, <2>1, NothingAdded
<1>5. CASE /\ pc = "add" /\ events # <<>> /\ stream' = Append(stream, Head(events))
           /\ UNCHANGED stored
  <2>1. Head(events) > stored /\ ~Done(Head(events))
    BY <1>5, HeadNotDone DEF Done
  <2> SUFFICES ASSUME NEW i \in Nat
               PROVE  Cardinality(Copies(i)') \in Nat /\ Cardinality(Copies(i)') <= faults'
    <3>1. \A n \in Nat : n <= faults' => n <= 1 + faults'
      BY <1>1, <1>3
    <3> QED BY <1>2, <3>1 DEF OncePerFault
  <2>2. Cardinality(Copies(i)') = Cardinality(Copies(i)) + (IF i = Head(events) THEN 1 ELSE 0)
    BY <1>5, OneCopyMore DEF CInv
  <2>3. /\ Cardinality(Copies(i)) <= 1 + faults
        /\ i > stored /\ ~Done(i) => Cardinality(Copies(i)) <= faults
        /\ Cardinality(Copies(i)) \in Nat
    BY CopiesFinite DEF CInv, IInv, OncePerFault
  <2> QED BY <1>1, <1>3, <2>1, <2>2, <2>3
<1> QED BY <1>4, <1>5 DEF Crash, Unheard

\* A deposit is on the stream once, and once more for every fault at most.
THEOREM AddedOncePerFault == Spec => []CopiesBounded
<1>1. CInv /\ UNCHANGED vars => CInv'
  BY ZenonT(30) DEF CInv, OncePerFault, HandDistinct, Done, Copies, InHand, IInv, TypeOK, CheckpointCovers,
         CursorStored, PagesMeet, NothingInHand, RoundCovers, LeftToLookUp, vars, poller, Added,
         Deposits, Signatures
<1>2. CInv /\ Next => CInv'
  BY LandKeeps, StartKeeps, FetchPageKeeps, LookupKeeps, AddKeeps, SaveKeeps, RestartKeeps,
     LandCopies, StartCopies, FetchPageCopies, LookupCopies, AddCopies, SaveCopies, RestartCopies
     DEF Next, Poll, Break, CInv
<1>3. ASSUME CInv PROVE CopiesBounded
  <2>1. \A i \in Deposits : i \in Nat
    BY <1>3, Numbers DEF CInv, IInv
  <2>2. \A i \in Nat : Cardinality(Copies(i)) <= 1 + faults
    BY <1>3 DEF CInv, OncePerFault
  <2>3. \A i \in Deposits : Cardinality(Copies(i)) <= 1 + faults
    BY <2>1, <2>2, Zenon
  <2> QED BY <2>3, Zenon DEF CopiesBounded, Copies
<1> QED BY <1>1, <1>2, <1>3, CopiesInit, PTL DEF Spec
=============================================================================

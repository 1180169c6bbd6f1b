---------------------------- MODULE OutboxProofs ----------------------------
(***************************************************************************)
(* The outbox and its relays, for any number of rows, relays and faults: a  *)
(* row that is marked was published, nothing but committed rows is, and a   *)
(* row's copies are paid for by relays and faults.                          *)
(***************************************************************************)
EXTENDS Outbox, FiniteSetTheorems, TLAPS

Holders(x) == {k \in Relays : hand[k] = x}
Waiting(x) == {k \in Relays : x \in batch[k]}

\* What a relay is about to mark is on the stream, and no longer in its batch.
HandTaken ==
    \A k \in Relays : hand[k] # None => hand[k] \in Published /\ hand[k] \notin batch[k]

\* An unsent row's copies are in hand somewhere or were paid for by a fault;
\* once it is sent, a relay adds one more only if it still has it in its batch.
CopiesPaid ==
    \A x \in Rows :
       /\ x \notin sent => Cardinality(Copies(x)) <= faults + Cardinality(Holders(x))
       /\ x \in sent => Cardinality(Copies(x)) + Cardinality(Waiting(x))
                           <= faults + Cardinality(Relays)

\* The inductive invariant.
IInv == TypeOK /\ SentWasPublished /\ HandTaken /\ CopiesPaid

----------------------------------------------------------------------------
(* Types, and the stream *)

LEMMA TypeInit == Init => TypeOK
BY FaultAssumption DEF Init, TypeOK

\* Appending a row to the stream: one more published row, one more copy of it.
LEMMA Appended ==
    ASSUME TypeOK, NEW x \in committed, stream' = Append(stream, x)
    PROVE  /\ stream' \in Seq(committed)
           /\ Published' = Published \cup {x}
           /\ Copies(x)' = Copies(x) \cup {Len(stream) + 1}
           /\ \A y : y # x => Copies(y)' = Copies(y)
<1>1. stream \in Seq(committed) /\ Len(stream) \in Nat
  BY DEF TypeOK
<1>2. /\ Len(stream') = Len(stream) + 1
      /\ stream'[Len(stream) + 1] = x
      /\ \A i \in 1..Len(stream) : stream'[i] = stream[i]
  BY <1>1
<1>3. 1..Len(stream') = (1..Len(stream)) \cup {Len(stream) + 1}
  BY <1>1, <1>2
<1>4. Len(stream) + 1 \notin 1..Len(stream)
  BY <1>1
<1>5. stream' \in Seq(committed)
  BY <1>1
<1>6. Published' = Published \cup {x}
  BY <1>2, <1>3 DEF Published
<1>7. Copies(x)' = Copies(x) \cup {Len(stream) + 1}
  BY <1>2, <1>3 DEF Copies
<1>8. \A y : y # x => Copies(y)' = Copies(y)
  BY <1>2, <1>3, <1>4 DEF Copies
<1> QED BY <1>5, <1>6, <1>7, <1>8

LEMMA TypeStep == TypeOK /\ [Next]_vars => TypeOK'
<1> SUFFICES ASSUME TypeOK, [Next]_vars PROVE TypeOK'
  OBVIOUS
<1>1. ASSUME NEW x \in Rows, Commit(x) PROVE TypeOK'
  <2>1. committed \subseteq committed'
    BY <1>1 DEF Commit
  <2>2. stream \in Seq(committed')
    <3>1. Len(stream) \in Nat /\ stream \in [1..Len(stream) -> committed']
      BY <2>1 DEF TypeOK
    <3> QED BY <3>1
  <2> QED BY <1>1, <2>1, <2>2 DEF Commit, TypeOK
<1>2. ASSUME NEW k \in Relays, NEW x \in Rows, Xadd(k, x) PROVE TypeOK'
  <2>1. x \in committed
    BY <1>2 DEF Xadd, TypeOK
  <2>2. stream' \in Seq(committed)
    BY <1>2, <2>1, Appended DEF Xadd
  <2> QED BY <1>2, <2>1, <2>2 DEF Xadd, TypeOK
<1>3. ASSUME NEW k \in Relays, NEW x \in Rows, XaddFails(k, x) PROVE TypeOK'
  <2>1. x \in committed
    BY <1>3 DEF XaddFails, TypeOK
  <2>2. stream' \in Seq(committed)
    <3>1. CASE stream' = stream
      BY <3>1 DEF TypeOK
    <3>2. CASE stream' = Append(stream, x)
      BY <2>1, <3>2, Appended
    <3> QED BY <1>3, <3>1, <3>2 DEF XaddFails, XaddLost
  <2>3. broken' \in SUBSET Relays /\ faults' \in 0..MaxFaults
    BY <1>3, FaultAssumption DEF XaddFails, XaddLost, Fault, TypeOK
  <2> QED BY <1>3, <2>2, <2>3 DEF XaddFails, TypeOK
<1>4. ASSUME NEW k \in Relays, ReadUnsent(k) \/ MarkSent(k) PROVE TypeOK'
  BY <1>4 DEF ReadUnsent, Unsent, MarkSent, TypeOK
<1>5. ASSUME NEW k \in Relays, MarkFails(k) \/ Crash(k) PROVE TypeOK'
  BY <1>5, FaultAssumption DEF MarkFails, Crash, Fault, TypeOK
<1>6. CASE UNCHANGED vars
  BY <1>6 DEF vars, TypeOK
<1> QED BY <1>1, <1>2, <1>3, <1>4, <1>5, <1>6 DEF Next, Publish, PassOver

\* The tables, the stream and every relay keep their types.
THEOREM TypeCorrect == Spec => []TypeOK
BY TypeInit, TypeStep, PTL DEF Spec

----------------------------------------------------------------------------
(* Counting *)

LEMMA Counts ==
    ASSUME TypeOK, NEW x
    PROVE  /\ IsFiniteSet(Copies(x)) /\ Cardinality(Copies(x)) \in Nat
           /\ IsFiniteSet(Holders(x)) /\ Cardinality(Holders(x)) \in Nat
           /\ IsFiniteSet(Waiting(x)) /\ Cardinality(Waiting(x)) \in Nat
           /\ Cardinality(Relays) \in Nat
           /\ Cardinality(Holders(x)) <= Cardinality(Relays)
           /\ Holders(x) \cap Waiting(x) = {}
                 => Cardinality(Holders(x)) + Cardinality(Waiting(x)) <= Cardinality(Relays)
<1>1. IsFiniteSet(Copies(x))
  <2>1. Copies(x) \subseteq 1..Len(stream) /\ Len(stream) \in Nat
    BY DEF Copies, TypeOK
  <2>2. IsFiniteSet(1..Len(stream))
    BY <2>1, FS_Interval
  <2> QED BY <2>1, <2>2, FS_Subset
<1>2. Holders(x) \subseteq Relays /\ Waiting(x) \subseteq Relays
  BY DEF Holders, Waiting
<1>3. /\ IsFiniteSet(Holders(x)) /\ IsFiniteSet(Waiting(x))
      /\ Cardinality(Holders(x)) <= Cardinality(Relays)
  BY <1>2, RelaysAssumption, FS_Subset
<1>4. ASSUME Holders(x) \cap Waiting(x) = {}
      PROVE  Cardinality(Holders(x)) + Cardinality(Waiting(x)) <= Cardinality(Relays)
  <2> DEFINE both == Holders(x) \cup Waiting(x)
  <2>1. Cardinality(both) = Cardinality(Holders(x)) + Cardinality(Waiting(x))
    <3>1. Cardinality(both) = Cardinality(Holders(x)) + Cardinality(Waiting(x))
                                 - Cardinality(Holders(x) \cap Waiting(x))
      BY <1>3, FS_Union
    <3>2. Cardinality(Holders(x) \cap Waiting(x)) = 0
      BY <1>4, FS_EmptySet
    <3> QED BY <1>3, <3>1, <3>2, FS_CardinalityType
  <2>2. both \subseteq Relays
    BY <1>2
  <2>3. Cardinality(both) <= Cardinality(Relays)
    BY <2>2, RelaysAssumption, FS_Subset
  <2> QED BY <2>1, <2>3
<1> QED BY <1>1, <1>3, <1>4, RelaysAssumption, FS_CardinalityType

\* One relay more, or one less.
LEMMA OneMore ==
    ASSUME NEW S, IsFiniteSet(S), NEW T, NEW k, k \notin S, T = S \cup {k}
    PROVE  Cardinality(T) = Cardinality(S) + 1
BY FS_AddElement

LEMMA OneLess ==
    ASSUME NEW S, IsFiniteSet(S), NEW T, NEW k, k \in S, T = S \ {k}
    PROVE  Cardinality(T) = Cardinality(S) - 1
BY FS_RemoveElement

LEMMA NoMore ==
    ASSUME NEW S, IsFiniteSet(S), NEW T \in SUBSET S
    PROVE  Cardinality(T) <= Cardinality(S)
BY FS_Subset

LEMMA AtMostOneLess ==
    ASSUME NEW S, IsFiniteSet(S), NEW T, NEW k, S \ {k} \subseteq T, T \subseteq S
    PROVE  Cardinality(S) <= Cardinality(T) + 1
<1>1. CASE T = S
  BY <1>1, FS_CardinalityType
<1>2. CASE T # S
  <2>1. k \in S /\ T = S \ {k}
    BY <1>2
  <2> QED BY <2>1, OneLess, FS_CardinalityType
<1> QED BY <1>1, <1>2

----------------------------------------------------------------------------
(* The invariant *)

LEMMA InvInit == Init => IInv
<1> SUFFICES ASSUME Init PROVE IInv
  OBVIOUS
<1>1. TypeOK
  BY TypeInit
<1>2. SentWasPublished /\ HandTaken
  BY DEF Init, SentWasPublished, HandTaken
<1>3. ASSUME NEW x \in Rows PROVE Cardinality(Copies(x)) = 0
  <2>1. Copies(x) = {}
    BY DEF Init, Copies
  <2> QED BY <2>1, FS_EmptySet
<1>4. CopiesPaid
  BY <1>1, <1>3, Counts DEF Init, CopiesPaid
<1> QED BY <1>1, <1>2, <1>4 DEF IInv

\* XADD: the row leaves the batch for the hand and gains a copy.
LEMMA InvXadd ==
    ASSUME IInv, TypeOK', NEW k \in Relays, NEW y \in Rows, Xadd(k, y)
    PROVE  SentWasPublished' /\ HandTaken' /\ CopiesPaid'
<1> USE DEF IInv
<1>1. y \in committed /\ stream' = Append(stream, y) /\ y # None
  BY NoneAssumption DEF Xadd, TypeOK
<1>2. /\ Published' = Published \cup {y}
      /\ Copies(y)' = Copies(y) \cup {Len(stream) + 1}
      /\ \A x : x # y => Copies(x)' = Copies(x)
  BY <1>1, Appended
<1>3. SentWasPublished'
  BY <1>2 DEF Xadd, SentWasPublished
<1>4. HandTaken'
  BY <1>2 DEF Xadd, HandTaken, TypeOK
<1>5. ASSUME NEW x \in Rows, x # y
      PROVE  Copies(x)' = Copies(x) /\ Holders(x)' = Holders(x) /\ Waiting(x)' = Waiting(x)
  <2>1. Holders(x)' = Holders(x)
    BY <1>5, NoneAssumption DEF Xadd, Holders, TypeOK
  <2>2. Waiting(x)' = Waiting(x)
    BY <1>5 DEF Xadd, Waiting, TypeOK
  <2> QED BY <1>2, <1>5, <2>1, <2>2
<1>6. Cardinality(Copies(y)') = Cardinality(Copies(y)) + 1
  <2>1. Len(stream) + 1 \notin Copies(y)
    BY DEF Copies, TypeOK
  <2> QED BY <1>2, <2>1, Counts, OneMore
<1>7. Cardinality(Holders(y)') = Cardinality(Holders(y)) + 1
  <2>1. k \notin Holders(y) /\ Holders(y)' = Holders(y) \cup {k}
    BY <1>1 DEF Xadd, Holders, TypeOK
  <2> QED BY <2>1, Counts, OneMore
<1>8. Cardinality(Waiting(y)') = Cardinality(Waiting(y)) - 1
  <2>1. k \in Waiting(y) /\ Waiting(y)' = Waiting(y) \ {k}
    BY DEF Xadd, Waiting, TypeOK
  <2> QED BY <2>1, Counts, OneLess
<1>9. CopiesPaid'
  <2> SUFFICES ASSUME NEW x \in Rows
               PROVE  /\ x \notin sent => Cardinality(Copies(x)') <= faults + Cardinality(Holders(x)')
                      /\ x \in sent => Cardinality(Copies(x)') + Cardinality(Waiting(x)')
                                          <= faults + Cardinality(Relays)
    BY DEF CopiesPaid, Xadd
  <2>1. CASE x = y
    BY <1>6, <1>7, <1>8, <2>1, Counts, SMTT(20) DEF CopiesPaid, TypeOK
  <2>2. CASE x # y
    BY <1>5, <2>2 DEF CopiesPaid
  <2> QED BY <2>1, <2>2
<1> QED BY <1>3, <1>4, <1>9

\* XADD fails: the batch shrinks; a copy, if there is one, costs a fault.
LEMMA InvXaddFails ==
    ASSUME IInv, TypeOK', NEW k \in Relays, NEW y \in Rows, XaddFails(k, y)
    PROVE  SentWasPublished' /\ HandTaken' /\ CopiesPaid'
<1> USE DEF IInv
<1>1. y \in committed /\ hand' = hand /\ sent' = sent
  BY DEF XaddFails, TypeOK
<1>2. \/ stream' = stream /\ faults' \in {faults, faults + 1}
      \/ stream' = Append(stream, y) /\ faults' = faults + 1
  BY DEF XaddFails, XaddLost, Fault
<1>3. faults \in Nat /\ faults' \in Nat /\ faults <= faults'
  BY <1>2, FaultAssumption DEF TypeOK
<1>4. CASE stream' = stream
  <2>1. Published' = Published /\ \A x : Copies(x)' = Copies(x)
    BY <1>4 DEF Published, Copies
  <2>2. SentWasPublished' /\ HandTaken'
    BY <1>1, <2>1 DEF XaddFails, SentWasPublished, HandTaken, TypeOK
  <2>3. ASSUME NEW x \in Rows
        PROVE  /\ Holders(x)' = Holders(x)
               /\ Cardinality(Waiting(x)') <= Cardinality(Waiting(x))
    <3>1. Waiting(x)' \subseteq Waiting(x)
      BY DEF XaddFails, Waiting, TypeOK
    <3>2. Holders(x)' = Holders(x)
      BY <1>1 DEF Holders
    <3> QED BY <3>1, <3>2, Counts, NoMore
  <2>4. CopiesPaid'
    <3> SUFFICES ASSUME NEW x \in Rows
                 PROVE  /\ x \notin sent => Cardinality(Copies(x)') <= faults' + Cardinality(Holders(x)')
                        /\ x \in sent => Cardinality(Copies(x)') + Cardinality(Waiting(x)')
                                            <= faults' + Cardinality(Relays)
      BY <1>1 DEF CopiesPaid
    <3>1. Cardinality(Waiting(x)') \in Nat
      <4>1. Waiting(x)' \subseteq Waiting(x)
        BY DEF XaddFails, Waiting, TypeOK
      <4> QED BY <4>1, Counts, FS_Subset, FS_CardinalityType
    <3> QED BY <1>3, <2>1, <2>3, <3>1, Counts DEF CopiesPaid
  <2> QED BY <2>2, <2>4
<1>5. CASE stream' = Append(stream, y) /\ faults' = faults + 1
  <2>1. /\ Published' = Published \cup {y}
        /\ Copies(y)' = Copies(y) \cup {Len(stream) + 1}
        /\ \A x : x # y => Copies(x)' = Copies(x)
    BY <1>1, <1>5, Appended
  <2>2. SentWasPublished' /\ HandTaken'
    BY <1>1, <2>1 DEF XaddFails, SentWasPublished, HandTaken, TypeOK
  <2>3. Cardinality(Copies(y)') = Cardinality(Copies(y)) + 1
    <3>1. Len(stream) + 1 \notin Copies(y)
      BY DEF Copies, TypeOK
    <3> QED BY <2>1, <3>1, Counts, OneMore
  <2>4. Cardinality(Waiting(y)') = Cardinality(Waiting(y)) - 1
    <3>1. k \in Waiting(y) /\ Waiting(y)' = Waiting(y) \ {k}
      BY DEF XaddFails, Waiting, TypeOK
    <3> QED BY <3>1, Counts, OneLess
  <2>5. \A x : Holders(x)' = Holders(x)
    BY <1>1 DEF Holders
  <2>6. ASSUME NEW x \in Rows, x # y PROVE Waiting(x)' = Waiting(x)
    BY <2>6 DEF XaddFails, Waiting, TypeOK
  <2>7. CopiesPaid'
    <3> SUFFICES ASSUME NEW x \in Rows
                 PROVE  /\ x \notin sent => Cardinality(Copies(x)') <= faults' + Cardinality(Holders(x)')
                        /\ x \in sent => Cardinality(Copies(x)') + Cardinality(Waiting(x)')
                                            <= faults' + Cardinality(Relays)
      BY <1>1 DEF CopiesPaid
    <3>1. CASE x = y
      BY <1>3, <1>5, <2>3, <2>4, <2>5, <3>1, Counts, SMTT(20) DEF CopiesPaid
    <3>2. CASE x # y
      BY <1>3, <1>5, <2>1, <2>5, <2>6, <3>2, Counts DEF CopiesPaid
    <3> QED BY <3>1, <3>2
  <2> QED BY <2>2, <2>7
<1> QED BY <1>2, <1>4, <1>5

\* mark_outbox_sent: the row's holders and the relays it waits with are not the
\* same ones, so together they are no more than all relays.
LEMMA InvMarkSent ==
    ASSUME IInv, TypeOK', NEW k \in Relays, MarkSent(k)
    PROVE  SentWasPublished' /\ HandTaken' /\ CopiesPaid'
<1> USE DEF IInv
<1> DEFINE y == hand[k]
<1>1. /\ y \in Published /\ y # None /\ sent' = sent \cup {y}
      /\ stream' = stream /\ batch' = batch /\ faults' = faults
      /\ hand' = [hand EXCEPT ![k] = None]
  BY DEF MarkSent, HandTaken
<1> HIDE DEF y
<1>2. Published' = Published /\ \A x : Copies(x)' = Copies(x) /\ Waiting(x)' = Waiting(x)
  BY <1>1 DEF Published, Copies, Waiting
<1>3. SentWasPublished'
  BY <1>1, <1>2 DEF SentWasPublished
<1>4. HandTaken'
  BY <1>1, <1>2 DEF HandTaken, TypeOK
<1>5. Holders(y) \cap Waiting(y) = {}
  BY <1>1 DEF Holders, Waiting, HandTaken
<1>6. ASSUME NEW x \in Rows, x # y PROVE Holders(x)' = Holders(x)
  <2>1. x # None
    BY NoneAssumption
  <2> QED BY <1>1, <1>6, <2>1 DEF Holders, TypeOK, y
<1>7. CopiesPaid'
  <2> SUFFICES ASSUME NEW x \in Rows
               PROVE  /\ x \notin sent' => Cardinality(Copies(x)) <= faults + Cardinality(Holders(x)')
                      /\ x \in sent' => Cardinality(Copies(x)) + Cardinality(Waiting(x))
                                          <= faults + Cardinality(Relays)
    BY <1>1, <1>2 DEF CopiesPaid
  <2>1. faults \in Nat
    BY FaultAssumption DEF TypeOK
  <2>2. CASE x \in sent
    BY <1>1, <2>2 DEF CopiesPaid
  <2>3. CASE x \notin sent /\ x # y
    BY <1>1, <1>6, <2>3 DEF CopiesPaid
  <2>4. CASE x \notin sent /\ x = y
    BY <1>1, <1>5, <2>1, <2>4, Counts DEF CopiesPaid
  <2> QED BY <2>2, <2>3, <2>4
<1> QED BY <1>3, <1>4, <1>7

\* A failed mark or a crash: one holder fewer, for one fault more.
LEMMA InvDrop ==
    ASSUME IInv, TypeOK', NEW k \in Relays, MarkFails(k) \/ Crash(k)
    PROVE  SentWasPublished' /\ HandTaken' /\ CopiesPaid'
<1> USE DEF IInv
<1>1. /\ sent' = sent /\ stream' = stream /\ faults' = faults + 1
      /\ hand' = [hand EXCEPT ![k] = None]
      /\ batch' \in [Relays -> SUBSET committed]
      /\ \A j \in Relays : batch'[j] \subseteq batch[j]
  BY DEF MarkFails, Crash, Fault, TypeOK
<1>2. Published' = Published /\ \A x : Copies(x)' = Copies(x)
  BY <1>1 DEF Published, Copies
<1>3. SentWasPublished' /\ HandTaken'
  BY <1>1, <1>2 DEF SentWasPublished, HandTaken, TypeOK
<1>4. ASSUME NEW x \in Rows
      PROVE  /\ Cardinality(Holders(x)) <= Cardinality(Holders(x)') + 1
             /\ Cardinality(Holders(x)') \in Nat
             /\ Cardinality(Waiting(x)') <= Cardinality(Waiting(x))
             /\ Cardinality(Waiting(x)') \in Nat
  <2>1. Holders(x) \ {k} \subseteq Holders(x)' /\ Holders(x)' \subseteq Holders(x)
    BY <1>1, NoneAssumption DEF Holders, TypeOK
  <2>2. Waiting(x)' \subseteq Waiting(x)
    BY <1>1 DEF Waiting
  <2>3. Cardinality(Holders(x)) <= Cardinality(Holders(x)') + 1
    BY <2>1, Counts, AtMostOneLess
  <2>4. Cardinality(Waiting(x)') <= Cardinality(Waiting(x))
    BY <2>2, Counts, NoMore
  <2>5. IsFiniteSet(Holders(x)') /\ IsFiniteSet(Waiting(x)')
    BY <2>1, <2>2, Counts, FS_Subset
  <2> QED BY <2>3, <2>4, <2>5, FS_CardinalityType
<1>5. CopiesPaid'
  <2> SUFFICES ASSUME NEW x \in Rows
               PROVE  /\ x \notin sent => Cardinality(Copies(x)) <= faults + 1 + Cardinality(Holders(x)')
                      /\ x \in sent => Cardinality(Copies(x)) + Cardinality(Waiting(x)')
                                          <= faults + 1 + Cardinality(Relays)
    BY <1>1, <1>2 DEF CopiesPaid
  <2>1. faults \in Nat
    BY FaultAssumption DEF TypeOK
  <2> QED BY <1>4, <2>1, Counts DEF CopiesPaid
<1> QED BY <1>3, <1>5

\* What is read is unsent, so no sent row gets into a batch.
LEMMA InvQuiet ==
    ASSUME IInv, TypeOK',
           \/ \E x \in Rows : Commit(x)
           \/ \E k \in Relays : ReadUnsent(k)
           \/ UNCHANGED vars
    PROVE  SentWasPublished' /\ HandTaken' /\ CopiesPaid'
<1> USE DEF IInv
<1>1. sent' = sent /\ stream' = stream /\ faults' = faults /\ hand' = hand
  BY DEF Commit, ReadUnsent, vars
<1>2. /\ Published' = Published
      /\ \A x : Copies(x)' = Copies(x) /\ Holders(x)' = Holders(x)
  BY <1>1 DEF Published, Copies, Holders
<1>3. \A j \in Relays : hand[j] # None => batch'[j] = batch[j]
  BY DEF Commit, ReadUnsent, vars, TypeOK
<1>4. SentWasPublished' /\ HandTaken'
  BY <1>1, <1>2, <1>3 DEF SentWasPublished, HandTaken
<1>5. \A x \in sent : Waiting(x)' = Waiting(x)
  BY DEF Commit, ReadUnsent, Unsent, vars, Waiting, TypeOK
<1>6. CopiesPaid'
  BY <1>1, <1>2, <1>5 DEF CopiesPaid
<1> QED BY <1>4, <1>6

LEMMA Invariance == Spec => []IInv
<1>1. IInv /\ [Next]_vars => IInv'
  <2> SUFFICES ASSUME IInv, [Next]_vars PROVE IInv'
    OBVIOUS
  <2>1. TypeOK'
    BY TypeStep DEF IInv
  <2>2. SentWasPublished' /\ HandTaken' /\ CopiesPaid'
    BY <2>1, InvXadd, InvXaddFails, InvMarkSent, InvDrop, InvQuiet DEF Next, Publish, PassOver
  <2> QED BY <2>1, <2>2 DEF IInv
<1> QED BY <1>1, InvInit, PTL DEF Spec

----------------------------------------------------------------------------
(* The theorems *)

\* No row is marked sent, by whichever relay and through whatever crash or
\* failed statement, that is not on the stream.
THEOREM SentIsPublished == Spec => []SentWasPublished
<1>1. IInv => SentWasPublished
  BY DEF IInv
<1> QED BY <1>1, Invariance, PTL

\* A row is not on the stream more often than there are relays and faults.
THEOREM DuplicatesArePaid == Spec => []CopiesBounded
<1>1. IInv => CopiesBounded
  <2> SUFFICES ASSUME IInv, NEW x \in Rows
               PROVE  Cardinality(Copies(x)) <= Cardinality(Relays) + faults
    BY DEF CopiesBounded
  <2>1. TypeOK /\ faults \in Nat
    BY FaultAssumption DEF IInv, TypeOK
  <2> QED BY <2>1, Counts DEF IInv, CopiesPaid
<1> QED BY <1>1, Invariance, PTL

\* The safety half of the refinement: what is published was accepted, and every
\* step is a step of AtLeastOnce or none.
THEOREM PublishesOnlyAccepted == Spec => Abstract!Safety
<1>1. Init => Abstract!Init
  BY DEF Init, Abstract!Init, Published
<1>2. TypeOK /\ [Next]_vars => [Abstract!Next]_(Abstract!vars)
  <2> SUFFICES ASSUME TypeOK, [Next]_vars
               PROVE  \/ \E x \in Rows : Abstract!Accept(x) \/ Abstract!Publish(x)
                      \/ committed' = committed /\ Published' = Published
    BY DEF Abstract!Next, Abstract!vars
  <2>1. ASSUME NEW x \in Rows, Commit(x) PROVE Abstract!Accept(x)
    BY <2>1 DEF Commit, Abstract!Accept, Published
  <2>2. ASSUME NEW x \in committed, stream' = Append(stream, x), committed' = committed
        PROVE  Abstract!Publish(x)
    BY <2>2, Appended DEF Abstract!Publish
  <2>3. ASSUME stream' = stream PROVE Published' = Published
    BY <2>3 DEF Published
  <2>4. ASSUME NEW k \in Relays, NEW x \in Rows, Xadd(k, x) \/ XaddFails(k, x)
        PROVE  /\ x \in committed /\ committed' = committed
               /\ stream' = stream \/ stream' = Append(stream, x)
    BY <2>4 DEF Xadd, XaddFails, XaddLost, TypeOK
  <2>5. ASSUME \/ \E k \in Relays : ReadUnsent(k) \/ MarkSent(k) \/ MarkFails(k) \/ Crash(k)
               \/ UNCHANGED vars
        PROVE  committed' = committed /\ stream' = stream
    BY <2>5 DEF ReadUnsent, MarkSent, MarkFails, Crash, vars
  <2>6. CASE \E x \in Rows : Commit(x)
    BY <2>1, <2>6
  <2>7. CASE \E k \in Relays, x \in Rows : Xadd(k, x) \/ XaddFails(k, x)
    <3>1. PICK x \in committed : committed' = committed /\ (stream' = stream \/ stream' = Append(stream, x))
      BY <2>4, <2>7
    <3>2. x \in Rows
      BY <3>1 DEF TypeOK
    <3> QED BY <2>2, <2>3, <3>1, <3>2
  <2> QED BY <2>3, <2>5, <2>6, <2>7 DEF Next, Publish, PassOver
<1> QED BY <1>1, <1>2, TypeCorrect, PTL DEF Spec, Abstract!Safety
=============================================================================

------------------------- MODULE PayoutWorkerProofs -------------------------
(***************************************************************************)
(* The payout path, for any number of withdrawals, accounts, workers and    *)
(* faults: what the reply parser finds in an entry; what is acked is        *)
(* terminal, what is completed was sent, a terminal status stays; locked    *)
(* funds are those of the open withdrawals, an account is overdrawn only by *)
(* refunds of negative amounts and no money is made or lost; and with one   *)
(* worker nothing is sent twice, nor refunded once sent.                    *)
(***************************************************************************)
EXTENDS PayoutWorker, SetLemmas, FiniteSetTheorems, TLAPS

(* What the parser makes of the two replies, for every list of entries with  *)
(* every list of fields: all of XREADGROUP's, none of XAUTOCLAIM's.          *)

\* A stream entry: an id and a list of field names and values.
EntryOf(Ids, Texts) == [id : Ids, fields : Seq({Data(t) : t \in Texts})]

\* RESP arrays and texts are told apart.
LEMMA Kinds ==
    /\ \A q : IsBulk(Bulk(q)) /\ Bulk(q).bulk = q
    /\ \A t : ~IsBulk(Data(t)) /\ IsData(Data(t)) /\ Data(t).data = t
    /\ ~IsBulk(Nil)
BY DEF IsBulk, Bulk, Data, Nil, IsData

LEMMA PairsOfBulk ==
    ASSUME NEW q
    PROVE  \A x : x \in PairsIn(Bulk(q))
                    <=> \E i \in 1..Len(q) : x = q[i] /\ IsBulk(q[i]) /\ Len(q[i].bulk) = 2
BY Kinds DEF PairsIn

LEMMA EntryShape ==
    ASSUME NEW Ids, NEW Texts, NEW e \in EntryOf(Ids, Texts)
    PROVE  /\ IsBulk(EntryReply(e))
           /\ EntryReply(e).bulk = <<Data(e.id), Bulk(e.fields)>>
           /\ \A i \in 1..Len(e.fields) : ~IsBulk(e.fields[i])
<1>1. \A i \in 1..Len(e.fields) : e.fields[i] \in {Data(t) : t \in Texts}
  BY DEF EntryOf
<1>2. \A i \in 1..Len(e.fields) : ~IsBulk(e.fields[i])
  BY <1>1, Kinds
<1> QED BY <1>2, Kinds DEF EntryReply

\* Taken for a stream, the only pair inside an entry is its field list, and
\* that holds no array.
LEMMA EntryIsNoStream ==
    ASSUME NEW Ids, NEW Texts, NEW e \in EntryOf(Ids, Texts),
           NEW m \in PairsIn(EntryReply(e))
    PROVE  ~IsBulk(m.bulk[2])
<1> DEFINE pair == <<Data(e.id), Bulk(e.fields)>>
<1>1. PICK i \in 1..Len(pair) : m = pair[i] /\ IsBulk(pair[i]) /\ Len(pair[i].bulk) = 2
  BY EntryShape DEF PairsIn
<1>2. i = 2
  <2>1. i \in 1..2
    BY <1>1
  <2>2. i # 1
    BY <1>1, Kinds
  <2> QED BY <2>1, <2>2
<1>3. m.bulk = e.fields /\ Len(e.fields) = 2
  BY <1>1, <1>2, Kinds
<1> QED BY <1>3, EntryShape

\* XAUTOCLAIM: the parser finds no entry in any reply, however many entries
\* were claimed and whatever their fields are.
THEOREM ReclaimYieldsNothing ==
    ASSUME NEW Ids, NEW Texts, NEW cursor,
           NEW entries \in Seq(EntryOf(Ids, Texts)), NEW deleted \in Seq(Ids)
    PROVE  Delivered(AutoclaimReply(cursor, entries, deleted)) = {}
<1> DEFINE items == [i \in 1..Len(entries) |-> EntryReply(entries[i])]
           gone == [i \in 1..Len(deleted) |-> Data(deleted[i])]
           top == <<Data(cursor), Bulk(items), Bulk(gone)>>
<1>1. AutoclaimReply(cursor, entries, deleted) = Bulk(top)
  BY DEF AutoclaimReply, EntriesReply
<1>2. SUFFICES ASSUME NEW s \in PairsIn(Bulk(top)), NEW m \in PairsIn(s.bulk[2]),
                      IsBulk(m.bulk[2])
               PROVE  FALSE
  BY <1>1 DEF Delivered, Parse, EntriesOf
<1>3. PICK i \in 1..Len(top) : s = top[i] /\ IsBulk(top[i]) /\ Len(top[i].bulk) = 2
  <2> HIDE DEF top
  <2> QED BY PairsOfBulk
<1>4. i \in {1, 2, 3}
  BY <1>3
<1>5. CASE i = 1
  BY <1>3, <1>5, Kinds
<1>6. CASE i = 2
  <2>1. s.bulk = items /\ Len(items) = 2
    BY <1>3, <1>6, Kinds
  <2>2. 2 \in 1..Len(entries)
    <3>1. Len(items) = Len(entries)
      OBVIOUS
    <3>2. Len(entries) = 2
      BY <2>1, <3>1
    <3> QED BY <3>2
  <2>3. s.bulk[2] = EntryReply(entries[2])
    BY <2>1, <2>2
  <2>4. entries[2] \in EntryOf(Ids, Texts)
    BY <2>2
  <2> QED BY <2>3, <2>4, EntryIsNoStream, <1>2
<1>7. CASE i = 3
  <2>1. s.bulk = gone /\ Len(gone) = 2
    BY <1>3, <1>7, Kinds
  <2>2. s.bulk[2] = Data(deleted[2])
    BY <2>1
  <2> QED BY <2>2, Kinds DEF PairsIn
<1> QED BY <1>4, <1>5, <1>6, <1>7

\* XREADGROUP: the parser hands over every entry, with its id and its fields,
\* and nothing else.
THEOREM NewEntriesCarried ==
    ASSUME NEW Ids, NEW Texts, NEW origin, NEW entries \in Seq(EntryOf(Ids, Texts))
    PROVE  Parse(ReadGroupReply(origin, entries)) = Carried(origin, entries)
<1>1. CASE entries = <<>>
  <2>1. Parse(ReadGroupReply(origin, entries)) = {}
    BY <1>1, Kinds DEF ReadGroupReply, Parse, PairsIn
  <2>2. Len(entries) = 0
    BY <1>1
  <2>3. Carried(origin, entries) = {}
    BY <2>2 DEF Carried
  <2> QED BY <2>1, <2>3
<1>2. CASE entries # <<>>
  <2> DEFINE items == [i \in 1..Len(entries) |-> EntryReply(entries[i])]
             one == <<Data(origin), Bulk(items)>>
             only == Bulk(one)
  <2>1. ReadGroupReply(origin, entries) = Bulk(<<only>>)
    BY <1>2 DEF ReadGroupReply, EntriesReply
  <2>2. PairsIn(Bulk(<<only>>)) = {only}
    <3>1. IsBulk(Bulk(<<only>>)) /\ Bulk(<<only>>).bulk = <<only>> /\ IsBulk(only) /\ only.bulk = one
      BY Kinds
    <3>2. Len(one) = 2 /\ Len(<<only>>) = 1 /\ <<only>>[1] = only
      OBVIOUS
    <3> HIDE DEF only, one
    <3> QED BY <3>1, <3>2 DEF PairsIn
  <2>3. only.bulk[1] = Data(origin) /\ only.bulk[2] = Bulk(items)
    BY Kinds
  <2>4. PairsIn(Bulk(items)) = {EntryReply(entries[i]) : i \in 1..Len(entries)}
    <3>1. IsBulk(Bulk(items)) /\ Bulk(items).bulk = items /\ Len(items) = Len(entries)
      BY Kinds
    <3>2. \A i \in 1..Len(entries) : /\ IsBulk(items[i])
                                     /\ Len(items[i].bulk) = 2
                                     /\ items[i] = EntryReply(entries[i])
      <4> TAKE i \in 1..Len(entries)
      <4>1. entries[i] \in EntryOf(Ids, Texts) /\ items[i] = EntryReply(entries[i])
        OBVIOUS
      <4>2. /\ IsBulk(EntryReply(entries[i]))
            /\ EntryReply(entries[i]).bulk = <<Data(entries[i].id), Bulk(entries[i].fields)>>
        BY <4>1, EntryShape
      <4>3. Len(EntryReply(entries[i]).bulk) = 2
        BY <4>2
      <4> QED BY <4>1, <4>2, <4>3
    <3> HIDE DEF items
    <3> QED BY <3>1, <3>2 DEF PairsIn
  <2>5. \A i \in 1..Len(entries) :
           /\ IsBulk(EntryReply(entries[i]).bulk[2])
           /\ Text(EntryReply(entries[i]).bulk[1]) = entries[i].id
           /\ EntryReply(entries[i]).bulk[2].bulk = entries[i].fields
    <3> TAKE i \in 1..Len(entries)
    <3>1. EntryReply(entries[i]).bulk = <<Data(entries[i].id), Bulk(entries[i].fields)>>
      BY EntryShape
    <3> QED BY <3>1, Kinds DEF Text
  <2>6. Parse(ReadGroupReply(origin, entries)) = EntriesOf(only)
    <3> HIDE DEF only
    <3> QED BY <2>1, <2>2 DEF Parse
  <2>7. {x \in PairsIn(Bulk(items)) : IsBulk(x.bulk[2])}
           = {EntryReply(entries[i]) : i \in 1..Len(entries)}
    <3> HIDE DEF items
    <3> QED BY <2>4, <2>5
  <2>8. Text(only.bulk[1]) = origin
    BY <2>3, Kinds DEF Text
  <2> DEFINE E(m) == [stream |-> origin, id |-> Text(m.bulk[1]),
                      fields |-> FieldMap(m.bulk[2].bulk)]
             F(i) == [stream |-> origin, id |-> entries[i].id,
                      fields |-> FieldMap(entries[i].fields)]
  <2>9. EntriesOf(only) = {E(m) : m \in {EntryReply(entries[i]) : i \in 1..Len(entries)}}
    BY <2>3, <2>7, <2>8 DEF EntriesOf
  <2>10. \A i \in 1..Len(entries) : E(EntryReply(entries[i])) = F(i)
    BY <2>5
  <2>11. Carried(origin, entries) = {F(i) : i \in 1..Len(entries)}
    BY DEF Carried
  <2> HIDE DEF E, F
  <2>12. {E(m) : m \in {EntryReply(entries[i]) : i \in 1..Len(entries)}}
            = {F(i) : i \in 1..Len(entries)}
    BY <2>10
  <2> QED BY <2>6, <2>9, <2>11, <2>12
<1> QED BY <1>1, <1>2

\* So the ids it finds are those of the entries.
LEMMA NewEntriesFound ==
    ASSUME NEW Ids, NEW Texts, NEW origin, NEW entries \in Seq(EntryOf(Ids, Texts))
    PROVE  \A id : id \in Delivered(ReadGroupReply(origin, entries))
                      <=> \E i \in 1..Len(entries) : id = entries[i].id
<1> DEFINE F(i) == [stream |-> origin, id |-> entries[i].id,
                    fields |-> FieldMap(entries[i].fields)]
<1>1. Delivered(ReadGroupReply(origin, entries)) = {e.id : e \in Carried(origin, entries)}
  BY NewEntriesCarried DEF Delivered
<1>2. Carried(origin, entries) = {F(i) : i \in 1..Len(entries)}
  BY DEF Carried
<1>3. \A i \in 1..Len(entries) : F(i).id = entries[i].id
  OBVIOUS
<1> HIDE DEF F
<1> QED BY <1>1, <1>2, <1>3

\* The one field the relay writes is what the worker then looks up: the payload
\* comes out under the name it went in with.
THEOREM PayloadFound ==
    ASSUME NEW name, NEW payload
    PROVE  FieldMap(<<Data(name), Data(payload)>>) = [n \in {name} |-> payload]
<1> DEFINE fields == <<Data(name), Data(payload)>>
<1>1. NamesIn(fields) = {1}
  BY Kinds DEF NamesIn
<1>2. fields[1].data = name /\ fields[2].data = payload
  BY Kinds
<1>3. {fields[i].data : i \in NamesIn(fields)} = {name}
  BY <1>1, <1>2
<1>4. \A n \in {name} : \A i : (/\ i \in NamesIn(fields)
                                /\ fields[i].data = n
                                /\ \A j \in NamesIn(fields) : fields[j].data = n => j <= i) <=> i = 1
  BY <1>1, <1>2
<1> DEFINE Last(n) == CHOOSE i \in NamesIn(fields) :
                         /\ fields[i].data = n
                         /\ \A j \in NamesIn(fields) : fields[j].data = n => j <= i
<1>5. \A n \in {name} : Last(n) = 1
  <2> HIDE DEF fields
  <2> QED BY <1>1, <1>4
<1>6. FieldMap(fields) = [n \in {fields[i].data : i \in NamesIn(fields)} |-> fields[Last(n) + 1].data]
  <2> HIDE DEF fields
  <2> QED BY DEF FieldMap
<1>7. \A n \in {name} : fields[Last(n) + 1].data = payload
  <2> HIDE DEF fields, Last
  <2> QED BY <1>2, <1>5
<1>8. FieldMap(fields) = [n \in {name} |-> payload]
  <2> HIDE DEF fields, Last
  <2> QED BY <1>3, <1>6, <1>7
<1> QED BY <1>8

----------------------------------------------------------------------------
(* The worker's place in its reply *)

Working(k) == pc[k] \notin {"claim", "fetch"}

\* A worker that is not between replies has an entry in hand, which it was
\* handed and which is for some withdrawal.
LEMMA CurrentEntry ==
    ASSUME TypeOK, NEW k \in Workers, Working(k)
    PROVE  /\ Current(k) \in batch[k].left
           /\ Current(k) \in 1..read
           /\ Current(k) \in Entries
           /\ Payout(k) \in Withdrawals
<1>1. batch[k].left \in SUBSET (1..read) /\ batch[k].left # {}
  BY DEF TypeOK, StreamOK, WorkersOK, Working
<1>2. batch[k].left \in SUBSET Nat
  BY <1>1 DEF TypeOK, StreamOK, WorkersOK
<1>3. \E i \in batch[k].left : \A j \in batch[k].left : i <= j
  BY <1>1, <1>2, LeastNatural
<1>4. Current(k) \in batch[k].left
  BY <1>3 DEF Current
<1>5. Current(k) \in 1..read /\ Current(k) \in 1..Len(stream)
  BY <1>1, <1>4 DEF TypeOK, StreamOK, WorkersOK
<1>6. stream[Current(k)] \in Withdrawals
  BY <1>5 DEF TypeOK, StreamOK, WorkersOK
<1> QED BY <1>4, <1>5, <1>6 DEF Payout, Entries

\* What the stream stores is an entry as the parser's lemmas take them.
LEMMA StoredEntries ==
    ASSUME NEW n \in Nat, NEW ids
    PROVE  [m \in 1..n |-> StreamEntry(ids[m])]
              \in Seq(EntryOf({ids[m] : m \in 1..n}, {"data"} \cup {stream[ids[m]] : m \in 1..n}))
<1> DEFINE Ids == {ids[m] : m \in 1..n}
           Texts == {"data"} \cup {stream[ids[m]] : m \in 1..n}
           D == {Data(t) : t \in Texts}
           S == EntryOf(Ids, Texts)
<1>1. ASSUME NEW m \in 1..n PROVE StreamEntry(ids[m]) \in S
  <2>1. Data("data") \in D /\ Data(stream[ids[m]]) \in D
    OBVIOUS
  <2>2. <<Data("data"), Data(stream[ids[m]])>> \in Seq(D)
    <3> HIDE DEF D
    <3> QED BY <2>1
  <2>3. ids[m] \in Ids
    OBVIOUS
  <2> HIDE DEF Ids
  <2> QED BY <2>2, <2>3 DEF StreamEntry, EntryOf
<1> HIDE DEF S
<1>2. [m \in 1..n |-> StreamEntry(ids[m])] \in Seq(S)
  BY <1>1
<1> QED BY <1>2 DEF S

\* XAUTOCLAIM gives the worker nothing to do.
LEMMA NothingReclaimed ==
    ASSUME TypeOK, NEW idle \in SUBSET pending
    PROVE  LET claimed == [n \in 1..Cardinality(idle) |-> StreamEntry(InOrder(idle)[n])]
           IN  Delivered(AutoclaimReply("0-0", claimed, <<>>)) = {}
<1> DEFINE N == Cardinality(idle)
           claimed == [n \in 1..N |-> StreamEntry(InOrder(idle)[n])]
           Ids == {InOrder(idle)[n] : n \in 1..N}
           Texts == {"data"} \cup {stream[InOrder(idle)[n]] : n \in 1..N}
<1>1. N \in Nat
  <2>1. idle \subseteq 1..read /\ read \in Nat
    BY DEF TypeOK, StreamOK, WorkersOK
  <2>2. IsFiniteSet(1..read)
    BY <2>1, FS_Interval
  <2> QED BY <2>1, <2>2, FS_Subset, FS_CardinalityType
<1>2. claimed \in Seq(EntryOf(Ids, Texts))
  <2> HIDE DEF N
  <2> QED BY <1>1, StoredEntries DEF claimed, Ids, Texts
<1>3. <<>> \in Seq(Ids)
  OBVIOUS
<1>4. Delivered(AutoclaimReply("0-0", claimed, <<>>)) = {}
  <2> HIDE DEF claimed, Ids, Texts
  <2> QED BY <1>2, <1>3, ReclaimYieldsNothing
<1> QED BY <1>4

\* XREADGROUP gives it exactly the entries it now has pending.
LEMMA NewRead ==
    ASSUME NEW n \in Nat, NEW from \in Nat
    PROVE  LET new == [i \in 1..n |-> StreamEntry(from + i)]
           IN  Delivered(ReadGroupReply("withdrawal_requests", new)) = (from + 1)..(from + n)
<1> DEFINE ids == [i \in 1..n |-> from + i]
           new == [i \in 1..n |-> StreamEntry(from + i)]
           Ids == {ids[i] : i \in 1..n}
           Texts == {"data"} \cup {stream[ids[i]] : i \in 1..n}
<1>1. new \in Seq(EntryOf(Ids, Texts))
  <2>1. new = [i \in 1..n |-> StreamEntry(ids[i])]
    OBVIOUS
  <2>2. [i \in 1..n |-> StreamEntry(ids[i])] \in Seq(EntryOf(Ids, Texts))
    <3> HIDE DEF ids
    <3> QED BY StoredEntries
  <2> QED BY <2>1, <2>2
<1>2. \A id : id \in Delivered(ReadGroupReply("withdrawal_requests", new))
               <=> \E i \in 1..Len(new) : id = new[i].id
  <2> HIDE DEF new, ids, Ids, Texts
  <2> QED BY <1>1, NewEntriesFound
<1>3. Len(new) = n /\ \A i \in 1..n : new[i].id = from + i
  BY DEF StreamEntry
<1>4. \A id : id \in (from + 1)..(from + n) <=> \E i \in 1..n : id = from + i
  <2>1. ASSUME NEW j \in (from + 1)..(from + n) PROVE j - from \in 1..n /\ j = from + (j - from)
    OBVIOUS
  <2> QED BY <2>1
<1>5. \A id : id \in Delivered(ReadGroupReply("withdrawal_requests", new))
                 <=> id \in (from + 1)..(from + n)
  <2> HIDE DEF new
  <2> QED BY <1>2, <1>3, <1>4, SMTT(20)
<1> QED BY <1>5

----------------------------------------------------------------------------
(* Types *)

LEMMA GotoPlaces ==
    ASSUME TypeOK, NEW k \in Workers, Working(k), NEW step \in Steps \ {"claim", "fetch"},
           Goto(k, step), UNCHANGED <<batch, read>>
    PROVE  WorkersOK'
BY DEF TypeOK, WorkersOK, Goto, Working

LEMMA TakePlaces ==
    ASSUME TypeOK, NEW k \in Workers, read' \in Nat, read <= read',
           NEW entries \in SUBSET (1..read'), NEW then \in {"claim", "fetch"},
           Take(k, entries, then)
    PROVE  WorkersOK'
<1>1. [left |-> entries, then |-> then] \in [left : SUBSET (1..read'), then : {"claim", "fetch"}]
  OBVIOUS
<1>2. \A j \in Workers : batch[j] \in [left : SUBSET (1..read'), then : {"claim", "fetch"}]
  BY DEF TypeOK, StreamOK, WorkersOK
<1>3. /\ batch' = [batch EXCEPT ![k] = [left |-> entries, then |-> then]]
      /\ pc' = [pc EXCEPT ![k] = IF entries = {} THEN then ELSE "find"]
  BY DEF Take, Goto
<1>4. batch' \in [Workers -> [left : SUBSET (1..read'), then : {"claim", "fetch"}]]
  BY <1>1, <1>2, <1>3 DEF TypeOK, StreamOK, WorkersOK
<1>5. pc' \in [Workers -> Steps]
  BY <1>3 DEF TypeOK, StreamOK, WorkersOK, Steps
<1>6. \A j \in Workers : pc'[j] \in {"claim", "fetch"} <=> batch'[j].left = {}
  BY <1>3 DEF TypeOK, StreamOK, WorkersOK
<1> QED BY <1>4, <1>5, <1>6 DEF WorkersOK

LEMMA NextEntryPlaces ==
    ASSUME TypeOK, NEW k \in Workers, Working(k), NextEntry(k), UNCHANGED read
    PROVE  WorkersOK'
<1> DEFINE left == batch[k].left \ {Current(k)}
<1>1. /\ batch' = [batch EXCEPT ![k] = [@ EXCEPT !.left = left]]
      /\ pc' = [pc EXCEPT ![k] = IF left = {} THEN batch[k].then ELSE "find"]
  BY DEF NextEntry, Goto
<1>2. batch[k] \in [left : SUBSET (1..read), then : {"claim", "fetch"}]
  BY DEF TypeOK, StreamOK, WorkersOK
<1>3. left \in SUBSET (1..read) /\ batch[k].then \in {"claim", "fetch"}
  BY <1>2
<1> HIDE DEF left
<1>4. /\ [batch[k] EXCEPT !.left = left] \in [left : SUBSET (1..read), then : {"claim", "fetch"}]
      /\ [batch[k] EXCEPT !.left = left].left = left
  BY <1>2, <1>3
<1>5. batch' \in [Workers -> [left : SUBSET (1..read'), then : {"claim", "fetch"}]]
  BY <1>1, <1>4 DEF TypeOK, StreamOK, WorkersOK
<1>6. pc' \in [Workers -> Steps]
  BY <1>1, <1>3 DEF TypeOK, StreamOK, WorkersOK, Steps
<1>7. \A j \in Workers : pc'[j] \in {"claim", "fetch"} <=> batch'[j].left = {}
  BY <1>1, <1>3, <1>4 DEF TypeOK, StreamOK, WorkersOK
<1> QED BY <1>5, <1>6, <1>7 DEF WorkersOK

LEMMA TypeInit == Init => TypeOK
<1> SUFFICES ASSUME Init PROVE TypeOK
  OBVIOUS
<1>1. TablesOK
  BY DataAssumption DEF Init, TablesOK, Status
<1>2. StreamOK /\ SignerOK /\ faults \in 0..MaxFaults
  BY BoundsAssumption DEF Init, StreamOK, SignerOK
<1>3. WorkersOK
  BY DEF Init, WorkersOK, Steps, NoReply
<1> QED BY <1>1, <1>2, <1>3 DEF TypeOK

\* A part whose variables a step leaves alone keeps its types.
LEMMA Untouched ==
    ASSUME TypeOK
    PROVE  /\ UNCHANGED db => TablesOK'
           /\ UNCHANGED redis => StreamOK'
           /\ UNCHANGED <<consumer, read>> => WorkersOK'
           /\ UNCHANGED signer => SignerOK'
<1>1. UNCHANGED db => TablesOK'
  BY DEF TypeOK, TablesOK, db
<1>2. UNCHANGED redis => StreamOK'
  BY DEF TypeOK, StreamOK, redis
<1>3. UNCHANGED <<consumer, read>> => WorkersOK'
  BY DEF TypeOK, WorkersOK, consumer
<1>4. UNCHANGED signer => SignerOK'
  BY DEF TypeOK, SignerOK, signer
<1> QED BY <1>1, <1>2, <1>3, <1>4

\* Finalizing keeps the types of the tables.
LEMMA FinalizeTypes ==
    ASSUME TypeOK, NEW w \in Withdrawals, Spend(w) \/ Refund(w)
    PROVE  TablesOK'
<1>1. AccountOf[w] \in Accounts /\ Amount[w] \in Int
  BY DataAssumption
<1>2. "completed" \in Status /\ "failed" \in Status
  BY DEF Status, Terminal
<1>3. CASE UNCHANGED db
  BY <1>3, Untouched
<1>4. CASE ~UNCHANGED db
  <2>1. locked' = [locked EXCEPT ![AccountOf[w]] = @ - Amount[w]]
    BY <1>4 DEF Spend, Refund
  <2>2. locked' \in [Accounts -> Int]
    BY <2>1, <1>1 DEF TypeOK, TablesOK
  <2>3. available' = available \/ available' = [available EXCEPT ![AccountOf[w]] = @ + Amount[w]]
    BY <1>4 DEF Spend, Refund
  <2>4. available' \in [Accounts -> Int]
    BY <2>3, <1>1 DEF TypeOK, TablesOK
  <2>5. status' = [status EXCEPT ![w] = "completed"] \/ status' = [status EXCEPT ![w] = "failed"]
    BY <1>4 DEF Spend, Refund
  <2>6. status' \in [Withdrawals -> Status]
    BY <2>5, <1>2 DEF TypeOK, TablesOK
  <2> QED BY <2>2, <2>4, <2>6 DEF TablesOK
<1> QED BY <1>3, <1>4

\* A request that is performed, abandoned or late keeps the signer's types.
LEMMA PerformTypes ==
    ASSUME TypeOK, NEW w \in Withdrawals, Perform(w)
    PROVE  SignerOK'
BY DEF TypeOK, SignerOK, Perform

LEMMA AbandonTypes ==
    ASSUME TypeOK, NEW k \in Workers, Abandon(k)
    PROVE  SignerOK'
<1>1. CASE UNCHANGED signer
  BY <1>1, Untouched
<1>2. CASE pc[k] = "await"
  <2>1. Payout(k) \in Withdrawals
    BY <1>2, CurrentEntry DEF Working
  <2>2. CASE Perform(Payout(k))
    BY <2>1, <2>2, PerformTypes
  <2>3. CASE /\ orphans' = [orphans EXCEPT ![Payout(k)] = @ + 1]
             /\ UNCHANGED <<signed, sends>>
    <3> DEFINE w == Payout(k)
    <3>1. orphans' = [orphans EXCEPT ![w] = orphans[w] + 1] /\ w \in Withdrawals
      BY <2>1, <2>3
    <3> HIDE DEF w
    <3> QED BY <3>1, <2>3 DEF TypeOK, SignerOK
  <2> QED BY <1>1, <2>2, <2>3 DEF Abandon
<1> QED BY <1>1, <1>2 DEF Abandon

LEMMA FaultTypes == TypeOK /\ Fault => faults' \in 0..MaxFaults
BY BoundsAssumption DEF TypeOK, Fault

\* One more entry on the stream keeps its types, and every entry it had.
LEMMA AppendTypes ==
    ASSUME TypeOK, NEW w \in Withdrawals, stream' = Append(stream, w),
           read' = read, pending' \subseteq pending
    PROVE  /\ StreamOK'
           /\ Len(stream') = Len(stream) + 1
           /\ \A i \in Entries : stream'[i] = stream[i]
           /\ stream'[Len(stream) + 1] = w
<1>1. stream \in Seq(Withdrawals) /\ Len(stream) \in Nat
  BY DEF TypeOK, StreamOK
<1>2. /\ stream' \in Seq(Withdrawals) /\ Len(stream') = Len(stream) + 1
      /\ \A i \in Entries : stream'[i] = stream[i]
      /\ stream'[Len(stream) + 1] = w
  BY <1>1 DEF Entries
<1>3. read' \in 0..Len(stream') /\ pending' \in SUBSET (1..read')
  BY <1>2 DEF TypeOK, StreamOK
<1> QED BY <1>2, <1>3 DEF StreamOK

\* What the other parts of the system do.
LEMMA TypeEnvironment ==
    ASSUME TypeOK,
           \/ \E w \in Withdrawals : CreateWithdrawal(w) \/ Publish(w) \/ OrphanArrives(w)
           \/ \E i \in Entries : Redeliver(i)
    PROVE  TypeOK'
<1>1. ASSUME NEW w \in Withdrawals, CreateWithdrawal(w) PROVE TypeOK'
  <2> DEFINE a == AccountOf[w]
  <2>1. a \in Accounts /\ Amount[w] \in Int /\ "pending" \in Status
    BY DataAssumption DEF Status, Open
  <2>2. /\ status' = [status EXCEPT ![w] = "pending"]
        /\ available' = [available EXCEPT ![a] = available[a] - Amount[w]]
        /\ locked' = [locked EXCEPT ![a] = locked[a] + Amount[w]]
        /\ UNCHANGED <<redis, consumer, signer, faults, read>>
    BY <1>1 DEF CreateWithdrawal, redis
  <2> HIDE DEF a
  <2>3. TablesOK'
    BY <2>1, <2>2 DEF TypeOK, TablesOK
  <2> QED BY <2>2, <2>3, Untouched DEF TypeOK
<1>2. ASSUME NEW w \in Withdrawals, Publish(w) PROVE TypeOK'
  <2>1. /\ stream' = Append(stream, w)
        /\ UNCHANGED <<db, read, pending, consumer, signer, faults>>
    BY <1>2 DEF Publish
  <2> QED BY <2>1, AppendTypes, Untouched DEF TypeOK
<1>3. ASSUME NEW w \in Withdrawals, OrphanArrives(w) PROVE TypeOK'
  <2>1. /\ orphans' = [orphans EXCEPT ![w] = @ - 1] /\ orphans[w] > 0
        /\ signed' = signed \cup {w} \/ signed' = signed
        /\ sends' = [sends EXCEPT ![w] = @ + 1] \/ sends' = sends
        /\ UNCHANGED <<db, redis, consumer, faults, read>>
    BY <1>3 DEF OrphanArrives, redis
  <2>2. orphans' \in [Withdrawals -> Nat]
    BY <2>1 DEF TypeOK, SignerOK
  <2>3. SignerOK'
    BY <2>1, <2>2 DEF TypeOK, SignerOK
  <2> QED BY <2>1, <2>3, Untouched DEF TypeOK
<1>4. ASSUME NEW i \in Entries, Redeliver(i) PROVE TypeOK'
  <2>1. /\ stream' = Append(stream, stream[i])
        /\ pending' \subseteq pending
        /\ UNCHANGED <<db, read, consumer, signer, faults>>
    BY <1>4 DEF Redeliver
  <2>2. stream[i] \in Withdrawals
    BY DEF Entries, TypeOK, StreamOK
  <2> QED BY <2>1, <2>2, AppendTypes, Untouched DEF TypeOK
<1> QED BY <1>1, <1>2, <1>3, <1>4

\* What a worker does between faults.
LEMMA TypeWork ==
    ASSUME TypeOK, NEW k \in Workers, Work(k)
    PROVE  TypeOK'
<1>1. CASE Reclaim(k)
  <2>1. PICK idle \in SUBSET pending :
           LET claimed == [n \in 1..Cardinality(idle) |-> StreamEntry(InOrder(idle)[n])]
           IN  Take(k, Delivered(AutoclaimReply("0-0", claimed, <<>>)), "fetch")
    BY <1>1 DEF Reclaim
  <2>2. Take(k, {}, "fetch") /\ UNCHANGED <<db, redis, signer, faults, read>>
    BY <1>1, <2>1, NothingReclaimed DEF Reclaim, redis
  <2>3. read' \in Nat /\ read <= read'
    BY <2>2 DEF TypeOK, StreamOK
  <2> QED BY <2>2, <2>3, TakePlaces, Untouched DEF TypeOK
<1>2. CASE Fetch(k)
  <2> DEFINE n == IF Len(stream) - read < Count THEN Len(stream) - read ELSE Count
             got == (read + 1)..(read + n)
  <2>1. n \in Nat /\ read \in Nat /\ read + n \in 0..Len(stream)
    BY CountAssumption DEF TypeOK, StreamOK
  <2>2. /\ read' = read + n /\ pending' = pending \cup got
        /\ UNCHANGED <<db, stream, signer, faults>>
    BY <1>2 DEF Fetch
  <2>3. Take(k, got, "claim")
    <3> HIDE DEF n
    <3> QED BY <1>2, <2>1, NewRead DEF Fetch, n
  <2> HIDE DEF n
  <2>4. StreamOK'
    BY <2>1, <2>2 DEF TypeOK, StreamOK
  <2>5. WorkersOK'
    <3>1. read' \in Nat /\ read <= read' /\ got \in SUBSET (1..read')
      BY <2>1, <2>2
    <3> QED BY <2>3, <3>1, TakePlaces
  <2> QED BY <2>2, <2>4, <2>5, Untouched DEF TypeOK
<1>3. CASE Find(k)
  <2>1. /\ UNCHANGED <<db, redis, batch, signer, faults, read>> /\ Working(k)
        /\ \E step \in {"ack", "lookup", "advance"} : Goto(k, step)
    BY <1>3 DEF Find, redis, Working
  <2>2. WorkersOK'
    BY <2>1, GotoPlaces DEF Steps
  <2> QED BY <2>1, <2>2, Untouched DEF TypeOK
<1>4. CASE Lookup(k) \/ Advance(k) \/ IssueSend(k) \/ SignerAccepts(k)
           \/ SignerAnswersGarbled(k) \/ SignerRejects(k)
  <2>1. Working(k) /\ Payout(k) \in Withdrawals
    BY <1>4, CurrentEntry DEF Working, Lookup, Advance, IssueSend, SignerAccepts,
                              SignerAnswersGarbled, SignerRejects
  <2>2. \E step \in {"signed", "send", "await", "rejected"} : Goto(k, step)
    BY <1>4 DEF Lookup, Advance, IssueSend, SignerAccepts, SignerAnswersGarbled, SignerRejects
  <2>3. UNCHANGED <<redis, batch, faults, read>>
    BY <1>4 DEF Lookup, Advance, IssueSend, SignerAccepts, SignerAnswersGarbled, SignerRejects,
           redis
  <2>4. WorkersOK'
    BY <2>1, <2>2, <2>3, GotoPlaces DEF Steps
  <2>5. TablesOK'
    <3>1. CASE Advance(k)
      BY <2>1, <3>1 DEF Advance, TypeOK, TablesOK, Status, Open
    <3>2. CASE ~Advance(k)
      BY <1>4, <3>2, Untouched DEF Lookup, IssueSend, SignerAccepts, SignerAnswersGarbled,
             SignerRejects
    <3> QED BY <3>1, <3>2
  <2>6. SignerOK'
    <3>1. CASE UNCHANGED signer
      BY <3>1, Untouched
    <3>2. CASE Perform(Payout(k))
      BY <2>1, <3>2, PerformTypes
    <3> QED BY <1>4, <3>1, <3>2 DEF Lookup, Advance, IssueSend, SignerAccepts,
                                    SignerAnswersGarbled, SignerRejects
  <2> QED BY <2>3, <2>4, <2>5, <2>6, Untouched DEF TypeOK
<1>5. CASE FinalizeSuccess(k) \/ FinalizeFailed(k)
  <2>1. Working(k) /\ Payout(k) \in Withdrawals
    BY <1>5, CurrentEntry DEF Working, FinalizeSuccess, FinalizeFailed
  <2>2. /\ Spend(Payout(k)) \/ Refund(Payout(k))
        /\ Goto(k, "ack") /\ UNCHANGED <<redis, batch, signer, faults, read>>
    BY <1>5 DEF FinalizeSuccess, FinalizeFailed, redis
  <2>3. WorkersOK'
    BY <2>1, <2>2, GotoPlaces DEF Steps
  <2> QED BY <2>1, <2>2, <2>3, FinalizeTypes, Untouched DEF TypeOK
<1>6. CASE AdvanceRaced(k) \/ Xack(k)
  <2>1. /\ Working(k) /\ NextEntry(k) /\ pending' \subseteq pending
        /\ UNCHANGED <<db, stream, read, signer, faults>>
    BY <1>6 DEF Working, AdvanceRaced, Xack, redis
  <2>2. StreamOK'
    BY <2>1 DEF TypeOK, StreamOK
  <2> QED BY <2>1, <2>2, NextEntryPlaces, Untouched DEF TypeOK
<1> QED BY <1>1, <1>2, <1>3, <1>4, <1>5, <1>6 DEF Work

\* What a fault does.
LEMMA TypeBreak ==
    ASSUME TypeOK, NEW k \in Workers, Break(k)
    PROVE  TypeOK'
<1>1. faults' \in 0..MaxFaults
  BY FaultTypes DEF Break, TransportError, LeaveOnError, CommitUnheard, Crash
<1>2. CASE TransportError(k)
  <2>1. Working(k) /\ NextEntry(k) /\ Abandon(k) /\ UNCHANGED <<db, redis, read>>
    BY <1>2 DEF TransportError, Working, redis
  <2> QED BY <1>1, <2>1, AbandonTypes, NextEntryPlaces, Untouched DEF TypeOK
<1>3. CASE LeaveOnError(k)
  <2>1. Working(k) /\ NextEntry(k) /\ UNCHANGED <<db, redis, signer, read>>
    BY <1>3 DEF LeaveOnError, Working, redis
  <2> QED BY <1>1, <2>1, NextEntryPlaces, Untouched DEF TypeOK
<1>4. CASE CommitUnheard(k)
  <2>1. Working(k) /\ NextEntry(k) /\ UNCHANGED <<redis, signer, read>>
    BY <1>4 DEF CommitUnheard, Working, redis
  <2>2. Payout(k) \in Withdrawals
    BY <2>1, CurrentEntry
  <2>3. TablesOK'
    <3>1. CASE Spend(Payout(k)) \/ Refund(Payout(k))
      BY <2>2, <3>1, FinalizeTypes
    <3>2. CASE status' = [status EXCEPT ![Payout(k)] = "processing"] /\ UNCHANGED <<available, locked>>
      BY <2>2, <3>2 DEF TypeOK, TablesOK, Status, Open
    <3> QED BY <1>4, <3>1, <3>2 DEF CommitUnheard
  <2> QED BY <1>1, <2>1, <2>3, NextEntryPlaces, Untouched DEF TypeOK
<1>5. CASE Crash(k)
  <2>1. /\ pc' = [pc EXCEPT ![k] = "claim"] /\ batch' = [batch EXCEPT ![k] = NoReply]
        /\ Abandon(k) /\ UNCHANGED <<db, redis, read>>
    BY <1>5 DEF Crash, Goto, redis
  <2>2. NoReply \in [left : SUBSET (1..read'), then : {"claim", "fetch"}] /\ NoReply.left = {}
    BY DEF NoReply
  <2>3. WorkersOK'
    BY <2>1, <2>2 DEF TypeOK, WorkersOK, Steps
  <2> QED BY <1>1, <2>1, <2>3, AbandonTypes, Untouched DEF TypeOK
<1> QED BY <1>2, <1>3, <1>4, <1>5 DEF Break

\* An entry of a withdrawal that exists is added.
Appears(w) ==
    /\ status[w] # "none"
    /\ stream' = Append(stream, w)
    /\ UNCHANGED <<db, read, pending, consumer, signer>>

\* A step as far as the payout path's own variables go: an entry may also be
\* added by a relay that is told of an error, and whatever is not of the payout
\* path may change.
Step ==
    \/ Next
    \/ \E w \in Withdrawals : Appears(w)
    \/ UNCHANGED <<db, redis, consumer, signer>>

LEMMA StepOfNext == [Next]_vars => Step /\ (TypeOK => faults' \in 0..MaxFaults)
<1> SUFFICES ASSUME [Next]_vars PROVE Step /\ (TypeOK => faults' \in 0..MaxFaults)
  OBVIOUS
<1>1. Step
  BY DEF Step, vars
<1>2. ASSUME TypeOK, NEW k \in Workers, Break(k) PROVE faults' \in 0..MaxFaults
  BY <1>2, FaultTypes DEF Break, TransportError, LeaveOnError, CommitUnheard, Crash
<1>3. \/ UNCHANGED faults
      \/ \E k \in Workers : Break(k)
  BY DEF Next, vars, Work, CreateWithdrawal, Publish, OrphanArrives, Redeliver, Reclaim, Fetch,
         Find, Lookup, Advance, AdvanceRaced, IssueSend, SignerAccepts, SignerAnswersGarbled,
         SignerRejects, FinalizeSuccess, FinalizeFailed, Xack
<1> QED BY <1>1, <1>2, <1>3 DEF TypeOK

LEMMA TypeStep == TypeOK /\ Step /\ faults' \in 0..MaxFaults => TypeOK'
<1> SUFFICES ASSUME TypeOK, Step, faults' \in 0..MaxFaults PROVE TypeOK'
  OBVIOUS
<1>1. CASE Next
  BY <1>1, TypeEnvironment, TypeWork, TypeBreak DEF Next
<1>2. CASE UNCHANGED <<db, redis, consumer, signer>>
  <2>1. UNCHANGED <<db, redis, consumer, signer, read>>
    BY <1>2 DEF redis
  <2> QED BY <2>1, Untouched DEF TypeOK
<1>3. ASSUME NEW w \in Withdrawals, Appears(w) PROVE TypeOK'
  <2>1. /\ stream' = Append(stream, w)
        /\ UNCHANGED <<db, read, pending, consumer, signer>>
    BY <1>3 DEF Appears
  <2> QED BY <2>1, AppendTypes, Untouched DEF TypeOK
<1> QED BY <1>1, <1>2, <1>3 DEF Step

\* Every variable of the payout path keeps its type: no entry is read that was
\* not added, no worker holds an entry it was not handed.
THEOREM TypeCorrect == Spec => []TypeOK
BY TypeInit, TypeStep, StepOfNext, PTL DEF Spec

----------------------------------------------------------------------------
(* Safety *)

Advanced == {"processing"} \cup Terminal

\* Only withdrawals that exist are on the stream.
Published == \A i \in Entries : status[stream[i]] # "none"

\* Where a worker is tells what its entry's status has reached, for good.
StepsHold ==
    \A k \in Workers :
       /\ pc[k] \in {"lookup", "send", "await", "signed", "rejected"}
             => status[Payout(k)] \in Advanced
       /\ pc[k] = "ack" => status[Payout(k)] \in Terminal
       /\ pc[k] = "signed" => Payout(k) \in signed

\* What the signer has, or will get, has left "pending".
SignerHolds ==
    \A w \in Withdrawals : w \in signed \/ orphans[w] > 0 => status[w] \in Advanced

\* The table has finitely many rows, though there is no end of ids.
FewRows == IsFiniteSet({w \in Withdrawals : status[w] # "none"})

\* The inductive invariant: what holds whatever becomes of the pending list ...
Core == /\ TypeOK
        /\ Published
        /\ StepsHold
        /\ SignerHolds
        /\ CompletedWasSent
        /\ FewRows
        /\ LockedBacksOpen
        /\ OverdraftIsClawback
        /\ Conservation

\* ... and what is promised of it.
IInv == Core /\ NotForgotten

\* The stream only grows, and what was handed out stays so.
LEMMA StreamGrows ==
    ASSUME TypeOK, Step
    PROVE  /\ \A i \in Entries : i \in Entries' /\ stream'[i] = stream[i]
           /\ \/ stream' = stream
              \/ /\ Entries' = Entries \cup {Len(stream) + 1}
                 /\ read' = read
                 /\ \/ /\ \E w \in Withdrawals : Appears(w) /\ stream'[Len(stream) + 1] = w
                       /\ pending' = pending
                    \/ \E i \in Entries : /\ stream'[Len(stream) + 1] = stream[i]
                                          /\ pending' = pending \ {i}
                                          /\ UNCHANGED status
<1>1. ASSUME NEW w \in Withdrawals, stream' = Append(stream, w), read' = read, pending' \subseteq pending
      PROVE  /\ \A i \in Entries : i \in Entries' /\ stream'[i] = stream[i]
             /\ Entries' = Entries \cup {Len(stream) + 1}
             /\ stream'[Len(stream) + 1] = w
  <2>1. /\ Len(stream') = Len(stream) + 1
        /\ \A i \in Entries : stream'[i] = stream[i]
        /\ stream'[Len(stream) + 1] = w
    BY <1>1, AppendTypes
  <2>2. Len(stream) \in Nat
    BY DEF TypeOK, StreamOK
  <2> QED BY <2>1, <2>2 DEF Entries
<1>2. ASSUME NEW w \in Withdrawals, Appears(w)
      PROVE  stream' = Append(stream, w) /\ read' = read /\ pending' = pending
  BY <1>2 DEF Appears
<1>3. ASSUME NEW i \in Entries, Redeliver(i)
      PROVE  /\ stream[i] \in Withdrawals /\ stream' = Append(stream, stream[i])
             /\ read' = read /\ pending' = pending \ {i} /\ UNCHANGED status
  BY <1>3 DEF Redeliver, Entries, TypeOK, StreamOK, db
<1>4. CASE stream' = stream
  BY <1>4 DEF Entries
<1>5. CASE \E w \in Withdrawals : Appears(w)
  BY <1>1, <1>2, <1>5
<1>6. CASE \E i \in Entries : Redeliver(i)
  BY <1>1, <1>3, <1>6
<1>7. \/ stream' = stream
      \/ \E w \in Withdrawals : Appears(w)
      \/ \E i \in Entries : Redeliver(i)
  BY DEF Step, Next, redis, Work, Break, CreateWithdrawal, Publish, Appears, OrphanArrives,
         Reclaim, Fetch, Find, Lookup, Advance, AdvanceRaced, IssueSend, SignerAccepts,
         SignerAnswersGarbled, SignerRejects, FinalizeSuccess, FinalizeFailed, Xack,
         TransportError, LeaveOnError, CommitUnheard, Crash
<1> QED BY <1>4, <1>5, <1>6, <1>7

\* A worker whose reply is as it was still has the same withdrawal in hand.
LEMMA SamePayout ==
    ASSUME TypeOK, Step, NEW k \in Workers, Working(k), batch'[k] = batch[k]
    PROVE  Payout(k)' = Payout(k)
<1>1. Current(k)' = Current(k)
  BY DEF Current
<1>2. stream'[Current(k)] = stream[Current(k)]
  BY CurrentEntry, StreamGrows
<1> QED BY <1>1, <1>2 DEF Payout

\* The one thing finalizing does to a status.
LEMMA FinalizeStatus ==
    ASSUME TypeOK, NEW w \in Withdrawals, Spend(w) \/ Refund(w)
    PROVE  /\ \A v \in Withdrawals :
                 \/ status'[v] = status[v]
                 \/ v = w /\ status[v] = "processing" /\ status'[v] \in Terminal
           /\ Refund(w) /\ status'[w] = "completed" => status[w] = "completed"
           /\ status[w] \in Advanced => status'[w] \in Terminal
<1>1. CASE status[w] = "processing"
  <2>1. status' = [status EXCEPT ![w] = "completed"] \/ status' = [status EXCEPT ![w] = "failed"]
    BY <1>1 DEF Spend, Refund
  <2>2. Refund(w) => status' = [status EXCEPT ![w] = "failed"]
    BY <1>1 DEF Refund
  <2> QED BY <1>1, <2>1, <2>2 DEF TypeOK, TablesOK, Terminal
<1>2. CASE status[w] # "processing"
  <2>1. status' = status
    BY <1>2 DEF Spend, Refund, db
  <2> QED BY <1>2, <2>1 DEF Advanced
<1> QED BY <1>1, <1>2

\* Every step moves a status along none, pending, processing, terminal; the
\* last only after the signer spoke, if it is to "completed".
LEMMA StatusStep ==
    ASSUME TypeOK, StepsHold, Step, NEW w \in Withdrawals
    PROVE  \/ status'[w] = status[w]
           \/ status[w] = "none" /\ status'[w] = "pending" /\ CreateWithdrawal(w)
           \/ status[w] = "pending" /\ status'[w] = "processing"
           \/ status[w] = "processing" /\ status'[w] = "failed"
           \/ status[w] = "processing" /\ status'[w] = "completed" /\ w \in signed
<1>1. ASSUME NEW v \in Withdrawals, CreateWithdrawal(v)
      PROVE  status[v] = "none" /\ status' = [status EXCEPT ![v] = "pending"]
  BY <1>1 DEF CreateWithdrawal
<1>2. ASSUME NEW k \in Workers, pc[k] = "advance", status[Payout(k)] = "pending",
             status' = [status EXCEPT ![Payout(k)] = "processing"]
      PROVE  \/ status'[w] = status[w]
             \/ status[w] = "pending" /\ status'[w] = "processing"
  <2>1. Payout(k) \in Withdrawals
    BY <1>2, CurrentEntry DEF Working
  <2> QED BY <1>2, <2>1 DEF TypeOK, TablesOK
<1>3. ASSUME NEW k \in Workers, \/ pc[k] = "signed" /\ Spend(Payout(k))
                                \/ pc[k] = "rejected" /\ Refund(Payout(k))
      PROVE  \/ status'[w] = status[w]
             \/ status[w] = "processing" /\ status'[w] = "failed"
             \/ status[w] = "processing" /\ status'[w] = "completed" /\ w \in signed
  <2>1. Payout(k) \in Withdrawals
    BY <1>3, CurrentEntry DEF Working
  <2>2. \/ status'[w] = status[w]
        \/ w = Payout(k) /\ status[w] = "processing" /\ status'[w] \in Terminal
    BY <1>3, <2>1, FinalizeStatus
  <2>3. CASE pc[k] = "signed"
    BY <2>2, <2>3 DEF StepsHold, Terminal
  <2>4. CASE pc[k] = "rejected"
    <3>1. Refund(Payout(k))
      BY <1>3, <2>4
    <3>2. status'[Payout(k)] = "completed" => status[Payout(k)] = "completed"
      BY <2>1, <3>1, FinalizeStatus
    <3> QED BY <2>2, <3>2 DEF Terminal
  <2> QED BY <1>3, <2>3, <2>4
<1>4. \/ status' = status
      \/ \E v \in Withdrawals : CreateWithdrawal(v)
      \/ \E k \in Workers : /\ pc[k] = "advance" /\ status[Payout(k)] = "pending"
                            /\ status' = [status EXCEPT ![Payout(k)] = "processing"]
      \/ \E k \in Workers : \/ pc[k] = "signed" /\ Spend(Payout(k))
                            \/ pc[k] = "rejected" /\ Refund(Payout(k))
  BY DEF Step, Next, db, Work, Break, Publish, Appears, OrphanArrives, Redeliver, Reclaim, Fetch,
         Find, Lookup, Advance, AdvanceRaced, IssueSend, SignerAccepts, SignerAnswersGarbled,
         SignerRejects, FinalizeSuccess, FinalizeFailed, Xack, TransportError, LeaveOnError,
         CommitUnheard, Crash
<1>5. CASE \E v \in Withdrawals : CreateWithdrawal(v)
  BY <1>1, <1>5 DEF TypeOK, TablesOK
<1> QED BY <1>2, <1>3, <1>4, <1>5

\* No worker creates a withdrawal, or adds to the stream.
LEMMA WorkersCreateNone ==
    ASSUME TypeOK, NEW k \in Workers, Work(k) \/ Break(k)
    PROVE  /\ \A w \in Withdrawals : status'[w] # "none" <=> status[w] # "none"
           /\ stream' = stream
           /\ faults' \in 0..MaxFaults
<1>1. status \in [Withdrawals -> Status]
  BY DEF TypeOK, TablesOK
<1>2. ASSUME Working(k)
      PROVE  Payout(k) \in Withdrawals
  BY <1>2, CurrentEntry
<1>3. ASSUME NEW p \in Withdrawals, status[p] # "none",
             NEW s \in {"processing", "completed", "failed"}, status' = [status EXCEPT ![p] = s]
      PROVE  \A w \in Withdrawals : status'[w] # "none" <=> status[w] # "none"
  BY <1>1, <1>3
<1>4. ASSUME NEW p \in Withdrawals, Spend(p) \/ Refund(p)
      PROVE  \A w \in Withdrawals : status'[w] # "none" <=> status[w] # "none"
  <2>1. status' = status \/ \E s \in {"completed", "failed"} :
                               status[p] # "none" /\ status' = [status EXCEPT ![p] = s]
    BY <1>4 DEF Spend, Refund, db
  <2> QED BY <1>3, <2>1
<1>5. \/ status' = status
      \/ /\ Working(k) /\ status[Payout(k)] = "pending"
         /\ status' = [status EXCEPT ![Payout(k)] = "processing"]
      \/ Working(k) /\ (Spend(Payout(k)) \/ Refund(Payout(k)))
  BY DEF Work, Break, Reclaim, Fetch, Find, Lookup, Advance, AdvanceRaced, IssueSend, SignerAccepts,
         SignerAnswersGarbled, SignerRejects, FinalizeSuccess, FinalizeFailed, Xack,
         TransportError, LeaveOnError, CommitUnheard, Crash, Working, db
<1>6. \A w \in Withdrawals : status'[w] # "none" <=> status[w] # "none"
  BY <1>2, <1>3, <1>4, <1>5
<1>7. stream' = stream
  BY DEF Work, Break, Reclaim, Fetch, Find, Lookup, Advance, AdvanceRaced, IssueSend, SignerAccepts,
         SignerAnswersGarbled, SignerRejects, FinalizeSuccess, FinalizeFailed, Xack,
         TransportError, LeaveOnError, CommitUnheard, Crash, redis
<1>8. faults' \in 0..MaxFaults
  <2>1. Work(k) => faults' = faults
    BY DEF Work, Reclaim, Fetch, Find, Lookup, Advance, AdvanceRaced, IssueSend, SignerAccepts,
           SignerAnswersGarbled, SignerRejects, FinalizeSuccess, FinalizeFailed, Xack
  <2>2. Break(k) => Fault
    BY DEF Break, TransportError, LeaveOnError, CommitUnheard, Crash
  <2> QED BY <2>1, <2>2, FaultTypes DEF TypeOK
<1> QED BY <1>6, <1>7, <1>8

\* What follows for one withdrawal: no status is ever taken back.
LEMMA StatusMonotone ==
    ASSUME TypeOK, StepsHold, Step, NEW w \in Withdrawals
    PROVE  /\ status[w] # "none" => status'[w] # "none"
           /\ status[w] \in Advanced => status'[w] \in Advanced
           /\ status[w] \in Terminal => status'[w] = status[w]
           /\ status'[w] \in Open /\ status[w] # "none" => status[w] \in Open
           /\ status'[w] = "completed" => status[w] = "completed" \/ w \in signed
<1>1. status[w] \in Status
  BY DEF TypeOK, TablesOK
<1> QED BY <1>1, StatusStep DEF Status, Advanced, Terminal, Open

LEMMA SignedGrows ==
    ASSUME TypeOK, Step
    PROVE  signed \subseteq signed'
BY DEF Step, Next, signer, Work, Break, CreateWithdrawal, Publish, Appears, OrphanArrives,
       Redeliver, Reclaim, Fetch, Find, Lookup, Advance, AdvanceRaced, IssueSend, SignerAccepts,
       SignerAnswersGarbled, SignerRejects, FinalizeSuccess, FinalizeFailed, Xack, TransportError,
       LeaveOnError, CommitUnheard, Crash, Perform, Abandon

\* The steps of the loop body, from one place to the next, with what each of
\* them has seen or done.
LEMMA Moves ==
    ASSUME TypeOK, Step, NEW j \in Workers
    PROVE  \/ pc'[j] \in {"claim", "fetch", "find"}
           \/ /\ Working(j)
              /\ batch'[j] = batch[j]
              /\ \/ pc'[j] = pc[j]
                 \/ pc[j] = "find" /\ pc'[j] = "ack" /\ status[Payout(j)] \in Terminal
                 \/ pc[j] = "find" /\ pc'[j] = "lookup" /\ status[Payout(j)] = "processing"
                 \/ pc[j] = "find" /\ pc'[j] = "advance"
                 \/ pc[j] = "lookup" /\ pc'[j] = "signed" /\ Payout(j) \in signed
                 \/ pc[j] = "lookup" /\ pc'[j] = "send" /\ Payout(j) \notin signed
                 \/ /\ pc[j] = "advance" /\ pc'[j] = "send"
                    /\ status[Payout(j)] = "pending" /\ status'[Payout(j)] = "processing"
                 \/ pc[j] = "send" /\ pc'[j] = "await"
                 \/ pc[j] = "await" /\ pc'[j] = "signed" /\ Payout(j) \in signed'
                 \/ pc[j] = "await" /\ pc'[j] = "rejected"
                 \/ /\ pc[j] \in {"signed", "rejected"} /\ pc'[j] = "ack"
                    /\ Spend(Payout(j)) \/ Refund(Payout(j))
<1> DEFINE Goal == \/ pc'[j] \in {"claim", "fetch", "find"}
           \/ /\ Working(j)
              /\ batch'[j] = batch[j]
              /\ \/ pc'[j] = pc[j]
                 \/ pc[j] = "find" /\ pc'[j] = "ack" /\ status[Payout(j)] \in Terminal
                 \/ pc[j] = "find" /\ pc'[j] = "lookup" /\ status[Payout(j)] = "processing"
                 \/ pc[j] = "find" /\ pc'[j] = "advance"
                 \/ pc[j] = "lookup" /\ pc'[j] = "signed" /\ Payout(j) \in signed
                 \/ pc[j] = "lookup" /\ pc'[j] = "send" /\ Payout(j) \notin signed
                 \/ /\ pc[j] = "advance" /\ pc'[j] = "send"
                    /\ status[Payout(j)] = "pending" /\ status'[Payout(j)] = "processing"
                 \/ pc[j] = "send" /\ pc'[j] = "await"
                 \/ pc[j] = "await" /\ pc'[j] = "signed" /\ Payout(j) \in signed'
                 \/ pc[j] = "await" /\ pc'[j] = "rejected"
                 \/ /\ pc[j] \in {"signed", "rejected"} /\ pc'[j] = "ack"
                    /\ Spend(Payout(j)) \/ Refund(Payout(j))
<1>1. pc \in [Workers -> Steps] /\ batch \in [Workers -> [left : SUBSET (1..read), then : {"claim", "fetch"}]]
  BY DEF TypeOK, WorkersOK
<1>2. ASSUME pc'[j] = pc[j], batch'[j] = batch[j] PROVE Goal
  BY <1>2 DEF Working
<1>3. ASSUME NEW k \in Workers, k # j, Work(k) \/ Break(k) PROVE pc'[j] = pc[j] /\ batch'[j] = batch[j]
  BY <1>1, <1>3 DEF Work, Break, Goto, Take, NextEntry, Reclaim, Fetch, Find, Lookup, Advance,
         AdvanceRaced, IssueSend, SignerAccepts, SignerAnswersGarbled, SignerRejects,
         FinalizeSuccess, FinalizeFailed, Xack, TransportError, LeaveOnError, CommitUnheard, Crash
<1>4. ASSUME Work(j) PROVE Goal
  <2>1. CASE Reclaim(j) \/ Fetch(j)
    BY <1>1, <2>1 DEF Reclaim, Fetch, Take, Goto
  <2>2. CASE AdvanceRaced(j) \/ Xack(j)
    <3>1. batch[j].then \in {"claim", "fetch"}
      BY <1>1
    <3> QED BY <1>1, <2>2, <3>1 DEF AdvanceRaced, Xack, NextEntry, Goto
  <2>3. CASE Find(j)
    BY <1>1, <2>3 DEF Find, Goto, Working
  <2>4. CASE Lookup(j) \/ IssueSend(j) \/ SignerRejects(j)
    BY <1>1, <2>4 DEF Lookup, IssueSend, SignerRejects, Goto, Working
  <2>5. CASE Advance(j)
    <3>1. Payout(j) \in Withdrawals
      BY <2>5, CurrentEntry DEF Advance, Working
    <3> QED BY <1>1, <2>5, <3>1 DEF Advance, Goto, Working, TypeOK, TablesOK
  <2>6. CASE SignerAccepts(j) \/ SignerAnswersGarbled(j)
    BY <1>1, <2>6 DEF SignerAccepts, SignerAnswersGarbled, Perform, Goto, Working
  <2>7. CASE FinalizeSuccess(j) \/ FinalizeFailed(j)
    BY <1>1, <2>7 DEF FinalizeSuccess, FinalizeFailed, Goto, Working
  <2> QED BY <1>4, <2>1, <2>2, <2>3, <2>4, <2>5, <2>6, <2>7 DEF Work
<1>5. ASSUME Break(j) PROVE pc'[j] \in {"claim", "fetch", "find"}
  <2>1. batch[j].then \in {"claim", "fetch"}
    BY <1>1
  <2> QED BY <1>1, <1>5, <2>1 DEF Break, TransportError, LeaveOnError, CommitUnheard, Crash,
         NextEntry, Goto
<1>6. \/ UNCHANGED consumer
      \/ \E k \in Workers : Work(k) \/ Break(k)
  BY DEF Step, Next, CreateWithdrawal, Publish, Appears, OrphanArrives, Redeliver
<1>7. CASE UNCHANGED consumer
  BY <1>2, <1>7 DEF consumer
<1> HIDE DEF Goal
<1> QED
  <2>1. Goal
    BY <1>2, <1>3, <1>4, <1>5, <1>6, <1>7 DEF Goal
  <2> QED BY <2>1 DEF Goal

LEMMA InvInit == Init => IInv
<1> SUFFICES ASSUME Init PROVE IInv
  OBVIOUS
<1>1. TypeOK
  BY TypeInit
<1>2. Entries = {} /\ Published
  BY DEF Init, Entries, Published
<1>3. StepsHold /\ SignerHolds /\ CompletedWasSent
  BY DEF Init, StepsHold, SignerHolds, CompletedWasSent
<1>4. NotForgotten
  BY <1>2 DEF NotForgotten, Copies
<1>5. FewRows
  <2>1. {w \in Withdrawals : status[w] # "none"} = {}
    BY DEF Init
  <2> QED BY <2>1, FS_EmptySet DEF FewRows
<1>6. LockedBacksOpen /\ OverdraftIsClawback /\ Conservation
  <2>1. \A a \in Accounts : Of(a, Open) = {} /\ Of(a, {"completed"}) = {} /\ Clawback(a) = {}
    BY DEF Init, Clawback, Of, Open
  <2>2. AmountOf({}) = 0
    <3>1. AmountOf({}) = SumOf(Amount, {})
      BY Zenon DEF AmountOf, SumOf
    <3> QED BY <3>1, SumEmpty
  <2>3. \A a \in Accounts : available[a] = Funds[a] /\ locked[a] = 0 /\ Funds[a] \in Nat
    BY DataAssumption DEF Init
  <2>4. ASSUME NEW a \in Accounts
        PROVE  /\ locked[a] = AmountOf(Of(a, Open))
               /\ available[a] >= AmountOf(Clawback(a))
               /\ Funds[a] = available[a] + locked[a] + AmountOf(Of(a, {"completed"}))
    <3>1. /\ AmountOf(Of(a, Open)) = 0 /\ AmountOf(Of(a, {"completed"})) = 0
          /\ AmountOf(Clawback(a)) = 0
      BY <2>1, <2>2
    <3> QED BY <2>3, <3>1
  <2> QED BY <2>4 DEF LockedBacksOpen, OverdraftIsClawback, Conservation
<1> QED BY <1>1, <1>2, <1>3, <1>4, <1>5, <1>6 DEF IInv, Core

\* One lemma for each part of the invariant: what is added has a row ...
LEMMA KeepsPublished ==
    ASSUME Core, Step
    PROVE  Published'
<1>1. TypeOK /\ StepsHold
  BY DEF IInv, Core
<1>2. ASSUME NEW i \in Entries PROVE status'[stream'[i]] # "none"
  <2>1. stream[i] \in Withdrawals /\ status[stream[i]] # "none"
    BY <1>1 DEF IInv, Core, Published, Entries, TypeOK, StreamOK
  <2> QED BY <1>1, <2>1, StatusMonotone, StreamGrows
<1>3. CASE stream' = stream
  BY <1>2, <1>3 DEF Published, Entries
<1>4. CASE stream' # stream
  <2>1. Entries' = Entries \cup {Len(stream) + 1}
    BY <1>1, <1>4, StreamGrows
  <2>2. status'[stream'[Len(stream) + 1]] # "none"
    <3>1. CASE \E w \in Withdrawals : Appears(w) /\ stream'[Len(stream) + 1] = w
      BY <1>1, <3>1, StatusMonotone DEF Appears
    <3>2. CASE \E i \in Entries : stream'[Len(stream) + 1] = stream[i]
      <4>1. PICK i \in Entries : stream'[Len(stream) + 1] = stream[i]
        BY <3>2
      <4>2. stream'[i] = stream[i]
        BY <1>1, StreamGrows
      <4> QED BY <1>2, <4>1, <4>2
    <3> QED BY <1>1, <1>4, <3>1, <3>2, StreamGrows
  <2> QED BY <1>2, <2>1, <2>2 DEF Published
<1> QED BY <1>3, <1>4

\* ... a status a worker has seen is not taken back ...
LEMMA KeepsSteps ==
    ASSUME Core, Step
    PROVE  StepsHold'
<1>1. TypeOK /\ StepsHold
  BY DEF IInv, Core
<1>2. ASSUME NEW j \in Workers, pc'[j] \notin {"claim", "fetch", "find"}
      PROVE  /\ pc'[j] \in {"lookup", "send", "await", "signed", "rejected"}
                   => status'[Payout(j)'] \in Advanced
             /\ pc'[j] = "ack" => status'[Payout(j)'] \in Terminal
             /\ pc'[j] = "signed" => Payout(j)' \in signed'
  <2>1. Working(j) /\ batch'[j] = batch[j]
    BY <1>1, <1>2, Moves
  <2>2. Payout(j)' = Payout(j) /\ Payout(j) \in Withdrawals
    BY <1>1, <2>1, SamePayout, CurrentEntry
  <2> DEFINE w == Payout(j)
  <2>3. /\ status[w] \in Advanced => status'[w] \in Advanced
        /\ status[w] \in Terminal => status'[w] \in Terminal
        /\ w \in signed => w \in signed'
    BY <1>1, <2>2, StatusMonotone, SignedGrows
  <2>4. /\ pc[j] \in {"lookup", "send", "await", "signed", "rejected"} => status[w] \in Advanced
        /\ pc[j] = "ack" => status[w] \in Terminal
        /\ pc[j] = "signed" => w \in signed
    BY <1>1 DEF StepsHold
  <2>5. /\ Terminal \subseteq Advanced
        /\ "processing" \in Advanced
    BY DEF Advanced
  <2>6. Spend(w) \/ Refund(w) => (status[w] \in Advanced => status'[w] \in Terminal)
    BY <1>1, <2>2, FinalizeStatus
  <2>7. \/ pc'[j] = pc[j]
        \/ pc[j] = "find" /\ pc'[j] = "ack" /\ status[w] \in Terminal
        \/ pc[j] = "find" /\ pc'[j] = "lookup" /\ status[w] = "processing"
        \/ pc[j] = "find" /\ pc'[j] = "advance"
        \/ pc[j] = "lookup" /\ pc'[j] = "signed" /\ w \in signed
        \/ pc[j] = "lookup" /\ pc'[j] = "send" /\ Payout(j) \notin signed
        \/ pc[j] = "advance" /\ pc'[j] = "send" /\ status'[w] = "processing"
        \/ pc[j] = "send" /\ pc'[j] = "await"
        \/ pc[j] = "await" /\ pc'[j] = "signed" /\ w \in signed'
        \/ pc[j] = "await" /\ pc'[j] = "rejected"
        \/ /\ pc[j] \in {"signed", "rejected"} /\ pc'[j] = "ack"
           /\ Spend(w) \/ Refund(w)
    BY <1>1, <1>2, Moves
  <2> HIDE DEF w
  <2>8. /\ pc'[j] \in {"lookup", "send", "await", "signed", "rejected"} => status'[w] \in Advanced
        /\ pc'[j] = "ack" => status'[w] \in Terminal
        /\ pc'[j] = "signed" => w \in signed'
    BY <2>3, <2>4, <2>5, <2>6, <2>7
  <2> QED BY <2>2, <2>8 DEF w
<1> QED BY <1>2 DEF StepsHold

\* ... a request is on its way only of what a worker advanced ...
LEMMA RequestsStep ==
    ASSUME TypeOK, Step, NEW w \in Withdrawals, w \in signed' \/ orphans'[w] > 0
    PROVE  \/ w \in signed \/ orphans[w] > 0
           \/ \E k \in Workers : pc[k] = "await" /\ Payout(k) = w
<1>1. ASSUME NEW v \in Withdrawals, Perform(v) PROVE v = w \/ w \in signed \/ orphans[w] > 0
  BY <1>1 DEF Perform
<1>2. ASSUME NEW v \in Withdrawals, OrphanArrives(v) PROVE w \in signed \/ orphans[w] > 0
  BY <1>2 DEF OrphanArrives, TypeOK, SignerOK
<1>3. ASSUME NEW k \in Workers, pc[k] = "await",
             \/ Perform(Payout(k))
             \/ /\ orphans' = [orphans EXCEPT ![Payout(k)] = @ + 1]
                /\ UNCHANGED <<signed, sends>>
      PROVE  Payout(k) = w \/ w \in signed \/ orphans[w] > 0
  <2>1. Payout(k) \in Withdrawals
    BY <1>3, CurrentEntry DEF Working
  <2> QED BY <1>1, <1>3, <2>1 DEF TypeOK, SignerOK
<1>4. \/ UNCHANGED signer
      \/ \E v \in Withdrawals : OrphanArrives(v)
      \/ \E k \in Workers : /\ pc[k] = "await"
                            /\ \/ Perform(Payout(k))
                               \/ /\ orphans' = [orphans EXCEPT ![Payout(k)] = @ + 1]
                                  /\ UNCHANGED <<signed, sends>>
  BY DEF Step, Next, Work, Break, CreateWithdrawal, Publish, Appears, Redeliver, Reclaim, Fetch,
         Find, Lookup, Advance, AdvanceRaced, IssueSend, SignerAccepts, SignerAnswersGarbled,
         SignerRejects, FinalizeSuccess, FinalizeFailed, Xack, TransportError, LeaveOnError,
         CommitUnheard, Crash, Abandon
<1>5. CASE UNCHANGED signer
  BY <1>5 DEF signer
<1> QED BY <1>2, <1>3, <1>4, <1>5

LEMMA KeepsSigner ==
    ASSUME Core, Step
    PROVE  SignerHolds' /\ CompletedWasSent'
<1>1. TypeOK /\ StepsHold /\ SignerHolds /\ CompletedWasSent
  BY DEF IInv, Core
<1>2. ASSUME NEW w \in Withdrawals, w \in signed' \/ orphans'[w] > 0
      PROVE  status'[w] \in Advanced
  <2>1. status[w] \in Advanced
    BY <1>1, <1>2, RequestsStep DEF SignerHolds, StepsHold
  <2> QED BY <1>1, <2>1, StatusMonotone
<1>3. ASSUME NEW w \in Withdrawals, status'[w] = "completed"
      PROVE  w \in signed'
  BY <1>1, <1>3, StatusMonotone, SignedGrows DEF CompletedWasSent
<1> QED BY <1>2, <1>3 DEF SignerHolds, CompletedWasSent

\* ... and an entry leaves the pending list acked, by a worker that has seen a
\* terminal status, or put back on the stream.
LEMMA PendingStep ==
    ASSUME TypeOK, Step, NEW i \in Entries, i > read \/ i \in pending
    PROVE  \/ i > read' \/ i \in pending'
           \/ \E k \in Workers : pc[k] = "ack" /\ Current(k) = i
           \/ stream' # stream
<1>1. ASSUME NEW k \in Workers, Fetch(k) PROVE i > read' \/ i \in pending'
  <2> DEFINE n == IF Len(stream) - read < Count THEN Len(stream) - read ELSE Count
  <2>1. n \in Nat /\ read \in Nat /\ i \in Nat
    BY CountAssumption DEF TypeOK, StreamOK, Entries
  <2>2. read' = read + n /\ pending' = pending \cup (read + 1)..(read + n)
    BY <1>1 DEF Fetch
  <2> HIDE DEF n
  <2> QED BY <2>1, <2>2
<1>2. ASSUME NEW k \in Workers, Xack(k)
      PROVE  pc[k] = "ack" /\ pending' = pending \ {Current(k)} /\ read' = read
  BY <1>2 DEF Xack
<1>3. ASSUME NEW j \in Entries, Redeliver(j) PROVE stream' # stream
  <2>1. stream[j] \in Withdrawals /\ stream' = Append(stream, stream[j])
    BY <1>3 DEF Redeliver, Entries, TypeOK, StreamOK
  <2>2. stream \in Seq(Withdrawals)
    BY DEF TypeOK, StreamOK
  <2> QED BY <2>1, <2>2
<1>4. \/ UNCHANGED <<read, pending>>
      \/ \E k \in Workers : Fetch(k)
      \/ \E k \in Workers : Xack(k)
      \/ \E j \in Entries : Redeliver(j)
  BY DEF Step, Next, redis, Work, Break, CreateWithdrawal, OrphanArrives, Publish, Appears,
         Reclaim, Find, Lookup, Advance, AdvanceRaced, IssueSend, SignerAccepts,
         SignerAnswersGarbled, SignerRejects, FinalizeSuccess, FinalizeFailed, TransportError,
         LeaveOnError, CommitUnheard, Crash
<1> QED BY <1>1, <1>2, <1>3, <1>4

LEMMA KeepsNotForgotten ==
    ASSUME IInv, Step
    PROVE  NotForgotten'
<1>1. TypeOK /\ StepsHold /\ NotForgotten /\ Published
  BY DEF IInv, Core
<1>2. /\ \A i \in Entries : i \in Entries' /\ stream'[i] = stream[i]
      /\ read \in Nat /\ read <= Len(stream) /\ Len(stream) \in Nat
  BY <1>1, StreamGrows DEF TypeOK, StreamOK
<1> SUFFICES ASSUME NEW w \in Withdrawals, status'[w] \in Open,
                    NEW c \in Entries', stream'[c] = w
             PROVE  \E i \in Entries' : stream'[i] = w /\ (i > read' \/ i \in pending')
  BY DEF NotForgotten, Copies
<1>3. CASE stream' = stream
  <2>1. c \in Entries /\ stream[c] = w
    BY <1>3 DEF Entries
  <2>2. status[w] \in Open
    BY <1>1, <2>1, StatusMonotone DEF Published
  <2>3. PICK i \in Entries : stream[i] = w /\ (i > read \/ i \in pending)
    BY <1>1, <2>1, <2>2 DEF NotForgotten, Copies
  <2>4. ASSUME NEW k \in Workers, pc[k] = "ack", Current(k) = i PROVE FALSE
    <3>1. status[w] \in Terminal
      BY <1>1, <2>3, <2>4 DEF StepsHold, Payout
    <3> QED BY <2>2, <3>1 DEF Terminal, Open
  <2>5. i > read' \/ i \in pending'
    BY <1>1, <1>3, <2>3, <2>4, PendingStep
  <2> QED BY <1>2, <2>3, <2>5
<1>4. CASE stream' # stream
  <2> DEFINE n == Len(stream) + 1
  <2>1. Entries' = Entries \cup {n} /\ read' = read
    BY <1>1, <1>4, StreamGrows
  <2>2. n > read'
    BY <1>2, <2>1
  <2>3. CASE stream'[n] = w
    BY <2>1, <2>2, <2>3
  <2>4. CASE stream'[n] # w
    <3>1. c \in Entries /\ stream[c] = w
      BY <1>2, <2>1, <2>4
    <3>2. status[w] \in Open
      BY <1>1, <3>1, StatusMonotone DEF Published
    <3>3. PICK i \in Entries : stream[i] = w /\ (i > read \/ i \in pending)
      BY <1>1, <3>1, <3>2 DEF NotForgotten, Copies
    <3>4. i > read' \/ i \in pending'
      <4>1. CASE pending' = pending
        BY <2>1, <3>3, <4>1
      <4>2. CASE \E j \in Entries : stream'[n] = stream[j] /\ pending' = pending \ {j}
        BY <2>1, <2>4, <3>3, <4>2
      <4> QED BY <1>1, <1>4, <4>1, <4>2, StreamGrows
    <3> QED BY <1>2, <3>3, <3>4
  <2> QED BY <2>3, <2>4
<1> QED BY <1>3, <1>4

----------------------------------------------------------------------------
(* Money *)

\* Rows are inserted one by one.
LEMMA KeepsFewRows ==
    ASSUME TypeOK, StepsHold, FewRows, Step
    PROVE  FewRows'
<1> DEFINE rows == {w \in Withdrawals : status[w] # "none"}
<1>1. ASSUME NEW v \in Withdrawals, CreateWithdrawal(v) PROVE FewRows'
  <2>1. status' = [status EXCEPT ![v] = "pending"]
    BY <1>1 DEF CreateWithdrawal
  <2>2. {w \in Withdrawals : status'[w] # "none"} = rows \cup {v}
    BY <2>1 DEF TypeOK, TablesOK
  <2>3. IsFiniteSet(rows \cup {v})
    <3> HIDE DEF rows
    <3>1. IsFiniteSet(rows)
      BY DEF FewRows, rows
    <3> QED BY <3>1, FS_AddElement
  <2> QED BY <2>2, <2>3 DEF FewRows
<1>2. CASE ~\E v \in Withdrawals : CreateWithdrawal(v)
  <2>1. \A w \in Withdrawals : status'[w] # "none" => status[w] # "none"
    BY <1>2, StatusStep
  <2>2. {w \in Withdrawals : status'[w] # "none"} \in SUBSET rows
    BY <2>1
  <2> QED BY <2>2, FS_Subset DEF FewRows
<1> QED BY <1>1, <1>2

\* The amount of a set is a sum of its own, whatever sums are called elsewhere.
LEMMA AmountIsAdder == \A S : AmountOf(S) = Adder(Amount, S)[S]
<1>1. \A S : AmountOf(S) = SumOf(Amount, S)
  BY Zenon DEF AmountOf, SumOf
<1> QED BY <1>1, SumIsAdder

\* What a number of equal withdrawals amount to.
LEMMA AmountOfAlike ==
    ASSUME NEW S \in SUBSET Withdrawals, IsFiniteSet(S), NEW c \in Int, \A w \in S : Amount[w] = c
    PROVE  AmountOf(S) = c * Cardinality(S)
<1>1. AmountOf(S) = SumOf(Amount, S)
  BY Zenon DEF AmountOf, SumOf
<1> QED BY <1>1, SumAlike

\* Of, after the step.
OfNext(a, statuses) == {w \in Withdrawals : AccountOf[w] = a /\ status'[w] \in statuses}

\* What is in a set of statuses after w has changed its own to s.
Moved(a, w, s, Q) ==
    IF AccountOf[w] = a /\ s \in Q /\ status[w] \notin Q
      THEN AmountOf(Of(a, Q)) + Amount[w]
      ELSE IF AccountOf[w] = a /\ s \notin Q /\ status[w] \in Q
        THEN AmountOf(Of(a, Q)) - Amount[w]
        ELSE AmountOf(Of(a, Q))

\* The amounts in a set of statuses, when one withdrawal changes its own.
LEMMA AmountMoves ==
    ASSUME TypeOK, FewRows, NEW w \in Withdrawals, NEW s \in Status,
           status' = [status EXCEPT ![w] = s],
           NEW Q \in SUBSET (Status \ {"none"}), NEW a \in Accounts
    PROVE  AmountOf(Of(a, Q)) \in Int /\ AmountOf(OfNext(a, Q)) = Moved(a, w, s, Q)
<1> DEFINE S == Of(a, Q)
           T == OfNext(a, Q)
           rows == {v \in Withdrawals : status[v] # "none"}
<1>1. S \in SUBSET rows /\ S \in SUBSET Withdrawals
  BY DEF Of
<1>2. IsFiniteSet(S)
  BY <1>1, FS_Subset DEF FewRows
<1>3. \A v \in S : Amount[v] \in Int
  BY <1>1, DataAssumption
<1>4. Amount[w] \in Int
  BY DataAssumption
<1>5. \A U : AmountOf(U) = SumOf(Amount, U)
  BY Zenon DEF AmountOf, SumOf
<1>6. /\ AccountOf[w] = a /\ s \in Q /\ status[w] \notin Q => T = S \cup {w} /\ w \notin S
      /\ AccountOf[w] = a /\ s \notin Q /\ status[w] \in Q => T = S \ {w} /\ w \in S
      /\ AccountOf[w] # a \/ (s \in Q <=> status[w] \in Q) => T = S
  BY DEF Of, OfNext, TypeOK, TablesOK
<1> HIDE DEF S, T
<1>7. SumOf(Amount, S) \in Int
  BY <1>2, <1>3, SumType
<1>8. w \notin S => SumOf(Amount, S \cup {w}) = Amount[w] + SumOf(Amount, S)
  BY <1>2, <1>3, <1>4, SumAdd
<1>9. w \in S => SumOf(Amount, S) = Amount[w] + SumOf(Amount, S \ {w})
  BY <1>2, <1>3, SumRemove
<1>10. w \in S => SumOf(Amount, S \ {w}) \in Int
  <2>1. IsFiniteSet(S \ {w})
    BY <1>2, FS_RemoveElement
  <2> QED BY <1>3, <2>1, SumType
<1>11. w \in S => SumOf(Amount, S \ {w}) = SumOf(Amount, S) - Amount[w]
  BY <1>4, <1>7, <1>9, <1>10
<1>12. SumOf(Amount, S \cup {w}) = Amount[w] + SumOf(Amount, S)
          => SumOf(Amount, S \cup {w}) = SumOf(Amount, S) + Amount[w]
  BY <1>4, <1>7
<1>13. /\ SumOf(Amount, S) \in Int
       /\ SumOf(Amount, T) =
                 IF AccountOf[w] = a /\ s \in Q /\ status[w] \notin Q
                   THEN SumOf(Amount, S) + Amount[w]
                   ELSE IF AccountOf[w] = a /\ s \notin Q /\ status[w] \in Q
                     THEN SumOf(Amount, S) - Amount[w]
                     ELSE SumOf(Amount, S)
  BY <1>6, <1>7, <1>8, <1>11, <1>12, Zenon
<1> QED BY <1>5, <1>13 DEF S, T, Moved

\* What was taken back by refunds, after the step.
ClawbackNext(a) == {w \in OfNext(a, {"failed"}) : Amount[w] < 0}

\* It is no credit, and only the refund of a negative amount adds to it.
LEMMA ClawbackMoves ==
    ASSUME TypeOK, FewRows, NEW w \in Withdrawals, NEW s \in Status, status[w] # "failed",
           status' = [status EXCEPT ![w] = s], NEW a \in Accounts
    PROVE  /\ AmountOf(Clawback(a)) \in Int /\ AmountOf(Clawback(a)) <= 0
           /\ AmountOf(ClawbackNext(a)) =
                 IF AccountOf[w] = a /\ s = "failed" /\ Amount[w] < 0
                   THEN AmountOf(Clawback(a)) + Amount[w]
                   ELSE AmountOf(Clawback(a))
<1> DEFINE S == Clawback(a)
           T == ClawbackNext(a)
           rows == {v \in Withdrawals : status[v] # "none"}
<1>1. S \in SUBSET rows /\ S \in SUBSET Withdrawals
  BY DEF Clawback, Of
<1>2. IsFiniteSet(S)
  BY <1>1, FS_Subset DEF FewRows
<1>3. \A v \in S : Amount[v] \in Int /\ Amount[v] <= 0
  BY <1>1, DataAssumption DEF Clawback
<1>4. Amount[w] \in Int
  BY DataAssumption
<1>5. \A U : AmountOf(U) = SumOf(Amount, U)
  BY Zenon DEF AmountOf, SumOf
<1>6. IF AccountOf[w] = a /\ s = "failed" /\ Amount[w] < 0
        THEN T = S \cup {w} /\ w \notin S
        ELSE T = S
  BY DEF Clawback, ClawbackNext, Of, OfNext, TypeOK, TablesOK
<1> HIDE DEF S, T
<1>7. SumOf(Amount, S) \in Int /\ SumOf(Amount, S) <= 0
  BY <1>2, <1>3, SumNotPositive
<1>8. w \notin S => SumOf(Amount, S \cup {w}) = Amount[w] + SumOf(Amount, S)
  BY <1>2, <1>3, <1>4, SumAdd
<1>9. w \notin S => SumOf(Amount, S \cup {w}) = SumOf(Amount, S) + Amount[w]
  BY <1>4, <1>7, <1>8
<1> QED BY <1>5, <1>6, <1>7, <1>9 DEF S, T

\* What a step does to the tables: one statement of one withdrawal, or nothing.
LEMMA LedgerStep ==
    ASSUME TypeOK, StepsHold, Step
    PROVE  \/ UNCHANGED db
           \/ \E w \in Withdrawals :
                 \/ CreateWithdrawal(w)
                 \/ /\ status[w] = "pending"
                    /\ status' = [status EXCEPT ![w] = "processing"]
                    /\ UNCHANGED <<available, locked>>
                 \/ status[w] = "processing" /\ (Spend(w) \/ Refund(w))
<1>1. \/ UNCHANGED db
      \/ \E w \in Withdrawals : CreateWithdrawal(w)
      \/ \E k \in Workers : /\ pc[k] = "advance" /\ status[Payout(k)] = "pending"
                            /\ status' = [status EXCEPT ![Payout(k)] = "processing"]
                            /\ UNCHANGED <<available, locked>>
      \/ \E k \in Workers : pc[k] \in {"signed", "rejected"} /\ (Spend(Payout(k)) \/ Refund(Payout(k)))
  BY DEF Step, Next, db, Work, Break, Publish, Appears, OrphanArrives, Redeliver, Reclaim, Fetch,
         Find, Lookup, Advance, AdvanceRaced, IssueSend, SignerAccepts, SignerAnswersGarbled,
         SignerRejects, FinalizeSuccess, FinalizeFailed, Xack, TransportError, LeaveOnError,
         CommitUnheard, Crash
<1>2. ASSUME NEW k \in Workers, pc[k] \in {"advance", "signed", "rejected"}
      PROVE  Payout(k) \in Withdrawals
  BY <1>2, CurrentEntry DEF Working
<1>3. ASSUME NEW w \in Withdrawals, Spend(w) \/ Refund(w)
      PROVE  status[w] = "processing" \/ UNCHANGED db
  BY <1>3 DEF Spend, Refund
<1> QED BY <1>1, <1>2, <1>3

LEMMA KeepsMoney ==
    ASSUME Core, Step
    PROVE  LockedBacksOpen' /\ Conservation'
<1>1. TypeOK /\ StepsHold /\ FewRows /\ LockedBacksOpen /\ Conservation
  BY DEF IInv, Core
<1> SUFFICES ASSUME NEW a \in Accounts
             PROVE  /\ locked'[a] = AmountOf(OfNext(a, Open))
                    /\ Funds[a] = available'[a] + locked'[a] + AmountOf(OfNext(a, {"completed"}))
  <2>1. \A b \in Accounts : /\ Of(b, Open)' = OfNext(b, Open)
                            /\ Of(b, {"completed"})' = OfNext(b, {"completed"})
    BY DEF Of, OfNext, Open
  <2>2. \A b \in Accounts : /\ AmountOf(Of(b, Open))' = AmountOf(OfNext(b, Open))
                            /\ AmountOf(Of(b, {"completed"}))' = AmountOf(OfNext(b, {"completed"}))
    BY <2>1
  <2> QED BY <2>2 DEF LockedBacksOpen, Conservation
<1> DEFINE open == AmountOf(Of(a, Open))
           paid == AmountOf(Of(a, {"completed"}))
<1>2. /\ locked[a] = open
      /\ Funds[a] = available[a] + locked[a] + paid
      /\ available[a] \in Int /\ locked[a] \in Int /\ Funds[a] \in Nat
  BY <1>1, DataAssumption DEF LockedBacksOpen, Conservation, TypeOK, TablesOK
<1>3. CASE UNCHANGED db
  <2>1. \A Q : OfNext(a, Q) = Of(a, Q)
    BY <1>3 DEF Of, OfNext, db
  <2> QED BY <1>2, <1>3, <2>1 DEF db
<1>4. ASSUME NEW w \in Withdrawals, NEW s \in {"pending", "processing", "completed", "failed"},
             status' = [status EXCEPT ![w] = s]
      PROVE  /\ open \in Int /\ paid \in Int
             /\ AmountOf(OfNext(a, Open)) =
                   IF AccountOf[w] = a /\ s \in Open /\ status[w] \notin Open
                     THEN open + Amount[w]
                     ELSE IF AccountOf[w] = a /\ s \notin Open /\ status[w] \in Open
                       THEN open - Amount[w]
                       ELSE open
             /\ AmountOf(OfNext(a, {"completed"})) =
                   IF AccountOf[w] = a /\ s \in {"completed"} /\ status[w] \notin {"completed"}
                     THEN paid + Amount[w]
                     ELSE IF AccountOf[w] = a /\ s \notin {"completed"} /\ status[w] \in {"completed"}
                       THEN paid - Amount[w]
                       ELSE paid
  <2>1. s \in Status /\ Open \in SUBSET (Status \ {"none"}) /\ {"completed"} \in SUBSET (Status \ {"none"})
    BY DEF Status, Open, Terminal
  <2>2. ASSUME NEW Q \in SUBSET (Status \ {"none"})
        PROVE  AmountOf(Of(a, Q)) \in Int /\ AmountOf(OfNext(a, Q)) = Moved(a, w, s, Q)
    BY <1>1, <1>4, <2>1, AmountMoves
  <2> QED BY <2>1, <2>2, Zenon DEF Moved
<1> HIDE DEF open, paid
<1>5. ASSUME NEW w \in Withdrawals, CreateWithdrawal(w)
      PROVE  /\ locked'[a] = AmountOf(OfNext(a, Open))
             /\ Funds[a] = available'[a] + locked'[a] + AmountOf(OfNext(a, {"completed"}))
  <2>1. /\ status' = [status EXCEPT ![w] = "pending"] /\ status[w] = "none"
        /\ available' = [available EXCEPT ![AccountOf[w]] = available[AccountOf[w]] - Amount[w]]
        /\ locked' = [locked EXCEPT ![AccountOf[w]] = locked[AccountOf[w]] + Amount[w]]
    BY <1>5 DEF CreateWithdrawal
  <2>2. AccountOf[w] \in Accounts /\ Amount[w] \in Int
    BY DataAssumption
  <2>3. /\ available'[a] = IF a = AccountOf[w] THEN available[a] - Amount[w] ELSE available[a]
        /\ locked'[a] = IF a = AccountOf[w] THEN locked[a] + Amount[w] ELSE locked[a]
    BY <1>1, <2>1, <2>2 DEF TypeOK, TablesOK
  <2>4. /\ open \in Int /\ paid \in Int
        /\ AmountOf(OfNext(a, Open)) = IF AccountOf[w] = a THEN open + Amount[w] ELSE open
        /\ AmountOf(OfNext(a, {"completed"})) = paid
    BY <1>4, <2>1 DEF Open
  <2> QED BY <1>2, <2>1, <2>2, <2>3, <2>4
<1>6. ASSUME NEW w \in Withdrawals, status[w] = "pending",
             status' = [status EXCEPT ![w] = "processing"], UNCHANGED <<available, locked>>
      PROVE  /\ locked'[a] = AmountOf(OfNext(a, Open))
             /\ Funds[a] = available'[a] + locked'[a] + AmountOf(OfNext(a, {"completed"}))
  <2>1. AmountOf(OfNext(a, Open)) = open /\ AmountOf(OfNext(a, {"completed"})) = paid
    BY <1>4, <1>6 DEF Open
  <2> QED BY <1>2, <1>6, <2>1
<1>7. ASSUME NEW w \in Withdrawals, status[w] = "processing", Spend(w)
      PROVE  /\ locked'[a] = AmountOf(OfNext(a, Open))
             /\ Funds[a] = available'[a] + locked'[a] + AmountOf(OfNext(a, {"completed"}))
  <2>1. /\ status' = [status EXCEPT ![w] = "completed"] /\ available' = available
        /\ locked' = [locked EXCEPT ![AccountOf[w]] = locked[AccountOf[w]] - Amount[w]]
    BY <1>7 DEF Spend
  <2>2. AccountOf[w] \in Accounts /\ Amount[w] \in Int
    BY DataAssumption
  <2>3. locked'[a] = IF a = AccountOf[w] THEN locked[a] - Amount[w] ELSE locked[a]
    BY <1>1, <2>1, <2>2 DEF TypeOK, TablesOK
  <2>4. /\ open \in Int /\ paid \in Int
        /\ AmountOf(OfNext(a, Open)) = IF AccountOf[w] = a THEN open - Amount[w] ELSE open
        /\ AmountOf(OfNext(a, {"completed"})) = IF AccountOf[w] = a THEN paid + Amount[w] ELSE paid
    BY <1>4, <1>7, <2>1 DEF Open
  <2> QED BY <1>2, <2>1, <2>2, <2>3, <2>4
<1>8. ASSUME NEW w \in Withdrawals, status[w] = "processing", Refund(w)
      PROVE  /\ locked'[a] = AmountOf(OfNext(a, Open))
             /\ Funds[a] = available'[a] + locked'[a] + AmountOf(OfNext(a, {"completed"}))
  <2>1. /\ status' = [status EXCEPT ![w] = "failed"]
        /\ locked' = [locked EXCEPT ![AccountOf[w]] = locked[AccountOf[w]] - Amount[w]]
        /\ available' = [available EXCEPT ![AccountOf[w]] = available[AccountOf[w]] + Amount[w]]
    BY <1>8 DEF Refund
  <2>2. AccountOf[w] \in Accounts /\ Amount[w] \in Int
    BY DataAssumption
  <2>3. /\ available'[a] = IF a = AccountOf[w] THEN available[a] + Amount[w] ELSE available[a]
        /\ locked'[a] = IF a = AccountOf[w] THEN locked[a] - Amount[w] ELSE locked[a]
    BY <1>1, <2>1, <2>2 DEF TypeOK, TablesOK
  <2>4. /\ open \in Int /\ paid \in Int
        /\ AmountOf(OfNext(a, Open)) = IF AccountOf[w] = a THEN open - Amount[w] ELSE open
        /\ AmountOf(OfNext(a, {"completed"})) = paid
    BY <1>4, <1>8, <2>1 DEF Open
  <2> QED BY <1>2, <2>1, <2>2, <2>3, <2>4
<1> QED BY <1>1, <1>3, <1>5, <1>6, <1>7, <1>8, LedgerStep

\* The FOR UPDATE check keeps a debit within what is available; only the refund
\* of a negative amount takes more, and is counted.
LEMMA KeepsOverdraft ==
    ASSUME Core, Step
    PROVE  OverdraftIsClawback'
<1>1. TypeOK /\ StepsHold /\ FewRows /\ OverdraftIsClawback
  BY DEF Core
<1> SUFFICES ASSUME NEW a \in Accounts
             PROVE  available'[a] >= AmountOf(ClawbackNext(a))
  <2>1. \A b \in Accounts : Clawback(b)' = ClawbackNext(b)
    BY DEF Clawback, ClawbackNext, Of, OfNext
  <2>2. \A b \in Accounts : AmountOf(Clawback(b))' = AmountOf(ClawbackNext(b))
    BY <2>1
  <2> QED BY <2>2 DEF OverdraftIsClawback
<1> DEFINE taken == AmountOf(Clawback(a))
<1>2. available[a] >= taken /\ available[a] \in Int
  BY <1>1 DEF OverdraftIsClawback, TypeOK, TablesOK
<1>3. CASE UNCHANGED db
  <2>1. ClawbackNext(a) = Clawback(a)
    BY <1>3 DEF Clawback, ClawbackNext, Of, OfNext, db
  <2> QED BY <1>2, <1>3, <2>1 DEF db
<1>4. ASSUME NEW w \in Withdrawals, NEW s \in {"pending", "processing", "completed", "failed"},
             status[w] # "failed", status' = [status EXCEPT ![w] = s]
      PROVE  /\ taken \in Int /\ taken <= 0
             /\ AmountOf(ClawbackNext(a)) = IF AccountOf[w] = a /\ s = "failed" /\ Amount[w] < 0
                                              THEN taken + Amount[w] ELSE taken
  <2>1. s \in Status
    BY DEF Status, Open, Terminal
  <2> QED BY <1>1, <1>4, <2>1, ClawbackMoves
<1> HIDE DEF taken
<1>5. ASSUME NEW w \in Withdrawals, CreateWithdrawal(w)
      PROVE  available'[a] >= AmountOf(ClawbackNext(a))
  <2>1. /\ status' = [status EXCEPT ![w] = "pending"] /\ status[w] = "none"
        /\ available[AccountOf[w]] >= Amount[w]
        /\ available' = [available EXCEPT ![AccountOf[w]] = available[AccountOf[w]] - Amount[w]]
    BY <1>5 DEF CreateWithdrawal
  <2>2. AccountOf[w] \in Accounts /\ Amount[w] \in Int
    BY DataAssumption
  <2>3. available'[a] = IF a = AccountOf[w] THEN available[a] - Amount[w] ELSE available[a]
    BY <1>1, <2>1, <2>2 DEF TypeOK, TablesOK
  <2>4. taken \in Int /\ taken <= 0 /\ AmountOf(ClawbackNext(a)) = taken
    BY <1>4, <2>1
  <2> QED BY <1>2, <2>1, <2>2, <2>3, <2>4
<1>6. ASSUME NEW w \in Withdrawals, status[w] = "pending",
             status' = [status EXCEPT ![w] = "processing"], UNCHANGED <<available, locked>>
      PROVE  available'[a] >= AmountOf(ClawbackNext(a))
  <2>1. AmountOf(ClawbackNext(a)) = taken
    BY <1>4, <1>6
  <2> QED BY <1>2, <1>6, <2>1
<1>7. ASSUME NEW w \in Withdrawals, status[w] = "processing", Spend(w)
      PROVE  available'[a] >= AmountOf(ClawbackNext(a))
  <2>1. status' = [status EXCEPT ![w] = "completed"] /\ available' = available
    BY <1>7 DEF Spend
  <2>2. AmountOf(ClawbackNext(a)) = taken
    BY <1>4, <1>7, <2>1
  <2> QED BY <1>2, <2>1, <2>2
<1>8. ASSUME NEW w \in Withdrawals, status[w] = "processing", Refund(w)
      PROVE  available'[a] >= AmountOf(ClawbackNext(a))
  <2>1. /\ status' = [status EXCEPT ![w] = "failed"]
        /\ available' = [available EXCEPT ![AccountOf[w]] = available[AccountOf[w]] + Amount[w]]
    BY <1>8 DEF Refund
  <2>2. AccountOf[w] \in Accounts /\ Amount[w] \in Int
    BY DataAssumption
  <2>3. available'[a] = IF a = AccountOf[w] THEN available[a] + Amount[w] ELSE available[a]
    BY <1>1, <2>1, <2>2 DEF TypeOK, TablesOK
  <2>4. /\ taken \in Int
        /\ AmountOf(ClawbackNext(a)) = IF AccountOf[w] = a /\ Amount[w] < 0
                                         THEN taken + Amount[w] ELSE taken
    BY <1>4, <1>8, <2>1
  <2> QED BY <1>2, <2>2, <2>3, <2>4
<1> QED BY <1>1, <1>3, <1>5, <1>6, <1>7, <1>8, LedgerStep

LEMMA CoreStep == Core /\ Step /\ faults' \in 0..MaxFaults => Core'
<1> SUFFICES ASSUME Core, Step, faults' \in 0..MaxFaults PROVE Core'
  OBVIOUS
<1>1. TypeOK' /\ FewRows'
  BY TypeStep, KeepsFewRows DEF Core
<1> QED BY <1>1, KeepsPublished, KeepsSteps, KeepsSigner, KeepsMoney, KeepsOverdraft DEF Core

LEMMA InvStep == IInv /\ Step /\ faults' \in 0..MaxFaults => IInv'
BY CoreStep, KeepsNotForgotten DEF IInv

\* Nothing but the promise of the pending list is lost with the list itself.
LEMMA PendingCleared ==
    ASSUME Core, UNCHANGED <<db, stream, read, consumer, signer, faults>>, pending' = {}
    PROVE  Core'
<1>1. TypeOK'
  BY DEF Core, TypeOK, TablesOK, StreamOK, WorkersOK, SignerOK, db, consumer, signer
<1>2. UNCHANGED <<status, available, locked, pc, batch, signed, sends, orphans>>
  BY DEF db, consumer, signer
<1>3. Published' /\ SignerHolds' /\ CompletedWasSent' /\ FewRows'
  BY <1>2 DEF Core, Published, Entries, SignerHolds, CompletedWasSent, FewRows
<1>4. StepsHold'
  BY <1>2 DEF Core, StepsHold, Payout, Current
<1>5. LockedBacksOpen' /\ OverdraftIsClawback' /\ Conservation'
  BY <1>2 DEF Core, LockedBacksOpen, OverdraftIsClawback, Clawback, Conservation, Of
<1> QED BY <1>1, <1>3, <1>4, <1>5 DEF Core

LEMMA Invariance == Spec => []IInv
<1>1. IInv /\ [Next]_vars => IInv'
  BY InvStep, StepOfNext DEF IInv, Core
<1> QED BY <1>1, InvInit, PTL DEF Spec

\* Nothing is acked before its effect is committed: a published withdrawal that
\* is still open has an unread or un-acked entry, for any number of workers,
\* crashes, failed statements and redeliveries (worker/src/main.rs).
THEOREM AckedIsTerminal == Spec => []NotForgotten
<1>1. IInv => NotForgotten
  BY DEF IInv, Core
<1> QED BY <1>1, Invariance, PTL

\* A completed withdrawal is one the signer has a signature for.
THEOREM CompletedOnlyWhenSent == Spec => []CompletedWasSent
<1>1. IInv => CompletedWasSent
  BY DEF IInv, Core
<1> QED BY <1>1, Invariance, PTL

\* set_withdrawal_processing is committed before anything is on its way to the
\* signer, requests of dead workers included.
THEOREM AdvancedBeforeSent == Spec => []SentWasAdvanced
<1>1. IInv => SentWasAdvanced
  BY DEF IInv, Core, SentWasAdvanced, StepsHold, SignerHolds, Advanced
<1> QED BY <1>1, Invariance, PTL

\* The gate of the finalizing transactions (WHERE status = 'processing') makes
\* the first terminal status the last.
THEOREM TerminalStays == Spec => TerminalIsFinal
<1>1. IInv /\ [Next]_vars => [\A w \in Withdrawals : status[w] \in Terminal => status'[w] = status[w]]_vars
  BY StatusMonotone, StepOfNext DEF IInv, Core
<1> QED BY <1>1, Invariance, PTL DEF Spec, TerminalIsFinal

\* no_stranded, whatever raced, failed or crashed: what an account has locked is
\* the amount of its open withdrawals to the unit, negative amounts included.
THEOREM LockedIsOpen == Spec => []LockedBacksOpen
<1>1. IInv => LockedBacksOpen
  BY DEF IInv, Core
<1> QED BY <1>1, Invariance, PTL

\* An account is overdrawn by no more than the failed withdrawals whose negative
\* amounts it had been credited with (withdraw.rs, finalize_withdrawal_failed):
\* by nothing, if its amounts are positive.
THEOREM OverdrawnByClawback == Spec => []OverdraftIsClawback
<1>1. IInv => OverdraftIsClawback
  BY DEF IInv, Core
<1> QED BY <1>1, Invariance, PTL

\* conservation: what an account was given is available, locked or paid out.
THEOREM FundsAreConserved == Spec => []Conservation
<1>1. IInv => Conservation
  BY DEF IInv, Core
<1> QED BY <1>1, Invariance, PTL

----------------------------------------------------------------------------
(* One worker *)

\* What the at-most-once argument needs beyond the code: one consumer, and no
\* request that reaches the signer after its sender is gone.
OneWorker == \A j, k \in Workers : j = k

\* The argument itself only needs one that has entries in hand.
OneBusy == \A j, k \in Workers : Working(j) /\ Working(k) => j = k

\* Between its look at the status and its finalizing nobody else touches the
\* withdrawal, and what it sends was not sent.
SoleHolds ==
    /\ \A w \in Withdrawals : orphans[w] = 0 /\ sends[w] = IF w \in signed THEN 1 ELSE 0
    /\ \A k \in Workers :
          /\ pc[k] \in {"lookup", "send", "await", "signed", "rejected"}
                => status[Payout(k)] = "processing"
          /\ pc[k] \in {"send", "await"} => Payout(k) \notin signed

\* What is refunded, or about to be, was not sent.
RefundHolds ==
    /\ \A k \in Workers : pc[k] = "rejected" => Payout(k) \notin signed
    /\ \A w \in Withdrawals : status[w] = "failed" => w \notin signed

\* The signer performs a send a worker awaits, or one on the wire; the awaiting
\* worker is then elsewhere.
LEMMA SendStep ==
    ASSUME TypeOK, Step, ~OrphansArrive
    PROVE  \/ UNCHANGED <<signed, sends, orphans>>
           \/ \E w \in Withdrawals : orphans[w] > 0
           \/ \E k \in Workers :
                 /\ pc[k] = "await" /\ Payout(k) \in Withdrawals
                 /\ Perform(Payout(k))
                 /\ pc'[k] \notin {"lookup", "send", "await"}
                 /\ pc'[k] = "rejected" => GarbledAnswers
<1>1. pc \in [Workers -> Steps] /\ batch \in [Workers -> [left : SUBSET (1..read), then : {"claim", "fetch"}]]
  BY DEF TypeOK, WorkersOK
<1>2. ASSUME NEW k \in Workers, SignerAccepts(k) \/ SignerAnswersGarbled(k)
      PROVE  /\ pc[k] = "await" /\ Perform(Payout(k))
             /\ pc'[k] \notin {"lookup", "send", "await"}
             /\ pc'[k] = "rejected" => GarbledAnswers
  BY <1>1, <1>2 DEF SignerAccepts, SignerAnswersGarbled, Goto
<1>3. ASSUME NEW k \in Workers, TransportError(k) \/ Crash(k), ~UNCHANGED signer
      PROVE  /\ pc[k] = "await" /\ Perform(Payout(k))
             /\ pc'[k] \notin {"lookup", "send", "await", "rejected"}
  <2>1. pc'[k] \in {"claim", "fetch", "find"}
    BY <1>1, <1>3 DEF TransportError, Crash, NextEntry, Goto
  <2> QED BY <1>3, <2>1 DEF TransportError, Crash, Abandon
<1>4. ASSUME NEW k \in Workers, pc[k] = "await" PROVE Payout(k) \in Withdrawals
  BY <1>4, CurrentEntry DEF Working
<1>5. \/ UNCHANGED signer
      \/ \E w \in Withdrawals : OrphanArrives(w)
      \/ \E k \in Workers : SignerAccepts(k) \/ SignerAnswersGarbled(k)
      \/ \E k \in Workers : TransportError(k) \/ Crash(k)
  BY DEF Step, Next, Work, Break, CreateWithdrawal, Publish, Appears, Redeliver, Reclaim, Fetch,
         Find, Lookup, Advance, AdvanceRaced, IssueSend, SignerRejects, FinalizeSuccess,
         FinalizeFailed, Xack, LeaveOnError, CommitUnheard
<1>6. UNCHANGED signer => UNCHANGED <<signed, sends, orphans>>
  BY DEF signer
<1>7. (\E w \in Withdrawals : OrphanArrives(w)) => \E w \in Withdrawals : orphans[w] > 0
  BY DEF OrphanArrives
<1> QED BY <1>2, <1>3, <1>4, <1>5, <1>6, <1>7

\* A status leaves "processing" by the hand of a worker that is done with it.
LEMMA FinalizeStep ==
    ASSUME TypeOK, Step, NEW w \in Withdrawals,
           \/ status[w] = "processing" /\ status'[w] # "processing"
           \/ status[w] # "failed" /\ status'[w] = "failed"
    PROVE  \E k \in Workers :
              /\ pc[k] \in {"signed", "rejected"} /\ Payout(k) = w
              /\ pc'[k] \in {"ack", "claim", "fetch", "find"}
              /\ status'[w] = "failed" => pc[k] = "rejected"
<1>1. pc \in [Workers -> Steps] /\ batch \in [Workers -> [left : SUBSET (1..read), then : {"claim", "fetch"}]]
  BY DEF TypeOK, WorkersOK
<1>2. ASSUME NEW k \in Workers, FinalizeSuccess(k) \/ FinalizeFailed(k) \/ CommitUnheard(k)
      PROVE  /\ \/ pc[k] = "advance" /\ status[Payout(k)] = "pending"
                   /\ status' = [status EXCEPT ![Payout(k)] = "processing"]
                \/ pc[k] = "signed" /\ Spend(Payout(k))
                \/ pc[k] = "rejected" /\ Refund(Payout(k))
             /\ pc'[k] \in {"ack", "claim", "fetch", "find"}
             /\ Payout(k) \in Withdrawals
  <2>1. Payout(k) \in Withdrawals
    BY <1>2, CurrentEntry DEF Working, FinalizeSuccess, FinalizeFailed, CommitUnheard
  <2>2. pc'[k] \in {"ack", "claim", "fetch", "find"}
    BY <1>1, <1>2 DEF FinalizeSuccess, FinalizeFailed, CommitUnheard, NextEntry, Goto
  <2> QED BY <1>2, <2>1, <2>2 DEF FinalizeSuccess, FinalizeFailed, CommitUnheard
<1>3. \/ UNCHANGED status
      \/ \E v \in Withdrawals : CreateWithdrawal(v)
      \/ \E k \in Workers : Advance(k)
      \/ \E k \in Workers : FinalizeSuccess(k) \/ FinalizeFailed(k) \/ CommitUnheard(k)
  BY DEF Step, Next, db, Work, Break, Publish, Appears, OrphanArrives, Redeliver, Reclaim, Fetch,
         Find, Lookup, AdvanceRaced, IssueSend, SignerAccepts, SignerAnswersGarbled, SignerRejects,
         Xack, TransportError, LeaveOnError, Crash
<1>4. ASSUME NEW v \in Withdrawals, CreateWithdrawal(v) PROVE FALSE
  BY <1>4 DEF CreateWithdrawal, TypeOK, TablesOK
<1>5. ASSUME NEW k \in Workers, Payout(k) \in Withdrawals, status[Payout(k)] = "pending",
             status' = [status EXCEPT ![Payout(k)] = "processing"]
      PROVE  FALSE
  BY <1>5 DEF TypeOK, TablesOK
<1>6. ASSUME NEW k \in Workers, Advance(k) PROVE FALSE
  <2>1. Payout(k) \in Withdrawals
    BY <1>6, CurrentEntry DEF Working, Advance
  <2> QED BY <1>5, <1>6, <2>1 DEF Advance
<1>7. PICK k \in Workers : FinalizeSuccess(k) \/ FinalizeFailed(k) \/ CommitUnheard(k)
  BY <1>3, <1>4, <1>6
<1>8. /\ \/ pc[k] = "signed" /\ Spend(Payout(k))
         \/ pc[k] = "rejected" /\ Refund(Payout(k))
      /\ pc'[k] \in {"ack", "claim", "fetch", "find"}
      /\ Payout(k) \in Withdrawals
  BY <1>2, <1>5, <1>7
<1>9. Payout(k) = w
  BY <1>8, FinalizeStatus
<1>10. Spend(w) => status'[w] = "completed" \/ status'[w] = status[w]
  BY DEF Spend, db, TypeOK, TablesOK
<1> QED BY <1>8, <1>9, <1>10

LEMMA SoleInit == Init => SoleHolds /\ RefundHolds
BY DEF Init, SoleHolds, RefundHolds

LEMMA KeepsSole ==
    ASSUME Core, SoleHolds, Step, OneBusy, ~OrphansArrive
    PROVE  SoleHolds'
<1>1. TypeOK /\ StepsHold /\ SignerHolds
  BY DEF IInv, Core
<1>2. \A w \in Withdrawals : orphans[w] = 0
  BY DEF SoleHolds
<1>3. ASSUME NEW w \in Withdrawals PROVE orphans'[w] = 0 /\ sends'[w] = IF w \in signed' THEN 1 ELSE 0
  <2>1. CASE UNCHANGED <<signed, sends, orphans>>
    BY <2>1 DEF SoleHolds
  <2>2. ASSUME NEW k \in Workers, pc[k] = "await", Payout(k) \in Withdrawals, Perform(Payout(k))
        PROVE  orphans'[w] = 0 /\ sends'[w] = IF w \in signed' THEN 1 ELSE 0
    <3> DEFINE v == Payout(k)
    <3>1. v \notin signed /\ sends[v] = 0 /\ v \in Withdrawals
      BY <2>2 DEF SoleHolds
    <3>2. signed' = signed \cup {v} /\ sends' = [sends EXCEPT ![v] = @ + 1] /\ orphans' = orphans
      BY <2>2 DEF Perform
    <3> HIDE DEF v
    <3> QED BY <1>1, <3>1, <3>2 DEF SoleHolds, TypeOK, SignerOK
  <2> QED BY <1>1, <1>2, <2>1, <2>2, SendStep
<1>4. ASSUME NEW j \in Workers, pc'[j] \in {"lookup", "send", "await", "signed", "rejected"}
      PROVE  /\ status'[Payout(j)'] = "processing"
             /\ pc'[j] \in {"send", "await"} => Payout(j)' \notin signed'
  <2>1. Working(j) /\ batch'[j] = batch[j]
    BY <1>1, <1>4, Moves
  <2>2. Payout(j)' = Payout(j) /\ Payout(j) \in Withdrawals
    BY <1>1, <2>1, SamePayout, CurrentEntry
  <2> DEFINE w == Payout(j)
  <2>3. \/ pc'[j] = pc[j]
        \/ pc[j] = "find" /\ pc'[j] = "lookup" /\ status[w] = "processing"
        \/ pc[j] = "lookup" /\ pc'[j] = "signed"
        \/ pc[j] = "lookup" /\ pc'[j] = "send" /\ w \notin signed
        \/ /\ pc[j] = "advance" /\ pc'[j] = "send"
           /\ status[w] = "pending" /\ status'[w] = "processing"
        \/ pc[j] = "send" /\ pc'[j] = "await"
        \/ pc[j] = "await" /\ pc'[j] \in {"signed", "rejected"}
    BY <1>1, <1>4, Moves
  <2>4. status[w] = "processing" \/ status'[w] = "processing"
    BY <1>4, <2>3 DEF SoleHolds
  <2>5. status'[w] = "processing"
    BY <1>1, <1>4, <2>1, <2>2, <2>4, FinalizeStep DEF OneBusy, Working
  <2>6. pc'[j] \in {"send", "await"} => w \notin signed
    BY <1>1, <2>2, <2>3 DEF SoleHolds, SignerHolds, Advanced, Terminal
  <2>7. pc'[j] \in {"send", "await"} => signed' = signed
    BY <1>1, <1>2, <2>1, SendStep DEF OneBusy, Working
  <2> QED BY <2>2, <2>5, <2>6, <2>7
<1> QED BY <1>3, <1>4 DEF SoleHolds

LEMMA KeepsRefund ==
    ASSUME Core, SoleHolds, RefundHolds, Step, OneBusy, ~OrphansArrive, ~GarbledAnswers
    PROVE  RefundHolds'
<1>1. TypeOK /\ StepsHold
  BY DEF IInv, Core
<1>2. \A w \in Withdrawals : orphans[w] = 0
  BY DEF SoleHolds
<1>3. ASSUME NEW j \in Workers, pc'[j] = "rejected" PROVE Payout(j)' \notin signed'
  <2>1. Working(j) /\ batch'[j] = batch[j] /\ pc[j] \in {"await", "rejected"}
    BY <1>1, <1>3, Moves
  <2>2. Payout(j)' = Payout(j)
    BY <1>1, <2>1, SamePayout
  <2>3. Payout(j) \notin signed
    BY <2>1 DEF SoleHolds, RefundHolds
  <2>4. signed' = signed
    BY <1>1, <1>2, <1>3, <2>1, SendStep DEF OneBusy, Working
  <2> QED BY <2>2, <2>3, <2>4
<1>4. ASSUME NEW w \in Withdrawals, status'[w] = "failed" PROVE w \notin signed'
  <2>1. CASE status[w] = "failed"
    <3>1. w \notin signed
      BY <2>1 DEF RefundHolds
    <3>2. ~\E k \in Workers : pc[k] = "await" /\ Payout(k) = w
      BY <2>1 DEF SoleHolds
    <3> QED BY <1>1, <1>2, <3>1, <3>2, RequestsStep
  <2>2. CASE status[w] # "failed"
    <3>1. PICK k \in Workers : pc[k] = "rejected" /\ Payout(k) = w
      BY <1>1, <1>4, <2>2, FinalizeStep
    <3>2. ~\E j \in Workers : pc[j] = "await"
      BY <3>1 DEF OneBusy, Working
    <3> QED BY <1>1, <1>2, <3>1, <3>2, RequestsStep DEF RefundHolds
  <2> QED BY <2>1, <2>2
<1> QED BY <1>3, <1>4 DEF RefundHolds

LEMMA SoleInvariance == OneWorker /\ ~OrphansArrive /\ Spec => []SoleHolds
<1> SUFFICES ASSUME OneWorker, ~OrphansArrive PROVE Spec => []SoleHolds
  OBVIOUS
<1>1. IInv /\ SoleHolds /\ [Next]_vars => SoleHolds'
  BY KeepsSole, StepOfNext DEF IInv, OneWorker, OneBusy
<1> QED BY <1>1, SoleInit, Invariance, PTL DEF Spec

\* at_most_once: one worker, whose requests do not outlive it, never has the
\* signer send twice, through any number of crashes, lost answers and
\* redeliveries; and what is completed was sent.
THEOREM OneWorkerSendsOnce == OneWorker /\ ~OrphansArrive /\ Spec => []AtMostOneSend
<1> SUFFICES ASSUME OneWorker, ~OrphansArrive PROVE Spec => []AtMostOneSend
  OBVIOUS
<1>1. IInv /\ SoleHolds => AtMostOneSend
  BY DEF IInv, Core, SoleHolds, AtMostOneSend, CompletedWasSent
<1> QED BY <1>1, Invariance, SoleInvariance, PTL

\* "processing -> failed (definite rejection)" (docs/LIFECYCLE.md): with one
\* worker and a signer whose rejections are true, what is refunded was not sent.
THEOREM RefundIsOfUnsent ==
    OneWorker /\ ~OrphansArrive /\ ~GarbledAnswers /\ Spec
        => [](\A w \in Withdrawals : status[w] = "failed" => sends[w] = 0)
<1> SUFFICES ASSUME OneWorker, ~OrphansArrive, ~GarbledAnswers
             PROVE  Spec => [](\A w \in Withdrawals : status[w] = "failed" => sends[w] = 0)
  OBVIOUS
<1>1. IInv /\ SoleHolds /\ RefundHolds /\ [Next]_vars => RefundHolds'
  BY KeepsRefund, StepOfNext DEF IInv, OneWorker, OneBusy
<1>2. SoleHolds /\ RefundHolds => \A w \in Withdrawals : status[w] = "failed" => sends[w] = 0
  BY DEF SoleHolds, RefundHolds
<1> QED BY <1>1, <1>2, SoleInit, Invariance, SoleInvariance, PTL DEF Spec
=============================================================================

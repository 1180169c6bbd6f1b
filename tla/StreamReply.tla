---------------------------- MODULE StreamReply ----------------------------
(***************************************************************************)
(* What the two stream consumers read out of a Redis reply:                 *)
(* parse_xreadgroup_response, the same function in worker/src/main.rs and   *)
(* processor/src/main.rs.  It is written for the reply of XREADGROUP and is *)
(* also given the reply of XAUTOCLAIM, which has another shape; both shapes *)
(* are built here, as the servers of those commands document them and as    *)
(* harness/src/fixtures.rs (autoclaim_ids) reads the second.                *)
(*                                                                          *)
(* A reply is a record with one field that tells its RESP type: Data, Int,  *)
(* Bulk or Nil.  Text is any value: nothing here looks inside it.  A parse  *)
(* is a set, not a sequence: what matters is which entries come out.        *)
(***************************************************************************)
EXTENDS Integers, Sequences

Data(text) == [data |-> text]
Bulk(items) == [bulk |-> items]
Nil == [nil |-> TRUE]

IsBulk(v) == "bulk" \in DOMAIN v
IsData(v) == "data" \in DOMAIN v

\* redis_value_to_string, with the unwrap_or_default its callers apply.
NoText == ""
Text(v) == IF IsData(v) THEN v.data ELSE NoText

\* The elements a loop of the parser does not skip: arrays of exactly two.
PairsIn(v) ==
    IF IsBulk(v) THEN {v.bulk[i] : i \in {j \in 1..Len(v.bulk) :
                                            /\ IsBulk(v.bulk[j])
                                            /\ Len(v.bulk[j].bulk) = 2}}
    ELSE {}

\* Where a field name with a value after it stands; a last odd name is dropped.
NamesIn(fields) ==
    {i \in 1..(Len(fields) - 1) : i % 2 = 1 /\ IsData(fields[i]) /\ IsData(fields[i + 1])}

\* The HashMap of an entry's fields: of two values for a name the later stays.
FieldMap(fields) ==
    [name \in {fields[i].data : i \in NamesIn(fields)} |->
        LET last == CHOOSE i \in NamesIn(fields) :
                       /\ fields[i].data = name
                       /\ \A j \in NamesIn(fields) : fields[j].data = name => j <= i
        IN  fields[last + 1].data]

EntriesOf(s) ==
    {[stream |-> Text(s.bulk[1]), id |-> Text(m.bulk[1]), fields |-> FieldMap(m.bulk[2].bulk)] :
        m \in {x \in PairsIn(s.bulk[2]) : IsBulk(x.bulk[2])}}

\* parse_xreadgroup_response
Parse(v) == UNION {EntriesOf(s) : s \in PairsIn(v)}

\* The entries the caller then handles.
Delivered(v) == {e.id : e \in Parse(v)}

----------------------------------------------------------------------------
(* Replies.  An entry is [id, fields] with fields a sequence of Data.       *)

EntryReply(e) == Bulk(<<Data(e.id), Bulk(e.fields)>>)
EntriesReply(entries) == Bulk([i \in 1..Len(entries) |-> EntryReply(entries[i])])

\* XREADGROUP ... STREAMS stream: one stream, or Nil when BLOCK times out.
ReadGroupReply(stream, entries) ==
    IF entries = <<>> THEN Nil
    ELSE Bulk(<<Bulk(<<Data(stream), EntriesReply(entries)>>)>>)

\* XAUTOCLAIM: [cursor, [[id, [fields...]], ...], [deleted...]].
AutoclaimReply(cursor, entries, deleted) ==
    Bulk(<<Data(cursor), EntriesReply(entries), Bulk([i \in 1..Len(deleted) |-> Data(deleted[i])])>>)

\* The entries a reply carries, as the parser's caller wants them.
Carried(stream, entries) ==
    {[stream |-> stream, id |-> entries[i].id, fields |-> FieldMap(entries[i].fields)] :
        i \in 1..Len(entries)}
=============================================================================

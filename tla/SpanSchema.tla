----------------------------- MODULE SpanSchema -----------------------------
(***************************************************************************)
(* Spans and the LevelDB schema of htraced (datastore.go, span.go).  A     *)
(* span is reduced to its identifier, its two times, its parents and its   *)
(* two text fields.                                                        *)
(* Identifiers are uint64 numbers, times int64 numbers; both widths are    *)
(* scaled down: the signed range is -HalfRange .. HalfRange - 1 and the    *)
(* unsigned one 0 .. 2 * HalfRange - 1, and arithmetic wraps around as it  *)
(* does in Go.                                                             *)
(***************************************************************************)
EXTENDS Integers

CONSTANTS
    HalfRange,   \* 2^63 in the code
    NumShards,   \* the number of data directories
    SpanIds,     \* the span identifiers in use
    Times,       \* the begin and end times in use
    Descriptions, \* the texts in use, as ranks in the order of strings
    Nil          \* a nil *common.Span

ASSUME HalfRangeAssumption == HalfRange \in Nat \ {0}
ASSUME NumShardsAssumption == NumShards \in Nat \ {0}
ASSUME SpanIdsAssumption == SpanIds \subseteq 0 .. (2 * HalfRange - 1)
ASSUME TimesAssumption == Times \subseteq (-HalfRange) .. (HalfRange - 1)

SignedRange == (-HalfRange) .. (HalfRange - 1)
UnsignedRange == 0 .. (2 * HalfRange - 1)

Shards == 0 .. (NumShards - 1)

Span == [id: SpanIds, begin: Times, end: Times, parents: SUBSET SpanIds,
         desc: Descriptions, process: Descriptions]

ASSUME NilAssumption == Nil \notin Span

-----------------------------------------------------------------------------

\* End - Begin in two's complement: the code ignores overflow.
Duration(span) ==
    LET d == span.end - span.begin IN
    IF d >= HalfRange THEN d - 2 * HalfRange
    ELSE IF d < -HalfRange THEN d + 2 * HalfRange
    ELSE d

\* Reinterpret as unsigned, then flip the highest bit.
ToUnsigned(val) == IF val < 0 THEN val + 2 * HalfRange ELSE val
FlipHighBit(u) == IF u < HalfRange THEN u + HalfRange ELSE u - HalfRange
s2u64(val) == FlipHighBit(ToUnsigned(val))

getShardIndex(sid) == sid % NumShards

\* The secondary index keys: [type-code][8b-secondary-key][8b-span-id].
IndexTag == {"p", "b", "e", "d"}
IndexKey == [tag: IndexTag, fir: UnsignedRange, sec: SpanIds]
makeSecondaryKey(tag, fir, sec) == [tag |-> tag, fir |-> fir, sec |-> sec]

\* Every secondary key that writeSpan puts into the batch of a span.
IndexKeys(span) ==
    {makeSecondaryKey("p", parent, span.id) : parent \in span.parents}
    \cup {makeSecondaryKey("b", s2u64(span.begin), span.id),
          makeSecondaryKey("e", s2u64(span.end), span.id),
          makeSecondaryKey("d", s2u64(Duration(span)), span.id)}

\* A LevelDB instance: the records under the prefix s and the index entries.
DB == [data: [SpanIds -> Span \cup {Nil}], index: SUBSET IndexKey]
EmptyDB == [data |-> [id \in SpanIds |-> Nil], index |-> {}]

PutBatch_ForgetsEndTime(db, span) ==
    [data |-> [db.data EXCEPT ![span.id] = span],
     index |-> db.index
               \cup {key \in IndexKeys(span) : key.tag # "e"}]

PutBatch_KeepsOldSpan(db, span) ==
    [data |-> [db.data EXCEPT ![span.id] = IF @ = Nil THEN span ELSE @],
     index |-> db.index \cup IndexKeys(span)]

\* A DB after the batch of a span: its data and every secondary key.
PutBatch(db, span) ==
    [data |-> [db.data EXCEPT ![span.id] = span],
     index |-> db.index \cup IndexKeys(span)]

\* A database of shard s is consistent: each stored span lies under its own id
\* in the shard that getShardIndex names, with every one of its index entries,
\* and every index entry leads to a stored span.
Consistent(s, db) ==
    /\ \A id \in SpanIds : db.data[id] # Nil =>
          /\ db.data[id].id = id
          /\ getShardIndex(id) = s
          /\ IndexKeys(db.data[id]) \subseteq db.index
    /\ \A key \in db.index : db.data[key.sec] # Nil

=============================================================================

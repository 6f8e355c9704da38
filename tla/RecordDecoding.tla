--------------------------- MODULE RecordDecoding ---------------------------
(* One download of rows, from the body of the HTTP response to the records *)
(* that ConcurrentBufferedRecordReader::downloadDataTask returns: the loop *)
(* of that function over ProtoDeserializer::deserializeNext, with the      *)
(* checksums, counts and limits the deserializer checks (stream checksums  *)
(* are off: tunnel.cpp:269).                                               *)
(*                                                                         *)
(* The body is a sequence of items, each one protobuf varint or one        *)
(* length-delimited value: a tag, a value, a length, a flag, a checksum;   *)
(* damage keeps them apart. A scalar column is of a number, BOOLEAN or     *)
(* text type, whose value is kept as it is read; dates, times, MAP and     *)
(* STRUCT are not modelled.                                                *)
EXTENDS Integers, Sequences, SequencesExt

CONSTANTS
  NumColumns,       \* columns of the schema
  ArrayColumns,     \* those of them that are of type ARRAY
  UnreadableArrays, \* those of elements readNestedValue has no case for
  Downloads,        \* what the server may have been asked for: sequences of records
  Items,            \* what columns hold, and what a damaged item may turn into
  MaxDamage,        \* bound: how often a body is damaged
  TotalBytesLimit,  \* mProtobufTotalBytesLimit, in items
  ArrayLimit,       \* the longest array that is read
  Null

VARIABLES
  sent,       \* the records the server encoded
  body,       \* res->body
  damages,    \* how often the body has been damaged
  pos,        \* items of the body that have been read
  limitFrom,  \* where the present CodedInputStream began to count
  current,    \* mCurrentRecord; of an array, the elements read so far
  nullMap,    \* mNullMap: the columns that are present
  recordCrc,  \* mRecordCrc
  crcOfCrc,   \* mCrcOfCrc
  received,   \* mReceivedTotalRecords
  column,     \* the column that is read, or was last
  left,       \* the elements of its array that are still to be read
  records,    \* the records downloadDataTask has gathered
  status      \* "decoding"; "done" and "error" are how downloadDataTask returns

deserializer == <<limitFrom, current, nullMap, recordCrc, crcOfCrc, received, column, left>>
vars == <<sent, body, damages, pos, deserializer, records, status>>

Columns == 1..NumColumns

-----------------------------------------------------------------------------
(* Items. A tag is the field's number above three bits of wire type.       *)

Number(n) == <<"number", n>>

\* The checksum of no update is 0, and 0, FALSE and the empty text travel as
\* that same byte. Any other checksum stands for its updates, as if no two
\* sequences of them had the same and no value, count or tag were equal to one.
Crc(updates) == IF updates = <<>> THEN Number(0) ELSE <<"crc", updates>>
Tag(field) == Number(8 * field)

RECORD_END == 102          \* the reserved field numbers, above any column's
META_TOTAL_RECORDS == 103
META_CHECKSUM == 104

\* A small value has no bit above the wire type: field 0, as a checksum
\* taken for a tag.
FieldNumber(item) == IF item[1] = "number" THEN item[2] \div 8 ELSE 0

(* What a column adds to the record's checksum: its number, and its value, *)
(* of an array only the length.                                            *)
Covered(c, value) == IF c \in ArrayColumns THEN Number(Len(value)) ELSE value

ColumnCrc(c, value) == <<"column", c, Covered(c, value)>>

(* The server's side: every column that is not null in the order of the    *)
(* schema, the end of the record with its checksum; after the last record  *)
(* the number of records and the checksum of the checksums. An element of  *)
(* an array has the flags the deserializer reads: one of its own, and one  *)
(* more before a value.                                                    *)
EncodedElement(element) ==
  IF element = Null THEN <<Number(1)>> ELSE <<Number(0), Number(0), element>>

Elements(array) == FlattenSeq([k \in 1..Len(array) |-> EncodedElement(array[k])])

Payload(c, value) ==
  IF c \in ArrayColumns THEN <<Number(Len(value))>> \o Elements(value) ELSE <<value>>

EncodedColumn(c, value) ==
  IF value = Null THEN <<>> ELSE <<Tag(c)>> \o Payload(c, value)

ColumnUpdates(c, value) == IF value = Null THEN <<>> ELSE <<ColumnCrc(c, value)>>

RecordCrc(record) ==
  Crc(FlattenSeq([c \in Columns |-> ColumnUpdates(c, record[c])]))

EncodedRecord(record) ==
  FlattenSeq([c \in Columns |-> EncodedColumn(c, record[c])])
    \o <<Tag(RECORD_END), RecordCrc(record)>>

DownloadCrc(rs) == Crc([i \in 1..Len(rs) |-> RecordCrc(rs[i])])

EncodedDownload(rs) ==
  FlattenSeq([i \in 1..Len(rs) |-> EncodedRecord(rs[i])])
    \o <<Tag(META_TOTAL_RECORDS), Number(Len(rs)), Tag(META_CHECKSUM), DownloadCrc(rs)>>

\* What a column may hold.
Values(c) == IF c \in ArrayColumns THEN Seq(Items \cup {Null}) ELSE Items

\* What may travel.
BodyItems == Items \cup UNION {Range(EncodedDownload(rs)) : rs \in Downloads}

ASSUME DecodingAssumption ==
  /\ NumColumns \in Nat \ {0} /\ NumColumns < RECORD_END
  /\ ArrayColumns \subseteq Columns /\ UnreadableArrays \subseteq ArrayColumns
  /\ MaxDamage \in Nat /\ TotalBytesLimit \in Nat /\ ArrayLimit \in Nat

\* No column's value is the checksum of an update, nor does an item turn into one.
ASSUME ItemAssumption ==
  /\ \A rs \in Downloads :
       /\ rs \in Seq(Range(rs))
       /\ \A i \in DOMAIN rs : /\ rs[i] = [c \in Columns |-> rs[i][c]]
                                /\ \A c \in Columns : rs[i][c] \in {Null} \cup Values(c)
  /\ \A item \in Items : item[1] # "crc"
  /\ \A item \in BodyItems :
       item[1] = "number" => item[2] \in Nat /\ item = Number(item[2])
  /\ Null \notin BodyItems /\ Null \notin Seq(BodyItems \cup {Null})

-----------------------------------------------------------------------------
EmptyRecord == [c \in Columns |-> Null]

Init ==
  /\ sent \in Downloads
  /\ body = EncodedDownload(sent)
  /\ damages = 0
  /\ pos = 0
  /\ limitFrom = 0
  /\ current = EmptyRecord
  /\ nullMap = {}
  /\ recordCrc = <<>>
  /\ crcOfCrc = <<>>
  /\ received = 0
  /\ column = 1
  /\ left = 0
  /\ records = <<>>
  /\ status = "decoding"

(* On its way the body may be damaged; the deserializer is made when it    *)
(* has arrived as a whole.                                                 *)
Damage(newBody) ==
  /\ status = "decoding"
  /\ pos = 0
  /\ damages < MaxDamage
  /\ body' = newBody
  /\ damages' = damages + 1
  /\ UNCHANGED <<sent, pos, deserializer, records, status>>

\* one item is another one
Alter == \E i \in DOMAIN body, item \in Items : Damage(ReplaceAt(body, i, item))

\* items from i to j are missing: one of them, a record, or the end
Lose == \E i \in DOMAIN body : \E j \in i..Len(body) :
  Damage(SubSeq(body, 1, i - 1) \o SubSeq(body, j + 1, Len(body)))

\* items from i to j come twice
Repeat == \E i \in DOMAIN body : \E j \in i..Len(body) :
  Damage(SubSeq(body, 1, j) \o SubSeq(body, i, Len(body)))

-----------------------------------------------------------------------------
(* Items that can still be read: those of the body, within the limit.      *)
Within(end, limit) == IF end <= limit THEN end ELSE limit
Readable == Within(Len(body), limitFrom + TotalBytesLimit) - pos

Item(i) == body[pos + i]
Field == FieldNumber(Item(1))
AtField == status = "decoding" /\ left = 0 /\ Readable >= 1
AtElement == status = "decoding" /\ left > 0

(* The growth of mInputStream->ByteCount() since the last reset: an        *)
(* ArrayInputStream hands out its array as one block, which a              *)
(* CodedInputStream takes when it is constructed, before the constructor   *)
(* of ProtoDeserializer reads ByteCount() for the first time.              *)
HandedOutSinceReset == 0

(* The head of deserializeNext, which downloadDataTask calls again at      *)
(* once: the limit is renewed if need be, the record starts empty.         *)
PrepareRecord ==
  /\ limitFrom' = IF HandedOutSinceReset > TotalBytesLimit THEN pos' ELSE limitFrom
  /\ current' = EmptyRecord
  /\ nullMap' = {}

Fail ==
  /\ status' = "error"
  /\ records' = <<>>
  /\ UNCHANGED <<sent, body, damages, pos, deserializer>>

\* ReadTag gives 0: no end of stream is expected here
UnexpectedEnd == status = "decoding" /\ left = 0 /\ Readable < 1 /\ Fail

\* Fault: the checksum of a record is read and not compared.
AnyChecksum == TRUE

ChecksumMatches == Item(2) = Crc(recordCrc)

\* Fault: the checksum of a record goes on from that of the last one.
KeepRecordCrc == recordCrc' = recordCrc

ResetRecordCrc == recordCrc' = <<>>

BuildAndReturnRecord ==
  /\ AtField /\ Field = RECORD_END
  /\ Readable >= 2 /\ ChecksumMatches
  /\ records' = Append(records, [c \in Columns |-> IF c \in nullMap THEN current[c] ELSE Null])
  /\ crcOfCrc' = Append(crcOfCrc, Crc(recordCrc))
  /\ ResetRecordCrc
  /\ received' = received + 1
  /\ pos' = pos + 2
  /\ PrepareRecord
  /\ UNCHANGED <<sent, body, damages, column, left, status>>

RejectRecord ==
  /\ AtField /\ Field = RECORD_END
  /\ ~(Readable >= 2 /\ ChecksumMatches)
  /\ Fail

-----------------------------------------------------------------------------
IsColumn(field) == field # 0 /\ field <= NumColumns

(* mNullMap and the checksum take the column and the item that follows its *)
(* tag, which of an array is the number of its elements.                   *)
TakeColumn(value, elements) ==
  /\ nullMap' = nullMap \cup {Field}
  /\ recordCrc' = Append(recordCrc, <<"column", Field, Item(2)>>)
  /\ current' = [current EXCEPT ![Field] = value]
  /\ column' = Field
  /\ left' = elements
  /\ pos' = pos + 2
  /\ UNCHANGED <<sent, body, damages, limitFrom, crcOfCrc, received, records, status>>

ScalarIsReadable == Readable >= 2

ReadScalar ==
  /\ AtField /\ IsColumn(Field) /\ Field \notin ArrayColumns
  /\ ScalarIsReadable
  /\ TakeColumn(Item(2), 0)

\* A checksum taken for a length is beyond the bound.
ArrayIsReadable ==
  /\ Readable >= 2
  /\ Item(2)[1] = "number"
  /\ Item(2)[2] <= ArrayLimit

ReadArray ==
  /\ AtField /\ IsColumn(Field) /\ Field \in ArrayColumns
  /\ ArrayIsReadable
  /\ TakeColumn(<<>>, Item(2)[2])

\* no column has this number, or its value cannot be read
RejectColumn ==
  /\ AtField /\ Field \notin {RECORD_END, META_TOTAL_RECORDS}
  /\ ~ /\ IsColumn(Field)
       /\ IF Field \in ArrayColumns THEN ArrayIsReadable ELSE ScalarIsReadable
  /\ Fail

-----------------------------------------------------------------------------
(* Elements of an array. readComplexValueImpl reads whether one is null,   *)
(* and readNestedValue, which it calls for one that is not, reads that     *)
(* again before the value.                                                 *)
IsSet(flag) == flag # Number(0)

FirstIsSet == Readable >= 1 /\ IsSet(Item(1))
OnlySecondIsSet == Readable >= 2 /\ ~IsSet(Item(1)) /\ IsSet(Item(2))
ValueIsReadable ==
  /\ Readable >= 3 /\ ~IsSet(Item(1)) /\ ~IsSet(Item(2))
  /\ column \notin UnreadableArrays

TakeElement(element, items) ==
  /\ current' = [current EXCEPT ![column] = Append(@, element)]
  /\ left' = left - 1
  /\ pos' = pos + items
  /\ UNCHANGED <<sent, body, damages, limitFrom, nullMap, recordCrc, crcOfCrc, received,
                 column, records, status>>

ReadNull ==
  /\ AtElement
  /\ \/ FirstIsSet /\ TakeElement(Null, 1)
     \/ OnlySecondIsSet /\ TakeElement(Null, 2)

ReadElement == AtElement /\ ValueIsReadable /\ TakeElement(Item(3), 3)

\* the body ends, or the type of the elements is not supported
RejectElement == AtElement /\ ~(FirstIsSet \/ OnlySecondIsSet \/ ValueIsReadable) /\ Fail

-----------------------------------------------------------------------------
CountMatches == Readable >= 2 /\ Item(2) = Number(received)

\* the tag after the count: field 0 when there is none
FieldAfterCount == IF Readable >= 3 THEN FieldNumber(Item(3)) ELSE 0

\* Fault: the final checksum is read and not compared.
AnyFinalChecksum == Readable >= 4

FinalChecksumMatches == Readable >= 4 /\ Item(4) = Crc(crcOfCrc)

\* processMetaTag: the end of the stream, mIsStreamComplete
EndOfStream ==
  /\ AtField /\ Field = META_TOTAL_RECORDS
  /\ CountMatches /\ FieldAfterCount = META_CHECKSUM /\ FinalChecksumMatches
  /\ pos' = pos + 4
  /\ status' = "done"
  /\ UNCHANGED <<sent, body, damages, deserializer, records>>

RejectMeta ==
  /\ AtField /\ Field = META_TOTAL_RECORDS
  /\ ~CountMatches \/ (FieldAfterCount = META_CHECKSUM /\ ~FinalChecksumMatches)
  /\ Fail

\* Another field follows the count: its tag has been read and is dropped,
\* deserializeNext takes what comes next for a tag.
DropTag ==
  /\ AtField /\ Field = META_TOTAL_RECORDS
  /\ CountMatches /\ FieldAfterCount # META_CHECKSUM
  /\ pos' = pos + (IF Readable >= 3 THEN 3 ELSE 2)
  /\ UNCHANGED <<sent, body, damages, deserializer, records, status>>

-----------------------------------------------------------------------------
OnTheWay == Alter \/ Lose \/ Repeat

DeserializeNext ==
  \/ UnexpectedEnd
  \/ BuildAndReturnRecord \/ RejectRecord
  \/ ReadScalar \/ ReadArray \/ RejectColumn
  \/ ReadNull \/ ReadElement \/ RejectElement
  \/ EndOfStream \/ RejectMeta \/ DropTag

\* downloadDataTask has returned
Returned == status # "decoding" /\ UNCHANGED vars

Next == OnTheWay \/ DeserializeNext \/ Returned

Spec == Init /\ [][Next]_vars

-----------------------------------------------------------------------------
(* Properties                                                              *)

\* A record, as far as its checksum tells it from another one.
Seen(record) ==
  [c \in Columns |-> IF record[c] = Null THEN Null ELSE Covered(c, record[c])]

\* However a body is damaged, every record that deserializeNext returns is one the
\* server sent, up to what the checksum covers: items that are lost, repeated or
\* altered never join parts of two records, or leave out a column. One record passes
\* whatever was sent, the one without any value: its checksum is that of nothing, 0, so
\* that a 0 whose tag is altered to RECORD_END ends it (proto_deserializer.cpp:182-192).
DeliveredIsSent ==
  \A i \in DOMAIN records :
    records[i] = EmptyRecord \/ \E j \in DOMAIN sent : Seen(records[i]) = Seen(sent[j])

\* When downloadDataTask returns records they are all those that were sent, once each
\* and in order: the count and the checksum of the checksums hold against whole records
\* that are lost, come twice, or were made up. Only a body that ends before its first
\* record passes whatever was sent: the count and the checksum are then 0, so that the
\* zeros of a row whose tags are altered to META_TOTAL_RECORDS and META_CHECKSUM end it
\* (proto_deserializer.cpp:681-706).
AcceptedIsSent ==
  status = "done" /\ records # <<>> =>
    /\ Len(records) = Len(sent)
    /\ \A i \in DOMAIN sent : Seen(records[i]) = Seen(sent[i])

\* An array that is refused, however it arrives: too long, or with a value
\* readNestedValue has no case for.
IsRefused(c, value) ==
  /\ c \in ArrayColumns /\ value # Null
  /\ \/ Len(value) > ArrayLimit
     \/ c \in UnreadableArrays /\ \E k \in DOMAIN value : value[k] # Null

\* The limit on the length is protobuf's for one CodedInputStream, which is never
\* renewed: HandedOutSinceReset.
Undamaged ==
  /\ damages = 0 /\ Len(body) <= TotalBytesLimit
  /\ \A i \in DOMAIN sent, c \in Columns : ~IsRefused(c, sent[i][c])

\* A body that arrives as it was sent is read to its end, and what is read is what was
\* sent, elements and nulls of arrays included: what one record, column or element
\* leaves in the deserializer does not spoil the next. Undamaged names the bodies for
\* which this does not hold; for the longer of them the comment "Handle
\* CodedInputStream's size limit by recreating it if necessary"
\* (proto_deserializer.cpp:121) says that it should.
UndamagedIsRead ==
  Undamaged => status # "error" /\ (status = "done" => records = sent)
=============================================================================

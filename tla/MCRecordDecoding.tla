-------------------------- MODULE MCRecordDecoding --------------------------
(* RecordDecoding for three columns, a scalar, an array, and an array of   *)
(* elements that cannot be read, and downloads of up to two records; any   *)
(* single item may turn into a value or a tag.                             *)
EXTENDS RecordDecoding

Row(scalar, array, unreadable) == <<scalar, array, unreadable>>
Zero == Number(0)
Two == Number(2)

\* Of 4 to 14 items, the last more than the limit of protobuf. The two before it
\* are refused, one for the length of an array and one for its elements.
SomeDownloads == {
  <<>>,
  <<Row(Null, Null, Null), Row(Null, <<Null>>, Null)>>,
  <<Row(Null, <<>>, Null), Row(Zero, Null, Null)>>,
  <<Row(Null, <<Null, Two>>, Null)>>,
  <<Row(Null, Null, <<Null>>)>>,
  <<Row(Null, <<Null, Null, Null>>, Null)>>,
  <<Row(Null, Null, <<Two>>)>>,
  <<Row(Zero, <<>>, Null), Row(Two, Null, Null)>>}

AnyItem == {Zero, Two} \cup {Tag(f) : f \in 1..2 \cup {RECORD_END, META_TOTAL_RECORDS, META_CHECKSUM}}
=============================================================================

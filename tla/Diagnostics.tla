---------------------------- MODULE Diagnostics ----------------------------
(***************************************************************************)
(* The diagnostic records of a handle and the four calls that read them.   *)
(* The handle is a valid one (module HandleLifecycle has the others).      *)
(*                                                                         *)
(* A record is its message; SQLSTATE and native error have a fixed size.   *)
(* A null pointer for a text reads like a buffer of size 0.                *)
(***************************************************************************)
EXTENDS TextOut

CONSTANTS Messages,          \* texts of the records
          ConnectionNames,   \* what the connection may be called
          DiagSizes          \* sizes of the buffers the records are read into

\* A size is a SQLSMALLINT.
ASSUME MessageAssumption ==
  /\ Messages \cup ConnectionNames \subseteq Text
  /\ DiagSizes \subseteq 0 .. LengthMax

VARIABLES
  records,   \* m_diag_records of the handle
  reading    \* the last call that read a record: what it was asked and what it did

diagVars == <<records, reading>>

Unread == [call |-> "none", code |-> "SUCCESS", source |-> << >>, size |-> 0,
           out |-> Nothing(0)]

DiagInit == records = << >> /\ reading = Unread

\* Nothing ever removes a record: the first one is of the oldest call.
addDiagRecord(message) == records' = Append(records, message)

Read(call, code, source, size, out) ==
  /\ reading' = [call |-> call, code |-> code, source |-> source, size |-> size,
                 out |-> out]
  /\ UNCHANGED records

ReadNothing(call, code) == Read(call, code, << >>, 0, Nothing(0))

Told(cut) == IF cut THEN "SUCCESS_WITH_INFO" ELSE "SUCCESS"

-----------------------------------------------------------------------------
(* SQLGetDiagRec                                                           *)

\* Fault: off by one.
NarrowCutBySize(text, size) == size > 0 /\ Bytes(text) > size

NarrowCut(text, size) == size > 0 /\ Bytes(text) > size - 1

GetDiagRec(n, size) ==
  \/ n < 1 /\ ReadNothing("SQLGetDiagRec", "ERROR")
  \/ n > Len(records) /\ ReadNothing("SQLGetDiagRec", "NO_DATA")
  \/ /\ n \in DOMAIN records
     /\ LET text == records[n]
        IN  Read("SQLGetDiagRec", Told(NarrowCut(text, size)), text, size,
                 CopyBytes(text, size))

\* The bytes a wide text needs, as StdStringToOdbcWString reports them: without the
\* terminator, and in a SQLSMALLINT.
Required(text) == StdStringToOdbcWString(text, 0).length

\* The size and the length are in characters.  The size in bytes is cast to a
\* SQLSMALLINT: where that makes it negative, nothing is written.
GetDiagRecW(n, size) ==
  \/ n < 1 /\ ReadNothing("SQLGetDiagRecW", "ERROR")
  \/ n > Len(records) /\ ReadNothing("SQLGetDiagRecW", "NO_DATA")
  \/ /\ n \in DOMAIN records
     /\ LET text == records[n]
            out == StdStringToOdbcWString(text, AsSmallInt(2 * size))
        IN  Read("SQLGetDiagRecW", Told(size > 0 /\ Required(text) \div 2 > size), text,
                 2 * size, [out EXCEPT !.length = @ \div 2])

SQLGetDiagRec  == \E n \in 0 .. Len(records) + 1, size \in DiagSizes : GetDiagRec(n, size)
SQLGetDiagRecW == \E n \in 0 .. Len(records) + 1, size \in DiagSizes : GetDiagRecW(n, size)

-----------------------------------------------------------------------------
(* SQLGetDiagField                                                         *)

NumberFields == {"NATIVE", "ROW_NUMBER", "COLUMN_NUMBER"}
TextFields == {"CLASS_ORIGIN", "SUBCLASS_ORIGIN", "CONNECTION_NAME", "MESSAGE_TEXT"}

Origin == [i \in 1 .. 8 |-> 1]      \* "ODBC 3.0"
SqlState == [i \in 1 .. 5 |-> 1]

TextsOf(field, n) ==
  CASE field = "MESSAGE_TEXT" -> {records[n]}
    [] field = "CONNECTION_NAME" -> ConnectionNames
    [] OTHER -> {Origin}

\* The number of records is the only field of the header, whatever the record number.
Header(call) ==
  \/ ReadNothing(call, "SUCCESS")      \* SQL_DIAG_NUMBER
  \/ ReadNothing(call, "ERROR")        \* another field, and no record to look for it in

\* The size is in bytes, in the wide form too.
WideCut(text, size) == size > 0 /\ Required(text) > size

\* A SQLSTATE needs room for all of it.
GetDiagField(call, n, field, size, wide) ==
  \/ n > Len(records) /\ ReadNothing(call, "NO_DATA")
  \/ /\ n \in DOMAIN records
     /\ \/ field \in NumberFields /\ ReadNothing(call, "SUCCESS")
        \/ /\ field \in TextFields
           /\ \E text \in TextsOf(field, n) :
                IF wide
                THEN Read(call, Told(WideCut(text, size)), text, size,
                          StdStringToOdbcWString(text, size))
                ELSE Read(call, Told(NarrowCut(text, size)), text, size,
                          CopyBytes(text, size))
        \/ /\ field = "SQLSTATE"
           /\ LET unit == IF wide THEN 2 ELSE 1
              IN  Read(call, "SUCCESS", SqlState, size,
                       IF size >= 6 * unit
                       THEN [text |-> SqlState, used |-> 6 * unit, length |-> 5 * unit]
                       ELSE Nothing(5 * unit))
        \/ field = "other" /\ ReadNothing(call, "ERROR")

Fields == NumberFields \cup TextFields \cup {"SQLSTATE", "other"}

SQLGetDiagField ==
  \/ Header("SQLGetDiagField")
  \/ \E n \in 1 .. Len(records) + 1, field \in Fields, size \in DiagSizes :
       GetDiagField("SQLGetDiagField", n, field, size, FALSE)

SQLGetDiagFieldW ==
  \/ Header("SQLGetDiagFieldW")
  \/ \E n \in 1 .. Len(records) + 1, field \in Fields, size \in DiagSizes :
       GetDiagField("SQLGetDiagFieldW", n, field, size, TRUE)

DiagNext == SQLGetDiagRec \/ SQLGetDiagRecW \/ SQLGetDiagField \/ SQLGetDiagFieldW

-----------------------------------------------------------------------------
(* Properties                                                              *)

WideCall == reading.call \in {"SQLGetDiagRecW", "SQLGetDiagFieldW"}

\* A wide buffer of one byte, of which StdStringToOdbcWString takes no limit (utils.h
\* 210).
OneByte == WideCall /\ reading.size = 1

\* What is read fits into the buffer with its terminator, except into one byte, and it
\* begins like the text.
ReadFits ==
  /\ OneByte \/ reading.out.used <= reading.size
  /\ IsPrefix(reading.out.text, reading.source)

\* A buffer that has no room for a SQLSTATE is left as it is.
NoRoomForSqlState == reading.source = SqlState /\ reading.out.used = 0

\* The wide calls lose text and return SQL_SUCCESS in three cases, against what their
\* comment promises ("If the message was truncated due to buffer size, return
\* SQL_SUCCESS_WITH_INFO", entry_points.cpp 2526-2527).  The bytes of the UTF-8 text are
\* compared with a size that is to hold UTF-16 and a terminator: the last character may
\* be missing (2529-2538, 3012-3017).  The size of SQLGetDiagRecW in bytes is no
\* SQLSMALLINT: nothing is written (2511-2514).  The bytes the text needs are no
\* SQLSMALLINT: the comparison goes wrong (utils.h 203-204).
LostUntold ==
  /\ WideCall
  /\ \/ Len(reading.out.text) + 1 = Len(reading.source)
     \/ reading.call = "SQLGetDiagRecW" /\ reading.size > LengthMax
     \/ 2 * Bytes(reading.source) > LengthMax

\* A text that comes back in a buffer with SQL_SUCCESS is whole, whatever its characters
\* and the size, but for the losses of the wide calls named above.
NoTextLostUntold ==
  reading.code = "SUCCESS" /\ reading.size > 0 =>
    reading.out.text = reading.source \/ NoRoomForSqlState \/ LostUntold

=============================================================================

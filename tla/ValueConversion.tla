-------------------------- MODULE ValueConversion --------------------------
(***************************************************************************)
(* A statement hands the columns of a row to the application: SQLBindCol,  *)
(* SQLFetch and SQLGetData with the conversion of every type of value to   *)
(* every C type (convertAndWrite), and the diagnostics of its failures.    *)
(* Where the rows come from is left to module Statement.                   *)
(*                                                                         *)
(* Numbers are counted in halves, so that 3 is one and a half: a double is *)
(* any of them that has few enough bits, the other types have the even     *)
(* ones.  A value is a record of its type, its value (a number, a day, a   *)
(* moment, or the number that the whole of a string is) and its text.  For *)
(* a double there is the number its text stands for, as std::to_string     *)
(* writes six decimals; for a string there is what std::stod and std::stol *)
(* read, which take a number that the string begins with.  A day is the    *)
(* moment of its midnight.                                                 *)
(***************************************************************************)
EXTENDS Diagnostics, Integers

CONSTANTS Rows,         \* the rows the result may have: sequences of values
          Bindings,     \* what SQLBindCol is given: the C type, the size of the
                        \* buffer, whether there is an indicator
          Charsets,     \* charsets of the client: character |-> bytes
          ShortMax, LongMax, BigMax,   \* the greatest value of each integer type
          DoubleMax,    \* up to here a double holds every integer
          MomentMax,    \* the last moment that 64 bits of nanoseconds reach
          MaxRows, MaxRecords,         \* bounds: rows fetched, records added
          NoNumber,     \* a string that is none
          Unbound,
          None          \* no row; nothing written

Columns == {1, 2}

VARIABLES
  charset,    \* clientCharset of the connection
  bindings,   \* m_bindings: column |-> binding
  row,        \* m_current_row
  fetched,    \* history: rows fetched
  buffers,    \* the application's buffers: column |-> row it was written for, content
  got,        \* the last SQLGetData: column, binding, content
  answer      \* the last call of the statement and its return code

vars == <<diagVars, charset, bindings, row, fetched, buffers, got, answer>>

Init ==
  /\ DiagInit
  /\ charset \in Charsets
  /\ bindings = [c \in Columns |-> Unbound]
  /\ row = None
  /\ fetched = 0
  /\ buffers = [c \in Columns |-> [row |-> 0, content |-> None]]
  /\ got = None
  /\ answer = [call |-> "none", code |-> "SUCCESS"]

-----------------------------------------------------------------------------
(* Numbers                                                                 *)

Within(number, max) == -2 * (max + 1) <= number /\ number <= 2 * max

\* Towards zero.
Truncated(number) ==
  IF number >= 0 THEN 2 * (number \div 2) ELSE -2 * (-number \div 2)

\* The nearest double of an integer; of two, the one whose last bit is 0.
AsDouble(number) ==
  LET below == 4 * (number \div 4)
  IN  CASE number \in -2 * DoubleMax .. 2 * DoubleMax -> number
        [] number \notin -2 * DoubleMax .. 2 * DoubleMax /\ number = below -> number
        [] OTHER -> IF below % 8 = 0 THEN below ELSE below + 4

-----------------------------------------------------------------------------
(* Values and bindings                                                     *)

Whole == {"short", "int", "int64", "bool"}
Numeric == Whole \cup {"double"}

Value ==
  [type : {"null"}]
    \cup [type : Whole \cup {"date", "timestamp", "other"}, value : Int, text : Text]
    \cup [type : {"double"}, value : Int, shown : Int, text : Text]
    \cup [type : {"string"}, value : Int \cup {NoNumber}, stod : Int \cup {NoNumber},
          stol : Int \cup {NoNumber}, yes : BOOLEAN, text : Text]

Binding ==
  [target : {"SSHORT", "SLONG", "SBIGINT", "DOUBLE", "BIT", "DATE", "TIMESTAMP", "CHAR",
             "WCHAR", "other"},
   size : Nat, indicator : BOOLEAN]

\* What is written: a number, that there is none, or a text, of what, and its bytes.
Contents ==
  [value : Int] \cup [null : {TRUE}]
    \cup [text : Text, used : Nat, of : Int \cup {NoNumber, None}]

\* A double is one already, and a whole one needs no decimals.
ASSUME ConversionAssumption ==
  /\ Rows \subseteq [Columns -> Value]
  /\ \A r \in Rows : \A c \in Columns :
       r[c].type = "double" =>
         /\ AsDouble(r[c].value) = r[c].value
         /\ r[c].value % 2 = 0 => r[c].shown = r[c].value
  /\ Bindings \in [Columns -> SUBSET Binding]
  /\ Charsets \subseteq [1 .. 4 -> Nat]
  /\ {ShortMax, LongMax, DoubleMax, BigMax, MomentMax} \subseteq Nat
  /\ ShortMax <= LongMax /\ LongMax <= DoubleMax /\ BigMax = 2 * DoubleMax - 1
  /\ NoNumber \notin Int
  /\ None \notin Contents

-----------------------------------------------------------------------------
(* convertAndWrite: the outcomes of writing one value                      *)

Wrote(code, content) == [code |-> code, content |-> content]
Fails == Wrote("ERROR", None)
Plain(number) == Wrote("SUCCESS", [value |-> number])

\* SQL_C_SSHORT and SQL_C_SLONG.
ToInteger(v, max) ==
  CASE v.type \in Numeric /\ Within(v.value, max) -> {Plain(Truncated(v.value))}
    [] v.type = "string" /\ v.stol # NoNumber /\ Within(v.stol, max) ->
         {Plain(v.stol)}
    [] OTHER -> {Fails}

\* A double is compared with the nearest double of the limit, which is beyond it; what
\* the cast makes of it then is undefined, and machines differ.
ToBigInt(v) ==
  CASE v.type = "double" /\ v.value > 2 * BigMax /\ v.value <= AsDouble(2 * BigMax) ->
         {Plain(2 * BigMax), Plain(-2 * (BigMax + 1))}
    [] OTHER -> ToInteger(v, BigMax)

ToDouble(v) ==
  CASE v.type \in Numeric -> {Plain(AsDouble(v.value))}
    [] v.type = "string" /\ v.stod # NoNumber -> {Plain(v.stod)}
    [] OTHER -> {Fails}

\* A string that neither begins with a number nor is a word for true is false.
ToBit(v) ==
  CASE v.type \in Numeric -> {Plain(IF v.value # 0 THEN 2 ELSE 0)}
    [] v.type = "string" ->
         {Plain(IF v.yes \/ v.stod \notin {NoNumber, 0} THEN 2 ELSE 0)}
    [] OTHER -> {Fails}

\* to_sql_timestamp counts in nanoseconds, and the count wraps.
Moment(moment) == ((moment + MomentMax + 1) % (2 * (MomentMax + 1))) - MomentMax - 1

ToDate(v) == IF v.type = "date" THEN {Plain(v.value)} ELSE {Fails}

ToTimestamp(v) ==
  CASE v.type = "timestamp" -> {Plain(Moment(v.value))}
    [] v.type = "date" -> {Plain(v.value)}
    [] OTHER -> {Fails}

\* The text of a value, and what it is the text of: a moment may have wrapped, a double
\* may have lost decimals, and a type that is not foreseen has a text that says so.
TextOf(v, foreseen) ==
  CASE v.type = "timestamp" -> [text |-> v.text, of |-> Moment(v.value)]
    [] v.type = "double" -> [text |-> v.text, of |-> v.shown]
    [] v.type \in foreseen \ {"timestamp", "double"} -> [text |-> v.text, of |-> v.value]
    [] OTHER -> [text |-> <<1, 1>>, of |-> None]

Texts == {"string", "int64", "double", "bool", "date", "timestamp"}

Content(source, out) ==
  IF out.used = 0 THEN None ELSE [text |-> out.text, used |-> out.used, of |-> source.of]

ToChar(v, size) ==
  LET source == TextOf(v, Texts)
      out == WriteUtf8AsCharset(charset, source.text, size)
      cut == IF size = 0 THEN out.length > 0 ELSE out.length > size - 1
  IN  {Wrote(Told(cut), Content(source, out))}

\* The limit is on UTF-16 units; whatever does not fit is left out.
ToWChar(v, size) ==
  LET source == TextOf(v, Texts \cup {"int", "short"})
      written == Utf8ToUtf16(source.text, RoomFor(source.text, size))
      used == 2 * (Units(written) + 1)
  IN  {Wrote("SUCCESS", [text |-> written, used |-> used, of |-> source.of])}

\* A null is told by the indicator, if there is one.
convertAndWrite(v, b) ==
  CASE v.type = "null" ->
         {Wrote("SUCCESS", IF b.indicator THEN [null |-> TRUE] ELSE None)}
    [] v.type # "null" /\ b.target = "SSHORT" -> ToInteger(v, ShortMax)
    [] v.type # "null" /\ b.target = "SLONG" -> ToInteger(v, LongMax)
    [] v.type # "null" /\ b.target = "SBIGINT" -> ToBigInt(v)
    [] v.type # "null" /\ b.target = "DOUBLE" -> ToDouble(v)
    [] v.type # "null" /\ b.target = "BIT" -> ToBit(v)
    [] v.type # "null" /\ b.target = "DATE" -> ToDate(v)
    [] v.type # "null" /\ b.target = "TIMESTAMP" -> ToTimestamp(v)
    [] v.type # "null" /\ b.target = "CHAR" -> ToChar(v, b.size)
    [] v.type # "null" /\ b.target = "WCHAR" -> ToWChar(v, b.size)
    [] OTHER -> {Fails}

-----------------------------------------------------------------------------
(* The calls                                                               *)

Return(call, code) == answer' = [call |-> call, code |-> code]

NothingBound == \A c \in Columns : bindings[c] = Unbound

\* A failure of the statement's own, which it explains.  To bound the model, failures
\* come before columns are bound, and columns are bound when there was none: neither
\* changes what the other does.
Explained(call) ==
  /\ fetched = 0 /\ NothingBound
  /\ Len(records) < MaxRecords
  /\ \E message \in Messages : addDiagRecord(message)
  /\ Return(call, "ERROR")
  /\ UNCHANGED <<reading, charset, bindings, row, fetched, buffers, got>>

\* Columns are bound before the first row, too.
SQLBindCol ==
  /\ fetched = 0
  /\ \/ Explained("SQLBindCol")     \* column 0
     \/ /\ records = << >>
        /\ \E c \in Columns : \E b \in Bindings[c] :
             /\ bindings[c] = Unbound
             /\ bindings' = [bindings EXCEPT ![c] = b]
        /\ Return("SQLBindCol", "SUCCESS")
        /\ UNCHANGED <<diagVars, charset, row, fetched, buffers, got>>

\* What may become of every column of the row; one that is not bound is passed over.
Outcomes(r) ==
  LET Of(c) == IF bindings[c] = Unbound THEN {Wrote("SUCCESS", None)}
               ELSE convertAndWrite(r[c], bindings[c])
  IN  {<<first, second>> : first \in Of(1), second \in Of(2)}

\* Fault: a conversion that fails is passed over.
DeliverAll(outcomes) == [upTo |-> 2, code |-> "SUCCESS"]

\* The columns are converted in order, up to the first that is not a plain success:
\* a text that is cut is a failure of the row.
Deliver(outcomes) ==
  LET bad == {c \in Columns : outcomes[c].code # "SUCCESS"}
  IN  IF bad = {} THEN [upTo |-> 2, code |-> "SUCCESS"]
      ELSE [upTo |-> Min(bad), code |-> "ERROR"]

\* The row is gone from the stream whatever becomes of it, and of a conversion that
\* fails there is no record.
FetchRow ==
  /\ records = << >>
  /\ fetched < MaxRows
  /\ fetched' = fetched + 1
  /\ \E r \in Rows :
       /\ row' = r
       /\ \E outcomes \in Outcomes(r) :
            LET delivered == Deliver(outcomes)
            IN  /\ buffers' =
                     [c \in Columns |->
                        IF c <= delivered.upTo /\ outcomes[c].content # None
                        THEN [row |-> fetched', content |-> outcomes[c].content]
                        ELSE buffers[c]]
                /\ Return("SQLFetch", delivered.code)
  /\ got' = None
  /\ UNCHANGED <<diagVars, charset, bindings>>

\* The stream has no more rows.
FetchEnd ==
  /\ fetched = MaxRows
  /\ row' = None
  /\ Return("SQLFetch", "NO_DATA")
  /\ UNCHANGED <<diagVars, charset, bindings, fetched, buffers, got>>

SQLFetch == FetchRow \/ FetchEnd \/ Explained("SQLFetch")

\* Every call begins with the first character: a text cannot be read in parts.  An
\* application gets the columns it has not bound.
GetColumn ==
  /\ row # None
  /\ \E c \in Columns : \E b \in Bindings[c] : \E outcome \in convertAndWrite(row[c], b) :
       /\ bindings[c] = Unbound
       /\ got' = [column |-> c, binding |-> b, content |-> outcome.content]
       /\ Return("SQLGetData", IF outcome.code = "SUCCESS" THEN "SUCCESS" ELSE "ERROR")
  /\ UNCHANGED <<diagVars, charset, bindings, row, fetched, buffers>>

SQLGetData == GetColumn \/ Explained("SQLGetData")

\* The diagnostics are read when the failures happen.
Diagnose ==
  /\ fetched = 0 /\ NothingBound
  /\ DiagNext
  /\ UNCHANGED <<charset, bindings, row, fetched, buffers, got, answer>>

Next == SQLBindCol \/ SQLFetch \/ SQLGetData \/ Diagnose

Spec == Init /\ [][Next]_vars

-----------------------------------------------------------------------------
(* Properties                                                              *)

Integral == {"SSHORT", "SLONG", "SBIGINT"}
Letters == {"CHAR", "WCHAR"}

\* What is written into a buffer of the application stays within it, the terminator
\* included, whatever the value and the charset (conversions.cpp 199-216, 625-685;
\* encoding.cpp 39-66, 190-230; utils.h 88-138), and the same holds for the diagnostic
\* calls.  The exception is a wide text for a buffer of 0 or 1 bytes, which has no limit
\* (conversions.cpp 633-635), as OneByte has none (utils.h 210).
WrittenFits ==
  LET Fits(content, b) ==
        (b.target \in Letters /\ content # None /\ "used" \in DOMAIN content)
          => content.used <= b.size \/ (b.target = "WCHAR" /\ b.size < 2)
  IN  /\ ReadFits
      /\ \A c \in Columns : bindings[c] # Unbound => Fits(buffers[c].content, bindings[c])
      /\ got # None => Fits(got.content, got.binding)

\* The content a value should have in a buffer of the application: of a number, an
\* integer keeps the whole part; of a text, everything.
Faithful(v, b, content) ==
  CASE v.type = "null" -> content = [null |-> TRUE]
    [] v.type # "null" /\ b.target \in Integral ->
         v.value # NoNumber /\ content.value = Truncated(v.value)
    [] v.type # "null" /\ b.target = "BIT" ->
         content.value # 0 <=> (v.type = "string" /\ v.yes) \/ v.value \notin {NoNumber, 0}
    [] v.type # "null" /\ b.target \in Letters ->
         content.text = v.text /\ content.of = v.value
    [] OTHER -> content.value = v.value

\* A string of which std::stol or std::stod makes another number than the string is: it
\* only begins with one, or they cannot hold it or understand all of it.
MisreadNumber(v, b) ==
  /\ v.type = "string"
  /\ \/ b.target \in {"DOUBLE", "BIT"} /\ v.stod # v.value
     \/ /\ b.target \in Integral /\ v.stol # NoNumber
        /\ v.value = NoNumber \/ v.stol # Truncated(v.value)

\* A text that is not the value's: of a moment out of reach, a double that needs more
\* than six decimals, a type that is not foreseen; or that is not all there: characters
\* the charset does not have, a wide text that is cut, no buffer.
PoorText(v, b) ==
  \/ b.target \in Letters /\ v.type = "double" /\ v.shown # v.value
  \/ b.target = "CHAR" /\ v.type \in {"int", "short", "other"}
  \/ b.target = "CHAR" /\ v.type # "null" /\ Representable(charset, v.text) # v.text
  \/ b.target = "CHAR" /\ b.size = 0
  \/ b.target = "WCHAR" /\ v.type = "other"
  \/ b.target = "WCHAR" /\ v.type # "null" /\ 2 * (Units(v.text) + 1) > b.size

\* Where the application is given something else and not told: besides the above, a null
\* without an indicator, a double just beyond the greatest BIGINT, an integer no double
\* holds, a moment out of the reach of 64 bits of nanoseconds.
KnownLoss(v, b) ==
  \/ v.type = "null" /\ ~b.indicator
  \/ b.target = "SBIGINT" /\ v.type = "double" /\ v.value > 2 * BigMax
  \/ b.target = "DOUBLE" /\ v.type \in Whole /\ v.value \notin -2 * DoubleMax .. 2 * DoubleMax
  \/ v.type = "timestamp" /\ v.value \notin -MomentMax - 1 .. MomentMax
  \/ MisreadNumber(v, b)
  \/ PoorText(v, b)

\* A row of SQLFetch that succeeds is in the bound buffers as it is, every column of this
\* row and none left from an earlier one; so is the column of a SQLGetData that succeeds;
\* but for the losses above: whatever else cannot be converted, or is cut, makes the
\* call fail, and no later column hides it (handles.cpp 310-327, 745-754).
DeliveredAsItIs ==
  answer.code = "SUCCESS" =>
    /\ answer.call = "SQLFetch" =>
         \A c \in Columns : bindings[c] # Unbound =>
           \/ KnownLoss(row[c], bindings[c])
           \/ /\ buffers[c].row = fetched
              /\ Faithful(row[c], bindings[c], buffers[c].content)
    /\ answer.call = "SQLGetData" =>
         \/ KnownLoss(row[got.column], got.binding)
         \/ Faithful(row[got.column], got.binding, got.content)

=============================================================================

---------------------------- MODULE MCConversion ----------------------------
(* ValueConversion on an instance TLC can enumerate.                       *)
EXTENDS ValueConversion

Val(type, value, text) == [type |-> type, value |-> value, text |-> text]
Double(value, shown, text) ==
  [type |-> "double", value |-> value, shown |-> shown, text |-> text]
String(value, stod, stol, yes, text) ==
  [type |-> "string", value |-> value, stod |-> stod, stol |-> stol, yes |-> yes,
   text |-> text]

Numbers ==
  {Val("short", -4, <<1, 1>>), Val("int", 6, <<1>>), Val("int64", 8, <<1>>),
   Val("int64", 10, <<1, 1>>), Val("int64", -10, <<1, 1, 1>>), Val("int64", 14, <<1, 1, 1>>),
   Double(-3, -3, <<1, 1, 1, 1>>), Double(7, 7, <<1, 1, 1>>), Double(16, 16, <<1>>),
   Double(-24, -24, <<1, 1>>), Double(1, 0, <<1, 1, 1>>), Val("bool", 0, <<1>>)}

\* Decimal, exponential, too large, begins with a number, no double, a word for true, no
\* number, empty, every width.
Strings ==
  {String(3, 3, 2, FALSE, <<1, 1, 1>>), String(20, 20, 2, FALSE, <<1, 1, 1>>),
   String(40, 40, 40, FALSE, <<1, 1>>), String(NoNumber, 2, 2, FALSE, <<1, 1>>),
   String(10, 8, 10, FALSE, <<1>>), String(NoNumber, NoNumber, NoNumber, TRUE, <<1, 1, 1>>),
   String(NoNumber, NoNumber, NoNumber, FALSE, << >>),
   String(NoNumber, NoNumber, NoNumber, FALSE, <<1, 2, 3, 4>>),
   String(NoNumber, NoNumber, NoNumber, FALSE, <<4, 3>>)}

Times ==
  {Val("date", 2, <<1, 1, 1>>), Val("timestamp", 3, <<1, 1, 1>>),
   Val("timestamp", 5, <<1, 1, 1>>)}

Others == {[type |-> "null"], Val("other", 0, << >>)}

\* A column that is null behind one that can be converted to anything, and behind a null.
MCRows ==
  {<<v, Val("int64", 2, <<1>>)>> : v \in Numbers \cup Strings \cup Times \cup Others}
    \cup {<<v, [type |-> "null"]>> : v \in {Val("bool", 0, <<1>>), [type |-> "null"]}}

To(targets, sizes, indicators) ==
  [target : targets, size : sizes, indicator : indicators]

MCBindings ==
  <<To({"SSHORT", "SLONG", "SBIGINT", "DOUBLE", "BIT", "DATE", "TIMESTAMP", "other"},
       {0}, {TRUE})
      \cup To({"CHAR"}, {0, 1, 4, 7, 11}, {TRUE}) \cup To({"WCHAR"}, {0, 1, 7, 12}, {TRUE})
      \cup To({"SLONG"}, {0}, {FALSE}),
    To({"SSHORT"}, {0}, {FALSE})>>

\* UTF-8, and one that has no character for those of four bytes.
MCCharsets == {UTF8, <<1, 2, 2, 0>>}

\* The last one needs more bytes than a length can tell.
MCMessages == {<<1, 1, 1>>, <<1, 3, 2, 4>>, <<4, 4, 1, 4, 4>>}
MCConnectionNames == {<<1, 1, 1, 1, 1>>}
=============================================================================

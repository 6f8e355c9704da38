--------------------------- MODULE SettingParser ---------------------------
(***************************************************************************)
(* SettingParser::parse (setting_parser.cpp): the SET statements a query   *)
(* begins with become settings of the request, the rest of the text is the *)
(* query that is run.                                                      *)
(*                                                                         *)
(* A text is a sequence of symbols: the characters the parser looks at,    *)
(* "set" for the three letters in any case, and words for any text without *)
(* these.  Positions count symbols, from 1.                                *)
(***************************************************************************)
EXTENDS Integers, SequencesExt

CONSTANTS Words,     \* texts without a character the parser looks at
          Queries    \* what an application executes

Blank == "blank"
NewLine == "newline"
Backslash == "backslash"

Symbols == {"set", "=", ";", "-", "/", "*", Blank, NewLine, Backslash} \cup Words

ASSUME QueriesAssumption == \A query \in Queries : query \in Seq(Symbols)

VARIABLES text,            \* s: the query, with a semicolon at its end
          state, i,        \* currentState, and the next position
          currentStart,    \* currentStartIndex: the SET statement under way, or 0
          settings, excludeRanges, errors

vars == <<text, state, i, currentStart, settings, excludeRanges, errors>>
found == <<settings, excludeRanges, errors>>

isspace(c) == c \in {Blank, NewLine}

trim(s) ==
  LET written == {n \in DOMAIN s : ~isspace(s[n])}
  IN  IF written = {} THEN << >> ELSE SubSeq(s, Min(written), Max(written))

\* parse: a query whose last character is no semicolon gets one.
Terminated(query) ==
  IF trim(query) = << >> \/ Last(trim(query)) # ";" THEN Append(query, ";") ELSE query

States == {"DEFAULT", "SINGLE_LINE_COMMENT", "MULTI_LINE_COMMENT", "IN_SET",
           "IN_KEY_VALUE", "STOP"}

Init ==
  /\ \E query \in Queries : text = Terminated(query)
  /\ state = "DEFAULT" /\ i = 1 /\ currentStart = 0
  /\ settings = << >> /\ excludeRanges = << >> /\ errors = << >>

-----------------------------------------------------------------------------
(* What stands at a position                                               *)

Pair(s, p, first, second) == p < Len(s) /\ s[p] = first /\ s[p + 1] = second
SetAt(s, p) == s[p] = "set" /\ (p + 1 \in DOMAIN s => isspace(s[p + 1]))

From(s, p) == p .. Len(s)
EndOf(s) == Len(s) + 1

\* The position after the first of ps, which is of width w; the end without one.
After(s, ps, w) == IF ps = {} THEN EndOf(s) ELSE Min(ps) + w

Semicolons(s, p) ==
  {n \in From(s, p) : s[n] = ";" /\ (n = 1 \/ s[n - 1] # Backslash)}

-----------------------------------------------------------------------------
(* parseKeyValue                                                           *)

\* replaceAll(value, "\;", ";").
Unescape(s) ==
  LET kept == SelectSeq([n \in DOMAIN s |-> n],
                LAMBDA n : ~(s[n] = Backslash /\ n < Len(s) /\ s[n + 1] = ";"))
  IN  [k \in DOMAIN kept |-> s[kept[k]]]

Equals(kv) == SelectInSeq(kv, LAMBDA c : c = "=")
KeyOf(kv) == trim(SubSeq(kv, 1, Equals(kv) - 1))
ValueOf(kv) == Unescape(trim(SubSeq(kv, Equals(kv) + 1, Len(kv))))

\* Fault: a setting that is there already stays.
PutIfAbsent(old, key, value) ==
  [k \in DOMAIN old \cup {key} |-> IF k \in DOMAIN old THEN old[k] ELSE value]

Put(old, key, value) ==
  [k \in DOMAIN old \cup {key} |-> IF k = key THEN value ELSE old[k]]

\* Fault: the range goes on to the character after the semicolon.
ExcludeOneMore(from, next) == Append(excludeRanges, [first |-> from, next |-> next + 1])

\* The characters from first up to next are no part of the remaining query.
Exclude(from, next) == Append(excludeRanges, [first |-> from, next |-> next])

parseKeyValue(kv, next) ==
  IF Equals(kv) # 0 /\ KeyOf(kv) # << >>
  THEN /\ settings' = Put(settings, KeyOf(kv), ValueOf(kv))
       /\ excludeRanges' = Exclude(currentStart, next)
       /\ UNCHANGED errors
  ELSE /\ errors' = Append(errors, IF Equals(kv) = 0 THEN "missing =" ELSE "empty key")
       /\ UNCHANGED <<settings, excludeRanges>>

-----------------------------------------------------------------------------
(* extractSetStatements: one action for each state                         *)

In(s) == state = s /\ i \in DOMAIN text

Default ==
  /\ In("DEFAULT")
  /\ \/ Pair(text, i, "-", "-") /\ state' = "SINGLE_LINE_COMMENT" /\ i' = i + 2
        /\ UNCHANGED currentStart
     \/ Pair(text, i, "/", "*") /\ state' = "MULTI_LINE_COMMENT" /\ i' = i + 2
        /\ UNCHANGED currentStart
     \/ SetAt(text, i) /\ state' = "IN_SET" /\ currentStart' = i /\ i' = i + 2
     \/ /\ ~Pair(text, i, "-", "-") /\ ~Pair(text, i, "/", "*") /\ ~SetAt(text, i)
        /\ state' = IF isspace(text[i]) THEN "DEFAULT" ELSE "STOP"
        /\ i' = i + 1 /\ UNCHANGED currentStart
  /\ UNCHANGED <<text, found>>

SingleLineComment ==
  /\ In("SINGLE_LINE_COMMENT")
  /\ i' = After(text, {n \in From(text, i) : text[n] = NewLine}, 1)
  /\ state' = "DEFAULT"
  /\ UNCHANGED <<text, currentStart, found>>

MultiLineComment ==
  LET closes == {n \in From(text, i) : Pair(text, n, "*", "/")}
  IN  /\ In("MULTI_LINE_COMMENT")
      /\ i' = After(text, closes, 2)
      /\ state' = IF closes = {} THEN state ELSE "DEFAULT"
      /\ UNCHANGED <<text, currentStart, found>>

\* The case of a text that ends here does not arise: its last character that is not
\* blank is a semicolon.
InSet ==
  /\ In("IN_SET")
  /\ i' = After(text, {n \in From(text, i) : ~isspace(text[n])}, 0)
  /\ i' # EndOf(text) /\ state' = "IN_KEY_VALUE"
  /\ UNCHANGED <<text, currentStart, found>>

InKeyValue ==
  /\ In("IN_KEY_VALUE")
  /\ i' = After(text, Semicolons(text, i), 1)
  /\ \/ Semicolons(text, i) # {} /\ parseKeyValue(trim(SubSeq(text, i, i' - 2)), i')
     \/ /\ Semicolons(text, i) = {}
        /\ errors' = Append(errors, "missing semicolon")
        /\ UNCHANGED <<settings, excludeRanges>>
  /\ state' = "DEFAULT" /\ currentStart' = 0
  /\ UNCHANGED text

Stop ==
  /\ In("STOP")
  /\ i' = EndOf(text)
  /\ UNCHANGED <<text, state, currentStart, found>>

Return == i >= EndOf(text) /\ UNCHANGED vars

Next ==
  \/ Default \/ SingleLineComment \/ MultiLineComment \/ InSet \/ InKeyValue \/ Stop
  \/ Return

Spec == Init /\ [][Next]_vars

\* What is left when the ranges have been cut out, in their order.
RemainingQuery ==
  LET currentPos(k) == IF k = 0 THEN 1 ELSE excludeRanges[k].next
      kept[k \in 0 .. Len(excludeRanges)] ==
        IF k = 0 THEN << >>
        ELSE kept[k - 1] \o SubSeq(text, currentPos(k - 1), excludeRanges[k].first - 1)
      last == Len(excludeRanges)
  IN  trim(kept[last] \o SubSeq(text, currentPos(last), Len(text)))

-----------------------------------------------------------------------------
(* What a query says                                                       *)

\* Where the blank, comment or SET statement that begins at p ends; 0 if none does.
PieceEnd(s, p) ==
  CASE isspace(s[p])           -> p + 1
    [] Pair(s, p, "-", "-")    -> After(s, {n \in From(s, p + 2) : s[n] = NewLine}, 1)
    [] Pair(s, p, "/", "*")    -> After(s, {n \in From(s, p + 2) : Pair(s, n, "*", "/")}, 2)
    [] SetAt(s, p)             -> After(s, {n \in From(s, p + 1) :
                                              s[n] = ";" /\ s[n - 1] # Backslash}, 1)
    [] OTHER                   -> 0

\* The beginnings of the pieces at the start of the text, each where the last one ends.
Starts(s) ==
  LET upto[n \in 0 .. EndOf(s)] ==
        IF n = 0 THEN {}
        ELSE LET before == upto[n - 1]
             IN  IF n = 1 \/ \E p \in before : PieceEnd(s, p) = n
                 THEN before \cup {n} ELSE before
  IN  upto[EndOf(s)]

\* The SET statements before the first statement of another kind.
Leading(s) == {p \in Starts(s) \cap DOMAIN s : SetAt(s, p)}

\* The assignment of the SET statement at p: key and value, or what is wrong with it.
Meaning(s, p) ==
  LET last == PieceEnd(s, p) - 1
      body == IF s[last] # ";" \/ s[last - 1] = Backslash THEN {} ELSE p + 1 .. last - 1
      equals == {n \in body : s[n] = "="}
      key == trim(SubSeq(s, p + 1, Min(equals) - 1))
  IN  CASE body = {}   -> [error |-> "missing semicolon"]
        [] body # {} /\ equals = {} -> [error |-> "missing ="]
        [] equals # {} /\ key = << >> -> [error |-> "empty key"]
        [] equals # {} /\ key # << >> ->
             [error |-> "", key |-> key,
              value |-> Unescape(trim(SubSeq(s, Min(equals) + 1, last - 1)))]

Assignments(s) == {p \in Leading(s) : Meaning(s, p).error = ""}

\* The members of ps up to N, in order.
InOrder(ps, N) ==
  LET upto[n \in 0 .. N] ==
        IF n = 0 THEN << >>
        ELSE IF n \in ps THEN Append(upto[n - 1], n) ELSE upto[n - 1]
  IN  upto[N]

(***************************************************************************)
(* When the parser has come to the end, its settings are those of the      *)
(* leading SET statements, the last one of a key deciding; a statement     *)
(* that is no assignment is reported, in order, and stays in the query;    *)
(* and the query that is run is the text without the assignments, comments *)
(* included (setting_parser.cpp, parse).                                   *)
(***************************************************************************)
ParsedAsMeant ==
  i >= EndOf(text) =>
    LET good == Assignments(text)
        bad == InOrder(Leading(text) \ good, Len(text))
        rest == InOrder(DOMAIN text \ UNION {p .. PieceEnd(text, p) - 1 : p \in good},
                        Len(text))
    IN  /\ DOMAIN settings = {Meaning(text, p).key : p \in good}
        /\ \A key \in DOMAIN settings :
             settings[key] =
               Meaning(text, Max({p \in good : Meaning(text, p).key = key})).value
        /\ errors = [k \in DOMAIN bad |-> Meaning(text, bad[k]).error]
        /\ RemainingQuery = trim([k \in DOMAIN rest |-> text[rest[k]]])

(***************************************************************************)
(* Nothing but SET statements is taken out of a query: a range begins with *)
(* "set", ends with its first semicolon that is not escaped, and no two    *)
(* ranges overlap (setting_parser.cpp, excludeRanges).                     *)
(***************************************************************************)
OnlySetsRemoved ==
  /\ \A k \in DOMAIN excludeRanges :
       LET r == excludeRanges[k]
       IN  /\ r.first \in DOMAIN text /\ r.next - 1 \in DOMAIN text /\ r.first < r.next
           /\ SetAt(text, r.first) /\ text[r.next - 1] = ";"
           /\ \A n \in r.first + 1 .. r.next - 2 :
                text[n] = ";" => text[n - 1] = Backslash
  /\ \A k, l \in DOMAIN excludeRanges :
       k < l => excludeRanges[k].next <= excludeRanges[l].first
=============================================================================

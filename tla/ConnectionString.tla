-------------------------- MODULE ConnectionString --------------------------
(***************************************************************************)
(* The three parsers of connection strings (config.cpp) and the rules a    *)
(* configuration is checked by.                                            *)
(*                                                                         *)
(* A string is a sequence of tokens: the separators "=" and ";", a double  *)
(* quote, an escaped double quote, a blank, and words, which stand for any *)
(* text without these.  The word of a key stands for all its spellings, as *)
(* toLower makes them one.  A value is the sequence of its tokens.         *)
(*                                                                         *)
(* Of the settings, one of each kind is kept: a text with a default, an    *)
(* optional text, a number, a flag, a proxy with a user in its URL.        *)
(***************************************************************************)
EXTENDS Naturals, SequencesExt

CONSTANTS Numerals,    \* words std::stoi reads
          UrlUsers,    \* proxy URL |-> the user named in it (parseProxyUrl)
          NoValue      \* an optional without a value

Quote == "Quote"       \* "
Escaped == "Escaped"   \* \"
Blank == "Blank"

DefaultConfig ==
  [endpoint |-> << >>, project |-> << >>, schema |-> <<"default">>,
   accessKeyId |-> NoValue, accessKeySecret |-> NoValue, readTimeout |-> "60",
   namespaceSchema |-> TRUE, interactiveMode |-> FALSE,
   httpProxy |-> NoValue, proxyUser |-> NoValue]

-----------------------------------------------------------------------------
(* Finding the parameters                                                  *)

\* The first token t of s from position i on, 0 if there is none.
Find(s, t, i) == SelectInSubSeq(s, i, Len(s), LAMBDA c : c = t)

Trim(s) ==
  LET text == {i \in DOMAIN s : s[i] # Blank}
  IN  IF text = {} THEN << >> ELSE SubSeq(s, Min(text), Max(text))

Unescape(s) == [i \in DOMAIN s |-> IF s[i] = Escaped THEN Quote ELSE s[i]]

KeyWord(s) == IF Len(Trim(s)) = 1 THEN Trim(s)[1] ELSE "several words"

\* Fault: the search goes on at the ";" it found.
ValueAtStopsShort(s, i) ==
  LET v == Find(s, ";", i)
  IN  IF v = 0 THEN [value |-> Trim(SubSeq(s, i, Len(s))), next |-> Len(s) + 1]
      ELSE [value |-> Trim(SubSeq(s, i, v - 1)), next |-> v]

\* The value that begins at i and the place where the search for the next key
\* goes on: after the closing quote of a quoted value (not after the ";" that
\* follows it), else after the ";".
ValueAt(s, i) ==
  LET close == Find(s, Quote, i + 1)
      semicolon == Find(s, ";", i)
      quoted == i <= Len(s) /\ s[i] = Quote
      rest == [value |-> Trim(SubSeq(s, i, Len(s))), next |-> Len(s) + 1]
  IN  CASE quoted /\ close # 0 ->
             [value |-> Trim(Unescape(SubSeq(s, i + 1, close - 1))),
              next |-> close + 1]
        [] ~quoted /\ semicolon # 0 ->
             [value |-> Trim(SubSeq(s, i, semicolon - 1)),
              next |-> semicolon + 1]
        [] OTHER -> rest

\* The parameters of s in order, as parse and updateConfig see them: the key is
\* everything up to the next "=", whatever lies between.
Parameters(s) ==
  LET from[i \in 1 .. Len(s) + 1] ==
        LET eq == Find(s, "=", i)
            v == ValueAt(s, eq + 1)
        IN  IF eq = 0 THEN << >>
            ELSE <<[key |-> KeyWord(SubSeq(s, i, eq - 1)), value |-> v.value]>>
                 \o from[v.next]
  IN  from[1]

-----------------------------------------------------------------------------
(* Storing them                                                            *)

\* The keys whose value is stored as it is, and the setting each one stores.
TextKeys ==
  [endpoint |-> "endpoint", server |-> "endpoint", project |-> "project",
   schema |-> "schema", accesskeyid |-> "accessKeyId",
   accesskeysecret |-> "accessKeySecret", proxyuser |-> "proxyUser"]

\* updateConfig knows these two besides; parse does not.
UpdateKeys ==
  [k \in DOMAIN TextKeys \cup {"uid", "pwd"} |->
     CASE k = "uid" -> "accessKeyId"
       [] k = "pwd" -> "accessKeySecret"
       [] OTHER -> TextKeys[k]]

IsNumber(value) == value # << >> /\ Head(value) \in Numerals

UrlUser(value) ==
  IF Len(value) = 1 /\ value[1] \in DOMAIN UrlUsers
  THEN <<UrlUsers[value[1]]>> ELSE << >>

Store(keys, config, p) ==
  CASE p.key \in DOMAIN keys -> [config EXCEPT ![keys[p.key]] = p.value]
    [] p.key = "readtimeout" ->
         [config EXCEPT !.readTimeout =
            IF IsNumber(p.value) THEN Head(p.value) ELSE "60"]
    [] p.key = "namespaceschema" ->
         [config EXCEPT !.namespaceSchema = p.value # <<"false">>]
    [] p.key = "interactivemode" ->
         [config EXCEPT !.interactiveMode =
            p.value \in {<<"true">>, <<"TRUE">>, <<"1">>, <<"yes">>}]
    [] p.key = "httpproxy" ->
         [config EXCEPT !.httpProxy = p.value,
            !.proxyUser = IF @ = NoValue /\ UrlUser(p.value) # << >>
                          THEN UrlUser(p.value) ELSE @]
    [] OTHER -> config

\* A new configuration; a number that cannot be read becomes its default.
parse(s) ==
  FoldLeft(LAMBDA c, p : Store(TextKeys, c, p), DefaultConfig, Parameters(s))

\* The parameters up to the first number that cannot be read, which throws.
BadNumbers(ps) ==
  {i \in DOMAIN ps : ps[i].key = "readtimeout" /\ ~IsNumber(ps[i].value)}
BeforeThrow(ps) ==
  IF BadNumbers(ps) = {} THEN ps ELSE SubSeq(ps, 1, Min(BadNumbers(ps)) - 1)

\* Stores into a configuration that is in use: what was stored before a throw
\* stays stored.
updateConfig(s, config) ==
  [config |-> FoldLeft(LAMBDA c, p : Store(UpdateKeys, c, p), config,
                       BeforeThrow(Parameters(s))),
   threw |-> BadNumbers(Parameters(s)) # {}]

-----------------------------------------------------------------------------
(* The plain parser: pieces between ";", each a key and a value            *)

Piece(t) ==
  LET eq == Find(t, "=", 1)
  IN  IF eq = 0 THEN << >>
      ELSE <<[key |-> KeyWord(SubSeq(t, 1, eq - 1)), value |-> SubSeq(t, eq + 1, Len(t))]>>

parseDriverConnectString(s) ==
  LET from[i \in 1 .. Len(s) + 1] ==
        LET end == Find(s, ";", i)
        IN  IF end = 0 THEN Piece(SubSeq(s, i, Len(s)))
            ELSE Piece(SubSeq(s, i, end - 1)) \o from[end + 1]
  IN  from[1]

\* The strings on which all parsers should agree: no quotes, no blanks, and
\* every piece but an empty last one is a key and a value.
IsPlain(s) ==
  /\ \A i \in DOMAIN s : s[i] \notin {Quote, Escaped, Blank}
  /\ \A i \in DOMAIN s : i = 1 \/ s[i - 1] = ";" =>
       LET eq == Find(s, "=", i)
       IN  eq > i /\ \A j \in i .. eq : s[j] # ";"

-----------------------------------------------------------------------------
(* Checking them                                                           *)

Given(text) == text \notin {NoValue, << >>}

hasValidCredentials(config) ==
  Given(config.accessKeyId) /\ Given(config.accessKeySecret)

\* Config::validate; a negative timeout is left out.
validate(config) ==
  Given(config.endpoint) /\ Given(config.project) /\ hasValidCredentials(config)

=============================================================================

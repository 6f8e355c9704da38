------------------------ MODULE SettingParserProofs ------------------------
(***************************************************************************)
(* Nothing but SET statements is taken out of a query, and what is taken   *)
(* out is what the query says, however long it is.                         *)
(*                                                                         *)
(* IInv: the ranges lie behind the statement under way, or else behind the *)
(* next position; between the "set" of that statement and the next         *)
(* position there are only blanks, so that the first semicolon the parser  *)
(* finds is the first one of the statement.                                *)
(*                                                                         *)
(* PInv: the parser is at a piece of the text (a blank, a comment, a SET   *)
(* statement or the first statement of another kind), and what it has      *)
(* collected is what the statements before that piece say.                 *)
(***************************************************************************)
EXTENDS SettingParser, SequenceTheorems, WellFoundedInduction, TLAPS

Ranges == [first : Nat, next : Nat]

Typing ==
  /\ text \in Seq(Symbols) /\ state \in States
  /\ i \in Nat \ {0} /\ currentStart \in Nat
  /\ excludeRanges \in Seq(Ranges)

UnderWay == state \in {"IN_SET", "IN_KEY_VALUE"}

\* The statement under way has begun with "set", and only blanks follow so far.
Begun ==
  UnderWay =>
    /\ currentStart \in DOMAIN text /\ currentStart < i /\ SetAt(text, currentStart)
    /\ \A n \in currentStart + 1 .. i - 1 : n \in DOMAIN text => isspace(text[n])

\* The ranges lie behind.
Behind ==
  \A k \in DOMAIN excludeRanges :
    excludeRanges[k].next <= IF UnderWay THEN currentStart ELSE i

IInv == Typing /\ Begun /\ Behind /\ OnlySetsRemoved

-----------------------------------------------------------------------------
\* A set of positions that is not empty has a first one.
LEMMA MinIsFirst ==
  ASSUME NEW S \in SUBSET Nat, S # {}
  PROVE  Min(S) \in S /\ \A n \in S : Min(S) <= n
<1>1. PICK m \in S : \A n \in S : ~(<<n, m>> \in OpToRel(<, Nat))
  BY NatLessThanWellFounded, WFMin
<1>2. ASSUME NEW n \in S  PROVE m <= n
  <2>1. n \in Nat /\ m \in Nat  OBVIOUS
  <2>2. n < m => <<n, m>> \in OpToRel(<, Nat)  BY <2>1 DEF OpToRel
  <2>3. ~(n < m)  BY Zenon, <1>1, <2>2
  <2>. QED  BY <2>1, <2>3
<1>. QED  BY <1>2 DEF Min

LEMMA TextIs ==
  ASSUME Typing
  PROVE  /\ Len(text) \in Nat /\ DOMAIN text = 1 .. Len(text)
         /\ \A n \in DOMAIN text : n \in Nat /\ n >= 1
  BY DEF Typing

LEMMA RangesAre ==
  ASSUME Typing, NEW k \in DOMAIN excludeRanges
  PROVE  /\ excludeRanges[k].first \in Nat /\ excludeRanges[k].next \in Nat
         /\ k \in Nat
<1>1. excludeRanges[k] \in Ranges  BY DEF Typing
<1>2. k \in Nat  BY DEF Typing
<1>. QED  BY <1>1, <1>2 DEF Ranges

\* The parser goes forward, and not past a position it looks for.
LEMMA AfterIsBehind ==
  ASSUME Typing, i \in DOMAIN text, NEW w \in Nat, NEW ps \in SUBSET From(text, i)
  PROVE  /\ After(text, ps, w) \in Nat \ {0} /\ i <= After(text, ps, w)
         /\ ps = {} => After(text, ps, w) = Len(text) + 1
         /\ ps # {} => /\ Min(ps) \in ps /\ After(text, ps, w) = Min(ps) + w
                       /\ \A n \in ps : n \in Nat /\ Min(ps) <= n
<1>1. /\ Len(text) \in Nat /\ DOMAIN text = 1 .. Len(text) /\ i \in Nat /\ i >= 1
      /\ i <= Len(text)
  BY TextIs
<1>2. \A n \in ps : n \in Nat /\ i <= n  BY <1>1 DEF From
<1>3. CASE ps = {}
  <2>1. After(text, ps, w) = Len(text) + 1  BY <1>3 DEF After, EndOf
  <2>. QED  BY <1>1, <1>3, <2>1
<1>4. CASE ps # {}
  <2>1. Min(ps) \in ps /\ \A n \in ps : Min(ps) <= n  BY <1>2, <1>4, MinIsFirst
  <2>2. After(text, ps, w) = Min(ps) + w  BY <1>4 DEF After
  <2>3. Min(ps) \in Nat /\ i <= Min(ps)  BY <1>2, <2>1
  <2>. QED  BY <1>1, <1>2, <1>4, <2>1, <2>2, <2>3
<1>. QED  BY <1>3, <1>4

\* A step outside a statement, which finds no range.
LEMMA GoesOn ==
  ASSUME IInv, i' \in Nat \ {0}, i <= i', UNCHANGED <<text, excludeRanges>>,
         state' \in States, currentStart' \in Nat, ~UnderWay, ~UnderWay'
  PROVE  IInv'
<1>1. Typing'  BY DEF IInv, Typing
<1>2. Begun'  BY DEF Begun
<1>3. Behind'
  <2> SUFFICES ASSUME NEW k \in DOMAIN excludeRanges
               PROVE  excludeRanges[k].next <= i'
    BY DEF Behind
  <2>1. excludeRanges[k].next <= i  BY DEF IInv, Behind
  <2>2. excludeRanges[k].next \in Nat /\ i \in Nat  BY RangesAre DEF IInv, Typing
  <2>. QED  BY <2>1, <2>2
<1>4. OnlySetsRemoved'  BY DEF IInv, OnlySetsRemoved, SetAt
<1>. QED  BY <1>1, <1>2, <1>3, <1>4 DEF IInv

LEMMA DefaultStep ==
  ASSUME IInv, Default
  PROVE  IInv'
<1>1. /\ i \in DOMAIN text /\ state = "DEFAULT" /\ ~UnderWay
      /\ UNCHANGED <<text, excludeRanges>> /\ i \in Nat \ {0} /\ currentStart \in Nat
      /\ Len(text) \in Nat /\ DOMAIN text = 1 .. Len(text)
  BY TextIs DEF Default, In, UnderWay, found, IInv, Typing
<1>2. CASE /\ state' \in {"SINGLE_LINE_COMMENT", "MULTI_LINE_COMMENT"} /\ i' = i + 2
           /\ UNCHANGED currentStart
  <2>1. state' \in States /\ ~UnderWay'  BY <1>2 DEF States, UnderWay
  <2>. QED  BY <1>1, <1>2, <2>1, GoesOn
<1>3. CASE SetAt(text, i) /\ state' = "IN_SET" /\ currentStart' = i /\ i' = i + 2
  <2>1. Typing'  BY <1>1, <1>3 DEF IInv, Typing, States
  <2>2. Begun'
    <3>1. SetAt(text, currentStart)'  BY <1>1, <1>3 DEF SetAt
    <3>2. ASSUME NEW n \in i + 1 .. i + 1, n \in DOMAIN text  PROVE isspace(text[n])
      <4>1. n = i + 1  BY <1>1, <3>2
      <4>. QED  BY <1>3, <3>2, <4>1 DEF SetAt
    <3>. QED  BY <1>1, <1>3, <3>1, <3>2 DEF Begun
  <2>3. Behind'  BY <1>1, <1>3 DEF IInv, Behind, UnderWay
  <2>4. OnlySetsRemoved'  BY <1>1 DEF IInv, OnlySetsRemoved, SetAt
  <2>. QED  BY <2>1, <2>2, <2>3, <2>4 DEF IInv
<1>4. CASE state' \in {"DEFAULT", "STOP"} /\ i' = i + 1 /\ UNCHANGED currentStart
  <2>1. state' \in States /\ ~UnderWay'  BY <1>4 DEF States, UnderWay
  <2>. QED  BY <1>1, <1>4, <2>1, GoesOn
<1>. QED  BY <1>2, <1>3, <1>4 DEF Default

LEMMA CommentStep ==
  ASSUME IInv, SingleLineComment \/ MultiLineComment
  PROVE  IInv'
<1>1. /\ i \in DOMAIN text /\ ~UnderWay /\ UNCHANGED <<text, excludeRanges, currentStart>>
      /\ currentStart \in Nat
  BY DEF SingleLineComment, MultiLineComment, In, UnderWay, found, IInv, Typing
<1>2. state' \in {"DEFAULT", "MULTI_LINE_COMMENT"}
  BY DEF SingleLineComment, MultiLineComment, In
<1>3. i' \in Nat \ {0} /\ i <= i'
  <2>1. CASE SingleLineComment
    <3>1. i' = After(text, {n \in From(text, i) : text[n] = NewLine}, 1)
      BY <2>1 DEF SingleLineComment
    <3>. QED  BY <1>1, <3>1, AfterIsBehind DEF IInv
  <2>2. CASE MultiLineComment
    <3>1. i' = After(text, {n \in From(text, i) : Pair(text, n, "*", "/")}, 2)
      BY <2>2 DEF MultiLineComment
    <3>. QED  BY <1>1, <3>1, AfterIsBehind DEF IInv
  <2>. QED  BY <2>1, <2>2
<1>4. state' \in States /\ ~UnderWay'  BY <1>2 DEF States, UnderWay
<1>. QED  BY <1>1, <1>3, <1>4, GoesOn

LEMMA InSetStep ==
  ASSUME IInv, InSet
  PROVE  IInv'
<1> DEFINE written == {n \in From(text, i) : ~isspace(text[n])}
<1>1. /\ i \in DOMAIN text /\ UnderWay /\ UNCHANGED <<text, excludeRanges, currentStart>>
      /\ state' = "IN_KEY_VALUE" /\ i' = After(text, written, 0) /\ i' # EndOf(text)
      /\ DOMAIN text = 1 .. Len(text) /\ Len(text) \in Nat /\ i \in Nat
      /\ currentStart \in Nat
  BY TextIs DEF InSet, In, UnderWay, found, IInv, Typing
<1>2. written \in SUBSET From(text, i)  OBVIOUS
<1> HIDE DEF written
<1>3. /\ i' \in Nat \ {0} /\ i <= i' /\ i' = Min(written) + 0 /\ Min(written) \in written
      /\ \A n \in written : n \in Nat /\ Min(written) <= n
  BY <1>1, <1>2, AfterIsBehind DEF IInv, EndOf
<1>4. Typing'  BY <1>1, <1>3 DEF IInv, Typing, States
<1>5. Begun'
  <2>1. /\ currentStart \in DOMAIN text /\ currentStart < i /\ SetAt(text, currentStart)
        /\ \A n \in currentStart + 1 .. i - 1 : n \in DOMAIN text => isspace(text[n])
    BY <1>1 DEF IInv, Begun
  <2>2. SetAt(text, currentStart)'  BY <1>1, <2>1 DEF SetAt
  <2>3. ASSUME NEW n \in currentStart + 1 .. i' - 1, n \in DOMAIN text
        PROVE  isspace(text[n])
    <3>1. CASE n < i
      <4>1. n \in currentStart + 1 .. i - 1  BY <1>1, <1>3, <3>1
      <4>. QED  BY <2>1, <2>3, <4>1
    <3>2. CASE i <= n
      <4>1. n \in From(text, i)  BY <1>1, <2>3, <3>2 DEF From
      <4>2. n < Min(written)
        <5>1. Min(written) \in Nat  BY <1>3
        <5>. QED  BY <1>1, <1>3, <5>1
      <4>3. n \notin written
        <5>1. Min(written) \in Nat  BY <1>3
        <5>. QED  BY <1>1, <1>3, <4>2, <5>1
      <4>. QED  BY <4>1, <4>3 DEF written
    <3>. QED  BY <1>1, <3>1, <3>2
  <2>4. currentStart < i'  BY <1>1, <1>3, <2>1
  <2>. QED  BY <1>1, <2>1, <2>2, <2>3, <2>4 DEF Begun
<1>6. Behind'  BY <1>1 DEF IInv, Behind, UnderWay
<1>7. OnlySetsRemoved'  BY <1>1 DEF IInv, OnlySetsRemoved, SetAt
<1>. QED  BY <1>4, <1>5, <1>6, <1>7 DEF IInv

LEMMA InKeyValueStep ==
  ASSUME IInv, InKeyValue
  PROVE  IInv'
<1>1. /\ i \in DOMAIN text /\ UnderWay /\ UNCHANGED text
      /\ state' = "DEFAULT" /\ currentStart' = 0 /\ i' = After(text, Semicolons(text, i), 1)
      /\ \/ UNCHANGED excludeRanges
         \/ Semicolons(text, i) # {} /\ excludeRanges' = Exclude(currentStart, i')
      /\ DOMAIN text = 1 .. Len(text) /\ Len(text) \in Nat /\ i \in Nat
      /\ currentStart \in Nat
  BY TextIs DEF InKeyValue, In, UnderWay, IInv, Typing, parseKeyValue
<1>2. Semicolons(text, i) \in SUBSET From(text, i)  BY DEF Semicolons
<1>3. i' \in Nat \ {0} /\ i <= i'  BY <1>1, <1>2, AfterIsBehind DEF IInv
<1>4. /\ currentStart \in DOMAIN text /\ currentStart < i /\ SetAt(text, currentStart)
      /\ \A n \in currentStart + 1 .. i - 1 : n \in DOMAIN text => isspace(text[n])
  BY <1>1 DEF IInv, Begun
<1>5. ~UnderWay' /\ Begun'  BY <1>1 DEF UnderWay, Begun
<1>6. \A k \in DOMAIN excludeRanges :
        /\ excludeRanges[k].next <= currentStart /\ excludeRanges[k].next \in Nat
        /\ excludeRanges[k].first \in Nat /\ k \in Nat
  BY <1>1, RangesAre DEF IInv, Behind
<1>7. CASE UNCHANGED excludeRanges
  <2>1. Typing'  BY <1>1, <1>3, <1>7 DEF IInv, Typing, States
  <2>2. Behind'
    <3> SUFFICES ASSUME NEW k \in DOMAIN excludeRanges
                 PROVE  excludeRanges[k].next <= i'
      BY <1>5, <1>7 DEF Behind
    <3>. QED  BY <1>1, <1>3, <1>4, <1>6
  <2>3. OnlySetsRemoved'  BY <1>1, <1>7 DEF IInv, OnlySetsRemoved, SetAt
  <2>. QED  BY <1>5, <2>1, <2>2, <2>3 DEF IInv
<1>8. CASE Semicolons(text, i) # {} /\ excludeRanges' = Exclude(currentStart, i')
  <2> DEFINE r == [first |-> currentStart, next |-> i']
             m == Len(excludeRanges)
  <2>1. r \in Ranges /\ r.first = currentStart /\ r.next = i'
    BY <1>1, <1>3 DEF Ranges
  <2>2. excludeRanges' = Append(excludeRanges, r)  BY <1>8 DEF Exclude
  <2> HIDE DEF r
  <2>3. /\ excludeRanges' \in Seq(Ranges) /\ m \in Nat
        /\ DOMAIN excludeRanges' = 1 .. m + 1 /\ DOMAIN excludeRanges = 1 .. m
        /\ \A k \in 1 .. m : excludeRanges'[k] = excludeRanges[k]
        /\ excludeRanges'[m + 1] = r
    <3>1. excludeRanges \in Seq(Ranges)  BY DEF IInv, Typing
    <3>. QED  BY <2>1, <2>2, <3>1, AppendProperties, LenProperties
  <2> HIDE DEF m
  <2>4. PICK semicolon \in Semicolons(text, i) :
          /\ i' = semicolon + 1
          /\ \A n \in Semicolons(text, i) : n \in Nat /\ semicolon <= n
    BY <1>1, <1>2, <1>8, AfterIsBehind DEF IInv
  <2>5. semicolon \in From(text, i) /\ text[semicolon] = ";"  BY <2>4 DEF Semicolons
  <2>0. /\ i \in Nat /\ i >= 1 /\ Len(text) \in Nat /\ DOMAIN text = 1 .. Len(text)
        /\ currentStart \in Nat /\ currentStart < i
    BY <1>1, <1>4
  <2>6. semicolon \in Nat /\ i <= semicolon /\ semicolon \in DOMAIN text
    <3>1. semicolon \in i .. Len(text)  BY <2>5 DEF From
    <3>2. semicolon \in Nat /\ i <= semicolon /\ semicolon <= Len(text)
      BY <2>0, <3>1
    <3>3. semicolon \in 1 .. Len(text)  BY <2>0, <3>2
    <3>. QED  BY <2>0, <3>2, <3>3
  <2>7. Typing'  BY <1>1, <1>3, <2>3 DEF IInv, Typing, States
  <2>8. Behind'
    <3> SUFFICES ASSUME NEW k \in 1 .. m + 1  PROVE excludeRanges'[k].next <= i'
      BY <1>5, <2>3 DEF Behind
    <3>1. CASE k = m + 1  BY <1>3, <2>1, <2>3, <3>1
    <3>2. CASE k # m + 1
      <4>1. k \in 1 .. m  BY <2>3, <3>2
      <4>2. /\ excludeRanges'[k] = excludeRanges[k] /\ excludeRanges[k].next \in Nat
            /\ excludeRanges[k].next <= currentStart
        BY <1>6, <2>3, <4>1
      <4>. QED  BY <1>3, <2>0, <4>2
    <3>. QED  BY <3>1, <3>2
  <2>9. /\ r.first \in DOMAIN text /\ r.next - 1 \in DOMAIN text /\ r.first < r.next
        /\ SetAt(text, r.first) /\ text[r.next - 1] = ";"
    <3>1. r.next - 1 = semicolon  BY <2>1, <2>4, <2>6
    <3>2. r.first < r.next  BY <2>1, <2>4, <2>6, <2>0
    <3>. QED  BY <1>4, <2>1, <2>5, <2>6, <3>1, <3>2
  <2>10. ASSUME NEW n \in r.first + 1 .. r.next - 2, text[n] = ";"
         PROVE  text[n - 1] = Backslash
    <3>1. n \in Nat /\ currentStart + 1 <= n /\ n < semicolon /\ n \in DOMAIN text /\ n # 1
      <4>1. n \in currentStart + 1 .. i' - 2 /\ i' = semicolon + 1
        BY <2>1, <2>4, <2>10
      <4>2. n \in Nat /\ currentStart + 1 <= n /\ n < semicolon
        BY <2>6, <2>0, <4>1
      <4>3. semicolon <= Len(text)  BY <2>6, <2>0
      <4>4. n \in 1 .. Len(text)  BY <2>6, <2>0, <4>2, <4>3
      <4>5. n # 1
        <5>1. currentStart >= 1  BY <1>4, <2>0
        <5>. QED  BY <2>0, <4>2, <5>1
      <4>. QED  BY <2>0, <4>2, <4>4, <4>5
    <3>2. i <= n
      <4> SUFFICES ASSUME n < i  PROVE FALSE
        BY <1>1, <3>1
      <4>1. n \in currentStart + 1 .. i - 1  BY <1>1, <3>1
      <4>. QED  BY <1>4, <2>10, <3>1, <4>1 DEF isspace, Blank, NewLine
    <3>3. n \in From(text, i)  BY <1>1, <3>1, <3>2 DEF From
    <3>4. n \notin Semicolons(text, i)  BY <2>4, <2>6, <3>1
    <3>. QED  BY <2>10, <3>1, <3>3, <3>4 DEF Semicolons
  <2>11. OnlySetsRemoved'
    <3>1. ASSUME NEW k \in DOMAIN excludeRanges'
          PROVE  LET x == excludeRanges'[k]
                 IN  /\ x.first \in DOMAIN text /\ x.next - 1 \in DOMAIN text
                     /\ x.first < x.next
                     /\ SetAt(text, x.first) /\ text[x.next - 1] = ";"
                     /\ \A n \in x.first + 1 .. x.next - 2 :
                          text[n] = ";" => text[n - 1] = Backslash
      <4>1. CASE k = m + 1  BY <2>3, <2>9, <2>10, <4>1
      <4>2. CASE k # m + 1
        <5>1. k \in 1 .. m  BY <2>3, <3>1, <4>2
        <5>. QED  BY <2>3, <5>1 DEF IInv, OnlySetsRemoved
      <4>. QED  BY <4>1, <4>2
    <3>2. ASSUME NEW k \in DOMAIN excludeRanges', NEW l \in DOMAIN excludeRanges', k < l
          PROVE  excludeRanges'[k].next <= excludeRanges'[l].first
      <4>1. k \in 1 .. m /\ excludeRanges'[k] = excludeRanges[k]  BY <2>3, <3>2
      <4>2. CASE l = m + 1  BY <1>6, <2>1, <2>3, <4>1, <4>2
      <4>3. CASE l # m + 1
        <5>1. l \in 1 .. m  BY <2>3, <3>2, <4>3
        <5>. QED  BY <2>3, <3>2, <4>1, <5>1 DEF IInv, OnlySetsRemoved
      <4>. QED  BY <4>2, <4>3
    <3>. QED  BY <1>1, <3>1, <3>2 DEF OnlySetsRemoved, SetAt
  <2>. QED  BY <1>5, <2>7, <2>8, <2>11 DEF IInv
<1>. QED  BY <1>1, <1>7, <1>8

LEMMA StopStep ==
  ASSUME IInv, Stop
  PROVE  IInv'
<1>1. /\ i \in DOMAIN text /\ state = "STOP" /\ i' = Len(text) + 1
      /\ UNCHANGED <<text, state, currentStart, excludeRanges>>
      /\ DOMAIN text = 1 .. Len(text) /\ Len(text) \in Nat /\ currentStart \in Nat
  BY TextIs DEF Stop, In, EndOf, found, IInv, Typing
<1>2. ~UnderWay /\ ~UnderWay' /\ state' \in States  BY <1>1 DEF UnderWay, States
<1>3. i' \in Nat \ {0} /\ i <= i'  BY <1>1
<1>. QED  BY <1>1, <1>2, <1>3, GoesOn

LEMMA Initially == Init => IInv
<1> SUFFICES ASSUME Init  PROVE IInv
  OBVIOUS
<1>1. PICK query \in Queries : text = Terminated(query)  BY DEF Init
<1>2. text \in Seq(Symbols)
  <2>1. query \in Seq(Symbols) /\ ";" \in Symbols  BY QueriesAssumption DEF Symbols
  <2>2. Append(query, ";") \in Seq(Symbols)  BY <2>1, AppendProperties
  <2>. QED  BY <1>1, <2>1, <2>2 DEF Terminated
<1>3. excludeRanges = << >> /\ DOMAIN excludeRanges = {}  BY DEF Init
<1>4. Typing  BY <1>2, <1>3 DEF Init, Typing, States
<1>5. Begun  BY DEF Init, Begun, UnderWay
<1>6. Behind /\ OnlySetsRemoved  BY <1>3 DEF Behind, OnlySetsRemoved
<1>. QED  BY <1>4, <1>5, <1>6 DEF IInv

\* Each action keeps the ranges behind and apart.
LEMMA IInvStep ==
  ASSUME IInv, [Next]_vars
  PROVE  IInv'
<1>1. CASE Next
  <2>1. CASE Return
    <3>1. UNCHANGED <<text, state, i, currentStart, excludeRanges>>
      BY <2>1 DEF Return, vars
    <3>. QED
      BY <3>1
      DEF IInv, Typing, Begun, Behind, UnderWay, OnlySetsRemoved, SetAt
  <2>. QED
    BY <1>1, <2>1, DefaultStep, CommentStep, InSetStep, InKeyValueStep, StopStep
    DEF Next
<1>2. CASE UNCHANGED vars
  <2>1. UNCHANGED <<text, state, i, currentStart, excludeRanges>>  BY <1>2 DEF vars
  <2>. QED
    BY <2>1 DEF IInv, Typing, Begun, Behind, UnderWay, OnlySetsRemoved, SetAt
<1>. QED  BY <1>1, <1>2

-----------------------------------------------------------------------------
(***************************************************************************)
(* For a query of any length: what SettingParser takes out of it are SET   *)
(* statements, each up to its first semicolon that is not escaped, one     *)
(* after the other (setting_parser.cpp, extractSetStatements).             *)
(***************************************************************************)
THEOREM NothingElseRemoved == Spec => []OnlySetsRemoved
<1>1. ASSUME IInv, [Next]_vars  PROVE IInv'  BY <1>1, IInvStep
<1>2. IInv => OnlySetsRemoved  BY DEF IInv
<1>. QED  BY Initially, <1>1, <1>2, PTL DEF Spec

-----------------------------------------------------------------------------
(* Functions defined step by step                                          *)

\* f begins with first, and each value is a step from the one before.
Steps(f, N, first, step) ==
  f[0] = first /\ \A n \in 1 .. N : f[n] = step[<<n, f[n - 1]>>]

\* By induction on N: f is the restriction that goes on for one more step.
LEMMA StepsExist ==
  ASSUME NEW N \in Nat, NEW S, NEW first \in S, NEW step \in [Nat \X S -> S]
  PROVE  \E f \in [0 .. N -> S] : Steps(f, N, first, step)
<1>. DEFINE Bad == {n \in Nat : ~\E f \in [0 .. n -> S] : Steps(f, n, first, step)}
<1>. SUFFICES ASSUME Bad # {}  PROVE FALSE  OBVIOUS
<1>1. Min(Bad) \in Bad /\ \A n \in Bad : Min(Bad) <= n  BY MinIsFirst
<1>. DEFINE m == Min(Bad)
<1>2. m \in Nat /\ m \in Bad /\ \A n \in Bad : m <= n  BY <1>1
<1>. HIDE DEF m
<1>3. m # 0
  <2>1. [n \in 0 .. 0 |-> first] \in [0 .. 0 -> S]  OBVIOUS
  <2>2. [n \in 0 .. 0 |-> first][0] = first /\ 1 .. 0 = {}  OBVIOUS
  <2>3. Steps([n \in 0 .. 0 |-> first], 0, first, step)  BY <2>2 DEF Steps
  <2>. QED  BY <1>2, <2>1, <2>3
<1>4. m - 1 \in Nat /\ m - 1 \notin Bad  BY <1>2, <1>3
<1>5. PICK f \in [0 .. m - 1 -> S] : Steps(f, m - 1, first, step)  BY <1>4
<1>. DEFINE more == [n \in 0 .. m |-> IF n = m THEN step[<<m, f[m - 1]>>] ELSE f[n]]
<1>6. \A n \in 0 .. m - 1 : more[n] = f[n]  BY <1>2
<1>7. more[m] = step[<<m, f[m - 1]>>]  BY <1>2
<1>8. f[m - 1] \in S /\ step[<<m, f[m - 1]>>] \in S  BY <1>2, <1>4
<1>9. more \in [0 .. m -> S]
  <2>1. ASSUME NEW n \in 0 .. m, n # m  PROVE f[n] \in S
    <3>1. n \in 0 .. m - 1  BY <1>2, <2>1
    <3>. QED  BY <3>1
  <2>. QED  BY <1>8, <2>1
<1>. HIDE DEF more
<1>10. Steps(more, m, first, step)
  <2>1. more[0] = first
    <3>1. 0 \in 0 .. m - 1  BY <1>4
    <3>. QED  BY <1>5, <1>6, <3>1 DEF Steps
  <2>2. ASSUME NEW n \in 1 .. m  PROVE more[n] = step[<<n, more[n - 1]>>]
    <3>1. n - 1 \in 0 .. m - 1  BY <1>2
    <3>2. more[n - 1] = f[n - 1]  BY <1>6, <3>1
    <3>3. CASE n = m  BY <1>7, <3>2, <3>3
    <3>4. CASE n # m
      <4>1. n \in 1 .. m - 1 /\ n \in 0 .. m - 1  BY <1>2, <3>4
      <4>. QED  BY <1>5, <1>6, <3>2, <4>1 DEF Steps
    <3>. QED  BY <3>3, <3>4
  <2>. QED  BY <2>1, <2>2 DEF Steps
<1>. QED  BY <1>2, <1>9, <1>10

\* Such functions agree as far as both go.
LEMMA StepsAgree ==
  ASSUME NEW N \in Nat, NEW M \in Nat, M <= N, NEW first, NEW step,
         NEW f, Steps(f, N, first, step), NEW g, Steps(g, M, first, step)
  PROVE  \A n \in 0 .. M : f[n] = g[n]
<1>. DEFINE Bad == {n \in 0 .. M : f[n] # g[n]}
<1>. SUFFICES ASSUME Bad # {}  PROVE FALSE  OBVIOUS
<1>0. Bad \in SUBSET Nat  OBVIOUS
<1>1. PICK m \in Bad : \A n \in Bad : m <= n  BY <1>0, MinIsFirst
<1>2. m # 0  BY DEF Steps
<1>3. m \in Nat /\ m \in 1 .. M /\ m \in 1 .. N /\ m - 1 \in 0 .. M /\ m - 1 \notin Bad
  BY <1>0, <1>1, <1>2
<1>4. f[m - 1] = g[m - 1]  BY <1>3
<1>5. f[m] = step[<<m, f[m - 1]>>] /\ g[m] = step[<<m, g[m - 1]>>]  BY <1>3 DEF Steps
<1>. QED  BY <1>1, <1>4, <1>5

-----------------------------------------------------------------------------
(* The members of a set in order                                           *)

InOrderStep(ps, n, ns) == IF n \in ps THEN Append(ns, n) ELSE ns

\* InOrder goes through the numbers one by one.
LEMMA InOrderFollows ==
  ASSUME NEW ps, NEW N \in Nat
  PROVE  \E f \in [0 .. N -> Seq(Nat)] :
           /\ Steps(f, N, << >>, [x \in Nat \X Seq(Nat) |-> InOrderStep(ps, x[1], x[2])])
           /\ InOrder(ps, N) = f[N]
<1>. DEFINE step == [x \in Nat \X Seq(Nat) |-> InOrderStep(ps, x[1], x[2])]
            IsUpto(f) == f = [n \in 0 .. N |->
                                IF n = 0 THEN << >>
                                ELSE IF n \in ps THEN Append(f[n - 1], n) ELSE f[n - 1]]
            upto == CHOOSE f : IsUpto(f)
<1>1. step \in [Nat \X Seq(Nat) -> Seq(Nat)]
  <2>1. ASSUME NEW n \in Nat, NEW ns \in Seq(Nat)  PROVE InOrderStep(ps, n, ns) \in Seq(Nat)
    BY AppendProperties DEF InOrderStep
  <2>. QED  BY <2>1
<1>2. << >> \in Seq(Nat)  OBVIOUS
<1>3. \A n \in Nat, ns \in Seq(Nat) : step[<<n, ns>>] = InOrderStep(ps, n, ns)  OBVIOUS
<1>. HIDE DEF step
<1>4. PICK f \in [0 .. N -> Seq(Nat)] : Steps(f, N, << >>, step)  BY <1>1, <1>2, StepsExist
<1>5. IsUpto(f)
  <2>1. ASSUME NEW n \in 0 .. N
        PROVE  f[n] = IF n = 0 THEN << >>
                      ELSE IF n \in ps THEN Append(f[n - 1], n) ELSE f[n - 1]
    <3>1. CASE n = 0  BY <1>4, <3>1 DEF Steps
    <3>2. CASE n # 0
      <4>1. n \in 1 .. N /\ n \in Nat /\ n - 1 \in 0 .. N  BY <3>2
      <4>2. f[n - 1] \in Seq(Nat)  BY <4>1
      <4>3. f[n] = step[<<n, f[n - 1]>>]  BY <1>4, <4>1 DEF Steps
      <4>4. f[n] = InOrderStep(ps, n, f[n - 1])  BY <1>3, <4>1, <4>2, <4>3
      <4>. QED  BY <3>2, <4>4 DEF InOrderStep
    <3>. QED  BY <3>1, <3>2
  <2>. QED  BY <2>1
<1>6. IsUpto(upto)  BY <1>5
<1>7. InOrder(ps, N) = upto[N]  BY DEF InOrder
<1>. HIDE DEF upto
<1>8. upto[N] = f[N]
  <2>. DEFINE Bad == {n \in 0 .. N : upto[n] # f[n]}
  <2>. SUFFICES ASSUME Bad # {}  PROVE FALSE
    <3>1. N \in 0 .. N  OBVIOUS
    <3>. QED  BY Zenon, <3>1
  <2>0. Bad \in SUBSET Nat  OBVIOUS
  <2>1. PICK m \in Bad : \A n \in Bad : m <= n  BY <2>0, MinIsFirst
  <2>2. m \in 0 .. N /\ upto[m] # f[m]  OBVIOUS
  <2>3. m # 0  BY <1>5, <1>6, <2>2
  <2>4. m \in 1 .. N /\ m - 1 \in 0 .. N /\ m - 1 \notin Bad  BY <2>0, <2>1, <2>3
  <2>5. upto[m - 1] = f[m - 1]  BY <2>4
  <2>. HIDE DEF Bad
  <2>. QED  BY <1>5, <1>6, <2>2, <2>3, <2>5
<1>. QED  BY <1>4, <1>7, <1>8 DEF step

\* What InOrder is at the next number.
LEMMA InOrderUnfolds ==
  ASSUME NEW ps
  PROVE  /\ InOrder(ps, 0) = << >>
         /\ \A n \in Nat : InOrder(ps, n) \in Seq(Nat)
         /\ \A n \in Nat \ {0} :
              InOrder(ps, n) = IF n \in ps THEN Append(InOrder(ps, n - 1), n)
                               ELSE InOrder(ps, n - 1)
<1>. DEFINE step == [x \in Nat \X Seq(Nat) |-> InOrderStep(ps, x[1], x[2])]
<1>1. \A n \in Nat, ns \in Seq(Nat) : step[<<n, ns>>] = InOrderStep(ps, n, ns)  OBVIOUS
<1>2. \A N \in Nat : \E f \in [0 .. N -> Seq(Nat)] :
        Steps(f, N, << >>, step) /\ InOrder(ps, N) = f[N]
  BY InOrderFollows
<1>. HIDE DEF step
<1>3. InOrder(ps, 0) = << >>
  <2>1. PICK f \in [0 .. 0 -> Seq(Nat)] : Steps(f, 0, << >>, step) /\ InOrder(ps, 0) = f[0]
    BY <1>2
  <2>. QED  BY <2>1 DEF Steps
<1>4. ASSUME NEW n \in Nat  PROVE InOrder(ps, n) \in Seq(Nat)
  <2>1. PICK f \in [0 .. n -> Seq(Nat)] : InOrder(ps, n) = f[n]  BY <1>2
  <2>. QED  BY <2>1
<1>5. ASSUME NEW n \in Nat \ {0}
      PROVE  InOrder(ps, n) = IF n \in ps THEN Append(InOrder(ps, n - 1), n)
                              ELSE InOrder(ps, n - 1)
  <2>1. n \in Nat /\ n - 1 \in Nat /\ n - 1 <= n /\ n \in 1 .. n /\ n - 1 \in 0 .. n - 1
        /\ n - 1 \in 0 .. n
    OBVIOUS
  <2>2. PICK f \in [0 .. n -> Seq(Nat)] : Steps(f, n, << >>, step) /\ InOrder(ps, n) = f[n]
    BY <1>2, <2>1
  <2>3. PICK g \in [0 .. n - 1 -> Seq(Nat)] :
          Steps(g, n - 1, << >>, step) /\ InOrder(ps, n - 1) = g[n - 1]
    BY <1>2, <2>1
  <2>4. \A k \in 0 .. n - 1 : f[k] = g[k]
    <3>1. \A F, G : Steps(F, n, << >>, step) /\ Steps(G, n - 1, << >>, step)
                    => \A k \in 0 .. n - 1 : F[k] = G[k]
      BY <2>1, StepsAgree
    <3>. QED  BY Zenon, <2>2, <2>3, <3>1
  <2>5. f[n - 1] = InOrder(ps, n - 1)  BY <2>1, <2>3, <2>4
  <2>6. f[n] = step[<<n, f[n - 1]>>]  BY <2>1, <2>2 DEF Steps
  <2>7. f[n] = InOrderStep(ps, n, InOrder(ps, n - 1))  BY <1>1, <1>4, <2>1, <2>5, <2>6
  <2>. QED  BY <2>2, <2>7 DEF InOrderStep
<1>. QED  BY <1>3, <1>4, <1>5

\* Without a member between a and b.
LEMMA InOrderSkips ==
  ASSUME NEW ps, NEW a \in Nat, NEW b \in Nat, a <= b, \A n \in a + 1 .. b : n \notin ps
  PROVE  InOrder(ps, b) = InOrder(ps, a)
<1>. DEFINE Bad == {n \in a .. b : InOrder(ps, n) # InOrder(ps, a)}
<1>. SUFFICES ASSUME Bad # {}  PROVE FALSE
  <2>1. b \in a .. b  OBVIOUS
  <2>. QED  BY Zenon, <2>1
<1>0. Bad \in SUBSET Nat  OBVIOUS
<1>1. PICK m \in Bad : \A n \in Bad : m <= n  BY <1>0, MinIsFirst
<1>2. m \in a .. b /\ InOrder(ps, m) # InOrder(ps, a)  OBVIOUS
<1>3. m # a  BY <1>2
<1>4. m \in Nat \ {0} /\ m \in a + 1 .. b /\ m - 1 \in a .. b /\ m - 1 \notin Bad
  BY <1>0, <1>1, <1>2, <1>3
<1>5. InOrder(ps, m - 1) = InOrder(ps, a)  BY <1>4
<1>6. InOrder(ps, m) = InOrder(ps, m - 1)  BY <1>4, InOrderUnfolds
<1>. QED  BY <1>2, <1>5, <1>6

\* The values of w at the positions in ns, one after the other.
At(w, ns) == [k \in DOMAIN ns |-> w[ns[k]]]

\* One position more is one value more.
LEMMA AtNext ==
  ASSUME NEW w, NEW ns \in Seq(Nat), NEW n \in Nat
  PROVE  At(w, Append(ns, n)) = Append(At(w, ns), w[n])
<1>. DEFINE T == {w[m] : m \in Nat}
<1>1. ns \in Seq(Nat) /\ Len(ns) \in Nat /\ DOMAIN ns = 1 .. Len(ns)
      /\ \A k \in 1 .. Len(ns) : ns[k] \in Nat
  OBVIOUS
<1>2. At(w, ns) = [k \in 1 .. Len(ns) |-> w[ns[k]]]  BY <1>1 DEF At
<1>3. \A k \in 1 .. Len(ns) : w[ns[k]] \in T  BY <1>1
<1>. HIDE DEF T
<1>4. At(w, ns) \in Seq(T) /\ Len(At(w, ns)) = Len(ns)  BY <1>1, <1>2, <1>3
<1>5. w[n] \in T  BY DEF T
<1>6. /\ Append(At(w, ns), w[n]) \in Seq(T)
      /\ DOMAIN Append(At(w, ns), w[n]) = 1 .. Len(ns) + 1
      /\ \A k \in 1 .. Len(ns) : Append(At(w, ns), w[n])[k] = w[ns[k]]
      /\ Append(At(w, ns), w[n])[Len(ns) + 1] = w[n]
  BY <1>1, <1>2, <1>4, <1>5, AppendProperties
<1>7. /\ DOMAIN Append(ns, n) = 1 .. Len(ns) + 1
      /\ \A k \in 1 .. Len(ns) : Append(ns, n)[k] = ns[k]
      /\ Append(ns, n)[Len(ns) + 1] = n
  BY <1>1, AppendProperties
<1>8. At(w, Append(ns, n)) = [k \in 1 .. Len(ns) + 1 |-> w[Append(ns, n)[k]]]
  BY <1>7 DEF At
<1>9. ASSUME NEW k \in 1 .. Len(ns) + 1
      PROVE  w[Append(ns, n)[k]] = Append(At(w, ns), w[n])[k]
  <2>1. CASE k = Len(ns) + 1  BY <1>6, <1>7, <2>1
  <2>2. CASE k # Len(ns) + 1
    <3>1. k \in 1 .. Len(ns)  BY <1>1, <2>2
    <3>. QED  BY <1>6, <1>7, <3>1
  <2>. QED  BY <2>1, <2>2
<1>10. Append(At(w, ns), w[n]) = [k \in 1 .. Len(ns) + 1 |-> Append(At(w, ns), w[n])[k]]
  BY <1>4, <1>5, <1>6
<1>. QED  BY Zenon, <1>8, <1>9, <1>10

LEMMA AtIsSeq ==
  ASSUME NEW w, NEW ns \in Seq(Nat)
  PROVE  At(w, ns) \in Seq({w[m] : m \in Nat}) /\ Len(At(w, ns)) = Len(ns)
<1>. DEFINE T == {w[m] : m \in Nat}
<1>1. Len(ns) \in Nat /\ DOMAIN ns = 1 .. Len(ns) /\ \A k \in 1 .. Len(ns) : ns[k] \in Nat
  OBVIOUS
<1>2. At(w, ns) = [k \in 1 .. Len(ns) |-> w[ns[k]]]  BY <1>1 DEF At
<1>3. \A k \in 1 .. Len(ns) : w[ns[k]] \in T  BY <1>1
<1>. HIDE DEF T
<1>4. At(w, ns) \in Seq(T) /\ Len(At(w, ns)) = Len(ns)  BY <1>1, <1>2, <1>3
<1>. QED  BY <1>4 DEF T

LEMMA AppendJoined ==
  \A W : \A x, y \in Seq(W), z \in W : Append(x \o y, z) = x \o (y \o <<z>>)
<1>. SUFFICES ASSUME NEW W, NEW x \in Seq(W), NEW y \in Seq(W), NEW z \in W
              PROVE  Append(x \o y, z) = x \o (y \o <<z>>)
  OBVIOUS
<1>1. Append(x \o y, z) = x \o Append(y, z)  OBVIOUS
<1>2. Append(y, z) = y \o <<z>>  BY AppendIsConcat
<1>. QED  BY Zenon, <1>1, <1>2

\* Where every position is a member, a part of the text comes out as it is.
LEMMA AtGoesOn ==
  ASSUME NEW T, NEW s \in Seq(T), NEW ps, NEW a \in Nat, NEW b \in Nat, a <= b,
         b <= Len(s), \A n \in a + 1 .. b : n \in ps
  PROVE  At(s, InOrder(ps, b)) = At(s, InOrder(ps, a)) \o SubSeq(s, a + 1, b)
<1>. DEFINE Holds(n) == At(s, InOrder(ps, n)) = At(s, InOrder(ps, a)) \o SubSeq(s, a + 1, n)
            Bad == {n \in a .. b : ~Holds(n)}
<1>. SUFFICES ASSUME Bad # {}  PROVE FALSE
  <2>1. b \in a .. b  OBVIOUS
  <2>. QED  BY Zenon, <2>1
<1>0. Bad \in SUBSET Nat  OBVIOUS
<1>1. PICK m \in Bad : \A n \in Bad : m <= n  BY <1>0, MinIsFirst
<1>2. m \in a .. b /\ ~Holds(m)  BY Zenon
<1>. DEFINE W == {s[n] : n \in Nat}
            before == At(s, InOrder(ps, a))
<1>3. /\ before \in Seq(W) /\ \A n \in Nat : SubSeq(s, a + 1, n) \in Seq(W)
      /\ \A n \in Nat : s[n] \in W
  <2>1. InOrder(ps, a) \in Seq(Nat)  BY InOrderUnfolds
  <2>2. before \in Seq(W)  BY <2>1, AtIsSeq
  <2>3. ASSUME NEW n \in Nat  PROVE SubSeq(s, a + 1, n) \in Seq(W)
    <3>1. \A k \in a + 1 .. n : s[k] \in W  OBVIOUS
    <3>. HIDE DEF W
    <3>. QED  BY <3>1, SubSeqProperties
  <2>. QED  BY <2>2, <2>3
<1>4. Holds(a)
  <2>1. SubSeq(s, a + 1, a) = << >>  BY SubSeqEmpty
  <2>. HIDE DEF W, before
  <2>2. before \o << >> = before  BY <1>3
  <2>. QED  BY Zenon, <2>1, <2>2 DEF before
<1>5. m \in Nat \ {0} /\ m \in a + 1 .. b /\ m - 1 \in a .. b /\ m - 1 \notin Bad /\ m - 1 \in Nat
  <2>1. m # a  BY Zenon, <1>2, <1>4
  <2>. HIDE DEF Holds
  <2>. QED  BY <1>0, <1>1, <1>2, <2>1
<1>6. Holds(m - 1)  BY Zenon, <1>5
<1>7. InOrder(ps, m) = Append(InOrder(ps, m - 1), m)
  <2>1. m \in ps  BY Zenon, <1>5
  <2>. QED  BY Zenon, <1>5, <2>1, InOrderUnfolds
<1>8. InOrder(ps, m - 1) \in Seq(Nat)  BY Zenon, <1>5, InOrderUnfolds
<1>9. At(s, InOrder(ps, m)) = Append(At(s, InOrder(ps, m - 1)), s[m])
  BY Zenon, <1>5, <1>7, <1>8, AtNext
<1>10. SubSeq(s, a + 1, m) = SubSeq(s, a + 1, m - 1) \o <<s[m]>>
  BY <1>5, SubSeqRecursiveSecond
<1>. HIDE DEF W, before
<1>11. Append(before \o SubSeq(s, a + 1, m - 1), s[m])
       = before \o (SubSeq(s, a + 1, m - 1) \o <<s[m]>>)
  <2>1. /\ before \in Seq(W) /\ SubSeq(s, a + 1, m - 1) \in Seq(W) /\ s[m] \in W
    BY <1>3, <1>5
  <2>. QED  BY Zenon, <2>1, AppendJoined
<1>. QED  BY Zenon, <1>2, <1>6, <1>9, <1>10, <1>11 DEF before

-----------------------------------------------------------------------------
(* The pieces a text begins with                                           *)

\* A piece begins at the beginning, and where a piece before ends.
IsStart(s, before, n) == n = 1 \/ \E p \in before : PieceEnd(s, p) = n

StartStep(s, n, before) == IF IsStart(s, before, n) THEN before \cup {n} ELSE before

\* Starts goes through the positions one by one.
LEMMA StartsFollow ==
  ASSUME NEW s, EndOf(s) \in Nat
  PROVE  \E f : /\ Steps(f, EndOf(s), {}, [x \in Nat \X SUBSET Nat |-> StartStep(s, x[1], x[2])])
                /\ f \in [0 .. EndOf(s) -> SUBSET Nat]
                /\ Starts(s) = f[EndOf(s)]
<1>. DEFINE step == [x \in Nat \X SUBSET Nat |-> StartStep(s, x[1], x[2])]
            N == EndOf(s)
            IsUpto(f) == f = [n \in 0 .. N |->
                                IF n = 0 THEN {}
                                ELSE IF n = 1 \/ \E p \in f[n - 1] : PieceEnd(s, p) = n
                                     THEN f[n - 1] \cup {n} ELSE f[n - 1]]
            upto == CHOOSE f : IsUpto(f)
<1>1. step \in [Nat \X SUBSET Nat -> SUBSET Nat]
  <2>1. ASSUME NEW n \in Nat, NEW ns \in SUBSET Nat  PROVE StartStep(s, n, ns) \in SUBSET Nat
    BY DEF StartStep
  <2>. QED  BY <2>1
<1>2. {} \in SUBSET Nat  OBVIOUS
<1>3. \A n \in Nat, ns \in SUBSET Nat : step[<<n, ns>>] = StartStep(s, n, ns)  OBVIOUS
<1>7. Starts(s) = upto[N]  BY DEF Starts
<1>. HIDE DEF step, N, upto
<1>0. N \in Nat  BY DEF N
<1>4. PICK f \in [0 .. N -> SUBSET Nat] : Steps(f, N, {}, step)
  BY <1>0, <1>1, <1>2, StepsExist
<1>5. IsUpto(f)
  <2>1. ASSUME NEW n \in 0 .. N
        PROVE  f[n] = IF n = 0 THEN {}
                      ELSE IF n = 1 \/ \E p \in f[n - 1] : PieceEnd(s, p) = n
                           THEN f[n - 1] \cup {n} ELSE f[n - 1]
    <3>1. CASE n = 0  BY <1>4, <3>1 DEF Steps
    <3>2. CASE n # 0
      <4>1. n \in 1 .. N /\ n \in Nat /\ n - 1 \in 0 .. N  BY <1>0, <3>2
      <4>2. f[n - 1] \in SUBSET Nat  BY <4>1
      <4>3. f[n] = step[<<n, f[n - 1]>>]  BY <1>4, <4>1 DEF Steps
      <4>4. f[n] = StartStep(s, n, f[n - 1])  BY <1>3, <4>1, <4>2, <4>3
      <4>. QED  BY Zenon, <3>2, <4>4 DEF StartStep, IsStart
    <3>. QED  BY <3>1, <3>2
  <2>. QED  BY <2>1
<1>6. IsUpto(upto)  BY <1>5 DEF upto
<1>8. upto[N] = f[N]
  <2>. DEFINE Bad == {n \in 0 .. N : upto[n] # f[n]}
  <2>. SUFFICES ASSUME Bad # {}  PROVE FALSE
    <3>1. N \in 0 .. N  BY <1>0
    <3>. QED  BY Zenon, <3>1
  <2>0. Bad \in SUBSET Nat  BY <1>0
  <2>1. PICK m \in Bad : \A n \in Bad : m <= n  BY <2>0, MinIsFirst
  <2>2. m \in 0 .. N /\ upto[m] # f[m]  OBVIOUS
  <2>3. m # 0  BY <1>5, <1>6, <2>2
  <2>4. m \in 1 .. N /\ m - 1 \in 0 .. N /\ m - 1 \notin Bad  BY <1>0, <2>0, <2>1, <2>3
  <2>5. upto[m - 1] = f[m - 1]  BY <2>4
  <2>. HIDE DEF Bad
  <2>6. /\ f[m] = IF m = 1 \/ \E p \in f[m - 1] : PieceEnd(s, p) = m
                  THEN f[m - 1] \cup {m} ELSE f[m - 1]
        /\ upto[m] = IF m = 1 \/ \E p \in upto[m - 1] : PieceEnd(s, p) = m
                     THEN upto[m - 1] \cup {m} ELSE upto[m - 1]
    BY <1>5, <1>6, <2>2, <2>3
  <2>. QED  BY Zenon, <2>2, <2>5, <2>6
<1>. QED  BY Zenon, <1>4, <1>7, <1>8 DEF step, N

\* A position is a start exactly when an earlier start's piece ends there.
LEMMA StartsAre ==
  ASSUME NEW s, EndOf(s) \in Nat \ {0}
  PROVE  /\ Starts(s) \in SUBSET (1 .. EndOf(s)) /\ 1 \in Starts(s)
         /\ \A n \in 2 .. EndOf(s) :
              n \in Starts(s) <=> \E p \in Starts(s) : p < n /\ PieceEnd(s, p) = n
<1>. DEFINE N == EndOf(s)
            step == [x \in Nat \X SUBSET Nat |-> StartStep(s, x[1], x[2])]
<1>1. N \in Nat /\ N >= 1  OBVIOUS
<1>2. \A n \in Nat, ns \in SUBSET Nat : step[<<n, ns>>] = StartStep(s, n, ns)  OBVIOUS
<1>3. PICK f : /\ Steps(f, N, {}, step) /\ f \in [0 .. N -> SUBSET Nat] /\ Starts(s) = f[N]
  BY <1>1, StartsFollow
<1>. HIDE DEF step, N
<1>4. f[0] = {} /\ \A n \in 1 .. N : f[n] = StartStep(s, n, f[n - 1])
  <2>1. f[0] = {}  BY <1>3 DEF Steps
  <2>2. ASSUME NEW n \in 1 .. N  PROVE f[n] = StartStep(s, n, f[n - 1])
    <3>1. n \in Nat /\ n - 1 \in 0 .. N  BY <1>1
    <3>2. f[n - 1] \in SUBSET Nat  BY <1>3, <3>1
    <3>3. f[n] = step[<<n, f[n - 1]>>]  BY <1>3 DEF Steps
    <3>. QED  BY <1>2, <3>1, <3>2, <3>3
  <2>. QED  BY <2>1, <2>2
<1>. DEFINE Nested(n) == /\ f[n] \subseteq 1 .. n
                         /\ \A m \in 0 .. n : f[m] = {p \in f[n] : p <= m}
            Bad == {n \in 0 .. N : ~Nested(n)}
<1>5. Bad = {}
  <2>. SUFFICES ASSUME Bad # {}  PROVE FALSE  OBVIOUS
  <2>0. Bad \in SUBSET Nat  BY <1>1
  <2>1. PICK m \in Bad : \A n \in Bad : m <= n  BY <2>0, MinIsFirst
  <2>2. m \in 0 .. N /\ ~Nested(m)  BY Zenon
  <2>3. Nested(0)
    <3>1. \A k \in 0 .. 0 : k = 0  OBVIOUS
    <3>. QED  BY <1>4, <3>1
  <2>4. m # 0  BY Zenon, <2>2, <2>3
  <2>5. m \in 1 .. N /\ m - 1 \in 0 .. N /\ m - 1 \notin Bad
    <3>. HIDE DEF Nested
    <3>. QED  BY <1>1, <2>0, <2>1, <2>4
  <2>6. Nested(m - 1)  BY Zenon, <2>5
  <2>7. f[m] = f[m - 1] \cup {m} \/ f[m] = f[m - 1]  BY <1>4, <2>5 DEF StartStep
  <2>8. f[m] \subseteq 1 .. m  BY <1>1, <2>5, <2>6, <2>7
  <2>9. ASSUME NEW k \in 0 .. m  PROVE f[k] = {p \in f[m] : p <= k}
    <3>1. CASE k = m  BY <2>8, <3>1
    <3>2. CASE k # m
      <4>1. k \in 0 .. m - 1  BY <1>1, <2>5, <3>2
      <4>2. f[k] = {p \in f[m - 1] : p <= k}  BY <2>6, <4>1
      <4>3. ~(m <= k)  BY <1>1, <2>5, <4>1
      <4>. QED  BY Zenon, <2>7, <4>2, <4>3
    <3>. QED  BY <3>1, <3>2
  <2>10. Nested(m)  BY <2>8, <2>9
  <2>. QED  BY Zenon, <2>2, <2>10
<1>6. Nested(N)
  <2>1. N \in 0 .. N  BY <1>1
  <2>. QED  BY Zenon, <1>5, <2>1
<1>7. ASSUME NEW n \in 1 .. N
      PROVE  n \in f[N] <=> n = 1 \/ \E p \in f[N] : p < n /\ PieceEnd(s, p) = n
  <2>1. n \in 0 .. N /\ n - 1 \in 0 .. N /\ n \in Nat  BY <1>1
  <2>2. f[n] = {p \in f[N] : p <= n} /\ f[n - 1] = {p \in f[N] : p <= n - 1}
    BY <1>6, <2>1
  <2>3. n \in f[N] <=> n \in f[n]  BY <2>1, <2>2
  <2>4. n \notin f[n - 1]  BY <2>1, <2>2
  <2>5. n \in f[n] <=> IsStart(s, f[n - 1], n)  BY Zenon, <1>4, <2>4 DEF StartStep
  <2>6. \A p \in f[N] : p <= n - 1 <=> p < n  BY <1>1, <1>6, <2>1
  <2>. QED  BY Zenon, <2>2, <2>3, <2>5, <2>6 DEF IsStart
<1>8. f[N] \subseteq 1 .. N  BY <1>6
<1>9. 1 \in 1 .. N /\ \A n \in 2 .. N : n \in 1 .. N /\ n # 1  BY <1>1
<1>. QED  BY Zenon, <1>3, <1>7, <1>8, <1>9 DEF N

\* f begins a piece, and those before it end there at the latest.
Upto(s, f) ==
  f \in Starts(s) /\ \A p \in Starts(s) : p < f => PieceEnd(s, p) \in 0 .. f

\* The next piece begins where this one ends, and none in between.
LEMMA NextPiece ==
  ASSUME NEW s, EndOf(s) \in Nat \ {0}, NEW f, Upto(s, f),
         NEW g \in f + 1 .. EndOf(s), PieceEnd(s, f) = g
  PROVE  Upto(s, g) /\ \A n \in f + 1 .. g - 1 : n \notin Starts(s)
<1>. DEFINE N == EndOf(s)
<1>1. /\ N \in Nat /\ Starts(s) \in SUBSET (1 .. N)
      /\ \A n \in 2 .. N : n \in Starts(s) <=> \E p \in Starts(s) : p < n /\ PieceEnd(s, p) = n
  BY StartsAre
<1>. HIDE DEF N
<1>2. f \in Starts(s) /\ f \in 1 .. N /\ \A p \in Starts(s) : p < f => PieceEnd(s, p) \in 0 .. f
  BY <1>1 DEF Upto
<1>3. g \in f + 1 .. N  BY DEF N
<1>4. g \in Nat /\ f \in Nat /\ f >= 1 /\ f < g /\ g \in 2 .. N  BY <1>1, <1>2, <1>3
<1>5. g \in Starts(s)  BY <1>1, <1>2, <1>4
<1>6. \A n \in f + 1 .. g - 1 : n \notin Starts(s)
  <2>. DEFINE Bad == {n \in f + 1 .. g - 1 : n \in Starts(s)}
  <2>. SUFFICES ASSUME Bad # {}  PROVE FALSE  OBVIOUS
  <2>0. Bad \in SUBSET Nat  BY <1>4
  <2>1. PICK m \in Bad : \A n \in Bad : m <= n
    <3>. HIDE DEF Bad
    <3>. QED  BY <2>0, MinIsFirst
  <2>2. m \in f + 1 .. g - 1 /\ m \in Starts(s) /\ m \in 2 .. N /\ m \in Nat
    BY <1>1, <1>4
  <2>3. PICK p \in Starts(s) : p < m /\ PieceEnd(s, p) = m  BY <1>1, <2>2
  <2>4. p \in Nat  BY <1>1
  <2>5. CASE p < f
    <3>1. m <= f  BY <1>2, <2>3, <2>5
    <3>. QED  BY <1>4, <2>2, <3>1
  <2>6. CASE p = f
    <3>1. m = g  BY <2>3, <2>6
    <3>. QED  BY <1>4, <2>2, <3>1
  <2>7. CASE p > f
    <3>1. p \in f + 1 .. g - 1  BY <1>4, <2>2, <2>3, <2>4, <2>7
    <3>2. p \in Bad  BY <3>1
    <3>. QED  BY <2>1, <2>2, <2>3, <2>4, <3>2
  <2>. QED  BY <1>4, <2>4, <2>5, <2>6, <2>7
<1>7. ASSUME NEW p \in Starts(s), p < g  PROVE PieceEnd(s, p) \in 0 .. g
  <2>1. p \in Nat /\ ~(p \in f + 1 .. g - 1)  BY <1>1, <1>6
  <2>2. p < f \/ p = f  BY <1>4, <1>7, <2>1
  <2>3. CASE p = f  BY <1>4, <2>3
  <2>4. CASE p < f
    <3>1. PieceEnd(s, p) \in 0 .. f  BY <1>2, <2>4
    <3>. QED  BY <1>4, <3>1
  <2>. QED  BY <2>2, <2>3, <2>4
<1>. QED  BY <1>5, <1>6, <1>7 DEF Upto

\* Nothing begins behind a statement of another kind.
LEMMA NoneBehind ==
  ASSUME NEW s, EndOf(s) \in Nat \ {0}, NEW f, Upto(s, f), PieceEnd(s, f) = 0
  PROVE  \A n \in Starts(s) : n <= f
<1>. DEFINE N == EndOf(s)
<1>1. /\ N \in Nat /\ Starts(s) \in SUBSET (1 .. N)
      /\ \A n \in 2 .. N : n \in Starts(s) <=> \E p \in Starts(s) : p < n /\ PieceEnd(s, p) = n
  BY StartsAre
<1>. HIDE DEF N
<1>2. f \in Starts(s) /\ f \in 1 .. N /\ \A p \in Starts(s) : p < f => PieceEnd(s, p) \in 0 .. f
  BY <1>1 DEF Upto
<1>. DEFINE Bad == {n \in Starts(s) : ~(n <= f)}
<1>. SUFFICES ASSUME Bad # {}  PROVE FALSE  OBVIOUS
<1>3. Bad \in SUBSET Nat  BY <1>1
<1>4. PICK m \in Bad : \A n \in Bad : m <= n  BY <1>3, MinIsFirst
<1>5. m \in Starts(s) /\ m \in 2 .. N /\ m \in Nat /\ f \in Nat /\ ~(m <= f)
  BY <1>1, <1>2
<1>6. PICK p \in Starts(s) : p < m /\ PieceEnd(s, p) = m  BY <1>1, <1>5
<1>7. p \in Nat  BY <1>1
<1>8. CASE p < f  BY <1>2, <1>5, <1>6, <1>8
<1>9. CASE p = f  BY <1>5, <1>6, <1>9
<1>10. CASE p > f
  <2>1. p \in Bad  BY <1>5, <1>7, <1>10
  <2>. QED  BY <1>4, <1>5, <1>6, <1>7, <2>1
<1>. QED  BY <1>5, <1>7, <1>8, <1>9, <1>10

-----------------------------------------------------------------------------
(* Parts of a text                                                         *)

\* A bounded set of positions that is not empty has a last one.
LEMMA MaxIsLast ==
  ASSUME NEW N \in Nat, NEW S \in SUBSET (1 .. N), S # {}
  PROVE  Max(S) \in S /\ \A n \in S : n <= Max(S)
<1>. DEFINE D == {N - n : n \in S}
<1>1. D \in SUBSET Nat /\ D # {}
  <2>1. \A n \in S : N - n \in Nat  OBVIOUS
  <2>2. PICK n \in S : TRUE  OBVIOUS
  <2>3. N - n \in D  OBVIOUS
  <2>. QED  BY Zenon, <2>1, <2>3
<1>2. PICK d \in D : \A e \in D : d <= e  BY <1>1, MinIsFirst
<1>3. PICK m \in S : d = N - m  OBVIOUS
<1>4. \A n \in S : m >= n
  <2>. SUFFICES ASSUME NEW n \in S  PROVE m >= n  OBVIOUS
  <2>1. N - m <= N - n  BY <1>2, <1>3
  <2>2. m \in 1 .. N /\ n \in 1 .. N  OBVIOUS
  <2>. QED  BY <2>1, <2>2
<1>5. Max(S) \in S /\ \A n \in S : Max(S) >= n  BY <1>4 DEF Max
<1>. QED  BY <1>5

LEMMA MinIs ==
  ASSUME NEW S \in SUBSET Nat, NEW m \in S, \A n \in S : m <= n
  PROVE  Min(S) = m
<1>1. Min(S) \in S /\ \A n \in S : Min(S) <= n  BY MinIsFirst
<1>2. Min(S) <= m /\ m <= Min(S) /\ Min(S) \in Nat /\ m \in Nat  BY <1>1
<1>. QED  BY <1>2

LEMMA MaxIs ==
  ASSUME NEW N \in Nat, NEW S \in SUBSET (1 .. N), NEW m \in S, \A n \in S : n <= m
  PROVE  Max(S) = m
<1>1. Max(S) \in S /\ \A n \in S : n <= Max(S)  BY MaxIsLast
<1>2. Max(S) <= m /\ m <= Max(S) /\ Max(S) \in 1 .. N /\ m \in 1 .. N  BY <1>1
<1>. QED  BY <1>2

\* Positions in a part of a text are positions of the text, moved.
LEMMA PartInside ==
  ASSUME NEW T, NEW s \in Seq(T), NEW u \in 1 .. Len(s), NEW v \in 1 .. Len(s),
         NEW a \in 1 .. v - u + 1, NEW b \in 1 .. v - u + 1
  PROVE  SubSeq(SubSeq(s, u, v), a, b) = SubSeq(s, u + a - 1, u + b - 1)
OBVIOUS

LEMMA PartOfPart ==
  ASSUME NEW T, NEW s \in Seq(T), NEW u \in 1 .. Len(s), NEW v \in u .. Len(s),
         NEW a \in Nat \ {0}, NEW b \in Nat, b <= v - u + 1
  PROVE  SubSeq(SubSeq(s, u, v), a, b) = SubSeq(s, u + a - 1, u + b - 1)
<1>0. Len(s) \in Nat /\ u \in Nat /\ v \in Nat /\ u >= 1 /\ u <= v /\ v <= Len(s)  OBVIOUS
<1>1. CASE b < a
  <2>1. SubSeq(SubSeq(s, u, v), a, b) = << >>  BY <1>1, SubSeqEmpty
  <2>2. u + b - 1 < u + a - 1 /\ u + b - 1 \in Int /\ u + a - 1 \in Int  BY <1>0, <1>1
  <2>3. SubSeq(s, u + a - 1, u + b - 1) = << >>  BY <2>2, SubSeqEmpty
  <2>. QED  BY <2>1, <2>3
<1>2. CASE a <= b
  <2>1. /\ u \in 1 .. Len(s) /\ v \in 1 .. Len(s) /\ a \in 1 .. v - u + 1
        /\ b \in 1 .. v - u + 1
    BY <1>0, <1>2
  <2>. QED  BY <2>1, PartInside
<1>3. b < a \/ a <= b  OBVIOUS
<1>. QED  BY Zenon, <1>1, <1>2, <1>3

\* What trim keeps of a part.
Written(s, a, b) == {n \in a .. b : ~isspace(s[n])}

\* Trimming a part is cutting the text at the part's outermost written characters.
LEMMA TrimOfPart ==
  ASSUME NEW T, NEW s \in Seq(T), NEW a \in Nat \ {0}, NEW b \in Nat, b <= Len(s)
  PROVE  trim(SubSeq(s, a, b)) =
           IF Written(s, a, b) = {} THEN << >>
           ELSE SubSeq(s, Min(Written(s, a, b)), Max(Written(s, a, b)))
<1>. DEFINE part == SubSeq(s, a, b)
            w == Written(s, a, b)
            v == {n \in DOMAIN part : ~isspace(part[n])}
<1>0. Len(s) \in Nat /\ DOMAIN s = 1 .. Len(s) /\ \A n \in 1 .. Len(s) : s[n] \in T  OBVIOUS
<1>1. trim(part) = IF v = {} THEN << >> ELSE SubSeq(part, Min(v), Max(v))  BY DEF trim
<1>2. CASE b < a
  <2>1. part = << >> /\ a .. b = {}  BY <1>2, SubSeqEmpty
  <2>2. v = {}  BY <2>1
  <2>3. w = {}  BY <2>1 DEF Written
  <2>. QED  BY Zenon, <1>1, <2>2, <2>3
<1>3. CASE a <= b
  <2>1. \A n \in a .. b : s[n] \in T  BY <1>0
  <2>2. /\ part \in Seq(T) /\ Len(part) = b - a + 1
        /\ \A n \in 1 .. b - a + 1 : part[n] = s[a + n - 1]
    BY <1>3, <2>1, SubSeqProperties
  <2>3. DOMAIN part = 1 .. b - a + 1 /\ b - a + 1 \in Nat  BY <1>3, <2>2
  <2>. HIDE DEF part
  <2>4. ASSUME NEW n \in v  PROVE a + n - 1 \in w
    <3>1. n \in 1 .. b - a + 1 /\ ~isspace(part[n])  BY <2>3
    <3>2. a + n - 1 \in a .. b /\ ~isspace(s[a + n - 1])  BY <2>2, <2>3, <3>1
    <3>. QED  BY <3>2 DEF Written
  <2>5. ASSUME NEW n \in w  PROVE n - a + 1 \in v
    <3>1. n \in a .. b /\ ~isspace(s[n])  BY DEF Written
    <3>2. n - a + 1 \in 1 .. b - a + 1 /\ a + (n - a + 1) - 1 = n  BY <3>1
    <3>3. part[n - a + 1] = s[n]  BY <2>2, <3>2
    <3>. QED  BY <2>3, <3>1, <3>2, <3>3
  <2>6. v \in SUBSET (1 .. b - a + 1) /\ w \in SUBSET (1 .. b) /\ v \in SUBSET Nat
        /\ w \in SUBSET Nat
    BY <2>3 DEF Written
  <2>. HIDE DEF v, w
  <2>7. CASE v = {}
    <3>1. w = {}  BY <2>5, <2>7
    <3>. QED  BY Zenon, <1>1, <2>7, <3>1 DEF part, w
  <2>8. CASE v # {}
    <3>1. w # {}  BY <2>4, <2>8
    <3>. DEFINE m == Min(v)
                k == Max(v)
    <3>2. m \in v /\ \A n \in v : m <= n  BY <2>6, <2>8, MinIsFirst
    <3>3. k \in v /\ \A n \in v : n <= k  BY <2>3, <2>6, <2>8, MaxIsLast
    <3>. HIDE DEF m, k
    <3>4. m \in 1 .. b - a + 1 /\ k \in 1 .. b - a + 1 /\ m \in Nat /\ k \in Nat
      BY <2>3, <2>6, <3>2, <3>3
    <3>5. Min(w) = a + m - 1
      <4>1. ASSUME NEW n \in w  PROVE a + m - 1 <= n
        <5>1. n \in Nat /\ n - a + 1 \in v  BY <2>5, <2>6
        <5>2. m <= n - a + 1  BY <3>2, <5>1
        <5>. QED  BY <3>4, <5>1, <5>2
      <4>2. a + m - 1 \in w  BY <2>4, <3>2
      <4>. QED  BY <2>6, <4>1, <4>2, MinIs
    <3>6. Max(w) = a + k - 1
      <4>1. ASSUME NEW n \in w  PROVE n <= a + k - 1
        <5>1. n \in Nat /\ n - a + 1 \in v  BY <2>5, <2>6
        <5>2. n - a + 1 <= k  BY <3>3, <5>1
        <5>. QED  BY <3>4, <5>1, <5>2
      <4>2. a + k - 1 \in w  BY <2>4, <3>3
      <4>. QED  BY <2>6, <4>1, <4>2, MaxIs
    <3>7. SubSeq(part, m, k) = SubSeq(s, a + m - 1, a + k - 1)
      <4>1. a \in 1 .. Len(s) /\ b \in a .. Len(s) /\ m \in Nat \ {0} /\ k <= b - a + 1
        BY <1>0, <1>3, <3>4
      <4>. QED  BY <3>4, <4>1, PartOfPart DEF part
    <3>8. trim(part) = SubSeq(part, m, k)  BY Zenon, <1>1, <2>8 DEF m, k
    <3>. QED  BY Zenon, <3>1, <3>5, <3>6, <3>7, <3>8 DEF part, w
  <2>. QED  BY <2>7, <2>8
<1>. QED  BY <1>2, <1>3

\* Parts that differ by blanks at their ends are the same when trimmed.
LEMMA TrimmedAlike ==
  ASSUME NEW T, NEW s \in Seq(T), NEW a \in Nat \ {0}, NEW b \in Nat, b <= Len(s),
         NEW c \in Nat \ {0}, NEW d \in Nat, d <= Len(s), Written(s, a, b) = Written(s, c, d)
  PROVE  trim(SubSeq(s, a, b)) = trim(SubSeq(s, c, d))
BY TrimOfPart

-----------------------------------------------------------------------------
(* What a statement means                                                  *)

\* The five kinds of pieces exclude each other.
LEMMA PieceEndIs ==
  ASSUME NEW s, NEW p
  PROVE  /\ isspace(s[p]) => PieceEnd(s, p) = p + 1
         /\ Pair(s, p, "-", "-") =>
              PieceEnd(s, p) = After(s, {n \in From(s, p + 2) : s[n] = NewLine}, 1)
         /\ Pair(s, p, "/", "*") =>
              PieceEnd(s, p) = After(s, {n \in From(s, p + 2) : Pair(s, n, "*", "/")}, 2)
         /\ SetAt(s, p) =>
              PieceEnd(s, p) = After(s, {n \in From(s, p + 1) :
                                           s[n] = ";" /\ s[n - 1] # Backslash}, 1)
         /\ ~isspace(s[p]) /\ ~Pair(s, p, "-", "-") /\ ~Pair(s, p, "/", "*") /\ ~SetAt(s, p)
              => PieceEnd(s, p) = 0
<1>. DEFINE line == After(s, {n \in From(s, p + 2) : s[n] = NewLine}, 1)
            closed == After(s, {n \in From(s, p + 2) : Pair(s, n, "*", "/")}, 2)
            ended == After(s, {n \in From(s, p + 1) : s[n] = ";" /\ s[n - 1] # Backslash}, 1)
            blank == isspace(s[p])
            dashes == Pair(s, p, "-", "-")
            slash == Pair(s, p, "/", "*")
            set == SetAt(s, p)
<1>1. PieceEnd(s, p) = CASE blank  -> p + 1
                         [] dashes -> line
                         [] slash  -> closed
                         [] set    -> ended
                         [] OTHER  -> 0
  BY DEF PieceEnd
<1>2. /\ ~(blank /\ dashes) /\ ~(blank /\ slash) /\ ~(blank /\ set) /\ ~(dashes /\ slash)
      /\ ~(dashes /\ set) /\ ~(slash /\ set)
  BY DEF isspace, Blank, NewLine, Pair, SetAt
<1>. HIDE DEF line, closed, ended, blank, dashes, slash, set
<1>3. /\ blank => PieceEnd(s, p) = p + 1
      /\ dashes => PieceEnd(s, p) = line
      /\ slash => PieceEnd(s, p) = closed
      /\ set => PieceEnd(s, p) = ended
      /\ ~blank /\ ~dashes /\ ~slash /\ ~set => PieceEnd(s, p) = 0
  BY <1>1, <1>2
<1>. QED  BY Zenon, <1>3 DEF line, closed, ended, blank, dashes, slash, set

\* The body of a statement that begins at p: at from the first character is written.
IsBody(s, p, from) ==
  /\ p \in Nat \ {0} /\ from \in p + 2 .. Len(s) /\ SetAt(s, p)
  /\ \A n \in p + 1 .. from - 1 : isspace(s[n])
  /\ ~isspace(s[from])

LEMMA BodyIs ==
  ASSUME NEW T, NEW s \in Seq(T), NEW p, NEW from, IsBody(s, p, from)
  PROVE  /\ Len(s) \in Nat /\ DOMAIN s = 1 .. Len(s) /\ p \in Nat /\ p >= 1
         /\ from \in Nat /\ p + 2 <= from /\ from <= Len(s)
BY DEF IsBody

\* The semicolon the parser finds is the one that ends the statement.
LEMMA FirstSemicolon ==
  ASSUME NEW T, NEW s \in Seq(T), NEW p, NEW from, IsBody(s, p, from)
  PROVE  PieceEnd(s, p) = After(s, Semicolons(s, from), 1)
<1>1. /\ Len(s) \in Nat /\ DOMAIN s = 1 .. Len(s) /\ p \in Nat /\ p >= 1
      /\ from \in Nat /\ p + 2 <= from /\ from <= Len(s)
  BY BodyIs
<1>2. \A n \in p + 1 .. from - 1 : s[n] # ";"
  BY DEF IsBody, isspace, Blank, NewLine
<1>. DEFINE all == {n \in From(s, p + 1) : s[n] = ";" /\ s[n - 1] # Backslash}
<1>3. \A n : n \in From(s, from) => n \in From(s, p + 1) /\ n # 1  BY <1>1 DEF From
<1>4. \A n : n \in From(s, p + 1) => n \in From(s, from) \/ n \in p + 1 .. from - 1
  BY <1>1 DEF From
<1>5. all = Semicolons(s, from)
  BY Zenon, <1>2, <1>3, <1>4 DEF Semicolons
<1>6. PieceEnd(s, p) = After(s, all, 1)  BY PieceEndIs DEF IsBody
<1>. QED  BY Zenon, <1>5, <1>6

\* A statement without a semicolon is reported as one.
LEMMA UnendedMeans ==
  ASSUME NEW T, NEW s \in Seq(T), NEW p, NEW from, IsBody(s, p, from),
         Semicolons(s, from) = {}
  PROVE  PieceEnd(s, p) = EndOf(s) /\ Meaning(s, p).error = "missing semicolon"
<1>1. /\ Len(s) \in Nat /\ DOMAIN s = 1 .. Len(s) /\ p \in Nat /\ p >= 1
      /\ from \in Nat /\ p + 2 <= from /\ from <= Len(s)
  BY BodyIs
<1>2. PieceEnd(s, p) = EndOf(s)  BY FirstSemicolon DEF After
<1>3. PieceEnd(s, p) - 1 = Len(s)  BY <1>1, <1>2 DEF EndOf
<1>4. s[Len(s)] # ";" \/ s[Len(s) - 1] = Backslash
  <2>1. Len(s) \in From(s, from) /\ Len(s) # 1  BY <1>1 DEF From
  <2>2. Len(s) \notin Semicolons(s, from)  OBVIOUS
  <2>. QED  BY Zenon, <2>1, <2>2 DEF Semicolons
<1>. DEFINE body == IF s[Len(s)] # ";" \/ s[Len(s) - 1] = Backslash THEN {}
                    ELSE p + 1 .. Len(s) - 1
<1>5. body = {}  BY <1>4
<1>6. Meaning(s, p).error = "missing semicolon"
  BY <1>3, <1>5 DEF Meaning
<1>. QED  BY <1>2, <1>6

\* The places of "=" in a part of the text, and the key before the first of them.
EqualsIn(s, a, b) == {n \in a .. b : s[n] = "="}

\* The cases of a statement that has its semicolon.
LEMMA MeaningIs ==
  ASSUME NEW s, NEW p, NEW last, PieceEnd(s, p) - 1 = last, s[last] = ";",
         s[last - 1] # Backslash, p + 1 .. last - 1 # {}
  PROVE  LET equals == EqualsIn(s, p + 1, last - 1)
             key == trim(SubSeq(s, p + 1, Min(equals) - 1))
         IN  /\ equals = {} => Meaning(s, p).error = "missing ="
             /\ equals # {} /\ key = << >> => Meaning(s, p).error = "empty key"
             /\ equals # {} /\ key # << >> =>
                  /\ Meaning(s, p).error = ""
                  /\ Meaning(s, p).key = key
                  /\ Meaning(s, p).value =
                       Unescape(trim(SubSeq(s, Min(equals) + 1, last - 1)))
<1>. DEFINE body == p + 1 .. last - 1
            equals == EqualsIn(s, p + 1, last - 1)
            key == trim(SubSeq(s, p + 1, Min(equals) - 1))
            value == Unescape(trim(SubSeq(s, Min(equals) + 1, last - 1)))
            m == Meaning(s, p)
<1>1. m = CASE body = {} -> [error |-> "missing semicolon"]
                        [] body # {} /\ equals = {} -> [error |-> "missing ="]
                        [] equals # {} /\ key = << >> -> [error |-> "empty key"]
                        [] equals # {} /\ key # << >> ->
                             [error |-> "", key |-> key, value |-> value]
  BY Zenon DEF Meaning, EqualsIn
<1>2. body # {}  OBVIOUS
<1>. HIDE DEF body, equals, key, value, m
<1>3. CASE equals = {}
  <2>1. m = [error |-> "missing ="]  BY <1>1, <1>2, <1>3
  <2>2. m.error = "missing ="  BY <2>1
  <2>. QED  BY Zenon, <1>3, <2>2 DEF equals, m
<1>4. CASE equals # {} /\ key = << >>
  <2>1. m = [error |-> "empty key"]  BY <1>1, <1>2, <1>4
  <2>2. m.error = "empty key"  BY <2>1
  <2>. QED  BY Zenon, <1>4, <2>2 DEF equals, key, m
<1>5. CASE equals # {} /\ key # << >>
  <2>1. m = [error |-> "", key |-> key, value |-> value]  BY <1>1, <1>2, <1>5
  <2>2. m.error = "" /\ m.key = key /\ m.value = value
    BY <2>1
  <2>. QED  BY Zenon, <1>5, <2>2 DEF equals, key, value, m
<1>. QED  BY Zenon, <1>3, <1>4, <1>5 DEF equals, key, value, m

\* The "=" the parser finds in a part is the first one there.
LEMMA EqualsIs ==
  ASSUME NEW T, NEW s \in Seq(T), NEW a \in Nat \ {0}, NEW b \in Nat, b <= Len(s)
  PROVE  LET places == EqualsIn(s, a, b)
         IN  /\ places = {} => Equals(SubSeq(s, a, b)) = 0
             /\ places # {} => /\ Equals(SubSeq(s, a, b)) = Min(places) - a + 1
                               /\ Min(places) \in a .. b /\ a <= b
<1>. DEFINE part == SubSeq(s, a, b)
            places == EqualsIn(s, a, b)
            found0 == {n \in 1 .. Len(part) : part[n] = "="}
<1>0. Len(s) \in Nat /\ DOMAIN s = 1 .. Len(s) /\ \A n \in 1 .. Len(s) : s[n] \in T  OBVIOUS
<1>1. Equals(part) = IF found0 # {} THEN Min(found0) ELSE 0
  BY Zenon DEF Equals, SelectInSeq
<1>2. \A n \in a .. b : s[n] \in T  BY <1>0
<1>3. /\ Len(part) = IF a <= b THEN b - a + 1 ELSE 0
      /\ \A n \in 1 .. b - a + 1 : part[n] = s[a + n - 1]
  BY <1>2, SubSeqProperties
<1>. HIDE DEF part
<1>4. ASSUME NEW n \in found0  PROVE a + n - 1 \in places
  <2>1. n \in 1 .. b - a + 1 /\ n \in 1 .. Len(part) /\ part[n] = "="  BY <1>3
  <2>2. a + n - 1 \in a .. b /\ s[a + n - 1] = "="  BY <1>3, <2>1
  <2>. QED  BY <2>2 DEF EqualsIn
<1>5. ASSUME NEW n \in places  PROVE n - a + 1 \in found0
  <2>1. n \in a .. b /\ s[n] = "="  BY DEF EqualsIn
  <2>2. n - a + 1 \in 1 .. b - a + 1 /\ a + (n - a + 1) - 1 = n  BY <2>1
  <2>3. part[n - a + 1] = s[n]  BY <1>3, <2>2
  <2>4. n - a + 1 \in 1 .. Len(part)  BY <1>3, <2>1, <2>2
  <2>. QED  BY <2>1, <2>3, <2>4
<1>6. found0 \in SUBSET Nat /\ places \in SUBSET Nat /\ \A n \in places : n \in a .. b
  BY <1>3 DEF EqualsIn
<1>. HIDE DEF found0, places
<1>7. CASE places = {}
  <2>1. found0 = {}  BY <1>4, <1>7
  <2>. QED  BY Zenon, <1>1, <1>7, <2>1 DEF part, places
<1>8. CASE places # {}
  <2>1. found0 # {}  BY <1>5, <1>8
  <2>2. PICK m \in places : m = Min(places) /\ \A n \in places : m <= n
    BY <1>6, <1>8, MinIsFirst
  <2>3. m \in Nat /\ m \in a .. b  BY <1>6
  <2>4. m - a + 1 \in found0  BY <1>5
  <2>5. ASSUME NEW n \in found0  PROVE m - a + 1 <= n
    <3>1. n \in Nat /\ a + n - 1 \in places  BY <1>4, <1>6
    <3>2. m <= a + n - 1  BY <2>2, <3>1
    <3>. QED  BY <2>3, <3>1, <3>2
  <2>6. Min(found0) = m - a + 1  BY <1>6, <2>4, <2>5, MinIs
  <2>7. Equals(part) = m - a + 1  BY Zenon, <1>1, <2>1, <2>6
  <2>8. a <= b  BY <2>3
  <2>. QED  BY Zenon, <1>8, <2>2, <2>3, <2>7, <2>8 DEF part, places
<1>. QED  BY Zenon, <1>7, <1>8 DEF places

\* What parseKeyValue reads between the first written character and the semicolon is
\* what the statement means.
LEMMA EndedMeans ==
  ASSUME NEW T, NEW s \in Seq(T), NEW p, NEW from, IsBody(s, p, from),
         Semicolons(s, from) # {}
  PROVE  LET next == After(s, Semicolons(s, from), 1)
             kv == trim(SubSeq(s, from, next - 2))
         IN  /\ PieceEnd(s, p) = next /\ next \in from + 1 .. EndOf(s)
             /\ Equals(kv) = 0 => Meaning(s, p).error = "missing ="
             /\ Equals(kv) # 0 /\ KeyOf(kv) = << >> => Meaning(s, p).error = "empty key"
             /\ Equals(kv) # 0 /\ KeyOf(kv) # << >> =>
                  /\ Meaning(s, p).error = ""
                  /\ Meaning(s, p).key = KeyOf(kv) /\ Meaning(s, p).value = ValueOf(kv)
<1>. DEFINE sc == Semicolons(s, from)
            last == Min(sc)
            next == After(s, sc, 1)
            kv == trim(SubSeq(s, from, next - 2))
<1>1. /\ Len(s) \in Nat /\ DOMAIN s = 1 .. Len(s) /\ p \in Nat /\ p >= 1
      /\ from \in Nat /\ p + 2 <= from /\ from <= Len(s)
  BY BodyIs
<1>2. last \in sc /\ sc \in SUBSET (from .. Len(s))
  <2>1. sc \in SUBSET (from .. Len(s))  BY DEF Semicolons, From
  <2>2. sc \in SUBSET Nat  BY <1>1, <2>1
  <2>. HIDE DEF sc
  <2>3. sc # {}  BY DEF sc
  <2>. QED  BY <2>1, <2>2, <2>3, MinIsFirst
<1>3. s[last] = ";" /\ s[last - 1] # Backslash /\ last \in from .. Len(s)
  <2>1. last \in from .. Len(s) /\ s[last] = ";" /\ (last = 1 \/ s[last - 1] # Backslash)
    BY Zenon, <1>2 DEF Semicolons
  <2>2. last \in from .. Len(s)  BY <2>1
  <2>. HIDE DEF last
  <2>3. last # 1  BY <1>1, <2>2
  <2>. QED  BY Zenon, <2>1, <2>3
<1>4. next = last + 1 /\ PieceEnd(s, p) = next
  <2>1. next = last + 1  BY Zenon DEF After
  <2>. QED  BY Zenon, <2>1, FirstSemicolon DEF next, sc
<1>. HIDE DEF sc, last, next
<1>5. /\ last \in Nat /\ from <= last /\ last <= Len(s) /\ last - 1 \in Nat
      /\ next - 2 = last - 1 /\ next \in from + 1 .. EndOf(s) /\ next - 1 = last
  <2>1. last \in from .. Len(s) /\ next = last + 1  BY Zenon, <1>3, <1>4
  <2>. QED  BY <1>1, <2>1 DEF EndOf
<1>6. p + 1 .. last - 1 # {}
  <2>1. p + 1 \in p + 1 .. last - 1  BY <1>1, <1>5
  <2>. QED  BY <2>1
<1>. DEFINE equals == EqualsIn(s, p + 1, last - 1)
            key == trim(SubSeq(s, p + 1, Min(equals) - 1))
            value == Unescape(trim(SubSeq(s, Min(equals) + 1, last - 1)))
<1>7. /\ equals = {} => Meaning(s, p).error = "missing ="
      /\ equals # {} /\ key = << >> => Meaning(s, p).error = "empty key"
      /\ equals # {} /\ key # << >> =>
           /\ Meaning(s, p).error = ""
           /\ Meaning(s, p).key = key /\ Meaning(s, p).value = value
  <2>1. PieceEnd(s, p) - 1 = last  BY <1>4, <1>5
  <2>. QED  BY <1>3, <1>6, <2>1, MeaningIs
<1>8. \A n \in p + 1 .. from - 1 : isspace(s[n]) /\ s[n] # "="
  BY DEF IsBody, isspace, Blank, NewLine
<1>9. ~isspace(s[from])  BY DEF IsBody
<1>10. \A n : n \in p + 1 .. last - 1 <=> n \in p + 1 .. from - 1 \/ n \in from .. last - 1
  BY <1>1, <1>5
<1>11. equals = EqualsIn(s, from, last - 1)
  BY Zenon, <1>8, <1>10 DEF EqualsIn
<1>. DEFINE written == Written(s, from, last - 1)
            end == Max(written)
<1>12. kv = trim(SubSeq(s, from, last - 1))  BY <1>5
<1>13. kv = IF written = {} THEN << >> ELSE SubSeq(s, Min(written), end)
  <2>1. from \in Nat \ {0} /\ last - 1 \in Nat /\ last - 1 <= Len(s)  BY <1>1, <1>5
  <2>2. trim(SubSeq(s, from, last - 1)) =
          IF written = {} THEN << >> ELSE SubSeq(s, Min(written), Max(written))
    BY <2>1, TrimOfPart
  <2>. QED  BY Zenon, <1>12, <2>2
<1>. HIDE DEF kv, equals
<1>14. CASE from = last
  <2>1. from .. last - 1 = {}  BY <1>5, <1>14
  <2>2. equals = {} /\ written = {}  BY Zenon, <1>11, <2>1 DEF EqualsIn, Written
  <2>3. kv = << >>  BY Zenon, <1>13, <2>2
  <2>4. Equals(kv) = 0
    <3>1. {n \in 1 .. Len(<< >>) : << >>[n] = "="} = {}  OBVIOUS
    <3>. QED  BY Zenon, <2>3, <3>1 DEF Equals, SelectInSeq
  <2>. QED  BY Zenon, <1>4, <1>5, <1>7, <2>2, <2>4 DEF equals, next, kv, sc
<1>15. CASE from # last
  <2>1. from \in written /\ written \in SUBSET (1 .. last - 1) /\ written \in SUBSET Nat
    BY <1>1, <1>5, <1>9, <1>15 DEF Written
  <2>2. \A n \in written : from <= n  BY <1>1, <1>5 DEF Written
  <2>. HIDE DEF written
  <2>3. Min(written) = from  BY <2>1, <2>2, MinIs
  <2>4. end \in written /\ \A n \in written : n <= end  BY <1>5, <2>1, MaxIsLast
  <2>. HIDE DEF end
  <2>5. end \in from .. last - 1 /\ end \in Nat /\ from <= end /\ end <= last - 1
    BY <1>1, <1>5, <2>1, <2>2, <2>4
  <2>6. kv = SubSeq(s, from, end)
    <3>1. written # {}  BY <2>1
    <3>. QED  BY Zenon, <1>13, <2>3, <3>1 DEF end
  <2>7. \A n \in end + 1 .. last - 1 : isspace(s[n])
    <3>1. ASSUME NEW n \in end + 1 .. last - 1, ~isspace(s[n])  PROVE FALSE
      <4>1. n \in from .. last - 1 /\ ~(n <= end)  BY <1>1, <1>5, <2>5
      <4>2. n \in written  BY <3>1, <4>1 DEF written, Written
      <4>. QED  BY <2>4, <4>1, <4>2
    <3>. QED  BY <3>1
  <2>8. EqualsIn(s, from, end) = equals
    <3>1. \A n : n \in from .. last - 1 <=> n \in from .. end \/ n \in end + 1 .. last - 1
      BY <1>1, <1>5, <2>5
    <3>2. \A n \in end + 1 .. last - 1 : s[n] # "="
      BY <2>7 DEF isspace, Blank, NewLine
    <3>3. EqualsIn(s, from, end) = EqualsIn(s, from, last - 1)
      <4>1. ASSUME NEW n \in from .. last - 1, s[n] = "="  PROVE n \in from .. end
        BY Zenon, <3>1, <3>2, <4>1
      <4>2. \A n \in from .. end : n \in from .. last - 1  BY Zenon, <3>1
      <4>. QED  BY Zenon, <4>1, <4>2 DEF EqualsIn
    <3>. QED  BY Zenon, <1>11, <3>3
  <2>9. from \in Nat \ {0} /\ end <= Len(s)  BY <1>1, <1>5, <2>5
  <2>10. /\ equals = {} => Equals(kv) = 0
         /\ equals # {} => /\ Equals(kv) = Min(equals) - from + 1
                           /\ Min(equals) \in from .. end
    <3>1. LET places == EqualsIn(s, from, end)
          IN  /\ places = {} => Equals(SubSeq(s, from, end)) = 0
              /\ places # {} => /\ Equals(SubSeq(s, from, end)) = Min(places) - from + 1
                                /\ Min(places) \in from .. end /\ from <= end
      BY <2>5, <2>9, EqualsIs
    <3>. QED  BY Zenon, <2>6, <2>8, <3>1
  <2>11. CASE equals = {}
    BY Zenon, <1>4, <1>5, <1>7, <2>10, <2>11 DEF equals, next, kv, sc
  <2>12. CASE equals # {}
    <3>. DEFINE q == Min(equals)
    <3>1. Equals(kv) = q - from + 1 /\ q \in from .. end  BY <2>10, <2>12
    <3>. HIDE DEF q
    <3>2. q \in Nat /\ from <= q /\ q <= end /\ Equals(kv) # 0  BY <1>1, <2>5, <3>1
    <3>3. Len(kv) = end - from + 1
      <4>1. \A n \in from .. end : s[n] \in T  BY <1>1, <2>5, <2>9
      <4>. QED  BY <1>1, <2>5, <2>6, <4>1, SubSeqProperties
    <3>4. KeyOf(kv) = key
      <4>1. SubSeq(kv, 1, q - from) = SubSeq(s, from, q - 1)
        <5>1. /\ from \in 1 .. Len(s) /\ end \in from .. Len(s) /\ 1 \in Nat \ {0}
              /\ q - from \in Nat /\ q - from <= end - from + 1
          BY <1>1, <2>5, <2>9, <3>2
        <5>2. SubSeq(SubSeq(s, from, end), 1, q - from)
              = SubSeq(s, from + 1 - 1, from + (q - from) - 1)
          BY <5>1, PartOfPart
        <5>3. from + 1 - 1 = from /\ from + (q - from) - 1 = q - 1  BY <1>1, <3>2
        <5>. QED  BY Zenon, <2>6, <5>2, <5>3
      <4>2. Equals(kv) - 1 = q - from  BY <1>1, <3>1, <3>2
      <4>3. Written(s, from, q - 1) = Written(s, p + 1, q - 1)
        <5>1. \A n : n \in p + 1 .. q - 1 <=> n \in p + 1 .. from - 1 \/ n \in from .. q - 1
          BY <1>1, <3>2
        <5>. QED  BY Zenon, <1>8, <5>1 DEF Written
      <4>4. trim(SubSeq(s, from, q - 1)) = trim(SubSeq(s, p + 1, q - 1))
        <5>1. q - 1 \in Nat /\ q - 1 <= Len(s) /\ p + 1 \in Nat \ {0}
          BY <1>1, <2>9, <3>2, <2>5
        <5>. QED  BY <2>9, <4>3, <5>1, TrimmedAlike
      <4>. QED  BY Zenon, <4>1, <4>2, <4>4 DEF KeyOf, q
    <3>5. ValueOf(kv) = value
      <4>1. SubSeq(kv, q - from + 2, Len(kv)) = SubSeq(s, q + 1, end)
        <5>1. /\ from \in 1 .. Len(s) /\ end \in from .. Len(s)
              /\ q - from + 2 \in Nat \ {0}
              /\ Len(kv) \in Nat /\ Len(kv) <= end - from + 1
          BY <1>1, <2>5, <2>9, <3>2, <3>3
        <5>2. SubSeq(SubSeq(s, from, end), q - from + 2, Len(kv))
              = SubSeq(s, from + (q - from + 2) - 1, from + Len(kv) - 1)
          <6>. DEFINE a == q - from + 2
                      b == Len(kv)
          <6>1. a \in Nat \ {0} /\ b \in Nat /\ b <= end - from + 1  BY <5>1
          <6>. HIDE DEF a, b
          <6>2. SubSeq(SubSeq(s, from, end), a, b) = SubSeq(s, from + a - 1, from + b - 1)
            BY <5>1, <6>1, PartOfPart
          <6>. QED  BY Zenon, <6>2 DEF a, b
        <5>3. from + (q - from + 2) - 1 = q + 1 /\ from + Len(kv) - 1 = end
          BY <1>1, <2>5, <3>2, <3>3
        <5>. QED  BY Zenon, <2>6, <5>2, <5>3
      <4>2. Equals(kv) + 1 = q - from + 2  BY <1>1, <3>1, <3>2
      <4>3. Written(s, q + 1, end) = Written(s, q + 1, last - 1)
        <5>1. \A n : n \in q + 1 .. last - 1 <=> n \in q + 1 .. end \/ n \in end + 1 .. last - 1
          BY <1>1, <1>5, <2>5, <3>2
        <5>. QED  BY Zenon, <2>7, <5>1 DEF Written
      <4>4. trim(SubSeq(s, q + 1, end)) = trim(SubSeq(s, q + 1, last - 1))
        <5>1. q + 1 \in Nat \ {0} /\ last - 1 \in Nat /\ last - 1 <= Len(s)
          BY <1>1, <1>5, <3>2
        <5>. QED  BY <2>5, <2>9, <4>3, <5>1, TrimmedAlike
      <4>. QED  BY Zenon, <4>1, <4>2, <4>4 DEF ValueOf, q
    <3>. QED
      BY Zenon, <1>4, <1>5, <1>7, <2>12, <3>2, <3>4, <3>5 DEF equals, next, kv, sc
  <2>. QED  BY Zenon, <2>11, <2>12
<1>. QED  BY Zenon, <1>14, <1>15

-----------------------------------------------------------------------------
(* What has been read up to a piece                                        *)

Taken(s, f) == {p \in Assignments(s) : p < f}
Refused(s) == Leading(s) \ Assignments(s)
ErrorAt(s) == [p \in Nat |-> Meaning(s, p).error]

ValueOfLast(s, ps, key) == Meaning(s, Max({p \in ps : Meaning(s, p).key = key})).value

ReadTo(s, set, errs, ranges, f) ==
  /\ DOMAIN set = {Meaning(s, p).key : p \in Taken(s, f)}
  /\ \A key \in DOMAIN set : set[key] = ValueOfLast(s, Taken(s, f), key)
  /\ errs = At(ErrorAt(s), InOrder(Refused(s), f - 1))
  /\ \A k \in DOMAIN ranges : /\ ranges[k].first \in Taken(s, f)
                              /\ ranges[k].next = PieceEnd(s, ranges[k].first)
  /\ \A p \in Taken(s, f) : \E k \in DOMAIN ranges : ranges[k].first = p

LEMMA TextEnds ==
  ASSUME NEW T, NEW s \in Seq(T)
  PROVE  /\ Len(s) \in Nat /\ DOMAIN s = 1 .. Len(s) /\ EndOf(s) = Len(s) + 1
         /\ EndOf(s) \in Nat \ {0}
BY DEF EndOf

\* The statements begin at positions of the text, with "set".
LEMMA LeadingAre ==
  ASSUME NEW T, NEW s \in Seq(T)
  PROVE  /\ Starts(s) \in SUBSET (1 .. EndOf(s))
         /\ \A p \in Leading(s) : /\ p \in Starts(s) /\ p \in DOMAIN s /\ SetAt(s, p)
                                  /\ p \in Nat /\ p >= 1
         /\ Assignments(s) \in SUBSET Leading(s)
         /\ \A p \in Assignments(s) : Meaning(s, p).error = ""
<1>1. Starts(s) \in SUBSET (1 .. EndOf(s))  BY TextEnds, StartsAre
<1>2. \A p \in Leading(s) : p \in Starts(s) /\ p \in DOMAIN s /\ SetAt(s, p)
  BY Zenon DEF Leading
<1>3. \A p \in Leading(s) : p \in Nat /\ p >= 1
  <2>1. DOMAIN s = 1 .. Len(s) /\ Len(s) \in Nat  BY TextEnds
  <2>2. \A p \in 1 .. Len(s) : p \in Nat /\ p >= 1  BY <2>1
  <2>. QED  BY Zenon, <1>2, <2>1, <2>2
<1>4. \A p \in Assignments(s) : p \in Leading(s) /\ Meaning(s, p).error = ""
  BY Zenon DEF Assignments
<1>5. Assignments(s) \in SUBSET Leading(s)  BY Zenon, <1>4
<1>. QED  BY Zenon, <1>1, <1>2, <1>3, <1>4, <1>5

\* From the piece at f to the next one at g.
IsNext(s, f, g) ==
  Upto(s, f) /\ g \in f + 1 .. EndOf(s) /\ PieceEnd(s, f) = g

\* Between two neighbouring pieces nothing begins.
LEMMA NextIs ==
  ASSUME NEW T, NEW s \in Seq(T), NEW f, NEW g, IsNext(s, f, g)
  PROVE  /\ f \in Nat /\ f >= 1 /\ g \in Nat /\ f < g /\ g <= Len(s) + 1
         /\ f \in DOMAIN s /\ f \in Starts(s) /\ Upto(s, g)
         /\ \A n \in f + 1 .. g - 1 : n \notin Starts(s)
<1>1. /\ Len(s) \in Nat /\ DOMAIN s = 1 .. Len(s) /\ EndOf(s) = Len(s) + 1
      /\ EndOf(s) \in Nat \ {0}
  BY TextEnds
<1>2. f \in Starts(s) /\ Starts(s) \in SUBSET (1 .. EndOf(s))
  BY LeadingAre DEF IsNext, Upto
<1>3. g \in f + 1 .. EndOf(s)  BY DEF IsNext
<1>4. f \in Nat /\ f >= 1 /\ g \in Nat /\ f < g /\ g <= Len(s) + 1 /\ f \in DOMAIN s
  BY <1>1, <1>2, <1>3
<1>5. Upto(s, g) /\ \A n \in f + 1 .. g - 1 : n \notin Starts(s)
  BY <1>1, NextPiece DEF IsNext
<1>. QED  BY Zenon, <1>2, <1>4, <1>5

\* The statements before g are those before f, and the one at f.
LEMMA BeforeNext ==
  ASSUME NEW T, NEW s \in Seq(T), NEW f, NEW g, IsNext(s, f, g)
  PROVE  /\ f \in Assignments(s) => Taken(s, g) = Taken(s, f) \cup {f}
         /\ f \notin Assignments(s) => Taken(s, g) = Taken(s, f)
         /\ InOrder(Refused(s), g - 1) =
              IF f \in Refused(s) THEN Append(InOrder(Refused(s), f - 1), f)
              ELSE InOrder(Refused(s), f - 1)
<1>1. /\ f \in Nat /\ f >= 1 /\ g \in Nat /\ f < g /\ g <= Len(s) + 1
      /\ f \in DOMAIN s /\ f \in Starts(s)
      /\ \A n \in f + 1 .. g - 1 : n \notin Starts(s)
  BY NextIs
<1>2. \A p \in Leading(s) : p \in Starts(s) /\ p \in Nat  BY LeadingAre
<1>3. Assignments(s) \in SUBSET Leading(s)  BY LeadingAre
<1>4. \A p \in Leading(s) : p < g <=> p < f \/ p = f
  <2>. SUFFICES ASSUME NEW p \in Leading(s)  PROVE p < g <=> p < f \/ p = f
    OBVIOUS
  <2>1. p \in Nat /\ p \notin f + 1 .. g - 1  BY <1>1, <1>2
  <2>. QED  BY <1>1, <2>1
<1>5. \A p \in Assignments(s) : p < g <=> p < f \/ p = f  BY Zenon, <1>3, <1>4
<1>6. ~(f < f)  BY <1>1
<1>7. f \in Assignments(s) => Taken(s, g) = Taken(s, f) \cup {f}
  BY Zenon, <1>5 DEF Taken
<1>8. f \notin Assignments(s) => Taken(s, g) = Taken(s, f)
  BY Zenon, <1>5 DEF Taken
<1>9. InOrder(Refused(s), g - 1) = InOrder(Refused(s), f)
  <2>1. \A n \in f + 1 .. g - 1 : n \notin Refused(s)
    BY Zenon, <1>1, <1>2 DEF Refused
  <2>2. f \in Nat /\ g - 1 \in Nat /\ f <= g - 1  BY <1>1
  <2>. QED  BY <2>1, <2>2, InOrderSkips
<1>10. InOrder(Refused(s), f) = IF f \in Refused(s) THEN Append(InOrder(Refused(s), f - 1), f)
                                ELSE InOrder(Refused(s), f - 1)
  <2>1. f \in Nat \ {0}  BY <1>1
  <2>. QED  BY Zenon, <2>1, InOrderUnfolds
<1>. QED  BY Zenon, <1>7, <1>8, <1>9, <1>10

\* A piece that is no statement changes nothing.
LEMMA ReadOn ==
  ASSUME NEW T, NEW s \in Seq(T), NEW f, NEW g, IsNext(s, f, g), ~SetAt(s, f),
         NEW set, NEW errs, NEW ranges, ReadTo(s, set, errs, ranges, f)
  PROVE  ReadTo(s, set, errs, ranges, g)
<1>1. f \notin Leading(s) /\ f \notin Assignments(s) /\ f \notin Refused(s)
  BY LeadingAre DEF Refused
<1>2. Taken(s, g) = Taken(s, f)  BY Zenon, <1>1, BeforeNext
<1>3. InOrder(Refused(s), g - 1) = InOrder(Refused(s), f - 1)  BY Zenon, <1>1, BeforeNext
<1>. QED  BY Zenon, <1>2, <1>3 DEF ReadTo

\* A statement that is no assignment is reported.
LEMMA ReadRefused ==
  ASSUME NEW T, NEW s \in Seq(T), NEW f, NEW g, IsNext(s, f, g), SetAt(s, f),
         Meaning(s, f).error # "",
         NEW set, NEW errs, NEW ranges, ReadTo(s, set, errs, ranges, f)
  PROVE  ReadTo(s, set, Append(errs, Meaning(s, f).error), ranges, g)
<1>1. f \in Leading(s) /\ f \notin Assignments(s) /\ f \in Refused(s)
  BY NextIs DEF Refused, Leading, Assignments
<1>2. Taken(s, g) = Taken(s, f)  BY Zenon, <1>1, BeforeNext
<1>3. InOrder(Refused(s), g - 1) = Append(InOrder(Refused(s), f - 1), f)
  BY Zenon, <1>1, BeforeNext
<1>0. f \in Nat /\ f >= 1 /\ f \in DOMAIN s  BY Zenon, NextIs
<1>4. f - 1 \in Nat /\ f \in Nat /\ f \in DOMAIN s
  <2>1. f - 1 \in Nat  BY ONLY <1>0
  <2>. QED  BY Zenon, <1>0, <2>1
<1>5. InOrder(Refused(s), f - 1) \in Seq(Nat)  BY Zenon, <1>4, InOrderUnfolds
<1>6. At(ErrorAt(s), InOrder(Refused(s), g - 1))
      = Append(At(ErrorAt(s), InOrder(Refused(s), f - 1)), ErrorAt(s)[f])
  BY Zenon, <1>3, <1>4, <1>5, AtNext
<1>7. ErrorAt(s)[f] = Meaning(s, f).error  BY <1>4 DEF ErrorAt
<1>. QED  BY Zenon, <1>2, <1>6, <1>7 DEF ReadTo

\* An assignment is the last one of its key.
LEMMA ReadAssignment ==
  ASSUME NEW T, NEW s \in Seq(T), NEW f, NEW g, IsNext(s, f, g), SetAt(s, f),
         Meaning(s, f).error = "",
         NEW set, NEW errs, NEW ranges \in Seq(Ranges), ReadTo(s, set, errs, ranges, f),
         [first |-> f, next |-> g] \in Ranges
  PROVE  ReadTo(s, Put(set, Meaning(s, f).key, Meaning(s, f).value), errs,
                Append(ranges, [first |-> f, next |-> g]), g)
<1>. DEFINE key0 == Meaning(s, f).key
            new == Put(set, key0, Meaning(s, f).value)
            r == [first |-> f, next |-> g]
            more == Append(ranges, r)
            m == Len(ranges)
<1>1. f \in Leading(s) /\ f \in Assignments(s) /\ f \notin Refused(s)
  BY NextIs DEF Refused, Leading, Assignments
<1>2. Taken(s, g) = Taken(s, f) \cup {f}  BY Zenon, <1>1, BeforeNext
<1>3. InOrder(Refused(s), g - 1) = InOrder(Refused(s), f - 1)  BY Zenon, <1>1, BeforeNext
<1>4. PieceEnd(s, f) = g /\ f \in Nat  BY NextIs DEF IsNext
<1>5. /\ DOMAIN set = {Meaning(s, p).key : p \in Taken(s, f)}
      /\ \A key \in DOMAIN set : set[key] = ValueOfLast(s, Taken(s, f), key)
  BY DEF ReadTo
<1>6. DOMAIN new = DOMAIN set \cup {key0}  BY DEF Put
<1>7. DOMAIN new = {Meaning(s, p).key : p \in Taken(s, g)}
  <2>. HIDE DEF new
  <2>. QED  BY Zenon, <1>2, <1>5, <1>6
<1>8. ASSUME NEW key \in DOMAIN new  PROVE new[key] = ValueOfLast(s, Taken(s, g), key)
  <2>. DEFINE old == {p \in Taken(s, f) : Meaning(s, p).key = key}
              now == {p \in Taken(s, g) : Meaning(s, p).key = key}
  <2>1. CASE key = key0
    <3>1. new[key] = Meaning(s, f).value  BY <1>6, <2>1 DEF Put
    <3>2. f \in now  BY Zenon, <1>2, <2>1
    <3>3. \A p \in now : p <= f
      <4>1. \A p \in now : p \in Taken(s, f) \/ p = f  BY Zenon, <1>2
      <4>2. \A p \in Taken(s, f) : p \in Nat /\ p < f  BY LeadingAre DEF Taken
      <4>3. f \in Nat  BY Zenon, <1>4
      <4>4. \A p \in Taken(s, f) : p <= f  BY ONLY <4>2, <4>3
      <4>5. f <= f  BY ONLY <4>3
      <4>. QED  BY Zenon, <4>1, <4>4, <4>5
    <3>4. now \in SUBSET (1 .. Len(s)) /\ Len(s) \in Nat
      <4>1. Taken(s, g) \in SUBSET (1 .. Len(s)) /\ Len(s) \in Nat
        BY LeadingAre, TextEnds DEF Taken
      <4>. QED  BY <4>1
    <3>. HIDE DEF now
    <3>5. Max(now) = f  BY <3>2, <3>3, <3>4, MaxIs
    <3>. QED  BY Zenon, <3>1, <3>5 DEF now, ValueOfLast
  <2>2. CASE key # key0
    <3>1. key \in DOMAIN set  BY Zenon, <1>6, <2>2
    <3>2. new[key] = set[key]  BY <2>2, <3>1 DEF Put
    <3>3. now = old  BY Zenon, <1>2, <2>2
    <3>. HIDE DEF new
    <3>. QED  BY Zenon, <1>5, <3>1, <3>2, <3>3 DEF ValueOfLast
  <2>. QED  BY Zenon, <2>1, <2>2
<1>9. r.first = f /\ r.next = g /\ r \in Ranges  OBVIOUS
<1>. HIDE DEF r
<1>10. /\ DOMAIN more = 1 .. m + 1 /\ DOMAIN ranges = 1 .. m /\ m \in Nat
       /\ \A k \in 1 .. m : more[k] = ranges[k]
       /\ more[m + 1] = r
  <2>1. ranges \in Seq(Ranges) /\ r \in Ranges  BY Zenon, <1>9
  <2>. QED  BY ONLY <2>1, AppendProperties, LenProperties
<1>. HIDE DEF m, more
<1>14. /\ \A k \in 1 .. m + 1 : k = m + 1 \/ k \in 1 .. m
       /\ m + 1 \in 1 .. m + 1 /\ \A k \in 1 .. m : k \in 1 .. m + 1
  <2>1. m \in Nat  BY Zenon, <1>10
  <2>. QED  BY ONLY <2>1
<1>11. ASSUME NEW k \in DOMAIN more
       PROVE  more[k].first \in Taken(s, g) /\ more[k].next = PieceEnd(s, more[k].first)
  <2>1. CASE k = m + 1  BY Zenon, <1>2, <1>4, <1>9, <1>10, <2>1
  <2>2. CASE k # m + 1
    <3>1. k \in 1 .. m  BY Zenon, <1>10, <1>14, <2>2
    <3>. QED  BY Zenon, <1>2, <1>10, <3>1 DEF ReadTo
  <2>. QED  BY Zenon, <2>1, <2>2
<1>12. ASSUME NEW p \in Taken(s, g)  PROVE \E k \in DOMAIN more : more[k].first = p
  <2>1. CASE p = f
    <3>1. m + 1 \in DOMAIN more  BY Zenon, <1>10, <1>14
    <3>. QED  BY Zenon, <1>9, <1>10, <2>1, <3>1
  <2>2. CASE p # f
    <3>1. PICK k \in DOMAIN ranges : ranges[k].first = p  BY Zenon, <1>2, <2>2 DEF ReadTo
    <3>2. k \in DOMAIN more  BY Zenon, <1>10, <1>14
    <3>. QED  BY Zenon, <1>10, <3>1, <3>2
  <2>. QED  BY Zenon, <2>1, <2>2
<1>. HIDE DEF new
<1>13. ReadTo(s, new, errs, more, g)
  BY Zenon, <1>3, <1>7, <1>8, <1>11, <1>12 DEF ReadTo
<1>. QED  BY Zenon, <1>13 DEF new, more, r

-----------------------------------------------------------------------------
(* What remains of the query                                               *)

IsCut(rs, N) ==
  /\ rs \in Seq(Ranges)
  /\ \A k \in DOMAIN rs : rs[k].first >= 1 /\ rs[k].first < rs[k].next /\ rs[k].next <= N + 1
  /\ \A k, l \in DOMAIN rs : k < l => rs[k].next <= rs[l].first

PosAfter(rs, k) == IF k = 0 THEN 1 ELSE rs[k].next
CutOut(rs) == UNION {rs[k].first .. rs[k].next - 1 : k \in DOMAIN rs}

\* The ranges lie in the text, one behind the other.
LEMMA CutIs ==
  ASSUME NEW N \in Nat, NEW rs, IsCut(rs, N)
  PROVE  /\ Len(rs) \in Nat /\ DOMAIN rs = 1 .. Len(rs)
         /\ \A k \in 1 .. Len(rs) :
              /\ rs[k].first \in Nat /\ rs[k].next \in Nat
              /\ rs[k].first >= 1 /\ rs[k].first < rs[k].next /\ rs[k].next <= N + 1
         /\ \A k, l \in 1 .. Len(rs) : k < l => rs[k].next <= rs[l].first
         /\ \A k \in 0 .. Len(rs) : PosAfter(rs, k) \in 1 .. N + 1
<1>1. Len(rs) \in Nat /\ DOMAIN rs = 1 .. Len(rs) /\ \A k \in 1 .. Len(rs) : rs[k] \in Ranges
  BY LenProperties DEF IsCut
<1>2. \A k \in 1 .. Len(rs) :
        /\ rs[k].first \in Nat /\ rs[k].next \in Nat
        /\ rs[k].first >= 1 /\ rs[k].first < rs[k].next /\ rs[k].next <= N + 1
  BY <1>1 DEF IsCut, Ranges
<1>3. \A k, l \in 1 .. Len(rs) : k < l => rs[k].next <= rs[l].first
  BY <1>1 DEF IsCut
<1>4. ASSUME NEW k \in 0 .. Len(rs)  PROVE PosAfter(rs, k) \in 1 .. N + 1
  <2>1. CASE k = 0  BY <2>1 DEF PosAfter
  <2>2. CASE k # 0
    <3>1. k \in 1 .. Len(rs)  BY <1>1, <2>2
    <3>2. PosAfter(rs, k) = rs[k].next  BY <2>2 DEF PosAfter
    <3>. QED  BY <1>2, <3>1, <3>2
  <2>. QED  BY <2>1, <2>2
<1>. QED  BY Zenon, <1>1, <1>2, <1>3, <1>4

\* Between two ranges, and behind the last one, nothing is cut out.
LEMMA Gap ==
  ASSUME NEW N \in Nat, NEW rs, IsCut(rs, N), NEW k \in 0 .. Len(rs), NEW n \in Nat,
         PosAfter(rs, k) <= n, k = Len(rs) \/ n < rs[k + 1].first
  PROVE  n \notin CutOut(rs)
<1>0. Len(rs) \in Nat /\ DOMAIN rs = 1 .. Len(rs)  BY Zenon, CutIs
<1>1. \A l \in 1 .. Len(rs) :
         rs[l].first \in Nat /\ rs[l].next \in Nat /\ rs[l].first < rs[l].next
  BY Zenon, CutIs
<1>2. \A j, l \in 1 .. Len(rs) : j < l => rs[j].next <= rs[l].first
  BY Zenon, CutIs
<1>. SUFFICES ASSUME NEW l \in 1 .. Len(rs), n \in rs[l].first .. rs[l].next - 1
              PROVE  FALSE
  BY <1>0 DEF CutOut
<1>3. rs[l].first \in Nat /\ rs[l].next \in Nat /\ rs[l].first < rs[l].next
  BY Zenon, <1>1
<1>4. rs[l].first <= n /\ n < rs[l].next
  BY ONLY <1>3, n \in rs[l].first .. rs[l].next - 1
<1>5. l \in Nat /\ k \in Nat /\ l >= 1 /\ l <= Len(rs) /\ k <= Len(rs)
  BY ONLY <1>0, l \in 1 .. Len(rs), k \in 0 .. Len(rs)
<1>6. CASE l <= k
  <2>1. k \in 1 .. Len(rs) /\ k # 0  BY ONLY <1>0, <1>5, <1>6
  <2>2. PosAfter(rs, k) = rs[k].next  BY Zenon, <2>1 DEF PosAfter
  <2>3. rs[k].next <= n  BY Zenon, <2>2
  <2>4. CASE l = k
    <3>1. rs[l].next <= n  BY Zenon, <2>3, <2>4
    <3>. QED  BY ONLY <1>3, <1>4, <3>1, n \in Nat
  <2>5. CASE l # k
    <3>1. l < k  BY ONLY <1>5, <1>6, <2>5
    <3>2. rs[l].next <= rs[k].first  BY Zenon, <1>2, <2>1, <3>1
    <3>3. rs[k].first < rs[k].next /\ rs[k].first \in Nat /\ rs[k].next \in Nat
      BY Zenon, <1>1, <2>1
    <3>. QED  BY ONLY <1>3, <1>4, <2>3, <3>2, <3>3, n \in Nat
  <2>. QED  BY Zenon, <2>4, <2>5
<1>7. CASE k < l
  <2>0. Len(rs) \in Nat  BY Zenon, <1>0
  <2>1. k # Len(rs) /\ k + 1 \in 1 .. Len(rs)
    <3>1. k # Len(rs)  BY ONLY <1>5, <1>7
    <3>2. k + 1 \in Nat /\ k + 1 >= 1 /\ k + 1 <= Len(rs)  BY ONLY <1>5, <1>7, <2>0
    <3>3. k + 1 \in 1 .. Len(rs)  BY ONLY <2>0, <3>2
    <3>. QED  BY Zenon, <3>1, <3>3
  <2>2. n < rs[k + 1].first  BY Zenon, <2>1
  <2>3. rs[k + 1].first \in Nat /\ rs[k + 1].next \in Nat /\ rs[k + 1].first < rs[k + 1].next
    BY Zenon, <1>1, <2>1
  <2>4. CASE l = k + 1
    <3>1. n < rs[l].first  BY Zenon, <2>2, <2>4
    <3>. QED  BY ONLY <1>3, <1>4, <3>1, n \in Nat
  <2>5. CASE l # k + 1
    <3>1. k + 1 < l  BY ONLY <1>5, <1>7, <2>5
    <3>2. rs[k + 1].next <= rs[l].first  BY Zenon, <1>2, <2>1, <3>1
    <3>. QED  BY ONLY <1>3, <1>4, <2>2, <2>3, <3>2, n \in Nat
  <2>. QED  BY Zenon, <2>4, <2>5
<1>8. l <= k \/ k < l  BY ONLY <1>5
<1>. QED  BY Zenon, <1>6, <1>7, <1>8

\* A part of the text between two ranges is kept as it is.
LEMMA GapAppears ==
  ASSUME NEW T, NEW s \in Seq(T), NEW rs, IsCut(rs, Len(s)), NEW k \in 0 .. Len(rs),
         NEW b \in Nat, PosAfter(rs, k) - 1 <= b, b <= Len(s),
         k = Len(rs) \/ b < rs[k + 1].first
  PROVE  LET left == DOMAIN s \ CutOut(rs)
         IN  At(s, InOrder(left, b)) = At(s, InOrder(left, PosAfter(rs, k) - 1))
                                         \o SubSeq(s, PosAfter(rs, k), b)
<1>. DEFINE left == DOMAIN s \ CutOut(rs)
            a == PosAfter(rs, k) - 1
<1>1. Len(s) \in Nat /\ DOMAIN s = 1 .. Len(s)  OBVIOUS
<1>2. PosAfter(rs, k) \in 1 .. Len(s) + 1  BY Zenon, <1>1, CutIs
<1>3. a \in Nat /\ a + 1 = PosAfter(rs, k) /\ a <= b  BY <1>1, <1>2
<1>4. ASSUME NEW n \in a + 1 .. b  PROVE n \in left
  <2>1. n \in Nat /\ PosAfter(rs, k) <= n /\ n \in DOMAIN s /\ n <= b
    BY <1>1, <1>2, <1>3
  <2>2. k = Len(rs) \/ n < rs[k + 1].first
    <3>1. CASE k # Len(rs)
      <4>1. k + 1 \in 1 .. Len(rs)
        <5>1. Len(rs) \in Nat  BY Zenon, <1>1, CutIs
        <5>. QED  BY <3>1, <5>1
      <4>2. rs[k + 1].first \in Nat  BY Zenon, <1>1, <4>1, CutIs
      <4>. QED  BY <2>1, <3>1, <4>2
    <3>. QED  BY <3>1
  <2>3. n \notin CutOut(rs)  BY <1>1, <2>1, <2>2, Gap
  <2>. QED  BY <2>1, <2>3
<1>. HIDE DEF left, a
<1>5. At(s, InOrder(left, b)) = At(s, InOrder(left, a)) \o SubSeq(s, a + 1, b)
  BY <1>3, <1>4, AtGoesOn
<1>. QED  BY Zenon, <1>3, <1>5 DEF left, a

\* A range is passed over.
LEMMA RangePassed ==
  ASSUME NEW T, NEW s \in Seq(T), NEW rs, IsCut(rs, Len(s)), NEW k \in 1 .. Len(rs)
  PROVE  LET left == DOMAIN s \ CutOut(rs)
         IN  InOrder(left, PosAfter(rs, k) - 1) = InOrder(left, rs[k].first - 1)
<1>. DEFINE left == DOMAIN s \ CutOut(rs)
            a == rs[k].first - 1
            b == rs[k].next - 1
<1>1. Len(s) \in Nat /\ Len(rs) \in Nat /\ DOMAIN rs = 1 .. Len(rs)  BY CutIs
<1>2. rs[k].first \in Nat /\ rs[k].next \in Nat /\ rs[k].first >= 1 /\ rs[k].first < rs[k].next
  BY <1>1, CutIs
<1>3. PosAfter(rs, k) = rs[k].next  BY <1>1 DEF PosAfter
<1>4. a \in Nat /\ b \in Nat /\ a <= b /\ a + 1 = rs[k].first  BY <1>2
<1>5. \A n \in rs[k].first .. b : n \notin left  BY <1>1 DEF CutOut
<1>. HIDE DEF left, a, b
<1>6. \A n \in a + 1 .. b : n \notin left  BY Zenon, <1>4, <1>5
<1>7. InOrder(left, b) = InOrder(left, a)  BY <1>4, <1>6, InOrderSkips
<1>. QED  BY Zenon, <1>3, <1>7 DEF left, a, b

\* What is glued together from the gaps is the text without the ranges.
LEMMA RemainingIs ==
  ASSUME NEW T, text \in Seq(T), IsCut(excludeRanges, Len(text))
  PROVE  RemainingQuery =
           trim(At(text, InOrder(DOMAIN text \ CutOut(excludeRanges), Len(text))))
<1>. DEFINE N == Len(excludeRanges)
            left == DOMAIN text \ CutOut(excludeRanges)
            Pos(k) == PosAfter(excludeRanges, k)
            IsKept(g) == g = [k \in 0 .. N |->
                                IF k = 0 THEN << >>
                                ELSE g[k - 1] \o SubSeq(text, Pos(k - 1), excludeRanges[k].first - 1)]
            kept == CHOOSE g : IsKept(g)
            f == [k \in 0 .. N |-> At(text, InOrder(left, Pos(k) - 1))]
<1>8. ASSUME NEW j \in 0 .. N, NEW b \in Nat, Pos(j) - 1 <= b, b <= Len(text),
             j = N \/ b < excludeRanges[j + 1].first
      PROVE  At(text, InOrder(left, b)) = At(text, InOrder(left, Pos(j) - 1))
                                            \o SubSeq(text, Pos(j), b)
  BY <1>8, GapAppears
<1>1. RemainingQuery = trim(kept[N] \o SubSeq(text, Pos(N), Len(text)))
  BY Zenon DEF RemainingQuery, PosAfter
<1>2. /\ Len(text) \in Nat /\ N \in Nat /\ DOMAIN text = 1 .. Len(text)
      /\ \A k \in 1 .. N : /\ excludeRanges[k].first \in Nat /\ excludeRanges[k].next \in Nat
                           /\ excludeRanges[k].first >= 1
                           /\ excludeRanges[k].first < excludeRanges[k].next
                           /\ excludeRanges[k].next <= Len(text) + 1
      /\ \A k, l \in 1 .. N : k < l => excludeRanges[k].next <= excludeRanges[l].first
      /\ \A k \in 0 .. N : Pos(k) \in 1 .. Len(text) + 1
  BY CutIs
<1>3. ASSUME NEW k \in 0 .. N
      PROVE  f[k] = IF k = 0 THEN << >>
                    ELSE f[k - 1] \o SubSeq(text, Pos(k - 1), excludeRanges[k].first - 1)
  <2>1. CASE k = 0
    <3>1. Pos(0) - 1 = 0  BY DEF PosAfter
    <3>2. InOrder(left, 0) = << >>  BY InOrderUnfolds
    <3>3. At(text, << >>) = << >>
      <4>1. DOMAIN << >> = {}  OBVIOUS
      <4>2. \A g : [j \in {} |-> g[j]] = << >>  OBVIOUS
      <4>. QED  BY <4>1, <4>2 DEF At
    <3>. HIDE DEF left, Pos
    <3>4. f[0] = At(text, InOrder(left, Pos(0) - 1))  BY <1>2
    <3>. QED  BY Zenon, <2>1, <3>1, <3>2, <3>3, <3>4
  <2>2. CASE k # 0
    <3>1. k \in 1 .. N /\ k - 1 \in 0 .. N /\ (k - 1) + 1 = k  BY <1>2, <2>2
    <3>. DEFINE b == excludeRanges[k].first - 1
    <3>7. /\ Len(text) \in Nat /\ excludeRanges[k].first \in Nat
          /\ excludeRanges[k].next \in Nat /\ excludeRanges[k].first >= 1
          /\ excludeRanges[k].first < excludeRanges[k].next
          /\ excludeRanges[k].next <= Len(text) + 1
      BY Zenon, <1>2, <3>1
    <3>2. b \in Nat /\ b <= Len(text) /\ b < excludeRanges[k].first  BY ONLY <3>7
    <3>3. Pos(k - 1) - 1 <= b
      <4>1. CASE k = 1  BY <1>2, <3>1, <4>1 DEF PosAfter
      <4>2. CASE k # 1
        <5>1. k - 1 \in 1 .. N /\ k - 1 < k  BY <1>2, <3>1, <4>2
        <5>2. Pos(k - 1) = excludeRanges[k - 1].next  BY <5>1 DEF PosAfter
        <5>3. excludeRanges[k - 1].next <= excludeRanges[k].first
          BY Zenon, <1>2, <3>1, <5>1
        <5>4. excludeRanges[k - 1].next \in Nat  BY Zenon, <1>2, <5>1
        <5>. QED  BY ONLY <3>7, <5>2, <5>3, <5>4
      <4>. QED  BY <4>1, <4>2
    <3>. HIDE DEF b
    <3>4. At(text, InOrder(left, b)) = At(text, InOrder(left, Pos(k - 1) - 1))
                                         \o SubSeq(text, Pos(k - 1), b)
      <4>. DEFINE j == k - 1
      <4>1. j \in 0 .. N /\ j + 1 = k  BY Zenon, <3>1
      <4>2. j = N \/ b < excludeRanges[j + 1].first  BY Zenon, <3>2, <4>1
      <4>3. Pos(j) - 1 <= b  BY Zenon, <3>3
      <4>. HIDE DEF j
      <4>4. At(text, InOrder(left, b)) = At(text, InOrder(left, Pos(j) - 1))
                                           \o SubSeq(text, Pos(j), b)
        BY Zenon, <1>8, <3>2, <4>1, <4>2, <4>3
      <4>. QED  BY Zenon, <4>4 DEF j
    <3>5. InOrder(left, Pos(k) - 1) = InOrder(left, b)
      BY Zenon, <3>1, RangePassed DEF b
    <3>. HIDE DEF left, Pos
    <3>6. /\ f[k] = At(text, InOrder(left, Pos(k) - 1))
          /\ f[k - 1] = At(text, InOrder(left, Pos(k - 1) - 1))
      BY <3>1
    <3>. HIDE DEF f
    <3>. QED  BY Zenon, <2>2, <3>4, <3>5, <3>6 DEF b
  <2>. QED  BY Zenon, <2>1, <2>2
<1>. HIDE DEF Pos, left
<1>4. IsKept(f)
  <2>1. f = [k \in 0 .. N |-> f[k]]  OBVIOUS
  <2>. HIDE DEF f
  <2>. QED  BY Zenon, <1>3, <2>1
<1>5. IsKept(kept)
  <2>. HIDE DEF f, IsKept
  <2>. QED  BY Zenon, <1>4
<1>6. kept[N] = f[N]
  <2>. HIDE DEF f, kept
  <2>. DEFINE Bad == {k \in 0 .. N : kept[k] # f[k]}
  <2>. SUFFICES ASSUME Bad # {}  PROVE FALSE
    <3>1. N \in 0 .. N  BY <1>2
    <3>. QED  BY Zenon, <3>1
  <2>0. Bad \in SUBSET Nat  BY <1>2
  <2>. HIDE DEF N
  <2>1. PICK m \in Bad : \A n \in Bad : m <= n
    <3>. HIDE DEF Bad
    <3>. QED  BY <2>0, MinIsFirst
  <2>2. m \in 0 .. N /\ kept[m] # f[m]  OBVIOUS
  <2>3. /\ kept[m] = IF m = 0 THEN << >>
                     ELSE kept[m - 1] \o SubSeq(text, Pos(m - 1), excludeRanges[m].first - 1)
        /\ f[m] = IF m = 0 THEN << >>
                  ELSE f[m - 1] \o SubSeq(text, Pos(m - 1), excludeRanges[m].first - 1)
    BY Zenon, <1>3, <1>5, <2>2
  <2>4. m # 0  BY Zenon, <2>2, <2>3
  <2>5. m - 1 \in 0 .. N /\ ~(m <= m - 1)
    <3>1. N \in Nat  BY <1>2
    <3>. QED  BY ONLY <2>4, <3>1, m \in 0 .. N
  <2>6. m - 1 \notin Bad  BY Zenon, <2>1, <2>5
  <2>7. kept[m - 1] = f[m - 1]  BY Zenon, <2>5, <2>6
  <2>. QED  BY Zenon, <2>2, <2>3, <2>4, <2>7
<1>7. At(text, InOrder(left, Len(text))) = f[N] \o SubSeq(text, Pos(N), Len(text))
  <2>0. N \in Nat /\ Len(text) \in Nat  BY Zenon, <1>2
  <2>4. N \in 0 .. N  BY ONLY <2>0
  <2>5. Pos(N) \in 1 .. Len(text) + 1  BY Zenon, <1>2, <2>4
  <2>1. N \in 0 .. N /\ Pos(N) - 1 <= Len(text)  BY ONLY <2>0, <2>4, <2>5
  <2>2. At(text, InOrder(left, Len(text))) = At(text, InOrder(left, Pos(N) - 1))
                                               \o SubSeq(text, Pos(N), Len(text))
    <3>. DEFINE b == Len(text)
    <3>1. b \in Nat /\ b <= Len(text) /\ Pos(N) - 1 <= b
      <4>1. Len(text) <= Len(text)  BY ONLY <2>0
      <4>. QED  BY Zenon, <2>0, <2>1, <4>1
    <3>. HIDE DEF b
    <3>2. At(text, InOrder(left, b)) = At(text, InOrder(left, Pos(N) - 1))
                                         \o SubSeq(text, Pos(N), b)
      BY <2>1, <3>1, GapAppears DEF left, Pos
    <3>. QED  BY Zenon, <3>2 DEF b
  <2>3. f[N] = At(text, InOrder(left, Pos(N) - 1))  BY <2>1
  <2>. HIDE DEF f
  <2>. QED  BY Zenon, <2>2, <2>3
<1>. HIDE DEF f, kept, N
<1>. QED  BY Zenon, <1>1, <1>6, <1>7 DEF left

-----------------------------------------------------------------------------
(* Where the parser is                                                     *)

\* The last character that is not blank is a semicolon.
Ended(s) ==
  \E q \in DOMAIN s : s[q] = ";" /\ \A n \in DOMAIN s : q < n => isspace(s[n])

\* The piece the parser is at begins at f.
AtPiece(f) ==
  /\ state = "DEFAULT" => i = f
  /\ state = "SINGLE_LINE_COMMENT" => Pair(text, f, "-", "-") /\ i = f + 2
  /\ state = "MULTI_LINE_COMMENT" =>
       /\ Pair(text, f, "/", "*")
       /\ \/ i = f + 2
          \/ i = EndOf(text) /\ PieceEnd(text, f) = EndOf(text)
  /\ state = "IN_SET" => currentStart = f /\ SetAt(text, f) /\ i = f + 2 /\ i \in DOMAIN text
  /\ state = "IN_KEY_VALUE" => currentStart = f /\ IsBody(text, f, i)
  /\ state = "STOP" => PieceEnd(text, f) = 0 /\ ~SetAt(text, f)

Reading(f) ==
  AtPiece(f) /\ Upto(text, f) /\ ReadTo(text, settings, errors, excludeRanges, f)

PInv == Ended(text) /\ \E f : Reading(f)

\* A range that is looked for ends in the text.
LEMMA AfterEnds ==
  ASSUME NEW T, NEW s \in Seq(T), NEW p \in Nat \ {0}, NEW w \in Nat \ {0},
         p <= EndOf(s), NEW ps, \A n \in ps : n \in From(s, p) /\ n + w <= EndOf(s)
  PROVE  After(s, ps, w) \in p .. EndOf(s)
<1>1. Len(s) \in Nat /\ EndOf(s) = Len(s) + 1  BY TextEnds
<1>2. CASE ps = {}  BY <1>1, <1>2 DEF After
<1>3. CASE ps # {}
  <2>0. p \in Nat /\ EndOf(s) \in Nat  BY <1>1
  <2>1. \A n \in ps : n \in Nat /\ p <= n /\ n + w <= EndOf(s)  BY <1>1 DEF From
  <2>2. ps \in SUBSET Nat  BY Zenon, <2>1
  <2>3. Min(ps) \in ps  BY Zenon, <1>3, <2>2, MinIsFirst
  <2>4. After(s, ps, w) = Min(ps) + w  BY Zenon, <1>3 DEF After
  <2>5. Min(ps) \in Nat /\ p <= Min(ps) /\ Min(ps) + w <= EndOf(s)  BY Zenon, <2>1, <2>3
  <2>. QED  BY ONLY <2>0, <2>4, <2>5, w \in Nat \ {0}
<1>. QED  BY <1>2, <1>3

\* Where a comment ends.
LEMMA CommentEnds ==
  ASSUME NEW T, NEW s \in Seq(T), NEW f, f \in DOMAIN s
  PROVE  /\ Pair(s, f, "-", "-") => PieceEnd(s, f) \in f + 2 .. EndOf(s) /\ ~SetAt(s, f)
         /\ Pair(s, f, "/", "*") => PieceEnd(s, f) \in f + 2 .. EndOf(s) /\ ~SetAt(s, f)
<1>1. Len(s) \in Nat /\ EndOf(s) = Len(s) + 1 /\ DOMAIN s = 1 .. Len(s) /\ f \in Nat
  BY TextEnds
<1>2. ASSUME NEW a, NEW b, Pair(s, f, a, b)
      PROVE  f + 2 \in Nat \ {0} /\ f + 2 <= EndOf(s)
  BY <1>1, <1>2 DEF Pair
<1>. DEFINE p == f + 2
            lines == {n \in From(s, p) : s[n] = NewLine}
            closes == {n \in From(s, p) : Pair(s, n, "*", "/")}
<1>3. ASSUME p \in Nat  PROVE \A n \in lines : n \in From(s, p) /\ n + 1 <= EndOf(s)
  BY <1>1, <1>3 DEF From
<1>4. ASSUME p \in Nat  PROVE \A n \in closes : n \in From(s, p) /\ n + 2 <= EndOf(s)
  BY <1>1, <1>4 DEF From, Pair
<1>5. CASE Pair(s, f, "-", "-")
  <2>1. PieceEnd(s, f) = After(s, lines, 1)  BY Zenon, <1>5, PieceEndIs
  <2>2. p \in Nat \ {0} /\ p <= EndOf(s)  BY Zenon, <1>2, <1>5
  <2>. HIDE DEF lines, p
  <2>3. After(s, lines, 1) \in p .. EndOf(s)  BY <1>3, <2>2, AfterEnds
  <2>4. ~SetAt(s, f)  BY <1>5 DEF Pair, SetAt
  <2>. QED  BY Zenon, <1>5, <2>1, <2>3, <2>4 DEF p, Pair
<1>6. CASE Pair(s, f, "/", "*")
  <2>1. PieceEnd(s, f) = After(s, closes, 2)  BY Zenon, <1>6, PieceEndIs
  <2>2. p \in Nat \ {0} /\ p <= EndOf(s)  BY Zenon, <1>2, <1>6
  <2>. HIDE DEF closes, p
  <2>3. After(s, closes, 2) \in p .. EndOf(s)  BY <1>4, <2>2, AfterEnds
  <2>4. ~SetAt(s, f)  BY <1>6 DEF Pair, SetAt
  <2>. QED  BY Zenon, <1>6, <2>1, <2>3, <2>4 DEF p, Pair
<1>. QED  BY Zenon, <1>5, <1>6

\* A statement in a text that has its semicolon.
LEMMA SetIsEnded ==
  ASSUME NEW T, NEW s \in Seq(T), Ended(s), NEW f \in DOMAIN s, SetAt(s, f)
  PROVE  /\ f + 2 \in DOMAIN s /\ isspace(s[f + 1])
         /\ \E q \in f + 2 .. Len(s) : ~isspace(s[q])
<1>1. Len(s) \in Nat /\ DOMAIN s = 1 .. Len(s) /\ f \in Nat /\ f >= 1  BY TextEnds
<1>2. PICK q \in DOMAIN s : s[q] = ";" /\ \A n \in DOMAIN s : q < n => isspace(s[n])
  BY DEF Ended
<1>3. s[f] = "set" /\ ~isspace(s[f]) /\ ~isspace(s[q]) /\ f # q
  BY <1>2 DEF SetAt, isspace, Blank, NewLine
<1>4. q \in Nat /\ q <= Len(s)  BY <1>1
<1>5. ~(q < f)  BY Zenon, <1>2, <1>3
<1>6. f + 1 \in DOMAIN s  BY ONLY <1>1, <1>3, <1>4, <1>5
<1>7. isspace(s[f + 1])  BY <1>6 DEF SetAt
<1>8. q # f + 1  BY Zenon, <1>3, <1>7
<1>9. f + 2 \in DOMAIN s /\ q \in f + 2 .. Len(s)  BY ONLY <1>1, <1>3, <1>4, <1>5, <1>8
<1>. QED  BY Zenon, <1>3, <1>7, <1>9

-----------------------------------------------------------------------------
(* The steps                                                               *)

\* Where the piece that is being read begins.
LEMMA ReadingAt ==
  ASSUME IInv, NEW f, Reading(f)
  PROVE  /\ text \in Seq(Symbols) /\ DOMAIN text = 1 .. Len(text) /\ Len(text) \in Nat
         /\ EndOf(text) = Len(text) + 1
         /\ f \in Nat /\ f >= 1 /\ f <= EndOf(text)
         /\ i \in Nat /\ excludeRanges \in Seq(Ranges)
<1>1. text \in Seq(Symbols) /\ i \in Nat /\ excludeRanges \in Seq(Ranges)
  BY DEF IInv, Typing
<1>2. DOMAIN text = 1 .. Len(text) /\ Len(text) \in Nat /\ EndOf(text) = Len(text) + 1
  BY <1>1, TextEnds
<1>3. f \in 1 .. EndOf(text)
  <2>1. Starts(text) \in SUBSET (1 .. EndOf(text))  BY <1>1, LeadingAre
  <2>2. f \in Starts(text)  BY DEF Reading, Upto
  <2>. QED  BY Zenon, <2>1, <2>2
<1>. QED  BY <1>1, <1>2, <1>3

LEMMA DefaultReads ==
  ASSUME IInv, Ended(text), NEW f, Reading(f), Default
  PROVE  \E g : Reading(g)'
<1>1. /\ state = "DEFAULT" /\ i \in DOMAIN text /\ i = f
      /\ UNCHANGED <<text, settings, errors, excludeRanges>>
  BY DEF Default, In, found, Reading, AtPiece
<1>2. /\ text \in Seq(Symbols) /\ DOMAIN text = 1 .. Len(text) /\ Len(text) \in Nat
      /\ EndOf(text) = Len(text) + 1 /\ f \in Nat /\ f >= 1
  BY ReadingAt
<1>3. ASSUME AtPiece(f)'  PROVE Reading(f)'
  BY <1>1, <1>3 DEF Reading
<1>4. CASE Pair(text, f, "-", "-") /\ state' = "SINGLE_LINE_COMMENT" /\ i' = f + 2
  <2>1. AtPiece(f)'  BY <1>1, <1>4 DEF AtPiece
  <2>. QED  BY Zenon, <1>3, <2>1
<1>5. CASE Pair(text, f, "/", "*") /\ state' = "MULTI_LINE_COMMENT" /\ i' = f + 2
  <2>1. AtPiece(f)'  BY <1>1, <1>5 DEF AtPiece
  <2>. QED  BY Zenon, <1>3, <2>1
<1>6. CASE SetAt(text, f) /\ state' = "IN_SET" /\ currentStart' = f /\ i' = f + 2
  <2>1. f + 2 \in DOMAIN text  BY <1>1, <1>2, <1>6, SetIsEnded
  <2>2. AtPiece(f)'  BY <1>1, <1>6, <2>1 DEF AtPiece
  <2>. QED  BY Zenon, <1>3, <2>2
<1>7. CASE /\ ~Pair(text, f, "-", "-") /\ ~Pair(text, f, "/", "*") /\ ~SetAt(text, f)
           /\ state' = IF isspace(text[f]) THEN "DEFAULT" ELSE "STOP"
           /\ i' = f + 1
  <2>1. CASE isspace(text[f])
    <3>. DEFINE g == f + 1
    <3>1. PieceEnd(text, f) = g  BY Zenon, <2>1, PieceEndIs
    <3>2. g \in f + 1 .. EndOf(text)  BY <1>1, <1>2
    <3>3. IsNext(text, f, g)  BY Zenon, <3>1, <3>2 DEF IsNext, Reading
    <3>4. ~SetAt(text, f)  BY Zenon, <1>7
    <3>5. i' = g /\ state' = "DEFAULT"  BY <1>7, <2>1
    <3>. HIDE DEF g
    <3>6. ReadTo(text, settings, errors, excludeRanges, f)  BY Zenon DEF Reading
    <3>7. ReadTo(text, settings, errors, excludeRanges, g)
      BY <1>2, <3>3, <3>4, <3>6, ReadOn
    <3>8. Upto(text, g)  BY <1>2, <3>3, NextIs
    <3>9. AtPiece(g)'  BY <3>5 DEF AtPiece
    <3>. QED  BY <1>1, <3>7, <3>8, <3>9 DEF Reading
  <2>2. CASE ~isspace(text[f])
    <3>1. PieceEnd(text, f) = 0  BY Zenon, <1>7, <2>2, PieceEndIs
    <3>2. AtPiece(f)'  BY <1>1, <1>7, <2>2, <3>1 DEF AtPiece
    <3>. QED  BY Zenon, <1>3, <3>2
  <2>. QED  BY Zenon, <2>1, <2>2
<1>. QED  BY <1>1, <1>4, <1>5, <1>6, <1>7 DEF Default

\* A comment that has been read to its end.
LEMMA CommentReads ==
  ASSUME IInv, NEW f, Reading(f), f \in DOMAIN text,
         Pair(text, f, "-", "-") \/ Pair(text, f, "/", "*")
  PROVE  /\ IsNext(text, f, PieceEnd(text, f))
         /\ Upto(text, PieceEnd(text, f))
         /\ ReadTo(text, settings, errors, excludeRanges, PieceEnd(text, f))
<1>. DEFINE g == PieceEnd(text, f)
<1>1. /\ text \in Seq(Symbols) /\ DOMAIN text = 1 .. Len(text) /\ Len(text) \in Nat
      /\ EndOf(text) = Len(text) + 1 /\ f \in Nat /\ f >= 1
  BY ReadingAt
<1>2. g \in f + 2 .. EndOf(text) /\ ~SetAt(text, f)
  <2>1. /\ Pair(text, f, "-", "-") => g \in f + 2 .. EndOf(text) /\ ~SetAt(text, f)
        /\ Pair(text, f, "/", "*") => g \in f + 2 .. EndOf(text) /\ ~SetAt(text, f)
    BY <1>1, CommentEnds
  <2>. QED  BY Zenon, <2>1
<1>3. PieceEnd(text, f) = g  OBVIOUS
<1>. HIDE DEF g
<1>4. g \in f + 1 .. EndOf(text)  BY <1>1, <1>2
<1>5. IsNext(text, f, g)  BY Zenon, <1>3, <1>4 DEF IsNext, Reading
<1>6. ReadTo(text, settings, errors, excludeRanges, f)  BY Zenon DEF Reading
<1>7. ReadTo(text, settings, errors, excludeRanges, g)
  BY <1>1, <1>2, <1>5, <1>6, ReadOn
<1>8. Upto(text, g)  BY <1>1, <1>5, NextIs
<1>. QED  BY Zenon, <1>3, <1>5, <1>7, <1>8

\* A comment begins where two of its characters stand.
LEMMA PairInside ==
  ASSUME NEW T, NEW s \in Seq(T), NEW f \in Nat, f >= 1, NEW a, NEW b, Pair(s, f, a, b)
  PROVE  f \in DOMAIN s
BY DEF Pair

LEMMA SingleLineReads ==
  ASSUME IInv, NEW f, Reading(f), SingleLineComment
  PROVE  \E g : Reading(g)'
<1>1. /\ state = "SINGLE_LINE_COMMENT" /\ Pair(text, f, "-", "-") /\ i = f + 2
      /\ i' = After(text, {n \in From(text, i) : text[n] = NewLine}, 1)
      /\ state' = "DEFAULT" /\ UNCHANGED <<text, settings, errors, excludeRanges>>
  BY DEF SingleLineComment, In, found, Reading, AtPiece
<1>2. f \in DOMAIN text  BY <1>1, ReadingAt, PairInside
<1>3. i' = PieceEnd(text, f)  BY Zenon, <1>1, PieceEndIs
<1>7. PICK g : g = PieceEnd(text, f)  OBVIOUS
<1>4. Upto(text, g) /\ ReadTo(text, settings, errors, excludeRanges, g)
  BY Zenon, <1>1, <1>2, <1>7, CommentReads
<1>5. i' = g  BY Zenon, <1>3, <1>7
<1>6. AtPiece(g)'  BY <1>1, <1>5 DEF AtPiece
<1>. QED  BY <1>1, <1>4, <1>6 DEF Reading

LEMMA MultiLineReads ==
  ASSUME IInv, NEW f, Reading(f), MultiLineComment
  PROVE  \E g : Reading(g)'
<1>. DEFINE closes == {n \in From(text, i) : Pair(text, n, "*", "/")}
<1>8. PICK g : g = PieceEnd(text, f)  OBVIOUS
<1>0. /\ DOMAIN text = 1 .. Len(text) /\ Len(text) \in Nat /\ EndOf(text) = Len(text) + 1
      /\ f \in Nat /\ f >= 1 /\ text \in Seq(Symbols)
  BY ReadingAt
<1>1. /\ state = "MULTI_LINE_COMMENT" /\ Pair(text, f, "/", "*") /\ i \in DOMAIN text
      /\ i = f + 2 \/ i = EndOf(text)
      /\ i' = After(text, closes, 2)
      /\ state' = (IF closes = {} THEN state ELSE "DEFAULT")
      /\ UNCHANGED <<text, settings, errors, excludeRanges>>
  BY DEF MultiLineComment, In, found, Reading, AtPiece
<1>2. i = f + 2
  <2>1. EndOf(text) \notin DOMAIN text  BY ONLY <1>0
  <2>. QED  BY Zenon, <1>1, <2>1
<1>3. f \in DOMAIN text  BY <1>0, <1>1, PairInside
<1>4. After(text, closes, 2) = g  BY Zenon, <1>1, <1>2, <1>8, PieceEndIs
<1>5. Upto(text, g) /\ ReadTo(text, settings, errors, excludeRanges, g)
  BY Zenon, <1>1, <1>3, <1>8, CommentReads
<1>. HIDE DEF closes
<1>6. CASE closes = {}
  <2>1. After(text, closes, 2) = EndOf(text)  BY Zenon, <1>6 DEF After
  <2>2. i' = EndOf(text) /\ PieceEnd(text, f) = EndOf(text)  BY <1>1, <1>4, <1>8, <2>1
  <2>3. state' = "MULTI_LINE_COMMENT"  BY <1>1, <1>6
  <2>4. AtPiece(f)'  BY <1>1, <2>2, <2>3 DEF AtPiece
  <2>. QED  BY <1>1, <2>4 DEF Reading
<1>7. CASE closes # {}
  <2>1. i' = g /\ state' = "DEFAULT"  BY <1>1, <1>4, <1>7
  <2>2. AtPiece(g)'  BY <1>1, <2>1 DEF AtPiece
  <2>. QED  BY <1>1, <1>5, <2>2 DEF Reading
<1>. QED  BY Zenon, <1>6, <1>7

LEMMA InSetReads ==
  ASSUME IInv, IInv', Ended(text), NEW f, Reading(f), InSet
  PROVE  \E g : Reading(g)'
<1>. DEFINE written == {n \in From(text, i) : ~isspace(text[n])}
            from == After(text, written, 0)
<1>0. /\ DOMAIN text = 1 .. Len(text) /\ Len(text) \in Nat /\ EndOf(text) = Len(text) + 1
      /\ f \in Nat /\ f >= 1 /\ text \in Seq(Symbols)
  BY ReadingAt
<1>1. /\ state = "IN_SET" /\ currentStart = f /\ SetAt(text, f) /\ i = f + 2
      /\ i \in DOMAIN text /\ i' = from /\ from # EndOf(text) /\ state' = "IN_KEY_VALUE"
      /\ UNCHANGED <<text, settings, errors, excludeRanges, currentStart>>
  BY DEF InSet, In, found, Reading, AtPiece
<1>2. \A n \in written : n \in Nat /\ f + 2 <= n /\ n <= Len(text) /\ ~isspace(text[n])
  BY <1>0, <1>1 DEF From
<1>3. written # {}  BY Zenon, <1>1 DEF After
<1>4. from = Min(written) + 0  BY Zenon, <1>3 DEF After
<1>. HIDE DEF written, from
<1>5. written \in SUBSET Nat  BY Zenon, <1>2
<1>6. Min(written) \in written  BY Zenon, <1>3, <1>5, MinIsFirst
<1>7. from \in written
  <2>1. Min(written) \in Nat  BY Zenon, <1>2, <1>6
  <2>2. Min(written) + 0 = Min(written)  BY ONLY <2>1
  <2>. QED  BY Zenon, <1>4, <1>6, <2>2
<1>8. from \in f + 2 .. Len(text) /\ ~isspace(text[from])
  <2>1. from \in Nat /\ f + 2 <= from /\ from <= Len(text) /\ ~isspace(text[from])
    BY Zenon, <1>2, <1>7
  <2>2. from \in f + 2 .. Len(text)  BY ONLY <1>0, <2>1
  <2>. QED  BY Zenon, <2>1, <2>2
<1>9. \A n \in f + 1 .. from - 1 : isspace(text[n])
  <2>1. \A n \in f + 1 .. from - 1 : n \in DOMAIN text => isspace(text[n])
    BY <1>1 DEF IInv, Begun, UnderWay
  <2>2. \A n \in f + 1 .. from - 1 : n \in DOMAIN text
    BY ONLY <1>0, <1>8
  <2>. QED  BY Zenon, <2>1, <2>2
<1>10. IsBody(text, f, from)
  <2>1. f \in Nat \ {0}  BY <1>0
  <2>. QED  BY Zenon, <1>1, <1>8, <1>9, <2>1 DEF IsBody
<1>11. AtPiece(f)'  BY <1>1, <1>10 DEF AtPiece
<1>. QED  BY <1>1, <1>11 DEF Reading

LEMMA InKeyValueReads ==
  ASSUME IInv, NEW f, Reading(f), InKeyValue
  PROVE  \E g : Reading(g)'
<1>6. PICK g : g = After(text, Semicolons(text, i), 1)  OBVIOUS
<1>. DEFINE kv == trim(SubSeq(text, i, g - 2))
<1>0. /\ DOMAIN text = 1 .. Len(text) /\ Len(text) \in Nat /\ EndOf(text) = Len(text) + 1
      /\ f \in Nat /\ f >= 1 /\ text \in Seq(Symbols) /\ excludeRanges \in Seq(Ranges)
  BY ReadingAt
<1>1. /\ state = "IN_KEY_VALUE" /\ currentStart = f /\ IsBody(text, f, i)
      /\ i' = g /\ state' = "DEFAULT" /\ UNCHANGED text
      /\ SetAt(text, f) /\ Upto(text, f)
      /\ ReadTo(text, settings, errors, excludeRanges, f)
  BY <1>6 DEF InKeyValue, In, Reading, AtPiece, IsBody
<1>2. i \in Nat /\ f + 2 <= i /\ i <= Len(text)  BY <1>0, <1>1, BodyIs
<1>3. CASE Semicolons(text, i) = {} /\ errors' = Append(errors, "missing semicolon")
           /\ UNCHANGED <<settings, excludeRanges>>
  <2>1. g = EndOf(text)  BY Zenon, <1>3, <1>6 DEF After
  <2>2. PieceEnd(text, f) = EndOf(text) /\ Meaning(text, f).error = "missing semicolon"
    BY <1>0, <1>1, <1>3, UnendedMeans
  <2>3. EndOf(text) \in f + 1 .. EndOf(text)  BY ONLY <1>0, <1>2
  <2>4. IsNext(text, f, g)  BY Zenon, <1>1, <2>1, <2>2, <2>3 DEF IsNext
  <2>5. Meaning(text, f).error # ""  BY <2>2
  <2>6. ReadTo(text, settings, Append(errors, Meaning(text, f).error), excludeRanges, g)
    BY Zenon, <1>0, <1>1, <2>4, <2>5, ReadRefused
  <2>7. ReadTo(text, settings, errors, excludeRanges, g)'
    BY <1>1, <1>3, <2>2, <2>6
  <2>8. Upto(text, g)  BY Zenon, <1>0, <2>4, NextIs
  <2>9. AtPiece(g)'  BY <1>1 DEF AtPiece
  <2>. QED  BY <1>1, <2>7, <2>8, <2>9 DEF Reading
<1>4. CASE Semicolons(text, i) # {} /\ parseKeyValue(kv, g)
  <2>1. /\ PieceEnd(text, f) = g /\ g \in i + 1 .. EndOf(text)
        /\ Equals(kv) = 0 => Meaning(text, f).error = "missing ="
        /\ Equals(kv) # 0 /\ KeyOf(kv) = << >> => Meaning(text, f).error = "empty key"
        /\ Equals(kv) # 0 /\ KeyOf(kv) # << >> =>
             /\ Meaning(text, f).error = ""
             /\ Meaning(text, f).key = KeyOf(kv) /\ Meaning(text, f).value = ValueOf(kv)
    BY <1>0, <1>1, <1>4, <1>6, EndedMeans
  <2>2. g \in f + 1 .. EndOf(text) /\ g \in Nat
    <3>1. g \in i + 1 .. EndOf(text)  BY Zenon, <2>1
    <3>2. EndOf(text) \in Nat  BY ONLY <1>0
    <3>. QED  BY ONLY <1>0, <1>2, <3>1, <3>2
  <2>. HIDE DEF kv
  <2>3. IsNext(text, f, g)  BY Zenon, <1>1, <2>1, <2>2 DEF IsNext
  <2>4. Upto(text, g)  BY Zenon, <1>0, <2>3, NextIs
  <2>5. AtPiece(g)'  BY <1>1 DEF AtPiece
  <2>6. SUFFICES ReadTo(text, settings, errors, excludeRanges, g)'
    BY <1>1, <2>4, <2>5 DEF Reading
  <2>7. CASE Equals(kv) # 0 /\ KeyOf(kv) # << >>
    <3>. DEFINE r == [first |-> f, next |-> g]
    <3>1. /\ settings' = Put(settings, Meaning(text, f).key, Meaning(text, f).value)
          /\ excludeRanges' = Append(excludeRanges, r) /\ errors' = errors
      BY <1>1, <1>4, <2>1, <2>7 DEF parseKeyValue, Exclude
    <3>2. r \in Ranges  BY <1>0, <2>2 DEF Ranges
    <3>3. Meaning(text, f).error = ""  BY Zenon, <2>1, <2>7
    <3>4. ReadTo(text, Put(settings, Meaning(text, f).key, Meaning(text, f).value), errors,
                 Append(excludeRanges, r), g)
      BY Zenon, <1>0, <1>1, <2>3, <3>2, <3>3, ReadAssignment
    <3>. HIDE DEF r
    <3>. QED  BY <1>1, <3>1, <3>4
  <2>8. CASE ~(Equals(kv) # 0 /\ KeyOf(kv) # << >>)
    <3>1. /\ errors' = Append(errors, IF Equals(kv) = 0 THEN "missing =" ELSE "empty key")
          /\ UNCHANGED <<settings, excludeRanges>>
      BY <1>4, <2>8 DEF parseKeyValue
    <3>2. /\ Meaning(text, f).error = (IF Equals(kv) = 0 THEN "missing =" ELSE "empty key")
          /\ Meaning(text, f).error # ""
      BY <2>1, <2>8
    <3>3. ReadTo(text, settings, Append(errors, Meaning(text, f).error), excludeRanges, g)
      BY Zenon, <1>0, <1>1, <2>3, <3>2, ReadRefused
    <3>. QED  BY <1>1, <3>1, <3>2, <3>3
  <2>. QED  BY Zenon, <2>7, <2>8
<1>5. \/ Semicolons(text, i) # {} /\ parseKeyValue(kv, g)
      \/ Semicolons(text, i) = {} /\ errors' = Append(errors, "missing semicolon")
         /\ UNCHANGED <<settings, excludeRanges>>
  BY <1>1, <1>6 DEF InKeyValue
<1>. QED  BY Zenon, <1>3, <1>4, <1>5

LEMMA StopReads ==
  ASSUME IInv, NEW f, Reading(f), Stop
  PROVE  \E g : Reading(g)'
<1>1. UNCHANGED <<text, state, settings, errors, excludeRanges>> /\ state = "STOP"
  BY DEF Stop, In, found
<1>2. AtPiece(f)'  BY <1>1 DEF AtPiece, Reading
<1>. QED  BY <1>1, <1>2 DEF Reading

-----------------------------------------------------------------------------
(* The beginning and the end                                               *)

\* parse sees to it that a text ends with a semicolon.
LEMMA TerminatedIsEnded ==
  ASSUME NEW query \in Queries
  PROVE  Ended(Terminated(query))
<1>. DEFINE t == trim(query)
            W == {n \in DOMAIN query : ~isspace(query[n])}
<1>1. query \in Seq(Symbols)  BY QueriesAssumption
<1>2. Len(query) \in Nat /\ DOMAIN query = 1 .. Len(query)  BY <1>1
<1>3. CASE t = << >> \/ Last(t) # ";"
  <2>1. Terminated(query) = Append(query, ";")  BY Zenon, <1>3 DEF Terminated
  <2>. DEFINE s == Append(query, ";")
              q == Len(query) + 1
  <2>2. DOMAIN s = 1 .. q /\ s[q] = ";"
    <3>1. query \in Seq(Symbols)  BY <1>1
    <3>3. ";" \in Symbols  BY DEF Symbols
    <3>2. \A c \in Symbols : /\ DOMAIN Append(query, c) = 1 .. Len(query) + 1
                             /\ Append(query, c)[Len(query) + 1] = c
      BY ONLY <3>1, AppendProperties, LenProperties
    <3>. QED  BY Zenon, <3>2, <3>3
  <2>3. q \in 1 .. q /\ \A n \in 1 .. q : ~(q < n)  BY ONLY <1>2
  <2>. HIDE DEF s, q
  <2>4. Ended(s)  BY Zenon, <2>2, <2>3 DEF Ended
  <2>. QED  BY Zenon, <2>1, <2>4 DEF s
<1>4. CASE t # << >> /\ Last(t) = ";"
  <2>1. Terminated(query) = query  BY Zenon, <1>4 DEF Terminated
  <2>2. W # {}  BY Zenon, <1>4 DEF trim
  <2>3. t = SubSeq(query, Min(W), Max(W))  BY Zenon, <2>2 DEF trim
  <2>. HIDE DEF W
  <2>4. W \in SUBSET (1 .. Len(query)) /\ \A n \in DOMAIN query : n \notin W => isspace(query[n])
    BY Zenon, <1>2 DEF W
  <2>. DEFINE a == Min(W)
              q == Max(W)
  <2>5. q \in W /\ \A n \in W : n <= q  BY <1>2, <2>2, <2>4, MaxIsLast
  <2>6. a \in W /\ \A n \in W : a <= n
    <3>1. W \in SUBSET Nat  BY <1>2, <2>4
    <3>. QED  BY <2>2, <3>1, MinIsFirst
  <2>7. a \in 1 .. Len(query) /\ q \in 1 .. Len(query) /\ a <= q  BY Zenon, <2>4, <2>5, <2>6
  <2>. HIDE DEF a, q, t
  <2>8. t = SubSeq(query, a, q)  BY Zenon, <2>3 DEF a, q
  <2>9. Len(t) = q - a + 1 /\ t[q - a + 1] = query[q]
    BY <1>1, <1>2, <2>7, <2>8
  <2>10. query[q] = ";"  BY <1>4, <2>9 DEF Last
  <2>11. \A n \in DOMAIN query : q < n => n \notin W
    <3>1. \A n \in DOMAIN query : n \in Nat  BY <1>2
    <3>2. \A n \in Nat : q < n => ~(n <= q)  BY ONLY <1>2, <2>7
    <3>. QED  BY Zenon, <2>5, <3>1, <3>2
  <2>12. Ended(query)  BY Zenon, <1>2, <2>4, <2>7, <2>10, <2>11 DEF Ended
  <2>. QED  BY Zenon, <2>1, <2>12
<1>. QED  BY Zenon, <1>3, <1>4

\* At the beginning nothing has been read.
LEMMA ReadingBegins == Init => PInv
<1>. SUFFICES ASSUME Init  PROVE PInv
  OBVIOUS
<1>1. PICK query \in Queries : text = Terminated(query)  BY DEF Init
<1>2. Ended(text)  BY Zenon, <1>1, TerminatedIsEnded
<1>0. IInv  BY Initially
<1>3. text \in Seq(Symbols)  BY <1>0 DEF IInv, Typing
<1>4. /\ EndOf(text) \in Nat \ {0} /\ DOMAIN text = 1 .. Len(text) /\ Len(text) \in Nat
      /\ state = "DEFAULT" /\ i = 1
      /\ settings = << >> /\ excludeRanges = << >> /\ errors = << >>
  BY <1>3, TextEnds DEF Init
<1>5. Upto(text, 1)
  <2>1. Starts(text) \in SUBSET (1 .. EndOf(text)) /\ 1 \in Starts(text)
    BY <1>4, StartsAre
  <2>2. \A p \in 1 .. EndOf(text) : ~(p < 1)  BY <1>4
  <2>. QED  BY Zenon, <2>1, <2>2 DEF Upto
<1>6. Taken(text, 1) = {}
  <2>1. \A p \in Leading(text) : p \in Nat /\ p >= 1  BY <1>3, LeadingAre
  <2>2. Assignments(text) \in SUBSET Leading(text)  BY <1>3, LeadingAre
  <2>3. \A p \in Nat : p >= 1 => ~(p < 1)  OBVIOUS
  <2>. QED  BY Zenon, <2>1, <2>2, <2>3 DEF Taken
<1>7. InOrder(Refused(text), 1 - 1) = << >>
  <2>1. 1 - 1 = 0  OBVIOUS
  <2>2. InOrder(Refused(text), 0) = << >>  BY Zenon, InOrderUnfolds
  <2>. QED  BY Zenon, <2>1, <2>2
<1>8. DOMAIN settings = {} /\ DOMAIN excludeRanges = {}  BY <1>4
<1>9. errors = At(ErrorAt(text), << >>)
  <2>1. DOMAIN << >> = {} /\ \A g : [k \in {} |-> g[<< >>[k]]] = << >>  OBVIOUS
  <2>. QED  BY <1>4, <2>1 DEF At
<1>10. ReadTo(text, settings, errors, excludeRanges, 1)
  BY Zenon, <1>6, <1>7, <1>8, <1>9 DEF ReadTo
<1>11. AtPiece(1)  BY <1>4 DEF AtPiece
<1>. QED  BY Zenon, <1>2, <1>5, <1>10, <1>11 DEF PInv, Reading

\* At the end everything has been read.
LEMMA ReadToTheEnd ==
  ASSUME IInv, PInv, i >= EndOf(text)
  PROVE  ReadTo(text, settings, errors, excludeRanges, EndOf(text))
<1>1. PICK f : Reading(f)  BY DEF PInv
<1>2. /\ text \in Seq(Symbols) /\ DOMAIN text = 1 .. Len(text) /\ Len(text) \in Nat
      /\ EndOf(text) = Len(text) + 1
      /\ f \in Nat /\ f >= 1 /\ f <= EndOf(text) /\ i \in Nat
  BY <1>1, ReadingAt
<1>3. Upto(text, f) /\ ReadTo(text, settings, errors, excludeRanges, f) /\ AtPiece(f)
  BY <1>1 DEF Reading
<1>. DEFINE g == EndOf(text)
<1>4. ASSUME Pair(text, f, "-", "-") \/ Pair(text, f, "/", "*"), i = f + 2 \/ PieceEnd(text, f) = g
      PROVE  ReadTo(text, settings, errors, excludeRanges, g)
  <2>1. f \in DOMAIN text  BY <1>2, <1>4, PairInside
  <2>2. PieceEnd(text, f) \in f + 2 .. g  BY <1>2, <1>4, <2>1, CommentEnds
  <2>3. PieceEnd(text, f) = g  BY <1>2, <1>4, <2>2
  <2>4. ReadTo(text, settings, errors, excludeRanges, PieceEnd(text, f))
    BY Zenon, <1>1, <1>4, <2>1, CommentReads
  <2>. QED  BY Zenon, <2>3, <2>4
<1>5. CASE state = "DEFAULT"
  <2>1. f = g  BY <1>2, <1>3, <1>5 DEF AtPiece
  <2>. QED  BY Zenon, <1>3, <2>1
<1>6. CASE state = "SINGLE_LINE_COMMENT"
  <2>1. Pair(text, f, "-", "-") /\ i = f + 2  BY <1>3, <1>6 DEF AtPiece
  <2>. QED  BY Zenon, <1>4, <2>1
<1>7. CASE state = "MULTI_LINE_COMMENT"
  <2>1. Pair(text, f, "/", "*") /\ (i = f + 2 \/ PieceEnd(text, f) = g)
    BY <1>3, <1>7 DEF AtPiece
  <2>. QED  BY Zenon, <1>4, <2>1
<1>8. CASE state = "IN_SET"
  <2>1. i \in DOMAIN text  BY <1>3, <1>8 DEF AtPiece
  <2>. QED  BY <1>2, <2>1
<1>9. CASE state = "IN_KEY_VALUE"
  <2>1. IsBody(text, f, i)  BY <1>3, <1>9 DEF AtPiece
  <2>2. i <= Len(text)  BY <1>2, <2>1, BodyIs
  <2>. QED  BY <1>2, <2>2
<1>10. CASE state = "STOP"
  <2>1. PieceEnd(text, f) = 0 /\ ~SetAt(text, f)  BY <1>3, <1>10 DEF AtPiece
  <2>2. \A n \in Starts(text) : n <= f
    <3>1. EndOf(text) \in Nat \ {0}  BY ONLY <1>2
    <3>. QED  BY <1>3, <2>1, <3>1, NoneBehind
  <2>3. \A p \in Leading(text) : p \in Starts(text) /\ SetAt(text, p) /\ p \in Nat /\ p \in DOMAIN text
    BY Zenon, <1>2, LeadingAre
  <2>4. \A p \in Leading(text) : p \in Nat /\ p <= f /\ p # f  BY Zenon, <2>1, <2>2, <2>3
  <2>5. \A p \in Leading(text) : p < f /\ p < g
    <3>. SUFFICES ASSUME NEW p \in Leading(text)  PROVE p < f /\ p < g
      OBVIOUS
    <3>1. p \in Nat /\ p <= f /\ p # f  BY Zenon, <2>4
    <3>. QED  BY ONLY <1>2, <3>1
  <2>6. Taken(text, g) = Taken(text, f)
    <3>1. Assignments(text) \in SUBSET Leading(text)  BY <1>2, LeadingAre
    <3>. QED  BY Zenon, <2>5, <3>1 DEF Taken
  <2>7. InOrder(Refused(text), g - 1) = InOrder(Refused(text), f - 1)
    <3>. DEFINE a == f - 1
                b == g - 1
    <3>1. a \in Nat /\ b \in Nat /\ a <= b /\ a + 1 = f  BY ONLY <1>2
    <3>2. \A n \in f .. b : n \notin Refused(text)
      <4>1. \A n \in f .. b : ~(n < f)  BY ONLY <1>2
      <4>. QED  BY Zenon, <2>5, <4>1 DEF Refused
    <3>. HIDE DEF a, b
    <3>3. \A n \in a + 1 .. b : n \notin Refused(text)  BY Zenon, <3>1, <3>2
    <3>4. InOrder(Refused(text), b) = InOrder(Refused(text), a)
      BY <3>1, <3>3, InOrderSkips
    <3>. QED  BY Zenon, <3>4 DEF a, b
  <2>. QED  BY Zenon, <1>3, <2>6, <2>7 DEF ReadTo
<1>11. state \in States  BY DEF IInv, Typing
<1>. QED  BY <1>5, <1>6, <1>7, <1>8, <1>9, <1>10, <1>11 DEF States

\* The ranges are the assignments.
LEMMA CutOutIs ==
  ASSUME IInv, ReadTo(text, settings, errors, excludeRanges, EndOf(text))
  PROVE  /\ IsCut(excludeRanges, Len(text))
         /\ Taken(text, EndOf(text)) = Assignments(text)
         /\ CutOut(excludeRanges) = UNION {p .. PieceEnd(text, p) - 1 : p \in Assignments(text)}
<1>1. /\ text \in Seq(Symbols) /\ DOMAIN text = 1 .. Len(text) /\ Len(text) \in Nat
      /\ EndOf(text) = Len(text) + 1 /\ excludeRanges \in Seq(Ranges)
  BY TextEnds DEF IInv, Typing
<1>2. IsCut(excludeRanges, Len(text))
  <2>1. ASSUME NEW k \in DOMAIN excludeRanges
        PROVE  /\ excludeRanges[k].first >= 1 /\ excludeRanges[k].first < excludeRanges[k].next
               /\ excludeRanges[k].next <= Len(text) + 1
    <3>1. /\ excludeRanges[k].first \in DOMAIN text /\ excludeRanges[k].next - 1 \in DOMAIN text
          /\ excludeRanges[k].first < excludeRanges[k].next
      BY DEF IInv, OnlySetsRemoved
    <3>2. excludeRanges[k].next \in Nat  BY RangesAre DEF IInv
    <3>. QED  BY <1>1, <3>1, <3>2
  <2>2. \A k, l \in DOMAIN excludeRanges : k < l => excludeRanges[k].next <= excludeRanges[l].first
    BY DEF IInv, OnlySetsRemoved
  <2>. QED  BY Zenon, <1>1, <2>1, <2>2 DEF IsCut
<1>3. Taken(text, EndOf(text)) = Assignments(text)
  <2>1. \A p \in Leading(text) : p \in DOMAIN text  BY Zenon, <1>1, LeadingAre
  <2>2. Assignments(text) \in SUBSET Leading(text)  BY <1>1, LeadingAre
  <2>3. \A p \in DOMAIN text : p < EndOf(text)  BY ONLY <1>1
  <2>. QED  BY Zenon, <2>1, <2>2, <2>3 DEF Taken
<1>4. /\ \A k \in DOMAIN excludeRanges :
           /\ excludeRanges[k].first \in Assignments(text)
           /\ excludeRanges[k].next = PieceEnd(text, excludeRanges[k].first)
      /\ \A p \in Assignments(text) : \E k \in DOMAIN excludeRanges : excludeRanges[k].first = p
  BY Zenon, <1>3 DEF ReadTo
<1>5. CutOut(excludeRanges) = UNION {p .. PieceEnd(text, p) - 1 : p \in Assignments(text)}
  <2>. DEFINE part(p) == p .. PieceEnd(text, p) - 1
  <2>1. \A k \in DOMAIN excludeRanges :
          excludeRanges[k].first .. excludeRanges[k].next - 1 = part(excludeRanges[k].first)
    BY Zenon, <1>4
  <2>. HIDE DEF part
  <2>2. \A n : (\E k \in DOMAIN excludeRanges :
                  n \in excludeRanges[k].first .. excludeRanges[k].next - 1)
               <=> \E p \in Assignments(text) : n \in part(p)
    BY Zenon, <1>4, <2>1
  <2>3. CutOut(excludeRanges) = UNION {part(p) : p \in Assignments(text)}
    BY Zenon, <2>2 DEF CutOut
  <2>. QED  BY Zenon, <2>3 DEF part
<1>. QED  BY Zenon, <1>2, <1>3, <1>5

\* What has been read at the end is what the text says.
LEMMA MeantAtTheEnd ==
  ASSUME IInv, PInv
  PROVE  ParsedAsMeant
<1>. SUFFICES ASSUME i >= EndOf(text)  PROVE ParsedAsMeant
  BY Zenon DEF ParsedAsMeant
<1>. DEFINE good == Assignments(text)
            bad == InOrder(Leading(text) \ good, Len(text))
            cut == UNION {p .. PieceEnd(text, p) - 1 : p \in good}
            rest == InOrder(DOMAIN text \ cut, Len(text))
<1>1. ReadTo(text, settings, errors, excludeRanges, EndOf(text))  BY ReadToTheEnd
<1>2. /\ IsCut(excludeRanges, Len(text)) /\ Taken(text, EndOf(text)) = good
      /\ CutOut(excludeRanges) = cut
  BY <1>1, CutOutIs
<1>3. text \in Seq(Symbols) /\ Len(text) \in Nat /\ EndOf(text) - 1 = Len(text)
  <2>1. text \in Seq(Symbols)  BY DEF IInv, Typing
  <2>2. Len(text) \in Nat /\ EndOf(text) = Len(text) + 1  BY <2>1, TextEnds
  <2>. QED  BY ONLY <2>1, <2>2
<1>4. DOMAIN settings = {Meaning(text, p).key : p \in good}
  BY Zenon, <1>1, <1>2 DEF ReadTo
<1>5. \A key \in DOMAIN settings :
        settings[key] = Meaning(text, Max({p \in good : Meaning(text, p).key = key})).value
  BY Zenon, <1>1, <1>2 DEF ReadTo, ValueOfLast
<1>6. errors = [k \in DOMAIN bad |-> Meaning(text, bad[k]).error]
  <2>1. errors = At(ErrorAt(text), bad)  BY Zenon, <1>1, <1>3 DEF ReadTo, Refused
  <2>2. bad \in Seq(Nat)  BY Zenon, <1>3, InOrderUnfolds
  <2>. HIDE DEF bad
  <2>3. \A k \in DOMAIN bad : bad[k] \in Nat  BY <2>2
  <2>4. \A k \in DOMAIN bad : ErrorAt(text)[bad[k]] = Meaning(text, bad[k]).error
    BY Zenon, <2>3 DEF ErrorAt
  <2>. QED  BY Zenon, <2>1, <2>4 DEF At
<1>7. RemainingQuery = trim([k \in DOMAIN rest |-> text[rest[k]]])
  <2>1. RemainingQuery = trim(At(text, rest))
    BY <1>2, <1>3, RemainingIs
  <2>. QED  BY Zenon, <2>1 DEF At
<1>. QED  BY Zenon, <1>4, <1>5, <1>6, <1>7 DEF ParsedAsMeant

-----------------------------------------------------------------------------
(***************************************************************************)
(* For every query: when SettingParser has come to its end, its settings,  *)
(* its errors and the query that is left are what the text says            *)
(* (setting_parser.cpp, parse).                                            *)
(***************************************************************************)
THEOREM QueriesParsedAsMeant == Spec => []ParsedAsMeant
<1>1. ASSUME IInv, PInv, [Next]_vars  PROVE PInv'
  <2>1. PICK f : Reading(f)  BY <1>1 DEF PInv
  <2>2. IInv'  BY <1>1, IInvStep
  <2>3. UNCHANGED text
    BY <1>1 DEF Next, Default, SingleLineComment, MultiLineComment, InSet, InKeyValue, Stop,
                Return, vars
  <2>4. Ended(text)  BY <1>1 DEF PInv
  <2>5. CASE UNCHANGED vars
    <3>1. Reading(f)'
      BY <2>1, <2>5 DEF vars, Reading, AtPiece
    <3>. QED  BY <2>3, <2>4, <3>1 DEF PInv
  <2>6. CASE ~UNCHANGED vars
    <3>1. \E g : Reading(g)'
      BY <1>1, <2>1, <2>2, <2>4, <2>6, DefaultReads, SingleLineReads, MultiLineReads, InSetReads,
         InKeyValueReads, StopReads
      DEF Next, Return
    <3>. QED  BY <2>3, <2>4, <3>1 DEF PInv
  <2>. QED  BY Zenon, <2>5, <2>6
<1>2. IInv /\ PInv => ParsedAsMeant  BY MeantAtTheEnd
<1>3. ASSUME IInv, [Next]_vars  PROVE IInv'  BY <1>3, IInvStep
<1>. QED  BY Initially, ReadingBegins, <1>1, <1>2, <1>3, PTL DEF Spec
=============================================================================

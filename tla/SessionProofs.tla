--------------------------- MODULE SessionProofs ---------------------------
(***************************************************************************)
(* The connection and its catalog calls, for all connection strings, all   *)
(* sets of tables and schemas, any size of a page and number of changes.   *)
(*                                                                         *)
(* The functions that the parsers are defined by exist, so that what they  *)
(* return follows from their equations, by induction as the search for the *)
(* first place where a claim fails.  On plain strings the parsers that     *)
(* look for the next "=" and the one that splits at ";" find the same      *)
(* parameters, the last value stored for a setting stays, and so the       *)
(* configuration follows what the application gave.  A client that the     *)
(* driver manager knows of was made from the present configuration.  A     *)
(* listing holds the names up to its marker, once each, that stayed all    *)
(* the time.                                                               *)
(***************************************************************************)
EXTENDS Catalog, FiniteSetTheorems, SequenceTheorems, WellFoundedInduction, TLAPS

-----------------------------------------------------------------------------
(* First and last of a set of numbers                                      *)

LEMMA MinIsFirst ==
  ASSUME NEW S \in SUBSET Nat, S # {}
  PROVE  \E m \in S : \A n \in S : m <= n
<1>1. PICK m \in S : \A n \in S : ~(<<n, m>> \in OpToRel(<, Nat))
  BY NatLessThanWellFounded, WFMin
<1>2. ASSUME NEW n \in S  PROVE m <= n
  <2>1. n \in Nat /\ m \in Nat  OBVIOUS
  <2>2. n < m => <<n, m>> \in OpToRel(<, Nat)  BY <2>1 DEF OpToRel
  <2>3. ~(n < m)  BY Zenon, <1>1, <2>2
  <2>. QED  BY <2>1, <2>3
<1>. QED  BY <1>2

LEMMA MaxIsLast ==
  ASSUME NEW N \in Nat, NEW S \in SUBSET (1 .. N), S # {}
  PROVE  Max(S) \in S /\ \A n \in S : n <= Max(S)
<1>. DEFINE D == {N - n : n \in S}
<1>1. D \in SUBSET Nat /\ D # {}
  <2>1. \A n \in S : N - n \in Nat  OBVIOUS
  <2>2. PICK n \in S : TRUE  OBVIOUS
  <2>3. N - n \in D  OBVIOUS
  <2>. QED  BY Zenon, <2>1, <2>3
<1>2. PICK d \in D : \A e \in D : d <= e  BY <1>1, MinIsFirst
<1>3. PICK m \in S : d = N - m  OBVIOUS
<1>4. \A n \in S : m >= n
  <2>. SUFFICES ASSUME NEW n \in S  PROVE m >= n  OBVIOUS
  <2>1. N - m <= N - n  BY <1>2, <1>3
  <2>2. m \in 1 .. N /\ n \in 1 .. N  OBVIOUS
  <2>. QED  BY <2>1, <2>2
<1>5. Max(S) \in S /\ \A n \in S : Max(S) >= n  BY <1>4 DEF Max
<1>. QED  BY <1>5

-----------------------------------------------------------------------------
(* The recursive functions of module ConnectionString                      *)

LEMMA MaxOfInterval ==
  ASSUME NEW n \in Nat, NEW S \in SUBSET (1 .. n + 1), n + 1 \in S
  PROVE  Max(S) = n + 1
<1>1. \A y \in S : n + 1 >= y  OBVIOUS
<1>2. \A x \in S : (\A y \in S : x >= y) => x = n + 1  OBVIOUS
<1>. QED  BY <1>1, <1>2 DEF Max

\* storing parameters one after the other
Stored(keys, base, ps) == FoldLeft(LAMBDA c, p : Store(keys, c, p), base, ps)

IsIter(iter, keys, base, ps, n) ==
  iter = [s \in SUBSET (1 .. n) |->
            IF s = {} THEN base ELSE Store(keys, iter[s \ {Max(s)}], ps[Max(s)])]

LEMMA IterExists ==
  ASSUME NEW keys, NEW base, NEW ps, NEW N \in Nat
  PROVE  \E iter : IsIter(iter, keys, base, ps, N)
<1>. DEFINE Bad == {n \in Nat : ~\E iter : IsIter(iter, keys, base, ps, n)}
<1>. SUFFICES ASSUME Bad # {}  PROVE FALSE  OBVIOUS
<1>1. PICK m \in Bad : \A n \in Bad : m <= n  BY MinIsFirst
<1>2. m # 0
  <2>1. IsIter([s \in SUBSET (1 .. 0) |-> base], keys, base, ps, 0)
    <3>1. \A s \in SUBSET (1 .. 0) : s = {}  OBVIOUS
    <3>. QED  BY Zenon, <3>1 DEF IsIter
  <2>. QED  BY <2>1
<1>3. m - 1 \in Nat /\ m - 1 \notin Bad  BY <1>1, <1>2
<1>4. PICK iter : IsIter(iter, keys, base, ps, m - 1)  BY <1>3
<1>. DEFINE Step(s) == Store(keys, iter[s \ {Max(s)}], ps[Max(s)])
            more == [s \in SUBSET (1 .. m) |-> IF m \in s THEN Step(s) ELSE iter[s]]
<1>5. ASSUME NEW s \in SUBSET (1 .. m)
      PROVE  more[s] = IF s = {} THEN base ELSE Store(keys, more[s \ {Max(s)}], ps[Max(s)])
  <2>1. CASE m \in s
    <3>1. Max(s) = m  BY <1>3, <2>1, MaxOfInterval
    <3>2. s \ {m} \in SUBSET (1 .. m)  OBVIOUS
    <3>3. more[s \ {m}] = iter[s \ {m}]  BY <3>2
    <3>4. more[s] = Step(s)  BY <2>1
    <3>. QED  BY Zenon, <2>1, <3>1, <3>3, <3>4
  <2>2. CASE m \notin s
    <3>1. s \in SUBSET (1 .. m - 1)  BY <1>3, <2>2
    <3>2. more[s] = iter[s]  BY <2>2
    <3>3. iter[s] = IF s = {} THEN base ELSE Step(s)  BY Zenon, <1>4, <3>1 DEF IsIter
    <3>4. ASSUME s # {}  PROVE more[s \ {Max(s)}] = iter[s \ {Max(s)}]
      <4>1. s \ {Max(s)} \in SUBSET (1 .. m) /\ m \notin s \ {Max(s)}  BY <2>2
      <4>. QED  BY <4>1
    <3>. QED  BY Zenon, <3>2, <3>3, <3>4
  <2>. QED  BY <2>1, <2>2
<1>6. more = [s \in SUBSET (1 .. m) |->
                IF s = {} THEN base ELSE Store(keys, more[s \ {Max(s)}], ps[Max(s)])]
  <2>. HIDE DEF Step
  <2>. QED  BY Zenon, <1>5
<1>7. IsIter(more, keys, base, ps, m)
  <2>. HIDE DEF more
  <2>. QED BY Zenon, <1>6 DEF IsIter
<1>8. m \notin Bad
  <2>. HIDE DEF more
  <2>. QED  BY <1>7
<1>. QED  BY <1>1, <1>8

LEMMA StoredUnfolds ==
  ASSUME NEW keys, NEW base, NEW T, NEW ps \in Seq(T)
  PROVE  \E f : /\ f[0] = base
                /\ \A k \in 1 .. Len(ps) : f[k] = Store(keys, f[k - 1], ps[k])
                /\ Stored(keys, base, ps) = f[Len(ps)]
<1>1. Len(ps) \in Nat /\ DOMAIN ps = 1 .. Len(ps)  OBVIOUS
<1>. DEFINE iter == CHOOSE g : IsIter(g, keys, base, ps, Len(ps))
            f == [k \in 0 .. Len(ps) |-> iter[1 .. k]]
<1>2. IsIter(iter, keys, base, ps, Len(ps))  BY <1>1, IterExists
<1>3. Stored(keys, base, ps) = iter[DOMAIN ps]
  BY Zenon, <1>1 DEF Stored, FoldLeft, MapThenFoldSet, IsIter
<1>. HIDE DEF iter
<1>4. f[0] = base
  <2>1. 1 .. 0 = {} /\ 0 \in 0 .. Len(ps)  BY <1>1
  <2>2. f[0] = iter[1 .. 0]  BY <2>1
  <2>. QED  BY Zenon, <1>2, <2>1, <2>2 DEF IsIter
<1>5. ASSUME NEW k \in 1 .. Len(ps)  PROVE f[k] = Store(keys, f[k - 1], ps[k])
  <2>1. 1 .. k \in SUBSET (1 .. Len(ps)) /\ 1 .. k # {}
    <3>1. k \in 1 .. k  BY <1>1
    <3>2. \A j \in 1 .. k : j \in 1 .. Len(ps)  BY <1>1
    <3>. QED  BY Zenon, <3>1, <3>2
  <2>2. k - 1 \in Nat /\ k \in 1 .. k /\ (1 .. k) \in SUBSET (1 .. (k - 1) + 1) /\ (k - 1) + 1 = k
    BY <1>1
  <2>3. Max(1 .. k) = k  BY <2>2, MaxOfInterval
  <2>4. (1 .. k) \ {k} = 1 .. k - 1  BY <1>1
  <2>5. k \in 0 .. Len(ps) /\ k - 1 \in 0 .. Len(ps)  BY <1>1
  <2>6. f[k] = iter[1 .. k] /\ f[k - 1] = iter[1 .. k - 1]  BY <2>5
  <2>. HIDE DEF f
  <2>7. iter[1 .. k] = Store(keys, iter[(1 .. k) \ {Max(1 .. k)}], ps[Max(1 .. k)])
    BY Zenon, <1>2, <2>1 DEF IsIter
  <2>. QED  BY Zenon, <2>3, <2>4, <2>6, <2>7
<1>6. Stored(keys, base, ps) = f[Len(ps)]
  <2>1. f[Len(ps)] = iter[1 .. Len(ps)]  BY <1>1
  <2>. HIDE DEF f
  <2>. QED  BY Zenon, <1>1, <1>3, <2>1
<1>. HIDE DEF f
<1>. QED  BY Zenon, <1>4, <1>5, <1>6

LEMMA FindIsFirst ==
  ASSUME NEW T, NEW s \in Seq(T), NEW t, NEW i \in Nat \ {0}
  PROVE  LET at == Find(s, t, i)
         IN  \/ at = 0 /\ \A j \in i .. Len(s) : s[j] # t
             \/ /\ at \in i .. Len(s) /\ s[at] = t
                /\ \A j \in i .. Len(s) : s[j] = t => at <= j
<1>. DEFINE I == {j \in i .. Len(s) : s[j] = t}
<1>1. Find(s, t, i) = IF I # {} THEN Min(I) ELSE 0
  BY DEF Find, SelectInSubSeq
<1>2. CASE I = {}  BY <1>1, <1>2
<1>3. CASE I # {}
  <2>1. I \in SUBSET Nat  OBVIOUS
  <2>2. \E m \in I : \A n \in I : m <= n  BY <1>3, <2>1, MinIsFirst
  <2>3. Min(I) \in I /\ \A n \in I : Min(I) <= n  BY <2>2 DEF Min
  <2>. QED  BY <1>1, <1>3, <2>3
<1>. QED  BY <1>2, <1>3

LEMMA ValueAtGoesOn ==
  ASSUME NEW T, NEW s \in Seq(T), NEW i \in 1 .. Len(s) + 1
  PROVE  ValueAt(s, i).next \in i .. Len(s) + 1
<1>. DEFINE close == Find(s, Quote, i + 1)
            semicolon == Find(s, ";", i)
            quoted == i <= Len(s) /\ s[i] = Quote
<1>1. Len(s) \in Nat /\ i \in Nat \ {0} /\ i + 1 \in Nat \ {0}  OBVIOUS
<1>2. close = 0 \/ close \in i + 1 .. Len(s)  BY <1>1, FindIsFirst
<1>3. semicolon = 0 \/ semicolon \in i .. Len(s)  BY <1>1, FindIsFirst
<1>4. ValueAt(s, i).next \in {Len(s) + 1} \cup (IF close # 0 THEN {close + 1} ELSE {})
                              \cup (IF semicolon # 0 THEN {semicolon + 1} ELSE {})
  <2>1. CASE quoted /\ close # 0  BY <2>1 DEF ValueAt
  <2>2. CASE ~quoted /\ semicolon # 0  BY <2>2 DEF ValueAt
  <2>3. CASE ~(quoted /\ close # 0) /\ ~(~quoted /\ semicolon # 0)
    BY <2>3 DEF ValueAt
  <2>. QED  BY <2>1, <2>2, <2>3
<1>. HIDE DEF close, semicolon
<1>. QED  BY <1>1, <1>2, <1>3, <1>4

\* A function that goes through the places first .. N, each time behind the last.
IsWalk(from, h, nx, first, N) ==
  from = [i \in first .. N |-> IF nx[i] = 0 THEN h[i] ELSE h[i] \o from[nx[i]]]

LEMMA WalkExists ==
  ASSUME NEW N \in Nat \ {0}, NEW h, NEW nx,
         \A i \in 1 .. N : nx[i] \in {0} \cup i + 1 .. N
  PROVE  \E from : IsWalk(from, h, nx, 1, N)
<1>. DEFINE Bad == {k \in 0 .. N - 1 : ~\E from : IsWalk(from, h, nx, N - k, N)}
<1>1. SUFFICES ASSUME Bad # {}  PROVE FALSE
  <2>1. N - 1 \in 0 .. N - 1 /\ N - (N - 1) = 1  OBVIOUS
  <2>. QED  BY <2>1
<1>2. PICK m \in Bad : \A n \in Bad : m <= n
  <2>1. Bad \in SUBSET Nat  OBVIOUS
  <2>. QED  BY <1>1, <2>1, MinIsFirst
<1>. DEFINE i == N - m
<1>3. i \in 1 .. N /\ m \in 0 .. N - 1  OBVIOUS
<1>4. PICK g : \A j \in i + 1 .. N :
                 g[j] = IF nx[j] = 0 THEN h[j] ELSE h[j] \o g[nx[j]]
  <2>1. CASE m = 0
    <3>1. i + 1 .. N = {}  BY <2>1
    <3>. QED  BY <3>1
  <2>2. CASE m # 0
    <3>1. m - 1 \in 0 .. N - 1 /\ ~(m <= m - 1) /\ N - (m - 1) = i + 1
      BY <1>3, <2>2
    <3>2. m - 1 \notin Bad  BY <1>2, <3>1
    <3>3. PICK g : IsWalk(g, h, nx, i + 1, N)  BY <3>1, <3>2
    <3>. QED  BY Zenon, <3>3 DEF IsWalk
  <2>. QED  BY <2>1, <2>2
<1>. DEFINE start == IF nx[i] = 0 THEN h[i] ELSE h[i] \o g[nx[i]]
            from == [j \in i .. N |-> IF j = i THEN start ELSE g[j]]
<1>5. ASSUME NEW j \in i .. N
      PROVE  from[j] = IF nx[j] = 0 THEN h[j] ELSE h[j] \o from[nx[j]]
  <2>. HIDE DEF start
  <2>1. j \in 1 .. N  BY <1>3
  <2>2. ASSUME nx[j] # 0  PROVE from[nx[j]] = g[nx[j]]
    <3>1. nx[j] \in j + 1 .. N  BY <2>1, <2>2
    <3>2. nx[j] \in i .. N /\ nx[j] # i  BY <1>3, <2>1, <3>1
    <3>. HIDE DEF i
    <3>. QED  BY <3>2
  <2>3. CASE j = i
    <3>1. from[j] = start  BY <2>3
    <3>2. start = IF nx[j] = 0 THEN h[j] ELSE h[j] \o g[nx[j]]
      BY Zenon, <2>3 DEF start
    <3>. HIDE DEF from, i
    <3>. QED  BY Zenon, <2>2, <3>1, <3>2
  <2>4. CASE j # i
    <3>1. from[j] = g[j] /\ j \in i + 1 .. N  BY <1>3, <2>4
    <3>. HIDE DEF from, i
    <3>. QED  BY Zenon, <1>4, <2>2, <3>1
  <2>. QED  BY <2>3, <2>4
<1>. HIDE DEF start
<1>6. IsWalk(from, h, nx, i, N)
  <2>1. from = [j \in i .. N |-> IF nx[j] = 0 THEN h[j] ELSE h[j] \o from[nx[j]]]
    <3>. HIDE DEF i
    <3>. QED  BY Zenon, <1>5
  <2>. HIDE DEF from
  <2>. QED  BY Zenon, <2>1 DEF IsWalk
<1>7. m \notin Bad
  <2>. HIDE DEF from
  <2>. QED  BY <1>6
<1>. QED  BY <1>2, <1>7

\* The separators, by names.
EqualSign == "="
Semicolon == ";"

\* The parameters behind position i.
ParameterAt(s, i) ==
  LET eq == Find(s, EqualSign, i)
  IN  [key |-> KeyWord(SubSeq(s, i, eq - 1)), value |-> ValueAt(s, eq + 1).value]

NextAt(s, i) == ValueAt(s, Find(s, EqualSign, i) + 1).next

ParametersOf(s) == {ParameterAt(s, i) : i \in 1 .. Len(s) + 1}

IsFrom(from, s, first) ==
  from = [i \in first .. Len(s) + 1 |->
            IF Find(s, EqualSign, i) = 0 THEN << >>
            ELSE <<ParameterAt(s, i)>> \o from[NextAt(s, i)]]

LEMMA NextIsBehind ==
  ASSUME NEW T, NEW s \in Seq(T), NEW i \in 1 .. Len(s) + 1, Find(s, EqualSign, i) # 0
  PROVE  NextAt(s, i) \in i + 1 .. Len(s) + 1
<1>1. Find(s, EqualSign, i) \in i .. Len(s)  BY FindIsFirst
<1>2. Find(s, EqualSign, i) + 1 \in 1 .. Len(s) + 1  BY <1>1
<1>3. NextAt(s, i) \in Find(s, EqualSign, i) + 1 .. Len(s) + 1
  BY <1>2, ValueAtGoesOn DEF NextAt
<1>. QED  BY <1>1, <1>3

LEMMA FromExists ==
  ASSUME NEW T, NEW s \in Seq(T)
  PROVE  \E from : IsFrom(from, s, 1)
<1>. DEFINE N == Len(s) + 1
            h == [i \in 1 .. N |-> IF Find(s, EqualSign, i) = 0 THEN << >> ELSE <<ParameterAt(s, i)>>]
            nx == [i \in 1 .. N |-> IF Find(s, EqualSign, i) = 0 THEN 0 ELSE NextAt(s, i)]
<1>1. N \in Nat \ {0}  OBVIOUS
<1>2. \A i \in 1 .. N : nx[i] \in {0} \cup i + 1 .. N
  BY NextIsBehind
<1>. HIDE DEF N, nx, h
<1>3. PICK from : IsWalk(from, h, nx, 1, N)  BY <1>1, <1>2, WalkExists
<1>4. ASSUME NEW i \in 1 .. N
      PROVE  from[i] = IF Find(s, EqualSign, i) = 0 THEN << >>
                       ELSE <<ParameterAt(s, i)>> \o from[NextAt(s, i)]
  <2>1. from[i] = IF nx[i] = 0 THEN h[i] ELSE h[i] \o from[nx[i]]
    BY Zenon, <1>3, <1>4 DEF IsWalk
  <2>2. CASE Find(s, EqualSign, i) = 0
    <3>1. nx[i] = 0 /\ h[i] = << >>  BY <2>2 DEF nx, h
    <3>. QED  BY <2>1, <2>2, <3>1
  <2>3. CASE Find(s, EqualSign, i) # 0
    <3>1. nx[i] = NextAt(s, i) /\ h[i] = <<ParameterAt(s, i)>>  BY <2>3 DEF nx, h
    <3>2. nx[i] # 0  BY <1>1, <2>3, <3>1, NextIsBehind DEF N
    <3>. QED  BY Zenon, <2>1, <2>3, <3>1, <3>2
  <2>. QED  BY <2>2, <2>3
<1>5. from = [i \in 1 .. N |-> IF Find(s, EqualSign, i) = 0 THEN << >>
                               ELSE <<ParameterAt(s, i)>> \o from[NextAt(s, i)]]
  <2>1. from = [i \in 1 .. N |-> from[i]]
    <3>. DEFINE g == [i \in 1 .. N |-> IF nx[i] = 0 THEN h[i] ELSE h[i] \o from[nx[i]]]
    <3>1. from = g  BY Zenon, <1>3 DEF IsWalk
    <3>2. \A i \in 1 .. N : g[i] = from[i]  BY Zenon, <3>1
    <3>3. g = [i \in 1 .. N |-> g[i]]  OBVIOUS
    <3>. HIDE DEF g
    <3>. QED  BY Zenon, <3>1, <3>3
  <2>. QED  BY Zenon, <1>4, <2>1
<1>. QED  BY Zenon, <1>5 DEF IsFrom, N

LEMMA FromIsSequences ==
  ASSUME NEW T, NEW s \in Seq(T), NEW from, IsFrom(from, s, 1)
  PROVE  \A i \in 1 .. Len(s) + 1 : from[i] \in Seq(ParametersOf(s))
<1>. DEFINE N == Len(s) + 1
            Bad == {k \in 0 .. Len(s) : from[N - k] \notin Seq(ParametersOf(s))}
<1>1. Len(s) \in Nat  OBVIOUS
<1>2. SUFFICES ASSUME Bad # {}  PROVE FALSE
  <2>1. \A i \in 1 .. N : N - i \in 0 .. Len(s) /\ N - (N - i) = i  BY <1>1
  <2>. HIDE DEF N
  <2>. QED  BY <2>1 DEF N
<1>3. PICK m \in Bad : \A n \in Bad : m <= n
  <2>1. Bad \in SUBSET Nat  OBVIOUS
  <2>. QED  BY <1>2, <2>1, MinIsFirst
<1>. DEFINE i == N - m
<1>4. i \in 1 .. N  BY <1>1
<1>5. from[i] = IF Find(s, EqualSign, i) = 0 THEN << >>
                ELSE <<ParameterAt(s, i)>> \o from[NextAt(s, i)]
  BY Zenon, <1>4 DEF IsFrom
<1>6. CASE Find(s, EqualSign, i) = 0
  <2>1. << >> \in Seq(ParametersOf(s))  OBVIOUS
  <2>. QED  BY <1>5, <1>6, <2>1
<1>7. CASE Find(s, EqualSign, i) # 0
  <2>1. NextAt(s, i) \in i + 1 .. N  BY <1>4, <1>7, NextIsBehind
  <2>2. N - NextAt(s, i) \in 0 .. Len(s) /\ N - NextAt(s, i) < m
        /\ N - (N - NextAt(s, i)) = NextAt(s, i)
    BY <1>1, <1>4, <2>1
  <2>3. from[NextAt(s, i)] \in Seq(ParametersOf(s))
    <3>1. N - NextAt(s, i) \notin Bad  BY <1>3, <2>2
    <3>. QED  BY <2>2, <3>1
  <2>4. ParameterAt(s, i) \in ParametersOf(s)  BY <1>4 DEF ParametersOf
  <2>5. <<ParameterAt(s, i)>> \o from[NextAt(s, i)] \in Seq(ParametersOf(s))
    BY <2>3, <2>4
  <2>. QED  BY <1>5, <1>7, <2>5
<1>. QED  BY <1>6, <1>7

\* The equation of Parameters.
LEMMA ParametersUnfold ==
  ASSUME NEW T, NEW s \in Seq(T)
  PROVE  \E from : IsFrom(from, s, 1) /\ Parameters(s) = from[1]
<1>. DEFINE from == CHOOSE f : IsFrom(f, s, 1)
<1>1. IsFrom(from, s, 1)  BY FromExists
<1>2. Parameters(s) = from[1]
  BY Zenon DEF Parameters, IsFrom, ParameterAt, NextAt, EqualSign
<1>. QED  BY <1>1, <1>2

LEMMA ParametersAreASequence ==
  ASSUME NEW T, NEW s \in Seq(T)
  PROVE  Parameters(s) \in Seq(ParametersOf(s))
<1>1. PICK from : IsFrom(from, s, 1) /\ Parameters(s) = from[1]  BY ParametersUnfold
<1>2. 1 \in 1 .. Len(s) + 1  OBVIOUS
<1>. QED  BY <1>1, <1>2, FromIsSequences

LEMMA BeforeThrowIsASequence ==
  ASSUME NEW T, NEW ps \in Seq(T)
  PROVE  BeforeThrow(ps) \in Seq(T)
<1>1. BadNumbers(ps) \in SUBSET (1 .. Len(ps))  BY DEF BadNumbers
<1>2. CASE BadNumbers(ps) = {}  BY <1>2 DEF BeforeThrow
<1>3. CASE BadNumbers(ps) # {}
  <2>1. \E m \in BadNumbers(ps) : \A n \in BadNumbers(ps) : m <= n
    <3>1. BadNumbers(ps) \in SUBSET Nat  BY <1>1
    <3>. QED  BY <1>3, <3>1, MinIsFirst
  <2>2. Min(BadNumbers(ps)) \in 1 .. Len(ps)  BY <1>1, <2>1 DEF Min
  <2>3. BeforeThrow(ps) = SubSeq(ps, 1, Min(BadNumbers(ps)) - 1)
    BY <1>3 DEF BeforeThrow
  <2>4. Min(BadNumbers(ps)) - 1 \in 0 .. Len(ps)  BY <2>2
  <2>. HIDE DEF BadNumbers
  <2>. QED  BY <2>3, <2>4
<1>. QED  BY <1>2, <1>3

-----------------------------------------------------------------------------
(* What the parsers make of a configuration is one                         *)

\* Records with the settings of a configuration.
IsConfig(c) == DOMAIN c = DOMAIN DefaultConfig

LEMMA ConfigIsClient == \A c : IsConfig(c) => c # NoClient
<1>1. "endpoint" \in DOMAIN DefaultConfig  BY DEF DefaultConfig
<1>2. DOMAIN NoClient = {}  BY DEF NoClient
<1>. QED  BY Zenon, <1>1, <1>2 DEF IsConfig

LEMMA StoredIsConfig ==
  ASSUME NEW keys, NEW base, IsConfig(base), NEW T, NEW ps \in Seq(T)
  PROVE  IsConfig(Stored(keys, base, ps))
<1>1. PICK f : /\ f[0] = base
               /\ \A k \in 1 .. Len(ps) : f[k] = Store(keys, f[k - 1], ps[k])
               /\ Stored(keys, base, ps) = f[Len(ps)]
  BY StoredUnfolds
<1>. DEFINE Bad == {k \in 0 .. Len(ps) : ~IsConfig(f[k])}
<1>. SUFFICES ASSUME Bad # {}  PROVE FALSE  BY <1>1
<1>2. Bad \in SUBSET Nat  OBVIOUS
<1>3. PICK m \in Bad : \A n \in Bad : m <= n  BY <1>2, MinIsFirst
<1>4. m # 0  BY <1>1
<1>5. m \in 1 .. Len(ps) /\ m - 1 \in 0 .. Len(ps) /\ ~(m <= m - 1)  BY <1>4
<1>6. IsConfig(f[m - 1])  BY <1>3, <1>5
<1>7. f[m] = Store(keys, f[m - 1], ps[m])  BY <1>1, <1>5
<1>8. DOMAIN Store(keys, f[m - 1], ps[m]) = DOMAIN f[m - 1]  BY DEF Store
<1>9. IsConfig(f[m])  BY Zenon, <1>6, <1>7, <1>8 DEF IsConfig
<1>. QED  BY <1>9

LEMMA ParsedIsConfig ==
  ASSUME NEW s \in ConnectStrings
  PROVE  IsConfig(parse(s))
<1>1. parse(s) = Stored(TextKeys, DefaultConfig, Parameters(s))  BY DEF parse, Stored
<1>2. Parameters(s) \in Seq(ParametersOf(s))
  BY ConnectionAssumption, ParametersAreASequence
<1>3. IsConfig(DefaultConfig)  BY DEF IsConfig
<1>. QED  BY <1>1, <1>2, <1>3, StoredIsConfig

LEMMA UpdatedIsConfig ==
  ASSUME NEW s \in ConnectStrings, NEW c, IsConfig(c)
  PROVE  IsConfig(updateConfig(s, c).config)
<1>. DEFINE ps == BeforeThrow(Parameters(s))
<1>1. updateConfig(s, c).config = Stored(UpdateKeys, c, ps)  BY DEF updateConfig, Stored
<1>2. Parameters(s) \in Seq(ParametersOf(s))
  BY ConnectionAssumption, ParametersAreASequence
<1>3. ps \in Seq(ParametersOf(s))  BY <1>2, BeforeThrowIsASequence
<1>. HIDE DEF ps
<1>. QED  BY <1>1, <1>3, StoredIsConfig

-----------------------------------------------------------------------------
(* On plain strings the parsers agree                                      *)

LEMMA FindIs ==
  ASSUME NEW T, NEW s \in Seq(T), NEW t, NEW i \in Nat \ {0}, NEW at \in i .. Len(s),
         s[at] = t, \A j \in i .. at - 1 : s[j] # t
  PROVE  Find(s, t, i) = at
<1>1. \/ Find(s, t, i) = 0 /\ \A j \in i .. Len(s) : s[j] # t
      \/ /\ Find(s, t, i) \in i .. Len(s) /\ s[Find(s, t, i)] = t
         /\ \A j \in i .. Len(s) : s[j] = t => Find(s, t, i) <= j
  BY FindIsFirst
<1>2. Find(s, t, i) \in i .. Len(s) /\ s[Find(s, t, i)] = t /\ Find(s, t, i) <= at
  BY <1>1
<1>3. ~(Find(s, t, i) < at)  BY <1>2
<1>. QED  BY <1>2, <1>3

LEMMA FindsNone ==
  ASSUME NEW T, NEW s \in Seq(T), NEW t, NEW i \in Nat \ {0}, \A j \in i .. Len(s) : s[j] # t
  PROVE  Find(s, t, i) = 0
BY FindIsFirst

LEMMA TrimKeeps ==
  ASSUME NEW T, NEW s \in Seq(T), \A i \in DOMAIN s : s[i] # Blank
  PROVE  Trim(s) = s
<1>1. Len(s) \in Nat /\ DOMAIN s = 1 .. Len(s)  OBVIOUS
<1>2. {i \in DOMAIN s : s[i] # Blank} = 1 .. Len(s)  BY <1>1
<1>3. CASE Len(s) = 0
  <2>1. s = << >> /\ 1 .. Len(s) = {}  BY <1>3
  <2>. QED  BY <1>2, <2>1 DEF Trim
<1>4. CASE Len(s) # 0
  <2>1. 1 .. Len(s) # {} /\ 1 .. Len(s) \in SUBSET (1 .. Len(s)) /\ 1 \in 1 .. Len(s)
        /\ Len(s) \in 1 .. Len(s)
    BY <1>1, <1>4
  <2>2. Max(1 .. Len(s)) = Len(s)
    <3>1. Max(1 .. Len(s)) \in 1 .. Len(s) /\ Len(s) <= Max(1 .. Len(s))
      BY <1>1, <2>1, MaxIsLast
    <3>. QED  BY <1>1, <3>1
  <2>3. Min(1 .. Len(s)) = 1
    <3>1. \A x \in 1 .. Len(s) : (\A y \in 1 .. Len(s) : x <= y) => x = 1  BY <2>1
    <3>2. \A y \in 1 .. Len(s) : 1 <= y  OBVIOUS
    <3>. QED  BY <2>1, <3>1, <3>2 DEF Min
  <2>4. SubSeq(s, 1, Len(s)) = s  BY SubSeqFull
  <2>. QED  BY <1>2, <2>1, <2>2, <2>3, <2>4 DEF Trim
<1>. QED  BY <1>3, <1>4

\* Where a piece of the string begins.
IsStart(s, i) == i = 1 \/ s[i - 1] = Semicolon

PieceEnd(s, i) == IF Find(s, Semicolon, i) = 0 THEN Len(s) ELSE Find(s, Semicolon, i) - 1

LEMMA PlainMeans ==
  ASSUME NEW T, NEW s \in Seq(T), IsPlain(s)
  PROVE  /\ \A i \in DOMAIN s : s[i] \notin {Quote, Escaped, Blank}
         /\ \A i \in DOMAIN s : IsStart(s, i) =>
              /\ Find(s, EqualSign, i) > i
              /\ \A j \in i .. Find(s, EqualSign, i) : s[j] # Semicolon
BY Zenon DEF IsPlain, IsStart, EqualSign, Semicolon

LEMMA PlainPlaces ==
  ASSUME NEW T, NEW s \in Seq(T), IsPlain(s), NEW i \in 1 .. Len(s), IsStart(s, i)
  PROVE  LET eq == Find(s, EqualSign, i)
             semicolon == Find(s, Semicolon, i)
         IN  /\ eq \in i + 1 .. Len(s) /\ s[eq] = EqualSign /\ \A j \in i .. eq - 1 : s[j] # EqualSign
             /\ semicolon = 0 \/ (semicolon \in eq + 1 .. Len(s) /\ s[semicolon] = Semicolon)
             /\ Find(s, Semicolon, eq + 1) = semicolon
<1>. DEFINE eq == Find(s, EqualSign, i)
            semicolon == Find(s, Semicolon, i)
<1>1. i \in Nat \ {0} /\ Len(s) \in Nat /\ DOMAIN s = 1 .. Len(s)  OBVIOUS
<1>2. eq > i /\ \A j \in i .. eq : s[j] # Semicolon
  BY <1>1, PlainMeans
<1>3. \/ eq = 0 /\ \A j \in i .. Len(s) : s[j] # EqualSign
      \/ /\ eq \in i .. Len(s) /\ s[eq] = EqualSign
         /\ \A j \in i .. Len(s) : s[j] = EqualSign => eq <= j
  BY <1>1, FindIsFirst
<1>4. \/ semicolon = 0 /\ \A j \in i .. Len(s) : s[j] # Semicolon
      \/ /\ semicolon \in i .. Len(s) /\ s[semicolon] = Semicolon
         /\ \A j \in i .. Len(s) : s[j] = Semicolon => semicolon <= j
  BY <1>1, FindIsFirst
<1>. HIDE DEF eq, semicolon
<1>5. eq \in i + 1 .. Len(s) /\ s[eq] = EqualSign /\ \A j \in i .. eq - 1 : s[j] # EqualSign
  <2>1. eq # 0  BY <1>1, <1>2
  <2>2. eq \in i + 1 .. Len(s) /\ s[eq] = EqualSign  BY <1>1, <1>2, <1>3, <2>1
  <2>3. ASSUME NEW j \in i .. eq - 1  PROVE s[j] # EqualSign
    <3>1. j \in i .. Len(s) /\ ~(eq <= j)  BY <1>1, <2>2
    <3>. QED  BY <1>3, <2>1, <3>1
  <2>. QED  BY <2>2, <2>3
<1>6. semicolon = 0 \/ (semicolon \in eq + 1 .. Len(s) /\ s[semicolon] = Semicolon)
  <2>. SUFFICES ASSUME semicolon # 0
                PROVE  semicolon \in eq + 1 .. Len(s) /\ s[semicolon] = Semicolon
    OBVIOUS
  <2>1. semicolon \in i .. Len(s) /\ s[semicolon] = Semicolon  BY <1>4
  <2>2. ~(semicolon \in i .. eq)  BY <1>2, <2>1
  <2>. QED  BY <1>1, <1>5, <2>1, <2>2
<1>7. Find(s, Semicolon, eq + 1) = semicolon
  <2>1. eq + 1 \in Nat \ {0} /\ eq + 1 \in i .. Len(s) + 1  BY <1>1, <1>5
  <2>2. CASE semicolon = 0
    <3>1. \A j \in i .. Len(s) : s[j] # Semicolon  BY <1>1, <1>4, <2>2
    <3>2. \A j \in eq + 1 .. Len(s) : j \in i .. Len(s)  BY <1>1, <2>1
    <3>3. \A j \in eq + 1 .. Len(s) : s[j] # Semicolon  BY <3>1, <3>2
    <3>. QED  BY <2>1, <2>2, <3>3, FindsNone
  <2>3. CASE semicolon # 0
    <3>1. semicolon \in eq + 1 .. Len(s) /\ s[semicolon] = Semicolon  BY <1>6, <2>3
    <3>2. ASSUME NEW j \in eq + 1 .. semicolon - 1  PROVE s[j] # Semicolon
      <4>1. j \in i .. Len(s) /\ ~(semicolon <= j)  BY <1>1, <2>1, <3>1
      <4>. QED  BY <1>4, <2>3, <4>1
    <3>. QED  BY <2>1, <3>1, <3>2, FindIs
  <2>. QED  BY <2>2, <2>3
<1>. QED  BY Zenon, <1>5, <1>6, <1>7 DEF eq, semicolon

\* The piece, cut out and then searched for its "=", holds the parameter found in place.
LEMMA PlainPiece ==
  ASSUME NEW T, NEW s \in Seq(T), IsPlain(s), NEW i \in 1 .. Len(s), IsStart(s, i)
  PROVE  Piece(SubSeq(s, i, PieceEnd(s, i))) = <<ParameterAt(s, i)>>
<1>. DEFINE eq == Find(s, EqualSign, i)
            last == PieceEnd(s, i)
            t == SubSeq(s, i, last)
<1>0. i \in Nat \ {0} /\ Len(s) \in Nat  OBVIOUS
<1>1. /\ eq \in i + 1 .. Len(s) /\ s[eq] = EqualSign /\ \A j \in i .. eq - 1 : s[j] # EqualSign
      /\ Find(s, Semicolon, eq + 1) = Find(s, Semicolon, i)
  BY PlainPlaces
<1>2. last \in eq .. Len(s)
  <2>1. Find(s, Semicolon, i) = 0 \/ Find(s, Semicolon, i) \in eq + 1 .. Len(s)  BY PlainPlaces
  <2>. HIDE DEF eq
  <2>. QED  BY <1>0, <1>1, <2>1 DEF PieceEnd
<1>. HIDE DEF eq, last
<1>3. i \in Nat \ {0} /\ Len(s) \in Nat /\ last \in Nat /\ eq \in Nat  BY <1>0, <1>1, <1>2
<1>4. t \in Seq(T) /\ Len(t) = last - i + 1 /\ \A j \in 1 .. last - i + 1 : t[j] = s[i + j - 1]
  <2>1. \A j \in i .. last : s[j] \in T  BY <1>2, <1>3
  <2>2. i <= last  BY <1>1, <1>2, <1>3
  <2>. QED  BY <1>3, <2>1, <2>2, SubSeqProperties
<1>5. Find(t, EqualSign, 1) = eq - i + 1
  <2>1. eq - i + 1 \in 1 .. Len(t)  BY <1>1, <1>2, <1>3, <1>4
  <2>2. t[eq - i + 1] = EqualSign
    <3>1. i + (eq - i + 1) - 1 = eq  BY <1>3
    <3>2. t[eq - i + 1] = s[i + (eq - i + 1) - 1]  BY <1>4, <2>1
    <3>. QED  BY <1>1, <3>1, <3>2
  <2>3. \A j \in 1 .. (eq - i + 1) - 1 : t[j] # EqualSign
    <3>. SUFFICES ASSUME NEW j \in 1 .. (eq - i + 1) - 1  PROVE t[j] # EqualSign  OBVIOUS
    <3>1. j \in 1 .. last - i + 1 /\ i + j - 1 \in i .. eq - 1  BY <1>2, <1>3
    <3>2. t[j] = s[i + j - 1]  BY <1>4, <3>1
    <3>. QED  BY <1>1, <3>1, <3>2
  <2>4. t \in Seq(T) /\ 1 \in Nat \ {0}  BY <1>4
  <2>. DEFINE at == eq - i + 1
  <2>5. at \in 1 .. Len(t) /\ t[at] = EqualSign /\ \A j \in 1 .. at - 1 : t[j] # EqualSign
    BY Zenon, <2>1, <2>2, <2>3
  <2>. HIDE DEF t, at
  <2>6. Find(t, EqualSign, 1) = at  BY <2>4, <2>5, FindIs
  <2>. QED  BY <2>6 DEF at
<1>6. SubSeq(t, 1, eq - i) = SubSeq(s, i, eq - 1)
  <2>1. i \in 1 .. Len(s) /\ last \in 1 .. Len(s) /\ 1 \in 1 .. last - i + 1
        /\ eq - i \in 1 .. last - i + 1
    BY <1>1, <1>2, <1>3
  <2>2. SubSeq(t, 1, eq - i) = SubSeq(s, i + 1 - 1, i + (eq - i) - 1)
    BY <2>1, <1>4, SubSeqOfSubSeq
  <2>3. i + 1 - 1 = i /\ i + (eq - i) - 1 = eq - 1  BY <1>3
  <2>. QED  BY <2>2, <2>3
<1>7. SubSeq(t, eq - i + 2, Len(t)) = SubSeq(s, eq + 1, last)
  <2>1. CASE eq = last
    <3>1. SubSeq(s, eq + 1, last) = << >>  BY <1>3, <2>1, SubSeqEmpty
    <3>2. Len(t) < eq - i + 2 /\ Len(t) \in Int /\ eq - i + 2 \in Int
      BY <1>3, <1>4, <2>1
    <3>. HIDE DEF t
    <3>3. SubSeq(t, eq - i + 2, Len(t)) = << >>  BY <3>2, SubSeqEmpty
    <3>. QED  BY <3>1, <3>3
  <2>2. CASE eq # last
    <3>1. i \in 1 .. Len(s) /\ last \in 1 .. Len(s) /\ eq - i + 2 \in 1 .. last - i + 1
          /\ Len(t) \in 1 .. last - i + 1
      BY <1>1, <1>2, <1>3, <1>4, <2>2
    <3>2. SubSeq(t, eq - i + 2, Len(t)) = SubSeq(s, i + (eq - i + 2) - 1, i + Len(t) - 1)
      <4>. DEFINE a == eq - i + 2
                  b == Len(t)
      <4>1. a \in 1 .. last - i + 1 /\ b \in 1 .. last - i + 1  BY <3>1
      <4>. HIDE DEF a, b
      <4>2. SubSeq(t, a, b) = SubSeq(s, i + a - 1, i + b - 1)
        BY <3>1, <4>1, SubSeqOfSubSeq
      <4>. QED  BY Zenon, <4>2 DEF a, b
    <3>3. i + (eq - i + 2) - 1 = eq + 1 /\ i + Len(t) - 1 = last  BY <1>3, <1>4
    <3>. QED  BY <3>2, <3>3
  <2>. QED  BY <2>1, <2>2
<1>8. ValueAt(s, eq + 1).value = SubSeq(s, eq + 1, last)
  <2>. DEFINE v == SubSeq(s, eq + 1, last)
  <2>1. v \in Seq(T) /\ \A j \in DOMAIN v : v[j] # Blank
    <3>1. \A j \in eq + 1 .. last : s[j] \in T  BY <1>1, <1>2, <1>3
    <3>2. /\ v \in Seq(T) /\ Len(v) = (IF eq + 1 <= last THEN last - (eq + 1) + 1 ELSE 0)
          /\ \A j \in 1 .. last - (eq + 1) + 1 : v[j] = s[eq + 1 + j - 1]
      BY <1>3, <3>1, SubSeqProperties
    <3>3. ASSUME NEW j \in DOMAIN v  PROVE v[j] # Blank
      <4>1. j \in 1 .. Len(v)  BY <3>2
      <4>2. j \in 1 .. last - (eq + 1) + 1 /\ eq + 1 + j - 1 \in 1 .. Len(s)
        BY <1>1, <1>2, <1>3, <3>2, <4>1
      <4>3. v[j] = s[eq + 1 + j - 1]  BY <3>2, <4>2
      <4>4. s[eq + 1 + j - 1] # Blank  BY <4>2, PlainMeans
      <4>. QED  BY <4>3, <4>4
    <3>. QED  BY <3>2, <3>3
  <2>2. Trim(v) = v  BY <2>1, TrimKeeps
  <2>3. ~(eq + 1 <= Len(s) /\ s[eq + 1] = Quote)
    <3>1. eq + 1 <= Len(s) => eq + 1 \in DOMAIN s  BY <1>1, <1>3
    <3>. QED  BY <3>1, PlainMeans
  <2>4. ValueAt(s, eq + 1).value = Trim(v)
    <3>1. CASE Find(s, Semicolon, i) = 0
      BY <1>1, <2>3, <3>1 DEF ValueAt, last, PieceEnd, Semicolon
    <3>2. CASE Find(s, Semicolon, i) # 0
      BY <1>1, <2>3, <3>2 DEF ValueAt, last, PieceEnd, Semicolon
    <3>. QED  BY <3>1, <3>2
  <2>. QED  BY <2>2, <2>4
<1>9. Piece(t) = <<[key |-> KeyWord(SubSeq(t, 1, eq - i)),
                    value |-> SubSeq(t, eq - i + 2, Len(t))]>>
  <2>1. eq - i + 1 # 0 /\ (eq - i + 1) - 1 = eq - i /\ (eq - i + 1) + 1 = eq - i + 2
    BY <1>1, <1>3
  <2>. HIDE DEF t
  <2>2. Piece(t) = LET at == Find(t, EqualSign, 1)
                   IN  IF at = 0 THEN << >>
                       ELSE <<[key |-> KeyWord(SubSeq(t, 1, at - 1)),
                               value |-> SubSeq(t, at + 1, Len(t))]>>
    BY Zenon DEF Piece, EqualSign
  <2>3. /\ Find(t, EqualSign, 1) # 0
        /\ Find(t, EqualSign, 1) - 1 = eq - i /\ Find(t, EqualSign, 1) + 1 = eq - i + 2
    BY Zenon, <1>5, <2>1
  <2>. QED  BY Zenon, <2>2, <2>3
<1>. HIDE DEF t
<1>10. ParameterAt(s, i) = [key |-> KeyWord(SubSeq(s, i, eq - 1)),
                            value |-> SubSeq(s, eq + 1, last)]
  BY <1>8 DEF ParameterAt, eq
<1>. QED  BY Zenon, <1>6, <1>7, <1>9, <1>10 DEF t, last

LEMMA PlainNext ==
  ASSUME NEW T, NEW s \in Seq(T), IsPlain(s), NEW i \in 1 .. Len(s), IsStart(s, i)
  PROVE  NextAt(s, i) = IF Find(s, Semicolon, i) = 0 THEN Len(s) + 1 ELSE Find(s, Semicolon, i) + 1
<1>. DEFINE eq == Find(s, EqualSign, i)
<1>1. eq \in i + 1 .. Len(s) /\ Find(s, Semicolon, eq + 1) = Find(s, Semicolon, i)  BY PlainPlaces
<1>. HIDE DEF eq
<1>2. ~(eq + 1 <= Len(s) /\ s[eq + 1] = Quote)
  <2>1. eq + 1 <= Len(s) => eq + 1 \in DOMAIN s  BY <1>1
  <2>. QED  BY <2>1, PlainMeans
<1>3. NextAt(s, i) = ValueAt(s, eq + 1).next  BY DEF NextAt, eq
<1>4. CASE Find(s, Semicolon, i) = 0  BY <1>1, <1>2, <1>3, <1>4 DEF ValueAt, Semicolon
<1>5. CASE Find(s, Semicolon, i) # 0  BY <1>1, <1>2, <1>3, <1>5 DEF ValueAt, Semicolon
<1>. QED  BY <1>4, <1>5

IsSplit(from, s) ==
  from = [i \in 1 .. Len(s) + 1 |->
            IF Find(s, Semicolon, i) = 0 THEN Piece(SubSeq(s, i, Len(s)))
            ELSE Piece(SubSeq(s, i, Find(s, Semicolon, i) - 1)) \o from[Find(s, Semicolon, i) + 1]]

LEMMA SplitExists ==
  ASSUME NEW T, NEW s \in Seq(T)
  PROVE  \E from : IsSplit(from, s)
<1>. DEFINE N == Len(s) + 1
            h == [i \in 1 .. N |-> Piece(SubSeq(s, i, PieceEnd(s, i)))]
            nx == [i \in 1 .. N |-> IF Find(s, Semicolon, i) = 0 THEN 0 ELSE Find(s, Semicolon, i) + 1]
<1>1. N \in Nat \ {0}  OBVIOUS
<1>2. \A i \in 1 .. N : nx[i] \in {0} \cup i + 1 .. N
  <2>. SUFFICES ASSUME NEW i \in 1 .. N  PROVE nx[i] \in {0} \cup i + 1 .. N  OBVIOUS
  <2>1. i \in Nat \ {0} /\ Len(s) \in Nat  OBVIOUS
  <2>2. Find(s, Semicolon, i) = 0 \/ Find(s, Semicolon, i) \in i .. Len(s)  BY <2>1, FindIsFirst
  <2>. QED  BY <2>1, <2>2
<1>. HIDE DEF N, nx, h
<1>3. PICK from : IsWalk(from, h, nx, 1, N)  BY <1>1, <1>2, WalkExists
<1>4. ASSUME NEW i \in 1 .. N
      PROVE  (IF nx[i] = 0 THEN h[i] ELSE h[i] \o from[nx[i]])
               = IF Find(s, Semicolon, i) = 0 THEN Piece(SubSeq(s, i, Len(s)))
                 ELSE Piece(SubSeq(s, i, Find(s, Semicolon, i) - 1)) \o from[Find(s, Semicolon, i) + 1]
  <2>1. h[i] = Piece(SubSeq(s, i, PieceEnd(s, i)))  BY DEF h
  <2>2. CASE Find(s, Semicolon, i) = 0
    <3>1. nx[i] = 0 /\ PieceEnd(s, i) = Len(s)  BY <2>2 DEF nx, PieceEnd
    <3>. QED  BY Zenon, <2>1, <2>2, <3>1
  <2>3. CASE Find(s, Semicolon, i) # 0
    <3>1. nx[i] = Find(s, Semicolon, i) + 1 /\ PieceEnd(s, i) = Find(s, Semicolon, i) - 1
      BY <2>3 DEF nx, PieceEnd
    <3>2. nx[i] # 0
      <4>1. i \in Nat \ {0}  BY <1>1
      <4>2. Find(s, Semicolon, i) \in Nat  BY <4>1, FindIsFirst
      <4>. QED  BY <3>1, <4>2
    <3>. QED  BY Zenon, <2>1, <2>3, <3>1, <3>2
  <2>. QED  BY <2>2, <2>3
<1>5. IsSplit(from, s)  BY Zenon, <1>3, <1>4 DEF IsWalk, IsSplit, N
<1>. QED  BY <1>5

LEMMA SplitUnfolds ==
  ASSUME NEW T, NEW s \in Seq(T)
  PROVE  \E from : IsSplit(from, s) /\ parseDriverConnectString(s) = from[1]
<1>. DEFINE from == CHOOSE f : IsSplit(f, s)
<1>1. IsSplit(from, s)  BY SplitExists
<1>2. parseDriverConnectString(s) = from[1]
  BY Zenon DEF parseDriverConnectString, IsSplit, Semicolon
<1>. QED  BY <1>1, <1>2

LEMMA NothingAtTheEnd ==
  ASSUME NEW T, NEW s \in Seq(T)
  PROVE  /\ Find(s, EqualSign, Len(s) + 1) = 0 /\ Find(s, Semicolon, Len(s) + 1) = 0
         /\ Piece(SubSeq(s, Len(s) + 1, Len(s))) = << >>
<1>1. Len(s) + 1 \in Nat \ {0} /\ Len(s) + 1 .. Len(s) = {}  OBVIOUS
<1>2. Find(s, EqualSign, Len(s) + 1) = 0 /\ Find(s, Semicolon, Len(s) + 1) = 0
  BY <1>1, FindsNone
<1>3. SubSeq(s, Len(s) + 1, Len(s)) = << >>
  BY SubSeqEmpty
<1>4. << >> \in Seq(T) /\ Len(<< >>) = 0 /\ 1 .. 0 = {} /\ 1 \in Nat \ {0}  OBVIOUS
<1>5. Find(<< >>, EqualSign, 1) = 0  BY <1>4, FindsNone
<1>6. Piece(<< >>) = << >>  BY <1>5 DEF Piece, EqualSign
<1>. QED  BY <1>2, <1>3, <1>6

\* On every plain string, the parsers that look for the next "=" (config.cpp 130-153,
\* 332-353) and the one that splits it at ";" (99-123) find the same parameters.
THEOREM PlainParsersAgree ==
  ASSUME NEW T, NEW s \in Seq(T), IsPlain(s)
  PROVE  parseDriverConnectString(s) = Parameters(s)
<1>1. PICK from : IsFrom(from, s, 1) /\ Parameters(s) = from[1]  BY ParametersUnfold
<1>2. PICK split : IsSplit(split, s) /\ parseDriverConnectString(s) = split[1]
  BY SplitUnfolds
<1>. DEFINE N == Len(s) + 1
            Bad == {k \in 0 .. Len(s) : IsStart(s, N - k) /\ split[N - k] # from[N - k]}
<1>3. Len(s) \in Nat  OBVIOUS
<1>4. SUFFICES ASSUME Bad # {}  PROVE FALSE
  <2>1. Len(s) \in 0 .. Len(s) /\ N - Len(s) = 1  BY <1>3
  <2>2. IsStart(s, N - Len(s))  BY <2>1 DEF IsStart
  <2>. HIDE DEF N
  <2>. QED  BY <1>1, <1>2, <2>1, <2>2
<1>5. PICK m \in Bad : \A n \in Bad : m <= n
  <2>1. Bad \in SUBSET Nat  OBVIOUS
  <2>. QED  BY <1>4, <2>1, MinIsFirst
<1>. DEFINE i == N - m
<1>6. i \in 1 .. N /\ IsStart(s, i) /\ split[i] # from[i]  BY <1>3
<1>7. /\ from[i] = IF Find(s, EqualSign, i) = 0 THEN << >>
                   ELSE <<ParameterAt(s, i)>> \o from[NextAt(s, i)]
      /\ split[i] = IF Find(s, Semicolon, i) = 0 THEN Piece(SubSeq(s, i, Len(s)))
                    ELSE Piece(SubSeq(s, i, Find(s, Semicolon, i) - 1)) \o split[Find(s, Semicolon, i) + 1]
  <2>. HIDE DEF i
  <2>. QED  BY Zenon, <1>1, <1>2, <1>6 DEF IsFrom, IsSplit
<1>. HIDE DEF i
<1>8. CASE i = N
  <2>1. from[i] = << >> /\ split[i] = << >>
    BY Zenon, <1>7, <1>8, NothingAtTheEnd
  <2>. QED  BY <1>6, <2>1
<1>9. CASE i # N
  <2>1. i \in 1 .. Len(s)  BY <1>3, <1>6, <1>9
  <2>. DEFINE eq == Find(s, EqualSign, i)
              semicolon == Find(s, Semicolon, i)
              p == ParameterAt(s, i)
  <2>2. eq # 0 /\ (semicolon = 0 \/ (semicolon \in i + 1 .. Len(s) /\ s[semicolon] = Semicolon))
    <3>1. eq \in i + 1 .. Len(s)
          /\ (semicolon = 0 \/ (semicolon \in eq + 1 .. Len(s) /\ s[semicolon] = Semicolon))
      BY <1>6, <2>1, PlainPlaces
    <3>. HIDE DEF eq, semicolon
    <3>. QED  BY <2>1, <3>1
  <2>3. Piece(SubSeq(s, i, PieceEnd(s, i))) = <<p>>  BY <1>6, <2>1, PlainPiece
  <2>4. NextAt(s, i) = IF semicolon = 0 THEN N ELSE semicolon + 1
    BY <1>6, <2>1, PlainNext
  <2>5. from[i] = <<p>> \o from[NextAt(s, i)]  BY Zenon, <1>7, <2>2
  <2>6. CASE semicolon = 0
    <3>1. split[i] = <<p>>  BY Zenon, <1>7, <2>3, <2>6 DEF PieceEnd
    <3>2. from[N] = << >>
      <4>1. N \in 1 .. N  BY <1>3
      <4>2. from[N] = IF Find(s, EqualSign, N) = 0 THEN << >>
                      ELSE <<ParameterAt(s, N)>> \o from[NextAt(s, N)]
        BY Zenon, <1>1, <4>1 DEF IsFrom
      <4>. QED  BY Zenon, <4>2, NothingAtTheEnd
    <3>3. <<p>> \o << >> = <<p>>
      <4>1. <<p>> \in Seq({p})  OBVIOUS
      <4>. HIDE DEF p
      <4>. QED  BY <4>1, ConcatEmptySeq
    <3>. QED  BY Zenon, <1>6, <2>4, <2>5, <2>6, <3>1, <3>2, <3>3
  <2>7. CASE semicolon # 0
    <3>1. semicolon \in i + 1 .. Len(s) /\ s[semicolon] = Semicolon  BY <2>2, <2>7
    <3>2. split[i] = <<p>> \o split[semicolon + 1]
      BY Zenon, <1>7, <2>3, <2>7 DEF PieceEnd
    <3>3. split[semicolon + 1] = from[semicolon + 1]
      <4>. HIDE DEF semicolon
      <4>1. N - (semicolon + 1) \in 0 .. Len(s) /\ N - (semicolon + 1) < m
            /\ N - (N - (semicolon + 1)) = semicolon + 1
        BY <1>3, <2>1, <3>1 DEF i
      <4>2. IsStart(s, semicolon + 1)
        <5>1. semicolon + 1 - 1 = semicolon  BY <3>1
        <5>. QED  BY <3>1, <5>1 DEF IsStart
      <4>3. N - (semicolon + 1) \notin Bad
        <5>1. N - (semicolon + 1) \in Nat /\ m \in Nat  BY <4>1
        <5>2. ~(m <= N - (semicolon + 1))  BY <4>1, <5>1
        <5>. HIDE DEF Bad, N
        <5>. QED  BY <1>5, <5>2
      <4>. HIDE DEF N
      <4>. QED  BY <4>1, <4>2, <4>3
    <3>. QED  BY Zenon, <1>6, <2>4, <2>5, <2>7, <3>2, <3>3
  <2>. QED  BY <2>6, <2>7
<1>. QED  BY <1>8, <1>9

-----------------------------------------------------------------------------
(* The last value given for a setting                                      *)

AboutIn(ps, keys, setting) ==
  {i \in DOMAIN ps : ps[i].key \in DOMAIN keys /\ keys[ps[i].key] = setting}

LastIn(ps, keys, setting, otherwise) ==
  IF AboutIn(ps, keys, setting) = {} THEN otherwise
  ELSE ps[Max(AboutIn(ps, keys, setting))].value

\* The keys of settings are no keys of the other kinds.
LEMMA KeysAreApart ==
  ASSUME NEW keys \in {TextKeys, UpdateKeys},
         NEW k \in {"readtimeout", "namespaceschema", "interactivemode", "httpproxy"}
  PROVE  k \notin DOMAIN keys
<1>1. DOMAIN TextKeys = {"endpoint", "server", "project", "schema", "accesskeyid",
                         "accesskeysecret", "proxyuser"}
  BY DEF TextKeys
<1>2. DOMAIN UpdateKeys = DOMAIN TextKeys \cup {"uid", "pwd"}  BY DEF UpdateKeys
<1>. QED  BY <1>1, <1>2

LEMMA TextSettingsAreSettings ==
  ASSUME NEW setting \in TextSettings
  PROVE  /\ setting \in DOMAIN DefaultConfig
         /\ setting \notin {"readTimeout", "namespaceSchema", "interactiveMode",
                            "httpProxy", "proxyUser"}
BY DEF TextSettings, DefaultConfig

\* A parameter changes the text setting it is about, and no other.
LEMMA StoreField ==
  ASSUME NEW keys \in {TextKeys, UpdateKeys}, NEW c, IsConfig(c), NEW p,
         NEW setting \in TextSettings
  PROVE  Store(keys, c, p)[setting] =
           IF p.key \in DOMAIN keys /\ keys[p.key] = setting THEN p.value ELSE c[setting]
<1>1. setting \in DOMAIN c
      /\ setting \notin {"readTimeout", "namespaceSchema", "interactiveMode",
                         "httpProxy", "proxyUser"}
  BY TextSettingsAreSettings DEF IsConfig
<1>2. CASE p.key \in DOMAIN keys
  <2>1. p.key \notin {"readtimeout", "namespaceschema", "interactivemode", "httpproxy"}
    BY <1>2, KeysAreApart
  <2>2. Store(keys, c, p) = [c EXCEPT ![keys[p.key]] = p.value]
    BY <1>2, <2>1 DEF Store
  <2>. QED  BY <1>1, <1>2, <2>2
<1>3. CASE p.key \notin DOMAIN keys
  <2>1. Store(keys, c, p)[setting] = c[setting]
    <3>1. CASE p.key = "readtimeout"  BY <1>1, <1>3, <3>1 DEF Store
    <3>2. CASE p.key = "namespaceschema"  BY <1>1, <1>3, <3>2 DEF Store
    <3>3. CASE p.key = "interactivemode"  BY <1>1, <1>3, <3>3 DEF Store
    <3>4. CASE p.key = "httpproxy"  BY <1>1, <1>3, <3>4 DEF Store
    <3>5. CASE p.key \notin {"readtimeout", "namespaceschema", "interactivemode",
                             "httpproxy"}
      BY <1>1, <1>3, <3>5 DEF Store
    <3>. QED  BY <3>1, <3>2, <3>3, <3>4, <3>5
  <2>. QED  BY <1>3, <2>1
<1>. QED  BY <1>2, <1>3

LEMMA LastOfLonger ==
  ASSUME NEW T, NEW ps \in Seq(T), NEW p \in T, NEW keys, NEW setting, NEW otherwise
  PROVE  LastIn(Append(ps, p), keys, setting, otherwise) =
           IF p.key \in DOMAIN keys /\ keys[p.key] = setting THEN p.value
           ELSE LastIn(ps, keys, setting, otherwise)
<1>. DEFINE N == Len(ps)
            more == Append(ps, p)
            A == AboutIn(ps, keys, setting)
            B == AboutIn(more, keys, setting)
<1>1. N \in Nat /\ DOMAIN ps = 1 .. N /\ DOMAIN more = 1 .. N + 1 /\ more[N + 1] = p
      /\ \A i \in 1 .. N : more[i] = ps[i]
  OBVIOUS
<1>. HIDE DEF N, more
<1>2. A \in SUBSET (1 .. N)  BY <1>1 DEF AboutIn
<1>3. CASE p.key \in DOMAIN keys /\ keys[p.key] = setting
  <2>1. B \in SUBSET (1 .. N + 1) /\ N + 1 \in B  BY <1>1, <1>3 DEF AboutIn
  <2>2. Max(B) = N + 1  BY <1>1, <2>1, MaxOfInterval
  <2>3. LastIn(more, keys, setting, otherwise) = more[Max(B)].value
    BY <2>1 DEF LastIn
  <2>. QED  BY Zenon, <1>1, <1>3, <2>2, <2>3 DEF more
<1>4. CASE ~(p.key \in DOMAIN keys /\ keys[p.key] = setting)
  <2>1. N + 1 \notin B  BY <1>1, <1>4 DEF AboutIn
  <2>2. \A i \in 1 .. N + 1 : i # N + 1 => i \in 1 .. N  BY <1>1
  <2>3. \A i \in 1 .. N : i \in 1 .. N + 1  BY <1>1
  <2>4. B = A
    <3>1. \A i \in B : i \in A  BY <1>1, <2>1, <2>2 DEF AboutIn
    <3>2. \A i \in A : i \in B  BY <1>1, <2>3 DEF AboutIn
    <3>. HIDE DEF A, B
    <3>. QED  BY <3>1, <3>2
  <2>5. A # {} => Max(A) \in 1 .. N  BY <1>1, <1>2, MaxIsLast
  <2>6. A # {} => more[Max(A)] = ps[Max(A)]  BY <1>1, <2>5
  <2>7. LastIn(more, keys, setting, otherwise) = LastIn(ps, keys, setting, otherwise)
    BY Zenon, <2>4, <2>6 DEF LastIn
  <2>. QED  BY Zenon, <1>4, <2>7 DEF more
<1>. QED  BY <1>3, <1>4

\* Of the values given for a setting, the last one stays.
LEMMA StoredIsLast ==
  ASSUME NEW keys \in {TextKeys, UpdateKeys}, NEW base, IsConfig(base),
         NEW T, NEW ps \in Seq(T), NEW setting \in TextSettings
  PROVE  Stored(keys, base, ps)[setting] = LastIn(ps, keys, setting, base[setting])
<1>1. PICK f : /\ f[0] = base
               /\ \A k \in 1 .. Len(ps) : f[k] = Store(keys, f[k - 1], ps[k])
               /\ Stored(keys, base, ps) = f[Len(ps)]
  BY StoredUnfolds
<1>. DEFINE first(k) == SubSeq(ps, 1, k)
            Good(k) == /\ IsConfig(f[k])
                       /\ f[k][setting] = LastIn(first(k), keys, setting, base[setting])
            Bad == {k \in 0 .. Len(ps) : ~Good(k)}
<1>2. Len(ps) \in Nat  OBVIOUS
<1>3. first(Len(ps)) = ps  BY SubSeqFull
<1>4. SUFFICES ASSUME Bad # {}  PROVE FALSE
  <2>1. Len(ps) \in 0 .. Len(ps)  BY <1>2
  <2>2. Good(Len(ps))
    <3>. HIDE DEF Good
    <3>. QED  BY <1>4, <2>1
  <2>. QED  BY Zenon, <1>1, <1>3, <2>2
<1>5. PICK m \in Bad : \A n \in Bad : m <= n
  <2>1. Bad \in SUBSET Nat  OBVIOUS
  <2>. QED  BY <1>4, <2>1, MinIsFirst
<1>6. CASE m = 0
  <2>1. first(0) = << >>  BY SubSeqEmpty
  <2>2. AboutIn(<< >>, keys, setting) = {}  BY DEF AboutIn
  <2>3. LastIn(first(0), keys, setting, base[setting]) = base[setting]
    BY Zenon, <2>1, <2>2 DEF LastIn
  <2>. QED  BY <1>1, <1>6, <2>3
<1>7. CASE m # 0
  <2>1. m \in 1 .. Len(ps) /\ m - 1 \in 0 .. Len(ps) /\ ~(m <= m - 1)  BY <1>2, <1>7
  <2>2. Good(m - 1)
    <3>. HIDE DEF Good
    <3>. QED  BY <1>5, <2>1
  <2>3. f[m] = Store(keys, f[m - 1], ps[m])  BY <1>1, <2>1
  <2>. DEFINE p == ps[m]
              about == p.key \in DOMAIN keys /\ keys[p.key] = setting
  <2>4. IsConfig(f[m])
    <3>1. DOMAIN Store(keys, f[m - 1], ps[m]) = DOMAIN f[m - 1]  BY DEF Store
    <3>. QED  BY Zenon, <2>2, <2>3, <3>1 DEF IsConfig
  <2>5. f[m][setting] = IF about THEN p.value ELSE f[m - 1][setting]
    BY <2>2, <2>3, StoreField
  <2>6. first(m) = Append(first(m - 1), p)
    <3>1. \A i \in 1 .. Len(ps) : ps[i] \in T  OBVIOUS
    <3>2. m - 1 \in Nat /\ 1 \in Nat /\ m \in Nat /\ \A i \in 1 .. m : i \in 1 .. Len(ps)
      BY <1>2, <2>1
    <3>3. /\ first(m) \in Seq(T) /\ Len(first(m)) = m
          /\ \A i \in 1 .. m : first(m)[i] = ps[i]
      BY <1>2, <2>1, <3>1, <3>2
    <3>4. /\ first(m - 1) \in Seq(T) /\ Len(first(m - 1)) = m - 1
          /\ \A i \in 1 .. m - 1 : first(m - 1)[i] = ps[i]
      BY <1>2, <2>1, <3>1, <3>2
    <3>5. p \in T  BY <2>1
    <3>. HIDE DEF first, p
    <3>6. /\ Append(first(m - 1), p) \in Seq(T) /\ Len(Append(first(m - 1), p)) = m
          /\ \A i \in 1 .. m - 1 : Append(first(m - 1), p)[i] = first(m - 1)[i]
          /\ Append(first(m - 1), p)[m] = p
      BY <3>2, <3>4, <3>5
    <3>7. \A i \in 1 .. m : first(m)[i] = Append(first(m - 1), p)[i]
      <4>. SUFFICES ASSUME NEW i \in 1 .. m  PROVE first(m)[i] = Append(first(m - 1), p)[i]
        OBVIOUS
      <4>1. CASE i = m  BY <3>3, <3>6, <4>1 DEF p
      <4>2. CASE i # m
        <5>1. i \in 1 .. m - 1  BY <3>2, <4>2
        <5>. QED  BY <3>3, <3>4, <3>6, <5>1
      <4>. QED  BY <4>1, <4>2
    <3>. QED  BY <3>3, <3>6, <3>7, SeqEqual
  <2>7. first(m - 1) \in Seq(T) /\ p \in T  BY <1>2, <2>1
  <2>8. LastIn(first(m), keys, setting, base[setting]) =
          IF about THEN p.value ELSE LastIn(first(m - 1), keys, setting, base[setting])
    <3>1. LastIn(Append(first(m - 1), p), keys, setting, base[setting]) =
            IF about THEN p.value ELSE LastIn(first(m - 1), keys, setting, base[setting])
      <4>. HIDE DEF first, p
      <4>. QED  BY <2>7, LastOfLonger
    <3>. QED  BY Zenon, <2>6, <3>1
  <2>9. Good(m)
    <3>. HIDE DEF first, p, about
    <3>1. CASE about  BY Zenon, <2>4, <2>5, <2>8, <3>1
    <3>2. CASE ~about  BY Zenon, <2>2, <2>4, <2>5, <2>8, <3>2
    <3>. QED  BY <3>1, <3>2
  <2>. QED  BY <2>9
<1>. QED  BY <1>6, <1>7

-----------------------------------------------------------------------------
(* What the calls gave                                                     *)

LEMMA TrimIsText ==
  ASSUME NEW T, NEW s \in Seq(T)
  PROVE  Trim(s) \in Seq(T)
<1>. DEFINE text == {i \in DOMAIN s : s[i] # Blank}
<1>1. Len(s) \in Nat /\ DOMAIN s = 1 .. Len(s) /\ \A i \in 1 .. Len(s) : s[i] \in T  OBVIOUS
<1>2. CASE text = {}
  <2>1. << >> \in Seq(T)  OBVIOUS
  <2>. QED  BY <1>2, <2>1 DEF Trim
<1>3. CASE text # {}
  <2>1. text \in SUBSET (1 .. Len(s)) /\ text \in SUBSET Nat  BY <1>1
  <2>2. Trim(s) = SubSeq(s, Min(text), Max(text))  BY <1>3 DEF Trim
  <2>. HIDE DEF text
  <2>3. Max(text) \in 1 .. Len(s)  BY <1>1, <1>3, <2>1, MaxIsLast
  <2>4. Min(text) \in 1 .. Len(s)
    <3>1. \E m \in text : \A n \in text : m <= n  BY <1>3, <2>1, MinIsFirst
    <3>. QED  BY <2>1, <3>1 DEF Min
  <2>5. \A i \in Min(text) .. Max(text) : s[i] \in T  BY <1>1, <2>3, <2>4
  <2>6. SubSeq(s, Min(text), Max(text)) \in Seq(T)
    BY <1>1, <2>3, <2>4, <2>5, SubSeqProperties
  <2>. QED  BY <2>2, <2>6
<1>. QED  BY <1>2, <1>3

LEMMA PlainValueIsText ==
  ASSUME NEW T, NEW s \in Seq(T), IsPlain(s), NEW i \in 1 .. Len(s) + 1
  PROVE  ParameterAt(s, i).value \in Seq(T)
<1>. DEFINE k == Find(s, EqualSign, i) + 1
            semicolon == Find(s, Semicolon, k)
<1>1. Len(s) \in Nat /\ DOMAIN s = 1 .. Len(s) /\ i \in Nat \ {0}
      /\ \A j \in 1 .. Len(s) : s[j] \in T
  OBVIOUS
<1>2. k \in 1 .. Len(s) + 1  BY <1>1, FindIsFirst
<1>3. ParameterAt(s, i).value = ValueAt(s, k).value  BY DEF ParameterAt
<1>. HIDE DEF k
<1>4. k \in Nat \ {0}  BY <1>1, <1>2
<1>5. semicolon = 0 \/ semicolon \in k .. Len(s)  BY <1>4, FindIsFirst
<1>6. ~(k <= Len(s) /\ s[k] = Quote)
  <2>1. k <= Len(s) => k \in DOMAIN s  BY <1>1, <1>2
  <2>. QED  BY <2>1, PlainMeans
<1>7. CASE semicolon # 0
  <2>1. ValueAt(s, k).value = Trim(SubSeq(s, k, semicolon - 1))
    BY <1>6, <1>7 DEF ValueAt, Semicolon
  <2>. HIDE DEF semicolon
  <2>2. semicolon - 1 \in Nat /\ \A j \in k .. semicolon - 1 : s[j] \in T
    BY <1>1, <1>4, <1>5, <1>7
  <2>3. SubSeq(s, k, semicolon - 1) \in Seq(T)  BY <1>4, <2>2, SubSeqProperties
  <2>. QED  BY <1>3, <2>1, <2>3, TrimIsText
<1>8. CASE semicolon = 0
  <2>1. ValueAt(s, k).value = Trim(SubSeq(s, k, Len(s)))
    BY <1>6, <1>8 DEF ValueAt, Semicolon
  <2>2. \A j \in k .. Len(s) : s[j] \in T  BY <1>1, <1>4
  <2>3. SubSeq(s, k, Len(s)) \in Seq(T)  BY <1>1, <1>4, <2>2, SubSeqProperties
  <2>. QED  BY <1>3, <2>1, <2>3, TrimIsText
<1>. QED  BY <1>7, <1>8

Calls ==
  [string : Seq(STRING), by : {"SQLDriverConnect", "SQLConnect"},
   user : Seq(STRING), password : Seq(STRING)]

KeysOf(g) == IF g.by = "SQLDriverConnect" THEN UpdateKeys ELSE TextKeys

Argument(k, v) == IF v = << >> THEN << >> ELSE <<[key |-> k, value |-> v]>>

\* The parameters of a string and the arguments beside it.
PairsOf(g) ==
  ParametersOf(g.string) \cup {[key |-> "accesskeyid", value |-> g.user],
                               [key |-> "accesskeysecret", value |-> g.password]}

LEMMA GivenByPlain ==
  ASSUME NEW g \in Calls, IsPlain(g.string)
  PROVE  LET ps == Parameters(g.string)
             stored == IF g.by = "SQLDriverConnect" THEN BeforeThrow(ps) ELSE ps
         IN  /\ stored \in Seq(PairsOf(g))
             /\ GivenBy(g) = stored \o Argument("accesskeyid", g.user)
                               \o Argument("accesskeysecret", g.password)
             /\ GivenBy(g) \in Seq(PairsOf(g))
<1>. DEFINE ps == Parameters(g.string)
            stored == IF g.by = "SQLDriverConnect" THEN BeforeThrow(ps) ELSE ps
<1>1. g.string \in Seq(STRING)  BY DEF Calls
<1>2. parseDriverConnectString(g.string) = ps  BY <1>1, PlainParsersAgree
<1>3. GivenBy(g) = stored \o Argument("accesskeyid", g.user)
                     \o Argument("accesskeysecret", g.password)
  BY Zenon, <1>2 DEF GivenBy, Argument
<1>4. ps \in Seq(ParametersOf(g.string))  BY <1>1, ParametersAreASequence
<1>5. ps \in Seq(PairsOf(g))
  <2>1. ParametersOf(g.string) \subseteq PairsOf(g)  BY DEF PairsOf
  <2>. HIDE DEF ps
  <2>. QED  BY <1>4, <2>1
<1>. HIDE DEF ps
<1>6. stored \in Seq(PairsOf(g))  BY <1>5, BeforeThrowIsASequence
<1>7. /\ Argument("accesskeyid", g.user) \in Seq(PairsOf(g))
      /\ Argument("accesskeysecret", g.password) \in Seq(PairsOf(g))
  <2>1. /\ [key |-> "accesskeyid", value |-> g.user] \in PairsOf(g)
        /\ [key |-> "accesskeysecret", value |-> g.password] \in PairsOf(g)
    BY DEF PairsOf
  <2>2. Argument("accesskeyid", g.user) \in Seq(PairsOf(g))  BY <2>1 DEF Argument
  <2>3. Argument("accesskeysecret", g.password) \in Seq(PairsOf(g))  BY <2>1 DEF Argument
  <2>. QED  BY <2>2, <2>3
<1>. HIDE DEF stored
<1>8. GivenBy(g) \in Seq(PairsOf(g))  BY <1>3, <1>6, <1>7
<1>. QED  BY <1>3, <1>6, <1>8 DEF stored, ps

LEMMA AboutIsIn ==
  ASSUME NEW g, NEW setting
  PROVE  About(g, setting) = AboutIn(GivenBy(g), KeysOf(g), setting)
BY Zenon DEF About, AboutIn, KeysOf

LEMMA LastValueIsText ==
  ASSUME NEW g \in Calls, IsPlain(g.string), NEW setting, About(g, setting) # {}
  PROVE  LastValue(g, setting) \in Seq(STRING)
<1>1. GivenBy(g) \in Seq(PairsOf(g))  BY GivenByPlain
<1>2. Len(GivenBy(g)) \in Nat /\ DOMAIN GivenBy(g) = 1 .. Len(GivenBy(g))  BY <1>1
<1>3. About(g, setting) \in SUBSET (1 .. Len(GivenBy(g)))
  BY <1>2, AboutIsIn DEF AboutIn
<1>4. Max(About(g, setting)) \in 1 .. Len(GivenBy(g))  BY <1>2, <1>3, MaxIsLast
<1>5. GivenBy(g)[Max(About(g, setting))] \in PairsOf(g)  BY <1>1, <1>4
<1>6. \A p \in PairsOf(g) : p.value \in Seq(STRING)
  <2>1. g.string \in Seq(STRING) /\ g.user \in Seq(STRING) /\ g.password \in Seq(STRING)
    BY DEF Calls
  <2>2. \A p \in ParametersOf(g.string) : p.value \in Seq(STRING)
    BY <2>1, PlainValueIsText DEF ParametersOf
  <2>. QED  BY <2>1, <2>2 DEF PairsOf
<1>. QED  BY <1>5, <1>6 DEF LastValue

LEMMA ArgumentIsLast ==
  ASSUME NEW T, NEW ps \in Seq(T), NEW k \in DOMAIN TextKeys, NEW v,
         [key |-> k, value |-> v] \in T, NEW setting, NEW otherwise
  PROVE  LastIn(ps \o Argument(k, v), TextKeys, setting, otherwise) =
           IF v # << >> /\ TextKeys[k] = setting THEN v
           ELSE LastIn(ps, TextKeys, setting, otherwise)
<1>. DEFINE p == [key |-> k, value |-> v]
<1>1. CASE v = << >>
  <2>1. Argument(k, v) = << >>  BY <1>1 DEF Argument
  <2>2. ps \o << >> = ps  BY ConcatEmptySeq
  <2>. QED  BY Zenon, <1>1, <2>1, <2>2
<1>2. CASE v # << >>
  <2>1. Argument(k, v) = <<p>>  BY <1>2 DEF Argument
  <2>2. p.key = k /\ p.value = v  OBVIOUS
  <2>. HIDE DEF p
  <2>3. p \in T  BY DEF p
  <2>4. Append(ps, p) = ps \o <<p>>  BY <2>3, AppendIsConcat
  <2>5. LastIn(Append(ps, p), TextKeys, setting, otherwise) =
          IF p.key \in DOMAIN TextKeys /\ TextKeys[p.key] = setting THEN p.value
          ELSE LastIn(ps, TextKeys, setting, otherwise)
    BY <2>3, LastOfLonger
  <2>. QED  BY Zenon, <1>2, <2>1, <2>2, <2>4, <2>5
<1>. QED  BY <1>1, <1>2

\* Of a plain string, updateConfig stores what the call gave.
LEMMA UpdateGives ==
  ASSUME NEW s \in Seq(STRING), IsPlain(s), NEW c, IsConfig(c), NEW setting \in TextSettings
  PROVE  LET g == [string |-> s, by |-> "SQLDriverConnect",
                   user |-> << >>, password |-> << >>]
         IN  updateConfig(s, c).config[setting] =
               LastIn(GivenBy(g), UpdateKeys, setting, c[setting])
<1>. DEFINE g == [string |-> s, by |-> "SQLDriverConnect",
                  user |-> << >>, password |-> << >>]
            ps == BeforeThrow(Parameters(s))
<1>1. g \in Calls /\ g.string = s /\ g.by = "SQLDriverConnect" /\ g.user = << >>
      /\ g.password = << >>
  BY DEF Calls
<1>. HIDE DEF g
<1>2. /\ ps \in Seq(PairsOf(g))
      /\ GivenBy(g) = ps \o Argument("accesskeyid", g.user)
                        \o Argument("accesskeysecret", g.password)
  BY <1>1, GivenByPlain
<1>3. updateConfig(s, c).config = Stored(UpdateKeys, c, ps)  BY DEF updateConfig, Stored
<1>. HIDE DEF ps
<1>4. GivenBy(g) = ps
  <2>1. Argument("accesskeyid", g.user) = << >> /\ Argument("accesskeysecret", g.password) = << >>
    BY <1>1 DEF Argument
  <2>2. ps \o << >> = ps  BY <1>2, ConcatEmptySeq
  <2>. QED  BY Zenon, <1>2, <2>1, <2>2
<1>5. Stored(UpdateKeys, c, ps)[setting] = LastIn(ps, UpdateKeys, setting, c[setting])
  BY <1>2, StoredIsLast
<1>. QED  BY Zenon, <1>3, <1>4, <1>5 DEF g

\* Of a plain string, parse stores what the call gave, and the arguments come last.
LEMMA ConnectGives ==
  ASSUME NEW s \in Seq(STRING), IsPlain(s), NEW user \in Seq(STRING),
         NEW password \in Seq(STRING), NEW setting \in TextSettings
  PROVE  LET g == [string |-> s, by |-> "SQLConnect", user |-> user, password |-> password]
         IN  ParametersOfConnect(s, user, password)[setting] =
               LastIn(GivenBy(g), TextKeys, setting, DefaultConfig[setting])
<1>. DEFINE g == [string |-> s, by |-> "SQLConnect", user |-> user, password |-> password]
            ps == Parameters(s)
            otherwise == DefaultConfig[setting]
<1>1. g \in Calls /\ g.string = s /\ g.by = "SQLConnect" /\ g.user = user
      /\ g.password = password
  BY DEF Calls
<1>. HIDE DEF g
<1>2. /\ ps \in Seq(PairsOf(g))
      /\ GivenBy(g) = ps \o Argument("accesskeyid", user)
                        \o Argument("accesskeysecret", password)
  BY <1>1, GivenByPlain
<1>3. parse(s) = Stored(TextKeys, DefaultConfig, ps)  BY DEF parse, Stored
<1>4. IsConfig(DefaultConfig)  BY DEF IsConfig
<1>. HIDE DEF ps
<1>5. parse(s)[setting] = LastIn(ps, TextKeys, setting, otherwise)
  BY <1>2, <1>3, <1>4, StoredIsLast
<1>6. IsConfig(parse(s))  BY <1>2, <1>3, <1>4, StoredIsConfig
<1>. HIDE DEF otherwise
<1>7. /\ "accesskeyid" \in DOMAIN TextKeys /\ TextKeys["accesskeyid"] = "accessKeyId"
      /\ "accesskeysecret" \in DOMAIN TextKeys
      /\ TextKeys["accesskeysecret"] = "accessKeySecret"
  BY DEF TextKeys
<1>. DEFINE first == ps \o Argument("accesskeyid", user)
<1>8. LastIn(first, TextKeys, setting, otherwise) =
        IF user # << >> /\ setting = "accessKeyId" THEN user ELSE parse(s)[setting]
  <2>1. [key |-> "accesskeyid", value |-> user] \in PairsOf(g)  BY <1>1 DEF PairsOf
  <2>2. LastIn(first, TextKeys, setting, otherwise) =
          IF user # << >> /\ TextKeys["accesskeyid"] = setting THEN user
          ELSE LastIn(ps, TextKeys, setting, otherwise)
    BY <1>2, <1>7, <2>1, ArgumentIsLast
  <2>. QED  BY <1>5, <1>7, <2>2
<1>9. first \in Seq(PairsOf(g))
  <2>1. [key |-> "accesskeyid", value |-> user] \in PairsOf(g)  BY <1>1 DEF PairsOf
  <2>2. Argument("accesskeyid", user) \in Seq(PairsOf(g))  BY <2>1 DEF Argument
  <2>. QED  BY <1>2, <2>2
<1>10. LastIn(GivenBy(g), TextKeys, setting, otherwise) =
         IF password # << >> /\ setting = "accessKeySecret" THEN password
         ELSE LastIn(first, TextKeys, setting, otherwise)
  <2>1. [key |-> "accesskeysecret", value |-> password] \in PairsOf(g)  BY <1>1 DEF PairsOf
  <2>2. GivenBy(g) = first \o Argument("accesskeysecret", password)  BY <1>2
  <2>. HIDE DEF first
  <2>3. LastIn(first \o Argument("accesskeysecret", password), TextKeys, setting, otherwise) =
          IF password # << >> /\ TextKeys["accesskeysecret"] = setting THEN password
          ELSE LastIn(first, TextKeys, setting, otherwise)
    BY <1>7, <1>9, <2>1, ArgumentIsLast
  <2>. QED  BY <1>7, <2>2, <2>3
<1>11. ParametersOfConnect(s, user, password)[setting] =
         IF password # << >> /\ setting = "accessKeySecret" THEN password
         ELSE IF user # << >> /\ setting = "accessKeyId" THEN user ELSE parse(s)[setting]
  <2>1. setting \in DOMAIN parse(s) /\ "accessKeyId" \in DOMAIN parse(s)
        /\ "accessKeySecret" \in DOMAIN parse(s)
    BY <1>6, TextSettingsAreSettings DEF IsConfig, DefaultConfig
  <2>. QED  BY <2>1 DEF ParametersOfConnect
<1>. HIDE DEF first
<1>12. ParametersOfConnect(s, user, password)[setting] =
         LastIn(GivenBy(g), TextKeys, setting, otherwise)
  BY <1>8, <1>10, <1>11
<1>. QED  BY Zenon, <1>12 DEF g, otherwise

-----------------------------------------------------------------------------
(* The client and the configuration                                        *)

ClientInv ==
  /\ IsConfig(config)
  /\ told => client \in NewClients(config)

LEMMA ClientIsConfig ==
  ASSUME ClientInv, told
  PROVE  /\ IsConfig(client)
         /\ \A setting \in DOMAIN DefaultConfig \ {"namespaceSchema"} :
              client[setting] = config[setting]
BY DEF ClientInv, NewClients, IsConfig

LEMMA ClientInit == ConnInit => ClientInv
BY DEF ConnInit, ClientInv, IsConfig

LEMMA DriverConnectKeepsClient ==
  ASSUME ClientInv, NEW s \in ConnectStrings, NEW cut \in CutIsReported,
         DriverConnect(s, cut)
  PROVE  ClientInv'
<1>. DEFINE update == updateConfig(s, config)
            filled == ProxyFromEnvironment(NamesFromEnvironment(update.config))
<1>1. IsConfig(update.config)  BY UpdatedIsConfig DEF ClientInv
<1>2. IsConfig(filled)
  <2>1. IsConfig(NamesFromEnvironment(update.config))
    BY <1>1 DEF IsConfig, NamesFromEnvironment
  <2>. HIDE DEF update
  <2>. QED  BY <2>1 DEF IsConfig, ProxyFromEnvironment
<1>3. /\ ~told
      /\ config' = IF update.threw THEN update.config ELSE filled
      /\ \/ (update.threw \/ ~IsComplete(filled)) /\ FailToConnect
         \/ /\ ~update.threw /\ IsComplete(filled)
            /\ client' \in NewClients(filled)
      /\ UNCHANGED service
  BY DEF DriverConnect
<1>. HIDE DEF update, filled
<1>4. IsConfig(config)'  BY Zenon, <1>1, <1>2, <1>3 DEF IsConfig
<1>5. told' => client' \in NewClients(config)'
  <2>1. NewClients(config)' = NewClients(config')
    BY <1>3 DEF NewClients, service
  <2>. QED  BY <1>3, <2>1 DEF FailToConnect
<1>. QED  BY <1>4, <1>5 DEF ClientInv

LEMMA ConnectKeepsClient ==
  ASSUME ClientInv, SQLConnect
  PROVE  ClientInv'
<1>1. PICK s \in ConnectStrings, user \in Users, password \in Passwords :
        /\ ~told
        /\ \/ RefuseDsn(s)
           \/ /\ config' = ParametersOfConnect(s, user, password)
              /\ \/ FailToConnect
                 \/ client' \in NewClients(config') /\ OpenSession
        /\ UNCHANGED service
  BY DEF SQLConnect
<1>2. CASE RefuseDsn(s)
  BY <1>1, <1>2 DEF RefuseDsn, ClientInv, IsConfig
<1>3. CASE /\ config' = ParametersOfConnect(s, user, password)
           /\ \/ FailToConnect
              \/ client' \in NewClients(config') /\ OpenSession
  <2>1. IsConfig(parse(s))  BY ParsedIsConfig
  <2>2. IsConfig(config)'
    BY <1>3, <2>1 DEF ParametersOfConnect, IsConfig
  <2>3. NewClients(config)' = NewClients(config')  BY <1>1 DEF NewClients, service
  <2>4. told' => client' \in NewClients(config)'
    BY <1>1, <1>3, <2>3 DEF FailToConnect
  <2>. QED  BY <2>2, <2>4 DEF ClientInv
<1>. QED  BY <1>1, <1>2, <1>3

LEMMA ClientUnchanged ==
  ASSUME ClientInv, UNCHANGED <<service, handle>>
  PROVE  ClientInv'
BY DEF ClientInv, IsConfig, NewClients, service, handle

LEMMA ConnKeepsClient ==
  ASSUME ClientInv, ConnNext
  PROVE  ClientInv'
<1>1. CASE SQLDriverConnect \/ SQLDriverConnectA \/ SQLDriverConnectW
  BY <1>1, DriverConnectKeepsClient
     DEF SQLDriverConnect, SQLDriverConnectA, SQLDriverConnectW
<1>2. CASE SQLConnect
  BY <1>2, ConnectKeepsClient
<1>3. CASE SQLDisconnect
  BY <1>3 DEF SQLDisconnect, ClientInv, IsConfig
<1>4. CASE SQLSetConnectAttr \/ SQLSetConnectAttrW
  BY <1>4, ClientUnchanged DEF SQLSetConnectAttr, SQLSetConnectAttrW, SetConnectAttr
<1>5. CASE SQLGetConnectAttr \/ SQLGetConnectAttrW
  BY <1>5, ClientUnchanged DEF SQLGetConnectAttr, SQLGetConnectAttrW, GetConnectAttr
<1>. QED  BY <1>1, <1>2, <1>3, <1>4, <1>5 DEF ConnNext

-----------------------------------------------------------------------------
(* The configuration follows what was given                                *)

\* What a call leaves in a setting: the value it gave last, else what was there.
Left(g, old, setting) == LastIn(GivenBy(g), KeysOf(g), setting, old[setting])

\* A setting holds what the call left or, when that is nothing, what the environment has
\* for it.
Follows(c, g, old, env, setting) ==
  \/ c[setting] = Left(g, old, setting)
  \/ ~Given(Left(g, old, setting)) /\ c[setting] = env[setting]

GivenInv ==
  /\ IsConfig(config)
  /\ told =>
       /\ IsComplete(config)
       /\ given \in Calls
       /\ IsPlain(given.string) =>
            \A setting \in TextSettings : Follows(config, given, before, environment, setting)

LEMMA GivenInit == ConnInit => GivenInv
BY DEF ConnInit, GivenInv, IsConfig

LEMMA EnvironmentFollows ==
  ASSUME NEW c, IsConfig(c), NEW g, NEW old, NEW setting \in TextSettings,
         c[setting] = Left(g, old, setting)
  PROVE  LET filled == ProxyFromEnvironment(NamesFromEnvironment(c))
         IN  Follows(filled, g, old, environment, setting)
<1>. DEFINE named == NamesFromEnvironment(c)
            filled == ProxyFromEnvironment(named)
<1>1. DOMAIN c = DOMAIN DefaultConfig
      /\ {"endpoint", "project", "accessKeyId", "accessKeySecret"} \subseteq DOMAIN c
  BY DEF IsConfig, DefaultConfig
<1>2. DOMAIN named = DOMAIN c /\ named[setting] = OrEnvironment(c[setting], environment[setting])
  <2>1. setting \in {"endpoint", "project", "accessKeyId", "accessKeySecret"}
    BY DEF TextSettings
  <2>. QED  BY <1>1, <2>1 DEF NamesFromEnvironment
<1>. HIDE DEF named
<1>3. filled[setting] = named[setting]
  <2>1. setting \in DOMAIN named /\ setting \notin {"httpProxy", "proxyUser"}
    BY <1>1, <1>2, TextSettingsAreSettings
  <2>. QED  BY <2>1 DEF ProxyFromEnvironment
<1>. HIDE DEF filled
<1>4. \/ filled[setting] = c[setting]
      \/ ~Given(c[setting]) /\ filled[setting] = environment[setting]
  BY <1>2, <1>3 DEF OrEnvironment
<1>5. Follows(filled, g, old, environment, setting)  BY Zenon, <1>4 DEF Follows
<1>. QED  BY <1>5 DEF filled, named

LEMMA DriverConnectFollows ==
  ASSUME GivenInv, NEW s \in ConnectStrings, NEW cut \in CutIsReported,
         DriverConnect(s, cut)
  PROVE  GivenInv'
<1>. DEFINE update == updateConfig(s, config)
            filled == ProxyFromEnvironment(NamesFromEnvironment(update.config))
            g == [string |-> s, by |-> "SQLDriverConnect",
                  user |-> << >>, password |-> << >>]
<1>1. /\ ~told
      /\ given' = g /\ before' = config
      /\ config' = IF update.threw THEN update.config ELSE filled
      /\ \/ (update.threw \/ ~IsComplete(filled)) /\ FailToConnect
         \/ ~update.threw /\ IsComplete(filled)
      /\ environment' = environment
  BY DEF DriverConnect, service
<1>2. s \in Seq(STRING)  BY ConnectionAssumption
<1>3. g \in Calls /\ g.string = s /\ KeysOf(g) = UpdateKeys
  BY <1>2 DEF Calls, KeysOf
<1>4. IsConfig(update.config)  BY UpdatedIsConfig DEF GivenInv
<1>5. ASSUME IsPlain(s), NEW setting \in TextSettings
      PROVE  update.config[setting] = Left(g, config, setting)
  <2>1. updateConfig(s, config).config[setting] =
          LastIn(GivenBy(g), UpdateKeys, setting, config[setting])
    BY <1>2, <1>5, UpdateGives DEF GivenInv
  <2>. QED  BY Zenon, <1>3, <2>1 DEF Left
<1>6. DOMAIN filled = DOMAIN update.config
  <2>1. DOMAIN NamesFromEnvironment(update.config) = DOMAIN update.config
    BY DEF NamesFromEnvironment
  <2>. HIDE DEF update
  <2>. QED  BY <2>1 DEF ProxyFromEnvironment
<1>. HIDE DEF update, g
<1>7. IsConfig(filled)
  <2>. HIDE DEF filled
  <2>. QED  BY Zenon, <1>4, <1>6 DEF IsConfig
<1>8. told' => ~update.threw /\ IsComplete(filled) /\ config' = filled
  <2>. HIDE DEF filled
  <2>. QED  BY <1>1 DEF FailToConnect
<1>9. ASSUME told', IsPlain(given'.string), NEW setting \in TextSettings
      PROVE  Follows(config', given', before', environment', setting)
  <2>1. IsPlain(s)  BY Zenon, <1>1, <1>3, <1>9
  <2>2. update.config[setting] = Left(g, config, setting)  BY <1>5, <1>9, <2>1
  <2>3. Follows(filled, g, config, environment, setting)
    BY <1>4, <1>9, <2>2, EnvironmentFollows
  <2>. HIDE DEF filled
  <2>. QED  BY Zenon, <1>1, <1>8, <1>9, <2>3
<1>. HIDE DEF filled
<1>10. IsConfig(config')  BY Zenon, <1>1, <1>4, <1>7
<1>11. told' => IsComplete(config') /\ given' \in Calls  BY Zenon, <1>1, <1>3, <1>8
<1>. QED  BY Zenon, <1>9, <1>10, <1>11 DEF GivenInv, IsConfig

LEMMA ConnectFollows ==
  ASSUME GivenInv, SQLConnect
  PROVE  GivenInv'
<1>1. PICK s \in ConnectStrings, user \in Users, password \in Passwords :
        /\ ~told
        /\ \/ RefuseDsn(s)
           \/ /\ config' = ParametersOfConnect(s, user, password)
              /\ given' = [string |-> s, by |-> "SQLConnect",
                           user |-> user, password |-> password]
              /\ before' = DefaultConfig
              /\ \/ FailToConnect
                 \/ validate(config')
        /\ environment' = environment
  BY DEF SQLConnect, service
<1>2. CASE RefuseDsn(s)
  BY <1>1, <1>2 DEF RefuseDsn, GivenInv, IsConfig
<1>3. CASE /\ config' = ParametersOfConnect(s, user, password)
           /\ given' = [string |-> s, by |-> "SQLConnect",
                        user |-> user, password |-> password]
           /\ before' = DefaultConfig
           /\ \/ FailToConnect
              \/ validate(config')
  <2>. DEFINE g == [string |-> s, by |-> "SQLConnect", user |-> user, password |-> password]
  <2>1. s \in Seq(STRING) /\ user \in Seq(STRING) /\ password \in Seq(STRING)
    BY ConnectionAssumption
  <2>2. g \in Calls /\ g.string = s /\ KeysOf(g) = TextKeys
    BY <2>1 DEF Calls, KeysOf
  <2>3. IsConfig(config')
    <3>1. IsConfig(parse(s))  BY ParsedIsConfig
    <3>. QED  BY <1>3, <3>1 DEF ParametersOfConnect, IsConfig
  <2>4. given' = g /\ before' = DefaultConfig  BY <1>3
  <2>5. ASSUME IsPlain(s), NEW setting \in TextSettings
        PROVE  config'[setting] = Left(g, DefaultConfig, setting)
    <3>1. ParametersOfConnect(s, user, password)[setting] =
            LastIn(GivenBy(g), TextKeys, setting, DefaultConfig[setting])
      BY <2>1, <2>5, ConnectGives
    <3>. QED  BY Zenon, <1>3, <2>2, <3>1 DEF Left
  <2>. HIDE DEF g
  <2>6. ASSUME IsPlain(given'.string), NEW setting \in TextSettings
        PROVE  Follows(config', given', before', environment', setting)
    <3>1. IsPlain(s)  BY Zenon, <2>2, <2>4, <2>6
    <3>2. config'[setting] = Left(g, DefaultConfig, setting)  BY <2>5, <2>6, <3>1
    <3>3. Follows(config', g, DefaultConfig, environment', setting)
      BY Zenon, <3>2 DEF Follows
    <3>. QED  BY Zenon, <2>4, <3>3
  <2>7. told' => IsComplete(config')
    BY <1>1, <1>3 DEF FailToConnect, validate, IsComplete
  <2>8. given' \in Calls  BY <2>2, <2>4
  <2>. QED  BY Zenon, <2>3, <2>6, <2>7, <2>8 DEF GivenInv, IsConfig
<1>. QED  BY <1>1, <1>2, <1>3

LEMMA GivenUnchanged ==
  ASSUME GivenInv, UNCHANGED <<environment, config, given, before>>, told' => told
  PROVE  GivenInv'
BY DEF GivenInv, IsConfig, IsComplete, hasValidCredentials, Given, Follows

LEMMA ConnKeepsGiven ==
  ASSUME GivenInv, ConnNext
  PROVE  GivenInv'
<1>1. CASE SQLDriverConnect \/ SQLDriverConnectA \/ SQLDriverConnectW
  BY <1>1, DriverConnectFollows
     DEF SQLDriverConnect, SQLDriverConnectA, SQLDriverConnectW
<1>2. CASE SQLConnect
  BY <1>2, ConnectFollows
<1>3. CASE SQLDisconnect
  BY <1>3, GivenUnchanged DEF SQLDisconnect, service, history
<1>4. CASE SQLSetConnectAttr \/ SQLSetConnectAttrW
  BY <1>4, GivenUnchanged
     DEF SQLSetConnectAttr, SQLSetConnectAttrW, SetConnectAttr, service, handle, history
<1>5. CASE SQLGetConnectAttr \/ SQLGetConnectAttrW
  BY <1>5, GivenUnchanged
     DEF SQLGetConnectAttr, SQLGetConnectAttrW, GetConnectAttr, service, handle, history
<1>. QED  BY <1>1, <1>2, <1>3, <1>4, <1>5 DEF ConnNext

-----------------------------------------------------------------------------
(* Pages                                                                   *)

Behind(names, marker) == {n \in names : n > marker}

Before(names, marker, n) == {o \in Behind(names, marker) : o < n}

LEMMA NamesAreNumbers ==
  /\ Len(TableNames) \in Nat /\ Names = 1 .. Len(TableNames) /\ IsFiniteSet(Names)
  /\ \A n \in Names : n \in Nat /\ n # 0
<1>1. TableNames \in Seq(STRING)  BY CatalogAssumption
<1>2. Len(TableNames) \in Nat /\ Names = 1 .. Len(TableNames)  BY <1>1 DEF Names
<1>3. IsFiniteSet(Names)  BY <1>2, FS_Interval
<1>4. \A n \in Names : n \in Nat /\ n # 0  BY <1>2
<1>. QED  BY <1>2, <1>3, <1>4

LEMMA PagesHoldNames == PageSize \in Nat /\ PageSize > 0
<1>1. PageSize \in Nat \ {0}  BY CatalogAssumption
<1>. QED  BY <1>1

LEMMA BeforeIsCounted ==
  ASSUME NEW names \in SUBSET Names, NEW marker \in Nat, NEW n \in Nat, NEW m \in Nat,
         n <= m
  PROVE  /\ Cardinality(Before(names, marker, n)) \in Nat
         /\ Cardinality(Before(names, marker, m)) \in Nat
         /\ Cardinality(Before(names, marker, n)) <= Cardinality(Before(names, marker, m))
<1>1. Before(names, marker, m) \subseteq Names  BY DEF Before, Behind
<1>2. IsFiniteSet(Before(names, marker, m))  BY <1>1, NamesAreNumbers, FS_Subset
<1>3. Before(names, marker, n) \subseteq Before(names, marker, m)
  <2>. SUFFICES ASSUME NEW o \in Behind(names, marker), o < n  PROVE o < m
    BY DEF Before
  <2>1. o \in Nat  BY NamesAreNumbers DEF Behind
  <2>. QED  BY <2>1
<1>4. IsFiniteSet(Before(names, marker, n))  BY <1>2, <1>3, FS_Subset
<1>. QED  BY <1>2, <1>3, <1>4, FS_Subset, FS_CardinalityType

\* A page holds names behind the marker.  Without a marker of its own it holds them
\* all; with one, it holds those up to that marker, which lies behind the last one.
LEMMA PageIsInitialPart ==
  ASSUME NEW names \in SUBSET Names, NEW marker \in Nat
  PROVE  LET page == Page(names, marker)
         IN  /\ page.names \subseteq Behind(names, marker)
             /\ page.marker = 0 => page.names = Behind(names, marker)
             /\ page.marker # 0 =>
                  /\ page.marker \in Nat /\ page.marker > marker
                  /\ page.names = {n \in Behind(names, marker) : n <= page.marker}
<1>. DEFINE after == Behind(names, marker)
            page == {n \in after : Cardinality(Before(names, marker, n)) < PageSize}
<1>1. Page(names, marker) =
        [names |-> page, marker |-> IF page = after THEN 0 ELSE Max(page)]
  BY DEF Page, Behind, Before
<1>2. after \in SUBSET Nat /\ \A n \in after : n > marker /\ n \in Names /\ n \in Nat
  BY NamesAreNumbers DEF Behind
<1>3. CASE page = after
  BY <1>1, <1>3
<1>4. CASE page # after
  <2>1. after # {}  BY <1>4
  <2>2. PICK first \in after : \A n \in after : first <= n  BY <1>2, <2>1, MinIsFirst
  <2>3. Before(names, marker, first) = {}
    BY <1>2, <2>2 DEF Before
  <2>4. first \in page  BY <2>3, FS_EmptySet, PagesHoldNames
  <2>5. page # {} /\ page \in SUBSET (1 .. Len(TableNames))
    BY <1>2, <2>4, NamesAreNumbers
  <2>6. Max(page) \in page /\ \A n \in page : n <= Max(page)
    BY <2>5, MaxIsLast, NamesAreNumbers
  <2>7. Max(page) \in Nat /\ Max(page) > marker /\ Max(page) \in after
    BY <1>2, <2>6
  <2>8. ASSUME NEW n \in after, n <= Max(page)  PROVE n \in page
    <3>1. n \in Nat  BY <1>2
    <3>2. Cardinality(Before(names, marker, n)) <= Cardinality(Before(names, marker, Max(page)))
          /\ Cardinality(Before(names, marker, n)) \in Nat
          /\ Cardinality(Before(names, marker, Max(page))) \in Nat
      BY <2>7, <2>8, <3>1, BeforeIsCounted
    <3>3. Cardinality(Before(names, marker, Max(page))) < PageSize  BY <2>6
    <3>. QED  BY <3>2, <3>3, PagesHoldNames
  <2>9. page = {n \in after : n <= Max(page)}  BY <2>6, <2>8
  <2>. QED  BY <1>1, <1>4, <2>7, <2>9
<1>. QED  BY <1>3, <1>4

-----------------------------------------------------------------------------
(* The listing under way                                                   *)

TablesOK == tables \in [Schemas -> SUBSET Names]

\* The names the rows of a listing or a result hold.
NamesIn(rows) == {n \in Names : rows[n] > 0}

ListingOK ==
  listing # None =>
    /\ DOMAIN listing =
         {"schema", "table", "types", "marker", "rows", "stable", "seen"}
    /\ listing.marker \in Nat
    /\ listing.rows \in [Names -> 0 .. 1]
    /\ \A n \in Names : n > listing.marker => listing.rows[n] = 0

\* What the listing holds and what it could see, of a schema that exists.
SeenOK ==
  listing # None /\ Addressed(listing.schema) \in Schemas =>
    LET now == tables[Addressed(listing.schema)]
    IN  /\ listing.stable \subseteq now /\ now \subseteq listing.seen
        /\ NamesIn(listing.rows) \subseteq listing.seen
        /\ \A n \in listing.stable : n <= listing.marker => n \in NamesIn(listing.rows)

Complete(r) ==
  r # None /\ r.kind = "tables" =>
    /\ \A n \in Names : r.rows[n] <= 1
    /\ r.due \subseteq NamesIn(r.rows) /\ NamesIn(r.rows) \subseteq r.seen

CompleteInv == TablesOK /\ ListingOK /\ SeenOK /\ Complete(result)

-----------------------------------------------------------------------------
\* An answer that is no list of tables, or an empty one, is complete.
LEMMA OtherAnswersAreComplete ==
  /\ Complete(None) /\ Complete(EmptyList) /\ Complete(ListCatalogs) /\ Complete(NoColumns)
  /\ \A s, n, pattern : Complete(ColumnsOf(s, n, pattern))
<1>1. Complete(None)  BY DEF Complete
<1>2. Complete(EmptyList)  BY DEF Complete, EmptyList, NamesIn
<1>3. Complete(ListCatalogs)  BY DEF Complete, ListCatalogs
<1>4. Complete(NoColumns)  BY DEF Complete, NoColumns
<1>5. \A s, n, pattern : Complete(ColumnsOf(s, n, pattern))
  BY DEF Complete, ColumnsOf
<1>. QED  BY <1>1, <1>2, <1>3, <1>4, <1>5

LEMMA CompleteInit == Init => CompleteInv
<1>. SUFFICES ASSUME Init  PROVE CompleteInv  OBVIOUS
<1>1. TablesOK
  <2>1. InitialTables \subseteq [Schemas -> SUBSET Names]  BY CatalogAssumption
  <2>. QED  BY <2>1 DEF Init, TablesOK
<1>2. listing = None /\ result = None  BY DEF Init
<1>. QED  BY <1>1, <1>2 DEF CompleteInv, ListingOK, SeenOK, Complete

\* A step that leaves the tables and the connection alone and ends the listing, or
\* leaves it alone.
LEMMA KeptComplete ==
  ASSUME CompleteInv, tables' = tables, Complete(result'),
         \/ listing' = None
         \/ listing' = listing /\ client' = client /\ schemaModel' = schemaModel
  PROVE  CompleteInv'
<1>1. TablesOK'  BY DEF CompleteInv, TablesOK
<1>2. CASE listing' = None
  <2>1. ListingOK' /\ SeenOK'  BY <1>2 DEF ListingOK, SeenOK
  <2>. QED  BY <1>1, <2>1 DEF CompleteInv
<1>3. CASE listing' = listing /\ client' = client /\ schemaModel' = schemaModel
  <2>1. ListingOK'  BY <1>3 DEF CompleteInv, ListingOK
  <2>2. SeenOK'
    BY <1>3 DEF CompleteInv, SeenOK, Addressed
  <2>. QED  BY <1>1, <2>1, <2>2 DEF CompleteInv
<1>. QED  BY <1>2, <1>3

LEMMA ChangeTablesComplete ==
  ASSUME CompleteInv, NEW t \in [Schemas -> SUBSET Names], ChangeTables(t)
  PROVE  CompleteInv'
<1>. USE DEF ChangeTables
<1>1. TablesOK'  BY DEF TablesOK
<1>2. /\ listing # None /\ result' = result
      /\ client' = client /\ schemaModel' = schemaModel
      /\ tables' = t
  BY DEF connVars, handle, service
<1>. DEFINE now == t[Addressed(listing.schema)]
<1>3. listing' = [listing EXCEPT !.stable = @ \cap now, !.seen = @ \cup now]
  OBVIOUS
<1>4. DOMAIN listing = {"schema", "table", "types", "marker", "rows", "stable", "seen"}
  BY <1>2 DEF CompleteInv, ListingOK
<1>5. /\ DOMAIN listing' = DOMAIN listing
      /\ listing'.schema = listing.schema /\ listing'.marker = listing.marker
      /\ listing'.rows = listing.rows
      /\ listing'.stable = listing.stable \cap now /\ listing'.seen = listing.seen \cup now
  BY <1>3, <1>4
<1>6. ListingOK'  BY <1>2, <1>5 DEF CompleteInv, ListingOK
<1>7. SeenOK'
  <2>. SUFFICES ASSUME Addressed(listing.schema) \in Schemas
       PROVE  /\ listing'.stable \subseteq now /\ now \subseteq listing'.seen
              /\ NamesIn(listing.rows) \subseteq listing'.seen
              /\ \A n \in listing'.stable :
                   n <= listing.marker => n \in NamesIn(listing.rows)
    <3>1. Addressed(listing.schema)' = Addressed(listing.schema)
      BY <1>2, <1>5 DEF Addressed
    <3>2. tables'[Addressed(listing.schema)'] = now  BY <1>2, <3>1
    <3>3. NamesIn(listing.rows)' = NamesIn(listing.rows)  BY <1>5 DEF NamesIn
    <3>. QED  BY Zenon, <1>5, <3>1, <3>2, <3>3 DEF SeenOK
  <2>1. /\ NamesIn(listing.rows) \subseteq listing.seen
        /\ \A n \in listing.stable : n <= listing.marker => n \in NamesIn(listing.rows)
    BY <1>2 DEF CompleteInv, SeenOK
  <2>. QED  BY <1>5, <2>1
<1>8. Complete(result')  BY <1>2 DEF CompleteInv
<1>. QED  BY <1>1, <1>6, <1>7, <1>8 DEF CompleteInv

LEMMA BeginListingComplete ==
  ASSUME CompleteInv, tables' = tables, client' = client, schemaModel' = schemaModel,
         NEW schema, NEW table, NEW types, BeginListing(schema, table, types)
  PROVE  CompleteInv'
<1>. DEFINE now == tables[Addressed(schema)]
            begun == [schema |-> schema, table |-> table, types |-> types,
                      marker |-> 0, rows |-> [n \in Names |-> 0],
                      stable |-> now, seen |-> now]
<1>1. listing' = begun /\ result' = result  BY DEF BeginListing
<1>2. TablesOK'  BY DEF CompleteInv, TablesOK
<1>3. /\ begun.rows \in [Names -> 0 .. 1] /\ begun.marker = 0
      /\ \A n \in Names : begun.rows[n] = 0
      /\ NamesIn(begun.rows) = {}
  BY DEF NamesIn
<1>4. ListingOK'
  <2>1. DOMAIN begun = {"schema", "table", "types", "marker", "rows", "stable", "seen"}
    OBVIOUS
  <2>. QED  BY <1>1, <1>3, <2>1 DEF ListingOK
<1>5. SeenOK'
  <2>. SUFFICES ASSUME Addressed(schema) \in Schemas
       PROVE  \A n \in now : ~(n <= 0)
    <3>1. Addressed(listing.schema)' = Addressed(schema)  BY <1>1 DEF Addressed
    <3>2. tables'[Addressed(listing.schema)'] = now  BY <3>1
    <3>3. NamesIn(listing.rows)' = {}  BY <1>1, <1>3 DEF NamesIn
    <3>4. begun.stable = now /\ begun.seen = now  OBVIOUS
    <3>. QED  BY Zenon, <1>1, <1>3, <3>1, <3>2, <3>3, <3>4 DEF SeenOK
  <2>1. now \subseteq Names  BY DEF CompleteInv, TablesOK
  <2>. QED  BY <2>1, NamesAreNumbers
<1>6. Complete(result')  BY <1>1 DEF CompleteInv
<1>. QED  BY <1>2, <1>4, <1>5, <1>6 DEF CompleteInv

-----------------------------------------------------------------------------
(* A page is read                                                          *)

RowsAfter(page) ==
  [n \in Names |-> IF n \in page.names THEN More(listing.rows[n]) ELSE listing.rows[n]]

\* With the rows of the page the listing holds, once each, the names it held and those
\* of the page.
LEMMA PageIsAdded ==
  ASSUME CompleteInv, listing # None, Addressed(listing.schema) \in Schemas
  PROVE  LET page == Page(tables[Addressed(listing.schema)], listing.marker)
         IN  /\ RowsAfter(page) \in [Names -> 0 .. 1]
             /\ NamesIn(RowsAfter(page)) = NamesIn(listing.rows) \cup page.names
             /\ NamesIn(RowsAfter(page)) \subseteq listing.seen
             /\ page.marker = 0 => listing.stable \subseteq NamesIn(RowsAfter(page))
             /\ page.marker # 0 =>
                  /\ page.marker \in Nat
                  /\ \A n \in Names : n > page.marker => RowsAfter(page)[n] = 0
                  /\ \A n \in listing.stable :
                       n <= page.marker => n \in NamesIn(RowsAfter(page))
<1>. DEFINE now == tables[Addressed(listing.schema)]
            page == Page(now, listing.marker)
<1>1. now \in SUBSET Names /\ listing.marker \in Nat
  BY DEF CompleteInv, TablesOK, ListingOK
<1>2. /\ page.names \subseteq Behind(now, listing.marker)
      /\ page.marker = 0 => page.names = Behind(now, listing.marker)
      /\ page.marker # 0 =>
           /\ page.marker \in Nat /\ page.marker > listing.marker
           /\ page.names = {n \in Behind(now, listing.marker) : n <= page.marker}
  BY <1>1, PageIsInitialPart
<1>. HIDE DEF page
<1>3. /\ listing.rows \in [Names -> 0 .. 1]
      /\ \A n \in Names : n > listing.marker => listing.rows[n] = 0
  BY DEF CompleteInv, ListingOK
<1>4. /\ listing.stable \subseteq now /\ now \subseteq listing.seen
      /\ NamesIn(listing.rows) \subseteq listing.seen
      /\ \A n \in listing.stable : n <= listing.marker => n \in NamesIn(listing.rows)
  BY DEF CompleteInv, SeenOK
<1>5. \A n \in page.names : n \in Names /\ n \in now /\ listing.rows[n] = 0
  BY <1>1, <1>2, <1>3 DEF Behind
<1>6. \A n \in Names : RowsAfter(page)[n] = IF n \in page.names THEN 1 ELSE listing.rows[n]
  BY <1>5 DEF RowsAfter, More
<1>7. RowsAfter(page) \in [Names -> 0 .. 1]
  <2>1. \A n \in Names : RowsAfter(page)[n] \in 0 .. 1  BY <1>3, <1>6
  <2>. QED  BY <2>1 DEF RowsAfter
<1>8. NamesIn(RowsAfter(page)) = NamesIn(listing.rows) \cup page.names
  BY <1>5, <1>6 DEF NamesIn
<1>9. NamesIn(RowsAfter(page)) \subseteq listing.seen
  BY <1>4, <1>5, <1>8
<1>10. ASSUME page.marker = 0  PROVE listing.stable \subseteq NamesIn(RowsAfter(page))
  <2>. SUFFICES ASSUME NEW n \in listing.stable, n \notin NamesIn(listing.rows)
       PROVE  n \in page.names
    BY <1>8
  <2>1. n \in Nat /\ n > listing.marker  BY <1>1, <1>4, NamesAreNumbers
  <2>. QED  BY <1>2, <1>4, <1>10, <2>1 DEF Behind
<1>11. ASSUME page.marker # 0
       PROVE  /\ page.marker \in Nat
              /\ \A n \in Names : n > page.marker => RowsAfter(page)[n] = 0
              /\ \A n \in listing.stable :
                   n <= page.marker => n \in NamesIn(RowsAfter(page))
  <2>1. page.marker \in Nat /\ page.marker > listing.marker  BY <1>2, <1>11
  <2>2. ASSUME NEW n \in Names, n > page.marker  PROVE RowsAfter(page)[n] = 0
    <3>1. n \in Nat /\ n > listing.marker /\ ~(n <= page.marker)
      BY <1>1, <2>1, <2>2, NamesAreNumbers
    <3>2. n \notin page.names  BY <1>2, <1>11, <3>1
    <3>. QED  BY <1>3, <1>6, <3>1, <3>2
  <2>3. ASSUME NEW n \in listing.stable, n <= page.marker
        PROVE  n \in NamesIn(RowsAfter(page))
    <3>1. n \in Nat /\ n \in now  BY <1>1, <1>4, NamesAreNumbers
    <3>2. CASE n <= listing.marker  BY <1>4, <1>8, <3>2
    <3>3. CASE n > listing.marker
      <4>1. n \in page.names  BY <1>2, <1>11, <2>3, <3>1, <3>3 DEF Behind
      <4>. QED  BY <1>8, <4>1
    <3>. QED  BY <1>1, <3>1, <3>2, <3>3
  <2>. QED  BY <2>1, <2>2, <2>3
<1>. QED  BY <1>7, <1>8, <1>9, <1>10, <1>11 DEF page

\* What is filtered out of the answer is not due.
LEMMA FilteredComplete ==
  ASSUME NEW rows \in [Names -> 0 .. 1], NamesIn(rows) \subseteq listing.seen,
         listing.stable \subseteq NamesIn(rows)
  PROVE  Complete(Listed(rows))
<1>. DEFINE kept == Wanted(Names, listing.table, listing.types)
            answered == [n \in Names |-> IF n \in kept THEN rows[n] ELSE 0]
<1>1. /\ Listed(rows).rows = answered /\ Listed(rows).seen = listing.seen
      /\ Listed(rows).due = Wanted(listing.stable, listing.table, listing.types)
  BY DEF Listed
<1>2. \A n \in Names : answered[n] <= 1  OBVIOUS
<1>3. NamesIn(answered) = NamesIn(rows) \cap kept  BY DEF NamesIn
<1>4. Wanted(listing.stable, listing.table, listing.types) \subseteq NamesIn(rows) \cap kept
  BY DEF Wanted, NamesIn
<1>. QED  BY <1>1, <1>2, <1>3, <1>4 DEF Complete

LEMMA ListPageComplete ==
  ASSUME CompleteInv, ListPage
  PROVE  CompleteInv'
<1>. DEFINE a == Addressed(listing.schema)
            page == Page(tables[a], listing.marker)
            rows == RowsAfter(page)
<1>1. /\ listing # None /\ a \in Schemas /\ tables' = tables
      /\ client' = client /\ schemaModel' = schemaModel
  BY DEF ListPage, KeepConnection, service, handle
<1>2. \/ page.marker = 0 /\ EndListing(rows)
      \/ /\ page.marker # 0
         /\ listing' = [listing EXCEPT !.rows = rows, !.marker = NextMarker(page)]
         /\ UNCHANGED <<answer, result>>
  BY DEF ListPage, RowsAfter
<1>3. /\ rows \in [Names -> 0 .. 1]
      /\ NamesIn(rows) = NamesIn(listing.rows) \cup page.names
      /\ NamesIn(rows) \subseteq listing.seen
      /\ page.marker = 0 => listing.stable \subseteq NamesIn(rows)
      /\ page.marker # 0 =>
           /\ page.marker \in Nat
           /\ \A n \in Names : n > page.marker => rows[n] = 0
           /\ \A n \in listing.stable : n <= page.marker => n \in NamesIn(rows)
  BY <1>1, PageIsAdded
<1>. HIDE DEF page, rows
<1>4. CASE page.marker = 0 /\ EndListing(rows)
  <2>1. result' = Listed(rows) /\ listing' = None  BY <1>4 DEF EndListing
  <2>2. Complete(Listed(rows))  BY <1>3, <1>4, FilteredComplete
  <2>. QED  BY <1>1, <2>1, <2>2, KeptComplete
<1>5. CASE /\ page.marker # 0
           /\ listing' = [listing EXCEPT !.rows = rows, !.marker = NextMarker(page)]
           /\ UNCHANGED <<answer, result>>
  <2>1. DOMAIN listing = {"schema", "table", "types", "marker", "rows", "stable", "seen"}
    BY <1>1 DEF CompleteInv, ListingOK
  <2>2. /\ DOMAIN listing' = DOMAIN listing
        /\ listing'.schema = listing.schema /\ listing'.marker = page.marker
        /\ listing'.rows = rows
        /\ listing'.stable = listing.stable /\ listing'.seen = listing.seen
    BY <1>5, <2>1 DEF NextMarker
  <2>3. TablesOK'  BY <1>1 DEF CompleteInv, TablesOK
  <2>4. ListingOK'  BY <1>3, <1>5, <2>1, <2>2 DEF ListingOK
  <2>5. SeenOK'
    <3>1. Addressed(listing.schema)' = a  BY <1>1, <2>2 DEF Addressed
    <3>2. tables'[Addressed(listing.schema)'] = tables[a]  BY <1>1, <3>1
    <3>3. NamesIn(listing.rows)' = NamesIn(rows)  BY <2>2 DEF NamesIn
    <3>4. listing.stable \subseteq tables[a] /\ tables[a] \subseteq listing.seen
      BY <1>1 DEF CompleteInv, SeenOK
    <3>. QED  BY Zenon, <1>3, <1>5, <2>2, <3>1, <3>2, <3>3, <3>4 DEF SeenOK
  <2>6. Complete(result')  BY <1>5 DEF CompleteInv
  <2>. QED  BY <2>3, <2>4, <2>5, <2>6 DEF CompleteInv
<1>. QED  BY <1>2, <1>4, <1>5

-----------------------------------------------------------------------------
(* Every step                                                              *)

LEMMA CallTablesComplete ==
  ASSUME CompleteInv, CallTables
  PROVE  CompleteInv'
<1>1. /\ listing = None /\ tables' = tables
      /\ client' = client /\ schemaModel' = schemaModel
  BY DEF CallTables, KeepConnection, service, handle
<1>2. CASE NotOpen /\ UNCHANGED statement
  <2>1. listing' = listing /\ Complete(result')  BY <1>2 DEF statement, CompleteInv
  <2>. QED  BY <1>1, <2>1, KeptComplete
<1>3. ASSUME NEW r \in {EmptyList, ListCatalogs}, Answered(r)  PROVE CompleteInv'
  <2>1. listing' = listing /\ Complete(result')
    BY <1>3, OtherAnswersAreComplete DEF Answered
  <2>. QED  BY <1>1, <2>1, KeptComplete
<1>4. ASSUME NEW catalog \in CatalogArgs, NEW schema \in SchemaArgs,
             NEW table \in TableArgs, NEW types \in TypeArgs,
             List(catalog, schema, table, types)
      PROVE  CompleteInv'
  <2>1. \/ \E r \in {EmptyList, ListCatalogs} : Answered(r)
        \/ \E s : BeginListing(s, table, types)
    BY <1>4 DEF List
  <2>. QED  BY <1>1, <1>3, <2>1, BeginListingComplete
<1>. QED  BY <1>2, <1>4 DEF CallTables

LEMMA CallColumnsComplete ==
  ASSUME CompleteInv, CallColumns
  PROVE  CompleteInv'
<1>1. /\ listing = None /\ tables' = tables
      /\ client' = client /\ schemaModel' = schemaModel
  BY DEF CallColumns, KeepConnection, service, handle
<1>2. listing' = listing /\ Complete(result')
  <2>1. CASE NotOpen /\ result' = None /\ UNCHANGED listing
    BY <2>1, OtherAnswersAreComplete
  <2>2. ASSUME NEW catalog, NEW schema, NEW table, NEW pattern,
               Describe(catalog, schema, table, pattern)
        PROVE  listing' = listing /\ Complete(result')
    BY <2>2, OtherAnswersAreComplete DEF Describe, Answered
  <2>. QED  BY <2>1, <2>2 DEF CallColumns
<1>. QED  BY <1>1, <1>2, KeptComplete

LEMMA CompleteStep == CompleteInv /\ [Next]_vars => CompleteInv'
<1>. SUFFICES ASSUME CompleteInv, [Next]_vars  PROVE CompleteInv'  OBVIOUS
<1>1. CASE ConnectionCall
  <2>1. listing' = None /\ tables' = tables /\ Complete(result')
    BY <1>1, OtherAnswersAreComplete DEF ConnectionCall
  <2>. QED  BY <2>1, KeptComplete
<1>2. CASE CreateTable
  <2>1. PICK s \in Schemas, n \in Names : ChangeTables([tables EXCEPT ![s] = @ \cup {n}])
    BY <1>2 DEF CreateTable
  <2>2. [tables EXCEPT ![s] = @ \cup {n}] \in [Schemas -> SUBSET Names]
    BY DEF CompleteInv, TablesOK
  <2>. QED  BY <2>1, <2>2, ChangeTablesComplete
<1>3. CASE DropTable
  <2>1. PICK s \in Schemas : \E n \in tables[s] : ChangeTables([tables EXCEPT ![s] = @ \ {n}])
    BY <1>3 DEF DropTable
  <2>2. PICK n \in tables[s] : ChangeTables([tables EXCEPT ![s] = @ \ {n}])
    BY <2>1
  <2>3. [tables EXCEPT ![s] = @ \ {n}] \in [Schemas -> SUBSET Names]
    BY DEF CompleteInv, TablesOK
  <2>. QED  BY <2>2, <2>3, ChangeTablesComplete
<1>4. CASE SQLTables \/ SQLTablesW
  BY <1>4, CallTablesComplete DEF SQLTables, SQLTablesW
<1>5. CASE ListPage
  BY <1>5, ListPageComplete
<1>6. CASE ListFails
  <2>1. listing' = None /\ tables' = tables /\ Complete(result')
    BY <1>6 DEF ListFails, CompleteInv
  <2>. QED  BY <2>1, KeptComplete
<1>7. CASE SQLColumns \/ SQLColumnsW
  BY <1>7, CallColumnsComplete DEF SQLColumns, SQLColumnsW
<1>8. CASE UNCHANGED vars
  <2>1. /\ listing' = listing /\ tables' = tables /\ Complete(result')
        /\ client' = client /\ schemaModel' = schemaModel
    BY <1>8 DEF vars, statement, connVars, handle, service, CompleteInv
  <2>. QED  BY <2>1, KeptComplete
<1>. QED  BY <1>1, <1>2, <1>3, <1>4, <1>5, <1>6, <1>7, <1>8 DEF Next

\* SQLTables lists no table twice, none that was never there, and every one that was
\* there from the first page to the last, for every set of tables, size of a page and
\* number of changes.
THEOREM ListingsAreComplete == Spec => []StableAreListed
<1>1. CompleteInv => StableAreListed
  BY DEF CompleteInv, Complete, StableAreListed, NamesIn
<1>. QED  BY CompleteInit, CompleteStep, <1>1, PTL DEF Spec

-----------------------------------------------------------------------------
(* From SQLTables to SQLColumns                                            *)

\* A schema that may be handed to SQLColumns as it is, or the client's own.
Labelled(schema) ==
  schema = "" \/ IsPattern(schema) => schema = listSchemas

LabelsOK(l, r) ==
  /\ l # None => Labelled(l.schema)
  /\ r # None /\ r.kind = "tables" /\ r.label # None =>
       Labelled(r.label) /\ r.of = Addressed(r.label) /\ r.of \in Schemas

RoundInv == ListingOK /\ ClientInv /\ LabelsOK(listing, result)

\* What LabelsOK depends on besides the listing and the result.
SameClient == client' = client /\ schemaModel' = schemaModel

LEMMA SameLabels ==
  ASSUME SameClient, NEW l, NEW r, LabelsOK(l, r), listing' = l, result' = r
  PROVE  LabelsOK(listing, result)'
BY DEF SameClient, LabelsOK, Labelled, listSchemas, Addressed

LEMMA OtherAnswersHaveNoLabel ==
  ASSUME NEW l, l # None => Labelled(l.schema)
  PROVE  /\ LabelsOK(l, None) /\ LabelsOK(l, EmptyList) /\ LabelsOK(l, ListCatalogs)
         /\ LabelsOK(l, NoColumns)
         /\ \A s, n, pattern : LabelsOK(l, ColumnsOf(s, n, pattern))
<1>1. LabelsOK(l, None)  BY DEF LabelsOK
<1>2. LabelsOK(l, EmptyList)  BY DEF LabelsOK, EmptyList
<1>3. LabelsOK(l, ListCatalogs)  BY DEF LabelsOK, ListCatalogs
<1>4. LabelsOK(l, NoColumns)  BY DEF LabelsOK, NoColumns
<1>5. \A s, n, pattern : LabelsOK(l, ColumnsOf(s, n, pattern))
  BY DEF LabelsOK, ColumnsOf
<1>. QED  BY <1>1, <1>2, <1>3, <1>4, <1>5

LEMMA CallTablesLabels ==
  ASSUME RoundInv, CallTables
  PROVE  LabelsOK(listing, result)' /\ ClientInv'
<1>1. SameClient /\ listing = None /\ UNCHANGED <<service, handle>>
  BY DEF CallTables, KeepConnection, service, handle, SameClient
<1>2. ClientInv'  BY <1>1, ClientUnchanged DEF RoundInv
<1>3. LabelsOK(None, result)  BY <1>1 DEF RoundInv
<1>4. CASE NotOpen /\ UNCHANGED statement
  <2>1. listing' = None /\ result' = result  BY <1>1, <1>4 DEF statement
  <2>. QED  BY <1>1, <1>2, <1>3, <2>1, SameLabels
<1>5. ASSUME NEW r \in {EmptyList, ListCatalogs}, Answered(r)
      PROVE  LabelsOK(listing, result)'
  <2>1. listing' = None /\ result' = r  BY <1>1, <1>5 DEF Answered
  <2>2. LabelsOK(None, r)  BY OtherAnswersHaveNoLabel
  <2>. QED  BY <1>1, <2>1, <2>2, SameLabels
<1>6. ASSUME NEW schema \in SchemaArgs, NEW table, NEW types, NEW asked,
             asked = IF schema = "" \/ IsPattern(schema) THEN listSchemas ELSE schema,
             BeginListing(asked, table, types)
      PROVE  LabelsOK(listing, result)'
  <2>1. Labelled(asked)  BY <1>6 DEF Labelled
  <2>2. listing'.schema = asked /\ result' = result  BY <1>6 DEF BeginListing
  <2>3. LabelsOK(listing', result)  BY <1>3, <2>1, <2>2 DEF LabelsOK
  <2>. QED  BY <1>1, <2>2, <2>3, SameLabels
<1>7. ASSUME NEW catalog \in CatalogArgs, NEW schema \in SchemaArgs,
             NEW table \in TableArgs, NEW types \in TypeArgs,
             List(catalog, schema, table, types)
      PROVE  LabelsOK(listing, result)'
  <2>. DEFINE asked == IF schema = "" \/ IsPattern(schema) THEN listSchemas ELSE schema
  <2>1. \/ \E r \in {EmptyList, ListCatalogs} : Answered(r)
        \/ BeginListing(asked, table, types)
    BY <1>7 DEF List
  <2>. HIDE DEF asked
  <2>2. asked = IF schema = "" \/ IsPattern(schema) THEN listSchemas ELSE schema
    BY DEF asked
  <2>. QED  BY <1>5, <1>6, <2>1, <2>2
<1>. QED  BY <1>2, <1>4, <1>7 DEF CallTables

LEMMA RoundInit == Init => RoundInv
<1>. SUFFICES ASSUME Init  PROVE RoundInv  OBVIOUS
<1>1. listing = None /\ result = None /\ ConnInit  BY DEF Init
<1>2. ListingOK /\ LabelsOK(listing, result)  BY <1>1 DEF ListingOK, LabelsOK
<1>. QED  BY <1>1, <1>2, ClientInit DEF RoundInv

LEMMA RoundStep == RoundInv /\ CompleteInv /\ [Next]_vars => RoundInv'
<1>. SUFFICES ASSUME RoundInv, CompleteInv, [Next]_vars  PROVE RoundInv'  OBVIOUS
<1>. USE DEF RoundInv
<1>0. ListingOK'  BY CompleteStep DEF CompleteInv
<1>. SUFFICES LabelsOK(listing, result)' /\ ClientInv'  BY <1>0
<1>1. CASE ConnectionCall
  <2>1. listing' = None /\ result' = None  BY <1>1 DEF ConnectionCall
  <2>2. LabelsOK(listing, result)'  BY <2>1 DEF LabelsOK
  <2>3. ClientInv'
    <3>1. CASE SQLDisconnect  BY <3>1, ConnKeepsClient DEF ConnNext
    <3>2. CASE ConnNext  BY <3>2, ConnKeepsClient
    <3>. QED  BY <1>1, <3>1, <3>2 DEF ConnectionCall
  <2>. QED  BY <2>2, <2>3
<1>2. ASSUME NEW t, ChangeTables(t)  PROVE LabelsOK(listing, result)' /\ ClientInv'
  <2>1. /\ listing # None /\ result' = result /\ SameClient
        /\ UNCHANGED <<service, handle>>
    BY <1>2 DEF ChangeTables, connVars, service, handle, SameClient
  <2>2. "schema" \in DOMAIN listing  BY <2>1 DEF ListingOK
  <2>3. listing'.schema = listing.schema  BY <1>2, <2>2 DEF ChangeTables
  <2>4. LabelsOK(listing', result)  BY <2>1, <2>3 DEF LabelsOK
  <2>5. LabelsOK(listing, result)'  BY <2>1, <2>4, SameLabels
  <2>6. ClientInv'  BY <2>1, ClientUnchanged
  <2>. QED  BY <2>5, <2>6
<1>3. CASE CreateTable \/ DropTable
  BY <1>2, <1>3 DEF CreateTable, DropTable
<1>4. CASE SQLTables \/ SQLTablesW
  BY <1>4, CallTablesLabels DEF SQLTables, SQLTablesW
<1>5. CASE ListPage
  <2>1. SameClient /\ listing # None /\ UNCHANGED <<service, handle>>
    BY <1>5 DEF ListPage, KeepConnection, service, handle, SameClient
  <2>2. ClientInv'  BY <2>1, ClientUnchanged
  <2>3. CASE \E rows : EndListing(rows)
    <3>1. PICK rows : listing' = None /\ result' = Listed(rows)
      BY <2>3 DEF EndListing
    <3>2. /\ Listed(rows).label = listing.schema
          /\ Listed(rows).of = Addressed(listing.schema)
          /\ Addressed(listing.schema) \in Schemas
      BY <1>5 DEF Listed, ListPage
    <3>3. Labelled(listing.schema)  BY <2>1 DEF LabelsOK
    <3>4. LabelsOK(None, Listed(rows))  BY <3>2, <3>3 DEF LabelsOK
    <3>5. LabelsOK(listing, result)'  BY <2>1, <3>1, <3>4, SameLabels
    <3>. QED  BY <2>2, <3>5
  <2>4. CASE \E rows, m : listing' = [listing EXCEPT !.rows = rows, !.marker = m]
                          /\ UNCHANGED <<answer, result>>
    <3>1. "schema" \in DOMAIN listing  BY <2>1 DEF ListingOK
    <3>2. listing'.schema = listing.schema /\ result' = result  BY <2>4, <3>1
    <3>3. LabelsOK(listing', result)  BY <2>1, <3>2 DEF LabelsOK
    <3>4. LabelsOK(listing, result)'  BY <2>1, <3>2, <3>3, SameLabels
    <3>. QED  BY <2>2, <3>4
  <2>. QED  BY <1>5, <2>3, <2>4 DEF ListPage
<1>6. CASE ListFails
  <2>1. /\ listing' = None /\ result' = result /\ SameClient
        /\ UNCHANGED <<service, handle>>
    BY <1>6 DEF ListFails, KeepConnection, service, handle, SameClient
  <2>2. LabelsOK(None, result)  BY DEF LabelsOK
  <2>3. LabelsOK(listing, result)'  BY <2>1, <2>2, SameLabels
  <2>. QED  BY <2>1, <2>3, ClientUnchanged
<1>7. CASE SQLColumns \/ SQLColumnsW
  <2>1. CallColumns  BY <1>7 DEF SQLColumns, SQLColumnsW
  <2>2. SameClient /\ listing = None /\ UNCHANGED <<service, handle>>
    BY <2>1 DEF CallColumns, KeepConnection, service, handle, SameClient
  <2>3. listing' = None /\ LabelsOK(None, result')
    <3>1. CASE NotOpen /\ result' = None /\ UNCHANGED listing
      BY <2>2, <3>1, OtherAnswersHaveNoLabel
    <3>2. ASSUME NEW catalog, NEW schema, NEW table, NEW pattern,
                 Describe(catalog, schema, table, pattern)
          PROVE  listing' = None /\ LabelsOK(None, result')
      BY <2>2, <3>2, OtherAnswersHaveNoLabel DEF Describe, Answered
    <3>. QED  BY <2>1, <3>1, <3>2 DEF CallColumns
  <2>4. LabelsOK(listing, result)'  BY <2>2, <2>3, SameLabels
  <2>. QED  BY <2>2, <2>4, ClientUnchanged
<1>8. CASE UNCHANGED vars
  <2>1. /\ listing' = listing /\ result' = result /\ SameClient
        /\ UNCHANGED <<service, handle>>
    BY <1>8 DEF vars, statement, connVars, service, handle, SameClient
  <2>2. LabelsOK(listing, result)'  BY <2>1, SameLabels
  <2>. QED  BY <2>1, <2>2, ClientUnchanged
<1>. QED  BY <1>1, <1>3, <1>4, <1>5, <1>6, <1>7, <1>8 DEF Next

LEMMA LabelIsResolved ==
  ASSUME RoundInv, told, config.namespaceSchema = client.namespaceSchema,
         NEW schema, Labelled(schema), Addressed(schema) \in Schemas
  PROVE  Addressed(SchemaOfColumns(schema)) = Addressed(schema)
<1>1. CASE ~(client.namespaceSchema /\ schemaModel)
  BY <1>1 DEF Addressed
<1>2. CASE client.namespaceSchema /\ schemaModel
  <2>1. \A x : Addressed(x) = x  BY <1>2 DEF Addressed
  <2>2. CASE schema # "" /\ ~IsPattern(schema)
    <3>1. SchemaOfColumns(schema) = schema  BY <2>2 DEF SchemaOfColumns
    <3>. QED  BY <3>1
  <2>3. CASE schema = "" \/ IsPattern(schema)
    <3>1. schema = Text(client.schema)
      BY <1>2, <2>3 DEF Labelled, listSchemas
    <3>2. client.schema = config.schema
      <4>1. "schema" \in DOMAIN DefaultConfig \ {"namespaceSchema"}  BY DEF DefaultConfig
      <4>. QED  BY <4>1, ClientIsConfig DEF RoundInv
    <3>3. config.schema # << >>
      <4>1. Text(<< >>) = ""  BY DEF Text
      <4>2. "" \notin Schemas  BY CatalogAssumption
      <4>. QED  BY <2>1, <3>1, <3>2, <4>1, <4>2
    <3>4. SchemaOfColumns(schema) = Text(config.schema)
      BY <1>2, <2>3, <3>3 DEF SchemaOfColumns
    <3>. QED  BY <3>1, <3>2, <3>4
  <2>. QED  BY <2>2, <2>3
<1>. QED  BY <1>1, <1>2

\* The schema in a row of SQLTables leads SQLColumns to the table that was listed, as
\* long as handle and client take the project for the same, whatever the schemas, the
\* patterns and the strings the connection was made with.
THEOREM RowsLeadBack == Spec => []RoundTrip
<1>1. RoundInv => RoundTrip
  BY LabelIsResolved DEF RoundInv, LabelsOK, RoundTrip
<1>. QED  BY <1>1, RoundInit, RoundStep, CompleteInit, CompleteStep, PTL DEF Spec

\* The driver manager knows of no connection without a client.
THEOREM ConnectionsHaveClients == Spec => [](told => client # NoClient)
<1>1. RoundInv => (told => client # NoClient)
  BY ClientIsConfig, ConfigIsClient DEF RoundInv
<1>. QED  BY <1>1, RoundInit, RoundStep, CompleteInit, CompleteStep, PTL DEF Spec

LEMMA GivenStep == GivenInv /\ [Next]_vars => GivenInv'
<1>. SUFFICES ASSUME GivenInv, [Next]_vars  PROVE GivenInv'  OBVIOUS
<1>1. CASE ConnectionCall
  <2>1. CASE SQLDisconnect  BY <2>1, GivenUnchanged DEF SQLDisconnect, service, history
  <2>2. CASE ConnNext  BY <2>2, ConnKeepsGiven
  <2>. QED  BY <1>1, <2>1, <2>2 DEF ConnectionCall
<1>2. CASE CreateTable \/ DropTable
  <2>1. PICK t : ChangeTables(t)  BY Zenon, <1>2 DEF CreateTable, DropTable
  <2>2. UNCHANGED <<environment, config, given, before, told>>
    BY <2>1 DEF ChangeTables, connVars, service, handle, history
  <2>. QED  BY <2>2, GivenUnchanged
<1>3. CASE SQLTables \/ SQLTablesW
  BY <1>3, GivenUnchanged DEF SQLTables, SQLTablesW, CallTables, KeepConnection,
                                  service, handle, history
<1>4. CASE ListPage
  BY <1>4, GivenUnchanged DEF ListPage, KeepConnection, service, handle, history
<1>5. CASE ListFails
  BY <1>5, GivenUnchanged DEF ListFails, KeepConnection, service, handle, history
<1>6. CASE SQLColumns \/ SQLColumnsW
  BY <1>6, GivenUnchanged
     DEF SQLColumns, SQLColumnsW, CallColumns, KeepConnection, service, handle, history
<1>7. CASE UNCHANGED vars
  BY <1>7, GivenUnchanged DEF vars, connVars, service, handle, history
<1>. QED  BY <1>1, <1>2, <1>3, <1>4, <1>5, <1>6, <1>7 DEF Next

\* With a plain string, a complete configuration that follows the call holds what
\* Promised names, unless an earlier call left something else.
LEMMA PromiseIsKept ==
  ASSUME GivenInv, told, IsPlain(given.string), NEW setting \in TextSettings,
         ~LeftOver(setting)
  PROVE  config[setting] = Promised(setting)
<1>. DEFINE left == Left(given, before, setting)
            last == LastValue(given, setting)
<1>1. left = IF About(given, setting) = {} THEN before[setting] ELSE last
  BY Zenon, AboutIsIn DEF Left, LastIn, LastValue
<1>2. config[setting] = left \/ (~Given(left) /\ config[setting] = environment[setting])
  BY Zenon DEF GivenInv, Follows
<1>3. Given(config[setting])
  BY DEF GivenInv, IsComplete, hasValidCredentials, TextSettings
<1>4. Promised(setting) = IF About(given, setting) # {} /\ last # << >> THEN last
                          ELSE environment[setting]
  BY Zenon DEF Promised
<1>5. About(given, setting) # {} => last \in Seq(STRING)
  BY LastValueIsText DEF GivenInv
<1>6. NoValue \notin Seq(STRING)  BY ConnectionAssumption
<1>7. CASE About(given, setting) = {}
  <2>1. ~Given(left)  BY Zenon, <1>1, <1>7 DEF LeftOver
  <2>2. config[setting] = environment[setting]  BY Zenon, <1>2, <1>3, <2>1
  <2>. QED  BY Zenon, <1>4, <1>7, <2>2
<1>8. CASE About(given, setting) # {}
  <2>1. left = last  BY Zenon, <1>1, <1>8
  <2>2. CASE config[setting] = left
    <3>1. last # << >>  BY <1>3, <2>1, <2>2 DEF Given
    <3>. QED  BY Zenon, <1>4, <1>8, <2>1, <2>2, <3>1
  <2>3. CASE ~Given(left) /\ config[setting] = environment[setting]
    <3>. HIDE DEF left, last
    <3>1. last = << >>  BY <1>5, <1>6, <1>8, <2>1, <2>3 DEF Given
    <3>. QED  BY Zenon, <1>4, <2>3, <3>1
  <2>. QED  BY <1>2, <2>2, <2>3
<1>. QED  BY <1>7, <1>8

\* An open connection has a client, and when the string of the call that opened it was
\* plain, the client goes where this call said last, or else where the environment says,
\* except for a setting that an earlier call left in the configuration: for any strings,
\* arguments, environment and number of calls.  The parsers that look for the next "="
\* agree with splitting the string at ";" (PlainParsersAgree).
THEOREM ClientsGoWhereTold == Spec => []ConnectedAsGiven
<1>1. RoundInv /\ GivenInv => ConnectedAsGiven
  <2>. SUFFICES ASSUME RoundInv, GivenInv, told  PROVE ConnectedAsGiven
    BY DEF ConnectedAsGiven
  <2>1. ClientInv  BY DEF RoundInv
  <2>2. client # NoClient  BY <2>1, ClientIsConfig, ConfigIsClient
  <2>3. ASSUME IsPlain(given.string), NEW setting \in TextSettings, ~LeftOver(setting)
        PROVE  client[setting] = Promised(setting)
    <3>1. client[setting] = config[setting]
      BY <2>1, <2>3, TextSettingsAreSettings, ClientIsConfig
    <3>2. config[setting] = Promised(setting)  BY <2>3, PromiseIsKept
    <3>. QED  BY <3>1, <3>2
  <2>. QED  BY Zenon, <2>2, <2>3 DEF ConnectedAsGiven
<1>2. Init => GivenInv  BY GivenInit DEF Init
<1>. QED  BY <1>1, <1>2, GivenStep, RoundInit, RoundStep, CompleteInit, CompleteStep, PTL
          DEF Spec
=============================================================================

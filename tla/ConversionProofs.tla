-------------------------- MODULE ConversionProofs --------------------------
(***************************************************************************)
(* The texts and values handed to the application, and the diagnostics,    *)
(* for all values, charsets, bindings, messages and sizes of a buffer.     *)
(*                                                                         *)
(* What a text takes is the sum over its characters: the fold that says so *)
(* exists, and a longer beginning of a text takes more by one character.   *)
(* What fits is then the longest beginning with room for it.               *)
(***************************************************************************)
EXTENDS ValueConversion, SequenceTheorems, WellFoundedInduction, TLAPS

-----------------------------------------------------------------------------
(* First and last of a set of numbers                                      *)

LEMMA FirstExists ==
  ASSUME NEW S \in SUBSET Nat, S # {}
  PROVE  \E m \in S : \A n \in S : m <= n
<1>1. PICK m \in S : \A n \in S : ~(<<n, m>> \in OpToRel(<, Nat))
  BY NatLessThanWellFounded, WFMin
<1>2. ASSUME NEW n \in S
      PROVE  m <= n
  <2>1. n \in Nat /\ m \in Nat
    OBVIOUS
  <2>2. n < m => <<n, m>> \in OpToRel(<, Nat)
    BY <2>1 DEF OpToRel
  <2>3. ~(n < m)
    BY Zenon, <1>1, <2>2
  <2> QED
    BY <2>1, <2>3
<1> QED
  BY <1>2

LEMMA MaxIsLast ==
  ASSUME NEW N \in Nat, NEW S \in SUBSET (0 .. N), S # {}
  PROVE  Max(S) \in S /\ \A n \in S : n <= Max(S)
<1> DEFINE D == {N - n : n \in S}
<1>1. D \in SUBSET Nat /\ D # {}
  <2>1. \A n \in S : N - n \in Nat
    OBVIOUS
  <2>2. PICK n \in S : TRUE
    OBVIOUS
  <2>3. N - n \in D
    OBVIOUS
  <2> QED
    BY Zenon, <2>1, <2>3
<1>2. PICK d \in D : \A e \in D : d <= e
  BY <1>1, FirstExists
<1>3. PICK m \in S : d = N - m
  OBVIOUS
<1>4. \A n \in S : m >= n
  <2> SUFFICES ASSUME NEW n \in S PROVE m >= n
    OBVIOUS
  <2>1. N - m <= N - n
    BY <1>2, <1>3
  <2>2. m \in 0 .. N /\ n \in 0 .. N
    OBVIOUS
  <2> QED
    BY <2>1, <2>2
<1>5. Max(S) \in S /\ \A n \in S : Max(S) >= n
  BY <1>4 DEF Max
<1> QED
  BY <1>5

LEMMA MaxOfInterval ==
  ASSUME NEW n \in Nat, NEW S \in SUBSET (1 .. n + 1), n + 1 \in S
  PROVE  Max(S) = n + 1
<1>1. \A y \in S : n + 1 >= y
  OBVIOUS
<1>2. \A x \in S : (\A y \in S : x >= y) => x = n + 1
  OBVIOUS
<1> QED
  BY <1>1, <1>2 DEF Max

LEMMA IntervalUpTo ==
  ASSUME NEW n \in Nat, NEW k \in 1 .. n
  PROVE  /\ 1 .. k \in SUBSET (1 .. n) /\ 1 .. k # {}
         /\ Max(1 .. k) = k
         /\ (1 .. k) \ {Max(1 .. k)} = 1 .. k - 1
<1>1. k \in 1 .. k /\ \A j \in 1 .. k : j \in 1 .. n
  OBVIOUS
<1>2. k - 1 \in Nat /\ (1 .. k) \in SUBSET (1 .. (k - 1) + 1) /\ (k - 1) + 1 = k
  OBVIOUS
<1>3. Max(1 .. k) = k
  BY <1>1, <1>2, MaxOfInterval
<1>4. (1 .. k) \ {k} = 1 .. k - 1
  OBVIOUS
<1> QED
  BY Zenon, <1>1, <1>3, <1>4

-----------------------------------------------------------------------------
(* What a text takes                                                       *)

IsSum(iter, size, text, n) ==
  iter = [s \in SUBSET (1 .. n) |->
            IF s = {} THEN 0 ELSE iter[s \ {Max(s)}] + size[text[Max(s)]]]

LEMMA SumExists ==
  ASSUME NEW size, NEW text, NEW N \in Nat
  PROVE  \E iter : IsSum(iter, size, text, N)
<1> DEFINE Bad == {n \in Nat : ~\E iter : IsSum(iter, size, text, n)}
<1> SUFFICES ASSUME Bad # {} PROVE FALSE
  OBVIOUS
<1>1. PICK m \in Bad : \A n \in Bad : m <= n
  BY FirstExists
<1>2. m # 0
  <2>1. IsSum([s \in SUBSET (1 .. 0) |-> 0], size, text, 0)
    <3>1. \A s \in SUBSET (1 .. 0) : s = {}
      OBVIOUS
    <3> QED
      BY Zenon, <3>1 DEF IsSum
  <2> QED
    BY <2>1
<1>3. m - 1 \in Nat /\ m - 1 \notin Bad
  BY <1>1, <1>2
<1>4. PICK iter : IsSum(iter, size, text, m - 1)
  BY <1>3
<1> DEFINE Sum(s) == iter[s \ {Max(s)}] + size[text[Max(s)]]
           more == [s \in SUBSET (1 .. m) |-> IF m \in s THEN Sum(s) ELSE iter[s]]
<1>5. ASSUME NEW s \in SUBSET (1 .. m)
      PROVE  more[s] = IF s = {} THEN 0 ELSE more[s \ {Max(s)}] + size[text[Max(s)]]
  <2>1. CASE m \in s
    <3>1. Max(s) = m
      BY <1>3, <2>1, MaxOfInterval
    <3>2. s \ {m} \in SUBSET (1 .. m)
      OBVIOUS
    <3>3. more[s \ {m}] = iter[s \ {m}]
      BY <3>2
    <3>4. more[s] = Sum(s)
      BY <2>1
    <3> QED
      BY Zenon, <2>1, <3>1, <3>3, <3>4
  <2>2. CASE m \notin s
    <3>1. s \in SUBSET (1 .. m - 1)
      BY <1>3, <2>2
    <3>2. more[s] = iter[s]
      BY <2>2
    <3>3. iter[s] = IF s = {} THEN 0 ELSE Sum(s)
      BY Zenon, <1>4, <3>1 DEF IsSum
    <3>4. ASSUME s # {}
          PROVE  more[s \ {Max(s)}] = iter[s \ {Max(s)}]
      <4>1. s \ {Max(s)} \in SUBSET (1 .. m) /\ m \notin s \ {Max(s)}
        BY <2>2
      <4> QED
        BY <4>1
    <3> QED
      BY Zenon, <3>2, <3>3, <3>4
  <2> QED
    BY <2>1, <2>2
<1>6. more = [s \in SUBSET (1 .. m) |->
                IF s = {} THEN 0 ELSE more[s \ {Max(s)}] + size[text[Max(s)]]]
  <2> HIDE DEF Sum
  <2> QED
    BY Zenon, <1>5
<1>7. IsSum(more, size, text, m)
  <2> HIDE DEF more
  <2> QED
    BY Zenon, <1>6 DEF IsSum
<1>8. m \notin Bad
  <2> HIDE DEF more
  <2> QED
    BY <1>7
<1> QED
  BY <1>1, <1>8

LEMMA TakenUnfolds ==
  ASSUME NEW size, NEW T, NEW text \in Seq(T)
  PROVE  \E f : /\ f[0] = 0
                /\ \A k \in 1 .. Len(text) : f[k] = f[k - 1] + size[text[k]]
                /\ Taken(size, text) = f[Len(text)]
<1>1. Len(text) \in Nat /\ DOMAIN text = 1 .. Len(text)
  OBVIOUS
<1> DEFINE iter == CHOOSE g : IsSum(g, size, text, Len(text))
           f == [k \in 0 .. Len(text) |-> iter[1 .. k]]
<1>2. IsSum(iter, size, text, Len(text))
  BY <1>1, SumExists
<1>3. Taken(size, text) = iter[DOMAIN text]
  BY Zenon, <1>1 DEF Taken, FoldLeft, MapThenFoldSet, IsSum
<1> HIDE DEF iter
<1>4. f[0] = 0
  <2>1. 1 .. 0 = {} /\ 0 \in 0 .. Len(text)
    BY <1>1
  <2>2. f[0] = iter[1 .. 0]
    BY <2>1
  <2> QED
    BY Zenon, <1>2, <2>1, <2>2 DEF IsSum
<1>5. ASSUME NEW k \in 1 .. Len(text)
      PROVE  f[k] = f[k - 1] + size[text[k]]
  <2>1. f[k] = iter[1 .. k] /\ f[k - 1] = iter[1 .. k - 1]
    BY <1>1
  <2> HIDE DEF f
  <2>2. 1 .. k \in SUBSET (1 .. Len(text)) /\ 1 .. k # {}
    BY <1>1, IntervalUpTo
  <2>3. Max(1 .. k) = k /\ (1 .. k) \ {Max(1 .. k)} = 1 .. k - 1
    BY <1>1, IntervalUpTo
  <2>4. iter[1 .. k] = iter[(1 .. k) \ {Max(1 .. k)}] + size[text[Max(1 .. k)]]
    BY Zenon, <1>2, <2>2 DEF IsSum
  <2> QED
    BY Zenon, <2>1, <2>3, <2>4
<1>6. Taken(size, text) = f[Len(text)]
  <2>1. f[Len(text)] = iter[1 .. Len(text)]
    BY <1>1
  <2> HIDE DEF f
  <2> QED
    BY Zenon, <1>1, <1>3, <2>1
<1> HIDE DEF f
<1> QED
  BY Zenon, <1>4, <1>5, <1>6

\* What the first characters of a text take.
FirstTake(size, text, k) == Taken(size, SubSeq(text, 1, k))

Sizes == [1 .. 4 -> Nat]

LEMMA Prefix ==
  ASSUME NEW text \in Text, NEW k \in 0 .. Len(text)
  PROVE  /\ SubSeq(text, 1, k) \in Text
         /\ Len(SubSeq(text, 1, k)) = k
         /\ \A j \in 1 .. k : SubSeq(text, 1, k)[j] = text[j] /\ text[j] \in 1 .. 4
<1>1. text \in Seq(1 .. 4)
  BY DEF Text
<1>2. SubSeq(text, 1, k) \in Seq(1 .. 4) /\ Len(SubSeq(text, 1, k)) = k
  BY <1>1
<1>3. \A j \in 1 .. k : SubSeq(text, 1, k)[j] = text[j]
  BY <1>1
<1>4. \A j \in 1 .. k : text[j] \in 1 .. 4
  BY <1>1
<1> QED
  BY <1>2, <1>3, <1>4 DEF Text

LEMMA WholePrefix ==
  ASSUME NEW text \in Text
  PROVE  Len(text) \in Nat /\ SubSeq(text, 1, Len(text)) = text
BY DEF Text

\* One character more takes as much more as that character.
LEMMA TakenStep ==
  ASSUME NEW size \in Sizes, NEW text \in Text, NEW k \in 1 .. Len(text)
  PROVE  FirstTake(size, text, k) = FirstTake(size, text, k - 1) + size[text[k]]
<1> DEFINE p == SubSeq(text, 1, k)
           q == SubSeq(text, 1, k - 1)
<1>1. Len(text) \in Nat /\ k \in 0 .. Len(text) /\ k - 1 \in 0 .. Len(text) /\ k \in Nat
  BY WholePrefix
<1>2. /\ p \in Seq(1 .. 4) /\ Len(p) = k
      /\ q \in Seq(1 .. 4) /\ Len(q) = k - 1
      /\ \A j \in 1 .. k : p[j] = text[j]
      /\ \A j \in 1 .. k - 1 : q[j] = text[j]
  BY <1>1, Prefix DEF Text
<1> HIDE DEF p, q
<1>3. PICK f : /\ f[0] = 0
               /\ \A j \in 1 .. Len(p) : f[j] = f[j - 1] + size[p[j]]
               /\ Taken(size, p) = f[Len(p)]
  <2>1. p \in Seq(1 .. 4)
    BY <1>2
  <2> QED
    BY <2>1, TakenUnfolds
<1>4. PICK g : /\ g[0] = 0
               /\ \A j \in 1 .. Len(q) : g[j] = g[j - 1] + size[q[j]]
               /\ Taken(size, q) = g[Len(q)]
  <2>1. q \in Seq(1 .. 4)
    BY <1>2
  <2> QED
    BY <2>1, TakenUnfolds
<1>5. \A j \in 0 .. k - 1 : f[j] = g[j]
  <2> DEFINE Bad == {j \in 0 .. k - 1 : f[j] # g[j]}
  <2> SUFFICES ASSUME Bad # {} PROVE FALSE
    OBVIOUS
  <2>1. Bad \in SUBSET Nat
    BY <1>1
  <2>2. PICK j \in Bad : \A n \in Bad : j <= n
    BY <2>1, FirstExists
  <2>3. j # 0
    BY <1>3, <1>4
  <2>4. j \in 1 .. k - 1 /\ j \in 1 .. k /\ j - 1 \in 0 .. k - 1 /\ j - 1 \notin Bad
    BY <1>1, <2>2, <2>3
  <2>5. f[j - 1] = g[j - 1]
    BY <2>4
  <2>6. f[j] = f[j - 1] + size[text[j]]
    BY <1>2, <1>3, <2>4
  <2>7. g[j] = g[j - 1] + size[text[j]]
    BY <1>2, <1>4, <2>4
  <2> QED
    BY <2>2, <2>5, <2>6, <2>7
<1>6. f[k] = f[k - 1] + size[p[k]] /\ p[k] = text[k] /\ f[k - 1] = g[k - 1]
  BY <1>1, <1>2, <1>3, <1>5
<1>7. Taken(size, p) = f[k] /\ Taken(size, q) = g[k - 1]
  BY <1>2, <1>3, <1>4
<1> QED
  BY Zenon, <1>6, <1>7 DEF FirstTake, p, q

LEMMA TakenNothing ==
  ASSUME NEW size, NEW text \in Text
  PROVE  FirstTake(size, text, 0) = 0
<1> DEFINE none == SubSeq(text, 1, 0)
<1>1. none \in Seq(1 .. 4) /\ Len(none) = 0
  BY Prefix, WholePrefix DEF Text
<1> HIDE DEF none
<1>2. PICK f : /\ f[0] = 0
               /\ \A k \in 1 .. Len(none) : f[k] = f[k - 1] + size[none[k]]
               /\ Taken(size, none) = f[Len(none)]
  BY <1>1, TakenUnfolds
<1> QED
  BY Zenon, <1>1, <1>2 DEF FirstTake, none

LEMMA TakenIsNat ==
  ASSUME NEW size \in Sizes, NEW text \in Text
  PROVE  /\ \A k \in 0 .. Len(text) : FirstTake(size, text, k) \in Nat
         /\ Taken(size, text) \in Nat
         /\ FirstTake(size, text, Len(text)) = Taken(size, text)
<1>1. \A k \in 0 .. Len(text) : FirstTake(size, text, k) \in Nat
  <2> DEFINE Bad == {k \in 0 .. Len(text) : FirstTake(size, text, k) \notin Nat}
  <2> SUFFICES ASSUME Bad # {} PROVE FALSE
    OBVIOUS
  <2>1. Bad \in SUBSET Nat
    OBVIOUS
  <2>2. PICK k \in Bad : \A n \in Bad : k <= n
    BY <2>1, FirstExists
  <2>3. k # 0
    BY TakenNothing
  <2>4. k \in 1 .. Len(text) /\ k - 1 \in 0 .. Len(text) /\ k - 1 \notin Bad
    BY <2>2, <2>3, WholePrefix
  <2>5. FirstTake(size, text, k - 1) \in Nat
    BY <2>4
  <2>6. size[text[k]] \in Nat
    BY <2>4 DEF Sizes, Text
  <2>7. FirstTake(size, text, k) = FirstTake(size, text, k - 1) + size[text[k]]
    BY <2>4, TakenStep
  <2> QED
    BY <2>2, <2>5, <2>6, <2>7
<1>2. FirstTake(size, text, Len(text)) = Taken(size, text)
  BY WholePrefix DEF FirstTake
<1>3. Len(text) \in 0 .. Len(text)
  BY WholePrefix
<1> QED
  BY <1>1, <1>2, <1>3

\* The charset of every text and its UTF-16.
LEMMA SizesOfUnicode ==
  /\ UTF8 \in Sizes /\ UTF16 \in Sizes
  /\ \A c \in 1 .. 4 : UTF8[c] # 0 /\ UTF8[c] >= 1 /\ UTF16[c] <= UTF8[c]
BY DEF UTF8, UTF16, Sizes

LEMMA UnitsBelowBytes ==
  ASSUME NEW text \in Text
  PROVE  \A k \in 0 .. Len(text) : FirstTake(UTF16, text, k) <= FirstTake(UTF8, text, k)
<1> DEFINE Bad ==
      {k \in 0 .. Len(text) : ~(FirstTake(UTF16, text, k) <= FirstTake(UTF8, text, k))}
<1> SUFFICES ASSUME Bad # {} PROVE FALSE
  OBVIOUS
<1>1. Bad \in SUBSET Nat
  OBVIOUS
<1>2. PICK k \in Bad : \A n \in Bad : k <= n
  BY <1>1, FirstExists
<1>3. k # 0
  BY TakenNothing
<1>4. k \in 1 .. Len(text) /\ k - 1 \in 0 .. Len(text) /\ k - 1 \notin Bad
  BY <1>2, <1>3, WholePrefix
<1>5. FirstTake(UTF16, text, k - 1) <= FirstTake(UTF8, text, k - 1)
  BY <1>4
<1>6. /\ FirstTake(UTF16, text, k - 1) \in Nat /\ FirstTake(UTF8, text, k - 1) \in Nat
  BY <1>4, TakenIsNat, SizesOfUnicode
<1>7. text[k] \in 1 .. 4
  BY <1>4 DEF Text
<1>8. UTF16[text[k]] <= UTF8[text[k]] /\ UTF16[text[k]] \in Nat /\ UTF8[text[k]] \in Nat
  BY <1>7, SizesOfUnicode DEF Sizes
<1>9. /\ FirstTake(UTF16, text, k) = FirstTake(UTF16, text, k - 1) + UTF16[text[k]]
      /\ FirstTake(UTF8, text, k) = FirstTake(UTF8, text, k - 1) + UTF8[text[k]]
  BY <1>4, TakenStep, SizesOfUnicode
<1>10. FirstTake(UTF16, text, k) <= FirstTake(UTF8, text, k)
  BY <1>5, <1>6, <1>8, <1>9
<1> QED
  BY <1>2, <1>10

-----------------------------------------------------------------------------
(* What fits                                                               *)

LEMMA FittingIsLongest ==
  ASSUME NEW size \in Sizes, NEW text \in Text, NEW room \in Nat
  PROVE  \E m \in 0 .. Len(text) :
           /\ Fitting(text, size, room) = SubSeq(text, 1, m)
           /\ FirstTake(size, text, m) <= room
           /\ \A k \in 0 .. Len(text) : FirstTake(size, text, k) <= room => k <= m
<1> DEFINE fit == {k \in 0 .. Len(text) : FirstTake(size, text, k) <= room}
<1>1. Len(text) \in Nat /\ 0 \in fit
  BY TakenNothing, WholePrefix
<1>2. Max(fit) \in fit /\ \A k \in fit : k <= Max(fit)
  BY <1>1, MaxIsLast
<1>3. Fitting(text, size, room) = SubSeq(text, 1, Max(fit))
  BY DEF Fitting, FirstTake
<1> QED
  BY <1>2, <1>3

LEMMA FittingFits ==
  ASSUME NEW size \in Sizes, NEW text \in Text, NEW room \in Nat
  PROVE  LET written == Fitting(text, size, room)
         IN  /\ written \in Text /\ IsPrefix(written, text)
             /\ Taken(size, written) \in Nat /\ Taken(size, written) <= room
             /\ Taken(size, text) <= room => written = text
<1>1. PICK m \in 0 .. Len(text) :
        /\ Fitting(text, size, room) = SubSeq(text, 1, m)
        /\ FirstTake(size, text, m) <= room
        /\ \A k \in 0 .. Len(text) : FirstTake(size, text, k) <= room => k <= m
  BY FittingIsLongest
<1>2. FirstTake(size, text, m) \in Nat
  BY TakenIsNat
<1>3. Fitting(text, size, room) \in Text /\ Len(Fitting(text, size, room)) = m
  BY <1>1, Prefix
<1>4. IsPrefix(Fitting(text, size, room), text)
  <2>1. SubSeq(SubSeq(text, 1, m), 1, m) = SubSeq(text, 1, m)
    BY <1>1, <1>3, WholePrefix
  <2>2. m <= Len(text)
    OBVIOUS
  <2> QED
    BY <1>1, <1>3, <2>1, <2>2 DEF IsPrefix
<1>5. Taken(size, text) <= room => Fitting(text, size, room) = text
  <2> SUFFICES ASSUME Taken(size, text) <= room
               PROVE  SubSeq(text, 1, m) = text
    BY <1>1
  <2>1. Len(text) \in Nat /\ Len(text) \in 0 .. Len(text)
        /\ FirstTake(size, text, Len(text)) = Taken(size, text)
    BY TakenIsNat, WholePrefix
  <2>2. Len(text) <= m
    BY <1>1, <2>1
  <2>3. m = Len(text)
    BY <2>1, <2>2
  <2> QED
    BY <2>3, WholePrefix
<1> QED
  BY <1>1, <1>2, <1>3, <1>4, <1>5 DEF FirstTake

\* A wide buffer that is a unit short of the bytes of the text in UTF-8 takes all of
\* it but at most the last character.
LEMMA WideKeepsAllButOne ==
  ASSUME NEW text \in Text, NEW room \in Nat, Bytes(text) <= room + 1
  PROVE  LET written == Fitting(text, UTF16, room)
         IN  written = text \/ Len(written) + 1 = Len(text)
<1>1. PICK m \in 0 .. Len(text) :
        /\ Fitting(text, UTF16, room) = SubSeq(text, 1, m)
        /\ \A k \in 0 .. Len(text) : FirstTake(UTF16, text, k) <= room => k <= m
  BY FittingIsLongest, SizesOfUnicode
<1>2. Len(text) \in Nat /\ Len(SubSeq(text, 1, m)) = m
  BY Prefix, WholePrefix
<1>3. CASE Len(text) = 0
  <2>1. m = Len(text)
    BY <1>3
  <2> QED
    BY <1>1, <2>1, WholePrefix
<1>4. CASE Len(text) # 0
  <2> DEFINE n == Len(text)
  <2>1. n \in 1 .. n /\ n - 1 \in 0 .. n /\ n \in 0 .. n
    BY <1>2, <1>4
  <2>2. FirstTake(UTF8, text, n) = FirstTake(UTF8, text, n - 1) + UTF8[text[n]]
    BY <2>1, TakenStep, SizesOfUnicode
  <2>3. UTF8[text[n]] \in Nat /\ UTF8[text[n]] >= 1
    <3>1. text[n] \in 1 .. 4
      BY <2>1 DEF Text
    <3> QED
      BY <3>1, SizesOfUnicode DEF Sizes
  <2>4. /\ FirstTake(UTF8, text, n - 1) \in Nat /\ FirstTake(UTF16, text, n - 1) \in Nat
        /\ FirstTake(UTF8, text, n) = Bytes(text)
    BY <2>1, TakenIsNat, SizesOfUnicode DEF Bytes
  <2>5. FirstTake(UTF16, text, n - 1) <= FirstTake(UTF8, text, n - 1)
    BY <2>1, UnitsBelowBytes
  <2>6. FirstTake(UTF16, text, n - 1) <= room
    BY <2>2, <2>3, <2>4, <2>5
  <2>7. n - 1 <= m
    BY <1>1, <2>1, <2>6
  <2>8. m = n \/ m + 1 = n
    BY <1>2, <2>7
  <2> QED
    BY <1>1, <1>2, <2>8, WholePrefix
<1> QED
  BY <1>3, <1>4

-----------------------------------------------------------------------------
(* What a charset has of a text                                            *)

With(cs, known, c) == IF cs[c] # 0 THEN Append(known, c) ELSE known

IsKnown(iter, cs, text, n) ==
  iter = [s \in SUBSET (1 .. n) |->
            IF s = {} THEN << >> ELSE With(cs, iter[s \ {Max(s)}], text[Max(s)])]

LEMMA KnownExists ==
  ASSUME NEW cs, NEW text, NEW N \in Nat
  PROVE  \E iter : IsKnown(iter, cs, text, N)
<1> DEFINE Bad == {n \in Nat : ~\E iter : IsKnown(iter, cs, text, n)}
<1> SUFFICES ASSUME Bad # {} PROVE FALSE
  OBVIOUS
<1>1. PICK m \in Bad : \A n \in Bad : m <= n
  BY FirstExists
<1>2. m # 0
  <2>1. IsKnown([s \in SUBSET (1 .. 0) |-> << >>], cs, text, 0)
    <3>1. \A s \in SUBSET (1 .. 0) : s = {}
      OBVIOUS
    <3> QED
      BY Zenon, <3>1 DEF IsKnown
  <2> QED
    BY <2>1
<1>3. m - 1 \in Nat /\ m - 1 \notin Bad
  BY <1>1, <1>2
<1>4. PICK iter : IsKnown(iter, cs, text, m - 1)
  BY <1>3
<1> DEFINE Longer(s) == With(cs, iter[s \ {Max(s)}], text[Max(s)])
           more == [s \in SUBSET (1 .. m) |-> IF m \in s THEN Longer(s) ELSE iter[s]]
<1>5. ASSUME NEW s \in SUBSET (1 .. m)
      PROVE  more[s] = IF s = {} THEN << >> ELSE With(cs, more[s \ {Max(s)}], text[Max(s)])
  <2>1. CASE m \in s
    <3>1. Max(s) = m
      BY <1>3, <2>1, MaxOfInterval
    <3>2. s \ {m} \in SUBSET (1 .. m)
      OBVIOUS
    <3>3. more[s \ {m}] = iter[s \ {m}]
      BY <3>2
    <3>4. more[s] = Longer(s)
      BY <2>1
    <3> QED
      BY Zenon, <2>1, <3>1, <3>3, <3>4
  <2>2. CASE m \notin s
    <3>1. s \in SUBSET (1 .. m - 1)
      BY <1>3, <2>2
    <3>2. more[s] = iter[s]
      BY <2>2
    <3>3. iter[s] = IF s = {} THEN << >> ELSE Longer(s)
      BY Zenon, <1>4, <3>1 DEF IsKnown
    <3>4. ASSUME s # {}
          PROVE  more[s \ {Max(s)}] = iter[s \ {Max(s)}]
      <4>1. s \ {Max(s)} \in SUBSET (1 .. m) /\ m \notin s \ {Max(s)}
        BY <2>2
      <4> QED
        BY <4>1
    <3> QED
      BY Zenon, <3>2, <3>3, <3>4
  <2> QED
    BY <2>1, <2>2
<1>6. more = [s \in SUBSET (1 .. m) |->
                IF s = {} THEN << >> ELSE With(cs, more[s \ {Max(s)}], text[Max(s)])]
  <2> HIDE DEF Longer
  <2> QED
    BY Zenon, <1>5
<1>7. IsKnown(more, cs, text, m)
  <2> HIDE DEF more
  <2> QED
    BY Zenon, <1>6 DEF IsKnown
<1>8. m \notin Bad
  <2> HIDE DEF more
  <2> QED
    BY <1>7
<1> QED
  BY <1>1, <1>8

LEMMA RepresentableUnfolds ==
  ASSUME NEW cs, NEW T, NEW text \in Seq(T)
  PROVE  \E f : /\ f[0] = << >>
                /\ \A k \in 1 .. Len(text) : f[k] = With(cs, f[k - 1], text[k])
                /\ Representable(cs, text) = f[Len(text)]
<1>1. Len(text) \in Nat /\ DOMAIN text = 1 .. Len(text)
  OBVIOUS
<1> DEFINE iter == CHOOSE g : IsKnown(g, cs, text, Len(text))
           f == [k \in 0 .. Len(text) |-> iter[1 .. k]]
<1>2. IsKnown(iter, cs, text, Len(text))
  BY <1>1, KnownExists
<1>3. Representable(cs, text) = iter[DOMAIN text]
  BY Zenon, <1>1 DEF Representable, With, FoldLeft, MapThenFoldSet, IsKnown
<1> HIDE DEF iter
<1>4. f[0] = << >>
  <2>1. 1 .. 0 = {} /\ 0 \in 0 .. Len(text)
    BY <1>1
  <2>2. f[0] = iter[1 .. 0]
    BY <2>1
  <2> QED
    BY Zenon, <1>2, <2>1, <2>2 DEF IsKnown
<1>5. ASSUME NEW k \in 1 .. Len(text)
      PROVE  f[k] = With(cs, f[k - 1], text[k])
  <2>1. f[k] = iter[1 .. k] /\ f[k - 1] = iter[1 .. k - 1]
    BY <1>1
  <2> HIDE DEF f
  <2>2. 1 .. k \in SUBSET (1 .. Len(text)) /\ 1 .. k # {}
    BY <1>1, IntervalUpTo
  <2>3. Max(1 .. k) = k /\ (1 .. k) \ {Max(1 .. k)} = 1 .. k - 1
    BY <1>1, IntervalUpTo
  <2>4. iter[1 .. k] = With(cs, iter[(1 .. k) \ {Max(1 .. k)}], text[Max(1 .. k)])
    BY Zenon, <1>2, <2>2 DEF IsKnown
  <2> QED
    BY Zenon, <2>1, <2>3, <2>4
<1>6. Representable(cs, text) = f[Len(text)]
  <2>1. f[Len(text)] = iter[1 .. Len(text)]
    BY <1>1
  <2> HIDE DEF f
  <2> QED
    BY Zenon, <1>1, <1>3, <2>1
<1> HIDE DEF f
<1> QED
  BY Zenon, <1>4, <1>5, <1>6

LEMMA RepresentableIsText ==
  ASSUME NEW cs, NEW text \in Text
  PROVE  /\ Representable(cs, text) \in Text
         /\ (\A c \in 1 .. 4 : cs[c] # 0) => Representable(cs, text) = text
<1>1. text \in Seq(1 .. 4) /\ Len(text) \in Nat
  BY DEF Text
<1>2. PICK f : /\ f[0] = << >>
               /\ \A k \in 1 .. Len(text) : f[k] = With(cs, f[k - 1], text[k])
               /\ Representable(cs, text) = f[Len(text)]
  BY <1>1, RepresentableUnfolds
<1>3. \A k \in 0 .. Len(text) : f[k] \in Seq(1 .. 4)
  <2> DEFINE Bad == {k \in 0 .. Len(text) : f[k] \notin Seq(1 .. 4)}
  <2> SUFFICES ASSUME Bad # {} PROVE FALSE
    OBVIOUS
  <2>1. Bad \in SUBSET Nat
    OBVIOUS
  <2>2. PICK k \in Bad : \A n \in Bad : k <= n
    BY <2>1, FirstExists
  <2>3. k # 0
    <3>1. << >> \in Seq(1 .. 4)
      OBVIOUS
    <3>2. f[0] \in Seq(1 .. 4)
      BY Zenon, <1>2, <3>1
    <3> QED
      BY Zenon, <3>2
  <2>4. k \in 1 .. Len(text) /\ k - 1 \in 0 .. Len(text) /\ k - 1 \notin Bad
    BY <1>1, <2>2, <2>3
  <2>5. f[k - 1] \in Seq(1 .. 4) /\ text[k] \in 1 .. 4
    BY <1>1, <2>4
  <2>6. f[k] = With(cs, f[k - 1], text[k])
    BY <1>2, <2>4
  <2>7. With(cs, f[k - 1], text[k]) \in Seq(1 .. 4)
    BY <2>5 DEF With
  <2> QED
    BY <2>2, <2>6, <2>7
<1>4. ASSUME \A c \in 1 .. 4 : cs[c] # 0
      PROVE  \A k \in 0 .. Len(text) : f[k] = SubSeq(text, 1, k)
  <2> DEFINE Bad == {k \in 0 .. Len(text) : f[k] # SubSeq(text, 1, k)}
  <2> SUFFICES ASSUME Bad # {} PROVE FALSE
    OBVIOUS
  <2>1. Bad \in SUBSET Nat
    OBVIOUS
  <2>2. PICK k \in Bad : \A n \in Bad : k <= n
    BY <2>1, FirstExists
  <2>3. k # 0
    <3>1. SubSeq(text, 1, 0) = << >>
      BY <1>1
    <3>2. f[0] = SubSeq(text, 1, 0)
      BY Zenon, <1>2, <3>1
    <3>3. 0 \notin Bad
      BY Zenon, <3>2
    <3> QED
      BY Zenon, <2>2, <3>3
  <2>4. k \in 1 .. Len(text) /\ k - 1 \in 0 .. Len(text) /\ k - 1 \notin Bad
    BY <1>1, <2>2, <2>3
  <2>5. f[k] = Append(SubSeq(text, 1, k - 1), text[k])
    <3>1. f[k - 1] = SubSeq(text, 1, k - 1) /\ text[k] \in 1 .. 4
      BY <1>1, <2>4
    <3>2. f[k] = With(cs, f[k - 1], text[k])
      BY <1>2, <2>4
    <3> QED
      BY <1>4, <3>1, <3>2 DEF With
  <2>6. Append(SubSeq(text, 1, k - 1), text[k]) = SubSeq(text, 1, k)
    BY <1>1, <2>4
  <2> QED
    BY <2>2, <2>5, <2>6
<1>5. Len(text) \in 0 .. Len(text)
  BY <1>1
<1>6. Representable(cs, text) \in Text
  BY <1>2, <1>3, <1>5 DEF Text
<1>7. (\A c \in 1 .. 4 : cs[c] # 0) => Representable(cs, text) = text
  <2>1. SubSeq(text, 1, Len(text)) = text
    BY <1>1
  <2> QED
    BY <1>2, <1>4, <1>5, <2>1
<1> QED
  BY <1>6, <1>7

-----------------------------------------------------------------------------
(* What the calls write                                                    *)

LEMMA NothingIsPrefix ==
  ASSUME NEW text \in Text
  PROVE  << >> \in Text /\ IsPrefix(<< >>, text)
<1>1. text \in Seq(1 .. 4) /\ Len(text) \in Nat /\ << >> \in Seq(1 .. 4)
  BY DEF Text
<1>2. Len(<< >>) = 0 /\ Len(<< >>) <= Len(text)
  BY <1>1
<1>3. SubSeq(<< >>, 1, 0) = << >> /\ SubSeq(text, 1, 0) = << >>
  BY <1>1
<1> QED
  BY <1>1, <1>2, <1>3 DEF IsPrefix, Text

LEMMA SelfIsPrefix ==
  ASSUME NEW text \in Text
  PROVE  IsPrefix(text, text)
BY WholePrefix DEF IsPrefix

\* A cast to a SQLSMALLINT keeps what is one, and makes negative what is a little more.
LEMMA SmallIntKept ==
  ASSUME NEW n \in 0 .. LengthMax
  PROVE  AsSmallInt(n) = n
<1>1. LengthMax \in Nat
  BY LengthAssumption
<1> DEFINE x == n + LengthMax + 1
           d == 2 * (LengthMax + 1)
<1>2. x \in Nat /\ d \in Nat \ {0} /\ x < d
  BY <1>1
<1> HIDE DEF x, d
<1>3. x % d = x
  BY <1>2
<1> QED
  BY <1>1, <1>3 DEF AsSmallInt, x, d

LEMMA SmallIntIsInt ==
  ASSUME NEW n \in Int
  PROVE  AsSmallInt(n) \in Int
<1>1. LengthMax \in Nat
  BY LengthAssumption
<1> DEFINE x == n + LengthMax + 1
           d == 2 * (LengthMax + 1)
<1>2. x \in Int /\ d \in Nat \ {0}
  BY <1>1
<1> HIDE DEF x, d
<1>3. x % d \in Int
  BY <1>2
<1> QED
  BY <1>1, <1>3 DEF AsSmallInt, x, d

LEMMA SmallIntWraps ==
  ASSUME NEW n \in LengthMax + 1 .. 2 * LengthMax
  PROVE  AsSmallInt(n) < 0
<1>1. LengthMax \in Nat
  BY LengthAssumption
<1> DEFINE x == n + LengthMax + 1
           d == 2 * (LengthMax + 1)
           r == x - d
<1>2. x \in Nat /\ d \in Nat \ {0} /\ r \in Nat /\ r < d /\ x = d * 1 + r
  BY <1>1
<1> HIDE DEF x, d, r
<1>3. x % d = r
  BY ONLY <1>2
<1>4. r - LengthMax - 1 < 0
  BY <1>1 DEF x, d, r
<1> QED
  BY <1>3, <1>4 DEF AsSmallInt, x, d

LEMMA WideOut ==
  ASSUME NEW text \in Text, NEW size \in Int
  PROVE  LET out == StdStringToOdbcWString(text, size)
         IN  /\ IsPrefix(out.text, text)
             /\ size <= 0 => out.used = 0
             /\ size > 1 => out.used <= size
             /\ size > 0 /\ 2 * Bytes(text) <= size =>
                  out.text = text \/ Len(out.text) + 1 = Len(text)
<1>1. CASE size <= 0
  BY <1>1, NothingIsPrefix DEF StdStringToOdbcWString, Nothing
<1>2. CASE size > 0
  <2> DEFINE room == RoomFor(text, size)
             written == Fitting(text, UTF16, room)
             length == AsSmallInt(2 * Units(written))
  <2>1. Bytes(text) \in Nat /\ Units(text) \in Nat
    BY TakenIsNat, SizesOfUnicode DEF Bytes, Units
  <2>2. CASE size = 1
    <3>1. room = Units(text)
      BY <2>2 DEF RoomFor
    <3> HIDE DEF room
    <3>2. written = text
      BY <2>1, <3>1, FittingFits, SizesOfUnicode DEF Units
    <3>3. StdStringToOdbcWString(text, size).text = written
      BY <1>2 DEF StdStringToOdbcWString, Utf8ToUtf16, room
    <3> HIDE DEF written
    <3> QED
      BY <1>2, <2>2, <3>2, <3>3, SelfIsPrefix
  <2>3. CASE size # 1
    <3>1. room = size \div 2 - 1
      BY <1>2, <2>3 DEF RoomFor
    <3> HIDE DEF room
    <3>2. room \in Nat /\ 2 * (room + 1) <= size
          /\ \A n \in Nat : 2 * n <= size => n <= room + 1
      BY <1>2, <2>3, <3>1
    <3>3. IsPrefix(written, text) /\ Units(written) \in Nat /\ Units(written) <= room
      BY <3>2, FittingFits, SizesOfUnicode DEF Units
    <3>4. 2 * Bytes(text) <= size => written = text \/ Len(written) + 1 = Len(text)
      BY <2>1, <3>2, WideKeepsAllButOne
    <3>5. 2 * (Units(written) + 1) <= size
      BY <3>2, <3>3
    <3>6. StdStringToOdbcWString(text, size) =
            [text |-> written, used |-> 2 * (Units(written) + 1), length |-> length]
      BY <1>2 DEF StdStringToOdbcWString, Utf8ToUtf16, room
    <3> HIDE DEF written, length
    <3> QED
      BY <1>2, <3>3, <3>4, <3>5, <3>6
  <2> QED
    BY <2>2, <2>3
<1> QED
  BY <1>1, <1>2

LEMMA NarrowOut ==
  ASSUME NEW text \in Text, NEW size \in Nat
  PROVE  LET out == CopyBytes(text, size)
         IN  /\ out.used <= size /\ IsPrefix(out.text, text)
             /\ size > 0 /\ ~NarrowCut(text, size) => out.text = text
<1>1. Bytes(text) \in Nat
  BY TakenIsNat, SizesOfUnicode DEF Bytes
<1>2. CASE size = 0
  BY <1>2, NothingIsPrefix DEF CopyBytes, Nothing
<1>3. CASE size # 0
  <2> DEFINE n == Min({size - 1, Bytes(text)})
             written == Fitting(text, UTF8, n)
  <2>1. n \in Nat /\ n <= size - 1 /\ (Bytes(text) <= size - 1 => n = Bytes(text))
    <3>1. size - 1 \in Nat
      BY <1>3
    <3>2. \A a, b \in Nat : Min({a, b}) = IF a <= b THEN a ELSE b
      BY DEF Min
    <3>3. n = IF size - 1 <= Bytes(text) THEN size - 1 ELSE Bytes(text)
      BY <1>1, <3>1, <3>2
    <3> HIDE DEF n
    <3> QED
      BY <1>1, <3>1, <3>3
  <2> HIDE DEF n
  <2>2. IsPrefix(written, text) /\ (Bytes(text) <= n => written = text)
    BY <2>1, FittingFits, SizesOfUnicode DEF Bytes
  <2>3. CopyBytes(text, size) = [text |-> written, used |-> n + 1, length |-> n]
    BY <1>3 DEF CopyBytes, n
  <2>4. ~NarrowCut(text, size) => Bytes(text) <= size - 1
    BY <1>1, <1>3 DEF NarrowCut
  <2> HIDE DEF written
  <2> QED
    BY <1>1, <2>1, <2>2, <2>3, <2>4
<1> QED
  BY <1>2, <1>3

\* The text of a column in the charset of the client.
LEMMA CharsetOut ==
  ASSUME NEW cs \in Sizes, NEW text \in Text, NEW size \in Nat
  PROVE  LET out == WriteUtf8AsCharset(cs, text, size)
         IN  /\ out.text \in Text /\ out.used \in Nat /\ out.used <= size
             /\ out.length \in Nat
             /\ size # 0 /\ out.length <= size - 1 =>
                  out.text = Representable(cs, text) /\ out.used # 0
<1>1. ASSUME NEW known \in Text, NEW w, size # 0,
             w = Fitting(known, cs, size - 1)
      PROVE  /\ w \in Text /\ Taken(cs, w) + 1 \in Nat /\ Taken(cs, w) + 1 <= size
             /\ Taken(cs, w) + 1 # 0
             /\ Taken(cs, known) <= size - 1 => w = known
  <2>1. size - 1 \in Nat
    BY <1>1
  <2>2. /\ w \in Text /\ Taken(cs, w) \in Nat /\ Taken(cs, w) <= size - 1
        /\ Taken(cs, known) <= size - 1 => w = known
    BY <1>1, <2>1, FittingFits
  <2> QED
    BY <2>1, <2>2
<1>2. CASE cs = UTF8
  <2>1. WriteUtf8AsCharset(cs, text, size) = WriteUtf8Direct(text, size)
    BY <1>2 DEF WriteUtf8AsCharset
  <2>2. Representable(cs, text) = text
    BY <1>2, RepresentableIsText, SizesOfUnicode
  <2>3. Bytes(text) \in Nat
    BY TakenIsNat, SizesOfUnicode DEF Bytes
  <2>4. CASE size = 0
    BY <2>1, <2>3, <2>4, NothingIsPrefix DEF WriteUtf8Direct, Nothing
  <2>5. CASE size # 0
    <3> DEFINE w == Fitting(text, cs, size - 1)
    <3>1. WriteUtf8Direct(text, size) =
            [text |-> w, used |-> Taken(cs, w) + 1, length |-> Taken(cs, text)]
      BY <1>2, <2>5 DEF WriteUtf8Direct, SafeUtf8TruncatePoint, Bytes
    <3>2. /\ w \in Text /\ Taken(cs, w) + 1 \in Nat /\ Taken(cs, w) + 1 <= size
          /\ Taken(cs, w) + 1 # 0
          /\ Taken(cs, text) <= size - 1 => w = text
      BY <1>1, <2>5
    <3>3. Taken(cs, text) \in Nat
      BY TakenIsNat
    <3> HIDE DEF w
    <3> QED
      BY <2>1, <2>2, <3>1, <3>2, <3>3
  <2> QED
    BY <2>4, <2>5
<1>3. CASE cs # UTF8
  <2> DEFINE known == Representable(cs, text)
  <2>1. WriteUtf8AsCharset(cs, text, size) = WriteUtf8AsCharsetIconv(cs, text, size)
    BY <1>3 DEF WriteUtf8AsCharset
  <2>2. known \in Text
    BY RepresentableIsText
  <2> HIDE DEF known
  <2>3. Taken(cs, known) \in Nat
    BY <2>2, TakenIsNat
  <2>4. CASE size = 0
    <3>1. WriteUtf8AsCharsetIconv(cs, text, size) = Nothing(Taken(cs, known))
      BY <2>4 DEF WriteUtf8AsCharsetIconv, known
    <3> QED
      BY <2>1, <2>3, <2>4, <3>1, NothingIsPrefix DEF Nothing
  <2>5. CASE size # 0
    <3> DEFINE w == Fitting(known, cs, size - 1)
    <3>1. WriteUtf8AsCharsetIconv(cs, text, size) =
            [text |-> w, used |-> Taken(cs, w) + 1, length |-> Taken(cs, known)]
      BY <2>5 DEF WriteUtf8AsCharsetIconv, known
    <3>2. /\ w \in Text /\ Taken(cs, w) + 1 \in Nat /\ Taken(cs, w) + 1 <= size
          /\ Taken(cs, w) + 1 # 0
          /\ Taken(cs, known) <= size - 1 => w = known
      BY <1>1, <2>2, <2>5
    <3> HIDE DEF w
    <3> QED
      BY <2>1, <2>3, <3>1, <3>2 DEF known
  <2> QED
    BY <2>4, <2>5
<1> QED
  BY <1>2, <1>3

-----------------------------------------------------------------------------
(* The diagnostics                                                         *)

Wide == {"SQLGetDiagRecW", "SQLGetDiagFieldW"}

\* The losses of the wide calls, of a call before it is recorded.
Excused(call, source, size, out) ==
  /\ call \in Wide
  /\ \/ Len(out.text) + 1 = Len(source)
     \/ call = "SQLGetDiagRecW" /\ size > LengthMax
     \/ 2 * Bytes(source) > LengthMax

\* A call that reads a record keeps both properties of the diagnostics, when what it
\* writes fits, begins like the text, and is the text unless the code says otherwise.
LEMMA ReadIsGood ==
  ASSUME NEW call, NEW code, NEW source, NEW size, NEW out,
         Read(call, code, source, size, out),
         (call \in Wide /\ size = 1) \/ out.used <= size, IsPrefix(out.text, source),
         code = "SUCCESS" /\ size > 0 =>
           \/ out.text = source
           \/ source = SqlState /\ out.used = 0
           \/ Excused(call, source, size, out)
  PROVE  ReadFits' /\ NoTextLostUntold' /\ UNCHANGED records
<1>1. reading' = [call |-> call, code |-> code, source |-> source, size |-> size, out |-> out]
      /\ UNCHANGED records
  BY DEF Read
<1>2. /\ reading'.call = call /\ reading'.code = code /\ reading'.source = source
      /\ reading'.size = size /\ reading'.out = out
  BY <1>1
<1>3. ReadFits'
  BY <1>2 DEF ReadFits, OneByte, WideCall, Wide
<1>4. NoTextLostUntold'
  BY <1>2 DEF NoTextLostUntold, NoRoomForSqlState, LostUntold, WideCall, Excused, Wide
<1> QED
  BY <1>1, <1>3, <1>4

LEMMA ReadNothingIsGood ==
  ASSUME NEW call, NEW code, ReadNothing(call, code)
  PROVE  ReadFits' /\ NoTextLostUntold' /\ UNCHANGED records
<1>1. Read(call, code, << >>, 0, Nothing(0))
  BY DEF ReadNothing
<1>2. Nothing(0).used = 0 /\ Nothing(0).text = << >>
  BY DEF Nothing
<1>3. IsPrefix(<< >>, << >>)
  <2>1. << >> \in Text
    BY DEF Text
  <2> QED
    BY <2>1, SelfIsPrefix
<1>4. Nothing(0).used <= 0 /\ IsPrefix(Nothing(0).text, << >>) /\ ~(0 > 0)
  BY <1>2, <1>3
<1> QED
  BY <1>1, <1>4, ReadIsGood

\* A wide text, written into a buffer of some size of which the call takes another.
LEMMA ReadWideIsGood ==
  ASSUME NEW call \in Wide, NEW code, NEW text \in Text, NEW size \in Nat, NEW taken \in Int,
         NEW out, Read(call, code, text, size, out),
         LET wide == StdStringToOdbcWString(text, taken)
         IN  out.text = wide.text /\ out.used = wide.used,
         taken = size \/ (call = "SQLGetDiagRecW" /\ size > LengthMax /\ taken < 0),
         code = "SUCCESS" /\ size # 0 /\ 2 * Bytes(text) <= LengthMax => 2 * Bytes(text) <= size
  PROVE  ReadFits' /\ NoTextLostUntold' /\ UNCHANGED records
<1>1. /\ IsPrefix(out.text, text)
      /\ taken <= 0 => out.used = 0
      /\ taken > 1 => out.used <= taken
      /\ taken > 0 /\ 2 * Bytes(text) <= taken =>
           out.text = text \/ Len(out.text) + 1 = Len(text)
  BY WideOut
<1>2. Bytes(text) \in Nat /\ LengthMax \in Nat
  BY LengthAssumption, TakenIsNat, SizesOfUnicode DEF Bytes
<1>3. (call \in Wide /\ size = 1) \/ out.used <= size
  BY <1>1
<1>4. ASSUME code = "SUCCESS", size > 0
      PROVE  out.text = text \/ Excused(call, text, size, out)
  <2>1. CASE taken = size
    BY <1>1, <1>2, <1>4, <2>1 DEF Excused
  <2>2. CASE taken # size
    BY <2>2 DEF Excused
  <2> QED
    BY <2>1, <2>2
<1> QED
  BY <1>1, <1>3, <1>4, ReadIsGood

LEMMA ReadNarrowIsGood ==
  ASSUME NEW call, NEW text \in Text, NEW size \in Nat,
         Read(call, Told(NarrowCut(text, size)), text, size, CopyBytes(text, size))
  PROVE  ReadFits' /\ NoTextLostUntold' /\ UNCHANGED records
<1> DEFINE out == CopyBytes(text, size)
           code == Told(NarrowCut(text, size))
<1>1. /\ out.used <= size /\ IsPrefix(out.text, text)
      /\ size > 0 /\ ~NarrowCut(text, size) => out.text = text
  BY NarrowOut
<1>2. code = "SUCCESS" => ~NarrowCut(text, size)
  BY DEF Told
<1>3. Read(call, code, text, size, out)
  OBVIOUS
<1> HIDE DEF out, code
<1> QED
  BY <1>1, <1>2, <1>3, ReadIsGood

\* What a text needs, as long as it is a SQLSMALLINT.
LEMMA RequiredIsBytes ==
  ASSUME NEW text \in Text, 2 * Bytes(text) <= LengthMax
  PROVE  Required(text) = 2 * Bytes(text) /\ Required(text) \div 2 = Bytes(text)
<1>1. Bytes(text) \in Nat /\ LengthMax \in Nat
  BY LengthAssumption, TakenIsNat, SizesOfUnicode DEF Bytes
<1>2. 2 * Bytes(text) \in 0 .. LengthMax
  BY <1>1
<1>3. Required(text) = AsSmallInt(2 * Bytes(text))
  BY DEF Required, StdStringToOdbcWString, Nothing
<1>4. Required(text) = 2 * Bytes(text)
  BY <1>2, <1>3, SmallIntKept
<1> QED
  BY <1>1, <1>4

LEMMA FixedTexts == Origin \in Text /\ SqlState \in Text /\ Len(SqlState) = 5
<1>1. [i \in 1 .. 8 |-> 1] \in Seq(1 .. 4) /\ [i \in 1 .. 5 |-> 1] \in Seq(1 .. 4)
  OBVIOUS
<1>2. Len([i \in 1 .. 5 |-> 1]) = 5
  OBVIOUS
<1> QED
  BY <1>1, <1>2 DEF Origin, SqlState, Text

LEMMA FieldIsGood ==
  ASSUME records \in Seq(Text), NEW wide \in BOOLEAN, NEW call,
         call = IF wide THEN "SQLGetDiagFieldW" ELSE "SQLGetDiagField",
         NEW n \in Nat \ {0}, NEW field, NEW size \in Nat,
         GetDiagField(call, n, field, size, wide)
  PROVE  ReadFits' /\ NoTextLostUntold' /\ UNCHANGED records
<1>1. CASE \E code : ReadNothing(call, code)
  BY <1>1, ReadNothingIsGood
<1>2. ASSUME n \in DOMAIN records, NEW text \in TextsOf(field, n),
             IF wide
             THEN Read(call, Told(WideCut(text, size)), text, size,
                       StdStringToOdbcWString(text, size))
             ELSE Read(call, Told(NarrowCut(text, size)), text, size, CopyBytes(text, size))
      PROVE  ReadFits' /\ NoTextLostUntold' /\ UNCHANGED records
  <2>1. text \in Text
    <3>1. records[n] \in Text
      BY <1>2
    <3>2. ConnectionNames \subseteq Text /\ Origin \in Text
      BY MessageAssumption, FixedTexts
    <3> QED
      BY <1>2, <3>1, <3>2 DEF TextsOf
  <2>2. CASE wide
    <3> DEFINE code == Told(WideCut(text, size))
    <3>1. Bytes(text) \in Nat
      BY <2>1, TakenIsNat, SizesOfUnicode DEF Bytes
    <3>2. code = "SUCCESS" /\ size # 0 /\ 2 * Bytes(text) <= LengthMax =>
            2 * Bytes(text) <= size
      BY <2>1, <3>1, RequiredIsBytes DEF Told, WideCut
    <3>3. Read(call, code, text, size, StdStringToOdbcWString(text, size))
      BY <1>2, <2>2
    <3>4. call \in Wide /\ size \in Int
      BY <2>2 DEF Wide
    <3> HIDE DEF code
    <3> QED
      BY <2>1, <3>2, <3>3, <3>4, ReadWideIsGood
  <2>3. CASE ~wide
    <3>1. Read(call, Told(NarrowCut(text, size)), text, size, CopyBytes(text, size))
      BY <1>2, <2>3
    <3> QED
      BY <2>1, <3>1, ReadNarrowIsGood
  <2> QED
    BY <2>2, <2>3
<1>3. ASSUME LET unit == IF wide THEN 2 ELSE 1
             IN  Read(call, "SUCCESS", SqlState, size,
                      IF size >= 6 * unit
                      THEN [text |-> SqlState, used |-> 6 * unit, length |-> 5 * unit]
                      ELSE Nothing(5 * unit))
      PROVE  ReadFits' /\ NoTextLostUntold' /\ UNCHANGED records
  <2> DEFINE unit == IF wide THEN 2 ELSE 1
             out == IF size >= 6 * unit
                    THEN [text |-> SqlState, used |-> 6 * unit, length |-> 5 * unit]
                    ELSE Nothing(5 * unit)
  <2>1. unit \in Nat
    OBVIOUS
  <2>2. Read(call, "SUCCESS", SqlState, size, out)
    BY <1>3
  <2>3. IsPrefix(SqlState, SqlState) /\ IsPrefix(<< >>, SqlState)
    BY FixedTexts, SelfIsPrefix, NothingIsPrefix
  <2> HIDE DEF unit
  <2>4. /\ out.used <= size /\ IsPrefix(out.text, SqlState)
        /\ out.text = SqlState \/ out.used = 0
    BY <2>1, <2>3 DEF Nothing
  <2> HIDE DEF out
  <2> QED
    BY <2>2, <2>4, ReadIsGood
<1> QED
  BY <1>1, <1>2, <1>3 DEF GetDiagField

LEMMA DiagStep ==
  ASSUME records \in Seq(Text), DiagNext
  PROVE  ReadFits' /\ NoTextLostUntold' /\ UNCHANGED records
<1>1. /\ DiagSizes \subseteq 0 .. LengthMax /\ LengthMax \in Nat
      /\ Len(records) \in Nat /\ DOMAIN records = 1 .. Len(records)
  BY LengthAssumption, MessageAssumption
<1>2. CASE SQLGetDiagRec
  <2>1. PICK n \in 0 .. Len(records) + 1, size \in DiagSizes : GetDiagRec(n, size)
    BY <1>2 DEF SQLGetDiagRec
  <2>2. CASE \E code : ReadNothing("SQLGetDiagRec", code)
    BY <2>2, ReadNothingIsGood
  <2>3. CASE n \in DOMAIN records /\ ~\E code : ReadNothing("SQLGetDiagRec", code)
    <3>1. /\ records[n] \in Text /\ size \in Nat
          /\ Read("SQLGetDiagRec", Told(NarrowCut(records[n], size)), records[n], size,
                  CopyBytes(records[n], size))
      BY <1>1, <2>1, <2>3 DEF GetDiagRec
    <3> QED
      BY <3>1, ReadNarrowIsGood
  <2> QED
    BY <2>1, <2>2, <2>3 DEF GetDiagRec
<1>3. CASE SQLGetDiagRecW
  <2>1. PICK n \in 0 .. Len(records) + 1, size \in DiagSizes : GetDiagRecW(n, size)
    BY <1>3 DEF SQLGetDiagRecW
  <2>2. CASE \E code : ReadNothing("SQLGetDiagRecW", code)
    BY <2>2, ReadNothingIsGood
  <2>3. CASE n \in DOMAIN records /\ ~\E code : ReadNothing("SQLGetDiagRecW", code)
    <3> DEFINE text == records[n]
               code == Told(size > 0 /\ Required(text) \div 2 > size)
               taken == AsSmallInt(2 * size)
               wide == StdStringToOdbcWString(text, taken)
               out == [wide EXCEPT !.length = @ \div 2]
    <3>1. /\ text \in Text /\ size \in 0 .. LengthMax
          /\ Read("SQLGetDiagRecW", code, text, 2 * size, out)
      BY <1>1, <2>1, <2>3 DEF GetDiagRecW
    <3>2. Bytes(text) \in Nat
      BY <3>1, TakenIsNat, SizesOfUnicode DEF Bytes
    <3>3. code = "SUCCESS" /\ 2 * size # 0 /\ 2 * Bytes(text) <= LengthMax =>
            2 * Bytes(text) <= 2 * size
      BY <1>1, <3>1, <3>2, RequiredIsBytes DEF Told
    <3>4. taken = 2 * size \/ (2 * size > LengthMax /\ taken < 0)
      <4>1. CASE 2 * size \in 0 .. LengthMax
        BY <4>1, SmallIntKept
      <4>2. CASE 2 * size \in LengthMax + 1 .. 2 * LengthMax
        BY <1>1, <4>2, SmallIntWraps
      <4> QED
        BY <1>1, <3>1, <4>1, <4>2
    <3>5. taken \in Int
      BY <1>1, <3>1, SmallIntIsInt
    <3>6. out.text = wide.text /\ out.used = wide.used
      BY DEF StdStringToOdbcWString, Nothing
    <3>7. 2 * size \in Nat /\ "SQLGetDiagRecW" \in Wide
      BY <3>1 DEF Wide
    <3> HIDE DEF code, text, taken, out
    <3> QED
      BY <3>1, <3>3, <3>4, <3>5, <3>6, <3>7, ReadWideIsGood
  <2> QED
    BY <2>1, <2>2, <2>3 DEF GetDiagRecW
<1>4. CASE SQLGetDiagField
  <2>1. CASE Header("SQLGetDiagField")
    BY <2>1, ReadNothingIsGood DEF Header
  <2>2. ASSUME NEW n \in 1 .. Len(records) + 1, NEW field \in Fields, NEW size \in DiagSizes,
               GetDiagField("SQLGetDiagField", n, field, size, FALSE)
        PROVE  ReadFits' /\ NoTextLostUntold' /\ UNCHANGED records
    <3>1. n \in Nat \ {0} /\ size \in Nat
      BY <1>1
    <3> QED
      BY <2>2, <3>1, FieldIsGood
  <2> QED
    BY <1>4, <2>1, <2>2 DEF SQLGetDiagField
<1>5. CASE SQLGetDiagFieldW
  <2>1. CASE Header("SQLGetDiagFieldW")
    BY <2>1, ReadNothingIsGood DEF Header
  <2>2. ASSUME NEW n \in 1 .. Len(records) + 1, NEW field \in Fields,
               NEW size \in DiagSizes,
               GetDiagField("SQLGetDiagFieldW", n, field, size, TRUE)
        PROVE  ReadFits' /\ NoTextLostUntold' /\ UNCHANGED records
    <3>1. n \in Nat \ {0} /\ size \in Nat
      BY <1>1
    <3> QED
      BY <2>2, <3>1, FieldIsGood
  <2> QED
    BY <1>5, <2>1, <2>2 DEF SQLGetDiagFieldW
<1> QED
  BY <1>2, <1>3, <1>4, <1>5 DEF DiagNext

-----------------------------------------------------------------------------
(* One value                                                               *)

\* A value a row may have, and a binding a column may have.
Foreseen(v) == v \in Value /\ (v.type = "double" => AsDouble(v.value) = v.value)
Bindable(b) == b \in Binding

\* Written as it is, or one of the known losses, or a failure.
AsItIs(v, b, outcome) ==
  outcome.code = "SUCCESS" =>
    KnownLoss(v, b) \/ (Faithful(v, b, outcome.content) /\ outcome.content # None)

Stays(b, content) ==
  (b.target \in Letters /\ content # None /\ "used" \in DOMAIN content)
    => content.used <= b.size \/ (b.target = "WCHAR" /\ b.size < 2)

Good(v, b, outcome) == AsItIs(v, b, outcome) /\ Stays(b, outcome.content)

LEMMA ValueFields ==
  ASSUME NEW v \in Value
  PROVE  /\ v.type \in Numeric \cup {"null", "date", "timestamp", "other", "string"}
         /\ v.type \in Numeric \cup {"date", "timestamp", "other"} =>
              v.value \in Int /\ v.text \in Text
         /\ v.type = "double" => v.shown \in Int
         /\ v.type = "string" =>
              /\ {v.value, v.stod, v.stol} \subseteq Int \cup {NoNumber}
              /\ v.yes \in BOOLEAN /\ v.text \in Text
BY DEF Value, Numeric, Whole

\* A failure writes nothing.
LEMMA FailsIsGood ==
  ASSUME NEW v, NEW b
  PROVE  Good(v, b, Fails)
BY DEF Good, AsItIs, Stays, Fails, Wrote

LEMMA NullIsGood ==
  ASSUME NEW v \in Value, NEW b, v.type = "null",
         NEW outcome \in convertAndWrite(v, b)
  PROVE  Good(v, b, outcome)
<1>1. outcome = Wrote("SUCCESS", IF b.indicator THEN [null |-> TRUE] ELSE None)
  BY DEF convertAndWrite
<1>2. [null |-> TRUE] \in Contents /\ None \notin Contents
  BY ConversionAssumption DEF Contents
<1>3. CASE ~b.indicator
  <2>1. outcome.content = None
    BY <1>1, <1>3 DEF Wrote
  <2> QED
    BY <1>3, <2>1 DEF Good, AsItIs, Stays, KnownLoss
<1>4. CASE b.indicator
  <2>1. outcome.content = [null |-> TRUE]
    BY <1>1, <1>4 DEF Wrote
  <2>2. Faithful(v, b, [null |-> TRUE])
    BY DEF Faithful
  <2>3. [null |-> TRUE] # None
    BY <1>2
  <2>4. "used" \notin DOMAIN [null |-> TRUE]
    OBVIOUS
  <2> QED
    BY <2>1, <2>2, <2>3, <2>4 DEF Good, AsItIs, Stays
<1> QED
  BY <1>3, <1>4

LEMMA PlainIsContent ==
  ASSUME NEW number \in Int
  PROVE  /\ Plain(number).content = [value |-> number] /\ Plain(number).code = "SUCCESS"
         /\ [value |-> number] # None /\ [value |-> number].value = number
<1>1. [value |-> number] \in Contents /\ None \notin Contents
  BY ConversionAssumption DEF Contents
<1> QED
  BY <1>1 DEF Plain, Wrote

\* A number written plainly is good when it is the one it should be.
LEMMA PlainIsGood ==
  ASSUME NEW v, NEW b, NEW number \in Int, b.target \notin Letters,
         KnownLoss(v, b) \/ Faithful(v, b, [value |-> number])
  PROVE  Good(v, b, Plain(number))
BY PlainIsContent DEF Good, AsItIs, Stays

LEMMA TruncatedIsInt ==
  ASSUME NEW n \in Int
  PROVE  Truncated(n) \in Int /\ AsDouble(n) \in Int
<1>1. Truncated(n) \in Int
  BY DEF Truncated
<1>2. AsDouble(n) \in Int
  <2>1. 4 * (n \div 4) \in Int
    OBVIOUS
  <2> QED
    BY <2>1 DEF AsDouble
<1> QED
  BY <1>1, <1>2

LEMMA IntegerIsGood ==
  ASSUME NEW v \in Value, v.type # "null", NEW b, b.target \in Integral, NEW max,
         NEW outcome \in ToInteger(v, max)
  PROVE  Good(v, b, outcome)
<1>1. b.target \notin Letters /\ b.target # "BIT"
  BY DEF Integral, Letters
<1>2. CASE v.type \in Numeric /\ Within(v.value, max)
  <2>0. v.type # "string"
    BY <1>2 DEF Numeric, Whole
  <2>1. outcome = Plain(Truncated(v.value))
    BY <1>2, <2>0 DEF ToInteger
  <2>2. Truncated(v.value) \in Int
    BY <1>2, ValueFields, TruncatedIsInt
  <2>3. v.value # NoNumber
    BY <1>2, ValueFields, ConversionAssumption
  <2>4. Faithful(v, b, [value |-> Truncated(v.value)])
    BY <1>1, <2>0, <2>3 DEF Faithful
  <2> QED
    BY <1>1, <2>1, <2>2, <2>4, PlainIsGood
<1>3. CASE v.type = "string" /\ v.stol # NoNumber /\ Within(v.stol, max)
  <2>1. outcome = Plain(v.stol) /\ v.stol \in Int
    BY <1>3, ValueFields DEF ToInteger, Numeric, Whole
  <2>2. KnownLoss(v, b) \/ Faithful(v, b, [value |-> v.stol])
    <3>1. CASE v.value = NoNumber \/ v.stol # Truncated(v.value)
      BY <1>3, <3>1 DEF KnownLoss, MisreadNumber
    <3>2. CASE v.value # NoNumber /\ v.stol = Truncated(v.value)
      BY <1>1, <1>3, <3>2 DEF Faithful
    <3> QED
      BY <3>1, <3>2
  <2> QED
    BY <1>1, <2>1, <2>2, PlainIsGood
<1>4. CASE /\ ~(v.type \in Numeric /\ Within(v.value, max))
           /\ ~(v.type = "string" /\ v.stol # NoNumber /\ Within(v.stol, max))
  <2>1. outcome = Fails
    BY <1>4 DEF ToInteger
  <2> QED
    BY <2>1, FailsIsGood
<1> QED
  BY <1>2, <1>3, <1>4

LEMMA BigIntIsGood ==
  ASSUME NEW v \in Value, v.type # "null", NEW b, b.target = "SBIGINT",
         NEW outcome \in ToBigInt(v)
  PROVE  Good(v, b, outcome)
<1>1. b.target \in Integral /\ b.target \notin Letters /\ BigMax \in Nat
  BY ConversionAssumption DEF Integral, Letters
<1>2. CASE v.type = "double" /\ v.value > 2 * BigMax /\ v.value <= AsDouble(2 * BigMax)
  <2>1. KnownLoss(v, b)
    BY <1>2 DEF KnownLoss
  <2>2. outcome \in {Plain(2 * BigMax), Plain(-2 * (BigMax + 1))}
    BY <1>2 DEF ToBigInt
  <2>3. 2 * BigMax \in Int /\ -2 * (BigMax + 1) \in Int
    BY <1>1
  <2> QED
    BY <1>1, <2>1, <2>2, <2>3, PlainIsGood
<1>3. CASE ~(v.type = "double" /\ v.value > 2 * BigMax /\ v.value <= AsDouble(2 * BigMax))
  <2>1. outcome \in ToInteger(v, BigMax)
    BY <1>3 DEF ToBigInt
  <2> QED
    BY <1>1, <2>1, IntegerIsGood
<1> QED
  BY <1>2, <1>3

LEMMA DoubleIsGood ==
  ASSUME NEW v, Foreseen(v), v.type # "null", NEW b, b.target = "DOUBLE",
         NEW outcome \in ToDouble(v)
  PROVE  Good(v, b, outcome)
<1>1. b.target \notin Letters /\ b.target \notin Integral /\ b.target # "BIT" /\ v \in Value
  BY DEF Integral, Letters, Foreseen
<1>2. \A n : n = v.value => Faithful(v, b, [value |-> n])
  BY <1>1 DEF Faithful
<1>3. CASE v.type \in Numeric
  <2>1. outcome = Plain(AsDouble(v.value)) /\ v.value \in Int /\ AsDouble(v.value) \in Int
    <3>1. v.type # "string"
      BY <1>3 DEF Numeric, Whole
    <3>2. outcome = Plain(AsDouble(v.value))
      BY <1>3, <3>1 DEF ToDouble
    <3>3. v.value \in Int
      BY <1>1, <1>3, ValueFields
    <3> QED
      BY <3>2, <3>3, TruncatedIsInt
  <2>2. KnownLoss(v, b) \/ AsDouble(v.value) = v.value
    <3>1. CASE v.type = "double"
      BY <3>1 DEF Foreseen
    <3>2. CASE v.type \in Whole /\ v.value \notin -2 * DoubleMax .. 2 * DoubleMax
      BY <3>2 DEF KnownLoss
    <3>3. CASE v.value \in -2 * DoubleMax .. 2 * DoubleMax
      BY <3>3 DEF AsDouble
    <3> QED
      BY <1>3, <3>1, <3>2, <3>3 DEF Numeric
  <2> QED
    BY <1>1, <1>2, <2>1, <2>2, PlainIsGood
<1>4. CASE v.type = "string" /\ v.stod # NoNumber
  <2>1. outcome = Plain(v.stod) /\ v.stod \in Int
    BY <1>1, <1>4, ValueFields DEF ToDouble, Numeric, Whole
  <2>2. KnownLoss(v, b) \/ v.stod = v.value
    BY <1>4 DEF KnownLoss, MisreadNumber
  <2> QED
    BY <1>1, <1>2, <2>1, <2>2, PlainIsGood
<1>5. CASE v.type \notin Numeric /\ ~(v.type = "string" /\ v.stod # NoNumber)
  <2>1. outcome = Fails
    BY <1>5 DEF ToDouble
  <2> QED
    BY <2>1, FailsIsGood
<1> QED
  BY <1>3, <1>4, <1>5

LEMMA BitIsGood ==
  ASSUME NEW v \in Value, v.type # "null", NEW b, b.target = "BIT",
         NEW outcome \in ToBit(v)
  PROVE  Good(v, b, outcome)
<1>1. b.target \notin Letters /\ b.target \notin Integral /\ NoNumber \notin Int
  BY ConversionAssumption DEF Integral, Letters
<1>2. ASSUME NEW n \in Int,
             n # 0 <=> (v.type = "string" /\ v.yes) \/ v.value \notin {NoNumber, 0}
      PROVE  Faithful(v, b, [value |-> n])
  BY <1>1, <1>2 DEF Faithful
<1>3. CASE v.type \in Numeric
  <2> DEFINE n == IF v.value # 0 THEN 2 ELSE 0
  <2>1. outcome = Plain(n) /\ n \in Int
    <3>1. v.type # "string"
      BY <1>3 DEF Numeric, Whole
    <3> QED
      BY <1>3, <3>1 DEF ToBit
  <2>2. n # 0 <=> (v.type = "string" /\ v.yes) \/ v.value \notin {NoNumber, 0}
    <3>1. v.type # "string" /\ v.value # NoNumber
      BY <1>1, <1>3, ValueFields DEF Numeric, Whole
    <3> QED
      BY <3>1
  <2> HIDE DEF n
  <2> QED
    BY <1>1, <1>2, <2>1, <2>2, PlainIsGood
<1>4. CASE v.type = "string"
  <2> DEFINE n == IF v.yes \/ v.stod \notin {NoNumber, 0} THEN 2 ELSE 0
  <2>1. outcome = Plain(n) /\ n \in Int
    BY <1>4 DEF ToBit, Numeric, Whole
  <2>2. CASE v.stod = v.value
    <3>1. n # 0 <=> (v.type = "string" /\ v.yes) \/ v.value \notin {NoNumber, 0}
      BY <1>4, <2>2
    <3> HIDE DEF n
    <3> QED
      BY <1>1, <1>2, <2>1, <3>1, PlainIsGood
  <2>3. CASE v.stod # v.value
    <3>1. KnownLoss(v, b)
      BY <1>4, <2>3 DEF KnownLoss, MisreadNumber
    <3> HIDE DEF n
    <3> QED
      BY <1>1, <2>1, <3>1, PlainIsGood
  <2> QED
    BY <2>2, <2>3
<1>5. CASE v.type \notin Numeric /\ v.type # "string"
  <2>1. outcome = Fails
    BY <1>5 DEF ToBit
  <2> QED
    BY <2>1, FailsIsGood
<1> QED
  BY <1>3, <1>4, <1>5

LEMMA MomentInReach ==
  ASSUME NEW m \in -MomentMax - 1 .. MomentMax
  PROVE  Moment(m) = m
<1>1. MomentMax \in Nat
  BY ConversionAssumption
<1> DEFINE x == m + MomentMax + 1
           d == 2 * (MomentMax + 1)
<1>2. x \in Nat /\ d \in Nat \ {0} /\ x < d
  BY <1>1
<1> HIDE DEF x, d
<1>3. x % d = x
  BY <1>2
<1> QED
  BY <1>1, <1>3 DEF Moment, x, d

LEMMA MomentIsInt ==
  ASSUME NEW m \in Int
  PROVE  Moment(m) \in Int
<1>1. MomentMax \in Nat
  BY ConversionAssumption
<1> DEFINE x == m + MomentMax + 1
           d == 2 * (MomentMax + 1)
<1>2. x \in Int /\ d \in Nat \ {0}
  BY <1>1
<1> HIDE DEF x, d
<1>3. x % d \in Int
  BY <1>2
<1> QED
  BY <1>1, <1>3 DEF Moment, x, d

LEMMA TimeIsGood ==
  ASSUME NEW v \in Value, v.type # "null", NEW b,
         NEW outcome,
         \/ b.target = "DATE" /\ outcome \in ToDate(v)
         \/ b.target = "TIMESTAMP" /\ outcome \in ToTimestamp(v)
  PROVE  Good(v, b, outcome)
<1>1. b.target \notin Letters /\ b.target \notin Integral /\ b.target # "BIT"
  BY DEF Integral, Letters
<1>2. \A n : n = v.value => Faithful(v, b, [value |-> n])
  BY <1>1 DEF Faithful
<1>3. CASE outcome = Fails
  BY <1>3, FailsIsGood
<1>4. CASE v.type = "date" /\ outcome = Plain(v.value)
  <2>1. v.value \in Int
    BY <1>4, ValueFields
  <2> QED
    BY <1>1, <1>2, <1>4, <2>1, PlainIsGood
<1>5. CASE v.type = "timestamp" /\ outcome = Plain(Moment(v.value))
  <2>1. v.value \in Int /\ Moment(v.value) \in Int
    BY <1>5, ValueFields, MomentIsInt
  <2>2. KnownLoss(v, b) \/ Moment(v.value) = v.value
    BY <1>5, MomentInReach DEF KnownLoss
  <2> QED
    BY <1>1, <1>2, <1>5, <2>1, <2>2, PlainIsGood
<1> QED
  BY <1>3, <1>4, <1>5 DEF ToDate, ToTimestamp

\* The text of a type that is foreseen is the value's, when a moment is in reach and a
\* double needs no more decimals than its text has.
LEMMA TextOfValue ==
  ASSUME NEW v \in Value, v.type # "null", NEW foreseen
  PROVE  LET source == TextOf(v, foreseen)
         IN  /\ source.text \in Text /\ source.of \in Int \cup {NoNumber, None}
             /\ /\ v.type \in foreseen \cup {"timestamp", "double"}
                /\ v.type = "timestamp" => v.value \in -MomentMax - 1 .. MomentMax
                /\ v.type = "double" => v.shown = v.value
                => source.text = v.text /\ source.of = v.value
<1>1. v.text \in Text /\ v.value \in Int \cup {NoNumber}
      /\ (v.type = "timestamp" => v.value \in Int)
      /\ (v.type = "double" => v.shown \in Int)
  BY ValueFields
<1>2. CASE v.type = "timestamp"
  <2>1. TextOf(v, foreseen) = [text |-> v.text, of |-> Moment(v.value)]
    BY <1>2 DEF TextOf
  <2>2. Moment(v.value) \in Int
    BY <1>1, <1>2, MomentIsInt
  <2>3. v.value \in -MomentMax - 1 .. MomentMax => Moment(v.value) = v.value
    BY MomentInReach
  <2> QED
    BY <1>1, <1>2, <2>1, <2>2, <2>3
<1>3. CASE v.type = "double"
  <2>1. TextOf(v, foreseen) = [text |-> v.text, of |-> v.shown]
    BY <1>3 DEF TextOf
  <2> QED
    BY <1>1, <1>3, <2>1
<1>4. CASE v.type \in foreseen \ {"timestamp", "double"}
  <2>1. TextOf(v, foreseen) = [text |-> v.text, of |-> v.value]
    BY <1>4 DEF TextOf
  <2> QED
    BY <1>1, <1>4, <2>1
<1>5. CASE v.type \notin foreseen \cup {"timestamp", "double"}
  <2>1. TextOf(v, foreseen) = [text |-> <<1, 1>>, of |-> None]
    BY <1>5 DEF TextOf
  <2>2. <<1, 1>> \in Text
    BY DEF Text
  <2> QED
    BY <1>5, <2>1, <2>2
<1> QED
  BY <1>2, <1>3, <1>4, <1>5

LEMMA TextIsContent ==
  ASSUME NEW text \in Text, NEW used \in Nat, NEW of \in Int \cup {NoNumber, None}
  PROVE  [text |-> text, used |-> used, of |-> of] # None
<1>1. [text |-> text, used |-> used, of |-> of] \in Contents /\ None \notin Contents
  BY ConversionAssumption DEF Contents
<1> QED
  BY <1>1

LEMMA CharIsGood ==
  ASSUME NEW v \in Value, v.type # "null", NEW b, b.target = "CHAR", b.size \in Nat,
         charset \in Sizes, NEW outcome \in ToChar(v, b.size)
  PROVE  Good(v, b, outcome)
<1> DEFINE source == TextOf(v, Texts)
           out == WriteUtf8AsCharset(charset, source.text, b.size)
           cut == IF b.size = 0 THEN out.length > 0 ELSE out.length > b.size - 1
<1>1. source.text \in Text /\ source.of \in Int \cup {NoNumber, None}
  BY TextOfValue
<1>2. outcome = Wrote(Told(cut), Content(source, out))
  BY DEF ToChar
<1>3. KnownLoss(v, b)
      \/ /\ b.size # 0 /\ source.text = v.text /\ source.of = v.value
         /\ Representable(charset, v.text) = v.text
  <2>1. v.type \in {"int", "short", "other"} \/ v.type \in Texts
    BY ValueFields DEF Numeric, Whole, Texts
  <2>2. CASE v.type = "timestamp" /\ v.value \notin -MomentMax - 1 .. MomentMax
    BY <2>2 DEF KnownLoss
  <2>3. CASE \/ v.type \in {"int", "short", "other"} \/ b.size = 0
             \/ v.type = "double" /\ v.shown # v.value
             \/ Representable(charset, v.text) # v.text
    BY <2>3 DEF KnownLoss, PoorText, Letters
  <2>4. CASE /\ v.type \in Texts /\ b.size # 0
             /\ v.type = "timestamp" => v.value \in -MomentMax - 1 .. MomentMax
             /\ v.type = "double" => v.shown = v.value
             /\ Representable(charset, v.text) = v.text
    BY <2>4, TextOfValue
  <2> QED
    BY <2>1, <2>2, <2>3, <2>4
<1> HIDE DEF source
<1>4. /\ out.text \in Text /\ out.used \in Nat /\ out.used <= b.size /\ out.length \in Nat
      /\ b.size # 0 /\ out.length <= b.size - 1 =>
           out.text = Representable(charset, source.text) /\ out.used # 0
  BY <1>1, CharsetOut
<1> HIDE DEF out
<1>5. Content(source, out) = IF out.used = 0 THEN None
                             ELSE [text |-> out.text, used |-> out.used, of |-> source.of]
  BY DEF Content
<1>6. Stays(b, outcome.content)
  <2>1. outcome.content = Content(source, out)
    BY <1>2 DEF Wrote
  <2>2. CASE out.used = 0
    BY <1>5, <2>1, <2>2 DEF Stays
  <2>3. CASE out.used # 0
    BY <1>4, <1>5, <2>1, <2>3 DEF Stays
  <2> QED
    BY <2>2, <2>3
<1>7. ASSUME outcome.code = "SUCCESS", ~KnownLoss(v, b)
      PROVE  Faithful(v, b, outcome.content) /\ outcome.content # None
  <2>1. /\ b.size # 0 /\ source.text = v.text /\ source.of = v.value
        /\ Representable(charset, v.text) = v.text
    BY <1>3, <1>7
  <2>2. ~cut
    BY <1>2, <1>7 DEF Wrote, Told
  <2>3. out.length <= b.size - 1
    BY <1>4, <2>1, <2>2
  <2>4. out.text = v.text /\ out.used # 0
    BY <1>4, <2>1, <2>3
  <2>5. outcome.content = [text |-> out.text, used |-> out.used, of |-> v.value]
    BY <1>2, <1>5, <2>1, <2>4 DEF Wrote
  <2>6. outcome.content # None
    BY <1>1, <1>4, <2>1, <2>5, TextIsContent
  <2>7. Faithful(v, b, outcome.content)
    <3>1. outcome.content.text = v.text /\ outcome.content.of = v.value
      BY <2>4, <2>5
    <3>2. b.target \in Letters /\ b.target \notin Integral /\ b.target # "BIT"
      BY DEF Letters, Integral
    <3> QED
      BY <3>1, <3>2 DEF Faithful
  <2> QED
    BY <2>6, <2>7
<1> QED
  BY <1>6, <1>7 DEF Good, AsItIs

LEMMA WCharIsGood ==
  ASSUME NEW v \in Value, v.type # "null", NEW b, b.target = "WCHAR",
         b.size \in Nat, NEW outcome \in ToWChar(v, b.size)
  PROVE  Good(v, b, outcome)
<1> DEFINE source == TextOf(v, Texts \cup {"int", "short"})
           room == RoomFor(source.text, b.size)
           written == Fitting(source.text, UTF16, room)
           used == 2 * (Units(written) + 1)
<1>1. source.text \in Text /\ source.of \in Int \cup {NoNumber, None}
  BY TextOfValue
<1>2. outcome = Wrote("SUCCESS", [text |-> written, used |-> used, of |-> source.of])
  BY DEF ToWChar, Utf8ToUtf16
<1>3. KnownLoss(v, b)
      \/ (source.text = v.text /\ source.of = v.value /\ 2 * (Units(v.text) + 1) <= b.size)
  <2>1. Units(v.text) \in Nat
    BY ValueFields, TakenIsNat, SizesOfUnicode DEF Units
  <2>2. CASE v.type = "timestamp" /\ v.value \notin -MomentMax - 1 .. MomentMax
    BY <2>2 DEF KnownLoss
  <2>3. CASE \/ v.type = "other" \/ 2 * (Units(v.text) + 1) > b.size
             \/ v.type = "double" /\ v.shown # v.value
    BY <2>3 DEF KnownLoss, PoorText, Letters
  <2>4. CASE /\ v.type # "other" /\ 2 * (Units(v.text) + 1) <= b.size
             /\ v.type = "timestamp" => v.value \in -MomentMax - 1 .. MomentMax
             /\ v.type = "double" => v.shown = v.value
    <3>1. v.type \in Texts \cup {"int", "short"}
      BY <2>4, ValueFields DEF Numeric, Whole, Texts
    <3> QED
      BY <2>4, <3>1, TextOfValue
  <2> QED
    BY <2>1, <2>2, <2>3, <2>4
<1>4. ASSUME b.size >= 2
      PROVE  /\ room \in Nat /\ 2 * (room + 1) <= b.size
             /\ \A n \in Nat : 2 * (n + 1) <= b.size => n <= room
  <2>1. room = b.size \div 2 - 1
    BY <1>4 DEF RoomFor
  <2> HIDE DEF room
  <2> QED
    BY <1>4, <2>1
<1> HIDE DEF source
<1>5. CASE b.size < 2
  <2>1. Stays(b, outcome.content)
    BY <1>5 DEF Stays
  <2>2. Units(v.text) \in Nat
    BY ValueFields, TakenIsNat, SizesOfUnicode DEF Units
  <2>3. 2 * (Units(v.text) + 1) > b.size
    BY <1>5, <2>2
  <2>4. KnownLoss(v, b)
    BY <2>3 DEF KnownLoss, PoorText
  <2> QED
    BY <2>1, <2>4 DEF Good, AsItIs
<1>6. CASE b.size >= 2
  <2> HIDE DEF room
  <2>1. /\ written \in Text /\ Units(written) \in Nat /\ Units(written) <= room
        /\ Units(source.text) <= room => written = source.text
    BY <1>1, <1>4, <1>6, FittingFits, SizesOfUnicode DEF Units
  <2> HIDE DEF written
  <2>2. used \in Nat /\ used <= b.size
    BY <1>4, <1>6, <2>1
  <2> HIDE DEF used
  <2>3. outcome.content = [text |-> written, used |-> used, of |-> source.of]
    BY <1>2 DEF Wrote
  <2>4. Stays(b, outcome.content)
    BY <2>2, <2>3 DEF Stays
  <2>5. ASSUME ~KnownLoss(v, b)
        PROVE  Faithful(v, b, outcome.content) /\ outcome.content # None
    <3>1. source.text = v.text /\ source.of = v.value /\ 2 * (Units(v.text) + 1) <= b.size
      BY <1>3, <2>5
    <3>2. Units(v.text) \in Nat
      BY ValueFields, TakenIsNat, SizesOfUnicode DEF Units
    <3>3. written = v.text
      BY <1>4, <1>6, <2>1, <3>1, <3>2
    <3>4. outcome.content # None
      BY <1>1, <2>1, <2>2, <2>3, TextIsContent
    <3>5. outcome.content.text = v.text /\ outcome.content.of = v.value
      BY <2>3, <3>1, <3>3
    <3>6. b.target \in Letters /\ b.target \notin Integral /\ b.target # "BIT"
      BY DEF Letters, Integral
    <3> QED
      BY <3>4, <3>5, <3>6 DEF Faithful
  <2> QED
    BY <2>4, <2>5 DEF Good, AsItIs
<1> QED
  BY <1>5, <1>6

\* Every conversion, of every value to every type.
LEMMA ConversionIsGood ==
  ASSUME NEW v, Foreseen(v), NEW b, Bindable(b), charset \in Sizes,
         NEW outcome \in convertAndWrite(v, b)
  PROVE  Good(v, b, outcome)
<1>1. v \in Value /\ b \in Binding
  BY DEF Foreseen, Bindable
<1>2. b.target \in {"SSHORT", "SLONG", "SBIGINT", "DOUBLE", "BIT", "DATE", "TIMESTAMP",
                    "CHAR", "WCHAR", "other"} /\ b.size \in Nat
  BY <1>1 DEF Binding
<1>3. CASE v.type = "null"
  BY <1>1, <1>3, NullIsGood
<1>4. CASE v.type # "null"
  <2>1. CASE b.target = "SSHORT"
    <3>1. outcome \in ToInteger(v, ShortMax)
      BY <1>4, <2>1 DEF convertAndWrite
    <3> QED
      BY <1>1, <1>4, <2>1, <3>1, IntegerIsGood DEF Integral
  <2>2. CASE b.target = "SLONG"
    <3>1. outcome \in ToInteger(v, LongMax)
      BY <1>4, <2>2 DEF convertAndWrite
    <3> QED
      BY <1>1, <1>4, <2>2, <3>1, IntegerIsGood DEF Integral
  <2>3. CASE b.target = "SBIGINT"
    <3>1. outcome \in ToBigInt(v)
      BY <1>4, <2>3 DEF convertAndWrite
    <3> QED
      BY <1>1, <1>4, <2>3, <3>1, BigIntIsGood
  <2>4. CASE b.target = "DOUBLE"
    <3>1. outcome \in ToDouble(v)
      BY <1>4, <2>4 DEF convertAndWrite
    <3> QED
      BY <1>4, <2>4, <3>1, DoubleIsGood
  <2>5. CASE b.target = "BIT"
    <3>1. outcome \in ToBit(v)
      BY <1>4, <2>5 DEF convertAndWrite
    <3> QED
      BY <1>1, <1>4, <2>5, <3>1, BitIsGood
  <2>6. CASE b.target = "DATE"
    <3>1. outcome \in ToDate(v)
      BY <1>4, <2>6 DEF convertAndWrite
    <3> QED
      BY <1>1, <1>4, <2>6, <3>1, TimeIsGood
  <2>7. CASE b.target = "TIMESTAMP"
    <3>1. outcome \in ToTimestamp(v)
      BY <1>4, <2>7 DEF convertAndWrite
    <3> QED
      BY <1>1, <1>4, <2>7, <3>1, TimeIsGood
  <2>8. CASE b.target = "CHAR"
    <3>1. outcome \in ToChar(v, b.size)
      BY <1>4, <2>8 DEF convertAndWrite
    <3> QED
      BY <1>1, <1>2, <1>4, <2>8, <3>1, CharIsGood
  <2>9. CASE b.target = "WCHAR"
    <3>1. outcome \in ToWChar(v, b.size)
      BY <1>4, <2>9 DEF convertAndWrite
    <3> QED
      BY <1>1, <1>2, <1>4, <2>9, <3>1, WCharIsGood
  <2>10. CASE b.target = "other"
    <3>1. outcome = Fails
      BY <1>4, <2>10 DEF convertAndWrite
    <3> QED
      BY <3>1, FailsIsGood
  <2> QED
    BY <1>2, <2>1, <2>2, <2>3, <2>4, <2>5, <2>6, <2>7, <2>8, <2>9, <2>10
<1> QED
  BY <1>3, <1>4

-----------------------------------------------------------------------------
(* The invariants                                                          *)

\* What the conversions take for granted; no buffer is written before the first row.
Sound ==
  /\ records \in Seq(Text)
  /\ charset \in Charsets
  /\ bindings \in [Columns -> Binding \cup {Unbound}]
  /\ \A c \in Columns : bindings[c] # Unbound => bindings[c] \in Bindings[c]
  /\ row # None => row \in Rows
  /\ fetched \in Nat
  /\ fetched = 0 => \A c \in Columns : buffers[c].content = None

BuffersFit ==
  /\ \A c \in Columns : bindings[c] # Unbound => Stays(bindings[c], buffers[c].content)
  /\ got # None => Stays(got.binding, got.content)

ConversionInv ==
  Sound /\ ReadFits /\ NoTextLostUntold /\ BuffersFit /\ DeliveredAsItIs

LEMMA Convertible ==
  /\ Charsets \subseteq Sizes
  /\ \A r \in Rows : \A c \in Columns : Foreseen(r[c])
  /\ \A c \in Columns : \A b \in Bindings[c] : Bindable(b)
BY ConversionAssumption DEF Sizes, Foreseen, Bindable

LEMMA InitIsGood == Init => ConversionInv
<1> SUFFICES ASSUME Init PROVE ConversionInv
  OBVIOUS
<1>1. Sound
  <2>1. << >> \in Seq(Text)
    OBVIOUS
  <2> QED
    BY <2>1 DEF Init, DiagInit, Sound, Columns
<1>2. ReadFits /\ NoTextLostUntold
  <2>1. reading = Unread
    BY DEF Init, DiagInit
  <2>2. << >> \in Text
    BY DEF Text
  <2>3. IsPrefix(<< >>, << >>)
    BY <2>2, SelfIsPrefix
  <2> QED
    BY <2>1, <2>3 DEF Unread, Nothing, ReadFits, NoTextLostUntold
<1>3. BuffersFit
  BY DEF Init, BuffersFit
<1>4. DeliveredAsItIs
  BY DEF Init, DeliveredAsItIs
<1> QED
  BY <1>1, <1>2, <1>3, <1>4 DEF ConversionInv

\* The buffers and the answer of a row that is fetched.
LEMMA FetchRowIsGood ==
  ASSUME ConversionInv, FetchRow
  PROVE  BuffersFit' /\ DeliveredAsItIs'
<1>1. PICK r \in Rows : \E outcomes \in Outcomes(r) :
        /\ row' = r
        /\ buffers' = [c \in Columns |->
                         IF c <= Deliver(outcomes).upTo /\ outcomes[c].content # None
                         THEN [row |-> fetched', content |-> outcomes[c].content]
                         ELSE buffers[c]]
        /\ answer' = [call |-> "SQLFetch", code |-> Deliver(outcomes).code]
  BY DEF FetchRow, Return
<1>2. PICK outcomes \in Outcomes(r) :
        /\ row' = r
        /\ buffers' = [c \in Columns |->
                         IF c <= Deliver(outcomes).upTo /\ outcomes[c].content # None
                         THEN [row |-> fetched', content |-> outcomes[c].content]
                         ELSE buffers[c]]
        /\ answer' = [call |-> "SQLFetch", code |-> Deliver(outcomes).code]
  BY <1>1
<1>3. got' = None /\ charset' = charset /\ bindings' = bindings /\ charset \in Sizes
  BY Convertible DEF FetchRow, ConversionInv, Sound
<1>4. ASSUME NEW c \in Columns, bindings[c] # Unbound
      PROVE  Good(r[c], bindings[c], outcomes[c])
  <2>1. outcomes[c] \in convertAndWrite(r[c], bindings[c])
    BY <1>4 DEF Outcomes, Columns
  <2>2. Foreseen(r[c]) /\ Bindable(bindings[c])
    BY <1>4, Convertible DEF ConversionInv, Sound
  <2> QED
    BY <1>3, <2>1, <2>2, ConversionIsGood
<1>5. BuffersFit'
  <2>1. ASSUME NEW c \in Columns, bindings[c] # Unbound
        PROVE  Stays(bindings[c], buffers'[c].content)
    <3>1. \/ buffers'[c].content = outcomes[c].content
          \/ buffers'[c].content = buffers[c].content
      BY <1>2
    <3>2. Stays(bindings[c], outcomes[c].content)
      BY <1>4, <2>1 DEF Good
    <3>3. Stays(bindings[c], buffers[c].content)
      BY <2>1 DEF ConversionInv, BuffersFit
    <3> QED
      BY <3>1, <3>2, <3>3
  <2> QED
    BY <1>3, <2>1 DEF BuffersFit, Stays
<1>6. ASSUME answer'.code = "SUCCESS", NEW c \in Columns, bindings[c] # Unbound
      PROVE  \/ KnownLoss(r[c], bindings[c])
             \/ /\ buffers'[c].row = fetched'
                /\ Faithful(r[c], bindings[c], buffers'[c].content)
  <2>1. Deliver(outcomes).code = "SUCCESS"
    BY <1>2, <1>6
  <2>2. Deliver(outcomes).upTo = 2 /\ outcomes[c].code = "SUCCESS"
    BY <2>1 DEF Deliver
  <2>3. c <= 2
    BY DEF Columns
  <2>4. KnownLoss(r[c], bindings[c])
        \/ (Faithful(r[c], bindings[c], outcomes[c].content) /\ outcomes[c].content # None)
    BY <1>4, <1>6, <2>2 DEF Good, AsItIs
  <2>5. outcomes[c].content # None =>
          buffers'[c] = [row |-> fetched', content |-> outcomes[c].content]
    BY <1>2, <2>2, <2>3
  <2> QED
    BY <2>4, <2>5
<1>7. DeliveredAsItIs'
  BY <1>2, <1>3, <1>6 DEF DeliveredAsItIs, Faithful, KnownLoss, MisreadNumber, PoorText
<1> QED
  BY <1>5, <1>7

LEMMA GetColumnIsGood ==
  ASSUME ConversionInv, GetColumn
  PROVE  BuffersFit' /\ DeliveredAsItIs'
<1>1. PICK c \in Columns : \E b \in Bindings[c] : \E outcome \in convertAndWrite(row[c], b) :
        /\ got' = [column |-> c, binding |-> b, content |-> outcome.content]
        /\ answer' = [call |-> "SQLGetData",
                      code |-> IF outcome.code = "SUCCESS" THEN "SUCCESS" ELSE "ERROR"]
  BY DEF GetColumn, Return
<1> PICK b \in Bindings[c] : \E outcome \in convertAndWrite(row[c], b) :
        /\ got' = [column |-> c, binding |-> b, content |-> outcome.content]
        /\ answer' = [call |-> "SQLGetData",
                      code |-> IF outcome.code = "SUCCESS" THEN "SUCCESS" ELSE "ERROR"]
  BY <1>1
<1> PICK outcome \in convertAndWrite(row[c], b) :
        /\ got' = [column |-> c, binding |-> b, content |-> outcome.content]
        /\ answer' = [call |-> "SQLGetData",
                      code |-> IF outcome.code = "SUCCESS" THEN "SUCCESS" ELSE "ERROR"]
  OBVIOUS
<1>2. UNCHANGED <<charset, bindings, row, fetched, buffers>> /\ charset \in Sizes
  BY Convertible DEF GetColumn, ConversionInv, Sound
<1>3. Foreseen(row[c]) /\ Bindable(b)
  BY Convertible DEF GetColumn, ConversionInv, Sound
<1>4. Good(row[c], b, outcome)
  BY <1>2, <1>3, ConversionIsGood
<1>5. got'.column = c /\ got'.binding = b /\ got'.content = outcome.content
  BY <1>1
<1>6. BuffersFit'
  BY <1>2, <1>4, <1>5 DEF BuffersFit, ConversionInv, Good, Stays
<1>7. DeliveredAsItIs'
  <2>1. answer'.code = "SUCCESS" =>
          KnownLoss(row[c], b) \/ Faithful(row[c], b, outcome.content)
    BY <1>1, <1>4 DEF Good, AsItIs
  <2>2. answer'.call = "SQLGetData"
    BY <1>1
  <2> QED
    BY <1>2, <1>5, <2>1, <2>2
       DEF DeliveredAsItIs, Faithful, KnownLoss, MisreadNumber, PoorText
<1> QED
  BY <1>6, <1>7

\* A call that reads no diagnostics, or delivers nothing, keeps what was said of them.
LEMMA ReadingKept ==
  ASSUME ConversionInv, UNCHANGED reading
  PROVE  ReadFits' /\ NoTextLostUntold'
BY DEF ConversionInv, ReadFits, NoTextLostUntold, OneByte, WideCall, NoRoomForSqlState,
       LostUntold

LEMMA DeliveryKept ==
  ASSUME ConversionInv,
         UNCHANGED <<charset, bindings, row, fetched, buffers, got, answer>>
  PROVE  DeliveredAsItIs'
BY DEF ConversionInv, DeliveredAsItIs, Faithful, KnownLoss, MisreadNumber, PoorText

\* A call that fails by itself, or binds a column, writes to no buffer.
LEMMA ExplainedIsGood ==
  ASSUME ConversionInv, NEW call, Explained(call)
  PROVE  ConversionInv'
<1>1. PICK message \in Messages : records' = Append(records, message)
  BY DEF Explained, addDiagRecord
<1>2. Sound'
  <2>1. message \in Text /\ records \in Seq(Text)
    BY MessageAssumption DEF ConversionInv, Sound
  <2>2. records' \in Seq(Text)
    BY <1>1, <2>1
  <2> QED
    BY <2>2 DEF Explained, ConversionInv, Sound
<1>3. ReadFits' /\ NoTextLostUntold'
  BY ReadingKept DEF Explained
<1>4. BuffersFit'
  BY DEF Explained, ConversionInv, BuffersFit, Stays
<1>5. DeliveredAsItIs'
  BY DEF Explained, Return, DeliveredAsItIs
<1> QED
  BY <1>2, <1>3, <1>4, <1>5 DEF ConversionInv

LEMMA BindColIsGood ==
  ASSUME ConversionInv, SQLBindCol
  PROVE  ConversionInv'
<1>1. CASE Explained("SQLBindCol")
  BY <1>1, ExplainedIsGood
<1>2. CASE ~Explained("SQLBindCol")
  <2>1. PICK c \in Columns : \E b \in Bindings[c] : bindings' = [bindings EXCEPT ![c] = b]
    BY <1>2 DEF SQLBindCol
  <2> PICK b \in Bindings[c] : bindings' = [bindings EXCEPT ![c] = b]
    BY <2>1
  <2>2. /\ fetched = 0 /\ answer' = [call |-> "SQLBindCol", code |-> "SUCCESS"]
        /\ UNCHANGED <<records, reading, charset, row, fetched, buffers, got>>
    BY <1>2 DEF SQLBindCol, Return, diagVars
  <2>3. b \in Binding /\ bindings \in [Columns -> Binding \cup {Unbound}]
    BY ConversionAssumption DEF ConversionInv, Sound
  <2>4. Sound'
    BY <2>2, <2>3 DEF ConversionInv, Sound
  <2>5. ReadFits' /\ NoTextLostUntold'
    BY <2>2, ReadingKept
  <2>6. BuffersFit'
    <3>1. \A d \in Columns : buffers'[d].content = None
      BY <2>2 DEF ConversionInv, Sound
    <3> QED
      BY <2>2, <3>1 DEF ConversionInv, BuffersFit, Stays
  <2>7. DeliveredAsItIs'
    BY <2>2 DEF DeliveredAsItIs
  <2> QED
    BY <2>4, <2>5, <2>6, <2>7 DEF ConversionInv
<1> QED
  BY <1>1, <1>2

LEMMA NextIsGood == ConversionInv /\ [Next]_vars => ConversionInv'
<1> SUFFICES ASSUME ConversionInv, [Next]_vars
             PROVE  ConversionInv'
  OBVIOUS
<1>1. CASE SQLBindCol
  BY <1>1, BindColIsGood
<1>2. CASE FetchRow
  <2>1. Sound'
    BY <1>2 DEF FetchRow, diagVars, ConversionInv, Sound
  <2>2. ReadFits' /\ NoTextLostUntold'
    BY <1>2, ReadingKept DEF FetchRow, diagVars
  <2> QED
    BY <1>2, <2>1, <2>2, FetchRowIsGood DEF ConversionInv
<1>3. CASE FetchEnd
  <2>1. Sound'
    BY <1>3 DEF FetchEnd, diagVars, ConversionInv, Sound
  <2>2. ReadFits' /\ NoTextLostUntold'
    BY <1>3, ReadingKept DEF FetchEnd, diagVars
  <2>3. BuffersFit'
    BY <1>3 DEF FetchEnd, ConversionInv, BuffersFit, Stays
  <2>4. DeliveredAsItIs'
    BY <1>3 DEF FetchEnd, Return, DeliveredAsItIs
  <2> QED
    BY <2>1, <2>2, <2>3, <2>4 DEF ConversionInv
<1>4. CASE GetColumn
  <2>1. Sound'
    BY <1>4 DEF GetColumn, diagVars, ConversionInv, Sound
  <2>2. ReadFits' /\ NoTextLostUntold'
    BY <1>4, ReadingKept DEF GetColumn, diagVars
  <2> QED
    BY <1>4, <2>1, <2>2, GetColumnIsGood DEF ConversionInv
<1>5. CASE Explained("SQLFetch") \/ Explained("SQLGetData")
  BY <1>5, ExplainedIsGood
<1>6. CASE Diagnose
  <2>1. UNCHANGED <<charset, bindings, row, fetched, buffers, got, answer>> /\ DiagNext
    BY <1>6 DEF Diagnose
  <2>2. records \in Seq(Text)
    BY DEF ConversionInv, Sound
  <2>3. ReadFits' /\ NoTextLostUntold' /\ UNCHANGED records
    BY <2>1, <2>2, DiagStep
  <2>4. Sound'
    BY <2>1, <2>3 DEF ConversionInv, Sound
  <2>5. BuffersFit'
    BY <2>1 DEF ConversionInv, BuffersFit, Stays
  <2>6. DeliveredAsItIs'
    BY <2>1, DeliveryKept
  <2> QED
    BY <2>3, <2>4, <2>5, <2>6 DEF ConversionInv
<1>7. CASE UNCHANGED vars
  <2>1. Sound'
    BY <1>7 DEF vars, diagVars, ConversionInv, Sound
  <2>2. ReadFits' /\ NoTextLostUntold'
    BY <1>7, ReadingKept DEF vars, diagVars
  <2>3. BuffersFit'
    BY <1>7 DEF vars, ConversionInv, BuffersFit, Stays
  <2>4. DeliveredAsItIs'
    BY <1>7, DeliveryKept DEF vars
  <2> QED
    BY <2>1, <2>2, <2>3, <2>4 DEF ConversionInv
<1> QED
  BY <1>1, <1>2, <1>3, <1>4, <1>5, <1>6, <1>7 DEF Next, SQLFetch, SQLGetData

LEMMA AlwaysGood == Spec => []ConversionInv
<1> QED
  BY InitIsGood, NextIsGood, PTL DEF Spec

\* Nothing is written behind the end of a buffer of the application, for all values,
\* charsets and sizes, by a conversion (conversions.cpp 199-216, 625-685) or a diagnostic
\* call (utils.h 88-138), but into a wide buffer that has no room for one character: the
\* limit wraps around at 0 or 1 bytes of a column (conversions.cpp 633-635) and at 1 byte
\* of a diagnostic field (utils.h 210).
THEOREM WritesStayInBuffers == Spec => []WrittenFits
<1>1. ConversionInv => WrittenFits
  BY DEF ConversionInv, BuffersFit, Stays, WrittenFits
<1> QED
  BY <1>1, AlwaysGood, PTL

\* A diagnostic text that comes back in a buffer with SQL_SUCCESS is whole, for all
\* messages and all sizes a SQLSMALLINT can have, but for what the wide calls lose in
\* LostUntold: the last character, a buffer of more bytes than a SQLSMALLINT counts, a
\* text that needs more of them (entry_points.cpp 2511-2538, 3012-3017; utils.h 203-204).
THEOREM DiagnosticsAreWhole == Spec => []NoTextLostUntold
<1>1. ConversionInv => NoTextLostUntold
  BY DEF ConversionInv
<1> QED
  BY <1>1, AlwaysGood, PTL

\* A fetch that succeeds has put every bound column of its row into its buffer as it
\* is, and a SQLGetData its column, for all values, charsets and bindings, but for the
\* losses KnownLoss names: so no conversion fails or cuts a text in silence beside those
\* (handles.cpp 310-327, 745-754).
THEOREM ValuesArriveAsTheyAre == Spec => []DeliveredAsItIs
<1>1. ConversionInv => DeliveredAsItIs
  BY DEF ConversionInv
<1> QED
  BY <1>1, AlwaysGood, PTL

=============================================================================

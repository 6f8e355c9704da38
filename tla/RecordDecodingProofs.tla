------------------------ MODULE RecordDecodingProofs ------------------------
(***************************************************************************)
(* One download of rows, for any number of columns, whatever the columns   *)
(* hold, any length of the download and any number of damages.             *)
(*                                                                         *)
(* But for that of nothing, a body holds no checksum but those of the sent *)
(* records and of the sent download.  The checksum that the deserializer   *)
(* computes describes the record it gathers, so one that compares equal to *)
(* a sent record's is of a record that looks the same.  A body that was    *)
(* not damaged is read at the places where the columns of the records that *)
(* were sent, and the elements of their arrays, begin.                     *)
(***************************************************************************)
EXTENDS RecordDecoding, SequenceTheorems, WellFoundedInduction, TLAPS

LEMMA FirstCounterexample ==
  ASSUME NEW N \in Nat, NEW S \in SUBSET (0 .. N), S # {}
  PROVE  \E m \in S : m = 0 \/ (m - 1 \in 0 .. N /\ m - 1 \notin S)
<1>1. S \in SUBSET Nat  OBVIOUS
<1>2. PICK m \in S : \A n \in S : ~(<<n, m>> \in OpToRel(<, Nat))
  BY <1>1, NatLessThanWellFounded, WFMin
<1>3. m \in 0 .. N  OBVIOUS
<1>4. m - 1 \in Nat /\ m \in Nat => <<m - 1, m>> \in OpToRel(<, Nat)
  BY DEF OpToRel
<1>5. CASE m = 0  BY <1>5
<1>6. CASE m # 0
  <2>1. m - 1 \in 0 .. N /\ m - 1 \in Nat /\ m \in Nat  BY <1>3, <1>6
  <2>2. m - 1 \notin S  BY Zenon, <1>2, <1>4, <2>1
  <2>. QED  BY <2>1, <2>2
<1>. QED  BY <1>5, <1>6

-----------------------------------------------------------------------------
(* Sequences that are joined                                               *)

IsFlatten(f, ss) ==
  f = [i \in 1 .. Len(ss) |-> IF i = 1 THEN ss[i] ELSE f[i - 1] \o ss[i]]

\* The first k sequences of ss in one.
Joined(ss, k) == IF k = 0 THEN << >> ELSE (CHOOSE f : IsFlatten(f, ss))[k]

LEMMA FlattenExists ==
  ASSUME NEW T, NEW ss \in Seq(T)
  PROVE  \E f : IsFlatten(f, ss)
<1>. DEFINE Eq(f, n) == f = [i \in 1 .. n |-> IF i = 1 THEN ss[i] ELSE f[i - 1] \o ss[i]]
            Bad == {n \in 0 .. Len(ss) : ~\E f : Eq(f, n)}
<1>1. Len(ss) \in Nat  OBVIOUS
<1>2. SUFFICES ASSUME Bad # {}  PROVE FALSE
  <2>1. Len(ss) \in 0 .. Len(ss)  BY <1>1
  <2>2. \E f : Eq(f, Len(ss))  BY <2>1
  <2>. QED  BY <2>2 DEF IsFlatten
<1>3. PICK m \in Bad : m = 0 \/ (m - 1 \in 0 .. Len(ss) /\ m - 1 \notin Bad)
  <2>1. Bad \in SUBSET (0 .. Len(ss))  OBVIOUS
  <2>. HIDE DEF Bad
  <2>. QED  BY <1>1, <1>2, <2>1, FirstCounterexample
<1>4. m # 0
  <2>1. 1 .. 0 = {}  OBVIOUS
  <2>2. Eq([i \in 1 .. 0 |-> << >>], 0)  BY <2>1
  <2>. QED  BY <2>2
<1>5. PICK f : Eq(f, m - 1)  BY <1>3, <1>4
<1>. DEFINE g == [i \in 1 .. m |-> IF i = m THEN (IF i = 1 THEN ss[i] ELSE f[i - 1] \o ss[i])
                                   ELSE f[i]]
<1>6. ASSUME NEW i \in 1 .. m
      PROVE  g[i] = IF i = 1 THEN ss[i] ELSE g[i - 1] \o ss[i]
  <2>1. i # 1 => i - 1 \in 1 .. m /\ i - 1 # m  OBVIOUS
  <2>2. i # 1 => g[i - 1] = f[i - 1]  BY <2>1
  <2>3. CASE i = m  BY <2>2, <2>3
  <2>4. CASE i # m
    <3>1. i \in 1 .. m - 1  BY <1>3, <1>4, <2>4
    <3>2. f[i] = IF i = 1 THEN ss[i] ELSE f[i - 1] \o ss[i]  BY <1>5, <3>1
    <3>3. g[i] = f[i]  BY <2>4
    <3>. HIDE DEF g
    <3>. QED  BY Zenon, <2>2, <3>2, <3>3
  <2>. QED  BY <2>3, <2>4
<1>7. Eq(g, m)
  <2>1. g = [i \in 1 .. m |-> g[i]]  OBVIOUS
  <2>. HIDE DEF g
  <2>. QED  BY Zenon, <1>6, <2>1
<1>. QED  BY Zenon, <1>3, <1>7

LEMMA JoinedUnfolds ==
  ASSUME NEW T, NEW ss \in Seq(Seq(T))
  PROVE  /\ Joined(ss, 0) = << >>
         /\ \A k \in 1 .. Len(ss) : Joined(ss, k) = Joined(ss, k - 1) \o ss[k]
         /\ FlattenSeq(ss) = Joined(ss, Len(ss))
<1>. DEFINE f == CHOOSE f : IsFlatten(f, ss)
<1>1. IsFlatten(f, ss)  BY FlattenExists
<1>2. Len(ss) \in Nat  OBVIOUS
<1>3. FlattenSeq(ss) = Joined(ss, Len(ss))
  <2>1. CASE Len(ss) = 0
    <3>1. ss = << >>  BY <2>1
    <3>. QED  BY Zenon, <2>1, <3>1 DEF FlattenSeq, Joined
  <2>2. CASE Len(ss) # 0
    <3>1. FlattenSeq(ss) = f[Len(ss)]  BY Zenon, <2>2 DEF FlattenSeq, IsFlatten
    <3>2. Joined(ss, Len(ss)) = f[Len(ss)]  BY Zenon, <2>2 DEF Joined
    <3>. QED  BY Zenon, <3>1, <3>2
  <2>. QED  BY <2>1, <2>2
<1>4. ASSUME NEW k \in 1 .. Len(ss)  PROVE Joined(ss, k) = Joined(ss, k - 1) \o ss[k]
  <2>1. f[k] = IF k = 1 THEN ss[k] ELSE f[k - 1] \o ss[k]  BY Zenon, <1>1 DEF IsFlatten
  <2>2. Joined(ss, k) = f[k]
    <3>1. k # 0  OBVIOUS
    <3>. QED  BY Zenon, <3>1 DEF Joined
  <2>3. CASE k = 1
    <3>1. << >> \o ss[1] = ss[1]
      <4>1. ss[1] \in Seq(T)  BY <2>3
      <4>. QED  BY <4>1
    <3>2. Joined(ss, k - 1) = << >>  BY <2>3 DEF Joined
    <3>. HIDE DEF f
    <3>. QED  BY <2>1, <2>2, <2>3, <3>1, <3>2
  <2>4. CASE k # 1
    <3>1. Joined(ss, k - 1) = f[k - 1]
      <4>1. k - 1 # 0  BY <2>4
      <4>. QED  BY Zenon, <4>1 DEF Joined
    <3>. HIDE DEF f
    <3>. QED  BY Zenon, <2>1, <2>2, <2>4, <3>1
  <2>. QED  BY <2>3, <2>4
<1>5. Joined(ss, 0) = << >>  BY DEF Joined
<1>. QED  BY <1>3, <1>4, <1>5

LEMMA JoinedIsASequence ==
  ASSUME NEW T, NEW ss \in Seq(Seq(T))
  PROVE  \A k \in 0 .. Len(ss) : Joined(ss, k) \in Seq(T)
<1>. DEFINE Bad == {k \in 0 .. Len(ss) : Joined(ss, k) \notin Seq(T)}
<1>. SUFFICES ASSUME Bad # {}  PROVE FALSE  OBVIOUS
<1>1. Len(ss) \in Nat  OBVIOUS
<1>2. PICK m \in Bad : m = 0 \/ (m - 1 \in 0 .. Len(ss) /\ m - 1 \notin Bad)
  <2>1. Bad \in SUBSET (0 .. Len(ss))  OBVIOUS
  <2>. HIDE DEF Bad
  <2>. QED  BY <1>1, <2>1, FirstCounterexample
<1>3. m # 0
  <2>1. Joined(ss, 0) = << >>  BY DEF Joined
  <2>2. << >> \in Seq(T)  OBVIOUS
  <2>. QED  BY <2>1, <2>2
<1>4. m \in 1 .. Len(ss)  BY <1>1, <1>3
<1>5. Joined(ss, m) = Joined(ss, m - 1) \o ss[m]  BY <1>4, JoinedUnfolds
<1>6. Joined(ss, m - 1) \in Seq(T) /\ ss[m] \in Seq(T)  BY <1>2, <1>3, <1>4
<1>7. Joined(ss, m) \in Seq(T)  BY <1>5, <1>6
<1>. QED  BY <1>7

\* Where the elements of the sequences are.
LEMMA JoinedPlaces ==
  ASSUME NEW T, NEW ss \in Seq(Seq(T)), NEW k \in 1 .. Len(ss)
  PROVE  \A n \in k .. Len(ss) :
           /\ Len(Joined(ss, k)) <= Len(Joined(ss, n))
           /\ Len(Joined(ss, k)) = Len(Joined(ss, k - 1)) + Len(ss[k])
           /\ \A m \in 1 .. Len(ss[k]) :
                Joined(ss, n)[Len(Joined(ss, k - 1)) + m] = ss[k][m]
<1>. DEFINE off == Len(Joined(ss, k - 1))
            Good(n) == /\ Len(Joined(ss, k)) <= Len(Joined(ss, n))
                       /\ \A m \in 1 .. Len(ss[k]) : Joined(ss, n)[off + m] = ss[k][m]
            Bad == {d \in 0 .. Len(ss) - k : ~Good(k + d)}
<1>1. Len(ss) \in Nat /\ k \in Nat /\ Len(ss) - k \in Nat  OBVIOUS
<1>2. ss[k] \in Seq(T) /\ Joined(ss, k - 1) \in Seq(T) /\ off \in Nat
  <2>1. k - 1 \in 0 .. Len(ss)  OBVIOUS
  <2>. QED  BY <2>1, JoinedIsASequence
<1>3. Joined(ss, k) = Joined(ss, k - 1) \o ss[k]  BY JoinedUnfolds
<1>4. Len(Joined(ss, k)) = off + Len(ss[k])  BY <1>2, <1>3
<1>5. SUFFICES ASSUME Bad # {}  PROVE FALSE
  <2>1. ASSUME NEW n \in k .. Len(ss)  PROVE Good(n)
    <3>1. n - k \in 0 .. Len(ss) - k /\ k + (n - k) = n  BY <1>1
    <3>2. n - k \notin Bad  BY <1>5
    <3>. QED  BY Zenon, <3>1, <3>2
  <2>. QED  BY <1>4, <2>1
<1>6. PICK d \in Bad : d = 0 \/ (d - 1 \in 0 .. Len(ss) - k /\ d - 1 \notin Bad)
  <2>1. Bad \in SUBSET (0 .. Len(ss) - k)  OBVIOUS
  <2>. HIDE DEF Bad
  <2>. QED  BY <1>1, <1>5, <2>1, FirstCounterexample
<1>7. d # 0
  <2>1. Good(k)
    <3>. DEFINE A == Joined(ss, k - 1)
    <3>1. \A m \in 1 .. Len(ss[k]) : (A \o ss[k])[Len(A) + m] = ss[k][m]
      <4>. HIDE DEF A
      <4>. QED  BY <1>2 DEF A
    <3>2. \A m \in 1 .. Len(ss[k]) : Joined(ss, k)[off + m] = ss[k][m]
      <4>. HIDE DEF A
      <4>. QED  BY Zenon, <1>3, <3>1 DEF A
    <3>3. Len(Joined(ss, k)) <= Len(Joined(ss, k))
      <4>. HIDE DEF off
      <4>. QED  BY <1>2, <1>4
    <3>. QED  BY Zenon, <3>2, <3>3
  <2>2. k + 0 = k  OBVIOUS
  <2>. HIDE DEF Good
  <2>3. 0 \notin Bad  BY <2>1, <2>2
  <2>. QED  BY <2>3
<1>. DEFINE n == k + d
<1>8. n \in 1 .. Len(ss) /\ n - 1 \in 0 .. Len(ss) /\ k + (d - 1) = n - 1
  BY <1>1, <1>7
<1>9. Good(n - 1)
  <2>. HIDE DEF Good
  <2>. QED  BY <1>6, <1>7, <1>8
<1>10. Joined(ss, n) = Joined(ss, n - 1) \o ss[n]  BY <1>8, JoinedUnfolds
<1>11. Joined(ss, n - 1) \in Seq(T) /\ ss[n] \in Seq(T)  BY <1>8, JoinedIsASequence
<1>12. Good(n)
  <2>. DEFINE B == Joined(ss, n - 1)
  <2>1. B \in Seq(T) /\ Len(Joined(ss, k)) <= Len(B)  BY <1>9, <1>11
  <2>2. \A m \in 1 .. Len(ss[k]) : B[off + m] = ss[k][m]  BY <1>9
  <2>. HIDE DEF B, off, n
  <2>3. Len(B \o ss[n]) = Len(B) + Len(ss[n])  BY <1>11, <2>1
  <2>4. ASSUME NEW m \in 1 .. Len(ss[k])  PROVE (B \o ss[n])[off + m] = ss[k][m]
    <3>1. off + m \in 1 .. Len(B)
      <4>1. Len(B) \in Nat /\ Len(ss[k]) \in Nat  BY <1>2, <2>1
      <4>. QED  BY <1>2, <1>4, <2>1, <4>1
    <3>2. (B \o ss[n])[off + m] = B[off + m]  BY <1>11, <2>1, <3>1
    <3>. QED  BY <2>2, <3>2
  <2>5. Len(Joined(ss, k)) <= Len(B \o ss[n])  BY <1>2, <1>4, <1>11, <2>1, <2>3
  <2>6. Joined(ss, n) = B \o ss[n]  BY <1>10 DEF B
  <2>. QED  BY <2>4, <2>5, <2>6
<1>13. d \notin Bad
  <2>. HIDE DEF Good
  <2>. QED  BY <1>12
<1>. QED  BY <1>13

\* Every element is of one of the sequences.
LEMMA JoinedMembers ==
  ASSUME NEW T, NEW ss \in Seq(Seq(T))
  PROVE  \A n \in 0 .. Len(ss) : \A x \in 1 .. Len(Joined(ss, n)) :
           \E j \in 1 .. n : \E m \in 1 .. Len(ss[j]) : Joined(ss, n)[x] = ss[j][m]
<1>. DEFINE Good(n) == \A x \in 1 .. Len(Joined(ss, n)) :
                         \E k \in 1 .. n : \E m \in 1 .. Len(ss[k]) : Joined(ss, n)[x] = ss[k][m]
            Bad == {n \in 0 .. Len(ss) : ~Good(n)}
<1>. SUFFICES ASSUME Bad # {}  PROVE FALSE  OBVIOUS
<1>1. Len(ss) \in Nat  OBVIOUS
<1>2. PICK n \in Bad : n = 0 \/ (n - 1 \in 0 .. Len(ss) /\ n - 1 \notin Bad)
  <2>1. Bad \in SUBSET (0 .. Len(ss))  OBVIOUS
  <2>. HIDE DEF Bad
  <2>. QED  BY <1>1, <2>1, FirstCounterexample
<1>3. n # 0
  <2>1. Joined(ss, 0) = << >>  BY JoinedUnfolds
  <2>2. Len(<< >>) = 0  OBVIOUS
  <2>3. Good(0)  BY <2>1, <2>2
  <2>. HIDE DEF Good
  <2>. QED  BY <2>3
<1>4. n \in 1 .. Len(ss) /\ n - 1 \in 0 .. Len(ss)  BY <1>1, <1>3
<1>5. Joined(ss, n) = Joined(ss, n - 1) \o ss[n]  BY <1>4, JoinedUnfolds
<1>6. Joined(ss, n - 1) \in Seq(T) /\ ss[n] \in Seq(T)  BY <1>4, JoinedIsASequence
<1>. DEFINE B == Joined(ss, n - 1)
<1>7. Good(n - 1)
  <2>. HIDE DEF Good
  <2>. QED  BY <1>2, <1>3
<1>8. ASSUME NEW x \in 1 .. Len(Joined(ss, n))
      PROVE  \E k \in 1 .. n : \E m \in 1 .. Len(ss[k]) : Joined(ss, n)[x] = ss[k][m]
  <2>1. B \in Seq(T) /\ ss[n] \in Seq(T) /\ Joined(ss, n) = B \o ss[n]  BY <1>5, <1>6
  <2>2. CASE x \in 1 .. Len(B)
    <3>1. (B \o ss[n])[x] = B[x]
      <4>. HIDE DEF B
      <4>. QED  BY <2>1, <2>2
    <3>2. PICK k \in 1 .. n - 1 : \E m \in 1 .. Len(ss[k]) : B[x] = ss[k][m]  BY <1>7, <2>2
    <3>3. k \in 1 .. n  BY <1>4
    <3>. HIDE DEF B
    <3>. QED  BY <2>1, <3>1, <3>2, <3>3
  <2>3. CASE x \notin 1 .. Len(B)
    <3>. HIDE DEF B
    <3>1. x - Len(B) \in 1 .. Len(ss[n])
      <4>1. Len(B \o ss[n]) = Len(B) + Len(ss[n])  BY <2>1
      <4>2. x \in 1 .. Len(B) + Len(ss[n]) /\ Len(B) \in Nat /\ Len(ss[n]) \in Nat
        BY <2>1, <4>1
      <4>. QED  BY <2>3, <4>2
    <3>2. (B \o ss[n])[x] = ss[n][x - Len(B)]  BY <2>1, <2>3, <3>1
    <3>3. n \in 1 .. n  BY <1>4
    <3>. QED  BY <2>1, <3>1, <3>2, <3>3
  <2>. QED  BY <2>2, <2>3
<1>9. Good(n)  BY <1>8
<1>10. n \notin Bad
  <2>. HIDE DEF Good
  <2>. QED  BY <1>9
<1>. QED  BY <1>10

-----------------------------------------------------------------------------
(* What travels when rs was sent                                           *)

Wire(rs) == Items \cup {Number(n) : n \in Nat}
              \cup {RecordCrc(rs[i]) : i \in DOMAIN rs} \cup {DownloadCrc(rs)}

\* What an array may be read as, and what a column may.
Arrays == Seq(BodyItems \cup {Null})
ReadValues(c) == IF c \in ArrayColumns THEN Arrays ELSE BodyItems

Updates(rs) == {<<"column", c, item>> : c \in Columns, item \in Wire(rs)}

\* The parts that an array, a record, its checksum and a download are made of.
EncodedElements(array) == [k \in 1 .. Len(array) |-> EncodedElement(array[k])]
EncodedColumns(record) == [c \in Columns |-> EncodedColumn(c, record[c])]
UpdatesByColumn(record) == [c \in Columns |-> ColumnUpdates(c, record[c])]
EncodedRecords(rs) == [i \in 1 .. Len(rs) |-> EncodedRecord(rs[i])]

LEMMA SentIsRecords ==
  ASSUME NEW rs \in Downloads
  PROVE  /\ Len(rs) \in Nat /\ DOMAIN rs = 1 .. Len(rs)
         /\ \A i \in 1 .. Len(rs), c \in Columns : rs[i][c] = Null \/ rs[i][c] \in Values(c)
         /\ \A i \in 1 .. Len(rs) : rs[i] = [c \in Columns |-> rs[i][c]]
<1>1. rs \in Seq(Range(rs))  BY Zenon, ItemAssumption
<1>2. \A i \in DOMAIN rs, c \in Columns : rs[i][c] \in {Null} \cup Values(c)
  BY Zenon, ItemAssumption
<1>4. \A i \in DOMAIN rs : rs[i] = [c \in Columns |-> rs[i][c]]  BY Zenon, ItemAssumption
<1>3. Len(rs) \in Nat /\ DOMAIN rs = 1 .. Len(rs)  BY <1>1
<1>. QED  BY Zenon, <1>2, <1>3, <1>4

LEMMA ColumnsAreSequences ==
  ASSUME NEW T, NEW f, f = [c \in Columns |-> f[c]], \A c \in Columns : f[c] \in T
  PROVE  f \in Seq(T) /\ Len(f) = NumColumns
<1>1. NumColumns \in Nat /\ Columns = 1 .. NumColumns  BY DecodingAssumption DEF Columns
<1>2. f \in [1 .. NumColumns -> T]  BY <1>1
<1>. QED  BY <1>1, <1>2

LEMMA ValuesAreRead ==
  ASSUME NEW rs, NEW c \in Columns, NEW v \in Values(c)
  PROVE  v \in ReadValues(c) /\ Covered(c, v) \in Wire(rs)
<1>1. Items \subseteq Wire(rs) /\ Items \subseteq BodyItems  BY Zenon DEF Wire, BodyItems
<1>2. CASE c \in ArrayColumns
  <2>1. v \in Seq(Items \cup {Null})  BY <1>2 DEF Values
  <2>2. v \in Arrays /\ Len(v) \in Nat  BY <1>1, <2>1 DEF Arrays
  <2>3. Number(Len(v)) \in {Number(n) : n \in Nat}  BY <2>2
  <2>. QED  BY Zenon, <1>2, <2>2, <2>3 DEF Covered, ReadValues, Wire
<1>3. CASE c \notin ArrayColumns
  BY Zenon, <1>1, <1>3 DEF Values, ReadValues, Covered
<1>. QED  BY <1>2, <1>3

\* The elements of an array that is sent, one by one.
LEMMA ElementTypes ==
  ASSUME NEW rs, NEW array \in Seq(Items \cup {Null})
  PROVE  /\ EncodedElements(array) \in Seq(Seq(Wire(rs)))
         /\ Len(EncodedElements(array)) = Len(array) /\ Len(array) \in Nat
         /\ Elements(array) = Joined(EncodedElements(array), Len(array))
         /\ Elements(array) \in Seq(Wire(rs))
<1>. DEFINE es == EncodedElements(array)
<1>1. Len(array) \in Nat /\ \A k \in 1 .. Len(array) : array[k] \in Items \cup {Null}
  OBVIOUS
<1>2. ASSUME NEW k \in 1 .. Len(array)  PROVE EncodedElement(array[k]) \in Seq(Wire(rs))
  <2>1. Number(0) \in Wire(rs) /\ Number(1) \in Wire(rs)  BY Zenon, 0 \in Nat, 1 \in Nat DEF Wire
  <2>2. CASE array[k] = Null
    <3>1. <<Number(1)>> \in Seq(Wire(rs))  BY <2>1
    <3>. QED  BY Zenon, <2>2, <3>1 DEF EncodedElement
  <2>3. CASE array[k] # Null
    <3>1. array[k] \in Wire(rs)  BY Zenon, <1>1, <2>3 DEF Wire
    <3>2. <<Number(0), Number(0), array[k]>> \in Seq(Wire(rs))  BY <2>1, <3>1
    <3>. QED  BY Zenon, <2>3, <3>2 DEF EncodedElement
  <2>. QED  BY <2>2, <2>3
<1>3. es \in [1 .. Len(array) -> Seq(Wire(rs))]  BY Zenon, <1>2 DEF EncodedElements
<1>4. es \in Seq(Seq(Wire(rs))) /\ Len(es) = Len(array)
  <2>. HIDE DEF es
  <2>. QED  BY <1>1, <1>3
<1>5. Elements(array) = FlattenSeq(es)  BY Zenon DEF Elements, EncodedElements
<1>. HIDE DEF es
<1>6. Len(es) \in 0 .. Len(es)  BY <1>1, <1>4
<1>7. Elements(array) = Joined(es, Len(es)) /\ Joined(es, Len(es)) \in Seq(Wire(rs))
  BY Zenon, <1>4, <1>5, <1>6, JoinedUnfolds, JoinedIsASequence
<1>. QED  BY Zenon, <1>1, <1>4, <1>7 DEF es

LEMMA ColumnTypes ==
  ASSUME NEW rs \in Downloads, NEW i \in 1 .. Len(rs)
  PROVE  /\ EncodedColumns(rs[i]) \in Seq(Seq(Wire(rs)))
         /\ Len(EncodedColumns(rs[i])) = NumColumns
         /\ UpdatesByColumn(rs[i]) \in Seq(Seq(Updates(rs)))
         /\ Len(UpdatesByColumn(rs[i])) = NumColumns
<1>1. ASSUME NEW c \in Columns
      PROVE  /\ EncodedColumn(c, rs[i][c]) \in Seq(Wire(rs))
             /\ ColumnUpdates(c, rs[i][c]) \in Seq(Updates(rs))
  <2>1. CASE rs[i][c] = Null
    <3>1. << >> \in Seq(Wire(rs)) /\ << >> \in Seq(Updates(rs))  OBVIOUS
    <3>. QED  BY Zenon, <2>1, <3>1 DEF EncodedColumn, ColumnUpdates
  <2>2. CASE rs[i][c] # Null
    <3>. DEFINE v == rs[i][c]
    <3>1. v \in Values(c)  BY Zenon, <2>2, SentIsRecords
    <3>. HIDE DEF v
    <3>2. ColumnCrc(c, v) \in Updates(rs)
      <4>1. Covered(c, v) \in Wire(rs)  BY Zenon, <3>1, ValuesAreRead
      <4>. QED  BY <4>1 DEF ColumnCrc, Updates
    <3>3. <<ColumnCrc(c, v)>> \in Seq(Updates(rs))  BY <3>2
    <3>4. \A n \in Nat : Number(n) \in Wire(rs)  BY Zenon DEF Wire
    <3>5. Tag(c) \in Wire(rs)
      <4>1. 8 * c \in Nat  BY DEF Columns
      <4>. QED  BY Zenon, <3>4, <4>1 DEF Tag
    <3>6. Payload(c, v) \in Seq(Wire(rs))
      <4>1. CASE c \in ArrayColumns
        <5>1. v \in Seq(Items \cup {Null})
          BY Zenon, <3>1, <4>1 DEF Values
        <5>2. Len(v) \in Nat /\ Elements(v) \in Seq(Wire(rs))  BY <5>1, ElementTypes
        <5>3. Number(Len(v)) \in Wire(rs)  BY Zenon, <3>4, <5>2
        <5>4. <<Number(Len(v))>> \o Elements(v) \in Seq(Wire(rs))  BY <5>2, <5>3
        <5>. QED  BY Zenon, <4>1, <5>4 DEF Payload
      <4>2. CASE c \notin ArrayColumns
        <5>1. v \in Wire(rs)  BY Zenon, <3>1, <4>2 DEF Values, Wire
        <5>2. <<v>> \in Seq(Wire(rs))  BY <5>1
        <5>. QED  BY Zenon, <4>2, <5>2 DEF Payload
      <4>. QED  BY <4>1, <4>2
    <3>7. <<Tag(c)>> \o Payload(c, v) \in Seq(Wire(rs))  BY <3>5, <3>6
    <3>. QED  BY Zenon, <2>2, <3>3, <3>7 DEF v, EncodedColumn, ColumnUpdates
  <2>. QED  BY <2>1, <2>2
<1>2. ASSUME NEW c \in Columns
      PROVE  /\ EncodedColumns(rs[i])[c] = EncodedColumn(c, rs[i][c])
             /\ UpdatesByColumn(rs[i])[c] = ColumnUpdates(c, rs[i][c])
  BY Zenon DEF EncodedColumns, UpdatesByColumn
<1>3. EncodedColumns(rs[i]) = [c \in Columns |-> EncodedColumns(rs[i])[c]]
  BY Zenon, <1>2 DEF EncodedColumns
<1>4. UpdatesByColumn(rs[i]) = [c \in Columns |-> UpdatesByColumn(rs[i])[c]]
  BY Zenon, <1>2 DEF UpdatesByColumn
<1>5. \A c \in Columns : EncodedColumns(rs[i])[c] \in Seq(Wire(rs))  BY Zenon, <1>1, <1>2
<1>6. \A c \in Columns : UpdatesByColumn(rs[i])[c] \in Seq(Updates(rs))  BY Zenon, <1>1, <1>2
<1>7. EncodedColumns(rs[i]) \in Seq(Seq(Wire(rs))) /\ Len(EncodedColumns(rs[i])) = NumColumns
  BY Zenon, <1>3, <1>5, ColumnsAreSequences
<1>8. UpdatesByColumn(rs[i]) \in Seq(Seq(Updates(rs))) /\ Len(UpdatesByColumn(rs[i])) = NumColumns
  BY Zenon, <1>4, <1>6, ColumnsAreSequences
<1>. QED  BY <1>7, <1>8

LEMMA RecordTypes ==
  ASSUME NEW rs \in Downloads
  PROVE  /\ EncodedRecords(rs) \in Seq(Seq(Wire(rs)))
         /\ Len(EncodedRecords(rs)) = Len(rs)
         /\ FlattenSeq(EncodedRecords(rs)) \in Seq(Wire(rs))
         /\ EncodedDownload(rs) \in Seq(Wire(rs))
<1>1. Len(rs) \in Nat  BY SentIsRecords
<1>2. \A n \in Nat : Number(n) \in Wire(rs)  BY Zenon DEF Wire
<1>3. \A f \in Nat : Tag(f) \in Wire(rs)
  <2>1. \A f \in Nat : 8 * f \in Nat  OBVIOUS
  <2>. QED  BY Zenon, <1>2, <2>1 DEF Tag
<1>4. ASSUME NEW i \in 1 .. Len(rs)  PROVE EncodedRecord(rs[i]) \in Seq(Wire(rs))
  <2>. DEFINE cs == EncodedColumns(rs[i])
  <2>1. cs \in Seq(Seq(Wire(rs))) /\ Len(cs) = NumColumns  BY ColumnTypes
  <2>2. FlattenSeq(cs) \in Seq(Wire(rs))
    <3>1. Len(cs) \in 0 .. Len(cs)  BY <2>1
    <3>. HIDE DEF cs
    <3>. QED  BY Zenon, <2>1, <3>1, JoinedUnfolds, JoinedIsASequence
  <2>3. Tag(RECORD_END) \in Wire(rs)
    <3>1. RECORD_END \in Nat  BY DEF RECORD_END
    <3>. QED  BY Zenon, <1>3, <3>1
  <2>4. RecordCrc(rs[i]) \in Wire(rs)  BY Zenon, SentIsRecords DEF Wire
  <2>5. FlattenSeq(cs) \o <<Tag(RECORD_END), RecordCrc(rs[i])>> \in Seq(Wire(rs))
    <3>. HIDE DEF cs
    <3>. QED  BY <2>2, <2>3, <2>4
  <2>. QED  BY Zenon, <2>5 DEF EncodedRecord, EncodedColumns
<1>5. EncodedRecords(rs) \in [1 .. Len(rs) -> Seq(Wire(rs))]
  BY Zenon, <1>4 DEF EncodedRecords
<1>6. EncodedRecords(rs) \in Seq(Seq(Wire(rs))) /\ Len(EncodedRecords(rs)) = Len(rs)
  BY <1>1, <1>5
<1>7. FlattenSeq(EncodedRecords(rs)) \in Seq(Wire(rs))
  <2>1. Len(rs) \in 0 .. Len(rs)  BY <1>1
  <2>. QED  BY Zenon, <1>6, <2>1, JoinedUnfolds, JoinedIsASequence
<1>8. /\ Tag(META_TOTAL_RECORDS) \in Wire(rs) /\ Number(Len(rs)) \in Wire(rs)
      /\ Tag(META_CHECKSUM) \in Wire(rs) /\ DownloadCrc(rs) \in Wire(rs)
  <2>1. META_TOTAL_RECORDS \in Nat /\ META_CHECKSUM \in Nat
    BY DEF META_TOTAL_RECORDS, META_CHECKSUM
  <2>2. DownloadCrc(rs) \in Wire(rs)  BY Zenon DEF Wire
  <2>. QED  BY Zenon, <1>1, <1>2, <1>3, <2>1, <2>2
<1>9. EncodedDownload(rs) = FlattenSeq(EncodedRecords(rs))
        \o <<Tag(META_TOTAL_RECORDS), Number(Len(rs)), Tag(META_CHECKSUM), DownloadCrc(rs)>>
  BY Zenon DEF EncodedDownload, EncodedRecords
<1>10. EncodedDownload(rs) \in Seq(Wire(rs))  BY <1>7, <1>8, <1>9
<1>. QED  BY <1>6, <1>7, <1>10

\* A download that was sent is of the items that travel.
LEMMA EncodedIsBody ==
  ASSUME NEW rs \in Downloads
  PROVE  EncodedDownload(rs) \in Seq(BodyItems)
<1>. DEFINE e == EncodedDownload(rs)
<1>1. e \in Seq(Wire(rs))  BY RecordTypes
<1>2. Range(e) \subseteq BodyItems  BY Zenon DEF BodyItems
<1>3. \A k \in 1 .. Len(e) : e[k] \in Range(e)
  <2>. HIDE DEF e
  <2>. QED  BY <1>1 DEF Range
<1>. HIDE DEF e
<1>4. Len(e) \in Nat /\ e = [k \in 1 .. Len(e) |-> e[k]]  BY <1>1
<1>5. \A k \in 1 .. Len(e) : e[k] \in BodyItems  BY Zenon, <1>2, <1>3
<1>6. e \in [1 .. Len(e) -> BodyItems]  BY Zenon, <1>4, <1>5
<1>7. e \in Seq(BodyItems)  BY <1>4, <1>6
<1>. QED  BY <1>7 DEF e

-----------------------------------------------------------------------------
(* What a checksum says of a record                                        *)

RecordUpdates(record) == FlattenSeq(UpdatesByColumn(record))

\* u is of the columns of record that are not null, each with its value: it may
\* also be of an earlier value of such a column.
Describes(u, record) ==
  /\ \A k \in 1 .. Len(u) : \E c \in Columns : record[c] # Null /\ u[k][2] = c
  /\ \A c \in Columns : record[c] # Null => \E k \in 1 .. Len(u) : u[k] = ColumnCrc(c, record[c])

\* The same, and of no other value.
DescribesOnly(u, record) ==
  /\ Describes(u, record)
  /\ \A k \in 1 .. Len(u) : \E c \in Columns : record[c] # Null /\ u[k] = ColumnCrc(c, record[c])

LEMMA ColumnCrcParts ==
  ASSUME NEW c, NEW v
  PROVE  /\ ColumnCrc(c, v)[1] = "column" /\ ColumnCrc(c, v)[2] = c
         /\ ColumnCrc(c, v)[3] = Covered(c, v)
BY DEF ColumnCrc

LEMMA SentIsDescribed ==
  ASSUME NEW rs \in Downloads, NEW i \in 1 .. Len(rs)
  PROVE  /\ RecordCrc(rs[i]) = Crc(RecordUpdates(rs[i]))
         /\ RecordUpdates(rs[i]) \in Seq(Updates(rs))
         /\ DescribesOnly(RecordUpdates(rs[i]), rs[i])
<1>. DEFINE ss == UpdatesByColumn(rs[i])
            u == RecordUpdates(rs[i])
<1>1. ss \in Seq(Seq(Updates(rs))) /\ Len(ss) = NumColumns  BY ColumnTypes
<1>2. NumColumns \in Nat /\ Columns = 1 .. NumColumns  BY DecodingAssumption DEF Columns
<1>3. u = Joined(ss, NumColumns)  BY Zenon, <1>1, JoinedUnfolds DEF RecordUpdates
<1>4. \A c \in Columns : ss[c] = IF rs[i][c] = Null THEN <<>> ELSE <<ColumnCrc(c, rs[i][c])>>
  BY Zenon DEF UpdatesByColumn, ColumnUpdates
<1>5. RecordCrc(rs[i]) = Crc(u)  BY Zenon DEF RecordCrc, RecordUpdates, UpdatesByColumn
<1>. HIDE DEF ss
<1>6. u \in Seq(Updates(rs))
  <2>1. NumColumns \in 0 .. Len(ss)  BY <1>1, <1>2
  <2>. QED  BY Zenon, <1>1, <1>3, <2>1, JoinedIsASequence
<1>7. ASSUME NEW k \in 1 .. Len(u)
      PROVE  \E c \in Columns : rs[i][c] # Null /\ u[k] = ColumnCrc(c, rs[i][c])
  <2>1. NumColumns \in 0 .. Len(ss)  BY <1>1, <1>2
  <2>2. \E c \in 1 .. NumColumns : \E m \in 1 .. Len(ss[c]) : u[k] = ss[c][m]
    <3>1. ss \in Seq(Seq(Updates(rs))) /\ NumColumns \in 0 .. Len(ss)  BY <1>1, <2>1
    <3>2. k \in 1 .. Len(Joined(ss, NumColumns))  BY Zenon, <1>3
    <3>3. \E c \in 1 .. NumColumns : \E m \in 1 .. Len(ss[c]) : Joined(ss, NumColumns)[k] = ss[c][m]
      <4>. HIDE DEF u
      <4>. QED  BY <3>1, <3>2, JoinedMembers
    <3>. QED  BY Zenon, <1>3, <3>3
  <2>3. PICK c \in Columns : \E m \in 1 .. Len(ss[c]) : u[k] = ss[c][m]
    BY Zenon, <1>2, <2>2
  <2>4. PICK m \in 1 .. Len(ss[c]) : u[k] = ss[c][m]  BY <2>3
  <2>5. rs[i][c] # Null
    <3>1. SUFFICES ASSUME rs[i][c] = Null  PROVE FALSE  OBVIOUS
    <3>2. ss[c] = <<>>  BY Zenon, <1>4, <3>1
    <3>. QED  BY <3>2
  <2>6. ss[c] = <<ColumnCrc(c, rs[i][c])>>  BY Zenon, <1>4, <2>5
  <2>7. ss[c][m] = ColumnCrc(c, rs[i][c])  BY <2>6
  <2>. QED  BY Zenon, <2>4, <2>5, <2>7
<1>8. ASSUME NEW c \in Columns, rs[i][c] # Null
      PROVE  \E k \in 1 .. Len(u) : u[k] = ColumnCrc(c, rs[i][c])
  <2>1. c \in 1 .. Len(ss) /\ NumColumns \in c .. Len(ss) /\ c - 1 \in 0 .. Len(ss) /\ c \in 0 .. Len(ss)
    BY <1>1, <1>2
  <2>. DEFINE off == Len(Joined(ss, c - 1))
  <2>2. /\ Len(Joined(ss, c)) <= Len(u)
        /\ Len(Joined(ss, c)) = off + Len(ss[c])
        /\ \A m \in 1 .. Len(ss[c]) : u[off + m] = ss[c][m]
    <3>1. \A n \in c .. Len(ss) :
            /\ Len(Joined(ss, c)) <= Len(Joined(ss, n))
            /\ Len(Joined(ss, c)) = off + Len(ss[c])
            /\ \A m \in 1 .. Len(ss[c]) : Joined(ss, n)[off + m] = ss[c][m]
      BY Zenon, <1>1, <2>1, JoinedPlaces
    <3>. QED  BY Zenon, <1>3, <2>1, <3>1
  <2>3. off \in Nat /\ Len(u) \in Nat
    <3>1. Joined(ss, c - 1) \in Seq(Updates(rs))  BY <1>1, <2>1, JoinedIsASequence
    <3>. HIDE DEF u
    <3>. QED  BY <1>6, <3>1
  <2>4. ss[c] = <<ColumnCrc(c, rs[i][c])>>  BY Zenon, <1>4, <1>8
  <2>5. Len(ss[c]) = 1 /\ ss[c][1] = ColumnCrc(c, rs[i][c])  BY <2>4
  <2>6. off + 1 \in 1 .. Len(u) /\ u[off + 1] = ss[c][1]
    <3>. HIDE DEF off, u
    <3>1. 1 \in 1 .. Len(ss[c])  BY <2>5
    <3>2. u[off + 1] = ss[c][1]  BY Zenon, <2>2, <3>1
    <3>. QED  BY <2>2, <2>3, <2>5, <3>2
  <2>. QED  BY Zenon, <2>5, <2>6
<1>. HIDE DEF u
<1>9. DescribesOnly(u, rs[i])
  <2>1. \A k \in 1 .. Len(u) : \E c \in Columns : rs[i][c] # Null /\ u[k][2] = c
    BY <1>7, ColumnCrcParts
  <2>. QED  BY Zenon, <1>7, <1>8, <2>1 DEF DescribesOnly, Describes
<1>. QED  BY Zenon, <1>5, <1>6, <1>9 DEF u

\* Records with the same checksum look the same.
LEMMA SameChecksumSameRecord ==
  ASSUME NEW u, NEW r1, NEW r2, Describes(u, r1), DescribesOnly(u, r2)
  PROVE  Seen(r1) = Seen(r2)
<1>1. ASSUME NEW c \in Columns
      PROVE  /\ r1[c] = Null <=> r2[c] = Null
             /\ r1[c] # Null => Covered(c, r1[c]) = Covered(c, r2[c])
  <2>1. ASSUME r2[c] # Null  PROVE r1[c] # Null
    <3>1. PICK k \in 1 .. Len(u) : u[k] = ColumnCrc(c, r2[c])
      BY <2>1 DEF DescribesOnly, Describes
    <3>2. PICK d \in Columns : r1[d] # Null /\ u[k][2] = d  BY DEF Describes
    <3>3. d = c  BY <3>1, <3>2, ColumnCrcParts
    <3>. QED  BY <3>2, <3>3
  <2>2. ASSUME r1[c] # Null
        PROVE  r2[c] # Null /\ Covered(c, r1[c]) = Covered(c, r2[c])
    <3>1. PICK k \in 1 .. Len(u) : u[k] = ColumnCrc(c, r1[c])  BY <2>2 DEF Describes
    <3>2. PICK d \in Columns : r2[d] # Null /\ u[k] = ColumnCrc(d, r2[d])  BY DEF DescribesOnly
    <3>3. ColumnCrc(c, r1[c]) = ColumnCrc(d, r2[d])  BY <3>1, <3>2
    <3>4. d = c /\ Covered(c, r1[c]) = Covered(d, r2[d])  BY <3>3 DEF ColumnCrc
    <3>. QED  BY Zenon, <3>2, <3>4
  <2>. QED  BY <2>1, <2>2
<1>2. \A c \in Columns :
        (IF r1[c] = Null THEN Null ELSE Covered(c, r1[c]))
          = (IF r2[c] = Null THEN Null ELSE Covered(c, r2[c]))
  BY Zenon, <1>1
<1>. QED  BY Zenon, <1>2 DEF Seen

-----------------------------------------------------------------------------
(* Checksums among what travels                                            *)

LEMMA CrcParts ==
  /\ Crc(<< >>) = Number(0) /\ Number(0)[1] = "number"
  /\ \A u : u # << >> => Crc(u)[1] = "crc" /\ Crc(u)[2] = u
  /\ \A u : Crc(u)[1] # "column"
<1>1. Crc(<< >>) = Number(0)  BY DEF Crc
<1>2. Number(0)[1] = "number"  BY DEF Number
<1>3. ASSUME NEW u, u # << >>  PROVE Crc(u)[1] = "crc" /\ Crc(u)[2] = u
  <2>1. Crc(u) = <<"crc", u>>  BY Zenon, <1>3 DEF Crc
  <2>. QED  BY <2>1
<1>4. ASSUME NEW u  PROVE Crc(u)[1] # "column"
  <2>1. "crc" # "column" /\ "number" # "column"  OBVIOUS
  <2>. QED  BY Zenon, <1>1, <1>2, <1>3, <2>1
<1>. QED  BY Zenon, <1>1, <1>2, <1>3, <1>4

LEMMA CrcIsInjective ==
  ASSUME NEW u, NEW v, Crc(u) = Crc(v)
  PROVE  u = v
<1>1. "crc" # "number"  OBVIOUS
<1>2. CASE u = << >>  BY Zenon, <1>1, <1>2, CrcParts
<1>3. CASE v = << >>  BY Zenon, <1>1, <1>3, CrcParts
<1>4. CASE u # << >> /\ v # << >>  BY Zenon, <1>4, CrcParts
<1>. QED  BY <1>2, <1>3, <1>4

LEMMA ChecksumsThatTravel ==
  ASSUME NEW rs \in Downloads, NEW u, u # << >>, Crc(u) \in Wire(rs)
  PROVE  \/ \E i \in 1 .. Len(rs) : u = RecordUpdates(rs[i])
         \/ u = [i \in 1 .. Len(rs) |-> RecordCrc(rs[i])]
<1>1. Crc(u)[1] = "crc"  BY Zenon, CrcParts
<1>2. Crc(u) \notin Items  BY Zenon, <1>1, ItemAssumption
<1>3. Crc(u) \notin {Number(n) : n \in Nat}
  <2>1. \A n : Number(n)[1] = "number"  BY DEF Number
  <2>2. "number" # "crc"  OBVIOUS
  <2>. QED  BY Zenon, <1>1, <2>1, <2>2
<1>4. CASE Crc(u) = DownloadCrc(rs)
  BY Zenon, <1>4, CrcIsInjective DEF DownloadCrc
<1>5. CASE Crc(u) \in {RecordCrc(rs[i]) : i \in DOMAIN rs}
  <2>1. PICK i \in DOMAIN rs : Crc(u) = RecordCrc(rs[i])  BY Zenon, <1>5
  <2>2. i \in 1 .. Len(rs)  BY Zenon, <2>1, SentIsRecords
  <2>3. Crc(u) = Crc(RecordUpdates(rs[i]))  BY Zenon, <2>1, <2>2, SentIsDescribed
  <2>. QED  BY Zenon, <2>2, <2>3, CrcIsInjective
<1>. QED  BY Zenon, <1>2, <1>3, <1>4, <1>5 DEF Wire

\* A column is not a checksum.
LEMMA UpdatesAreNoChecksums ==
  ASSUME NEW rs, NEW u \in Seq(Updates(rs)), NEW v,
         NEW k \in 1 .. Len(u), u[k] = Crc(v)
  PROVE  FALSE
<1>1. PICK c \in Columns, x \in Wire(rs) : u[k] = <<"column", c, x>>  BY DEF Updates
<1>2. u[k][1] = "column"  BY <1>1
<1>. QED  BY Zenon, <1>2, CrcParts

-----------------------------------------------------------------------------
(* Types                                                                   *)

\* What a record may be read as.
RecordsRead == [Columns -> {Null} \cup BodyItems \cup Arrays]

RecordChecksums(rs) == {Crc(u) : u \in Seq(Updates(rs))}

Types ==
  /\ sent \in Downloads
  /\ body \in Seq(Wire(sent)) /\ body \in Seq(BodyItems)
  /\ damages \in Nat
  /\ damages = 0 => body = EncodedDownload(sent)
  /\ pos \in Nat
  /\ limitFrom = 0
  /\ current \in RecordsRead
  /\ nullMap \subseteq Columns
  /\ \A c \in nullMap : current[c] \in ReadValues(c)
  /\ column \in Columns /\ left \in Nat
  /\ left > 0 => column \in ArrayColumns /\ column \in nullMap
  /\ recordCrc \in Seq(Updates(sent))
  /\ crcOfCrc \in Seq(RecordChecksums(sent))
  /\ received \in Nat
  /\ records \in Seq(RecordsRead)

LEMMA EmptyIsRead ==
  EmptyRecord \in RecordsRead
<1>1. Null \in {Null} \cup BodyItems \cup Arrays  OBVIOUS
<1>. QED  BY Zenon, <1>1 DEF EmptyRecord, RecordsRead

LEMMA TypesInit == Init => Types
<1>. SUFFICES ASSUME Init  PROVE Types  OBVIOUS
<1>1. sent \in Downloads /\ body = EncodedDownload(sent)  BY DEF Init
<1>2. body \in Seq(Wire(sent)) /\ body \in Seq(BodyItems)
  BY Zenon, <1>1, RecordTypes, EncodedIsBody
<1>3. current \in RecordsRead  BY Zenon, EmptyIsRead DEF Init
<1>4. /\ recordCrc \in Seq(Updates(sent)) /\ crcOfCrc \in Seq(RecordChecksums(sent))
      /\ records \in Seq(RecordsRead)
  BY DEF Init
<1>5. /\ damages \in Nat /\ pos \in Nat /\ limitFrom = 0 /\ received \in Nat
      /\ nullMap = {} /\ column = 1 /\ left = 0
  BY DEF Init
<1>6. 1 \in Columns /\ 0 \in Nat /\ ~(0 > 0)  BY DecodingAssumption DEF Columns
<1>7. nullMap \subseteq Columns /\ \A c \in nullMap : current[c] \in ReadValues(c)
  BY <1>5
<1>. QED  BY Zenon, <1>1, <1>2, <1>3, <1>4, <1>5, <1>6, <1>7 DEF Types

\* The items that can still be read, within the limit.
LEMMA ReadableItems ==
  ASSUME Types
  PROVE  /\ Readable \in Int
         /\ \A k \in 1 .. Readable :
              /\ pos + k \in 1 .. Len(body)
              /\ Item(k) \in Wire(sent) /\ Item(k) \in BodyItems
              /\ FieldNumber(Item(k)) \in Nat
<1>1. Len(body) \in Nat /\ pos \in Nat /\ limitFrom = 0 /\ TotalBytesLimit \in Nat
  BY DecodingAssumption DEF Types
<1>2. Readable \in Int /\ Readable <= Len(body) - pos  BY <1>1 DEF Readable, Within
<1>3. ASSUME NEW k \in 1 .. Readable
      PROVE  /\ pos + k \in 1 .. Len(body)
             /\ Item(k) \in Wire(sent) /\ Item(k) \in BodyItems
             /\ FieldNumber(Item(k)) \in Nat
  <2>1. pos + k \in 1 .. Len(body)  BY <1>1, <1>2
  <2>2. Item(k) = body[pos + k]  BY DEF Item
  <2>3. body[pos + k] \in Wire(sent)
    <3>1. body \in Seq(Wire(sent))  BY DEF Types
    <3>. QED  BY <2>1, <3>1
  <2>4. body[pos + k] \in BodyItems
    <3>1. body \in Seq(BodyItems)  BY DEF Types
    <3>. QED  BY <2>1, <3>1
  <2>5. Item(k)[1] = "number" => Item(k)[2] \in Nat
    BY Zenon, <2>2, <2>4, ItemAssumption
  <2>6. FieldNumber(Item(k)) \in Nat  BY <2>5 DEF FieldNumber
  <2>. QED  BY Zenon, <2>1, <2>2, <2>3, <2>4, <2>6
<1>. QED  BY Zenon, <1>2, <1>3

\* A column that is read is one of the schema.
LEMMA FieldIsColumn ==
  ASSUME Types, AtField, IsColumn(Field)
  PROVE  Field \in Columns
<1>1. 1 \in 1 .. Readable  BY ReadableItems DEF AtField
<1>2. Field \in Nat  BY Zenon, <1>1, ReadableItems DEF Field
<1>3. NumColumns \in Nat  BY DecodingAssumption
<1>. QED  BY <1>2, <1>3 DEF IsColumn, Columns

\* No value that is read is null.
LEMMA ReadIsNotNull ==
  ASSUME Types, NEW c \in nullMap
  PROVE  current[c] # Null
<1>1. current[c] \in ReadValues(c) /\ c \in Columns  BY DEF Types
<1>2. Null \notin Arrays /\ Null \notin BodyItems  BY Zenon, ItemAssumption DEF Arrays
<1>. QED  BY <1>1, <1>2 DEF ReadValues

\* A column and the value it begins with: of an array, none of its elements.
LEMMA ReadIsTaken ==
  ASSUME Types, ReadScalar \/ ReadArray
  PROVE  /\ Field \in Columns /\ Item(2) \in Wire(sent) /\ Item(2) \in BodyItems
         /\ AtField
         /\ ReadArray => Field \in ArrayColumns /\ Item(2)[2] \in Nat /\ Item(2) = Number(Item(2)[2])
         /\ ReadScalar => Field \notin ArrayColumns
<1>1. AtField /\ IsColumn(Field) /\ Readable >= 2
  BY DEF ReadScalar, ReadArray, ScalarIsReadable, ArrayIsReadable
<1>2. Field \in Columns  BY <1>1, FieldIsColumn
<1>3. 2 \in 1 .. Readable  BY <1>1, ReadableItems
<1>4. Item(2) \in Wire(sent) /\ Item(2) \in BodyItems  BY Zenon, <1>3, ReadableItems
<1>5. ASSUME ReadArray  PROVE Item(2)[2] \in Nat /\ Item(2) = Number(Item(2)[2])
  <2>1. Item(2)[1] = "number"  BY <1>5 DEF ReadArray, ArrayIsReadable
  <2>. QED  BY Zenon, <1>4, <2>1, ItemAssumption
<1>. QED  BY Zenon, <1>1, <1>2, <1>4, <1>5 DEF ReadScalar, ReadArray

\* The element of an array that is read.
LEMMA ElementIsTaken ==
  ASSUME Types, ReadNull \/ ReadElement
  PROVE  AtElement /\ \E element \in BodyItems \cup {Null}, n \in Nat : TakeElement(element, n)
<1>1. CASE ReadNull
  <2>1. TakeElement(Null, 1) \/ TakeElement(Null, 2)  BY <1>1 DEF ReadNull
  <2>2. 1 \in Nat /\ 2 \in Nat /\ Null \in BodyItems \cup {Null}  OBVIOUS
  <2>. QED  BY Zenon, <1>1, <2>1, <2>2 DEF ReadNull
<1>2. CASE ReadElement
  <2>1. TakeElement(Item(3), 3) /\ AtElement /\ Readable >= 3
    BY <1>2 DEF ReadElement, ValueIsReadable
  <2>2. 3 \in 1 .. Readable  BY <2>1, ReadableItems
  <2>3. Item(3) \in BodyItems \cup {Null}  BY Zenon, <2>2, ReadableItems
  <2>4. 3 \in Nat  OBVIOUS
  <2>. QED  BY Zenon, <2>1, <2>3, <2>4
<1>. QED  BY <1>1, <1>2

\* The body after a damage.
LEMMA DamagedTypes ==
  ASSUME Types, OnTheWay
  PROVE  /\ body' \in Seq(Wire(sent)) /\ body' \in Seq(BodyItems)
         /\ \E newBody : Damage(newBody)
<1>. DEFINE W == Wire(sent)
<1>1. body \in Seq(W) /\ body \in Seq(BodyItems)  BY DEF Types
<1>2. Items \subseteq W /\ Items \subseteq BodyItems  BY Zenon DEF Wire, BodyItems
<1>. HIDE DEF W
<1>3. CASE Alter
  <2>1. PICK i \in DOMAIN body : \E item \in Items : Damage(ReplaceAt(body, i, item))
    BY Zenon, <1>3 DEF Alter
  <2>2. PICK item \in Items : Damage(ReplaceAt(body, i, item))  BY <2>1
  <2>3. body' = [body EXCEPT ![i] = item]  BY <2>2 DEF Damage, ReplaceAt
  <2>4. [body EXCEPT ![i] = item] \in Seq(W)  BY <1>1, <1>2
  <2>5. [body EXCEPT ![i] = item] \in Seq(BodyItems)  BY <1>1, <1>2
  <2>. QED  BY Zenon, <2>2, <2>3, <2>4, <2>5 DEF W
<1>4. CASE Lose
  <2>1. PICK i \in DOMAIN body : \E j \in i .. Len(body) :
          Damage(SubSeq(body, 1, i - 1) \o SubSeq(body, j + 1, Len(body)))
    BY Zenon, <1>4 DEF Lose
  <2>2. PICK j \in i .. Len(body) : Damage(SubSeq(body, 1, i - 1) \o SubSeq(body, j + 1, Len(body)))
    BY <2>1
  <2>. DEFINE new == SubSeq(body, 1, i - 1) \o SubSeq(body, j + 1, Len(body))
  <2>3. body' = new  BY <2>2 DEF Damage
  <2>4. i \in 1 .. Len(body) /\ j \in 1 .. Len(body)  BY <1>1
  <2>5. SubSeq(body, 1, i - 1) \in Seq(W) /\ SubSeq(body, j + 1, Len(body)) \in Seq(W)
    BY <1>1, <2>4
  <2>6. SubSeq(body, 1, i - 1) \in Seq(BodyItems) /\ SubSeq(body, j + 1, Len(body)) \in Seq(BodyItems)
    BY <1>1, <2>4
  <2>7. new \in Seq(W) /\ new \in Seq(BodyItems)  BY <2>5, <2>6
  <2>. QED  BY Zenon, <2>2, <2>3, <2>7 DEF W
<1>5. CASE Repeat
  <2>1. PICK i \in DOMAIN body : \E j \in i .. Len(body) :
          Damage(SubSeq(body, 1, j) \o SubSeq(body, i, Len(body)))
    BY Zenon, <1>5 DEF Repeat
  <2>2. PICK j \in i .. Len(body) : Damage(SubSeq(body, 1, j) \o SubSeq(body, i, Len(body)))
    BY <2>1
  <2>. DEFINE new == SubSeq(body, 1, j) \o SubSeq(body, i, Len(body))
  <2>3. body' = new  BY <2>2 DEF Damage
  <2>4. i \in 1 .. Len(body) /\ j \in 1 .. Len(body)  BY <1>1
  <2>5. SubSeq(body, 1, j) \in Seq(W) /\ SubSeq(body, i, Len(body)) \in Seq(W)
    BY <1>1, <2>4
  <2>6. SubSeq(body, 1, j) \in Seq(BodyItems) /\ SubSeq(body, i, Len(body)) \in Seq(BodyItems)
    BY <1>1, <2>4
  <2>7. new \in Seq(W) /\ new \in Seq(BodyItems)  BY <2>5, <2>6
  <2>. QED  BY Zenon, <2>2, <2>3, <2>7 DEF W
<1>. QED  BY <1>3, <1>4, <1>5 DEF OnTheWay

-----------------------------------------------------------------------------
(* Steps                                                                   *)

\* A step that takes a column: a scalar, or an array before its elements.
Taken ==
  /\ AtField /\ Field \in Columns /\ Item(2) \in Wire(sent)
  /\ \E value \in ReadValues(Field), n \in Nat :
       /\ TakeColumn(value, n)
       /\ n > 0 => Field \in ArrayColumns
       /\ Item(2) = IF Field \in ArrayColumns THEN Number(Len(value) + n) ELSE value

\* A step that takes an element.
ElementTaken ==
  AtElement /\ \E element \in BodyItems \cup {Null}, n \in Nat : TakeElement(element, n)

\* A step that goes on in the body and leaves the deserializer alone.
Skipped ==
  /\ EndOfStream \/ DropTag
  /\ AtField /\ pos' \in Nat /\ pos' > pos
  /\ status' \in {"decoding", "done"}
  /\ UNCHANGED <<sent, body, damages, deserializer, records>>

LEMMA Steps ==
  ASSUME Types, Next
  PROVE  \/ OnTheWay \/ Fail \/ BuildAndReturnRecord \/ Taken \/ ElementTaken \/ Skipped
         \/ UNCHANGED vars
<1>1. CASE UnexpectedEnd \/ RejectRecord \/ RejectColumn \/ RejectElement \/ RejectMeta
  BY <1>1 DEF UnexpectedEnd, RejectRecord, RejectColumn, RejectElement, RejectMeta
<1>2. CASE ReadScalar
  <2>1. /\ AtField /\ Field \in Columns /\ Field \notin ArrayColumns
        /\ Item(2) \in Wire(sent) /\ Item(2) \in BodyItems
    BY <1>2, ReadIsTaken
  <2>2. Item(2) \in ReadValues(Field)  BY Zenon, <2>1 DEF ReadValues
  <2>3. TakeColumn(Item(2), 0)  BY <1>2 DEF ReadScalar
  <2>4. 0 \in Nat /\ ~(0 > 0)  OBVIOUS
  <2>. QED  BY Zenon, <2>1, <2>2, <2>3, <2>4 DEF Taken
<1>3. CASE ReadArray
  <2>. DEFINE n == Item(2)[2]
  <2>1. /\ AtField /\ Field \in Columns /\ Field \in ArrayColumns
        /\ Item(2) \in Wire(sent) /\ n \in Nat /\ Item(2) = Number(n)
    BY Zenon, <1>3, ReadIsTaken
  <2>2. TakeColumn(<< >>, n)  BY <1>3 DEF ReadArray
  <2>. HIDE DEF n
  <2>3. << >> \in Arrays /\ Len(<< >>) + n = n  BY <2>1 DEF Arrays
  <2>4. << >> \in ReadValues(Field)  BY Zenon, <2>1, <2>3 DEF ReadValues
  <2>. QED  BY Zenon, <2>1, <2>2, <2>3, <2>4 DEF Taken
<1>4. CASE ReadNull \/ ReadElement
  BY Zenon, <1>4, ElementIsTaken DEF ElementTaken
<1>5. CASE EndOfStream
  <2>1. pos' \in Nat /\ pos' > pos  BY <1>5 DEF EndOfStream, Types
  <2>. QED  BY <1>5, <2>1 DEF EndOfStream, Skipped, AtField
<1>6. CASE DropTag
  <2>1. pos' \in Nat /\ pos' > pos  BY <1>6 DEF DropTag, Types
  <2>. QED  BY <1>6, <2>1 DEF DropTag, Skipped, AtField
<1>. QED  BY <1>1, <1>2, <1>3, <1>4, <1>5, <1>6 DEF Next, DeserializeNext, Returned

\* The record that is gathered.
Gathered == [c \in Columns |-> IF c \in nullMap THEN current[c] ELSE Null]

LEMMA GatheredIsRead ==
  ASSUME Types
  PROVE  Gathered \in RecordsRead
<1>1. \A c \in Columns : current[c] \in {Null} \cup BodyItems \cup Arrays
  BY DEF Types, RecordsRead
<1>2. ASSUME NEW c \in Columns
      PROVE  (IF c \in nullMap THEN current[c] ELSE Null) \in {Null} \cup BodyItems \cup Arrays
  BY Zenon, <1>1
<1>. QED  BY Zenon, <1>2 DEF Gathered, RecordsRead

\* BuildAndReturnRecord in short.
LEMMA RecordIsBuilt ==
  ASSUME Types, BuildAndReturnRecord
  PROVE  /\ Crc(recordCrc) \in Wire(sent)
         /\ body[pos + 1] = Item(1) /\ body[pos + 2] = Crc(recordCrc)
         /\ pos + 2 \in 1 .. Len(body) /\ FieldNumber(Item(1)) = RECORD_END
         /\ records' = Append(records, Gathered)
         /\ crcOfCrc' = Append(crcOfCrc, Crc(recordCrc))
         /\ recordCrc' = << >> /\ received' = received + 1 /\ pos' = pos + 2
         /\ limitFrom' = limitFrom /\ current' = EmptyRecord /\ nullMap' = {}
         /\ status = "decoding" /\ left = 0
         /\ UNCHANGED <<sent, body, damages, column, left, status>>
<1>1. 2 \in 1 .. Readable  BY ReadableItems DEF BuildAndReturnRecord
<1>2. Item(2) \in Wire(sent) /\ pos + 2 \in 1 .. Len(body)  BY Zenon, <1>1, ReadableItems
<1>3. Item(2) = Crc(recordCrc)  BY DEF BuildAndReturnRecord, ChecksumMatches
<1>4. ~(HandedOutSinceReset > TotalBytesLimit)
  BY DecodingAssumption DEF HandedOutSinceReset
<1>5. limitFrom' = limitFrom /\ current' = EmptyRecord /\ nullMap' = {}
  BY <1>4 DEF BuildAndReturnRecord, PrepareRecord
<1>6. recordCrc' = << >>  BY DEF BuildAndReturnRecord, ResetRecordCrc
<1>7. records' = Append(records, Gathered)  BY DEF BuildAndReturnRecord, Gathered
<1>8. /\ crcOfCrc' = Append(crcOfCrc, Crc(recordCrc)) /\ received' = received + 1
      /\ pos' = pos + 2 /\ status = "decoding" /\ left = 0
      /\ UNCHANGED <<sent, body, damages, column, left, status>>
  BY DEF BuildAndReturnRecord, AtField
<1>9. FieldNumber(Item(1)) = RECORD_END  BY DEF BuildAndReturnRecord, Field
<1>. QED  BY <1>2, <1>3, <1>5, <1>6, <1>7, <1>8, <1>9 DEF Item

LEMMA TypesStep ==
  ASSUME Types, [Next]_vars
  PROVE  Types'
<1>1. CASE OnTheWay
  <2>1. body' \in Seq(Wire(sent)) /\ body' \in Seq(BodyItems) /\ \E newBody : Damage(newBody)
    BY <1>1, DamagedTypes
  <2>2. PICK newBody : Damage(newBody)  BY <2>1
  <2>3. /\ damages' = damages + 1
        /\ UNCHANGED <<sent, pos, deserializer, records>>
    BY <2>2 DEF Damage
  <2>4. damages' \in Nat /\ damages' # 0  BY <2>3 DEF Types
  <2>. QED  BY <2>1, <2>3, <2>4 DEF Types, deserializer
<1>2. CASE Fail
  <2>1. records' \in Seq(RecordsRead)
    <3>1. << >> \in Seq(RecordsRead)  OBVIOUS
    <3>. QED  BY <1>2, <3>1 DEF Fail
  <2>. QED  BY <1>2, <2>1 DEF Fail, Types, deserializer
<1>3. CASE BuildAndReturnRecord
  <2>1. Append(records, Gathered) \in Seq(RecordsRead)
    <3>1. Gathered \in RecordsRead /\ records \in Seq(RecordsRead)
      BY GatheredIsRead DEF Types
    <3>. QED  BY <3>1
  <2>2. Append(crcOfCrc, Crc(recordCrc)) \in Seq(RecordChecksums(sent))
    <3>1. Crc(recordCrc) \in RecordChecksums(sent) /\ crcOfCrc \in Seq(RecordChecksums(sent))
      BY Zenon DEF Types, RecordChecksums
    <3>. QED  BY <3>1
  <2>3. EmptyRecord \in RecordsRead /\ << >> \in Seq(Updates(sent))  BY EmptyIsRead
  <2>4. pos + 2 \in Nat /\ received + 1 \in Nat  BY DEF Types
  <2>5. /\ records' = Append(records, Gathered) /\ crcOfCrc' = Append(crcOfCrc, Crc(recordCrc))
        /\ recordCrc' = << >> /\ received' = received + 1 /\ pos' = pos + 2
        /\ limitFrom' = limitFrom /\ current' = EmptyRecord /\ nullMap' = {} /\ left = 0
        /\ UNCHANGED <<sent, body, damages, column, left, status>>
    BY <1>3, RecordIsBuilt
  <2>6. /\ nullMap' \subseteq Columns /\ \A c \in nullMap' : current'[c] \in ReadValues(c)
        /\ left' \in Nat /\ ~(left' > 0)
    BY <2>5
  <2>7. Types  OBVIOUS
  <2>. QED  BY <2>1, <2>2, <2>3, <2>4, <2>5, <2>6, <2>7 DEF Types
<1>4. CASE Taken
  <2>1. Field \in Columns /\ Item(2) \in Wire(sent)  BY <1>4 DEF Taken
  <2>2. PICK value \in ReadValues(Field), n \in Nat :
          TakeColumn(value, n) /\ (n > 0 => Field \in ArrayColumns)
    BY Zenon, <1>4 DEF Taken
  <2>3. value \in {Null} \cup BodyItems \cup Arrays  BY <2>2 DEF ReadValues
  <2>4. [current EXCEPT ![Field] = value] \in RecordsRead
    BY <2>1, <2>3 DEF Types, RecordsRead
  <2>5. Append(recordCrc, <<"column", Field, Item(2)>>) \in Seq(Updates(sent))
    <3>1. <<"column", Field, Item(2)>> \in Updates(sent)  BY <2>1 DEF Updates
    <3>2. recordCrc \in Seq(Updates(sent))  BY DEF Types
    <3>. QED  BY <3>1, <3>2
  <2>6. nullMap \cup {Field} \subseteq Columns  BY <2>1 DEF Types
  <2>7. ASSUME NEW c \in nullMap \cup {Field}
        PROVE  [current EXCEPT ![Field] = value][c] \in ReadValues(c)
    <3>1. CASE c = Field
      <4>1. [current EXCEPT ![Field] = value][Field] = value  BY <2>1 DEF Types, RecordsRead
      <4>. QED  BY Zenon, <2>2, <3>1, <4>1
    <3>2. CASE c # Field
      <4>1. c \in nullMap  BY <2>7, <3>2
      <4>2. [current EXCEPT ![Field] = value][c] = current[c]
        BY <2>6, <3>2 DEF Types, RecordsRead
      <4>3. current[c] \in ReadValues(c)  BY <4>1 DEF Types
      <4>. QED  BY Zenon, <4>2, <4>3
    <3>. QED  BY <3>1, <3>2
  <2>8. pos + 2 \in Nat  BY DEF Types
  <2>9. /\ nullMap' = nullMap \cup {Field} /\ column' = Field /\ left' = n
        /\ recordCrc' = Append(recordCrc, <<"column", Field, Item(2)>>)
        /\ current' = [current EXCEPT ![Field] = value]
        /\ pos' = pos + 2
        /\ UNCHANGED <<sent, body, damages, limitFrom, crcOfCrc, received, records, status>>
    BY <2>2 DEF TakeColumn
  <2>10. nullMap' \subseteq Columns /\ \A c \in nullMap' : current'[c] \in ReadValues(c)
    BY Zenon, <2>6, <2>7, <2>9
  <2>11. /\ column' \in Columns /\ left' \in Nat
         /\ left' > 0 => column' \in ArrayColumns /\ column' \in nullMap'
    BY <2>1, <2>2, <2>9
  <2>12. Types  OBVIOUS
  <2>. QED  BY <2>4, <2>5, <2>8, <2>9, <2>10, <2>11, <2>12 DEF Types
<1>5. CASE ElementTaken
  <2>1. AtElement  BY <1>5 DEF ElementTaken
  <2>2. PICK element \in BodyItems \cup {Null}, n \in Nat : TakeElement(element, n)
    BY <1>5 DEF ElementTaken
  <2>3. /\ column \in Columns /\ column \in ArrayColumns /\ column \in nullMap
        /\ left \in Nat /\ left > 0
    BY <2>1 DEF AtElement, Types
  <2>4. current[column] \in Arrays  BY <2>3 DEF Types, ReadValues
  <2>5. Append(current[column], element) \in Arrays  BY <2>4 DEF Arrays
  <2>. DEFINE taken == [current EXCEPT ![column] = Append(current[column], element)]
  <2>6. /\ current' = taken /\ left' = left - 1 /\ pos' = pos + n
        /\ UNCHANGED <<sent, body, damages, limitFrom, nullMap, recordCrc, crcOfCrc, received,
                       column, records, status>>
    BY <2>2 DEF TakeElement
  <2>7. taken \in RecordsRead  BY <2>3, <2>5 DEF Types, RecordsRead
  <2>8. ASSUME NEW c \in nullMap  PROVE taken[c] \in ReadValues(c)
    <3>1. CASE c = column
      <4>1. taken[c] = Append(current[column], element)  BY <2>3, <3>1 DEF Types, RecordsRead
      <4>2. ReadValues(c) = Arrays  BY <2>3, <3>1 DEF ReadValues
      <4>. QED  BY Zenon, <2>5, <4>1, <4>2
    <3>2. CASE c # column
      <4>1. taken[c] = current[c]  BY <3>2 DEF Types, RecordsRead
      <4>2. current[c] \in ReadValues(c)  BY DEF Types
      <4>. QED  BY Zenon, <4>1, <4>2
    <3>. QED  BY <3>1, <3>2
  <2>. HIDE DEF taken
  <2>9. left' \in Nat /\ pos' \in Nat  BY <2>2, <2>3, <2>6 DEF Types
  <2>10. \A c \in nullMap' : current'[c] \in ReadValues(c)  BY Zenon, <2>6, <2>8
  <2>11. Types  OBVIOUS
  <2>. QED  BY <2>3, <2>6, <2>7, <2>9, <2>10, <2>11 DEF Types
<1>6. CASE Skipped  BY <1>6 DEF Skipped, Types, deserializer
<1>7. CASE UNCHANGED vars  BY <1>7 DEF Types, vars, deserializer
<1>. QED  BY <1>1, <1>2, <1>3, <1>4, <1>5, <1>6, <1>7, Steps

-----------------------------------------------------------------------------
(* The checksums describe what has been read                               *)

\* What a column has added to the checksum: of an array, also the elements that
\* are still to be read.
CoveredSoFar(c) ==
  IF c \in ArrayColumns
  THEN Number(Len(current[c]) + IF c = column THEN left ELSE 0)
  ELSE current[c]

Described ==
  /\ \A k \in 1 .. Len(recordCrc) : recordCrc[k][2] \in nullMap
  /\ \A c \in nullMap : \E k \in 1 .. Len(recordCrc) :
       recordCrc[k] = <<"column", c, CoveredSoFar(c)>>

LEMMA DescribedInit == Init => Described
<1>. SUFFICES ASSUME Init  PROVE Described  OBVIOUS
<1>1. recordCrc = << >> /\ nullMap = {}  BY DEF Init
<1>2. 1 .. Len(recordCrc) = {}  BY <1>1
<1>. QED  BY Zenon, <1>1, <1>2 DEF Described

LEMMA DescribedStep ==
  ASSUME Types, Described, [Next]_vars
  PROVE  Described'
<1>1. CASE UNCHANGED <<recordCrc, current, nullMap, column, left>>
  BY <1>1 DEF Described, CoveredSoFar
<1>2. CASE BuildAndReturnRecord
  <2>1. recordCrc' = << >> /\ nullMap' = {}  BY <1>2, RecordIsBuilt
  <2>2. 1 .. Len(recordCrc') = {}  BY <2>1
  <2>. QED  BY Zenon, <2>1, <2>2 DEF Described
<1>3. CASE Taken
  <2>0. PICK f : f = Field  OBVIOUS
  <2>1. f \in Columns /\ left = 0  BY <1>3, <2>0 DEF Taken, AtField
  <2>2. PICK value \in ReadValues(f), n \in Nat :
          /\ TakeColumn(value, n)
          /\ Item(2) = IF f \in ArrayColumns THEN Number(Len(value) + n) ELSE value
    BY Zenon, <1>3, <2>0 DEF Taken
  <2>. DEFINE u == recordCrc
  <2>3. PICK new : new = <<"column", f, Item(2)>>  OBVIOUS
  <2>. DEFINE v == Append(recordCrc, new)
  <2>4. /\ nullMap' = nullMap \cup {f} /\ recordCrc' = v
        /\ current' = [current EXCEPT ![f] = value]
        /\ column' = f /\ left' = n
    BY <2>0, <2>2, <2>3 DEF TakeColumn
  <2>5. /\ Len(v) = Len(u) + 1 /\ Len(u) \in Nat
        /\ v[Len(u) + 1] = new /\ new[2] = f
        /\ \A k \in 1 .. Len(u) : v[k] = u[k]
    <3>1. u \in Seq(Updates(sent))  BY DEF Types
    <3>2. new[2] = f  BY <2>3
    <3>. QED  BY <3>1, <3>2
  <2>6. current'[f] = value  BY <2>1, <2>4 DEF Types, RecordsRead
  <2>7. new = <<"column", f, CoveredSoFar(f)'>>
    <3>1. CoveredSoFar(f)' = IF f \in ArrayColumns THEN Number(Len(value) + n) ELSE value
      BY <2>4, <2>6 DEF CoveredSoFar
    <3>. QED  BY Zenon, <2>2, <2>3, <3>1
  <2>8. ASSUME NEW c \in nullMap, c # f
        PROVE  CoveredSoFar(c)' = CoveredSoFar(c)
    <3>1. current'[c] = current[c]  BY <2>4, <2>8 DEF Types, RecordsRead
    <3>. QED  BY <2>1, <2>4, <2>8, <3>1 DEF CoveredSoFar
  <2>. HIDE DEF u, v
  <2>9. ASSUME NEW k \in 1 .. Len(v)  PROVE v[k][2] \in nullMap'
    <3>1. CASE k = Len(u) + 1
      <4>1. v[k][2] = f  BY Zenon, <2>5, <3>1
      <4>. QED  BY <2>4, <4>1
    <3>2. CASE k # Len(u) + 1
      <4>1. k \in 1 .. Len(u)  BY <2>5, <3>2
      <4>2. u[k][2] \in nullMap  BY <4>1 DEF Described, u
      <4>3. v[k] = u[k]  BY <2>5, <4>1
      <4>. QED  BY <2>4, <4>2, <4>3
    <3>. QED  BY <3>1, <3>2
  <2>10. ASSUME NEW c \in nullMap'
        PROVE  \E k \in 1 .. Len(v) : v[k] = <<"column", c, CoveredSoFar(c)'>>
    <3>1. CASE c = f
      <4>1. Len(u) + 1 \in 1 .. Len(v)  BY <2>5
      <4>. QED  BY Zenon, <2>5, <2>7, <3>1, <4>1
    <3>2. CASE c # f
      <4>1. c \in nullMap  BY <2>4, <3>2
      <4>2. PICK k \in 1 .. Len(u) : u[k] = <<"column", c, CoveredSoFar(c)>>
        BY Zenon, <4>1 DEF Described, u
      <4>3. k \in 1 .. Len(v)  BY <2>5
      <4>4. CoveredSoFar(c)' = CoveredSoFar(c)  BY <2>8, <3>2, <4>1
      <4>. QED  BY Zenon, <2>5, <4>2, <4>3, <4>4
    <3>. QED  BY <3>1, <3>2
  <2>. QED  BY Zenon, <2>4, <2>9, <2>10 DEF Described
<1>4. CASE ElementTaken
  <2>1. PICK element \in BodyItems \cup {Null}, n \in Nat : TakeElement(element, n)
    BY <1>4 DEF ElementTaken
  <2>2. /\ column \in Columns /\ column \in ArrayColumns /\ column \in nullMap /\ left \in Nat
    BY <1>4 DEF ElementTaken, AtElement, Types
  <2>3. current[column] \in Arrays  BY <2>2 DEF Types, ReadValues
  <2>4. /\ current' = [current EXCEPT ![column] = Append(@, element)] /\ left' = left - 1
        /\ UNCHANGED <<recordCrc, nullMap, column>>
    BY <2>1 DEF TakeElement
  <2>5. ASSUME NEW c \in nullMap  PROVE CoveredSoFar(c)' = CoveredSoFar(c)
    <3>1. CASE c = column
      <4>1. current'[c] = Append(current[c], element)  BY <2>2, <2>4, <3>1 DEF Types, RecordsRead
      <4>2. Len(current'[c]) = Len(current[c]) + 1 /\ Len(current[c]) \in Nat
        BY <2>1, <2>3, <3>1, <4>1 DEF Arrays
      <4>3. Len(current'[c]) + left' = Len(current[c]) + left  BY <2>2, <2>4, <4>2
      <4>. QED  BY <2>2, <2>4, <3>1, <4>3 DEF CoveredSoFar
    <3>2. CASE c # column
      <4>1. current'[c] = current[c]  BY <2>4, <3>2 DEF Types, RecordsRead
      <4>. QED  BY <2>4, <3>2, <4>1 DEF CoveredSoFar
    <3>. QED  BY <3>1, <3>2
  <2>. QED  BY Zenon, <2>4, <2>5 DEF Described
<1>5. CASE OnTheWay
  <2>1. \E newBody : Damage(newBody)  BY <1>5, DamagedTypes
  <2>. QED  BY <1>1, <2>1 DEF Damage, deserializer
<1>6. CASE Fail  BY <1>1, <1>6 DEF Fail, deserializer
<1>7. CASE Skipped  BY <1>1, <1>7 DEF Skipped, deserializer
<1>8. CASE UNCHANGED vars  BY <1>1, <1>8 DEF vars, deserializer
<1>. QED  BY <1>2, <1>3, <1>4, <1>5, <1>6, <1>7, <1>8, Steps

\* Between two columns the checksum is of the record that has been gathered.
LEMMA GatheredIsDescribed ==
  ASSUME Types, Described, left = 0
  PROVE  Describes(recordCrc, Gathered)
<1>1. \A c \in Columns : Gathered[c] = IF c \in nullMap THEN current[c] ELSE Null
  BY Zenon DEF Gathered
<1>2. \A c \in Columns : Gathered[c] # Null <=> c \in nullMap
  BY Zenon, <1>1, ReadIsNotNull
<1>3. nullMap \subseteq Columns  BY DEF Types
<1>4. ASSUME NEW c \in nullMap  PROVE ColumnCrc(c, Gathered[c]) = <<"column", c, CoveredSoFar(c)>>
  <2>1. Gathered[c] = current[c]  BY Zenon, <1>1, <1>3
  <2>2. c \in ArrayColumns => Len(current[c]) \in Nat
    <3>1. c \in ArrayColumns => current[c] \in Arrays  BY DEF Types, ReadValues
    <3>. QED  BY <3>1 DEF Arrays
  <2>3. Covered(c, current[c]) = CoveredSoFar(c)  BY <2>2 DEF Covered, CoveredSoFar
  <2>. QED  BY Zenon, <2>1, <2>3 DEF ColumnCrc
<1>5. \A k \in 1 .. Len(recordCrc) : \E c \in Columns : Gathered[c] # Null /\ recordCrc[k][2] = c
  BY Zenon, <1>2, <1>3 DEF Described
<1>6. \A c \in Columns : Gathered[c] # Null =>
        \E k \in 1 .. Len(recordCrc) : recordCrc[k] = ColumnCrc(c, Gathered[c])
  BY Zenon, <1>2, <1>4 DEF Described
<1>. QED  BY Zenon, <1>5, <1>6 DEF Describes

RecordsDescribed ==
  status # "error" =>
    /\ Len(records) = received /\ Len(crcOfCrc) = received
    /\ \A i \in 1 .. received : \E u : crcOfCrc[i] = Crc(u) /\ Describes(u, records[i])

LEMMA RecordsDescribedInit == Init => RecordsDescribed
<1>. SUFFICES ASSUME Init  PROVE RecordsDescribed  OBVIOUS
<1>1. records = << >> /\ crcOfCrc = << >> /\ received = 0  BY DEF Init
<1>2. Len(<< >>) = 0 /\ 1 .. 0 = {}  OBVIOUS
<1>. QED  BY Zenon, <1>1, <1>2 DEF RecordsDescribed

LEMMA RecordsDescribedStep ==
  ASSUME Types, Described, RecordsDescribed, [Next]_vars
  PROVE  RecordsDescribed'
<1>1. CASE UNCHANGED <<records, crcOfCrc, received>> /\ status # "error"
  BY <1>1 DEF RecordsDescribed
<1>2. CASE BuildAndReturnRecord
  <2>. DEFINE rs == Append(records, Gathered)
              cs == Append(crcOfCrc, Crc(recordCrc))
  <2>1. records' = rs /\ crcOfCrc' = cs /\ received' = received + 1 /\ status = "decoding"
    BY <1>2, RecordIsBuilt
  <2>6. left = 0  BY <1>2, RecordIsBuilt
  <2>2. Len(records) = received /\ Len(crcOfCrc) = received /\ received \in Nat
    BY <2>1 DEF RecordsDescribed, Types
  <2>3. records \in Seq(RecordsRead) /\ crcOfCrc \in Seq(RecordChecksums(sent))
    BY DEF Types
  <2>4. /\ Len(rs) = received + 1 /\ Len(cs) = received + 1
        /\ rs[received + 1] = Gathered /\ cs[received + 1] = Crc(recordCrc)
        /\ \A i \in 1 .. received : rs[i] = records[i] /\ cs[i] = crcOfCrc[i]
    BY <2>2, <2>3
  <2>. HIDE DEF rs, cs
  <2>5. ASSUME NEW i \in 1 .. received + 1
        PROVE  \E u : cs[i] = Crc(u) /\ Describes(u, rs[i])
    <3>1. CASE i = received + 1
      BY Zenon, <2>4, <2>6, <3>1, GatheredIsDescribed
    <3>2. CASE i # received + 1
      <4>1. i \in 1 .. received  BY <2>2, <3>2
      <4>2. PICK u : crcOfCrc[i] = Crc(u) /\ Describes(u, records[i])
        BY Zenon, <2>1, <4>1 DEF RecordsDescribed
      <4>. QED  BY Zenon, <2>4, <4>1, <4>2
    <3>. QED  BY <3>1, <3>2
  <2>. QED  BY Zenon, <2>1, <2>4, <2>5 DEF RecordsDescribed
<1>3. CASE Taken
  <2>1. UNCHANGED <<records, crcOfCrc, received>>  BY <1>3 DEF Taken, TakeColumn
  <2>. QED  BY <1>1, <1>3, <2>1 DEF Taken, AtField
<1>8. CASE ElementTaken
  <2>1. UNCHANGED <<records, crcOfCrc, received>>  BY <1>8 DEF ElementTaken, TakeElement
  <2>. QED  BY <1>1, <1>8, <2>1 DEF ElementTaken, AtElement
<1>4. CASE OnTheWay
  <2>1. \E newBody : Damage(newBody)  BY <1>4, DamagedTypes
  <2>. QED  BY <1>1, <2>1 DEF Damage, deserializer
<1>5. CASE Fail  BY <1>5 DEF Fail, RecordsDescribed
<1>6. CASE Skipped  BY <1>1, <1>6 DEF Skipped, AtField, deserializer
<1>7. CASE UNCHANGED vars  BY <1>7 DEF RecordsDescribed, vars, deserializer
<1>. QED  BY <1>2, <1>3, <1>4, <1>5, <1>6, <1>7, <1>8, Steps

-----------------------------------------------------------------------------
(* What is delivered, and what is accepted                                 *)

SentLooksLike(record) == \E j \in 1 .. Len(sent) : Seen(record) = Seen(sent[j])

Delivered ==
  \A i \in 1 .. Len(records) : records[i] = EmptyRecord \/ SentLooksLike(records[i])

\* A checksum of nothing is of a record without any value; another one is the
\* checksum of a record that was sent.
LEMMA BuiltWasSent ==
  ASSUME Types, Described, BuildAndReturnRecord
  PROVE  Gathered = EmptyRecord \/ SentLooksLike(Gathered)
<1>1. sent \in Downloads /\ recordCrc \in Seq(Updates(sent))  BY DEF Types
<1>2. CASE recordCrc = << >>
  <2>1. 1 .. Len(recordCrc) = {}  BY <1>2
  <2>2. \A c : c \notin nullMap  BY Zenon, <2>1 DEF Described
  <2>. QED  BY Zenon, <2>2 DEF Gathered, EmptyRecord
<1>3. CASE recordCrc # << >>
  <2>1. Crc(recordCrc) \in Wire(sent) /\ left = 0  BY RecordIsBuilt
  <2>2. ASSUME recordCrc = [i \in 1 .. Len(sent) |-> RecordCrc(sent[i])]  PROVE FALSE
    <3>1. Len(recordCrc) \in Nat /\ Len(recordCrc) # 0  BY <1>1, <1>3
    <3>2. Len(sent) \in Nat  BY <1>1, SentIsRecords
    <3>3. Len(recordCrc) = Len(sent)  BY <2>2, <3>1, <3>2
    <3>4. 1 \in 1 .. Len(sent) /\ 1 \in 1 .. Len(recordCrc)  BY <3>1, <3>3
    <3>5. recordCrc[1] = Crc(RecordUpdates(sent[1]))
      BY Zenon, <1>1, <2>2, <3>4, SentIsDescribed
    <3>. QED  BY Zenon, <1>1, <3>4, <3>5, UpdatesAreNoChecksums
  <2>3. PICK j \in 1 .. Len(sent) : recordCrc = RecordUpdates(sent[j])
    BY Zenon, <1>1, <1>3, <2>1, <2>2, ChecksumsThatTravel
  <2>4. DescribesOnly(recordCrc, sent[j])  BY Zenon, <1>1, <2>3, SentIsDescribed
  <2>5. Seen(Gathered) = Seen(sent[j])
    BY Zenon, <2>1, <2>4, SameChecksumSameRecord, GatheredIsDescribed
  <2>. QED  BY <2>5 DEF SentLooksLike
<1>. QED  BY <1>2, <1>3

LEMMA DeliveredInit == Init => Delivered
<1>. SUFFICES ASSUME Init  PROVE Delivered  OBVIOUS
<1>1. 1 .. Len(records) = {}  BY DEF Init
<1>. QED  BY Zenon, <1>1 DEF Delivered

LEMMA DeliveredStep ==
  ASSUME Types, Described, Delivered, [Next]_vars
  PROVE  Delivered'
<1>1. CASE UNCHANGED <<sent, records>>
  BY <1>1 DEF Delivered, SentLooksLike
<1>2. CASE OnTheWay
  <2>1. PICK newBody : Damage(newBody)  BY <1>2, DamagedTypes
  <2>. QED  BY <1>1, <2>1 DEF Damage
<1>3. CASE Fail
  <2>1. 1 .. Len(records') = {}  BY <1>3 DEF Fail
  <2>. QED  BY Zenon, <2>1 DEF Delivered
<1>4. CASE BuildAndReturnRecord
  <2>. DEFINE rs == Append(records, Gathered)
  <2>1. sent' = sent /\ records' = rs  BY <1>4, RecordIsBuilt
  <2>2. records \in Seq(RecordsRead)  BY DEF Types
  <2>3. /\ Len(rs) = Len(records) + 1 /\ Len(records) \in Nat
        /\ rs[Len(records) + 1] = Gathered
        /\ \A i \in 1 .. Len(records) : rs[i] = records[i]
    BY <2>2
  <2>. HIDE DEF rs
  <2>4. ASSUME NEW i \in 1 .. Len(rs)
        PROVE  rs[i] = EmptyRecord \/ SentLooksLike(rs[i])
    <3>1. CASE i = Len(records) + 1
      <4>1. Gathered = EmptyRecord \/ SentLooksLike(Gathered)  BY <1>4, BuiltWasSent
      <4>. QED  BY Zenon, <2>3, <3>1, <4>1
    <3>2. CASE i # Len(records) + 1
      <4>1. i \in 1 .. Len(records)  BY <2>3, <3>2
      <4>. QED  BY Zenon, <2>3, <4>1 DEF Delivered
    <3>. QED  BY <3>1, <3>2
  <2>. QED  BY Zenon, <2>1, <2>4 DEF Delivered, SentLooksLike
<1>5. CASE Taken  BY <1>1, <1>5 DEF Taken, TakeColumn
<1>8. CASE ElementTaken  BY <1>1, <1>8 DEF ElementTaken, TakeElement
<1>6. CASE Skipped  BY <1>1, <1>6 DEF Skipped
<1>7. CASE UNCHANGED vars  BY <1>1, <1>7 DEF vars
<1>. QED  BY <1>2, <1>3, <1>4, <1>5, <1>6, <1>7, <1>8, Steps

Accepted ==
  status = "done" =>
    \/ records = << >>
    \/ /\ Len(records) = Len(sent)
       /\ \A i \in 1 .. Len(sent) : Seen(records[i]) = Seen(sent[i])

\* A checksum of nothing is of no records; another one is that of the download.
LEMMA AcceptedAtTheEnd ==
  ASSUME Types, RecordsDescribed, EndOfStream
  PROVE  \/ records = << >>
         \/ /\ Len(records) = Len(sent)
            /\ \A i \in 1 .. Len(sent) : Seen(records[i]) = Seen(sent[i])
<1>1. /\ sent \in Downloads /\ crcOfCrc \in Seq(RecordChecksums(sent))
      /\ records \in Seq(RecordsRead)
  BY DEF Types
<1>2. /\ Len(records) = received /\ Len(crcOfCrc) = received /\ received \in Nat
      /\ \A i \in 1 .. received : \E u : crcOfCrc[i] = Crc(u) /\ Describes(u, records[i])
  BY DEF RecordsDescribed, EndOfStream, AtField, Types
<1>3. Crc(crcOfCrc) \in Wire(sent)
  <2>1. 4 \in 1 .. Readable /\ Item(4) = Crc(crcOfCrc)
    BY ReadableItems DEF EndOfStream, FinalChecksumMatches
  <2>. QED  BY Zenon, <2>1, ReadableItems
<1>4. CASE crcOfCrc = << >>
  <2>1. Len(records) = 0  BY <1>2, <1>4
  <2>. QED  BY <1>1, <2>1
<1>5. CASE crcOfCrc = [i \in 1 .. Len(sent) |-> RecordCrc(sent[i])]
  <2>1. Len(sent) \in Nat  BY <1>1, SentIsRecords
  <2>2. Len(crcOfCrc) = Len(sent)  BY <1>1, <1>5, <2>1
  <2>3. ASSUME NEW i \in 1 .. Len(sent)  PROVE Seen(records[i]) = Seen(sent[i])
    <3>1. PICK u : crcOfCrc[i] = Crc(u) /\ Describes(u, records[i])
      BY Zenon, <1>2, <2>2
    <3>2. crcOfCrc[i] = Crc(RecordUpdates(sent[i])) /\ DescribesOnly(RecordUpdates(sent[i]), sent[i])
      BY Zenon, <1>1, <1>5, SentIsDescribed
    <3>3. u = RecordUpdates(sent[i])  BY Zenon, <3>1, <3>2, CrcIsInjective
    <3>. QED  BY Zenon, <3>1, <3>2, <3>3, SameChecksumSameRecord
  <2>. QED  BY Zenon, <1>2, <2>2, <2>3
<1>6. CASE crcOfCrc # << >> /\ \E j \in 1 .. Len(sent) : crcOfCrc = RecordUpdates(sent[j])
  <2>1. crcOfCrc \in Seq(Updates(sent))  BY Zenon, <1>1, <1>6, SentIsDescribed
  <2>2. 1 \in 1 .. received /\ 1 \in 1 .. Len(crcOfCrc)
    <3>1. Len(crcOfCrc) # 0  BY <1>1, <1>6
    <3>. QED  BY <1>2, <3>1
  <2>3. PICK u : crcOfCrc[1] = Crc(u)  BY Zenon, <1>2, <2>2
  <2>. QED  BY Zenon, <2>1, <2>2, <2>3, UpdatesAreNoChecksums
<1>. QED  BY Zenon, <1>1, <1>3, <1>4, <1>5, <1>6, ChecksumsThatTravel

LEMMA AcceptedStep ==
  ASSUME Types, RecordsDescribed, Accepted, [Next]_vars
  PROVE  Accepted'
<1>1. CASE status' # "done"  BY <1>1 DEF Accepted
<1>2. CASE UNCHANGED vars  BY <1>2 DEF Accepted, vars
<1>3. CASE EndOfStream
  <2>1. sent' = sent /\ records' = records  BY <1>3 DEF EndOfStream
  <2>. QED  BY Zenon, <1>3, <2>1, AcceptedAtTheEnd DEF Accepted
<1>4. CASE Fail  BY <1>1, <1>4 DEF Fail
<1>5. CASE OnTheWay
  <2>1. \E newBody : Damage(newBody)  BY <1>5, DamagedTypes
  <2>. QED  BY <1>1, <2>1 DEF Damage
<1>6. CASE BuildAndReturnRecord  BY <1>1, <1>6, RecordIsBuilt
<1>7. CASE Taken  BY <1>1, <1>7 DEF Taken, TakeColumn, AtField
<1>8. CASE DropTag  BY <1>1, <1>8 DEF DropTag, AtField
<1>9. CASE ElementTaken  BY <1>1, <1>9 DEF ElementTaken, TakeElement, AtElement
<1>. QED  BY <1>2, <1>3, <1>4, <1>5, <1>6, <1>7, <1>8, <1>9, Steps DEF Skipped

\* The inductive invariant of a download.
DownloadInv == Types /\ Described /\ RecordsDescribed /\ Delivered /\ Accepted

LEMMA DownloadIsInvariant == Spec => []DownloadInv
<1>1. Init => DownloadInv
  <2>1. Init => Accepted  BY DEF Init, Accepted
  <2>. QED  BY <2>1, TypesInit, DescribedInit, RecordsDescribedInit, DeliveredInit
         DEF DownloadInv
<1>2. DownloadInv /\ [Next]_vars => DownloadInv'
  BY TypesStep, DescribedStep, RecordsDescribedStep, DeliveredStep, AcceptedStep
     DEF DownloadInv
<1>. QED  BY <1>1, <1>2, PTL DEF Spec

LEMMA RecordsDomain ==
  ASSUME Types
  PROVE  DOMAIN records = 1 .. Len(records) /\ DOMAIN sent = 1 .. Len(sent)
<1>1. records \in Seq(RecordsRead) /\ sent \in Downloads  BY DEF Types
<1>2. DOMAIN records = 1 .. Len(records)  BY <1>1
<1>. QED  BY <1>1, <1>2, SentIsRecords

\* Every record that deserializeNext returns, however often the body was damaged,
\* is without any value or looks like one that the server sent.
THEOREM DeliveredRecordsWereSent == Spec => []DeliveredIsSent
<1>1. DownloadInv => DeliveredIsSent
  <2>. SUFFICES ASSUME DownloadInv, NEW i \in DOMAIN records
                PROVE  \/ records[i] = EmptyRecord
                       \/ \E j \in DOMAIN sent : Seen(records[i]) = Seen(sent[j])
    BY Zenon DEF DeliveredIsSent
  <2>1. i \in 1 .. Len(records) /\ DOMAIN sent = 1 .. Len(sent)
    BY Zenon, RecordsDomain DEF DownloadInv
  <2>2. records[i] = EmptyRecord \/ SentLooksLike(records[i])
    BY Zenon, <2>1 DEF DownloadInv, Delivered
  <2>. QED  BY Zenon, <2>1, <2>2 DEF SentLooksLike
<1>. QED  BY <1>1, DownloadIsInvariant, PTL

\* Whatever happened to the body on its way: the records that downloadDataTask
\* returns, if it returns any, are those that were sent, in order.
THEOREM AcceptedRecordsWereSent == Spec => []AcceptedIsSent
<1>1. DownloadInv => AcceptedIsSent
  <2>. SUFFICES ASSUME DownloadInv, status = "done", records # << >>
                PROVE  /\ Len(records) = Len(sent)
                       /\ \A i \in DOMAIN sent : Seen(records[i]) = Seen(sent[i])
    BY Zenon DEF AcceptedIsSent
  <2>1. DOMAIN sent = 1 .. Len(sent)  BY Zenon, RecordsDomain DEF DownloadInv
  <2>. QED  BY Zenon, <2>1 DEF DownloadInv, Accepted
<1>. QED  BY <1>1, DownloadIsInvariant, PTL

-----------------------------------------------------------------------------
(* The places in a download that was not damaged                           *)

\* Items of the first r records, of the first c columns of a record, and of the
\* first e elements of an array.
RecordOffset(rs, r) == Len(Joined(EncodedRecords(rs), r))
ColumnOffset(record, c) == Len(Joined(EncodedColumns(record), c))
ElementOffset(array, e) == Len(Joined(EncodedElements(array), e))

LEMMA FieldOfTag ==
  ASSUME NEW f \in Nat
  PROVE  FieldNumber(Tag(f)) = f /\ Tag(f)[1] = "number"
<1>1. (8 * f) \div 8 = f  OBVIOUS
<1>2. Tag(f)[1] = "number" /\ Tag(f)[2] = 8 * f  BY DEF Tag, Number
<1>. QED  BY Zenon, <1>1, <1>2 DEF FieldNumber

LEMMA ElementOffsets ==
  ASSUME NEW array \in Seq(Items \cup {Null})
  PROVE  /\ ElementOffset(array, 0) = 0
         /\ \A e \in 0 .. Len(array) : ElementOffset(array, e) \in Nat
         /\ ElementOffset(array, Len(array)) = Len(Elements(array))
         /\ \A e \in 1 .. Len(array) :
              /\ ElementOffset(array, e) = ElementOffset(array, e - 1) + Len(EncodedElement(array[e]))
              /\ ElementOffset(array, e) <= Len(Elements(array))
              /\ \A m \in 1 .. Len(EncodedElement(array[e])) :
                   Elements(array)[ElementOffset(array, e - 1) + m] = EncodedElement(array[e])[m]
<1>. DEFINE es == EncodedElements(array)
            T == Wire(<< >>)
<1>1. /\ es \in Seq(Seq(T)) /\ Len(es) = Len(array) /\ Len(array) \in Nat
      /\ Elements(array) = Joined(es, Len(array))
  BY ElementTypes
<1>2. \A e \in 1 .. Len(array) : es[e] = EncodedElement(array[e])  BY Zenon DEF EncodedElements
<1>. HIDE DEF es, T
<1>3. Len(Joined(es, 0)) = 0
  <2>1. Joined(es, 0) = << >>  BY Zenon, <1>1, JoinedUnfolds
  <2>2. Len(<< >>) = 0  OBVIOUS
  <2>. QED  BY Zenon, <2>1, <2>2
<1>4. ASSUME NEW e \in 0 .. Len(array)  PROVE Len(Joined(es, e)) \in Nat
  <2>1. Joined(es, e) \in Seq(T)  BY <1>1, JoinedIsASequence
  <2>. QED  BY <2>1
<1>5. ASSUME NEW e \in 1 .. Len(array)
      PROVE  /\ Len(Joined(es, e)) = Len(Joined(es, e - 1)) + Len(es[e])
             /\ Len(Joined(es, e)) <= Len(Joined(es, Len(array)))
             /\ \A m \in 1 .. Len(es[e]) : Joined(es, Len(array))[Len(Joined(es, e - 1)) + m] = es[e][m]
  <2>1. Len(array) \in e .. Len(es) /\ e \in 1 .. Len(es)  BY <1>1
  <2>. QED  BY Zenon, <1>1, <2>1, JoinedPlaces
<1>. QED  BY Zenon, <1>1, <1>2, <1>3, <1>4, <1>5 DEF ElementOffset, es

\* How many items an element is.
LEMMA ElementItems ==
  ASSUME NEW v \in Items \cup {Null}
  PROVE  /\ v = Null => Len(EncodedElement(v)) = 1 /\ EncodedElement(v)[1] = Number(1)
         /\ v # Null => /\ Len(EncodedElement(v)) = 3
                        /\ EncodedElement(v)[1] = Number(0) /\ EncodedElement(v)[2] = Number(0)
                        /\ EncodedElement(v)[3] = v
BY DEF EncodedElement

\* Where the elements of an array are in its column.
LEMMA ColumnParts ==
  ASSUME NEW rs \in Downloads, NEW r \in 1 .. Len(rs), NEW c \in Columns, rs[r][c] # Null
  PROVE  LET value == rs[r][c]
             encoded == EncodedColumn(c, value)
         IN  /\ encoded[1] = Tag(c)
             /\ c \notin ArrayColumns => Len(encoded) = 2 /\ encoded[2] = value
             /\ c \in ArrayColumns =>
                  /\ value \in Seq(Items \cup {Null}) /\ Len(value) \in Nat
                  /\ Len(encoded) = 2 + Len(Elements(value)) /\ Len(Elements(value)) \in Nat
                  /\ encoded[2] = Number(Len(value))
                  /\ \A k \in 1 .. Len(Elements(value)) : encoded[2 + k] = Elements(value)[k]
<1>. DEFINE value == rs[r][c]
            encoded == EncodedColumn(c, value)
            payload == Payload(c, value)
<1>1. encoded = <<Tag(c)>> \o payload  BY Zenon DEF EncodedColumn
<1>2. value \in Values(c)  BY Zenon, SentIsRecords
<1>. HIDE DEF value
<1>3. CASE c \notin ArrayColumns
  <2>1. payload = <<value>>  BY Zenon, <1>3 DEF Payload
  <2>2. Len(encoded) = 2 /\ encoded[1] = Tag(c) /\ encoded[2] = value
    <3>. HIDE DEF payload
    <3>. QED  BY <1>1, <2>1
  <2>. QED  BY Zenon, <1>3, <2>2 DEF value
<1>4. CASE c \in ArrayColumns
  <2>. DEFINE es == Elements(value)
  <2>1. value \in Seq(Items \cup {Null})  BY Zenon, <1>2, <1>4 DEF Values
  <2>2. Len(value) \in Nat /\ es \in Seq(Wire(rs))  BY <2>1, ElementTypes
  <2>3. payload = <<Number(Len(value))>> \o es  BY Zenon, <1>4 DEF Payload
  <2>4. Tag(c) \in Wire(rs) /\ Number(Len(value)) \in Wire(rs)
    <3>1. 8 * c \in Nat  BY DEF Columns
    <3>. QED  BY Zenon, <2>2, <3>1 DEF Tag, Wire
  <2>. HIDE DEF payload, es, encoded
  <2>5. /\ payload \in Seq(Wire(rs)) /\ Len(payload) = 1 + Len(es) /\ Len(es) \in Nat
        /\ payload[1] = Number(Len(value))
        /\ \A k \in 1 .. Len(es) : payload[1 + k] = es[k]
    BY <2>2, <2>3, <2>4
  <2>6. /\ Len(encoded) = 2 + Len(es) /\ encoded[1] = Tag(c) /\ encoded[2] = payload[1]
        /\ \A k \in 1 .. Len(es) : encoded[2 + k] = payload[1 + k]
    BY <1>1, <2>4, <2>5
  <2>. QED  BY Zenon, <1>4, <2>1, <2>2, <2>5, <2>6 DEF value, es, encoded
<1>. QED  BY <1>3, <1>4

LEMMA ColumnOffsets ==
  ASSUME NEW rs \in Downloads, NEW r \in 1 .. Len(rs)
  PROVE  /\ ColumnOffset(rs[r], 0) = 0
         /\ \A c \in 0 .. NumColumns : ColumnOffset(rs[r], c) \in Nat
         /\ \A c \in 1 .. NumColumns :
              /\ ColumnOffset(rs[r], c) = ColumnOffset(rs[r], c - 1) + Len(EncodedColumn(c, rs[r][c]))
              /\ ColumnOffset(rs[r], c) <= ColumnOffset(rs[r], NumColumns)
              /\ Len(EncodedColumn(c, rs[r][c])) \in Nat
<1>. DEFINE ss == EncodedColumns(rs[r])
<1>1. ss \in Seq(Seq(Wire(rs))) /\ Len(ss) = NumColumns  BY ColumnTypes
<1>2. NumColumns \in Nat /\ Columns = 1 .. NumColumns  BY DecodingAssumption DEF Columns
<1>3. \A c \in Columns : ss[c] = EncodedColumn(c, rs[r][c])  BY Zenon DEF EncodedColumns
<1>. HIDE DEF ss
<1>4. Len(Joined(ss, 0)) = 0
  <2>1. Joined(ss, 0) = << >>  BY Zenon, <1>1, JoinedUnfolds
  <2>2. Len(<< >>) = 0  OBVIOUS
  <2>. QED  BY Zenon, <2>1, <2>2
<1>5. ASSUME NEW c \in 0 .. NumColumns  PROVE Len(Joined(ss, c)) \in Nat
  <2>1. Joined(ss, c) \in Seq(Wire(rs))  BY <1>1, JoinedIsASequence
  <2>. QED  BY <2>1
<1>6. ASSUME NEW c \in 1 .. NumColumns
      PROVE  /\ Len(Joined(ss, c)) = Len(Joined(ss, c - 1)) + Len(ss[c])
             /\ Len(Joined(ss, c)) <= Len(Joined(ss, NumColumns))
             /\ Len(ss[c]) \in Nat
  <2>1. NumColumns \in c .. Len(ss) /\ c \in 1 .. Len(ss)  BY <1>1, <1>2
  <2>2. ss[c] \in Seq(Wire(rs))  BY <1>1, <2>1
  <2>3. Len(ss[c]) \in Nat  BY <2>2
  <2>. QED  BY Zenon, <1>1, <2>1, <2>3, JoinedPlaces
<1>. QED  BY Zenon, <1>2, <1>3, <1>4, <1>5, <1>6 DEF ColumnOffset, ss

LEMMA RecordOffsets ==
  ASSUME NEW rs \in Downloads
  PROVE  /\ RecordOffset(rs, 0) = 0
         /\ \A r \in 0 .. Len(rs) : RecordOffset(rs, r) \in Nat
         /\ \A r \in 1 .. Len(rs) :
              /\ RecordOffset(rs, r) = RecordOffset(rs, r - 1) + Len(EncodedRecord(rs[r]))
              /\ RecordOffset(rs, r) <= RecordOffset(rs, Len(rs))
              /\ \A m \in 1 .. Len(EncodedRecord(rs[r])) :
                   FlattenSeq(EncodedRecords(rs))[RecordOffset(rs, r - 1) + m] = EncodedRecord(rs[r])[m]
<1>. DEFINE ss == EncodedRecords(rs)
<1>1. ss \in Seq(Seq(Wire(rs))) /\ Len(ss) = Len(rs)  BY RecordTypes
<1>2. Len(rs) \in Nat  BY SentIsRecords
<1>3. \A r \in 1 .. Len(rs) : ss[r] = EncodedRecord(rs[r])  BY Zenon DEF EncodedRecords
<1>4. FlattenSeq(ss) = Joined(ss, Len(rs))  BY Zenon, <1>1, JoinedUnfolds
<1>. HIDE DEF ss
<1>5. Len(Joined(ss, 0)) = 0
  <2>1. Joined(ss, 0) = << >>  BY Zenon, <1>1, JoinedUnfolds
  <2>2. Len(<< >>) = 0  OBVIOUS
  <2>. QED  BY Zenon, <2>1, <2>2
<1>6. ASSUME NEW r \in 0 .. Len(rs)  PROVE Len(Joined(ss, r)) \in Nat
  <2>1. Joined(ss, r) \in Seq(Wire(rs))  BY <1>1, JoinedIsASequence
  <2>. QED  BY <2>1
<1>7. ASSUME NEW r \in 1 .. Len(rs)
      PROVE  /\ Len(Joined(ss, r)) = Len(Joined(ss, r - 1)) + Len(ss[r])
             /\ Len(Joined(ss, r)) <= Len(Joined(ss, Len(rs)))
             /\ \A m \in 1 .. Len(ss[r]) : Joined(ss, Len(rs))[Len(Joined(ss, r - 1)) + m] = ss[r][m]
  <2>1. Len(rs) \in r .. Len(ss) /\ r \in 1 .. Len(ss)  BY <1>1, <1>2
  <2>. QED  BY Zenon, <1>1, <2>1, JoinedPlaces
<1>. QED  BY Zenon, <1>3, <1>4, <1>5, <1>6, <1>7 DEF RecordOffset, ss

\* Where the items of a record, and the end of the download, are.
LEMMA PlacesOfRecord ==
  ASSUME NEW rs \in Downloads, NEW r \in 1 .. Len(rs)
  PROVE  /\ EncodedRecord(rs[r]) \in Seq(Wire(rs))
         /\ Len(EncodedRecord(rs[r])) = ColumnOffset(rs[r], NumColumns) + 2
         /\ EncodedRecord(rs[r])[ColumnOffset(rs[r], NumColumns) + 1] = Tag(RECORD_END)
         /\ EncodedRecord(rs[r])[ColumnOffset(rs[r], NumColumns) + 2] = RecordCrc(rs[r])
         /\ \A c \in 1 .. NumColumns : \A m \in 1 .. Len(EncodedColumn(c, rs[r][c])) :
              EncodedRecord(rs[r])[ColumnOffset(rs[r], c - 1) + m] = EncodedColumn(c, rs[r][c])[m]
<1>. DEFINE ss == EncodedColumns(rs[r])
            all == Joined(ss, NumColumns)
            end == <<Tag(RECORD_END), RecordCrc(rs[r])>>
<1>1. ss \in Seq(Seq(Wire(rs))) /\ Len(ss) = NumColumns  BY ColumnTypes
<1>2. NumColumns \in Nat /\ Columns = 1 .. NumColumns  BY DecodingAssumption DEF Columns
<1>3. \A c \in Columns : ss[c] = EncodedColumn(c, rs[r][c])  BY Zenon DEF EncodedColumns
<1>4. EncodedRecord(rs[r]) = all \o end
  BY Zenon, <1>1, JoinedUnfolds DEF EncodedRecord, EncodedColumns
<1>5. ColumnOffset(rs[r], NumColumns) = Len(all)  BY Zenon DEF ColumnOffset
<1>6. \A c \in 1 .. NumColumns : ColumnOffset(rs[r], c - 1) = Len(Joined(ss, c - 1))
  BY Zenon DEF ColumnOffset
<1>. HIDE DEF ss
<1>7. all \in Seq(Wire(rs))
  <2>1. NumColumns \in 0 .. Len(ss)  BY <1>1, <1>2
  <2>. QED  BY Zenon, <1>1, <2>1, JoinedIsASequence
<1>8. Tag(RECORD_END) \in Wire(rs) /\ RecordCrc(rs[r]) \in Wire(rs)
  <2>1. 8 * RECORD_END \in Nat  BY DEF RECORD_END
  <2>2. RecordCrc(rs[r]) \in Wire(rs)  BY Zenon, SentIsRecords DEF Wire
  <2>. QED  BY Zenon, <2>1, <2>2 DEF Tag, Wire
<1>9. end \in Seq(Wire(rs)) /\ Len(end) = 2 /\ end[1] = Tag(RECORD_END) /\ end[2] = RecordCrc(rs[r])
  BY <1>8
<1>10. ASSUME NEW c \in 1 .. NumColumns, NEW m \in 1 .. Len(ss[c])
       PROVE  /\ Len(Joined(ss, c - 1)) + m \in 1 .. Len(all)
              /\ all[Len(Joined(ss, c - 1)) + m] = ss[c][m]
  <2>1. NumColumns \in c .. Len(ss) /\ c \in 1 .. Len(ss) /\ c - 1 \in 0 .. Len(ss)  BY <1>1, <1>2
  <2>2. /\ Len(Joined(ss, c)) <= Len(all)
        /\ Len(Joined(ss, c)) = Len(Joined(ss, c - 1)) + Len(ss[c])
        /\ all[Len(Joined(ss, c - 1)) + m] = ss[c][m]
    BY Zenon, <1>1, <2>1, JoinedPlaces
  <2>3. Joined(ss, c - 1) \in Seq(Wire(rs)) /\ ss[c] \in Seq(Wire(rs))  BY <1>1, <2>1, JoinedIsASequence
  <2>4. Len(Joined(ss, c - 1)) \in Nat /\ Len(ss[c]) \in Nat /\ Len(all) \in Nat
    <3>. HIDE DEF all
    <3>. QED  BY <1>7, <2>3
  <2>5. Len(Joined(ss, c - 1)) + m \in 1 .. Len(all)
    <3>. DEFINE x == Len(Joined(ss, c - 1))
                y == Len(all)
                z == Len(ss[c])
    <3>1. x \in Nat /\ y \in Nat /\ z \in Nat /\ x + z <= y /\ m \in 1 .. z
      BY Zenon, <2>2, <2>4
    <3>. HIDE DEF x, y, z
    <3>2. x + m \in 1 .. y  BY <3>1
    <3>. QED  BY <3>2 DEF x, y
  <2>. QED  BY <2>2, <2>5
<1>. HIDE DEF all, end
<1>11. all \o end \in Seq(Wire(rs))  BY <1>7, <1>9
<1>12. /\ Len(all \o end) = Len(all) + Len(end)
       /\ \A k \in 1 .. Len(all) : (all \o end)[k] = all[k]
       /\ \A k \in 1 .. Len(end) : (all \o end)[Len(all) + k] = end[k]
  <2>1. all \in Seq(Wire(rs)) /\ end \in Seq(Wire(rs))  BY <1>7, <1>9
  <2>2. Len(all \o end) = Len(all) + Len(end)  BY <2>1
  <2>3. \A k \in 1 .. Len(all) : (all \o end)[k] = all[k]  BY <2>1
  <2>4. \A k \in 1 .. Len(end) : (all \o end)[Len(all) + k] = end[k]  BY <2>1
  <2>. QED  BY Zenon, <2>2, <2>3, <2>4
<1>13. 1 \in 1 .. Len(end) /\ 2 \in 1 .. Len(end)  BY <1>9
<1>14. \A c \in 1 .. NumColumns : \A m \in 1 .. Len(ss[c]) :
         (all \o end)[Len(Joined(ss, c - 1)) + m] = ss[c][m]
  BY Zenon, <1>10, <1>12
<1>15. /\ EncodedRecord(rs[r]) \in Seq(Wire(rs))
       /\ Len(EncodedRecord(rs[r])) = ColumnOffset(rs[r], NumColumns) + 2
  BY Zenon, <1>4, <1>5, <1>9, <1>11, <1>12
<1>16. /\ EncodedRecord(rs[r])[ColumnOffset(rs[r], NumColumns) + 1] = Tag(RECORD_END)
       /\ EncodedRecord(rs[r])[ColumnOffset(rs[r], NumColumns) + 2] = RecordCrc(rs[r])
  BY Zenon, <1>4, <1>5, <1>9, <1>12, <1>13
<1>17. \A c \in 1 .. NumColumns : \A m \in 1 .. Len(EncodedColumn(c, rs[r][c])) :
         EncodedRecord(rs[r])[ColumnOffset(rs[r], c - 1) + m] = EncodedColumn(c, rs[r][c])[m]
  BY Zenon, <1>2, <1>3, <1>4, <1>6, <1>14
<1>. QED  BY Zenon, <1>15, <1>16, <1>17

LEMMA PlacesOfDownload ==
  ASSUME NEW rs \in Downloads
  PROVE  LET e == EncodedDownload(rs)
             last == RecordOffset(rs, Len(rs))
         IN  /\ last \in Nat /\ Len(e) = last + 4
             /\ e[last + 1] = Tag(META_TOTAL_RECORDS) /\ e[last + 2] = Number(Len(rs))
             /\ e[last + 3] = Tag(META_CHECKSUM) /\ e[last + 4] = DownloadCrc(rs)
             /\ \A r \in 1 .. Len(rs) : \A m \in 1 .. Len(EncodedRecord(rs[r])) :
                  /\ RecordOffset(rs, r - 1) + m <= last
                  /\ e[RecordOffset(rs, r - 1) + m] = EncodedRecord(rs[r])[m]
<1>. DEFINE all == FlattenSeq(EncodedRecords(rs))
            end == <<Tag(META_TOTAL_RECORDS), Number(Len(rs)), Tag(META_CHECKSUM), DownloadCrc(rs)>>
            last == RecordOffset(rs, Len(rs))
<1>1. all \in Seq(Wire(rs)) /\ Len(rs) \in Nat  BY RecordTypes, SentIsRecords
<1>2. EncodedDownload(rs) = all \o end  BY Zenon DEF EncodedDownload, EncodedRecords
<1>3. last = Len(all)
  <2>1. EncodedRecords(rs) \in Seq(Seq(Wire(rs))) /\ Len(EncodedRecords(rs)) = Len(rs)  BY RecordTypes
  <2>. QED  BY Zenon, <2>1, JoinedUnfolds DEF RecordOffset
<1>. DEFINE T == Wire(rs) \cup {end[1], end[2], end[3], end[4]}
<1>4. all \in Seq(T)
  <2>1. Wire(rs) \subseteq T  BY Zenon
  <2>. HIDE DEF all, T
  <2>. QED  BY <1>1, <2>1
<1>5. /\ end \in Seq(T) /\ Len(end) = 4
      /\ end[1] = Tag(META_TOTAL_RECORDS) /\ end[2] = Number(Len(rs))
      /\ end[3] = Tag(META_CHECKSUM) /\ end[4] = DownloadCrc(rs)
  OBVIOUS
<1>6. \A r \in 1 .. Len(rs) : \A m \in 1 .. Len(EncodedRecord(rs[r])) :
        all[RecordOffset(rs, r - 1) + m] = EncodedRecord(rs[r])[m]
  BY Zenon, RecordOffsets
<1>7. ASSUME NEW r \in 1 .. Len(rs), NEW m \in 1 .. Len(EncodedRecord(rs[r]))
      PROVE  RecordOffset(rs, r - 1) + m \in 1 .. last
  <2>1. /\ RecordOffset(rs, r) = RecordOffset(rs, r - 1) + Len(EncodedRecord(rs[r]))
        /\ RecordOffset(rs, r) <= last
    BY Zenon, RecordOffsets
  <2>2. r - 1 \in 0 .. Len(rs) /\ Len(rs) \in 0 .. Len(rs)  BY <1>1
  <2>3. RecordOffset(rs, r - 1) \in Nat /\ last \in Nat  BY Zenon, <2>2, RecordOffsets
  <2>4. Len(EncodedRecord(rs[r])) \in Nat
    <3>1. EncodedRecord(rs[r]) \in Seq(Wire(rs))  BY PlacesOfRecord
    <3>. QED  BY <3>1
  <2>. QED  BY <2>1, <2>3, <2>4
<1>. HIDE DEF all, end, T, last
<1>8. /\ Len(all \o end) = Len(all) + Len(end)
      /\ \A k \in 1 .. Len(all) : (all \o end)[k] = all[k]
      /\ \A k \in 1 .. Len(end) : (all \o end)[Len(all) + k] = end[k]
  <2>1. all \in Seq(T) /\ end \in Seq(T)  BY <1>4, <1>5
  <2>2. Len(all \o end) = Len(all) + Len(end)  BY <2>1
  <2>3. \A k \in 1 .. Len(all) : (all \o end)[k] = all[k]  BY <2>1
  <2>4. \A k \in 1 .. Len(end) : (all \o end)[Len(all) + k] = end[k]  BY <2>1
  <2>. QED  BY Zenon, <2>2, <2>3, <2>4
<1>9. \A k \in 1 .. Len(all) : (all \o end)[k] = all[k]  BY Zenon, <1>8
<1>10. \A k \in 1 .. 4 : (all \o end)[Len(all) + k] = end[k]  BY Zenon, <1>5, <1>8
<1>11. Len(all) \in Nat  BY <1>1
<1>12. 1 \in 1 .. 4 /\ 2 \in 1 .. 4 /\ 3 \in 1 .. 4 /\ 4 \in 1 .. 4  OBVIOUS
<1>. DEFINE e == all \o end
<1>13. /\ last \in Nat /\ Len(e) = last + 4
       /\ e[last + 1] = Tag(META_TOTAL_RECORDS) /\ e[last + 2] = Number(Len(rs))
       /\ e[last + 3] = Tag(META_CHECKSUM) /\ e[last + 4] = DownloadCrc(rs)
  BY Zenon, <1>3, <1>5, <1>8, <1>10, <1>11, <1>12
<1>14. ASSUME NEW r \in 1 .. Len(rs), NEW m \in 1 .. Len(EncodedRecord(rs[r]))
       PROVE  /\ RecordOffset(rs, r - 1) + m <= last
              /\ e[RecordOffset(rs, r - 1) + m] = EncodedRecord(rs[r])[m]
  <2>1. RecordOffset(rs, r - 1) + m \in 1 .. last  BY <1>7
  <2>2. RecordOffset(rs, r - 1) + m <= last  BY <1>3, <1>11, <2>1
  <2>. QED  BY Zenon, <1>3, <1>6, <1>9, <2>1, <2>2
<1>. HIDE DEF e
<1>15. EncodedDownload(rs) = e  BY Zenon, <1>2 DEF e
<1>. QED  BY Zenon, <1>13, <1>14, <1>15 DEF last

\* The columns of record that are not null, up to c.
Held(record, c) == {x \in Columns : x <= c /\ record[x] # Null}

\* The next column that is not null, if there is one.
LEMMA NextPresent ==
  ASSUME NEW rs \in Downloads, NEW r \in 1 .. Len(rs), NEW c \in 0 .. NumColumns
  PROVE  \E d \in 0 .. NumColumns :
           /\ ColumnOffset(rs[r], d) = ColumnOffset(rs[r], c)
           /\ Joined(UpdatesByColumn(rs[r]), d) = Joined(UpdatesByColumn(rs[r]), c)
           /\ Held(rs[r], d) = Held(rs[r], c)
           /\ d = NumColumns \/ (d + 1 \in Columns /\ rs[r][d + 1] # Null)
<1>. DEFINE same(d) == /\ Joined(EncodedColumns(rs[r]), d) = Joined(EncodedColumns(rs[r]), c)
                       /\ Joined(UpdatesByColumn(rs[r]), d) = Joined(UpdatesByColumn(rs[r]), c)
                       /\ Held(rs[r], d) = Held(rs[r], c)
            S == {n \in 0 .. NumColumns : same(NumColumns - n)}
<1>1. NumColumns \in Nat /\ Columns = 1 .. NumColumns  BY DecodingAssumption DEF Columns
<1>2. /\ EncodedColumns(rs[r]) \in Seq(Seq(Wire(rs))) /\ Len(EncodedColumns(rs[r])) = NumColumns
      /\ UpdatesByColumn(rs[r]) \in Seq(Seq(Updates(rs))) /\ Len(UpdatesByColumn(rs[r])) = NumColumns
  BY ColumnTypes
<1>3. S # {}
  <2>1. NumColumns - c \in 0 .. NumColumns /\ NumColumns - (NumColumns - c) = c  BY <1>1
  <2>2. same(NumColumns - (NumColumns - c))  BY Zenon, <2>1
  <2>. QED  BY Zenon, <2>1, <2>2
<1>4. PICK n \in S : n = 0 \/ (n - 1 \in 0 .. NumColumns /\ n - 1 \notin S)
  <2>1. S \in SUBSET (0 .. NumColumns)  OBVIOUS
  <2>. HIDE DEF S
  <2>. QED  BY <1>1, <1>3, <2>1, FirstCounterexample
<1>. DEFINE d == NumColumns - n
<1>5. n \in 0 .. NumColumns /\ same(d)  OBVIOUS
<1>6. d \in 0 .. NumColumns  BY <1>1, <1>5
<1>7. d = NumColumns \/ (d + 1 \in Columns /\ rs[r][d + 1] # Null)
  <2>1. SUFFICES ASSUME n # 0  PROVE d + 1 \in Columns /\ rs[r][d + 1] # Null
    BY <1>1, <1>5
  <2>2. d + 1 \in Columns /\ NumColumns - (n - 1) = d + 1  BY <1>1, <1>5, <2>1
  <2>3. ~same(d + 1)
    <3>. HIDE DEF same, d
    <3>. QED  BY Zenon, <1>4, <2>1, <2>2
  <2>. HIDE DEF d, S
  <2>4. ASSUME rs[r][d + 1] = Null  PROVE FALSE
    <3>1. EncodedColumns(rs[r])[d + 1] = << >> /\ UpdatesByColumn(rs[r])[d + 1] = << >>
      BY Zenon, <2>2, <2>4 DEF EncodedColumns, UpdatesByColumn, EncodedColumn, ColumnUpdates
    <3>2. (d + 1) - 1 = d /\ d \in Int  BY <1>1, <1>6
    <3>3. Joined(EncodedColumns(rs[r]), d + 1) = Joined(EncodedColumns(rs[r]), d) \o << >>
      BY Zenon, <1>1, <1>2, <2>2, <3>1, <3>2, JoinedUnfolds
    <3>4. Joined(UpdatesByColumn(rs[r]), d + 1) = Joined(UpdatesByColumn(rs[r]), d) \o << >>
      BY Zenon, <1>1, <1>2, <2>2, <3>1, <3>2, JoinedUnfolds
    <3>5. /\ Joined(EncodedColumns(rs[r]), d) \in Seq(Wire(rs))
          /\ Joined(UpdatesByColumn(rs[r]), d) \in Seq(Updates(rs))
      BY Zenon, <1>2, <1>6, JoinedIsASequence
    <3>6. /\ Joined(EncodedColumns(rs[r]), d) \o << >> = Joined(EncodedColumns(rs[r]), d)
          /\ Joined(UpdatesByColumn(rs[r]), d) \o << >> = Joined(UpdatesByColumn(rs[r]), d)
      BY Zenon, <3>5, ConcatEmptySeq
    <3>7. Held(rs[r], d + 1) = Held(rs[r], d)
      <4>1. \A x \in Columns : x <= d + 1 /\ rs[r][x] # Null <=> x <= d /\ rs[r][x] # Null
        BY <1>1, <2>4, <3>2
      <4>. QED  BY Zenon, <4>1 DEF Held
    <3>. QED  BY Zenon, <1>5, <2>3, <3>3, <3>4, <3>6, <3>7
  <2>. QED  BY <2>2, <2>4
<1>. HIDE DEF d
<1>. QED  BY Zenon, <1>5, <1>6, <1>7 DEF ColumnOffset

-----------------------------------------------------------------------------
(* A body that was not damaged is read to its end                          *)

Checksums(rs) == [i \in 1 .. Len(rs) |-> RecordCrc(rs[i])]

\* r records have been read.
ReadRecords(r) ==
  /\ received = r
  /\ crcOfCrc = SubSeq(Checksums(sent), 1, r)
  /\ records = SubSeq(sent, 1, r)

\* The record before r has been read, and c columns of r.
AtColumn(r, c) ==
  /\ pos = RecordOffset(sent, r - 1) + ColumnOffset(sent[r], c)
  /\ recordCrc = Joined(UpdatesByColumn(sent[r]), c)
  /\ nullMap = Held(sent[r], c)
  /\ \A d \in nullMap : current[d] = sent[r][d]
  /\ left = 0
  /\ ReadRecords(r - 1)

\* The same, of the last column only the first e elements.
InArray(r, c, e) ==
  /\ c \in ArrayColumns /\ sent[r][c] # Null /\ e < Len(sent[r][c])
  /\ pos = (RecordOffset(sent, r - 1) + ColumnOffset(sent[r], c - 1))
             + (2 + ElementOffset(sent[r][c], e))
  /\ recordCrc = Joined(UpdatesByColumn(sent[r]), c)
  /\ nullMap = Held(sent[r], c)
  /\ \A d \in nullMap : d # c => current[d] = sent[r][d]
  /\ current[c] = SubSeq(sent[r][c], 1, e)
  /\ column = c /\ left = Len(sent[r][c]) - e
  /\ ReadRecords(r - 1)

AtTail ==
  /\ pos = RecordOffset(sent, Len(sent))
  /\ recordCrc = << >>
  /\ left = 0
  /\ ReadRecords(Len(sent))

InPlace ==
  \/ AtTail
  \/ \E r \in 1 .. Len(sent), c \in 0 .. NumColumns : AtColumn(r, c)
  \/ \E r \in 1 .. Len(sent), c \in Columns, e \in Nat : InArray(r, c, e)

ReadInPlace ==
  Undamaged =>
    /\ status # "error"
    /\ status = "decoding" => InPlace
    /\ status = "done" => records = sent

LEMMA PrefixGrows ==
  ASSUME NEW T, NEW s \in Seq(T), NEW n \in 1 .. Len(s)
  PROVE  Append(SubSeq(s, 1, n - 1), s[n]) = SubSeq(s, 1, n)
<1>1. 1 \in 1 .. Len(s) /\ n \in 1 .. Len(s)  OBVIOUS
<1>2. SubSeq(s, 1, n) = SubSeq(s, 1, n - 1) \o <<s[n]>>
  BY Zenon, <1>1, SubSeqRecursiveSecond
<1>3. SubSeq(s, 1, n - 1) \in Seq(T) /\ s[n] \in T  OBVIOUS
<1>. QED  BY Zenon, <1>2, <1>3, AppendIsConcat

LEMMA SentTypes ==
  ASSUME NEW rs \in Downloads
  PROVE  /\ rs \in Seq(Range(rs)) /\ Len(rs) \in Nat
         /\ Checksums(rs) \in Seq(RecordChecksums(rs)) /\ Len(Checksums(rs)) = Len(rs)
         /\ \A i \in 1 .. Len(rs) : Checksums(rs)[i] = RecordCrc(rs[i])
         /\ DownloadCrc(rs) = Crc(Checksums(rs))
<1>1. rs \in Seq(Range(rs))  BY Zenon, ItemAssumption
<1>2. Len(rs) \in Nat  BY SentIsRecords
<1>3. \A i \in 1 .. Len(rs) : RecordCrc(rs[i]) \in RecordChecksums(rs)
  BY Zenon, SentIsDescribed DEF RecordChecksums
<1>4. Checksums(rs) \in [1 .. Len(rs) -> RecordChecksums(rs)]  BY Zenon, <1>3 DEF Checksums
<1>5. Checksums(rs) \in Seq(RecordChecksums(rs)) /\ Len(Checksums(rs)) = Len(rs)
  BY <1>2, <1>4
<1>6. \A i \in 1 .. Len(rs) : Checksums(rs)[i] = RecordCrc(rs[i])  BY Zenon DEF Checksums
<1>7. DownloadCrc(rs) = Crc(Checksums(rs))  BY Zenon DEF DownloadCrc, Checksums
<1>. QED  BY <1>1, <1>2, <1>5, <1>6, <1>7

\* One more record.
LEMMA RecordsGrow ==
  ASSUME NEW rs \in Downloads, NEW r \in 1 .. Len(rs)
  PROVE  /\ Append(SubSeq(rs, 1, r - 1), rs[r]) = SubSeq(rs, 1, r)
         /\ Append(SubSeq(Checksums(rs), 1, r - 1), RecordCrc(rs[r])) = SubSeq(Checksums(rs), 1, r)
<1>1. r \in 1 .. Len(Checksums(rs)) /\ Checksums(rs)[r] = RecordCrc(rs[r])  BY Zenon, SentTypes
<1>. QED  BY Zenon, <1>1, SentTypes, PrefixGrows

LEMMA FirstPlace ==
  ASSUME NEW rs \in Downloads, NEW r \in 1 .. Len(rs)
  PROVE  /\ 0 \in 0 .. NumColumns
         /\ RecordOffset(rs, r - 1) + ColumnOffset(rs[r], 0) = RecordOffset(rs, r - 1)
         /\ Joined(UpdatesByColumn(rs[r]), 0) = << >>
         /\ Held(rs[r], 0) = {}
<1>1. 0 \in 0 .. NumColumns  BY DecodingAssumption
<1>2. ColumnOffset(rs[r], 0) = 0  BY Zenon, ColumnOffsets
<1>3. UpdatesByColumn(rs[r]) \in Seq(Seq(Updates(rs)))  BY Zenon, ColumnTypes
<1>4. Joined(UpdatesByColumn(rs[r]), 0) = << >>  BY Zenon, <1>3, JoinedUnfolds
<1>5. RecordOffset(rs, r - 1) \in Nat
  <2>1. r - 1 \in 0 .. Len(rs)  BY SentIsRecords
  <2>. QED  BY Zenon, <2>1, RecordOffsets
<1>6. Held(rs[r], 0) = {}
  <2>1. \A x \in Columns : ~(x <= 0)  BY DecodingAssumption DEF Columns
  <2>. QED  BY Zenon, <2>1 DEF Held
<1>. QED  BY <1>1, <1>2, <1>4, <1>5, <1>6

LEMMA ReadableUndamaged ==
  ASSUME Types, Undamaged, NEW n \in Nat, pos + n <= Len(body)
  PROVE  Readable >= n
BY DecodingAssumption DEF Types, Undamaged, Readable, Within

\* Where the items of a column are.
LEMMA ColumnItems ==
  ASSUME Types, Undamaged, NEW r \in 1 .. Len(sent), NEW c \in Columns
  PROVE  LET off == RecordOffset(sent, r - 1) + ColumnOffset(sent[r], c - 1)
             encoded == EncodedColumn(c, sent[r][c])
         IN  /\ off \in Nat
             /\ \A m \in 1 .. Len(encoded) : off + m <= Len(body) /\ body[off + m] = encoded[m]
<1>. DEFINE encoded == EncodedColumn(c, sent[r][c])
            first == ColumnOffset(sent[r], c - 1)
            start == RecordOffset(sent, r - 1)
<1>1. sent \in Downloads /\ body = EncodedDownload(sent)  BY DEF Types, Undamaged
<1>2. c \in 1 .. NumColumns /\ c - 1 \in 0 .. NumColumns /\ NumColumns \in 0 .. NumColumns
  BY DecodingAssumption DEF Columns
<1>3. /\ first \in Nat /\ ColumnOffset(sent[r], NumColumns) \in Nat
      /\ ColumnOffset(sent[r], c) = first + Len(encoded) /\ Len(encoded) \in Nat
      /\ ColumnOffset(sent[r], c) <= ColumnOffset(sent[r], NumColumns)
  BY Zenon, <1>1, <1>2, ColumnOffsets
<1>4. start \in Nat
  <2>1. r - 1 \in 0 .. Len(sent)  BY <1>1, SentIsRecords
  <2>. QED  BY Zenon, <1>1, <2>1, RecordOffsets
<1>5. /\ \A m \in 1 .. Len(encoded) : EncodedRecord(sent[r])[first + m] = encoded[m]
      /\ Len(EncodedRecord(sent[r])) = ColumnOffset(sent[r], NumColumns) + 2
  BY Zenon, <1>1, <1>2, PlacesOfRecord
<1>6. ASSUME NEW m \in 1 .. Len(encoded)
      PROVE  /\ first + m \in 1 .. Len(EncodedRecord(sent[r]))
             /\ start + (first + m) = (start + first) + m
             /\ m \in Int
  <2>. DEFINE x == ColumnOffset(sent[r], c)
              y == ColumnOffset(sent[r], NumColumns)
              z == Len(EncodedRecord(sent[r]))
              w == Len(encoded)
  <2>1. x = first + w /\ x <= y /\ z = y + 2 /\ y \in Nat /\ first \in Nat /\ start \in Nat
        /\ w \in Nat /\ m \in 1 .. w
    BY Zenon, <1>3, <1>4, <1>5
  <2>. HIDE DEF x, y, z, w, first, start
  <2>2. first + m \in 1 .. z /\ start + (first + m) = (start + first) + m /\ m \in Int
    BY ONLY <2>1
  <2>. QED  BY <2>2 DEF z
<1>7. \A k \in 1 .. Len(EncodedRecord(sent[r])) :
        /\ start + k <= RecordOffset(sent, Len(sent))
        /\ body[start + k] = EncodedRecord(sent[r])[k]
  BY Zenon, <1>1, PlacesOfDownload
<1>8. Len(body) = RecordOffset(sent, Len(sent)) + 4 /\ RecordOffset(sent, Len(sent)) \in Nat
  BY Zenon, <1>1, PlacesOfDownload
<1>9. ASSUME NEW m \in 1 .. Len(encoded)
      PROVE  (start + first) + m <= Len(body) /\ body[(start + first) + m] = encoded[m]
  <2>1. body[(start + first) + m] = encoded[m] /\ (start + first) + m <= RecordOffset(sent, Len(sent))
    BY Zenon, <1>5, <1>6, <1>7
  <2>2. (start + first) + m \in Int  BY <1>3, <1>4, <1>6
  <2>. HIDE DEF start, first, encoded
  <2>3. (start + first) + m <= Len(body)  BY <1>8, <2>1, <2>2
  <2>. QED  BY <2>1, <2>3
<1>10. start + first \in Nat  BY <1>3, <1>4
<1>. HIDE DEF start, first, encoded
<1>11. \A m \in 1 .. Len(encoded) : (start + first) + m <= Len(body) /\ body[(start + first) + m] = encoded[m]
  BY Zenon, <1>9
<1>. QED  BY Zenon, <1>10, <1>11 DEF start, first, encoded

\* What is sent in an undamaged body is not refused.
LEMMA NothingIsRefused ==
  ASSUME Types, Undamaged, NEW r \in 1 .. Len(sent), NEW c \in Columns, c \in ArrayColumns,
         sent[r][c] # Null
  PROVE  /\ ~(Len(sent[r][c]) > ArrayLimit)
         /\ c \in UnreadableArrays => \A k \in DOMAIN sent[r][c] : sent[r][c][k] = Null
<1>1. r \in DOMAIN sent  BY Zenon, SentIsRecords DEF Types
<1>. QED  BY Zenon, <1>1 DEF Undamaged, IsRefused

\* Its tag and the item that follows.
LEMMA ColumnIsRead ==
  ASSUME Types, Undamaged, status = "decoding",
         NEW r \in 1 .. Len(sent), NEW c \in Columns, AtColumn(r, c - 1), sent[r][c] # Null
  PROVE  LET value == sent[r][c]
         IN  /\ AtField /\ Field = c
             /\ c \notin ArrayColumns => ScalarIsReadable /\ Item(2) = value
             /\ c \in ArrayColumns => ArrayIsReadable /\ Item(2) = Number(Len(value))
<1>. DEFINE value == sent[r][c]
            encoded == EncodedColumn(c, value)
            off == RecordOffset(sent, r - 1) + ColumnOffset(sent[r], c - 1)
<1>1. sent \in Downloads /\ pos \in Nat /\ left = 0  BY DEF Types, AtColumn
<1>2. pos = off /\ \A m \in 1 .. Len(encoded) : off + m <= Len(body) /\ body[off + m] = encoded[m]
  BY Zenon, ColumnItems DEF AtColumn
<1>3. /\ encoded[1] = Tag(c)
      /\ c \notin ArrayColumns => Len(encoded) = 2 /\ encoded[2] = value
      /\ c \in ArrayColumns =>
           /\ Len(encoded) = 2 + Len(Elements(value)) /\ Len(Elements(value)) \in Nat
           /\ Len(value) \in Nat
           /\ encoded[2] = Number(Len(value))
  BY Zenon, <1>1, ColumnParts
<1>. HIDE DEF encoded, off, value
<1>4. 1 \in 1 .. Len(encoded) /\ 2 \in 1 .. Len(encoded)  BY <1>3
<1>5. Item(1) = Tag(c) /\ Item(2) = encoded[2] /\ pos + 2 <= Len(body)
  BY Zenon, <1>2, <1>3, <1>4 DEF Item
<1>6. Readable >= 2  BY <1>5, ReadableUndamaged
<1>7. Field = c
  <2>1. c \in Nat  BY DEF Columns
  <2>. QED  BY Zenon, <1>5, <2>1, FieldOfTag DEF Field
<1>8. AtField /\ ScalarIsReadable
  BY <1>1, <1>6, ReadableItems DEF AtField, ScalarIsReadable
<1>9. ASSUME c \in ArrayColumns  PROVE ArrayIsReadable
  <2>1. Item(2)[1] = "number" /\ Item(2)[2] = Len(value) /\ Len(value) \in Nat
    BY <1>3, <1>5, <1>9 DEF Number
  <2>2. ~(Len(value) > ArrayLimit)  BY Zenon, <1>9, NothingIsRefused DEF value
  <2>3. Item(2)[2] <= ArrayLimit  BY <2>1, <2>2, DecodingAssumption
  <2>. QED  BY <1>6, <2>1, <2>3 DEF ArrayIsReadable
<1>. QED  BY Zenon, <1>3, <1>5, <1>7, <1>8, <1>9 DEF value

\* The items of an element.
LEMMA ElementIsRead ==
  ASSUME Types, Undamaged, status = "decoding",
         NEW r \in 1 .. Len(sent), NEW c \in Columns, NEW e \in Nat, InArray(r, c, e)
  PROVE  LET element == sent[r][c][e + 1]
         IN  /\ AtElement /\ column = c /\ e + 1 \in 1 .. Len(sent[r][c])
             /\ element = Null => FirstIsSet /\ ~OnlySecondIsSet /\ ~ValueIsReadable
             /\ element # Null =>
                  ~FirstIsSet /\ ~OnlySecondIsSet /\ ValueIsReadable /\ Item(3) = element
<1>. DEFINE array == sent[r][c]
            element == array[e + 1]
            encoded == EncodedElement(element)
            column0 == EncodedColumn(c, array)
            off == RecordOffset(sent, r - 1) + ColumnOffset(sent[r], c - 1)
            start == ElementOffset(array, e)
<1>1. /\ sent \in Downloads /\ pos \in Nat
      /\ c \in ArrayColumns /\ array # Null /\ e < Len(array)
      /\ pos = off + (2 + start) /\ column = c /\ left = Len(array) - e
  BY DEF Types, InArray
<1>2. off \in Nat /\ \A m \in 1 .. Len(column0) : off + m <= Len(body) /\ body[off + m] = column0[m]
  BY Zenon, ColumnItems
<1>3. /\ array \in Seq(Items \cup {Null}) /\ Len(array) \in Nat
      /\ Len(column0) = 2 + Len(Elements(array)) /\ Len(Elements(array)) \in Nat
      /\ \A k \in 1 .. Len(Elements(array)) : column0[2 + k] = Elements(array)[k]
  BY Zenon, <1>1, ColumnParts
<1>. HIDE DEF array, column0, off
<1>4. e + 1 \in 1 .. Len(array) /\ e \in 0 .. Len(array) /\ (e + 1) - 1 = e  BY <1>1, <1>3
<1>5. /\ start \in Nat /\ ElementOffset(array, e + 1) = start + Len(encoded)
      /\ ElementOffset(array, e + 1) <= Len(Elements(array))
      /\ \A m \in 1 .. Len(encoded) : Elements(array)[start + m] = encoded[m]
  BY Zenon, <1>3, <1>4, ElementOffsets
<1>6. element \in Items \cup {Null}  BY <1>3, <1>4
<1>. HIDE DEF element
<1>7. /\ element = Null => Len(encoded) = 1 /\ encoded[1] = Number(1)
      /\ element # Null => /\ Len(encoded) = 3
                           /\ encoded[1] = Number(0) /\ encoded[2] = Number(0)
                           /\ encoded[3] = element
  BY Zenon, <1>6, ElementItems
<1>. HIDE DEF start, encoded
<1>8. Len(encoded) \in Nat  BY <1>7
<1>9. ASSUME NEW m \in 1 .. Len(encoded)
      PROVE  /\ start + m \in 1 .. Len(Elements(array))
             /\ 2 + (start + m) \in 1 .. Len(column0)
             /\ off + (2 + (start + m)) = pos + m
  <2>. DEFINE x == Len(Elements(array))
              y == Len(column0)
              z == ElementOffset(array, e + 1)
              w == Len(encoded)
  <2>1. /\ x \in Nat /\ y = 2 + x /\ start \in Nat /\ z = start + w /\ z <= x /\ w \in Nat
        /\ off \in Nat /\ pos = off + (2 + start) /\ m \in 1 .. w
    BY Zenon, <1>1, <1>2, <1>3, <1>5, <1>8
  <2>. HIDE DEF x, y, z, w
  <2>2. start + m \in 1 .. x /\ 2 + (start + m) \in 1 .. y /\ off + (2 + (start + m)) = pos + m
    BY ONLY <2>1
  <2>. QED  BY <2>2 DEF x, y
<1>10. ASSUME NEW m \in 1 .. Len(encoded)
       PROVE  Item(m) = encoded[m] /\ pos + m <= Len(body)
  BY Zenon, <1>2, <1>3, <1>5, <1>9 DEF Item
<1>11. AtElement
  <2>1. left > 0  BY <1>1, <1>3
  <2>. QED  BY <2>1 DEF AtElement
<1>12. CASE element = Null
  <2>1. 1 \in 1 .. Len(encoded)  BY <1>7, <1>12
  <2>2. Item(1) = Number(1) /\ pos + 1 <= Len(body)  BY Zenon, <1>7, <1>10, <1>12, <2>1
  <2>3. Readable >= 1  BY <2>2, ReadableUndamaged
  <2>4. IsSet(Item(1))
    <3>1. Number(1)[2] = 1 /\ Number(0)[2] = 0  BY DEF Number
    <3>2. Number(1) # Number(0)  BY <3>1
    <3>. QED  BY <2>2, <3>2 DEF IsSet
  <2>. QED  BY Zenon, <1>1, <1>4, <1>11, <1>12, <2>3, <2>4
            DEF FirstIsSet, OnlySecondIsSet, ValueIsReadable, element, array
<1>13. CASE element # Null
  <2>1. 1 \in 1 .. Len(encoded) /\ 2 \in 1 .. Len(encoded) /\ 3 \in 1 .. Len(encoded)
    <3>1. Len(encoded) = 3  BY Zenon, <1>7, <1>13
    <3>. QED  BY ONLY <3>1
  <2>2. /\ Item(1) = Number(0) /\ Item(2) = Number(0) /\ Item(3) = element
        /\ pos + 3 <= Len(body)
    BY Zenon, <1>7, <1>10, <1>13, <2>1
  <2>3. Readable >= 3  BY <2>2, ReadableUndamaged
  <2>4. ~IsSet(Item(1)) /\ ~IsSet(Item(2))  BY Zenon, <2>2 DEF IsSet
  <2>5. column \notin UnreadableArrays
    <3>1. e + 1 \in DOMAIN array  BY <1>3, <1>4
    <3>. QED  BY Zenon, <1>1, <1>13, <3>1, NothingIsRefused DEF element, array
  <2>. QED  BY Zenon, <1>1, <1>4, <1>11, <1>13, <2>2, <2>3, <2>4, <2>5
            DEF FirstIsSet, OnlySecondIsSet, ValueIsReadable, element, array
<1>. QED  BY <1>12, <1>13

\* The end of a record, and of the download.
LEMMA RecordEndIsRead ==
  ASSUME Types, Undamaged, status = "decoding",
         NEW r \in 1 .. Len(sent), AtColumn(r, NumColumns)
  PROVE  /\ AtField /\ Field = RECORD_END /\ Readable >= 2 /\ ChecksumMatches
         /\ pos + 2 = RecordOffset(sent, r)
         /\ Crc(recordCrc) = RecordCrc(sent[r])
         /\ Gathered = sent[r]
<1>1. sent \in Downloads /\ pos \in Nat /\ body = EncodedDownload(sent)  BY DEF Types, Undamaged
<1>. DEFINE n == ColumnOffset(sent[r], NumColumns)
            off == RecordOffset(sent, r - 1)
<1>2. off \in Nat /\ n \in Nat /\ pos = off + n /\ left = 0
  <2>1. r - 1 \in 0 .. Len(sent) /\ NumColumns \in 0 .. NumColumns
    BY <1>1, SentIsRecords, DecodingAssumption
  <2>2. off \in Nat /\ n \in Nat  BY Zenon, <1>1, <2>1, RecordOffsets, ColumnOffsets
  <2>. QED  BY Zenon, <2>2 DEF AtColumn
<1>3. /\ Len(EncodedRecord(sent[r])) = n + 2
      /\ EncodedRecord(sent[r])[n + 1] = Tag(RECORD_END)
      /\ EncodedRecord(sent[r])[n + 2] = RecordCrc(sent[r])
  BY Zenon, <1>1, PlacesOfRecord
<1>4. RecordOffset(sent, r) = off + (n + 2)
  BY Zenon, <1>1, <1>3, RecordOffsets
<1>5. n + 1 \in 1 .. n + 2 /\ n + 2 \in 1 .. n + 2  BY <1>2
<1>6. /\ body[off + (n + 1)] = Tag(RECORD_END) /\ body[off + (n + 2)] = RecordCrc(sent[r])
      /\ off + (n + 2) <= RecordOffset(sent, Len(sent))
      /\ Len(body) = RecordOffset(sent, Len(sent)) + 4 /\ RecordOffset(sent, Len(sent)) \in Nat
  BY Zenon, <1>1, <1>3, <1>5, PlacesOfDownload
<1>. HIDE DEF n, off
<1>7. off + (n + 1) = pos + 1 /\ off + (n + 2) = pos + 2 /\ pos + 2 <= Len(body)
  BY <1>2, <1>6
<1>8. Item(1) = Tag(RECORD_END) /\ Item(2) = RecordCrc(sent[r])  BY Zenon, <1>6, <1>7 DEF Item
<1>9. Field = RECORD_END
  <2>1. RECORD_END \in Nat  BY DEF RECORD_END
  <2>. QED  BY Zenon, <1>8, <2>1, FieldOfTag DEF Field
<1>10. Readable >= 2  BY <1>7, ReadableUndamaged
<1>11. AtField  BY <1>2, <1>10, ReadableItems DEF AtField
<1>12. Crc(recordCrc) = RecordCrc(sent[r])
  <2>1. /\ UpdatesByColumn(sent[r]) \in Seq(Seq(Updates(sent)))
        /\ Len(UpdatesByColumn(sent[r])) = NumColumns
    BY Zenon, <1>1, ColumnTypes
  <2>2. recordCrc = RecordUpdates(sent[r])
    BY Zenon, <2>1, JoinedUnfolds DEF AtColumn, RecordUpdates
  <2>. QED  BY Zenon, <1>1, <2>2, SentIsDescribed
<1>13. ChecksumMatches  BY Zenon, <1>8, <1>12 DEF ChecksumMatches
<1>14. Gathered = sent[r]
  <2>1. \A c \in Columns : c \in nullMap <=> sent[r][c] # Null
    <3>1. \A c \in Columns : c <= NumColumns  BY DecodingAssumption DEF Columns
    <3>. QED  BY Zenon, <3>1 DEF AtColumn, Held
  <2>2. \A c \in nullMap : current[c] = sent[r][c]  BY Zenon DEF AtColumn
  <2>3. \A c \in Columns : (IF c \in nullMap THEN current[c] ELSE Null) = sent[r][c]
    BY Zenon, <2>1, <2>2
  <2>4. sent[r] = [c \in Columns |-> sent[r][c]]  BY Zenon, <1>1, SentIsRecords
  <2>. QED  BY Zenon, <2>3, <2>4 DEF Gathered
<1>. QED  BY Zenon, <1>4, <1>7, <1>9, <1>10, <1>11, <1>12, <1>13, <1>14

LEMMA TailIsRead ==
  ASSUME Types, Undamaged, status = "decoding", AtTail
  PROVE  /\ AtField /\ Field = META_TOTAL_RECORDS
         /\ CountMatches /\ FieldAfterCount = META_CHECKSUM /\ FinalChecksumMatches
         /\ records = sent
<1>1. sent \in Downloads /\ pos \in Nat /\ body = EncodedDownload(sent)  BY DEF Types, Undamaged
<1>. DEFINE last == RecordOffset(sent, Len(sent))
<1>2. /\ last \in Nat /\ Len(body) = last + 4 /\ pos = last
      /\ body[last + 1] = Tag(META_TOTAL_RECORDS) /\ body[last + 2] = Number(Len(sent))
      /\ body[last + 3] = Tag(META_CHECKSUM) /\ body[last + 4] = DownloadCrc(sent)
  BY Zenon, <1>1, PlacesOfDownload DEF AtTail
<1>3. /\ Item(1) = Tag(META_TOTAL_RECORDS) /\ Item(2) = Number(Len(sent))
      /\ Item(3) = Tag(META_CHECKSUM) /\ Item(4) = DownloadCrc(sent)
  BY Zenon, <1>2 DEF Item
<1>4. Readable >= 4
  <2>1. pos + 4 <= Len(body)  BY <1>2
  <2>. QED  BY <2>1, ReadableUndamaged
<1>5. META_TOTAL_RECORDS \in Nat /\ META_CHECKSUM \in Nat  BY DEF META_TOTAL_RECORDS, META_CHECKSUM
<1>6. Field = META_TOTAL_RECORDS /\ FieldNumber(Item(3)) = META_CHECKSUM
  BY Zenon, <1>3, <1>5, FieldOfTag DEF Field
<1>7. Readable >= 1 /\ Readable >= 2 /\ Readable >= 3  BY <1>4, ReadableItems
<1>8. AtField  BY <1>7 DEF AtField, AtTail
<1>9. /\ received = Len(sent) /\ crcOfCrc = SubSeq(Checksums(sent), 1, Len(sent))
      /\ records = SubSeq(sent, 1, Len(sent))
  BY DEF AtTail, ReadRecords
<1>10. records = sent /\ crcOfCrc = Checksums(sent)  BY Zenon, <1>1, <1>9, SentTypes, SubSeqFull
<1>11. CountMatches  BY Zenon, <1>3, <1>7, <1>9 DEF CountMatches
<1>12. FieldAfterCount = META_CHECKSUM  BY Zenon, <1>6, <1>7 DEF FieldAfterCount
<1>13. FinalChecksumMatches
  BY Zenon, <1>1, <1>3, <1>4, <1>10, SentTypes DEF FinalChecksumMatches
<1>. QED  BY <1>6, <1>8, <1>10, <1>11, <1>12, <1>13

\* Between two elements no field is read, and between two columns no element.
LEMMA FieldSteps ==
  ASSUME Types, DeserializeNext
  PROVE  /\ AtField => \/ BuildAndReturnRecord \/ RejectRecord
                       \/ ReadScalar \/ ReadArray \/ RejectColumn
                       \/ EndOfStream \/ RejectMeta \/ DropTag
         /\ AtElement => ReadNull \/ ReadElement \/ RejectElement
<1>1. Readable \in Int /\ left \in Nat  BY ReadableItems DEF Types
<1>2. AtField => ~UnexpectedEnd /\ ~AtElement
  BY <1>1 DEF AtField, AtElement, UnexpectedEnd
<1>3. AtElement => ~UnexpectedEnd /\ ~AtField
  BY <1>1 DEF AtField, AtElement, UnexpectedEnd
<1>4. ReadNull \/ ReadElement \/ RejectElement => AtElement
  BY Zenon DEF ReadNull, ReadElement, RejectElement
<1>5. BuildAndReturnRecord \/ RejectRecord \/ ReadScalar \/ ReadArray \/ RejectColumn
        \/ EndOfStream \/ RejectMeta \/ DropTag => AtField
  BY Zenon DEF BuildAndReturnRecord, RejectRecord, ReadScalar, ReadArray, RejectColumn,
               EndOfStream, RejectMeta, DropTag
<1>. QED  BY Zenon, <1>2, <1>3, <1>4, <1>5 DEF DeserializeNext

LEMMA TailStep ==
  ASSUME Types, Undamaged, status = "decoding", AtTail, DeserializeNext
  PROVE  status' = "done" /\ records' = sent'
<1>1. /\ AtField /\ Field = META_TOTAL_RECORDS
      /\ CountMatches /\ FieldAfterCount = META_CHECKSUM /\ FinalChecksumMatches
      /\ records = sent
  BY Zenon, TailIsRead
<1>2. Field # RECORD_END /\ ~IsColumn(Field)
  BY <1>1, DecodingAssumption DEF META_TOTAL_RECORDS, RECORD_END, IsColumn
<1>3. ~BuildAndReturnRecord /\ ~RejectRecord
  BY Zenon, <1>2 DEF BuildAndReturnRecord, RejectRecord
<1>4. ~ReadScalar /\ ~ReadArray  BY Zenon, <1>2 DEF ReadScalar, ReadArray
<1>5. ~RejectColumn /\ ~RejectMeta /\ ~DropTag
  BY <1>1 DEF RejectColumn, RejectMeta, DropTag
<1>6. EndOfStream  BY Zenon, <1>1, <1>3, <1>4, <1>5, FieldSteps
<1>. QED  BY <1>1, <1>6 DEF EndOfStream

\* Before the first column of the record after r, or before the end.
LEMMA NextRecordPlace ==
  ASSUME Types, NEW r \in Nat, r <= Len(sent),
         sent' = sent, pos' = RecordOffset(sent, r), recordCrc' = << >>, nullMap' = {}, left' = 0,
         received' = r, crcOfCrc' = SubSeq(Checksums(sent), 1, r), records' = SubSeq(sent, 1, r)
  PROVE  InPlace'
<1>1. sent \in Downloads /\ Len(sent) \in Nat  BY SentIsRecords DEF Types
<1>2. ReadRecords(r)'  BY Zenon DEF ReadRecords
<1>3. CASE r = Len(sent)  BY Zenon, <1>2, <1>3 DEF InPlace, AtTail
<1>4. CASE r # Len(sent)
  <2>. DEFINE q == r + 1
  <2>1. q \in 1 .. Len(sent) /\ q - 1 = r  BY <1>1, <1>4
  <2>. HIDE DEF q
  <2>2. /\ 0 \in 0 .. NumColumns
        /\ RecordOffset(sent, q - 1) + ColumnOffset(sent[q], 0) = RecordOffset(sent, q - 1)
        /\ Joined(UpdatesByColumn(sent[q]), 0) = << >>
        /\ Held(sent[q], 0) = {}
    BY Zenon, <1>1, <2>1, FirstPlace
  <2>3. PICK z : z = q  OBVIOUS
  <2>4. \A d : d \notin nullMap'  BY Zenon
  <2>5. AtColumn(z, 0)'  BY Zenon, <1>2, <2>1, <2>2, <2>3, <2>4 DEF AtColumn
  <2>. QED  BY Zenon, <2>1, <2>2, <2>3, <2>5 DEF InPlace
<1>. QED  BY <1>3, <1>4

LEMMA RecordEndStep ==
  ASSUME Types, Undamaged, status = "decoding", DeserializeNext,
         NEW r \in 1 .. Len(sent), AtColumn(r, NumColumns)
  PROVE  status' = "decoding" /\ InPlace'
<1>1. /\ AtField /\ Field = RECORD_END /\ Readable >= 2 /\ ChecksumMatches
      /\ pos + 2 = RecordOffset(sent, r)
      /\ Crc(recordCrc) = RecordCrc(sent[r]) /\ Gathered = sent[r]
  BY Zenon, RecordEndIsRead
<1>2. Field # META_TOTAL_RECORDS /\ ~IsColumn(Field)
  BY <1>1, DecodingAssumption DEF META_TOTAL_RECORDS, RECORD_END, IsColumn
<1>3. BuildAndReturnRecord
  <2>1. ~RejectRecord  BY Zenon, <1>1 DEF RejectRecord
  <2>2. ~ReadScalar /\ ~ReadArray  BY Zenon, <1>2 DEF ReadScalar, ReadArray
  <2>3. ~EndOfStream /\ ~RejectMeta /\ ~DropTag
    BY Zenon, <1>2 DEF EndOfStream, RejectMeta, DropTag
  <2>4. ~RejectColumn  BY <1>1 DEF RejectColumn
  <2>. QED  BY Zenon, <1>1, <2>1, <2>2, <2>3, <2>4, FieldSteps
<1>4. /\ records' = Append(records, sent[r])
      /\ crcOfCrc' = Append(crcOfCrc, RecordCrc(sent[r]))
      /\ recordCrc' = << >> /\ received' = received + 1 /\ pos' = RecordOffset(sent, r)
      /\ nullMap' = {} /\ left' = 0 /\ sent' = sent /\ status' = "decoding"
  <2>1. /\ records' = Append(records, Gathered) /\ crcOfCrc' = Append(crcOfCrc, Crc(recordCrc))
        /\ recordCrc' = << >> /\ received' = received + 1 /\ pos' = pos + 2
        /\ nullMap' = {} /\ left = 0 /\ left' = left /\ sent' = sent
        /\ status' = status
    BY <1>3, RecordIsBuilt
  <2>. QED  BY Zenon, <1>1, <2>1
<1>5. /\ sent \in Downloads /\ received = r - 1 /\ records = SubSeq(sent, 1, r - 1)
      /\ crcOfCrc = SubSeq(Checksums(sent), 1, r - 1)
  BY DEF Types, AtColumn, ReadRecords
<1>6. records' = SubSeq(sent, 1, r) /\ crcOfCrc' = SubSeq(Checksums(sent), 1, r)
  BY Zenon, <1>4, <1>5, RecordsGrow
<1>7. received' = r /\ r \in Nat /\ r <= Len(sent)  BY <1>4, <1>5
<1>. QED  BY Zenon, <1>4, <1>6, <1>7, NextRecordPlace

\* The step that reads a column, or the length of an array.
LEMMA ColumnIsTaken ==
  ASSUME Types, Undamaged, status = "decoding", DeserializeNext,
         NEW r \in 1 .. Len(sent), NEW c \in Columns, AtColumn(r, c - 1), sent[r][c] # Null
  PROVE  /\ recordCrc' = Joined(UpdatesByColumn(sent[r]), c)
         /\ nullMap' = Held(sent[r], c)
         /\ \A d \in nullMap' : d # c => current'[d] = sent[r][d]
         /\ c \in ArrayColumns => current'[c] = << >> /\ left' = Len(sent[r][c])
         /\ c \notin ArrayColumns => current'[c] = sent[r][c] /\ left' = 0
         /\ column' = c /\ pos' = pos + 2
         /\ UNCHANGED <<sent, received, crcOfCrc, records, status>>
<1>. DEFINE value == sent[r][c]
<1>1. /\ AtField /\ Field = c
      /\ c \notin ArrayColumns => ScalarIsReadable /\ Item(2) = value
      /\ c \in ArrayColumns => ArrayIsReadable /\ Item(2) = Number(Len(value))
  BY Zenon, ColumnIsRead
<1>2. Field # RECORD_END /\ Field # META_TOTAL_RECORDS /\ IsColumn(Field)
  BY <1>1, DecodingAssumption DEF META_TOTAL_RECORDS, RECORD_END, IsColumn, Columns
<1>. HIDE DEF value
<1>3. ReadScalar \/ ReadArray
  <2>1. ~BuildAndReturnRecord /\ ~RejectRecord
    BY Zenon, <1>2 DEF BuildAndReturnRecord, RejectRecord
  <2>2. ~EndOfStream /\ ~RejectMeta /\ ~DropTag
    BY Zenon, <1>2 DEF EndOfStream, RejectMeta, DropTag
  <2>3. ~RejectColumn  BY Zenon, <1>1, <1>2 DEF RejectColumn
  <2>. QED  BY Zenon, <1>1, <2>1, <2>2, <2>3, FieldSteps
<1>4. \E v, n : /\ TakeColumn(v, n)
                /\ c \in ArrayColumns => v = << >> /\ n = Len(value)
                /\ c \notin ArrayColumns => v = value /\ n = 0
  <2>1. CASE c \in ArrayColumns
    <3>1. ReadArray  BY Zenon, <1>1, <1>3, <2>1 DEF ReadScalar
    <3>2. TakeColumn(<< >>, Item(2)[2])  BY Zenon, <3>1 DEF ReadArray
    <3>3. Item(2)[2] = Len(value)  BY <1>1, <2>1 DEF Number
    <3>. QED  BY Zenon, <2>1, <3>2, <3>3
  <2>2. CASE c \notin ArrayColumns
    <3>1. ReadScalar  BY Zenon, <1>1, <1>3, <2>2 DEF ReadArray
    <3>2. TakeColumn(Item(2), 0)  BY Zenon, <3>1 DEF ReadScalar
    <3>. QED  BY Zenon, <1>1, <2>2, <3>2
  <2>. QED  BY <2>1, <2>2
<1>5. PICK v, n : /\ TakeColumn(v, n)
                  /\ c \in ArrayColumns => v = << >> /\ n = Len(value)
                  /\ c \notin ArrayColumns => v = value /\ n = 0
  BY Zenon, <1>4
<1>6. /\ nullMap' = nullMap \cup {c}
      /\ recordCrc' = Append(recordCrc, <<"column", c, Item(2)>>)
      /\ current' = [current EXCEPT ![c] = v]
      /\ column' = c /\ left' = n /\ pos' = pos + 2
      /\ UNCHANGED <<sent, crcOfCrc, received, records, status>>
  BY Zenon, <1>1, <1>5 DEF TakeColumn
<1>7. /\ recordCrc = Joined(UpdatesByColumn(sent[r]), c - 1) /\ nullMap = Held(sent[r], c - 1)
      /\ \A d \in nullMap : current[d] = sent[r][d]
      /\ sent \in Downloads /\ recordCrc \in Seq(Updates(sent)) /\ current \in RecordsRead
      /\ nullMap \subseteq Columns
  BY DEF AtColumn, Types
<1>8. nullMap' = Held(sent[r], c)
  <2>1. \A x \in Columns : x <= c <=> x <= c - 1 \/ x = c  BY DecodingAssumption DEF Columns
  <2>2. Held(sent[r], c) = Held(sent[r], c - 1) \cup {c}
    <3>1. sent[r][c] # Null /\ c \in Columns  OBVIOUS
    <3>. QED  BY Zenon, <2>1, <3>1 DEF Held
  <2>. QED  BY Zenon, <1>6, <1>7, <2>2
<1>9. current'[c] = v /\ \A d \in nullMap : d # c => current'[d] = current[d]
  BY <1>6, <1>7 DEF RecordsRead
<1>10. \A d \in nullMap' : d # c => current'[d] = sent[r][d]
  BY Zenon, <1>6, <1>7, <1>9
<1>11. recordCrc' = Joined(UpdatesByColumn(sent[r]), c)
  <2>1. /\ UpdatesByColumn(sent[r]) \in Seq(Seq(Updates(sent)))
        /\ Len(UpdatesByColumn(sent[r])) = NumColumns
    BY Zenon, <1>7, ColumnTypes
  <2>2. c \in 1 .. NumColumns  BY DEF Columns
  <2>3. Joined(UpdatesByColumn(sent[r]), c)
          = Joined(UpdatesByColumn(sent[r]), c - 1) \o UpdatesByColumn(sent[r])[c]
    BY Zenon, <2>1, <2>2, JoinedUnfolds
  <2>4. PICK u : u = ColumnCrc(c, value)  OBVIOUS
  <2>5. UpdatesByColumn(sent[r])[c] = <<u>>
    BY Zenon, <2>4 DEF UpdatesByColumn, ColumnUpdates, value
  <2>6. u = <<"column", c, Item(2)>>
    BY Zenon, <1>1, <2>4 DEF ColumnCrc, Covered
  <2>7. u \in Updates(sent)
    <3>1. <<u>> \in Seq(Updates(sent))
      <4>1. UpdatesByColumn(sent[r])[c] \in Seq(Updates(sent))  BY <2>1, <2>2
      <4>. QED  BY Zenon, <2>5, <4>1
    <3>2. <<u>>[1] \in Updates(sent)
      <4>. DEFINE one == <<u>>
      <4>1. one \in Seq(Updates(sent)) /\ Len(one) = 1  BY <3>1
      <4>. HIDE DEF one
      <4>2. 1 \in 1 .. Len(one)  BY ONLY <4>1
      <4>3. one[1] \in Updates(sent)  BY Zenon, <4>1, <4>2, ElementOfSeq
      <4>. QED  BY <4>3 DEF one
    <3>. QED  BY <3>2
  <2>8. Append(recordCrc, u) = recordCrc \o <<u>>  BY Zenon, <1>7, <2>7, AppendIsConcat
  <2>. QED  BY Zenon, <1>6, <1>7, <2>3, <2>5, <2>6, <2>8
<1>. QED  BY Zenon, <1>5, <1>6, <1>8, <1>9, <1>10, <1>11 DEF value

\* After the last item of a column.
LEMMA NextColumnPlace ==
  ASSUME Types, Undamaged, NEW r \in 1 .. Len(sent), NEW c \in Columns,
         ReadRecords(r - 1), UNCHANGED <<sent, received, crcOfCrc, records>>,
         recordCrc' = Joined(UpdatesByColumn(sent[r]), c),
         nullMap' = Held(sent[r], c), \A d \in nullMap' : current'[d] = sent[r][d],
         pos' = (RecordOffset(sent, r - 1) + ColumnOffset(sent[r], c - 1))
                  + Len(EncodedColumn(c, sent[r][c])),
         left' = 0
  PROVE  InPlace'
<1>1. sent \in Downloads  BY DEF Types
<1>2. /\ c \in 1 .. NumColumns /\ c \in 0 .. NumColumns /\ c - 1 \in 0 .. NumColumns
      /\ r - 1 \in 0 .. Len(sent)
  BY <1>1, SentIsRecords, DecodingAssumption DEF Columns
<1>3. /\ RecordOffset(sent, r - 1) \in Nat /\ ColumnOffset(sent[r], c - 1) \in Nat
      /\ ColumnOffset(sent[r], c) = ColumnOffset(sent[r], c - 1) + Len(EncodedColumn(c, sent[r][c]))
      /\ Len(EncodedColumn(c, sent[r][c])) \in Nat
  BY Zenon, <1>1, <1>2, RecordOffsets, ColumnOffsets
<1>4. pos' = RecordOffset(sent, r - 1) + ColumnOffset(sent[r], c)
  BY <1>3
<1>5. ReadRecords(r - 1)'  BY Zenon DEF ReadRecords
<1>6. AtColumn(r, c)'  BY Zenon, <1>4, <1>5 DEF AtColumn
<1>. QED  BY Zenon, <1>2, <1>6 DEF InPlace

LEMMA ColumnStep ==
  ASSUME Types, Undamaged, status = "decoding", DeserializeNext,
         NEW r \in 1 .. Len(sent), NEW c \in Columns, AtColumn(r, c - 1), sent[r][c] # Null
  PROVE  status' = "decoding" /\ InPlace'
<1>. DEFINE array == sent[r][c]
            off == RecordOffset(sent, r - 1) + ColumnOffset(sent[r], c - 1)
<1>1. /\ recordCrc' = Joined(UpdatesByColumn(sent[r]), c)
      /\ nullMap' = Held(sent[r], c)
      /\ \A d \in nullMap' : d # c => current'[d] = sent[r][d]
      /\ c \in ArrayColumns => current'[c] = << >> /\ left' = Len(array)
      /\ c \notin ArrayColumns => current'[c] = array /\ left' = 0
      /\ column' = c /\ pos' = pos + 2
      /\ UNCHANGED <<sent, received, crcOfCrc, records, status>>
  BY Zenon, ColumnIsTaken
<1>2. sent \in Downloads /\ pos = off /\ ReadRecords(r - 1)  BY DEF Types, AtColumn
<1>3. status' = "decoding"  BY Zenon, <1>1
<1>4. CASE c \notin ArrayColumns
  <2>1. Len(EncodedColumn(c, array)) = 2  BY Zenon, <1>2, <1>4, ColumnParts
  <2>2. \A d \in nullMap' : current'[d] = sent[r][d]  BY Zenon, <1>1, <1>4
  <2>3. InPlace'  BY Zenon, <1>1, <1>2, <1>4, <2>1, <2>2, NextColumnPlace
  <2>. QED  BY <1>3, <2>3
<1>5. CASE c \in ArrayColumns
  <2>1. /\ array \in Seq(Items \cup {Null}) /\ Len(array) \in Nat
        /\ Len(EncodedColumn(c, array)) = 2 + Len(Elements(array))
    BY Zenon, <1>2, <1>5, ColumnParts
  <2>2. ElementOffset(array, 0) = 0 /\ ElementOffset(array, Len(array)) = Len(Elements(array))
    BY Zenon, <2>1, ElementOffsets
  <2>3. CASE Len(array) = 0
    <3>1. array = << >>  BY <2>1, <2>3
    <3>2. Len(EncodedColumn(c, array)) = 2
      <4>1. Len(Elements(array)) = 0  BY Zenon, <2>2, <2>3
      <4>. QED  BY <2>1, <4>1
    <3>3. \A d \in nullMap' : current'[d] = sent[r][d]  BY Zenon, <1>1, <1>5, <3>1
    <3>4. left' = 0  BY Zenon, <1>1, <1>5, <2>3
    <3>5. InPlace'  BY Zenon, <1>1, <1>2, <3>2, <3>3, <3>4, NextColumnPlace
    <3>. QED  BY <1>3, <3>5
  <2>4. CASE Len(array) # 0
    <3>1. 2 = 2 + ElementOffset(array, 0) /\ Len(array) = Len(array) - 0 /\ 0 < Len(array)
      BY <2>1, <2>2, <2>4
    <3>2. SubSeq(array, 1, 0) = << >>  BY SubSeqEmpty
    <3>3. ReadRecords(r - 1)'  BY Zenon, <1>1, <1>2 DEF ReadRecords
    <3>4. pos' = off + (2 + ElementOffset(array, 0))  BY Zenon, <1>1, <1>2, <3>1
    <3>5. InArray(r, c, 0)'  BY Zenon, <1>1, <1>5, <3>1, <3>2, <3>3, <3>4 DEF InArray
    <3>6. 0 \in Nat /\ r \in 1 .. Len(sent')  BY <1>1
    <3>. QED  BY Zenon, <1>3, <3>5, <3>6 DEF InPlace
  <2>. QED  BY <2>3, <2>4
<1>. QED  BY <1>4, <1>5

LEMMA ElementStep ==
  ASSUME Types, Undamaged, status = "decoding", DeserializeNext,
         NEW r \in 1 .. Len(sent), NEW c \in Columns, NEW e \in Nat, InArray(r, c, e)
  PROVE  status' = "decoding" /\ InPlace'
<1>. DEFINE array == sent[r][c]
            element == array[e + 1]
            encoded == EncodedElement(element)
            off == RecordOffset(sent, r - 1) + ColumnOffset(sent[r], c - 1)
<1>1. /\ AtElement /\ column = c /\ e + 1 \in 1 .. Len(array)
      /\ element = Null => FirstIsSet /\ ~OnlySecondIsSet /\ ~ValueIsReadable
      /\ element # Null =>
           ~FirstIsSet /\ ~OnlySecondIsSet /\ ValueIsReadable /\ Item(3) = element
  BY Zenon, ElementIsRead
<1>2. /\ sent \in Downloads /\ c \in ArrayColumns /\ array # Null
      /\ pos = off + (2 + ElementOffset(array, e)) /\ left = Len(array) - e
      /\ recordCrc = Joined(UpdatesByColumn(sent[r]), c) /\ nullMap = Held(sent[r], c)
      /\ \A d \in nullMap : d # c => current[d] = sent[r][d]
      /\ current[c] = SubSeq(array, 1, e) /\ ReadRecords(r - 1)
      /\ current \in RecordsRead /\ nullMap \subseteq Columns
  BY DEF Types, InArray
<1>3. /\ array \in Seq(Items \cup {Null}) /\ Len(array) \in Nat
      /\ Len(EncodedColumn(c, array)) = 2 + Len(Elements(array))
  BY Zenon, <1>2, ColumnParts
<1>. HIDE DEF array, off
<1>4. e \in 0 .. Len(array) /\ (e + 1) - 1 = e /\ element \in Items \cup {Null}  BY <1>1, <1>3
<1>5. /\ ElementOffset(array, e + 1) = ElementOffset(array, e) + Len(encoded)
      /\ ElementOffset(array, e) \in Nat /\ ElementOffset(array, e + 1) \in Nat
      /\ ElementOffset(array, Len(array)) = Len(Elements(array))
  <2>1. e + 1 \in 0 .. Len(array)  BY <1>1, <1>3
  <2>. QED  BY Zenon, <1>1, <1>3, <1>4, <2>1, ElementOffsets
<1>. HIDE DEF element
<1>6. /\ element = Null => Len(encoded) = 1
      /\ element # Null => Len(encoded) = 3
  BY Zenon, <1>4, ElementItems
<1>7. TakeElement(element, Len(encoded))
  <2>1. CASE element = Null
    <3>1. ~ReadElement /\ ~RejectElement  BY Zenon, <1>1, <2>1 DEF ReadElement, RejectElement
    <3>2. ReadNull  BY Zenon, <1>1, <3>1, FieldSteps
    <3>. QED  BY Zenon, <1>1, <1>6, <2>1, <3>2 DEF ReadNull
  <2>2. CASE element # Null
    <3>1. ~ReadNull /\ ~RejectElement  BY Zenon, <1>1, <2>2 DEF ReadNull, RejectElement
    <3>2. ReadElement  BY Zenon, <1>1, <3>1, FieldSteps
    <3>. QED  BY Zenon, <1>1, <1>6, <2>2, <3>2 DEF ReadElement
  <2>. QED  BY <2>1, <2>2
<1>. HIDE DEF encoded
<1>8. /\ current' = [current EXCEPT ![c] = Append(current[c], element)]
      /\ left' = left - 1 /\ pos' = pos + Len(encoded)
      /\ UNCHANGED <<sent, nullMap, recordCrc, crcOfCrc, received, column, records, status>>
  BY Zenon, <1>1, <1>7 DEF TakeElement
<1>9. current'[c] = SubSeq(array, 1, e + 1)
  <2>1. current'[c] = Append(current[c], element)  BY <1>2, <1>8 DEF RecordsRead
  <2>2. Append(SubSeq(array, 1, e), array[e + 1]) = SubSeq(array, 1, e + 1)
    BY Zenon, <1>1, <1>3, <1>4, PrefixGrows
  <2>. QED  BY Zenon, <1>2, <2>1, <2>2 DEF element
<1>10. \A d \in nullMap' : d # c => current'[d] = sent[r][d]
  <2>1. \A d \in nullMap : d # c => current'[d] = current[d]  BY <1>2, <1>8 DEF RecordsRead
  <2>. QED  BY Zenon, <1>2, <1>8, <2>1
<1>11. pos' = off + (2 + ElementOffset(array, e + 1)) /\ left' = Len(array) - (e + 1)
  <2>. DEFINE x == ElementOffset(array, e)
              y == ElementOffset(array, e + 1)
              z == Len(encoded)
              w == Len(array)
  <2>1. /\ pos = off + (2 + x) /\ pos' = pos + z /\ y = x + z /\ x \in Nat /\ y \in Nat
        /\ left = w - e /\ left' = left - 1 /\ w \in Nat /\ e \in Nat
    BY Zenon, <1>2, <1>3, <1>5, <1>8
  <2>2. off \in Nat  BY Zenon, ColumnItems DEF off
  <2>3. z = 1 \/ z = 3  BY Zenon, <1>6
  <2>. HIDE DEF x, y, z, w
  <2>4. pos' = off + (2 + y) /\ left' = w - (e + 1)  BY ONLY <2>1, <2>2, <2>3
  <2>. QED  BY <2>4 DEF y, w
<1>12. CASE e + 1 = Len(array)
  <2>1. current'[c] = array  BY Zenon, <1>3, <1>9, <1>12, SubSeqFull
  <2>2. \A d \in nullMap' : current'[d] = sent[r][d]  BY Zenon, <1>10, <2>1 DEF array
  <2>3. left' = 0  BY <1>3, <1>11, <1>12
  <2>4. pos' = off + Len(EncodedColumn(c, array))  BY Zenon, <1>3, <1>5, <1>11, <1>12
  <2>5. UNCHANGED <<sent, received, crcOfCrc, records>>  BY <1>8
  <2>6. recordCrc' = Joined(UpdatesByColumn(sent[r]), c) /\ nullMap' = Held(sent[r], c)
    BY Zenon, <1>2, <1>8
  <2>7. InPlace'  BY Zenon, <1>2, <2>2, <2>3, <2>4, <2>5, <2>6, NextColumnPlace DEF off, array
  <2>. QED  BY <1>8, <2>7
<1>13. CASE e + 1 # Len(array)
  <2>. DEFINE f == e + 1
  <2>1. f \in Nat /\ f < Len(array) /\ r \in 1 .. Len(sent')  BY <1>1, <1>3, <1>8, <1>13
  <2>2. ReadRecords(r - 1)'  BY Zenon, <1>2, <1>8 DEF ReadRecords
  <2>3. /\ pos' = off + (2 + ElementOffset(array, f)) /\ left' = Len(array) - f
        /\ current'[c] = SubSeq(array, 1, f) /\ column' = c
    BY Zenon, <1>1, <1>8, <1>9, <1>11
  <2>. HIDE DEF f
  <2>4. PICK g \in Nat : g = f  BY <2>1
  <2>5. InArray(r, c, g)'
    BY Zenon, <1>2, <1>8, <1>10, <2>1, <2>2, <2>3, <2>4 DEF InArray, array, off
  <2>. QED  BY Zenon, <1>8, <2>1, <2>5 DEF InPlace
<1>. QED  BY <1>12, <1>13

\* What the deserializer is given is what it reads next.
LEMMA UndamagedStep ==
  ASSUME Types, Undamaged, status = "decoding", InPlace, DeserializeNext
  PROVE  \/ status' = "decoding" /\ InPlace'
         \/ status' = "done" /\ records' = sent'
<1>1. CASE AtTail  BY Zenon, <1>1, TailStep
<1>2. CASE \E r \in 1 .. Len(sent), c \in 0 .. NumColumns : AtColumn(r, c)
  <2>1. PICK r \in 1 .. Len(sent), b \in 0 .. NumColumns : AtColumn(r, b)  BY Zenon, <1>2
  <2>2. sent \in Downloads  BY DEF Types
  <2>3. PICK c \in 0 .. NumColumns :
          /\ ColumnOffset(sent[r], c) = ColumnOffset(sent[r], b)
          /\ Joined(UpdatesByColumn(sent[r]), c) = Joined(UpdatesByColumn(sent[r]), b)
          /\ Held(sent[r], c) = Held(sent[r], b)
          /\ c = NumColumns \/ (c + 1 \in Columns /\ sent[r][c + 1] # Null)
    BY Zenon, <2>2, NextPresent
  <2>4. AtColumn(r, c)  BY Zenon, <2>1, <2>3 DEF AtColumn
  <2>5. CASE c = NumColumns  BY Zenon, <2>4, <2>5, RecordEndStep
  <2>6. CASE c # NumColumns
    <3>1. c + 1 \in Columns /\ sent[r][c + 1] # Null  BY Zenon, <2>3, <2>6
    <3>2. (c + 1) - 1 = c  OBVIOUS
    <3>3. AtColumn(r, (c + 1) - 1)  BY Zenon, <2>4, <3>2
    <3>. QED  BY Zenon, <3>1, <3>3, ColumnStep
  <2>. QED  BY <2>5, <2>6
<1>3. CASE \E r \in 1 .. Len(sent), c \in Columns, e \in Nat : InArray(r, c, e)
  BY Zenon, <1>3, ElementStep
<1>. QED  BY Zenon, <1>1, <1>2, <1>3 DEF InPlace

LEMMA ReadInPlaceInit == Init => ReadInPlace
<1>. SUFFICES ASSUME Init  PROVE InPlace /\ status = "decoding"  BY Zenon DEF ReadInPlace
<1>1. /\ sent \in Downloads /\ pos = 0 /\ recordCrc = << >> /\ nullMap = {} /\ left = 0
      /\ received = 0 /\ crcOfCrc = << >> /\ records = << >> /\ status = "decoding"
  BY DEF Init
<1>2. Len(sent) \in Nat /\ RecordOffset(sent, 0) = 0  BY <1>1, SentIsRecords, RecordOffsets
<1>3. SubSeq(sent, 1, 0) = << >> /\ SubSeq(Checksums(sent), 1, 0) = << >>  BY SubSeqEmpty
<1>4. ReadRecords(0)  BY Zenon, <1>1, <1>3 DEF ReadRecords
<1>5. CASE Len(sent) = 0
  BY Zenon, <1>1, <1>2, <1>4, <1>5 DEF InPlace, AtTail
<1>6. CASE Len(sent) # 0
  <2>1. 1 \in 1 .. Len(sent) /\ 1 - 1 = 0  BY <1>2, <1>6
  <2>2. /\ 0 \in 0 .. NumColumns
        /\ RecordOffset(sent, 1 - 1) + ColumnOffset(sent[1], 0) = RecordOffset(sent, 1 - 1)
        /\ Joined(UpdatesByColumn(sent[1]), 0) = << >> /\ Held(sent[1], 0) = {}
    BY Zenon, <1>1, <2>1, FirstPlace
  <2>3. \A d : d \notin nullMap  BY Zenon, <1>1
  <2>4. AtColumn(1, 0)  BY Zenon, <1>1, <1>2, <1>4, <2>1, <2>2, <2>3 DEF AtColumn
  <2>. QED  BY Zenon, <1>1, <2>1, <2>2, <2>4 DEF InPlace
<1>. QED  BY <1>1, <1>5, <1>6

LEMMA ReadInPlaceStep ==
  ASSUME Types, ReadInPlace, [Next]_vars
  PROVE  ReadInPlace'
<1>1. CASE UNCHANGED vars
  <2>1. InPlace => InPlace'
    BY <1>1 DEF InPlace, AtTail, AtColumn, InArray, ReadRecords, vars, deserializer
  <2>2. Undamaged' => Undamaged  BY <1>1 DEF Undamaged, vars
  <2>. QED  BY <1>1, <2>1, <2>2 DEF ReadInPlace, vars
<1>2. CASE OnTheWay
  <2>1. PICK newBody : Damage(newBody)  BY <1>2, DamagedTypes
  <2>2. damages' # 0  BY <2>1 DEF Damage, Types
  <2>. QED  BY <2>2 DEF ReadInPlace, Undamaged
<1>3. CASE DeserializeNext
  <2>1. status = "decoding" /\ UNCHANGED <<sent, body, damages>>
    <3>1. AtField => status = "decoding"  BY DEF AtField
    <3>2. AtElement => status = "decoding"  BY DEF AtElement
    <3>3. CASE UnexpectedEnd  BY <3>3 DEF UnexpectedEnd, Fail
    <3>4. CASE BuildAndReturnRecord  BY <3>4, RecordIsBuilt
    <3>5. CASE RejectRecord \/ RejectColumn \/ RejectElement \/ RejectMeta
      BY <3>1, <3>2, <3>5 DEF RejectRecord, RejectColumn, RejectElement, RejectMeta, Fail
    <3>6. CASE ReadScalar \/ ReadArray
      BY <3>1, <3>6 DEF ReadScalar, ReadArray, TakeColumn
    <3>7. CASE ReadNull \/ ReadElement
      BY <3>2, <3>7 DEF ReadNull, ReadElement, TakeElement
    <3>8. CASE EndOfStream \/ DropTag  BY <3>1, <3>8 DEF EndOfStream, DropTag
    <3>. QED  BY Zenon, <1>3, <3>3, <3>4, <3>5, <3>6, <3>7, <3>8 DEF DeserializeNext
  <2>2. Undamaged' => Undamaged  BY <2>1 DEF Undamaged
  <2>3. ASSUME Undamaged
        PROVE  \/ status' = "decoding" /\ InPlace'
               \/ status' = "done" /\ records' = sent'
    <3>1. InPlace  BY <2>1, <2>3 DEF ReadInPlace
    <3>. QED  BY Zenon, <1>3, <2>1, <2>3, <3>1, UndamagedStep
  <2>4. "done" # "error" /\ "decoding" # "error" /\ "decoding" # "done"  OBVIOUS
  <2>. QED  BY Zenon, <2>2, <2>3, <2>4 DEF ReadInPlace
<1>. QED  BY <1>1, <1>2, <1>3 DEF Next, Returned

\* A body that arrives as it was sent, and is not longer than the limit nor holds an
\* array that is refused, is read to its end, and into the records that were sent,
\* whatever their number and what they hold.
THEOREM UndamagedIsReadToTheEnd == Spec => []UndamagedIsRead
<1>1. Init => ReadInPlace  BY ReadInPlaceInit
<1>2. DownloadInv /\ ReadInPlace /\ [Next]_vars => ReadInPlace'
  BY ReadInPlaceStep DEF DownloadInv
<1>3. ReadInPlace => UndamagedIsRead
  BY Zenon DEF ReadInPlace, UndamagedIsRead
<1>. QED  BY <1>1, <1>2, <1>3, DownloadIsInvariant, PTL DEF Spec
=============================================================================

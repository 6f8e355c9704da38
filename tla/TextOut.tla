------------------------------ MODULE TextOut ------------------------------
(***************************************************************************)
(* How a text of the driver gets into a buffer of the application          *)
(* (common/utils.h, encoding.cpp).                                         *)
(*                                                                         *)
(* A text is a sequence of characters, a character the number of bytes it  *)
(* takes in UTF-8, 1 to 4.  Every text of the driver is valid UTF-8.  What *)
(* a call leaves behind is a record: the text that is written, the bytes   *)
(* of the buffer it uses with its terminator, and the length the call      *)
(* reports.                                                                *)
(***************************************************************************)
EXTENDS Integers, SequencesExt

CONSTANT LengthMax     \* the greatest SQLSMALLINT

ASSUME LengthAssumption == LengthMax \in Nat

Text == Seq(1 .. 4)

\* What a text takes when each character takes size[c].
Taken(size, text) == FoldLeft(LAMBDA n, c : n + size[c], 0, text)

UTF8 == [c \in 1 .. 4 |-> c]

\* Only a character of four bytes needs two units.
UTF16 == [c \in 1 .. 4 |-> IF c = 4 THEN 2 ELSE 1]

Bytes(text) == Taken(UTF8, text)
Units(text) == Taken(UTF16, text)

\* As many characters of text, from the first on, as have room.
Fitting(text, size, room) ==
  LET fit == {k \in 0 .. Len(text) : Taken(size, SubSeq(text, 1, k)) <= room}
  IN  SubSeq(text, 1, Max(fit))

\* static_cast<SQLSMALLINT>.
AsSmallInt(n) == ((n + LengthMax + 1) % (2 * (LengthMax + 1))) - LengthMax - 1

Nothing(length) == [text |-> << >>, used |-> 0, length |-> length]

-----------------------------------------------------------------------------
(* UTF-16                                                                  *)

Utf8ToUtf16(text, max) == Fitting(text, UTF16, max)

\* size / sizeof(SQLWCHAR) - 1 as a size_t: of a size of 0 or 1 it wraps around, and
\* there is room for whatever the text needs.
RoomFor(text, size) == IF size < 2 THEN Units(text) ELSE size \div 2 - 1

\* The size of the buffer and the length are in bytes.  Without a buffer the length is
\* the text's in UTF-8, doubled; with one it is what is written.
StdStringToOdbcWString(text, size) ==
  IF size <= 0 THEN Nothing(AsSmallInt(2 * Bytes(text)))
  ELSE LET written == Utf8ToUtf16(text, RoomFor(text, size))
       IN  [text |-> written, used |-> 2 * (Units(written) + 1),
            length |-> AsSmallInt(2 * Units(written))]

-----------------------------------------------------------------------------
(* The charset of the client                                               *)

\* Fault: no room is kept for the terminator.
SafeUtf8TruncatePointAtEnd(text, room) == Fitting(text, UTF8, room + 1)

SafeUtf8TruncatePoint(text, room) == Fitting(text, UTF8, room)

\* The length is that of the whole text.
WriteUtf8Direct(text, size) ==
  IF size = 0 THEN Nothing(Bytes(text))
  ELSE LET written == SafeUtf8TruncatePoint(text, size - 1)
       IN  [text |-> written, used |-> Bytes(written) + 1, length |-> Bytes(text)]

\* A charset says how many bytes a character takes, 0 when it has none for it: such a
\* character is left out.
Representable(charset, text) ==
  FoldLeft(LAMBDA known, c : IF charset[c] # 0 THEN Append(known, c) ELSE known,
           << >>, text)

\* iconv writes the characters that fit and counts the others.
WriteUtf8AsCharsetIconv(charset, text, size) ==
  LET known == Representable(charset, text)
      written == Fitting(known, charset, size - 1)
  IN  IF size = 0 THEN Nothing(Taken(charset, known))
      ELSE [text |-> written, used |-> Taken(charset, written) + 1,
            length |-> Taken(charset, known)]

WriteUtf8AsCharset(charset, text, size) ==
  IF charset = UTF8 THEN WriteUtf8Direct(text, size)
                    ELSE WriteUtf8AsCharsetIconv(charset, text, size)

-----------------------------------------------------------------------------
(* Plain copies, as the narrow diagnostic calls make them                  *)

\* The copy may end inside a character, which is then not part of the text.
CopyBytes(text, size) ==
  IF size = 0 THEN Nothing(AsSmallInt(Bytes(text)))
  ELSE LET n == Min({size - 1, Bytes(text)})
       IN  [text |-> Fitting(text, UTF8, n), used |-> n + 1, length |-> n]

=============================================================================

-------------------------- MODULE MCSettingParser --------------------------
(* SettingParser on the texts made of few pieces.                          *)
EXTENDS SettingParser

CONSTANT MaxPieces   \* bound: pieces of a text

Pieces ==
  {<<"set", Blank>>, <<"set">>, <<"set", Blank, "x", "=", "y", ";">>,
   <<"x", "=">>, <<"x">>, <<"y">>, <<"=">>, <<";">>, <<Backslash, ";">>, <<Backslash>>,
   <<Blank>>, <<NewLine>>, <<"-", "-">>, <<"/", "*">>, <<"*", "/">>, <<"/">>}

MCQueries ==
  {FlattenSeq(pieces) : pieces \in UNION {[1 .. n -> Pieces] : n \in 0 .. MaxPieces}}
=============================================================================

---------------------------- MODULE AnswerField ----------------------------
(***************************************************************************)
(* Reading one string field out of a JSON text that arrives in pieces, and *)
(* publishing it in larger pieces: _StreamingJSONStringField and           *)
(* _AnswerMarkdownPublisher of services/answer_generation.py.              *)
(*                                                                         *)
(* A character is a string: "q" is the double quote, "k" the name inside   *)
(* the quoted key, "b" the backslash, "n" the letter of a newline escape,  *)
(* "u" that of a code unit escape, whose four digits are one character     *)
(* ("hi", "lo" for the halves of a pair, "bmp" for a unit of its own).      *)
(***************************************************************************)
EXTENDS Naturals, Sequences, SequencesExt

Needle == <<"q", "k", "q">>

\* What a decoded character reads as: the escapes of _JSON_SIMPLE_ESCAPES a text uses.
SimpleEscape == [c \in {"n", "q", "b"} |-> IF c = "n" THEN "newline" ELSE c]

NewField == [state |-> "key", tail |-> <<>>, escape |-> "none", high |-> FALSE,
             failed |-> FALSE, out |-> <<>>]

Fails(f) == [f EXCEPT !.failed = TRUE]
Emits(f, c) == [f EXCEPT !.out = Append(@, c)]

\* _decode_code_unit
CodeUnit(f, c) ==
  CASE c = "hi" -> IF f.high THEN Fails(f) ELSE [f EXCEPT !.high = TRUE]
    [] c = "lo" -> IF f.high THEN Emits([f EXCEPT !.high = FALSE], "pair") ELSE Fails(f)
    [] c = "bmp" -> IF f.high THEN Fails(f) ELSE Emits(f, "bmp")
    [] OTHER    -> Fails(f)

\* The character behind a backslash
EscapeLetter(f, c) ==
  IF c = "u" THEN [f EXCEPT !.escape = "unit"]
  ELSE IF c \in DOMAIN SimpleEscape /\ ~f.high
       THEN Emits([f EXCEPT !.escape = "none"], SimpleEscape[c])
       ELSE Fails(f)

InString(f, c) ==
  IF f.escape = "unit" THEN CodeUnit([f EXCEPT !.escape = "none"], c)
  ELSE IF f.escape = "char" THEN EscapeLetter(f, c)
  ELSE IF c = "b" THEN [f EXCEPT !.escape = "char"]
  ELSE IF c = "q" THEN (IF f.high THEN Fails(f) ELSE [f EXCEPT !.state = "done"])
  ELSE IF c = "control" \/ f.high THEN Fails(f) ELSE Emits(f, c)

\* Whitespace may stand before the colon and before the value.
Expects(f, c, mark, state) ==
  IF c = " " THEN f ELSE IF c = mark THEN [f EXCEPT !.state = state] ELSE Fails(f)

ReadChar(f, c) ==
  IF f.failed \/ f.state = "done" THEN f
  ELSE IF f.state = "colon" THEN Expects(f, c, ":", "value")
  ELSE IF f.state = "value" THEN Expects(f, c, "q", "string")
  ELSE InString(f, c)

ReadChars(f, chars) == FoldLeft(ReadChar, f, chars)

KeyEnds(s) == {i \in 1..Len(s): i >= Len(Needle) /\ SubSeq(s, i - Len(Needle) + 1, i) = Needle}
First(S) == CHOOSE i \in S: \A j \in S: i <= j
KeyTail(s) == IF Len(s) < Len(Needle) THEN s ELSE SubSeq(s, Len(s) - Len(Needle) + 2, Len(s))

\* Seeded fault: the search forgets what the earlier pieces ended with.
FeedPiecewise(f, chunk) ==
  LET s == chunk IN
  IF f.state # "key" THEN ReadChars([f EXCEPT !.out = <<>>], chunk)
  ELSE IF KeyEnds(s) = {} THEN [f EXCEPT !.out = <<>>]
  ELSE ReadChars([f EXCEPT !.state = "colon", !.tail = <<>>, !.out = <<>>],
                 SubSeq(s, First(KeyEnds(s)) + 1, Len(s)))

\* feed: "out" is what this piece decodes to
Feed(f, chunk) ==
  LET s == f.tail \o chunk IN
  IF f.state # "key" THEN ReadChars([f EXCEPT !.out = <<>>], chunk)
  ELSE IF KeyEnds(s) = {} THEN [f EXCEPT !.tail = KeyTail(s), !.out = <<>>]
  ELSE ReadChars([f EXCEPT !.state = "colon", !.tail = <<>>, !.out = <<>>],
                 SubSeq(s, First(KeyEnds(s)) + 1, Len(s)))

-----------------------------------------------------------------------------
NewPublisher == [field |-> NewField, pending |-> <<>>, published |-> FALSE]

\* A piece goes out when it is the first, when enough has gathered or at a newline.
Flushes(p, decoded, size) ==
  /\ decoded # <<>>
  /\ ~p.published \/ Len(p.pending \o decoded) >= size \/ "newline" \in ToSet(decoded)

Published(p) == [p EXCEPT !.pending = <<>>, !.published = @ \/ p.pending # <<>>]

\* The publisher after a raw piece, and what it hands on
FeedPublisher(p, chunk, size) ==
  LET f == Feed(p.field, chunk)
      q == [p EXCEPT !.field = [f EXCEPT !.out = <<>>], !.pending = @ \o f.out] IN
  IF Flushes(p, f.out, size)
  THEN [publisher |-> Published(q), text |-> q.pending]
  ELSE [publisher |-> q, text |-> <<>>]
=============================================================================

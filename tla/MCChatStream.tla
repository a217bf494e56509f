---------------------------- MODULE MCChatStream ----------------------------
(***************************************************************************)
(* The chat stream for TLC: the texts a model may write.                   *)
(***************************************************************************)
EXTENDS ChatStreamProperties

Escape == [newline |-> <<"b", "n">>, q |-> <<"b", "q">>, a |-> <<"a">>,
           pair |-> <<"b", "u", "hi", "b", "u", "lo">>]
Escaped(markdown) == FlattenSeq([i \in 1..Len(markdown) |-> Escape[markdown[i]]])

AnswerText(markdown) ==
  [chars |-> <<"{">> \o Needle \o <<":", "q">> \o Escaped(markdown) \o <<"q", "}">>,
   form |-> "answer", markdown |-> markdown]

Texts == {AnswerText(<<"a", "newline", "pair">>),
          [chars |-> <<"{", "}">>, form |-> "object", markdown |-> <<>>],
          [chars |-> <<"a", "q">>, form |-> "garbage", markdown |-> <<>>]}

\* The hypothesis of StreamedTextIsTheAnswerHolds, for the texts of the runs.
ASSUME TextsReadAtOnce == ReadAtOnce

Protocols == {<<"responses", "chat_completions">>, <<"responses">>}
=============================================================================

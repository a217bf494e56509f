----------------------------- MODULE AnswerTurn -----------------------------
(***************************************************************************)
(* What a browser may rely on when it asks a question: the events of one   *)
(* stream (public contract of routers/chat.py, read by static/chat.js).    *)
(*                                                                         *)
(* The stages are announced in order and at most once, text grows only     *)
(* while the answer is being generated, one terminal event is the last     *)
(* event, and nothing comes once the stream is over.                       *)
(***************************************************************************)
EXTENDS Naturals, Sequences, SequencesExt

VARIABLES
  said,    \* the announcements made
  text,    \* the answer text streamed so far
  over     \* the stream is closed

turn == <<said, text, over>>

Order == <<"intent_detected", "navigation_started", "navigation_done", "answer_generating",
           "conflict_detected", "download_ready", "completed">>
Rank(e) == CHOOSE i \in 1..Len(Order): Order[i] = e

Terminated == said # <<>> /\ Last(said) \in {"completed", "error"}

Init == said = <<>> /\ text = <<>> /\ over = FALSE

Announce(e) ==
  /\ ~over /\ ~Terminated
  /\ said # <<>> => Rank(Last(said)) < Rank(e)
  /\ said' = Append(said, e)
  /\ UNCHANGED <<text, over>>

Fail ==
  /\ ~over /\ ~Terminated
  /\ said' = Append(said, "error")
  /\ UNCHANGED <<text, over>>

Speak ==
  /\ ~over /\ said # <<>> /\ Last(said) = "answer_generating"
  /\ IsStrictPrefix(text, text')
  /\ UNCHANGED <<said, over>>

HangUp == ~over /\ over' = TRUE /\ UNCHANGED <<said, text>>

Next == (\E i \in 1..Len(Order): Announce(Order[i])) \/ Fail \/ Speak \/ HangUp

Spec == Init /\ [][Next]_turn
=============================================================================

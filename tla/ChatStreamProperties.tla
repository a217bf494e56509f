------------------------ MODULE ChatStreamProperties ------------------------
(***************************************************************************)
(* What a question over the stream promises: its browser, its database     *)
(* session and the model requests it makes.                                *)
(***************************************************************************)
EXTENDS ChatStream

\* The session is open as long as a task that reads through it may still take a step,
\* also when the browser leaves in the middle (chat.py:226-230, 337-345, 389-390).
SessionOutlivesTasks == locate \in Live \/ answer \in Live => session = "open"

Said(e) == said # <<>> /\ Last(said) = e

\* The markdown of an answer is what its text decodes to when it is read at once.
ReadAtOnce == \A t \in Text : t.form = "answer" => Feed(NewField, t.chars).out = t.markdown

\* The text streamed to the browser is the answer it is given at the end: pieces of any
\* length, the publisher's buffer, the queue, cancelled reads of it and the final drain
\* lose, repeat and reorder nothing; a prefix before, the whole of it at "completed".
\* An attempt that broke off after its first output is the one exception.
StreamedTextIsTheAnswer ==
  ~call.broken =>
    /\ call.spoken /\ call.text.form = "answer" => IsPrefix(text, call.text.markdown)
    /\ Said("completed") /\ answer = "done" =>
         text = IF call.streamed THEN call.text.markdown ELSE <<>>

\* "Incrementally decode one JSON string field without exposing its envelope"
\* (answer_generation.py:57): the brace that opens the object is not part of the answer.
EnvelopeStaysInside == "{" \notin ToSet(text)

\* A structured call makes at most two streamed and six plain requests: each of the four
\* prompts is sent once per protocol (clients.py:166-290).
RequestsAreBounded == call.requests <= 8

\* Whatever the providers do, the session of a question is closed in the end.
EveryQuestionEnds == session = "open" ~> session = "closed"

\* A browser that stays is told how its question ended.
ListenerIsAnswered ==
  server = "opened" ~> (Said("completed") \/ Said("error") \/ browser = "gone")

Turn == INSTANCE AnswerTurn WITH over <- server = "closed"

\* The generator, its tasks, queue and cancellation implement the stream of one turn.
ImplementsTurn == Turn!Spec
=============================================================================

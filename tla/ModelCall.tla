----------------------------- MODULE ModelCall -----------------------------
(***************************************************************************)
(* One structured call of a model client, generate_json_stream of          *)
(* llm/clients.py: a streamed request, then the plain requests it falls    *)
(* back to (native structured output, the schema in the prompt, one        *)
(* repair), each tried over the candidate protocols of the client.         *)
(*                                                                         *)
(* What a provider answers is free: it fails, answers at once, streams in  *)
(* pieces, breaks off.  A text is either an answer of the schema, another  *)
(* JSON object or no JSON at all.                                          *)
(***************************************************************************)
EXTENDS Naturals, Sequences

CONSTANTS
  Preference,    \* the sequences of protocols a provider may be configured with
  Text,          \* what a model may write: [chars, form, markdown]
  Piece,         \* lengths of a streamed piece
  MaxSummaries,  \* bound: reasoning summaries published in one attempt
  ReportEvery    \* characters between two reports of progress

\* A provider prefers one protocol, or the first of the two.
ASSUME ModelCallConstants ==
  /\ \A p \in Preference : p \in Seq({"responses", "chat_completions"}) /\ Len(p) \in 1..2
  /\ Text \subseteq [chars: Seq(STRING), form: {"answer", "object", "garbage"},
                     markdown: Seq(STRING)]
  /\ Piece \subseteq Nat \ {0} /\ MaxSummaries \in Nat /\ ReportEvery \in Nat

VARIABLES
  preference,    \* protocols the configuration asks for
  resolved,      \* protocol that answered the client before, or <<>>
  call           \* where the call stands

callVars == <<preference, resolved, call>>

Stages == {"idle", "stream", "native", "fallback", "repair", "value", "failed"}
NoText == [chars |-> <<>>, form |-> "none", markdown |-> <<>>]

\* "spoken": the attempt has handed on output; "broken": an attempt that had did not
\* become the answer; "streamed": the answer is the text of an attempt that had.
NewCall == [stage |-> "idle", try |-> 1, open |-> FALSE, text |-> NoText, pos |-> 0,
            summaries |-> 0, report |-> ReportEvery, spoken |-> FALSE, broken |-> FALSE,
            streamed |-> FALSE, requests |-> 0]

\* _candidate_protocols
Candidates == IF resolved # <<>> THEN resolved ELSE preference
Protocol == Candidates[call.try]

CallInit ==
  /\ preference \in Preference
  /\ resolved = <<>>
  /\ call = NewCall

Ended == call.stage \in {"value", "failed"}
Requests(c) == [c EXCEPT !.requests = @ + 1]

\* The last protocol failed
OnError(stage) ==
  CASE stage = "stream" -> "native"
    [] stage = "native" -> "fallback"
    [] OTHER -> "failed"

Closed(c) == [c EXCEPT !.open = FALSE, !.pos = 0, !.summaries = 0, !.report = ReportEvery,
                       !.spoken = FALSE, !.broken = @ \/ c.spoken]

\* Seeded fault: a request that failed on its last protocol is made again.
NextAttemptAgain(c) ==
  IF c.try < Len(Candidates) THEN [Closed(c) EXCEPT !.try = @ + 1]
  ELSE IF c.stage = "native" /\ c.requests < 9 THEN [Closed(c) EXCEPT !.try = 1]
  ELSE [Closed(c) EXCEPT !.try = 1, !.stage = OnError(c.stage)]

NextAttempt(c) ==
  IF c.try < Len(Candidates) THEN [Closed(c) EXCEPT !.try = @ + 1]
  ELSE [Closed(c) EXCEPT !.try = 1, !.stage = OnError(c.stage)]

\* A text that is no JSON object
OnGarbage(stage) ==
  CASE stage = "stream" -> "native"
    [] stage = "native" -> "fallback"
    [] stage = "fallback" -> "repair"
    [] OTHER -> "failed"

\* A text came back and settled the protocol.
Answered(c, text) ==
  [Closed(c) EXCEPT
     !.try = 1,
     !.text = text,
     !.stage = IF text.form = "garbage" THEN OnGarbage(c.stage) ELSE "value",
     !.streamed = c.spoken /\ text.form # "garbage",
     !.broken = c.broken \/ (c.spoken /\ text.form = "garbage")]

-----------------------------------------------------------------------------
StartCall == call.stage = "idle" /\ call' = [call EXCEPT !.stage = "stream"]
             /\ UNCHANGED <<preference, resolved>>

\* _post or the opening of _post_stream fails, or the response holds no text.
RequestFails ==
  /\ call.stage \in {"stream", "native", "fallback", "repair"}
  /\ ~call.open
  /\ call' = NextAttempt(Requests(call))
  /\ UNCHANGED <<preference, resolved>>

\* A plain response, or a provider that answers a streamed request at once.
RequestAnswers(text) ==
  /\ call.stage \in {"stream", "native", "fallback", "repair"}
  /\ ~call.open
  /\ resolved' = <<Protocol>>
  /\ call' = Answered(Requests(call), text)
  /\ UNCHANGED preference

StreamOpens(text) ==
  /\ call.stage = "stream" /\ ~call.open
  /\ call' = [Requests(call) EXCEPT !.open = TRUE, !.text = text]
  /\ UNCHANGED <<preference, resolved>>

\* Reasoning summaries come before the output, from the Responses protocol alone.
StreamSummary ==
  /\ call.open /\ Protocol = "responses" /\ call.pos = 0
  /\ call.summaries < MaxSummaries
  /\ call' = [call EXCEPT !.summaries = @ + 1]
  /\ UNCHANGED <<preference, resolved>>

Chunk(n) == SubSeq(call.text.chars, call.pos + 1, call.pos + n)
Reports(n) == call.pos + n >= call.report

StreamDelta(n) ==
  /\ call.open
  /\ call.pos + n <= Len(call.text.chars)
  /\ call' = [call EXCEPT !.pos = @ + n, !.spoken = TRUE,
                          !.report = IF Reports(n) THEN call.pos + n + ReportEvery ELSE @]
  /\ UNCHANGED <<preference, resolved>>

\* An error event, a broken connection, an event that is no JSON; or the end of a
\* stream that wrote nothing.
StreamBreaks ==
  /\ call.open
  /\ call' = NextAttempt(call)
  /\ UNCHANGED <<preference, resolved>>

\* The stream ends: its text is what was streamed, whole or cut short.
StreamEnds ==
  /\ call.open /\ call.pos > 0
  /\ resolved' = <<Protocol>>
  /\ call' = Answered(call, IF call.pos = Len(call.text.chars) THEN call.text
                            ELSE [call.text EXCEPT !.form = "garbage"])
  /\ UNCHANGED preference

\* Nothing was streamed, the closing event carries the text.
StreamCompletes ==
  /\ call.open /\ call.pos = 0 /\ Protocol = "responses"
  /\ resolved' = <<Protocol>>
  /\ call' = Answered(call, call.text)
  /\ UNCHANGED preference

CallStep ==
  \/ StartCall \/ RequestFails \/ \E text \in Text: RequestAnswers(text) \/ StreamOpens(text)
  \/ StreamSummary \/ \E n \in Piece: StreamDelta(n)
  \/ StreamBreaks \/ StreamEnds \/ StreamCompletes
=============================================================================

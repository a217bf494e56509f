-------------------------- MODULE ChatStreamProofs --------------------------
(***************************************************************************)
(* A question over the stream, for any texts, pieces and preferences: the  *)
(* session outlives the tasks that read through it, the requests of a      *)
(* structured call are bounded by its four prompts and two protocols, the  *)
(* generator and its tasks implement the abstract turn, and the text the   *)
(* browser is sent is the answer.                                          *)
(***************************************************************************)
EXTENDS ChatStreamProperties, FoldLemmas, SequenceTheorems

-----------------------------------------------------------------------------
(* The session                                                             *)

\* A task lives only where the generator awaits it, or has cancelled it and waits for
\* its end; the session stays open from before its first task to behind its last.
SessionInv ==
  /\ locate \in TaskState /\ answer \in TaskState
  /\ locate \in Live => server \in {"locating", "unwinding"}
  /\ answer \in Live => server \in {"answering", "unwinding"}
  /\ server = "opened" => session = "open"
  /\ server # "closed" /\ (locate # "none" \/ answer # "none") => session = "open"

LEMMA SessionInit == Init => SessionInv
  BY DEF Init, SessionInv, TaskState, Live

LEMMA GeneratorKeepsSession == SessionInv /\ Generator => SessionInv'
<1> SUFFICES ASSUME SessionInv, Generator PROVE SessionInv'
  OBVIOUS
<1> USE DEF SessionInv, TaskState, Live, Finished, Goes
<1>1. CASE AnswerSmallTalk
  BY <1>1 DEF AnswerSmallTalk
<1>2. CASE OpenSession
  BY <1>2 DEF OpenSession
<1>3. CASE StartNavigation
  BY <1>3 DEF StartNavigation
<1>4. CASE SeeNavigation
  BY <1>4 DEF SeeNavigation
<1>5. CASE EndSmallTalk
  BY <1>5 DEF EndSmallTalk
<1>6. CASE StartAnswer
  BY <1>6 DEF StartAnswer
<1>7. CASE PassItem
  BY <1>7 DEF PassItem
<1>8. CASE SeeAnswer
  BY <1>8 DEF SeeAnswer
<1>9. CASE DrainItem
  BY <1>9 DEF DrainItem
<1>10. CASE Drained
  BY <1>10 DEF Drained
<1>11. CASE \E e \in {"conflict_detected", "download_ready"}: ReportFinding(e)
  BY <1>11 DEF ReportFinding
<1>12. CASE Complete
  BY <1>12 DEF Complete
<1>13. CASE ReportError
  BY <1>13 DEF ReportError, Raises
<1>14. CASE CloseSession
  BY <1>14 DEF CloseSession
<1>15. CASE Unwind
  BY <1>15 DEF Unwind, Cancelled
<1>16. CASE CloseUnwound
  BY <1>16 DEF CloseUnwound
<1>17. QED
  BY <1>1, <1>2, <1>3, <1>4, <1>5, <1>6, <1>7, <1>8, <1>9, <1>10, <1>11, <1>12, <1>13, <1>14,
     <1>15, <1>16 DEF Generator

\* Once it runs the answer task ends by itself or goes on; it touches nothing of the
\* generator's.
LEMMA AnswerTaskMoves ==
  AnswerTask => /\ answer = "running" /\ answer' \in {"running", "done", "failed"}
                /\ UNCHANGED <<locate, server, session>>
<1> SUFFICES ASSUME AnswerTask
             PROVE  /\ answer = "running" /\ answer' \in {"running", "done", "failed"}
                    /\ UNCHANGED <<locate, server, session>>
  OBVIOUS
<1> USE DEF AnswerEffects
<1>1. CASE \E n \in Piece: SpeakDelta(n)
  BY <1>1 DEF SpeakDelta
<1>2. CASE SpeakSummary
  BY <1>2 DEF SpeakSummary
<1>3. CASE CallModel
  BY <1>3 DEF CallModel
<1>4. CASE FinishAnswer
  BY <1>4 DEF FinishAnswer
<1>5. CASE AnswerFails
  BY <1>5 DEF AnswerFails
<1>6. QED
  BY <1>1, <1>2, <1>3, <1>4, <1>5 DEF AnswerTask

LEMMA StepKeepsSession == SessionInv /\ [Next]_vars => SessionInv'
<1> SUFFICES ASSUME SessionInv, [Next]_vars PROVE SessionInv'
  OBVIOUS
<1>1. CASE Generator
  BY <1>1, GeneratorKeepsSession
<1>2. CASE TakeItem \/ WaitOn \/ Disconnect \/ UNCHANGED vars
  BY <1>2 DEF TakeItem, WaitOn, Disconnect, SessionInv, vars, chatVars
<1>3. CASE NavigationTask
  BY <1>3 DEF NavigationTask, Navigate, SessionInv, TaskState, Live, Finished
<1>4. CASE AnswerTask
  BY <1>4, AnswerTaskMoves DEF SessionInv, TaskState, Live
<1>5. CASE CancelTask
  BY <1>5 DEF CancelTask, SessionInv, TaskState, Live
<1>6. QED
  BY <1>1, <1>2, <1>3, <1>4, <1>5 DEF Next

\* The session of a question is open as long as one of its two tasks may take a step,
\* wherever the browser leaves (chat.py:226-230, 337-345, 389-390).
THEOREM SessionOutlivesTasksHolds == Spec => []SessionOutlivesTasks
<1>1. SessionInv => SessionOutlivesTasks
  BY DEF SessionInv, SessionOutlivesTasks, Live
<1>2. QED
  BY <1>1, SessionInit, StepKeepsSession, PTL DEF Spec

-----------------------------------------------------------------------------
(* The requests                                                            *)

\* Requests made before a prompt is sent for the first time.
Before == [stream |-> 0, native |-> 2, fallback |-> 4, repair |-> 6]

Written == [chars: Seq(STRING), form: {"none", "answer", "object", "garbage"},
            markdown: Seq(STRING)]
Call == [stage: Stages, try: Nat, open: BOOLEAN, text: Written, pos: Nat, summaries: Nat,
         report: Nat, spoken: BOOLEAN, broken: BOOLEAN, streamed: BOOLEAN, requests: Nat]

\* Of a prompt, one request has been made for each protocol tried; its own when made.
Counted(c, made, protocols) ==
  /\ c \in Call
  /\ c.open => c.stage = "stream"
  /\ c.requests <= 8
  /\ c.stage = "idle" => c.try = 1 /\ c.requests = 0
  /\ c.stage \in DOMAIN Before =>
       /\ c.try \in 1..protocols
       /\ c.requests <= Before[c.stage] + c.try - 1 + (IF made THEN 1 ELSE 0)

RequestInv ==
  /\ preference \in Preference
  /\ resolved = << >> \/ Len(resolved) = 1
  /\ Counted(call, call.open, Len(Candidates))

LEMMA CandidatesAreFew ==
  ASSUME preference \in Preference, resolved = << >> \/ Len(resolved) = 1
  PROVE  Len(Candidates) \in 1..2
  BY ModelCallConstants DEF Candidates

LEMMA NewCallCounted == Counted(NewCall, FALSE, 1)
  BY ModelCallConstants DEF NewCall, NoText, Counted, Call, Written, Stages, Before

LEMMA RequestInit == Init => RequestInv
<1> SUFFICES ASSUME Init PROVE RequestInv
  OBVIOUS
<1>1. preference \in Preference /\ resolved = << >> /\ call = NewCall
  BY DEF Init, CallInit
<1>2. Counted(NewCall, NewCall.open, Len(Candidates))
  BY NewCallCounted DEF NewCall, Counted, Before
<1>3. QED
  BY <1>1, <1>2 DEF RequestInv

\* A request made is one of the protocol that is tried.
LEMMA RequestCounted ==
  ASSUME NEW protocols \in 1..2, Counted(call, FALSE, protocols), call.stage \in DOMAIN Before
  PROVE  Counted(Requests(call), TRUE, protocols)
  BY DEF Counted, Requests, Call, Before

LEMMA ClosedCounted ==
  ASSUME NEW protocols \in 1..2, NEW c, Counted(c, TRUE, protocols)
  PROVE  /\ Counted(Closed(c), TRUE, protocols)
         /\ Closed(c).stage = c.stage /\ Closed(c).try = c.try
         /\ Closed(c).requests = c.requests /\ ~Closed(c).open
  BY ModelCallConstants DEF Counted, Closed, Call, Before

LEMMA BeforeIsNumber == \A stage \in DOMAIN Before : Before[stage] \in 0..6
  BY DEF Before

\* After the last protocol comes the next prompt, and no further request of this one.
LEMMA AttemptCounted ==
  ASSUME NEW c, Len(Candidates) \in 1..2, Counted(c, TRUE, Len(Candidates)),
         c.stage \in DOMAIN Before
  PROVE  Counted(NextAttempt(c), FALSE, Len(Candidates)) /\ ~NextAttempt(c).open
<1>1. PICK protocols \in 1..2 : protocols = Len(Candidates)
  OBVIOUS
<1> DEFINE d == Closed(c)
           e == NextAttempt(c)
<1>2. /\ Counted(d, TRUE, protocols) /\ ~d.open
      /\ d.stage = c.stage /\ d.try = c.try
  BY <1>1, ClosedCounted
<1>3. d \in Call /\ d.requests <= Before[c.stage] + d.try /\ Before[c.stage] \in 0..6
  BY <1>2 DEF Counted, Before, Call
<1>4. /\ OnError(c.stage) \in Stages \ {"idle", "stream", "repair"}
      /\ OnError(c.stage) \in DOMAIN Before => Before[c.stage] + 2 <= Before[OnError(c.stage)]
  BY DEF OnError, Before, Stages
<1>5. CASE c.try < Len(Candidates)
  <2>1. e = [d EXCEPT !.try = @ + 1]
    BY <1>5 DEF NextAttempt
  <2> HIDE DEF d, e
  <2>2. /\ e \in Call /\ ~e.open /\ e.try = c.try + 1 /\ e.stage = c.stage
        /\ e.requests = d.requests
    BY <1>2, <1>3, <2>1 DEF Call
  <2>3. d.try \in 1..protocols /\ d.requests <= 8 /\ d.requests \in Nat
    BY <1>2, <1>3 DEF Call, Counted
  <2>4. e.try \in 1..protocols /\ e.requests <= Before[e.stage] + e.try - 1 + 0
    BY <1>1, <1>2, <1>3, <1>5, <2>2, <2>3
  <2>5. e.stage # "idle"
    BY <2>2 DEF Before
  <2>6. Counted(e, FALSE, protocols) /\ ~e.open
    BY <2>2, <2>3, <2>4, <2>5 DEF Counted
  <2>7. QED
    BY <1>1, <2>6 DEF e
<1>6. CASE ~(c.try < Len(Candidates))
  <2>1. e = [d EXCEPT !.try = 1, !.stage = OnError(c.stage)]
    BY <1>6 DEF NextAttempt
  <2> HIDE DEF d, e
  <2>2. /\ e \in Call /\ ~e.open /\ e.try = 1 /\ e.stage = OnError(c.stage)
        /\ e.requests = d.requests
    BY <1>2, <1>3, <1>4, <2>1 DEF Call
  <2>3. d.try <= 2 /\ d.requests <= 8 /\ d.try \in Nat
    BY <1>2, <1>3 DEF Counted, Call
  <2>4. e.stage \in DOMAIN Before => e.requests <= Before[e.stage] + e.try - 1 + 0
    <3>1. SUFFICES ASSUME e.stage \in DOMAIN Before
                   PROVE  e.requests <= Before[e.stage] + 1 - 1 + 0
      BY <2>2
    <3>2. Before[e.stage] \in 0..6 /\ d.requests \in Nat
      BY <1>3, <3>1, BeforeIsNumber DEF Call
    <3>3. Before[c.stage] + 2 <= Before[e.stage]
      BY <1>4, <2>2, <3>1
    <3>4. QED
      BY <1>3, <2>2, <2>3, <3>2, <3>3, SMTT(20)
  <2>5. Counted(e, FALSE, protocols) /\ ~e.open
    BY <1>4, <2>2, <2>3, <2>4 DEF Counted
  <2>6. QED
    BY <1>1, <2>5 DEF e
<1>7. QED
  BY <1>5, <1>6

\* A text leads to a value, to the next prompt or to the end.
LEMMA AnswerCounted ==
  ASSUME NEW c, NEW written \in Written, NEW protocols \in 1..2, Counted(c, TRUE, protocols),
         c.stage \in DOMAIN Before
  PROVE  Counted(Answered(c, written), FALSE, 1) /\ ~Answered(c, written).open
<1> DEFINE d == Closed(c)
           stage == IF written.form = "garbage" THEN OnGarbage(c.stage) ELSE "value"
<1>1. /\ Counted(d, TRUE, protocols) /\ ~d.open
      /\ d.stage = c.stage /\ d.try = c.try
  BY ClosedCounted
<1>2. /\ stage \in Stages \ {"idle", "stream"}
      /\ stage \in DOMAIN Before => Before[c.stage] + 2 <= Before[stage]
  BY DEF OnGarbage, Before, Stages
<1>3. d.requests <= Before[c.stage] + 2 /\ Before[c.stage] \in Nat
  BY <1>1 DEF Counted, Before, Call
<1>4. /\ c.spoken \in BOOLEAN /\ c.broken \in BOOLEAN
  BY DEF Counted, Call
<1>5. Answered(c, written) = [d EXCEPT !.try = 1, !.text = written, !.stage = stage,
                             !.streamed = c.spoken /\ written.form # "garbage",
                             !.broken = c.broken \/ (c.spoken /\ written.form = "garbage")]
  BY DEF Answered
<1> DEFINE e == Answered(c, written)
<1> HIDE DEF d, e, stage
<1>6. d \in Call
  BY <1>1 DEF Counted
<1>7. /\ e \in Call /\ ~e.open /\ e.try = 1 /\ e.stage = stage /\ e.requests = d.requests
  <2> DEFINE streamed == c.spoken /\ written.form # "garbage"
             broken == c.broken \/ (c.spoken /\ written.form = "garbage")
  <2>1. streamed \in BOOLEAN /\ broken \in BOOLEAN
    OBVIOUS
  <2>2. e = [d EXCEPT !.try = 1, !.text = written, !.stage = stage, !.streamed = streamed,
                      !.broken = broken]
    BY <1>5 DEF e
  <2> HIDE DEF streamed, broken
  <2>3. QED
    BY <1>1, <1>2, <1>6, <2>1, <2>2 DEF Call
<1>8. d.requests <= 8 /\ d.requests \in Nat
  BY <1>1, <1>6 DEF Counted, Call
<1>9. e.stage \in DOMAIN Before => e.requests <= Before[e.stage] + e.try - 1 + 0
  <2>1. SUFFICES ASSUME e.stage \in DOMAIN Before
                 PROVE  e.requests <= Before[e.stage] + 1 - 1 + 0
    BY <1>7
  <2>2. Before[e.stage] \in 0..6
    BY <2>1, BeforeIsNumber
  <2>3. QED
    BY <1>2, <1>3, <1>7, <1>8, <2>1, <2>2
<1>10. Counted(e, FALSE, 1) /\ ~e.open
  BY <1>2, <1>7, <1>8, <1>9 DEF Counted
<1>11. QED
  BY <1>10 DEF e

-----------------------------------------------------------------------------
(* The steps of a call                                                     *)

\* The text of a stream is one a model may write, or what was cut short of it.
LEMMA CutIsWritten ==
  ASSUME NEW written \in Written
  PROVE  [written EXCEPT !.form = "garbage"] \in Written
  BY DEF Written

LEMMA TextIsWritten == Text \subseteq Written
  BY ModelCallConstants DEF Written

\* Whatever takes the call from one prompt to the next leaves the counts in order.
LEMMA CallKeepsRequests == RequestInv /\ CallStep => RequestInv'
<1> SUFFICES ASSUME RequestInv, CallStep PROVE RequestInv'
  OBVIOUS
<1>1. PICK protocols \in 1..2 : protocols = Len(Candidates)
  BY CandidatesAreFew DEF RequestInv
<1>2. Counted(call, call.open, protocols) /\ call \in Call
  BY <1>1 DEF RequestInv, Counted
<1>3. preference' \in Preference
  BY DEF RequestInv, CallStep, StartCall, RequestFails, RequestAnswers, StreamOpens,
         StreamSummary, StreamDelta, StreamBreaks, StreamEnds, StreamCompletes
<1>4. ASSUME UNCHANGED <<preference, resolved>>, Counted(call', call.open', protocols)
      PROVE  RequestInv'
  <2>1. Len(Candidates)' = protocols
    BY <1>1, <1>4 DEF Candidates
  <2>2. QED
    BY <1>3, <1>4, <2>1 DEF RequestInv
<1>5. ASSUME NEW c, NEW written \in Written, Counted(c, TRUE, protocols), c.stage \in DOMAIN Before,
             resolved' = <<Protocol>>, call' = Answered(c, written)
      PROVE  RequestInv'
  <2>1. Counted(call', FALSE, 1) /\ ~call'.open
    BY <1>5, AnswerCounted
  <2>2. Len(resolved') = 1 /\ Len(Candidates)' = 1
    BY <1>5 DEF Candidates
  <2>3. call'.open = FALSE
    BY <2>1 DEF Counted, Call
  <2>4. QED
    BY <1>3, <2>1, <2>2, <2>3 DEF RequestInv
<1>6. ASSUME call.stage \in DOMAIN Before, ~call.open
      PROVE  Counted(Requests(call), TRUE, protocols) /\ Requests(call).stage \in DOMAIN Before
  <2>1. Counted(call, FALSE, protocols)
    BY <1>2, <1>6 DEF Counted
  <2>2. QED
    BY <1>2, <1>6, <2>1, RequestCounted DEF Requests, Call
<1>7. ASSUME call.open
      PROVE  Counted(call, TRUE, protocols) /\ call.stage \in DOMAIN Before
  BY <1>2, <1>7 DEF Counted, Before
<1>8. CASE StartCall
  <2>1. Counted(call', FALSE, protocols) /\ ~call'.open
    BY <1>1, <1>2, <1>8 DEF StartCall, Counted, Call, Before, Stages
  <2>2. QED
    BY <1>4, <1>8, <2>1 DEF StartCall, Counted, Call
<1>9. CASE RequestFails
  <2>1. call.stage \in DOMAIN Before /\ ~call.open /\ call' = NextAttempt(Requests(call))
    BY <1>9 DEF RequestFails, Before
  <2>2. Counted(call', FALSE, protocols) /\ ~call'.open
    BY <1>1, <1>6, <2>1, AttemptCounted
  <2>3. QED
    BY <1>4, <1>9, <2>2 DEF RequestFails, Counted, Call
<1>10. CASE \E written \in Text : RequestAnswers(written)
  <2>1. PICK written \in Text : RequestAnswers(written)
    BY <1>10
  <2>2. call.stage \in DOMAIN Before /\ ~call.open
    BY <2>1 DEF RequestAnswers, Before
  <2>3. QED
    BY <1>5, <1>6, <2>1, <2>2, TextIsWritten DEF RequestAnswers
<1>11. CASE \E written \in Text : StreamOpens(written)
  <2>1. PICK written \in Text : StreamOpens(written)
    BY <1>11
  <2>2. call.stage = "stream" /\ ~call.open /\ written \in Written
    BY <2>1, TextIsWritten DEF StreamOpens
  <2>3. Counted(Requests(call), TRUE, protocols) /\ Requests(call).stage = "stream"
    BY <1>2, <1>6, <2>2 DEF Before, Requests, Call
  <2>4. call' = [Requests(call) EXCEPT !.open = TRUE, !.text = written]
    BY <2>1 DEF StreamOpens
  <2>5. Counted(call', TRUE, protocols) /\ call'.open = TRUE
    <3> DEFINE c == Requests(call)
    <3> HIDE DEF c
    <3>1. call' = [c EXCEPT !.open = TRUE, !.text = written]
      BY <2>4 DEF c
    <3>2. Counted(c, TRUE, protocols) /\ c.stage = "stream"
      BY <2>3 DEF c
    <3>3. QED
      BY <2>2, <3>1, <3>2 DEF Counted, Call
  <2>6. QED
    BY <1>4, <2>1, <2>5 DEF StreamOpens
<1>12. CASE StreamSummary
  <2>1. Counted(call', call'.open, protocols)
    BY <1>2, <1>12 DEF StreamSummary, Counted, Call
  <2>2. QED
    BY <1>4, <1>12, <2>1 DEF StreamSummary
<1>13. CASE \E n \in Piece : StreamDelta(n)
  <2>1. PICK n \in Piece : StreamDelta(n)
    BY <1>13
  <2>2. n \in Nat /\ ReportEvery \in Nat
    BY ModelCallConstants
  <2>3. PICK report \in Nat : call' = [call EXCEPT !.pos = call.pos + n, !.spoken = TRUE,
                                                   !.report = report]
    <3>1. (IF Reports(n) THEN call.pos + n + ReportEvery ELSE call.report) \in Nat
      BY <1>2, <2>2 DEF Call
    <3>2. QED
      BY <2>1, <3>1 DEF StreamDelta
  <2>4. Counted(call', call'.open, protocols)
    <3>1. call.pos + n \in Nat
      BY <1>2, <2>2 DEF Call
    <3>2. /\ call' \in Call /\ call'.stage = call.stage /\ call'.try = call.try
          /\ call'.open = call.open /\ call'.requests = call.requests
      BY <1>2, <2>3, <3>1 DEF Call
    <3>3. QED
      BY <1>2, <3>2 DEF Counted
  <2>5. QED
    BY <1>4, <2>1, <2>4 DEF StreamDelta
<1>14. CASE StreamBreaks
  <2>1. Counted(call', FALSE, protocols) /\ ~call'.open
    BY <1>1, <1>7, <1>14, AttemptCounted DEF StreamBreaks
  <2>2. QED
    BY <1>4, <1>14, <2>1 DEF StreamBreaks, Counted, Call
<1>15. CASE StreamEnds
  <2>1. call.open /\ call.text \in Written
    BY <1>2, <1>15 DEF StreamEnds, Call
  <2>2. (IF call.pos = Len(call.text.chars) THEN call.text
         ELSE [call.text EXCEPT !.form = "garbage"]) \in Written
    BY <2>1, CutIsWritten
  <2>3. QED
    BY <1>5, <1>7, <1>15, <2>1, <2>2 DEF StreamEnds
<1>16. CASE StreamCompletes
  <2>1. call.open /\ call.text \in Written
    BY <1>2, <1>16 DEF StreamCompletes, Call
  <2>2. QED
    BY <1>5, <1>7, <1>16, <2>1 DEF StreamCompletes
<1>17. QED
  BY <1>8, <1>9, <1>10, <1>11, <1>12, <1>13, <1>14, <1>15, <1>16 DEF CallStep

LEMMA StepKeepsRequests == RequestInv /\ [Next]_vars => RequestInv'
<1> SUFFICES ASSUME RequestInv, [Next]_vars PROVE RequestInv'
  OBVIOUS
<1>1. ASSUME UNCHANGED callVars PROVE RequestInv'
  BY <1>1 DEF callVars, RequestInv, Candidates
<1>2. CASE Generator
  <2>1. UNCHANGED callVars
    BY <1>2 DEF Generator, AnswerSmallTalk, OpenSession, StartNavigation, SeeNavigation,
      EndSmallTalk, StartAnswer, PassItem, SeeAnswer, DrainItem, Drained, ReportFinding,
      Complete, ReportError, Raises, CloseSession, Unwind, CloseUnwound
  <2>2. QED
    BY <1>1, <2>1
<1>3. CASE TakeItem \/ WaitOn \/ NavigationTask \/ CancelTask \/ Disconnect \/ UNCHANGED vars
  <2>1. UNCHANGED callVars
    BY <1>3 DEF TakeItem, WaitOn, NavigationTask, Navigate, CancelTask, Disconnect, vars
  <2>2. QED
    BY <1>1, <2>1
<1>4. CASE AnswerTask
  <2>1. CallStep \/ UNCHANGED callVars
    BY <1>4 DEF AnswerTask, SpeakDelta, SpeakSummary, CallModel, FinishAnswer, AnswerFails, CallStep
  <2>2. QED
    BY <1>1, <2>1, CallKeepsRequests
<1>5. QED
  BY <1>2, <1>3, <1>4 DEF Next

\* However protocols fail and texts are no JSON, one structured call makes at most eight
\* requests: two streamed and two for each of the three plain prompts (clients.py:166-290).
THEOREM RequestsAreBoundedHolds == Spec => []RequestsAreBounded
<1>1. RequestInv => RequestsAreBounded
  BY DEF RequestInv, Counted, RequestsAreBounded
<1>2. QED
  BY <1>1, RequestInit, StepKeepsRequests, PTL DEF Spec

-----------------------------------------------------------------------------
(* The decoder and the publisher                                           *)

\* The characters of a text, and those an escape decodes to.
Character == STRING \union {"newline", "q", "b", "pair", "bmp"}
Characters == Seq(Character)

\* The decoder once it has found the key, and at any time.
Entered == [state: {"colon", "value", "string", "done"}, tail: Characters,
            escape: {"none", "char", "unit"}, high: BOOLEAN, failed: BOOLEAN, out: Characters]
Field == [state: {"key", "colon", "value", "string", "done"}, tail: Characters,
          escape: {"none", "char", "unit"}, high: BOOLEAN, failed: BOOLEAN, out: Characters]
Publisher == [field: Field, pending: Characters, published: BOOLEAN]

LEMMA EmitTyped ==
  ASSUME NEW f \in Entered
  PROVE  Fails(f) \in Entered /\ \A c \in Character : Emits(f, c) \in Entered
<1>1. ASSUME NEW c \in Character PROVE Append(f.out, c) \in Characters
  BY DEF Entered, Characters
<1>2. ASSUME NEW c \in Character PROVE Emits(f, c) \in Entered
  <2>1. Append(f.out, c) \in Characters
    BY <1>1
  <2> HIDE DEF Characters
  <2>2. QED
    BY <2>1 DEF Emits, Entered
<1>3. Fails(f) \in Entered
  BY DEF Fails, Entered
<1>4. QED
  BY <1>2, <1>3

LEMMA EscapeTyped ==
  ASSUME NEW f \in Entered, NEW c
  PROVE  CodeUnit(f, c) \in Entered /\ EscapeLetter(f, c) \in Entered
<1>1. /\ [f EXCEPT !.escape = "none"] \in Entered /\ [f EXCEPT !.escape = "unit"] \in Entered
      /\ [f EXCEPT !.high = TRUE] \in Entered /\ [f EXCEPT !.high = FALSE] \in Entered
  BY DEF Entered
<1>2. "pair" \in Character /\ "bmp" \in Character
      /\ \A d \in DOMAIN SimpleEscape : SimpleEscape[d] \in Character
  BY DEF Character, SimpleEscape
<1>3. CodeUnit(f, c) \in Entered
  BY <1>1, <1>2, EmitTyped DEF CodeUnit
<1>4. EscapeLetter(f, c) \in Entered
  BY <1>1, <1>2, EmitTyped DEF EscapeLetter
<1>5. QED
  BY <1>3, <1>4

LEMMA ReadCharTyped ==
  ASSUME NEW f \in Entered, NEW c \in Character
  PROVE  ReadChar(f, c) \in Entered
<1>1. /\ [f EXCEPT !.escape = "none"] \in Entered /\ [f EXCEPT !.escape = "char"] \in Entered
      /\ \A state \in {"value", "string", "done"} : [f EXCEPT !.state = state] \in Entered
  BY DEF Entered
<1>2. Fails(f) \in Entered /\ Emits(f, c) \in Entered
  BY EmitTyped
<1>3. Expects(f, c, ":", "value") \in Entered /\ Expects(f, c, "q", "string") \in Entered
  BY <1>1, <1>2 DEF Expects
<1>4. CodeUnit([f EXCEPT !.escape = "none"], c) \in Entered /\ EscapeLetter(f, c) \in Entered
  BY <1>1, EscapeTyped
<1>5. InString(f, c) \in Entered
  BY <1>1, <1>2, <1>4 DEF InString
<1>6. QED
  BY <1>3, <1>5 DEF ReadChar

ReadStep == [p \in Entered \X Character |-> ReadChar(p[1], p[2])]

\* The characters are read one after the other.
LEMMA ReadCharsTrail ==
  ASSUME NEW f \in Entered, NEW s \in Seq(Character)
  PROVE  \E r \in [0..Len(s) -> Entered] :
           r[Len(s)] = ReadChars(f, s) /\ Trail(r, ReadStep, f, s)
<1> DEFINE V == Entered
           D == Character
           F == ReadStep
           Step(g) == [t \in SUBSET DOMAIN s |->
                         IF t = {} THEN f
                         ELSE ReadChar(g[t \ {Max(t)}], s[Max(t)])]
           h == CHOOSE g : g = Step(g)
<1>1. ReadChars(f, s) = h[DOMAIN s]
  BY DEF ReadChars, FoldLeft, MapThenFoldSet
<1>2. \A x \in V, y \in D : ReadChar(x, y) \in V /\ F[<<x, y>>] = ReadChar(x, y)
  BY ReadCharTyped DEF ReadStep
<1>3. Foldable(F, V, D, f, s)
  <2>1. F \in [V \X D -> V]
    BY <1>2 DEF ReadStep
  <2>2. f \in V
    BY ReadCharTyped DEF V
  <2>3. QED
    BY <2>1, <2>2 DEF Foldable
<1> HIDE DEF F, V, D
<1>4. PICK g : Iterated(g, F, V, D, f, s)
  BY <1>3, IterSteps
<1>5. h = Step(h)
  <2>1. g = Step(g)
    BY <1>2, <1>4 DEF Iterated
  <2>2. QED
    BY <2>1
<1>6. \A t \in SUBSET DOMAIN s :
        h[t] = IF t = {} THEN f
               ELSE ReadChar(h[t \ {Max(t)}], s[Max(t)])
  BY <1>5
<1> HIDE DEF h
<1>7. Chained(h, F, V, f, s)
  <2>1. ASSUME NEW t \in SUBSET DOMAIN s, t # {}, h[t \ {Max(t)}] \in V
        PROVE  h[t] = F[<<h[t \ {Max(t)}], s[Max(t)]>>]
    <3>1. s[Max(t)] \in D
      BY <1>3, <2>1, Subsets DEF Foldable
    <3>2. QED
      BY <1>2, <1>6, <2>1, <3>1
  <2>2. QED
    BY <1>6, <2>1 DEF Chained
<1>8. QED
  BY <1>1, <1>3, <1>7, FoldTrail DEF F, V

LEMMA ReadCharsTyped ==
  ASSUME NEW f \in Entered, NEW chars \in Characters
  PROVE  ReadChars(f, chars) \in Entered
<1>1. PICK r \in [0..Len(chars) -> Entered] : r[Len(chars)] = ReadChars(f, chars)
  BY ReadCharsTrail DEF Characters
<1>2. Len(chars) \in 0..Len(chars)
  BY DEF Characters
<1>3. QED
  BY <1>1, <1>2

LEMMA SubSeqTyped ==
  ASSUME NEW S, NEW s \in Seq(S), NEW m \in Nat \ {0}, NEW n \in Nat, n <= Len(s)
  PROVE  SubSeq(s, m, n) \in Seq(S)
<1>1. \A i \in m..n : s[i] \in S
  OBVIOUS
<1>2. QED
  BY <1>1, SubSeqProperties

\* A piece is searched for the key together with what the pieces before ended with.
LEMMA FeedTyped ==
  ASSUME NEW f \in Field, NEW chunk \in Characters
  PROVE  Feed(f, chunk) \in Field
<1>1. Entered \subseteq Field
  BY DEF Entered, Field
<1>2. << >> \in Characters
  BY DEF Characters
<1> DEFINE s == f.tail \o chunk
<1>3. s \in Characters
  BY DEF Field, Characters
<1> HIDE DEF s
<1>4. CASE f.state # "key"
  <2>1. [f EXCEPT !.out = << >>] \in Entered
    BY <1>2, <1>4 DEF Field, Entered
  <2>2. QED
    BY <1>1, <1>4, <2>1, ReadCharsTyped DEF Feed
<1>5. CASE f.state = "key" /\ KeyEnds(s) = {}
  <2>1. KeyTail(s) \in Characters
    <3>1. Len(Needle) = 3 /\ Len(s) \in Nat
      BY <1>3 DEF Needle, Characters
    <3>2. Len(s) >= 3 => SubSeq(s, Len(s) - 3 + 2, Len(s)) \in Characters
      BY <1>3, <3>1, SubSeqTyped DEF Characters
    <3>3. QED
      BY <1>3, <3>1, <3>2 DEF KeyTail
  <2>2. [f EXCEPT !.tail = KeyTail(s), !.out = << >>] \in Field
    BY <1>2, <2>1 DEF Field
  <2>3. QED
    BY <1>5, <2>2 DEF Feed, s
<1>6. CASE f.state = "key" /\ KeyEnds(s) # {}
  <2> DEFINE rest == SubSeq(s, First(KeyEnds(s)) + 1, Len(s))
  <2>1. rest \in Characters
    <3>1. KeyEnds(s) \in SUBSET Nat /\ Len(s) \in Nat
      BY <1>3 DEF KeyEnds, Characters
    <3>2. First(KeyEnds(s)) \in Nat
      BY <1>6, <3>1, LeastOf DEF First
    <3>3. QED
      BY <1>3, <3>1, <3>2, SubSeqTyped DEF Characters
  <2>2. [f EXCEPT !.state = "colon", !.tail = << >>, !.out = << >>] \in Entered
    BY <1>2 DEF Field, Entered
  <2>3. Feed(f, chunk) = ReadChars([f EXCEPT !.state = "colon", !.tail = << >>, !.out = << >>], rest)
    BY <1>6 DEF Feed, s
  <2> HIDE DEF rest
  <2>4. QED
    BY <1>1, <2>1, <2>2, <2>3, ReadCharsTyped
<1>7. QED
  BY <1>4, <1>5, <1>6

\* What is handed on is text, and so is what is kept.
LEMMA FeedPublisherTyped ==
  ASSUME NEW p \in Publisher, NEW chunk \in Characters, NEW size
  PROVE  /\ FeedPublisher(p, chunk, size).publisher \in Publisher
         /\ FeedPublisher(p, chunk, size).text \in Characters
<1> DEFINE f == Feed(p.field, chunk)
           q == [p EXCEPT !.field = [f EXCEPT !.out = << >>], !.pending = @ \o f.out]
<1>1. f \in Field /\ << >> \in Characters
  BY FeedTyped DEF Publisher, Characters
<1>2. p.pending \o f.out \in Characters
  BY <1>1 DEF Publisher, Field, Characters
<1>3. FeedPublisher(p, chunk, size) =
        IF Flushes(p, f.out, size) THEN [publisher |-> Published(q), text |-> q.pending]
                                   ELSE [publisher |-> q, text |-> << >>]
  BY DEF FeedPublisher
<1>4. q \in Publisher
  <2> HIDE DEF f
  <2>1. [f EXCEPT !.out = << >>] \in Field
    BY <1>1 DEF Field
  <2>2. QED
    BY <1>2, <2>1 DEF Publisher
<1> HIDE DEF f, q
<1>5. q.pending \in Characters /\ Published(q) \in Publisher
  BY <1>1, <1>4 DEF Publisher, Published
<1>6. QED
  BY <1>1, <1>3, <1>4, <1>5

-----------------------------------------------------------------------------
(* The stream of one turn                                                  *)

Event == {"intent_detected", "navigation_started", "navigation_done", "answer_generating",
          "conflict_detected", "download_ready", "completed", "error"}
Item == [type: {"delta", "report"}, text: Characters]

\* What waits to be streamed, and what has been, is text.
StreamInv ==
  /\ publisher \in Publisher
  /\ queue \in Seq(Item) /\ held \in Seq(Item)
  /\ text \in Characters

\* Where the generator stands tells what it announced last.
StageInv ==
  /\ said \in Seq(Event)
  /\ server \in {"idle", "opened"} => said = << >>
  /\ server = "locating" => Said("navigation_started")
  /\ server = "located" => Said("intent_detected") \/ Said("navigation_done")
  /\ server \in {"answering", "draining"} => Said("answer_generating")
  /\ server = "reporting" =>
       Said("answer_generating") \/ Said("conflict_detected") \/ Said("download_ready")

LEMMA StreamInit == Init => StreamInv /\ StageInv
<1> SUFFICES ASSUME Init PROVE StreamInv /\ StageInv
  OBVIOUS
<1>1. NewPublisher \in Publisher
  BY DEF NewPublisher, NewField, Publisher, Field, Characters
<1>2. QED
  BY <1>1 DEF Init, StreamInv, StageInv, Characters

LEMMA DeltaTyped ==
  ASSUME NEW t \in Characters
  PROVE  Delta(t) \in Seq(Item) /\ Report \in Seq(Item)
<1>1. [type |-> "delta", text |-> t] \in Item /\ [type |-> "report", text |-> << >>] \in Item
  BY DEF Item, Characters
<1>2. QED
  BY <1>1 DEF Delta, Report

\* A piece of what the model streams is text.
LEMMA ChunkTyped ==
  ASSUME RequestInv, NEW n \in Piece, StreamDelta(n)
  PROVE  Chunk(n) \in Characters
<1>1. call.text.chars \in Seq(STRING) /\ call.pos \in Nat /\ n \in Nat
  BY ModelCallConstants DEF RequestInv, Counted, Call, Written
<1>2. \A w \in Seq(STRING) : w \in Characters
  BY DEF Characters, Character
<1>3. call.pos + n <= Len(call.text.chars)
  BY DEF StreamDelta
<1>4. QED
  BY <1>1, <1>2, <1>3, SubSeqTyped DEF Chunk, Characters

LEMMA AnswerKeepsStream == RequestInv /\ StreamInv /\ AnswerTask => StreamInv'
<1> SUFFICES ASSUME RequestInv, StreamInv, AnswerTask PROVE StreamInv'
  OBVIOUS
<1>1. held' = held /\ text' = text
  BY DEF AnswerTask, SpeakDelta, SpeakSummary, CallModel, FinishAnswer, AnswerFails, AnswerEffects
<1>2. publisher' \in Publisher /\ queue' \in Seq(Item)
  <2>1. CASE \E n \in Piece: SpeakDelta(n)
    <3>1. PICK n \in Piece : SpeakDelta(n)
      BY <2>1
    <3>2. Chunk(n) \in Characters
      BY <3>1, ChunkTyped DEF SpeakDelta
    <3> DEFINE fed == FeedPublisher(publisher, Chunk(n), FlushAt)
    <3>3. fed.publisher \in Publisher /\ fed.text \in Characters
      BY <3>2, FeedPublisherTyped DEF StreamInv
    <3>4. /\ publisher' = fed.publisher
          /\ queue' = queue \o (Delta(fed.text) \o IF Reports(n) THEN Report ELSE << >>)
      BY <3>1 DEF SpeakDelta, Put
    <3> HIDE DEF fed
    <3>5. Delta(fed.text) \in Seq(Item) /\ Report \in Seq(Item)
      BY <3>3, DeltaTyped
    <3>6. QED
      BY <3>3, <3>4, <3>5 DEF StreamInv
  <2>2. CASE SpeakSummary
    <3>1. Report \in Seq(Item)
      BY DeltaTyped DEF StreamInv
    <3>2. QED
      BY <2>2, <3>1 DEF SpeakSummary, Put, StreamInv
  <2>3. CASE CallModel \/ AnswerFails
    BY <2>3 DEF CallModel, AnswerFails, StreamInv
  <2>4. CASE FinishAnswer
    <3>1. publisher.pending \in Characters
      BY DEF StreamInv, Publisher
    <3>2. Delta(publisher.pending) \in Seq(Item)
      BY <3>1, DeltaTyped
    <3>3. Published(publisher) \in Publisher
      <4>1. << >> \in Characters /\ publisher \in Publisher
        BY DEF Characters, StreamInv
      <4>2. QED
        BY <4>1 DEF Published, Publisher
    <3>4. QED
      BY <2>4, <3>2, <3>3 DEF FinishAnswer, Put, StreamInv
  <2>5. QED
    BY <2>1, <2>2, <2>3, <2>4 DEF AnswerTask
<1>3. QED
  BY <1>1, <1>2 DEF StreamInv

LEMMA SayTyped ==
  ASSUME said \in Seq(Event), NEW e \in Event, Says(e)
  PROVE  said' \in Seq(Event) /\ Said(e)'
  BY DEF Says, Said, Last

LEMMA GeneratorKeepsStages == StageInv /\ Generator => StageInv'
<1> SUFFICES ASSUME StageInv, Generator PROVE StageInv'
  OBVIOUS
<1> USE DEF StageInv, Goes
<1>1. ASSUME UNCHANGED said PROVE \A e : Said(e)' = Said(e)
  BY <1>1 DEF Said
<1>2. ASSUME NEW e \in Event, Says(e) PROVE said' \in Seq(Event) /\ Said(e)'
  BY <1>2, SayTyped
<1>3. CASE AnswerSmallTalk
  BY <1>2, <1>3 DEF AnswerSmallTalk, Event
<1>4. CASE OpenSession
  BY <1>4 DEF OpenSession
<1>5. CASE StartNavigation
  BY <1>2, <1>5 DEF StartNavigation, Event
<1>6. CASE SeeNavigation
  BY <1>2, <1>6 DEF SeeNavigation, Event
<1>7. CASE EndSmallTalk
  BY <1>2, <1>7 DEF EndSmallTalk, Event
<1>8. CASE StartAnswer
  BY <1>2, <1>8 DEF StartAnswer, Event
<1>9. CASE PassItem
  BY <1>1, <1>9 DEF PassItem
<1>10. CASE SeeAnswer
  BY <1>1, <1>10 DEF SeeAnswer
<1>11. CASE DrainItem
  BY <1>1, <1>11 DEF DrainItem
<1>12. CASE Drained
  BY <1>1, <1>12 DEF Drained
<1>13. CASE \E e \in {"conflict_detected", "download_ready"}: ReportFinding(e)
  BY <1>2, <1>13 DEF ReportFinding, Event
<1>14. CASE Complete
  BY <1>2, <1>14 DEF Complete, Event
<1>15. CASE ReportError
  BY <1>2, <1>15 DEF ReportError, Raises, Event
<1>16. CASE CloseSession
  BY <1>16 DEF CloseSession
<1>17. CASE Unwind
  BY <1>17 DEF Unwind
<1>18. CASE CloseUnwound
  BY <1>18 DEF CloseUnwound
<1>19. QED
  BY <1>3, <1>4, <1>5, <1>6, <1>7, <1>8, <1>9, <1>10, <1>11, <1>12, <1>13, <1>14, <1>15, <1>16,
     <1>17, <1>18 DEF Generator

LEMMA GeneratorKeepsStream == StreamInv /\ Generator => StreamInv'
<1> SUFFICES ASSUME StreamInv, Generator PROVE StreamInv'
  OBVIOUS
<1>1. CASE PassItem
  <2>1. held[1] \in Item
    BY <1>1 DEF PassItem, StreamInv
  <2>2. held[1].text \in Characters
    BY <2>1 DEF Item
  <2>3. text \o held[1].text \in Characters
    BY <2>2 DEF Characters, StreamInv
  <2>4. QED
    BY <1>1, <2>3 DEF PassItem, StreamInv
<1>2. CASE DrainItem
  <2>1. Head(queue) \in Item /\ Tail(queue) \in Seq(Item)
    BY <1>2, HeadTailProperties DEF DrainItem, StreamInv
  <2>2. Head(queue).text \in Characters
    BY <2>1 DEF Item
  <2>3. text \o Head(queue).text \in Characters
    BY <2>2 DEF Characters, StreamInv
  <2>4. QED
    BY <1>2, <2>1, <2>3 DEF DrainItem, StreamInv
<1>3. CASE ~(PassItem \/ DrainItem)
  <2>1. UNCHANGED <<publisher, queue, held, text>>
    BY <1>3 DEF Generator, AnswerSmallTalk, OpenSession, StartNavigation, SeeNavigation,
      EndSmallTalk, StartAnswer, SeeAnswer, Drained, ReportFinding, Complete, ReportError, Raises,
      CloseSession, Unwind, CloseUnwound
  <2>2. QED
    BY <2>1 DEF StreamInv
<1>4. QED
  BY <1>1, <1>2, <1>3

LEMMA StepKeepsStages ==
  RequestInv /\ StreamInv /\ StageInv /\ [Next]_vars => StreamInv' /\ StageInv'
<1> SUFFICES ASSUME RequestInv, StreamInv, StageInv, [Next]_vars PROVE StreamInv' /\ StageInv'
  OBVIOUS
<1>1. ASSUME UNCHANGED <<server, said>> PROVE StageInv'
  BY <1>1 DEF StageInv, Said
<1>2. CASE Generator
  BY <1>2, GeneratorKeepsStream, GeneratorKeepsStages
<1>3. CASE AnswerTask
  <2>1. UNCHANGED <<server, said>>
    BY <1>3 DEF AnswerTask, SpeakDelta, SpeakSummary, CallModel, FinishAnswer, AnswerFails,
      AnswerEffects
  <2>2. QED
    BY <1>1, <1>3, <2>1, AnswerKeepsStream
<1>4. CASE TakeItem
  <2>1. Head(queue) \in Item /\ Tail(queue) \in Seq(Item)
    BY <1>4, HeadTailProperties DEF TakeItem, StreamInv
  <2>2. QED
    BY <1>1, <1>4, <2>1 DEF TakeItem, StreamInv
<1>5. CASE WaitOn \/ NavigationTask \/ CancelTask \/ Disconnect \/ UNCHANGED vars
  <2>1. UNCHANGED <<server, said, publisher, queue, held, text>>
    BY <1>5 DEF WaitOn, NavigationTask, Navigate, CancelTask, Disconnect, vars, chatVars
  <2>2. QED
    BY <1>1, <2>1 DEF StreamInv
<1>6. QED
  BY <1>2, <1>3, <1>4, <1>5 DEF Next

\* The stages that may have been announced last when e is.
Earlier(e) ==
  CASE e = "navigation_done" -> {"navigation_started"}
    [] e = "answer_generating" -> {"intent_detected", "navigation_done"}
    [] e = "conflict_detected" -> {"answer_generating"}
    [] e = "download_ready" -> {"answer_generating", "conflict_detected"}
    [] e = "completed" -> {"intent_detected", "navigation_done", "answer_generating",
                           "conflict_detected", "download_ready"}
    [] OTHER -> {}

LEMMA Ranks == \A i \in 1..7 : Turn!Rank(Turn!Order[i]) = i
<1>1. \A i, j \in 1..7 : Turn!Order[i] = Turn!Order[j] => i = j
  BY DEF Turn!Order
<1>2. Len(Turn!Order) = 7
  BY DEF Turn!Order
<1>3. QED
  BY <1>1, <1>2 DEF Turn!Rank

LEMMA EarlierRanksLower ==
  ASSUME NEW e \in Event \ {"error"}, NEW d \in Earlier(e)
  PROVE  Turn!Rank(d) < Turn!Rank(e) /\ d \notin {"completed", "error"}
<1>1. /\ Turn!Rank("intent_detected") = 1 /\ Turn!Rank("navigation_started") = 2
      /\ Turn!Rank("navigation_done") = 3 /\ Turn!Rank("answer_generating") = 4
      /\ Turn!Rank("conflict_detected") = 5 /\ Turn!Rank("download_ready") = 6
      /\ Turn!Rank("completed") = 7
  <2>1. /\ Turn!Order[1] = "intent_detected" /\ Turn!Order[2] = "navigation_started"
        /\ Turn!Order[3] = "navigation_done" /\ Turn!Order[4] = "answer_generating"
        /\ Turn!Order[5] = "conflict_detected" /\ Turn!Order[6] = "download_ready"
        /\ Turn!Order[7] = "completed"
    BY DEF Turn!Order
  <2>2. /\ Turn!Rank(Turn!Order[1]) = 1 /\ Turn!Rank(Turn!Order[2]) = 2
        /\ Turn!Rank(Turn!Order[3]) = 3 /\ Turn!Rank(Turn!Order[4]) = 4
        /\ Turn!Rank(Turn!Order[5]) = 5 /\ Turn!Rank(Turn!Order[6]) = 6
        /\ Turn!Rank(Turn!Order[7]) = 7
    BY Ranks
  <2>3. QED
    BY <2>1, <2>2
<1>2. QED
  BY <1>1 DEF Earlier, Event

\* A stage announced behind an earlier one, or as the first, is a step of the turn.
LEMMA SayAnnounces ==
  ASSUME NEW e \in Event \ {"error"}, said = << >> \/ \E d \in Earlier(e) : Said(d),
         Says(e), server # "closed", server' # "closed", text' = text
  PROVE  Turn!Next
<1>1. Turn!Announce(e)
  <2>1. said # << >> => Last(said) \in Earlier(e)
    BY DEF Said
  <2>2. ~Turn!Terminated
    BY <2>1, EarlierRanksLower DEF Turn!Terminated, Turn!Last, Last
  <2>3. said # << >> => Turn!Rank(Last(said)) < Turn!Rank(e)
    BY <2>1, EarlierRanksLower
  <2>4. QED
    BY <2>2, <2>3 DEF Turn!Announce, Says, Turn!Last, Last
<1>2. \E i \in 1..Len(Turn!Order) : Turn!Order[i] = e
  BY DEF Turn!Order, Event
<1>3. QED
  BY <1>1, <1>2 DEF Turn!Next

\* Text that is added makes the text longer, or leaves it as it is.
LEMMA TextGrows ==
  ASSUME NEW old \in Characters, NEW new \in Characters
  PROVE  old \o new = old \/ Turn!IsStrictPrefix(old, old \o new)
<1>1. CASE new = << >>
  BY <1>1 DEF Characters
<1>2. CASE new # << >>
  <2>1. /\ Len(old \o new) = Len(old) + Len(new) /\ Len(new) > 0 /\ Len(old) \in Nat
        /\ \A i \in 1..Len(old) : (old \o new)[i] = old[i]
    BY <1>2 DEF Characters
  <2>2. SubSeq(old, 1, Len(old)) = SubSeq(old \o new, 1, Len(old))
    BY <2>1
  <2>3. old # old \o new
    BY <2>1
  <2>4. QED
    BY <2>1, <2>2, <2>3 DEF Turn!IsStrictPrefix, Turn!IsPrefix
<1>3. QED
  BY <1>1, <1>2

LEMMA SpeakSpeaks ==
  ASSUME StreamInv, Said("answer_generating"), NEW new \in Characters, text' = text \o new,
         said' = said, server # "closed", server' # "closed"
  PROVE  Turn!Next \/ UNCHANGED <<said, text, server = "closed">>
<1>1. CASE text' = text
  BY <1>1
<1>2. CASE text' # text
  <2>1. Turn!IsStrictPrefix(text, text')
    BY <1>2, TextGrows DEF StreamInv
  <2>2. Turn!Speak
    BY <2>1 DEF Turn!Speak, Said, Turn!Last, Last
  <2>3. QED
    BY <2>2 DEF Turn!Next
<1>3. QED
  BY <1>1, <1>2

LEMMA GeneratorImplementsTurn ==
  StreamInv /\ StageInv /\ Generator => Turn!Next \/ UNCHANGED <<said, text, server = "closed">>
<1> SUFFICES ASSUME StreamInv, StageInv, Generator
             PROVE  Turn!Next \/ UNCHANGED <<said, text, server = "closed">>
  OBVIOUS
<1>1. \A e : e \in Event \ {"error"} => \A d \in Earlier(e) :
        Said(d) /\ Says(e) /\ server # "closed" /\ server' # "closed" /\ text' = text => Turn!Next
  BY SayAnnounces
<1>2. CASE AnswerSmallTalk
  BY <1>2, SayAnnounces DEF AnswerSmallTalk, StageInv, Goes, Event
<1>3. CASE OpenSession \/ SeeAnswer \/ Drained \/ Unwind
  BY <1>3 DEF OpenSession, SeeAnswer, Drained, Unwind, Goes
<1>4. CASE StartNavigation
  BY <1>4, SayAnnounces DEF StartNavigation, StageInv, Goes, Event
<1>5. CASE SeeNavigation
  BY <1>1, <1>5 DEF SeeNavigation, StageInv, Goes, Event, Earlier
<1>6. CASE EndSmallTalk
  BY <1>1, <1>6 DEF EndSmallTalk, StageInv, Goes, Event, Earlier
<1>7. CASE StartAnswer
  BY <1>1, <1>7 DEF StartAnswer, StageInv, Goes, Event, Earlier
<1>8. CASE PassItem
  <2>1. held[1] \in Item
    BY <1>8 DEF PassItem, StreamInv
  <2>2. held[1].text \in Characters
    BY <2>1 DEF Item
  <2>3. text' = text \o held[1].text /\ said' = said /\ server # "closed" /\ server' # "closed"
    BY <1>8 DEF PassItem
  <2>4. Said("answer_generating")
    BY <1>8 DEF PassItem, StageInv
  <2>5. QED
    BY <2>2, <2>3, <2>4, SpeakSpeaks
<1>9. CASE DrainItem
  <2>1. Head(queue) \in Item
    BY <1>9, HeadTailProperties DEF DrainItem, StreamInv
  <2>2. Head(queue).text \in Characters
    BY <2>1 DEF Item
  <2>3. text' = text \o Head(queue).text /\ said' = said /\ server # "closed" /\ server' # "closed"
    BY <1>9 DEF DrainItem
  <2>4. Said("answer_generating")
    BY <1>9 DEF DrainItem, StageInv
  <2>5. QED
    BY <2>2, <2>3, <2>4, SpeakSpeaks
<1>10. CASE \E e \in {"conflict_detected", "download_ready"}: ReportFinding(e)
  <2>1. PICK e \in {"conflict_detected", "download_ready"}: ReportFinding(e)
    BY <1>10
  <2>2. Last(said) \in Earlier(e) /\ said # << >>
    BY <2>1 DEF ReportFinding, Earlier, StageInv, Said
  <2>3. QED
    BY <1>1, <2>1, <2>2 DEF ReportFinding, Event, Said
<1>11. CASE Complete
  BY <1>1, <1>11 DEF Complete, StageInv, Goes, Event, Earlier
<1>12. CASE ReportError
  <2>1. ~Turn!Terminated
    BY <1>12 DEF ReportError, Raises, StageInv, Said, Turn!Terminated, Turn!Last, Last
  <2>2. Turn!Fail
    BY <1>12, <2>1 DEF ReportError, Raises, Says, Turn!Fail
  <2>3. QED
    BY <2>2 DEF Turn!Next
<1>13. CASE CloseSession \/ CloseUnwound
  BY <1>13 DEF CloseSession, CloseUnwound, Goes, Turn!HangUp, Turn!Next
<1>14. QED
  BY <1>2, <1>3, <1>4, <1>5, <1>6, <1>7, <1>8, <1>9, <1>10, <1>11, <1>12, <1>13 DEF Generator

LEMMA StepImplementsTurn ==
  StreamInv /\ StageInv /\ [Next]_vars => [Turn!Next]_(Turn!turn)
<1> SUFFICES ASSUME StreamInv, StageInv, [Next]_vars
             PROVE  Turn!Next \/ UNCHANGED <<said, text, server = "closed">>
  BY DEF Turn!turn
<1>1. CASE Generator
  BY <1>1, GeneratorImplementsTurn
<1>2. CASE AnswerTask
  BY <1>2 DEF AnswerTask, SpeakDelta, SpeakSummary, CallModel, FinishAnswer, AnswerFails,
    AnswerEffects
<1>3. CASE TakeItem \/ WaitOn \/ NavigationTask \/ CancelTask \/ Disconnect \/ UNCHANGED vars
  BY <1>3 DEF TakeItem, WaitOn, NavigationTask, Navigate, CancelTask, Disconnect, vars, chatVars
<1>4. QED
  BY <1>1, <1>2, <1>3 DEF Next

\* The generator, its two tasks, the progress queue and a browser that may leave anywhere
\* implement the stream of one turn: stages in order and at most once, text only while the
\* answer is generated, one terminal event and nothing behind it (chat.py:150-392).
THEOREM ImplementsTurnHolds == Spec => ImplementsTurn
<1>1. Init => Turn!Init
  BY DEF Init, Turn!Init
<1>2. Init => RequestInv /\ StreamInv /\ StageInv
  BY RequestInit, StreamInit
<1>3. RequestInv /\ StreamInv /\ StageInv /\ [Next]_vars
        => RequestInv' /\ StreamInv' /\ StageInv'
  BY StepKeepsRequests, StepKeepsStages
<1>4. QED
  BY <1>1, <1>2, <1>3, StepImplementsTurn, PTL DEF Spec, ImplementsTurn, Turn!Spec

-----------------------------------------------------------------------------
(* Reading a text in pieces                                                *)

\* What a text decodes to when it is read at once, and a decoder that has handed that on.
Whole(chars) == Feed(NewField, chars)
Reset(f) == [f EXCEPT !.out = << >>]
Ahead(o, f) == [f EXCEPT !.out = o \o f.out]

\* Reading on where the reading of a first part ended is reading both.
LEMMA ReadOn ==
  ASSUME NEW f \in Entered, NEW a \in Characters, NEW b \in Characters
  PROVE  ReadChars(f, a \o b) = ReadChars(ReadChars(f, a), b)
<1>1. PICK m \in Nat, n \in Nat : m = Len(a) /\ n = Len(b)
  BY DEF Characters
<1>2. a \o b \in Characters /\ Len(a \o b) = m + n
  BY <1>1 DEF Characters
<1>3. PICK r \in [0..(m + n) -> Entered] :
        r[m + n] = ReadChars(f, a \o b) /\ Trail(r, ReadStep, f, a \o b)
  BY <1>2, ReadCharsTrail DEF Characters
<1>4. PICK q \in [0..m -> Entered] : q[m] = ReadChars(f, a) /\ Trail(q, ReadStep, f, a)
  BY <1>1, ReadCharsTrail DEF Characters
<1>5. q[m] \in Entered
  BY <1>4
<1>6. PICK p \in [0..n -> Entered] : p[n] = ReadChars(q[m], b) /\ Trail(p, ReadStep, q[m], b)
  BY <1>1, <1>5, ReadCharsTrail DEF Characters
<1>7. \A i \in 1..m : (a \o b)[i] = a[i]
  BY <1>1 DEF Characters
<1>8. \A i \in 1..n : (a \o b)[m + i] = b[i]
  BY <1>1 DEF Characters
<1>9. r[m] = q[m]
  <2>1. \A k \in 0..m : r[k] = q[k]
    <3>1. r[0] = q[0]
      BY <1>3, <1>4 DEF Trail
    <3>2. \A k \in 1..m : k \in 1..Len(a \o b) /\ k \in 1..Len(a)
      BY <1>1, <1>2
    <3>3. \A k \in 1..m : /\ r[k] = ReadStep[<<r[k - 1], (a \o b)[k]>>]
                          /\ q[k] = ReadStep[<<q[k - 1], a[k]>>] /\ (a \o b)[k] = a[k]
      BY <1>3, <1>4, <1>7, <3>2 DEF Trail
    <3>4. Agree(ReadStep, r, q, a \o b, a, m)
      BY <3>1, <3>3 DEF Agree
    <3>5. QED
      BY <1>1, <3>4, TrailsAgree
  <2>2. QED
    BY <2>1
<1>10. \A k \in 0..n : r[m + k] = p[k]
  <2> DEFINE K == {k \in 0..n : r[m + k] = p[k]}
  <2>1. 0 \in K
    BY <1>6, <1>9 DEF Trail
  <2>2. ASSUME NEW k \in 1..n, k - 1 \in K PROVE k \in K
    <3>1. r[m + (k - 1)] = p[k - 1]
      BY <2>2
    <3>2. m + k \in 1..Len(a \o b) /\ (m + k) - 1 = m + (k - 1) /\ k \in 1..Len(b)
      BY <1>1, <1>2
    <3>3. r[m + k] = ReadStep[<<r[m + (k - 1)], (a \o b)[m + k]>>]
      BY <1>3, <3>2 DEF Trail
    <3>4. p[k] = ReadStep[<<p[k - 1], b[k]>>]
      BY <1>6, <3>2 DEF Trail
    <3>5. r[m + k] = p[k]
      BY <1>8, <3>1, <3>3, <3>4, Zenon
    <3>6. QED
      BY <3>5
  <2> HIDE DEF K
  <2>3. \A k \in 0..n : k \in K
    BY <2>1, <2>2, AllIndices
  <2>4. QED
    BY <2>3 DEF K
<1>11. QED
  BY <1>3, <1>4, <1>6, <1>10

\* What was decoded before stays in front of what is decoded, and decides nothing.
LEMMA AheadFacts ==
  ASSUME NEW o \in Characters, NEW f \in Entered
  PROVE  /\ Ahead(o, f) \in Entered /\ Ahead(o, Fails(f)) = Fails(Ahead(o, f))
         /\ \A c \in Character : Ahead(o, Emits(f, c)) = Emits(Ahead(o, f), c)
         /\ Ahead(o, f).state = f.state /\ Ahead(o, f).escape = f.escape
         /\ Ahead(o, f).high = f.high /\ Ahead(o, f).failed = f.failed
<1>1. f.out \in Characters /\ o \o f.out \in Characters
  BY DEF Entered, Characters
<1>2. \A c \in Character : o \o Append(f.out, c) = Append(o \o f.out, c)
  BY <1>1 DEF Characters
<1> HIDE DEF Characters
<1>3. Ahead(o, f) \in Entered
  BY <1>1 DEF Ahead, Entered
<1>4. Ahead(o, Fails(f)) = Fails(Ahead(o, f))
  BY DEF Ahead, Fails, Entered
<1>5. ASSUME NEW c \in Character PROVE Ahead(o, Emits(f, c)) = Emits(Ahead(o, f), c)
  BY <1>2 DEF Ahead, Emits, Entered
<1>6. /\ Ahead(o, f).state = f.state /\ Ahead(o, f).escape = f.escape
      /\ Ahead(o, f).high = f.high /\ Ahead(o, f).failed = f.failed
  BY DEF Ahead, Entered
<1>7. QED
  BY <1>3, <1>4, <1>5, <1>6

\* What was decoded before does not change how a character is read.
LEMMA ReadAhead ==
  ASSUME NEW o \in Characters, NEW f \in Entered, NEW c \in Character
  PROVE  ReadChar(Ahead(o, f), c) = Ahead(o, ReadChar(f, c))
<1> DEFINE g == Ahead(o, f)
           plain == [f EXCEPT !.escape = "none"]
<1>1. /\ g.state = f.state /\ g.escape = f.escape /\ g.high = f.high /\ g.failed = f.failed
      /\ Fails(g) = Ahead(o, Fails(f)) /\ Emits(g, c) = Ahead(o, Emits(f, c))
      /\ \A x : /\ [g EXCEPT !.state = x] = Ahead(o, [f EXCEPT !.state = x])
                /\ [g EXCEPT !.escape = x] = Ahead(o, [f EXCEPT !.escape = x])
  <2>1. /\ g.state = f.state /\ g.escape = f.escape /\ g.high = f.high /\ g.failed = f.failed
    BY AheadFacts
  <2>2. Fails(g) = Ahead(o, Fails(f)) /\ Emits(g, c) = Ahead(o, Emits(f, c))
    BY AheadFacts
  <2>3. ASSUME NEW x
        PROVE  /\ [g EXCEPT !.state = x] = Ahead(o, [f EXCEPT !.state = x])
               /\ [g EXCEPT !.escape = x] = Ahead(o, [f EXCEPT !.escape = x])
    BY DEF Ahead, Entered
  <2>4. QED
    BY <2>1, <2>2, <2>3
<1>2. plain \in Entered /\ [plain EXCEPT !.high = FALSE] \in Entered
  BY DEF Entered
<1>3. /\ "pair" \in Character /\ "bmp" \in Character
      /\ \A d \in DOMAIN SimpleEscape : SimpleEscape[d] \in Character
  BY DEF Character, SimpleEscape
<1>4. Expects(g, c, ":", "value") = Ahead(o, Expects(f, c, ":", "value"))
      /\ Expects(g, c, "q", "string") = Ahead(o, Expects(f, c, "q", "string"))
  <2> HIDE DEF g
  <2>1. g = Ahead(o, f)
    BY DEF g
  <2>2. QED
    BY <1>1, <2>1 DEF Expects
<1>5. EscapeLetter(g, c) = Ahead(o, EscapeLetter(f, c))
  <2>1. [g EXCEPT !.escape = "none"] = Ahead(o, plain)
    BY <1>1
  <2>2. \A d \in DOMAIN SimpleEscape :
          Emits(Ahead(o, plain), SimpleEscape[d]) = Ahead(o, Emits(plain, SimpleEscape[d]))
    BY <1>2, <1>3, AheadFacts
  <2> HIDE DEF g
  <2>3. QED
    BY <1>1, <2>1, <2>2 DEF EscapeLetter
<1>6. CodeUnit([g EXCEPT !.escape = "none"], c) = Ahead(o, CodeUnit(plain, c))
  <2> DEFINE u == plain
             v == Ahead(o, u)
  <2>a. u \in Entered /\ [u EXCEPT !.high = FALSE] \in Entered
    BY <1>2
  <2>1. [g EXCEPT !.escape = "none"] = v
    BY <1>1
  <2>2. /\ v.high = u.high /\ Fails(v) = Ahead(o, Fails(u))
        /\ Emits(v, "bmp") = Ahead(o, Emits(u, "bmp"))
        /\ [v EXCEPT !.high = TRUE] = Ahead(o, [u EXCEPT !.high = TRUE])
        /\ [v EXCEPT !.high = FALSE] = Ahead(o, [u EXCEPT !.high = FALSE])
    <3> HIDE DEF u
    <3>1. v.high = u.high /\ Fails(v) = Ahead(o, Fails(u)) /\ Emits(v, "bmp") = Ahead(o, Emits(u, "bmp"))
      BY <2>a, <1>3, AheadFacts
    <3>2. ASSUME NEW x PROVE [v EXCEPT !.high = x] = Ahead(o, [u EXCEPT !.high = x])
      BY <2>a DEF Ahead, Entered
    <3>3. QED
      BY <3>1, <3>2
  <2>3. Emits(Ahead(o, [u EXCEPT !.high = FALSE]), "pair")
          = Ahead(o, Emits([u EXCEPT !.high = FALSE], "pair"))
    BY <1>2, <1>3, AheadFacts
  <2> HIDE DEF u, v
  <2>4. CodeUnit(v, c) = Ahead(o, CodeUnit(u, c))
    BY <2>2, <2>3 DEF CodeUnit
  <2>5. QED
    BY <2>1, <2>4 DEF u
<1>7. InString(g, c) = Ahead(o, InString(f, c))
  <2> HIDE DEF g
  <2>1. QED
    BY <1>1, <1>5, <1>6 DEF InString
<1>8. QED
  <2>1. g = Ahead(o, f)
    OBVIOUS
  <2> HIDE DEF g
  <2>2. QED
    BY <1>1, <1>4, <1>7, <2>1 DEF ReadChar

\* Nor how a text is read.
LEMMA ReadCharsAhead ==
  ASSUME NEW o \in Characters, NEW f \in Entered, NEW d \in Characters
  PROVE  ReadChars(Ahead(o, f), d) = Ahead(o, ReadChars(f, d))
<1>1. PICK n \in Nat : n = Len(d)
  BY DEF Characters
<1>2. Ahead(o, f) \in Entered
  BY AheadFacts
<1>3. PICK r \in [0..n -> Entered] :
        r[n] = ReadChars(Ahead(o, f), d) /\ Trail(r, ReadStep, Ahead(o, f), d)
  BY <1>1, <1>2, ReadCharsTrail DEF Characters
<1>4. PICK q \in [0..n -> Entered] : q[n] = ReadChars(f, d) /\ Trail(q, ReadStep, f, d)
  BY <1>1, ReadCharsTrail DEF Characters
<1> DEFINE K == {k \in 0..n : r[k] = Ahead(o, q[k])}
<1>5. 0 \in K
  BY <1>3, <1>4 DEF Trail
<1>6. ASSUME NEW k \in 1..n, k - 1 \in K PROVE k \in K
  <2>1. r[k - 1] = Ahead(o, q[k - 1]) /\ k - 1 \in 0..n
    BY <1>6
  <2>2. q[k - 1] \in Entered /\ r[k - 1] \in Entered /\ d[k] \in Character
    <3>1. q[k - 1] \in Entered /\ r[k - 1] \in Entered
      BY <2>1
    <3>2. d \in Seq(Character) /\ k \in 1..Len(d)
      BY <1>1 DEF Characters
    <3>3. QED
      BY <3>1, <3>2
  <2>3. r[k] = ReadStep[<<r[k - 1], d[k]>>] /\ q[k] = ReadStep[<<q[k - 1], d[k]>>]
    BY <1>1, <1>3, <1>4 DEF Trail
  <2>4. r[k] = ReadChar(r[k - 1], d[k]) /\ q[k] = ReadChar(q[k - 1], d[k])
    BY <2>2, <2>3 DEF ReadStep
  <2>5. r[k] = Ahead(o, q[k])
    BY <2>1, <2>2, <2>4, ReadAhead
  <2>6. QED
    BY <2>5
<1> HIDE DEF K
<1>7. \A k \in 0..n : k \in K
  BY <1>5, <1>6, AllIndices
<1>8. n \in K
  BY <1>7
<1>9. QED
  BY <1>3, <1>4, <1>8 DEF K

\* Where the key ends in a text: the search of a piece starts with the end of what the
\* pieces before ended with, and finds what the search of the whole text finds.
KeyAt(s, i) == i \in 3..Len(s) /\ s[i - 2] = "q" /\ s[i - 1] = "k" /\ s[i] = "q"

\* The three characters of the quoted key, one by one.
LEMMA KeyEndsAt ==
  ASSUME NEW s \in Characters
  PROVE  /\ \A i : i \in KeyEnds(s) <=> KeyAt(s, i)
         /\ KeyEnds(s) \in SUBSET Nat
<1>1. Len(Needle) = 3 /\ Needle[1] = "q" /\ Needle[2] = "k" /\ Needle[3] = "q"
  BY DEF Needle
<1>2. ASSUME NEW i \in 3..Len(s)
      PROVE  SubSeq(s, i - 2, i) = Needle <=> s[i - 2] = "q" /\ s[i - 1] = "k" /\ s[i] = "q"
  <2>1. s \in Seq(Character) /\ Len(s) \in Nat
    BY DEF Characters
  <2> DEFINE t == SubSeq(s, i - 2, i)
  <2>2. t \in Seq(Character) /\ Len(t) = 3 /\ t[1] = s[i - 2] /\ t[2] = s[i - 1] /\ t[3] = s[i]
    BY <2>1
  <2> HIDE DEF t
  <2>3. t = Needle <=> t[1] = "q" /\ t[2] = "k" /\ t[3] = "q"
    BY <1>1, <2>2 DEF Needle
  <2>4. QED
    BY <2>2, <2>3 DEF t
<1>3. ASSUME NEW i PROVE i \in KeyEnds(s) <=> KeyAt(s, i)
  <2>1. Len(s) \in Nat
    BY DEF Characters
  <2>2. i \in KeyEnds(s) <=> i \in 3..Len(s) /\ SubSeq(s, i - 3 + 1, i) = Needle
    <3>1. i \in KeyEnds(s) <=> i \in 1..Len(s) /\ i >= 3 /\ SubSeq(s, i - 3 + 1, i) = Needle
      BY <1>1 DEF KeyEnds
    <3>2. i \in 1..Len(s) /\ i >= 3 <=> i \in 3..Len(s)
      BY <2>1
    <3>3. QED
      BY <3>1, <3>2
  <2>3. i \in 3..Len(s) => i - 3 + 1 = i - 2
    BY <2>1
  <2>4. QED
    BY <1>2, <2>2, <2>3 DEF KeyAt
<1>4. KeyEnds(s) \in SUBSET Nat
  BY DEF KeyEnds, Characters
<1>5. QED
  BY <1>3, <1>4

\* The first end of the key is one, and the least.
LEMMA FirstIs ==
  ASSUME NEW S \in SUBSET Nat, S # {}
  PROVE  First(S) \in S /\ \A j \in S : First(S) <= j
  BY LeastOf DEF First

LEMMA FirstOnly ==
  ASSUME NEW S \in SUBSET Nat, NEW m \in S, \A j \in S : m <= j
  PROVE  First(S) = m
<1>1. First(S) \in S /\ First(S) <= m /\ m <= First(S)
  BY FirstIs
<1>2. First(S) \in Nat /\ m \in Nat
  BY <1>1
<1>3. QED
  BY <1>1, <1>2

\* The tail is the text when it is short, and its last two characters when it is not.
LEMMA KeyTailIs ==
  ASSUME NEW c \in Characters
  PROVE  /\ KeyTail(c) \in Characters
         /\ Len(c) < 3 => KeyTail(c) = c
         /\ Len(c) >= 3 => /\ Len(KeyTail(c)) = 2 /\ KeyTail(c)[1] = c[Len(c) - 1]
                           /\ KeyTail(c)[2] = c[Len(c)]
<1>1. Len(Needle) = 3 /\ Len(c) \in Nat /\ c \in Seq(Character)
  BY DEF Needle, Characters
<1>2. KeyTail(c) = IF Len(c) < 3 THEN c ELSE SubSeq(c, Len(c) - 1, Len(c))
  BY <1>1 DEF KeyTail
<1>3. ASSUME Len(c) >= 3
      PROVE  /\ SubSeq(c, Len(c) - 1, Len(c)) \in Seq(Character)
             /\ Len(SubSeq(c, Len(c) - 1, Len(c))) = 2
             /\ SubSeq(c, Len(c) - 1, Len(c))[1] = c[Len(c) - 1]
             /\ SubSeq(c, Len(c) - 1, Len(c))[2] = c[Len(c)]
  <2>1. PICK n \in Nat : n = Len(c)
    BY <1>1
  <2>2. SubSeq(c, n - 1, n) \in Seq(Character)
    BY <1>1, <1>3, <2>1, SubSeqTyped
  <2>3. Len(SubSeq(c, n - 1, n)) = 2
    BY <1>1, <1>3, <2>1
  <2>4. SubSeq(c, n - 1, n)[1] = c[n - 1] /\ SubSeq(c, n - 1, n)[2] = c[n]
    BY <1>1, <1>3, <2>1
  <2>5. QED
    BY <2>1, <2>2, <2>3, <2>4
<1>4. QED
  BY <1>1, <1>2, <1>3 DEF Characters

\* A key that does not end in the first part ends in its tail and the second, k further on.
LEMMA KeyMoves ==
  ASSUME NEW c \in Characters, NEW d \in Characters, KeyEnds(c) = {},
         NEW k \in Nat, k = Len(c) - Len(KeyTail(c))
  PROVE  /\ KeyTail(c) \o d \in Characters /\ Len(c \o d) = k + Len(KeyTail(c) \o d)
         /\ \A i \in 1..Len(KeyTail(c) \o d) : (c \o d)[k + i] = (KeyTail(c) \o d)[i]
         /\ \A i : KeyAt(c \o d, i) => i \in Nat /\ KeyAt(KeyTail(c) \o d, i - k)
         /\ \A i : KeyAt(KeyTail(c) \o d, i) => i \in Nat /\ KeyAt(c \o d, k + i)
<1> DEFINE t == KeyTail(c)
           s == t \o d
           w == c \o d
<1>1. PICK n \in Nat, m \in Nat, l \in Nat : n = Len(c) /\ m = Len(d) /\ l = Len(t)
  BY KeyTailIs DEF Characters
<1>2. k = n - l /\ l <= 2 /\ (l < 2 => k = 0) /\ \A i \in 1..l : t[i] = c[k + i]
  <2>1. CASE n < 3
    BY <1>1, <2>1, KeyTailIs
  <2>2. CASE n >= 3
    <3>1. l = 2 /\ t[1] = c[n - 1] /\ t[2] = c[n] /\ k = n - 2
      BY <1>1, <2>2, KeyTailIs
    <3>2. \A i \in 1..2 : i = 1 \/ i = 2
      OBVIOUS
    <3> HIDE DEF t
    <3>3. QED
      BY <1>1, <2>2, <3>1, <3>2
  <2>3. QED
    BY <1>1, <2>1, <2>2
<1>3. t \in Seq(Character) /\ c \in Seq(Character) /\ d \in Seq(Character)
  BY KeyTailIs DEF Characters
<1> HIDE DEF t
<1>4. s \in Seq(Character) /\ w \in Seq(Character) /\ Len(s) = l + m /\ Len(w) = n + m
  BY <1>1, <1>3
<1>5. /\ \A i \in 1..l : s[i] = t[i]
      /\ \A i \in (l + 1)..(l + m) : s[i] = d[i - l]
      /\ \A i \in 1..n : w[i] = c[i]
      /\ \A i \in (n + 1)..(n + m) : w[i] = d[i - n]
  BY <1>1, <1>3
<1> HIDE DEF s, w
<1>6. \A i \in 1..(l + m) : w[k + i] = s[i]
  <2> TAKE i \in 1..(l + m)
  <2>1. CASE i \in 1..l
    <3>1. k + i \in 1..n
      BY <1>2, <2>1
    <3>2. QED
      BY <1>2, <1>5, <2>1, <3>1
  <2>2. CASE i \in (l + 1)..(l + m)
    <3>1. k + i \in (n + 1)..(n + m) /\ (k + i) - n = i - l
      BY <1>2, <2>2
    <3>2. QED
      BY <1>5, <2>2, <3>1
  <2>3. QED
    BY <2>1, <2>2
<1>7. ASSUME NEW i, KeyAt(w, i) PROVE i \in Nat /\ KeyAt(s, i - k)
  <2>1. i \in 3..(n + m) /\ w[i - 2] = "q" /\ w[i - 1] = "k" /\ w[i] = "q"
    BY <1>4, <1>7 DEF KeyAt
  <2>2. ~(i <= n)
    <3>1. SUFFICES ASSUME i <= n PROVE FALSE
      OBVIOUS
    <3>2. c[i - 2] = "q" /\ c[i - 1] = "k" /\ c[i] = "q"
      BY <1>5, <2>1, <3>1
    <3>3. KeyAt(c, i)
      BY <1>1, <2>1, <3>1, <3>2 DEF KeyAt
    <3>4. QED
      BY <3>3, KeyEndsAt
  <2>3. i - k \in 3..(l + m)
    BY <1>2, <2>1, <2>2
  <2>4. s[i - k - 2] = w[i - 2] /\ s[i - k - 1] = w[i - 1] /\ s[i - k] = w[i]
    <3>1. i - k - 2 \in 1..(l + m) /\ i - k - 1 \in 1..(l + m) /\ i - k \in 1..(l + m)
      BY <2>3
    <3>2. k + (i - k - 2) = i - 2 /\ k + (i - k - 1) = i - 1 /\ k + (i - k) = i
      BY <2>1
    <3>3. QED
      BY <1>6, <3>1, <3>2
  <2>5. QED
    BY <1>4, <2>1, <2>3, <2>4 DEF KeyAt
<1>8. ASSUME NEW i, KeyAt(s, i) PROVE i \in Nat /\ KeyAt(w, k + i)
  <2>1. i \in 3..(l + m) /\ s[i - 2] = "q" /\ s[i - 1] = "k" /\ s[i] = "q"
    BY <1>4, <1>8 DEF KeyAt
  <2>2. k + i \in 3..(n + m)
    BY <1>2, <2>1
  <2>3. w[k + i - 2] = s[i - 2] /\ w[k + i - 1] = s[i - 1] /\ w[k + i] = s[i]
    <3>1. i - 2 \in 1..(l + m) /\ i - 1 \in 1..(l + m) /\ i \in 1..(l + m)
      BY <2>1
    <3>2. k + (i - 2) = k + i - 2 /\ k + (i - 1) = k + i - 1
      BY <2>1
    <3>3. QED
      BY <1>6, <3>1, <3>2
  <2>4. QED
    BY <1>4, <2>1, <2>2, <2>3 DEF KeyAt
<1>9. n + m = k + (l + m)
  BY <1>2
<1>10. QED
  BY <1>4, <1>6, <1>7, <1>8, <1>9 DEF s, w, t, Characters

\* Texts with the same characters are the same.
LEMMA SameSequence ==
  ASSUME NEW a \in Characters, NEW b \in Characters, Len(a) = Len(b),
         \A i \in 1..Len(a) : a[i] = b[i]
  PROVE  a = b
  BY DEF Characters

\* The tail of the tail and a second part is the tail of the whole.
LEMMA KeyTailJoins ==
  ASSUME NEW c \in Characters, NEW d \in Characters, KeyEnds(c) = {}
  PROVE  KeyTail(KeyTail(c) \o d) = KeyTail(c \o d)
<1> DEFINE s == KeyTail(c) \o d
           w == c \o d
           k == Len(c) - Len(KeyTail(c))
<1>1. s \in Characters /\ w \in Characters /\ Len(c) \in Nat /\ Len(d) \in Nat
      /\ Len(s) \in Nat /\ Len(w) \in Nat
  BY KeyTailIs DEF Characters
<1>2. k \in Nat /\ (k > 0 => Len(s) >= 2)
  <2>1. Len(c) < 3 => k = 0
    BY <1>1, KeyTailIs
  <2>2. Len(c) >= 3 => k = Len(c) - 2 /\ Len(s) = 2 + Len(d)
    <3>1. Len(s) = Len(KeyTail(c)) + Len(d)
      BY KeyTailIs DEF Characters
    <3>2. QED
      BY <3>1, KeyTailIs
  <2> HIDE DEF s, k
  <2>3. QED
    BY <1>1, <2>1, <2>2
<1>3. Len(w) = k + Len(s) /\ \A i \in 1..Len(s) : w[k + i] = s[i]
  <2>1. \A j \in Nat : j = Len(c) - Len(KeyTail(c)) =>
          Len(c \o d) = j + Len(KeyTail(c) \o d)
          /\ \A i \in 1..Len(KeyTail(c) \o d) : (c \o d)[j + i] = (KeyTail(c) \o d)[i]
    BY KeyMoves
  <2>2. QED
    BY <1>2, <2>1
<1> HIDE DEF s, w, k
<1>4. CASE k = 0
  <2>1. s = w
    BY <1>1, <1>3, <1>4, SameSequence
  <2>2. QED
    BY <2>1 DEF s, w
<1>5. CASE k > 0
  <2>1. PICK n \in Nat : n = Len(s)
    BY <1>1
  <2>2. n >= 2 /\ Len(w) = k + n /\ k \in Nat /\ Len(w) >= 3
    BY <1>2, <1>3, <1>5, <2>1
  <2>3. KeyTail(s) \in Characters /\ Len(KeyTail(s)) = 2
        /\ KeyTail(s)[1] = s[n - 1] /\ KeyTail(s)[2] = s[n]
    <3>1. CASE n < 3
      <4>1. n = 2
        BY <2>2, <3>1
      <4>2. Len(s) < 3 /\ s \in Characters
        BY <1>1, <2>1, <3>1
      <4>3. KeyTail(s) = s
        BY <4>2, KeyTailIs
      <4>4. n - 1 = 1 /\ Len(s) = 2
        BY <2>1, <4>1
      <4>5. KeyTail(s) \in Characters /\ Len(KeyTail(s)) = 2
        BY <4>2, <4>3, <4>4
      <4>6. KeyTail(s)[1] = s[n - 1] /\ KeyTail(s)[2] = s[n]
        BY <4>1, <4>3, <4>4
      <4>7. QED
        BY <4>5, <4>6
    <3>2. CASE n >= 3
      BY <1>1, <2>1, <3>2, KeyTailIs
    <3>3. QED
      BY <3>1, <3>2
  <2>4. KeyTail(w) \in Characters /\ Len(KeyTail(w)) = 2
        /\ KeyTail(w)[1] = w[k + n - 1] /\ KeyTail(w)[2] = w[k + n]
    BY <1>1, <2>2, KeyTailIs
  <2>5. w[k + n - 1] = s[n - 1] /\ w[k + n] = s[n]
    <3>1. n - 1 \in 1..Len(s) /\ n \in 1..Len(s) /\ k + (n - 1) = k + n - 1
      BY <2>1, <2>2
    <3>2. QED
      BY <1>3, <3>1
  <2>6. \A i \in 1..2 : i = 1 \/ i = 2
    OBVIOUS
  <2>7. KeyTail(s) = KeyTail(w)
    BY <2>3, <2>4, <2>5, <2>6, SameSequence
  <2>8. QED
    BY <2>7 DEF s, w
<1>6. QED
  BY <1>2, <1>4, <1>5

\* What stands behind a place in a text.
Behind(s, j) == SubSeq(s, j + 1, Len(s))

LEMMA BehindIs ==
  ASSUME NEW s \in Characters, NEW j \in 0..Len(s)
  PROVE  /\ Behind(s, j) \in Characters /\ Len(Behind(s, j)) = Len(s) - j
         /\ \A i \in 1..(Len(s) - j) : Behind(s, j)[i] = s[j + i]
<1>1. PICK n \in Nat : n = Len(s)
  BY DEF Characters
<1>2. s \in Seq(Character) /\ j \in 0..n
  BY <1>1 DEF Characters
<1>3. SubSeq(s, j + 1, n) \in Seq(Character)
  BY <1>1, <1>2, SubSeqTyped
<1>4. Len(SubSeq(s, j + 1, n)) = n - j
  BY <1>1, <1>2
<1>5. \A i \in 1..(n - j) : SubSeq(s, j + 1, n)[i] = s[j + i]
  BY <1>1, <1>2
<1>6. QED
  BY <1>1, <1>3, <1>4, <1>5 DEF Behind, Characters

\* What stands behind a place of the first part, in the whole.
LEMMA BehindJoins ==
  ASSUME NEW c \in Characters, NEW d \in Characters, NEW j \in 0..Len(c)
  PROVE  Behind(c \o d, j) = Behind(c, j) \o d
<1>1. PICK n \in Nat, m \in Nat : n = Len(c) /\ m = Len(d)
  BY DEF Characters
<1> DEFINE w == c \o d
           a == Behind(w, j)
           b == Behind(c, j)
<1>2. /\ w \in Characters /\ Len(w) = n + m /\ j \in 0..n /\ j \in 0..(n + m)
      /\ \A i \in 1..n : w[i] = c[i]
      /\ \A i \in 1..m : w[n + i] = d[i]
  BY <1>1 DEF Characters
<1> HIDE DEF w
<1>3. /\ a \in Characters /\ Len(a) = n + m - j
      /\ \A i \in 1..(n + m - j) : a[i] = w[j + i]
  <2>1. j \in 0..Len(w)
    BY <1>2
  <2>2. /\ a \in Characters /\ Len(a) = Len(w) - j
        /\ \A i \in 1..(Len(w) - j) : a[i] = w[j + i]
    BY <1>2, <2>1, BehindIs
  <2>3. QED
    BY <1>2, <2>2
<1>4. b \in Characters /\ Len(b) = n - j /\ \A i \in 1..(n - j) : b[i] = c[j + i]
  BY <1>1, BehindIs
<1> HIDE DEF a, b
<1>5. PICK l \in Nat : l = n - j
  BY <1>2
<1>6. /\ b \o d \in Characters /\ Len(b \o d) = l + m
      /\ \A i \in 1..l : (b \o d)[i] = b[i]
      /\ \A i \in 1..m : (b \o d)[l + i] = d[i]
  <2>1. b \in Seq(Character) /\ d \in Seq(Character) /\ Len(b) = l /\ Len(d) = m
    BY <1>1, <1>4, <1>5 DEF Characters
  <2>2. b \o d \in Seq(Character) /\ Len(b \o d) = l + m
    BY <2>1
  <2>3. \A i \in 1..l : (b \o d)[i] = b[i]
    BY <2>1
  <2>4. ASSUME NEW i \in 1..m PROVE (b \o d)[l + i] = d[i]
    BY <2>1
  <2>5. QED
    BY <2>2, <2>3, <2>4 DEF Characters
<1>7. ASSUME NEW i \in 1..(l + m) PROVE a[i] = (b \o d)[i]
  <2>1. a[i] = w[j + i]
    BY <1>2, <1>3, <1>5
  <2>2. CASE i <= l
    <3>1. i \in 1..(n - j) /\ j + i \in 1..n
      BY <1>2, <1>5, <2>2
    <3>2. QED
      BY <1>2, <1>4, <1>5, <1>6, <2>1, <3>1
  <2>3. CASE ~(i <= l)
    <3>1. PICK p \in 1..m : p = i - l
      BY <1>5, <2>3
    <3>2. n + p = j + i /\ l + p = i
      BY <1>2, <1>5, <3>1
    <3>3. w[n + p] = d[p] /\ (b \o d)[l + p] = d[p]
      BY <1>2, <1>6
    <3>4. QED
      BY <2>1, <3>2, <3>3
  <2>4. QED
    BY <2>2, <2>3
<1>8. n + m - j = l + m
  BY <1>2, <1>5
<1>9. a = b \o d
  BY <1>3, <1>6, <1>7, <1>8, SameSequence
<1>10. QED
  BY <1>9 DEF a, b, w

\* The decoder behind the key.
AtColon == [NewField EXCEPT !.state = "colon"]

\* A piece read by a decoder that still looks for the key.
LEMMA SearchIs ==
  ASSUME NEW t \in Characters, NEW d \in Characters
  PROVE  /\ KeyEnds(t \o d) = {} =>
              Feed([NewField EXCEPT !.tail = t], d) = [NewField EXCEPT !.tail = KeyTail(t \o d)]
         /\ KeyEnds(t \o d) # {} =>
              Feed([NewField EXCEPT !.tail = t], d)
                = ReadChars(AtColon, Behind(t \o d, First(KeyEnds(t \o d))))
<1> DEFINE f == [NewField EXCEPT !.tail = t]
           s == t \o d
<1>1. /\ f.tail = t /\ f.state = "key"
      /\ [f EXCEPT !.state = "colon", !.tail = << >>, !.out = << >>] = AtColon
      /\ [f EXCEPT !.tail = KeyTail(s), !.out = << >>] = [NewField EXCEPT !.tail = KeyTail(s)]
  <2>a. NewField \in Field /\ NewField.state = "key" /\ NewField.tail = << >> /\ NewField.out = << >>
    BY DEF NewField, Field, Characters
  <2>1. ASSUME NEW x PROVE [f EXCEPT !.tail = x, !.out = << >>] = [NewField EXCEPT !.tail = x]
    BY <2>a DEF Field
  <2>2. [f EXCEPT !.state = "colon", !.tail = << >>, !.out = << >>] = AtColon
    BY <2>a DEF Field, AtColon
  <2>3. f.tail = t /\ f.state = "key"
    BY <2>a DEF Field
  <2> HIDE DEF f, s
  <2>4. [f EXCEPT !.tail = KeyTail(s), !.out = << >>] = [NewField EXCEPT !.tail = KeyTail(s)]
    BY <2>1
  <2>5. QED
    BY <2>2, <2>3, <2>4
<1> HIDE DEF f
<1>2. Feed(f, d) = IF KeyEnds(s) = {} THEN [f EXCEPT !.tail = KeyTail(s), !.out = << >>]
                   ELSE ReadChars([f EXCEPT !.state = "colon", !.tail = << >>, !.out = << >>],
                                  SubSeq(s, First(KeyEnds(s)) + 1, Len(s)))
  BY <1>1 DEF Feed
<1>3. QED
  BY <1>1, <1>2 DEF f, Behind

\* A text that is read at once.
LEMMA WholeIs ==
  ASSUME NEW c \in Characters
  PROVE  /\ KeyEnds(c) = {} => Whole(c) = [NewField EXCEPT !.tail = KeyTail(c)]
         /\ KeyEnds(c) # {} =>
              /\ First(KeyEnds(c)) \in KeyEnds(c) /\ First(KeyEnds(c)) \in 1..Len(c)
              /\ Behind(c, First(KeyEnds(c))) \in Characters
              /\ Whole(c) = ReadChars(AtColon, Behind(c, First(KeyEnds(c))))
              /\ Whole(c) \in Entered
<1>1. << >> \in Characters /\ << >> \o c = c
  BY DEF Characters
<1>2. [NewField EXCEPT !.tail = << >>] = NewField
  BY DEF NewField
<1>3. /\ KeyEnds(c) = {} => Whole(c) = [NewField EXCEPT !.tail = KeyTail(c)]
      /\ KeyEnds(c) # {} => Whole(c) = ReadChars(AtColon, Behind(c, First(KeyEnds(c))))
  BY <1>1, <1>2, SearchIs DEF Whole
<1>4. ASSUME KeyEnds(c) # {}
      PROVE  /\ First(KeyEnds(c)) \in KeyEnds(c) /\ First(KeyEnds(c)) \in 1..Len(c)
             /\ Behind(c, First(KeyEnds(c))) \in Characters
             /\ Whole(c) \in Entered
  <2>1. First(KeyEnds(c)) \in KeyEnds(c)
    BY <1>4, KeyEndsAt, FirstIs
  <2>2. First(KeyEnds(c)) \in 1..Len(c) /\ First(KeyEnds(c)) \in 0..Len(c)
    <3>1. KeyEnds(c) \subseteq 1..Len(c) /\ 1..Len(c) \subseteq 0..Len(c)
      BY DEF KeyEnds, Characters
    <3>2. QED
      BY <2>1, <3>1
  <2>3. Behind(c, First(KeyEnds(c))) \in Characters
    BY <2>2, BehindIs
  <2>4. AtColon \in Entered
    BY <1>1 DEF AtColon, NewField, Entered
  <2>5. QED
    BY <1>3, <1>4, <2>1, <2>2, <2>3, <2>4, ReadCharsTyped
<1>5. QED
  BY <1>3, <1>4

\* The search of the second part goes on from the tail of the first.
LEMMA SearchJoins ==
  ASSUME NEW c \in Characters, NEW d \in Characters, KeyEnds(c) = {}
  PROVE  Feed(Whole(c), d) = Whole(c \o d)
<1> DEFINE t == KeyTail(c)
           s == t \o d
           w == c \o d
<1>1. t \in Characters /\ Whole(c) = [NewField EXCEPT !.tail = t]
  BY KeyTailIs, WholeIs
<1>2. PICK k \in Nat : k = Len(c) - Len(t)
  <2>1. Len(c) \in Nat /\ (Len(c) < 3 => Len(t) = Len(c)) /\ (Len(c) >= 3 => Len(t) = 2)
    BY KeyTailIs DEF Characters
  <2> HIDE DEF t
  <2>2. Len(c) - Len(t) \in Nat
    BY <2>1
  <2>3. QED
    BY <2>2
<1>3. /\ s \in Characters /\ Len(w) = k + Len(s) /\ w \in Characters
      /\ \A i \in 1..Len(s) : w[k + i] = s[i]
      /\ \A i : KeyAt(w, i) => i \in Nat /\ KeyAt(s, i - k)
      /\ \A i : KeyAt(s, i) => i \in Nat /\ KeyAt(w, k + i)
  <2>1. w \in Characters
    BY DEF Characters
  <2>2. QED
    BY <1>2, <2>1, KeyMoves
<1>4. KeyTail(s) = KeyTail(w)
  BY KeyTailJoins
<1>5. /\ KeyEnds(s) = {} => Feed(Whole(c), d) = [NewField EXCEPT !.tail = KeyTail(s)]
      /\ KeyEnds(s) # {} =>
           Feed(Whole(c), d) = ReadChars(AtColon, Behind(s, First(KeyEnds(s))))
  BY <1>1, SearchIs
<1> HIDE DEF s, w, t
<1>6. \A i : /\ i \in KeyEnds(s) => i \in Nat /\ i \in 1..Len(s) /\ k + i \in KeyEnds(w)
             /\ i \in KeyEnds(w) => i \in Nat /\ i - k \in KeyEnds(s)
  <2>1. \A i : i \in KeyEnds(s) => i \in 1..Len(s)
    BY DEF KeyEnds
  <2>2. QED
    BY <1>3, <2>1, KeyEndsAt
<1>7. CASE KeyEnds(s) = {}
  <2>1. KeyEnds(w) = {}
    BY <1>6, <1>7
  <2>2. Whole(w) = [NewField EXCEPT !.tail = KeyTail(w)]
    BY <1>3, <2>1, WholeIs
  <2>3. QED
    BY <1>4, <1>5, <1>7, <2>2 DEF w
<1>8. CASE KeyEnds(s) # {}
  <2>1. /\ KeyEnds(s) \in SUBSET Nat /\ KeyEnds(w) \in SUBSET Nat
    BY <1>3, KeyEndsAt
  <2>2. PICK j \in Nat : /\ j = First(KeyEnds(s)) /\ j \in KeyEnds(s)
                         /\ \A i \in KeyEnds(s) : j <= i
    BY <1>8, <2>1, FirstIs
  <2>3. k + j \in KeyEnds(w) /\ j \in 1..Len(s)
    BY <1>6, <2>2
  <2>4. \A i \in KeyEnds(w) : k + j <= i
    <3> TAKE i \in KeyEnds(w)
    <3>1. i \in Nat /\ i - k \in KeyEnds(s)
      BY <1>6
    <3>2. j <= i - k
      BY <2>2, <3>1
    <3>3. QED
      BY <3>1, <3>2
  <2>5. First(KeyEnds(w)) = k + j
    BY <2>1, <2>3, <2>4, FirstOnly
  <2>6. Whole(w) = ReadChars(AtColon, Behind(w, k + j))
    BY <1>3, <2>3, <2>5, WholeIs
  <2>7. Behind(w, k + j) = Behind(s, j)
    <3>1. PICK n \in Nat : n = Len(s)
      BY <1>3 DEF Characters
    <3>2. j \in 0..Len(s) /\ k + j \in 0..Len(w) /\ Len(w) - (k + j) = n - j
      BY <1>3, <2>3, <3>1
    <3>3. /\ Behind(s, j) \in Characters /\ Len(Behind(s, j)) = n - j
          /\ \A i \in 1..(n - j) : Behind(s, j)[i] = s[j + i]
      BY <1>3, <3>1, <3>2, BehindIs
    <3>4. /\ Behind(w, k + j) \in Characters /\ Len(Behind(w, k + j)) = n - j
          /\ \A i \in 1..(n - j) : Behind(w, k + j)[i] = w[k + j + i]
      <4>1. PICK m \in 0..Len(w) : m = k + j
        BY <3>2
      <4>2. /\ Behind(w, m) \in Characters /\ Len(Behind(w, m)) = Len(w) - m
            /\ \A i \in 1..(Len(w) - m) : Behind(w, m)[i] = w[m + i]
        BY <1>3, BehindIs
      <4>3. QED
        BY <3>2, <4>1, <4>2
    <3>5. \A i \in 1..(n - j) : w[k + j + i] = s[j + i]
      <4> TAKE i \in 1..(n - j)
      <4>1. j + i \in 1..Len(s) /\ k + (j + i) = k + j + i
        BY <3>1
      <4>2. w[k + (j + i)] = s[j + i]
        BY <1>3, <4>1
      <4>3. QED
        BY <4>1, <4>2
    <3>6. QED
      BY <3>3, <3>4, <3>5, SameSequence
  <2>8. QED
    BY <1>5, <1>8, <2>2, <2>6, <2>7 DEF w
<1>9. QED
  BY <1>7, <1>8

\* A text that is read in two pieces decodes to what it decodes to when it is read at once:
\* the second piece adds what it decodes to and leaves the decoder where it would be.
LEMMA FeedJoins ==
  ASSUME NEW c \in Characters, NEW d \in Characters
  PROVE  LET f == Feed(Reset(Whole(c)), d) IN
         /\ f.out \in Characters /\ Whole(c).out \in Characters
         /\ Whole(c \o d).out = Whole(c).out \o f.out
         /\ Reset(f) = Reset(Whole(c \o d))
<1>1. CASE KeyEnds(c) = {}
  <2>1. Whole(c) = [NewField EXCEPT !.tail = KeyTail(c)]
    BY <1>1, WholeIs
  <2>2. Reset(Whole(c)) = Whole(c) /\ Whole(c).out = << >>
    BY <2>1 DEF Reset, NewField
  <2>3. Feed(Whole(c), d) = Whole(c \o d)
    BY <1>1, SearchJoins
  <2>4. Whole(c \o d).out \in Characters /\ << >> \in Characters
    <3>1. NewField \in Field /\ << >> \in Characters
      BY DEF NewField, Field, Characters
    <3>2. c \o d \in Characters
      BY DEF Characters
    <3>3. QED
      BY <3>1, <3>2, FeedTyped DEF Whole, Field
  <2>5. << >> \o Whole(c \o d).out = Whole(c \o d).out
    BY <2>4 DEF Characters
  <2>6. QED
    BY <2>2, <2>3, <2>4, <2>5
<1>2. CASE KeyEnds(c) # {}
  <2> DEFINE w == Whole(c)
             j == First(KeyEnds(c))
             b == Behind(c, j)
             g == Reset(w)
             f == ReadChars(g, d)
  <2>1. /\ j \in KeyEnds(c) /\ j \in 1..Len(c) /\ b \in Characters
        /\ w = ReadChars(AtColon, b) /\ w \in Entered
    BY <1>2, WholeIs
  <2>2. c \o d \in Characters /\ << >> \in Characters
    BY DEF Characters
  <2>3. w.out \in Characters /\ w.state # "key" /\ g \in Entered /\ g.state # "key"
        /\ Reset(g) = g
    BY <2>1, <2>2 DEF Entered, Reset
  <2>4. Feed(g, d) = f
    <3>1. Reset(g) = [g EXCEPT !.out = << >>]
      BY DEF Reset
    <3> HIDE DEF g
    <3>2. QED
      BY <2>3, <3>1 DEF Feed
  <2>5. f \in Entered
    BY <2>3, ReadCharsTyped
  <2>6. j \in KeyEnds(c \o d) /\ \A i \in KeyEnds(c \o d) : j <= i
    <3>1. PICK n \in Nat, m \in Nat : n = Len(c) /\ m = Len(d)
      BY DEF Characters
    <3> DEFINE cd == c \o d
    <3>2. cd \in Characters /\ Len(cd) = n + m /\ \A i \in 1..n : cd[i] = c[i]
      BY <3>1 DEF Characters
    <3> HIDE DEF cd, j
    <3>3. \A i \in 1..n : KeyAt(cd, i) <=> KeyAt(c, i)
      BY <3>1, <3>2 DEF KeyAt
    <3>4. j \in KeyEnds(cd)
      BY <2>1, <3>1, <3>2, <3>3, KeyEndsAt
    <3>5. ASSUME NEW i \in KeyEnds(cd) PROVE j <= i
      <4>1. i \in 1..(n + m)
        BY <3>2 DEF KeyEnds
      <4>2. CASE i \in 1..n
        <5>1. i \in KeyEnds(c) /\ KeyEnds(c) \in SUBSET Nat
          BY <3>2, <3>3, <4>2, KeyEndsAt
        <5>2. QED
          BY <1>2, <5>1, FirstIs DEF j
      <4>3. CASE i \notin 1..n
        BY <2>1, <3>1, <4>1, <4>3
      <4>4. QED
        BY <4>2, <4>3
    <3>6. QED
      BY <3>4, <3>5 DEF cd
  <2>7. First(KeyEnds(c \o d)) = j /\ KeyEnds(c \o d) # {}
    BY <2>2, <2>6, KeyEndsAt, FirstOnly
  <2>8. Whole(c \o d) = ReadChars(AtColon, b \o d)
    <3>1. j \in 0..Len(c)
      BY <2>1
    <3>2. Behind(c \o d, j) = b \o d
      BY <3>1, BehindJoins
    <3>3. QED
      BY <2>2, <2>7, <3>2, WholeIs
  <2>9. AtColon \in Entered
    BY <2>2 DEF AtColon, NewField, Entered
  <2>10. ReadChars(AtColon, b \o d) = ReadChars(w, d)
    BY <2>1, <2>9, ReadOn
  <2>11. w = Ahead(w.out, g)
    <3>1. w.out \o << >> = w.out
      BY <2>3 DEF Characters
    <3> HIDE DEF w
    <3>2. QED
      BY <2>1, <2>3, <3>1 DEF Ahead, Reset, Entered
  <2>12. ReadChars(Ahead(w.out, g), d) = Ahead(w.out, f)
    BY <2>3, ReadCharsAhead
  <2>13. Whole(c \o d) = Ahead(w.out, f)
    BY <2>8, <2>10, <2>11, <2>12
  <2> HIDE DEF w, f, g
  <2>14. /\ f.out \in Characters /\ Ahead(w.out, f).out = w.out \o f.out
         /\ Reset(Ahead(w.out, f)) = Reset(f)
    BY <2>5 DEF Entered, Ahead, Reset
  <2>15. QED
    BY <2>3, <2>4, <2>13, <2>14 DEF w, g
<1>3. QED
  BY <1>1, <1>2

\* The publisher hands on or keeps what a piece decodes to, behind what it has kept.
LEMMA PublisherKeeps ==
  ASSUME NEW p \in Publisher, NEW chunk \in Characters, NEW size
  PROVE  LET f == Feed(p.field, chunk)
             fed == FeedPublisher(p, chunk, size) IN
         /\ fed.publisher.field = Reset(f)
         /\ fed.text \o fed.publisher.pending = p.pending \o f.out
<1> DEFINE f == Feed(p.field, chunk)
           q == [p EXCEPT !.field = [f EXCEPT !.out = << >>], !.pending = @ \o f.out]
           fed == FeedPublisher(p, chunk, size)
<1>1. f \in Field /\ << >> \in Characters
  BY FeedTyped DEF Publisher, Characters
<1>2. p.pending \o f.out \in Characters
  BY <1>1 DEF Publisher, Field, Characters
<1>3. fed = IF Flushes(p, f.out, size) THEN [publisher |-> Published(q), text |-> q.pending]
                                       ELSE [publisher |-> q, text |-> << >>]
  BY DEF FeedPublisher
<1>4. q.field = Reset(f) /\ q.pending = p.pending \o f.out /\ q \in Publisher
  <2> HIDE DEF f
  <2>1. [f EXCEPT !.out = << >>] \in Field
    BY <1>1 DEF Field
  <2>2. QED
    BY <1>2, <2>1 DEF Publisher, Reset
<1> HIDE DEF f, q, fed
<1>5. Published(q).field = q.field /\ Published(q).pending = << >>
  BY <1>4 DEF Publisher, Published
<1>6. \A x \in Characters : x \o << >> = x /\ << >> \o x = x
  BY DEF Characters
<1>7. fed.publisher.field = Reset(f) /\ fed.text \o fed.publisher.pending = p.pending \o f.out
  BY <1>2, <1>3, <1>4, <1>5, <1>6
<1>8. QED
  BY <1>7 DEF f, fed

-----------------------------------------------------------------------------
(* The text on its way to the browser                                      *)

\* Texts put together.
LEMMA Joined ==
  ASSUME NEW a \in Characters, NEW b \in Characters
  PROVE  a \o b \in Characters
  BY DEF Characters
LEMMA JoinedAny ==
  ASSUME NEW a \in Characters, NEW b \in Characters, NEW c \in Characters
  PROVE  (a \o b) \o c = a \o (b \o c)
  BY DEF Characters

\* With the items of q behind it the text b becomes e.
Flow(r, b, q, e) ==
  /\ r \in [0..Len(q) -> Characters]
  /\ r[0] = b /\ r[Len(q)] = e
  /\ \A k \in 1..Len(q) : r[k] = r[k - 1] \o q[k].text
Flows(b, q, e) == \E r : Flow(r, b, q, e)

\* No item adds nothing.
LEMMA FlowEmpty ==
  ASSUME NEW b \in Characters
  PROVE  Flows(b, << >>, b) /\ \A e : Flows(b, << >>, e) => e = b
<1>1. Flow([k \in 0..0 |-> b], b, << >>, b)
  BY DEF Flow
<1>2. \A e, r : Flow(r, b, << >>, e) => e = b
  BY DEF Flow
<1>3. QED
  BY <1>1, <1>2 DEF Flows

\* One item more adds its text.
LEMMA FlowAppend ==
  ASSUME NEW b \in Characters, NEW e \in Characters, NEW q \in Seq(Item), NEW x \in Item,
         Flows(b, q, e)
  PROVE  Flows(b, Append(q, x), e \o x.text)
<1>1. PICK n \in Nat : n = Len(q)
  OBVIOUS
<1>2. PICK r : Flow(r, b, q, e)
  BY DEF Flows
<1> DEFINE Q == Append(q, x)
           R == [k \in 0..(n + 1) |-> IF k = n + 1 THEN e \o x.text ELSE r[k]]
<1>3. Len(Q) = n + 1 /\ Q[n + 1] = x /\ \A k \in 1..n : Q[k] = q[k]
  BY <1>1
<1>4. /\ r \in [0..n -> Characters] /\ r[0] = b /\ r[n] = e
      /\ \A k \in 1..n : r[k] = r[k - 1] \o q[k].text
  BY <1>1, <1>2 DEF Flow
<1>5. e \o x.text \in Characters
  <2>1. x.text \in Characters
    BY DEF Item
  <2>2. QED
    BY <2>1 DEF Characters
<1> HIDE DEF Q
<1>6. R \in [0..(n + 1) -> Characters]
  BY <1>4, <1>5
<1>7. R[n + 1] = e \o x.text /\ \A k \in 0..n : R[k] = r[k]
  BY <1>1
<1> HIDE DEF R
<1>8. ASSUME NEW k \in 1..(n + 1) PROVE R[k] = R[k - 1] \o Q[k].text
  <2>1. CASE k = n + 1
    <3>1. k - 1 = n /\ n \in 0..n
      BY <2>1
    <3>2. R[k - 1] = e
      BY <1>4, <1>7, <3>1
    <3>3. QED
      BY <1>3, <1>7, <2>1, <3>2
  <2>2. CASE k \in 1..n
    <3>1. k \in 0..n /\ k - 1 \in 0..n
      BY <2>2
    <3>2. QED
      BY <1>3, <1>4, <1>7, <2>2, <3>1
  <2>3. k = n + 1 \/ k \in 1..n
    OBVIOUS
  <2>4. QED
    BY <2>1, <2>2, <2>3
<1>9. Flow(R, b, Q, e \o x.text)
  <2>1. R[0] = b
    BY <1>4, <1>7
  <2>2. QED
    BY <1>3, <1>6, <1>7, <1>8, <2>1 DEF Flow
<1>10. QED
  BY <1>9 DEF Flows, Q

\* The first item may be streamed before the others.
LEMMA FlowTake ==
  ASSUME NEW b \in Characters, NEW e \in Characters, NEW q \in Seq(Item), q # << >>,
         Flows(b, q, e)
  PROVE  Flows(b \o Head(q).text, Tail(q), e)
<1>1. PICK n \in Nat : n = Len(q) - 1
  BY q # << >>
<1>2. PICK r : Flow(r, b, q, e)
  BY DEF Flows
<1> DEFINE Q == Tail(q)
           R == [k \in 0..n |-> r[k + 1]]
<1>3. Len(Q) = n /\ Head(q) = q[1] /\ \A k \in 1..n : Q[k] = q[k + 1]
  BY <1>1, HeadTailProperties
<1>4. /\ r \in [0..(n + 1) -> Characters] /\ r[0] = b /\ r[n + 1] = e
      /\ \A k \in 1..(n + 1) : r[k] = r[k - 1] \o q[k].text
  <2>1. Len(q) = n + 1
    BY <1>1
  <2>2. QED
    BY <1>2, <2>1 DEF Flow
<1> HIDE DEF Q
<1>5. R \in [0..n -> Characters] /\ R[n] = e
  BY <1>4
<1>6. R[0] = b \o Head(q).text
  <2>1. r[1] = r[1 - 1] \o q[1].text
    BY <1>4
  <2>2. R[0] = r[1] /\ 1 - 1 = 0
    OBVIOUS
  <2>3. QED
    BY <1>3, <1>4, <2>1, <2>2
<1>7. ASSUME NEW k \in 1..n PROVE R[k] = R[k - 1] \o Q[k].text
  <2>1. k + 1 \in 1..(n + 1) /\ (k + 1) - 1 = k /\ (k - 1) + 1 = k
    OBVIOUS
  <2>2. r[k + 1] = r[k] \o q[k + 1].text
    BY <1>4, <2>1
  <2>3. R[k] = r[k + 1] /\ R[k - 1] = r[k]
    BY <2>1
  <2>4. QED
    BY <1>3, <2>2, <2>3
<1> HIDE DEF R
<1>8. Flow(R, b \o Head(q).text, Q, e)
  BY <1>3, <1>5, <1>6, <1>7 DEF Flow
<1>9. QED
  BY <1>8 DEF Flows, Q

\* Whatever waits, the text only grows.
LEMMA FlowPrefix ==
  ASSUME NEW b \in Characters, NEW e \in Characters, NEW q \in Seq(Item), Flows(b, q, e)
  PROVE  \E x \in Characters : e = b \o x
<1>1. PICK n \in Nat : n = Len(q)
  OBVIOUS
<1>2. PICK r : Flow(r, b, q, e)
  BY DEF Flows
<1>3. /\ r \in [0..n -> Characters] /\ r[0] = b /\ r[n] = e
      /\ \A k \in 1..n : r[k] = r[k - 1] \o q[k].text
  BY <1>1, <1>2 DEF Flow
<1> DEFINE K == {k \in 0..n : \E x \in Characters : r[k] = b \o x}
<1>4. 0 \in K
  <2>1. << >> \in Characters /\ b = b \o << >>
    BY DEF Characters
  <2>2. QED
    BY <1>3, <2>1
<1>5. ASSUME NEW k \in 1..n, k - 1 \in K PROVE k \in K
  <2>1. PICK x \in Characters : r[k - 1] = b \o x
    BY <1>5
  <2>2. PICK y \in Characters : y = q[k].text
    <3>1. q[k] \in Item
      BY <1>1
    <3>2. QED
      BY <3>1 DEF Item
  <2>3. x \o y \in Characters /\ (b \o x) \o y = b \o (x \o y)
    BY Joined, JoinedAny
  <2>4. r[k] = b \o (x \o y)
    BY <1>3, <2>1, <2>2, <2>3
  <2>5. \E z \in Characters : r[k] = b \o z
    BY <2>3, <2>4
  <2>6. QED
    BY <2>5
<1> HIDE DEF K
<1>6. \A k \in 0..n : k \in K
  BY <1>4, <1>5, AllIndices
<1>7. n \in K
  BY <1>6
<1>8. QED
  BY <1>3, <1>7 DEF K

\* What is put behind the items adds its text.
LEMMA FlowPut ==
  ASSUME NEW b \in Characters, NEW e \in Characters, NEW q \in Seq(Item), NEW t \in Characters,
         Flows(b, q, e)
  PROVE  /\ Flows(b, q \o Delta(t), e \o t) /\ q \o Delta(t) \in Seq(Item)
         /\ Flows(b, q \o Report, e)
<1>1. ASSUME NEW x \in Item PROVE q \o <<x>> = Append(q, x) /\ Append(q, x) \in Seq(Item)
  OBVIOUS
<1>2. e \o << >> = e /\ << >> \in Characters /\ q \o << >> = q
  BY DEF Characters
<1>3. Flows(b, q \o Report, e)
  <2> DEFINE x == [type |-> "report", text |-> << >>]
  <2>1. x \in Item /\ x.text = << >> /\ Report = <<x>>
    BY <1>2 DEF Item, Report
  <2> HIDE DEF x
  <2>2. QED
    BY <1>1, <1>2, <2>1, FlowAppend
<1>4. Flows(b, q \o Delta(t), e \o t) /\ q \o Delta(t) \in Seq(Item)
  <2>1. CASE t = << >>
    BY <1>2, <2>1 DEF Delta
  <2>2. CASE t # << >>
    <3> DEFINE x == [type |-> "delta", text |-> t]
    <3>1. x \in Item /\ x.text = t /\ Delta(t) = <<x>>
      BY <2>2 DEF Item, Delta
    <3> HIDE DEF x
    <3>2. QED
      BY <1>1, <3>1, FlowAppend
  <2>3. QED
    BY <2>1, <2>2
<1>5. QED
  BY <1>3, <1>4

-----------------------------------------------------------------------------
(* The answer                                                              *)

\* Behind the answer task comes the drain, and behind the drain nothing is left.
DrainInv ==
  /\ held = << >> \/ Len(held) = 1
  /\ server \in {"idle", "opened", "locating", "located"} => answer = "none"
  /\ answer = "none" => queue = << >> /\ held = << >>
  /\ server = "draining" => held = << >> /\ answer \in Finished
  /\ server = "reporting" \/ Said("completed") =>
       queue = << >> /\ held = << >> /\ answer \in {"none", "done"}

LEMMA DrainInit == Init => DrainInv
  BY DEF Init, DrainInv, Said

LEMMA GeneratorKeepsDrain == StageInv /\ DrainInv /\ Generator => DrainInv'
<1> SUFFICES ASSUME StageInv, DrainInv, Generator PROVE DrainInv'
  OBVIOUS
<1>1. ASSUME UNCHANGED said PROVE Said("completed")' = Said("completed")
  BY <1>1 DEF Said
<1>2. ASSUME NEW e \in Event \ {"completed"}, Says(e) PROVE ~Said("completed")'
  <2>1. said \in Seq(Event)
    BY DEF StageInv
  <2>2. Said(e)'
    BY <1>2, <2>1, SayTyped
  <2>3. QED
    BY <2>2 DEF Said
<1> USE DEF DrainInv, Goes, Finished
<1>3. CASE AnswerSmallTalk
  BY <1>2, <1>3 DEF AnswerSmallTalk, Event
<1>4. CASE OpenSession
  BY <1>1, <1>4 DEF OpenSession
<1>5. CASE StartNavigation
  BY <1>2, <1>5 DEF StartNavigation, Event
<1>6. CASE SeeNavigation
  BY <1>2, <1>6 DEF SeeNavigation, Event
<1>7. CASE EndSmallTalk
  BY <1>7 DEF EndSmallTalk
<1>8. CASE StartAnswer
  BY <1>2, <1>8 DEF StartAnswer, Event
<1>9. CASE PassItem
  BY <1>1, <1>9 DEF PassItem
<1>10. CASE SeeAnswer
  BY <1>1, <1>10 DEF SeeAnswer
<1>11. CASE DrainItem
  BY <1>1, <1>11 DEF DrainItem
<1>12. CASE Drained
  BY <1>1, <1>12 DEF Drained
<1>13. CASE \E e \in {"conflict_detected", "download_ready"}: ReportFinding(e)
  BY <1>2, <1>13 DEF ReportFinding, Event
<1>14. CASE Complete
  BY <1>14 DEF Complete
<1>15. CASE ReportError
  BY <1>2, <1>15 DEF ReportError, Raises, Event
<1>16. CASE CloseSession
  BY <1>1, <1>16 DEF CloseSession
<1>17. CASE Unwind
  BY <1>1, <1>17 DEF Unwind, Cancelled
<1>18. CASE CloseUnwound
  BY <1>1, <1>18 DEF CloseUnwound
<1>19. QED
  BY <1>3, <1>4, <1>5, <1>6, <1>7, <1>8, <1>9, <1>10, <1>11, <1>12, <1>13, <1>14, <1>15, <1>16,
     <1>17, <1>18 DEF Generator

LEMMA StepKeepsDrain == StageInv /\ DrainInv /\ [Next]_vars => DrainInv'
<1> SUFFICES ASSUME StageInv, DrainInv, [Next]_vars PROVE DrainInv'
  OBVIOUS
<1>1. CASE Generator
  BY <1>1, GeneratorKeepsDrain
<1>2. ASSUME UNCHANGED said PROVE Said("completed")' = Said("completed")
  BY <1>2 DEF Said
<1>3. CASE AnswerTask
  <2>1. UNCHANGED <<said, held, server>>
    BY <1>3 DEF AnswerTask, SpeakDelta, SpeakSummary, CallModel, FinishAnswer, AnswerFails,
      AnswerEffects
  <2>2. QED
    BY <1>2, <1>3, <2>1, AnswerTaskMoves DEF DrainInv, Finished
<1>4. CASE TakeItem
  BY <1>2, <1>4 DEF TakeItem, DrainInv
<1>5. CASE WaitOn \/ NavigationTask \/ Disconnect \/ UNCHANGED vars
  <2>1. UNCHANGED <<server, said, queue, held, answer>>
    BY <1>5 DEF WaitOn, NavigationTask, Navigate, Disconnect, vars, chatVars
  <2>2. QED
    BY <1>2, <2>1 DEF DrainInv
<1>6. CASE CancelTask
  BY <1>2, <1>6 DEF CancelTask, DrainInv, Finished
<1>7. QED
  BY <1>1, <1>3, <1>4, <1>5, <1>6 DEF Next

\* What an attempt has streamed, and what it leaves when it ends.
Heard(c) == SubSeq(c.text.chars, 1, c.pos)

SpokenInv ==
  /\ ~call.open => call.pos = 0
  /\ (call.spoken <=> call.pos > 0)
  /\ call.pos <= Len(call.text.chars)
  /\ call.open => call.text \in Text
  /\ call.streamed => call.stage = "value"

LEMMA AttemptFields ==
  ASSUME NEW c \in Call
  PROVE  /\ ~NextAttempt(c).open /\ NextAttempt(c).pos = 0 /\ ~NextAttempt(c).spoken
         /\ NextAttempt(c).text = c.text /\ NextAttempt(c).streamed = c.streamed
         /\ NextAttempt(c).broken <=> c.broken \/ c.spoken
  BY DEF NextAttempt, Closed, Call

LEMMA AnsweredFields ==
  ASSUME NEW c \in Call, NEW w
  PROVE  /\ ~Answered(c, w).open /\ Answered(c, w).pos = 0 /\ ~Answered(c, w).spoken
         /\ Answered(c, w).text = w
         /\ Answered(c, w).streamed <=> c.spoken /\ w.form # "garbage"
         /\ Answered(c, w).broken <=> c.broken \/ (c.spoken /\ w.form = "garbage")
         /\ w.form # "garbage" => Answered(c, w).stage = "value"
  BY DEF Answered, Closed, Call

LEMMA NothingHeard == \A s \in Seq(STRING) : SubSeq(s, 1, 0) = << >>
  OBVIOUS

LEMMA SpokenInit == Init => SpokenInv
  BY DEF Init, CallInit, NewCall, NoText, SpokenInv

\* A step of the call that streams no output goes on where it was, with nothing heard
\* unless it is, or makes the whole of what was heard the answer.
LEMMA CallGoesOn ==
  ASSUME RequestInv, SpokenInv, CallModel \/ SpeakSummary
  PROVE  /\ SpokenInv'
         /\ ~call'.broken => ~call.broken /\ ~call.streamed
         /\ ~call'.broken /\ ~call'.streamed => Heard(call') = Heard(call)
         /\ ~call'.broken /\ call'.streamed /\ call'.text.form = "answer" =>
              /\ call'.text = call.text /\ call.text \in Text
              /\ Heard(call) = SubSeq(call.text.chars, 1, Len(call.text.chars))
<1>1. call \in Call /\ (call.open => call.stage = "stream") /\ Requests(call) \in Call
  BY DEF RequestInv, Counted, Requests, Call
<1>2. \A t \in Text : Len(t.chars) \in Nat
  BY TextIsWritten DEF Written
<1>3. Len(call.text.chars) \in Nat /\ call.pos \in Nat
  BY <1>1 DEF Call, Written
<1>4. call.stage # "value" => ~call.streamed
  BY DEF SpokenInv
<1>5. /\ SubSeq(call.text.chars, 1, 0) = << >>
      /\ \A t \in Text : SubSeq(t.chars, 1, 0) = << >>
  <2>1. call.text.chars \in Seq(STRING) /\ \A t \in Text : t.chars \in Seq(STRING)
    BY <1>1, TextIsWritten DEF Call, Written
  <2>2. QED
    BY <2>1, NothingHeard
<1>6. /\ Requests(call).broken = call.broken /\ Requests(call).spoken = call.spoken
      /\ Requests(call).text = call.text /\ Requests(call).streamed = call.streamed
      /\ Requests(call).pos = call.pos
  BY <1>1 DEF Requests, Call
<1> USE DEF SpokenInv, Heard
<1>7. CASE StartCall
  <2>1. /\ call'.open = call.open /\ call'.pos = call.pos /\ call'.spoken = call.spoken
        /\ call'.text = call.text /\ call'.streamed = call.streamed
        /\ call'.broken = call.broken /\ call.stage # "value"
    BY <1>1, <1>7 DEF StartCall, Call
  <2>2. QED
    BY <1>4, <2>1
<1>8. CASE RequestFails
  <2>1. ~call.open /\ call' = NextAttempt(Requests(call)) /\ call.stage # "value"
    BY <1>8 DEF RequestFails
  <2>2. /\ ~call'.open /\ call'.pos = 0 /\ ~call'.spoken /\ call'.text = call.text
        /\ call'.streamed = call.streamed
        /\ call'.broken <=> (call.broken \/ call.spoken)
    <3>1. PICK d \in Call : d = Requests(call)
      BY <1>1
    <3>2. call' = NextAttempt(d)
      BY <2>1, <3>1
    <3>3. QED
      BY <1>6, <3>1, <3>2, AttemptFields
  <2>3. QED
    BY <1>3, <1>4, <1>5, <2>1, <2>2
<1>9. CASE \E t \in Text : RequestAnswers(t)
  <2>1. PICK t \in Text : RequestAnswers(t)
    BY <1>9
  <2>2. ~call.open /\ call' = Answered(Requests(call), t) /\ call.stage # "value"
    BY <2>1 DEF RequestAnswers
  <2>3. /\ ~call'.open /\ call'.pos = 0 /\ ~call'.spoken /\ call'.text = t
        /\ call'.streamed <=> (call.spoken /\ t.form # "garbage")
        /\ call'.broken <=> (call.broken \/ (call.spoken /\ t.form = "garbage"))
    <3>1. PICK d \in Call : d = Requests(call)
      BY <1>1
    <3>2. call' = Answered(d, t)
      BY <2>2, <3>1
    <3>3. QED
      BY <1>6, <3>1, <3>2, AnsweredFields
  <2>4. call.pos = 0 /\ ~call.spoken
    BY <2>2
  <2>5. QED
    BY <1>2, <1>4, <1>5, <2>2, <2>3, <2>4
<1>10. CASE \E t \in Text : StreamOpens(t)
  <2>1. PICK t \in Text : StreamOpens(t)
    BY <1>10
  <2>2. ~call.open /\ call.stage # "value"
        /\ call' = [Requests(call) EXCEPT !.open = TRUE, !.text = t]
    BY <2>1 DEF StreamOpens
  <2>3. /\ call'.open /\ call'.pos = call.pos /\ call'.spoken = call.spoken /\ call'.text = t
        /\ call'.streamed = call.streamed /\ call'.broken = call.broken
    BY <1>1, <2>2 DEF Requests, Call
  <2>4. call.pos = 0
    BY <2>2
  <2>5. QED
    BY <1>2, <1>4, <1>5, <2>2, <2>3, <2>4
<1>11. CASE SpeakSummary
  <2>1. call.open /\ call.stage # "value" /\ call' = [call EXCEPT !.summaries = @ + 1]
    BY <1>1, <1>11 DEF SpeakSummary, StreamSummary
  <2>2. /\ call'.open = call.open /\ call'.pos = call.pos /\ call'.spoken = call.spoken
        /\ call'.text = call.text /\ call'.streamed = call.streamed
        /\ call'.broken = call.broken
    BY <1>1, <2>1 DEF Call
  <2>3. QED
    BY <1>4, <2>1, <2>2
<1>12. CASE StreamBreaks
  <2>1. call.open /\ call' = NextAttempt(call) /\ call.stage # "value"
    BY <1>1, <1>12 DEF StreamBreaks
  <2>2. /\ ~call'.open /\ call'.pos = 0 /\ ~call'.spoken /\ call'.text = call.text
        /\ call'.streamed = call.streamed
        /\ call'.broken <=> (call.broken \/ call.spoken)
    BY <1>1, <2>1, AttemptFields
  <2>3. QED
    BY <1>3, <1>4, <1>5, <2>1, <2>2
<1>13. CASE StreamEnds
  <2> DEFINE w == IF call.pos = Len(call.text.chars) THEN call.text
                  ELSE [call.text EXCEPT !.form = "garbage"]
  <2>1. call.open /\ call.pos > 0 /\ call' = Answered(call, w) /\ call.stage # "value"
    BY <1>1, <1>13 DEF StreamEnds
  <2>2. /\ w.form # "garbage" => w = call.text /\ call.pos = Len(call.text.chars)
        /\ Len(w.chars) \in Nat
    BY <1>1, <1>3 DEF Call, Written
  <2> HIDE DEF w
  <2>3. /\ ~call'.open /\ call'.pos = 0 /\ ~call'.spoken /\ call'.text = w
        /\ call'.streamed <=> (call.spoken /\ w.form # "garbage")
        /\ call'.broken <=> (call.broken \/ (call.spoken /\ w.form = "garbage"))
        /\ w.form # "garbage" => call'.stage = "value"
    <3>1. PICK d \in Call : d = call
      BY <1>1
    <3>2. call' = Answered(d, w)
      BY <2>1, <3>1
    <3>3. QED
      BY <3>1, <3>2, AnsweredFields
  <2>4. call.spoken /\ call.text \in Text
    BY <2>1
  <2>5. QED
    BY <1>4, <2>1, <2>2, <2>3, <2>4
<1>14. CASE StreamCompletes
  <2>1. call.open /\ call.pos = 0 /\ call' = Answered(call, call.text) /\ call.stage # "value"
    BY <1>1, <1>14 DEF StreamCompletes
  <2>2. /\ ~call'.open /\ call'.pos = 0 /\ ~call'.spoken /\ call'.text = call.text
        /\ call'.streamed <=> (call.spoken /\ call.text.form # "garbage")
        /\ call'.broken <=> (call.broken \/ (call.spoken /\ call.text.form = "garbage"))
    <3>1. PICK d \in Call : d = call
      BY <1>1
    <3>2. call' = Answered(d, call.text)
      BY <2>1, <3>1
    <3>3. QED
      BY <3>1, <3>2, AnsweredFields
  <2>3. ~call.spoken
    BY <2>1
  <2>4. QED
    BY <1>3, <1>4, <1>5, <2>1, <2>2, <2>3
<1>15. QED
  BY <1>7, <1>8, <1>9, <1>10, <1>11, <1>12, <1>13, <1>14 DEF CallModel

\* The text streamed, the items that wait in q and what is kept is out.
Reaches(q, kept, out) == \E e \in Characters : Flows(text, held \o q, e) /\ out = e \o kept
OnItsWay(out) == Reaches(queue, publisher.pending, out)

\* As long as no attempt broke off after its first output, what the attempt has streamed
\* is on its way; and when the attempt became the answer, the answer is.
TextInv ==
  /\ answer = "done" => /\ call.stage = "value" /\ call.text.form = "answer"
                        /\ publisher.pending = << >>
  /\ ~call.broken /\ ~call.streamed =>
       publisher.field = Reset(Whole(Heard(call))) /\ OnItsWay(Whole(Heard(call)).out)
  /\ ~call.broken /\ call.streamed /\ call.text.form = "answer" => OnItsWay(call.text.markdown)

\* A decoder that has read nothing.
LEMMA NothingWhole == Whole(<< >>) = NewField /\ Reset(NewField) = NewField /\ NewField.out = << >>
<1>1. << >> \in Characters /\ << >> \o << >> = << >>
  BY DEF Characters
<1>2. KeyEnds(<< >>) = {} /\ KeyTail(<< >>) = << >>
  BY <1>1, KeyTailIs DEF KeyEnds, Needle
<1>3. Whole(<< >>) = [NewField EXCEPT !.tail = << >>]
  BY <1>1, <1>2, WholeIs
<1>4. QED
  BY <1>3 DEF NewField, Reset

LEMMA TextInit == Init => TextInv
<1> SUFFICES ASSUME Init PROVE TextInv
  OBVIOUS
<1>1. Heard(call) = << >> /\ ~call.streamed
  BY NothingHeard DEF Init, CallInit, NewCall, NoText, Heard
<1>2. publisher.field = NewField /\ publisher.pending = << >> /\ text = << >>
      /\ held \o queue = << >>
  BY DEF Init, NewPublisher
<1>3. OnItsWay(<< >>)
  <2>1. << >> \in Characters /\ << >> \o << >> = << >>
    BY DEF Characters
  <2>2. Flows(<< >>, << >>, << >>)
    BY <2>1, FlowEmpty
  <2>3. QED
    BY <1>2, <2>1, <2>2 DEF OnItsWay, Reaches
<1>4. answer # "done"
  BY DEF Init
<1>5. QED
  BY <1>1, <1>2, <1>3, <1>4, NothingWhole DEF TextInv

LEMMA WayTyped ==
  ASSUME StreamInv
  PROVE  /\ text \in Characters /\ publisher.pending \in Characters
         /\ held \o queue \in Seq(Item)
  BY DEF StreamInv, Publisher

\* The generator and the read of the queue move the text along.
LEMMA GeneratorKeepsWay ==
  ASSUME StreamInv, DrainInv, Generator \/ TakeItem, NEW out, OnItsWay(out)
  PROVE  OnItsWay(out)'
<1>1. PICK e \in Characters : Flows(text, held \o queue, e) /\ out = e \o publisher.pending
  BY DEF OnItsWay, Reaches
<1>2. publisher' = publisher
  BY DEF TakeItem, Generator, AnswerSmallTalk, OpenSession, StartNavigation, SeeNavigation,
    EndSmallTalk, StartAnswer, PassItem, SeeAnswer, DrainItem, Drained, ReportFinding, Complete,
    ReportError, Raises, CloseSession, Unwind, CloseUnwound
<1>3. SUFFICES Flows(text', (held \o queue)', e)
  BY <1>1, <1>2 DEF OnItsWay, Reaches
<1>4. held \in Seq(Item) /\ queue \in Seq(Item)
  BY DEF StreamInv
<1>5. CASE TakeItem
  <2>1. held' \o queue' = held \o queue /\ text' = text
    BY <1>4, <1>5 DEF TakeItem
  <2>2. QED
    BY <1>1, <2>1
<1>6. CASE PassItem
  <2>1. Len(held) = 1
    BY <1>6 DEF PassItem, DrainInv
  <2>2. Head(held \o queue) = held[1] /\ Tail(held \o queue) = queue /\ held \o queue # << >>
    <3> DEFINE s == held \o queue
    <3>1. s \in Seq(Item) /\ Len(s) = 1 + Len(queue) /\ s[1] = held[1]
      <4>1. Len(s) = Len(held) + Len(queue) /\ s \in Seq(Item)
        BY <1>4
      <4>2. 1 \in 1..(Len(held) + Len(queue)) /\ 1 <= Len(held) /\ Len(queue) \in Nat
        BY <1>4, <2>1
      <4>3. s[1] = held[1]
        BY <1>4, <4>2, ConcatProperties
      <4>4. QED
        BY <2>1, <4>1, <4>3
    <3>a. ASSUME NEW i \in 1..Len(queue) PROVE s[i + 1] = queue[i]
      <4>1. i + 1 \in 1..(Len(held) + Len(queue)) /\ i + 1 > Len(held) /\ (i + 1) - Len(held) = i
        BY <1>4, <2>1
      <4>2. s[i + 1] = queue[(i + 1) - Len(held)]
        BY <1>4, <4>1, ConcatProperties
      <4>3. QED
        BY <4>1, <4>2
    <3> HIDE DEF s
    <3>2. s # << >> /\ Head(s) = held[1]
      BY <1>4, <3>1
    <3>3. Tail(s) \in Seq(Item) /\ Len(Tail(s)) = Len(queue)
          /\ \A i \in 1..Len(queue) : Tail(s)[i] = queue[i]
      BY <1>4, <3>1, <3>a, <3>2, HeadTailProperties
    <3>4. Tail(s) = queue
      BY <1>4, <3>3
    <3>5. QED
      BY <3>2, <3>4 DEF s
  <2>3. text' = text \o held[1].text /\ held' \o queue' = queue
    BY <1>4, <1>6 DEF PassItem
  <2>4. QED
    BY <1>1, <2>2, <2>3, WayTyped, FlowTake
<1>7. CASE DrainItem
  <2>1. held = << >> /\ held' = held /\ queue # << >> /\ queue' = Tail(queue)
        /\ text' = text \o Head(queue).text
    BY <1>7 DEF DrainItem, DrainInv
  <2>2. held \o queue = queue /\ held' \o queue' = Tail(queue)
    BY <1>4, <2>1
  <2>3. QED
    BY <1>1, <1>4, <2>1, <2>2, WayTyped, FlowTake
<1>8. CASE ~(TakeItem \/ PassItem \/ DrainItem)
  <2>1. UNCHANGED <<queue, held, text>>
    BY <1>8 DEF Generator, AnswerSmallTalk, OpenSession, StartNavigation, SeeNavigation,
      EndSmallTalk, StartAnswer, SeeAnswer, Drained, ReportFinding, Complete, ReportError, Raises,
      CloseSession, Unwind, CloseUnwound
  <2>2. QED
    BY <1>1, <2>1
<1>9. QED
  BY <1>5, <1>6, <1>7, <1>8

\* Items put together.
LEMMA ItemsJoined ==
  ASSUME NEW h \in Seq(Item), NEW u \in Seq(Item)
  PROVE  h \o u \in Seq(Item)
  OBVIOUS
LEMMA ItemsJoinedAny ==
  ASSUME NEW h \in Seq(Item), NEW u \in Seq(Item), NEW v \in Seq(Item)
  PROVE  h \o (u \o v) = (h \o u) \o v
  OBVIOUS

\* What is put into the queue or kept by the publisher goes on its way behind the rest.
LEMMA WayPut ==
  ASSUME StreamInv, NEW out, OnItsWay(out), NEW t \in Characters, NEW x \in Characters,
         NEW p \in Characters, NEW more \in {Report, << >>}, t \o p = publisher.pending \o x
  PROVE  Reaches(queue \o (Delta(t) \o more), p, out \o x)
<1>1. PICK e \in Characters : Flows(text, held \o queue, e) /\ out = e \o publisher.pending
  BY DEF OnItsWay, Reaches
<1> DEFINE q == held \o queue
<1>2. text \in Characters /\ publisher.pending \in Characters /\ q \in Seq(Item)
  BY WayTyped
<1>3. held \o (queue \o (Delta(t) \o more)) = (q \o Delta(t)) \o more
  <2>1. held \in Seq(Item) /\ queue \in Seq(Item)
    BY DEF StreamInv
  <2>2. Delta(t) \in Seq(Item) /\ Report \in Seq(Item) /\ << >> \in Seq(Item)
    BY DeltaTyped
  <2>3. more \in Seq(Item)
    BY <2>2
  <2>4. QED
    <3>1. Delta(t) \o more \in Seq(Item)
      BY <2>2, <2>3, ItemsJoined
    <3>2. held \o (queue \o (Delta(t) \o more)) = (held \o queue) \o (Delta(t) \o more)
      BY <2>1, <3>1, ItemsJoinedAny
    <3>3. q \o (Delta(t) \o more) = (q \o Delta(t)) \o more
      BY <1>2, <2>2, <2>3, ItemsJoinedAny
    <3>4. QED
      BY <3>2, <3>3
<1> HIDE DEF q
<1>4. Flows(text, q \o Delta(t), e \o t) /\ q \o Delta(t) \in Seq(Item) /\ e \o t \in Characters
  BY <1>1, <1>2, FlowPut, Joined DEF q
<1>5. Flows(text, (q \o Delta(t)) \o more, e \o t)
  <2>1. CASE more = Report
    BY <1>2, <1>4, <2>1, FlowPut
  <2>2. CASE more = << >>
    <3>1. (q \o Delta(t)) \o << >> = q \o Delta(t)
      BY <1>4
    <3>2. QED
      BY <1>4, <2>2, <3>1
  <2>3. QED
    BY <2>1, <2>2
<1>6. out \o x = (e \o t) \o p
  <2>1. PICK kept \in Characters : kept = publisher.pending
    BY <1>2
  <2>2. (e \o kept) \o x = e \o (kept \o x) /\ (e \o t) \o p = e \o (t \o p)
    BY JoinedAny
  <2>3. QED
    BY <1>1, <2>1, <2>2
<1>7. QED
  BY <1>3, <1>4, <1>5, <1>6 DEF Reaches

\* A text cut in two.
LEMMA CutInTwo ==
  ASSUME NEW s \in Seq(STRING), NEW m \in Nat, NEW n \in Nat, m + n <= Len(s)
  PROVE  /\ SubSeq(s, 1, m) \in Characters /\ SubSeq(s, m + 1, m + n) \in Characters
         /\ SubSeq(s, 1, m + n) = SubSeq(s, 1, m) \o SubSeq(s, m + 1, m + n)
<1>1. s \in Characters
  BY DEF Characters, Character
<1> DEFINE a == SubSeq(s, 1, m)
           b == SubSeq(s, m + 1, m + n)
           w == SubSeq(s, 1, m + n)
<1>2. a \in Characters /\ b \in Characters /\ w \in Characters
  <2>1. s \in Seq(Character) /\ m <= Len(s) /\ m + n <= Len(s) /\ m + n \in Nat
        /\ m + 1 \in Nat \ {0} /\ 1 \in Nat \ {0}
    BY <1>1 DEF Characters
  <2>2. QED
    BY <2>1, SubSeqTyped DEF Characters
<1>3. Len(a) = m /\ Len(b) = n /\ Len(w) = m + n
  OBVIOUS
<1>4. /\ \A i \in 1..m : a[i] = s[i]
      /\ \A i \in 1..n : b[i] = s[m + i]
      /\ \A i \in 1..(m + n) : w[i] = s[i]
  OBVIOUS
<1> HIDE DEF a, b, w
<1>5. /\ a \o b \in Characters /\ Len(a \o b) = m + n
      /\ \A i \in 1..m : (a \o b)[i] = a[i]
      /\ \A i \in 1..n : (a \o b)[m + i] = b[i]
  <2>1. a \in Seq(Character) /\ b \in Seq(Character)
    BY <1>2 DEF Characters
  <2>2. a \o b \in Seq(Character) /\ Len(a \o b) = m + n
    BY <1>3, <2>1
  <2>3. \A i \in 1..m : (a \o b)[i] = a[i]
    BY <1>3, <2>1
  <2>4. ASSUME NEW i \in 1..n PROVE (a \o b)[m + i] = b[i]
    BY <1>3, <2>1
  <2>5. QED
    BY <2>2, <2>3, <2>4 DEF Characters
<1>6. ASSUME NEW i \in 1..(m + n) PROVE w[i] = (a \o b)[i]
  <2>1. CASE i \in 1..m
    BY <1>4, <1>5, <2>1
  <2>2. CASE i \notin 1..m
    <3>1. PICK j \in 1..n : m + j = i
      <4>1. i - m \in 1..n /\ m + (i - m) = i
        BY <2>2
      <4>2. QED
        BY <4>1
    <3>2. (a \o b)[m + j] = b[j] /\ b[j] = s[m + j] /\ w[m + j] = s[m + j]
      BY <1>4, <1>5, <3>1
    <3>3. QED
      BY <3>1, <3>2
  <2>3. QED
    BY <2>1, <2>2
<1>7. w = a \o b
  BY <1>2, <1>3, <1>5, <1>6, SameSequence
<1>8. QED
  BY <1>2, <1>7 DEF a, b, w

\* What is heard after a piece is what was heard before and the piece.
LEMMA HeardMore ==
  ASSUME RequestInv, SpokenInv, NEW n \in Piece, StreamDelta(n)
  PROVE  /\ Heard(call) \in Characters /\ Chunk(n) \in Characters
         /\ Heard(call') = Heard(call) \o Chunk(n)
<1>1. call \in Call /\ n \in Nat
  BY ModelCallConstants DEF RequestInv, Counted
<1>2. PICK s \in Seq(STRING), m \in Nat : s = call.text.chars /\ m = call.pos
  BY <1>1 DEF Call, Written
<1>3. m + n <= Len(s) /\ call'.pos = m + n /\ call'.text = call.text
  BY <1>1, <1>2 DEF StreamDelta, Call
<1>4. Heard(call) = SubSeq(s, 1, m) /\ Chunk(n) = SubSeq(s, m + 1, m + n)
      /\ Heard(call') = SubSeq(s, 1, m + n)
  BY <1>2, <1>3 DEF Heard, Chunk
<1>5. /\ SubSeq(s, 1, m) \in Characters /\ SubSeq(s, m + 1, m + n) \in Characters
      /\ SubSeq(s, 1, m + n) = SubSeq(s, 1, m) \o SubSeq(s, m + 1, m + n)
  BY <1>1, <1>3, CutInTwo
<1>6. QED
  BY <1>4, <1>5

\* A piece of output: what it decodes to goes on its way behind what was heard.
LEMMA DeltaKeepsText ==
  ASSUME RequestInv, StreamInv, SpokenInv, TextInv, NEW n \in Piece, SpeakDelta(n)
  PROVE  SpokenInv' /\ TextInv'
<1>1. call \in Call /\ n \in Nat \ {0} /\ StreamDelta(n) /\ answer = "running" /\ answer' = answer
      /\ UNCHANGED <<text, held>>
  BY ModelCallConstants DEF RequestInv, Counted, SpeakDelta, AnswerEffects
<1>2. /\ call.open /\ call'.open = call.open /\ call'.pos = call.pos + n /\ call'.spoken
      /\ call'.text = call.text /\ call'.streamed = call.streamed
      /\ call'.broken = call.broken /\ call'.stage = call.stage /\ call.pos \in Nat
      /\ call.pos + n <= Len(call.text.chars) /\ call.stage = "stream"
  BY <1>1 DEF StreamDelta, Call, RequestInv, Counted
<1>3. SpokenInv' /\ ~call.streamed
  <2>1. call.pos + n > 0
    BY <1>1, <1>2
  <2>2. QED
    BY <1>2, <2>1 DEF SpokenInv
<1> DEFINE c == Heard(call)
           d == Chunk(n)
           f == Feed(publisher.field, d)
           fed == FeedPublisher(publisher, d, FlushAt)
<1>4. c \in Characters /\ d \in Characters /\ Heard(call') = c \o d
  BY <1>1, HeardMore
<1>5. ASSUME ~call.broken
      PROVE  /\ publisher'.field = Reset(Whole(c \o d))
             /\ Reaches(queue', publisher'.pending, Whole(c \o d).out)
  <2>1. publisher.field = Reset(Whole(c)) /\ OnItsWay(Whole(c).out)
    BY <1>3, <1>5 DEF TextInv
  <2>2. /\ f.out \in Characters /\ Whole(c).out \in Characters
        /\ Whole(c \o d).out = Whole(c).out \o f.out /\ Reset(f) = Reset(Whole(c \o d))
    <3>1. f = Feed(Reset(Whole(c)), d)
      BY <2>1
    <3> HIDE DEF c, d, f
    <3>2. QED
      BY <1>4, <3>1, FeedJoins
  <2>3. /\ fed.publisher.field = Reset(f) /\ fed.publisher \in Publisher /\ fed.text \in Characters
        /\ fed.text \o fed.publisher.pending = publisher.pending \o f.out
    BY <1>4, PublisherKeeps, FeedPublisherTyped DEF StreamInv
  <2>4. PICK more \in {Report, << >>} : queue' = queue \o (Delta(fed.text) \o more)
    BY DEF SpeakDelta, Put
  <2>5. publisher' = fed.publisher
    BY DEF SpeakDelta
  <2> HIDE DEF c, d, f, fed
  <2>6. fed.publisher.pending \in Characters
    BY <2>3 DEF Publisher
  <2>7. Reaches(queue', fed.publisher.pending, Whole(c).out \o f.out)
    <3>1. PICK t \in Characters, x \in Characters, p \in Characters :
            t = fed.text /\ x = f.out /\ p = fed.publisher.pending
      BY <2>2, <2>3, <2>6
    <3>2. /\ queue' = queue \o (Delta(t) \o more) /\ publisher'.pending = p
          /\ t \o p = publisher.pending \o x
      BY <2>3, <2>4, <2>5, <3>1
    <3>3. Reaches(queue \o (Delta(t) \o more), p, Whole(c).out \o x)
      BY <2>1, <3>2, WayPut
    <3>4. QED
      BY <3>1, <3>2, <3>3
  <2>8. QED
    BY <2>2, <2>3, <2>5, <2>7
<1> HIDE DEF c, d, f, fed
<1>6. ASSUME ~call'.broken
      PROVE  publisher'.field = Reset(Whole(Heard(call'))) /\ OnItsWay(Whole(Heard(call)).out)'
  <2>1. /\ publisher'.field = Reset(Whole(Heard(call')))
        /\ Reaches(queue', publisher'.pending, Whole(Heard(call')).out)
    BY <1>2, <1>4, <1>5, <1>6
  <2>2. QED
    <3>1. Heard(call)' = Heard(call')
      BY DEF Heard
    <3>2. QED
      BY <1>1, <2>1, <3>1 DEF OnItsWay, Reaches
<1>7. Heard(call)' = Heard(call')
  BY DEF Heard
<1>8. QED
  BY <1>1, <1>2, <1>3, <1>6, <1>7 DEF TextInv

\* At the end the rest goes on its way, and nothing is kept.
LEMMA FinishKeepsText ==
  ASSUME StreamInv, TextInv, FinishAnswer
  PROVE  TextInv'
<1>1. /\ UNCHANGED <<call, text, held>> /\ call.stage = "value"
      /\ queue' = queue \o Delta(publisher.pending) /\ publisher' = Published(publisher)
      /\ answer' = "done" => call.text.form = "answer"
  BY DEF FinishAnswer, callVars, AnswerEffects, Put
<1>2. publisher'.field = publisher.field /\ publisher'.pending = << >>
  BY <1>1 DEF Published, StreamInv, Publisher
<1>3. ASSUME NEW out, OnItsWay(out) PROVE OnItsWay(out)'
  <2>1. PICK e \in Characters : Flows(text, held \o queue, e) /\ out = e \o publisher.pending
    BY <1>3 DEF OnItsWay, Reaches
  <2>2. PICK t \in Characters : t = publisher.pending
    BY WayTyped
  <2>3. Flows(text, (held \o queue) \o Delta(t), e \o t) /\ e \o t \in Characters
    BY <2>1, WayTyped, FlowPut, Joined
  <2>4. held \o (queue \o Delta(t)) = (held \o queue) \o Delta(t)
    BY DeltaTyped, ItemsJoinedAny DEF StreamInv
  <2>5. (e \o t) \o << >> = e \o t
    BY <2>3 DEF Characters
  <2>6. QED
    BY <1>1, <1>2, <2>1, <2>2, <2>3, <2>4, <2>5 DEF OnItsWay, Reaches
<1>4. QED
  BY <1>1, <1>2, <1>3 DEF TextInv

\* The call goes on: nothing new is heard, or what was heard is the answer.
LEMMA CallKeepsText ==
  ASSUME ReadAtOnce, RequestInv, StreamInv, SpokenInv, TextInv, CallModel \/ SpeakSummary
  PROVE  SpokenInv' /\ TextInv'
<1>1. /\ SpokenInv'
      /\ ~call'.broken => ~call.broken /\ ~call.streamed
      /\ ~call'.broken /\ ~call'.streamed => Heard(call') = Heard(call)
      /\ ~call'.broken /\ call'.streamed /\ call'.text.form = "answer" =>
           /\ call'.text = call.text /\ call.text \in Text
           /\ Heard(call) = SubSeq(call.text.chars, 1, Len(call.text.chars))
  BY CallGoesOn
<1>2. /\ UNCHANGED <<text, held, publisher, answer>> /\ answer = "running"
      /\ queue' = queue \/ queue' = queue \o Report
  BY DEF CallModel, SpeakSummary, AnswerEffects, Put
<1>3. ASSUME NEW out, OnItsWay(out) PROVE OnItsWay(out)'
  <2>1. PICK e \in Characters : Flows(text, held \o queue, e) /\ out = e \o publisher.pending
    BY <1>3 DEF OnItsWay, Reaches
  <2>2. Flows(text, (held \o queue) \o Report, e)
    BY <2>1, WayTyped, FlowPut
  <2>3. held \o (queue \o Report) = (held \o queue) \o Report
    BY DeltaTyped, ItemsJoinedAny DEF StreamInv
  <2>4. QED
    BY <1>2, <2>1, <2>2, <2>3 DEF OnItsWay, Reaches
<1>4. ASSUME call.text \in Text, call.text.form = "answer",
             Heard(call) = SubSeq(call.text.chars, 1, Len(call.text.chars))
      PROVE  Whole(Heard(call)).out = call.text.markdown
  <2>1. call.text.chars \in Seq(STRING)
    BY <1>4, TextIsWritten DEF Written
  <2>2. Heard(call) = call.text.chars
    BY <1>4, <2>1
  <2>3. QED
    BY <1>4, <2>2 DEF ReadAtOnce, Whole
<1>5. ~call'.broken /\ ~call'.streamed =>
        publisher'.field = Reset(Whole(Heard(call'))) /\ OnItsWay(Whole(Heard(call)).out)'
  <2>1. SUFFICES ASSUME ~call'.broken, ~call'.streamed
                 PROVE  publisher'.field = Reset(Whole(Heard(call')))
                        /\ OnItsWay(Whole(Heard(call)).out)'
    OBVIOUS
  <2>2. PICK h : h = Heard(call)
    OBVIOUS
  <2>3. publisher.field = Reset(Whole(h)) /\ OnItsWay(Whole(h).out) /\ Heard(call') = h
    BY <1>1, <2>1, <2>2 DEF TextInv
  <2>4. OnItsWay(Whole(h).out)'
    BY <1>3, <2>3
  <2>5. Heard(call)' = h
    BY <2>3 DEF Heard
  <2>6. OnItsWay(Whole(Heard(call)).out)'
    BY <2>4, <2>5 DEF OnItsWay, Reaches
  <2>7. QED
    BY <1>2, <2>3, <2>6
<1>6. ~call'.broken /\ call'.streamed /\ call'.text.form = "answer"
        => OnItsWay(call.text.markdown)'
  <2>1. SUFFICES ASSUME ~call'.broken, call'.streamed, call'.text.form = "answer"
                 PROVE  OnItsWay(call.text.markdown)'
    OBVIOUS
  <2>2. PICK m : m = call.text.markdown
    OBVIOUS
  <2>3. OnItsWay(m) /\ call'.text.markdown = m
    BY <1>1, <1>4, <2>1, <2>2 DEF TextInv
  <2>4. OnItsWay(m)'
    BY <1>3, <2>3
  <2>5. QED
    BY <2>3, <2>4 DEF OnItsWay, Reaches
<1>7. Heard(call)' = Heard(call')
  BY DEF Heard
<1>8. QED
  BY <1>1, <1>2, <1>5, <1>6, <1>7 DEF TextInv

\* The inductive invariant.
AllInv == RequestInv /\ StreamInv /\ StageInv /\ DrainInv /\ SpokenInv /\ TextInv

\* Every step keeps the text on its way.
LEMMA StepKeepsText ==
  ASSUME ReadAtOnce, AllInv, [Next]_vars
  PROVE  SpokenInv' /\ TextInv'
<1> USE DEF AllInv
<1>1. ASSUME UNCHANGED <<call, publisher>>, answer' = "done" => answer = "done",
             \A out : OnItsWay(out) => OnItsWay(out)'
      PROVE  SpokenInv' /\ TextInv'
  <2>1. Heard(call)' = Heard(call)
    BY <1>1 DEF Heard
  <2>2. SpokenInv'
    BY <1>1 DEF SpokenInv
  <2>3. PICK h, m : h = Heard(call) /\ m = call.text.markdown
    OBVIOUS
  <2>4. OnItsWay(Whole(h).out) => OnItsWay(Whole(h).out)'
    BY <1>1
  <2>5. OnItsWay(m) => OnItsWay(m)'
    BY <1>1
  <2>6. OnItsWay(Whole(Heard(call)).out) => OnItsWay(Whole(Heard(call)).out)'
    BY <2>1, <2>3, <2>4 DEF OnItsWay, Reaches
  <2>7. OnItsWay(call.text.markdown) => OnItsWay(call.text.markdown)'
    BY <1>1, <2>3, <2>5 DEF OnItsWay, Reaches
  <2>8. QED
    BY <1>1, <2>1, <2>2, <2>6, <2>7 DEF TextInv
<1>2. CASE Generator \/ TakeItem
  <2>1. UNCHANGED <<call, publisher>> /\ (answer' = "done" => answer = "done")
    BY <1>2 DEF TakeItem, Generator, AnswerSmallTalk, OpenSession, StartNavigation, SeeNavigation,
      EndSmallTalk, StartAnswer, PassItem, SeeAnswer, DrainItem, Drained, ReportFinding, Complete,
      ReportError, Raises, CloseSession, Unwind, Cancelled, CloseUnwound, callVars
  <2>2. ASSUME NEW out, OnItsWay(out) PROVE OnItsWay(out)'
    BY <1>2, <2>2, GeneratorKeepsWay
  <2>3. QED
    BY <1>1, <2>1, <2>2
<1>3. CASE WaitOn \/ NavigationTask \/ CancelTask \/ Disconnect \/ UNCHANGED vars
  <2>1. /\ UNCHANGED <<call, publisher, text, held, queue>>
        /\ answer' = "done" => answer = "done"
    BY <1>3 DEF WaitOn, NavigationTask, Navigate, CancelTask, Disconnect, vars, chatVars, callVars
  <2>2. ASSUME NEW out, OnItsWay(out) PROVE OnItsWay(out)'
    BY <2>1, <2>2 DEF OnItsWay, Reaches
  <2>3. QED
    BY <1>1, <2>1, <2>2
<1>4. CASE \E n \in Piece : SpeakDelta(n)
  BY <1>4, DeltaKeepsText
<1>5. CASE CallModel \/ SpeakSummary
  BY <1>5, CallKeepsText
<1>6. CASE FinishAnswer
  <2>1. SpokenInv'
    BY <1>6 DEF FinishAnswer, callVars, SpokenInv
  <2>2. QED
    BY <1>6, <2>1, FinishKeepsText
<1>7. CASE AnswerFails
  <2>1. /\ UNCHANGED <<call, publisher, text, held, queue>>
        /\ answer' = "done" => answer = "done"
    BY <1>7 DEF AnswerFails, callVars, AnswerEffects
  <2>2. ASSUME NEW out, OnItsWay(out) PROVE OnItsWay(out)'
    BY <2>1, <2>2 DEF OnItsWay, Reaches
  <2>3. QED
    BY <1>1, <2>1, <2>2
<1>8. QED
  BY <1>2, <1>3, <1>4, <1>5, <1>6, <1>7 DEF Next, AnswerTask

\* What is on its way has the text streamed so far as its beginning, and is the text when
\* nothing waits.
LEMMA WayEnds ==
  ASSUME StreamInv, NEW out, OnItsWay(out)
  PROVE  /\ \E x \in Characters : out = text \o x
         /\ queue = << >> /\ held = << >> /\ publisher.pending = << >> => out = text
<1>1. PICK e \in Characters : Flows(text, held \o queue, e) /\ out = e \o publisher.pending
  BY DEF OnItsWay, Reaches
<1>2. PICK x \in Characters : e = text \o x
  BY <1>1, WayTyped, FlowPrefix
<1>3. PICK p \in Characters : p = publisher.pending
  BY WayTyped
<1>4. (text \o x) \o p = text \o (x \o p) /\ x \o p \in Characters
  BY WayTyped, Joined, JoinedAny
<1>5. ASSUME queue = << >>, held = << >>, p = << >> PROVE out = text
  <2>1. held \o queue = << >>
    BY <1>5
  <2>2. e = text
    BY <1>1, <2>1, WayTyped, FlowEmpty
  <2>3. e \o << >> = e
    BY DEF Characters
  <2>4. QED
    BY <1>1, <1>3, <1>5, <2>2, <2>3
<1>6. QED
  BY <1>1, <1>2, <1>3, <1>4, <1>5

LEMMA BeginningIsPrefix ==
  ASSUME NEW a \in Characters, NEW b \in Characters
  PROVE  IsPrefix(a, a \o b)
<1>1. /\ Len(a \o b) = Len(a) + Len(b) /\ Len(a) \in Nat /\ Len(b) \in Nat
      /\ \A i \in 1..Len(a) : (a \o b)[i] = a[i]
  BY DEF Characters
<1>2. SubSeq(a, 1, Len(a)) = SubSeq(a \o b, 1, Len(a))
  BY <1>1
<1>3. QED
  BY <1>1, <1>2 DEF IsPrefix

\* The invariants say what the browser has.
LEMMA TextIsTheAnswer == ReadAtOnce /\ AllInv => StreamedTextIsTheAnswer
<1> SUFFICES ASSUME ReadAtOnce, AllInv, ~call.broken
             PROVE  /\ call.spoken /\ call.text.form = "answer" => IsPrefix(text, call.text.markdown)
                    /\ Said("completed") /\ answer = "done" =>
                         text = IF call.streamed THEN call.text.markdown ELSE << >>
  BY DEF StreamedTextIsTheAnswer
<1> USE DEF AllInv
<1>1. call \in Call /\ (call.open => call.stage = "stream")
  BY DEF RequestInv, Counted
<1>2. ASSUME call.spoken, call.text.form = "answer"
      PROVE  IsPrefix(text, call.text.markdown)
  <2>1. call.open /\ call.text \in Text /\ ~call.streamed /\ call.pos \in Nat
        /\ call.pos <= Len(call.text.chars)
    BY <1>1, <1>2 DEF SpokenInv, Call
  <2>2. PICK s \in Seq(STRING), m \in Nat : s = call.text.chars /\ m = call.pos /\ m <= Len(s)
    BY <1>1, <2>1 DEF Call, Written
  <2> DEFINE a == SubSeq(s, 1, m)
             b == SubSeq(s, m + 1, Len(s))
  <2>3. a \in Characters /\ b \in Characters /\ s = a \o b
    <3>1. PICK n \in Nat : n = Len(s) - m
      BY <2>2
    <3>2. SubSeq(s, 1, Len(s)) = s /\ m + n = Len(s) /\ m + n <= Len(s)
      BY <2>2, <3>1
    <3>3. /\ SubSeq(s, 1, m) \in Characters /\ SubSeq(s, m + 1, m + n) \in Characters
          /\ SubSeq(s, 1, m + n) = SubSeq(s, 1, m) \o SubSeq(s, m + 1, m + n)
      BY <3>2, CutInTwo
    <3>4. QED
      BY <3>2, <3>3
  <2>4. Heard(call) = a
    BY <2>2 DEF Heard
  <2>5. OnItsWay(Whole(a).out)
    BY <2>1, <2>4 DEF TextInv
  <2> HIDE DEF a, b
  <2>6. PICK y \in Characters : Whole(s).out = Whole(a).out \o y
    BY <2>3, FeedJoins
  <2>7. PICK x \in Characters : Whole(a).out = text \o x
    BY <2>5, WayEnds
  <2>8. call.text.markdown = Whole(s).out
    BY <1>2, <2>1, <2>2 DEF ReadAtOnce, Whole
  <2>9. call.text.markdown = text \o (x \o y) /\ x \o y \in Characters
    <3>1. PICK t \in Characters : t = text
      BY WayTyped
    <3>2. (t \o x) \o y = t \o (x \o y) /\ x \o y \in Characters
      BY Joined, JoinedAny
    <3>3. QED
      BY <2>6, <2>7, <2>8, <3>1, <3>2
  <2>10. QED
    BY <2>9, WayTyped, BeginningIsPrefix
<1>3. ASSUME Said("completed"), answer = "done"
      PROVE  text = IF call.streamed THEN call.text.markdown ELSE << >>
  <2>1. queue = << >> /\ held = << >> /\ publisher.pending = << >>
        /\ call.stage = "value" /\ call.text.form = "answer"
    BY <1>3 DEF DrainInv, TextInv
  <2>2. ASSUME NEW out, OnItsWay(out) PROVE out = text
    BY <2>1, <2>2, WayEnds
  <2>3. CASE call.streamed
    BY <2>1, <2>2, <2>3 DEF TextInv
  <2>4. CASE ~call.streamed
    <3>1. Heard(call) = << >>
      <4>1. call.pos = 0 /\ call.text.chars \in Seq(STRING)
        BY <1>1, <2>1 DEF SpokenInv, Call, Written
      <4>2. QED
        BY <4>1, NothingHeard DEF Heard
    <3>2. Whole(Heard(call)).out = << >>
      BY <3>1, NothingWhole
    <3>3. QED
      BY <2>2, <2>4, <3>2 DEF TextInv
  <2>5. QED
    BY <2>3, <2>4
<1>4. QED
  BY <1>2, <1>3

\* For texts whose answer is what they decode to when they are read at once: cut into pieces
\* of any length, decoded piece by piece, gathered by the publisher, queued, read with
\* cancelled gets and drained, they reach the browser whole, in order and once
\* (answer_generation.py:56-197, chat.py:233-331).
THEOREM StreamedTextIsTheAnswerHolds ==
  ASSUME ReadAtOnce
  PROVE  Spec => []StreamedTextIsTheAnswer
<1>1. Init => AllInv
  BY RequestInit, StreamInit, DrainInit, SpokenInit, TextInit DEF AllInv
<1>2. AllInv /\ [Next]_vars => AllInv'
  BY StepKeepsRequests, StepKeepsStages, StepKeepsDrain, StepKeepsText DEF AllInv
<1>3. AllInv => StreamedTextIsTheAnswer
  BY TextIsTheAnswer
<1>4. QED
  BY <1>1, <1>2, <1>3, PTL DEF Spec
=============================================================================

----------------------------- MODULE ChatStream -----------------------------
(***************************************************************************)
(* One question over POST /api/chat/stream: the generator                  *)
(* _completion_stream of routers/chat.py, the navigation task and the      *)
(* answer task it starts, the progress queue between the answer task and   *)
(* the generator, and a browser that may go away at any time.              *)
(*                                                                         *)
(* Tasks of one event loop interleave where the code awaits or yields.     *)
(* The answer task runs a model call (ModelCall) whose output deltas go    *)
(* through the publisher (AnswerField) into the queue.  The waiting events *)
(* that a timeout emits repeat at will and change nothing.                 *)
(***************************************************************************)
EXTENDS ModelCall, AnswerField

CONSTANTS
  FlushAt      \* characters the publisher gathers before it hands them on

VARIABLES
  publisher,   \* the answer task's _AnswerMarkdownPublisher
  queue,       \* progress_queue
  held,        \* what the pending progress_queue.get() has taken: <<>> or one item
  locate,      \* navigation_task
  answer,      \* answer_task
  server,      \* where the generator stands
  session,     \* its database session
  said,        \* the stages announced to the browser
  text,        \* the answer text streamed to the browser
  browser      \* whether the browser still listens

chatVars == <<publisher, queue, held, locate, answer, server, session, said, text, browser>>
vars == <<callVars, chatVars>>

TaskState == {"none", "running", "cancelling", "cancelled", "failed", "done", "small_talk"}
Live == {"running", "cancelling"}
Finished == {"failed", "done", "small_talk"}

\* An item is a piece of text or a report that carries none.
Delta(s) == IF s = <<>> THEN <<>> ELSE << [type |-> "delta", text |-> s] >>
Report == << [type |-> "report", text |-> <<>>] >>

Init ==
  /\ CallInit
  /\ publisher = NewPublisher
  /\ queue = <<>> /\ held = <<>>
  /\ locate = "none" /\ answer = "none"
  /\ server = "idle" /\ session = "none"
  /\ said = <<>> /\ text = <<>>
  /\ browser = "listening"

-----------------------------------------------------------------------------
(* The generator                                                           *)

Goes(from, to) == server = from /\ server' = to
Says(e) == said' = Append(said, e)

\* detect_small_talk: answered without a session.
AnswerSmallTalk ==
  /\ Goes("idle", "located")
  /\ Says("intent_detected")
  /\ UNCHANGED <<callVars, publisher, queue, held, locate, answer, session, text, browser>>

OpenSession ==
  /\ Goes("idle", "opened")
  /\ session' = "open"
  /\ UNCHANGED <<callVars, publisher, queue, held, locate, answer, said, text, browser>>

StartNavigation ==
  /\ Goes("opened", "locating")
  /\ Says("navigation_started")
  /\ locate' = "running"
  /\ UNCHANGED <<callVars, publisher, queue, held, answer, session, text, browser>>

SeeNavigation ==
  /\ Goes("locating", "located")
  /\ locate \in {"done", "small_talk"}
  /\ Says("navigation_done")
  /\ UNCHANGED <<callVars, publisher, queue, held, locate, answer, session, text, browser>>

\* Small talk by the pattern list, or by the model's reading of the question.
EndSmallTalk ==
  /\ locate = "small_talk" \/ session = "none"
  /\ Goes("located", "ended")
  /\ Says("completed")
  /\ UNCHANGED <<callVars, publisher, queue, held, locate, answer, session, text, browser>>

StartAnswer ==
  /\ locate = "done"
  /\ Goes("located", "answering")
  /\ Says("answer_generating")
  /\ answer' = "running"
  /\ UNCHANGED <<callVars, publisher, queue, held, locate, session, text, browser>>

\* The get() task takes the head of the queue as soon as there is one.
TakeItem ==
  /\ server = "answering" /\ held = <<>> /\ queue # <<>>
  /\ held' = <<Head(queue)>> /\ queue' = Tail(queue)
  /\ UNCHANGED <<callVars, publisher, locate, answer, server, session, said, text, browser>>

\* asyncio.wait returns with an item, and perhaps with the answer.
PassItem ==
  /\ server = "answering" /\ held # <<>>
  /\ text' = text \o held[1].text
  /\ held' = <<>>
  /\ server' = IF answer \in Finished THEN "draining" ELSE "answering"
  /\ UNCHANGED <<callVars, publisher, queue, locate, answer, session, said, browser>>

\* The timeout cancels a get() that has taken nothing, and the loop goes round.
WaitOn ==
  /\ server = "answering" /\ answer = "running" /\ held = <<>>
  /\ UNCHANGED vars

\* Seeded fault: a failed answer task is not told from one that still runs.
SeeAnswerDone ==
  /\ server = "answering" /\ held = <<>> /\ answer = "done"
  /\ server' = "draining"
  /\ UNCHANGED <<callVars, publisher, queue, held, locate, answer, session, said, text, browser>>

SeeAnswer ==
  /\ server = "answering" /\ held = <<>> /\ answer \in Finished
  /\ server' = "draining"
  /\ UNCHANGED <<callVars, publisher, queue, held, locate, answer, session, said, text, browser>>

DrainItem ==
  /\ server = "draining" /\ queue # <<>>
  /\ text' = text \o Head(queue).text
  /\ queue' = Tail(queue)
  /\ UNCHANGED <<callVars, publisher, held, locate, answer, server, session, said, browser>>

Drained ==
  /\ queue = <<>> /\ answer = "done"
  /\ Goes("draining", "reporting")
  /\ UNCHANGED <<callVars, publisher, queue, held, locate, answer, session, said, text, browser>>

\* Conflicts first, then downloads, each only if the answer has some.
ReportFinding(e) ==
  /\ server = "reporting"
  /\ Last(said) \in {"answer_generating"} \union
                    (IF e = "download_ready" THEN {"conflict_detected"} ELSE {})
  /\ Says(e)
  /\ UNCHANGED <<callVars, publisher, queue, held, locate, answer, server, session, text, browser>>

Complete ==
  /\ Goes("reporting", "ended")
  /\ Says("completed")
  /\ UNCHANGED <<callVars, publisher, queue, held, locate, answer, session, text, browser>>

\* Where the code inside the try raises: the service cannot be built, a task raised, the
\* events of the navigation or the payload of a closing event cannot be made.
Raises ==
  \/ server = "opened"
  \/ server = "locating" /\ locate \in Finished
  \/ server \in {"located", "reporting"} /\ session = "open"
  \/ server = "draining" /\ queue = <<>> /\ answer = "failed"

\* Seeded fault: after the error the generator goes on to the closing events.
ReportErrorAndGoOn ==
  /\ Raises
  /\ server' = "reporting"
  /\ Says("error")
  /\ UNCHANGED <<callVars, publisher, queue, held, locate, answer, session, text, browser>>

\* except Exception
ReportError ==
  /\ Raises
  /\ server' = "ended"
  /\ Says("error")
  /\ UNCHANGED <<callVars, publisher, queue, held, locate, answer, session, text, browser>>

CloseSession ==
  /\ Goes("ended", "closed")
  /\ session' = IF session = "open" THEN "closed" ELSE session
  /\ UNCHANGED <<callVars, publisher, queue, held, locate, answer, said, text, browser>>

-----------------------------------------------------------------------------
(* The browser goes away: the generator is cancelled where it awaits, or   *)
(* closed where it yields; it cancels the task it started and waits for it *)
(* before the session is closed.                                           *)

Disconnect ==
  /\ browser = "listening" /\ server # "closed"
  /\ browser' = "gone"
  /\ UNCHANGED <<callVars, publisher, queue, held, locate, answer, server, session, said, text>>

Cancelled(task) == IF task = "running" THEN "cancelling" ELSE task

Unwind ==
  /\ browser = "gone"
  /\ server \in {"opened", "locating", "located", "answering", "draining", "reporting", "ended"}
  /\ server' = "unwinding"
  /\ locate' = Cancelled(locate) /\ answer' = Cancelled(answer)
  /\ UNCHANGED <<callVars, publisher, queue, held, session, said, text, browser>>

CancelTask ==
  /\ \/ locate = "cancelling" /\ locate' = "cancelled" /\ UNCHANGED answer
     \/ answer = "cancelling" /\ answer' = "cancelled" /\ UNCHANGED locate
  /\ UNCHANGED <<callVars, publisher, queue, held, server, session, said, text, browser>>

\* Seeded fault: the session is closed without waiting for the cancelled task.
CloseUnwoundAtOnce ==
  /\ Goes("unwinding", "closed")
  /\ session' = "closed"
  /\ UNCHANGED <<callVars, publisher, queue, held, locate, answer, said, text, browser>>

CloseUnwound ==
  /\ locate \notin Live /\ answer \notin Live
  /\ Goes("unwinding", "closed")
  /\ session' = IF session = "open" THEN "closed" ELSE session
  /\ UNCHANGED <<callVars, publisher, queue, held, locate, answer, said, text, browser>>

Generator ==
  \/ AnswerSmallTalk \/ OpenSession \/ StartNavigation \/ SeeNavigation \/ EndSmallTalk
  \/ StartAnswer \/ PassItem \/ SeeAnswer \/ DrainItem \/ Drained
  \/ \E e \in {"conflict_detected", "download_ready"}: ReportFinding(e)
  \/ Complete \/ ReportError \/ CloseSession \/ Unwind \/ CloseUnwound

-----------------------------------------------------------------------------
(* The tasks                                                               *)

Navigate(outcome) ==
  /\ locate = "running"
  /\ locate' = outcome
  /\ UNCHANGED <<callVars, publisher, queue, held, answer, server, session, said, text, browser>>

Put(items) == queue' = queue \o items

AnswerEffects == <<held, locate, server, session, said, text, browser>>

\* publish_safe_progress with an output delta, then the report of its length
SpeakDelta(n) ==
  /\ answer = "running" /\ StreamDelta(n)
  /\ LET fed == FeedPublisher(publisher, Chunk(n), FlushAt) IN
       /\ publisher' = fed.publisher
       /\ Put(Delta(fed.text) \o IF Reports(n) THEN Report ELSE <<>>)
  /\ UNCHANGED <<answer, AnswerEffects>>

SpeakSummary ==
  /\ answer = "running" /\ StreamSummary
  /\ Put(Report)
  /\ UNCHANGED <<publisher, answer, AnswerEffects>>

CallModel ==
  /\ answer = "running"
  /\ \/ StartCall \/ RequestFails
     \/ \E t \in Text: RequestAnswers(t) \/ StreamOpens(t)
     \/ StreamBreaks \/ StreamEnds \/ StreamCompletes
  /\ UNCHANGED <<publisher, queue, answer, AnswerEffects>>

\* The rest of the text is handed on, the value is checked against the schema.
FinishAnswer ==
  /\ answer = "running" /\ call.stage = "value"
  /\ Put(Delta(publisher.pending))
  /\ publisher' = Published(publisher)
  /\ answer' = IF call.text.form = "answer" THEN "done" ELSE "failed"
  /\ UNCHANGED <<callVars, AnswerEffects>>

\* The role does not resolve, the evidence has no usable anchor, or every request failed.
AnswerFails ==
  /\ answer = "running" /\ call.stage \in {"idle", "failed"}
  /\ answer' = "failed"
  /\ UNCHANGED <<callVars, publisher, queue, AnswerEffects>>

AnswerTask ==
  \/ \E n \in Piece: SpeakDelta(n)
  \/ SpeakSummary \/ CallModel \/ FinishAnswer \/ AnswerFails

NavigationTask == \E outcome \in Finished: Navigate(outcome)

Next ==
  \/ Generator \/ TakeItem \/ WaitOn \/ NavigationTask \/ AnswerTask \/ CancelTask \/ Disconnect

\* One event loop runs every task that is ready; every request of the HTTP client has a
\* timeout (clients.py:128-132), so a task that awaits a model is ready in the end.
Fairness ==
  /\ WF_vars(Generator) /\ WF_vars(TakeItem) /\ WF_vars(CancelTask)
  /\ WF_vars(NavigationTask) /\ WF_vars(AnswerTask)

Spec == Init /\ [][Next]_vars /\ Fairness
=============================================================================

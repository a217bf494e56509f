--------------------------- MODULE VisualEnrichment ---------------------------
(***************************************************************************)
(* The visuals of one source file on their way through the vision model:   *)
(* DocumentConversionEngine of services/document_conversion.py, from the   *)
(* extraction that collects them to the texts that take their place, with  *)
(* the cache, the concurrent requests and their retries, and the           *)
(* heartbeats through which a paused or stopped job interrupts them.       *)
(*                                                                         *)
(* Requests are tasks of one event loop and interleave where they await.   *)
(* The file is converted again and again; only the cache outlives a        *)
(* conversion, and a crash of the Worker.                                  *)
(***************************************************************************)
EXTENDS Naturals, Sequences, FiniteSets

CONSTANTS
  Image,         \* images as they are sent to the model, told apart by their bytes
  Prompt,        \* what else the cache key is made of: prompt, model, effort
  Format,        \* kinds of files: [batched, partial, beating]
  File,          \* the visuals of a file, in order
  Width,         \* the values of document_visual_concurrency
  MaxAttempts,   \* VISUAL_REQUEST_MAX_ATTEMPTS
  Env            \* the requests and faults a run allows

ASSUME VisualConstants ==
  /\ MaxAttempts \in Nat \ {0} /\ Width \subseteq Nat \ {0}
  /\ Format \subseteq [batched : BOOLEAN, partial : BOOLEAN, beating : BOOLEAN]
  /\ {"legacy", "broken"} \intersect Image = {}
  /\ \A f \in File : f \in Seq(Image \union {"legacy", "broken"}) /\ f # << >>

VARIABLES
  format, file, width,   \* what is converted, and with how many requests at a time
  control,   \* whether the job is still ACTIVE
  prompt,    \* what the role's configuration says now
  cache,     \* .visual-cache: the text stored under a key
  at,        \* where the conversion stands
  from,      \* visuals whose batches are through
  asked,     \* the prompt the batch under way was planned with
  slot,      \* what takes the place of each visual
  task,      \* the requests of the batch, each at the first visual it is for
  thread,    \* the heartbeat thread of a presentation
  heard      \* a heartbeat of this conversion has met a job that is not ACTIVE

jobVars == <<format, file, width>>
vars == <<jobVars, control, prompt, cache, at, from, asked, slot, task, thread, heard>>

-----------------------------------------------------------------------------
Key == [image : Image, prompt : Prompt]
Nothing == [text |-> "none"]
Mark(why) == [text |-> why]       \* one of the three fallback texts
Text(i, p) == [text |-> "described", image |-> file[i], prompt |-> p]
Texts == [text : {"described"}, image : Image, prompt : Prompt]
Slot == {Nothing} \union {Mark(why) : why \in {"legacy", "broken", "refused"}} \union Texts

TaskState == {"none", "waiting", "asking", "resting", "done", "failed", "signal"}
Task == [state : TaskState, attempt : 0..MaxAttempts]
NoTask == [state |-> "none", attempt |-> 0]

Visual == DOMAIN file
Over == {"returned", "failed", "interrupted"}
Blank == [i \in Visual |-> Nothing]
NoTasks == [i \in Visual |-> NoTask]

\* The pages of a PDF come in batches of twice the width, other files in one batch.
Last(n) == IF format.batched /\ n + 2 * width < Len(file) THEN n + 2 * width ELSE Len(file)
Batch == (from + 1)..Last(from)
Of(class) == {i \in Batch : file[i] \in class}

Init ==
  /\ format \in Format /\ file \in File /\ width \in Width
  /\ control = "active"
  /\ prompt \in Prompt
  /\ cache = [k \in Key |-> Nothing]
  /\ at = "idle" /\ from = 0 /\ asked = prompt
  /\ slot = Blank /\ task = NoTasks
  /\ thread = "off" /\ heard = FALSE

\* _heartbeat: raises the control signal.
Beat(goes, stops) == IF control = "active" THEN goes ELSE stops

-----------------------------------------------------------------------------
(* Around the batches                                                      *)

\* stage, with its first heartbeat.
StartConversion ==
  /\ at \in {"idle"} \union Over
  /\ at' = Beat("batch", "interrupted")
  /\ thread' = IF format.beating /\ control = "active" THEN "on" ELSE "off"
  /\ from' = 0 /\ slot' = Blank /\ task' = NoTasks
  /\ heard' = FALSE
  /\ UNCHANGED <<jobVars, control, prompt, cache, asked>>

\* A heartbeat while sheets, slides and visuals are collected, or before a batch.
Interrupt ==
  /\ at = "batch" /\ control # "active"
  /\ at' = "interrupted"
  /\ UNCHANGED <<jobVars, control, prompt, cache, from, asked, slot, task, thread, heard>>

\* The thread of _continuous_heartbeat keeps its failure and stops.
ThreadBeats ==
  /\ thread = "on" /\ at \notin Over
  /\ \/ control # "active" /\ thread' = "signal" /\ heard' = TRUE
     \/ "dberror" \in Env /\ thread' = "error" /\ UNCHANGED heard
  /\ UNCHANGED <<jobVars, control, prompt, cache, at, from, asked, slot, task>>

\* The thread's failure is raised when the file is through; then the last heartbeat.
Finish ==
  /\ at = "extracted"
  /\ at' = CASE thread = "signal" -> "interrupted"
             [] thread = "error" -> "failed"
             [] OTHER -> Beat("returned", "interrupted")
  /\ UNCHANGED <<jobVars, control, prompt, cache, from, asked, slot, task, thread, heard>>

\* The file cannot be read or holds no text, LibreOffice fails or runs out of time, a
\* heartbeat finds the database locked.
ExtractionFails ==
  /\ at \in {"batch", "extracted"}
  /\ at' = "failed"
  /\ UNCHANGED <<jobVars, control, prompt, cache, from, asked, slot, task, thread, heard>>

-----------------------------------------------------------------------------
(* One batch: _visual_enrichments                                          *)

\* Seeded fault: the digest leaves out the prompt.
DigestOfImage(i, p) == [image |-> file[i], prompt |-> CHOOSE q \in Prompt : TRUE]

Digest(i, p) == [image |-> file[i], prompt |-> p]

Hits == {i \in Of(Image) : cache[Digest(i, prompt)] # Nothing}

\* Seeded fault: equal images of a batch are asked for one by one.
PendingEach == Of(Image) \ Hits

\* pending_by_digest: the first visual of each image that is not cached.
Pending == {i \in Of(Image) \ Hits : \A j \in Of(Image) : file[j] = file[i] => i <= j}

SameImage(i) == {j \in Of(Image) : file[j] = file[i]}

PlanBatch ==
  /\ at = "batch"
  /\ format.batched => control = "active"
  /\ format.partial \/ Of({"broken"}) = {}
  /\ at' = "asking"
  /\ asked' = prompt
  /\ slot' = [i \in Visual |-> CASE i \in Of({"legacy", "broken"}) -> Mark(file[i])
                                 [] i \in Hits -> cache[Digest(i, prompt)]
                                 [] OTHER -> slot[i]]
  /\ task' = [i \in Visual |-> IF i \in Pending THEN [NoTask EXCEPT !.state = "waiting"]
                               ELSE NoTask]
  /\ UNCHANGED <<jobVars, control, prompt, cache, from, thread, heard>>

\* A visual that cannot be decoded where every page must be described, or no model for
\* the role.
RefuseBatch ==
  /\ at = "batch"
  /\ \/ ~format.partial /\ Of({"broken"}) # {}
     \/ Of(Image) # {} /\ "unresolved" \in Env
  /\ at' = "failed"
  /\ UNCHANGED <<jobVars, control, prompt, cache, from, asked, slot, task, thread, heard>>

Becomes(i, s) == task' = [task EXCEPT ![i].state = s]
TaskEffects == <<jobVars, control, prompt, at, from, asked, thread>>

\* The semaphore is held over the retries of a request.
Ask(i) ==
  /\ at = "asking" /\ task[i].state = "waiting"
  /\ Cardinality({j \in Visual : task[j].state \in {"asking", "resting"}}) < width
  /\ task' = [task EXCEPT ![i] = [state |-> "asking", attempt |-> 1]]
  /\ UNCHANGED <<TaskEffects, cache, slot, heard>>

\* Seeded fault: only the visual the request was made for gets its text.
DescribeFirst(i) == slot' = [slot EXCEPT ![i] = Text(i, asked)]

Describe(i) == slot' = [j \in Visual |-> IF j \in SameImage(i) THEN Text(i, asked) ELSE slot[j]]

\* The text goes into the slots, then into the cache.
Answered(i) ==
  /\ task[i].state = "asking"
  /\ Describe(i)
  /\ \/ cache' = [cache EXCEPT ![Digest(i, asked)] = Text(i, asked)] /\ Becomes(i, "done")
     \/ "cacheerror" \in Env /\ Becomes(i, "failed") /\ UNCHANGED cache
  /\ UNCHANGED <<TaskEffects, heard>>

\* An answer without text is not asked for again.
AnsweredEmpty(i) ==
  /\ task[i].state = "asking"
  /\ Becomes(i, "failed")
  /\ UNCHANGED <<TaskEffects, cache, slot, heard>>

\* The request or the heartbeat beside it failed, or ran out of time: a heartbeat, and
\* then a pause before the next attempt.
RequestFails(i) ==
  /\ task[i].state = "asking"
  /\ IF task[i].attempt = MaxAttempts THEN Becomes(i, "failed") /\ UNCHANGED heard
     ELSE \/ control = "active" /\ Becomes(i, "resting") /\ UNCHANGED heard
          \/ control # "active" /\ Becomes(i, "signal") /\ heard' = TRUE
          \/ "dberror" \in Env /\ Becomes(i, "failed") /\ UNCHANGED heard
  /\ UNCHANGED <<TaskEffects, cache, slot>>

\* Seeded fault: the attempts are not counted.
AskAgainForEver(i) ==
  /\ task[i].state = "resting"
  /\ Becomes(i, "asking")
  /\ UNCHANGED <<TaskEffects, cache, slot, heard>>

AskAgain(i) ==
  /\ task[i].state = "resting"
  /\ task' = [task EXCEPT ![i] = [state |-> "asking", attempt |-> @.attempt + 1]]
  /\ UNCHANGED <<TaskEffects, cache, slot, heard>>

\* _await_with_heartbeat: the request is cancelled, the signal is not a failure to retry.
BeatStops(i) ==
  /\ task[i].state = "asking" /\ control # "active"
  /\ Becomes(i, "signal") /\ heard' = TRUE
  /\ UNCHANGED <<TaskEffects, cache, slot>>

InState(s) == {i \in Visual : task[i].state = s}
Gathered == \A i \in Visual : task[i].state \in {"none", "done", "failed", "signal"}
Refused == UNION {SameImage(i) : i \in InState("failed")}

\* Seeded fault: the fallbacks set so far count as descriptions.
EvidenceOrFallback == {i \in Batch : slot[i] # Nothing}

\* Slots with a text of the model: all that are filled but the fallbacks set so far.
Evidence == {i \in Of(Image) : slot[i] # Nothing}

\* Failures are borne where a file may be incomplete and something was described.
Bearable == InState("failed") = {} \/ (format.partial /\ Evidence # {})

\* The batch is through, and with the last one the file.
PassOn ==
  /\ from' = Last(from)
  /\ at' = IF Last(from) = Len(file) THEN "extracted" ELSE "batch"
  /\ slot' = [i \in Visual |-> IF i \in Refused THEN Mark("refused") ELSE slot[i]]

\* Seeded fault: a signal is counted as one more failed request.
SettleAnyhow ==
  /\ at = "asking" /\ Gathered
  /\ IF Bearable THEN PassOn ELSE at' = "failed" /\ UNCHANGED <<from, slot>>
  /\ UNCHANGED <<jobVars, control, prompt, cache, asked, task, thread, heard>>

\* What the requests of a batch come to: a signal before all else.
Settle ==
  /\ at = "asking" /\ Gathered
  /\ \/ InState("signal") # {} /\ at' = "interrupted" /\ UNCHANGED <<from, slot>>
     \/ InState("signal") = {} /\ Bearable /\ PassOn
     \/ InState("signal") = {} /\ ~Bearable /\ at' = "failed" /\ UNCHANGED <<from, slot>>
  /\ UNCHANGED <<jobVars, control, prompt, cache, asked, task, thread, heard>>

-----------------------------------------------------------------------------
(* The administrator, and the Worker process                               *)

Suspend ==
  /\ control = "active" /\ control' = "suspended"
  /\ UNCHANGED <<jobVars, prompt, cache, at, from, asked, slot, task, thread, heard>>

Resume ==
  /\ control = "suspended" /\ control' = "active"
  /\ UNCHANGED <<jobVars, prompt, cache, at, from, asked, slot, task, thread, heard>>

ChangePrompt ==
  /\ "prompt" \in Env
  /\ \E p \in Prompt \ {prompt} : prompt' = p
  /\ UNCHANGED <<jobVars, control, cache, at, from, asked, slot, task, thread, heard>>

WorkerCrash ==
  /\ at \notin {"idle"} \union Over /\ "workercrash" \in Env
  /\ at' = "idle" /\ task' = NoTasks /\ thread' = "off"
  /\ UNCHANGED <<jobVars, control, prompt, cache, from, asked, slot, heard>>

-----------------------------------------------------------------------------
Request(i) ==
  Ask(i) \/ Answered(i) \/ AnsweredEmpty(i) \/ RequestFails(i) \/ AskAgain(i) \/ BeatStops(i)
Convert == Interrupt \/ Finish \/ PlanBatch \/ RefuseBatch \/ Settle

Next ==
  \/ StartConversion \/ Convert \/ \E i \in Visual : Request(i)
  \/ ThreadBeats \/ ExtractionFails
  \/ Suspend \/ Resume \/ ChangePrompt \/ WorkerCrash

\* The Worker's thread runs on, and every request is answered or runs out of time
\* (MODEL_REQUEST_TIMEOUT_SECONDS).
Fairness == WF_vars(Convert) /\ WF_vars(\E i \in Visual : Request(i))

Spec == Init /\ [][Next]_vars /\ Fairness
===============================================================================

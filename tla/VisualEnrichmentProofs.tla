----------------------- MODULE VisualEnrichmentProofs -----------------------
(***************************************************************************)
(* The visuals of a file, for any images, prompts, formats, files, widths, *)
(* numbers of attempts, requests and faults.                               *)
(***************************************************************************)
EXTENDS VisualEnrichmentProperties, WellFoundedInduction, TLAPS

Live == {"waiting", "asking", "resting"}

\* A request under way belongs to a batch under way, and is for an image.
RequestsAreOfTheBatch == \A i \in Visual :
  /\ task[i].state \in Live => at = "asking"
  /\ at = "asking" /\ task[i].state # "none" => i \in Of(Image)
  /\ task[i].state = "resting" => task[i].attempt < MaxAttempts

TypeInv == TypeOK /\ RequestsAreOfTheBatch

-----------------------------------------------------------------------------
(* Shapes                                                                  *)

LEMMA SlotShapes ==
  /\ Nothing \in Slot /\ Nothing.text = "none"
  /\ \A why \in {"legacy", "broken", "refused"} : Mark(why) \in Slot /\ Mark(why).text = why
  /\ Texts \subseteq Slot
  /\ \A t \in Texts : t.text = "described" /\ t.image \in Image /\ t.prompt \in Prompt
  BY DEF Slot, Nothing, Mark, Texts

LEMMA TextShape ==
  ASSUME NEW i, NEW p \in Prompt, file[i] \in Image
  PROVE  /\ Text(i, p) \in Texts
         /\ Text(i, p).text = "described"
         /\ Text(i, p).image = file[i]
         /\ Text(i, p).prompt = p
         /\ Digest(i, p) \in Key
         /\ Digest(i, p).image = file[i]
         /\ Digest(i, p).prompt = p
  BY DEF Text, Texts, Digest, Key

LEMMA TaskShapes ==
  /\ NoTask \in Task /\ NoTask.state = "none"
  /\ \A t \in Task, s \in TaskState : [t EXCEPT !.state = s] \in Task
                                   /\ [t EXCEPT !.state = s].state = s
                                   /\ [t EXCEPT !.state = s].attempt = t.attempt
  /\ \A t \in Task : t.state \in TaskState /\ t.attempt \in 0..MaxAttempts
  BY VisualConstants DEF NoTask, Task, TaskState

LEMMA FileShape ==
  ASSUME TypeOK
  PROVE  /\ Len(file) \in Nat \ {0}
         /\ Visual = 1..Len(file)
         /\ \A i \in Visual : file[i] \in Image \union {"legacy", "broken"}
         /\ from \in Nat /\ width \in Nat \ {0}
         /\ Last(from) \in Nat /\ Last(from) <= Len(file) /\ from <= Last(from)
         /\ from < Len(file) => from < Last(from)
         /\ Batch = (from + 1)..Last(from)
         /\ Batch \subseteq Visual
<1>1. file \in Seq(Image \union {"legacy", "broken"}) /\ file # << >>
  BY VisualConstants DEF TypeOK
<1>2. /\ Len(file) \in Nat \ {0} /\ Visual = 1..Len(file)
      /\ \A i \in Visual : file[i] \in Image \union {"legacy", "broken"}
  BY <1>1 DEF Visual
<1>3. from \in Nat /\ from <= Len(file) /\ width \in Nat \ {0}
  BY <1>2, VisualConstants DEF TypeOK
<1>4. /\ Last(from) \in Nat /\ Last(from) <= Len(file) /\ from <= Last(from)
      /\ from < Len(file) => from < Last(from)
  BY <1>2, <1>3 DEF Last
<1>5. Batch = (from + 1)..Last(from) /\ Batch \subseteq Visual
  BY <1>2, <1>3, <1>4 DEF Batch
<1>6. QED
  BY <1>2, <1>3, <1>4, <1>5

LEMMA InitTyped == Init => TypeInv
<1> SUFFICES ASSUME Init PROVE TypeInv
  OBVIOUS
<1>1. TypeOK
  <2>1. Len(file) \in Nat
    BY VisualConstants DEF Init
  <2>2. /\ slot \in [Visual -> Slot] /\ task \in [Visual -> Task]
        /\ cache \in [Key -> {Nothing} \union Texts]
    BY SlotShapes, TaskShapes DEF Init, Blank, NoTasks
  <2>3. from \in 0..Len(file)
    <3>1. from = 0
      BY DEF Init
    <3>2. QED
      BY <2>1, <3>1
  <2>4. QED
    BY <2>2, <2>3, Zenon DEF Init, TypeOK
<1>2. \A i \in Visual : task[i].state = "none"
  BY TaskShapes DEF Init, NoTasks
<1>3. QED
  BY <1>1, <1>2 DEF TypeInv, RequestsAreOfTheBatch, Live

-----------------------------------------------------------------------------
(* Types                                                                   *)

\* A step that leaves the requests alone and, if a batch is under way, goes on with it.
LEMMA AroundRequestsTyped ==
  ASSUME TypeInv, TypeOK', UNCHANGED <<jobVars, from, task>>,
         at' = at \/ \A i \in Visual : task[i].state \notin Live /\ at' # "asking"
  PROVE  TypeInv'
<1>1. Visual' = Visual /\ Of(Image)' = Of(Image)
  BY DEF Visual, Of, Batch, Last, jobVars
<1>2. QED
  BY <1>1 DEF TypeInv, RequestsAreOfTheBatch

LEMMA StartTyped == ASSUME TypeInv, StartConversion PROVE TypeInv'
<1>1. UNCHANGED <<jobVars, control, prompt, cache, asked>> /\ Visual' = Visual
  BY DEF StartConversion, jobVars, Visual
<1>2. at' \in {"batch", "interrupted"} /\ thread' \in {"on", "off"}
  BY DEF StartConversion, Beat
<1>3. from' \in 0..Len(file)' /\ slot' \in [Visual -> Slot] /\ task' \in [Visual -> Task]
      /\ \A i \in Visual : task'[i].state = "none"
  BY <1>1, FileShape, SlotShapes, TaskShapes
     DEF StartConversion, Blank, NoTasks, TypeInv, jobVars
<1>4. TypeOK'
  BY <1>1, <1>2, <1>3 DEF TypeInv, TypeOK, StartConversion, Over, jobVars
<1>5. QED
  BY <1>1, <1>2, <1>3, <1>4 DEF TypeInv, RequestsAreOfTheBatch, Live

LEMMA PlanTyped == ASSUME TypeInv, PlanBatch PROVE TypeInv'
<1>1. UNCHANGED <<jobVars, control, prompt, cache, from, thread, heard>> /\ Visual' = Visual
      /\ Of(Image)' = Of(Image)
  BY DEF PlanBatch, jobVars, Visual, Of, Batch, Last
<1>2. slot' \in [Visual -> Slot]
  <2> DEFINE new(i) == CASE i \in Of({"legacy", "broken"}) -> Mark(file[i])
                         [] i \in Hits -> cache[Digest(i, prompt)]
                         [] OTHER -> slot[i]
  <2>1. ASSUME NEW i \in Visual PROVE new(i) \in Slot
    <3>1. i \in Of({"legacy", "broken"}) => Mark(file[i]) \in Slot
      BY SlotShapes DEF Of
    <3>2. i \in Hits => cache[Digest(i, prompt)] \in Slot
      <4> SUFFICES ASSUME i \in Hits PROVE cache[Digest(i, prompt)] \in Slot
        OBVIOUS
      <4>1. Digest(i, prompt) \in Key
        BY TextShape DEF Hits, Of, TypeInv, TypeOK
      <4>2. QED
        BY <4>1, SlotShapes DEF TypeInv, TypeOK
    <3>3. slot[i] \in Slot
      BY DEF TypeInv, TypeOK
    <3>4. QED
      BY <3>1, <3>2, <3>3
  <2>2. slot' = [i \in Visual |-> new(i)]
    BY DEF PlanBatch
  <2>3. QED
    BY <2>1, <2>2
<1>3. /\ task' \in [Visual -> Task]
      /\ \A i \in Visual : /\ task'[i].state \in {"none", "waiting"}
                           /\ task'[i].state # "none" => i \in Pending
  <2>1. [NoTask EXCEPT !.state = "waiting"] \in Task
        /\ [NoTask EXCEPT !.state = "waiting"].state = "waiting"
    BY TaskShapes DEF TaskState
  <2>2. QED
    BY <2>1, TaskShapes DEF PlanBatch
<1>4. Pending \subseteq Of(Image)
  BY DEF Pending
<1>5. TypeOK'
  BY <1>1, <1>2, <1>3 DEF TypeInv, TypeOK, PlanBatch, jobVars
<1>6. QED
  BY <1>1, <1>3, <1>4, <1>5 DEF TypeInv, RequestsAreOfTheBatch, PlanBatch, Live

\* A request goes on to its next state.
Moves(i, t) ==
  /\ task[i].state \in Live
  /\ task' = [task EXCEPT ![i] = t]
  /\ UNCHANGED TaskEffects

LEMMA MoveTyped ==
  ASSUME TypeInv, NEW i \in Visual, NEW t \in Task, Moves(i, t), t.state # "none",
         t.state = "resting" => t.attempt < MaxAttempts,
         slot' \in [Visual -> Slot], cache' \in [Key -> {Nothing} \union Texts],
         heard' \in BOOLEAN
  PROVE  TypeInv'
<1>1. Visual' = Visual /\ Of(Image)' = Of(Image) /\ UNCHANGED <<jobVars, at, from>>
  BY DEF Moves, TaskEffects, jobVars, Visual, Of, Batch, Last
<1>2. task' \in [Visual -> Task] /\ task'[i] = t
      /\ \A j \in Visual : j # i => task'[j] = task[j]
  BY DEF Moves, TypeInv, TypeOK
<1>3. TypeOK'
  BY <1>1, <1>2 DEF TypeInv, TypeOK, Moves, TaskEffects, jobVars
<1>4. at = "asking" /\ i \in Of(Image)
  BY DEF Moves, TypeInv, RequestsAreOfTheBatch, Live
<1>5. QED
  BY <1>1, <1>2, <1>3, <1>4 DEF TypeInv, RequestsAreOfTheBatch

LEMMA RequestTyped ==
  ASSUME TypeInv, NEW i \in Visual, Request(i)
  PROVE  TypeInv'
<1>1. task[i] \in Task /\ task[i].state \in TaskState /\ task[i].attempt \in 0..MaxAttempts
  BY TaskShapes DEF TypeInv, TypeOK
<1>2. slot \in [Visual -> Slot] /\ cache \in [Key -> {Nothing} \union Texts] /\ heard \in BOOLEAN
  BY DEF TypeInv, TypeOK
<1>3. \A s \in TaskState :
        /\ [task[i] EXCEPT !.state = s] \in Task
        /\ [task[i] EXCEPT !.state = s].state = s
        /\ [task[i] EXCEPT !.state = s].attempt = task[i].attempt
        /\ Becomes(i, s) => task' = [task EXCEPT ![i] = [task[i] EXCEPT !.state = s]]
  BY <1>1, TaskShapes DEF Becomes
<1>4. {"waiting", "asking", "resting", "done", "failed", "signal"} \subseteq TaskState
  BY DEF TaskState
<1>5. ASSUME NEW s \in {"done", "failed", "signal"}, Becomes(i, s), task[i].state \in Live,
             UNCHANGED TaskEffects, slot' \in [Visual -> Slot],
             cache' \in [Key -> {Nothing} \union Texts], heard' \in BOOLEAN
      PROVE  TypeInv'
  <2> DEFINE t == [task[i] EXCEPT !.state = s]
  <2>1. t \in Task /\ t.state = s /\ task' = [task EXCEPT ![i] = t]
    BY <1>3, <1>4, <1>5
  <2> HIDE DEF t
  <2>2. Moves(i, t)
    BY <1>5, <2>1 DEF Moves
  <2>3. QED
    BY <1>5, <2>1, <2>2, MoveTyped
<1>6. CASE Ask(i)
  <2> DEFINE t == [state |-> "asking", attempt |-> 1]
  <2>1. t \in Task /\ t.state = "asking"
    BY VisualConstants DEF Task, TaskState
  <2>2. Moves(i, t) /\ UNCHANGED <<slot, cache, heard>>
    BY <1>6 DEF Ask, Moves, Live
  <2> HIDE DEF t
  <2>3. QED
    BY <1>2, <2>1, <2>2, MoveTyped
<1>7. CASE Answered(i)
  <2>1. task[i].state \in Live /\ file[i] \in Image /\ asked \in Prompt
    BY <1>7 DEF Answered, Live, TypeInv, TypeOK, RequestsAreOfTheBatch, Of
  <2>2. Text(i, asked) \in Texts /\ Text(i, asked) \in Slot /\ Digest(i, asked) \in Key
    BY <2>1, TextShape, SlotShapes
  <2>3. slot' \in [Visual -> Slot]
    BY <1>2, <1>7, <2>2 DEF Answered, Describe
  <2>4. cache' \in [Key -> {Nothing} \union Texts]
    BY <1>2, <1>7, <2>2 DEF Answered
  <2>5. (Becomes(i, "done") \/ Becomes(i, "failed")) /\ UNCHANGED <<TaskEffects, heard>>
    BY <1>7 DEF Answered
  <2>6. QED
    BY <1>2, <1>5, <2>1, <2>3, <2>4, <2>5
<1>8. CASE AnsweredEmpty(i)
  <2>1. task[i].state \in Live /\ Becomes(i, "failed")
        /\ UNCHANGED <<TaskEffects, slot, cache, heard>>
    BY <1>8 DEF AnsweredEmpty, Live
  <2>2. QED
    BY <1>2, <1>5, <2>1
<1>9. CASE RequestFails(i)
  <2>1. task[i].state \in Live /\ UNCHANGED <<TaskEffects, slot, cache>> /\ heard' \in BOOLEAN
    BY <1>2, <1>9 DEF RequestFails, Live
  <2>2. CASE Becomes(i, "failed") \/ Becomes(i, "signal")
    BY <1>2, <1>5, <2>1, <2>2
  <2>3. CASE Becomes(i, "resting") /\ task[i].attempt # MaxAttempts
    <3> DEFINE t == [task[i] EXCEPT !.state = "resting"]
    <3>1. t \in Task /\ t.state = "resting" /\ task' = [task EXCEPT ![i] = t]
          /\ t.attempt < MaxAttempts
      BY <1>1, <1>3, <1>4, <2>3, VisualConstants
    <3> HIDE DEF t
    <3>2. QED
      BY <1>2, <2>1, <3>1, MoveTyped DEF Moves
  <2>4. QED
    BY <1>9, <2>2, <2>3 DEF RequestFails
<1>10. CASE AskAgain(i)
  <2> DEFINE t == [state |-> "asking", attempt |-> task[i].attempt + 1]
  <2>1. t \in Task /\ t.state = "asking"
    <3>1. task[i].attempt < MaxAttempts
      BY <1>10 DEF AskAgain, TypeInv, RequestsAreOfTheBatch
    <3>2. QED
      BY <1>1, <3>1, VisualConstants DEF Task, TaskState
  <2>2. Moves(i, t) /\ UNCHANGED <<slot, cache, heard>>
    BY <1>10 DEF AskAgain, Moves, Live
  <2> HIDE DEF t
  <2>3. QED
    BY <1>2, <2>1, <2>2, MoveTyped
<1>11. CASE BeatStops(i)
  <2>1. task[i].state \in Live /\ Becomes(i, "signal") /\ UNCHANGED <<TaskEffects, slot, cache>>
        /\ heard' \in BOOLEAN
    BY <1>11 DEF BeatStops, Live
  <2>2. QED
    BY <1>2, <1>5, <2>1
<1>12. QED
  BY <1>6, <1>7, <1>8, <1>9, <1>10, <1>11 DEF Request

LEMMA SettleTyped == ASSUME TypeInv, Settle PROVE TypeInv'
<1>1. /\ UNCHANGED <<jobVars, control, prompt, cache, asked, task, thread, heard>>
      /\ Visual' = Visual
      /\ \A i \in Visual : task[i].state \notin Live
  BY DEF Settle, jobVars, Visual, Gathered, Live
<1>2. /\ at' \in {"interrupted", "failed", "extracted", "batch"}
      /\ from' \in 0..Len(file)
  BY FileShape DEF Settle, PassOn, TypeInv, TypeOK
<1>3. slot' \in [Visual -> Slot]
  BY SlotShapes DEF Settle, PassOn, TypeInv, TypeOK
<1>4. TypeOK'
  BY <1>1, <1>2, <1>3 DEF TypeInv, TypeOK, Over, jobVars
<1>5. QED
  BY <1>1, <1>2, <1>4 DEF TypeInv, RequestsAreOfTheBatch

LEMMA StepTyped == TypeInv /\ [Next]_vars => TypeInv'
<1> SUFFICES ASSUME TypeInv, [Next]_vars PROVE TypeInv'
  OBVIOUS
<1>1. CASE StartConversion
  BY <1>1, StartTyped
<1>2. CASE Interrupt \/ Finish \/ RefuseBatch \/ ExtractionFails \/ ThreadBeats
  <2>1. /\ UNCHANGED <<jobVars, control, prompt, cache, from, asked, slot, task>>
        /\ thread' \in {"off", "on", "signal", "error"} /\ heard' \in BOOLEAN
        /\ at' = at \/ (at # "asking" /\ at' \in Over)
    BY <1>2 DEF Interrupt, Finish, RefuseBatch, ExtractionFails, ThreadBeats, Beat, Over, TypeInv,
                TypeOK
  <2>2. TypeOK'
    BY <2>1 DEF TypeInv, TypeOK, jobVars, Visual
  <2>3. QED
    BY <2>1, <2>2, AroundRequestsTyped DEF TypeInv, RequestsAreOfTheBatch, Over
<1>3. CASE PlanBatch
  BY <1>3, PlanTyped
<1>4. CASE Settle
  BY <1>4, SettleTyped
<1>5. ASSUME NEW i \in Visual, Request(i) PROVE TypeInv'
  BY <1>5, RequestTyped
<1>6. CASE Suspend \/ Resume \/ ChangePrompt
  <2>1. /\ UNCHANGED <<jobVars, cache, at, from, asked, slot, task, thread, heard>>
        /\ control' \in {"active", "suspended"} /\ prompt' \in Prompt
    BY <1>6 DEF Suspend, Resume, ChangePrompt, TypeInv, TypeOK
  <2>2. TypeOK'
    BY <2>1 DEF TypeInv, TypeOK, jobVars, Visual
  <2>3. QED
    BY <2>1, <2>2, AroundRequestsTyped
<1>7. CASE WorkerCrash
  <2>1. /\ UNCHANGED <<jobVars, control, prompt, cache, from, asked, slot, heard>>
        /\ at' = "idle" /\ thread' = "off" /\ task' = NoTasks /\ Visual' = Visual
    BY <1>7 DEF WorkerCrash, jobVars, Visual
  <2>2. task' \in [Visual -> Task] /\ \A i \in Visual : task'[i].state = "none"
    BY <2>1, TaskShapes DEF NoTasks
  <2>3. TypeOK'
    BY <2>1, <2>2 DEF TypeInv, TypeOK, jobVars
  <2>4. QED
    BY <2>1, <2>2, <2>3 DEF TypeInv, RequestsAreOfTheBatch, Live
<1>8. CASE UNCHANGED vars
  <2>1. UNCHANGED <<jobVars, control, prompt, cache, at, from, asked, slot, task, thread, heard>>
    BY <1>8 DEF vars
  <2>2. TypeOK'
    BY <2>1 DEF TypeInv, TypeOK, jobVars, Visual
  <2>3. QED
    BY <2>1, <2>2, AroundRequestsTyped
<1>9. QED
  BY <1>1, <1>2, <1>3, <1>4, <1>5, <1>6, <1>7, <1>8 DEF Next, Convert

LEMMA TypesInvariant == Spec => []TypeInv
  BY InitTyped, StepTyped, PTL DEF Spec

\* The conversion keeps its types: texts are of images, requests count their attempts to
\* the bound, and no batch reaches past the file.
THEOREM VisualTypesHold == Spec => []TypeOK
<1>1. TypeInv => TypeOK
  BY DEF TypeInv
<1>2. QED
  BY <1>1, TypesInvariant, PTL

-----------------------------------------------------------------------------
(* Slots                                                                   *)

\* The text or the fallback that a visual may have.
Fits(i) ==
  \/ slot[i].text = "described" /\ slot[i].image = file[i]
  \/ slot[i] = Mark("refused") /\ format.partial /\ file[i] \in Image
  \/ slot[i] = Mark("broken") /\ format.partial /\ file[i] = "broken"
  \/ slot[i] = Mark("legacy") /\ file[i] = "legacy"

CacheIsFaithful == \A k \in Key :
  cache[k] # Nothing => cache[k].image = k.image /\ cache[k].prompt = k.prompt

OneRequestPerImage == at = "asking" => \A i, j \in Visual :
  task[i].state # "none" /\ task[j].state # "none" /\ file[i] = file[j] => i = j

NotAskedBefore == at = "asking" => \A i \in Visual :
  task[i].state \in Live => cache[Digest(i, asked)] = Nothing

\* A slot of the batch is open only while the request for its image is, or because it
\* came to nothing.
OpenSlotsAreAwaited == at = "asking" => \A i \in Batch : slot[i] = Nothing =>
  file[i] \in Image /\ \E j \in Batch : file[j] = file[i] /\ task[j].state \notin {"none", "done"}

\* Slots are filled batch by batch.
BatchesAreFilled == at = "batch" => \A i \in Visual :
  IF i <= from THEN Fits(i) ELSE slot[i] = Nothing

BatchIsBeingFilled == at = "asking" => \A i \in Visual :
  /\ i <= from => Fits(i)
  /\ i \in Batch /\ slot[i] # Nothing =>
       Fits(i) /\ (slot[i].text = "described" => slot[i].prompt = asked)
  /\ i > Last(from) => slot[i] = Nothing

FileIsFilled == at \in {"extracted", "returned"} => \A i \in Visual : Fits(i)

SlotInv ==
  /\ CacheIsFaithful /\ OneRequestPerImage /\ NotAskedBefore /\ OpenSlotsAreAwaited
  /\ BatchesAreFilled /\ BatchIsBeingFilled /\ FileIsFilled

LEMMA LeastElement ==
  ASSUME NEW S \in SUBSET Nat, S # {}
  PROVE  \E m \in S : \A k \in S : m <= k
<1>1. IsWellFoundedOn(OpToRel(<, Nat), Nat)
  BY NatLessThanWellFounded
<1>2. PICK m \in S : \A k \in S : ~(<<k, m>> \in OpToRel(<, Nat))
  BY <1>1, WFMin
<1>3. \A k \in S : ~(k < m)
  BY <1>2 DEF OpToRel
<1>4. QED
  BY <1>3

\* What is asked for: one visual for each image of the batch that is not cached.
LEMMA PendingShape ==
  ASSUME TypeInv
  PROVE  /\ Pending \subseteq Of(Image) \ Hits
         /\ \A i, j \in Pending : file[i] = file[j] => i = j
         /\ \A i \in Of(Image) \ Hits : \E j \in Pending : file[j] = file[i]
<1>1. Of(Image) \subseteq Nat /\ Of(Image) \subseteq Batch
  BY FileShape DEF Of, TypeInv
<1>2. Pending \subseteq Of(Image) \ Hits
  BY DEF Pending
<1>3. \A i, j \in Pending : file[i] = file[j] => i = j
  BY <1>1 DEF Pending
<1>4. ASSUME NEW i \in Of(Image) \ Hits PROVE \E j \in Pending : file[j] = file[i]
  <2> DEFINE S == {k \in Of(Image) : file[k] = file[i]}
  <2>1. PICK m \in S : \A k \in S : m <= k
    BY <1>1, LeastElement
  <2>2. m \notin Hits
    BY DEF Hits, Digest
  <2>3. m \in Pending
    BY <2>1, <2>2 DEF Pending
  <2>4. QED
    BY <2>3
<1>5. QED
  BY <1>2, <1>3, <1>4

LEMMA SlotInit == Init => SlotInv
<1> SUFFICES ASSUME Init PROVE SlotInv
  OBVIOUS
<1>1. CacheIsFaithful
  BY DEF Init, CacheIsFaithful
<1>2. at = "idle"
  BY DEF Init
<1>3. QED
  BY <1>1, <1>2 DEF SlotInv, OneRequestPerImage, NotAskedBefore, OpenSlotsAreAwaited,
                    BatchesAreFilled, BatchIsBeingFilled, FileIsFilled

\* The conversion goes on with what it has, or ends.
LEMMA RestKeepsSlots ==
  ASSUME SlotInv, UNCHANGED <<jobVars, cache, from, asked, slot, task>>,
         \/ at' = at
         \/ at' \in {"interrupted", "failed"}
         \/ at = "extracted" /\ at' = "returned"
  PROVE  SlotInv'
<1>1. Visual' = Visual /\ Batch' = Batch /\ Last(from)' = Last(from)
      /\ \A i \in Visual : Fits(i)' = Fits(i) /\ Digest(i, asked)' = Digest(i, asked)
  BY DEF jobVars, Visual, Batch, Last, Fits, Digest
<1>2. CacheIsFaithful' /\ OneRequestPerImage' /\ NotAskedBefore' /\ OpenSlotsAreAwaited'
  BY <1>1 DEF SlotInv, CacheIsFaithful, OneRequestPerImage, NotAskedBefore,
              OpenSlotsAreAwaited, jobVars
<1>3. BatchesAreFilled' /\ BatchIsBeingFilled' /\ FileIsFilled'
  BY <1>1 DEF SlotInv, BatchesAreFilled, BatchIsBeingFilled, FileIsFilled, jobVars
<1>4. QED
  BY <1>2, <1>3 DEF SlotInv

LEMMA StartKeepsSlots == ASSUME TypeInv, SlotInv, StartConversion PROVE SlotInv'
<1>1. /\ at' \in {"batch", "interrupted"} /\ from' = 0 /\ UNCHANGED cache
      /\ Visual' = Visual /\ slot' = [i \in Visual |-> Nothing]
  BY DEF StartConversion, Beat, Blank, jobVars, Visual
<1>2. \A i \in Visual : ~(i <= 0)
  BY FileShape DEF TypeInv
<1>3. BatchesAreFilled'
  BY <1>1, <1>2 DEF BatchesAreFilled
<1>4. QED
  BY <1>1, <1>3 DEF SlotInv, CacheIsFaithful, OneRequestPerImage, NotAskedBefore,
                    OpenSlotsAreAwaited, BatchIsBeingFilled, FileIsFilled

LEMMA CrashKeepsSlots == ASSUME SlotInv, WorkerCrash PROVE SlotInv'
<1>1. at' = "idle" /\ UNCHANGED cache
  BY DEF WorkerCrash
<1>2. QED
  BY <1>1 DEF SlotInv, CacheIsFaithful, OneRequestPerImage, NotAskedBefore,
              OpenSlotsAreAwaited, BatchesAreFilled, BatchIsBeingFilled, FileIsFilled

LEMMA PlanKeepsSlots == ASSUME TypeInv, SlotInv, PlanBatch PROVE SlotInv'
<1>1. /\ at = "batch" /\ at' = "asking" /\ asked' = prompt
      /\ UNCHANGED <<jobVars, prompt, cache, from>>
      /\ Visual' = Visual /\ Batch' = Batch /\ Last(from)' = Last(from)
      /\ format.partial \/ Of({"broken"}) = {}
      /\ slot' = [i \in Visual |-> CASE i \in Of({"legacy", "broken"}) -> Mark(file[i])
                                     [] i \in Hits -> cache[Digest(i, prompt)]
                                     [] OTHER -> slot[i]]
  BY DEF PlanBatch, jobVars, Visual, Batch, Last
<1>2. task' = [i \in Visual |-> IF i \in Pending THEN [NoTask EXCEPT !.state = "waiting"]
                               ELSE NoTask]
  BY DEF PlanBatch
<1>3. \A i \in Visual : task'[i].state = IF i \in Pending THEN "waiting" ELSE "none"
  BY <1>2, TaskShapes DEF TaskState
<1>5. /\ \A i \in Batch : i \in Visual /\ i > from
      /\ \A i \in Visual : i \in Nat
      /\ from \in Nat /\ Last(from) \in Nat /\ from <= Last(from)
      /\ Batch = (from + 1)..Last(from)
  BY FileShape DEF TypeInv
<1>6. \A i \in Visual \ Batch : slot'[i] = slot[i]
  BY <1>1 DEF Of, Hits
<1>7. ASSUME NEW i \in Batch
      PROVE  \/ i \in Of({"legacy", "broken"}) /\ slot'[i] = Mark(file[i])
             \/ i \in Hits /\ slot'[i] = cache[Digest(i, prompt)]
             \/ i \in Of(Image) \ Hits /\ slot'[i] = Nothing
  <2>1. i \in Visual /\ slot[i] = Nothing
    BY <1>1, <1>5 DEF SlotInv, BatchesAreFilled
  <2>2. i \in Of({"legacy", "broken"}) \/ i \in Of(Image)
    BY <2>1, FileShape DEF Of, TypeInv
  <2>3. i \in Of({"legacy", "broken"}) => i \notin Of(Image)
    BY VisualConstants DEF Of
  <2>4. Hits \subseteq Of(Image)
    BY DEF Hits
  <2>5. QED
    BY <1>1, <2>1, <2>2, <2>3, <2>4
<1>8. ASSUME NEW i \in Hits
      PROVE  /\ cache[Digest(i, prompt)] # Nothing
             /\ cache[Digest(i, prompt)].image = file[i]
             /\ cache[Digest(i, prompt)].prompt = prompt
             /\ cache[Digest(i, prompt)].text = "described"
  <2>1. /\ Digest(i, prompt) \in Key /\ Digest(i, prompt).image = file[i]
        /\ Digest(i, prompt).prompt = prompt /\ cache[Digest(i, prompt)] # Nothing
    BY TextShape DEF Hits, Of, TypeInv, TypeOK
  <2>2. cache[Digest(i, prompt)] \in Texts
    BY <2>1 DEF TypeInv, TypeOK
  <2>3. QED
    BY <2>1, <2>2, SlotShapes DEF SlotInv, CacheIsFaithful
<1>9. \A i \in Visual : i <= from => Fits(i)'
  <2>1. \A i \in Visual : i <= from => Fits(i) /\ i \notin Batch
    BY <1>1, <1>5 DEF SlotInv, BatchesAreFilled
  <2>2. QED
    BY <1>1, <1>6, <2>1 DEF Fits, jobVars
<1>10. ASSUME NEW i \in Batch, slot'[i] # Nothing
       PROVE  Fits(i)' /\ (slot'[i].text = "described" => slot'[i].prompt = prompt)
  <2>1. CASE i \in Of({"legacy", "broken"}) /\ slot'[i] = Mark(file[i])
    <3>1. file[i] \in {"legacy", "broken"} /\ (file[i] = "broken" => format.partial)
      BY <1>1, <2>1 DEF Of
    <3>2. slot'[i].text # "described"
      BY <2>1, <3>1, SlotShapes
    <3>3. QED
      BY <1>1, <2>1, <3>1, <3>2 DEF Fits, jobVars, Mark
  <2>2. CASE i \in Hits /\ slot'[i] = cache[Digest(i, prompt)]
    BY <1>1, <1>8, <2>2 DEF Fits, jobVars
  <2>3. QED
    BY <1>7, <1>10, <2>1, <2>2
<1>11. BatchIsBeingFilled'
  <2>1. \A i \in Visual : i > Last(from) => slot'[i] = Nothing
    <3>1. \A i \in Visual : i > Last(from) => i \notin Batch /\ slot[i] = Nothing
      BY <1>1, <1>5 DEF SlotInv, BatchesAreFilled
    <3>2. QED
      BY <1>6, <3>1
  <2>2. QED
    BY <1>1, <1>9, <1>10, <2>1 DEF BatchIsBeingFilled
<1>12. OneRequestPerImage'
  BY <1>1, <1>3, PendingShape DEF OneRequestPerImage, jobVars
<1>13. NotAskedBefore'
  <2>1. \A i \in Pending : cache[Digest(i, prompt)] = Nothing
    BY PendingShape DEF Hits
  <2>2. \A i \in Visual : Digest(i, asked)' = Digest(i, prompt)
    BY <1>1 DEF Digest, jobVars
  <2>3. QED
    BY <1>1, <1>3, <2>1, <2>2 DEF NotAskedBefore, Live
<1>14. OpenSlotsAreAwaited'
  <2>1. ASSUME NEW i \in Batch, slot'[i] = Nothing
        PROVE  /\ file[i] \in Image
               /\ \E j \in Batch : file[j] = file[i] /\ task'[j].state \notin {"none", "done"}
    <3>1. i \in Of(Image) \ Hits
      <4>1. file[i] \in {"legacy", "broken"} => Mark(file[i]) # Nothing
        BY SlotShapes
      <4>2. QED
        BY <1>7, <1>8, <2>1, <4>1 DEF Of
    <3>2. PICK j \in Pending : file[j] = file[i]
      BY <3>1, PendingShape
    <3>3. j \in Batch /\ j \in Visual
      BY <1>5, <3>2, PendingShape DEF Of
    <3>4. file[i] \in Image
      BY <3>1 DEF Of
    <3>5. task'[j].state = "waiting"
      BY <1>3, <3>2, <3>3
    <3>6. QED
      BY <3>2, <3>3, <3>4, <3>5
  <2>2. QED
    BY <1>1, <2>1 DEF OpenSlotsAreAwaited, jobVars
<1>15. QED
  BY <1>1, <1>11, <1>12, <1>13, <1>14
     DEF SlotInv, CacheIsFaithful, BatchesAreFilled, FileIsFilled

LEMMA MoveFacts ==
  ASSUME TypeInv, NEW i \in Visual, NEW t, Moves(i, t)
  PROVE  /\ at = "asking" /\ at' = "asking" /\ i \in Of(Image) /\ file[i] \in Image
         /\ asked \in Prompt /\ UNCHANGED <<jobVars, from, asked>>
         /\ Visual' = Visual /\ Batch' = Batch /\ Last(from)' = Last(from)
         /\ task'[i] = t /\ \A j \in Visual : j # i => task'[j] = task[j]
         /\ task[i].state \in Live
         /\ \A j \in Visual : Digest(j, asked)' = Digest(j, asked)
         /\ \A j \in Batch : j \in Visual
<1>1. at = "asking" /\ i \in Of(Image) /\ file[i] \in Image /\ task[i].state \in Live
  BY DEF Moves, TypeInv, RequestsAreOfTheBatch, Live, Of
<1>2. /\ UNCHANGED <<jobVars, from, asked, at>> /\ asked \in Prompt
      /\ task'[i] = t /\ \A j \in Visual : j # i => task'[j] = task[j]
  BY DEF Moves, TaskEffects, TypeInv, TypeOK
<1>3. Visual' = Visual /\ Batch' = Batch /\ Last(from)' = Last(from)
      /\ \A j \in Visual : Digest(j, asked)' = Digest(j, asked)
  BY <1>2 DEF jobVars, Visual, Batch, Last, Digest
<1>4. \A j \in Batch : j \in Visual
  BY FileShape DEF TypeInv
<1>5. QED
  BY <1>1, <1>2, <1>3, <1>4

LEMMA MoveKeepsSlots ==
  ASSUME TypeInv, SlotInv, NEW i \in Visual, NEW t, Moves(i, t),
         t.state \notin {"none", "done"}, UNCHANGED <<slot, cache>>
  PROVE  SlotInv'
<1> USE MoveFacts
<1>1. CacheIsFaithful' /\ BatchesAreFilled' /\ FileIsFilled'
  BY DEF SlotInv, CacheIsFaithful, BatchesAreFilled, FileIsFilled
<1>2. OneRequestPerImage'
  BY DEF SlotInv, OneRequestPerImage, Live, jobVars
<1>3. NotAskedBefore'
  BY DEF SlotInv, NotAskedBefore, Live
<1>4. OpenSlotsAreAwaited'
  BY DEF SlotInv, OpenSlotsAreAwaited, jobVars
<1>5. BatchIsBeingFilled'
  <2>1. \A j \in Visual : Fits(j)' = Fits(j)
    BY DEF Fits, jobVars
  <2>2. QED
    BY <2>1 DEF SlotInv, BatchIsBeingFilled
<1>6. QED
  BY <1>1, <1>2, <1>3, <1>4, <1>5 DEF SlotInv

LEMMA AnswerKeepsSlots ==
  ASSUME TypeInv, SlotInv, NEW i \in Visual, NEW t, Moves(i, t), t.state \in {"done", "failed"},
         Answered(i)
  PROVE  SlotInv'
<1> USE MoveFacts
<1>1. /\ slot' = [j \in Visual |-> IF j \in SameImage(i) THEN Text(i, asked) ELSE slot[j]]
      /\ cache' = [cache EXCEPT ![Digest(i, asked)] = Text(i, asked)] \/ UNCHANGED cache
  BY DEF Answered, Describe
<1>2. /\ Text(i, asked).text = "described" /\ Text(i, asked).image = file[i]
      /\ Text(i, asked).prompt = asked /\ Text(i, asked) # Nothing
      /\ Digest(i, asked) \in Key /\ Digest(i, asked).image = file[i]
      /\ Digest(i, asked).prompt = asked
  BY TextShape, SlotShapes
<1>3. \A j \in Visual : j \in SameImage(i) <=> j \in Batch /\ file[j] = file[i]
  BY DEF SameImage, Of
<1>4. CacheIsFaithful'
  BY <1>1, <1>2 DEF SlotInv, CacheIsFaithful, TypeInv, TypeOK
<1>5. OneRequestPerImage'
  BY DEF SlotInv, OneRequestPerImage, Live, jobVars
<1>6. NotAskedBefore'
  <2>1. ASSUME NEW j \in Visual, task'[j].state \in Live
        PROVE  cache'[Digest(j, asked)] = Nothing
    <3>1. j # i /\ task[j].state \in Live
      BY <2>1 DEF Live
    <3>2. file[j] # file[i] /\ cache[Digest(j, asked)] = Nothing
      BY <3>1 DEF SlotInv, OneRequestPerImage, NotAskedBefore, Live
    <3>3. Digest(j, asked) \in Key /\ Digest(j, asked) # Digest(i, asked)
      <4>1. file[j] \in Image
        BY <3>1 DEF TypeInv, RequestsAreOfTheBatch, Of, Live
      <4>2. QED
        BY <1>2, <3>2, <4>1, TextShape
    <3>4. QED
      BY <1>1, <3>2, <3>3 DEF TypeInv, TypeOK
  <2>2. QED
    BY <2>1 DEF NotAskedBefore
<1>7. OpenSlotsAreAwaited'
  <2>1. ASSUME NEW k \in Batch, slot'[k] = Nothing
        PROVE  /\ file[k] \in Image
               /\ \E j \in Batch : file[j] = file[k] /\ task'[j].state \notin {"none", "done"}
    <3>1. file[k] # file[i] /\ slot[k] = Nothing
      BY <1>1, <1>2, <1>3, <2>1
    <3>2. file[k] \in Image
      BY <3>1 DEF SlotInv, OpenSlotsAreAwaited
    <3>3. PICK j \in Batch : file[j] = file[k] /\ task[j].state \notin {"none", "done"}
      BY <3>1 DEF SlotInv, OpenSlotsAreAwaited
    <3>4. task'[j] = task[j]
      BY <3>1, <3>3
    <3>5. QED
      BY <3>2, <3>3, <3>4
  <2>2. QED
    BY <2>1 DEF OpenSlotsAreAwaited, jobVars
<1>8. BatchIsBeingFilled'
  <2>1. ASSUME NEW j \in Visual, j \in SameImage(i)
        PROVE  Fits(j)' /\ slot'[j].prompt = asked /\ slot'[j] # Nothing /\ j \in Batch
    <3>1. slot'[j] = Text(i, asked) /\ file[j] = file[i] /\ j \in Batch
      BY <1>1, <1>3, <2>1
    <3>2. QED
      BY <1>2, <3>1 DEF Fits, jobVars
  <2>2. ASSUME NEW j \in Visual, j \notin SameImage(i)
        PROVE  slot'[j] = slot[j] /\ Fits(j)' = Fits(j)
    BY <1>1, <2>2 DEF Fits, jobVars
  <2>3. \A j \in Batch : ~(j <= from) /\ ~(j > Last(from))
    BY FileShape DEF TypeInv
  <2>4. QED
    BY <2>1, <2>2, <2>3 DEF SlotInv, BatchIsBeingFilled
<1>9. BatchesAreFilled' /\ FileIsFilled'
  BY DEF BatchesAreFilled, FileIsFilled
<1>10. QED
  BY <1>4, <1>5, <1>6, <1>7, <1>8, <1>9 DEF SlotInv

\* Every step of a request is a move; only an answer ends one well.
LEMMA RequestMoves ==
  ASSUME TypeInv, NEW i \in Visual, Request(i)
  PROVE  \E t \in Task :
           /\ Moves(i, t)
           /\ \/ Answered(i) /\ t.state \in {"done", "failed"}
                 /\ ("cacheerror" \in Env \/ t.state = "done")
              \/ /\ t.state \in {"asking", "resting", "failed", "signal"}
                 /\ UNCHANGED <<slot, cache>>
           /\ t.state = "signal" \/ UNCHANGED heard
<1>1. task[i] \in Task /\ task[i].attempt \in 0..MaxAttempts
  BY TaskShapes DEF TypeInv, TypeOK
<1>2. ASSUME NEW s \in TaskState, Becomes(i, s)
      PROVE  \E t \in Task : t.state = s /\ task' = [task EXCEPT ![i] = t]
  BY <1>1, <1>2, TaskShapes DEF Becomes
<1>3. {"asking", "resting", "done", "failed", "signal"} \subseteq TaskState
  BY DEF TaskState
<1>4. CASE Ask(i)
  <2>1. [state |-> "asking", attempt |-> 1] \in Task
    BY VisualConstants DEF Task, TaskState
  <2>2. QED
    BY <1>4, <2>1 DEF Ask, Moves, Live
<1>5. CASE AskAgain(i)
  <2>1. task[i].attempt < MaxAttempts
    BY <1>5 DEF AskAgain, TypeInv, RequestsAreOfTheBatch
  <2>2. [state |-> "asking", attempt |-> task[i].attempt + 1] \in Task
    BY <1>1, <2>1, VisualConstants DEF Task, TaskState
  <2>3. QED
    BY <1>5, <2>2 DEF AskAgain, Moves, Live
<1>6. CASE Answered(i)
  <2>1. task[i].state \in Live /\ UNCHANGED <<TaskEffects, heard>>
    BY <1>6 DEF Answered, Live
  <2>2. CASE Becomes(i, "done")
    BY <1>2, <1>3, <1>6, <2>1, <2>2 DEF Moves
  <2>3. CASE Becomes(i, "failed") /\ "cacheerror" \in Env
    BY <1>2, <1>3, <1>6, <2>1, <2>3 DEF Moves
  <2>4. QED
    BY <1>6, <2>2, <2>3 DEF Answered
<1>7. CASE AnsweredEmpty(i)
  <2>1. task[i].state \in Live /\ Becomes(i, "failed")
        /\ UNCHANGED <<TaskEffects, slot, cache, heard>>
    BY <1>7 DEF AnsweredEmpty, Live
  <2>2. QED
    BY <1>2, <1>3, <2>1 DEF Moves
<1>8. CASE RequestFails(i)
  <2>1. task[i].state \in Live /\ UNCHANGED <<TaskEffects, slot, cache>>
    BY <1>8 DEF RequestFails, Live
  <2>2. PICK s \in {"failed", "resting", "signal"} :
          Becomes(i, s) /\ (s = "signal" \/ UNCHANGED heard)
    BY <1>8 DEF RequestFails
  <2>3. QED
    BY <1>2, <1>3, <2>1, <2>2 DEF Moves
<1>9. CASE BeatStops(i)
  <2>1. task[i].state \in Live /\ Becomes(i, "signal") /\ UNCHANGED <<TaskEffects, slot, cache>>
    BY <1>9 DEF BeatStops, Live
  <2>2. QED
    BY <1>2, <1>3, <2>1 DEF Moves
<1>10. QED
  BY <1>4, <1>5, <1>6, <1>7, <1>8, <1>9 DEF Request

LEMMA SettleKeepsSlots == ASSUME TypeInv, SlotInv, Settle PROVE SlotInv'
<1>1. /\ UNCHANGED <<jobVars, cache, asked, task>> /\ Visual' = Visual /\ at = "asking"
      /\ \A i \in Visual : task[i].state \in {"none", "done", "failed", "signal"}
  BY DEF Settle, jobVars, Visual, Gathered
<1>2. CacheIsFaithful'
  BY <1>1 DEF SlotInv, CacheIsFaithful
<1>3. CASE at' \in {"interrupted", "failed"}
  BY <1>2, <1>3 DEF SlotInv, OneRequestPerImage, NotAskedBefore, OpenSlotsAreAwaited,
                    BatchesAreFilled, BatchIsBeingFilled, FileIsFilled
<1>4. CASE PassOn /\ InState("signal") = {} /\ Bearable
  <2>1. /\ from' = Last(from)
        /\ at' = IF Last(from) = Len(file) THEN "extracted" ELSE "batch"
        /\ slot' = [i \in Visual |-> IF i \in Refused THEN Mark("refused") ELSE slot[i]]
    BY <1>4 DEF PassOn
  <2>2. /\ Visual = 1..Len(file) /\ Len(file) \in Nat
        /\ from \in Nat /\ Last(from) \in Nat /\ from <= Last(from)
        /\ Batch = (from + 1)..Last(from) /\ Batch \subseteq Visual
    BY FileShape DEF TypeInv
  <2>3. ASSUME NEW i \in Refused PROVE i \in Batch /\ file[i] \in Image /\ format.partial
    <3>1. PICK j \in InState("failed") : i \in SameImage(j)
      BY DEF Refused
    <3>2. j \in Of(Image)
      BY <1>1, <3>1 DEF InState, TypeInv, RequestsAreOfTheBatch
    <3>3. format.partial
      BY <1>4, <3>1 DEF Bearable
    <3>4. QED
      BY <3>1, <3>2, <3>3 DEF SameImage, Of
  <2>4. ASSUME NEW i \in Visual, i <= Last(from) PROVE Fits(i)'
    <3>1. CASE i \in Refused
      BY <1>1, <2>1, <2>3, <3>1 DEF Fits, jobVars
    <3>2. CASE i \notin Refused /\ slot[i] # Nothing
      <4>1. i <= from \/ i \in Batch
        BY <2>2, <2>4
      <4>2. Fits(i)
        BY <1>1, <3>2, <4>1 DEF SlotInv, BatchIsBeingFilled
      <4>3. QED
        BY <1>1, <2>1, <3>2, <4>2 DEF Fits, jobVars
    <3>3. CASE i \in Batch /\ slot[i] = Nothing
      <4>1. PICK j \in Batch : file[j] = file[i] /\ task[j].state \notin {"none", "done"}
        BY <1>1, <3>3 DEF SlotInv, OpenSlotsAreAwaited
      <4>2. j \in InState("failed")
        BY <1>1, <1>4, <2>2, <4>1 DEF InState
      <4>3. file[i] \in Image
        BY <1>1, <3>3 DEF SlotInv, OpenSlotsAreAwaited
      <4>4. i \in SameImage(j)
        BY <3>3, <4>1, <4>3 DEF SameImage, Of
      <4>5. QED
        BY <3>1, <4>2, <4>4 DEF Refused
    <3>4. CASE i <= from /\ slot[i] = Nothing
      <4>1. Fits(i)
        BY <1>1, <3>4 DEF SlotInv, BatchIsBeingFilled
      <4>2. QED
        BY <3>4, <4>1, SlotShapes DEF Fits
    <3>5. QED
      BY <2>2, <2>4, <3>1, <3>2, <3>3, <3>4
  <2>5. ASSUME NEW i \in Visual, i > Last(from) PROVE slot'[i] = Nothing
    <3>1. slot[i] = Nothing
      BY <1>1, <2>5 DEF SlotInv, BatchIsBeingFilled
    <3>2. i \notin Refused
      BY <2>2, <2>3, <2>5
    <3>3. QED
      BY <2>1, <3>1, <3>2
  <2>6. BatchesAreFilled'
    BY <1>1, <2>1, <2>2, <2>4, <2>5 DEF BatchesAreFilled
  <2>7. FileIsFilled'
    BY <1>1, <2>1, <2>2, <2>4 DEF FileIsFilled
  <2>8. QED
    BY <1>2, <2>1, <2>6, <2>7
       DEF SlotInv, OneRequestPerImage, NotAskedBefore, OpenSlotsAreAwaited, BatchIsBeingFilled
<1>5. QED
  BY <1>3, <1>4 DEF Settle

LEMMA StepKeepsSlots == TypeInv /\ SlotInv /\ [Next]_vars => SlotInv'
<1> SUFFICES ASSUME TypeInv, SlotInv, [Next]_vars PROVE SlotInv'
  OBVIOUS
<1>1. CASE Interrupt \/ Finish \/ RefuseBatch \/ ExtractionFails \/ ThreadBeats
  <2>1. /\ UNCHANGED <<jobVars, cache, from, asked, slot, task>>
        /\ \/ at' = at
           \/ at' \in {"interrupted", "failed"}
           \/ at = "extracted" /\ at' = "returned"
    BY <1>1 DEF Interrupt, Finish, RefuseBatch, ExtractionFails, ThreadBeats, Beat
  <2>2. QED
    BY <2>1, RestKeepsSlots
<1>2. CASE Suspend \/ Resume \/ ChangePrompt
  BY <1>2, RestKeepsSlots DEF Suspend, Resume, ChangePrompt
<1>3. CASE UNCHANGED vars
  BY <1>3, RestKeepsSlots DEF vars
<1>4. ASSUME NEW i \in Visual, Request(i) PROVE SlotInv'
  BY <1>4, RequestMoves, MoveKeepsSlots, AnswerKeepsSlots
<1>5. QED
  BY <1>1, <1>2, <1>3, <1>4, StartKeepsSlots, PlanKeepsSlots, SettleKeepsSlots, CrashKeepsSlots
     DEF Next, Convert

LEMMA SlotsInvariant == Spec => []SlotInv
  BY SlotInit, StepKeepsSlots, TypesInvariant, PTL DEF Spec

\* Every visual of a converted file has the text of its own image or the fallback of its
\* kind, however requests overlap, fail, share a text or meet a cached one
\* (document_conversion.py:1242-1481).
THEOREM EveryVisualHasItsTextHolds == Spec => []EveryVisualHasItsText
<1>1. TypeInv /\ SlotInv => EveryVisualHasItsText
  <2>1. ASSUME SlotInv, at \in {"extracted", "returned"}, NEW i \in Visual
        PROVE  CASE slot[i].text = "described" -> file[i] = slot[i].image
                 [] slot[i] = Mark("refused") -> format.partial /\ file[i] \in Image
                 [] slot[i] = Mark("broken") -> format.partial /\ file[i] = "broken"
                 [] OTHER -> slot[i] = Mark("legacy") /\ file[i] = "legacy"
    <3>1. Fits(i)
      BY <2>1 DEF SlotInv, FileIsFilled
    <3>2. /\ Mark("refused").text = "refused" /\ Mark("broken").text = "broken"
          /\ Mark("legacy").text = "legacy"
      BY SlotShapes
    <3>3. QED
      BY <3>1, <3>2 DEF Fits
  <2>2. QED
    BY <2>1 DEF EveryVisualHasItsText
<1>2. QED
  BY <1>1, TypesInvariant, SlotsInvariant, PTL

\* No batch takes a text made with another prompt than its own: the digest holds the
\* prompt, so a text found under it was asked for with it (document_conversion.py:1309-1330).
THEOREM TextsAreOfThePromptHolds == Spec => []TextsAreOfThePrompt
<1>1. TypeInv /\ SlotInv => TextsAreOfThePrompt
  <2>1. ASSUME TypeInv, SlotInv, at = "asking", NEW i \in Of(Image), slot[i].text = "described"
        PROVE  slot[i].prompt = asked
    <3>1. i \in Batch /\ i \in Visual
      BY <2>1, FileShape DEF Of, TypeInv
    <3>2. QED
      BY <2>1, <3>1, SlotShapes DEF SlotInv, BatchIsBeingFilled
  <2>2. QED
    BY <2>1 DEF TextsAreOfThePrompt
<1>2. QED
  BY <1>1, TypesInvariant, SlotsInvariant, PTL

\* What has an answer in the cache is not asked for, by whatever other request of the batch
\* the answer came (document_conversion.py:1331-1345).
THEOREM NothingIsAskedTwiceHolds == Spec => []NothingIsAskedTwice
<1>1. SlotInv => NothingIsAskedTwice
  BY DEF SlotInv, NotAskedBefore, NothingIsAskedTwice, Live
<1>2. QED
  BY <1>1, SlotsInvariant, PTL

-----------------------------------------------------------------------------
(* The control signal                                                      *)

\* A heartbeat that met a paused or stopped job is not lost: the thread keeps it, a
\* request that stopped for it, or the conversion has ended for it.
SignalInv ==
  /\ thread # "off" => format.beating
  /\ thread = "signal" => at # "returned"
  /\ heard => \/ thread = "signal"
              \/ at \in {"idle", "interrupted"}
              \/ at = "asking" /\ InState("signal") # {}
              \/ at = "failed" /\ format.beating

LEMMA SignalInit == Init => SignalInv
  BY DEF Init, SignalInv

LEMMA StepKeepsSignal == TypeInv /\ SignalInv /\ [Next]_vars => SignalInv'
<1> SUFFICES ASSUME TypeInv, SignalInv, [Next]_vars PROVE SignalInv'
  OBVIOUS
<1>1. CASE StartConversion
  BY <1>1 DEF StartConversion, Beat, SignalInv, jobVars
<1>2. CASE Interrupt \/ RefuseBatch \/ ExtractionFails \/ PlanBatch
  BY <1>2 DEF Interrupt, RefuseBatch, ExtractionFails, PlanBatch, SignalInv, jobVars
<1>3. CASE Finish
  BY <1>3 DEF Finish, Beat, SignalInv, jobVars
<1>4. CASE ThreadBeats
  <2>1. InState("signal")' = InState("signal")
    BY <1>4 DEF ThreadBeats, InState, Visual, jobVars
  <2>2. QED
    BY <1>4, <2>1 DEF ThreadBeats, SignalInv, jobVars, Over
<1>5. CASE Suspend \/ Resume \/ ChangePrompt \/ UNCHANGED vars
  <2>1. UNCHANGED <<jobVars, at, thread, task, heard>>
    BY <1>5 DEF Suspend, Resume, ChangePrompt, vars
  <2>2. InState("signal")' = InState("signal")
    BY <2>1 DEF InState, Visual, jobVars
  <2>3. QED
    BY <2>1, <2>2 DEF SignalInv, jobVars
<1>6. CASE WorkerCrash
  BY <1>6 DEF WorkerCrash, SignalInv, jobVars
<1>7. CASE Settle
  BY <1>7 DEF Settle, PassOn, SignalInv, Bearable, jobVars
<1>8. ASSUME NEW i \in Visual, Request(i) PROVE SignalInv'
  <2>1. PICK t : Moves(i, t) /\ (t.state = "signal" \/ UNCHANGED heard)
    BY <1>8, RequestMoves
  <2>2. InState("signal") \subseteq InState("signal")'
        /\ (t.state = "signal" => InState("signal")' # {})
    BY <2>1, MoveFacts DEF InState, Live
  <2>3. UNCHANGED <<jobVars, at, thread>> /\ at = "asking"
    BY <2>1, MoveFacts DEF Moves, TaskEffects
  <2>4. QED
    BY <2>1, <2>2, <2>3 DEF SignalInv, jobVars
<1>9. QED
  BY <1>1, <1>2, <1>3, <1>4, <1>5, <1>6, <1>7, <1>8 DEF Next, Convert

\* A conversion that has met a paused, stopped or deleted job produces no artifact, and
\* fails only behind the thread of a presentation (document_conversion.py:110-177,
\* 1430-1441), also when the job goes on meanwhile.
THEOREM InterruptedIsNotConvertedHolds == Spec => []InterruptedIsNotConverted
<1>1. SignalInv => InterruptedIsNotConverted
  BY DEF SignalInv, InterruptedIsNotConverted
<1>2. QED
  BY <1>1, SignalInit, StepKeepsSignal, TypesInvariant, PTL DEF Spec

-----------------------------------------------------------------------------
(* Evidence                                                                *)

\* The assumption: the file of a text can be written once the text is in its slots.
\* Otherwise the request counts as failed and its text as refused.
CacheWrites == "cacheerror" \notin Env

OpenRequestsHaveNoText == at = "asking" => \A i \in Visual :
  task[i].state \notin {"none", "done"} => \A j \in SameImage(i) : slot[j] = Nothing

BatchTextsAreEvidence == at = "asking" => \A i \in Of(Image) :
  slot[i] # Nothing => slot[i].text = "described"

Described(n) == (\E i \in Visual : i <= n /\ file[i] \in Image) =>
                  \E i \in Visual : i <= n /\ slot[i].text = "described"

EvidenceInv ==
  /\ OpenRequestsHaveNoText /\ BatchTextsAreEvidence
  /\ at \in {"batch", "asking"} => Described(from)
  /\ at \in {"extracted", "returned"} => Described(Len(file))

LEMMA EvidenceInit == Init => EvidenceInv
<1> SUFFICES ASSUME Init PROVE EvidenceInv
  OBVIOUS
<1>1. at = "idle"
  BY DEF Init
<1>2. QED
  BY <1>1 DEF EvidenceInv, OpenRequestsHaveNoText, BatchTextsAreEvidence

LEMMA RestKeepsEvidence ==
  ASSUME EvidenceInv, UNCHANGED <<jobVars, from, slot, task>>,
         \/ at' = at
         \/ at' \in {"interrupted", "failed"}
         \/ at = "extracted" /\ at' = "returned"
  PROVE  EvidenceInv'
<1>1. /\ Visual' = Visual /\ Of(Image)' = Of(Image) /\ UNCHANGED <<file, from>>
      /\ \A i \in Visual : SameImage(i)' = SameImage(i)
  BY DEF jobVars, Visual, Batch, Last, Of, SameImage
<1>2. OpenRequestsHaveNoText' /\ BatchTextsAreEvidence'
  BY <1>1 DEF EvidenceInv, OpenRequestsHaveNoText, BatchTextsAreEvidence
<1>3. Described(from)' = Described(from) /\ Described(Len(file))' = Described(Len(file))
  BY <1>1 DEF Described
<1>4. QED
  BY <1>2, <1>3 DEF EvidenceInv

LEMMA StartKeepsEvidence ==
  ASSUME TypeInv, StartConversion \/ WorkerCrash
  PROVE  EvidenceInv'
<1>1. at' \in {"batch", "interrupted", "idle"} /\ Visual' = Visual
      /\ (at' = "batch" => from' = 0)
  BY DEF StartConversion, Beat, WorkerCrash, jobVars, Visual
<1>2. \A i \in Visual : ~(i <= 0)
  BY FileShape DEF TypeInv
<1>3. QED
  BY <1>1, <1>2 DEF EvidenceInv, OpenRequestsHaveNoText, BatchTextsAreEvidence, Described

LEMMA PlanKeepsEvidence ==
  ASSUME TypeInv, SlotInv, EvidenceInv, PlanBatch
  PROVE  EvidenceInv'
<1>1. /\ at = "batch" /\ at' = "asking" /\ UNCHANGED <<jobVars, from>>
      /\ Visual' = Visual /\ Of(Image)' = Of(Image)
      /\ \A i \in Visual : SameImage(i)' = SameImage(i)
      /\ slot' = [i \in Visual |-> CASE i \in Of({"legacy", "broken"}) -> Mark(file[i])
                                     [] i \in Hits -> cache[Digest(i, prompt)]
                                     [] OTHER -> slot[i]]
      /\ task' = [i \in Visual |-> IF i \in Pending THEN [NoTask EXCEPT !.state = "waiting"]
                                   ELSE NoTask]
  BY DEF PlanBatch, jobVars, Visual, Batch, Last, Of, SameImage
<1>2. /\ \A i \in Batch : i \in Visual /\ ~(i <= from)
      /\ \A i \in Of(Image) : i \in Batch /\ file[i] \in Image /\ i \notin Of({"legacy", "broken"})
      /\ \A i \in Of({"legacy", "broken"}) : i \in Batch
      /\ Hits \subseteq Of(Image)
  BY FileShape, VisualConstants DEF Of, TypeInv, Hits
<1>3. \A i \in Of(Image) : slot[i] = Nothing
  BY <1>1, <1>2 DEF SlotInv, BatchesAreFilled
<1>4. \A i \in Of(Image) \ Hits : slot'[i] = Nothing
  BY <1>1, <1>2, <1>3
<1>5. ASSUME NEW i \in Hits PROVE slot'[i].text = "described"
  <2>1. slot'[i] = cache[Digest(i, prompt)]
    BY <1>1, <1>2
  <2>2. Digest(i, prompt) \in Key /\ cache[Digest(i, prompt)] # Nothing
    BY TextShape DEF Hits, Of, TypeInv, TypeOK
  <2>3. cache[Digest(i, prompt)] \in Texts
    BY <2>2 DEF TypeInv, TypeOK
  <2>4. QED
    BY <2>1, <2>3, SlotShapes
<1>6. BatchTextsAreEvidence'
  BY <1>1, <1>4, <1>5 DEF BatchTextsAreEvidence
<1>7. OpenRequestsHaveNoText'
  <2>1. \A i \in Visual : task'[i].state # "none" => i \in Pending
    BY <1>1, TaskShapes
  <2>2. ASSUME NEW i \in Pending, NEW j \in SameImage(i) PROVE slot'[j] = Nothing
    <3>1. i \in Of(Image) \ Hits /\ j \in Of(Image) /\ file[j] = file[i]
      BY <2>2, PendingShape DEF SameImage
    <3>2. j \notin Hits
      BY <3>1 DEF Hits, Digest
    <3>3. QED
      BY <1>4, <3>1, <3>2
  <2>3. QED
    BY <1>1, <2>1, <2>2 DEF OpenRequestsHaveNoText
<1>8. Described(from)'
  <2>1. \A i \in Visual : i <= from => slot'[i] = slot[i]
    BY <1>1, <1>2
  <2>2. Described(from)
    BY <1>1 DEF EvidenceInv
  <2>3. QED
    BY <1>1, <2>1, <2>2 DEF Described, jobVars
<1>9. QED
  BY <1>1, <1>6, <1>7, <1>8 DEF EvidenceInv

LEMMA RequestKeepsEvidence ==
  ASSUME CacheWrites, TypeInv, SlotInv, EvidenceInv, NEW i \in Visual, Request(i)
  PROVE  EvidenceInv'
<1>1. PICK t \in Task :
        /\ Moves(i, t)
        /\ \/ Answered(i) /\ t.state = "done"
           \/ /\ t.state \in {"asking", "resting", "failed", "signal"}
              /\ UNCHANGED <<slot, cache>>
  BY RequestMoves DEF CacheWrites
<1> USE MoveFacts
<1>2. /\ \A j \in Visual : SameImage(j)' = SameImage(j)
      /\ Of(Image)' = Of(Image) /\ Of(Image) \subseteq Batch
      /\ at = "asking" /\ at' = "asking" /\ UNCHANGED <<jobVars, from>> /\ Visual' = Visual
  BY <1>1 DEF SameImage, Of, jobVars
<1>3. CASE t.state \in {"asking", "resting", "failed", "signal"} /\ UNCHANGED <<slot, cache>>
  <2>1. OpenRequestsHaveNoText' /\ BatchTextsAreEvidence'
    BY <1>1, <1>2, <1>3 DEF EvidenceInv, OpenRequestsHaveNoText, BatchTextsAreEvidence, Live
  <2>2. Described(from)'
    BY <1>2, <1>3 DEF EvidenceInv, Described, jobVars
  <2>3. QED
    BY <1>2, <2>1, <2>2 DEF EvidenceInv
<1>4. CASE Answered(i) /\ t.state = "done"
  <2>1. slot' = [j \in Visual |-> IF j \in SameImage(i) THEN Text(i, asked) ELSE slot[j]]
    BY <1>4 DEF Answered, Describe
  <2>2. Text(i, asked).text = "described"
    BY <1>1, TextShape
  <2>3. OpenRequestsHaveNoText'
    <3>1. ASSUME NEW k \in Visual, task'[k].state \notin {"none", "done"},
                 NEW j \in SameImage(k)
          PROVE  slot'[j] = Nothing
      <4>1. k # i /\ task[k].state \notin {"none", "done"}
        BY <1>1, <1>4, <3>1
      <4>2. file[k] # file[i]
        BY <1>1, <1>2, <4>1 DEF SlotInv, OneRequestPerImage, Live
      <4>3. j \notin SameImage(i) /\ j \in Visual
        BY <1>1, <1>2, <3>1, <4>2 DEF SameImage
      <4>4. slot[j] = Nothing
        BY <1>2, <3>1, <4>1 DEF EvidenceInv, OpenRequestsHaveNoText
      <4>5. QED
        BY <2>1, <4>3, <4>4
    <3>2. QED
      BY <1>2, <3>1 DEF OpenRequestsHaveNoText
  <2>4. BatchTextsAreEvidence'
    BY <1>1, <1>2, <2>1, <2>2 DEF EvidenceInv, BatchTextsAreEvidence
  <2>5. Described(from)'
    <3>1. \A j \in Batch : ~(j <= from)
      BY FileShape DEF TypeInv
    <3>2. \A j \in Visual : j <= from => slot'[j] = slot[j]
      BY <1>2, <2>1, <3>1 DEF SameImage
    <3>3. QED
      BY <1>2, <3>2 DEF EvidenceInv, Described, jobVars
  <2>6. QED
    BY <1>2, <2>3, <2>4, <2>5 DEF EvidenceInv
<1>5. QED
  BY <1>1, <1>3, <1>4

\* A batch that is passed on has a text of the model if it has an image.
LEMMA SettleKeepsEvidence ==
  ASSUME TypeInv, SlotInv, EvidenceInv, Settle
  PROVE  EvidenceInv'
<1>1. /\ UNCHANGED <<jobVars, task>> /\ Visual' = Visual /\ at = "asking"
      /\ \A i \in Visual : task[i].state \in {"none", "done", "failed", "signal"}
  BY DEF Settle, jobVars, Visual, Gathered
<1>2. CASE at' \in {"interrupted", "failed"}
  BY <1>2 DEF EvidenceInv, OpenRequestsHaveNoText, BatchTextsAreEvidence
<1>3. CASE PassOn /\ InState("signal") = {} /\ Bearable
  <2>1. /\ from' = Last(from)
        /\ at' = IF Last(from) = Len(file) THEN "extracted" ELSE "batch"
        /\ slot' = [i \in Visual |-> IF i \in Refused THEN Mark("refused") ELSE slot[i]]
    BY <1>3 DEF PassOn
  <2>2. /\ \A i \in Visual : i \in Nat
        /\ from \in Nat /\ Last(from) \in Nat /\ from <= Last(from)
        /\ Batch = (from + 1)..Last(from) /\ Batch \subseteq Visual
    BY FileShape DEF TypeInv
  <2>3. ASSUME NEW i \in Refused
        PROVE  i \in Batch /\ slot[i] = Nothing /\ InState("failed") # {}
    <3>1. PICK j \in InState("failed") : i \in SameImage(j)
      BY DEF Refused
    <3>2. slot[i] = Nothing
      BY <1>1, <3>1 DEF InState, EvidenceInv, OpenRequestsHaveNoText
    <3>3. QED
      BY <3>1, <3>2 DEF SameImage, Of
  <2>4. ASSUME NEW i \in Visual, slot[i].text = "described" PROVE slot'[i].text = "described"
    BY <2>1, <2>3, <2>4, SlotShapes
  <2>5. ASSUME NEW i \in Visual, i <= Last(from), file[i] \in Image
        PROVE  \E j \in Visual : j <= Last(from) /\ slot'[j].text = "described"
    <3>1. CASE i <= from
      <4>1. PICK j \in Visual : j <= from /\ slot[j].text = "described"
        BY <1>1, <2>5, <3>1 DEF EvidenceInv, Described
      <4>2. QED
        BY <2>2, <2>4, <4>1
    <3>2. CASE i \in Batch
      <4>1. i \in Of(Image)
        BY <2>5, <3>2 DEF Of
      <4>2. CASE InState("failed") = {}
        <5>1. slot[i] # Nothing
          <6> SUFFICES ASSUME slot[i] = Nothing PROVE FALSE
            OBVIOUS
          <6>1. PICK j \in Batch : task[j].state \notin {"none", "done"}
            BY <1>1, <3>2 DEF SlotInv, OpenSlotsAreAwaited
          <6>2. QED
            BY <1>1, <1>3, <2>2, <4>2, <6>1 DEF InState
        <5>2. slot[i].text = "described"
          BY <1>1, <4>1, <5>1 DEF EvidenceInv, BatchTextsAreEvidence
        <5>3. QED
          BY <2>4, <2>5, <5>2
      <4>3. CASE Evidence # {}
        <5>1. PICK j \in Of(Image) : slot[j] # Nothing
          BY <4>3 DEF Evidence
        <5>2. j \in Batch /\ slot[j].text = "described"
          BY <1>1, <5>1 DEF EvidenceInv, BatchTextsAreEvidence, Of
        <5>3. QED
          BY <2>2, <2>4, <5>2
      <4>4. QED
        BY <1>3, <4>2, <4>3 DEF Bearable
    <3>3. QED
      BY <2>2, <2>5, <3>1, <3>2
  <2>6. \A n : n = Last(from) => Described(n)'
    BY <1>1, <2>5 DEF Described, jobVars
  <2>7. at' = "batch" => Described(from)'
    BY <2>1, <2>6 DEF Described
  <2>8. at' = "extracted" => Described(Len(file))'
    BY <1>1, <2>1, <2>6 DEF Described, jobVars
  <2>9. QED
    BY <2>1, <2>7, <2>8 DEF EvidenceInv, OpenRequestsHaveNoText, BatchTextsAreEvidence
<1>4. QED
  BY <1>2, <1>3 DEF Settle

LEMMA StepKeepsEvidence ==
  ASSUME CacheWrites, TypeInv, SlotInv, EvidenceInv, [Next]_vars
  PROVE  EvidenceInv'
<1>1. CASE Interrupt \/ Finish \/ RefuseBatch \/ ExtractionFails \/ ThreadBeats
  <2>1. /\ UNCHANGED <<jobVars, from, slot, task>>
        /\ \/ at' = at
           \/ at' \in {"interrupted", "failed"}
           \/ at = "extracted" /\ at' = "returned"
    BY <1>1 DEF Interrupt, Finish, RefuseBatch, ExtractionFails, ThreadBeats, Beat
  <2>2. QED
    BY <2>1, RestKeepsEvidence
<1>2. CASE Suspend \/ Resume \/ ChangePrompt
  BY <1>2, RestKeepsEvidence DEF Suspend, Resume, ChangePrompt
<1>3. CASE UNCHANGED vars
  BY <1>3, RestKeepsEvidence DEF vars
<1>4. QED
  BY <1>1, <1>2, <1>3, StartKeepsEvidence, PlanKeepsEvidence, RequestKeepsEvidence,
     SettleKeepsEvidence DEF Next, Convert

LEMMA EvidenceInvariant == ASSUME CacheWrites PROVE Spec => []EvidenceInv
<1>1. TypeInv /\ SlotInv /\ EvidenceInv /\ [Next]_vars => EvidenceInv'
  BY StepKeepsEvidence
<1>2. QED
  BY <1>1, EvidenceInit, TypesInvariant, SlotsInvariant, PTL DEF Spec

\* A file with images is not converted to fallbacks alone, as long as the cache can be
\* written (document_conversion.py:713-714, 1442-1453).
THEOREM SomeEvidenceIsKeptHolds == CacheWrites => (Spec => []SomeEvidenceIsKept)
<1> SUFFICES ASSUME CacheWrites PROVE Spec => []SomeEvidenceIsKept
  OBVIOUS
<1>1. TypeInv /\ EvidenceInv => SomeEvidenceIsKept
  <2>1. TypeInv => \A i \in Visual : i <= Len(file)
    BY FileShape DEF TypeInv
  <2>2. QED
    BY <2>1 DEF EvidenceInv, Described, SomeEvidenceIsKept
<1>2. QED
  BY <1>1, TypesInvariant, EvidenceInvariant, PTL
=============================================================================

# A verification development of mini-kb-agent

mini-kb-agent is a single-container knowledge base: an administrator uploads
source files, a background Worker converts them to Markdown and builds an
immutable index of them, and users ask questions that a chain of model calls
answers from that index.  This directory holds TLA+ models of its stateful
parts, the TLC configurations that check them on small instances, and TLAPS
proofs of what holds for every instance.  Line numbers are those of `src/`.

## 1. Inventory

### Processes

`supervisord.conf` runs two processes on one SQLite database (`app.db`, WAL
mode, foreign keys on, `app/db.py:18-28`) and one Huey queue (`queue.db`):

* **Web** (uvicorn, FastAPI).  Synchronous handlers run in a thread pool, so
  admin requests overlap; the lifespan handler (`app/main.py:54-75`) recovers
  stale jobs before the first request is served.
* **Worker** (`huey_consumer -w 1 -k thread`).  Importing `app/tasks/consumer.py`
  reconciles the jobs table, then one thread takes deliveries.  While a document
  is converted a **watchdog** child process refreshes the job's heartbeat.

Either process may die at any point and is started again (`autorestart=true`).

### Components

| component | state it keeps | operations | what makes it correct |
|---|---|---|---|
| Job service, `services/jobs.py:66-603` | `jobs` (status, control state, heartbeat), `job_items`, claims in `source_files.conversion_status` | create (test, changed, folder, chosen files, all, one file, index), pause, resume, stop, restart, delete, delete all | a claimed source is always owned by an unfinished item; an accepted job is delivered; a refused hand-over is undone |
| Job execution, `services/jobs.py:606-665, 816-1050` | local variables of a consumer thread | claim, control check, claim item, heartbeat, finish item, suspend, unexpected failure, finish job | one run per job; an item is settled once; a job closes when its items are settled; every active job ends |
| Recovery, `services/jobs.py:668-813` | list of job ids | stale recovery (Web), reconciliation (Worker) | nothing RUNNING or CONVERTING is left behind by a crash |
| Huey queue, `tasks/queue.py` | `queue.db` | schedule, deliver, retry twice | every accepted id is delivered; duplicates are harmless |
| Watchdog, `services/job_heartbeat_watchdog.py` | none | conditional UPDATE of the heartbeat every 15 s | refreshes only RUNNING, ACTIVE jobs |
| Conversion processor, `services/conversion_worker.py` | `conversion_status`, `last_error` | load, verify hash, stage, compare, publish, mark | CONVERTING always ends; READY describes the bytes in the inventory |
| Conversion engine, `services/document_conversion.py` | staging and published directories, `.visual-cache` | stage, publish with backup and restore, discard; describe the visuals of a file | a published directory is complete; the last good one survives a failure; every visual has its own text; an interrupted conversion yields nothing |
| Source inventory, `services/source_files.py` | `source_files` rows, the source tree | scan, upload, replace, delete, delete folder, download | row and bytes agree after a scan; a row deleted takes its artifacts along |
| Index generation, `services/index_generation.py` | `index_generations`, `current.json`, generation directories, card caches | create, build, validate, activate | at most one ACTIVE generation, the pointer names it, INDEXED means contained in it |
| Lexical index, `services/lexical_index.py` | one FTS file per generation | build, validate, search | contents equal the generation's parts |
| Navigation, `services/navigation.py` | none (reads one generation, and `md/<id>` as it is) | select folders, search, select documents, cap, lexical fallback, load parts | selects only what the generation lists and the cards show; keeps caps and token budget |
| Answer generation, `services/answer_generation.py` | the publisher of one answer | decode and publish the streamed text, validate citations, conflicts, downloads | the text streamed is the answer; every citation names evidence the model was given |
| Chat stream, `routers/chat.py` | one generator, two tasks, a queue and a session per question; the server keeps no conversation | navigate, generate, progress events, disconnect | stages in order and one terminal event; no progress lost; the session outlives its tasks and is closed |
| Model clients, `llm/clients.py` | the protocol that answered last | streamed call, plain call, prompt schema, repair | a bounded number of requests; text of one attempt |
| Model configuration, `services/model_config.py`, `llm/registry.py` | providers, profiles, test results, role bindings | create, update, delete, bind, unbind, test, resolve | a bound role reaches its rows; it resolves only to settings that passed the test |
| Authentication, `services/auth.py`, `services/secrets.py` | root secret file | create exclusively, sign, read | two processes that start together agree on one secret |
| Tuning and administration | one settings row | get, update, reset, previews | no protocol |
| Web pages, migrations, configuration | none | | not modelled |

### How they interact

The job service commits a row and then hands its id to Huey; nothing makes the
two one step.  The Worker's thread reads and writes the same rows in short
sessions and calls nobody while it holds one.  The database is the only shared
state: pause, stop and delete reach a running thread only when it next looks
(`_check_job_control`, `_heartbeat`).  Inventory requests write
`conversion_status` without asking whether a job owns the file.  Index activation
holds the SQLite writer lock while it replaces `current.json`.  Readers open
`current.json` once and then follow the immutable generation it names, but cards
and parts they read from `md/<id>`, which the Worker goes on replacing.  Questions
and admin requests of one Web process interleave: the questions as tasks of its
event loop, the requests as threads with a database session each.  A conversion
starts an event loop of its own for the requests about its visuals and hears of a
pause or stop only through its heartbeats.

### What is hard

Interleavings of admin requests with a running job at every session boundary; a
crash of either process between two sessions or between a commit and the
hand-over; deliveries that come twice; a lease that expires under a living run;
retries counted in the queue while the state is in the database; primary keys
used again after a delete; a compensation that meets a state changed meanwhile.
A browser that leaves while two tasks and a queue are busy for it; pieces of a
stream cut anywhere; fallbacks nested in fallbacks; a test result that arrives
after the settings it measured have changed; several requests of one conversion
that end in any order, for equal images, with a cache older than the conversion.
`PROJECT.json` lists each hazard at its line, with the properties aimed at it.

## 2. Plan

The order is that of importance: the job queue decides whether any other part of
the pipeline makes progress, so it came first; then what the pipeline produces,
then what questions make of it.

| | modules | proofs |
|---|---|---|
| done | `JobQueue`, `JobQueueProperties`, `JobLedger` (abstract), `MCJobQueue` | `JobQueueProofs` |
| done | `KnowledgeBase`, `KnowledgeBaseProperties`, `IndexRegister` (abstract), `MCKnowledgeBase` | `KnowledgeBaseProofs` |
| done | `VisualEnrichment`, `VisualEnrichmentProperties`, `MCVisualEnrichment` | `VisualEnrichmentProofs` |
| done | `ModelRoles`, `ModelRolesProperties`, `MCModelRoles` | `ModelRolesProofs` |
| done | `AnswerField`, `ModelCall`, `ChatStream` (which composes the two), `ChatStreamProperties`, `AnswerTurn` (abstract), `MCChatStream` | `ChatStreamProofs`, with `FoldLemmas` |
| done | `Routing`, `Navigation` (which uses it), `NavigationProperties`, `MCNavigation` | `NavigationLemmas`, `NavigationProofs`, with `FoldLemmas` |

Left, in this order:

1. `JobQueue` with the SELECT and the UPDATE of one ORM session apart (see the
   granularity note below); an instance of `KnowledgeBase` with two files, in which
   a generation reuses one card and makes another.
2. `RootSecret`, the exclusive creation of the secret file by two processes; the
   packing of root index and cards into prompts, with what a round of navigation may
   cost; the batching of cards by an index build, with its cache of batches and the two
   writes of a card (`card.json`, then `card.meta.json`), between which the Worker may die.
3. `ReadAtOnce` as a lemma about `AnswerField`, with an encoder for any markdown.

## 3. `JobQueue`

### State

| variable | code |
|---|---|
| `st`, `ctl`, `lease`, `kind` | columns `status`, `control_state`, `heartbeat_at`, `job_type` of `jobs`; the heartbeat is null, fresh or stale |
| `ist`, `isrc` | `job_items.status` and `source_file_id`, by position in id order |
| `conv` | `source_files.conversion_status`, `GONE` where there is no row |
| `pending` | what `queue.db` holds, counted by job and retries left |
| `pc`, `task` | where a consumer thread is in `execute_job`, and what it remembers: job, retries left, item, source |
| `boot` | the Worker process: up, down, reconciling (`reconcile_worker_jobs`), with the ids it has read |
| `web` | the Web process: serving, down, recovering, or between the commit of a request and its hand-over, with what the compensation would write back |
| `crashes` | a bound |

### Actions

One session of the code is one step: each `with session_factory()` block, each
commit of a request, each hand-over to Huey.  Requests are `CreateConversionJob`
(the five conversion requests differ only in what they select, `Selectable`; a folder
whose files need no conversion selects nothing),
`CreateIndexJob`, `CreateTestJob`, `PauseJob`, `ResumeJob`, `StopJob`,
`RestartJob`, `DeleteJob`, `DeleteAllJobs`; `WebEnqueue`, `WebEnqueueFails` and
`WebUndo` are the second half of those that enqueue: a refused hand-over sends a
request into its compensation (`RequestRefused`) and ends the startup recovery with the
Web process (`RecoveryDies`).  `WebCrash`, `WebStart`,
`RecoverJob` and `WebUp` are the Web process's restart.  `Deliver`, `ClaimJob`,
`CheckControl`, `ClaimNextItem`, `Dispatch`, the conversion steps
`LoadSource` .. `MarkReady`, `DoWork`, `FinishItem`, `FinishJob`, `SuspendJob`,
`HandleUnexpected` and `HueyRetry` are `execute_job` in program order;
`ProcessorRaises` and `SessionFails` are the exceptions it meets; `WorkerCrash`,
`WorkerStart`, `ReconcileJob`, `ReconcileList`, `ReconcileEnqueue` and `WorkerUp`
the Worker's restart.  `BeatWhileWorking` and `WatchdogBeat` refresh the lease
from the engine and from the child process.  `SourceChanged`, `SourceRemoved` and
`SourceAdded` are the inventory as far as jobs see it.

Operators whose comment says *Seeded fault* are not part of `Next`.  Each is a
plausible slip in the definition that follows it, and the property it is paired
with in `PROJECT.json` must fail when it is put in that definition's place.

### Abstractions

* **Granularity.**  A session's reads and its writes are one step.  SQLite
  serialises the writes, but the driver begins a transaction only at the first
  write, so another commit may fall between the SELECT of an ORM object and its
  UPDATE.  The conditional UPDATEs (`_claim_job`, `recover_stale_jobs`) are atomic
  as modelled; the others (`_claim_next_item`, `_finish_item`, `pause_job`, ...)
  are atomic only up to that window of a few milliseconds, which the plan
  will open.
* One request at a time is between its commit and its hand-over; requests that
  only write the database interleave with it.
* `PENDING` is read but never written by the program and is left out.  Counters,
  times, progress and error texts are left out: the failed-items counter is
  recomputed from the items in the same session that uses it.
* Ids are used again as SQLite does (largest key plus one, `IsNextId`).  Item ids
  are used again by position within the same job id; their reuse across
  jobs is not modelled.
* The queue is a multiset: delivery order is left open.  `MaxDeliveries`
  saturates the count of equal deliveries; the program never counts them.
* The order of items in a new job is any order; the code's is by source id.
* The state of a job's RUNNING items and sources is what decides, never how long
  something took: `LeaseExpires` may happen at any moment.
* The model allows every outcome of the conversion engine and of index
  generation at their program points, among them "source missing" and "content
  changed".

## 4. `KnowledgeBase`

### State

| variable | code |
|---|---|
| `disk` | the source tree: bytes of a file (told apart by hash), and one `stamp` for size and mtime |
| `row` | `source_files`: source status, stamp, hash, conversion status, index status; `NONE` where there is no row |
| `md` | `md/<id>`: the hash its manifest names, and the hash its `card.json` was made from |
| `gens` | `index_generations.status`, and the documents of `generations/<n>`, Null while that directory is not in place |
| `pointer` | the generation `current.json` names, 0 without the file |
| `req` | per request thread: operation, step, the rows its session has read (`old`), what it has seen or written on disk (`found`) |
| `work` | the Worker thread: step, files left, hash under conversion, rows its session has loaded, artifact moved aside, generation, staged documents, previous pointer |

### Actions

*Inventory* (`source_files.py`): `StartScan`, `ScanFile`, `StartPut` (upload or
replace), `Put` (`os.replace`), `Stat` (size and mtime, taken after the hash or the
replacement),
`StartDelete` (one file or a folder), `Purge` (artifacts of the rows that will go),
`Unlink`, `CommitRequest`; `DownloadMissing`; `EditFile` for whoever mounts the
tree; `RequestFails` at any step.  *Conversion*: `StartConversion`, `VerifyHash`,
`StageArtifact`, `CheckSource`, `MoveAside`, `SwapIn` (or the restore), `MarkReady`.
*Build*: `CreateGeneration`, `ReadInventory`, `LoadDocument`, `PlanCards`,
`GenerateCard`, `ValidateGeneration`, `PlaceGeneration`, `PointToGeneration`,
`CommitActivation`, `UndoActivation`, `BuildFails`.  `WorkerCrash` at any step.

`Held` is the artifact of a document wherever publish has it at the moment, in `md` or
moved aside; `LastGoodArtifactIsRetained` says what one step may do to it.

Two operators carry what the ORM does.  `Merge` is a flush: it writes the columns in
which the session's object differs from what the session had loaded, over whatever
the row holds by now.  `SnapshotHolds` is the recheck of `_activate`: the objects it
compares are those the session already holds, so it sees a deleted row and nothing
else (finding 2).

### Abstractions

* The Worker does one conversion or build at a time, as `-w 1` says, and the job
  around it is `JobQueue`'s business: a conversion or a build may start whenever the
  Worker is idle.  `QUEUED`, which only jobs write, is therefore not in `row`, and
  `UNSUPPORTED` is one with `FAILED`.
* A file keeps its row id across deletion and upload.  SQLite gives the largest id out
  again, so this happens; that a new id is used as well is not modelled.
* A folder request names all files or one.  Symbolic links, ignored names and unsafe
  paths are left out.  A deletion's several unlinks are one step.
* The lock of `BEGIN IMMEDIATE` is `Unlocked`: no request commits between
  `PointToGeneration` and the end of the commit.
* `_mark_failed` after an undone activation is part of `UndoActivation`.
* A card or a generation is told apart by the hash of the bytes it was made from.
  Batches, card caches and folder payloads are left out: they are functions of it.

`IndexRegister` is the promise to readers: a generation's documents are written
once, whole; the register moves to a newer one, and until the move is settled may
return to where it was and nowhere else.  `LiveIndex` maps `pointer` to the register
and, during a commit, the previous pointer to where it was settled.

## 5. `VisualEnrichment`

### State

| variable | code (`document_conversion.py`) |
|---|---|
| `format`, `file`, `width` | what is converted: whether its visuals come in batches (PDF), may be incomplete (Word, slides), has a heartbeat thread (slides); the visuals in order; `document_visual_concurrency` |
| `control` | whether the job is ACTIVE, which is what a heartbeat asks |
| `prompt`, `asked` | what the role's configuration says now, and what the batch was planned with |
| `cache` | `.visual-cache`, keyed by image and prompt; the only variable that outlives a conversion |
| `at`, `from` | where the conversion stands, and how many visuals are through |
| `slot` | `result_slots`: what takes the place of each visual |
| `task` | the request for an image: waiting for the semaphore, asking, resting between attempts, how it ended |
| `thread`, `heard` | the thread of `_continuous_heartbeat`; whether a heartbeat has met a job that is not ACTIVE |

### Actions

`StartConversion`, `Interrupt`, `ThreadBeats`, `Finish` and `ExtractionFails` are the
conversion around its batches; `PlanBatch` and `RefuseBatch` the beginning of
`_visual_enrichments` (fallbacks, cache hits, one request per distinct image), `Ask`,
`Answered`, `AnsweredEmpty`, `RequestFails`, `AskAgain` and `BeatStops` a request with
its attempts and the heartbeat beside it, `Settle` what `gather` returns and what is
made of it.  `Suspend`, `Resume` and `ChangePrompt` are the administrator,
`WorkerCrash` the Worker.

### Abstractions

* An image is one with the bytes sent to the model; how a format is parsed and how
  its visuals are cropped is left out.  A visual is an image, `legacy` (a format no
  model reads) or `broken` (it cannot be decoded).
* The configuration of the role is read per batch, as the code reads it; the part of
  the cache key that is the schema and its version is constant.
* An image uploaded as such is described like a sheet: one visual, which must succeed.
* Progress counters are left out.
* The guard against a document without content (`document_conversion.py:1479`) comes
  after what `EveryVisualHasItsText` shows: a file with an image the model could have
  described has a text by then.

## 6. `ModelRoles`

### State

| variable | code |
|---|---|
| `provider` | `api_providers`: existence, connection settings, switch |
| `profile` | `model_profiles`: provider, request settings, switch, and the three results of a test (text, vision, status), each with the settings it was measured with |
| `binding` | `model_role_bindings` |
| `req` | per request thread: its operation, target, what its session has read |

The settings a result was measured with are not stored by the program; they are an
auxiliary variable of the model, and `ResolvedRolesAreTested` is about them.

### Actions

Each request is a read and a commit: `ReadForSettings`/`CommitSettings`,
`ReadForSwitch`/`CommitSwitch`, `CountProfiles`/`DeleteProvider`,
`RequireProvider`/`CreateProfile`, `ReadForRequest`/`CommitRequest`,
`ReadForMove`/`CommitMove`, `ReadForProfileSwitch`/`CommitProfileSwitch`,
`CountBindings`/`DeleteProfile`, `ReadForTest`/`CommitTest` with three model calls in
between, `ReadForBind`/`Bind`; `CreateProvider` and `Unbind` have nothing to read.
`Refuse` is every error answer.  A commit writes the columns in which what the session
read and what it wants differ (`Changed`, `Reset`, `WriteColumn`), over whatever
the row says by now: that is how a test can write a result next to settings it has
not seen.  Foreign keys restrict or cascade as the migrations say.

### Abstractions

Names, keys and prices are left out: a *setting* is what changes the request that is
sent.  One setting stands for all the columns of a group, so an edit of two of them is
one of the group.  Role prompts are not in the model.

## 7. `ChatStream`, `ModelCall`, `AnswerField`

`ChatStream` is one question over `POST /api/chat/stream`.  It extends `ModelCall`, the
structured call its answer task makes, and `AnswerField`, the operators that decode and
gather the text of the answer out of the pieces of a JSON stream.

| variable | code |
|---|---|
| `server`, `session` | where `_completion_stream` stands, and its database session |
| `locate`, `answer` | `navigation_task` and `answer_task` |
| `queue`, `held` | `progress_queue`, and what the pending `get()` has taken |
| `publisher` | `_AnswerMarkdownPublisher` with the decoder inside |
| `said`, `text` | the stages and the text the browser was sent |
| `browser` | whether it still listens |
| `preference`, `resolved`, `call` | the client's protocols and the call: stage (streamed, native, schema in the prompt, repair), candidate, position in the text |

`Generator` has one action per event or await of `_completion_stream`, and `Unwind` and
`CloseUnwound` for its `finally` clauses; `Raises` lists the places at which something
inside its `try` may raise, up to the public form of the answer; `TakeItem` is the pending `get()`;
`AnswerTask` steps through the call, feeding the publisher (`SpeakDelta`), and
`FinishAnswer` checks the value; `Disconnect` may happen at any time.  `WaitOn` is the
timeout that emits a waiting event and goes round.

`AnswerTurn` is the promise to the browser: stages in order and at most once, text only
while the answer is generated, one terminal event and nothing after it.

### Abstractions

* A character is told apart as far as the decoder does: quote, backslash, the letters
  of escapes, halves of a surrogate pair, control characters, others.
* A model's text is an answer, another JSON object, or no JSON; a stream may break off,
  end early, or be answered at once.  Texts are chosen in `MCChatStream` so that key,
  escapes and pairs are cut by pieces of two and five.
* Waiting events are not in `said`.  The navigation task is one step with three
  outcomes: what it does is `Navigation`.
* A cancelled task ends at its next await, without doing anything else.

## 8. `Navigation`, `Routing`

`Routing` holds the pure functions: recall with diversity, the intent of the most
batches, merging and capping selections, fallback, budgets.  `Navigation` is a question
on its way: `LoadRoot`, `SelectFolders`, `SearchIndex`, `ReadCard`, `TakeSelection`,
`FinishFolder`, `CapParts`, `Supplement`, `ReadPart`, `EndNavigation`, `Answer`, `Fail`.
A search that ends without a folder hands an empty navigation to the answer model.  Beside it the Worker's `MoveAside`, `SwapIn`, `GenerateCard` and `Activate`, which are
those of `KnowledgeBase` as far as a reader sees them.

| variable | code |
|---|---|
| `gens`, `live`, `md` | the generations' listings, `current.json`, the artifacts and cards |
| `listing` | the root index and parts of the generation the question reads |
| `routed`, `candidates`, `toRead`, `cards` | folders, lexical candidates, and cards as they were read |
| `turn`, `accepted`, `low`, `documents`, `earlier` | the merge of the router's replies; `earlier` is the selection before the last cap or fallback |
| `room`, `evidence` | the token budget and the parts loaded |
| `answer` | what `_validated_result` lets through |

Models reply anything their schema allows: that is what the whitelists are for.  A
listing is packed into one or two prompts; which entries a prompt holds does not
matter, because the replies are merged before they are used.  The lexical index
returns any ranking of listed parts.  Tokens are estimates of the code (any
of `PartTokens`), a profile may set a window and an output limit of its own (`Profile`),
and the windows are small enough for the margins to bite.  Documents'
labels and anchors are told apart by part and conversion.

## 9. Runs

All constants are in the `.cfg` files.  `Env` or `Ops` names the requests and faults a
run allows; what is not named does not happen.

| run | instance | states | what it shows |
|---|---|---|---|
| `jobs_full` | 1 job, 2 items, 1 source, every request and fault but index and test jobs | 0.96 M | `QueuedSourceHasItem`: no history of requests, refused hand-overs, crashes and inventory changes strands a source in QUEUED |
| `jobs_recovery` | 1 job, 2 items, 2 sources, all crashes, expiry, retries, database errors | 1.0 M | `TypeOK`, `RunningItemHasRunningJob`, `ClaimedSourceIsOwned`: whatever dies, what was half done is where a recovery path looks for it; `ImplementsLedger`: the queue implements `JobLedger` |
| `jobs_workers` | 2 jobs, 2 threads, 1 source | 0.77 M | `OneRunPerJob`, `RunHoldsLease` without relying on a single thread |
| `jobs_live` | 1 job, 2 items, Worker crashes, expiry, retries | 0.17 M | `ActiveJobSettles`, `InterruptedJobLeavesRunning`, `ConvertingSourceSettles`, and the safety half `UnfinishedJobIsUnderWay` |
| `visual_enrichment` | 2 images, 2 prompts, 4 files of up to 3 visuals, 4 formats, width 1 and 2, 3 attempts | 0.34 M | `EveryVisualHasItsText`, `TextsAreOfThePrompt`, `NothingIsAskedTwice`, `SomeEvidenceIsKept`, `InterruptedIsNotConverted`, `EveryConversionEnds` |
| `index_full` | 1 file, 2 contents, 1 request thread, 2 writes, 2 generations, every request and fault, any number of Worker deaths | 2.4 M | `TypeOK`, `LiveGenerationIsWhole`, `PointerStaysWithTable`, `RetiredOnlyBySuccessor`, `LiveIndexIsARegister`, `IndexedIsContained`, `CardDescribesArtifact`, `LastGoodArtifactIsRetained` |
| `model_roles` | 2 providers, 1 profile, 2 roles, 2 requests at a time, 2 settings; deletions of providers overlap with everything but a test | 2.7 M | `RolesReachTheirProvider`, `ResolvedRolesAreTested` |
| `chat_stream` | 3 texts, 1 or 2 protocols, pieces of 2 and 5 characters | 0.23 M | `SessionOutlivesTasks`, `StreamedTextIsTheAnswer`, `RequestsAreBounded`, `ImplementsTurn`, `EveryQuestionEnds`, `ListenerIsAnswered` |
| `navigation` | 3 documents in 2 of 3 folders, 2 parts, one document converted again, 2 generations, profiles with and without limits of their own | 2.0 M | `TypeOK`, `SelectionIsListed`, `SelectionKeepsLimits`, `CapSharesEvidence`, `FallbackIsBestFirst`, `EvidenceFitsTheModel`, `AnswerQuotesEvidence` |
| `resume_skips_items` | pause and resume only | violated | finding 1 |
| `index_stale_snapshot` | upload and replace only | violated | finding 2 |
| `evidence_reconverted` | one question, one conversion | violated | finding 3 |

### Bounds, and why they are enough

* Jobs: two items for the states in which one is settled and another waits, two
  sources for a job whose items have different ones, `Retries = 1` for a first and a
  last attempt, `MaxDeliveries = 2` for a duplicate, one crash for every program point
  at which a process can die (a second crash meets a state the first recovery has
  repaired or is repairing; `boot` may itself be crashed).
* Index: two generations for a live one and its successor, two contents for a card of
  the wrong bytes, two writes for an upload and a change; one file shows every relation
  between a row, its artifact and a generation.  `MaxStamp` and `MaxGen` bound the
  writes and the builds; deaths of the Worker, requests and conversions are not
  bounded.  Contents are interchangeable (`ContentSymmetry`).
* Visuals: an image twice in one batch and twice in two batches (three visuals, width
  one), two images for an answer and a failure side by side, two prompts for a change,
  three attempts as in the code.  Conversions, crashes and changes are not bounded.
* Roles: two providers for a move, two requests for every pair that overlaps, two
  roles because their demands differ.  Histories are not bounded.
* Stream: pieces of two and five cut the texts at every kind of place; a flush at two
  characters and reports at twelve both happen and fail to happen.
* Navigation: two parts and two documents as limits against three documents, so that
  selection, cap and fallback all meet theirs; one folder the root does not list.

Deadlock is not checked: with every job settled, every question answered and no
further request the system rests.

### What the passing runs leave out, and why

* `resume` is not in `jobs_recovery`, because of finding 1.  `delete` is not either:
  `_suspend_job` writes QUEUED into whatever row has the key of the job it ran
  (`jobs.py:953`), and the key of a deleted job is given out again, which the ledger
  forbids.  `jobs_full` has both.
* `delete` is not in `jobs_live` (`delete_while_loading` below), nor `webcrash`: a Web
  process that dies between the commit and the hand-over leaves a QUEUED job that only
  a Worker restart delivers (`lost_hand_over`); nor `dberror`: if `_suspend_job` itself
  fails, a stopped job stays RUNNING until the Worker restarts, and restarting it is
  refused (`suspend_locked_out`).  Of these three only the last is partly covered:
  `jobs_recovery` shows that what the restart needs is kept.
* `expire` is not in `jobs_workers`: a lease that expires under a living run lets
  a second thread in, by design; the claim then resets the first run's item.  `resume`
  is not either (`two_workers_resume` below).
* In `model_roles` a test runs on its own.  Nothing in the code keeps other requests
  away from it: `Exclusive` is an assumption about the administrators, and
  `test_over_update` below shows a test with another request beside it.  Deletions of
  providers are not restricted.  A profile created or moved there between the count and
  the delete goes with its provider, against what `docs/handoff/03-model-providers.md:12-13`
  says (`provider_cascade` below); what the run shows is that no bound role is touched.
* `cacheerror` is not in `visual_enrichment` (`visual_cache_error` below).
* `StreamedTextIsTheAnswer` says nothing of a call one of whose attempts broke off after
  its first output (`call.broken`): the text of the next attempt then follows that of the
  first (`answer_envelope` below).

### Fairness

*Jobs* (`Fairness` in `JobQueueProperties`): weak fairness of what the processes do on
their own (`WebProgress`, `Boot`, `Execute`), because supervisord restarts both,
a thread between two sessions runs on, and the processors return (model calls
have timeouts and bounded attempts); strong fairness of each delivery, because
the queue is strictly first-in first-out (`tasks/queue.py:57-63`) while the model
keeps a multiset.  Requests, inventory changes, faults and heartbeats carry no
fairness; so a run in which the engine only sends heartbeats cannot be used to
satisfy the assumption on `Execute`.

*Chat stream*: weak fairness of the generator, of the pending `get()`, of either task and
of cancellation: one event loop runs every task that is ready, and every request of the
HTTP client has a timeout (`llm/clients.py:128-132`).  The browser owes nothing.

*Visuals*: weak fairness of the conversion and of its requests together: the Worker's
thread runs on and each request is answered or runs out of time
(`MODEL_REQUEST_TIMEOUT_SECONDS`).  Suspensions, resumes, crashes and changes of the
prompt carry none.

### Findings

1. **A resume in the wrong moment completes a job with queued items**
   (`resume_skips_items`, `jobs.py:629-635`).  Pause after the loop's control check:
   `_claim_next_item` returns None.  Resume before the second check: `_finish_job` finds
   no FAILED item and writes COMPLETED.  The queued items are never processed and their
   sources stay QUEUED, which no request accepts for a new job.
2. **An index activation does not notice that a source has changed**
   (`index_stale_snapshot`, `index_generation.py:1211`).  The recheck under the writer
   lock compares the snapshot with objects of the same session, which
   `expire_on_commit=False` (`db.py:54`) leaves as they were loaded.  A source replaced
   during the build is activated with the card of its old bytes, and its row becomes
   INDEXED.
3. **A citation may name anchors of a text the model was not shown**
   (`evidence_reconverted`, `navigation.py:923`).  The text of `md/<id>` is read after
   the model calls, labels and anchors come from the card read before them; a conversion
   in between leaves the anchors of the old text on the new one, and the check of
   citations accepts exactly those.

Further counterexamples are kept as configurations beside the runs; TLC stops each
with a violation:

| configuration | module | violates | shows |
|---|---|---|---|
| `delete_while_loading` | `MCJobQueue` | `ConvertingSourceSettles` | only a STOPPED job may be deleted, but its thread may still be before `LoadSource` (`jobs.py:206-214`, `conversion_worker.py:79`) and strands the source in CONVERTING |
| `lost_hand_over` | `MCJobQueue` | `UnfinishedJobIsUnderWay` | a Web process that dies between a commit and its hand-over leaves an ACTIVE, QUEUED job that nobody delivers (`jobs.py:133-135`) |
| `suspend_locked_out` | `MCJobQueue` | `InterruptedJobLeavesRunning` | a database error in the suspending session leaves a stopped job RUNNING, which the retries do not claim (`jobs.py:657`) |
| `two_workers_resume` | `MCJobQueue` | `OneRunPerJob` | with two threads a pause and a resume let both into one job (`jobs.py:113`) |
| `ready_over_changed` | `MCKnowledgeBase` | `ReadyMatchesArtifact` | a replacement between the last comparison and the READY commit (`conversion_worker.py:173-201`) leaves a READY row with the new hash and the artifact of the old bytes |
| `test_over_update` | `MCModelRoles` | `ResolvedRolesAreTested` | a test that ends after an edit of the profile or its provider writes a result the new settings have not earned (`model_config.py:413`) |
| `provider_cascade` | `MCModelRoles` | `ProfilesAreDeletedByName` | an unbound profile created or moved between the count of `delete_provider` and its DELETE goes with the provider (`model_config.py:171-182`) |
| `answer_envelope` | `MCChatStream` | `EnvelopeStaysInside` | one publisher serves every attempt of a call; a new attempt's opening is read as part of the string (`answer_generation.py:309`) |
| `visual_cache_error` | `MCVisualEnrichment` | `SomeEvidenceIsKept` | a text is put into its slots before the cache is written; when that fails the request counts as failed, its slots as evidence, and then they become fallbacks (`document_conversion.py:1406-1408`) |

## 10. Proofs

Every theorem is about the specification itself, for every value of the constants that its
module's ASSUME allows.  Those say little: `JobQueueConstants` and the like name the types
of the parameters and that Null is nothing else; `NavigationConstants` adds that there are
finitely many documents and that limits are not zero.  Where a theorem needs an assumption
about the environment it is a named definition over `Env`, met by the run that checks the
same property, and a configuration of section 9 shows what happens without it:

| assumption | says | needed by |
|---|---|---|
| `Alone` | one consumer thread, as deployed (`supervisord.conf`, `-w 1`) | below |
| `Undisturbed` | no resume, delete, refused hand-over or expired lease | `OneRunPerJobHolds`, `RunHoldsLeaseHolds` |
| `Guarded` | `Alone` or `Undisturbed`; no delete, no refused hand-over | `RunningItemHasRunningJobHolds` |
| `Closing` | `Guarded`, no resume | `CompletedJobIsDoneHolds`, `ImplementsLedgerHolds` |
| `Undeleted` | `Guarded`, no source removed | `ClaimedSourceIsOwnedHolds` |
| `Delivers` | `Guarded`, no death of the Web process and no raising session | `UnfinishedJobIsUnderWayHolds` |
| `Apart` | tests run alone | `ResolvedRolesAreTestedHolds` |
| `CacheWrites` | the visual cache can be written | `SomeEvidenceIsKeptHolds` |

`QueuedSourceHasItemHolds` needs only `Alone \/ Undisturbed`: every request and fault is
in it.  `StreamedTextIsTheAnswerHolds` has an assumption about the texts a model writes,
`ReadAtOnce`: the markdown of an answer is what its text decodes to when it is read at once.
It is an ASSUME of `MCChatStream`, so that TLC evaluates it for the texts of the run.
The other theorems have no assumption about the environment.

### The job queue

`JobQueueProofs` proves `TypesHold == Spec => []TypeOK`.  `TypeOK` is inductive; the
lemmas follow the helpers of the model (`RequeueTyped`, `ReleaseTyped`,
`DeliveredTyped`, `ItemTyped`, ...), `StepTyped` has one step per action.

*One run* (`OneRunPerJobHolds`, `RunHoldsLeaseHolds`).  `OneRunPerJob` is not inductive by
itself: a second claim must be seen to be impossible.  `RunInv` adds what makes
it so: while a thread is inside a job the row says RUNNING and, if it is ACTIVE,
its lease is fresh, and no thread is inside a job while the Worker is not up, so
that the reconciliation never meets a run.  The three kinds of steps have a lemma
each: a new job is inserted where no run is (`InsertKeepsRuns`), a thread moves
within its run (`MoveKeepsRuns`), a thread leaves (`LeaveKeepsRuns`).  `two_workers_resume`
shows why resume is excluded: it is the step after which a RUNNING, ACTIVE job
has no lease.

*Items* (`RunningItemHasRunningJobHolds`).  `StepKinds` classifies every step by what it
does to jobs, items and threads; the proofs below work on these kinds and not on the
actions.  `ItemInv` adds to the property that the item in progress is the one its thread
holds: whoever ends the run of a job then also settles or requeues its item.

*The ledger* (`ImplementsLedgerHolds`, `CompletedJobIsDoneHolds`).  A COMPLETED job has
its items completed because of what a thread remembers: `LedgerInv` says that one which
found nothing left to claim is right unless the job was taken from it meanwhile, which is
why the control state is read twice.  A resume breaks exactly this (finding 1).  Under it
each kind of step is a step of `JobLedger` on one job, or leaves what the ledger shows of
every job as it is (`LedgerKinds`, `LedgerStep`).

*Sources* (`QueuedSourceHasItemHolds`, `ClaimedSourceIsOwnedHolds`).  That a QUEUED source
has an unfinished item is not inductive: the item may be closed by the thread that holds
it.  `QueuedInv` says of the item that no thread is about to close it, that a thread works
on the source its item names, and that a request only writes back statuses which no
request had claimed.  `OwnedInv` is the same for CONVERTING; a source removed and added
again under its old key is marked by the thread of the one that is gone, hence `Undeleted`.

*Progress* (`UnfinishedJobIsUnderWayHolds`), the safety half of the liveness properties.
`WayInv` tells how each kind of job is on its way (a RUNNING one is carried by a thread or
by the Worker's next start, a QUEUED one is handed over or arriving), so that what one
run leaves behind is what the next starts from; a suspended run of a job that is ACTIVE
again is handed over by whoever resumed it.

### Files and the index

`KnowledgeBaseProofs` proves `KnowledgeBaseTypesHold` for any files, contents,
request threads, bounds and faults; `MergeIsRow` is the lemma the rows rest on, and
`RequestTyped`, `ConversionTyped` and `BuildTyped` have one step per action.

*The live index.*  The inductive invariant is `IndexInv`: that the live generation is whole
is not inductive; one must know that the build in progress owns the newest
generation, that the pointer is older until `PointToGeneration` and names it during
the commit, and that the place the pointer would be put back to is whole too.
`IndexSteps` then classifies every step of the system as one of six (`Steady`,
`Placing`, `Pointing`, `Committing`, `Undoing`, `Dying`), from which follow
`LiveGenerationIsWholeHolds`, `RetiredOnlyBySuccessorHolds`,
`PointerStaysWithTableHolds` and the refinement `LiveIndexIsARegisterHolds`.

*Cards* (`CardDescribesArtifactHolds`).  A build writes a card from the inventory it read
minutes before.  `CardInv` says that the artifact it examined is still there or has been
purged, because the only thread that converts is the one that builds, and that an artifact
moved aside comes back with its own card.

*Artifacts* (`LastGoodArtifactIsRetainedHolds`).  `OneFile` says that a conversion is of one
file, so that what `MoveAside` keeps is put back to, or exchanged for, the artifact of that
file and of no other; a build adds cards and leaves the manifests alone
(`BuildKeepsArtifacts`).

*INDEXED rows* (`IndexedIsContainedHolds`).  The commit of an activation writes rows from
an inventory that may be old.  `ContainInv` adds that nothing else makes a row INDEXED,
that a recorded row always has its hash, and that the documents staged are those the
generation holds when it is committed.

### Visuals

`VisualEnrichmentProofs` proves six results for any images, prompts, formats, files,
widths and numbers of attempts, from `VisualConstants`.  Each has its strengthening:

* `TypeInv` adds to `TypeOK` that requests belong to images of the batch under way.
* `SlotInv` says what may be in a slot at each point of the conversion: before its batch
  nothing; during it the text of its own image in the batch's prompt, a fallback, or
  nothing, and then the request for that image is under way or has come to nothing
  (`OpenSlotsAreAwaited`).  So when all requests have ended `Settle` leaves no slot empty:
  `EveryVisualHasItsTextHolds`.  That every image has a request rests on the first visual
  of each (`LeastElement`, by the well-foundedness of Nat).  With what it says of the
  cache come `TextsAreOfThePromptHolds` and `NothingIsAskedTwiceHolds`.
* `SignalInv` ties `heard` to the places where a signal is kept (a request or the
  thread), which `Settle` and `Finish` look at first: `InterruptedIsNotConvertedHolds`.
* `EvidenceInv` says that a request that is not done has left its slots empty, so that
  what counts as evidence of a batch is not among the refused.  A failed write of the
  cache is the one step that breaks this, hence the assumption `CacheWrites` of
  `SomeEvidenceIsKeptHolds`.

### Roles

`ModelRolesProofs` proves `ModelRolesTypesHold` and `RolesReachTheirProviderHolds` for any
number of profiles, providers, roles and requests, all of them overlapping.  `RoleInv`
adds that rows are whole, that a profile has a provider row, and what a request under way
has in hand (`RequestsAreMeant`).  `ResolvedRolesAreTestedHolds`
stands under `Apart`.  `TestedInv` holds that a result of a profile is either cleared or
measured with its present settings (`ResultsAreCurrent`), that what an edit has read
and not yet committed cannot hide such a result from its reset (`EditsHaveSeen`), and that
a test's session still shows the rows as they are (`TestIsCurrent`).

### Folds

What a question is answered from is computed by folds over sequences.  `FoldLeft` is a
recursive function over sets of indices; `FoldLemmas` shows that it runs along the
sequence: there is a trail of intermediate values from the base to the result, each
made from the one before and the next element (`FoldTrail`).  An induction over such a
trail needs no more than that the numbers are well-founded.  The provers cannot instantiate
a lemma about any operator, so the operator is given as a function on a set it
does not leave, and each fold has a lemma of its own that brings it into this form
(`DistinctTrail`, `PartCountTrail`, `TurnsTrail`, `FallbackTrail`, `ReadCharsTrail`, ...).

### The stream

`ChatStreamProofs` proves four results for any questions, answers, protocols, piece sizes
and numbers of summaries, from `ModelCallConstants`.

* `SessionInv` relates the states of the two tasks, the stream and the database session:
  `SessionOutlivesTasksHolds`.
* `RequestInv` counts the requests by the prompt and the protocol the call is at, so that
  each fallback starts from the most its predecessors can have used:
  `RequestsAreBoundedHolds`.
* `ImplementsTurnHolds` is the refinement of `AnswerTurn`.  `StageInv` says what was
  announced last at each place of the generator, so that the next announcement ranks higher
  and text follows `answer_generating` only; `StreamInv` says that everything on its way
  to the browser is text, through the decoder, the publisher and the queue, so that what
  is added makes the text longer.
* `StreamedTextIsTheAnswerHolds`, under `ReadAtOnce`.  First, that a text read in pieces
  decodes to what it decodes to when it is read at once (`FeedJoins`): the search for
  the key sees it across the seam, because the last two characters are kept and a key ends
  where the third of it does (`KeyTailJoins`, `KeyMoves`, `SearchJoins`); behind the key
  reading is a fold, which goes on from where it stopped (`ReadOn`), and what was decoded before
  changes nothing of what follows (`ReadCharsAhead`).  Second, that nothing is lost
  afterwards: `OnItsWay` says that the text of the browser, followed by the items of a
  finished `get()`, of the queue and by what the publisher keeps, is a given text.
  `TextInv` says so of what the attempt under way has streamed, and of the answer once an
  attempt has become it; `SpokenInv` and `DrainInv` tie this to the places of the call
  and of the generator, so that behind the drain nothing is left on its way.

### Navigation

`NavigationLemmas` states what the operators of `Routing` compute: what `Distinct`, `Only`
and `Diverse` keep, that a budget adds up, that merging a reply keeps to the cards
and names no document twice, that the cap leaves every document an equal share of its
first parts (`CapFacts`), that the fallback passes over a candidate only if a limit is met
or the part is there already (`FallbackFacts`).

`NavigationProofs` proves all seven properties of the run `navigation`, for any documents,
folders, cards, limits, budgets and rankings, with the Worker converting and activating
beside the question.  The inductive invariant `NavInv` has four parts: `LibraryInv` (the
Worker's files), `SearchInv` (the generation that is read, the budget, cards only of
listed documents), `RouteInv` (what is selected so far is on the cards and no document
or part is there twice; the folders routed so far are the ones it comes from, so that
the selection of the next folder is of other documents) and `EvidenceInv` (what is loaded
stays within the input budget).  From it follow `NavigationTypesHold`,
`SelectionIsListedHolds`, `SelectionKeepsLimitsHolds` and `EvidenceFitsTheModelHolds`.
`CapSharesEvidenceHolds`, `FallbackIsBestFirstHolds` and `AnswerQuotesEvidenceHolds` are
about states that a particular step leads to (`WhereItLeads`), and are inductive
relative to `NavInv`.

### Model-checked only

* Liveness under fairness, which is outside the prover's reach: `ActiveJobSettles`,
  `InterruptedJobLeavesRunning`, `ConvertingSourceSettles`, `EveryConversionEnds`,
  `EveryQuestionEnds`, `ListenerIsAnswered`.
* `ReadAtOnce`, the hypothesis of `StreamedTextIsTheAnswerHolds`: that an escaped text, read
  at once, is the markdown it was made of.  TLC evaluates it on the texts of the
  runs; for every markdown it is an induction over the decoder and its encoder.

## 11. Not modelled

* Parsing and rendering of documents, splitting into parts, term extraction and the FTS
  query, prompts and their packing, HTTP payloads, pages, migrations and configuration
  hold no protocol state.
* Authentication: sessions are signed cookies; the exclusive creation of the root secret
  is in the plan.  Tuning: one settings row, read and written whole.
* Of the model configuration, role prompts; of the chat, the suggestion of a title and
  the public form of an answer.
* The windows between the SELECT and the UPDATE of an ORM session of the job service
  (section 3, granularity).

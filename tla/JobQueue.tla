------------------------------ MODULE JobQueue ------------------------------
(***************************************************************************)
(* The persisted background-job queue of app/services/jobs.py, together    *)
(* with its callers: the Web process (admin requests, startup recovery),   *)
(* the Huey queue (app/tasks/queue.py), the Worker process (consumer.py,   *)
(* execute_job and the item processors) and the heartbeat watchdog.        *)
(*                                                                         *)
(* One database session of the code is one step: each                      *)
(* "with session_factory()" block, each commit of a Web request, each      *)
(* hand-over to Huey.  Between two steps every other process may run.      *)
(***************************************************************************)
EXTENDS Naturals, FiniteSets

CONSTANTS
  Job,            \* primary keys of the jobs table
  Slot,           \* positions of the items of a job, in job_items.id order
  Source,         \* primary keys of the source_files table
  Null,           \* SQL NULL
  Worker,         \* consumer threads; the deployment runs one (-w 1)
  Retries,        \* Huey retries of run_background_job (2 in the code)
  MaxDeliveries,  \* bound: identical deliveries the queue holds
  MaxCrashes,     \* bound: crashes of either process
  Env             \* the requests and faults a run allows

ASSUME JobQueueConstants ==
  /\ Job \subseteq Nat
  /\ Slot \subseteq Nat \ {0}
  /\ Null \notin Job \union Slot \union Source
  /\ Retries \in Nat
  /\ MaxDeliveries \in Nat \ {0}
  /\ MaxCrashes \in Nat

\* A job that waits has an item: create_test_job refuses total_items <= 0, an index job has one.
ASSUME SlotAssumption == Slot # {}

VARIABLES
  st,       \* jobs.status, "NONE" where there is no row
  ctl,      \* jobs.control_state
  lease,    \* jobs.heartbeat_at: null, younger or older than the timeout
  kind,     \* jobs.job_type
  ist,      \* job_items.status, "NONE" where there is no row
  isrc,     \* job_items.source_file_id
  conv,     \* source_files.conversion_status, "GONE" where there is no row
  pending,  \* deliveries in queue.db, counted by job and retries left
  pc,       \* where each consumer thread is in execute_job
  task,     \* what that thread holds in memory
  boot,     \* the Worker process: its reconciliation at import
  web,      \* the Web process: the request or recovery it is in
  crashes   \* crashes so far

jobVars    == <<st, ctl, lease, kind>>
itemVars   == <<ist, isrc>>
workerVars == <<pc, task, boot>>
vars == <<jobVars, itemVars, conv, pending, workerVars, web, crashes>>

-----------------------------------------------------------------------------
Unfinished  == {"QUEUED", "RUNNING"}
Terminal    == {"COMPLETED", "FAILED"}
RowStatus   == {"NONE"} \union Unfinished \union Terminal
Control     == {"ACTIVE", "PAUSED", "STOPPED"}
Lease       == {"null", "fresh", "stale"}
Kind        == {"conversion", "index", "test"}
Convertible == {"NEW", "CHANGED", "FAILED", "UNSUPPORTED"}
ConvStatus  == Convertible \union {"GONE", "QUEUED", "CONVERTING", "READY"}

\* Program counters of execute_job; those inside the item processor apart.
Processing == {"dispatch", "load", "verify", "stage", "publish", "ready",
               "generate", "fake"}
PC == Processing \union
      {"idle", "claim", "check", "next", "recheck", "finish",
       "done", "failed", "unexpected", "suspend", "requeue"}

Exists(j)   == st[j] # "NONE"
Items(j)    == {k \in Slot : ist[j][k] # "NONE"}
OpenItems(j) == {k \in Slot : ist[j][k] \in Unfinished}
IsActive(j) == Exists(j) /\ ctl[j] = "ACTIVE"

\* SQLite gives a new row the largest key in use plus one, so the key of a
\* deleted last job is given out again.
IsNextId(j) ==
  /\ \A i \in Job : Exists(i) => i < j
  /\ \A i \in Job : (\A h \in Job : Exists(h) => h < i) => j <= i

\* task.schedule(id="background-job-N"): Huey does not merge equal ids.
Delivered(j, r) ==
  [pending EXCEPT ![j][r] = IF @ < MaxDeliveries THEN @ + 1 ELSE @]

NoTask == [job |-> Null, left |-> 0, slot |-> Null, src |-> Null]
NoClaims == [s \in Source |-> "GONE"]

\* The Web process between two requests with an enqueue, or out of service.
WebAt(label, todo) ==
  [pc |-> label, op |-> "none", job |-> Null, prev |-> "NONE", beat |-> "null",
   saved |-> NoClaims, todo |-> todo]

TaskRecord == [job: Job \union {Null}, left: 0..Retries,
               slot: Slot \union {Null}, src: Source \union {Null}]
BootRecord == [pc: {"up", "down", "reconcile", "enqueue"}, todo: SUBSET Job]
WebRecord == [pc: {"up", "down", "recover", "enqueue", "undo"},
              op: {"none", "create", "resume", "restart", "recover"},
              job: Job \union {Null}, prev: RowStatus, beat: Lease,
              saved: [Source -> ConvStatus], todo: SUBSET Job]

TypeOK ==
  /\ st \in [Job -> RowStatus]
  /\ ctl \in [Job -> Control]
  /\ lease \in [Job -> Lease]
  /\ kind \in [Job -> Kind]
  /\ ist \in [Job -> [Slot -> RowStatus]]
  /\ isrc \in [Job -> [Slot -> Source \union {Null}]]
  /\ conv \in [Source -> ConvStatus]
  /\ pending \in [Job -> [0..Retries -> Nat]]
  /\ pc \in [Worker -> PC]
  /\ task \in [Worker -> TaskRecord]
  /\ boot \in BootRecord
  /\ web \in WebRecord
  /\ crashes \in 0..MaxCrashes

Init ==
  /\ st = [j \in Job |-> "NONE"]
  /\ ctl = [j \in Job |-> "ACTIVE"]
  /\ lease = [j \in Job |-> "null"]
  /\ kind = [j \in Job |-> "conversion"]
  /\ ist = [j \in Job |-> [k \in Slot |-> "NONE"]]
  /\ isrc = [j \in Job |-> [k \in Slot |-> Null]]
  /\ conv = [s \in Source |-> "NEW"]
  /\ pending = [j \in Job |-> [r \in 0..Retries |-> 0]]
  /\ pc = [w \in Worker |-> "idle"]
  /\ task = [w \in Worker |-> NoTask]
  /\ boot = [pc |-> "up", todo |-> {}]
  /\ web = WebAt("up", {})
  /\ crashes = 0

-----------------------------------------------------------------------------
(* Admin requests.  A request that only writes the database is one step;   *)
(* one that enqueues commits first, then hands the id to Huey, then undoes *)
(* its commit when Huey refuses.  Requests run in a thread pool, so the    *)
(* one-step requests may fall between the two halves of another.           *)

\* The lifespan handler recovers stale jobs before the first request is served.
Serving == web.pc \notin {"down", "recover"} /\ web.op # "recover"

InsertJob(j, k, f, status) ==
  /\ st' = [st EXCEPT ![j] = status]
  /\ ctl' = [ctl EXCEPT ![j] = "ACTIVE"]
  /\ lease' = [lease EXCEPT ![j] = "null"]
  /\ kind' = [kind EXCEPT ![j] = k]
  /\ ist' = [ist EXCEPT ![j] = [i \in Slot |-> IF f[i] THEN "QUEUED" ELSE "NONE"]]

\* The request remembers what its compensation would write back.
AwaitEnqueue(j, op, prev, beat, saved) ==
  web' = [pc |-> "enqueue", op |-> op, job |-> j, prev |-> prev, beat |-> beat,
          saved |-> saved, todo |-> web.todo \ {j}]

\* The item rows of a conversion job: the i-th item converts order[i].
Orders ==
  {order \in [Slot -> Source \union {Null}] :
     /\ \A i, k \in Slot : i # k /\ order[i] = order[k] => order[i] = Null
     /\ \A i, k \in Slot : i < k /\ order[k] # Null => order[i] # Null}

Claimable == {s \in Source : conv[s] \notin {"GONE", "QUEUED", "CONVERTING"}}

\* What the conversion requests select: chosen files, a folder or all new and
\* changed files; every inactive file; one inactive file; nothing, when no file is
\* new or changed or when those of a folder need no conversion.
Selectable(S) ==
  \/ S # {} /\ \A s \in S : conv[s] \in Convertible
  \/ S = Claimable
  \/ \E s \in Claimable : S = {s}
  \/ S = {} /\ \A s \in Source : conv[s] \notin {"NEW", "CHANGED"}
  \/ S = {} /\ \E s \in Source : conv[s] \in {"QUEUED", "CONVERTING", "READY"}

CreateConversionJob(j) ==
  /\ web.pc = "up"
  /\ IsNextId(j)
  /\ \E order \in Orders :
       LET S == {order[i] : i \in Slot} \ {Null} IN
       /\ Selectable(S)
       /\ InsertJob(j, "conversion", [i \in Slot |-> order[i] # Null],
                    IF S = {} THEN "COMPLETED" ELSE "QUEUED")
       /\ isrc' = [isrc EXCEPT ![j] = order]
       /\ conv' = [s \in Source |-> IF s \in S THEN "QUEUED" ELSE conv[s]]
       /\ IF S = {}
          THEN UNCHANGED web
          ELSE AwaitEnqueue(j, "create", "NONE", "null",
                 [s \in Source |-> IF s \in S THEN conv[s] ELSE "GONE"])
  /\ UNCHANGED <<pending, workerVars, crashes>>

CreateSourcelessJob(j, k, f) ==
  /\ web.pc = "up"
  /\ IsNextId(j)
  /\ InsertJob(j, k, f, "QUEUED")
  /\ isrc' = [isrc EXCEPT ![j] = [i \in Slot |-> Null]]
  /\ AwaitEnqueue(j, "create", "NONE", "null", NoClaims)
  /\ UNCHANGED <<conv, pending, workerVars, crashes>>

CreateIndexJob(j) ==
  /\ "index" \in Env
  /\ \A i \in Job : kind[i] = "index" => st[i] \notin Unfinished
  /\ \E first \in Slot :
       /\ \A k \in Slot : first <= k
       /\ CreateSourcelessJob(j, "index", [k \in Slot |-> k = first])

CreateTestJob(j) ==
  /\ "test" \in Env
  /\ CreateSourcelessJob(j, "test", [k \in Slot |-> TRUE])

PauseJob(j) ==
  /\ "pause" \in Env /\ Serving
  /\ st[j] \in Unfinished /\ ctl[j] = "ACTIVE"
  /\ ctl' = [ctl EXCEPT ![j] = "PAUSED"]
  /\ lease' = [lease EXCEPT ![j] = "null"]
  /\ UNCHANGED <<st, kind, itemVars, conv, pending, workerVars, web, crashes>>

ResumeJob(j) ==
  /\ "resume" \in Env /\ web.pc = "up"
  /\ st[j] \in Unfinished /\ ctl[j] = "PAUSED"
  /\ ctl' = [ctl EXCEPT ![j] = "ACTIVE"]
  /\ AwaitEnqueue(j, "resume", "NONE", "null", NoClaims)
  /\ UNCHANGED <<st, lease, kind, itemVars, conv, pending, workerVars, crashes>>

StopJob(j) ==
  /\ "stop" \in Env /\ Serving
  /\ st[j] \in Unfinished /\ ctl[j] # "STOPPED"
  /\ ctl' = [ctl EXCEPT ![j] = "STOPPED"]
  /\ lease' = [lease EXCEPT ![j] = "null"]
  /\ UNCHANGED <<st, kind, itemVars, conv, pending, workerVars, web, crashes>>

RestartJob(j) ==
  /\ "restart" \in Env /\ web.pc = "up"
  /\ Exists(j) /\ ctl[j] = "STOPPED" /\ st[j] # "RUNNING"
  /\ OpenItems(j) # {}
  /\ ctl' = [ctl EXCEPT ![j] = "ACTIVE"]
  /\ st' = [st EXCEPT ![j] = "QUEUED"]
  /\ lease' = [lease EXCEPT ![j] = "null"]
  /\ AwaitEnqueue(j, "restart", st[j], lease[j], NoClaims)
  /\ UNCHANGED <<kind, itemVars, conv, pending, workerVars, crashes>>

Deletable(j) == Exists(j) /\ (st[j] \in Unfinished => ctl[j] = "STOPPED")

\* Seeded fault: the sources of a deleted job are left as they are.
FailSourcesForgotten(D) == UNCHANGED conv

\* _prepare_job_for_delete fails the sources that jobs D still claimed.
FailSources(D) ==
  conv' = [s \in Source |->
    IF /\ conv[s] \in {"QUEUED", "CONVERTING"}
       /\ \E j \in D : \E k \in OpenItems(j) : isrc[j][k] = s
    THEN "FAILED" ELSE conv[s]]

\* The items of a deleted job go with it.
DropJobs(D) ==
  /\ st' = [j \in Job |-> IF j \in D THEN "NONE" ELSE st[j]]
  /\ ist' = [j \in Job |-> IF j \in D THEN [k \in Slot |-> "NONE"] ELSE ist[j]]
  /\ isrc' = [j \in Job |-> IF j \in D THEN [k \in Slot |-> Null] ELSE isrc[j]]
  /\ FailSources(D)
  /\ UNCHANGED <<ctl, lease, kind, pending, workerVars, web, crashes>>

DeleteJob(j) ==
  /\ "delete" \in Env /\ Serving
  /\ Deletable(j)
  /\ DropJobs({j})

DeleteAllJobs ==
  /\ "delete" \in Env /\ Serving
  /\ \E j \in Job : Exists(j)
  /\ \A j \in Job : Exists(j) => Deletable(j)
  /\ DropJobs({j \in Job : Exists(j)})

\* The request, or the recovery, hands its job to Huey.
WebEnqueue ==
  /\ web.pc = "enqueue"
  /\ pending' = Delivered(web.job, Retries)
  /\ web' = WebAt(IF web.op = "recover" THEN "recover" ELSE "up", web.todo)
  /\ UNCHANGED <<jobVars, itemVars, conv, workerVars, crashes>>

\* Huey refuses: a request goes on to undo its commit; the exception of the
\* startup recovery ends the Web process.
RequestRefused == web.op # "recover" /\ web' = [web EXCEPT !.pc = "undo"]
RecoveryDies == web.op = "recover" /\ web' = WebAt("down", {})

WebEnqueueFails ==
  /\ "enqfail" \in Env /\ web.pc = "enqueue"
  /\ RequestRefused \/ RecoveryDies
  /\ UNCHANGED <<jobVars, itemVars, conv, pending, workerVars, crashes>>

\* Compensation of a create: fail the job, give the sources still QUEUED the
\* status they were claimed from.
UndoCreate(j) ==
  /\ web.op = "create"
  /\ st' = [st EXCEPT ![j] = "FAILED"]
  /\ ist' = [ist EXCEPT ![j] = [k \in Slot |->
               IF ist[j][k] = "NONE" THEN "NONE" ELSE "FAILED"]]
  /\ conv' = [s \in Source |->
       IF conv[s] = "QUEUED" /\ web.saved[s] # "GONE" THEN web.saved[s] ELSE conv[s]]
  /\ UNCHANGED <<ctl, lease>>

UndoResume(j) ==
  /\ web.op = "resume"
  /\ ctl' = [ctl EXCEPT ![j] = "PAUSED"]
  /\ UNCHANGED <<st, lease, ist, conv>>

\* The ORM writes back only columns that differ from what the restart wrote: a
\* status that was QUEUED and a null heartbeat are left as they are now.
UndoRestart(j) ==
  /\ web.op = "restart"
  /\ ctl' = [ctl EXCEPT ![j] = "STOPPED"]
  /\ st' = [st EXCEPT ![j] = IF web.prev = "QUEUED" THEN @ ELSE web.prev]
  /\ lease' = [lease EXCEPT ![j] = IF web.beat = "null" THEN @ ELSE web.beat]
  /\ UNCHANGED <<ist, conv>>

WebUndo ==
  /\ web.pc = "undo"
  /\ web' = WebAt("up", {})
  /\ IF Exists(web.job)
     THEN UndoCreate(web.job) \/ UndoResume(web.job) \/ UndoRestart(web.job)
     ELSE UNCHANGED <<st, ctl, lease, ist, conv>>
  /\ UNCHANGED <<kind, isrc, pending, workerVars, crashes>>

-----------------------------------------------------------------------------
(* The Web process dies and starts again; its start-up recovery.           *)

\* Seeded fault: the heartbeat condition is dropped from the claim.
LeaseExpiredDropped(j) == TRUE

LeaseExpired(j) == lease[j] \in {"null", "stale"}

Recoverable == {j \in Job : st[j] = "RUNNING" /\ ctl[j] = "ACTIVE" /\ LeaseExpired(j)}

\* Seeded faults: items are reset to a status no claim looks for; the items, or
\* the sources, of a recovered job are forgotten.
RequeueItemsAsPending(j) ==
  ist' = [ist EXCEPT ![j] = [k \in Slot |->
            IF ist[j][k] = "RUNNING" THEN "PENDING" ELSE ist[j][k]]]

RequeueItemsForgotten(j) == UNCHANGED ist

ReleaseSourcesForgotten(j) == UNCHANGED conv

\* RUNNING items of j go back to QUEUED, and with them the sources they had
\* marked CONVERTING.
RequeueItems(j) ==
  ist' = [ist EXCEPT ![j] = [k \in Slot |->
            IF ist[j][k] = "RUNNING" THEN "QUEUED" ELSE ist[j][k]]]

ReleaseSources(j) ==
  conv' = [s \in Source |->
    IF /\ conv[s] = "CONVERTING"
       /\ \E k \in Slot : ist[j][k] = "RUNNING" /\ isrc[j][k] = s
    THEN "QUEUED" ELSE conv[s]]

WebCrash ==
  /\ "webcrash" \in Env /\ web.pc # "down" /\ crashes < MaxCrashes
  /\ web' = WebAt("down", {})
  /\ crashes' = crashes + 1
  /\ UNCHANGED <<jobVars, itemVars, conv, pending, workerVars>>

WebStart ==
  /\ web.pc = "down"
  /\ web' = WebAt("recover", Recoverable)
  /\ UNCHANGED <<jobVars, itemVars, conv, pending, workerVars, crashes>>

RecoverJob(j) ==
  /\ web.pc = "recover" /\ j \in web.todo
  /\ IF j \in Recoverable
     THEN /\ st' = [st EXCEPT ![j] = "QUEUED"]
          /\ lease' = [lease EXCEPT ![j] = "null"]
          /\ RequeueItems(j)
          /\ ReleaseSources(j)
          /\ AwaitEnqueue(j, "recover", "NONE", "null", NoClaims)
     ELSE /\ web' = WebAt("recover", web.todo \ {j})
          /\ UNCHANGED <<st, lease, ist, conv>>
  /\ UNCHANGED <<ctl, kind, isrc, pending, workerVars, crashes>>

WebUp ==
  /\ web.pc = "recover" /\ web.todo = {}
  /\ web' = WebAt("up", {})
  /\ UNCHANGED <<jobVars, itemVars, conv, pending, workerVars, crashes>>

-----------------------------------------------------------------------------
(* The source inventory, as far as jobs see it (source_files.py).          *)

SourceChanged(s) ==
  /\ "change" \in Env /\ Serving /\ conv[s] # "GONE"
  /\ conv' = [conv EXCEPT ![s] = "CHANGED"]
  /\ UNCHANGED <<jobVars, itemVars, pending, workerVars, web, crashes>>

\* The row is deleted; the foreign key of its items becomes NULL.
SourceRemoved(s) ==
  /\ "remove" \in Env /\ Serving /\ conv[s] # "GONE"
  /\ conv' = [conv EXCEPT ![s] = "GONE"]
  /\ isrc' = [j \in Job |-> [k \in Slot |->
                IF isrc[j][k] = s THEN Null ELSE isrc[j][k]]]
  /\ UNCHANGED <<jobVars, ist, pending, workerVars, web, crashes>>

SourceAdded(s) ==
  /\ "remove" \in Env /\ Serving /\ conv[s] = "GONE"
  /\ conv' = [conv EXCEPT ![s] = "NEW"]
  /\ UNCHANGED <<jobVars, itemVars, pending, workerVars, web, crashes>>

-----------------------------------------------------------------------------
(* The Worker process: execute_job, one action per session.                *)

Goto(w, label) == pc' = [pc EXCEPT ![w] = label]
Drop(w) == Goto(w, "idle") /\ task' = [task EXCEPT ![w] = NoTask]

Deliver(w, j, r) ==
  /\ boot.pc = "up" /\ pc[w] = "idle"
  /\ pending[j][r] > 0
  /\ pending' = [pending EXCEPT ![j][r] = @ - 1]
  /\ task' = [task EXCEPT ![w] = [job |-> j, left |-> r, slot |-> Null, src |-> Null]]
  /\ Goto(w, "claim")
  /\ UNCHANGED <<jobVars, itemVars, conv, boot, web, crashes>>

\* Seeded fault: the claim asks for the control state only.
CanClaimAnyStatus(j) == IsActive(j)

CanClaim(j) ==
  /\ IsActive(j)
  /\ st[j] = "QUEUED" \/ (st[j] = "RUNNING" /\ LeaseExpired(j))

ClaimJob(w) ==
  LET j == task[w].job IN
  /\ pc[w] = "claim"
  /\ IF CanClaim(j)
     THEN /\ st' = [st EXCEPT ![j] = "RUNNING"]
          /\ lease' = [lease EXCEPT ![j] = "fresh"]
          /\ RequeueItems(j)
          /\ Goto(w, "check")
          /\ UNCHANGED task
     ELSE /\ Drop(w)
          /\ UNCHANGED <<st, lease, ist>>
  /\ UNCHANGED <<ctl, kind, isrc, conv, pending, boot, web, crashes>>

\* _check_job_control at the head of the loop, and again before finishing.
CheckControl(w) ==
  /\ pc[w] \in {"check", "recheck"}
  /\ task' = [task EXCEPT ![w] = [job |-> task[w].job, left |-> task[w].left,
                                  slot |-> Null, src |-> Null]]
  /\ Goto(w, IF ~IsActive(task[w].job) THEN "suspend"
             ELSE IF pc[w] = "check" THEN "next" ELSE "finish")
  /\ UNCHANGED <<jobVars, itemVars, conv, pending, boot, web, crashes>>

ClaimNextItem(w) ==
  LET j == task[w].job IN
  /\ pc[w] = "next"
  /\ IF st[j] = "RUNNING" /\ ctl[j] = "ACTIVE" /\ \E k \in Slot : ist[j][k] = "QUEUED"
     THEN \E k \in Slot :
            /\ ist[j][k] = "QUEUED"
            /\ \A i \in Slot : ist[j][i] = "QUEUED" => k <= i
            /\ ist' = [ist EXCEPT ![j][k] = "RUNNING"]
            /\ lease' = [lease EXCEPT ![j] = "fresh"]
            /\ task' = [task EXCEPT ![w] = [job |-> j, left |-> task[w].left,
                                            slot |-> k, src |-> isrc[j][k]]]
            /\ Goto(w, "dispatch")
     ELSE Goto(w, "recheck") /\ UNCHANGED <<ist, lease, task>>
  /\ UNCHANGED <<st, ctl, kind, isrc, conv, pending, boot, web, crashes>>

FinishJob(w) ==
  LET j == task[w].job IN
  /\ pc[w] = "finish"
  /\ IF st[j] = "RUNNING"
     THEN /\ st' = [st EXCEPT ![j] =
               IF \E k \in Slot : ist[j][k] = "FAILED" THEN "FAILED" ELSE "COMPLETED"]
          /\ lease' = [lease EXCEPT ![j] = "fresh"]
     ELSE UNCHANGED <<st, lease>>
  /\ Drop(w)
  /\ UNCHANGED <<ctl, kind, itemVars, conv, pending, boot, web, crashes>>

\* Routing by job type; a job deleted meanwhile has none.
Dispatch(w) ==
  LET j == task[w].job IN
  /\ pc[w] = "dispatch"
  /\ \/ ~Exists(j) /\ Goto(w, "failed")
     \/ Exists(j) /\ kind[j] = "conversion" /\ Goto(w, "load")
     \/ Exists(j) /\ kind[j] = "index" /\ Goto(w, "generate")
     \/ Exists(j) /\ kind[j] = "test" /\ Goto(w, "fake")
  /\ UNCHANGED <<jobVars, itemVars, conv, pending, task, boot, web, crashes>>

\* The converter marks its source CONVERTING, or fails the item because the
\* record or the file is no longer there.
LoadSource(w) ==
  LET s == task[w].src IN
  /\ pc[w] = "load"
  /\ \/ /\ s = Null \/ (s \in Source /\ conv[s] = "GONE")
        /\ Goto(w, "failed")
        /\ UNCHANGED conv
     \/ /\ s \in Source /\ conv[s] # "GONE"
        /\ \/ conv' = [conv EXCEPT ![s] = "FAILED"] /\ Goto(w, "failed")
           \/ conv' = [conv EXCEPT ![s] = "CONVERTING"] /\ Goto(w, "verify")
  /\ UNCHANGED <<jobVars, itemVars, pending, task, boot, web, crashes>>

\* Seeded fault: the new status is never committed.
SetSourceUncommitted(w, status, label) == Goto(w, label) /\ UNCHANGED conv

\* record.conversion_status = status; commit.  The UPDATE of a deleted row
\* matches nothing and raises.
SetSource(w, status, label) ==
  LET s == task[w].src IN
  IF conv[s] = "GONE"
  THEN Goto(w, "unexpected") /\ UNCHANGED conv
  ELSE Goto(w, label) /\ conv' = [conv EXCEPT ![s] = status]

\* _heartbeat: refresh the lease of a RUNNING job, or signal the control state.
Heartbeat(w, label) ==
  LET j == task[w].job IN
  IF IsActive(j)
  THEN /\ lease' = IF st[j] = "RUNNING" THEN [lease EXCEPT ![j] = "fresh"] ELSE lease
       /\ Goto(w, label)
  ELSE /\ Goto(w, "suspend")
       /\ UNCHANGED lease

\* Hash check, then the first heartbeat of the watchdog's context manager.
VerifySource(w) ==
  /\ pc[w] = "verify"
  /\ \/ SetSource(w, "FAILED", "failed") /\ UNCHANGED lease
     \/ Heartbeat(w, "stage") /\ UNCHANGED conv
  /\ UNCHANGED <<st, ctl, kind, itemVars, pending, task, boot, web, crashes>>

\* engine.stage, and the sourceless workloads, call the heartbeat as they go.
BeatWhileWorking(w) ==
  /\ pc[w] \in {"stage", "generate", "fake"}
  /\ Heartbeat(w, pc[w])
  /\ UNCHANGED <<st, ctl, kind, itemVars, conv, pending, task, boot, web, crashes>>

\* engine.stage returns, or fails the document.
StageSource(w) ==
  /\ pc[w] = "stage"
  /\ \/ Goto(w, "publish") /\ UNCHANGED conv
     \/ \E status \in {"FAILED", "UNSUPPORTED"} : SetSource(w, status, "failed")
  /\ UNCHANGED <<jobVars, itemVars, pending, task, boot, web, crashes>>

\* Re-read the record, compare the hash, publish; or discard the output.
PublishSource(w) ==
  LET s == task[w].src IN
  /\ pc[w] = "publish"
  /\ \/ SetSource(w, "FAILED", "failed")
     \/ conv[s] # "GONE" /\ Goto(w, "ready") /\ UNCHANGED conv
  /\ UNCHANGED <<jobVars, itemVars, pending, task, boot, web, crashes>>

MarkReady(w) ==
  /\ pc[w] = "ready"
  /\ SetSource(w, "READY", "done")
  /\ UNCHANGED <<jobVars, itemVars, pending, task, boot, web, crashes>>

\* An item without a source: index generation, which may fail its item, or the
\* fake workload, which only sleeps.
DoWork(w) ==
  /\ pc[w] \in {"generate", "fake"}
  /\ Goto(w, "done") \/ (pc[w] = "generate" /\ Goto(w, "failed"))
  /\ UNCHANGED <<jobVars, itemVars, conv, pending, task, boot, web, crashes>>

\* Any other exception out of the item processor.
ProcessorRaises(w) ==
  /\ "unexpected" \in Env /\ pc[w] \in Processing
  /\ Goto(w, "unexpected")
  /\ UNCHANGED <<jobVars, itemVars, conv, pending, task, boot, web, crashes>>

FinishItem(w) ==
  LET j == task[w].job  k == task[w].slot IN
  /\ pc[w] \in {"done", "failed"}
  /\ IF ist[j][k] = "RUNNING"
     THEN /\ ist' = [ist EXCEPT ![j][k] =
                       IF pc[w] = "done" THEN "COMPLETED" ELSE "FAILED"]
          /\ lease' = [lease EXCEPT ![j] = "fresh"]
     ELSE UNCHANGED <<ist, lease>>
  /\ Goto(w, "check")
  /\ UNCHANGED <<st, ctl, kind, isrc, conv, pending, task, boot, web, crashes>>

\* The run ends cooperatively.  The persisted control state is read again and
\* kept, and the status becomes QUEUED whatever it was.
SuspendJob(w) ==
  LET j == task[w].job  k == task[w].slot IN
  /\ pc[w] = "suspend"
  /\ IF Exists(j)
     THEN /\ st' = [st EXCEPT ![j] = "QUEUED"]
          /\ lease' = [lease EXCEPT ![j] = "null"]
          /\ IF k # Null /\ ist[j][k] = "RUNNING"
             THEN /\ ist' = [ist EXCEPT ![j][k] = "QUEUED"]
                  /\ conv' = [s \in Source |->
                       IF conv[s] = "CONVERTING" /\ isrc[j][k] = s
                       THEN "QUEUED" ELSE conv[s]]
             ELSE UNCHANGED <<ist, conv>>
     ELSE UNCHANGED <<st, lease, ist, conv>>
  /\ Drop(w)
  /\ UNCHANGED <<ctl, kind, isrc, pending, boot, web, crashes>>

\* _handle_unexpected_failure: neither status nor control is consulted.
HandleUnexpected(w) ==
  LET j == task[w].job  k == task[w].slot
      status == IF task[w].left > 0 THEN "QUEUED" ELSE "FAILED" IN
  /\ pc[w] = "unexpected"
  /\ IF Exists(j) /\ ist[j][k] # "NONE"
     THEN /\ st' = [st EXCEPT ![j] = status]
          /\ lease' = [lease EXCEPT ![j] = IF status = "QUEUED" THEN "null" ELSE "fresh"]
          /\ ist' = [ist EXCEPT ![j][k] = status]
          /\ conv' = [s \in Source |->
               IF kind[j] = "conversion" /\ isrc[j][k] = s THEN status ELSE conv[s]]
     ELSE UNCHANGED <<st, lease, ist, conv>>
  /\ Goto(w, "requeue")
  /\ UNCHANGED <<ctl, kind, isrc, pending, task, boot, web, crashes>>

\* A session outside the item processor raises (a locked database).
SessionFails(w) ==
  /\ "dberror" \in Env
  /\ pc[w] \notin Processing \union {"idle", "requeue"}
  /\ Goto(w, "requeue")
  /\ UNCHANGED <<jobVars, itemVars, conv, pending, task, boot, web, crashes>>

\* Seeded fault: the last retry is not used.
HueyRetryOffByOne(w) ==
  /\ pc[w] = "requeue"
  /\ pending' = IF task[w].left > 1
                THEN Delivered(task[w].job, task[w].left - 1) ELSE pending
  /\ Drop(w)
  /\ UNCHANGED <<jobVars, itemVars, conv, boot, web, crashes>>

\* Huey schedules the failed task again while it has retries left.
HueyRetry(w) ==
  /\ pc[w] = "requeue"
  /\ pending' = IF task[w].left > 0
                THEN Delivered(task[w].job, task[w].left - 1) ELSE pending
  /\ Drop(w)
  /\ UNCHANGED <<jobVars, itemVars, conv, boot, web, crashes>>

-----------------------------------------------------------------------------
(* The Worker process dies and is started again by supervisord.            *)

WorkerCrash ==
  /\ "workercrash" \in Env /\ boot.pc # "down" /\ crashes < MaxCrashes
  /\ pc' = [w \in Worker |-> "idle"]
  /\ task' = [w \in Worker |-> NoTask]
  /\ boot' = [pc |-> "down", todo |-> {}]
  /\ crashes' = crashes + 1
  /\ UNCHANGED <<jobVars, itemVars, conv, pending, web>>

\* Seeded fault: paused and stopped jobs are not repaired.
WorkerStartActiveOnly ==
  /\ boot.pc = "down"
  /\ boot' = [pc |-> "reconcile",
              todo |-> {j \in Job : st[j] = "RUNNING" /\ ctl[j] = "ACTIVE"}]
  /\ UNCHANGED <<jobVars, itemVars, conv, pending, pc, task, web, crashes>>

WorkerStart ==
  /\ boot.pc = "down"
  /\ boot' = [pc |-> "reconcile", todo |-> {j \in Job : st[j] = "RUNNING"}]
  /\ UNCHANGED <<jobVars, itemVars, conv, pending, pc, task, web, crashes>>

ReconcileJob(j) ==
  /\ boot.pc = "reconcile" /\ j \in boot.todo
  /\ boot' = [pc |-> "reconcile", todo |-> boot.todo \ {j}]
  /\ IF st[j] = "RUNNING"
     THEN /\ st' = [st EXCEPT ![j] = "QUEUED"]
          /\ lease' = [lease EXCEPT ![j] = "null"]
          /\ RequeueItems(j)
          /\ ReleaseSources(j)
     ELSE UNCHANGED <<st, lease, ist, conv>>
  /\ UNCHANGED <<ctl, kind, isrc, pending, pc, task, web, crashes>>

\* Seeded fault: only jobs still RUNNING are delivered again.
ReconcileListRunning ==
  /\ boot.pc = "reconcile" /\ boot.todo = {}
  /\ boot' = [pc |-> "enqueue",
              todo |-> {j \in Job : st[j] = "RUNNING" /\ ctl[j] = "ACTIVE"}]
  /\ UNCHANGED <<jobVars, itemVars, conv, pending, pc, task, web, crashes>>

ReconcileList ==
  /\ boot.pc = "reconcile" /\ boot.todo = {}
  /\ boot' = [pc |-> "enqueue",
              todo |-> {j \in Job : st[j] \in Unfinished /\ ctl[j] = "ACTIVE"}]
  /\ UNCHANGED <<jobVars, itemVars, conv, pending, pc, task, web, crashes>>

ReconcileEnqueue(j) ==
  /\ boot.pc = "enqueue" /\ j \in boot.todo
  /\ pending' = Delivered(j, Retries)
  /\ boot' = [pc |-> "enqueue", todo |-> boot.todo \ {j}]
  /\ UNCHANGED <<jobVars, itemVars, conv, pc, task, web, crashes>>

WorkerUp ==
  /\ boot.pc = "enqueue" /\ boot.todo = {}
  /\ boot' = [pc |-> "up", todo |-> {}]
  /\ UNCHANGED <<jobVars, itemVars, conv, pending, pc, task, web, crashes>>

\* The watchdog process that runs beside engine.stage writes the lease itself.
WatchdogBeat(w) ==
  LET j == task[w].job IN
  /\ pc[w] = "stage" /\ st[j] = "RUNNING" /\ ctl[j] = "ACTIVE"
  /\ lease' = [lease EXCEPT ![j] = "fresh"]
  /\ UNCHANGED <<st, ctl, kind, itemVars, conv, pending, workerVars, web, crashes>>

\* heartbeat_at grows older than JOB_HEARTBEAT_TIMEOUT.
LeaseExpires(j) ==
  /\ "expire" \in Env /\ lease[j] = "fresh" /\ st[j] = "RUNNING"
  /\ lease' = [lease EXCEPT ![j] = "stale"]
  /\ UNCHANGED <<st, ctl, kind, itemVars, conv, pending, workerVars, web, crashes>>

-----------------------------------------------------------------------------
Request(j) ==
  \/ CreateConversionJob(j) \/ CreateIndexJob(j) \/ CreateTestJob(j)
  \/ PauseJob(j) \/ ResumeJob(j) \/ StopJob(j) \/ RestartJob(j) \/ DeleteJob(j)

WebProgress ==
  \/ WebEnqueue \/ WebUndo \/ WebStart \/ WebUp
  \/ \E j \in Job : RecoverJob(j)

Inventory(s) == SourceChanged(s) \/ SourceRemoved(s) \/ SourceAdded(s)

Convert(w) ==
  LoadSource(w) \/ VerifySource(w) \/ StageSource(w) \/ PublishSource(w) \/ MarkReady(w)

Execute(w) ==
  \/ ClaimJob(w) \/ CheckControl(w) \/ ClaimNextItem(w) \/ FinishJob(w)
  \/ Dispatch(w) \/ Convert(w) \/ DoWork(w)
  \/ FinishItem(w) \/ SuspendJob(w) \/ HandleUnexpected(w) \/ HueyRetry(w)

Boot ==
  \/ WorkerStart \/ ReconcileList \/ WorkerUp
  \/ \E j \in Job : ReconcileJob(j) \/ ReconcileEnqueue(j)

Fault ==
  \/ WebEnqueueFails \/ WebCrash \/ WorkerCrash
  \/ \E w \in Worker : ProcessorRaises(w) \/ SessionFails(w)
  \/ \E j \in Job : LeaseExpires(j)

Next ==
  \/ \E j \in Job : Request(j)
  \/ DeleteAllJobs
  \/ WebProgress
  \/ \E s \in Source : Inventory(s)
  \/ \E w \in Worker :
       \/ \E j \in Job, r \in 0..Retries : Deliver(w, j, r)
       \/ Execute(w) \/ BeatWhileWorking(w) \/ WatchdogBeat(w)
  \/ Boot
  \/ Fault

Spec == Init /\ [][Next]_vars
=============================================================================

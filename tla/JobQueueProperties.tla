-------------------------- MODULE JobQueueProperties --------------------------
(***************************************************************************)
(* What the job queue should guarantee, and under which fairness.          *)
(***************************************************************************)
EXTENDS JobQueue

\* A thread is past the claim of job j and has not let go of it.
InRun(w, j) == task[w].job = j /\ pc[w] \notin {"idle", "claim", "requeue"}

\* execute_job relies on the conditional UPDATE of _claim_job as a lock: however
\* many threads consume deliveries, at most one of them is inside a job.
OneRunPerJob ==
  \A j \in Job : \A v, w \in Worker : InRun(v, j) /\ InRun(w, j) => v = w

\* What makes the claim a lock: while a thread is inside a job, the row says
\* RUNNING, and unless the job is paused or stopped its lease is fresh, so that no
\* claim and no recovery can take it.
RunHoldsLease ==
  \A j \in Job : \A w \in Worker : InRun(w, j) =>
    /\ st[j] = "RUNNING"
    /\ ctl[j] = "ACTIVE" => lease[j] = "fresh"

\* An item is RUNNING only under a RUNNING job, which is where every recovery
\* path looks for it, and at most one item of a job is RUNNING.
RunningItemHasRunningJob ==
  \A j \in Job : \A k \in Slot :
    ist[j][k] = "RUNNING" =>
      /\ st[j] = "RUNNING"
      /\ \A i \in Slot : ist[j][i] = "RUNNING" => i = k

\* A source that waits as QUEUED is named by an unfinished item of a job that
\* still exists: running, restarting or deleting that job releases the source.
QueuedSourceHasItem ==
  \A s \in Source : conv[s] = "QUEUED" =>
    \E j \in Job : \E k \in OpenItems(j) : isrc[j][k] = s

\* No request claims a source that is QUEUED or CONVERTING, so such a source must
\* be named by an unfinished item or be in the hands of a thread: otherwise no
\* request can ever convert it again.
ClaimedSourceIsOwned ==
  \A s \in Source : conv[s] \in {"QUEUED", "CONVERTING"} =>
    \/ \E j \in Job : \E k \in OpenItems(j) : isrc[j][k] = s
    \/ \E w \in Worker :
         task[w].src = s /\ pc[w] \in Processing \union {"suspend", "unexpected"}

\* A COMPLETED job has completed every one of its items.
CompletedJobIsDone ==
  \A j \in Job : st[j] = "COMPLETED" => \A k \in Items(j) : ist[j][k] = "COMPLETED"

\* Every ACTIVE unfinished job is on its way: delivered, being handed to Huey, in
\* the hands of a thread, or about to be reconciled by a Worker that starts.
UnfinishedJobIsUnderWay ==
  \A j \in Job : st[j] \in Unfinished /\ ctl[j] = "ACTIVE" =>
    \/ \E r \in 0..Retries : pending[j][r] > 0
    \/ web.pc \in {"enqueue", "undo"} /\ web.job = j
    \/ \E w \in Worker : task[w].job = j
    \/ boot.pc \in {"down", "reconcile"} \/ j \in boot.todo

\* The queue keeps the promises of the abstract ledger: no settled item is opened
\* again, a job closes only when its items are settled, a closed job stays closed
\* unless it was interrupted with work left.
LedgerPhase == [j \in Job |->
  IF ~Exists(j) THEN "absent"
  ELSE IF st[j] \in Unfinished THEN "open"
  ELSE IF st[j] = "COMPLETED" THEN "completed" ELSE "failed"]

SettledAs(j, status) == {k \in Slot : ist[j][k] = status}
LedgerTodo == [j \in Job |-> OpenItems(j)]
LedgerOk   == [j \in Job |-> SettledAs(j, "COMPLETED")]
LedgerBad  == [j \in Job |-> SettledAs(j, "FAILED")]

Ledger == INSTANCE JobLedger WITH
  phase <- LedgerPhase, todo <- LedgerTodo, ok <- LedgerOk, bad <- LedgerBad

ImplementsLedger == Ledger!Spec

-----------------------------------------------------------------------------
\* Fairness.  supervisord restarts both processes, so what they do on their own
\* goes on; a thread does not stop between two steps; the item processors return,
\* because their model calls have timeouts and bounded attempts; the queue is FIFO
\* (strict_fifo), so a delivery is taken in the end however many others there are.
\* Requests, inventory changes and faults happen or not.
Fairness ==
  /\ WF_vars(WebProgress)
  /\ WF_vars(Boot)
  /\ \A w \in Worker : WF_vars(Execute(w))
  /\ \A j \in Job, r \in 0..Retries : SF_vars(\E w \in Worker : Deliver(w, j, r))

LiveSpec == Spec /\ Fairness

\* A job that is ACTIVE and unfinished ends, unless it is paused or stopped.
ActiveJobSettles ==
  \A j \in Job :
    st[j] \in Unfinished /\ ctl[j] = "ACTIVE"
      ~> st[j] \in Terminal \/ ctl[j] # "ACTIVE"

\* A job paused or stopped while RUNNING leaves that state, so that a restart
\* ("The Worker is still stopping; retry shortly") is accepted in the end.
InterruptedJobLeavesRunning ==
  \A j \in Job :
    st[j] = "RUNNING" /\ ctl[j] # "ACTIVE"
      ~> st[j] # "RUNNING" \/ ctl[j] = "ACTIVE"

\* A conversion is never left half done in the inventory: a source the Worker has
\* marked CONVERTING is marked READY, FAILED or UNSUPPORTED, or waits again.
ConvertingSourceSettles ==
  \A s \in Source : conv[s] = "CONVERTING" ~> conv[s] # "CONVERTING"
=============================================================================

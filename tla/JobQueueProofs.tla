-------------------------- MODULE JobQueueProofs --------------------------
(***************************************************************************)
(* Theorems about the job queue, for any number of jobs, items, sources,   *)
(* consumer threads, retries, deliveries and crashes: one run per job, an  *)
(* item in progress has its job in progress, the queue keeps the promises  *)
(* of JobLedger, a source that a request has claimed is never lost, and    *)
(* neither is a job that waits or runs.                                    *)
(***************************************************************************)
EXTENDS JobQueueProperties, TLAPS

\* A thread that is not idle holds the job it was given.
BusyThreadHasJob == \A w \in Worker : pc[w] # "idle" => task[w].job \in Job

LEMMA InitTyped == Init => TypeOK
  BY JobQueueConstants
  DEF Init, TypeOK, NoTask, WebAt, NoClaims, RowStatus, Unfinished, Terminal,
      Control, Lease, Kind, ConvStatus, Convertible, PC, TaskRecord, BootRecord,
      WebRecord

LEMMA WebAtTyped ==
  ASSUME NEW label \in {"up", "down", "recover"}, NEW todo \in SUBSET Job
  PROVE  WebAt(label, todo) \in WebRecord
  BY DEF WebAt, NoClaims, WebRecord, RowStatus, Lease, ConvStatus

LEMMA RequeueTyped ==
  ASSUME ist \in [Job -> [Slot -> RowStatus]], NEW j, RequeueItems(j)
  PROVE  ist' \in [Job -> [Slot -> RowStatus]]
<1>1. "QUEUED" \in RowStatus
  BY DEF RowStatus, Unfinished
<1>2. CASE j \in Job
  BY <1>1, <1>2 DEF RequeueItems
<1>3. CASE j \notin Job
  BY <1>3 DEF RequeueItems
<1>4. QED
  BY <1>2, <1>3

LEMMA ReleaseTyped ==
  ASSUME conv \in [Source -> ConvStatus], NEW j, ReleaseSources(j)
  PROVE  conv' \in [Source -> ConvStatus]
  BY DEF ReleaseSources, ConvStatus

LEMMA DeliveredTyped ==
  ASSUME pending \in [Job -> [0..Retries -> Nat]], NEW j, NEW r \in 0..Retries
  PROVE  Delivered(j, r) \in [Job -> [0..Retries -> Nat]]
<1>1. CASE j \in Job
  <2> DEFINE count == IF pending[j][r] < MaxDeliveries
                      THEN pending[j][r] + 1 ELSE pending[j][r]
  <2>1. pending[j] \in [0..Retries -> Nat]
    BY <1>1
  <2>2. pending[j][r] \in Nat
    BY <2>1
  <2>3. count \in Nat
    BY <2>2, JobQueueConstants
  <2>4. [pending[j] EXCEPT ![r] = count] \in [0..Retries -> Nat]
    BY <2>1, <2>3
  <2>5. Delivered(j, r) = [pending EXCEPT ![j] = [pending[j] EXCEPT ![r] = count]]
    BY DEF Delivered
  <2>6. QED
    BY <1>1, <2>4, <2>5
<1>2. CASE j \notin Job
  BY <1>2 DEF Delivered
<1>3. QED
  BY <1>1, <1>2

LEMMA GotoTyped ==
  ASSUME pc \in [Worker -> PC], NEW w, NEW label \in PC, Goto(w, label)
  PROVE  pc' \in [Worker -> PC]
  BY DEF Goto

LEMMA DropTyped ==
  ASSUME pc \in [Worker -> PC], task \in [Worker -> TaskRecord], JobQueueConstants,
         NEW w, Drop(w)
  PROVE  pc' \in [Worker -> PC] /\ task' \in [Worker -> TaskRecord]
<1>1. "idle" \in PC /\ NoTask \in TaskRecord
  BY JobQueueConstants DEF PC, NoTask, TaskRecord
<1>2. QED
  BY <1>1 DEF Drop, Goto

LEMMA ItemTyped ==
  ASSUME ist \in [Job -> [Slot -> RowStatus]], NEW j, NEW k, NEW status \in RowStatus
  PROVE  [ist EXCEPT ![j][k] = status] \in [Job -> [Slot -> RowStatus]]
<1>1. CASE j \in Job
  <2>1. [ist[j] EXCEPT ![k] = status] \in [Slot -> RowStatus]
    BY <1>1
  <2>2. QED
    BY <1>1, <2>1
<1>2. CASE j \notin Job
  BY <1>2
<1>3. QED
  BY <1>1, <1>2

LEMMA UndoTyped == ASSUME web \in WebRecord PROVE [web EXCEPT !.pc = "undo"] \in WebRecord
  BY DEF WebRecord

LEMMA StepTyped == TypeOK /\ BusyThreadHasJob /\ [Next]_vars => TypeOK'
<1> SUFFICES ASSUME TypeOK, BusyThreadHasJob, [Next]_vars PROVE TypeOK'
  OBVIOUS
<1> USE JobQueueConstants DEF TypeOK, jobVars, itemVars, workerVars
<1>0. CASE UNCHANGED vars
  BY <1>0 DEF vars
<1>1. ASSUME NEW j \in Job, CreateConversionJob(j) PROVE TypeOK'
  <2>1. PICK order \in Orders :
          LET S == {order[i] : i \in Slot} \ {Null} IN
          /\ InsertJob(j, "conversion", [i \in Slot |-> order[i] # Null],
                       IF S = {} THEN "COMPLETED" ELSE "QUEUED")
          /\ isrc' = [isrc EXCEPT ![j] = order]
          /\ conv' = [s \in Source |-> IF s \in S THEN "QUEUED" ELSE conv[s]]
          /\ IF S = {}
             THEN UNCHANGED web
             ELSE AwaitEnqueue(j, "create", "NONE", "null",
                    [s \in Source |-> IF s \in S THEN conv[s] ELSE "GONE"])
    BY <1>1 DEF CreateConversionJob
  <2>2. /\ st' \in [Job -> RowStatus] /\ ctl' \in [Job -> Control]
        /\ lease' \in [Job -> Lease] /\ kind' \in [Job -> Kind]
    BY <2>1 DEF InsertJob, RowStatus, Unfinished, Terminal, Control, Lease, Kind
  <2>3. ist' \in [Job -> [Slot -> RowStatus]]
    BY <2>1 DEF InsertJob, RowStatus, Unfinished, Terminal
  <2>4. isrc' \in [Job -> [Slot -> Source \union {Null}]]
    BY <2>1 DEF Orders
  <2>5. conv' \in [Source -> ConvStatus]
    BY <2>1 DEF ConvStatus, Convertible
  <2>6. web' \in WebRecord
    <3> DEFINE S == {order[i] : i \in Slot} \ {Null}
               saved == [s \in Source |-> IF s \in S THEN conv[s] ELSE "GONE"]
    <3>1. saved \in [Source -> ConvStatus]
      BY DEF ConvStatus
    <3>2. UNCHANGED web \/ AwaitEnqueue(j, "create", "NONE", "null", saved)
      BY <2>1
    <3> HIDE DEF saved
    <3>3. QED
      BY <3>1, <3>2 DEF AwaitEnqueue, WebRecord, RowStatus, Lease
  <2>7. QED
    BY <1>1, <2>2, <2>3, <2>4, <2>5, <2>6 DEF CreateConversionJob
<1>2. ASSUME NEW j \in Job, CreateIndexJob(j) PROVE TypeOK'
  <2>1. PICK f \in [Slot -> BOOLEAN] : CreateSourcelessJob(j, "index", f)
    BY <1>2 DEF CreateIndexJob
  <2>2. /\ st' \in [Job -> RowStatus] /\ ctl' \in [Job -> Control]
        /\ lease' \in [Job -> Lease] /\ kind' \in [Job -> Kind]
    BY <2>1 DEF CreateSourcelessJob, InsertJob, RowStatus, Unfinished, Control,
                Lease, Kind
  <2>3. ist' \in [Job -> [Slot -> RowStatus]]
    BY <2>1 DEF CreateSourcelessJob, InsertJob, RowStatus, Unfinished
  <2>4. web' \in WebRecord
    BY <2>1 DEF CreateSourcelessJob, AwaitEnqueue, NoClaims, WebRecord, RowStatus,
                Lease, ConvStatus
  <2>5. QED
    BY <2>1, <2>2, <2>3, <2>4 DEF CreateSourcelessJob
<1>3. ASSUME NEW j \in Job, CreateTestJob(j) PROVE TypeOK'
  <2>1. PICK f \in [Slot -> BOOLEAN] : CreateSourcelessJob(j, "test", f)
    BY <1>3 DEF CreateTestJob
  <2>2. /\ st' \in [Job -> RowStatus] /\ ctl' \in [Job -> Control]
        /\ lease' \in [Job -> Lease] /\ kind' \in [Job -> Kind]
    BY <2>1 DEF CreateSourcelessJob, InsertJob, RowStatus, Unfinished, Control,
                Lease, Kind
  <2>3. ist' \in [Job -> [Slot -> RowStatus]]
    BY <2>1 DEF CreateSourcelessJob, InsertJob, RowStatus, Unfinished
  <2>4. web' \in WebRecord
    BY <2>1 DEF CreateSourcelessJob, AwaitEnqueue, NoClaims, WebRecord, RowStatus,
                Lease, ConvStatus
  <2>5. QED
    BY <2>1, <2>2, <2>3, <2>4 DEF CreateSourcelessJob
<1>4. ASSUME NEW j \in Job, PauseJob(j) PROVE TypeOK'
  BY <1>4
  DEF PauseJob, Control, Lease
<1>5. ASSUME NEW j \in Job, ResumeJob(j) PROVE TypeOK'
  BY <1>5
  DEF ResumeJob, AwaitEnqueue, NoClaims, Control, Lease, RowStatus,
      Unfinished, Terminal, ConvStatus, Convertible, WebRecord
<1>6. ASSUME NEW j \in Job, StopJob(j) PROVE TypeOK'
  BY <1>6
  DEF StopJob, Control, Lease
<1>7. ASSUME NEW j \in Job, RestartJob(j) PROVE TypeOK'
  BY <1>7
  DEF RestartJob, AwaitEnqueue, NoClaims, Control, Lease, RowStatus,
      Unfinished, Terminal, ConvStatus, Convertible, WebRecord
<1>8. ASSUME NEW j \in Job, DeleteJob(j) PROVE TypeOK'
  BY <1>8
  DEF DeleteJob, DropJobs, FailSources, RowStatus, Unfinished, Terminal,
      ConvStatus, Convertible
<1>9. ASSUME DeleteAllJobs PROVE TypeOK'
  BY <1>9
  DEF DeleteAllJobs, DropJobs, FailSources, RowStatus, Unfinished, Terminal,
      ConvStatus, Convertible
<1>10. ASSUME WebEnqueue PROVE TypeOK'
  <2>1. web' \in WebRecord
    BY <1>10, WebAtTyped DEF WebEnqueue, WebRecord
  <2>2. pending' \in [Job -> [0..Retries -> Nat]]
    BY <1>10, DeliveredTyped DEF WebEnqueue
  <2>3. QED
    BY <1>10, <2>1, <2>2 DEF WebEnqueue
<1>11. ASSUME WebUndo PROVE TypeOK'
  <2>1. web' \in WebRecord
    BY <1>11, WebAtTyped DEF WebUndo
  <2>2. /\ ctl' \in [Job -> Control] /\ lease' \in [Job -> Lease]
        /\ st' \in [Job -> RowStatus]
    BY <1>11 DEF WebUndo, UndoCreate, UndoResume, UndoRestart, Control, Lease,
                 WebRecord, RowStatus, Terminal, Unfinished
  <2>3. ist' \in [Job -> [Slot -> RowStatus]]
    BY <1>11 DEF WebUndo, UndoCreate, UndoResume, UndoRestart, RowStatus, Terminal
  <2>4. conv' \in [Source -> ConvStatus]
    BY <1>11 DEF WebUndo, UndoCreate, UndoResume, UndoRestart, WebRecord
  <2>5. QED
    BY <1>11, <2>1, <2>2, <2>3, <2>4 DEF WebUndo
<1>12. ASSUME WebStart PROVE TypeOK'
  <2>1. Recoverable \in SUBSET Job
    BY DEF Recoverable
  <2>2. QED
    BY <1>12, <2>1, WebAtTyped DEF WebStart
<1>13. ASSUME WebUp PROVE TypeOK'
  BY <1>13, WebAtTyped DEF WebUp
<1>14. ASSUME NEW j \in Job, RecoverJob(j) PROVE TypeOK'
  <2>1. web' \in WebRecord
    BY <1>14, WebAtTyped
    DEF RecoverJob, AwaitEnqueue, NoClaims, WebRecord, RowStatus, Lease, ConvStatus
  <2>2. ist' \in [Job -> [Slot -> RowStatus]] /\ conv' \in [Source -> ConvStatus]
    BY <1>14, RequeueTyped, ReleaseTyped DEF RecoverJob
  <2>3. st' \in [Job -> RowStatus] /\ lease' \in [Job -> Lease]
    BY <1>14 DEF RecoverJob, RowStatus, Unfinished, Lease
  <2>4. QED
    BY <1>14, <2>1, <2>2, <2>3 DEF RecoverJob
<1>15. ASSUME NEW s \in Source, SourceChanged(s) PROVE TypeOK'
  BY <1>15
  DEF SourceChanged, ConvStatus, Convertible
<1>16. ASSUME NEW s \in Source, SourceRemoved(s) PROVE TypeOK'
  BY <1>16
  DEF SourceRemoved, ConvStatus, Convertible
<1>17. ASSUME NEW s \in Source, SourceAdded(s) PROVE TypeOK'
  BY <1>17
  DEF SourceAdded, ConvStatus, Convertible
<1>18. ASSUME NEW w \in Worker, NEW j \in Job, NEW r \in 0..Retries, Deliver(w, j, r) PROVE TypeOK'
  <2>1. [job |-> j, left |-> r, slot |-> Null, src |-> Null] \in TaskRecord
    BY <1>18 DEF TaskRecord
  <2>2. task' \in [Worker -> TaskRecord] /\ pc' \in [Worker -> PC]
    BY <1>18, <2>1, GotoTyped DEF Deliver, PC
  <2>3. pending' \in [Job -> [0..Retries -> Nat]]
    <3>1. pending[j] \in [0..Retries -> Nat] /\ pending[j][r] - 1 \in Nat
      BY <1>18 DEF Deliver
    <3>2. [pending[j] EXCEPT ![r] = pending[j][r] - 1] \in [0..Retries -> Nat]
      BY <3>1
    <3>3. QED
      BY <1>18, <3>2 DEF Deliver
  <2>4. QED
    BY <1>18, <2>2, <2>3 DEF Deliver
<1>19. ASSUME NEW w \in Worker, ClaimJob(w) PROVE TypeOK'
  <2>1. pc' \in [Worker -> PC] /\ task' \in [Worker -> TaskRecord]
    BY <1>19, GotoTyped, DropTyped DEF ClaimJob, PC
  <2>2. ist' \in [Job -> [Slot -> RowStatus]]
    BY <1>19, RequeueTyped DEF ClaimJob
  <2>3. st' \in [Job -> RowStatus] /\ lease' \in [Job -> Lease]
    BY <1>19 DEF ClaimJob, RowStatus, Unfinished, Lease
  <2>4. QED
    BY <1>19, <2>1, <2>2, <2>3 DEF ClaimJob
<1>20. ASSUME NEW w \in Worker, CheckControl(w) PROVE TypeOK'
  BY <1>20
  DEF CheckControl, Goto, PC, Processing, TaskRecord
<1>21. ASSUME NEW w \in Worker, ClaimNextItem(w) PROVE TypeOK'
  <2> DEFINE j == task[w].job
  <2>1. CASE UNCHANGED <<ist, lease, task>> /\ Goto(w, "recheck")
    BY <1>21, <2>1, GotoTyped DEF ClaimNextItem, PC
  <2>2. ASSUME NEW k \in Slot, st[j] = "RUNNING",
               ist' = [ist EXCEPT ![j][k] = "RUNNING"],
               lease' = [lease EXCEPT ![j] = "fresh"],
               task' = [task EXCEPT ![w] = [job |-> j, left |-> task[w].left,
                                            slot |-> k, src |-> isrc[j][k]]],
               Goto(w, "dispatch")
        PROVE  TypeOK'
    <3>1. ist' \in [Job -> [Slot -> RowStatus]]
      BY <2>2, ItemTyped DEF RowStatus, Unfinished
    <3>2. lease' \in [Job -> Lease]
      BY <2>2 DEF Lease
    <3>3. pc' \in [Worker -> PC]
      BY <2>2, GotoTyped DEF PC, Processing
    <3>4. task' \in [Worker -> TaskRecord]
      <4>1. j \in Job
        BY <1>21 DEF ClaimNextItem, BusyThreadHasJob
      <4>2. isrc[j][k] \in Source \union {Null}
        BY <2>2, <4>1
      <4>3. task[w].left \in 0..Retries
        BY <1>21 DEF TaskRecord
      <4>4. [job |-> j, left |-> task[w].left, slot |-> k, src |-> isrc[j][k]]
              \in TaskRecord
        BY <4>1, <4>2, <4>3 DEF TaskRecord
      <4>5. QED
        BY <2>2, <4>4
    <3>5. QED
      BY <1>21, <2>2, <3>1, <3>2, <3>3, <3>4 DEF ClaimNextItem
  <2>3. QED
    BY <1>21, <2>1, <2>2 DEF ClaimNextItem
<1>22. ASSUME NEW w \in Worker, FinishJob(w) PROVE TypeOK'
  <2>1. pc' \in [Worker -> PC] /\ task' \in [Worker -> TaskRecord]
    BY <1>22, DropTyped DEF FinishJob
  <2>2. st' \in [Job -> RowStatus] /\ lease' \in [Job -> Lease]
    BY <1>22 DEF FinishJob, RowStatus, Terminal, Lease
  <2>3. QED
    BY <1>22, <2>1, <2>2 DEF FinishJob
<1>23. ASSUME NEW w \in Worker, Dispatch(w) PROVE TypeOK'
  BY <1>23
  DEF Dispatch, Goto, PC, Processing
<1>24. ASSUME NEW w \in Worker, LoadSource(w) PROVE TypeOK'
  BY <1>24
  DEF LoadSource, Goto, PC, Processing, ConvStatus, Convertible
<1>25. ASSUME NEW w \in Worker, VerifySource(w) PROVE TypeOK'
  <2>1. CASE SetSource(w, "FAILED", "failed") /\ UNCHANGED lease
    BY <1>25, <2>1
    DEF VerifySource, SetSource, Goto, PC, Processing, ConvStatus, Convertible
  <2>2. CASE Heartbeat(w, "stage") /\ UNCHANGED conv
    <3>1. lease' \in [Job -> Lease]
      BY <2>2 DEF Heartbeat, Lease
    <3>2. pc' \in [Worker -> PC]
      BY <2>2 DEF Heartbeat, Goto, PC, Processing
    <3>3. QED
      BY <1>25, <2>2, <3>1, <3>2 DEF VerifySource
  <2>3. QED
    BY <1>25, <2>1, <2>2 DEF VerifySource
<1>26. ASSUME NEW w \in Worker, StageSource(w) PROVE TypeOK'
  BY <1>26
  DEF StageSource, SetSource, Goto, PC, Processing, ConvStatus, Convertible
<1>27. ASSUME NEW w \in Worker, PublishSource(w) PROVE TypeOK'
  BY <1>27
  DEF PublishSource, SetSource, Goto, PC, Processing, ConvStatus, Convertible
<1>28. ASSUME NEW w \in Worker, MarkReady(w) PROVE TypeOK'
  BY <1>28
  DEF MarkReady, SetSource, Goto, PC, Processing, ConvStatus, Convertible
<1>29. ASSUME NEW w \in Worker, DoWork(w) PROVE TypeOK'
  BY <1>29
  DEF DoWork, Goto, PC, Processing
<1>30. ASSUME NEW w \in Worker, FinishItem(w) PROVE TypeOK'
  <2>1. ist' \in [Job -> [Slot -> RowStatus]]
    BY <1>30, ItemTyped DEF FinishItem, RowStatus, Terminal
  <2>2. lease' \in [Job -> Lease] /\ pc' \in [Worker -> PC]
    BY <1>30, GotoTyped DEF FinishItem, Lease, PC
  <2>3. QED
    BY <1>30, <2>1, <2>2 DEF FinishItem
<1>31. ASSUME NEW w \in Worker, SuspendJob(w) PROVE TypeOK'
  <2>1. pc' \in [Worker -> PC] /\ task' \in [Worker -> TaskRecord]
    BY <1>31, DropTyped DEF SuspendJob
  <2>2. ist' \in [Job -> [Slot -> RowStatus]]
    BY <1>31, ItemTyped DEF SuspendJob, RowStatus, Unfinished
  <2>3. conv' \in [Source -> ConvStatus]
    BY <1>31 DEF SuspendJob, ConvStatus
  <2>4. st' \in [Job -> RowStatus] /\ lease' \in [Job -> Lease]
    BY <1>31 DEF SuspendJob, RowStatus, Unfinished, Lease
  <2>5. QED
    BY <1>31, <2>1, <2>2, <2>3, <2>4 DEF SuspendJob
<1>32. ASSUME NEW w \in Worker, HandleUnexpected(w) PROVE TypeOK'
  <2>1. pc' \in [Worker -> PC]
    BY <1>32, GotoTyped DEF HandleUnexpected, PC
  <2>2. ist' \in [Job -> [Slot -> RowStatus]]
    BY <1>32, ItemTyped DEF HandleUnexpected, RowStatus, Unfinished, Terminal
  <2>3. conv' \in [Source -> ConvStatus]
    BY <1>32 DEF HandleUnexpected, ConvStatus, Convertible
  <2>4. st' \in [Job -> RowStatus] /\ lease' \in [Job -> Lease]
    BY <1>32 DEF HandleUnexpected, RowStatus, Unfinished, Terminal, Lease
  <2>5. QED
    BY <1>32, <2>1, <2>2, <2>3, <2>4 DEF HandleUnexpected
<1>33. ASSUME NEW w \in Worker, HueyRetry(w) PROVE TypeOK'
  <2>1. pc' \in [Worker -> PC] /\ task' \in [Worker -> TaskRecord]
    BY <1>33, DropTyped DEF HueyRetry
  <2>2. task[w].left > 0 => task[w].left - 1 \in 0..Retries
    BY DEF TaskRecord
  <2>3. pending' \in [Job -> [0..Retries -> Nat]]
    BY <1>33, <2>2, DeliveredTyped DEF HueyRetry
  <2>4. QED
    BY <1>33, <2>1, <2>3 DEF HueyRetry
<1>34. ASSUME NEW w \in Worker, BeatWhileWorking(w) PROVE TypeOK'
  BY <1>34
  DEF BeatWhileWorking, Heartbeat, Goto, PC, Processing, Lease
<1>35. ASSUME NEW w \in Worker, WatchdogBeat(w) PROVE TypeOK'
  BY <1>35
  DEF WatchdogBeat, Lease
<1>36. ASSUME NEW w \in Worker, ProcessorRaises(w) PROVE TypeOK'
  BY <1>36
  DEF ProcessorRaises, Goto, PC, Processing
<1>37. ASSUME NEW w \in Worker, SessionFails(w) PROVE TypeOK'
  BY <1>37
  DEF SessionFails, Goto, PC, Processing
<1>38. ASSUME WorkerStart PROVE TypeOK'
  BY <1>38
  DEF WorkerStart, BootRecord
<1>39. ASSUME ReconcileList PROVE TypeOK'
  BY <1>39
  DEF ReconcileList, BootRecord
<1>40. ASSUME WorkerUp PROVE TypeOK'
  BY <1>40
  DEF WorkerUp, BootRecord
<1>41. ASSUME NEW j \in Job, ReconcileJob(j) PROVE TypeOK'
  <2>1. boot' \in BootRecord
    BY <1>41 DEF ReconcileJob, BootRecord
  <2>2. ist' \in [Job -> [Slot -> RowStatus]] /\ conv' \in [Source -> ConvStatus]
    BY <1>41, RequeueTyped, ReleaseTyped DEF ReconcileJob
  <2>3. st' \in [Job -> RowStatus] /\ lease' \in [Job -> Lease]
    BY <1>41 DEF ReconcileJob, RowStatus, Unfinished, Lease
  <2>4. QED
    BY <1>41, <2>1, <2>2, <2>3 DEF ReconcileJob
<1>42. ASSUME NEW j \in Job, ReconcileEnqueue(j) PROVE TypeOK'
  <2>1. boot' \in BootRecord
    BY <1>42 DEF ReconcileEnqueue, BootRecord
  <2>2. pending' \in [Job -> [0..Retries -> Nat]]
    BY <1>42, DeliveredTyped DEF ReconcileEnqueue
  <2>3. QED
    BY <1>42, <2>1, <2>2 DEF ReconcileEnqueue
<1>43. ASSUME WebEnqueueFails PROVE TypeOK'
  <2>1. web' = WebAt("down", {}) \/ web' = [web EXCEPT !.pc = "undo"]
    BY <1>43 DEF WebEnqueueFails, RequestRefused, RecoveryDies
  <2>2. WebAt("down", {}) \in WebRecord
    BY WebAtTyped
  <2>3. [web EXCEPT !.pc = "undo"] \in WebRecord
    BY UndoTyped
  <2>4. web' \in WebRecord
    BY <2>1, <2>2, <2>3, Zenon
  <2>5. QED
    BY <1>43, <2>4 DEF WebEnqueueFails, RequestRefused, RecoveryDies
<1>44. ASSUME WebCrash PROVE TypeOK'
  BY <1>44, WebAtTyped DEF WebCrash
<1>45. ASSUME WorkerCrash PROVE TypeOK'
  BY <1>45
  DEF WorkerCrash, NoTask, BootRecord, PC, Processing, TaskRecord
<1>46. ASSUME NEW j \in Job, LeaseExpires(j) PROVE TypeOK'
  BY <1>46
  DEF LeaseExpires, Lease
<1>47. QED
  BY <1>0, <1>1, <1>2, <1>3, <1>4, <1>5, <1>6, <1>7, <1>8, <1>9, <1>10, <1>11,
     <1>12, <1>13, <1>14, <1>15, <1>16, <1>17, <1>18, <1>19, <1>20, <1>21,
     <1>22, <1>23, <1>24, <1>25, <1>26, <1>27, <1>28, <1>29, <1>30, <1>31,
     <1>32, <1>33, <1>34, <1>35, <1>36, <1>37, <1>38, <1>39, <1>40, <1>41,
     <1>42, <1>43, <1>44, <1>45, <1>46
  DEF Next, Request, WebProgress, Inventory, Execute, Convert, Boot, Fault

LEMMA StepBusy == TypeOK /\ BusyThreadHasJob /\ [Next]_vars => BusyThreadHasJob'
<1> SUFFICES ASSUME TypeOK, BusyThreadHasJob, [Next]_vars PROVE BusyThreadHasJob'
  OBVIOUS
<1> USE DEF TypeOK, BusyThreadHasJob
<1>1. CASE UNCHANGED <<pc, task>>
  BY <1>1
<1>2. ASSUME NEW w \in Worker, UNCHANGED task, pc[w] # "idle",
             NEW label \in PC, Goto(w, label)
      PROVE  BusyThreadHasJob'
  BY <1>2 DEF Goto
<1>3. ASSUME NEW w \in Worker, Drop(w)
      PROVE  BusyThreadHasJob'
  BY <1>3 DEF Drop, Goto
<1>4. ASSUME NEW w \in Worker, NEW j \in Job, NEW r \in 0..Retries, Deliver(w, j, r)
      PROVE  BusyThreadHasJob'
  BY <1>4 DEF Deliver, Goto
<1>5. ASSUME NEW w \in Worker, CheckControl(w)
      PROVE  BusyThreadHasJob'
  BY <1>5 DEF CheckControl, Goto
<1>6. ASSUME NEW w \in Worker, ClaimNextItem(w)
      PROVE  BusyThreadHasJob'
  <2>1. CASE UNCHANGED task
    BY <1>6, <2>1, <1>2 DEF ClaimNextItem, Goto, PC, Processing
  <2>2. CASE \E k \in Slot :
               /\ task' = [task EXCEPT ![w] = [job |-> task[w].job,
                    left |-> task[w].left, slot |-> k, src |-> isrc[task[w].job][k]]]
               /\ Goto(w, "dispatch")
    BY <1>6, <2>2 DEF ClaimNextItem, Goto
  <2>3. QED
    BY <1>6, <2>1, <2>2 DEF ClaimNextItem
<1>7. CASE WorkerCrash
  BY <1>7 DEF WorkerCrash
<1>8. ASSUME NEW w \in Worker,
             \/ Execute(w) \/ BeatWhileWorking(w) \/ WatchdogBeat(w)
             \/ ProcessorRaises(w) \/ SessionFails(w)
      PROVE  BusyThreadHasJob'
  <2>1. CASE Convert(w)
    BY <2>1, <1>1, <1>2
    DEF Convert, LoadSource, VerifySource, StageSource, PublishSource, MarkReady,
        SetSource, Heartbeat, PC, Processing
  <2>2. CASE Dispatch(w) \/ DoWork(w) \/ FinishItem(w) \/ HandleUnexpected(w)
    BY <2>2, <1>2 DEF Dispatch, DoWork, FinishItem, HandleUnexpected, PC, Processing
  <2>3. CASE ClaimJob(w) \/ FinishJob(w) \/ SuspendJob(w) \/ HueyRetry(w)
    BY <2>3, <1>2, <1>3 DEF ClaimJob, FinishJob, SuspendJob, HueyRetry, PC
  <2>4. CASE BeatWhileWorking(w) \/ WatchdogBeat(w)
    BY <2>4, <1>1, <1>2
    DEF BeatWhileWorking, WatchdogBeat, Heartbeat, workerVars, PC, Processing
  <2>5. CASE ProcessorRaises(w) \/ SessionFails(w)
    BY <2>5, <1>2 DEF ProcessorRaises, SessionFails, PC, Processing
  <2>6. QED
    BY <1>5, <1>6, <1>8, <2>1, <2>2, <2>3, <2>4, <2>5 DEF Execute
<1>9. ASSUME NEW j \in Job, Request(j)
      PROVE  UNCHANGED <<pc, task>>
  BY <1>9
  DEF Request, CreateConversionJob, CreateIndexJob, CreateTestJob, PauseJob,
      CreateSourcelessJob, ResumeJob, StopJob, RestartJob, DeleteJob, DropJobs,
      workerVars
<1>10. CASE WebProgress \/ DeleteAllJobs \/ WebEnqueueFails \/ WebCrash
  BY <1>10, <1>1
  DEF WebProgress, WebEnqueue, WebUndo, WebStart, WebUp, RecoverJob, DeleteAllJobs,
      DropJobs, WebEnqueueFails, RequestRefused, RecoveryDies, WebCrash, workerVars
<1>11. CASE Boot \/ (\E s \in Source : Inventory(s)) \/ \E j \in Job : LeaseExpires(j)
  BY <1>11, <1>1
  DEF Boot, WorkerStart, ReconcileList, WorkerUp, ReconcileJob, ReconcileEnqueue,
      Inventory, SourceChanged, SourceRemoved, SourceAdded, LeaseExpires, workerVars
<1>12. CASE UNCHANGED vars
  BY <1>12, <1>1 DEF vars, workerVars
<1>13. QED
  BY <1>1, <1>4, <1>7, <1>8, <1>9, <1>10, <1>11, <1>12 DEF Next, Fault

\* Type correctness: every column keeps a value the code can give it, and no
\* thread or process leaves its program counters.
THEOREM TypesHold == Spec => []TypeOK
<1>1. Init => TypeOK /\ BusyThreadHasJob
  BY InitTyped DEF Init, BusyThreadHasJob
<1>2. TypeOK /\ BusyThreadHasJob /\ [Next]_vars => (TypeOK /\ BusyThreadHasJob)'
  BY StepTyped, StepBusy
<1>3. QED
  BY <1>1, <1>2, PTL DEF Spec
-----------------------------------------------------------------------------
(* The conditional UPDATE of _claim_job is a lock: for any number of       *)
(* consumer threads, jobs and deliveries, at most one thread is inside a   *)
(* job, as long as no lease expires under a running thread and no request  *)
(* gives a running job away (resume, delete, the compensation of a refused *)
(* enqueue).  The run two_workers_resume shows that resume does.           *)

Undisturbed == Env \intersect {"resume", "delete", "enqfail", "expire"} = {}

\* The inductive invariant.  OneRunPerJob alone is not inductive: what keeps a
\* second thread out is the row (RunHoldsLease); what keeps the reconciliation
\* of a starting Worker harmless is that its threads do not run yet; and no
\* compensation runs that could write an old status back.
RunInv ==
  /\ OneRunPerJob
  /\ RunHoldsLease
  /\ boot.pc # "up" => \A w \in Worker : pc[w] = "idle"
  /\ web.pc # "undo"

LEMMA RunInit == Init => RunInv
  BY DEF Init, RunInv, OneRunPerJob, RunHoldsLease, InRun, NoTask, WebAt

\* A new job takes a key no row has, hence one no thread is inside.
LEMMA InsertKeepsRuns ==
  ASSUME TypeOK, RunInv, NEW j \in Job, IsNextId(j), NEW k, NEW f, NEW status,
         InsertJob(j, k, f, status), UNCHANGED workerVars, web'.pc # "undo"
  PROVE  RunInv'
<1> USE DEF RunInv, OneRunPerJob, RunHoldsLease, InRun
<1>1. st[j] = "NONE"
  BY JobQueueConstants DEF IsNextId, Exists
<1>2. \A w \in Worker : ~InRun(w, j)
  BY <1>1
<1>3. \A i \in Job \ {j} : st'[i] = st[i] /\ ctl'[i] = ctl[i] /\ lease'[i] = lease[i]
  BY DEF InsertJob, TypeOK
<1>4. QED
  BY <1>2, <1>3 DEF workerVars

\* A thread goes on inside its job, touching no more than its lease.
LEMMA MoveKeepsRuns ==
  ASSUME TypeOK, RunInv, NEW w \in Worker, NEW label \in PC, Goto(w, label),
         pc[w] \notin {"idle", "claim", "requeue"},
         lease' = lease \/ lease' = [lease EXCEPT ![task[w].job] = "fresh"],
         UNCHANGED <<st, ctl, task, boot, web>>
  PROVE  RunInv'
<1> USE DEF RunInv, OneRunPerJob, RunHoldsLease, InRun
<1>1. boot.pc = "up"
  BY DEF TypeOK
<1>2. \A v \in Worker, j \in Job : InRun(v, j)' => InRun(v, j)
  BY DEF Goto, TypeOK
<1>3. \A j \in Job : lease'[j] = lease[j] \/ lease'[j] = "fresh"
  BY DEF TypeOK
<1>4. OneRunPerJob'
  BY <1>2
<1>5. RunHoldsLease'
  BY <1>2, <1>3
<1>6. QED
  BY <1>1, <1>4, <1>5

\* A thread gives its job up, whatever it writes into the row of that job.
LEMMA LeaveKeepsRuns ==
  ASSUME TypeOK, RunInv, NEW w \in Worker, InRun(w, task[w].job),
         pc' = [pc EXCEPT ![w] = "idle"] \/ pc' = [pc EXCEPT ![w] = "requeue"],
         \A v \in Worker \ {w} : task'[v] = task[v],
         \A j \in Job \ {task[w].job} : st'[j] = st[j] /\ lease'[j] = lease[j],
         UNCHANGED <<ctl, boot, web>>
  PROVE  RunInv'
<1> USE DEF RunInv, OneRunPerJob, RunHoldsLease, InRun
<1>1. boot.pc = "up"
  BY DEF TypeOK
<1>2. \A v \in Worker, j \in Job : InRun(v, j)' => InRun(v, j) /\ v # w
  BY DEF TypeOK
<1>3. \A v \in Worker, j \in Job : InRun(v, j)' => j # task[w].job
  BY <1>2
<1>4. OneRunPerJob'
  BY <1>2
<1>5. RunHoldsLease'
  BY <1>2, <1>3
<1>6. QED
  BY <1>1, <1>4, <1>5

LEMMA RunStep ==
  ASSUME Undisturbed, TypeOK, BusyThreadHasJob, RunInv, [Next]_vars
  PROVE  RunInv'
<1> USE DEF RunInv, OneRunPerJob, RunHoldsLease, InRun, jobVars, itemVars, workerVars
<1>0. CASE UNCHANGED vars
  BY <1>0 DEF vars
<1>1. ASSUME NEW j \in Job, CreateConversionJob(j) PROVE RunInv'
  <2>1. PICK k, f, status : InsertJob(j, k, f, status)
    BY <1>1 DEF CreateConversionJob
  <2>2. UNCHANGED workerVars /\ web'.pc # "undo"
    BY <1>1 DEF CreateConversionJob, AwaitEnqueue
  <2>3. QED
    BY <1>1, <2>1, <2>2, InsertKeepsRuns DEF CreateConversionJob
<1>2. ASSUME NEW j \in Job, CreateIndexJob(j) PROVE RunInv'
  <2>1. PICK k, f : CreateSourcelessJob(j, k, f)
    BY <1>2 DEF CreateIndexJob
  <2>2. web'.pc # "undo"
    BY <2>1 DEF CreateSourcelessJob, AwaitEnqueue
  <2>3. QED
    BY <2>1, <2>2, InsertKeepsRuns DEF CreateSourcelessJob
<1>3. ASSUME NEW j \in Job, CreateTestJob(j) PROVE RunInv'
  <2>1. PICK k, f : CreateSourcelessJob(j, k, f)
    BY <1>3 DEF CreateTestJob
  <2>2. web'.pc # "undo"
    BY <2>1 DEF CreateSourcelessJob, AwaitEnqueue
  <2>3. QED
    BY <2>1, <2>2, InsertKeepsRuns DEF CreateSourcelessJob
<1>4. ASSUME NEW j \in Job, PauseJob(j) PROVE RunInv'
  BY <1>4
  DEF PauseJob, TypeOK
<1>5. ASSUME NEW j \in Job, ResumeJob(j) PROVE RunInv'
  BY <1>5
  DEF ResumeJob, Undisturbed
<1>6. ASSUME NEW j \in Job, StopJob(j) PROVE RunInv'
  BY <1>6
  DEF StopJob, TypeOK
<1>7. ASSUME NEW j \in Job, RestartJob(j) PROVE RunInv'
  BY <1>7
  DEF RestartJob, AwaitEnqueue, TypeOK
<1>8. ASSUME NEW j \in Job, DeleteJob(j) PROVE RunInv'
  BY <1>8
  DEF DeleteJob, Undisturbed
<1>9. ASSUME DeleteAllJobs PROVE RunInv'
  BY <1>9
  DEF DeleteAllJobs, Undisturbed
<1>10. ASSUME WebEnqueue PROVE RunInv'
  BY <1>10
  DEF WebEnqueue, WebAt
<1>11. ASSUME WebUndo PROVE RunInv'
  BY <1>11
  DEF WebUndo
<1>12. ASSUME WebStart PROVE RunInv'
  BY <1>12
  DEF WebStart, WebAt
<1>13. ASSUME WebUp PROVE RunInv'
  BY <1>13
  DEF WebUp, WebAt
<1>14. ASSUME NEW j \in Job, RecoverJob(j) PROVE RunInv'
  BY <1>14
  DEF RecoverJob, Recoverable, LeaseExpired, AwaitEnqueue, WebAt, TypeOK
<1>15. ASSUME WebEnqueueFails PROVE RunInv'
  BY <1>15
  DEF WebEnqueueFails, RequestRefused, RecoveryDies, Undisturbed
<1>16. ASSUME WebCrash PROVE RunInv'
  BY <1>16
  DEF WebCrash, WebAt
<1>17. ASSUME NEW s \in Source, Inventory(s) PROVE RunInv'
  BY <1>17
  DEF Inventory, SourceChanged, SourceRemoved, SourceAdded
<1>18. ASSUME NEW w \in Worker, NEW j \in Job, NEW r \in 0..Retries, Deliver(w, j, r) PROVE RunInv'
  BY <1>18
  DEF Deliver, Goto, TypeOK
<1>19. ASSUME NEW w \in Worker, ClaimJob(w) PROVE RunInv'
  BY <1>19, JobQueueConstants
  DEF ClaimJob, CanClaim, IsActive, Exists, LeaseExpired, Goto, Drop, NoTask,
      TypeOK
<1>20. ASSUME NEW w \in Worker, CheckControl(w) PROVE RunInv'
  BY <1>20
  DEF CheckControl, Goto, TypeOK
<1>21. ASSUME NEW w \in Worker, ClaimNextItem(w) PROVE RunInv'
  <2>1. CASE UNCHANGED <<lease, task>> /\ Goto(w, "recheck")
    BY <1>21, <2>1, MoveKeepsRuns DEF ClaimNextItem, PC, Processing
  <2>2. CASE /\ lease' = [lease EXCEPT ![task[w].job] = "fresh"]
             /\ task'[w].job = task[w].job
             /\ \A v \in Worker \ {w} : task'[v] = task[v]
             /\ Goto(w, "dispatch")
    <3>1. boot.pc = "up"
      BY <1>21 DEF ClaimNextItem
    <3>2. \A v \in Worker, j \in Job : InRun(v, j)' => InRun(v, j)
      BY <1>21, <2>2 DEF ClaimNextItem, Goto, TypeOK
    <3>3. \A j \in Job : lease'[j] = lease[j] \/ lease'[j] = "fresh"
      BY <2>2 DEF TypeOK
    <3>4. UNCHANGED <<st, ctl, boot, web>>
      BY <1>21 DEF ClaimNextItem
    <3>5. QED
      BY <3>1, <3>2, <3>3, <3>4
  <2>3. ASSUME NEW k, task' = [task EXCEPT ![w] = [job |-> task[w].job,
                        left |-> task[w].left, slot |-> k, src |-> isrc[task[w].job][k]]]
        PROVE  /\ task'[w].job = task[w].job
               /\ \A v \in Worker \ {w} : task'[v] = task[v]
    BY <2>3 DEF TypeOK
  <2>4. QED
    BY <1>21, <2>1, <2>2, <2>3 DEF ClaimNextItem
<1>22. ASSUME NEW w \in Worker, FinishJob(w) PROVE RunInv'
  <2>1. \A v \in Worker \ {w} : task'[v] = task[v]
    BY <1>22 DEF FinishJob, Drop, TypeOK
  <2>2. pc' = [pc EXCEPT ![w] = "idle"]
    BY <1>22 DEF FinishJob, Drop, Goto
  <2>3. \A j \in Job \ {task[w].job} : st'[j] = st[j] /\ lease'[j] = lease[j]
    BY <1>22 DEF FinishJob, TypeOK
  <2>4. QED
    BY <1>22, <2>1, <2>2, <2>3, LeaveKeepsRuns DEF FinishJob
<1>23. ASSUME NEW w \in Worker, Dispatch(w) PROVE RunInv'
  BY <1>23, MoveKeepsRuns DEF Dispatch, PC, Processing
<1>24. ASSUME NEW w \in Worker, Convert(w) PROVE RunInv'
  <2>1. UNCHANGED <<st, ctl, task, boot, web>>
    BY <1>24 DEF Convert, LoadSource, VerifySource, StageSource, PublishSource, MarkReady
  <2>2. lease' = lease \/ lease' = [lease EXCEPT ![task[w].job] = "fresh"]
    BY <1>24
    DEF Convert, LoadSource, VerifySource, StageSource, PublishSource, MarkReady, Heartbeat
  <2>3. pc[w] \in Processing
    BY <1>24
    DEF Convert, LoadSource, VerifySource, StageSource, PublishSource, MarkReady, Processing
  <2>4. \E label \in PC : Goto(w, label)
    BY <1>24
    DEF Convert, LoadSource, VerifySource, StageSource, PublishSource, MarkReady,
        SetSource, Heartbeat, PC, Processing
  <2>5. QED
    BY <2>1, <2>2, <2>3, <2>4, MoveKeepsRuns DEF Processing
<1>25. ASSUME NEW w \in Worker, DoWork(w) PROVE RunInv'
  BY <1>25, MoveKeepsRuns DEF DoWork, PC, Processing
<1>26. ASSUME NEW w \in Worker, FinishItem(w) PROVE RunInv'
  BY <1>26
  DEF FinishItem, Goto, TypeOK
<1>27. ASSUME NEW w \in Worker, SuspendJob(w) PROVE RunInv'
  <2>1. \A v \in Worker \ {w} : task'[v] = task[v]
    BY <1>27 DEF SuspendJob, Drop, TypeOK
  <2>2. pc' = [pc EXCEPT ![w] = "idle"]
    BY <1>27 DEF SuspendJob, Drop, Goto
  <2>3. \A j \in Job \ {task[w].job} : st'[j] = st[j] /\ lease'[j] = lease[j]
    BY <1>27 DEF SuspendJob, TypeOK
  <2>4. QED
    BY <1>27, <2>1, <2>2, <2>3, LeaveKeepsRuns DEF SuspendJob
<1>28. ASSUME NEW w \in Worker, HandleUnexpected(w) PROVE RunInv'
  <2>1. UNCHANGED task /\ pc' = [pc EXCEPT ![w] = "requeue"]
    BY <1>28 DEF HandleUnexpected, Goto
  <2>2. \A j \in Job \ {task[w].job} : st'[j] = st[j] /\ lease'[j] = lease[j]
    BY <1>28 DEF HandleUnexpected, TypeOK
  <2>3. QED
    BY <1>28, <2>1, <2>2, LeaveKeepsRuns DEF HandleUnexpected
<1>29. ASSUME NEW w \in Worker, HueyRetry(w) PROVE RunInv'
  BY <1>29, JobQueueConstants
  DEF HueyRetry, Goto, Drop, NoTask, TypeOK
<1>30. ASSUME NEW w \in Worker, BeatWhileWorking(w) PROVE RunInv'
  <2>1. CASE IsActive(task[w].job)
    BY <1>30, <2>1, MoveKeepsRuns DEF BeatWhileWorking, Heartbeat, PC, Processing
  <2>2. CASE ~IsActive(task[w].job)
    BY <1>30, <2>2, MoveKeepsRuns DEF BeatWhileWorking, Heartbeat, PC
  <2>3. QED
    BY <2>1, <2>2
<1>31. ASSUME NEW w \in Worker, WatchdogBeat(w) PROVE RunInv'
  BY <1>31
  DEF WatchdogBeat, TypeOK
<1>32. ASSUME NEW w \in Worker, ProcessorRaises(w) PROVE RunInv'
  BY <1>32, MoveKeepsRuns DEF ProcessorRaises, PC, Processing
<1>33. ASSUME NEW w \in Worker, SessionFails(w) PROVE RunInv'
  BY <1>33
  DEF SessionFails, Goto, TypeOK
<1>34. ASSUME Boot PROVE RunInv'
  BY <1>34
  DEF Boot, WorkerStart, ReconcileList, WorkerUp, ReconcileJob,
      ReconcileEnqueue, TypeOK, BootRecord
<1>35. ASSUME WorkerCrash PROVE RunInv'
  BY <1>35
  DEF WorkerCrash, NoTask
<1>36. ASSUME NEW j \in Job, LeaseExpires(j) PROVE RunInv'
  BY <1>36
  DEF LeaseExpires, Undisturbed
<1>37. QED
  BY <1>0, <1>1, <1>2, <1>3, <1>4, <1>5, <1>6, <1>7, <1>8, <1>9, <1>10, <1>11,
     <1>12, <1>13, <1>14, <1>15, <1>16, <1>17, <1>18, <1>19, <1>20, <1>21,
     <1>22, <1>23, <1>24, <1>25, <1>26, <1>27, <1>28, <1>29, <1>30, <1>31,
     <1>32, <1>33, <1>34, <1>35, <1>36
  DEF Next, Request, WebProgress, Execute, Fault

\* At most one thread is inside a job.
THEOREM OneRunPerJobHolds ==
  ASSUME Undisturbed
  PROVE  Spec => []OneRunPerJob
<1>1. Init => TypeOK /\ BusyThreadHasJob /\ RunInv
  BY InitTyped, RunInit DEF Init, BusyThreadHasJob
<1>2. TypeOK /\ BusyThreadHasJob /\ RunInv /\ [Next]_vars
        => (TypeOK /\ BusyThreadHasJob /\ RunInv)'
  BY StepTyped, StepBusy, RunStep
<1>3. RunInv => OneRunPerJob
  BY DEF RunInv
<1>4. QED
  BY <1>1, <1>2, <1>3, PTL DEF Spec

\* The row of a job in hand says RUNNING, with a fresh lease while it is ACTIVE.
THEOREM RunHoldsLeaseHolds ==
  ASSUME Undisturbed
  PROVE  Spec => []RunHoldsLease
<1>1. Init => TypeOK /\ BusyThreadHasJob /\ RunInv
  BY InitTyped, RunInit DEF Init, BusyThreadHasJob
<1>2. TypeOK /\ BusyThreadHasJob /\ RunInv /\ [Next]_vars
        => (TypeOK /\ BusyThreadHasJob /\ RunInv)'
  BY StepTyped, StepBusy, RunStep
<1>3. RunInv => RunHoldsLease
  BY DEF RunInv
<1>4. QED
  BY <1>1, <1>2, <1>3, PTL DEF Spec

-----------------------------------------------------------------------------
(* The items                                                               *)

\* The deployment runs one consumer thread (consumer.py -w 1).
Alone == \A v, w \in Worker : v = w

\* What keeps a second thread out of a job: there is none, or the claim is a lock.  And
\* nothing takes the items from under the run: a deleted job does, and so does the
\* compensation of a refused hand-over, which writes a status into the row whatever
\* became of it.
Guarded == (Alone \/ Undisturbed) /\ Env \intersect {"delete", "enqfail"} = {}

\* A thread that works on an item, or reports what became of it.
Holding == Processing \union {"done", "failed", "unexpected", "suspend"}
HasItem(w) == pc[w] \in Holding /\ (pc[w] = "suspend" => task[w].slot # Null)

RunningIsHeld ==
  \A j \in Job : \A k \in Slot : ist[j][k] = "RUNNING" =>
    /\ st[j] = "RUNNING"
    /\ \A i \in Slot : ist[j][i] = "RUNNING" => i = k
    /\ \A w \in Worker : InRun(w, j) => task[w].slot = k /\ pc[w] \in Holding
RunIsOpen == \A j \in Job : \A w \in Worker : InRun(w, j) => st[j] \in Unfinished
HeldIsOpen ==
  \A w \in Worker : HasItem(w) =>
    task[w].slot \in Slot /\ ist[task[w].job][task[w].slot] \in Unfinished
NoRowNoItems == \A j \in Job : st[j] = "NONE" => \A k \in Slot : ist[j][k] = "NONE"

\* The inductive invariant: RunningItemHasRunningJob needs to know that the item in
\* progress is the one its thread holds, so that whoever ends the run of the job also
\* settles or requeues it.
ItemInv == RunningIsHeld /\ RunIsOpen /\ HeldIsOpen /\ NoRowNoItems

LEMMA ItemInit == Init => ItemInv
  BY DEF Init, ItemInv, RunningIsHeld, RunIsOpen, HeldIsOpen, NoRowNoItems, InRun, HasItem,
         Holding, Processing

-----------------------------------------------------------------------------
(* The kinds of steps, by what they do to jobs, items and threads.         *)

Quiet == UNCHANGED <<st, ist, pc, task>>
Moves(w) ==
  /\ pc[w] \in Processing /\ \E label \in Holding : Goto(w, label)
  /\ UNCHANGED <<st, ist, task>>
Inserts(j) ==
  /\ IsNextId(j) /\ UNCHANGED <<pc, task>>
  /\ \E k, f, status :
       /\ InsertJob(j, k, f, status)
       /\ \/ status = "QUEUED" /\ \E i \in Slot : f[i]
          \/ status = "COMPLETED" /\ \A i \in Slot : ~f[i]
Requeues(j) ==
  /\ st[j] = "RUNNING" /\ st' = [st EXCEPT ![j] = "QUEUED"]
  /\ RequeueItems(j) /\ UNCHANGED <<pc, task>>
Reopens(j) == RestartJob(j)
Threads(w) ==
  \/ \E j \in Job, r \in 0..Retries : Deliver(w, j, r)
  \/ ClaimJob(w) \/ CheckControl(w) \/ ClaimNextItem(w) \/ FinishJob(w) \/ FinishItem(w)
  \/ SuspendJob(w) \/ HandleUnexpected(w) \/ HueyRetry(w) \/ SessionFails(w)

LEMMA StepKinds ==
  ASSUME TypeOK, web.pc # "undo", "delete" \notin Env, [Next]_vars
  PROVE  \/ Quiet \/ WorkerCrash
         \/ \E w \in Worker : Moves(w) \/ Threads(w)
         \/ \E j \in Job : Inserts(j) \/ Requeues(j) \/ Reopens(j)
<1> USE DEF jobVars, itemVars, workerVars
<1>1. ASSUME NEW j \in Job, Request(j)
      PROVE  Quiet \/ Inserts(j) \/ Reopens(j)
  <2>1. CASE CreateConversionJob(j)
    <3>1. PICK order \in Orders :
            LET S == {order[i] : i \in Slot} \ {Null} IN
            InsertJob(j, "conversion", [i \in Slot |-> order[i] # Null],
                      IF S = {} THEN "COMPLETED" ELSE "QUEUED")
      BY <2>1 DEF CreateConversionJob
    <3> DEFINE f == [i \in Slot |-> order[i] # Null]
               status == IF {order[i] : i \in Slot} \ {Null} = {} THEN "COMPLETED" ELSE "QUEUED"
    <3>2. IF status = "COMPLETED" THEN \A i \in Slot : ~f[i] ELSE \E i \in Slot : f[i]
      OBVIOUS
    <3>3. InsertJob(j, "conversion", f, status) /\ status \in {"COMPLETED", "QUEUED"}
      BY <3>1
    <3> HIDE DEF f, status
    <3>4. QED
      BY <2>1, <3>2, <3>3 DEF CreateConversionJob, Inserts
  <2>2. CASE CreateIndexJob(j)
    <3>1. PICK first \in Slot : CreateSourcelessJob(j, "index", [k \in Slot |-> k = first])
      BY <2>2 DEF CreateIndexJob
    <3> DEFINE f == [k \in Slot |-> k = first]
    <3>2. f[first]
      OBVIOUS
    <3>3. CreateSourcelessJob(j, "index", f)
      BY <3>1
    <3> HIDE DEF f
    <3>4. QED
      BY <3>2, <3>3 DEF CreateSourcelessJob, Inserts
  <2>3. CASE CreateTestJob(j)
    <3> DEFINE f == [k \in Slot |-> TRUE]
    <3>1. \E k \in Slot : f[k]
      BY SlotAssumption
    <3>2. CreateSourcelessJob(j, "test", f)
      BY <2>3 DEF CreateTestJob
    <3> HIDE DEF f
    <3>3. QED
      BY <3>1, <3>2 DEF CreateSourcelessJob, Inserts
  <2>4. CASE PauseJob(j) \/ ResumeJob(j) \/ StopJob(j)
    BY <2>4 DEF PauseJob, ResumeJob, StopJob, Quiet
  <2>5. QED
    BY <1>1, <2>1, <2>2, <2>3, <2>4 DEF Request, Reopens, DeleteJob
<1>2. CASE WebProgress
  <2>1. CASE WebEnqueue \/ WebStart \/ WebUp
    BY <2>1 DEF WebEnqueue, WebStart, WebUp, Quiet
  <2>2. ASSUME NEW j \in Job, RecoverJob(j)
        PROVE  Quiet \/ Requeues(j)
    BY <2>2 DEF RecoverJob, Recoverable, Quiet, Requeues
  <2>3. QED
    BY <1>2, <2>1, <2>2 DEF WebProgress, WebUndo
<1>3. CASE Boot
  <2>1. CASE WorkerStart \/ ReconcileList \/ WorkerUp
    BY <2>1 DEF WorkerStart, ReconcileList, WorkerUp, Quiet
  <2>2. ASSUME NEW j \in Job, ReconcileJob(j) \/ ReconcileEnqueue(j)
        PROVE  Quiet \/ Requeues(j)
    BY <2>2 DEF ReconcileJob, ReconcileEnqueue, Quiet, Requeues
  <2>3. QED
    BY <1>3, <2>1, <2>2 DEF Boot
<1>4. CASE Fault
  <2>1. CASE WebEnqueueFails \/ WebCrash \/ \E j \in Job : LeaseExpires(j)
    BY <2>1 DEF WebEnqueueFails, RequestRefused, RecoveryDies, WebCrash, LeaseExpires, Quiet
  <2>2. ASSUME NEW w \in Worker, ProcessorRaises(w)
        PROVE  Moves(w)
    BY <2>2 DEF ProcessorRaises, Moves, Holding
  <2>3. QED
    BY <1>4, <2>1, <2>2 DEF Fault, Threads
<1>5. ASSUME NEW w \in Worker, Execute(w) \/ BeatWhileWorking(w) \/ WatchdogBeat(w)
      PROVE  Quiet \/ Moves(w) \/ Threads(w)
  <2>1. CASE Convert(w)
    <3>1. pc[w] \in Processing /\ UNCHANGED <<st, ist, task>>
      BY <2>1
      DEF Convert, LoadSource, VerifySource, StageSource, PublishSource, MarkReady,
          Processing
    <3>2. \E label \in Holding : Goto(w, label)
      BY <2>1
      DEF Convert, LoadSource, VerifySource, StageSource, PublishSource, MarkReady,
          SetSource, Heartbeat, Processing, Holding
    <3>3. QED
      BY <3>1, <3>2 DEF Moves
  <2>2. CASE Dispatch(w) \/ DoWork(w)
    BY <2>2 DEF Dispatch, DoWork, Moves, Holding, Processing
  <2>3. CASE BeatWhileWorking(w)
    BY <2>3 DEF BeatWhileWorking, Heartbeat, Moves, Holding, Processing
  <2>4. CASE WatchdogBeat(w)
    BY <2>4 DEF WatchdogBeat, Quiet
  <2>5. QED
    BY <1>5, <2>1, <2>2, <2>3, <2>4 DEF Execute, Threads
<1>6. CASE UNCHANGED vars
  BY <1>6 DEF vars, Quiet
<1>7. ASSUME NEW s \in Source, Inventory(s)
      PROVE  Quiet
  BY <1>7 DEF Inventory, SourceChanged, SourceRemoved, SourceAdded, Quiet
<1>8. ~DeleteAllJobs
  BY DEF DeleteAllJobs
<1>9. QED
  BY <1>1, <1>2, <1>3, <1>4, <1>5, <1>6, <1>7, <1>8 DEF Next, Threads

-----------------------------------------------------------------------------
LEMMA HolderIsInRun ==
  ASSUME BusyThreadHasJob, NEW w \in Worker, pc[w] \in Holding
  PROVE  task[w].job \in Job /\ InRun(w, task[w].job)
  BY DEF BusyThreadHasJob, Holding, Processing, InRun

\* Rows, items and threads stay as they are.
LEMMA QuietKeepsItems ==
  ASSUME ItemInv, Quiet
  PROVE  ItemInv'
  BY DEF Quiet, ItemInv, RunningIsHeld, RunIsOpen, HeldIsOpen, NoRowNoItems, InRun, HasItem

LEMMA MoveKeepsItems ==
  ASSUME TypeOK, ItemInv, NEW w \in Worker, Moves(w)
  PROVE  ItemInv'
<1>1. PICK label \in Holding : Goto(w, label)
  BY DEF Moves
<1>2. /\ pc[w] \in Processing /\ UNCHANGED <<st, ist, task>>
      /\ \A v \in Worker : pc'[v] = IF v = w THEN label ELSE pc[v]
  BY <1>1 DEF Moves, Goto, TypeOK
<1>3. \A v \in Worker, j \in Job : InRun(v, j)' => InRun(v, j)
  BY <1>2 DEF InRun, Processing
<1>4. HasItem(w) /\ task[w].slot \in Slot
  BY <1>2 DEF ItemInv, HeldIsOpen, HasItem, Holding, Processing
<1>5. RunningIsHeld' /\ RunIsOpen' /\ NoRowNoItems'
  BY <1>1, <1>2, <1>3 DEF ItemInv, RunningIsHeld, RunIsOpen, NoRowNoItems
<1>6. HeldIsOpen'
  BY <1>2, <1>4 DEF ItemInv, HeldIsOpen, HasItem
<1>7. QED
  BY <1>5, <1>6 DEF ItemInv

LEMMA InsertKeepsItems ==
  ASSUME TypeOK, BusyThreadHasJob, ItemInv, NEW j \in Job, Inserts(j)
  PROVE  ItemInv'
<1>1. PICK k, f, status :
        /\ InsertJob(j, k, f, status)
        /\ \/ status = "QUEUED" /\ \E i \in Slot : f[i]
           \/ status = "COMPLETED" /\ \A i \in Slot : ~f[i]
  BY DEF Inserts
<1>2. st[j] = "NONE"
  BY JobQueueConstants DEF Inserts, IsNextId, Exists
<1>3. \A w \in Worker : ~InRun(w, j)
  BY <1>2 DEF ItemInv, RunIsOpen, Unfinished
<1>4. \A i \in Job : st'[i] = (IF i = j THEN status ELSE st[i]) /\ (i # j => ist'[i] = ist[i])
  BY <1>1 DEF InsertJob, TypeOK
<1>5. \A i \in Slot : ist'[j][i] \in {"QUEUED", "NONE"}
  BY <1>1 DEF InsertJob, TypeOK
<1>6. UNCHANGED <<pc, task>>
  BY DEF Inserts
<1>7. \A w \in Worker : HasItem(w) => task[w].job # j /\ task[w].job \in Job
  BY <1>3, HolderIsInRun DEF HasItem
<1>8. RunningIsHeld'
  BY <1>4, <1>5, <1>6 DEF ItemInv, RunningIsHeld, InRun
<1>9. RunIsOpen'
  BY <1>3, <1>4, <1>6 DEF ItemInv, RunIsOpen, InRun
<1>10. HeldIsOpen'
  BY <1>4, <1>6, <1>7 DEF ItemInv, HeldIsOpen, HasItem
<1>11. NoRowNoItems'
  BY <1>1, <1>4 DEF ItemInv, NoRowNoItems
<1>12. QED
  BY <1>8, <1>9, <1>10, <1>11 DEF ItemInv

\* The job goes back to QUEUED and with it every item in progress.
LEMMA RequeueFacts ==
  ASSUME TypeOK, NEW j \in Job, RequeueItems(j)
  PROVE  \A i \in Job, k \in Slot :
           ist'[i][k] = IF i = j /\ ist[i][k] = "RUNNING" THEN "QUEUED" ELSE ist[i][k]
  BY DEF RequeueItems, TypeOK

LEMMA RequeueKeepsItems ==
  ASSUME TypeOK, BusyThreadHasJob, ItemInv, NEW j \in Job, Requeues(j)
  PROVE  ItemInv'
<1>1. \A i \in Job, k \in Slot :
        ist'[i][k] = IF i = j /\ ist[i][k] = "RUNNING" THEN "QUEUED" ELSE ist[i][k]
  BY RequeueFacts DEF Requeues
<1>2. /\ \A i \in Job : st'[i] = IF i = j THEN "QUEUED" ELSE st[i]
      /\ UNCHANGED <<pc, task>> /\ st[j] = "RUNNING"
  BY DEF Requeues, TypeOK
<1>3. \A w \in Worker : HasItem(w) => task[w].job \in Job
  BY HolderIsInRun DEF HasItem
<1>4. RunningIsHeld' /\ RunIsOpen' /\ NoRowNoItems'
  BY <1>1, <1>2 DEF ItemInv, RunningIsHeld, RunIsOpen, NoRowNoItems, InRun, Unfinished
<1>5. HeldIsOpen'
  BY <1>1, <1>2, <1>3 DEF ItemInv, HeldIsOpen, HasItem, Unfinished
<1>6. QED
  BY <1>4, <1>5 DEF ItemInv

LEMMA ReopenKeepsItems ==
  ASSUME TypeOK, ItemInv, NEW j \in Job, Reopens(j)
  PROVE  ItemInv'
<1>1. /\ \A i \in Job : st'[i] = IF i = j THEN "QUEUED" ELSE st[i]
      /\ UNCHANGED <<ist, pc, task>> /\ st[j] \notin {"RUNNING", "NONE"}
  BY DEF Reopens, RestartJob, Exists, itemVars, workerVars, TypeOK
<1>2. QED
  BY <1>1
  DEF ItemInv, RunningIsHeld, RunIsOpen, HeldIsOpen, NoRowNoItems, InRun, HasItem, Unfinished

\* Threads that let go of what they hold, or have no item yet.
LEMMA LeaveKeepsItems ==
  ASSUME TypeOK, BusyThreadHasJob, ItemInv, UNCHANGED <<st, ist>>,
         \A w \in Worker :
           \/ pc'[w] = pc[w] /\ task'[w] = task[w]
           \/ pc'[w] \in {"idle", "claim", "requeue"}
  PROVE  ItemInv'
<1>1. \A w \in Worker, j \in Job : InRun(w, j)' =>
        InRun(w, j) /\ pc'[w] = pc[w] /\ task'[w] = task[w]
  BY DEF InRun
<1>2. \A w \in Worker : HasItem(w)' => HasItem(w) /\ task'[w] = task[w]
  BY DEF HasItem, Holding, Processing
<1>3. RunningIsHeld' /\ RunIsOpen' /\ NoRowNoItems'
  BY <1>1 DEF ItemInv, RunningIsHeld, RunIsOpen, NoRowNoItems
<1>4. HeldIsOpen'
  BY <1>2 DEF ItemInv, HeldIsOpen
<1>5. QED
  BY <1>3, <1>4 DEF ItemInv

\* A thread steps on inside its job, or gives it up, after writing the row and the item
\* it holds, and no item of the job is in progress any more.
LEMMA SettleKeepsItems ==
  ASSUME TypeOK, BusyThreadHasJob, ItemInv, NEW w \in Worker, task[w].job \in Job,
         \A v \in Worker \ {w} : ~InRun(v, task[w].job),
         \A v \in Worker \ {w} : pc'[v] = pc[v] /\ task'[v] = task[v],
         ~HasItem(w)',
         pc'[w] \notin {"idle", "claim", "requeue"} =>
           task'[w].job = task[w].job /\ st'[task[w].job] \in Unfinished,
         \A i \in Job \ {task[w].job} : st'[i] = st[i] /\ ist'[i] = ist[i],
         st'[task[w].job] # "NONE",
         \A k \in Slot : ist'[task[w].job][k] # "RUNNING"
  PROVE  ItemInv'
<1> DEFINE j == task[w].job
<1>1. \A v \in Worker \ {w} : ~InRun(v, j)
  OBVIOUS
<1>2. \A v \in Worker \ {w}, i \in Job : InRun(v, i)' => InRun(v, i) /\ i # j
  BY <1>1 DEF InRun
<1>3. \A i \in Job : InRun(w, i)' => i = j /\ st'[i] \in Unfinished
  BY DEF InRun
<1>4. RunningIsHeld'
  BY <1>2, <1>3 DEF ItemInv, RunningIsHeld
<1>5. RunIsOpen'
  BY <1>2, <1>3 DEF ItemInv, RunIsOpen
<1>6. \A v \in Worker : HasItem(v)' =>
        v # w /\ HasItem(v) /\ task'[v] = task[v] /\ task[v].job \in Job \ {j}
  BY <1>1, HolderIsInRun DEF HasItem
<1>7. HeldIsOpen'
  BY <1>6 DEF ItemInv, HeldIsOpen
<1>8. NoRowNoItems'
  BY DEF ItemInv, NoRowNoItems
<1>9. QED
  BY <1>4, <1>5, <1>7, <1>8 DEF ItemInv

\* The facts about the job in hand that the thread steps below start from.
LEMMA InHand ==
  ASSUME TypeOK, BusyThreadHasJob, OneRunPerJob, ItemInv, NEW w \in Worker,
         pc[w] \notin {"idle", "claim", "requeue"}
  PROVE  LET j == task[w].job IN
         /\ j \in Job /\ st[j] \in Unfinished
         /\ \A v \in Worker \ {w} : ~InRun(v, j)
         /\ \A k \in Slot : ist[j][k] = "RUNNING" => k = task[w].slot /\ pc[w] \in Holding
<1>1. task[w].job \in Job /\ InRun(w, task[w].job)
  BY DEF BusyThreadHasJob, InRun
<1>2. QED
  BY <1>1 DEF OneRunPerJob, ItemInv, RunIsOpen, RunningIsHeld

LEMMA ClaimNextKeepsItems ==
  ASSUME TypeOK, BusyThreadHasJob, OneRunPerJob, ItemInv, NEW w \in Worker, ClaimNextItem(w)
  PROVE  ItemInv'
<1> DEFINE j == task[w].job
<1>1. /\ pc[w] = "next" /\ j \in Job /\ st[j] \in Unfinished
      /\ \A v \in Worker \ {w} : ~InRun(v, j)
      /\ \A k \in Slot : ist[j][k] # "RUNNING"
      /\ st' = st
  BY InHand DEF ClaimNextItem, Holding, Processing
<1>2. CASE UNCHANGED <<ist, task>> /\ Goto(w, "recheck")
  <2>1. pc'[w] = "recheck" /\ \A v \in Worker \ {w} : pc'[v] = pc[v]
    BY <1>2 DEF Goto, TypeOK
  <2>2. ~HasItem(w)'
    BY <2>1 DEF HasItem, Holding, Processing
  <2>3. QED
    BY <1>1, <1>2, <2>1, <2>2, SettleKeepsItems DEF Unfinished
<1>3. ASSUME NEW k \in Slot, ist[j][k] = "QUEUED", st[j] = "RUNNING",
             ist' = [ist EXCEPT ![j][k] = "RUNNING"],
             task' = [task EXCEPT ![w] = [job |-> j, left |-> task[w].left,
                                          slot |-> k, src |-> isrc[j][k]]],
             Goto(w, "dispatch")
      PROVE  ItemInv'
  <2>1. \A i \in Job, h \in Slot :
          ist'[i][h] = IF i = j /\ h = k THEN "RUNNING" ELSE ist[i][h]
    BY <1>1, <1>3 DEF TypeOK
  <2>2. /\ \A v \in Worker \ {w} : pc'[v] = pc[v] /\ task'[v] = task[v]
        /\ pc'[w] = "dispatch" /\ task'[w].job = j /\ task'[w].slot = k
    BY <1>3 DEF Goto, TypeOK
  <2>3. \A v \in Worker, i \in Job : InRun(v, i)' <=> InRun(v, i)
    BY <1>1, <2>2 DEF InRun
  <2>4. \A v \in Worker : HasItem(v) => task[v].job \in Job
    BY HolderIsInRun DEF HasItem
  <2>5. RunningIsHeld'
    <3>1. \A i \in Job, h \in Slot : ist'[i][h] = "RUNNING" =>
            \/ i = j /\ h = k
            \/ i # j /\ ist[i][h] = "RUNNING"
      BY <1>1, <2>1
    <3>2. \A v \in Worker : InRun(v, j)' => v = w
      BY <1>1, <2>2 DEF InRun
    <3>3. "dispatch" \in Holding
      BY DEF Holding, Processing
    <3>4. \A v \in Worker, i \in Job : i # j /\ InRun(v, i)' => v # w /\ InRun(v, i)
      BY <2>2, <2>3 DEF InRun
    <3>5. QED
      BY <1>1, <1>3, <2>1, <2>2, <3>1, <3>2, <3>3, <3>4 DEF ItemInv, RunningIsHeld
  <2>6. RunIsOpen'
    BY <1>1, <2>3 DEF ItemInv, RunIsOpen
  <2>7. HeldIsOpen'
    <3>1. \A v \in Worker \ {w} : HasItem(v)' => HasItem(v) /\ task'[v] = task[v]
      BY <2>2 DEF HasItem
    <3>2. QED
      BY <1>1, <2>1, <2>2, <2>4, <3>1 DEF ItemInv, HeldIsOpen, Unfinished
  <2>8. NoRowNoItems'
    BY <1>1, <1>3, <2>1 DEF ItemInv, NoRowNoItems
  <2>9. QED
    BY <2>5, <2>6, <2>7, <2>8 DEF ItemInv
<1>4. QED
  BY <1>1, <1>2, <1>3 DEF ClaimNextItem

LEMMA ThreadKeepsItems ==
  ASSUME TypeOK, BusyThreadHasJob, OneRunPerJob, OneRunPerJob', ItemInv,
         NEW w \in Worker, Threads(w)
  PROVE  ItemInv'
<1> DEFINE j == task[w].job
<1>1. ASSUME NEW label, Goto(w, label)
      PROVE  pc'[w] = label /\ \A v \in Worker \ {w} : pc'[v] = pc[v]
  BY <1>1 DEF Goto, TypeOK
<1>2. ASSUME Drop(w)
      PROVE  pc'[w] = "idle" /\ \A v \in Worker \ {w} : pc'[v] = pc[v] /\ task'[v] = task[v]
  BY <1>1, <1>2 DEF Drop, TypeOK
<1>3. \A label \in {"idle", "check", "requeue", "next", "finish"} :
        pc'[w] = label => ~HasItem(w)'
  BY DEF HasItem, Holding, Processing
<1>4. ASSUME NEW i \in Job, NEW r \in 0..Retries, Deliver(w, i, r)
      PROVE  ItemInv'
  <2>1. UNCHANGED <<st, ist>> /\ pc'[w] = "claim"
        /\ \A v \in Worker \ {w} : pc'[v] = pc[v] /\ task'[v] = task[v]
    BY <1>1, <1>4 DEF Deliver, jobVars, itemVars, TypeOK
  <2>2. QED
    BY <2>1, LeaveKeepsItems
<1>5. CASE ClaimJob(w)
  <2>1. j \in Job /\ pc[w] = "claim"
    BY <1>5 DEF ClaimJob, BusyThreadHasJob
  <2>2. CASE CanClaim(j)
    <3>1. /\ st' = [st EXCEPT ![j] = "RUNNING"] /\ RequeueItems(j)
          /\ Goto(w, "check") /\ task' = task
      BY <1>5, <2>2 DEF ClaimJob
    <3>2. \A v \in Worker \ {w} : ~InRun(v, j)
      <4>1. InRun(w, j)'
        BY <1>1, <2>1, <3>1 DEF InRun
      <4>2. \A v \in Worker \ {w} : InRun(v, j) => InRun(v, j)'
        BY <1>1, <3>1 DEF InRun
      <4>3. QED
        BY <2>1, <3>1, <4>1, <4>2 DEF OneRunPerJob, InRun
    <3>3. /\ st'[j] = "RUNNING"
          /\ \A i \in Job \ {j} : st'[i] = st[i]
      BY <2>1, <3>1 DEF TypeOK
    <3>4. /\ \A i \in Job \ {j} : ist'[i] = ist[i]
          /\ \A k \in Slot : ist'[j][k] # "RUNNING"
      BY <2>1, <3>1 DEF RequeueItems, TypeOK
    <3>5. QED
      BY <1>1, <1>3, <2>1, <3>1, <3>2, <3>3, <3>4, SettleKeepsItems DEF Unfinished
  <2>3. CASE ~CanClaim(j)
    BY <1>2, <1>5, <2>3, LeaveKeepsItems DEF ClaimJob
  <2>4. QED
    BY <2>2, <2>3
<1>6. CASE CheckControl(w)
  <2>1. /\ UNCHANGED <<st, ist>> /\ pc[w] \in {"check", "recheck"}
        /\ \A v \in Worker \ {w} : pc'[v] = pc[v] /\ task'[v] = task[v]
        /\ task'[w].job = j /\ task'[w].slot = Null
        /\ pc'[w] \in {"suspend", "next", "finish"}
    BY <1>1, <1>6 DEF CheckControl, jobVars, itemVars, TypeOK
  <2>2. \A k \in Slot : ist[j][k] # "RUNNING"
    BY <2>1, InHand DEF Holding, Processing
  <2>3. ~HasItem(w)'
    BY <2>1 DEF HasItem, Holding, Processing
  <2>4. QED
    BY <2>1, <2>2, <2>3, InHand, SettleKeepsItems DEF Unfinished
<1>7. CASE FinishJob(w)
  <2>1. pc[w] = "finish" /\ Drop(w) /\ ist' = ist
    BY <1>7 DEF FinishJob, itemVars
  <2>2. j \in Job /\ \A k \in Slot : ist[j][k] # "RUNNING"
    BY <2>1, InHand DEF Holding, Processing
  <2>3. /\ \A i \in Job \ {j} : st'[i] = st[i]
        /\ st'[j] \in {st[j], "FAILED", "COMPLETED"}
    BY <1>7, <2>2 DEF FinishJob, TypeOK
  <2>4. QED
    BY <1>2, <1>3, <2>1, <2>2, <2>3, InHand, SettleKeepsItems DEF Unfinished
<1>8. CASE FinishItem(w)
  <2>1. /\ pc[w] \in {"done", "failed"} /\ Goto(w, "check") /\ UNCHANGED <<st, task>>
        /\ \/ ist[j][task[w].slot] # "RUNNING" /\ ist' = ist
           \/ \E status \in {"COMPLETED", "FAILED"} :
                ist' = [ist EXCEPT ![j][task[w].slot] = status]
    BY <1>8 DEF FinishItem
  <2>2. j \in Job /\ \A k \in Slot : ist[j][k] = "RUNNING" => k = task[w].slot
    BY <2>1, InHand
  <2>3. task[w].slot \in Slot
    BY <2>1 DEF ItemInv, HeldIsOpen, HasItem, Holding
  <2>4. /\ \A i \in Job \ {j} : ist'[i] = ist[i]
        /\ \A k \in Slot : ist'[j][k] # "RUNNING"
    <3>1. ASSUME NEW status \in {"COMPLETED", "FAILED"},
                 ist' = [ist EXCEPT ![j][task[w].slot] = status]
          PROVE  /\ \A i \in Job \ {j} : ist'[i] = ist[i]
                 /\ \A k \in Slot : ist'[j][k] = IF k = task[w].slot THEN status
                                                 ELSE ist[j][k]
      BY <2>2, <2>3, <3>1 DEF TypeOK
    <3>2. QED
      BY <2>1, <2>2, <3>1
  <2>5. QED
    BY <1>1, <1>3, <2>1, <2>2, <2>4, InHand, SettleKeepsItems DEF Unfinished
<1>9. CASE SuspendJob(w)
  <2>1. pc[w] = "suspend" /\ Drop(w)
    BY <1>9 DEF SuspendJob
  <2>2. /\ j \in Job /\ Exists(j) /\ task[w].slot \in Slot \union {Null}
        /\ \A k \in Slot : ist[j][k] = "RUNNING" => k = task[w].slot
    BY <2>1, InHand DEF Exists, Unfinished, TypeOK, TaskRecord
  <2>3. /\ \A i \in Job \ {j} : st'[i] = st[i]
        /\ st'[j] = "QUEUED"
    BY <1>9, <2>2 DEF SuspendJob, TypeOK
  <2>4. /\ \A i \in Job \ {j} : ist'[i] = ist[i]
        /\ \A k \in Slot : ist'[j][k] # "RUNNING"
    <3>1. CASE task[w].slot # Null /\ ist[j][task[w].slot] = "RUNNING"
      <4>1. ist' = [ist EXCEPT ![j][task[w].slot] = "QUEUED"]
        BY <1>9, <2>2, <3>1 DEF SuspendJob
      <4>2. /\ \A i \in Job \ {j} : ist'[i] = ist[i]
            /\ \A k \in Slot : ist'[j][k] = IF k = task[w].slot THEN "QUEUED"
                                            ELSE ist[j][k]
        BY <2>2, <4>1 DEF TypeOK
      <4>3. QED
        BY <2>2, <4>2
    <3>2. CASE ~(task[w].slot # Null /\ ist[j][task[w].slot] = "RUNNING")
      BY <1>9, <2>2, <3>2, JobQueueConstants DEF SuspendJob
    <3>3. QED
      BY <3>1, <3>2
  <2>5. QED
    BY <1>2, <1>3, <2>1, <2>2, <2>3, <2>4, InHand, SettleKeepsItems
<1>10. CASE HandleUnexpected(w)
  <2> DEFINE status == IF task[w].left > 0 THEN "QUEUED" ELSE "FAILED"
  <2>1. pc[w] = "unexpected" /\ Goto(w, "requeue") /\ UNCHANGED task
    BY <1>10 DEF HandleUnexpected
  <2>2. /\ j \in Job /\ Exists(j)
        /\ \A k \in Slot : ist[j][k] = "RUNNING" => k = task[w].slot
    BY <2>1, InHand DEF Exists, Unfinished
  <2>3. task[w].slot \in Slot /\ ist[j][task[w].slot] # "NONE"
    BY <2>1 DEF ItemInv, HeldIsOpen, HasItem, Holding, Unfinished
  <2>4. /\ st' = [st EXCEPT ![j] = status]
        /\ ist' = [ist EXCEPT ![j][task[w].slot] = status]
    BY <1>10, <2>2, <2>3 DEF HandleUnexpected
  <2>5. /\ \A i \in Job \ {j} : st'[i] = st[i] /\ ist'[i] = ist[i]
        /\ st'[j] # "NONE" /\ \A k \in Slot : ist'[j][k] # "RUNNING"
    BY <2>2, <2>3, <2>4 DEF TypeOK
  <2>6. QED
    BY <1>1, <1>3, <2>1, <2>2, <2>5, InHand, SettleKeepsItems
<1>11. CASE HueyRetry(w)
  BY <1>2, <1>11, LeaveKeepsItems DEF HueyRetry, jobVars, itemVars
<1>12. CASE SessionFails(w)
  BY <1>1, <1>12, LeaveKeepsItems DEF SessionFails, jobVars, itemVars
<1>13. QED
  BY <1>4, <1>5, <1>6, <1>7, <1>8, <1>9, <1>10, <1>11, <1>12, ClaimNextKeepsItems
  DEF Threads

LEMMA ItemStep ==
  ASSUME TypeOK, BusyThreadHasJob, OneRunPerJob, OneRunPerJob', ItemInv,
         web.pc # "undo", "delete" \notin Env, [Next]_vars
  PROVE  ItemInv'
<1>1. WorkerCrash => ItemInv'
  BY LeaveKeepsItems DEF WorkerCrash, jobVars, itemVars
<1>2. QED
  BY <1>1, StepKinds, QuietKeepsItems, MoveKeepsItems, ThreadKeepsItems, InsertKeepsItems,
     RequeueKeepsItems, ReopenKeepsItems

\* No hand-over is refused, so nothing is compensated.
LEMMA NoUndo ==
  ASSUME "enqfail" \notin Env
  PROVE  Spec => [](web.pc # "undo")
<1>1. Init => web.pc # "undo"
  BY DEF Init, WebAt
<1>2. web.pc # "undo" /\ [Next]_vars => (web.pc # "undo")'
  <2> SUFFICES ASSUME web.pc # "undo", [Next]_vars PROVE web'.pc # "undo"
    OBVIOUS
  <2> USE DEF workerVars, WebAt
  <2>1. ASSUME NEW j \in Job, Request(j) PROVE web'.pc # "undo"
    <3>1. CASE CreateIndexJob(j) \/ CreateTestJob(j)
      <4>1. PICK k, f : CreateSourcelessJob(j, k, f)
        BY <3>1 DEF CreateIndexJob, CreateTestJob
      <4>2. QED
        BY <4>1 DEF CreateSourcelessJob, AwaitEnqueue
    <3>2. CASE PauseJob(j) \/ ResumeJob(j) \/ StopJob(j) \/ RestartJob(j) \/ DeleteJob(j)
      BY <3>2 DEF PauseJob, ResumeJob, StopJob, RestartJob, DeleteJob, DropJobs, AwaitEnqueue
    <3>3. CASE CreateConversionJob(j)
      BY <3>3 DEF CreateConversionJob, AwaitEnqueue
    <3>4. QED
      BY <2>1, <3>1, <3>2, <3>3 DEF Request
  <2>2. CASE DeleteAllJobs \/ WebProgress
    BY <2>2 DEF DeleteAllJobs, DropJobs, WebProgress, WebEnqueue, WebUndo, WebStart,
         WebUp, RecoverJob, AwaitEnqueue
  <2>3. ASSUME NEW s \in Source, Inventory(s) PROVE web'.pc # "undo"
    BY <2>3 DEF Inventory, SourceChanged, SourceRemoved, SourceAdded
  <2>4. ASSUME NEW w \in Worker,
               \/ \E j \in Job, r \in 0..Retries : Deliver(w, j, r)
               \/ Execute(w) \/ BeatWhileWorking(w) \/ WatchdogBeat(w)
        PROVE  web' = web
    BY <2>4 DEF Deliver, Execute, ClaimJob, CheckControl, ClaimNextItem, FinishJob, Dispatch,
         Convert, LoadSource, VerifySource, StageSource, PublishSource, MarkReady, DoWork,
         FinishItem, SuspendJob, HandleUnexpected, HueyRetry, BeatWhileWorking, WatchdogBeat
  <2>5. CASE Boot \/ Fault
    BY <2>5 DEF Boot, WorkerStart, ReconcileList, WorkerUp, ReconcileJob, ReconcileEnqueue,
         Fault, WebEnqueueFails, RequestRefused, RecoveryDies, WebCrash, WorkerCrash,
         ProcessorRaises, SessionFails, LeaseExpires
  <2>6. QED
    BY <2>1, <2>2, <2>3, <2>4, <2>5 DEF Next, vars
<1>3. QED
  BY <1>1, <1>2, PTL DEF Spec

LEMMA TypedAndBusy == Spec => [](TypeOK /\ BusyThreadHasJob)
<1>1. Init => TypeOK /\ BusyThreadHasJob
  BY InitTyped DEF Init, BusyThreadHasJob
<1>2. TypeOK /\ BusyThreadHasJob /\ [Next]_vars => (TypeOK /\ BusyThreadHasJob)'
  BY StepTyped, StepBusy
<1>3. QED
  BY <1>1, <1>2, PTL DEF Spec

LEMMA OneRunEither ==
  ASSUME Alone \/ Undisturbed
  PROVE  Spec => []OneRunPerJob
<1>1. CASE Undisturbed
  BY <1>1, OneRunPerJobHolds
<1>2. CASE Alone
  <2>1. TypeOK => OneRunPerJob
    BY <1>2 DEF Alone, OneRunPerJob
  <2>2. QED
    BY <2>1, TypedAndBusy, PTL
<1>3. QED
  BY <1>1, <1>2

\* What the proofs below start from.
Basis == TypeOK /\ BusyThreadHasJob /\ OneRunPerJob /\ web.pc # "undo" /\ ItemInv

LEMMA BasisHolds ==
  ASSUME Guarded
  PROVE  Spec => []Basis
<1>1. Spec => []OneRunPerJob
  BY OneRunEither DEF Guarded
<1>2. Spec => [](web.pc # "undo")
  BY NoUndo DEF Guarded
<1>3. "delete" \notin Env
  BY DEF Guarded
<1>4. TypeOK /\ BusyThreadHasJob /\ OneRunPerJob /\ OneRunPerJob' /\ web.pc # "undo"
        /\ ItemInv /\ [Next]_vars => ItemInv'
  BY <1>3, ItemStep
<1>5. QED
  BY <1>1, <1>2, <1>4, ItemInit, TypedAndBusy, PTL DEF Spec, Basis

\* An item is RUNNING only under a RUNNING job, where _claim_job, the reconciliation
\* and the recovery look for it, and one at a time: whatever is paused, stopped,
\* resumed, restarted, crashes, expires or fails, as long as one thread at a time runs
\* a job and no hand-over to Huey is refused.
THEOREM RunningItemHasRunningJobHolds ==
  ASSUME Guarded
  PROVE  Spec => []RunningItemHasRunningJob
<1>1. Basis => RunningItemHasRunningJob
  BY DEF Basis, ItemInv, RunningIsHeld, RunningItemHasRunningJob
<1>2. QED
  BY <1>1, BasisHolds, PTL

-----------------------------------------------------------------------------
(* The promises of JobLedger.  Every step leaves what the ledger shows of a *)
(* job as it is, or is one step of the ledger on one job.                   *)

\* What the ledger does not tell apart.
Holds(i) ==
  /\ st'[i] = st[i] \/ (st[i] \in Unfinished /\ st'[i] \in Unfinished)
  /\ \A k \in Slot : \/ ist'[i][k] = ist[i][k]
                     \/ ist[i][k] \in Unfinished /\ ist'[i][k] \in Unfinished
ItemBecomes(j, k, status) ==
  /\ ist[j][k] \in Unfinished /\ ist'[j][k] = status
  /\ \A i \in Slot \ {k} : ist'[j][i] = ist[j][i]
Settles(j, k) ==
  /\ st[j] \in Unfinished /\ st'[j] = st[j]
  /\ \E status \in Terminal : ItemBecomes(j, k, status)
Abandons(j, k) ==
  /\ st[j] \in Unfinished /\ st'[j] = "FAILED" /\ ItemBecomes(j, k, "FAILED")
Closes(w) ==
  LET j == task[w].job IN
  /\ pc[w] = "finish" /\ j \in Job /\ st[j] = "RUNNING" /\ ist' = ist
  /\ st'[j] = IF \E k \in Slot : ist[j][k] = "FAILED" THEN "FAILED" ELSE "COMPLETED"
ActsOn(w, j) ==
  \/ \E k \in Slot : Settles(j, k) \/ Abandons(j, k)
  \/ j = task[w].job /\ Closes(w)
  \/ Holds(j)

\* A step of a thread touches no other job, and no other thread.
LEMMA ThreadFrame ==
  ASSUME TypeOK, NEW w \in Worker, Threads(w)
  PROVE  /\ \A v \in Worker \ {w} : pc'[v] = pc[v] /\ task'[v] = task[v]
         /\ \A i \in Job \ {task[w].job} : st'[i] = st[i] /\ ist'[i] = ist[i]
<1> USE DEF jobVars, itemVars, Goto, Drop
<1>1. \A v \in Worker \ {w} : pc'[v] = pc[v]
  BY DEF Threads, Deliver, ClaimJob, CheckControl, ClaimNextItem, FinishJob, FinishItem,
         SuspendJob, HandleUnexpected, HueyRetry, SessionFails, TypeOK
<1>2. \A v \in Worker \ {w} : task'[v] = task[v]
  <2>1. CASE ClaimNextItem(w)
    <3>1. ASSUME NEW k, task' = [task EXCEPT ![w] = [job |-> task[w].job,
                     left |-> task[w].left, slot |-> k, src |-> isrc[task[w].job][k]]]
          PROVE  \A v \in Worker \ {w} : task'[v] = task[v]
      BY <3>1 DEF TypeOK
    <3>2. QED
      BY <2>1, <3>1 DEF ClaimNextItem
  <2>2. QED
    BY <2>1
    DEF Threads, Deliver, ClaimJob, CheckControl, FinishJob, FinishItem,
        SuspendJob, HandleUnexpected, HueyRetry, SessionFails, TypeOK
<1>3. \A i \in Job \ {task[w].job} : st'[i] = st[i]
  BY DEF Threads, Deliver, ClaimJob, CheckControl, ClaimNextItem, FinishJob, FinishItem,
         SuspendJob, HandleUnexpected, HueyRetry, SessionFails, TypeOK
<1>4. \A i \in Job \ {task[w].job} : ist'[i] = ist[i]
  <2> DEFINE Only == \A i \in Job \ {task[w].job} : ist'[i] = ist[i]
  <2>1. ASSUME NEW k, NEW status, ist' = [ist EXCEPT ![task[w].job][k] = status]
        PROVE  Only
    BY <2>1 DEF TypeOK
  <2>2. ASSUME RequeueItems(task[w].job)
        PROVE  Only
    BY <2>2 DEF RequeueItems, TypeOK
  <2>3. ist' = ist => Only
    OBVIOUS
  <2> SUFFICES Only
    OBVIOUS
  <2> HIDE DEF Only
  <2>4. CASE ClaimJob(w)
    BY <2>2, <2>3, <2>4 DEF ClaimJob
  <2>5. CASE ClaimNextItem(w)
    <3>1. \/ ist' = ist
          \/ \E k \in Slot : ist' = [ist EXCEPT ![task[w].job][k] = "RUNNING"]
      BY <2>5 DEF ClaimNextItem
    <3>2. QED
      BY <2>1, <2>3, <3>1
  <2>6. CASE FinishItem(w)
    BY <2>1, <2>3, <2>6 DEF FinishItem
  <2>7. CASE SuspendJob(w)
    BY <2>1, <2>3, <2>7 DEF SuspendJob
  <2>8. CASE HandleUnexpected(w)
    BY <2>1, <2>3, <2>8 DEF HandleUnexpected
  <2>9. CASE \/ \E j \in Job, r \in 0..Retries : Deliver(w, j, r)
             \/ CheckControl(w) \/ FinishJob(w) \/ HueyRetry(w) \/ SessionFails(w)
    BY <2>3, <2>9 DEF Deliver, CheckControl, FinishJob, HueyRetry, SessionFails
  <2>10. QED
    BY <2>4, <2>5, <2>6, <2>7, <2>8, <2>9 DEF Threads
<1>5. QED
  BY <1>1, <1>2, <1>3, <1>4

\* One item of one job takes a new status.
LEMMA OneItem ==
  ASSUME TypeOK, NEW j \in Job, NEW k \in Slot, NEW status,
         ist' = [ist EXCEPT ![j][k] = status]
  PROVE  /\ ist'[j][k] = status
         /\ \A i \in Slot \ {k} : ist'[j][i] = ist[j][i]
  BY DEF TypeOK

LEMMA ThreadActs ==
  ASSUME Basis, NEW w \in Worker, Threads(w), NEW j \in Job, j = task[w].job
  PROVE  ActsOn(w, j)
<1>1. ASSUME UNCHANGED <<st, ist>>
      PROVE  ActsOn(w, j)
  BY <1>1 DEF ActsOn, Holds
<1>2. CASE \/ \E i \in Job, r \in 0..Retries : Deliver(w, i, r)
           \/ CheckControl(w) \/ HueyRetry(w) \/ SessionFails(w)
  BY <1>1, <1>2 DEF Deliver, CheckControl, HueyRetry, SessionFails, jobVars, itemVars
<1>3. CASE ClaimJob(w)
  <2>1. CASE CanClaim(j)
    <3>1. st' = [st EXCEPT ![j] = "RUNNING"] /\ RequeueItems(j)
      BY <1>3, <2>1 DEF ClaimJob
    <3>2. \A k \in Slot : ist'[j][k] = IF ist[j][k] = "RUNNING" THEN "QUEUED" ELSE ist[j][k]
      BY <3>1, RequeueFacts DEF Basis
    <3>3. QED
      BY <2>1, <3>1, <3>2 DEF CanClaim, ActsOn, Holds, Basis, TypeOK, Unfinished
  <2>2. CASE ~CanClaim(j)
    BY <1>1, <1>3, <2>2 DEF ClaimJob
  <2>3. QED
    BY <2>1, <2>2
<1>4. CASE ClaimNextItem(w)
  <2>1. st' = st
    BY <1>4 DEF ClaimNextItem
  <2>2. ASSUME NEW k \in Slot, ist[j][k] = "QUEUED", ist' = [ist EXCEPT ![j][k] = "RUNNING"]
        PROVE  ActsOn(w, j)
    BY <2>1, <2>2, OneItem DEF Basis, ActsOn, Holds, Unfinished
  <2>3. QED
    BY <1>1, <1>4, <2>1, <2>2 DEF ClaimNextItem
<1>5. CASE FinishJob(w)
  <2>1. pc[w] = "finish" /\ ist' = ist
    BY <1>5 DEF FinishJob, itemVars
  <2>2. CASE st[j] = "RUNNING"
    BY <1>5, <2>1, <2>2 DEF FinishJob, ActsOn, Closes, Basis, TypeOK
  <2>3. CASE st[j] # "RUNNING"
    BY <1>1, <1>5, <2>1, <2>3 DEF FinishJob
  <2>4. QED
    BY <2>2, <2>3
<1>6. CASE FinishItem(w)
  <2> DEFINE k == task[w].slot
             status == IF pc[w] = "done" THEN "COMPLETED" ELSE "FAILED"
  <2>1. pc[w] \in {"done", "failed"} /\ st' = st
    BY <1>6 DEF FinishItem
  <2>2. k \in Slot /\ st[j] \in Unfinished
    BY <2>1, InHand DEF Basis, ItemInv, HeldIsOpen, HasItem, Holding
  <2>3. CASE ist[j][k] = "RUNNING"
    <3>1. ist' = [ist EXCEPT ![j][k] = status] /\ status \in Terminal
      BY <1>6, <2>3 DEF FinishItem, Terminal
    <3> HIDE DEF status, k
    <3>2. ItemBecomes(j, k, status)
      <4>1. TypeOK /\ k \in Slot /\ ist[j][k] \in Unfinished
        BY <2>2, <2>3 DEF Basis, Unfinished
      <4>2. /\ ist'[j][k] = status
            /\ \A i \in Slot \ {k} : ist'[j][i] = ist[j][i]
        BY <3>1, <4>1, OneItem
      <4>3. QED
        BY <4>1, <4>2 DEF ItemBecomes
    <3>3. QED
      BY <2>1, <2>2, <3>1, <3>2 DEF ActsOn, Settles
  <2>4. CASE ist[j][k] # "RUNNING"
    BY <1>1, <1>6, <2>1, <2>4 DEF FinishItem
  <2>5. QED
    BY <2>3, <2>4
<1>7. CASE SuspendJob(w)
  <2> DEFINE k == task[w].slot
  <2>1. pc[w] = "suspend"
    BY <1>7 DEF SuspendJob
  <2>2. st[j] \in Unfinished /\ Exists(j) /\ k \in Slot \union {Null}
    BY <2>1, InHand DEF Basis, Exists, Unfinished, TypeOK, TaskRecord
  <2>3. st'[j] = "QUEUED"
    BY <1>7, <2>2 DEF SuspendJob, Basis, TypeOK
  <2>4. CASE k # Null /\ ist[j][k] = "RUNNING"
    <3>1. ist' = [ist EXCEPT ![j][k] = "QUEUED"] /\ k \in Slot
      BY <1>7, <2>2, <2>4 DEF SuspendJob
    <3>2. QED
      BY <2>2, <2>3, <2>4, <3>1, OneItem DEF Basis, ActsOn, Holds, Unfinished
  <2>5. CASE ~(k # Null /\ ist[j][k] = "RUNNING")
    <3>1. ist' = ist
      BY <1>7, <2>2, <2>5 DEF SuspendJob
    <3>2. QED
      BY <2>2, <2>3, <3>1 DEF ActsOn, Holds, Unfinished
  <2>6. QED
    BY <2>4, <2>5
<1>8. CASE HandleUnexpected(w)
  <2> DEFINE k == task[w].slot
             status == IF task[w].left > 0 THEN "QUEUED" ELSE "FAILED"
  <2>1. pc[w] = "unexpected"
    BY <1>8 DEF HandleUnexpected
  <2>2. k \in Slot /\ st[j] \in Unfinished /\ ist[j][k] \in Unfinished
    BY <2>1, InHand DEF Basis, ItemInv, HeldIsOpen, HasItem, Holding
  <2>3. st' = [st EXCEPT ![j] = status] /\ ist' = [ist EXCEPT ![j][k] = status]
    BY <1>8, <2>2 DEF HandleUnexpected, Exists, Unfinished
  <2>4. st'[j] = status /\ ItemBecomes(j, k, status)
    BY <2>2, <2>3, OneItem DEF Basis, TypeOK, ItemBecomes
  <2>5. CASE task[w].left > 0
    BY <2>2, <2>4, <2>5 DEF ItemBecomes, ActsOn, Holds, Unfinished
  <2>6. CASE ~(task[w].left > 0)
    BY <2>2, <2>4, <2>6 DEF ActsOn, Abandons
  <2>7. QED
    BY <2>5, <2>6
<1>9. QED
  BY <1>2, <1>3, <1>4, <1>5, <1>6, <1>7, <1>8 DEF Threads

LEMMA Framed ==
  ASSUME NEW i \in Job, st'[i] = st[i], ist'[i] = ist[i]
  PROVE  Holds(i)
  BY DEF Holds

\* Everything but one job holds, and that one takes a step of the ledger.
LEMMA LedgerKinds ==
  ASSUME Basis, "delete" \notin Env, [Next]_vars
  PROVE  \/ \A i \in Job : Holds(i)
         \/ \E j \in Job :
              /\ \A i \in Job \ {j} : Holds(i)
              /\ Inserts(j) \/ Reopens(j) \/ \E w \in Worker : ActsOn(w, j)
<1> DEFINE Goal == \/ \A i \in Job : Holds(i)
                   \/ \E j \in Job :
                        /\ \A i \in Job \ {j} : Holds(i)
                        /\ Inserts(j) \/ Reopens(j) \/ \E w \in Worker : ActsOn(w, j)
<1> SUFFICES Goal
  OBVIOUS
<1>1. UNCHANGED <<st, ist>> => \A i \in Job : Holds(i)
  BY DEF Holds
<1>2. CASE Quiet \/ WorkerCrash \/ \E w \in Worker : Moves(w)
  BY <1>1, <1>2 DEF Quiet, WorkerCrash, Moves, jobVars, itemVars
<1>3. ASSUME NEW w \in Worker, Threads(w)
      PROVE  Goal
  <2>1. \A i \in Job \ {task[w].job} : Holds(i)
    BY <1>3, ThreadFrame, Framed DEF Basis
  <2>2. CASE task[w].job \in Job
    BY <1>3, <2>1, <2>2, ThreadActs
  <2>3. CASE task[w].job \notin Job
    BY <2>1, <2>3
  <2>4. QED
    BY <2>2, <2>3
<1>4. ASSUME NEW j \in Job, Inserts(j)
      PROVE  Goal
  <2>1. \A i \in Job \ {j} : st'[i] = st[i] /\ ist'[i] = ist[i]
    BY <1>4 DEF Inserts, InsertJob, Basis, TypeOK
  <2>2. QED
    BY <1>4, <2>1, Framed
<1>5. ASSUME NEW j \in Job, Requeues(j)
      PROVE  Goal
  <2>1. \A i \in Job, k \in Slot :
          ist'[i][k] = IF i = j /\ ist[i][k] = "RUNNING" THEN "QUEUED" ELSE ist[i][k]
    BY <1>5, RequeueFacts DEF Requeues, Basis
  <2>2. /\ \A i \in Job : st'[i] = IF i = j THEN "QUEUED" ELSE st[i]
        /\ st[j] = "RUNNING"
    BY <1>5 DEF Requeues, Basis, TypeOK
  <2>3. QED
    BY <2>1, <2>2 DEF Holds, Unfinished
<1>6. ASSUME NEW j \in Job, Reopens(j)
      PROVE  Goal
  <2>1. \A i \in Job \ {j} : st'[i] = st[i] /\ ist'[i] = ist[i]
    BY <1>6 DEF Reopens, RestartJob, itemVars, Basis, TypeOK
  <2>2. QED
    BY <1>6, <2>1, Framed
<1>7. QED
  BY <1>2, <1>3, <1>4, <1>5, <1>6, StepKinds DEF Basis

\* Nothing but a create and a restart makes a job ACTIVE, a resume apart.
LEMMA ControlStep ==
  ASSUME TypeOK, "resume" \notin Env, web.pc # "undo", [Next]_vars,
         NEW i \in Job, ctl'[i] = "ACTIVE", ctl[i] # "ACTIVE"
  PROVE  st'[i] # "RUNNING"
<1> USE DEF jobVars, itemVars, workerVars
<1>1. ASSUME NEW j \in Job, Request(j)
      PROVE  st'[i] # "RUNNING"
  <2>1. ASSUME NEW k, NEW f, NEW status \in {"QUEUED", "COMPLETED"}, InsertJob(j, k, f, status)
        PROVE  st'[i] # "RUNNING"
    BY <2>1 DEF InsertJob, TypeOK
  <2>2. CASE CreateConversionJob(j)
    <3>1. PICK order \in Orders :
            LET S == {order[h] : h \in Slot} \ {Null} IN
            InsertJob(j, "conversion", [h \in Slot |-> order[h] # Null],
                      IF S = {} THEN "COMPLETED" ELSE "QUEUED")
      BY <2>2 DEF CreateConversionJob
    <3>2. QED
      BY <2>1, <3>1
  <2>3. CASE CreateIndexJob(j) \/ CreateTestJob(j)
    <3>1. PICK k, f : CreateSourcelessJob(j, k, f)
      BY <2>3 DEF CreateIndexJob, CreateTestJob
    <3>2. QED
      BY <2>1, <3>1 DEF CreateSourcelessJob
  <2>4. CASE PauseJob(j) \/ StopJob(j) \/ RestartJob(j)
    BY <2>4 DEF PauseJob, StopJob, RestartJob, TypeOK
  <2>5. CASE DeleteJob(j)
    BY <2>5 DEF DeleteJob, DropJobs
  <2>6. QED
    BY <1>1, <2>2, <2>3, <2>4, <2>5 DEF Request, ResumeJob
<1>2. CASE DeleteAllJobs \/ WebProgress
  BY <1>2 DEF DeleteAllJobs, DropJobs, WebProgress, WebEnqueue, WebUndo, WebStart, WebUp,
       RecoverJob
<1>3. CASE Boot \/ Fault \/ UNCHANGED vars
  BY <1>3 DEF Boot, WorkerStart, ReconcileList, WorkerUp, ReconcileJob, ReconcileEnqueue,
       Fault, WebEnqueueFails, RequestRefused, RecoveryDies, WebCrash, WorkerCrash,
       ProcessorRaises, SessionFails, LeaseExpires, vars
<1>4. ASSUME NEW s \in Source, Inventory(s)
      PROVE  st'[i] # "RUNNING"
  BY <1>4 DEF Inventory, SourceChanged, SourceRemoved, SourceAdded
<1>5. ASSUME NEW w \in Worker,
             \/ \E j \in Job, r \in 0..Retries : Deliver(w, j, r)
             \/ Execute(w) \/ BeatWhileWorking(w) \/ WatchdogBeat(w)
      PROVE  st'[i] # "RUNNING"
  BY <1>5 DEF Deliver, Execute, ClaimJob, CheckControl, ClaimNextItem, FinishJob, Dispatch,
       Convert, LoadSource, VerifySource, StageSource, PublishSource, MarkReady, DoWork,
       FinishItem, SuspendJob, HandleUnexpected, HueyRetry, BeatWhileWorking, WatchdogBeat
<1>6. QED
  BY <1>1, <1>2, <1>3, <1>4, <1>5 DEF Next

\* A job becomes RUNNING through a claim.
LEMMA RunningStep ==
  ASSUME TypeOK, web.pc # "undo", "delete" \notin Env, [Next]_vars,
         NEW i \in Job, st'[i] = "RUNNING", st[i] # "RUNNING"
  PROVE  \E w \in Worker : task'[w].job = i /\ pc'[w] = "check"
<1>1. ~Quiet /\ ~WorkerCrash /\ \A w \in Worker : ~Moves(w)
  BY DEF Quiet, WorkerCrash, Moves, jobVars
<1>2. \A j \in Job : ~Inserts(j) /\ ~Requeues(j) /\ ~Reopens(j)
  BY DEF Inserts, InsertJob, Requeues, Reopens, RestartJob, TypeOK
<1>3. PICK w \in Worker : Threads(w)
  BY <1>1, <1>2, StepKinds
<1>4. i = task[w].job
  BY <1>3, ThreadFrame
<1>5. ClaimJob(w)
  BY <1>3, <1>4
  DEF Threads, Deliver, CheckControl, ClaimNextItem, FinishJob, FinishItem, SuspendJob,
      HandleUnexpected, HueyRetry, SessionFails, jobVars, TypeOK
<1>6. CanClaim(task[w].job)
  BY <1>5 DEF ClaimJob
<1>7. QED
  BY <1>4, <1>5, <1>6 DEF ClaimJob, Goto, TypeOK

\* A thread that found nothing left to claim, or is about to close its job, is right:
\* nothing is left to do, unless the job was taken back or interrupted meanwhile.
NothingLeft ==
  \A w \in Worker :
    LET j == task[w].job IN
    /\ pc[w] = "recheck" /\ st[j] = "RUNNING" /\ ctl[j] = "ACTIVE" => OpenItems(j) = {}
    /\ pc[w] = "finish" /\ st[j] = "RUNNING" => OpenItems(j) = {}

LedgerInv == NothingLeft /\ CompletedJobIsDone

LEMMA ToNothingLeft ==
  ASSUME Basis, "delete" \notin Env, [Next]_vars, NEW w \in Worker,
         pc'[w] \in {"recheck", "finish"}
  PROVE  \/ pc'[w] = pc[w] /\ task'[w] = task[w]
         \/ ClaimNextItem(w) /\ Goto(w, "recheck") /\ UNCHANGED <<task, ist>>
         \/ CheckControl(w) /\ pc[w] = "recheck" /\ IsActive(task[w].job)
<1> DEFINE Goal == \/ pc'[w] = pc[w] /\ task'[w] = task[w]
                   \/ ClaimNextItem(w) /\ Goto(w, "recheck") /\ UNCHANGED <<task, ist>>
                   \/ CheckControl(w) /\ pc[w] = "recheck" /\ IsActive(task[w].job)
<1> SUFFICES Goal
  OBVIOUS
<1>1. UNCHANGED <<pc, task>> => Goal
  OBVIOUS
<1>2. ASSUME NEW v \in Worker, Moves(v)
      PROVE  Goal
  BY <1>2 DEF Moves, Goto, Holding, Processing, Basis, TypeOK
<1>3. ASSUME NEW v \in Worker, v # w, Threads(v)
      PROVE  Goal
  BY <1>3, ThreadFrame DEF Basis
<1>4. ASSUME NEW label \in PC \ {"recheck", "finish"}
      PROVE  ~Goto(w, label)
  BY <1>4 DEF Goto, Basis, TypeOK
<1>5. CASE Threads(w)
  <2>1. CASE ClaimNextItem(w)
    BY <1>4, <2>1 DEF ClaimNextItem, PC, Processing
  <2>2. CASE CheckControl(w)
    BY <1>4, <2>2 DEF CheckControl, PC
  <2>3. CASE \/ \E j \in Job, r \in 0..Retries : Deliver(w, j, r)
             \/ ClaimJob(w) \/ FinishJob(w) \/ FinishItem(w) \/ SuspendJob(w)
             \/ HandleUnexpected(w) \/ HueyRetry(w) \/ SessionFails(w)
    BY <1>4, <2>3
    DEF Deliver, ClaimJob, FinishJob, FinishItem, SuspendJob, HandleUnexpected, HueyRetry,
        SessionFails, Drop, PC
  <2>4. QED
    BY <1>5, <2>1, <2>2, <2>3 DEF Threads
<1>6. CASE WorkerCrash
  BY <1>6 DEF WorkerCrash
<1>7. (\E j \in Job : Inserts(j) \/ Requeues(j) \/ Reopens(j)) => UNCHANGED <<pc, task>>
  BY DEF Inserts, Requeues, Reopens, RestartJob, workerVars
<1>8. QED
  BY <1>1, <1>2, <1>3, <1>5, <1>6, <1>7, StepKinds DEF Basis, Quiet

\* Nothing is opened in a job that is RUNNING after the step.
LEMMA NoNewWork ==
  ASSUME Basis, "delete" \notin Env, [Next]_vars, NEW i \in Job, st'[i] = "RUNNING"
  PROVE  OpenItems(i)' \subseteq OpenItems(i)
<1>1. Holds(i) => OpenItems(i)' \subseteq OpenItems(i)
  BY DEF Holds, OpenItems
<1>2. ~Inserts(i) /\ ~Reopens(i)
  BY DEF Inserts, InsertJob, Reopens, RestartJob, Basis, TypeOK
<1>3. ASSUME NEW w \in Worker, ActsOn(w, i)
      PROVE  OpenItems(i)' \subseteq OpenItems(i)
  <2>1. ASSUME NEW k \in Slot, Settles(i, k) \/ Abandons(i, k)
        PROVE  OpenItems(i)' \subseteq OpenItems(i)
    BY <2>1 DEF Settles, Abandons, ItemBecomes, OpenItems
  <2>2. QED
    BY <1>1, <1>3, <2>1 DEF ActsOn, Closes, OpenItems
<1>4. QED
  BY <1>1, <1>2, <1>3, LedgerKinds

LEMMA NothingLeftStep ==
  ASSUME Basis, Basis', LedgerInv, "delete" \notin Env, "resume" \notin Env, [Next]_vars
  PROVE  NothingLeft'
<1> SUFFICES ASSUME NEW w \in Worker, pc'[w] \in {"recheck", "finish"},
                    st'[task'[w].job] = "RUNNING",
                    pc'[w] = "recheck" => ctl'[task'[w].job] = "ACTIVE"
             PROVE  \A k \in Slot : ist'[task'[w].job][k] \notin Unfinished
  BY DEF NothingLeft, OpenItems
<1> DEFINE i == task'[w].job
<1>1. i \in Job
  BY DEF Basis, BusyThreadHasJob
<1>2. \A k \in Slot : ist'[i][k] \in Unfinished => k \in OpenItems(i)
  BY <1>1, NoNewWork DEF OpenItems
<1>3. st[i] = "RUNNING"
  <2>1. \A v \in Worker : task'[v].job = i /\ pc'[v] = "check" => v = w
    BY <1>1 DEF Basis, OneRunPerJob, InRun
  <2>2. QED
    BY <1>1, <2>1, RunningStep DEF Basis
<1>4. pc'[w] = "recheck" => ctl[i] = "ACTIVE"
  BY <1>1, ControlStep DEF Basis
<1>5. CASE pc'[w] = pc[w] /\ task'[w] = task[w]
  BY <1>2, <1>3, <1>4, <1>5 DEF LedgerInv, NothingLeft
<1>6. CASE ClaimNextItem(w) /\ Goto(w, "recheck") /\ UNCHANGED <<task, ist>>
  <2>1. pc'[w] = "recheck" /\ pc[w] = "next" /\ i = task[w].job
    BY <1>6 DEF ClaimNextItem, Goto, Basis, TypeOK
  <2>2. \A k \in Slot : ist[i][k] # "RUNNING"
    BY <2>1, InHand DEF Basis, Holding, Processing
  <2>3. \A k \in Slot : ist[i][k] # "QUEUED"
    <3>1. "dispatch" # "recheck"
      OBVIOUS
    <3>2. ~Goto(w, "dispatch")
      BY <2>1, <3>1 DEF Goto, Basis, TypeOK
    <3>3. QED
      BY <1>3, <1>4, <1>6, <2>1, <3>2 DEF ClaimNextItem
  <2>4. QED
    BY <1>2, <2>2, <2>3 DEF OpenItems, Unfinished
<1>7. CASE CheckControl(w) /\ pc[w] = "recheck" /\ IsActive(task[w].job)
  <2>1. i = task[w].job /\ ctl[i] = "ACTIVE"
    BY <1>7 DEF CheckControl, IsActive, Basis, TypeOK
  <2>2. QED
    BY <1>2, <1>3, <1>7, <2>1 DEF LedgerInv, NothingLeft
<1>8. QED
  BY <1>5, <1>6, <1>7, ToNothingLeft

LEMMA CompletedStep ==
  ASSUME Basis, LedgerInv, "delete" \notin Env, [Next]_vars
  PROVE  CompletedJobIsDone'
<1> SUFFICES ASSUME NEW i \in Job, st'[i] = "COMPLETED", NEW k \in Slot, ist'[i][k] # "NONE"
             PROVE  ist'[i][k] = "COMPLETED"
  BY DEF CompletedJobIsDone, Items
<1>1. CASE Holds(i)
  BY <1>1 DEF Holds, LedgerInv, CompletedJobIsDone, Items, Unfinished
<1>2. CASE Inserts(i)
  <2>1. PICK h, f, status : InsertJob(i, h, f, status)
                            /\ (status = "COMPLETED" => \A x \in Slot : ~f[x])
    BY <1>2 DEF Inserts
  <2>2. st'[i] = status /\ ist'[i] = [x \in Slot |-> IF f[x] THEN "QUEUED" ELSE "NONE"]
    BY <2>1 DEF InsertJob, Basis, TypeOK
  <2>3. QED
    BY <2>1, <2>2
<1>3. ~Reopens(i)
  BY DEF Reopens, RestartJob, Basis, TypeOK
<1>4. ASSUME NEW w \in Worker, ActsOn(w, i), ~Holds(i)
      PROVE  ist'[i][k] = "COMPLETED"
  <2>1. i = task[w].job /\ Closes(w)
    BY <1>4 DEF ActsOn, Settles, Abandons, Unfinished
  <2>2. ist' = ist /\ OpenItems(i) = {} /\ ist[i][k] # "FAILED"
    BY <2>1 DEF Closes, LedgerInv, NothingLeft
  <2>3. ist[i][k] \in RowStatus
    BY DEF Basis, TypeOK
  <2>4. QED
    BY <2>2, <2>3 DEF OpenItems, RowStatus, Terminal
<1>5. QED
  BY <1>1, <1>2, <1>3, <1>4, LedgerKinds

\* The requests of a job that nobody resumes: what a resume breaks is shown by the run
\* resume_skips_items.
Closing == Guarded /\ "resume" \notin Env

LEMMA LedgerInvHolds ==
  ASSUME Closing
  PROVE  Spec => [](Basis /\ LedgerInv)
<1>1. Init => LedgerInv
  BY DEF Init, LedgerInv, NothingLeft, CompletedJobIsDone
<1>2. "delete" \notin Env /\ "resume" \notin Env /\ Spec => []Basis
  BY BasisHolds DEF Closing, Guarded
<1>3. Basis /\ Basis' /\ LedgerInv /\ [Next]_vars => LedgerInv'
  BY NothingLeftStep, CompletedStep DEF LedgerInv, Closing, Guarded
<1>4. "delete" \notin Env /\ "resume" \notin Env
  BY DEF Closing, Guarded
<1>5. QED
  BY <1>1, <1>2, <1>3, <1>4, PTL DEF Spec

\* A job is reported COMPLETED only with every one of its items completed, whatever is
\* paused, stopped, restarted, crashes or fails: the run in hand reads that nothing is
\* left, reads the control state again, and only then closes the job, and in between
\* nothing but a resume can give the job new work.
THEOREM CompletedJobIsDoneHolds ==
  ASSUME Closing
  PROVE  Spec => []CompletedJobIsDone
<1>1. LedgerInv => CompletedJobIsDone
  BY DEF LedgerInv
<1>2. QED
  BY <1>1, LedgerInvHolds, PTL

-----------------------------------------------------------------------------
(* The refinement: each kind of step under the mapping of ImplementsLedger. *)

ledgerVars == <<LedgerPhase, LedgerTodo, LedgerOk, LedgerBad>>

\* What the ledger shows of job i after the step, for the job that steps and the others.
LEMMA HeldView ==
  ASSUME NEW i \in Job, Holds(i)
  PROVE  /\ LedgerPhase'[i] = LedgerPhase[i] /\ LedgerTodo'[i] = LedgerTodo[i]
         /\ LedgerOk'[i] = LedgerOk[i] /\ LedgerBad'[i] = LedgerBad[i]
<1>1. LedgerPhase'[i] = LedgerPhase[i]
  BY DEF Holds, LedgerPhase, Exists, Unfinished
<1>2. OpenItems(i)' = OpenItems(i)
  BY DEF Holds, OpenItems
<1>3. \A status \in Terminal :
        SettledAs(i, status)' = SettledAs(i, status)
  BY DEF Holds, Unfinished, Terminal, SettledAs
<1>4. QED
  BY <1>1, <1>2, <1>3 DEF LedgerTodo, LedgerOk, LedgerBad, Terminal

\* The other jobs hold: the ledger changes at j only.
LEMMA OneEntry ==
  ASSUME NEW j \in Job, \A i \in Job \ {j} : Holds(i)
  PROVE  /\ LedgerPhase' = [LedgerPhase EXCEPT ![j] = LedgerPhase'[j]]
         /\ LedgerTodo' = [LedgerTodo EXCEPT ![j] = LedgerTodo'[j]]
         /\ LedgerOk' = [LedgerOk EXCEPT ![j] = LedgerOk'[j]]
         /\ LedgerBad' = [LedgerBad EXCEPT ![j] = LedgerBad'[j]]
         /\ LedgerPhase'[j] = LedgerPhase[j] => LedgerPhase' = LedgerPhase
         /\ LedgerOk'[j] = LedgerOk[j] => LedgerOk' = LedgerOk
         /\ LedgerBad'[j] = LedgerBad[j] => LedgerBad' = LedgerBad
<1>1. \A i \in Job \ {j} :
        /\ LedgerPhase'[i] = LedgerPhase[i] /\ LedgerTodo'[i] = LedgerTodo[i]
        /\ LedgerOk'[i] = LedgerOk[i] /\ LedgerBad'[i] = LedgerBad[i]
  BY HeldView
<1>2. ASSUME NEW f, NEW g, f = [i \in Job |-> f[i]], g = [i \in Job |-> g[i]],
             \A i \in Job \ {j} : g[i] = f[i]
      PROVE  g = [f EXCEPT ![j] = g[j]] /\ (g[j] = f[j] => g = f)
  <2>1. g = [f EXCEPT ![j] = g[j]]
    BY <1>2
  <2>2. g[j] = f[j] => g = f
    BY <1>2
  <2>3. QED
    BY <2>1, <2>2
<1>3. /\ LedgerPhase' = [LedgerPhase EXCEPT ![j] = LedgerPhase'[j]]
      /\ LedgerPhase'[j] = LedgerPhase[j] => LedgerPhase' = LedgerPhase
  <2>1. /\ LedgerPhase = [i \in Job |-> LedgerPhase[i]]
        /\ LedgerPhase' = [i \in Job |-> LedgerPhase'[i]]
    BY DEF LedgerPhase
  <2>2. QED
    BY <1>1, <1>2, <2>1
<1>4. LedgerTodo' = [LedgerTodo EXCEPT ![j] = LedgerTodo'[j]]
  <2>1. /\ LedgerTodo = [i \in Job |-> LedgerTodo[i]]
        /\ LedgerTodo' = [i \in Job |-> LedgerTodo'[i]]
    BY DEF LedgerTodo
  <2>2. QED
    BY <1>1, <1>2, <2>1
<1>5. /\ LedgerOk' = [LedgerOk EXCEPT ![j] = LedgerOk'[j]]
      /\ LedgerOk'[j] = LedgerOk[j] => LedgerOk' = LedgerOk
  <2>1. /\ LedgerOk = [i \in Job |-> LedgerOk[i]]
        /\ LedgerOk' = [i \in Job |-> LedgerOk'[i]]
    BY DEF LedgerOk
  <2>2. QED
    BY <1>1, <1>2, <2>1
<1>6. /\ LedgerBad' = [LedgerBad EXCEPT ![j] = LedgerBad'[j]]
      /\ LedgerBad'[j] = LedgerBad[j] => LedgerBad' = LedgerBad
  <2>1. /\ LedgerBad = [i \in Job |-> LedgerBad[i]]
        /\ LedgerBad' = [i \in Job |-> LedgerBad'[i]]
    BY DEF LedgerBad
  <2>2. QED
    BY <1>1, <1>2, <2>1
<1>7. QED
  BY <1>3, <1>4, <1>5, <1>6

\* An entry of the ledger, before and after the step.
LEMMA Entry ==
  ASSUME NEW j \in Job
  PROVE  /\ LedgerTodo[j] = OpenItems(j) /\ LedgerTodo'[j] = OpenItems(j)'
         /\ LedgerOk[j] = SettledAs(j, "COMPLETED")
         /\ LedgerOk'[j] = SettledAs(j, "COMPLETED")'
         /\ LedgerBad[j] = SettledAs(j, "FAILED")
         /\ LedgerBad'[j] = SettledAs(j, "FAILED")'
  BY DEF LedgerTodo, LedgerOk, LedgerBad

LEMMA InsertSubmits ==
  ASSUME Basis, NEW j \in Job, Inserts(j), \A i \in Job \ {j} : Holds(i)
  PROVE  Ledger!Next
<1>1. PICK k, f, status :
        /\ InsertJob(j, k, f, status)
        /\ \/ status = "QUEUED" /\ \E i \in Slot : f[i]
           \/ status = "COMPLETED" /\ \A i \in Slot : ~f[i]
  BY DEF Inserts
<1> DEFINE S == {i \in Slot : f[i]}
<1>2. st[j] = "NONE" /\ \A i \in Slot : ist[j][i] = "NONE"
  BY JobQueueConstants DEF Inserts, IsNextId, Exists, Basis, ItemInv, NoRowNoItems
<1>3. st'[j] = status /\ ist'[j] = [i \in Slot |-> IF f[i] THEN "QUEUED" ELSE "NONE"]
  BY <1>1 DEF InsertJob, Basis, TypeOK
<1>4. OpenItems(j)' = S
  BY <1>3 DEF OpenItems, Unfinished
<1>5. LedgerPhase[j] = "absent" /\ LedgerPhase'[j] = IF S = {} THEN "completed" ELSE "open"
  BY <1>1, <1>2, <1>3 DEF LedgerPhase, Exists, Unfinished
<1>6. \A status2 \in Terminal : SettledAs(j, status2) = {} /\ SettledAs(j, status2)' = {}
  BY <1>2, <1>3 DEF SettledAs, Terminal
<1>7. UNCHANGED <<LedgerOk, LedgerBad>>
  BY <1>6, Entry, OneEntry DEF Terminal
<1>8. Ledger!Submit(j, S)
  BY <1>4, <1>5, <1>7, Entry, OneEntry DEF Ledger!Submit
<1>9. QED
  BY <1>8 DEF Ledger!Next

LEMMA ReopenReopens ==
  ASSUME Basis, CompletedJobIsDone, NEW j \in Job, Reopens(j), ~Holds(j),
         \A i \in Job \ {j} : Holds(i)
  PROVE  Ledger!Next
<1>1. /\ st'[j] = "QUEUED" /\ ist' = ist /\ OpenItems(j) # {}
      /\ st[j] \in RowStatus \ {"NONE"}
  BY DEF Reopens, RestartJob, Exists, itemVars, Basis, TypeOK
<1>2. st[j] = "FAILED"
  BY <1>1 DEF Holds, CompletedJobIsDone, Items, OpenItems, RowStatus, Unfinished, Terminal
<1>3. LedgerPhase[j] = "failed" /\ LedgerPhase'[j] = "open"
  BY <1>1, <1>2 DEF LedgerPhase, Exists, Unfinished
<1>4. UNCHANGED <<LedgerTodo, LedgerOk, LedgerBad>>
  BY <1>1 DEF LedgerTodo, LedgerOk, LedgerBad, OpenItems, SettledAs
<1>5. Ledger!Reopen(j)
  BY <1>1, <1>3, <1>4, Entry, OneEntry DEF Ledger!Reopen
<1>6. QED
  BY <1>5 DEF Ledger!Next

\* The entries of a job one of whose items is settled.
LEMMA ItemSettled ==
  ASSUME Basis, NEW j \in Job, NEW k \in Slot, NEW status \in Terminal,
         ItemBecomes(j, k, status)
  PROVE  /\ k \in OpenItems(j) /\ OpenItems(j)' = OpenItems(j) \ {k}
         /\ SettledAs(j, status)' = SettledAs(j, status) \union {k}
         /\ \A other \in Terminal \ {status} : SettledAs(j, other)' = SettledAs(j, other)
  BY DEF ItemBecomes, OpenItems, SettledAs, Unfinished, Terminal

LEMMA SettleSettles ==
  ASSUME Basis, NEW j \in Job, NEW k \in Slot, Settles(j, k), \A i \in Job \ {j} : Holds(i)
  PROVE  Ledger!Next
<1>1. PICK status \in Terminal : ItemBecomes(j, k, status)
  BY DEF Settles
<1>2. LedgerPhase[j] = "open" /\ LedgerPhase'[j] = "open"
  BY DEF Settles, LedgerPhase, Exists, Unfinished
<1> LedgerPhase' = LedgerPhase
  BY <1>2, OneEntry
<1>3. CASE status = "COMPLETED"
  <2>1. LedgerBad' = LedgerBad
    BY <1>1, <1>3, ItemSettled, Entry, OneEntry DEF Terminal
  <2>2. Ledger!Complete(j, k)
    BY <1>1, <1>2, <1>3, <2>1, ItemSettled, Entry, OneEntry DEF Ledger!Complete
  <2>3. QED
    BY <2>2 DEF Ledger!Next
<1>4. CASE status = "FAILED"
  <2>1. LedgerOk' = LedgerOk
    BY <1>1, <1>4, ItemSettled, Entry, OneEntry DEF Terminal
  <2>2. Ledger!Fail(j, k)
    BY <1>1, <1>2, <1>4, <2>1, ItemSettled, Entry, OneEntry DEF Ledger!Fail
  <2>3. QED
    BY <2>2 DEF Ledger!Next
<1>5. QED
  BY <1>3, <1>4 DEF Terminal

LEMMA AbandonAbandons ==
  ASSUME Basis, NEW j \in Job, NEW k \in Slot, Abandons(j, k), \A i \in Job \ {j} : Holds(i)
  PROVE  Ledger!Next
<1>1. ItemBecomes(j, k, "FAILED")
  BY DEF Abandons
<1>2. LedgerPhase[j] = "open" /\ LedgerPhase'[j] = "failed"
  BY DEF Abandons, LedgerPhase, Exists, Unfinished
<1>3. LedgerOk' = LedgerOk
  BY <1>1, ItemSettled, Entry, OneEntry DEF Terminal
<1>4. Ledger!Abandon(j, k)
  BY <1>1, <1>2, <1>3, ItemSettled, Entry, OneEntry DEF Ledger!Abandon, Terminal
<1>5. QED
  BY <1>4 DEF Ledger!Next

LEMMA CloseCloses ==
  ASSUME Basis, NothingLeft, NEW w \in Worker, Closes(w),
         \A i \in Job \ {task[w].job} : Holds(i)
  PROVE  Ledger!Next
<1> DEFINE j == task[w].job
<1>1. /\ j \in Job /\ st[j] = "RUNNING" /\ ist' = ist /\ OpenItems(j) = {}
      /\ st'[j] = IF \E k \in Slot : ist[j][k] = "FAILED" THEN "FAILED" ELSE "COMPLETED"
  BY DEF Closes, NothingLeft
<1>2. st'[j] = IF SettledAs(j, "FAILED") = {} THEN "COMPLETED" ELSE "FAILED"
  BY <1>1 DEF SettledAs
<1>3. /\ LedgerPhase[j] = "open"
      /\ LedgerPhase'[j] = IF SettledAs(j, "FAILED") = {} THEN "completed" ELSE "failed"
  <2>1. LedgerPhase[j] = "open"
    BY <1>1 DEF LedgerPhase, Exists, Unfinished
  <2>2. st'[j] = "COMPLETED" => LedgerPhase'[j] = "completed"
    BY <1>1 DEF LedgerPhase, Exists, Unfinished
  <2>3. st'[j] = "FAILED" => LedgerPhase'[j] = "failed"
    BY <1>1 DEF LedgerPhase, Exists, Unfinished
  <2>4. QED
    BY <1>2, <2>1, <2>2, <2>3
<1>4. UNCHANGED <<LedgerTodo, LedgerOk, LedgerBad>>
  BY <1>1 DEF LedgerTodo, LedgerOk, LedgerBad, OpenItems, SettledAs
<1>5. LedgerPhase' = [LedgerPhase EXCEPT ![j] = LedgerPhase'[j]]
  BY <1>1, OneEntry
<1>6. LedgerTodo[j] = {} /\ LedgerBad[j] = SettledAs(j, "FAILED")
  BY <1>1, Entry
<1> HIDE DEF j
<1>7. Ledger!Close(j)
  BY <1>3, <1>4, <1>5, <1>6 DEF Ledger!Close
<1>8. QED
  BY <1>1, <1>7 DEF Ledger!Next

LEMMA LedgerStep ==
  ASSUME Basis, LedgerInv, "delete" \notin Env, [Next]_vars
  PROVE  Ledger!Next \/ UNCHANGED ledgerVars
<1>1. CASE \A i \in Job : Holds(i)
  <2>1. \A i \in Job :
          /\ LedgerPhase'[i] = LedgerPhase[i] /\ LedgerTodo'[i] = LedgerTodo[i]
          /\ LedgerOk'[i] = LedgerOk[i] /\ LedgerBad'[i] = LedgerBad[i]
    BY <1>1, HeldView
  <2>2. QED
    BY <2>1 DEF ledgerVars, LedgerPhase, LedgerTodo, LedgerOk, LedgerBad
<1>2. ASSUME NEW j \in Job, \A i \in Job \ {j} : Holds(i), ~Holds(j),
             Inserts(j) \/ Reopens(j) \/ \E w \in Worker : ActsOn(w, j)
      PROVE  Ledger!Next
  BY <1>2, InsertSubmits, ReopenReopens, SettleSettles, AbandonAbandons, CloseCloses
  DEF ActsOn, LedgerInv
<1>3. QED
  BY <1>1, <1>2, LedgerKinds

\* The queue implements the abstract ledger: however many processes, crashes, expired
\* leases and repeated deliveries there are, every item is settled once, a job closes
\* only when nothing is left, and only a failed job with work left is opened again.
THEOREM ImplementsLedgerHolds ==
  ASSUME Closing
  PROVE  Spec => ImplementsLedger
<1>1. Init => Ledger!Init
  BY DEF Init, Ledger!Init, LedgerPhase, LedgerTodo, LedgerOk, LedgerBad, OpenItems,
         SettledAs, Exists, Unfinished
<1>2. "delete" \notin Env
  BY DEF Closing, Guarded
<1>3. Basis /\ LedgerInv /\ [Next]_vars => [Ledger!Next]_(Ledger!vars)
  BY <1>2, LedgerStep DEF Ledger!vars, ledgerVars
<1>4. QED
  BY <1>1, <1>3, LedgerInvHolds, PTL DEF Spec, ImplementsLedger, Ledger!Spec

-----------------------------------------------------------------------------
(* Sources and deliveries; first the kinds of steps, by what they do to    *)
(* items and sources.                                                      *)

Claimed == {"QUEUED", "CONVERTING"}

Rests ==
  /\ UNCHANGED <<ist, isrc, kind, pc, task>>
  /\ \A s \in Source : conv'[s] \in Claimed => conv'[s] = conv[s]
Inserted(j, k, f, status, order) ==
  /\ InsertJob(j, k, f, status) /\ isrc' = [isrc EXCEPT ![j] = order]
  /\ status \in {"QUEUED", "COMPLETED"}
  /\ \A i \in Slot : order[i] # Null => k = "conversion" /\ f[i]
  /\ \A s \in Source : conv'[s] \in Claimed =>
       conv'[s] = conv[s] \/ (conv'[s] = "QUEUED" /\ \E i \in Slot : order[i] = s)
Creates(j) ==
  /\ IsNextId(j) /\ web.pc = "up" /\ UNCHANGED <<pc, task>>
  /\ \E k, f, status, order : Inserted(j, k, f, status, order)
Releases(j) ==
  RequeueItems(j) /\ ReleaseSources(j) /\ UNCHANGED <<isrc, kind, pc, task>>
Deletes ==
  /\ "delete" \in Env
  /\ \E D \in SUBSET Job : DropJobs(D)
Undoes ==
  web.pc = "undo" /\ UndoCreate(web.job) /\ UNCHANGED <<isrc, kind, pc, task>>

\* A thread inside an item processor: it writes no status but that of its source, and
\* it leaves with an outcome only when the source has one, or there is no source.
Works(w) ==
  LET s == task[w].src  j == task[w].job IN
  /\ pc[w] \in Processing /\ UNCHANGED <<st, ctl, ist, isrc, kind, pending, task, boot, web>>
  /\ \A r \in Source \ {s} : conv'[r] = conv[r]
  /\ \E label \in Holding :
       /\ Goto(w, label)
       /\ s \in Source /\ conv'[s] \in Claimed =>
            conv'[s] = conv[s] \/ (conv'[s] = "CONVERTING" /\ label \in Processing)
       /\ label \in {"done", "failed"} =>
            \/ s \notin Source \/ conv'[s] \notin Claimed
            \/ pc[w] \in {"generate", "fake"} \/ (pc[w] = "dispatch" /\ ~Exists(j))
       /\ label \in {"generate", "fake"} =>
            pc[w] = label \/ (pc[w] = "dispatch" /\ kind[j] # "conversion")
       /\ label = "suspend" => ~IsActive(j)

LEMMA WorkKinds ==
  ASSUME TypeOK, NEW w \in Worker,
         \/ Dispatch(w) \/ Convert(w) \/ DoWork(w) \/ BeatWhileWorking(w) \/ ProcessorRaises(w)
  PROVE  Works(w)
<1> USE DEF itemVars, jobVars
<1>1. \A r \in Source \ {task[w].src} : conv'[r] = conv[r]
  BY DEF Dispatch, Convert, LoadSource, VerifySource, StageSource, PublishSource, MarkReady,
         SetSource, DoWork, BeatWhileWorking, ProcessorRaises, TypeOK
<1>2. pc[w] \in Processing /\ UNCHANGED <<st, ctl, ist, isrc, kind, pending, task, boot, web>>
  BY DEF Dispatch, Convert, LoadSource, VerifySource, StageSource, PublishSource, MarkReady,
         DoWork, BeatWhileWorking, ProcessorRaises, Processing
<1> SUFFICES \E label \in Holding :
       LET s == task[w].src IN
       /\ Goto(w, label)
       /\ s \in Source /\ conv'[s] \in Claimed =>
            conv'[s] = conv[s] \/ (conv'[s] = "CONVERTING" /\ label \in Processing)
       /\ label \in {"done", "failed"} =>
            \/ s \notin Source \/ conv'[s] \notin Claimed
            \/ pc[w] \in {"generate", "fake"} \/ (pc[w] = "dispatch" /\ ~Exists(task[w].job))
       /\ label \in {"generate", "fake"} =>
            pc[w] = label \/ (pc[w] = "dispatch" /\ kind[task[w].job] # "conversion")
       /\ label = "suspend" => ~IsActive(task[w].job)
  BY <1>1, <1>2 DEF Works
<1> USE DEF Holding, Processing, Claimed
<1>3. CASE Dispatch(w)
  BY <1>3 DEF Dispatch
<1>4. CASE LoadSource(w)
  <2>1. task[w].src = Null => task[w].src \notin Source
    BY JobQueueConstants
  <2>2. QED
    BY <1>4, <2>1 DEF LoadSource, TypeOK
<1>5. CASE VerifySource(w)
  <2>1. CASE SetSource(w, "FAILED", "failed")
    BY <2>1 DEF SetSource, TypeOK
  <2>2. CASE Heartbeat(w, "stage") /\ UNCHANGED conv
    BY <2>2 DEF Heartbeat
  <2>3. QED
    BY <1>5, <2>1, <2>2 DEF VerifySource
<1>6. CASE StageSource(w) \/ PublishSource(w) \/ MarkReady(w)
  <2>1. ASSUME NEW status \in {"FAILED", "UNSUPPORTED", "READY"}, NEW label \in {"failed", "done"},
               SetSource(w, status, label), pc[w] \in {"stage", "publish", "ready"}
        PROVE  \E l \in {"unexpected", "failed", "done"} :
                 /\ Goto(w, l)
                 /\ task[w].src \in Source =>
                      conv'[task[w].src] = conv[task[w].src] \/ conv'[task[w].src] \notin Claimed
                 /\ l \in {"failed", "done"} =>
                      task[w].src \notin Source \/ conv'[task[w].src] \notin Claimed
    BY <2>1 DEF SetSource, TypeOK
  <2>2. QED
    BY <1>6, <2>1 DEF StageSource, PublishSource, MarkReady
<1>7. CASE DoWork(w)
  BY <1>7 DEF DoWork
<1>8. CASE BeatWhileWorking(w)
  BY <1>8 DEF BeatWhileWorking, Heartbeat
<1>9. CASE ProcessorRaises(w)
  BY <1>9 DEF ProcessorRaises
<1>10. QED
  BY <1>3, <1>4, <1>5, <1>6, <1>7, <1>8, <1>9 DEF Convert

LEMMA CreateKinds ==
  ASSUME TypeOK, NEW j \in Job, CreateConversionJob(j) \/ CreateIndexJob(j) \/ CreateTestJob(j)
  PROVE  Creates(j)
<1>1. CASE CreateConversionJob(j)
  <2>1. PICK order \in Orders :
          LET S == {order[i] : i \in Slot} \ {Null} IN
          /\ InsertJob(j, "conversion", [i \in Slot |-> order[i] # Null],
                       IF S = {} THEN "COMPLETED" ELSE "QUEUED")
          /\ isrc' = [isrc EXCEPT ![j] = order]
          /\ conv' = [s \in Source |-> IF s \in S THEN "QUEUED" ELSE conv[s]]
    BY <1>1 DEF CreateConversionJob
  <2>2. \A s \in Source : conv'[s] \in Claimed =>
          conv'[s] = conv[s] \/ (conv'[s] = "QUEUED" /\ \E i \in Slot : order[i] = s)
    BY <2>1
  <2> DEFINE f == [i \in Slot |-> order[i] # Null]
             status == IF {order[i] : i \in Slot} \ {Null} = {} THEN "COMPLETED" ELSE "QUEUED"
  <2>3. \A i \in Slot : order[i] # Null => f[i]
    OBVIOUS
  <2>4. /\ InsertJob(j, "conversion", f, status) /\ isrc' = [isrc EXCEPT ![j] = order]
        /\ status \in {"QUEUED", "COMPLETED"}
    BY <2>1
  <2> HIDE DEF f, status
  <2>5. IsNextId(j) /\ web.pc = "up" /\ UNCHANGED <<pc, task>>
    BY <1>1 DEF CreateConversionJob, workerVars
  <2>6. Inserted(j, "conversion", f, status, order)
    BY <2>2, <2>3, <2>4 DEF Inserted
  <2>7. QED
    BY <2>5, <2>6 DEF Creates
<1>2. CASE CreateIndexJob(j) \/ CreateTestJob(j)
  <2>1. PICK k, f : CreateSourcelessJob(j, k, f)
    BY <1>2 DEF CreateIndexJob, CreateTestJob
  <2> DEFINE order == [i \in Slot |-> Null]
  <2>2. /\ InsertJob(j, k, f, "QUEUED") /\ isrc' = [isrc EXCEPT ![j] = order]
        /\ conv' = conv /\ \A i \in Slot : order[i] = Null
        /\ IsNextId(j) /\ web.pc = "up" /\ UNCHANGED <<pc, task>>
    BY <2>1 DEF CreateSourcelessJob, workerVars
  <2> HIDE DEF order
  <2>3. Inserted(j, k, f, "QUEUED", order)
    BY <2>2 DEF Inserted
  <2>4. QED
    BY <2>2, <2>3 DEF Creates
<1>3. QED
  BY <1>1, <1>2

LEMMA SourceKinds ==
  ASSUME TypeOK, [Next]_vars
  PROVE  \/ Rests \/ Deletes \/ Undoes \/ WorkerCrash
         \/ \E j \in Job : Creates(j) \/ Releases(j)
         \/ \E s \in Source : SourceRemoved(s)
         \/ \E w \in Worker : Works(w) \/ Threads(w)
<1> USE DEF jobVars, itemVars, workerVars
<1>1. ASSUME NEW j \in Job, Request(j)
      PROVE  Rests \/ Deletes \/ Creates(j)
  <2>1. CASE CreateConversionJob(j) \/ CreateIndexJob(j) \/ CreateTestJob(j)
    BY <2>1, CreateKinds
  <2>2. CASE PauseJob(j) \/ ResumeJob(j) \/ StopJob(j) \/ RestartJob(j)
    BY <2>2 DEF PauseJob, ResumeJob, StopJob, RestartJob, Rests
  <2>3. CASE DeleteJob(j)
    BY <2>3 DEF DeleteJob, Deletes
  <2>4. QED
    BY <1>1, <2>1, <2>2, <2>3 DEF Request
<1>2. CASE DeleteAllJobs
  <2>1. {j \in Job : Exists(j)} \in SUBSET Job
    OBVIOUS
  <2>2. QED
    BY <1>2, <2>1 DEF DeleteAllJobs, Deletes
<1>3. CASE WebProgress
  <2>1. CASE WebEnqueue \/ WebStart \/ WebUp
    BY <2>1 DEF WebEnqueue, WebStart, WebUp, Rests
  <2>2. ASSUME NEW j \in Job, RecoverJob(j)
        PROVE  Rests \/ Releases(j)
    BY <2>2 DEF RecoverJob, Rests, Releases
  <2>3. CASE WebUndo
    BY <2>3 DEF WebUndo, UndoResume, UndoRestart, Rests, Undoes
  <2>4. QED
    BY <1>3, <2>1, <2>2, <2>3 DEF WebProgress
<1>4. CASE Boot
  <2>1. CASE WorkerStart \/ ReconcileList \/ WorkerUp
    BY <2>1 DEF WorkerStart, ReconcileList, WorkerUp, Rests
  <2>2. ASSUME NEW j \in Job, ReconcileJob(j) \/ ReconcileEnqueue(j)
        PROVE  Rests \/ Releases(j)
    BY <2>2 DEF ReconcileJob, ReconcileEnqueue, Rests, Releases
  <2>3. QED
    BY <1>4, <2>1, <2>2 DEF Boot
<1>5. CASE Fault
  <2>1. CASE WebEnqueueFails \/ WebCrash \/ \E j \in Job : LeaseExpires(j)
    BY <2>1 DEF WebEnqueueFails, RequestRefused, RecoveryDies, WebCrash, LeaseExpires, Rests
  <2>2. QED
    BY <1>5, <2>1, WorkKinds DEF Fault, Threads
<1>6. ASSUME NEW w \in Worker, Execute(w) \/ BeatWhileWorking(w) \/ WatchdogBeat(w)
      PROVE  Rests \/ Works(w) \/ Threads(w)
  <2>1. WatchdogBeat(w) => Rests
    BY DEF WatchdogBeat, Rests
  <2>2. QED
    BY <1>6, <2>1, WorkKinds DEF Execute, Threads
<1>7. CASE UNCHANGED vars
  BY <1>7 DEF vars, Rests
<1>8. ASSUME NEW s \in Source, Inventory(s)
      PROVE  Rests \/ SourceRemoved(s)
  <2>1. ASSUME NEW status \in {"CHANGED", "NEW"}, conv' = [conv EXCEPT ![s] = status]
        PROVE  \A r \in Source : conv'[r] \in Claimed => conv'[r] = conv[r]
    BY <2>1 DEF TypeOK, Claimed
  <2>2. QED
    BY <1>8, <2>1 DEF Inventory, SourceChanged, SourceAdded, Rests
<1>9. QED
  BY <1>1, <1>2, <1>3, <1>4, <1>5, <1>6, <1>7, <1>8 DEF Next, Threads

-----------------------------------------------------------------------------
(* Rows and requests, under every request and fault.                       *)

\* Only the items of a conversion name a source.
OnlyConversionsNameSources ==
  \A j \in Job : \A k \in Slot : isrc[j][k] # Null => kind[j] = "conversion"

\* What a request remembers to write back: a status no request had claimed for each
\* source of the job it created, the status of a row that exists for a restart.
SavedClaims ==
  /\ \A s \in Source : web.saved[s] # "QUEUED"
  /\ web.op = "restart" => web.prev # "NONE"
  /\ web.op = "create" =>
       /\ web.job \in Job
       /\ \A k \in Slot : isrc[web.job][k] # Null => web.saved[isrc[web.job][k]] # "GONE"

LEMMA WebAtSaves ==
  ASSUME NEW label, NEW todo, web' = WebAt(label, todo)
  PROVE  SavedClaims'
  BY DEF WebAt, NoClaims, SavedClaims

LEMMA SavedStep ==
  ASSUME TypeOK, SavedClaims, [Next]_vars
  PROVE  SavedClaims'
<1> USE DEF jobVars, itemVars, workerVars
<1>1. ASSUME web' = web,
             \A j \in Job, k \in Slot : isrc'[j][k] # Null => isrc'[j][k] = isrc[j][k]
      PROVE  SavedClaims'
  BY <1>1 DEF SavedClaims
<1>2. ASSUME web' = web, isrc' = isrc
      PROVE  SavedClaims'
  BY <1>2 DEF SavedClaims
<1>3. ASSUME NEW j \in Job, CreateConversionJob(j)
      PROVE  SavedClaims'
  <2>1. PICK order \in Orders :
          LET S == {order[i] : i \in Slot} \ {Null} IN
          /\ Selectable(S)
          /\ isrc' = [isrc EXCEPT ![j] = order]
          /\ IF S = {}
             THEN UNCHANGED web
             ELSE AwaitEnqueue(j, "create", "NONE", "null",
                    [s \in Source |-> IF s \in S THEN conv[s] ELSE "GONE"])
    BY <1>3 DEF CreateConversionJob
  <2> DEFINE S == {order[i] : i \in Slot} \ {Null}
  <2>2. S \subseteq Source /\ \A s \in S : conv[s] \notin {"GONE", "QUEUED"}
    BY <2>1 DEF Selectable, Convertible, Claimable, Orders
  <2>3. isrc'[j] = order /\ \A k \in Slot : order[k] # Null => order[k] \in S
    BY <2>1 DEF TypeOK
  <2> HIDE DEF S
  <2>4. CASE S # {}
    BY <2>1, <2>2, <2>3, <2>4, SMTT(20) DEF S, AwaitEnqueue, SavedClaims
  <2>5. CASE S = {}
    <3>1. web' = web /\ web.pc = "up"
      BY <1>3, <2>1, <2>5 DEF CreateConversionJob, S
    <3>2. \A i \in Job, k \in Slot : isrc'[i][k] # Null => isrc'[i][k] = isrc[i][k]
      BY <2>1, <2>3, <2>5 DEF TypeOK
    <3>3. QED
      BY <1>1, <3>1, <3>2
  <2>6. QED
    BY <2>4, <2>5
<1>4. ASSUME NEW j \in Job, CreateIndexJob(j) \/ CreateTestJob(j)
      PROVE  SavedClaims'
  <2>1. PICK k, f : CreateSourcelessJob(j, k, f)
    BY <1>4 DEF CreateIndexJob, CreateTestJob
  <2>2. QED
    BY <2>1 DEF CreateSourcelessJob, AwaitEnqueue, NoClaims, SavedClaims, TypeOK
<1>5. ASSUME NEW j \in Job, ResumeJob(j) \/ RestartJob(j)
      PROVE  SavedClaims'
  BY <1>5 DEF ResumeJob, RestartJob, AwaitEnqueue, NoClaims, SavedClaims, Exists
<1>6. ASSUME NEW j \in Job, PauseJob(j) \/ StopJob(j)
      PROVE  SavedClaims'
  BY <1>2, <1>6 DEF PauseJob, StopJob
<1>7. ASSUME NEW D, DropJobs(D)
      PROVE  SavedClaims'
  <2>1. \A j \in Job, k \in Slot : isrc'[j][k] # Null => isrc'[j][k] = isrc[j][k]
    BY <1>7 DEF DropJobs
  <2>2. QED
    BY <1>1, <1>7, <2>1 DEF DropJobs
<1>8. ASSUME NEW s \in Source, Inventory(s)
      PROVE  SavedClaims'
  <2>1. \A j \in Job, k \in Slot : isrc'[j][k] # Null => isrc'[j][k] = isrc[j][k]
    BY <1>8 DEF Inventory, SourceChanged, SourceRemoved, SourceAdded
  <2>2. QED
    BY <1>1, <1>8, <2>1 DEF Inventory, SourceChanged, SourceRemoved, SourceAdded
<1>9. CASE WebProgress
  <2>1. ASSUME NEW j \in Job, RecoverJob(j)
        PROVE  SavedClaims'
    BY <2>1, WebAtSaves DEF RecoverJob, AwaitEnqueue, NoClaims, SavedClaims
  <2>2. QED
    BY <1>9, <2>1, WebAtSaves DEF WebProgress, WebEnqueue, WebUndo, WebStart, WebUp
<1>10. CASE WebEnqueueFails
  BY <1>10, WebAtSaves DEF WebEnqueueFails, RequestRefused, RecoveryDies, SavedClaims,
         TypeOK, WebRecord
<1>11. CASE WebCrash
  BY <1>11, WebAtSaves DEF WebCrash
<1>12. CASE Boot \/ WorkerCrash \/ UNCHANGED vars \/ \E j \in Job : LeaseExpires(j)
  BY <1>2, <1>12
  DEF Boot, WorkerStart, ReconcileList, WorkerUp, ReconcileJob, ReconcileEnqueue,
      WorkerCrash, LeaseExpires, vars
<1>13. ASSUME NEW w \in Worker,
              \/ \E j \in Job, r \in 0..Retries : Deliver(w, j, r)
              \/ Execute(w) \/ BeatWhileWorking(w) \/ WatchdogBeat(w)
              \/ ProcessorRaises(w) \/ SessionFails(w)
       PROVE  SavedClaims'
  <2>1. web' = web /\ isrc' = isrc
    BY <1>13
    DEF Deliver, Execute, ClaimJob, CheckControl, ClaimNextItem, FinishJob, Dispatch,
        Convert, LoadSource, VerifySource, StageSource, PublishSource, MarkReady, DoWork,
        FinishItem, SuspendJob, HandleUnexpected, HueyRetry, BeatWhileWorking, WatchdogBeat,
        ProcessorRaises, SessionFails
  <2>2. QED
    BY <1>2, <2>1
<1>14. QED
  BY <1>3, <1>4, <1>5, <1>6, <1>7, <1>8, <1>9, <1>10, <1>11, <1>12, <1>13
  DEF Next, Request, DeleteJob, DeleteAllJobs, Fault

\* What a thread can do to items, sources and itself, whatever else happens.
LEMMA ThreadEffects ==
  ASSUME TypeOK, NEW w \in Worker, Threads(w)
  PROVE  /\ UNCHANGED <<isrc, kind>>
         /\ pc'[w] \in Holding =>
              \/ /\ pc'[w] = "suspend" /\ task'[w].slot = Null /\ task'[w].src = Null
                 /\ CheckControl(w) /\ ~IsActive(task[w].job) /\ task'[w].job = task[w].job
              \/ /\ ClaimNextItem(w) /\ pc'[w] = "dispatch" /\ task'[w].slot \in Slot
                 /\ task'[w].job = task[w].job
                 /\ task'[w].src = isrc[task[w].job][task'[w].slot]
<1>1. UNCHANGED <<isrc, kind>>
  BY DEF Threads, Deliver, ClaimJob, CheckControl, ClaimNextItem, FinishJob, FinishItem,
         SuspendJob, HandleUnexpected, HueyRetry, SessionFails, jobVars, itemVars
<1>2. ASSUME NEW label, Goto(w, label)
      PROVE  pc'[w] = label
  BY <1>2 DEF Goto, TypeOK
<1> DEFINE Goal == \/ /\ pc'[w] = "suspend" /\ task'[w].slot = Null /\ task'[w].src = Null
                      /\ CheckControl(w) /\ ~IsActive(task[w].job) /\ task'[w].job = task[w].job
                   \/ /\ ClaimNextItem(w) /\ pc'[w] = "dispatch" /\ task'[w].slot \in Slot
                      /\ task'[w].job = task[w].job
                      /\ task'[w].src = isrc[task[w].job][task'[w].slot]
<1>3. ASSUME pc'[w] \in Holding
      PROVE  Goal
  <2> HIDE DEF Goal
  <2>1. ASSUME NEW label \in {"idle", "claim", "check", "next", "recheck", "finish", "requeue"},
               Goto(w, label)
        PROVE  FALSE
    BY <1>2, <1>3, <2>1 DEF Holding, Processing
  <2>2. CASE CheckControl(w)
    <3>1. /\ task'[w].slot = Null /\ task'[w].src = Null /\ task'[w].job = task[w].job
          /\ pc'[w] \in {"next", "finish"} \/ (pc'[w] = "suspend" /\ ~IsActive(task[w].job))
      BY <1>2, <2>2 DEF CheckControl, TypeOK
    <3>2. QED
      BY <1>3, <2>2, <3>1 DEF Goal, Holding, Processing
  <2>3. CASE ClaimNextItem(w)
    <3>1. PICK k \in Slot :
            /\ task' = [task EXCEPT ![w] = [job |-> task[w].job, left |-> task[w].left,
                                            slot |-> k, src |-> isrc[task[w].job][k]]]
            /\ Goto(w, "dispatch")
      BY <2>1, <2>3 DEF ClaimNextItem
    <3>2. QED
      BY <1>2, <2>3, <3>1 DEF Goal, TypeOK
  <2>4. CASE \/ \E j \in Job, r \in 0..Retries : Deliver(w, j, r)
             \/ ClaimJob(w) \/ FinishJob(w) \/ FinishItem(w)
             \/ SuspendJob(w) \/ HandleUnexpected(w) \/ HueyRetry(w) \/ SessionFails(w)
    BY <2>1, <2>4
    DEF Deliver, ClaimJob, FinishJob, FinishItem, SuspendJob, HandleUnexpected, HueyRetry,
        SessionFails, Drop
  <2>5. QED
    BY <2>2, <2>3, <2>4 DEF Threads
<1>4. QED
  BY <1>1, <1>3

\* What a thread does to an item: it settles, requeues or takes the one it holds, or
\* requeues those of a job it claims.
LEMMA ThreadItems ==
  ASSUME TypeOK, NEW w \in Worker, Threads(w), NEW i \in Job, NEW k \in Slot,
         ist'[i][k] # ist[i][k]
  PROVE  /\ i = task[w].job
         /\ \/ ist[i][k] = "RUNNING" /\ ist'[i][k] = "QUEUED"
            \/ /\ ClaimNextItem(w) /\ ist[i][k] = "QUEUED" /\ ist'[i][k] = "RUNNING"
               /\ task'[w].job = i /\ task'[w].slot = k
            \/ /\ FinishItem(w) /\ ist[i][k] = "RUNNING" /\ ist'[i][k] \in Terminal
               /\ task[w].slot = k
            \/ /\ HandleUnexpected(w) /\ Exists(i) /\ ist[i][k] # "NONE" /\ task[w].slot = k
               /\ ist'[i][k] = IF task[w].left > 0 THEN "QUEUED" ELSE "FAILED"
               /\ \A s \in Source : kind[i] = "conversion" /\ isrc[i][k] = s => conv'[s] = ist'[i][k]
<1>1. i = task[w].job
  BY ThreadFrame
<1>2. ASSUME NEW h, NEW status, ist' = [ist EXCEPT ![i][h] = status]
      PROVE  h = k /\ ist'[i][k] = status
  BY <1>2 DEF TypeOK
<1>3. CASE ClaimJob(w)
  <2>1. RequeueItems(i)
    BY <1>1, <1>3 DEF ClaimJob
  <2>2. QED
    BY <1>1, <2>1, RequeueFacts
<1>4. CASE ClaimNextItem(w)
  <2>1. PICK h \in Slot :
          /\ ist[i][h] = "QUEUED" /\ ist' = [ist EXCEPT ![i][h] = "RUNNING"]
          /\ task' = [task EXCEPT ![w] = [job |-> i, left |-> task[w].left,
                                          slot |-> h, src |-> isrc[i][h]]]
    BY <1>1, <1>4 DEF ClaimNextItem
  <2>2. h = k /\ ist'[i][k] = "RUNNING"
    BY <1>2, <2>1
  <2>3. task'[w].job = i /\ task'[w].slot = h
    BY <2>1 DEF TypeOK
  <2>4. QED
    BY <1>1, <1>4, <2>1, <2>2, <2>3
<1>5. CASE FinishItem(w)
  <2>1. /\ ist[i][task[w].slot] = "RUNNING"
        /\ ist' = [ist EXCEPT ![i][task[w].slot] =
                      IF pc[w] = "done" THEN "COMPLETED" ELSE "FAILED"]
    BY <1>1, <1>5 DEF FinishItem
  <2>2. /\ task[w].slot = k
        /\ ist'[i][k] = IF pc[w] = "done" THEN "COMPLETED" ELSE "FAILED"
    BY <1>2, <2>1
  <2>3. QED
    BY <1>1, <1>5, <2>1, <2>2 DEF Terminal
<1>6. CASE SuspendJob(w)
  <2>1. /\ ist[i][task[w].slot] = "RUNNING"
        /\ ist' = [ist EXCEPT ![i][task[w].slot] = "QUEUED"]
    BY <1>1, <1>6 DEF SuspendJob
  <2>2. QED
    BY <1>1, <1>2, <2>1
<1>7. CASE HandleUnexpected(w)
  <2> DEFINE status == IF task[w].left > 0 THEN "QUEUED" ELSE "FAILED"
  <2>1. /\ Exists(i) /\ ist[i][task[w].slot] # "NONE"
        /\ ist' = [ist EXCEPT ![i][task[w].slot] = status]
        /\ conv' = [s \in Source |->
             IF kind[i] = "conversion" /\ isrc[i][task[w].slot] = s THEN status ELSE conv[s]]
    BY <1>1, <1>7 DEF HandleUnexpected
  <2>2. task[w].slot = k /\ ist'[i][k] = status
    BY <1>2, <2>1
  <2>3. \A s \in Source : kind[i] = "conversion" /\ isrc[i][k] = s => conv'[s] = status
    BY <2>1, <2>2
  <2>4. QED
    BY <1>1, <1>7, <2>1, <2>2, <2>3
<1>8. ist' = ist => FALSE
  OBVIOUS
<1>9. QED
  BY <1>3, <1>4, <1>5, <1>6, <1>7, <1>8
  DEF Threads, Deliver, CheckControl, FinishJob, HueyRetry, SessionFails, itemVars

\* A row disappears with its items, and no compensation writes the absence of a row.
LEMMA RowGone ==
  ASSUME TypeOK, SavedClaims, [Next]_vars, NEW i \in Job, st'[i] = "NONE", st[i] # "NONE"
  PROVE  \A k \in Slot : ist'[i][k] = "NONE"
<1> USE DEF jobVars, itemVars, workerVars
<1>1. ASSUME NEW D, DropJobs(D)
      PROVE  \A k \in Slot : ist'[i][k] = "NONE"
  BY <1>1 DEF DropJobs
<1>2. st' # st
  OBVIOUS
<1>3. ASSUME NEW j, NEW status, status # "NONE", st' = [st EXCEPT ![j] = status]
      PROVE  FALSE
  BY <1>3 DEF TypeOK
<1>4. ASSUME NEW j \in Job, Request(j)
      PROVE  \E D : DropJobs(D)
  <2>1. ASSUME Creates(j)
        PROVE  FALSE
    BY <1>3, <2>1 DEF Creates, Inserted, InsertJob
  <2>2. QED
    BY <1>2, <1>3, <1>4, <2>1, CreateKinds
    DEF Request, PauseJob, ResumeJob, StopJob, RestartJob, DeleteJob
<1>5. ASSUME WebUndo
      PROVE  FALSE
  <2>1. UndoCreate(web.job) \/ UndoResume(web.job) \/ UndoRestart(web.job)
    BY <1>2, <1>5 DEF WebUndo
  <2>2. ~UndoCreate(web.job) /\ ~UndoResume(web.job)
    BY <1>2, <1>3 DEF UndoCreate, UndoResume
  <2>3. UndoRestart(web.job) => st' = st \/ st' = [st EXCEPT ![web.job] = web.prev]
    BY DEF UndoRestart, TypeOK
  <2>4. UndoRestart(web.job) => web.prev # "NONE"
    BY DEF UndoRestart, SavedClaims
  <2>5. QED
    BY <1>2, <1>3, <2>1, <2>2, <2>3, <2>4
<1>6. ~(WebProgress \/ Boot \/ Fault \/ UNCHANGED vars)
  <2>1. ~WebProgress
    BY <1>2, <1>3, <1>5 DEF WebProgress, WebEnqueue, WebStart, WebUp, RecoverJob
  <2>2. ~Boot
    BY <1>2, <1>3
    DEF Boot, WorkerStart, ReconcileList, WorkerUp, ReconcileJob, ReconcileEnqueue
  <2>3. ~Fault
    BY <1>2 DEF Fault, WebEnqueueFails, RequestRefused, RecoveryDies, WebCrash, WorkerCrash,
        ProcessorRaises, SessionFails, LeaseExpires
  <2>4. QED
    BY <1>2, <2>1, <2>2, <2>3 DEF vars
<1>7. ASSUME NEW w \in Worker,
             \/ \E j \in Job, r \in 0..Retries : Deliver(w, j, r)
             \/ Execute(w) \/ BeatWhileWorking(w) \/ WatchdogBeat(w)
      PROVE  FALSE
  <2>1. ~ClaimJob(w) /\ ~FinishJob(w) /\ ~SuspendJob(w)
    <3>1. ~ClaimJob(w)
      BY <1>2, <1>3 DEF ClaimJob
    <3>2. ~FinishJob(w)
      BY <1>2, <1>3 DEF FinishJob
    <3>3. ~SuspendJob(w)
      BY <1>2, <1>3 DEF SuspendJob
    <3>4. QED
      BY <3>1, <3>2, <3>3
  <2>2. ~HandleUnexpected(w)
    <3>1. HandleUnexpected(w) =>
            \/ st' = st \/ st' = [st EXCEPT ![task[w].job] = "QUEUED"]
            \/ st' = [st EXCEPT ![task[w].job] = "FAILED"]
      BY DEF HandleUnexpected
    <3>2. QED
      BY <1>2, <1>3, <3>1
  <2>3. QED
    BY <1>2, <1>7, <2>1, <2>2
    DEF Deliver, Execute, CheckControl, ClaimNextItem, Dispatch, Convert, LoadSource,
        VerifySource, StageSource, PublishSource, MarkReady, DoWork, FinishItem, HueyRetry,
        BeatWhileWorking, WatchdogBeat
<1>8. ASSUME NEW s \in Source, Inventory(s)
      PROVE  FALSE
  BY <1>2, <1>8 DEF Inventory, SourceChanged, SourceRemoved, SourceAdded
<1>9. QED
  BY <1>1, <1>4, <1>6, <1>7, <1>8 DEF Next, DeleteAllJobs

LEMMA RowsStep ==
  ASSUME TypeOK, SavedClaims, NoRowNoItems, [Next]_vars
  PROVE  NoRowNoItems'
<1> SUFFICES ASSUME NEW i \in Job, st'[i] = "NONE", NEW k \in Slot
             PROVE  ist'[i][k] = "NONE"
  BY DEF NoRowNoItems
<1>1. CASE st[i] # "NONE"
  BY <1>1, RowGone
<1>2. CASE st[i] = "NONE"
  <2>1. ist[i][k] = "NONE"
    BY <1>2 DEF NoRowNoItems
  <2>2. ASSUME NEW j \in Job, Creates(j)
        PROVE  ist'[i][k] = "NONE"
    <3>1. i # j
      BY <2>2 DEF Creates, Inserted, InsertJob, TypeOK
    <3>2. QED
      BY <2>1, <2>2, <3>1 DEF Creates, Inserted, InsertJob, TypeOK
  <2>3. ASSUME NEW j \in Job, Releases(j)
        PROVE  ist'[i][k] = "NONE"
    BY <2>1, <2>3, RequeueFacts DEF Releases
  <2>4. CASE Undoes
    <3>1. web.job \in Job
      BY <2>4 DEF Undoes, UndoCreate, SavedClaims
    <3>2. QED
      BY <2>1, <2>4, <3>1 DEF Undoes, UndoCreate, TypeOK
  <2>5. ASSUME NEW w \in Worker, Threads(w)
        PROVE  ist'[i][k] = "NONE"
    BY <1>2, <2>1, <2>5, ThreadItems DEF Exists
  <2>6. CASE Deletes
    BY <2>1, <2>6 DEF Deletes, DropJobs
  <2>7. ist' = ist => ist'[i][k] = "NONE"
    BY <2>1
  <2>8. QED
    BY <2>2, <2>3, <2>4, <2>5, <2>6, <2>7, SourceKinds
    DEF Rests, WorkerCrash, SourceRemoved, Works, itemVars
<1>3. QED
  BY <1>1, <1>2

LEMMA NamedStep ==
  ASSUME TypeOK, OnlyConversionsNameSources, [Next]_vars
  PROVE  OnlyConversionsNameSources'
<1>1. ASSUME kind' = kind,
             \A j \in Job, k \in Slot : isrc'[j][k] # Null => isrc'[j][k] = isrc[j][k]
      PROVE  OnlyConversionsNameSources'
  BY <1>1 DEF OnlyConversionsNameSources
<1>2. ASSUME NEW j \in Job, Creates(j)
      PROVE  OnlyConversionsNameSources'
  <2>1. PICK k, f, status, order : Inserted(j, k, f, status, order)
    BY <1>2 DEF Creates
  <2>2. /\ kind'[j] = k /\ isrc'[j] = order
        /\ \A i \in Job \ {j} : kind'[i] = kind[i] /\ isrc'[i] = isrc[i]
    BY <2>1 DEF Inserted, InsertJob, TypeOK
  <2>3. QED
    BY <2>1, <2>2 DEF Inserted, OnlyConversionsNameSources
<1>3. UNCHANGED <<isrc, kind>> => OnlyConversionsNameSources'
  BY DEF OnlyConversionsNameSources
<1>4. CASE Deletes \/ \E s \in Source : SourceRemoved(s)
  BY <1>1, <1>4 DEF Deletes, DropJobs, SourceRemoved, jobVars
<1>5. QED
  BY <1>2, <1>3, <1>4, SourceKinds, ThreadEffects
  DEF Rests, Releases, Undoes, WorkerCrash, Works, jobVars, itemVars

-----------------------------------------------------------------------------
(* A source that waits as QUEUED, under every request and fault.           *)

\* A thread has an outcome for item k of job j, and has yet to write it.
Finishing(j, k) ==
  \E w \in Worker : task[w].job = j /\ task[w].slot = k /\ pc[w] \in {"done", "failed"}

\* A thread that works has an item, and works on the source the item names.
HeldSource ==
  \A w \in Worker :
    LET j == task[w].job  k == task[w].slot IN
    /\ pc[w] \in Holding \ {"suspend"} => k \in Slot
    /\ pc[w] \in Holding /\ k \in Slot /\ ist[j][k] = "RUNNING" =>
         /\ isrc[j][k] \in {task[w].src, Null}
         /\ pc[w] \in {"generate", "fake"} => isrc[j][k] = Null

\* The item of a QUEUED source is not about to be closed.
WaitingItem(s, j, k) ==
  /\ isrc[j][k] = s /\ ist[j][k] \in Unfinished
  /\ ~(ist[j][k] = "RUNNING" /\ Finishing(j, k))
QueuedWaits ==
  \A s \in Source : conv[s] = "QUEUED" => \E j \in Job, k \in Slot : WaitingItem(s, j, k)

\* The inductive invariant of QueuedSourceHasItem.
QueuedInv ==
  NoRowNoItems /\ OnlyConversionsNameSources /\ SavedClaims /\ HeldSource /\ QueuedWaits

LEMMA HeldSourceStep ==
  ASSUME TypeOK, BusyThreadHasJob, OneRunPerJob, QueuedInv, [Next]_vars
  PROVE  HeldSource'
<1> DEFINE Held(w) ==
      LET j == task[w].job  k == task[w].slot IN
      /\ pc[w] \in Holding \ {"suspend"} => k \in Slot
      /\ pc[w] \in Holding /\ k \in Slot /\ ist[j][k] = "RUNNING" =>
           /\ isrc[j][k] \in {task[w].src, Null}
           /\ pc[w] \in {"generate", "fake"} => isrc[j][k] = Null
<1>1. \A w \in Worker : Held(w)
  BY DEF QueuedInv, HeldSource
<1>2. SUFFICES \A w \in Worker : Held(w)'
  BY DEF HeldSource
<1>3. \A w \in Worker : pc[w] \in Holding => task[w].job \in Job /\ InRun(w, task[w].job)
  BY HolderIsInRun
\* A thread that stays where it is, while items close and sources go.
<1>4. ASSUME NEW w \in Worker, pc'[w] = pc[w], task'[w] = task[w],
             \A j \in Job, k \in Slot : ist'[j][k] = "RUNNING" =>
               /\ ist[j][k] = "RUNNING" \/ ~InRun(w, j)
               /\ isrc'[j][k] \in {isrc[j][k], Null}
      PROVE  Held(w)'
  BY <1>1, <1>3, <1>4
<1>5. CASE Rests
  BY <1>4, <1>5 DEF Rests
<1>6. ASSUME NEW j \in Job, Creates(j)
      PROVE  \A w \in Worker : Held(w)'
  <2>1. /\ \A i \in Job \ {j} : ist'[i] = ist[i] /\ isrc'[i] = isrc[i]
        /\ \A k \in Slot : ist'[j][k] # "RUNNING"
        /\ UNCHANGED <<pc, task>>
    BY <1>6 DEF Creates, Inserted, InsertJob, TypeOK
  <2>2. QED
    BY <1>4, <2>1
<1>7. ASSUME NEW j \in Job, Releases(j)
      PROVE  \A w \in Worker : Held(w)'
  BY <1>4, <1>7, RequeueFacts DEF Releases
<1>8. CASE Deletes
  <2>1. PICK D \in SUBSET Job : DropJobs(D)
    BY <1>8 DEF Deletes
  <2>2. QED
    BY <1>4, <2>1 DEF DropJobs, workerVars
<1>9. CASE Undoes
  <2>1. web.job \in Job
    BY <1>9 DEF Undoes, UndoCreate, QueuedInv, SavedClaims
  <2>2. QED
    BY <1>4, <1>9, <2>1 DEF Undoes, UndoCreate, TypeOK
<1>10. CASE WorkerCrash
  BY <1>10 DEF WorkerCrash, Holding, Processing
<1>11. ASSUME NEW s \in Source, SourceRemoved(s)
       PROVE  \A w \in Worker : Held(w)'
  BY <1>4, <1>11 DEF SourceRemoved, workerVars
<1>12. ASSUME NEW w \in Worker, Works(w)
       PROVE  \A v \in Worker : Held(v)'
  <2>1. PICK label \in Holding :
          /\ Goto(w, label)
          /\ label \in {"generate", "fake"} =>
               pc[w] = label \/ (pc[w] = "dispatch" /\ kind[task[w].job] # "conversion")
    BY <1>12 DEF Works
  <2>2. /\ pc'[w] = label /\ \A v \in Worker \ {w} : pc'[v] = pc[v]
        /\ UNCHANGED <<ist, isrc, task>> /\ pc[w] \in Processing
    BY <1>12, <2>1 DEF Works, Goto, TypeOK
  <2>3. \A v \in Worker \ {w} : Held(v)'
    BY <1>4, <2>2
  <2>4. task[w].job \in Job /\ pc[w] \in Holding \ {"suspend"}
    BY <1>3, <2>2 DEF Holding, Processing
  <2>5. kind[task[w].job] # "conversion" => \A k \in Slot : isrc[task[w].job][k] = Null
    BY <2>4 DEF QueuedInv, OnlyConversionsNameSources
  <2>6. Held(w)'
    BY <1>1, <2>1, <2>2, <2>4, <2>5
  <2>7. QED
    BY <2>3, <2>6
<1>13. ASSUME NEW w \in Worker, Threads(w)
       PROVE  \A v \in Worker : Held(v)'
  <2>1. UNCHANGED <<isrc, kind>> /\ \A v \in Worker \ {w} : pc'[v] = pc[v] /\ task'[v] = task[v]
    BY <1>13, ThreadEffects, ThreadFrame
  <2>2. ASSUME NEW j \in Job, NEW k \in Slot, ist'[j][k] = "RUNNING", ist[j][k] # "RUNNING",
               NEW v \in Worker \ {w}
        PROVE  ~InRun(v, j)
    <3>1. ClaimNextItem(w) /\ j = task[w].job
      BY <1>13, <2>2, ThreadItems DEF Terminal
    <3>2. InRun(w, j)
      BY <3>1 DEF ClaimNextItem, InRun
    <3>3. QED
      BY <3>2 DEF OneRunPerJob
  <2>3. \A v \in Worker \ {w} : Held(v)'
    BY <1>4, <2>1, <2>2
  <2>4. Held(w)'
    BY <1>13, <2>1, ThreadEffects, JobQueueConstants
  <2>5. QED
    BY <2>3, <2>4
<1>14. QED
  BY <1>5, <1>6, <1>7, <1>8, <1>9, <1>10, <1>11, <1>12, <1>13, SourceKinds

LEMMA QueuedWaitsStep ==
  ASSUME TypeOK, BusyThreadHasJob, OneRunPerJob, QueuedInv, [Next]_vars
  PROVE  QueuedWaits'
<1> SUFFICES ASSUME NEW s \in Source, conv'[s] = "QUEUED"
             PROVE  \E j \in Job, k \in Slot : WaitingItem(s, j, k)'
  BY DEF QueuedWaits
<1> DEFINE Waits == \E j \in Job, k \in Slot : WaitingItem(s, j, k)'
<1> SUFFICES Waits
  OBVIOUS
<1>1. conv[s] = "QUEUED" => \E j \in Job, k \in Slot : WaitingItem(s, j, k)
  BY DEF QueuedInv, QueuedWaits
<1>2. ASSUME UNCHANGED <<pc, task>>
      PROVE  \A j \in Job, k \in Slot : Finishing(j, k)' = Finishing(j, k)
  BY <1>2 DEF Finishing
<1>3. ASSUME NEW j \in Job, NEW k \in Slot, WaitingItem(s, j, k), isrc'[j][k] = s,
             Finishing(j, k)' => Finishing(j, k),
             ist'[j][k] = ist[j][k] \/ ist'[j][k] = "QUEUED"
      PROVE  Waits
  BY <1>3 DEF WaitingItem, Unfinished
<1>4. ASSUME NEW j \in Job, NEW k \in Slot, isrc'[j][k] = s, ist'[j][k] = "QUEUED"
      PROVE  Waits
  BY <1>4 DEF WaitingItem, Unfinished
<1> HIDE DEF Waits
<1>5. CASE Rests
  BY <1>1, <1>2, <1>3, <1>5 DEF Rests, Claimed, WaitingItem
<1>6. ASSUME NEW j \in Job, Creates(j)
      PROVE  Waits
  <2>1. PICK k, f, status, order : Inserted(j, k, f, status, order)
    BY <1>6 DEF Creates
  <2>2. st[j] = "NONE" /\ UNCHANGED <<pc, task>>
    BY <1>6, JobQueueConstants DEF Creates, IsNextId, Exists
  <2>3. /\ isrc'[j] = order /\ ist'[j] = [i \in Slot |-> IF f[i] THEN "QUEUED" ELSE "NONE"]
        /\ \A i \in Job \ {j} : ist'[i] = ist[i] /\ isrc'[i] = isrc[i]
    BY <2>1 DEF Inserted, InsertJob, TypeOK
  <2>4. CASE conv[s] = "QUEUED"
    <3>1. PICK i \in Job, h \in Slot : WaitingItem(s, i, h)
      BY <1>1, <2>4
    <3>2. i # j
      BY <2>2, <3>1 DEF WaitingItem, QueuedInv, NoRowNoItems, Unfinished
    <3>3. QED
      BY <1>2, <1>3, <2>2, <2>3, <3>1, <3>2 DEF WaitingItem
  <2>5. CASE conv[s] # "QUEUED"
    <3>1. PICK h \in Slot : order[h] = s /\ f[h]
      BY <2>1, <2>5, JobQueueConstants DEF Inserted, Claimed
    <3>2. QED
      BY <1>4, <2>3, <3>1
  <2>6. QED
    BY <2>4, <2>5
<1>7. ASSUME NEW j \in Job, Releases(j)
      PROVE  Waits
  <2>1. /\ UNCHANGED <<isrc, pc, task>>
        /\ \A i \in Job, k \in Slot :
             ist'[i][k] = IF i = j /\ ist[i][k] = "RUNNING" THEN "QUEUED" ELSE ist[i][k]
    BY <1>7, RequeueFacts DEF Releases
  <2>2. CASE conv[s] = "QUEUED"
    BY <1>1, <1>2, <1>3, <2>1, <2>2 DEF WaitingItem
  <2>3. CASE conv[s] # "QUEUED"
    <3>1. \E k \in Slot : ist[j][k] = "RUNNING" /\ isrc[j][k] = s
      BY <1>7, <2>3 DEF Releases, ReleaseSources
    <3>2. QED
      BY <1>4, <2>1, <3>1
  <2>4. QED
    BY <2>2, <2>3
<1>8. CASE Deletes
  <2>1. PICK D \in SUBSET Job : DropJobs(D)
    BY <1>8 DEF Deletes
  <2>2. conv[s] = "QUEUED" /\ \A j \in D : \A k \in OpenItems(j) : isrc[j][k] # s
    BY <2>1 DEF DropJobs, FailSources
  <2>3. PICK j \in Job, k \in Slot : WaitingItem(s, j, k)
    BY <1>1, <2>2
  <2>4. j \notin D
    BY <2>2, <2>3 DEF WaitingItem, OpenItems
  <2>5. QED
    BY <1>2, <1>3, <2>1, <2>3, <2>4 DEF DropJobs, WaitingItem, workerVars
<1>9. CASE Undoes
  <2>1. /\ web.job \in Job /\ UNCHANGED <<isrc, pc, task>>
        /\ \A i \in Job \ {web.job} : ist'[i] = ist[i]
        /\ \A k \in Slot : isrc[web.job][k] # Null => web.saved[isrc[web.job][k]] # "GONE"
    BY <1>9 DEF Undoes, UndoCreate, QueuedInv, SavedClaims, TypeOK
  <2>2. conv[s] = "QUEUED" /\ web.saved[s] = "GONE"
    BY <1>9 DEF Undoes, UndoCreate, QueuedInv, SavedClaims
  <2>3. PICK j \in Job, k \in Slot : WaitingItem(s, j, k)
    BY <1>1, <2>2
  <2>4. j # web.job
    BY <2>1, <2>2, <2>3, JobQueueConstants DEF WaitingItem
  <2>5. QED
    BY <1>2, <1>3, <2>1, <2>3, <2>4 DEF WaitingItem
<1>10. CASE WorkerCrash
  <2>1. \A j \in Job, k \in Slot : ~Finishing(j, k)'
    BY <1>10 DEF WorkerCrash, Finishing
  <2>2. QED
    BY <1>1, <1>3, <1>10, <2>1 DEF WorkerCrash, WaitingItem, itemVars
<1>11. ASSUME NEW r \in Source, SourceRemoved(r)
       PROVE  Waits
  <2>1. r # s /\ conv[s] = "QUEUED"
    BY <1>11 DEF SourceRemoved, TypeOK
  <2>2. QED
    BY <1>1, <1>2, <1>3, <1>11, <2>1 DEF SourceRemoved, WaitingItem, workerVars
<1>12. ASSUME NEW w \in Worker, Works(w)
       PROVE  Waits
  <2> DEFINE j0 == task[w].job  k0 == task[w].slot
  <2>1. conv[s] = "QUEUED" /\ UNCHANGED <<ist, isrc, task>>
    BY <1>12 DEF Works, Claimed
  <2>2. PICK j \in Job, k \in Slot : WaitingItem(s, j, k)
    BY <1>1, <2>1
  <2>3. CASE Finishing(j, k)' => Finishing(j, k)
    BY <1>3, <2>1, <2>2, <2>3 DEF WaitingItem
  <2>4. CASE Finishing(j, k)' /\ ~Finishing(j, k)
    <3>1. /\ j0 = j /\ k0 = k /\ pc'[w] \in {"done", "failed"}
          /\ pc[w] \in Holding
      BY <1>12, <2>1, <2>4 DEF Works, Goto, Finishing, Holding, TypeOK
    <3>2. \/ task[w].src \notin Source \/ conv'[task[w].src] \notin Claimed
          \/ pc[w] \in {"generate", "fake"} \/ ~Exists(j0)
      BY <1>12, <3>1 DEF Works, Goto, TypeOK
    <3>3. ist[j][k] # "RUNNING"
      <4>1. SUFFICES ASSUME ist[j][k] = "RUNNING" PROVE FALSE
        OBVIOUS
      <4>2. Exists(j)
        BY <4>1 DEF QueuedInv, NoRowNoItems, Exists
      <4>3. isrc[j][k] \in {task[w].src, Null} /\ pc[w] \notin {"generate", "fake"} /\ s # Null
        BY <2>2, <3>1, <4>1, JobQueueConstants DEF QueuedInv, HeldSource, WaitingItem
      <4>4. QED
        BY <2>2, <3>1, <3>2, <4>2, <4>3 DEF WaitingItem, Claimed
    <3>4. QED
      BY <2>1, <2>2, <3>3 DEF WaitingItem, Waits
  <2>5. QED
    BY <2>3, <2>4
<1>13. ASSUME NEW w \in Worker, Threads(w)
       PROVE  Waits
  <2>1. /\ UNCHANGED <<isrc, kind>>
        /\ \A v \in Worker \ {w} : pc'[v] = pc[v] /\ task'[v] = task[v]
        /\ pc'[w] \notin {"done", "failed"}
    BY <1>13, ThreadEffects, ThreadFrame DEF Holding
  <2>2. \A j \in Job, k \in Slot : Finishing(j, k)' => Finishing(j, k)
    BY <2>1 DEF Finishing
  <2>3. CASE conv[s] = "QUEUED"
    <3>1. PICK j \in Job, k \in Slot : WaitingItem(s, j, k)
      BY <1>1, <2>3
    <3>2. isrc'[j][k] = s
      BY <2>1, <3>1 DEF WaitingItem
    <3>3. CASE ist'[j][k] = ist[j][k] \/ ist'[j][k] = "QUEUED"
      BY <1>3, <2>2, <3>1, <3>2, <3>3
    <3>4. CASE ClaimNextItem(w) /\ ist'[j][k] = "RUNNING" /\ j = task[w].job
      <4>1. InRun(w, j) /\ pc[w] = "next"
        BY <3>4 DEF ClaimNextItem, InRun
      <4>2. ~Finishing(j, k)
        BY <4>1 DEF Finishing, OneRunPerJob, InRun
      <4>3. QED
        BY <2>2, <3>2, <3>4, <4>2 DEF WaitingItem, Waits, Unfinished
    <3>5. CASE FinishItem(w) /\ ist[j][k] = "RUNNING" /\ j = task[w].job /\ task[w].slot = k
      BY <3>1, <3>5 DEF WaitingItem, Finishing, FinishItem
    <3>6. CASE /\ ist'[j][k] = "FAILED"
               /\ kind[j] = "conversion" /\ isrc[j][k] = s => conv'[s] = ist'[j][k]
      <4>1. isrc[j][k] = s /\ s # Null
        BY <3>1, JobQueueConstants DEF WaitingItem
      <4>2. kind[j] = "conversion"
        BY <4>1 DEF QueuedInv, OnlyConversionsNameSources
      <4>3. QED
        BY <3>6, <4>1, <4>2
    <3>7. QED
      BY <1>13, <3>3, <3>4, <3>5, <3>6, ThreadItems
  <2>4. CASE conv[s] # "QUEUED"
    <3> DEFINE j == task[w].job  k == task[w].slot
    <3>1. CASE SuspendJob(w)
      <4>1. /\ k # Null /\ ist' = [ist EXCEPT ![j][k] = "QUEUED"] /\ isrc[j][k] = s
            /\ pc[w] = "suspend"
        BY <2>4, <3>1 DEF SuspendJob
      <4>2. j \in Job /\ k \in Slot
        BY <4>1 DEF BusyThreadHasJob, TypeOK, TaskRecord
      <4> HIDE DEF j, k
      <4>3. ist'[j][k] = "QUEUED"
        BY <4>1, <4>2 DEF TypeOK
      <4>4. QED
        BY <1>4, <2>1, <4>1, <4>2, <4>3
    <3>2. CASE HandleUnexpected(w)
      <4>1. /\ ist' = [ist EXCEPT ![j][k] = "QUEUED"] /\ isrc[j][k] = s
            /\ pc[w] = "unexpected"
        BY <2>4, <3>2 DEF HandleUnexpected
      <4>2. j \in Job /\ k \in Slot
        BY <4>1 DEF BusyThreadHasJob, QueuedInv, HeldSource, Holding
      <4> HIDE DEF j, k
      <4>3. ist'[j][k] = "QUEUED"
        BY <4>1, <4>2 DEF TypeOK
      <4>4. QED
        BY <1>4, <2>1, <4>1, <4>2, <4>3
    <3>3. CASE conv' = conv
      BY <2>4, <3>3
    <3>4. QED
      BY <1>13, <3>1, <3>2, <3>3
      DEF Threads, Deliver, ClaimJob, CheckControl, ClaimNextItem, FinishJob, FinishItem,
          HueyRetry, SessionFails
  <2>5. QED
    BY <2>3, <2>4
<1>14. QED
  BY <1>5, <1>6, <1>7, <1>8, <1>9, <1>10, <1>11, <1>12, <1>13, SourceKinds

\* No request that runs, restarts, stops, deletes or fails to hand over a job leaves a
\* source QUEUED that no unfinished item names: under every request and fault of the
\* model, with one consumer thread, or with any number while the claim is a lock.
THEOREM QueuedSourceHasItemHolds ==
  ASSUME Alone \/ Undisturbed
  PROVE  Spec => []QueuedSourceHasItem
<1>1. Init => QueuedInv
  BY DEF Init, QueuedInv, NoRowNoItems, OnlyConversionsNameSources, SavedClaims, HeldSource,
         QueuedWaits, WebAt, NoClaims, Holding, Processing
<1>2. TypeOK /\ BusyThreadHasJob /\ OneRunPerJob /\ QueuedInv /\ [Next]_vars => QueuedInv'
  BY RowsStep, NamedStep, SavedStep, HeldSourceStep, QueuedWaitsStep DEF QueuedInv
<1>3. QueuedInv => QueuedSourceHasItem
  BY DEF QueuedInv, QueuedWaits, WaitingItem, QueuedSourceHasItem, OpenItems
<1>4. Spec => []OneRunPerJob
  BY OneRunEither
<1>5. QED
  BY <1>1, <1>2, <1>3, <1>4, TypedAndBusy, PTL DEF Spec

-----------------------------------------------------------------------------
(* A source that is QUEUED or CONVERTING.                                  *)

\* No hand-over is refused, no job deleted and no source removed: a source that is
\* removed and added again under its old key is marked by a thread that still works on
\* the one that is gone.
Undeleted == Guarded /\ "remove" \notin Env

OwningItem(s, j, k) == isrc[j][k] = s /\ ist[j][k] \in Unfinished /\ ~Finishing(j, k)
Owned == \A s \in Source : conv[s] \in Claimed => \E j \in Job, k \in Slot : OwningItem(s, j, k)

\* A thread works on the source its item names, and without a source outside conversions.
WorksOnItsItem ==
  \A w \in Worker :
    /\ HasItem(w) => task[w].src = isrc[task[w].job][task[w].slot]
    /\ pc[w] \in {"generate", "fake"} => kind[task[w].job] # "conversion"

\* The inductive invariant of ClaimedSourceIsOwned.  It is stronger: the source is named
\* by an unfinished item that no thread is about to close; a thread that works on the
\* source is one that holds that item.
OwnedInv == OnlyConversionsNameSources /\ WorksOnItsItem /\ Owned

LEMMA CreatedIsFree ==
  ASSUME Basis, NEW j \in Job, Creates(j)
  PROVE  /\ st[j] = "NONE" /\ \A w \in Worker : ~InRun(w, j)
         /\ \A w \in Worker : pc[w] \in Holding => task[w].job \in Job \ {j}
<1>1. st[j] = "NONE"
  BY JobQueueConstants DEF Creates, IsNextId, Exists
<1>2. \A w \in Worker : ~InRun(w, j)
  BY <1>1 DEF Basis, ItemInv, RunIsOpen, Unfinished
<1>3. QED
  BY <1>1, <1>2, HolderIsInRun DEF Basis

LEMMA WorksOnItsItemStep ==
  ASSUME Undeleted, Basis, OwnedInv, [Next]_vars
  PROVE  WorksOnItsItem'
<1> DEFINE Right(w) ==
      /\ HasItem(w) => task[w].src = isrc[task[w].job][task[w].slot]
      /\ pc[w] \in {"generate", "fake"} => kind[task[w].job] # "conversion"
<1>1. \A w \in Worker : Right(w)
  BY DEF OwnedInv, WorksOnItsItem
<1>2. SUFFICES \A w \in Worker : Right(w)'
  BY DEF WorksOnItsItem
<1>3. CASE Rests \/ \E j \in Job : Releases(j)
  BY <1>1, <1>3 DEF Rests, Releases, HasItem
<1>4. ASSUME NEW j \in Job, Creates(j)
      PROVE  \A w \in Worker : Right(w)'
  <2>1. /\ UNCHANGED <<pc, task>>
        /\ \A i \in Job \ {j} : isrc'[i] = isrc[i] /\ kind'[i] = kind[i]
    BY <1>4 DEF Creates, Inserted, InsertJob, Basis, TypeOK
  <2>2. \A w \in Worker : HasItem(w) \/ pc[w] \in {"generate", "fake"} => task[w].job \in Job \ {j}
    BY <1>4, CreatedIsFree DEF HasItem, Holding, Processing
  <2>3. QED
    BY <1>1, <2>1, <2>2 DEF HasItem
<1>5. CASE WorkerCrash
  BY <1>5 DEF WorkerCrash, HasItem, Holding, Processing
<1>6. ASSUME NEW w \in Worker, Works(w)
      PROVE  \A v \in Worker : Right(v)'
  <2>1. PICK label \in Holding :
          /\ Goto(w, label)
          /\ label \in {"generate", "fake"} =>
               pc[w] = label \/ (pc[w] = "dispatch" /\ kind[task[w].job] # "conversion")
    BY <1>6 DEF Works
  <2>2. /\ pc'[w] = label /\ \A v \in Worker \ {w} : pc'[v] = pc[v]
        /\ UNCHANGED <<isrc, kind, task>> /\ HasItem(w)
    BY <1>6, <2>1 DEF Works, Goto, Basis, TypeOK, HasItem, Holding, Processing
  <2>3. QED
    BY <1>1, <2>1, <2>2 DEF HasItem
<1>7. ASSUME NEW w \in Worker, Threads(w)
      PROVE  \A v \in Worker : Right(v)'
  <2>1. UNCHANGED <<isrc, kind>> /\ \A v \in Worker \ {w} : pc'[v] = pc[v] /\ task'[v] = task[v]
    BY <1>7, ThreadEffects, ThreadFrame DEF Basis
  <2>2. Right(w)'
    <3>1. "generate" \in Holding /\ "fake" \in Holding
      BY DEF Holding, Processing
    <3>2. QED
      BY <1>7, <2>1, <3>1, ThreadEffects DEF Basis, HasItem
  <2>3. QED
    BY <1>1, <2>1, <2>2 DEF HasItem
<1>8. ~Deletes /\ ~Undoes /\ \A s \in Source : ~SourceRemoved(s)
  BY DEF Undeleted, Guarded, Basis, Deletes, Undoes, SourceRemoved
<1>9. QED
  BY <1>3, <1>4, <1>5, <1>6, <1>7, <1>8, SourceKinds DEF Basis

LEMMA OwnedStep ==
  ASSUME Undeleted, Basis, OwnedInv, [Next]_vars
  PROVE  Owned'
<1> SUFFICES ASSUME NEW s \in Source, conv'[s] \in Claimed
             PROVE  \E j \in Job, k \in Slot : OwningItem(s, j, k)'
  BY DEF Owned
<1> DEFINE Kept == \E j \in Job, k \in Slot : OwningItem(s, j, k)'
<1> SUFFICES Kept
  OBVIOUS
<1>0. s # Null
  BY JobQueueConstants
<1>1. conv[s] \in Claimed => \E j \in Job, k \in Slot : OwningItem(s, j, k)
  BY DEF OwnedInv, Owned
<1>2. ASSUME NEW j \in Job, NEW k \in Slot, isrc'[j][k] = s, ist'[j][k] \in Unfinished,
             ~Finishing(j, k)'
      PROVE  Kept
  BY <1>2 DEF OwningItem
<1>3. ASSUME UNCHANGED <<pc, task>>
      PROVE  \A j \in Job, k \in Slot : Finishing(j, k)' = Finishing(j, k)
  BY <1>3 DEF Finishing
<1> HIDE DEF Kept
<1>4. CASE Rests
  BY <1>1, <1>2, <1>3, <1>4 DEF Rests, OwningItem
<1>5. ASSUME NEW j \in Job, Creates(j)
      PROVE  Kept
  <2>1. PICK k, f, status, order : Inserted(j, k, f, status, order)
    BY <1>5 DEF Creates
  <2>2. st[j] = "NONE" /\ UNCHANGED <<pc, task>> /\ \A w \in Worker : ~InRun(w, j)
    BY <1>5, CreatedIsFree DEF Creates
  <2>3. /\ isrc'[j] = order /\ ist'[j] = [i \in Slot |-> IF f[i] THEN "QUEUED" ELSE "NONE"]
        /\ \A i \in Job \ {j} : ist'[i] = ist[i] /\ isrc'[i] = isrc[i]
    BY <2>1 DEF Inserted, InsertJob, Basis, TypeOK
  <2>4. CASE conv[s] \in Claimed
    <3>1. PICK i \in Job, h \in Slot : OwningItem(s, i, h)
      BY <1>1, <2>4
    <3>2. i # j
      BY <2>2, <3>1 DEF OwningItem, Basis, ItemInv, NoRowNoItems, Unfinished
    <3>3. QED
      BY <1>2, <1>3, <2>2, <2>3, <3>1, <3>2 DEF OwningItem
  <2>5. CASE conv[s] \notin Claimed
    <3>1. PICK h \in Slot : order[h] = s /\ f[h]
      BY <1>0, <2>1, <2>5 DEF Inserted
    <3>2. ~Finishing(j, h)
      BY <2>2 DEF Finishing, InRun
    <3>3. QED
      BY <1>2, <1>3, <2>2, <2>3, <3>1, <3>2 DEF Unfinished
  <2>6. QED
    BY <2>4, <2>5
<1>6. ASSUME NEW j \in Job, Releases(j)
      PROVE  Kept
  <2>1. /\ UNCHANGED <<isrc, pc, task>>
        /\ \A i \in Job, k \in Slot :
             ist'[i][k] = IF i = j /\ ist[i][k] = "RUNNING" THEN "QUEUED" ELSE ist[i][k]
    BY <1>6, RequeueFacts DEF Releases, Basis
  <2>2. conv[s] \in Claimed
    BY <1>6 DEF Releases, ReleaseSources, Claimed
  <2>3. QED
    BY <1>1, <1>2, <1>3, <2>1, <2>2 DEF OwningItem, Unfinished
<1>7. CASE WorkerCrash
  <2>1. \A j \in Job, k \in Slot : ~Finishing(j, k)'
    BY <1>7 DEF WorkerCrash, Finishing
  <2>2. QED
    BY <1>1, <1>2, <1>7, <2>1 DEF WorkerCrash, OwningItem, itemVars
<1>8. ASSUME NEW w \in Worker, Works(w)
      PROVE  Kept
  <2> DEFINE j == task[w].job  k == task[w].slot
  <2>1. /\ UNCHANGED <<ist, isrc, task>> /\ pc[w] \in Processing
        /\ \A v \in Worker \ {w} : pc'[v] = pc[v]
    BY <1>8 DEF Works, Goto, Basis, TypeOK
  <2>2. HasItem(w) /\ j \in Job /\ InRun(w, j)
    BY <2>1, HolderIsInRun DEF Basis, HasItem, Holding, Processing
  <2>3. /\ k \in Slot /\ ist[j][k] \in Unfinished /\ isrc[j][k] = task[w].src
        /\ Exists(j)
    BY <2>2 DEF Basis, ItemInv, HeldIsOpen, RunIsOpen, OwnedInv, WorksOnItsItem, Exists, Unfinished
  <2>4. CASE pc'[w] \in {"done", "failed"}
    <3>1. task[w].src # s /\ conv'[s] = conv[s]
      <4>1. \/ task[w].src \notin Source \/ conv'[task[w].src] \notin Claimed
            \/ pc[w] \in {"generate", "fake"}
        BY <1>8, <2>3, <2>4 DEF Works, Goto, Basis, TypeOK
      <4>2. pc[w] \in {"generate", "fake"} => isrc[j][k] = Null
        BY <2>2, <2>3 DEF OwnedInv, WorksOnItsItem, OnlyConversionsNameSources
      <4>3. task[w].src # s
        BY <1>0, <2>3, <4>1, <4>2
      <4>4. QED
        BY <1>8, <4>3 DEF Works
    <3>2. PICK i \in Job, h \in Slot : OwningItem(s, i, h)
      BY <1>1, <3>1
    <3>3. ~(i = j /\ h = k)
      BY <2>3, <3>1, <3>2 DEF OwningItem
    <3>4. ~Finishing(i, h)'
      BY <2>1, <3>2, <3>3 DEF OwningItem, Finishing
    <3>5. QED
      BY <1>2, <2>1, <3>2, <3>4 DEF OwningItem
  <2>5. CASE pc'[w] \notin {"done", "failed"}
    <3>1. \A i \in Job, h \in Slot : Finishing(i, h)' => Finishing(i, h)
      BY <2>1, <2>5 DEF Finishing
    <3>2. CASE task[w].src = s
      <4>1. ~Finishing(j, k)
        BY <2>1, <2>2 DEF Finishing, Basis, OneRunPerJob, InRun, Processing
      <4>2. QED
        BY <1>2, <2>1, <2>2, <2>3, <3>1, <3>2, <4>1
    <3>3. CASE task[w].src # s
      <4>1. conv[s] \in Claimed
        BY <1>8, <3>3 DEF Works
      <4>2. QED
        BY <1>1, <1>2, <2>1, <3>1, <4>1 DEF OwningItem
    <3>4. QED
      BY <3>2, <3>3
  <2>6. QED
    BY <2>4, <2>5
<1>9. ASSUME NEW w \in Worker, Threads(w)
      PROVE  Kept
  <2>1. /\ UNCHANGED <<isrc, kind>>
        /\ \A v \in Worker \ {w} : pc'[v] = pc[v] /\ task'[v] = task[v]
        /\ pc'[w] \notin {"done", "failed"}
    BY <1>9, ThreadEffects, ThreadFrame DEF Basis, Holding
  <2>2. \A i \in Job, k \in Slot : Finishing(i, k)' => Finishing(i, k)
    BY <2>1 DEF Finishing
  <2>3. CASE conv[s] \in Claimed
    <3>1. PICK j \in Job, k \in Slot : OwningItem(s, j, k)
      BY <1>1, <2>3
    <3>2. ist'[j][k] \in Unfinished
      <4>1. SUFFICES ASSUME ist'[j][k] \notin Unfinished PROVE FALSE
        OBVIOUS
      <4>2. ist'[j][k] # ist[j][k] /\ kind[j] = "conversion" /\ isrc[j][k] = s
        BY <1>0, <3>1, <4>1 DEF OwningItem, OwnedInv, OnlyConversionsNameSources
      <4>3. ~(FinishItem(w) /\ j = task[w].job /\ task[w].slot = k)
        BY <3>1 DEF FinishItem, OwningItem, Finishing
      <4>4. conv'[s] = ist'[j][k]
        BY <1>9, <4>1, <4>2, <4>3, ThreadItems DEF Basis, Unfinished
      <4>5. QED
        BY <1>9, <4>1, <4>2, <4>3, <4>4, ThreadItems DEF Basis, Unfinished, Claimed
    <3>3. QED
      BY <1>2, <2>1, <2>2, <3>1, <3>2 DEF OwningItem
  <2>4. CASE conv[s] \notin Claimed
    <3> DEFINE j == task[w].job  k == task[w].slot
    <3>1. HandleUnexpected(w)
      BY <1>9, <2>4
      DEF Threads, Deliver, ClaimJob, CheckControl, ClaimNextItem, FinishJob, FinishItem,
          SuspendJob, HueyRetry, SessionFails, Claimed
    <3>2. /\ ist' = [ist EXCEPT ![j][k] = "QUEUED"] /\ isrc[j][k] = s
          /\ pc[w] = "unexpected"
      BY <2>4, <3>1 DEF HandleUnexpected, Claimed
    <3>3. HasItem(w) /\ j \in Job /\ InRun(w, j)
      BY <3>2, HolderIsInRun DEF Basis, HasItem, Holding
    <3>4. k \in Slot
      BY <3>3 DEF Basis, ItemInv, HeldIsOpen
    <3>5. ~Finishing(j, k)
      BY <3>2, <3>3 DEF Finishing, Basis, OneRunPerJob, InRun
    <3> HIDE DEF j, k
    <3>6. ist'[j][k] = "QUEUED"
      BY <3>2, <3>3, <3>4 DEF Basis, TypeOK
    <3>7. QED
      BY <1>2, <2>1, <2>2, <3>2, <3>3, <3>4, <3>5, <3>6 DEF Unfinished
  <2>5. QED
    BY <2>3, <2>4
<1>10. ~Deletes /\ ~Undoes /\ \A r \in Source : ~SourceRemoved(r)
  BY DEF Undeleted, Guarded, Basis, Deletes, Undoes, SourceRemoved
<1>11. QED
  BY <1>4, <1>5, <1>6, <1>7, <1>8, <1>9, <1>10, SourceKinds DEF Basis

\* A source that is QUEUED or CONVERTING, which no request can claim again, is named by
\* an unfinished item or in the hands of a thread: through pauses, stops, resumes,
\* restarts, crashes of both processes, expired leases, retries and changed files.
THEOREM ClaimedSourceIsOwnedHolds ==
  ASSUME Undeleted
  PROVE  Spec => []ClaimedSourceIsOwned
<1>1. Init => OwnedInv
  BY DEF Init, OwnedInv, OnlyConversionsNameSources, WorksOnItsItem, Owned, HasItem, Holding,
         Processing, Claimed
<1>2. Basis /\ OwnedInv /\ [Next]_vars => OwnedInv'
  BY NamedStep, WorksOnItsItemStep, OwnedStep DEF OwnedInv, Basis
<1>3. OwnedInv => ClaimedSourceIsOwned
  BY DEF OwnedInv, Owned, OwningItem, Claimed, ClaimedSourceIsOwned, OpenItems
<1>4. Spec => []Basis
  BY BasisHolds DEF Undeleted
<1>5. QED
  BY <1>1, <1>2, <1>3, <1>4, PTL DEF Spec

-----------------------------------------------------------------------------
(* Every ACTIVE unfinished job is on its way.                              *)

\* No hand-over is refused or lost between its commit and Huey: a request whose process
\* dies there leaves its job to the next start of the Worker, and a session that raises
\* to the next start of the Web process.
Delivers == Guarded /\ Env \intersect {"webcrash", "dberror"} = {}

Handed(j) == (\E r \in 0..Retries : pending[j][r] > 0) \/ (web.pc = "enqueue" /\ web.job = j)
Arriving(w, j) == task[w].job = j /\ (pc[w] = "claim" \/ (pc[w] = "requeue" /\ task[w].left > 0))
Coming(j) ==
  \/ Handed(j) \/ \E w \in Worker : Arriving(w, j)
  \/ boot.pc \in {"down", "reconcile"} \/ j \in boot.todo
Carried(j) ==
  \/ \E w \in Worker : InRun(w, j)
  \/ boot.pc = "down" \/ (boot.pc = "reconcile" /\ j \in boot.todo)

BootIsIdle == boot.pc # "up" => \A w \in Worker : pc[w] = "idle"
RunningIsCarried == \A j \in Job : st[j] = "RUNNING" => Carried(j)
QueuedIsComing == \A j \in Job : st[j] = "QUEUED" /\ ctl[j] = "ACTIVE" => Coming(j)

\* Who resumes a job before its run is over hands it over as well.
SuspendedIsHanded ==
  \A w \in Worker : pc[w] = "suspend" /\ ctl[task[w].job] = "ACTIVE" => Handed(task[w].job)

\* The inductive invariant.  It tells how each kind of job is on its way, so that the
\* end of a run, or of a reconciliation, leaves behind what the next one starts from.
WayInv == BootIsIdle /\ RunningIsCarried /\ QueuedIsComing /\ SuspendedIsHanded

\* Where several threads run, which is where no job is resumed: a run is suspended only
\* of a job that stays paused or stopped until the run is over.
Parted == \A w \in Worker : pc[w] = "suspend" => ctl[task[w].job] # "ACTIVE"

LEMMA DeliveredArrives ==
  ASSUME TypeOK, NEW j \in Job, NEW r \in 0..Retries, pending' = Delivered(j, r)
  PROVE  /\ pending'[j][r] > 0
         /\ \A i \in Job, q \in 0..Retries : pending[i][q] > 0 => pending'[i][q] > 0
<1>1. pending[j][r] \in Nat /\ MaxDeliveries \in Nat \ {0}
  BY JobQueueConstants DEF TypeOK
<1>2. pending'[j][r] = IF pending[j][r] < MaxDeliveries THEN pending[j][r] + 1 ELSE pending[j][r]
  BY DEF Delivered, TypeOK
<1>3. \A i \in Job, q \in 0..Retries : i # j \/ q # r => pending'[i][q] = pending[i][q]
  BY DEF Delivered, TypeOK
<1>4. QED
  BY <1>1, <1>2, <1>3

\* The threads and the Worker process stay as they are.
LEMMA StillKeepsWay ==
  ASSUME TypeOK, BusyThreadHasJob, WayInv, UNCHANGED workerVars,
         \A i \in Job : Handed(i) => Handed(i)',
         \A i \in Job : st'[i] = "RUNNING" => st[i] = "RUNNING",
         \A i \in Job : \/ Handed(i)'
                        \/ ctl'[i] # "ACTIVE"
                        \/ st'[i] = st[i] /\ ctl'[i] = ctl[i]
                        \/ st'[i] # "QUEUED" /\ \A w \in Worker : ~InRun(w, i)
  PROVE  WayInv'
<1> USE DEF workerVars
<1>1. BootIsIdle' /\ RunningIsCarried'
  BY DEF WayInv, BootIsIdle, RunningIsCarried, Carried, InRun
<1>2. QueuedIsComing'
  <2> SUFFICES ASSUME NEW j \in Job, st'[j] = "QUEUED", ctl'[j] = "ACTIVE" PROVE Coming(j)'
    BY DEF QueuedIsComing
  <2>1. CASE Handed(j)'
    BY <2>1 DEF Coming
  <2>2. CASE st'[j] = st[j] /\ ctl'[j] = ctl[j]
    <3>1. Coming(j)
      BY <2>2 DEF WayInv, QueuedIsComing
    <3>2. QED
      BY <3>1 DEF Coming, Arriving
  <2>3. QED
    BY <2>1, <2>2
<1>3. SuspendedIsHanded'
  <2> SUFFICES ASSUME NEW w \in Worker, pc[w] = "suspend", ctl'[task[w].job] = "ACTIVE"
               PROVE  Handed(task[w].job)'
    BY DEF SuspendedIsHanded, Handed
  <2>1. task[w].job \in Job /\ InRun(w, task[w].job)
    BY DEF BusyThreadHasJob, InRun
  <2>2. ctl[task[w].job] = "ACTIVE" => Handed(task[w].job)
    BY DEF WayInv, SuspendedIsHanded
  <2>3. QED
    BY <2>1, <2>2
<1>4. QED
  BY <1>1, <1>2, <1>3 DEF WayInv

\* A thread acts on its job j, and the Worker process is up.
LEMMA ThreadKeepsWay ==
  ASSUME BusyThreadHasJob, WayInv, NEW w \in Worker, pc[w] # "idle", NEW j \in Job, j = task[w].job,
         UNCHANGED <<ctl, boot, web>>,
         \A v \in Worker \ {w} : pc'[v] = pc[v] /\ task'[v] = task[v],
         \A i \in Job \ {j} : st'[i] = st[i],
         \A i \in Job : Handed(i) => Handed(i)',
         st'[j] = "RUNNING" => InRun(w, j)' \/ (st[j] = "RUNNING" /\ ~InRun(w, j)),
         st'[j] = "QUEUED" /\ ctl[j] = "ACTIVE" =>
           Handed(j)' \/ Arriving(w, j)' \/ (st[j] = "QUEUED" /\ ~Arriving(w, j)),
         pc'[w] = "suspend" =>
           task'[w].job = j /\ (pc[w] = "suspend" \/ ctl[j] # "ACTIVE")
  PROVE  WayInv'
<1>1. boot.pc = "up"
  BY DEF WayInv, BootIsIdle
<1>2. BootIsIdle'
  BY <1>1 DEF BootIsIdle
<1>3. RunningIsCarried'
  <2> SUFFICES ASSUME NEW i \in Job, st'[i] = "RUNNING" PROVE \E v \in Worker : InRun(v, i)'
    BY DEF RunningIsCarried, Carried
  <2>1. CASE st[i] = "RUNNING" /\ ~InRun(w, i)
    <3>1. PICK v \in Worker : InRun(v, i)
      BY <1>1, <2>1 DEF WayInv, RunningIsCarried, Carried
    <3>2. InRun(v, i)'
      BY <2>1, <3>1 DEF InRun
    <3>3. QED
      BY <3>2
  <2>2. InRun(w, i) => i = j
    BY DEF InRun
  <2>3. QED
    BY <2>1, <2>2
<1>4. QueuedIsComing'
  <2> SUFFICES ASSUME NEW i \in Job, st'[i] = "QUEUED", ctl[i] = "ACTIVE" PROVE Coming(i)'
    BY DEF QueuedIsComing
  <2>1. CASE Handed(i)' \/ Arriving(w, i)'
    BY <2>1 DEF Coming
  <2>2. CASE st[i] = "QUEUED" /\ ~Arriving(w, i)
    <3>1. Coming(i)
      BY <2>2 DEF WayInv, QueuedIsComing
    <3>2. \A v \in Worker : Arriving(v, i) => Arriving(v, i)'
      BY <2>2 DEF Arriving
    <3>3. QED
      BY <3>1, <3>2 DEF Coming
  <2>3. Arriving(w, i) => i = j
    BY DEF Arriving
  <2>4. QED
    BY <2>1, <2>2, <2>3
<1>5. SuspendedIsHanded'
  <2> SUFFICES ASSUME NEW v \in Worker, pc'[v] = "suspend", ctl[task'[v].job] = "ACTIVE"
               PROVE  Handed(task[v].job)'
    BY DEF SuspendedIsHanded
  <2>1. pc[v] = "suspend" /\ task'[v].job = task[v].job
    OBVIOUS
  <2>2. Handed(task[v].job)
    BY <2>1 DEF WayInv, SuspendedIsHanded
  <2>3. task[v].job \in Job
    BY <2>1 DEF BusyThreadHasJob
  <2>4. \A i \in Job : i = task'[v].job /\ Handed(i) => Handed(task[v].job)'
    BY DEF Handed
  <2>5. QED
    BY <2>1, <2>2, <2>3, <2>4
<1>6. QED
  BY <1>2, <1>3, <1>4, <1>5 DEF WayInv

\* A request, or a recovery, that hands its job over in a second step.
LEMMA AwaitingIsHanded ==
  ASSUME UNCHANGED pending, web.pc # "enqueue", NEW j, NEW op, NEW prev, NEW beat, NEW saved,
         AwaitEnqueue(j, op, prev, beat, saved)
  PROVE  Handed(j)' /\ \A i \in Job : Handed(i) => Handed(i)'
  BY DEF AwaitEnqueue, Handed

LEMMA RequestsKeepWay ==
  ASSUME Delivers, Basis, WayInv, NEW j \in Job, Request(j)
  PROVE  WayInv'
<1> USE DEF jobVars, itemVars, workerVars
<1>1. ASSUME UNCHANGED <<workerVars, pending>>,
             web'.pc = "enqueue" => web'.job = j,
             web' = web \/ web.pc # "enqueue",
             \A i \in Job \ {j} : st'[i] = st[i] /\ ctl'[i] = ctl[i],
             st'[j] = "RUNNING" => st[j] = "RUNNING",
             \/ web'.pc = "enqueue" /\ web'.job = j
             \/ ctl'[j] # "ACTIVE"
             \/ st'[j] # "QUEUED" /\ \A w \in Worker : ~InRun(w, j)
      PROVE  WayInv'
  BY <1>1, StillKeepsWay DEF Basis, Handed
<1>2. ASSUME NEW k, NEW f, NEW status \in {"QUEUED", "COMPLETED"}, InsertJob(j, k, f, status)
      PROVE  /\ \A i \in Job \ {j} : st'[i] = st[i] /\ ctl'[i] = ctl[i]
             /\ st'[j] = status
  BY <1>2 DEF InsertJob, Basis, TypeOK
<1>3. ASSUME NEW op, NEW prev, NEW beat, NEW saved, AwaitEnqueue(j, op, prev, beat, saved)
      PROVE  web'.pc = "enqueue" /\ web'.job = j
  BY <1>3 DEF AwaitEnqueue
<1>4. CASE CreateConversionJob(j)
  <2>1. PICK order \in Orders :
          LET S == {order[i] : i \in Slot} \ {Null} IN
          /\ InsertJob(j, "conversion", [i \in Slot |-> order[i] # Null],
                       IF S = {} THEN "COMPLETED" ELSE "QUEUED")
          /\ IF S = {}
             THEN UNCHANGED web
             ELSE AwaitEnqueue(j, "create", "NONE", "null",
                    [s \in Source |-> IF s \in S THEN conv[s] ELSE "GONE"])
    BY <1>4 DEF CreateConversionJob
  <2>2. \A w \in Worker : ~InRun(w, j)
    BY <1>4, CreateKinds, CreatedIsFree DEF Basis
  <2>3. web.pc = "up" /\ UNCHANGED <<workerVars, pending>>
    BY <1>4 DEF CreateConversionJob
  <2>4. CASE {order[i] : i \in Slot} \ {Null} = {}
    <3>1. /\ \A i \in Job \ {j} : st'[i] = st[i] /\ ctl'[i] = ctl[i]
          /\ st'[j] = "COMPLETED" /\ web' = web
      BY <1>2, <2>1, <2>4
    <3>2. QED
      BY <1>1, <2>2, <2>3, <3>1
  <2>5. CASE {order[i] : i \in Slot} \ {Null} # {}
    <3>1. /\ \A i \in Job \ {j} : st'[i] = st[i] /\ ctl'[i] = ctl[i]
          /\ st'[j] = "QUEUED"
      BY <1>2, <2>1, <2>5
    <3>2. web'.pc = "enqueue" /\ web'.job = j
      BY <1>3, <2>1, <2>5
    <3>3. QED
      BY <1>1, <2>3, <3>1, <3>2
  <2>6. QED
    BY <2>4, <2>5
<1>5. CASE CreateIndexJob(j) \/ CreateTestJob(j)
  <2>1. PICK k, f : CreateSourcelessJob(j, k, f)
    BY <1>5 DEF CreateIndexJob, CreateTestJob
  <2>2. /\ \A i \in Job \ {j} : st'[i] = st[i] /\ ctl'[i] = ctl[i]
        /\ st'[j] = "QUEUED" /\ web'.pc = "enqueue" /\ web'.job = j
        /\ web.pc = "up" /\ UNCHANGED <<workerVars, pending>>
    BY <1>2, <1>3, <2>1 DEF CreateSourcelessJob
  <2>3. QED
    BY <1>1, <2>2
<1>6. CASE PauseJob(j) \/ StopJob(j)
  <2>1. /\ ctl'[j] # "ACTIVE" /\ \A i \in Job \ {j} : ctl'[i] = ctl[i]
        /\ UNCHANGED <<st, web, pending, workerVars>>
    BY <1>6 DEF PauseJob, StopJob, Basis, TypeOK
  <2>2. QED
    BY StillKeepsWay, <2>1 DEF Basis, Handed
<1>7. CASE ResumeJob(j) \/ RestartJob(j)
  <2>1. /\ \A i \in Job \ {j} : st'[i] = st[i] /\ ctl'[i] = ctl[i]
        /\ st'[j] = "RUNNING" => st[j] = "RUNNING"
        /\ web.pc = "up" /\ UNCHANGED <<workerVars, pending>>
    BY <1>7 DEF ResumeJob, RestartJob, Basis, TypeOK
  <2>2. web'.pc = "enqueue" /\ web'.job = j
    BY <1>3, <1>7 DEF ResumeJob, RestartJob
  <2>3. QED
    BY <1>1, <2>1, <2>2
<1>8. ~DeleteJob(j)
  BY DEF Delivers, Guarded, DeleteJob
<1>9. QED
  BY <1>4, <1>5, <1>6, <1>7, <1>8 DEF Request

LEMMA WebKeepsWay ==
  ASSUME Basis, WayInv, WebProgress
  PROVE  WayInv'
<1> USE DEF jobVars, itemVars, workerVars
<1>1. CASE WebEnqueue
  <2>1. /\ pending' = Delivered(web.job, Retries) /\ UNCHANGED <<st, ctl, workerVars>>
        /\ web.pc = "enqueue"
    BY <1>1 DEF WebEnqueue
  <2>2. Retries \in 0..Retries
    BY JobQueueConstants
  <2>3. \A i \in Job : Handed(i) => \E r \in 0..Retries : pending'[i][r] > 0
    <3> SUFFICES ASSUME NEW i \in Job, Handed(i) PROVE \E r \in 0..Retries : pending'[i][r] > 0
      OBVIOUS
    <3>1. CASE web.job = i
      BY <2>1, <2>2, <3>1, DeliveredArrives DEF Basis
    <3>2. CASE web.job \in Job /\ \E r \in 0..Retries : pending[i][r] > 0
      BY <2>1, <2>2, <3>2, DeliveredArrives DEF Basis
    <3>3. CASE web.job \notin Job
      <4>1. pending' = pending
        BY <2>1, <3>3 DEF Delivered, Basis, TypeOK
      <4>2. QED
        BY <3>3, <4>1 DEF Handed
    <3>4. QED
      BY <3>1, <3>2, <3>3 DEF Handed
  <2>4. QED
    BY <2>1, <2>3, StillKeepsWay DEF Basis, Handed
<1>2. CASE WebStart \/ WebUp
  BY <1>2, StillKeepsWay DEF WebStart, WebUp, Basis, Handed
<1>3. ASSUME NEW j \in Job, RecoverJob(j)
      PROVE  WayInv'
  <2>1. UNCHANGED <<ctl, pending, workerVars>> /\ web.pc = "recover"
    BY <1>3 DEF RecoverJob
  <2>2. CASE j \in Recoverable
    <3>1. \A i \in Job : st'[i] = IF i = j THEN "QUEUED" ELSE st[i]
      BY <1>3, <2>2 DEF RecoverJob, Basis, TypeOK
    <3>2. Handed(j)' /\ \A i \in Job : Handed(i) => Handed(i)'
      BY <1>3, <2>1, <2>2, AwaitingIsHanded DEF RecoverJob
    <3>3. QED
      BY <2>1, <3>1, <3>2, StillKeepsWay DEF Basis
  <2>3. CASE j \notin Recoverable
    BY <1>3, <2>1, <2>3, StillKeepsWay DEF RecoverJob, Basis, Handed
  <2>4. QED
    BY <2>2, <2>3
<1>4. ~WebUndo
  BY DEF WebUndo, Basis
<1>5. QED
  BY <1>1, <1>2, <1>3, <1>4 DEF WebProgress

\* The Worker process starts: no thread runs yet, and what was RUNNING is repaired
\* before what is unfinished is listed and delivered.
LEMMA BootKeepsWay ==
  ASSUME Basis, WayInv, Boot \/ WorkerCrash
  PROVE  WayInv'
<1> USE DEF jobVars, itemVars, workerVars
<1>1. CASE WorkerCrash
  <2>1. boot'.pc = "down" /\ \A w \in Worker : pc'[w] = "idle"
    BY <1>1 DEF WorkerCrash
  <2>2. QED
    BY <2>1 DEF WayInv, BootIsIdle, RunningIsCarried, Carried, QueuedIsComing, Coming,
                SuspendedIsHanded
<1>2. ASSUME Boot
      PROVE  /\ boot.pc # "up" /\ UNCHANGED <<pc, task, ctl, web>>
             /\ \A w \in Worker : pc[w] = "idle"
             /\ BootIsIdle' /\ SuspendedIsHanded'
  <2>1. boot.pc # "up" /\ UNCHANGED <<pc, task, ctl, web>>
    BY <1>2 DEF Boot, WorkerStart, ReconcileList, WorkerUp, ReconcileJob, ReconcileEnqueue
  <2>2. QED
    BY <2>1 DEF WayInv, BootIsIdle, SuspendedIsHanded
<1>3. CASE WorkerStart
  BY <1>2, <1>3 DEF Boot, WorkerStart, WayInv, RunningIsCarried, Carried, QueuedIsComing, Coming
<1>4. ASSUME NEW j \in Job, ReconcileJob(j)
      PROVE  WayInv'
  <2>1. /\ boot.pc = "reconcile" /\ boot' = [pc |-> "reconcile", todo |-> boot.todo \ {j}]
        /\ \A i \in Job \ {j} : st'[i] = st[i]
        /\ st'[j] # "RUNNING"
    BY <1>4 DEF ReconcileJob, Basis, TypeOK
  <2>2. RunningIsCarried' /\ QueuedIsComing'
    BY <1>2, <1>4, <2>1
    DEF Boot, WayInv, RunningIsCarried, Carried, QueuedIsComing, Coming, InRun
  <2>3. QED
    BY <1>2, <1>4, <2>2 DEF Boot, WayInv
<1>5. CASE ReconcileList
  <2>1. /\ boot.pc = "reconcile" /\ boot.todo = {} /\ UNCHANGED st
        /\ boot' = [pc |-> "enqueue",
                    todo |-> {i \in Job : st[i] \in Unfinished /\ ctl[i] = "ACTIVE"}]
    BY <1>5 DEF ReconcileList
  <2>2. \A i \in Job : st[i] # "RUNNING"
    BY <1>2, <1>5, <2>1 DEF Boot, WayInv, RunningIsCarried, Carried, InRun
  <2>3. RunningIsCarried' /\ QueuedIsComing'
    BY <1>2, <1>5, <2>1, <2>2 DEF Boot, RunningIsCarried, QueuedIsComing, Coming, Unfinished
  <2>4. QED
    BY <1>2, <1>5, <2>3 DEF Boot, WayInv
<1>6. ASSUME NEW j \in Job, ReconcileEnqueue(j)
      PROVE  WayInv'
  <2>1. /\ boot.pc = "enqueue" /\ UNCHANGED st /\ pending' = Delivered(j, Retries)
        /\ boot' = [pc |-> "enqueue", todo |-> boot.todo \ {j}]
    BY <1>6 DEF ReconcileEnqueue
  <2>2. Retries \in 0..Retries
    BY JobQueueConstants
  <2>3. Handed(j)' /\ \A i \in Job : Handed(i) => Handed(i)'
    BY <1>2, <1>6, <2>1, <2>2, DeliveredArrives DEF Boot, Basis, Handed
  <2>4. RunningIsCarried'
    BY <1>2, <1>6, <2>1 DEF Boot, WayInv, RunningIsCarried, Carried, InRun
  <2>5. QueuedIsComing'
    BY <1>2, <1>6, <2>1, <2>3 DEF Boot, WayInv, QueuedIsComing, Coming, Arriving
  <2>6. QED
    BY <1>2, <1>6, <2>4, <2>5 DEF Boot, WayInv
<1>7. CASE WorkerUp
  <2>1. /\ boot.pc = "enqueue" /\ boot.todo = {} /\ UNCHANGED <<st, pending>>
        /\ boot' = [pc |-> "up", todo |-> {}]
    BY <1>7 DEF WorkerUp
  <2>2. RunningIsCarried' /\ QueuedIsComing'
    BY <1>2, <1>7, <2>1
    DEF Boot, WayInv, RunningIsCarried, Carried, QueuedIsComing, Coming, Handed, Arriving, InRun
  <2>3. QED
    BY <1>2, <1>7, <2>2 DEF Boot, WayInv
<1>8. QED
  BY <1>1, <1>3, <1>4, <1>5, <1>6, <1>7 DEF Boot

\* A thread inside an item processor.
LEMMA WorksKeepsWay ==
  ASSUME Basis, WayInv, NEW w \in Worker, Works(w)
  PROVE  WayInv'
<1>1. PICK j \in Job : j = task[w].job
  BY HolderIsInRun DEF Basis, Works, Holding, Processing
<1>2. InRun(w, j) /\ ~Arriving(w, j) /\ pc[w] \notin {"idle", "suspend"}
  BY <1>1 DEF InRun, Works, Processing, Arriving
<1>3. PICK label \in Holding : Goto(w, label) /\ (label = "suspend" => ~IsActive(j))
  BY <1>1 DEF Works
<1>4. /\ pc'[w] = label /\ \A v \in Worker \ {w} : pc'[v] = pc[v]
      /\ UNCHANGED <<st, ctl, task, pending, boot, web>>
  BY <1>3 DEF Works, Goto, Basis, TypeOK
<1>5. InRun(w, j)'
  BY <1>1, <1>4 DEF InRun, Holding, Processing
<1>6. label = "suspend" => ctl[j] # "ACTIVE"
  BY <1>2, <1>3 DEF IsActive, Exists, Basis, ItemInv, RunIsOpen, Unfinished
<1>7. \A i \in Job : Handed(i) => Handed(i)'
  BY <1>4 DEF Handed
<1>8. QED
  BY <1>1, <1>2, <1>4, <1>5, <1>6, <1>7, ThreadKeepsWay DEF Basis

LEMMA ThreadsKeepWay ==
  ASSUME Alone \/ Parted, "dberror" \notin Env, Basis, WayInv, NEW w \in Worker, Threads(w)
  PROVE  WayInv'
<1> USE DEF jobVars, itemVars
<1>1. /\ \A v \in Worker \ {w} : pc'[v] = pc[v] /\ task'[v] = task[v]
      /\ \A i \in Job \ {task[w].job} : st'[i] = st[i]
  BY ThreadFrame DEF Basis
<1>2. ASSUME NEW label, Goto(w, label)
      PROVE  pc'[w] = label
  BY <1>2 DEF Goto, Basis, TypeOK
<1>3. ASSUME NEW i \in Job, NEW r \in 0..Retries, Deliver(w, i, r)
      PROVE  WayInv'
  <2>1. /\ boot.pc = "up" /\ pc[w] = "idle" /\ pc'[w] = "claim" /\ task'[w].job = i
        /\ UNCHANGED <<st, ctl, boot, web>>
    BY <1>2, <1>3 DEF Deliver, Basis, TypeOK
  <2>2. \A h \in Job \ {i}, q \in 0..Retries : pending'[h][q] = pending[h][q]
    BY <1>3 DEF Deliver, Basis, TypeOK
  <2>3. \A h \in Job \ {i} : Handed(h) => Handed(h)'
    BY <2>1, <2>2 DEF Handed
  <2>4. \A v \in Worker \ {w} : pc'[v] = pc[v] /\ task'[v] = task[v]
    BY <1>1
  <2>5. BootIsIdle' /\ RunningIsCarried'
    BY <2>1, <2>4 DEF WayInv, BootIsIdle, RunningIsCarried, Carried, InRun
  <2>6. QueuedIsComing'
    <3> SUFFICES ASSUME NEW h \in Job, st[h] = "QUEUED", ctl[h] = "ACTIVE" PROVE Coming(h)'
      BY <2>1 DEF QueuedIsComing
    <3>1. CASE h = i
      BY <2>1, <3>1 DEF Coming, Arriving
    <3>2. CASE h # i
      BY <2>1, <2>3, <2>4, <3>2 DEF WayInv, QueuedIsComing, Coming, Arriving
    <3>3. QED
      BY <3>1, <3>2
  <2>7. \A v \in Worker : pc'[v] = "suspend" => v # w /\ pc[v] = "suspend"
    BY <2>1, <2>4
  <2>8. \A v \in Worker : pc'[v] = "suspend" => ctl'[task'[v].job] # "ACTIVE"
    BY <2>1, <2>4, <2>7 DEF Alone, Parted
  <2>9. QED
    BY <2>5, <2>6, <2>8 DEF WayInv, SuspendedIsHanded
<1>4. ASSUME NEW j \in Job, j = task[w].job, pc[w] # "idle",
             \/ ClaimJob(w) \/ CheckControl(w) \/ ClaimNextItem(w) \/ FinishJob(w)
             \/ FinishItem(w) \/ SuspendJob(w) \/ HandleUnexpected(w) \/ HueyRetry(w)
      PROVE  WayInv'
  <2> SUFFICES WayInv'
    OBVIOUS
  <2>1. UNCHANGED <<ctl, boot, web>>
    BY <1>4
    DEF ClaimJob, CheckControl, ClaimNextItem, FinishJob, FinishItem, SuspendJob,
        HandleUnexpected, HueyRetry
  <2>2. /\ \A v \in Worker \ {w} : pc'[v] = pc[v] /\ task'[v] = task[v]
        /\ \A i \in Job \ {j} : st'[i] = st[i]
    BY <1>1, <1>4
  <2>3. ASSUME \A i \in Job : Handed(i) => Handed(i)',
               st'[j] = "RUNNING" => InRun(w, j)' \/ (st[j] = "RUNNING" /\ ~InRun(w, j)),
               st'[j] = "QUEUED" /\ ctl[j] = "ACTIVE" =>
                 Handed(j)' \/ Arriving(w, j)' \/ (st[j] = "QUEUED" /\ ~Arriving(w, j)),
               pc'[w] = "suspend" =>
                 task'[w].job = j /\ (pc[w] = "suspend" \/ ctl[j] # "ACTIVE")
        PROVE  WayInv'
    BY <1>4, <2>1, <2>2, <2>3, ThreadKeepsWay DEF Basis
  <2>4. UNCHANGED pending => \A i \in Job : Handed(i) => Handed(i)'
    BY <2>1 DEF Handed
  <2>5. pc[w] \notin {"claim", "requeue"} =>
          InRun(w, j) /\ ~Arriving(w, j) /\ st[j] \in Unfinished
    BY <1>4 DEF InRun, Arriving, Basis, ItemInv, RunIsOpen
  <2>6. CASE ClaimJob(w)
    <3>1. CASE CanClaim(j)
      <4>1. /\ pc'[w] = "check" /\ task' = task /\ st'[j] = "RUNNING" /\ UNCHANGED pending
        BY <1>2, <1>4, <2>6, <3>1 DEF ClaimJob, Basis, TypeOK
      <4>2. InRun(w, j)'
        BY <1>4, <4>1 DEF InRun
      <4>3. QED
        BY <2>3, <2>4, <4>1, <4>2
    <3>2. CASE ~CanClaim(j)
      <4>1. pc[w] = "claim" /\ pc'[w] = "idle" /\ UNCHANGED <<st, pending>>
        BY <1>2, <1>4, <2>6, <3>2 DEF ClaimJob, Drop
      <4>2. ~InRun(w, j) /\ ~(st[j] = "QUEUED" /\ ctl[j] = "ACTIVE")
        BY <3>2, <4>1 DEF InRun, CanClaim, IsActive, Exists
      <4>3. QED
        BY <2>3, <2>4, <4>1, <4>2
    <3>3. QED
      BY <3>1, <3>2
  <2>7. CASE CheckControl(w) \/ ClaimNextItem(w) \/ FinishItem(w)
    <3>1. /\ pc[w] \in {"check", "recheck", "next", "done", "failed"}
          /\ UNCHANGED <<st, pending>> /\ task'[w].job = j
          /\ pc'[w] \in {"suspend", "next", "finish", "recheck", "dispatch", "check"}
      <4>1. CASE CheckControl(w)
        BY <1>2, <1>4, <4>1 DEF CheckControl, Basis, TypeOK
      <4>2. CASE ClaimNextItem(w)
        <5>1. /\ pc[w] = "next" /\ UNCHANGED <<st, pending>>
              /\ \/ Goto(w, "recheck") /\ UNCHANGED task
                 \/ /\ Goto(w, "dispatch")
                    /\ \E k : task' = [task EXCEPT ![w] = [job |-> j, left |-> task[w].left,
                                                         slot |-> k, src |-> isrc[j][k]]]
          BY <1>4, <4>2 DEF ClaimNextItem
        <5>2. task'[w].job = j
          BY <1>4, <5>1 DEF Basis, TypeOK
        <5>3. QED
          BY <1>2, <5>1, <5>2
      <4>3. CASE FinishItem(w)
        BY <1>2, <1>4, <4>3 DEF FinishItem
      <4>4. QED
        BY <2>7, <4>1, <4>2, <4>3
    <3>2. InRun(w, j)' /\ ~Arriving(w, j)
      BY <3>1 DEF InRun, Arriving
    <3>3. pc'[w] = "suspend" => ctl[j] # "ACTIVE"
      <4>1. CASE CheckControl(w)
        <5>1. pc'[w] = "suspend" => ~IsActive(j)
          BY <1>2, <1>4, <4>1 DEF CheckControl
        <5>2. QED
          BY <2>5, <3>1, <5>1 DEF IsActive, Exists, Unfinished
      <4>2. CASE ClaimNextItem(w) \/ FinishItem(w)
        BY <1>2, <4>2 DEF ClaimNextItem, FinishItem
      <4>3. QED
        BY <2>7, <4>1, <4>2
    <3>4. QED
      BY <2>3, <2>4, <3>1, <3>2, <3>3
  <2>8. CASE FinishJob(w)
    <3>1. /\ pc[w] = "finish" /\ pc'[w] = "idle" /\ UNCHANGED pending
          /\ st'[j] = st[j] \/ st'[j] \in Terminal
          /\ st'[j] # "RUNNING"
      BY <1>2, <1>4, <2>8 DEF FinishJob, Drop, Basis, TypeOK, Terminal
    <3>2. QED
      BY <2>3, <2>4, <2>5, <3>1 DEF Terminal
  <2>9. CASE SuspendJob(w)
    <3>1. /\ pc[w] = "suspend" /\ pc'[w] = "idle" /\ UNCHANGED pending
          /\ st'[j] # "RUNNING"
      BY <1>2, <1>4, <2>5, <2>9 DEF SuspendJob, Drop, Basis, TypeOK, Exists, Unfinished
    <3>2. ctl[j] = "ACTIVE" => Handed(j)
      BY <1>4, <3>1 DEF WayInv, SuspendedIsHanded
    <3>3. QED
      BY <2>3, <2>4, <3>1, <3>2
  <2>10. CASE HandleUnexpected(w)
    <3>1. pc[w] = "unexpected" /\ pc'[w] = "requeue" /\ UNCHANGED <<pending, task>>
      BY <1>2, <2>10 DEF HandleUnexpected
    <3>2. Exists(j) /\ ist[j][task[w].slot] # "NONE"
      BY <1>4, <2>5, <3>1 DEF Exists, Unfinished, Basis, ItemInv, HeldIsOpen, HasItem, Holding
    <3>3. st'[j] = IF task[w].left > 0 THEN "QUEUED" ELSE "FAILED"
      BY <1>4, <2>10, <3>2 DEF HandleUnexpected, Basis, TypeOK
    <3>4. st'[j] = "QUEUED" => Arriving(w, j)'
      BY <1>4, <3>1, <3>3 DEF Arriving
    <3>5. QED
      BY <2>3, <2>4, <3>1, <3>3, <3>4
  <2>11. CASE HueyRetry(w)
    <3>1. /\ pc[w] = "requeue" /\ pc'[w] = "idle" /\ UNCHANGED st
          /\ pending' = IF task[w].left > 0 THEN Delivered(j, task[w].left - 1) ELSE pending
      BY <1>2, <1>4, <2>11 DEF HueyRetry, Drop
    <3>2. CASE task[w].left > 0
      <4>1. task[w].left - 1 \in 0..Retries
        BY <3>2, JobQueueConstants DEF Basis, TypeOK, TaskRecord
      <4>2. Handed(j)' /\ \A i \in Job : Handed(i) => Handed(i)'
        BY <2>1, <3>1, <3>2, <4>1, DeliveredArrives DEF Basis, Handed
      <4>3. QED
        BY <2>3, <3>1, <4>2 DEF InRun
    <3>3. CASE ~(task[w].left > 0)
      BY <2>3, <2>4, <3>1, <3>3 DEF InRun, Arriving
    <3>4. QED
      BY <3>2, <3>3
  <2>12. QED
    BY <1>4, <2>6, <2>7, <2>8, <2>9, <2>10, <2>11
<1>5. Threads(w) /\ (\A i \in Job, r \in 0..Retries : ~Deliver(w, i, r)) =>
        /\ pc[w] # "idle"
        /\ \/ ClaimJob(w) \/ CheckControl(w) \/ ClaimNextItem(w) \/ FinishJob(w)
           \/ FinishItem(w) \/ SuspendJob(w) \/ HandleUnexpected(w) \/ HueyRetry(w)
  BY DEF Threads, ClaimJob, CheckControl, ClaimNextItem, FinishJob, FinishItem, SuspendJob,
         HandleUnexpected, HueyRetry, SessionFails
<1>6. QED
  BY <1>3, <1>4, <1>5 DEF Basis, BusyThreadHasJob

LEMMA WayStep ==
  ASSUME Delivers, Alone \/ Parted, Basis, WayInv, [Next]_vars
  PROVE  WayInv'
<1> USE DEF jobVars, itemVars
<1>1. ASSUME NEW j \in Job, LeaseExpires(j)
      PROVE  WayInv'
  BY <1>1, StillKeepsWay DEF LeaseExpires, Basis, Handed
<1>2. ASSUME NEW s \in Source, Inventory(s)
      PROVE  WayInv'
  BY <1>2, StillKeepsWay DEF Inventory, SourceChanged, SourceRemoved, SourceAdded, Basis, Handed
<1>3. ASSUME NEW w \in Worker, WatchdogBeat(w)
      PROVE  WayInv'
  BY <1>3, StillKeepsWay DEF WatchdogBeat, Basis, Handed
<1>4. CASE UNCHANGED vars
  BY <1>4, StillKeepsWay DEF vars, Basis, Handed
<1>5. ASSUME NEW w \in Worker,
             \/ \E j \in Job, r \in 0..Retries : Deliver(w, j, r)
             \/ Execute(w) \/ BeatWhileWorking(w) \/ ProcessorRaises(w) \/ SessionFails(w)
      PROVE  WayInv'
  <2>1. Works(w) \/ Threads(w)
    BY <1>5, WorkKinds DEF Basis, Execute, Threads
  <2>2. QED
    BY <2>1, WorksKeepsWay, ThreadsKeepWay DEF Delivers
<1>6. ~DeleteAllJobs /\ ~WebCrash /\ ~WebEnqueueFails
  BY DEF Delivers, Guarded, DeleteAllJobs, WebCrash, WebEnqueueFails
<1>7. QED
  BY <1>1, <1>2, <1>3, <1>4, <1>5, <1>6, RequestsKeepWay, WebKeepsWay, BootKeepsWay
  DEF Next, Fault

\* A run is suspended because its job is not ACTIVE.
LEMMA ToSuspend ==
  ASSUME TypeOK, [Next]_vars, NEW w \in Worker, pc'[w] = "suspend"
  PROVE  /\ task'[w].job = task[w].job
         /\ pc[w] = "suspend" \/ ~IsActive(task[w].job)
         /\ pc[w] \notin {"idle", "claim", "requeue"}
<1> USE DEF itemVars, workerVars
<1>1. CASE UNCHANGED <<pc, task>>
  BY <1>1
<1>2. ASSUME NEW v \in Worker, Works(v)
      PROVE  /\ task'[w].job = task[w].job
             /\ pc[w] = "suspend" \/ ~IsActive(task[w].job)
             /\ pc[w] \notin {"idle", "claim", "requeue"}
  <2>1. PICK label \in Holding : Goto(v, label) /\ (label = "suspend" => ~IsActive(task[v].job))
    BY <1>2 DEF Works
  <2>2. task' = task /\ \A u \in Worker : pc'[u] = IF u = v THEN label ELSE pc[u]
    BY <1>2, <2>1 DEF Works, Goto, TypeOK
  <2>3. QED
    BY <1>2, <2>1, <2>2 DEF Works, Processing
<1>3. ASSUME NEW v \in Worker, Threads(v)
      PROVE  /\ task'[w].job = task[w].job
             /\ pc[w] = "suspend" \/ ~IsActive(task[w].job)
             /\ pc[w] \notin {"idle", "claim", "requeue"}
  <2>1. CASE v = w
    <3>1. CheckControl(w) => pc[w] \in {"check", "recheck"}
      BY DEF CheckControl
    <3>2. QED
      BY <1>3, <2>1, <3>1, ThreadEffects DEF Holding
  <2>2. CASE v # w
    BY <1>3, <2>2, ThreadFrame
  <2>3. QED
    BY <2>1, <2>2
<1>4. Rests \/ Deletes \/ Undoes \/ (\E j \in Job : Creates(j) \/ Releases(j))
        \/ (\E s \in Source : SourceRemoved(s)) => UNCHANGED <<pc, task>>
  BY DEF Rests, Deletes, DropJobs, Undoes, Creates, Releases, SourceRemoved
<1>5. ~WorkerCrash
  BY DEF WorkerCrash
<1>6. QED
  BY <1>1, <1>2, <1>3, <1>4, <1>5, SourceKinds

\* While the claim is a lock no job is resumed, and a restart finds no thread inside.
LEMMA PartedStep ==
  ASSUME Undisturbed, Basis, RunHoldsLease', BusyThreadHasJob', Parted, [Next]_vars
  PROVE  Parted'
<1> SUFFICES ASSUME NEW w \in Worker, pc'[w] = "suspend", ctl'[task'[w].job] = "ACTIVE"
             PROVE  FALSE
  BY DEF Parted
<1>1. PICK j \in Job : j = task'[w].job
  BY DEF BusyThreadHasJob
<1>2. st'[j] = "RUNNING"
  BY <1>1 DEF RunHoldsLease, InRun
<1>3. task[w].job = j /\ InRun(w, j) /\ (pc[w] = "suspend" \/ ~IsActive(j))
  BY <1>1, ToSuspend DEF Basis, InRun
<1>4. ctl[j] = "ACTIVE"
  BY <1>1, <1>2, ControlStep DEF Basis, Undisturbed
<1>5. st[j] \in Unfinished
  BY <1>3 DEF Basis, ItemInv, RunIsOpen
<1>6. QED
  BY <1>3, <1>4, <1>5 DEF Parted, IsActive, Exists, Unfinished

\* An ACTIVE unfinished job is delivered, being handed over, in the hands of a thread or
\* about to be repaired: through pauses, stops, resumes, restarts, crashes of the Worker,
\* expired leases, duplicate deliveries and retries, no job is left behind QUEUED or
\* RUNNING with nothing on its way to it.
THEOREM UnfinishedJobIsUnderWayHolds ==
  ASSUME Delivers
  PROVE  Spec => []UnfinishedJobIsUnderWay
<1>1. Init => WayInv
  BY DEF Init, WayInv, BootIsIdle, RunningIsCarried, QueuedIsComing, SuspendedIsHanded
<1>2. WayInv => UnfinishedJobIsUnderWay
  BY DEF WayInv, RunningIsCarried, Carried, QueuedIsComing, Coming, Handed, Arriving, InRun,
         UnfinishedJobIsUnderWay, Unfinished
<1>3. Spec => []Basis
  BY BasisHolds DEF Delivers
<1>4. CASE Alone
  <2>1. Basis /\ WayInv /\ [Next]_vars => WayInv'
    BY <1>4, WayStep
  <2>2. QED
    BY <1>1, <1>2, <1>3, <2>1, PTL DEF Spec
<1>5. CASE Undisturbed
  <2>1. Init => Parted
    BY DEF Init, Parted
  <2>2. Basis /\ BusyThreadHasJob' /\ RunHoldsLease' /\ Parted /\ [Next]_vars => Parted'
    BY <1>5, PartedStep
  <2>3. Basis /\ Parted /\ WayInv /\ [Next]_vars => WayInv'
    BY WayStep
  <2>4. Spec => []RunHoldsLease
    BY <1>5, RunHoldsLeaseHolds
  <2>5. QED
    BY <1>1, <1>2, <1>3, <2>1, <2>2, <2>3, <2>4, TypedAndBusy, PTL DEF Spec
<1>6. QED
  BY <1>4, <1>5 DEF Delivers, Guarded
===============================================================================

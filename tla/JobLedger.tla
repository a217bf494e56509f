------------------------------ MODULE JobLedger ------------------------------
(***************************************************************************)
(* What the background-job queue promises, without processes, leases or    *)
(* deliveries: a job is a set of items, every item is settled once, a job  *)
(* is closed when nothing is left to do, and only an interrupted job that  *)
(* still has work can be opened again.                                     *)
(***************************************************************************)
CONSTANTS Job, Slot

VARIABLES
  phase,    \* absent, open, completed or failed
  todo,     \* items not settled yet
  ok,       \* items settled with success
  bad       \* items settled with failure

vars == <<phase, todo, ok, bad>>

Init ==
  /\ phase = [j \in Job |-> "absent"]
  /\ todo = [j \in Job |-> {}]
  /\ ok = [j \in Job |-> {}]
  /\ bad = [j \in Job |-> {}]

\* A job with nothing to convert is complete from the start.
Submit(j, S) ==
  /\ phase[j] = "absent"
  /\ phase' = [phase EXCEPT ![j] = IF S = {} THEN "completed" ELSE "open"]
  /\ todo' = [todo EXCEPT ![j] = S]
  /\ UNCHANGED <<ok, bad>>

Complete(j, k) ==
  /\ phase[j] = "open" /\ k \in todo[j]
  /\ todo' = [todo EXCEPT ![j] = @ \ {k}]
  /\ ok' = [ok EXCEPT ![j] = @ \union {k}]
  /\ UNCHANGED <<phase, bad>>

Fail(j, k) ==
  /\ phase[j] = "open" /\ k \in todo[j]
  /\ todo' = [todo EXCEPT ![j] = @ \ {k}]
  /\ bad' = [bad EXCEPT ![j] = @ \union {k}]
  /\ UNCHANGED <<phase, ok>>

Close(j) ==
  /\ phase[j] = "open" /\ todo[j] = {}
  /\ phase' = [phase EXCEPT ![j] = IF bad[j] = {} THEN "completed" ELSE "failed"]
  /\ UNCHANGED <<todo, ok, bad>>

\* The retries of an unexpected failure are used up: the item and the job fail,
\* what remains stays open for a restart.
Abandon(j, k) ==
  /\ phase[j] = "open" /\ k \in todo[j]
  /\ phase' = [phase EXCEPT ![j] = "failed"]
  /\ todo' = [todo EXCEPT ![j] = @ \ {k}]
  /\ bad' = [bad EXCEPT ![j] = @ \union {k}]
  /\ UNCHANGED ok

Reopen(j) ==
  /\ phase[j] = "failed" /\ todo[j] # {}
  /\ phase' = [phase EXCEPT ![j] = "open"]
  /\ UNCHANGED <<todo, ok, bad>>

Next ==
  \E j \in Job :
    \/ \E S \in SUBSET Slot : Submit(j, S)
    \/ \E k \in Slot : Complete(j, k) \/ Fail(j, k) \/ Abandon(j, k)
    \/ Close(j) \/ Reopen(j)

Spec == Init /\ [][Next]_vars
=============================================================================

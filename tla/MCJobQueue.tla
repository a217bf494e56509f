------------------------------ MODULE MCJobQueue ------------------------------
(***************************************************************************)
(* The job queue for TLC.  Source files, and the threads of the Worker,    *)
(* are interchangeable; jobs and slots are ordered and are not.            *)
(***************************************************************************)
EXTENDS JobQueueProperties, TLC

SourceSymmetry == Permutations(Source)
WorkerSourceSymmetry == Permutations(Source) \union Permutations(Worker)
=============================================================================

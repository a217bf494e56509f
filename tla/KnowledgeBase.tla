---------------------------- MODULE KnowledgeBase ----------------------------
(***************************************************************************)
(* From source files to the live index: the inventory requests of          *)
(* services/source_files.py, the conversion of a file with its publish     *)
(* protocol (conversion_worker.py, document_conversion.py) and the         *)
(* building and activation of an index generation (index_generation.py).   *)
(*                                                                         *)
(* The Worker does one thing at a time; requests and changes of the source *)
(* tree by others fall between any two of its steps.  A session that reads *)
(* rows, works for a while and then commits is at least two steps; the     *)
(* commit writes the columns that differ from what the session had read.   *)
(***************************************************************************)
EXTENDS Naturals, FiniteSets

CONSTANTS
  Source,         \* source files: a path, with the row id it has when recorded
  Bytes,          \* contents of a file, told apart by their hash
  Null,           \* no file, no artifact, no card
  Request,        \* threads of the Web process that serve inventory requests
  MaxStamp,       \* bound: writes of one file
  MaxGen,         \* bound: index generations
  Env             \* the requests and faults a run allows

ASSUME KnowledgeBaseConstants ==
  /\ Null \notin Bytes \union Source
  /\ Null \notin [Source -> Bytes \union {Null}]
  /\ MaxStamp \in Nat /\ MaxGen \in Nat

VARIABLES
  disk,      \* the source tree: bytes and (size, mtime) of each file
  row,       \* source_files
  md,        \* md/<id>: hash of the manifest, and of what card.json describes
  gens,      \* index_generations, and the documents of generations/<n>, if in place
  pointer,   \* the generation current.json names, 0 before the first
  req,       \* what each inventory request is doing
  work       \* what the Worker thread is doing

vars == <<disk, row, md, gens, pointer, req, work>>

-----------------------------------------------------------------------------
MaybeBytes == Bytes \union {Null}
File == [bytes: MaybeBytes, stamp: 0..MaxStamp]
Row == [status: {"NONE", "PRESENT", "MISSING"}, stamp: 0..MaxStamp, sha: MaybeBytes,
        conv: {"NEW", "CHANGED", "CONVERTING", "READY", "FAILED"},
        idx: {"NOT_INDEXED", "INDEXED", "STALE"}]
Artifact == [sha: MaybeBytes, card: MaybeBytes]
Generation == [status: {"NONE", "BUILDING", "VALIDATED", "ACTIVE", "SUPERSEDED", "FAILED"},
               docs: [Source -> MaybeBytes] \union {Null}]

NoRow == [status |-> "NONE", stamp |-> 0, sha |-> Null, conv |-> "NEW",
          idx |-> "NOT_INDEXED"]
NoArtifact == [sha |-> Null, card |-> Null]
NoDocs == [s \in Source |-> Null]
Unread == [s \in Source |-> NoRow]
Unseen == [s \in Source |-> [bytes |-> Null, stamp |-> 0]]

Recorded(s) == row[s].status # "NONE"

IdleRequest == [op |-> "idle", step |-> "idle", scope |-> {}, todo |-> {},
                old |-> Unread, found |-> Unseen]
IdleWork == [pc |-> "idle", todo |-> {}, sha |-> Null, loaded |-> Unread,
             kept |-> NoArtifact, gen |-> 0, staged |-> NoDocs, prev |-> 0]

RequestState ==
  [op: {"idle", "scan", "upload", "replace", "delete"},
   step: {"idle", "walk", "stat", "put", "purge", "unlink", "commit"},
   scope: SUBSET Source, todo: SUBSET Source,
   old: [Source -> Row], found: [Source -> File]]
Work ==
  [pc: {"idle", "verify", "stage", "check", "move", "swap", "ready",
        "inventory", "load", "cards", "place", "point", "commit"},
   todo: SUBSET Source, sha: MaybeBytes, loaded: [Source -> Row], kept: Artifact,
   gen: 0..MaxGen, staged: [Source -> MaybeBytes], prev: 0..MaxGen]

TypeOK ==
  /\ disk \in [Source -> File]
  /\ row \in [Source -> Row]
  /\ md \in [Source -> Artifact]
  /\ gens \in [1..MaxGen -> Generation]
  /\ pointer \in 0..MaxGen
  /\ req \in [Request -> RequestState]
  /\ work \in Work

Init ==
  /\ disk = Unseen
  /\ row = Unread
  /\ md = [s \in Source |-> NoArtifact]
  /\ gens = [n \in 1..MaxGen |-> [status |-> "NONE", docs |-> Null]]
  /\ pointer = 0
  /\ req = [r \in Request |-> IdleRequest]
  /\ work = IdleWork

\* BEGIN IMMEDIATE: until the activation commits nobody else writes the database.
Unlocked == work.pc # "commit"

StaleIfIndexed(idx) == IF idx = "INDEXED" THEN "STALE" ELSE idx

\* What a commit leaves in a row: the columns the session changed, over whatever
\* the row holds by now.
Merge(old, new, now) ==
  [c \in DOMAIN now |-> IF new[c] # old[c] THEN new[c] ELSE now[c]]

-----------------------------------------------------------------------------
(* Inventory requests.  A scan walks the tree, upload and replace put one  *)
(* file, delete takes one file or a folder; each reads its rows first and  *)
(* commits last.                                                           *)

Begin(r, op, step, scope) ==
  req' = [req EXCEPT ![r] = [op |-> op, step |-> step, scope |-> scope, todo |-> scope,
                             old |-> [s \in Source |-> IF s \in scope THEN row[s] ELSE NoRow],
                             found |-> Unseen]]

StartScan(r) ==
  /\ "scan" \in Env /\ req[r].op = "idle"
  /\ Begin(r, "scan", "walk", Source)
  /\ UNCHANGED <<disk, row, md, gens, pointer, work>>

StartPut(r, s) ==
  /\ req[r].op = "idle"
  /\ \/ /\ "upload" \in Env /\ ~Recorded(s) /\ disk[s].bytes = Null
        /\ Begin(r, "upload", "put", {s})
     \/ /\ "replace" \in Env /\ Recorded(s)
        /\ Begin(r, "replace", "put", {s})
  /\ UNCHANGED <<disk, row, md, gens, pointer, work>>

\* One file, or a folder that holds all of them.
StartDelete(r) ==
  /\ "delete" \in Env /\ req[r].op = "idle"
  /\ \E D \in {{s} : s \in Source} \union {Source} :
       /\ \E s \in D : Recorded(s)
       /\ Begin(r, "delete", "purge", {s \in D : Recorded(s)})
  /\ UNCHANGED <<disk, row, md, gens, pointer, work>>

Of(r) == req[r]
Known(r, s) == Of(r).old[s].status = "PRESENT" /\ Of(r).old[s].stamp = disk[s].stamp

\* The scan hashes a file whose size or mtime differ from the row, and then takes
\* both again.  A file it cannot read, then or at first, counts as not there.
ScanFile(r, s) ==
  /\ Of(r).op = "scan" /\ Of(r).step = "walk" /\ s \in Of(r).todo
  /\ IF disk[s].bytes = Null \/ Known(r, s)
     THEN req' = [req EXCEPT ![r].todo = @ \ {s},
            ![r].found[s] = IF disk[s].bytes = Null THEN disk[s]
                            ELSE [bytes |-> Of(r).old[s].sha, stamp |-> disk[s].stamp]]
     ELSE req' = [req EXCEPT ![r].step = "stat", ![r].found[s] = disk[s]]
  /\ UNCHANGED <<disk, row, md, gens, pointer, work>>

\* The file that was hashed, or put, last.
Stat(r, s) ==
  /\ Of(r).step = "stat" /\ s \in Of(r).todo /\ Of(r).found[s].bytes # Null
  /\ IF disk[s].bytes = Null /\ Of(r).op # "scan"
     THEN req' = [req EXCEPT ![r] = IdleRequest]
     ELSE req' = [req EXCEPT ![r].todo = @ \ {s},
            ![r].found[s] = IF disk[s].bytes = Null THEN disk[s]
                            ELSE [bytes |-> @.bytes, stamp |-> disk[s].stamp],
            ![r].step = IF Of(r).op = "scan" THEN "walk" ELSE "commit"]
  /\ UNCHANGED <<disk, row, md, gens, pointer, work>>

Write(s, b) == disk[s].stamp < MaxStamp
  /\ disk' = [disk EXCEPT ![s] = [bytes |-> b, stamp |-> @.stamp + 1]]

\* The temporary file takes the place of the target.
Put(r, s) ==
  /\ Of(r).step = "put" /\ s \in Of(r).scope
  /\ \E b \in Bytes :
       /\ Write(s, b)
       /\ req' = [req EXCEPT ![r].step = "stat",
                             ![r].found[s] = [bytes |-> b, stamp |-> 0]]
  /\ UNCHANGED <<row, md, gens, pointer, work>>

Doomed(r) == {s \in Of(r).scope :
  /\ Of(r).old[s].status # "NONE" /\ Of(r).old[s].idx = "NOT_INDEXED"
  /\ Of(r).found[s].bytes = Null}

\* Artifacts of the rows that will be deleted go first.
Purge(r) ==
  /\ \/ Of(r).op = "delete" /\ Of(r).step = "purge"
     \/ Of(r).op = "scan" /\ Of(r).step = "walk" /\ Of(r).todo = {}
  /\ md' = [s \in Source |-> IF s \in Doomed(r) THEN NoArtifact ELSE md[s]]
  /\ req' = [req EXCEPT ![r].step = IF Of(r).op = "delete" THEN "unlink" ELSE "commit"]
  /\ UNCHANGED <<disk, row, gens, pointer, work>>

Unlink(r) ==
  /\ Of(r).step = "unlink"
  /\ disk' = [s \in Source |->
                IF s \in Of(r).scope THEN [disk[s] EXCEPT !.bytes = Null] ELSE disk[s]]
  /\ req' = [req EXCEPT ![r].step = "commit"]
  /\ UNCHANGED <<row, md, gens, pointer, work>>

Fresh(f) == [status |-> "PRESENT", stamp |-> f.stamp, sha |-> f.bytes, conv |-> "NEW",
             idx |-> "NOT_INDEXED"]

\* A file seen again: its processing state survives if its bytes do.
Observed(o, f) ==
  IF f.bytes = o.sha
  THEN [o EXCEPT !.status = "PRESENT", !.stamp = f.stamp]
  ELSE [status |-> "PRESENT", stamp |-> f.stamp, sha |-> f.bytes, conv |-> "CHANGED",
        idx |-> StaleIfIndexed(o.idx)]

\* Seeded fault: MISSING goes into the wrong column.
VanishedAsIndexStatus(o, op) ==
  IF o.idx = "NOT_INDEXED" THEN NoRow ELSE [o EXCEPT !.idx = "MISSING"]

\* A file gone: a row that was ever indexed is kept.
Vanished(o, op) ==
  IF o.idx = "NOT_INDEXED" THEN NoRow
  ELSE IF op = "scan" /\ o.status = "MISSING" THEN o
  ELSE [o EXCEPT !.status = "MISSING", !.idx = StaleIfIndexed(o.idx)]

After(r, s) ==
  LET o == Of(r).old[s]  f == Of(r).found[s] IN
  IF o.status = "NONE" THEN (IF f.bytes = Null THEN NoRow ELSE Fresh(f))
  ELSE IF f.bytes = Null THEN Vanished(o, Of(r).op) ELSE Observed(o, f)

\* The INSERT meets a row, or the UPDATE meets none.
Conflict(r) ==
  \E s \in Of(r).scope : LET o == Of(r).old[s]  n == After(r, s) IN
    IF o.status = "NONE" THEN n # NoRow /\ Recorded(s)
    ELSE n \notin {o, NoRow} /\ ~Recorded(s)

CommitRequest(r) ==
  /\ Of(r).step = "commit" /\ Unlocked
  /\ row' = [s \in Source |->
       LET o == Of(r).old[s]  n == After(r, s) IN
       IF s \notin Of(r).scope \/ n = o \/ Conflict(r) THEN row[s]
       ELSE IF o.status = "NONE" \/ n = NoRow THEN n
       ELSE Merge(o, n, row[s])]
  /\ req' = [req EXCEPT ![r] = IdleRequest]
  /\ UNCHANGED <<disk, md, gens, pointer, work>>

\* The request raises, or its process dies: nothing is committed.
RequestFails(r) ==
  /\ "requestfail" \in Env /\ Of(r).op # "idle"
  /\ req' = [req EXCEPT ![r] = IdleRequest]
  /\ UNCHANGED <<disk, row, md, gens, pointer, work>>

\* A download finds the file gone.
DownloadMissing(s) ==
  /\ "download" \in Env /\ Unlocked
  /\ row[s].status = "PRESENT" /\ disk[s].bytes = Null
  /\ row' = [row EXCEPT ![s].status = "MISSING", ![s].idx = StaleIfIndexed(@)]
  /\ UNCHANGED <<disk, md, gens, pointer, req, work>>

\* Somebody changes the mounted source tree.
EditFile(s) ==
  /\ "edit" \in Env
  /\ \E b \in MaybeBytes \ {disk[s].bytes} : Write(s, b)
  /\ UNCHANGED <<row, md, gens, pointer, req, work>>

-----------------------------------------------------------------------------
(* The Worker converts a file.                                             *)

SetRow(s, new) ==
  row' = IF Recorded(s) THEN [row EXCEPT ![s] = Merge(work.loaded[s], new, @)] ELSE row

FailConversion(s) ==
  /\ SetRow(s, [work.loaded[s] EXCEPT !.conv = "FAILED"])
  /\ work' = IdleWork

StartConversion(s) ==
  /\ work.pc = "idle" /\ Recorded(s)
  /\ IF row[s].status # "PRESENT" \/ disk[s].bytes = Null
     THEN /\ row' = [row EXCEPT ![s].status = "MISSING", ![s].conv = "FAILED"]
          /\ UNCHANGED work
     ELSE /\ row' = [row EXCEPT ![s].conv = "CONVERTING"]
          /\ work' = [work EXCEPT !.pc = "verify", !.todo = {s}, !.sha = row[s].sha,
                                  !.loaded[s] = row'[s]]
  /\ UNCHANGED <<disk, md, gens, pointer, req>>

\* A file that cannot be opened ends the item, but the row stays CONVERTING.
VerifyHash(s) ==
  /\ work.pc = "verify" /\ s \in work.todo
  /\ CASE disk[s].bytes = work.sha -> work' = [work EXCEPT !.pc = "stage"] /\ UNCHANGED row
       [] disk[s].bytes = Null -> work' = IdleWork /\ UNCHANGED row
       [] OTHER -> FailConversion(s)
  /\ UNCHANGED <<disk, md, gens, pointer, req>>

\* Extraction succeeds, is refused, or is ended by the heartbeat of a stopped job.
StageArtifact(s) ==
  /\ work.pc = "stage" /\ s \in work.todo
  /\ \/ work' = [work EXCEPT !.pc = "check"] /\ UNCHANGED row
     \/ FailConversion(s)
     \/ work' = IdleWork /\ UNCHANGED row
  /\ UNCHANGED <<disk, md, gens, pointer, req>>

\* The mismatch is reported in the row unless the row, or the file to hash, is gone.
StillHeld(s) ==
  /\ Recorded(s)
  /\ row[s].status = "PRESENT" /\ row[s].sha = work.sha => disk[s].bytes # Null

\* Read the row again: it must still describe the bytes that were staged.
CheckSource(s) ==
  /\ work.pc = "check" /\ s \in work.todo
  /\ IF row[s].status = "PRESENT" /\ row[s].sha = work.sha /\ disk[s].bytes = work.sha
     THEN work' = [work EXCEPT !.pc = "move", !.loaded[s] = row[s]] /\ UNCHANGED row
     ELSE /\ row' = IF StillHeld(s) THEN [row EXCEPT ![s].conv = "FAILED"] ELSE row
          /\ work' = IdleWork
  /\ UNCHANGED <<disk, md, gens, pointer, req>>

\* Publish: the old directory moves aside, the staged one takes its place; if that
\* fails the old one is moved back.
MoveAside(s) ==
  /\ work.pc = "move" /\ s \in work.todo
  /\ md' = [md EXCEPT ![s] = NoArtifact]
  /\ work' = [work EXCEPT !.pc = "swap", !.kept = md[s]]
  /\ UNCHANGED <<disk, row, gens, pointer, req>>

\* Seeded fault: the card of the previous artifact is carried over.
SwapInKeepingCard(s) ==
  /\ work.pc = "swap" /\ s \in work.todo
  /\ md' = [md EXCEPT ![s] = [sha |-> work.sha, card |-> work.kept.card]]
  /\ work' = [work EXCEPT !.pc = "ready", !.kept = NoArtifact]
  /\ UNCHANGED <<disk, row, gens, pointer, req>>

\* Seeded fault: after a failure the old directory is not moved back.
SwapInWithoutReturn(s) ==
  /\ work.pc = "swap" /\ s \in work.todo
  /\ \/ /\ md' = [md EXCEPT ![s] = [sha |-> work.sha, card |-> Null]]
        /\ work' = [work EXCEPT !.pc = "ready", !.kept = NoArtifact]
        /\ UNCHANGED row
     \/ UNCHANGED md /\ FailConversion(s)
  /\ UNCHANGED <<disk, gens, pointer, req>>

SwapIn(s) ==
  /\ work.pc = "swap" /\ s \in work.todo
  /\ \/ /\ md' = [md EXCEPT ![s] = [sha |-> work.sha, card |-> Null]]
        /\ work' = [work EXCEPT !.pc = "ready", !.kept = NoArtifact]
        /\ UNCHANGED row
     \/ /\ md' = IF work.kept = NoArtifact THEN md ELSE [md EXCEPT ![s] = work.kept]
        /\ FailConversion(s)
  /\ UNCHANGED <<disk, gens, pointer, req>>

MarkReady(s) ==
  /\ work.pc = "ready" /\ s \in work.todo
  /\ SetRow(s, [work.loaded[s] EXCEPT !.conv = "READY", !.idx = StaleIfIndexed(@)])
  /\ work' = IdleWork
  /\ UNCHANGED <<disk, md, gens, pointer, req>>

-----------------------------------------------------------------------------
(* The Worker builds and activates an index generation.                    *)

SetGeneration(status) == gens' = [gens EXCEPT ![work.gen].status = status]

\* Seeded fault: a new build also fails the ACTIVE generation.
CreateGenerationOverActive ==
  /\ work.pc = "idle"
  /\ \E n \in 1..MaxGen :
       /\ \A m \in 1..MaxGen : gens[m].status = "NONE" <=> m >= n
       /\ gens' = [m \in 1..MaxGen |-> [gens[m] EXCEPT !.status =
            IF m = n THEN "BUILDING" ELSE IF m < n THEN "FAILED" ELSE @]]
       /\ work' = [work EXCEPT !.pc = "inventory", !.gen = n]
  /\ UNCHANGED <<disk, row, md, pointer, req>>

CreateGeneration ==
  /\ work.pc = "idle"
  /\ \E n \in 1..MaxGen :
       /\ \A m \in 1..MaxGen : gens[m].status = "NONE" <=> m >= n
       /\ gens' = [m \in 1..MaxGen |->
            IF m = n THEN [gens[m] EXCEPT !.status = "BUILDING"]
            ELSE IF gens[m].status \in {"BUILDING", "VALIDATED"}
            THEN [gens[m] EXCEPT !.status = "FAILED"] ELSE gens[m]]
       /\ work' = [work EXCEPT !.pc = "inventory", !.gen = n]
  /\ UNCHANGED <<disk, row, md, pointer, req>>

Eligible == {s \in Source :
  work.loaded[s].status = "PRESENT" /\ work.loaded[s].conv = "READY"}
Refreshed == {s \in Eligible : work.loaded[s].idx # "INDEXED"}

ReadInventory ==
  /\ work.pc = "inventory"
  /\ work' = [work EXCEPT !.pc = "load", !.loaded = row,
       !.todo = {s \in Source : row[s].status = "PRESENT" /\ row[s].conv = "READY"}]
  /\ UNCHANGED <<disk, row, md, gens, pointer, req>>

\* The manifest must name the recorded hash; an INDEXED document brings its card.
LoadDocument(s) ==
  /\ work.pc = "load" /\ s \in work.todo
  /\ md[s].sha = work.loaded[s].sha
  /\ s \in Refreshed \/ md[s].card # Null
  /\ work' = [work EXCEPT !.todo = @ \ {s},
       !.staged[s] = IF s \in Refreshed THEN Null ELSE md[s].card]
  /\ UNCHANGED <<disk, row, md, gens, pointer, req>>

PlanCards ==
  /\ work.pc = "load" /\ work.todo = {}
  /\ work' = [work EXCEPT !.pc = "cards", !.todo = Refreshed]
  /\ UNCHANGED <<disk, row, md, gens, pointer, req>>

\* The card is stored beside the published Markdown, before anything is activated.
GenerateCard(s) ==
  /\ work.pc = "cards" /\ s \in work.todo
  /\ md' = [md EXCEPT ![s].card = work.loaded[s].sha]
  /\ work' = [work EXCEPT !.todo = @ \ {s}, !.staged[s] = work.loaded[s].sha]
  /\ UNCHANGED <<disk, row, gens, pointer, req>>

ValidateGeneration ==
  /\ work.pc = "cards" /\ work.todo = {}
  /\ SetGeneration("VALIDATED")
  /\ work' = [work EXCEPT !.pc = "place"]
  /\ UNCHANGED <<disk, row, md, pointer, req>>

\* Seeded fault: the generation is left in its staging directory.
PlaceGenerationLate ==
  /\ work.pc = "place"
  /\ work' = [work EXCEPT !.pc = "point"]
  /\ UNCHANGED <<disk, row, md, gens, pointer, req>>

PlaceGeneration ==
  /\ work.pc = "place"
  /\ gens' = [gens EXCEPT ![work.gen].docs = work.staged]
  /\ work' = [work EXCEPT !.pc = "point"]
  /\ UNCHANGED <<disk, row, md, pointer, req>>

\* Under the writer lock the source rows are selected again.  The session does not
\* expire what it has loaded, so the attributes compared with the snapshot are
\* those of the inventory: only a row that is gone is noticed.
SnapshotHolds == \A s \in Eligible : Recorded(s)

PointToGeneration ==
  /\ work.pc = "point"
  /\ SnapshotHolds
  /\ pointer' = work.gen
  /\ work' = [work EXCEPT !.pc = "commit", !.prev = pointer]
  /\ UNCHANGED <<disk, row, md, gens, req>>

\* Seeded fault: rows the generation leaves out are not demoted.
ActivatedWithoutDemotion(s, idx) == IF s \in Eligible THEN "INDEXED" ELSE idx

\* What the activation makes of the index status a row had in its session.
Activated(s, idx) ==
  IF s \in Eligible THEN "INDEXED" ELSE StaleIfIndexed(idx)

CommitActivation ==
  /\ work.pc = "commit"
  /\ gens' = [n \in 1..MaxGen |->
       IF n = work.gen THEN [gens[n] EXCEPT !.status = "ACTIVE"]
       ELSE IF gens[n].status = "ACTIVE" THEN [gens[n] EXCEPT !.status = "SUPERSEDED"]
       ELSE gens[n]]
  /\ row' = [s \in Source |->
       LET o == IF work.loaded[s].status = "NONE" THEN row[s] ELSE work.loaded[s] IN
       IF ~Recorded(s) THEN row[s]
       ELSE Merge(o, [o EXCEPT !.idx = Activated(s, @)], row[s])]
  /\ work' = IdleWork
  /\ UNCHANGED <<disk, md, pointer, req>>

\* Seeded fault: only the table is rolled back.
UndoActivationOfTable ==
  /\ "dberror" \in Env /\ work.pc = "commit"
  /\ SetGeneration("FAILED")
  /\ work' = IdleWork
  /\ UNCHANGED <<disk, row, md, pointer, req>>

\* Seeded fault: the pointer is removed even if there was one before.
UndoActivationToNone ==
  /\ "dberror" \in Env /\ work.pc = "commit"
  /\ pointer' = 0
  /\ SetGeneration("FAILED")
  /\ work' = IdleWork
  /\ UNCHANGED <<disk, row, md, req>>

\* The commit of the activation fails: the pointer is put back.
UndoActivation ==
  /\ "dberror" \in Env /\ work.pc = "commit"
  /\ pointer' = work.prev
  /\ SetGeneration("FAILED")
  /\ work' = IdleWork
  /\ UNCHANGED <<disk, row, md, req>>

\* A document does not fit its manifest, a model call fails, the job is stopped, the
\* snapshot does not hold.  A generation in place stays there.
BuildFails ==
  /\ work.pc \in {"inventory", "load", "cards", "place", "point"}
  /\ SetGeneration("FAILED")
  /\ work' = IdleWork
  /\ UNCHANGED <<disk, row, md, pointer, req>>

\* The Worker dies.  What it had staged or moved aside is not looked at again.
WorkerCrash ==
  /\ "workercrash" \in Env /\ work.pc # "idle"
  /\ work' = IdleWork
  /\ UNCHANGED <<disk, row, md, gens, pointer, req>>

-----------------------------------------------------------------------------
Inventory(r) ==
  \/ StartScan(r) \/ StartDelete(r) \/ Purge(r) \/ Unlink(r) \/ CommitRequest(r)
  \/ RequestFails(r)
  \/ \E s \in Source : StartPut(r, s) \/ ScanFile(r, s) \/ Stat(r, s) \/ Put(r, s)

Convert(s) ==
  \/ StartConversion(s) \/ VerifyHash(s) \/ StageArtifact(s) \/ CheckSource(s)
  \/ MoveAside(s) \/ SwapIn(s) \/ MarkReady(s)

Build ==
  \/ CreateGeneration \/ ReadInventory \/ PlanCards \/ ValidateGeneration
  \/ PlaceGeneration \/ PointToGeneration \/ CommitActivation \/ UndoActivation
  \/ BuildFails \/ \E s \in Source : LoadDocument(s) \/ GenerateCard(s)

Next ==
  \/ \E r \in Request : Inventory(r)
  \/ \E s \in Source : Convert(s) \/ DownloadMissing(s) \/ EditFile(s)
  \/ Build \/ WorkerCrash

Spec == Init /\ [][Next]_vars
=============================================================================

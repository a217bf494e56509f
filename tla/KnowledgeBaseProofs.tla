-------------------------- MODULE KnowledgeBaseProofs --------------------------
(***************************************************************************)
(* The knowledge base, for any source files, contents, concurrent          *)
(* requests, generations and faults: its types; the live index, which is   *)
(* always whole, while the table and current.json part only when a Worker  *)
(* dies between them, and whose readers see the register of IndexRegister; *)
(* the cards, the artifacts that publish moves, and the INDEXED rows.      *)
(***************************************************************************)
EXTENDS KnowledgeBaseProperties, TLAPS

LEMMA MergeIsRow ==
  ASSUME NEW old \in Row, NEW new \in Row, NEW now \in Row
  PROVE  Merge(old, new, now) \in Row
<1> DEFINE m == Merge(old, new, now)
<1>1. DOMAIN now = {"status", "stamp", "sha", "conv", "idx"}
  BY DEF Row
<1>2. m = [status |-> m.status, stamp |-> m.stamp, sha |-> m.sha, conv |-> m.conv,
           idx |-> m.idx]
  BY <1>1 DEF Merge
<1>3. \A c \in DOMAIN now : m[c] = IF new[c] # old[c] THEN new[c] ELSE now[c]
  BY DEF Merge
<1>4. QED
  BY <1>1, <1>2, <1>3 DEF Row

LEMMA EmptyTyped ==
  /\ NoRow \in Row
  /\ NoArtifact \in Artifact
  /\ Unseen \in [Source -> File]
  /\ Unread \in [Source -> Row]
  /\ IdleRequest \in RequestState
  /\ IdleWork \in Work
<1>1. NoRow \in Row /\ NoArtifact \in Artifact
  BY KnowledgeBaseConstants DEF NoRow, NoArtifact, Row, Artifact, MaybeBytes
<1>2. Unread \in [Source -> Row] /\ Unseen \in [Source -> File]
  BY <1>1, KnowledgeBaseConstants DEF Unread, Unseen, File, MaybeBytes
<1>3. IdleRequest \in RequestState
  BY <1>2 DEF IdleRequest, RequestState
<1>4. NoDocs \in [Source -> MaybeBytes]
  BY DEF NoDocs, MaybeBytes
<1>5. IdleWork \in Work
  BY <1>1, <1>2, <1>4, KnowledgeBaseConstants DEF IdleWork, Work, MaybeBytes
<1>6. QED
  BY <1>1, <1>2, <1>3, <1>5

LEMMA InitTyped == Init => TypeOK
<1> SUFFICES ASSUME Init PROVE TypeOK
  OBVIOUS
<1>1. gens \in [1..MaxGen -> Generation]
  BY DEF Init, Generation
<1>2. disk \in [Source -> File] /\ row \in [Source -> Row] /\ md \in [Source -> Artifact]
  BY EmptyTyped DEF Init
<1>3. QED
  BY <1>1, <1>2, EmptyTyped, KnowledgeBaseConstants DEF Init, TypeOK

LEMMA FreshTyped ==
  ASSUME NEW f \in File
  PROVE  Fresh(f) \in Row
  BY DEF Fresh, Row, File

LEMMA ObservedTyped ==
  ASSUME NEW o \in Row, NEW f \in File
  PROVE  Observed(o, f) \in Row
<1>1. StaleIfIndexed(o.idx) \in {"NOT_INDEXED", "INDEXED", "STALE"}
  BY DEF StaleIfIndexed, Row
<1>2. CASE f.bytes = o.sha
  BY <1>2 DEF Observed, Row, File
<1>3. CASE f.bytes # o.sha
  BY <1>1, <1>3 DEF Observed, Row, File
<1>4. QED
  BY <1>2, <1>3

LEMMA VanishedTyped ==
  ASSUME NEW o \in Row, NEW op
  PROVE  Vanished(o, op) \in Row
<1>1. StaleIfIndexed(o.idx) \in {"NOT_INDEXED", "INDEXED", "STALE"}
  BY DEF StaleIfIndexed, Row
<1>2. [o EXCEPT !.status = "MISSING", !.idx = StaleIfIndexed(@)] \in Row
  BY <1>1 DEF Row
<1>3. QED
  BY <1>2, EmptyTyped DEF Vanished

LEMMA AfterTyped ==
  ASSUME TypeOK, NEW r \in Request, NEW s \in Source
  PROVE  After(r, s) \in Row
<1>1. req[r].old[s] \in Row /\ req[r].found[s] \in File
  BY DEF TypeOK, RequestState
<1>2. QED
  BY <1>1, EmptyTyped, FreshTyped, ObservedTyped, VanishedTyped DEF After, Of

LEMMA SetRowTyped ==
  ASSUME TypeOK, NEW s \in Source, NEW new \in Row, SetRow(s, new)
  PROVE  row' \in [Source -> Row]
<1>1. work.loaded[s] \in Row /\ row[s] \in Row
  BY DEF TypeOK, Work
<1>2. Merge(work.loaded[s], new, row[s]) \in Row
  BY <1>1, MergeIsRow
<1>3. QED
  BY <1>2 DEF SetRow, TypeOK

\* The row a session has read, and changed in its status columns.
LEMMA RowEdits ==
  ASSUME NEW o \in Row
  PROVE  /\ [o EXCEPT !.status = "MISSING", !.conv = "FAILED"] \in Row
         /\ [o EXCEPT !.status = "MISSING", !.idx = StaleIfIndexed(@)] \in Row
         /\ [o EXCEPT !.conv = "READY", !.idx = StaleIfIndexed(@)] \in Row
         /\ \A c \in {"CONVERTING", "FAILED"} : [o EXCEPT !.conv = c] \in Row
<1>1. StaleIfIndexed(o.idx) \in {"NOT_INDEXED", "INDEXED", "STALE"}
  BY DEF StaleIfIndexed, Row
<1>2. QED
  BY <1>1 DEF Row

LEMMA BeginTyped ==
  ASSUME TypeOK, NEW r \in Request, NEW scope \in SUBSET Source,
         NEW op \in {"scan", "upload", "replace", "delete"},
         NEW step \in {"walk", "put", "purge"}, Begin(r, op, step, scope)
  PROVE  req' \in [Request -> RequestState]
<1> DEFINE old == [s \in Source |-> IF s \in scope THEN row[s] ELSE NoRow]
<1>1. old \in [Source -> Row]
  BY EmptyTyped DEF TypeOK
<1>2. [op |-> op, step |-> step, scope |-> scope, todo |-> scope, old |-> old,
       found |-> Unseen] \in RequestState
  BY <1>1, EmptyTyped DEF RequestState
<1>3. QED
  BY <1>2 DEF Begin, TypeOK

LEMMA RequestTyped ==
  ASSUME TypeOK, NEW r \in Request, Inventory(r)
  PROVE  TypeOK'
<1> USE DEF Of
<1>1. /\ req[r] \in RequestState /\ req[r].found \in [Source -> File]
      /\ \A s \in Source : disk[s] \in File
  BY DEF TypeOK, RequestState
<1>2. ASSUME NEW next \in RequestState, req' = [req EXCEPT ![r] = next]
      PROVE  req' \in [Request -> RequestState]
  BY <1>2 DEF TypeOK
<1>3. ASSUME NEW s \in Source, NEW f \in File
      PROVE  /\ [req[r].found EXCEPT ![s] = f] \in [Source -> File]
             /\ req[r].todo \ {s} \in SUBSET Source
  BY <1>1 DEF RequestState
<1>4. CASE StartScan(r)
  <2>1. req' \in [Request -> RequestState]
    BY <1>4, BeginTyped DEF StartScan
  <2>2. QED
    BY <2>1, <1>4 DEF StartScan, TypeOK
<1>5. CASE StartDelete(r)
  <2>1. req' \in [Request -> RequestState]
    BY <1>5, BeginTyped DEF StartDelete
  <2>2. QED
    BY <2>1, <1>5 DEF StartDelete, TypeOK
<1>6. ASSUME NEW s \in Source, StartPut(r, s)
      PROVE  TypeOK'
  <2>1. req' \in [Request -> RequestState]
    BY <1>6, BeginTyped DEF StartPut
  <2>2. QED
    BY <2>1, <1>6 DEF StartPut, TypeOK
<1>7. CASE Purge(r)
  <2>1. md' \in [Source -> Artifact]
    BY <1>7, EmptyTyped DEF Purge, TypeOK
  <2>2. req' \in [Request -> RequestState]
    BY <1>1, <1>7 DEF Purge, TypeOK, RequestState
  <2>3. QED
    BY <2>1, <2>2, <1>7 DEF Purge, TypeOK
<1>8. CASE Unlink(r)
  <2>1. \A s \in Source : [disk[s] EXCEPT !.bytes = Null] \in File
    BY <1>1 DEF File, MaybeBytes
  <2>2. disk' \in [Source -> File]
    BY <2>1, <1>1, <1>8 DEF Unlink, TypeOK
  <2>3. req' \in [Request -> RequestState]
    BY <1>1, <1>8 DEF Unlink, TypeOK, RequestState
  <2>4. QED
    BY <2>2, <2>3, <1>8 DEF Unlink, TypeOK
<1>9. CASE CommitRequest(r)
  <2>1. \A s \in Source : /\ req[r].old[s] \in Row /\ After(r, s) \in Row
                          /\ row[s] \in Row
    BY <1>1, AfterTyped DEF TypeOK, RequestState
  <2>2. \A s \in Source : Merge(req[r].old[s], After(r, s), row[s]) \in Row
    BY <2>1, MergeIsRow
  <2>3. row' \in [Source -> Row]
    BY <2>1, <2>2, <1>9 DEF CommitRequest
  <2>4. req' \in [Request -> RequestState]
    BY <1>9, <1>2, EmptyTyped DEF CommitRequest
  <2>5. QED
    BY <2>3, <2>4, <1>9 DEF CommitRequest, TypeOK
<1>10. CASE RequestFails(r)
  <2>1. req' \in [Request -> RequestState]
    BY <1>10, <1>2, EmptyTyped DEF RequestFails
  <2>2. QED
    BY <2>1, <1>10 DEF RequestFails, TypeOK
<1>11. ASSUME NEW s \in Source, ScanFile(r, s)
       PROVE  TypeOK'
  <2>1. req[r].old[s].sha \in MaybeBytes /\ disk[s].stamp \in 0..MaxStamp
    BY <1>1 DEF TypeOK, RequestState, Row, File
  <2>2. [bytes |-> req[r].old[s].sha, stamp |-> disk[s].stamp] \in File
    BY <2>1 DEF File
  <2> DEFINE f == IF disk[s].bytes = Null THEN disk[s]
                  ELSE [bytes |-> req[r].old[s].sha, stamp |-> disk[s].stamp]
             seen == [req[r] EXCEPT !.todo = req[r].todo \ {s},
                                    !.found = [req[r].found EXCEPT ![s] = f]]
             hashed == [req[r] EXCEPT !.step = "stat",
                                      !.found = [req[r].found EXCEPT ![s] = disk[s]]]
  <2>3. f \in File /\ disk[s] \in File
    BY <2>2, <1>1
  <2>4. seen \in RequestState /\ hashed \in RequestState
    BY <2>3, <1>1, <1>3 DEF RequestState
  <2>5. req' = [req EXCEPT ![r] = seen] \/ req' = [req EXCEPT ![r] = hashed]
    BY <1>1, <1>11 DEF ScanFile, TypeOK, RequestState
  <2>6. req' \in [Request -> RequestState]
    BY <2>4, <2>5, <1>2
  <2>7. QED
    BY <2>6, <1>11 DEF ScanFile, TypeOK
<1>12. ASSUME NEW s \in Source, Stat(r, s)
       PROVE  TypeOK'
  <2>1. [bytes |-> req[r].found[s].bytes, stamp |-> disk[s].stamp] \in File
    BY <1>1 DEF File
  <2> DEFINE f == IF disk[s].bytes = Null THEN disk[s]
                  ELSE [bytes |-> req[r].found[s].bytes, stamp |-> disk[s].stamp]
             next == [req[r] EXCEPT
                        !.todo = req[r].todo \ {s},
                        !.found = [req[r].found EXCEPT ![s] = f],
                        !.step = IF req[r].op = "scan" THEN "walk" ELSE "commit"]
  <2>2. f \in File
    BY <2>1, <1>1
  <2>3. next \in RequestState
    BY <2>2, <1>1, <1>3 DEF RequestState
  <2>4. req' = [req EXCEPT ![r] = next] \/ req' = [req EXCEPT ![r] = IdleRequest]
    BY <1>1, <1>12 DEF Stat, TypeOK, RequestState
  <2>5. req' \in [Request -> RequestState]
    BY <2>3, <2>4, <1>2, EmptyTyped
  <2>6. QED
    BY <2>5, <1>12 DEF Stat, TypeOK
<1>13. ASSUME NEW s \in Source, Put(r, s)
       PROVE  TypeOK'
  <2>1. PICK b \in Bytes : Write(s, b) /\
          req' = [req EXCEPT ![r].step = "stat", ![r].found[s] = [bytes |-> b, stamp |-> 0]]
    BY <1>13 DEF Put
  <2>2. disk' \in [Source -> File]
    BY <2>1, <1>1, KnowledgeBaseConstants DEF Write, File, MaybeBytes, TypeOK
  <2>3. [bytes |-> b, stamp |-> 0] \in File
    BY KnowledgeBaseConstants DEF File, MaybeBytes
  <2>4. req' \in [Request -> RequestState]
    BY <2>1, <2>3, <1>1 DEF TypeOK, RequestState
  <2>5. QED
    BY <2>2, <2>4, <1>13 DEF Put, TypeOK
<1>14. QED
  BY <1>4, <1>5, <1>6, <1>7, <1>8, <1>9, <1>10, <1>11, <1>12, <1>13 DEF Inventory

\* Every step of a conversion leaves a row, an artifact and the Worker typed.
LEMMA ConversionTyped ==
  ASSUME TypeOK, NEW s \in Source, Convert(s)
  PROVE  TypeOK'
<1>1. /\ work \in Work /\ work.loaded[s] \in Row /\ row[s] \in Row
      /\ row \in [Source -> Row] /\ md[s] \in Artifact /\ md \in [Source -> Artifact]
      /\ work.kept \in Artifact /\ work.sha \in MaybeBytes
  BY DEF TypeOK, Work
<1>2. IdleWork \in Work /\ NoArtifact \in Artifact
  BY EmptyTyped
<1>3. FailConversion(s) => row' \in [Source -> Row] /\ work' \in Work
  <2>1. [work.loaded[s] EXCEPT !.conv = "FAILED"] \in Row
    BY <1>1, RowEdits
  <2>2. QED
    BY <2>1, <1>2, SetRowTyped DEF FailConversion
<1>4. CASE StartConversion(s)
  <2>1. row' \in [Source -> Row]
    <3>1. [row[s] EXCEPT !.status = "MISSING", !.conv = "FAILED"] \in Row
      BY <1>1, RowEdits
    <3>2. [row[s] EXCEPT !.conv = "CONVERTING"] \in Row
      BY <1>1, RowEdits
    <3>3. \/ row' = [row EXCEPT ![s] = [row[s] EXCEPT !.status = "MISSING",
                                                       !.conv = "FAILED"]]
          \/ row' = [row EXCEPT ![s] = [row[s] EXCEPT !.conv = "CONVERTING"]]
      BY <1>1, <1>4 DEF StartConversion, Row
    <3>4. QED
      BY <3>1, <3>2, <3>3, <1>1
  <2>2. work' \in Work
    <3> DEFINE loaded == [work.loaded EXCEPT ![s] = row'[s]]
               next == [work EXCEPT !.pc = "verify", !.todo = {s}, !.sha = row[s].sha,
                                    !.loaded = loaded]
    <3>1. loaded \in [Source -> Row]
      BY <2>1, <1>1 DEF Work
    <3>2. row[s].sha \in MaybeBytes
      BY <1>1 DEF Row
    <3>3. next \in Work
      BY <3>1, <3>2, <1>1 DEF Work
    <3>4. work' = work \/ work' = next
      BY <1>1, <1>4 DEF StartConversion, Work
    <3>5. QED
      BY <3>3, <3>4, <1>1
  <2>3. QED
    BY <2>1, <2>2, <1>4 DEF StartConversion, TypeOK
<1>5. CASE VerifyHash(s)
  <2>1. [work EXCEPT !.pc = "stage"] \in Work
    BY <1>1 DEF Work
  <2>2. row' \in [Source -> Row] /\ work' \in Work
    BY <2>1, <1>1, <1>2, <1>3, <1>5 DEF VerifyHash
  <2>3. QED
    BY <2>2, <1>5 DEF VerifyHash, TypeOK
<1>6. CASE StageArtifact(s)
  <2>1. [work EXCEPT !.pc = "check"] \in Work
    BY <1>1 DEF Work
  <2>2. row' \in [Source -> Row] /\ work' \in Work
    BY <2>1, <1>1, <1>2, <1>3, <1>6 DEF StageArtifact
  <2>3. QED
    BY <2>2, <1>6 DEF StageArtifact, TypeOK
<1>7. CASE CheckSource(s)
  <2> DEFINE loaded == [work.loaded EXCEPT ![s] = row[s]]
             next == [work EXCEPT !.pc = "move", !.loaded = loaded]
             failed == [row[s] EXCEPT !.conv = "FAILED"]
  <2>1. next \in Work
    <3>1. loaded \in [Source -> Row]
      BY <1>1 DEF Work
    <3>2. QED
      BY <3>1, <1>1 DEF Work
  <2>2. failed \in Row
    BY <1>1, RowEdits
  <2>3. work' \in {next, IdleWork} /\ row' \in {row, [row EXCEPT ![s] = failed]}
    BY <1>1, <1>7 DEF CheckSource, Work
  <2>4. row' \in [Source -> Row] /\ work' \in Work
    BY <2>1, <2>2, <2>3, <1>1, <1>2
  <2>5. QED
    BY <2>4, <1>7 DEF CheckSource, TypeOK
<1>8. CASE MoveAside(s)
  <2>1. [work EXCEPT !.pc = "swap", !.kept = md[s]] \in Work
    BY <1>1 DEF Work
  <2>2. QED
    BY <2>1, <1>1, <1>2, <1>8 DEF MoveAside, TypeOK
<1>9. CASE SwapIn(s)
  <2>1. [work EXCEPT !.pc = "ready", !.kept = NoArtifact] \in Work
    BY <1>1, <1>2 DEF Work
  <2>2. [sha |-> work.sha, card |-> Null] \in Artifact
    BY <1>1 DEF Artifact, MaybeBytes
  <2>3. md' \in [Source -> Artifact]
    BY <2>2, <1>1, <1>9 DEF SwapIn
  <2>4. row' \in [Source -> Row] /\ work' \in Work
    BY <2>1, <1>1, <1>3, <1>9 DEF SwapIn
  <2>5. QED
    BY <2>3, <2>4, <1>9 DEF SwapIn, TypeOK
<1>10. CASE MarkReady(s)
  <2>1. [work.loaded[s] EXCEPT !.conv = "READY", !.idx = StaleIfIndexed(@)] \in Row
    BY <1>1, RowEdits
  <2>2. row' \in [Source -> Row]
    BY <2>1, <1>10, SetRowTyped DEF MarkReady
  <2>3. QED
    BY <2>2, <1>2, <1>10 DEF MarkReady, TypeOK
<1>11. QED
  BY <1>4, <1>5, <1>6, <1>7, <1>8, <1>9, <1>10 DEF Convert

\* Every step of a build leaves the generations, the rows and the Worker typed.
LEMMA BuildTyped ==
  ASSUME TypeOK, Build
  PROVE  TypeOK'
<1>1. /\ work \in Work /\ work.loaded \in [Source -> Row] /\ work.gen \in 0..MaxGen
      /\ work.prev \in 0..MaxGen /\ work.todo \in SUBSET Source
      /\ work.staged \in [Source -> MaybeBytes]
      /\ md \in [Source -> Artifact] /\ row \in [Source -> Row]
      /\ gens \in [1..MaxGen -> Generation]
  BY DEF TypeOK, Work
<1>2. IdleWork \in Work
  BY EmptyTyped
<1>3. ASSUME NEW label \in {"inventory", "load", "cards", "place", "point", "commit"}
      PROVE  [work EXCEPT !.pc = label] \in Work
  BY <1>1 DEF Work
<1>4. ASSUME NEW status \in {"VALIDATED", "FAILED"}, SetGeneration(status)
      PROVE  gens' \in [1..MaxGen -> Generation]
  BY <1>1, <1>4 DEF SetGeneration, Generation
<1>5. Refreshed \in SUBSET Source
  BY DEF Refreshed, Eligible
<1>6. CASE CreateGeneration
  <2>1. PICK n \in 1..MaxGen :
          /\ gens' = [m \in 1..MaxGen |->
               IF m = n THEN [gens[m] EXCEPT !.status = "BUILDING"]
               ELSE IF gens[m].status \in {"BUILDING", "VALIDATED"}
               THEN [gens[m] EXCEPT !.status = "FAILED"] ELSE gens[m]]
          /\ work' = [work EXCEPT !.pc = "inventory", !.gen = n]
    BY <1>6 DEF CreateGeneration
  <2>2. gens' \in [1..MaxGen -> Generation]
    BY <2>1, <1>1 DEF Generation
  <2>3. n \in 0..MaxGen
    OBVIOUS
  <2>4. [work EXCEPT !.pc = "inventory", !.gen = n] \in Work
    BY <2>3, <1>1 DEF Work
  <2>5. QED
    BY <2>1, <2>2, <2>4, <1>6 DEF CreateGeneration, TypeOK
<1>7. CASE ReadInventory
  <2>1. work' \in Work
    BY <1>1, <1>7 DEF ReadInventory, Work
  <2>2. QED
    BY <2>1, <1>7 DEF ReadInventory, TypeOK
<1>8. ASSUME NEW s \in Source, LoadDocument(s)
      PROVE  TypeOK'
  <2> DEFINE doc == IF s \in Refreshed THEN Null ELSE md[s].card
             staged == [work.staged EXCEPT ![s] = doc]
  <2>1. staged \in [Source -> MaybeBytes]
    BY <1>1 DEF Artifact, MaybeBytes
  <2>2. [work EXCEPT !.todo = work.todo \ {s}, !.staged = staged] \in Work
    BY <2>1, <1>1 DEF Work
  <2>3. work' = [work EXCEPT !.todo = work.todo \ {s}, !.staged = staged]
    BY <1>1, <1>8 DEF LoadDocument, Work
  <2>4. QED
    BY <2>2, <2>3, <1>8 DEF LoadDocument, TypeOK
<1>9. CASE PlanCards
  <2>1. work' \in Work
    BY <1>1, <1>5, <1>9 DEF PlanCards, Work
  <2>2. QED
    BY <2>1, <1>9 DEF PlanCards, TypeOK
<1>10. ASSUME NEW s \in Source, GenerateCard(s)
       PROVE  TypeOK'
  <2> DEFINE sha == work.loaded[s].sha
             staged == [work.staged EXCEPT ![s] = sha]
  <2>1. sha \in MaybeBytes
    BY <1>1 DEF Row
  <2>2. [work EXCEPT !.todo = work.todo \ {s}, !.staged = staged] \in Work
    BY <2>1, <1>1 DEF Work
  <2>3. work' = [work EXCEPT !.todo = work.todo \ {s}, !.staged = staged]
    BY <1>1, <1>10 DEF GenerateCard, Work
  <2>4. [md[s] EXCEPT !.card = sha] \in Artifact
    BY <2>1, <1>1 DEF Artifact
  <2>5. md' \in [Source -> Artifact]
    BY <2>4, <1>1, <1>10 DEF GenerateCard
  <2>6. QED
    BY <2>2, <2>3, <2>5, <1>10 DEF GenerateCard, TypeOK
<1>11. CASE ValidateGeneration
  BY <1>3, <1>4, <1>11 DEF ValidateGeneration, TypeOK
<1>12. CASE PlaceGeneration
  <2>1. gens' \in [1..MaxGen -> Generation]
    BY <1>1, <1>12 DEF PlaceGeneration, Generation
  <2>2. QED
    BY <2>1, <1>3, <1>12 DEF PlaceGeneration, TypeOK
<1>13. CASE PointToGeneration
  <2>1. work' \in Work
    BY <1>1, <1>13 DEF PointToGeneration, TypeOK, Work
  <2>2. QED
    BY <2>1, <1>1, <1>13 DEF PointToGeneration, TypeOK
<1>14. CASE CommitActivation
  <2>1. gens' \in [1..MaxGen -> Generation]
    BY <1>1, <1>14 DEF CommitActivation, Generation
  <2>2. ASSUME NEW s \in Source, NEW o \in Row
        PROVE  Merge(o, [o EXCEPT !.idx = Activated(s, @)], row[s]) \in Row
    <3>1. Activated(s, o.idx) \in {"NOT_INDEXED", "INDEXED", "STALE"}
      BY DEF Activated, StaleIfIndexed, Row
    <3>2. [o EXCEPT !.idx = Activated(s, @)] \in Row
      BY <3>1 DEF Row
    <3>3. QED
      BY <3>2, <1>1, MergeIsRow
  <2>3. row' \in [Source -> Row]
    BY <2>2, <1>1, <1>14 DEF CommitActivation
  <2>4. QED
    BY <2>1, <2>3, <1>2, <1>14 DEF CommitActivation, TypeOK
<1>15. CASE UndoActivation
  BY <1>1, <1>2, <1>4, <1>15 DEF UndoActivation, TypeOK
<1>16. CASE BuildFails
  BY <1>2, <1>4, <1>16 DEF BuildFails, TypeOK
<1>17. QED
  BY <1>6, <1>7, <1>8, <1>9, <1>10, <1>11, <1>12, <1>13, <1>14, <1>15, <1>16
  DEF Build

LEMMA EnvironmentTyped ==
  ASSUME TypeOK, NEW s \in Source, DownloadMissing(s) \/ EditFile(s) \/ WorkerCrash
  PROVE  TypeOK'
<1>1. CASE DownloadMissing(s)
  <2>1. [row[s] EXCEPT !.status = "MISSING", !.idx = StaleIfIndexed(@)] \in Row
    BY RowEdits DEF TypeOK
  <2>2. row' = [row EXCEPT ![s] =
          [row[s] EXCEPT !.status = "MISSING", !.idx = StaleIfIndexed(@)]]
    BY <1>1 DEF DownloadMissing, TypeOK, Row
  <2>3. row' \in [Source -> Row]
    BY <2>1, <2>2 DEF TypeOK
  <2>4. QED
    BY <2>3, <1>1 DEF DownloadMissing, TypeOK
<1>2. CASE EditFile(s)
  <2>1. disk' \in [Source -> File]
    BY <1>2, KnowledgeBaseConstants DEF EditFile, Write, File, TypeOK
  <2>2. QED
    BY <2>1, <1>2 DEF EditFile, TypeOK
<1>3. CASE WorkerCrash
  BY <1>3, EmptyTyped DEF WorkerCrash, TypeOK
<1>4. QED
  BY <1>1, <1>2, <1>3

\* Whatever requests, edits, builds, failures and crashes do, in any order, every
\* file, row, artifact and generation keeps its type (models/source_file.py and
\* models/index_generation.py state the same as CHECK constraints).
THEOREM KnowledgeBaseTypesHold == Spec => []TypeOK
<1>1. TypeOK /\ [Next]_vars => TypeOK'
  <2> SUFFICES ASSUME TypeOK, [Next]_vars PROVE TypeOK'
    OBVIOUS
  <2>1. CASE UNCHANGED vars
    BY <2>1 DEF vars, TypeOK
  <2>2. CASE WorkerCrash
    BY <2>2, EmptyTyped DEF WorkerCrash, TypeOK
  <2>3. CASE Next /\ ~WorkerCrash
    BY <2>3, RequestTyped, ConversionTyped, BuildTyped, EnvironmentTyped DEF Next
  <2>4. QED
    BY <2>1, <2>2, <2>3
<1>2. QED
  BY <1>1, InitTyped, PTL DEF Spec

-----------------------------------------------------------------------------
(* The live index                                                          *)

Staging == {"inventory", "load", "cards", "place"}
Building == Staging \union {"point", "commit"}

Whole(n) == gens[n].docs # Null /\ gens[n].status \notin {"NONE", "BUILDING"}

\* The inductive invariant.  That the live generation is whole is not inductive:
\* one must know that the build in progress owns the newest generation, that the
\* pointer does not name it before the commit and names it during the commit, and
\* that what the pointer would be put back to is whole as well.
IndexInv ==
  /\ LiveGenerationIsWhole
  /\ \A n \in 1..MaxGen : gens[n].status = "NONE" => gens[n].docs = Null
  /\ work.pc \in Building =>
       /\ work.gen \in 1..MaxGen
       /\ \A n \in 1..MaxGen : gens[n].status = "NONE" <=> n > work.gen
       /\ gens[work.gen].status =
            IF work.pc \in {"inventory", "load", "cards"} THEN "BUILDING" ELSE "VALIDATED"
       /\ work.pc \in Staging <=> gens[work.gen].docs = Null
       /\ Settled < work.gen
  /\ work.pc = "commit" =>
       /\ pointer = work.gen
       /\ work.prev # 0 => Whole(work.prev)

LEMMA IndexInit == Init => IndexInv
  BY KnowledgeBaseConstants
  DEF Init, IndexInv, LiveGenerationIsWhole, IdleWork, Building, Staging

\* What the invariant is about.
IndexVars == <<gens, pointer, work>>

\* A step that leaves the generations and the pointer alone, and either leaves the
\* Worker alone too or ends or starts something that is not a build.
LEMMA IndexUntouched ==
  ASSUME IndexInv, UNCHANGED <<gens, pointer>>,
         \/ UNCHANGED work
         \/ work.pc # "commit" /\ work'.pc \notin Building
         \/ work'.pc \notin Building /\ WorkerCrash
  PROVE  IndexInv'
  BY DEF IndexInv, LiveGenerationIsWhole, Whole, Settled, Building, Staging

\* A conversion is not a build, before and after each of its steps.
LEMMA ConversionIsNoBuild ==
  ASSUME TypeOK, NEW s \in Source, Convert(s)
  PROVE  work'.pc \notin Building /\ work.pc \notin Building /\ UNCHANGED <<gens, pointer>>
<1>1. IdleWork.pc = "idle"
  BY DEF IdleWork
<1>2. work \in Work
  BY DEF TypeOK
<1> USE <1>1, <1>2 DEF Building, Staging
<1>3. CASE StartConversion(s)
  BY <1>3 DEF StartConversion, Work
<1>4. CASE VerifyHash(s)
  BY <1>4 DEF VerifyHash, FailConversion, Work
<1>5. CASE StageArtifact(s)
  BY <1>5 DEF StageArtifact, FailConversion, Work
<1>6. CASE CheckSource(s)
  BY <1>6 DEF CheckSource, Work
<1>7. CASE MoveAside(s)
  BY <1>7 DEF MoveAside, Work
<1>8. CASE SwapIn(s)
  BY <1>8 DEF SwapIn, FailConversion, Work
<1>9. CASE MarkReady(s)
  BY <1>9 DEF MarkReady
<1>10. QED
  BY <1>3, <1>4, <1>5, <1>6, <1>7, <1>8, <1>9 DEF Convert

LEMMA BuildKeepsIndex ==
  ASSUME TypeOK, IndexInv, Build
  PROVE  IndexInv'
<1>1. IdleWork.pc = "idle" /\ IdleWork.pc \notin Building
  BY DEF IdleWork, Building, Staging
<1>2. /\ work \in Work /\ gens \in [1..MaxGen -> Generation] /\ pointer \in 0..MaxGen
      /\ work.prev \in 0..MaxGen /\ MaxGen \in Nat
  BY KnowledgeBaseConstants DEF TypeOK, Work
<1> USE <1>2 DEF IndexInv, LiveGenerationIsWhole, Whole, Settled
<1>3. CASE CreateGeneration
  <2>1. PICK n \in 1..MaxGen :
          /\ \A m \in 1..MaxGen : gens[m].status = "NONE" <=> m >= n
          /\ gens' = [m \in 1..MaxGen |->
               IF m = n THEN [gens[m] EXCEPT !.status = "BUILDING"]
               ELSE IF gens[m].status \in {"BUILDING", "VALIDATED"}
               THEN [gens[m] EXCEPT !.status = "FAILED"] ELSE gens[m]]
          /\ work' = [work EXCEPT !.pc = "inventory", !.gen = n]
    BY <1>3 DEF CreateGeneration
  <2>2. work'.pc = "inventory" /\ work'.gen = n /\ pointer' = pointer
    BY <2>1, <1>3 DEF CreateGeneration, Work
  <2>3. \A m \in 1..MaxGen :
          /\ gens'[m].docs = gens[m].docs
          /\ gens'[m].status = IF m = n THEN "BUILDING"
                               ELSE IF gens[m].status \in {"BUILDING", "VALIDATED"}
                               THEN "FAILED" ELSE gens[m].status
    BY <2>1 DEF Generation
  <2>4. pointer < n /\ gens[n].status = "NONE" /\ gens[n].docs = Null
    BY <2>1
  <2>5. LiveGenerationIsWhole'
    BY <2>2, <2>3, <2>4
  <2>6. \A m \in 1..MaxGen : gens'[m].status = "NONE" <=> m > n
    BY <2>1, <2>3
  <2>7. \A m \in 1..MaxGen : gens'[m].status = "NONE" => gens'[m].docs = Null
    BY <2>1, <2>3
  <2>8. gens'[n].status = "BUILDING" /\ gens'[n].docs = Null
    BY <2>3, <2>4
  <2>9. QED
    BY <2>2, <2>4, <2>5, <2>6, <2>7, <2>8 DEF Building, Staging
<1>4. CASE ReadInventory \/ PlanCards \/ \E s \in Source : LoadDocument(s) \/ GenerateCard(s)
  <2>1. /\ UNCHANGED <<gens, pointer>> /\ work'.gen = work.gen
        /\ work.pc \in {"inventory", "load", "cards"}
        /\ work'.pc \in {"inventory", "load", "cards"}
    <3>1. CASE ReadInventory
      BY <3>1 DEF ReadInventory, Work
    <3>2. CASE PlanCards
      BY <3>2 DEF PlanCards, Work
    <3>3. ASSUME NEW s \in Source, LoadDocument(s) \/ GenerateCard(s)
          PROVE  /\ UNCHANGED <<gens, pointer>> /\ work'.gen = work.gen
                 /\ work.pc \in {"inventory", "load", "cards"}
                 /\ work'.pc \in {"inventory", "load", "cards"}
      BY <3>3 DEF LoadDocument, GenerateCard, Work
    <3>4. QED
      BY <1>4, <3>1, <3>2, <3>3
  <2>2. QED
    BY <2>1 DEF Building, Staging
<1>5. ASSUME NEW status, SetGeneration(status), work.gen \in 1..MaxGen
      PROVE  \A n \in 1..MaxGen : /\ gens'[n].docs = gens[n].docs
                                  /\ gens'[n].status = IF n = work.gen THEN status
                                                       ELSE gens[n].status
  BY <1>5 DEF SetGeneration, Generation
<1>6. CASE ValidateGeneration
  <2>1. /\ work.pc = "cards" /\ work'.pc = "place" /\ work'.gen = work.gen
        /\ pointer' = pointer /\ SetGeneration("VALIDATED")
    BY <1>6 DEF ValidateGeneration, Work
  <2>2. QED
    BY <2>1, <1>5 DEF Building, Staging
<1>7. CASE PlaceGeneration
  <2>1. /\ work.pc = "place" /\ work'.pc = "point" /\ work'.gen = work.gen
        /\ pointer' = pointer /\ work.gen \in 1..MaxGen
    BY <1>7 DEF PlaceGeneration, Work, Building, Staging
  <2>2. work.staged # Null
    <3>1. work.staged \in [Source -> Bytes \union {Null}]
      BY DEF Work, MaybeBytes
    <3>2. QED
      BY <3>1, KnowledgeBaseConstants
  <2>3. \A n \in 1..MaxGen : /\ gens'[n].status = gens[n].status
                             /\ gens'[n].docs = IF n = work.gen THEN work.staged
                                                ELSE gens[n].docs
    BY <2>1, <1>7 DEF PlaceGeneration, Generation
  <2>4. QED
    BY <2>1, <2>2, <2>3 DEF Building, Staging
<1>8. CASE PointToGeneration
  <2>1. /\ work.pc = "point" /\ work'.pc = "commit" /\ work'.gen = work.gen
        /\ pointer' = work.gen /\ work'.prev = pointer /\ gens' = gens
    BY <1>8 DEF PointToGeneration, Work
  <2>2. QED
    BY <2>1 DEF Building, Staging
<1>9. CASE CommitActivation
  <2>1. work.pc = "commit" /\ work'.pc \notin Building /\ pointer' = pointer
    BY <1>1, <1>9 DEF CommitActivation
  <2>2. \A n \in 1..MaxGen : /\ gens'[n].docs = gens[n].docs
                             /\ gens'[n].status =
                                  IF n = work.gen THEN "ACTIVE"
                                  ELSE IF gens[n].status = "ACTIVE" THEN "SUPERSEDED"
                                  ELSE gens[n].status
    BY <1>9 DEF CommitActivation, Generation
  <2>3. work.gen \in 1..MaxGen /\ pointer = work.gen /\ gens[pointer].docs # Null
        /\ gens[work.gen].status = "VALIDATED"
    BY <2>1 DEF Building, Staging
  <2>4. QED
    BY <2>1, <2>2, <2>3 DEF Building, Staging
<1>10. CASE UndoActivation
  <2>1. /\ work.pc = "commit" /\ work'.pc \notin Building /\ pointer' = work.prev
        /\ SetGeneration("FAILED") /\ work.gen \in 1..MaxGen
    BY <1>1, <1>10 DEF UndoActivation, Building
  <2>2. QED
    BY <2>1, <1>5 DEF Building, Staging
<1>11. CASE BuildFails
  <2>1. /\ work.pc \in Building /\ work'.pc \notin Building /\ pointer' = pointer
        /\ SetGeneration("FAILED") /\ work.gen \in 1..MaxGen
    BY <1>1, <1>11 DEF BuildFails, Building, Staging
  <2>2. QED
    BY <2>1, <1>5 DEF Building, Staging
<1>12. QED
  BY <1>3, <1>4, <1>6, <1>7, <1>8, <1>9, <1>10, <1>11 DEF Build

LEMMA IndexStep == TypeOK /\ IndexInv /\ [Next]_vars => IndexInv'
<1> SUFFICES ASSUME TypeOK, IndexInv, [Next]_vars PROVE IndexInv'
  OBVIOUS
<1>1. CASE UNCHANGED vars
  BY <1>1, IndexUntouched DEF vars
<1>2. ASSUME NEW r \in Request, Inventory(r)
      PROVE  UNCHANGED IndexVars
  BY <1>2 DEF IndexVars, Inventory, StartScan, StartDelete, Purge, Unlink, CommitRequest,
       RequestFails, StartPut, ScanFile, Stat, Put
<1>3. ASSUME NEW s \in Source, DownloadMissing(s) \/ EditFile(s)
      PROVE  UNCHANGED IndexVars
  BY <1>3 DEF IndexVars, DownloadMissing, EditFile
<1>4. CASE WorkerCrash
  <2>1. work'.pc = "idle"
    BY <1>4 DEF WorkerCrash, IdleWork
  <2>2. QED
    BY <2>1, <1>4, IndexUntouched DEF WorkerCrash, Building, Staging
<1>5. ASSUME NEW s \in Source, Convert(s)
      PROVE  IndexInv'
  BY <1>5, ConversionIsNoBuild, IndexUntouched DEF Building
<1>6. QED
  BY <1>1, <1>2, <1>3, <1>4, <1>5, BuildKeepsIndex, IndexUntouched DEF Next, IndexVars

LEMMA IndexInvHolds == Spec => [](TypeOK /\ IndexInv)
  BY KnowledgeBaseTypesHold, IndexInit, IndexStep, PTL DEF Spec

\* Whatever fails or dies, current.json names a validated generation that is in
\* place (build_and_activate validates and places before _activate points).
THEOREM LiveGenerationIsWholeHolds == Spec => []LiveGenerationIsWhole
  BY IndexInvHolds, PTL DEF IndexInv

-----------------------------------------------------------------------------
(* What a step may do to the live index.                                   *)

SameActive == \A n \in 1..MaxGen : Active(n)' <=> Active(n)
SameDocs == \A n \in 1..MaxGen : gens'[n].docs = gens[n].docs
SamePlace == pointer' = pointer /\ Settled' = Settled

Steady == SameActive /\ SameDocs /\ SamePlace
Placing ==
  /\ SameActive /\ SamePlace
  /\ \E n \in 1..MaxGen :
       /\ gens[n].docs = Null
       /\ \E docs \in [Source -> MaybeBytes] :
            gens' = [gens EXCEPT ![n].docs = docs]
Pointing ==
  /\ SameActive /\ SameDocs
  /\ pointer = Settled /\ Settled' = Settled
  /\ \E n \in 1..MaxGen : n > pointer /\ gens[n].docs # Null /\ pointer' = n
Committing ==
  /\ CommitActivation /\ SameDocs
  /\ pointer' = pointer /\ Settled' = pointer /\ pointer \in 1..MaxGen
  /\ \A n \in 1..MaxGen : Active(n)' <=> n = pointer
Undoing == SameActive /\ SameDocs /\ pointer' = Settled /\ Settled' = Settled
Dying == WorkerCrash /\ UNCHANGED <<gens, pointer>> /\ Settled' = pointer

\* A step that is no part of a build or a crash leaves the live index as it is.
LEMMA OutsideBuilds ==
  ASSUME UNCHANGED IndexVars
  PROVE  Steady
  BY DEF IndexVars, Steady, SameActive, SameDocs, SamePlace, Settled, Active

LEMMA BuildSteps ==
  ASSUME TypeOK, IndexInv, Build
  PROVE  Steady \/ Placing \/ Pointing \/ Committing \/ Undoing
<1>1. IdleWork.pc = "idle"
  BY DEF IdleWork
<1>2. /\ work \in Work /\ gens \in [1..MaxGen -> Generation] /\ pointer \in 0..MaxGen
      /\ work.prev \in 0..MaxGen /\ MaxGen \in Nat
  BY KnowledgeBaseConstants DEF TypeOK, Work
<1>3. work.pc \in Building =>
        /\ work.gen \in 1..MaxGen /\ ~Active(work.gen) /\ Settled < work.gen
        /\ work.pc \in Staging <=> gens[work.gen].docs = Null
  BY DEF IndexInv, Active
<1> USE <1>2 DEF Settled, Active
<1>4. ASSUME NEW status \in {"VALIDATED", "FAILED"}, SetGeneration(status),
             work.pc \in Building
      PROVE  SameActive /\ SameDocs
  BY <1>3, <1>4 DEF SetGeneration, Generation, SameActive, SameDocs
<1>5. CASE CreateGeneration
  <2>1. PICK n \in 1..MaxGen :
          /\ \A m \in 1..MaxGen : gens[m].status = "NONE" <=> m >= n
          /\ gens' = [m \in 1..MaxGen |->
               IF m = n THEN [gens[m] EXCEPT !.status = "BUILDING"]
               ELSE IF gens[m].status \in {"BUILDING", "VALIDATED"}
               THEN [gens[m] EXCEPT !.status = "FAILED"] ELSE gens[m]]
    BY <1>5 DEF CreateGeneration
  <2>2. gens[n].status = "NONE"
    BY <2>1
  <2>3. SameActive /\ SameDocs
    BY <2>1, <2>2 DEF SameActive, SameDocs, Generation
  <2>4. SamePlace
    BY <1>5 DEF CreateGeneration, SamePlace, Work
  <2>5. QED
    BY <2>3, <2>4 DEF Steady
<1>6. CASE ReadInventory \/ PlanCards \/ \E s \in Source : LoadDocument(s) \/ GenerateCard(s)
  <2>1. UNCHANGED <<gens, pointer>> /\ work.pc # "commit" /\ work'.pc # "commit"
    BY <1>6 DEF ReadInventory, PlanCards, LoadDocument, GenerateCard, Work
  <2>2. QED
    BY <2>1 DEF Steady, SameActive, SameDocs, SamePlace
<1>7. CASE ValidateGeneration \/ BuildFails
  <2>1. /\ work.pc \in Building /\ work.pc # "commit" /\ work'.pc # "commit"
        /\ pointer' = pointer
        /\ SetGeneration("VALIDATED") \/ SetGeneration("FAILED")
    BY <1>1, <1>7 DEF ValidateGeneration, BuildFails, Building, Staging, Work
  <2>2. QED
    BY <2>1, <1>4 DEF Steady, SamePlace
<1>8. CASE PlaceGeneration
  <2>1. /\ work.pc = "place" /\ work'.pc = "point" /\ pointer' = pointer
        /\ gens' = [gens EXCEPT ![work.gen].docs = work.staged]
    BY <1>8 DEF PlaceGeneration, Work
  <2>2. work.gen \in 1..MaxGen /\ gens[work.gen].docs = Null
        /\ work.staged \in [Source -> MaybeBytes]
    BY <2>1, <1>3 DEF Building, Staging, Work
  <2>3. SameActive /\ SamePlace
    BY <2>1, <2>2 DEF SameActive, SamePlace, Generation
  <2>4. QED
    BY <2>1, <2>2, <2>3 DEF Placing
<1>9. CASE PointToGeneration
  <2>1. /\ work.pc = "point" /\ work'.pc = "commit" /\ work'.prev = pointer
        /\ pointer' = work.gen /\ gens' = gens
    BY <1>9 DEF PointToGeneration, Work
  <2>2. work.gen \in 1..MaxGen /\ work.gen > pointer /\ gens[work.gen].docs # Null
    BY <2>1, <1>3 DEF Building, Staging
  <2>3. QED
    BY <2>1, <2>2 DEF Pointing, SameActive, SameDocs
<1>10. CASE CommitActivation
  <2>1. work.pc = "commit" /\ work'.pc = "idle" /\ pointer' = pointer
    BY <1>1, <1>10 DEF CommitActivation
  <2>2. pointer = work.gen /\ work.gen \in 1..MaxGen
    BY <2>1, <1>3 DEF IndexInv, Building
  <2>3. \A n \in 1..MaxGen : /\ gens'[n].docs = gens[n].docs
                             /\ gens'[n].status = "ACTIVE" <=> n = work.gen
    BY <1>10 DEF CommitActivation, Generation
  <2>4. QED
    BY <1>10, <2>1, <2>2, <2>3 DEF Committing, SameDocs
<1>11. CASE UndoActivation
  <2>1. /\ work.pc = "commit" /\ work'.pc = "idle" /\ pointer' = work.prev
        /\ SetGeneration("FAILED") /\ work.pc \in Building
    BY <1>1, <1>11 DEF UndoActivation, Building
  <2>2. QED
    BY <2>1, <1>4 DEF Undoing
<1>12. QED
  BY <1>5, <1>6, <1>7, <1>8, <1>9, <1>10, <1>11 DEF Build

LEMMA IndexSteps ==
  ASSUME TypeOK, IndexInv, [Next]_vars
  PROVE  Steady \/ Placing \/ Pointing \/ Committing \/ Undoing \/ Dying
<1>1. work \in Work
  BY DEF TypeOK
<1>2. CASE UNCHANGED vars
  BY <1>2, OutsideBuilds DEF vars, IndexVars
<1>3. ASSUME NEW r \in Request, Inventory(r)
      PROVE  UNCHANGED IndexVars
  BY <1>3 DEF IndexVars, Inventory, StartScan, StartDelete, Purge, Unlink, CommitRequest,
       RequestFails, StartPut, ScanFile, Stat, Put
<1>4. ASSUME NEW s \in Source, DownloadMissing(s) \/ EditFile(s)
      PROVE  UNCHANGED IndexVars
  BY <1>4 DEF IndexVars, DownloadMissing, EditFile
<1>5. CASE WorkerCrash
  BY <1>5 DEF WorkerCrash, IdleWork, Dying, Settled
<1>6. ASSUME NEW s \in Source, Convert(s)
      PROVE  Steady
  <2>1. work'.pc \notin Building /\ work.pc \notin Building /\ UNCHANGED <<gens, pointer>>
    BY <1>6, ConversionIsNoBuild
  <2>2. QED
    BY <2>1 DEF Building, Steady, SameActive, SameDocs, SamePlace, Settled, Active
<1>7. QED
  BY <1>2, <1>3, <1>4, <1>5, <1>6, BuildSteps, OutsideBuilds DEF Next, IndexVars

-----------------------------------------------------------------------------
AtMostOneActive == \A m, n \in 1..MaxGen : Active(m) /\ Active(n) => m = n

LEMMA OneActiveHolds == Spec => []AtMostOneActive
<1>1. Init => AtMostOneActive
  BY DEF Init, AtMostOneActive, Active
<1>2. TypeOK /\ IndexInv /\ AtMostOneActive /\ [Next]_vars => AtMostOneActive'
  BY IndexSteps
  DEF AtMostOneActive, Steady, Placing, Pointing, Committing, Undoing, Dying, SameActive,
      Active
<1>3. QED
  BY <1>1, <1>2, IndexInvHolds, PTL DEF Spec

\* No failed or interrupted build retires the live generation: its successor's
\* activation does, in the same commit (the UPDATE of _activate).
THEOREM RetiredOnlyBySuccessorHolds == Spec => RetiredOnlyBySuccessor
<1> DEFINE Kept == (\E n \in 1..MaxGen : Active(n)) =>
                     \E m \in 1..MaxGen : Active(m)' /\ \A n \in 1..MaxGen : Active(n)' => n = m
<1>1. TypeOK /\ IndexInv /\ AtMostOneActive /\ [Next]_vars => Kept
  BY IndexSteps
  DEF AtMostOneActive, Steady, Placing, Pointing, Committing, Undoing, Dying, SameActive,
      Active
<1>2. QED
  BY <1>1, IndexInvHolds, OneActiveHolds, PTL DEF Spec, RetiredOnlyBySuccessor

\* Only the death of the Worker between the write of current.json and the commit of
\* the activation can part the file from the table.
THEOREM PointerStaysWithTableHolds == Spec => PointerStaysWithTable
<1>1. TypeOK /\ IndexInv /\ [Next]_vars => (PointerAgrees => PointerAgrees' \/ WorkerCrash)
  BY IndexSteps
  DEF PointerAgrees, Steady, Placing, Pointing, Committing, Undoing, Dying, SameActive,
      SamePlace, Active
<1>2. QED
  BY <1>1, IndexInvHolds, PTL DEF Spec, PointerStaysWithTable

\* What readers of the live index see is the register of IndexRegister.
THEOREM LiveIndexIsARegisterHolds == Spec => LiveIndexIsARegister
<1> DEFINE content == [n \in 1..MaxGen |-> gens[n].docs]
<1>1. Init => LiveIndex!Init
  BY DEF Init, LiveIndex!Init, Settled, IdleWork
<1>2. TypeOK /\ IndexInv /\ [Next]_vars
        => LiveIndex!Next \/ UNCHANGED <<content, pointer, Settled>>
  <2> SUFFICES ASSUME TypeOK, IndexInv, [Next]_vars
               PROVE  LiveIndex!Next \/ UNCHANGED <<content, pointer, Settled>>
    OBVIOUS
  <2>1. SameDocs => content' = content
    BY DEF SameDocs
  <2>2. CASE Steady
    BY <2>1, <2>2 DEF Steady, SamePlace
  <2>3. CASE Placing
    <3>1. PICK n \in 1..MaxGen, docs \in [Source -> MaybeBytes] :
            gens[n].docs = Null /\ gens' = [gens EXCEPT ![n].docs = docs]
      BY <2>3 DEF Placing
    <3>2. content' = [content EXCEPT ![n] = docs]
      BY <3>1 DEF TypeOK, Generation
    <3>3. LiveIndex!Complete(n)
      BY <3>1, <3>2, <2>3 DEF LiveIndex!Complete, Placing, SamePlace
    <3>4. QED
      BY <3>3 DEF LiveIndex!Next
  <2>4. CASE Pointing
    <3>1. PICK n \in 1..MaxGen : n > pointer /\ gens[n].docs # Null /\ pointer' = n
      BY <2>4 DEF Pointing
    <3>2. LiveIndex!MoveTo(n)
      BY <3>1, <2>1, <2>4 DEF LiveIndex!MoveTo, Pointing
    <3>3. QED
      BY <3>2 DEF LiveIndex!Next
  <2>5. CASE Committing \/ Dying
    <3>1. LiveIndex!Settle
      BY <2>1, <2>5 DEF LiveIndex!Settle, Committing, Dying
    <3>2. QED
      BY <3>1 DEF LiveIndex!Next
  <2>6. CASE Undoing
    <3>1. LiveIndex!Return
      BY <2>1, <2>6 DEF LiveIndex!Return, Undoing
    <3>2. QED
      BY <3>1 DEF LiveIndex!Next
  <2>7. QED
    BY <2>2, <2>3, <2>4, <2>5, <2>6, IndexSteps
<1>3. QED
  BY <1>1, <1>2, IndexInvHolds, PTL DEF Spec, LiveIndexIsARegister, LiveIndex!Spec

-----------------------------------------------------------------------------
(* The cards of the published documents.                                   *)

Describes(a) == Null \notin {a.sha, a.card} => a.card = a.sha

\* The documents whose manifest the build has compared with its inventory.
Examined == IF work.pc = "load" THEN Eligible \ work.todo ELSE Eligible

\* A card is written from the inventory of the build, minutes after the manifest was
\* read: what it describes is still there, or nothing is, because between the two
\* nobody but a request that purges touches the artifact.  An artifact that was moved
\* aside comes back with its card.
CardInv ==
  /\ CardDescribesArtifact
  /\ Describes(work.kept)
  /\ work.pc = "cards" => work.todo \subseteq Refreshed
  /\ work.pc \in {"load", "cards"} =>
       \A s \in Examined : md[s].sha \in {Null, work.loaded[s].sha}

LEMMA CardInit == Init => CardInv
  BY DEF Init, CardInv, CardDescribesArtifact, Describes, IdleWork, NoArtifact

\* Artifacts are only removed.
LEMMA RemovalKeepsCards ==
  ASSUME CardInv, \A s \in Source : md'[s] \in {md[s], NoArtifact}, work' = work
  PROVE  CardInv'
<1>1. Eligible \subseteq Source
  BY DEF Eligible
<1>2. Eligible' = Eligible /\ Refreshed' = Refreshed /\ Examined' = Examined
  BY DEF Eligible, Refreshed, Examined
<1>3. NoArtifact.sha = Null
  BY DEF NoArtifact
<1>4. CardDescribesArtifact'
  BY <1>3 DEF CardInv, CardDescribesArtifact
<1>5. work.pc \in {"load", "cards"} =>
        \A s \in Examined : md'[s].sha \in {Null, work.loaded[s].sha}
  BY <1>1, <1>3 DEF CardInv, Examined
<1>6. QED
  BY <1>2, <1>4, <1>5 DEF CardInv, Describes

\* The Worker is not building, and leaves the artifacts alone.
LEMMA RestKeepsCards ==
  ASSUME CardInv, md' = md, work'.pc \notin {"load", "cards"},
         work'.kept \in {work.kept, NoArtifact}
  PROVE  CardInv'
  BY DEF CardInv, CardDescribesArtifact, Describes, NoArtifact

LEMMA ConversionKeepsCards ==
  ASSUME TypeOK, CardInv, NEW s \in Source, Convert(s)
  PROVE  CardInv'
<1>1. /\ work \in Work /\ md \in [Source -> Artifact] /\ IdleWork.kept = NoArtifact
      /\ IdleWork.pc = "idle" /\ NoArtifact.sha = Null
  BY DEF TypeOK, IdleWork, NoArtifact
<1>2. work'.pc \notin {"load", "cards"}
  BY <1>1, ConversionIsNoBuild DEF Building, Staging
<1>3. CASE StartConversion(s) \/ VerifyHash(s) \/ StageArtifact(s) \/ CheckSource(s)
           \/ MarkReady(s)
  <2>1. md' = md
    BY <1>3 DEF StartConversion, VerifyHash, StageArtifact, CheckSource, MarkReady
  <2>2. work'.kept \in {work.kept, NoArtifact}
    BY <1>1, <1>3
    DEF StartConversion, VerifyHash, StageArtifact, CheckSource, MarkReady,
        FailConversion, Work
  <2>3. QED
    BY <2>1, <2>2, <1>2, RestKeepsCards
<1>4. CASE MoveAside(s)
  <2>1. md' = [md EXCEPT ![s] = NoArtifact] /\ work'.kept = md[s]
    BY <1>1, <1>4 DEF MoveAside, Work
  <2>2. QED
    BY <2>1, <1>1, <1>2 DEF CardInv, CardDescribesArtifact, Describes
<1>5. CASE SwapIn(s)
  <2>1. work'.kept = NoArtifact
    BY <1>1, <1>5 DEF SwapIn, FailConversion, Work
  <2>2. \/ md' = md \/ md' = [md EXCEPT ![s] = work.kept]
        \/ md' = [md EXCEPT ![s] = [sha |-> work.sha, card |-> Null]]
    BY <1>5 DEF SwapIn
  <2>3. QED
    BY <2>1, <2>2, <1>1, <1>2 DEF CardInv, CardDescribesArtifact, Describes
<1>6. QED
  BY <1>3, <1>4, <1>5 DEF Convert

LEMMA BuildKeepsCards ==
  ASSUME TypeOK, CardInv, Build
  PROVE  CardInv'
<1>1. /\ work \in Work /\ md \in [Source -> Artifact] /\ IdleWork.kept = NoArtifact
      /\ IdleWork.pc = "idle"
  BY DEF TypeOK, IdleWork
<1>2. Refreshed \subseteq Eligible /\ Eligible \subseteq Source
  BY DEF Refreshed, Eligible
<1>3. CASE CreateGeneration \/ ValidateGeneration \/ PlaceGeneration \/ PointToGeneration
           \/ CommitActivation \/ UndoActivation \/ BuildFails
  <2>1. md' = md
    BY <1>3 DEF CreateGeneration, ValidateGeneration, PlaceGeneration, PointToGeneration,
         CommitActivation, UndoActivation, BuildFails
  <2>2. work'.pc \notin {"load", "cards"} /\ work'.kept \in {work.kept, NoArtifact}
    BY <1>1, <1>3 DEF CreateGeneration, ValidateGeneration, PlaceGeneration,
         PointToGeneration, CommitActivation, UndoActivation, BuildFails, Work
  <2>3. QED
    BY <2>1, <2>2, RestKeepsCards
<1>4. CASE ReadInventory
  <2>1. work'.pc = "load" /\ work'.kept = work.kept /\ work'.loaded = row /\ md' = md
        /\ work'.todo = {s \in Source : row[s].status = "PRESENT" /\ row[s].conv = "READY"}
    BY <1>1, <1>4 DEF ReadInventory, Work
  <2>2. Eligible' = work'.todo
    BY <2>1 DEF Eligible
  <2>3. Examined' = {}
    BY <2>1, <2>2 DEF Examined
  <2>4. QED
    BY <2>1, <2>3 DEF CardInv, CardDescribesArtifact, Describes
<1>5. ASSUME NEW s \in Source, LoadDocument(s)
      PROVE  CardInv'
  <2>1. /\ work.pc = "load" /\ work'.pc = "load" /\ work'.kept = work.kept /\ md' = md
        /\ work'.loaded = work.loaded /\ work'.todo = work.todo \ {s}
        /\ md[s].sha = work.loaded[s].sha
    BY <1>1, <1>5 DEF LoadDocument, Work
  <2>2. Eligible' = Eligible
    BY <2>1 DEF Eligible
  <2>3. Examined' \subseteq Examined \union {s}
    BY <2>1, <2>2 DEF Examined
  <2>4. QED
    BY <2>1, <2>3 DEF CardInv, CardDescribesArtifact, Describes
<1>6. CASE PlanCards
  <2>1. /\ work.pc = "load" /\ work.todo = {} /\ work'.pc = "cards" /\ md' = md
        /\ work'.kept = work.kept /\ work'.loaded = work.loaded /\ work'.todo = Refreshed
    BY <1>1, <1>6 DEF PlanCards, Work
  <2>2. Eligible' = Eligible
    BY <2>1 DEF Eligible
  <2>3. Refreshed' = Refreshed
    BY <2>1, <2>2 DEF Refreshed
  <2>4. Examined' = Examined
    BY <2>1, <2>2 DEF Examined
  <2>5. QED
    BY <2>1, <2>3, <2>4 DEF CardInv, CardDescribesArtifact, Describes
<1>7. ASSUME NEW s \in Source, GenerateCard(s)
      PROVE  CardInv'
  <2>1. /\ work.pc = "cards" /\ work'.pc = "cards" /\ s \in work.todo
        /\ work'.kept = work.kept /\ work'.loaded = work.loaded
        /\ work'.todo = work.todo \ {s}
    BY <1>1, <1>7 DEF GenerateCard, Work
  <2>2. md' = [md EXCEPT ![s] = [md[s] EXCEPT !.card = work.loaded[s].sha]]
    BY <1>1, <1>7 DEF GenerateCard
  <2>3. Eligible' = Eligible
    BY <2>1 DEF Eligible
  <2>4. Refreshed' = Refreshed
    BY <2>1, <2>3 DEF Refreshed
  <2>5. Examined' = Examined /\ Examined = Eligible
    BY <2>1, <2>3 DEF Examined
  <2>6. s \in Eligible
    BY <2>1, <1>2 DEF CardInv
  <2>7. md[s].sha \in {Null, work.loaded[s].sha}
    BY <2>1, <2>5, <2>6 DEF CardInv
  <2>8. \A t \in Source :
          /\ md'[t].sha = md[t].sha
          /\ md'[t].card = IF t = s THEN work.loaded[s].sha ELSE md[t].card
    BY <2>2, <1>1 DEF Artifact
  <2>9. CardDescribesArtifact'
    BY <2>7, <2>8 DEF CardInv, CardDescribesArtifact
  <2>10. QED
    BY <2>1, <2>4, <2>5, <2>8, <2>9, <1>2 DEF CardInv, Describes
<1>8. QED
  BY <1>3, <1>4, <1>5, <1>6, <1>7 DEF Build

LEMMA CardStep == TypeOK /\ CardInv /\ [Next]_vars => CardInv'
<1> SUFFICES ASSUME TypeOK, CardInv, [Next]_vars PROVE CardInv'
  OBVIOUS
<1>1. CASE UNCHANGED vars
  BY <1>1, RemovalKeepsCards DEF vars
<1>2. ASSUME NEW r \in Request, Inventory(r)
      PROVE  work' = work /\ \A s \in Source : md'[s] \in {md[s], NoArtifact}
  BY <1>2 DEF Inventory, StartScan, StartDelete, Purge, Unlink, CommitRequest,
       RequestFails, StartPut, ScanFile, Stat, Put
<1>3. ASSUME NEW s \in Source, DownloadMissing(s) \/ EditFile(s)
      PROVE  UNCHANGED <<md, work>>
  BY <1>3 DEF DownloadMissing, EditFile
<1>4. CASE WorkerCrash
  <2>1. md' = md /\ work'.pc = "idle" /\ work'.kept = NoArtifact
    BY <1>4 DEF WorkerCrash, IdleWork
  <2>2. QED
    BY <2>1, RestKeepsCards
<1>5. QED
  BY <1>1, <1>2, <1>3, <1>4, ConversionKeepsCards, BuildKeepsCards, RemovalKeepsCards
  DEF Next

\* Whatever deletes, conversions, builds, failures and crashes do in between, a card
\* beside a published manifest describes the bytes of that manifest
\* (publish starts without one, _generate_planned_cards writes it during a build).
THEOREM CardDescribesArtifactHolds == Spec => []CardDescribesArtifact
<1>1. Spec => []CardInv
  BY CardInit, CardStep, KnowledgeBaseTypesHold, PTL DEF Spec
<1>2. QED
  BY <1>1, PTL DEF CardInv

-----------------------------------------------------------------------------
(* The artifacts that publish moves.                                       *)

Converting == {"verify", "stage", "check", "move", "swap", "ready"}

\* One conversion is of one file: what was moved aside is not taken for the artifact
\* of another.
OneFile == work.pc \in Converting => \E s \in Source : work.todo = {s}

LEMMA ConversionIsOfOneFile ==
  ASSUME TypeOK, OneFile, NEW s \in Source, Convert(s)
  PROVE  OneFile'
<1>1. IdleWork.pc = "idle" /\ work \in Work
  BY DEF IdleWork, TypeOK
<1> USE <1>1 DEF OneFile, Converting, Work
<1>2. CASE StartConversion(s)
  BY <1>2 DEF StartConversion
<1>3. CASE VerifyHash(s)
  BY <1>3 DEF VerifyHash, FailConversion
<1>4. CASE StageArtifact(s)
  BY <1>4 DEF StageArtifact, FailConversion
<1>5. CASE CheckSource(s)
  BY <1>5 DEF CheckSource
<1>6. CASE MoveAside(s)
  BY <1>6 DEF MoveAside
<1>7. CASE SwapIn(s)
  BY <1>7 DEF SwapIn, FailConversion
<1>8. CASE MarkReady(s)
  BY <1>8 DEF MarkReady
<1>9. QED
  BY <1>2, <1>3, <1>4, <1>5, <1>6, <1>7, <1>8 DEF Convert

\* A build has moved nothing aside, and only adds cards to artifacts.
LEMMA BuildKeepsArtifacts ==
  ASSUME TypeOK, Build
  PROVE  /\ work.pc \notin Converting /\ work'.pc \notin Converting
         /\ \A s \in Source : md'[s].sha = md[s].sha
<1>1. IdleWork.pc = "idle" /\ work \in Work /\ md \in [Source -> Artifact]
  BY DEF IdleWork, TypeOK
<1> USE <1>1 DEF Converting, Work
<1>2. CASE CreateGeneration \/ ReadInventory \/ PlanCards \/ ValidateGeneration \/ PlaceGeneration
  BY <1>2 DEF CreateGeneration, ReadInventory, PlanCards, ValidateGeneration, PlaceGeneration
<1>3. CASE PointToGeneration \/ CommitActivation \/ UndoActivation \/ BuildFails
  BY <1>3 DEF PointToGeneration, CommitActivation, UndoActivation, BuildFails
<1>4. ASSUME NEW s \in Source, LoadDocument(s)
      PROVE  work.pc = "load" /\ work'.pc = "load" /\ md' = md
  BY <1>4 DEF LoadDocument
<1>5. ASSUME NEW s \in Source, GenerateCard(s)
      PROVE  /\ work.pc = "cards" /\ work'.pc = "cards"
             /\ \A t \in Source : md'[t].sha = md[t].sha
  BY <1>5 DEF GenerateCard, Artifact
<1>6. QED
  BY <1>2, <1>3, <1>4, <1>5 DEF Build

LEMMA OneFileStep == TypeOK /\ OneFile /\ [Next]_vars => OneFile'
<1> SUFFICES ASSUME TypeOK, OneFile, [Next]_vars PROVE OneFile'
  OBVIOUS
<1>1. CASE UNCHANGED vars
  BY <1>1 DEF vars, OneFile
<1>2. ASSUME NEW r \in Request, Inventory(r)
      PROVE  work' = work
  BY <1>2 DEF Inventory, StartScan, StartDelete, Purge, Unlink, CommitRequest,
       RequestFails, StartPut, ScanFile, Stat, Put
<1>3. ASSUME NEW s \in Source, DownloadMissing(s) \/ EditFile(s)
      PROVE  work' = work
  BY <1>3 DEF DownloadMissing, EditFile
<1>4. CASE WorkerCrash
  BY <1>4 DEF WorkerCrash, IdleWork, OneFile, Converting
<1>5. CASE Build
  BY <1>5, BuildKeepsArtifacts DEF OneFile
<1>6. QED
  BY <1>1, <1>2, <1>3, <1>4, <1>5, ConversionIsOfOneFile DEF Next, OneFile

\* What may become of an artifact in one step.
Retained(s) ==
  Held(s).sha # Null =>
    \/ Held(s)'.sha = Held(s).sha
    \/ Held(s)'.sha = work.sha /\ work'.pc = "ready"
    \/ \E r \in Request : Purge(r) /\ s \in Doomed(r)
    \/ WorkerCrash /\ work.pc = "swap"

\* Publish holds the old artifact aside until the new one is in, or puts it back.
LEMMA ConversionRetains ==
  ASSUME TypeOK, OneFile, NEW s \in Source, NEW t \in Source, Convert(s)
  PROVE  Retained(t)
<1>1. /\ work \in Work /\ md \in [Source -> Artifact] /\ IdleWork.pc = "idle"
      /\ NoArtifact.sha = Null
  BY DEF IdleWork, TypeOK, NoArtifact
<1>2. work.pc \in {"move", "swap"} /\ s \in work.todo => work.todo = {s}
  BY DEF OneFile, Converting
<1>3. CASE StartConversion(s) \/ VerifyHash(s) \/ StageArtifact(s) \/ CheckSource(s)
           \/ MarkReady(s)
  <2>1. md' = md /\ work.pc # "swap" /\ work'.pc # "swap"
    BY <1>1, <1>3
    DEF StartConversion, VerifyHash, StageArtifact, CheckSource, MarkReady,
        FailConversion, Work
  <2>2. QED
    BY <2>1 DEF Held, Retained
<1>4. CASE MoveAside(s)
  <2>1. /\ work.pc = "move" /\ work'.pc = "swap" /\ work'.kept = md[s]
        /\ work'.todo = {s} /\ md' = [md EXCEPT ![s] = NoArtifact]
    BY <1>1, <1>2, <1>4 DEF MoveAside, Work
  <2>2. QED
    BY <2>1, <1>1 DEF Held, Retained
<1>5. CASE SwapIn(s)
  <2>1. /\ work.pc = "swap" /\ work.todo = {s} /\ work'.pc # "swap"
        /\ \A u \in Source : u # s => md'[u] = md[u]
    BY <1>1, <1>2, <1>5 DEF SwapIn, FailConversion, Work
  <2>2. CASE t # s
    BY <2>1, <2>2 DEF Held, Retained
  <2>3. CASE t = s
    <3>1. Held(t) = work.kept /\ Held(t)' = md'[s]
      BY <2>1, <2>3 DEF Held
    <3>2. CASE md' = [md EXCEPT ![s] = [sha |-> work.sha, card |-> Null]] /\ work'.pc = "ready"
      BY <1>1, <3>1, <3>2 DEF Retained
    <3>3. CASE md' = IF work.kept = NoArtifact THEN md ELSE [md EXCEPT ![s] = work.kept]
      BY <1>1, <3>1, <3>3 DEF Retained
    <3>4. QED
      BY <1>1, <1>5, <3>2, <3>3 DEF SwapIn, Work
  <2>4. QED
    BY <2>2, <2>3
<1>6. QED
  BY <1>3, <1>4, <1>5 DEF Convert

\* Whatever fails, an artifact is only ever exchanged for the complete one that
\* publish puts in its place, or taken with a row that was never indexed; only a
\* Worker that dies between the two moves of publish loses one.
THEOREM LastGoodArtifactIsRetainedHolds == Spec => LastGoodArtifactIsRetained
<1>1. Init => OneFile
  BY DEF Init, IdleWork, OneFile, Converting
<1>2. TypeOK /\ OneFile /\ [Next]_vars => \A s \in Source : Retained(s)
  <2> SUFFICES ASSUME TypeOK, OneFile, [Next]_vars, NEW s \in Source
               PROVE  Retained(s)
    OBVIOUS
  <2>1. ASSUME UNCHANGED <<md, work>> PROVE Retained(s)
    BY <2>1 DEF Held, Retained
  <2>2. ASSUME NEW r \in Request, Inventory(r)
        PROVE  Retained(s)
    <3>1. CASE Purge(r)
      <4>1. work' = work /\ md'[s] = IF s \in Doomed(r) THEN NoArtifact ELSE md[s]
        BY <3>1 DEF Purge
      <4>2. QED
        BY <3>1, <4>1 DEF Held, Retained
    <3>2. CASE ~Purge(r)
      <4>1. UNCHANGED <<md, work>>
        BY <2>2, <3>2 DEF Inventory, StartScan, StartDelete, Unlink, CommitRequest,
             RequestFails, StartPut, ScanFile, Stat, Put
      <4>2. QED
        BY <4>1, <2>1
    <3>3. QED
      BY <3>1, <3>2
  <2>3. ASSUME NEW t \in Source, DownloadMissing(t) \/ EditFile(t)
        PROVE  Retained(s)
    <3>1. UNCHANGED <<md, work>>
      BY <2>3 DEF DownloadMissing, EditFile
    <3>2. QED
      BY <3>1, <2>1
  <2>4. CASE WorkerCrash
    BY <2>4 DEF WorkerCrash, IdleWork, Held, Retained
  <2>5. CASE Build
    BY <2>5, BuildKeepsArtifacts DEF Held, Retained, Converting
  <2>6. CASE UNCHANGED vars
    BY <2>6, <2>1 DEF vars
  <2>7. QED
    BY <2>2, <2>3, <2>4, <2>5, <2>6, ConversionRetains DEF Next
<1>3. QED
  BY <1>1, <1>2, OneFileStep, KnowledgeBaseTypesHold, PTL
  DEF Spec, LastGoodArtifactIsRetained, Retained

-----------------------------------------------------------------------------
(* The rows marked as indexed.                                             *)

Contained(s) == \E n \in 1..MaxGen : Active(n) /\ gens[n].docs # Null /\ gens[n].docs[s] # Null

Snapshot == {"load", "cards", "place", "point", "commit"}

\* The documents whose card the build has so far.
Covered(s) ==
  /\ s \in Eligible
  /\ work.pc = "load" => s \notin work.todo /\ s \notin Refreshed
  /\ work.pc = "cards" => s \notin work.todo

\* What the build knows of a source file, once it has read the inventory: no row
\* became INDEXED since, and a document it has dealt with has its card.
SnapshotOf(s) ==
  /\ work.loaded[s].status # "NONE" => work.loaded[s].sha # Null
  /\ row[s].idx = "INDEXED" => work.loaded[s].idx = "INDEXED"
  /\ Covered(s) => work.staged[s] # Null

\* That INDEXED rows are contained is not inductive: the commit of an activation
\* writes rows from an inventory that may be old.  It is sound because nothing but
\* that commit makes a row INDEXED, and a recorded row always has its hash.
ContainInv ==
  /\ IndexedIsContained
  /\ \A s \in Source : IF Recorded(s) THEN row[s].sha # Null ELSE row[s].idx # "INDEXED"
  /\ work.pc \in Snapshot => \A s \in Source : SnapshotOf(s)
  /\ work.pc \in {"point", "commit"} => gens[work.gen].docs = work.staged

LEMMA ContainInit == Init => ContainInv
  BY DEF Init, ContainInv, IndexedIsContained, Unread, NoRow, Recorded, IdleWork, Snapshot

\* A row that is written outside an activation: recorded rows keep a hash, and no row
\* becomes INDEXED.
Sober(s) ==
  /\ row'[s].idx = "INDEXED" => row[s].idx = "INDEXED" /\ row'[s].status # "NONE"
  /\ row'[s].status # "NONE" => row'[s].sha # Null

LEMMA SameRowIsSober ==
  ASSUME ContainInv, NEW s \in Source, row'[s] = row[s]
  PROVE  Sober(s)
  BY DEF ContainInv, Recorded, Sober

LEMMA MergeColumns ==
  ASSUME NEW old \in Row, NEW new \in Row, NEW now \in Row
  PROVE  LET m == Merge(old, new, now) IN
         /\ m.status = IF new.status # old.status THEN new.status ELSE now.status
         /\ m.sha = IF new.sha # old.sha THEN new.sha ELSE now.sha
         /\ m.idx = IF new.idx # old.idx THEN new.idx ELSE now.idx
  BY DEF Merge, Row

\* What a request makes of a row it has read.
LEMMA AfterFacts ==
  ASSUME TypeOK, NEW r \in Request, NEW s \in Source
  PROVE  LET o == Of(r).old[s]  n == After(r, s) IN
         /\ n.idx = "INDEXED" => n.idx = o.idx
         /\ n.status = "NONE" => n = NoRow
         /\ n.sha = Null => n = NoRow \/ n.sha = o.sha
         /\ o.status = "NONE" /\ n # NoRow => n.sha # Null /\ n.idx = "NOT_INDEXED"
<1>1. req[r].old[s] \in Row /\ req[r].found[s] \in File
  BY DEF TypeOK, RequestState
<1>2. \A idx : StaleIfIndexed(idx) # "INDEXED"
  BY DEF StaleIfIndexed
<1>3. NoRow.idx = "NOT_INDEXED"
  BY DEF NoRow
<1> DEFINE o == req[r].old[s]
           f == req[r].found[s]
<1>4. CASE o.status = "NONE"
  BY <1>1, <1>3, <1>4 DEF After, Of, Fresh, Row, File
<1>5. CASE o.status # "NONE" /\ f.bytes = Null
  BY <1>1, <1>2, <1>3, <1>5 DEF After, Of, Vanished, Row, File
<1>6. CASE o.status # "NONE" /\ f.bytes # Null
  BY <1>1, <1>2, <1>6 DEF After, Of, Observed, Row, File
<1>7. QED
  BY <1>4, <1>5, <1>6

LEMMA CommitIsSober ==
  ASSUME TypeOK, ContainInv, NEW r \in Request, CommitRequest(r), NEW s \in Source
  PROVE  Sober(s)
<1> DEFINE o == Of(r).old[s]
           n == After(r, s)
<1>1. o \in Row /\ n \in Row /\ row[s] \in Row
  BY AfterTyped DEF Of, TypeOK, RequestState
<1>2. NoRow.idx = "NOT_INDEXED" /\ NoRow.status = "NONE"
  BY DEF NoRow
<1>3. CASE row'[s] = row[s]
  BY <1>3, SameRowIsSober
<1>4. CASE row'[s] = n /\ (o.status = "NONE" \/ n = NoRow)
  BY <1>2, <1>4, AfterFacts DEF Sober
<1>5. CASE /\ row'[s] = Merge(o, n, row[s]) /\ o.status # "NONE" /\ n \notin {o, NoRow}
           /\ s \in Of(r).scope /\ ~Conflict(r)
  <2>1. Recorded(s)
    BY <1>5 DEF Conflict
  <2>2. row[s].sha # Null /\ row[s].status # "NONE"
    BY <2>1 DEF ContainInv, Recorded
  <2>3. n.status # "NONE"
    BY <1>5, AfterFacts
  <2>4. row'[s].status # "NONE"
    BY <1>1, <1>5, <2>2, <2>3, MergeColumns
  <2>5. row'[s].sha # Null
    BY <1>1, <1>5, <2>2, MergeColumns, AfterFacts
  <2>6. row'[s].idx = "INDEXED" => row[s].idx = "INDEXED"
    BY <1>1, <1>5, MergeColumns, AfterFacts
  <2>7. QED
    BY <2>4, <2>5, <2>6 DEF Sober
<1>6. QED
  BY <1>3, <1>4, <1>5 DEF CommitRequest

\* The columns a conversion changes in a row it finds again.
LEMMA SetRowIsSober ==
  ASSUME TypeOK, ContainInv, NEW s \in Source, NEW new \in Row, SetRow(s, new),
         new.status = work.loaded[s].status, new.sha = work.loaded[s].sha,
         new.idx = "INDEXED" => new.idx = work.loaded[s].idx,
         NEW t \in Source
  PROVE  Sober(t)
<1>1. work.loaded[s] \in Row /\ row[s] \in Row /\ row \in [Source -> Row]
  BY DEF TypeOK, Work
<1>2. CASE t = s /\ Recorded(s)
  <2>1. row'[s] = Merge(work.loaded[s], new, row[s])
    BY <1>1, <1>2 DEF SetRow
  <2>2. row'[s].status = row[s].status /\ row'[s].sha = row[s].sha
    BY <1>1, <2>1, MergeColumns
  <2>3. row'[s].idx = "INDEXED" => row[s].idx = "INDEXED"
    BY <1>1, <2>1, MergeColumns
  <2>4. QED
    BY <1>2, <2>2, <2>3 DEF ContainInv, Recorded, Sober
<1>3. CASE ~(t = s /\ Recorded(s))
  <2>1. row'[t] = row[t]
    BY <1>1, <1>3 DEF SetRow
  <2>2. QED
    BY <2>1, SameRowIsSober
<1>4. QED
  BY <1>2, <1>3

LEMMA ConversionIsSober ==
  ASSUME TypeOK, ContainInv, NEW s \in Source, Convert(s), NEW t \in Source
  PROVE  Sober(t)
<1>1. /\ work.loaded[s] \in Row /\ row[s] \in Row /\ row \in [Source -> Row]
  BY DEF TypeOK, Work
<1>2. row' = row => Sober(t)
  BY SameRowIsSober
<1>3. ASSUME FailConversion(s) PROVE Sober(t)
  <2> DEFINE new == [work.loaded[s] EXCEPT !.conv = "FAILED"]
  <2>1. new \in Row
    BY <1>1, RowEdits
  <2>2. SetRow(s, new)
    BY <1>3 DEF FailConversion
  <2>3. new.status = work.loaded[s].status /\ new.sha = work.loaded[s].sha
        /\ new.idx = work.loaded[s].idx
    BY <1>1 DEF Row
  <2>4. QED
    BY <2>1, <2>2, <2>3, SetRowIsSober
<1>4. ASSUME NEW new \in Row, row' = [row EXCEPT ![s] = new], Recorded(s),
             new.status # "NONE", new.sha = row[s].sha, new.idx = row[s].idx
      PROVE  Sober(t)
  <2>1. CASE t = s
    BY <1>1, <1>4, <2>1 DEF ContainInv, Recorded, Sober
  <2>2. CASE t # s
    BY <1>1, <1>4, <2>2, SameRowIsSober
  <2>3. QED
    BY <2>1, <2>2
<1>5. CASE StartConversion(s)
  <2> DEFINE gone == [row[s] EXCEPT !.status = "MISSING", !.conv = "FAILED"]
             taken == [row[s] EXCEPT !.conv = "CONVERTING"]
  <2>1. /\ gone \in Row /\ gone.status # "NONE" /\ gone.sha = row[s].sha
        /\ gone.idx = row[s].idx
    <3>1. row[s] \in Row
      BY <1>1
    <3>2. gone \in Row
      BY <3>1, RowEdits
    <3>3. gone.status # "NONE" /\ gone.sha = row[s].sha /\ gone.idx = row[s].idx
      BY <3>1 DEF Row
    <3>4. QED
      BY <3>2, <3>3
  <2>2. taken \in Row /\ taken.status = row[s].status /\ taken.sha = row[s].sha
        /\ taken.idx = row[s].idx
    BY <1>1, RowEdits DEF Row
  <2>3. Recorded(s)
    BY <1>5 DEF StartConversion
  <2>4. row' = [row EXCEPT ![s] = gone] \/ row' = [row EXCEPT ![s] = taken]
    BY <1>1, <1>5 DEF StartConversion, Row
  <2>5. QED
    BY <2>1, <2>2, <2>3, <2>4, <1>4 DEF Recorded
<1>6. CASE CheckSource(s)
  <2> DEFINE failed == [row[s] EXCEPT !.conv = "FAILED"]
  <2>1. failed \in Row /\ failed.status = row[s].status /\ failed.sha = row[s].sha
        /\ failed.idx = row[s].idx
    BY <1>1, RowEdits DEF Row
  <2>2. row' = row \/ (Recorded(s) /\ row' = [row EXCEPT ![s] = failed])
    BY <1>1, <1>6 DEF CheckSource, StillHeld
  <2>3. QED
    BY <2>1, <2>2, <1>2, <1>4 DEF Recorded
<1>7. CASE MarkReady(s)
  <2> DEFINE new == [work.loaded[s] EXCEPT !.conv = "READY", !.idx = StaleIfIndexed(@)]
  <2>1. new \in Row
    BY <1>1, RowEdits
  <2>2. SetRow(s, new)
    BY <1>7 DEF MarkReady
  <2>3. new.status = work.loaded[s].status /\ new.sha = work.loaded[s].sha
        /\ new.idx # "INDEXED"
    BY <1>1 DEF Row, StaleIfIndexed
  <2>4. QED
    BY <2>1, <2>2, <2>3, SetRowIsSober
<1>8. CASE VerifyHash(s) \/ StageArtifact(s) \/ MoveAside(s) \/ SwapIn(s)
  BY <1>8, <1>2, <1>3 DEF VerifyHash, StageArtifact, MoveAside, SwapIn
<1>9. QED
  BY <1>5, <1>6, <1>7, <1>8 DEF Convert

\* No step but the commit of an activation makes a row INDEXED.
LEMMA RowsStaySober ==
  ASSUME TypeOK, ContainInv, [Next]_vars, ~CommitActivation, NEW t \in Source
  PROVE  Sober(t)
<1>1. row' = row => Sober(t)
  BY SameRowIsSober
<1>2. CASE UNCHANGED vars \/ WorkerCrash
  BY <1>1, <1>2 DEF vars, WorkerCrash
<1>3. ASSUME NEW r \in Request, Inventory(r)
      PROVE  Sober(t)
  BY <1>1, <1>3, CommitIsSober
  DEF Inventory, StartScan, StartDelete, Purge, Unlink, RequestFails, StartPut, ScanFile,
      Stat, Put
<1>4. ASSUME NEW s \in Source, DownloadMissing(s)
      PROVE  Sober(t)
  <2>1. row[s] \in Row /\ row \in [Source -> Row]
    BY DEF TypeOK
  <2>2. row'[t].sha = row[t].sha /\ (t # s => row'[t] = row[t])
    BY <1>4, <2>1 DEF DownloadMissing, Row
  <2>3. t = s => row'[t].status = "MISSING" /\ row'[t].idx # "INDEXED"
    BY <1>4, <2>1 DEF DownloadMissing, Row, StaleIfIndexed
  <2>4. t = s => row[t].status = "PRESENT"
    BY <1>4 DEF DownloadMissing
  <2>5. QED
    BY <2>2, <2>3, <2>4, SameRowIsSober DEF ContainInv, Recorded, Sober
<1>5. ASSUME NEW s \in Source, EditFile(s)
      PROVE  Sober(t)
  BY <1>1, <1>5 DEF EditFile
<1>6. CASE Build
  BY <1>1, <1>6
  DEF Build, CreateGeneration, ReadInventory, PlanCards, ValidateGeneration,
      PlaceGeneration, PointToGeneration, UndoActivation, BuildFails, LoadDocument,
      GenerateCard
<1>7. QED
  BY <1>2, <1>3, <1>4, <1>5, <1>6, ConversionIsSober DEF Next

\* A step that keeps the ACTIVE generation and what is in place keeps what it contains.
LEMMA ContainedStays ==
  ASSUME TypeOK, IndexInv, [Next]_vars, ~CommitActivation, NEW s \in Source, Contained(s)
  PROVE  Contained(s)'
<1>1. PICK n \in 1..MaxGen : Active(n) /\ gens[n].docs # Null /\ gens[n].docs[s] # Null
  BY DEF Contained
<1>2. CASE Steady \/ Pointing \/ Undoing \/ Dying
  BY <1>1, <1>2 DEF Steady, Pointing, Undoing, Dying, SameActive, SameDocs, Active, Contained
<1>3. CASE Placing
  <2>1. PICK m \in 1..MaxGen, docs \in [Source -> MaybeBytes] :
          gens[m].docs = Null /\ gens' = [gens EXCEPT ![m].docs = docs]
    BY <1>3 DEF Placing
  <2>2. gens'[n].docs = gens[n].docs
    BY <1>1, <2>1 DEF TypeOK, Generation
  <2>3. QED
    BY <1>1, <1>3, <2>2 DEF Placing, SameActive, Contained
<1>4. QED
  BY <1>2, <1>3, IndexSteps DEF Committing

LEMMA CommitKeepsContained ==
  ASSUME TypeOK, IndexInv, ContainInv, CommitActivation
  PROVE  ContainInv'
<1>1. /\ work \in Work /\ gens \in [1..MaxGen -> Generation] /\ row \in [Source -> Row]
      /\ work.loaded \in [Source -> Row] /\ work.pc = "commit"
  BY DEF TypeOK, Work, CommitActivation
<1>2. work'.pc = "idle"
  BY DEF CommitActivation, IdleWork
<1>3. work.gen \in 1..MaxGen /\ gens[work.gen].docs # Null /\ gens[work.gen].docs = work.staged
  BY <1>1 DEF IndexInv, Building, Staging, ContainInv
<1>4. gens'[work.gen].status = "ACTIVE" /\ gens'[work.gen].docs = work.staged
  BY <1>1, <1>3 DEF CommitActivation, Generation
<1>5. \A s \in Source : SnapshotOf(s)
  BY <1>1 DEF ContainInv, Snapshot
<1>6. ASSUME NEW s \in Source
      PROVE  /\ row'[s].idx = "INDEXED" => Contained(s)'
             /\ IF row'[s].status # "NONE" THEN row'[s].sha # Null
                ELSE row'[s].idx # "INDEXED"
  <2> DEFINE o == IF work.loaded[s].status = "NONE" THEN row[s] ELSE work.loaded[s]
             n == [o EXCEPT !.idx = Activated(s, @)]
  <2>1. row'[s] = IF Recorded(s) THEN Merge(o, n, row[s]) ELSE row[s]
    BY DEF CommitActivation
  <2>2. Activated(s, o.idx) \in {"NOT_INDEXED", "INDEXED", "STALE"} /\ o \in Row
    BY <1>1 DEF Activated, StaleIfIndexed, Row
  <2>3. n \in Row /\ n.status = o.status /\ n.sha = o.sha /\ n.idx = Activated(s, o.idx)
    BY <2>2 DEF Row
  <2>4. CASE ~Recorded(s)
    BY <2>1, <2>4 DEF ContainInv, Recorded
  <2>5. work.loaded[s].status # "NONE" => o.idx = work.loaded[s].idx
    OBVIOUS
  <2>6. work.loaded[s].status = "NONE" => o.idx = row[s].idx
    OBVIOUS
  <2> HIDE DEF o, n
  <2>7. CASE Recorded(s)
    <3>1. row'[s].status = row[s].status /\ row'[s].sha = row[s].sha
      BY <1>1, <2>1, <2>2, <2>3, <2>7, MergeColumns
    <3>2. row[s].status # "NONE" /\ row[s].sha # Null
      BY <2>7 DEF ContainInv, Recorded
    <3>3. ASSUME s \notin Eligible
          PROVE  row'[s].idx # "INDEXED"
      <4>1. n.idx # "INDEXED" /\ (o.idx = "INDEXED" => n.idx # o.idx)
        BY <2>3, <3>3 DEF Activated, StaleIfIndexed
      <4>2. row[s].idx = "INDEXED" => o.idx = "INDEXED"
        BY <1>5, <2>5, <2>6 DEF SnapshotOf
      <4>3. QED
        BY <1>1, <2>1, <2>2, <2>3, <2>7, <4>1, <4>2, MergeColumns
    <3>4. s \in Eligible => work.staged[s] # Null
      BY <1>1, <1>5 DEF SnapshotOf, Covered
    <3>5. s \in Eligible => Contained(s)'
      BY <1>3, <1>4, <3>4 DEF Contained, Active
    <3>6. QED
      BY <3>1, <3>2, <3>3, <3>5
  <2>8. QED
    BY <2>4, <2>7
<1>7. QED
  BY <1>2, <1>6 DEF ContainInv, IndexedIsContained, Contained, Recorded, Snapshot

LEMMA BuildSnapshot ==
  ASSUME TypeOK, IndexInv, ContainInv, Build, ~CommitActivation, work'.pc \in Snapshot
  PROVE  /\ \A s \in Source : SnapshotOf(s)'
         /\ work'.pc \in {"point", "commit"} => gens'[work'.gen].docs = work'.staged
<1>1. /\ work \in Work /\ work.staged \in [Source -> MaybeBytes]
      /\ md \in [Source -> Artifact] /\ gens \in [1..MaxGen -> Generation]
      /\ IdleWork.pc = "idle" /\ Refreshed \subseteq Eligible
  BY DEF TypeOK, Work, IdleWork, Refreshed
<1> USE DEF Snapshot, SnapshotOf, Covered
<1>2. CASE CreateGeneration \/ UndoActivation \/ BuildFails
  BY <1>1, <1>2 DEF CreateGeneration, UndoActivation, BuildFails, Work
<1>3. CASE ReadInventory
  <2>1. work'.pc = "load" /\ work'.loaded = row /\ row' = row
        /\ work'.todo = {t \in Source : row[t].status = "PRESENT" /\ row[t].conv = "READY"}
    BY <1>1, <1>3 DEF ReadInventory, Work
  <2>2. Eligible' = work'.todo
    BY <2>1 DEF Eligible
  <2>3. QED
    BY <2>1, <2>2 DEF ContainInv, Recorded
<1>4. ASSUME work'.loaded = work.loaded
      PROVE  Eligible' = Eligible /\ Refreshed' = Refreshed
  BY <1>4 DEF Eligible, Refreshed
<1>5. ASSUME NEW t \in Source, LoadDocument(t)
      PROVE  (\A s \in Source : SnapshotOf(s)') /\ work'.pc = "load"
  <2>1. /\ work.pc = "load" /\ work'.pc = "load" /\ work'.loaded = work.loaded /\ row' = row
        /\ work'.todo = work.todo \ {t}
        /\ work'.staged = [work.staged EXCEPT ![t] = IF t \in Refreshed THEN Null
                                                     ELSE md[t].card]
        /\ t \in Refreshed \/ md[t].card # Null
    BY <1>1, <1>5 DEF LoadDocument, Work
  <2>2. QED
    BY <1>1, <1>4, <2>1 DEF ContainInv
<1>6. CASE PlanCards
  <2>1. /\ work.pc = "load" /\ work'.pc = "cards" /\ work'.loaded = work.loaded /\ row' = row
        /\ work.todo = {} /\ work'.todo = Refreshed /\ work'.staged = work.staged
    BY <1>1, <1>6 DEF PlanCards, Work
  <2>2. QED
    BY <1>4, <2>1 DEF ContainInv
<1>7. ASSUME NEW t \in Source, GenerateCard(t)
      PROVE  (\A s \in Source : SnapshotOf(s)') /\ work'.pc = "cards"
  <2>1. /\ work.pc = "cards" /\ work'.pc = "cards" /\ work'.loaded = work.loaded
        /\ row' = row /\ work'.todo = work.todo \ {t}
        /\ work'.staged = [work.staged EXCEPT ![t] = work.loaded[t].sha]
    BY <1>1, <1>7 DEF GenerateCard, Work
  <2>2. t \in Eligible => work.loaded[t].sha # Null
    BY <2>1 DEF ContainInv, Eligible
  <2>3. QED
    BY <1>1, <1>4, <2>1, <2>2 DEF ContainInv
<1>8. CASE ValidateGeneration
  <2>1. /\ work.pc = "cards" /\ work'.pc = "place" /\ work'.loaded = work.loaded
        /\ row' = row /\ work.todo = {} /\ work'.staged = work.staged
    BY <1>1, <1>8 DEF ValidateGeneration, Work
  <2>2. QED
    BY <1>4, <2>1 DEF ContainInv
<1>9. CASE PlaceGeneration
  <2>1. /\ work.pc = "place" /\ work'.pc = "point" /\ work'.loaded = work.loaded
        /\ row' = row /\ work'.staged = work.staged /\ work'.gen = work.gen
        /\ gens' = [gens EXCEPT ![work.gen].docs = work.staged]
    BY <1>1, <1>9 DEF PlaceGeneration, Work
  <2>2. work.gen \in 1..MaxGen
    BY <2>1 DEF IndexInv, Building, Staging
  <2>3. QED
    BY <1>1, <1>4, <2>1, <2>2 DEF ContainInv, Generation
<1>10. CASE PointToGeneration
  <2>1. /\ work.pc = "point" /\ work'.pc = "commit" /\ work'.loaded = work.loaded
        /\ row' = row /\ work'.staged = work.staged /\ work'.gen = work.gen /\ gens' = gens
    BY <1>1, <1>10 DEF PointToGeneration, Work
  <2>2. QED
    BY <1>4, <2>1 DEF ContainInv
<1>11. QED
  BY <1>2, <1>3, <1>5, <1>6, <1>7, <1>8, <1>9, <1>10 DEF Build

LEMMA ContainStep == TypeOK /\ IndexInv /\ ContainInv /\ [Next]_vars => ContainInv'
<1> SUFFICES ASSUME TypeOK, IndexInv, ContainInv, [Next]_vars PROVE ContainInv'
  OBVIOUS
<1>1. CASE CommitActivation
  BY <1>1, CommitKeepsContained
<1>2. CASE ~CommitActivation
  <2>1. \A s \in Source : Sober(s)
    BY <1>2, RowsStaySober
  <2>2. IndexedIsContained'
    <3>1. \A s \in Source : row'[s].idx = "INDEXED" => Contained(s)'
      BY <1>2, <2>1, ContainedStays DEF ContainInv, IndexedIsContained, Contained, Sober
    <3>2. QED
      BY <3>1 DEF IndexedIsContained, Contained
  <2>3. \A s \in Source : IF Recorded(s)' THEN row'[s].sha # Null ELSE row'[s].idx # "INDEXED"
    BY <2>1 DEF Recorded, Sober
  <2>4. CASE UNCHANGED <<work, gens>>
    <3>1. Eligible' = Eligible /\ Refreshed' = Refreshed
      BY <2>4 DEF Eligible, Refreshed
    <3>2. \A s \in Source : SnapshotOf(s) => SnapshotOf(s)'
      BY <2>1, <2>4, <3>1 DEF SnapshotOf, Covered, Sober
    <3>3. QED
      BY <2>2, <2>3, <2>4, <3>2 DEF ContainInv
  <2>5. CASE work'.pc \notin Snapshot
    BY <2>2, <2>3, <2>5 DEF ContainInv, Snapshot
  <2>6. CASE Build
    <3>1. CASE work'.pc \in Snapshot
      BY <1>2, <2>2, <2>3, <2>6, <3>1, BuildSnapshot DEF ContainInv
    <3>2. QED
      BY <2>5, <3>1
  <2>7. WorkerCrash => work'.pc \notin Snapshot
    BY DEF WorkerCrash, IdleWork, Snapshot
  <2>8. \A s \in Source : Convert(s) => work'.pc \notin Snapshot
    BY ConversionIsNoBuild DEF Building, Staging, Snapshot
  <2>9. ASSUME NEW r \in Request, Inventory(r)
        PROVE  UNCHANGED <<work, gens>>
    BY <2>9 DEF Inventory, StartScan, StartDelete, Purge, Unlink, CommitRequest,
         RequestFails, StartPut, ScanFile, Stat, Put
  <2>10. ASSUME NEW s \in Source, DownloadMissing(s) \/ EditFile(s)
         PROVE  UNCHANGED <<work, gens>>
    BY <2>10 DEF DownloadMissing, EditFile
  <2>11. QED
    BY <2>4, <2>5, <2>6, <2>7, <2>8, <2>9, <2>10 DEF Next, vars
<1>3. QED
  BY <1>1, <1>2

\* Whatever scans, uploads, deletes and conversions do during the builds, and
\* whatever fails, a row marked INDEXED has its document in the ACTIVE generation
\* (_activate marks the rows of its manifest and demotes the others).
THEOREM IndexedIsContainedHolds == Spec => []IndexedIsContained
<1>1. Spec => []ContainInv
  BY ContainInit, ContainStep, IndexInvHolds, PTL DEF Spec
<1>2. QED
  BY <1>1, PTL DEF ContainInv
===============================================================================

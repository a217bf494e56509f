----------------------- MODULE KnowledgeBaseProperties -----------------------
(***************************************************************************)
(* What the path from source files to the live index should guarantee.     *)
(***************************************************************************)
EXTENDS KnowledgeBase

Active(n) == gens[n].status = "ACTIVE"

\* current.json names a generation that was validated and whose directory is in
\* place, whatever step the Worker or its commit failed or died at.
LiveGenerationIsWhole ==
  pointer # 0 => /\ gens[pointer].docs # Null
                 /\ gens[pointer].status \notin {"NONE", "BUILDING"}

\* Where current.json stands, or is put back to, when no activation is committed.
Settled == IF work.pc = "commit" THEN work.prev ELSE pointer
PointerAgrees == \A n \in 1..MaxGen : Active(n) <=> Settled = n

\* The file current.json and the table index_generations agree on the live
\* generation; only a Worker that dies between the two can part them, for
\* build_and_activate undoes the one when the other fails.
PointerStaysWithTable == [][PointerAgrees => PointerAgrees' \/ WorkerCrash]_vars

\* The live generation leaves the ACTIVE state only in the commit that makes its
\* successor ACTIVE: no failed or interrupted build retires it.
RetiredOnlyBySuccessor ==
  [][(\E n \in 1..MaxGen : Active(n)) =>
       \E m \in 1..MaxGen : Active(m)' /\ \A n \in 1..MaxGen : Active(n)' => n = m]_vars

\* Readers of the live index see the register of IndexRegister: a generation is
\* there once it is placed, and a move of current.json is settled by the commit of
\* the activation, or by the death of the Worker.
LiveIndex == INSTANCE IndexRegister WITH
  Unwritten <- Null,
  content <- [n \in 1..MaxGen |-> gens[n].docs],
  live <- pointer,
  settled <- Settled

\* Builds, activations, failures and crashes keep the promise of the register: what
\* is live is complete, never edited, and left only for a newer generation.
LiveIndexIsARegister == LiveIndex!Spec

\* An INDEXED row has its document in the ACTIVE generation: whatever scans, deletes
\* and conversions did during the builds, a row an activation left out is not INDEXED.
IndexedIsContained ==
  \A s \in Source : row[s].idx = "INDEXED" =>
    \E n \in 1..MaxGen : Active(n) /\ gens[n].docs # Null /\ gens[n].docs[s] # Null

\* A card.json beside a published manifest describes the bytes of that manifest: a
\* build reuses the card of an INDEXED document without looking at the bytes.
CardDescribesArtifact ==
  \A s \in Source : Null \notin {md[s].sha, md[s].card} => md[s].card = md[s].sha

\* The artifact of a document, wherever publish has it at the moment.
Held(s) == IF work.pc = "swap" /\ s \in work.todo THEN work.kept ELSE md[s]

\* publish: "Publish a complete directory and retain the last good one on error."  An
\* artifact is only ever exchanged for the complete one of the bytes being converted,
\* or taken by a request whose row was never indexed.  What remains is a Worker that
\* dies between the two moves, for nothing looks at the backup again.
LastGoodArtifactIsRetained ==
  [][\A s \in Source : Held(s).sha # Null =>
       \/ Held(s)'.sha = Held(s).sha
       \/ Held(s)'.sha = work.sha /\ work'.pc = "ready"
       \/ \E r \in Request : Purge(r) /\ s \in Doomed(r)
       \/ WorkerCrash /\ work.pc = "swap"]_vars

\* _activate: "A conversion or inventory update that won the race makes this build
\* fail instead of activating a card for different source bytes."
ActivationIsFresh ==
  [][\A n \in 1..MaxGen : ~Active(n) /\ Active(n)' =>
       \A s \in Source : gens[n].docs[s] \in {Null, row[s].sha}]_vars

\* conversion_worker: "Never publish output unless the exact inventoried bytes
\* remain", so that a READY row's artifact is that of the recorded bytes.
ReadyMatchesArtifact ==
  \A s \in Source : row[s].conv = "READY" => md[s].sha = row[s].sha
=============================================================================

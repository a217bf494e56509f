--------------------- MODULE VisualEnrichmentProperties ---------------------
(***************************************************************************)
(* What may be relied on of a file's visuals: by the reader of its         *)
(* Markdown, by whoever pays for the requests, and by whoever stops a job. *)
(***************************************************************************)
EXTENDS VisualEnrichment

\* Slots, tasks and cache have the shape of result_slots, the requests and the files of
\* the cache.
TypeOK ==
  /\ format \in Format /\ file \in File /\ width \in Width
  /\ control \in {"active", "suspended"} /\ prompt \in Prompt /\ asked \in Prompt
  /\ cache \in [Key -> {Nothing} \union Texts]
  /\ at \in {"idle", "batch", "asking", "extracted"} \union Over
  /\ from \in 0..Len(file)
  /\ slot \in [Visual -> Slot] /\ task \in [Visual -> Task]
  /\ thread \in {"off", "on", "signal", "error"} /\ heard \in BOOLEAN

\* Whatever order requests end in, whichever were cached, shared by equal images or made
\* again: every visual of a file that is converted has the text of its own image, or
\* the fallback of its kind; only a file that may be incomplete has a refused one.
EveryVisualHasItsText ==
  at \in {"extracted", "returned"} => \A i \in Visual :
    CASE slot[i].text = "described" -> file[i] = slot[i].image
      [] slot[i] = Mark("refused") -> format.partial /\ file[i] \in Image
      [] slot[i] = Mark("broken") -> format.partial /\ file[i] = "broken"
      [] OTHER -> slot[i] = Mark("legacy") /\ file[i] = "legacy"

\* ARCHITECTURE.md: a change of the visual prompt must invalidate the derived cache: a
\* batch takes no text that was made with another prompt than the batch was planned with.
TextsAreOfThePrompt ==
  at = "asking" => \A i \in Of(Image) :
    slot[i].text = "described" => slot[i].prompt = asked

\* What has been answered is never asked for again, by an equal image of the same file, a
\* later page, a retry of the job or after a crash.
NothingIsAskedTwice ==
  at = "asking" => \A i \in Visual :
    task[i].state \in {"waiting", "asking", "resting"} => cache[Digest(i, asked)] = Nothing

\* "If every visual request fails, _visual_enrichments still raises"
\* (document_conversion.py:713-714): a file is not converted to fallbacks alone when it
\* has an image the model could have described.
SomeEvidenceIsKept ==
  at \in {"extracted", "returned"} /\ (\E i \in Visual : file[i] \in Image) =>
    \E i \in Visual : slot[i].text = "described"

\* A conversion that has met a paused, stopped or deleted job produces no artifact, also
\* when the job goes on meanwhile; without the thread of a presentation it does not end
\* as a failure of the file either, which would mark the source FAILED.
InterruptedIsNotConverted ==
  heard => at # "returned" /\ (at = "failed" => format.beating)

\* Every conversion ends, however its requests fail and whatever becomes of its job.
EveryConversionEnds == at \in {"batch", "asking", "extracted"} ~> at \in Over \union {"idle"}
=============================================================================

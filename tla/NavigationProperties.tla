------------------------ MODULE NavigationProperties ------------------------
(***************************************************************************)
(* What a question may rely on, whatever the models reply and whatever the *)
(* Worker does in the meantime.                                            *)
(***************************************************************************)
EXTENDS Navigation

\* The part is on the card of a document that the generation lists in that folder.
Whitelisted(p) == /\ listing[p[1]] > 0 /\ p[2] <= cards[p[1]].parts
                  /\ \E n \in DOMAIN gens : gens[n] = listing

\* However the router's replies are merged over folders, capped and supplemented from
\* the lexical index, a selected part is one of the single generation the question
\* started from and of the card read for it.
SelectionIsListed ==
  at \in {"cards", "route", "capped", "supplemented"} =>
    \A p \in Selected(documents) \union Selected(accepted) : Whitelisted(p)

\* The caps hold together: what the fallback adds counts with what the router selected,
\* and no document or part is selected twice.
SelectionKeepsLimits ==
  at \in {"supplemented", "answer", "done"} =>
    /\ Len(documents) <= Limits.documents
    /\ PartCount(documents) <= Limits.parts
    /\ Cardinality(Selected(documents)) = PartCount(documents)
    /\ Cardinality(Documents(documents)) = Len(documents)

\* _cap_selected_parts_round_robin: "Cap parts without allowing the first routed batch
\* to monopolize evidence": no document gets two parts more than one that was cut short,
\* and nothing is cut while there is room.
CapSharesEvidence ==
  at = "capped" =>
    /\ PartCount(documents) = Min({Limits.parts, PartCount(earlier)})
    /\ \A i, j \in DOMAIN documents :
         /\ IsPrefix(documents[i].parts, earlier[i].parts)
         /\ Len(documents[i].parts) < Len(earlier[i].parts) =>
              Len(documents[j].parts) <= Len(documents[i].parts) + 1

\* An empty or unsure routing of an ANSWER question is supplemented from the lexical
\* candidates, best first: one that stays out met a limit.
FallbackIsBestFirst ==
  at = "supplemented" /\ evidence = << >> /\ intent = "answer"
    /\ (PartCount(earlier) = 0 \/ low) =>
    LET chosen == Selected(documents)
        added == chosen \ Selected(earlier)
        Full == Cardinality(added) = Limits.fallback \/ PartCount(documents) = Limits.parts
        Shut(c) == c[1] \notin Documents(documents) /\ Len(documents) = Limits.documents
    IN \A i \in DOMAIN ValidCandidates :
         LET c == ValidCandidates[i] IN
         c \notin chosen => /\ Full \/ Shut(c)
                            /\ \/ Shut(c)
                               \/ \A j \in DOMAIN ValidCandidates :
                                    ValidCandidates[j] \in added => j < i

\* The content handed to the answer model leaves room for its output and the margin in
\* its context window, for every window a profile may have.
EvidenceFitsTheModel ==
  at = "supplemented" => UsedTokens + room.output + room.safety <= room.window

\* The published answer stands on what the model was shown: it cites parts whose content
\* it was given, with the anchors of their cards, keeps no dispute with one side only,
\* and offers selected documents only.
AnswerQuotesEvidence ==
  at = "done" =>
    /\ \A c \in answer.cited : \E i \in DOMAIN evidence :
         /\ evidence[i].doc = c.doc /\ evidence[i].part = c.part /\ evidence[i].content # 0
         /\ {c.anchor, c.label} = {<<c.part, evidence[i].card>>}
    /\ Len(answer.disputed) # 1
    /\ \A i \in DOMAIN answer.disputed : \E e \in EvidenceParts : e.doc = answer.disputed[i].doc
    /\ answer.offered \subseteq Documents(documents)

\* README.md: the backend checks again whether the anchor and the label of a citation
\* come from the evidence that was loaded, which is the text of one conversion.
CitedTextIsAnchored ==
  at = "done" => \A c \in answer.cited : \E e \in EvidenceParts :
    e.doc = c.doc /\ e.part = c.part /\ c.anchor = <<e.part, e.content>>
=============================================================================

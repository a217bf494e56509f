------------------------------ MODULE Navigation ------------------------------
(***************************************************************************)
(* A question on its way through the live index, while the Worker goes on  *)
(* converting, describing and indexing: NavigationService.navigate of      *)
(* services/navigation.py, the search of services/lexical_index.py, and    *)
(* what services/answer_generation.py lets through of the model's answer.  *)
(*                                                                         *)
(* A generation is read as it was when it was placed, but cards and parts  *)
(* are read from md/<id> one file at a time, and the model is asked in     *)
(* between.  What a model answers is any value its schema allows.          *)
(***************************************************************************)
EXTENDS Routing

CONSTANTS
  Folder, Document,
  FolderOf,        \* the folder of a document
  StartParts,      \* parts of each indexed document at first, 0 if it is not indexed
  MaxPart,         \* bound: parts of a document
  MaxVersion,      \* bound: conversions of a document
  MaxGen,          \* bound: index generations
  Intent,          \* the NavigationIntents told apart
  MaxBatches,      \* bound: prompts the root index is packed into
  MaxRows,         \* bound: rows the lexical index finds
  Window,          \* context windows of a profile, 0 if unset
  MaxOutput,       \* max_output_tokens of a profile, 0 if unset
  PartTokens,      \* estimated tokens of a part
  Limits,          \* the settings of the tuning page that navigation reads
  Reconverted      \* bound: documents converted again meanwhile

ASSUME NavigationConstants ==
  /\ IsFiniteSet(Document)
  /\ FolderOf \in [Document -> Folder] /\ Reconverted \subseteq Document
  /\ StartParts \in [Document -> 0..MaxPart]
  /\ MaxPart \in Nat \ {0} /\ MaxVersion \in Nat \ {0} /\ MaxGen \in Nat \ {0}
  /\ MaxBatches \in Nat \ {0} /\ MaxRows \in Nat
  /\ Window \subseteq Nat /\ MaxOutput \subseteq Nat /\ PartTokens \subseteq Nat
  /\ {"answer", "small_talk"} \subseteq Intent
  /\ \A l \in {"documents", "parts", "fallback", "perDocument", "candidates", "answerContext",
               "answerOutput", "routerContext", "routerOutput", "percent"} :
       Limits[l] \in Nat \ {0}

VARIABLES
  gens,        \* per generation, the parts it lists of each document
  live,        \* the generation current.json names
  md,          \* md/<id>: whether it is there, its conversion, its parts, its card
  at,          \* where the question stands
  listing,     \* the generation the question reads
  room,        \* the token budget of the answer model
  intent,
  routed,      \* folders to be searched, in order
  candidates,  \* lexical candidates, in the order of their rank
  toRead,      \* documents whose cards are still to be read
  cards,       \* cards as they were read
  turn,        \* the folder whose replies are merged
  accepted,    \* what is accepted of them so far
  low,         \* whether the router's confidence is low
  documents,   \* the selection
  earlier,     \* the selection before the last cap or fallback
  evidence,    \* the parts read for the answer
  answer       \* what is published of the model's answer

libraryVars == <<gens, live, md>>
searchVars == <<listing, room, intent, routed, candidates, cards>>
routeVars == <<turn, accepted, low, documents, earlier>>
vars == <<libraryVars, at, searchVars, toRead, routeVars, evidence, answer>>

-----------------------------------------------------------------------------
Part == Document \X (1..MaxPart)
Listing == [Document -> 0..MaxPart]
Card == [version : 0..MaxVersion, parts : 0..MaxPart]
NoCard == [version |-> 0, parts |-> 0]
Artifact == [there : BOOLEAN, version : 1..MaxVersion, parts : 1..MaxPart, card : BOOLEAN]
Anchor == (1..MaxPart) \X (1..MaxVersion)
Citation == [doc : Document, part : 1..MaxPart, anchor : Anchor, label : Anchor]
Claim == [doc : Document, anchor : Anchor]
Silence == [cited |-> {}, disputed |-> << >>, offered |-> {}]

\* Sequences without repetition.
Orders(S, n) == {s \in SeqOf(S, n) : IsInjective(s)}

IsSelection(s) == \A i \in DOMAIN s : /\ s[i].doc \in Document
                                      /\ s[i].parts \in Seq(1..MaxPart)

TypeOK ==
  /\ gens \in Seq(Listing) /\ live \in 0..Len(gens)
  /\ md \in [Document -> Artifact]
  /\ at \in {"idle", "root", "search", "cards", "route", "capped", "supplemented", "answer",
             "done", "failed"}
  /\ listing \in Listing
  /\ DOMAIN room = {"window", "output", "safety", "input"} /\ \A f \in DOMAIN room : room[f] \in Nat
  /\ intent \in Intent
  /\ routed \in Seq(Folder) /\ IsInjective(routed)
  /\ candidates \in Seq(Part) /\ IsInjective(candidates)
  /\ toRead \in Seq(Document)
  /\ cards \in [Document -> Card]
  /\ turn \in 1..(Len(routed) + 1)
  /\ IsSelection(accepted) /\ IsSelection(documents) /\ IsSelection(earlier)
  /\ low \in BOOLEAN
  /\ \A i \in DOMAIN evidence :
       /\ evidence[i].doc \in Document /\ evidence[i].part \in 1..MaxPart
       /\ evidence[i].card \in 1..MaxVersion /\ evidence[i].content \in 0..MaxVersion
       /\ evidence[i].tokens \in PartTokens
  /\ DOMAIN answer = DOMAIN Silence

NoRoom == [window |-> 0, output |-> 0, safety |-> 0, input |-> 0]
Nothing == [d \in Document |-> 0]
NoCards == [d \in Document |-> NoCard]

Init ==
  /\ gens \in {<< >>, <<StartParts>>} /\ live = Len(gens)
  /\ md = [d \in Document |-> [there |-> TRUE, version |-> 1, parts |-> Max({1, StartParts[d]}),
                               card |-> StartParts[d] > 0]]
  /\ at = "idle"
  /\ listing = Nothing /\ room = NoRoom /\ intent = "answer"
  /\ routed = << >> /\ candidates = << >> /\ toRead = << >> /\ cards = NoCards
  /\ turn = 1 /\ accepted = << >> /\ low = FALSE /\ documents = << >> /\ earlier = << >>
  /\ evidence = << >> /\ answer = Silence

-----------------------------------------------------------------------------
(* The Worker, as KnowledgeBase describes it: a conversion moves the old   *)
(* artifact aside and the new one in, without a card; a build describes    *)
(* what it will list, and then places the listing and points to it.  Of    *)
(* no interest once the question is over.                                  *)

MoveAside(d) ==
  /\ d \in Reconverted /\ md[d].there /\ md[d].version < MaxVersion
  /\ md' = [md EXCEPT ![d].there = FALSE, ![d].card = FALSE]
  /\ UNCHANGED <<gens, live>>

SwapIn(d) ==
  /\ ~md[d].there
  /\ \E n \in 1..MaxPart :
       md' = [md EXCEPT ![d] = [there |-> TRUE, version |-> @.version + 1, parts |-> n,
                                card |-> FALSE]]
  /\ UNCHANGED <<gens, live>>

GenerateCard(d) ==
  /\ md[d].there /\ ~md[d].card
  /\ md' = [md EXCEPT ![d].card = TRUE]
  /\ UNCHANGED <<gens, live>>

Activate ==
  /\ Len(gens) < MaxGen
  /\ gens' = Append(gens, [d \in Document |-> IF md[d].card THEN md[d].parts ELSE 0])
  /\ live' = Len(gens')
  /\ UNCHANGED md

Work ==
  /\ at \notin {"done", "failed"}
  /\ (\E d \in Document : MoveAside(d) \/ SwapIn(d) \/ GenerateCard(d)) \/ Activate
  /\ UNCHANGED <<at, searchVars, toRead, routeVars, evidence, answer>>

\* What navigate holds only until it returns, and what the question holds.
Forget ==
  /\ listing' = Nothing /\ room' = NoRoom /\ intent' = "answer"
  /\ routed' = << >> /\ candidates' = << >> /\ toRead' = << >> /\ cards' = NoCards
  /\ turn' = 1 /\ accepted' = << >> /\ low' = FALSE /\ earlier' = << >>

Over(outcome) ==
  /\ at' = outcome
  /\ Forget
  /\ documents' = << >> /\ evidence' = << >> /\ answer' = Silence

\* navigate returns what it has selected and read, and the answer model is asked.
NavigationReturns ==
  /\ at' = "answer"
  /\ Forget
  /\ UNCHANGED <<documents, evidence, answer>>

-----------------------------------------------------------------------------
(* The root index                                                          *)

Profile == [window : Window, output : MaxOutput]
AnswerBudget(p) == InputBudget(p,
  [window |-> Limits.answerContext, output |-> Limits.answerOutput, percent |-> Limits.percent])
RouterBudget(p) == InputBudget(p,
  [window |-> Limits.routerContext, output |-> Limits.routerOutput, percent |-> Limits.percent])

\* _load_current_root, and the budget of both models' profiles.
LoadRoot ==
  /\ at = "idle"
  /\ \E router, answering \in Profile :
       IF live = 0 \/ 0 \in {RouterBudget(router).input, AnswerBudget(answering).input}
       THEN Over("failed")
       ELSE /\ at' = "root"
            /\ listing' = gens[live]
            /\ room' = AnswerBudget(answering)
            /\ UNCHANGED <<intent, routed, candidates, cards, toRead, routeVars, evidence, answer>>
  /\ UNCHANGED libraryVars

ListedParts == {p \in Part : p[2] <= listing[p[1]]}
Root == {FolderOf[d] : d \in {e \in Document : listing[e] > 0}}
CandidateFolders(found) == [i \in DOMAIN found |-> FolderOf[found[i][1]]]

\* Documents whose cards are read, folder after folder: the recalled ones in the order
\* of their best rank, or all of them where nothing was recalled.
RoutingDocuments(folders, found) ==
  LET Recalled(f) == Distinct([i \in DOMAIN found |-> found[i][1]])
      OfFolder(f) == Only(Recalled(f), {d \in Document : FolderOf[d] = f})
      All(f) == SetToSeq({d \in Document : listing[d] > 0 /\ FolderOf[d] = f})
  IN FoldLeft(LAMBDA s, f : s \o (IF OfFolder(f) = << >> THEN All(f) ELSE OfFolder(f)),
              << >>, folders)

FolderReply == [intent : Intent, folders : Orders(Folder, 2)]

\* _select_folders: every batch of the root index is asked about; small talk ends here.
SelectFolders ==
  /\ at = "root"
  /\ \E replies \in SeqOf(FolderReply, MaxBatches) \ {<< >>} :
       IF ConsensusIntent(replies) = "small_talk"
       THEN Over("done")
       ELSE /\ at' = "search"
            /\ intent' = ConsensusIntent(replies)
            /\ routed' = NamedFolders(Root, replies)
            /\ UNCHANGED <<listing, room, candidates, cards, toRead, routeVars, evidence, answer>>
  /\ UNCHANGED libraryVars

\* search_lexical_index: its folders go before those the model named.  With no folder
\* at all the answer model is asked without evidence.
SearchIndex ==
  /\ at = "search"
  /\ \E rows \in Orders(ListedParts, MaxRows) :
       LET found == Diverse(rows, Limits.perDocument, Limits.candidates)
           folders == FirstOf(Distinct(CandidateFolders(found) \o routed), Limits.documents)
       IN IF folders = << >>
          THEN NavigationReturns
          ELSE /\ at' = "cards"
               /\ routed' = folders
               /\ candidates' = found
               /\ toRead' = RoutingDocuments(folders, found)
               /\ UNCHANGED <<listing, room, intent, cards, routeVars, evidence, answer>>
  /\ UNCHANGED libraryVars

-----------------------------------------------------------------------------
(* Cards, and the documents the router selects                             *)

\* _routing_documents reads the card of one document.
ReadCard ==
  /\ at = "cards"
  /\ LET d == Head(toRead) IN
     IF md[d].there /\ md[d].card
     THEN /\ cards' = [cards EXCEPT ![d] = [version |-> md[d].version, parts |-> md[d].parts]]
          /\ toRead' = Tail(toRead)
          /\ at' = IF Tail(toRead) = << >> THEN "route" ELSE "cards"
          /\ UNCHANGED <<listing, room, intent, routed, candidates, routeVars, evidence, answer>>
     ELSE Over("failed")
  /\ UNCHANGED libraryVars

Whitelist(d) == 1..cards[d].parts
Routing == at = "route" /\ turn <= Len(routed) /\ Len(documents) < Limits.documents

\* Seeded fault: a selection is not held against the cards.
TakeAnySelection(d, parts) ==
  /\ Routing /\ FolderOf[d] = routed[turn]
  /\ accepted' = Accept(accepted, d, parts, 1..MaxPart)
  /\ UNCHANGED <<libraryVars, at, searchVars, toRead, turn, low, documents, earlier,
                 evidence, answer>>

\* One of the document selections the router replies with for a folder.
TakeSelection(d, parts) ==
  /\ Routing /\ FolderOf[d] = routed[turn] /\ cards[d] # NoCard
  /\ accepted' = Accept(accepted, d, parts, Whitelist(d))
  /\ UNCHANGED <<libraryVars, at, searchVars, toRead, turn, low, documents, earlier,
                 evidence, answer>>

\* The replies of a folder are through.
FinishFolder ==
  /\ Routing
  /\ \E unsure \in BOOLEAN : low' = (low \/ unsure)
  /\ documents' = FirstOf(documents \o accepted, Limits.documents)
  /\ accepted' = << >>
  /\ turn' = turn + 1
  /\ UNCHANGED <<libraryVars, at, searchVars, toRead, earlier, evidence, answer>>

CapParts ==
  /\ at = "route" /\ ~Routing
  /\ earlier' = documents
  /\ documents' = Cap(documents, Limits.parts)
  /\ at' = "capped"
  /\ UNCHANGED <<libraryVars, searchVars, toRead, turn, accepted, low, evidence, answer>>

\* Candidates whose card was read and still has the part.
ValidCandidates == Only(candidates, {c \in Part : c[2] \in Whitelist(c[1])})
NeedsFallback == intent = "answer" /\ (PartCount(documents) = 0 \/ low)

Supplement ==
  /\ at = "capped"
  /\ earlier' = documents
  /\ documents' = IF NeedsFallback THEN Fallback(documents, ValidCandidates, Limits)
                  ELSE documents
  /\ at' = "supplemented"
  /\ UNCHANGED <<libraryVars, searchVars, toRead, turn, accepted, low, evidence, answer>>

-----------------------------------------------------------------------------
(* Evidence and answer                                                     *)

PartsInOrder == FoldLeft(LAMBDA s, d : s \o [i \in DOMAIN d.parts |-> <<d.doc, d.parts[i]>>],
                         << >>, documents)
UsedTokens == FoldLeft(LAMBDA n, e : IF e.content = 0 THEN n ELSE n + e.tokens, 0, evidence)

\* _load_parts reads one part; what exceeds the budget is kept without its content.
ReadPart ==
  /\ at = "supplemented" /\ Len(evidence) < Len(PartsInOrder)
  /\ LET p == PartsInOrder[Len(evidence) + 1]  d == p[1] IN
     IF md[d].there /\ p[2] <= md[d].parts
     THEN /\ \E t \in PartTokens :
               evidence' = Append(evidence, [doc |-> d, part |-> p[2], tokens |-> t,
                 card |-> cards[d].version,
                 content |-> IF UsedTokens + t <= room.input THEN md[d].version ELSE 0])
          /\ UNCHANGED <<at, searchVars, toRead, routeVars, answer>>
     ELSE Over("failed")
  /\ UNCHANGED libraryVars

EndNavigation ==
  /\ at = "supplemented" /\ Len(evidence) = Len(PartsInOrder)
  /\ NavigationReturns
  /\ UNCHANGED libraryVars

\* Seeded fault: parts the model was given no content of may be cited.
EvidencePartsOfAll == ToSet(evidence)

EvidenceParts == {e \in ToSet(evidence) : e.content # 0}

\* An anchor and a label are those of a part in one version of its card.
AnchorOf(e) == <<e.part, e.card>>

ValidCitation(c) == \E e \in EvidenceParts :
  e.doc = c.doc /\ e.part = c.part /\ c.anchor = AnchorOf(e) /\ c.label = AnchorOf(e)
ValidClaim(v) == \E e \in EvidenceParts : e.doc = v.doc /\ v.anchor = AnchorOf(e)
Disputed(values) == LET valid == Only(values, {v \in Claim : ValidClaim(v)}) IN
                    IF Len(valid) >= 2 THEN valid ELSE << >>

\* generate, and _validated_result over a citation, a conflict or a download of the
\* model's output: present are the files the database knows when the answer begins.
Answer ==
  /\ at = "answer"
  /\ \/ \E c \in Citation : answer' = [Silence EXCEPT !.cited = {x \in {c} : ValidCitation(x)}]
     \/ \E v, w \in Claim : answer' = [Silence EXCEPT !.disputed = Disputed(<<v, w>>)]
     \/ \E present \in SUBSET Documents(documents), d \in Document :
          answer' = [Silence EXCEPT !.offered = {d} \cap Documents(documents) \cap present]
  /\ at' = "done"
  /\ UNCHANGED <<libraryVars, searchVars, toRead, routeVars, evidence>>

\* A model call fails, or its reply does not have the form asked for; the lexical index
\* is malformed; an entry does not fit the token budget of its prompt.
Fail ==
  /\ at \in {"root", "search", "route", "answer"}
  /\ Over("failed")
  /\ UNCHANGED libraryVars

-----------------------------------------------------------------------------
Navigate ==
  \/ LoadRoot \/ SelectFolders \/ SearchIndex \/ ReadCard \/ FinishFolder \/ CapParts \/ Supplement
  \/ \E d \in Document, parts \in Orders(1..MaxPart, MaxPart) : TakeSelection(d, parts)
  \/ ReadPart \/ EndNavigation \/ Answer \/ Fail

Next == Navigate \/ Work

Spec == Init /\ [][Next]_vars
=============================================================================

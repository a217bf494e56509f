--------------------------- MODULE NavigationProofs ---------------------------
(***************************************************************************)
(* The navigation of a question, for any documents, folders, cards, limits *)
(* and budgets, and with conversions and index builds beside it: what is   *)
(* selected is listed and keeps the limits, the cap shares fairly, the     *)
(* fallback takes the best first, the evidence fits the model and the      *)
(* answer quotes no other.                                                 *)
(***************************************************************************)
EXTENDS NavigationLemmas

-----------------------------------------------------------------------------
(* The inductive invariant                                                 *)

\* Parts on the cards that were read; once the cards are forgotten, any part.

CardParts == {p \in Part : p[2] <= cards[p[1]].parts}
Readable == IF at \in {"answer", "done"} THEN Part ELSE CardParts

Reading == at \in {"root", "search", "cards", "route", "capped", "supplemented"}

\* The Worker's files; a document it moved aside is not of the last version yet.
LibraryInv ==
  /\ gens \in Seq(Listing) /\ live \in 0..Len(gens)
  /\ md \in [Document -> Artifact]
  /\ \A d \in Document : ~md[d].there => md[d].version < MaxVersion

\* The question reads one generation, within a budget that adds up, and has cards of
\* documents which that generation lists.
SearchInv ==
  /\ at \in {"idle", "root", "search", "cards", "route", "capped", "supplemented", "answer",
             "done", "failed"}
  /\ listing \in Listing
  /\ Reading => \E n \in DOMAIN gens : gens[n] = listing
  /\ DOMAIN room = {"window", "output", "safety", "input"}
  /\ room.window \in Nat /\ room.output \in Nat /\ room.safety \in Nat /\ room.input \in Nat
  /\ Reading => room.input + room.output + room.safety = room.window
  /\ intent \in Intent
  /\ routed \in Seq(Folder) /\ IsInjective(routed)
  /\ at = "search" => \A i \in DOMAIN routed : routed[i] \in Root
  /\ candidates \in Seq(Part) /\ IsInjective(candidates)
  /\ toRead \in Seq({d \in Document : listing[d] > 0})
  /\ at = "cards" => toRead # << >>
  /\ at \in {"idle", "root", "search"} => toRead = << >> /\ cards = NoCards
  /\ cards \in [Document -> Card]
  /\ \A d \in Document : cards[d] # NoCard => listing[d] > 0 /\ cards[d].version \in 1..MaxVersion

\* What is selected is on the cards, no document or part twice, folder after folder.
RouteInv ==
  /\ turn \in 1..(Len(routed) + 1) /\ low \in BOOLEAN
  /\ accepted \in Seq(Within(Readable)) /\ OneEach(accepted)
  /\ documents \in Seq(Within(Readable)) /\ OneEach(documents)
  /\ earlier \in Seq(Within(Readable)) /\ OneEach(earlier)
  /\ at \in {"idle", "root", "search", "cards"} =>
       turn = 1 /\ accepted = << >> /\ documents = << >> /\ earlier = << >>
  /\ \A i \in DOMAIN accepted : turn <= Len(routed) /\ FolderOf[accepted[i].doc] = routed[turn]
  /\ at = "route" => \A i \in DOMAIN documents :
       \E m \in 1..(turn - 1) : FolderOf[documents[i].doc] = routed[m]
  /\ Len(documents) <= Limits.documents
  /\ at \in {"capped", "supplemented", "answer", "done"} => PartCount(documents) <= Limits.parts

\* The evidence handed to the answer model stays within its budget.
EvidenceInv ==
  /\ evidence \in Seq(Evidence)
  /\ at \notin {"supplemented", "answer", "done"} => evidence = << >>
  /\ at = "supplemented" => TokenSum(evidence) <= room.input
  /\ DOMAIN answer = DOMAIN Silence

NavInv == LibraryInv /\ SearchInv /\ RouteInv /\ EvidenceInv

\* What holds of no selection at all.
LEMMA Empty ==
  /\ \A A : << >> \in Seq(A)
  /\ OneEach(<< >>) /\ IsInjective(<< >>) /\ DOMAIN << >> = {} /\ Len(<< >>) = 0
  /\ PartCount(<< >>) = 0 /\ TokenSum(<< >>) = 0
  /\ Selected(<< >>) = {} /\ Documents(<< >>) = {}
<1>1. << >> \in Seq(Selection) /\ << >> \in Seq(Evidence) /\ Len(<< >>) = 0
  OBVIOUS
<1>2. PartCount(<< >>) = 0
  <2>1. PICK e \in Seq(Selection) : e = << >>
    BY <1>1
  <2>2. \A i \in 1..Len(e) : e[i].parts = << >>
    BY <2>1
  <2>3. PartCount(e) = 0
    BY <2>2, CountNothing
  <2>4. QED
    BY <2>1, <2>3
<1>3. TokenSum(<< >>) = 0
  <2>1. PICK r \in [0..Len(<< >>) -> Nat] :
          r[Len(<< >>)] = TokenSum(<< >>) /\ Trail(r, TokenStep, 0, << >>)
    BY <1>1, TokenTrail
  <2>2. QED
    BY <1>1, <2>1 DEF Trail
<1>4. Selected(<< >>) = {} /\ Documents(<< >>) = {}
  BY DEF Selected, Documents
<1>5. OneEach(<< >>) /\ IsInjective(<< >>)
  BY DEF OneEach, IsInjective
<1>6. QED
  BY <1>1, <1>2, <1>3, <1>4, <1>5

LEMMA Constants ==
  /\ IsFiniteSet(Document) /\ FolderOf \in [Document -> Folder]
  /\ MaxPart \in Nat \ {0} /\ MaxVersion \in Nat \ {0} /\ MaxGen \in Nat \ {0}
  /\ MaxBatches \in Nat \ {0} /\ MaxRows \in Nat
  /\ Window \subseteq Nat /\ MaxOutput \subseteq Nat /\ PartTokens \subseteq Nat
  /\ "answer" \in Intent /\ StartParts \in Listing
  /\ Limits.documents \in Nat \ {0} /\ Limits.parts \in Nat \ {0} /\ Limits.fallback \in Nat \ {0}
  /\ Limits.answerContext \in Nat \ {0} /\ Limits.answerOutput \in Nat \ {0}
  /\ Limits.percent \in Nat \ {0}
<1>1. \A l \in {"documents", "parts", "fallback", "perDocument", "candidates", "answerContext",
                "answerOutput", "routerContext", "routerOutput", "percent"} :
        Limits[l] \in Nat \ {0}
  BY NavigationConstants
<1>2. QED
  BY <1>1, NavigationConstants DEF Listing

\* Nothing is routed.
LEMMA InitRoute == Init => RouteInv
<1> SUFFICES ASSUME Init PROVE RouteInv
  OBVIOUS
<1>1. << >> \in Seq(Within(Readable)) /\ OneEach(<< >>) /\ DOMAIN << >> = {} /\ Len(<< >>) = 0
      /\ PartCount(<< >>) = 0
  BY Empty
<1>2. 0 <= Limits.documents /\ 0 <= Limits.parts
  BY Constants
<1>3. turn \in 1..(Len(routed) + 1) /\ low \in BOOLEAN
  <2>1. Len(routed) = 0
    BY <1>1 DEF Init
  <2>2. turn = 1
    BY DEF Init
  <2>3. turn \in 1..(Len(routed) + 1)
    BY <2>1, <2>2
  <2>4. QED
    BY <2>3 DEF Init
<1>4. /\ \A i \in DOMAIN accepted : turn <= Len(routed) /\ FolderOf[accepted[i].doc] = routed[turn]
      /\ \A i \in DOMAIN documents :
           \E m \in 1..(turn - 1) : FolderOf[documents[i].doc] = routed[m]
  BY <1>1 DEF Init
<1>5. Len(documents) <= Limits.documents /\ PartCount(documents) <= Limits.parts
  BY <1>1, <1>2 DEF Init
<1>6. /\ accepted \in Seq(Within(Readable)) /\ OneEach(accepted)
      /\ documents \in Seq(Within(Readable)) /\ OneEach(documents)
      /\ earlier \in Seq(Within(Readable)) /\ OneEach(earlier)
  BY <1>1 DEF Init
<1>7. at \in {"idle", "root", "search", "cards"} =>
        turn = 1 /\ accepted = << >> /\ documents = << >> /\ earlier = << >>
  BY DEF Init
<1>8. QED
  BY <1>3, <1>4, <1>5, <1>6, <1>7 DEF RouteInv

\* Before a folder is routed, and when all is forgotten, nothing is selected.
LEMMA BareRoute ==
  ASSUME turn' = 1, low' \in BOOLEAN, accepted' = << >>, documents' = << >>, earlier' = << >>,
         routed' \in Seq(Folder)
  PROVE  RouteInv'
<1>1. << >> \in Seq(Within(Readable')) /\ OneEach(<< >>) /\ DOMAIN << >> = {} /\ Len(<< >>) = 0
      /\ PartCount(<< >>) = 0
  BY Empty
<1>2. 0 <= Limits.documents /\ 0 <= Limits.parts
  BY Constants
<1>3. turn' \in 1..(Len(routed') + 1) /\ low' \in BOOLEAN
  <2>1. PICK n : n = Len(routed')
    OBVIOUS
  <2>2. n \in Nat
    BY <2>1
  <2>3. 1 \in 1..(n + 1)
    BY <2>2
  <2>4. QED
    BY <2>1, <2>3
<1>4. /\ \A i \in DOMAIN accepted' : turn' <= Len(routed') /\ FolderOf[accepted'[i].doc] = routed'[turn']
      /\ \A i \in DOMAIN documents' :
           \E m \in 1..(turn' - 1) : FolderOf[documents'[i].doc] = routed'[m]
  BY <1>1
<1>5. Len(documents') <= Limits.documents /\ PartCount(documents') <= Limits.parts
  BY <1>1, <1>2
<1>6. /\ accepted' \in Seq(Within(Readable')) /\ OneEach(accepted')
      /\ documents' \in Seq(Within(Readable')) /\ OneEach(documents')
      /\ earlier' \in Seq(Within(Readable')) /\ OneEach(earlier')
  BY <1>1
<1>7. at' \in {"idle", "root", "search", "cards"} =>
        turn' = 1 /\ accepted' = << >> /\ documents' = << >> /\ earlier' = << >>
  OBVIOUS
<1>8. QED
  BY <1>3, <1>4, <1>5, <1>6, <1>7 DEF RouteInv

\* The consensus is an intent that some batch named.
LEMMA ConsensusIsSaid ==
  ASSUME NEW replies \in Seq(FolderReply), replies # << >>
  PROVE  ConsensusIntent(replies) \in Intent
<1> DEFINE Votes(n) == Cardinality({m \in DOMAIN replies : replies[m].intent = replies[n].intent})
           Leads(n) == \A m \in DOMAIN replies : Votes(m) <= Votes(n)
           L == {n \in DOMAIN replies : Leads(n)}
<1>1. DOMAIN replies = 1..Len(replies) /\ Len(replies) \in Nat /\ 1 \in DOMAIN replies
  OBVIOUS
<1>2. \A n \in DOMAIN replies : Votes(n) \in 0..Len(replies)
  <2>1. IsFiniteSet(DOMAIN replies) /\ Cardinality(DOMAIN replies) = Len(replies)
    <3>1. PICK n \in Nat : n = Len(replies)
      BY <1>1
    <3>2. IsFiniteSet(1..n) /\ Cardinality(1..n) = n
      BY FS_Interval
    <3>3. QED
      BY <1>1, <3>1, <3>2
  <2>2. ASSUME NEW n \in DOMAIN replies PROVE Votes(n) \in 0..Len(replies)
    <3> DEFINE A == {m \in DOMAIN replies : replies[m].intent = replies[n].intent}
    <3>1. A \subseteq DOMAIN replies
      OBVIOUS
    <3>2. Votes(n) = Cardinality(A)
      OBVIOUS
    <3> HIDE DEF A, Votes
    <3>3. IsFiniteSet(A) /\ Cardinality(A) <= Len(replies)
      BY <2>1, <3>1, FS_Subset
    <3>4. Cardinality(A) \in Nat
      BY <3>3, FS_CardinalityType
    <3>5. QED
      BY <1>1, <3>2, <3>3, <3>4
  <2>3. QED
    BY <2>2
<1> HIDE DEF Votes
<1>3. \E n \in DOMAIN replies : Leads(n)
  <2> DEFINE D == {Len(replies) - Votes(n) : n \in DOMAIN replies}
  <2>1. D \in SUBSET Nat /\ D # {}
    BY <1>1, <1>2
  <2>2. PICK best \in D : \A v \in D : best <= v
    <3> HIDE DEF D
    <3>1. QED
      BY <2>1, LeastOf
  <2>3. PICK n \in DOMAIN replies : best = Len(replies) - Votes(n)
    BY <2>2
  <2>4. ASSUME NEW m \in DOMAIN replies PROVE Votes(m) <= Votes(n)
    <3>1. Len(replies) - Votes(n) <= Len(replies) - Votes(m)
      BY <2>2, <2>3
    <3>2. QED
      BY <1>1, <1>2, <3>1
  <2>5. QED
    BY <2>4
<1>4. Min(L) \in L
  <2>1. L \in SUBSET Nat /\ L # {}
    BY <1>1, <1>3
  <2> HIDE DEF L
  <2>2. PICK m \in L : \A k \in L : m <= k
    BY <2>1, LeastOf
  <2>3. QED
    BY <2>2 DEF Min
<1>5. ConsensusIntent(replies) = replies[Min(L)].intent
  BY DEF ConsensusIntent, Votes
<1>6. QED
  <2>1. Min(L) \in DOMAIN replies
    BY <1>4
  <2>2. replies[Min(L)] \in FolderReply
    BY <2>1
  <2>3. QED
    BY <1>5, <2>2 DEF FolderReply

\* The invariant holds at the start.
LEMMA InitKeeps == Init => NavInv
<1> SUFFICES ASSUME Init PROVE NavInv
  OBVIOUS
<1>1. LibraryInv
  <2>1. gens \in Seq(Listing) /\ live \in 0..Len(gens)
    <3>1. gens = << >> \/ gens = <<StartParts>>
      BY DEF Init
    <3>2. StartParts \in Listing
      BY Constants
    <3>5. << >> \in Seq(Listing)
      BY Empty
    <3>6. <<StartParts>> \in Seq(Listing)
      BY <3>2
    <3>7. gens \in Seq(Listing)
      BY <3>1, <3>5, <3>6
    <3>3. live = Len(gens)
      BY DEF Init
    <3>4. QED
      BY <3>7, <3>3
  <2>2. ASSUME NEW d \in Document
        PROVE  [there |-> TRUE, version |-> 1, parts |-> Max({1, StartParts[d]}),
                card |-> StartParts[d] > 0] \in Artifact
    <3>1. StartParts[d] \in 0..MaxPart /\ MaxPart \in Nat \ {0} /\ MaxVersion \in Nat \ {0}
      BY Constants DEF Listing
    <3>2. Max({1, StartParts[d]}) \in 1..MaxPart
      <4>1. Max({1, StartParts[d]}) = IF 1 >= StartParts[d] THEN 1 ELSE StartParts[d]
        BY <3>1, MaxOfTwo
      <4>2. QED
        BY <3>1, <4>1
    <3>3. (StartParts[d] > 0) \in BOOLEAN
      OBVIOUS
    <3>4. 1 \in 1..MaxVersion
      BY <3>1
    <3>5. QED
      BY <3>2, <3>3, <3>4 DEF Artifact
  <2>3. md \in [Document -> Artifact] /\ \A d \in Document : md[d].there
    BY <2>2 DEF Init
  <2>4. QED
    BY <2>1, <2>3 DEF LibraryInv
<1>2. SearchInv
  <2>1. listing \in Listing /\ cards \in [Document -> Card] /\ \A d \in Document : cards[d] = NoCard
    BY Constants DEF Init, Nothing, NoCards, NoCard, Card, Listing
  <2>2. QED
    BY <2>1, Empty, Constants DEF Init, SearchInv, Reading, NoRoom
<1>3. RouteInv
  BY InitRoute
<1>4. EvidenceInv
  BY Empty, Constants DEF Init, EvidenceInv
<1>5. QED
  BY <1>1, <1>2, <1>3, <1>4 DEF NavInv

\* A question that ends forgets everything.
LEMMA OverKeeps ==
  ASSUME NEW outcome \in {"done", "failed"}, Over(outcome), LibraryInv'
  PROVE  NavInv'
<1>1. SearchInv'
  <2>1. listing' \in Listing /\ cards' \in [Document -> Card]
        /\ \A d \in Document : cards'[d] = NoCard
    BY Constants DEF Over, Forget, Nothing, NoCards, NoCard, Card, Listing
  <2>2. QED
    BY <2>1, Empty, Constants DEF Over, Forget, SearchInv, Reading, NoRoom
<1>2. RouteInv'
  <2>1. turn' = 1 /\ low' = FALSE /\ accepted' = << >> /\ documents' = << >> /\ earlier' = << >>
        /\ routed' = << >>
    BY DEF Over, Forget
  <2>2. routed' \in Seq(Folder)
    BY <2>1, Empty
  <2>3. QED
    BY <2>1, <2>2, BareRoute
<1>3. EvidenceInv'
  BY Empty, Constants DEF Over, Forget, EvidenceInv
<1>4. QED
  BY <1>1, <1>2, <1>3 DEF NavInv

\* A step of the question leaves the Worker's files alone.
LEMMA LibraryStays ==
  ASSUME LibraryInv, UNCHANGED libraryVars
  PROVE  LibraryInv'
  BY DEF LibraryInv, libraryVars

\* Before the router is asked about cards nothing is selected.
LEMMA UnroutedKeeps ==
  ASSUME RouteInv, EvidenceInv, at \in {"idle", "root", "search", "cards"},
         at' \in {"root", "search", "cards", "route"}, routed' \in Seq(Folder),
         UNCHANGED <<routeVars, evidence, answer>>
  PROVE  RouteInv' /\ EvidenceInv'
<1>1. turn' = 1 /\ low' \in BOOLEAN /\ accepted' = << >> /\ documents' = << >> /\ earlier' = << >>
  BY DEF RouteInv, routeVars
<1>2. RouteInv'
  BY <1>1, BareRoute
<1>3. evidence = << >> /\ evidence' = << >> /\ DOMAIN answer' = DOMAIN Silence
  BY DEF EvidenceInv
<1>4. EvidenceInv'
  BY <1>3, Empty DEF EvidenceInv
<1>5. QED
  BY <1>2, <1>4

\* Once navigation returns, what it read of the index is given up.
LEMMA ReturnForgets ==
  ASSUME NavigationReturns
  PROVE  SearchInv'
<1>1. listing' \in Listing /\ cards' \in [Document -> Card]
      /\ \A d \in Document : cards'[d] = NoCard
  BY Constants DEF NavigationReturns, Forget, Nothing, NoCards, NoCard, Card, Listing
<1>2. QED
  BY <1>1, Empty, Constants DEF NavigationReturns, Forget, SearchInv, Reading, NoRoom

\* A search that ends without a folder hands nothing to the answer model.
LEMMA BareReturnKeeps ==
  ASSUME NavInv, at = "search", NavigationReturns, LibraryInv'
  PROVE  NavInv'
<1>1. RouteInv'
  <2>1. turn' = 1 /\ low' = FALSE /\ accepted' = << >> /\ documents' = << >> /\ earlier' = << >>
        /\ routed' = << >>
    BY DEF NavInv, RouteInv, NavigationReturns, Forget
  <2>2. routed' \in Seq(Folder)
    BY <2>1, Empty
  <2>3. QED
    BY <2>1, <2>2, BareRoute
<1>2. EvidenceInv'
  <2>1. at' = "answer" /\ evidence' = evidence /\ answer' = answer
    BY DEF NavigationReturns
  <2>2. QED
    BY <2>1 DEF NavInv, EvidenceInv
<1>3. QED
  BY <1>1, <1>2, ReturnForgets DEF NavInv

\* The question starts: it reads the pointer once, and that generation's listing.
LEMMA LoadRootKeeps ==
  ASSUME NavInv, LoadRoot
  PROVE  NavInv'
<1> USE DEF NavInv
<1>1. LibraryInv'
  BY LibraryStays DEF LoadRoot
<1>2. PICK router \in Profile, answering \in Profile :
        IF live = 0 \/ 0 \in {RouterBudget(router).input, AnswerBudget(answering).input}
        THEN Over("failed")
        ELSE /\ at' = "root"
             /\ listing' = gens[live]
             /\ room' = AnswerBudget(answering)
             /\ UNCHANGED <<intent, routed, candidates, cards, toRead, routeVars, evidence, answer>>
  BY DEF LoadRoot
<1>3. CASE live = 0 \/ 0 \in {RouterBudget(router).input, AnswerBudget(answering).input}
  BY <1>1, <1>2, <1>3, OverKeeps
<1>4. CASE ~(live = 0 \/ 0 \in {RouterBudget(router).input, AnswerBudget(answering).input})
  <2>1. /\ at' = "root" /\ listing' = gens[live] /\ room' = AnswerBudget(answering) /\ at = "idle"
        /\ UNCHANGED <<intent, routed, candidates, cards, toRead, routeVars, evidence, answer>>
        /\ gens' = gens
    BY <1>2, <1>4 DEF LoadRoot, libraryVars
  <2>2. live \in DOMAIN gens /\ gens[live] \in Listing
    BY <1>4 DEF LibraryInv
  <2>3. /\ DOMAIN room' = {"window", "output", "safety", "input"}
        /\ room'.window \in Nat /\ room'.output \in Nat /\ room'.safety \in Nat /\ room'.input \in Nat
        /\ room'.input + room'.output + room'.safety = room'.window
    <3> DEFINE settings == [window |-> Limits.answerContext, output |-> Limits.answerOutput,
                            percent |-> Limits.percent]
    <3>1. /\ answering.window \in Nat /\ answering.output \in Nat /\ settings.window \in Nat \ {0}
          /\ settings.output \in Nat \ {0} /\ settings.percent \in Nat \ {0}
      BY Constants DEF Profile
    <3>2. room' = InputBudget(answering, settings) /\ room'.input # 0
      BY <1>4, <2>1 DEF AnswerBudget
    <3> HIDE DEF settings
    <3>3. QED
      BY <3>1, <3>2, BudgetFacts
  <2>4. /\ toRead' = << >> /\ toRead' \in Seq({d \in Document : listing'[d] > 0})
        /\ cards' = NoCards /\ cards' \in [Document -> Card] /\ \A d \in Document : cards'[d] = NoCard
    BY <2>1, Empty DEF SearchInv, NoCards
  <2>5. SearchInv'
    BY <2>1, <2>2, <2>3, <2>4 DEF SearchInv, Reading
  <2>6. routed' \in Seq(Folder)
    BY <2>1 DEF SearchInv
  <2>7. RouteInv' /\ EvidenceInv'
    BY <2>1, <2>6, UnroutedKeeps
  <2>8. QED
    BY <1>1, <2>5, <2>7
<1>5. QED
  BY <1>3, <1>4

\* The folders that the batches name and the root lists are routed.
LEMMA SelectFoldersKeeps ==
  ASSUME NavInv, SelectFolders
  PROVE  NavInv'
<1> USE DEF NavInv
<1>1. LibraryInv'
  BY LibraryStays DEF SelectFolders
<1>2. PICK replies \in SeqOf(FolderReply, MaxBatches) \ {<< >>} :
        IF ConsensusIntent(replies) = "small_talk"
        THEN Over("done")
        ELSE /\ at' = "search"
             /\ intent' = ConsensusIntent(replies)
             /\ routed' = NamedFolders(Root, replies)
             /\ UNCHANGED <<listing, room, candidates, cards, toRead, routeVars, evidence, answer>>
  BY DEF SelectFolders
<1>3. CASE ConsensusIntent(replies) = "small_talk"
  BY <1>1, <1>2, <1>3, OverKeeps
<1>4. CASE ConsensusIntent(replies) # "small_talk"
  <2>1. /\ at' = "search" /\ at = "root" /\ intent' = ConsensusIntent(replies)
        /\ routed' = NamedFolders(Root, replies) /\ gens' = gens
        /\ UNCHANGED <<listing, room, candidates, cards, toRead, routeVars, evidence, answer>>
    BY <1>2, <1>4 DEF SelectFolders, libraryVars
  <2>2. replies \in Seq(FolderReply) /\ replies # << >>
    <3>1. MaxBatches \in Nat /\ replies \in SeqOf(FolderReply, MaxBatches)
      BY Constants
    <3>2. QED
      BY <3>1, OfSeqOf
  <2>3. routed' \in Seq(Folder) /\ IsInjective(routed') /\ \A i \in DOMAIN routed' : routed'[i] \in Root
    BY <2>1, <2>2, NamedFacts
  <2>4. intent' \in Intent
    BY <2>1, <2>2, ConsensusIsSaid
  <2>5. Root' = Root
    BY <2>1 DEF Root
  <2>6. SearchInv'
    BY <2>1, <2>3, <2>4, <2>5 DEF SearchInv, Reading
  <2>7. RouteInv' /\ EvidenceInv'
    BY <2>1, <2>3, UnroutedKeeps
  <2>8. QED
    BY <1>1, <2>6, <2>7
<1>5. QED
  BY <1>3, <1>4

\* The matches of the search, and the documents whose cards are to be read.
LEMMA SearchIndexKeeps ==
  ASSUME NavInv, SearchIndex
  PROVE  NavInv'
<1> USE DEF NavInv
<1>1. LibraryInv'
  BY LibraryStays DEF SearchIndex
<1> DEFINE Found(rows) == Diverse(rows, Limits.perDocument, Limits.candidates)
           Folders(found) == FirstOf(Distinct(CandidateFolders(found) \o routed), Limits.documents)
<1>2. PICK rows \in Orders(ListedParts, MaxRows) :
        IF Folders(Found(rows)) = << >>
        THEN NavigationReturns
        ELSE /\ at' = "cards"
             /\ routed' = Folders(Found(rows))
             /\ candidates' = Found(rows)
             /\ toRead' = RoutingDocuments(Folders(Found(rows)), Found(rows))
             /\ UNCHANGED <<listing, room, intent, cards, routeVars, evidence, answer>>
  BY DEF SearchIndex
<1> DEFINE found == Found(rows)
           folders == Folders(found)
<1>3. CASE folders = << >>
  <2>1. at = "search" /\ NavigationReturns
    BY <1>2, <1>3 DEF SearchIndex
  <2>2. QED
    BY <1>1, <2>1, BareReturnKeeps
<1>4. CASE folders # << >>
  <2>1. /\ at' = "cards" /\ at = "search" /\ routed' = folders /\ candidates' = found
        /\ toRead' = RoutingDocuments(folders, found) /\ gens' = gens
        /\ UNCHANGED <<listing, room, intent, cards, routeVars, evidence, answer>>
    BY <1>2, <1>4 DEF SearchIndex, libraryVars
  <2>2. rows \in Seq(ListedParts) /\ IsInjective(rows)
    <3>1. MaxRows \in Nat /\ rows \in SeqOf(ListedParts, MaxRows) /\ IsInjective(rows)
      BY Constants DEF Orders
    <3>2. QED
      BY <3>1, OfSeqOf
  <2>3. found \in Seq(ListedParts) /\ IsInjective(found)
    BY <2>2, DiverseFacts
  <2>4. found \in Seq(Part)
    <3>1. ListedParts \subseteq Part
      BY DEF ListedParts
    <3> HIDE DEF found
    <3>2. ToSet(found) \subseteq ListedParts
      BY <2>3, ValuesOf
    <3>3. ToSet(found) \subseteq Part
      BY <3>1, <3>2
    <3>4. QED
      BY <2>3, <3>3, Retyped
  <2>5. listing \in Listing /\ routed \in Seq(Folder) /\ \A i \in DOMAIN routed : routed[i] \in Root
    BY <2>1 DEF SearchInv
  <2>6. folders \in Seq(Root) /\ IsInjective(folders)
    <3>1. PICK n \in Nat : n = Limits.documents
      BY Constants
    <3> HIDE DEF Found
    <3>2. QED
      BY <2>3, <2>5, <3>1, FoldersFacts
  <2>7. folders \in Seq(Folder)
    <3>1. Root \subseteq Folder
      BY Constants DEF Root
    <3> HIDE DEF folders
    <3>2. ToSet(folders) \subseteq Root
      BY <2>6, ValuesOf
    <3>3. ToSet(folders) \subseteq Folder
      BY <3>1, <3>2
    <3>4. QED
      BY <2>6, <3>3, Retyped
  <2>8. toRead' \in Seq({d \in Document : listing[d] > 0}) /\ toRead' # << >>
    <3> HIDE DEF folders, found
    <3>1. QED
      BY <1>4, <2>1, <2>3, <2>5, <2>6, RoutingFacts
  <2>9. SearchInv'
    <3> HIDE DEF folders, found
    <3>1. QED
      BY <2>1, <2>3, <2>4, <2>6, <2>7, <2>8 DEF SearchInv, Reading
  <2>10. RouteInv' /\ EvidenceInv'
    <3> HIDE DEF folders, found
    <3>1. QED
      BY <2>1, <2>7, UnroutedKeeps
  <2>11. QED
    BY <1>1, <2>9, <2>10
<1>5. QED
  BY <1>3, <1>4

\* One card more, as the Worker has left it.
LEMMA ReadCardKeeps ==
  ASSUME NavInv, ReadCard
  PROVE  NavInv'
<1> USE DEF NavInv
<1>1. LibraryInv'
  BY LibraryStays DEF ReadCard
<1> DEFINE d == Head(toRead)
<1>2. at = "cards" /\ gens' = gens
  BY DEF ReadCard, libraryVars
<1>3. CASE ~(md[d].there /\ md[d].card)
  <2>1. Over("failed")
    BY <1>3 DEF ReadCard
  <2>2. QED
    BY <1>1, <2>1, OverKeeps
<1>4. CASE md[d].there /\ md[d].card
  <2>1. /\ cards' = [cards EXCEPT ![d] = [version |-> md[d].version, parts |-> md[d].parts]]
        /\ toRead' = Tail(toRead)
        /\ at' = IF Tail(toRead) = << >> THEN "route" ELSE "cards"
        /\ UNCHANGED <<listing, room, intent, routed, candidates, routeVars, evidence, answer>>
    BY <1>4 DEF ReadCard
  <2>2. toRead # << >> /\ toRead \in Seq({e \in Document : listing[e] > 0})
    BY <1>2 DEF SearchInv
  <2>3. d \in Document /\ listing[d] > 0 /\ Tail(toRead) \in Seq({e \in Document : listing[e] > 0})
    BY <2>2
  <2>4. md[d] \in Artifact
    BY <2>3 DEF LibraryInv
  <2>5. md[d].version \in 1..MaxVersion /\ md[d].parts \in 1..MaxPart
    BY <2>4 DEF Artifact
  <2>6. [version |-> md[d].version, parts |-> md[d].parts] \in Card
    <3>1. 1..MaxVersion \subseteq 0..MaxVersion /\ 1..MaxPart \subseteq 0..MaxPart
      OBVIOUS
    <3>2. QED
      BY <2>5, <3>1 DEF Card
  <2> HIDE DEF d
  <2>7. cards \in [Document -> Card]
        /\ \A e \in Document : cards[e] # NoCard => listing[e] > 0 /\ cards[e].version \in 1..MaxVersion
    BY DEF SearchInv
  <2>8. cards' \in [Document -> Card]
        /\ \A e \in Document : cards'[e] # NoCard => listing[e] > 0 /\ cards'[e].version \in 1..MaxVersion
    BY <2>1, <2>3, <2>5, <2>6, <2>7
  <2>9. at' \in {"cards", "route"} /\ (at' = "cards" => toRead' # << >>)
    BY <2>1
  <2>10. SearchInv'
    BY <1>2, <2>1, <2>3, <2>8, <2>9 DEF SearchInv, Reading
  <2>11. routed' \in Seq(Folder)
    BY <2>1 DEF SearchInv
  <2>12. RouteInv' /\ EvidenceInv'
    BY <1>2, <2>1, <2>9, <2>11, UnroutedKeeps
  <2>13. QED
    BY <1>1, <2>10, <2>12
<1>5. QED
  BY <1>3, <1>4

\* While the router's replies are merged, capped and supplemented the search stands.
LEMMA SearchStays ==
  ASSUME LibraryInv, SearchInv, UNCHANGED <<libraryVars, searchVars, toRead>>,
         at \in {"route", "capped", "supplemented"}, at' \in {"route", "capped", "supplemented"}
  PROVE  LibraryInv' /\ SearchInv' /\ Readable = CardParts /\ Readable' = CardParts
<1>1. LibraryInv'
  BY LibraryStays
<1>2. SearchInv'
  BY DEF SearchInv, Reading, libraryVars, searchVars
<1>3. Readable = CardParts /\ Readable' = CardParts
  BY DEF Readable, CardParts, searchVars
<1>4. QED
  BY <1>1, <1>2, <1>3

\* A batch of a folder selects what the cards show.
LEMMA TakeSelectionKeeps ==
  ASSUME NavInv, NEW d \in Document, NEW parts \in Orders(1..MaxPart, MaxPart),
         TakeSelection(d, parts)
  PROVE  NavInv'
<1> USE DEF NavInv
<1>1. /\ at = "route" /\ turn <= Len(routed) /\ FolderOf[d] = routed[turn]
      /\ accepted' = Accept(accepted, d, parts, Whitelist(d))
      /\ at' = at /\ UNCHANGED <<libraryVars, searchVars, toRead>>
      /\ UNCHANGED <<routed, cards, turn, low, documents, earlier, evidence, answer>>
  BY DEF TakeSelection, Routing, searchVars
<1>2. LibraryInv' /\ SearchInv' /\ Readable = CardParts /\ Readable' = CardParts
  BY <1>1, SearchStays
<1>3. parts \in Seq(1..MaxPart)
  <2>1. MaxPart \in Nat /\ parts \in SeqOf(1..MaxPart, MaxPart)
    BY Constants DEF Orders
  <2>2. QED
    BY <2>1, OfSeqOf
<1>4. accepted \in Seq(Within(CardParts)) /\ OneEach(accepted)
  BY <1>2 DEF RouteInv
<1>5. \A p \in Whitelist(d) \intersect (1..MaxPart) : <<d, p>> \in CardParts
  BY DEF Whitelist, CardParts, Part
<1>6. /\ accepted' \in Seq(Within(CardParts)) /\ OneEach(accepted')
      /\ \A i \in DOMAIN accepted' : accepted'[i].doc = d
           \/ \E j \in DOMAIN accepted : accepted'[i].doc = accepted[j].doc
  <2> HIDE DEF NavInv
  <2> DEFINE W == CardParts  white == Whitelist(d)
  <2>1. accepted \in Seq(Within(W)) /\ \A p \in white \intersect (1..MaxPart) : <<d, p>> \in W
    BY <1>4, <1>5
  <2>2. accepted' = Accept(accepted, d, parts, white)
    BY <1>1
  <2> HIDE DEF W, white
  <2>3. /\ accepted' \in Seq(Within(W)) /\ OneEach(accepted')
        /\ \A i \in DOMAIN accepted' : accepted'[i].doc = d
             \/ \E j \in DOMAIN accepted : accepted'[i].doc = accepted[j].doc
    BY <1>3, <1>4, <2>1, <2>2, AcceptFacts
  <2>4. QED
    BY <2>3 DEF W
<1>7. \A i \in DOMAIN accepted' : turn' <= Len(routed') /\ FolderOf[accepted'[i].doc] = routed'[turn']
  BY <1>1, <1>6 DEF RouteInv
<1>8. RouteInv'
  BY <1>1, <1>2, <1>6, <1>7 DEF RouteInv
<1>9. EvidenceInv'
  BY <1>1 DEF EvidenceInv
<1>10. QED
  BY <1>2, <1>8, <1>9

\* The documents of a folder join those of the folders before it: no other folder has them.
LEMMA FinishFolderKeeps ==
  ASSUME NavInv, FinishFolder
  PROVE  NavInv'
<1> USE DEF NavInv
<1>1. /\ at = "route" /\ turn <= Len(routed)
      /\ documents' = FirstOf(documents \o accepted, Limits.documents)
      /\ accepted' = << >> /\ turn' = turn + 1
      /\ at' = at /\ UNCHANGED <<libraryVars, searchVars, toRead>>
      /\ UNCHANGED <<routed, cards, earlier, evidence, answer>>
  BY DEF FinishFolder, Routing, searchVars
<1>2. LibraryInv' /\ SearchInv' /\ Readable = CardParts /\ Readable' = CardParts
  BY <1>1, SearchStays
<1>3. low' \in BOOLEAN
  <2>1. PICK unsure \in BOOLEAN : low' = (low \/ unsure)
    BY DEF FinishFolder
  <2>2. low \in BOOLEAN
    BY DEF RouteInv
  <2>3. QED
    BY <2>1, <2>2
<1>4. routed \in Seq(Folder) /\ IsInjective(routed) /\ turn \in 1..(Len(routed) + 1)
      /\ turn \in 1..Len(routed)
  <2>1. routed \in Seq(Folder) /\ IsInjective(routed) /\ turn \in 1..(Len(routed) + 1)
    BY DEF SearchInv, RouteInv
  <2>2. PICK n \in Nat : n = Len(routed)
    BY <2>1
  <2>3. turn \in 1..n
    BY <1>1, <2>1, <2>2
  <2>4. QED
    BY <2>1, <2>2, <2>3
<1>5. turn' \in 1..(Len(routed') + 1)
  <2>1. PICK n \in Nat : n = Len(routed)
    BY <1>4
  <2>2. turn + 1 \in 1..(n + 1)
    BY <1>4, <2>1
  <2>3. QED
    BY <1>1, <2>1, <2>2
<1>6. /\ documents \in Seq(Within(CardParts)) /\ OneEach(documents)
      /\ accepted \in Seq(Within(CardParts)) /\ OneEach(accepted)
      /\ \A i \in DOMAIN documents : \E m \in 1..(turn - 1) : FolderOf[documents[i].doc] = routed[m]
      /\ \A i \in DOMAIN accepted : FolderOf[accepted[i].doc] = routed[turn]
  BY <1>1, <1>2 DEF RouteInv
<1>7. \A i \in DOMAIN documents, j \in DOMAIN accepted : documents[i].doc # accepted[j].doc
  <2>1. SUFFICES ASSUME NEW i \in DOMAIN documents, NEW j \in DOMAIN accepted,
                        documents[i].doc = accepted[j].doc
                 PROVE  FALSE
    OBVIOUS
  <2>2. PICK m \in 1..(turn - 1) : FolderOf[documents[i].doc] = routed[m]
    BY <1>6
  <2>3. routed[m] = routed[turn]
    BY <1>6, <2>1, <2>2
  <2>4. m \in DOMAIN routed /\ turn \in DOMAIN routed /\ m # turn
    <3>1. PICK n \in Nat : n = Len(routed)
      BY <1>4
    <3>2. m \in 1..n /\ turn \in 1..n /\ m # turn
      BY <1>4, <2>2, <3>1
    <3>3. DOMAIN routed = 1..n
      BY <1>4, <3>1
    <3>4. QED
      BY <3>2, <3>3
  <2>5. QED
    BY <1>4, <2>3, <2>4 DEF IsInjective
<1> DEFINE all == documents \o accepted
<1>8. /\ all \in Seq(Within(CardParts)) /\ OneEach(all)
      /\ \A i \in DOMAIN all : \/ \E j \in DOMAIN documents : all[i] = documents[j]
                               \/ \E j \in DOMAIN accepted : all[i] = accepted[j]
  <2>1. all \in Seq(Within(CardParts))
    <3> DEFINE A == Within(CardParts)
    <3>1. documents \in Seq(A) /\ accepted \in Seq(A)
      BY <1>6
    <3> HIDE DEF A
    <3>2. all \in Seq(A)
      BY <3>1, JoinTyped
    <3>3. QED
      BY <3>2 DEF A
  <2>2. QED
    BY <1>6, <1>7, OneEachJoined
<1>9. Limits.documents \in Nat
  BY Constants
<1>10. /\ documents' \in Seq(Within(CardParts)) /\ OneEach(documents')
       /\ Len(documents') <= Limits.documents
       /\ \A i \in DOMAIN documents' : \E j \in DOMAIN all : documents'[i] = all[j]
  <2>1. PICK n \in Nat : n = Limits.documents
    BY <1>9
  <2>2. documents' = FirstOf(all, n)
    BY <1>1, <2>1
  <2> HIDE DEF all, NavInv
  <2>3. QED
    BY <1>8, <2>1, <2>2, OneEachFirst
<1>11. \A i \in DOMAIN documents' : \E m \in 1..(turn' - 1) : FolderOf[documents'[i].doc] = routed'[m]
  <2>1. SUFFICES ASSUME NEW i \in DOMAIN documents'
                 PROVE  \E m \in 1..turn : FolderOf[documents'[i].doc] = routed[m]
    <3>1. turn \in Nat /\ turn' - 1 = turn
      BY <1>1, <1>4
    <3>2. QED
      BY <1>1, <3>1
  <2>2. PICK j \in DOMAIN all : documents'[i] = all[j]
    BY <1>10
  <2> HIDE DEF all, NavInv
  <2>3. CASE \E k \in DOMAIN documents : all[j] = documents[k]
    <3>1. PICK k \in DOMAIN documents : all[j] = documents[k]
      BY <2>3
    <3>2. PICK m \in 1..(turn - 1) : FolderOf[documents[k].doc] = routed[m]
      BY <1>6
    <3>3. m \in 1..turn
      BY <1>4, <3>2
    <3>4. QED
      BY <2>2, <3>1, <3>2, <3>3
  <2>4. CASE \E k \in DOMAIN accepted : all[j] = accepted[k]
    <3>1. PICK k \in DOMAIN accepted : all[j] = accepted[k]
      BY <2>4
    <3>2. turn \in 1..turn
      BY <1>4
    <3>3. QED
      BY <1>6, <2>2, <3>1, <3>2
  <2>5. QED
    BY <1>8, <2>3, <2>4
<1>12. /\ << >> \in Seq(Within(CardParts)) /\ OneEach(<< >>) /\ DOMAIN << >> = {}
  BY Empty
<1>13. RouteInv'
  <2>1. earlier' \in Seq(Within(CardParts)) /\ OneEach(earlier')
    BY <1>1, <1>2 DEF RouteInv
  <2> HIDE DEF NavInv
  <2>2. QED
    BY <1>1, <1>2, <1>3, <1>5, <1>10, <1>11, <1>12, <2>1 DEF RouteInv
<1>14. EvidenceInv'
  BY <1>1 DEF EvidenceInv
<1>15. QED
  BY <1>2, <1>13, <1>14

\* The cap takes parts away and adds none.
LEMMA CapPartsKeeps ==
  ASSUME NavInv, CapParts
  PROVE  NavInv'
<1> USE DEF NavInv
<1>1. /\ at = "route" /\ at' = "capped" /\ earlier' = documents
      /\ documents' = Cap(documents, Limits.parts)
      /\ UNCHANGED <<libraryVars, searchVars, toRead>>
      /\ UNCHANGED <<routed, cards, turn, accepted, low, evidence, answer>>
  BY DEF CapParts, searchVars
<1>2. LibraryInv' /\ SearchInv' /\ Readable = CardParts /\ Readable' = CardParts
  BY <1>1, SearchStays
<1>3. documents \in Seq(Within(CardParts)) /\ OneEach(documents) /\ Len(documents) <= Limits.documents
  BY <1>2 DEF RouteInv
<1>4. /\ documents' \in Seq(Within(CardParts)) /\ OneEach(documents')
      /\ Len(documents') = Len(documents) /\ PartCount(documents') <= Limits.parts
  <2>1. PICK n \in Nat : n = Limits.parts
    BY Constants
  <2>2. documents' = Cap(documents, n)
    BY <1>1, <2>1
  <2> HIDE DEF NavInv
  <2>3. QED
    BY <1>3, <2>1, <2>2, CapFacts
<1>5. RouteInv'
  <2>1. /\ turn \in 1..(Len(routed) + 1) /\ low \in BOOLEAN
        /\ accepted \in Seq(Within(CardParts)) /\ OneEach(accepted)
        /\ \A i \in DOMAIN accepted : turn <= Len(routed) /\ FolderOf[accepted[i].doc] = routed[turn]
    BY <1>2 DEF RouteInv
  <2> HIDE DEF NavInv
  <2>2. QED
    BY <1>1, <1>2, <1>3, <1>4, <2>1 DEF RouteInv
<1>6. EvidenceInv'
  BY <1>1 DEF EvidenceInv
<1>7. QED
  BY <1>2, <1>5, <1>6

\* The candidates the fallback considers have their card read, and are on it.
LEMMA ValidAreOnCards ==
  ASSUME candidates \in Seq(Part), IsInjective(candidates)
  PROVE  ValidCandidates \in Seq(CardParts) /\ IsInjective(ValidCandidates)
<1> DEFINE S == {c \in Part : c[2] \in Whitelist(c[1])}
<1>1. ValidCandidates = Only(candidates, S)
  BY DEF ValidCandidates
<1>2. S \subseteq CardParts
  BY DEF Whitelist, CardParts, Part
<1> HIDE DEF S
<1>3. /\ ValidCandidates \in Seq(Part) /\ IsInjective(ValidCandidates)
      /\ ToSet(ValidCandidates) = ToSet(candidates) \intersect S
  BY <1>1, OnlyFacts
<1>4. ToSet(ValidCandidates) \subseteq CardParts
  BY <1>2, <1>3
<1>5. QED
  BY <1>3, <1>4, Retyped

\* The fallback adds parts of cards and keeps the limits.
LEMMA SupplementKeeps ==
  ASSUME NavInv, Supplement
  PROVE  NavInv'
<1> USE DEF NavInv
<1>1. /\ at = "capped" /\ at' = "supplemented" /\ earlier' = documents
      /\ documents' = IF NeedsFallback THEN Fallback(documents, ValidCandidates, Limits)
                      ELSE documents
      /\ UNCHANGED <<libraryVars, searchVars, toRead>>
      /\ UNCHANGED <<routed, cards, turn, accepted, low, evidence, answer, room>>
  BY DEF Supplement, searchVars
<1>2. LibraryInv' /\ SearchInv' /\ Readable = CardParts /\ Readable' = CardParts
  BY <1>1, SearchStays
<1>3. documents \in Seq(Within(CardParts)) /\ OneEach(documents)
      /\ Len(documents) <= Limits.documents /\ PartCount(documents) <= Limits.parts
  BY <1>1, <1>2 DEF RouteInv
<1>4. ValidCandidates \in Seq(CardParts) /\ IsInjective(ValidCandidates)
  BY ValidAreOnCards DEF SearchInv
<1>5. /\ documents' \in Seq(Within(CardParts)) /\ OneEach(documents')
      /\ Len(documents') <= Limits.documents /\ PartCount(documents') <= Limits.parts
  <2>1. Limits.documents \in Nat /\ Limits.parts \in Nat /\ Limits.fallback \in Nat
    BY Constants
  <2>2. CardParts \subseteq Part
    BY DEF CardParts
  <2> DEFINE cs == ValidCandidates  es == Fallback(documents, cs, Limits)
  <2>3. cs \in Seq(CardParts) /\ IsInjective(cs)
    BY <1>4
  <2>4. documents' = IF NeedsFallback THEN es ELSE documents
    BY <1>1
  <2> HIDE DEF NavInv, cs
  <2>5. es \in Seq(Within(CardParts)) /\ OneEach(es)
        /\ Len(es) <= Limits.documents /\ PartCount(es) <= Limits.parts
    BY <1>3, <2>1, <2>2, <2>3, FallbackFacts
  <2> HIDE DEF es
  <2>6. QED
    BY <1>3, <2>4, <2>5
<1>6. RouteInv'
  <2>1. /\ turn \in 1..(Len(routed) + 1) /\ low \in BOOLEAN
        /\ accepted \in Seq(Within(CardParts)) /\ OneEach(accepted)
        /\ \A i \in DOMAIN accepted : turn <= Len(routed) /\ FolderOf[accepted[i].doc] = routed[turn]
    BY <1>2 DEF RouteInv
  <2> HIDE DEF NavInv
  <2>2. QED
    BY <1>1, <1>2, <1>3, <1>5, <2>1 DEF RouteInv
<1>7. EvidenceInv'
  <2>1. evidence = << >> /\ evidence' = << >> /\ DOMAIN answer' = DOMAIN Silence
    BY <1>1 DEF EvidenceInv
  <2>2. room'.input \in Nat
    BY <1>2 DEF SearchInv
  <2>3. TokenSum(evidence') = 0 /\ evidence' \in Seq(Evidence)
    BY <2>1, Empty
  <2>4. TokenSum(evidence') <= room'.input
    BY <2>2, <2>3
  <2>5. QED
    BY <1>1, <2>1, <2>3, <2>4 DEF EvidenceInv
<1>8. QED
  BY <1>2, <1>6, <1>7

\* One more part adds its tokens, or nothing where its content was left out.
LEMMA TokensAdded ==
  ASSUME NEW es \in Seq(Evidence), NEW e \in Evidence
  PROVE  /\ TokenSum(es) \in Nat
         /\ TokenSum(Append(es, e)) = IF e.content = 0 THEN TokenSum(es) ELSE TokenSum(es) + e.tokens
<1>1. PICK r \in [0..Len(es) -> Nat] : r[Len(es)] = TokenSum(es) /\ Trail(r, TokenStep, 0, es)
  BY TokenTrail
<1> DEFINE fs == Append(es, e)
<1>2. fs \in Seq(Evidence) /\ Len(fs) = Len(es) + 1 /\ fs[Len(es) + 1] = e
  OBVIOUS
<1>3. PICK q \in [0..Len(fs) -> Nat] : q[Len(fs)] = TokenSum(fs) /\ Trail(q, TokenStep, 0, fs)
  <2> HIDE DEF fs
  <2>1. QED
    BY <1>2, TokenTrail
<1>4. q[Len(es)] = r[Len(es)]
  BY <1>1, <1>3, TrailAppend
<1>5. PICK n \in Nat : n = Len(es)
  OBVIOUS
<1>6. TokenSum(es) \in Nat
  BY <1>1, <1>5
<1>7. q[n + 1] = TokenStep[<<q[n], e>>]
  <2>1. \A k \in 1..(n + 1) : q[k] = TokenStep[<<q[k - 1], fs[k]>>]
    BY <1>2, <1>3, <1>5 DEF Trail
  <2>2. n + 1 \in 1..(n + 1) /\ (n + 1) - 1 = n
    BY <1>5
  <2> HIDE DEF fs
  <2>3. QED
    BY <1>2, <1>5, <2>1, <2>2
<1>8. q[n] = TokenSum(es) /\ q[n + 1] = TokenSum(fs)
  BY <1>1, <1>2, <1>3, <1>4, <1>5
<1>9. QED
  BY <1>6, <1>7, <1>8 DEF TokenStep

\* The parts to be loaded are those selected.
LEMMA PartsInOrderAreOnCards ==
  ASSUME documents \in Seq(Within(CardParts))
  PROVE  PartsInOrder \in Seq(CardParts)
<1>1. PICK r \in [0..Len(documents) -> Seq(CardParts)] :
        r[Len(documents)] = InOrder(documents) /\ Trail(r, OrderStep(CardParts), << >>, documents)
  BY OrderTrail
<1>2. PICK n \in Nat : n = Len(documents)
  OBVIOUS
<1>3. r[n] \in Seq(CardParts)
  BY <1>1, <1>2
<1>4. PartsInOrder = InOrder(documents)
  BY DEF PartsInOrder, InOrder
<1>5. QED
  BY <1>1, <1>2, <1>3, <1>4

\* One part more, within what is left of the budget.
LEMMA ReadPartKeeps ==
  ASSUME NavInv, ReadPart
  PROVE  NavInv'
<1> USE DEF NavInv
<1> DEFINE p == PartsInOrder[Len(evidence) + 1]
           d == p[1]
<1>1. at = "supplemented" /\ Len(evidence) < Len(PartsInOrder) /\ UNCHANGED libraryVars
  BY DEF ReadPart
<1>2. LibraryInv'
  BY <1>1, LibraryStays
<1>3. CASE ~(md[d].there /\ p[2] <= md[d].parts)
  <2>1. Over("failed")
    BY <1>3 DEF ReadPart
  <2>2. QED
    BY <1>2, <2>1, OverKeeps
<1>4. CASE md[d].there /\ p[2] <= md[d].parts
  <2>1. /\ \E t \in PartTokens :
             evidence' = Append(evidence, [doc |-> d, part |-> p[2], tokens |-> t,
               card |-> cards[d].version,
               content |-> IF UsedTokens + t <= room.input THEN md[d].version ELSE 0])
        /\ UNCHANGED <<at, searchVars, toRead, routeVars, answer>>
    BY <1>4 DEF ReadPart
  <2>2. Readable = CardParts
    BY <1>1 DEF Readable
  <2>3. p \in CardParts
    <3>1. PartsInOrder \in Seq(CardParts)
      BY <2>2, PartsInOrderAreOnCards DEF RouteInv
    <3>2. evidence \in Seq(Evidence)
      BY DEF EvidenceInv
    <3>3. PICK n \in Nat, k \in Nat : n = Len(evidence) /\ k = Len(PartsInOrder)
      BY <3>1, <3>2
    <3>4. n + 1 \in 1..k
      BY <1>1, <3>3
    <3> DEFINE s == PartsInOrder
    <3>5. s \in Seq(CardParts) /\ n + 1 \in 1..Len(s)
      BY <3>1, <3>3, <3>4
    <3> HIDE DEF s
    <3>6. s[n + 1] \in CardParts
      BY <3>5
    <3>7. QED
      BY <3>3, <3>6 DEF s
  <2> HIDE DEF p
  <2>4. d \in Document /\ p[2] \in 1..MaxPart /\ p[2] <= cards[d].parts
    BY <2>3 DEF CardParts, Part
  <2>5. cards[d] \in Card /\ cards[d] # NoCard
    <3>1. cards \in [Document -> Card]
      BY DEF SearchInv
    <3>2. cards[d].parts # 0
      BY <2>4
    <3>3. QED
      BY <2>4, <3>1, <3>2 DEF NoCard
  <2>6. cards[d].version \in 1..MaxVersion
    BY <2>4, <2>5 DEF SearchInv
  <2>7. md[d].version \in 1..MaxVersion
    BY <2>4 DEF LibraryInv, Artifact
  <2>8. PICK t \in PartTokens :
             evidence' = Append(evidence, [doc |-> d, part |-> p[2], tokens |-> t,
               card |-> cards[d].version,
               content |-> IF UsedTokens + t <= room.input THEN md[d].version ELSE 0])
    BY <2>1
  <2> DEFINE content == IF UsedTokens + t <= room.input THEN md[d].version ELSE 0
             e == [doc |-> d, part |-> p[2], tokens |-> t, card |-> cards[d].version,
                   content |-> content]
  <2>9. e \in Evidence
    <3>1. content \in 0..MaxVersion
      <4>1. MaxVersion \in Nat
        BY Constants
      <4>2. PICK v : v = md[d].version
        OBVIOUS
      <4>3. v \in 0..MaxVersion /\ 0 \in 0..MaxVersion
        BY <2>7, <4>1, <4>2
      <4>4. QED
        BY <4>2, <4>3
    <3> HIDE DEF content, d
    <3>2. QED
      BY <2>4, <2>6, <3>1 DEF Evidence
  <2>10. evidence \in Seq(Evidence) /\ TokenSum(evidence) <= room.input /\ UsedTokens = TokenSum(evidence)
    BY <1>1 DEF EvidenceInv, UsedTokens, TokenSum
  <2>11. evidence' = Append(evidence, e) /\ e.content = content /\ e.tokens = t
    BY <2>8
  <2> HIDE DEF e
  <2>12. /\ TokenSum(evidence) \in Nat
         /\ TokenSum(evidence') = IF e.content = 0 THEN TokenSum(evidence) ELSE TokenSum(evidence) + e.tokens
    BY <2>9, <2>10, <2>11, TokensAdded
  <2>13. TokenSum(evidence') <= room.input
    <3>1. CASE UsedTokens + t <= room.input
      <4>1. t \in Nat
        BY Constants
      <4>2. room.input \in Nat
        BY DEF SearchInv
      <4>3. QED
        BY <2>10, <2>11, <2>12, <3>1, <4>1, <4>2
    <3>2. CASE ~(UsedTokens + t <= room.input)
      BY <2>10, <2>11, <2>12, <3>2
    <3>3. QED
      BY <3>1, <3>2
  <2>14. evidence' \in Seq(Evidence)
    BY <2>9, <2>10, <2>11
  <2>15. room' = room /\ at' = at /\ answer' = answer
    BY <2>1 DEF searchVars
  <2>16. EvidenceInv'
    BY <1>1, <2>13, <2>14, <2>15 DEF EvidenceInv
  <2>17. SearchInv'
    BY <1>1, <2>1, SearchStays
  <2>18. RouteInv'
    <3>1. UNCHANGED <<at, turn, low, accepted, documents, earlier, routed, cards>>
      BY <2>1 DEF searchVars, routeVars
    <3>2. Readable' = Readable
      BY <3>1 DEF Readable, CardParts
    <3>3. QED
      BY <3>1, <3>2 DEF RouteInv
  <2>19. QED
    BY <1>2, <2>16, <2>17, <2>18
<1>5. QED
  BY <1>3, <1>4

\* Nothing of the search is kept for the answer but the selection and the evidence.
LEMMA EndNavigationKeeps ==
  ASSUME NavInv, EndNavigation
  PROVE  NavInv'
<1> USE DEF NavInv
<1>1. /\ at = "supplemented" /\ at' = "answer" /\ Forget
      /\ UNCHANGED <<libraryVars, documents, evidence, answer>>
  BY DEF EndNavigation, NavigationReturns
<1>2. LibraryInv'
  BY <1>1, LibraryStays
<1>3. SearchInv'
  BY ReturnForgets DEF EndNavigation
<1>4. RouteInv'
  <2>1. Readable' = Part /\ Readable = CardParts /\ CardParts \subseteq Part
    BY <1>1 DEF Readable, CardParts
  <2>2. documents \in Seq(Within(CardParts)) /\ OneEach(documents)
        /\ Len(documents) <= Limits.documents /\ PartCount(documents) <= Limits.parts
    BY <1>1, <2>1 DEF RouteInv
  <2>3. documents \in Seq(Within(Part))
    BY <2>1, <2>2, WithinMore
  <2>4. documents' \in Seq(Within(Readable')) /\ OneEach(documents')
        /\ Len(documents') <= Limits.documents /\ PartCount(documents') <= Limits.parts
    BY <1>1, <2>1, <2>2, <2>3
  <2>5. /\ accepted' = << >> /\ earlier' = << >> /\ turn' = 1 /\ low' = FALSE /\ routed' = << >>
    BY <1>1 DEF Forget
  <2>6. /\ accepted' \in Seq(Within(Readable')) /\ OneEach(accepted') /\ DOMAIN accepted' = {}
        /\ earlier' \in Seq(Within(Readable')) /\ OneEach(earlier')
    BY <2>5, Empty
  <2>7. turn' \in 1..(Len(routed') + 1)
    <3>1. Len(routed') = 0
      BY <2>5, Empty
    <3>2. QED
      BY <2>5, <3>1
  <2> HIDE DEF NavInv
  <2>8. QED
    BY <1>1, <2>4, <2>5, <2>6, <2>7 DEF RouteInv
<1>5. EvidenceInv'
  BY <1>1 DEF EvidenceInv
<1>6. QED
  BY <1>2, <1>3, <1>4, <1>5

\* The answer is given, with what it quotes.
LEMMA AnswerKeeps ==
  ASSUME NavInv, Answer
  PROVE  NavInv'
<1> USE DEF NavInv
<1>1. /\ at = "answer" /\ at' = "done"
      /\ UNCHANGED <<libraryVars, searchVars, toRead, routeVars, evidence>>
  BY DEF Answer
<1>2. DOMAIN answer' = DOMAIN Silence
  BY DEF Answer, Silence
<1>3. LibraryInv'
  BY <1>1, LibraryStays
<1>4. SearchInv'
  BY <1>1 DEF SearchInv, Reading, searchVars, libraryVars
<1>5. RouteInv'
  <2>1. UNCHANGED <<turn, low, accepted, documents, earlier, routed, cards>>
    BY <1>1 DEF searchVars, routeVars
  <2>2. Readable = Part /\ Readable' = Part
    BY <1>1 DEF Readable
  <2>3. QED
    BY <1>1, <2>1, <2>2 DEF RouteInv
<1>6. EvidenceInv'
  BY <1>1, <1>2 DEF EvidenceInv
<1>7. QED
  BY <1>3, <1>4, <1>5, <1>6

\* A conversion, or an index build that goes live, beside the question.
LEMMA WorkKeeps ==
  ASSUME NavInv, Work
  PROVE  NavInv'
<1> USE DEF NavInv
<1>1. UNCHANGED <<at, searchVars, toRead, routeVars, evidence, answer>>
  BY DEF Work
<1>2. /\ gens \in Seq(Listing) /\ live \in 0..Len(gens) /\ md \in [Document -> Artifact]
      /\ \A d \in Document : ~md[d].there => md[d].version < MaxVersion
  BY DEF LibraryInv
<1>3. LibraryInv' /\ \A n \in DOMAIN gens : n \in DOMAIN gens' /\ gens'[n] = gens[n]
  <2>1. ASSUME NEW d \in Document, MoveAside(d) PROVE LibraryInv' /\ gens' = gens
    <3>1. md' = [md EXCEPT ![d].there = FALSE, ![d].card = FALSE] /\ md[d].version < MaxVersion
          /\ UNCHANGED <<gens, live>>
      BY <2>1 DEF MoveAside
    <3>2. md' \in [Document -> Artifact] /\ \A e \in Document : ~md'[e].there => md'[e].version < MaxVersion
      BY <1>2, <3>1 DEF Artifact
    <3>3. QED
      BY <1>2, <3>1, <3>2 DEF LibraryInv
  <2>2. ASSUME NEW d \in Document, SwapIn(d) PROVE LibraryInv' /\ gens' = gens
    <3>1. PICK n \in 1..MaxPart :
            md' = [md EXCEPT ![d] = [there |-> TRUE, version |-> @.version + 1, parts |-> n,
                                     card |-> FALSE]]
      BY <2>2 DEF SwapIn
    <3>2. ~md[d].there /\ UNCHANGED <<gens, live>>
      BY <2>2 DEF SwapIn
    <3>3. md[d].version + 1 \in 1..MaxVersion
      <4>1. md[d].version \in 1..MaxVersion /\ md[d].version < MaxVersion
        BY <1>2, <3>2 DEF Artifact
      <4>2. MaxVersion \in Nat
        BY Constants
      <4>3. PICK v : v = md[d].version
        OBVIOUS
      <4>4. v + 1 \in 1..MaxVersion
        BY <4>1, <4>2, <4>3
      <4>5. QED
        BY <4>3, <4>4
    <3>4. md' \in [Document -> Artifact] /\ \A e \in Document : ~md'[e].there => md'[e].version < MaxVersion
      BY <1>2, <3>1, <3>3 DEF Artifact
    <3>5. QED
      BY <1>2, <3>2, <3>4 DEF LibraryInv
  <2>3. ASSUME NEW d \in Document, GenerateCard(d) PROVE LibraryInv' /\ gens' = gens
    <3>1. md' = [md EXCEPT ![d].card = TRUE] /\ UNCHANGED <<gens, live>>
      BY <2>3 DEF GenerateCard
    <3>2. md' \in [Document -> Artifact] /\ \A e \in Document : ~md'[e].there => md'[e].version < MaxVersion
      BY <1>2, <3>1 DEF Artifact
    <3>3. QED
      BY <1>2, <3>1, <3>2 DEF LibraryInv
  <2>4. ASSUME Activate
        PROVE  LibraryInv' /\ \A n \in DOMAIN gens : n \in DOMAIN gens' /\ gens'[n] = gens[n]
    <3> DEFINE new == [d \in Document |-> IF md[d].card THEN md[d].parts ELSE 0]
    <3>1. gens' = Append(gens, new) /\ live' = Len(gens') /\ md' = md
      BY <2>4 DEF Activate
    <3>2. new \in Listing
      <4>1. \A d \in Document : md[d].parts \in 0..MaxPart /\ 0 \in 0..MaxPart
        <5>1. MaxPart \in Nat /\ \A d \in Document : md[d].parts \in 1..MaxPart
          BY <1>2, Constants DEF Artifact
        <5>2. \A k \in 1..MaxPart : k \in 0..MaxPart
          OBVIOUS
        <5>3. QED
          BY <5>1, <5>2
      <4>2. QED
        BY <4>1 DEF Listing
    <3> HIDE DEF new
    <3>3. gens' \in Seq(Listing) /\ \A n \in DOMAIN gens : n \in DOMAIN gens' /\ gens'[n] = gens[n]
      BY <1>2, <3>1, <3>2
    <3>4. live' \in 0..Len(gens')
      <4>1. Len(gens') \in Nat
        BY <3>3
      <4>2. QED
        BY <3>1, <4>1
    <3>5. QED
      BY <1>2, <3>1, <3>3, <3>4 DEF LibraryInv
  <2>5. QED
    BY <2>1, <2>2, <2>3, <2>4 DEF Work
<1>4. SearchInv'
  <2>1. Reading' => \E n \in DOMAIN gens' : gens'[n] = listing'
    BY <1>1, <1>3 DEF SearchInv, Reading, searchVars
  <2>2. Root' = Root
    BY <1>1 DEF Root, searchVars
  <2>3. QED
    BY <1>1, <2>1, <2>2 DEF SearchInv, Reading, searchVars
<1>5. RouteInv'
  <2>1. UNCHANGED <<at, turn, low, accepted, documents, earlier, routed, cards>>
    BY <1>1 DEF searchVars, routeVars
  <2>2. Readable' = Readable
    BY <2>1 DEF Readable, CardParts
  <2>3. QED
    BY <2>1, <2>2 DEF RouteInv
<1>6. EvidenceInv'
  BY <1>1 DEF EvidenceInv, searchVars
<1>7. QED
  BY <1>3, <1>4, <1>5, <1>6

\* Where nothing changes the invariant stays.
LEMMA StutterKeeps ==
  ASSUME NavInv, UNCHANGED vars
  PROVE  NavInv'
<1>1. UNCHANGED libraryVars /\ UNCHANGED <<listing, room, intent, routed, candidates, cards>>
      /\ UNCHANGED <<turn, accepted, low, documents, earlier>>
      /\ UNCHANGED <<at, toRead, evidence, answer>> /\ UNCHANGED gens
  BY DEF vars, libraryVars, searchVars, routeVars
<1>2. LibraryInv'
  BY <1>1, LibraryStays DEF NavInv
<1>3. SearchInv'
  BY <1>1 DEF NavInv, SearchInv, Reading, Root
<1>4. RouteInv'
  BY <1>1 DEF NavInv, RouteInv, Readable, CardParts
<1>5. EvidenceInv'
  BY <1>1 DEF NavInv, EvidenceInv
<1>6. QED
  BY <1>2, <1>3, <1>4, <1>5 DEF NavInv

\* Every step keeps the invariant.
LEMMA NextKeeps ==
  ASSUME NavInv, [Next]_vars
  PROVE  NavInv'
<1>1. CASE LoadRoot
  BY <1>1, LoadRootKeeps
<1>2. CASE SelectFolders
  BY <1>2, SelectFoldersKeeps
<1>3. CASE SearchIndex
  BY <1>3, SearchIndexKeeps
<1>4. CASE ReadCard
  BY <1>4, ReadCardKeeps
<1>5. CASE FinishFolder
  BY <1>5, FinishFolderKeeps
<1>6. CASE CapParts
  BY <1>6, CapPartsKeeps
<1>7. CASE Supplement
  BY <1>7, SupplementKeeps
<1>8. ASSUME NEW d \in Document, NEW parts \in Orders(1..MaxPart, MaxPart), TakeSelection(d, parts)
      PROVE  NavInv'
  BY <1>8, TakeSelectionKeeps
<1>9. CASE ReadPart
  BY <1>9, ReadPartKeeps
<1>10. CASE EndNavigation
  BY <1>10, EndNavigationKeeps
<1>11. CASE Answer
  BY <1>11, AnswerKeeps
<1>12. CASE Fail
  BY <1>12, LibraryStays, OverKeeps DEF Fail, NavInv
<1>13. CASE Work
  BY <1>13, WorkKeeps
<1>14. CASE UNCHANGED vars
  BY <1>14, StutterKeeps
<1>15. QED
  BY <1>1, <1>2, <1>3, <1>4, <1>5, <1>6, <1>7, <1>8, <1>9, <1>10, <1>11, <1>12, <1>13, <1>14
  DEF Next, Navigate

\* The invariant holds throughout.
LEMMA NavInvHolds == Spec => []NavInv
  BY InitKeeps, NextKeeps, PTL DEF Spec

-----------------------------------------------------------------------------
(* What follows from it                                                    *)

\* In every state of the search each variable has the values its field or local of
\* navigate may hold: folders and candidates are listed once, selections are of parts.
THEOREM NavigationTypesHold == Spec => []TypeOK
<1>1. ASSUME NavInv PROVE TypeOK
  <2> USE <1>1 DEF NavInv
  <2>1. \A W : \A ds \in Seq(Within(W)) : IsSelection(ds)
    <3>1. ASSUME NEW W, NEW ds \in Seq(Within(W)) PROVE IsSelection(ds)
      BY WithinFacts DEF IsSelection
    <3>2. QED
      BY <3>1
  <2>2. IsSelection(accepted) /\ IsSelection(documents) /\ IsSelection(earlier)
    BY <2>1 DEF RouteInv
  <2>3. toRead \in Seq(Document)
    <3> DEFINE L == {d \in Document : listing[d] > 0}
    <3>1. toRead \in Seq(L) /\ L \subseteq Document
      BY DEF SearchInv
    <3> HIDE <1>1 DEF L, NavInv
    <3>2. ToSet(toRead) \subseteq Document
      BY <3>1, ValuesOf
    <3>3. QED
      BY <3>1, <3>2, Retyped
  <2>4. \A f \in DOMAIN room : room[f] \in Nat
    BY DEF SearchInv
  <2>5. \A i \in DOMAIN evidence :
       /\ evidence[i].doc \in Document /\ evidence[i].part \in 1..MaxPart
       /\ evidence[i].card \in 1..MaxVersion /\ evidence[i].content \in 0..MaxVersion
       /\ evidence[i].tokens \in PartTokens
    <3>1. \A i \in DOMAIN evidence : evidence[i] \in Evidence
      BY DEF EvidenceInv
    <3>2. QED
      BY <3>1 DEF Evidence
  <2>6. /\ gens \in Seq(Listing) /\ live \in 0..Len(gens) /\ md \in [Document -> Artifact]
    BY DEF LibraryInv
  <2>7. /\ at \in {"idle", "root", "search", "cards", "route", "capped", "supplemented", "answer",
                   "done", "failed"}
        /\ listing \in Listing /\ DOMAIN room = {"window", "output", "safety", "input"}
        /\ intent \in Intent /\ routed \in Seq(Folder) /\ IsInjective(routed)
        /\ candidates \in Seq(Part) /\ IsInjective(candidates)
        /\ cards \in [Document -> Card]
    BY DEF SearchInv
  <2>8. turn \in 1..(Len(routed) + 1) /\ low \in BOOLEAN
    BY DEF RouteInv
  <2>9. DOMAIN answer = DOMAIN Silence
    BY DEF EvidenceInv
  <2> HIDE <1>1 DEF NavInv
  <2>10. QED
    BY <2>2, <2>3, <2>4, <2>5, <2>6, <2>7, <2>8, <2>9 DEF TypeOK
<1>2. QED
  BY <1>1, NavInvHolds, PTL

\* However the router's replies are merged over folders, capped and supplemented, for any
\* library and any limits: what is selected is on a card read from the listing the
\* question started with, whatever is converted and indexed in the meantime.
THEOREM SelectionIsListedHolds == Spec => []SelectionIsListed
<1>1. ASSUME NavInv PROVE SelectionIsListed
  <2> USE <1>1 DEF NavInv
  <2>1. SUFFICES ASSUME at \in {"cards", "route", "capped", "supplemented"},
                        NEW p \in Selected(documents) \union Selected(accepted)
                 PROVE  Whitelisted(p)
    BY DEF SelectionIsListed
  <2>2. Readable = CardParts
    BY <2>1 DEF Readable
  <2>3. documents \in Seq(Within(CardParts)) /\ accepted \in Seq(Within(CardParts))
    BY <2>2 DEF RouteInv
  <2>4. p \in CardParts
    BY <2>1, <2>3, SelectedIs
  <2>5. p[1] \in Document /\ p[2] \in 1..MaxPart /\ p[2] <= cards[p[1]].parts
    BY <2>4 DEF CardParts, Part
  <2>6. cards[p[1]] # NoCard
    BY <2>5 DEF NoCard
  <2>7. listing[p[1]] > 0
    BY <2>5, <2>6 DEF SearchInv
  <2>8. \E n \in DOMAIN gens : gens[n] = listing
    BY <2>1 DEF SearchInv, Reading
  <2>9. QED
    BY <2>5, <2>7, <2>8 DEF Whitelisted
<1>2. QED
  BY <1>1, NavInvHolds, PTL

\* The caps of the tuning page hold together for every value they may have: the parts the
\* fallback adds count with those the router selected, and nothing is selected twice.
THEOREM SelectionKeepsLimitsHolds == Spec => []SelectionKeepsLimits
<1>1. ASSUME NavInv PROVE SelectionKeepsLimits
  <2>1. SUFFICES ASSUME at \in {"supplemented", "answer", "done"}
                 PROVE  /\ Len(documents) <= Limits.documents
                        /\ PartCount(documents) <= Limits.parts
                        /\ Cardinality(Selected(documents)) = PartCount(documents)
                        /\ Cardinality(Documents(documents)) = Len(documents)
    BY DEF SelectionKeepsLimits
  <2>2. /\ documents \in Seq(Within(Readable)) /\ OneEach(documents)
        /\ Len(documents) <= Limits.documents /\ PartCount(documents) <= Limits.parts
    BY <1>1, <2>1 DEF NavInv, RouteInv
  <2>3. QED
    BY <2>2, SelectedCounted, DocumentsCounted
<1>2. QED
  BY <1>1, NavInvHolds, PTL

\* What is handed to the answer model fits its context window together with the output
\* and the margin set aside, for every window of a profile and every size of a part.
THEOREM EvidenceFitsTheModelHolds == Spec => []EvidenceFitsTheModel
<1>1. ASSUME NavInv PROVE EvidenceFitsTheModel
  <2>1. SUFFICES ASSUME at = "supplemented"
                 PROVE  UsedTokens + room.output + room.safety <= room.window
    BY DEF EvidenceFitsTheModel
  <2>2. evidence \in Seq(Evidence) /\ TokenSum(evidence) <= room.input
    BY <1>1, <2>1 DEF NavInv, EvidenceInv
  <2>3. /\ room.window \in Nat /\ room.output \in Nat /\ room.safety \in Nat /\ room.input \in Nat
        /\ room.input + room.output + room.safety = room.window
    BY <1>1, <2>1 DEF NavInv, SearchInv, Reading
  <2>4. UsedTokens = TokenSum(evidence)
    BY DEF UsedTokens, TokenSum
  <2>5. TokenSum(evidence) \in Nat
    <3>1. PICK r \in [0..Len(evidence) -> Nat] :
            r[Len(evidence)] = TokenSum(evidence) /\ Trail(r, TokenStep, 0, evidence)
      BY <2>2, TokenTrail
    <3>2. PICK n \in Nat : n = Len(evidence)
      BY <2>2
    <3>3. QED
      BY <3>1, <3>2
  <2>6. QED
    BY <2>2, <2>3, <2>4, <2>5
<1>2. QED
  BY <1>1, NavInvHolds, PTL

\* Where a step of the question leads: only the cap leaves it capped, only the fallback
\* and the reading of a part supplemented, and it is done with an answer or with none.
LEMMA WhereItLeads ==
  ASSUME Next
  PROVE  /\ at' = "capped" => CapParts \/ Work
         /\ at' = "supplemented" => Supplement \/ Work \/ (ReadPart /\ ~Over("failed"))
         /\ at' = "done" => Answer \/ answer' = Silence
<1>1. CASE LoadRoot
  BY <1>1 DEF LoadRoot, Over
<1>2. CASE SelectFolders
  BY <1>2 DEF SelectFolders, Over
<1>3. CASE SearchIndex
  BY <1>3 DEF SearchIndex, NavigationReturns
<1>4. CASE ReadCard
  BY <1>4 DEF ReadCard, Over
<1>5. CASE FinishFolder \/ \E d \in Document, parts \in Orders(1..MaxPart, MaxPart) : TakeSelection(d, parts)
  BY <1>5 DEF FinishFolder, TakeSelection, Routing
<1>6. CASE CapParts
  BY <1>6 DEF CapParts
<1>7. CASE Supplement
  BY <1>7 DEF Supplement
<1>8. CASE ReadPart
  BY <1>8 DEF ReadPart, Over
<1>9. CASE EndNavigation
  BY <1>9 DEF EndNavigation, NavigationReturns
<1>10. CASE Answer
  BY <1>10 DEF Answer
<1>11. CASE Fail
  BY <1>11 DEF Fail, Over
<1>12. CASE Work
  BY <1>12 DEF Work
<1>13. QED
  BY <1>1, <1>2, <1>3, <1>4, <1>5, <1>6, <1>7, <1>8, <1>9, <1>10, <1>11, <1>12 DEF Next, Navigate

\* Where nothing changes, what these say stays true.
LEMMA StutterSays ==
  ASSUME UNCHANGED vars
  PROVE  /\ CapSharesEvidence => CapSharesEvidence'
         /\ FallbackIsBestFirst => FallbackIsBestFirst'
         /\ AnswerQuotesEvidence => AnswerQuotesEvidence'
<1>1. UNCHANGED <<at, documents, earlier, evidence, answer, candidates, cards, intent, low>>
  BY DEF vars, searchVars, routeVars
<1>2. CapSharesEvidence' <=> CapSharesEvidence
  BY <1>1 DEF CapSharesEvidence
<1>3. ValidCandidates' = ValidCandidates
  BY <1>1 DEF ValidCandidates, Whitelist
<1>4. FallbackIsBestFirst' <=> FallbackIsBestFirst
  BY <1>1, <1>3 DEF FallbackIsBestFirst
<1>5. AnswerQuotesEvidence' <=> AnswerQuotesEvidence
  BY <1>1 DEF AnswerQuotesEvidence, EvidenceParts
<1>6. QED
  BY <1>2, <1>4, <1>5

\* The round robin of the cap is fair for any selection and any limit: no document keeps
\* two parts more than one that was cut short, and nothing is cut while there is room.
THEOREM CapSharesEvidenceHolds == Spec => []CapSharesEvidence
<1>1. Init => CapSharesEvidence
  BY DEF Init, CapSharesEvidence
<1>2. NavInv /\ CapSharesEvidence /\ [Next]_vars => CapSharesEvidence'
  <2>1. SUFFICES ASSUME NavInv, CapSharesEvidence, Next PROVE CapSharesEvidence'
    BY StutterSays
  <2>2. CASE at' # "capped"
    BY <2>2 DEF CapSharesEvidence
  <2>3. CASE Work
    BY <2>1, <2>3 DEF Work, routeVars, CapSharesEvidence
  <2>4. CASE CapParts
    <3>1. /\ earlier' = documents /\ documents' = Cap(documents, Limits.parts)
      BY <2>4 DEF CapParts
    <3>2. documents \in Seq(Within(Readable)) /\ OneEach(documents)
      BY <2>1 DEF NavInv, RouteInv
    <3>3. PICK n \in Nat : n = Limits.parts
      BY Constants
    <3>4. documents' = Cap(documents, n)
      BY <3>1, <3>3
    <3> DEFINE W == Readable  ds == documents  es == documents'
    <3>5. ds \in Seq(Within(W)) /\ OneEach(ds) /\ es = Cap(ds, n)
      BY <3>2, <3>4
    <3> HIDE DEF W, ds, es
    <3>6. /\ es \in Seq(Within(W)) /\ PartCount(es) = Min({n, PartCount(ds)})
          /\ \A i, j \in 1..Len(es) :
               /\ IsPrefix(es[i].parts, ds[i].parts)
               /\ Len(es[i].parts) < Len(ds[i].parts) => Len(es[j].parts) <= Len(es[i].parts) + 1
      BY <3>5, CapFacts
    <3>7. DOMAIN es = 1..Len(es)
      BY <3>6
    <3>8. QED
      BY <3>1, <3>3, <3>6, <3>7 DEF CapSharesEvidence, ds, es
  <2>5. QED
    BY <2>1, <2>2, <2>3, <2>4, WhereItLeads
<1>3. QED
  BY <1>1, <1>2, NavInvHolds, PTL DEF Spec

\* For any candidates and any limits the fallback takes the best of the candidates first:
\* one that stays out met a limit, and no candidate of a lower rank was taken before it.
THEOREM FallbackIsBestFirstHolds == Spec => []FallbackIsBestFirst
<1>1. Init => FallbackIsBestFirst
  BY DEF Init, FallbackIsBestFirst
<1>2. NavInv /\ FallbackIsBestFirst /\ [Next]_vars => FallbackIsBestFirst'
  <2>1. SUFFICES ASSUME NavInv, FallbackIsBestFirst, Next PROVE FallbackIsBestFirst'
    BY StutterSays
  <2>2. CASE at' # "supplemented"
    BY <2>2 DEF FallbackIsBestFirst
  <2>3. CASE Work
    <3>1. UNCHANGED <<at, documents, earlier, evidence, candidates, cards, intent, low>>
      BY <2>3 DEF Work, searchVars, routeVars
    <3>2. ValidCandidates' = ValidCandidates
      BY <3>1 DEF ValidCandidates, Whitelist
    <3>3. QED
      BY <2>1, <3>1, <3>2 DEF FallbackIsBestFirst
  <2>4. CASE ReadPart /\ ~Over("failed")
    <3>1. evidence' # << >>
      <4>1. evidence \in Seq(Evidence)
        BY <2>1 DEF NavInv, EvidenceInv
      <4>2. \E e : evidence' = Append(evidence, e)
        BY <2>4 DEF ReadPart
      <4>3. QED
        BY <4>1, <4>2
    <3>2. QED
      BY <3>1 DEF FallbackIsBestFirst
  <2>5. CASE Supplement
    <3>1. /\ at = "capped" /\ earlier' = documents
          /\ documents' = IF NeedsFallback THEN Fallback(documents, ValidCandidates, Limits)
                          ELSE documents
          /\ UNCHANGED <<cards, candidates, intent, low, evidence>>
      BY <2>5 DEF Supplement, searchVars
    <3>2. ValidCandidates' = ValidCandidates
      BY <3>1 DEF ValidCandidates, Whitelist
    <3>3. SUFFICES ASSUME intent = "answer", PartCount(documents) = 0 \/ low
                   PROVE  FallbackIsBestFirst'
      BY <3>1 DEF FallbackIsBestFirst
    <3> DEFINE cs == ValidCandidates  ds == documents  es == documents'
               W == CardParts
    <3>4. es = Fallback(ds, cs, Limits)
      BY <3>1, <3>3 DEF NeedsFallback
    <3>5. cs \in Seq(W) /\ IsInjective(cs) /\ W \subseteq Part
      BY <2>1, ValidAreOnCards DEF NavInv, SearchInv, CardParts
    <3>6. ds \in Seq(Within(W)) /\ OneEach(ds)
          /\ Len(ds) <= Limits.documents /\ PartCount(ds) <= Limits.parts
      BY <2>1, <3>1 DEF NavInv, RouteInv, Readable
    <3>7. Limits.documents \in Nat /\ Limits.parts \in Nat /\ Limits.fallback \in Nat
      BY Constants
    <3> HIDE DEF cs, ds, es, W
    <3> DEFINE added == Selected(es) \ Selected(ds)
    <3>8. \A i \in 1..Len(cs) : cs[i] \notin Selected(es) =>
            \/ cs[i][1] \notin Documents(es) /\ Len(es) = Limits.documents
            \/ /\ Cardinality(added) = Limits.fallback \/ PartCount(es) = Limits.parts
               /\ \A j \in 1..Len(cs) : cs[j] \in added => j < i
      <4> DEFINE fs == Fallback(ds, cs, Limits)
      <4>1. LET more == Selected(fs) \ Selected(ds) IN
            \A i \in 1..Len(cs) : cs[i] \notin Selected(fs) =>
              \/ cs[i][1] \notin Documents(fs) /\ Len(fs) = Limits.documents
              \/ /\ Cardinality(more) = Limits.fallback \/ PartCount(fs) = Limits.parts
                 /\ \A j \in 1..Len(cs) : cs[j] \in more => j < i
        BY <3>5, <3>6, <3>7, FallbackFacts
      <4> HIDE DEF fs
      <4>2. fs = es
        BY <3>4 DEF fs
      <4>3. QED
        BY <4>1, <4>2
    <3>9. DOMAIN cs = 1..Len(cs)
      BY <3>5
    <3>10. QED
      BY <3>1, <3>2, <3>8, <3>9 DEF FallbackIsBestFirst, cs, ds, es
  <2>6. QED
    BY <2>1, <2>2, <2>3, <2>4, <2>5, WhereItLeads
<1>3. QED
  BY <1>1, <1>2, NavInvHolds, PTL DEF Spec

\* Whatever the answer model replies: what is published cites parts whose content it was
\* given, keeps no dispute with one side only, and offers selected documents only.
THEOREM AnswerQuotesEvidenceHolds == Spec => []AnswerQuotesEvidence
<1>1. Init => AnswerQuotesEvidence
  BY DEF Init, AnswerQuotesEvidence
<1>2. ASSUME answer' = Silence PROVE AnswerQuotesEvidence'
  BY <1>2, Empty DEF AnswerQuotesEvidence, Silence
<1>3. ASSUME NavInv, Answer PROVE AnswerQuotesEvidence'
  <2>1. evidence' = evidence /\ documents' = documents /\ EvidenceParts' = EvidenceParts
    BY <1>3 DEF Answer, routeVars, EvidenceParts
  <2>2. evidence \in Seq(Evidence)
    BY <1>3 DEF NavInv, EvidenceInv
  <2>3. \A e \in EvidenceParts : e.content # 0 /\ \E i \in DOMAIN evidence : e = evidence[i]
    BY <2>2, ValuesOf DEF EvidenceParts
  <2>4. CASE \E c \in Citation : answer' = [Silence EXCEPT !.cited = {x \in {c} : ValidCitation(x)}]
    <3>1. PICK c \in Citation : answer' = [Silence EXCEPT !.cited = {x \in {c} : ValidCitation(x)}]
      BY <2>4
    <3>2. /\ \A x \in answer'.cited : ValidCitation(x)
          /\ answer'.disputed = << >> /\ answer'.offered = {}
      BY <3>1 DEF Silence
    <3>3. ASSUME NEW x \in answer'.cited
          PROVE  \E i \in DOMAIN evidence :
                   /\ evidence[i].doc = x.doc /\ evidence[i].part = x.part /\ evidence[i].content # 0
                   /\ {x.anchor, x.label} = {<<x.part, evidence[i].card>>}
      <4>1. PICK e \in EvidenceParts :
              e.doc = x.doc /\ e.part = x.part /\ x.anchor = AnchorOf(e) /\ x.label = AnchorOf(e)
        BY <3>2 DEF ValidCitation
      <4>2. PICK i \in DOMAIN evidence : e = evidence[i]
        BY <2>3
      <4>3. {x.anchor, x.label} = {<<x.part, evidence[i].card>>}
        BY <4>1, <4>2 DEF AnchorOf
      <4>4. QED
        BY <2>3, <4>1, <4>2, <4>3
    <3>4. QED
      BY <2>1, <3>2, <3>3, Empty DEF AnswerQuotesEvidence
  <2>5. CASE \E v, w \in Claim : answer' = [Silence EXCEPT !.disputed = Disputed(<<v, w>>)]
    <3>1. PICK v \in Claim, w \in Claim : answer' = [Silence EXCEPT !.disputed = Disputed(<<v, w>>)]
      BY <2>5
    <3>2. answer'.cited = {} /\ answer'.disputed = Disputed(<<v, w>>) /\ answer'.offered = {}
      BY <3>1 DEF Silence
    <3> DEFINE S == {x \in Claim : ValidClaim(x)}
               valid == Only(<<v, w>>, S)
    <3>3. answer'.disputed = IF Len(valid) >= 2 THEN valid ELSE << >>
      BY <3>2 DEF Disputed
    <3>4. valid \in Seq(Claim) /\ ToSet(valid) \subseteq S
      <4>1. <<v, w>> \in Seq(Claim)
        OBVIOUS
      <4> HIDE DEF S
      <4>2. PICK s \in Seq(Claim) : s = <<v, w>>
        BY <4>1
      <4>3. Only(s, S) \in Seq(Claim) /\ ToSet(Only(s, S)) = ToSet(s) \intersect S
        BY OnlyFacts
      <4>4. QED
        BY <4>2, <4>3
    <3> HIDE DEF valid
    <3>5. \A i \in DOMAIN valid : valid[i] \in S
      BY <3>4, ValuesOf
    <3>6. \A i \in DOMAIN valid : \E e \in EvidenceParts : e.doc = valid[i].doc
      BY <3>5 DEF ValidClaim
    <3>7. Len(answer'.disputed) # 1
      <4>1. Len(valid) \in Nat
        BY <3>4
      <4>2. Len(<< >>) = 0
        BY Empty
      <4>3. CASE Len(valid) >= 2
        <5>1. answer'.disputed = valid
          BY <3>3, <4>3
        <5>2. PICK n : n = Len(valid)
          OBVIOUS
        <5>3. n \in Nat /\ n >= 2
          BY <4>1, <4>3, <5>2
        <5>4. n # 1
          BY <5>3
        <5>5. QED
          BY <5>1, <5>2, <5>4
      <4>4. CASE ~(Len(valid) >= 2)
        BY <3>3, <4>2, <4>4
      <4>5. QED
        BY <4>3, <4>4
    <3>8. \A i \in DOMAIN answer'.disputed : \E e \in EvidenceParts : e.doc = answer'.disputed[i].doc
      BY <3>3, <3>6, Empty
    <3>9. QED
      BY <2>1, <3>2, <3>7, <3>8 DEF AnswerQuotesEvidence
  <2>6. CASE \E present \in SUBSET Documents(documents), d \in Document :
               answer' = [Silence EXCEPT !.offered = {d} \cap Documents(documents) \cap present]
    <3>1. answer'.cited = {} /\ answer'.disputed = << >>
          /\ answer'.offered \subseteq Documents(documents)
      BY <2>6 DEF Silence
    <3>2. QED
      BY <2>1, <3>1, Empty DEF AnswerQuotesEvidence
  <2>7. QED
    BY <1>3, <2>4, <2>5, <2>6 DEF Answer
<1>4. NavInv /\ AnswerQuotesEvidence /\ [Next]_vars => AnswerQuotesEvidence'
  <2>1. SUFFICES ASSUME NavInv, AnswerQuotesEvidence, Next PROVE AnswerQuotesEvidence'
    BY StutterSays
  <2>2. CASE at' # "done"
    BY <2>2 DEF AnswerQuotesEvidence
  <2>3. QED
    BY <1>2, <1>3, <2>1, <2>2, WhereItLeads
<1>5. QED
  BY <1>1, <1>4, NavInvHolds, PTL DEF Spec

===============================================================================

--------------------------- MODULE NavigationLemmas ---------------------------
(***************************************************************************)
(* What the operators of Routing and Navigation compute: selections stay   *)
(* typed and without repetition through every fold, their parts are        *)
(* counted, the cap shares fairly, and the fallback takes the best first.  *)
(***************************************************************************)
EXTENDS NavigationProperties, FoldLemmas, FiniteSetTheorems

-----------------------------------------------------------------------------
(* The folds of the model                                                  *)

NewStep(A) == [p \in Seq(A) \X A |-> AppendNew(p[1], p[2])]
OnlyStep(A, S) == [p \in Seq(A) \X A |-> IF p[2] \in S THEN Append(p[1], p[2]) ELSE p[1]]
Rows(kept, doc) == Cardinality({i \in DOMAIN kept : kept[i][1] = doc})
DiverseStep(A, perDocument, limit) ==
  [p \in Seq(A) \X A |->
     IF Rows(p[1], p[2][1]) < perDocument /\ Len(p[1]) < limit THEN Append(p[1], p[2]) ELSE p[1]]
Selection == [doc : Document, parts : Seq(1..MaxPart)]
CountStep == [p \in Nat \X Selection |-> p[1] + Len(p[2].parts)]
JoinStep == [p \in Seq(Folder) \X FolderReply |-> p[1] \o p[2].folders]
Evidence == [doc : Document, part : 1..MaxPart, tokens : PartTokens, card : 1..MaxVersion,
             content : 0..MaxVersion]
TokenSum(es) == FoldLeft(LAMBDA n, e : IF e.content = 0 THEN n ELSE n + e.tokens, 0, es)
TokenStep == [p \in Nat \X Evidence |-> IF p[2].content = 0 THEN p[1] ELSE p[1] + p[2].tokens]

\* Selections of parts of W only, none of them twice; and of each document only once.
Within(W) == {d \in Selection : /\ IsInjective(d.parts)
                                /\ \A i \in DOMAIN d.parts : <<d.doc, d.parts[i]>> \in W}
OneEach(ds) == \A i, j \in DOMAIN ds : ds[i].doc = ds[j].doc => i = j

\* A sequence, its places and its values.
LEMMA SeqFacts ==
  ASSUME NEW A, NEW s \in Seq(A)
  PROVE  Len(s) \in Nat /\ DOMAIN s = 1..Len(s) /\ \A i \in 1..Len(s) : s[i] \in A
  OBVIOUS

\* What a part costs is a number.
LEMMA TokensAreNatural == \A e \in Evidence : e.tokens \in Nat /\ e.content \in Nat
<1>1. PartTokens \subseteq Nat
  BY NavigationConstants
<1>2. MaxVersion \in Nat
  BY NavigationConstants
<1>3. ASSUME NEW e \in Evidence PROVE e.tokens \in Nat /\ e.content \in Nat
  <2>1. e.tokens \in PartTokens /\ e.content \in 0..MaxVersion
    BY DEF Evidence
  <2>2. e.tokens \in Nat
    BY <1>1, <2>1
  <2>3. \A n \in 0..MaxVersion : n \in Nat
    BY <1>2
  <2>4. QED
    BY <2>1, <2>2, <2>3
<1>4. QED
  BY <1>3

NamedBy(replies) == FoldLeft(LAMBDA t, r : t \o r.folders, << >>, replies)
Recalled(found, f) ==
  Only(Distinct([i \in DOMAIN found |-> found[i][1]]), {d \in Document : FolderOf[d] = f})
ToBeRead(found, f) ==
  IF Recalled(found, f) = << >>
  THEN SetToSeq({d \in Document : listing[d] > 0 /\ FolderOf[d] = f})
  ELSE Recalled(found, f)
ReadStep(L, found) == [p \in Seq(L) \X Folder |-> p[1] \o ToBeRead(found, p[2])]
InOrder(ds) ==
  FoldLeft(LAMBDA s, d : s \o [i \in DOMAIN d.parts |-> <<d.doc, d.parts[i]>>], << >>, ds)
LEMMA RepliesNameFolders == \A r \in FolderReply : r.folders \in Seq(Folder)
<1>1. ASSUME NEW r \in FolderReply PROVE r.folders \in Seq(Folder)
  <2>1. PICK m \in 0..2 : r.folders \in [1..m -> Folder]
    BY DEF FolderReply, Orders, SeqOf
  <2>2. QED
    BY <2>1
<1>2. QED
  BY <1>1

PairsOf(d) == [i \in DOMAIN d.parts |-> <<d.doc, d.parts[i]>>]

\* The parts of one selection, as pairs of document and part.
LEMMA PairsWithin ==
  ASSUME NEW W
  PROVE  \A d \in Within(W) : PairsOf(d) \in Seq(W)
<1>1. ASSUME NEW d \in Within(W) PROVE PairsOf(d) \in Seq(W)
  <2>1. d.parts \in Seq(1..MaxPart) /\ \A i \in DOMAIN d.parts : <<d.doc, d.parts[i]>> \in W
    BY DEF Within, Selection
  <2>2. Len(d.parts) \in Nat /\ DOMAIN d.parts = 1..Len(d.parts)
    BY <2>1, SeqFacts
  <2>3. QED
    BY <2>1, <2>2 DEF PairsOf
<1>2. QED
  BY <1>1

\* Sequences joined are a sequence.
LEMMA JoinTyped ==
  ASSUME NEW A, NEW x \in Seq(A), NEW y \in Seq(A)
  PROVE  x \o y \in Seq(A)
  OBVIOUS

OrderStep(W) == [p \in Seq(W) \X Within(W) |-> p[1] \o PairsOf(p[2])]

\* Distinct runs along the sequence, adding what is new.
LEMMA DistinctTrail ==
  ASSUME NEW A, NEW s \in Seq(A)
  PROVE  \E r \in [0..Len(s) -> Seq(A)] :
           r[Len(s)] = Distinct(s) /\ Trail(r, NewStep(A), << >>, s)
<1> DEFINE V == Seq(A)
           D == A
           F == NewStep(A)
           Step(g) == [t \in SUBSET DOMAIN s |->
                         IF t = {} THEN << >>
                         ELSE AppendNew(g[t \ {Max(t)}], s[Max(t)])]
           h == CHOOSE g : g = Step(g)
<1>1. Distinct(s) = h[DOMAIN s]
  BY DEF Distinct, FoldLeft, MapThenFoldSet
<1>2. \A x \in V, y \in D : AppendNew(x, y) \in V /\ F[<<x, y>>] = AppendNew(x, y)
  BY DEF AppendNew, NewStep
<1>3. Foldable(F, V, D, << >>, s)
  <2>1. F \in [V \X D -> V]
    BY <1>2 DEF NewStep
  <2>2. << >> \in V
    BY DEF V
  <2>3. QED
    BY <2>1, <2>2 DEF Foldable
<1> HIDE DEF F, V, D
<1>4. PICK g : Iterated(g, F, V, D, << >>, s)
  BY <1>3, IterSteps
<1>5. h = Step(h)
  <2>1. g = Step(g)
    BY <1>2, <1>4 DEF Iterated
  <2>2. QED
    BY <2>1
<1>6. \A t \in SUBSET DOMAIN s :
        h[t] = IF t = {} THEN << >>
               ELSE AppendNew(h[t \ {Max(t)}], s[Max(t)])
  BY <1>5
<1> HIDE DEF h
<1>7. Chained(h, F, V, << >>, s)
  <2>1. ASSUME NEW t \in SUBSET DOMAIN s, t # {}, h[t \ {Max(t)}] \in V
        PROVE  h[t] = F[<<h[t \ {Max(t)}], s[Max(t)]>>]
    <3>1. s[Max(t)] \in D
      BY <1>3, <2>1, Subsets DEF Foldable
    <3>2. QED
      BY <1>2, <1>6, <2>1, <3>1
  <2>2. QED
    BY <1>6, <2>1 DEF Chained
<1>8. QED
  BY <1>1, <1>3, <1>7, FoldTrail DEF F, V

LEMMA OnlyTrail ==
  ASSUME NEW A, NEW S, NEW s \in Seq(A)
  PROVE  \E r \in [0..Len(s) -> Seq(A)] :
           r[Len(s)] = Only(s, S) /\ Trail(r, OnlyStep(A, S), << >>, s)
<1> DEFINE V == Seq(A)
           D == A
           F == OnlyStep(A, S)
           Step(g) == [t \in SUBSET DOMAIN s |->
                         IF t = {} THEN << >>
                         ELSE (IF s[Max(t)] \in S THEN Append(g[t \ {Max(t)}], s[Max(t)]) ELSE g[t \ {Max(t)}])]
           h == CHOOSE g : g = Step(g)
<1>1. Only(s, S) = h[DOMAIN s]
  BY DEF Only, FoldLeft, MapThenFoldSet
<1>2. \A x \in V, y \in D : (IF y \in S THEN Append(x, y) ELSE x) \in V /\ F[<<x, y>>] = (IF y \in S THEN Append(x, y) ELSE x)
  BY DEF OnlyStep
<1>3. Foldable(F, V, D, << >>, s)
  <2>1. F \in [V \X D -> V]
    BY <1>2 DEF OnlyStep
  <2>2. << >> \in V
    BY DEF V
  <2>3. QED
    BY <2>1, <2>2 DEF Foldable
<1> HIDE DEF F, V, D
<1>4. PICK g : Iterated(g, F, V, D, << >>, s)
  BY <1>3, IterSteps
<1>5. h = Step(h)
  <2>1. g = Step(g)
    BY <1>2, <1>4 DEF Iterated
  <2>2. QED
    BY <2>1
<1>6. \A t \in SUBSET DOMAIN s :
        h[t] = IF t = {} THEN << >>
               ELSE (IF s[Max(t)] \in S THEN Append(h[t \ {Max(t)}], s[Max(t)]) ELSE h[t \ {Max(t)}])
  BY <1>5
<1> HIDE DEF h
<1>7. Chained(h, F, V, << >>, s)
  <2>1. ASSUME NEW t \in SUBSET DOMAIN s, t # {}, h[t \ {Max(t)}] \in V
        PROVE  h[t] = F[<<h[t \ {Max(t)}], s[Max(t)]>>]
    <3>1. s[Max(t)] \in D
      BY <1>3, <2>1, Subsets DEF Foldable
    <3>2. QED
      BY <1>2, <1>6, <2>1, <3>1
  <2>2. QED
    BY <1>6, <2>1 DEF Chained
<1>8. QED
  BY <1>1, <1>3, <1>7, FoldTrail DEF F, V

LEMMA DiverseTrail ==
  ASSUME NEW A, NEW perDocument, NEW limit, NEW s \in Seq(A)
  PROVE  \E r \in [0..Len(s) -> Seq(A)] :
           r[Len(s)] = Diverse(s, perDocument, limit) /\ Trail(r, DiverseStep(A, perDocument, limit), << >>, s)
<1> DEFINE V == Seq(A)
           D == A
           F == DiverseStep(A, perDocument, limit)
           Step(g) == [t \in SUBSET DOMAIN s |->
                         IF t = {} THEN << >>
                         ELSE (IF Rows(g[t \ {Max(t)}], s[Max(t)][1]) < perDocument /\ Len(g[t \ {Max(t)}]) < limit
              THEN Append(g[t \ {Max(t)}], s[Max(t)]) ELSE g[t \ {Max(t)}])]
           h == CHOOSE g : g = Step(g)
<1>1. Diverse(s, perDocument, limit) = h[DOMAIN s]
  BY DEF Diverse, Rows, FoldLeft, MapThenFoldSet
<1>2. \A x \in V, y \in D : (IF Rows(x, y[1]) < perDocument /\ Len(x) < limit
              THEN Append(x, y) ELSE x) \in V /\ F[<<x, y>>] = (IF Rows(x, y[1]) < perDocument /\ Len(x) < limit
              THEN Append(x, y) ELSE x)
  BY DEF DiverseStep
<1>3. Foldable(F, V, D, << >>, s)
  <2>1. F \in [V \X D -> V]
    BY <1>2 DEF DiverseStep
  <2>2. << >> \in V
    BY DEF V
  <2>3. QED
    BY <2>1, <2>2 DEF Foldable
<1> HIDE DEF F, V, D
<1>4. PICK g : Iterated(g, F, V, D, << >>, s)
  BY <1>3, IterSteps
<1>5. h = Step(h)
  <2>1. g = Step(g)
    BY <1>2, <1>4 DEF Iterated
  <2>2. QED
    BY <2>1
<1>6. \A t \in SUBSET DOMAIN s :
        h[t] = IF t = {} THEN << >>
               ELSE (IF Rows(h[t \ {Max(t)}], s[Max(t)][1]) < perDocument /\ Len(h[t \ {Max(t)}]) < limit
              THEN Append(h[t \ {Max(t)}], s[Max(t)]) ELSE h[t \ {Max(t)}])
  BY <1>5
<1> HIDE DEF h
<1>7. Chained(h, F, V, << >>, s)
  <2>1. ASSUME NEW t \in SUBSET DOMAIN s, t # {}, h[t \ {Max(t)}] \in V
        PROVE  h[t] = F[<<h[t \ {Max(t)}], s[Max(t)]>>]
    <3>1. s[Max(t)] \in D
      BY <1>3, <2>1, Subsets DEF Foldable
    <3>2. QED
      BY <1>2, <1>6, <2>1, <3>1
  <2>2. QED
    BY <1>6, <2>1 DEF Chained
<1>8. QED
  BY <1>1, <1>3, <1>7, FoldTrail DEF F, V

LEMMA PartCountTrail ==
  ASSUME NEW s \in Seq(Selection)
  PROVE  \E r \in [0..Len(s) -> Nat] :
           r[Len(s)] = PartCount(s) /\ Trail(r, CountStep, 0, s)
<1> DEFINE V == Nat
           D == Selection
           F == CountStep
           Step(g) == [t \in SUBSET DOMAIN s |->
                         IF t = {} THEN 0
                         ELSE g[t \ {Max(t)}] + Len(s[Max(t)].parts)]
           h == CHOOSE g : g = Step(g)
<1>1. PartCount(s) = h[DOMAIN s]
  BY DEF PartCount, FoldLeft, MapThenFoldSet
<1>2. \A x \in V, y \in D : x + Len(y.parts) \in V /\ F[<<x, y>>] = x + Len(y.parts)
  BY DEF CountStep, Selection
<1>3. Foldable(F, V, D, 0, s)
  <2>1. F \in [V \X D -> V]
    BY <1>2 DEF CountStep
  <2>2. 0 \in V
    BY DEF V
  <2>3. QED
    BY <2>1, <2>2 DEF Foldable
<1> HIDE DEF F, V, D
<1>4. PICK g : Iterated(g, F, V, D, 0, s)
  BY <1>3, IterSteps
<1>5. h = Step(h)
  <2>1. g = Step(g)
    BY <1>2, <1>4 DEF Iterated
  <2>2. QED
    BY <2>1
<1>6. \A t \in SUBSET DOMAIN s :
        h[t] = IF t = {} THEN 0
               ELSE h[t \ {Max(t)}] + Len(s[Max(t)].parts)
  BY <1>5
<1> HIDE DEF h
<1>7. Chained(h, F, V, 0, s)
  <2>1. ASSUME NEW t \in SUBSET DOMAIN s, t # {}, h[t \ {Max(t)}] \in V
        PROVE  h[t] = F[<<h[t \ {Max(t)}], s[Max(t)]>>]
    <3>1. s[Max(t)] \in D
      BY <1>3, <2>1, Subsets DEF Foldable
    <3>2. QED
      BY <1>2, <1>6, <2>1, <3>1
  <2>2. QED
    BY <1>6, <2>1 DEF Chained
<1>8. QED
  BY <1>1, <1>3, <1>7, FoldTrail DEF F, V

LEMMA TokenTrail ==
  ASSUME NEW s \in Seq(Evidence)
  PROVE  \E r \in [0..Len(s) -> Nat] :
           r[Len(s)] = TokenSum(s) /\ Trail(r, TokenStep, 0, s)
<1> DEFINE V == Nat
           D == Evidence
           F == TokenStep
           Step(g) == [t \in SUBSET DOMAIN s |->
                         IF t = {} THEN 0
                         ELSE (IF s[Max(t)].content = 0 THEN g[t \ {Max(t)}] ELSE g[t \ {Max(t)}] + s[Max(t)].tokens)]
           h == CHOOSE g : g = Step(g)
<1>1. TokenSum(s) = h[DOMAIN s]
  BY DEF TokenSum, FoldLeft, MapThenFoldSet
<1>2. \A x \in V, y \in D : (IF y.content = 0 THEN x ELSE x + y.tokens) \in V /\ F[<<x, y>>] = (IF y.content = 0 THEN x ELSE x + y.tokens)
  BY TokensAreNatural DEF TokenStep
<1>3. Foldable(F, V, D, 0, s)
  <2>1. F \in [V \X D -> V]
    BY <1>2 DEF TokenStep
  <2>2. 0 \in V
    BY TokensAreNatural DEF V
  <2>3. QED
    BY <2>1, <2>2 DEF Foldable
<1> HIDE DEF F, V, D
<1>4. PICK g : Iterated(g, F, V, D, 0, s)
  BY <1>3, IterSteps
<1>5. h = Step(h)
  <2>1. g = Step(g)
    <3>1. ASSUME NEW t \in SUBSET DOMAIN s
          PROVE  g[t] = IF t = {} THEN 0
                        ELSE (IF s[Max(t)].content = 0 THEN g[t \ {Max(t)}]
                              ELSE g[t \ {Max(t)}] + s[Max(t)].tokens)
      <4>1. CASE t = {}
        BY <1>4, <4>1 DEF Iterated
      <4>2. CASE t # {}
        <5>1. /\ g[t \ {Max(t)}] \in V /\ s[Max(t)] \in D
              /\ g[t] = F[<<g[t \ {Max(t)}], s[Max(t)]>>]
          BY <1>4, <4>2 DEF Iterated
        <5>2. QED
          BY <1>2, <4>2, <5>1
      <4>3. QED
        BY <4>1, <4>2
    <3>2. g = [t \in SUBSET DOMAIN s |-> g[t]]
      BY <1>4 DEF Iterated
    <3>3. QED
      BY <3>1, <3>2, Zenon
  <2>2. QED
    BY <2>1
<1>6. \A t \in SUBSET DOMAIN s :
        h[t] = IF t = {} THEN 0
               ELSE (IF s[Max(t)].content = 0 THEN h[t \ {Max(t)}] ELSE h[t \ {Max(t)}] + s[Max(t)].tokens)
  BY <1>5
<1> HIDE DEF h
<1>7. Chained(h, F, V, 0, s)
  <2>1. ASSUME NEW t \in SUBSET DOMAIN s, t # {}, h[t \ {Max(t)}] \in V
        PROVE  h[t] = F[<<h[t \ {Max(t)}], s[Max(t)]>>]
    <3>1. s[Max(t)] \in D
      BY <1>3, <2>1, Subsets DEF Foldable
    <3>2. QED
      BY <1>2, <1>6, <2>1, <3>1
  <2>2. QED
    BY <1>6, <2>1 DEF Chained
<1>8. QED
  BY <1>1, <1>3, <1>7, FoldTrail DEF F, V

LEMMA NamedTrail ==
  ASSUME NEW s \in Seq(FolderReply)
  PROVE  \E r \in [0..Len(s) -> Seq(Folder)] :
           r[Len(s)] = NamedBy(s) /\ Trail(r, JoinStep, << >>, s)
<1> DEFINE V == Seq(Folder)
           D == FolderReply
           F == JoinStep
           Step(g) == [t \in SUBSET DOMAIN s |->
                         IF t = {} THEN << >>
                         ELSE g[t \ {Max(t)}] \o s[Max(t)].folders]
           h == CHOOSE g : g = Step(g)
<1>1. NamedBy(s) = h[DOMAIN s]
  BY DEF NamedBy, FoldLeft, MapThenFoldSet
<1>2. \A x \in V, y \in D : x \o y.folders \in V /\ F[<<x, y>>] = x \o y.folders
  <2>1. \A x \in V, y \in D : x \o y.folders \in V
    BY RepliesNameFolders, JoinTyped DEF V, D
  <2>2. QED
    BY <2>1 DEF JoinStep
<1>3. Foldable(F, V, D, << >>, s)
  <2>1. F \in [V \X D -> V]
    BY <1>2 DEF JoinStep
  <2>2. << >> \in V
    BY DEF V
  <2>3. QED
    BY <2>1, <2>2 DEF Foldable
<1> HIDE DEF F, V, D
<1>4. PICK g : Iterated(g, F, V, D, << >>, s)
  BY <1>3, IterSteps
<1>5. h = Step(h)
  <2>1. g = Step(g)
    BY <1>2, <1>4 DEF Iterated
  <2>2. QED
    BY <2>1
<1>6. \A t \in SUBSET DOMAIN s :
        h[t] = IF t = {} THEN << >>
               ELSE h[t \ {Max(t)}] \o s[Max(t)].folders
  BY <1>5
<1> HIDE DEF h
<1>7. Chained(h, F, V, << >>, s)
  <2>1. ASSUME NEW t \in SUBSET DOMAIN s, t # {}, h[t \ {Max(t)}] \in V
        PROVE  h[t] = F[<<h[t \ {Max(t)}], s[Max(t)]>>]
    <3>1. s[Max(t)] \in D
      BY <1>3, <2>1, Subsets DEF Foldable
    <3>2. QED
      BY <1>2, <1>6, <2>1, <3>1
  <2>2. QED
    BY <1>6, <2>1 DEF Chained
<1>8. QED
  BY <1>1, <1>3, <1>7, FoldTrail DEF F, V

LEMMA ReadTrail ==
  ASSUME NEW L, NEW found, \A f \in Folder : ToBeRead(found, f) \in Seq(L), NEW s \in Seq(Folder)
  PROVE  \E r \in [0..Len(s) -> Seq(L)] :
           r[Len(s)] = RoutingDocuments(s, found) /\ Trail(r, ReadStep(L, found), << >>, s)
<1> DEFINE V == Seq(L)
           D == Folder
           F == ReadStep(L, found)
           Step(g) == [t \in SUBSET DOMAIN s |->
                         IF t = {} THEN << >>
                         ELSE g[t \ {Max(t)}] \o ToBeRead(found, s[Max(t)])]
           h == CHOOSE g : g = Step(g)
<1>1. RoutingDocuments(s, found) = h[DOMAIN s]
  BY DEF RoutingDocuments, ToBeRead, Recalled, FoldLeft, MapThenFoldSet
<1>2. \A x \in V, y \in D : x \o ToBeRead(found, y) \in V /\ F[<<x, y>>] = x \o ToBeRead(found, y)
  <2>1. \A x \in V, y \in D : x \o ToBeRead(found, y) \in V
    BY JoinTyped DEF V, D
  <2>2. QED
    BY <2>1 DEF ReadStep
<1>3. Foldable(F, V, D, << >>, s)
  <2>1. F \in [V \X D -> V]
    BY <1>2 DEF ReadStep
  <2>2. << >> \in V
    BY DEF V
  <2>3. QED
    BY <2>1, <2>2 DEF Foldable
<1> HIDE DEF F, V, D
<1>4. PICK g : Iterated(g, F, V, D, << >>, s)
  BY <1>3, IterSteps
<1>5. h = Step(h)
  <2>1. g = Step(g)
    BY <1>2, <1>4 DEF Iterated
  <2>2. QED
    BY <2>1
<1>6. \A t \in SUBSET DOMAIN s :
        h[t] = IF t = {} THEN << >>
               ELSE h[t \ {Max(t)}] \o ToBeRead(found, s[Max(t)])
  BY <1>5
<1> HIDE DEF h
<1>7. Chained(h, F, V, << >>, s)
  <2>1. ASSUME NEW t \in SUBSET DOMAIN s, t # {}, h[t \ {Max(t)}] \in V
        PROVE  h[t] = F[<<h[t \ {Max(t)}], s[Max(t)]>>]
    <3>1. s[Max(t)] \in D
      BY <1>3, <2>1, Subsets DEF Foldable
    <3>2. QED
      BY <1>2, <1>6, <2>1, <3>1
  <2>2. QED
    BY <1>6, <2>1 DEF Chained
<1>8. QED
  BY <1>1, <1>3, <1>7, FoldTrail DEF F, V

LEMMA OrderTrail ==
  ASSUME NEW W, NEW s \in Seq(Within(W))
  PROVE  \E r \in [0..Len(s) -> Seq(W)] :
           r[Len(s)] = InOrder(s) /\ Trail(r, OrderStep(W), << >>, s)
<1> DEFINE V == Seq(W)
           D == Within(W)
           F == OrderStep(W)
           Step(g) == [t \in SUBSET DOMAIN s |->
                         IF t = {} THEN << >>
                         ELSE g[t \ {Max(t)}] \o PairsOf(s[Max(t)])]
           h == CHOOSE g : g = Step(g)
<1>1. InOrder(s) = h[DOMAIN s]
  BY DEF InOrder, PairsOf, FoldLeft, MapThenFoldSet
<1>2. \A x \in V, y \in D : x \o PairsOf(y) \in V /\ F[<<x, y>>] = x \o PairsOf(y)
  <2>1. \A x \in V, y \in D : x \o PairsOf(y) \in V
    BY PairsWithin, JoinTyped DEF V, D
  <2>2. QED
    BY <2>1 DEF OrderStep
<1>3. Foldable(F, V, D, << >>, s)
  <2>1. F \in [V \X D -> V]
    BY <1>2 DEF OrderStep
  <2>2. << >> \in V
    BY DEF V
  <2>3. QED
    BY <2>1, <2>2 DEF Foldable
<1> HIDE DEF F, V, D
<1>4. PICK g : Iterated(g, F, V, D, << >>, s)
  BY <1>3, IterSteps
<1>5. h = Step(h)
  <2>1. g = Step(g)
    BY <1>2, <1>4 DEF Iterated
  <2>2. QED
    BY <2>1
<1>6. \A t \in SUBSET DOMAIN s :
        h[t] = IF t = {} THEN << >>
               ELSE h[t \ {Max(t)}] \o PairsOf(s[Max(t)])
  BY <1>5
<1> HIDE DEF h
<1>7. Chained(h, F, V, << >>, s)
  <2>1. ASSUME NEW t \in SUBSET DOMAIN s, t # {}, h[t \ {Max(t)}] \in V
        PROVE  h[t] = F[<<h[t \ {Max(t)}], s[Max(t)]>>]
    <3>1. s[Max(t)] \in D
      BY <1>3, <2>1, Subsets DEF Foldable
    <3>2. QED
      BY <1>2, <1>6, <2>1, <3>1
  <2>2. QED
    BY <1>6, <2>1 DEF Chained
<1>8. QED
  BY <1>1, <1>3, <1>7, FoldTrail DEF F, V

-----------------------------------------------------------------------------
(* What the helpers on sequences return.                                   *)

\* AppendNew adds a value that is not there yet, behind the others.
LEMMA AppendFacts ==
  ASSUME NEW A, NEW s \in Seq(A), NEW x \in A
  PROVE  /\ Append(s, x) \in Seq(A) /\ ToSet(Append(s, x)) = ToSet(s) \union {x}
         /\ IsInjective(s) /\ x \notin ToSet(s) => IsInjective(Append(s, x))
<1>1. /\ Append(s, x) \in Seq(A) /\ Len(s) \in Nat
      /\ Len(Append(s, x)) = Len(s) + 1 /\ Append(s, x)[Len(s) + 1] = x
      /\ DOMAIN s = 1..Len(s) /\ DOMAIN Append(s, x) = 1..(Len(s) + 1)
      /\ \A i \in 1..Len(s) : Append(s, x)[i] = s[i]
  OBVIOUS
<1>2. \A i \in 1..(Len(s) + 1) : i \in 1..Len(s) \/ i = Len(s) + 1
  BY <1>1
<1>3. 1..Len(s) \subseteq 1..(Len(s) + 1) /\ Len(s) + 1 \in 1..(Len(s) + 1)
  BY <1>1
<1>4. ToSet(Append(s, x)) = ToSet(s) \union {x}
  BY <1>1, <1>2, <1>3 DEF ToSet
<1>5. ASSUME IsInjective(s), x \notin ToSet(s) PROVE IsInjective(Append(s, x))
  BY <1>1, <1>2, <1>5 DEF IsInjective, ToSet
<1>6. QED
  BY <1>1, <1>4, <1>5

\* Distinct keeps every value, once.
LEMMA DistinctFacts ==
  ASSUME NEW A, NEW s \in Seq(A)
  PROVE  Distinct(s) \in Seq(A) /\ IsInjective(Distinct(s)) /\ ToSet(Distinct(s)) = ToSet(s)
<1>1. PICK r \in [0..Len(s) -> Seq(A)] : r[Len(s)] = Distinct(s) /\ Trail(r, NewStep(A), << >>, s)
  BY DistinctTrail
<1>2. Len(s) \in Nat /\ DOMAIN s = 1..Len(s) /\ \A i \in 1..Len(s) : s[i] \in A
  OBVIOUS
<1> DEFINE Seen(k) == {s[i] : i \in 1..k}
           K == {k \in 0..Len(s) : IsInjective(r[k]) /\ ToSet(r[k]) = Seen(k)}
<1>3. 0 \in K
  <2>1. r[0] = << >> /\ Seen(0) = {}
    BY <1>1 DEF Trail
  <2>2. IsInjective(<< >>) /\ ToSet(<< >>) = {}
    BY DEF IsInjective, ToSet
  <2>3. QED
    BY <1>2, <2>1, <2>2
<1>4. ASSUME NEW k \in 1..Len(s), k - 1 \in K PROVE k \in K
  <2>1. k - 1 \in 0..Len(s) /\ k \in 0..Len(s) /\ r[k - 1] \in Seq(A) /\ s[k] \in A
    BY <1>1, <1>2
  <2>2. r[k] = AppendNew(r[k - 1], s[k])
    BY <1>1, <2>1 DEF Trail, NewStep
  <2>3. Seen(k) = Seen(k - 1) \union {s[k]}
    <3>1. \A i \in 1..k : i \in 1..(k - 1) \/ i = k
      BY <2>1
    <3>2. 1..(k - 1) \subseteq 1..k /\ k \in 1..k
      BY <2>1
    <3>3. QED
      BY <3>1, <3>2
  <2>4. IsInjective(r[k - 1]) /\ ToSet(r[k - 1]) = Seen(k - 1)
    BY <1>4
  <2> HIDE DEF Seen
  <2>5. IsInjective(r[k]) /\ ToSet(r[k]) = Seen(k)
    BY <2>1, <2>2, <2>3, <2>4, AppendFacts DEF AppendNew
  <2>6. QED
    BY <2>1, <2>5
<1>5. \A k \in 0..Len(s) : k \in K
  <2> HIDE DEF K
  <2>1. QED
    BY <1>2, <1>3, <1>4, AllIndices
<1>6. Seen(Len(s)) = ToSet(s)
  BY <1>2 DEF ToSet
<1>7. Len(s) \in K /\ r[Len(s)] \in Seq(A)
  BY <1>1, <1>2, <1>5
<1>8. QED
  BY <1>1, <1>6, <1>7

\* What keeps or leaves one element after the other keeps no element twice, and no other.
LEMMA Thinned ==
  ASSUME NEW A, NEW s \in Seq(A), NEW r \in [0..Len(s) -> Seq(A)], r[0] = << >>,
         \A k \in 1..Len(s) : r[k] \in {r[k - 1], Append(r[k - 1], s[k])}
  PROVE  /\ ToSet(r[Len(s)]) \subseteq ToSet(s)
         /\ IsInjective(s) => IsInjective(r[Len(s)])
<1>1. Len(s) \in Nat /\ DOMAIN s = 1..Len(s) /\ \A i \in 1..Len(s) : s[i] \in A
  OBVIOUS
<1> DEFINE Seen(k) == {s[i] : i \in 1..k}
           K == {k \in 0..Len(s) : /\ IsInjective(s) => IsInjective(r[k])
                                   /\ ToSet(r[k]) \subseteq Seen(k)}
<1>2. 0 \in K
  <2>1. IsInjective(<< >>) /\ ToSet(<< >>) = {}
    BY DEF IsInjective, ToSet
  <2>2. QED
    BY <1>1, <2>1
<1>3. ASSUME NEW k \in 1..Len(s), k - 1 \in K PROVE k \in K
  <2>0. k - 1 \in 0..Len(s) /\ k \in 0..Len(s) /\ s[k] \in A
    BY <1>1
  <2>1. k - 1 \in 0..Len(s) /\ k \in 0..Len(s) /\ r[k - 1] \in Seq(A) /\ s[k] \in A
    BY <2>0
  <2>2. Seen(k) = Seen(k - 1) \union {s[k]}
    <3>1. \A i \in 1..k : i \in 1..(k - 1) \/ i = k
      BY <2>1
    <3>2. 1..(k - 1) \subseteq 1..k /\ k \in 1..k
      BY <2>1
    <3>3. QED
      BY <3>1, <3>2
  <2>3. IsInjective(s) => s[k] \notin Seen(k - 1)
    <3>1. \A i \in 1..(k - 1) : i \in DOMAIN s /\ i # k
      BY <1>1
    <3>2. QED
      BY <1>1, <3>1 DEF IsInjective
  <2>4. (IsInjective(s) => IsInjective(r[k - 1])) /\ ToSet(r[k - 1]) \subseteq Seen(k - 1)
    BY <1>3
  <2> HIDE DEF Seen
  <2>5. (IsInjective(s) => IsInjective(r[k])) /\ ToSet(r[k]) \subseteq Seen(k)
    <3>1. CASE r[k] = r[k - 1]
      BY <2>2, <2>4, <3>1
    <3>2. CASE r[k] = Append(r[k - 1], s[k])
      <4>1. /\ ToSet(r[k]) = ToSet(r[k - 1]) \union {s[k]}
            /\ IsInjective(r[k - 1]) /\ s[k] \notin ToSet(r[k - 1]) => IsInjective(r[k])
        BY <2>1, <3>2, AppendFacts
      <4>2. QED
        BY <2>2, <2>3, <2>4, <4>1
    <3>3. QED
      BY <3>1, <3>2
  <2>6. QED
    BY <2>1, <2>5
<1>4. \A k \in 0..Len(s) : k \in K
  <2> HIDE DEF K
  <2>1. QED
    BY <1>1, <1>2, <1>3, AllIndices
<1>5. Seen(Len(s)) = ToSet(s)
  BY <1>1 DEF ToSet
<1>6. Len(s) \in K
  BY <1>1, <1>4
<1>7. QED
  BY <1>5, <1>6

\* Diverse keeps matches of the search in order, none twice, up to its limit.
LEMMA DiverseFacts ==
  ASSUME NEW A, NEW s \in Seq(A), NEW perDocument, NEW limit
  PROVE  LET found == Diverse(s, perDocument, limit) IN
         /\ found \in Seq(A) /\ ToSet(found) \subseteq ToSet(s)
         /\ IsInjective(s) => IsInjective(found)
<1>1. PICK r \in [0..Len(s) -> Seq(A)] :
        /\ r[Len(s)] = Diverse(s, perDocument, limit)
        /\ Trail(r, DiverseStep(A, perDocument, limit), << >>, s)
  BY DiverseTrail
<1>2. \A k \in 1..Len(s) : r[k] \in {r[k - 1], Append(r[k - 1], s[k])}
  <2>1. ASSUME NEW k \in 1..Len(s) PROVE r[k] \in {r[k - 1], Append(r[k - 1], s[k])}
    <3>1. k - 1 \in 0..Len(s) /\ s[k] \in A
      OBVIOUS
    <3>2. r[k - 1] \in Seq(A)
      BY <3>1
    <3>3. QED
      BY <1>1, <3>1, <3>2 DEF Trail, DiverseStep
  <2>2. QED
    BY <2>1
<1>3. r[0] = << >>
  BY <1>1 DEF Trail
<1>4. r[Len(s)] \in Seq(A)
  OBVIOUS
<1>5. QED
  BY <1>1, <1>2, <1>3, <1>4, Thinned

\* Only keeps the values of a set, each as often and in the order it had.
LEMMA OnlyFacts ==
  ASSUME NEW A, NEW s \in Seq(A), NEW S
  PROVE  /\ Only(s, S) \in Seq(A) /\ ToSet(Only(s, S)) = ToSet(s) \intersect S
         /\ IsInjective(s) => IsInjective(Only(s, S))
<1>1. PICK r \in [0..Len(s) -> Seq(A)] :
        r[Len(s)] = Only(s, S) /\ Trail(r, OnlyStep(A, S), << >>, s)
  BY OnlyTrail
<1>2. Len(s) \in Nat /\ DOMAIN s = 1..Len(s) /\ \A i \in 1..Len(s) : s[i] \in A
  OBVIOUS
<1>3. ASSUME NEW k \in 1..Len(s)
      PROVE  r[k - 1] \in Seq(A) /\ r[k] = IF s[k] \in S THEN Append(r[k - 1], s[k]) ELSE r[k - 1]
  <2>1. k - 1 \in 0..Len(s)
    BY <1>2
  <2>2. QED
    BY <1>1, <1>2, <2>1 DEF Trail, OnlyStep
<1>4. r[0] = << >> /\ r[Len(s)] \in Seq(A)
  BY <1>1, <1>2 DEF Trail
<1>5. ToSet(r[Len(s)]) \subseteq ToSet(s) /\ (IsInjective(s) => IsInjective(r[Len(s)]))
  <2>1. \A k \in 1..Len(s) : r[k] \in {r[k - 1], Append(r[k - 1], s[k])}
    BY <1>3
  <2>2. QED
    BY <1>4, <2>1, Thinned
<1> DEFINE K == {k \in 0..Len(s) : ToSet(r[k]) = {s[i] : i \in 1..k} \intersect S}
<1>6. 0 \in K
  BY <1>2, <1>4 DEF ToSet
<1>7. ASSUME NEW k \in 1..Len(s), k - 1 \in K PROVE k \in K
  <2>1. {s[i] : i \in 1..k} = {s[i] : i \in 1..(k - 1)} \union {s[k]}
    <3>1. \A i \in 1..k : i \in 1..(k - 1) \/ i = k
      BY <1>2
    <3>2. 1..(k - 1) \subseteq 1..k /\ k \in 1..k
      BY <1>2
    <3>3. QED
      BY <3>1, <3>2
  <2>2. ToSet(r[k]) = IF s[k] \in S THEN ToSet(r[k - 1]) \union {s[k]} ELSE ToSet(r[k - 1])
    <3>1. s[k] \in A /\ r[k - 1] \in Seq(A)
      BY <1>2, <1>3
    <3>2. ToSet(Append(r[k - 1], s[k])) = ToSet(r[k - 1]) \union {s[k]}
      BY <3>1, AppendFacts
    <3>3. QED
      BY <1>3, <3>2
  <2>3. ToSet(r[k - 1]) = {s[i] : i \in 1..(k - 1)} \intersect S
    BY <1>7
  <2>4. ToSet(r[k]) = {s[i] : i \in 1..k} \intersect S
    BY <2>1, <2>2, <2>3
  <2>5. QED
    BY <2>4
<1>8. \A k \in 0..Len(s) : k \in K
  <2> HIDE DEF K
  <2>1. QED
    BY <1>2, <1>6, <1>7, AllIndices
<1>9. ToSet(r[Len(s)]) = ToSet(s) \intersect S
  <2>1. Len(s) \in K
    BY <1>2, <1>8, SMTT(30)
  <2>2. QED
    BY <1>2, <2>1 DEF ToSet
<1>10. QED
  BY <1>1, <1>4, <1>5, <1>9

\* The smaller of two numbers.
LEMMA MinOfTwo ==
  ASSUME NEW a \in Int, NEW b \in Int
  PROVE  Min({a, b}) = IF a <= b THEN a ELSE b
<1>1. \E x \in {a, b} : \A y \in {a, b} : x <= y
  OBVIOUS
<1>2. Min({a, b}) \in {a, b} /\ Min({a, b}) <= a /\ Min({a, b}) <= b
  BY <1>1 DEF Min
<1>3. QED
  BY <1>2

\* The larger of two numbers.
LEMMA MaxOfTwo ==
  ASSUME NEW a \in Int, NEW b \in Int
  PROVE  Max({a, b}) = IF a >= b THEN a ELSE b
<1>1. \E x \in {a, b} : \A y \in {a, b} : x >= y
  OBVIOUS
<1>2. Max({a, b}) \in {a, b} /\ Max({a, b}) >= a /\ Max({a, b}) >= b
  BY <1>1 DEF Max
<1>3. QED
  BY <1>2

\* The first values of a sequence are as many as there are, up to the number asked for.
LEMMA FirstOfFacts ==
  ASSUME NEW A, NEW s \in Seq(A), NEW n \in Nat
  PROVE  /\ FirstOf(s, n) \in Seq(A)
         /\ Len(FirstOf(s, n)) = IF n <= Len(s) THEN n ELSE Len(s)
         /\ \A i \in 1..Len(FirstOf(s, n)) : FirstOf(s, n)[i] = s[i]
         /\ IsInjective(s) => IsInjective(FirstOf(s, n))
<1>1. Len(s) \in Nat /\ DOMAIN s = 1..Len(s) /\ \A i \in 1..Len(s) : s[i] \in A
  OBVIOUS
<1>2. PICK m \in Nat : m = Min({n, Len(s)}) /\ m = IF n <= Len(s) THEN n ELSE Len(s)
  <2>1. Min({n, Len(s)}) = IF n <= Len(s) THEN n ELSE Len(s)
    BY <1>1, MinOfTwo
  <2>2. QED
    BY <1>1, <2>1
<1>3. /\ FirstOf(s, n) = SubSeq(s, 1, m) /\ SubSeq(s, 1, m) \in Seq(A)
      /\ Len(SubSeq(s, 1, m)) = m /\ DOMAIN SubSeq(s, 1, m) = 1..m
      /\ \A i \in 1..m : SubSeq(s, 1, m)[i] = s[i]
  <2>1. FirstOf(s, n) = SubSeq(s, 1, m)
    BY <1>2 DEF FirstOf
  <2>2. m \in 0..Len(s)
    BY <1>1, <1>2
  <2>3. QED
    BY <1>1, <2>1, <2>2
<1>4. IsInjective(s) => IsInjective(FirstOf(s, n))
  <2>1. 1..m \subseteq 1..Len(s)
    BY <1>1, <1>2
  <2>2. QED
    BY <1>1, <1>3, <2>1 DEF IsInjective
<1>5. QED
  BY <1>2, <1>3, <1>4

\* SetToSeq lists a finite set.
LEMMA SetToSeqFacts ==
  ASSUME NEW S, IsFiniteSet(S)
  PROVE  /\ SetToSeq(S) \in Seq(S)
         /\ S # {} => SetToSeq(S) # << >>
<1>1. Cardinality(S) \in Nat /\ ExistsBijection(1..Cardinality(S), S)
  BY FS_CardinalityType
<1>2. \E f \in [1..Cardinality(S) -> S] : IsInjective(f)
  BY <1>1 DEF ExistsBijection, Bijection, Injection
<1>3. SetToSeq(S) \in [1..Cardinality(S) -> S]
  BY <1>2 DEF SetToSeq
<1>4. S # {} => Cardinality(S) # 0
  BY FS_EmptySet
<1>5. SetToSeq(S) \in Seq(S) /\ Len(SetToSeq(S)) = Cardinality(S)
  BY <1>1, <1>3
<1>6. QED
  BY <1>4, <1>5

-----------------------------------------------------------------------------
(* The token budget.                                                       *)

\* The budget's window is split into input, output and safety, with nothing left over.
LEMMA BudgetFacts ==
  ASSUME NEW profile, NEW settings,
         profile.window \in Nat, profile.output \in Nat, settings.window \in Nat \ {0},
         settings.output \in Nat \ {0}, settings.percent \in Nat \ {0}
  PROVE  LET b == InputBudget(profile, settings) IN
         /\ DOMAIN b = {"window", "output", "safety", "input"}
         /\ b.window \in Nat /\ b.output \in Nat /\ b.safety \in Nat /\ b.input \in Nat
         /\ b.input # 0 => b.input + b.output + b.safety = b.window
<1> DEFINE w == LimitOr(profile.window, settings.window)
           out == LimitOr(profile.output, settings.output)
           quarter == Max({1, w \div 4})
           o == Min({out, quarter})
           available == w - o
           percent == Min({Max({settings.percent, 1}), 25})
           share == (available * percent) \div 100
           a == Max({1024, share})
           c == Max({1, available \div 4})
           safety == Min({a, c})
<1>1. InputBudget(profile, settings) =
        [window |-> w, output |-> o, safety |-> safety,
         input |-> IF available < 12 THEN 0 ELSE available - safety]
  BY DEF InputBudget
<1>2. w \in Nat \ {0} /\ out \in Nat \ {0}
  BY MinOfTwo DEF LimitOr
<1> HIDE DEF w, out
<1>3. w \div 4 \in Nat /\ 4 * (w \div 4) <= w
  BY <1>2
<1>4. quarter \in Nat /\ quarter <= w
  <2>1. Max({1, w \div 4}) \in {1, w \div 4}
    BY <1>3, MaxOfTwo
  <2>2. QED
    BY <1>2, <1>3, <2>1
<1> HIDE DEF quarter
<1>5. o \in Nat /\ o <= w
  BY <1>2, <1>4, MinOfTwo
<1> HIDE DEF o
<1>6. available \in Nat
  BY <1>2, <1>5
<1>7. percent \in Nat
  <2>1. Max({settings.percent, 1}) \in Nat
    BY MaxOfTwo
  <2>2. PICK m \in Nat : m = Max({settings.percent, 1})
    BY <2>1
  <2>3. percent = Min({m, 25})
    BY <2>2
  <2>4. Min({m, 25}) \in Nat
    BY MinOfTwo
  <2>5. QED
    BY <2>3, <2>4
<1> HIDE DEF available, percent
<1>8. share \in Int
  <2>1. available * percent \in Int
    BY <1>6, <1>7
  <2>2. QED
    BY <2>1
<1> HIDE DEF share
<1>9. a \in Nat
  BY <1>8, MaxOfTwo
<1>10. c \in Nat /\ (available >= 12 => c <= available)
  <2>1. available \div 4 \in Nat /\ 4 * (available \div 4) <= available
    BY <1>6
  <2>2. Max({1, available \div 4}) \in {1, available \div 4}
    BY <2>1, MaxOfTwo
  <2>3. QED
    BY <1>6, <2>1, <2>2
<1> HIDE DEF a, c
<1>11. safety \in Nat /\ safety <= c
  BY <1>9, <1>10, MinOfTwo
<1> HIDE DEF safety
<1>12. available >= 12 => available - safety \in Nat
  BY <1>6, <1>10, <1>11
<1>13. available + o = w
  BY <1>2, <1>5 DEF available
<1>14. QED
  BY <1>1, <1>2, <1>5, <1>6, <1>11, <1>12, <1>13

-----------------------------------------------------------------------------
(* Selections: what is selected of them, and how much.                     *)

\* A selection has a number of parts.
LEMMA PartsAreCounted == \A d \in Selection : Len(d.parts) \in Nat
<1>1. ASSUME NEW d \in Selection PROVE Len(d.parts) \in Nat
  <2>1. d.parts \in Seq(1..MaxPart)
    BY DEF Selection
  <2>2. QED
    BY <2>1
<1>2. QED
  BY <1>1

\* The running count of parts.
LEMMA Counting ==
  ASSUME NEW ds \in Seq(Selection)
  PROVE  \E r \in [0..Len(ds) -> Nat] :
           /\ r[0] = 0 /\ r[Len(ds)] = PartCount(ds)
           /\ \A k \in 1..Len(ds) : r[k] = r[k - 1] + Len(ds[k].parts)
<1>1. PICK r \in [0..Len(ds) -> Nat] : r[Len(ds)] = PartCount(ds) /\ Trail(r, CountStep, 0, ds)
  BY PartCountTrail
<1>2. ASSUME NEW k \in 1..Len(ds) PROVE r[k] = r[k - 1] + Len(ds[k].parts)
  <2>1. k - 1 \in 0..Len(ds) /\ ds[k] \in Selection
    OBVIOUS
  <2>2. QED
    BY <1>1, <2>1 DEF Trail, CountStep
<1>3. QED
  BY <1>1, <1>2 DEF Trail

\* Where each document has as many parts, but one of them extra parts.
LEMMA CountsCompare ==
  ASSUME NEW ds \in Seq(Selection), NEW es \in Seq(Selection), Len(es) = Len(ds)
  PROVE  /\ (\A i \in 1..Len(ds) : Len(ds[i].parts) <= Len(es[i].parts))
              => PartCount(ds) <= PartCount(es)
         /\ \A m \in 1..Len(ds) :
              /\ Len(es[m].parts) = Len(ds[m].parts) + 1
              /\ \A i \in 1..Len(ds) : i # m => Len(es[i].parts) = Len(ds[i].parts)
              => PartCount(es) = PartCount(ds) + 1
<1>1. Len(ds) \in Nat
  OBVIOUS
<1>2. PICK r \in [0..Len(ds) -> Nat] :
           /\ r[0] = 0 /\ r[Len(ds)] = PartCount(ds)
           /\ \A k \in 1..Len(ds) : r[k] = r[k - 1] + Len(ds[k].parts)
  BY Counting
<1>3. PICK q \in [0..Len(ds) -> Nat] :
           /\ q[0] = 0 /\ q[Len(ds)] = PartCount(es)
           /\ \A k \in 1..Len(ds) : q[k] = q[k - 1] + Len(es[k].parts)
  BY Counting
<1>4. \A k \in 1..Len(ds) :
        /\ k - 1 \in 0..Len(ds) /\ k \in 0..Len(ds)
        /\ Len(ds[k].parts) \in Nat /\ Len(es[k].parts) \in Nat
  BY PartsAreCounted
<1>5. ASSUME \A i \in 1..Len(ds) : Len(ds[i].parts) <= Len(es[i].parts)
      PROVE  PartCount(ds) <= PartCount(es)
  <2> DEFINE K == {k \in 0..Len(ds) : r[k] <= q[k]}
  <2>1. 0 \in K
    BY <1>1, <1>2, <1>3
  <2>2. ASSUME NEW k \in 1..Len(ds), k - 1 \in K PROVE k \in K
    <3>1. /\ r[k] = r[k - 1] + Len(ds[k].parts) /\ q[k] = q[k - 1] + Len(es[k].parts)
          /\ Len(ds[k].parts) <= Len(es[k].parts) /\ r[k - 1] <= q[k - 1]
      BY <1>2, <1>3, <1>5, <2>2
    <3>2. r[k - 1] \in Nat /\ q[k - 1] \in Nat
      BY <1>4
    <3>3. QED
      BY <1>4, <3>1, <3>2
  <2>3. \A k \in 0..Len(ds) : k \in K
    <3> HIDE DEF K
    <3>1. QED
      BY <1>1, <2>1, <2>2, AllIndices
  <2>4. QED
    BY <1>1, <1>2, <1>3, <2>3
<1>6. ASSUME NEW m \in 1..Len(ds),
             Len(es[m].parts) = Len(ds[m].parts) + 1,
             \A i \in 1..Len(ds) : i # m => Len(es[i].parts) = Len(ds[i].parts)
      PROVE  PartCount(es) = PartCount(ds) + 1
  <2> DEFINE K == {k \in 0..Len(ds) : q[k] = IF k < m THEN r[k] ELSE r[k] + 1}
  <2>1. 0 \in K
    BY <1>1, <1>2, <1>3
  <2>2. ASSUME NEW k \in 1..Len(ds), k - 1 \in K PROVE k \in K
    <3>1. /\ r[k] = r[k - 1] + Len(ds[k].parts) /\ q[k] = q[k - 1] + Len(es[k].parts)
          /\ Len(es[k].parts) = IF k = m THEN Len(ds[k].parts) + 1 ELSE Len(ds[k].parts)
          /\ q[k - 1] = IF k - 1 < m THEN r[k - 1] ELSE r[k - 1] + 1
      BY <1>2, <1>3, <1>6, <2>2
    <3>2. r[k - 1] \in Nat /\ q[k - 1] \in Nat
      BY <1>4
    <3>3. QED
      BY <1>4, <3>1, <3>2
  <2>3. \A k \in 0..Len(ds) : k \in K
    <3> HIDE DEF K
    <3>1. QED
      BY <1>1, <2>1, <2>2, AllIndices
  <2>4. Len(ds) \in K
    BY <1>1, <2>3
  <2>5. QED
    BY <1>1, <1>2, <1>3, <2>4
<1>7. QED
  BY <1>5, <1>6

\* One more document adds its parts to the count.
LEMMA CountAppend ==
  ASSUME NEW ds \in Seq(Selection), NEW d \in Selection
  PROVE  PartCount(Append(ds, d)) = PartCount(ds) + Len(d.parts)
<1>1. PICK r \in [0..Len(ds) -> Nat] : r[Len(ds)] = PartCount(ds) /\ Trail(r, CountStep, 0, ds)
  BY PartCountTrail
<1>2. Append(ds, d) \in Seq(Selection) /\ Len(Append(ds, d)) = Len(ds) + 1 /\ Len(ds) \in Nat
  OBVIOUS
<1>3. PICK q \in [0..Len(Append(ds, d)) -> Nat] :
        q[Len(Append(ds, d))] = PartCount(Append(ds, d)) /\ Trail(q, CountStep, 0, Append(ds, d))
  BY <1>2, PartCountTrail
<1>4. q[Len(ds)] = r[Len(ds)]
  <2>1. Trail(r, CountStep, 0, ds) /\ Trail(q, CountStep, 0, Append(ds, d))
    BY <1>1, <1>3
  <2> HIDE DEF CountStep
  <2>2. QED
    BY <2>1, TrailAppend
<1>5. r[Len(ds)] \in Nat
  BY <1>2
<1>6. q[Len(ds) + 1] = CountStep[<<r[Len(ds)], d>>]
  <2>1. Append(ds, d)[Len(ds) + 1] = d /\ Len(ds) + 1 \in 1..(Len(ds) + 1)
        /\ (Len(ds) + 1) - 1 = Len(ds)
    BY <1>2
  <2>2. QED
    BY <1>2, <1>3, <1>4, <2>1 DEF Trail
<1>7. QED
  BY <1>1, <1>2, <1>3, <1>5, <1>6 DEF CountStep

\* What each selection of a sequence is.
LEMMA WithinFacts ==
  ASSUME NEW W, NEW ds \in Seq(Within(W))
  PROVE  /\ Len(ds) \in Nat /\ DOMAIN ds = 1..Len(ds) /\ ds \in Seq(Selection)
         /\ \A i \in 1..Len(ds) :
              /\ ds[i] \in Within(W) /\ ds[i] \in Selection /\ ds[i].doc \in Document
              /\ ds[i].parts \in Seq(1..MaxPart) /\ IsInjective(ds[i].parts)
              /\ Len(ds[i].parts) \in Nat /\ DOMAIN ds[i].parts = 1..Len(ds[i].parts)
              /\ \A j \in 1..Len(ds[i].parts) :
                   ds[i].parts[j] \in 1..MaxPart /\ <<ds[i].doc, ds[i].parts[j]>> \in W
<1>1. Len(ds) \in Nat /\ DOMAIN ds = 1..Len(ds) /\ \A i \in 1..Len(ds) : ds[i] \in Within(W)
  OBVIOUS
<1>2. ASSUME NEW d \in Within(W)
      PROVE  /\ d \in Selection /\ d.doc \in Document
             /\ d.parts \in Seq(1..MaxPart) /\ IsInjective(d.parts)
             /\ Len(d.parts) \in Nat /\ DOMAIN d.parts = 1..Len(d.parts)
             /\ \A j \in 1..Len(d.parts) :
                  d.parts[j] \in 1..MaxPart /\ <<d.doc, d.parts[j]>> \in W
  <2>1. /\ d \in Selection /\ d.doc \in Document /\ d.parts \in Seq(1..MaxPart)
        /\ IsInjective(d.parts) /\ \A i \in DOMAIN d.parts : <<d.doc, d.parts[i]>> \in W
    BY DEF Within, Selection
  <2>2. Len(d.parts) \in Nat /\ DOMAIN d.parts = 1..Len(d.parts)
        /\ \A j \in 1..Len(d.parts) : d.parts[j] \in 1..MaxPart
    BY <2>1, SeqFacts
  <2>3. QED
    BY <2>1, <2>2
<1>3. \A i \in 1..Len(ds) : ds[i] \in Selection
  BY <1>1, <1>2
<1>4. ds \in Seq(Selection)
  BY <1>1, <1>3
<1>5. QED
  BY <1>1, <1>2, <1>4

\* What is within a set of parts is within a larger one.
LEMMA WithinMore ==
  ASSUME NEW W, NEW X, W \subseteq X, NEW ds \in Seq(Within(W))
  PROVE  ds \in Seq(Within(X))
<1>1. Within(W) \subseteq Within(X)
  BY DEF Within
<1>2. QED
  BY <1>1

\* What is selected are the parts of the selections, and they are of W.
LEMMA SelectedIs ==
  ASSUME NEW W, NEW ds \in Seq(Within(W))
  PROVE  /\ \A i \in 1..Len(ds) : \A j \in 1..Len(ds[i].parts) :
              <<ds[i].doc, ds[i].parts[j]>> \in Selected(ds)
         /\ \A p \in Selected(ds) : \E i \in 1..Len(ds) : \E j \in 1..Len(ds[i].parts) :
              p = <<ds[i].doc, ds[i].parts[j]>>
         /\ Selected(ds) \subseteq W
<1>1. DOMAIN ds = 1..Len(ds) /\ \A i \in 1..Len(ds) : DOMAIN ds[i].parts = 1..Len(ds[i].parts)
  BY WithinFacts
<1>2. \A i \in 1..Len(ds) : ToSet(ds[i].parts) = {ds[i].parts[j] : j \in 1..Len(ds[i].parts)}
  BY <1>1 DEF ToSet
<1>3. ASSUME NEW i \in 1..Len(ds), NEW j \in 1..Len(ds[i].parts)
      PROVE  <<ds[i].doc, ds[i].parts[j]>> \in Selected(ds)
  <2>1. <<ds[i].doc, ds[i].parts[j]>> \in {<<ds[i].doc, p>> : p \in ToSet(ds[i].parts)}
    BY <1>2
  <2>2. QED
    BY <1>1, <2>1 DEF Selected
<1>4. ASSUME NEW p \in Selected(ds)
      PROVE  \E i \in 1..Len(ds) : \E j \in 1..Len(ds[i].parts) : p = <<ds[i].doc, ds[i].parts[j]>>
  <2>1. PICK i \in 1..Len(ds) : p \in {<<ds[i].doc, q>> : q \in ToSet(ds[i].parts)}
    BY <1>1 DEF Selected
  <2>2. PICK q \in ToSet(ds[i].parts) : p = <<ds[i].doc, q>>
    BY <2>1
  <2>3. PICK j \in 1..Len(ds[i].parts) : q = ds[i].parts[j]
    BY <1>2, <2>2
  <2>4. QED
    BY <2>2, <2>3
<1>5. Selected(ds) \subseteq W
  BY <1>4, WithinFacts
<1>6. QED
  BY <1>3, <1>4, <1>5

\* The values of a sequence without repetition are as many as it is long.
LEMMA ValuesCounted ==
  ASSUME NEW n \in Nat, NEW S, NEW f \in [1..n -> S],
         \A i, j \in 1..n : f[i] = f[j] => i = j, \A x \in S : \E i \in 1..n : x = f[i]
  PROVE  IsFiniteSet(S) /\ Cardinality(S) = n
<1>1. f \in Bijection(1..n, S)
  BY DEF Bijection, Injection, Surjection, IsInjective
<1>2. IsFiniteSet(1..n) /\ Cardinality(1..n) = n
  BY FS_Interval
<1>3. ExistsBijection(1..n, S)
  BY <1>1 DEF ExistsBijection
<1>4. QED
  BY <1>2, <1>3, FS_Bijection

\* Selected documents are as many as the selection is long.
LEMMA DocumentsCounted ==
  ASSUME NEW W, NEW ds \in Seq(Within(W)), OneEach(ds)
  PROVE  Cardinality(Documents(ds)) = Len(ds)
<1>1. Len(ds) \in Nat /\ DOMAIN ds = 1..Len(ds)
  BY WithinFacts
<1> DEFINE f == [i \in 1..Len(ds) |-> ds[i].doc]
<1>2. f \in [1..Len(ds) -> Documents(ds)]
  BY <1>1 DEF Documents
<1>3. \A i, j \in 1..Len(ds) : f[i] = f[j] => i = j
  BY <1>1 DEF OneEach
<1>4. \A x \in Documents(ds) : \E i \in 1..Len(ds) : x = f[i]
  BY <1>1 DEF Documents
<1> HIDE DEF f
<1>5. QED
  BY <1>1, <1>2, <1>3, <1>4, ValuesCounted

\* Selected parts are as many as the selections have together.
LEMMA SelectedCounted ==
  ASSUME NEW W, NEW ds \in Seq(Within(W)), OneEach(ds)
  PROVE  IsFiniteSet(Selected(ds)) /\ Cardinality(Selected(ds)) = PartCount(ds)
<1>1. /\ Len(ds) \in Nat /\ DOMAIN ds = 1..Len(ds) /\ ds \in Seq(Selection)
      /\ \A i \in 1..Len(ds) :
           Len(ds[i].parts) \in Nat /\ DOMAIN ds[i].parts = 1..Len(ds[i].parts)
           /\ IsInjective(ds[i].parts)
  BY WithinFacts
<1>2. PICK r \in [0..Len(ds) -> Nat] :
        /\ r[0] = 0 /\ r[Len(ds)] = PartCount(ds)
        /\ \A k \in 1..Len(ds) : r[k] = r[k - 1] + Len(ds[k].parts)
  BY <1>1, Counting
<1> DEFINE Of(i) == {<<ds[i].doc, ds[i].parts[j]>> : j \in 1..Len(ds[i].parts)}
           Upto(k) == UNION {Of(i) : i \in 1..k}
           K == {k \in 0..Len(ds) : IsFiniteSet(Upto(k)) /\ Cardinality(Upto(k)) = r[k]}
<1>3. ASSUME NEW i \in 1..Len(ds)
      PROVE  IsFiniteSet(Of(i)) /\ Cardinality(Of(i)) = Len(ds[i].parts)
  <2> DEFINE n == Len(ds[i].parts)
             f == [j \in 1..n |-> <<ds[i].doc, ds[i].parts[j]>>]
  <2>1. n \in Nat
    BY <1>1
  <2>2. f \in [1..n -> Of(i)] /\ \A x \in Of(i) : \E j \in 1..n : x = f[j]
    OBVIOUS
  <2>3. \A j, k \in 1..n : f[j] = f[k] => j = k
    BY <1>1 DEF IsInjective
  <2> DEFINE S == Of(i)
  <2>4. f \in [1..n -> S] /\ \A x \in S : \E j \in 1..n : x = f[j]
    BY <2>2
  <2> HIDE DEF f, n, S
  <2>5. IsFiniteSet(S) /\ Cardinality(S) = n
    BY <2>1, <2>3, <2>4, ValuesCounted
  <2>6. QED
    BY <2>5 DEF S, n
<1>4. 0 \in K
  <2>1. Upto(0) = {}
    OBVIOUS
  <2>2. 0 \in 0..Len(ds) /\ r[0] = 0
    BY <1>1, <1>2
  <2> HIDE DEF Upto
  <2>3. QED
    BY <2>1, <2>2, FS_EmptySet
<1>5. ASSUME NEW k \in 1..Len(ds), k - 1 \in K PROVE k \in K
  <2>1. k \in 0..Len(ds) /\ k - 1 \in 0..Len(ds)
    BY <1>1
  <2>2. Upto(k) = Upto(k - 1) \union Of(k)
    <3>1. \A i \in 1..k : i \in 1..(k - 1) \/ i = k
      BY <2>1
    <3>2. 1..(k - 1) \subseteq 1..k /\ k \in 1..k
      BY <2>1
    <3> HIDE DEF Of
    <3>3. QED
      BY <3>1, <3>2
  <2>3. Upto(k - 1) \intersect Of(k) = {}
    <3>1. \A i \in 1..(k - 1) : i \in 1..Len(ds) /\ i # k
      BY <1>1
    <3>2. \A i \in 1..(k - 1) : ds[i].doc # ds[k].doc
      BY <1>1, <3>1 DEF OneEach
    <3>3. \A i \in 1..(k - 1) : Of(i) \intersect Of(k) = {}
      BY <3>2
    <3> HIDE DEF Of
    <3>4. QED
      BY <3>3
  <2>4. /\ IsFiniteSet(Upto(k - 1)) /\ Cardinality(Upto(k - 1)) = r[k - 1]
        /\ IsFiniteSet(Of(k)) /\ Cardinality(Of(k)) = Len(ds[k].parts)
    BY <1>3, <1>5
  <2> HIDE DEF Upto, Of
  <2>5. /\ IsFiniteSet(Upto(k))
        /\ Cardinality(Upto(k)) = r[k - 1] + Len(ds[k].parts)
    <3>1. Cardinality(Upto(k - 1) \intersect Of(k)) = 0
      BY <2>3, FS_EmptySet
    <3>2. r[k - 1] \in Nat /\ Len(ds[k].parts) \in Nat
      BY <1>1, <2>1
    <3>3. /\ IsFiniteSet(Upto(k - 1) \union Of(k))
          /\ Cardinality(Upto(k - 1) \union Of(k))
               = Cardinality(Upto(k - 1)) + Cardinality(Of(k)) - Cardinality(Upto(k - 1) \intersect Of(k))
      BY <2>4, FS_Union
    <3>4. QED
      BY <2>2, <2>4, <3>1, <3>2, <3>3
  <2>6. r[k] = r[k - 1] + Len(ds[k].parts) /\ r[k] \in Nat
    BY <1>2, <2>1
  <2>7. r[k - 1] \in Nat /\ Len(ds[k].parts) \in Nat
    BY <1>1, <2>1
  <2>8. Cardinality(Upto(k)) = r[k]
    BY <2>5, <2>6, <2>7
  <2>9. QED
    BY <2>1, <2>5, <2>8
<1>6. \A k \in 0..Len(ds) : k \in K
  <2> HIDE DEF K
  <2>1. QED
    BY <1>1, <1>4, <1>5, AllIndices
<1>7. Upto(Len(ds)) = Selected(ds)
  <2>1. \A p : p \in Upto(Len(ds)) <=>
               \E i \in 1..Len(ds) : \E j \in 1..Len(ds[i].parts) : p = <<ds[i].doc, ds[i].parts[j]>>
    BY SMTT(30)
  <2> HIDE DEF Upto, Of
  <2>2. /\ \A i \in 1..Len(ds) : \A j \in 1..Len(ds[i].parts) :
             <<ds[i].doc, ds[i].parts[j]>> \in Selected(ds)
        /\ \A p \in Selected(ds) : \E i \in 1..Len(ds) : \E j \in 1..Len(ds[i].parts) :
             p = <<ds[i].doc, ds[i].parts[j]>>
    BY SelectedIs
  <2>3. ASSUME NEW p \in Upto(Len(ds)) PROVE p \in Selected(ds)
    <3>1. PICK i \in 1..Len(ds) : \E j \in 1..Len(ds[i].parts) : p = <<ds[i].doc, ds[i].parts[j]>>
      BY <2>1
    <3>2. PICK j \in 1..Len(ds[i].parts) : p = <<ds[i].doc, ds[i].parts[j]>>
      BY <3>1
    <3>3. QED
      BY <2>2, <3>1, <3>2
  <2>4. ASSUME NEW p \in Selected(ds) PROVE p \in Upto(Len(ds))
    <3>1. PICK i \in 1..Len(ds) : \E j \in 1..Len(ds[i].parts) : p = <<ds[i].doc, ds[i].parts[j]>>
      BY <2>2
    <3>2. PICK j \in 1..Len(ds[i].parts) : p = <<ds[i].doc, ds[i].parts[j]>>
      BY <3>1
    <3>3. QED
      BY <2>1, <3>1, <3>2
  <2>5. QED
    BY <2>3, <2>4
<1>8. IsFiniteSet(Upto(Len(ds))) /\ Cardinality(Upto(Len(ds))) = r[Len(ds)]
  <2> HIDE DEF Upto
  <2>1. Len(ds) \in K
    BY <1>1, <1>6
  <2>2. QED
    BY <2>1
<1> HIDE DEF Upto
<1>9. QED
  BY <1>2, <1>7, <1>8

\* The values of two sequences joined, and where they stand.
LEMMA JoinFacts ==
  ASSUME NEW A, NEW s \in Seq(A), NEW t \in Seq(A)
  PROVE  /\ s \o t \in Seq(A) /\ ToSet(s \o t) = ToSet(s) \union ToSet(t)
         /\ Len(s \o t) = Len(s) + Len(t)
         /\ \A i \in 1..Len(s \o t) :
              \/ i \in 1..Len(s) /\ (s \o t)[i] = s[i]
              \/ i - Len(s) \in 1..Len(t) /\ (s \o t)[i] = t[i - Len(s)]
<1>1. /\ Len(s) \in Nat /\ Len(t) \in Nat /\ DOMAIN s = 1..Len(s) /\ DOMAIN t = 1..Len(t)
      /\ s \o t \in Seq(A) /\ Len(s \o t) = Len(s) + Len(t) /\ DOMAIN (s \o t) = 1..(Len(s) + Len(t))
      /\ \A i \in 1..(Len(s) + Len(t)) :
           (s \o t)[i] = IF i <= Len(s) THEN s[i] ELSE t[i - Len(s)]
  OBVIOUS
<1>2. \A i \in 1..(Len(s) + Len(t)) : IF i <= Len(s) THEN i \in 1..Len(s) ELSE i - Len(s) \in 1..Len(t)
  BY <1>1
<1>3. \A i \in 1..Len(s \o t) :
        \/ i \in 1..Len(s) /\ (s \o t)[i] = s[i]
        \/ i - Len(s) \in 1..Len(t) /\ (s \o t)[i] = t[i - Len(s)]
  BY <1>1, <1>2
<1>4. ToSet(s \o t) \subseteq ToSet(s) \union ToSet(t)
  BY <1>1, <1>3 DEF ToSet
<1>5. ToSet(s) \subseteq ToSet(s \o t)
  <2>1. \A i \in 1..Len(s) : i \in 1..(Len(s) + Len(t)) /\ (s \o t)[i] = s[i]
    BY <1>1
  <2>2. QED
    BY <1>1, <2>1 DEF ToSet
<1>6. ToSet(t) \subseteq ToSet(s \o t)
  <2>1. \A i \in 1..Len(t) : /\ Len(s) + i \in 1..(Len(s) + Len(t)) /\ ~(Len(s) + i <= Len(s))
                             /\ (Len(s) + i) - Len(s) = i
    BY <1>1
  <2>2. \A i \in 1..Len(t) : (s \o t)[Len(s) + i] = t[i]
    BY <1>1, <2>1
  <2>3. QED
    BY <1>1, <2>1, <2>2 DEF ToSet
<1>7. QED
  BY <1>1, <1>3, <1>4, <1>5, <1>6

\* A document with distinct parts of W is a selection within W.
LEMMA Drawn ==
  ASSUME NEW W, NEW d \in Document, NEW s \in Seq(1..MaxPart), IsInjective(s),
         \A p \in ToSet(s) : <<d, p>> \in W
  PROVE  [doc |-> d, parts |-> s] \in Within(W)
<1>1. \A i \in DOMAIN s : s[i] \in ToSet(s)
  BY DEF ToSet
<1>2. QED
  BY <1>1 DEF Within, Selection

\* A selection with other parts.
LEMMA WithParts ==
  ASSUME NEW d \in Selection, NEW s
  PROVE  [d EXCEPT !.parts = s] = [doc |-> d.doc, parts |-> s]
  BY DEF Selection

\* A document not selected yet may be added.
LEMMA OneEachAppend ==
  ASSUME NEW A, NEW ds \in Seq(A), NEW d \in A, OneEach(ds), \A i \in DOMAIN ds : ds[i].doc # d.doc
  PROVE  OneEach(Append(ds, d))
<1>1. /\ Len(ds) \in Nat /\ DOMAIN ds = 1..Len(ds) /\ DOMAIN Append(ds, d) = 1..(Len(ds) + 1)
      /\ Append(ds, d)[Len(ds) + 1] = d /\ \A i \in 1..Len(ds) : Append(ds, d)[i] = ds[i]
  OBVIOUS
<1>2. \A i \in 1..(Len(ds) + 1) : i \in 1..Len(ds) \/ i = Len(ds) + 1
  BY <1>1
<1>3. QED
  BY <1>1, <1>2 DEF OneEach

\* One selection of the model keeps the whitelist and names no document twice.
LEMMA AcceptFacts ==
  ASSUME NEW W, NEW ds \in Seq(Within(W)), OneEach(ds), NEW d \in Document,
         NEW parts \in Seq(1..MaxPart), NEW whitelist,
         \A p \in whitelist \intersect (1..MaxPart) : <<d, p>> \in W
  PROVE  LET es == Accept(ds, d, parts, whitelist) IN
         /\ es \in Seq(Within(W)) /\ OneEach(es)
         /\ \A i \in DOMAIN es : es[i].doc = d \/ \E j \in DOMAIN ds : es[i].doc = ds[j].doc
<1> DEFINE valid == Distinct(Only(parts, whitelist))
           there == {i \in DOMAIN ds : ds[i].doc = d}
           es == Accept(ds, d, parts, whitelist)
           new == [doc |-> d, parts |-> valid]
<1>1. /\ valid \in Seq(1..MaxPart) /\ IsInjective(valid)
      /\ \A p \in ToSet(valid) : p \in 1..MaxPart /\ <<d, p>> \in W
  <2>1. /\ Only(parts, whitelist) \in Seq(1..MaxPart)
        /\ ToSet(Only(parts, whitelist)) = ToSet(parts) \intersect whitelist
    BY OnlyFacts
  <2>2. /\ valid \in Seq(1..MaxPart) /\ IsInjective(valid)
        /\ ToSet(valid) = ToSet(Only(parts, whitelist))
    BY <2>1, DistinctFacts
  <2>3. ToSet(parts) \subseteq 1..MaxPart
    <3>1. DOMAIN parts = 1..Len(parts) /\ \A i \in 1..Len(parts) : parts[i] \in 1..MaxPart
      BY SeqFacts
    <3>2. QED
      BY <3>1 DEF ToSet
  <2> HIDE DEF valid
  <2>4. QED
    BY <2>1, <2>2, <2>3
<1>2. /\ Len(ds) \in Nat /\ DOMAIN ds = 1..Len(ds) /\ ds \in Seq(Selection)
      /\ \A i \in 1..Len(ds) :
           /\ ds[i] \in Within(W) /\ ds[i] \in Selection /\ ds[i].doc \in Document
           /\ ds[i].parts \in Seq(1..MaxPart) /\ IsInjective(ds[i].parts)
           /\ DOMAIN ds[i].parts = 1..Len(ds[i].parts)
           /\ \A j \in 1..Len(ds[i].parts) : <<ds[i].doc, ds[i].parts[j]>> \in W
  BY WithinFacts
<1>3. es = IF there = {} THEN Append(ds, new)
           ELSE [i \in DOMAIN ds |-> IF i \in there
                   THEN [ds[i] EXCEPT !.parts = Distinct(@ \o valid)] ELSE ds[i]]
  BY DEF Accept
<1> HIDE DEF valid, es
<1>4. CASE there = {}
  <2>1. new \in Within(W)
    BY <1>1, Drawn
  <2>2. \A i \in DOMAIN ds : ds[i].doc # new.doc
    BY <1>4
  <2>3. es = Append(ds, new)
    BY <1>3, <1>4
  <2> HIDE DEF new, there
  <2>4. es \in Seq(Within(W)) /\ OneEach(es)
    BY <2>1, <2>2, <2>3, OneEachAppend
  <2>5. \A i \in DOMAIN es : es[i] = new \/ \E j \in DOMAIN ds : es[i] = ds[j]
    BY <2>1, <2>3
  <2>6. new.doc = d
    BY DEF new
  <2>7. QED
    BY <2>4, <2>5, <2>6 DEF es
<1>5. CASE there # {}
  <2>1. ASSUME NEW i \in 1..Len(ds)
        PROVE  es[i] \in Within(W) /\ es[i].doc = ds[i].doc
    <3>1. CASE i \in there
      <4> DEFINE joined == Distinct(ds[i].parts \o valid)
      <4>1. ds[i].parts \o valid \in Seq(1..MaxPart)
        BY <1>1, <1>2
      <4>2. \A p \in ToSet(ds[i].parts \o valid) : <<d, p>> \in W
        <5>1. \A p \in ToSet(ds[i].parts \o valid) : p \in ToSet(ds[i].parts) \/ p \in ToSet(valid)
          BY <1>1, <1>2, JoinFacts
        <5>2. \A p \in ToSet(ds[i].parts) : <<d, p>> \in W
          BY <1>2, <3>1 DEF ToSet
        <5>3. QED
          BY <1>1, <5>1, <5>2
      <4>3. joined \in Seq(1..MaxPart) /\ IsInjective(joined) /\ \A p \in ToSet(joined) : <<d, p>> \in W
        BY <4>1, <4>2, DistinctFacts
      <4>4. es[i] = [ds[i] EXCEPT !.parts = joined]
        BY <1>2, <1>3, <1>5, <3>1
      <4> HIDE DEF joined
      <4>5. es[i] = [doc |-> ds[i].doc, parts |-> joined]
        BY <1>2, <4>4, WithParts
      <4>6. ds[i].doc = d
        BY <3>1
      <4>7. QED
        BY <4>3, <4>5, <4>6, Drawn
    <3>2. CASE i \notin there
      BY <1>2, <1>3, <1>5, <3>2
    <3>3. QED
      BY <3>1, <3>2
  <2>2. es = [i \in 1..Len(ds) |-> es[i]]
    <3>1. es = [i \in 1..Len(ds) |-> IF i \in there
                   THEN [ds[i] EXCEPT !.parts = Distinct(@ \o valid)] ELSE ds[i]]
      BY <1>2, <1>3, <1>5
    <3>2. QED
      BY <3>1
  <2>3. DOMAIN es = 1..Len(ds)
    BY <2>2
  <2>4. es \in Seq(Within(W))
    BY <1>2, <2>1, <2>2
  <2>5. OneEach(es)
    BY <1>2, <2>1, <2>3 DEF OneEach
  <2>6. QED
    BY <1>2, <2>1, <2>3, <2>4, <2>5 DEF es
<1>6. QED
  BY <1>4, <1>5

\* A part that is not selected yet is added to the selection, and nothing else.
LEMMA AddPartFacts ==
  ASSUME NEW W, NEW ds \in Seq(Within(W)), OneEach(ds), NEW c \in W, c \notin Selected(ds),
         W \subseteq Part
  PROVE  LET es == AddPart(ds, c) IN
         /\ es \in Seq(Within(W)) /\ OneEach(es)
         /\ Selected(es) = Selected(ds) \union {c}
         /\ Documents(es) = Documents(ds) \union {c[1]}
         /\ PartCount(es) = PartCount(ds) + 1
         /\ Len(es) = IF c[1] \in Documents(ds) THEN Len(ds) ELSE Len(ds) + 1
<1> DEFINE there == {i \in DOMAIN ds : ds[i].doc = c[1]}
           es == AddPart(ds, c)
           new == [doc |-> c[1], parts |-> <<c[2]>>]
<1>1. c[1] \in Document /\ c[2] \in 1..MaxPart /\ c = <<c[1], c[2]>>
  BY DEF Part
<1>2. /\ Len(ds) \in Nat /\ DOMAIN ds = 1..Len(ds) /\ ds \in Seq(Selection)
      /\ \A i \in 1..Len(ds) :
           /\ ds[i] \in Within(W) /\ ds[i] \in Selection /\ ds[i].doc \in Document
           /\ ds[i].parts \in Seq(1..MaxPart) /\ IsInjective(ds[i].parts)
           /\ Len(ds[i].parts) \in Nat /\ DOMAIN ds[i].parts = 1..Len(ds[i].parts)
           /\ \A j \in 1..Len(ds[i].parts) : <<ds[i].doc, ds[i].parts[j]>> \in W
  BY WithinFacts
<1>3. es = IF there = {} THEN Append(ds, new)
           ELSE [i \in DOMAIN ds |-> IF i \in there
                   THEN [ds[i] EXCEPT !.parts = Append(@, c[2])] ELSE ds[i]]
  BY DEF AddPart
<1>4. \A i \in 1..Len(ds) : \A j \in 1..Len(ds[i].parts) :
        <<ds[i].doc, ds[i].parts[j]>> \in Selected(ds)
  BY SelectedIs
<1> HIDE DEF es
<1>5. CASE there = {}
  <2>1. /\ new \in Within(W) /\ new.doc = c[1] /\ Len(new.parts) = 1 /\ new.parts[1] = c[2]
        /\ new \in Selection
    <3>1. <<c[2]>> \in Seq(1..MaxPart) /\ IsInjective(<<c[2]>>)
      BY <1>1 DEF IsInjective
    <3>2. ToSet(<<c[2]>>) = {c[2]}
      BY DEF ToSet
    <3>3. new \in Within(W)
      BY <1>1, <3>1, <3>2, Drawn
    <3>4. new \in Selection
      BY <3>3 DEF Within
    <3>5. QED
      BY <3>3, <3>4
  <2>2. \A i \in DOMAIN ds : ds[i].doc # new.doc
    BY <1>5
  <2>3. es = Append(ds, new)
    BY <1>3, <1>5
  <2> HIDE DEF new, there
  <2>4. es \in Seq(Within(W)) /\ OneEach(es)
    BY <2>1, <2>2, <2>3, OneEachAppend
  <2>5. /\ Len(es) = Len(ds) + 1 /\ es[Len(ds) + 1] = new /\ \A i \in 1..Len(ds) : es[i] = ds[i]
        /\ DOMAIN es = 1..(Len(ds) + 1)
    BY <2>1, <2>3, <1>2
  <2>6. \A i \in 1..(Len(ds) + 1) : i \in 1..Len(ds) \/ i = Len(ds) + 1
    BY <1>2
  <2>6a. 1..Len(ds) \subseteq 1..(Len(ds) + 1) /\ Len(ds) + 1 \in 1..(Len(ds) + 1)
    BY <1>2
  <2>7. Documents(es) = Documents(ds) \union {c[1]}
    <3>1. Documents(es) = {es[i].doc : i \in 1..(Len(ds) + 1)}
          /\ Documents(ds) = {ds[i].doc : i \in 1..Len(ds)}
      BY <1>2, <2>5 DEF Documents
    <3>2. \A i \in 1..(Len(ds) + 1) : (i \in 1..Len(ds) /\ es[i].doc = ds[i].doc) \/ es[i].doc = c[1]
      BY <2>1, <2>5, <2>6
    <3>3. \A i \in 1..Len(ds) : i \in 1..(Len(ds) + 1) /\ ds[i].doc = es[i].doc
      BY <2>5, <2>6a
    <3>4. Len(ds) + 1 \in 1..(Len(ds) + 1) /\ es[Len(ds) + 1].doc = c[1]
      BY <2>1, <2>5, <2>6a
    <3>5. QED
      BY <3>1, <3>2, <3>3, <3>4
  <2>8. c[1] \notin Documents(ds)
    BY <2>1, <2>2 DEF Documents
  <2>9. PartCount(es) = PartCount(ds) + 1
    BY <1>2, <2>1, <2>3, CountAppend
  <2>10. Selected(es) = Selected(ds) \union {c}
    <3>1. ASSUME NEW p \in Selected(es) PROVE p \in Selected(ds) \union {c}
      <4>1. PICK i \in 1..Len(es) : \E j \in 1..Len(es[i].parts) : p = <<es[i].doc, es[i].parts[j]>>
        BY <2>4, <3>1, SelectedIs, SMTT(30)
      <4>2. PICK j \in 1..Len(es[i].parts) : p = <<es[i].doc, es[i].parts[j]>>
        BY <4>1
      <4>3. CASE i \in 1..Len(ds)
        BY <1>4, <2>5, <4>2, <4>3
      <4>4. CASE i = Len(ds) + 1
        <5>1. p = <<c[1], new.parts[j]>> /\ j \in 1..1
          BY <2>1, <2>5, <4>2, <4>4
        <5>2. p = <<c[1], c[2]>>
          BY <2>1, <5>1
        <5>3. QED
          BY <1>1, <5>2
      <4>5. QED
        BY <2>5, <2>6, <4>1, <4>3, <4>4
    <3>2. ASSUME NEW p \in Selected(ds) PROVE p \in Selected(es)
      <4>1. PICK i \in 1..Len(ds) : \E j \in 1..Len(ds[i].parts) : p = <<ds[i].doc, ds[i].parts[j]>>
        BY <3>2, SelectedIs
      <4>2. PICK j \in 1..Len(ds[i].parts) : p = <<ds[i].doc, ds[i].parts[j]>>
        BY <4>1
      <4>3. i \in 1..Len(es) /\ j \in 1..Len(es[i].parts) /\ p = <<es[i].doc, es[i].parts[j]>>
        BY <2>5, <2>6a, <4>2
      <4>4. QED
        BY <2>4, <4>3, SelectedIs
    <3>3. c \in Selected(es)
      <4>1. Len(ds) + 1 \in 1..Len(es) /\ 1 \in 1..Len(es[Len(ds) + 1].parts)
        BY <2>1, <2>5, <2>6a
      <4>2. <<es[Len(ds) + 1].doc, es[Len(ds) + 1].parts[1]>> \in Selected(es)
        BY <2>4, <4>1, SelectedIs
      <4>3. QED
        BY <1>1, <2>1, <2>5, <4>2
    <3>4. QED
      BY <3>1, <3>2, <3>3
  <2>11. QED
    BY <2>4, <2>5, <2>7, <2>8, <2>9, <2>10 DEF es
<1>6. CASE there # {}
  <2>1. PICK m \in 1..Len(ds) : ds[m].doc = c[1]
    BY <1>2, <1>6
  <2>2. \A i \in 1..Len(ds) : i \in there <=> i = m
    BY <1>2, <2>1 DEF OneEach
  <2>3. es = [i \in 1..Len(ds) |-> IF i \in there
                THEN [ds[i] EXCEPT !.parts = Append(@, c[2])] ELSE ds[i]]
    BY <1>2, <1>3, <1>6
  <2>4. /\ DOMAIN es = 1..Len(ds) /\ \A i \in 1..Len(ds) : i # m => es[i] = ds[i]
        /\ es[m] = [ds[m] EXCEPT !.parts = Append(@, c[2])]
    BY <2>2, <2>3
  <2> DEFINE more == Append(ds[m].parts, c[2])
  <2>5. es[m] = [doc |-> c[1], parts |-> more]
    <3>1. es[m] = [ds[m] EXCEPT !.parts = more]
      BY <1>2, <2>4
    <3> HIDE DEF more
    <3>2. QED
      BY <1>2, <2>1, <3>1, WithParts
  <2>6. /\ more \in Seq(1..MaxPart) /\ IsInjective(more) /\ \A p \in ToSet(more) : <<c[1], p>> \in W
        /\ Len(more) = Len(ds[m].parts) + 1 /\ more[Len(ds[m].parts) + 1] = c[2]
        /\ \A j \in 1..Len(ds[m].parts) : more[j] = ds[m].parts[j]
    <3>1. c[2] \notin ToSet(ds[m].parts)
      <4>1. \A j \in 1..Len(ds[m].parts) : <<c[1], ds[m].parts[j]>> \in Selected(ds)
        BY <1>4, <2>1
      <4>2. \A j \in 1..Len(ds[m].parts) : ds[m].parts[j] # c[2]
        BY <1>1, <4>1
      <4>3. QED
        BY <1>2, <4>2 DEF ToSet
    <3>2. /\ more \in Seq(1..MaxPart) /\ IsInjective(more)
          /\ ToSet(more) = ToSet(ds[m].parts) \union {c[2]}
      <4>1. PICK q \in Seq(1..MaxPart) : q = ds[m].parts
        BY <1>2
      <4>2. PICK x \in 1..MaxPart : x = c[2]
        BY <1>1
      <4>3. more = Append(q, x) /\ IsInjective(q) /\ x \notin ToSet(q)
        BY <1>2, <3>1, <4>1, <4>2
      <4> HIDE DEF more
      <4>4. /\ Append(q, x) \in Seq(1..MaxPart) /\ IsInjective(Append(q, x))
            /\ ToSet(Append(q, x)) = ToSet(q) \union {x}
        <5> DEFINE A == 1..MaxPart
        <5>1. q \in Seq(A) /\ x \in A
          OBVIOUS
        <5> HIDE DEF A
        <5>2. Append(q, x) \in Seq(A)
          BY <5>1
        <5>3. /\ IsInjective(q) /\ x \notin ToSet(q) => IsInjective(Append(q, x))
              /\ ToSet(Append(q, x)) = ToSet(q) \union {x}
          BY <5>1, AppendFacts
        <5>4. QED
          BY <4>3, <5>2, <5>3 DEF A
      <4>5. QED
        BY <4>1, <4>2, <4>3, <4>4
    <3>3. \A p \in ToSet(ds[m].parts) : <<c[1], p>> \in W
      BY <1>2, <2>1 DEF ToSet
    <3>4. /\ Len(more) = Len(ds[m].parts) + 1 /\ more[Len(ds[m].parts) + 1] = c[2]
          /\ \A j \in 1..Len(ds[m].parts) : more[j] = ds[m].parts[j]
      BY <1>2
    <3> HIDE DEF more
    <3>5. QED
      BY <1>1, <3>2, <3>3, <3>4
  <2> HIDE DEF more, there, new
  <2>7. es[m] \in Within(W) /\ es[m].doc = ds[m].doc /\ es[m].parts = more
    BY <1>1, <2>1, <2>5, <2>6, Drawn
  <2>8. \A i \in 1..Len(ds) : es[i] \in Within(W) /\ es[i].doc = ds[i].doc
    BY <1>2, <2>4, <2>7
  <2>9. es \in Seq(Within(W)) /\ Len(es) = Len(ds)
    <3>1. es = [i \in 1..Len(ds) |-> es[i]]
      BY <2>3
    <3>2. es \in [1..Len(ds) -> Within(W)]
      BY <2>8, <3>1
    <3>3. QED
      BY <1>2, <3>2
  <2>10. OneEach(es)
    BY <1>2, <2>4, <2>8 DEF OneEach
  <2>11. Documents(es) = Documents(ds) /\ c[1] \in Documents(ds)
    <3>1. Documents(es) = {es[i].doc : i \in 1..Len(ds)}
          /\ Documents(ds) = {ds[i].doc : i \in 1..Len(ds)}
      BY <1>2, <2>4 DEF Documents
    <3>2. QED
      BY <2>1, <2>8, <3>1
  <2>12. PartCount(es) = PartCount(ds) + 1
    <3>1. es \in Seq(Selection)
      BY <2>9, WithinFacts
    <3>2. /\ Len(es[m].parts) = Len(ds[m].parts) + 1
          /\ \A i \in 1..Len(ds) : i # m => Len(es[i].parts) = Len(ds[i].parts)
      BY <2>4, <2>6, <2>7
    <3>3. QED
      BY <1>2, <2>9, <3>1, <3>2, CountsCompare
  <2>13. Selected(es) = Selected(ds) \union {c}
    <3>0. Len(ds[m].parts) \in Nat /\ Len(es[m].parts) = Len(ds[m].parts) + 1
      BY <1>2, <2>6, <2>7
    <3>1. ASSUME NEW p \in Selected(es) PROVE p \in Selected(ds) \union {c}
      <4>0. \A q \in Selected(es) : \E i \in 1..Len(es) : \E j \in 1..Len(es[i].parts) :
              q = <<es[i].doc, es[i].parts[j]>>
        BY <2>9, SelectedIs, SMTT(30)
      <4>1. PICK i \in 1..Len(es) : \E j \in 1..Len(es[i].parts) : p = <<es[i].doc, es[i].parts[j]>>
        BY <4>0, <3>1
      <4>2. PICK j \in 1..Len(es[i].parts) : p = <<es[i].doc, es[i].parts[j]>>
        BY <4>1
      <4>3. CASE i # m
        BY <1>4, <2>4, <2>9, <4>2, <4>3
      <4>4. CASE i = m /\ j \in 1..Len(ds[m].parts)
        BY <1>4, <2>6, <2>7, <4>2, <4>4
      <4>5. CASE i = m /\ j = Len(ds[m].parts) + 1
        <5>1. p = <<c[1], c[2]>>
          BY <2>1, <2>6, <2>7, <4>2, <4>5
        <5>2. QED
          BY <1>1, <5>1
      <4>6. i = m => j \in 1..Len(ds[m].parts) \/ j = Len(ds[m].parts) + 1
        BY <3>0, <4>2
      <4>7. QED
        BY <4>3, <4>4, <4>5, <4>6
    <3>2. ASSUME NEW p \in Selected(ds) PROVE p \in Selected(es)
      <4>1. PICK i \in 1..Len(ds) : \E j \in 1..Len(ds[i].parts) : p = <<ds[i].doc, ds[i].parts[j]>>
        BY <3>2, SelectedIs
      <4>2. PICK j \in 1..Len(ds[i].parts) : p = <<ds[i].doc, ds[i].parts[j]>>
        BY <4>1
      <4>3. j \in 1..Len(es[i].parts) /\ es[i].parts[j] = ds[i].parts[j]
        <5>1. CASE i # m
          BY <2>4, <4>2, <5>1
        <5>2. CASE i = m
          BY <2>6, <2>7, <3>0, <4>2, <5>2
        <5>3. QED
          BY <5>1, <5>2
      <4>4. i \in 1..Len(es) /\ p = <<es[i].doc, es[i].parts[j]>>
        BY <2>8, <2>9, <4>2, <4>3
      <4>5. QED
        BY <2>9, <4>3, <4>4, SelectedIs
    <3>3. c \in Selected(es)
      <4>1. m \in 1..Len(es) /\ Len(ds[m].parts) + 1 \in 1..Len(es[m].parts)
        BY <2>9, <3>0
      <4>2. <<es[m].doc, es[m].parts[Len(ds[m].parts) + 1]>> \in Selected(es)
        BY <2>9, <4>1, SelectedIs
      <4>3. QED
        BY <1>1, <2>1, <2>6, <2>7, <4>2
    <3>4. QED
      BY <3>1, <3>2, <3>3
  <2>14. QED
    BY <2>9, <2>10, <2>11, <2>12, <2>13 DEF es
<1>7. QED
  BY <1>5, <1>6

-----------------------------------------------------------------------------
(* The fallback.                                                           *)

\* One candidate, and all of them, as Fallback takes them.
Quota(ds, limits) ==
  Min({limits.fallback, Max({0, limits.parts - Cardinality(Selected(ds))})})
Left(acc, c, quota, limits) ==
  \/ acc.added >= quota \/ c \in Selected(acc.documents)
  \/ c[1] \notin Documents(acc.documents) /\ Len(acc.documents) >= limits.documents
Supplied(acc, c, quota, limits) ==
  IF Left(acc, c, quota, limits) THEN acc
  ELSE [documents |-> AddPart(acc.documents, c), added |-> acc.added + 1]
Supplements(W) == {acc \in [documents : Seq(Within(W)), added : Nat] : OneEach(acc.documents)}
SupplyStep(W, quota, limits) ==
  [p \in Supplements(W) \X W |-> Supplied(p[1], p[2], quota, limits)]
AllSupplied(ds, cs, limits) ==
  FoldLeft(LAMBDA acc, c : Supplied(acc, c, Quota(ds, limits), limits),
           [documents |-> ds, added |-> 0], cs)

\* The fallback is the last of the supplements.
LEMMA FallbackIs ==
  ASSUME NEW ds, NEW cs, NEW limits
  PROVE  Fallback(ds, cs, limits) = AllSupplied(ds, cs, limits).documents
  BY DEF Fallback, AllSupplied, Supplied, Left, Quota

\* A candidate considered leaves selections within W.
LEMMA SuppliedTyped ==
  ASSUME NEW W, W \subseteq Part, NEW acc \in Supplements(W), NEW c \in W, NEW quota, NEW limits
  PROVE  Supplied(acc, c, quota, limits) \in Supplements(W)
<1>1. acc.documents \in Seq(Within(W)) /\ OneEach(acc.documents) /\ acc.added \in Nat
  BY DEF Supplements
<1>2. CASE Left(acc, c, quota, limits)
  BY <1>2 DEF Supplied
<1>3. CASE ~Left(acc, c, quota, limits)
  <2>1. c \notin Selected(acc.documents)
    BY <1>3 DEF Left
  <2>2. AddPart(acc.documents, c) \in Seq(Within(W)) /\ OneEach(AddPart(acc.documents, c))
    BY <1>1, <2>1, AddPartFacts
  <2>3. QED
    BY <1>1, <1>3, <2>2 DEF Supplied, Supplements
<1>4. QED
  BY <1>2, <1>3

\* The candidates are considered one after the other, best first.
LEMMA FallbackTrail ==
  ASSUME NEW W, W \subseteq Part, NEW ds \in Seq(Within(W)), OneEach(ds), NEW limits, NEW s \in Seq(W)
  PROVE  \E r \in [0..Len(s) -> Supplements(W)] :
           r[Len(s)] = AllSupplied(ds, s, limits) /\ Trail(r, SupplyStep(W, Quota(ds, limits), limits), [documents |-> ds, added |-> 0], s)
<1> DEFINE V == Supplements(W)
           D == W
           F == SupplyStep(W, Quota(ds, limits), limits)
           Step(g) == [t \in SUBSET DOMAIN s |->
                         IF t = {} THEN [documents |-> ds, added |-> 0]
                         ELSE Supplied(g[t \ {Max(t)}], s[Max(t)], Quota(ds, limits), limits)]
           h == CHOOSE g : g = Step(g)
<1>1. AllSupplied(ds, s, limits) = h[DOMAIN s]
  BY DEF AllSupplied, FoldLeft, MapThenFoldSet
<1>2. \A x \in V, y \in D : Supplied(x, y, Quota(ds, limits), limits) \in V /\ F[<<x, y>>] = Supplied(x, y, Quota(ds, limits), limits)
  <2>1. \A x \in V, y \in D : Supplied(x, y, Quota(ds, limits), limits) \in V
    BY SuppliedTyped
  <2>2. QED
    BY <2>1 DEF SupplyStep
<1>3. Foldable(F, V, D, [documents |-> ds, added |-> 0], s)
  <2>1. F \in [V \X D -> V]
    BY <1>2 DEF SupplyStep
  <2>2. [documents |-> ds, added |-> 0] \in V
    BY DEF V, Supplements
  <2>3. QED
    BY <2>1, <2>2 DEF Foldable
<1> HIDE DEF F, V, D
<1>4. PICK g : Iterated(g, F, V, D, [documents |-> ds, added |-> 0], s)
  BY <1>3, IterSteps
<1>5. h = Step(h)
  <2>1. g = Step(g)
    BY <1>2, <1>4 DEF Iterated
  <2>2. QED
    BY <2>1
<1>6. \A t \in SUBSET DOMAIN s :
        h[t] = IF t = {} THEN [documents |-> ds, added |-> 0]
               ELSE Supplied(h[t \ {Max(t)}], s[Max(t)], Quota(ds, limits), limits)
  BY <1>5
<1> HIDE DEF h
<1>7. Chained(h, F, V, [documents |-> ds, added |-> 0], s)
  <2>1. ASSUME NEW t \in SUBSET DOMAIN s, t # {}, h[t \ {Max(t)}] \in V
        PROVE  h[t] = F[<<h[t \ {Max(t)}], s[Max(t)]>>]
    <3>1. s[Max(t)] \in D
      BY <1>3, <2>1, Subsets DEF Foldable
    <3>2. QED
      BY <1>2, <1>6, <2>1, <3>1
  <2>2. QED
    BY <1>6, <2>1 DEF Chained
<1>8. QED
  BY <1>1, <1>3, <1>7, FoldTrail DEF F, V

\* Where the fallback stands after k candidates: it has added candidates only, none past its
\* quota and no document past the limit, and one it left either finds no room for its document
\* or came when the quota was used up, by candidates before it.
Standing(ds, cs, k, acc, quota, limits) ==
  /\ acc.added <= quota
  /\ PartCount(acc.documents) = PartCount(ds) + acc.added
  /\ Len(acc.documents) <= limits.documents
  /\ Selected(ds) \subseteq Selected(acc.documents)
  /\ Selected(acc.documents) \subseteq Selected(ds) \union {cs[m] : m \in 1..k}
  /\ \A i \in 1..k : cs[i] \notin Selected(acc.documents) =>
       \/ cs[i][1] \notin Documents(acc.documents) /\ Len(acc.documents) >= limits.documents
       \/ /\ acc.added >= quota
          /\ \A j \in 1..k : cs[j] \in Selected(acc.documents) \ Selected(ds) => j < i

\* Considering one more candidate keeps what is true of the candidates before it.
LEMMA StandingKept ==
  ASSUME NEW W, W \subseteq Part, NEW ds \in Seq(Within(W)), NEW cs \in Seq(W), IsInjective(cs),
         NEW limits, limits.documents \in Nat, NEW quota \in Nat, NEW acc \in Supplements(W),
         NEW k \in 1..Len(cs), Standing(ds, cs, k - 1, acc, quota, limits)
  PROVE  Standing(ds, cs, k, Supplied(acc, cs[k], quota, limits), quota, limits)
<1> DEFINE now == Supplied(acc, cs[k], quota, limits)
<1>1. /\ acc.documents \in Seq(Within(W)) /\ OneEach(acc.documents) /\ acc.added \in Nat
      /\ Len(acc.documents) \in Nat
  BY WithinFacts DEF Supplements
<1>2. /\ cs[k] \in W /\ k \in Nat /\ 1..(k - 1) \subseteq 1..k /\ k \in 1..k
      /\ \A i \in 1..k : i \in 1..(k - 1) \/ i = k
  OBVIOUS
<1>3. \A m \in 1..(k - 1) : cs[m] # cs[k]
  BY DEF IsInjective
<1>4. PartCount(ds) \in Nat
  <2>1. ds \in Seq(Selection)
    BY WithinFacts
  <2>2. QED
    BY <2>1, Counting
<1>5. CASE Left(acc, cs[k], quota, limits)
  <2>1. now = acc
    BY <1>5 DEF Supplied
  <2>2. ASSUME NEW i \in 1..k, cs[i] \notin Selected(acc.documents)
        PROVE  \/ cs[i][1] \notin Documents(acc.documents) /\ Len(acc.documents) >= limits.documents
               \/ /\ acc.added >= quota
                  /\ \A j \in 1..k : cs[j] \in Selected(acc.documents) \ Selected(ds) => j < i
    <3>1. CASE i = k
      <4>1. ASSUME NEW j \in 1..k, cs[j] \in Selected(acc.documents) PROVE j < i
        <5>1. j # k
          BY <2>2, <3>1, <4>1
        <5>2. QED
          BY <3>1, <5>1
      <4>2. QED
        BY <1>5, <2>2, <3>1, <4>1 DEF Left
    <3>2. CASE i \in 1..(k - 1)
      <4>1. CASE cs[i][1] \notin Documents(acc.documents) /\ Len(acc.documents) >= limits.documents
        BY <4>1
      <4>2. CASE /\ acc.added >= quota
                 /\ \A j \in 1..(k - 1) : cs[j] \in Selected(acc.documents) \ Selected(ds) => j < i
        <5>1. ASSUME cs[k] \in Selected(acc.documents) \ Selected(ds) PROVE FALSE
          <6>1. cs[k] \in {cs[m] : m \in 1..(k - 1)}
            BY <5>1 DEF Standing
          <6>2. QED
            BY <1>3, <6>1
        <5>2. QED
          BY <1>2, <4>2, <5>1
      <4>3. QED
        BY <2>2, <3>2, <4>1, <4>2 DEF Standing
    <3>3. QED
      BY <1>2, <3>1, <3>2
  <2>3. Selected(acc.documents) \subseteq Selected(ds) \union {cs[m] : m \in 1..k}
    BY <1>2 DEF Standing
  <2> HIDE DEF now
  <2>4. Standing(ds, cs, k, now, quota, limits)
    BY <2>1, <2>2, <2>3 DEF Standing
  <2>5. QED
    BY <2>4 DEF now
<1>6. CASE ~Left(acc, cs[k], quota, limits)
  <2>1. now = [documents |-> AddPart(acc.documents, cs[k]), added |-> acc.added + 1]
    BY <1>6 DEF Supplied
  <2>2. /\ ~(acc.added >= quota) /\ cs[k] \notin Selected(acc.documents)
        /\ cs[k][1] \in Documents(acc.documents) \/ ~(Len(acc.documents) >= limits.documents)
    BY <1>6 DEF Left
  <2>3. PICK es : es = AddPart(acc.documents, cs[k])
    OBVIOUS
  <2>4. PICK c \in W : c = cs[k]
    BY <1>2
  <2>5. /\ Selected(es) = Selected(acc.documents) \union {c}
        /\ Documents(es) = Documents(acc.documents) \union {c[1]}
        /\ PartCount(es) = PartCount(acc.documents) + 1
        /\ Len(es) = IF c[1] \in Documents(acc.documents) THEN Len(acc.documents)
                     ELSE Len(acc.documents) + 1
    BY <1>1, <2>2, <2>3, <2>4, AddPartFacts
  <2>6. now.documents = es /\ now.added = acc.added + 1
    BY <2>1, <2>3
  <2> HIDE DEF now
  <2>7. now.added <= quota /\ PartCount(now.documents) = PartCount(ds) + now.added
    BY <1>1, <1>4, <2>2, <2>5, <2>6 DEF Standing
  <2>8. Len(now.documents) <= limits.documents
    BY <1>1, <2>2, <2>4, <2>5, <2>6 DEF Standing
  <2>9. /\ Selected(ds) \subseteq Selected(now.documents)
        /\ Selected(now.documents) \subseteq Selected(ds) \union {cs[m] : m \in 1..k}
    BY <1>2, <2>4, <2>5, <2>6 DEF Standing
  <2>10. ASSUME NEW i \in 1..k, cs[i] \notin Selected(now.documents)
         PROVE  /\ cs[i][1] \notin Documents(now.documents)
                /\ Len(now.documents) >= limits.documents
    <3>1. i \in 1..(k - 1)
      BY <1>2, <2>4, <2>5, <2>6, <2>10
    <3>2. cs[i] \notin Selected(acc.documents)
      BY <2>5, <2>6, <2>10
    <3>3. cs[i][1] \notin Documents(acc.documents) /\ Len(acc.documents) >= limits.documents
      BY <2>2, <3>1, <3>2 DEF Standing
    <3>4. c[1] \in Documents(acc.documents)
      BY <2>2, <2>4, <3>3
    <3>5. QED
      BY <2>5, <2>6, <3>3, <3>4
  <2>11. Standing(ds, cs, k, now, quota, limits)
    BY <2>7, <2>8, <2>9, <2>10 DEF Standing
  <2>12. QED
    BY <2>11 DEF now
<1>7. QED
  BY <1>5, <1>6

\* What the fallback returns.
LEMMA FallbackFacts ==
  ASSUME NEW W, W \subseteq Part, NEW ds \in Seq(Within(W)), OneEach(ds),
         NEW cs \in Seq(W), IsInjective(cs), NEW limits,
         limits.documents \in Nat, limits.parts \in Nat, limits.fallback \in Nat,
         Len(ds) <= limits.documents, PartCount(ds) <= limits.parts
  PROVE  LET es == Fallback(ds, cs, limits)  added == Selected(es) \ Selected(ds) IN
         /\ es \in Seq(Within(W)) /\ OneEach(es)
         /\ Len(es) <= limits.documents /\ PartCount(es) <= limits.parts
         /\ \A i \in 1..Len(cs) : cs[i] \notin Selected(es) =>
              \/ cs[i][1] \notin Documents(es) /\ Len(es) = limits.documents
              \/ /\ Cardinality(added) = limits.fallback \/ PartCount(es) = limits.parts
                 /\ \A j \in 1..Len(cs) : cs[j] \in added => j < i
<1> DEFINE es == Fallback(ds, cs, limits)
           added == Selected(es) \ Selected(ds)
           quota == Quota(ds, limits)
           start == [documents |-> ds, added |-> 0]
<1>1. /\ Len(ds) \in Nat /\ Len(cs) \in Nat /\ PartCount(ds) \in Nat
      /\ IsFiniteSet(Selected(ds)) /\ Cardinality(Selected(ds)) = PartCount(ds)
  <2>1. ds \in Seq(Selection) /\ Len(ds) \in Nat
    BY WithinFacts
  <2>2. PartCount(ds) \in Nat
    BY <2>1, Counting
  <2>3. QED
    BY <2>1, <2>2, SelectedCounted
<1>2. /\ quota \in Nat
      /\ quota = limits.fallback \/ quota = limits.parts - PartCount(ds)
      /\ quota <= limits.parts - PartCount(ds)
  <2>1. PICK d \in Nat : d = limits.parts - PartCount(ds)
    BY <1>1
  <2>2. Max({0, d}) = d
    BY MaxOfTwo
  <2>3. quota = Min({limits.fallback, d})
    BY <1>1, <2>1, <2>2 DEF Quota
  <2>4. Min({limits.fallback, d}) = IF limits.fallback <= d THEN limits.fallback ELSE d
    BY MinOfTwo
  <2> HIDE DEF quota
  <2>5. QED
    BY <2>1, <2>3, <2>4
<1>3. PICK r \in [0..Len(cs) -> Supplements(W)] :
        /\ r[Len(cs)] = AllSupplied(ds, cs, limits)
        /\ Trail(r, SupplyStep(W, quota, limits), start, cs)
  BY FallbackTrail
<1>4. es = r[Len(cs)].documents /\ r[Len(cs)] \in Supplements(W)
  BY <1>1, <1>3, FallbackIs
<1> HIDE DEF quota, es
<1> DEFINE K == {k \in 0..Len(cs) : Standing(ds, cs, k, r[k], quota, limits)}
<1>5. 0 \in K
  <2>1. r[0] = start
    BY <1>3 DEF Trail
  <2>2. Standing(ds, cs, 0, start, quota, limits)
    BY <1>1, <1>2 DEF Standing
  <2>3. QED
    BY <1>1, <2>1, <2>2
<1>6. ASSUME NEW k \in 1..Len(cs), k - 1 \in K PROVE k \in K
  <2>1. k - 1 \in 0..Len(cs) /\ k \in 0..Len(cs) /\ cs[k] \in W
    BY <1>1
  <2>2. r[k - 1] \in Supplements(W)
    BY <2>1
  <2>3. r[k] = Supplied(r[k - 1], cs[k], quota, limits)
    BY <1>3, <2>1, <2>2 DEF Trail, SupplyStep
  <2>4. Standing(ds, cs, k - 1, r[k - 1], quota, limits)
    BY <1>6
  <2>5. Standing(ds, cs, k, r[k], quota, limits)
    BY <1>2, <2>2, <2>3, <2>4, StandingKept
  <2>6. QED
    BY <2>1, <2>5
<1>7. \A k \in 0..Len(cs) : k \in K
  <2> HIDE DEF K
  <2>1. QED
    BY <1>1, <1>5, <1>6, AllIndices
<1>8. PICK acc \in Supplements(W) :
        acc.documents = es /\ Standing(ds, cs, Len(cs), acc, quota, limits)
  BY <1>1, <1>4, <1>7
<1>9. es \in Seq(Within(W)) /\ OneEach(es) /\ acc.added \in Nat
  BY <1>8 DEF Supplements
<1>10. /\ acc.added <= quota /\ PartCount(es) = PartCount(ds) + acc.added
       /\ Len(es) <= limits.documents /\ Len(es) \in Nat
  BY <1>8, <1>9, WithinFacts DEF Standing
<1>11. PartCount(es) <= limits.parts
  BY <1>1, <1>2, <1>9, <1>10
<1>12. Cardinality(added) = acc.added
  <2>1. IsFiniteSet(Selected(es)) /\ Cardinality(Selected(es)) = PartCount(es)
    BY <1>9, SelectedCounted
  <2>2. Selected(ds) \subseteq Selected(es)
    BY <1>8 DEF Standing
  <2>3. IsFiniteSet(added)
    BY <2>1, FS_Subset
  <2>4. Selected(es) = Selected(ds) \union added /\ Selected(ds) \intersect added = {}
    BY <2>2
  <2> HIDE DEF added
  <2>5. Cardinality(Selected(ds) \union added)
          = Cardinality(Selected(ds)) + Cardinality(added) - Cardinality(Selected(ds) \intersect added)
    BY <1>1, <2>3, FS_Union
  <2>6. Cardinality(Selected(ds) \intersect added) = 0
    BY <2>4, FS_EmptySet
  <2>7. Cardinality(added) \in Nat
    BY <2>3, FS_CardinalityType
  <2>8. PartCount(es) = PartCount(ds) + Cardinality(added)
    BY <1>1, <2>1, <2>4, <2>5, <2>6, <2>7
  <2>9. QED
    BY <1>1, <1>9, <1>10, <2>7, <2>8
<1>13. ASSUME NEW i \in 1..Len(cs), cs[i] \notin Selected(es)
       PROVE  \/ cs[i][1] \notin Documents(es) /\ Len(es) = limits.documents
              \/ /\ Cardinality(added) = limits.fallback \/ PartCount(es) = limits.parts
                 /\ \A j \in 1..Len(cs) : cs[j] \in added => j < i
  <2>1. CASE cs[i][1] \notin Documents(es) /\ Len(es) >= limits.documents
    BY <1>10, <2>1
  <2>2. CASE /\ acc.added >= quota
             /\ \A j \in 1..Len(cs) : cs[j] \in Selected(es) \ Selected(ds) => j < i
    <3>1. acc.added = quota
      BY <1>2, <1>9, <1>10, <2>2
    <3>2. Cardinality(added) = limits.fallback \/ PartCount(es) = limits.parts
      <4> HIDE DEF added
      <4>1. QED
        BY <1>1, <1>2, <1>10, <1>12, <3>1
    <3>3. QED
      BY <2>2, <3>2
  <2>3. QED
    BY <1>8, <1>13, <2>1, <2>2 DEF Standing
<1> HIDE DEF added
<1>14. QED
  BY <1>9, <1>10, <1>11, <1>13 DEF es, added

-----------------------------------------------------------------------------
(* The cap.                                                                *)

\* Turn q * n + p, counted from zero, is the one of document p in round q.
LEMMA DivMod ==
  ASSUME NEW n \in Nat \ {0}, NEW q \in Nat, NEW p \in 0..(n - 1)
  PROVE  (q * n + p) \div n = q /\ (q * n + p) % n = p
<1>1. PICK a \in Nat : a = q * n + p
  <2>1. q * n + p \in Nat
    OBVIOUS
  <2>2. QED
    BY <2>1
<1>2. PICK d \in Int : d = a \div n
  OBVIOUS
<1>3. n * d <= a /\ a < n * d + n
  BY <1>1, <1>2
<1>4. d = q
  <2>1. CASE d >= q + 1
    <3>1. PICK e \in Nat : d = q + 1 + e
      <4>1. d - q - 1 \in Nat /\ d = q + 1 + (d - q - 1)
        BY <2>1
      <4>2. QED
        BY <4>1
    <3>2. n * d = n * q + n + n * e /\ n * e >= 0
      BY <3>1
    <3>3. n * q = q * n
      OBVIOUS
    <3>4. QED
      BY <1>1, <1>3, <3>2, <3>3
  <2>2. CASE d <= q - 1
    <3>1. PICK e \in Nat : q = d + 1 + e
      <4>1. q - d - 1 \in Nat /\ q = d + 1 + (q - d - 1)
        BY <2>2
      <4>2. QED
        BY <4>1
    <3>2. n * q = n * d + n + n * e /\ n * e >= 0
      BY <3>1
    <3>3. n * q = q * n
      OBVIOUS
    <3>4. QED
      BY <1>1, <1>3, <3>2, <3>3
  <2>3. QED
    BY <2>1, <2>2
<1>5. a % n = p
  <2>1. a % n = a - n * (a \div n)
    BY <1>1
  <2>2. n * q = q * n
    OBVIOUS
  <2>3. QED
    BY <1>1, <1>2, <1>4, <2>1, <2>2
<1>6. QED
  BY <1>1, <1>2, <1>4, <1>5

\* One turn, and all of them, as Cap takes them.
TurnOf(ds, t) == ((t - 1) % Len(ds)) + 1
DepthOf(ds, t) == ((t - 1) \div Len(ds)) + 1
Turned(ds, kept, t, limit) ==
  IF PartCount(kept) < limit /\ DepthOf(ds, t) <= Len(ds[TurnOf(ds, t)].parts)
  THEN [kept EXCEPT ![TurnOf(ds, t)].parts = Append(@, ds[TurnOf(ds, t)].parts[DepthOf(ds, t)])]
  ELSE kept
Kept(ds) == {kept \in Seq(Selection) : Len(kept) = Len(ds)}
TurnStep(ds, limit) == [p \in Kept(ds) \X (Nat \ {0}) |-> Turned(ds, p[1], p[2], limit)]
AllTurned(ds, limit, ts) == FoldLeft(LAMBDA kept, t : Turned(ds, kept, t, limit), Bare(ds), ts)
Deepest(ds) == Max({Len(ds[i].parts) : i \in DOMAIN ds} \union {0})

\* The cap is what is kept when every turn has been taken.
LEMMA CapIs ==
  ASSUME NEW ds, NEW limit
  PROVE  Cap(ds, limit) = AllTurned(ds, limit, [t \in 1..(Len(ds) * Deepest(ds)) |-> t])
  BY DEF Cap, AllTurned, Turned, TurnOf, DepthOf, Deepest

\* No document has more parts than the deepest.
LEMMA DeepestFacts ==
  ASSUME NEW ds \in Seq(Selection)
  PROVE  Deepest(ds) \in Nat /\ \A i \in 1..Len(ds) : Len(ds[i].parts) <= Deepest(ds)
<1>1. /\ Len(ds) \in Nat /\ DOMAIN ds = 1..Len(ds)
      /\ \A i \in 1..Len(ds) : Len(ds[i].parts) \in Nat
  BY PartsAreCounted
<1> DEFINE S(k) == {Len(ds[i].parts) : i \in 1..k} \union {0}
           K == {k \in 0..Len(ds) : \E m \in S(k) : \A x \in S(k) : m >= x}
<1>2. 0 \in K
  BY <1>1
<1>3. ASSUME NEW k \in 1..Len(ds), k - 1 \in K PROVE k \in K
  <2>1. k \in 0..Len(ds) /\ \A i \in 1..k : i \in 1..(k - 1) \/ i = k
    BY <1>1
  <2>2. 1..(k - 1) \subseteq 1..k /\ k \in 1..k
    BY <1>1
  <2>3. S(k) = S(k - 1) \union {Len(ds[k].parts)}
    BY <2>1, <2>2
  <2>4. PICK m \in S(k - 1) : \A x \in S(k - 1) : m >= x
    BY <1>3
  <2>5. m \in Nat /\ Len(ds[k].parts) \in Nat /\ \A x \in S(k - 1) : x \in Nat
    BY <1>1
  <2> HIDE DEF S
  <2>6. \E n \in S(k) : \A x \in S(k) : n >= x
    <3>1. CASE m >= Len(ds[k].parts)
      BY <2>3, <2>4, <3>1
    <3>2. CASE ~(m >= Len(ds[k].parts))
      <4>1. \A x \in S(k) : Len(ds[k].parts) >= x
        BY <2>3, <2>4, <2>5, <3>2
      <4>2. QED
        BY <2>3, <4>1
    <3>3. QED
      BY <3>1, <3>2
  <2>7. QED
    BY <2>1, <2>6
<1>4. \A k \in 0..Len(ds) : k \in K
  <2> HIDE DEF K
  <2>1. QED
    BY <1>1, <1>2, <1>3, AllIndices
<1>5. PICK m \in S(Len(ds)) : \A x \in S(Len(ds)) : m >= x
  BY <1>1, <1>4
<1>6. Deepest(ds) = Max(S(Len(ds)))
  BY <1>1 DEF Deepest
<1>7. \A x \in S(Len(ds)) : x \in Nat
  BY <1>1
<1>8. Max(S(Len(ds))) \in S(Len(ds)) /\ \A x \in S(Len(ds)) : Max(S(Len(ds))) >= x
  <2> HIDE DEF S
  <2>1. QED
    BY <1>5 DEF Max
<1>9. \A i \in 1..Len(ds) : Len(ds[i].parts) \in S(Len(ds))
  OBVIOUS
<1> HIDE DEF S
<1>10. QED
  BY <1>6, <1>7, <1>8, <1>9

\* A turn leaves each document with some of its first parts.
LEMMA TurnedTyped ==
  ASSUME NEW ds \in Seq(Selection), NEW kept \in Kept(ds), NEW t \in Nat \ {0}, NEW limit
  PROVE  Turned(ds, kept, t, limit) \in Kept(ds)
<1>0. ASSUME ds = << >> PROVE Turned(ds, kept, t, limit) \in Kept(ds)
  <2>1. kept = << >>
    BY <1>0 DEF Kept
  <2>2. \A i, x : [kept EXCEPT ![i] = x] = << >>
    BY <2>1
  <2>3. Turned(ds, kept, t, limit) = << >>
    <3>1. CASE PartCount(kept) < limit /\ DepthOf(ds, t) <= Len(ds[TurnOf(ds, t)].parts)
      <4> DEFINE g == [kept[TurnOf(ds, t)] EXCEPT !.parts =
                         Append(@, ds[TurnOf(ds, t)].parts[DepthOf(ds, t)])]
      <4>1. Turned(ds, kept, t, limit) = [kept EXCEPT ![TurnOf(ds, t)] = g]
        BY <2>1, <3>1 DEF Turned
      <4> HIDE DEF g
      <4>2. QED
        BY <2>2, <4>1
    <3>2. CASE ~(PartCount(kept) < limit /\ DepthOf(ds, t) <= Len(ds[TurnOf(ds, t)].parts))
      BY <2>1, <3>2 DEF Turned
    <3>3. QED
      BY <3>1, <3>2
  <2>4. QED
    BY <1>0, <2>1, <2>3
<1> SUFFICES ASSUME ds # << >> PROVE Turned(ds, kept, t, limit) \in Kept(ds)
  BY <1>0
<1> DEFINE i == TurnOf(ds, t)
           depth == DepthOf(ds, t)
<1>1. Len(ds) \in Nat \ {0} /\ kept \in Seq(Selection) /\ Len(kept) = Len(ds)
  BY DEF Kept
<1>2. i \in 1..Len(ds) /\ depth \in Nat \ {0}
  <2>1. PICK n \in Nat \ {0} : n = Len(ds)
    BY <1>1
  <2>2. PICK u \in Nat : u = t - 1
    OBVIOUS
  <2>3. u % n \in 0..(n - 1) /\ u \div n \in Nat
    BY <2>1, <2>2
  <2>4. QED
    BY <2>1, <2>2, <2>3 DEF TurnOf, DepthOf
<1> HIDE DEF i, depth
<1>3. CASE PartCount(kept) < limit /\ depth <= Len(ds[i].parts)
  <2>1. ds[i] \in Selection /\ kept[i] \in Selection
    BY <1>1, <1>2
  <2>2. ds[i].parts \in Seq(1..MaxPart) /\ kept[i].parts \in Seq(1..MaxPart)
    BY <2>1 DEF Selection
  <2>3. PICK x \in 1..MaxPart : x = ds[i].parts[depth]
    <3>1. \A j \in 1..Len(ds[i].parts) : ds[i].parts[j] \in 1..MaxPart
      BY <2>2, SeqFacts
    <3>2. Len(ds[i].parts) \in Nat
      BY <2>1, PartsAreCounted
    <3>3. depth \in 1..Len(ds[i].parts)
      BY <1>2, <1>3, <3>2
    <3>4. QED
      BY <3>1, <3>3
  <2>4. [kept[i] EXCEPT !.parts = Append(@, ds[i].parts[depth])] \in Selection
    <3>1. PICK s \in Seq(1..MaxPart) : s = Append(kept[i].parts, x)
      <4> DEFINE A == 1..MaxPart
      <4>1. PICK q \in Seq(A) : q = kept[i].parts
        BY <2>2
      <4>2. x \in A
        OBVIOUS
      <4> HIDE DEF A
      <4>3. Append(q, x) \in Seq(A)
        BY <4>2
      <4>4. QED
        BY <4>1, <4>3 DEF A
    <3>2. [kept[i] EXCEPT !.parts = Append(@, x)] = [doc |-> kept[i].doc, parts |-> s]
      BY <2>1, <3>1, WithParts
    <3>3. kept[i].doc \in Document
      BY <2>1 DEF Selection
    <3>4. QED
      BY <2>3, <3>2, <3>3 DEF Selection
  <2>5. Turned(ds, kept, t, limit) = [kept EXCEPT ![i].parts = Append(@, ds[i].parts[depth])]
    BY <1>3 DEF Turned, i, depth
  <2>6. Turned(ds, kept, t, limit)
          = [kept EXCEPT ![i] = [kept[i] EXCEPT !.parts = Append(@, ds[i].parts[depth])]]
    BY <1>1, <1>2, <2>5
  <2>7. QED
    BY <1>1, <1>2, <2>4, <2>6 DEF Kept
<1>4. CASE ~(PartCount(kept) < limit /\ depth <= Len(ds[i].parts))
  BY <1>4 DEF Turned, i, depth
<1>5. QED
  BY <1>3, <1>4

\* Before the first turn no part is kept.
LEMMA BareFacts ==
  ASSUME NEW ds \in Seq(Selection)
  PROVE  /\ Bare(ds) \in Kept(ds)
         /\ \A i \in 1..Len(ds) : Bare(ds)[i] = [doc |-> ds[i].doc, parts |-> << >>]
<1>1. Len(ds) \in Nat /\ DOMAIN ds = 1..Len(ds) /\ \A i \in 1..Len(ds) : ds[i] \in Selection
  OBVIOUS
<1>2. Bare(ds) = [i \in 1..Len(ds) |-> [ds[i] EXCEPT !.parts = << >>]]
  BY <1>1 DEF Bare
<1>3. \A i \in 1..Len(ds) :
        /\ [ds[i] EXCEPT !.parts = << >>] = [doc |-> ds[i].doc, parts |-> << >>]
        /\ [doc |-> ds[i].doc, parts |-> << >>] \in Selection
  BY <1>1 DEF Selection
<1>4. \A i \in 1..Len(ds) : Bare(ds)[i] = [doc |-> ds[i].doc, parts |-> << >>]
  BY <1>2, <1>3
<1>5. Bare(ds) \in [1..Len(ds) -> Selection]
  BY <1>2, <1>3
<1>6. QED
  BY <1>1, <1>4, <1>5 DEF Kept

\* The turns are taken one after the other.
LEMMA TurnsTrail ==
  ASSUME NEW ds \in Seq(Selection), NEW limit,
         NEW s \in Seq(Nat \ {0})
  PROVE  \E r \in [0..Len(s) -> Kept(ds)] :
           r[Len(s)] = AllTurned(ds, limit, s) /\ Trail(r, TurnStep(ds, limit), Bare(ds), s)
<1> DEFINE V == Kept(ds)
           D == Nat \ {0}
           F == TurnStep(ds, limit)
           Step(g) == [t \in SUBSET DOMAIN s |->
                         IF t = {} THEN Bare(ds)
                         ELSE Turned(ds, g[t \ {Max(t)}], s[Max(t)], limit)]
           h == CHOOSE g : g = Step(g)
<1>1. AllTurned(ds, limit, s) = h[DOMAIN s]
  BY DEF AllTurned, FoldLeft, MapThenFoldSet
<1>2. \A x \in V, y \in D : Turned(ds, x, y, limit) \in V /\ F[<<x, y>>] = Turned(ds, x, y, limit)
  <2>1. \A x \in V, y \in D : Turned(ds, x, y, limit) \in V
    BY TurnedTyped
  <2>2. QED
    BY <2>1 DEF TurnStep
<1>3. Foldable(F, V, D, Bare(ds), s)
  <2>1. F \in [V \X D -> V]
    BY <1>2 DEF TurnStep
  <2>2. Bare(ds) \in V
    BY BareFacts DEF V
  <2>3. QED
    BY <2>1, <2>2 DEF Foldable
<1> HIDE DEF F, V, D
<1>4. PICK g : Iterated(g, F, V, D, Bare(ds), s)
  BY <1>3, IterSteps
<1>5. h = Step(h)
  <2>1. g = Step(g)
    BY <1>2, <1>4 DEF Iterated
  <2>2. QED
    BY <2>1
<1>6. \A t \in SUBSET DOMAIN s :
        h[t] = IF t = {} THEN Bare(ds)
               ELSE Turned(ds, h[t \ {Max(t)}], s[Max(t)], limit)
  BY <1>5
<1> HIDE DEF h
<1>7. Chained(h, F, V, Bare(ds), s)
  <2>1. ASSUME NEW t \in SUBSET DOMAIN s, t # {}, h[t \ {Max(t)}] \in V
        PROVE  h[t] = F[<<h[t \ {Max(t)}], s[Max(t)]>>]
    <3>1. s[Max(t)] \in D
      BY <1>3, <2>1, Subsets DEF Foldable
    <3>2. QED
      BY <1>2, <1>6, <2>1, <3>1
  <2>2. QED
    BY <1>6, <2>1 DEF Chained
<1>8. QED
  BY <1>1, <1>3, <1>7, FoldTrail DEF F, V

\* One value more, or no more to take.
Longer(s, n) == n < Len(s) => Append(FirstOf(s, n), s[n + 1]) = FirstOf(s, n + 1)
Whole(s, n) == Len(s) <= n => FirstOf(s, n) = s

\* Sequences of the same values are equal.
LEMMA SameSequence ==
  ASSUME NEW A, NEW s \in Seq(A), NEW t \in Seq(A), Len(s) = Len(t),
         \A i \in 1..Len(s) : s[i] = t[i]
  PROVE  s = t
  OBVIOUS

\* The first values are a prefix: shorter only where there are no more, whole if all fit.
LEMMA TakenFromTheFront ==
  ASSUME NEW A, NEW s \in Seq(A), NEW n \in Nat
  PROVE  IsPrefix(FirstOf(s, n), s) /\ Longer(s, n) /\ Whole(s, n)
<1>1. Len(s) \in Nat /\ DOMAIN s = 1..Len(s) /\ \A i \in 1..Len(s) : s[i] \in A
  OBVIOUS
<1>2. ASSUME NEW m \in Nat
      PROVE  /\ FirstOf(s, m) \in Seq(A)
             /\ Len(FirstOf(s, m)) = IF m <= Len(s) THEN m ELSE Len(s)
             /\ \A i \in 1..Len(FirstOf(s, m)) : FirstOf(s, m)[i] = s[i]
  BY FirstOfFacts
<1>3. IsPrefix(FirstOf(s, n), s)
  <2>1. PICK f \in Seq(A) : f = FirstOf(s, n)
    BY <1>2
  <2>1a. Len(f) <= Len(s) /\ \A i \in 1..Len(f) : f[i] = s[i]
    <3>1. Len(f) = (IF n <= Len(s) THEN n ELSE Len(s)) /\ \A i \in 1..Len(f) : f[i] = s[i]
      BY <1>2, <2>1
    <3>2. QED
      BY <1>1, <3>1
  <2>2. SubSeq(f, 1, Len(f)) = SubSeq(s, 1, Len(f))
    BY <1>1, <2>1a
  <2>3. QED
    <3>1. IsPrefix(f, s)
      BY <2>1a, <2>2 DEF IsPrefix
    <3>2. QED
      BY <2>1, <3>1
<1>4. ASSUME n < Len(s) PROVE Append(FirstOf(s, n), s[n + 1]) = FirstOf(s, n + 1)
  <2>1. PICK f \in Seq(A) : /\ f = FirstOf(s, n) /\ Len(f) = n
                            /\ \A i \in 1..n : f[i] = s[i]
    <3>1. /\ FirstOf(s, n) \in Seq(A) /\ Len(FirstOf(s, n)) = n
          /\ \A i \in 1..n : FirstOf(s, n)[i] = s[i]
      <4>1. n <= Len(s)
        BY <1>1, <1>4
      <4>2. QED
        BY <1>2, <4>1
    <3>2. QED
      BY <3>1
  <2>2. PICK g \in Seq(A) : /\ g = FirstOf(s, n + 1) /\ Len(g) = n + 1
                            /\ \A i \in 1..(n + 1) : g[i] = s[i]
    <3>1. n + 1 \in Nat /\ n + 1 <= Len(s)
      BY <1>1, <1>4
    <3>2. QED
      BY <1>2, <3>1
  <2>3. n + 1 \in 1..Len(s)
    BY <1>1, <1>4
  <2>4. PICK x \in A : x = s[n + 1]
    BY <1>1, <2>3
  <2>5. Append(f, x) = g
    <3>1. \A i \in 1..(n + 1) : i \in 1..n \/ i = n + 1
      OBVIOUS
    <3>2. \A i \in 1..(n + 1) : Append(f, x)[i] = g[i]
      BY <2>1, <2>2, <2>4, <3>1
    <3>3. Append(f, x) \in Seq(A) /\ Len(Append(f, x)) = n + 1
      BY <2>1
    <3>4. QED
      BY <2>2, <3>2, <3>3, SameSequence
  <2>6. QED
    BY <2>1, <2>2, <2>4, <2>5
<1>5. ASSUME Len(s) <= n PROVE FirstOf(s, n) = s
  <2>1. PICK f \in Seq(A) : f = FirstOf(s, n)
    BY <1>2
  <2>2. Len(f) = Len(s) /\ \A i \in 1..Len(s) : f[i] = s[i]
    <3>1. Len(f) = (IF n <= Len(s) THEN n ELSE Len(s)) /\ \A i \in 1..Len(f) : f[i] = s[i]
      BY <1>2, <2>1
    <3>2. PICK l \in Nat : l = Len(s)
      BY <1>1
    <3>3. Len(f) = Len(s)
      BY <1>5, <3>1, <3>2
    <3>4. QED
      BY <3>1, <3>3
  <2>3. QED
    BY <1>1, <2>1, <2>2, SameSequence
<1>6. Longer(s, n)
  BY <1>4 DEF Longer
<1>7. Whole(s, n)
  BY <1>5 DEF Whole
<1>8. QED
  BY <1>3, <1>6, <1>7

\* The first parts of a selection are a selection.
LEMMA FirstParts ==
  ASSUME NEW W, NEW d \in Within(W), NEW n \in Nat
  PROVE  LET e == [doc |-> d.doc, parts |-> FirstOf(d.parts, n)] IN
         /\ e \in Within(W) /\ e \in Selection
         /\ Len(e.parts) = IF n <= Len(d.parts) THEN n ELSE Len(d.parts)
         /\ IsPrefix(e.parts, d.parts)
         /\ Longer(d.parts, n) /\ Whole(d.parts, n)
<1> DEFINE A == 1..MaxPart
<1>1. PICK s \in Seq(A) : s = d.parts
  BY DEF Within, Selection
<1>2. d.doc \in Document /\ IsInjective(s) /\ \A i \in DOMAIN s : <<d.doc, s[i]>> \in W
  BY <1>1 DEF Within, Selection
<1> HIDE DEF A
<1>3. /\ FirstOf(s, n) \in Seq(A) /\ IsInjective(FirstOf(s, n))
      /\ Len(FirstOf(s, n)) = IF n <= Len(s) THEN n ELSE Len(s)
      /\ \A i \in 1..Len(FirstOf(s, n)) : FirstOf(s, n)[i] = s[i]
  BY <1>2, FirstOfFacts
<1>4. \A p \in ToSet(FirstOf(s, n)) : <<d.doc, p>> \in W
  <2>1. Len(s) \in Nat /\ DOMAIN s = 1..Len(s)
    OBVIOUS
  <2>2. PICK f \in Seq(A) : f = FirstOf(s, n)
    BY <1>3
  <2>3. DOMAIN f = 1..Len(f) /\ 1..Len(f) \subseteq 1..Len(s)
    BY <1>3, <2>1, <2>2
  <2>4. QED
    BY <1>2, <1>3, <2>1, <2>2, <2>3 DEF ToSet
<1>5. [doc |-> d.doc, parts |-> FirstOf(s, n)] \in Within(W)
  BY <1>2, <1>3, <1>4, Drawn DEF A
<1>6. IsPrefix(FirstOf(s, n), s) /\ Longer(s, n) /\ Whole(s, n)
  BY TakenFromTheFront
<1>7. [doc |-> d.doc, parts |-> FirstOf(s, n)] \in Selection
  BY <1>5 DEF Within
<1>8. QED
  BY <1>1, <1>3, <1>5, <1>6, <1>7

\* Where the cap stands after q rounds and p documents of the next.
Cut(i, q, p) == IF i <= p THEN q + 1 ELSE q
Shared(ds, kept, q, p) ==
  \A i \in 1..Len(ds) : kept[i] = [doc |-> ds[i].doc, parts |-> FirstOf(ds[i].parts, Cut(i, q, p))]

\* One turn: document p + 1 gets a part in round q, if it has one left.
LEMMA TurnShared ==
  ASSUME NEW W, NEW ds \in Seq(Within(W)), ds # << >>, NEW kept \in Kept(ds), NEW limit \in Nat,
         NEW q \in Nat, NEW p \in 0..(Len(ds) - 1), Shared(ds, kept, q, p),
         PartCount(kept) < limit
  PROVE  LET now == Turned(ds, kept, q * Len(ds) + p + 1, limit) IN
         /\ Shared(ds, now, q, p + 1)
         /\ PartCount(now) <= limit
<1>1. /\ Len(ds) \in Nat \ {0} /\ DOMAIN ds = 1..Len(ds) /\ ds \in Seq(Selection)
      /\ \A i \in 1..Len(ds) :
           /\ ds[i] \in Within(W) /\ ds[i] \in Selection /\ Len(ds[i].parts) \in Nat
           /\ ds[i].parts \in Seq(1..MaxPart)
  <2>1. Len(ds) \in Nat \ {0}
    OBVIOUS
  <2>2. QED
    BY <2>1, WithinFacts
<1>2. kept \in Seq(Selection) /\ Len(kept) = Len(ds) /\ PartCount(kept) \in Nat
  BY Counting DEF Kept
<1>3. PICK t \in Nat \ {0} : t = q * Len(ds) + p + 1
  <2>1. PICK n \in Nat : n = Len(ds)
    BY <1>1
  <2>2. q * n \in Nat
    BY <2>1
  <2>3. q * n + p + 1 \in Nat \ {0}
    BY <2>1, <2>2
  <2>4. QED
    BY <2>1, <2>3
<1> DEFINE now == Turned(ds, kept, t, limit)
<1>4. TurnOf(ds, t) = p + 1 /\ DepthOf(ds, t) = q + 1
  <2>1. PICK n \in Nat \ {0} : n = Len(ds)
    BY <1>1
  <2>2. t - 1 = q * n + p
    BY <1>3, <2>1
  <2>3. (q * n + p) \div n = q /\ (q * n + p) % n = p
    BY <2>1, DivMod
  <2>4. QED
    BY <2>1, <2>2, <2>3 DEF TurnOf, DepthOf
<1>5. /\ p + 1 \in 1..Len(ds) /\ Cut(p + 1, q, p) = q /\ Cut(p + 1, q, p + 1) = q + 1
      /\ \A i \in 1..Len(ds) : i # p + 1 => Cut(i, q, p + 1) = Cut(i, q, p)
  BY <1>1 DEF Cut
<1>6. PICK d \in Within(W) : d = ds[p + 1]
  BY <1>1, <1>5
<1>7. kept[p + 1] = [doc |-> d.doc, parts |-> FirstOf(d.parts, q)]
  BY <1>5, <1>6 DEF Shared
<1> DEFINE e == [doc |-> d.doc, parts |-> FirstOf(d.parts, q)]
<1>8. /\ e \in Selection /\ Len(e.parts) = IF q <= Len(d.parts) THEN q ELSE Len(d.parts)
      /\ q < Len(d.parts) => Append(e.parts, d.parts[q + 1]) = FirstOf(d.parts, q + 1)
      /\ Len(d.parts) <= q => e.parts = d.parts
  <2>1. /\ e \in Selection /\ Len(e.parts) = IF q <= Len(d.parts) THEN q ELSE Len(d.parts)
        /\ Longer(d.parts, q) /\ Whole(d.parts, q)
    BY FirstParts
  <2>2. e.parts = FirstOf(d.parts, q)
    OBVIOUS
  <2> HIDE DEF e
  <2>3. QED
    BY <2>1, <2>2 DEF Longer, Whole
<1>9. Len(d.parts) <= q => FirstOf(d.parts, q + 1) = e.parts
  <2>1. /\ Len(d.parts) <= q + 1 => FirstOf(d.parts, q + 1) = d.parts
        /\ Len(d.parts) \in Nat
    <3>1. q + 1 \in Nat
      OBVIOUS
    <3>2. Whole(d.parts, q + 1) /\ Len(d.parts) \in Nat
      BY <1>1, <1>5, <1>6, <3>1, FirstParts
    <3>3. QED
      BY <3>2 DEF Whole
  <2> HIDE DEF e
  <2>2. QED
    BY <1>8, <2>1
<1>10. CASE q < Len(d.parts)
  <2>1. PICK f \in Selection : f = [doc |-> d.doc, parts |-> FirstOf(d.parts, q + 1)]
                               /\ Len(f.parts) = q + 1
    <3>1. q + 1 \in Nat /\ q + 1 <= Len(d.parts)
      BY <1>1, <1>5, <1>6, <1>10
    <3>2. QED
      BY <3>1, FirstParts
  <2>2. now = [kept EXCEPT ![p + 1].parts = Append(@, d.parts[q + 1])]
    <3>1. DepthOf(ds, t) <= Len(ds[TurnOf(ds, t)].parts)
      BY <1>1, <1>4, <1>5, <1>6, <1>10
    <3>2. QED
      BY <1>4, <1>6, <3>1 DEF Turned
  <2>3. now[p + 1] = [kept[p + 1] EXCEPT !.parts = Append(@, d.parts[q + 1])]
        /\ \A i \in 1..Len(ds) : i # p + 1 => now[i] = kept[i]
    <3>1. PICK i \in DOMAIN kept : i = p + 1
      BY <1>1, <1>2, <1>5
    <3>2. PICK g : g = [kept[i] EXCEPT !.parts = Append(@, d.parts[q + 1])]
      OBVIOUS
    <3>3. now = [kept EXCEPT ![i] = g]
      BY <2>2, <3>1, <3>2
    <3>4. DOMAIN kept = 1..Len(ds)
      BY <1>2
    <3> HIDE DEF now
    <3>5. QED
      BY <3>1, <3>2, <3>3, <3>4
  <2> HIDE DEF now
  <2>4. now[p + 1] = f
    <3>1. now[p + 1] = [e EXCEPT !.parts = Append(@, d.parts[q + 1])]
      BY <1>7, <2>3
    <3>2. Append(e.parts, d.parts[q + 1]) = FirstOf(d.parts, q + 1)
      BY <1>8, <1>10
    <3>3. now[p + 1] = [doc |-> d.doc, parts |-> Append(e.parts, d.parts[q + 1])]
      BY <3>1
    <3>4. QED
      BY <2>1, <3>2, <3>3
  <2>5. Shared(ds, now, q, p + 1)
    <3>1. ASSUME NEW i \in 1..Len(ds)
          PROVE  now[i] = [doc |-> ds[i].doc, parts |-> FirstOf(ds[i].parts, Cut(i, q, p + 1))]
      <4>1. CASE i = p + 1
        BY <1>5, <1>6, <2>1, <2>4, <4>1
      <4>2. CASE i # p + 1
        BY <1>5, <2>3, <4>2 DEF Shared
      <4>3. QED
        BY <4>1, <4>2
    <3>2. QED
      BY <3>1 DEF Shared
  <2>6. PartCount(now) = PartCount(kept) + 1
    <3>1. now \in Kept(ds)
      BY <1>1, TurnedTyped DEF now
    <3>2. now \in Seq(Selection) /\ Len(now) = Len(kept)
      BY <1>2, <3>1 DEF Kept
    <3>3. Len(now[p + 1].parts) = Len(kept[p + 1].parts) + 1
      BY <1>1, <1>5, <1>6, <1>7, <1>8, <1>10, <2>1, <2>4
    <3>4. \A i \in 1..Len(kept) : i # p + 1 => Len(now[i].parts) = Len(kept[i].parts)
      BY <1>2, <2>3
    <3>5. p + 1 \in 1..Len(kept)
      BY <1>2, <1>5
    <3>6. QED
      BY <1>2, <3>2, <3>3, <3>4, <3>5, CountsCompare
  <2>7. PartCount(now) <= limit
    BY <1>2, <2>6
  <2>8. QED
    BY <1>3, <2>5, <2>7 DEF now
<1>11. CASE ~(q < Len(d.parts))
  <2>1. now = kept
    <3>1. ~(DepthOf(ds, t) <= Len(ds[TurnOf(ds, t)].parts))
      BY <1>1, <1>4, <1>5, <1>6, <1>11
    <3>2. QED
      BY <3>1 DEF Turned
  <2>2. FirstOf(d.parts, q + 1) = FirstOf(d.parts, q)
    <3>1. Len(d.parts) <= q
      BY <1>1, <1>5, <1>6, <1>11
    <3>2. QED
      BY <1>9, <3>1
  <2>3. Shared(ds, kept, q, p + 1)
    <3>1. ASSUME NEW i \in 1..Len(ds)
          PROVE  kept[i] = [doc |-> ds[i].doc, parts |-> FirstOf(ds[i].parts, Cut(i, q, p + 1))]
      <4>1. CASE i = p + 1
        BY <1>5, <1>6, <1>7, <2>2, <4>1
      <4>2. CASE i # p + 1
        BY <1>5, <4>2 DEF Shared
      <4>3. QED
        BY <4>1, <4>2
    <3>2. QED
      BY <3>1 DEF Shared
  <2>4. QED
    BY <1>2, <1>3, <2>1, <2>3
<1>12. QED
  BY <1>10, <1>11

\* Selections without parts count nothing.
LEMMA CountNothing ==
  ASSUME NEW ds \in Seq(Selection), \A i \in 1..Len(ds) : Len(ds[i].parts) = 0
  PROVE  PartCount(ds) = 0
<1>1. PICK r \in [0..Len(ds) -> Nat] :
        /\ r[0] = 0 /\ r[Len(ds)] = PartCount(ds)
        /\ \A k \in 1..Len(ds) : r[k] = r[k - 1] + Len(ds[k].parts)
  BY Counting
<1>2. Len(ds) \in Nat
  OBVIOUS
<1> DEFINE K == {k \in 0..Len(ds) : r[k] = 0}
<1>3. 0 \in K
  BY <1>1, <1>2
<1>4. \A k \in 1..Len(ds) : k - 1 \in K => k \in K
  BY <1>1
<1>5. \A k \in 0..Len(ds) : k \in K
  <2> HIDE DEF K
  <2>1. QED
    BY <1>2, <1>3, <1>4, AllIndices
<1>6. QED
  BY <1>1, <1>2, <1>5

\* Where the cap stands after k turns: within the limit and, until it is met, k turns on.
Capped(ds, limit, kept, k) ==
  /\ kept \in Kept(ds) /\ PartCount(kept) <= limit
  /\ \E q \in Nat, p \in 0..(Len(ds) - 1) :
       Shared(ds, kept, q, p) /\ (q * Len(ds) + p = k \/ PartCount(kept) = limit)

\* Before the first turn nothing is over the cap.
LEMMA CappedFirst ==
  ASSUME NEW W, NEW ds \in Seq(Within(W)), ds # << >>, NEW limit \in Nat
  PROVE  Capped(ds, limit, Bare(ds), 0)
<1>1. ds \in Seq(Selection) /\ Len(ds) \in Nat \ {0}
      /\ \A i \in 1..Len(ds) : ds[i] \in Within(W)
  <2>1. Len(ds) \in Nat \ {0}
    OBVIOUS
  <2>2. QED
    BY <2>1, WithinFacts
<1>2. Bare(ds) \in Kept(ds) /\ \A i \in 1..Len(ds) : Bare(ds)[i] = [doc |-> ds[i].doc, parts |-> << >>]
  BY <1>1, BareFacts
<1>3. Bare(ds) \in Seq(Selection) /\ Len(Bare(ds)) = Len(ds)
  BY <1>2 DEF Kept
<1>4. PartCount(Bare(ds)) = 0
  <2>1. ASSUME NEW i \in 1..Len(Bare(ds)) PROVE Bare(ds)[i].parts = << >>
    <3>1. i \in 1..Len(ds)
      BY <1>3
    <3>2. Bare(ds)[i] = [doc |-> ds[i].doc, parts |-> << >>]
      BY <1>2, <3>1
    <3>3. QED
      BY <3>2
  <2>2. Len(<< >>) = 0
    OBVIOUS
  <2>3. \A i \in 1..Len(Bare(ds)) : Len(Bare(ds)[i].parts) = 0
    BY <2>1, <2>2
  <2>4. QED
    BY <1>3, <2>3, CountNothing
<1>5. Shared(ds, Bare(ds), 0, 0)
  <2>1. ASSUME NEW i \in 1..Len(ds) PROVE FirstOf(ds[i].parts, Cut(i, 0, 0)) = << >>
    <3>1. Cut(i, 0, 0) = 0
      BY DEF Cut
    <3>2. PICK d \in Within(W) : d = ds[i]
      BY <1>1
    <3> DEFINE e == [doc |-> d.doc, parts |-> FirstOf(d.parts, 0)]
    <3>3. e \in Selection /\ Len(e.parts) = IF 0 <= Len(d.parts) THEN 0 ELSE Len(d.parts)
      BY FirstParts
    <3>4. Len(d.parts) \in Nat
      BY PartsAreCounted DEF Within
    <3>5. e.parts \in Seq(1..MaxPart) /\ Len(e.parts) = 0 /\ e.parts = FirstOf(d.parts, 0)
      BY <3>3, <3>4 DEF Selection
    <3> HIDE DEF e
    <3>6. e.parts = << >>
      BY <3>5
    <3>7. QED
      BY <3>1, <3>2, <3>5, <3>6
  <2>2. QED
    BY <1>2, <2>1 DEF Shared
<1>6. 0 \in 0..(Len(ds) - 1) /\ 0 * Len(ds) + 0 = 0
  BY <1>1
<1>7. QED
  BY <1>2, <1>4, <1>5, <1>6 DEF Capped

\* A turn keeps the parts shared and the cap kept.
LEMMA CappedNext ==
  ASSUME NEW W, NEW ds \in Seq(Within(W)), ds # << >>, NEW limit \in Nat, NEW k \in Nat \ {0},
         NEW kept, Capped(ds, limit, kept, k - 1)
  PROVE  Capped(ds, limit, Turned(ds, kept, k, limit), k)
<1>1. ds \in Seq(Selection) /\ Len(ds) \in Nat \ {0}
  <2>1. Len(ds) \in Nat \ {0}
    OBVIOUS
  <2>2. QED
    BY <2>1, WithinFacts
<1>2. kept \in Kept(ds) /\ PartCount(kept) <= limit /\ PartCount(kept) \in Nat
  BY Counting DEF Capped, Kept
<1>3. PICK q \in Nat, p \in 0..(Len(ds) - 1) :
        Shared(ds, kept, q, p) /\ (q * Len(ds) + p = k - 1 \/ PartCount(kept) = limit)
  BY DEF Capped
<1>4. CASE PartCount(kept) = limit
  <2>1. Turned(ds, kept, k, limit) = kept
    BY <1>2, <1>4 DEF Turned
  <2>2. QED
    BY <1>2, <1>3, <1>4, <2>1 DEF Capped
<1>5. CASE PartCount(kept) # limit
  <2>1. PICK n \in Nat \ {0} : n = Len(ds)
    BY <1>1
  <2>2. q * n \in Nat /\ p \in Nat /\ p <= n - 1
    BY <2>1
  <2>3. k = q * Len(ds) + p + 1
    BY <1>3, <1>5, <2>1, <2>2
  <2> DEFINE now == Turned(ds, kept, k, limit)
  <2>4. Shared(ds, now, q, p + 1) /\ PartCount(now) <= limit
    BY <1>2, <1>3, <1>5, <2>3, TurnShared
  <2>5. now \in Kept(ds)
    BY <1>1, <1>2, TurnedTyped
  <2> HIDE DEF now
  <2>6. CASE p + 1 <= n - 1
    <3>1. p + 1 \in 0..(Len(ds) - 1) /\ q * Len(ds) + (p + 1) = k
      BY <2>1, <2>2, <2>3, <2>6
    <3>2. QED
      BY <2>4, <2>5, <3>1 DEF Capped, now
  <2>7. CASE p + 1 = n
    <3>1. \A i \in 1..Len(ds) : Cut(i, q, p + 1) = Cut(i, q + 1, 0)
      BY <1>1, <2>1, <2>7 DEF Cut
    <3>2. Shared(ds, now, q + 1, 0)
      BY <2>4, <3>1 DEF Shared
    <3>3. (q + 1) * n = q * n + n
      OBVIOUS
    <3>4. q + 1 \in Nat /\ 0 \in 0..(Len(ds) - 1) /\ (q + 1) * Len(ds) + 0 = k
      BY <2>1, <2>2, <2>3, <2>7, <3>3
    <3>5. QED
      BY <2>4, <2>5, <3>2, <3>4 DEF Capped, now
  <2>8. QED
    BY <2>2, <2>6, <2>7
<1>6. QED
  BY <1>4, <1>5

\* Every turn taken, the cap is met or every part is kept.
LEMMA CapEnds ==
  ASSUME NEW W, NEW ds \in Seq(Within(W)), NEW limit \in Nat
  PROVE  \E q \in Nat, p \in Nat :
           /\ Cap(ds, limit) \in Kept(ds) /\ PartCount(Cap(ds, limit)) <= limit
           /\ Shared(ds, Cap(ds, limit), q, p)
           /\ \/ PartCount(Cap(ds, limit)) = limit
              \/ \A i \in 1..Len(ds) : Len(ds[i].parts) <= Cut(i, q, p)
<1>1. ds \in Seq(Selection) /\ Len(ds) \in Nat
  BY WithinFacts
<1>2. Deepest(ds) \in Nat /\ \A i \in 1..Len(ds) : Len(ds[i].parts) <= Deepest(ds)
  BY <1>1, DeepestFacts
<1>3. PICK n \in Nat : n = Len(ds)
  BY <1>1
<1>4. PICK N \in Nat : N = n * Deepest(ds)
  <2>1. n * Deepest(ds) \in Nat
    BY <1>2, <1>3
  <2>2. QED
    BY <2>1
<1> DEFINE ts == [t \in 1..N |-> t]
           es == Cap(ds, limit)
<1>5. ts \in Seq(Nat \ {0}) /\ Len(ts) = N /\ \A t \in 1..N : ts[t] = t
  BY <1>4
<1>6. es = AllTurned(ds, limit, ts)
  BY <1>3, <1>4, CapIs
<1> HIDE DEF ts, es
<1>7. PICK r \in [0..Len(ts) -> Kept(ds)] :
        r[Len(ts)] = AllTurned(ds, limit, ts) /\ Trail(r, TurnStep(ds, limit), Bare(ds), ts)
  BY <1>1, <1>5, TurnsTrail
<1>8. r \in [0..N -> Kept(ds)] /\ r[N] = es /\ r[0] = Bare(ds)
  BY <1>5, <1>6, <1>7 DEF Trail
<1>9. CASE ds = << >>
  <2>1. n = 0 /\ N = 0
    <3>1. n = 0
      BY <1>3, <1>9
    <3>2. QED
      BY <1>2, <1>4, <3>1
  <2>2. es \in Kept(ds) /\ Len(ds) = 0
    BY <1>8, <1>3, <2>1
  <2>3. PartCount(es) = 0
    BY <2>2, CountNothing DEF Kept
  <2>4. Shared(ds, es, 0, 0) /\ \A i \in 1..Len(ds) : Len(ds[i].parts) <= Cut(i, 0, 0)
    BY <2>2 DEF Shared
  <2>5. QED
    BY <2>2, <2>3, <2>4 DEF es
<1>10. CASE ds # << >>
  <2> DEFINE K == {k \in 0..N : Capped(ds, limit, r[k], k)}
  <2>1. 0 \in K
    BY <1>8, <1>10, CappedFirst
  <2>2. ASSUME NEW k \in 1..N, k - 1 \in K PROVE k \in K
    <3>1. k - 1 \in 0..N /\ k \in 0..N /\ k \in Nat \ {0} /\ k \in 1..Len(ts)
      BY <1>5
    <3>2. r[k - 1] \in Kept(ds)
      BY <1>8, <3>1
    <3>3. r[k] = TurnStep(ds, limit)[<<r[k - 1], ts[k]>>]
      BY <1>7, <3>1 DEF Trail
    <3>4. r[k] = Turned(ds, r[k - 1], k, limit)
      BY <1>5, <3>1, <3>2, <3>3 DEF TurnStep
    <3>5. Capped(ds, limit, r[k - 1], k - 1)
      BY <2>2
    <3>6. QED
      BY <1>10, <3>1, <3>4, <3>5, CappedNext
  <2>3. \A k \in 0..N : k \in K
    <3> HIDE DEF K
    <3>1. QED
      BY <2>1, <2>2, AllIndices
  <2>4. Capped(ds, limit, es, N)
    BY <1>8, <2>3
  <2>5. PICK q \in Nat, p \in 0..(n - 1) :
          Shared(ds, es, q, p) /\ (q * n + p = N \/ PartCount(es) = limit)
    BY <1>3, <2>4 DEF Capped
  <2>6. ASSUME q * n + p = N PROVE \A i \in 1..Len(ds) : Len(ds[i].parts) <= Cut(i, q, p)
    <3>1. n \in Nat \ {0} /\ 0 \in 0..(n - 1)
      BY <1>1, <1>3, <1>10
    <3>2. (q * n + p) \div n = q /\ (q * n + p) % n = p
      BY <3>1, DivMod
    <3>3. PICK m \in Nat : m = Deepest(ds)
      BY <1>2
    <3>4. (m * n + 0) \div n = m /\ (m * n + 0) % n = 0
      BY <3>1, DivMod
    <3>5. N = m * n + 0
      BY <1>4, <3>1, <3>3
    <3>6. q = m /\ p = 0
      BY <2>6, <3>2, <3>4, <3>5
    <3>7. \A i \in 1..Len(ds) : Cut(i, q, p) = Deepest(ds)
      BY <3>3, <3>6 DEF Cut
    <3>8. QED
      BY <1>2, <3>7
  <2>7. q \in Nat /\ p \in Nat
    BY <1>3
  <2>8. QED
    BY <2>4, <2>5, <2>6, <2>7 DEF es, Capped
<1>11. QED
  BY <1>9, <1>10

\* What the cap returns.
LEMMA CapFacts ==
  ASSUME NEW W, NEW ds \in Seq(Within(W)), OneEach(ds), NEW limit \in Nat
  PROVE  LET es == Cap(ds, limit) IN
         /\ es \in Seq(Within(W)) /\ OneEach(es) /\ Len(es) = Len(ds)
         /\ PartCount(es) <= limit /\ PartCount(es) = Min({limit, PartCount(ds)})
         /\ \A i, j \in 1..Len(es) :
              /\ IsPrefix(es[i].parts, ds[i].parts)
              /\ Len(es[i].parts) < Len(ds[i].parts) => Len(es[j].parts) <= Len(es[i].parts) + 1
<1> DEFINE es == Cap(ds, limit)
<1>1. /\ ds \in Seq(Selection) /\ Len(ds) \in Nat /\ DOMAIN ds = 1..Len(ds)
      /\ \A i \in 1..Len(ds) : ds[i] \in Within(W) /\ Len(ds[i].parts) \in Nat
  BY WithinFacts
<1>2. PICK q \in Nat, p \in Nat :
        /\ es \in Kept(ds) /\ PartCount(es) <= limit
        /\ Shared(ds, es, q, p)
        /\ \/ PartCount(es) = limit
           \/ \A i \in 1..Len(ds) : Len(ds[i].parts) <= Cut(i, q, p)
  BY CapEnds
<1> HIDE DEF es
<1>3. es \in Seq(Selection) /\ Len(es) = Len(ds) /\ DOMAIN es = 1..Len(ds)
  BY <1>1, <1>2 DEF Kept
<1>4. ASSUME NEW i \in 1..Len(ds)
      PROVE  /\ es[i] \in Within(W) /\ es[i].doc = ds[i].doc
             /\ IsPrefix(es[i].parts, ds[i].parts)
             /\ Len(es[i].parts) = IF Cut(i, q, p) <= Len(ds[i].parts) THEN Cut(i, q, p)
                                   ELSE Len(ds[i].parts)
             /\ Cut(i, q, p) \in {q, q + 1}
  <2>1. PICK d \in Within(W) : d = ds[i]
    BY <1>1
  <2>2. Cut(i, q, p) \in {q, q + 1}
    BY DEF Cut
  <2>3. PICK n \in Nat : n = Cut(i, q, p)
    BY <2>2
  <2> DEFINE e == [doc |-> d.doc, parts |-> FirstOf(d.parts, n)]
  <2>4. /\ e \in Within(W) /\ IsPrefix(e.parts, d.parts)
        /\ Len(e.parts) = IF n <= Len(d.parts) THEN n ELSE Len(d.parts)
    BY FirstParts
  <2>5. es[i] = e
    BY <1>2, <2>1, <2>3 DEF Shared
  <2>6. e.doc = d.doc
    OBVIOUS
  <2> HIDE DEF e
  <2>7. QED
    BY <2>1, <2>2, <2>3, <2>4, <2>5, <2>6
<1>5. es \in Seq(Within(W))
  <2>1. es \in [1..Len(ds) -> Selection]
    BY <1>1, <1>3
  <2>2. es \in [1..Len(ds) -> Within(W)]
    BY <1>4, <2>1
  <2>3. QED
    BY <1>1, <2>2
<1>6. OneEach(es)
  <2>1. ASSUME NEW i \in 1..Len(ds), NEW j \in 1..Len(ds), es[i].doc = es[j].doc PROVE i = j
    <3>1. ds[i].doc = ds[j].doc
      BY <1>4, <2>1
    <3>2. QED
      BY <1>1, <3>1 DEF OneEach
  <2>2. QED
    BY <1>3, <2>1 DEF OneEach
<1>7. ASSUME NEW i \in 1..Len(ds), NEW j \in 1..Len(ds), Len(es[i].parts) < Len(ds[i].parts)
      PROVE  Len(es[j].parts) <= Len(es[i].parts) + 1
  <2>1. Len(ds[i].parts) \in Nat /\ Len(ds[j].parts) \in Nat
    BY <1>1
  <2>2. PICK c \in Nat : c = Cut(i, q, p) /\ c \in {q, q + 1}
    BY <1>4
  <2>3. PICK e \in Nat : e = Cut(j, q, p) /\ e \in {q, q + 1}
    BY <1>4
  <2>4. Len(es[i].parts) = IF c <= Len(ds[i].parts) THEN c ELSE Len(ds[i].parts)
    BY <1>4, <2>2
  <2>5. Len(es[j].parts) = IF e <= Len(ds[j].parts) THEN e ELSE Len(ds[j].parts)
    BY <1>4, <2>3
  <2>6. Len(es[i].parts) >= q
    BY <1>7, <2>1, <2>2, <2>4
  <2>7. Len(es[j].parts) <= q + 1
    BY <2>1, <2>3, <2>5
  <2>8. Len(es[i].parts) \in Nat /\ Len(es[j].parts) \in Nat
    BY <2>1, <2>2, <2>3, <2>4, <2>5
  <2>9. QED
    BY <2>6, <2>7, <2>8
<1>8. PartCount(es) = Min({limit, PartCount(ds)})
  <2>1. PartCount(es) \in Nat /\ PartCount(ds) \in Nat
    BY <1>1, <1>3, Counting
  <2>2. PartCount(es) <= PartCount(ds)
    <3>1. \A i \in 1..Len(es) : Len(es[i].parts) <= Len(ds[i].parts)
      <4>1. ASSUME NEW i \in 1..Len(es) PROVE Len(es[i].parts) <= Len(ds[i].parts)
        <5>1. Len(ds[i].parts) \in Nat
          BY <1>1, <1>3
        <5>2. PICK c \in Nat : c = Cut(i, q, p)
          BY <1>3, <1>4
        <5>3. Len(es[i].parts) = IF c <= Len(ds[i].parts) THEN c ELSE Len(ds[i].parts)
          BY <1>3, <1>4, <5>2
        <5>4. QED
          BY <5>1, <5>2, <5>3
      <4>2. QED
        BY <4>1
    <3>2. QED
      BY <1>1, <1>3, <3>1, CountsCompare
  <2>3. CASE PartCount(es) = limit
    BY <2>1, <2>2, <2>3, MinOfTwo
  <2>4. CASE \A i \in 1..Len(ds) : Len(ds[i].parts) <= Cut(i, q, p)
    <3>1. \A i \in 1..Len(ds) : Len(ds[i].parts) <= Len(es[i].parts)
      <4>1. ASSUME NEW i \in 1..Len(ds) PROVE Len(ds[i].parts) <= Len(es[i].parts)
        <5>1. Len(ds[i].parts) \in Nat
          BY <1>1
        <5>2. PICK c \in Nat : c = Cut(i, q, p)
          BY <1>4
        <5>3. Len(es[i].parts) = IF c <= Len(ds[i].parts) THEN c ELSE Len(ds[i].parts)
          BY <1>4, <5>2
        <5>4. QED
          BY <2>4, <5>1, <5>2, <5>3
      <4>2. QED
        BY <4>1
    <3>2. PartCount(ds) <= PartCount(es)
      BY <1>1, <1>3, <3>1, CountsCompare
    <3>3. PartCount(es) = PartCount(ds) /\ PartCount(ds) <= limit
      BY <1>2, <2>1, <2>2, <3>2
    <3>4. QED
      BY <2>1, <3>3, MinOfTwo
  <2>5. QED
    BY <1>2, <2>3, <2>4
<1>9. ASSUME NEW i \in 1..Len(es), NEW j \in 1..Len(es)
      PROVE  /\ IsPrefix(es[i].parts, ds[i].parts)
             /\ Len(es[i].parts) < Len(ds[i].parts) => Len(es[j].parts) <= Len(es[i].parts) + 1
  BY <1>3, <1>4, <1>7
<1>10. QED
  BY <1>2, <1>3, <1>5, <1>6, <1>8, <1>9 DEF es

-----------------------------------------------------------------------------
(* Selections one after the other.                                         *)

\* Selections of different documents may be joined.
LEMMA OneEachJoined ==
  ASSUME NEW A, NEW ds \in Seq(A), NEW es \in Seq(A), OneEach(ds), OneEach(es),
         \A i \in DOMAIN ds, j \in DOMAIN es : ds[i].doc # es[j].doc
  PROVE  /\ OneEach(ds \o es)
         /\ \A i \in DOMAIN (ds \o es) : \/ \E j \in DOMAIN ds : (ds \o es)[i] = ds[j]
                                         \/ \E j \in DOMAIN es : (ds \o es)[i] = es[j]
<1>1. /\ Len(ds) \in Nat /\ Len(es) \in Nat /\ DOMAIN ds = 1..Len(ds) /\ DOMAIN es = 1..Len(es)
      /\ DOMAIN (ds \o es) = 1..Len(ds \o es) /\ Len(ds \o es) = Len(ds) + Len(es)
  OBVIOUS
<1>2. \A i \in 1..Len(ds \o es) :
        \/ i \in 1..Len(ds) /\ (ds \o es)[i] = ds[i]
        \/ i - Len(ds) \in 1..Len(es) /\ (ds \o es)[i] = es[i - Len(ds)]
  BY JoinFacts
<1>3. ASSUME NEW i \in 1..Len(ds \o es), NEW j \in 1..Len(ds \o es),
             (ds \o es)[i].doc = (ds \o es)[j].doc
      PROVE  i = j
  <2>1. CASE i \in 1..Len(ds) /\ (ds \o es)[i] = ds[i]
    <3>1. CASE j \in 1..Len(ds) /\ (ds \o es)[j] = ds[j]
      BY <1>1, <1>3, <2>1, <3>1 DEF OneEach
    <3>2. CASE j - Len(ds) \in 1..Len(es) /\ (ds \o es)[j] = es[j - Len(ds)]
      BY <1>1, <1>3, <2>1, <3>2
    <3>3. QED
      BY <1>2, <3>1, <3>2
  <2>2. CASE i - Len(ds) \in 1..Len(es) /\ (ds \o es)[i] = es[i - Len(ds)]
    <3>1. CASE j \in 1..Len(ds) /\ (ds \o es)[j] = ds[j]
      BY <1>1, <1>3, <2>2, <3>1
    <3>2. CASE j - Len(ds) \in 1..Len(es) /\ (ds \o es)[j] = es[j - Len(ds)]
      <4>1. i - Len(ds) = j - Len(ds)
        BY <1>1, <1>3, <2>2, <3>2 DEF OneEach
      <4>2. i \in Int /\ j \in Int
        OBVIOUS
      <4>3. QED
        BY <1>1, <4>1, <4>2
    <3>3. QED
      BY <1>2, <3>1, <3>2
  <2>3. QED
    BY <1>2, <2>1, <2>2
<1>4. \A i \in DOMAIN (ds \o es) : \/ \E j \in DOMAIN ds : (ds \o es)[i] = ds[j]
                                   \/ \E j \in DOMAIN es : (ds \o es)[i] = es[j]
  BY <1>1, <1>2
<1>5. QED
  BY <1>1, <1>3, <1>4 DEF OneEach

\* The first of the selections name no document twice either.
LEMMA OneEachFirst ==
  ASSUME NEW A, NEW ds \in Seq(A), OneEach(ds), NEW n \in Nat
  PROVE  /\ FirstOf(ds, n) \in Seq(A) /\ OneEach(FirstOf(ds, n)) /\ Len(FirstOf(ds, n)) <= n
         /\ \A i \in DOMAIN FirstOf(ds, n) : \E j \in DOMAIN ds : FirstOf(ds, n)[i] = ds[j]
<1>1. /\ FirstOf(ds, n) \in Seq(A)
      /\ Len(FirstOf(ds, n)) = IF n <= Len(ds) THEN n ELSE Len(ds)
      /\ \A i \in 1..Len(FirstOf(ds, n)) : FirstOf(ds, n)[i] = ds[i]
  BY FirstOfFacts
<1>2. PICK es \in Seq(A) : es = FirstOf(ds, n)
  BY <1>1
<1>3. /\ Len(ds) \in Nat /\ DOMAIN ds = 1..Len(ds) /\ Len(es) \in Nat /\ DOMAIN es = 1..Len(es)
  OBVIOUS
<1>4. Len(es) = (IF n <= Len(ds) THEN n ELSE Len(ds)) /\ \A i \in 1..Len(es) : es[i] = ds[i]
  BY <1>1, <1>2
<1>5. Len(es) <= n /\ 1..Len(es) \subseteq 1..Len(ds)
  BY <1>3, <1>4
<1>6. OneEach(es)
  BY <1>3, <1>4, <1>5 DEF OneEach
<1>7. \A i \in DOMAIN es : \E j \in DOMAIN ds : es[i] = ds[j]
  BY <1>3, <1>4, <1>5
<1>8. QED
  BY <1>2, <1>5, <1>6, <1>7

-----------------------------------------------------------------------------
(* Folders, and the documents to be read of them.                          *)

\* A bounded sequence is a sequence.
LEMMA OfSeqOf ==
  ASSUME NEW S, NEW n \in Nat, NEW s \in SeqOf(S, n)
  PROVE  s \in Seq(S)
<1>1. PICK m \in 0..n : s \in [1..m -> S]
  BY DEF SeqOf
<1>2. QED
  BY <1>1

\* The values of a sequence are those of the set it is drawn from, and its places.
LEMMA ValuesOf ==
  ASSUME NEW A, NEW s \in Seq(A)
  PROVE  /\ ToSet(s) \subseteq A /\ \A i \in 1..Len(s) : s[i] \in ToSet(s)
         /\ \A x \in ToSet(s) : \E i \in 1..Len(s) : x = s[i]
<1>1. DOMAIN s = 1..Len(s) /\ \A i \in 1..Len(s) : s[i] \in A
  OBVIOUS
<1>2. QED
  BY <1>1 DEF ToSet

\* A sequence of values of B is a sequence over B.
LEMMA Retyped ==
  ASSUME NEW A, NEW B, NEW s \in Seq(A), ToSet(s) \subseteq B
  PROVE  s \in Seq(B)
<1>1. Len(s) \in Nat /\ s \in [1..Len(s) -> A] /\ \A i \in 1..Len(s) : s[i] \in ToSet(s)
  BY ValuesOf
<1>2. s \in [1..Len(s) -> B]
  BY <1>1
<1>3. QED
  BY <1>1, <1>2

\* The folders that replies name and the root lists, each once.
LEMMA NamedFacts ==
  ASSUME NEW root, NEW replies \in Seq(FolderReply)
  PROVE  LET named == NamedFolders(root, replies) IN
         /\ named \in Seq(Folder) /\ IsInjective(named)
         /\ \A i \in DOMAIN named : named[i] \in root
<1>1. NamedBy(replies) \in Seq(Folder)
  <2>1. PICK r \in [0..Len(replies) -> Seq(Folder)] : r[Len(replies)] = NamedBy(replies)
    BY NamedTrail
  <2>2. Len(replies) \in 0..Len(replies)
    OBVIOUS
  <2>3. QED
    BY <2>1, <2>2
<1>2. NamedFolders(root, replies) = Distinct(Only(NamedBy(replies), root))
  BY DEF NamedFolders, NamedBy
<1>3. PICK s \in Seq(Folder) : s = Only(NamedBy(replies), root) /\ ToSet(s) \subseteq root
  BY <1>1, OnlyFacts
<1>4. Distinct(s) \in Seq(Folder) /\ IsInjective(Distinct(s)) /\ ToSet(Distinct(s)) = ToSet(s)
  BY DistinctFacts
<1>5. PICK t \in Seq(Folder) : t = NamedFolders(root, replies) /\ IsInjective(t) /\ ToSet(t) = ToSet(s)
  BY <1>2, <1>3, <1>4
<1>6. \A i \in DOMAIN t : t[i] \in ToSet(t)
  BY DEF ToSet
<1>7. QED
  BY <1>3, <1>5, <1>6

\* The folders to be searched are folders of the root index.
LEMMA FoldersFacts ==
  ASSUME listing \in Listing, NEW found \in Seq(ListedParts), NEW named \in Seq(Folder), NEW n \in Nat,
         \A i \in DOMAIN named : named[i] \in Root
  PROVE  LET folders == FirstOf(Distinct(CandidateFolders(found) \o named), n) IN
         /\ folders \in Seq(Root) /\ IsInjective(folders) /\ Len(folders) <= n
<1>1. /\ Len(found) \in Nat /\ DOMAIN found = 1..Len(found)
      /\ \A i \in 1..Len(found) : found[i] \in ListedParts
  OBVIOUS
<1>2. ASSUME NEW i \in 1..Len(found) PROVE FolderOf[found[i][1]] \in Root
  <2>1. found[i][1] \in Document /\ found[i][2] \in 1..MaxPart /\ found[i][2] <= listing[found[i][1]]
    BY <1>1 DEF ListedParts, Part
  <2>2. CASE listing[found[i][1]] > 0
    BY <2>1, <2>2 DEF Root
  <2>3. MaxPart \in Nat
    BY NavigationConstants
  <2>4. \A k \in 1..MaxPart : \A m \in 0..MaxPart : k <= m => m > 0
    BY <2>3
  <2>4a. listing[found[i][1]] \in 0..MaxPart
    BY <2>1 DEF Listing
  <2>5. QED
    BY <2>1, <2>2, <2>4, <2>4a
<1>3. CandidateFolders(found) \in Seq(Root)
  BY <1>1, <1>2 DEF CandidateFolders
<1>4. named \in Seq(Root)
  <2>1. Len(named) \in Nat /\ DOMAIN named = 1..Len(named) /\ named = [i \in 1..Len(named) |-> named[i]]
    OBVIOUS
  <2>2. QED
    BY <2>1
<1> DEFINE all == CandidateFolders(found) \o named
<1>5. all \in Seq(Root)
  BY <1>3, <1>4
<1>6. Distinct(all) \in Seq(Root) /\ IsInjective(Distinct(all))
  BY <1>5, DistinctFacts
<1> HIDE DEF all
<1>7. PICK d \in Seq(Root) : d = Distinct(all) /\ IsInjective(d)
  BY <1>6
<1>8. /\ FirstOf(d, n) \in Seq(Root) /\ IsInjective(FirstOf(d, n))
      /\ Len(FirstOf(d, n)) = IF n <= Len(d) THEN n ELSE Len(d)
  BY <1>7, FirstOfFacts
<1>9. Len(d) \in Nat
  OBVIOUS
<1>10. Len(FirstOf(d, n)) <= n
  BY <1>8, <1>9
<1>11. QED
  BY <1>7, <1>8, <1>10 DEF all

\* A folder of the root index always has a document to be read, listed and its own.
LEMMA ToBeReadFacts ==
  ASSUME listing \in Listing, NEW found \in Seq(ListedParts)
  PROVE  LET L == {d \in Document : listing[d] > 0} IN
         /\ \A f \in Folder : ToBeRead(found, f) \in Seq(L)
         /\ \A f \in Root : ToBeRead(found, f) # << >>
<1> DEFINE L == {d \in Document : listing[d] > 0}
           docs == [i \in DOMAIN found |-> found[i][1]]
           OfFolder(f) == {d \in Document : listing[d] > 0 /\ FolderOf[d] = f}
<1>1. /\ Len(found) \in Nat /\ DOMAIN found = 1..Len(found)
      /\ \A i \in 1..Len(found) : found[i] \in ListedParts
  OBVIOUS
<1>2. ASSUME NEW i \in 1..Len(found) PROVE found[i][1] \in L
  <2>1. found[i][1] \in Document /\ found[i][2] \in 1..MaxPart /\ found[i][2] <= listing[found[i][1]]
    BY <1>1 DEF ListedParts, Part
  <2>2. MaxPart \in Nat
    BY NavigationConstants
  <2>3. \A k \in 1..MaxPart : \A m \in 0..MaxPart : k <= m => m > 0
    BY <2>2
  <2>4. listing[found[i][1]] \in 0..MaxPart
    BY <2>1 DEF Listing
  <2>5. QED
    BY <2>1, <2>3, <2>4
<1>3. docs \in Seq(L)
  BY <1>1, <1>2
<1> HIDE DEF docs
<1>4. ASSUME NEW f PROVE Recalled(found, f) \in Seq(L)
  <2>1. Distinct(docs) \in Seq(L)
    BY <1>3, DistinctFacts
  <2> HIDE DEF L
  <2>2. Only(Distinct(docs), {d \in Document : FolderOf[d] = f}) \in Seq(L)
    BY <2>1, OnlyFacts
  <2>3. QED
    BY <2>2 DEF Recalled, docs
<1>5. ASSUME NEW f
      PROVE  SetToSeq(OfFolder(f)) \in Seq(L) /\ (OfFolder(f) # {} => SetToSeq(OfFolder(f)) # << >>)
  <2>1. OfFolder(f) \subseteq Document /\ IsFiniteSet(Document)
    BY NavigationConstants
  <2>2. IsFiniteSet(OfFolder(f))
    BY <2>1, FS_Subset
  <2>3. OfFolder(f) \subseteq L
    OBVIOUS
  <2> HIDE DEF OfFolder, L
  <2>4. SetToSeq(OfFolder(f)) \in Seq(OfFolder(f))
        /\ (OfFolder(f) # {} => SetToSeq(OfFolder(f)) # << >>)
    BY <2>2, SetToSeqFacts
  <2>5. QED
    BY <2>3, <2>4
<1>6. ASSUME NEW f PROVE ToBeRead(found, f) \in Seq(L)
  BY <1>4, <1>5 DEF ToBeRead
<1>7. ASSUME NEW f \in Root PROVE ToBeRead(found, f) # << >>
  <2>1. OfFolder(f) # {}
    BY DEF Root
  <2>2. QED
    BY <1>5, <2>1 DEF ToBeRead
<1>8. QED
  BY <1>6, <1>7

\* The cards to be read are of listed documents, and there is one.
LEMMA RoutingFacts ==
  ASSUME listing \in Listing, NEW found \in Seq(ListedParts), NEW folders \in Seq(Root),
         folders # << >>
  PROVE  /\ RoutingDocuments(folders, found) \in Seq({d \in Document : listing[d] > 0})
         /\ RoutingDocuments(folders, found) # << >>
<1> DEFINE L == {d \in Document : listing[d] > 0}
           N == Len(folders)
<1>1. /\ \A f \in Folder : ToBeRead(found, f) \in Seq(L)
      /\ \A f \in Root : ToBeRead(found, f) # << >>
  BY ToBeReadFacts
<1>2. Root \subseteq Folder
  BY NavigationConstants DEF Root
<1>3. folders \in Seq(Folder)
  BY <1>2
<1> HIDE DEF L
<1>4. PICK r \in [0..N -> Seq(L)] :
        r[N] = RoutingDocuments(folders, found) /\ Trail(r, ReadStep(L, found), << >>, folders)
  BY <1>1, <1>3, ReadTrail
<1>5. N \in Nat \ {0} /\ \A k \in 1..N : folders[k] \in Root
  OBVIOUS
<1>6. ASSUME NEW k \in 1..N PROVE r[k] # << >>
  <2>1. k - 1 \in 0..N /\ folders[k] \in Root /\ folders[k] \in Folder
    BY <1>2, <1>5
  <2>2. PICK s \in Seq(L) : s = r[k - 1]
    BY <2>1
  <2>3. PICK t \in Seq(L) : t = ToBeRead(found, folders[k]) /\ t # << >>
    BY <1>1, <2>1
  <2>4. r[k] = s \o t
    BY <1>4, <2>1, <2>2, <2>3 DEF Trail, ReadStep
  <2>5. Len(s) \in Nat /\ Len(t) \in Nat \ {0} /\ Len(s \o t) = Len(s) + Len(t)
    BY <2>3
  <2>6. s \o t # << >>
    BY <2>5
  <2>7. QED
    BY <2>4, <2>6
<1>7. N \in 1..N /\ N \in 0..N
  BY <1>5
<1>8. r[N] \in Seq(L) /\ r[N] # << >>
  BY <1>4, <1>6, <1>7
<1>9. QED
  BY <1>4, <1>8 DEF L

===============================================================================

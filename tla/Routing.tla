-------------------------------- MODULE Routing --------------------------------
(***************************************************************************)
(* How services/navigation.py and services/lexical_index.py narrow a       *)
(* question to a few parts: the recall of candidates, the intent most      *)
(* batches agree on, the whitelists, the caps and the token budgets.       *)
(*                                                                         *)
(* A part is a pair <<document, number>>.  A selected document is a record *)
(* with its parts in the order they were selected in.                      *)
(***************************************************************************)
EXTENDS Integers, Sequences, FiniteSets, SequencesExt

Selected(documents) ==
  UNION {{<<documents[i].doc, p>> : p \in ToSet(documents[i].parts)} : i \in DOMAIN documents}
Documents(documents) == {documents[i].doc : i \in DOMAIN documents}
PartCount(documents) == FoldLeft(LAMBDA n, d : n + Len(d.parts), 0, documents)

\* Seeded fault: a repeated value is kept.
AppendAny(s, x) == Append(s, x)

\* A value is kept where it comes first.
AppendNew(s, x) == IF x \in ToSet(s) THEN s ELSE Append(s, x)

Distinct(s) == FoldLeft(AppendNew, << >>, s)

\* The values of S, in the order of s.
Only(s, S) == FoldLeft(LAMBDA t, x : IF x \in S THEN Append(t, x) ELSE t, << >>, s)
FirstOf(s, n) == SubSeq(s, 1, Min({n, Len(s)}))

-----------------------------------------------------------------------------
(* Folders                                                                 *)

\* search_lexical_index: the best rows, but not too many of one document.
Diverse(rows, perDocument, limit) ==
  LET Of(kept, doc) == Cardinality({i \in DOMAIN kept : kept[i][1] = doc})
      Take(kept, row) == IF Of(kept, row[1]) < perDocument /\ Len(kept) < limit
                         THEN Append(kept, row) ELSE kept
  IN FoldLeft(Take, << >>, rows)

\* The intent of the most batches; among equals the one that was said first.
ConsensusIntent(replies) ==
  LET Votes(n) == Cardinality({m \in DOMAIN replies : replies[m].intent = replies[n].intent})
      Leads(n) == \A m \in DOMAIN replies : Votes(m) <= Votes(n)
  IN replies[Min({n \in DOMAIN replies : Leads(n)})].intent

\* Folders the model names, in the order of the batches, if the root index lists them.
NamedFolders(root, replies) ==
  LET named == FoldLeft(LAMBDA s, r : s \o r.folders, << >>, replies)
  IN Distinct(Only(named, root))

-----------------------------------------------------------------------------
(* Documents and parts                                                     *)

\* One selection of the model: only a document whose card was read, and only the
\* parts on that card; a document selected before gains the parts it lacked.
Accept(accepted, doc, parts, whitelist) ==
  LET valid == Distinct(Only(parts, whitelist))
      at == {i \in DOMAIN accepted : accepted[i].doc = doc}
  IN IF at = {} THEN Append(accepted, [doc |-> doc, parts |-> valid])
     ELSE [i \in DOMAIN accepted |-> IF i \in at
             THEN [accepted[i] EXCEPT !.parts = Distinct(@ \o valid)]
             ELSE accepted[i]]

Bare(documents) == [i \in DOMAIN documents |-> [documents[i] EXCEPT !.parts = << >>]]

\* Seeded fault: the first document is served to its end before the next.
CapInOrder(documents, limit) ==
  LET Keep(kept, i) ==
        [kept EXCEPT ![i].parts = FirstOf(documents[i].parts, limit - PartCount(kept))]
  IN FoldLeft(Keep, Bare(documents), [i \in DOMAIN documents |-> i])

\* _cap_selected_parts_round_robin: every document in turn gives its next part,
\* until there are enough or none is left.
Cap(documents, limit) ==
  LET count == Len(documents)
      deepest == Max({Len(documents[i].parts) : i \in DOMAIN documents} \union {0})
      Turn(kept, t) ==
        LET i == ((t - 1) % count) + 1  depth == ((t - 1) \div count) + 1 IN
        IF PartCount(kept) < limit /\ depth <= Len(documents[i].parts)
        THEN [kept EXCEPT ![i].parts = Append(@, documents[i].parts[depth])]
        ELSE kept
  IN FoldLeft(Turn, Bare(documents), [t \in 1..(count * deepest) |-> t])

AddPart(documents, part) ==
  LET at == {i \in DOMAIN documents : documents[i].doc = part[1]}
  IN IF at = {} THEN Append(documents, [doc |-> part[1], parts |-> <<part[2]>>])
     ELSE [i \in DOMAIN documents |-> IF i \in at
             THEN [documents[i] EXCEPT !.parts = Append(@, part[2])]
             ELSE documents[i]]

\* Seeded fault: the parts the model selected do not count.
FallbackBesides(documents, candidates, limits) ==
  LET Supplement(acc, c) ==
        IF \/ acc.added >= limits.fallback \/ c \in Selected(acc.documents)
           \/ c[1] \notin Documents(acc.documents) /\ Len(acc.documents) >= limits.documents
        THEN acc
        ELSE [documents |-> AddPart(acc.documents, c), added |-> acc.added + 1]
  IN FoldLeft(Supplement, [documents |-> documents, added |-> 0], candidates).documents

\* Seeded fault: the first candidate that finds no room ends the fallback.
FallbackUpToFull(documents, candidates, limits) ==
  LET quota == Min({limits.fallback, Max({0, limits.parts - Cardinality(Selected(documents))})})
      NoRoom(acc, c) ==
        c[1] \notin Documents(acc.documents) /\ Len(acc.documents) >= limits.documents
      Supplement(acc, c) ==
        IF acc.added >= quota \/ c \in Selected(acc.documents) THEN acc
        ELSE IF NoRoom(acc, c) THEN [acc EXCEPT !.added = quota]
        ELSE [documents |-> AddPart(acc.documents, c), added |-> acc.added + 1]
  IN FoldLeft(Supplement, [documents |-> documents, added |-> 0], candidates).documents

\* _apply_lexical_fallback: candidates in the order of their rank.
Fallback(documents, candidates, limits) ==
  LET quota == Min({limits.fallback, Max({0, limits.parts - Cardinality(Selected(documents))})})
      NoRoom(acc, c) ==
        c[1] \notin Documents(acc.documents) /\ Len(acc.documents) >= limits.documents
      Supplement(acc, c) ==
        IF acc.added >= quota \/ c \in Selected(acc.documents) \/ NoRoom(acc, c) THEN acc
        ELSE [documents |-> AddPart(acc.documents, c), added |-> acc.added + 1]
  IN FoldLeft(Supplement, [documents |-> documents, added |-> 0], candidates).documents

-----------------------------------------------------------------------------
(* Tokens                                                                  *)

\* A limit the profile leaves unset, 0 here, is that of the settings.
LimitOr(value, setting) == IF value > 0 THEN Min({value, setting}) ELSE setting

\* Seeded fault: the answer's own tokens are not set aside.
InputBudgetWithoutOutput(profile, settings) ==
  LET window == LimitOr(profile.window, settings.window)
      output == Min({LimitOr(profile.output, settings.output), Max({1, window \div 4})})
      safety == Min({Max({1024, (window * settings.percent) \div 100}),
                     Max({1, window \div 4})})
  IN [window |-> window, output |-> output, safety |-> safety,
      input |-> IF window < 12 THEN 0 ELSE window - safety]

\* calculate_navigation_budget, for one of the two models: the window less the output
\* and a safety margin.  No input is left, 0 here, where the code raises.
InputBudget(profile, settings) ==
  LET window == LimitOr(profile.window, settings.window)
      output == Min({LimitOr(profile.output, settings.output), Max({1, window \div 4})})
      available == window - output
      percent == Min({Max({settings.percent, 1}), 25})
      safety == Min({Max({1024, (available * percent) \div 100}),
                     Max({1, available \div 4})})
  IN [window |-> window, output |-> output, safety |-> safety,
      input |-> IF available < 12 THEN 0 ELSE available - safety]
=============================================================================

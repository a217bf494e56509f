--------------------------- MODULE MCKnowledgeBase ---------------------------
(***************************************************************************)
(* The knowledge base for TLC.  Contents are interchangeable.              *)
(***************************************************************************)
EXTENDS KnowledgeBaseProperties, TLC

ContentSymmetry == Permutations(Bytes)
=============================================================================

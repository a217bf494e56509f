---------------------------- MODULE MCNavigation ----------------------------
(***************************************************************************)
(* Navigation for TLC: two indexed documents in one folder and one in the  *)
(* next, and a folder the root index does not list.                        *)
(***************************************************************************)
EXTENDS NavigationProperties

CONSTANTS f1, f2, f3, d1, d2, d3

MCFolder == {f1, f2, f3}
MCDocument == {d1, d2, d3}
MCFolderOf == d1 :> f1 @@ d2 :> f1 @@ d3 :> f2
MCStartParts == d1 :> 2 @@ d2 :> 1 @@ d3 :> 2
MCReconverted == {d1}
MCLimits ==
  [documents |-> 2, parts |-> 2, fallback |-> 1, perDocument |-> 1, candidates |-> 2,
   answerContext |-> 15, answerOutput |-> 8, routerContext |-> 64, routerOutput |-> 4,
   percent |-> 30]
=============================================================================

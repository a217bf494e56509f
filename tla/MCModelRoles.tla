---------------------------- MODULE MCModelRoles ----------------------------
(***************************************************************************)
(* The model configuration for TLC.  Settings and threads are              *)
(* interchangeable.                                                        *)
(***************************************************************************)
EXTENDS ModelRolesProperties, TLC

AdminSymmetry == Permutations(Setting) \union Permutations(Request)
=============================================================================

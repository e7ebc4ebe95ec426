-------------------------- MODULE MC_SavedSession ---------------------------
(***************************************************************************)
(* Two rival claims.  They are interchangeable: nothing orders ids.        *)
(***************************************************************************)
EXTENDS SavedSession, TLC

Rivals == Permutations(Id)
=============================================================================

--------------------------- MODULE MC_ContextStore ---------------------------
(***************************************************************************)
(* Two objects, enough for one to be sealed while the other is put, lost   *)
(* or repaired; the generations are bounded by each configuration.         *)
(***************************************************************************)
EXTENDS ContextStore, TLC

CONSTANTS o1, o2

Addresses == Permutations({o1, o2})
=============================================================================

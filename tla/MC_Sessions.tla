---------------------------- MODULE MC_Sessions ----------------------------
(***************************************************************************)
(* Two connections over three sessions and one slot: every request may     *)
(* have to evict, and both may be in flight when a third session is asked  *)
(* for.                                                                    *)
(***************************************************************************)
EXTENDS Sessions

CONSTANTS t1, t2, s1, s2, s3
=============================================================================

--------------------------- MODULE MC_SignedStore ---------------------------
(***************************************************************************)
(* Three objects, so that a level of the tree has an odd one, the last of   *)
(* them of a label no policy lets in.                                      *)
(***************************************************************************)
EXTENDS SignedStore

Labels == [o \in Object |-> IF o = 3 THEN "low-trust" ELSE "trusted"]
=============================================================================

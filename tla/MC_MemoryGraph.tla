--------------------------- MODULE MC_MemoryGraph ---------------------------
(***************************************************************************)
(* Two rival claims of one key, each with its own evidence, and a          *)
(* calculation over the first.  The second source states the first claim   *)
(* again too, and the second claim mentions the first's key, so that the   *)
(* corrected claim has more dependents than one cascade may mark and some  *)
(* lie deeper than it may go.                                              *)
(***************************************************************************)
EXTENDS MemoryGraph

CONSTANTS e1, e2, a, b, calc, ip

Revision == {e1, e2, a, b, calc}

RevisionKind == [n \in Revision |-> CASE n \in {e1, e2} -> "evidence"
                                      [] n \in {a, b} -> "claim"
                                      [] n = calc -> "calculation"]

RevisionKey == [n \in Revision |-> IF n \in {a, b} THEN ip ELSE NoKey]

RevisionDeps == [n \in Revision |-> CASE n \in {e1, e2} -> {{}}
                                      [] n = a -> {{e1}}
                                      [] n = b -> {{e2}}
                                      [] n = calc -> {{a}}]

RevisionRestated == [n \in Revision |-> IF n = a THEN {e2} ELSE {}]
RevisionMentions == [n \in Revision |-> IF n = b THEN {a} ELSE {}]
=============================================================================

-------------------------- MODULE MC_StateIndexer --------------------------
(***************************************************************************)
(* Claims of one key: a correction, a plain rival that mentions the key and *)
(* comes with a plain restatement of the correction, the restatement again  *)
(* from a span of its own, and a correction of the correction.  The first   *)
(* may also be committed as a conclusion, which is not a correction.        *)
(***************************************************************************)
EXTENDS StateIndexer

CONSTANTS e1, e2, e3, e4, a, b, c, p, ip, v1, v2, v3

Argued == {e1, e2, e3, e4, a, b, c, p}
ArguedKind == [n \in Argued |-> IF n \in {e1, e2, e3, e4} THEN "evidence" ELSE "claim"]
ArguedKey == [n \in Argued |-> IF n \in {a, b, c, p} THEN ip ELSE NoKey]
ArguedMentions == [n \in Argued |-> IF n \in {b, p} THEN {a} ELSE {}]
ArguedValue == [n \in Argued |-> CASE n \in {a, c} -> v1 [] n \in {b, p} -> v2 [] OTHER -> v3]
ArguedFacts == [n \in Argued |-> CASE n = e1 -> <<a>> [] n = e2 -> <<b, c>>
                                    [] n = e3 -> <<c>> [] n = e4 -> <<p>>
                                    [] OTHER -> <<>>]
ArguedCommits == [n \in Argued |-> IF n = a THEN {{}} ELSE {}]
=============================================================================

----------------------------- MODULE MC_Ladder ------------------------------
(***************************************************************************)
(* Two rival claims of one key, the first restated by the second's source, *)
(* and a derivation of two inputs whose second closure gives other values. *)
(***************************************************************************)
EXTENDS Ladder, TLC

CONSTANTS e1, e2, a, b, c1, c2, k, f, s1, s2, lo, hi

Nodes == {e1, e2, a, b, c1, c2}
Calcs == {c1, c2}

NodeKind == [n \in Nodes |-> CASE n \in {e1, e2} -> "evidence" [] n \in {a, b} -> "claim"
                               [] OTHER -> "calculation"]
NodeKey == [n \in Nodes |-> CASE n \in {a, b} -> k [] n \in Calcs -> f [] OTHER -> NoKey]
NodeSpans == [n \in Nodes |-> CASE n \in {e1, a} -> {s1} [] n \in {e2, b} -> {s2} [] OTHER -> {}]
NodeValue == [n \in Nodes |-> CASE n = c1 -> 1 [] n = c2 -> 2 [] OTHER -> 0]
NodeDeps == [n \in Nodes |-> CASE n = a -> {e1} [] n = b -> {e2} [] OTHER -> {}]
NodeDepChoices == [n \in Nodes |-> IF n \in Calcs THEN {{a}, {b}} ELSE {NodeDeps[n]}]
NodeRestated == [n \in Nodes |-> IF n = a THEN {e2} ELSE {}]
Values == 1 :> c1 @@ 2 :> c2
Versions == <<[i \in {lo, hi} |-> IF i = lo THEN 1 ELSE 2], [i \in {lo, hi} |-> 2]>>
Reached == {{a, e1}, {b, c1}}
=============================================================================

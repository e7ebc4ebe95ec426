----------------------------- MODULE MC_Planner -----------------------------
(***************************************************************************)
(* Two rival claims, each with its evidence, a decision over the first and *)
(* a constraint of the second source: six nodes of which a plan considers  *)
(* four, and budgets from what is mandatory to nearly everything.          *)
(***************************************************************************)
EXTENDS Planner

CONSTANTS e1, e2, a, b, d, c, ip

Nodes == {e1, e2, a, b, d, c}

NodeKind == [n \in Nodes |-> CASE n \in {e1, e2} -> "evidence" [] n = d -> "decision"
                               [] n = c -> "constraint" [] OTHER -> "claim"]
NodeKey == [n \in Nodes |-> IF n \in {a, b} THEN ip ELSE NoKey]
NodeDeps == [n \in Nodes |-> CASE n \in {e1, e2} -> {} [] n = a -> {e1} [] n = d -> {a}
                               [] OTHER -> {e2}]
NodeDepChoices == [n \in Nodes |-> CASE n \in {e1, e2} -> {{}} [] n = d -> {{b}}
                                     [] OTHER -> {NodeDeps[n]}]
NodeOrder == <<e1, a, e2, b, c, d>>

\* L2 costs 2, L1 3, L0 4: the constraint's L0 is one token over its L2.
NodeCost == [n \in Nodes |-> [v \in {"L0", "L1", "L2", "L3"} |->
               CASE v = "L2" -> 2 [] v = "L1" -> 3 [] v = "L0" -> IF n = c THEN 3 ELSE 4
                 [] OTHER -> 2]]
NodeWorth == [n \in Nodes |-> CASE n \in {a, e1} -> 3 [] n = c -> 1 [] OTHER -> 2]

Hits == {<<>>, <<e1, b>>, <<a, b>>, <<d, e2>>}
Spans == {<<>>, <<e1, e2>>}
PinChoices == {{}, {a}, {e1}}
=============================================================================

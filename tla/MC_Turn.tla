------------------------------ MODULE MC_Turn ------------------------------
(***************************************************************************)
(* Two rival claims quoting one span, and a calculation over the first, in *)
(* a graph where a cascade marks two nodes and goes one step.              *)
(***************************************************************************)
EXTENDS Turn

CONSTANTS doc, a, b, calc, ip

Nodes == {doc, a, b, calc}

NodeKind == [n \in Nodes |-> CASE n = doc -> "evidence" [] n = calc -> "calculation"
                               [] OTHER -> "claim"]
NodeKey == [n \in Nodes |-> IF n \in {a, b} THEN ip ELSE NoKey]
NodeDeps == [n \in Nodes |-> CASE n = doc -> {} [] n = calc -> {a} [] OTHER -> {doc}]
NodeDepChoices == [n \in Nodes |-> CASE n = doc -> {} [] n = calc -> {{a}, {b}} [] OTHER -> {{doc}}]
=============================================================================

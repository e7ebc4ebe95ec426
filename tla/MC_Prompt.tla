----------------------------- MODULE MC_Prompt ------------------------------
EXTENDS Prompt

\* Two claims of which one depends on the other, and a skill between them.
Kinds == [n \in 1 .. 3 |-> IF n = 2 THEN 3 ELSE 4]
Spans == [n \in 1 .. 3 |-> CASE n = 1 -> {"s", "t"} [] n = 3 -> {"t", "u"} [] OTHER -> {}]
Deps == [n \in 1 .. 3 |-> IF n = 3 THEN {1} ELSE {}]
Tokens == [d \in {"x", "y"} |-> IF d = "x" THEN 2 ELSE 4]
=============================================================================

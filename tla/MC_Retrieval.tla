---------------------------- MODULE MC_Retrieval ----------------------------
EXTENDS Retrieval

\* Two documents: one is any text of up to three marks, the other one of the
\* longer texts where separators, wrapping and white space meet.
Short == UNION {[1 .. n -> {"a", "stop", "space", "newline"}] : n \in 0 .. 3}
Long ==
    {<<"b", "stop", "space", "a", "b", "newline", "newline", "b">>,
     <<"a", "newline", "space", "newline", "newline", "space", "b", "b", "a">>,
     <<"space", "a", "a", "b", "stop", "newline", "b", "stop", "stop", "space">>}
Texts == [d \in {"x", "y"} |-> IF d = "x" THEN Short ELSE Long]

Tables == {1, 2}
Planes == [t \in Tables |->
             IF t = 1 THEN << <<1, 0, 0>>, <<0, 1, 0>>, <<0, 0, 1>> >>
                      ELSE << <<1, 1, 0>>, <<0, 1, 1>>, <<1, 0, 1>> >>]

NodeTexts == {<<"a", "b">>, <<"b", "b", "a">>, <<"b">>}
Queries == {<<"a", "b">>, <<"b">>}
Vectors == [t \in NodeTexts \cup Queries |->
              IF t = <<"a", "b">> THEN <<2, 1, 1>>
              ELSE IF t = <<"b", "b", "a">> THEN <<-1, -1, -2>>
              ELSE <<-1, 2, 1>>]
=============================================================================

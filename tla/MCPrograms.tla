----------------------------- MODULE MCPrograms -----------------------------
(* An instance of Programs: the lines that are typed, the inputs of the    *)
(* parser and of the matcher, and the files that grep reads.               *)
EXTENDS Programs

Typed == {<<"a", "|", "b">>, <<"(", "a", ";", "b", ">", "f", ")", "|", "c">>,
          <<"a", "&", ";", "b", "|", "c">>, <<"a", "|", "b", "|", "c", "&">>,
          <<"cd", "d">>, <<"x", ";", "a", "<", "x">>, <<"(">>,
          <<"a", "<", "f", "|", "(", "b", "&", ")">>}

Upto(S, n) == UNION {[1 .. k -> S] : k \in 0 .. n}

ShortLines == Upto({"a", "|", "&", ";", "(", ")", ">"}, 5)
ShortMatches == Upto({"a", "b", ".", "*", "^", "$"}, 3) \X Upto({"a", "b"}, 3)

SomePatterns == {<<"a">>, <<"^", "b", "*", "$">>}
ShortFiles == Upto({"a", "b", "nl"}, 5)
=============================================================================

---------------------------- MODULE MCTextCodecs ----------------------------
(* Documents with escapes, equal names and every way of nesting two deep;  *)
(* units and bytes at the edges of their ranges.                           *)
EXTENDS TextCodecs

Strings == {<<>>, <<"x">>, <<Quote, Backslash>>, <<"newline", "control">>}
Leaves == {Value("string", s, <<>>) : s \in Strings} \cup {Value("1", <<>>, <<>>)}
Flat == {Value("array", <<>>, <<>>), Value("object", <<>>, <<>>)}
          \cup {Value("array", <<>>, <<Kid(<<>>, v)>>) : v \in Leaves}
          \cup {Value("object", <<>>, <<Kid(s, Value("1", <<>>, <<>>))>>) : s \in Strings}
Pairs == {Value("array", <<>>, <<Kid(<<>>, v), Kid(<<>>, Value("null", <<>>, <<>>))>>) : v \in Flat}
           \cup {Value("object", <<>>, <<Kid(<<"x">>, Value("1", <<>>, <<>>)), Kid(s, v)>>) :
                   s \in {<<>>, <<"x">>}, v \in Flat}
Deep == {Value("array", <<>>, <<Kid(<<>>, v)>>) : v \in Pairs}

SmallDocuments == Leaves \cup Flat \cup Pairs \cup Deep

SomeSymbols == {"{", "]", ":", ",", Quote, Backslash, " ", "x", "n", "1", "control", "u0000"}

\* The edges of the ranges parse_utf16 tells apart.
EdgeUnits == {0, 127, 128, 2047, 2048, 55295, 55296, 56319, 56320, 57343, 57344, 65535}
EdgeBytes == {0, 3, 129, 255}
=============================================================================

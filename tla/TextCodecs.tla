----------------------------- MODULE TextCodecs -----------------------------
(***************************************************************************)
(* The conversions between what the components keep in memory and the text *)
(* they exchange.  A behaviour starts from something one of them wrote and *)
(* damages it symbol by symbol, as a caller with other text would.         *)
(***************************************************************************)
EXTENDS FiniteSets, JsonText, Codecs

CONSTANTS
  Documents,   \* values to serialize
  Symbols      \* symbols an edit may put in

VARIABLES
  text,        \* JSON text
  textEdits

vars == <<text, textEdits, bytes, letters, edits, units>>

\* Something to edit: JSON text, or what Codecs starts from.
Init ==
  /\ textEdits = 0
  /\ \/ /\ text \in {Serialize(v, p) : v \in Documents, p \in BOOLEAN}
        /\ bytes = <<>> /\ letters = <<>> /\ edits = 0 /\ units = <<0>>
     \/ text = <<>> /\ CodecInit

EditText ==
  /\ textEdits < MaxEdits
  /\ \E i \in DOMAIN text, c \in Symbols : text' \in Edited(text, i, c)
  /\ textEdits' = textEdits + 1
  /\ UNCHANGED codecVars

Next == EditText \/ (EditLetters /\ UNCHANGED <<text, textEdits>>)

Spec == Init /\ [][Next]_vars

----------------------------------------------------------------------------
(* JSON text.  The reference reads the text as tokens and reduces the      *)
(* innermost brackets first, instead of descending from the first symbol.  *)

\* The tokens of s; a string is one token that carries what it stands for,
\* and one that cannot be read ends the list.
Token(kind, name) == [kind |-> kind, name |-> name]
RECURSIVE Tokens(_, _)
Tokens(s, i) ==
  CASE i > Len(s) -> <<>>
    [] i <= Len(s) /\ s[i] = Quote ->
         LET str == get_quoted_string(s, i)
         IN  IF str.ok THEN <<Token("string", str.value)>> \o Tokens(s, str.at)
             ELSE <<Token("unreadable", <<>>)>>
    [] i <= Len(s) /\ s[i] \in Whitespace -> Tokens(s, i + 1)
    [] OTHER -> <<Token(IF s[i] \in {"null", "1"} THEN "value" ELSE s[i], <<>>)>> \o Tokens(s, i + 1)

IsValue(t) == t.kind \in {"value", "string"}

\* Whether the tokens between two brackets are items, or members with names
\* of their own, separated by commas.
Items(ts) ==
  /\ Len(ts) % 2 = 1
  /\ \A i \in DOMAIN ts : IF i % 2 = 1 THEN IsValue(ts[i]) ELSE ts[i].kind = ","
Members(ts) ==
  /\ Len(ts) % 4 = 3
  /\ \A i \in DOMAIN ts : CASE i % 4 = 1 -> ts[i].kind = "string" [] i % 4 = 2 -> ts[i].kind = ":"
                            [] i % 4 = 3 -> IsValue(ts[i]) [] OTHER -> ts[i].kind = ","
  /\ \A i, j \in DOMAIN ts : i % 4 = 1 /\ j % 4 = 1 /\ ts[i].name = ts[j].name => i = j

\* Whether the whole of ts is one value, found by reducing the brackets that
\* close first.
RECURSIVE OneValue(_)
OneValue(ts) ==
  LET closes == {i \in DOMAIN ts : ts[i].kind \in {"]", "}"}}
      c == CHOOSE i \in closes : \A j \in closes : i <= j
      opens == {i \in 1..c : ts[i].kind \in {"[", "{"}}
      o == CHOOSE i \in opens : \A j \in opens : j <= i
      in == SubSeq(ts, o + 1, c - 1)
  IN  IF closes = {} THEN Len(ts) = 1 /\ IsValue(ts[1])
      ELSE /\ opens # {}
           /\ \/ ts[o].kind = "[" /\ ts[c].kind = "]" /\ (in = <<>> \/ Items(in))
              \/ ts[o].kind = "{" /\ ts[c].kind = "}" /\ (in = <<>> \/ Members(in))
           /\ OneValue(SubSeq(ts, 1, o - 1) \o <<Token("value", <<>>)>> \o SubSeq(ts, c + 1, Len(ts)))

\* How deep the tokens lie in brackets.
Depth(ts, i) ==
  Cardinality({j \in 1..(i-1) : ts[j].kind \in {"[", "{"}})
    - Cardinality({j \in 1..(i-1) : ts[j].kind \in {"]", "}"}})
Shallow(ts) == \A i \in DOMAIN ts : ts[i].kind \in {"]", "}"} \/ Depth(ts, i) <= MAX_NESTING

\* json_parse_string reads a text exactly when it begins with a value of the
\* JSON grammar that repeats no name in an object and is not nested deeper
\* than MAX_NESTING: no edit of a text makes the parser accept something
\* else, or refuse such a beginning.  It is about the structure: a number is one
\* symbol, and a string is what get_quoted_string takes for one.
ParsesTheGrammar ==
  text # <<>> =>
    LET ts == Tokens(text, 1)
    IN  json_parse_string(text).ok <=>
          \E n \in 1..Len(ts) : OneValue(SubSeq(ts, 1, n)) /\ Shallow(SubSeq(ts, 1, n))

\* Whatever json_parse_string reads, from however odd a text, comes back as
\* the same value when it is written, plainly or prettily, and read again,
\* and the writing has nothing after it.  (A value that reads back differently
\* would have another hash in the chaincode than in the ledger.)
WrittenValuesReadBack ==
  LET r == json_parse_string(text)
  IN  r.ok => \A p \in BOOLEAN :
                LET written == Serialize(r.value, p)
                    again == json_parse_string(written)
                IN  again.ok /\ again.value = r.value /\ again.at = Len(written) + 1
=============================================================================

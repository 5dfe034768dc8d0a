------------------------------ MODULE JsonText ------------------------------
(***************************************************************************)
(* The text side of common/json/parson.c: the recursive-descent parser,    *)
(* the two serializers and the escapes in strings.                         *)
(*                                                                         *)
(* A text is a sequence of symbols.  A symbol is a character, or a run of  *)
(* characters the parser takes as one: "null", a number, and the five      *)
(* characters uXXXX after a backslash.                                     *)
(***************************************************************************)
EXTENDS Integers, Sequences, SequencesExt, Utf8

CONSTANT MAX_NESTING  \* 2048 in the code

Quote == "quote"
Backslash == "backslash"
NUL == "NUL"
Whitespace == {" ", "newline"}
Controls == {"newline", "control", NUL}   \* below 0x20

\* Parsed values; kids are the members of an object or the items of an array.
Value(type, text, kids) == [type |-> type, text |-> text, kids |-> kids]
Kid(name, value) == [name |-> name, value |-> value]

----------------------------------------------------------------------------
(* Parsing *)

Sym(s, i) == IF i <= Len(s) THEN s[i] ELSE NUL

RECURSIVE SKIP_WHITESPACES(_, _)
SKIP_WHITESPACES(s, i) ==
  IF Sym(s, i) \in Whitespace THEN SKIP_WHITESPACES(s, i + 1) ELSE i

\* The place after the quote that closes the string opened before i, or 0.
RECURSIVE skip_quotes(_, _)
skip_quotes(s, i) ==
  CASE Sym(s, i) = Quote -> i + 1
    [] Sym(s, i) = NUL -> 0
    [] Sym(s, i) = Backslash -> IF Sym(s, i + 1) = NUL THEN 0 ELSE skip_quotes(s, i + 2)
    [] OTHER -> skip_quotes(s, i + 1)

\* What an escape stands for.
Unescaped ==
  [e \in {Quote, Backslash, "/", "n", "u0001", "u0000", "u0078"} |->
     CASE e = "n" -> "newline" [] e = "u0001" -> "control" [] e = "u0000" -> NUL
       [] e = "u0078" -> "x" [] OTHER -> e]

RECURSIVE process_string(_)
process_string(s) ==
  IF s = <<>> THEN Good(<<>>, 0)
  ELSE LET escaped == s[1] = Backslash
           c == IF escaped THEN Unescaped[s[2]] ELSE s[1]
           rest == process_string(SubSeq(s, IF escaped THEN 3 ELSE 2, Len(s)))
       IN  IF IF escaped THEN s[2] \notin DOMAIN Unescaped ELSE c \in Controls THEN Bad
           ELSE IF ~rest.ok THEN Bad
           ELSE Good(<<c>> \o rest.value, 0)

\* A C string ends at its first NUL.
CString(s) ==
  LET ends == {i \in DOMAIN s : s[i] = NUL}
  IN  IF ends = {} THEN s ELSE SubSeq(s, 1, (CHOOSE i \in ends : \A j \in ends : i <= j) - 1)

get_quoted_string(s, i) ==
  LET end == skip_quotes(s, i + 1)
      str == process_string(SubSeq(s, i + 1, end - 2))
  IN  IF Sym(s, i) # Quote \/ end = 0 \/ ~str.ok THEN Bad ELSE Good(CString(str.value), end)

Closing(v) == IF v.type = "object" THEN "}" ELSE "]"

\* Mutant: json_object_add does not look for the name.
AnyName(v, name) == FALSE

\* json_object_add refuses a name the object has.
HasName(v, name) == v.type = "object" /\ \E i \in DOMAIN v.kids : v.kids[i].name = name

RECURSIVE parse_value(_, _, _)
RECURSIVE ParseKids(_, _, _, _)

\* The loop of parse_object_value and parse_array_value: out is what they
\* have so far, i where the next member or item starts.
ParseKids(s, i, nesting, out) ==
  LET object == out.type = "object"
      key == IF object THEN get_quoted_string(s, i) ELSE Good(<<>>, i)
      colon == SKIP_WHITESPACES(s, key.at)
      new == parse_value(s, IF object THEN colon + 1 ELSE i, nesting)
      more == [out EXCEPT !.kids = Append(@, Kid(key.value, new.value))]
      next == SKIP_WHITESPACES(s, new.at)
  IN  IF Sym(s, i) = NUL \/ ~key.ok THEN Bad
      ELSE IF object /\ Sym(s, colon) # ":" THEN Bad
      ELSE IF ~new.ok \/ HasName(out, key.value) THEN Bad
      ELSE IF Sym(s, next) = "," THEN ParseKids(s, SKIP_WHITESPACES(s, next + 1), nesting, more)
      ELSE IF Sym(s, next) = Closing(out) THEN Good(more, next + 1)
      ELSE Bad

\* parse_object_value and parse_array_value
ParseContainer(s, i, nesting, out) ==
  LET first == SKIP_WHITESPACES(s, i + 1)
  IN  IF Sym(s, first) = Closing(out) THEN Good(out, first + 1)
      ELSE ParseKids(s, first, nesting, out)

\* The switch of parse_value.
ParseByFirst(s, from, nesting) ==
  LET i == SKIP_WHITESPACES(s, from)
      c == Sym(s, i)
      str == get_quoted_string(s, i)
  IN  CASE c = "{" -> ParseContainer(s, i, nesting + 1, Value("object", <<>>, <<>>))
        [] c = "[" -> ParseContainer(s, i, nesting + 1, Value("array", <<>>, <<>>))
        [] c = Quote -> IF str.ok THEN Good(Value("string", str.value, <<>>), str.at) ELSE Bad
        [] c \in {"null", "1"} -> Good(Value(c, <<>>, <<>>), i + 1)
        [] OTHER -> Bad

parse_value(s, from, nesting) ==
  IF nesting > MAX_NESTING THEN Bad ELSE ParseByFirst(s, from, nesting)

\* What follows the first value is not looked at.
json_parse_string(s) == parse_value(s, 1, 0)

----------------------------------------------------------------------------
(* Serializing *)

\* Mutant: the backslash is written as it is.
EscapeAllButBackslash(c) ==
  CASE c \in {Quote, "/"} -> <<Backslash, c>>
    [] c = "newline" -> <<Backslash, "n">>
    [] c = "control" -> <<Backslash, "u0001">>
    [] OTHER -> <<c>>

Escape(c) ==
  CASE c \in {Quote, Backslash, "/"} -> <<Backslash, c>>
    [] c = "newline" -> <<Backslash, "n">>
    [] c = "control" -> <<Backslash, "u0001">>
    [] OTHER -> <<c>>

json_serialize_string(s) ==
  <<Quote>> \o FlattenSeq([i \in DOMAIN s |-> Escape(s[i])]) \o <<Quote>>

Indent(level) == [i \in 1..level |-> " "]   \* append_indent, one symbol a level

RECURSIVE json_serialize_r(_, _, _)
json_serialize_r(v, level, is_pretty) ==
  LET When(s) == IF is_pretty THEN s ELSE <<>>
      count == Len(v.kids)
      name(i) == IF v.type = "object"
                 THEN json_serialize_string(v.kids[i].name) \o <<":">> \o When(<<" ">>)
                 ELSE <<>>
      kid(i) == When(Indent(level + 1)) \o name(i)
                  \o json_serialize_r(v.kids[i].value, level + 1, is_pretty)
                  \o (IF i < count THEN <<",">> ELSE <<>>) \o When(<<"newline">>)
  IN  CASE v.type \in {"object", "array"} ->
             <<IF v.type = "object" THEN "{" ELSE "[">>
               \o (IF count > 0 THEN When(<<"newline">>) ELSE <<>>)
               \o FlattenSeq([i \in 1..count |-> kid(i)])
               \o (IF count > 0 THEN When(Indent(level)) ELSE <<>>)
               \o <<Closing(v)>>
        [] v.type = "string" -> json_serialize_string(v.text)
        [] OTHER -> <<v.type>>

\* json_serialize_to_string and json_serialize_to_string_pretty
Serialize(v, is_pretty) == json_serialize_r(v, 0, is_pretty)
=============================================================================

-------------------------------- MODULE Json --------------------------------
(***************************************************************************)
(* The JSON of RPC arguments (src/src/core/json_util.cpp): the encoder,    *)
(* the recursive-descent parser with its depth limit, and dump().          *)
(*                                                                         *)
(* A text is a sequence of symbols.  A symbol is a character, or a lexeme  *)
(* whose letters do not matter: a word (true, false, null), a numeral, the *)
(* four digits of a \u escape.  Within a string every symbol is content    *)
(* except the quote and the backslash.  The scope is recursive and is left *)
(* to TLC.                                                                 *)
(***************************************************************************)
EXTENDS Integers, Sequences, SequencesExt

CONSTANTS
    MaxDepth,  \* kMaxDepth
    Numerals,  \* numerals a text may hold
    strtod,    \* the value of a numeral
    Infinity,  \* the value of one that is too large
    Printed,   \* the numeral that format_number prints for a finite value
    HexOf      \* the character that four hex digits stand for

Words == {"true", "false", "null"}

-----------------------------------------------------------------------------
(* Writing.                                                                *)

\* The two-character escapes, by the character they stand for.
ShortEscape ==
    [quote |-> "quote", backslash |-> "backslash", newline |-> "n", tab |-> "t"]

\* Mutant: only the quote and the controls are escaped.
EscapedNoBackslash(c) ==
    IF c = "backslash" THEN <<c>>
    ELSE IF c \in DOMAIN ShortEscape THEN <<"backslash", ShortEscape[c]>>
    ELSE IF c = "control" THEN <<"backslash", "u", "0001">> ELSE <<c>>

\* One character of encode_json_string; '/' and non-ASCII stay as they are.
Escaped(c) ==
    IF c \in DOMAIN ShortEscape THEN <<"backslash", ShortEscape[c]>>
    ELSE IF c = "control" THEN <<"backslash", "u", "0001">> ELSE <<c>>

encode_json_string(s) ==
    <<"quote">> \o FlattenSeq([i \in DOMAIN s |-> Escaped(s[i])]) \o <<"quote">>

\* The items of an array or object, with commas between them.
Listed(open, items, close) ==
    <<open>> \o FlattenSeq([i \in DOMAIN items |->
                              IF i = 1 THEN items[i] ELSE <<",">> \o items[i]])
             \o <<close>>

encode_json_string_array(values) ==
    Listed("[", [i \in DOMAIN values |-> encode_json_string(values[i])], "]")

-----------------------------------------------------------------------------
(* Values, and dump().                                                     *)

Null == [type |-> "null"]
Bool(b) == [type |-> "bool", bool |-> b]
Number(n) == [type |-> "number", number |-> n]
String(s) == [type |-> "string", string |-> s]
Array(items) == [type |-> "array", array |-> items]
Object(members) == [type |-> "object", object |-> members]

format_number(n) == IF n = Infinity THEN "null" ELSE Printed[n]

\* std::map hands its keys out in one fixed order.
RECURSIVE dump(_)
dump(v) ==
    CASE v.type = "null" -> <<"null">>
      [] v.type = "bool" -> <<IF v.bool THEN "true" ELSE "false">>
      [] v.type = "number" -> <<format_number(v.number)>>
      [] v.type = "string" -> encode_json_string(v.string)
      [] v.type = "array" ->
           Listed("[", [i \in DOMAIN v.array |-> dump(v.array[i])], "]")
      [] v.type = "object" ->
           LET keys == SetToSeq(DOMAIN v.object)
           IN Listed("{", [i \in DOMAIN keys |->
                 encode_json_string(keys[i]) \o <<":">> \o dump(v.object[keys[i]])],
                 "}")

-----------------------------------------------------------------------------
(* Parsing.  A result is a value and the index after it, or a failure and  *)
(* the index at which it was met.                                          *)

Parsed(v, i) == [ok |-> TRUE, v |-> v, i |-> i]
Failed(i) == [ok |-> FALSE, i |-> i]
At(t, i, c) == i <= Len(t) /\ t[i] = c

RECURSIVE skip_whitespace(_, _)
skip_whitespace(t, i) ==
    IF At(t, i, "space") THEN skip_whitespace(t, i + 1) ELSE i

\* Mutant: a high surrogate takes any escape that follows as its other half.
CodeAtAny(t, i) ==
    IF At(t, i, "D800") /\ At(t, i + 1, "backslash") /\ At(t, i + 2, "u")
         /\ i + 3 <= Len(t)
    THEN [c |-> "pair", i |-> i + 4]
    ELSE [c |-> HexOf[t[i]], i |-> i + 1]

\* The character of a \u escape whose digits are at i: a high surrogate and a
\* low one that follows make one character, a lone one stands for itself.
CodeAt(t, i) ==
    IF At(t, i, "D800") /\ At(t, i + 1, "backslash") /\ At(t, i + 2, "u")
         /\ At(t, i + 3, "DC00")
    THEN [c |-> "pair", i |-> i + 4]
    ELSE [c |-> HexOf[t[i]], i |-> i + 1]

Unescape ==
    [quote |-> "quote", backslash |-> "backslash", slash |-> "slash",
     n |-> "newline", t |-> "tab"]

\* parse_string from inside the quotes, with what was read so far.
RECURSIVE ParseString(_, _, _)
ParseString(t, i, s) ==
    CASE i > Len(t) -> Failed(i)
      [] At(t, i, "quote") -> Parsed(s, i + 1)
      [] i <= Len(t) /\ t[i] \notin {"quote", "backslash"} ->
           ParseString(t, i + 1, Append(s, t[i]))
      [] At(t, i, "backslash") ->
           IF i + 1 > Len(t) THEN Failed(i + 1)
           ELSE IF t[i + 1] \in DOMAIN Unescape
           THEN ParseString(t, i + 2, Append(s, Unescape[t[i + 1]]))
           ELSE IF t[i + 1] # "u" THEN Failed(i + 1)
           ELSE IF i + 2 > Len(t) \/ t[i + 2] \notin DOMAIN HexOf THEN Failed(i + 2)
           ELSE LET code == CodeAt(t, i + 2)
                IN ParseString(t, code.i, Append(s, code.c))

parse_string(t, i) ==
    IF At(t, i, "quote") THEN ParseString(t, i + 1, <<>>) ELSE Failed(i)

\* What follows an element or a member: its successor, or the end.
After(t, i, close) ==
    IF At(t, i, ",") THEN "next" ELSE IF At(t, i, close) THEN "end" ELSE "fail"

RECURSIVE parse_value(_, _, _), ParseItems(_, _, _, _), ParseMembers(_, _, _, _)

\* The loop of parse_array, at an element.
ParseItems(t, i, depth, items) ==
    LET item == parse_value(t, i, depth + 1) IN
    IF ~item.ok THEN item
    ELSE LET j == skip_whitespace(t, item.i)
             more == Append(items, item.v)
         IN CASE After(t, j, "]") = "next" -> ParseItems(t, j + 1, depth, more)
              [] After(t, j, "]") = "end" -> Parsed(Array(more), j + 1)
              [] After(t, j, "]") = "fail" -> Failed(j)

parse_array(t, i, depth) ==
    LET j == skip_whitespace(t, i + 1)
    IN IF At(t, j, "]") THEN Parsed(Array(<<>>), j + 1)
       ELSE ParseItems(t, j, depth, <<>>)

\* The loop of parse_object, at a key; a key that is repeated is overwritten.
ParseMembers(t, i, depth, members) ==
    LET key == parse_string(t, skip_whitespace(t, i)) IN
    IF ~key.ok THEN key
    ELSE LET colon == skip_whitespace(t, key.i) IN
    IF ~At(t, colon, ":") THEN Failed(colon)
    ELSE LET value == parse_value(t, colon + 1, depth + 1) IN
    IF ~value.ok THEN value
    ELSE LET j == skip_whitespace(t, value.i)
             more == [k \in DOMAIN members \cup {key.v} |->
                        IF k = key.v THEN value.v ELSE members[k]]
         IN CASE After(t, j, "}") = "next" -> ParseMembers(t, j + 1, depth, more)
              [] After(t, j, "}") = "end" -> Parsed(Object(more), j + 1)
              [] After(t, j, "}") = "fail" -> Failed(j)

parse_object(t, i, depth) ==
    LET j == skip_whitespace(t, i + 1)
    IN IF At(t, j, "}") THEN Parsed(Object([k \in {} |-> Null]), j + 1)
       ELSE ParseMembers(t, j, depth, [k \in {} |-> Null])

\* Words and numerals.
ParseLexeme(t, i) ==
    CASE t[i] \in Numerals -> Parsed(Number(strtod[t[i]]), i + 1)
      [] t[i] \in {"true", "false"} -> Parsed(Bool(t[i] = "true"), i + 1)
      [] t[i] = "null" -> Parsed(Null, i + 1)
      [] t[i] \notin Numerals \cup Words -> Failed(i)

parse_value(t, start, depth) ==
    LET i == skip_whitespace(t, start) IN
    CASE depth > MaxDepth -> Failed(i)
      [] depth <= MaxDepth /\ i > Len(t) -> Failed(i)
      [] depth <= MaxDepth /\ i <= Len(t) ->
           CASE t[i] = "{" -> parse_object(t, i, depth)
             [] t[i] = "[" -> parse_array(t, i, depth)
             [] t[i] = "quote" ->
                  LET s == parse_string(t, i)
                  IN IF s.ok THEN Parsed(String(s.v), s.i) ELSE s
             [] t[i] \notin {"{", "[", "quote"} -> ParseLexeme(t, i)

\* JsonParser::parse: the whole text is one value.
parse(t) ==
    LET r == parse_value(t, 1, 0)
        end == skip_whitespace(t, r.i)
    IN IF r.ok /\ end <= Len(t) THEN Failed(end) ELSE r

\* What decode_json_string_array makes of an element.
Argument(v) ==
    CASE v.type = "string" -> v.string
      [] v.type = "null" -> <<>>
      [] v.type \notin {"string", "null"} -> dump(v)

\* decode_json_string_array: <<FALSE>> or <<TRUE, strings>>.
decode_json_string_array(t) ==
    LET r == parse(t)
    IN IF r.ok /\ r.v.type = "array"
       THEN <<TRUE, [i \in DOMAIN r.v.array |-> Argument(r.v.array[i])]>>
       ELSE <<FALSE>>

-----------------------------------------------------------------------------
(* Texts and strings to try, built piece by piece.                         *)

CONSTANTS
    Fragments,   \* pieces of JSON texts
    Characters,  \* characters of arguments
    MaxText,     \* bound: fragments of a text
    MaxString    \* bound: characters of all the arguments of a call

VARIABLES
    pieces,      \* the fragments of a JSON text
    args         \* the arguments of a call

vars == <<pieces, args>>

Init == pieces = <<>> /\ args = <<>>

Text == FlattenSeq(pieces)

\* A text can still become a value when the parser ran out of symbols.
Unfinished(t) == LET r == parse(t) IN ~r.ok /\ r.i > Len(t)

AddToText ==
    /\ args = <<>>
    /\ Unfinished(Text)
    /\ Len(pieces) < MaxText
    /\ \E f \in Fragments : pieces' = Append(pieces, f)
    /\ UNCHANGED args

AddArgument ==
    /\ pieces = <<>>
    /\ Len(args) < 2
    /\ args' = Append(args, <<>>)
    /\ UNCHANGED pieces

AddCharacter ==
    /\ args # <<>>
    /\ Len(FlattenSeq(args)) < MaxString
    /\ \E c \in Characters : args' = [args EXCEPT ![Len(args)] = Append(@, c)]
    /\ UNCHANGED pieces

Next == AddToText \/ AddArgument \/ AddCharacter

Spec == Init /\ [][Next]_vars

\* Another client may escape every character it has digits for.
Digits(c) == {h \in DOMAIN HexOf : HexOf[h] = c}
FullyEscaped(c) ==
    IF c = "pair" THEN <<"backslash", "u", "D800", "backslash", "u", "DC00">>
    ELSE IF Digits(c) # {} THEN <<"backslash", "u", CHOOSE h \in Digits(c) : TRUE>>
    ELSE Escaped(c)

Foreign(values) ==
    Listed("[", [i \in DOMAIN values |->
        <<"quote">> \o FlattenSeq([k \in DOMAIN values[i] |-> FullyEscaped(values[i][k])])
            \o <<"quote">>], "]")

\* The two halves of a character outside the basic plane, one after the other.
Halves(s) == \E k \in 1..(Len(s) - 1) : s[k] = "high" /\ s[k + 1] = "low"

\* Whatever the arguments of an RPC contain, the receiver's decoder gives back
\* exactly them, whether the sender escapes as little as this client does or as
\* much as JSON allows; a surrogate without its other half does not disturb
\* what follows it (encode_json_string_array, decode_json_string_array).
ArgumentsSurvive ==
    /\ decode_json_string_array(encode_json_string_array(args)) = <<TRUE, args>>
    /\ (\A i \in DOMAIN args : ~Halves(args[i]))
         => decode_json_string_array(Foreign(args)) = <<TRUE, args>>

\* A value without the numbers that JSON has no numeral for: null stands there.
RECURSIVE Expressible(_)
Expressible(v) ==
    CASE v.type = "number" -> IF v.number = Infinity THEN Null ELSE v
      [] v.type = "array" ->
           Array([i \in DOMAIN v.array |-> Expressible(v.array[i])])
      [] v.type = "object" ->
           Object([k \in DOMAIN v.object |-> Expressible(v.object[k])])
      [] v.type \notin {"number", "array", "object"} -> v

\* The compact form in which a nested argument is handed on means the same: it
\* parses, and to the value it was made from, through escapes, surrogates,
\* repeated keys, blanks and finite numbers; a number that strtod takes for
\* infinite, and nothing else, becomes null (parse, dump, format_number).
CompactFormFaithful ==
    LET r == parse(Text)
    IN r.ok => /\ parse(dump(r.v)).ok
               /\ parse(dump(r.v)).v = Expressible(r.v)

Literals == Numerals \cup {"true", "false"}

\* json_util.hpp: "Non-string elements are stringified: numbers and booleans by
\* their literal text".
LiteralTextKept ==
    \A c \in Literals :
        Text = <<"[", c, "]">>
            => decode_json_string_array(Text) = <<TRUE, << <<c>> >> >>
=============================================================================

------------------------------- MODULE JsonText -------------------------------
(***************************************************************************)
(* JSON values and their text (utils/json.c): a document is built with the *)
(* editing functions, written to text, read from text, and so on.          *)
(*                                                                         *)
(* A value is <<type, content>>: a sequence of characters for a string,    *)
(* values for an array, entries <<key, value>> for an object; a number is  *)
(* in tenths.  A text is a sequence of characters; the literals true,      *)
(* false and null are one character each.                                  *)
(***************************************************************************)
EXTENDS Integers, Sequences, FiniteSets, SequencesExt

CONSTANTS
    JTexts,         \* texts of clients
    JKeys, JPieces, \* keys and values the editing functions are given
    JIntMax,        \* largest int64_t
    Figures,        \* 10^n if %g prints n figures
    MaxDepth,       \* MAX_JSON_RECURSION_DEPTH
    MaxString,      \* MAX_JSON_STRING_LENGTH
    Imbalance,      \* opening brackets too many that are let through
    MaxEdits, MaxTexts  \* bounds of the model: edits, texts written

ASSUME JsonAssumption == {JIntMax, Figures, MaxDepth, MaxString, MaxEdits, MaxTexts} \subseteq Nat /\ MaxDepth % 2 = 0

VARIABLES
    jvalue,     \* the value in memory, or Nothing
    jtext,      \* the last text
    jwritten,   \* the value it was written from; Nothing if a client's
    jedits, jtexts

jsonVars == <<jvalue, jtext, jwritten, jedits, jtexts>>

Nothing == <<"nothing", 0>>
Quote == "\""
Backslash == "\\"
Digit == <<"0", "1", "2", "3", "4", "5", "6", "7", "8", "9">>
Literals == [true |-> <<"bool", 1>>, false |-> <<"bool", 0>>, null |-> <<"null", 0>>]

CharAt(t, p) == IF p <= Len(t) THEN t[p] ELSE "end"
IsDigit(t, p) == CharAt(t, p) \in ToSet(Digit)
DigitAt(t, p) == (CHOOSE d \in 1 .. 10 : Digit[d] = t[p]) - 1
WrapInt(n) == ((n + JIntMax + 1) % (2 * (JIntMax + 1))) - JIntMax - 1

RECURSIVE skip_whitespace(_, _), StringEnd(_, _), DigitsEnd(_, _), Number(_, _, _)
skip_whitespace(t, p) == IF CharAt(t, p) = " " THEN skip_whitespace(t, p + 1) ELSE p

StringEnd(t, p) ==
    IF CharAt(t, p) \in {Quote, "end"} THEN p
    ELSE StringEnd(t, IF t[p] = Backslash /\ p < Len(t) THEN p + 2 ELSE p + 1)

\* What parsing at p gives: the value and where it stops.
Result(v, p) == [v |-> v, p |-> p]
Fails(p) == Result(Nothing, p)

\* The characters between the quotes, the escapes as they stand.
parse_string(t, p) ==
    LET e == StringEnd(t, p + 1)  s == SubSeq(t, p + 1, e - 1) IN
    IF CharAt(t, p) # Quote \/ CharAt(t, e) # Quote \/ Len(s) > MaxString THEN Fails(e) ELSE Result(<<"str", s>>, e + 1)

DigitsEnd(t, p) == IF IsDigit(t, p) THEN DigitsEnd(t, p + 1) ELSE p
Number(t, p, q) == IF p = q THEN 0 ELSE 10 * Number(t, p, q - 1) + DigitAt(t, q - 1)

\* A sign alone is 0; an integer wraps.
parse_number(t, at) ==
    LET start == IF t[at] = "-" THEN at + 1 ELSE at
        int == DigitsEnd(t, start)
        point == CharAt(t, int) = "."
        frac == IF point THEN DigitsEnd(t, int + 1) ELSE int
        exp == CharAt(t, frac) = "e"
        digits == IF CharAt(t, frac + 1) \in {"+", "-"} THEN frac + 2 ELSE frac + 1
        end == IF exp THEN DigitsEnd(t, digits) ELSE frac
        tenths == 10 * Number(t, start, int) + (IF point /\ frac > int + 1 THEN DigitAt(t, int + 1) ELSE 0)
        power == IF exp THEN 10 ^ Number(t, digits, end) ELSE 1
        value == IF exp /\ CharAt(t, frac + 1) = "-" THEN tenths \div power ELSE tenths * power
        sign == IF t[at] = "-" THEN -1 ELSE 1
    IN  Result(IF point \/ exp THEN <<"num", sign * value>> ELSE <<"int", WrapInt(sign * Number(t, start, int))>>, end)

\* An entry of the same key is replaced where it stands.
Find(entries, key) == {i \in DOMAIN entries : entries[i][1] = key}
json_object_set(o, key, v) ==
    LET at == Find(o[2], key) IN
    <<"obj", IF at = {} THEN Append(o[2], <<key, v>>) ELSE [o[2] EXCEPT ![CHOOSE i \in at : TRUE][2] = v]>>

RECURSIVE parse_value(_, _, _), Items(_, _, _, _), Entries(_, _, _, _)

\* Items of an array from p on; what follows one is a comma or the end.
Items(t, p, depth, array) ==
    LET r == parse_value(t, skip_whitespace(t, p), depth + 1)
        q == skip_whitespace(t, r.p)
        with == <<"arr", Append(array[2], r.v)>>
    IN  CASE r.v = Nothing   -> r
          [] CharAt(t, q) = "," -> Items(t, q + 1, depth, with)
          [] CharAt(t, q) = "]" -> Result(with, q + 1)
          [] OTHER -> Fails(q)
parse_array_with_depth(t, p, depth) ==
    LET q == skip_whitespace(t, p + 1) IN
    IF depth > MaxDepth THEN Fails(p)
    ELSE IF CharAt(t, q) = "]" THEN Result(<<"arr", <<>>>>, q + 1) ELSE Items(t, q, depth, <<"arr", <<>>>>)

Entries(t, p, depth, object) ==
    LET key == parse_string(t, skip_whitespace(t, p))
        colon == skip_whitespace(t, key.p)
        r == parse_value(t, skip_whitespace(t, colon + 1), depth + 1)
        q == skip_whitespace(t, r.p)
        with == json_object_set(object, key.v[2], r.v)
    IN  CASE key.v = Nothing \/ CharAt(t, colon) # ":" \/ r.v = Nothing -> Fails(p)
          [] CharAt(t, q) = "," -> Entries(t, q + 1, depth, with)
          [] CharAt(t, q) = "}" -> Result(with, q + 1)
          [] OTHER -> Fails(q)
parse_object_with_depth(t, p, depth) ==
    LET q == skip_whitespace(t, p + 1) IN
    IF depth > MaxDepth THEN Fails(p)
    ELSE IF CharAt(t, q) = "}" THEN Result(<<"obj", <<>>>>, q + 1) ELSE Entries(t, q, depth, <<"obj", <<>>>>)

\* Each nesting counts twice: here and in the container.
parse_value(t, at, depth) ==
    LET p == skip_whitespace(t, at)  c == CharAt(t, p) IN
    CASE depth > MaxDepth \/ c = "end" -> Fails(p)
      [] c = "{" -> parse_object_with_depth(t, p, depth + 1)
      [] c = "[" -> parse_array_with_depth(t, p, depth + 1)
      [] c = Quote -> parse_string(t, p)
      [] c \in DOMAIN Literals -> Result(Literals[c], p + 1)
      [] IsDigit(t, p) \/ c = "-" -> parse_number(t, p)
      [] OTHER -> Fails(p)

\* Outside of strings, far more brackets opened than closed.
Unbalanced(t) ==
    LET step(s, c) == CASE s.escaped -> [s EXCEPT !.escaped = FALSE]
                        [] s.inside /\ c = Backslash -> [s EXCEPT !.escaped = TRUE]
                        [] c = Quote -> [s EXCEPT !.inside = ~ @]
                        [] ~ s.inside /\ c \in {"{", "}"} -> [s EXCEPT !.braces = IF c = "{" THEN @ + 1 ELSE @ - 1]
                        [] ~ s.inside /\ c \in {"[", "]"} -> [s EXCEPT !.brackets = IF c = "[" THEN @ + 1 ELSE @ - 1]
                        [] OTHER -> s
        end == FoldLeft(step, [inside |-> FALSE, escaped |-> FALSE, braces |-> 0, brackets |-> 0], t)
    IN  end.braces > Imbalance \/ end.brackets > Imbalance

\* What follows the value is ignored.
Parsed(t) == IF Unbalanced(t) THEN Nothing ELSE parse_value(t, 1, 0).v

-----------------------------------------------------------------------------
(* Writing.                                                                *)

Escapes == [x \in {Quote, Backslash, "newline"} |-> IF x = "newline" THEN <<Backslash, "n">> ELSE <<Backslash, x>>]
escape_string(s) ==
    <<Quote>> \o FlattenSeq([i \in DOMAIN s |-> IF s[i] \in DOMAIN Escapes THEN Escapes[s[i]] ELSE <<s[i]>>]) \o <<Quote>>

RECURSIVE DigitsOf(_), Scale(_), Power(_), stringify_value(_)
DigitsOf(n) == IF n < 10 THEN <<Digit[n + 1]>> ELSE Append(DigitsOf(n \div 10), Digit[(n % 10) + 1])
Scale(n) == IF n < Figures THEN 1 ELSE 10 * Scale(n \div 10)
Power(n) == IF n < 100 THEN 0 ELSE 1 + Power(n \div 10)
Decimal(n) == DigitsOf(n \div 10) \o (IF n % 10 = 0 THEN <<>> ELSE <<".", Digit[(n % 10) + 1]>>)

\* %g of a number of tenths: rounded to the figures, large ones with an exponent.
Rounded(n) == ((n + Scale(n) \div 2) \div Scale(n)) * Scale(n)
General(n) ==
    LET r == Rounded(n) IN
    IF r < 10 * Figures THEN Decimal(r)
    ELSE Decimal(r \div (10 ^ Power(r))) \o <<"e", "+", "0">> \o DigitsOf(Power(r))
Signed(n, text) == IF n < 0 THEN <<"-">> \o text ELSE text
Abs(n) == IF n < 0 THEN - n ELSE n

Join(texts) == FlattenSeq([i \in DOMAIN texts |-> IF i < Len(texts) THEN Append(texts[i], ",") ELSE texts[i]])
stringify_array(v) == <<"[">> \o Join([i \in DOMAIN v[2] |-> stringify_value(v[2][i])]) \o <<"]">>
stringify_object(v) ==
    <<"{">> \o Join([i \in DOMAIN v[2] |-> escape_string(v[2][i][1]) \o <<":">> \o stringify_value(v[2][i][2])]) \o <<"}">>
stringify_value(v) ==
    CASE v[1] = "null" -> <<"null">>
      [] v[1] = "bool" -> <<IF v[2] = 1 THEN "true" ELSE "false">>
      [] v[1] = "num"  -> Signed(v[2], General(Abs(v[2])))
      [] v[1] = "int"  -> Signed(v[2], DigitsOf(Abs(v[2])))
      [] v[1] = "str"  -> escape_string(v[2])
      [] v[1] = "arr"  -> stringify_array(v)
      [] v[1] = "obj"  -> stringify_object(v)

-----------------------------------------------------------------------------
JsonInit ==
    /\ jtext \in JTexts
    /\ jvalue = Nothing /\ jwritten = Nothing /\ jedits = 0 /\ jtexts = 0

json_parse ==
    /\ jvalue' = Parsed(jtext)
    /\ UNCHANGED <<jtext, jwritten, jedits, jtexts>>

json_stringify ==
    /\ jvalue # Nothing /\ jtexts < MaxTexts
    /\ jtext' = stringify_value(jvalue)
    /\ jwritten' = jvalue /\ jtexts' = jtexts + 1
    /\ UNCHANGED <<jvalue, jedits>>

RECURSIVE json_clone(_)
json_clone(v) ==
    CASE v[1] = "arr" -> <<"arr", [i \in DOMAIN v[2] |-> json_clone(v[2][i])]>>
      [] v[1] = "obj" -> FoldLeft(LAMBDA o, e : json_object_set(o, e[1], json_clone(e[2])), <<"obj", <<>>>>, v[2])
      [] OTHER -> v

\* The value becomes v.
Edit(v) ==
    /\ jedits < MaxEdits /\ jedits' = jedits + 1
    /\ jvalue' = v
    /\ UNCHANGED <<jtext, jwritten, jtexts>>

SetEntry == jvalue[1] = "obj" /\ \E k \in JKeys, v \in JPieces \cup {jvalue} : Edit(json_object_set(jvalue, k, json_clone(v)))
json_object_remove == jvalue[1] = "obj" /\ \E i \in DOMAIN jvalue[2] : Edit(<<"obj", RemoveAt(jvalue[2], i)>>)
json_array_append == jvalue[1] = "arr" /\ \E v \in JPieces \cup {jvalue} : Edit(<<"arr", Append(jvalue[2], json_clone(v))>>)
json_array_set == jvalue[1] = "arr" /\ \E i \in DOMAIN jvalue[2], v \in JPieces : Edit(<<"arr", [jvalue[2] EXCEPT ![i] = v]>>)
json_array_remove == jvalue[1] = "arr" /\ \E i \in DOMAIN jvalue[2] : Edit(<<"arr", RemoveAt(jvalue[2], i)>>)

JsonNext ==
    \/ json_parse \/ json_stringify
    \/ SetEntry \/ json_object_remove
    \/ json_array_append \/ json_array_set \/ json_array_remove

JsonSpec == JsonInit /\ [][JsonNext]_jsonVars

-----------------------------------------------------------------------------
(* Properties.                                                             *)

Kids(v) == CASE v[1] = "arr" -> v[2]
             [] v[1] = "obj" -> [i \in DOMAIN v[2] |-> v[2][i][2]]
             [] OTHER -> <<>>
Strings(v) == IF v[1] = "str" THEN {v[2]} ELSE IF v[1] = "obj" THEN {e[1] : e \in ToSet(v[2])} ELSE {}

RECURSIVE Everywhere(_, _), Reread(_), Nesting(_)
Everywhere(P(_), v) == P(v) /\ \A i \in DOMAIN Kids(v) : Everywhere(P, Kids(v)[i])
Nesting(v) ==
    IF v[1] \notin {"arr", "obj"} THEN 0
    ELSE 1 + (IF Kids(v) = <<>> THEN 0
              ELSE LET d == {Nesting(k) : k \in ToSet(Kids(v))} IN CHOOSE n \in d : \A m \in d : m <= n)

\* A value names a key once, and its types are those of the source.
JsonTypeOK ==
    Everywhere(LAMBDA v : /\ v[1] \in {"nothing", "null", "bool", "num", "int", "str", "arr", "obj"}
                          /\ v[1] = "obj" => IsInjective([i \in DOMAIN v[2] |-> v[2][i][1]]), jvalue)

\* What is read of what was written: the same value, but every character that needs
\* an escape has become two in a string or a key, and a number has lost its figures
\* beyond those printed and its type if it came out whole.
Unescaped(s) == SubSeq(escape_string(s), 2, Len(escape_string(s)) - 1)
Reread(v) ==
    CASE v[1] = "str" -> <<"str", Unescaped(v[2])>>
      [] v[1] = "arr" -> <<"arr", [i \in DOMAIN v[2] |-> Reread(v[2][i])]>>
      [] v[1] = "obj" -> <<"obj", [i \in DOMAIN v[2] |-> <<Unescaped(v[2][i][1]), Reread(v[2][i][2])>>]>>
      [] v[1] = "num" -> LET r == Rounded(Abs(v[2])) IN
                         IF r < 10 * Figures /\ r % 10 = 0 THEN <<"int", WrapInt((IF v[2] < 0 THEN - r ELSE r) \div 10)>>
                         ELSE <<"num", IF v[2] < 0 THEN - r ELSE r>>
      [] OTHER -> v

\* A value is nested too deep at half the limit.
TooDeep(v) == 2 * Nesting(v) > MaxDepth
TooLong(v) == ~ Everywhere(LAMBDA w : \A s \in Strings(w) : Len(Unescaped(s)) <= MaxString, v)

\* Reading what was written gives that value back, and is refused for depth and
\* length alone.
ReadBack ==
    jwritten # Nothing =>
        Parsed(jtext) = IF TooDeep(jwritten) \/ TooLong(jwritten) THEN Nothing ELSE Reread(jwritten)

\* A text that comes back changed comes back longer: a document with an escape grows
\* with every save and load.
GrowsUnlessPlain ==
    jwritten # Nothing /\ Parsed(jtext) # Nothing /\ stringify_value(Parsed(jtext)) # jtext =>
        Len(stringify_value(Parsed(jtext))) > Len(jtext)

\* JSON text: keys once, and a document that is saved and loaded is itself but for what
\* the format loses, longer if it had an escape.
JsonSound ==
    /\ JsonTypeOK /\ ReadBack /\ GrowsUnlessPlain
=============================================================================

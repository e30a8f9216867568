----------------------------- MODULE JsonCodec ------------------------------
(***************************************************************************)
(* The JSON codec of the fleet dashboard and the MCP endpoint              *)
(* (src/crates/tpt-t-cloud/src/json.rs): the text write_to_string gives a  *)
(* value, and the value Json::parse reads from a text.  A byte is a string *)
(* of one character ("SOH" and "BS" are 1 and 8, "C3" and "A9" the UTF-8   *)
(* of e-acute), a character likewise.  A finite number is an exact decimal *)
(* m * 10^e: of f64's rounding only the overflow to infinity is modelled.  *)
(***************************************************************************)
EXTENDS Integers, Sequences, SequencesExt, FiniteSetsExt

-----------------------------------------------------------------------------
\* The values, as tagged tuples.

JNull == <<"null">>
JBool(b) == <<"bool", b>>
JStr(s) == <<"str", s>>
JArr(items) == <<"arr", items>>
JObj(fields) == <<"obj", fields>>

\* The decimal m * 10^e in lowest terms.
RECURSIVE Decimal(_, _)
Decimal(m, e) ==
    CASE m = 0 -> <<0, 0>>
      [] m # 0 /\ m % 10 = 0 -> Decimal(m \div 10, e + 1)
      [] OTHER -> <<m, e>>

DigitByte == <<"0", "1", "2", "3", "4", "5", "6", "7", "8", "9">>
Digit == Range(DigitByte)

RECURSIVE Digits(_)
Digits(n) ==
    IF n < 10 THEN <<DigitByte[n + 1]>>
    ELSE Append(Digits(n \div 10), DigitByte[(n % 10) + 1])

\* The digits before the point of the largest f64; a decimal with more is
\* infinite.
MaxWhole == 309

\* The numbers that are no decimals: "inf", "-inf" and "NaN".
JNonFinite(name) == <<"nonfinite", name>>

JNum(m, e) ==
    LET size == Len(Digits(IF m < 0 THEN -m ELSE m))
    IN  IF m = 0 \/ size + e <= MaxWhole THEN <<"num", Decimal(m, e)>>
        ELSE JNonFinite(IF m < 0 THEN "-inf" ELSE "inf")

-----------------------------------------------------------------------------
\* Writing

Zeros(n) == [i \in 1 .. n |-> "0"]

\* Plain decimal notation, without an exponent and without trailing zeros
\* after the point.
WriteNumber(n) ==
    LET m == IF n[1] < 0 THEN -n[1] ELSE n[1]
        point == -n[2]
        d == Zeros(point + 1 - Len(Digits(m))) \o Digits(m)
    IN  (IF n[1] < 0 THEN <<"-">> ELSE <<>>)
        \o IF point <= 0 THEN Digits(m) \o Zeros(n[2])
           ELSE SubSeq(d, 1, Len(d) - point) \o <<".">>
                \o SubSeq(d, Len(d) - point + 1, Len(d))

\* The characters with an escape of one letter, and the control characters
\* that are written with four hexadecimal digits.
Escape ==
    [c \in {"\"", "\\", "\n", "\r", "\t", "BS", "\f"} |->
        CASE c = "\n" -> "n" [] c = "\r" -> "r" [] c = "\t" -> "t"
          [] c = "BS" -> "b" [] c = "\f" -> "f" [] OTHER -> c]

ControlHex == [c \in {"SOH"} |-> <<"0", "0", "0", "1">>]

\* How a character is encoded in UTF-8.
Utf8(c) == IF c = "e'" THEN <<"C3", "A9">> ELSE <<c>>

\* A mutated form: a backslash is written as it is.
WriteCharBare(c) ==
    IF c \in DOMAIN Escape \ {"\\"} THEN <<"\\", Escape[c]>>
    ELSE IF c \in DOMAIN ControlHex THEN <<"\\", "u">> \o ControlHex[c]
    ELSE Utf8(c)

WriteChar(c) ==
    IF c \in DOMAIN Escape THEN <<"\\", Escape[c]>>
    ELSE IF c \in DOMAIN ControlHex THEN <<"\\", "u">> \o ControlHex[c]
    ELSE Utf8(c)

WriteString(s) ==
    <<"\"">> \o FlattenSeq([i \in 1 .. Len(s) |-> WriteChar(s[i])]) \o <<"\"">>

\* The texts one after another, a comma between two.
Separated(texts) ==
    FlattenSeq([i \in 1 .. Len(texts) |->
        IF i > 1 THEN <<",">> \o texts[i] ELSE texts[i]])

Literal(v) ==
    CASE v = JNull -> <<"n", "u", "l", "l">>
      [] v = JBool(TRUE) -> <<"t", "r", "u", "e">>
      [] v = JBool(FALSE) -> <<"f", "a", "l", "s", "e">>

\* What format! makes of a number that is not finite; no JSON has it.
NonFiniteText(name) ==
    CASE name = "inf" -> <<"i", "n", "f">>
      [] name = "-inf" -> <<"-", "i", "n", "f">>
      [] name = "NaN" -> <<"N", "a", "N">>

RECURSIVE WriteJson(_)
WriteJson(v) ==
    CASE v[1] \in {"null", "bool"} -> Literal(v)
      [] v[1] = "num" -> WriteNumber(v[2])
      [] v[1] = "nonfinite" -> NonFiniteText(v[2])
      [] v[1] = "str" -> WriteString(v[2])
      [] v[1] = "arr" ->
            <<"[">> \o Separated([i \in 1 .. Len(v[2]) |-> WriteJson(v[2][i])]) \o <<"]">>
      [] v[1] = "obj" ->
            <<"{">> \o Separated([i \in 1 .. Len(v[2]) |->
                           WriteString(v[2][i][1]) \o <<":">> \o WriteJson(v[2][i][2])])
            \o <<"}">>

-----------------------------------------------------------------------------
\* Reading.  A parser is given the bytes and the index of the next one, and
\* returns a value with the index after it, or the refusal.

Refused == [ok |-> FALSE]
Read(v, i) == [ok |-> TRUE, value |-> v, at |-> i]

\* The index after the run of bytes of S that begins at i.
RunEnd(b, i, S) == Min({j \in i .. Len(b) + 1 : j > Len(b) \/ b[j] \notin S})

\* Whether byte i is there and is one of S.
Is(b, i, S) == i <= Len(b) /\ b[i] \in S

SkipWs(b, i) == RunEnd(b, i, {" ", "\t", "\n", "\r"})

Expect(b, i, v) ==
    LET end == i + Len(Literal(v))
    IN  IF end - 1 <= Len(b) /\ SubSeq(b, i, end - 1) = Literal(v)
        THEN Read(v, end) ELSE Refused

\* The number a run of digits stands for.
DigitsValue(ds) ==
    FoldLeft(LAMBDA n, d : 10 * n + (CHOOSE k \in 0 .. 9 : DigitByte[k + 1] = d), 0, ds)

\* Sign, digits, a fraction and an exponent, then str::parse::<f64>, which
\* wants a digit in the mantissa and in an exponent that is there.
ParseNumber(b, i) ==
    LET whole == IF Is(b, i, {"-"}) THEN i + 1 ELSE i
        point == RunEnd(b, whole, Digit)
        frac == IF Is(b, point, {"."}) THEN point + 1 ELSE point
        exp == RunEnd(b, frac, Digit)
        hasExp == Is(b, exp, {"e", "E"})
        power == IF ~hasExp THEN exp
                 ELSE IF Is(b, exp + 1, {"+", "-"}) THEN exp + 2 ELSE exp + 1
        end == RunEnd(b, power, Digit)
        mantissa == SubSeq(b, whole, point - 1) \o SubSeq(b, frac, exp - 1)
        m == DigitsValue(mantissa) * (IF whole > i THEN -1 ELSE 1)
        e == DigitsValue(SubSeq(b, power, end - 1))
                * (IF hasExp /\ Is(b, exp + 1, {"-"}) THEN -1 ELSE 1)
    IN  IF mantissa = <<>> \/ (hasExp /\ end = power) THEN Refused
        ELSE Read(JNum(m, e - (exp - frac)), end)

\* The character of an escape letter, or of four hexadecimal digits (of the
\* codes the writer uses; the parser refuses those of no character).
Unescaped(e) == {c \in DOMAIN Escape : Escape[c] = e} \cup (IF e = "/" THEN {"/"} ELSE {})
FromHex(hex) == {c \in DOMAIN ControlHex : ControlHex[c] = hex}

\* The rest of a string of which s has been read.  A byte that is not an
\* escape becomes the character with that code, whatever it encodes.
RECURSIVE StringRest(_, _, _)
StringRest(b, i, s) ==
    IF i > Len(b) THEN Refused
    ELSE IF b[i] = "\"" THEN Read(s, i + 1)
    ELSE IF b[i] # "\\" THEN StringRest(b, i + 1, Append(s, b[i]))
    ELSE LET hex == Is(b, i + 1, {"u"})
             next == IF hex THEN i + 6 ELSE i + 2
             char == IF next - 1 > Len(b) THEN {}
                     ELSE IF hex THEN FromHex(SubSeq(b, i + 2, i + 5))
                     ELSE Unescaped(b[i + 1])
         IN  IF char = {} THEN Refused
             ELSE StringRest(b, next, Append(s, CHOOSE c \in char : TRUE))

ParseString(b, i) == StringRest(b, i + 1, <<>>)

RECURSIVE ParseValue(_, _), ItemsRest(_, _, _), FieldsRest(_, _, _)

\* What follows an item: another one, or the end of the container.
ItemsRest(b, i, items) ==
    LET item == ParseValue(b, i)
        all == Append(items, item.value)
        k == SkipWs(b, item.at)
    IN  IF ~item.ok THEN Refused
        ELSE IF Is(b, k, {","}) THEN ItemsRest(b, k + 1, all)
        ELSE IF Is(b, k, {"]"}) THEN Read(JArr(all), k + 1)
        ELSE Refused

ParseArray(b, i) ==
    LET k == SkipWs(b, i + 1)
    IN  IF Is(b, k, {"]"}) THEN Read(JArr(<<>>), k + 1) ELSE ItemsRest(b, k, <<>>)

FieldsRest(b, i, fields) ==
    LET q == SkipWs(b, i)
        key == ParseString(b, q)
        colon == SkipWs(b, key.at)
        field == ParseValue(b, colon + 1)
        all == Append(fields, <<key.value, field.value>>)
        k == SkipWs(b, field.at)
    IN  IF ~Is(b, q, {"\""}) THEN Refused
        ELSE IF ~key.ok THEN Refused
        ELSE IF ~Is(b, colon, {":"}) THEN Refused
        ELSE IF ~field.ok THEN Refused
        ELSE IF Is(b, k, {","}) THEN FieldsRest(b, k + 1, all)
        ELSE IF Is(b, k, {"}"}) THEN Read(JObj(all), k + 1)
        ELSE Refused

ParseObject(b, i) ==
    LET k == SkipWs(b, i + 1)
    IN  IF Is(b, k, {"}"}) THEN Read(JObj(<<>>), k + 1) ELSE FieldsRest(b, k, <<>>)

ParseValue(b, i) ==
    LET k == SkipWs(b, i)
        string == ParseString(b, k)
    IN  CASE Is(b, k, {"\""}) -> IF string.ok THEN Read(JStr(string.value), string.at)
                                 ELSE Refused
          [] Is(b, k, {"{"}) -> ParseObject(b, k)
          [] Is(b, k, {"["}) -> ParseArray(b, k)
          [] Is(b, k, {"t"}) -> Expect(b, k, JBool(TRUE))
          [] Is(b, k, {"f"}) -> Expect(b, k, JBool(FALSE))
          [] Is(b, k, {"n"}) -> Expect(b, k, JNull)
          [] Is(b, k, {"-"} \cup Digit) -> ParseNumber(b, k)
          [] OTHER -> Refused

\* One value with nothing but white space after it.
Parse(b) ==
    LET v == ParseValue(b, 1)
    IN  IF ~v.ok THEN Refused
        ELSE IF SkipWs(b, v.at) # Len(b) + 1 THEN Refused
        ELSE v
=============================================================================

------------------------------ MODULE BerryJson ------------------------------
(***************************************************************************)
(* be_jsonlib.c: json.load, a recursive descent over the text's bytes, and *)
(* json.dump, with the escapes of be_strlib.c and be_lexer.c both use.     *)
(*                                                                         *)
(* A text is a sequence of byte values; At() reads 0 past its end, as C    *)
(* does.  A parser takes the text and a position and returns the position  *)
(* it stopped at with the value it pushed, or Null.  A value is a pair of  *)
(* its kind and its contents; a real is the text it was written as.        *)
(* Out of the model: values that are no JSON (they dump as strings),       *)
(* keys that are not strings, and the texture of float rounding.           *)
(***************************************************************************)
EXTENDS Integers, Sequences, SequencesExt, FiniteSets

CONSTANTS
    Documents,        \* the values a script may dump
    JsonTexts,        \* the texts a script may load as they come
    Letters,          \* the bytes an edit may write
    IntMax,           \* M_IMAX; M_IMIN is -IntMax - 1
    MaxExponent,      \* the exponent be_str2real gives up at, 300
    MAX_JSON_STRING_LEN,
    MAX_INDENT,
    MaxEdits          \* bound on the bytes changed between dump and load

VARIABLES
    jtext,            \* the text on its way
    jvalue,           \* what the script holds: what it dumped or has loaded
    edits

jsonVars == <<jtext, jvalue, edits>>

Quote == 34
Backslash == 92
Space == {9, 10, 13, 32}
Digit == 48..57
Nil == <<"nil", 0>>
Null == <<0, Nil>>                  \* a parser that found no value

At(s, i) == IF i \in 1..Len(s) THEN s[i] ELSE 0

(* What follows the backslash of a short escape, and the byte it stands for. *)
Escapes == [c \in {34, 92, 47, 98, 102, 110, 114, 116} |->
              CASE c = 98 -> 8 [] c = 102 -> 12 [] c = 110 -> 10
                [] c = 114 -> 13 [] c = 116 -> 9 [] OTHER -> c]

HexValue == [c \in Digit \cup (65..70) \cup (97..102) |->
               CASE c \in Digit -> c - 48 [] c \in 65..70 -> c - 55
                 [] OTHER -> c - 87]

-----------------------------------------------------------------------------
RECURSIVE SkipSpace(_, _)
SkipSpace(s, i) == IF At(s, i) \in Space THEN SkipSpace(s, i + 1) ELSE i

MatchChar(s, i, c) ==
    LET j == SkipSpace(s, i)
    IN  IF j > 0 /\ At(s, j) = c THEN SkipSpace(s, j + 1) ELSE 0

(* json_strlen_safe(): the room a string needs, -1 when it is malformed.     *)
(* An escaped code unit is counted as three bytes, whatever it takes.        *)
RECURSIVE ByteCount(_, _)
ByteCount(s, i) ==
    LET c == At(s, i)
        e == At(s, i + 1)
        Counted(n, j) == LET rest == ByteCount(s, j)
                         IN  IF rest < 0 \/ rest + n > MAX_JSON_STRING_LEN
                             THEN -1 ELSE rest + n
    IN  CASE c = Quote -> 0
          [] c = Backslash /\ e \in DOMAIN Escapes -> Counted(1, i + 2)
          [] c = Backslash /\ e = 117
             /\ \A k \in 2..5 : At(s, i + k) \in DOMAIN HexValue ->
               Counted(3, i + 6)
          [] c > 31 /\ c # Backslash -> Counted(1, i + 1)
          [] OTHER -> -1

(* be_load_unicode(): the bounds are < 0x7F and < 0x7FF, as the code's.      *)
Utf8(u) ==
    CASE u < 127 -> <<u>>
      [] u \in 127..2046 -> <<192 + (u \div 64), 128 + (u % 64)>>
      [] OTHER -> <<224 + (u \div 4096), 128 + ((u \div 64) % 64),
                    128 + (u % 64)>>

CodeUnit(s, i) == FoldLeft(LAMBDA n, c : (n * 16) + HexValue[c], 0,
                           SubSeq(s, i, i + 3))

(* The bytes parser_string() writes, and where it stops: the closing quote.  *)
RECURSIVE Unescaped(_, _)
Unescaped(s, i) ==
    LET c == At(s, i)
        Then(bytes, j) == LET rest == Unescaped(s, j)
                          IN  <<rest[1], bytes \o rest[2]>>
    IN  CASE c = Quote -> <<i, <<>>>>
          [] c = Backslash /\ At(s, i + 1) = 117 ->
               Then(Utf8(CodeUnit(s, i + 2)), i + 6)
          [] c = Backslash /\ At(s, i + 1) # 117 ->
               Then(<<Escapes[At(s, i + 1)]>>, i + 2)
          [] OTHER -> Then(<<c>>, i + 1)

ParseString(s, i) ==
    IF At(s, i) # Quote \/ ByteCount(s, i + 1) < 0 THEN Null
    ELSE LET read == Unescaped(s, i + 1)
         IN  <<read[1] + 1, <<"string", read[2]>>>>

-----------------------------------------------------------------------------
(* The numbers.  check_json_number() decides what the text is, be_str2int()  *)
(* and be_str2real() read it again and say where they stopped.               *)

RECURSIVE PastDigits(_, _)
PastDigits(s, i) == IF At(s, i) \in Digit THEN PastDigits(s, i + 1) ELSE i

CheckNumber_AnyEnd(s, i) ==          \* Mutant: what ends the number is not looked at
    LET end == PastDigits(s, IF At(s, i) = 45 THEN i + 1 ELSE i)
    IN  IF At(s, end - 1) \notin Digit THEN "invalid"
        ELSE IF At(s, end) \in {46, 69, 101} THEN "real" ELSE "integer"

CheckNumber(s, i) ==
    LET int  == IF At(s, i) = 45 THEN i + 1 ELSE i
        dot  == IF At(s, int) = 48 THEN int + 1 ELSE PastDigits(s, int)
        exp  == IF At(s, dot) = 46 THEN PastDigits(s, dot + 1) ELSE dot
        pow  == IF At(s, exp + 1) \in {43, 45} THEN exp + 2 ELSE exp + 1
        end  == IF At(s, exp) \in {69, 101} THEN PastDigits(s, pow) ELSE exp
    IN  IF \/ dot = int
           \/ At(s, int) = 48 /\ At(s, dot) \in Digit
           \/ exp = dot + 1
           \/ end > exp /\ end = pow
           \/ At(s, end) \notin Space \cup {0, 44, 93, 125, 58}
        THEN "invalid"
        ELSE IF end > dot THEN "real" ELSE "integer"

(* be_str2int(): at an overflow it stops on the digit that overflows.        *)
StrToInt(s, i) ==
    LET neg == At(s, i) = 45
        Fold[j \in Nat, sum \in Int] ==
          LET next == (sum * 10) + (IF neg THEN 48 - At(s, j)
                                    ELSE At(s, j) - 48)
          IN  IF At(s, j) \notin Digit THEN <<j, sum>>
              ELSE IF next > IntMax THEN <<j, IntMax>>
              ELSE IF next < -IntMax - 1 THEN <<j, -IntMax - 1>>
              ELSE Fold[j + 1, next]
    IN  Fold[IF neg THEN i + 1 ELSE i, 0]

(* be_str2real(): the exponent is looked at before each of its digits.       *)
StrToReal(s, i) ==
    LET int == PastDigits(s, IF At(s, i) = 45 THEN i + 1 ELSE i)
        exp == IF At(s, int) = 46 THEN PastDigits(s, int + 1) ELSE int
        pow == IF At(s, exp + 1) \in {43, 45} THEN exp + 2 ELSE exp + 1
        End[j \in Nat, e \in Nat] ==
          IF At(s, j) \notin Digit \/ e > MaxExponent THEN j
          ELSE End[j + 1, (e * 10) + At(s, j) - 48]
        end == IF At(s, exp) \in {69, 101} THEN End[pow, 0] ELSE exp
    IN  <<end, SubSeq(s, i, end - 1)>>

ParseNumber(s, i) ==
    CASE CheckNumber(s, i) = "integer" ->
           LET n == StrToInt(s, i) IN <<n[1], <<"int", n[2]>>>>
      [] CheckNumber(s, i) = "real" ->
           LET r == StrToReal(s, i) IN <<r[1], <<"real", r[2]>>>>
      [] OTHER -> Null

ParseWord(s, i, word, value) ==
    IF IsPrefix(word, SubSeq(s, i, Len(s))) THEN <<i + Len(word), value>>
    ELSE Null

True == <<116, 114, 117, 101>>
False == <<102, 97, 108, 115, 101>>
NullWord == <<110, 117, 108, 108>>

-----------------------------------------------------------------------------
RECURSIVE ParseValue(_, _)

(* be_data_insert(): a key that is already there keeps its first value.      *)
Inserted(f, k, v) ==
    [x \in DOMAIN f \cup {k} |-> IF x \in DOMAIN f THEN f[x] ELSE v]

(* parser_field(): where it stopped, and the map with the pair inserted.     *)
WithValue(f, key, val) ==
    IF val = Null THEN <<0, f>> ELSE <<val[1], Inserted(f, key[2][2], val[2])>>
WithKey(s, f, key) ==
    IF key = Null THEN <<0, f>>
    ELSE WithValue(f, key, ParseValue(s, MatchChar(s, key[1], 58)))
ParseField(s, i, f) == WithKey(s, f, ParseString(s, i))

(* The loops of parser_object() and parser_array(): got is what was read.    *)
RECURSIVE Fields(_, _)
Fields(s, got) ==
    IF got[1] # 0 /\ MatchChar(s, got[1], 44) # 0
    THEN Fields(s, ParseField(s, MatchChar(s, got[1], 44), got[2])) ELSE got

Appended(list, val) ==
    IF val = Null THEN <<0, list>> ELSE <<val[1], Append(list, val[2])>>

RECURSIVE Values(_, _)
Values(s, got) ==
    IF got[1] # 0 /\ MatchChar(s, got[1], 44) # 0
    THEN Values(s, Appended(got[2], ParseValue(s, MatchChar(s, got[1], 44)))) ELSE got

Closed(s, type, c, got) ==
    IF got[1] = 0 \/ MatchChar(s, got[1], c) = 0 THEN Null
    ELSE <<MatchChar(s, got[1], c), <<type, got[2]>>>>

ObjectFrom(s, i) ==
    IF At(s, i) = 125 THEN <<i, <<>>>> ELSE Fields(s, ParseField(s, i, <<>>))
ParseObject(s, i) == Closed(s, "map", 125, ObjectFrom(s, MatchChar(s, i, 123)))

ArrayFrom(s, i) ==
    IF At(s, i) = 93 THEN <<i, <<>>>> ELSE Values(s, Appended(<<>>, ParseValue(s, i)))
ParseArray(s, i) == Closed(s, "list", 93, ArrayFrom(s, MatchChar(s, i, 91)))

ParseValue(s, at) ==
    LET i == SkipSpace(s, at)
        c == At(s, i)
    IN  CASE c = 123 -> ParseObject(s, i)
          [] c = 91 -> ParseArray(s, i)
          [] c = Quote -> ParseString(s, i)
          [] c = 116 -> ParseWord(s, i, True, <<"bool", TRUE>>)
          [] c = 102 -> ParseWord(s, i, False, <<"bool", FALSE>>)
          [] c = 110 -> ParseWord(s, i, NullWord, Nil)
          [] c \in Digit \cup {45} -> ParseNumber(s, i)
          [] OTHER -> Null

(* m_json_load(): the value counts only if it ends where the text ends.      *)
Load(s) ==
    LET got == ParseValue(s, 1)
    IN  IF got # Null /\ got[1] = Len(s) + 1 THEN got[2] ELSE Nil

-----------------------------------------------------------------------------
(* json.dump.  toescape() measures first and writes after.                   *)

EscapeLength(s) ==
    FoldLeft(LAMBDA n, c : n + CASE c \in {Backslash, 10, 13, 9, Quote} -> 1
                                 [] c < 32 /\ c \notin {10, 13, 9} -> 5
                                 [] OTHER -> 0, 0, s)

HexDigit(n) == IF n <= 9 THEN 48 + n ELSE 87 + n

Escape_QuoteOpen(c) ==               \* Mutant: the quote is not escaped
    IF c = Quote THEN <<c>> ELSE IF c = Backslash THEN <<c, c>> ELSE <<c>>

Escape(c) ==
    CASE c = Backslash -> <<Backslash, Backslash>>
      [] c = 10 -> <<Backslash, 110>>
      [] c = 13 -> <<Backslash, 114>>
      [] c = 9 -> <<Backslash, 116>>
      [] c = Quote -> <<Backslash, Quote>>
      [] c < 32 /\ c \notin {9, 10, 13} ->
           <<Backslash, 117, 48, 48, HexDigit(c \div 16), HexDigit(c % 16)>>
      [] OTHER -> <<c>>

StringDump(s) == <<Quote>> \o FlattenSeq([i \in 1..Len(s) |-> Escape(s[i])])
                           \o <<Quote>>

MakeIndent(n) ==
    [i \in 1..(2 * (IF n < MAX_INDENT THEN n ELSE MAX_INDENT)) |-> 32]

RECURSIVE IntText(_)
IntText(n) == IF n < 0 THEN <<45>> \o IntText(-n)
              ELSE IF n < 10 THEN <<48 + n>>
              ELSE IntText(n \div 10) \o <<48 + (n % 10)>>

(* The loop of object_dump() and of array_dump(): each item on a line of its *)
(* own when fmt is 1, a comma after each but the last.                       *)
Lines(items, open, close, fmt, indent) ==
    LET nl == IF fmt = 1 THEN <<10>> ELSE <<>>
        Line(i) == MakeIndent(fmt * (indent + 1)) \o items[i]
                   \o (IF i < Len(items) THEN <<44>> ELSE <<>>) \o nl
    IN  <<open>> \o nl \o FlattenSeq([i \in 1..Len(items) |-> Line(i)])
        \o MakeIndent(fmt * indent) \o <<close>>

RECURSIVE ValueDump(_, _, _)

ObjectDump(f, fmt, indent) ==
    LET keys == SetToSeq(DOMAIN f)
        Pair(k) == StringDump(k) \o (IF fmt = 1 THEN <<58, 32>> ELSE <<58>>)
                   \o ValueDump(f[k], fmt, indent + 1)
    IN  Lines([i \in 1..Len(keys) |-> Pair(keys[i])], 123, 125, fmt, indent)

ArrayDump(list, fmt, indent) ==
    Lines([i \in 1..Len(list) |-> ValueDump(list[i], fmt, indent + 1)],
          91, 93, fmt, indent)

ValueDump(v, fmt, indent) ==
    CASE v[1] = "map" -> ObjectDump(v[2], fmt, indent)
      [] v[1] = "list" -> ArrayDump(v[2], fmt, indent)
      [] v[1] = "nil" -> NullWord
      [] v[1] = "bool" -> IF v[2] THEN True ELSE False
      [] v[1] = "int" -> IntText(v[2])
      [] v[1] = "real" -> v[2]
      [] OTHER -> StringDump(v[2])

Dump(v, fmt) == ValueDump(v, fmt, 0)

-----------------------------------------------------------------------------
(* The script dumps what it holds and loads what arrives; on its way the     *)
(* text may have a byte changed, lost or added (external).                   *)

JsonInit ==
    /\ jvalue \in Documents
    /\ jtext \in JsonTexts \cup {Dump(jvalue, 0), Dump(jvalue, 1)}
    /\ edits = 0

LoadText ==
    /\ jvalue' = Load(jtext)
    /\ UNCHANGED <<jtext, edits>>

DumpValue ==
    /\ \E fmt \in {0, 1} : jtext' = Dump(jvalue, fmt)
    /\ UNCHANGED <<jvalue, edits>>

Edit ==
    /\ edits < MaxEdits
    /\ edits' = edits + 1
    /\ \E i \in 1..(Len(jtext) + 1) :
         \/ \E c \in Letters : jtext' = InsertAt(jtext, i, c)
         \/ /\ i <= Len(jtext)
            /\ jtext' = RemoveAt(jtext, i)
         \/ /\ i <= Len(jtext)
            /\ \E c \in Letters : jtext' = [jtext EXCEPT ![i] = c]
    /\ UNCHANGED jvalue

JsonNext == LoadText \/ DumpValue \/ Edit

JsonSpec == JsonInit /\ [][JsonNext]_jsonVars

-----------------------------------------------------------------------------
(* What a text denotes, from the grammar of JSON and not from the parser:    *)
(* every way to cut the text into values is tried.                           *)

RECURSIVE Stripped(_)
Stripped(t) == IF t = <<>> THEN t
               ELSE IF t[1] \in Space THEN Stripped(Tail(t))
               ELSE IF t[Len(t)] \in Space THEN Stripped(Front(t))
               ELSE t

(* UTF-8 by the ranges be_load_unicode()'s comments give.                    *)
Encoded(u) == IF u <= 127 THEN <<u>> ELSE IF u <= 2047
              THEN <<192 + (u \div 64), 128 + (u % 64)>>
              ELSE <<224 + (u \div 4096), 128 + ((u \div 64) % 64),
                     128 + (u % 64)>>

(* The ends of those ranges, where the code is off by one.                   *)
AtRangeEnd(t) == \E i \in 1..(Len(t) - 5) :
    /\ t[i] = Backslash /\ t[i + 1] = 117
    /\ \A k \in 2..5 : t[i + k] \in DOMAIN HexValue
    /\ CodeUnit(t, i + 2) \in {127, 2047}

RECURSIVE Reads(_), Chars(_), ItemsOf(_), Members(_)

Chars(t) ==
    IF t = <<>> THEN {<<>>}
    ELSE LET Cut(n, bytes) == {bytes \o rest : rest \in Chars(SubSeq(t, n + 1, Len(t)))}
         IN  CASE t[1] > 31 /\ t[1] \notin {Quote, Backslash} -> Cut(1, <<t[1]>>)
               [] t[1] = Backslash /\ At(t, 2) \in DOMAIN Escapes ->
                    Cut(2, <<Escapes[t[2]]>>)
               [] t[1] = Backslash /\ At(t, 2) = 117 /\ Len(t) >= 6
                  /\ \A k \in 3..6 : t[k] \in DOMAIN HexValue ->
                    Cut(6, Encoded(CodeUnit(t, 3)))
               [] OTHER -> {}

ItemsOf(t) ==
    {<<v>> : v \in Reads(t)} \cup
    UNION {{<<v>> \o rest : v \in Reads(SubSeq(t, 1, k - 1)),
                            rest \in ItemsOf(SubSeq(t, k + 1, Len(t)))} :
           k \in {j \in 1..Len(t) : t[j] = 44}}

Pairs(t) ==
    UNION {{<<key[2], v>> : key \in {x \in Reads(SubSeq(t, 1, k - 1)) : x[1] = "string"},
                            v \in Reads(SubSeq(t, k + 1, Len(t)))} :
           k \in {j \in 1..Len(t) : t[j] = 58}}

Members(t) ==
    {<<p>> : p \in Pairs(t)} \cup
    UNION {{<<p>> \o rest : p \in Pairs(SubSeq(t, 1, k - 1)),
                            rest \in Members(SubSeq(t, k + 1, Len(t)))} :
           k \in {j \in 1..Len(t) : t[j] = 44}}

(* A sequence of digits, its value, and the parts of a number.               *)
AllDigits(t) == t # <<>> /\ \A i \in 1..Len(t) : t[i] \in Digit
ValueOf(t) == FoldLeft(LAMBDA n, c : (n * 10) + c - 48, 0, t)
Unsigned(t) == IF t # <<>> /\ t[1] = 45 THEN Tail(t) ELSE t
IntegerText(t) == AllDigits(Unsigned(t)) /\ (Unsigned(t)[1] # 48 \/ Len(Unsigned(t)) = 1)

RealText(t) ==
    \E d \in 0..Len(t), e \in 1..(Len(t) + 1) :
        /\ d < e
        /\ IntegerText(SubSeq(t, 1, (IF d = 0 THEN e ELSE d) - 1))
        /\ d > 0 => t[d] = 46 /\ AllDigits(SubSeq(t, d + 1, e - 1))
        /\ d = 0 => e <= Len(t)
        /\ e <= Len(t) =>
             LET pow == SubSeq(t, e + 1, Len(t))
                 abs == IF At(pow, 1) \in {43, 45} THEN Tail(pow) ELSE pow
             IN  /\ t[e] \in {69, 101} /\ AllDigits(abs)
                 /\ ValueOf(Front(abs)) <= MaxExponent

Reads(text) ==
    LET t == Stripped(text)
        n == Len(t)
        inner == SubSeq(t, 2, n - 1)
        sign == IF At(t, 1) = 45 THEN -1 ELSE 1
        between(a, b) == n >= 2 /\ t[1] = a /\ t[n] = b
    IN  (IF t = True THEN {<<"bool", TRUE>>} ELSE {}) \cup
        (IF t = False THEN {<<"bool", FALSE>>} ELSE {}) \cup
        (IF t = NullWord THEN {Nil} ELSE {}) \cup
        (IF IntegerText(t) /\ sign * ValueOf(Unsigned(t)) \in (-IntMax - 1)..IntMax
         THEN {<<"int", sign * ValueOf(Unsigned(t))>>} ELSE {}) \cup
        (IF RealText(t) THEN {<<"real", t>>} ELSE {}) \cup
        (IF between(Quote, Quote)
         THEN {<<"string", b>> : b \in Chars(inner)} ELSE {}) \cup
        (IF between(91, 93)
         THEN {<<"list", e>> : e \in ItemsOf(inner) \cup
                 (IF Stripped(inner) = <<>> THEN {<<>>} ELSE {})} ELSE {}) \cup
        (IF between(123, 125)
         THEN {<<"map", FoldLeft(LAMBDA f, p : Inserted(f, p[1], p[2]), <<>>, m)>> :
                 m \in Members(inner) \cup
                 (IF Stripped(inner) = <<>> THEN {<<>>} ELSE {})} ELSE {})

Blank(t) == t # <<>> /\ t[Len(t)] \in Space
Scalar(v) == v[1] \notin {"list", "map"}

(* json.load answers the value the grammar of JSON gives the text, and nil   *)
(* for a text that is no JSON: whatever a byte too many, too few or wrong,   *)
(* nothing but JSON is read and no JSON is read as something else.  The      *)
(* departures of the code are part of the statement: a number out of range   *)
(* is not read (Reads), of a repeated key the first value stays (Members),   *)
(* white space after a text that is a lone scalar makes it unreadable, and   *)
(* the two code units at the ends of be_load_unicode()'s ranges.             *)
LoadsExactlyJson ==
    ~AtRangeEnd(jtext) =>
        LET meant == {v \in Reads(jtext) : ~(Blank(jtext) /\ Scalar(v))}
        IN  IF meant = {} THEN Load(jtext) = Nil ELSE meant = {Load(jtext)}

(* json.load gives back what json.dump was given, compact or formatted:      *)
(* every quote, backslash and control character the escapes must cover.      *)
DumpLoads == \A fmt \in {0, 1} : Load(Dump(jvalue, fmt)) = jvalue

(* What is written into a buffer is never more than what was counted for it: *)
(* parser_string() writes without looking, on the word of json_strlen_safe();*)
(* toescape() returns exactly as many bytes as it measured.                  *)
RECURSIVE StringsIn(_)
StringsIn(v) ==
    CASE v[1] = "string" -> {v[2]}
      [] v[1] = "list" -> UNION {StringsIn(v[2][i]) : i \in 1..Len(v[2])}
      [] v[1] = "map" -> DOMAIN v[2] \cup UNION {StringsIn(v[2][k]) : k \in DOMAIN v[2]}
      [] OTHER -> {}

WrittenAsCounted ==
    /\ \A i \in 1..Len(jtext) :
         jtext[i] = Quote /\ ByteCount(jtext, i + 1) >= 0 =>
           Len(Unescaped(jtext, i + 1)[2]) <= ByteCount(jtext, i + 1)
    /\ \A s \in StringsIn(jvalue) :
         Len(StringDump(s)) = Len(s) + EscapeLength(s) + 2
=============================================================================

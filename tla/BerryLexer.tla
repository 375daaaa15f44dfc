----------------------------- MODULE BerryLexer ------------------------------
(***************************************************************************)
(* be_lexer.c: the tokens of a source text.                                *)
(*                                                                         *)
(* A text is a sequence of byte values; At() reads EOS, 0, past its end.   *)
(* The readers the lexer pulls its bytes from are one text here: what an   *)
(* f-string is rewritten to is put in front of what is left of the source, *)
(* which is what _bufgets() sees to.  A token is its kind, the bytes it    *)
(* stands for, and where it begins and ends.  The value of a number is     *)
(* what be_str2int() and be_str2real() make of these bytes (BerryJson).    *)
(***************************************************************************)
EXTENDS Integers, Sequences, SequencesExt, FiniteSets

CONSTANTS Sources,       \* source texts
          Escapable,     \* strings that are written by be_toescape()
          Keywords       \* token_strings from KeyIf on

VARIABLES text,          \* the source, f-strings rewritten as they are met
          at,            \* the cursor
          cache,         \* cacheType: a `..' read with the number before it
          toks,          \* the tokens so far
          line,          \* linenumber
          stop           \* "no", "eos" or "error"

lexVars == <<text, at, cache, toks, line, stop>>

EOS == 0
Digit == 48..57
Hex == Digit \cup (65..70) \cup (97..102)
IdentStart == (97..122) \cup (65..90) \cup {95}
Word == IdentStart \cup Digit
NewLine == {10, 13}
Exponent == {69, 101}
Quotes == {34, 39}

At(s, i) == IF i \in 1..Len(s) THEN s[i] ELSE EOS
Part(s, i, j) == SubSeq(s, i, j - 1)          \* from i up to before j
Bad == <<-1>>                                 \* be_lexerror()

(* match(): past the bytes of S.                                            *)
RECURSIVE Past(_, _, _)
Past(s, i, S) == IF At(s, i) \in S THEN Past(s, i + 1, S) ELSE i

-----------------------------------------------------------------------------
(* Blanks.  Each reader of them returns where it stopped and the line it is  *)
(* on, -1 when it never stops.                                               *)

SkipNewline(s, i, n) ==
    IF At(s, i + 1) \in NewLine \ {At(s, i)} THEN <<i + 2, n + 1>>
    ELSE <<i + 1, n + 1>>

(* The loop of skip_comment(): c is the byte before, 0 for none yet.         *)
RECURSIVE BlockComment(_, _, _, _)
BlockComment(s, i, n, mark) ==
    LET c == At(s, i)
        nl == SkipNewline(s, i, n)
    IN  CASE c = EOS -> <<-1, n>>
          [] c = 35 /\ mark -> <<i + 1, n>>
          [] c \in NewLine -> BlockComment(s, nl[1], nl[2], FALSE)
          [] OTHER -> BlockComment(s, i + 1, n, c = 45)

SkipComment(s, i, n) ==
    IF At(s, i + 1) = 45 THEN BlockComment(s, i + 2, n, FALSE)
    ELSE <<Past(s, i, 1..255 \ NewLine), n>>

(* skip_delimiter(), and the blank cases of lexer_next().                    *)
RECURSIVE SkipBlanks(_, _, _)
SkipBlanks(s, i, n) ==
    LET On(r) == IF r[1] = -1 THEN r ELSE SkipBlanks(s, r[1], r[2])
    IN  CASE At(s, i) = 35 -> On(SkipComment(s, i, n))
          [] At(s, i) \in NewLine -> On(SkipNewline(s, i, n))
          [] At(s, i) \in {32, 9, 12, 11} -> SkipBlanks(s, i + 1, n)
          [] OTHER -> <<i, n>>

-----------------------------------------------------------------------------
(* Strings.                                                                  *)

HexDigit == [c \in Hex |-> CASE c \in Digit -> c - 48
                             [] c \in 65..70 -> c - 55 [] OTHER -> c - 87]
ValueIn(base, s) == FoldLeft(LAMBDA n, c : (n * base) + HexDigit[c], 0, s)

Utf8(u) ==                                    \* be_load_unicode()
    CASE u < 127 -> <<u>>
      [] u \in 127..2046 -> <<192 + (u \div 64), 128 + (u % 64)>>
      [] OTHER -> <<224 + (u \div 4096), 128 + ((u \div 64) % 64),
                    128 + (u % 64)>>

Escapes == [c \in {97, 98, 102, 110, 114, 116, 118, 92, 39, 34, 63} |->
              CASE c = 97 -> 7 [] c = 98 -> 8 [] c = 102 -> 12 [] c = 110 -> 10
                [] c = 114 -> 13 [] c = 116 -> 9 [] c = 118 -> 11
                [] OTHER -> c]

(* tr_string(): the bytes from i on with their escapes read.                 *)
RECURSIVE Translated(_, _)
Translated(s, i) ==
    LET c == At(s, i)
        e == At(s, i + 1)
        Of(n, S) == i + 1 + n <= Len(s)
                    /\ \A k \in 2..(n + 1) : s[i + k] \in S
        Then(bytes, j) == LET rest == Translated(s, j)
                          IN  IF rest = Bad THEN Bad ELSE bytes \o rest
        byte(base, from, n) == <<ValueIn(base, SubSeq(s, i + from, i + from + n - 1)) % 256>>
    IN  CASE i > Len(s) -> <<>>
          [] c # 92 /\ c \notin NewLine -> Then(<<c>>, i + 1)
          [] c = 92 /\ e \in DOMAIN Escapes -> Then(<<Escapes[e]>>, i + 2)
          [] c = 92 /\ e = 120 /\ Of(2, Hex) -> Then(byte(16, 2, 2), i + 4)
          [] c = 92 /\ e = 117 /\ Of(4, Hex) ->
               Then(Utf8(ValueIn(16, SubSeq(s, i + 2, i + 5))), i + 6)
          [] c = 92 /\ e \in 48..55 /\ i + 3 <= Len(s)
             /\ \A k \in 2..3 : s[i + k] \in 48..55 -> Then(byte(8, 1, 3), i + 4)
          [] OTHER -> Bad

(* A NUL byte ends the string, as strnlen() would.                           *)
TrString(s) ==
    LET t == Translated(s, 1)
        nul == {i \in 1..Len(t) : t[i] = 0}
    IN  IF nul = {} THEN t
        ELSE SubSeq(t, 1, (CHOOSE i \in nul : \A j \in nul : i <= j) - 1)

(* Past the closing quote of the literal that opens at i; -1 without one.    *)
RECURSIVE LiteralEnd(_, _, _)
LiteralEnd(s, i, quote) ==
    CASE At(s, i) = EOS -> -1
      [] At(s, i) = quote -> i + 1
      [] At(s, i) = 92 -> LiteralEnd(s, i + 2, quote)
      [] OTHER -> LiteralEnd(s, i + 1, quote)

(* scan_string(): literals in a row are one string; the blanks after it are  *)
(* read with it.  Escapes are translated when the parts are joined.          *)
RECURSIVE StringParts(_, _, _)
StringParts(s, i, n) ==
    LET end   == LiteralEnd(s, i + 1, At(s, i))
        after == SkipBlanks(s, end, n)
        rest  == StringParts(s, after[1], after[2])
        part  == Part(s, i + 1, end - 1)
    IN  IF end = -1 \/ after[1] = -1 THEN [to |-> -1, raw |-> <<>>, line |-> n]
        ELSE IF At(s, after[1]) \in Quotes
        THEN [rest EXCEPT !.raw = part \o @]
        ELSE [to |-> after[1], raw |-> part, line |-> after[2]]

-----------------------------------------------------------------------------
(* f-strings: scan_f_string() rewrites the text of one to the arguments of a *)
(* call of format.                                                           *)

(* The end of a field's expression: `=', `}', or `:' that is not doubled.    *)
RECURSIVE ExprEnd(_, _)
ExprEnd(u, i) ==
    CASE i > Len(u) \/ At(u, i) \in {61, 125} -> i
      [] At(u, i) = 58 /\ At(u, i + 1) # 58 -> i
      [] At(u, i) = 58 /\ At(u, i + 1) = 58 -> ExprEnd(u, i + 2)
      [] OTHER -> ExprEnd(u, i + 1)

FieldEnd(u, i) == Past(u, i, 1..255 \ {125})

(* What the field that begins at i adds to the format: its own text when it  *)
(* ends in `=', and its conversion.                                          *)
FieldFormat(u, i) ==
    LET e    == ExprEnd(u, i)
        to   == IF At(u, e) = 61 THEN e + 1 ELSE e
        own  == IF At(u, e) = 61 THEN Part(u, i, to) ELSE <<>>
        spec == IF At(u, to + 1) = 37 THEN to + 2 ELSE to + 1
    IN  IF \/ to > Len(u)
           \/ At(u, to) \notin {58, 125}
           \/ At(u, to) = 58 /\ FieldEnd(u, spec) > Len(u)
        THEN Bad
        ELSE own \o <<37>> \o
             (IF At(u, to) = 58 THEN Part(u, spec, FieldEnd(u, spec)) ELSE <<115>>)

FormatByte_Raw(c) == <<c>>           \* Mutant: written as it is

FormatByte(c) == CASE c = 37 -> <<37, 37>>
                   [] c = 92 -> <<92, 92>>
                   [] c = 34 -> <<92, 34>>
                   [] c = 10 -> <<92, 110>>
                   [] c = 13 -> <<92, 114>>
                   [] OTHER -> <<c>>

FieldAt(u, i) == At(u, i) = 123 /\ At(u, i + 1) # 123

(* First pass: the format.                                                   *)
RECURSIVE Format(_, _)
Format(u, i) ==
    LET Then(bytes, j) == LET rest == Format(u, j)
                          IN  IF bytes = Bad \/ rest = Bad THEN Bad ELSE bytes \o rest
    IN  CASE i > Len(u) -> <<>>
          [] FieldAt(u, i) -> Then(FieldFormat(u, i + 1),
                                   FieldEnd(u, ExprEnd(u, i + 1)) + 1)
          [] At(u, i) = 123 /\ ~FieldAt(u, i) -> Then(<<123>>, i + 2)
          [] At(u, i) = 125 -> Then(<<125>>, IF At(u, i + 1) = 125 THEN i + 2 ELSE i + 1)
          [] OTHER -> Then(FormatByte(At(u, i)), i + 1)

(* Second pass: the expressions, a doubled `:' made one.                     *)
RECURSIVE Undoubled(_)
Undoubled(e) == IF e = <<>> THEN e
                ELSE <<e[1]>> \o Undoubled(SubSeq(e, IF e[1] = 58 THEN 3 ELSE 2, Len(e)))

RECURSIVE Arguments(_, _)
Arguments(u, i) ==
    CASE i > Len(u) -> <<>>
      [] FieldAt(u, i) ->
           <<44>> \o Undoubled(Part(u, i + 1, ExprEnd(u, i + 1)))
                  \o Arguments(u, FieldEnd(u, ExprEnd(u, i + 1)) + 1)
      [] At(u, i) = 123 /\ ~FieldAt(u, i) -> Arguments(u, i + 2)
      [] OTHER -> Arguments(u, i + 1)

Rewritten(u) == IF Format(u, 1) = Bad THEN Bad
                ELSE <<40, 34>> \o Format(u, 1) \o <<34>> \o Arguments(u, 1) \o <<41>>

-----------------------------------------------------------------------------
(* Numbers.                                                                  *)

(* scan_realexp(): past the exponent at i; -1 when it has no digits.         *)
PastExponent(s, i) ==
    LET d == IF At(s, i + 1) \in {43, 45} THEN i + 2 ELSE i + 1
    IN  IF At(s, i) \notin Exponent THEN i
        ELSE IF At(s, d) \in Digit THEN Past(s, d, Digit) ELSE -1

DotsAt(s, i) == At(s, i) = 46 /\ At(s, i + 1) = 46

(* scan_hexadecimal(), scan_decimal(): kind, where the number ends, where    *)
(* the cursor is, and whether a `..' was read.  scan_decimal() looks for an  *)
(* exponent even after a `..'.                                               *)
Hexadecimal(s, i) ==
    LET e == Past(s, i + 2, Hex)
    IN  [kind |-> "int", to |-> e, next |-> IF e = i + 2 THEN -1 ELSE e, dots |-> FALSE]

Decimal(s, i) ==
    LET d == Past(s, i, Digit)
        f == IF DotsAt(s, d) THEN d + 2
             ELSE IF At(s, d) = 46 THEN Past(s, d + 1, Digit) ELSE d
        e == PastExponent(s, f)
    IN  [kind |-> IF e # f \/ (f > d /\ ~DotsAt(s, d)) THEN "real" ELSE "int",
         to |-> IF DotsAt(s, d) THEN d ELSE e, next |-> e, dots |-> DotsAt(s, d)]

(* scan_numeral(): a name or a second dot may not follow.                    *)

Numeral(s, i) ==
    LET n == IF At(s, i) = 48 /\ At(s, i + 1) \in {120, 88}
             THEN Hexadecimal(s, i) ELSE Decimal(s, i)
    IN  CASE n.dots \/ n.next = -1 -> n
          [] DotsAt(s, n.next) -> [n EXCEPT !.next = @ + 2, !.dots = TRUE]
          [] At(s, n.next) \in IdentStart \cup {46} -> [n EXCEPT !.next = -1]
          [] OTHER -> n

-----------------------------------------------------------------------------
(* Operators: where the one that begins at i ends.                           *)

ScanAssign(s, i) == IF At(s, i + 1) = 61 THEN i + 2 ELSE i + 1

Doubled(s, i) == IF At(s, i + 1) \in {At(s, i), 61} THEN i + 2 ELSE i + 1

ScanShift_NoAssign(s, i) == Doubled(s, i)    \* Mutant: `<<=' is never one token

ScanShift(s, i) == IF At(s, i + 1) = At(s, i) THEN ScanAssign(s, i + 1)
                   ELSE ScanAssign(s, i)

OperatorEnd(s, i) ==
    LET c == At(s, i)
    IN  CASE c \in {43, 42, 47, 37, 94, 61, 33, 58} -> ScanAssign(s, i)
          [] c \in {38, 124} -> Doubled(s, i)
          [] c \in {60, 62} -> ScanShift(s, i)
          [] c = 45 -> IF At(s, i + 1) \in {62, 61} THEN i + 2 ELSE i + 1
          [] c \in {40, 41, 91, 93, 123, 125, 44, 59, 63, 126} -> i + 1
          [] OTHER -> -1                              \* a stray byte

-----------------------------------------------------------------------------
(* Steps: one call of be_lexer_scan_next() each.                             *)

(* escape() of be_strlib.c with a single quote.                              *)
EscapedByte(c) ==
    LET digit(n) == IF n <= 9 THEN 48 + n ELSE 87 + n
    IN  CASE c \in {92, 39} -> <<92, c>>
          [] c = 10 -> <<92, 110>> [] c = 13 -> <<92, 114>> [] c = 9 -> <<92, 116>>
          [] c < 32 /\ c \notin {9, 10, 13} -> <<92, 120, digit(c \div 16), digit(c % 16)>>
          [] OTHER -> <<c>>
Escaped(s) == <<39>> \o FlattenSeq([k \in 1..Len(s) |-> EscapedByte(s[k])]) \o <<39>>

LexInit ==
    /\ text \in Sources \cup {Escaped(s) : s \in Escapable} /\ at = 1 /\ line = 1
    /\ cache = FALSE /\ toks = <<>> /\ stop = "no"

(* The token <<kind, bytes>> from i to j; the cursor goes to k.              *)
Emit(kind, bytes, i, j, k) ==
    /\ stop' = "no" /\ at' = k
    /\ toks' = Append(toks, [kind |-> kind, bytes |-> bytes, from |-> i, to |-> j])

Fails == stop' = "error" /\ UNCHANGED <<text, at, cache, toks>>

FromCache ==
    /\ stop = "no" /\ cache
    /\ cache' = FALSE
    /\ Emit("op", <<46, 46>>, at - 2, at, at)
    /\ UNCHANGED <<text, line>>

AtEnd ==
    /\ stop = "no" /\ ~cache
    /\ At(text, SkipBlanks(text, at, line)[1]) = EOS
    /\ line' = SkipBlanks(text, at, line)[2]
    /\ stop' = IF SkipBlanks(text, at, line)[1] = -1 THEN "error" ELSE "eos"
    /\ UNCHANGED <<text, at, cache, toks>>

(* Where the next token begins, past the blanks.                             *)
Start == SkipBlanks(text, at, line)
Begins == stop = "no" /\ ~cache /\ At(text, Start[1]) # EOS

ScanNumeral ==
    /\ Begins /\ At(text, Start[1]) \in Digit
    /\ LET i == Start[1]
           n == Numeral(text, i)
       IN  IF n.next = -1 THEN Fails
           ELSE /\ Emit(n.kind, Part(text, i, n.to), i, n.to, n.next)
                /\ cache' = n.dots /\ UNCHANGED text
    /\ line' = Start[2]

ScanDot ==
    /\ Begins /\ At(text, Start[1]) = 46
    /\ LET i == Start[1]
           d == Past(text, i + 1, Digit)
           e == PastExponent(text, d)
       IN  IF DotsAt(text, i) \/ d = i + 1
           THEN LET j == IF DotsAt(text, i) THEN i + 2 ELSE i + 1
                IN  Emit("op", Part(text, i, j), i, j, j) /\ UNCHANGED <<text, cache>>
           ELSE IF e = -1 THEN Fails
           ELSE Emit("real", Part(text, i, e), i, e, e) /\ UNCHANGED <<text, cache>>
    /\ line' = Start[2]

ScanString ==
    /\ Begins /\ At(text, Start[1]) \in Quotes
    /\ LET p == StringParts(text, Start[1], Start[2])
       IN  /\ line' = p.line
           /\ IF p.to = -1 \/ Translated(p.raw, 1) = Bad THEN Fails
              ELSE /\ Emit("string", TrString(p.raw), Start[1], p.to, p.to)
                   /\ UNCHANGED <<text, cache>>

FStringAt(s, i) == At(s, i) = 102 /\ At(s, i + 1) \in Quotes

ScanIdentifier ==
    /\ Begins /\ At(text, Start[1]) \in IdentStart /\ ~FStringAt(text, Start[1])
    /\ LET i == Start[1]
           j == Past(text, i, Word)
           id == Part(text, i, j)
       IN  Emit(IF id \in Keywords THEN "key" ELSE "id", id, i, j, j)
    /\ line' = Start[2] /\ UNCHANGED <<text, cache>>

(* The name format, and its arguments in front of what is left.              *)
ScanFString ==
    /\ Begins /\ FStringAt(text, Start[1])
    /\ LET i == Start[1]
           p == StringParts(text, i + 1, Start[2])
           call == Rewritten(TrString(p.raw))
       IN  /\ line' = p.line
           /\ IF p.to = -1 \/ Translated(p.raw, 1) = Bad \/ call = Bad THEN Fails
              ELSE /\ text' = Part(text, 1, i + 1) \o call \o Part(text, p.to, Len(text) + 1)
                   /\ Emit("format", Part(text, i + 1, p.to), i, i + 1, i + 1)
                   /\ UNCHANGED cache

(* The parenthesis of a call is told from one after white space.             *)
ScanOperator ==
    /\ Begins /\ At(text, Start[1]) \notin Word \cup Quotes \cup {46}
    /\ LET i == Start[1]
           j == OperatorEnd(text, i)
       IN  IF j = -1 THEN Fails
           ELSE /\ Emit(IF At(text, i) = 40 /\ i = at THEN "call" ELSE "op",
                        Part(text, i, j), i, j, j)
                /\ UNCHANGED <<text, cache>>
    /\ line' = Start[2]

LexNext == \/ FromCache \/ AtEnd \/ ScanNumeral \/ ScanDot \/ ScanString
           \/ ScanIdentifier \/ ScanFString \/ ScanOperator

-----------------------------------------------------------------------------
(* What the text should be read as.                                          *)

(* token_strings, the operators.                                             *)
Operators ==
    {<<c>> : c \in {61, 43, 45, 42, 47, 37, 60, 62, 38, 124, 94, 33, 126, 40, 41,
                    91, 93, 123, 125, 46, 44, 59, 58, 63}} \cup
    {<<c, 61>> : c \in {43, 45, 42, 47, 37, 38, 124, 94, 60, 62, 61, 33, 58}} \cup
    {<<c, c>> : c \in {60, 62, 46, 38, 124}} \cup {<<45, 62>>} \cup
    {<<c, c, 61>> : c \in {60, 62}}

All(t, S) == t # <<>> /\ \A k \in 1..Len(t) : t[k] \in S
ExponentText(t) ==
    \/ t = <<>>
    \/ /\ t[1] \in Exponent
       /\ \/ All(Tail(t), Digit)
          \/ At(t, 2) \in {43, 45} /\ All(SubSeq(t, 3, Len(t)), Digit)
RealText(t) ==
    \E d \in 0..Len(t), e \in 1..(Len(t) + 1) :
        /\ ExponentText(Part(t, e, Len(t) + 1))
        /\ IF d = 0 THEN e <= Len(t) /\ All(Part(t, 1, e), Digit)
           ELSE /\ d < e /\ t[d] = 46 /\ e > 2
                /\ \A k \in 1..(e - 1) : k # d => t[k] \in Digit

Spells(kind, t) ==
    CASE kind = "int" -> \/ All(t, Digit)
                         \/ /\ Len(t) > 2 /\ t[1] = 48 /\ t[2] \in {88, 120}
                            /\ All(SubSeq(t, 3, Len(t)), Hex)
      [] kind = "real" -> RealText(t)
      [] kind \in {"id", "key"} -> All(t, Word) /\ t[1] \in IdentStart
                                   /\ (kind = "key" <=> t \in Keywords)
      [] kind \in {"op", "call"} -> t \in Operators
      [] OTHER -> TRUE

(* The tokens that can begin at i, as their ends: a number does not take the *)
(* first dot of `..'.                                                        *)
Ends(i) ==
    {j \in (i + 1)..(Len(text) + 1) :
       \E kind \in {"int", "real", "id", "key", "op"} :
          /\ Spells(kind, Part(text, i, j))
          /\ ~(kind = "real" /\ At(text, j - 1) = 46 /\ At(text, j) = 46)}

(* Read before anything is rewritten, and without the one defect: after `..' *)
(* a name that begins with e is taken for an exponent.                       *)
Plain ==
    /\ \A k \in 1..Len(toks) : toks[k].kind # "format"
    /\ \A k \in 1..(Len(text) - 3) :
         ~(text[k] \in Digit /\ DotsAt(text, k + 1) /\ text[k + 3] \in Exponent)

(* Each token is the longest that can be read where it begins, of the kind   *)
(* its bytes spell; tokens follow one another with nothing but blanks in     *)
(* between, and no byte is read twice or left out: not around the dots of a  *)
(* range, which are read with the number before them.  A parenthesis is that *)
(* of a call exactly if nothing but a string stands right before it, or a    *)
(* string and blanks: these are read with the string.                        *)
TokensAreLongest ==
    Plain => \A k \in 1..Len(toks) :
        LET t == toks[k]
            before == IF k = 1 THEN 1 ELSE toks[k - 1].to
        IN  /\ t.kind # "string" => /\ Spells(t.kind, Part(text, t.from, t.to))
                                    /\ t.bytes = Part(text, t.from, t.to)
                                    /\ t.to \in Ends(t.from)
                                    /\ \A j \in Ends(t.from) : j <= t.to
            /\ SkipBlanks(text, before, 1)[1] = t.from
            /\ Part(text, t.from, t.to) = <<40>> => (t.kind = "call" <=> before = t.from)

(* The lexer stops with an error only where no token can be read: at a       *)
(* number with a name or a dot stuck to it, a stray byte, an open string or  *)
(* a bad escape, or a comment block without an end.                          *)
StopsOnlyForCause ==
    (stop = "error" /\ Plain) =>
        LET i == SkipBlanks(text, at, 1)[1]
            c == At(text, i)
            longest == CHOOSE j \in Ends(i) : \A x \in Ends(i) : x <= j
        IN  \/ i = -1
            \/ Ends(i) = {} /\ c \notin Digit
            \/ /\ c \in Digit
               /\ \/ At(text, longest) \in IdentStart
                  \/ At(text, longest) = 46 /\ At(text, longest + 1) # 46
            \/ c = 46 /\ At(text, longest) \in Exponent
            \/ /\ c \in Quotes
               /\ \/ StringParts(text, i, 1).to = -1
                  \/ Translated(StringParts(text, i, 1).raw, 1) = Bad
            \/ FStringAt(text, i)

(* An error is reported at the line it is in: every line end before the      *)
(* cursor is counted once, `\r\n' as one, in comments and between tokens.    *)
LineEnds(j) ==
    {k \in 1..(j - 1) : text[k] \in NewLine
       /\ ~\E a \in 1..k : /\ (k - a) % 2 = 1 /\ text[a] \in NewLine
                           /\ \A x \in (a + 1)..k : text[x] \in NewLine \ {text[x - 1]}
                           /\ a = 1 \/ text[a - 1] \notin NewLine \ {text[a]}}
LinesCounted ==
    (Plain /\ stop # "error") =>
        line = 1 + Cardinality(LineEnds(IF stop = "eos" THEN Len(text) + 1 ELSE at))

(* A string as tostring() shows it inside a list or a map is, as source, the *)
(* same string: what be_strlib.c escapes, the lexer translates back.         *)
ShownReadsBack ==
    \A s \in Escapable :
        (stop = "eos" /\ text = Escaped(s)) => Len(toks) = 1 /\ toks[1].bytes = s

(* The pieces of an f-string's text: what should be formatted.               *)
RECURSIVE Wanted(_, _)
Wanted(u, i) ==
    CASE i > Len(u) -> [format |-> <<>>, args |-> <<>>]
      [] OTHER ->
         LET field == FieldAt(u, i)
             e     == ExprEnd(u, i + 1)
             j     == IF field THEN FieldEnd(u, e) + 1
                      ELSE IF At(u, i) \in {123, 125} /\ At(u, i + 1) = At(u, i)
                      THEN i + 2 ELSE i + 1
             rest  == Wanted(u, j)
             colon == IF At(u, e) = 61 THEN e + 1 ELSE e
             spec  == Part(u, colon + 1, j - 1)
             conv  == IF At(u, colon) # 58 THEN <<115>>
                      ELSE IF At(spec, 1) = 37 THEN Tail(spec) ELSE spec
             own   == IF At(u, e) = 61 THEN Part(u, i + 1, e + 1) ELSE <<>>
         IN  IF field
             THEN [format |-> own \o <<37>> \o conv \o rest.format,
                   args |-> <<44>> \o Undoubled(Part(u, i + 1, e)) \o rest.args]
             ELSE [format |-> (IF u[i] = 37 THEN <<37, 37>> ELSE <<u[i]>>) \o rest.format,
                   args |-> rest.args]

(* No byte the format would have to escape inside a field: there it is       *)
(* copied as it is (a quote in an expression that ends in `=', for one).     *)
Simple(u) ==
    \A i \in 1..Len(u) : FieldAt(u, i) =>
        LET e == ExprEnd(u, i + 1)
            from == IF At(u, e) = 61 THEN i + 1 ELSE e
        IN  \A k \in from..(FieldEnd(u, e) - 1) :
                u[k] \notin {34, 92, 10, 13, 123}
                /\ (u[k] = 37 => u[k - 1] = 58)

(* What an f-string is rewritten to is read back as the format and the       *)
(* expressions that were meant, whatever quotes, percent signs and braces    *)
(* its text has.                                                             *)
FStringsAsMeant ==
    (toks # <<>> /\ toks[Len(toks)].kind = "format") =>
        LET t == toks[Len(toks)]
            u == TrString(StringParts(t.bytes, 1, 1).raw)
            p == LiteralEnd(text, at + 2, 34)
            w == Wanted(u, 1)
        IN  Simple(u) =>
              /\ p # -1 /\ TrString(Part(text, at + 2, p - 1)) = w.format
              /\ Part(text, p, p + Len(w.args) + 1) = w.args \o <<41>>
=============================================================================

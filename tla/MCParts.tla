------------------------------- MODULE MCParts --------------------------------
(***************************************************************************)
(* The parts, and with them json and the lexer, for TLC.                   *)
(***************************************************************************)
EXTENDS Parts, TLC

CONSTANTS
    Documents, JsonTexts, Letters, IntMax, MaxExponent, MAX_JSON_STRING_LEN,
    MAX_INDENT, MaxEdits,
    Sources, Escapable, Keywords

VARIABLES
    jtext, jvalue, edits,
    text, at, cache, toks, line, stop

jsonVars == <<jtext, jvalue, edits>>
lexVars  == <<text, at, cache, toks, line, stop>>
vars == <<partsVars, jsonVars, lexVars>>

Json  == INSTANCE BerryJson
Lexer == INSTANCE BerryLexer

\* Of the several initial states of a part that does not run, one.
Init ==
    /\ PartsInit
    /\ Json!JsonInit  /\ (part # "json" => jtext = Json!Dump(<<"nil", 0>>, 0))
    /\ Lexer!LexInit  /\ (part # "lexer" => text = <<>>)

Next ==
    \/ PartsNext /\ UNCHANGED <<jsonVars, lexVars>>
    \/ part = "json"  /\ Json!JsonNext /\ UNCHANGED <<partsVars, lexVars>>
    \/ part = "lexer" /\ Lexer!LexNext /\ UNCHANGED <<partsVars, jsonVars>>

Spec == Init /\ [][Next]_vars

-----------------------------------------------------------------------------
(* Values for the constants.                                               *)

\* Bytes: "0aF" and "SGk=" (the base64 text of two bytes); widths of fields and
\* positions from both ends.
MCTexts == {<<48, 97, 70>>, <<83, 71, 107, 61>>}
MCWidths    == {1, -2}
MCOffsets   == {1, -2}
MCCounts    == {-3, 2, 7}

\* Strings: two texts of one hash; constants of the table and of other code.
MCHash   == ("a" :> 1) @@ ("b" :> 3) @@ ("c" :> 1)
MCConsts == {[text |-> "a", hash |-> 1, table |-> TRUE],
             [text |-> "a", hash |-> 0, table |-> FALSE],
             [text |-> "b", hash |-> 0, table |-> FALSE]}

\* Lists: positions from both ends, and past them.
MCIndexes  == {-2, 0, 1, 4}
MCContents == {<<>>, <<1, 2>>, <<1, 2, 1>>}

\* Maps: keys that share a slot in blocks of two and of four.
MCHashOf == ("a" :> 0) @@ ("b" :> 4) @@ ("c" :> 2) @@ ("d" :> 1)

\* JSON: values of every type, strings with what has to be escaped; texts with
\* escapes of code units on both sides of 0x7F, numbers at the edges, a key that
\* is there twice.
MCDocuments ==
    {<<"nil", 0>>,
     <<"list", <<<<"int", -12>>, <<"nil", 0>>, <<"list", <<>>>>>>>>,
     <<"string", <<34, 92, 10, 1, 31, 233, 65>>>>,
     <<"map", [k \in {<<97>>, <<>>} |->
                 IF k = <<>> THEN <<"bool", TRUE>>
                 ELSE <<"list", <<<<"string", <<9, 13>>>>>>>>]>>}
MCJsonTexts ==
    {<<34, 92, 117, 48, 48, 55, 101, 34>>, <<34, 92, 117, 50, 48, 65, 99, 34>>,
     <<91, 49, 46, 50, 101, 45, 51, 32, 44, 48, 93>>,
     <<123, 34, 97, 34, 58, 49, 44, 34, 97, 34, 58, 123, 125, 125>>,
     <<49, 50, 56>>, <<32, 49>>, <<45, 49, 50, 56>>, <<49, 101, 52, 52>>}
MCLetters == {34, 92, 117, 48, 45, 46, 101, 32, 44, 58, 93, 125}

\* Source texts: every one of up to three of these characters, every f-string of
\* as many, and some longer ones: block comments with all kinds of line ends,
\* numbers before and after "..", escapes, keywords.
SourceChars  == {46, 49, 48, 101, 120, 60, 61, 34, 35, 45, 32, 10, 40, 97}
FStringChars == {123, 125, 97, 58, 61, 37, 92, 39}
Words(chars, n) == UNION {[1 .. k -> chars] : k \in 0 .. n}
MCEscapable == {<<39, 92, 10, 1, 31, 48, 233>>, <<9, 13, 34, 127>>}
MCSources ==
    Words(SourceChars, 3)
    \cup {<<102, 34>> \o s \o <<34>> : s \in Words(FStringChars, 3)}
    \cup {<<35, 45, 10, 13, 10, 45, 35, 49, 46, 46, 97, 13, 10, 40>>,
          <<34, 92, 120, 52, 34, 32, 34, 49, 34, 10, 40, 41>>,
          <<34, 92, 48, 54, 49, 92, 117, 50, 48, 65, 99, 34>>,
          <<34, 92, 120, 48, 48, 97, 34>>, <<46, 53, 101, 43, 49, 97>>,
          <<48, 120, 49, 46, 46, 49>>, <<49, 46, 46, 101, 49>>,
          <<60, 60, 61, 49>>, <<102, 34, 123, 97, 58, 97, 125, 34>>,
          <<102, 34, 123, 97, 61, 125, 34>>}
MCKeywords == {<<97, 101>>}

\* Responses files: two blocks for one URL and a third that is a prefix of both,
\* a status inside a body, blocks without a status, files that are refused.
LongUrl == <<1, 2>>
Asks(method, url) == [is |-> "request", for |-> <<method, url>>]
Status(n) == [is |-> "status", status |-> n]
MCRequests == {<<"GET", <<1>>>>, <<"GET", LongUrl>>}
MCFiles ==
    {<<>>,
     <<[is |-> "blank"], Asks("GET", <<1>>), Status(200), [is |-> "text"],
       Asks("GET", LongUrl), Status(404), Asks("GET", <<1>>), Status(500)>>,
     <<Asks("POST", LongUrl), Status(0), [is |-> "text"]>>,
     <<Asks("POST", <<1>>), Status(200), Status(500)>>}
MCInterval == {2}

\* Ports: two with a max_power, one without, one with no id.
MCMaxPower == <<4, 0, 7, 0>>

-----------------------------------------------------------------------------
(* Properties: what the two modules state.                                 *)

\* JSON: what loads is JSON, and what is JSON loads as what it says.
LoadsExactlyJson == part = "json" => Json!LoadsExactlyJson

\* JSON: a dumped value loads as itself, and a dumped string is as long as was
\* counted for it.
DumpLoads == part = "json" => Json!DumpLoads /\ Json!WrittenAsCounted

\* Lexer: tokens are the longest there are, only a malformed one stops it, and
\* the line number is the number of line ends before.
TokensAsSpelled ==
    part = "lexer" => Lexer!TokensAreLongest /\ Lexer!StopsOnlyForCause /\ Lexer!LinesCounted

\* Lexer: a string that was escaped reads back, and an f-string becomes the call
\* it stands for.
StringsAsMeant == part = "lexer" => Lexer!ShownReadsBack /\ Lexer!FStringsAsMeant
=============================================================================

---------------------------- MODULE MCDlmProvider ----------------------------
(***************************************************************************)
(* DlmProvider for TLC.  Characters are short tokens.                      *)
(***************************************************************************)
EXTENDS DlmProvider, TLC

MCPrintable == {"?", "w", "a", "i", "t", "s", "o", "p", "A", "B"}

\* 6.4 A is written A, 9.6 A is written B.
MCAmpsText(amps) == IF amps = 64 THEN <<"A">> ELSE <<"B">>

\* One program that sends a text which is too long and not printable, and one
\* with nothing to report.
MCOthers == {[present |-> TRUE, action |-> <<"A", "e-acute", "A", "A", "A", "A">>],
             [present |-> FALSE, action |-> <<>>]}

\* Alone on a network that is quick enough, alone on one where a request may
\* arrive after the next poll's, and with the others.
MCWorlds == {[others |-> {}, maxDelay |-> 3], [others |-> {}, maxDelay |-> 6],
             [others |-> MCOthers, maxDelay |-> 3]}
MCAlone == {[others |-> {}, maxDelay |-> 1]}
=============================================================================

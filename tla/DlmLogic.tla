------------------------------ MODULE DlmLogic ------------------------------
(***************************************************************************)
(* The plugin contract's pure logic (runner/vm/DlmLogic.h, DlmLogic.cpp):  *)
(* what one submission of a provider does to the unit's record of that     *)
(* provider.  No clock, no lock, no I/O: state in, state out.              *)
(*                                                                         *)
(* A text is a sequence of characters; the characters are tokens and       *)
(* Printable is the set of the printable ones.                             *)
(***************************************************************************)
EXTENDS Integers, Sequences

CONSTANTS
    DLM_ACTION_MAX,           \* longest action text kept (31 in the source)
    MIN_SUBMISSION_INTERVAL,  \* fastest accepted rate, in clock units (200 ms)
    OFFLINE_AFTER,            \* silence after which a provider is offline (30 s)
    COUNTER_WRAP,             \* the counters count modulo this (2^32)
    Printable                 \* the characters 0x20..0x7E

ASSUME DlmLogicAssumption ==
    /\ DLM_ACTION_MAX \in Nat
    /\ MIN_SUBMISSION_INTERVAL \in Nat \ {0}
    /\ OFFLINE_AFTER \in Nat \ {0}
    /\ COUNTER_WRAP \in Nat \ {0}
    /\ "?" \in Printable

\* Mutant: the capacity is not looked at.
SanitiseAction_Uncut(in) ==
    [i \in 1 .. Len(in) |-> IF in[i] \in Printable THEN in[i] ELSE "?"]

\* Truncate to DLM_ACTION_MAX and replace what is not printable by '?'.
SanitiseAction(in) ==
    [i \in 1 .. IF Len(in) < DLM_ACTION_MAX THEN Len(in) ELSE DLM_ACTION_MAX |->
        IF in[i] \in Printable THEN in[i] ELSE "?"]

\* The texts SanitiseAction can leave behind.
PlainText == {t \in Seq(Printable) : Len(t) <= DLM_ACTION_MAX}

DlmAdvisory == [present : BOOLEAN, action : PlainText]
NoAdvisory == [present |-> FALSE, action |-> <<>>]

DlmProviderState ==
    [lastSubmissionUs : Nat,     \* 0 = none this boot
     present          : BOOLEAN,
     action           : PlainText,
     recordedCount    : 0 .. COUNTER_WRAP - 1,
     tooFrequentCount : 0 .. COUNTER_WRAP - 1]

NewProvider ==
    [lastSubmissionUs |-> 0, present |-> FALSE, action |-> <<>>,
     recordedCount |-> 0, tooFrequentCount |-> 0]

\* The rate limit of record(): too soon after the last recorded submission.
TooFrequent(state, nowUs) ==
    /\ state.lastSubmissionUs # 0
    /\ nowUs - state.lastSubmissionUs < MIN_SUBMISSION_INTERVAL

Stored(advisory, state, nowUs) ==
    [verdict |-> "Recorded",
     providerState |->
        [lastSubmissionUs |-> nowUs,
         present          |-> advisory.present,
         action           |-> SanitiseAction(advisory.action),
         recordedCount    |-> (state.recordedCount + 1) % COUNTER_WRAP,
         tooFrequentCount |-> state.tooFrequentCount]]

Refused(state) ==
    [verdict |-> "TooFrequent",
     providerState |->
        [state EXCEPT !.tooFrequentCount = (@ + 1) % COUNTER_WRAP]]

\* Mutant: a refused submission restarts the interval as well.
Record_StampsRefused(advisory, state, nowUs) ==
    IF TooFrequent(state, nowUs)
    THEN [Refused(state) EXCEPT !.providerState.lastSubmissionUs = nowUs]
    ELSE Stored(advisory, state, nowUs)

\* Mutant: recordedCount is incremented before the rate limit.
Record_CountsFirst(advisory, state, nowUs) ==
    IF TooFrequent(state, nowUs)
    THEN [Refused(state) EXCEPT !.providerState.recordedCount = (@ + 1) % COUNTER_WRAP]
    ELSE Stored(advisory, state, nowUs)

\* DlmLogic::record(): a refused submission is counted and stores nothing.
Record(advisory, state, nowUs) ==
    IF TooFrequent(state, nowUs) THEN Refused(state)
                                 ELSE Stored(advisory, state, nowUs)

\* Mutant: <= for <.
Online_AtTheLimit(state, nowUs) ==
    /\ state.lastSubmissionUs # 0
    /\ nowUs - state.lastSubmissionUs <= OFFLINE_AFTER

\* DlmLogic::online()
Online(state, nowUs) ==
    /\ state.lastSubmissionUs # 0
    /\ nowUs - state.lastSubmissionUs < OFFLINE_AFTER
=============================================================================

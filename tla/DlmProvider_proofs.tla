-------------------------- MODULE DlmProvider_proofs --------------------------
(***************************************************************************)
(* Theorems about DlmProvider, for every value of its constants.           *)
(***************************************************************************)
EXTENDS DlmProvider, TLAPS

\* Whatever bytes come in, the text that is stored is printable, no longer
\* than DLM_ACTION_MAX, and the input itself as far as it was printable.
THEOREM SanitisedIsPlain ==
    ASSUME NEW S, NEW in \in Seq(S)
    PROVE  /\ SanitiseAction(in) \in PlainText
           /\ \A i \in 1 .. Len(SanitiseAction(in)) :
                in[i] \in Printable => SanitiseAction(in)[i] = in[i]
<1> USE DlmLogicAssumption
<1> DEFINE n == IF Len(in) < DLM_ACTION_MAX THEN Len(in) ELSE DLM_ACTION_MAX
<1>1. n \in Nat /\ n <= DLM_ACTION_MAX
  OBVIOUS
<1>2. SanitiseAction(in) \in [1 .. n -> Printable]
  BY DEF SanitiseAction
<1>3. SanitiseAction(in) \in Seq(Printable) /\ Len(SanitiseAction(in)) = n
  BY <1>1, <1>2
<1>4. SanitiseAction(in) \in PlainText
  BY <1>1, <1>3 DEF PlainText
<1>5. \A i \in 1 .. n : in[i] \in Printable => SanitiseAction(in)[i] = in[i]
  BY DEF SanitiseAction
<1> QED
  BY <1>3, <1>4, <1>5

\* The same of any text that has a length, whatever it consists of.
LEMMA SanitisedFits ==
    ASSUME NEW in, Len(in) \in Nat
    PROVE  SanitiseAction(in) \in PlainText
<1> USE DlmLogicAssumption
<1> DEFINE n == IF Len(in) < DLM_ACTION_MAX THEN Len(in) ELSE DLM_ACTION_MAX
<1>1. n \in Nat /\ n <= DLM_ACTION_MAX
  OBVIOUS
<1>2. SanitiseAction(in) \in [1 .. n -> Printable]
  BY DEF SanitiseAction
<1> QED
  BY <1>1, <1>2 DEF PlainText

\* No text at all fits.
LEMMA EmptyFits == <<>> \in PlainText
BY DlmLogicAssumption DEF PlainText

\* What the theorems need to know of the clocks, in every state.
Clocks ==
    /\ now \in Nat /\ bootedAt \in Nat /\ bootedAt < now
    /\ started \in Int

-----------------------------------------------------------------------------
(* Any use of the key: floods, delays of any length, restarts.             *)

\* The record's time stamp is the history's, a submission is heard of no
\* earlier than it is stored, and none was in the future.
RecordInv ==
    /\ Clocks
    /\ record.lastSubmissionUs = storedAt
    /\ storedAt \in Nat /\ lastArrival \in Nat
    /\ storedAt <= lastArrival /\ lastArrival <= nowUs
    /\ lastArrival # 0 => storedAt # 0
    /\ FloodStillRecorded

\* One submission, stored or refused, keeps the record in step with what has
\* been heard of.
LEMMA ArrivalRecord ==
    ASSUME NEW advisory, NEW from, RecordInv, Arrival(advisory, from),
           UNCHANGED <<now, bootedAt, started>>
    PROVE  RecordInv'
<1> USE DlmLogicAssumption
<1>1. nowUs \in Nat \ {0}
  BY DEF RecordInv, Clocks, nowUs
<1>2. CASE TooFrequent(record, nowUs)
  <2>1. /\ record' = [record EXCEPT !.tooFrequentCount = (@ + 1) % COUNTER_WRAP]
        /\ lastArrival' = nowUs /\ storedAt' = storedAt
    BY <1>2 DEF Arrival, Record, Refused
  <2>2. record'.lastSubmissionUs = record.lastSubmissionUs
    BY <2>1
  <2>3. storedAt # 0 /\ nowUs - storedAt < MIN_SUBMISSION_INTERVAL
    BY <1>2 DEF TooFrequent, RecordInv
  <2> QED
    BY <1>1, <2>1, <2>2, <2>3 DEF RecordInv, Clocks, nowUs, FloodStillRecorded
<1>3. CASE ~TooFrequent(record, nowUs)
  <2>1. /\ record'.lastSubmissionUs = nowUs
        /\ lastArrival' = nowUs /\ storedAt' = nowUs
    BY <1>3 DEF Arrival, Record, Stored
  <2> QED
    BY <1>1, <2>1 DEF RecordInv, Clocks, nowUs, FloodStillRecorded
<1> QED
  BY <1>2, <1>3

\* RecordInv is an invariant.
LEMMA RecordInvariant == Spec => []RecordInv
<1> USE DlmLogicAssumption, DlmProviderAssumption
<1>1. Init => RecordInv
  BY DEF Init, RecordInv, Clocks, NewProvider, FloodStillRecorded, nowUs
<1>2. RecordInv /\ [Next]_vars => RecordInv'
  <2> SUFFICES ASSUME RecordInv, [Next]_vars PROVE RecordInv'
    OBVIOUS
  <2>1. CASE Poll
    BY <2>1 DEF Poll, PollBody, unitVars, history, RecordInv, Clocks, nowUs,
                FloodStillRecorded
  <2>2. CASE Answered \/ Failed \/ Disconnected \/ Revoke \/ Telemetry
             \/ (\E m \in requests : Lose(m)) \/ UNCHANGED vars
    BY <2>2 DEF Answered, Failed, Disconnected, Revoke, Telemetry, Lose, vars,
                unitVars, pluginVars, netVars, history, RecordInv, Clocks,
                nowUs, FloodStillRecorded
  <2>3. CASE \E m \in requests : Arrive(m)
    <3> PICK m \in requests : Arrive(m)
      BY <2>3
    <3>1. CASE keyValid
      BY <3>1, ArrivalRecord DEF Arrive, pluginVars
    <3>2. CASE ~keyValid
      BY <3>2 DEF Arrive, pluginVars, history, RecordInv, Clocks, nowUs,
                  FloodStillRecorded
    <3> QED
      BY <3>1, <3>2
  <2>4. CASE \E a \in world.others : OtherArrives(a)
    BY <2>4, ArrivalRecord DEF OtherArrives, pluginVars
  <2>5. CASE Reboot
    BY <2>5 DEF Reboot, NewProvider, pluginVars, RecordInv, Clocks, nowUs,
                FloodStillRecorded
  <2>6. CASE Pass
    BY <2>6 DEF Pass, unitVars, pluginVars, history, RecordInv, Clocks, nowUs,
                FloodStillRecorded
  <2> QED
    BY <2>1, <2>2, <2>3, <2>4, <2>5, <2>6 DEF Next
<1> QED
  BY <1>1, <1>2, PTL DEF Spec

\* A flood is thinned out to one stored submission per interval, whoever
\* sends it and however the network delays and reorders it.
THEOREM FloodCorrect == Spec => []FloodStillRecorded
<1>1. RecordInv => FloodStillRecorded
  BY DEF RecordInv
<1> QED
  BY <1>1, RecordInvariant, PTL

\* The online mark follows what was heard of, to within one interval of the
\* rate limit.
THEOREM OnlineCorrect == Spec => []OnlineIffHeard
<1>1. RecordInv => OnlineIffHeard
  BY DlmLogicAssumption
     DEF RecordInv, Clocks, OnlineIffHeard, Online, FloodStillRecorded, nowUs
<1> QED
  BY <1>1, RecordInvariant, PTL

-----------------------------------------------------------------------------
(* A plugin alone with its key, over a network faster than its poll.       *)

AloneAndTimely == Alone /\ Timely /\ world \in Worlds

\* When the last stored report was stored, on the plugin's clock.
StoredTime == bootedAt + record.lastSubmissionUs

\* At most the latest poll is on its way, and what is stored was sent with an
\* earlier one, or, once the latest has arrived, with that.
SteadyInv ==
    /\ Clocks
    /\ record.lastSubmissionUs \in Nat /\ storedFrom \in Int
    /\ \A m \in requests : m.sentAt = started
    /\ \A m, n \in requests : m = n
    /\ requests # {} => started <= now /\ now <= started + world.maxDelay
    /\ record.lastSubmissionUs # 0 =>
         /\ StoredTime <= started + world.maxDelay
         /\ requests # {} => StoredTime + INTERVAL <= started + world.maxDelay
    /\ storedFrom # 0 => storedFrom <= started
    /\ started >= 0 \/ (requests = {} /\ storedFrom = 0)
    /\ record.tooFrequentCount = 0

\* The request that arrives is not refused, and is newer than what it replaces.
LEMMA SteadyArrival ==
    ASSUME AloneAndTimely, SteadyInv, NEW m \in requests, Arrive(m), keyValid
    PROVE  SteadyInv' /\ storedFrom' >= storedFrom
<1> USE DlmLogicAssumption, DlmProviderAssumption
<1>0. /\ world.maxDelay \in Nat
      /\ requests # {} /\ m.sentAt = started /\ started >= 0
      /\ started <= now /\ now <= started + world.maxDelay
  BY DEF SteadyInv, AloneAndTimely
<1>1. ~TooFrequent(record, nowUs)
  BY <1>0 DEF TooFrequent, SteadyInv, Clocks, StoredTime, AloneAndTimely, Timely, nowUs
<1>2. /\ record'.lastSubmissionUs = nowUs
      /\ record'.tooFrequentCount = record.tooFrequentCount
      /\ storedFrom' = started
  BY <1>0, <1>1 DEF Arrive, Arrival, Record, Stored
<1>3. requests' = {} /\ UNCHANGED <<world, now, bootedAt, started>>
  BY DEF Arrive, Reply, SteadyInv, pluginVars
<1>4. storedFrom' >= storedFrom
  BY <1>0, <1>2 DEF SteadyInv, Clocks
<1>5. StoredTime' = now /\ nowUs \in Nat
  BY <1>2, <1>3 DEF SteadyInv, Clocks, StoredTime, nowUs
<1>6. Clocks' /\ record'.tooFrequentCount = 0 /\ storedFrom' \in Int
  BY <1>2, <1>3 DEF SteadyInv, Clocks
<1>7. SteadyInv'
  BY <1>0, <1>2, <1>3, <1>5, <1>6 DEF SteadyInv
<1> QED
  BY <1>4, <1>7

\* Nothing changes the plugin's surroundings.
LEMMA WorldFixed == [Next]_vars => world' = world
BY DEF Next, vars, Poll, PollBody, Answered, Failed, Disconnected, Arrive,
       Lose, OtherArrives, Reboot, Revoke, Telemetry, Pass

\* SteadyInv is inductive, and no step but a restart takes the page back.
LEMMA SteadyStep ==
    ASSUME AloneAndTimely, SteadyInv, [Next]_vars
    PROVE  SteadyInv' /\ (storedFrom' < storedFrom => bootedAt' > bootedAt)
<1> USE DlmLogicAssumption, DlmProviderAssumption
<1>0. world' = world /\ world.maxDelay \in Nat
  BY WorldFixed DEF AloneAndTimely
<1>1. CASE Poll
  <2>1. requests = {}
    BY <1>1 DEF Poll, PollBody, SteadyInv, Clocks, AloneAndTimely, Timely
  <2>2. /\ started' = now /\ now >= started + INTERVAL
        /\ UNCHANGED <<world, now, bootedAt, record, storedFrom>>
    BY <1>1 DEF Poll, PollBody, unitVars, history
  <2>3. /\ \A m \in requests' : m.sentAt = now
        /\ \A m, n \in requests' : m = n
    BY <1>1, <2>1 DEF Poll, PollBody
  <2>4. Clocks' /\ started' >= 0
    BY <2>2 DEF SteadyInv, Clocks
  <2> QED
    BY <1>0, <2>1, <2>2, <2>3, <2>4 DEF SteadyInv, Clocks, StoredTime
<1>2. CASE Answered \/ Failed \/ Disconnected \/ Revoke \/ Telemetry
           \/ UNCHANGED vars
  <2>1. UNCHANGED <<world, now, bootedAt, started, record, requests, storedFrom>>
    BY <1>2 DEF Answered, Failed, Disconnected, Revoke, Telemetry, vars,
                unitVars, pluginVars, netVars, history
  <2> QED
    BY <1>0, <2>1 DEF SteadyInv, Clocks, StoredTime
<1>3. CASE \E m \in requests : Lose(m)
  BY <1>0, <1>3 DEF Lose, unitVars, pluginVars, history, SteadyInv, Clocks, StoredTime
<1>4. CASE \E m \in requests : Arrive(m)
  <2> PICK m \in requests : Arrive(m)
    BY <1>4
  <2>1. CASE keyValid
    BY <2>1, SteadyArrival DEF SteadyInv
  <2>2. CASE ~keyValid
    BY <1>0, <2>2 DEF Arrive, Reply, pluginVars, history, SteadyInv, Clocks, StoredTime
  <2> QED
    BY <1>0, <2>1, <2>2
<1>5. CASE \E a \in world.others : OtherArrives(a)
  BY <1>5 DEF AloneAndTimely, Alone
<1>6. CASE Reboot
  <2>1. /\ bootedAt' > bootedAt /\ bootedAt' = now - 1 /\ now' = now
        /\ started' = started /\ requests' \subseteq requests
        /\ record'.lastSubmissionUs = 0 /\ record'.tooFrequentCount = 0
        /\ storedFrom' = 0
    BY <1>6 DEF Reboot, NewProvider, pluginVars, SteadyInv, Clocks
  <2> QED
    BY <1>0, <2>1 DEF SteadyInv, Clocks, StoredTime
<1>7. CASE Pass
  <2>1. /\ now' = now + 1
        /\ UNCHANGED <<world, bootedAt, started, record, requests, storedFrom>>
        /\ \A m \in requests : now - m.sentAt < world.maxDelay
    BY <1>7 DEF Pass, unitVars, pluginVars, netVars, history
  <2> QED
    BY <1>0, <2>1 DEF SteadyInv, Clocks, StoredTime
<1> QED
  BY <1>1, <1>2, <1>3, <1>4, <1>5, <1>6, <1>7 DEF Next

\* The initial state satisfies SteadyInv.
LEMMA SteadyInit == Init => SteadyInv
BY DlmLogicAssumption, DlmProviderAssumption
   DEF Init, SteadyInv, Clocks, NewProvider, StoredTime

\* In the worlds the two theorems are about, SteadyInv holds.
TimelyInv == Alone /\ Timely => SteadyInv /\ world \in Worlds

\* TimelyInv is inductive, and every step from it keeps the page in order.
LEMMA TimelyStep ==
    ASSUME TimelyInv, [Next]_vars
    PROVE  TimelyInv' /\ PageStep
<1>1. world' = world
  BY WorldFixed
<1>2. CASE Alone /\ Timely
  BY <1>1, <1>2, SteadyStep DEF TimelyInv, AloneAndTimely, PageStep
<1>3. CASE ~(Alone /\ Timely)
  BY <1>1, <1>3 DEF TimelyInv, Alone, Timely, PageStep
<1> QED
  BY <1>2, <1>3

\* TimelyInv holds initially.
LEMMA TimelyInit == Init => TimelyInv
BY SteadyInit DEF TimelyInv, Init

\* Alone with its key, over a network that delays a request by at most the
\* poll interval less the rate limit's, the plugin is never refused: neither
\* retries after failed polls nor restarts of the unit bring two of its
\* reports too close together.
THEOREM NeverRefused == Spec => []NeverTooFrequent
<1>1. TimelyInv /\ [Next]_vars => TimelyInv'
  BY TimelyStep
<1>2. TimelyInv => NeverTooFrequent
  BY DEF TimelyInv, SteadyInv, NeverTooFrequent
<1> QED
  BY TimelyInit, <1>1, <1>2, PTL DEF Spec

\* On the same network the page never goes back to an older report.
THEOREM PageInOrder == Spec => PageNeverGoesBack
<1>1. TimelyInv /\ [Next]_vars => TimelyInv'
  BY TimelyStep
<1>2. TimelyInv /\ [Next]_vars => [PageStep]_vars
  BY TimelyStep
<1> QED
  BY TimelyInit, <1>1, <1>2, PTL DEF Spec, PageNeverGoesBack

-----------------------------------------------------------------------------
(* What the page says.                                                      *)

\* The characters of the plugin's own texts.
Chars == Printable \cup {"w", "a", "i", "t", "s", "o", "p"}

\* A flag and a text that one decision of the plugin could have produced.
IsDecision(present, text) ==
    present <=> \E h \in Headrooms :
        Decide(h).managing /\ text = SanitiseAction(Decide(h).action)

\* The text the plugin sends is stored as the text it has: cutting it first
\* makes no difference.
LEMMA CutThenSanitised ==
    ASSUME NEW S, NEW text \in Seq(S)
    PROVE  LET n == IF Len(text) < DLM_ACTION_MAX THEN Len(text) ELSE DLM_ACTION_MAX
           IN  /\ SubSeq(text, 1, n) \in Seq(S)
               /\ SanitiseAction(SubSeq(text, 1, n)) = SanitiseAction(text)
<1> USE DlmLogicAssumption
<1> DEFINE n == IF Len(text) < DLM_ACTION_MAX THEN Len(text) ELSE DLM_ACTION_MAX
<1>1. n \in 0 .. Len(text) /\ n <= DLM_ACTION_MAX
  OBVIOUS
<1>2. /\ SubSeq(text, 1, n) \in Seq(S) /\ Len(SubSeq(text, 1, n)) = n
      /\ \A i \in 1 .. n : SubSeq(text, 1, n)[i] = text[i]
  BY <1>1
<1>3. (IF n < DLM_ACTION_MAX THEN n ELSE DLM_ACTION_MAX) = n
  BY <1>1
<1>4. SanitiseAction(SubSeq(text, 1, n))
        = [i \in 1 .. n |-> IF SubSeq(text, 1, n)[i] \in Printable
                            THEN SubSeq(text, 1, n)[i] ELSE "?"]
  BY <1>2, <1>3 DEF SanitiseAction
<1>5. SanitiseAction(text)
        = [i \in 1 .. n |-> IF text[i] \in Printable THEN text[i] ELSE "?"]
  BY DEF SanitiseAction
<1> QED
  BY <1>2, <1>4, <1>5

\* decide() returns what IsDecision describes.
LEMMA DecideDecides ==
    ASSUME NEW h \in Headrooms \cup {NoFigure}
    PROVE  /\ Decide(h).managing \in BOOLEAN /\ Decide(h).action \in Seq(Chars)
           /\ IsDecision(Decide(h).managing, SanitiseAction(Decide(h).action))
<1>1. Waiting \in Seq(Chars) /\ Stopped \in Seq(Chars)
  BY DEF Waiting, Stopped, Chars
<1>2. CASE h = NoFigure
  <2>1. Decide(h).managing = FALSE /\ Decide(h).action = Waiting
    BY <1>2 DEF Decide
  <2> QED
    BY <1>1, <2>1, TextAssumption DEF IsDecision
<1>3. CASE h # NoFigure /\ (h * 8) \div 10 < FLOOR
  <2>1. Decide(h).managing = FALSE /\ Decide(h).action = Stopped
    BY <1>3 DEF Decide
  <2> QED
    BY <1>1, <2>1, TextAssumption DEF IsDecision
<1>4. CASE h # NoFigure /\ ~((h * 8) \div 10 < FLOOR)
  <2>1. h \in Headrooms /\ AmpsText((h * 8) \div 10) \in Seq(Printable)
    BY <1>4, DlmProviderAssumption
  <2>2. Decide(h).managing = TRUE /\ Decide(h).action = AmpsText((h * 8) \div 10)
    BY <1>4 DEF Decide
  <2>3. Decide(h).action \in Seq(Chars)
    BY <2>1, <2>2 DEF Chars
  <2> QED
    BY <2>1, <2>2, <2>3 DEF IsDecision
<1> QED
  BY <1>2, <1>3, <1>4

\* What the plugin holds, what it has sent and what the answers bring it.
PluginInv ==
    /\ headroom \in Headrooms \cup {NoFigure}
    /\ answer.headroom \in Headrooms \cup {NoFigure}
    /\ managing \in BOOLEAN /\ action \in Seq(Chars)
    /\ IsDecision(managing, SanitiseAction(action))
    /\ \A m \in requests :
         /\ m.present \in BOOLEAN /\ m.action \in Seq(Chars)
         /\ IsDecision(m.present, SanitiseAction(m.action))

\* PluginInv holds initially: no text, and not managing.
LEMMA PluginInit == Init => PluginInv
<1> SUFFICES ASSUME Init PROVE PluginInv
  OBVIOUS
<1>1. SanitiseAction(<<>>) = <<>>
  BY DlmLogicAssumption DEF SanitiseAction
<1>2. IsDecision(FALSE, SanitiseAction(<<>>))
  BY <1>1, TextAssumption DEF IsDecision
<1>3. action = <<>> /\ managing = FALSE /\ <<>> \in Seq(Chars)
  BY DEF Init
<1> QED
  BY <1>2, <1>3 DEF Init, PluginInv, NoAnswer

\* PluginInv is inductive: flag and text are decided, sent and answered
\* together.
LEMMA PluginStep ==
    ASSUME PluginInv, [Next]_vars
    PROVE  PluginInv'
<1>1. CASE Poll
  <2> DEFINE n == IF Len(action) < DLM_ACTION_MAX THEN Len(action) ELSE DLM_ACTION_MAX
             m == [sentAt |-> now, present |-> managing, action |-> SubSeq(action, 1, n)]
  <2>1. /\ SubSeq(action, 1, n) \in Seq(Chars)
        /\ SanitiseAction(SubSeq(action, 1, n)) = SanitiseAction(action)
    BY CutThenSanitised DEF PluginInv
  <2>2. /\ m.present \in BOOLEAN /\ m.action \in Seq(Chars)
        /\ IsDecision(m.present, SanitiseAction(m.action))
    BY <2>1 DEF PluginInv
  <2>3. /\ requests' = requests \cup {m} /\ answer' = NoAnswer
        /\ UNCHANGED <<headroom, managing, action>>
    BY <1>1 DEF Poll, PollBody, unitVars
  <2> HIDE DEF m, n
  <2> QED
    BY <2>2, <2>3 DEF PluginInv, NoAnswer
<1>2. CASE Answered
  <2>1. UNCHANGED <<headroom, requests>> /\ answer'.headroom = NoFigure
    BY <1>2 DEF Answered, unitVars, NoAnswer
  <2>2. CASE answer.code = 200
    BY <1>2, <2>1, <2>2, DecideDecides DEF Answered, PluginInv, IsDecision
  <2>3. CASE answer.code # 200
    BY <1>2, <2>1, <2>3 DEF Answered, PluginInv, IsDecision
  <2> QED
    BY <2>2, <2>3
<1>3. CASE Failed \/ Disconnected \/ Revoke \/ UNCHANGED vars
  BY <1>3 DEF Failed, Disconnected, Revoke, vars, unitVars, pluginVars, netVars,
              NoAnswer, PluginInv, IsDecision
<1>4. CASE \E m \in requests : Arrive(m) \/ Lose(m)
  <2>1. PICK m \in requests : Arrive(m) \/ Lose(m)
    BY <1>4
  <2>2. /\ requests' = requests \ {m}
        /\ UNCHANGED <<headroom, managing, action>>
    BY <2>1 DEF Arrive, Lose, Reply, unitVars, pluginVars
  <2>3. answer'.headroom \in Headrooms \cup {NoFigure}
    BY <2>1 DEF Arrive, Lose, Reply, PluginInv
  <2> QED
    BY <2>2, <2>3 DEF PluginInv, IsDecision
<1>5. CASE \E a \in world.others : OtherArrives(a)
  BY <1>5 DEF OtherArrives, pluginVars, netVars, PluginInv, IsDecision
<1>6. CASE Reboot
  BY <1>6 DEF Reboot, NoAnswer, pluginVars, PluginInv, IsDecision
<1>7. CASE Telemetry
  BY <1>7 DEF Telemetry, pluginVars, netVars, PluginInv, IsDecision
<1>8. CASE Pass
  BY <1>8 DEF Pass, unitVars, pluginVars, netVars, PluginInv, IsDecision
<1> QED
  BY <1>1, <1>2, <1>3, <1>4, <1>5, <1>6, <1>7, <1>8 DEF Next

\* PageIsOneDecision is inductive, given PluginInv.
LEMMA PageStays ==
    ASSUME PluginInv, PageIsOneDecision, [Next]_vars
    PROVE  PageIsOneDecision'
<1> SUFFICES ASSUME Alone' PROVE IsDecision(record.present, record.action)'
  BY DEF PageIsOneDecision, IsDecision
<1>1. Alone /\ IsDecision(record.present, record.action)
  BY WorldFixed DEF Alone, PageIsOneDecision, IsDecision
<1>2. CASE \E m \in requests : Arrive(m)
  <2> PICK m \in requests : Arrive(m)
    BY <1>2
  <2>1. CASE keyValid /\ ~TooFrequent(record, nowUs)
    <3>1. record'.present = m.present /\ record'.action = SanitiseAction(m.action)
      BY <2>1 DEF Arrive, Arrival, Record, Stored
    <3> QED
      BY <3>1 DEF PluginInv, IsDecision
  <2>2. CASE keyValid /\ TooFrequent(record, nowUs)
    <3>1. record' = [record EXCEPT !.tooFrequentCount = (@ + 1) % COUNTER_WRAP]
      BY <2>2 DEF Arrive, Arrival, Record, Refused
    <3>2. record'.present = record.present /\ record'.action = record.action
      BY <3>1
    <3> QED
      BY <1>1, <3>2 DEF IsDecision
  <2>3. CASE ~keyValid
    BY <1>1, <2>3 DEF Arrive, IsDecision
  <2> QED
    BY <2>1, <2>2, <2>3
<1>3. CASE Reboot
  <2>1. SanitiseAction(<<>>) = <<>>
    BY DlmLogicAssumption DEF SanitiseAction
  <2>2. ~record'.present /\ record'.action = <<>>
    BY <1>3 DEF Reboot, NewProvider
  <2> QED
    BY <2>2, TextAssumption DEF IsDecision
<1>4. CASE \E a \in world.others : OtherArrives(a)
  BY <1>1, <1>4 DEF Alone
<1>5. CASE record' = record
  BY <1>1, <1>5 DEF IsDecision
<1>6. \/ \E m \in requests : Arrive(m)
      \/ Reboot \/ \E a \in world.others : OtherArrives(a)
      \/ record' = record
  BY DEF Next, vars, Poll, PollBody, Answered, Failed, Disconnected, Lose, Revoke,
         Telemetry, Pass, unitVars
<1> QED
  BY <1>2, <1>3, <1>4, <1>5, <1>6

\* What the page says of a plugin that has its key to itself is one decision
\* of the plugin, whichever polls failed, were refused, lost or came late.
THEOREM PageCorrect == Spec => []PageIsOneDecision
<1>1. Init => PageIsOneDecision
  BY TextAssumption DEF Init, PageIsOneDecision, NewProvider
<1>2. PluginInv /\ PageIsOneDecision /\ [Next]_vars => PluginInv' /\ PageIsOneDecision'
  BY PluginStep, PageStays
<1> QED
  BY PluginInit, <1>1, <1>2, PTL DEF Spec

-----------------------------------------------------------------------------
(* Types, and the counters that wrap.                                       *)

\* Adding 1 modulo w, without the remainder.
LEMMA Wraps ==
    ASSUME NEW w \in Nat \ {0}, NEW x \in 0 .. w - 1
    PROVE  (x + 1) % w = (IF x + 1 = w THEN 0 ELSE x + 1)
<1>1. CASE x + 1 = w
  BY <1>1
<1>2. CASE x + 1 # w
  BY <1>2
<1> QED
  BY <1>1, <1>2

\* The remainder of a sum of two counters.
LEMMA SumWraps ==
    ASSUME NEW w \in Nat \ {0}, NEW x \in 0 .. w - 1, NEW y \in 0 .. w - 1
    PROVE  (x + y) % w = (IF x + y < w THEN x + y ELSE x + y - w)
<1>1. CASE x + y < w
  BY <1>1
<1>2. CASE x + y >= w
  <2>1. x + y - w \in 0 .. w - 1
    BY <1>2
  <2>2. (x + y - w) % w = x + y - w
    BY <2>1
  <2>3. (x + y) % w = (x + y - w) % w
    BY <1>2, <2>1
  <2> QED
    BY <1>2, <2>2, <2>3
<1> QED
  BY <1>1, <1>2

\* One submission more is one more in the sum of the counters, also where
\* one of them, or the sum, wraps.
LEMMA OneMore ==
    ASSUME NEW w \in Nat \ {0}, NEW x \in 0 .. w - 1, NEW y \in 0 .. w - 1
    PROVE  (((x + 1) % w) + y) % w = (((x + y) % w) + 1) % w
<1> DEFINE sum == (x + y) % w
           more == (x + 1) % w
<1>1. sum = (IF x + y < w THEN x + y ELSE x + y - w)
  BY SumWraps
<1>2. sum \in 0 .. w - 1
  BY <1>1
<1>3. (sum + 1) % w = (IF sum + 1 = w THEN 0 ELSE sum + 1)
  BY <1>2, Wraps
<1>4. more = (IF x + 1 = w THEN 0 ELSE x + 1) /\ more \in 0 .. w - 1
  BY Wraps
<1>5. (more + y) % w = (IF more + y < w THEN more + y ELSE more + y - w)
  BY <1>4, SumWraps
<1> HIDE DEF sum, more
<1> QED
  BY <1>1, <1>3, <1>4, <1>5

\* The record is a DlmProviderState, the history counts like its counters.
RecordTypes ==
    /\ record \in DlmProviderState
    /\ arrivals \in 0 .. COUNTER_WRAP - 1
    /\ world \in Worlds

\* A submission whose text has a length leaves the types and the sum of the
\* counters right.
LEMMA ArrivalCounts ==
    ASSUME RecordTypes, CountersAddUp, Clocks, UNCHANGED world,
           NEW a, a.present \in BOOLEAN, Len(a.action) \in Nat,
           NEW from, Arrival(a, from)
    PROVE  RecordTypes' /\ CountersAddUp'
<1> USE DlmLogicAssumption
<1> DEFINE r == record.recordedCount
           f == record.tooFrequentCount
           w == COUNTER_WRAP
<1>1. /\ r \in 0 .. w - 1 /\ f \in 0 .. w - 1 /\ w \in Nat \ {0}
      /\ arrivals = (r + f) % w
  BY DEF RecordTypes, DlmProviderState, CountersAddUp
<1>2. arrivals' = (arrivals + 1) % w
  BY DEF Arrival
<1>3. /\ (((r + 1) % w) + f) % w = arrivals' /\ (((f + 1) % w) + r) % w = arrivals'
      /\ r + ((f + 1) % w) = ((f + 1) % w) + r
  <2>1. (((r + 1) % w) + f) % w = (((r + f) % w) + 1) % w
    BY <1>1, OneMore
  <2>2. (((f + 1) % w) + r) % w = (((f + r) % w) + 1) % w
    BY <1>1, OneMore
  <2>3. f + r = r + f /\ (f + 1) % w \in Int
    BY <1>1
  <2> QED
    BY <1>1, <1>2, <2>1, <2>2, <2>3
<1>4. /\ (r + 1) % w \in 0 .. w - 1 /\ (f + 1) % w \in 0 .. w - 1
      /\ arrivals' \in 0 .. w - 1
  <2>1. \A x \in 0 .. w - 1 : (x + 1) % w \in 0 .. w - 1
    BY <1>1
  <2>2. arrivals \in 0 .. w - 1
    BY DEF RecordTypes
  <2> HIDE DEF r, f
  <2> QED
    BY <1>1, <1>2, <2>1, <2>2
<1>5. CASE TooFrequent(record, nowUs)
  <2>1. record' = [record EXCEPT !.tooFrequentCount = (f + 1) % w]
    BY <1>5 DEF Arrival, Record, Refused
  <2>2. record' \in DlmProviderState
    BY <1>4, <2>1 DEF RecordTypes, DlmProviderState
  <2>3. record'.recordedCount = r /\ record'.tooFrequentCount = (f + 1) % w
    BY <2>1 DEF RecordTypes, DlmProviderState
  <2> QED
    BY <1>3, <1>4, <2>2, <2>3 DEF RecordTypes, CountersAddUp
<1>6. CASE ~TooFrequent(record, nowUs)
  <2>1. record' = [lastSubmissionUs |-> nowUs, present |-> a.present,
                   action |-> SanitiseAction(a.action),
                   recordedCount |-> (r + 1) % w, tooFrequentCount |-> f]
    BY <1>6 DEF Arrival, Record, Stored
  <2>2. nowUs \in Nat
    BY DEF Clocks, nowUs
  <2>3. SanitiseAction(a.action) \in PlainText
    BY SanitisedFits
  <2>4. record' \in DlmProviderState
    BY <1>1, <1>4, <2>1, <2>2, <2>3 DEF DlmProviderState
  <2>5. record'.recordedCount = (r + 1) % w /\ record'.tooFrequentCount = f
    BY <2>1
  <2> QED
    BY <1>3, <1>4, <2>4, <2>5 DEF RecordTypes, CountersAddUp
<1> QED
  BY <1>5, <1>6

\* Types and counters stay right in every step.
LEMMA CountersStep ==
    ASSUME RecordTypes, CountersAddUp, Clocks, PluginInv, [Next]_vars
    PROVE  RecordTypes' /\ CountersAddUp'
<1> USE DlmLogicAssumption
<1>0. world' = world
  BY WorldFixed
<1>1. CASE \E m \in requests : Arrive(m)
  <2> PICK m \in requests : Arrive(m)
    BY <1>1
  <2> DEFINE a == [present |-> m.present, action |-> m.action]
  <2>1. a.present \in BOOLEAN /\ Len(a.action) \in Nat
    BY DEF PluginInv
  <2>2. CASE keyValid
    <3>1. Arrival(a, m.sentAt)
      BY <2>2 DEF Arrive
    <3> HIDE DEF a
    <3> QED
      BY <1>0, <2>1, <3>1, ArrivalCounts
  <2>3. CASE ~keyValid
    BY <1>0, <2>3 DEF Arrive, history, RecordTypes, CountersAddUp
  <2> QED
    BY <2>2, <2>3
<1>2. CASE \E a \in world.others : OtherArrives(a)
  <2> PICK a \in world.others : OtherArrives(a)
    BY <1>2
  <2>1. a.present \in BOOLEAN /\ Len(a.action) \in Nat
    BY DlmProviderAssumption DEF RecordTypes
  <2>2. Arrival(a, 0)
    BY DEF OtherArrives
  <2> QED
    BY <1>0, <2>1, <2>2, ArrivalCounts
<1>3. CASE Reboot
  <2>1. record' = NewProvider /\ arrivals' = 0
    BY <1>3 DEF Reboot
  <2> QED
    BY <1>0, <2>1, EmptyFits DEF RecordTypes, CountersAddUp, NewProvider, DlmProviderState
<1>4. CASE record' = record /\ arrivals' = arrivals
  BY <1>0, <1>4 DEF RecordTypes, CountersAddUp
<1>5. \/ \E m \in requests : Arrive(m)
      \/ \E a \in world.others : OtherArrives(a)
      \/ Reboot \/ (record' = record /\ arrivals' = arrivals)
  BY DEF Next, vars, Poll, PollBody, Answered, Failed, Disconnected, Lose, Revoke,
         Telemetry, Pass, unitVars, history
<1> QED
  BY <1>1, <1>2, <1>3, <1>4, <1>5

\* Types and counters are right initially.
LEMMA CountersInit == Init => RecordTypes /\ CountersAddUp
BY DlmLogicAssumption, EmptyFits
   DEF Init, RecordTypes, CountersAddUp, NewProvider, DlmProviderState

\* The clocks are in order.
LEMMA ClocksInvariant == Spec => []Clocks
<1>1. RecordInv => Clocks
  BY DEF RecordInv
<1> QED
  BY <1>1, RecordInvariant, PTL

\* Every submission is counted once, as recorded or as too frequent, through
\* floods, restarts and the wrap-around of either counter.
THEOREM CountersCorrect == Spec => []CountersAddUp
<1>1. /\ RecordTypes /\ CountersAddUp /\ PluginInv /\ Clocks /\ [Next]_vars
      => RecordTypes' /\ CountersAddUp' /\ PluginInv'
  BY CountersStep, PluginStep
<1> QED
  BY CountersInit, PluginInit, ClocksInvariant, <1>1, PTL DEF Spec

\* The rest of the types: what PluginInv and RecordTypes do not say.
Flags ==
    /\ keyValid \in BOOLEAN /\ disconnected \in BOOLEAN
    /\ pc \in {"asleep", "waiting", "rejected", "died"}
    /\ answer.code \in {0, 200, 401, 429}
Times ==
    /\ now \in 1 .. MaxTime /\ bootedAt \in 0 .. now - 1 /\ started \in Int
    /\ lastArrival \in Nat /\ storedAt \in Nat /\ storedFrom \in Nat
    /\ \A m \in requests : m.sentAt \in Nat

\* Flags is inductive.
LEMMA FlagsStep ==
    ASSUME Flags, [Next]_vars
    PROVE  Flags'
<1>0. NoAnswer.code = 0
  BY DEF NoAnswer
<1>1. CASE Poll
  BY <1>0, <1>1 DEF Poll, PollBody, Flags, unitVars
<1>2. CASE Answered \/ Failed \/ Disconnected \/ Revoke \/ Telemetry \/ UNCHANGED vars
  <2>1. /\ keyValid' = keyValid \/ keyValid' = FALSE
        /\ disconnected' = disconnected
        /\ answer' = answer \/ answer' = NoAnswer
        /\ pc' = pc \/ pc' = "asleep" \/ pc' = "rejected" \/ pc' = "died"
    BY <1>2 DEF Answered, Failed, Disconnected, Revoke, Telemetry,
                vars, unitVars, pluginVars, netVars
  <2>2. answer'.code \in {0, 200, 401, 429}
    BY <1>0, <2>1 DEF Flags
  <2>3. keyValid' \in BOOLEAN /\ disconnected' \in BOOLEAN
    BY <2>1, Zenon DEF Flags
  <2>4. pc' \in {"asleep", "waiting", "rejected", "died"}
    BY <2>1 DEF Flags
  <2> QED
    BY <2>2, <2>3, <2>4 DEF Flags
<1>3. CASE \E m \in requests : Arrive(m)
  <2> PICK m \in requests : Arrive(m)
    BY <1>3
  <2>1. UNCHANGED <<keyValid, disconnected, pc>>
    BY DEF Arrive, pluginVars
  <2>2. \A code, h : [code |-> code, headroom |-> h].code = code
    OBVIOUS
  <2>3. answer'.code \in {0, 200, 401, 429}
    BY <2>2 DEF Arrive, Reply, Flags
  <2> QED
    BY <2>1, <2>3 DEF Flags
<1>4. CASE \E m \in requests : Lose(m)
  BY <1>4 DEF Lose, Flags, unitVars, pluginVars
<1>5. CASE \E a \in world.others : OtherArrives(a)
  BY <1>5 DEF OtherArrives, Flags, pluginVars, netVars
<1>6. CASE Reboot
  <2>1. /\ UNCHANGED <<keyValid, pc>> /\ answer' = NoAnswer
        /\ disconnected' \in BOOLEAN
    BY <1>6 DEF Reboot, pluginVars
  <2> QED
    BY <1>0, <2>1 DEF Flags
<1>7. CASE Pass
  BY <1>7 DEF Pass, Flags, unitVars, pluginVars, netVars
<1> QED
  BY <1>1, <1>2, <1>3, <1>4, <1>5, <1>6, <1>7 DEF Next

\* Times is inductive.
LEMMA TimesStep ==
    ASSUME Times, [Next]_vars
    PROVE  Times'
<1>0. MaxTime \in Nat
  BY DlmProviderAssumption
<1>1. CASE Poll
  <2>1. /\ UNCHANGED <<now, bootedAt, lastArrival, storedAt, storedFrom>>
        /\ started' = now
    BY <1>1 DEF Poll, PollBody, unitVars, history
  <2>2. \A m \in requests' : m \in requests \/ m.sentAt = now
    BY <1>1 DEF Poll, PollBody
  <2> QED
    BY <1>0, <2>1, <2>2 DEF Times
<1>2. CASE UNCHANGED <<now, bootedAt, started, requests, history>>
  BY <1>2 DEF Times, history
<1>3. CASE \E m \in requests : Arrive(m)
  <2> PICK m \in requests : Arrive(m)
    BY <1>3
  <2>1. UNCHANGED <<now, bootedAt, started>> /\ requests' \subseteq requests
    BY DEF Arrive, Reply, pluginVars
  <2>2. m.sentAt \in Nat /\ nowUs \in Nat
    BY DEF Times, nowUs
  <2>3. /\ lastArrival' \in {lastArrival, nowUs} /\ storedAt' \in {storedAt, nowUs}
        /\ storedFrom' \in {storedFrom, m.sentAt}
    BY DEF Arrive, Arrival, history
  <2> QED
    BY <1>0, <2>1, <2>2, <2>3 DEF Times
<1>4. CASE \E m \in requests : Lose(m)
  BY <1>4 DEF Lose, Times, unitVars, pluginVars, history
<1>5. CASE \E a \in world.others : OtherArrives(a)
  <2>1. UNCHANGED <<now, bootedAt, started, requests>>
    BY <1>5 DEF OtherArrives, pluginVars, netVars
  <2>2. nowUs \in Nat
    BY DEF Times, nowUs
  <2>3. /\ lastArrival' \in {lastArrival, nowUs} /\ storedAt' \in {storedAt, nowUs}
        /\ storedFrom' \in {storedFrom, 0}
    BY <1>5 DEF OtherArrives, Arrival
  <2> QED
    BY <1>0, <2>1, <2>2, <2>3 DEF Times
<1>6. CASE Reboot
  BY <1>6 DEF Reboot, Times, pluginVars
<1>7. CASE Pass
  BY <1>0, <1>7 DEF Pass, Times, unitVars, pluginVars, netVars, history
<1>8. Answered \/ Failed \/ Disconnected \/ Revoke \/ Telemetry \/ UNCHANGED vars
      => UNCHANGED <<now, bootedAt, started, requests, history>>
  BY DEF Answered, Failed, Disconnected, Revoke, Telemetry, vars, unitVars, pluginVars,
         netVars, history
<1> QED
  BY <1>1, <1>2, <1>3, <1>4, <1>5, <1>6, <1>7, <1>8 DEF Next

\* The flags hold initially.
LEMMA FlagsInit == Init => Flags
<1>1. Init => answer.code = 0
  BY DEF Init, NoAnswer
<1> QED
  BY <1>1 DEF Init, Flags

\* So do the bounds of the times.
LEMMA TimesInit == Init => Times
<1>1. MaxTime \in Nat /\ MaxTime >= 1 /\ INTERVAL \in Nat
  BY DlmProviderAssumption
<1> QED
  BY <1>1 DEF Init, Times

\* Every variable stays in its domain; above all, the text on the page is
\* printable and fits, whoever submitted what.
THEOREM TypesCorrect == Spec => []TypeOK
<1>1. /\ RecordTypes /\ CountersAddUp /\ PluginInv /\ Flags /\ Times /\ Clocks /\ [Next]_vars
      => RecordTypes' /\ CountersAddUp' /\ PluginInv' /\ Flags' /\ Times'
  BY CountersStep, PluginStep, FlagsStep, TimesStep
<1>2. RecordTypes /\ PluginInv /\ Flags /\ Times => TypeOK
  BY DEF RecordTypes, PluginInv, Flags, Times, TypeOK
<1> QED
  BY CountersInit, PluginInit, FlagsInit, TimesInit, ClocksInvariant, <1>1, <1>2, PTL
     DEF Spec
=============================================================================

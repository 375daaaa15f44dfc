----------------------------- MODULE DlmProvider -----------------------------
(***************************************************************************)
(* One registered provider of the HTTP API: the reference plugin           *)
(* (reference-plugin/dlm_reference_plugin.py), the network, and the unit's *)
(* route, which is not part of the repository and only stores what         *)
(* DlmLogic::record() decides.  Other programs may use the same key.       *)
(***************************************************************************)
EXTENDS DlmLogic

CONSTANTS
    NoFigure, Headrooms,   \* allowed_amps_valid = false; allowed_amps, in 0.1 A
    FLOOR,                 \* 6 A, in 0.1 A
    AmpsText(_),           \* the text that names a current
    INTERVAL,              \* seconds between two polls, in clock units
    Worlds,                \* what surrounds the plugin, see below
    MaxTime                \* bound on the clock

ASSUME DlmProviderAssumption ==
    /\ NoFigure \notin Int /\ Headrooms \subseteq Nat
    /\ FLOOR \in Nat \ {0} /\ INTERVAL \in Nat \ {0}
    /\ \A w \in Worlds :
          /\ w.maxDelay \in Nat
          /\ \A a \in w.others : a.present \in BOOLEAN /\ Len(a.action) \in Nat
    /\ \A h \in Headrooms : AmpsText((h * 8) \div 10) \in Seq(Printable)
    /\ MaxTime \in Nat \ {0}

Waiting == <<"w", "a", "i", "t">>
Stopped == <<"s", "t", "o", "p">>

VARIABLES
    world,               \* others: the advisories other programs submit with
                         \* the key; maxDelay: how long a request may be on
                         \* its way.  Nobody changes it.
    now, bootedAt,       \* the clock; when the unit last started
    headroom,            \* what the unit's telemetry says
    keyValid,            \* the owner has not revoked the key
    record,              \* the unit's DlmProviderState
    pc, started,         \* the plugin's loop
    managing, action,
    requests, answer,    \* in flight; for the plugin that is waiting
    disconnected,        \* the unit restarted on an open connection
    lastArrival, arrivals, storedAt, storedFrom    \* history, see Arrival

netVars    == <<requests, answer, disconnected>>
pluginVars == <<pc, started, managing, action>>
unitVars   == <<bootedAt, headroom, keyValid, record>>
history    == <<lastArrival, arrivals, storedAt, storedFrom>>
vars == <<world, now, unitVars, pluginVars, netVars, history>>

nowUs == now - bootedAt     \* the unit's monotonic clock
NoAnswer == [code |-> 0, headroom |-> NoFigure]

Init ==
    /\ world \in Worlds
    /\ now = 1 /\ bootedAt = 0
    /\ headroom = NoFigure /\ keyValid = TRUE /\ record = NewProvider
    /\ pc = "asleep" /\ started = 1 - INTERVAL
    /\ managing = FALSE /\ action = <<>>
    /\ requests = {} /\ answer = NoAnswer /\ disconnected = FALSE
    /\ lastArrival = 0 /\ arrivals = 0 /\ storedAt = 0 /\ storedFrom = 0

-----------------------------------------------------------------------------
(* The plugin.                                                             *)

\* decide(): 80 % of the headroom, nothing under the floor.
Decide(h) ==
    LET amps == (h * 8) \div 10
    IN  IF h = NoFigure    THEN [managing |-> FALSE, action |-> Waiting]
        ELSE IF amps < FLOOR THEN [managing |-> FALSE, action |-> Stopped]
        ELSE [managing |-> TRUE, action |-> AmpsText(amps)]

\* A text that names a current can be told from the others, once stored.
ASSUME TextAssumption == \A h \in Headrooms : Decide(h).managing =>
    SanitiseAction(Decide(h).action) \notin {SanitiseAction(Waiting), SanitiseAction(Stopped), <<>>}

PollBody ==
    /\ pc' = "waiting" /\ started' = now
    /\ requests' = requests \cup
         {[sentAt |-> now, present |-> managing,
           action |-> SubSeq(action, 1, IF Len(action) < DLM_ACTION_MAX
                                        THEN Len(action) ELSE DLM_ACTION_MAX)]}
    /\ answer' = NoAnswer /\ disconnected' = FALSE
    /\ UNCHANGED <<world, now, unitVars, managing, action, history>>

\* Mutant: no sleep before the next poll.
Poll_NoSleep == pc = "asleep" /\ PollBody

\* DlmClient.tick(): what the last tick decided is reported; the text is
\* cut before it is sent.
Poll == pc = "asleep" /\ now >= started + INTERVAL /\ PollBody

\* Mutant: managing is set whatever was decided.
Answered_AlwaysManaging ==
    /\ pc = "waiting" /\ answer # NoAnswer
    /\ IF answer.code = 200
       THEN LET d == Decide(answer.headroom)
            IN  managing' = TRUE /\ action' = d.action
       ELSE UNCHANGED <<managing, action>>
    /\ pc' = IF answer.code = 401 THEN "rejected" ELSE "asleep"
    /\ answer' = NoAnswer
    /\ UNCHANGED <<world, now, unitVars, started, requests, disconnected, history>>

\* 200: decide; 401: give up; 429: a RuntimeError, try again.
Answered ==
    /\ pc = "waiting" /\ answer # NoAnswer
    /\ IF answer.code = 200
       THEN LET d == Decide(answer.headroom)
            IN  managing' = d.managing /\ action' = d.action
       ELSE UNCHANGED <<managing, action>>
    /\ pc' = IF answer.code = 401 THEN "rejected" ELSE "asleep"
    /\ answer' = NoAnswer
    /\ UNCHANGED <<world, now, unitVars, started, requests, disconnected, history>>

\* No connection, or no answer within the timeout: URLError, TimeoutError.
Failed ==
    /\ pc = "waiting"
    /\ pc' = "asleep" /\ answer' = NoAnswer
    /\ UNCHANGED <<world, now, unitVars, started, managing, action, requests,
                   disconnected, history>>

\* The connection was open and is closed with no answer on it.  urllib
\* wraps only errors of the sending half, so what getresponse() raises here
\* (RemoteDisconnected, ConnectionResetError) is none of the exceptions that
\* run() catches.
Disconnected ==
    /\ pc = "waiting" /\ answer = NoAnswer /\ disconnected
    /\ pc' = "died"
    /\ UNCHANGED <<world, now, unitVars, started, managing, action, netVars, history>>

-----------------------------------------------------------------------------
(* The unit, and the network in front of it.                               *)

\* What the route does with a submission it has authenticated.
Arrival(advisory, from) ==
    LET decision == Record(advisory, record, nowUs)
    IN  /\ record' = decision.providerState
        /\ lastArrival' = nowUs
        /\ arrivals' = (arrivals + 1) % COUNTER_WRAP
        /\ IF decision.verdict = "Recorded"
           THEN storedAt' = nowUs /\ storedFrom' = from
           ELSE UNCHANGED <<storedAt, storedFrom>>

\* Only the connection of the poll under way still has someone listening.
Reply(m, code) ==
    /\ requests' = requests \ {m}
    /\ answer' = IF pc = "waiting" /\ started = m.sentAt /\ ~disconnected
                 THEN [code |-> code,
                       headroom |-> IF code = 200 THEN headroom ELSE NoFigure]
                 ELSE answer

Arrive(m) ==
    /\ IF keyValid
       THEN /\ Arrival([present |-> m.present, action |-> m.action], m.sentAt)
            /\ Reply(m, IF TooFrequent(record, nowUs) THEN 429 ELSE 200)
       ELSE /\ Reply(m, 401)
            /\ UNCHANGED <<record, history>>
    /\ UNCHANGED <<world, now, bootedAt, headroom, keyValid, pluginVars, disconnected>>

Lose(m) ==
    /\ requests' = requests \ {m}
    /\ UNCHANGED <<world, now, unitVars, pluginVars, answer, disconnected, history>>

OtherArrives(advisory) ==
    /\ keyValid /\ Arrival(advisory, 0)
    /\ UNCHANGED <<world, now, bootedAt, headroom, keyValid, pluginVars, netVars>>

\* The record is in RAM only.  Open connections are cut; a request may also
\* not have got as far as a connection.
Reboot ==
    /\ now > bootedAt + 1
    /\ bootedAt' = now - 1 /\ record' = NewProvider
    /\ \E cut \in SUBSET requests : requests' = requests \ cut
    /\ disconnected' = (pc = "waiting"
                        /\ \A m \in requests' : m.sentAt # started)
    /\ answer' = NoAnswer
    /\ lastArrival' = 0 /\ arrivals' = 0 /\ storedAt' = 0 /\ storedFrom' = 0
    /\ UNCHANGED <<world, now, headroom, keyValid, pluginVars>>

\* The owner revokes the key; the house uses more or less current.
Revoke ==
    /\ keyValid /\ keyValid' = FALSE
    /\ UNCHANGED <<world, now, bootedAt, headroom, record, pluginVars, netVars, history>>

Telemetry ==
    /\ headroom' \in (Headrooms \cup {NoFigure}) \ {headroom}
    /\ UNCHANGED <<world, now, bootedAt, keyValid, record, pluginVars, netVars, history>>

\* Time passes; a request does not stay in flight longer than the world lets it.
Pass ==
    /\ now < MaxTime
    /\ \A m \in requests : now - m.sentAt < world.maxDelay
    /\ now' = now + 1
    /\ UNCHANGED <<world, unitVars, pluginVars, netVars, history>>

Next ==
    \/ Poll \/ Answered \/ Failed \/ Disconnected
    \/ \E m \in requests : Arrive(m) \/ Lose(m)
    \/ \E a \in world.others : OtherArrives(a)
    \/ Reboot \/ Revoke \/ Telemetry \/ Pass

Spec == Init /\ [][Next]_vars

-----------------------------------------------------------------------------
(* Properties.                                                             *)

\* Type invariant: the stored text is printable and within DLM_ACTION_MAX
\* whatever was submitted.
TypeOK ==
    /\ now \in 1 .. MaxTime /\ bootedAt \in 0 .. now - 1
    /\ headroom \in Headrooms \cup {NoFigure} /\ keyValid \in BOOLEAN
    /\ record \in DlmProviderState
    /\ pc \in {"asleep", "waiting", "rejected", "died"}
    /\ started \in Int /\ managing \in BOOLEAN /\ disconnected \in BOOLEAN
    /\ answer.code \in {0, 200, 401, 429}
    /\ lastArrival \in Nat /\ storedAt \in Nat /\ storedFrom \in Nat

\* However fast a key is used, a submission is stored at least every
\* MIN_SUBMISSION_INTERVAL: the rate limit thins a flood out, it does not
\* silence the provider.
FloodStillRecorded == lastArrival - storedAt < MIN_SUBMISSION_INTERVAL

\* A provider that was heard of recently enough is online, refused
\* submissions included; one that was silent for OFFLINE_AFTER is not.
OnlineIffHeard ==
    lastArrival # 0 =>
        /\ nowUs - lastArrival <= OFFLINE_AFTER - MIN_SUBMISSION_INTERVAL
               => Online(record, nowUs)
        /\ nowUs - lastArrival >= OFFLINE_AFTER => ~Online(record, nowUs)

\* Every submission is counted once, as recorded or as too frequent.
CountersAddUp ==
    (record.recordedCount + record.tooFrequentCount) % COUNTER_WRAP = arrivals

\* Nobody else uses the key, and the network delays a request by no more
\* than INTERVAL - MIN_SUBMISSION_INTERVAL.
Alone == world.others = {}
Timely == world.maxDelay + MIN_SUBMISSION_INTERVAL <= INTERVAL

\* What the page says of the plugin is one decision of the plugin: "managing"
\* comes with the current it set, "idle" with no current, never a mixture of
\* two reports, as long as nobody else uses its key.
PageIsOneDecision ==
    Alone => (record.present <=> \E h \in Headrooms :
        Decide(h).managing /\ record.action = SanitiseAction(Decide(h).action))

\* Polling once per INTERVAL over a network that delays a request by no more
\* than INTERVAL - MIN_SUBMISSION_INTERVAL, the plugin is never refused,
\* retries after failed polls included.
NeverTooFrequent == Alone /\ Timely => record.tooFrequentCount = 0

\* On such a network a late report never replaces a newer one on the page,
\* short of a restart of the unit.
PageStep ==
    Alone /\ Timely /\ storedFrom' < storedFrom => bootedAt' > bootedAt
PageNeverGoesBack == [][PageStep]_vars

\* Only a rejected key ends the plugin; after any failed poll it tries again
\* (the comment in run(): "just try again next tick").
OnlyRejectionStops == pc # "died"
=============================================================================

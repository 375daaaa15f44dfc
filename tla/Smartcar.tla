------------------------------- MODULE Smartcar -------------------------------
(***************************************************************************)
(* scripts/smartcar.be: an on-device script that tells one car, through a  *)
(* vendor's cloud, to start or to stop charging; and, around it, the unit  *)
(* that calls it, the cloud and the car.                                   *)
(*                                                                         *)
(* The clock counts ticks of `interval` seconds.  What the script computes *)
(* from t['epoch'] is kept as the age of sent_at and the rest of the       *)
(* token's life.                                                           *)
(***************************************************************************)
EXTENDS Integers

CONSTANTS
    REASSERT,        \* reassert_s, in ticks
    Lives            \* what the cloud may grant a token, less two minutes

ASSUME SmartcarAssumption ==
    REASSERT \in Nat \ {0} /\ Lives \subseteq Nat

VARIABLES
    pc, want,                  \* tick(): the HTTP call it waits in, want_charge
    token, tokenLeft,          \* token # "", ticks until token_expiry
    sent_charge, sentAge,      \* the age of sent_at, up to REASSERT
    synced,                    \* epoch is real, and not 0
    headroom,                  \* "none" (no figure), "low" or "ok"
    secrets,                   \* what the owner has set: "none", "ids" or "all"
    accepted,                  \* the cloud still takes the script's token
    late, car,                 \* a command the car has yet to get; the car
    report,                    \* what dlm.report() last said
    lastTaken, quiet, rejected, lost   \* history: see Taken, TickBegins,
                               \* CommandRejected, CommandFailed

scriptVars == <<token, tokenLeft, sent_charge, sentAge>>
cloudVars  == <<accepted, late, car, lastTaken>>
unitVars   == <<synced, headroom, secrets>>
vars == <<pc, want, scriptVars, unitVars, cloudVars, report, quiet, rejected, lost>>

Commands == {"start", "stop"}
Label == [start |-> "charging: headroom ok", stop |-> "stopped: low headroom"]

Init ==
    /\ pc = "idle" /\ want = "stop"
    /\ token = FALSE /\ tokenLeft = 0 /\ sent_charge = "nil" /\ sentAge = 0
    /\ synced \in BOOLEAN /\ headroom = "none" /\ secrets = "none"
    /\ accepted = FALSE /\ late = "none" /\ car \in Commands
    /\ report = "none"
    /\ lastTaken = "none" /\ quiet = 0 /\ rejected = FALSE /\ lost = FALSE

Idle(text) == pc' = "idle" /\ report' = text

-----------------------------------------------------------------------------
(* tick()                                                                  *)

\* want_charge: a permitted relay and at least min_amps
WantCharge == IF headroom = "ok" THEN "start" ELSE "stop"

Later(age, limit) == IF synced /\ age < limit THEN age + 1 ELSE age
Sooner(left) == IF synced /\ left > 0 THEN left - 1 ELSE left

\* Mutant: the same answer is never sent again.
ToldRecently_NoReassert(age) == sent_charge = WantCharge

\* Same answer as last time, and told recently enough.
ToldRecently(age) == sent_charge = WantCharge /\ age < REASSERT

\* An interval has passed since the last tick: telemetry, secrets, and
\* either a report at once or the first HTTP call.
TickBegins ==
    /\ pc = "idle"
    /\ sentAge' = Later(sentAge, REASSERT) /\ tokenLeft' = Sooner(tokenLeft)
    /\ quiet' = Later(quiet, REASSERT)
    /\ \/ headroom = "none" /\ Idle("no headroom figure yet") /\ UNCHANGED want
       \/ headroom # "none" /\ secrets = "none"
          /\ Idle("set vehicle_id and user_id") /\ UNCHANGED want
       \/ /\ headroom # "none" /\ secrets # "none" /\ ToldRecently(sentAge')
          /\ Idle(Label[WantCharge]) /\ UNCHANGED want
       \/ /\ headroom # "none" /\ secrets # "none" /\ ~ToldRecently(sentAge')
          /\ want' = WantCharge
          /\ pc' = IF ~token \/ tokenLeft' = 0 THEN "token" ELSE "command"
          /\ UNCHANGED report
    /\ UNCHANGED <<token, sent_charge, unitVars, cloudVars, rejected, lost>>

\* refresh_token() returns true ...
TokenGranted ==
    /\ pc = "token" /\ secrets = "all"
    /\ token' = TRUE /\ \E life \in Lives : tokenLeft' = life
    /\ accepted' = TRUE /\ rejected' = FALSE
    /\ pc' = "command"
    /\ UNCHANGED <<want, sent_charge, sentAge, unitVars, late, car,
                   report, lastTaken, quiet, lost>>

\* ... or false: no credentials, not 200, or no access_token in the answer.
TokenRefused ==
    /\ pc = "token" /\ Idle("auth failed")
    /\ UNCHANGED <<want, scriptVars, unitVars, cloudVars, quiet, rejected, lost>>

\* The cloud takes a command; the car gets it now or later.
Taken(c) ==
    /\ accepted /\ lastTaken' = c
    /\ \/ car' = c /\ UNCHANGED late
       \/ late = "none" /\ late' = c /\ UNCHANGED car

\* 200 or 202
CommandAccepted ==
    /\ pc = "command" /\ Taken(want)
    /\ sent_charge' = want /\ sentAge' = 0 /\ quiet' = 0 /\ lost' = FALSE
    /\ Idle(Label[want])
    /\ UNCHANGED <<want, token, tokenLeft, unitVars, accepted, rejected>>

\* Mutant: the command is re-sent, with the same token.
CommandRejected_KeepsToken ==
    /\ pc = "command" /\ ~accepted
    /\ sent_charge' = "nil" /\ rejected' = TRUE /\ lost' = FALSE
    /\ Idle("token rejected")
    /\ UNCHANGED <<want, token, tokenLeft, sentAge, unitVars, cloudVars, quiet>>

\* 401
CommandRejected ==
    /\ pc = "command" /\ ~accepted
    /\ token' = FALSE /\ sent_charge' = "nil" /\ rejected' = TRUE /\ lost' = FALSE
    /\ Idle("token rejected")
    /\ UNCHANGED <<want, tokenLeft, sentAge, unitVars, cloudVars, quiet>>

\* Mutant: a failed command is taken for sent.
CommandFailed_RecordsIt ==
    /\ pc = "command"
    /\ sent_charge' = want /\ sentAge' = 0
    /\ Idle("api error")
    /\ UNCHANGED <<want, token, tokenLeft, unitVars, cloudVars, quiet, rejected, lost>>

\* Any other status: an error, or no answer to a command that was taken.
CommandFailed ==
    /\ pc = "command"
    /\ \/ UNCHANGED <<late, car, lastTaken, lost>>
       \/ Taken(want) /\ lost' = TRUE
    /\ Idle("api error")
    /\ UNCHANGED <<want, scriptVars, unitVars, accepted, quiet, rejected>>

\* A runtime error: an answer that is not JSON, no memory, the time limit.
TickFails ==
    /\ pc \in {"token", "command"}
    /\ pc' = "failed" /\ report' = "error"
    /\ UNCHANGED <<want, scriptVars, unitVars, cloudVars, quiet, rejected, lost>>

-----------------------------------------------------------------------------
(* The unit around the script.                                             *)

\* The top level runs again.
TopLevel == /\ token' = FALSE /\ tokenLeft' = 0
            /\ sent_charge' = "nil" /\ sentAge' = 0 /\ lost' = FALSE

\* After a failed tick the script is rebuilt from source.
Reload ==
    /\ pc = "failed" /\ pc' = "idle" /\ TopLevel
    /\ UNCHANGED <<want, unitVars, cloudVars, report, quiet, rejected>>

Reboot ==
    /\ Idle("none") /\ TopLevel /\ synced' \in BOOLEAN
    /\ UNCHANGED <<want, headroom, secrets, cloudVars, quiet, rejected>>

\* epoch leaves 0: whatever was stamped before is ages ago.
Sync ==
    /\ ~synced /\ synced' = TRUE
    /\ sentAge' = REASSERT /\ tokenLeft' = 0
    /\ UNCHANGED <<pc, want, token, sent_charge, headroom, secrets, cloudVars,
                   report, quiet, rejected, lost>>

Headroom ==
    /\ headroom' \in {"none", "low", "ok"} \ {headroom}
    /\ UNCHANGED <<pc, want, scriptVars, synced, secrets, cloudVars, report, quiet, rejected, lost>>

\* The owner sets the secrets, or takes them away.
Secrets ==
    /\ secrets' \in {"none", "ids", "all"} \ {secrets}
    /\ UNCHANGED <<pc, want, scriptVars, synced, headroom, cloudVars, report,
                   quiet, rejected, lost>>

-----------------------------------------------------------------------------
(* The cloud and the car.                                                  *)

TokenEnds ==
    /\ accepted /\ accepted' = FALSE
    /\ UNCHANGED <<pc, want, scriptVars, unitVars, late, car, report,
                   lastTaken, quiet, rejected, lost>>

Execute ==
    /\ late # "none" /\ car' = late /\ late' = "none"
    /\ UNCHANGED <<pc, want, scriptVars, unitVars, accepted, report,
                   lastTaken, quiet, rejected, lost>>

CommandLost ==
    /\ late # "none" /\ late' = "none"
    /\ UNCHANGED <<pc, want, scriptVars, unitVars, accepted, car,
                   report, lastTaken, quiet, rejected, lost>>

\* The driver, or the vendor's app.
Driver ==
    /\ car' \in Commands \ {car}
    /\ UNCHANGED <<pc, want, scriptVars, unitVars, accepted, late,
                   report, lastTaken, quiet, rejected, lost>>

ScriptStep == TickBegins \/ TokenGranted \/ TokenRefused \/ CommandAccepted
              \/ CommandRejected \/ CommandFailed \/ TickFails

Next == ScriptStep \/ Reload \/ Reboot \/ Sync \/ Headroom \/ Secrets
        \/ TokenEnds \/ Execute \/ CommandLost \/ Driver

Spec == Init /\ [][Next]_vars

\* The unit keeps calling tick() and its HTTP calls end.  A cloud that is
\* asked again and again does not fail for ever, nor do all its late commands
\* get lost, and the unit gets to know the time.
Fairness ==
    /\ WF_vars(ScriptStep) /\ WF_vars(Reload) /\ WF_vars(Sync)
    /\ SF_vars(TokenGranted) /\ SF_vars(CommandAccepted) /\ SF_vars(Execute)

FairSpec == Spec /\ Fairness

-----------------------------------------------------------------------------
(* Properties.                                                             *)

\* A report that says "charging" or "stopped" is backed by the last command
\* the cloud took, the ones that were sent and failed included.
ReportIsLastCommand ==
    \A c \in Commands : report = Label[c] => lastTaken = c

\* Only a command that was taken and not answered can make the report wrong,
\* and only until the script assigns sent_charge again: rejected tokens,
\* failed ticks, restarts and refused commands cannot.
ReportIsWrongOnlyIfLost == lost \/ ReportIsLastCommand

\* "plus once every reassert_s": when a tick ends by reporting one of the two
\* states, its last accepted command is younger than that, not counting the
\* ticks before the clock was set.
ReassertsInTime ==
    pc = "idle" /\ (\E c \in Commands : report = Label[c]) => quiet < REASSERT

\* A token the cloud has rejected is not used for another command.
RejectedTokenNotReused == pc = "command" => ~rejected

\* With a headroom that stays on one side of the line, the car is brought to
\* the state it calls for, again and again: after lost answers, lost and late
\* commands, rejected tokens, reloads, and a driver who meddles.
CarFollows ==
    \A h \in {"low", "ok"} :
        <>[](headroom = h /\ secrets = "all") =>
            []<>(car = IF h = "ok" THEN "start" ELSE "stop")
=============================================================================

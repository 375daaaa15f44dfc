----------------------------- MODULE EpicCharging -----------------------------
(***************************************************************************)
(* scripts/epiccharging.be: an on-device script that splits the headroom   *)
(* among the ports of a cloud that are charging; and, around it, the unit  *)
(* that calls it and the cloud.  The headroom moves and cars come and go   *)
(* at any time, between two calls of a tick too, so nothing is kept of     *)
(* them but what the script reads.                                         *)
(***************************************************************************)
EXTENDS Integers, FiniteSets, Sequences, Functions, FiniteSetsExt

CONSTANTS
    Ports,           \* charger ports of the tenant
    MaxPower,        \* what the cloud says of each: its max_power, or 0 (nil)
    Nameless,        \* the ports it lists with no id
    Headrooms,       \* multiples of every number of ports
    Unlimited,       \* a port's limit before any script set one
    PageSize,        \* ports in one answer: the script asks for one page
    MaxHttpCalls,    \* kDlmScriptMaxHttp
    MaxTicks         \* bound on the ticks of a behaviour

\* Power is counted in units that make every share a whole number.
SharesAreWhole ==
    /\ IsFiniteSet(Ports) /\ PageSize \in Nat /\ MaxPower \in [Ports -> Nat]
    /\ \A h \in Headrooms : h \in Nat /\ \A n \in 1 .. PageSize : (h \div n) * n = h

VARIABLES
    wait,            \* the HTTP call tick() waits in, "idle" or "failed"
    ports, share, sent,          \* tick()'s locals; ports not yet looked at
    listed,                      \* history: size(ports) and which they were
    httpCalls, ticksMade,
    figure,                      \* history: the headroom tick() has read
    said,                        \* what dlm.report() last said
    limit                        \* in the cloud: the limit of each port

tickVars == <<ports, share, sent, listed, figure>>
epicVars == <<wait, tickVars, httpCalls, ticksMade, said, limit>>

EpicInit ==
    /\ wait = "idle" /\ ports = <<>> /\ share = 0 /\ sent = 0 /\ listed = {}
    /\ httpCalls = 0 /\ ticksMade = 0 /\ figure = 0 /\ said = <<"none">>
    /\ limit = [p \in Ports |-> Unlimited]

\* dlm.http() past the cap raises an error, and the tick fails.
Ask(call) ==
    IF httpCalls < MaxHttpCalls
    THEN wait' = call /\ httpCalls' = httpCalls + 1
    ELSE wait' = "failed" /\ UNCHANGED httpCalls

Say(text) == wait' = "idle" /\ said' = text /\ UNCHANGED httpCalls

\* No figure or no secrets: a report at once; else the GET.
EpicTick ==
    /\ wait = "idle" /\ ticksMade < MaxTicks /\ ticksMade' = ticksMade + 1
    /\ figure' \in Headrooms /\ sent' = 0 /\ listed' = {} /\ ports' = <<>> /\ share' = 0
    /\ \/ wait' = "get" /\ httpCalls' = 1 /\ UNCHANGED said
       \/ wait' = "idle" /\ httpCalls' = 0 /\ said' = <<"not asked">>
    /\ UNCHANGED limit

\* The loop goes on to the next port that has an id, or ends.
OnWith(rest, done, size) ==
    LET named == {i \in DOMAIN rest : rest[i] \notin Nameless}
    IN  IF named = {}
        THEN Say(<<"sent", done, size>>) /\ ports' = <<>>
        ELSE /\ Ask("patch") /\ UNCHANGED said
             /\ ports' = SubSeq(rest, Min(named), Len(rest))

\* 200, and the list is not empty: some ports, in any order.
Listed ==
    /\ wait = "get"
    /\ \E page \in SUBSET Ports :
         LET n == Cardinality(page)
         IN  /\ n \in 1 .. PageSize
             /\ listed' = page /\ share' = figure \div n
             /\ \E order \in Injection(1 .. n, page) : OnWith(order, 0, n)
    /\ UNCHANGED <<sent, figure, ticksMade, limit>>

NotListed ==
    /\ wait = "get"
    /\ Say(<<"no port charging">>) \/ Say(<<"api GET">>)
    /\ UNCHANGED <<tickVars, ticksMade, limit>>

\* Each port's share, clamped to its own max_power.
Clamped(p) == IF MaxPower[p] # 0 /\ MaxPower[p] < share THEN MaxPower[p] ELSE share

PatchTaken ==
    /\ wait = "patch"
    /\ limit' = [limit EXCEPT ![Head(ports)] = Clamped(Head(ports))]
    /\ sent' = sent + 1
    /\ OnWith(Tail(ports), sent + 1, Cardinality(listed))
    /\ UNCHANGED <<share, listed, figure, ticksMade>>

\* Mutant: a port whose request failed is counted as sent.
PatchFails_Counted ==
    /\ wait = "patch"
    /\ \/ UNCHANGED limit
       \/ limit' = [limit EXCEPT ![Head(ports)] = Clamped(Head(ports))]
    /\ sent' = sent + 1 /\ OnWith(Tail(ports), sent + 1, Cardinality(listed))
    /\ UNCHANGED <<share, listed, figure, ticksMade>>

\* Not 200: refused, or taken and its answer lost.
PatchFails ==
    /\ wait = "patch"
    /\ \/ UNCHANGED limit
       \/ limit' = [limit EXCEPT ![Head(ports)] = Clamped(Head(ports))]
    /\ OnWith(Tail(ports), sent, Cardinality(listed))
    /\ UNCHANGED <<sent, share, listed, figure, ticksMade>>

\* Any call can also end in a runtime error, a PATCH also after it was taken; a
\* failed script is loaded again.
EpicFails ==
    /\ wait \in {"get", "patch"} /\ wait' = "failed"
    /\ \/ UNCHANGED limit
       \/ wait = "patch" /\ limit' = [limit EXCEPT ![Head(ports)] = Clamped(Head(ports))]
    /\ UNCHANGED <<tickVars, httpCalls, ticksMade, said>>

EpicReload ==
    /\ wait = "failed" /\ wait' = "idle" /\ said' = <<"failed">>
    /\ UNCHANGED <<tickVars, httpCalls, ticksMade, limit>>

EpicNext == EpicTick \/ Listed \/ NotListed \/ PatchTaken \/ PatchFails
            \/ EpicFails \/ EpicReload

EpicSpec == EpicInit /\ [][EpicNext]_epicVars

-----------------------------------------------------------------------------
\* What a port is given of a share: all of it, or its max_power.
HasShare(p) == limit[p] * Cardinality(listed) = figure \/ limit[p] = MaxPower[p]

\* "d/n port(s)": of the n ports that were listed, at least d have the share of
\* the headroom the tick has read; and "n port(s)" is only reported when all of
\* them do, so that together they draw no more than it - whatever limits the
\* ticks before it have left behind, failed or cut short by the cap on HTTP
\* calls, and whoever came, left or moved the headroom in the middle of it.
SentPortsHaveShare ==
    wait = "idle" /\ said[1] = "sent" =>
        /\ said[3] = Cardinality(listed)
        /\ said[2] <= Cardinality({p \in listed : HasShare(p)})
        /\ said[2] = said[3] =>
               MapThenSumSet(LAMBDA p : limit[p], listed) <= figure
=============================================================================

---------------------------- MODULE DlmScriptSlot ----------------------------
(***************************************************************************)
(* What DlmScriptVm promises its caller, with no Berry VM in sight: a slot *)
(* that at most one object holds, calls that return, and results that can  *)
(* be believed.  DlmScriptVm implements it (see MCDlmScriptVm).            *)
(***************************************************************************)
EXTENDS Integers

CONSTANTS Vms, NoVm, Interval, DefaultInterval, MaxHttp

VARIABLES
    loaded,      \* the objects for which loaded() is true
    interval,    \* intervalSeconds() of every object
    op, self,    \* the call under way
    result       \* what the last call returned

vars == <<loaded, interval, op, self, result>>

Init == /\ loaded = {} /\ interval = [v \in Vms |-> DefaultInterval]
        /\ op = "none" /\ self = NoVm
        /\ result.op = "none"

\* A method is called.  load() may release what the object held at once.
Call(v, o) ==
    /\ op = "none" /\ op' = o /\ self' = v
    /\ result'.op = "none"
    /\ o = "tick" => v \in loaded
    /\ UNCHANGED <<loaded, interval>>

\* The slot is given back, by load() or unload().
Release ==
    /\ op \in {"load", "unload"}
    /\ loaded' = loaded \ {self}
    /\ interval' = [interval EXCEPT ![self] = DefaultInterval]

\* load() lets go of the script it replaces before it looks at the new one.
Replace == op = "load" /\ Release /\ UNCHANGED <<op, self, result>>

\* load() takes the slot, which must be free.
Acquire == /\ op = "load" /\ loaded = {} /\ loaded' = {self}
           /\ UNCHANGED <<interval, op, self, result>>

Return == op' = "none" /\ self' = NoVm /\ result'.op = op

\* Success leaves the object loaded with an interval in range, failure
\* leaves it empty; nobody else's script is touched.
LoadReturns ==
    /\ op = "load" /\ Return
    /\ \/ /\ result'.ok /\ loaded = {self} /\ UNCHANGED loaded
          /\ \E i \in Interval : interval' = [interval EXCEPT ![self] = i]
       \/ ~result'.ok /\ Release

\* A tick changes nothing but its answer: only a successful one carries an
\* advisory, and it made at most MaxHttp requests.
TickReturns ==
    /\ op = "tick" /\ Return
    /\ result'.advisory.present => result'.ok
    /\ result'.httpCalls \in 0 .. MaxHttp
    /\ UNCHANGED <<loaded, interval>>

UnloadReturns == op = "unload" /\ Return /\ Release

\* tick() and unload() with no script loaded return at once.
TickWithoutScript(v) ==
    /\ op = "none" /\ v \notin loaded
    /\ result'.op = "tick" /\ ~result'.ok /\ ~result'.advisory.present
    /\ UNCHANGED <<loaded, interval, op, self>>

UnloadNothing(v) ==
    /\ op = "none" /\ v \notin loaded /\ result'.op = "unload"
    /\ UNCHANGED <<loaded, interval, op, self>>

Next ==
    \/ \E v \in Vms : \/ \E o \in {"load", "tick", "unload"} : Call(v, o)
                      \/ TickWithoutScript(v) \/ UnloadNothing(v)
    \/ Replace \/ Acquire \/ LoadReturns \/ TickReturns \/ UnloadReturns

Spec == Init /\ [][Next]_vars

\* At most one object is loaded, whoever calls what in which order.
AtMostOneLoaded == \A v, w \in loaded : v = w
=============================================================================

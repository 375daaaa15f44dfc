----------------------------- MODULE DlmScriptVm -----------------------------
(***************************************************************************)
(* The on-device script host (runner/vm/DlmScriptVm.{h,cpp}) and the parts *)
(* of the Berry VM it leans on: the chain of error frames (be_exec.c), the *)
(* heartbeat (be_vm.c) and the collector's destructors (be_gc.c).          *)
(*                                                                         *)
(* One thread makes one call at a time (load, tick or unload) on one of    *)
(* the DlmScriptVm objects.  Script code is the environment: between two   *)
(* returns it may do anything a script can, limited to the language        *)
(* features named in Features:                                             *)
(*   "handler"          try/except blocks                                  *)
(*   "destructor"       classes with a deinit method                       *)
(*   "object_exception" exceptions that are instances with a tostring      *)
(*   "exhaustion"       allocations the arena cannot satisfy               *)
(***************************************************************************)
EXTENDS Integers

CONSTANTS
    Vms,                 \* the DlmScriptVm objects of the program
    NoVm,                \* nullptr
    Features,            \* what the scripts use, see above
    Actions,             \* the texts dlm.report() may leave once sanitised
    NoAction,            \* the empty text
    IntervalGlobals,     \* the integers a script may store in `interval`
    NotAnInteger,        \* `interval` is missing or of another type
    HEARTBEAT_BUDGET,
    MAX_HTTP_PER_TICK,
    INTERVAL_MIN_S, INTERVAL_MAX_S, INTERVAL_DEFAULT_S,
    MaxTries,            \* bound: nested try blocks of one activation
    MaxObjects           \* bound: instances with a deinit alive at a time

ASSUME DlmScriptVmAssumption ==
    /\ NoVm \notin Vms
    /\ NoAction \in Actions
    /\ Features \subseteq {"handler", "destructor", "object_exception", "exhaustion"}
    /\ IntervalGlobals \subseteq Int
    /\ NotAnInteger \notin Int
    /\ HEARTBEAT_BUDGET \in Nat
    /\ MAX_HTTP_PER_TICK \in Nat
    /\ INTERVAL_MIN_S \in Nat /\ INTERVAL_MAX_S \in Nat
    /\ INTERVAL_DEFAULT_S \in INTERVAL_MIN_S .. INTERVAL_MAX_S
    /\ MaxTries \in Nat
    /\ MaxObjects \in Nat

VARIABLES
    m_vm,                \* does the object own a Berry VM
    s_active,            \* the object the native functions talk to
    m_intervalSeconds,
    m_heartbeats, m_httpCalls, m_reported, m_reportedThisTick,
    self, op, pc,        \* the call under way: object, method, progress
    ok,                  \* what runProtected() returned to tick()
    result,              \* what the last call returned
    tries,               \* error frames of try blocks of the script's own code
    gcHalt,              \* GC_HALT of the loaded VM
    live, garbage,       \* instances with a deinit: reachable, unreachable
    collecting,          \* a loop over the destructors is on the C stack
    white, todo,         \* what that loop set out to destroy, and has left
    fin, ftries          \* a destructor is running; its try blocks

hostVars  == <<m_vm, s_active, m_intervalSeconds>>
tickVars  == <<m_httpCalls, m_reported, m_reportedThisTick>>
callVars  == <<self, op, ok, result>>
sweepVars == <<collecting, white, todo, fin, ftries>>
heapVars  == <<gcHalt, live, garbage, sweepVars>>
vars == <<hostVars, m_heartbeats, tickVars, callVars, pc, tries, heapVars>>

DlmAdvisory == [present : BOOLEAN, action : Actions]
NoAdvisory  == [present |-> FALSE, action |-> NoAction]

Interval == INTERVAL_MIN_S .. INTERVAL_MAX_S

\* A heartbeat counter that has passed the budget need not be told apart.
Heartbeats == 0 .. HEARTBEAT_BUDGET + 2

HttpCalls == 0 .. MAX_HTTP_PER_TICK

NoResult == [op |-> "none", ok |-> FALSE, advisory |-> NoAdvisory,
             heartbeats |-> 0, httpCalls |-> 0]
Result == [op : {"none", "load", "tick", "unload"}, ok : BOOLEAN,
           advisory : DlmAdvisory, heartbeats : Heartbeats,
           httpCalls : HttpCalls]

PCs == {"idle",      \* no call under way
        "reset",     \* load(): be_vm_delete() of the script being replaced
        "check",     \* load(): the source and s_active are looked at
        "compile",   \* load(): be_loadbuffer(), protected
        "lookup",    \* tick(): be_getglobal("tick")
        "script",    \* be_pcall() of the top level or of tick()
        "capture",   \* captureError(): the tostring of an exception object
        "interval",  \* load(): readInterval()
        "collect",   \* tick(): be_gc_collect()
        "delete",    \* unload(): be_vm_delete()
        "aborted"}   \* be_throw() found no error frame: the process is gone

Init ==
    /\ m_vm = [v \in Vms |-> FALSE]
    /\ s_active = NoVm
    /\ m_intervalSeconds = [v \in Vms |-> INTERVAL_DEFAULT_S]
    /\ m_heartbeats = [v \in Vms |-> 0]
    /\ m_httpCalls = [v \in Vms |-> 0]
    /\ m_reported = [v \in Vms |-> NoAdvisory]
    /\ m_reportedThisTick = [v \in Vms |-> FALSE]
    /\ self = NoVm /\ op = "none" /\ pc = "idle"
    /\ ok = FALSE
    /\ result = NoResult
    /\ tries = 0
    /\ gcHalt = FALSE
    /\ live = 0 /\ garbage = 0
    /\ collecting = FALSE /\ white = 0 /\ todo = 0
    /\ fin = FALSE /\ ftries = 0

-----------------------------------------------------------------------------
(* Who is running.                                                         *)

\* The script's own code: tick(), the top level, or an exception's tostring.
MainRuns == pc \in {"script", "capture"} /\ ~collecting

\* Any Berry bytecode; a destructor runs on top of whatever triggered it.
CodeRuns == MainRuns \/ fin

-----------------------------------------------------------------------------
(* The end of a call.                                                      *)

Finish(r) == /\ pc' = "idle"
             /\ self' = NoVm /\ op' = "none" /\ ok' = FALSE
             /\ result' = r

\* Mutant: the interval of the script that is gone is left in force.
Unloaded_KeepsInterval(v) ==
    /\ m_vm' = [m_vm EXCEPT ![v] = FALSE]
    /\ s_active' = IF s_active = v THEN NoVm ELSE s_active
    /\ m_intervalSeconds' = m_intervalSeconds

\* The statements of unload() after be_vm_delete().
Unloaded(v) ==
    /\ m_vm' = [m_vm EXCEPT ![v] = FALSE]
    /\ s_active' = IF s_active = v THEN NoVm ELSE s_active
    /\ m_intervalSeconds' = [m_intervalSeconds EXCEPT ![v] = INTERVAL_DEFAULT_S]

\* load() and unload() return a bool and nothing; only tick() returns more.
Answer(o, b) == [NoResult EXCEPT !.op = o, !.ok = b]

-----------------------------------------------------------------------------
(* be_throw(): to the innermost error frame.  A script's except clause     *)
(* takes any exception, but never a memory failure; be_pcall() takes       *)
(* everything; where there is no frame, the process aborts.                *)

\* A longjmp out of a destructor loop: the loop's last statement, which
\* clears GC_HALT, is never reached, and nothing it visited is freed.
LeaveSweep ==
    /\ collecting' = FALSE /\ fin' = FALSE /\ ftries' = 0
    /\ white' = 0 /\ todo' = 0
    /\ garbage' = garbage + white
    /\ UNCHANGED <<gcHalt, live>>

\* runProtected() returned false: load() tears down, tick() still collects.
AfterFailure == pc' = IF op = "load" THEN "delete" ELSE "collect"

CaughtInDestructor(kind) ==
    /\ kind # "oom" /\ fin /\ ftries > 0
    /\ ftries' = ftries - 1
    /\ UNCHANGED <<callVars, pc, tries, gcHalt, live, garbage,
                   collecting, white, todo, fin>>

CaughtByScript(kind) ==
    /\ kind # "oom" /\ ~(fin /\ ftries > 0) /\ tries > 0
    /\ tries' = tries - 1
    /\ LeaveSweep
    /\ UNCHANGED <<callVars, pc>>

Uncaught(kind) == kind = "oom" \/ (~(fin /\ ftries > 0) /\ tries = 0)

\* Mutant: be_pcall() leaves the frames of the try blocks it unwinds.
CaughtByPcall_KeepsFrames(kind) ==
    /\ Uncaught(kind) /\ pc = "script"
    /\ tries' = tries
    /\ LeaveSweep
    /\ IF kind = "instance" THEN pc' = "capture" ELSE AfterFailure
    /\ UNCHANGED callVars

CaughtByPcall(kind) ==
    /\ Uncaught(kind) /\ pc = "script"
    /\ tries' = 0
    /\ LeaveSweep
    /\ IF kind = "instance" THEN pc' = "capture" ELSE AfterFailure
    /\ UNCHANGED callVars

Abort(kind) ==
    /\ Uncaught(kind) /\ pc # "script"
    /\ pc' = "aborted"
    /\ tries' = 0
    /\ LeaveSweep
    /\ UNCHANGED callVars

Throw(kind) ==
    \/ CaughtInDestructor(kind)
    \/ CaughtByScript(kind)
    \/ CaughtByPcall(kind)
    \/ Abort(kind)

-----------------------------------------------------------------------------
(* What running bytecode can do.                                           *)

\* Mutant: the hook counts and never raises.
Heartbeat_NeverRaises ==
    /\ CodeRuns /\ s_active # NoVm
    /\ m_heartbeats' = [m_heartbeats EXCEPT ![s_active] =
                          IF @ + 1 \in Heartbeats THEN @ + 1 ELSE @]
    /\ UNCHANGED <<hostVars, tickVars, callVars, pc, tries, heapVars>>

\* Mutant: one heartbeat more than the budget.
Heartbeat_OneMore ==
    /\ CodeRuns /\ s_active # NoVm
    /\ LET n == m_heartbeats[s_active] + 1
       IN  /\ m_heartbeats' = [m_heartbeats EXCEPT ![s_active] =
                                 IF n \in Heartbeats THEN n ELSE @]
           /\ IF n > HEARTBEAT_BUDGET + 1
              THEN Throw("text")
              ELSE UNCHANGED <<callVars, pc, tries, heapVars>>
    /\ UNCHANGED <<hostVars, tickVars>>

\* obsHook(): the instruction count reached another multiple of 8,192.
Heartbeat ==
    /\ CodeRuns /\ s_active # NoVm
    /\ LET n == m_heartbeats[s_active] + 1
       IN  /\ m_heartbeats' = [m_heartbeats EXCEPT ![s_active] =
                                 IF n \in Heartbeats THEN n ELSE @]
           /\ IF n > HEARTBEAT_BUDGET
              THEN Throw("text")
              ELSE UNCHANGED <<callVars, pc, tries, heapVars>>
    /\ UNCHANGED <<hostVars, tickVars>>

\* A raise statement, or a runtime error of the script.
Raise ==
    /\ CodeRuns
    /\ \/ Throw("text")
       \/ "object_exception" \in Features /\ Throw("instance")
    /\ UNCHANGED <<hostVars, m_heartbeats, tickVars>>

\* An allocation failed even after the forced collection.  be_getglobal(),
\* in tick() and in readInterval(), may have to build the string it looks
\* up, and runs under no error frame; be_loadbuffer() has its own.  The
\* arena is taken to be big enough for an empty VM.
OutOfMemory ==
    /\ "exhaustion" \in Features
    /\ CodeRuns \/ pc \in {"lookup", "interval"}
    /\ Throw("oom")
    /\ UNCHANGED <<hostVars, m_heartbeats, tickVars>>

\* OP_EXBLK: enter a try block, and leave it without an exception.
Try ==
    /\ "handler" \in Features
    /\ \/ /\ MainRuns /\ tries < MaxTries
          /\ tries' = tries + 1 /\ UNCHANGED ftries
       \/ /\ fin /\ ftries < MaxTries
          /\ ftries' = ftries + 1 /\ UNCHANGED tries
    /\ UNCHANGED <<hostVars, m_heartbeats, tickVars, callVars, pc, gcHalt,
                   live, garbage, collecting, white, todo, fin>>

CloseTry ==
    /\ \/ MainRuns /\ tries > 0 /\ tries' = tries - 1 /\ UNCHANGED ftries
       \/ fin /\ ftries > 0 /\ ftries' = ftries - 1 /\ UNCHANGED tries
    /\ UNCHANGED <<hostVars, m_heartbeats, tickVars, callVars, pc, gcHalt,
                   live, garbage, collecting, white, todo, fin>>

\* dlm.http() with good arguments: one host call, unless the tick has used
\* its share (HTTP_TOO_MANY); bad arguments change nothing.
NativeHttp ==
    /\ CodeRuns
    /\ m_httpCalls[s_active] < MAX_HTTP_PER_TICK
    /\ m_httpCalls' = [m_httpCalls EXCEPT ![s_active] = @ + 1]
    /\ UNCHANGED <<hostVars, m_heartbeats, m_reported, m_reportedThisTick,
                   callVars, pc, tries, heapVars>>

\* dlm.report(present, action)
NativeReport ==
    /\ CodeRuns
    /\ \E a \in DlmAdvisory : m_reported' = [m_reported EXCEPT ![s_active] = a]
    /\ m_reportedThisTick' = [m_reportedThisTick EXCEPT ![s_active] = TRUE]
    /\ UNCHANGED <<hostVars, m_heartbeats, m_httpCalls, callVars, pc, tries,
                   heapVars>>

\* The script builds an instance whose class has a deinit.  One that a
\* destructor builds is left out: it is freed with no deinit call.
NewObject ==
    /\ "destructor" \in Features
    /\ MainRuns
    /\ live + garbage + white < MaxObjects
    /\ live' = live + 1
    /\ UNCHANGED <<hostVars, m_heartbeats, tickVars, callVars, pc, tries,
                   gcHalt, garbage, sweepVars>>

\* The last reference to an instance goes away.
Drop ==
    /\ CodeRuns /\ live > 0
    /\ live' = live - 1 /\ garbage' = garbage + 1
    /\ UNCHANGED <<hostVars, m_heartbeats, tickVars, callVars, pc, tries,
                   gcHalt, sweepVars>>

-----------------------------------------------------------------------------
(* The collector.                                                          *)

\* The loop over the destructors starts; GC_HALT keeps it from nesting.
StartSweep(n) ==
    /\ collecting' = TRUE /\ gcHalt' = TRUE
    /\ white' = n /\ todo' = n
    /\ UNCHANGED <<fin, ftries>>

\* be_gc_auto(), inside the script: the usage passed the threshold.
AutoCollect ==
    /\ MainRuns /\ ~gcHalt /\ garbage > 0
    /\ StartSweep(garbage)
    /\ garbage' = 0 /\ UNCHANGED live
    /\ UNCHANGED <<hostVars, m_heartbeats, tickVars, callVars, pc, tries>>

\* The collection an allocation forces when the arena is full: GC_ALLOC
\* makes it skip the destructors.
ForcedCollect ==
    /\ "exhaustion" \in Features
    /\ MainRuns /\ ~gcHalt /\ garbage > 0
    /\ garbage' = 0
    /\ UNCHANGED <<hostVars, m_heartbeats, tickVars, callVars, pc, tries,
                   gcHalt, live, sweepVars>>

\* destruct_object(): the deinit of the next instance is called ...
DestructNext ==
    /\ collecting /\ ~fin /\ todo > 0
    /\ fin' = TRUE /\ todo' = todo - 1
    /\ UNCHANGED <<hostVars, m_heartbeats, tickVars, callVars, pc, tries,
                   gcHalt, live, garbage, collecting, white, ftries>>

\* ... and returns.
DestructorReturn ==
    /\ fin
    /\ fin' = FALSE /\ ftries' = 0
    /\ UNCHANGED <<hostVars, m_heartbeats, tickVars, callVars, pc, tries,
                   gcHalt, live, garbage, collecting, white, todo>>

SweepDone == collecting /\ ~fin /\ todo = 0

\* be_gc_collect() inside the script ends: delete_white(), GC_HALT cleared.
EndAutoCollect ==
    /\ SweepDone /\ pc \in {"script", "capture"}
    /\ collecting' = FALSE /\ gcHalt' = FALSE /\ white' = 0
    /\ UNCHANGED <<hostVars, m_heartbeats, tickVars, callVars, pc, tries,
                   live, garbage, todo, fin, ftries>>

-----------------------------------------------------------------------------
(* unload(), and the two times load() calls it.                            *)

StartDelete ==
    /\ pc \in {"reset", "delete"} /\ ~collecting
    /\ StartSweep(live + garbage)
    /\ live' = 0 /\ garbage' = 0
    /\ UNCHANGED <<hostVars, m_heartbeats, tickVars, callVars, pc, tries>>

EndDelete ==
    /\ SweepDone /\ pc \in {"reset", "delete"}
    /\ collecting' = FALSE /\ white' = 0
    /\ gcHalt' = FALSE /\ garbage' = 0
    /\ Unloaded(self)
    /\ IF pc = "reset"
       THEN pc' = "check" /\ UNCHANGED callVars
       ELSE Finish(Answer(op, op = "unload"))
    /\ UNCHANGED <<m_heartbeats, tickVars, tries, live, todo, fin, ftries>>

Begin(v, o) == /\ pc = "idle"
               /\ self' = v /\ op' = o /\ ok' = FALSE /\ result' = NoResult

Unload(v) ==
    /\ IF m_vm[v]
       THEN /\ Begin(v, "unload") /\ pc' = "delete"
            /\ UNCHANGED hostVars
       ELSE /\ pc = "idle" /\ Finish(Answer("unload", TRUE))
            /\ Unloaded(v)
    /\ UNCHANGED <<m_heartbeats, tickVars, tries, heapVars>>

-----------------------------------------------------------------------------
(* load()                                                                  *)

LoadBegin(v) ==
    /\ Begin(v, "load")
    /\ IF m_vm[v]
       THEN pc' = "reset" /\ UNCHANGED hostVars
       ELSE pc' = "check" /\ Unloaded(v)
    /\ UNCHANGED <<m_heartbeats, tickVars, tries, heapVars>>

\* Mutant: load() does not look whether another object is loaded.
AnotherIsActive_Unchecked == FALSE

AnotherIsActive == s_active # NoVm /\ s_active # self

\* An empty or oversized source, or another object has the slot.
LoadRefused ==
    /\ pc = "check"
    /\ Finish(Answer("load", FALSE))
    /\ UNCHANGED <<hostVars, m_heartbeats, tickVars, tries, heapVars>>

LoadCreates ==
    /\ pc = "check" /\ ~AnotherIsActive
    /\ m_vm' = [m_vm EXCEPT ![self] = TRUE]
    /\ s_active' = self
    /\ m_httpCalls' = [m_httpCalls EXCEPT ![self] = 0]
    /\ m_reportedThisTick' = [m_reportedThisTick EXCEPT ![self] = FALSE]
    /\ pc' = "compile"
    /\ UNCHANGED <<m_intervalSeconds, m_heartbeats, m_reported, callVars,
                   tries, heapVars>>

\* runProtected() starts with a fresh budget.
CompileSucceeds ==
    /\ pc = "compile" /\ pc' = "script"
    /\ m_heartbeats' = [m_heartbeats EXCEPT ![self] = 0]
    /\ UNCHANGED <<hostVars, tickVars, callVars, tries, heapVars>>

CompileFails ==
    /\ pc = "compile" /\ pc' = "delete"
    /\ UNCHANGED <<hostVars, m_heartbeats, tickVars, callVars, tries, heapVars>>

\* The top level or tick() returns; the try blocks it is in are closed.
ScriptReturns ==
    /\ MainRuns /\ pc = "script"
    /\ tries' = 0
    /\ pc' = IF op = "load" THEN "interval" ELSE "collect"
    /\ ok' = TRUE
    /\ UNCHANGED <<hostVars, m_heartbeats, tickVars, self, op, result, heapVars>>

\* captureError() has its text.
ToStringReturns ==
    /\ MainRuns /\ pc = "capture"
    /\ tries' = 0
    /\ AfterFailure
    /\ UNCHANGED <<hostVars, m_heartbeats, tickVars, callVars, heapVars>>

\* Mutant: no upper limit.
Clamp_NoMax(g) == IF g = NotAnInteger THEN INTERVAL_DEFAULT_S
                  ELSE IF g < INTERVAL_MIN_S THEN INTERVAL_MIN_S
                  ELSE g

Clamp(g) == IF g = NotAnInteger THEN INTERVAL_DEFAULT_S
            ELSE IF g < INTERVAL_MIN_S THEN INTERVAL_MIN_S
            ELSE IF g > INTERVAL_MAX_S THEN INTERVAL_MAX_S
            ELSE g

ReadInterval ==
    /\ pc = "interval"
    /\ \E g \in IntervalGlobals \cup {NotAnInteger} :
         m_intervalSeconds' = [m_intervalSeconds EXCEPT ![self] = Clamp(g)]
    /\ Finish(Answer("load", TRUE))
    /\ UNCHANGED <<m_vm, s_active, m_heartbeats, tickVars, tries, heapVars>>

-----------------------------------------------------------------------------
(* tick()                                                                  *)

\* Mutant: tick() does not forget the report of the tick before.
TickBegin_KeepsReport(v) ==
    /\ IF m_vm[v]
       THEN /\ Begin(v, "tick") /\ pc' = "lookup"
            /\ m_httpCalls' = [m_httpCalls EXCEPT ![v] = 0]
            /\ m_reported' = m_reported
            /\ m_reportedThisTick' = [m_reportedThisTick EXCEPT ![v] = FALSE]
       ELSE /\ pc = "idle" /\ Finish(Answer("tick", FALSE))
            /\ UNCHANGED tickVars
    /\ UNCHANGED <<hostVars, m_heartbeats, tries, heapVars>>

TickBegin(v) ==
    /\ IF m_vm[v]
       THEN /\ Begin(v, "tick") /\ pc' = "lookup"
            /\ m_httpCalls' = [m_httpCalls EXCEPT ![v] = 0]
            /\ m_reported' = [m_reported EXCEPT ![v] = NoAdvisory]
            /\ m_reportedThisTick' = [m_reportedThisTick EXCEPT ![v] = FALSE]
       ELSE /\ pc = "idle" /\ Finish(Answer("tick", FALSE))
            /\ UNCHANGED tickVars
    /\ UNCHANGED <<hostVars, m_heartbeats, tries, heapVars>>

NoTickFunction ==
    /\ pc = "lookup"
    /\ Finish(Answer("tick", FALSE))
    /\ UNCHANGED <<hostVars, m_heartbeats, tickVars, tries, heapVars>>

TickCalls ==
    /\ pc = "lookup" /\ pc' = "script"
    /\ m_heartbeats' = [m_heartbeats EXCEPT ![self] = 0]
    /\ UNCHANGED <<hostVars, tickVars, callVars, tries, heapVars>>

\* What the tick built is out of reach: destruct_white() takes all of it.
StartTickCollect ==
    /\ pc = "collect" /\ ~collecting /\ ~gcHalt
    /\ \E lost \in 0 .. live :
         /\ StartSweep(garbage + lost)
         /\ live' = live - lost
    /\ garbage' = 0
    /\ UNCHANGED <<hostVars, m_heartbeats, tickVars, callVars, pc, tries>>

\* The collection is over, or GC_HALT was still set and there was none.
\* The advisory is read only now.
TickReturns ==
    /\ pc = "collect"
    /\ SweepDone \/ (~collecting /\ gcHalt)
    /\ IF collecting
       THEN collecting' = FALSE /\ gcHalt' = FALSE /\ white' = 0
       ELSE UNCHANGED <<collecting, gcHalt, white>>
    /\ Finish([op |-> "tick", ok |-> ok,
               advisory |-> IF ok THEN m_reported[self]
                            ELSE NoAdvisory,    \* and the error as its text
               heartbeats |-> m_heartbeats[self],
               httpCalls |-> m_httpCalls[self]])
    /\ UNCHANGED <<hostVars, m_heartbeats, tickVars, tries, live, garbage,
                   todo, fin, ftries>>

-----------------------------------------------------------------------------
(* The specification.                                                      *)

ScriptStep ==
    \/ Raise \/ OutOfMemory \/ Try \/ CloseTry \/ NativeHttp \/ NativeReport
    \/ NewObject \/ Drop \/ AutoCollect \/ ForcedCollect \/ DestructorReturn
    \/ ScriptReturns \/ ToStringReturns

\* The steps that are C code running to its next return.
HostStep ==
    \/ DestructNext \/ EndAutoCollect \/ StartDelete \/ EndDelete
    \/ LoadRefused \/ LoadCreates \/ CompileSucceeds \/ CompileFails
    \/ ReadInterval \/ NoTickFunction \/ TickCalls
    \/ StartTickCollect \/ TickReturns

Next ==
    \/ \E v \in Vms : LoadBegin(v) \/ TickBegin(v) \/ Unload(v)
    \/ Heartbeat
    \/ ScriptStep
    \/ HostStep

Spec == Init /\ [][Next]_vars

\* C code always gets to its next return.  A script that keeps executing
\* keeps executing instructions, and every 8,192nd is a heartbeat, in the
\* script's own code and in a destructor alike: the counter is the VM's.
Fairness == WF_vars(HostStep) /\ SF_vars(Heartbeat)

FairSpec == Spec /\ Fairness

-----------------------------------------------------------------------------
(* Properties.                                                             *)

\* Type invariant of the host and of the VM it drives.
HostTypeOK ==
    /\ m_vm \in [Vms -> BOOLEAN]
    /\ s_active \in Vms \cup {NoVm}
    /\ m_intervalSeconds \in [Vms -> Interval]

TickTypeOK ==
    /\ m_heartbeats \in [Vms -> Heartbeats]
    /\ m_httpCalls \in [Vms -> HttpCalls]
    /\ m_reported \in [Vms -> DlmAdvisory]
    /\ m_reportedThisTick \in [Vms -> BOOLEAN]

CallTypeOK ==
    /\ self \in Vms \cup {NoVm}
    /\ op \in {"none", "load", "tick", "unload"}
    /\ pc \in PCs
    /\ ok \in BOOLEAN
    /\ result \in Result

FlagTypeOK ==
    gcHalt \in BOOLEAN /\ collecting \in BOOLEAN /\ fin \in BOOLEAN

CountTypeOK ==
    /\ live \in Nat /\ garbage \in Nat /\ white \in Nat
    /\ todo \in 0 .. white
    /\ tries \in 0 .. MaxTries /\ ftries \in 0 .. MaxTries

TypeOK == HostTypeOK /\ TickTypeOK /\ CallTypeOK /\ FlagTypeOK /\ CountTypeOK

\* The slot and the VMs agree: an object owns a Berry VM exactly while it is
\* s_active, so at most one does, and whenever bytecode runs, destructors of
\* a VM that is being torn down included, the native functions (which
\* dereference s_active unchecked) reach the object whose call this is.
OneActive ==
    /\ \A v \in Vms : m_vm[v] <=> s_active = v
    /\ CodeRuns => s_active = self /\ self # NoVm

\* "Never throws": no exception, timeout or failed allocation is ever thrown
\* with no error frame to land in, which ends the process (be_exec.c).
NeverAborts == pc # "aborted"

\* What tick() says the script reported was reported during that tick, never
\* a leftover of an earlier one or of load(), and a failed tick says nothing.
AdvisoryIsOfThisTick ==
    result.op = "tick" /\ result.advisory.present =>
        result.ok /\ \E v \in Vms : m_vm[v] /\ m_reportedThisTick[v]

\* A tick that ran past its instruction budget is not reported as a success.
OverBudgetFails == result.op = "tick" /\ result.ok =>
                       result.heartbeats <= HEARTBEAT_BUDGET

\* After a successful tick nothing it left behind is still waiting to be
\* collected: the collection after be_pcall() really took place.
CollectedAfterTick == pc = "idle" /\ result.op = "tick" /\ result.ok => garbage = 0

\* Error frames belong to an activation that still exists: no try block of a
\* script outlives its call, none of a destructor outlives the destructor,
\* and no destructor the collection that called it, so that a throw never
\* lands in code that has already returned.
NoStaleFrames ==
    /\ tries > 0 => pc \in {"script", "capture"}
    /\ ftries > 0 => fin
    /\ fin => collecting
    /\ collecting => pc \in {"script", "capture", "collect", "reset", "delete"}

\* Every call returns (or the process is gone): a script that loops, raises
\* or blocks in its own destructors does not keep the task for ever.
CallsEnd == (pc # "idle") ~> (pc \in {"idle", "aborted"})

\* The promise to the caller, and the module that states it.
Slot == INSTANCE DlmScriptSlot
          WITH loaded <- {v \in Vms : m_vm[v]}, interval <- m_intervalSeconds,
               DefaultInterval <- INTERVAL_DEFAULT_S,
               MaxHttp <- MAX_HTTP_PER_TICK

\* Whatever scripts do, the host implements the slot: at most one object
\* loaded, released on every failure, an interval in range, a tick that
\* changes nothing but its answer.
ImplementsSlot == Slot!Spec
=============================================================================

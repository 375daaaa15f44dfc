-------------------------- MODULE DlmScriptVm_proofs --------------------------
(***************************************************************************)
(* Proofs about DlmScriptVm, for every set of objects, every set of script *)
(* features and every value of the bounds and budgets.                     *)
(***************************************************************************)
EXTENDS DlmScriptVm, TLAPS

-----------------------------------------------------------------------------
(* Error frames.                                                           *)

\* The frames the VM keeps are those of activations still on the stack: a
\* try block is left with its function, a destructor with its collection.
THEOREM FramesCorrect == Spec => []NoStaleFrames
  <1>1. Init => NoStaleFrames BY DEF Init, NoStaleFrames
  <1>2. NoStaleFrames /\ [Next]_vars => NoStaleFrames'
    <2> SUFFICES ASSUME NoStaleFrames, [Next]_vars PROVE NoStaleFrames'
      OBVIOUS
    <2> USE DEF NoStaleFrames, vars, hostVars, tickVars, callVars, heapVars,
                sweepVars
    <2>t. ASSUME NEW kind, Throw(kind) PROVE NoStaleFrames'
      <3>1. CASE CaughtInDestructor(kind) BY <3>1 DEF CaughtInDestructor
      <3>2. CASE CaughtByScript(kind) BY <3>2 DEF CaughtByScript, LeaveSweep
      <3>3. CASE CaughtByPcall(kind) BY <3>3 DEF CaughtByPcall, LeaveSweep
      <3>4. CASE Abort(kind) BY <3>4 DEF Abort, LeaveSweep
      <3> QED BY <2>t, <3>1, <3>2, <3>3, <3>4 DEF Throw
    <2>1. CASE Heartbeat
      BY <2>1, <2>t DEF Heartbeat
    <2>2. CASE Raise \/ OutOfMemory
      BY <2>2, <2>t DEF Raise, OutOfMemory
    <2>3. CASE Try \/ CloseTry
      BY <2>3 DEF Try, CloseTry, MainRuns
    <2>4. CASE NativeHttp \/ NativeReport
      BY <2>4 DEF NativeHttp, NativeReport
    <2>5. CASE NewObject \/ Drop
      BY <2>5 DEF NewObject, Drop
    <2>6. CASE AutoCollect \/ ForcedCollect
      BY <2>6 DEF AutoCollect, ForcedCollect, StartSweep, MainRuns
    <2>7. CASE DestructNext \/ DestructorReturn
      BY <2>7 DEF DestructNext, DestructorReturn
    <2>8. CASE EndAutoCollect
      BY <2>8 DEF EndAutoCollect, SweepDone
    <2>9. CASE StartDelete
      BY <2>9 DEF StartDelete, StartSweep
    <2>10. CASE EndDelete
      BY <2>10 DEF EndDelete, SweepDone, Finish
    <2>11. CASE ScriptReturns \/ ToStringReturns
      BY <2>11 DEF ScriptReturns, ToStringReturns, MainRuns, AfterFailure
    <2>12. CASE LoadRefused BY <2>12 DEF LoadRefused, Finish
    <2>12a. CASE LoadCreates BY <2>12a DEF LoadCreates
    <2>13. CASE CompileSucceeds \/ CompileFails
      BY <2>13 DEF CompileSucceeds, CompileFails
    <2>14. CASE ReadInterval
      BY <2>14 DEF ReadInterval, Finish
    <2>15. CASE NoTickFunction BY <2>15 DEF NoTickFunction, Finish
    <2>15a. CASE TickCalls BY <2>15a DEF TickCalls
    <2>16. CASE StartTickCollect
      BY <2>16 DEF StartTickCollect, StartSweep
    <2>17. CASE TickReturns
      BY <2>17 DEF TickReturns, SweepDone, Finish
    <2>18. ASSUME NEW v \in Vms, LoadBegin(v) \/ TickBegin(v) \/ Unload(v)
           PROVE  NoStaleFrames'
      <3>1. CASE LoadBegin(v) BY <3>1 DEF LoadBegin, Begin
      <3>2. CASE TickBegin(v) BY <3>2 DEF TickBegin, Begin, Finish
      <3>3. CASE Unload(v) BY <3>3 DEF Unload, Begin, Finish
      <3> QED BY <2>18, <3>1, <3>2, <3>3
    <2>19. CASE UNCHANGED vars
      BY <2>19
    <2> QED BY <2>1, <2>2, <2>3, <2>4, <2>5, <2>6, <2>7, <2>8, <2>9, <2>10,
              <2>11, <2>12, <2>12a, <2>13, <2>14, <2>15, <2>15a, <2>16, <2>17, <2>18, <2>19
           DEF Next, ScriptStep, HostStep
  <1> QED BY <1>1, <1>2, PTL DEF Spec

-----------------------------------------------------------------------------
(* Types.                                                                  *)

\* A call under way is a call on some object.
CallHasSelf == pc # "idle" => self \in Vms

TypeInv == TypeOK /\ CallHasSelf

\* readInterval() leaves an interval in range whatever the script stored.
LEMMA ClampInRange ==
    ASSUME NEW g \in IntervalGlobals \cup {NotAnInteger}
    PROVE  Clamp(g) \in Interval
  BY DlmScriptVmAssumption DEF Clamp, Interval

\* The values the counters and results start from.
LEMMA Zeros ==
    /\ INTERVAL_DEFAULT_S \in Interval
    /\ 0 \in Heartbeats /\ 0 \in HttpCalls
    /\ NoAdvisory \in DlmAdvisory
    /\ \A o \in {"none", "load", "tick", "unload"}, b \in BOOLEAN :
         Answer(o, b) \in Result
    /\ NoResult \in Result
  <1> USE DlmScriptVmAssumption
  <1>1. INTERVAL_DEFAULT_S \in Interval BY DEF Interval
  <1>2. 0 \in Heartbeats /\ 0 \in HttpCalls BY DEF Heartbeats, HttpCalls
  <1>3. NoAdvisory \in DlmAdvisory BY DEF NoAdvisory, DlmAdvisory
  <1>4. NoResult \in Result BY <1>2, <1>3 DEF NoResult, Result
  <1>5. \A o \in {"none", "load", "tick", "unload"}, b \in BOOLEAN :
         Answer(o, b) \in Result
    BY <1>4 DEF Answer, Result
  <1> QED BY <1>1, <1>2, <1>3, <1>4, <1>5

\* A group of variables that a step leaves alone keeps its types.
LEMMA Frames ==
    /\ HostTypeOK /\ UNCHANGED hostVars => HostTypeOK'
    /\ TickTypeOK /\ UNCHANGED <<m_heartbeats, tickVars>> => TickTypeOK'
    /\ CallTypeOK /\ CallHasSelf /\ UNCHANGED <<callVars, pc>>
         => CallTypeOK' /\ CallHasSelf'
    /\ FlagTypeOK /\ CountTypeOK /\ UNCHANGED <<heapVars, tries>>
         => FlagTypeOK' /\ CountTypeOK'
  <1>1. HostTypeOK /\ UNCHANGED hostVars => HostTypeOK'
    BY DEF HostTypeOK, hostVars
  <1>2. TickTypeOK /\ UNCHANGED <<m_heartbeats, tickVars>> => TickTypeOK'
    BY DEF TickTypeOK, tickVars
  <1>3. CallTypeOK /\ CallHasSelf /\ UNCHANGED <<callVars, pc>>
          => CallTypeOK' /\ CallHasSelf'
    BY DEF CallTypeOK, CallHasSelf, callVars
  <1>4. FlagTypeOK /\ CountTypeOK /\ UNCHANGED <<heapVars, tries>>
          => FlagTypeOK' /\ CountTypeOK'
    BY DEF FlagTypeOK, CountTypeOK, heapVars, sweepVars
  <1> QED BY <1>1, <1>2, <1>3, <1>4

\* A throw keeps the types of everything it touches.
LEMMA ThrowType ==
    ASSUME TypeInv, pc # "idle", NEW kind, Throw(kind)
    PROVE  CallTypeOK' /\ CallHasSelf' /\ FlagTypeOK' /\ CountTypeOK'
  <1>t. CallTypeOK /\ CallHasSelf /\ FlagTypeOK /\ CountTypeOK
    BY DEF TypeInv, TypeOK
  <1>l. LeaveSweep => FlagTypeOK'
    BY <1>t DEF LeaveSweep, FlagTypeOK
  <1>1. CASE CaughtInDestructor(kind)
    <2>1. CallTypeOK' /\ CallHasSelf'
      BY <1>t, <1>1, Frames DEF CaughtInDestructor
    <2>2. FlagTypeOK' BY <1>t, <1>1 DEF CaughtInDestructor, FlagTypeOK
    <2>3. CountTypeOK'
      BY <1>t, <1>1, DlmScriptVmAssumption DEF CaughtInDestructor, CountTypeOK
    <2> QED BY <2>1, <2>2, <2>3
  <1>2. CASE CaughtByScript(kind)
    <2>1. CallTypeOK' /\ CallHasSelf'
      BY <1>t, <1>2, Frames DEF CaughtByScript
    <2>2. CountTypeOK'
      BY <1>t, <1>2, DlmScriptVmAssumption
         DEF CaughtByScript, LeaveSweep, CountTypeOK
    <2> QED BY <1>l, <1>2, <2>1, <2>2 DEF CaughtByScript
  <1>3. CASE CaughtByPcall(kind)
    <2>1. CallTypeOK' /\ CallHasSelf'
      BY <1>t, <1>3 DEF CaughtByPcall, AfterFailure, CallTypeOK, CallHasSelf,
                        callVars, PCs
    <2>2. CountTypeOK'
      BY <1>t, <1>3, DlmScriptVmAssumption
         DEF CaughtByPcall, LeaveSweep, CountTypeOK
    <2> QED BY <1>l, <1>3, <2>1, <2>2 DEF CaughtByPcall
  <1>4. CASE Abort(kind)
    <2>1. CallTypeOK' /\ CallHasSelf'
      BY <1>t, <1>4 DEF Abort, CallTypeOK, CallHasSelf, callVars, PCs
    <2>2. CountTypeOK'
      BY <1>t, <1>4, DlmScriptVmAssumption DEF Abort, LeaveSweep, CountTypeOK
    <2> QED BY <1>l, <1>4, <2>1, <2>2 DEF Abort
  <1> QED BY <1>1, <1>2, <1>3, <1>4 DEF Throw

\* Type correctness: every variable of the host stays in its domain, and so
\* do the collector's counts, whatever the scripts do.
THEOREM TypeCorrect == Spec => []TypeInv
  <1> USE DlmScriptVmAssumption
  <1>1. Init => TypeInv
    <2> USE Zeros DEF Init
    <2>1. Init => HostTypeOK BY DEF HostTypeOK
    <2>2. Init => TickTypeOK BY DEF TickTypeOK
    <2>3. Init => CallTypeOK /\ CallHasSelf BY DEF CallTypeOK, CallHasSelf, PCs
    <2>4. Init => FlagTypeOK BY DEF FlagTypeOK
    <2>5. Init => CountTypeOK BY DEF CountTypeOK
    <2> QED BY <2>1, <2>2, <2>3, <2>4, <2>5 DEF TypeInv, TypeOK
  <1>2. TypeInv /\ NoStaleFrames /\ [Next]_vars => TypeInv'
    <2> SUFFICES ASSUME TypeInv, NoStaleFrames, [Next]_vars PROVE TypeInv'
      OBVIOUS
    <2>t. /\ HostTypeOK /\ TickTypeOK /\ CallTypeOK /\ FlagTypeOK /\ CountTypeOK
          /\ CallHasSelf
      BY DEF TypeInv, TypeOK
    <2>r. CodeRuns => pc # "idle"
      BY DEF NoStaleFrames, CodeRuns, MainRuns
    <2>1. CASE Try
      <3>1. HostTypeOK' /\ TickTypeOK' /\ CallTypeOK' /\ CallHasSelf'
        BY <2>t, <2>1, Frames DEF Try
      <3>2. FlagTypeOK'
        BY <2>t, <2>1 DEF Try, FlagTypeOK
      <3>3. CountTypeOK'
        BY <2>t, <2>1 DEF Try, CountTypeOK
      <3> QED BY <3>1, <3>2, <3>3 DEF TypeInv, TypeOK
    <2>2. CASE CloseTry
      <3>1. HostTypeOK' /\ TickTypeOK' /\ CallTypeOK' /\ CallHasSelf'
        BY <2>t, <2>2, Frames DEF CloseTry
      <3>2. FlagTypeOK'
        BY <2>t, <2>2 DEF CloseTry, FlagTypeOK
      <3>3. CountTypeOK'
        BY <2>t, <2>2 DEF CloseTry, CountTypeOK
      <3> QED BY <3>1, <3>2, <3>3 DEF TypeInv, TypeOK
    <2>3. CASE NativeHttp
      <3>1. HostTypeOK' /\ CallTypeOK' /\ CallHasSelf' /\ FlagTypeOK' /\ CountTypeOK'
        BY <2>t, <2>3, Frames DEF NativeHttp
      <3>2. TickTypeOK'
        <4>1. m_httpCalls \in [Vms -> HttpCalls] BY <2>t DEF TickTypeOK
        <4>2. \A n \in HttpCalls : n < MAX_HTTP_PER_TICK => n + 1 \in HttpCalls
          BY DEF HttpCalls
        <4>3. CASE s_active \in Vms
          <5>1. m_httpCalls[s_active] + 1 \in HttpCalls
            BY <2>3, <4>1, <4>2, <4>3 DEF NativeHttp
          <5> QED BY <2>t, <2>3, <5>1, <4>1 DEF NativeHttp, TickTypeOK
        <4>4. CASE s_active \notin Vms
          BY <2>t, <2>3, <4>4 DEF NativeHttp, TickTypeOK
        <4> QED BY <4>3, <4>4
      <3> QED BY <3>1, <3>2 DEF TypeInv, TypeOK
    <2>4. CASE NativeReport
      <3>1. HostTypeOK' /\ CallTypeOK' /\ CallHasSelf' /\ FlagTypeOK' /\ CountTypeOK'
        BY <2>t, <2>4, Frames DEF NativeReport
      <3>2. TickTypeOK'
        BY <2>t, <2>4, Zeros DEF NativeReport, TickTypeOK
      <3> QED BY <3>1, <3>2 DEF TypeInv, TypeOK
    <2>5. CASE NewObject
      <3>1. HostTypeOK' /\ TickTypeOK' /\ CallTypeOK' /\ CallHasSelf'
        BY <2>t, <2>5, Frames DEF NewObject
      <3>2. FlagTypeOK'
        BY <2>t, <2>5 DEF NewObject, FlagTypeOK, sweepVars
      <3>3. CountTypeOK'
        BY <2>t, <2>5 DEF NewObject, CountTypeOK, sweepVars
      <3> QED BY <3>1, <3>2, <3>3 DEF TypeInv, TypeOK
    <2>6. CASE Drop
      <3>1. HostTypeOK' /\ TickTypeOK' /\ CallTypeOK' /\ CallHasSelf'
        BY <2>t, <2>6, Frames DEF Drop
      <3>2. FlagTypeOK'
        BY <2>t, <2>6 DEF Drop, FlagTypeOK, sweepVars
      <3>3. CountTypeOK'
        BY <2>t, <2>6 DEF Drop, CountTypeOK, sweepVars
      <3> QED BY <3>1, <3>2, <3>3 DEF TypeInv, TypeOK
    <2>7. CASE AutoCollect
      <3>1. HostTypeOK' /\ TickTypeOK' /\ CallTypeOK' /\ CallHasSelf'
        BY <2>t, <2>7, Frames DEF AutoCollect
      <3>2. FlagTypeOK'
        BY <2>t, <2>7 DEF AutoCollect, FlagTypeOK, StartSweep
      <3>3. CountTypeOK'
        BY <2>t, <2>7 DEF AutoCollect, CountTypeOK, StartSweep
      <3> QED BY <3>1, <3>2, <3>3 DEF TypeInv, TypeOK
    <2>8. CASE ForcedCollect
      <3>1. HostTypeOK' /\ TickTypeOK' /\ CallTypeOK' /\ CallHasSelf'
        BY <2>t, <2>8, Frames DEF ForcedCollect
      <3>2. FlagTypeOK'
        BY <2>t, <2>8 DEF ForcedCollect, FlagTypeOK, sweepVars
      <3>3. CountTypeOK'
        BY <2>t, <2>8 DEF ForcedCollect, CountTypeOK, sweepVars
      <3> QED BY <3>1, <3>2, <3>3 DEF TypeInv, TypeOK
    <2>9. CASE DestructNext
      <3>1. HostTypeOK' /\ TickTypeOK' /\ CallTypeOK' /\ CallHasSelf'
        BY <2>t, <2>9, Frames DEF DestructNext
      <3>2. FlagTypeOK'
        BY <2>t, <2>9 DEF DestructNext, FlagTypeOK
      <3>3. CountTypeOK'
        BY <2>t, <2>9 DEF DestructNext, CountTypeOK
      <3> QED BY <3>1, <3>2, <3>3 DEF TypeInv, TypeOK
    <2>10. CASE DestructorReturn
      <3>1. HostTypeOK' /\ TickTypeOK' /\ CallTypeOK' /\ CallHasSelf'
        BY <2>t, <2>10, Frames DEF DestructorReturn
      <3>2. FlagTypeOK'
        BY <2>t, <2>10 DEF DestructorReturn, FlagTypeOK
      <3>3. CountTypeOK'
        BY <2>t, <2>10 DEF DestructorReturn, CountTypeOK
      <3> QED BY <3>1, <3>2, <3>3 DEF TypeInv, TypeOK
    <2>11. CASE EndAutoCollect
      <3>1. HostTypeOK' /\ TickTypeOK' /\ CallTypeOK' /\ CallHasSelf'
        BY <2>t, <2>11, Frames DEF EndAutoCollect
      <3>2. FlagTypeOK'
        BY <2>t, <2>11 DEF EndAutoCollect, FlagTypeOK
      <3>3. CountTypeOK'
        BY <2>t, <2>11 DEF EndAutoCollect, CountTypeOK, SweepDone
      <3> QED BY <3>1, <3>2, <3>3 DEF TypeInv, TypeOK
    <2>12. CASE StartDelete
      <3>1. HostTypeOK' /\ TickTypeOK' /\ CallTypeOK' /\ CallHasSelf'
        BY <2>t, <2>12, Frames DEF StartDelete
      <3>2. FlagTypeOK'
        BY <2>t, <2>12 DEF StartDelete, FlagTypeOK, StartSweep
      <3>3. CountTypeOK'
        BY <2>t, <2>12 DEF StartDelete, CountTypeOK, StartSweep
      <3> QED BY <3>1, <3>2, <3>3 DEF TypeInv, TypeOK
    <2>13. CASE StartTickCollect
      <3>1. HostTypeOK' /\ TickTypeOK' /\ CallTypeOK' /\ CallHasSelf'
        BY <2>t, <2>13, Frames DEF StartTickCollect
      <3>2. FlagTypeOK'
        BY <2>t, <2>13 DEF StartTickCollect, FlagTypeOK, StartSweep
      <3>3. CountTypeOK'
        BY <2>t, <2>13 DEF StartTickCollect, CountTypeOK, StartSweep
      <3> QED BY <3>1, <3>2, <3>3 DEF TypeInv, TypeOK
    <2>14. CASE EndDelete
      <3>1. TickTypeOK'
        BY <2>t, <2>14, Frames DEF EndDelete
      <3>2. HostTypeOK'
        BY <2>t, <2>14, Zeros DEF EndDelete, HostTypeOK, Unloaded
      <3>3. CallTypeOK' /\ CallHasSelf'
        BY <2>t, <2>14, Zeros DEF EndDelete, CallTypeOK, CallHasSelf,
           callVars, PCs, Finish
      <3>4. FlagTypeOK'
        BY <2>t, <2>14 DEF EndDelete, FlagTypeOK
      <3>5. CountTypeOK'
        BY <2>t, <2>14 DEF EndDelete, CountTypeOK, SweepDone
      <3> QED BY <3>1, <3>2, <3>3, <3>4, <3>5 DEF TypeInv, TypeOK
    <2>15. CASE LoadRefused
      <3>1. HostTypeOK' /\ TickTypeOK' /\ FlagTypeOK' /\ CountTypeOK'
        BY <2>t, <2>15, Frames DEF LoadRefused
      <3>2. CallTypeOK' /\ CallHasSelf'
        BY <2>t, <2>15, Zeros DEF LoadRefused, CallTypeOK, CallHasSelf,
           callVars, PCs, Finish
      <3> QED BY <3>1, <3>2 DEF TypeInv, TypeOK
    <2>16. CASE LoadCreates
      <3>1. FlagTypeOK' /\ CountTypeOK'
        BY <2>t, <2>16, Frames DEF LoadCreates
      <3>2. HostTypeOK'
        BY <2>t, <2>16, Zeros DEF LoadCreates, HostTypeOK, CallTypeOK,
           CallHasSelf
      <3>3. TickTypeOK'
        BY <2>t, <2>16, Zeros DEF LoadCreates, TickTypeOK
      <3>4. CallTypeOK' /\ CallHasSelf'
        BY <2>t, <2>16 DEF LoadCreates, CallTypeOK, CallHasSelf, callVars,
           PCs
      <3> QED BY <3>1, <3>2, <3>3, <3>4 DEF TypeInv, TypeOK
    <2>17. CASE CompileSucceeds
      <3>1. HostTypeOK' /\ FlagTypeOK' /\ CountTypeOK'
        BY <2>t, <2>17, Frames DEF CompileSucceeds
      <3>2. TickTypeOK'
        BY <2>t, <2>17, Zeros DEF CompileSucceeds, TickTypeOK, tickVars
      <3>3. CallTypeOK' /\ CallHasSelf'
        BY <2>t, <2>17 DEF CompileSucceeds, CallTypeOK, CallHasSelf,
           callVars, PCs
      <3> QED BY <3>1, <3>2, <3>3 DEF TypeInv, TypeOK
    <2>18. CASE CompileFails
      <3>1. HostTypeOK' /\ TickTypeOK' /\ FlagTypeOK' /\ CountTypeOK'
        BY <2>t, <2>18, Frames DEF CompileFails
      <3>2. CallTypeOK' /\ CallHasSelf'
        BY <2>t, <2>18 DEF CompileFails, CallTypeOK, CallHasSelf, callVars,
           PCs
      <3> QED BY <3>1, <3>2 DEF TypeInv, TypeOK
    <2>19. CASE ScriptReturns
      <3>1. HostTypeOK' /\ TickTypeOK'
        BY <2>t, <2>19, Frames DEF ScriptReturns
      <3>2. CallTypeOK' /\ CallHasSelf'
        BY <2>t, <2>19 DEF ScriptReturns, CallTypeOK, CallHasSelf, callVars,
           PCs
      <3>3. FlagTypeOK'
        BY <2>t, <2>19 DEF ScriptReturns, FlagTypeOK, heapVars, sweepVars
      <3>4. CountTypeOK'
        BY <2>t, <2>19 DEF ScriptReturns, CountTypeOK, heapVars, sweepVars
      <3> QED BY <3>1, <3>2, <3>3, <3>4 DEF TypeInv, TypeOK
    <2>20. CASE ToStringReturns
      <3>1. HostTypeOK' /\ TickTypeOK'
        BY <2>t, <2>20, Frames DEF ToStringReturns
      <3>2. CallTypeOK' /\ CallHasSelf'
        BY <2>t, <2>20 DEF ToStringReturns, CallTypeOK, CallHasSelf,
           callVars, PCs, AfterFailure, MainRuns
      <3>3. FlagTypeOK'
        BY <2>t, <2>20 DEF ToStringReturns, FlagTypeOK, heapVars, sweepVars
      <3>4. CountTypeOK'
        BY <2>t, <2>20 DEF ToStringReturns, CountTypeOK, heapVars, sweepVars
      <3> QED BY <3>1, <3>2, <3>3, <3>4 DEF TypeInv, TypeOK
    <2>21. CASE ReadInterval
      <3>1. TickTypeOK' /\ FlagTypeOK' /\ CountTypeOK'
        BY <2>t, <2>21, Frames DEF ReadInterval
      <3>2. HostTypeOK'
        BY <2>t, <2>21, ClampInRange DEF ReadInterval, HostTypeOK
      <3>3. CallTypeOK' /\ CallHasSelf'
        BY <2>t, <2>21, Zeros DEF ReadInterval, CallTypeOK, CallHasSelf,
           callVars, PCs, Finish
      <3> QED BY <3>1, <3>2, <3>3 DEF TypeInv, TypeOK
    <2>22. CASE NoTickFunction
      <3>1. HostTypeOK' /\ TickTypeOK' /\ FlagTypeOK' /\ CountTypeOK'
        BY <2>t, <2>22, Frames DEF NoTickFunction
      <3>2. CallTypeOK' /\ CallHasSelf'
        BY <2>t, <2>22, Zeros DEF NoTickFunction, CallTypeOK, CallHasSelf,
           callVars, PCs, Finish
      <3> QED BY <3>1, <3>2 DEF TypeInv, TypeOK
    <2>23. CASE TickCalls
      <3>1. HostTypeOK' /\ FlagTypeOK' /\ CountTypeOK'
        BY <2>t, <2>23, Frames DEF TickCalls
      <3>2. TickTypeOK'
        BY <2>t, <2>23, Zeros DEF TickCalls, TickTypeOK, tickVars
      <3>3. CallTypeOK' /\ CallHasSelf'
        BY <2>t, <2>23 DEF TickCalls, CallTypeOK, CallHasSelf, callVars, PCs
      <3> QED BY <3>1, <3>2, <3>3 DEF TypeInv, TypeOK
    <2>24. CASE TickReturns
      <3>1. HostTypeOK' /\ TickTypeOK'
        BY <2>t, <2>24, Frames DEF TickReturns
      <3>2. CallTypeOK' /\ CallHasSelf'
        <4>1. self \in Vms BY <2>t, <2>24 DEF TickReturns, CallHasSelf
        <4>2. result' \in Result
          BY <2>t, <2>24, <4>1, Zeros
             DEF TickReturns, Finish, Result, TickTypeOK, CallTypeOK
        <4> QED BY <2>24, <4>2 DEF TickReturns, Finish, CallTypeOK, CallHasSelf, PCs
      <3>3. FlagTypeOK'
        BY <2>t, <2>24 DEF TickReturns, FlagTypeOK
      <3>4. CountTypeOK'
        BY <2>t, <2>24 DEF TickReturns, CountTypeOK, SweepDone
      <3> QED BY <3>1, <3>2, <3>3, <3>4 DEF TypeInv, TypeOK
    <2>25. CASE Raise
      <3>1. HostTypeOK' /\ TickTypeOK'
        BY <2>t, <2>25, Frames DEF Raise
      <3>2. pc # "idle" BY <2>r, <2>25 DEF Raise
      <3>3. CallTypeOK' /\ CallHasSelf' /\ FlagTypeOK' /\ CountTypeOK'
        BY <2>25, <3>2, ThrowType DEF Raise
      <3> QED BY <3>1, <3>3 DEF TypeInv, TypeOK
    <2>26. CASE OutOfMemory
      <3>1. HostTypeOK' /\ TickTypeOK'
        BY <2>t, <2>26, Frames DEF OutOfMemory
      <3>2. pc # "idle" BY <2>r, <2>26 DEF OutOfMemory
      <3>3. CallTypeOK' /\ CallHasSelf' /\ FlagTypeOK' /\ CountTypeOK'
        BY <2>26, <3>2, ThrowType DEF OutOfMemory
      <3> QED BY <3>1, <3>3 DEF TypeInv, TypeOK
    <2>27. CASE Heartbeat
      <3>1. HostTypeOK' BY <2>t, <2>27, Frames DEF Heartbeat
      <3>2. TickTypeOK'
        <4>1. s_active \in Vms BY <2>t, <2>27 DEF Heartbeat, HostTypeOK
        <4>2. m_heartbeats' \in [Vms -> Heartbeats]
          BY <2>t, <2>27, <4>1 DEF Heartbeat, TickTypeOK
        <4> QED BY <2>t, <2>27, <4>2 DEF Heartbeat, TickTypeOK, tickVars
      <3>3. pc # "idle" BY <2>r, <2>27 DEF Heartbeat
      <3>4. \/ Throw("text")
            \/ UNCHANGED <<callVars, pc, tries, heapVars>>
        BY <2>27 DEF Heartbeat
      <3>5. CallTypeOK' /\ CallHasSelf' /\ FlagTypeOK' /\ CountTypeOK'
        BY <2>t, <3>3, <3>4, ThrowType, Frames
      <3> QED BY <3>1, <3>2, <3>5 DEF TypeInv, TypeOK
    <2>28. ASSUME NEW v \in Vms, LoadBegin(v) \/ TickBegin(v) \/ Unload(v)
           PROVE  TypeInv'
      <3>1. HostTypeOK'
        BY <2>t, <2>28, Zeros
           DEF LoadBegin, TickBegin, Unload, Unloaded, HostTypeOK, hostVars
      <3>2. TickTypeOK'
        BY <2>t, <2>28, Zeros, Frames
           DEF LoadBegin, TickBegin, Unload, TickTypeOK, tickVars
      <3>3. CallTypeOK' /\ CallHasSelf'
        BY <2>t, <2>28, Zeros
           DEF LoadBegin, TickBegin, Unload, Begin, Finish, CallTypeOK,
               CallHasSelf, PCs
      <3>4. FlagTypeOK' /\ CountTypeOK'
        BY <2>t, <2>28, Frames DEF LoadBegin, TickBegin, Unload
      <3> QED BY <3>1, <3>2, <3>3, <3>4 DEF TypeInv, TypeOK
    <2>29. CASE UNCHANGED vars
      BY <2>t, <2>29, Frames DEF vars, TypeInv, TypeOK
    <2> QED BY <2>1, <2>2, <2>3, <2>4, <2>5, <2>6, <2>7, <2>8, <2>9, <2>10,
              <2>11, <2>12, <2>13, <2>14, <2>15, <2>16, <2>17, <2>18, <2>19,
              <2>20, <2>21, <2>22, <2>23, <2>24, <2>25, <2>26, <2>27, <2>28,
              <2>29
           DEF Next, ScriptStep, HostStep
  <1> QED BY <1>1, <1>2, FramesCorrect, PTL DEF Spec

-----------------------------------------------------------------------------
(* The slot.                                                               *)

\* A call that has reached its script, or is about to take it down, is a
\* call on the object that owns the VM.
CallOwnsVm == pc \in {"reset", "compile", "lookup", "script", "capture",
                      "interval", "collect", "delete"} => m_vm[self]

\* Which call each stage belongs to.
StageOfCall ==
    /\ pc = "idle" <=> op = "none"
    /\ pc = "idle" => self = NoVm
    /\ pc \in {"reset", "check", "compile", "interval"} => op = "load"
    /\ pc \in {"lookup", "collect"} => op = "tick"
    /\ pc \in {"script", "capture"} => op \in {"load", "tick"}
    /\ pc = "delete" => op \in {"load", "unload"}

SlotInv ==
    /\ \A v \in Vms : m_vm[v] <=> s_active = v
    /\ \A v \in Vms : ~m_vm[v] => m_intervalSeconds[v] = INTERVAL_DEFAULT_S
    /\ CallOwnsVm
    /\ pc = "check" => ~m_vm[self]
    /\ StageOfCall

\* A throw moves a call to a later stage of the same call.
LEMMA ThrowSlot ==
    ASSUME SlotInv, NoStaleFrames, CodeRuns \/ pc \in {"lookup", "interval"},
           NEW kind, Throw(kind), UNCHANGED hostVars
    PROVE  SlotInv' /\ UNCHANGED <<op, self, result>>
  <1> USE DEF SlotInv, CallOwnsVm, StageOfCall, NoStaleFrames, CodeRuns,
              MainRuns, callVars, hostVars
  <1>1. CASE CaughtInDestructor(kind) BY <1>1 DEF CaughtInDestructor
  <1>2. CASE CaughtByScript(kind) BY <1>2 DEF CaughtByScript
  <1>3. CASE CaughtByPcall(kind) BY <1>3 DEF CaughtByPcall, AfterFailure
  <1>4. CASE Abort(kind) BY <1>4 DEF Abort
  <1> QED BY <1>1, <1>2, <1>3, <1>4 DEF Throw

\* SlotInv is an invariant.
LEMMA SlotInvariant == Spec => []SlotInv
  <1> USE DlmScriptVmAssumption
  <1>1. Init => SlotInv
    BY DEF Init, SlotInv, CallOwnsVm, StageOfCall
  <1>2. TypeInv /\ NoStaleFrames /\ SlotInv /\ [Next]_vars => SlotInv'
    <2> SUFFICES ASSUME TypeInv, NoStaleFrames, SlotInv, [Next]_vars
                 PROVE  SlotInv'
      OBVIOUS
    <2>t. /\ m_vm \in [Vms -> BOOLEAN] /\ m_intervalSeconds \in [Vms -> Interval]
          /\ pc # "idle" => self \in Vms
          /\ NoVm \notin Vms
      BY DEF TypeInv, TypeOK, HostTypeOK, CallHasSelf
    <2>f. UNCHANGED <<hostVars, callVars, pc>> => SlotInv'
      BY DEF SlotInv, CallOwnsVm, StageOfCall, hostVars, callVars
    <2> USE DEF SlotInv, CallOwnsVm, StageOfCall
    <2>1. CASE Raise \/ OutOfMemory
      BY <2>1, ThrowSlot DEF Raise, OutOfMemory
    <2>2. CASE Heartbeat
      BY <2>2, <2>f, ThrowSlot DEF Heartbeat
    <2>3. CASE \/ Try \/ CloseTry \/ NativeHttp \/ NativeReport \/ NewObject
               \/ Drop \/ AutoCollect \/ ForcedCollect \/ DestructorReturn
               \/ DestructNext \/ EndAutoCollect \/ StartDelete
               \/ StartTickCollect
      BY <2>3, <2>f DEF Try, CloseTry, NativeHttp, NativeReport, NewObject,
           Drop, AutoCollect, ForcedCollect, DestructorReturn, DestructNext,
           EndAutoCollect, StartDelete, StartTickCollect
    <2>4. CASE ScriptReturns \/ ToStringReturns
      BY <2>4 DEF ScriptReturns, ToStringReturns, MainRuns, AfterFailure,
                  hostVars, callVars
    <2>5. CASE CompileSucceeds \/ CompileFails \/ TickCalls
      BY <2>5 DEF CompileSucceeds, CompileFails, TickCalls, hostVars, callVars
    <2>6. CASE LoadRefused \/ NoTickFunction
      BY <2>6 DEF LoadRefused, NoTickFunction, Finish, hostVars
    <2>7. CASE TickReturns BY <2>7 DEF TickReturns, Finish, hostVars
    <2>8. CASE LoadCreates
      BY <2>8, <2>t DEF LoadCreates, AnotherIsActive, callVars
    <2>9. CASE ReadInterval BY <2>9, <2>t DEF ReadInterval, Finish
    <2>10. CASE EndDelete
      BY <2>10, <2>t DEF EndDelete, Unloaded, Finish, callVars
    <2>11. ASSUME NEW v \in Vms, LoadBegin(v) \/ TickBegin(v) \/ Unload(v)
           PROVE  SlotInv'
      <3>1. CASE LoadBegin(v)
        BY <2>t, <3>1 DEF LoadBegin, Begin, Unloaded, hostVars
      <3>2. CASE TickBegin(v)
        BY <2>t, <3>2 DEF TickBegin, Begin, Finish, hostVars
      <3>3. CASE Unload(v)
        BY <2>t, <3>3 DEF Unload, Begin, Finish, Unloaded, hostVars
      <3> QED BY <2>11, <3>1, <3>2, <3>3
    <2>12. CASE UNCHANGED vars BY <2>12, <2>f DEF vars
    <2> QED BY <2>1, <2>2, <2>3, <2>4, <2>5, <2>6, <2>7, <2>8, <2>9, <2>10,
               <2>11, <2>12 DEF Next, ScriptStep, HostStep
  <1> QED BY <1>1, <1>2, FramesCorrect, TypeCorrect, PTL DEF Spec

\* Natives and heartbeats always reach the object whose call is under way,
\* and two objects never own a VM at once.
THEOREM OneActiveCorrect == Spec => []OneActive
  <1>1. TypeInv /\ NoStaleFrames /\ SlotInv => OneActive
    BY DlmScriptVmAssumption
       DEF TypeInv, CallHasSelf, NoStaleFrames, SlotInv, CallOwnsVm, OneActive,
           CodeRuns, MainRuns
  <1> QED BY <1>1, TypeCorrect, FramesCorrect, SlotInvariant, PTL

\* Steps that touch neither the slot nor an answer are invisible.
LEMMA SlotStutter ==
    UNCHANGED <<hostVars, op, self, result>> => UNCHANGED Slot!vars
  BY DEF hostVars, Slot!vars

\* What the callers of load() and unload(), and a failed tick, are told.
LEMMA AnswerFields ==
    ASSUME NEW o, NEW b
    PROVE  /\ Answer(o, b).op = o /\ Answer(o, b).ok = b
           /\ ~Answer(o, b).advisory.present /\ Answer(o, b).httpCalls = 0
  BY DEF Answer, NoResult, NoAdvisory

\* DlmScriptVm implements DlmScriptSlot: every step of the host and of the
\* scripts is a step of the slot or changes nothing the caller can see.
THEOREM Implementation == Spec => ImplementsSlot
  <1> USE DlmScriptVmAssumption
  <1>1. Init => Slot!Init
    BY DEF Init, Slot!Init, NoResult
  <1>2. TypeInv /\ NoStaleFrames /\ SlotInv /\ SlotInv' /\ [Next]_vars
          => [Slot!Next]_(Slot!vars)
    <2> SUFFICES ASSUME TypeInv, NoStaleFrames, SlotInv, SlotInv', [Next]_vars
                 PROVE  [Slot!Next]_(Slot!vars)
      OBVIOUS
    <2> DEFINE loaded == {v \in Vms : m_vm[v]}
    <2>t. /\ m_vm \in [Vms -> BOOLEAN] /\ m_intervalSeconds \in [Vms -> Interval]
          /\ m_httpCalls \in [Vms -> HttpCalls]
          /\ pc # "idle" => self \in Vms
          /\ NoVm \notin Vms
      BY DEF TypeInv, TypeOK, HostTypeOK, TickTypeOK, CallHasSelf
    <2>f. UNCHANGED <<hostVars, callVars>> => UNCHANGED Slot!vars
      BY SlotStutter DEF callVars
    <2>s. StageOfCall /\ CallOwnsVm BY DEF SlotInv
    <2>1. CASE Raise \/ OutOfMemory
      BY <2>1, ThrowSlot, SlotStutter DEF Raise, OutOfMemory
    <2>2. CASE Heartbeat
      BY <2>2, <2>f, ThrowSlot, SlotStutter DEF Heartbeat
    <2>3. CASE \/ Try \/ CloseTry \/ NativeHttp \/ NativeReport \/ NewObject
               \/ Drop \/ AutoCollect \/ ForcedCollect \/ DestructorReturn
               \/ DestructNext \/ EndAutoCollect \/ StartDelete
               \/ StartTickCollect
      BY <2>3, <2>f DEF Try, CloseTry, NativeHttp, NativeReport, NewObject,
           Drop, AutoCollect, ForcedCollect, DestructorReturn, DestructNext,
           EndAutoCollect, StartDelete, StartTickCollect
    <2>4. CASE \/ ScriptReturns \/ ToStringReturns \/ CompileSucceeds
               \/ CompileFails \/ TickCalls
      BY <2>4, SlotStutter DEF ScriptReturns, ToStringReturns, CompileSucceeds,
           CompileFails, TickCalls, callVars
    <2>5. CASE LoadRefused
      <3>1. self \in Vms /\ op = "load" /\ ~m_vm[self]
        BY <2>5, <2>t DEF LoadRefused, StageOfCall, SlotInv
      <3>2. loaded' = loaded \ {self} BY <2>5, <3>1 DEF LoadRefused, hostVars
      <3>3. m_intervalSeconds' =
              [m_intervalSeconds EXCEPT ![self] = INTERVAL_DEFAULT_S]
        BY <2>5, <2>t, <3>1 DEF LoadRefused, hostVars, SlotInv
      <3>4. Slot!Release BY <3>1, <3>2, <3>3 DEF Slot!Release
      <3>5. Slot!Return /\ ~result'.ok
        BY <2>5, <3>1, AnswerFields DEF LoadRefused, Finish, Slot!Return
      <3> QED BY <3>1, <3>4, <3>5 DEF Slot!LoadReturns, Slot!Next
    <2>6. CASE NoTickFunction
      <3>1. op = "tick" BY <2>6 DEF NoTickFunction, SlotInv, StageOfCall
      <3>0. /\ op' = "none" /\ self' = NoVm
            /\ result' = Answer("tick", FALSE)
        BY <2>6 DEF NoTickFunction, Finish
      <3>2. Slot!Return BY <3>0, <3>1, AnswerFields DEF Slot!Return
      <3>4. ~result'.advisory.present
        BY <3>0 DEF Answer, NoResult, NoAdvisory
      <3>5. result'.httpCalls \in 0 .. MAX_HTTP_PER_TICK
        BY <3>0 DEF Answer, NoResult
      <3>3. UNCHANGED <<loaded, m_intervalSeconds>>
        BY <2>6 DEF NoTickFunction, hostVars
      <3> QED BY <3>1, <3>2, <3>3, <3>4, <3>5 DEF Slot!TickReturns, Slot!Next
    <2>7. CASE TickReturns
      <3>1. op = "tick" /\ self \in Vms
        BY <2>7, <2>t DEF TickReturns, SlotInv, StageOfCall
      <3>2. Slot!Return BY <2>7, <3>1 DEF TickReturns, Finish, Slot!Return
      <3>3. result'.advisory.present => result'.ok
        BY <2>7 DEF TickReturns, Finish, NoAdvisory
      <3>4. result'.httpCalls \in 0 .. MAX_HTTP_PER_TICK
        BY <2>7, <2>t, <3>1 DEF TickReturns, Finish, HttpCalls
      <3>5. UNCHANGED <<loaded, m_intervalSeconds>>
        BY <2>7 DEF TickReturns, hostVars
      <3> QED BY <3>1, <3>2, <3>3, <3>4, <3>5 DEF Slot!TickReturns, Slot!Next
    <2>8. CASE LoadCreates
      <3>1. self \in Vms /\ op = "load" /\ ~m_vm[self]
        BY <2>8, <2>t DEF LoadCreates, StageOfCall, SlotInv
      <3>2. loaded = {}
        BY <2>8, <2>t, <3>1 DEF LoadCreates, AnotherIsActive, SlotInv
      <3>3. loaded' = {self} BY <2>8, <2>t, <3>1, <3>2 DEF LoadCreates
      <3>4. UNCHANGED <<m_intervalSeconds, op, self, result>>
        BY <2>8 DEF LoadCreates, callVars
      <3> QED BY <3>1, <3>2, <3>3, <3>4 DEF Slot!Acquire, Slot!Next
    <2>9. CASE ReadInterval
      <3>1. self \in Vms /\ op = "load" /\ m_vm[self]
        BY <2>9, <2>t, <2>s DEF ReadInterval, StageOfCall, CallOwnsVm
      <3>2. loaded = {self} BY <2>t, <3>1 DEF SlotInv
      <3>3. UNCHANGED loaded BY <2>9 DEF ReadInterval
      <3>4. \E i \in Interval :
              m_intervalSeconds' = [m_intervalSeconds EXCEPT ![self] = i]
        BY <2>9, ClampInRange DEF ReadInterval
      <3>5. Slot!Return /\ result'.ok
        BY <2>9, <3>1, AnswerFields DEF ReadInterval, Finish, Slot!Return
      <3> QED BY <3>1, <3>2, <3>3, <3>4, <3>5 DEF Slot!LoadReturns, Slot!Next
    <2>10. CASE EndDelete
      <3>1. self \in Vms /\ op \in {"load", "unload"}
        BY <2>10, <2>t, <2>s DEF EndDelete, StageOfCall
      <3>2. loaded' = loaded \ {self}
        BY <2>10, <2>t, <3>1 DEF EndDelete, Unloaded
      <3>3. Slot!Release
        BY <2>10, <3>1, <3>2 DEF EndDelete, Unloaded, Slot!Release
      <3>4. CASE pc = "reset"
        <4>1. op = "load" /\ UNCHANGED <<op, self, result>>
          BY <2>10, <2>s, <3>4 DEF EndDelete, StageOfCall, callVars
        <4> QED BY <3>3, <4>1 DEF Slot!Replace, Slot!Next
      <3>5. CASE pc # "reset"
        <4>1. Finish(Answer(op, op = "unload")) BY <2>10, <3>5 DEF EndDelete
        <4>2. Slot!Return /\ (op = "load" => ~result'.ok)
          BY <3>1, <4>1, AnswerFields DEF Finish, Slot!Return
        <4> QED BY <3>1, <3>3, <4>2
                DEF Slot!LoadReturns, Slot!UnloadReturns, Slot!Next
      <3> QED BY <3>4, <3>5
    <2>11. ASSUME NEW v \in Vms, LoadBegin(v) \/ TickBegin(v) \/ Unload(v)
           PROVE  Slot!Next
      <3>0. pc = "idle" /\ op = "none"
        BY <2>11, <2>s DEF LoadBegin, TickBegin, Unload, Begin, StageOfCall
      <3>1. CASE LoadBegin(v)
        <4>1. UNCHANGED <<loaded, m_intervalSeconds>>
          BY <2>t, <3>1 DEF LoadBegin, Unloaded, hostVars, SlotInv
        <4>2. Slot!Call(v, "load")
          BY <3>0, <3>1, <4>1 DEF LoadBegin, Begin, NoResult, Slot!Call
        <4> QED BY <4>2 DEF Slot!Next
      <3>2. CASE TickBegin(v) /\ m_vm[v]
        <4>1. UNCHANGED <<loaded, m_intervalSeconds>>
          BY <3>2 DEF TickBegin, hostVars
        <4>2. Slot!Call(v, "tick")
          BY <3>0, <3>2, <4>1 DEF TickBegin, Begin, NoResult, Slot!Call
        <4> QED BY <4>2 DEF Slot!Next
      <3>3. CASE TickBegin(v) /\ ~m_vm[v]
        <4>1. UNCHANGED <<loaded, m_intervalSeconds>>
          BY <3>3 DEF TickBegin, hostVars
        <4>2. op' = "none" /\ self' = NoVm /\ result' = Answer("tick", FALSE)
          BY <3>3 DEF TickBegin, Finish
        <4>3. self = NoVm BY <2>s, <3>0 DEF StageOfCall
        <4>4. Slot!TickWithoutScript(v)
          BY <3>0, <3>3, <4>1, <4>2, <4>3, AnswerFields DEF Slot!TickWithoutScript
        <4> QED BY <4>4 DEF Slot!Next
      <3>4. CASE Unload(v) /\ m_vm[v]
        <4>1. UNCHANGED <<loaded, m_intervalSeconds>>
          BY <3>4 DEF Unload, hostVars
        <4>2. Slot!Call(v, "unload")
          BY <3>0, <3>4, <4>1 DEF Unload, Begin, NoResult, Slot!Call
        <4> QED BY <4>2 DEF Slot!Next
      <3>5. CASE Unload(v) /\ ~m_vm[v]
        <4>1. UNCHANGED <<loaded, m_intervalSeconds>>
          BY <2>t, <3>5 DEF Unload, Unloaded, SlotInv
        <4>2. op' = "none" /\ self' = NoVm /\ result' = Answer("unload", TRUE)
          BY <3>5 DEF Unload, Finish
        <4>3. self = NoVm BY <2>s, <3>0 DEF StageOfCall
        <4>4. Slot!UnloadNothing(v)
          BY <3>0, <3>5, <4>1, <4>2, <4>3, AnswerFields DEF Slot!UnloadNothing
        <4> QED BY <4>4 DEF Slot!Next
      <3> QED BY <2>11, <3>1, <3>2, <3>3, <3>4, <3>5
    <2>12. CASE UNCHANGED vars
      BY <2>12, <2>f DEF vars
    <2> QED BY <2>1, <2>2, <2>3, <2>4, <2>5, <2>6, <2>7, <2>8, <2>9, <2>10,
               <2>11, <2>12 DEF Next, ScriptStep, HostStep
  <1> QED BY <1>1, <1>2, FramesCorrect, TypeCorrect, SlotInvariant, PTL
          DEF Spec, ImplementsSlot, Slot!Spec

-----------------------------------------------------------------------------
(* When nothing can be thrown without a frame.                             *)

\* No instance with a deinit and no exception object: script code runs in
\* be_pcall() only.
Plain ==
    /\ live = 0 /\ garbage = 0 /\ white = 0 /\ ~fin
    /\ pc \notin {"capture", "aborted"}

\* "Never throws" holds of every script that defines no deinit, raises no
\* instance and leaves the arena room for one more name: whatever it raises,
\* however it loops and however it nests its try blocks.
THEOREM NeverAbortsPlain ==
    ASSUME Features \subseteq {"handler"}
    PROVE  Spec => []NeverAborts
  <1>1. Init => Plain BY DEF Init, Plain
  <1>2. TypeInv /\ Plain /\ [Next]_vars => Plain'
    <2> SUFFICES ASSUME TypeInv, Plain, [Next]_vars PROVE Plain'
      OBVIOUS
    <2> USE DEF Plain
    <2>t. todo = 0 /\ garbage \in Nat
      BY DEF TypeInv, TypeOK, CountTypeOK
    <2>f. UNCHANGED <<pc, heapVars>> => Plain' BY DEF heapVars, sweepVars
    <2>h. ASSUME CodeRuns, NEW kind \in {"text"}, Throw(kind) PROVE Plain'
      <3>1. pc = "script" BY <2>h DEF CodeRuns, MainRuns
      <3>2. CASE CaughtInDestructor(kind) BY <3>2 DEF CaughtInDestructor
      <3>3. CASE CaughtByScript(kind) BY <3>3, <2>t DEF CaughtByScript, LeaveSweep
      <3>4. CASE CaughtByPcall(kind)
        BY <3>4, <2>t DEF CaughtByPcall, LeaveSweep, AfterFailure
      <3>5. CASE Abort(kind) BY <3>1, <3>5 DEF Abort
      <3> QED BY <2>h, <3>2, <3>3, <3>4, <3>5 DEF Throw
    <2>1. CASE Heartbeat BY <2>1, <2>h, <2>f DEF Heartbeat
    <2>2. CASE Raise BY <2>2, <2>h DEF Raise
    <2>3. CASE OutOfMemory \/ NewObject \/ ForcedCollect
      BY <2>3 DEF OutOfMemory, NewObject, ForcedCollect
    <2>4. CASE Try \/ CloseTry
      BY <2>4 DEF Try, CloseTry
    <2>5. CASE NativeHttp \/ NativeReport
      BY <2>5, <2>f DEF NativeHttp, NativeReport
    <2>6. CASE Drop \/ AutoCollect \/ DestructNext \/ DestructorReturn
      BY <2>6, <2>t DEF Drop, AutoCollect, DestructNext, DestructorReturn
    <2>7. CASE EndAutoCollect BY <2>7 DEF EndAutoCollect
    <2>8. CASE StartDelete BY <2>8 DEF StartDelete, StartSweep
    <2>9. CASE StartTickCollect
      <3>1. PICK lost \in 0 .. live :
              /\ StartSweep(garbage + lost)
              /\ live' = live - lost
        BY <2>9 DEF StartTickCollect
      <3>2. lost = 0 BY <3>1
      <3>3. live' = 0 /\ white' = 0 /\ fin' = fin
        BY <3>1, <3>2 DEF StartSweep
      <3>4. garbage' = 0 /\ pc' = pc BY <2>9 DEF StartTickCollect
      <3> QED BY <3>3, <3>4
    <2>10. CASE EndDelete BY <2>10 DEF EndDelete, Finish
    <2>11. CASE TickReturns BY <2>11 DEF TickReturns, Finish
    <2>12. CASE ScriptReturns \/ ToStringReturns
      BY <2>12 DEF ScriptReturns, ToStringReturns, heapVars, sweepVars
    <2>p. UNCHANGED heapVars /\ pc' \notin {"capture", "aborted"} => Plain'
      BY DEF heapVars, sweepVars
    <2>13. CASE \/ LoadRefused \/ LoadCreates \/ CompileSucceeds
                \/ CompileFails \/ ReadInterval \/ NoTickFunction \/ TickCalls
      <3>1. UNCHANGED heapVars
        BY <2>13 DEF LoadRefused, LoadCreates, CompileSucceeds, CompileFails,
                     ReadInterval, NoTickFunction, TickCalls
      <3>2. pc' \in {"idle", "compile", "script", "delete"}
        BY <2>13 DEF LoadRefused, LoadCreates, CompileSucceeds, CompileFails,
                     ReadInterval, NoTickFunction, TickCalls, Finish
      <3> QED BY <2>p, <3>1, <3>2
    <2>15. ASSUME NEW v \in Vms, LoadBegin(v) \/ TickBegin(v) \/ Unload(v)
           PROVE  Plain'
      <3>1. UNCHANGED heapVars BY <2>15 DEF LoadBegin, TickBegin, Unload
      <3>2. pc' \in {"idle", "reset", "check", "lookup", "delete"}
        BY <2>15 DEF LoadBegin, TickBegin, Unload, Finish
      <3> QED BY <2>p, <3>1, <3>2
    <2>16. CASE UNCHANGED vars BY <2>16, <2>f DEF vars
    <2> QED BY <2>1, <2>2, <2>3, <2>4, <2>5, <2>6, <2>7, <2>8, <2>9, <2>10,
               <2>11, <2>12, <2>13, <2>15, <2>16
            DEF Next, ScriptStep, HostStep
  <1>3. Plain => NeverAborts BY DEF Plain, NeverAborts
  <1> QED BY <1>1, <1>2, <1>3, TypeCorrect, PTL DEF Spec

-----------------------------------------------------------------------------
(* The instruction budget.                                                 *)

WithinBudget == m_heartbeats[self] <= HEARTBEAT_BUDGET

\* While tick() can still succeed, its counter has not passed the budget.
BudgetInv ==
    /\ tries = 0 /\ ftries = 0
    /\ ok => pc \in {"interval", "collect", "aborted"}
    /\ pc = "script" => WithinBudget
    /\ pc = "collect" /\ ok => WithinBudget
    /\ OverBudgetFails

\* Without try blocks a tick that passed its budget is never reported as a
\* success, its destructors' instructions included.
THEOREM BudgetHolds ==
    ASSUME "handler" \notin Features
    PROVE  Spec => []OverBudgetFails
  <1> USE DlmScriptVmAssumption
  <1>1. Init => BudgetInv
    BY DEF Init, BudgetInv, OverBudgetFails, NoResult
  <1>2. TypeInv /\ OneActive /\ BudgetInv /\ [Next]_vars => BudgetInv'
    <2> SUFFICES ASSUME TypeInv, OneActive, BudgetInv, [Next]_vars
                 PROVE  BudgetInv'
      OBVIOUS
    <2> USE DEF BudgetInv, WithinBudget, OverBudgetFails
    <2>t. /\ m_heartbeats \in [Vms -> Heartbeats]
          /\ pc # "idle" => self \in Vms
          /\ CodeRuns => s_active = self /\ self \in Vms
      BY DEF TypeInv, TypeOK, TickTypeOK, HostTypeOK, CallHasSelf, OneActive
    <2>f. UNCHANGED <<m_heartbeats, callVars, pc, tries, ftries>> => BudgetInv'
      BY DEF callVars
    \* No script frame: a throw reaches be_pcall() or nothing.
    <2>h. ASSUME NEW kind, Throw(kind)
          PROVE  /\ tries' = 0 /\ ftries' = 0
                 /\ pc' \in {"capture", "delete", "collect", "aborted"}
                 /\ pc' # "aborted" => ~ok
                 /\ UNCHANGED callVars
      <3>1. CASE CaughtInDestructor(kind) BY <3>1 DEF CaughtInDestructor
      <3>2. CASE CaughtByScript(kind) BY <3>2 DEF CaughtByScript
      <3>3. CASE CaughtByPcall(kind)
        BY <3>3 DEF CaughtByPcall, LeaveSweep, AfterFailure, callVars
      <3>4. CASE Abort(kind) BY <3>4 DEF Abort, LeaveSweep
      <3> QED BY <2>h, <3>1, <3>2, <3>3, <3>4 DEF Throw
    <2>1. CASE Raise \/ OutOfMemory
      BY <2>1, <2>h DEF Raise, OutOfMemory, callVars
    <2>2. CASE Heartbeat
      <3>1. s_active = self /\ self \in Vms BY <2>2, <2>t DEF Heartbeat
      <3>2. CASE m_heartbeats[self] + 1 > HEARTBEAT_BUDGET
        BY <2>2, <2>h, <3>1, <3>2 DEF Heartbeat, callVars
      <3>3. CASE ~(m_heartbeats[self] + 1 > HEARTBEAT_BUDGET)
        <4>1. m_heartbeats[self] \in Heartbeats BY <2>t, <3>1
        <4>2. m_heartbeats[self] + 1 \in Heartbeats
          BY <3>3, <4>1 DEF Heartbeats
        <4>3. m_heartbeats'[self] = m_heartbeats[self] + 1
          BY <2>2, <2>t, <3>1, <4>2 DEF Heartbeat
        <4>4. UNCHANGED <<callVars, pc, tries, heapVars>>
          BY <2>2, <3>1, <3>3 DEF Heartbeat
        <4>5. m_heartbeats'[self] <= HEARTBEAT_BUDGET
          BY <3>3, <4>1, <4>3 DEF Heartbeats
        <4> QED BY <4>4, <4>5 DEF callVars, heapVars, sweepVars
      <3> QED BY <3>2, <3>3
    <2>3. CASE Try \/ CloseTry BY <2>3 DEF Try, CloseTry
    <2>4. CASE \/ NativeHttp \/ NativeReport \/ NewObject \/ Drop \/ AutoCollect
               \/ ForcedCollect \/ DestructNext \/ EndAutoCollect
               \/ StartDelete \/ StartTickCollect
      BY <2>4, <2>f DEF NativeHttp, NativeReport, NewObject, Drop, AutoCollect,
           ForcedCollect, DestructNext, EndAutoCollect, StartDelete,
           StartTickCollect, StartSweep, heapVars, sweepVars
    <2>5. CASE DestructorReturn
      BY <2>5 DEF DestructorReturn, callVars
    <2>6. CASE ScriptReturns
      BY <2>6, <2>t DEF ScriptReturns, heapVars, sweepVars
    <2>7. CASE ToStringReturns
      BY <2>7 DEF ToStringReturns, AfterFailure, MainRuns, callVars, heapVars,
                  sweepVars
    \* Only TickReturns answers a tick with a success.
    <2>a. ASSUME NEW o, NEW b, Finish(Answer(o, b)), o = "tick" => ~b
          PROVE  /\ pc' = "idle" /\ ~ok' /\ OverBudgetFails'
      <3>1. result'.op = o /\ result'.ok = b
        BY <2>a DEF Finish, Answer, NoResult
      <3> QED BY <2>a, <3>1 DEF Finish
    <2>8. CASE EndDelete
      <3>1. tries' = 0 /\ ftries' = 0 BY <2>8 DEF EndDelete
      <3>2. CASE pc = "reset" BY <2>8, <3>1, <3>2 DEF EndDelete, callVars
      <3>3. CASE pc # "reset"
        <4>1. Finish(Answer(op, op = "unload")) BY <2>8, <3>3 DEF EndDelete
        <4> QED BY <2>a, <3>1, <4>1
      <3> QED BY <3>2, <3>3
    <2>9. CASE LoadRefused \/ NoTickFunction
      <3>1. tries' = 0 /\ ftries' = 0
        BY <2>9 DEF LoadRefused, NoTickFunction, heapVars, sweepVars
      <3>2. Finish(Answer("load", FALSE)) \/ Finish(Answer("tick", FALSE))
        BY <2>9 DEF LoadRefused, NoTickFunction
      <3> QED BY <2>a, <3>1, <3>2
    <2>10. CASE LoadCreates \/ CompileFails
      BY <2>10 DEF LoadCreates, CompileFails, callVars, heapVars, sweepVars
    <2>11. CASE CompileSucceeds \/ TickCalls
      BY <2>11, <2>t
         DEF CompileSucceeds, TickCalls, callVars, heapVars, sweepVars
    <2>12. CASE ReadInterval
      BY <2>12, AnswerFields DEF ReadInterval, Finish, heapVars, sweepVars
    <2>13. CASE TickReturns
      BY <2>13, <2>t DEF TickReturns, Finish
    <2>14. ASSUME NEW v \in Vms, LoadBegin(v) \/ TickBegin(v) \/ Unload(v)
           PROVE  BudgetInv'
      <3>1. tries' = 0 /\ ftries' = 0
        BY <2>14 DEF LoadBegin, TickBegin, Unload, heapVars, sweepVars
      <3>2. CASE Finish(Answer("tick", FALSE)) \/ Finish(Answer("unload", TRUE))
        BY <2>a, <3>1, <3>2
      <3>3. CASE /\ ok' = FALSE /\ result' = NoResult
                 /\ pc' \in {"reset", "check", "lookup", "delete"}
        BY <3>1, <3>3 DEF NoResult
      <3> QED BY <2>14, <3>2, <3>3 DEF LoadBegin, TickBegin, Unload, Begin
    <2>15. CASE UNCHANGED vars BY <2>15, <2>f DEF vars, heapVars, sweepVars
    <2> QED BY <2>1, <2>2, <2>3, <2>4, <2>5, <2>6, <2>7, <2>8, <2>9, <2>10,
               <2>11, <2>12, <2>13, <2>14, <2>15
            DEF Next, ScriptStep, HostStep
  <1>3. BudgetInv => OverBudgetFails BY DEF BudgetInv
  <1> QED BY <1>1, <1>2, <1>3, TypeCorrect, OneActiveCorrect, PTL DEF Spec

\* Every variable stays in its domain: the property the runs check.
THEOREM TypesCorrect == Spec => []TypeOK
  <1>1. TypeInv => TypeOK BY DEF TypeInv
  <1> QED BY <1>1, TypeCorrect, PTL

-----------------------------------------------------------------------------
(* The advisory.                                                           *)

\* While a tick is under way an advisory can only have come from it, and
\* there is no answer yet to be mistaken for its own.
AdvisoryInv ==
    /\ pc # "idle" => result.op = "none"
    /\ op = "tick" /\ m_reported[self].present => m_reportedThisTick[self]
    /\ AdvisoryIsOfThisTick

\* The advisory a tick returns was reported during that tick, by a
\* destructor of its garbage at the latest.
THEOREM AdvisoryCorrect == Spec => []AdvisoryIsOfThisTick
  <1> USE DlmScriptVmAssumption
  <1>1. Init => AdvisoryInv
    BY DEF Init, AdvisoryInv, AdvisoryIsOfThisTick, NoResult
  <1>2. TypeInv /\ NoStaleFrames /\ SlotInv /\ OneActive /\ AdvisoryInv
          /\ [Next]_vars => AdvisoryInv'
    <2> SUFFICES ASSUME TypeInv, NoStaleFrames, SlotInv, OneActive,
                        AdvisoryInv, [Next]_vars
                 PROVE  AdvisoryInv'
      OBVIOUS
    <2> USE DEF AdvisoryInv, AdvisoryIsOfThisTick
    <2>t. /\ m_reported \in [Vms -> DlmAdvisory]
          /\ m_reportedThisTick \in [Vms -> BOOLEAN]
          /\ pc # "idle" => self \in Vms
      BY DEF TypeInv, TypeOK, TickTypeOK, CallHasSelf
    <2>c. CodeRuns => pc # "idle" /\ s_active = self /\ self \in Vms
      BY <2>t DEF CodeRuns, MainRuns, NoStaleFrames, OneActive
    <2>f. /\ UNCHANGED <<m_vm, m_reported, m_reportedThisTick, self, op, result>>
          /\ pc' # "idle" => pc # "idle"
          => AdvisoryInv'
      OBVIOUS
    <2>h. ASSUME NEW kind, Throw(kind)
          PROVE  UNCHANGED <<self, op, result>>
      BY <2>h DEF Throw, CaughtInDestructor, CaughtByScript, CaughtByPcall,
                  Abort, callVars
    <2>n. pc \in {"lookup", "interval"} => pc # "idle"
      OBVIOUS
    <2>1. CASE Raise \/ OutOfMemory
      <3>1. pc # "idle" /\ UNCHANGED <<m_vm, m_reported, m_reportedThisTick>>
        BY <2>1, <2>c, <2>n DEF Raise, OutOfMemory, hostVars, tickVars
      <3>2. UNCHANGED <<self, op, result>>
        BY <2>1, <2>h DEF Raise, OutOfMemory
      <3> QED BY <3>1, <3>2, <2>f
    <2>2. CASE Heartbeat
      <3>1. pc # "idle" /\ UNCHANGED <<m_vm, m_reported, m_reportedThisTick>>
        BY <2>2, <2>c DEF Heartbeat, hostVars, tickVars
      <3>2. UNCHANGED <<self, op, result>>
        BY <2>2, <2>h DEF Heartbeat, callVars
      <3> QED BY <3>1, <3>2, <2>f
    <2>3. CASE \/ Try \/ CloseTry \/ NativeHttp \/ NewObject \/ Drop
               \/ AutoCollect \/ ForcedCollect \/ DestructorReturn
               \/ DestructNext \/ EndAutoCollect \/ StartDelete
               \/ StartTickCollect
      BY <2>3, <2>f DEF Try, CloseTry, NativeHttp, NewObject, Drop,
           AutoCollect, ForcedCollect, DestructorReturn, DestructNext,
           EndAutoCollect, StartDelete, StartTickCollect, hostVars, tickVars,
           callVars
    <2>4. CASE NativeReport
      <3>1. /\ m_reportedThisTick'[self] /\ pc # "idle"
            /\ UNCHANGED <<self, op, result, pc>>
        BY <2>4, <2>c, <2>t DEF NativeReport, callVars
      <3> QED BY <3>1
    <2>5. CASE \/ ScriptReturns \/ ToStringReturns \/ CompileSucceeds
               \/ CompileFails \/ TickCalls
      BY <2>5, <2>f DEF ScriptReturns, ToStringReturns, CompileSucceeds,
           CompileFails, TickCalls, MainRuns, AfterFailure, hostVars,
           tickVars, callVars
    <2>6. CASE LoadCreates
      <3>1. op = "load" /\ pc = "check"
        BY <2>6 DEF LoadCreates, SlotInv, StageOfCall
      <3> QED BY <2>6, <3>1 DEF LoadCreates, callVars
    \* An answer without an advisory.
    <2>a. ASSUME NEW o, NEW b, Finish(Answer(o, b)) PROVE AdvisoryInv'
      BY <2>a, AnswerFields DEF Finish
    <2>7. CASE LoadRefused \/ NoTickFunction
      BY <2>7, <2>a DEF LoadRefused, NoTickFunction
    <2>8. CASE ReadInterval BY <2>8, <2>a DEF ReadInterval
    <2>9. CASE EndDelete
      <3>1. CASE pc = "reset"
        <4>1. op = "load" BY <3>1 DEF SlotInv, StageOfCall
        <4> QED BY <2>9, <3>1, <4>1 DEF EndDelete, callVars
      <3>2. CASE pc # "reset" BY <2>9, <2>a, <3>2 DEF EndDelete
      <3> QED BY <3>1, <3>2
    <2>10. CASE TickReturns
      <3>1. /\ pc = "collect" /\ op = "tick" /\ m_vm[self] /\ self \in Vms
        BY <2>10, <2>t DEF TickReturns, SlotInv, CallOwnsVm, StageOfCall
      <3>2. /\ pc' = "idle" /\ op' = "none"
            /\ UNCHANGED <<m_vm, m_reported, m_reportedThisTick>>
        BY <2>10 DEF TickReturns, Finish, hostVars, tickVars
      <3>3. /\ result'.ok = ok
            /\ result'.advisory = IF ok THEN m_reported[self] ELSE NoAdvisory
        BY <2>10 DEF TickReturns, Finish
      <3>4. result'.advisory.present => ok /\ m_reported[self].present
        BY <3>3 DEF NoAdvisory
      <3>5. result'.advisory.present => result'.ok /\ m_reportedThisTick[self]
        BY <3>1, <3>3, <3>4
      <3> QED BY <3>1, <3>2, <3>5
    <2>11. ASSUME NEW v \in Vms, LoadBegin(v) \/ TickBegin(v) \/ Unload(v)
           PROVE  AdvisoryInv'
      <3>1. CASE Finish(Answer("tick", FALSE)) \/ Finish(Answer("unload", TRUE))
        BY <2>a, <3>1
      <3>2. CASE result' = NoResult /\ op' \in {"load", "unload"}
        BY <3>2 DEF NoResult
      <3>3. CASE result' = NoResult /\ self' = v
                 /\ m_reported' = [m_reported EXCEPT ![v] = NoAdvisory]
        BY <2>t, <3>3 DEF NoResult, NoAdvisory
      <3> QED BY <2>11, <3>1, <3>2, <3>3 DEF LoadBegin, TickBegin, Unload, Begin
    <2>12. CASE UNCHANGED vars
      BY <2>12, <2>f DEF vars, hostVars, tickVars, callVars
    <2> QED BY <2>1, <2>2, <2>3, <2>4, <2>5, <2>6, <2>7, <2>8, <2>9, <2>10,
               <2>11, <2>12 DEF Next, ScriptStep, HostStep
  <1>3. AdvisoryInv => AdvisoryIsOfThisTick BY DEF AdvisoryInv
  <1> QED BY <1>1, <1>2, <1>3, FramesCorrect, TypeCorrect, SlotInvariant,
             OneActiveCorrect, PTL DEF Spec

=============================================================================

------------------------- MODULE KernelRuntimeProofs -------------------------
(***************************************************************************)
(* Theorems about KernelRuntime, from three inductive invariants:          *)
(*   TypeInv        types; a startup that waits for ready has a bridge;    *)
(*   LifeInv        how child, stop, starting and the bridges relate;      *)
(*   GenerationInv  which kernel received the requests of a generation.    *)
(* LifeInv assumes Prompt: a bridge that terminate() works on closes       *)
(* before terminate() gives up.                                            *)
(***************************************************************************)
EXTENDS KernelRuntime, TLAPS

\* Types, with the one fact that terminate() needs to name its bridge.
TypeInv ==
  /\ TypeOK
  /\ starting.phase = "waitReady" => child # NoProc

LEMMA ProcType == MaxSpawn \in Nat /\ NoProc \notin Procs /\ Procs \subseteq Nat
  BY SpawnAssumption DEF Procs, NoProc

LEMMA InitType == Init => TypeInv
<1> SUFFICES ASSUME Init PROVE TypeInv
  OBVIOUS
<1>1. /\ child \in Procs \cup {NoProc} /\ ready \in BOOLEAN /\ stopping \in BOOLEAN
      /\ pendingResetNotice \in BOOLEAN /\ generation \in Nat
      /\ active \in Calls \cup {NoCall} /\ armed \in BOOLEAN /\ disposed \in BOOLEAN
  BY DEF Init
<1>2. starting = NoStart /\ stop = NoStop /\ starting.phase # "waitReady"
  BY DEF Init, NoStart
<1>3. shut \in [phase : {"no", "awaitStart", "awaitStop", "awaitClose", "awaitKill", "done"},
                of : Procs \cup {NoProc}]
  BY DEF Init
<1>4. /\ pc \in [Calls -> {"idle"} \cup Waiting \cup Final] /\ cancelled \subseteq Calls
      /\ took \in [Calls -> Procs \cup {NoProc}] /\ ranIn \in [Calls -> Procs \cup {NoProc}]
      /\ ranAt \in [Calls -> Nat]
  BY DEF Init
<1>5. /\ proc \in [Procs -> {"unborn", "gone"} \cup Running] /\ doomed \subseteq Procs
      /\ serving \in [Procs -> Calls \cup {NoCall}]
  BY DEF Init
<1>6. QED BY <1>1, <1>2, <1>3, <1>4, <1>5 DEF TypeInv, TypeOK

LEMMA SettleType ==
  ASSUME pc \in [Calls -> {"idle"} \cup Waiting \cup Final],
         NEW lost, NEW refused, NEW moved, NEW to \in {"idle"} \cup Waiting \cup Final,
         Settle(lost, refused, moved, to)
  PROVE  pc' \in [Calls -> {"idle"} \cup Waiting \cup Final]
  BY DEF Settle, Final

LEMMA TerminateType ==
  ASSUME TypeOK, Terminate, child # NoProc \/ stop # NoStop
  PROVE  /\ stop' \in {NoStop} \cup [of : Procs, phase : {"term", "kill", "reap"}]
         /\ stop' # NoStop
         /\ stopping' \in BOOLEAN /\ ready' \in BOOLEAN /\ doomed' \subseteq Procs
<1>1. CASE stop # NoStop
  BY <1>1 DEF TypeOK, Terminate
<1>2. CASE stop = NoStop
  <2>1. child \in Procs /\ stop' = [of |-> child, phase |-> "term"]
    BY <1>2 DEF TypeOK, Terminate
  <2>2. stop'.phase = "term" /\ NoStop.phase = "none"
    BY <2>1 DEF NoStop
  <2>3. stopping' = TRUE /\ ready' = FALSE /\ doomed' = doomed \cup {child}
    BY <1>2 DEF Terminate
  <2>4. QED BY <2>1, <2>2, <2>3 DEF TypeOK
<1>3. QED BY <1>1, <1>2

LEMMA FailStartupType ==
  ASSUME TypeOK, FailStartup
  PROVE  /\ starting' \in {NoStart} \cup [by : Calls, phase : {"provision", "waitReady", "failing"}]
         /\ starting'.phase # "waitReady"
  BY DEF TypeOK, FailStartup, NoStart

LEMMA EnterType ==
  ASSUME TypeOK, NEW entering \in SUBSET Calls, NEW lost, NEW refused,
         Enter(entering, lost, refused)
  PROVE  /\ pc' \in [Calls -> {"idle"} \cup Waiting \cup Final]
         /\ starting' \in {NoStart} \cup [by : Calls, phase : {"provision", "waitReady", "failing"}]
         /\ starting'.phase = "waitReady" => starting.phase = "waitReady"
<1>1. pc' \in [Calls -> {"idle"} \cup Waiting \cup Final]
  BY SettleType DEF Enter, TypeOK, Waiting
<1>2. starting' = starting \/ \E c \in entering : starting' = [by |-> c, phase |-> "provision"]
  BY DEF Enter
<1>3. QED BY <1>1, <1>2 DEF TypeOK

LEMMA RequestType ==
  ASSUME TypeOK, NEW c \in Calls, Request(c)
  PROVE  /\ pc' \in [Calls -> {"idle"} \cup Waiting \cup Final]
         /\ active' \in Calls \cup {NoCall} /\ armed' \in BOOLEAN
         /\ ranIn' \in [Calls -> Procs \cup {NoProc}] /\ ranAt' \in [Calls -> Nat]
         /\ serving' \in [Procs -> Calls \cup {NoCall}]
<1>1. CASE Accepts(c)
  <2>1. Settle({}, {}, {c}, "requested")
    BY <1>1 DEF Request
  <2>2. pc' \in [Calls -> {"idle"} \cup Waiting \cup Final]
    BY <2>1, SettleType DEF TypeOK, Waiting
  <2>3. /\ active' = c /\ armed' = FALSE /\ child \in Procs
        /\ ranIn' = [ranIn EXCEPT ![c] = child]
        /\ ranAt' = [ranAt EXCEPT ![c] = generation]
        /\ serving' = serving \/ serving' = [serving EXCEPT ![child] = c]
    BY <1>1 DEF Request, Accepts, TypeOK
  <2>4. /\ ranIn' \in [Calls -> Procs \cup {NoProc}] /\ ranAt' \in [Calls -> Nat]
        /\ serving' \in [Procs -> Calls \cup {NoCall}]
    BY <2>3 DEF TypeOK
  <2>5. QED BY <2>2, <2>3, <2>4
<1>2. CASE ~Accepts(c)
  <2>1. Settle({}, {c}, {}, "idle")
    BY <1>2 DEF Request
  <2>2. pc' \in [Calls -> {"idle"} \cup Waiting \cup Final]
    BY <2>1, SettleType DEF TypeOK
  <2>3. QED BY <1>2, <2>2 DEF Request, TypeOK
<1>3. QED BY <1>1, <1>2

LEMMA TypeStep == TypeInv /\ [Next]_vars => TypeInv'
<1> SUFFICES ASSUME TypeInv, [Next]_vars PROVE TypeInv'
  OBVIOUS
<1>a. TypeOK /\ (starting.phase = "waitReady" => child # NoProc)
  BY DEF TypeInv
<1>b. At("startWait") \subseteq Calls /\ At("stopWait") \subseteq Calls
  BY DEF At
<1>1. CASE UNCHANGED vars
  BY <1>a, <1>1 DEF TypeInv, TypeOK, vars, runtime, calls, bridges
<1>2. ASSUME NEW c \in Calls, CallStart(c) PROVE TypeInv'
  <2>1. /\ pc' \in [Calls -> {"idle"} \cup Waiting \cup Final]
        /\ starting' \in {NoStart} \cup [by : Calls, phase : {"provision", "waitReady", "failing"}]
        /\ starting'.phase = "waitReady" => starting.phase = "waitReady"
    <3>1. CASE Settle({}, {c}, {}, "idle") /\ UNCHANGED starting
      BY <1>a, <3>1, SettleType DEF TypeOK
    <3>2. CASE Settle({}, {}, {c}, "stopWait") /\ UNCHANGED starting
      BY <1>a, <3>2, SettleType DEF TypeOK, Waiting
    <3>3. CASE Enter({c}, {}, {})
      BY <1>a, <3>3, EnterType
    <3>4. QED BY <1>2, <3>1, <3>2, <3>3 DEF CallStart, Start
  <2>2. QED BY <1>a, <1>2, <2>1 DEF CallStart, TypeInv, TypeOK, bridges
<1>3. ASSUME NEW c \in Calls, ExecuteStarted(c) PROVE TypeInv'
  <2>0. \E q \in Procs \cup {NoProc} : took' = [took EXCEPT ![c] = q]
    BY <1>a, <1>3 DEF ExecuteStarted, TypeOK
  <2>1. took' \in [Calls -> Procs \cup {NoProc}] /\ pendingResetNotice' \in BOOLEAN
    BY <1>a, <1>3, <2>0 DEF ExecuteStarted, TypeOK
  <2>2. QED BY <1>a, <1>3, <2>1, RequestType DEF ExecuteStarted, TypeInv, TypeOK
<1>4. ASSUME NEW c \in Calls, EvaluateStarted(c) PROVE TypeInv'
  BY <1>a, <1>4, RequestType DEF EvaluateStarted, TypeInv, TypeOK
<1>5. ASSUME NEW c \in Calls, CallEvaluate(c) PROVE TypeInv'
  BY <1>a, <1>5, RequestType DEF CallEvaluate, TypeInv, TypeOK
<1>6. ASSUME NEW c \in Calls, ViewerStarted(c) PROVE TypeInv'
  <2>1. pc' \in [Calls -> {"idle"} \cup Waiting \cup Final]
    BY <1>a, <1>6, SettleType DEF ViewerStarted, TypeOK, Final
  <2>2. QED BY <1>a, <1>6, <2>1 DEF ViewerStarted, TypeInv, TypeOK, runtime, bridges
<1>7. CASE Spawn
  <2>1. /\ starting' \in [by : Calls, phase : {"provision", "waitReady", "failing"}]
        /\ child' \in Procs
        /\ proc' \in [Procs -> {"unborn", "gone"} \cup Running]
    BY <1>a, <1>7 DEF Spawn, TypeOK, NoStart, Running
  <2>2. child' # NoProc
    BY <2>1, ProcType
  <2>3. /\ stopping' \in BOOLEAN /\ ready' \in BOOLEAN
        /\ starting' \in {NoStart} \cup [by : Calls, phase : {"provision", "waitReady", "failing"}]
        /\ child' \in Procs \cup {NoProc}
    BY <1>7, <2>1 DEF Spawn
  <2>4. QED BY <1>a, <1>7, <2>1, <2>2, <2>3 DEF Spawn, TypeInv, TypeOK, calls
<1>8. CASE FailBeforeSpawn
  <2>1. pc' \in [Calls -> {"idle"} \cup Waiting \cup Final]
    BY <1>a, <1>8, SettleType DEF FailBeforeSpawn, TypeOK
  <2>2. QED BY <1>a, <1>8, <2>1 DEF FailBeforeSpawn, TypeInv, TypeOK, bridges, NoStart
<1>9. CASE StartupTimeout
  BY <1>a, <1>9, TerminateType, FailStartupType DEF StartupTimeout, TypeInv, TypeOK, calls
<1>10. ASSUME NEW p \in Procs, ReadyLine(p) PROVE TypeInv'
  <2>1. /\ pc' \in [Calls -> {"idle"} \cup Waiting \cup Final]
        /\ starting' = NoStart \/ starting' = starting
    BY <1>a, <1>10, SettleType DEF ReadyLine, TypeOK, Waiting
  <2>2. /\ ready' \in BOOLEAN /\ generation' \in Nat
        /\ proc' \in [Procs -> {"unborn", "gone"} \cup Running]
    <3>1. generation \in Nat /\ generation + 1 \in Nat /\ ready \in BOOLEAN
      BY <1>a DEF TypeOK
    <3>2. ready' \in BOOLEAN /\ generation' \in Nat
      BY <1>10, <3>1 DEF ReadyLine
    <3>3. proc' \in [Procs -> {"unborn", "gone"} \cup Running]
      BY <1>a, <1>10 DEF ReadyLine, TypeOK, Running
    <3>4. QED BY <3>2, <3>3
  <2>3. QED BY <1>a, <1>10, <2>1, <2>2 DEF ReadyLine, TypeInv, TypeOK, NoStart
<1>11. CASE BridgeFailure
  <2>1. pc' \in [Calls -> {"idle"} \cup Waiting \cup Final]
    BY <1>a, <1>11, SettleType DEF BridgeFailure, TypeOK
  <2>2. QED BY <1>a, <1>11, <2>1, TerminateType, FailStartupType
         DEF BridgeFailure, FailActive, TypeInv, TypeOK
<1>12. ASSUME NEW p \in Procs, ResultLine(p) PROVE TypeInv'
  <2>1. /\ pc' \in [Calls -> {"idle"} \cup Waiting \cup Final]
        /\ active' \in Calls \cup {NoCall} /\ armed' \in BOOLEAN
        /\ serving' \in [Procs -> Calls \cup {NoCall}]
    BY <1>a, <1>12, SettleType DEF ResultLine, FailActive, TypeOK, Final
  <2>2. QED BY <1>a, <1>12, <2>1 DEF ResultLine, TypeInv, TypeOK
<1>13. ASSUME NEW p \in Procs, BridgeErrorLine(p) PROVE TypeInv'
  <2>0. pc' \in [Calls -> {"idle"} \cup Waiting \cup Final]
    <3>1. CASE Settle({active}, {}, {}, "idle")
      BY <1>a, <3>1, SettleType DEF TypeOK
    <3>2. CASE UNCHANGED pc
      BY <1>a, <3>2 DEF TypeOK
    <3>3. QED BY <1>13, <3>1, <3>2 DEF BridgeErrorLine
  <2>1. /\ pc' \in [Calls -> {"idle"} \cup Waiting \cup Final]
        /\ active' \in Calls \cup {NoCall} /\ armed' \in BOOLEAN
        /\ pendingResetNotice' \in BOOLEAN
        /\ serving' \in [Procs -> Calls \cup {NoCall}]
    BY <1>a, <1>13, <2>0 DEF BridgeErrorLine, FailActive, TypeOK
  <2>2. /\ stop' \in {NoStop} \cup [of : Procs, phase : {"term", "kill", "reap"}]
        /\ stopping' \in BOOLEAN /\ ready' \in BOOLEAN /\ doomed' \subseteq Procs
    <3>1. CASE active = serving[p]
      BY <1>a, <1>13, <3>1, TerminateType, ProcType DEF BridgeErrorLine
    <3>2. CASE active # serving[p]
      BY <1>a, <1>13, <3>2 DEF BridgeErrorLine, TypeOK
    <3>3. QED BY <3>1, <3>2
  <2>3. QED BY <1>a, <1>13, <2>1, <2>2 DEF BridgeErrorLine, TypeInv, TypeOK
<1>14. ASSUME NEW p \in Procs, Close(p) PROVE TypeInv'
  <2>1. /\ pc' \in [Calls -> {"idle"} \cup Waiting \cup Final]
        /\ active' \in Calls \cup {NoCall} /\ armed' \in BOOLEAN
        /\ child' \in Procs \cup {NoProc} /\ ready' \in BOOLEAN /\ stopping' \in BOOLEAN
        /\ pendingResetNotice' \in BOOLEAN
        /\ starting' \in {NoStart} \cup [by : Calls, phase : {"provision", "waitReady", "failing"}]
        /\ starting'.phase = "waitReady" => child' # NoProc
    <3>1. CASE child = p
      <4>1. \E lost, refused : Settle(lost, refused, {}, "idle")
        BY <1>14, <3>1 DEF Close
      <4>2. pc' \in [Calls -> {"idle"} \cup Waiting \cup Final]
        BY <1>a, <4>1, SettleType DEF TypeOK
      <4>3. starting' = NoStart \/ FailStartup
        BY <1>14, <3>1 DEF Close
      <4>4. /\ starting' \in {NoStart} \cup [by : Calls, phase : {"provision", "waitReady", "failing"}]
            /\ starting'.phase # "waitReady"
        BY <1>a, <4>3, FailStartupType DEF NoStart
      <4>5. QED BY <1>a, <1>14, <3>1, <4>2, <4>4
             DEF Close, FailActive, LosesState, TypeOK
    <3>2. CASE child # p
      BY <1>a, <1>14, <3>2 DEF Close, TypeOK
    <3>3. QED BY <3>1, <3>2
  <2>2. stop' \in {NoStop} \cup [of : Procs, phase : {"term", "kill", "reap"}]
    <3>1. CASE stop' = stop
      BY <1>a, <3>1 DEF TypeOK
    <3>2. CASE stop.phase \in {"term", "kill"} /\ stop' = [stop EXCEPT !.phase = "reap"]
      BY <1>a, <3>2 DEF TypeOK, NoStop
    <3>3. QED BY <1>14, <3>1, <3>2 DEF Close
  <2>3. proc' \in [Procs -> {"unborn", "gone"} \cup Running]
    BY <1>a, <1>14 DEF Close, TypeOK
  <2>4. shut' = shut \/ shut' = [shut EXCEPT !.phase = "done"]
    BY <1>14 DEF Close
  <2>5. QED BY <1>a, <1>14, <2>1, <2>2, <2>3, <2>4 DEF Close, TypeInv, TypeOK
<1>15. ASSUME NEW c \in Calls, Cancel(c) PROVE TypeInv'
  <2>1. /\ cancelled' \subseteq Calls /\ armed' \in BOOLEAN
    BY <1>a, <1>15 DEF Cancel, Interrupt, TypeOK
  <2>2. CASE FailStartup /\ Terminate /\ starting.phase = "waitReady"
    BY <1>a, <1>15, <2>1, <2>2, TerminateType, FailStartupType DEF Cancel, TypeInv, TypeOK
  <2>3. CASE UNCHANGED <<starting, stop, stopping, ready, doomed>>
    BY <1>a, <1>15, <2>1, <2>3 DEF Cancel, TypeInv, TypeOK
  <2>4. QED BY <1>15, <2>2, <2>3 DEF Cancel
<1>16. CASE Overrun
  BY <1>a, <1>16 DEF Overrun, Interrupt, TypeInv, TypeOK, calls, bridges
<1>17. CASE GraceExpires
  <2>1. pc' \in [Calls -> {"idle"} \cup Waiting \cup Final]
    BY <1>a, <1>17, SettleType DEF GraceExpires, TypeOK, Waiting
  <2>2. /\ stop' \in {NoStop} \cup [of : Procs, phase : {"term", "kill", "reap"}]
        /\ stopping' \in BOOLEAN /\ ready' \in BOOLEAN /\ doomed' \subseteq Procs
    <3>1. CASE child = NoProc /\ stop = NoStop
      BY <1>a, <1>17, <3>1 DEF GraceExpires, TypeOK
    <3>2. CASE child # NoProc \/ stop # NoStop
      BY <1>a, <1>17, <3>2, TerminateType DEF GraceExpires
    <3>3. QED BY <3>1, <3>2
  <2>3. QED BY <1>a, <1>17, <2>1, <2>2 DEF GraceExpires, FailActive, TypeInv, TypeOK
<1>18. CASE ForceKill
  <2>1. stop' \in {NoStop} \cup [of : Procs, phase : {"term", "kill", "reap"}]
    BY <1>a, <1>18 DEF ForceKill, TypeOK, NoStop
  <2>2. QED BY <1>a, <1>18, <2>1 DEF ForceKill, TypeInv, TypeOK, calls, bridges
<1>19. CASE GiveUp
  <2>1. stop' \in {NoStop} \cup [of : Procs, phase : {"term", "kill", "reap"}]
    BY <1>a, <1>19 DEF GiveUp, TypeOK, NoStop
  <2>2. QED BY <1>a, <1>19, <2>1 DEF GiveUp, TypeInv, TypeOK, calls, bridges
<1>20. CASE Stopped
  <2>1. /\ pc' \in [Calls -> {"idle"} \cup Waiting \cup Final]
        /\ starting' \in {NoStart} \cup [by : Calls, phase : {"provision", "waitReady", "failing"}]
        /\ starting'.phase = "waitReady" => starting.phase = "waitReady"
    <3>1. CASE starting.phase = "failing"
      BY <1>a, <1>20, <3>1, SettleType DEF Stopped, TypeOK, NoStart
    <3>2. CASE starting.phase # "failing"
      BY <1>a, <1>b, <1>20, <3>2, EnterType DEF Stopped
    <3>3. QED BY <3>1, <3>2
  <2>2. shut' = shut \/ shut' = [shut EXCEPT !.phase = "done"]
    BY <1>20 DEF Stopped
  <2>3. QED BY <1>a, <1>20, <2>1, <2>2 DEF Stopped, TypeInv, TypeOK, bridges
<1>21. CASE Shutdown
  <2>1. /\ armed' \in BOOLEAN /\ disposed' \in BOOLEAN
        /\ shut' = [shut EXCEPT !.phase = "awaitStart"]
    BY <1>a, <1>21 DEF Shutdown, Interrupt, TypeOK
  <2>2. CASE FailStartup /\ Terminate /\ starting.phase = "waitReady"
    BY <1>a, <1>21, <2>1, <2>2, TerminateType, FailStartupType DEF Shutdown, TypeInv, TypeOK, calls
  <2>3. CASE UNCHANGED <<starting, stop, stopping, ready, doomed>>
    BY <1>a, <1>21, <2>1, <2>3 DEF Shutdown, TypeInv, TypeOK, calls
  <2>4. QED BY <1>21, <2>2, <2>3 DEF Shutdown
<1>22. CASE ShutdownResume
  <2>1. /\ stopping' \in BOOLEAN
        /\ \/ shut' = [shut EXCEPT !.phase = "awaitStop"]
           \/ shut' = [shut EXCEPT !.phase = "done"]
           \/ shut' = [phase |-> "awaitClose", of |-> child]
    BY <1>a, <1>22 DEF ShutdownResume, TypeOK
  <2>2. QED BY <1>a, <1>22, <2>1 DEF ShutdownResume, TypeInv, TypeOK, calls, bridges
<1>23. CASE ShutdownForce
  <2>1. shut' = [shut EXCEPT !.phase = "done"] \/ shut' = [shut EXCEPT !.phase = "awaitKill"]
    BY <1>23 DEF ShutdownForce
  <2>2. /\ stop' \in {NoStop} \cup [of : Procs, phase : {"term", "kill", "reap"}]
        /\ stopping' \in BOOLEAN /\ ready' \in BOOLEAN /\ doomed' \subseteq Procs
    <3>1. CASE child = NoProc /\ stop = NoStop
      BY <1>a, <1>23, <3>1 DEF ShutdownForce, TypeOK
    <3>2. CASE child # NoProc \/ stop # NoStop
      BY <1>a, <1>23, <3>2, TerminateType DEF ShutdownForce
    <3>3. QED BY <3>1, <3>2
  <2>3. QED BY <1>a, <1>23, <2>1, <2>2 DEF ShutdownForce, TypeInv, TypeOK, calls
<1>24. QED
  BY <1>1, <1>2, <1>3, <1>4, <1>5, <1>6, <1>7, <1>8, <1>9, <1>10, <1>11, <1>12, <1>13, <1>14,
     <1>15, <1>16, <1>17, <1>18, <1>19, <1>20, <1>21, <1>22, <1>23
  DEF Next, Step, Line, Timer

\* Every variable keeps its type, whatever the calls and the bounds are.
THEOREM TypeCorrect == Spec => []TypeOK
<1>1. Spec => []TypeInv
  BY InitType, TypeStep, PTL DEF Spec
<1>2. TypeInv => TypeOK
  BY DEF TypeInv
<1>3. QED BY <1>1, <1>2, PTL

(***************************************************************************)
(* How the bridges, child, stop and starting relate, when no bridge closes *)
(* after terminate() has given up on it. With one that does, a second      *)
(* startup finds the old bridge alive and stops it instead of its own.     *)
(***************************************************************************)
Prompt == Slow = {}

LifeInv ==
  /\ \A p \in Procs : proc[p] \in Running => p = child
  /\ child # NoProc => proc[child] \in Running
  /\ stop.phase = "reap" => proc[stop.of] = "gone"
  /\ stop # NoStop => stop.of \in doomed
  /\ stop # NoStop /\ child # NoProc => stop.of = child
  /\ child # NoProc => ready \/ starting.phase = "waitReady" \/ stop # NoStop
  /\ ready => child # NoProc
  /\ starting.phase = "provision" => child = NoProc /\ stop = NoStop
  /\ starting.phase = "failing" => stop # NoStop
  /\ \A p \in Procs : proc[p] = "unborn" => serving[p] = NoCall
  /\ NoAbandonedWork

\* What terminate() leaves behind when it is called on a bridge that lives.
LEMMA TerminateLife ==
  ASSUME LifeInv, Terminate, child # NoProc \/ stop # NoStop
  PROVE  /\ stop' # NoStop /\ stop'.of \in doomed'
         /\ child # NoProc => stop'.of = child /\ child \in doomed'
         /\ stop'.phase = "reap" => stop = stop'
         /\ doomed \subseteq doomed'
         /\ ready' => ready
<1>1. CASE stop # NoStop
  BY <1>1 DEF LifeInv, Terminate
<1>2. CASE stop = NoStop
  <2>1. /\ stop' = [of |-> child, phase |-> "term"] /\ doomed' = doomed \cup {child}
        /\ ready' = FALSE
    BY <1>2 DEF Terminate
  <2>2. QED BY <1>2, <2>1 DEF NoStop
<1>3. QED BY <1>1, <1>2

\* A startup begins only without a bridge and without a terminate() in progress.
LEMMA EnterLife ==
  ASSUME LifeInv, TypeInv, NEW entering, NEW lost, NEW refused,
         Enter(entering, lost, refused), stop = NoStop
  PROVE  \/ starting' = starting
         \/ starting'.phase = "provision" /\ starting.phase # "waitReady" /\ child = NoProc
<1>1. CASE child # NoProc /\ ready
  BY <1>1 DEF Enter
<1>2. CASE ~(child # NoProc /\ ready) /\ starting = NoStart
  <2>1. starting' = starting \/ \E c \in entering : starting' = [by |-> c, phase |-> "provision"]
    BY DEF Enter
  <2>2. starting.phase = "none"
    BY <1>2 DEF NoStart
  <2>3. child = NoProc
    BY <1>2, <2>2 DEF LifeInv
  <2>4. QED BY <2>1, <2>2, <2>3
<1>3. CASE ~(child # NoProc /\ ready) /\ starting # NoStart
  BY <1>3 DEF Enter
<1>4. QED BY <1>1, <1>2, <1>3

\* A request goes to the current bridge, which runs and works on nothing else.
LEMMA RequestLife ==
  ASSUME LifeInv, TypeOK, NEW c \in Calls, Request(c),
         UNCHANGED <<child, ready, starting, stop, doomed, proc>>
  PROVE  LifeInv'
<1>1. CASE ~Accepts(c)
  <2>1. UNCHANGED <<active, serving>>
    BY <1>1 DEF Request
  <2>2. QED BY <2>1 DEF LifeInv, NoAbandonedWork
<1>2. CASE Accepts(c)
  <2>1. active' = c /\ child \in Procs
        /\ serving' = IF child \in doomed THEN serving ELSE [serving EXCEPT ![child] = c]
    BY <1>2 DEF Request, Accepts, TypeOK
  <2>2. proc[child] # "unborn"
    BY <1>2 DEF Accepts, LifeInv, Running
  <2>3. NoAbandonedWork'
    BY <2>1 DEF NoAbandonedWork, TypeOK
  <2>4. \A p \in Procs : proc[p] = "unborn" => serving'[p] = NoCall
    BY <2>1, <2>2 DEF LifeInv, TypeOK
  <2>5. QED BY <2>3, <2>4 DEF LifeInv
<1>3. QED BY <1>1, <1>2

LEMMA InitLife == Init => LifeInv
  BY DEF Init, LifeInv, NoAbandonedWork, NoStart, NoStop, Running

LEMMA LifeStep ==
  ASSUME Prompt
  PROVE  TypeInv /\ LifeInv /\ [Next]_vars => LifeInv'
<1> SUFFICES ASSUME TypeInv, LifeInv, [Next]_vars PROVE LifeInv'
  OBVIOUS
<1>a. TypeOK /\ (starting.phase = "waitReady" => child # NoProc)
  BY DEF TypeInv
<1>b. NoStop.phase = "none" /\ NoStart.phase = "none"
  BY DEF NoStop, NoStart
<1>c. ASSUME UNCHANGED <<child, ready, starting, stop, doomed, proc, serving, active>>
      PROVE  LifeInv'
  BY <1>c DEF LifeInv, NoAbandonedWork
<1>1. CASE UNCHANGED vars
  BY <1>1, <1>c DEF vars, runtime, bridges
<1>2. ASSUME NEW c \in Calls, CallStart(c) PROVE LifeInv'
  <2>1. UNCHANGED <<child, ready, stop, doomed, proc, serving, active>>
    BY <1>2 DEF CallStart, bridges
  <2>2. \/ starting' = starting
        \/ /\ starting'.phase = "provision" /\ starting.phase # "waitReady"
           /\ child = NoProc /\ stop = NoStop
    BY <1>2, EnterLife DEF CallStart, Start
  <2>3. QED BY <2>1, <2>2, <1>b DEF LifeInv, NoAbandonedWork
<1>3. ASSUME NEW c \in Calls, ExecuteStarted(c) PROVE LifeInv'
  BY <1>a, <1>3, RequestLife DEF ExecuteStarted
<1>4. ASSUME NEW c \in Calls, EvaluateStarted(c) PROVE LifeInv'
  BY <1>a, <1>4, RequestLife DEF EvaluateStarted
<1>5. ASSUME NEW c \in Calls, CallEvaluate(c) PROVE LifeInv'
  BY <1>a, <1>5, RequestLife DEF CallEvaluate
<1>6. ASSUME NEW c \in Calls, ViewerStarted(c) PROVE LifeInv'
  BY <1>6, <1>c DEF ViewerStarted, runtime, bridges
<1>7. CASE Spawn
  <2>1. /\ child = NoProc /\ stop = NoStop /\ \A q \in Procs : proc[q] \notin Running
    BY <1>7, ProcType DEF Spawn, LifeInv
  <2>2. PICK p \in Procs : /\ proc[p] = "unborn" /\ child' = p
                           /\ proc' = [proc EXCEPT ![p] = "boot"]
    BY <1>7 DEF Spawn
  <2>3. /\ ready' = FALSE /\ starting'.phase = "waitReady"
        /\ UNCHANGED <<stop, doomed, serving, active>>
    BY <1>a, <1>7 DEF Spawn, TypeOK
  <2>4. /\ \A q \in Procs : q # p => proc'[q] = proc[q]
        /\ proc'[p] = "boot" /\ serving'[p] = NoCall
    BY <1>a, <2>2, <2>3 DEF TypeOK, LifeInv
  <2>5. QED BY <1>b, <2>1, <2>2, <2>3, <2>4 DEF LifeInv, NoAbandonedWork, Running
<1>8. CASE FailBeforeSpawn
  BY <1>8, <1>b DEF FailBeforeSpawn, LifeInv, NoAbandonedWork, bridges
<1>9. CASE StartupTimeout
  <2>1. child # NoProc /\ Terminate /\ starting'.phase = "failing"
        /\ UNCHANGED <<child, active, proc, serving>>
    BY <1>a, <1>9 DEF StartupTimeout, FailStartup, TypeOK
  <2>2. QED BY <2>1, TerminateLife DEF LifeInv, NoAbandonedWork
<1>10. ASSUME NEW p \in Procs, ReadyLine(p) PROVE LifeInv'
  <2>1. /\ proc[p] \in Running /\ child = p /\ ready' = TRUE
        /\ proc' = [proc EXCEPT ![p] = "up"]
        /\ UNCHANGED <<child, stop, doomed, serving, active>>
        /\ starting' = NoStart \/ starting' = starting
    BY <1>10 DEF ReadyLine, LifeInv, Running
  <2>2. /\ \A q \in Procs : q # p => proc'[q] = proc[q]
        /\ proc'[p] = "up" /\ proc[p] # "gone"
    BY <1>a, <2>1 DEF TypeOK, Running
  <2>3. p # NoProc /\ stop.phase # "reap"
    BY <1>b, <2>1, <2>2, ProcType DEF LifeInv
  <2>4. QED BY <1>b, <2>1, <2>2, <2>3 DEF LifeInv, NoAbandonedWork, Running
<1>11. CASE BridgeFailure
  <2>1. /\ child # NoProc /\ Terminate /\ UNCHANGED <<child, proc, serving>>
        /\ starting'.phase # "waitReady"
        /\ starting'.phase = "provision" => starting.phase = "provision"
    BY <1>a, <1>11 DEF BridgeFailure, FailStartup, TypeOK, NoStart
  <2>2. /\ stop' # NoStop /\ stop'.of = child /\ child \in doomed'
        /\ stop'.phase = "reap" => stop = stop'
    BY <2>1, TerminateLife
  <2>3. starting'.phase # "provision"
    BY <2>1 DEF LifeInv
  <2>4. QED BY <2>1, <2>2, <2>3 DEF LifeInv, NoAbandonedWork
<1>12. ASSUME NEW p \in Procs, ResultLine(p) PROVE LifeInv'
  <2>1. /\ child = p /\ serving'[p] = NoCall
        /\ \A q \in Procs : serving[q] = NoCall => serving'[q] = NoCall
        /\ UNCHANGED <<child, ready, starting, stop, doomed, proc>>
    BY <1>a, <1>12 DEF ResultLine, TypeOK
  <2>2. QED BY <2>1 DEF LifeInv, NoAbandonedWork
<1>13. ASSUME NEW p \in Procs, BridgeErrorLine(p) PROVE LifeInv'
  <2>1. /\ child = p /\ serving'[p] = NoCall
        /\ \A q \in Procs : serving[q] = NoCall => serving'[q] = NoCall
        /\ UNCHANGED <<child, starting, proc>>
    BY <1>a, <1>13 DEF BridgeErrorLine, TypeOK
  <2>2. CASE UNCHANGED <<stop, ready, doomed>>
    BY <2>1, <2>2 DEF LifeInv, NoAbandonedWork
  <2>3. CASE Terminate
    BY <2>1, <2>3, ProcType, TerminateLife DEF LifeInv, NoAbandonedWork
  <2>4. QED BY <1>13, <2>2, <2>3 DEF BridgeErrorLine
<1>14. ASSUME NEW p \in Procs, Close(p) PROVE LifeInv'
  <2>1. /\ proc[p] \in Running /\ child = p /\ child' = NoProc /\ ready' = FALSE
        /\ proc' = [proc EXCEPT ![p] = "gone"]
        /\ UNCHANGED <<doomed, serving>>
    BY <1>14 DEF Close, LifeInv
  <2>2. /\ \A q \in Procs : q # p => proc'[q] = proc[q]
        /\ proc'[p] = "gone"
    BY <1>a, <2>1 DEF TypeOK
  <2>3. /\ \A q \in Procs : proc'[q] \notin Running
        /\ \A q \in Procs : proc'[q] = "unborn" => proc[q] = "unborn"
        /\ \A q \in Procs : proc[q] = "gone" => proc'[q] = "gone"
    BY <2>1, <2>2 DEF LifeInv, Running
  <2>4. /\ stop' = stop \/ (stop.of = p /\ stop' = [stop EXCEPT !.phase = "reap"] /\ stop # NoStop)
    BY <1>14, <1>b DEF Close
  <2>5. /\ stop'.phase = "reap" => proc'[stop'.of] = "gone"
        /\ stop' # NoStop => stop # NoStop /\ stop'.of = stop.of
        /\ stop # NoStop => stop' # NoStop
    <3>1. CASE stop' = stop
      BY <1>a, <1>b, <2>3, <3>1 DEF LifeInv, TypeOK
    <3>2. CASE stop.of = p /\ stop' = [stop EXCEPT !.phase = "reap"] /\ stop # NoStop
      BY <1>a, <1>b, <2>2, <3>2 DEF TypeOK
    <3>3. QED BY <2>4, <3>1, <3>2
  <2>6. /\ starting'.phase = "provision" => starting.phase = "provision"
        /\ starting'.phase = "failing" => stop # NoStop
    BY <1>a, <1>b, <1>14, <2>1 DEF Close, FailStartup, LifeInv, TypeOK
  <2>7. QED BY <2>1, <2>3, <2>5, <2>6, ProcType DEF LifeInv, NoAbandonedWork
<1>15. ASSUME NEW c \in Calls, Cancel(c) PROVE LifeInv'
  <2>1. UNCHANGED <<child, active, proc, serving>>
    BY <1>15 DEF Cancel
  <2>2. CASE FailStartup /\ Terminate /\ starting.phase = "waitReady"
    <3>1. child # NoProc /\ starting'.phase = "failing"
      BY <1>a, <2>2 DEF FailStartup, TypeOK
    <3>2. QED BY <2>1, <2>2, <3>1, TerminateLife DEF LifeInv, NoAbandonedWork
  <2>3. CASE UNCHANGED <<starting, stop, stopping, ready, doomed>>
    BY <1>c, <2>1, <2>3
  <2>4. QED BY <1>15, <2>2, <2>3 DEF Cancel
<1>16. CASE Overrun
  BY <1>16, <1>c DEF Overrun, bridges
<1>17. CASE GraceExpires
  <2>1. UNCHANGED <<child, starting, proc, serving>>
    BY <1>17 DEF GraceExpires
  <2>2. CASE child = NoProc /\ stop = NoStop
    BY <1>17, <2>1, <2>2 DEF GraceExpires, LifeInv, NoAbandonedWork
  <2>3. CASE Terminate /\ (child # NoProc \/ stop # NoStop)
    BY <2>1, <2>3, TerminateLife DEF LifeInv, NoAbandonedWork
  <2>4. QED BY <1>17, <2>2, <2>3 DEF GraceExpires
<1>18. CASE ForceKill
  <2>1. /\ stop.phase = "term" /\ stop'.of = stop.of /\ stop' # NoStop /\ stop # NoStop
        /\ stop'.phase = "reap" => proc[stop.of] = "gone"
    BY <1>a, <1>b, <1>18 DEF ForceKill, TypeOK
  <2>2. UNCHANGED <<child, ready, starting, active, proc, doomed, serving>>
    BY <1>18 DEF ForceKill, bridges
  <2>3. QED BY <2>1, <2>2 DEF LifeInv, NoAbandonedWork
<1>19. CASE GiveUp
  <2>1. stop'.of = stop.of /\ stop' # NoStop /\ stop # NoStop /\ proc[stop.of] = "gone"
    BY <1>a, <1>b, <1>19 DEF GiveUp, TypeOK, Prompt
  <2>2. QED BY <1>19, <2>1 DEF GiveUp, LifeInv, NoAbandonedWork, bridges
<1>20. CASE Stopped
  <2>1. /\ stop # NoStop /\ stop' = NoStop /\ proc[stop.of] = "gone"
        /\ UNCHANGED <<child, ready, active, proc, doomed, serving>>
    BY <1>b, <1>20 DEF Stopped, LifeInv, bridges
  <2>2. child = NoProc
    BY <2>1 DEF LifeInv, Running
  <2>3. starting.phase \notin {"provision", "waitReady"}
    BY <1>a, <2>1, <2>2 DEF LifeInv
  <2>4. starting'.phase # "failing" /\ starting'.phase # "waitReady"
    <3>1. CASE starting.phase = "failing"
      BY <1>b, <1>20, <3>1 DEF Stopped
    <3>2. CASE starting.phase # "failing"
      <4>1. \/ starting' = starting
            \/ \E c \in At("stopWait") : starting' = [by |-> c, phase |-> "provision"]
        BY <1>20, <3>2 DEF Stopped, Enter
      <4>2. QED BY <2>3, <3>2, <4>1
    <3>3. QED BY <3>1, <3>2
  <2>5. QED BY <1>b, <2>1, <2>2, <2>4 DEF LifeInv, NoAbandonedWork
<1>21. CASE Shutdown
  <2>1. UNCHANGED <<child, active, proc, serving>>
    BY <1>21 DEF Shutdown
  <2>2. CASE FailStartup /\ Terminate /\ starting.phase = "waitReady"
    <3>1. child # NoProc /\ starting'.phase = "failing"
      BY <1>a, <2>2 DEF FailStartup, TypeOK
    <3>2. QED BY <2>1, <2>2, <3>1, TerminateLife DEF LifeInv, NoAbandonedWork
  <2>3. CASE UNCHANGED <<starting, stop, stopping, ready, doomed>>
    BY <1>c, <2>1, <2>3
  <2>4. QED BY <1>21, <2>2, <2>3 DEF Shutdown
<1>22. CASE ShutdownResume
  BY <1>22, <1>c DEF ShutdownResume, bridges
<1>23. CASE ShutdownForce
  <2>1. UNCHANGED <<child, active, proc, serving, starting>>
    BY <1>23 DEF ShutdownForce
  <2>2. CASE UNCHANGED <<stop, stopping, ready, doomed>>
    BY <1>c, <2>1, <2>2
  <2>3. CASE Terminate /\ (child # NoProc \/ stop # NoStop)
    BY <2>1, <2>3, TerminateLife DEF LifeInv, NoAbandonedWork
  <2>4. QED BY <1>23, <2>2, <2>3 DEF ShutdownForce
<1>24. QED
  BY <1>1, <1>2, <1>3, <1>4, <1>5, <1>6, <1>7, <1>8, <1>9, <1>10, <1>11, <1>12, <1>13, <1>14,
     <1>15, <1>16, <1>17, <1>18, <1>19, <1>20, <1>21, <1>22, <1>23
  DEF Next, Step, Line, Timer

\* There is never a live bridge that the runtime does not hold: every other one
\* was told to die.
THEOREM BridgeCorrect == ASSUME Prompt PROVE Spec => []OneLiveBridge
<1>1. Init => TypeInv /\ LifeInv
  BY InitType, InitLife
<1>2. TypeInv /\ LifeInv /\ [Next]_vars => (TypeInv /\ LifeInv)'
  BY TypeStep, LifeStep
<1>3. LifeInv => OneLiveBridge
  BY DEF LifeInv, OneLiveBridge
<1>4. QED BY <1>1, <1>2, <1>3, PTL DEF Spec

\* The runtime never gives up on a request and keeps the kernel that works on it.
THEOREM WorkCorrect == ASSUME Prompt PROVE Spec => []NoAbandonedWork
<1>1. Init => TypeInv /\ LifeInv
  BY InitType, InitLife
<1>2. TypeInv /\ LifeInv /\ [Next]_vars => (TypeInv /\ LifeInv)'
  BY TypeStep, LifeStep
<1>3. LifeInv => NoAbandonedWork
  BY DEF LifeInv
<1>4. QED BY <1>1, <1>2, <1>3, PTL DEF Spec

(***************************************************************************)
(* Which kernel a request ran in: while a kernel is ready, the requests of *)
(* the present generation are those that it received.                      *)
(***************************************************************************)
GenerationInv ==
  /\ \A c \in Calls : ranIn[c] # NoProc => ranAt[c] <= generation
  /\ \A c \in Calls : ranIn[c] # NoProc /\ ranAt[c] = generation /\ ready => ranIn[c] = child
  /\ GenerationNamesKernel

LEMMA InitGeneration == Init => GenerationInv
  BY DEF Init, GenerationInv, GenerationNamesKernel

LEMMA GenerationKept ==
  ASSUME GenerationInv, ready' => ready /\ child' = child,
         UNCHANGED <<generation, ranIn, ranAt>>
  PROVE  GenerationInv'
  BY DEF GenerationInv, GenerationNamesKernel

LEMMA TerminateReady == ASSUME Terminate PROVE ready' => ready
  BY DEF Terminate

LEMMA RequestGeneration ==
  ASSUME GenerationInv, TypeOK, NEW c \in Calls, Request(c),
         UNCHANGED <<child, ready, generation>>
  PROVE  GenerationInv'
<1>1. CASE ~Accepts(c)
  BY <1>1, GenerationKept DEF Request
<1>2. CASE Accepts(c)
  <2>1. /\ ready /\ child # NoProc /\ generation \in Nat
        /\ ranIn' = [ranIn EXCEPT ![c] = child]
        /\ ranAt' = [ranAt EXCEPT ![c] = generation]
    BY <1>2 DEF Request, Accepts, TypeOK
  <2>2. /\ ranIn'[c] = child /\ ranAt'[c] = generation
        /\ \A d \in Calls : d # c => ranIn'[d] = ranIn[d] /\ ranAt'[d] = ranAt[d]
    BY <2>1 DEF TypeOK
  <2>3. \A d \in Calls : ranIn'[d] # NoProc => ranAt'[d] <= generation
    BY <2>1, <2>2 DEF GenerationInv
  <2>4. \A d \in Calls : ranIn'[d] # NoProc /\ ranAt'[d] = generation => ranIn'[d] = child
    BY <2>1, <2>2 DEF GenerationInv
  <2>5. GenerationNamesKernel'
    BY <2>1, <2>2, <2>4 DEF GenerationInv, GenerationNamesKernel
  <2>6. QED BY <2>3, <2>4, <2>5 DEF GenerationInv
<1>3. QED BY <1>1, <1>2

LEMMA GenerationStep == TypeOK /\ GenerationInv /\ [Next]_vars => GenerationInv'
<1> SUFFICES ASSUME TypeOK, GenerationInv, [Next]_vars PROVE GenerationInv'
  OBVIOUS
<1>a. ASSUME UNCHANGED <<ready, child, generation, ranIn, ranAt>> PROVE GenerationInv'
  BY <1>a, GenerationKept
<1>b. ASSUME UNCHANGED <<child, generation, ranIn, ranAt>>, Terminate PROVE GenerationInv'
  BY <1>b, GenerationKept, TerminateReady
<1>1. CASE UNCHANGED vars
  BY <1>1, <1>a DEF vars, runtime, calls
<1>2. ASSUME NEW c \in Calls, CallStart(c) \/ ViewerStarted(c) PROVE GenerationInv'
  BY <1>2, <1>a DEF CallStart, ViewerStarted, runtime
<1>3. ASSUME NEW c \in Calls, ExecuteStarted(c) \/ EvaluateStarted(c) \/ CallEvaluate(c)
      PROVE  GenerationInv'
  BY <1>3, RequestGeneration DEF ExecuteStarted, EvaluateStarted, CallEvaluate
<1>4. CASE Spawn
  BY <1>4, GenerationKept DEF Spawn, calls
<1>5. CASE FailBeforeSpawn \/ Overrun \/ ForceKill \/ GiveUp \/ Stopped \/ ShutdownResume
  BY <1>5, <1>a DEF FailBeforeSpawn, Overrun, ForceKill, GiveUp, Stopped, ShutdownResume, calls
<1>6. CASE StartupTimeout \/ BridgeFailure
  BY <1>6, <1>b DEF StartupTimeout, BridgeFailure, calls
<1>7. CASE GraceExpires \/ Shutdown \/ ShutdownForce
  BY <1>7, <1>a, <1>b DEF GraceExpires, Shutdown, ShutdownForce, calls
<1>8. ASSUME NEW c \in Calls, Cancel(c) PROVE GenerationInv'
  BY <1>8, <1>a, <1>b DEF Cancel
<1>9. ASSUME NEW p \in Procs, ResultLine(p) PROVE GenerationInv'
  BY <1>9, <1>a DEF ResultLine
<1>10. ASSUME NEW p \in Procs, BridgeErrorLine(p) PROVE GenerationInv'
  BY <1>10, <1>a, <1>b DEF BridgeErrorLine
<1>11. ASSUME NEW p \in Procs, Close(p) PROVE GenerationInv'
  BY <1>11, GenerationKept DEF Close
<1>12. ASSUME NEW p \in Procs, ReadyLine(p) PROVE GenerationInv'
  <2>1. CASE child # p
    BY <1>12, <2>1, <1>a DEF ReadyLine
  <2>2. CASE child = p
    <3>1. generation' = generation + 1 /\ UNCHANGED <<ranIn, ranAt>>
      BY <1>12, <2>2 DEF ReadyLine
    <3>2. \A c \in Calls : ranIn[c] # NoProc => ranAt[c] <= generation' /\ ranAt[c] # generation'
      BY <3>1 DEF GenerationInv, TypeOK
    <3>3. QED BY <3>1, <3>2 DEF GenerationInv, GenerationNamesKernel
  <2>3. QED BY <2>1, <2>2
<1>13. QED
  BY <1>1, <1>2, <1>3, <1>4, <1>5, <1>6, <1>7, <1>8, <1>9, <1>10, <1>11, <1>12
  DEF Next, Step, Line, Timer

\* Two requests that saw the same generation ran in the same kernel, also when a
\* bridge outlives terminate(): what a caller keeps for a generation stays true.
THEOREM GenerationCorrect == Spec => []GenerationNamesKernel
<1>1. Init => TypeInv /\ GenerationInv
  BY InitType, InitGeneration
<1>2. TypeInv /\ GenerationInv /\ [Next]_vars => (TypeInv /\ GenerationInv)'
  BY TypeStep, GenerationStep DEF TypeInv
<1>3. GenerationInv => GenerationNamesKernel
  BY DEF GenerationInv
<1>4. QED BY <1>1, <1>2, <1>3, PTL DEF Spec
=============================================================================

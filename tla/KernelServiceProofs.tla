--------------------------- MODULE KernelServiceProofs ---------------------------
(***************************************************************************)
(* Theorems about KernelRuntime: the loss of a kernel reaches the cell     *)
(* that runs in it (LostInv), and a later one (HandedInv), and the runtime *)
(* implements KernelService (ServedInv): every step of it, seen through    *)
(* the status of its calls and the generation, is a step of the service or *)
(* none. All assume Prompt, as LifeInv does.                               *)
(***************************************************************************)
EXTENDS KernelRuntimeProofs

(***************************************************************************)
(* A request in flight, while the runtime is not disposed, is that of the  *)
(* current kernel, which nobody stops: its exit rejects the request. What  *)
(* could break this is a bridge that becomes ready while terminate() works *)
(* on it: its startup has failed, and until it is cleared no call gets on. *)
(***************************************************************************)
Current == ready /\ ~stopping /\ stop = NoStop

RequestInv ==
  /\ active # NoCall => pc[active] = "requested"
  /\ active # NoCall /\ ~disposed => Current /\ child = ranIn[active]
  /\ active # NoCall /\ disposed => armed
  /\ \A c \in Calls : pc[c] = "started" => ready /\ (disposed \/ Current)

StartInv ==
  /\ shut.phase # "no" => disposed
  /\ stopping => child # NoProc /\ (disposed \/ stop # NoStop)
  /\ starting.phase = "waitReady" => ~ready /\ (disposed \/ stop = NoStop)
  /\ child # NoProc /\ proc[child] = "boot" => starting.phase \in {"waitReady", "failing"}
  /\ ready /\ stop # NoStop => disposed \/ starting.phase = "failing"
  /\ starting # NoStart => pc[starting.by] = "startWait"
  /\ \A c \in Calls : pc[c] \in {"stopWait", "startWait"} => c \in Syncs \/ Evals = {}

LostInv == TypeInv /\ LifeInv /\ RequestInv /\ StartInv

LEMMA InitLost == Init => LostInv
<1> SUFFICES ASSUME Init PROVE LostInv
  OBVIOUS
<1>1. TypeInv /\ LifeInv
  BY InitType, InitLife
<1>2. /\ RequestInv /\ StartInv
  BY DEF Init, RequestInv, StartInv, Current, NoStart
<1>3. QED BY <1>1, <1>2 DEF LostInv

\* What Settle() makes of a call.
LEMMA SettledCall ==
  ASSUME pc \in [Calls -> {"idle"} \cup Waiting \cup Final],
         NEW lost, NEW refused, NEW moved, NEW to \in {"idle"} \cup Waiting \cup Final,
         Settle(lost, refused, moved, to)
  PROVE  \A c \in Calls :
           /\ c \in lost \ (refused \cup moved) => pc'[c] = "lost"
           /\ c \in refused \ (lost \cup moved) => pc'[c] = "refused"
           /\ c \in moved \ (lost \cup refused) => pc'[c] = to
           /\ c \notin lost \cup refused \cup moved => pc'[c] = pc[c]
<1> SUFFICES ASSUME NEW c \in Calls
             PROVE  /\ c \in lost \ (refused \cup moved) => pc'[c] = "lost"
                    /\ c \in refused \ (lost \cup moved) => pc'[c] = "refused"
                    /\ c \in moved \ (lost \cup refused) => pc'[c] = to
                    /\ c \notin lost \cup refused \cup moved => pc'[c] = pc[c]
  OBVIOUS
<1>1. ASSUME c \in lost, c \notin refused, c \notin moved PROVE pc'[c] = "lost"
  BY <1>1 DEF Settle
<1>2. ASSUME c \in refused, c \notin lost, c \notin moved PROVE pc'[c] = "refused"
  BY <1>2 DEF Settle
<1>3. ASSUME c \in moved, c \notin lost, c \notin refused PROVE pc'[c] = to
  BY <1>3 DEF Settle, Waiting, Final
<1>4. ASSUME c \notin lost, c \notin refused, c \notin moved PROVE pc'[c] = pc[c]
  BY <1>4 DEF Settle, Waiting, Final
<1>5. QED BY <1>1, <1>2, <1>3, <1>4

LEMMA QuietCalls == Quiet => \A c \in Calls : pc[c] # "started"
  BY DEF Quiet, At

\* A call that was neither in flight nor waiting for a startup settles.
LEMMA CallSettles ==
  ASSUME LostInv, NEW c \in Calls, pc[c] \notin {"requested", "startWait"}, pc'[c] \in Final,
         \A d \in Calls : d # c => pc'[d] = pc[d],
         UNCHANGED <<child, ready, stopping, active, armed, stop, disposed, shut, ranIn, proc, starting>>
  PROVE  RequestInv' /\ StartInv'
  BY DEF LostInv, TypeInv, TypeOK, RequestInv, StartInv, Current, Final

\* A request that is accepted while nobody stops the kernel, or refused.
LEMMA RequestLost ==
  ASSUME LostInv, NEW c \in Calls, Request(c), pc[c] \in {"idle", "started"},
         Accepts(c) => Current,
         UNCHANGED <<child, ready, stopping, stop, disposed, shut, proc, starting>>
  PROVE  RequestInv' /\ StartInv'
<1>a. TypeOK /\ RequestInv /\ StartInv /\ NoCall \notin Calls
  BY CallAssumption DEF LostInv, TypeInv
<1>1. CASE ~Accepts(c)
  <2>1. Settle({}, {c}, {}, "idle") /\ UNCHANGED <<active, armed, ranIn>>
    BY <1>1 DEF Request
  <2>2. pc'[c] = "refused" /\ \A d \in Calls : d # c => pc'[d] = pc[d]
    BY <1>a, <2>1, SettledCall DEF TypeOK, Waiting
  <2>3. QED BY <2>1, <2>2, CallSettles DEF Final
<1>2. CASE Accepts(c)
  <2>1. /\ Settle({}, {}, {c}, "requested") /\ active' = c
        /\ ranIn' = [ranIn EXCEPT ![c] = child] /\ ~disposed
    BY <1>2 DEF Request, Accepts, OperationAborted
  <2>2. pc'[c] = "requested" /\ \A d \in Calls : d # c => pc'[d] = pc[d]
    BY <1>a, <2>1, SettledCall DEF TypeOK, Waiting
  <2>3. RequestInv'
    BY <1>2, <1>a, <2>1, <2>2 DEF RequestInv, Current, TypeOK
  <2>4. StartInv'
    BY <1>a, <2>1, <2>2 DEF StartInv, TypeOK
  <2>5. QED BY <2>3, <2>4
<1>3. QED BY <1>1, <1>2

\* What terminate() leaves of a runtime that has a bridge, or joins another one.
LEMMA TerminateLost ==
  ASSUME Terminate, child # NoProc \/ stop # NoStop
  PROVE  /\ stop' # NoStop
         /\ ready' => ready /\ stop # NoStop
         /\ child = NoProc => UNCHANGED stopping
<1>1. CASE stop # NoStop
  BY <1>1 DEF Terminate
<1>2. CASE stop = NoStop
  <2>1. stop' = [of |-> child, phase |-> "term"] /\ ready' = FALSE /\ child # NoProc
    BY <1>2 DEF Terminate
  <2>2. stop'.phase = "term"
    BY <2>1
  <2>3. QED BY <2>1, <2>2 DEF NoStop
<1>3. QED BY <1>1, <1>2

\* A startup that is given up: nothing was in flight, unless for a shutdown.
LEMMA StartupFails ==
  ASSUME LostInv, Quiet, starting.phase = "waitReady", FailStartup, Terminate,
         disposed => disposed', shut'.phase # "no" => disposed',
         active # NoCall /\ disposed' => armed',
         UNCHANGED <<child, active, pc, proc, ranIn>>
  PROVE  RequestInv' /\ StartInv'
<1>a. TypeOK /\ RequestInv /\ StartInv /\ child # NoProc /\ ~ready
  BY DEF LostInv, TypeInv, StartInv
<1>1. /\ starting'.phase = "failing" /\ starting'.by = starting.by /\ starting # NoStart
  BY <1>a DEF FailStartup, TypeOK, NoStart
<1>2. stop' # NoStop /\ ~ready'
  BY <1>a, TerminateLost
<1>3. active # NoCall => disposed
  BY <1>a DEF RequestInv, Current
<1>4. RequestInv'
  BY <1>a, <1>3, QuietCalls DEF RequestInv
<1>5. StartInv'
  BY <1>a, <1>1, <1>2 DEF StartInv
<1>6. QED BY <1>4, <1>5

\* The request in flight is settled, and its bridge stopped, outside of a startup.
LEMMA RequestFails ==
  ASSUME LostInv, Quiet, Terminate, child # NoProc \/ stop # NoStop,
         active' = NoCall, starting' = starting \/ FailStartup,
         starting.phase = "waitReady" /\ starting' = starting => disposed,
         \A c \in Calls : c # active => pc'[c] = pc[c],
         active # NoCall => pc'[active] \in {"lost", "killWait"},
         UNCHANGED <<child, disposed, shut, proc>>
  PROVE  RequestInv' /\ StartInv'
<1>a. TypeOK /\ RequestInv /\ StartInv /\ NoCall \notin Calls
  BY CallAssumption DEF LostInv, TypeInv
<1>1. /\ starting'.phase = "waitReady" => starting' = starting
      /\ starting.phase = "failing" => starting' = starting
      /\ starting.phase = "waitReady" => starting'.phase \in {"waitReady", "failing"}
      /\ starting' # NoStart => starting # NoStart /\ starting'.by = starting.by
  BY <1>a DEF FailStartup, TypeOK, NoStart
<1>2. RequestInv'
  BY <1>a, QuietCalls DEF RequestInv
<1>3. StartInv'
  <2>1. stop' # NoStop /\ (ready' => ready /\ stop # NoStop) /\ (child = NoProc => UNCHANGED stopping)
    BY TerminateLost
  <2>2. \A c \in Calls : pc[c] \in {"startWait", "stopWait"} => c # active /\ pc'[c] = pc[c]
    BY <1>a DEF RequestInv
  <2>3. starting' # NoStart => pc'[starting'.by] = "startWait"
    BY <1>a, <1>1, <2>2 DEF StartInv, TypeOK
  <2>4. \A c \in Calls : pc'[c] \in {"startWait", "stopWait"} => pc'[c] = pc[c]
    BY <1>a DEF TypeOK
  <2>5. QED BY <1>a, <1>1, <2>1, <2>3, <2>4 DEF StartInv
<1>4. QED BY <1>2, <1>3

LEMMA LostStep ==
  ASSUME Prompt
  PROVE  LostInv /\ [Next]_vars => LostInv'
<1> SUFFICES ASSUME LostInv, [Next]_vars PROVE LostInv'
  OBVIOUS
<1>a. TypeInv /\ TypeOK /\ LifeInv /\ RequestInv /\ StartInv
  BY DEF LostInv, TypeInv
<1>b. TypeInv' /\ LifeInv'
  BY <1>a, TypeStep, LifeStep
<1>c. SUFFICES RequestInv' /\ StartInv'
  BY <1>b DEF LostInv
<1>d. /\ NoStart.phase = "none" /\ NoStop.phase = "none"
      /\ NoCall \notin Calls /\ NoProc \notin Procs
  BY CallAssumption, ProcType DEF NoStart, NoStop
<1>1. CASE UNCHANGED vars
  BY <1>a, <1>1 DEF vars, runtime, calls, bridges, RequestInv, StartInv, Current
<1>2. ASSUME NEW c \in Calls, CallStart(c) PROVE RequestInv' /\ StartInv'
  <2>1. /\ UNCHANGED <<child, ready, stopping, active, armed, stop, disposed, shut, ranIn, proc>>
        /\ pc[c] = "idle"
    BY <1>2 DEF CallStart, bridges
  <2>2. active # c
    BY <1>a, <1>d, <2>1 DEF RequestInv
  <2>3. CASE pc'[c] = "refused" /\ (\A d \in Calls : d # c => pc'[d] = pc[d]) /\ starting' = starting
    BY <1>a, <2>1, <2>2, <2>3 DEF RequestInv, StartInv, Current, TypeOK
  <2>4. CASE /\ stop # NoStop /\ pc'[c] = "stopWait" /\ starting' = starting
             /\ \A d \in Calls : d # c => pc'[d] = pc[d]
    <3>1. c \in Syncs \/ Evals = {}
      BY <1>2, <2>4 DEF CallStart, SyncedFirst
    <3>2. QED BY <1>a, <2>1, <2>2, <2>4, <3>1 DEF RequestInv, StartInv, Current, TypeOK
  <2>5. CASE ~disposed /\ stop = NoStop /\ Enter({c}, {}, {})
    <3>1. CASE child # NoProc /\ ready
      <4>1. Settle({}, {}, {c}, "started") /\ starting' = starting
        BY <2>5, <3>1 DEF Enter
      <4>2. pc'[c] = "started" /\ \A d \in Calls : d # c => pc'[d] = pc[d]
        BY <1>a, <4>1, SettledCall DEF TypeOK, Waiting
      <4>3. QED BY <1>a, <2>1, <2>2, <2>5, <3>1, <4>1, <4>2 DEF RequestInv, StartInv, Current, TypeOK
    <3>2. CASE ~(child # NoProc /\ ready)
      <4>1. Settle({}, {}, {c}, "startWait")
        BY <2>5, <3>2 DEF Enter
      <4>2. pc'[c] = "startWait" /\ \A d \in Calls : d # c => pc'[d] = pc[d]
        BY <1>a, <4>1, SettledCall DEF TypeOK, Waiting
      <4>3. \/ starting' = starting
            \/ starting = NoStart /\ starting' = [by |-> c, phase |-> "provision"]
        BY <2>5, <3>2 DEF Enter
      <4>4. c \in Syncs \/ Evals = {}
        BY <1>2, <3>2 DEF CallStart, SyncedFirst
      <4>5. starting' # NoStart => pc'[starting'.by] = "startWait"
        BY <1>a, <4>2, <4>3 DEF StartInv, TypeOK
      <4>6. /\ starting'.phase = "waitReady" => starting.phase = "waitReady"
            /\ starting.phase \in {"waitReady", "failing"} => starting' = starting
        BY <1>d, <4>3
      <4>7. RequestInv'
        BY <1>a, <2>1, <2>2, <4>2 DEF RequestInv, Current, TypeOK
      <4>8. QED BY <1>a, <2>1, <4>2, <4>4, <4>5, <4>6, <4>7 DEF StartInv
    <3>3. QED BY <3>1, <3>2
  <2>6. \/ Settle({}, {c}, {}, "idle") /\ starting' = starting
        \/ stop # NoStop /\ Settle({}, {}, {c}, "stopWait") /\ starting' = starting
        \/ ~disposed /\ stop = NoStop /\ Enter({c}, {}, {})
    BY <1>2 DEF CallStart, Start
  <2>7. CASE Settle({}, {c}, {}, "idle") /\ starting' = starting
    BY <1>a, <2>3, <2>7, SettledCall DEF TypeOK, Waiting
  <2>8. CASE stop # NoStop /\ Settle({}, {}, {c}, "stopWait") /\ starting' = starting
    BY <1>a, <2>4, <2>8, SettledCall DEF TypeOK, Waiting
  <2>9. QED BY <2>5, <2>6, <2>7, <2>8
<1>3. ASSUME NEW c \in Calls, ExecuteStarted(c) \/ EvaluateStarted(c) PROVE RequestInv' /\ StartInv'
  <2>1. /\ pc[c] = "started" /\ Request(c)
        /\ UNCHANGED <<child, ready, stopping, stop, disposed, shut, proc, starting>>
    BY <1>3 DEF ExecuteStarted, EvaluateStarted
  <2>2. Accepts(c) => Current
    BY <1>a, <2>1 DEF RequestInv, Accepts, OperationAborted
  <2>3. QED BY <2>1, <2>2, RequestLost
<1>4. ASSUME NEW c \in Calls, CallEvaluate(c) PROVE RequestInv' /\ StartInv'
  <2>1. /\ pc[c] = "idle" /\ Request(c) /\ c \in Evals /\ QueueFree
        /\ UNCHANGED <<child, ready, stopping, stop, disposed, shut, proc, starting>>
    BY <1>4 DEF CallEvaluate
  <2>2. \A d \in Calls : pc[d] # "startWait"
    BY <1>a, <2>1 DEF QueueFree, StartInv, Final
  <2>3. starting.phase # "failing"
    BY <1>a, <1>d, <2>2 DEF StartInv, TypeOK
  <2>4. Accepts(c) => Current
    BY <1>a, <2>3 DEF StartInv, Current, Accepts, OperationAborted
  <2>5. QED BY <2>1, <2>4, RequestLost
<1>5. ASSUME NEW c \in Calls, ViewerStarted(c) PROVE RequestInv' /\ StartInv'
  <2>1. /\ pc[c] = "started"
        /\ UNCHANGED <<child, ready, stopping, active, armed, stop, disposed, shut, ranIn, proc, starting>>
        /\ Settle({}, {}, {c}, "ok") \/ Settle({}, {c}, {}, "idle")
    BY <1>5 DEF ViewerStarted, runtime, bridges
  <2>2. pc'[c] \in Final /\ \A d \in Calls : d # c => pc'[d] = pc[d]
    <3>1. CASE Settle({}, {}, {c}, "ok")
      BY <1>a, <3>1, SettledCall DEF TypeOK, Final
    <3>2. CASE Settle({}, {c}, {}, "idle")
      BY <1>a, <3>2, SettledCall DEF TypeOK, Final
    <3>3. QED BY <2>1, <3>1, <3>2
  <2>3. QED BY <2>1, <2>2, CallSettles
<1>6. CASE Spawn
  <2>1. /\ child = NoProc /\ stop = NoStop /\ Quiet
        /\ stopping' = FALSE /\ ready' = FALSE
        /\ UNCHANGED <<active, armed, stop, disposed, shut, pc, ranIn>>
    BY <1>a, <1>6 DEF Spawn, LifeInv, calls
  <2>2. /\ starting'.phase = "waitReady" /\ starting'.by = starting.by /\ starting # NoStart
    BY <1>a, <1>d, <1>6 DEF Spawn, TypeOK
  <2>3. active # NoCall => disposed
    BY <1>a, <2>1 DEF RequestInv, Current, LifeInv
  <2>4. QED BY <1>a, <2>1, <2>2, <2>3, QuietCalls DEF RequestInv, StartInv
<1>7. CASE FailBeforeSpawn
  <2>1. /\ child = NoProc /\ stop = NoStop /\ starting' = NoStart
        /\ Settle({}, At("startWait"), {}, "idle")
        /\ UNCHANGED <<child, ready, stopping, active, armed, stop, disposed, shut, ranIn, proc>>
    BY <1>a, <1>7 DEF FailBeforeSpawn, LifeInv, bridges
  <2>2. \A c \in Calls : pc'[c] = IF pc[c] = "startWait" THEN "refused" ELSE pc[c]
    BY <1>a, <2>1, SettledCall DEF TypeOK, At
  <2>3. QED BY <1>a, <1>d, <2>1, <2>2 DEF RequestInv, StartInv, Current, TypeOK
<1>8. CASE StartupTimeout
  BY <1>a, <1>8, StartupFails DEF StartupTimeout, calls, StartInv, RequestInv
<1>9. ASSUME NEW p \in Procs, ReadyLine(p) PROVE RequestInv' /\ StartInv'
  <2>1. /\ child = p /\ proc[p] = "boot" /\ proc' = [proc EXCEPT ![p] = "up"] /\ ready' = TRUE /\ Quiet
        /\ UNCHANGED <<child, stopping, active, armed, stop, disposed, shut, ranIn>>
    BY <1>a, <1>9 DEF ReadyLine, LifeInv, Running
  <2>2. proc'[p] = "up" /\ p # NoProc
    BY <1>a, <1>d, <2>1 DEF TypeOK
  <2>3. CASE starting.phase = "waitReady"
    <3>1. starting' = NoStart /\ Settle({}, {}, At("startWait"), "started")
      BY <1>9, <2>1, <2>3 DEF ReadyLine
    <3>2. \A c \in Calls : pc'[c] = IF pc[c] = "startWait" THEN "started" ELSE pc[c]
      BY <1>a, <3>1, SettledCall DEF TypeOK, At, Waiting
    <3>3. ~ready /\ (disposed \/ (stop = NoStop /\ ~stopping))
      BY <1>a, <2>3 DEF StartInv
    <3>4. RequestInv'
      BY <1>a, <2>1, <3>2, <3>3 DEF RequestInv, Current, TypeOK
    <3>5. StartInv'
      BY <1>a, <1>d, <2>1, <2>2, <3>1, <3>2, <3>3 DEF StartInv, TypeOK
    <3>6. QED BY <3>4, <3>5
  <2>4. CASE starting.phase = "failing"
    <3>1. starting' = starting /\ pc' = pc /\ stop # NoStop
      BY <1>a, <1>9, <2>1, <2>4 DEF ReadyLine, LifeInv
    <3>2. RequestInv'
      BY <1>a, <2>1, <3>1, QuietCalls DEF RequestInv, Current
    <3>3. QED BY <1>a, <2>1, <2>2, <2>4, <3>1, <3>2 DEF StartInv
  <2>5. QED BY <1>a, <1>d, <2>1, <2>3, <2>4 DEF StartInv
<1>10. CASE BridgeFailure
  <2>1. /\ child # NoProc /\ Quiet /\ FailStartup /\ Terminate /\ active' = NoCall
        /\ Settle({active}, {}, {}, "idle") /\ UNCHANGED <<child, disposed, shut, proc>>
    BY <1>10 DEF BridgeFailure, FailActive
  <2>2. /\ \A c \in Calls : c # active => pc'[c] = pc[c]
        /\ active # NoCall => pc'[active] = "lost"
    BY <1>a, <2>1, SettledCall DEF TypeOK
  <2>3. ~(starting.phase = "waitReady" /\ starting' = starting)
    <3>1. starting.phase = "waitReady" => starting'.phase = "failing"
      BY <1>a, <1>d, <2>1 DEF FailStartup, TypeOK
    <3>2. QED BY <3>1
  <2>4. QED BY <2>1, <2>2, <2>3, RequestFails
<1>11. ASSUME NEW p \in Procs, ResultLine(p) PROVE RequestInv' /\ StartInv'
  <2>1. UNCHANGED <<child, ready, stopping, stop, disposed, shut, ranIn, proc, starting>>
    BY <1>11 DEF ResultLine
  <2>2. CASE UNCHANGED <<active, armed, pc>>
    BY <1>a, <2>1, <2>2 DEF RequestInv, StartInv, Current
  <2>3. CASE active # NoCall /\ active' = NoCall /\ Settle({}, {}, {active}, "ok")
    <3>1. pc'[active] = "ok" /\ \A c \in Calls : c # active => pc'[c] = pc[c]
      BY <1>a, <2>3, SettledCall DEF TypeOK, Final
    <3>2. QED BY <1>a, <2>1, <2>3, <3>1 DEF RequestInv, StartInv, Current, TypeOK
  <2>4. QED BY <1>11, <2>2, <2>3 DEF ResultLine, FailActive
<1>12. ASSUME NEW p \in Procs, BridgeErrorLine(p) PROVE RequestInv' /\ StartInv'
  <2>1. Quiet /\ child = p /\ UNCHANGED <<child, starting, disposed, shut, proc, ranIn>>
    BY <1>12 DEF BridgeErrorLine
  <2>2. CASE UNCHANGED <<active, armed, pc, stop, stopping, ready, doomed>>
    BY <1>a, <2>1, <2>2 DEF RequestInv, StartInv, Current
  <2>3. CASE active # NoCall /\ active' = NoCall /\ Settle({active}, {}, {}, "idle") /\ Terminate
    <3>1. pc'[active] = "lost" /\ \A c \in Calls : c # active => pc'[c] = pc[c]
      BY <1>a, <2>3, SettledCall DEF TypeOK
    <3>2. starting.phase = "waitReady" => disposed
      BY <1>a, <2>3 DEF RequestInv, StartInv, Current
    <3>3. QED BY <1>d, <2>1, <2>3, <3>1, <3>2, RequestFails
  <2>4. QED BY <1>12, <2>2, <2>3 DEF BridgeErrorLine, FailActive
<1>13. ASSUME NEW p \in Procs, Close(p) PROVE RequestInv' /\ StartInv'
  <2>1. /\ Quiet /\ child = p /\ child' = NoProc /\ ready' = FALSE /\ stopping' = FALSE
        /\ UNCHANGED <<disposed, ranIn>>
    BY <1>a, <1>13 DEF Close, LifeInv
  <2>2. PICK settled \in BOOLEAN :
          /\ IF settled THEN starting' = NoStart ELSE FailStartup
          /\ Settle(IF LosesRequest THEN {active} ELSE {},
                    IF settled THEN At("startWait") ELSE {}, {}, "idle")
    BY <1>13, <2>1 DEF Close
  <2>3. IF LosesRequest THEN active' = NoCall ELSE UNCHANGED <<active, armed>>
    BY <1>13, <2>1 DEF Close, FailActive
  <2>4. \A c \in Calls : \/ pc'[c] = pc[c]
                         \/ LosesRequest /\ c = active /\ pc'[c] = "lost"
                         \/ settled /\ pc[c] = "startWait" /\ pc'[c] = "refused"
    <3>1. TAKE c \in Calls
    <3>2. ~(c = active /\ pc[c] = "startWait")
      BY <1>a, <1>d DEF RequestInv
    <3>3. QED BY <1>a, <2>2, <3>2, SettledCall DEF TypeOK, At
  <2>5. RequestInv'
    <3>1. active # NoCall /\ ~disposed => LosesRequest
      BY <1>a DEF RequestInv, Current, LosesRequest
    <3>2. active' # NoCall => active' = active /\ disposed /\ armed' = armed /\ ~LosesRequest
      BY <2>3, <3>1
    <3>3. active' # NoCall => pc'[active'] = "requested"
      BY <1>a, <2>4, <3>2 DEF RequestInv, TypeOK
    <3>4. \A c \in Calls : pc'[c] # "started"
      BY <2>1, <2>4, QuietCalls
    <3>5. QED BY <1>a, <2>1, <3>2, <3>3, <3>4 DEF RequestInv
  <2>6. StartInv'
    <3>1. /\ starting'.phase # "waitReady"
          /\ starting' # NoStart => ~settled /\ starting # NoStart /\ starting'.by = starting.by
      BY <1>a, <1>d, <2>2 DEF FailStartup, TypeOK
    <3>2. starting' # NoStart => pc'[starting'.by] = "startWait"
      BY <1>a, <1>d, <2>4, <3>1 DEF StartInv, RequestInv, TypeOK
    <3>3. shut'.phase # "no" => disposed
      BY <1>a, <1>13 DEF Close, StartInv
    <3>4. \A c \in Calls : pc'[c] \in {"stopWait", "startWait"} => pc'[c] = pc[c]
      BY <2>4
    <3>5. QED BY <1>a, <2>1, <3>1, <3>2, <3>3, <3>4 DEF StartInv
  <2>7. QED BY <2>5, <2>6
<1>14. ASSUME NEW c \in Calls, Cancel(c) PROVE RequestInv' /\ StartInv'
  <2>1. /\ Quiet /\ UNCHANGED <<child, active, disposed, shut, pc, proc, ranIn>>
        /\ armed => armed'
    BY <1>14 DEF Cancel, Interrupt
  <2>2. CASE starting.phase = "waitReady" /\ FailStartup /\ Terminate
    BY <1>a, <2>1, <2>2, StartupFails DEF StartInv, RequestInv
  <2>3. CASE UNCHANGED <<starting, stop, stopping, ready, doomed>>
    BY <1>a, <2>1, <2>3 DEF StartInv, RequestInv, Current
  <2>4. QED BY <1>14, <2>2, <2>3 DEF Cancel
<1>15. CASE Overrun
  BY <1>a, <1>15 DEF Overrun, Interrupt, calls, bridges, StartInv, RequestInv, Current
<1>16. CASE GraceExpires
  <2>1. /\ Quiet /\ active # NoCall /\ active' = NoCall
        /\ UNCHANGED <<child, starting, disposed, shut, proc, ranIn>>
    BY <1>16 DEF GraceExpires, FailActive
  <2>2. CASE Settle({active}, {}, {}, "idle") /\ UNCHANGED <<stop, stopping, ready, doomed>>
    <3>1. pc'[active] = "lost" /\ \A c \in Calls : c # active => pc'[c] = pc[c]
      BY <1>a, <2>1, <2>2, SettledCall DEF TypeOK
    <3>2. QED BY <1>a, <2>1, <2>2, <3>1 DEF RequestInv, StartInv, Current, TypeOK
  <2>3. CASE /\ Settle({}, {}, {active}, "killWait") /\ Terminate
             /\ child # NoProc \/ stop # NoStop
    <3>1. pc'[active] = "killWait" /\ \A c \in Calls : c # active => pc'[c] = pc[c]
      BY <1>a, <2>1, <2>3, SettledCall DEF TypeOK, Waiting
    <3>2. starting.phase = "waitReady" => disposed
      BY <1>a, <2>1 DEF RequestInv, StartInv, Current
    <3>3. QED BY <2>1, <2>3, <3>1, <3>2, RequestFails
  <2>4. QED BY <1>16, <2>2, <2>3 DEF GraceExpires
<1>17. CASE ForceKill \/ GiveUp
  <2>1. stop # NoStop /\ stop' # NoStop
    <3>1. stop.phase \in {"term", "kill"} /\ stop'.phase \in {"kill", "reap"}
      BY <1>a, <1>17 DEF ForceKill, GiveUp, TypeOK, NoStop
    <3>2. QED BY <1>d, <3>1
  <2>2. /\ Quiet
        /\ UNCHANGED <<child, ready, stopping, starting, active, armed, disposed, shut, pc, ranIn, proc>>
    BY <1>17 DEF ForceKill, GiveUp, calls, bridges
  <2>3. QED BY <1>a, <2>1, <2>2, QuietCalls DEF RequestInv, StartInv, Current
<1>18. CASE Stopped
  <2>1. /\ Quiet /\ stop # NoStop /\ stop' = NoStop /\ proc[stop.of] = "gone"
        /\ UNCHANGED <<child, ready, stopping, active, armed, disposed, ranIn, proc>>
    BY <1>a, <1>d, <1>18 DEF Stopped, LifeInv, bridges
  <2>2. child = NoProc /\ ~ready /\ ~stopping /\ starting.phase # "waitReady"
    BY <1>a, <2>1 DEF TypeInv, LifeInv, StartInv, Running
  <2>3. active # NoCall => disposed
    BY <1>a, <2>2 DEF RequestInv, Current
  <2>4. shut'.phase # "no" => disposed
    BY <1>a, <1>18 DEF Stopped, StartInv
  <2>5. CASE starting.phase = "failing"
    <3>1. starting' = NoStart /\ Settle(At("killWait"), At("startWait") \cup At("stopWait"), {}, "idle")
      BY <1>18, <2>5 DEF Stopped
    <3>2. \A c \in Calls : pc'[c] = pc[c] \/ (pc'[c] \in {"lost", "refused"} /\ pc[c] # "requested")
      BY <1>a, <3>1, SettledCall DEF TypeOK, At
    <3>3. RequestInv'
      BY <1>a, <2>1, <2>3, <3>2, QuietCalls DEF RequestInv, TypeOK
    <3>4. QED BY <1>a, <1>d, <2>1, <2>2, <2>4, <3>1, <3>2, <3>3 DEF StartInv
  <2>6. CASE starting.phase # "failing"
    <3>1. /\ Settle(At("killWait"), {}, At("stopWait"), "startWait")
          /\ \/ starting' = starting
             \/ starting = NoStart /\ \E c \in At("stopWait") : starting' = [by |-> c, phase |-> "provision"]
      BY <1>18, <2>2, <2>6 DEF Stopped, Enter
    <3>2. \A c \in Calls : /\ pc[c] = "stopWait" => pc'[c] = "startWait"
                           /\ pc[c] = "killWait" => pc'[c] = "lost"
                           /\ pc[c] \notin {"stopWait", "killWait"} => pc'[c] = pc[c]
      BY <1>a, <3>1, SettledCall DEF TypeOK, At, Waiting
    <3>3. starting' # NoStart => pc'[starting'.by] = "startWait"
      BY <1>a, <3>1, <3>2 DEF StartInv, TypeOK, At
    <3>4. starting'.phase # "waitReady"
      BY <2>2, <3>1
    <3>5. RequestInv'
      BY <1>a, <2>1, <2>3, <3>2, QuietCalls DEF RequestInv, TypeOK
    <3>6. QED BY <1>a, <2>1, <2>2, <2>4, <3>2, <3>3, <3>4, <3>5 DEF StartInv
  <2>7. QED BY <2>5, <2>6
<1>19. CASE Shutdown
  <2>1. /\ Quiet /\ disposed' = TRUE /\ (active # NoCall => armed')
        /\ UNCHANGED <<child, active, pc, proc, ranIn>>
    BY <1>19 DEF Shutdown, Interrupt, calls
  <2>2. CASE starting.phase = "waitReady" /\ FailStartup /\ Terminate
    BY <2>1, <2>2, StartupFails
  <2>3. CASE UNCHANGED <<starting, stop, stopping, ready, doomed>>
    BY <1>a, <2>1, <2>3, QuietCalls DEF StartInv, RequestInv
  <2>4. QED BY <1>19, <2>2, <2>3 DEF Shutdown
<1>20. CASE ShutdownResume
  <2>1. /\ disposed /\ (child = NoProc => UNCHANGED stopping)
        /\ UNCHANGED <<child, ready, starting, active, armed, stop, disposed, pc, ranIn, proc>>
    BY <1>a, <1>20 DEF ShutdownResume, ShutdownResumes, StartInv, calls, bridges
  <2>2. QED BY <1>a, <2>1 DEF StartInv, RequestInv
<1>21. CASE ShutdownForce
  <2>1. /\ Quiet /\ disposed /\ UNCHANGED <<child, starting, active, armed, disposed, pc, proc>>
    BY <1>a, <1>21 DEF ShutdownForce, StartInv, calls
  <2>2. RequestInv'
    BY <1>a, <2>1, QuietCalls DEF RequestInv
  <2>3. CASE UNCHANGED <<stop, stopping, ready, doomed>>
    BY <1>a, <2>1, <2>2, <2>3 DEF StartInv
  <2>4. CASE Terminate /\ (child # NoProc \/ stop # NoStop)
    BY <1>a, <2>1, <2>2, <2>4, TerminateLost DEF StartInv
  <2>5. QED BY <1>21, <2>3, <2>4 DEF ShutdownForce
<1>22. QED
  BY <1>1, <1>2, <1>3, <1>4, <1>5, <1>6, <1>7, <1>8, <1>9, <1>10, <1>11, <1>12, <1>13, <1>14,
     <1>15, <1>16, <1>17, <1>18, <1>19, <1>20, <1>21
  DEF Next, Step, Line, Timer

\* A cell whose kernel is gone is rejected, or, after shutdown() was called, its grace timer runs:
\* it has no timeout of its own.
THEOREM LossCorrect == ASSUME Prompt PROVE Spec => []LostIsRejected
<1>1. LostInv => LostIsRejected
  <2>1. SUFFICES ASSUME LostInv, active \in Cells, proc[ranIn[active]] = "gone" PROVE armed
    BY DEF LostIsRejected
  <2>2. active # NoCall
    BY <2>1, CallAssumption DEF Calls
  <2>3. CASE disposed
    BY <2>1, <2>2, <2>3 DEF LostInv, RequestInv
  <2>4. CASE ~disposed
    <3>1. ready /\ child = ranIn[active]
      BY <2>1, <2>2, <2>4 DEF LostInv, RequestInv, Current
    <3>2. QED BY <2>1, <3>1 DEF LostInv, LifeInv, Running
  <2>5. QED BY <2>3, <2>4
<1>2. QED BY <1>1, InitLost, LostStep, PTL DEF Spec

(***************************************************************************)
(* The reset notice. Bridges are numbered in the order of their birth.     *)
(***************************************************************************)
Early == {"idle", "stopWait", "startWait", "started"}

BirthInv ==
  /\ \A p, q \in Procs : proc[p] = "unborn" /\ p < q => proc[q] = "unborn"
  /\ child # NoProc => \A q \in Procs : child < q => proc[q] = "unborn"
  /\ \A c \in Calls : ranIn[c] # NoProc => proc[ranIn[c]] # "unborn"
  /\ \A c \in Calls : took[c] # NoProc => proc[took[c]] # "unborn"
  /\ \A c \in Calls : pc[c] \in Early => took[c] = NoProc

\* The kernel that a cell ran in is the current one, or its loss is still to be said, or was said
\* to a cell that came to a later kernel.
SaidInv ==
  ~disposed =>
    \A c \in Cells : ranIn[c] # NoProc =>
      \/ ranIn[c] = child /\ Current
      \/ pendingResetNotice
      \/ \E e \in Cells : ranIn[c] < took[e]

HandedInv == LostInv /\ BirthInv /\ SaidInv /\ ResetHandedOut

LEMMA InitHanded == Init => HandedInv
<1> SUFFICES ASSUME Init PROVE HandedInv
  OBVIOUS
<1>1. BirthInv
  BY DEF Init, BirthInv
<1>2. SaidInv /\ ResetHandedOut
  BY DEF Init, SaidInv, ResetHandedOut, Calls
<1>3. QED BY <1>1, <1>2, InitLost DEF HandedInv

\* Nothing but the first step of a call, and the waits for a start, make a call early.
LEMMA SettleEarly ==
  ASSUME pc \in [Calls -> {"idle"} \cup Waiting \cup Final],
         NEW lost, NEW refused, NEW moved, NEW to \in {"idle"} \cup Waiting \cup Final,
         Settle(lost, refused, moved, to),
         to \notin Early \/ \A c \in moved : pc[c] \in Early
  PROVE  \A c \in Calls : pc'[c] \in Early => pc[c] \in Early
<1> SUFFICES ASSUME NEW c \in Calls, pc'[c] \in Early PROVE pc[c] \in Early
  OBVIOUS
<1>1. pc'[c] = CASE c \in lost -> "lost" [] c \in refused -> "refused" [] c \in moved -> to [] OTHER -> pc[c]
  BY DEF Settle
<1>2. CASE c \in lost /\ c \notin refused /\ c \notin moved
  BY <1>1, <1>2 DEF Early
<1>3. CASE c \in refused /\ c \notin lost /\ c \notin moved
  BY <1>1, <1>3 DEF Early
<1>4. CASE c \in moved /\ c \notin lost /\ c \notin refused
  BY <1>1, <1>4 DEF Early
<1>5. CASE c \notin lost /\ c \notin refused /\ c \notin moved
  BY <1>1, <1>5
<1>6. CASE c \in lost /\ c \in refused
  BY <1>1, <1>6 DEF Early
<1>7. CASE c \in lost /\ c \in moved
  BY <1>1, <1>7 DEF Early
<1>8. CASE c \in refused /\ c \in moved
  BY <1>1, <1>8 DEF Early
<1>9. QED BY <1>2, <1>3, <1>4, <1>5, <1>6, <1>7, <1>8

LEMMA RequestEarly ==
  ASSUME TypeOK, NEW c \in Calls, Request(c)
  PROVE  /\ \A d \in Calls : pc'[d] \in Early => pc[d] \in Early
         /\ pc'[c] \notin Early
<1>1. CASE Accepts(c)
  <2>1. Settle({}, {}, {c}, "requested")
    BY <1>1 DEF Request
  <2>2. QED BY <2>1, SettleEarly, SettledCall DEF TypeOK, Waiting, Early
<1>2. CASE ~Accepts(c)
  <2>1. Settle({}, {c}, {}, "idle")
    BY <1>2 DEF Request
  <2>2. QED BY <2>1, SettleEarly, SettledCall DEF TypeOK, Early
<1>3. QED BY <1>1, <1>2

LEMMA EarlyStep ==
  ASSUME HandedInv, [Next]_vars
  PROVE  \A c \in Calls : pc'[c] \in Early => pc[c] \in Early
<1>a. TypeOK
  BY DEF HandedInv, LostInv, TypeInv
<1>b. \A c \in At("startWait") \cup At("stopWait") : pc[c] \in Early
  BY DEF At, Early
<1>1. CASE UNCHANGED pc
  BY <1>1
<1>2. ASSUME NEW c \in Calls, CallStart(c) PROVE \A d \in Calls : pc'[d] \in Early => pc[d] \in Early
  <2>1. pc[c] \in Early
    BY <1>2 DEF CallStart, Early
  <2>2. \/ Settle({}, {c}, {}, "idle") \/ Settle({}, {}, {c}, "stopWait")
        \/ Settle({}, {}, {c}, "started") \/ Settle({}, {}, {c}, "startWait")
    BY <1>2 DEF CallStart, Start, Enter
  <2>3. CASE Settle({}, {c}, {}, "idle")
    BY <1>a, <2>3, SettleEarly DEF TypeOK
  <2>4. CASE \E to \in {"stopWait", "started", "startWait"} : Settle({}, {}, {c}, to)
    BY <1>a, <2>1, <2>4, SettleEarly DEF TypeOK, Waiting
  <2>5. QED BY <2>2, <2>3, <2>4
<1>3. ASSUME NEW c \in Calls, Request(c) PROVE \A d \in Calls : pc'[d] \in Early => pc[d] \in Early
  BY <1>a, <1>3, RequestEarly
<1>4. CASE \E lost, refused : Settle(lost, refused, {}, "idle")
  BY <1>a, <1>4, SettleEarly DEF TypeOK
<1>5. CASE \E c \in Calls \cup {NoCall}, to \in {"ok", "killWait"} : Settle({}, {}, {c}, to)
  BY <1>a, <1>5, SettleEarly DEF TypeOK, Waiting, Final, Early
<1>6. CASE Settle({}, {}, At("startWait"), "started")
  BY <1>a, <1>b, <1>6, SettleEarly DEF TypeOK, Waiting
<1>7. CASE Stopped
  <2>1. \/ Settle(At("killWait"), At("startWait") \cup At("stopWait"), {}, "idle")
        \/ Settle(At("killWait"), {}, At("stopWait"), "started")
        \/ Settle(At("killWait"), {}, At("stopWait"), "startWait")
    BY <1>7 DEF Stopped, Enter
  <2>2. CASE Settle(At("killWait"), {}, At("stopWait"), "started")
    BY <1>a, <1>b, <2>2, SettleEarly DEF TypeOK, Waiting
  <2>3. CASE Settle(At("killWait"), {}, At("stopWait"), "startWait")
    BY <1>a, <1>b, <2>3, SettleEarly DEF TypeOK, Waiting
  <2>4. QED BY <1>4, <2>1, <2>2, <2>3
<1>8. ASSUME NEW c \in Calls, Step(c) PROVE \A d \in Calls : pc'[d] \in Early => pc[d] \in Early
  BY <1>1, <1>2, <1>3, <1>4, <1>5, <1>8
  DEF Step, CallEvaluate, ExecuteStarted, EvaluateStarted, ViewerStarted, Cancel
<1>9. ASSUME NEW p \in Procs, Line(p) PROVE \A d \in Calls : pc'[d] \in Early => pc[d] \in Early
  <2>1. CASE ReadyLine(p)
    BY <1>1, <1>6, <2>1 DEF ReadyLine
  <2>2. CASE ResultLine(p) \/ BridgeErrorLine(p)
    BY <1>a, <1>1, <1>4, <1>5, <2>2 DEF ResultLine, BridgeErrorLine, TypeOK
  <2>3. CASE Close(p)
    BY <1>1, <1>4, <2>3 DEF Close
  <2>4. QED BY <1>9, <2>1, <2>2, <2>3 DEF Line
<1>10. CASE GraceExpires
  BY <1>a, <1>4, <1>5, <1>10 DEF GraceExpires, TypeOK
<1>11. CASE FailBeforeSpawn \/ BridgeFailure
  BY <1>4, <1>11 DEF FailBeforeSpawn, BridgeFailure
<1>12. QED
  BY <1>1, <1>7, <1>8, <1>9, <1>10, <1>11
  DEF Next, Timer, Spawn, StartupTimeout, Overrun, ForceKill, GiveUp, ShutdownForce, Shutdown,
      ShutdownResume, calls, vars

\* What a cell ran in and took stays, and a kernel that stops being current leaves its notice.
LEMMA SaidKept ==
  ASSUME HandedInv, disposed => disposed', pendingResetNotice => pendingResetNotice',
         \A c \in Cells : ranIn'[c] = ranIn[c] /\ took'[c] = took[c],
         Current /\ ~disposed' => pendingResetNotice' \/ (Current' /\ child' = child)
  PROVE  SaidInv' /\ ResetHandedOut'
<1>1. SaidInv'
  BY DEF HandedInv, SaidInv
<1>2. ResetHandedOut'
  BY DEF HandedInv, ResetHandedOut
<1>3. QED BY <1>1, <1>2

\* A bridge that was born stays so, and calls that ran or took something did so before.
LEMMA BirthKept ==
  ASSUME HandedInv, \A c \in Calls : pc'[c] \in Early => pc[c] \in Early,
         \A p \in Procs : proc'[p] = "unborn" <=> proc[p] = "unborn",
         child' \in {child, NoProc}, UNCHANGED <<ranIn, took>>
  PROVE  BirthInv'
<1>1. \A c \in Calls : ranIn[c] \in Procs \cup {NoProc} /\ took[c] \in Procs \cup {NoProc}
  BY DEF HandedInv, LostInv, TypeInv, TypeOK
<1>2. QED BY <1>1 DEF HandedInv, BirthInv

\* A request reaches the current bridge.
LEMMA RequestBirth ==
  ASSUME HandedInv, NEW c \in Calls, Request(c), UNCHANGED <<child, proc>>,
         took' = took \/ (child # NoProc /\ took' = [took EXCEPT ![c] = child])
  PROVE  BirthInv'
<1>1. TypeOK /\ BirthInv /\ LifeInv
  BY DEF HandedInv, LostInv, TypeInv
<1>2. child # NoProc => child \in Procs /\ proc[child] # "unborn"
  BY <1>1 DEF LifeInv, Running, TypeOK
<1>3. ranIn' = ranIn \/ (child # NoProc /\ ranIn' = [ranIn EXCEPT ![c] = child])
  BY DEF Request, Accepts
<1>4. \A d \in Calls : ranIn'[d] # NoProc => proc[ranIn'[d]] # "unborn"
  BY <1>1, <1>2, <1>3 DEF BirthInv, TypeOK
<1>5. \A d \in Calls : took'[d] # NoProc => proc[took'[d]] # "unborn"
  BY <1>1, <1>2 DEF BirthInv, TypeOK
<1>6. \A d \in Calls : pc'[d] \in Early => took'[d] = NoProc
  BY <1>1, RequestEarly DEF BirthInv, TypeOK
<1>7. QED BY <1>1, <1>4, <1>5, <1>6 DEF BirthInv

LEMMA BirthStep ==
  ASSUME HandedInv, [Next]_vars
  PROVE  BirthInv'
<1>a. TypeOK /\ BirthInv /\ LifeInv /\ RequestInv
  BY DEF HandedInv, LostInv, TypeInv
<1>b. \A c \in Calls : pc'[c] \in Early => pc[c] \in Early
  BY EarlyStep
<1>1. CASE UNCHANGED <<proc, ranIn, took>> /\ child' \in {child, NoProc}
  BY <1>1, <1>b, BirthKept
<1>2. ASSUME NEW c \in Calls, ExecuteStarted(c) PROVE BirthInv'
  <2>1. ready /\ child # NoProc /\ took[c] = NoProc
    BY <1>a, <1>2 DEF ExecuteStarted, RequestInv, LifeInv, BirthInv, Early
  <2>2. took' = took \/ took' = [took EXCEPT ![c] = child]
    BY <1>a, <1>2, <2>1 DEF ExecuteStarted, TypeOK
  <2>3. QED BY <1>2, <2>1, <2>2, RequestBirth DEF ExecuteStarted
<1>3. ASSUME NEW c \in Calls, EvaluateStarted(c) \/ CallEvaluate(c) PROVE BirthInv'
  BY <1>3, RequestBirth DEF EvaluateStarted, CallEvaluate
<1>4. CASE Spawn
  <2>1. PICK p \in Procs : /\ proc[p] = "unborn" /\ \A q \in Procs : proc[q] = "unborn" => p <= q
                           /\ child' = p /\ proc' = [proc EXCEPT ![p] = "boot"]
    BY <1>4 DEF Spawn
  <2>2. proc'[p] = "boot" /\ \A q \in Procs : q # p => proc'[q] = proc[q]
    BY <1>a, <2>1 DEF TypeOK
  <2>3. UNCHANGED <<ranIn, took>>
    BY <1>4 DEF Spawn, calls
  <2>4. \A q, r \in Procs : proc'[q] = "unborn" /\ q < r => proc'[r] = "unborn"
    BY <1>a, <2>1, <2>2, ProcType DEF BirthInv
  <2>5. \A q \in Procs : p < q => proc'[q] = "unborn"
    BY <1>a, <2>1, <2>2, ProcType DEF BirthInv
  <2>6. \A c \in Calls : ranIn[c] \in Procs \cup {NoProc} /\ took[c] \in Procs \cup {NoProc}
    BY <1>a DEF TypeOK
  <2>7. QED BY <1>a, <1>b, <2>1, <2>2, <2>3, <2>4, <2>5, <2>6 DEF BirthInv
<1>5. ASSUME NEW p \in Procs, ReadyLine(p) PROVE BirthInv'
  <2>1. proc[p] = "boot" /\ proc' = [proc EXCEPT ![p] = "up"] /\ UNCHANGED <<child, ranIn, took>>
    BY <1>5 DEF ReadyLine
  <2>2. \A q \in Procs : proc'[q] = "unborn" <=> proc[q] = "unborn"
    BY <1>a, <2>1 DEF TypeOK
  <2>3. QED BY <1>b, <2>1, <2>2, BirthKept
<1>6. ASSUME NEW p \in Procs, Close(p) PROVE BirthInv'
  <2>1. /\ proc[p] \in Running /\ proc' = [proc EXCEPT ![p] = "gone"] /\ UNCHANGED <<ranIn, took>>
        /\ child' \in {child, NoProc}
    BY <1>6 DEF Close
  <2>2. \A q \in Procs : proc'[q] = "unborn" <=> proc[q] = "unborn"
    BY <1>a, <2>1 DEF TypeOK, Running
  <2>3. QED BY <1>b, <2>1, <2>2, BirthKept
<1>7. ASSUME NEW p \in Procs, ResultLine(p) \/ BridgeErrorLine(p) PROVE BirthInv'
  BY <1>1, <1>7 DEF ResultLine, BridgeErrorLine
<1>8. ASSUME NEW c \in Calls, CallStart(c) \/ ViewerStarted(c) \/ Cancel(c) PROVE BirthInv'
  BY <1>1, <1>8 DEF CallStart, ViewerStarted, Cancel, runtime, bridges
<1>9. CASE FailBeforeSpawn \/ BridgeFailure \/ Timer \/ Shutdown \/ ShutdownResume \/ UNCHANGED vars
  BY <1>1, <1>9
  DEF FailBeforeSpawn, BridgeFailure, Timer, StartupTimeout, Overrun, GraceExpires, ForceKill, GiveUp,
      Stopped, ShutdownForce, Shutdown, ShutdownResume, vars, runtime, calls, bridges
<1>10. QED BY <1>2, <1>3, <1>4, <1>5, <1>6, <1>7, <1>8, <1>9 DEF Next, Step, Line

\* A cell that takes the notice names all kernels before its own.
LEMMA ExecuteSaid ==
  ASSUME HandedInv, NEW c \in Calls, ExecuteStarted(c)
  PROVE  SaidInv' /\ ResetHandedOut'
<1>a. TypeOK /\ BirthInv /\ LifeInv /\ RequestInv /\ SaidInv /\ ResetHandedOut
  BY DEF HandedInv, LostInv, TypeInv
<1>b. Procs \subseteq Nat /\ NoProc = 0 /\ Cells \subseteq Calls /\ 0 \notin Procs
  BY ProcType DEF NoProc, Calls
<1>1. /\ c \in Cells /\ ready /\ child \in Procs /\ took[c] = NoProc /\ (~disposed => Current)
      /\ UNCHANGED <<child, ready, stopping, stop, disposed>>
  BY <1>a DEF ExecuteStarted, RequestInv, LifeInv, BirthInv, Early, TypeOK
<1>2. /\ took'[c] = IF pendingResetNotice THEN child ELSE NoProc
      /\ \A d \in Cells : d # c => took'[d] = took[d]
  BY <1>a, <1>b, <1>1 DEF ExecuteStarted, TypeOK
<1>3. /\ \A d \in Cells : d # c => ranIn'[d] = ranIn[d]
      /\ ranIn'[c] = ranIn[c] \/ (ranIn'[c] = child /\ ~disposed)
  BY <1>a, <1>b, <1>1 DEF ExecuteStarted, Request, Accepts, OperationAborted, TypeOK
<1>c. child \in Nat /\ child # 0
  BY <1>b, <1>1
<1>4. \A d \in Cells : /\ ranIn[d] \in Nat /\ took[d] \in Nat
                       /\ ranIn[d] <= child /\ took[d] <= child
  <2>1. SUFFICES ASSUME NEW d \in Cells
                 PROVE  ranIn[d] \in Nat /\ took[d] \in Nat /\ ranIn[d] <= child /\ took[d] <= child
    OBVIOUS
  <2>2. ranIn[d] \in Procs \cup {0} /\ took[d] \in Procs \cup {0}
    BY <1>a, <1>b DEF TypeOK
  <2>3. \A p \in Procs : proc[p] # "unborn" => p \in Nat /\ p <= child
    <3>1. \A p \in Procs : child < p => proc[p] = "unborn"
      BY <1>a, <1>b, <1>c DEF BirthInv
    <3>2. \A p \in Procs : p \in Nat
      BY <1>b
    <3>3. QED BY <1>c, <3>1, <3>2
  <2>4. ranIn[d] # 0 => ranIn[d] \in Nat /\ ranIn[d] <= child
    BY <1>a, <1>b, <2>2, <2>3 DEF BirthInv
  <2>5. took[d] # 0 => took[d] \in Nat /\ took[d] <= child
    BY <1>a, <1>b, <2>2, <2>3 DEF BirthInv
  <2>6. QED BY <1>c, <2>4, <2>5
\* A cell that took a notice earlier is not c.
<1>5. \A d, e \in Cells : ranIn[d] < took[e] => took'[e] = took[e]
  <2>1. SUFFICES ASSUME NEW d \in Cells, NEW e \in Cells, ranIn[d] < took[e], e = c PROVE FALSE
    BY <1>2
  <2>2. ranIn[d] \in Nat /\ took[e] = 0
    BY <1>b, <1>1, <1>4, <2>1
  <2>3. QED BY <2>1, <2>2
\* For all kernels before this one, some cell has taken the notice now.
<1>6. \A d \in Cells : ~disposed /\ ranIn[d] # NoProc /\ ranIn[d] < child
        => \E e \in Cells : ranIn[d] < took'[e] /\ took'[e] <= child
  <2>1. SUFFICES ASSUME NEW d \in Cells, ~disposed, ranIn[d] # NoProc, ranIn[d] < child
                 PROVE  \E e \in Cells : ranIn[d] < took'[e] /\ took'[e] <= child
    OBVIOUS
  <2>2. CASE pendingResetNotice
    <3>1. took'[c] = child
      BY <1>2, <2>2
    <3>2. QED BY <1>c, <1>1, <2>1, <3>1
  <2>3. CASE \E e \in Cells : ranIn[d] < took[e]
    <3>1. PICK e \in Cells : ranIn[d] < took[e]
      BY <2>3
    <3>2. took'[e] = took[e] /\ took[e] <= child
      BY <1>4, <1>5, <3>1
    <3>3. QED BY <3>1, <3>2
  <2>4. ranIn[d] # child
    BY <1>c, <2>1
  <2>5. QED BY <1>a, <2>1, <2>2, <2>3, <2>4 DEF SaidInv
<1>7. SaidInv'
  <2>1. SUFFICES ASSUME ~disposed, NEW d \in Cells, ranIn'[d] # NoProc, ~(ranIn'[d] = child /\ Current')
                 PROVE  \E e \in Cells : ranIn'[d] < took'[e]
    BY <1>1 DEF SaidInv
  <2>2. Current'
    BY <1>1, <2>1 DEF Current
  <2>3. ranIn'[d] = ranIn[d]
    BY <1>1, <1>3, <2>1, <2>2
  <2>4. ranIn[d] < child
    BY <1>c, <1>1, <1>4, <2>1, <2>2, <2>3
  <2>5. QED BY <1>6, <2>1, <2>3, <2>4
<1>8. ResetHandedOut'
  <2>1. SUFFICES ASSUME NEW d \in Cells, NEW f \in Cells, ranIn'[d] # NoProc, ranIn'[d] < ranIn'[f]
                 PROVE  \E e \in Cells : ranIn'[d] < took'[e] /\ took'[e] <= ranIn'[f]
    BY DEF ResetHandedOut
  <2>2. ranIn'[f] \in Nat /\ ranIn'[f] <= child
    <3>1. CASE ranIn'[f] = ranIn[f]
      BY <1>4, <3>1
    <3>2. CASE ranIn'[f] = child
      BY <1>c, <3>2
    <3>3. QED BY <1>3, <3>1, <3>2
  <2>3. ranIn'[d] = ranIn[d]
    <3>1. ranIn'[d] # child
      BY <1>c, <2>1, <2>2
    <3>2. QED BY <1>3, <3>1
  <2>4. CASE ranIn'[f] = ranIn[f]
    <3>1. PICK e \in Cells : ranIn[d] < took[e] /\ took[e] <= ranIn[f]
      BY <1>a, <2>1, <2>3, <2>4 DEF ResetHandedOut
    <3>2. QED BY <1>5, <2>1, <2>3, <2>4, <3>1
  <2>5. CASE ranIn'[f] = child /\ ~disposed
    BY <1>6, <2>1, <2>3, <2>5
  <2>6. QED BY <1>3, <2>4, <2>5
<1>9. QED BY <1>7, <1>8

LEMMA SaidStep ==
  ASSUME HandedInv, [Next]_vars
  PROVE  SaidInv' /\ ResetHandedOut'
<1>a. TypeOK /\ LifeInv /\ StartInv /\ RequestInv
  BY DEF HandedInv, LostInv, TypeInv
<1>b. Cells \subseteq Calls /\ NoStop.phase = "none"
  BY DEF Calls, NoStop
<1>1. CASE UNCHANGED <<ranIn, took, disposed, pendingResetNotice, child, ready, stopping, stop>>
  BY <1>1, SaidKept DEF Current
<1>2. CASE ~Current /\ UNCHANGED <<ranIn, took, disposed, pendingResetNotice>>
  BY <1>2, SaidKept
<1>3. CASE /\ UNCHANGED <<ranIn, took>> /\ (disposed => disposed')
           /\ pendingResetNotice => pendingResetNotice'
           /\ pendingResetNotice' \/ disposed'
  BY <1>3, SaidKept
<1>4. ASSUME NEW c \in Calls, ExecuteStarted(c) PROVE SaidInv' /\ ResetHandedOut'
  BY <1>4, ExecuteSaid
<1>5. ASSUME NEW c \in Calls, EvaluateStarted(c) \/ CallEvaluate(c) PROVE SaidInv' /\ ResetHandedOut'
  <2>1. /\ Request(c) /\ c \notin Cells
        /\ UNCHANGED <<took, disposed, pendingResetNotice, child, ready, stopping, stop>>
    BY <1>5, CallAssumption DEF EvaluateStarted, CallEvaluate
  <2>2. \A d \in Cells : ranIn'[d] = ranIn[d] /\ took'[d] = took[d]
    BY <1>a, <1>b, <2>1 DEF Request, TypeOK
  <2>3. QED BY <2>1, <2>2, SaidKept DEF Current
<1>6. CASE Spawn
  BY <1>a, <1>2, <1>6 DEF Spawn, LifeInv, Current, calls
<1>7. CASE StartupTimeout
  BY <1>a, <1>2, <1>7 DEF StartupTimeout, StartInv, Current, calls
<1>8. ASSUME NEW c \in Calls, Cancel(c) PROVE SaidInv' /\ ResetHandedOut'
  BY <1>a, <1>1, <1>2, <1>8 DEF Cancel, StartInv, Current
<1>9. ASSUME NEW c \in Calls, CallStart(c) \/ ViewerStarted(c) PROVE SaidInv' /\ ResetHandedOut'
  BY <1>1, <1>9 DEF CallStart, ViewerStarted, runtime
<1>10. ASSUME NEW p \in Procs, ReadyLine(p) PROVE SaidInv' /\ ResetHandedOut'
  <2>1. child = p /\ proc[p] = "boot" /\ child # NoProc
    BY <1>a, <1>10, ProcType DEF ReadyLine, LifeInv, Running
  <2>2. ~Current
    BY <1>a, <2>1 DEF StartInv, LifeInv, Current
  <2>3. QED BY <1>2, <1>10, <2>2 DEF ReadyLine
<1>11. ASSUME NEW p \in Procs, ResultLine(p) \/ BridgeErrorLine(p) PROVE SaidInv' /\ ResetHandedOut'
  BY <1>1, <1>3, <1>11 DEF ResultLine, BridgeErrorLine
<1>12. ASSUME NEW p \in Procs, Close(p) PROVE SaidInv' /\ ResetHandedOut'
  <2>1. /\ child = p /\ UNCHANGED <<ranIn, took, disposed>>
        /\ pendingResetNotice' = (pendingResetNotice \/ LosesState)
    BY <1>a, <1>12 DEF Close, LifeInv
  <2>2. Current => LosesState
    BY DEF Current, LosesState
  <2>3. QED BY <2>1, <2>2, SaidKept
<1>13. CASE BridgeFailure
  <2>1. /\ UNCHANGED <<ranIn, took, disposed>>
        /\ pendingResetNotice' = (pendingResetNotice \/ ready)
    BY <1>13 DEF BridgeFailure
  <2>2. QED BY <2>1, SaidKept DEF Current
<1>14. CASE FailBeforeSpawn \/ Overrun \/ UNCHANGED vars
  BY <1>1, <1>14 DEF FailBeforeSpawn, Overrun, vars, runtime, calls
<1>15. CASE GraceExpires \/ Shutdown
  BY <1>3, <1>15 DEF GraceExpires, Shutdown, calls
<1>16. CASE ForceKill \/ GiveUp \/ Stopped
  <2>1. stop # NoStop
    BY <1>b, <1>16 DEF ForceKill, GiveUp, Stopped
  <2>2. QED BY <1>2, <1>16, <2>1 DEF ForceKill, GiveUp, Stopped, Current, calls
<1>17. CASE ShutdownResume \/ ShutdownForce
  <2>1. disposed
    BY <1>a, <1>17 DEF ShutdownResume, ShutdownResumes, ShutdownForce, StartInv
  <2>2. QED BY <1>3, <1>17, <2>1 DEF ShutdownResume, ShutdownForce, calls
<1>18. QED
  BY <1>4, <1>5, <1>6, <1>7, <1>8, <1>9, <1>10, <1>11, <1>12, <1>13, <1>14, <1>15, <1>16, <1>17
  DEF Next, Step, Line, Timer

\* Whenever cells ran in two kernels, some cell took the notice of the first one's loss before the
\* second ran anything: the result of that cell says that the state is gone.
THEOREM ResetCorrect == ASSUME Prompt PROVE Spec => []ResetHandedOut
<1>1. HandedInv /\ [Next]_vars => HandedInv'
  BY LostStep, BirthStep, SaidStep DEF HandedInv
<1>2. HandedInv => ResetHandedOut
  BY DEF HandedInv
<1>3. QED BY <1>1, <1>2, InitHanded, PTL DEF Spec

-----------------------------------------------------------------------------
(***************************************************************************)
(* The promise of KernelService.                                           *)
(***************************************************************************)

(***************************************************************************)
(* One request is in flight, of the present generation, and no kernel      *)
(* starts meanwhile: also after shutdown(), when the bridge may be gone.   *)
(***************************************************************************)
CalmInv ==
  /\ \A c \in Calls : pc[c] = "requested" => active = c
  /\ \A c \in Calls : pc[c] = "stopWait" => stop # NoStop
  /\ \A c \in Calls : pc[c] = "startWait" => starting # NoStart
  /\ ready => generation > 0
  /\ active # NoCall =>
        /\ ranAt[active] = generation
        /\ starting = NoStart
        /\ \A c \in Calls : pc[c] \notin {"stopWait", "startWait"}

ServedInv == LostInv /\ CalmInv

LEMMA InitServed == Init => ServedInv
<1> SUFFICES ASSUME Init PROVE ServedInv
  OBVIOUS
<1>1. CalmInv
  BY DEF Init, CalmInv
<1>2. QED BY <1>1, InitLost DEF ServedInv

\* What Settle() makes of a call, whatever sets it is in.
LEMMA SettleSome ==
  ASSUME NEW lost, NEW refused, NEW moved, NEW to, Settle(lost, refused, moved, to)
  PROVE  \A c \in Calls :
           \/ c \in lost /\ pc'[c] = "lost"
           \/ c \in refused /\ pc'[c] = "refused"
           \/ c \in moved /\ pc'[c] = to
           \/ c \notin lost \cup refused \cup moved /\ pc'[c] = pc[c]
<1> SUFFICES ASSUME NEW c \in Calls
             PROVE  \/ c \in lost /\ pc'[c] = "lost"
                    \/ c \in refused /\ pc'[c] = "refused"
                    \/ c \in moved /\ pc'[c] = to
                    \/ c \notin lost \cup refused \cup moved /\ pc'[c] = pc[c]
  OBVIOUS
<1>1. pc'[c] = CASE c \in lost -> "lost" [] c \in refused -> "refused" [] c \in moved -> to [] OTHER -> pc[c]
  BY DEF Settle
<1>2. CASE c \in lost
  BY <1>1, <1>2
<1>3. CASE c \notin lost /\ c \in refused
  BY <1>1, <1>3
<1>4. CASE c \notin lost /\ c \notin refused /\ c \in moved
  BY <1>1, <1>4
<1>5. CASE c \notin lost /\ c \notin refused /\ c \notin moved
  BY <1>1, <1>5
<1>6. QED BY <1>2, <1>3, <1>4, <1>5

\* A step that leaves the generation, sends nothing and makes no call wait for a start.
LEMMA CalmKept ==
  ASSUME ServedInv,
         \A c \in Calls : pc'[c] \in {"requested", "stopWait", "startWait"} => pc'[c] = pc[c],
         active' = active \/ (active' = NoCall /\ (active # NoCall => pc'[active] # "requested")),
         stop' # NoStop \/ stop = NoStop \/ \A c \in Calls : pc'[c] # "stopWait",
         \/ starting' = starting
         \/ starting # NoStart /\ (starting' # NoStart \/ \A c \in Calls : pc'[c] # "startWait"),
         ready' => ready,
         UNCHANGED <<generation, ranAt>>
  PROVE  CalmInv'
<1>1. CalmInv
  BY DEF ServedInv
<1>2. \A c \in Calls : pc'[c] = "requested" => active' = c
  BY <1>1 DEF CalmInv
<1>3. \A c \in Calls : /\ pc'[c] = "stopWait" => stop' # NoStop
                       /\ pc'[c] = "startWait" => starting' # NoStart
  BY <1>1 DEF CalmInv
<1>4. active' # NoCall => /\ ranAt'[active'] = generation' /\ starting' = NoStart
                          /\ \A c \in Calls : pc'[c] \notin {"stopWait", "startWait"}
  BY <1>1 DEF CalmInv
<1>5. QED BY <1>1, <1>2, <1>3, <1>4 DEF CalmInv

\* While the current kernel takes requests and nobody stops it, no call waits for a start.
LEMMA CurrentCalm ==
  ASSUME ServedInv, Current
  PROVE  starting = NoStart /\ \A c \in Calls : pc[c] \notin {"stopWait", "startWait"}
<1>a. TypeOK /\ LifeInv /\ StartInv /\ CalmInv
  BY DEF ServedInv, LostInv, TypeInv
<1>1. starting = NoStart
  BY <1>a DEF Current, LifeInv, StartInv, TypeOK
<1>2. QED BY <1>a, <1>1 DEF Current, CalmInv

\* While a request is in flight nothing waits for a start, and a call that comes is not made to.
LEMMA RequestCalm ==
  ASSUME ServedInv, NEW c \in Calls, Request(c), Accepts(c) => Current,
         UNCHANGED <<child, ready, generation, starting, stop>>
  PROVE  CalmInv'
<1>a. TypeOK /\ CalmInv /\ NoCall \notin Calls
  BY CallAssumption DEF ServedInv, LostInv, TypeInv
<1>1. CASE ~Accepts(c)
  <2>1. Settle({}, {c}, {}, "idle") /\ UNCHANGED <<active, ranAt>>
    BY <1>1 DEF Request
  <2>2. QED BY <2>1, SettleSome, CalmKept
<1>2. CASE Accepts(c)
  <2>1. /\ Settle({}, {}, {c}, "requested") /\ active' = c /\ active = NoCall /\ ready
        /\ ranAt' = [ranAt EXCEPT ![c] = generation]
    BY <1>2 DEF Request, Accepts
  <2>2. \A d \in Calls : d # c => pc'[d] = pc[d]
    BY <2>1, SettleSome
  <2>3. pc'[c] = "requested"
    BY <2>1, SettleSome
  <2>4. starting = NoStart /\ \A d \in Calls : pc[d] \notin {"stopWait", "startWait"}
    BY <1>2, CurrentCalm
  <2>5. ranAt'[c] = generation
    BY <1>a, <2>1 DEF TypeOK
  <2>6. QED BY <1>a, <2>1, <2>2, <2>3, <2>4, <2>5 DEF CalmInv
<1>3. QED BY <1>1, <1>2

LEMMA TerminateKeeps ==
  ASSUME Terminate, child # NoProc \/ stop # NoStop
  PROVE  stop' # NoStop /\ (ready' => ready)
  BY TerminateLost

LEMMA FailStartupKeeps ==
  ASSUME TypeOK, FailStartup
  PROVE  starting' = starting \/ (starting # NoStart /\ starting' # NoStart)
  BY DEF FailStartup, TypeOK, NoStart

LEMMA CalmStep ==
  ASSUME ServedInv, [Next]_vars
  PROVE  CalmInv'
<1>a. TypeOK /\ LifeInv /\ RequestInv /\ StartInv /\ CalmInv /\ NoCall \notin Calls
  BY CallAssumption DEF ServedInv, LostInv, TypeInv
<1>b. NoStart.phase = "none" /\ NoStop.phase = "none"
  BY DEF NoStart, NoStop
<1>c. starting.phase = "waitReady" => child # NoProc
  BY DEF ServedInv, LostInv, TypeInv
<1>1. ASSUME NEW c \in Calls, CallStart(c) PROVE CalmInv'
  <2>1. pc[c] = "idle" /\ Start(c) /\ UNCHANGED <<ready, generation, active, stop, disposed, ranAt, child>>
    BY <1>1 DEF CallStart
  <2>2. CASE Settle({}, {c}, {}, "idle") /\ UNCHANGED starting
    BY <2>1, <2>2, SettleSome, CalmKept
  <2>3. CASE Settle({}, {}, {c}, "started") /\ UNCHANGED starting
    BY <2>1, <2>3, SettleSome, CalmKept
  <2>4. CASE ~disposed /\ stop # NoStop /\ Settle({}, {}, {c}, "stopWait") /\ UNCHANGED starting
    <3>1. active = NoCall
      BY <1>a, <2>4 DEF RequestInv, Current
    <3>2. \A d \in Calls : d # c => pc'[d] = pc[d]
      BY <2>4, SettleSome
    <3>3. pc'[c] = "stopWait"
      BY <2>4, SettleSome
    <3>4. QED BY <1>a, <2>1, <2>4, <3>1, <3>2, <3>3 DEF CalmInv
  <2>5. CASE ~disposed /\ ~(child # NoProc /\ ready) /\ Enter({c}, {}, {})
    <3>1. active = NoCall
      BY <1>a, <2>5 DEF RequestInv, Current, LifeInv
    <3>2. Settle({}, {}, {c}, "startWait") /\ starting' # NoStart
      BY <1>b, <2>5 DEF Enter
    <3>3. \A d \in Calls : d # c => pc'[d] = pc[d]
      BY <3>2, SettleSome
    <3>4. pc'[c] = "startWait"
      BY <3>2, SettleSome
    <3>5. QED BY <1>a, <2>1, <3>1, <3>2, <3>3, <3>4 DEF CalmInv
  <2>6. QED BY <2>1, <2>2, <2>3, <2>4, <2>5 DEF Start, Enter
<1>2. ASSUME NEW c \in Calls, ExecuteStarted(c) \/ EvaluateStarted(c) PROVE CalmInv'
  <2>1. /\ Request(c) /\ pc[c] = "started"
        /\ UNCHANGED <<child, ready, generation, starting, stop>>
    BY <1>2 DEF ExecuteStarted, EvaluateStarted
  <2>2. Accepts(c) => Current
    BY <1>a, <2>1 DEF Accepts, OperationAborted, RequestInv
  <2>3. QED BY <2>1, <2>2, RequestCalm
<1>3. ASSUME NEW c \in Calls, CallEvaluate(c) PROVE CalmInv'
  <2>1. /\ Request(c) /\ c \in Evals /\ QueueFree
        /\ UNCHANGED <<child, ready, generation, starting, stop>>
    BY <1>3 DEF CallEvaluate
  <2>2. Accepts(c) => Current
    <3>1. SUFFICES ASSUME ready, ~disposed PROVE Current
      BY DEF Accepts, OperationAborted
    <3>2. starting = NoStart
      <4>1. SUFFICES ASSUME starting # NoStart PROVE FALSE
        OBVIOUS
      <4>2. starting.by \in Calls /\ pc[starting.by] = "startWait"
        BY <1>a, <4>1 DEF StartInv, TypeOK
      <4>3. starting.by \in Syncs
        BY <1>a, <2>1, <4>2 DEF StartInv
      <4>4. QED BY <2>1, <4>2, <4>3 DEF QueueFree, Final
    <3>3. stop = NoStop
      BY <1>a, <1>b, <3>1, <3>2 DEF StartInv
    <3>4. QED BY <1>a, <3>1, <3>3 DEF StartInv, Current
  <2>3. QED BY <2>1, <2>2, RequestCalm
<1>4. ASSUME NEW c \in Calls, ViewerStarted(c) PROVE CalmInv'
  <2>1. /\ Settle({}, {}, {c}, "ok") \/ Settle({}, {c}, {}, "idle")
        /\ UNCHANGED <<ready, generation, active, stop, starting, ranAt>>
    BY <1>4 DEF ViewerStarted, runtime
  <2>2. QED BY <2>1, SettleSome, CalmKept
<1>5. ASSUME NEW c \in Calls, Cancel(c) PROVE CalmInv'
  <2>1. UNCHANGED <<generation, active, pc, ranAt>>
    BY <1>5 DEF Cancel
  <2>2. CASE UNCHANGED <<starting, stop, stopping, ready, doomed>>
    BY <2>1, <2>2, CalmKept
  <2>3. CASE starting.phase = "waitReady" /\ FailStartup /\ Terminate
    <3>1. stop' # NoStop /\ (ready' => ready)
      BY <1>c, <2>3, TerminateKeeps
    <3>2. starting' = starting \/ (starting # NoStart /\ starting' # NoStart)
      BY <1>a, <2>3, FailStartupKeeps
    <3>3. QED BY <2>1, <3>1, <3>2, CalmKept
  <2>4. QED BY <1>5, <2>2, <2>3 DEF Cancel
<1>6. CASE Spawn
  <2>1. /\ starting # NoStart /\ starting'.phase = "waitReady" /\ ready' = FALSE
        /\ UNCHANGED <<generation, active, stop, pc, ranAt>>
    BY <1>a, <1>b, <1>6 DEF Spawn, calls, TypeOK
  <2>2. starting' # NoStart
    BY <1>b, <2>1
  <2>3. QED BY <2>1, <2>2, CalmKept
<1>7. CASE FailBeforeSpawn
  <2>1. /\ starting # NoStart /\ Settle({}, At("startWait"), {}, "idle")
        /\ UNCHANGED <<ready, generation, active, stop, ranAt>>
    BY <1>b, <1>7 DEF FailBeforeSpawn
  <2>2. \A c \in Calls : pc'[c] # "startWait"
    BY <2>1, SettleSome DEF At
  <2>3. QED BY <2>1, <2>2, SettleSome, CalmKept
<1>8. CASE StartupTimeout
  <2>1. FailStartup /\ Terminate /\ child # NoProc /\ UNCHANGED <<generation, active, pc, ranAt>>
    BY <1>c, <1>8 DEF StartupTimeout, calls
  <2>2. QED BY <1>a, <2>1, TerminateKeeps, FailStartupKeeps, CalmKept
<1>9. CASE BridgeFailure
  <2>1. /\ FailStartup /\ Terminate /\ child # NoProc /\ active' = NoCall
        /\ Settle({active}, {}, {}, "idle") /\ UNCHANGED <<generation, ranAt>>
    BY <1>9 DEF BridgeFailure, FailActive
  <2>2. /\ \A c \in Calls : pc'[c] \in {"requested", "stopWait", "startWait"} => pc'[c] = pc[c]
        /\ active # NoCall => pc'[active] # "requested"
    BY <1>a, <2>1, SettleSome DEF TypeOK
  <2>3. QED BY <1>a, <2>1, <2>2, TerminateKeeps, FailStartupKeeps, CalmKept
<1>10. ASSUME NEW p \in Procs, ReadyLine(p) PROVE CalmInv'
  <2>1. /\ child = p /\ proc[child] = "boot" /\ child # NoProc
        /\ ready' = TRUE /\ generation' = generation + 1
        /\ UNCHANGED <<active, stop, ranAt>>
        /\ \/ starting' = NoStart /\ Settle({}, {}, At("startWait"), "started")
           \/ UNCHANGED <<starting, pc>>
    BY <1>a, <1>10, ProcType DEF ReadyLine, LifeInv, Running
  <2>2. active = NoCall
    BY <1>a, <1>b, <2>1 DEF CalmInv, StartInv
  <2>3. generation' > 0
    BY <1>a, <2>1 DEF TypeOK
  <2>4. CASE starting' = NoStart /\ Settle({}, {}, At("startWait"), "started")
    <3>1. /\ \A c \in Calls : pc'[c] # "startWait"
          /\ \A c \in Calls : pc'[c] \in {"requested", "stopWait"} => pc'[c] = pc[c]
      BY <2>4, SettleSome DEF At
    <3>2. QED BY <1>a, <2>1, <2>2, <2>3, <3>1 DEF CalmInv
  <2>5. CASE UNCHANGED <<starting, pc>>
    BY <1>a, <2>1, <2>2, <2>3, <2>5 DEF CalmInv
  <2>6. QED BY <2>1, <2>4, <2>5
<1>11. ASSUME NEW p \in Procs, ResultLine(p) PROVE CalmInv'
  <2>1. UNCHANGED <<ready, generation, stop, starting, ranAt>>
    BY <1>11 DEF ResultLine
  <2>2. CASE UNCHANGED <<active, pc>>
    BY <2>1, <2>2, CalmKept
  <2>3. CASE active' = NoCall /\ Settle({}, {}, {active}, "ok")
    <3>1. /\ \A c \in Calls : pc'[c] \in {"requested", "stopWait", "startWait"} => pc'[c] = pc[c]
          /\ active # NoCall => pc'[active] # "requested"
      BY <1>a, <2>3, SettleSome DEF TypeOK
    <3>2. QED BY <2>1, <2>3, <3>1, CalmKept
  <2>4. QED BY <1>11, <2>2, <2>3 DEF ResultLine, FailActive
<1>12. ASSUME NEW p \in Procs, BridgeErrorLine(p) PROVE CalmInv'
  <2>1. UNCHANGED <<generation, starting, ranAt>> /\ child # NoProc
    BY <1>12, ProcType DEF BridgeErrorLine
  <2>2. CASE UNCHANGED <<active, pc, stop, ready>>
    BY <2>1, <2>2, CalmKept
  <2>3. CASE active' = NoCall /\ Settle({active}, {}, {}, "idle") /\ Terminate
    <3>1. /\ \A c \in Calls : pc'[c] \in {"requested", "stopWait", "startWait"} => pc'[c] = pc[c]
          /\ active # NoCall => pc'[active] # "requested"
      BY <1>a, <2>3, SettleSome DEF TypeOK
    <3>2. QED BY <2>1, <2>3, <3>1, TerminateKeeps, CalmKept
  <2>4. QED BY <1>12, <2>2, <2>3 DEF BridgeErrorLine, FailActive
<1>13. ASSUME NEW p \in Procs, Close(p) PROVE CalmInv'
  <2>1. child = p /\ ready' = FALSE /\ UNCHANGED <<generation, ranAt>>
    BY <1>a, <1>13 DEF Close, LifeInv
  <2>2. PICK settled \in BOOLEAN :
          /\ IF settled THEN starting.phase = "waitReady" /\ starting' = NoStart ELSE FailStartup
          /\ Settle(IF LosesRequest THEN {active} ELSE {},
                    IF settled THEN At("startWait") ELSE {}, {}, "idle")
    BY <1>13, <2>1 DEF Close
  <2>3. IF LosesRequest THEN active' = NoCall ELSE active' = active
    BY <1>13, <2>1 DEF Close, FailActive
  <2>4. stop' # NoStop \/ stop = NoStop
    <3>1. stop' = stop \/ (stop # NoStop /\ stop' = [stop EXCEPT !.phase = "reap"])
      BY <1>b, <1>13 DEF Close
    <3>2. stop' = stop \/ stop'.phase = "reap"
      BY <1>a, <3>1 DEF TypeOK
    <3>3. QED BY <1>b, <3>2
  <2>5. \A c \in Calls : pc'[c] \in {"requested", "stopWait", "startWait"} => pc'[c] = pc[c]
    BY <2>2, SettleSome
  <2>6. LosesRequest /\ active # NoCall => pc'[active] # "requested"
    BY <1>a, <2>2, SettleSome DEF TypeOK
  <2>7. \/ starting' = starting
        \/ starting # NoStart /\ (starting' # NoStart \/ \A c \in Calls : pc'[c] # "startWait")
    <3>1. CASE settled
      <4>1. \A c \in Calls : pc'[c] # "startWait"
        BY <2>2, <3>1, SettleSome DEF At
      <4>2. QED BY <1>b, <2>2, <3>1, <4>1
    <3>2. CASE ~settled
      BY <1>a, <2>2, <3>2, FailStartupKeeps
    <3>3. QED BY <3>1, <3>2
  <2>8. QED BY <2>1, <2>3, <2>4, <2>5, <2>6, <2>7, CalmKept
<1>14. CASE GraceExpires
  <2>1. /\ active # NoCall /\ active' = NoCall /\ UNCHANGED <<generation, starting, ranAt>>
        /\ Settle({active}, {}, {}, "idle") \/ Settle({}, {}, {active}, "killWait")
        /\ \/ UNCHANGED <<stop, ready>>
           \/ Terminate /\ (child # NoProc \/ stop # NoStop)
    BY <1>14 DEF GraceExpires, FailActive
  <2>2. /\ \A c \in Calls : pc'[c] \in {"requested", "stopWait", "startWait"} => pc'[c] = pc[c]
        /\ pc'[active] # "requested"
    BY <1>a, <2>1, SettleSome DEF TypeOK
  <2>3. QED BY <2>1, <2>2, TerminateKeeps, CalmKept
<1>15. CASE Overrun \/ ShutdownResume \/ UNCHANGED vars
  <2>1. UNCHANGED <<ready, generation, active, stop, starting, pc, ranAt>>
    BY <1>15 DEF Overrun, ShutdownResume, vars, runtime, calls
  <2>2. QED BY <2>1, CalmKept
<1>16. CASE ForceKill \/ GiveUp
  <2>1. /\ stop # NoStop /\ stop'.phase \in {"kill", "reap"}
        /\ UNCHANGED <<ready, generation, active, starting, pc, ranAt>>
    BY <1>a, <1>b, <1>16 DEF ForceKill, GiveUp, calls, TypeOK
  <2>2. stop' # NoStop
    BY <1>b, <2>1
  <2>3. QED BY <2>1, <2>2, CalmKept
<1>17. CASE Stopped
  <2>1. stop # NoStop /\ UNCHANGED <<child, ready, generation, active, ranAt>>
    BY <1>b, <1>17 DEF Stopped
  <2>2. CASE /\ starting.phase = "failing" /\ starting' = NoStart
             /\ Settle(At("killWait"), At("startWait") \cup At("stopWait"), {}, "idle")
    <3>1. \A c \in Calls : /\ pc'[c] \notin {"startWait", "stopWait"}
                           /\ pc'[c] = "requested" => pc[c] = "requested"
      BY <2>2, SettleSome DEF At
    <3>2. starting # NoStart
      BY <1>b, <2>2
    <3>3. QED BY <2>1, <2>2, <3>1, <3>2, CalmKept
  <2>3. CASE Settle(At("killWait"), {}, At("stopWait"), "started") /\ UNCHANGED starting
    <3>1. \A c \in Calls : /\ pc'[c] # "stopWait"
                           /\ pc'[c] \in {"requested", "startWait"} => pc'[c] = pc[c]
      BY <2>3, SettleSome DEF At
    <3>2. QED BY <2>1, <2>3, <3>1, CalmKept
  <2>4. CASE /\ Settle(At("killWait"), {}, At("stopWait"), "startWait")
             /\ IF starting = NoStart /\ At("stopWait") # {}
                THEN \E c \in At("stopWait") : starting' = [by |-> c, phase |-> "provision"]
                ELSE UNCHANGED starting
    <3>1. \A c \in Calls : /\ pc'[c] # "stopWait"
                           /\ pc'[c] = "requested" => pc[c] = "requested"
                           /\ pc'[c] = "startWait" => pc[c] \in {"startWait", "stopWait"}
      BY <2>4, SettleSome DEF At
    <3>2. starting' # NoStart \/ (starting' = starting /\ At("stopWait") = {})
      BY <1>b, <2>4
    <3>3. \A c \in Calls : pc'[c] = "startWait" => starting' # NoStart
      BY <1>a, <3>1, <3>2 DEF CalmInv, At
    <3>4. active # NoCall => starting' = starting /\ \A c \in Calls : pc'[c] # "startWait"
      BY <1>a, <2>4, <3>1 DEF CalmInv, At
    <3>5. QED BY <1>a, <2>1, <3>1, <3>3, <3>4 DEF CalmInv
  <2>5. QED BY <1>17, <2>2, <2>3, <2>4 DEF Stopped, Enter
<1>18. CASE Shutdown \/ ShutdownForce
  <2>1. UNCHANGED <<generation, active, pc, ranAt>>
    BY <1>18 DEF Shutdown, ShutdownForce, calls
  <2>2. CASE UNCHANGED <<starting, stop, ready>>
    BY <2>1, <2>2, CalmKept
  <2>3. CASE /\ Terminate /\ (child # NoProc \/ stop # NoStop)
             /\ FailStartup \/ UNCHANGED starting
    BY <1>a, <2>1, <2>3, TerminateKeeps, FailStartupKeeps, CalmKept
  <2>4. QED BY <1>c, <1>18, <2>2, <2>3 DEF Shutdown, ShutdownForce
<1>19. QED
  BY <1>1, <1>2, <1>3, <1>4, <1>5, <1>6, <1>7, <1>8, <1>9, <1>10, <1>11, <1>12, <1>13, <1>14,
     <1>15, <1>16, <1>17, <1>18
  DEF Next, Step, Line, Timer

(***************************************************************************)
(* The status of the calls.                                                *)
(***************************************************************************)
Pending == {"stopWait", "startWait", "started"}

LEMMA StatusIs ==
  ASSUME pc \in [Calls -> {"idle"} \cup Waiting \cup Final], NEW c \in Calls
  PROVE  /\ pc[c] \in Pending => Status(c) = "pending"
         /\ pc[c] = "requested" => Status(c) = "running"
         /\ pc[c] = "killWait" => Status(c) = "losing"
         /\ pc[c] \in {"idle"} \cup Final => Status(c) = pc[c]
<1>1. Status(c) = CASE pc[c] \in Pending -> "pending" [] pc[c] = "requested" -> "running"
                    [] pc[c] = "killWait" -> "losing" [] OTHER -> pc[c]
  BY DEF Status, Pending
<1>2. CASE pc[c] \in Pending
  BY <1>1, <1>2 DEF Pending, Final
<1>3. CASE pc[c] = "requested"
  BY <1>1, <1>3 DEF Pending, Final
<1>4. CASE pc[c] = "killWait"
  BY <1>1, <1>4 DEF Pending, Final
<1>5. CASE pc[c] \in {"idle"} \cup Final
  BY <1>1, <1>5 DEF Pending, Final
<1>6. QED BY <1>2, <1>3, <1>4, <1>5 DEF Pending, Final

\* Calls whose status is running, and calls that were never sent.
LEMMA StatusSets ==
  ASSUME TypeOK, NEW c \in Calls
  PROVE  /\ Status(c) = "running" <=> pc[c] = "requested"
         /\ Status(c) = "losing" <=> pc[c] = "killWait"
         /\ Status(c) = "pending" <=> pc[c] \in Pending
         /\ Status(c) = "idle" <=> pc[c] = "idle"
<1>1. pc \in [Calls -> {"idle"} \cup Waiting \cup Final]
  BY DEF TypeOK
<1>2. pc[c] \in Pending \cup {"requested", "killWait", "idle"} \cup Final
  BY <1>1 DEF Pending, Waiting
<1>3. QED BY <1>1, <1>2, StatusIs DEF Pending, Final

LEMMA StatusNext ==
  ASSUME TypeOK', NEW c \in Calls
  PROVE  /\ pc'[c] \in Pending => Status(c)' = "pending"
         /\ pc'[c] = "requested" => Status(c)' = "running"
         /\ pc'[c] = "killWait" => Status(c)' = "losing"
         /\ pc'[c] \in {"idle"} \cup Final => Status(c)' = pc'[c]
         /\ pc'[c] = pc[c] => Status(c)' = Status(c)
<1>1. Status(c)' = CASE pc'[c] \in Pending -> "pending" [] pc'[c] = "requested" -> "running"
                     [] pc'[c] = "killWait" -> "losing" [] OTHER -> pc'[c]
  BY DEF Status, Pending
<1>2. pc'[c] = pc[c] => Status(c)' = Status(c)
  BY DEF Status
<1>3. CASE pc'[c] \in Pending
  BY <1>1, <1>2, <1>3 DEF Pending, Final
<1>4. CASE pc'[c] = "requested"
  BY <1>1, <1>2, <1>4 DEF Pending, Final
<1>5. CASE pc'[c] = "killWait"
  BY <1>1, <1>2, <1>5 DEF Pending, Final
<1>6. CASE pc'[c] \in {"idle"} \cup Final
  BY <1>1, <1>2, <1>6 DEF Pending, Final
<1>7. CASE pc'[c] \notin Pending \cup {"requested", "killWait", "idle"} \cup Final
  BY <1>2, <1>7
<1>8. QED BY <1>3, <1>4, <1>5, <1>6, <1>7

\* The step of the service that each way to settle calls amounts to.
LEMMA SettleFails ==
  ASSUME TypeOK, TypeOK', NEW lost, NEW refused, NEW moved, NEW to,
         Settle(lost, refused, moved, to),
         \A c \in Calls \cap lost : pc[c] \in {"requested", "killWait"},
         \A c \in Calls \cap refused : pc[c] \in {"idle"} \cup Pending,
         moved = {} \/ (refused = {} /\ to \in Pending /\ \A c \in Calls \cap moved : pc[c] \in Pending),
         UNCHANGED <<generation, ranAt>>
  PROVE  Service!Next
<1> DEFINE gone == Calls \cap lost
           never == Calls \cap refused
<1>1. \A c \in Calls : Status(c)' = CASE c \in never -> "refused"
                                      [] c \in gone -> "lost"
                                      [] OTHER -> Status(c)
  <2>1. SUFFICES ASSUME NEW c \in Calls
                 PROVE  Status(c)' = CASE c \in never -> "refused"
                                       [] c \in gone -> "lost"
                                       [] OTHER -> Status(c)
    OBVIOUS
  <2>2. ~(c \in gone /\ c \in never)
    BY DEF Pending
  <2>3. CASE c \in gone
    <3>1. pc'[c] = "lost"
      BY <2>2, <2>3, SettleSome DEF Pending
    <3>2. QED BY <2>2, <2>3, <3>1, StatusNext DEF Final
  <2>4. CASE c \in never
    <3>1. pc'[c] = "refused"
      BY <2>2, <2>4, SettleSome
    <3>2. QED BY <2>2, <2>4, <3>1, StatusNext DEF Final
  <2>5. CASE c \notin gone /\ c \notin never
    <3>1. pc'[c] = pc[c] \/ (pc'[c] \in Pending /\ pc[c] \in Pending)
      BY <2>5, SettleSome
    <3>2. Status(c)' = Status(c)
      BY <3>1, StatusNext, StatusIs DEF TypeOK
    <3>3. QED BY <2>5, <3>2
  <2>6. QED BY <2>3, <2>4, <2>5
<1>2. /\ never \in SUBSET {c \in Calls : Status(c) \in {"idle", "pending"}}
      /\ gone \in SUBSET {c \in Calls : Status(c) \in {"running", "losing"}}
  BY StatusSets
<1> HIDE DEF gone, never
<1>3. Service!Fail
  BY <1>1, <1>2 DEF Service!Fail
<1>4. QED BY <1>3 DEF Service!Next

\* One call moves.
LEMMA OneMoves ==
  ASSUME TypeOK', NEW c \in Calls, NEW to, Settle({}, {}, {c}, to), NEW s, Status(c)' = s
  PROVE  [d \in Calls |-> Status(d)]' = [[d \in Calls |-> Status(d)] EXCEPT ![c] = s]
<1>1. \A d \in Calls : d # c => Status(d)' = Status(d)
  <2>1. \A d \in Calls : d # c => pc'[d] = pc[d]
    BY SettleSome
  <2>2. QED BY <2>1, StatusNext
<1>2. QED BY <1>1

\* A step that settles nothing.
LEMMA NothingSeen ==
  ASSUME UNCHANGED <<pc, generation, ranAt>>
  PROVE  UNCHANGED <<generation, [c \in Calls |-> Status(c)], ranAt>>
  BY DEF Status

LEMMA RequestServed ==
  ASSUME ServedInv, TypeOK', NEW c \in Calls, Request(c), pc[c] \in {"idle", "started"},
         UNCHANGED generation
  PROVE  Service!Next
<1>a. TypeOK /\ CalmInv
  BY DEF ServedInv, LostInv, TypeInv
<1>1. CASE Accepts(c)
  <2>1. /\ Settle({}, {}, {c}, "requested") /\ active = NoCall /\ ready
        /\ ranAt' = [ranAt EXCEPT ![c] = generation]
    BY <1>1 DEF Request, Accepts
  <2>2. Status(c)' = "running"
    <3>1. pc'[c] = "requested"
      BY <2>1, SettleSome
    <3>2. QED BY <3>1, StatusNext
  <2>3. Status(c) \in {"idle", "pending"}
    BY <1>a, StatusSets DEF Pending
  <2>4. \A d \in Calls : Status(d) # "running"
    BY <1>a, <2>1, StatusSets, CallAssumption DEF CalmInv
  <2>5. generation > 0
    BY <1>a, <2>1 DEF CalmInv
  <2>6. [d \in Calls |-> Status(d)]' = [[d \in Calls |-> Status(d)] EXCEPT ![c] = "running"]
    BY <2>1, <2>2, OneMoves
  <2>7. Service!Run(c)
    BY <2>1, <2>3, <2>4, <2>5, <2>6 DEF Service!Run, Service!Move, Service!NoneRunning
  <2>8. QED BY <2>7 DEF Service!Next
<1>2. CASE ~Accepts(c)
  <2>1. Settle({}, {c}, {}, "idle") /\ UNCHANGED ranAt
    BY <1>2 DEF Request
  <2>2. QED BY <1>a, <2>1, SettleFails DEF Pending
<1>3. QED BY <1>1, <1>2

LEMMA StepServed ==
  ASSUME ServedInv, TypeOK', [Next]_vars
  PROVE  Service!Next \/ UNCHANGED <<generation, [c \in Calls |-> Status(c)], ranAt>>
<1> DEFINE Goal == Service!Next \/ UNCHANGED <<generation, [c \in Calls |-> Status(c)], ranAt>>
<1> SUFFICES Goal
  OBVIOUS
<1>a. TypeOK /\ LifeInv /\ RequestInv /\ StartInv /\ CalmInv /\ NoCall \notin Calls
  BY CallAssumption DEF ServedInv, LostInv, TypeInv
<1>b. active \in Calls => pc[active] = "requested"
  BY <1>a DEF RequestInv
<1>c. ASSUME UNCHANGED <<pc, generation, ranAt>> PROVE Goal
  BY <1>c, NothingSeen
<1> HIDE DEF Goal
<1>1. ASSUME NEW c \in Calls, CallStart(c) PROVE Goal
  <2>1. pc[c] = "idle" /\ UNCHANGED <<generation, ranAt>>
    BY <1>1 DEF CallStart
  <2>2. \/ Settle({}, {c}, {}, "idle") \/ Settle({}, {}, {c}, "stopWait")
        \/ Settle({}, {}, {c}, "started") \/ Settle({}, {}, {c}, "startWait")
    BY <1>1 DEF CallStart, Start, Enter
  <2>3. CASE Settle({}, {c}, {}, "idle")
    BY <1>a, <2>1, <2>3, SettleFails DEF Goal
  <2>4. ASSUME NEW to \in Pending, Settle({}, {}, {c}, to) PROVE Goal
    <3>1. pc'[c] = to
      BY <2>4, SettleSome
    <3>2. Status(c)' = "pending" /\ Status(c) = "idle"
      BY <1>a, <2>1, <3>1, StatusNext, StatusSets
    <3>3. [d \in Calls |-> Status(d)]' = [[d \in Calls |-> Status(d)] EXCEPT ![c] = "pending"]
      BY <2>4, <3>2, OneMoves
    <3>4. Service!Begin(c)
      BY <2>1, <3>2, <3>3 DEF Service!Begin, Service!Move
    <3>5. QED BY <3>4 DEF Goal, Service!Next
  <2>5. QED BY <2>2, <2>3, <2>4 DEF Pending
<1>2. ASSUME NEW c \in Calls, ExecuteStarted(c) \/ EvaluateStarted(c) \/ CallEvaluate(c) PROVE Goal
  <2>1. Request(c) /\ pc[c] \in {"idle", "started"} /\ UNCHANGED generation
    BY <1>2 DEF ExecuteStarted, EvaluateStarted, CallEvaluate
  <2>2. QED BY <2>1, RequestServed DEF Goal
<1>3. ASSUME NEW c \in Calls, ViewerStarted(c) PROVE Goal
  <2>1. pc[c] = "started" /\ UNCHANGED <<generation, ranAt>>
    BY <1>3 DEF ViewerStarted, runtime
  <2>2. CASE Settle({}, {c}, {}, "idle")
    BY <1>a, <2>1, <2>2, SettleFails DEF Goal, Pending
  <2>3. CASE ready /\ Settle({}, {}, {c}, "ok")
    <3>1. pc'[c] = "ok"
      BY <2>3, SettleSome
    <3>2. Status(c)' = "ok" /\ Status(c) = "pending"
      BY <1>a, <2>1, <3>1, StatusNext, StatusSets DEF Pending, Final
    <3>3. [d \in Calls |-> Status(d)]' = [[d \in Calls |-> Status(d)] EXCEPT ![c] = "ok"]
      BY <2>3, <3>2, OneMoves
    <3>4. Service!View(c)
      BY <1>a, <2>1, <2>3, <3>2, <3>3 DEF Service!View, Service!Move, CalmInv
    <3>5. QED BY <3>4 DEF Goal, Service!Next
  <2>4. QED BY <1>3, <2>2, <2>3 DEF ViewerStarted
<1>4. ASSUME NEW c \in Calls, Cancel(c) PROVE Goal
  BY <1>4, <1>c DEF Cancel
<1>5. CASE Spawn \/ StartupTimeout \/ Overrun \/ ForceKill \/ GiveUp \/ Shutdown \/ ShutdownResume
             \/ ShutdownForce \/ UNCHANGED vars
  BY <1>5, <1>c
  DEF Spawn, StartupTimeout, Overrun, ForceKill, GiveUp, Shutdown, ShutdownResume, ShutdownForce,
      vars, runtime, calls
<1>6. CASE FailBeforeSpawn
  <2>1. Settle({}, At("startWait"), {}, "idle") /\ UNCHANGED <<generation, ranAt>>
    BY <1>6 DEF FailBeforeSpawn
  <2>2. \A c \in At("startWait") : pc[c] \in Pending
    BY DEF At, Pending
  <2>3. QED BY <1>a, <2>1, <2>2, SettleFails DEF Goal
<1>7. ASSUME NEW p \in Procs, ReadyLine(p) PROVE Goal
  <2>1. /\ child = p /\ proc[child] = "boot" /\ child # NoProc
        /\ generation' = generation + 1 /\ UNCHANGED ranAt
        /\ Settle({}, {}, At("startWait"), "started") \/ UNCHANGED pc
    BY <1>a, <1>7, ProcType DEF ReadyLine, LifeInv, Running
  <2>2. active = NoCall
    <3>1. starting.phase # "none"
      BY <1>a, <2>1 DEF StartInv
    <3>2. QED BY <1>a, <3>1 DEF CalmInv, NoStart
  <2>3. \A c \in Calls : Status(c) # "running"
    BY <1>a, <2>2, StatusSets DEF CalmInv
  <2>4. \A c \in Calls : pc'[c] = pc[c] \/ (pc'[c] \in Pending /\ pc[c] \in Pending)
    BY <2>1, SettleSome DEF At, Pending
  <2>5. \A c \in Calls : Status(c)' = Status(c)
    BY <1>a, <2>4, StatusNext, StatusSets
  <2>6. Service!NewKernel
    BY <2>1, <2>3, <2>5 DEF Service!NewKernel, Service!NoneRunning
  <2>7. QED BY <2>6 DEF Goal, Service!Next
<1>8. CASE BridgeFailure
  <2>1. Settle({active}, {}, {}, "idle") /\ UNCHANGED <<generation, ranAt>>
    BY <1>8 DEF BridgeFailure
  <2>2. QED BY <1>a, <1>b, <2>1, SettleFails DEF Goal
<1>9. ASSUME NEW p \in Procs, ResultLine(p) PROVE Goal
  <2>1. serving[p] # NoCall /\ UNCHANGED <<generation, ranAt>>
    BY <1>9 DEF ResultLine
  <2>2. CASE UNCHANGED pc
    BY <1>c, <2>1, <2>2
  <2>3. CASE active = serving[p] /\ Settle({}, {}, {active}, "ok")
    <3>1. PICK c \in Calls : c = active
      BY <1>a, <2>1, <2>3 DEF TypeOK
    <3>2. Settle({}, {}, {c}, "ok") /\ pc[c] = "requested" /\ ranAt[c] = generation
      BY <1>a, <1>b, <2>3, <3>1 DEF CalmInv
    <3>3. pc'[c] = "ok"
      BY <3>2, SettleSome
    <3>4. Status(c)' = "ok" /\ Status(c) = "running"
      BY <1>a, <3>2, <3>3, StatusNext, StatusSets DEF Final
    <3>5. [d \in Calls |-> Status(d)]' = [[d \in Calls |-> Status(d)] EXCEPT ![c] = "ok"]
      BY <3>2, <3>4, OneMoves
    <3>6. Service!Answer(c)
      BY <2>1, <3>2, <3>4, <3>5 DEF Service!Answer, Service!Move
    <3>7. QED BY <3>6 DEF Goal, Service!Next
  <2>4. QED BY <1>9, <2>2, <2>3 DEF ResultLine
<1>10. ASSUME NEW p \in Procs, BridgeErrorLine(p) PROVE Goal
  <2>1. /\ UNCHANGED <<generation, ranAt>>
        /\ UNCHANGED pc \/ Settle({active}, {}, {}, "idle")
    BY <1>10 DEF BridgeErrorLine
  <2>2. QED BY <1>a, <1>b, <1>c, <2>1, SettleFails DEF Goal
<1>11. ASSUME NEW p \in Procs, Close(p) PROVE Goal
  <2>1. /\ UNCHANGED <<generation, ranAt>>
        /\ \/ UNCHANGED pc
           \/ \E lost \in {{active}, {}}, refused \in {At("startWait"), {}} : Settle(lost, refused, {}, "idle")
    BY <1>11 DEF Close
  <2>2. \A c \in At("startWait") : pc[c] \in Pending
    BY DEF At, Pending
  <2>3. ASSUME NEW lost \in {{active}, {}}, NEW refused \in {At("startWait"), {}},
               Settle(lost, refused, {}, "idle")
        PROVE  Goal
    <3>1. /\ \A c \in Calls \cap lost : pc[c] \in {"requested", "killWait"}
          /\ \A c \in Calls \cap refused : pc[c] \in {"idle"} \cup Pending
      BY <1>b, <2>2, <2>3
    <3>2. QED BY <1>a, <2>1, <2>3, <3>1, SettleFails DEF Goal
  <2>4. QED BY <1>c, <2>1, <2>3
<1>12. CASE GraceExpires
  <2>1. active \in Calls /\ UNCHANGED <<generation, ranAt>>
    BY <1>a, <1>12 DEF GraceExpires, TypeOK
  <2>2. CASE Settle({active}, {}, {}, "idle")
    BY <1>a, <1>b, <2>1, <2>2, SettleFails DEF Goal
  <2>3. CASE Settle({}, {}, {active}, "killWait")
    <3>1. PICK c \in Calls : c = active
      BY <2>1
    <3>2. Settle({}, {}, {c}, "killWait") /\ pc[c] = "requested"
      BY <1>b, <2>3, <3>1
    <3>3. pc'[c] = "killWait"
      BY <3>2, SettleSome
    <3>4. Status(c)' = "losing" /\ Status(c) = "running"
      BY <1>a, <3>2, <3>3, StatusNext, StatusSets
    <3>5. [d \in Calls |-> Status(d)]' = [[d \in Calls |-> Status(d)] EXCEPT ![c] = "losing"]
      BY <3>2, <3>4, OneMoves
    <3>6. Service!GiveUpOn(c)
      BY <2>1, <3>4, <3>5 DEF Service!GiveUpOn, Service!Move
    <3>7. QED BY <3>6 DEF Goal, Service!Next
  <2>4. QED BY <1>12, <2>2, <2>3 DEF GraceExpires
<1>13. CASE Stopped
  <2>1. /\ UNCHANGED <<generation, ranAt>>
        /\ \/ Settle(At("killWait"), At("startWait") \cup At("stopWait"), {}, "idle")
           \/ \E to \in {"started", "startWait"} : Settle(At("killWait"), {}, At("stopWait"), to)
    BY <1>13 DEF Stopped, Enter
  <2>2. /\ \A c \in At("killWait") : pc[c] = "killWait"
        /\ \A c \in At("startWait") \cup At("stopWait") : pc[c] \in Pending
    BY DEF At, Pending
  <2>3. CASE Settle(At("killWait"), At("startWait") \cup At("stopWait"), {}, "idle")
    BY <1>a, <2>1, <2>2, <2>3, SettleFails DEF Goal
  <2>4. ASSUME NEW to \in {"started", "startWait"}, Settle(At("killWait"), {}, At("stopWait"), to)
        PROVE  Goal
    <3>1. to \in Pending
      BY DEF Pending
    <3>2. QED BY <1>a, <2>1, <2>2, <2>4, <3>1, SettleFails DEF Goal
  <2>5. QED BY <2>1, <2>3, <2>4
<1>14. QED
  BY <1>1, <1>2, <1>3, <1>4, <1>5, <1>6, <1>7, <1>8, <1>9, <1>10, <1>11, <1>12, <1>13
  DEF Next, Step, Line, Timer

LEMMA InitService == Init => Service!Init
<1> SUFFICES ASSUME Init PROVE Service!Init
  OBVIOUS
<1>1. \A c \in Calls : pc[c] = "idle"
  BY DEF Init
<1>2. [c \in Calls |-> Status(c)] = [c \in Calls |-> "idle"]
  BY <1>1 DEF Status
<1>3. QED BY <1>2 DEF Init, Service!Init

\* The runtime keeps the promise of KernelService, whatever order startups, requests, exits,
\* interrupts and shutdown() take.
THEOREM ServiceCorrect == ASSUME Prompt PROVE Spec => ServiceSpec
<1>1. ServedInv /\ [Next]_vars => ServedInv'
  BY LostStep, CalmStep DEF ServedInv
<1>2. ServedInv => TypeOK
  BY DEF ServedInv, LostInv, TypeInv
<1>3. ServedInv /\ TypeOK' /\ [Next]_vars => [Service!Next]_(Service!svars)
  BY StepServed DEF Service!svars
<1>4. QED BY <1>1, <1>2, <1>3, InitServed, InitService, PTL DEF Spec, ServiceSpec, Service!Spec
=============================================================================

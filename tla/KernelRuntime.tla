---------------------------- MODULE KernelRuntime ----------------------------
(***************************************************************************)
(* core/kernel-runtime.ts: one KernelRuntime object, the calls made on it  *)
(* and the bridge processes it spawns.                                     *)
(*                                                                         *)
(* Node runs one handler at a time. A handler that the event loop starts   *)
(* (a timer, a line, the exit of a child, an abort signal) is one action.  *)
(* Continuations of settled promises run before the next such handler, so  *)
(* those actions require Quiet. Four kinds of call exist:                  *)
(*   Cells    execute(): start with the joined signal, then request        *)
(*   Viewers  getConnectionFile(): start, then read the connection file    *)
(*   Syncs    Checkpoints.restoreBranch(): start with the caller's own     *)
(*            signal, without the runtime's lifecycle signal, then evaluate*)
(*   Evals    Checkpoints.save(): evaluate() alone, without a signal       *)
(*                                                                         *)
(* A bridge process is seen from the reading end of its pipe: it is "up"   *)
(* once its ready line was handled and it may still deliver any line that  *)
(* it wrote until its close event. Kernel and bridge die together here.    *)
(***************************************************************************)
EXTENDS Naturals, FiniteSets

CONSTANTS Cells, Viewers, Syncs, Evals,  \* the calls, each made once
          NoCall,                        \* undefined
          MaxSpawn,                      \* bound on the bridges ever spawned
          Slow,                          \* bridges that may close over 2 s after SIGTERM
          Sequential                     \* the host runs one cell at a time

Calls == Cells \cup Viewers \cup Syncs \cup Evals
Procs == 1..MaxSpawn
NoProc == 0

ASSUME SpawnAssumption == MaxSpawn \in Nat /\ Slow \subseteq Procs
ASSUME CallAssumption ==
  /\ NoCall \notin Calls
  /\ Cells \cap (Viewers \cup Syncs \cup Evals) = {}
  /\ Viewers \cap (Syncs \cup Evals) = {}
  /\ Syncs \cap Evals = {}

VARIABLES
  child,       \* the current bridge, or NoProc
  ready,       \* its kernel takes requests
  stopping,    \* its exit is expected
  pendingResetNotice,
  generation,  \* kernels that became ready
  starting,    \* the startup in progress: whose signal it observes, and its phase
  active,      \* the call whose request is in flight
  armed,       \* that request was interrupted; its grace timer runs
  stop,        \* terminate() in progress: of which bridge, and its phase
  disposed,
  shut,        \* progress of shutdown(), and the bridge whose close it awaits
  pc,          \* progress of each call
  cancelled,   \* calls whose own signal is aborted
  took,        \* the kernel before which a cell took the reset notice, or NoProc
  ranIn,       \* the kernel that received the call's request, or NoProc
  ranAt,       \* the generation at that moment
  proc,        \* the life of each bridge
  doomed,      \* bridges that were sent SIGTERM
  serving      \* the request that a bridge works on

runtime == <<child, ready, stopping, pendingResetNotice, generation, starting,
             active, armed, stop, disposed, shut>>
calls == <<pc, cancelled, took, ranIn, ranAt>>
bridges == <<proc, doomed, serving>>
vars == <<runtime, calls, bridges>>

Final == {"ok", "lost", "refused"}
Waiting == {"stopWait", "startWait", "started", "requested", "killWait"}
Running == {"boot", "up"}
NoStart == [by |-> NoCall, phase |-> "none"]
NoStop == [of |-> NoProc, phase |-> "none"]

TypeOK ==
  /\ child \in Procs \cup {NoProc}
  /\ ready \in BOOLEAN
  /\ stopping \in BOOLEAN
  /\ pendingResetNotice \in BOOLEAN
  /\ generation \in Nat
  /\ starting \in {NoStart} \cup [by : Calls, phase : {"provision", "waitReady", "failing"}]
  /\ active \in Calls \cup {NoCall}
  /\ armed \in BOOLEAN
  /\ stop \in {NoStop} \cup [of : Procs, phase : {"term", "kill", "reap"}]
  /\ disposed \in BOOLEAN
  /\ shut \in [phase : {"no", "awaitStart", "awaitStop", "awaitClose", "awaitKill", "done"},
               of : Procs \cup {NoProc}]
  /\ pc \in [Calls -> {"idle"} \cup Waiting \cup Final]
  /\ cancelled \subseteq Calls
  /\ took \in [Calls -> Procs \cup {NoProc}]
  /\ ranIn \in [Calls -> Procs \cup {NoProc}]
  /\ ranAt \in [Calls -> Nat]
  /\ proc \in [Procs -> {"unborn", "gone"} \cup Running]
  /\ doomed \subseteq Procs
  /\ serving \in [Procs -> Calls \cup {NoCall}]

Init ==
  /\ child = NoProc /\ ready = FALSE /\ stopping = FALSE
  /\ pendingResetNotice = FALSE /\ generation = 0
  /\ starting = NoStart /\ active = NoCall /\ armed = FALSE /\ stop = NoStop
  /\ disposed = FALSE /\ shut = [phase |-> "no", of |-> NoProc]
  /\ pc = [c \in Calls |-> "idle"] /\ cancelled = {}
  /\ took = [c \in Calls |-> NoProc]
  /\ ranIn = [c \in Calls |-> NoProc] /\ ranAt = [c \in Calls |-> 0]
  /\ proc = [p \in Procs |-> "unborn"] /\ doomed = {}
  /\ serving = [p \in Procs |-> NoCall]

(***************************************************************************)
(* Shared pieces of the handlers.                                          *)
(***************************************************************************)

\* The joined signal of execute, evaluate and getConnectionFile.
OperationAborted(c) == disposed \/ c \in cancelled

\* The signal that a startup by c observes: a sync passes its caller's.
StartAborted(c) == c \in cancelled \/ (disposed /\ c \notin Syncs)

\* Calls that await the startup in progress, or terminate() in progress.
At(where) == {c \in Calls : pc[c] = where}

\* Every promise continuation has run.
ShutdownResumes ==
  \/ shut.phase = "awaitStart" /\ starting = NoStart
  \/ shut.phase = "awaitStop" /\ stop = NoStop
Quiet == At("started") = {} /\ ~ShutdownResumes

\* Settles the promises of `lost` and `refused`, and moves `to` those in `moved`.
Settle(lost, refused, moved, to) ==
  pc' = [c \in Calls |-> CASE c \in lost -> "lost"
                           [] c \in refused -> "refused"
                           [] c \in moved -> to
                           [] OTHER -> pc[c]]

\* terminate() on the current bridge; a second call joins the first.
Terminate ==
  IF stop = NoStop
  THEN /\ stop' = [of |-> child, phase |-> "term"]
       /\ stopping' = TRUE
       /\ ready' = FALSE
       /\ doomed' = doomed \cup {child}
  ELSE UNCHANGED <<stop, stopping, ready, doomed>>

\* readyWaiter.reject(): startKernel goes on to await terminate().
FailStartup ==
  starting' = IF starting.phase = "waitReady"
              THEN [starting EXCEPT !.phase = "failing"] ELSE starting

\* failActive(): the request in flight is rejected with KernelLostError.
FailActive == active' = NoCall /\ armed' = FALSE

\* interrupt(): SIGINT once, and the grace timer.
Interrupt == armed' = (armed \/ active # NoCall)

(***************************************************************************)
(* start(): the calls enter here. Between the entry and a startup that     *)
(* settles, a call waits for terminate() first, then for the startup.      *)
(***************************************************************************)

\* Mutant: a call does not join the startup in progress.
Enter_NoJoin(entering, lost, refused) ==
  IF child # NoProc /\ ready
  THEN Settle(lost, refused, entering, "started") /\ UNCHANGED starting
  ELSE /\ Settle(lost, refused, entering, "startWait")
       /\ IF entering # {}
          THEN \E c \in entering : starting' = [by |-> c, phase |-> "provision"]
          ELSE UNCHANGED starting

\* `entering` pass the check for a ready kernel; the first of them starts one.
Enter(entering, lost, refused) ==
  IF child # NoProc /\ ready
  THEN Settle(lost, refused, entering, "started") /\ UNCHANGED starting
  ELSE /\ Settle(lost, refused, entering, "startWait")
       /\ IF starting = NoStart /\ entering # {}
          THEN \E c \in entering : starting' = [by |-> c, phase |-> "provision"]
          ELSE UNCHANGED starting

Start(c) ==
  IF disposed \/ (c \in Cells /\ c \in cancelled)
  THEN Settle({}, {c}, {}, "idle") /\ UNCHANGED starting
  ELSE IF stop # NoStop
       THEN Settle({}, {}, {c}, "stopWait") /\ UNCHANGED starting
       ELSE Enter({c}, {}, {})

\* What the host keeps to. Checkpoints.pending runs one sync or save at a time.
\* With checkpoints on, a cell and a viewer call start() only in the continuation
\* of a sync whose own start() returned. Pi runs tool calls sequentially.
QueueFree == \A c \in Syncs \cup Evals : pc[c] \in {"idle"} \cup Final
SyncedFirst(c) ==
  c \in Syncs \/ Syncs \cup Evals = {} \/ (child # NoProc /\ ready /\ stop = NoStop)
InTurn(c) == c \in Cells /\ Sequential => \A d \in Cells : pc[d] \notin Waiting

CallStart(c) ==
  /\ Quiet /\ c \in Calls \ Evals /\ pc[c] = "idle"
  /\ c \in Syncs => QueueFree
  /\ SyncedFirst(c) /\ InTurn(c)
  /\ Start(c)
  /\ UNCHANGED <<child, ready, stopping, pendingResetNotice, generation, active, armed,
                 stop, disposed, shut, cancelled, took, ranIn, ranAt, bridges>>

(***************************************************************************)
(* request(): three reasons to refuse, then one write to the bridge. A     *)
(* bridge that was sent SIGTERM never reads it.                            *)
(***************************************************************************)
\* Mutant: a request is sent while another one is in flight.
Accepts_WhileBusy(c) == child # NoProc /\ ready /\ ~OperationAborted(c)

Accepts(c) == child # NoProc /\ ready /\ active = NoCall /\ ~OperationAborted(c)

Request(c) ==
  IF Accepts(c)
  THEN /\ active' = c /\ armed' = FALSE
       /\ Settle({}, {}, {c}, "requested")
       /\ ranIn' = [ranIn EXCEPT ![c] = child]
       /\ ranAt' = [ranAt EXCEPT ![c] = generation]
       /\ serving' = IF child \in doomed THEN serving ELSE [serving EXCEPT ![child] = c]
  ELSE /\ Settle({}, {c}, {}, "idle")
       /\ UNCHANGED <<active, armed, ranIn, ranAt, serving>>

\* execute() after start: takes the reset notice, then sends.
ExecuteStarted(c) ==
  /\ c \in Cells /\ pc[c] = "started"
  /\ took' = [took EXCEPT ![c] = IF pendingResetNotice THEN child ELSE NoProc]
  /\ pendingResetNotice' = FALSE
  /\ Request(c)
  /\ UNCHANGED <<child, ready, stopping, generation, starting, stop, disposed, shut,
                 cancelled, proc, doomed>>

\* evaluate() after the start of a sync.
EvaluateStarted(c) ==
  /\ c \in Syncs /\ pc[c] = "started"
  /\ Request(c)
  /\ UNCHANGED <<child, ready, stopping, pendingResetNotice, generation, starting, stop,
                 disposed, shut, cancelled, took, proc, doomed>>

\* evaluate() of a save.
CallEvaluate(c) ==
  /\ Quiet /\ c \in Evals /\ pc[c] = "idle" /\ QueueFree
  /\ Request(c)
  /\ UNCHANGED <<child, ready, stopping, pendingResetNotice, generation, starting, stop,
                 disposed, shut, cancelled, took, proc, doomed>>

\* getConnectionFile() after start.
ViewerStarted(c) ==
  /\ c \in Viewers /\ pc[c] = "started"
  /\ IF ready /\ ~OperationAborted(c)
     THEN Settle({}, {}, {c}, "ok") ELSE Settle({}, {c}, {}, "idle")
  /\ UNCHANGED <<runtime, cancelled, took, ranIn, ranAt, bridges>>

(***************************************************************************)
(* startKernel().                                                          *)
(***************************************************************************)

\* Provisioning and the hooks are done: spawn, unless the signal is aborted.
Spawn ==
  /\ Quiet /\ starting.phase = "provision" /\ ~StartAborted(starting.by)
  /\ \E p \in Procs :
       /\ proc[p] = "unborn" /\ \A q \in Procs : proc[q] = "unborn" => p <= q
       /\ child' = p
       /\ proc' = [proc EXCEPT ![p] = "boot"]
  /\ stopping' = FALSE /\ ready' = FALSE
  /\ starting' = [starting EXCEPT !.phase = "waitReady"]
  /\ UNCHANGED <<pendingResetNotice, generation, active, armed, stop, disposed, shut,
                 calls, doomed, serving>>

\* Provisioning or a hook fails, or the signal was aborted: nothing was spawned.
FailBeforeSpawn ==
  /\ Quiet /\ starting.phase = "provision"
  /\ starting' = NoStart
  /\ Settle({}, At("startWait"), {}, "idle")
  /\ UNCHANGED <<child, ready, stopping, pendingResetNotice, generation, active, armed,
                 stop, disposed, shut, cancelled, took, ranIn, ranAt, bridges>>

StartupTimeout ==
  /\ Quiet /\ starting.phase = "waitReady"
  /\ FailStartup /\ Terminate
  /\ UNCHANGED <<child, pendingResetNotice, generation, active, armed, disposed, shut,
                 calls, proc, serving>>

(***************************************************************************)
(* handleLine(): lines of the current bridge. Those of an older bridge     *)
(* change nothing in the runtime.                                          *)
(***************************************************************************)

\* Mutant: the generation does not move.
ReadyLine_SameGeneration(p) ==
  /\ Quiet /\ proc[p] = "boot"
  /\ proc' = [proc EXCEPT ![p] = "up"]
  /\ IF child = p
     THEN /\ ready' = TRUE
          /\ IF starting.phase = "waitReady"
             THEN starting' = NoStart /\ Settle({}, {}, At("startWait"), "started")
             ELSE UNCHANGED <<starting, pc>>
     ELSE UNCHANGED <<ready, starting, pc>>
  /\ UNCHANGED <<child, stopping, pendingResetNotice, generation, active, armed, stop, disposed,
                 shut, cancelled, took, ranIn, ranAt, doomed, serving>>

\* The ready line; after the startup failed it still marks the kernel ready.
ReadyLine(p) ==
  /\ Quiet /\ proc[p] = "boot"
  /\ proc' = [proc EXCEPT ![p] = "up"]
  /\ IF child = p
     THEN /\ ready' = TRUE /\ generation' = generation + 1
          /\ IF starting.phase = "waitReady"
             THEN starting' = NoStart /\ Settle({}, {}, At("startWait"), "started")
             ELSE UNCHANGED <<starting, pc>>
     ELSE UNCHANGED <<ready, generation, starting, pc>>
  /\ UNCHANGED <<child, stopping, pendingResetNotice, active, armed, stop, disposed, shut,
                 cancelled, took, ranIn, ranAt, doomed, serving>>

\* A fatal line, or a line of a known type with invalid fields; also a failed
\* write to a kernel that is up, handleStdinError(). A bridge that stops reading
\* before it is ready has exited: Close.
BridgeFailure ==
  /\ Quiet /\ child # NoProc
  /\ pendingResetNotice' = (pendingResetNotice \/ ready)
  /\ FailStartup /\ FailActive /\ Terminate
  /\ Settle({active}, {}, {}, "idle")
  /\ UNCHANGED <<child, generation, disposed, shut, cancelled, took, ranIn, ranAt, proc, serving>>

\* The bridge answers its request; an answer to another request is dropped.
ResultLine(p) ==
  /\ Quiet /\ child = p /\ proc[p] = "up" /\ serving[p] # NoCall
  /\ serving' = [serving EXCEPT ![p] = NoCall]
  /\ IF active = serving[p]
     THEN FailActive /\ Settle({}, {}, {active}, "ok")
     ELSE UNCHANGED <<active, armed, pc>>
  /\ UNCHANGED <<child, ready, stopping, pendingResetNotice, generation, starting, stop,
                 disposed, shut, cancelled, took, ranIn, ranAt, proc, doomed>>

\* The bridge reports an exception of its own for the request in flight.
BridgeErrorLine(p) ==
  /\ Quiet /\ child = p /\ proc[p] = "up" /\ serving[p] # NoCall
  /\ serving' = [serving EXCEPT ![p] = NoCall]
  /\ IF active = serving[p]
     THEN /\ pendingResetNotice' = TRUE
          /\ FailActive /\ Settle({active}, {}, {}, "idle") /\ Terminate
     ELSE UNCHANGED <<pendingResetNotice, active, armed, pc, stop, stopping, ready, doomed>>
  /\ UNCHANGED <<child, generation, starting, disposed, shut, cancelled, took, ranIn, ranAt, proc>>

(***************************************************************************)
(* The close event of a bridge: handleExit(), then the close listeners of  *)
(* terminate() and of shutdown().                                          *)
(***************************************************************************)
\* Mutants: an unexpected exit is not reported as a reset; it leaves the request.
LosesState_Never == FALSE
LosesRequest_Never == FALSE

\* An exit that nobody asked for loses the namespace and the request in flight.
LosesState == ~stopping /\ ready
LosesRequest == ~stopping

Close(p) ==
  /\ Quiet /\ proc[p] \in Running
  /\ proc' = [proc EXCEPT ![p] = "gone"]
  /\ IF child = p
     THEN /\ child' = NoProc /\ ready' = FALSE /\ stopping' = FALSE
          /\ pendingResetNotice' = (pendingResetNotice \/ LosesState)
          /\ IF LosesRequest THEN FailActive ELSE UNCHANGED <<active, armed>>
          \* terminate() has nothing to wait for when no other stop is in progress.
          /\ LET settled == starting.phase = "waitReady" /\ stop = NoStop
             IN  /\ IF settled THEN starting' = NoStart ELSE FailStartup
                 /\ Settle(IF LosesRequest THEN {active} ELSE {},
                           IF settled THEN At("startWait") ELSE {}, {}, "idle")
     ELSE UNCHANGED <<child, ready, stopping, pendingResetNotice, active, armed, starting, pc>>
  \* The kernel's process group may outlive the bridge.
  /\ \/ stop.of = p /\ stop.phase \in {"term", "kill"} /\ stop' = [stop EXCEPT !.phase = "reap"]
     \/ UNCHANGED stop
  /\ shut' = IF shut.phase \in {"awaitClose", "awaitKill"} /\ shut.of = p
             THEN [shut EXCEPT !.phase = "done"] ELSE shut
  /\ UNCHANGED <<generation, disposed, cancelled, took, ranIn, ranAt, doomed, serving>>

(***************************************************************************)
(* Abort signals, the evaluation timeout, the output limit, the grace      *)
(* timer.                                                                  *)
(***************************************************************************)
\* Mutant: the request in flight does not listen to the signal.
Cancel_NoInterrupt(c) ==
  /\ Quiet /\ c \notin Evals \cup cancelled /\ pc[c] \notin Final
  /\ cancelled' = cancelled \cup {c}
  /\ IF starting.phase = "waitReady" /\ starting.by = c
     THEN FailStartup /\ Terminate
     ELSE UNCHANGED <<starting, stop, stopping, ready, doomed>>
  /\ UNCHANGED <<child, pendingResetNotice, generation, active, armed, disposed, shut, pc, took,
                 ranIn, ranAt, proc, serving>>

Cancel(c) ==
  /\ Quiet /\ c \notin Evals \cup cancelled /\ pc[c] \notin Final
  /\ cancelled' = cancelled \cup {c}
  /\ IF active = c THEN Interrupt ELSE UNCHANGED armed
  /\ IF starting.phase = "waitReady" /\ starting.by = c
     THEN FailStartup /\ Terminate
     ELSE UNCHANGED <<starting, stop, stopping, ready, doomed>>
  /\ UNCHANGED <<child, pendingResetNotice, generation, active, disposed, shut, pc, took, ranIn,
                 ranAt, proc, serving>>

\* An evaluation's timeout, or a cell's output past the capture limit.
Overrun ==
  /\ Quiet /\ active # NoCall /\ ~armed
  /\ active \in Cells => child # NoProc /\ serving[child] = active
  /\ Interrupt
  /\ UNCHANGED <<child, ready, stopping, pendingResetNotice, generation, starting, active,
                 stop, disposed, shut, calls, bridges>>

\* Mutant: terminate() runs without a bridge to stop.
GraceExpires_NoBridge ==
  /\ Quiet /\ active # NoCall /\ armed
  /\ FailActive
  /\ pendingResetNotice' = TRUE
  /\ Settle({}, {}, {active}, "killWait") /\ Terminate
  /\ UNCHANGED <<child, generation, starting, disposed, shut, cancelled, took, ranIn, ranAt,
                 proc, serving>>

\* Mutant: the request is rejected but its kernel lives on.
GraceExpires_KeepsKernel ==
  /\ Quiet /\ active # NoCall /\ armed
  /\ FailActive
  /\ Settle({active}, {}, {}, "idle")
  /\ UNCHANGED <<child, ready, stopping, pendingResetNotice, generation, starting, stop, disposed,
                 shut, cancelled, took, ranIn, ranAt, bridges>>

\* The interrupted request did not answer in time: its kernel is killed first.
GraceExpires ==
  /\ Quiet /\ active # NoCall /\ armed
  /\ FailActive
  /\ pendingResetNotice' = TRUE
  /\ IF child = NoProc /\ stop = NoStop
     THEN Settle({active}, {}, {}, "idle") /\ UNCHANGED <<stop, stopping, ready, doomed>>
     ELSE Settle({}, {}, {active}, "killWait") /\ Terminate
  /\ UNCHANGED <<child, generation, starting, disposed, shut, cancelled, took, ranIn, ranAt,
                 proc, serving>>

(***************************************************************************)
(* The rest of terminate(): the SIGKILL timer, the timer that gives up,    *)
(* and the promise that settles after the group was reaped.                *)
(***************************************************************************)
ForceKill ==
  /\ Quiet /\ stop.phase = "term"
  /\ stop' = [stop EXCEPT !.phase = IF proc[stop.of] = "gone" THEN "reap" ELSE "kill"]
  /\ UNCHANGED <<child, ready, stopping, pendingResetNotice, generation, starting, active,
                 armed, disposed, shut, calls, bridges>>

GiveUp ==
  /\ Quiet /\ stop.phase = "kill" /\ (proc[stop.of] = "gone" \/ stop.of \in Slow)
  /\ stop' = [stop EXCEPT !.phase = "reap"]
  /\ UNCHANGED <<child, ready, stopping, pendingResetNotice, generation, starting, active,
                 armed, disposed, shut, calls, bridges>>

\* Calls that wait to start resume before a failed startup is cleared, so they
\* join it. They do not check again whether the runtime was disposed.
Stopped ==
  /\ Quiet /\ stop.phase = "reap"
  /\ stop' = NoStop
  /\ IF starting.phase = "failing"
     THEN /\ starting' = NoStart
          /\ Settle(At("killWait"), At("startWait") \cup At("stopWait"), {}, "idle")
     ELSE Enter(At("stopWait"), At("killWait"), {})
  /\ shut' = IF shut.phase = "awaitKill" THEN [shut EXCEPT !.phase = "done"] ELSE shut
  /\ UNCHANGED <<child, ready, stopping, pendingResetNotice, generation, active, armed,
                 disposed, cancelled, took, ranIn, ranAt, bridges>>

(***************************************************************************)
(* shutdown().                                                             *)
(***************************************************************************)
Shutdown ==
  /\ Quiet /\ ~disposed
  /\ disposed' = TRUE
  /\ Interrupt
  /\ IF starting.phase = "waitReady" /\ starting.by \notin Syncs
     THEN FailStartup /\ Terminate
     ELSE UNCHANGED <<starting, stop, stopping, ready, doomed>>
  /\ shut' = [shut EXCEPT !.phase = "awaitStart"]
  /\ UNCHANGED <<child, pendingResetNotice, generation, active, calls, proc, serving>>

\* Awaits the startup, then terminate(), then asks the bridge to stop.
ShutdownResume ==
  /\ ShutdownResumes
  /\ IF stop # NoStop
     THEN shut' = [shut EXCEPT !.phase = "awaitStop"] /\ UNCHANGED stopping
     ELSE IF child # NoProc
          THEN shut' = [phase |-> "awaitClose", of |-> child] /\ stopping' = TRUE
          ELSE shut' = [shut EXCEPT !.phase = "done"] /\ UNCHANGED stopping
  /\ UNCHANGED <<child, ready, pendingResetNotice, generation, starting, active, armed, stop,
                 disposed, calls, bridges>>

\* Mutant: a bridge that does not stop on request is not killed.
ShutdownForce_Waits ==
  /\ Quiet /\ shut.phase = "awaitClose"
  /\ shut' = [shut EXCEPT !.phase = "awaitKill"]
  /\ UNCHANGED <<child, ready, stopping, pendingResetNotice, generation, starting, active, armed,
                 stop, disposed, calls, bridges>>

\* The bridge did not stop in time, or the request to stop could not be written.
ShutdownForce ==
  /\ Quiet /\ shut.phase = "awaitClose"
  /\ IF child = NoProc /\ stop = NoStop
     THEN shut' = [shut EXCEPT !.phase = "done"] /\ UNCHANGED <<stop, stopping, ready, doomed>>
     ELSE shut' = [shut EXCEPT !.phase = "awaitKill"] /\ Terminate
  /\ UNCHANGED <<child, pendingResetNotice, generation, starting, active, armed, disposed,
                 calls, proc, serving>>

Step(c) == CallStart(c) \/ CallEvaluate(c) \/ ExecuteStarted(c) \/ EvaluateStarted(c)
             \/ ViewerStarted(c) \/ Cancel(c)
Line(p) == ReadyLine(p) \/ ResultLine(p) \/ BridgeErrorLine(p) \/ Close(p)
Timer == StartupTimeout \/ Overrun \/ GraceExpires \/ ForceKill \/ GiveUp \/ Stopped
           \/ ShutdownForce

Next ==
  \/ \E c \in Calls : Step(c)
  \/ \E p \in Procs : Line(p)
  \/ Spawn \/ FailBeforeSpawn \/ BridgeFailure \/ Timer \/ Shutdown \/ ShutdownResume

\* Continuations and timers run, and a bridge that was told to die or whose
\* shutdown was requested closes. A cell may run for ever. So may a hook that a
\* startup awaits before it spawns: it has no timeout and does not see the signal.
Fairness ==
  /\ \A c \in Calls : WF_vars(ExecuteStarted(c) \/ EvaluateStarted(c) \/ ViewerStarted(c))
  /\ WF_vars(ShutdownResume)
  /\ WF_vars(StartupTimeout) /\ WF_vars(GraceExpires)
  /\ WF_vars(active \in Syncs \cup Evals /\ Overrun)
  /\ WF_vars(ForceKill) /\ WF_vars(GiveUp) /\ WF_vars(Stopped)
  /\ WF_vars(ShutdownForce)
  /\ \A p \in Procs : WF_vars(p \in doomed /\ Close(p))

Spec == Init /\ [][Next]_vars
FairSpec == Spec /\ Fairness

-----------------------------------------------------------------------------
(***************************************************************************)
(* Properties.                                                             *)
(***************************************************************************)

\* At most one bridge is ever left running: any other one was sent SIGTERM.
OneLiveBridge ==
  \A p \in Procs : proc[p] \in Running /\ p \notin doomed => p = child

\* A bridge that lives on works on the request in flight or on none: the
\* runtime never gives up on a request and keeps the kernel that runs it.
NoAbandonedWork ==
  child # NoProc /\ child \notin doomed /\ serving[child] # NoCall
    => serving[child] = active

\* Whenever cells ran in two kernels, one cell took the reset notice for the
\* loss of the first before the second one ran anything.
ResetHandedOut ==
  \A c, d \in Cells :
    ranIn[c] # NoProc /\ ranIn[c] < ranIn[d]
      => \E e \in Cells : ranIn[c] < took[e] /\ took[e] <= ranIn[d]

\* Two requests that saw the same generation ran in the same kernel.
GenerationNamesKernel ==
  \A c, d \in Calls :
    ranIn[c] # NoProc /\ ranIn[d] # NoProc /\ ranAt[c] = ranAt[d] => ranIn[c] = ranIn[d]

\* A cell whose bridge is gone is not left waiting: it has no timeout of its own.
LostIsRejected ==
  active \in Cells /\ proc[ranIn[active]] = "gone" => armed

\* After shutdown() no bridge lives on and none will be started.
StoppedForGood ==
  shut.phase = "done" =>
    /\ starting.phase \in {"provision", "waitReady"} => StartAborted(starting.by)
    /\ \A p \in Procs : proc[p] \in Running => p \in doomed

\* What a caller sees of its call.
Status(c) == CASE pc[c] \in {"stopWait", "startWait", "started"} -> "pending"
               [] pc[c] = "requested" -> "running"
               [] pc[c] = "killWait" -> "losing"
               [] OTHER -> pc[c]

\* The runtime implements KernelService.
Service == INSTANCE KernelService
             WITH epoch <- generation, status <- [c \in Calls |-> Status(c)]
ServiceSpec == Service!Spec

\* A startup has not spawned yet: it awaits uv, which has timeouts, or the
\* promises of the hooks, which have none and which no signal cuts short.
Preparing == starting.phase = "provision"

\* A cancelled call settles, also when the cell ignores the interrupt, unless it
\* waits for a startup that hooks hold up for ever.
CancelledSettles ==
  \A c \in Calls :
    (c \in cancelled /\ pc[c] # "idle")
      ~> (pc[c] \in Final \/ [](pc[c] = "startWait" /\ Preparing))

\* shutdown() settles, and so does every call made before it, unless it waits
\* for a startup that hooks hold up for ever.
ShutdownSettles ==
  /\ disposed ~> (shut.phase = "done" \/ [](shut.phase = "awaitStart" /\ Preparing))
  /\ \A c \in Calls :
       (disposed /\ pc[c] # "idle")
         ~> (pc[c] \in Final \/ [](pc[c] = "startWait" /\ Preparing))
=============================================================================

-------------------------- MODULE CellRequestsProofs --------------------------
(***************************************************************************)
(* Proofs about BridgeProcess and about CellRequests, which adds requests  *)
(* to it and whose steps are steps of BridgeProcess. The type invariant of *)
(* the bridge, GateHolds, HostLeavesNone and OwnerDeathReaps follow from   *)
(* LeashInv: how far the launch is when the gate may be open, and that     *)
(* nothing opens it once the monitor or the cleanup is done with the       *)
(* kernel. The properties of the requests follow from RequestsInv: where   *)
(* the code is when a SIGINT is pending, a query runs or a frame counts as *)
(* shown. The last part is about the verbs that the code of a cell calls,  *)
(* for all frames, lines, columns and sizes.                               *)
(***************************************************************************)
EXTENDS MCCellRequests, FiniteSetTheorems, WellFoundedInduction, NaturalsInduction, TLAPS

Launching == {"check", "launch", "forked", "launched", "recorded"}

\* The launch: what is known of the kernel before its gate may open.
LaunchInv ==
  /\ gate = "byte" \/ kernel = "running" \/ main = "recorded" => tracked
  /\ gate = "byte" => main \notin Launching
  /\ tracked \/ main = "launched" => hasKernel

\* The monitor: it acts on a dead owner, and its kill is final.
MonitorInv ==
  /\ ownerDead => owner = "dead"
  /\ monitor # "watch" => ownerDead
  /\ monitor = "exit" => Quenched

\* The cleanup: a kernel that was shut down without an exception is gone.
CleanupInv == main \in {"last", "gone"} /\ ~failed => Quenched

\* The host: what terminate() and shutdown() knew is known, and what is done is done.
HostInv ==
  /\ host.knew => host.knows
  /\ host.phase = "closing" => host.knew
  /\ host.phase = "done" => Ended
  /\ HostLeavesNone

LeashInv == TypeOK /\ LaunchInv /\ MonitorInv /\ CleanupInv /\ HostInv

LEMMA InitLeash == Init => LeashInv
<1> SUFFICES ASSUME Init PROVE LeashInv
  OBVIOUS
<1>1. TypeOK
  <2>1. /\ ~hasKernel /\ ~tracked /\ ~ownerDead /\ ~sigterm /\ ~failed /\ ~told
        /\ {hasKernel, tracked, ownerDead, sigterm, failed, told} \subseteq BOOLEAN
    BY DEF Init
  <2>2. host \in [phase : {"watch", "closing", "term", "reap", "done"}, knows : BOOLEAN, knew : BOOLEAN]
    BY DEF Init
  <2>3. QED BY <2>1, <2>2 DEF Init, TypeOK
<1>2. LaunchInv /\ MonitorInv /\ CleanupInv
  BY DEF Init, LaunchInv, MonitorInv, CleanupInv, Launching
<1>3. host.phase = "watch" /\ ~host.knew
  BY DEF Init
<1>4. HostInv
  BY <1>3 DEF HostInv, HostLeavesNone
<1>5. QED BY <1>1, <1>2, <1>4 DEF LeashInv

LEMMA StepLeash == LeashInv /\ [Next]_vars => LeashInv'
<1> SUFFICES ASSUME LeashInv, [Next]_vars PROVE LeashInv'
  OBVIOUS
<1> USE DEF LeashInv, TypeOK, LaunchInv, MonitorInv, CleanupInv, HostInv, HostLeavesNone,
            Launching, Cleanup, Ended, Quenched, Killed, PipeClosed, Goto, bridge
<1>1. CASE CheckOwner
  BY <1>1 DEF CheckOwner
<1>2. CASE Fork
  BY <1>2 DEF Fork
<1>3. CASE JupyterRecords
  BY <1>3 DEF JupyterRecords
<1>4. CASE Record
  BY <1>4 DEF Record
<1>5. CASE OpenGate
  BY <1>5 DEF OpenGate
<1>6. CASE Announce
  BY <1>6 DEF Announce
<1>7. CASE LoopEnds
  BY <1>7 DEF LoopEnds
<1>8. CASE Unwind
  BY <1>8, ZenonT(120) DEF Unwind
<1>9. CASE IgnoreSignals
  BY <1>9 DEF IgnoreSignals
<1>10. CASE FirstCheck
  BY <1>10 DEF FirstCheck, KillIfOrphaned
<1>11. CASE StopChannels
  BY <1>11 DEF StopChannels
<1>12. CASE ShutdownKernel
  BY <1>12, ZenonT(120) DEF ShutdownKernel
<1>13. CASE LastCheck
  BY <1>13 DEF LastCheck, KillIfOrphaned
<1>14. CASE MonitorNotices
  BY <1>14 DEF MonitorNotices
<1>15. CASE MonitorKills
  BY <1>15 DEF MonitorKills
<1>16. CASE MonitorExits
  BY <1>16 DEF MonitorExits
<1>17. CASE ReadGate
  BY <1>17 DEF ReadGate
<1>18. CASE KernelExits
  BY <1>18 DEF KernelExits
<1>19. CASE OwnerDies
  BY <1>19 DEF OwnerDies
<1>20. CASE HostLearns
  BY <1>20, ZenonT(120) DEF HostLearns
<1>21. CASE HostShutdown
  BY <1>21, ZenonT(120) DEF HostShutdown
<1>22. CASE HostTerminate
  BY <1>22, ZenonT(120) DEF HostTerminate
<1>23. CASE HostForces
  BY <1>23 DEF HostForces
<1>24. CASE HostSeesClose
  BY <1>24, ZenonT(120) DEF HostSeesClose, Reap
<1>25. CASE UNCHANGED vars
  BY <1>25 DEF vars
<1>26. QED
  BY <1>1, <1>2, <1>3, <1>4, <1>5, <1>6, <1>7, <1>8, <1>9, <1>10, <1>11, <1>12, <1>13, <1>14, <1>15, <1>16, <1>17, <1>18, <1>19, <1>20, <1>21, <1>22, <1>23, <1>24, <1>25
  DEF Next, Main, Watch, Host

\* Every variable keeps its type: no SIGTERM is pending while the cleanup runs,
\* and the main thread holds the lock exactly between Record and OpenGate.
THEOREM TypeCorrect == Spec => []TypeOK
<1>1. LeashInv => TypeOK
  BY DEF LeashInv
<1>2. QED BY <1>1, InitLeash, StepLeash, PTL DEF Spec

\* Kernel code runs only in a process group that the bridge has recorded, so
\* that the monitor can kill it, whenever the owner dies.
THEOREM GateCorrect == Spec => []GateHolds
<1>1. LeashInv => GateHolds
  BY DEF LeashInv, LaunchInv, GateHolds, Quenched
<1>2. QED BY <1>1, InitLeash, StepLeash, PTL DEF Spec

\* A runtime that is done with a bridge whose kernel group it knew, or that
\* cleaned up, leaves no kernel.
THEOREM HostCorrect == Spec => []HostLeavesNone
<1>1. LeashInv => HostLeavesNone
  BY DEF LeashInv, HostInv
<1>2. QED BY <1>1, InitLeash, StepLeash, PTL DEF Spec

\* The last step of a bridge whose owner is dead leaves no kernel that runs or
\* may yet run: the check at the end of the cleanup, or the monitor's exit.
LEMMA LastStepReaps ==
  ASSUME LeashInv, [Next]_vars, ~Ended, main' = "gone", owner = "dead"
  PROVE  Quenched'
<1>1. Next
  BY DEF vars, bridge, Ended
<1>2. LastCheck \/ MonitorExits
  BY <1>1 DEF Next, Main, Watch, Host, Goto, CheckOwner, Fork, JupyterRecords, Record, OpenGate,
    Announce, LoopEnds, Unwind, IgnoreSignals, FirstCheck, StopChannels, ShutdownKernel,
    MonitorNotices, MonitorKills, ReadGate, KernelExits, OwnerDies, HostLearns, HostShutdown,
    HostTerminate, HostForces, HostSeesClose, Ended, bridge, Cleanup
<1>3. CASE LastCheck
  BY <1>3 DEF LastCheck, KillIfOrphaned, Killed, LeashInv, LaunchInv, Quenched
<1>4. CASE MonitorExits
  BY <1>4 DEF MonitorExits, PipeClosed, LeashInv, MonitorInv, Quenched
<1>5. QED BY <1>2, <1>3, <1>4

THEOREM OwnerDeathCorrect == Spec => OwnerDeathReaps
<1>1. LeashInv /\ [Next]_vars => [~Ended /\ main' = "gone" /\ owner = "dead" => Quenched']_vars
  BY LastStepReaps
<1>2. QED BY <1>1, InitLeash, StepLeash, PTL DEF Spec, OwnerDeathReaps

-----------------------------------------------------------------------------
(***************************************************************************)
(* Requests.                                                               *)
(***************************************************************************)
Early == Launching \cup {"opened"}

\* Nothing is asked of a bridge that does not serve yet.
StartInv ==
  main \in Early \/ kernel \in {"none", "gated"} =>
    request = "none" /\ step = "loop" /\ code = "idle" /\ job = "none" /\ ~shown

\* The code belongs to the message that the bridge waits for, and so does its SIGINT.
CodeInv ==
  /\ code # "idle" => /\ kernel = "running" /\ reply = "none"
                      /\ step = IF code \in CellCode THEN "cell" ELSE code
  /\ sigint => code # "idle" /\ aim = code
  /\ request = "active" => aim = "none"

\* The frame was shown by the cell that runs, or nothing runs any more.
ShownInv == shown => printed /\ (code \in CellCode \/ kernel # "running")

\* A query runs while interroge() does, or the kernel died under it.
JobInv ==
  job = "running" /\ aim # "submit" =>
    \/ code \in {"submit", "download"}
    \/ kernel # "running" /\ reply = "none" /\ step # "result"

\* Code that was interrupted and heeded it is about to stop, or its answer is under way.
HeedInv ==
  request = "interrupted" /\ aim \notin {"idle", "chdir"} /\ ~deaf /\ kernel = "running" /\ Serving =>
    \/ step \in {"cell", "evaluate"} /\ (sigint \/ reply # "none")
    \/ step = "result"

RequestsInv == LeashInv /\ RequestsTypeOK /\ StartInv /\ CodeInv /\ ShownInv /\ JobInv /\ HeedInv

-----------------------------------------------------------------------------
LEMMA BridgeStep == [RequestsNext]_allVars => [Next]_vars
<1> SUFFICES ASSUME [RequestsNext]_allVars PROVE [Next]_vars
  OBVIOUS
<1>1. CASE UNCHANGED allVars
  BY <1>1 DEF allVars
<1>2. CASE ProcessStep
  BY <1>2 DEF ProcessStep
<1>3. CASE GraceExpires(Momentary) \/ ErrorRead
  BY <1>3 DEF GraceExpires, ErrorRead, Next, Host
<1>4. CASE Requests /\ ~(GraceExpires(Momentary) \/ ErrorRead)
  BY <1>4 DEF Requests, Request, HostInterrupts, ResultRead, BridgeReads, ReplyRead, KernelMissed,
              KernelTakes, Awaiting, Interroge, Montre, CodeEnds, SigintSeen, CellEnds
<1>5. QED BY <1>1, <1>2, <1>3, <1>4 DEF RequestsNext

\* A bridge that serves does not launch again, and a kernel that is gone stays gone.
LEMMA NoWayBack ==
  ASSUME TypeOK, [Next]_vars, main \notin Early, kernel \in {"running", "gone"}
  PROVE  /\ main' \notin Early /\ kernel' \in {"running", "gone"}
         /\ kernel = "gone" => kernel' = "gone"
         /\ main' = "serving" => main = "serving"
<1> USE DEF Early, Launching, TypeOK, Cleanup, Ended, Killed, Goto, bridge
<1>1. CASE UNCHANGED vars
  BY <1>1 DEF vars
<1>2. CASE CheckOwner \/ Fork \/ JupyterRecords \/ Record \/ OpenGate \/ Announce
  BY <1>2 DEF CheckOwner, Fork, JupyterRecords, Record, OpenGate, Announce
<1>3. CASE LoopEnds \/ Unwind \/ IgnoreSignals \/ StopChannels
  BY <1>3 DEF LoopEnds, Unwind, IgnoreSignals, StopChannels
<1>4. CASE FirstCheck \/ ShutdownKernel \/ LastCheck
  BY <1>4 DEF FirstCheck, ShutdownKernel, LastCheck, KillIfOrphaned
<1>5. CASE Watch
  BY <1>5 DEF Watch, MonitorNotices, MonitorKills, MonitorExits
<1>6. CASE ReadGate \/ KernelExits \/ OwnerDies
  BY <1>6 DEF ReadGate, KernelExits, OwnerDies
<1>7. CASE Host
  BY <1>7 DEF Host, HostLearns, HostShutdown, HostTerminate, HostForces, HostSeesClose, Reap
<1>8. QED BY <1>1, <1>2, <1>3, <1>4, <1>5, <1>6, <1>7 DEF Next, Main

LEMMA InitRequests == RequestsInit => RequestsInv
<1> SUFFICES ASSUME RequestsInit PROVE RequestsInv
  OBVIOUS
<1>1. LeashInv
  BY InitLeash DEF RequestsInit
<1>2. /\ ~sigint /\ ~shown /\ ~printed /\ ~deaf
      /\ {sigint, shown, printed, deaf} \subseteq BOOLEAN
  BY DEF RequestsInit
<1>3. RequestsTypeOK
  BY <1>1, <1>2 DEF RequestsInit, RequestsTypeOK, LeashInv
<1>4. QED
  BY <1>1, <1>2, <1>3 DEF RequestsInit, RequestsInv, StartInv, CodeInv, ShownInv, JobInv, HeedInv

LEMMA TypeStep ==
  ASSUME RequestsInv, [RequestsNext]_allVars
  PROVE  RequestsTypeOK'
<1>1. TypeOK'
  BY BridgeStep, StepLeash DEF RequestsInv, LeashInv
<1> USE DEF RequestsInv, RequestsTypeOK, line, python, Awaited, CellCode, Serving, Waits, HostReads
<1>2. CASE UNCHANGED allVars
  BY <1>1, <1>2 DEF allVars, requestVars
<1>3. CASE ProcessStep
  BY <1>1, <1>3 DEF ProcessStep, CodeOfKernel
<1>4. CASE \E k \in {"cell", "evaluate"} : Request(k)
  BY <1>1, <1>4 DEF Request
<1>5. CASE HostInterrupts
  BY <1>1, <1>5 DEF HostInterrupts
<1>6. CASE GraceExpires(Momentary) \/ ErrorRead \/ ResultRead
  BY <1>1, <1>6 DEF GraceExpires, ErrorRead, ResultRead, CodeOfKernel
<1>7. CASE BridgeReads \/ ReplyRead \/ KernelMissed
  BY <1>1, <1>7 DEF BridgeReads, ReplyRead, AfterHidden, KernelMissed
<1>8. CASE KernelTakes \/ Awaiting \/ Interroge \/ Montre
  BY <1>1, <1>8 DEF KernelTakes, Awaiting, Interroge, Montre, Running
<1>9. CASE CodeEnds \/ SigintSeen \/ \E result \in {"frame", "none"} : CellEnds(result)
  BY <1>1, <1>9 DEF CodeEnds, SigintSeen, CellEnds, Replies, Forget, AfterInterrupt, Interruptible
<1>10. QED
  BY <1>2, <1>3, <1>4, <1>5, <1>6, <1>7, <1>8, <1>9 DEF RequestsNext, Requests

LEMMA PlaceStep ==
  ASSUME RequestsInv, [RequestsNext]_allVars
  PROVE  StartInv' /\ CodeInv'
<1>1. main \notin Early /\ kernel \in {"running", "gone"} =>
        main' \notin Early /\ kernel' \in {"running", "gone"}
  BY BridgeStep, NoWayBack DEF RequestsInv, LeashInv
<1>2. TypeOK /\ TypeOK'
  BY BridgeStep, StepLeash DEF RequestsInv, LeashInv
<1>3. kernel \in {"none", "gated", "running", "gone"}
  BY <1>2 DEF TypeOK
<1>4. "serving" \notin Early
  BY DEF Early, Launching
<1> USE DEF RequestsInv, RequestsTypeOK, StartInv, CodeInv, CellCode, line, python, Awaited, Serving, Waits
<1>5. CASE UNCHANGED allVars
  BY <1>5 DEF allVars, requestVars, vars, bridge
<1>6. CASE ProcessStep
  BY <1>1, <1>3, <1>6 DEF ProcessStep, CodeOfKernel
<1>7. CASE \E k \in {"cell", "evaluate"} : Request(k)
  BY <1>4, <1>7 DEF Request, vars, bridge
<1>8. CASE HostInterrupts
  BY <1>8 DEF HostInterrupts, vars, bridge
<1>9. CASE GraceExpires(Momentary) \/ ErrorRead
  BY <1>1, <1>3, <1>9 DEF GraceExpires, ErrorRead, CodeOfKernel
<1>10. CASE ResultRead
  BY <1>10 DEF ResultRead, vars, bridge
<1>11. CASE BridgeReads \/ ReplyRead \/ KernelMissed
  BY <1>11 DEF BridgeReads, ReplyRead, AfterHidden, KernelMissed, vars, bridge
<1>12. CASE KernelTakes
  BY <1>12 DEF KernelTakes, vars, bridge
<1>13. CASE Awaiting \/ Interroge \/ Montre
  BY <1>13 DEF Awaiting, Interroge, Montre, Running, vars, bridge
<1>14. CASE CodeEnds \/ \E result \in {"frame", "none"} : CellEnds(result)
  BY <1>14 DEF CodeEnds, CellEnds, Replies, Forget, vars, bridge
<1>15. CASE SigintSeen
  BY <1>15 DEF SigintSeen, Replies, Forget, AfterInterrupt, Interruptible, vars, bridge
<1>16. QED
  BY <1>5, <1>6, <1>7, <1>8, <1>9, <1>10, <1>11, <1>12, <1>13, <1>14, <1>15 DEF RequestsNext, Requests

LEMMA WorkStep ==
  ASSUME RequestsInv, [RequestsNext]_allVars
  PROVE  ShownInv' /\ JobInv' /\ HeedInv'
<1>1. main \notin Early /\ kernel \in {"running", "gone"} =>
        /\ kernel' \in {"running", "gone"}
        /\ kernel = "gone" => kernel' = "gone"
        /\ main' = "serving" => main = "serving"
  BY BridgeStep, NoWayBack DEF RequestsInv, LeashInv
<1>2. kernel \in {"none", "gated", "running", "gone"}
  BY DEF RequestsInv, LeashInv, TypeOK
<1> USE DEF RequestsInv, RequestsTypeOK, StartInv, CodeInv, ShownInv, JobInv, HeedInv, CellCode, line,
            python, Awaited, Serving, Waits
<1>3. CASE UNCHANGED allVars
  BY <1>3 DEF allVars, requestVars, vars, bridge
<1>4. CASE ProcessStep
  BY <1>1, <1>2, <1>4 DEF ProcessStep, CodeOfKernel
<1>5. CASE \E k \in {"cell", "evaluate"} : Request(k)
  BY <1>5 DEF Request, vars, bridge
<1>6. CASE HostInterrupts
  BY <1>6 DEF HostInterrupts, vars, bridge
<1>7. CASE GraceExpires(Momentary) \/ ErrorRead
  BY <1>1, <1>2, <1>7 DEF GraceExpires, ErrorRead, CodeOfKernel
<1>8. CASE ResultRead
  BY <1>8 DEF ResultRead, vars, bridge
<1>9. CASE BridgeReads \/ ReplyRead \/ KernelMissed
  BY <1>9 DEF BridgeReads, ReplyRead, AfterHidden, KernelMissed, vars, bridge
<1>10. CASE KernelTakes
  BY <1>10 DEF KernelTakes, vars, bridge
<1>11. CASE Awaiting \/ Interroge \/ Montre
  BY <1>11 DEF Awaiting, Interroge, Montre, Running, vars, bridge
<1>12. CASE CodeEnds \/ \E result \in {"frame", "none"} : CellEnds(result)
  BY <1>12 DEF CodeEnds, CellEnds, Replies, Forget, vars, bridge
<1>13. CASE SigintSeen
  BY <1>13 DEF SigintSeen, Replies, Forget, AfterInterrupt, Interruptible, vars, bridge
<1>14. QED
  BY <1>3, <1>4, <1>5, <1>6, <1>7, <1>8, <1>9, <1>10, <1>11, <1>12, <1>13 DEF RequestsNext, Requests

LEMMA StepRequests == RequestsInv /\ [RequestsNext]_allVars => RequestsInv'
<1> SUFFICES ASSUME RequestsInv, [RequestsNext]_allVars PROVE RequestsInv'
  OBVIOUS
<1>1. LeashInv'
  BY BridgeStep, StepLeash DEF RequestsInv
<1>2. QED BY <1>1, TypeStep, PlaceStep, WorkStep DEF RequestsInv

-----------------------------------------------------------------------------
\* The bridge with its requests behaves as BridgeProcess allows: requests, interrupts and
\* the code of cells add no way for the processes to start or end.
THEOREM BridgeCorrect == RequestsSpec => Spec
<1>1. RequestsInit => Init
  BY DEF RequestsInit
<1>2. QED BY <1>1, BridgeStep, PTL DEF RequestsSpec, Spec

\* While it serves requests too, a kernel that runs can be stopped, a host that is done
\* leaves none, and the last step of a bridge whose owner died leaves none.
THEOREM ProcessesCorrect == RequestsSpec => []GateHolds /\ []HostLeavesNone /\ OwnerDeathReaps
BY BridgeCorrect, GateCorrect, HostCorrect, OwnerDeathCorrect

\* All variables of the bridge and its requests keep their types.
THEOREM RequestsTypeCorrect == RequestsSpec => []RequestsTypeOK
<1>1. RequestsInv => RequestsTypeOK
  BY DEF RequestsInv
<1>2. QED BY <1>1, InitRequests, StepRequests, PTL DEF RequestsSpec

\* An interrupt that meets code which heeds it costs no state: the grace period does not
\* run out, and no bridge error ends the request, wherever the signal arrives.
THEOREM InterruptCorrect == RequestsSpec => InterruptSpares
<1>1. RequestsInv /\ [RequestsNext]_allVars =>
        [request = "interrupted" /\ (GraceExpires(Momentary) \/ ErrorRead) =>
           deaf \/ aim \in {"idle", "chdir"} \/ kernel = "gone" \/ ~Serving]_allVars
  <2> SUFFICES ASSUME RequestsInv, request = "interrupted", GraceExpires(Momentary) \/ ErrorRead,
                      ~deaf, aim \notin {"idle", "chdir"}, kernel # "gone", Serving
               PROVE  FALSE
    OBVIOUS
  <2>1. kernel = "running"
    BY DEF RequestsInv, LeashInv, TypeOK, StartInv
  <2>2. (step \in {"cell", "evaluate"} /\ (sigint \/ reply # "none")) \/ step = "result"
    BY <2>1 DEF RequestsInv, HeedInv
  <2>3. ~ErrorRead
    BY <2>2 DEF ErrorRead
  <2>4. Momentary
    BY <2>1, <2>2 DEF RequestsInv, CodeInv, RequestsTypeOK, Momentary, Waits, Awaited, Interruptible
  <2>5. QED BY <2>3, <2>4 DEF GraceExpires
<1>2. QED BY <1>1, InitRequests, StepRequests, PTL DEF RequestsSpec, InterruptSpares

\* A cell that was interrupted while interroge() held its job leaves no query running.
THEOREM QueryCorrect == RequestsSpec => QueriesCancelled
<1>1. RequestsInv /\ [RequestsNext]_allVars =>
        [ResultRead /\ request = "interrupted" /\ job = "running" => aim = "submit"]_allVars
  BY DEF RequestsInv, CodeInv, JobInv, ResultRead, CellCode
<1>2. QED BY <1>1, InitRequests, StepRequests, PTL DEF RequestsSpec, QueriesCancelled

\* The result of a cell is hidden only when this cell printed its view.
THEOREM HiddenCorrect == RequestsSpec => HiddenWasShown
<1>1. RequestsInv /\ [RequestsNext]_allVars =>
        [\A result \in {"frame", "none"} : CellEnds(result) /\ Hidden(result) => printed]_allVars
  BY DEF RequestsInv, ShownInv, CellEnds, Hidden
<1>2. QED BY <1>1, InitRequests, StepRequests, PTL DEF RequestsSpec, HiddenWasShown

-----------------------------------------------------------------------------
(***************************************************************************)
(* What joins(), compare(), charge() and interroge() promise.               *)
(***************************************************************************)

\* The row of a that a row of the join comes from.
Source(a, b, how) == [p \in Merge(a, b, how) |-> p[1]]

\* Every row of a join comes from a row of a; those of a left join from every row.
LEMMA SourceType ==
  ASSUME NEW K, NEW a \in Seq(K), NEW b \in Seq(K), NEW how \in {"left", "inner"}
  PROVE  /\ Merge(a, b, how) \subseteq (DOMAIN a) \X (0..Len(b))
         /\ IsFiniteSet(Merge(a, b, how)) /\ IsFiniteSet(DOMAIN a) /\ Cardinality(DOMAIN a) = Len(a)
         /\ Source(a, b, how) \in [Merge(a, b, how) -> DOMAIN a]
         /\ Merge(a, b, how) = Inner(a, b) \cup
              (IF how = "left" THEN {<<i, 0>> : i \in {n \in DOMAIN a : At(b, a[n]) = {}}} ELSE {})
<1>1. /\ DOMAIN a = 1..Len(a) /\ DOMAIN b = 1..Len(b) /\ Len(a) \in Nat /\ Len(b) \in Nat
  OBVIOUS
<1>2. Merge(a, b, how) \subseteq (DOMAIN a) \X (0..Len(b))
  BY <1>1 DEF Merge, Inner
<1>3. IsFiniteSet(DOMAIN a) /\ Cardinality(DOMAIN a) = Len(a) /\ IsFiniteSet(0..Len(b))
  <2>1. ASSUME NEW lo \in Int, NEW hi \in Nat PROVE IsFiniteSet(lo..hi)
    BY FS_Interval
  <2>2. ASSUME NEW hi \in Nat PROVE Cardinality(1..hi) = hi
    <3>1. Cardinality(1..hi) = IF 1 > hi THEN 0 ELSE hi - 1 + 1
      BY FS_Interval
    <3>2. QED BY <3>1
  <2>3. QED BY <1>1, <2>1, <2>2
<1>4. IsFiniteSet((DOMAIN a) \X (0..Len(b)))
  BY <1>3, FS_Product
<1>5. IsFiniteSet(Merge(a, b, how))
  BY <1>2, <1>4, FS_Subset
<1>6. Source(a, b, how) \in [Merge(a, b, how) -> DOMAIN a]
  BY <1>2 DEF Source
<1>7. QED BY <1>2, <1>3, <1>5, <1>6 DEF Merge

\* A key of a that b repeats is one that joins() finds repeated.
LEMMA RepeatedKey ==
  ASSUME NEW K, NEW a \in Seq(K), NEW b \in Seq(K),
         NEW i \in DOMAIN a, NEW m \in DOMAIN b, NEW n \in DOMAIN b,
         b[m] = a[i], b[n] = a[i], m < n
  PROVE  Refuses(a, b)
<1>1. m \in 1..n - 1
  OBVIOUS
<1>2. n \in Duplicated(b)
  BY <1>1 DEF Duplicated
<1>3. b[n] \in Range(a)
  BY DEF Range
<1>4. b[n] \in Repeated(a, b)
  BY <1>2, <1>3 DEF Repeated
<1>5. QED BY <1>4 DEF Refuses

\* joins() never multiplies rows in silence: a join that it accepts has no more rows than
\* a, and one that it refuses has more when it is a left join.
THEOREM JoinsCorrect ==
  ASSUME NEW K, NEW a \in Seq(K), NEW b \in Seq(K)
  PROVE  JoinsKeepRows(a, b)
<1>1. ASSUME NEW how \in {"left", "inner"}, ~Refuses(a, b)
      PROVE  Cardinality(Merge(a, b, how)) <= Len(a)
  <2> DEFINE M == Merge(a, b, how)
             f == Source(a, b, how)
  <2>1. ASSUME NEW p \in M, NEW q \in M, p[1] = q[1] PROVE p = q
    <3>0. /\ p \in (DOMAIN a) \X (0..Len(b)) /\ q \in (DOMAIN a) \X (0..Len(b))
      BY SourceType
    <3>1. /\ p \in Inner(a, b) \/ (p[2] = 0 /\ At(b, a[p[1]]) = {})
          /\ q \in Inner(a, b) \/ (q[2] = 0 /\ At(b, a[q[1]]) = {})
      <4>1. ASSUME NEW x \in M PROVE x \in Inner(a, b) \/ (x[2] = 0 /\ At(b, a[x[1]]) = {})
        <5>1. CASE x \in Inner(a, b)
          BY <5>1
        <5>2. CASE x \notin Inner(a, b)
          <6>1. PICK i \in DOMAIN a : x = <<i, 0>> /\ At(b, a[i]) = {}
            BY <5>2 DEF Merge
          <6>2. QED BY <6>1
        <5>3. QED BY <5>1, <5>2
      <4>2. QED BY <4>1
    <3>2. CASE p \in Inner(a, b) /\ q \in Inner(a, b)
      <4>1. /\ p[1] \in DOMAIN a /\ p[2] \in DOMAIN b /\ q[2] \in DOMAIN b
            /\ b[p[2]] = a[p[1]] /\ b[q[2]] = a[p[1]]
        BY <2>1, <3>2 DEF Inner
      <4>2. ~(p[2] < q[2]) /\ ~(q[2] < p[2])
        BY <1>1, <4>1, RepeatedKey
      <4>3. p[2] = q[2]
        BY <4>1, <4>2
      <4>4. QED BY <2>1, <3>0, <4>3
    <3>3. CASE p \in Inner(a, b) /\ q \notin Inner(a, b)
      BY <2>1, <3>1, <3>3 DEF Inner, At
    <3>4. CASE q \in Inner(a, b) /\ p \notin Inner(a, b)
      BY <2>1, <3>1, <3>4 DEF Inner, At
    <3>5. CASE p \notin Inner(a, b) /\ q \notin Inner(a, b)
      BY <2>1, <3>0, <3>1, <3>5
    <3>6. QED BY <3>2, <3>3, <3>4, <3>5
  <2>2. f \in Injection(M, DOMAIN a)
    BY <2>1, SourceType DEF Injection, IsInjective, Source
  <2>3. Cardinality(M) <= Cardinality(DOMAIN a)
    BY <2>2, SourceType, FS_Injection
  <2>4. QED BY <2>3, SourceType
<1>2. ASSUME Refuses(a, b) PROVE Cardinality(Merge(a, b, "left")) > Len(a)
  <2> DEFINE M == Merge(a, b, "left")
             f == Source(a, b, "left")
  <2>1. PICK n \in DOMAIN b, m \in DOMAIN b, i \in DOMAIN a : m < n /\ b[m] = b[n] /\ b[n] = a[i]
    BY <1>2 DEF Refuses, Repeated, Duplicated, Range
  <2>2. <<i, m>> \in M /\ <<i, n>> \in M /\ <<i, m>> # <<i, n>>
    BY <2>1 DEF Merge, Inner
  <2>3. ASSUME NEW j \in DOMAIN a PROVE \E p \in M : f[p] = j
    <3>1. CASE At(b, a[j]) = {}
      <4>1. <<j, 0>> \in M
        BY <3>1 DEF Merge
      <4>2. QED BY <4>1 DEF Source
    <3>2. CASE At(b, a[j]) # {}
      <4>1. PICK l \in DOMAIN b : b[l] = a[j]
        BY <3>2 DEF At
      <4>2. <<j, l>> \in M
        BY <4>1 DEF Merge, Inner
      <4>3. QED BY <4>2 DEF Source
    <3>3. QED BY <3>1, <3>2
  <2>4. f \in Surjection(M, DOMAIN a)
    BY <2>3, SourceType DEF Surjection
  <2>5. f \notin Injection(M, DOMAIN a)
    BY <2>2 DEF Injection, IsInjective, Source
  <2>6. Cardinality(DOMAIN a) <= Cardinality(M) /\ Cardinality(DOMAIN a) # Cardinality(M)
    BY <2>4, <2>5, SourceType, FS_Surjection
  <2>7. Cardinality(DOMAIN a) = Len(a) /\ Cardinality(M) \in Nat
    BY SourceType, FS_CardinalityType
  <2>8. QED BY <2>6, <2>7
<1>3. QED BY <1>1, <1>2 DEF JoinsKeepRows

\* compare() lists the keys by which the two frames are not the same mapping, and what each
\* is: missing values differ from all others and from nothing else.
THEOREM CompareCorrect == \A a, b : CompareFinds(a, b)
<1> SUFFICES ASSUME NEW a, NEW b PROVE CompareFinds(a, b)
  OBVIOUS
<1>1. ASSUME NEW left, NEW right PROVE Differs(left, right) <=> left # right
  BY DEF Differs, Ne
<1> DEFINE Listed == {n \in DOMAIN a \cup DOMAIN b : State(a, b, n) = "changed" => Differs(a[n], b[n])}
           Found == {[key |-> n, state |-> State(a, b, n)] : n \in Listed}
           A == {[key |-> n, state |-> "only a"] : n \in DOMAIN a \ DOMAIN b}
           B == {[key |-> n, state |-> "only b"] : n \in DOMAIN b \ DOMAIN a}
           C == {[key |-> n, state |-> "changed"] : n \in {m \in DOMAIN a \cap DOMAIN b : a[m] # b[m]}}
<1>2. Found \subseteq A \cup B \cup C
  <2> SUFFICES ASSUME NEW n \in Listed PROVE [key |-> n, state |-> State(a, b, n)] \in A \cup B \cup C
    OBVIOUS
  <2>1. CASE n \notin DOMAIN b
    BY <2>1 DEF State
  <2>2. CASE n \notin DOMAIN a
    BY <2>2 DEF State
  <2>3. CASE n \in DOMAIN a \cap DOMAIN b
    BY <1>1, <2>3 DEF State
  <2>4. QED BY <2>1, <2>2, <2>3
<1>3. A \cup B \cup C \subseteq Found
  <2>1. A \subseteq Found
    BY DEF State
  <2>2. B \subseteq Found
    BY DEF State
  <2>3. C \subseteq Found
    BY <1>1 DEF State
  <2>4. QED BY <2>1, <2>2, <2>3
<1>4. QED BY <1>2, <1>3 DEF CompareFinds, Compare

\* A unit of size is the byte, or a whole number of tens of bytes.
LEMMA UnitsAre == \A u \in Units : u = 1 \/ \E k \in Nat : u = 10 * k
<1>1. PICK m \in Nat : Unit = 10 * m
  <2>1. Unit = 10 * (Unit \div 10) /\ Unit \div 10 \in Nat
    BY UnitAssumption
  <2>2. QED BY <2>1
<1>2. ASSUME NEW w \in Nat PROVE \E k \in Nat : Unit * w = 10 * k
  <2>1. m * w \in Nat
    OBVIOUS
  <2>2. (10 * m) * w = 10 * (m * w)
    OBVIOUS
  <2>3. QED BY <1>1, <2>1, <2>2
<1>3. Unit \in Nat /\ Unit * Unit \in Nat
  BY UnitAssumption
<1>4. Unit * Unit * Unit = Unit * (Unit * Unit)
  BY <1>3
<1>5. \A u \in {Unit, Unit * Unit, Unit * Unit * Unit} : \E k \in Nat : u = 10 * k
  <2>1. Unit = 10 * m
    BY <1>1
  <2>2. \E k \in Nat : Unit * Unit = 10 * k
    BY <1>2, <1>3
  <2>3. \E k \in Nat : Unit * (Unit * Unit) = 10 * k
    BY <1>2, <1>3
  <2>4. QED BY <1>1, <1>4, <2>2, <2>3
<1>6. QED BY <1>5 DEF Units

\* The size that interroge() prints is the estimate to a twentieth of its unit, also after
\* it was read as a cap: what reading it back cuts off is nothing.
THEOREM SizesCorrect == \A n \in Nat : SizeReadsBack(n)
<1> SUFFICES ASSUME NEW n \in Nat, NEW s \in Size(n)
             PROVE  20 * Bytes(s) <= 20 * n + s.unit /\ 20 * n <= 20 * Bytes(s) + s.unit
  BY DEF SizeReadsBack
<1> DEFINE u == SizeUnit(n)
           down == (10 * n) \div u
           t == s.tenths
<1>1. u \in Units
  <2>1. 1 \in Units /\ \A w \in Units : w \in Nat
    BY UnitAssumption DEF Units
  <2>2. \E w \in Units : (w <= n \/ w = 1) /\ \A x \in Units : x <= n => x <= w
    <3> DEFINE U1 == Unit
               U2 == Unit * Unit
               U3 == Unit * Unit * Unit
    <3>1. U1 \in Nat /\ U2 \in Nat /\ U3 \in Nat /\ Units = {1, U1, U2, U3}
      BY UnitAssumption DEF Units
    <3>2. 1 <= U1 /\ U1 <= U2 /\ U2 <= U3
      <4>1. \A x, y \in Nat : x >= 1 => y <= y * x
        OBVIOUS
      <4>2. QED BY <3>1, <4>1, UnitAssumption
    <3> HIDE DEF U1, U2, U3
    <3>3. CASE n < U1
      BY <3>1, <3>2, <3>3
    <3>4. CASE U1 <= n /\ n < U2
      BY <3>1, <3>2, <3>4
    <3>5. CASE U2 <= n /\ n < U3
      BY <3>1, <3>2, <3>5
    <3>6. CASE U3 <= n
      BY <3>1, <3>2, <3>6
    <3>7. QED BY <3>1, <3>3, <3>4, <3>5, <3>6
  <2>3. QED BY <2>2 DEF SizeUnit
<1>2. u \in Nat \ {0}
  BY <1>1, UnitAssumption DEF Units
<1>3. /\ s.unit = u /\ t \in {down, down + 1}
      /\ 2 * t * u <= 20 * n + u /\ 20 * n <= 2 * t * u + u
  BY DEF Size
<1> HIDE DEF u
<1>4. down \in Nat
  <2>1. \A x \in Nat, y \in Nat \ {0} : x \div y \in Nat
    OBVIOUS
  <2>2. QED BY <1>2, <2>1
<1>5. t \in Nat /\ t * u \in Nat /\ 2 * t * u = 2 * (t * u)
  BY <1>2, <1>3, <1>4
<1>6. Bytes(s) = (t * u) \div 10
  BY <1>3 DEF Bytes
<1> HIDE DEF t, down
<1>7. CASE u = 1
  BY <1>3, <1>5, <1>6, <1>7
<1>8. ASSUME NEW k \in Nat, u = 10 * k PROVE 20 * Bytes(s) = 2 * (t * u)
  <2>1. t * k \in Nat /\ t * u = 10 * (t * k)
    BY <1>5, <1>8
  <2>2. \A x \in Nat : (10 * x) \div 10 = x
    OBVIOUS
  <2>3. Bytes(s) = t * k
    BY <1>6, <2>1, <2>2
  <2>4. QED BY <2>1, <2>3
<1>9. CASE \E k \in Nat : u = 10 * k
  BY <1>2, <1>3, <1>5, <1>8, <1>9
<1>10. QED BY <1>1, <1>7, <1>9, UnitsAre

\* A set of numbers that is not empty has a least element.
LEMMA LeastNat ==
  ASSUME NEW S, S \subseteq Nat, S # {}
  PROVE  \E n \in S : \A m \in S : n <= m
<1>1. IsWellFoundedOn(OpToRel(<, Nat), Nat)
  BY NatLessThanWellFounded
<1>2. PICK n \in S : \A m \in S : <<m, n>> \notin OpToRel(<, Nat)
  BY <1>1, WFMin
<1>3. \A m \in S : ~(m < n)
  BY <1>2 DEF OpToRel
<1>4. QED BY <1>3

\* A set of numbers with 0 and every successor is all of them.
LEMMA Induction ==
  ASSUME NEW P, 0 \in P, \A n \in Nat : n \in P => n + 1 \in P
  PROVE  \A n \in Nat : n \in P
<1>1. SUFFICES ASSUME Nat \ P # {} PROVE FALSE
  OBVIOUS
<1>2. PICK n \in Nat \ P : \A m \in Nat \ P : n <= m
  BY <1>1, LeastNat
<1>3. n # 0 /\ n - 1 \in Nat /\ n - 1 \notin Nat \ P
  BY <1>2
<1>4. QED BY <1>2, <1>3

\* What the loop of _charge_jsonl() has after each line, and one round of it.
LineKinds == {"blank", "object", "value", "bad"}
Tally == [rows : Seq(LineKinds), bad : Nat]
NoLines == [rows |-> <<>>, bad |-> 0]
Read(one, tally) ==
  IF one = "blank" THEN tally
  ELSE IF one = "object" THEN [tally EXCEPT !.rows = Append(@, one)]
  ELSE [tally EXCEPT !.bad = @ + 1]
Reads(f, lines, n) ==
  f \in [0..n -> Tally] /\ f[0] = NoLines /\ \A m \in 1..n : f[m] = Read(lines[m], f[m - 1])

\* A round counts its line, unless it is blank.
LEMMA ReadCounts ==
  ASSUME NEW one \in LineKinds, NEW tally \in Tally
  PROVE  /\ Read(one, tally) \in Tally
         /\ Len(Read(one, tally).rows) + Read(one, tally).bad
              = Len(tally.rows) + tally.bad + (IF one = "blank" THEN 0 ELSE 1)
<1>1. tally.rows \in Seq(LineKinds) /\ Len(tally.rows) \in Nat /\ tally.bad \in Nat
  BY DEF Tally
<1>2. CASE one = "blank"
  BY <1>1, <1>2 DEF Read
<1>3. CASE one = "object"
  <2>1. Append(tally.rows, one) \in Seq(LineKinds) /\ Len(Append(tally.rows, one)) = Len(tally.rows) + 1
    BY <1>1
  <2>2. Read(one, tally) = [tally EXCEPT !.rows = Append(tally.rows, one)]
    BY <1>3 DEF Read
  <2>3. QED BY <1>1, <1>3, <2>1, <2>2 DEF Tally
<1>4. CASE one \notin {"blank", "object"}
  <2>1. Read(one, tally) = [tally EXCEPT !.bad = tally.bad + 1]
    BY <1>4 DEF Read
  <2>2. QED BY <1>1, <1>4, <2>1 DEF Tally
<1>5. QED BY <1>2, <1>3, <1>4

\* The loop ends with a tally of all lines.
LEMMA LoopExists ==
  ASSUME NEW lines \in Seq(LineKinds)
  PROVE  \E f : Reads(f, lines, Len(lines))
<1> DEFINE P == {n \in Nat : n <= Len(lines) => \E f : Reads(f, lines, n)}
<1>1. 0 \in P
  <2>1. NoLines \in Tally
    BY DEF NoLines, Tally
  <2>2. Reads([n \in 0..0 |-> NoLines], lines, 0)
    BY <2>1 DEF Reads
  <2>3. QED BY <2>2
<1>2. ASSUME NEW n \in Nat, n \in P PROVE n + 1 \in P
  <2>1. SUFFICES ASSUME n + 1 <= Len(lines) PROVE \E f : Reads(f, lines, n + 1)
    OBVIOUS
  <2>2. PICK f : Reads(f, lines, n)
    BY <1>2, <2>1
  <2>3. lines[n + 1] \in LineKinds /\ f[n] \in Tally
    BY <2>1, <2>2 DEF Reads
  <2>4. Read(lines[n + 1], f[n]) \in Tally
    BY <2>3, ReadCounts
  <2> DEFINE g == [m \in 0..n + 1 |-> IF m = n + 1 THEN Read(lines[n + 1], f[n]) ELSE f[m]]
  <2>5. g \in [0..n + 1 -> Tally] /\ g[0] = NoLines
    BY <2>2, <2>4 DEF Reads
  <2>6. ASSUME NEW m \in 1..n + 1 PROVE g[m] = Read(lines[m], g[m - 1])
    <3>1. CASE m = n + 1
      BY <3>1
    <3>2. CASE m # n + 1
      <4>1. m \in 1..n /\ m - 1 \in 0..n + 1 /\ m - 1 # n + 1
        BY <3>2
      <4>2. g[m] = f[m] /\ g[m - 1] = f[m - 1]
        BY <4>1
      <4>3. QED BY <2>2, <4>1, <4>2 DEF Reads
    <3>3. QED BY <3>1, <3>2
  <2>7. Reads(g, lines, n + 1)
    BY <2>5, <2>6 DEF Reads
  <2>8. QED BY <2>7
<1>3. Len(lines) \in P
  <2> HIDE DEF P
  <2>1. QED BY <1>1, <1>2, Induction
<1>4. QED BY <1>3

\* The loop of ChargeJsonl is that one.
LEMMA LoopIs ==
  ASSUME NEW lines \in Seq(LineKinds)
  PROVE  \E f : Reads(f, lines, Len(lines)) /\ ChargeJsonl(lines) = f[Len(lines)]
<1> DEFINE N == Len(lines)
           Loop(f) == f = [n \in 0..N |-> IF n = 0 THEN NoLines ELSE Read(lines[n], f[n - 1])]
           u == CHOOSE f : Loop(f)
<1>1. N \in Nat
  OBVIOUS
<1>2. PICK f : Reads(f, lines, N)
  BY LoopExists
<1>3. ChargeJsonl(lines) = u[N]
  BY DEF ChargeJsonl, NoLines, Read
<1> HIDE DEF N
<1>4. Loop(f)
  BY <1>1, <1>2 DEF Reads
<1>5. Loop(u)
  BY <1>4
<1> HIDE DEF u
<1>6. u[0] = NoLines /\ \A m \in 1..N : u[m] = Read(lines[m], u[m - 1])
  BY <1>1, <1>5
<1> DEFINE P == {n \in Nat : n <= N => u[n] = f[n]}
<1>7. 0 \in P
  BY <1>2, <1>6 DEF Reads
<1>8. ASSUME NEW n \in Nat, n \in P PROVE n + 1 \in P
  <2>1. SUFFICES ASSUME n + 1 <= N PROVE u[n + 1] = f[n + 1]
    OBVIOUS
  <2>2. n + 1 \in 1..N /\ n + 1 - 1 = n /\ u[n] = f[n]
    BY <1>1, <1>8, <2>1
  <2>3. u[n + 1] = Read(lines[n + 1], u[n]) /\ f[n + 1] = Read(lines[n + 1], f[n])
    BY <1>2, <1>6, <2>2 DEF Reads
  <2>4. QED BY <2>2, <2>3
<1>9. N \in P
  <2> HIDE DEF P
  <2>1. QED BY <1>1, <1>7, <1>8, Induction
<1>10. QED BY <1>2, <1>3, <1>9 DEF N

\* charge() makes a row of each object in a .jsonl file and counts every other line that is
\* not blank (_charge_jsonl).
THEOREM LinesCorrect == ASSUME NEW lines \in Seq(LineKinds) PROVE LinesCounted(lines)
<1> DEFINE N == Len(lines)
           Said(n) == {i \in 1..n : lines[i] # "blank"}
<1>1. PICK f : Reads(f, lines, N) /\ ChargeJsonl(lines) = f[N]
  BY LoopIs
<1>2. N \in Nat /\ DOMAIN lines = 1..N /\ \A n \in 1..N : lines[n] \in LineKinds
  OBVIOUS
<1> DEFINE P == {n \in Nat : n <= N =>
                   /\ IsFiniteSet(Said(n)) /\ f[n] \in Tally
                   /\ Cardinality(Said(n)) = Len(f[n].rows) + f[n].bad}
<1> HIDE DEF N
<1>3. 0 \in P
  <2>1. Said(0) = {}
    OBVIOUS
  <2>2. f[0] = NoLines /\ NoLines \in Tally /\ Len(NoLines.rows) + NoLines.bad = 0
    BY <1>1 DEF Reads, NoLines, Tally
  <2>3. QED BY <2>1, <2>2, FS_EmptySet
<1>4. ASSUME NEW n \in Nat, n \in P PROVE n + 1 \in P
  <2> DEFINE one == lines[n + 1]
  <2>1. SUFFICES ASSUME n + 1 <= N
                 PROVE  /\ IsFiniteSet(Said(n + 1)) /\ f[n + 1] \in Tally
                        /\ Cardinality(Said(n + 1)) = Len(f[n + 1].rows) + f[n + 1].bad
    OBVIOUS
  <2>2. /\ IsFiniteSet(Said(n)) /\ f[n] \in Tally
        /\ Cardinality(Said(n)) = Len(f[n].rows) + f[n].bad
    BY <1>2, <1>4, <2>1
  <2>3. f[n + 1] = Read(one, f[n]) /\ one \in LineKinds
    <3>1. n + 1 \in 1..N /\ n + 1 - 1 = n
      BY <1>2, <2>1
    <3>2. QED BY <1>1, <1>2, <3>1 DEF Reads
  <2>4. Said(n + 1) = IF one = "blank" THEN Said(n) ELSE Said(n) \cup {n + 1}
    <3>1. 1..n + 1 = 1..n \cup {n + 1}
      OBVIOUS
    <3>2. QED BY <3>1
  <2>5. n + 1 \notin Said(n)
    OBVIOUS
  <2> HIDE DEF Said, one
  <2>6. /\ IsFiniteSet(Said(n) \cup {n + 1})
        /\ Cardinality(Said(n) \cup {n + 1}) = Cardinality(Said(n)) + 1
    BY <2>2, <2>5, FS_AddElement
  <2>7. Len(f[n].rows) + f[n].bad \in Nat
    BY <2>2 DEF Tally
  <2>8. /\ f[n + 1] \in Tally
        /\ Len(f[n + 1].rows) + f[n + 1].bad
             = Len(f[n].rows) + f[n].bad + (IF one = "blank" THEN 0 ELSE 1)
    BY <2>2, <2>3, ReadCounts
  <2>9. QED BY <2>2, <2>4, <2>6, <2>7, <2>8
<1>5. N \in P
  <2> HIDE DEF P
  <2>1. QED BY <1>2, <1>3, <1>4, Induction
<1>6. Cardinality(Said(N)) = Len(ChargeJsonl(lines).rows) + ChargeJsonl(lines).bad
  <2>1. ChargeJsonl(lines) = f[N]
    BY <1>1
  <2>2. Cardinality(Said(N)) = Len(f[N].rows) + f[N].bad
    <3>1. N <= N
      BY <1>2
    <3> HIDE DEF Said
    <3>2. QED BY <1>5, <3>1
  <2> HIDE DEF P, Said
  <2>3. QED BY <2>1, <2>2
<1>7. {i \in DOMAIN lines : lines[i] # "blank"} = Said(N)
  BY <1>2
<1> HIDE DEF Said
<1>8. QED BY <1>6, <1>7, Zenon DEF LinesCounted

\* A column with codes keeps their zeros, and one of other numbers stays one of numbers
\* (_charge_csv).
THEOREM CodesCorrect == \A column : CodesKept(column)
  BY DEF CodesKept, ChargeColumn, Keep, Inferred

\* joins(), compare(), charge() and interroge() do what they promise.
THEOREM VerbsCorrect == RequestsSpec => []VerbsAgree
<1>1. ASSUME NEW m \in 0..MaxRows, NEW n \in 0..MaxRows,
             NEW a \in [1..m -> MCKeys], NEW b \in [1..n -> MCKeys]
      PROVE  JoinsKeepRows(a, b)
  <2>1. a \in Seq(MCKeys) /\ b \in Seq(MCKeys)
    BY BoundsAssumption
  <2>2. QED BY <2>1, JoinsCorrect
<1>2. ASSUME NEW lines \in MCLines({"blank", "object", "value", "bad"}) PROVE LinesCounted(lines)
  <2>1. PICK n \in 0..MaxRows : lines \in [1..n -> LineKinds]
    BY DEF MCLines, LineKinds
  <2>2. lines \in Seq(LineKinds)
    BY <2>1, BoundsAssumption
  <2>3. QED BY <2>2, LinesCorrect
<1>3. \A n \in 0..MaxBytes : SizeReadsBack(n)
  BY BoundsAssumption, SizesCorrect
<1>4. VerbsAgree
  BY <1>1, <1>2, <1>3, CompareCorrect, CodesCorrect DEF VerbsAgree
<1>5. QED BY <1>4, PTL
=============================================================================

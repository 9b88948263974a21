---------------------------- MODULE BridgeProcess ----------------------------
(***************************************************************************)
(* core/bridge.py from launch to exit, with the kernel process that it     *)
(* starts, the thread that watches the owner, and the host that owns it.   *)
(* Requests are the business of KernelRuntime; here the bridge serves      *)
(* until something ends it.                                                *)
(*                                                                         *)
(* The main thread may stall at any step, so nothing assumes that it goes  *)
(* on, except while it holds the lock.                                     *)
(***************************************************************************)
EXTENDS Naturals

VARIABLES
  owner,      \* the host process: alive or dead
  main,       \* progress of main(); "cut" is an exit without the cleanup
  hasKernel,  \* manager.has_kernel
  tracked,    \* _KERNEL_PGID is set
  ownerDead,  \* _OWNER_DEAD
  lock,       \* holder of _OWNER_LOCK
  sigterm,    \* a SIGTERM that Python has not handled yet
  failed,     \* shutdown_kernel() raised an exception
  monitor,    \* progress of monitor_owner()
  gate,       \* what a read of the launch gate finds: nothing yet, the byte, or EOF
  kernel,     \* the kernel process
  told,       \* kernel_started was sent
  host        \* the runtime: what it does with the bridge, whether it knows the
              \* process group, and whether terminate() or shutdown() knew it

bridge == <<main, hasKernel, tracked, ownerDead, lock, sigterm, failed, monitor, told>>
vars == <<owner, bridge, gate, kernel, host>>

Cleanup == {"cleanup", "channels", "stop", "last"}
Ended == main \in {"gone", "cut"}

TypeOK ==
  /\ owner \in {"alive", "dead"}
  /\ main \in {"check", "launch", "forked", "launched", "recorded", "opened", "serving", "finally"}
                \cup Cleanup \cup {"gone", "cut"}
  /\ {hasKernel, tracked, ownerDead, sigterm, failed, told} \subseteq BOOLEAN
  /\ lock \in {"free", "main"}
  /\ monitor \in {"watch", "grace", "exit"}
  /\ gate \in {"shut", "byte", "eof"}
  /\ kernel \in {"none", "gated", "running", "gone"}
  /\ host \in [phase : {"watch", "closing", "term", "reap", "done"},
               knows : BOOLEAN, knew : BOOLEAN]
  /\ sigterm => main \notin Cleanup
  /\ lock = "main" <=> main = "recorded"

Init ==
  /\ owner = "alive" /\ main = "check" /\ hasKernel = FALSE /\ tracked = FALSE
  /\ ownerDead = FALSE /\ lock = "free" /\ sigterm = FALSE /\ failed = FALSE
  /\ monitor = "watch" /\ gate = "shut" /\ kernel = "none" /\ told = FALSE
  /\ host = [phase |-> "watch", knows |-> FALSE, knew |-> FALSE]

\* No kernel code runs, now or later.
Quenched == kernel # "running" /\ ~(kernel = "gated" /\ gate = "byte")

Killed == IF kernel = "none" THEN "none" ELSE "gone"
PipeClosed == IF gate = "shut" THEN "eof" ELSE gate

-----------------------------------------------------------------------------
(***************************************************************************)
(* main() up to the end of its loop.                                       *)
(***************************************************************************)
Goto(from, to) == main = from /\ main' = to

CheckOwner ==
  /\ Goto("check", IF owner = "dead" THEN "finally" ELSE "launch")
  /\ UNCHANGED <<owner, hasKernel, tracked, ownerDead, lock, sigterm, failed, monitor, told,
                 gate, kernel, host>>

\* Mutant: the kernel is launched without the gate.
Fork_Ungated ==
  /\ Goto("launch", "forked")
  /\ kernel' = "running"
  /\ UNCHANGED <<owner, hasKernel, tracked, ownerDead, lock, sigterm, failed, monitor, told,
                 gate, host>>

\* start_kernel() forks the child, which reads the gate first.
Fork ==
  /\ Goto("launch", "forked")
  /\ kernel' = "gated"
  /\ UNCHANGED <<owner, hasKernel, tracked, ownerDead, lock, sigterm, failed, monitor, told,
                 gate, host>>

JupyterRecords ==
  /\ Goto("forked", "launched")
  /\ hasKernel' = TRUE
  /\ UNCHANGED <<owner, tracked, ownerDead, lock, sigterm, failed, monitor, told, gate, kernel, host>>

Record ==
  /\ Goto("launched", "recorded") /\ lock = "free"
  /\ lock' = "main" /\ tracked' = TRUE
  /\ UNCHANGED <<owner, hasKernel, ownerDead, sigterm, failed, monitor, told, gate, kernel, host>>

OpenGate ==
  /\ lock' = "free"
  /\ IF ownerDead \/ owner = "dead"
     THEN Goto("recorded", "finally") /\ UNCHANGED gate
     ELSE Goto("recorded", "opened") /\ gate' = "byte"
  /\ UNCHANGED <<owner, hasKernel, tracked, ownerDead, sigterm, failed, monitor, told, kernel, host>>

Announce ==
  /\ Goto("opened", "serving")
  /\ told' = TRUE
  /\ UNCHANGED <<owner, hasKernel, tracked, ownerDead, lock, sigterm, failed, monitor, gate,
                 kernel, host>>

\* The end of input, a shutdown request, or any exception.
LoopEnds ==
  /\ \E from \in {"launch", "launched", "opened", "serving"} : Goto(from, "finally")
  /\ UNCHANGED <<owner, hasKernel, tracked, ownerDead, lock, sigterm, failed, monitor, told,
                 gate, kernel, host>>

\* terminate_bridge() raises SystemExit in the main thread. In the finally block,
\* before its first statement took effect, that skips the cleanup.
Unwind ==
  /\ sigterm /\ ~Ended
  /\ sigterm' = FALSE /\ lock' = "free"
  /\ IF main = "finally"
     THEN main' = "cut" /\ gate' = PipeClosed
     ELSE main' = "finally" /\ UNCHANGED gate
  /\ UNCHANGED <<owner, hasKernel, tracked, ownerDead, failed, monitor, told, kernel, host>>

(***************************************************************************)
(* The finally block.                                                      *)
(***************************************************************************)
\* Mutant: SIGTERM keeps its handler.
IgnoreSignals_Not ==
  /\ Goto("finally", "cleanup")
  /\ gate' = PipeClosed
  /\ UNCHANGED <<owner, hasKernel, tracked, ownerDead, lock, sigterm, failed, monitor, told,
                 kernel, host>>

IgnoreSignals ==
  /\ Goto("finally", "cleanup") /\ ~sigterm
  /\ gate' = PipeClosed
  /\ UNCHANGED <<owner, hasKernel, tracked, ownerDead, lock, sigterm, failed, monitor, told,
                 kernel, host>>

\* kill_kernel_group() if the owner is gone.
KillIfOrphaned == kernel' = IF owner = "dead" /\ tracked THEN Killed ELSE kernel

FirstCheck ==
  /\ Goto("cleanup", "channels") /\ KillIfOrphaned
  /\ UNCHANGED <<owner, hasKernel, tracked, ownerDead, lock, sigterm, failed, monitor, told,
                 gate, host>>

\* Returns, raises an exception that is kept for later, or blocks.
StopChannels ==
  /\ Goto("channels", "stop")
  /\ UNCHANGED <<owner, hasKernel, tracked, ownerDead, lock, sigterm, failed, monitor, told,
                 gate, kernel, host>>

ShutdownKernel ==
  /\ Goto("stop", "last")
  /\ \/ kernel' = (IF hasKernel THEN Killed ELSE kernel) /\ UNCHANGED failed
     \/ hasKernel /\ failed' = TRUE /\ UNCHANGED kernel
  /\ UNCHANGED <<owner, hasKernel, tracked, ownerDead, lock, sigterm, monitor, told, gate, host>>

\* Mutant: the owner is looked at only before the kernel is shut down.
LastCheck_Skipped ==
  /\ Goto("last", "gone")
  /\ UNCHANGED <<owner, hasKernel, tracked, ownerDead, lock, sigterm, failed, monitor, told,
                 gate, kernel, host>>

LastCheck ==
  /\ Goto("last", "gone") /\ KillIfOrphaned
  /\ UNCHANGED <<owner, hasKernel, tracked, ownerDead, lock, sigterm, failed, monitor, told,
                 gate, host>>

Main ==
  \/ CheckOwner \/ Fork \/ JupyterRecords \/ Record \/ OpenGate \/ Announce \/ LoopEnds
  \/ Unwind \/ IgnoreSignals \/ FirstCheck \/ StopChannels \/ ShutdownKernel \/ LastCheck

-----------------------------------------------------------------------------
(***************************************************************************)
(* monitor_owner().                                                        *)
(***************************************************************************)
MonitorNotices ==
  /\ ~Ended /\ monitor = "watch" /\ owner = "dead" /\ lock = "free"
  /\ ownerDead' = TRUE /\ sigterm' = (main \notin Cleanup) /\ monitor' = "grace"
  /\ UNCHANGED <<owner, main, hasKernel, tracked, lock, failed, told, gate, kernel, host>>

\* Three seconds later.
MonitorKills ==
  /\ ~Ended /\ monitor = "grace" /\ lock = "free"
  /\ kernel' = IF tracked THEN Killed ELSE kernel
  /\ monitor' = "exit"
  /\ UNCHANGED <<owner, main, hasKernel, tracked, ownerDead, lock, sigterm, failed, told, gate, host>>

\* Mutant: the thread relies on SIGTERM alone.
MonitorExits_Never == FALSE /\ UNCHANGED vars

MonitorExits ==
  /\ ~Ended /\ monitor = "exit"
  /\ main' = "gone" /\ lock' = "free" /\ gate' = PipeClosed
  /\ UNCHANGED <<owner, hasKernel, tracked, ownerDead, sigterm, failed, monitor, told, kernel, host>>

(***************************************************************************)
(* The kernel process: the launch gate, then IPython.                      *)
(***************************************************************************)
ReadGate ==
  /\ kernel = "gated" /\ gate # "shut"
  /\ kernel' = IF gate = "byte" THEN "running" ELSE "gone"
  /\ UNCHANGED <<owner, bridge, gate, host>>

KernelExits == kernel = "running" /\ kernel' = "gone" /\ UNCHANGED <<owner, bridge, gate, host>>

(***************************************************************************)
(* The owner: KernelRuntime, which learns the process group from           *)
(* kernel_started, and reads that line before it sees the bridge close.    *)
(***************************************************************************)
OwnerDies == owner = "alive" /\ owner' = "dead" /\ UNCHANGED <<bridge, gate, kernel, host>>

HostLearns ==
  /\ owner = "alive" /\ told /\ ~host.knows
  /\ host' = [host EXCEPT !.knows = TRUE]
  /\ UNCHANGED <<owner, bridge, gate, kernel>>

HostShutdown ==
  /\ owner = "alive" /\ host.phase = "watch" /\ host.knows
  /\ host' = [host EXCEPT !.phase = "closing", !.knew = TRUE]
  /\ UNCHANGED <<owner, bridge, gate, kernel>>

\* terminate(): SIGTERM to both groups. The kernel may ignore it.
HostTerminate ==
  /\ owner = "alive" /\ host.phase \in {"watch", "closing"}
  /\ host' = [host EXCEPT !.phase = "term", !.knew = host.knows]
  /\ sigterm' = (~Ended /\ main \notin Cleanup)
  /\ kernel' \in (IF host.knows THEN {kernel, Killed} ELSE {kernel})
  /\ UNCHANGED <<owner, main, hasKernel, tracked, ownerDead, lock, failed, monitor, told, gate>>

\* SIGKILL a second later, unless both are gone before.
HostForces ==
  /\ owner = "alive" /\ host.phase = "term"
  /\ host' = [host EXCEPT !.phase = "reap"]
  /\ kernel' = IF host.knew THEN Killed ELSE kernel
  /\ IF Ended THEN UNCHANGED <<main, lock, gate>>
              ELSE main' = "cut" /\ lock' = "free" /\ gate' = PipeClosed
  /\ UNCHANGED <<owner, hasKernel, tracked, ownerDead, sigterm, failed, monitor, told>>

\* Mutant: the process group is left to the bridge.
Reap_Never == kernel

\* reapProcessGroup(), or terminateProcessGroup() after an exit nobody asked for.
Reap == IF host.knows THEN Killed ELSE kernel

HostSeesClose ==
  /\ owner = "alive" /\ Ended /\ (told => host.knows)
  /\ host.phase \in {"watch", "closing", "reap"}
  /\ host' = [host EXCEPT !.phase = "done", !.knew = IF host.phase = "watch" THEN host.knows ELSE @]
  /\ kernel' = IF host.phase = "watch" \/ host.knew THEN Reap ELSE kernel
  /\ UNCHANGED <<owner, bridge, gate>>

Watch == MonitorNotices \/ MonitorKills \/ MonitorExits
Host == HostLearns \/ HostShutdown \/ HostTerminate \/ HostForces \/ HostSeesClose
Next == Main \/ Watch \/ ReadGate \/ KernelExits \/ OwnerDies \/ Host
Spec == Init /\ [][Next]_vars

\* The thread runs, the lock is not kept, the child reads its gate.
Fairness == WF_vars(Watch) /\ WF_vars(OpenGate) /\ WF_vars(ReadGate)
FairSpec == Spec /\ Fairness

-----------------------------------------------------------------------------
(***************************************************************************)
(* Properties.                                                             *)
(***************************************************************************)

\* Kernel code runs only in a process group that the monitor can kill.
GateHolds == ~Quenched => tracked

\* A bridge that exits after its owner died leaves no kernel behind, also when
\* the main thread is stuck and when shutting the kernel down failed.
OwnerDeathReaps ==
  [][~Ended /\ main' = "gone" /\ owner = "dead" => Quenched']_vars

\* When the owner dies, the bridge exits, and the kernel with it, unless SIGTERM cut
\* the cleanup short.
OwnerGone ==
  (owner = "dead" /\ ~Ended) ~> (main = "cut" \/ (main = "gone" /\ kernel \in {"none", "gone"}))

\* When the runtime is done with a bridge there is no kernel, provided that it
\* knew the process group or that the bridge cleaned up.
HostLeavesNone ==
  host.phase = "done" /\ (host.knew \/ (main = "gone" /\ ~failed)) => Quenched
=============================================================================

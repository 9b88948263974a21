---------------------------- MODULE KernelService ----------------------------
(***************************************************************************)
(* What a KernelRuntime promises its callers, without processes, signals   *)
(* or promises: kernels follow one another, one request runs at a time, an *)
(* answered request ran in one kernel from start to end, and a kernel is   *)
(* replaced only while no request is in flight.                            *)
(***************************************************************************)
EXTENDS Naturals

CONSTANT Calls

VARIABLES epoch,   \* how many kernels became ready
          status,  \* what a caller knows of its call
          ranAt    \* the kernel that received its request

svars == <<epoch, status, ranAt>>

Init ==
  /\ epoch = 0
  /\ status = [c \in Calls |-> "idle"]
  /\ ranAt = [c \in Calls |-> 0]

Move(c, from, to) ==
  /\ status[c] \in from
  /\ status' = [status EXCEPT ![c] = to]

NoneRunning == \A c \in Calls : status[c] # "running"

Begin(c) == Move(c, {"idle"}, "pending") /\ UNCHANGED <<epoch, ranAt>>

Run(c) ==
  /\ epoch > 0 /\ NoneRunning
  /\ Move(c, {"idle", "pending"}, "running")
  /\ ranAt' = [ranAt EXCEPT ![c] = epoch]
  /\ UNCHANGED epoch

Answer(c) ==
  /\ ranAt[c] = epoch
  /\ Move(c, {"running"}, "ok")
  /\ UNCHANGED <<epoch, ranAt>>

\* A viewer learns the connection file of the kernel.
View(c) == epoch > 0 /\ Move(c, {"pending"}, "ok") /\ UNCHANGED <<epoch, ranAt>>

\* The kernel of a request that ignores its interrupt is being killed.
GiveUpOn(c) == Move(c, {"running"}, "losing") /\ UNCHANGED <<epoch, ranAt>>

\* Calls that never ran are refused, calls that ran lose their kernel.
Fail ==
  \E refused \in SUBSET {c \in Calls : status[c] \in {"idle", "pending"}},
     lost \in SUBSET {c \in Calls : status[c] \in {"running", "losing"}} :
       /\ status' = [c \in Calls |-> CASE c \in refused -> "refused"
                                       [] c \in lost -> "lost"
                                       [] OTHER -> status[c]]
       /\ UNCHANGED <<epoch, ranAt>>

NewKernel == NoneRunning /\ epoch' = epoch + 1 /\ UNCHANGED <<status, ranAt>>

Next ==
  \/ \E c \in Calls : Begin(c) \/ Run(c) \/ Answer(c) \/ View(c) \/ GiveUpOn(c)
  \/ Fail
  \/ NewKernel

Spec == Init /\ [][Next]_svars
=============================================================================

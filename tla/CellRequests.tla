---------------------------- MODULE CellRequests ----------------------------
(***************************************************************************)
(* A bridge that serves: the requests of its runtime one after another,    *)
(* what the bridge makes of them (execute(), evaluate(), execute_hidden()  *)
(* in core/bridge.py), the code that the kernel runs for them, and the     *)
(* SIGINT of KernelRuntime.interrupt(), which meets that code anywhere.    *)
(* The code of a cell may call two functions of core/kernel/headstart.py   *)
(* that a SIGINT or the end of the cell concerns: interroge(), whose query *)
(* runs at BigQuery, and montre(), whose view replaces the cell's result.  *)
(*                                                                         *)
(* The bridge and its kernel start and end as in BridgeProcess, at any     *)
(* point of a request. The startup code is left out: the first request     *)
(* finds a kernel that is ready.                                           *)
(***************************************************************************)
EXTENDS BridgeProcess

VARIABLES
  request,  \* active: none, active, interrupted
  kind,     \* what it asks for: cell or evaluate
  step,     \* the line of the request, the message that the bridge waits for, the answer
  reply,    \* the execute_reply that the bridge has not read
  code,     \* what the kernel's main thread runs
  sigint,   \* a SIGINT that this code has not seen
  job,      \* the query of interroge() at BigQuery
  shown,    \* _shown is the frame of the cells
  printed,  \* history: montre() printed the frame during this cell
  aim,      \* history: what the SIGINT of this request met
  deaf      \* history: the code went on in spite of it

line == <<request, kind, step>>
python == <<reply, code, sigint, job, shown, printed>>
requestVars == <<line, python, aim, deaf>>
allVars == <<vars, requestVars>>

CellCode == {"sync", "await", "submit", "download"}
Awaited == {"chdir", "cell", "evaluate"}

RequestsTypeOK ==
  /\ TypeOK
  /\ request \in {"none", "active", "interrupted"} /\ kind \in {"cell", "evaluate"}
  /\ step \in {"loop", "sent", "result", "error"} \cup Awaited
  /\ reply \in {"none", "ok", "error"}
  /\ code \in {"idle", "chdir", "evaluate"} \cup CellCode
  /\ job \in {"none", "running", "cancelled", "done"}
  /\ {sigint, shown, printed, deaf} \subseteq BOOLEAN
  /\ aim \in {"none", "idle", "chdir", "evaluate"} \cup CellCode

RequestsInit ==
  /\ Init
  /\ request = "none" /\ kind = "cell" /\ step = "loop"
  /\ reply = "none" /\ code = "idle" /\ sigint = FALSE /\ job = "none"
  /\ shown = FALSE /\ printed = FALSE /\ aim = "none" /\ deaf = FALSE

Serving == main = "serving"
Waits == Serving /\ step \in Awaited
HostReads == owner = "alive" /\ host.phase \in {"watch", "closing"}

-----------------------------------------------------------------------------
(***************************************************************************)
(* The runtime: request(), interrupt(), and the lines that settle.         *)
(***************************************************************************)
Request(k) ==
  /\ HostReads /\ host.phase = "watch" /\ host.knows /\ Serving /\ kernel \in {"running", "gone"}
  /\ request = "none" /\ step = "loop"
  /\ request' = "active" /\ kind' = k /\ step' = "sent"
  /\ job' = "none" /\ aim' = "none" /\ deaf' = FALSE
  /\ UNCHANGED <<vars, reply, code, sigint, shown, printed>>

\* Between two messages the kernel ignores SIGINT.
HostInterrupts ==
  /\ HostReads /\ request = "active"
  /\ request' = "interrupted" /\ aim' = code
  /\ sigint' = (kernel = "running" /\ code # "idle")
  /\ UNCHANGED <<vars, kind, step, reply, code, job, shown, printed, deaf>>

\* What the kernel runs ends with it.
CodeOfKernel ==
  /\ code' = IF kernel' = "running" THEN code ELSE "idle"
  /\ sigint' = (sigint /\ kernel' = "running")
  /\ UNCHANGED <<reply, job, shown, printed>>

\* The grace period is over, and nothing that takes a moment is left to happen.
GraceExpires(moment) ==
  /\ request = "interrupted" /\ ~moment
  /\ HostTerminate /\ CodeOfKernel
  /\ request' = "none"
  /\ UNCHANGED <<kind, step, aim, deaf>>

ResultRead ==
  /\ HostReads /\ request # "none" /\ step = "result"
  /\ request' = "none" /\ step' = "loop"
  /\ UNCHANGED <<vars, kind, python, aim, deaf>>

\* A bridge_error: the state of the kernel counts as lost.
ErrorRead ==
  /\ request # "none" /\ step = "error"
  /\ HostTerminate /\ CodeOfKernel
  /\ request' = "none" /\ step' = "loop"
  /\ UNCHANGED <<kind, aim, deaf>>

(***************************************************************************)
(* The bridge: the body of its loop, until the answer is on its way.       *)
(***************************************************************************)

\* A cell whose directory is gone raises before anything runs.
BridgeReads ==
  /\ Serving /\ step = "sent"
  /\ step' \in IF kind = "cell" THEN {"chdir", "error"} ELSE {"evaluate"}
  /\ UNCHANGED <<vars, request, kind, python, aim, deaf>>

\* execute_hidden() raises what its code raised.
AfterHidden(status) == IF status = "ok" THEN "cell" ELSE "error"

ReplyRead ==
  /\ Waits /\ reply # "none"
  /\ step' = IF step = "chdir" THEN AfterHidden(reply) ELSE "result"
  /\ reply' = "none"
  /\ UNCHANGED <<vars, request, kind, code, sigint, job, shown, printed, aim, deaf>>

\* wait_for_execution() finds that the kernel exited.
KernelMissed ==
  /\ Waits /\ reply = "none" /\ kernel = "gone"
  /\ step' = "error"
  /\ UNCHANGED <<vars, request, kind, python, aim, deaf>>

(***************************************************************************)
(* The kernel.                                                             *)
(***************************************************************************)
KernelTakes ==
  /\ kernel = "running" /\ code = "idle" /\ reply = "none" /\ step \in Awaited
  /\ code' = IF step = "cell" THEN "sync" ELSE step
  /\ printed' = FALSE
  /\ UNCHANGED <<vars, line, reply, sigint, job, shown, aim, deaf>>

\* Code of a cell goes on only after it saw a SIGINT.
Running(c) == kernel = "running" /\ code = c /\ ~sigint

\* Top-level await.
Awaiting ==
  /\ \/ Running("sync") /\ code' = "await"
     \/ Running("await") /\ code' = "sync"
  /\ UNCHANGED <<vars, line, reply, sigint, job, shown, printed, aim, deaf>>

\* client.query(), the job at BigQuery, the try statement around its download.
Interroge ==
  /\ \/ Running("sync") /\ job = "none" /\ code' = "submit" /\ UNCHANGED job
     \/ Running("submit") /\ job = "none" /\ job' = "running" /\ UNCHANGED code
     \/ Running("submit") /\ job = "running" /\ code' = "download" /\ UNCHANGED job
     \/ Running("download") /\ code' = "sync" /\ job' = "done"
  /\ UNCHANGED <<vars, line, reply, sigint, shown, printed, aim, deaf>>

Montre ==
  /\ Running("sync")
  /\ shown' = TRUE /\ printed' = TRUE
  /\ UNCHANGED <<vars, line, reply, code, sigint, job, aim, deaf>>

\* Mutant: nothing is registered for post_execute.
Forget_Never == shown

\* _forget(), when the code of a message is over, whatever ended it.
Forget == FALSE

Replies(status) == reply' = status /\ code' = "idle" /\ sigint' = FALSE /\ shown' = Forget

\* _skip_shown(): the result of the cell is the frame that was shown.
Hidden(result) == shown /\ result = "frame"

\* The last line of a cell: a value for the display hook, or none.
CellEnds(result) ==
  /\ kernel = "running" /\ code = "sync"
  /\ Replies("ok")
  /\ UNCHANGED <<vars, line, job, printed, aim, deaf>>

\* An exception, or the end of hidden code. A query that raises is over.
CodeEnds ==
  /\ kernel = "running" /\ code \in {"chdir", "evaluate", "sync", "await", "download"}
  /\ \E status \in (IF code \in CellCode THEN {"error"} ELSE {"ok", "error"}) : Replies(status)
  /\ job' = IF code = "download" THEN "done" ELSE job
  /\ UNCHANGED <<vars, line, printed, aim, deaf>>

\* Mutant: the handler of ipykernel, which need not wake the loop of an await.
Interruptible_Asleep == {"chdir", "evaluate"} \cup (CellCode \ {"await"})

\* KeyboardInterrupt in code, the cancelled future in a top-level await.
Interruptible == {"chdir", "evaluate"} \cup CellCode

\* Mutant: the interrupt leaves interroge() as any other exception does.
AfterInterrupt_Left == job

\* The job that is being downloaded is cancelled.
AfterInterrupt == IF code = "download" THEN "cancelled" ELSE job

\* The code stops, or catches the exception and goes on.
SigintSeen ==
  /\ kernel = "running" /\ sigint /\ code \in Interruptible
  /\ job' = AfterInterrupt
  /\ \/ Replies("error") /\ UNCHANGED deaf
     \/ /\ code # "chdir"
        /\ sigint' = FALSE /\ deaf' = TRUE
        /\ code' = IF code = "evaluate" THEN code ELSE "sync"
        /\ UNCHANGED <<reply, shown>>
  /\ UNCHANGED <<vars, line, printed, aim>>

-----------------------------------------------------------------------------
\* Bridge and kernel start and end.
ProcessStep ==
  /\ Next /\ CodeOfKernel
  /\ request' = IF host'.phase \in {"term", "done"} THEN "none" ELSE request
  /\ UNCHANGED <<kind, step, aim, deaf>>

\* What takes far less than the three seconds of the grace period: lines and messages
\* are read, the hidden chdir ends, code that can be interrupted is.
Momentary ==
  \/ step \in {"result", "error"}
  \/ Serving /\ step = "sent"
  \/ Waits /\ (reply # "none" \/ kernel = "gone")
  \/ kernel = "running" /\ step \in Awaited /\ reply = "none" /\ code = "idle"
  \/ kernel = "running" /\ (code = "chdir" \/ (sigint /\ code \in Interruptible))

Requests ==
  \/ \E k \in {"cell", "evaluate"} : Request(k)
  \/ HostInterrupts \/ GraceExpires(Momentary) \/ ResultRead \/ ErrorRead
  \/ BridgeReads \/ ReplyRead \/ KernelMissed
  \/ KernelTakes \/ Awaiting \/ Interroge \/ Montre \/ CodeEnds \/ SigintSeen
  \/ \E result \in {"frame", "none"} : CellEnds(result)

RequestsNext == ProcessStep \/ Requests
RequestsSpec == RequestsInit /\ [][RequestsNext]_allVars /\ Fairness

-----------------------------------------------------------------------------
(***************************************************************************)
(* Properties.                                                             *)
(***************************************************************************)

\* An interrupt costs the state of the kernel only if the code did not heed it, the
\* kernel was between two messages or in the hidden chdir, or the processes had ended.
InterruptSpares ==
  [][request = "interrupted" /\ (GraceExpires(Momentary) \/ ErrorRead) =>
       deaf \/ aim \in {"idle", "chdir"} \/ kernel = "gone" \/ ~Serving]_allVars

\* A cell that was interrupted and kept its kernel leaves no query running, unless the
\* SIGINT came before interroge() held the job.
QueriesCancelled ==
  [][ResultRead /\ request = "interrupted" /\ job = "running" => aim = "submit"]_allVars

\* A cell's result is hidden only if the same cell printed its view.
HiddenWasShown ==
  [][\A result \in {"frame", "none"} : CellEnds(result) /\ Hidden(result) => printed]_allVars
=============================================================================

----------------------------- MODULE Checkpoints -----------------------------
(***************************************************************************)
(* core/persistence.ts and the cell tool of extensions/ipython.ts: which   *)
(* state a cell runs on, and what its result says of it.                   *)
(*                                                                         *)
(* A namespace is named by the last cell that ran in it: NoId at startup,  *)
(* the ID of the checkpoint of that cell, or Partial when a restore was    *)
(* cut short in it. The kernel runtime and the store, which have modules   *)
(* of their own, appear as the kernel that is up, what it holds, and the   *)
(* checkpoints that a restore can find.                                    *)
(*                                                                         *)
(* Continuations of settled promises run before the next event: an event,  *)
(* such as the end of a cell, waits while one of them is Pending.          *)
(***************************************************************************)
EXTENDS Naturals, FiniteSets, Sequences

CONSTANTS Ids, NoId, Partial,
          Attempts,    \* RESTORE_ATTEMPTS
          MaxKillers,  \* bound on the values of a checkpoint that kill a kernel
          MaxFaults    \* bound on what goes wrong otherwise

ASSUME CheckpointsAssumption ==
  /\ NoId \notin Ids /\ Partial \notin Ids \cup {NoId}
  /\ Attempts \in Nat \ {0} /\ MaxKillers \in Nat /\ MaxFaults \in Nat

VARIABLES
  stored,       \* checkpoints that a restore finds
  killers,      \* how many values of a checkpoint kill the kernel that loads them
  branch,       \* the checkpoint IDs on the current branch, newest first
  lineage,      \* the branch that ends with the cell of each ID
  up, ns, held, \* the kernel: ready, its namespace, its _held
  reset,        \* pendingResetNotice
  queue,        \* Checkpoints.pending: the jobs that wait, the running one first
  job,          \* progress of the running job
  main,         \* the ipython call
  viewer,       \* the sync of a /cells toggle, and whether the list that it adds to is `undelivered`
  saveFailure,
  undelivered,
  unsaved,      \* history: a failed save that no result reported
  unsaid,       \* history: a restore changed the namespace and no result said so (yes), or
                \* none can, because a cancelled call was the only one to know (dropped)
  faults

kernel == <<up, ns, held, reset>>
tree == <<branch, lineage>>
notes == <<saveFailure, undelivered>>
history == <<unsaved, unsaid, faults>>
vars == <<stored, killers, tree, kernel, queue, job, main, viewer, notes, history>>

RestoreNotices == {"restored", "empty", "failed", "exhausted"}
Notices == RestoreNotices \cup {"save"}
NoJob == [phase |-> "none", attempt |-> 0, notice |-> {}]
NoCall == [phase |-> "idle", cands |-> <<>>, notices |-> {}, kernelReset |-> FALSE, id |-> NoId]
Nearest(b) == IF b = <<>> THEN NoId ELSE b[1]
Jobs == [by : {"main", "viewer", "save"}, cands : Seq(Ids), id : Ids \cup {NoId}]

TypeOK ==
  /\ stored \subseteq Ids /\ killers \in [Ids -> 0..MaxKillers]
  /\ branch \in Seq(Ids) /\ lineage \in [Ids -> Seq(Ids)]
  /\ up \in BOOLEAN /\ reset \in BOOLEAN
  /\ ns \in Ids \cup {NoId, Partial} /\ held \in Ids \cup {NoId, Partial}
  /\ queue \in Seq(Jobs)
  /\ job \in [phase : {"none", "start", "restore", "recheck"}, attempt : 0..Attempts,
              notice : SUBSET Notices]
  /\ main \in [phase : {"idle", "queued", "execute", "running", "returning"}, cands : Seq(Ids),
               notices : SUBSET Notices, kernelReset : BOOLEAN, id : Ids \cup {NoId}]
  /\ viewer \in {"none", "current", "stale"} /\ saveFailure \in BOOLEAN /\ undelivered \subseteq Notices
  /\ unsaved \in BOOLEAN /\ unsaid \in {"no", "yes", "dropped"}
  /\ faults \in 0..MaxFaults

Init ==
  /\ stored = {} /\ killers = [i \in Ids |-> 0]
  /\ branch = <<>> /\ lineage = [i \in Ids |-> <<>>]
  /\ up = FALSE /\ ns = NoId /\ held = NoId /\ reset = FALSE
  /\ queue = <<>> /\ job = NoJob /\ main = NoCall /\ viewer = "none"
  /\ saveFailure = FALSE /\ undelivered = {}
  /\ unsaved = FALSE /\ unsaid = "no" /\ faults = 0

Answered == {i \in Ids : lineage[i] # <<>>}
\* randomUUID(): which one it is makes no difference.
NewIds == IF Answered = Ids THEN {} ELSE {CHOOSE i \in Ids : i \notin Answered}

Told == undelivered \cup main.notices
Fault == faults < MaxFaults /\ faults' = faults + 1

\* A kernel that is up, or a new one with the startup namespace.
KernelStarts ==
  /\ up' = TRUE
  /\ IF up THEN UNCHANGED <<ns, held>> ELSE ns' = NoId /\ held' = NoId
  /\ UNCHANGED reset

\* The kernel exits or is killed, and what was left to say of its state with it.
KernelDies ==
  /\ up' = FALSE /\ reset' = TRUE /\ unsaid' = "no"
  /\ UNCHANGED <<ns, held>>

Current == Head(queue)
Free == up /\ main.phase # "running"

Pending ==
  \/ queue # <<>> /\ job = NoJob /\ Current.by # "save"
  \/ job.phase \in {"start", "recheck"} /\ up
  \/ job.phase = "restore" /\ ~Free
  \/ main.phase = "execute"

Enqueue(by, cands, id) == queue' = Append(queue, [by |-> by, cands |-> cands, id |-> id])

-----------------------------------------------------------------------------
(***************************************************************************)
(* The conversation.                                                       *)
(***************************************************************************)

\* /tree, /fork: the conversation goes on from an earlier cell, or from none.
Move ==
  /\ ~Pending /\ main.phase = "idle"
  /\ branch' \in {<<>>} \cup {lineage[i] : i \in Answered}
  /\ UNCHANGED <<stored, killers, lineage, kernel, queue, job, main, viewer, notes, history>>

\* session_shutdown and a new session. The saves in the queue may be lost.
Reload ==
  /\ ~Pending /\ main.phase = "idle" /\ Fault
  /\ up' = FALSE /\ ns' = NoId /\ held' = NoId /\ reset' = FALSE
  /\ queue' = <<>> /\ job' = NoJob /\ viewer' = "none"
  /\ saveFailure' = FALSE /\ undelivered' = {} /\ unsaved' = FALSE /\ unsaid' = "no"
  /\ UNCHANGED <<stored, killers, tree, main>>

\* The cache loses a checkpoint, or the kernel of an idle session exits.
LoseCheckpoint ==
  /\ ~Pending /\ Fault
  /\ \E i \in stored : stored' = stored \ {i}
  /\ UNCHANGED <<killers, tree, kernel, queue, job, main, viewer, notes, unsaved, unsaid>>

KernelExits ==
  /\ ~Pending /\ up /\ job = NoJob /\ main.phase # "running" /\ Fault /\ KernelDies
  /\ UNCHANGED <<stored, killers, tree, queue, job, main, viewer, notes, unsaved>>

-----------------------------------------------------------------------------
(***************************************************************************)
(* Checkpoints: one job at a time, restoreBranch() or a save.              *)
(***************************************************************************)
Cancelled == Current.by # "save"

JobStarts ==
  /\ queue # <<>> /\ job = NoJob /\ main.phase # "execute"
  /\ job' = [NoJob EXCEPT !.phase = IF Current.by = "save" THEN "restore" ELSE "start"]
  /\ UNCHANGED <<stored, killers, tree, kernel, queue, main, viewer, notes, history>>

\* The sync rejects: the call that waits for it fails and reports nothing.
SyncThrows ==
  /\ queue' = Tail(queue) /\ job' = NoJob
  /\ IF Current.by = "main" THEN main' = NoCall /\ UNCHANGED viewer
                            ELSE viewer' = "none" /\ UNCHANGED main

\* kernel.start() before the first attempt.
SyncStart ==
  /\ job.phase = "start"
  /\ KernelStarts
  /\ job' = [job EXCEPT !.phase = "restore", !.attempt = 1]
  /\ UNCHANGED <<stored, killers, tree, queue, main, viewer, notes, history>>

SyncStartFails ==
  /\ job.phase \in {"start", "recheck"} /\ Current.by # "save" /\ ~up
  /\ (Fault \/ (Cancelled /\ UNCHANGED faults))
  /\ SyncThrows
  /\ UNCHANGED <<stored, killers, tree, kernel, notes, unsaved, unsaid>>

\* The evaluation of restore() returned or failed; `notice` is what it leaves to say.
Restored(notice) == job' = [job EXCEPT !.phase = "recheck", !.notice = notice]

Restoring == job.phase = "restore" /\ Current.by # "save"
Found == {n \in DOMAIN Current.cands : Current.cands[n] \in stored}
Newest == Current.cands[CHOOSE n \in Found : \A m \in Found : n <= m]

\* The namespace is the one of the branch.
RestoreNothing ==
  /\ Restoring /\ Free /\ held = Nearest(Current.cands)
  /\ Restored({})
  /\ UNCHANGED <<stored, killers, tree, kernel, queue, main, viewer, notes, history>>

\* restore() to its end. An older checkpoint counts as the one of the branch.
Fallback == IF Found = {} THEN NoId ELSE Newest

Replaced ==
  /\ held # Nearest(Current.cands)
  /\ Found # {} => killers[Newest] = 0
  /\ ns' = Fallback /\ held' = Nearest(Current.cands)

RestoreBranch ==
  /\ Restoring /\ Free /\ Replaced
  /\ unsaid' = "yes"
  /\ Restored(IF Found = {} THEN {"empty"} ELSE {"restored"})
  /\ UNCHANGED <<stored, killers, tree, up, reset, queue, main, viewer, notes, unsaved, faults>>

\* A value kills the kernel; the next attempt deletes it.
RestoreKills ==
  /\ Restoring /\ Free /\ held # Nearest(Current.cands)
  /\ Found # {} /\ killers[Newest] > 0
  /\ killers' = [killers EXCEPT ![Newest] = @ - 1]
  /\ KernelDies /\ Restored({"failed"})
  /\ UNCHANGED <<stored, tree, queue, main, viewer, notes, unsaved, faults>>

\* The evaluation times out or waited for the lock in vain, and accept() follows; its
\* answer may have been on the way. A kernel that ignores the interrupt is killed.
RestoreFails ==
  /\ Restoring /\ Free /\ held # Nearest(Current.cands) /\ Fault
  /\ \/ KernelDies /\ Restored({"failed"})
     \/ /\ \/ ns' \in {ns, Partial} /\ held' = Nearest(Current.cands)
           \/ Replaced
        /\ unsaid' = IF ns' = ns THEN unsaid ELSE "yes"
        /\ Restored({"failed"})
        /\ UNCHANGED <<up, reset>>
  /\ UNCHANGED <<stored, killers, tree, queue, main, viewer, notes, unsaved>>

\* Mutant: _held stays what it was while the names are replaced.
HeldMeanwhile_Old == held

HeldMeanwhile == Partial

\* A cancelled restore throws before accept(): it did nothing, was cut short, or was
\* done with its answer on the way, which the runtime makes an interrupted one.
RestoreCancelled ==
  /\ Restoring /\ Free /\ Cancelled
  /\ \/ UNCHANGED <<kernel, unsaid, faults>>
     \/ /\ held # Nearest(Current.cands)
        /\ ns' = Partial /\ held' = HeldMeanwhile /\ unsaid' = "yes" /\ UNCHANGED <<up, reset, faults>>
     \/ Replaced /\ unsaid' = "dropped" /\ UNCHANGED <<up, reset, faults>>
     \/ KernelDies /\ Fault
  /\ SyncThrows
  /\ UNCHANGED <<stored, killers, tree, notes, unsaved>>

\* The runtime refuses the request: a cell is running, or the kernel is gone.
RestoreRefused ==
  /\ Restoring /\ ~Free
  /\ Restored({"failed"})
  /\ UNCHANGED <<stored, killers, tree, kernel, queue, main, viewer, notes, history>>

\* Mutant: one attempt too many.
AttemptsLeft_OffByOne == job.attempt <= Attempts

AttemptsLeft == job.attempt < Attempts

\* kernel.start() after an attempt: a new generation, if the kernel is gone.
SyncRetries ==
  /\ job.phase = "recheck" /\ ~up /\ AttemptsLeft
  /\ KernelStarts
  /\ job' = [NoJob EXCEPT !.phase = "restore", !.attempt = job.attempt + 1]
  /\ UNCHANGED <<stored, killers, tree, queue, main, viewer, notes, history>>

\* Mutant: the notices of a sync for /cells go nowhere.
KeptForNext_Dropped(returned) == undelivered

\* The list is read before the await, and a result of a cell replaces it.
KeptForNext(returned) == IF viewer = "current" THEN undelivered \cup returned ELSE undelivered

SyncReturns ==
  /\ job.phase = "recheck"
  /\ up \/ ~AttemptsLeft
  /\ KernelStarts
  /\ LET notice == IF ~up THEN {"exhausted"} ELSE job.notice
         returned == notice \cup (IF saveFailure THEN {"save"} ELSE {})
     IN  IF Current.by = "main"
         THEN /\ main' = [main EXCEPT !.phase = "execute", !.notices = returned]
              /\ UNCHANGED <<viewer, undelivered>>
         ELSE /\ viewer' = "none" /\ undelivered' = KeptForNext(returned)
              /\ UNCHANGED main
  /\ saveFailure' = FALSE
  /\ queue' = Tail(queue) /\ job' = NoJob
  /\ UNCHANGED <<stored, killers, tree, history>>

(***************************************************************************)
(* The save of a cell. _held names its checkpoint whether or not it is     *)
(* stored; its killers are among the values it is saved with.              *)
(***************************************************************************)
Saving == job.phase = "restore" /\ Current.by = "save"

\* Mutant: a save that ended is not taken off the chain.
SaveEnds_Stays == UNCHANGED queue /\ job' = NoJob

SaveEnds == queue' = Tail(queue) /\ job' = NoJob

Save ==
  /\ Saving /\ Free
  /\ stored' = stored \cup {Current.id} /\ held' = Current.id
  /\ \E n \in 0..MaxKillers : killers' = [killers EXCEPT ![Current.id] = n]
  /\ SaveEnds
  /\ UNCHANGED <<tree, up, ns, reset, main, viewer, notes, history>>

SaveFails ==
  /\ Saving
  /\ \/ ~Free /\ UNCHANGED <<kernel, unsaid, faults>>
     \/ Free /\ Fault /\ held' = Current.id /\ UNCHANGED <<up, ns, reset, unsaid>>
     \/ Free /\ Fault /\ KernelDies
  /\ saveFailure' = TRUE /\ unsaved' = TRUE
  /\ SaveEnds
  /\ UNCHANGED <<stored, killers, tree, main, viewer, undelivered>>

-----------------------------------------------------------------------------
(***************************************************************************)
(* The ipython tool and /cells.                                            *)
(***************************************************************************)
CellCall ==
  /\ ~Pending /\ main.phase = "idle" /\ Answered # Ids
  /\ main' = [NoCall EXCEPT !.phase = "queued", !.cands = branch]
  /\ Enqueue("main", branch, NoId)
  /\ UNCHANGED <<stored, killers, tree, kernel, job, viewer, notes, history>>

ToggleCells ==
  /\ ~Pending /\ viewer = "none"
  /\ viewer' = "current"
  /\ Enqueue("viewer", branch, NoId)
  /\ UNCHANGED <<stored, killers, tree, kernel, job, main, notes, history>>

\* kernel.execute() until its request. Nothing comes between the end of the sync
\* and the request of the cell: the kernel is up and the call not cancelled.
Execute ==
  /\ main.phase = "execute" /\ up
  /\ reset' = FALSE
  /\ main' = [main EXCEPT !.phase = "running", !.kernelReset = reset]
  /\ UNCHANGED <<stored, killers, tree, up, ns, held, queue, job, viewer, notes, history>>

\* The kernel is killed or exits while the cell runs: the error result says so.
CellLost ==
  /\ ~Pending /\ main.phase = "running" /\ Fault /\ KernelDies
  /\ main' = NoCall
  /\ UNCHANGED <<stored, killers, tree, queue, job, viewer, notes, unsaved>>

\* What is left unsaid after a result with the notices `told`.
LeftUnsaid(told) ==
  IF unsaid = "yes" /\ told \cap RestoreNotices = {} /\ ~main.kernelReset THEN "yes" ELSE "no"

\* The result with the notices, and the save of the namespace.
CellAnswered ==
  /\ ~Pending /\ main.phase = "running"
  /\ \E i \in NewIds :
       /\ ns' = i
       /\ lineage' = [lineage EXCEPT ![i] = <<i>> \o main.cands]
       /\ main' = [main EXCEPT !.phase = "returning", !.id = i, !.notices = Told]
       /\ Enqueue("save", <<>>, i)
  /\ undelivered' = {} /\ viewer' = IF viewer = "current" THEN "stale" ELSE viewer
  /\ unsaved' = (unsaved /\ "save" \notin Told)
  /\ unsaid' = LeftUnsaid(Told)
  /\ UNCHANGED <<stored, killers, branch, up, held, reset, job, saveFailure, faults>>

\* Pi appends the result to the branch.
ResultAppended ==
  /\ main.phase = "returning"
  /\ branch' = lineage[main.id]
  /\ main' = NoCall
  /\ UNCHANGED <<stored, killers, lineage, kernel, queue, job, viewer, notes, history>>

Checkpointing ==
  JobStarts \/ SyncStart \/ SyncStartFails \/ RestoreNothing \/ RestoreBranch \/ RestoreKills
    \/ RestoreFails \/ RestoreCancelled \/ RestoreRefused \/ SyncRetries \/ SyncReturns
    \/ Save \/ SaveFails
Tool == Execute \/ CellLost \/ CellAnswered \/ ResultAppended
Next == Move \/ Reload \/ LoseCheckpoint \/ KernelExits \/ Checkpointing \/ CellCall \/ ToggleCells
          \/ Tool

Spec == Init /\ [][Next]_vars

-----------------------------------------------------------------------------
(***************************************************************************)
(* Properties.                                                             *)
(***************************************************************************)

\* A cell runs on the state of the nearest cell of its branch, or its result says that
\* a restore or a lost kernel left another one. Except: a call that was cancelled with
\* the answer of its restore on the way took what there was to say with it.
RunsOnBranch ==
  main.phase = "running" =>
    ns = Nearest(main.cands) \/ Told \cap RestoreNotices # {} \/ main.kernelReset
      \/ unsaid = "dropped"

\* No result hides that a restore replaced the namespace before its cell ran, with the
\* same exception.
RestoreReported == [][CellAnswered => unsaid' # "yes"]_vars

\* A restore that is cancelled after it touched the namespace leaves it marked partial,
\* so that the next sync restores again.
CancelledRestoresAgain == [][RestoreCancelled /\ up' /\ ns' # ns => held' = Partial]_vars

\* The next result after a failed save reports it.
SaveReported == [][CellAnswered => ~unsaved']_vars

\* A call ends up running or settled, whatever fails before.
CallsSettle == main.phase = "queued" ~> main.phase \in {"idle", "running"}
=============================================================================

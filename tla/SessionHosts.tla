---------------------------- MODULE SessionHosts ----------------------------
(***************************************************************************)
(* The two hosts of the ipython tool around Checkpoints: the calls that    *)
(* Pi's other tools nest in their own (extensions/ipython.ts), and the     *)
(* durable host, which keeps checkpoint IDs in its own log of entries and  *)
(* is closed, killed and opened again (durable/index.ts).                  *)
(*                                                                         *)
(* The conversation of the durable host is one that nobody forks; a fork   *)
(* has a runtime of its own and starts as after a crash. The commits of    *)
(* the host take effect whole or not at all. A tool of Pi that nests calls *)
(* awaits them.                                                            *)
(***************************************************************************)
EXTENDS Checkpoints

CONSTANT PiCells  \* bound on the cells of a session of Pi

ASSUME HostsAssumption == PiCells \in Nat

VARIABLES
  host,       \* who runs the tool: pi or durable
  parent,     \* pi: the call of another tool that nests cells
  forwarded,  \* its notices in the map of that name
  unheard,    \* history: notices of its cells that the model has not seen
  entry,      \* durable: what execute() awaits before its sync
  runtime,    \* durable: the runtime of the conversation
  closing,    \* durable: close(), and the jobs that it waits for
  quiet,      \* history: no call was ever in progress when close() was called
  tip,        \* history: the last cell whose result was delivered
  crossed     \* history: /cells was toggled between the result of a cell and its entry

nested == <<parent, forwarded, unheard>>
process == <<entry, runtime, closing, quiet>>
delivery == <<tip, crossed>>
hostVars == <<host, nested, process, delivery>>
allVars == <<vars, hostVars>>

Open == [phase |-> "open", jobs |-> 0]
CellNotes == Notices \cup {"reset"}

HostsTypeOK ==
  /\ TypeOK
  /\ host \in {"pi", "durable"}
  /\ parent \in {"none", "open"} /\ forwarded \subseteq CellNotes /\ unheard \subseteq CellNotes
  /\ entry \in {"none", "agent", "scan"}
  /\ runtime \in {"none", "live", "disposed", "leaking", "leaked"}
  /\ closing \in [phase : {"open", "waiting", "closed"}, jobs : 0..2]
  /\ quiet \in BOOLEAN /\ tip \in Ids \cup {NoId} /\ crossed \in BOOLEAN

HostsInit ==
  /\ Init
  /\ \/ host = "pi" /\ runtime = "live"
     \/ host = "durable" /\ runtime = "none"
  /\ parent = "none" /\ forwarded = {} /\ unheard = {}
  /\ entry = "none" /\ closing = Open /\ quiet = TRUE
  /\ tip = NoId /\ crossed = FALSE

Calling == entry # "none" \/ main.phase # "idle"

\* cellResult(): the notice of a reset in front of the others.
CellNotices(told) == told \cup (IF main.kernelReset THEN {"reset"} ELSE {})

-----------------------------------------------------------------------------
(***************************************************************************)
(* The jobs of Checkpoints. start() of a disposed runtime throws; one that  *)
(* waits for a stop since before goes on when the stop is over.            *)
(***************************************************************************)
JobEnds == Len(queue') < Len(queue)

Disposed == runtime \in {"disposed", "leaking", "leaked"}
Starting == job.phase \in {"start", "recheck"}

Job ==
  /\ Checkpointing
  /\ Disposed => ~Starting
  /\ closing' = IF JobEnds /\ closing.jobs > 0 THEN [closing EXCEPT !.jobs = @ - 1] ELSE closing
  /\ UNCHANGED <<host, nested, entry, runtime, quiet, delivery>>

\* A kernel that start() yet starts refuses what the job asks of it, and is left.
SyncDisposed ==
  /\ Disposed /\ Starting
  /\ SyncThrows
  /\ runtime' \in IF runtime = "leaking" THEN {"disposed", "leaked"} ELSE {runtime}
  /\ UNCHANGED <<stored, killers, tree, kernel, notes, history,
                 host, nested, entry, closing, quiet, delivery>>

HostExecutes == Execute /\ UNCHANGED hostVars

-----------------------------------------------------------------------------
(***************************************************************************)
(* Pi.                                                                     *)
(***************************************************************************)
Pi == host = "pi" /\ UNCHANGED <<host, process>>

\* Mutant: a later notice replaces the earlier ones.
Forward_Last(notices) == notices

Forward(notices) == forwarded \cup notices

PiMove == Pi /\ parent = "none" /\ Move /\ tip' = NoId /\ UNCHANGED <<nested, crossed>>

PiReload ==
  /\ Pi /\ Reload
  /\ parent' = "none" /\ forwarded' = {} /\ unheard' = {}
  /\ UNCHANGED delivery

PiEvent == Pi /\ (LoseCheckpoint \/ KernelExits) /\ UNCHANGED <<nested, delivery>>
PiCellCall == Pi /\ Cardinality(Answered) < PiCells /\ CellCall /\ UNCHANGED <<nested, delivery>>

\* Between the result of a cell and its entry the branch lacks the cell.
PiToggle ==
  /\ Pi /\ ToggleCells
  /\ crossed' = (crossed \/ main.phase = "returning")
  /\ UNCHANGED <<nested, tip>>

ParentCalls ==
  /\ Pi /\ parent = "none" /\ main.phase = "idle" /\ ~Pending
  /\ parent' = "open"
  /\ UNCHANGED <<vars, forwarded, unheard, delivery>>

PiCellAnswered ==
  /\ Pi /\ CellAnswered
  /\ unheard' = IF parent = "open" THEN unheard \cup CellNotices(Told) ELSE unheard
  /\ UNCHANGED <<parent, forwarded, delivery>>

\* KernelLostError: its notice is forwarded like those of a result.
PiCellLost ==
  /\ Pi /\ CellLost
  /\ IF parent = "open"
     THEN forwarded' = Forward({"reset"}) /\ unheard' = unheard \cup {"reset"}
     ELSE UNCHANGED <<forwarded, unheard>>
  /\ UNCHANGED <<parent, delivery>>

\* Mutant: only Pi's own results name checkpoints.
Entries_Results == branch

\* The custom entry of a nested cell, on the branch.
Entries == lineage[main.id]

Delivered == tip' = (IF crossed THEN NoId ELSE main.id) /\ crossed' = FALSE

\* The event tool_result of a cell, and of the call that it is nested in.
PiCellResult ==
  /\ Pi /\ parent = "none" /\ ResultAppended
  /\ Delivered
  /\ UNCHANGED nested

NestedResult ==
  /\ Pi /\ parent = "open" /\ main.phase = "returning"
  /\ branch' = Entries
  /\ forwarded' = Forward(CellNotices(main.notices))
  /\ main' = NoCall /\ Delivered
  /\ UNCHANGED <<stored, killers, lineage, kernel, queue, job, viewer, notes, history, parent, unheard>>

ParentResult ==
  /\ Pi /\ parent = "open" /\ main.phase = "idle" /\ ~Pending
  /\ parent' = "none" /\ unheard' = unheard \ forwarded /\ forwarded' = {}
  /\ UNCHANGED <<vars, delivery>>

PiSession ==
  PiMove \/ PiReload \/ PiEvent \/ PiCellCall \/ PiToggle \/ ParentCalls \/ PiCellAnswered
    \/ PiCellLost \/ PiCellResult \/ NestedResult \/ ParentResult

-----------------------------------------------------------------------------
(***************************************************************************)
(* The durable host.                                                       *)
(***************************************************************************)
Durable == host = "durable" /\ UNCHANGED <<host, nested>>

DurableEvent ==
  /\ Durable /\ (LoseCheckpoint \/ KernelExits \/ CellLost)
  /\ UNCHANGED <<process, delivery>>

\* execute() awaits the agent of the call.
DurableCall ==
  /\ Durable /\ ~Pending /\ ~Calling /\ Answered # Ids
  /\ entry' = "agent"
  /\ UNCHANGED <<vars, runtime, closing, quiet, delivery>>

Refused == closing.phase # "open"

\* The agent is there, and so is the runtime of the conversation.
AgentKnown ==
  /\ Durable /\ ~Pending /\ entry = "agent" /\ ~Refused
  /\ entry' = "scan" /\ runtime' = IF runtime = "none" THEN "live" ELSE runtime
  /\ UNCHANGED <<vars, closing, quiet, delivery>>

\* The host is closing, or an await of the tool rejects.
DurableThrows ==
  /\ Durable /\ ~Pending /\ entry # "none"
  /\ entry' = "none"
  /\ UNCHANGED <<vars, runtime, closing, quiet, delivery>>

\* checkpointIds() in a commit, then the sync.
EntriesScanned ==
  /\ Durable /\ entry = "scan" /\ CellCall
  /\ entry' = "none"
  /\ UNCHANGED <<runtime, closing, quiet, delivery>>

\* The cell ran and its save is in the queue; nothing is recorded or delivered yet.
DurableAnswered ==
  /\ Durable /\ ~Pending /\ main.phase = "running"
  /\ \E i \in NewIds :
       /\ ns' = i
       /\ lineage' = [lineage EXCEPT ![i] = <<i>> \o main.cands]
       /\ main' = [main EXCEPT !.phase = "returning", !.id = i]
       /\ Enqueue("save", <<>>, i)
  /\ UNCHANGED <<stored, killers, branch, up, held, reset, job, viewer, notes, history, process, delivery>>

\* appendEntry() in a commit, and the result with its notices.
Record ==
  /\ Durable /\ ~Pending /\ main.phase = "returning"
  /\ branch' = lineage[main.id] /\ tip' = main.id /\ main' = NoCall
  /\ unsaved' = (unsaved /\ "save" \notin main.notices)
  /\ unsaid' = LeftUnsaid(main.notices)
  /\ UNCHANGED <<stored, killers, lineage, kernel, queue, job, viewer, notes, faults, process, crossed>>

\* Mutant: the checkpoint counts although its entry was not committed.
Unrecorded_Kept == lineage[main.id]

Unrecorded == branch

\* The commit rejects, and so does the call: its notices go with it.
RecordFails ==
  /\ Durable /\ ~Pending /\ main.phase = "returning"
  /\ branch' = Unrecorded /\ main' = NoCall
  /\ UNCHANGED <<stored, killers, lineage, kernel, queue, job, viewer, notes, history, process, delivery>>

(***************************************************************************)
(* close() and the end of the process.                                     *)
(***************************************************************************)
Close ==
  /\ Durable /\ ~Pending /\ closing.phase = "open"
  /\ closing' = IF runtime = "none" THEN [Open EXCEPT !.phase = "closed"]
                ELSE [phase |-> "waiting", jobs |-> Len(queue)]
  /\ quiet' = (quiet /\ ~Calling)
  /\ UNCHANGED <<vars, entry, runtime, delivery>>

\* Mutant: close() stops the kernel at once.
Drained_Ignored == TRUE

\* Checkpoints.close(): the jobs that were pending when it was called.
Drained == closing.jobs = 0

\* The jobs are done, or ten seconds are over. shutdown() rejects a cell. A sync that
\* waits for the stop of a lost kernel starts the next one after it.
MayLeak == Starting /\ ~up /\ reset

KernelShutdown ==
  /\ Durable /\ ~Pending /\ closing.phase = "waiting"
  /\ (Drained /\ UNCHANGED faults) \/ Fault
  /\ closing' = [Open EXCEPT !.phase = "closed"]
  /\ runtime' = "disposed" \/ (MayLeak /\ runtime' = "leaking")
  /\ up' = FALSE /\ unsaid' = "no"
  /\ main' = IF main.phase = "running" THEN NoCall ELSE main
  /\ UNCHANGED <<stored, killers, tree, ns, held, reset, queue, job, viewer, notes, unsaved,
                 entry, quiet, delivery>>

\* The next process over the same store.
NewProcess ==
  /\ up' = FALSE /\ ns' = NoId /\ held' = NoId /\ reset' = FALSE
  /\ queue' = <<>> /\ job' = NoJob /\ main' = NoCall
  /\ saveFailure' = FALSE /\ unsaved' = FALSE /\ unsaid' = "no"
  /\ entry' = "none" /\ runtime' = "none" /\ closing' = Open
  /\ UNCHANGED <<stored, killers, tree, viewer, undelivered, quiet, delivery>>

Crash == Durable /\ ~Pending /\ Fault /\ NewProcess
Reopen ==
  /\ Durable /\ closing.phase = "closed" /\ ~Calling /\ queue = <<>>
  /\ NewProcess
  /\ UNCHANGED faults

DurableSession ==
  DurableEvent \/ DurableCall \/ AgentKnown \/ DurableThrows \/ EntriesScanned \/ DurableAnswered
    \/ Record \/ RecordFails \/ Close \/ KernelShutdown \/ Crash \/ Reopen

HostsNext == Job \/ SyncDisposed \/ HostExecutes \/ PiSession \/ DurableSession

\* Jobs are served and the tool goes on; whether a cell ends is up to the cell.
HostsSpec ==
  /\ HostsInit /\ [][HostsNext]_allVars
  /\ WF_allVars(Job \/ SyncDisposed) /\ WF_allVars(HostExecutes)

-----------------------------------------------------------------------------
(***************************************************************************)
(* Properties.                                                             *)
(***************************************************************************)

\* A kernel that still holds what the last delivered cell of the conversation left is
\* not rewound, whichever tool or host ran that cell. Except: after a toggle of /cells
\* that read the branch between the result of that cell and its entry.
KeepsLive == [][RestoreBranch /\ tip # NoId => ns # tip]_allVars

\* No delivered result of the durable host hides that the namespace was replaced,
\* also when an earlier call that knew of it failed to record its checkpoint. Except: a
\* call that was cancelled with the answer of its restore on the way.
RecordReports == [][Record => unsaid' # "yes"]_allVars

\* When the call of a tool is over, the model has seen every notice of its cells.
Forwarded == parent = "none" => unheard = {}

\* After close() the conversation has no kernel, but one that a sync started which waited
\* for a stop; and if close() met no call in progress, there is none, and the last
\* recorded checkpoint is in the store for the next process unless something went wrong.
CloseHolds ==
  closing.phase = "closed" =>
    /\ ~up
    /\ quiet => runtime # "leaked"
    /\ quiet /\ faults = 0 /\ branch # <<>> => Nearest(branch) \in stored
=============================================================================

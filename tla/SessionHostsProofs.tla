-------------------------- MODULE SessionHostsProofs --------------------------
(***************************************************************************)
(* Theorems about SessionHosts, for any number of checkpoints, attempts,   *)
(* cells and faults. Most steps of the hosts are steps of Checkpoints, so  *)
(* its invariants carry over; the durable host adds those between the end  *)
(* of a cell and the record of it, and the end of the process.             *)
(***************************************************************************)
EXTENDS SessionHosts, CheckpointsProofs

\* Who runs the tool decides which variables move, and a runtime that is not there or is
\* disposed has no kernel that a job can use.
HostInv ==
  /\ host \in {"pi", "durable"}
  /\ parent \in {"none", "open"} /\ forwarded \subseteq CellNotes /\ unheard \subseteq CellNotes
  /\ entry \in {"none", "agent", "scan"}
  /\ runtime \in {"none", "live", "disposed", "leaking", "leaked"}
  /\ closing \in [phase : {"open", "waiting", "closed"}, jobs : 0..2]
  /\ quiet \in BOOLEAN /\ crossed \in BOOLEAN
  /\ host = "pi" => runtime = "live" /\ entry = "none" /\ closing = Open
  /\ host = "durable" => /\ parent = "none" /\ forwarded = {} /\ unheard = {}
                         /\ viewer = "none" /\ undelivered = {} /\ ~crossed
  /\ runtime = "none" => /\ queue = <<>> /\ main.phase = "idle" /\ entry # "scan"
                         /\ closing.phase # "waiting"
  /\ up => runtime = "live"
  /\ closing.phase = "closed" => runtime # "live"

\* What the cells of an open call had to say is forwarded, or in the result on its way.
NestInv ==
  IF parent = "open"
  THEN unheard \subseteq forwarded \cup (IF main.phase = "returning" THEN CellNotices(main.notices) ELSE {})
  ELSE unheard = {}

\* The newest cell of a branch answered, a delivered cell heads the branch, and no sync
\* waits between a cell and its record, but that of a toggle which crossed them.
TreeInv ==
  /\ \A i \in Ids : lineage[i] # <<>> => lineage[i][1] = i
  /\ branch # <<>> => branch[1] \in Answered
  /\ crossed => main.phase = "returning"
  /\ main.phase = "returning" => main.id \in Answered /\ main.id # Nearest(branch)
  /\ main.phase = "returning" /\ ~crossed => /\ \A n \in DOMAIN queue : queue[n].by = "save"
                                             /\ up => ns = main.id
  /\ tip \in Ids \cup {NoId}
  /\ tip # NoId => /\ branch # <<>> /\ branch[1] = tip
                   /\ \A n \in DOMAIN queue : queue[n].by # "save" => queue[n].cands = branch

\* A kernel that holds the last cell, delivered or not, is known to, or its save will tell.
Untouched == ns = tip \/ (ns = main.id /\ ~crossed)
KeepInv == up /\ ns \in Ids /\ Untouched => held = ns \/ SaveFirst

\* The durable host: a change of the namespace that no result told is in the result on its
\* way, or the next sync will replace the namespace: the conversation is not where it is.
ToldInv ==
  host = "durable" /\ unsaid = "yes" =>
    /\ up
    /\ IF main.phase \in {"idle", "queued"}
       THEN IF SaveFirst THEN Current.id # Nearest(branch)
            ELSE held # Nearest(branch) \/ (job.phase = "recheck" /\ job.notice # {})
       ELSE main.notices \cap RestoreNotices # {}

CallInv == host = "durable" /\ main.phase = "queued" => main.cands = branch

\* A cell that nothing has gone wrong with is stored, or its save is in front; close()
\* waits for that save.
Kept(i) == i \in stored \/ (SaveFirst /\ up /\ Current.id = i)

CloseInv ==
  /\ quiet /\ closing.phase # "open" => main.phase = "idle" /\ entry # "scan"
  /\ quiet => runtime \notin {"leaking", "leaked"}
  /\ host = "durable" /\ quiet /\ faults = 0 =>
       /\ branch # <<>> => /\ Kept(Nearest(branch))
                           /\ closing.phase = "waiting" =>
                                Nearest(branch) \in stored \/ closing.jobs > 0
       /\ main.phase = "returning" => Kept(main.id)

\* The steps of the durable host that are none of Checkpoints.
Apart == DurableAnswered \/ Record \/ RecordFails \/ KernelShutdown \/ Crash \/ Reopen

\* A disposed runtime throws as one that cannot start a kernel does.
LEMMA DisposedThrows ==
  ASSUME TypeInv, QueueInv, HostInv, SyncDisposed
  PROVE  Checkpointing /\ queue # <<>> /\ Current.by = "main"
<1>1. /\ job.phase \in {"start", "recheck"} /\ Current.by # "save" /\ ~up /\ SyncThrows
      /\ UNCHANGED <<stored, killers, tree, kernel, notes, unsaved, unsaid, faults>>
  BY DEF SyncDisposed, Starting, Disposed, HostInv, QueueInv, history
<1>2. queue # <<>> /\ Current.by = "main"
  <2>1. queue # <<>> /\ 1 \in DOMAIN queue /\ Current = queue[1] /\ Current \in Jobs
    BY <1>1, FrontJob
  <2>2. host = "durable"
    BY DEF SyncDisposed, Disposed, HostInv
  <2>3. QED BY <1>1, <2>1, <2>2 DEF QueueInv, HostInv, Jobs
<1>3. SyncStartFails
  BY <1>1, <1>2 DEF SyncStartFails, Cancelled
<1>4. QED BY <1>2, <1>3 DEF Checkpointing

\* Each other step is one of Checkpoints, or leaves its variables alone.
LEMMA HostSteps ==
  ASSUME TypeInv, QueueInv, HostInv, [HostsNext]_allVars
  PROVE  [Next]_vars \/ Apart
<1>1. CASE Job \/ HostExecutes
  BY <1>1 DEF Job, HostExecutes, Next, Tool
<1>2. CASE SyncDisposed
  BY <1>2, DisposedThrows DEF Next
<1>3. CASE PiSession
  <2>1. NestedResult => ResultAppended
    BY DEF NestedResult, ResultAppended, Entries
  <2>2. QED
    BY <1>3, <2>1
    DEF PiSession, PiMove, PiReload, PiEvent, PiCellCall, PiToggle, ParentCalls, PiCellAnswered,
        PiCellLost, PiCellResult, ParentResult, Next, Tool
<1>4. CASE DurableSession
  BY <1>4
  DEF DurableSession, DurableEvent, DurableCall, AgentKnown, DurableThrows, EntriesScanned, Close,
      Apart, Next, Tool
<1>5. CASE UNCHANGED allVars
  BY <1>5 DEF allVars
<1>6. QED BY <1>1, <1>2, <1>3, <1>4, <1>5 DEF HostsNext

\* A job of Checkpoints moves only what is its own.
LEMMA JobFacts ==
  ASSUME TypeInv, QueueInv, DataInv, Checkpointing
  PROVE  /\ queue # <<>> /\ UNCHANGED tree
         /\ queue' = queue \/ queue' = Tail(queue)
         /\ \/ UNCHANGED main
            \/ /\ main.phase = "queued" /\ main'.phase \in {"idle", "execute"}
               /\ main'.id \notin Ids
         /\ viewer = "none" => viewer' = "none" /\ UNCHANGED undelivered
         /\ Current.by = "save" => UNCHANGED ns /\ (up' => up)
         /\ stored \subseteq stored'
<1>f. job.phase # "none" => queue # <<>> /\ 1 \in DOMAIN queue /\ Current = queue[1] /\ Current \in Jobs
  BY FrontJob
<1>n. NoCall.phase = "idle" /\ NoCall.id \notin Ids /\ NoJob.phase = "none"
  BY CheckpointsAssumption DEF NoCall, NoJob
<1>1. CASE JobStarts
  BY <1>1 DEF JobStarts, kernel, notes
<1>2. CASE SyncStart \/ SyncRetries
  BY <1>2, <1>f DEF SyncStart, SyncRetries, QueueInv, notes
<1>3. CASE SyncStartFails \/ RestoreCancelled
  <2>1. /\ queue # <<>> /\ Current = queue[1] /\ 1 \in DOMAIN queue /\ Current.by # "save"
        /\ SyncThrows /\ UNCHANGED <<tree, stored, undelivered>>
    BY <1>3, <1>f DEF SyncStartFails, RestoreCancelled, Restoring, notes
  <2>2. Current.by = "main" => main.phase = "queued"
    BY <2>1 DEF QueueInv
  <2>3. QED BY <1>n, <2>1, <2>2 DEF SyncThrows
<1>4. CASE RestoreNothing \/ RestoreBranch \/ RestoreKills \/ RestoreFails \/ RestoreRefused
  BY <1>4, <1>f
  DEF RestoreNothing, RestoreBranch, RestoreKills, RestoreFails, RestoreRefused, Restoring, notes
<1>5. CASE SyncReturns
  <2>1. /\ queue # <<>> /\ Current = queue[1] /\ 1 \in DOMAIN queue /\ Current.by # "save"
        /\ Current \in Jobs /\ queue' = Tail(queue) /\ UNCHANGED <<tree, stored>>
    BY <1>5, <1>f DEF SyncReturns, QueueInv
  <2>2. CASE Current.by = "main"
    <3>1. main.phase = "queued"
      BY <2>1, <2>2 DEF QueueInv
    <3>2. main'.phase = "execute" /\ main'.id = main.id /\ UNCHANGED <<viewer, undelivered>>
      BY <1>5, <2>2 DEF SyncReturns, TypeInv
    <3>3. QED BY <2>1, <2>2, <3>1, <3>2 DEF DataInv
  <2>3. CASE Current.by = "viewer"
    <3>1. viewer = "current" /\ UNCHANGED main
      BY <1>5, <2>1, <2>3 DEF SyncReturns, QueueInv
    <3>2. QED BY <2>1, <2>3, <3>1
  <2>4. QED BY <2>1, <2>2, <2>3 DEF Jobs
<1>6. CASE Save \/ SaveFails
  BY <1>6, <1>f DEF Save, SaveFails, Saving, SaveEnds, KernelDies, kernel, notes
<1>7. QED BY <1>1, <1>2, <1>3, <1>4, <1>5, <1>6 DEF Checkpointing

\* What waits after a job did before.
LEMMA JobQueue ==
  ASSUME TypeInv, QueueInv, queue # <<>>, queue' = queue \/ queue' = Tail(queue)
  PROVE  /\ \A n \in DOMAIN queue' : \E m \in DOMAIN queue : queue'[n] = queue[m]
         /\ Len(queue') < Len(queue) <=> queue' = Tail(queue)
         /\ queue' = Tail(queue) => ~SaveFirst' /\ Len(queue') = Len(queue) - 1
<1>1. /\ Len(queue) \in Nat \ {0} /\ DOMAIN queue = 1..Len(queue)
      /\ Tail(queue) \in Seq(Jobs) /\ DOMAIN Tail(queue) = 1..(Len(queue) - 1)
      /\ \A n \in DOMAIN Tail(queue) : Tail(queue)[n] = queue[n + 1]
  BY QueueFacts DEF TypeInv
<1>2. Len(Tail(queue)) = Len(queue) - 1
  BY HeadTailProperties DEF TypeInv
<1>3. queue' = Tail(queue) => ~SaveFirst'
  <2>1. SUFFICES ASSUME queue' = Tail(queue) PROVE ~SaveFirst'
    OBVIOUS
  <2>2. queue' \in Seq(Jobs) /\ \A n \in DOMAIN queue' : queue'[n].by # "save"
    BY <2>1, TailFacts
  <2>3. queue' # <<>> => Head(queue') = queue'[1] /\ 1 \in DOMAIN queue'
    BY <2>2, EmptySeq, HeadTailProperties, LenProperties
  <2>4. QED BY <2>2, <2>3 DEF SaveFirst, Current
<1>4. \A n \in DOMAIN Tail(queue) : n + 1 \in DOMAIN queue
  BY <1>1
<1>5. \A n \in DOMAIN queue' : \E m \in DOMAIN queue : queue'[n] = queue[m]
  BY <1>1, <1>4
<1>6. Len(queue') < Len(queue) <=> queue' = Tail(queue)
  <2>1. CASE queue' = queue
    <3>1. Len(queue') = Len(queue)
      BY <2>1
    <3>2. queue' # Tail(queue)
      BY <1>1, <1>2, <3>1
    <3>3. QED BY <1>1, <3>1, <3>2
  <2>2. CASE queue' = Tail(queue)
    <3>1. Len(queue') = Len(queue) - 1
      BY <1>2, <2>2
    <3>2. QED BY <1>1, <2>2, <3>1
  <2>3. QED BY <2>1, <2>2
<1>7. QED BY <1>2, <1>3, <1>5, <1>6

-----------------------------------------------------------------------------
(***************************************************************************)
(* The invariants of Checkpoints, at the steps of the durable host.        *)
(***************************************************************************)

\* The end of a cell leaves its save alone in the queue.
LEMMA Answer ==
  ASSUME TypeInv, QueueInv, CellAnswered \/ DurableAnswered
  PROVE  /\ queue = <<>> /\ job = NoJob /\ up /\ UNCHANGED <<up, held, job, branch>>
         /\ \E i \in Ids \ Answered :
              /\ ns' = i /\ lineage' = [lineage EXCEPT ![i] = <<i>> \o main.cands]
              /\ main'.phase = "returning" /\ main'.id = i
              /\ queue' \in Seq(Jobs) /\ DOMAIN queue' = {1} /\ queue' # <<>>
              /\ queue'[1] = [by |-> "save", cands |-> <<>>, id |-> i] /\ Current' = queue'[1]
<1>1. queue = <<>> /\ job = NoJob /\ up /\ UNCHANGED <<up, held, job, branch>>
  BY AnsweredAlone DEF DurableAnswered, CellAnswered
<1>2. PICK i \in Ids \ Answered : /\ ns' = i /\ lineage' = [lineage EXCEPT ![i] = <<i>> \o main.cands]
                                  /\ main'.phase = "returning" /\ main'.id = i
                                  /\ Enqueue("save", <<>>, i)
  BY NewFacts DEF DurableAnswered, CellAnswered, TypeInv
<1>3. Len(queue) = 0 /\ DOMAIN queue = {}
  <2>1. Len(queue) = 0
    BY <1>1, EmptySeq
  <2>2. DOMAIN queue = 1..0
    BY <1>1, <2>1, LenProperties DEF TypeInv
  <2>3. QED BY <2>1, <2>2
<1>4. queue \in Seq(Jobs) /\ "save" \in {"main", "viewer", "save"} /\ <<>> \in Seq(Ids)
      /\ i \in Ids \cup {NoId}
  BY EmptySeq DEF TypeInv
<1>5. /\ queue' \in Seq(Jobs) /\ queue' # <<>>
      /\ DOMAIN queue' = DOMAIN queue \cup {Len(queue) + 1}
      /\ queue'[Len(queue) + 1] = [by |-> "save", cands |-> <<>>, id |-> i]
      /\ queue = <<>> => Current' = [by |-> "save", cands |-> <<>>, id |-> i]
  BY <1>2, <1>4, EnqueueFacts
<1>6. Len(queue) + 1 = 1
  BY <1>3
<1>7. DOMAIN queue' = {1} /\ queue'[1] = [by |-> "save", cands |-> <<>>, id |-> i]
      /\ Current' = queue'[1]
  BY <1>1, <1>3, <1>5, <1>6
<1>8. QED BY <1>1, <1>2, <1>5, <1>7

LEMMA ApartPlace ==
  ASSUME PlaceInv, DataInv, HostInv, TreeInv, KeepInv, Apart
  PROVE  PlaceInv' /\ DataInv'
<1>a. TypeInv /\ QueueInv /\ StateInv /\ HeldInv /\ RunInv
  BY DEF PlaceInv
<1>n. /\ NoCall.phase = "idle" /\ NoCall.id \notin Ids
      /\ NoCall \in [phase : {"idle", "queued", "execute", "running", "returning"}, cands : Seq(Ids),
                     notices : SUBSET Notices, kernelReset : BOOLEAN, id : Ids \cup {NoId}]
  BY CheckpointsAssumption, EmptySeq DEF NoCall
<1>1. CASE DurableAnswered
  <2>1. PICK i \in Ids \ Answered :
          /\ ns' = i /\ lineage' = [lineage EXCEPT ![i] = <<i>> \o main.cands]
          /\ main'.phase = "returning" /\ main'.id = i
          /\ queue' \in Seq(Jobs) /\ DOMAIN queue' = {1} /\ queue' # <<>>
          /\ queue'[1] = [by |-> "save", cands |-> <<>>, id |-> i] /\ Current' = queue'[1]
    BY <1>1, <1>a, Answer
  <2>2. up /\ job = NoJob /\ UNCHANGED <<up, held, job, branch>>
    BY <1>1, <1>a, Answer
  <2>3. lineage' \in [Ids -> Seq(Ids)]
    <3>1. <<i>> \o main.cands \in Seq(Ids)
      BY <1>a, ConcatProperties DEF TypeInv
    <3>2. QED BY <1>a, <2>1, <3>1 DEF TypeInv
  <2>4. main' \in [phase : {"idle", "queued", "execute", "running", "returning"}, cands : Seq(Ids),
                   notices : SUBSET Notices, kernelReset : BOOLEAN, id : Ids \cup {NoId}]
    BY <1>1, <1>a, NewFacts DEF DurableAnswered, TypeInv
  <2>5. TypeInv'
    BY <1>1, <1>a, <2>1, <2>2, <2>3, <2>4 DEF TypeInv, DurableAnswered, notes, history
  <2>6. QueueInv'
    BY <2>1, <2>2, Nothing DEF QueueInv
  <2>7. SaveFirst' /\ StateInv'
    BY <2>1, <2>2, Nothing DEF StateInv, SaveFirst
  <2>8. HeldInv' /\ RunInv'
    BY <2>1, <2>7 DEF HeldInv, RunInv
  <2>9. DataInv'
    BY <1>1, <2>1 DEF DataInv, DurableAnswered, history
  <2>10. QED BY <2>5, <2>6, <2>7, <2>8, <2>9 DEF PlaceInv
<1>2. CASE Record \/ RecordFails
  <2>1. /\ main.phase = "returning" /\ main' = NoCall /\ branch' \in {lineage[main.id], branch}
        /\ unsaid' \in {"no", "yes", "dropped"} /\ unsaved' \in BOOLEAN
        /\ UNCHANGED <<stored, killers, lineage, kernel, queue, job, viewer, notes, faults>>
    BY <1>2, <1>a DEF Record, RecordFails, Unrecorded, LeftUnsaid, history, TypeInv, DataInv
  <2>2. lineage[main.id] \in Seq(Ids)
    BY <1>a, <2>1 DEF TypeInv
  <2>3. TypeInv'
    BY <1>a, <1>n, <2>1, <2>2 DEF TypeInv, kernel, notes
  <2>4. QueueInv' /\ StateInv'
    BY <1>a, <1>n, <2>1 DEF QueueInv, StateInv, SaveFirst, Current, kernel, notes
  <2>5. HeldInv' /\ RunInv'
    <3>1. ~crossed
      BY <1>2 DEF Record, RecordFails, Durable, HostInv
    <3>2. up => held = ns \/ SaveFirst
      BY <2>1, <3>1 DEF TreeInv, KeepInv, Untouched, Answered
    <3>3. QED BY <1>n, <2>1, <3>2 DEF HeldInv, RunInv, SaveFirst, Current, kernel
  <2>6. DataInv'
    BY <1>n, <2>1 DEF DataInv, kernel
  <2>7. QED BY <2>3, <2>4, <2>5, <2>6 DEF PlaceInv
<1>3. CASE KernelShutdown
  <2>1. /\ main' = IF main.phase = "running" THEN NoCall ELSE main
        /\ main.phase # "execute" /\ up' = FALSE /\ unsaid' = "no"
        /\ faults' = faults \/ Fault
        /\ UNCHANGED <<stored, killers, tree, ns, held, reset, queue, job, viewer, notes, unsaved>>
    BY <1>3 DEF KernelShutdown, Pending
  <2>2. faults' \in 0..MaxFaults
    BY <2>1, CheckpointsAssumption DEF Fault, DataInv
  <2>3. TypeInv'
    BY <1>a, <1>n, <2>1 DEF TypeInv, tree, notes
  <2>4. QueueInv' /\ StateInv'
    BY <1>a, <1>n, <2>1 DEF QueueInv, StateInv, SaveFirst, Current
  <2>5. HeldInv' /\ RunInv'
    BY <1>n, <2>1 DEF HeldInv, RunInv
  <2>6. DataInv'
    BY <1>n, <2>1, <2>2 DEF DataInv
  <2>7. QED BY <2>3, <2>4, <2>5, <2>6 DEF PlaceInv
<1>4. CASE Crash \/ Reopen
  <2>1. NewProcess /\ (faults' = faults \/ Fault)
    BY <1>4 DEF Crash, Reopen
  <2>2. faults' \in 0..MaxFaults
    BY <2>1, CheckpointsAssumption DEF Fault, DataInv
  <2>3. queue' = <<>> /\ DOMAIN queue' = {} /\ queue' \in Seq(Jobs)
    BY <2>1, EmptySeq, LenProperties DEF NewProcess
  <2>4. NoJob \in [phase : {"none", "start", "restore", "recheck"}, attempt : 0..Attempts, notice : SUBSET Notices]
    BY CheckpointsAssumption DEF NoJob
  <2>5. TypeInv'
    BY <1>a, <1>n, <2>1, <2>3, <2>4 DEF TypeInv, NewProcess, tree
  <2>6. QueueInv' /\ StateInv' /\ HeldInv' /\ RunInv'
    BY <1>n, <2>1, <2>3, Nothing DEF NewProcess, QueueInv, StateInv, HeldInv, RunInv, SaveFirst
  <2>7. DataInv'
    BY <1>n, <2>1, <2>2, <2>3 DEF DataInv, NewProcess
  <2>8. QED BY <2>5, <2>6, <2>7 DEF PlaceInv
<1>5. QED BY <1>1, <1>2, <1>3, <1>4 DEF Apart

LEMMA PlaceKept ==
  ASSUME PlaceInv, DataInv, HostInv, TreeInv, KeepInv, [HostsNext]_allVars
  PROVE  PlaceInv' /\ DataInv'
<1>1. TypeInv /\ QueueInv
  BY DEF PlaceInv
<1>2. CASE [Next]_vars
  <2>1. TypeInv' /\ DataInv'
    BY <1>1, <1>2, TypeStep, DataStep
  <2>2. PlaceNext
    BY <1>2, PlaceStep
  <2>3. QED BY <2>1, <2>2 DEF PlaceNext, PlaceInv
<1>3. CASE Apart
  BY <1>3, ApartPlace
<1>4. QED BY <1>1, <1>2, <1>3, HostSteps

-----------------------------------------------------------------------------
(***************************************************************************)
(* Who runs the tool.                                                      *)
(***************************************************************************)

\* No /cells, so a call and a save at most.
LEMMA DurableQueue ==
  ASSUME TypeInv, QueueInv, HostInv, host = "durable"
  PROVE  /\ Len(queue) \in 0..2
         /\ \A n \in DOMAIN queue : queue[n].by \in {"main", "save"}
<1>1. \A n \in DOMAIN queue : queue[n] \in Jobs
  BY ElementOfSeq, LenProperties DEF TypeInv
<1>2. \A n \in DOMAIN queue : queue[n].by \in {"main", "save"}
  BY <1>1 DEF Jobs, QueueInv, HostInv
<1>3. Len(queue) \in Nat /\ DOMAIN queue = 1..Len(queue)
  BY LenProperties DEF TypeInv
<1>4. SUFFICES ASSUME Len(queue) > 2 PROVE FALSE
  BY <1>2, <1>3
<1>5. 1 \in DOMAIN queue /\ 2 \in DOMAIN queue /\ 3 \in DOMAIN queue
  BY <1>3, <1>4
<1>6. queue[1].by # queue[2].by /\ queue[2].by # queue[3].by /\ queue[1].by # queue[3].by
  BY <1>5 DEF QueueInv
<1>7. QED BY <1>2, <1>5, <1>6

\* Only start() brings a kernel up.
LEMMA JobStartsKernel ==
  ASSUME TypeInv, Checkpointing, up', ~up
  PROVE  Starting
<1>1. SyncStart \/ SyncRetries \/ SyncReturns
  BY DEF Checkpointing, JobStarts, SyncStartFails, RestoreNothing, RestoreBranch, RestoreKills,
         RestoreFails, RestoreCancelled, RestoreRefused, Save, SaveFails, KernelDies, Free, kernel
<1>2. QED BY <1>1 DEF SyncStart, SyncRetries, SyncReturns, Starting

LEMMA HostStep ==
  ASSUME PlaceInv, DataInv, HostInv, [HostsNext]_allVars
  PROVE  HostInv'
<1>a. TypeInv /\ QueueInv
  BY DEF PlaceInv
<1>n. NoCall.phase = "idle" /\ Open = [phase |-> "open", jobs |-> 0]
  BY DEF NoCall, Open
<1>1. CASE Job
  <2>1. /\ queue # <<>>
        /\ viewer = "none" => viewer' = "none" /\ UNCHANGED undelivered
    BY <1>1, <1>a, JobFacts DEF Job
  <2>2. runtime = "live" \/ Disposed
    BY <2>1 DEF HostInv, Disposed
  <2>3. up' => runtime = "live"
    <3>1. up' => up \/ Starting
      BY <1>1, <1>a, JobStartsKernel DEF Job
    <3>2. QED BY <1>1, <2>2, <3>1 DEF Job, HostInv
  <2>4. /\ closing' \in [phase : {"open", "waiting", "closed"}, jobs : 0..2]
        /\ closing'.phase = closing.phase
        /\ closing = Open => closing' = Open
    BY <1>1, <1>n DEF Job, HostInv
  <2>5. QED BY <1>1, <2>1, <2>2, <2>3, <2>4 DEF Job, HostInv, Disposed, nested, delivery
<1>2. CASE SyncDisposed
  <2>1. /\ ~up /\ UNCHANGED <<up, undelivered, host, nested, entry, closing, quiet, crossed>>
        /\ viewer' = "none" \/ UNCHANGED viewer
    BY <1>2 DEF SyncDisposed, SyncThrows, Disposed, HostInv, kernel, notes, delivery
  <2>2. /\ runtime \in {"disposed", "leaking", "leaked"}
        /\ runtime' \in {"disposed", "leaking", "leaked"}
    BY <1>2 DEF SyncDisposed, Disposed
  <2>3. QED BY <2>1, <2>2 DEF HostInv, nested
<1>3. CASE HostExecutes
  <2>1. main.phase = "execute" /\ UNCHANGED <<up, queue, viewer, undelivered, hostVars>>
    BY <1>3 DEF HostExecutes, Execute, notes
  <2>2. QED BY <2>1 DEF HostInv, hostVars, nested, process, delivery
<1>4. CASE PiSession
  <2>1. /\ host = "pi" /\ UNCHANGED <<host, entry, runtime, closing, quiet>> /\ runtime = "live"
        /\ closing = Open
    BY <1>4
    DEF PiSession, PiMove, PiReload, PiEvent, PiCellCall, PiToggle, ParentCalls, PiCellAnswered,
        PiCellLost, PiCellResult, NestedResult, ParentResult, Pi, process, HostInv
  <2>2. /\ CellNotices(Told) \subseteq CellNotes /\ CellNotices(main.notices) \subseteq CellNotes
        /\ "reset" \in CellNotes
    BY <1>a DEF CellNotices, Told, CellNotes, TypeInv
  <2>3. parent' \in {"none", "open"} /\ forwarded' \subseteq CellNotes /\ unheard' \subseteq CellNotes
    BY <1>4, <2>2
    DEF PiSession, PiMove, PiReload, PiEvent, PiCellCall, PiToggle, ParentCalls, PiCellAnswered,
        PiCellLost, PiCellResult, NestedResult, ParentResult, Forward, nested, HostInv
  <2>4. crossed' \in BOOLEAN
    BY <1>4
    DEF PiSession, PiMove, PiReload, PiEvent, PiCellCall, PiToggle, ParentCalls, PiCellAnswered,
        PiCellLost, PiCellResult, NestedResult, ParentResult, Delivered, delivery, HostInv
  <2>5. QED BY <1>n, <2>1, <2>3, <2>4 DEF HostInv
<1>5. CASE DurableSession
  <2>1. host = "durable" /\ UNCHANGED <<host, parent, forwarded, unheard, crossed>>
    BY <1>5
    DEF DurableSession, DurableEvent, DurableCall, AgentKnown, DurableThrows, EntriesScanned,
        DurableAnswered, Record, RecordFails, Close, KernelShutdown, Crash, Reopen, NewProcess,
        Durable, nested, delivery
  <2>2. viewer' = viewer /\ undelivered' = undelivered
    BY <1>5
    DEF DurableSession, DurableEvent, DurableCall, AgentKnown, DurableThrows, EntriesScanned,
        DurableAnswered, Record, RecordFails, Close, KernelShutdown, Crash, Reopen, NewProcess,
        LoseCheckpoint, KernelExits, CellLost, CellCall, notes, vars
  <2>3. CASE DurableEvent
    <3>1. /\ up' => up
          /\ UNCHANGED <<queue, process>> /\ (main' = NoCall \/ UNCHANGED main)
      BY <2>3 DEF DurableEvent, LoseCheckpoint, KernelExits, CellLost, KernelDies, kernel
    <3>2. QED BY <1>n, <2>1, <2>2, <3>1 DEF HostInv, process
  <2>4. CASE DurableCall \/ AgentKnown \/ DurableThrows
    BY <2>1, <2>2, <2>4
    DEF DurableCall, AgentKnown, DurableThrows, Refused, HostInv, vars, kernel
  <2>5. CASE EntriesScanned
    <3>1. entry = "scan" /\ entry' = "none" /\ UNCHANGED <<up, runtime, closing, quiet>>
      BY <2>5 DEF EntriesScanned, CellCall, kernel
    <3>2. QED BY <2>1, <2>2, <3>1 DEF HostInv
  <2>6. CASE DurableAnswered \/ Record \/ RecordFails
    <3>1. main.phase # "idle" /\ UNCHANGED <<up, process>>
      BY <2>6 DEF DurableAnswered, Record, RecordFails, kernel
    <3>2. QED BY <2>1, <2>2, <3>1 DEF HostInv, process
  <2>7. CASE Close
    <3>1. Len(queue) \in 0..2
      BY <1>a, <2>1, DurableQueue
    <3>2. closing' = IF runtime = "none" THEN [phase |-> "closed", jobs |-> 0]
                     ELSE [phase |-> "waiting", jobs |-> Len(queue)]
      BY <2>7, <1>n DEF Close
    <3>3. closing' \in [phase : {"open", "waiting", "closed"}, jobs : 0..2]
          /\ closing'.phase = IF runtime = "none" THEN "closed" ELSE "waiting"
      BY <3>1, <3>2
    <3>4. quiet' \in BOOLEAN /\ UNCHANGED <<up, queue, main, entry, runtime>>
      BY <2>7 DEF Close, vars, kernel, HostInv
    <3>5. QED BY <2>1, <2>2, <3>3, <3>4 DEF HostInv
  <2>8. CASE KernelShutdown
    <3>1. closing' = [phase |-> "closed", jobs |-> 0] /\ runtime' \in {"disposed", "leaking"}
          /\ up' = FALSE /\ UNCHANGED <<entry, quiet>>
      BY <2>8, <1>n DEF KernelShutdown
    <3>2. closing' \in [phase : {"open", "waiting", "closed"}, jobs : 0..2] /\ closing'.phase = "closed"
      BY <3>1
    <3>3. QED BY <2>1, <2>2, <3>1, <3>2 DEF HostInv
  <2>9. CASE Crash \/ Reopen
    <3>1. /\ up' = FALSE /\ queue' = <<>> /\ main' = NoCall /\ entry' = "none" /\ runtime' = "none"
          /\ closing' = Open /\ UNCHANGED quiet
      BY <2>9 DEF Crash, Reopen, NewProcess
    <3>2. QED BY <1>n, <2>1, <2>2, <3>1 DEF HostInv
  <2>10. QED BY <1>5, <2>3, <2>4, <2>5, <2>6, <2>7, <2>8, <2>9 DEF DurableSession
<1>6. CASE UNCHANGED allVars
  BY <1>6 DEF HostInv, allVars, hostVars, vars, kernel, notes, nested, process, delivery
<1>7. QED BY <1>1, <1>2, <1>3, <1>4, <1>5, <1>6 DEF HostsNext

LEMMA NestStep ==
  ASSUME PlaceInv, DataInv, HostInv, NestInv, [HostsNext]_allVars
  PROVE  NestInv'
<1>a. TypeInv /\ QueueInv
  BY DEF PlaceInv
<1>n. NoCall.phase = "idle"
  BY Nothing
<1>1. CASE Job \/ SyncDisposed
  <2>1. Checkpointing /\ UNCHANGED nested
    BY <1>1, <1>a, DisposedThrows DEF Job, SyncDisposed
  <2>2. UNCHANGED main \/ (main.phase = "queued" /\ main'.phase \in {"idle", "execute"})
    BY <1>a, <2>1, JobFacts
  <2>3. QED BY <2>1, <2>2 DEF NestInv, CellNotices, nested
<1>2. CASE HostExecutes
  <2>1. main.phase = "execute" /\ main'.phase = "running" /\ UNCHANGED nested
    BY <1>2, <1>a DEF HostExecutes, Execute, hostVars, TypeInv
  <2>2. QED BY <2>1 DEF NestInv, nested
<1>3. CASE PiMove \/ PiReload \/ PiEvent \/ PiToggle \/ ParentCalls
  BY <1>3
  DEF PiMove, Move, PiReload, PiEvent, LoseCheckpoint, KernelExits, PiToggle, ToggleCells, ParentCalls,
      NestInv, CellNotices, HostInv, nested, vars
<1>4. CASE PiCellCall
  <2>1. main.phase = "idle" /\ main'.phase = "queued" /\ UNCHANGED nested
    BY <1>4 DEF PiCellCall, CellCall, NoCall
  <2>2. QED BY <2>1 DEF NestInv, nested
<1>5. CASE PiCellAnswered
  <2>1. /\ main.phase = "running" /\ main'.phase = "returning" /\ main'.notices = Told
        /\ main'.kernelReset = main.kernelReset
    BY <1>5, <1>a DEF PiCellAnswered, CellAnswered, TypeInv
  <2>2. QED BY <1>5, <2>1 DEF PiCellAnswered, NestInv, CellNotices
<1>6. CASE PiCellLost
  BY <1>6, <1>n DEF PiCellLost, CellLost, Forward, NestInv
<1>7. CASE PiCellResult
  BY <1>7 DEF PiCellResult, NestInv, HostInv, nested
<1>8. CASE NestedResult
  BY <1>8, <1>n DEF NestedResult, Forward, NestInv
<1>9. CASE ParentResult
  BY <1>9 DEF ParentResult, NestInv
<1>10. CASE DurableSession
  <2>1. host = "durable" /\ UNCHANGED nested
    BY <1>10
    DEF DurableSession, DurableEvent, DurableCall, AgentKnown, DurableThrows, EntriesScanned,
        DurableAnswered, Record, RecordFails, Close, KernelShutdown, Crash, Reopen, Durable
  <2>2. QED BY <2>1 DEF NestInv, HostInv, nested
<1>11. CASE UNCHANGED allVars
  BY <1>11 DEF NestInv, CellNotices, allVars, hostVars, vars, nested
<1>12. QED
  BY <1>1, <1>2, <1>3, <1>4, <1>5, <1>6, <1>7, <1>8, <1>9, <1>10, <1>11 DEF HostsNext, PiSession

-----------------------------------------------------------------------------
(***************************************************************************)
(* What the kernel holds of the conversation.                              *)
(***************************************************************************)

\* A result that is on its way finds at most saves in the queue.
LEMMA TreeStep ==
  ASSUME PlaceInv, DataInv, HostInv, TreeInv, [HostsNext]_allVars
  PROVE  TreeInv'
<1>a. TypeInv /\ QueueInv
  BY DEF PlaceInv
<1>n. NoCall.phase = "idle" /\ NoId \notin Ids
  BY Nothing, CheckpointsAssumption
<1>k. ASSUME UNCHANGED <<tree, delivery, queue>>, up' => up /\ ns' = ns,
             main' = main \/ (main'.phase # "returning" /\ ~crossed)
      PROVE  TreeInv'
  BY <1>k DEF TreeInv, Answered, tree, delivery
<1>x. main.phase # "returning" => ~crossed
  BY DEF TreeInv
<1>1. CASE Job \/ SyncDisposed
  <2>1. Checkpointing /\ UNCHANGED delivery
    BY <1>1, <1>a, DisposedThrows DEF Job, SyncDisposed
  <2>2. /\ queue # <<>> /\ UNCHANGED tree
        /\ queue' = queue \/ queue' = Tail(queue)
        /\ main' = main \/ (main.phase # "returning" /\ main'.phase # "returning")
        /\ Current.by = "save" => UNCHANGED ns /\ (up' => up)
    BY <1>a, <2>1, JobFacts
  <2>3. \A n \in DOMAIN queue' : \E m \in DOMAIN queue : queue'[n] = queue[m]
    BY <1>a, <2>2, JobQueue
  <2>4. 1 \in DOMAIN queue /\ Current = queue[1]
    BY <1>a, <2>2, QueueFacts DEF TypeInv
  <2>5. QED BY <1>x, <2>1, <2>2, <2>3, <2>4 DEF TreeInv, Answered, tree, delivery
<1>2. CASE HostExecutes
  <2>1. /\ main.phase = "execute" /\ main'.phase = "running"
        /\ UNCHANGED <<tree, delivery, queue, up, ns>>
    BY <1>2, <1>a DEF HostExecutes, Execute, hostVars, TypeInv
  <2>2. QED BY <1>k, <1>x, <2>1
<1>3. CASE PiMove
  <2>1. /\ tip' = NoId /\ main.phase = "idle" /\ UNCHANGED <<main, lineage, queue, crossed>>
        /\ branch' = <<>> \/ \E i \in Answered : branch' = lineage[i]
    BY <1>3 DEF PiMove, Move
  <2>2. QED BY <2>1 DEF TreeInv, Answered
<1>4. CASE PiReload \/ Crash \/ Reopen
  <2>1. queue' = <<>> /\ DOMAIN queue' = {}
    BY <1>4, EmptySeq, LenProperties DEF PiReload, Reload, Crash, Reopen, NewProcess
  <2>2. UNCHANGED <<tree, delivery>> /\ main'.phase = "idle" /\ ~crossed
    BY <1>4, <1>n, <1>x DEF PiReload, Reload, Crash, Reopen, NewProcess, Durable, HostInv
  <2>3. QED BY <2>1, <2>2 DEF TreeInv, Answered, tree, delivery
<1>5. CASE PiEvent \/ PiCellLost \/ DurableEvent
  <2>1. /\ UNCHANGED <<tree, delivery, queue>> /\ (up' => up /\ ns' = ns)
        /\ main' = main \/ (main'.phase # "returning" /\ ~crossed)
    BY <1>5, <1>n, <1>x
    DEF PiEvent, PiCellLost, DurableEvent, LoseCheckpoint, KernelExits, CellLost, KernelDies, kernel
  <2>2. QED BY <1>k, <2>1
<1>6. CASE PiCellCall \/ PiToggle \/ EntriesScanned
  <2>1. PICK by \in {"main", "viewer"} : Enqueue(by, branch, NoId)
    BY <1>6 DEF PiCellCall, PiToggle, EntriesScanned, CellCall, ToggleCells
  <2>2. /\ queue \in Seq(Jobs) /\ by \in {"main", "viewer", "save"} /\ branch \in Seq(Ids)
        /\ NoId \in Ids \cup {NoId}
    BY <1>a DEF TypeInv
  <2>3. /\ DOMAIN queue' = DOMAIN queue \cup {Len(queue) + 1}
        /\ \A n \in DOMAIN queue : queue'[n] = queue[n]
        /\ queue'[Len(queue) + 1] = [by |-> by, cands |-> branch, id |-> NoId]
    BY <2>1, <2>2, EnqueueFacts
  <2>4. UNCHANGED <<tree, tip>>
    BY <1>6 DEF PiCellCall, PiToggle, EntriesScanned, CellCall, ToggleCells, delivery
  <2>5. (crossed' <=> main'.phase = "returning") /\ (main'.phase = "returning" => main' = main)
    <3>1. CASE PiToggle
      BY <1>x, <3>1 DEF PiToggle, ToggleCells
    <3>2. CASE PiCellCall \/ EntriesScanned
      <4>1. main.phase = "idle" /\ main'.phase = "queued" /\ UNCHANGED delivery
        BY <3>2 DEF PiCellCall, EntriesScanned, CellCall, NoCall
      <4>2. QED BY <1>x, <4>1 DEF delivery
    <3>3. QED BY <1>6, <3>1, <3>2
  <2>6. QED BY <2>3, <2>4, <2>5 DEF TreeInv, Answered, tree
<1>7. CASE PiCellAnswered \/ DurableAnswered
  <2>1. CellAnswered \/ DurableAnswered
    BY <1>7 DEF PiCellAnswered
  <2>2. PICK i \in Ids \ Answered :
          /\ ns' = i /\ lineage' = [lineage EXCEPT ![i] = <<i>> \o main.cands]
          /\ main'.phase = "returning" /\ main'.id = i
          /\ DOMAIN queue' = {1} /\ queue'[1] = [by |-> "save", cands |-> <<>>, id |-> i]
    BY <1>a, <2>1, Answer
  <2>3. UNCHANGED <<branch, tip>> /\ ~crossed'
    <3>1. main.phase = "running" /\ UNCHANGED <<branch, delivery>>
      BY <1>7 DEF PiCellAnswered, CellAnswered, DurableAnswered
    <3>2. QED BY <1>x, <3>1 DEF delivery
  <2>4. /\ <<i>> \o main.cands # <<>> /\ (<<i>> \o main.cands)[1] = i
    <3>1. /\ main.cands \in Seq(Ids) /\ <<i>> \in Seq(Ids) /\ Len(<<i>>) = 1 /\ <<i>>[1] = i
          /\ Len(main.cands) \in Nat
      BY <1>a, LenProperties DEF TypeInv
    <3>2. /\ <<i>> \o main.cands \in Seq(Ids) /\ Len(<<i>> \o main.cands) = 1 + Len(main.cands)
          /\ (<<i>> \o main.cands)[1] = i
      BY <3>1, ConcatProperties
    <3>3. QED BY <3>1, <3>2, EmptySeq
  <2>5. lineage'[i] = <<i>> \o main.cands /\ \A j \in Ids \ {i} : lineage'[j] = lineage[j]
    BY <1>a, <2>2 DEF TypeInv
  <2>6. Answered' = Answered \cup {i}
    BY <2>4, <2>5 DEF Answered
  <2>7. \A j \in Ids : lineage'[j] # <<>> => lineage'[j][1] = j
    BY <2>4, <2>5 DEF TreeInv
  <2>8. i # Nearest(branch)
    BY <1>n DEF TreeInv, Nearest
  <2>9. QED BY <2>2, <2>3, <2>6, <2>7, <2>8 DEF TreeInv, Nearest
<1>8. CASE PiCellResult \/ NestedResult \/ Record
  <2>1. /\ main.phase = "returning" /\ branch' = lineage[main.id]
        /\ tip' = (IF crossed THEN NoId ELSE main.id) /\ ~crossed'
        /\ main'.phase = "idle" /\ UNCHANGED <<lineage, queue>>
    BY <1>8, <1>n
    DEF PiCellResult, ResultAppended, NestedResult, Entries, Delivered, Record, Durable, HostInv
  <2>2. branch' # <<>> /\ branch'[1] = main.id /\ main.id \in Ids
    BY <2>1 DEF TreeInv, Answered
  <2>3. QED BY <1>n, <2>1, <2>2 DEF TreeInv, Answered
<1>9. CASE RecordFails
  <2>1. main'.phase = "idle" /\ ~crossed /\ UNCHANGED <<tree, delivery, queue, up, ns>>
    BY <1>9, <1>n DEF RecordFails, Unrecorded, Durable, HostInv, kernel, tree
  <2>2. QED BY <1>k, <2>1
<1>10. CASE KernelShutdown
  <2>1. /\ up' = FALSE /\ ~crossed /\ UNCHANGED <<tree, delivery, queue>>
        /\ main' = main \/ main'.phase # "returning"
    BY <1>10, <1>n DEF KernelShutdown, Durable, HostInv
  <2>2. QED BY <1>k, <2>1
<1>11. CASE ParentCalls \/ ParentResult \/ DurableCall \/ AgentKnown \/ DurableThrows \/ Close \/ UNCHANGED allVars
  <2>1. UNCHANGED <<tree, delivery, queue, up, ns, main>>
    BY <1>11
    DEF ParentCalls, ParentResult, DurableCall, AgentKnown, DurableThrows, Close, allVars, hostVars, vars, kernel
  <2>2. QED BY <1>k, <2>1
<1>12. QED
  BY <1>1, <1>2, <1>3, <1>4, <1>5, <1>6, <1>7, <1>8, <1>9, <1>10, <1>11
  DEF HostsNext, PiSession, DurableSession

\* A restore counts as the nearest checkpoint of the branch, which a delivered cell is.
LEMMA KeepStep ==
  ASSUME PlaceInv, DataInv, HostInv, TreeInv, KeepInv, [HostsNext]_allVars
  PROVE  KeepInv'
<1> SUFFICES ASSUME up', ns' \in Ids, ns' = tip' \/ (ns' = main'.id /\ ~crossed')
             PROVE  held' = ns' \/ SaveFirst'
  BY DEF KeepInv, Untouched
<1>a. TypeInv /\ QueueInv /\ StateInv
  BY DEF PlaceInv
<1>n. NoCall.id \notin Ids /\ NoId \notin Ids /\ Partial \notin Ids
  BY CheckpointsAssumption DEF NoCall
<1>f. job.phase # "none" => queue # <<>> /\ 1 \in DOMAIN queue /\ Current = queue[1] /\ Current \in Jobs
  BY <1>a, FrontJob
<1>1. CASE Job \/ SyncDisposed
  <2>1. Checkpointing /\ UNCHANGED <<tip, crossed>>
    BY <1>1, <1>a, DisposedThrows DEF Job, SyncDisposed, delivery
  <2>2. /\ queue # <<>>
        /\ main' = main \/ main'.id \notin Ids
    BY <1>a, <2>1, JobFacts
  <2>3. ns' = tip \/ (ns' = main.id /\ ~crossed)
    BY <2>1, <2>2
  <2>4. up /\ ns' = ns => held = ns \/ SaveFirst
    BY <2>3 DEF KeepInv, Untouched
  <2>b. Current.by # "save" => ns' = tip
    <3>1. 1 \in DOMAIN queue /\ Current = queue[1]
      BY <1>a, <2>2, QueueFacts DEF TypeInv
    <3>2. Current.by # "save" => main.id \notin Ids \/ crossed
      BY <3>1 DEF TreeInv, DataInv
    <3>3. QED BY <2>3, <3>2
  <2>5. Current.by # "save" => Nearest(Current.cands) = ns'
    <3>1. 1 \in DOMAIN queue /\ Current = queue[1]
      BY <1>a, <2>2, QueueFacts DEF TypeInv
    <3>2. QED BY <1>n, <2>b, <3>1 DEF TreeInv, Nearest
  <2>6. CASE JobStarts \/ RestoreNothing \/ RestoreRefused
    BY <2>4, <2>6 DEF JobStarts, RestoreNothing, RestoreRefused, kernel, SaveFirst, Current
  <2>7. CASE SyncStart \/ SyncRetries
    BY <1>n, <2>4, <2>7 DEF SyncStart, SyncRetries, KernelStarts, SaveFirst, Current
  <2>8. CASE SyncStartFails \/ RestoreKills
    BY <2>8 DEF SyncStartFails, RestoreKills, KernelDies, kernel
  <2>9. CASE RestoreBranch
    BY <2>5, <2>9 DEF RestoreBranch, Replaced, Restoring
  <2>10. CASE RestoreFails
    BY <2>5, <2>10 DEF RestoreFails, Replaced, Restoring, KernelDies
  <2>11. CASE RestoreCancelled
    <3>1. Current.by # "save" /\ ~SaveFirst
      BY <2>11 DEF RestoreCancelled, Cancelled, SaveFirst
    <3>2. ns' = Partial \/ up' = FALSE \/ UNCHANGED kernel \/ held' = Nearest(Current.cands)
      BY <2>11 DEF RestoreCancelled, Replaced, KernelDies
    <3>3. UNCHANGED kernel => held' = ns'
      BY <2>4, <3>1 DEF kernel
    <3>4. QED BY <1>n, <2>5, <3>1, <3>2, <3>3
  <2>12. CASE SyncReturns
    <3>1. ~SaveFirst
      BY <1>a, <2>12 DEF SyncReturns, QueueInv, SaveFirst
    <3>2. ns' = NoId \/ (up /\ UNCHANGED <<ns, held>>)
      BY <2>12 DEF SyncReturns, KernelStarts
    <3>3. QED BY <1>n, <2>4, <3>1, <3>2
  <2>13. CASE Save
    <3>1. SaveFirst /\ up /\ held' = Current.id /\ ns' = ns
      BY <2>13, <2>2 DEF Save, Saving, Free, SaveFirst
    <3>2. QED BY <1>a, <3>1 DEF StateInv
  <2>14. CASE SaveFails
    <3>1. SaveFirst /\ 1 \in DOMAIN queue /\ Current = queue[1]
      BY <1>f, <2>14, <2>2 DEF SaveFails, Saving, SaveFirst
    <3>2. main.phase # "running"
      BY <1>a, <3>1 DEF QueueInv, SaveFirst
    <3>3. \/ ~up /\ UNCHANGED kernel
          \/ up /\ held' = Current.id /\ ns' = ns
          \/ up' = FALSE
      BY <2>14, <3>2 DEF SaveFails, Free, KernelDies
    <3>4. QED BY <1>a, <3>1, <3>3 DEF StateInv, kernel
  <2>15. QED
    BY <2>1, <2>6, <2>7, <2>8, <2>9, <2>10, <2>11, <2>12, <2>13, <2>14 DEF Checkpointing
<1>2. CASE HostExecutes
  <2>1. main'.id = main.id /\ UNCHANGED <<up, ns, held, queue, tip, crossed>>
    BY <1>2, <1>a DEF HostExecutes, Execute, hostVars, delivery, TypeInv
  <2>2. QED BY <2>1 DEF KeepInv, Untouched, SaveFirst, Current
<1>3. CASE PiMove
  <2>1. tip' = NoId /\ main.phase = "idle" /\ UNCHANGED main
    BY <1>3 DEF PiMove, Move
  <2>2. QED BY <1>n, <2>1 DEF DataInv
<1>4. CASE PiReload \/ Crash \/ Reopen \/ KernelShutdown
  BY <1>4 DEF PiReload, Reload, Crash, Reopen, NewProcess, KernelShutdown
<1>5. CASE PiEvent \/ PiCellLost \/ DurableEvent
  <2>1. LoseCheckpoint /\ UNCHANGED <<tip, crossed>>
    BY <1>5 DEF PiEvent, PiCellLost, DurableEvent, KernelExits, CellLost, KernelDies, delivery
  <2>2. UNCHANGED <<up, ns, held, queue, main>>
    BY <2>1 DEF LoseCheckpoint, kernel
  <2>3. QED BY <2>1, <2>2 DEF KeepInv, Untouched, SaveFirst, Current
<1>6. CASE PiCellCall \/ PiToggle \/ EntriesScanned
  <2>1. PICK by \in {"main", "viewer"} : Enqueue(by, branch, NoId)
    BY <1>6 DEF PiCellCall, PiToggle, EntriesScanned, CellCall, ToggleCells
  <2>2. /\ queue \in Seq(Jobs) /\ by \in {"main", "viewer", "save"} /\ branch \in Seq(Ids)
        /\ NoId \in Ids \cup {NoId}
    BY <1>a DEF TypeInv
  <2>3. queue' # <<>> /\ (queue # <<>> => Current' = Current)
    BY <2>1, <2>2, EnqueueFacts
  <2>4. UNCHANGED <<up, ns, held, tip>> /\ (main' = main \/ main'.id = NoId)
    BY <1>6 DEF PiCellCall, PiToggle, EntriesScanned, CellCall, ToggleCells, NoCall, kernel, delivery
  <2>5. crossed => crossed'
    <3>1. CASE PiToggle
      BY <3>1 DEF PiToggle
    <3>2. CASE PiCellCall \/ EntriesScanned
      BY <3>2 DEF PiCellCall, EntriesScanned, delivery
    <3>3. QED BY <1>6, <3>1, <3>2
  <2>6. QED BY <1>n, <2>3, <2>4, <2>5 DEF KeepInv, Untouched, SaveFirst
<1>7. CASE PiCellAnswered \/ DurableAnswered
  <2>1. CellAnswered \/ DurableAnswered
    BY <1>7 DEF PiCellAnswered
  <2>2. PICK i \in Ids \ Answered :
          queue' # <<>> /\ queue'[1] = [by |-> "save", cands |-> <<>>, id |-> i] /\ Current' = queue'[1]
    BY <1>a, <2>1, Answer
  <2>3. QED BY <2>2 DEF SaveFirst
<1>8. CASE PiCellResult \/ NestedResult \/ Record
  <2>1. /\ tip' = (IF crossed THEN NoId ELSE main.id)
        /\ main' = NoCall /\ UNCHANGED <<up, ns, held, queue>>
    BY <1>8
    DEF PiCellResult, ResultAppended, NestedResult, Delivered, Record, Durable, HostInv, kernel
  <2>2. QED BY <1>n, <2>1 DEF KeepInv, Untouched, SaveFirst, Current
<1>9. CASE RecordFails
  <2>1. main' = NoCall /\ UNCHANGED <<up, ns, held, queue, tip>>
    BY <1>9 DEF RecordFails, kernel, delivery
  <2>2. QED BY <1>n, <2>1 DEF KeepInv, Untouched, SaveFirst, Current
<1>10. CASE ParentCalls \/ ParentResult \/ DurableCall \/ AgentKnown \/ DurableThrows \/ Close \/ UNCHANGED allVars
  <2>1. UNCHANGED <<tip, crossed, queue, up, ns, held, main>>
    BY <1>10
    DEF ParentCalls, ParentResult, DurableCall, AgentKnown, DurableThrows, Close, allVars, hostVars,
        vars, kernel, delivery
  <2>2. QED BY <2>1 DEF KeepInv, Untouched, SaveFirst, Current
<1>11. QED
  BY <1>1, <1>2, <1>3, <1>4, <1>5, <1>6, <1>7, <1>8, <1>9, <1>10
  DEF HostsNext, PiSession, DurableSession

-----------------------------------------------------------------------------
(***************************************************************************)
(* What the results of the durable host tell.                              *)
(***************************************************************************)

LEMMA CallStep ==
  ASSUME PlaceInv, DataInv, HostInv, CallInv, [HostsNext]_allVars
  PROVE  CallInv'
<1> SUFFICES ASSUME host' = "durable", main'.phase = "queued"
             PROVE  main'.cands = branch'
  BY DEF CallInv
<1>a. TypeInv /\ QueueInv
  BY DEF PlaceInv
<1>n. NoCall.phase = "idle"
  BY Nothing
<1>k. ASSUME UNCHANGED <<host, main, branch>> PROVE main'.cands = branch'
  BY <1>k DEF CallInv
<1>1. CASE Job \/ SyncDisposed
  <2>1. Checkpointing /\ UNCHANGED host
    BY <1>1, <1>a, DisposedThrows DEF Job, SyncDisposed
  <2>2. UNCHANGED tree /\ main' = main
    BY <1>a, <2>1, JobFacts
  <2>3. QED BY <1>k, <2>1, <2>2 DEF tree
<1>2. CASE HostExecutes
  BY <1>2, <1>a DEF HostExecutes, Execute, TypeInv
<1>3. CASE PiSession
  BY <1>3
  DEF PiSession, PiMove, PiReload, PiEvent, PiCellCall, PiToggle, ParentCalls, PiCellAnswered,
      PiCellLost, PiCellResult, NestedResult, ParentResult, Pi
<1>4. CASE DurableEvent \/ DurableCall \/ AgentKnown \/ DurableThrows \/ Close \/ KernelShutdown
             \/ Crash \/ Reopen
  <2>1. UNCHANGED <<host, main, branch>>
    BY <1>4, <1>n
    DEF DurableEvent, DurableCall, AgentKnown, DurableThrows, Close, KernelShutdown, Crash, Reopen,
        NewProcess, Durable, LoseCheckpoint, KernelExits, CellLost, vars, tree
  <2>2. QED BY <1>k, <2>1
<1>5. CASE EntriesScanned
  BY <1>5 DEF EntriesScanned, CellCall, NoCall, tree
<1>6. CASE DurableAnswered \/ Record \/ RecordFails
  BY <1>6, <1>n, <1>a DEF DurableAnswered, Record, RecordFails, TypeInv
<1>7. CASE UNCHANGED allVars
  BY <1>k, <1>7 DEF allVars, hostVars, vars, tree
<1>8. QED BY <1>1, <1>2, <1>3, <1>4, <1>5, <1>6, <1>7 DEF HostsNext, DurableSession

\* A restore, or a cell whose record failed, leaves a namespace that the conversation does
\* not name; a sync that finds it named has told of it before.
LEMMA ToldStep ==
  ASSUME PlaceInv, DataInv, HostInv, TreeInv, KeepInv, CallInv, ToldInv, [HostsNext]_allVars
  PROVE  ToldInv'
<1> SUFFICES ASSUME host' = "durable", unsaid' = "yes"
             PROVE  /\ up'
                    /\ IF main'.phase \in {"idle", "queued"}
                       THEN IF SaveFirst' THEN Current'.id # Nearest(branch')
                            ELSE held' # Nearest(branch') \/ (job'.phase = "recheck" /\ job'.notice # {})
                       ELSE main'.notices \cap RestoreNotices # {}
  BY DEF ToldInv, Nearest
<1>a. TypeInv /\ QueueInv /\ StateInv
  BY DEF PlaceInv
<1>n. NoCall.phase = "idle"
  BY Nothing
<1>f. job.phase # "none" => queue # <<>> /\ 1 \in DOMAIN queue /\ Current = queue[1] /\ Current \in Jobs
  BY <1>a, FrontJob
<1>t. queue # <<>> /\ queue' = Tail(queue) => ~SaveFirst'
  BY <1>a, JobQueue
<1>h. host = "durable"
  BY DEF HostsNext, Job, SyncDisposed, HostExecutes, PiSession, PiMove, PiReload, PiEvent, PiCellCall,
         PiToggle, ParentCalls, PiCellAnswered, PiCellLost, PiCellResult, NestedResult, ParentResult, Pi,
         DurableSession, DurableEvent, DurableCall, AgentKnown, DurableThrows, EntriesScanned,
         DurableAnswered, Record, RecordFails, Close, KernelShutdown, Crash, Reopen, Durable,
         allVars, hostVars
<1>p. ~PiSession
  BY <1>h
  DEF PiSession, PiMove, PiReload, PiEvent, PiCellCall, PiToggle, ParentCalls, PiCellAnswered,
      PiCellLost, PiCellResult, NestedResult, ParentResult, Pi
<1>k. ASSUME UNCHANGED <<branch, up, held, queue, job, main, unsaid>>
      PROVE  ToldInv'
  BY <1>h, <1>k DEF ToldInv, SaveFirst, Current, Nearest
<1>1. CASE Job \/ SyncDisposed
  <2>1. Checkpointing
    BY <1>1, <1>a, DisposedThrows DEF Job, SyncDisposed
  <2>2. queue # <<>> /\ UNCHANGED branch
    BY <1>a, <2>1, JobFacts DEF tree
  <2>3. Current.by \in {"main", "save"} /\ 1 \in DOMAIN queue /\ Current = queue[1]
    BY <1>a, <1>h, <2>2, QueueFacts, DurableQueue DEF TypeInv
  <2>4. Current.by = "main" => main.phase = "queued" /\ Current.cands = branch /\ ~SaveFirst
    BY <1>a, <1>h, <2>3 DEF QueueInv, CallInv, SaveFirst
  <2>5. CASE JobStarts
    <3>1. /\ job.phase = "none" /\ unsaid = "yes" /\ UNCHANGED <<up, held, queue, main>>
          /\ main.phase # "execute"
      BY <2>5, Nothing DEF JobStarts, kernel, history
    <3>2. QED BY <1>h, <2>2, <3>1 DEF ToldInv, SaveFirst, Current, Nearest
  <2>6. CASE SyncStart
    <3>1. /\ unsaid = "yes" /\ up /\ UNCHANGED <<queue, main>> /\ Current.by = "main"
          /\ job.phase = "start"
      BY <1>a, <1>h, <2>3, <2>6 DEF SyncStart, history, ToldInv, QueueInv
    <3>2. UNCHANGED <<up, held>>
      BY <1>a, <2>6, <3>1 DEF SyncStart, KernelStarts, TypeInv
    <3>3. QED BY <1>h, <2>2, <2>4, <3>1, <3>2 DEF ToldInv, SaveFirst, Current, Nearest
  <2>7. CASE SyncStartFails \/ SyncRetries
    BY <1>h, <2>7 DEF SyncStartFails, SyncRetries, history, ToldInv
  <2>8. CASE RestoreNothing
    <3>1. unsaid = "yes" /\ Current.by = "main" /\ held = Nearest(branch) /\ job.phase = "restore"
      BY <2>3, <2>4, <2>8 DEF RestoreNothing, Restoring, history
    <3>2. QED BY <1>h, <2>4, <3>1 DEF ToldInv
  <2>9. CASE RestoreBranch \/ RestoreFails
    <3>1. /\ Current.by = "main" /\ up /\ UNCHANGED <<queue, main>> /\ UNCHANGED up
      BY <2>3, <2>9 DEF RestoreBranch, RestoreFails, KernelDies, Restoring, Free
    <3>r. Restored({"empty"}) \/ Restored({"restored"}) \/ Restored({"failed"})
      BY <2>9 DEF RestoreBranch, RestoreFails
    <3>j. job'.phase = "recheck" /\ job'.notice # {}
      BY <1>a, <3>r DEF Restored, TypeInv
    <3>2. ~SaveFirst'
      BY <2>4, <3>1 DEF SaveFirst, Current
    <3>3. QED BY <2>4, <3>1, <3>2, <3>j
  <2>10. CASE RestoreKills
    BY <2>10 DEF RestoreKills, KernelDies
  <2>11. CASE RestoreCancelled
    <3>c. Current.by = "main"
      BY <2>3, <2>11 DEF RestoreCancelled, Cancelled
    <3>1. /\ up /\ queue' = Tail(queue) /\ main' = NoCall /\ job.phase = "restore"
          /\ up' /\ (held' = Partial \/ (unsaid = "yes" /\ UNCHANGED held))
      BY <2>11, <3>c
      DEF RestoreCancelled, Restoring, KernelDies, SyncThrows, HeldMeanwhile, Free, kernel
    <3>2. Nearest(branch) # Partial
      <4>1. branch # <<>> => branch[1] \in Ids
        BY DEF TreeInv, Answered
      <4>2. QED BY <4>1, CheckpointsAssumption DEF Nearest
    <3>3. held' # Nearest(branch)
      BY <1>h, <2>4, <3>c, <3>1, <3>2 DEF ToldInv
    <3>4. QED BY <1>n, <1>t, <2>2, <3>1, <3>3 DEF Nearest
  <2>12. CASE RestoreRefused
    <3>1. unsaid = "yes" /\ ~Free /\ Current.by = "main"
      BY <2>3, <2>12 DEF RestoreRefused, Restoring, history
    <3>2. QED BY <1>h, <2>4, <3>1 DEF ToldInv, Free
  <2>13. CASE SyncReturns
    <3>1. unsaid = "yes" /\ Current.by = "main" /\ job.phase = "recheck" /\ up
      BY <1>a, <1>h, <2>3, <2>13 DEF SyncReturns, history, ToldInv, QueueInv
    <3>2. job.notice # {}
      BY <1>a, <1>h, <2>4, <3>1 DEF ToldInv, StateInv
    <3>3. up' /\ main' = [main EXCEPT !.phase = "execute",
                                      !.notices = job.notice \cup (IF saveFailure THEN {"save"} ELSE {})]
      BY <2>13, <3>1 DEF SyncReturns, KernelStarts
    <3>4. main'.phase = "execute" /\ job.notice \subseteq main'.notices
      BY <1>a, <3>3 DEF TypeInv
    <3>5. QED BY <1>a, <3>2, <3>3, <3>4 DEF StateInv
  <2>14. CASE Save \/ SaveFails
    <3>1. /\ SaveFirst /\ main.phase # "running" /\ job.phase = "restore" /\ queue' = Tail(queue)
          /\ UNCHANGED main
      BY <1>a, <1>f, <2>14 DEF Save, SaveFails, Saving, SaveEnds, SaveFirst, QueueInv
    <3>2. unsaid = "yes" /\ up
      BY <1>h, <2>14 DEF Save, SaveFails, KernelDies, ToldInv, history
    <3>3. up' /\ held' = Current.id
      BY <2>14, <3>1, <3>2 DEF Save, SaveFails, KernelDies, Free
    <3>4. QED BY <1>h, <1>t, <2>2, <3>1, <3>2, <3>3 DEF ToldInv, Nearest
  <2>15. QED
    BY <2>1, <2>5, <2>6, <2>7, <2>8, <2>9, <2>10, <2>11, <2>12, <2>13, <2>14 DEF Checkpointing
<1>2. CASE HostExecutes
  <2>1. /\ main.phase = "execute" /\ main'.phase = "running" /\ main'.notices = main.notices
        /\ unsaid = "yes" /\ UNCHANGED up
    BY <1>2, <1>a DEF HostExecutes, Execute, history, TypeInv
  <2>2. QED BY <1>h, <2>1 DEF ToldInv
<1>3. CASE DurableEvent
  <2>1. UNCHANGED <<branch, up, held, queue, job, main, unsaid>>
    BY <1>3 DEF DurableEvent, LoseCheckpoint, KernelExits, CellLost, KernelDies, kernel, tree
  <2>2. QED BY <1>k, <2>1 DEF ToldInv, Nearest
<1>4. CASE EntriesScanned
  <2>1. /\ main.phase = "idle" /\ main'.phase = "queued" /\ Enqueue("main", branch, NoId)
        /\ unsaid = "yes" /\ UNCHANGED <<branch, up, held, job>>
    BY <1>4 DEF EntriesScanned, CellCall, NoCall, tree, kernel, history
  <2>2. /\ queue' # <<>> /\ (queue # <<>> => Current' = Current)
        /\ queue = <<>> => Current' = [by |-> "main", cands |-> branch, id |-> NoId]
    <3>1. /\ queue \in Seq(Jobs) /\ "main" \in {"main", "viewer", "save"} /\ branch \in Seq(Ids)
          /\ NoId \in Ids \cup {NoId}
      BY <1>a DEF TypeInv
    <3>2. QED BY <2>1, <3>1, EnqueueFacts
  <2>3. (SaveFirst' <=> SaveFirst) /\ (SaveFirst => Current' = Current)
    BY <2>2 DEF SaveFirst
  <2>4. QED BY <1>h, <2>1, <2>3 DEF ToldInv, Nearest
<1>5. CASE DurableAnswered
  <2>1. /\ main.phase = "running" /\ main'.phase = "returning" /\ main'.notices = main.notices
        /\ unsaid = "yes" /\ UNCHANGED up
    BY <1>5, <1>a DEF DurableAnswered, history, TypeInv
  <2>2. QED BY <1>h, <2>1 DEF ToldInv
<1>6. CASE Record
  <2>1. main.phase = "returning" /\ unsaid = "yes" /\ main.notices \cap RestoreNotices = {}
    BY <1>6 DEF Record, LeftUnsaid
  <2>2. QED BY <1>h, <2>1 DEF ToldInv
<1>7. CASE RecordFails
  <2>1. /\ main.phase = "returning" /\ main'.phase = "idle" /\ unsaid = "yes"
        /\ UNCHANGED <<branch, up, ns, held, queue, job>>
    BY <1>7, <1>n DEF RecordFails, Unrecorded, kernel, history
  <2>2. up /\ ns = main.id /\ main.id \in Ids /\ main.id # Nearest(branch)
    BY <1>h, <2>1 DEF ToldInv, TreeInv, Answered, HostInv
  <2>3. IF SaveFirst THEN Current.id # Nearest(branch) ELSE held # Nearest(branch)
    BY <1>a, <1>h, <2>2 DEF StateInv, KeepInv, Untouched, HostInv
  <2>4. QED BY <2>1, <2>2, <2>3 DEF SaveFirst, Current, Nearest
<1>8. CASE KernelShutdown \/ Crash \/ Reopen
  BY <1>8 DEF KernelShutdown, Crash, Reopen, NewProcess
<1>9. CASE DurableCall \/ AgentKnown \/ DurableThrows \/ Close \/ UNCHANGED allVars
  <2>1. UNCHANGED <<branch, up, held, queue, job, main, unsaid>>
    BY <1>9 DEF DurableCall, AgentKnown, DurableThrows, Close, allVars, vars, tree, kernel, history
  <2>2. QED BY <1>k, <2>1 DEF ToldInv, Nearest
<1>10. QED
  BY <1>1, <1>2, <1>3, <1>4, <1>5, <1>6, <1>7, <1>8, <1>9, <1>p DEF HostsNext, DurableSession

-----------------------------------------------------------------------------
(***************************************************************************)
(* close().                                                                *)
(***************************************************************************)

\* close() that met no call in progress meets none later.
LEMMA QuietStep ==
  ASSUME PlaceInv, DataInv, HostInv, CloseInv, [HostsNext]_allVars, quiet', closing'.phase # "open"
  PROVE  main'.phase = "idle" /\ entry' # "scan"
<1>a. TypeInv /\ QueueInv
  BY DEF PlaceInv
<1>n. NoCall.phase = "idle" /\ Open.phase = "open"
  BY Nothing DEF Open
<1>o. quiet /\ closing.phase # "open" => main.phase = "idle" /\ entry # "scan"
  BY DEF CloseInv
<1>1. CASE Job \/ SyncDisposed
  <2>1. Checkpointing /\ UNCHANGED <<entry, quiet>> /\ closing'.phase = closing.phase
    BY <1>1, <1>a, DisposedThrows DEF Job, SyncDisposed, HostInv
  <2>2. main' = main \/ main.phase = "queued"
    BY <1>a, <2>1, JobFacts
  <2>3. QED BY <1>o, <2>1, <2>2
<1>2. CASE HostExecutes
  BY <1>2, <1>o DEF HostExecutes, Execute, hostVars, process
<1>3. CASE PiSession
  <2>1. host = "pi" /\ UNCHANGED closing
    BY <1>3
    DEF PiSession, PiMove, PiReload, PiEvent, PiCellCall, PiToggle, ParentCalls, PiCellAnswered,
        PiCellLost, PiCellResult, NestedResult, ParentResult, Pi, process
  <2>2. QED BY <1>n, <2>1 DEF HostInv
<1>4. CASE DurableEvent \/ UNCHANGED allVars
  <2>1. UNCHANGED <<entry, quiet, closing>> /\ (main' = main \/ main' = NoCall)
    BY <1>4 DEF DurableEvent, LoseCheckpoint, KernelExits, CellLost, process, allVars, hostVars, vars
  <2>2. QED BY <1>n, <1>o, <2>1
<1>5. CASE DurableCall \/ AgentKnown \/ DurableThrows
  BY <1>5, <1>o DEF DurableCall, AgentKnown, DurableThrows, Refused, vars
<1>6. CASE EntriesScanned \/ DurableAnswered \/ Record \/ RecordFails
  BY <1>6, <1>o DEF EntriesScanned, DurableAnswered, Record, RecordFails, process
<1>7. CASE Close
  BY <1>7 DEF Close, Calling, vars
<1>8. CASE KernelShutdown
  BY <1>8, <1>n, <1>o DEF KernelShutdown
<1>9. CASE Crash \/ Reopen
  BY <1>9, <1>n DEF Crash, Reopen, NewProcess
<1>10. QED
  BY <1>1, <1>2, <1>3, <1>4, <1>5, <1>6, <1>7, <1>8, <1>9 DEF HostsNext, DurableSession

\* A sync that close() could catch in start() is that of a call in progress.
LEMMA LeakStep ==
  ASSUME PlaceInv, DataInv, HostInv, CloseInv, [HostsNext]_allVars, quiet'
  PROVE  runtime' \notin {"leaking", "leaked"}
<1>a. TypeInv /\ QueueInv
  BY DEF PlaceInv
<1>k. ASSUME UNCHANGED <<runtime, quiet>> PROVE runtime' \notin {"leaking", "leaked"}
  BY <1>k DEF CloseInv
<1>1. CASE Job \/ HostExecutes \/ PiSession \/ UNCHANGED allVars
  <2>1. UNCHANGED <<runtime, quiet>>
    BY <1>1
    DEF Job, HostExecutes, PiSession, PiMove, PiReload, PiEvent, PiCellCall, PiToggle, ParentCalls,
        PiCellAnswered, PiCellLost, PiCellResult, NestedResult, ParentResult, Pi, allVars, hostVars, process
  <2>2. QED BY <1>k, <2>1
<1>2. CASE SyncDisposed
  BY <1>2 DEF SyncDisposed, CloseInv
<1>3. CASE KernelShutdown
  <2>1. runtime' = "disposed" \/ (MayLeak /\ runtime' = "leaking")
    BY <1>3 DEF KernelShutdown
  <2>2. quiet /\ closing.phase # "open" /\ host = "durable"
    BY <1>3 DEF KernelShutdown, Durable
  <2>3. ~MayLeak
    <3>1. SUFFICES ASSUME MayLeak PROVE FALSE
      OBVIOUS
    <3>2. 1 \in DOMAIN queue /\ Current = queue[1] /\ Current \in Jobs /\ Current.by # "save"
      BY <1>a, <3>1, FrontJob DEF MayLeak, Starting, QueueInv
    <3>3. main.phase = "queued"
      BY <1>a, <2>2, <3>2, DurableQueue DEF QueueInv
    <3>4. QED BY <2>2, <3>3 DEF CloseInv
  <2>4. QED BY <2>1, <2>3
<1>4. CASE DurableSession /\ ~KernelShutdown
  <2>1. (quiet' => quiet) /\ runtime' \in {runtime, "live", "none"}
    BY <1>4
    DEF DurableSession, DurableEvent, DurableCall, AgentKnown, DurableThrows, EntriesScanned,
        DurableAnswered, Record, RecordFails, Close, Crash, Reopen, NewProcess, process
  <2>2. QED BY <2>1 DEF CloseInv
<1>5. QED BY <1>1, <1>2, <1>3, <1>4 DEF HostsNext

\* A checkpoint that is kept stays so, unless something goes wrong or the queue is given up.
LEMMA KeptJob ==
  ASSUME PlaceInv, DataInv, Checkpointing, faults' = 0, NEW i, Kept(i)
  PROVE  /\ Kept(i)'
         /\ i \in stored' \/ UNCHANGED queue
         /\ i \in stored => i \in stored'
<1>a. TypeInv /\ QueueInv
  BY DEF PlaceInv
<1>u. ~Fault
  BY CheckpointsAssumption DEF Fault, DataInv
<1>1. stored \subseteq stored'
  BY <1>a, JobFacts
<1>2. SUFFICES ASSUME i \notin stored'
               PROVE  Kept(i)' /\ UNCHANGED queue
  BY <1>1 DEF Kept
<1>3. SaveFirst /\ up /\ Current.id = i
  BY <1>1, <1>2 DEF Kept
<1>4. 1 \in DOMAIN queue /\ Current = queue[1]
  BY <1>a, <1>3, QueueFacts DEF SaveFirst, TypeInv
<1>5. Free
  BY <1>a, <1>3, <1>4 DEF QueueInv, SaveFirst, Free
<1>6. JobStarts
  BY <1>a, <1>2, <1>3, <1>5, <1>u
  DEF Checkpointing, SaveFirst, QueueInv, SyncStart, SyncStartFails, RestoreNothing, RestoreBranch,
      RestoreKills, RestoreFails, RestoreCancelled, RestoreRefused, Restoring, SyncRetries, SyncReturns,
      Save, SaveFails
<1>7. QED BY <1>3, <1>6 DEF JobStarts, kernel, Kept, SaveFirst, Current

LEMMA CloseStep ==
  ASSUME PlaceInv, DataInv, HostInv, TreeInv, CloseInv, [HostsNext]_allVars
  PROVE  CloseInv'
<1>q. quiet' /\ closing'.phase # "open" => main'.phase = "idle" /\ entry' # "scan"
  BY QuietStep
<1>l. quiet' => runtime' \notin {"leaking", "leaked"}
  BY LeakStep
<1> SUFFICES ASSUME host' = "durable", quiet', faults' = 0
             PROVE  /\ branch' # <<>> => /\ Kept(Nearest(branch))'
                                         /\ closing'.phase = "waiting" =>
                                              Nearest(branch') \in stored' \/ closing'.jobs > 0
                    /\ main'.phase = "returning" => Kept(main.id)'
  BY <1>q, <1>l DEF CloseInv, Nearest
<1>a. TypeInv /\ QueueInv
  BY DEF PlaceInv
<1>n. NoCall.phase = "idle" /\ Open.phase = "open"
  BY Nothing DEF Open
<1>h. host = "durable"
  BY DEF HostsNext, Job, SyncDisposed, HostExecutes, PiSession, PiMove, PiReload, PiEvent, PiCellCall,
         PiToggle, ParentCalls, PiCellAnswered, PiCellLost, PiCellResult, NestedResult, ParentResult, Pi,
         DurableSession, DurableEvent, DurableCall, AgentKnown, DurableThrows, EntriesScanned,
         DurableAnswered, Record, RecordFails, Close, KernelShutdown, Crash, Reopen, Durable,
         allVars, hostVars
<1>p. ~PiSession
  BY <1>h
  DEF PiSession, PiMove, PiReload, PiEvent, PiCellCall, PiToggle, ParentCalls, PiCellAnswered,
      PiCellLost, PiCellResult, NestedResult, ParentResult, Pi
<1>u. ~Fault
  BY CheckpointsAssumption DEF Fault, DataInv
<1>d. ~DurableEvent /\ ~Crash
  BY <1>u DEF DurableEvent, LoseCheckpoint, KernelExits, CellLost, Crash
<1>z. quiet /\ faults = 0
  <2>1. CASE Job
    <3>1. Checkpointing /\ UNCHANGED quiet
      BY <2>1 DEF Job
    <3>2. faults = 0
      BY <1>u, <3>1
      DEF Checkpointing, JobStarts, SyncStart, SyncStartFails, RestoreNothing, RestoreBranch, RestoreKills,
          RestoreFails, RestoreCancelled, RestoreRefused, SyncRetries, SyncReturns, Save, SaveFails, history
    <3>3. QED BY <3>1, <3>2
  <2>2. CASE SyncDisposed \/ HostExecutes \/ UNCHANGED allVars
    BY <2>2 DEF SyncDisposed, HostExecutes, Execute, history, hostVars, process, allVars, vars
  <2>3. CASE DurableSession
    BY <2>3, <1>d, <1>u
    DEF DurableSession, DurableCall, AgentKnown, DurableThrows, EntriesScanned, CellCall, DurableAnswered,
        Record, RecordFails, Close, KernelShutdown, Reopen, NewProcess, vars, history, process
  <2>4. QED BY <1>p, <2>1, <2>2, <2>3 DEF HostsNext
<1>b. branch # <<>> => /\ Kept(Nearest(branch))
                       /\ closing.phase = "waiting" => Nearest(branch) \in stored \/ closing.jobs > 0
  BY <1>h, <1>z DEF CloseInv
<1>m. main.phase = "returning" => Kept(main.id)
  BY <1>h, <1>z DEF CloseInv
<1>k. ASSUME UNCHANGED <<branch, closing>>, stored' = stored, up' = up,
             main' = main \/ main'.phase # "returning",
             SaveFirst => SaveFirst' /\ Current' = Current
      PROVE  /\ branch' # <<>> => /\ Kept(Nearest(branch))'
                                  /\ closing'.phase = "waiting" =>
                                       Nearest(branch') \in stored' \/ closing'.jobs > 0
             /\ main'.phase = "returning" => Kept(main.id)'
  BY <1>b, <1>m, <1>k DEF Kept, Nearest
<1>1. CASE Job
  <2>1. Checkpointing /\ closing' = IF JobEnds /\ closing.jobs > 0 THEN [closing EXCEPT !.jobs = @ - 1] ELSE closing
    BY <1>1 DEF Job
  <2>2. queue # <<>> /\ UNCHANGED branch /\ (main' = main \/ main'.phase # "returning")
    BY <1>a, <2>1, JobFacts DEF tree
  <2>3. UNCHANGED queue => closing' = closing
    BY <2>1 DEF JobEnds
  <2>4. closing'.phase = closing.phase
    BY <2>1 DEF HostInv
  <2>5. ASSUME branch # <<>>
        PROVE  /\ Kept(Nearest(branch))'
               /\ closing'.phase = "waiting" => Nearest(branch') \in stored' \/ closing'.jobs > 0
    <3>1. Kept(Nearest(branch)) /\ Nearest(branch') = Nearest(branch)
      BY <1>b, <2>2, <2>5 DEF Nearest
    <3>2. /\ Nearest(branch) \in stored' \/ (SaveFirst' /\ up' /\ Current'.id = Nearest(branch))
          /\ Nearest(branch) \in stored' \/ UNCHANGED queue
          /\ Nearest(branch) \in stored => Nearest(branch) \in stored'
      BY <2>1, <3>1, KeptJob DEF Kept
    <3>3. QED BY <1>b, <2>3, <2>4, <2>5, <3>1, <3>2 DEF Kept
  <2>6. ASSUME main'.phase = "returning" PROVE Kept(main.id)'
    <3>1. Kept(main.id) /\ main' = main
      BY <1>m, <2>2, <2>6
    <3>2. main.id \in stored' \/ (SaveFirst' /\ up' /\ Current'.id = main.id)
      BY <2>1, <3>1, KeptJob DEF Kept
    <3>3. QED BY <3>1, <3>2 DEF Kept
  <2>7. QED BY <2>2, <2>5, <2>6
<1>2. CASE SyncDisposed
  <2>1. /\ ~SaveFirst /\ UNCHANGED <<branch, closing, stored, up>>
        /\ main' = main \/ main'.phase # "returning"
    BY <1>2, <1>a, <1>n
    DEF SyncDisposed, SyncThrows, Starting, QueueInv, SaveFirst, tree, kernel
  <2>2. QED BY <1>k, <2>1
<1>3. CASE HostExecutes
  <2>1. UNCHANGED <<branch, closing, stored, up, queue>> /\ main'.phase # "returning"
    BY <1>3, <1>a DEF HostExecutes, Execute, tree, hostVars, process, TypeInv
  <2>2. QED BY <1>k, <2>1 DEF SaveFirst, Current
<1>4. CASE DurableCall \/ AgentKnown \/ DurableThrows \/ UNCHANGED allVars
  <2>1. UNCHANGED <<branch, closing, stored, up, queue, main>>
    BY <1>4 DEF DurableCall, AgentKnown, DurableThrows, allVars, hostVars, process, vars, tree, kernel
  <2>2. QED BY <1>k, <2>1 DEF SaveFirst, Current
<1>5. CASE EntriesScanned
  <2>1. /\ main'.phase = "queued" /\ Enqueue("main", branch, NoId)
        /\ UNCHANGED <<branch, closing, stored, up>>
    BY <1>5 DEF EntriesScanned, CellCall, NoCall, tree, kernel
  <2>2. queue' # <<>> /\ (queue # <<>> => Current' = Current)
    <3>1. /\ queue \in Seq(Jobs) /\ "main" \in {"main", "viewer", "save"} /\ branch \in Seq(Ids)
          /\ NoId \in Ids \cup {NoId}
      BY <1>a DEF TypeInv
    <3>2. QED BY <2>1, <3>1, EnqueueFacts
  <2>3. QED BY <1>k, <2>1, <2>2 DEF SaveFirst
<1>6. CASE DurableAnswered
  <2>1. PICK i \in Ids \ Answered :
          /\ main'.phase = "returning" /\ main'.id = i /\ queue' # <<>>
          /\ queue'[1] = [by |-> "save", cands |-> <<>>, id |-> i] /\ Current' = queue'[1]
    BY <1>6, <1>a, Answer
  <2>2. queue = <<>> /\ up /\ UNCHANGED <<up, branch>>
    BY <1>6, <1>a, Answer
  <2>3. Kept(main.id)'
    BY <2>1, <2>2 DEF Kept, SaveFirst
  <2>4. UNCHANGED <<stored, closing>>
    BY <1>6 DEF DurableAnswered, process
  <2>5. branch # <<>> => Nearest(branch) \in stored
    BY <1>b, <2>2 DEF Kept, SaveFirst
  <2>6. QED BY <2>2, <2>3, <2>4, <2>5 DEF Kept, Nearest
<1>7. CASE Record
  <2>1. /\ main.phase = "returning" /\ branch' = lineage[main.id] /\ main'.phase = "idle"
        /\ UNCHANGED <<stored, up, queue, closing>>
    BY <1>7, <1>n DEF Record, kernel, process
  <2>2. branch' # <<>> /\ Nearest(branch') = main.id
    BY <2>1 DEF TreeInv, Answered, Nearest
  <2>3. closing.phase = "open"
    BY <1>z, <2>1 DEF CloseInv
  <2>4. Kept(main.id)
    BY <1>m, <2>1
  <2>5. QED BY <2>1, <2>2, <2>3, <2>4 DEF Kept, SaveFirst, Current, Nearest
<1>8. CASE RecordFails
  <2>1. UNCHANGED <<branch, closing, stored, up, queue>> /\ main'.phase # "returning"
    BY <1>8, <1>n DEF RecordFails, Unrecorded, kernel, process
  <2>2. QED BY <1>k, <2>1 DEF SaveFirst, Current
<1>9. CASE Close
  <2>1. /\ UNCHANGED <<branch, stored, up, queue, main>>
        /\ closing'.phase = "waiting" => closing'.jobs = Len(queue)
    BY <1>9 DEF Close, vars, tree, kernel, Open
  <2>2. SaveFirst => Len(queue) > 0
    BY <1>a, EmptySeq DEF SaveFirst, TypeInv
  <2>3. QED BY <1>b, <1>m, <2>1, <2>2 DEF Kept, SaveFirst, Current, Nearest
<1>10. CASE KernelShutdown
  <2>1. /\ closing.phase = "waiting" /\ closing.jobs = 0 /\ closing'.phase = "closed"
        /\ UNCHANGED <<branch, stored>> /\ (main' = main \/ main' = NoCall)
    BY <1>10, <1>u DEF KernelShutdown, Drained, tree, Open
  <2>2. main.phase = "idle"
    BY <1>z, <2>1 DEF CloseInv
  <2>3. QED BY <1>b, <1>n, <2>1, <2>2 DEF Kept, Nearest
<1>11. CASE Reopen
  <2>1. /\ queue = <<>> /\ main' = NoCall /\ closing' = Open /\ UNCHANGED <<branch, stored>>
    BY <1>11 DEF Reopen, NewProcess, tree
  <2>2. QED BY <1>b, <1>n, <2>1 DEF Kept, SaveFirst, Nearest
<1>12. QED
  BY <1>1, <1>2, <1>3, <1>4, <1>5, <1>6, <1>7, <1>8, <1>9, <1>10, <1>11, <1>d, <1>p
  DEF HostsNext, DurableSession

-----------------------------------------------------------------------------
HostsInv ==
  /\ PlaceInv /\ DataInv /\ HostInv /\ NestInv /\ TreeInv /\ KeepInv
  /\ CallInv /\ ToldInv /\ CloseInv

LEMMA HostsAlways == HostsSpec => []HostsInv
<1>1. HostsInit => HostsInv
  <2>1. SUFFICES ASSUME HostsInit PROVE HostsInv
    OBVIOUS
  <2>2. Init
    BY <2>1 DEF HostsInit
  <2>3. PlaceInv
    BY <2>2, InitPlace
  <2>4. DataInv
    BY <2>2, InitData
  <2>5. NoCall.phase = "idle" /\ NoCall.id \notin Ids /\ NoId \notin Ids
    BY CheckpointsAssumption DEF NoCall
  <2>6. HostInv /\ NestInv
    <3>1. /\ queue = <<>> /\ main.phase = "idle" /\ viewer = "none" /\ undelivered = {}
          /\ up = FALSE /\ crossed = FALSE /\ quiet = TRUE
          /\ closing \in [phase : {"open", "waiting", "closed"}, jobs : 0..2] /\ closing.phase = "open"
      BY <2>1, <2>2, <2>5 DEF HostsInit, Init, Open
    <3>2. QED BY <2>1, <3>1 DEF HostsInit, HostInv, NestInv
  <2>7. TreeInv
    <3>1. \A i \in Ids : lineage[i] = <<>>
      BY <2>2 DEF Init
    <3>2. QED BY <2>1, <2>2, <2>5, <3>1 DEF HostsInit, Init, TreeInv
  <2>8. KeepInv /\ CallInv /\ ToldInv /\ CloseInv
    BY <2>1, <2>2, <2>5 DEF HostsInit, Init, KeepInv, Untouched, CallInv, ToldInv, CloseInv, Open
  <2>9. QED BY <2>3, <2>4, <2>6, <2>7, <2>8 DEF HostsInv
<1>2. HostsInv /\ [HostsNext]_allVars => HostsInv'
  BY PlaceKept, HostStep, NestStep, TreeStep, KeepStep, CallStep, ToldStep, CloseStep DEF HostsInv
<1>3. QED BY <1>1, <1>2, PTL DEF HostsSpec

\* Every variable of the hosts keeps its type.
THEOREM HostsTypeCorrect == HostsSpec => []HostsTypeOK
<1>1. HostsInv => HostsTypeOK
  BY DEF HostsInv, PlaceInv, TypeInv, DataInv, HostInv, TreeInv, TypeOK, HostsTypeOK
<1>2. QED BY <1>1, HostsAlways, PTL

\* In both hosts, too, a cell runs on the state of the nearest cell of its branch, or its
\* result says that it did not, or a cancelled call took away what there was to say.
THEOREM HostsRunOnBranch == HostsSpec => []RunsOnBranch
<1>1. HostsInv => RunsOnBranch
  BY DEF HostsInv, PlaceInv, RunInv, RunsOnBranch
<1>2. QED BY <1>1, HostsAlways, PTL

\* When the call of a tool of Pi is over, the model has seen every notice of its cells,
\* however many cells it nested and whatever became of each.
THEOREM NestedCorrect == HostsSpec => []Forwarded
<1>1. HostsInv => Forwarded
  BY DEF HostsInv, NestInv, Forwarded
<1>2. QED BY <1>1, HostsAlways, PTL

\* After close() no kernel is in use. If close() met no call in progress, none is left
\* behind either, and the last recorded checkpoint is stored if nothing went wrong.
THEOREM CloseCorrect == HostsSpec => []CloseHolds
<1>1. HostsInv => CloseHolds
  <2>1. SUFFICES ASSUME HostsInv, closing.phase = "closed" PROVE CloseHolds
    BY DEF CloseHolds
  <2>2. ~up /\ host = "durable" /\ (quiet => runtime # "leaked")
    BY <2>1 DEF HostsInv, HostInv, CloseInv, Open
  <2>3. QED BY <2>1, <2>2 DEF HostsInv, CloseInv, Kept, CloseHolds
<1>2. QED BY <1>1, HostsAlways, PTL

\* A kernel that still holds what the last delivered cell left is not rewound, whichever
\* tool or host ran that cell, unless /cells was toggled between its result and its entry.
THEOREM KeepCorrect == HostsSpec => KeepsLive
<1>1. HostsInv /\ [HostsNext]_allVars => [RestoreBranch /\ tip # NoId => ns # tip]_allVars
  <2>1. SUFFICES ASSUME HostsInv, RestoreBranch, tip # NoId, ns = tip PROVE FALSE
    OBVIOUS
  <2>2. PlaceInv /\ TreeInv /\ KeepInv
    BY <2>1 DEF HostsInv
  <2>3. /\ up /\ held # Nearest(Current.cands) /\ Current.by # "save" /\ job.phase # "none"
    BY <2>1 DEF RestoreBranch, Replaced, Restoring, Free
  <2>4. 1 \in DOMAIN queue /\ Current = queue[1]
    BY <2>2, <2>3, FrontJob DEF PlaceInv
  <2>5. tip \in Ids /\ Nearest(Current.cands) = tip
    BY <2>1, <2>2, <2>3, <2>4 DEF TreeInv, Nearest
  <2>6. QED BY <2>1, <2>2, <2>3, <2>5 DEF KeepInv, Untouched, SaveFirst
<1>2. QED BY <1>1, HostsAlways, PTL DEF HostsSpec, KeepsLive

\* No delivered result of the durable host hides that the namespace was replaced, unless
\* the call that replaced it was cancelled with its answer on the way.
THEOREM RecordCorrect == HostsSpec => RecordReports
<1>1. HostsInv /\ [HostsNext]_allVars => [Record => unsaid' # "yes"]_allVars
  <2>1. SUFFICES ASSUME HostsInv, Record, unsaid' = "yes" PROVE FALSE
    OBVIOUS
  <2>2. /\ host = "durable" /\ main.phase = "returning" /\ unsaid = "yes"
        /\ main.notices \cap RestoreNotices = {}
    BY <2>1 DEF Record, LeftUnsaid, Durable
  <2>3. QED BY <2>1, <2>2 DEF HostsInv, ToldInv
<1>2. QED BY <1>1, HostsAlways, PTL DEF HostsSpec, RecordReports
=============================================================================

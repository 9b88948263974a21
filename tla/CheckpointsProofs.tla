--------------------------- MODULE CheckpointsProofs ---------------------------
(***************************************************************************)
(* Theorems about Checkpoints: what a cell runs on and what its result     *)
(* says of it, for any number of checkpoints, attempts, values that kill a *)
(* kernel and faults. The store is any subset of the checkpoints at any    *)
(* time, so nothing is assumed of what a restore finds.                    *)
(***************************************************************************)
EXTENDS Checkpoints, SequenceTheorems, WellFoundedInduction, TLAPS

\* The part of TypeOK that the arguments need; what the namespace is named is not.
TypeInv ==
  /\ branch \in Seq(Ids) /\ lineage \in [Ids -> Seq(Ids)]
  /\ up \in BOOLEAN /\ held \in Ids \cup {NoId, Partial}
  /\ queue \in Seq(Jobs)
  /\ job \in [phase : {"none", "start", "restore", "recheck"}, attempt : 0..Attempts,
              notice : SUBSET Notices]
  /\ main \in [phase : {"idle", "queued", "execute", "running", "returning"}, cands : Seq(Ids),
               notices : SUBSET Notices, kernelReset : BOOLEAN, id : Ids \cup {NoId}]
  /\ main.phase = "returning" => main.id \in Ids
  /\ viewer \in {"none", "current", "stale"} /\ undelivered \subseteq Notices
  /\ reset \in BOOLEAN /\ saveFailure \in BOOLEAN /\ unsaid \in {"no", "yes", "dropped"}

SaveFirst == queue # <<>> /\ Current.by = "save"

(***************************************************************************)
(* One sync of the tool, one of /cells and one save at most wait, the save *)
(* only in front: a cell runs after the save of the last one. So a result  *)
(* never meets a toggle that is still to return.                           *)
(***************************************************************************)
QueueInv ==
  /\ job # NoJob => queue # <<>>
  /\ job.phase = "none" => job = NoJob
  /\ job.phase \in {"start", "recheck"} => Current.by # "save"
  /\ \A n \in DOMAIN queue :
       /\ queue[n].by = "save" => n = 1 /\ main.phase \notin {"execute", "running"}
       /\ queue[n].by = "main" => main.phase = "queued" /\ queue[n].cands = main.cands
       /\ queue[n].by = "viewer" => viewer = "current"
  /\ \A m, n \in DOMAIN queue : queue[m].by = queue[n].by => m = n
  /\ main.phase = "execute" => job = NoJob
  /\ main.phase \in {"execute", "running"} => up

StateInv ==
  /\ job.notice \subseteq RestoreNotices
  /\ job.phase = "recheck" /\ up /\ job.notice = {} => held = Nearest(Current.cands)
  /\ SaveFirst /\ up => Current.id = ns

\* A notice that is on its way to a result.
Due ==
  \/ undelivered \cap RestoreNotices # {}
  \/ job.phase = "recheck" /\ job.notice # {}
  \/ main.phase \in {"execute", "running"} /\ main.notices \cap RestoreNotices # {}

\* The kernel holds what _held names, unless that is about to be said or saved, or a
\* cancelled call took it away.
HeldInv == up => held = Partial \/ ns = held \/ Due \/ SaveFirst \/ unsaid = "dropped"

RunInv ==
  main.phase \in {"execute", "running"} => 
    ns = Nearest(main.cands) \/ Told \cap RestoreNotices # {} \/ unsaid = "dropped"

PlaceInv == TypeInv /\ QueueInv /\ StateInv /\ HeldInv /\ RunInv

\* A change of the namespace that no result told is on its way to one, or _held says so.
UnsaidInv ==
  unsaid = "yes" =>
    /\ up /\ ~SaveFirst
    /\ held = Partial \/ Due
    /\ main.phase \in {"execute", "running"} => Told \cap RestoreNotices # {}

LEMMA InitPlace == Init => PlaceInv
<1> SUFFICES ASSUME Init PROVE PlaceInv
  OBVIOUS
<1>1. <<>> \in Seq(Ids) /\ <<>> \in Seq(Jobs) /\ DOMAIN queue = {}
  <2>1. queue = <<>> /\ <<>> \in Seq(Ids) /\ queue \in Seq(Jobs) /\ Len(queue) = 0
    BY EmptySeq DEF Init
  <2>2. DOMAIN queue = 1..0
    BY <2>1, LenProperties
  <2>3. QED BY <2>1, <2>2
<1>2. TypeInv
  <2>1. 0 \in 0..Attempts
    BY CheckpointsAssumption
  <2>2. /\ branch = <<>> /\ lineage = [i \in Ids |-> <<>>] /\ up = FALSE /\ held = NoId /\ reset = FALSE
        /\ job = NoJob /\ main = NoCall /\ viewer = "none" /\ saveFailure = FALSE /\ undelivered = {}
        /\ unsaid = "no"
    BY DEF Init
  <2>3. job \in [phase : {"none", "start", "restore", "recheck"}, attempt : 0..Attempts, notice : SUBSET Notices]
    BY <2>1, <2>2 DEF NoJob
  <2>4. main \in [phase : {"idle", "queued", "execute", "running", "returning"}, cands : Seq(Ids),
                  notices : SUBSET Notices, kernelReset : BOOLEAN, id : Ids \cup {NoId}]
        /\ main.phase # "returning"
    BY <1>1, <2>2 DEF NoCall
  <2>5. queue \in Seq(Jobs) /\ branch \in Seq(Ids) /\ lineage \in [Ids -> Seq(Ids)]
    BY <1>1, <2>2 DEF Init
  <2>6. QED BY <2>2, <2>3, <2>4, <2>5 DEF TypeInv
<1>3. QueueInv /\ StateInv /\ HeldInv /\ RunInv
  BY <1>1 DEF Init, QueueInv, StateInv, HeldInv, RunInv, SaveFirst, NoJob, NoCall
<1>4. QED BY <1>2, <1>3 DEF PlaceInv

\* A new checkpoint ID is one that no cell has.
LEMMA NewFacts == NewIds \subseteq Ids \ Answered
  BY DEF NewIds, Answered

\* The queue.
LEMMA QueueFacts ==
  ASSUME queue \in Seq(Jobs), queue # <<>>
  PROVE  /\ Len(queue) \in Nat \ {0} /\ DOMAIN queue = 1..Len(queue)
         /\ 1 \in DOMAIN queue /\ Current = queue[1] /\ Current \in Jobs
         /\ Tail(queue) \in Seq(Jobs)
         /\ DOMAIN Tail(queue) = 1..(Len(queue) - 1)
         /\ \A n \in DOMAIN Tail(queue) : Tail(queue)[n] = queue[n + 1]
<1>1. /\ Tail(queue) \in Seq(Jobs) /\ Len(Tail(queue)) = Len(queue) - 1
      /\ \A n \in 1..Len(Tail(queue)) : Tail(queue)[n] = queue[n + 1]
  BY HeadTailProperties
<1>2. Len(queue) \in Nat \ {0} /\ DOMAIN queue = 1..Len(queue)
  BY EmptySeq, LenProperties
<1>3. Current = queue[1] /\ Current \in Jobs
  BY HeadTailProperties, <1>2 DEF Current
<1>4. QED BY <1>1, <1>2, <1>3, LenProperties

\* What is left when the job in front is done.
LEMMA TailFacts ==
  ASSUME TypeInv, QueueInv, queue # <<>>, queue' = Tail(queue)
  PROVE  /\ queue' \in Seq(Jobs)
         /\ \A n \in DOMAIN queue' :
              /\ queue'[n].by # Current.by /\ queue'[n].by # "save"
              /\ queue'[n].by = "main" => main.phase = "queued" /\ queue'[n].cands = main.cands
              /\ queue'[n].by = "viewer" => viewer = "current"
         /\ \A m, n \in DOMAIN queue' : queue'[m].by = queue'[n].by => m = n
<1>1. queue \in Seq(Jobs)
  BY DEF TypeInv
<1>2. \A n \in DOMAIN queue' : /\ n \in Nat \ {0} /\ n + 1 \in DOMAIN queue
                               /\ queue'[n] = queue[n + 1]
  BY <1>1, QueueFacts
<1>3. 1 \in DOMAIN queue /\ Current = queue[1]
  BY <1>1, QueueFacts
<1>4. \A n \in DOMAIN queue' : queue'[n].by # Current.by /\ queue'[n].by # "save"
  BY <1>2, <1>3 DEF QueueInv
<1>5. \A m, n \in DOMAIN queue' : queue'[m].by = queue'[n].by => m = n
  BY <1>2 DEF QueueInv
<1>6. QED BY <1>1, <1>2, <1>4, <1>5, QueueFacts DEF QueueInv

\* One more job at the end.
LEMMA EnqueueFacts ==
  ASSUME queue \in Seq(Jobs), NEW by \in {"main", "viewer", "save"}, NEW cands \in Seq(Ids),
         NEW id \in Ids \cup {NoId}, Enqueue(by, cands, id)
  PROVE  /\ queue' \in Seq(Jobs)
         /\ DOMAIN queue' = DOMAIN queue \cup {Len(queue) + 1} /\ Len(queue) + 1 \notin DOMAIN queue
         /\ \A n \in DOMAIN queue : queue'[n] = queue[n]
         /\ queue'[Len(queue) + 1] = [by |-> by, cands |-> cands, id |-> id]
         /\ queue' # <<>>
         /\ queue # <<>> => Current' = Current
         /\ queue = <<>> => Current' = [by |-> by, cands |-> cands, id |-> id]
<1> DEFINE j == [by |-> by, cands |-> cands, id |-> id]
<1>1. queue' = Append(queue, j) /\ j \in Jobs
  BY DEF Enqueue, Jobs
<1>2. /\ queue' \in Seq(Jobs) /\ Len(queue') = Len(queue) + 1 /\ Len(queue) \in Nat
      /\ \A n \in 1..Len(queue) : queue'[n] = queue[n]
      /\ queue'[Len(queue) + 1] = j
  BY <1>1, AppendProperties, LenProperties
<1>3. DOMAIN queue = 1..Len(queue) /\ DOMAIN queue' = 1..(Len(queue) + 1)
  BY <1>2, LenProperties
<1>4. queue' # <<>> /\ Head(queue') = queue'[1]
  BY <1>2, EmptySeq
<1>5. queue # <<>> => Head(queue) = queue[1] /\ 1 \in 1..Len(queue)
  BY EmptySeq
<1>6. queue = <<>> => Len(queue) = 0
  BY EmptySeq
<1>7. QED BY <1>2, <1>3, <1>4, <1>5, <1>6 DEF Current

LEMMA TypeStep ==
  ASSUME TypeInv, QueueInv, [Next]_vars
  PROVE  TypeInv'
<1>j. (Checkpointing => queue # <<>>) /\ NoJob.phase = "none" /\ NoCall.phase = "idle"
  <2>1. NoJob.phase = "none" /\ NoCall.phase = "idle"
    BY DEF NoJob, NoCall
  <2>2. Checkpointing => queue # <<>> \/ job.phase # "none"
    BY DEF Checkpointing, JobStarts, SyncStart, SyncStartFails, RestoreNothing, RestoreBranch,
           RestoreKills, RestoreFails, RestoreCancelled, RestoreRefused, SyncRetries, SyncReturns,
           Save, SaveFails, Restoring, Saving
  <2>3. QED BY <2>1, <2>2 DEF QueueInv
<1>n. NoJob \in [phase : {"none", "start", "restore", "recheck"}, attempt : 0..Attempts, notice : SUBSET Notices]
  BY CheckpointsAssumption DEF NoJob
<1>c. NoCall \in [phase : {"idle", "queued", "execute", "running", "returning"}, cands : Seq(Ids),
                  notices : SUBSET Notices, kernelReset : BOOLEAN, id : Ids \cup {NoId}]
  BY EmptySeq DEF NoCall
<1>s. <<>> \in Seq(Ids) /\ <<>> \in Seq(Jobs)
  BY EmptySeq
<1>q. queue # <<>> => /\ Tail(queue) \in Seq(Jobs) /\ Current \in Jobs
                      /\ Nearest(Current.cands) \in Ids \cup {NoId}
  <2>1. SUFFICES ASSUME queue # <<>> PROVE /\ Tail(queue) \in Seq(Jobs) /\ Current \in Jobs
                                           /\ Nearest(Current.cands) \in Ids \cup {NoId}
    OBVIOUS
  <2>2. Tail(queue) \in Seq(Jobs) /\ Current \in Jobs
    BY <2>1, QueueFacts DEF TypeInv
  <2>3. Current.cands \in Seq(Ids)
    BY <2>2 DEF Jobs
  <2>4. Current.cands # <<>> => Current.cands[1] \in Ids
    BY <2>3, EmptySeq, ElementOfSeq
  <2>5. QED BY <2>2, <2>4 DEF Nearest
<1> DEFINE JobType == [phase : {"none", "start", "restore", "recheck"}, attempt : 0..Attempts, notice : SUBSET Notices]
<1>r. /\ {"failed"} \subseteq Notices /\ {} \subseteq Notices
      /\ \A notice \in SUBSET Notices : Restored(notice) => job' \in JobType
  BY DEF Restored, TypeInv, Notices, RestoreNotices
<1>1. CASE Move
  <2>1. branch' = <<>> \/ \E i \in Ids : branch' = lineage[i]
    BY <1>1 DEF Move, Answered
  <2>2. branch' \in Seq(Ids)
    <3>1. lineage \in [Ids -> Seq(Ids)]
      BY DEF TypeInv
    <3>2. \A i \in Ids : lineage[i] \in Seq(Ids)
      BY <3>1
    <3>3. QED BY <1>s, <2>1, <3>2
  <2>3. QED BY <1>1, <2>2 DEF Move, TypeInv, kernel, notes, history
<1>2. CASE Reload
  BY <1>2, <1>n, <1>s DEF Reload, TypeInv, tree
<1>3. CASE LoseCheckpoint
  BY <1>3 DEF LoseCheckpoint, TypeInv, tree, kernel, notes
<1>4. CASE KernelExits
  BY <1>4 DEF KernelExits, KernelDies, TypeInv, tree, notes
<1>5. CASE JobStarts
  <2>1. job' \in JobType
    BY <1>5, <1>n DEF JobStarts
  <2>2. UNCHANGED <<tree, kernel, queue, main, viewer, notes, history>>
    BY <1>5 DEF JobStarts
  <2>3. QED BY <2>1, <2>2 DEF TypeInv, tree, kernel, notes, history
<1>6. CASE SyncStart
  <2>1. 1 \in 0..Attempts
    BY CheckpointsAssumption
  <2>2. job' \in [phase : {"none", "start", "restore", "recheck"}, attempt : 0..Attempts, notice : SUBSET Notices]
    BY <1>6, <2>1 DEF SyncStart, TypeInv
  <2>3. up' = TRUE /\ held' \in {held, NoId} /\ UNCHANGED reset
    BY <1>6 DEF SyncStart, KernelStarts
  <2>4. QED BY <1>6, <2>2, <2>3 DEF SyncStart, TypeInv, tree, notes, history
<1>t. ASSUME Checkpointing, SyncThrows
      PROVE  /\ queue' \in Seq(Jobs) /\ job' \in JobType
             /\ viewer' \in {"none", viewer} /\ main' \in {main, NoCall}
  BY <1>t, <1>n, <1>q, <1>j DEF SyncThrows
<1>7. CASE SyncStartFails
  <2>1. Checkpointing /\ SyncThrows /\ UNCHANGED <<tree, kernel, notes, unsaid>>
    BY <1>7 DEF SyncStartFails, Checkpointing
  <2>2. QED BY <1>t, <1>c, <1>j, <2>1 DEF TypeInv, tree, kernel, notes
<1>8. CASE RestoreNothing
  <2>1. job' \in JobType
    BY <1>8, <1>r DEF RestoreNothing
  <2>2. QED BY <1>8, <2>1 DEF RestoreNothing, TypeInv, tree, kernel, notes, history
<1>9. CASE RestoreBranch
  <2>1. queue # <<>>
    BY <1>9, <1>j DEF Checkpointing
  <2>2. held' \in Ids \cup {NoId, Partial} /\ job' = [job EXCEPT !.phase = "recheck", !.notice = job'.notice]
        /\ job'.notice \subseteq Notices
    BY <1>9, <1>q, <2>1 DEF RestoreBranch, Replaced, Restored, TypeInv, Notices, RestoreNotices
  <2>3. QED BY <1>9, <2>2 DEF RestoreBranch, TypeInv, tree, notes
<1>10. CASE RestoreKills
  <2>1. job' \in JobType
    BY <1>10, <1>r DEF RestoreKills
  <2>2. QED BY <1>10, <2>1 DEF RestoreKills, KernelDies, TypeInv, tree, notes
<1>11. CASE RestoreFails
  <2>1. job' \in JobType /\ UNCHANGED <<tree, queue, main, viewer, notes>>
    BY <1>11, <1>r DEF RestoreFails
  <2>2. Nearest(Current.cands) \in Ids \cup {NoId}
    BY <1>11, <1>q, <1>j DEF Checkpointing
  <2>3. CASE KernelDies
    BY <2>1, <2>3 DEF KernelDies, TypeInv, tree, notes
  <2>4. CASE ~KernelDies
    <3>1. unsaid' \in {unsaid, "yes"} /\ held' = Nearest(Current.cands) /\ UNCHANGED <<up, reset>>
      BY <1>11, <2>4 DEF RestoreFails, Replaced
    <3>2. unsaid' \in {"no", "yes", "dropped"} /\ held' \in Ids \cup {NoId, Partial}
      BY <2>2, <3>1 DEF TypeInv
    <3>3. QED BY <2>1, <3>1, <3>2 DEF TypeInv, tree, notes
  <2>5. QED BY <2>3, <2>4
<1>12. CASE RestoreCancelled
  <2>1. Checkpointing /\ SyncThrows /\ UNCHANGED <<tree, notes>>
    BY <1>12 DEF RestoreCancelled, Checkpointing
  <2>2. /\ up' \in BOOLEAN /\ reset' \in BOOLEAN /\ unsaid' \in {"no", "yes", "dropped"}
        /\ held' \in Ids \cup {NoId, Partial}
    BY <1>12, <1>q, <1>j, <2>1 DEF RestoreCancelled, Replaced, KernelDies, HeldMeanwhile, TypeInv, kernel
  <2>3. QED BY <1>t, <1>c, <1>j, <2>1, <2>2 DEF TypeInv, tree, notes
<1>13. CASE RestoreRefused
  <2>1. job' \in JobType
    BY <1>13, <1>r DEF RestoreRefused
  <2>2. QED BY <1>13, <2>1 DEF RestoreRefused, TypeInv, tree, kernel, notes, history
<1>14. CASE SyncRetries
  <2>1. job.attempt + 1 \in 0..Attempts
    BY <1>14, CheckpointsAssumption DEF SyncRetries, AttemptsLeft, TypeInv
  <2>2. job' \in [phase : {"none", "start", "restore", "recheck"}, attempt : 0..Attempts, notice : SUBSET Notices]
    BY <1>14, <1>n, <2>1 DEF SyncRetries
  <2>3. up' = TRUE /\ held' \in {held, NoId} /\ UNCHANGED reset
    BY <1>14 DEF SyncRetries, KernelStarts
  <2>4. QED BY <1>14, <2>2, <2>3 DEF SyncRetries, TypeInv, tree, notes, history
<1>15. CASE SyncReturns
  <2>1. /\ up' = TRUE /\ held' \in {held, NoId} /\ queue' = Tail(queue) /\ job' = NoJob
        /\ saveFailure' = FALSE /\ UNCHANGED <<branch, lineage, reset, unsaid>>
    BY <1>15 DEF SyncReturns, KernelStarts, tree, history
  <2>2. PICK returned \in SUBSET Notices :
          \/ main' = [main EXCEPT !.phase = "execute", !.notices = returned] /\ UNCHANGED <<viewer, undelivered>>
          \/ viewer' = "none" /\ undelivered' \subseteq undelivered \cup returned /\ UNCHANGED main
    <3>1. job.notice \cup {"exhausted", "save"} \subseteq Notices
      BY DEF TypeInv, Notices, RestoreNotices
    <3>2. QED BY <1>15, <3>1 DEF SyncReturns, KeptForNext
  <2>3. queue' \in Seq(Jobs)
    BY <1>15, <1>q, <1>j, <2>1 DEF Checkpointing
  <2>4. main' \in [phase : {"idle", "queued", "execute", "running", "returning"}, cands : Seq(Ids),
                   notices : SUBSET Notices, kernelReset : BOOLEAN, id : Ids \cup {NoId}]
        /\ (main'.phase = "returning" => main'.id \in Ids)
    BY <2>2 DEF TypeInv
  <2>5. viewer' \in {"none", "current", "stale"} /\ undelivered' \subseteq Notices
    BY <1>15, <2>2 DEF TypeInv
  <2>6. QED BY <1>n, <2>1, <2>3, <2>4, <2>5 DEF TypeInv
<1>16. CASE Save
  <2>1. queue' \in Seq(Jobs) /\ job' \in JobType /\ held' \in Ids \cup {NoId}
    BY <1>16, <1>n, <1>q, <1>j DEF Save, SaveEnds, Checkpointing, Jobs
  <2>2. UNCHANGED <<tree, up, reset, main, viewer, notes, history>>
    BY <1>16 DEF Save
  <2>3. QED BY <2>1, <2>2 DEF TypeInv, tree, notes, history
<1>17. CASE SaveFails
  <2>1. queue' \in Seq(Jobs) /\ job' \in JobType /\ Current.id \in Ids \cup {NoId}
    BY <1>17, <1>n, <1>q, <1>j DEF SaveFails, SaveEnds, Checkpointing, Jobs
  <2>2. up' \in BOOLEAN /\ reset' \in BOOLEAN /\ unsaid' \in {"no", "yes", "dropped"} /\ held' \in Ids \cup {NoId, Partial}
    BY <1>17, <2>1 DEF SaveFails, KernelDies, TypeInv, kernel
  <2>3. saveFailure' = TRUE /\ UNCHANGED <<tree, main, viewer, undelivered>>
    BY <1>17 DEF SaveFails
  <2>4. QED BY <2>1, <2>2, <2>3 DEF TypeInv, tree
<1>18. CASE CellCall
  <2>1. main' = [NoCall EXCEPT !.phase = "queued", !.cands = branch] /\ Enqueue("main", branch, NoId)
    BY <1>18 DEF CellCall
  <2>2. queue' \in Seq(Jobs)
    BY <2>1, EnqueueFacts DEF TypeInv
  <2>3. UNCHANGED <<tree, kernel, job, viewer, notes, history>>
    BY <1>18 DEF CellCall
  <2>4. /\ main' \in [phase : {"idle", "queued", "execute", "running", "returning"}, cands : Seq(Ids),
                      notices : SUBSET Notices, kernelReset : BOOLEAN, id : Ids \cup {NoId}]
        /\ main'.phase # "returning"
    BY <1>c, <1>j, <2>1 DEF TypeInv
  <2>5. QED BY <2>2, <2>3, <2>4 DEF TypeInv, tree, kernel, notes, history
<1>19. CASE ToggleCells
  <2>1. queue' \in Seq(Jobs)
    BY <1>19, EnqueueFacts DEF ToggleCells, TypeInv
  <2>2. QED BY <1>19, <2>1 DEF ToggleCells, TypeInv, tree, kernel, notes, history
<1>20. CASE Execute
  BY <1>20 DEF Execute, TypeInv, tree, notes, history
<1>21. CASE CellLost
  BY <1>21, <1>c, <1>j DEF CellLost, KernelDies, TypeInv, tree, notes
<1>22. CASE CellAnswered
  <2>1. PICK i \in Ids : /\ lineage' = [lineage EXCEPT ![i] = <<i>> \o main.cands]
                         /\ main' = [main EXCEPT !.phase = "returning", !.id = i, !.notices = Told]
                         /\ Enqueue("save", <<>>, i)
    BY <1>22, NewFacts DEF CellAnswered
  <2>2. queue' \in Seq(Jobs)
    BY <1>s, <2>1, EnqueueFacts DEF TypeInv
  <2>3. <<i>> \o main.cands \in Seq(Ids)
    BY ConcatProperties DEF TypeInv
  <2>4. QED BY <1>22, <2>1, <2>2, <2>3 DEF CellAnswered, LeftUnsaid, Told, TypeInv, Notices, RestoreNotices
<1>23. CASE ResultAppended
  <2>1. lineage[main.id] \in Seq(Ids)
    BY <1>23 DEF ResultAppended, TypeInv
  <2>2. QED BY <1>23, <1>c, <1>j, <2>1 DEF ResultAppended, TypeInv, kernel, notes, history
<1>24. CASE UNCHANGED vars
  BY <1>24 DEF vars, TypeInv, tree, kernel, notes, history
<1>25. QED
  BY <1>1, <1>2, <1>3, <1>4, <1>5, <1>6, <1>7, <1>8, <1>9, <1>10, <1>11, <1>12, <1>13, <1>14, <1>15,
     <1>16, <1>17, <1>18, <1>19, <1>20, <1>21, <1>22, <1>23, <1>24
  DEF Next, Checkpointing, Tool

PlaceNext == QueueInv' /\ StateInv' /\ HeldInv' /\ RunInv'

LEMMA Nothing == NoJob.phase = "none" /\ NoJob.notice = {} /\ NoCall.phase = "idle"
  BY DEF NoJob, NoCall

\* The job that runs is in front.
LEMMA FrontJob ==
  ASSUME TypeInv, QueueInv, job.phase # "none"
  PROVE  queue # <<>> /\ 1 \in DOMAIN queue /\ Current = queue[1] /\ Current \in Jobs
<1>1. queue # <<>>
  BY Nothing DEF QueueInv
<1>2. QED BY <1>1, QueueFacts DEF TypeInv

\* While a restore evaluates, no cell runs or is about to.
LEMMA RestoringAlone ==
  ASSUME QueueInv, job.phase = "restore", Free
  PROVE  main.phase \notin {"execute", "running"}
  BY Nothing DEF QueueInv, Free

\* Steps that the invariant does not see.
LEMMA Unseen ==
  ASSUME PlaceInv, UNCHANGED <<up, ns, held, queue, job, main, viewer, undelivered, unsaid>>
  PROVE  PlaceNext
<1>1. QueueInv'
  BY DEF PlaceInv, QueueInv, Current
<1>2. StateInv'
  BY DEF PlaceInv, StateInv, Current, SaveFirst
<1>3. HeldInv' /\ RunInv'
  BY DEF PlaceInv, HeldInv, RunInv, Due, SaveFirst, Current, Told
<1>4. QED BY <1>1, <1>2, <1>3 DEF PlaceNext

\* The evaluation of a restore is over.
LEMMA QueueRechecked ==
  ASSUME TypeInv, QueueInv, Restoring, NEW notice, Restored(notice), UNCHANGED <<queue, main, viewer>>,
         up' = up \/ main.phase \notin {"execute", "running"}
  PROVE  QueueInv' /\ job'.phase = "recheck" /\ job'.notice = notice
<1>1. job'.phase = "recheck" /\ job'.notice = notice
  BY DEF Restored, TypeInv
<1>2. queue # <<>> /\ Current' = Current /\ Current.by # "save" /\ job # NoJob
  BY FrontJob, Nothing DEF Restoring, Current
<1>3. QED BY <1>1, <1>2 DEF QueueInv

\* A sync that rejects.
LEMMA Threw ==
  ASSUME PlaceInv, queue # <<>>, Current.by # "save", SyncThrows, UNCHANGED undelivered,
         main.phase \notin {"execute", "running"},
         up' => held' = Partial \/ ns' = held' \/ undelivered \cap RestoreNotices # {} \/ unsaid' = "dropped"
  PROVE  PlaceNext
<1>a. TypeInv /\ QueueInv
  BY DEF PlaceInv
<1>1. /\ queue' = Tail(queue) /\ job' = NoJob /\ Current \in Jobs
      /\ IF Current.by = "main" THEN main' = NoCall /\ UNCHANGED viewer
                                ELSE viewer' = "none" /\ UNCHANGED main
  BY <1>a, QueueFacts DEF SyncThrows, TypeInv
<1>2. /\ \A n \in DOMAIN queue' :
           /\ queue'[n].by # Current.by /\ queue'[n].by # "save"
           /\ queue'[n].by = "main" => main.phase = "queued" /\ queue'[n].cands = main.cands
           /\ queue'[n].by = "viewer" => viewer = "current"
      /\ \A m, n \in DOMAIN queue' : queue'[m].by = queue'[n].by => m = n
      /\ queue' \in Seq(Jobs)
  BY <1>a, <1>1, TailFacts
<1>3. Current.by \in {"main", "viewer"} /\ main'.phase \notin {"execute", "running"}
  BY <1>1, Nothing DEF Jobs
<1>4. \A n \in DOMAIN queue' : /\ queue'[n].by = "main" => main'.phase = "queued" /\ queue'[n].cands = main'.cands
                               /\ queue'[n].by = "viewer" => viewer' = "current"
  BY <1>1, <1>2, <1>3
<1>5. QueueInv'
  BY <1>1, <1>2, <1>3, <1>4, Nothing DEF QueueInv
<1>6. ~SaveFirst'
  <2>1. queue' # <<>> => Head(queue') = queue'[1] /\ 1 \in DOMAIN queue'
    BY <1>2, EmptySeq, HeadTailProperties, LenProperties
  <2>2. QED BY <1>2, <2>1 DEF SaveFirst, Current
<1>7. StateInv'
  BY <1>1, <1>6, Nothing DEF StateInv
<1>8. HeldInv' /\ RunInv'
  BY <1>3 DEF HeldInv, RunInv, Due
<1>9. QED BY <1>5, <1>7, <1>8 DEF PlaceNext

\* A save leaves the front of the queue.
LEMMA Saved ==
  ASSUME PlaceInv, Saving, SaveEnds, UNCHANGED <<main, viewer>>,
         up' => up /\ ns' = held'
  PROVE  PlaceNext
<1>a. TypeInv /\ QueueInv /\ StateInv
  BY DEF PlaceInv
<1>1. /\ queue # <<>> /\ SaveFirst /\ queue' = Tail(queue) /\ job' = NoJob
      /\ main.phase \notin {"execute", "running"}
  BY <1>a, FrontJob, Nothing DEF Saving, SaveEnds, SaveFirst, QueueInv
<1>2. /\ \A n \in DOMAIN queue' :
           /\ queue'[n].by # "save"
           /\ queue'[n].by = "main" => main.phase = "queued" /\ queue'[n].cands = main.cands
           /\ queue'[n].by = "viewer" => viewer = "current"
      /\ \A m, n \in DOMAIN queue' : queue'[m].by = queue'[n].by => m = n
      /\ queue' \in Seq(Jobs)
  BY <1>a, <1>1, TailFacts
<1>3. QueueInv'
  BY <1>1, <1>2, Nothing DEF QueueInv
<1>4. ~SaveFirst'
  <2>1. queue' # <<>> => Head(queue') = queue'[1] /\ 1 \in DOMAIN queue'
    BY <1>2, EmptySeq, HeadTailProperties, LenProperties
  <2>2. QED BY <1>2, <2>1 DEF SaveFirst, Current
<1>5. StateInv'
  BY <1>1, <1>4, Nothing DEF StateInv
<1>6. HeldInv' /\ RunInv'
  BY <1>1 DEF HeldInv, RunInv
<1>7. QED BY <1>3, <1>5, <1>6 DEF PlaceNext

\* A sync returns: what it has to say goes to its cell, or to the next result.
LEMMA Returned == ASSUME PlaceInv, SyncReturns PROVE PlaceNext
<1>a. TypeInv /\ QueueInv /\ StateInv /\ HeldInv /\ RunInv
  BY DEF PlaceInv
<1>1. /\ queue # <<>> /\ 1 \in DOMAIN queue /\ Current = queue[1] /\ Current \in Jobs
      /\ Current.by # "save" /\ job.phase = "recheck" /\ job # NoJob
      /\ queue' = Tail(queue) /\ job' = NoJob
  BY <1>a, FrontJob, Nothing DEF SyncReturns, QueueInv
<1>2. /\ \A n \in DOMAIN queue' :
           /\ queue'[n].by # Current.by /\ queue'[n].by # "save"
           /\ queue'[n].by = "main" => main.phase = "queued" /\ queue'[n].cands = main.cands
           /\ queue'[n].by = "viewer" => viewer = "current"
      /\ \A m, n \in DOMAIN queue' : queue'[m].by = queue'[n].by => m = n
      /\ queue' \in Seq(Jobs)
  BY <1>a, <1>1, TailFacts
<1>3. ~SaveFirst'
  <2>1. queue' # <<>> => Head(queue') = queue'[1] /\ 1 \in DOMAIN queue'
    BY <1>2, EmptySeq, HeadTailProperties, LenProperties
  <2>2. QED BY <1>2, <2>1 DEF SaveFirst, Current
<1>4. /\ up' = TRUE /\ (up => UNCHANGED <<ns, held>>) /\ (~up => ns' = NoId /\ held' = NoId)
      /\ UNCHANGED unsaid
  BY DEF SyncReturns, KernelStarts, history
<1>6. StateInv'
  BY <1>1, <1>3, <1>4, Nothing DEF StateInv
<1>7. main.phase # "execute"
  BY <1>a, <1>1 DEF QueueInv
<1>8. PICK returned : 
        /\ returned \cap RestoreNotices = IF ~up THEN {"exhausted"} ELSE job.notice
        /\ IF Current.by = "main"
           THEN /\ main' = [main EXCEPT !.phase = "execute", !.notices = returned]
                /\ UNCHANGED <<viewer, undelivered>>
           ELSE /\ viewer' = "none" /\ undelivered' = KeptForNext(returned)
                /\ UNCHANGED main
  <2>1. (IF ~up THEN {"exhausted"} ELSE job.notice) \subseteq RestoreNotices
    BY <1>a DEF StateInv, RestoreNotices
  <2>2. PICK extra \in {{}, {"save"}} :
          LET returned == (IF ~up THEN {"exhausted"} ELSE job.notice) \cup extra
          IN  IF Current.by = "main"
              THEN /\ main' = [main EXCEPT !.phase = "execute", !.notices = returned]
                   /\ UNCHANGED <<viewer, undelivered>>
              ELSE /\ viewer' = "none" /\ undelivered' = KeptForNext(returned)
                   /\ UNCHANGED main
    BY DEF SyncReturns
  <2>3. WITNESS (IF ~up THEN {"exhausted"} ELSE job.notice) \cup extra
  <2>4. ((IF ~up THEN {"exhausted"} ELSE job.notice) \cup extra) \cap RestoreNotices
           = IF ~up THEN {"exhausted"} ELSE job.notice
    BY <2>1 DEF RestoreNotices
  <2>5. QED BY <2>2, <2>4
<1>9. CASE Current.by = "main"
  <2>1. /\ main'.phase = "execute" /\ main'.notices = returned /\ main'.cands = main.cands
        /\ main.cands = Current.cands /\ main.phase = "queued" /\ UNCHANGED <<viewer, undelivered>>
    BY <1>a, <1>1, <1>8, <1>9 DEF TypeInv, QueueInv
  <2>2. QueueInv'
    BY <1>1, <1>2, <1>4, <1>9, <2>1, Nothing DEF QueueInv
  <2>3. \/ returned \cap RestoreNotices # {}
        \/ up /\ held = Nearest(main.cands) /\ held # Partial
    <3>1. CASE ~up
      BY <1>8, <3>1
    <3>2. CASE up /\ job.notice # {}
      BY <1>8, <3>2
    <3>3. CASE up /\ job.notice = {}
      <4>1. held = Nearest(main.cands)
        BY <1>a, <1>1, <2>1, <3>3 DEF StateInv
      <4>2. main.cands \in Seq(Ids)
        BY <1>a DEF TypeInv
      <4>3. Nearest(main.cands) \in Ids \cup {NoId}
        BY <4>2, EmptySeq, ElementOfSeq DEF Nearest
      <4>4. QED BY <3>3, <4>1, <4>3, CheckpointsAssumption
    <3>4. QED BY <3>1, <3>2, <3>3
  <2>4. CASE returned \cap RestoreNotices # {}
    BY <1>4, <2>1, <2>2, <2>4, <1>6 DEF HeldInv, RunInv, Due, Told, PlaceNext
  <2>5. CASE returned \cap RestoreNotices = {}
    <3>1. up /\ held = Nearest(main.cands) /\ held # Partial /\ job.notice = {}
      BY <1>8, <2>3, <2>5
    <3>2. ns = held \/ undelivered \cap RestoreNotices # {} \/ unsaid = "dropped"
      BY <1>a, <1>1, <2>1, <3>1 DEF HeldInv, Due, SaveFirst
    <3>3. HeldInv' /\ RunInv'
      BY <1>1, <1>4, <2>1, <3>1, <3>2 DEF HeldInv, RunInv, Due, Told
    <3>4. QED BY <1>6, <2>2, <3>3 DEF PlaceNext
  <2>6. QED BY <2>4, <2>5
<1>10. CASE Current.by = "viewer"
  <2>1. viewer = "current" /\ undelivered' = undelivered \cup returned /\ viewer' = "none" /\ UNCHANGED main
    BY <1>a, <1>1, <1>8, <1>10 DEF QueueInv, KeptForNext
  <2>2. QueueInv'
    BY <1>a, <1>1, <1>2, <1>4, <1>10, <2>1, Nothing DEF QueueInv
  <2>3. HeldInv'
    <3>1. CASE ~up
      BY <1>4, <3>1 DEF HeldInv
    <3>2. CASE up
      <4>1. ns = held \/ held = Partial \/ Due \/ unsaid = "dropped"
        BY <1>a, <1>1, <3>2 DEF HeldInv, SaveFirst
      <4>2. Due => Due'
        BY <1>8, <2>1, <3>2, <1>1 DEF Due
      <4>3. QED BY <1>1, <1>4, <3>2, <4>1, <4>2 DEF HeldInv
    <3>3. QED BY <3>1, <3>2
  <2>4. RunInv'
    <3>1. main.phase \in {"execute", "running"} => up
      BY <1>a DEF QueueInv
    <3>2. QED BY <1>a, <1>1, <1>4, <2>1, <3>1 DEF RunInv, Told
  <2>5. QED BY <1>6, <2>2, <2>3, <2>4 DEF PlaceNext
<1>11. QED BY <1>1, <1>9, <1>10 DEF Jobs

\* When a cell ends, nothing waits: toggles meanwhile were refused at once.
LEMMA AnsweredAlone ==
  ASSUME TypeInv, QueueInv, ~Pending, main.phase = "running"
  PROVE  queue = <<>> /\ job = NoJob /\ up
<1>1. up /\ ~Free
  BY DEF QueueInv, Free
<1>2. SUFFICES ASSUME queue # <<>> PROVE FALSE
  BY <1>1 DEF QueueInv
<1>3. 1 \in DOMAIN queue /\ Current = queue[1]
  BY <1>2, QueueFacts DEF TypeInv
<1>4. Current.by # "save"
  BY <1>3 DEF QueueInv
<1>5. job.phase \in {"start", "restore", "recheck"}
  BY <1>2, <1>4 DEF Pending, QueueInv, TypeInv
<1>6. QED BY <1>1, <1>5 DEF Pending

LEMMA PlaceStep ==
  ASSUME PlaceInv, [Next]_vars
  PROVE  PlaceNext
<1>a. TypeInv /\ QueueInv /\ StateInv /\ HeldInv /\ RunInv
  BY DEF PlaceInv
<1>f. job.phase # "none" => queue # <<>> /\ 1 \in DOMAIN queue /\ Current = queue[1] /\ Current \in Jobs
  BY <1>a, FrontJob
<1>g. Restoring => queue # <<>> /\ Current.by # "save" /\ ~SaveFirst /\ job # NoJob /\ main.phase # "execute"
  BY <1>a, <1>f, Nothing DEF Restoring, SaveFirst, QueueInv
<1>1. CASE Move \/ LoseCheckpoint \/ UNCHANGED vars
  BY <1>1, Unseen DEF Move, LoseCheckpoint, vars, kernel, notes, history
<1>2. CASE Reload
  <2>1. /\ queue' = <<>> /\ DOMAIN queue' = {} /\ job' = NoJob /\ main'.phase = "idle" /\ up' = FALSE
    BY <1>2, EmptySeq, LenProperties DEF Reload
  <2>2. QueueInv' /\ StateInv'
    BY <2>1, Nothing DEF QueueInv, StateInv, SaveFirst
  <2>3. HeldInv' /\ RunInv'
    BY <2>1 DEF HeldInv, RunInv
  <2>4. QED BY <2>2, <2>3 DEF PlaceNext
<1>3. CASE KernelExits
  <2>1. /\ up' = FALSE /\ UNCHANGED <<queue, job, main, viewer>>
        /\ main.phase \notin {"execute", "running"}
    BY <1>3 DEF KernelExits, KernelDies, Pending
  <2>2. QueueInv' /\ StateInv'
    BY <1>a, <2>1 DEF QueueInv, StateInv, SaveFirst, Current
  <2>3. HeldInv' /\ RunInv'
    BY <2>1 DEF HeldInv, RunInv
  <2>4. QED BY <2>2, <2>3 DEF PlaceNext
<1>4. CASE JobStarts
  <2>1. /\ queue # <<>> /\ job = NoJob /\ main.phase # "execute"
        /\ job'.phase = (IF Current.by = "save" THEN "restore" ELSE "start") /\ job'.notice = {}
        /\ UNCHANGED <<up, ns, held, queue, main, viewer, undelivered, unsaid>>
    BY <1>4 DEF JobStarts, NoJob, kernel, notes, history
  <2>2. QueueInv' /\ StateInv'
    BY <1>a, <2>1, Nothing DEF QueueInv, StateInv, SaveFirst, Current
  <2>3. HeldInv' /\ RunInv'
    BY <1>a, <2>1, Nothing DEF HeldInv, RunInv, Due, Told, SaveFirst, Current
  <2>4. QED BY <2>2, <2>3 DEF PlaceNext
<1>5. CASE SyncStart \/ SyncRetries
  <2>1. /\ job.phase \in {"start", "recheck"} /\ job'.phase = "restore" /\ job'.notice \subseteq RestoreNotices
        /\ job.phase = "recheck" => ~up
        /\ up' = TRUE /\ (up => UNCHANGED <<ns, held>>) /\ (~up => ns' = NoId /\ held' = NoId)
        /\ UNCHANGED <<queue, main, viewer, undelivered, unsaid>>
    BY <1>a, <1>5 DEF SyncStart, SyncRetries, KernelStarts, NoJob, TypeInv, StateInv, notes, history
  <2>2. queue # <<>> /\ Current.by # "save" /\ ~SaveFirst /\ job # NoJob /\ main.phase # "execute"
    BY <1>a, <1>f, <2>1, Nothing DEF QueueInv, SaveFirst
  <2>3. ~up => main.phase # "running"
    BY <1>a DEF QueueInv
  <2>4. QueueInv' /\ StateInv'
    BY <1>a, <2>1, <2>2, <2>3, Nothing DEF QueueInv, StateInv, SaveFirst, Current
  <2>5. HeldInv'
    BY <1>a, <2>1, <2>2, <2>3 DEF HeldInv, Due, SaveFirst, Current
  <2>6. RunInv'
    BY <1>a, <2>1, <2>2, <2>3 DEF RunInv, Told
  <2>7. QED BY <2>4, <2>5, <2>6 DEF PlaceNext
<1>6. CASE SyncStartFails
  <2>1. /\ job.phase \in {"start", "recheck"} /\ Current.by # "save" /\ ~up /\ SyncThrows
        /\ UNCHANGED <<up, ns, held, undelivered, unsaid>>
    BY <1>6 DEF SyncStartFails, kernel, notes
  <2>2. main.phase \notin {"execute", "running"} /\ queue # <<>>
    BY <1>a, <1>f, <2>1 DEF QueueInv
  <2>3. QED BY <1>a, <2>1, <2>2, Threw
<1>7. CASE RestoreNothing
  <2>1. /\ Restoring /\ held = Nearest(Current.cands) /\ Restored({})
        /\ UNCHANGED <<up, ns, held, queue, main, viewer, undelivered, unsaid>>
    BY <1>7 DEF RestoreNothing, kernel, notes, history
  <2>2. QueueInv' /\ job'.phase = "recheck" /\ job'.notice = {} /\ job.phase = "restore"
    BY <1>a, <2>1, QueueRechecked DEF Restoring
  <2>3. StateInv'
    BY <1>a, <2>1, <2>2 DEF StateInv, SaveFirst, Current
  <2>4. HeldInv' /\ RunInv'
    BY <1>a, <2>1, <2>2 DEF HeldInv, RunInv, Due, Told, SaveFirst, Current
  <2>5. QED BY <2>2, <2>3, <2>4 DEF PlaceNext
<1>8. ASSUME NEW notice \in SUBSET RestoreNotices, notice # {}, Restoring, Restored(notice),
             UNCHANGED <<queue, main, viewer, undelivered>>,
             up' = up \/ main.phase \notin {"execute", "running"},
             main.phase \in {"execute", "running"} => UNCHANGED <<ns, unsaid>>
      PROVE  PlaceNext
  <2>1. QueueInv' /\ job'.phase = "recheck" /\ job'.notice = notice
    BY <1>a, <1>8, QueueRechecked
  <2>2. ~SaveFirst'
    BY <1>g, <1>8 DEF SaveFirst, Current
  <2>3. StateInv'
    BY <1>8, <2>1, <2>2 DEF StateInv
  <2>4. HeldInv'
    BY <1>8, <2>1 DEF HeldInv, Due
  <2>5. RunInv'
    BY <1>a, <1>g, <1>8 DEF RunInv, Told
  <2>6. QED BY <2>1, <2>3, <2>4, <2>5 DEF PlaceNext
<1>9. CASE RestoreBranch \/ RestoreKills \/ RestoreFails
  <2>1. Restoring /\ Free /\ UNCHANGED <<queue, main, viewer, undelivered>>
    BY <1>9 DEF RestoreBranch, RestoreKills, RestoreFails, notes
  <2>2. main.phase \notin {"execute", "running"} /\ up
    BY <1>a, <2>1, RestoringAlone DEF Restoring, Free
  <2>3. \E notice \in {{"empty"}, {"restored"}, {"failed"}} : Restored(notice)
    BY <1>9, <2>2 DEF RestoreBranch, RestoreKills, RestoreFails, KernelDies
  <2>4. QED BY <1>8, <2>1, <2>2, <2>3 DEF RestoreNotices
<1>10. CASE RestoreRefused
  <2>1. /\ Restoring /\ Restored({"failed"})
        /\ UNCHANGED <<up, ns, queue, main, viewer, undelivered, unsaid>>
    BY <1>10 DEF RestoreRefused, kernel, notes, history
  <2>2. QED BY <1>a, <1>8, <2>1 DEF RestoreNotices, StateInv
<1>11. CASE RestoreCancelled
  <2>1. /\ Restoring /\ Free /\ SyncThrows /\ UNCHANGED undelivered
        /\ \/ UNCHANGED <<up, ns, held, unsaid>>
           \/ held' = Partial
           \/ unsaid' = "dropped"
           \/ up' = FALSE
    BY <1>11 DEF RestoreCancelled, HeldMeanwhile, KernelDies, kernel, notes
  <2>2. main.phase \notin {"execute", "running"} /\ up /\ ~SaveFirst /\ job.phase = "restore"
    BY <1>a, <1>g, <2>1, RestoringAlone DEF Restoring, Free
  <2>3. held = Partial \/ ns = held \/ undelivered \cap RestoreNotices # {} \/ unsaid = "dropped"
    BY <1>a, <2>2 DEF HeldInv, Due
  <2>4. up' => held' = Partial \/ ns' = held' \/ undelivered \cap RestoreNotices # {} \/ unsaid' = "dropped"
    BY <2>1, <2>2, <2>3
  <2>5. queue # <<>> /\ Current.by # "save" /\ SyncThrows /\ UNCHANGED undelivered
    BY <1>g, <2>1
  <2>6. QED BY <2>2, <2>4, <2>5, Threw
<1>12. CASE SyncReturns
  BY <1>12, Returned
<1>13. CASE Save
  <2>1. /\ Saving /\ Free /\ SaveEnds /\ held' = Current.id /\ UNCHANGED <<main, viewer, up, ns>>
    BY <1>13 DEF Save, notes, history
  <2>2. up /\ Current.id = ns
    BY <1>a, <1>f, <2>1 DEF Saving, Free, StateInv, SaveFirst
  <2>3. QED BY <2>1, <2>2, Saved
<1>14. CASE SaveFails
  <2>1. Saving /\ SaveEnds /\ UNCHANGED <<main, viewer>> /\ SaveFirst /\ main.phase # "running"
    BY <1>a, <1>f, <1>14 DEF SaveFails, Saving, SaveFirst, QueueInv
  <2>2. \/ ~up /\ UNCHANGED up
        \/ up /\ held' = Current.id /\ UNCHANGED <<up, ns>>
        \/ up' = FALSE
    BY <1>14, <2>1 DEF SaveFails, Free, KernelDies, kernel
  <2>3. up => Current.id = ns
    BY <1>a, <2>1 DEF StateInv
  <2>4. QED BY <1>a, <2>1, <2>2, <2>3, Saved DEF TypeInv
<1>15. CASE CellCall
  <2>1. /\ main.phase = "idle" /\ main' = [NoCall EXCEPT !.phase = "queued", !.cands = branch]
        /\ Enqueue("main", branch, NoId) /\ branch \in Seq(Ids)
        /\ UNCHANGED <<up, ns, held, job, viewer, undelivered, unsaid>>
    BY <1>a, <1>15 DEF CellCall, TypeInv, kernel, notes, history
  <2>2. /\ DOMAIN queue' = DOMAIN queue \cup {Len(queue) + 1} /\ Len(queue) + 1 \notin DOMAIN queue
        /\ \A n \in DOMAIN queue : queue'[n] = queue[n]
        /\ queue'[Len(queue) + 1] = [by |-> "main", cands |-> branch, id |-> NoId]
        /\ queue' # <<>>
        /\ queue # <<>> => Current' = Current
        /\ queue = <<>> => Current' = [by |-> "main", cands |-> branch, id |-> NoId]
    <3>1. /\ queue \in Seq(Jobs) /\ "main" \in {"main", "viewer", "save"} /\ branch \in Seq(Ids)
          /\ NoId \in Ids \cup {NoId} /\ Enqueue("main", branch, NoId)
      BY <1>a, <2>1 DEF TypeInv
    <3>2. QED BY <3>1, EnqueueFacts
  <2>3. main'.phase = "queued" /\ main'.cands = branch
    BY <2>1 DEF NoCall
  <2>4. \A n \in DOMAIN queue : queue[n].by # "main"
    BY <1>a, <2>1 DEF QueueInv
  <2>5. \A n \in DOMAIN queue' :
          /\ queue'[n].by = "save" => n = 1
          /\ queue'[n].by = "main" => queue'[n].cands = main'.cands
          /\ queue'[n].by = "viewer" => viewer' = "current"
    BY <1>a, <2>1, <2>2, <2>3, <2>4 DEF QueueInv
  <2>6. \A m, n \in DOMAIN queue' : queue'[m].by = queue'[n].by => m = n
    BY <1>a, <2>2, <2>4 DEF QueueInv
  <2>7. QueueInv'
    BY <1>a, <2>1, <2>2, <2>3, <2>5, <2>6, Nothing DEF QueueInv
  <2>8. SaveFirst' => SaveFirst /\ Current' = Current
    BY <2>2 DEF SaveFirst
  <2>9. job.phase = "recheck" => Current' = Current
    BY <1>f, <2>2
  <2>10. StateInv'
    BY <1>a, <2>1, <2>8, <2>9 DEF StateInv
  <2>11. SaveFirst => SaveFirst'
    BY <2>2 DEF SaveFirst
  <2>12. HeldInv' /\ RunInv'
    BY <1>a, <2>1, <2>3, <2>11 DEF HeldInv, RunInv, Due
  <2>13. QED BY <2>7, <2>10, <2>12 DEF PlaceNext
<1>16. CASE ToggleCells
  <2>1. /\ viewer = "none" /\ viewer' = "current" /\ main.phase # "execute"
        /\ Enqueue("viewer", branch, NoId) /\ branch \in Seq(Ids)
        /\ UNCHANGED <<up, ns, held, job, main, undelivered, unsaid>>
    BY <1>a, <1>16 DEF ToggleCells, Pending, TypeInv, kernel, notes, history
  <2>2. /\ DOMAIN queue' = DOMAIN queue \cup {Len(queue) + 1} /\ Len(queue) + 1 \notin DOMAIN queue
        /\ \A n \in DOMAIN queue : queue'[n] = queue[n]
        /\ queue'[Len(queue) + 1] = [by |-> "viewer", cands |-> branch, id |-> NoId]
        /\ queue' # <<>>
        /\ queue # <<>> => Current' = Current
        /\ queue = <<>> => Current' = [by |-> "viewer", cands |-> branch, id |-> NoId]
    <3>1. /\ queue \in Seq(Jobs) /\ "viewer" \in {"main", "viewer", "save"} /\ branch \in Seq(Ids)
          /\ NoId \in Ids \cup {NoId} /\ Enqueue("viewer", branch, NoId)
      BY <1>a, <2>1 DEF TypeInv
    <3>2. QED BY <3>1, EnqueueFacts
  <2>3. \A n \in DOMAIN queue : queue[n].by # "viewer"
    BY <1>a, <2>1 DEF QueueInv
  <2>4. \A n \in DOMAIN queue' :
          /\ queue'[n].by = "save" => n = 1 /\ main'.phase \notin {"execute", "running"}
          /\ queue'[n].by = "main" => main'.phase = "queued" /\ queue'[n].cands = main'.cands
          /\ queue'[n].by = "viewer" => viewer' = "current"
    BY <1>a, <2>1, <2>2, <2>3 DEF QueueInv
  <2>5. \A m, n \in DOMAIN queue' : queue'[m].by = queue'[n].by => m = n
    BY <1>a, <2>2, <2>3 DEF QueueInv
  <2>6. QueueInv'
    BY <1>a, <1>f, <2>1, <2>2, <2>4, <2>5, Nothing DEF QueueInv
  <2>7. (SaveFirst' => SaveFirst /\ Current' = Current) /\ (SaveFirst => SaveFirst')
    BY <2>2 DEF SaveFirst
  <2>8. job.phase = "recheck" => Current' = Current
    BY <1>f, <2>2
  <2>9. StateInv'
    BY <1>a, <2>1, <2>7, <2>8 DEF StateInv
  <2>10. HeldInv' /\ RunInv'
    BY <1>a, <2>1, <2>7 DEF HeldInv, RunInv, Due, Told
  <2>11. QED BY <2>6, <2>9, <2>10 DEF PlaceNext
<1>17. CASE Execute
  <2>1. /\ main.phase = "execute" /\ main'.phase = "running" /\ main'.notices = main.notices
        /\ main'.cands = main.cands /\ up
        /\ UNCHANGED <<up, ns, held, queue, job, viewer, undelivered, unsaid>>
    BY <1>a, <1>17 DEF Execute, TypeInv, notes, history
  <2>2. QueueInv' /\ StateInv'
    BY <1>a, <2>1 DEF QueueInv, StateInv, SaveFirst, Current
  <2>3. HeldInv' /\ RunInv'
    BY <1>a, <2>1 DEF HeldInv, RunInv, Due, Told, SaveFirst, Current
  <2>4. QED BY <2>2, <2>3 DEF PlaceNext
<1>18. CASE CellLost
  <2>1. /\ main.phase = "running" /\ ~Pending /\ main'.phase = "idle" /\ up' = FALSE
        /\ UNCHANGED <<queue, job>>
    BY <1>18, Nothing DEF CellLost, KernelDies
  <2>2. queue = <<>> /\ job = NoJob /\ DOMAIN queue = {}
    BY <1>a, <2>1, AnsweredAlone, EmptySeq, LenProperties DEF TypeInv
  <2>3. QueueInv' /\ StateInv'
    BY <2>1, <2>2, Nothing DEF QueueInv, StateInv, SaveFirst
  <2>4. HeldInv' /\ RunInv'
    BY <2>1 DEF HeldInv, RunInv
  <2>5. QED BY <2>3, <2>4 DEF PlaceNext
<1>19. CASE CellAnswered
  <2>1. main.phase = "running" /\ ~Pending /\ UNCHANGED <<up, held, job>>
    BY <1>19 DEF CellAnswered
  <2>2. queue = <<>> /\ job = NoJob /\ DOMAIN queue = {} /\ Len(queue) = 0 /\ up
    BY <1>a, <2>1, AnsweredAlone, EmptySeq, LenProperties DEF TypeInv
  <2>4. PICK i \in Ids : ns' = i /\ main'.phase = "returning" /\ Enqueue("save", <<>>, i)
    BY <1>a, <1>19, NewFacts DEF CellAnswered, TypeInv
  <2>5. /\ DOMAIN queue' = {1} /\ queue'[1] = [by |-> "save", cands |-> <<>>, id |-> i]
        /\ queue' # <<>> /\ Current' = queue'[1]
    <3>1. /\ queue \in Seq(Jobs) /\ "save" \in {"main", "viewer", "save"} /\ <<>> \in Seq(Ids)
          /\ i \in Ids \cup {NoId} /\ Enqueue("save", <<>>, i)
      BY <1>a, <2>4, EmptySeq DEF TypeInv
    <3>2. DOMAIN queue' = {} \cup {0 + 1} /\ queue'[0 + 1] = [by |-> "save", cands |-> <<>>, id |-> i]
          /\ queue' # <<>> /\ Current' = [by |-> "save", cands |-> <<>>, id |-> i]
      BY <2>2, <3>1, EnqueueFacts
    <3>3. QED BY <3>2
  <2>6. QueueInv'
    BY <2>1, <2>2, <2>4, <2>5, Nothing DEF QueueInv
  <2>7. StateInv'
    BY <2>1, <2>2, <2>4, <2>5, Nothing DEF StateInv, SaveFirst
  <2>8. HeldInv' /\ RunInv'
    BY <2>4, <2>5 DEF HeldInv, RunInv, SaveFirst
  <2>9. QED BY <2>6, <2>7, <2>8 DEF PlaceNext
<1>20. CASE ResultAppended
  <2>1. /\ main.phase = "returning" /\ main'.phase = "idle"
        /\ UNCHANGED <<up, ns, held, queue, job, viewer, undelivered, unsaid>>
    BY <1>20, Nothing DEF ResultAppended, kernel, notes, history
  <2>2. QueueInv' /\ StateInv'
    BY <1>a, <2>1 DEF QueueInv, StateInv, SaveFirst, Current
  <2>3. HeldInv' /\ RunInv'
    BY <1>a, <2>1 DEF HeldInv, RunInv, Due, SaveFirst, Current
  <2>4. QED BY <2>2, <2>3 DEF PlaceNext
<1>21. QED
  BY <1>1, <1>2, <1>3, <1>4, <1>5, <1>6, <1>7, <1>9, <1>10, <1>11, <1>12, <1>13, <1>14, <1>15,
     <1>16, <1>17, <1>18, <1>19, <1>20
  DEF Next, Checkpointing, Tool

\* Only a restore makes a change of the namespace; its notice is due until a result says it.
LEMMA UnsaidStep ==
  ASSUME PlaceInv, UnsaidInv, [Next]_vars
  PROVE  UnsaidInv'
<1> SUFFICES ASSUME unsaid' = "yes"
             PROVE  /\ up' /\ ~SaveFirst'
                    /\ held' = Partial \/ Due'
                    /\ main'.phase \in {"execute", "running"} => Told' \cap RestoreNotices # {}
  BY DEF UnsaidInv
<1>a. TypeInv /\ QueueInv /\ StateInv /\ HeldInv /\ RunInv
  BY DEF PlaceInv
<1>b. unsaid = "yes" => /\ up /\ ~SaveFirst
                        /\ held = Partial \/ Due
                        /\ main.phase \in {"execute", "running"} => Told \cap RestoreNotices # {}
  BY DEF UnsaidInv
<1>f. job.phase # "none" => queue # <<>> /\ 1 \in DOMAIN queue /\ Current = queue[1] /\ Current \in Jobs
  BY <1>a, FrontJob
<1>t. queue # <<>> /\ queue' = Tail(queue) => ~SaveFirst'
  <2>1. SUFFICES ASSUME queue # <<>>, queue' = Tail(queue) PROVE ~SaveFirst'
    OBVIOUS
  <2>2. queue' \in Seq(Jobs) /\ \A n \in DOMAIN queue' : queue'[n].by # "save"
    BY <1>a, <2>1, TailFacts
  <2>3. queue' # <<>> => Head(queue') = queue'[1] /\ 1 \in DOMAIN queue'
    BY <2>2, EmptySeq, HeadTailProperties, LenProperties
  <2>4. QED BY <2>2, <2>3 DEF SaveFirst, Current
<1>1. CASE Move \/ LoseCheckpoint \/ UNCHANGED vars
  <2>1. unsaid = "yes" /\ UNCHANGED <<up, held, queue, job, main, undelivered>>
    BY <1>1 DEF Move, LoseCheckpoint, vars, kernel, notes, history
  <2>2. QED BY <1>b, <2>1 DEF SaveFirst, Current, Due, Told
<1>2. CASE Reload \/ KernelExits \/ RestoreKills \/ CellLost
  BY <1>2 DEF Reload, KernelExits, RestoreKills, CellLost, KernelDies
<1>3. CASE JobStarts
  BY <1>a, <1>b, <1>3, Nothing DEF JobStarts, NoJob, kernel, notes, history, SaveFirst, Current, Due, Told
<1>4. CASE SyncStart \/ SyncRetries
  <2>1. /\ unsaid = "yes" /\ up /\ job.phase = "start" /\ job'.phase = "restore"
        /\ UNCHANGED <<up, ns, held, queue, main, viewer, undelivered>>
    BY <1>a, <1>b, <1>4 DEF SyncStart, SyncRetries, KernelStarts, notes, history, TypeInv
  <2>2. QED BY <1>b, <2>1 DEF SaveFirst, Current, Due, Told
<1>5. CASE SyncStartFails
  BY <1>5, <1>b DEF SyncStartFails, kernel
<1>6. CASE RestoreNothing
  <2>1. /\ unsaid = "yes" /\ job.phase = "restore" /\ UNCHANGED <<up, held, queue, main, undelivered>>
    BY <1>6 DEF RestoreNothing, Restoring, kernel, notes, history
  <2>2. QED BY <1>b, <2>1 DEF SaveFirst, Current, Due, Told
<1>7. CASE RestoreBranch \/ RestoreFails
  <2>1. /\ Restoring /\ Free /\ up' = up /\ UNCHANGED <<queue, main, undelivered>>
    BY <1>7 DEF RestoreBranch, RestoreFails, KernelDies, notes, Free
  <2>2. main.phase \notin {"execute", "running"} /\ up /\ ~SaveFirst
    BY <1>a, <2>1, RestoringAlone DEF Restoring, Free, SaveFirst
  <2>3. PICK notice \in {{"empty"}, {"restored"}, {"failed"}} : Restored(notice)
    BY <1>7 DEF RestoreBranch, RestoreFails
  <2>4. job'.phase = "recheck" /\ job'.notice # {}
    BY <1>a, <2>3 DEF Restored, TypeInv
  <2>5. QED BY <2>1, <2>2, <2>4 DEF SaveFirst, Current, Due
<1>8. CASE RestoreRefused
  <2>1. /\ unsaid = "yes" /\ job'.phase = "recheck" /\ job'.notice # {} /\ UNCHANGED <<up, queue, main, undelivered>>
    BY <1>a, <1>8 DEF RestoreRefused, Restored, TypeInv, kernel, notes, history
  <2>2. QED BY <1>b, <2>1 DEF SaveFirst, Current, Due, Told
<1>9. CASE RestoreCancelled
  <2>1. /\ Restoring /\ Free /\ SyncThrows /\ UNCHANGED <<up, undelivered>>
        /\ held' = Partial \/ (unsaid = "yes" /\ UNCHANGED held)
    BY <1>9 DEF RestoreCancelled, HeldMeanwhile, KernelDies, kernel, notes
  <2>2. queue # <<>> /\ main.phase \notin {"execute", "running"} /\ up
    BY <1>a, <1>f, <2>1, RestoringAlone DEF Restoring, Free
  <2>3. main'.phase \notin {"execute", "running"}
    BY <2>1, <2>2, Nothing DEF SyncThrows
  <2>4. unsaid = "yes" => held = Partial \/ undelivered \cap RestoreNotices # {}
    BY <1>b, <2>1, <2>2 DEF Due, Restoring
  <2>5. ~SaveFirst'
    BY <1>t, <2>1, <2>2 DEF SyncThrows
  <2>6. QED BY <2>1, <2>2, <2>3, <2>4, <2>5 DEF Due
<1>10. CASE SyncReturns
  <2>1. /\ unsaid = "yes" /\ up /\ up' /\ UNCHANGED <<ns, held>> /\ job.phase = "recheck" /\ queue' = Tail(queue)
    BY <1>b, <1>10 DEF SyncReturns, KernelStarts, history
  <2>2. ~SaveFirst' /\ main.phase # "execute"
    BY <1>a, <1>f, <1>t, <2>1, Nothing DEF QueueInv
  <2>3. Current.by = "viewer" => viewer = "current"
    BY <1>a, <1>f, <2>1 DEF QueueInv
  <2>4. Current.by = "main" => main.phase = "queued"
    BY <1>a, <1>f, <2>1 DEF QueueInv
  <2>5. job.notice \subseteq RestoreNotices
    BY <1>a DEF StateInv
  <2>6. CASE Current.by = "main"
    <3>1. PICK returned \in SUBSET Notices :
             /\ job.notice \subseteq returned
             /\ main' = [main EXCEPT !.phase = "execute", !.notices = returned] /\ UNCHANGED undelivered
      <4>1. job.notice \cup {"save"} \subseteq Notices
        BY <1>a DEF TypeInv, Notices, RestoreNotices
      <4>2. QED BY <1>10, <2>1, <2>6, <4>1 DEF SyncReturns
    <3>2. main'.phase = "execute" /\ main'.notices = returned
      BY <1>a, <3>1 DEF TypeInv
    <3>3. held # Partial => job.notice # {} \/ undelivered \cap RestoreNotices # {}
      BY <1>b, <2>1, <2>4, <2>6 DEF Due
    <3>4. held = Partial => job.notice # {}
      <4>1. Nearest(Current.cands) \in Ids \cup {NoId}
        <5>1. Current.cands \in Seq(Ids)
          BY <1>f, <2>1 DEF Jobs
        <5>2. QED BY <5>1, EmptySeq, ElementOfSeq DEF Nearest
      <4>2. QED BY <1>a, <2>1, <4>1, CheckpointsAssumption DEF StateInv
    <3>5. QED BY <2>1, <2>2, <2>5, <3>1, <3>2, <3>3, <3>4 DEF Due, Told
  <2>7. CASE Current.by # "main"
    <3>1. PICK returned \in SUBSET Notices :
             /\ job.notice \subseteq returned
             /\ undelivered' = KeptForNext(returned) /\ UNCHANGED main
      <4>1. job.notice \cup {"save"} \subseteq Notices
        BY <1>a DEF TypeInv, Notices, RestoreNotices
      <4>2. QED BY <1>10, <2>1, <2>7, <4>1 DEF SyncReturns
    <3>2. viewer = "current"
      BY <1>a, <1>f, <2>1, <2>3, <2>7, <1>10 DEF Jobs, SyncReturns, QueueInv
    <3>3. undelivered' = undelivered \cup returned
      BY <3>1, <3>2 DEF KeptForNext
    <3>4. Due => Due'
      BY <2>5, <3>1, <3>3 DEF Due
    <3>5. QED BY <1>b, <2>1, <2>2, <3>1, <3>3, <3>4 DEF Told
  <2>8. QED BY <2>6, <2>7
<1>11. CASE Save \/ SaveFails
  <2>1. SaveFirst /\ (unsaid' = "yes" => unsaid = "yes")
    BY <1>a, <1>f, <1>11 DEF Save, SaveFails, Saving, SaveFirst, KernelDies, history
  <2>2. QED BY <1>b, <2>1
<1>12. CASE CellCall \/ ToggleCells
  <2>1. PICK by \in {"main", "viewer"} : Enqueue(by, branch, NoId)
    BY <1>12 DEF CellCall, ToggleCells
  <2>2. /\ unsaid = "yes" /\ UNCHANGED <<up, held, job, undelivered>>
        /\ \/ UNCHANGED main
           \/ main.phase = "idle" /\ main'.phase \notin {"execute", "running"}
    BY <1>12 DEF CellCall, ToggleCells, NoCall, kernel, notes, history
  <2>3. /\ queue # <<>> => Current' = Current
        /\ queue = <<>> => Current' = [by |-> by, cands |-> branch, id |-> NoId]
    <3>1. /\ queue \in Seq(Jobs) /\ by \in {"main", "viewer", "save"} /\ branch \in Seq(Ids)
          /\ NoId \in Ids \cup {NoId}
      BY <1>a DEF TypeInv
    <3>2. QED BY <2>1, <3>1, EnqueueFacts
  <2>4. SaveFirst' => SaveFirst
    BY <2>3 DEF SaveFirst
  <2>5. Due => Due'
    BY <2>2 DEF Due
  <2>6. QED BY <1>b, <2>2, <2>4, <2>5 DEF Told
<1>13. CASE Execute
  <2>1. /\ unsaid = "yes" /\ main.phase = "execute" /\ main'.notices = main.notices
        /\ UNCHANGED <<up, held, queue, job, undelivered>>
    BY <1>a, <1>13 DEF Execute, TypeInv, notes, history
  <2>2. QED BY <1>a, <1>b, <1>13, <2>1 DEF SaveFirst, Current, Due, Told, Execute, TypeInv
<1>14. CASE CellAnswered
  BY <1>a, <1>b, <1>14 DEF CellAnswered, LeftUnsaid
<1>15. CASE ResultAppended
  <2>1. /\ unsaid = "yes" /\ main.phase = "returning" /\ main'.phase = "idle"
        /\ UNCHANGED <<up, held, queue, job, undelivered>>
    BY <1>15, Nothing DEF ResultAppended, kernel, notes, history
  <2>2. QED BY <1>b, <2>1 DEF SaveFirst, Current, Due
<1>16. QED
  BY <1>1, <1>2, <1>3, <1>4, <1>5, <1>6, <1>7, <1>8, <1>9, <1>10, <1>11, <1>12, <1>13, <1>14, <1>15
  DEF Next, Checkpointing, Tool

-----------------------------------------------------------------------------
(***************************************************************************)
(* What the namespace, the store and the bounds are, for TypeOK.           *)
(***************************************************************************)
DataInv ==
  /\ stored \subseteq Ids /\ killers \in [Ids -> 0..MaxKillers]
  /\ ns \in Ids \cup {NoId, Partial}
  /\ unsaved \in BOOLEAN /\ faults \in 0..MaxFaults
  /\ main.phase = "returning" <=> main.id \in Ids
  /\ \A n \in DOMAIN queue : queue[n].by = "save" => queue[n].id \in Ids

LEMMA InitData == Init => DataInv
<1>1. SUFFICES ASSUME Init PROVE DataInv
  OBVIOUS
<1>2. queue = <<>> /\ DOMAIN queue = {}
  BY <1>1, EmptySeq, LenProperties DEF Init
<1>3. 0 \in 0..MaxFaults
  BY CheckpointsAssumption
<1>4. main.phase = "idle" /\ main.id \notin Ids
  BY <1>1, CheckpointsAssumption DEF Init, NoCall
<1>5. killers \in [Ids -> 0..MaxKillers]
  BY <1>1, CheckpointsAssumption DEF Init
<1>6. QED BY <1>1, <1>2, <1>3, <1>4, <1>5 DEF DataInv, Init

LEMMA LeastNat ==
  ASSUME NEW S, S \subseteq Nat, S # {}
  PROVE  \E n \in S : \A m \in S : n <= m
<1>1. IsWellFoundedOn(OpToRel(<, Nat), Nat)
  BY NatLessThanWellFounded
<1>2. PICK n \in S : \A m \in S : <<m, n>> \notin OpToRel(<, Nat)
  BY <1>1, WFMin
<1>3. \A m \in S : ~(m < n)
  BY <1>2 DEF OpToRel
<1>4. QED BY <1>3

\* The candidate that a restore takes: the first that is stored.
LEMMA NewestFacts ==
  ASSUME TypeInv, DataInv, queue # <<>>, Found # {}
  PROVE  /\ Newest \in Ids /\ Newest \in stored
         /\ \E n \in Found : Newest = Current.cands[n] /\ \A m \in Found : n <= m
<1>1. Current.cands \in Seq(Ids)
  BY QueueFacts DEF TypeInv, Jobs
<1>2. Found \subseteq Nat
  BY <1>1, LenProperties DEF Found
<1>3. \E n \in Found : \A m \in Found : n <= m
  BY <1>2, LeastNat
<1>4. DEFINE first == CHOOSE n \in Found : \A m \in Found : n <= m
<1>5. first \in Found /\ \A m \in Found : first <= m
  BY <1>3
<1>6. Newest = Current.cands[first]
  BY DEF Newest
<1>7. QED BY <1>5, <1>6 DEF Found, DataInv

LEMMA DataStep ==
  ASSUME TypeInv, QueueInv, DataInv, [Next]_vars
  PROVE  DataInv'
<1>f. job.phase # "none" => queue # <<>> /\ 1 \in DOMAIN queue /\ Current = queue[1] /\ Current \in Jobs
  BY FrontJob
<1>t. queue # <<>> /\ queue' = Tail(queue) => \A n \in DOMAIN queue' : queue'[n].by # "save"
  BY TailFacts
<1>n. NoCall.phase = "idle" /\ NoCall.id \notin Ids /\ NoJob.phase = "none"
  BY CheckpointsAssumption DEF NoCall, NoJob
<1>u. Fault => faults' \in 0..MaxFaults
  BY CheckpointsAssumption DEF Fault, DataInv
<1>d. job.phase = "restore" => Fallback \in Ids \cup {NoId}
  BY <1>f, NewestFacts DEF Fallback
<1>1. CASE Move
  BY <1>1 DEF Move, DataInv, kernel, history
<1>2. CASE Reload
  <2>1. queue' = <<>> /\ DOMAIN queue' = {}
    BY <1>2, EmptySeq, LenProperties DEF Reload
  <2>2. QED BY <1>2, <1>u, <2>1 DEF Reload, DataInv
<1>3. CASE LoseCheckpoint
  BY <1>3, <1>u DEF LoseCheckpoint, DataInv, kernel
<1>4. CASE KernelExits
  BY <1>4, <1>u DEF KernelExits, KernelDies, DataInv
<1>5. CASE JobStarts \/ RestoreNothing \/ RestoreRefused \/ UNCHANGED vars
  BY <1>5 DEF JobStarts, RestoreNothing, RestoreRefused, vars, DataInv, kernel, history
<1>6. CASE SyncStart \/ SyncRetries
  BY <1>6 DEF SyncStart, SyncRetries, KernelStarts, DataInv, history
<1>7. CASE SyncStartFails
  <2>1. /\ queue # <<>> /\ queue' = Tail(queue) /\ Current.by \in {"main", "viewer"}
        /\ Current.by = "main" => main.phase = "queued"
    BY <1>7, <1>f DEF SyncStartFails, SyncThrows, Jobs, QueueInv
  <2>2. main'.phase = "returning" <=> main'.id \in Ids
    BY <1>7, <1>n, <2>1 DEF SyncStartFails, SyncThrows, DataInv
  <2>3. faults' \in 0..MaxFaults
    BY <1>7, <1>u DEF SyncStartFails, DataInv
  <2>4. QED BY <1>7, <1>t, <2>1, <2>2, <2>3 DEF SyncStartFails, DataInv, kernel
<1>8. CASE RestoreBranch
  <2>1. ns' \in Ids \cup {NoId}
    BY <1>8, <1>d DEF RestoreBranch, Replaced, Restoring
  <2>2. QED BY <1>8, <2>1 DEF RestoreBranch, DataInv
<1>9. CASE RestoreKills
  <2>1. Newest \in Ids /\ killers[Newest] > 0
    BY <1>9, <1>f, NewestFacts DEF RestoreKills, Restoring
  <2>2. killers' \in [Ids -> 0..MaxKillers]
    BY <1>9, <2>1, CheckpointsAssumption DEF RestoreKills, DataInv
  <2>3. QED BY <1>9, <2>2 DEF RestoreKills, KernelDies, DataInv
<1>10. CASE RestoreFails
  BY <1>10, <1>d, <1>u DEF RestoreFails, Restoring, Replaced, KernelDies, DataInv
<1>11. CASE RestoreCancelled
  <2>1. /\ queue # <<>> /\ queue' = Tail(queue)
        /\ main' = NoCall \/ UNCHANGED main
    BY <1>11, <1>f DEF RestoreCancelled, Restoring, SyncThrows
  <2>2. ns' \in {ns, Partial, Fallback} /\ Fallback \in Ids \cup {NoId} /\ (faults' = faults \/ Fault)
    BY <1>11, <1>d DEF RestoreCancelled, Restoring, Replaced, KernelDies, kernel
  <2>3. QED BY <1>11, <1>n, <1>t, <1>u, <2>1, <2>2 DEF RestoreCancelled, DataInv
<1>12. CASE SyncReturns
  <2>1. /\ queue # <<>> /\ queue' = Tail(queue) /\ ns' \in {ns, NoId}
        /\ UNCHANGED <<stored, killers, unsaved, faults>>
    BY <1>12, <1>f DEF SyncReturns, KernelStarts, history
  <2>2. main'.phase = "returning" <=> main'.id \in Ids
    <3>1. CASE Current.by = "main"
      <4>1. main.phase = "queued"
        BY <1>12, <1>f, <3>1 DEF SyncReturns, QueueInv
      <4>2. main'.phase = "execute" /\ main'.id = main.id
        BY <1>12, <3>1 DEF SyncReturns, TypeInv
      <4>3. QED BY <4>1, <4>2 DEF DataInv
    <3>2. CASE Current.by # "main"
      BY <1>12, <3>2 DEF SyncReturns, DataInv
    <3>3. QED BY <3>1, <3>2
  <2>3. QED BY <1>t, <2>1, <2>2 DEF DataInv
<1>13. CASE Save
  <2>1. /\ queue # <<>> /\ queue' = Tail(queue) /\ Current.id \in Ids
    BY <1>13, <1>f DEF Save, Saving, SaveEnds, DataInv
  <2>2. killers' \in [Ids -> 0..MaxKillers]
    BY <1>13 DEF Save, DataInv
  <2>3. QED BY <1>13, <1>t, <2>1, <2>2 DEF Save, DataInv, history
<1>14. CASE SaveFails
  <2>1. queue # <<>> /\ queue' = Tail(queue)
    BY <1>14, <1>f DEF SaveFails, Saving, SaveEnds
  <2>2. UNCHANGED ns /\ (faults' = faults \/ Fault)
    BY <1>14 DEF SaveFails, KernelDies, kernel
  <2>3. QED BY <1>14, <1>t, <1>u, <2>1, <2>2 DEF SaveFails, DataInv
<1>15. CASE CellCall \/ ToggleCells
  <2>1. PICK by \in {"main", "viewer"} : Enqueue(by, branch, NoId)
    BY <1>15 DEF CellCall, ToggleCells
  <2>2. \A n \in DOMAIN queue' : queue'[n].by = "save" => queue'[n].id \in Ids
    <3>1. /\ queue \in Seq(Jobs) /\ by \in {"main", "viewer", "save"} /\ branch \in Seq(Ids)
          /\ NoId \in Ids \cup {NoId}
      BY DEF TypeInv
    <3>2. /\ DOMAIN queue' = DOMAIN queue \cup {Len(queue) + 1}
          /\ \A n \in DOMAIN queue : queue'[n] = queue[n]
          /\ queue'[Len(queue) + 1] = [by |-> by, cands |-> branch, id |-> NoId]
      BY <2>1, <3>1, EnqueueFacts
    <3>3. QED BY <3>2 DEF DataInv
  <2>3. main'.phase = "returning" <=> main'.id \in Ids
    BY <1>15, <1>n DEF CellCall, ToggleCells, NoCall, DataInv
  <2>4. QED BY <1>15, <2>2, <2>3 DEF CellCall, ToggleCells, DataInv, kernel, history
<1>16. CASE Execute
  <2>1. main'.phase = "running" /\ main.phase = "execute" /\ main'.id = main.id
    BY <1>16 DEF Execute, TypeInv
  <2>2. QED BY <1>16, <2>1 DEF Execute, DataInv, history
<1>17. CASE CellLost
  BY <1>17, <1>n, <1>u DEF CellLost, KernelDies, DataInv
<1>18. CASE CellAnswered
  <2>1. PICK i \in Ids : /\ ns' = i /\ main'.phase = "returning" /\ main'.id = i
                         /\ Enqueue("save", <<>>, i)
    BY <1>18, NewFacts DEF CellAnswered, TypeInv
  <2>2. \A n \in DOMAIN queue' : queue'[n].by = "save" => queue'[n].id \in Ids
    <3>1. /\ queue \in Seq(Jobs) /\ "save" \in {"main", "viewer", "save"} /\ <<>> \in Seq(Ids)
          /\ i \in Ids \cup {NoId}
      BY EmptySeq DEF TypeInv
    <3>2. /\ DOMAIN queue' = DOMAIN queue \cup {Len(queue) + 1}
          /\ \A n \in DOMAIN queue : queue'[n] = queue[n]
          /\ queue'[Len(queue) + 1] = [by |-> "save", cands |-> <<>>, id |-> i]
      BY <2>1, <3>1, EnqueueFacts
    <3>3. QED BY <3>2 DEF DataInv
  <2>3. unsaved' \in BOOLEAN
    BY <1>18 DEF CellAnswered
  <2>4. QED BY <1>18, <2>1, <2>2, <2>3 DEF CellAnswered, DataInv
<1>19. CASE ResultAppended
  BY <1>19, <1>n DEF ResultAppended, DataInv, kernel, history
<1>20. QED
  BY <1>1, <1>2, <1>3, <1>4, <1>5, <1>6, <1>7, <1>8, <1>9, <1>10, <1>11, <1>12, <1>13, <1>14, <1>15,
     <1>16, <1>17, <1>18, <1>19
  DEF Next, Checkpointing, Tool

BranchInv == PlaceInv /\ DataInv /\ UnsaidInv

LEMMA BranchAlways == Spec => []BranchInv
<1>1. Init => BranchInv
  <2>1. Init => UnsaidInv
    BY DEF UnsaidInv, Init
  <2>2. QED BY <2>1, InitPlace, InitData DEF BranchInv
<1>2. BranchInv /\ [Next]_vars => BranchInv'
  <2>1. SUFFICES ASSUME BranchInv, [Next]_vars PROVE BranchInv'
    OBVIOUS
  <2>2. PlaceInv /\ DataInv /\ UnsaidInv
    BY <2>1 DEF BranchInv
  <2>3. TypeInv'
    BY <2>1, <2>2, TypeStep DEF PlaceInv
  <2>4. PlaceNext
    BY <2>1, <2>2, PlaceStep
  <2>5. UnsaidInv'
    BY <2>1, <2>2, UnsaidStep
  <2>6. DataInv'
    BY <2>1, <2>2, DataStep DEF PlaceInv
  <2>7. QED BY <2>3, <2>4, <2>5, <2>6 DEF PlaceNext, PlaceInv, BranchInv
<1>3. QED BY <1>1, <1>2, PTL DEF Spec

\* Every variable keeps its type; the checkpoint that a restore takes is one of its candidates.
THEOREM TypeCorrect == Spec => []TypeOK
<1>1. BranchInv => TypeOK
  BY DEF BranchInv, PlaceInv, TypeInv, DataInv, TypeOK
<1>2. QED BY <1>1, BranchAlways, PTL

\* A cell runs on the state of the nearest cell of its branch, or its result says that a
\* restore or a lost kernel left another one, whatever was restored, cut short, killed, lost
\* or toggled before. The exception is the notice that a cancelled call took with it.
THEOREM BranchCorrect == Spec => []RunsOnBranch
<1>1. BranchInv => RunsOnBranch
  BY DEF BranchInv, PlaceInv, RunInv, RunsOnBranch
<1>2. QED BY <1>1, BranchAlways, PTL

\* No result hides that a restore replaced the namespace before its cell ran, with the same
\* exception.
THEOREM ReportCorrect == Spec => RestoreReported
<1>1. BranchInv /\ [Next]_vars => [CellAnswered => unsaid' # "yes"]_vars
  <2>1. SUFFICES ASSUME BranchInv, CellAnswered, unsaid' = "yes" PROVE FALSE
    OBVIOUS
  <2>2. unsaid = "yes" /\ main.phase = "running" /\ Told \cap RestoreNotices = {}
    BY <2>1 DEF CellAnswered, LeftUnsaid
  <2>3. QED BY <2>2, <2>1 DEF BranchInv, UnsaidInv
<1>2. QED BY <1>1, BranchAlways, PTL DEF Spec, RestoreReported
=============================================================================

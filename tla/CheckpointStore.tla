--------------------------- MODULE CheckpointStore ---------------------------
(***************************************************************************)
(* core/kernel/pi_ipython_state.py: the checkpoint store on disk and the   *)
(* kernels that save to it and restore from it under one file lock.        *)
(*                                                                         *)
(* A public name and what it is bound to are one Value here, and a blob is *)
(* named by the value that it pickles. One action is the code between two  *)
(* points at which a kill of the kernel leaves a different store behind:   *)
(* every creation, rename, unlink and utime is an action of its own. A     *)
(* marker that a kill left empty is one that was never written: restore()  *)
(* takes it for none.                                                      *)
(***************************************************************************)
EXTENDS Naturals, FiniteSets, Sequences

CONSTANTS Kernels, Ids, Values,
          Poison,                  \* values whose unpickling kills the kernel
          Baselines,               \* what the startup of a kernel may bind or hide by itself
          NoId, Partial,           \* None and _PARTIAL
          NoKernel, NoValue,
          StoreLimit,              \* in files
          MaxBranch,               \* bound on the checkpoints of a branch
          MaxKills                 \* bound on the kills that have another cause

ASSUME StoreAssumption ==
  /\ Poison \subseteq Values /\ NoValue \notin Values
  /\ Baselines \subseteq SUBSET Values
  /\ NoKernel \notin Kernels
  /\ NoId \notin Ids /\ Partial \notin Ids \cup {NoId}
  /\ \A vs \in SUBSET Values : Partial # vs
  /\ StoreLimit \in Nat /\ MaxBranch \in Nat /\ MaxKills \in Nat

VARIABLES
  blobs,      \* blobs in blobs/
  manifests,  \* manifests in manifests/
  leftovers,  \* temporary files in both whose writer is gone
  before,     \* the order of their modification times
  marker,     \* the file "loading", or NoValue
  lock,       \* the kernel that holds the lock
  baseline,   \* _baseline and the hidden names of each kernel
  ns,         \* the eligible names of each kernel
  held,       \* _held
  op,         \* the save or the restore of each kernel
  content,    \* the namespace that each checkpoint was asked to keep
  issued,     \* IDs that a save was called with
  uses,       \* the order in which the manifests were last saved or restored
  condemned,  \* blobs that _take_crashed() deleted
  kills       \* kills that are not the work of a value

disk == <<blobs, manifests, leftovers, before, marker, lock>>
kernel == <<baseline, ns, held>>
history == <<content, issued, uses, condemned, kills>>
vars == <<disk, kernel, op, history>>

NoManifest == [values |-> {}, skipped |-> {}, present |-> FALSE]
Idle == [phase |-> "idle", id |-> NoId, cands |-> <<>>, todo |-> {}, kept |-> {}, skipped |-> {}]

Present == {i \in Ids : manifests[i].present}
Refs == UNION {manifests[i].values : i \in Present}
AtRest(k) == op[k].phase \in {"idle", "failed"}
Locked == {"pickle", "write", "evict", "sweep", "crashed", "select", "load", "loading"}

\* The candidates of a conversation branch, newest first.
Branches == {b \in UNION {[1..n -> Ids] : n \in 0..MaxBranch} :
               \A i, j \in DOMAIN b : b[i] = b[j] => i = j}
Nearest(b) == IF b = <<>> THEN NoId ELSE b[1]

TypeOK ==
  /\ blobs \subseteq Values
  /\ manifests \in [Ids -> [values : SUBSET Values, skipped : SUBSET Values, present : BOOLEAN]]
  /\ leftovers \in 0..MaxKills
  /\ before \subseteq Ids \X Ids
  /\ marker \in Values \cup {NoValue}
  /\ lock \in Kernels \cup {NoKernel}
  /\ baseline \in [Kernels -> Baselines]
  /\ ns \in [Kernels -> SUBSET Values]
  /\ held \in [Kernels -> Ids \cup {NoId, Partial}]
  /\ op \in [Kernels -> [phase : {"idle", "failed", "saveLock", "restoreLock"} \cup Locked,
                         id : Ids \cup {NoId}, cands : Branches, todo : SUBSET Values,
                         kept : SUBSET Values, skipped : SUBSET Values]]
  /\ content \in [Ids -> SUBSET Values]
  /\ issued \subseteq Ids /\ uses \subseteq Ids \X Ids
  /\ condemned \subseteq Values
  /\ kills \in 0..MaxKills

Init ==
  /\ blobs = {} /\ manifests = [i \in Ids |-> NoManifest] /\ leftovers = 0 /\ before = {}
  /\ marker = NoValue /\ lock = NoKernel
  /\ baseline \in [Kernels -> Baselines]
  /\ ns = [k \in Kernels |-> {}] /\ held = [k \in Kernels |-> NoId]
  /\ op = [k \in Kernels |-> Idle]
  /\ content = [i \in Ids |-> {}] /\ issued = {} /\ uses = {} /\ condemned = {} /\ kills = 0

\* The order after i became the most recent of the manifests in `all`.
Touched(order, all, i) ==
  {p \in order : i \notin {p[1], p[2]}} \cup ((all \ {i}) \X {i})
Dropped(order, i) == {p \in order : i \notin {p[1], p[2]}}

Goto(k, phase) == op' = [op EXCEPT ![k].phase = phase]

\* The operation ends, and the lock is released if it was held.
Leave(k, rest) ==
  /\ op' = [op EXCEPT ![k] = rest]
  /\ lock' = IF lock = k THEN NoKernel ELSE lock

\* _eligible(): the names that a kernel saves, clears and restores.
Eligible(k, vs) == vs \ baseline[k]

\* A cell creates, rebinds and deletes names.
Cell(k) ==
  /\ AtRest(k)
  /\ \E vs \in SUBSET Values : ns' = [ns EXCEPT ![k] = Eligible(k, vs)]
  /\ UNCHANGED <<disk, baseline, held, op, history>>

-----------------------------------------------------------------------------
(***************************************************************************)
(* save()                                                                  *)
(***************************************************************************)

\* The ID is fresh, and _held names it before anything is stored.
SaveCall(k, i) ==
  /\ AtRest(k) /\ i \notin issued
  /\ held' = [held EXCEPT ![k] = i]
  /\ op' = [op EXCEPT ![k] = [Idle EXCEPT !.phase = "saveLock", !.id = i]]
  /\ content' = [content EXCEPT ![i] = ns[k]]
  /\ issued' = issued \cup {i}
  /\ UNCHANGED <<disk, baseline, ns, uses, condemned, kills>>

\* Mutant: a save does not wait for the lock.
SaveLock_Ignored(k) ==
  /\ op[k].phase = "saveLock"
  /\ op' = [op EXCEPT ![k].phase = "pickle", ![k].todo = ns[k]]
  /\ UNCHANGED <<disk, kernel, history>>

SaveLock(k) ==
  /\ op[k].phase = "saveLock" /\ lock = NoKernel
  /\ lock' = k
  /\ op' = [op EXCEPT ![k].phase = "pickle", ![k].todo = ns[k]]
  /\ UNCHANGED <<blobs, manifests, leftovers, before, marker, kernel, history>>

\* _atomic_write() creates a temporary file, for a blob that does not exist or, after the last
\* value, for the manifest. It is there for as long as the phase is "write".
OpenTemporary(k) ==
  /\ op[k].phase = "pickle" /\ (op[k].todo = {} \/ op[k].todo \ blobs # {})
  /\ Goto(k, "write")
  /\ UNCHANGED <<disk, kernel, history>>

\* A blob that exists is not written again; one that does not is renamed into place.
PickleValue(k, v) ==
  /\ v \in op[k].todo /\ op[k].phase = IF v \in blobs THEN "pickle" ELSE "write"
  /\ op' = [op EXCEPT ![k].phase = "pickle", ![k].todo = @ \ {v}, ![k].kept = @ \cup {v}]
  /\ blobs' = blobs \cup {v}
  /\ condemned' = condemned \ {v}
  /\ UNCHANGED <<manifests, leftovers, before, marker, lock, kernel, content, issued, uses, kills>>

\* A live resource, a value or a checkpoint over its limit, any other exception. One that
\* _atomic_write() raises deletes the temporary file; it may come after the rename.
SkipValue(k, v) ==
  /\ v \in op[k].todo
  /\ \/ op[k].phase = "pickle" /\ UNCHANGED <<blobs, condemned>>
     \/ /\ op[k].phase = "write" /\ v \notin blobs
        /\ \/ UNCHANGED <<blobs, condemned>>
           \/ blobs' = blobs \cup {v} /\ condemned' = condemned \ {v}
  /\ op' = [op EXCEPT ![k].phase = "pickle", ![k].todo = @ \ {v}, ![k].skipped = @ \cup {v}]
  /\ UNCHANGED <<manifests, leftovers, before, marker, lock, kernel, content, issued, uses, kills>>

WriteManifest(k) ==
  /\ op[k].phase = "write" /\ op[k].todo = {}
  /\ LET i == op[k].id
     IN  /\ manifests' = [manifests EXCEPT ![i] = [values |-> op[k].kept,
                                                   skipped |-> op[k].skipped, present |-> TRUE]]
         /\ before' = Touched(before, Present, i)
         /\ uses' = Touched(uses, Present, i)
  /\ Goto(k, "evict")
  /\ UNCHANGED <<blobs, leftovers, marker, lock, kernel, content, issued, condemned, kills>>

(***************************************************************************)
(* _cleanup()                                                              *)
(***************************************************************************)
Total == Cardinality(Present) + Cardinality(Refs \cap blobs)

\* Manifests in the order of the scan, the saved one left out.
Oldest(k, i) ==
  /\ i \in Present \ {op[k].id}
  /\ \A j \in Present \ {op[k].id} : <<j, i>> \notin before

\* The store is over its limit, or the manifest is over its age.
Evict(k, i) ==
  /\ op[k].phase = "evict" /\ Oldest(k, i)
  /\ manifests' = [manifests EXCEPT ![i] = NoManifest]
  /\ before' = Dropped(before, i)
  /\ uses' = Dropped(uses, i)
  /\ UNCHANGED <<blobs, leftovers, marker, lock, kernel, op, content, issued, condemned, kills>>

Fits(k) == Total <= StoreLimit \/ Present = {op[k].id}

BeginSweep(k) ==
  /\ op[k].phase = "evict" /\ Fits(k)
  /\ Goto(k, "sweep")
  /\ UNCHANGED <<disk, kernel, history>>

\* Mutant: the blobs of the evicted manifests go, shared or not.
Unreferenced_Own(k) == blobs \ op[k].kept

Unreferenced(k) == blobs \ Refs

Sweep(k, v) ==
  /\ op[k].phase = "sweep" /\ v \in Unreferenced(k)
  /\ blobs' = blobs \ {v}
  /\ UNCHANGED <<manifests, leftovers, before, marker, lock, kernel, op, history>>

SaveDone(k) ==
  /\ op[k].phase = "sweep" /\ Unreferenced(k) = {}
  /\ Leave(k, Idle)
  /\ UNCHANGED <<blobs, manifests, leftovers, before, marker, kernel, history>>

-----------------------------------------------------------------------------
(***************************************************************************)
(* restore()                                                               *)
(***************************************************************************)
RestoreCall(k, b) ==
  /\ AtRest(k) /\ Nearest(b) # held[k]
  /\ op' = [op EXCEPT ![k] = [Idle EXCEPT !.phase = "restoreLock", !.cands = b]]
  /\ UNCHANGED <<disk, kernel, history>>

\* _take_crashed(): the marker goes first, then its blob.
RestoreLock(k) ==
  /\ op[k].phase = "restoreLock" /\ lock = NoKernel
  /\ lock' = k /\ marker' = NoValue
  /\ op' = IF marker = NoValue
           THEN [op EXCEPT ![k].phase = "select"]
           ELSE [op EXCEPT ![k].phase = "crashed", ![k].todo = {marker}]
  /\ UNCHANGED <<blobs, manifests, leftovers, before, kernel, history>>

DropCrashed(k) ==
  /\ op[k].phase = "crashed"
  /\ blobs' = blobs \ op[k].todo
  /\ condemned' = condemned \cup op[k].todo
  /\ op' = [op EXCEPT ![k].phase = "select", ![k].todo = {}]
  /\ UNCHANGED <<manifests, leftovers, before, marker, lock, kernel, content, issued, uses, kills>>

\* Mutant: the namespace counts as restored from here on.
Clearing_Done(b) == Nearest(b)

\* What _held says while the names are being replaced.
Clearing(b) == Partial

\* Mutant: a restored manifest keeps its modification time.
Restored_Untouched(order, i) == order

Restored(order, i) == Touched(order, Present, i)

\* The first readable candidate; the namespace is cleared. A saved name that is not eligible in
\* this kernel is passed over without a word.
Select(k) ==
  /\ op[k].phase = "select"
  /\ ns' = [ns EXCEPT ![k] = {}]
  /\ LET b == op[k].cands
         found == {n \in DOMAIN b : b[n] \in Present}
     IN  IF found = {}
         THEN /\ held' = [held EXCEPT ![k] = Nearest(b)]
              /\ Leave(k, Idle)
              /\ UNCHANGED <<before, uses>>
         ELSE \E n \in found :
                /\ \A m \in found : n <= m
                /\ held' = [held EXCEPT ![k] = Clearing(b)]
                /\ before' = Restored(before, b[n])
                /\ uses' = Touched(uses, Present, b[n])
                /\ op' = [op EXCEPT ![k].phase = "load", ![k].id = b[n],
                                    ![k].todo = Eligible(k, manifests[b[n]].values),
                                    ![k].skipped = manifests[b[n]].skipped]
                /\ UNCHANGED lock
  /\ UNCHANGED <<blobs, manifests, leftovers, marker, baseline, content, issued, condemned, kills>>

\* The blob is there: the marker is written.
MarkLoading(k, v) ==
  /\ op[k].phase = "load" /\ v \in op[k].todo \cap blobs
  /\ marker' = v
  /\ op' = [op EXCEPT ![k].phase = "loading", ![k].todo = @ \ {v}]
  /\ UNCHANGED <<blobs, manifests, leftovers, before, lock, kernel, history>>

\* Mutant: a value without a blob is passed over in silence.
NotFound_Silent(k, v) == op[k].skipped

NotFound(k, v) == op[k].skipped \cup {v}

\* The blob was deleted.
SkipMissing(k, v) ==
  /\ op[k].phase = "load" /\ v \in op[k].todo \ blobs
  /\ op' = [op EXCEPT ![k].todo = @ \ {v}, ![k].skipped = NotFound(k, v)]
  /\ UNCHANGED <<disk, kernel, history>>

\* Unpickling succeeds, or raises an exception.
Loaded(k) ==
  /\ op[k].phase = "loading" /\ marker \notin Poison
  /\ marker' = NoValue
  /\ \/ ns' = [ns EXCEPT ![k] = @ \cup {marker}] /\ Goto(k, "load")
     \/ op' = [op EXCEPT ![k].phase = "load", ![k].skipped = @ \cup {marker}] /\ UNCHANGED ns
  /\ UNCHANGED <<blobs, manifests, leftovers, before, lock, baseline, held, history>>

RestoreDone(k) ==
  /\ op[k].phase = "load" /\ op[k].todo = {}
  /\ held' = [held EXCEPT ![k] = Nearest(op[k].cands)]
  /\ Leave(k, Idle)
  /\ UNCHANGED <<blobs, manifests, leftovers, before, marker, baseline, ns, history>>

\* Mutant: the whole list is taken for its head.
Accepted_List(b) == b

Accepted(b) == Nearest(b)

\* accept(): the host gives up on a restore that failed.
Accept(k) ==
  /\ op[k].phase = "failed"
  /\ held' = [held EXCEPT ![k] = Accepted(op[k].cands)]
  /\ op' = [op EXCEPT ![k] = Idle]
  /\ UNCHANGED <<disk, baseline, ns, history>>

-----------------------------------------------------------------------------
\* SIGINT raises KeyboardInterrupt, which no handler catches. The marker goes,
\* unless the signal lands between its write and the try statement.
Interrupt(k) ==
  /\ ~AtRest(k) /\ ~(op[k].phase = "loading" /\ marker \in Poison)
  /\ Leave(k, IF op[k].cands # <<>> \/ op[k].phase \in {"restoreLock", "crashed", "select"}
              THEN [Idle EXCEPT !.phase = "failed", !.cands = op[k].cands] ELSE Idle)
  /\ marker' \in IF op[k].phase = "loading" THEN {NoValue, marker} ELSE {marker}
  /\ UNCHANGED <<blobs, manifests, leftovers, before, kernel, history>>

\* The process ends, the lock goes with it, a temporary file stays behind, and a new kernel
\* starts, whose hooks and extensions may have changed.
Restart(k) ==
  /\ Leave(k, Idle)
  /\ leftovers' = leftovers + (IF op[k].phase = "write" THEN 1 ELSE 0)
  /\ \E names \in Baselines : baseline' = [baseline EXCEPT ![k] = names]
  /\ ns' = [ns EXCEPT ![k] = {}]
  /\ held' = [held EXCEPT ![k] = NoId]
  /\ UNCHANGED <<blobs, manifests, before, marker, content, issued, uses, condemned>>

\* A value kills the kernel that unpickles it.
Poisoned(k) == op[k].phase = "loading" /\ marker \in Poison /\ Restart(k) /\ UNCHANGED kills

\* Anything else kills it: the host, a cell, a signal, the end of the session.
Kill(k) == kills < MaxKills /\ kills' = kills + 1 /\ Restart(k)

Step(k) ==
  \/ Cell(k) \/ SaveLock(k) \/ OpenTemporary(k) \/ WriteManifest(k) \/ BeginSweep(k) \/ SaveDone(k)
  \/ \E i \in Ids : SaveCall(k, i) \/ Evict(k, i)
  \/ \E v \in Values : PickleValue(k, v) \/ SkipValue(k, v) \/ Sweep(k, v)
  \/ \E b \in Branches : RestoreCall(k, b)
  \/ RestoreLock(k) \/ DropCrashed(k) \/ Select(k) \/ Loaded(k) \/ RestoreDone(k)
  \/ \E v \in Values : MarkLoading(k, v) \/ SkipMissing(k, v)
  \/ Accept(k) \/ Interrupt(k) \/ Poisoned(k) \/ Kill(k)

Next == \E k \in Kernels : Step(k)
Spec == Init /\ [][Next]_vars

-----------------------------------------------------------------------------
(***************************************************************************)
(* Properties.                                                             *)
(***************************************************************************)

\* A manifest that can be read names only blobs that can be loaded, except for
\* those that were deleted on purpose: no kill, no cleanup and no other session
\* takes a shared blob away.
BlobsKept == \A i \in Present : manifests[i].values \subseteq blobs \cup condemned

\* Every name of the saved namespace that is eligible in the kernel that restores
\* it is restored, reported as skipped, or still to be tried: none of these
\* disappears between a save and a restore.
RestoreAccounts ==
  \A k \in Kernels :
    op[k].phase \in {"load", "loading"} =>
      Eligible(k, content[op[k].id])
        = Eligible(k, ns[k] \cup op[k].skipped \cup op[k].todo \cup
                        (IF op[k].phase = "loading" THEN {marker} ELSE {}))

\* A restore that was cut short is not taken for done: the next one of the same
\* branch runs again.
CancelledRunsAgain ==
  \A k \in Kernels : op[k].phase = "failed" => held[k] # Nearest(op[k].cands)

\* A blob is deleted as the killer of a kernel only when it is one.
OnlyPoisonDeleted == condemned \subseteq Poison

\* A finished save leaves its checkpoint, no blob that no manifest names, and
\* manifests and blobs within the limit of the store unless this checkpoint alone
\* is over it. Beyond them there are the temporary files of writes that were
\* killed, which no cleanup counts or deletes, one for each kill at most. On the
\* way a checkpoint is deleted only when all others were used after it.
SaveLeaves(k) ==
  /\ op[k].id \in Present
  /\ blobs \subseteq Refs
  /\ Cardinality(Present) + Cardinality(blobs) <= StoreLimit \/ Present = {op[k].id}
  /\ leftovers <= kills
LeastUsed(k, i) == \A j \in Present \ {op[k].id} : <<j, i>> \notin uses
SavesAreTidy ==
  [][\A k \in Kernels : /\ SaveDone(k) => SaveLeaves(k)
                        /\ \A i \in Ids : Evict(k, i) => LeastUsed(k, i)]_vars

\* The store implements CheckpointShelf.
Shelf == INSTANCE CheckpointShelf
           WITH record <- [i \in Ids |-> IF manifests[i].present THEN manifests[i].values
                                         ELSE Partial],
                lost <- Refs \ blobs, Missing <- Partial
ShelfSpec == Shelf!Spec
=============================================================================

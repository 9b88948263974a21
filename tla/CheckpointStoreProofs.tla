------------------------ MODULE CheckpointStoreProofs ------------------------
(***************************************************************************)
(* Proofs about CheckpointStore: its type invariant, its properties, and   *)
(* that it implements CheckpointShelf. BlobsKept rests on the lock: an     *)
(* operation between its first and its last step under the lock is the     *)
(* only one there (LockInv), so the blobs that a save found or wrote are   *)
(* still there when it names them in its manifest (KeptInv). The           *)
(* refinement needs also that a save in progress has an ID for which there *)
(* is no manifest yet and that no other save has (FreshInv): only then a   *)
(* manifest never changes. RestoreAccounts follows when each save and each *)
(* manifest accounts for its names too (AccountInv), SavesAreTidy when the *)
(* files are ordered as they were used, a save that cleans up keeps its    *)
(* own manifest (TidyInv) and only kills leave temporary files (LeftInv).  *)
(***************************************************************************)
EXTENDS CheckpointStore, TLAPS

Phases == {"idle", "failed", "saveLock", "restoreLock"} \cup Locked
Ops == [phase : Phases, id : Ids \cup {NoId}, cands : Branches, todo : SUBSET Values,
        kept : SUBSET Values, skipped : SUBSET Values]
Restoring == {"restoreLock", "crashed", "select", "load", "loading"}

\* Only the holder of the lock is past it.
LockInv == \A k \in Kernels : op[k].phase \in Locked => lock = k

\* A save has an ID, and the value that is being unpickled has the marker.
OpInv ==
  \A k \in Kernels :
    /\ op[k].phase \in {"saveLock", "pickle", "write"} => op[k].id \in Ids
    /\ op[k].phase = "loading" => marker \in Values

\* Only a kill leaves a temporary file behind.
LeftInv == leftovers <= kills

TypeInv == TypeOK /\ LockInv /\ OpInv /\ LeftInv

\* What a save will name is on disk until it has named it.
KeptInv ==
  \A k \in Kernels :
    /\ op[k].phase = "saveLock" => op[k].kept = {}
    /\ op[k].phase \in {"pickle", "write"} => op[k].kept \subseteq blobs

\* _held never names the branch that a restore in progress, or cut short, is for.
HeldInv ==
  \A k \in Kernels :
    /\ op[k].phase \in {"restoreLock", "crashed", "select", "failed"} => held[k] # Nearest(op[k].cands)
    /\ op[k].phase \in {"load", "loading"} => held[k] = Partial
    /\ ~AtRest(k) /\ op[k].phase \notin Restoring => op[k].cands = <<>>

\* A save in progress has an ID of its own, for which there is no manifest yet,
\* and one blob at a time is given up on.
FreshInv ==
  /\ Present \subseteq issued
  /\ \A k \in Kernels :
       /\ op[k].phase \in {"saveLock", "pickle", "write"} =>
            /\ op[k].id \in issued \ Present
            /\ \A j \in Kernels \ {k} :
                 op[j].phase \in {"saveLock", "pickle", "write"} => op[j].id # op[k].id
       /\ op[k].phase = "crashed" => \E v \in Values : op[k].todo = {v}

\* A manifest, and a save or a restore on its way, account for the whole namespace that
\* the checkpoint was asked to keep.
SaveAccounts ==
  \A k \in Kernels :
    /\ op[k].phase = "saveLock" => /\ op[k].kept = {} /\ op[k].skipped = {}
                                  /\ content[op[k].id] = ns[k]
    /\ op[k].phase \in {"pickle", "write"} =>
         content[op[k].id] = op[k].kept \cup op[k].skipped \cup op[k].todo
ManifestsAccount ==
  /\ \A i \in Present : content[i] = manifests[i].values \cup manifests[i].skipped
  /\ \A k \in Kernels : op[k].phase \in {"load", "loading"} => op[k].id \in issued
AccountInv == SaveAccounts /\ ManifestsAccount /\ RestoreAccounts

StoreInv == TypeInv /\ KeptInv /\ BlobsKept /\ HeldInv /\ FreshInv /\ AccountInv

LEMMA TouchedType ==
  ASSUME NEW order \in SUBSET (Ids \X Ids), NEW all \in SUBSET Ids, NEW i \in Ids
  PROVE  Touched(order, all, i) \subseteq Ids \X Ids /\ Dropped(order, i) \subseteq Ids \X Ids
  BY DEF Touched, Dropped

LEMMA PresentType == Present \subseteq Ids
  BY DEF Present

LEMMA BranchType ==
  ASSUME NEW b \in Branches
  PROVE  /\ Nearest(b) \in Ids \cup {NoId}
         /\ \A n \in DOMAIN b : b[n] \in Ids
<1>1. PICK n \in 0..MaxBranch : b \in [1..n -> Ids]
  BY DEF Branches
<1>2. CASE n = 0
  BY <1>1, <1>2 DEF Nearest
<1>3. CASE n # 0
  <2>1. 1 \in 1..n
    BY <1>3, StoreAssumption
  <2>2. QED BY <1>1, <2>1 DEF Nearest
<1>4. QED BY <1>2, <1>3

LEMMA EmptyBranch == <<>> \in Branches
<1>1. 0 \in 0..MaxBranch
  BY StoreAssumption
<1>2. <<>> \in [1..0 -> Ids]
  OBVIOUS
<1>3. QED BY <1>1, <1>2 DEF Branches

LEMMA InitStore == Init => StoreInv
<1> SUFFICES ASSUME Init PROVE StoreInv
  OBVIOUS
<1>1. Idle \in Ops
  BY EmptyBranch DEF Idle, Ops, Phases
<1>2. \A k \in Kernels : op[k].phase = "idle"
  BY DEF Init, Idle
<1>3. TypeOK
  <2>1. manifests \in [Ids -> [values : SUBSET Values, skipped : SUBSET Values, present : BOOLEAN]]
    BY DEF Init, NoManifest
  <2>2. kills \in 0..MaxKills
    BY StoreAssumption DEF Init
  <2>3. QED BY <1>1, <2>1, <2>2 DEF Init, TypeOK, Ops, Phases
<1>4. BlobsKept
  BY DEF Init, BlobsKept, Present, NoManifest
<1>5. Present = {}
  BY DEF Init, Present, NoManifest
<1>6. QED
  BY <1>2, <1>3, <1>4, <1>5
  DEF StoreInv, TypeInv, LockInv, OpInv, LeftInv, Init, KeptInv, HeldInv, FreshInv, AccountInv, SaveAccounts,
      ManifestsAccount, RestoreAccounts, Locked, AtRest

\* How a restore leaves the choice of its checkpoint.
\* Loaded() changes the operation of its kernel alone, the namespace and the marker.
LEMMA LoadedEnds ==
  ASSUME TypeOK, NEW k \in Kernels, Loaded(k)
  PROVE  /\ op'[k].phase = "load" /\ op'[k].kept = op[k].kept
         /\ \A j \in Kernels \ {k} : op'[j] = op[j]
         /\ blobs' = blobs /\ manifests' = manifests /\ issued' = issued
<1>1. blobs' = blobs /\ manifests' = manifests /\ issued' = issued
  BY DEF Loaded, kernel, history
<1>2. CASE Goto(k, "load")
  <2>1. op' = [op EXCEPT ![k].phase = "load"]
    BY <1>2 DEF Goto
  <2>2. QED BY <1>1, <2>1 DEF TypeOK
<1>3. CASE op' = [op EXCEPT ![k].phase = "load", ![k].skipped = @ \cup {marker}]
  BY <1>1, <1>3 DEF TypeOK
<1>4. QED BY <1>2, <1>3 DEF Loaded

LEMMA SelectEnds ==
  ASSUME TypeOK, NEW k \in Kernels, Select(k)
  PROVE  /\ op[k].phase = "select" /\ marker' = marker /\ blobs' = blobs
         /\ manifests' = manifests /\ condemned' = condemned
         /\ \A j \in Kernels \ {k} : op'[j] = op[j] /\ held'[j] = held[j]
         /\ \/ op'[k] = Idle /\ lock' = (IF lock = k THEN NoKernel ELSE lock)
            \/ /\ op'[k].phase = "load" /\ op'[k].cands = op[k].cands
               /\ held'[k] = Partial /\ lock' = lock
<1> DEFINE b == op[k].cands
           found == {n \in DOMAIN b : b[n] \in Present}
<1>a. /\ op[k].phase = "select" /\ marker' = marker /\ blobs' = blobs
      /\ manifests' = manifests /\ condemned' = condemned
  BY DEF Select
<1>1. CASE found = {}
  BY <1>a, <1>1 DEF Select, Leave, TypeOK
<1>2. CASE found # {}
  <2>1. PICK n \in found : /\ held' = [held EXCEPT ![k] = Clearing(b)]
                           /\ op' = [op EXCEPT ![k].phase = "load", ![k].id = b[n],
                                               ![k].todo = Eligible(k, manifests[b[n]].values),
                                               ![k].skipped = manifests[b[n]].skipped]
                           /\ UNCHANGED lock
    BY <1>2 DEF Select
  <2>2. held'[k] = Partial /\ op'[k].phase = "load" /\ op'[k].cands = b
    BY <2>1 DEF Clearing, TypeOK
  <2>3. \A j \in Kernels \ {k} : op'[j] = op[j] /\ held'[j] = held[j]
    BY <2>1 DEF TypeOK
  <2>4. QED BY <1>a, <2>1, <2>2, <2>3
<1>3. QED BY <1>1, <1>2

LEMMA StepLock == TypeOK /\ LockInv /\ [Next]_vars => LockInv'
<1> SUFFICES ASSUME TypeOK /\ LockInv, [Next]_vars PROVE LockInv'
  OBVIOUS
<1> USE DEF TypeOK, LockInv, Locked, disk, kernel, history
<1>0. CASE UNCHANGED vars
  BY <1>0 DEF vars
<1>1. ASSUME NEW k \in Kernels, Cell(k) PROVE LockInv'
  BY <1>1 DEF Cell, AtRest
<1>2. ASSUME NEW k \in Kernels, NEW i \in Ids, SaveCall(k, i) PROVE LockInv'
  BY <1>2, StoreAssumption DEF SaveCall, AtRest, Idle
<1>3. ASSUME NEW k \in Kernels, SaveLock(k) PROVE LockInv'
  BY <1>3, StoreAssumption DEF SaveLock
<1>4. ASSUME NEW k \in Kernels, NEW v \in Values, PickleValue(k, v) PROVE LockInv'
  BY <1>4 DEF PickleValue
<1>5. ASSUME NEW k \in Kernels, NEW v \in Values, SkipValue(k, v) PROVE LockInv'
  BY <1>5 DEF SkipValue
<1>6. ASSUME NEW k \in Kernels, WriteManifest(k) PROVE LockInv'
  BY <1>6, StoreAssumption DEF WriteManifest, Goto
<1>7. ASSUME NEW k \in Kernels, NEW i \in Ids, Evict(k, i) PROVE LockInv'
  BY <1>7, StoreAssumption DEF Evict, NoManifest
<1>8. ASSUME NEW k \in Kernels, BeginSweep(k) PROVE LockInv'
  BY <1>8 DEF BeginSweep, Goto
<1>9. ASSUME NEW k \in Kernels, NEW v \in Values, Sweep(k, v) PROVE LockInv'
  BY <1>9 DEF Sweep
<1>10. ASSUME NEW k \in Kernels, SaveDone(k) PROVE LockInv'
  BY <1>10, StoreAssumption DEF SaveDone, Leave, Idle
<1>11. ASSUME NEW k \in Kernels, NEW b \in Branches, RestoreCall(k, b) PROVE LockInv'
  BY <1>11 DEF RestoreCall, AtRest, Idle
<1>12. ASSUME NEW k \in Kernels, RestoreLock(k) PROVE LockInv'
  BY <1>12, StoreAssumption DEF RestoreLock
<1>13. ASSUME NEW k \in Kernels, DropCrashed(k) PROVE LockInv'
  BY <1>13 DEF DropCrashed
<1>14. ASSUME NEW k \in Kernels, Select(k) PROVE LockInv'
  <2>1. op[k].phase = "select" /\ marker' = marker /\ \A j \in Kernels \ {k} : op'[j] = op[j]
    BY <1>14, SelectEnds
  <2>2. \/ op'[k].phase = "idle" /\ lock' = (IF lock = k THEN NoKernel ELSE lock)
        \/ op'[k].phase = "load" /\ lock' = lock
    BY <1>14, SelectEnds DEF Idle
  <2>3. QED BY <2>1, <2>2, StoreAssumption
<1>15. ASSUME NEW k \in Kernels, NEW v \in Values, MarkLoading(k, v) PROVE LockInv'
  BY <1>15 DEF MarkLoading
<1>16. ASSUME NEW k \in Kernels, NEW v \in Values, SkipMissing(k, v) PROVE LockInv'
  BY <1>16 DEF SkipMissing, NotFound
<1>17. ASSUME NEW k \in Kernels, Loaded(k) PROVE LockInv'
  BY <1>17 DEF Loaded, Goto
<1>18. ASSUME NEW k \in Kernels, RestoreDone(k) PROVE LockInv'
  BY <1>18, StoreAssumption DEF RestoreDone, Leave, Idle
<1>19. ASSUME NEW k \in Kernels, Accept(k) PROVE LockInv'
  BY <1>19, StoreAssumption DEF Accept, Accepted, Idle
<1>20. ASSUME NEW k \in Kernels, Interrupt(k) PROVE LockInv'
  BY <1>20, StoreAssumption DEF Interrupt, Leave, Idle, AtRest
<1>21. ASSUME NEW k \in Kernels, Poisoned(k) PROVE LockInv'
  BY <1>21, StoreAssumption DEF Poisoned, Restart, Leave, Idle
<1>22. ASSUME NEW k \in Kernels, Kill(k) PROVE LockInv'
  BY <1>22, StoreAssumption DEF Kill, Restart, Leave, Idle
<1>23. ASSUME NEW k \in Kernels, OpenTemporary(k) PROVE LockInv'
  BY <1>23 DEF OpenTemporary, Goto
<1>24. QED
  BY <1>0, <1>1, <1>2, <1>3, <1>4, <1>5, <1>6, <1>7, <1>8, <1>9, <1>10, <1>11, <1>12,
     <1>13, <1>14, <1>15, <1>16, <1>17, <1>18, <1>19, <1>20, <1>21, <1>22, <1>23 DEF Next, Step

LEMMA StepType == TypeInv /\ [Next]_vars => TypeOK'
<1> SUFFICES ASSUME TypeInv, [Next]_vars PROVE TypeOK'
  OBVIOUS
<1> USE DEF TypeInv, TypeOK, Locked, disk, kernel, history
<1>0. CASE UNCHANGED vars
  BY <1>0 DEF vars
<1>1. ASSUME NEW k \in Kernels, Cell(k) PROVE TypeOK'
  BY <1>1 DEF Cell, AtRest, Eligible
<1>2. ASSUME NEW k \in Kernels, NEW i \in Ids, SaveCall(k, i) PROVE TypeOK'
  BY <1>2, EmptyBranch DEF SaveCall, AtRest, Idle
<1>3. ASSUME NEW k \in Kernels, SaveLock(k) PROVE TypeOK'
  <2>1. op[k] \in Ops
    BY DEF Ops, Phases
  <2>2. [op[k] EXCEPT !.phase = "pickle", !.todo = ns[k]] \in Ops
    BY <1>3, <2>1 DEF Ops, Phases, SaveLock
  <2>3. op' = [op EXCEPT ![k] = [op[k] EXCEPT !.phase = "pickle", !.todo = ns[k]]]
    BY <1>3, StoreAssumption DEF SaveLock
  <2>4. op' \in [Kernels -> Ops]
    BY <2>2, <2>3 DEF Ops, Phases
  <2>9. QED BY <1>3, <2>4 DEF SaveLock, Ops, Phases
<1>4. ASSUME NEW k \in Kernels, NEW v \in Values, PickleValue(k, v) PROVE TypeOK'
  <2>1. op[k] \in Ops
    BY DEF Ops, Phases
  <2>2. [op[k] EXCEPT !.phase = "pickle", !.todo = @ \ {v}, !.kept = @ \cup {v}] \in Ops
    BY <1>4, <2>1 DEF Ops, Phases, PickleValue
  <2>3. op' = [op EXCEPT ![k] = [op[k] EXCEPT !.phase = "pickle", !.todo = @ \ {v}, !.kept = @ \cup {v}]]
    BY <1>4 DEF PickleValue
  <2>4. op' \in [Kernels -> Ops]
    BY <2>2, <2>3 DEF Ops, Phases
  <2>9. QED BY <1>4, <2>4 DEF PickleValue, Ops, Phases
<1>5. ASSUME NEW k \in Kernels, NEW v \in Values, SkipValue(k, v) PROVE TypeOK'
  <2>1. op[k] \in Ops
    BY DEF Ops, Phases
  <2>2. [op[k] EXCEPT !.phase = "pickle", !.todo = @ \ {v}, !.skipped = @ \cup {v}] \in Ops
    BY <1>5, <2>1 DEF Ops, Phases, SkipValue
  <2>3. op' = [op EXCEPT ![k] = [op[k] EXCEPT !.phase = "pickle", !.todo = @ \ {v}, !.skipped = @ \cup {v}]]
    BY <1>5 DEF SkipValue
  <2>4. op' \in [Kernels -> Ops]
    BY <2>2, <2>3 DEF Ops, Phases
  <2>9. QED BY <1>5, <2>4 DEF SkipValue, Ops, Phases
<1>6. ASSUME NEW k \in Kernels, WriteManifest(k) PROVE TypeOK'
  <2>1. op[k] \in Ops
    BY DEF Ops, Phases
  <2>2. [op[k] EXCEPT !.phase = "evict"] \in Ops
    BY <1>6, <2>1 DEF Ops, Phases, WriteManifest, Goto
  <2>3. op' = [op EXCEPT ![k] = [op[k] EXCEPT !.phase = "evict"]]
    BY <1>6 DEF WriteManifest, Goto
  <2>4. op' \in [Kernels -> Ops]
    BY <2>2, <2>3 DEF Ops, Phases
  <2>5. op[k].id \in Ids
    BY <1>6 DEF WriteManifest, OpInv
  <2>6. manifests' \in [Ids -> [values : SUBSET Values, skipped : SUBSET Values, present : BOOLEAN]]
    BY <1>6, <2>1, <2>5 DEF WriteManifest, Ops
  <2>7. before' \subseteq Ids \X Ids /\ uses' \subseteq Ids \X Ids
    BY <1>6, <2>5, TouchedType, PresentType DEF WriteManifest
  <2>9. QED BY <1>6, <2>4, <2>6, <2>7 DEF WriteManifest, Ops, Phases
<1>7. ASSUME NEW k \in Kernels, NEW i \in Ids, Evict(k, i) PROVE TypeOK'
  BY <1>7, TouchedType DEF Evict, NoManifest
<1>8. ASSUME NEW k \in Kernels, BeginSweep(k) PROVE TypeOK'
  <2>1. op[k] \in Ops
    BY DEF Ops, Phases
  <2>2. [op[k] EXCEPT !.phase = "sweep"] \in Ops
    BY <2>1 DEF Ops, Phases
  <2>3. op' = [op EXCEPT ![k] = [op[k] EXCEPT !.phase = "sweep"]]
    BY <1>8 DEF BeginSweep, Goto
  <2>4. op' \in [Kernels -> Ops]
    BY <2>2, <2>3 DEF Ops, Phases
  <2>9. QED BY <1>8, <2>4 DEF BeginSweep, Ops, Phases
<1>9. ASSUME NEW k \in Kernels, NEW v \in Values, Sweep(k, v) PROVE TypeOK'
  BY <1>9 DEF Sweep
<1>10. ASSUME NEW k \in Kernels, SaveDone(k) PROVE TypeOK'
  BY <1>10, EmptyBranch DEF SaveDone, Leave, Idle
<1>11. ASSUME NEW k \in Kernels, NEW b \in Branches, RestoreCall(k, b) PROVE TypeOK'
  BY <1>11 DEF RestoreCall, AtRest, Idle
<1>12. ASSUME NEW k \in Kernels, RestoreLock(k) PROVE TypeOK'
  <2>1. op[k] \in Ops
    BY DEF Ops, Phases
  <2>2. PICK rec \in Ops : op' = [op EXCEPT ![k] = rec]
    <3>1. CASE marker = NoValue
      <4>1. [op[k] EXCEPT !.phase = "select"] \in Ops
        BY <2>1 DEF Ops, Phases
      <4>2. QED BY <1>12, <3>1, <4>1 DEF RestoreLock
    <3>2. CASE marker # NoValue
      <4>1. [op[k] EXCEPT !.phase = "crashed", !.todo = {marker}] \in Ops
        BY <2>1, <3>2 DEF Ops, Phases
      <4>2. QED BY <1>12, <3>2, <4>1 DEF RestoreLock
    <3>3. QED BY <3>1, <3>2
  <2>4. op' \in [Kernels -> Ops]
    BY <2>2 DEF Ops, Phases
  <2>9. QED BY <1>12, <2>4 DEF RestoreLock, Ops, Phases
<1>13. ASSUME NEW k \in Kernels, DropCrashed(k) PROVE TypeOK'
  <2>1. op[k] \in Ops
    BY DEF Ops, Phases
  <2>2. [op[k] EXCEPT !.phase = "select", !.todo = {}] \in Ops
    BY <1>13, <2>1 DEF Ops, Phases, DropCrashed
  <2>3. op' = [op EXCEPT ![k] = [op[k] EXCEPT !.phase = "select", !.todo = {}]]
    BY <1>13 DEF DropCrashed
  <2>4. op' \in [Kernels -> Ops]
    BY <2>2, <2>3 DEF Ops, Phases
  <2>9. QED BY <1>13, <2>4 DEF DropCrashed, Ops, Phases
<1>14. ASSUME NEW k \in Kernels, Select(k) PROVE TypeOK'
  <2> DEFINE b == op[k].cands
             found == {n \in DOMAIN b : b[n] \in Present}
  <2>1. op[k] \in Ops /\ b \in Branches /\ Idle \in Ops
    BY EmptyBranch DEF Ops, Phases, Idle
  <2>2. CASE found = {}
    <3>1. /\ op' = [op EXCEPT ![k] = Idle] /\ lock' = IF lock = k THEN NoKernel ELSE lock
          /\ held' = [held EXCEPT ![k] = Nearest(b)] /\ ns' = [ns EXCEPT ![k] = {}]
          /\ UNCHANGED <<blobs, manifests, leftovers, before, marker, baseline, history>>
      BY <1>14, <2>2 DEF Select, Leave, history
    <3>2. held' \in [Kernels -> Ids \cup {NoId, Partial}]
      BY <2>1, <3>1, BranchType
    <3>3. op' \in [Kernels -> Ops]
      BY <2>1, <3>1 DEF Ops, Phases
    <3>4. QED BY <3>1, <3>2, <3>3 DEF Ops, Phases, history
  <2>3. CASE found # {}
    <3>1. PICK n \in found : /\ held' = [held EXCEPT ![k] = Clearing(b)]
                             /\ before' = Restored(before, b[n])
                             /\ uses' = Touched(uses, Present, b[n])
                             /\ op' = [op EXCEPT ![k].phase = "load", ![k].id = b[n],
                                                 ![k].todo = Eligible(k, manifests[b[n]].values),
                                                 ![k].skipped = manifests[b[n]].skipped]
                             /\ UNCHANGED lock
      BY <1>14, <2>3 DEF Select
    <3>2. b[n] \in Ids
      BY <2>1, BranchType
    <3>3. before' \subseteq Ids \X Ids /\ uses' \subseteq Ids \X Ids
      BY <3>1, <3>2, TouchedType, PresentType DEF Restored
    <3>4. held' \in [Kernels -> Ids \cup {NoId, Partial}]
      BY <3>1 DEF Clearing
    <3>5. [op[k] EXCEPT !.phase = "load", !.id = b[n], !.todo = Eligible(k, manifests[b[n]].values),
                        !.skipped = manifests[b[n]].skipped] \in Ops
      BY <2>1, <3>2 DEF Ops, Phases, Eligible
    <3>6. op' \in [Kernels -> Ops]
      <4>1. op' = [op EXCEPT ![k] = [op[k] EXCEPT !.phase = "load", !.id = b[n],
                                        !.todo = Eligible(k, manifests[b[n]].values),
                                        !.skipped = manifests[b[n]].skipped]]
        BY <3>1
      <4>2. QED BY <3>5, <4>1 DEF Ops, Phases
    <3>7. QED BY <1>14, <3>1, <3>3, <3>4, <3>6 DEF Select, Ops, Phases
  <2>4. QED BY <2>2, <2>3
<1>15. ASSUME NEW k \in Kernels, NEW v \in Values, MarkLoading(k, v) PROVE TypeOK'
  BY <1>15 DEF MarkLoading
<1>16. ASSUME NEW k \in Kernels, NEW v \in Values, SkipMissing(k, v) PROVE TypeOK'
  <2>1. op[k] \in Ops
    BY DEF Ops, Phases
  <2>2. [op[k] EXCEPT !.todo = @ \ {v}, !.skipped = @ \cup {v}] \in Ops
    BY <1>16, <2>1 DEF Ops, Phases, SkipMissing, NotFound
  <2>3. op' = [op EXCEPT ![k] = [op[k] EXCEPT !.todo = @ \ {v}, !.skipped = @ \cup {v}]]
    BY <1>16 DEF SkipMissing, NotFound
  <2>4. op' \in [Kernels -> Ops]
    BY <2>2, <2>3 DEF Ops, Phases
  <2>9. QED BY <1>16, <2>4 DEF SkipMissing, Ops, Phases
<1>17. ASSUME NEW k \in Kernels, Loaded(k) PROVE TypeOK'
  <2>1. op[k] \in Ops /\ marker \in Values
    BY <1>17 DEF Ops, Phases, Loaded, OpInv
  <2>2. /\ [op[k] EXCEPT !.phase = "load"] \in Ops
        /\ [op[k] EXCEPT !.phase = "load", !.skipped = @ \cup {marker}] \in Ops
    BY <2>1 DEF Ops, Phases
  <2>3. CASE ns' = [ns EXCEPT ![k] = @ \cup {marker}] /\ Goto(k, "load")
    <3>1. op' \in [Kernels -> Ops]
      BY <2>2, <2>3 DEF Goto, Ops, Phases
    <3>2. ns' \in [Kernels -> SUBSET Values]
      BY <2>1, <2>3
    <3>3. QED BY <1>17, <3>1, <3>2 DEF Loaded, Ops, Phases
  <2>4. CASE /\ op' = [op EXCEPT ![k].phase = "load", ![k].skipped = @ \cup {marker}]
             /\ UNCHANGED ns
    <3>1. op' \in [Kernels -> Ops]
      BY <2>2, <2>4 DEF Ops, Phases
    <3>2. QED BY <1>17, <2>4, <3>1 DEF Loaded, Ops, Phases
  <2>5. QED BY <1>17, <2>3, <2>4 DEF Loaded
<1>18. ASSUME NEW k \in Kernels, RestoreDone(k) PROVE TypeOK'
  BY <1>18, BranchType, EmptyBranch DEF RestoreDone, Leave, Idle
<1>19. ASSUME NEW k \in Kernels, Accept(k) PROVE TypeOK'
  BY <1>19, BranchType, EmptyBranch DEF Accept, Accepted, Idle
<1>20. ASSUME NEW k \in Kernels, Interrupt(k) PROVE TypeOK'
  BY <1>20, EmptyBranch DEF Interrupt, Leave, Idle, AtRest
<1>21. ASSUME NEW k \in Kernels, Poisoned(k) PROVE TypeOK'
  BY <1>21, EmptyBranch DEF Poisoned, Restart, Leave, Idle
<1>22. ASSUME NEW k \in Kernels, Kill(k) PROVE TypeOK'
  BY <1>22, EmptyBranch, StoreAssumption DEF LeftInv, Kill, Restart, Leave, Idle
<1>23. ASSUME NEW k \in Kernels, OpenTemporary(k) PROVE TypeOK'
  <2>1. op' = [op EXCEPT ![k] = [op[k] EXCEPT !.phase = "write"]]
    BY <1>23 DEF OpenTemporary, Goto
  <2>2. op[k] \in Ops
    BY DEF Ops, Phases
  <2>3. [op[k] EXCEPT !.phase = "write"] \in Ops
    BY <2>2 DEF Ops, Phases, Locked
  <2>4. op' \in [Kernels -> Ops]
    BY <2>1, <2>3 DEF Ops, Phases
  <2>5. QED BY <1>23, <2>4 DEF OpenTemporary, Ops, Phases
<1>24. QED
  BY <1>0, <1>1, <1>2, <1>3, <1>4, <1>5, <1>6, <1>7, <1>8, <1>9, <1>10, <1>11, <1>12,
     <1>13, <1>14, <1>15, <1>16, <1>17, <1>18, <1>19, <1>20, <1>21, <1>22, <1>23 DEF Next, Step

LEMMA StepOp == TypeInv /\ [Next]_vars => OpInv'
<1> SUFFICES ASSUME TypeInv, [Next]_vars PROVE OpInv'
  OBVIOUS
<1> USE DEF TypeInv, TypeOK, LockInv, OpInv, Locked, disk, kernel, history
<1>0. CASE UNCHANGED vars
  BY <1>0 DEF vars
<1>1. ASSUME NEW k \in Kernels, Cell(k) PROVE OpInv'
  BY <1>1 DEF Cell, AtRest
<1>2. ASSUME NEW k \in Kernels, NEW i \in Ids, SaveCall(k, i) PROVE OpInv'
  BY <1>2 DEF SaveCall, AtRest, Idle
<1>3. ASSUME NEW k \in Kernels, SaveLock(k) PROVE OpInv'
  BY <1>3, StoreAssumption DEF SaveLock
<1>4. ASSUME NEW k \in Kernels, NEW v \in Values, PickleValue(k, v) PROVE OpInv'
  BY <1>4 DEF PickleValue
<1>5. ASSUME NEW k \in Kernels, NEW v \in Values, SkipValue(k, v) PROVE OpInv'
  BY <1>5 DEF SkipValue
<1>6. ASSUME NEW k \in Kernels, WriteManifest(k) PROVE OpInv'
  BY <1>6 DEF WriteManifest, Goto
<1>7. ASSUME NEW k \in Kernels, NEW i \in Ids, Evict(k, i) PROVE OpInv'
  BY <1>7 DEF Evict, NoManifest
<1>8. ASSUME NEW k \in Kernels, BeginSweep(k) PROVE OpInv'
  BY <1>8 DEF BeginSweep, Goto
<1>9. ASSUME NEW k \in Kernels, NEW v \in Values, Sweep(k, v) PROVE OpInv'
  BY <1>9 DEF Sweep
<1>10. ASSUME NEW k \in Kernels, SaveDone(k) PROVE OpInv'
  BY <1>10 DEF SaveDone, Leave, Idle
<1>11. ASSUME NEW k \in Kernels, NEW b \in Branches, RestoreCall(k, b) PROVE OpInv'
  BY <1>11 DEF RestoreCall, AtRest, Idle
<1>12. ASSUME NEW k \in Kernels, RestoreLock(k) PROVE OpInv'
  BY <1>12, StoreAssumption DEF RestoreLock
<1>13. ASSUME NEW k \in Kernels, DropCrashed(k) PROVE OpInv'
  BY <1>13 DEF DropCrashed
<1>14. ASSUME NEW k \in Kernels, Select(k) PROVE OpInv'
  <2>1. op[k].phase = "select" /\ marker' = marker /\ \A j \in Kernels \ {k} : op'[j] = op[j]
    BY <1>14, SelectEnds
  <2>2. \/ op'[k].phase = "idle" /\ lock' = (IF lock = k THEN NoKernel ELSE lock)
        \/ op'[k].phase = "load" /\ lock' = lock
    BY <1>14, SelectEnds DEF Idle
  <2>3. QED BY <2>1, <2>2, StoreAssumption
<1>15. ASSUME NEW k \in Kernels, NEW v \in Values, MarkLoading(k, v) PROVE OpInv'
  BY <1>15 DEF MarkLoading
<1>16. ASSUME NEW k \in Kernels, NEW v \in Values, SkipMissing(k, v) PROVE OpInv'
  BY <1>16 DEF SkipMissing, NotFound
<1>17. ASSUME NEW k \in Kernels, Loaded(k) PROVE OpInv'
  BY <1>17 DEF Loaded, Goto
<1>18. ASSUME NEW k \in Kernels, RestoreDone(k) PROVE OpInv'
  BY <1>18 DEF RestoreDone, Leave, Idle
<1>19. ASSUME NEW k \in Kernels, Accept(k) PROVE OpInv'
  BY <1>19 DEF Accept, Accepted, Idle
<1>20. ASSUME NEW k \in Kernels, Interrupt(k) PROVE OpInv'
  BY <1>20 DEF Interrupt, Leave, Idle, AtRest
<1>21. ASSUME NEW k \in Kernels, Poisoned(k) PROVE OpInv'
  BY <1>21 DEF Poisoned, Restart, Leave, Idle
<1>22. ASSUME NEW k \in Kernels, Kill(k) PROVE OpInv'
  BY <1>22 DEF Kill, Restart, Leave, Idle
<1>23. ASSUME NEW k \in Kernels, OpenTemporary(k) PROVE OpInv'
  BY <1>23 DEF OpenTemporary, Goto
<1>24. QED
  BY <1>0, <1>1, <1>2, <1>3, <1>4, <1>5, <1>6, <1>7, <1>8, <1>9, <1>10, <1>11, <1>12,
     <1>13, <1>14, <1>15, <1>16, <1>17, <1>18, <1>19, <1>20, <1>21, <1>22, <1>23 DEF Next, Step

LEMMA StepKept == TypeInv /\ KeptInv /\ [Next]_vars => KeptInv'
<1> SUFFICES ASSUME TypeInv /\ KeptInv, [Next]_vars PROVE KeptInv'
  OBVIOUS
<1> USE DEF TypeInv, TypeOK, LockInv, OpInv, KeptInv, Locked, disk, kernel, history
<1>0. CASE UNCHANGED vars
  BY <1>0 DEF vars
<1>1. ASSUME NEW k \in Kernels, Cell(k) PROVE KeptInv'
  BY <1>1 DEF Cell, AtRest
<1>2. ASSUME NEW k \in Kernels, NEW i \in Ids, SaveCall(k, i) PROVE KeptInv'
  BY <1>2 DEF SaveCall, AtRest, Idle
<1>3. ASSUME NEW k \in Kernels, SaveLock(k) PROVE KeptInv'
  BY <1>3 DEF SaveLock
<1>4. ASSUME NEW k \in Kernels, NEW v \in Values, PickleValue(k, v) PROVE KeptInv'
  BY <1>4 DEF PickleValue
<1>5. ASSUME NEW k \in Kernels, NEW v \in Values, SkipValue(k, v) PROVE KeptInv'
  BY <1>5 DEF SkipValue
<1>6. ASSUME NEW k \in Kernels, WriteManifest(k) PROVE KeptInv'
  BY <1>6 DEF WriteManifest, Goto
<1>7. ASSUME NEW k \in Kernels, NEW i \in Ids, Evict(k, i) PROVE KeptInv'
  BY <1>7 DEF Evict, NoManifest
<1>8. ASSUME NEW k \in Kernels, BeginSweep(k) PROVE KeptInv'
  BY <1>8 DEF BeginSweep, Goto
<1>9. ASSUME NEW k \in Kernels, NEW v \in Values, Sweep(k, v) PROVE KeptInv'
  BY <1>9 DEF Sweep
<1>10. ASSUME NEW k \in Kernels, SaveDone(k) PROVE KeptInv'
  BY <1>10 DEF SaveDone, Leave, Idle
<1>11. ASSUME NEW k \in Kernels, NEW b \in Branches, RestoreCall(k, b) PROVE KeptInv'
  BY <1>11 DEF RestoreCall, AtRest, Idle
<1>12. ASSUME NEW k \in Kernels, RestoreLock(k) PROVE KeptInv'
  BY <1>12, StoreAssumption DEF RestoreLock
<1>13. ASSUME NEW k \in Kernels, DropCrashed(k) PROVE KeptInv'
  BY <1>13 DEF DropCrashed
<1>14. ASSUME NEW k \in Kernels, Select(k) PROVE KeptInv'
  <2>1. /\ blobs' = blobs /\ manifests' = manifests /\ condemned' = condemned
        /\ \A j \in Kernels \ {k} : op'[j] = op[j]
        /\ op'[k].phase \in {"idle", "load"}
    BY <1>14, SelectEnds DEF Idle
  <2>2. QED BY <2>1
<1>15. ASSUME NEW k \in Kernels, NEW v \in Values, MarkLoading(k, v) PROVE KeptInv'
  BY <1>15 DEF MarkLoading
<1>16. ASSUME NEW k \in Kernels, NEW v \in Values, SkipMissing(k, v) PROVE KeptInv'
  BY <1>16 DEF SkipMissing, NotFound
<1>17. ASSUME NEW k \in Kernels, Loaded(k) PROVE KeptInv'
  <2>1. /\ blobs' = blobs /\ op'[k].phase = "load"
        /\ \A j \in Kernels \ {k} : op'[j] = op[j]
    BY <1>17, LoadedEnds
  <2>2. QED BY <2>1
<1>18. ASSUME NEW k \in Kernels, RestoreDone(k) PROVE KeptInv'
  BY <1>18 DEF RestoreDone, Leave, Idle
<1>19. ASSUME NEW k \in Kernels, Accept(k) PROVE KeptInv'
  BY <1>19 DEF Accept, Accepted, Idle
<1>20. ASSUME NEW k \in Kernels, Interrupt(k) PROVE KeptInv'
  BY <1>20 DEF Interrupt, Leave, Idle, AtRest
<1>21. ASSUME NEW k \in Kernels, Poisoned(k) PROVE KeptInv'
  BY <1>21 DEF Poisoned, Restart, Leave, Idle
<1>22. ASSUME NEW k \in Kernels, Kill(k) PROVE KeptInv'
  BY <1>22 DEF Kill, Restart, Leave, Idle
<1>23. ASSUME NEW k \in Kernels, OpenTemporary(k) PROVE KeptInv'
  BY <1>23 DEF OpenTemporary, Goto
<1>24. QED
  BY <1>0, <1>1, <1>2, <1>3, <1>4, <1>5, <1>6, <1>7, <1>8, <1>9, <1>10, <1>11, <1>12,
     <1>13, <1>14, <1>15, <1>16, <1>17, <1>18, <1>19, <1>20, <1>21, <1>22, <1>23 DEF Next, Step

LEMMA StepBlobs == TypeInv /\ KeptInv /\ BlobsKept /\ [Next]_vars => BlobsKept'
<1> SUFFICES ASSUME TypeInv /\ KeptInv /\ BlobsKept, [Next]_vars PROVE BlobsKept'
  OBVIOUS
<1> USE DEF TypeInv, TypeOK, KeptInv, BlobsKept, Present, disk, kernel, history
<1>0. CASE UNCHANGED vars
  BY <1>0 DEF vars
<1>1. ASSUME NEW k \in Kernels, Cell(k) PROVE BlobsKept'
  BY <1>1 DEF Cell, AtRest
<1>2. ASSUME NEW k \in Kernels, NEW i \in Ids, SaveCall(k, i) PROVE BlobsKept'
  BY <1>2 DEF SaveCall, AtRest, Idle
<1>3. ASSUME NEW k \in Kernels, SaveLock(k) PROVE BlobsKept'
  BY <1>3 DEF SaveLock
<1>4. ASSUME NEW k \in Kernels, NEW v \in Values, PickleValue(k, v) PROVE BlobsKept'
  BY <1>4 DEF PickleValue
<1>5. ASSUME NEW k \in Kernels, NEW v \in Values, SkipValue(k, v) PROVE BlobsKept'
  BY <1>5 DEF SkipValue
<1>6. ASSUME NEW k \in Kernels, WriteManifest(k) PROVE BlobsKept'
  BY <1>6 DEF WriteManifest, Goto
<1>7. ASSUME NEW k \in Kernels, NEW i \in Ids, Evict(k, i) PROVE BlobsKept'
  BY <1>7 DEF Evict, NoManifest
<1>8. ASSUME NEW k \in Kernels, BeginSweep(k) PROVE BlobsKept'
  BY <1>8 DEF BeginSweep, Goto
<1>9. ASSUME NEW k \in Kernels, NEW v \in Values, Sweep(k, v) PROVE BlobsKept'
  BY <1>9 DEF Sweep, Unreferenced, Refs
<1>10. ASSUME NEW k \in Kernels, SaveDone(k) PROVE BlobsKept'
  BY <1>10 DEF SaveDone, Leave, Idle
<1>11. ASSUME NEW k \in Kernels, NEW b \in Branches, RestoreCall(k, b) PROVE BlobsKept'
  BY <1>11 DEF RestoreCall, AtRest, Idle
<1>12. ASSUME NEW k \in Kernels, RestoreLock(k) PROVE BlobsKept'
  BY <1>12 DEF RestoreLock
<1>13. ASSUME NEW k \in Kernels, DropCrashed(k) PROVE BlobsKept'
  BY <1>13 DEF DropCrashed
<1>14. ASSUME NEW k \in Kernels, Select(k) PROVE BlobsKept'
  <2>1. blobs' = blobs /\ manifests' = manifests /\ condemned' = condemned
    BY <1>14, SelectEnds
  <2>2. QED BY <2>1
<1>15. ASSUME NEW k \in Kernels, NEW v \in Values, MarkLoading(k, v) PROVE BlobsKept'
  BY <1>15 DEF MarkLoading
<1>16. ASSUME NEW k \in Kernels, NEW v \in Values, SkipMissing(k, v) PROVE BlobsKept'
  BY <1>16 DEF SkipMissing, NotFound
<1>17. ASSUME NEW k \in Kernels, Loaded(k) PROVE BlobsKept'
  BY <1>17 DEF Loaded, Goto
<1>18. ASSUME NEW k \in Kernels, RestoreDone(k) PROVE BlobsKept'
  BY <1>18 DEF RestoreDone, Leave, Idle
<1>19. ASSUME NEW k \in Kernels, Accept(k) PROVE BlobsKept'
  BY <1>19 DEF Accept, Accepted, Idle
<1>20. ASSUME NEW k \in Kernels, Interrupt(k) PROVE BlobsKept'
  BY <1>20 DEF Interrupt, Leave, Idle, AtRest
<1>21. ASSUME NEW k \in Kernels, Poisoned(k) PROVE BlobsKept'
  BY <1>21 DEF Poisoned, Restart, Leave, Idle
<1>22. ASSUME NEW k \in Kernels, Kill(k) PROVE BlobsKept'
  BY <1>22 DEF Kill, Restart, Leave, Idle
<1>23. ASSUME NEW k \in Kernels, OpenTemporary(k) PROVE BlobsKept'
  BY <1>23 DEF OpenTemporary, Goto
<1>24. QED
  BY <1>0, <1>1, <1>2, <1>3, <1>4, <1>5, <1>6, <1>7, <1>8, <1>9, <1>10, <1>11, <1>12,
     <1>13, <1>14, <1>15, <1>16, <1>17, <1>18, <1>19, <1>20, <1>21, <1>22, <1>23 DEF Next, Step

LEMMA StepHeld == TypeInv /\ HeldInv /\ [Next]_vars => HeldInv'
<1> SUFFICES ASSUME TypeInv /\ HeldInv, [Next]_vars PROVE HeldInv'
  OBVIOUS
<1> USE DEF TypeInv, TypeOK, OpInv, HeldInv, Restoring, Locked, disk, kernel, history, AtRest
<1>0. CASE UNCHANGED vars
  BY <1>0 DEF vars
<1>1. ASSUME NEW k \in Kernels, Cell(k) PROVE HeldInv'
  BY <1>1 DEF Cell, AtRest
<1>2. ASSUME NEW k \in Kernels, NEW i \in Ids, SaveCall(k, i) PROVE HeldInv'
  BY <1>2 DEF SaveCall, AtRest, Idle
<1>3. ASSUME NEW k \in Kernels, SaveLock(k) PROVE HeldInv'
  BY <1>3 DEF SaveLock
<1>4. ASSUME NEW k \in Kernels, NEW v \in Values, PickleValue(k, v) PROVE HeldInv'
  BY <1>4 DEF PickleValue
<1>5. ASSUME NEW k \in Kernels, NEW v \in Values, SkipValue(k, v) PROVE HeldInv'
  BY <1>5 DEF SkipValue
<1>6. ASSUME NEW k \in Kernels, WriteManifest(k) PROVE HeldInv'
  BY <1>6 DEF WriteManifest, Goto
<1>7. ASSUME NEW k \in Kernels, NEW i \in Ids, Evict(k, i) PROVE HeldInv'
  BY <1>7 DEF Evict, NoManifest
<1>8. ASSUME NEW k \in Kernels, BeginSweep(k) PROVE HeldInv'
  BY <1>8 DEF BeginSweep, Goto
<1>9. ASSUME NEW k \in Kernels, NEW v \in Values, Sweep(k, v) PROVE HeldInv'
  BY <1>9 DEF Sweep
<1>10. ASSUME NEW k \in Kernels, SaveDone(k) PROVE HeldInv'
  BY <1>10 DEF SaveDone, Leave, Idle
<1>11. ASSUME NEW k \in Kernels, NEW b \in Branches, RestoreCall(k, b) PROVE HeldInv'
  BY <1>11 DEF RestoreCall, AtRest, Idle
<1>12. ASSUME NEW k \in Kernels, RestoreLock(k) PROVE HeldInv'
  BY <1>12 DEF RestoreLock
<1>13. ASSUME NEW k \in Kernels, DropCrashed(k) PROVE HeldInv'
  BY <1>13 DEF DropCrashed
<1>14. ASSUME NEW k \in Kernels, Select(k) PROVE HeldInv'
  <2>1. /\ \A j \in Kernels \ {k} : op'[j] = op[j] /\ held'[j] = held[j]
        /\ \/ op'[k].phase = "idle"
           \/ op'[k].phase = "load" /\ held'[k] = Partial
    BY <1>14, SelectEnds DEF Idle
  <2>2. QED BY <2>1
<1>15. ASSUME NEW k \in Kernels, NEW v \in Values, MarkLoading(k, v) PROVE HeldInv'
  BY <1>15 DEF MarkLoading
<1>16. ASSUME NEW k \in Kernels, NEW v \in Values, SkipMissing(k, v) PROVE HeldInv'
  BY <1>16 DEF SkipMissing, NotFound
<1>17. ASSUME NEW k \in Kernels, Loaded(k) PROVE HeldInv'
  BY <1>17 DEF Loaded, Goto
<1>18. ASSUME NEW k \in Kernels, RestoreDone(k) PROVE HeldInv'
  BY <1>18 DEF RestoreDone, Leave, Idle
<1>19. ASSUME NEW k \in Kernels, Accept(k) PROVE HeldInv'
  BY <1>19 DEF Accept, Accepted, Idle
<1>20. ASSUME NEW k \in Kernels, Interrupt(k) PROVE HeldInv'
  <2>1. held' = held /\ \A j \in Kernels \ {k} : op'[j] = op[j]
    BY <1>20 DEF Interrupt, Leave
  <2>2. CASE op[k].cands # <<>> \/ op[k].phase \in {"restoreLock", "crashed", "select"}
    <3>1. op[k].phase \in Restoring
      BY <1>20, <2>2 DEF Interrupt
    <3>2. Nearest(op[k].cands) # Partial
      BY BranchType, StoreAssumption
    <3>3. held[k] # Nearest(op[k].cands)
      BY <3>1, <3>2
    <3>4. op'[k].phase = "failed" /\ op'[k].cands = op[k].cands
      BY <1>20, <2>2 DEF Interrupt, Leave, Idle
    <3>5. QED BY <2>1, <3>3, <3>4
  <2>3. CASE ~(op[k].cands # <<>> \/ op[k].phase \in {"restoreLock", "crashed", "select"})
    <3>1. op'[k].phase = "idle"
      BY <1>20, <2>3 DEF Interrupt, Leave, Idle
    <3>2. QED BY <2>1, <3>1
  <2>4. QED BY <2>2, <2>3
<1>21. ASSUME NEW k \in Kernels, Poisoned(k) PROVE HeldInv'
  BY <1>21 DEF Poisoned, Restart, Leave, Idle
<1>22. ASSUME NEW k \in Kernels, Kill(k) PROVE HeldInv'
  BY <1>22 DEF Kill, Restart, Leave, Idle
<1>23. ASSUME NEW k \in Kernels, OpenTemporary(k) PROVE HeldInv'
  BY <1>23 DEF OpenTemporary, Goto
<1>24. QED
  BY <1>0, <1>1, <1>2, <1>3, <1>4, <1>5, <1>6, <1>7, <1>8, <1>9, <1>10, <1>11, <1>12,
     <1>13, <1>14, <1>15, <1>16, <1>17, <1>18, <1>19, <1>20, <1>21, <1>22, <1>23 DEF Next, Step

\* A step that starts no save, stores nothing and finds no marker.
LEMMA FreshKept ==
  ASSUME FreshInv, manifests' = manifests, issued' = issued,
         \A j \in Kernels :
           op'[j].phase \in {"saveLock", "pickle", "write", "crashed"} => op'[j] = op[j]
  PROVE  FreshInv'
<1>1. Present' = Present
  BY DEF Present
<1>2. QED BY <1>1 DEF FreshInv

LEMMA StepFresh == TypeInv /\ FreshInv /\ [Next]_vars => FreshInv'
<1> SUFFICES ASSUME TypeInv /\ FreshInv, [Next]_vars PROVE FreshInv'
  OBVIOUS
<1> USE DEF TypeInv, TypeOK, LockInv, OpInv, FreshInv, Present, Locked, disk, kernel, history
<1>0. CASE UNCHANGED vars
  BY <1>0 DEF vars
<1>1. ASSUME NEW k \in Kernels, Cell(k) PROVE FreshInv'
  BY <1>1 DEF Cell, AtRest
<1>2. ASSUME NEW k \in Kernels, NEW i \in Ids, SaveCall(k, i) PROVE FreshInv'
  BY <1>2 DEF SaveCall, AtRest, Idle
<1>3. ASSUME NEW k \in Kernels, SaveLock(k) PROVE FreshInv'
  BY <1>3 DEF SaveLock
<1>4. ASSUME NEW k \in Kernels, NEW v \in Values, PickleValue(k, v) PROVE FreshInv'
  BY <1>4 DEF PickleValue
<1>5. ASSUME NEW k \in Kernels, NEW v \in Values, SkipValue(k, v) PROVE FreshInv'
  BY <1>5 DEF SkipValue
<1>6. ASSUME NEW k \in Kernels, WriteManifest(k) PROVE FreshInv'
  BY <1>6 DEF WriteManifest, Goto
<1>7. ASSUME NEW k \in Kernels, NEW i \in Ids, Evict(k, i) PROVE FreshInv'
  BY <1>7 DEF Evict, NoManifest
<1>8. ASSUME NEW k \in Kernels, BeginSweep(k) PROVE FreshInv'
  BY <1>8 DEF BeginSweep, Goto
<1>9. ASSUME NEW k \in Kernels, NEW v \in Values, Sweep(k, v) PROVE FreshInv'
  BY <1>9 DEF Sweep
<1>10. ASSUME NEW k \in Kernels, SaveDone(k) PROVE FreshInv'
  BY <1>10 DEF SaveDone, Leave, Idle
<1>11. ASSUME NEW k \in Kernels, NEW b \in Branches, RestoreCall(k, b) PROVE FreshInv'
  BY <1>11 DEF RestoreCall, AtRest, Idle
<1>12. ASSUME NEW k \in Kernels, RestoreLock(k) PROVE FreshInv'
  <2>1. manifests' = manifests /\ issued' = issued
    BY <1>12 DEF RestoreLock
  <2>2. CASE marker = NoValue
    <3>1. \A j \in Kernels :
            op'[j].phase \in {"saveLock", "pickle", "write", "crashed"} => op'[j] = op[j]
      BY <1>12, <2>2 DEF RestoreLock
    <3>2. QED BY <2>1, <3>1, FreshKept
  <2>3. CASE marker # NoValue
    <3>1. op'[k].phase = "crashed" /\ op'[k].todo = {marker} /\ marker \in Values
      BY <1>12, <2>3 DEF RestoreLock
    <3>2. \A j \in Kernels \ {k} : op'[j] = op[j]
      BY <1>12 DEF RestoreLock
    <3>3. \A j \in Kernels : op'[j].phase \in {"saveLock", "pickle", "write"} => j # k /\ op'[j] = op[j]
      BY <3>1, <3>2
    <3>4. \A j \in Kernels : op'[j].phase = "crashed" => \E v \in Values : op'[j].todo = {v}
      BY <3>1, <3>2
    <3>5. Present' = Present
      BY <2>1
    <3>6. \A j \in Kernels : op'[j].phase \in {"saveLock", "pickle", "write"} =>
            /\ op'[j].id \in issued' \ Present'
            /\ \A l \in Kernels \ {j} : op'[l].phase \in {"saveLock", "pickle", "write"} => op'[l].id # op'[j].id
      <4>1. \A j \in Kernels : op[j].phase \in {"saveLock", "pickle", "write"} =>
              /\ op[j].id \in issued \ Present
              /\ \A l \in Kernels \ {j} : op[l].phase \in {"saveLock", "pickle", "write"} => op[l].id # op[j].id
        OBVIOUS
      <4> HIDE DEF TypeInv, TypeOK, LockInv, OpInv, FreshInv, Present, Locked, disk, kernel, history
      <4>2. QED BY <2>1, <3>3, <3>5, <4>1
    <3>7. Present' \subseteq issued'
      BY <2>1, <3>5
    <3> HIDE DEF TypeInv, TypeOK, LockInv, OpInv, Present, Locked, disk, kernel, history
    <3>8. QED BY <3>4, <3>6, <3>7
  <2>4. QED BY <2>2, <2>3
<1>13. ASSUME NEW k \in Kernels, DropCrashed(k) PROVE FreshInv'
  BY <1>13 DEF DropCrashed
<1>14. ASSUME NEW k \in Kernels, Select(k) PROVE FreshInv'
  <2>1. /\ manifests' = manifests /\ \A j \in Kernels \ {k} : op'[j] = op[j]
        /\ op'[k].phase \in {"idle", "load"}
    BY <1>14, SelectEnds DEF Idle
  <2>2. issued' = issued
    BY <1>14 DEF Select
  <2>3. \A j \in Kernels :
          op'[j].phase \in {"saveLock", "pickle", "write", "crashed"} => op'[j] = op[j]
    BY <2>1
  <2>4. QED BY <2>1, <2>2, <2>3, FreshKept
<1>15. ASSUME NEW k \in Kernels, NEW v \in Values, MarkLoading(k, v) PROVE FreshInv'
  BY <1>15 DEF MarkLoading
<1>16. ASSUME NEW k \in Kernels, NEW v \in Values, SkipMissing(k, v) PROVE FreshInv'
  BY <1>16 DEF SkipMissing, NotFound
<1>17. ASSUME NEW k \in Kernels, Loaded(k) PROVE FreshInv'
  <2>1. op'[k].phase = "load" /\ \A j \in Kernels \ {k} : op'[j] = op[j]
    BY <1>17, LoadedEnds
  <2>2. manifests' = manifests /\ issued' = issued
    BY <1>17, LoadedEnds
  <2>3. \A j \in Kernels :
          op'[j].phase \in {"saveLock", "pickle", "write", "crashed"} => op'[j] = op[j]
    BY <2>1
  <2>4. QED BY <2>2, <2>3, FreshKept
<1>18. ASSUME NEW k \in Kernels, RestoreDone(k) PROVE FreshInv'
  BY <1>18 DEF RestoreDone, Leave, Idle
<1>19. ASSUME NEW k \in Kernels, Accept(k) PROVE FreshInv'
  BY <1>19 DEF Accept, Accepted, Idle
<1>20. ASSUME NEW k \in Kernels, Interrupt(k) PROVE FreshInv'
  BY <1>20 DEF Interrupt, Leave, Idle, AtRest
<1>21. ASSUME NEW k \in Kernels, Poisoned(k) PROVE FreshInv'
  BY <1>21 DEF Poisoned, Restart, Leave, Idle
<1>22. ASSUME NEW k \in Kernels, Kill(k) PROVE FreshInv'
  BY <1>22 DEF Kill, Restart, Leave, Idle
<1>23. ASSUME NEW k \in Kernels, OpenTemporary(k) PROVE FreshInv'
  BY <1>23 DEF OpenTemporary, Goto
<1>24. QED
  BY <1>0, <1>1, <1>2, <1>3, <1>4, <1>5, <1>6, <1>7, <1>8, <1>9, <1>10, <1>11, <1>12,
     <1>13, <1>14, <1>15, <1>16, <1>17, <1>18, <1>19, <1>20, <1>21, <1>22, <1>23 DEF Next, Step

\* A step that saves and stores nothing, and leaves each restore as it is or ends it.
LEMMA AccountKept ==
  ASSUME AccountInv, manifests' = manifests, content' = content, issued' = issued,
         \A j \in Kernels :
           op'[j].phase \in {"saveLock", "pickle", "write", "load", "loading"} =>
             /\ op'[j] = op[j] /\ ns'[j] = ns[j] /\ baseline'[j] = baseline[j]
             /\ op[j].phase = "loading" => marker' = marker
  PROVE  AccountInv'
<1>1. Present' = Present
  BY DEF Present
<1>2. QED BY <1>1 DEF AccountInv, SaveAccounts, ManifestsAccount, RestoreAccounts, Eligible

LEMMA StepAccount == TypeInv /\ FreshInv /\ AccountInv /\ [Next]_vars => AccountInv'
<1> SUFFICES ASSUME TypeInv /\ FreshInv /\ AccountInv, [Next]_vars PROVE AccountInv'
  OBVIOUS
<1> USE DEF Eligible, TypeInv, TypeOK, LockInv, OpInv, Locked, disk, kernel, history
<1>0. CASE UNCHANGED vars
  BY <1>0, AccountKept DEF vars
<1>1. ASSUME NEW k \in Kernels, Cell(k) PROVE AccountInv'
  BY <1>1, AccountKept DEF Cell, AtRest
<1>2. ASSUME NEW k \in Kernels, NEW i \in Ids, SaveCall(k, i) PROVE AccountInv'
  BY <1>2 DEF SaveCall, AtRest, Idle, FreshInv, AccountInv, SaveAccounts, ManifestsAccount, RestoreAccounts, Present
<1>3. ASSUME NEW k \in Kernels, SaveLock(k) PROVE AccountInv'
  BY <1>3 DEF SaveLock, AccountInv, SaveAccounts, ManifestsAccount, RestoreAccounts, Present
<1>4. ASSUME NEW k \in Kernels, NEW v \in Values, PickleValue(k, v) PROVE AccountInv'
  BY <1>4 DEF PickleValue, AccountInv, SaveAccounts, ManifestsAccount, RestoreAccounts, Present
<1>5. ASSUME NEW k \in Kernels, NEW v \in Values, SkipValue(k, v) PROVE AccountInv'
  BY <1>5 DEF SkipValue, AccountInv, SaveAccounts, ManifestsAccount, RestoreAccounts, Present
<1>6. ASSUME NEW k \in Kernels, WriteManifest(k) PROVE AccountInv'
  BY <1>6 DEF WriteManifest, Goto, AccountInv, SaveAccounts, ManifestsAccount, RestoreAccounts, Present
<1>7. ASSUME NEW k \in Kernels, NEW i \in Ids, Evict(k, i) PROVE AccountInv'
  BY <1>7 DEF Evict, NoManifest, AccountInv, SaveAccounts, ManifestsAccount, RestoreAccounts, Present
<1>8. ASSUME NEW k \in Kernels, BeginSweep(k) PROVE AccountInv'
  BY <1>8, AccountKept DEF BeginSweep, Goto
<1>9. ASSUME NEW k \in Kernels, NEW v \in Values, Sweep(k, v) PROVE AccountInv'
  BY <1>9, AccountKept DEF Sweep
<1>10. ASSUME NEW k \in Kernels, SaveDone(k) PROVE AccountInv'
  BY <1>10, AccountKept DEF SaveDone, Leave, Idle
<1>11. ASSUME NEW k \in Kernels, NEW b \in Branches, RestoreCall(k, b) PROVE AccountInv'
  BY <1>11, AccountKept DEF RestoreCall, AtRest, Idle
<1>12. ASSUME NEW k \in Kernels, RestoreLock(k) PROVE AccountInv'
  <2>1. \A j \in Kernels : op[j].phase \notin {"load", "loading"}
    BY <1>12, StoreAssumption DEF RestoreLock
  <2>2. \A j \in Kernels : op'[j] = op[j] \/ op'[j].phase \in {"select", "crashed"}
    BY <1>12 DEF RestoreLock
  <2>3. QED BY <1>12, <2>1, <2>2, AccountKept DEF RestoreLock
<1>13. ASSUME NEW k \in Kernels, DropCrashed(k) PROVE AccountInv'
  BY <1>13, AccountKept DEF DropCrashed
<1>14. ASSUME NEW k \in Kernels, Select(k) PROVE AccountInv'
  <2> DEFINE b == op[k].cands
             found == {n \in DOMAIN b : b[n] \in Present}
  <2>1. /\ manifests' = manifests /\ content' = content /\ issued' = issued /\ marker' = marker
        /\ ns' = [ns EXCEPT ![k] = {}]
    BY <1>14, Zenon DEF Select
  <2>2. CASE found = {}
    BY <1>14, <2>1, <2>2, AccountKept DEF Select, Leave, Idle
  <2>3. CASE found # {}
    <3>1. PICK n \in found : op' = [op EXCEPT ![k].phase = "load", ![k].id = b[n],
                                             ![k].todo = Eligible(k, manifests[b[n]].values),
                                             ![k].skipped = manifests[b[n]].skipped]
      BY <1>14, <2>3 DEF Select
    <3>2. /\ op'[k].phase = "load" /\ op'[k].id = b[n] /\ op'[k].todo = Eligible(k, manifests[b[n]].values)
          /\ op'[k].skipped = manifests[b[n]].skipped /\ ns'[k] = {}
          /\ \A j \in Kernels \ {k} : op'[j] = op[j] /\ ns'[j] = ns[j]
      BY <2>1, <3>1
    <3>3. b[n] \in issued /\ content[b[n]] = manifests[b[n]].values \cup manifests[b[n]].skipped
      BY <3>1 DEF FreshInv, AccountInv, ManifestsAccount
    <3>4. Present' = Present
      BY <2>1 DEF Present
    <3>5. SaveAccounts'
      BY <2>1, <3>2 DEF AccountInv, SaveAccounts
    <3>6. ManifestsAccount'
      BY <2>1, <3>2, <3>3, <3>4 DEF AccountInv, ManifestsAccount
    <3>7. baseline' = baseline
      BY <1>14 DEF Select
    <3>8. Eligible(k, content[op[k].id])'
            = Eligible(k, ns[k] \cup op[k].skipped \cup op[k].todo)'
      BY <2>1, <3>2, <3>3, <3>7
    <3>9. RestoreAccounts'
      BY <2>1, <3>2, <3>7, <3>8 DEF AccountInv, RestoreAccounts
    <3>10. QED BY <3>5, <3>6, <3>9 DEF AccountInv
  <2>4. QED BY <2>2, <2>3
<1>15. ASSUME NEW k \in Kernels, NEW v \in Values, MarkLoading(k, v) PROVE AccountInv'
  BY <1>15 DEF MarkLoading, AccountInv, SaveAccounts, ManifestsAccount, RestoreAccounts, Present
<1>16. ASSUME NEW k \in Kernels, NEW v \in Values, SkipMissing(k, v) PROVE AccountInv'
  BY <1>16 DEF SkipMissing, NotFound, AccountInv, SaveAccounts, ManifestsAccount, RestoreAccounts, Present
<1>17. ASSUME NEW k \in Kernels, Loaded(k) PROVE AccountInv'
  <2>1. /\ manifests' = manifests /\ issued' = issued /\ op'[k].phase = "load"
        /\ \A j \in Kernels \ {k} : op'[j] = op[j] /\ op[j].phase \notin {"load", "loading"}
    BY <1>17, LoadedEnds DEF Loaded
  <2>2. content' = content /\ baseline' = baseline /\ \A j \in Kernels \ {k} : ns'[j] = ns[j]
    BY <1>17 DEF Loaded
  <2>3. /\ op[k].phase = "loading" /\ op'[k].id = op[k].id /\ op'[k].todo = op[k].todo
        /\ ns'[k] \cup op'[k].skipped = ns[k] \cup op[k].skipped \cup {marker}
    <3>1. CASE ns' = [ns EXCEPT ![k] = @ \cup {marker}] /\ Goto(k, "load")
      BY <1>17, <3>1 DEF Loaded, Goto
    <3>2. CASE op' = [op EXCEPT ![k].phase = "load", ![k].skipped = @ \cup {marker}] /\ UNCHANGED ns
      BY <1>17, <3>2 DEF Loaded
    <3>3. QED BY <1>17, <3>1, <3>2 DEF Loaded
  <2>4. Present' = Present
    BY <2>1 DEF Present
  <2>5. SaveAccounts'
    BY <2>1, <2>2 DEF AccountInv, SaveAccounts
  <2>6. ManifestsAccount'
    BY <2>1, <2>2, <2>3, <2>4 DEF AccountInv, ManifestsAccount
  <2>7. RestoreAccounts'
    BY <2>1, <2>2, <2>3 DEF AccountInv, RestoreAccounts
  <2>8. QED BY <2>5, <2>6, <2>7 DEF AccountInv
<1>18. ASSUME NEW k \in Kernels, RestoreDone(k) PROVE AccountInv'
  BY <1>18, AccountKept DEF RestoreDone, Leave, Idle
<1>19. ASSUME NEW k \in Kernels, Accept(k) PROVE AccountInv'
  BY <1>19, AccountKept DEF Accept, Accepted, Idle, AtRest
<1>20. ASSUME NEW k \in Kernels, Interrupt(k) PROVE AccountInv'
  BY <1>20, AccountKept DEF Interrupt, Leave, Idle, AtRest
<1>21. ASSUME NEW k \in Kernels, Poisoned(k) PROVE AccountInv'
  BY <1>21, AccountKept DEF Poisoned, Restart, Leave, Idle
<1>22. ASSUME NEW k \in Kernels, Kill(k) PROVE AccountInv'
  BY <1>22, AccountKept DEF Kill, Restart, Leave, Idle
<1>23. ASSUME NEW k \in Kernels, OpenTemporary(k) PROVE AccountInv'
  BY <1>23 DEF OpenTemporary, Goto, AccountInv, SaveAccounts, ManifestsAccount, RestoreAccounts, Present
<1>24. QED
  BY <1>0, <1>1, <1>2, <1>3, <1>4, <1>5, <1>6, <1>7, <1>8, <1>9, <1>10, <1>11, <1>12,
     <1>13, <1>14, <1>15, <1>16, <1>17, <1>18, <1>19, <1>20, <1>21, <1>22, <1>23 DEF Next, Step

LEMMA StepLeft == TypeInv /\ [Next]_vars => LeftInv'
<1> SUFFICES ASSUME TypeInv, [Next]_vars PROVE LeftInv'
  OBVIOUS
<1> USE DEF TypeInv, TypeOK, LeftInv
<1>1. CASE UNCHANGED vars
  BY <1>1 DEF vars, disk, history
<1>2. ASSUME NEW k \in Kernels, Poisoned(k) PROVE LeftInv'
  BY <1>2 DEF Poisoned, Restart
<1>3. ASSUME NEW k \in Kernels, Kill(k) PROVE LeftInv'
  BY <1>3, StoreAssumption DEF Kill, Restart
<1>4. ASSUME NEW k \in Kernels, Step(k), ~Poisoned(k), ~Kill(k) PROVE LeftInv'
  <2>1. leftovers' = leftovers /\ kills' = kills
    BY <1>4 DEF Step, disk, history, Cell, SaveCall, SaveLock, OpenTemporary, PickleValue, SkipValue,
         WriteManifest, Evict, BeginSweep, Sweep, SaveDone, RestoreCall, RestoreLock, DropCrashed,
         Select, MarkLoading, SkipMissing, Loaded, RestoreDone, Accept, Interrupt
  <2>2. QED BY <2>1
<1>5. QED BY <1>1, <1>2, <1>3, <1>4 DEF Next

LEMMA StepStore == StoreInv /\ [Next]_vars => StoreInv'
  BY StepLock, StepType, StepOp, StepKept, StepBlobs, StepHeld, StepFresh, StepAccount, StepLeft
  DEF StoreInv, TypeInv

\* Every variable keeps its type, with any number of kernels and checkpoints.
THEOREM TypeCorrect == Spec => []TypeOK
<1>1. StoreInv => TypeOK
  BY DEF StoreInv, TypeInv
<1>2. QED BY <1>1, InitStore, StepStore, PTL DEF Spec

\* Whatever is killed and when, and however the sessions interleave: a manifest
\* names only blobs that exist or that were deleted as the killers of a kernel.
THEOREM BlobsCorrect == Spec => []BlobsKept
<1>1. StoreInv => BlobsKept
  BY DEF StoreInv
<1>2. QED BY <1>1, InitStore, StepStore, PTL DEF Spec

\* A restore that was cut short never passes for done.
THEOREM CancelledCorrect == Spec => []CancelledRunsAgain
<1>1. StoreInv => CancelledRunsAgain
  BY DEF StoreInv, HeldInv, CancelledRunsAgain
<1>2. QED BY <1>1, InitStore, StepStore, PTL DEF Spec

\* No name of a saved namespace that is eligible in the kernel that restores it disappears in
\* silence between its save and its restore, whatever is evicted, deleted, killed or interrupted
\* in between, and whatever each kernel binds at its start.
THEOREM AccountsCorrect == Spec => []RestoreAccounts
<1>1. StoreInv => RestoreAccounts
  BY DEF StoreInv, AccountInv
<1>2. QED BY <1>1, InitStore, StepStore, PTL DEF Spec

\* No two operations are ever under the lock.
THEOREM LockExcludes ==
  Spec => [](\A j, k \in Kernels : op[j].phase \in Locked /\ op[k].phase \in Locked => j = k)
<1>1. StoreInv => \A j, k \in Kernels : op[j].phase \in Locked /\ op[k].phase \in Locked => j = k
  BY DEF StoreInv, TypeInv, LockInv
<1>2. QED BY <1>1, InitStore, StepStore, PTL DEF Spec

-----------------------------------------------------------------------------
(***************************************************************************)
(* SavesAreTidy: a save that sweeps has room for all that its sweep leaves,*)
(* since nobody else is under the lock, and the manifests' modification    *)
(* times are in the order in which the checkpoints were used.              *)
(***************************************************************************)
TidyInv ==
  /\ before = uses
  /\ \A k \in Kernels :
       /\ op[k].phase \in {"evict", "sweep"} => op[k].id \in Present
       /\ op[k].phase = "sweep" => Fits(k)

\* A step that leaves the disk alone, of a kernel that does not clean up after it.
LEMMA TidyKept ==
  ASSUME TidyInv, NEW k \in Kernels, UNCHANGED <<blobs, manifests, before, uses>>,
         \A j \in Kernels \ {k} : op'[j] = op[j], op'[k].phase \notin {"evict", "sweep"}
  PROVE  TidyInv'
<1>1. Present' = Present /\ Refs' = Refs
  BY DEF Present, Refs
<1>2. \A j \in Kernels : op'[j].phase \in {"evict", "sweep"} =>
        op'[j] = op[j] /\ op'[j].id \in Present' /\ (op'[j].phase = "sweep" => Fits(j)')
  BY <1>1 DEF TidyInv, Fits, Total
<1>3. QED BY <1>2 DEF TidyInv

\* A step under the lock: nobody else cleans up.
LEMMA TidyAlone ==
  ASSUME TypeInv, TidyInv, NEW k \in Kernels, op[k].phase \in Locked, before' = uses',
         \A j \in Kernels \ {k} : op'[j] = op[j],
         op'[k].phase \in {"evict", "sweep"} => op'[k].id \in Present',
         op'[k].phase = "sweep" => Fits(k)'
  PROVE  TidyInv'
<1>1. \A j \in Kernels \ {k} : op'[j].phase \notin {"evict", "sweep"}
  BY DEF TypeInv, LockInv, Locked
<1>2. QED BY <1>1 DEF TidyInv

LEMMA InitTidy == Init => TidyInv
<1> SUFFICES ASSUME Init PROVE TidyInv
  OBVIOUS
<1>1. \A k \in Kernels : op[k].phase = "idle"
  BY DEF Init, Idle
<1>2. QED BY <1>1 DEF Init, TidyInv

LEMMA StepTidy == TypeInv /\ TidyInv /\ [Next]_vars => TidyInv'
<1> SUFFICES ASSUME TypeInv, TidyInv, [Next]_vars PROVE TidyInv'
  OBVIOUS
<1> USE DEF TypeInv
<1>a. TypeOK /\ before = uses
  BY DEF TidyInv
<1>0. CASE UNCHANGED vars
  <2>1. Present' = Present /\ Refs' = Refs /\ op' = op /\ before' = before /\ uses' = uses /\ blobs' = blobs
    BY <1>0 DEF vars, disk, history, Present, Refs
  <2>2. \A k \in Kernels : Fits(k)' <=> Fits(k)
    BY <2>1 DEF Fits, Total
  <2>3. QED BY <2>1, <2>2 DEF TidyInv
<1>1. ASSUME NEW k \in Kernels, Cell(k) PROVE TidyInv'
  BY <1>a, <1>1, TidyKept DEF Cell, AtRest, disk, kernel, history
<1>2. ASSUME NEW k \in Kernels, NEW i \in Ids, SaveCall(k, i) PROVE TidyInv'
  BY <1>a, <1>2, TidyKept DEF SaveCall, Idle, TypeOK, disk
<1>3. ASSUME NEW k \in Kernels, SaveLock(k) PROVE TidyInv'
  BY <1>a, <1>3, TidyKept DEF SaveLock, TypeOK, history
<1>4. ASSUME NEW k \in Kernels, NEW v \in Values, PickleValue(k, v) PROVE TidyInv'
  BY <1>a, <1>4, TidyAlone DEF PickleValue, TypeOK, Locked
<1>5. ASSUME NEW k \in Kernels, NEW v \in Values, SkipValue(k, v) PROVE TidyInv'
  <2>1. op[k].phase \in Locked /\ op'[k].phase = "pickle" /\ before' = uses'
        /\ \A j \in Kernels \ {k} : op'[j] = op[j]
    BY <1>a, <1>5 DEF SkipValue, TypeOK, Locked
  <2>2. QED BY <2>1, TidyAlone
<1>6. ASSUME NEW k \in Kernels, WriteManifest(k) PROVE TidyInv'
  <2>1. op[k].id \in Ids /\ op' = [op EXCEPT ![k].phase = "evict"] /\ before' = uses'
    BY <1>a, <1>6 DEF WriteManifest, Goto, OpInv
  <2>2. op'[k].phase = "evict" /\ op'[k].id = op[k].id /\ \A j \in Kernels \ {k} : op'[j] = op[j]
    BY <1>a, <2>1 DEF TypeOK
  <2>3. manifests'[op[k].id].present
    BY <1>a, <1>6, <2>1 DEF WriteManifest, TypeOK
  <2>4. op[k].phase \in Locked
    BY <1>6 DEF WriteManifest, Locked
  <2>5. QED BY <2>1, <2>2, <2>3, <2>4, TidyAlone DEF Present
<1>7. ASSUME NEW k \in Kernels, NEW i \in Ids, Evict(k, i) PROVE TidyInv'
  <2>1. op' = op /\ op[k].phase = "evict" /\ i # op[k].id /\ before' = uses'
    BY <1>a, <1>7 DEF Evict, Oldest
  <2>2. op[k].id \in Present /\ op[k].id \in Ids
    BY <2>1 DEF TidyInv, Present
  <2>3. op[k].id \in Present'
    BY <1>a, <1>7, <2>1, <2>2 DEF Evict, Present, TypeOK
  <2>4. QED BY <2>1, <2>3, TidyAlone DEF Locked
<1>8. ASSUME NEW k \in Kernels, BeginSweep(k) PROVE TidyInv'
  <2>1. op' = [op EXCEPT ![k].phase = "sweep"] /\ op[k].phase = "evict" /\ Fits(k)
        /\ before' = uses' /\ manifests' = manifests /\ blobs' = blobs
    BY <1>a, <1>8 DEF BeginSweep, Goto, disk, kernel, history
  <2>2. op'[k].phase = "sweep" /\ op'[k].id = op[k].id /\ \A j \in Kernels \ {k} : op'[j] = op[j]
    BY <1>a, <2>1 DEF TypeOK
  <2>3. Present' = Present /\ Refs' = Refs
    BY <2>1 DEF Present, Refs
  <2>4. op'[k].id \in Present' /\ Fits(k)'
    BY <2>1, <2>2, <2>3 DEF TidyInv, Fits, Total
  <2>5. QED BY <2>1, <2>2, <2>4, TidyAlone DEF Locked
<1>9. ASSUME NEW k \in Kernels, NEW v \in Values, Sweep(k, v) PROVE TidyInv'
  <2>1. op' = op /\ op[k].phase = "sweep" /\ before' = uses' /\ Present' = Present /\ Refs' = Refs
    BY <1>a, <1>9 DEF Sweep, history, Present, Refs
  <2>2. Refs \cap blobs' = Refs \cap blobs
    BY <1>9 DEF Sweep, Unreferenced
  <2>3. op[k].id \in Present /\ Fits(k) /\ Fits(k)'
    BY <2>1, <2>2 DEF TidyInv, Fits, Total
  <2>4. QED BY <2>1, <2>3, TidyAlone DEF Locked
<1>10. ASSUME NEW k \in Kernels, SaveDone(k) PROVE TidyInv'
  BY <1>a, <1>10, TidyKept DEF SaveDone, Leave, Idle, TypeOK, history
<1>11. ASSUME NEW k \in Kernels, NEW b \in Branches, RestoreCall(k, b) PROVE TidyInv'
  BY <1>a, <1>11, TidyKept DEF RestoreCall, Idle, TypeOK, disk, kernel, history
<1>12. ASSUME NEW k \in Kernels, RestoreLock(k) PROVE TidyInv'
  BY <1>a, <1>12, TidyKept DEF RestoreLock, TypeOK, history
<1>13. ASSUME NEW k \in Kernels, DropCrashed(k) PROVE TidyInv'
  BY <1>a, <1>13, TidyAlone DEF DropCrashed, TypeOK, Locked
<1>14. ASSUME NEW k \in Kernels, Select(k) PROVE TidyInv'
  <2>1. op[k].phase \in Locked /\ op'[k].phase \notin {"evict", "sweep"}
        /\ \A j \in Kernels \ {k} : op'[j] = op[j]
    BY <1>a, <1>14, SelectEnds DEF Idle, Locked
  <2>2. before' = uses'
    BY <1>a, <1>14 DEF Select, Restored
  <2>3. QED BY <2>1, <2>2, TidyAlone
<1>15. ASSUME NEW k \in Kernels, NEW v \in Values, MarkLoading(k, v) PROVE TidyInv'
  BY <1>a, <1>15, TidyKept DEF MarkLoading, TypeOK, history
<1>16. ASSUME NEW k \in Kernels, NEW v \in Values, SkipMissing(k, v) PROVE TidyInv'
  BY <1>a, <1>16, TidyKept DEF SkipMissing, TypeOK, disk, kernel, history
<1>17. ASSUME NEW k \in Kernels, Loaded(k) PROVE TidyInv'
  BY <1>a, <1>17, TidyKept, LoadedEnds DEF Loaded, kernel, history
<1>18. ASSUME NEW k \in Kernels, RestoreDone(k) PROVE TidyInv'
  BY <1>a, <1>18, TidyKept DEF RestoreDone, Leave, Idle, TypeOK, history
<1>19. ASSUME NEW k \in Kernels, Accept(k) PROVE TidyInv'
  BY <1>a, <1>19, TidyKept DEF Accept, Idle, TypeOK, disk, kernel, history
<1>20. ASSUME NEW k \in Kernels, Interrupt(k) PROVE TidyInv'
  BY <1>a, <1>20, TidyKept DEF Interrupt, Leave, Idle, TypeOK, history
<1>21. ASSUME NEW k \in Kernels, Poisoned(k) PROVE TidyInv'
  BY <1>a, <1>21, TidyKept DEF Poisoned, Restart, Leave, Idle, TypeOK
<1>22. ASSUME NEW k \in Kernels, Kill(k) PROVE TidyInv'
  BY <1>a, <1>22, TidyKept DEF Kill, Restart, Leave, Idle, TypeOK
<1>23. ASSUME NEW k \in Kernels, OpenTemporary(k) PROVE TidyInv'
  BY <1>a, <1>23, TidyKept DEF OpenTemporary, Goto, TypeOK, disk, history
<1>24. QED
  BY <1>0, <1>1, <1>2, <1>3, <1>4, <1>5, <1>6, <1>7, <1>8, <1>9, <1>10, <1>11, <1>12,
     <1>13, <1>14, <1>15, <1>16, <1>17, <1>18, <1>19, <1>20, <1>21, <1>22, <1>23 DEF Next, Step

\* A save ends with its checkpoint on disk, without a blob that nobody names, and with
\* manifests and blobs within the limit of the store; it leaves no temporary file, each kill
\* one at most; and what it evicts is what was used least recently: any number of sessions,
\* kills, and any limit.
THEOREM TidyCorrect == Spec => SavesAreTidy
<1>1. LeftInv /\ TidyInv /\ [Next]_vars =>
        [\A k \in Kernels : /\ SaveDone(k) => SaveLeaves(k)
                            /\ \A i \in Ids : Evict(k, i) => LeastUsed(k, i)]_vars
  <2>1. ASSUME LeftInv, TidyInv, NEW k \in Kernels, SaveDone(k) PROVE SaveLeaves(k)
    <3>1. op[k].id \in Present /\ Fits(k) /\ blobs \subseteq Refs
      BY <2>1 DEF SaveDone, Unreferenced, TidyInv
    <3>2. Refs \cap blobs = blobs
      BY <3>1
    <3>3. QED BY <2>1, <3>1, <3>2 DEF SaveLeaves, Fits, Total, LeftInv
  <2>2. ASSUME TidyInv, NEW k \in Kernels, NEW i \in Ids, Evict(k, i) PROVE LeastUsed(k, i)
    BY <2>2 DEF TidyInv, Evict, Oldest, LeastUsed
  <2>3. QED BY <2>1, <2>2
<1>2. StoreInv /\ TidyInv /\ [Next]_vars => TidyInv'
  BY StepTidy DEF StoreInv
<1>3. StoreInv => LeftInv
  BY DEF StoreInv, TypeInv
<1>4. QED BY <1>1, <1>2, <1>3, InitStore, StepStore, InitTidy, PTL DEF Spec, SavesAreTidy

-----------------------------------------------------------------------------
(***************************************************************************)
(* CheckpointStore implements CheckpointShelf: a save puts its checkpoint  *)
(* with WriteManifest, an eviction drops one, DropCrashed loses a value    *)
(* and the renaming of its blob regains it. All other steps stutter.       *)
(***************************************************************************)
record == [i \in Ids |-> IF manifests[i].present THEN manifests[i].values ELSE Partial]
lost == Refs \ blobs

LEMMA RecordType ==
  ASSUME TypeOK
  PROVE  /\ \A i \in Ids : (record[i] = Partial) <=> (i \notin Present)
         /\ \A i \in Present : record[i] = manifests[i].values /\ record[i] \in SUBSET Values
         /\ Refs = Shelf!Named(record) /\ Refs \subseteq Values
<1>1. \A i \in Ids : manifests[i].values \in SUBSET Values /\ manifests[i].values # Partial
  BY StoreAssumption DEF TypeOK
<1>2. /\ \A i \in Ids : (record[i] = Partial) <=> (i \notin Present)
      /\ \A i \in Present : record[i] = manifests[i].values /\ record[i] \in SUBSET Values
  BY <1>1 DEF record, Present
<1>3. Shelf!Named(record) = UNION {record[i] : i \in {j \in Ids : record[j] # Partial}}
  BY DEF Shelf!Named
<1>4. {j \in Ids : record[j] # Partial} = Present
  BY <1>2 DEF Present
<1>5. QED BY <1>2, <1>3, <1>4 DEF Refs

LEMMA InitShelf == Init => Shelf!Init
  BY DEF Init, Shelf!Init, NoManifest, Refs, Present

LEMMA RecordPrimed ==
  ASSUME TypeOK'
  PROVE  Refs' = Shelf!Named(record)'
<1>1. \A i \in Ids : (manifests'[i].values) # Partial
  BY StoreAssumption DEF TypeOK
<1>2. {j \in Ids : (record')[j] # Partial} = Present'
  BY <1>1 DEF record, Present
<1>3. \A i \in Present' : (record')[i] = manifests'[i].values
  BY DEF record, Present
<1>4. Shelf!Named(record)' = UNION {(record')[i] : i \in {j \in Ids : (record')[j] # Partial}}
  BY DEF Shelf!Named
<1>5. QED BY <1>2, <1>3, <1>4 DEF Refs

LEMMA StepShelf == StoreInv /\ [Next]_vars => [Shelf!Next]_<<record, lost>>
<1> SUFFICES ASSUME StoreInv, [Next]_vars PROVE Shelf!Next \/ UNCHANGED <<record, lost>>
  OBVIOUS
<1>a. TypeOK /\ KeptInv /\ FreshInv /\ TypeOK'
  BY StepType DEF StoreInv, TypeInv
<1>b. ASSUME manifests' = manifests, blobs' = blobs PROVE UNCHANGED <<record, lost>>
  BY <1>b DEF record, lost, Refs, Present
<1>0. CASE UNCHANGED vars
  BY <1>0, <1>b DEF vars, disk
<1>1. ASSUME NEW k \in Kernels, Cell(k) PROVE Shelf!Next \/ UNCHANGED <<record, lost>>
  BY <1>b, <1>1 DEF Cell, disk, kernel, history
<1>2. ASSUME NEW k \in Kernels, NEW i \in Ids, SaveCall(k, i) PROVE Shelf!Next \/ UNCHANGED <<record, lost>>
  BY <1>b, <1>2 DEF SaveCall, disk, kernel, history
<1>3. ASSUME NEW k \in Kernels, SaveLock(k) PROVE Shelf!Next \/ UNCHANGED <<record, lost>>
  BY <1>b, <1>3 DEF SaveLock, disk, kernel, history
<1>4. ASSUME NEW k \in Kernels, NEW v \in Values, PickleValue(k, v) PROVE Shelf!Next \/ UNCHANGED <<record, lost>>
  <2>1. Shelf!Regain(v)
    BY <1>4 DEF PickleValue, Shelf!Regain, record, lost, Refs, Present
  <2>2. QED BY <2>1 DEF Shelf!Next
<1>5. ASSUME NEW k \in Kernels, NEW v \in Values, SkipValue(k, v) PROVE Shelf!Next \/ UNCHANGED <<record, lost>>
  <2>1. manifests' = manifests /\ (blobs' = blobs \/ blobs' = blobs \cup {v})
    BY <1>5 DEF SkipValue
  <2>2. CASE blobs' = blobs \cup {v}
    <3>1. Shelf!Regain(v)
      BY <2>1, <2>2 DEF Shelf!Regain, record, lost, Refs, Present
    <3>2. QED BY <3>1 DEF Shelf!Next
  <2>3. QED BY <1>b, <2>1, <2>2
<1>6. ASSUME NEW k \in Kernels, WriteManifest(k) PROVE Shelf!Next \/ UNCHANGED <<record, lost>>
  <2> DEFINE vs == op[k].kept
  <2>0. PICK i \in Ids : i = op[k].id
    BY <1>6 DEF WriteManifest, StoreInv, TypeInv, OpInv
  <2>1. i \in Ids \ Present /\ vs \in SUBSET Values /\ vs \subseteq blobs /\ blobs' = blobs
    BY <1>a, <1>6, <2>0 DEF WriteManifest, KeptInv, FreshInv, TypeOK
  <2>2. manifests' = [manifests EXCEPT ![i] = [values |-> vs, skipped |-> op[k].skipped, present |-> TRUE]]
    BY <1>6, <2>0 DEF WriteManifest
  <2>3. record' = [record EXCEPT ![i] = vs] /\ record[i] = Partial
    BY <1>a, <2>1, <2>2 DEF record, Present, TypeOK
  <2>4. Present' = Present \cup {i} /\ \A j \in Present : manifests'[j] = manifests[j]
    BY <1>a, <2>1, <2>2 DEF Present, TypeOK
  <2>5. manifests'[i].values = vs
    BY <1>a, <2>1, <2>2 DEF TypeOK
  <2>6. Refs' = Refs \cup vs
    BY <2>1, <2>4, <2>5 DEF Refs
  <2>7. vs \cap lost = {} /\ lost' = lost
    BY <2>1, <2>6 DEF lost
  <2>8. Shelf!Put(i)
    BY <2>1, <2>3, <2>7 DEF Shelf!Put, record, lost
  <2>9. QED BY <2>8 DEF Shelf!Next
<1>7. ASSUME NEW k \in Kernels, NEW i \in Ids, Evict(k, i) PROVE Shelf!Next \/ UNCHANGED <<record, lost>>
  <2>1. i \in Present /\ blobs' = blobs /\ manifests' = [manifests EXCEPT ![i] = NoManifest]
    BY <1>7 DEF Evict, Oldest
  <2>2. record' = [record EXCEPT ![i] = Partial]
    BY <1>a, <2>1 DEF record, TypeOK, NoManifest
  <2>3. record[i] # Partial
    BY <1>a, <2>1, RecordType DEF Present
  <2>4. Present' = Present \ {i} /\ \A j \in Present' : manifests'[j] = manifests[j]
    BY <1>a, <2>1 DEF Present, TypeOK, NoManifest
  <2>5. Refs' \subseteq Refs
    BY <2>4 DEF Refs
  <2>6. lost' = lost \cap Shelf!Named(record)'
    BY <1>a, <2>1, <2>5, RecordType, RecordPrimed DEF lost
  <2>7. Shelf!Drop(i)
    BY <2>2, <2>3, <2>6 DEF Shelf!Drop, Shelf!Named, record, lost
  <2>8. QED BY <2>7 DEF Shelf!Next
<1>8. ASSUME NEW k \in Kernels, BeginSweep(k) PROVE Shelf!Next \/ UNCHANGED <<record, lost>>
  BY <1>b, <1>8 DEF BeginSweep, disk, kernel, history
<1>9. ASSUME NEW k \in Kernels, NEW v \in Values, Sweep(k, v) PROVE Shelf!Next \/ UNCHANGED <<record, lost>>
  <2>1. manifests' = manifests /\ blobs' = blobs \ {v} /\ v \notin Refs
    BY <1>9 DEF Sweep, Unreferenced
  <2>2. UNCHANGED <<record, lost>>
    BY <2>1 DEF record, lost, Refs, Present
  <2>3. QED BY <2>2
<1>10. ASSUME NEW k \in Kernels, SaveDone(k) PROVE Shelf!Next \/ UNCHANGED <<record, lost>>
  BY <1>b, <1>10 DEF SaveDone, disk, kernel, history
<1>11. ASSUME NEW k \in Kernels, NEW b \in Branches, RestoreCall(k, b) PROVE Shelf!Next \/ UNCHANGED <<record, lost>>
  BY <1>b, <1>11 DEF RestoreCall, disk, kernel, history
<1>12. ASSUME NEW k \in Kernels, RestoreLock(k) PROVE Shelf!Next \/ UNCHANGED <<record, lost>>
  BY <1>b, <1>12 DEF RestoreLock, disk, kernel, history
<1>13. ASSUME NEW k \in Kernels, DropCrashed(k) PROVE Shelf!Next \/ UNCHANGED <<record, lost>>
  <2>1. PICK v \in Values : op[k].todo = {v}
    BY <1>a, <1>13 DEF DropCrashed, FreshInv
  <2>2. manifests' = manifests /\ blobs' = blobs \ {v}
    BY <1>13, <2>1 DEF DropCrashed
  <2>3. record' = record /\ Refs' = Refs
    BY <2>2 DEF record, Refs, Present
  <2>4. CASE v \in Refs
    <3>1. lost' = lost \cup {v}
      BY <2>2, <2>3, <2>4 DEF lost
    <3>2. Shelf!Lose(v)
      BY <1>a, <2>3, <2>4, <3>1, RecordType DEF Shelf!Lose, Shelf!Named, record, lost
    <3>3. QED BY <3>2 DEF Shelf!Next
  <2>5. CASE v \notin Refs
    BY <2>2, <2>3, <2>5 DEF lost
  <2>6. QED BY <2>4, <2>5
<1>14. ASSUME NEW k \in Kernels, Select(k) PROVE Shelf!Next \/ UNCHANGED <<record, lost>>
  BY <1>a, <1>b, <1>14, SelectEnds
<1>15. ASSUME NEW k \in Kernels, NEW v \in Values, MarkLoading(k, v) PROVE Shelf!Next \/ UNCHANGED <<record, lost>>
  BY <1>b, <1>15 DEF MarkLoading, disk, kernel, history
<1>16. ASSUME NEW k \in Kernels, NEW v \in Values, SkipMissing(k, v) PROVE Shelf!Next \/ UNCHANGED <<record, lost>>
  BY <1>b, <1>16 DEF SkipMissing, disk, kernel, history
<1>17. ASSUME NEW k \in Kernels, Loaded(k) PROVE Shelf!Next \/ UNCHANGED <<record, lost>>
  BY <1>b, <1>17 DEF Loaded, disk, kernel, history
<1>18. ASSUME NEW k \in Kernels, RestoreDone(k) PROVE Shelf!Next \/ UNCHANGED <<record, lost>>
  BY <1>b, <1>18 DEF RestoreDone, disk, kernel, history
<1>19. ASSUME NEW k \in Kernels, Accept(k) PROVE Shelf!Next \/ UNCHANGED <<record, lost>>
  BY <1>b, <1>19 DEF Accept, disk, kernel, history
<1>20. ASSUME NEW k \in Kernels, Interrupt(k) PROVE Shelf!Next \/ UNCHANGED <<record, lost>>
  BY <1>b, <1>20 DEF Interrupt, disk, kernel, history
<1>21. ASSUME NEW k \in Kernels, Poisoned(k) PROVE Shelf!Next \/ UNCHANGED <<record, lost>>
  BY <1>b, <1>21 DEF Poisoned, Restart, disk, kernel, history
<1>22. ASSUME NEW k \in Kernels, Kill(k) PROVE Shelf!Next \/ UNCHANGED <<record, lost>>
  BY <1>b, <1>22 DEF Kill, Restart, disk, kernel, history
<1>23. ASSUME NEW k \in Kernels, OpenTemporary(k) PROVE Shelf!Next \/ UNCHANGED <<record, lost>>
  BY <1>b, <1>23 DEF OpenTemporary, disk, history
<1>24. QED
  BY <1>0, <1>1, <1>2, <1>3, <1>4, <1>5, <1>6, <1>7, <1>8, <1>9, <1>10, <1>11, <1>12,
     <1>13, <1>14, <1>15, <1>16, <1>17, <1>18, <1>19, <1>20, <1>21, <1>22, <1>23 DEF Next, Step

\* The store keeps the promise of the shelf: a checkpoint appears whole, does not
\* change and goes as a whole, and only a value that is given up on gets lost.
THEOREM ShelfCorrect == Spec => ShelfSpec
<1>1. StoreInv /\ [Next]_vars => [Shelf!Next]_<<record, lost>>
  BY StepShelf
<1>2. QED BY <1>1, InitStore, StepStore, InitShelf, PTL DEF Spec, ShelfSpec, Shelf!Spec, record, lost
=============================================================================

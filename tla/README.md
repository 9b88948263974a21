# Formal model of pi-ipython

TLA+ modules, TLC configurations and TLAPS proofs for the kernel runtime, the
checkpoint store, the checkpoint queue, the two hosts, the bridge process and the
requests it serves, the output of a cell, the console pane and some of the data
helpers of pi-ipython. Paths and line numbers are those of the repository,
relative to its root.

Run a model with `tlc -workers 4 -config X.cfg M.tla` and the proofs with
`tlapm M.tla`, in this directory; `PROJECT.json` lists which module goes with
which configuration, which source lines each definition stands for, and, for
each property, a faulty variant of a definition that violates it.

## 1. Inventory

| Component | State | Operations | Interacts by | Hard because | Correct when |
|---|---|---|---|---|---|
| Kernel runtime, `core/kernel-runtime.ts` | the bridge (`child`), `ready`, the startup and the stop in progress, the active request with its interrupt, the reset notice, `generation`, `disposed` | `start`, `execute`, `evaluate`, `getConnectionFile`, `shutdown`; timers; lines and exits of bridges | JSON lines over stdio and signals to the bridge; promises to its callers | every `await` lets another call, a timer, an abort signal, a late line or an exit come in between | one live bridge; each request answered by the kernel that ran it or rejected; a lost namespace reported to the next cell; everything settles after a cancel or a shutdown |
| Bridge, `core/bridge.py` | the kernel's process group, the launch gate, `_OWNER_DEAD` and its lock | launch, serve, clean up; the owner's monitor thread; the host's `terminate()` and reaping | SIGTERM and SIGKILL, pipes, the parent process ID | two threads, signals between any two statements, an owner that dies at any moment | no kernel runs that nobody can stop, none is left behind |
| Checkpoint store, `core/kernel/pi_ipython_state.py` | files `blobs/`, `manifests/`, `loading`, the lock; `_held` in each kernel | `initialize`, `save` with cleanup, `accept`, `restore` with crash recovery | several kernels share a directory under `flock` | a kill between any two writes; values that kill the kernel that unpickles them; a limited store | a manifest's blobs exist; of the saved names that are eligible in the kernel, restored + skipped = saved; cancelled restores run again; the least used checkpoint goes first |
| Checkpoint queue, `core/persistence.ts` | the chain of jobs, `saveFailure`, undelivered notices | `sync`, `save`, `restoreBranch` with retries, `close` | calls the runtime and the store; notices to the tools | jobs queue behind running cells, fail one by one, and lose their kernel | a cell runs on its branch's state or its result says that it did not |
| Tool host, `extensions/ipython.ts`, `core/cell.ts` | the session's branch, undelivered notices, nested notices | `ipython`, `/cells`, session events | appends results to Pi's branch | the branch moves while checkpoints are made | no result hides a restore |
| Nested calls, `extensions/ipython.ts` | the map of forwarded notices, the entries of other tools on the branch | cells that another tool of Pi runs within its own call | the result of the outer tool carries the notices and the entries | the outer result comes after several cells, some of which killed the kernel | the model sees every notice; the next nested cell does not rewind the live kernel |
| Durable host, `durable/index.ts` | one runtime per conversation, the entries of its log that name checkpoints, `closing` | `execute`, `close` | commits of a workflow engine; a new process opens the log again | a crash or a failed commit between the cell, its save and its entry; `close()` beside a call | no recorded result hides a restore; no kernel in use after `close()` |
| Requests of the bridge, `core/bridge.py`, `core/kernel/pi_ipython_interrupt.py`, `core/kernel-runtime.ts` | the request in flight, the message that the bridge waits for, the code that the kernel runs, a SIGINT that the code has not seen | `execute` with its hidden `chdir`, `evaluate`, `interrupt()` with its grace period | JSON lines, Jupyter messages, SIGINT | the signal meets the kernel between messages, in hidden code, in the cell, in an `await`; processes end at any point of it | an interrupt costs the state of the kernel only if the code does not heed it |
| Cell output, `core/bridge.py`, `core/kernel-runtime.ts`, `core/output.ts`, `extensions/cells.ts` | two Jupyter channels, pending clear, wire, collected text and images, console history | text, images, clears, results; `truncateTail`, `finalOutput` | Jupyter messages, protocol lines | the reply and the output come on different channels; messages cut into lines, clears that wait, four limits | the result shows what a notebook would show, within the limits, and names the file with the rest |
| Console pane, `extensions/cells.ts` | `paneId`, `connectionFile`, the toggle in progress | `toggle`, `shutdown` | Herdr commands, each of which may fail | failures between two commands; shutdown during a toggle | no pane forgotten, none left |
| Data helpers, `core/kernel/headstart.py` | the frame shown last, the BigQuery job of `interroge` | functions over data frames that cells call | runs in the user's process; hooks of the IPython shell | a query that an interrupt cuts short; state that outlives the cell that set it; repeated and missing keys | no query runs on after an interrupt; only the cell that printed a view hides its result; `joins` never multiplies rows in silence |
| Result, `core/cell.ts` | none | notices, output and figures of a result | called by both hosts | the order of the notices | part of the two hosts; the layout is not modelled |
| Provisioning, `core/python.ts` | none that lasts | find Python, install packages | `uv` | I/O only | not modelled: the runtime sees it as one step that succeeds or fails |
| Lint plugin, `tools/oxlint` | none | style rules, resolution of type aliases | the linter | names that mean different types in different scopes | the rule `no-unknown-returns` finds `unknown` where the types of TypeScript have it; the other rules are not modelled |

```
   extensions/ipython.ts ---- /cells ----> extensions/cells.ts ---> Herdr
        | sync, save          | history           ^
        v                     |                   | connection file
   core/persistence.ts        |                   |
        | evaluate()          | execute()         |
        v                     v                   |
   core/kernel-runtime.ts  ------------------------
        | stdin/stdout lines, SIGINT, SIGTERM, SIGKILL
        v
   core/bridge.py ---- Jupyter ----> kernel ---> pi_ipython_state.py ---> files
```

`PROJECT.json` lists 40 hazards at their lines; the properties below are aimed at
them, and a hazard without one says why.

## 2. Modules

| Module | Models | Kind |
|---|---|---|
| `KernelRuntime` | `core/kernel-runtime.ts` | state machine of one runtime, its calls and its bridges |
| `KernelService` | what the runtime promises its callers | abstract specification, implemented by `KernelRuntime` (`ServiceSpec`) |
| `KernelRuntimeProofs`, `KernelServiceProofs` | | theorems |
| `CheckpointStore` | `core/kernel/pi_ipython_state.py` | state machine of several kernels over one directory |
| `CheckpointShelf` | what the store promises its sessions | abstract specification, implemented by `CheckpointStore` (`ShelfSpec`) |
| `CheckpointStoreProofs` | | theorems |
| `Checkpoints` | `core/persistence.ts` and the cell tool and `/cells` of `extensions/ipython.ts` | composes the queue, the tool, an abstract runtime and an abstract store |
| `CheckpointsProofs` | | theorems |
| `SessionHosts` | nested calls of `extensions/ipython.ts`, and `durable/index.ts` | extends `Checkpoints` with the two hosts around it |
| `SessionHostsProofs` | | theorems |
| `BridgeProcess` | `core/bridge.py` from launch to exit, with owner, monitor thread, kernel and host | state machine |
| `CellRequests`, `CellRequestsProofs` | the requests of that bridge, the code of the kernel and its interrupts, `interroge` and `montre` of `headstart.py` | extends `BridgeProcess` with the requests; theorems about both, also that it implements `BridgeProcess`, and about the next two |
| `Frames` | `joins` and `compare` of `headstart.py` | operators and their reference definitions |
| `DataFiles` | the lines of `.jsonl` files and the columns of codes that `charge` of `headstart.py` reads, the sizes of `interroge` | operators, and what each must keep of its input |
| `CellOutput`, `CellOutputProofs` | one cell's output from Jupyter's messages to the host | state machine over `OutputText`, and theorems |
| `OutputText` | `core/output.ts` `truncateTail`, `finalOutput` | operators and their reference definition; theorem in `CellOutputProofs` |
| `EscapeCodes` | `core/output.ts` `stripAnsi` | a recursive function and the regular expression that it replaced |
| `TypeAliases`, `MCTypeAliases` | `tools/oxlint`: `type-alias-resolution.ts` and the rule `no-unknown-returns` | a recursive function and the scopes of TypeScript; the programs that are tried |
| `CellsView`, `CellsViewProofs` | `extensions/cells.ts` against Herdr | state machine and theorems |
| `MC…` | model values and symmetry for TLC | |

### How state and actions correspond to the code

**KernelRuntime.** The variables are the fields of the class with their names,
plus `starting` (the local state of `startKernel()`: before the spawn, waiting
for ready, or waiting for `terminate()` after a failure, and whose signal it
observes), `stop` (the local state of `terminate()`), `armed` (the grace timer)
and `shut` (how far `shutdown()` has come). `pc` is where each call awaits. Node
runs one handler at a time, so a handler is one action; continuations of settled
promises run before the next handler, which `Quiet` says. A bridge is seen from
the reading end of its pipe: "up" after its ready line was handled, "gone" after
its close event, and in between it may deliver lines in any order the code
allows, also when it is no longer the current one. `Slow` are bridges that
outlive the two seconds that `terminate()` gives them. `took`, `ranIn`, `ranAt`
and `doomed` are history.

**CheckpointStore.** A name with its value is one `Value`, a blob is named by
what it pickles, and an unlink, a utime or a rename is one action: these are
the points at which a kill leaves a different directory behind. `_atomic_write()`
is two: `OpenTemporary` and the rename (`PickleValue`, `WriteManifest`). A kill
between them leaves a temporary file, counted in `leftovers`, which nothing in the
code deletes or counts. `baseline` are the names that a kernel takes as its own or
hides; they differ from kernel to kernel, and `restore()` passes over those of a
checkpoint without a word (`Eligible`). `before` is the order of modification times. `uses`, `content`, `issued` and `condemned` are
history: what was asked to be saved, with which IDs, when it was last used, and
which blobs `_take_crashed()` deleted.

**Checkpoints.** A namespace is named by the last cell that ran in it. Runtime
and store appear as `up`, `ns`, `held`, `reset`, `stored` and `killers`; what
they contribute (a kernel dies, a value kills it, a restore is cut short, a
checkpoint is gone) are choices of the actions. `queue` is the promise chain of
`Checkpoints.call`, one element per job. `viewer` is the `/cells` toggle that
awaits its sync, and whether the list that it will add its notices to is still
the one that the next cell takes: the code reads the list before it awaits. A
cancelled restore (`RestoreCancelled`) did nothing, was cut short, or was done with
its answer on the way (`Replaced`): then the host throws the answer away. `unsaid` is
history: a replaced namespace that no result told ("yes"), or that none can tell
because only the cancelled call knew of it ("dropped"). Fresh IDs are random and so
interchangeable; `NewIds` takes one of them.

**SessionHosts.** `Pi…` actions are the handlers of `extensions/ipython.ts` for
the calls that another tool nests (`parent`, `forwarded`); the others are
`execute()` and `close()` of the durable host, where `entry` is what `execute()`
awaits before its sync (the agent, the scan of the log) and `closing` counts the
jobs that `close()` waits for. A new process forgets everything but the log and
the store. The jobs and the store are those of `Checkpoints`, whose actions are
used as they are. `runtime` is "leaking" when `close()` ended while a sync waited in
`start()` for the stop of a lost kernel, and "leaked" once that `start()` has
started a kernel of the disposed runtime. `unheard`, `quiet`, `tip` and `crossed` are
history: the last says that `/cells` was toggled between the result of a cell and its
entry on the branch.

**BridgeProcess.** `main` is the statement that the main thread is at. Any
statement may stall: there is no fairness for it except while it holds the lock.
SIGTERM becomes `SystemExit` at the next statement and is ignored in the
`finally` block, after its first statement. The host is the part of
`kernel-runtime.ts` that knows the process group.

**CellRequests.** `step` is where the bridge is in the body of its loop: the line
was sent, the message that it waits for, or the answer on its way; one action is
the code up to the next wait. `code` is what the kernel's main thread runs:
hidden code, a cell in synchronous code, in a top-level `await`, or in the two
parts of `interroge()`, before and inside its `try` statement. A step of
`BridgeProcess` is a step here, with what the end of a process does to the code;
the two ways in which the host gives up on a request are `HostTerminate` of that
module. `Momentary` lists what takes far less than the three seconds of the grace
period; the timer fires only when nothing of that is left to happen. `aim`,
`deaf` and `printed` are history: what the SIGINT met, whether the code went on
in spite of it, and whether this cell printed a view.

**Frames.** For `joins()` a frame is the sequence of its keys, for `compare()` a
function from key to value; `Missing` is NaN, None or NA. `Merge`, `Duplicated`
and `Ne` are what pandas does. **EscapeCodes.** A character is its code; `StripFrom`
is the loop of `stripAnsi()` from one ESC to the next. **DataFiles.** A line of a
`.jsonl` file is the kind that `_charge_jsonl()` tells apart, a column the kinds of its
cells; `Size` gives the text that `_size()` prints, in tenths of its unit.

**CellOutput.** A text is a sequence of character widths and newlines, a message
is cut into lines of `ChunkChars`, the wire is a queue. `iopub` and `shell` are
Jupyter's channels; the bridge reads them in any order and stops when the reply
and the idle status are both read. A console on the same kernel adds messages of
another request (`ConsoleShows`). `Screen` defines what a Jupyter front end
would show of the messages sent: those after the last clear that took effect
(`LastClear`), drawn one by one (`Draw`). `shown`, `recorded` and `full` are the console
history with its limit. `ResultText` is what the result of an interrupted cell
puts in front, `FinalOutput` what the model is given of it.

**TypeAliases.** A program is a tree of blocks; a reference to a type knows its
scope and the type parameters around it, as a node of the syntax tree does by its
parents. `Evaluate` is the loop of the rule with the substitutions that it carries,
`StandsForUnknown` what the names mean.

**CellsView.** One action per Herdr command, with the ways in which it fails.

## 3. Runs

| Run | Question | Properties | Bounds |
|---|---|---|---|
| `kernel_cells` | Is the runtime safe when two cells and a viewer start, fail, are cancelled, lose their kernel and are shut down in every order? | `OneLiveBridge`, `NoAbandonedWork`, `ResetHandedOut`, `GenerationNamesKernel`, `LostIsRejected`, `ServiceSpec` | three calls, three bridges: a kernel lost, another lost, a third; 388,411 states |
| `kernel_liveness` | Does everything settle, with checkpoint calls and with bridges that outlive `terminate()`? | `CancelledSettles`, `ShutdownSettles` | one call of each kind, two bridges, both slow; 61,434 states |
| `kernel_leak` | finding 1 | `StoppedForGood` violated | a cell and two restores |
| `store_crash` | Does the store survive a kill between any two writes, values that kill, and a limit that evicts? | `BlobsKept`, `RestoreAccounts`, `CancelledRunsAgain`, `SavesAreTidy` | three checkpoints over a limit of three files, two values, one of them poison, one kill of another cause, kernels that take no name or one of the two as their own; 5.78 million states |
| `store_sharing` | Do two sessions over one directory disturb each other? | `ShelfSpec` | two kernels, two checkpoints, branches of two; 530,641 states |
| `store_marker` | finding 2 | `OnlyPoisonDeleted` violated | one kernel, one value, none of them poison |
| `session_hosts` | Does a cell run on the state of its branch, or its result say otherwise? Do nested calls and the durable host keep that, through failed commits, crashes and `close()`, and does every call settle? | `RunsOnBranch`, `RestoreReported`, `KeepsLive`, `RecordReports`, `Forwarded`, `CloseHolds`, `CallsSettle` | three checkpoints, of which Pi uses two; one value that kills, two attempts, two faults; 1.20 million states |
| `save_notice` | finding 3 | `SaveReported` violated | `Checkpoints` alone: three checkpoints, one value that kills, two attempts, two faults |
| `restore_cancelled` | finding 4 | `CancelledRestoresAgain` violated | as `save_notice` |
| `cell_requests` | Can a kernel be left without anyone to stop it, or an interrupt cost more than the code that it stops? | `GateHolds`, `HostLeavesNone`, `OwnerDeathReaps`, `OwnerGone`, `InterruptSpares`, `QueriesCancelled`, `HiddenWasShown`, `VerbsAgree` | none for the processes and requests: the model is finite, 72,593 states; frames, columns and lines of up to four rows, two keys and a missing one, sizes up to 12,000 in units of 10 |
| `cell_output` | Does the result show what was printed, within the limits? | `ShowsCell`, `Overflow`, `HistoryFollows`, `FunctionsAgree` | three messages, plus one of a console; characters of up to two bytes; two lines, three bytes of tail; capture at six bytes, history at seven; two images, three bytes of them; 722,114 states; texts of up to six characters of seven classes; programs with two aliases, parameters, defaults and an inner block |
| `cells_view` | Can `/cells` lose or leave a pane? | `OwnsPanes`, `ShutdownSettles` | two kernels, four panes, three failures |

Each module's `TypeOK` is an invariant of one run of the module
(`HostsTypeOK` contains that of `Checkpoints`, `RequestsTypeOK` that of
`BridgeProcess`).

What the properties say, shortly:

- `OneLiveBridge`: any bridge that runs and is not the current one was told to die.
- `NoAbandonedWork`: the runtime never gives up on a request and keeps its kernel.
- `ResetHandedOut`: between two cells that ran in different kernels, some cell took
  the notice that the state was lost.
- `GenerationNamesKernel`: callers compare generations to learn whether their kernel
  is still there; equal generations mean the same kernel.
- `LostIsRejected`: a cell whose bridge is gone is rejected or its grace timer runs.
- `StoppedForGood`: after `shutdown()` settled nothing runs and nothing will be
  started. It fails with restores (finding 1).
- `BlobsKept`: outside of what crash recovery deleted, a manifest names only blobs
  that exist, in the middle of saves and cleanups of other sessions too.
- `RestoreAccounts`: each saved name is restored, reported, or still to be tried,
  unless the kernel that restores takes it as its own or hides it (see Findings).
- `CancelledRunsAgain`: a restore that was cut short is not taken for done.
- `SavesAreTidy`: a save leaves its checkpoint and no blob that no manifest names,
  within the limit if that can be, and evicts what was used longest ago. The temporary
  files of killed writes stay beside them, one for each kill at most, and count for
  nothing.
- `RunsOnBranch`, `RestoreReported`: a cell runs on its branch's state or its result
  says so, and no result hides that the namespace was replaced. Both except the case of
  finding 4: a call that was cancelled with the answer of its restore on the way.
- `CancelledRestoresAgain`: a cancelled restore that touched the namespace leaves it
  marked partial. It fails (finding 4).
- `KeepsLive`: a kernel that still holds what the last delivered cell left is never
  rewound to an older checkpoint, whichever tool or host ran that cell, unless `/cells`
  was toggled between the result of the cell and its entry (see Findings).
- `RecordReports`: no recorded result of the durable host hides that the namespace
  was replaced, also when an earlier call that knew of it failed; with the exception
  of finding 4.
- `Forwarded`: when the call of an outer tool is over, the model has seen every notice
  of the cells nested in it.
- `CloseHolds`: after `close()` no kernel is in use. A `close()` that met no call in
  progress leaves none behind and has stored the last recorded checkpoint; one that met
  a sync in `start()` can leave a kernel (finding 1), which the property allows.
- `CallsSettle`: a call that waits in the queue comes to run or fails, whatever fails
  before it.
- `GateHolds`: kernel code runs only in a process group that the monitor can kill.
- `OwnerDeathReaps`, `OwnerGone`, `HostLeavesNone`: no kernel survives the bridge
  when its owner died, the owner's death ends the bridge, and a host that is done
  with a bridge leaves no kernel.
- `ShowsCell`: the text and the images are what a front end shows, whatever the cuts,
  the clears and the order of the channels; images beyond the limits are counted;
  text beyond them is in the file that the result names. `HistoryFollows` says that
  the console history ends with the same text until it is full; `Overflow` bounds
  what a cell that prints too much can leave in memory.
- `FunctionsAgree` compares the loop of `truncateTail` with a definition of the tail,
  that of `stripAnsi` with the matches of the expression that it replaced, and the
  types that `no-unknown-returns` finds with what the names mean in their scopes: it
  reports nothing that is not `unknown`, and misses nothing where the aliases refer to
  one another in a row. An alias in its own argument (`Id<Id<unknown>>`) is not
  resolved again and is missed, and a type parameter that has the name of a declared
  type is left out of the comparison.
- `InterruptSpares`: a request that was interrupted ends in a kernel whose state is
  lost only if the code went on in spite of the signal, the kernel was between two
  messages or in the hidden `chdir`, or a process had ended. In particular a
  top-level `await` is woken.
- `QueriesCancelled`: the query of an interrupted cell does not run on, unless the
  signal came before `interroge()` held the job. `HiddenWasShown`: the result of a
  cell is hidden only if this cell printed its view, whatever ended the cell that set
  `_shown`.
- `VerbsAgree`: `joins()` refuses exactly the left joins with more rows than `a` and no
  inner join within them, and `compare()` lists exactly the differences; each line of a
  `.jsonl` file that is not blank is a row or counted as bad; `charge()` keeps codes with
  leading zeros; and the size that `interroge()` prints is the estimate to a twentieth of
  its unit.
- `CancelledSettles`, `ShutdownSettles`: a cancelled call, and every call that is open
  at a shutdown, and the shutdown itself, settle, unless hooks hold up for ever the
  startup that they wait for.
- `OwnsPanes`: the view knows each pane that it opened and the kernel that its
  console is attached to, and none is open after shutdown.

### Why the bounds are enough

The bounds are chosen so that every branch of the code is taken and every mutant
in `PROJECT.json` is caught; each is a constant of the module, named there.
Runtime: three kernels are needed to see a notice pass a kernel that ran nothing;
a fourth repeats the third. Two cells are the most that wait for one startup in
different places. Store: three checkpoints are needed for a choice of what to
evict when one of them is being saved; two values to have a blob that is shared
and one that is not. Checkpoints: three cells give two branches that share a root;
a third cell lets a nested or durable conversation continue after a restore that
itself came after a failure. Output: three messages are text, a clear and text
again. Requests: one request at a time is all that the runtime sends, and a second
one starts from the state that the first one left, so no bound is needed.
`VerbsAgree` and the parts of `FunctionsAgree` about `stripAnsi` and the types do
not depend on the state and are evaluated in the first one only. In
`store_crash` and `store_sharing` some model values are symmetric (`AlikeIds`,
`Alike`); the liveness runs use no symmetry.

### Deadlock

Deadlock is checked where the system cannot stop: the store, the queue and the
hosts around it.
Runtime calls are made once each, a bridge ends, a cell ends, and a pane is shut
down: there the system comes to rest, the configurations say so, and the liveness
properties show that it does not rest too early.

### Fairness

- Runtime: continuations of settled promises and timers run (Node's event loop), and
  a bridge that was told to die closes, which the kernel of the operating system sees
  to after SIGKILL. Nothing is assumed of a bridge that was not told to die, of a cell,
  or of a startup that has not spawned: `uv` has timeouts, but the promises of hooks
  have none and no signal cuts them short (`kernel-runtime.ts:416`), so the properties
  except a startup that stays there (`Preparing`).
- Hosts: jobs of the chain are served (also when the runtime they await was disposed),
  which takes that hooks end, and the tool hands the request of a cell on. No cell is
  assumed to end; commits, new calls and `close()` are not assumed. `Checkpoints` on its
  own states no fairness.
- Bridge: the monitor thread runs, the lock is not kept, the child reads its gate.
  The main thread may stall for ever. Requests add no fairness; that what is
  `Momentary` happens before the grace timer is a guard of the timer.
- Cells view: Herdr commands return; a console may never show its prompt.

## 4. Proofs

All theorems are for every value of the constants that satisfies the assumptions
of the module (`SpawnAssumption`, `CallAssumption`, `StoreAssumption`,
`CheckpointsAssumption`, `HostsAssumption`, `OutputAssumption`), not for the sizes of
the runs.

**`KernelRuntimeProofs`** has three inductive invariants.

- `TypeInv` adds to `TypeOK` that a startup that waits for ready has a bridge:
  otherwise `terminate()` could be called without one and `stop` would name no
  process. Theorem `TypeCorrect`.
- `LifeInv` is what makes `OneLiveBridge` inductive: a startup begins only when
  there is no bridge and no stop in progress, which needs that a bridge without a
  startup is ready or being stopped, that the stop in progress is that of the
  current bridge, and that a stop that settles has seen its bridge close. The last
  one is the assumption `Prompt` (`Slow = {}`). Theorems `BridgeCorrect` and
  `WorkCorrect`. Without `Prompt` the argument breaks in the code as well:
  `terminate()` called for an old bridge that is still alive joins the stop of that
  bridge, so a new bridge that failed to start is not stopped.
- `GenerationInv`: while a kernel is ready, the requests of the present generation
  are those that it received. It needs no `Prompt`. Theorem `GenerationCorrect`.

**`KernelServiceProofs`** builds on them, with `Prompt`.

- `LostInv`: a request in flight, while the runtime is not disposed, is that of the
  current kernel, which is ready and which nobody stops (`RequestInv`), so that its
  exit rejects the request. A bridge that becomes ready while `terminate()` works
  on it is the case to exclude: its startup has failed, and no call gets on before
  it is cleared (`StartInv`). Theorem `LossCorrect`.
- `HandedInv`: bridges are numbered in the order of their birth and a call runs only
  in one that was born (`BirthInv`); the kernel that a cell ran in is the current one,
  or its loss is still to be said, or was said to a cell that came to a later kernel
  (`SaidInv`). A cell that takes the notice names all kernels before its own.
  Theorem `ResetCorrect`.
- `CalmInv`: one request is in flight, of the present generation, and no kernel starts
  meanwhile, also after `shutdown()` when its bridge may be gone. Theorem
  `ServiceCorrect`: each way to settle calls is one step of `KernelService`.

**`CellRequestsProofs`**: of the processes first. `LeashInv` ties what each thread
knows (`tracked`, `hasKernel`, the lock, `_OWNER_DEAD`) to where it is, so that
whoever comes last, main thread or monitor, sees a kernel to kill. Theorems
`TypeCorrect`, `GateCorrect`, `HostCorrect`, `OwnerDeathCorrect` (an action
property).

Then of the requests. Theorem `BridgeCorrect` maps each step of the requests to a
step or a stutter of `BridgeProcess`, so its theorems hold while requests are
served (`ProcessesCorrect`). `RequestsInv` adds that nothing is asked of a bridge
that does not serve yet, that the code belongs to the message that the bridge
waits for and its SIGINT to that code (`CodeInv`), that a frame counts as shown only
while the cell that showed it runs (`ShownInv`), where a query can run (`JobInv`),
and that a request which was interrupted and heeded it is on its way to its answer
(`HeedInv`), which is what makes the timer too early a contradiction. Theorems
`RequestsTypeCorrect`, `InterruptCorrect`, `QueryCorrect`, `HiddenCorrect`.

Last, of the verbs of `headstart.py`, for all frames, lines, columns and sizes (`VerbsCorrect`;
the bounds of the run only cut the theorems below it down to what TLC can try).
`JoinsCorrect`: when `joins()` accepts, each row of the join comes from a row of `a`
of its own (`Source` is injective); when it refuses, that function is onto the rows of
`a` in a left join and maps two rows to one. `CompareCorrect` is an equality of sets.
`LinesCorrect` follows the loop of `_charge_jsonl` by induction over the lines.
`SizesCorrect` is arithmetic: every unit but the byte is a whole number of tens (`UnitAssumption`), so
reading a size back cuts nothing off. The assumption on the bounds of the run
(`BoundsAssumption`) only says that they are numbers.

**`CellsViewProofs`**: `TypeCorrect` and `PanesCorrect`, for any number of panes and
failures. The invariant says which panes each statement of a toggle has open.

**`CheckpointStoreProofs`**: `StoreInv` says that only the holder of the lock is
past it, that the blobs a save has collected are on disk until its manifest names
them, that `_held` never names a branch whose restore is unfinished, and that the
ID of a save in progress has no manifest and is that of no other save, and that
manifests, saves and restores account for every name that is eligible in the kernel
at work (`AccountInv`). Each kill leaves one temporary file at most (`LeftInv`).
`TidyInv`
says that the order of modification times is that of the uses, and what a save
that evicts and sweeps has still to do: its own manifest is there, and when it
sweeps the rest is within the limit. It holds while the other kernels wait for the
lock, since what they do outside of it touches no manifest. Theorems
`TypeCorrect`, `BlobsCorrect`, `AccountsCorrect`, `CancelledCorrect`,
`TidyCorrect` (an action property), `LockExcludes`, and `ShelfCorrect`: the store
implements `CheckpointShelf`, by mapping each step that writes or deletes a
manifest or the last needed blob to a step of the shelf and every other one to a
stutter.

**`CheckpointsProofs`**: `BranchInv` says why a result cannot miss a notice. At most
one sync of the tool, one of `/cells` and one save wait, the save only in front, and
nothing waits when a cell ends (`QueueInv`, `AnsweredAlone`): so no toggle that is
still to return meets a result that replaces its list. A kernel holds the namespace
that `_held` names, or a notice is on its way to a result, or the save that will
name it is in front (`HeldInv`), and what a cell runs on is that of its branch or
was announced (`RunInv`); both except what a cancelled call took with it (`unsaid` is
"dropped"). Theorems `BranchCorrect` and `ReportCorrect` (an action
property). `TypeCorrect` adds what the variables hold (`PlaceInv`, `UnsaidInv`,
`DataInv`): a restore that is tried always has a checkpoint to try, because the least
element of a set of positions exists (`LeastNat`, from the library's theorem that the
order of the naturals is well-founded).

**`SessionHostsProofs`**: most steps of the hosts are steps of `Checkpoints`; the
rest (`Apart`) are those between the end of a cell and its record, and the end of
a process. What is true while the cell's entry is not yet on the branch needs
`TreeInv`: the newest cell of a branch answered, and no sync waits between a cell
and its record but that of a toggle which crossed them. `KeepInv` says that a kernel
with the namespace of the last cell (`Untouched` by such a toggle)
is known to hold it, or the save in front will say so: hence no restore rewinds it
(`KeepCorrect`). `ToldInv` is what makes `RecordReports` inductive: a change of
the namespace that no recorded result told is in the result on its way, or the
next sync will find that the kernel does not hold the branch and restore again; so
a commit that fails loses no notice of a restore (`RecordCorrect`). `NestInv` says
where an unseen notice of a nested cell is (`NestedCorrect`), `CloseInv` that the
checkpoint of a recorded cell that met no fault is stored or its save is one of
the jobs that `close()` waits for, and that a sync which `close()` could catch in
`start()` is that of a call in progress (`LeakStep`): so only then is a kernel left
(`CloseCorrect`). `HostsTypeCorrect` and
`HostsRunOnBranch` (its cells run on their branch too) complete it.

**`CellOutputProofs`**: `QueueInv` says what is on its way: every line holds at most
`ChunkChars` characters. `BoundInv` says that the overflow is met by the piece that
reaches over the limit and by no other, and rests on what a text weighs: `Bytes` is
additive over concatenation and bounded by the length, for all texts, by induction on
their length (`Induction`, from `LeastNat`). `HistoryInv` says that the console shows what
`onOutput()` saw last, and that it saw everything that was not too much. Theorems
`OutputTypeCorrect`, `OverflowCorrect`, `HistoryCorrect`.

`ShowsCorrect` is about four parties at once: what the cell sent, what Jupyter's
channel still holds, what the bridge has written, and what the host collected. `After`
folds a step over a sequence; what it makes of one more element at either end and of
two sequences is proved once (`AfterAppend`, `AfterHead`, `AfterConcat`) and used for
texts, sums, lines and messages. `ScreenAppend` says how what a front end shows
changes with one more message: `Screen` looks back for the last clear that took
effect, the bridge only remembers whether a clear waits, and the lemma says that this
is enough. `ChunksDraw` says that the lines cut from a message, handled one by one,
draw that message once. The invariant (`ArrivesInv`): what the host collected, taken
through the lines on the wire and then through the messages not yet read
(`OnTheWay`), is the screen of all that was sent (`Final`). A message sent, read or
handled moves from one part to the next and leaves the whole as it was (`WayAppend`,
`WayRead`, `WayHandle`). The images are those of which some sequence of all that
arrived keeps what fits (`KeptInv`). `ChannelInv` and `ResultInv` say that the idle
status is the last message and the result the last line: so when everything is
handled nothing is on the way. An overflow interrupts the cell and drops what follows,
and the invariant ends there, as `ShowsCell` does.

`TailCorrect` is the part of `FunctionsAgree` about `truncateTail` (`TailAgrees`), for
all texts and limits. `split`, `join` and the loop are folds from the last element
(`Back`), so one induction on the length serves the three (`BackIs`, `BackCons`). The
lines of a text join to it again (`SplitJoins`), and a final newline adds an empty last
line (`SplitEnds`), which the code drops. What the loop has taken of some lines is the
tail, by its definition, of the text that they join to (`TakenInv`, `Answer`): a line
more before them is either taken, so that the tail is one break and one line longer
(`OneMoreBreak`), or does not fit and leaves it as it was (`AnswerBefore`); a last
line that is too long on its own is cut (`TakenFirst`).

Only model-checked:

- the liveness properties, and `OwnerGone`, which is one too: out of the prover's
  reach;
- the parts of `FunctionsAgree` about `stripAnsi` and the type aliases (`StripAgrees`,
  `AliasesAgree`): `StripFrom` and `Evaluate` are recursive operators, which the
  provers cannot unfold. The library states induction over sequences with an operator
  as parameter, which they cannot instantiate; `Induction` is over a set of numbers
  instead, and suffices for functions that recur on a number (`Bytes`, `LinesOf`,
  `Joined`, `Collect`, `ChargeJsonl`).

## 5. Findings

1. `kernel_leak`: `start()` reads `disposed` before it awaits a stop in progress
   and not again (`core/kernel-runtime.ts:369`), and a restore passes the caller's
   signal without the runtime's own. A restore that waited there while
   `shutdown()` ran starts a kernel after `shutdown()` settled. `persistence.ts:105`
   says of `close`: "Waits for pending checkpoints, then stops the kernel."
2. `store_marker`: the marker names the value being unpickled whenever the process
   dies, for whatever reason, so the next restore deletes a sound blob.
   `pi_ipython_state.py:374` says: "The marker outlives this call only if
   unpickling kills the kernel."
3. `save_notice`: `restoreBranch()` clears `saveFailure` as it hands over the
   notice (`persistence.ts:224`); the tool drops its notices when the cell kills the
   kernel. `README.md:123` says: "A failed save does not change the live kernel. The
   next result reports it."
4. `restore_cancelled`: a call that is cancelled after the kernel has finished
   `restore()` and before its answer was read. The kernel already names the branch as
   held (`pi_ipython_state.py:432`), the runtime makes the answer an interrupted one
   (`kernel-runtime.ts:661-674`), `restore()` of the host rethrows and the notice is
   lost. The next sync finds nothing to do; when the restore fell back on an older
   checkpoint or on none, the next cell runs off its branch and no result says so.
   `persistence.ts:239` says: "A cancelled restore leaves the namespace marked partial,
   so the next sync restores again."

Met while modelling, without a run:

- `pi_ipython_state.py:419-420`: a saved name that the restoring kernel has in its
  baseline, or hides (a new hook or extension brings it), is neither restored nor
  reported as skipped. `RestoreAccounts` is about the other names.
- `pi_ipython_state.py:140-151`: a save that is killed between the opening of a
  temporary file and its rename leaves a `.tmp-` file, which `_cleanup()` neither counts
  nor sweeps. `SavesAreTidy` bounds them by the number of kills.
- `kernel-runtime.ts:416`: a startup awaits the promises of the hooks without a timeout
  and without the signal, so a hook that never ends holds a cancelled call and
  `shutdown()` up for ever. `CancelledSettles` and `ShutdownSettles` except it.
- `durable/index.ts`: by finding 1 a `close()` of the durable host that meets a sync
  which waits for a stop can leave a kernel behind; `CloseHolds` excepts it.
- `kernel-runtime.ts:266`: the reset notice is taken before the request is accepted;
  a cell that is cancelled between the end of the startup and its request takes it
  and is refused. `ResetHandedOut` therefore says that a cell took the notice, not
  that a result showed it.
- `persistence.ts:218`: after the attempts are used up the notice announces a fresh
  kernel; the branch is not tried again unless the branch changes.
- `kernel-runtime.ts:615-628`: a cell that was cancelled and prints on past the
  limit is saved to a new file with every further message. `Overflow` excludes it.
- `bridge.py:396-397`: a SIGTERM that arrives in the `finally` block before it is
  ignored ends the process without the cleanup (`main = "cut"`); `OwnerGone` names it.
- `kernel-runtime.ts:744`: `terminate()` reads the kernel's process group once, at its
  start; `HostLeavesNone` is about a host that knew it or a bridge that cleaned up.
- With a bridge that outlives `terminate()`, a request of a new kernel can be left
  without an answer when the old one closes; hence `Slow = {}` in `kernel_cells`.
- `persistence.ts:267`: `close()` waits for the jobs of the moment. A cell that ends
  meanwhile records a checkpoint whose save comes after the kernel was shut down;
  `CloseHolds` therefore asks that no call was in progress.
- `durable/index.ts:124`: when the commit of a cell's entry fails, a notice of a lost
  kernel or of a failed save that the cell had taken is gone with its result. The
  notice of a restore comes again, since the next sync restores again.
- `ipython.ts:200`: `cellResult()` throws when the full output cannot be saved; the
  cell ran, but its result, its notices and its checkpoint are lost. The models
  assume that saving the output succeeds.
- `ipython.ts:115`: a `/cells` toggle between the result of a cell and its entry on
  the branch syncs to the older checkpoint and rewinds the live kernel. The next
  call restores and says so (`RunsOnBranch`); `KeepsLive` excepts it (`crossed`).
- `kernel-runtime.ts:673`: the reason of an interrupted cell is put in front of its
  output, so it is what a truncated result cuts away first. It stays in the saved
  file and in the structured error.
- `README.md:58` says that an interrupt keeps the state. A SIGINT that meets the
  hidden `chdir` before a cell ends the request as a bridge error, and one that
  meets the kernel between two messages is ignored by it, so the grace timer kills
  it: in both cases the state is lost. `InterruptSpares` names them.
- `bridge.py:369`: a cell whose working directory is gone is refused with a bridge
  error, and the runtime then terminates a kernel that did nothing wrong.
- `headstart.py:401`: a KeyboardInterrupt between `client.query()` and the `try`
  leaves the query running; so does the grace timer, which kills the kernel.
- `headstart.py:300`: for an inner join `joins()` refuses a repeated key also when the
  result has no more rows than `a`, because others of its rows have no match.
- `headstart.py:190-219`: `sauve()` opens the file, or the `ExcelWriter` of a workbook,
  before `json.dump` or `to_excel` can raise, so a call that fails costs the file that
  was there. What `charge()` gives back is not always what was saved: a frame without
  rows loses its columns through `.json` and `.jsonl`, one without columns does not come
  back from `.csv`, text that looks like numbers comes back from `.csv` as numbers.
- `headstart.py:366`: the printed estimate may be rounded down, and is then too low a cap
  for the query that it was printed for.
- `cells.ts:76`: an escape sequence that is cut between two updates of the output is
  stripped in pieces, and its rest shows in the console history.

## 6. Not modelled

- Persistence switched off (`persistence.ts:56`): sync and save then do nothing; and
  a store that `initialize()` found unavailable, which the first restore reports.
- `core/kernel-runtime.ts`: files for saved output, the wording of messages.
- `extensions/ipython.ts`: renderers and progress updates.
- `core/output.ts`: `formatSize`; `core/cell.ts`: the format of a result.
- The startup code of the kernel (`CellRequests` begins with a kernel that is ready),
  and threads or tasks that a cell leaves running and that call `montre()` later.
- `extensions/cells.ts`: commands that create or move a pane and then report failure.
- `core/kernel/headstart.py`: `sauve`, and what a file keeps of a frame: that is what
  pandas and `json` convert (see Findings). `combien`, `decris` and the format of a
  workbook, which are calls into pandas, and `verifie`, a loop over named checks.
- Provisioning (`core/python.ts`): a check and an installation by `uv`, which has a
  lock of its own; only success is kept, and `starting` joins the callers of one
  runtime.
- The other rules of the lint plugin: patterns over one syntax tree, no part of the
  running program. Of the types, type parameters of functions, mapped and conditional
  types.
- Kernel and bridge die together in `KernelRuntime`; `BridgeProcess` tells them apart.

## 7. Plan

Order, most important first; all but the tenth are done.

1. `KernelRuntime`, `KernelService`: safety, refinement, liveness.
2. `CheckpointStore`, `CheckpointShelf`: crash safety, sharing, refinement.
3. `Checkpoints`: branches and notices.
4. `BridgeProcess`. 5. `CellOutput`, `OutputText`. 6. `CellsView`.
7. `SessionHosts`: nested calls, the durable host.
8. `CellRequests`: requests, interrupts and the code they meet, over the processes.
9. `EscapeCodes`, `Frames`, `DataFiles`, `TypeAliases`: functions against their definitions.
10. `CheckpointStore` and `Checkpoints`: storage that is unavailable, persistence
    switched off; escape sequences that are cut between updates.
11. Proofs: the safety properties of every state machine.
12. Proofs: that the verbs do what `VerbsAgree` says, for all frames, lines,
    columns and sizes, and that `truncateTail` finds the tail of every text.

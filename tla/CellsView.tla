------------------------------ MODULE CellsView ------------------------------
(***************************************************************************)
(* extensions/cells.ts: the console pane that /cells opens and closes in   *)
(* Herdr, command by command. A command fails without an effect, or, where *)
(* that is harmless to assume, after it took effect. Herdr removes a tab   *)
(* with its last pane.                                                     *)
(***************************************************************************)
EXTENDS Naturals, FiniteSets

CONSTANTS Connections,  \* connection files of successive kernels
          NoPane, NoConnection,
          MaxPanes,     \* bound on the pane IDs that Herdr hands out: a toggle starts while one is left
          MaxFaults     \* bound on the commands that fail

Panes == 1..MaxPanes

ASSUME ViewAssumption ==
  /\ NoPane \notin Panes /\ NoConnection \notin Connections
  /\ MaxPanes \in Nat /\ MaxFaults \in Nat

VARIABLES
  staged,          \* panes in a tab of their own
  moved,           \* panes next to Pi
  attached,        \* the kernel that the console of each pane is for
  fresh,           \* the next pane ID
  paneId, connectionFile, disposed,
  toggle,          \* togglePane() in progress
  shut,            \* progress of shutdown()
  faults

herdr == <<staged, moved, attached, fresh>>
vars == <<herdr, paneId, connectionFile, disposed, toggle, shut, faults>>

Open == staged \cup moved
NoToggle == [phase |-> "idle", connection |-> NoConnection, existing |-> FALSE, tab |-> NoPane]

TypeOK ==
  /\ Open \subseteq Panes /\ staged \cap moved = {}
  /\ attached \in [Panes -> Connections \cup {NoConnection}]
  /\ fresh \in 1..MaxPanes + 1
  /\ paneId \in Panes \cup {NoPane}
  /\ connectionFile \in Connections \cup {NoConnection}
  /\ disposed \in BOOLEAN
  /\ toggle \in [phase : {"idle", "get", "close", "current", "create", "start", "wait", "move",
                          "undo", "closeTab"},
                 connection : Connections \cup {NoConnection}, existing : BOOLEAN,
                 tab : Panes \cup {NoPane}]
  /\ shut \in {"no", "waits", "closed", "failed"}
  /\ toggle.phase \in {"start", "wait", "move"} => paneId # NoPane
  /\ faults \in 0..MaxFaults

Init ==
  /\ staged = {} /\ moved = {} /\ attached = [p \in Panes |-> NoConnection] /\ fresh = 1
  /\ paneId = NoPane /\ connectionFile = NoConnection /\ disposed = FALSE
  /\ toggle = NoToggle /\ shut = "no" /\ faults = 0

Fault == faults < MaxFaults /\ faults' = faults + 1
At(phase) == toggle.phase = phase
Goto(phase) == toggle' = [toggle EXCEPT !.phase = phase]
Throws == toggle' = NoToggle

Closed(p) == staged' = staged \ {p} /\ moved' = moved \ {p}

\* Mutant: the pane is forgotten before it is known to be closed.
PaneCloseFails_Forgets ==
  /\ Fault /\ UNCHANGED <<staged, moved>>
  /\ paneId' = NoPane /\ connectionFile' = NoConnection

\* closePane() whose command fails, or is given up on after it took effect.
PaneCloseFails ==
  /\ Fault /\ (UNCHANGED <<staged, moved>> \/ Closed(paneId))
  /\ UNCHANGED <<paneId, connectionFile>>

\* closePane(): a pane that is not found counts as closed.
PaneCloses ==
  /\ Closed(paneId)
  /\ paneId' = NoPane /\ connectionFile' = NoConnection
  /\ UNCHANGED faults

-----------------------------------------------------------------------------
\* A toggle during another one joins it; after shutdown() it does nothing.
Toggle(connection) ==
  /\ At("idle") /\ ~disposed /\ fresh \in Panes
  /\ toggle' = [NoToggle EXCEPT !.phase = IF paneId = NoPane THEN "current" ELSE "get",
                                !.connection = connection]
  /\ UNCHANGED <<herdr, paneId, connectionFile, disposed, shut, faults>>

Get ==
  /\ At("get")
  /\ \/ toggle' = [toggle EXCEPT !.phase = "close", !.existing = paneId \in Open] /\ UNCHANGED faults
     \/ Throws /\ Fault
  /\ UNCHANGED <<herdr, paneId, connectionFile, disposed, shut>>

\* The console is closed, and opened again if it was for another kernel or gone.
Close ==
  /\ At("close")
  /\ \/ /\ PaneCloses
        /\ IF toggle.existing /\ toggle.connection = connectionFile
           THEN Throws ELSE Goto("current")
     \/ PaneCloseFails /\ Throws
  /\ UNCHANGED <<attached, fresh, disposed, shut>>

\* The copy of the connection file, and the pane that Pi runs in.
Current ==
  /\ At("current")
  /\ (Goto("create") /\ UNCHANGED faults) \/ (Throws /\ Fault)
  /\ UNCHANGED <<herdr, paneId, connectionFile, disposed, shut>>

\* Mutant: the pane is recorded only once it is next to Pi.
CreatedPane_Later == paneId

CreatedPane == fresh

CreateTab ==
  /\ At("create")
  /\ \/ /\ fresh' = fresh + 1 /\ staged' = staged \cup {fresh} /\ paneId' = CreatedPane
        /\ attached' = [attached EXCEPT ![fresh] = toggle.connection]
        /\ toggle' = [toggle EXCEPT !.phase = "start", !.tab = fresh]
        /\ UNCHANGED faults
     \/ Throws /\ Fault /\ UNCHANGED <<fresh, staged, paneId, attached>>
  /\ UNCHANGED <<moved, connectionFile, disposed, shut>>

\* Rename, and run the console in place of the shell.
StartConsole ==
  /\ At("start")
  /\ (Goto("wait") /\ UNCHANGED faults) \/ (Goto("undo") /\ Fault)
  /\ UNCHANGED <<herdr, paneId, connectionFile, disposed, shut>>

\* The prompt appears.
WaitEnds ==
  /\ At("wait") /\ paneId \in Open
  /\ Goto(IF disposed THEN "undo" ELSE "move")
  /\ UNCHANGED <<herdr, paneId, connectionFile, disposed, shut, faults>>

\* Mutant: nothing cuts the wait short.
WaitStops_Timeout ==
  /\ At("wait") /\ Fault
  /\ Goto("undo")
  /\ UNCHANGED <<herdr, paneId, connectionFile, disposed, shut>>

\* The wait times out, or shutdown() aborts it.
WaitStops ==
  /\ At("wait")
  /\ (disposed /\ UNCHANGED faults) \/ Fault
  /\ Goto("undo")
  /\ UNCHANGED <<herdr, paneId, connectionFile, disposed, shut>>

\* The ID that Herdr returns, the same as before or another one.
MovedPane == IF moved' \subseteq {paneId} THEN paneId ELSE fresh

MovedConnection == toggle.connection

Move ==
  /\ At("move")
  /\ \/ /\ paneId \in Open
        /\ staged' = staged \ {paneId}
        /\ \/ moved' = moved \cup {paneId} /\ UNCHANGED <<fresh, attached>>
           \/ /\ fresh \in Panes /\ fresh' = fresh + 1
              /\ moved' = moved \cup {fresh}
              /\ attached' = [attached EXCEPT ![fresh] = attached[paneId]]
        /\ paneId' = MovedPane /\ connectionFile' = MovedConnection
        /\ Goto("closeTab") /\ UNCHANGED faults
     \/ Goto("undo") /\ Fault /\ UNCHANGED <<staged, moved, fresh, attached, paneId, connectionFile>>
     \/ /\ paneId \notin Open /\ Goto("undo")
        /\ UNCHANGED <<staged, moved, fresh, attached, paneId, connectionFile, faults>>
  /\ UNCHANGED <<disposed, shut>>

\* closePane() whose failure does not matter.
Undo ==
  /\ At("undo") /\ Goto("closeTab")
  /\ PaneCloses \/ PaneCloseFails
  /\ UNCHANGED <<attached, fresh, disposed, shut>>

CloseTab ==
  /\ At("closeTab") /\ Throws
  /\ \/ staged' = staged \ {toggle.tab} /\ UNCHANGED faults
     \/ Fault /\ UNCHANGED staged
  /\ UNCHANGED <<moved, attached, fresh, paneId, connectionFile, disposed, shut>>

\* The user quits the console or closes its pane.
UserCloses ==
  /\ \E p \in Open : Closed(p)
  /\ UNCHANGED <<attached, fresh, paneId, connectionFile, disposed, toggle, shut, faults>>

Shutdown ==
  /\ ~disposed /\ disposed' = TRUE /\ shut' = "waits"
  /\ UNCHANGED <<herdr, paneId, connectionFile, toggle, faults>>

ToggleSettled == At("idle")

ShutdownCloses ==
  /\ shut = "waits" /\ ToggleSettled
  /\ \/ paneId = NoPane /\ shut' = "closed" /\ UNCHANGED <<staged, moved, paneId, connectionFile, faults>>
     \/ paneId # NoPane /\ PaneCloses /\ shut' = "closed"
     \/ paneId # NoPane /\ PaneCloseFails /\ shut' = "failed"
  /\ UNCHANGED <<attached, fresh, disposed, toggle>>

Toggling ==
  Get \/ Close \/ Current \/ CreateTab \/ StartConsole \/ WaitStops \/ Move \/ Undo \/ CloseTab
Next ==
  \/ \E c \in Connections : Toggle(c)
  \/ Toggling \/ WaitEnds \/ UserCloses \/ Shutdown \/ ShutdownCloses
Spec == Init /\ [][Next]_vars

\* Commands return; a console may never show its prompt.
FairSpec == Spec /\ WF_vars(Toggling) /\ WF_vars(ShutdownCloses)

-----------------------------------------------------------------------------
(***************************************************************************)
(* Properties.                                                             *)
(***************************************************************************)

\* Every pane that /cells opened is the one that it will close: no failure makes
\* it forget a pane or open a second one. The console next to Pi is for the kernel on
\* which /cells would close it. A shutdown that did not fail leaves no pane, whatever
\* toggle it interrupted.
OwnsPanes ==
  /\ Open \subseteq {paneId}
  /\ paneId \in moved => connectionFile = attached[paneId]
  /\ shut = "closed" => Open = {} /\ At("idle")

\* shutdown() settles, also when a console never shows its prompt.
ShutdownSettles == disposed ~> shut \in {"closed", "failed"}
=============================================================================

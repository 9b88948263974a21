--------------------------- MODULE CellsViewProofs ---------------------------
(***************************************************************************)
(* Proofs about CellsView: TypeOK and OwnsPanes, for any number of panes,  *)
(* kernels and failing commands. ViewInv adds what a toggle has done by    *)
(* each of its steps.                                                      *)
(***************************************************************************)
EXTENDS CellsView, TLAPS

\* No pane before the tab is created, and one in a tab of its own until it is moved.
PhaseInv ==
  /\ toggle.phase \in {"current", "create"} => paneId = NoPane
  /\ toggle.phase \in {"get", "close", "current", "create"} => fresh \in Panes
  /\ toggle.phase \in {"start", "wait", "move"} => moved = {} /\ attached[paneId] = toggle.connection
  /\ paneId \in Panes => paneId < fresh
  /\ shut # "no" => disposed

ViewInv == TypeOK /\ OwnsPanes /\ PhaseInv

LEMMA InitView == Init => ViewInv
<1> SUFFICES ASSUME Init PROVE ViewInv
  OBVIOUS
<1>1. Open = {} /\ paneId \notin Panes /\ faults \in 0..MaxFaults /\ fresh \in 1..MaxPanes + 1
  BY ViewAssumption DEF Init, Open
<1>2. toggle.phase = "idle"
  BY DEF Init, NoToggle
<1>3. TypeOK
  BY <1>1 DEF Init, TypeOK, NoToggle, Open
<1>4. OwnsPanes /\ PhaseInv
  BY <1>1, <1>2 DEF Init, OwnsPanes, PhaseInv, Open
<1>5. QED BY <1>3, <1>4 DEF ViewInv

LEMMA StepView == ViewInv /\ [Next]_vars => ViewInv'
<1> SUFFICES ASSUME ViewInv, [Next]_vars PROVE ViewInv'
  OBVIOUS
<1> USE ViewAssumption
    DEF ViewInv, TypeOK, OwnsPanes, PhaseInv, Open, NoToggle, At, Panes, Goto, Throws, Closed, Fault, herdr
<1>1. CASE \E c \in Connections : Toggle(c)
  <2> PICK c \in Connections : Toggle(c)
    BY <1>1
  <2>1. CASE paneId = NoPane
    BY <2>1 DEF Toggle
  <2>2. CASE paneId # NoPane
    BY <2>2 DEF Toggle
  <2>3. QED BY <2>1, <2>2
<1>2. CASE Get
  <2>1. CASE toggle' = NoToggle
    BY <1>2, <2>1 DEF Get
  <2>2. CASE toggle' = [toggle EXCEPT !.phase = "close", !.existing = paneId \in Open]
    <3>1. (paneId \in Open) \in BOOLEAN
      OBVIOUS
    <3>2. /\ toggle' \in [phase : {"close"}, connection : Connections \cup {NoConnection},
                         existing : BOOLEAN, tab : Panes \cup {NoPane}]
          /\ toggle.phase = "get"
      BY <1>2, <2>2, <3>1 DEF Get
    <3>3. faults' \in 0..MaxFaults
      BY <1>2 DEF Get
    <3>4. QED BY <1>2, <3>2, <3>3 DEF Get
  <2>3. QED BY <1>2, <2>1, <2>2 DEF Get
<1>3. CASE Close
  <2>1. CASE PaneCloses /\ Goto("current")
    BY <1>3, <2>1 DEF Close, PaneCloses
  <2>2. CASE PaneCloses /\ Throws
    BY <1>3, <2>2 DEF Close, PaneCloses
  <2>3. CASE PaneCloseFails /\ Throws
    BY <1>3, <2>3 DEF Close, PaneCloseFails
  <2>4. QED BY <1>3, <2>1, <2>2, <2>3 DEF Close
<1>4. CASE Current
  <2>1. CASE Goto("create")
    BY <1>4, <2>1 DEF Current
  <2>2. CASE Throws
    BY <1>4, <2>2 DEF Current
  <2>3. QED BY <1>4, <2>1, <2>2 DEF Current
<1>5. CASE CreateTab
  <2>1. CASE Throws /\ Fault /\ UNCHANGED <<fresh, staged, paneId, attached>>
    <3>1. toggle'.phase = "idle" /\ toggle.phase = "create"
      BY <1>5, <2>1 DEF CreateTab
    <3>2. TypeOK'
      BY <1>5, <2>1 DEF CreateTab
    <3>3. QED BY <1>5, <2>1, <3>1, <3>2 DEF CreateTab
  <2>2. CASE fresh' = fresh + 1
    <3>1. /\ toggle' \in [phase : {"start"}, connection : Connections \cup {NoConnection},
                         existing : BOOLEAN, tab : Panes \cup {NoPane}]
          /\ toggle'.connection = toggle.connection /\ toggle'.phase = "start"
          /\ toggle.phase = "create"
      <4>1. fresh \in Panes /\ toggle.phase = "create" /\ fresh' # fresh
        BY <1>5, <2>2 DEF CreateTab
      <4>2. toggle' = [toggle EXCEPT !.phase = "start", !.tab = fresh]
        BY <1>5, <4>1 DEF CreateTab
      <4>3. QED BY <4>1, <4>2
    <3>2. staged = {} /\ moved = {} /\ paneId' = fresh /\ fresh \in Panes
      BY <1>5, <2>2 DEF CreateTab, CreatedPane
    <3>3. /\ attached' \in [Panes -> Connections \cup {NoConnection}]
          /\ attached'[fresh] = toggle.connection
      BY <1>5, <2>2, <3>2 DEF CreateTab
    <3>4. QED BY <1>5, <2>2, <3>1, <3>2, <3>3 DEF CreateTab
  <2>3. QED BY <1>5, <2>1, <2>2 DEF CreateTab
<1>6. CASE StartConsole
  BY <1>6 DEF StartConsole
<1>7. CASE WaitStops \/ WaitEnds
  BY <1>7 DEF WaitStops, WaitEnds
<1>8. CASE Move
  <2>1. /\ toggle.phase = "move" /\ moved = {} /\ paneId \in Panes /\ UNCHANGED <<disposed, shut>>
        /\ shut # "closed"
    BY <1>8 DEF Move
  <2>2. CASE Goto("closeTab") /\ moved' = {paneId}
    <3>1. UNCHANGED <<fresh, attached, faults>> \/ paneId = fresh
      BY <1>8, <2>1, <2>2 DEF Move
    <3>2. /\ UNCHANGED <<fresh, attached, faults>> /\ staged' = staged \ {paneId}
          /\ paneId' = paneId /\ connectionFile' = toggle.connection
      BY <1>8, <2>1, <2>2, <3>1 DEF Move, MovedPane, MovedConnection
    <3>3. QED BY <2>1, <2>2, <3>2
  <2>3. CASE Goto("closeTab") /\ moved' = {fresh} /\ fresh \in Panes /\ fresh # paneId
    <3>1. /\ fresh' = fresh + 1 /\ UNCHANGED faults /\ staged' = staged \ {paneId}
          /\ paneId' = fresh /\ connectionFile' = toggle.connection
          /\ attached' = [attached EXCEPT ![fresh] = attached[paneId]]
      BY <1>8, <2>1, <2>3 DEF Move, MovedPane, MovedConnection
    <3>2. QED BY <2>1, <2>3, <3>1
  <2>4. CASE /\ Goto("undo") /\ UNCHANGED <<staged, moved, fresh, attached, paneId, connectionFile>>
             /\ faults' \in 0..MaxFaults
    BY <2>1, <2>4
  <2>5. QED BY <1>8, <2>1, <2>2, <2>3, <2>4 DEF Move
<1>9. CASE Undo
  BY <1>9 DEF Undo, PaneCloses, PaneCloseFails
<1>10. CASE CloseTab
  BY <1>10 DEF CloseTab
<1>11. CASE UserCloses
  BY <1>11 DEF UserCloses
<1>12. CASE Shutdown
  BY <1>12 DEF Shutdown
<1>13. CASE ShutdownCloses
  BY <1>13 DEF ShutdownCloses, ToggleSettled, PaneCloses, PaneCloseFails
<1>14. CASE UNCHANGED vars
  BY <1>14 DEF vars
<1>15. QED
  BY <1>1, <1>2, <1>3, <1>4, <1>5, <1>6, <1>7, <1>8, <1>9, <1>10, <1>11, <1>12, <1>13, <1>14
     DEF Next, Toggling

-----------------------------------------------------------------------------
\* The panes, the toggle and shutdown() keep their types.
THEOREM TypeCorrect == FairSpec => []TypeOK
<1>1. ViewInv => TypeOK
  BY DEF ViewInv
<1>2. QED BY <1>1, InitView, StepView, PTL DEF FairSpec, Spec

\* However commands fail, panes are closed and shutdown() interleaves, /cells knows the
\* one pane that it opened and its kernel, and a shutdown that did not fail leaves none.
THEOREM PanesCorrect == FairSpec => []OwnsPanes
<1>1. ViewInv => OwnsPanes
  BY DEF ViewInv
<1>2. QED BY <1>1, InitView, StepView, PTL DEF FairSpec, Spec
=============================================================================

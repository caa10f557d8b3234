---------------------------- MODULE NiriCompositor ----------------------------
(***************************************************************************)
(* The compositor as niri-pip sees it: the windows, the workspaces and the *)
(* focus behind the IPC socket, what each action request does to them, and *)
(* the event the change puts on the event stream.  Niri is not part of the *)
(* repository: this is the behaviour that niripip-ipc's requests and the   *)
(* engine's event handlers rely on.                                        *)
(*                                                                         *)
(* A window that is not open is at NoWs; a workspace that does not exist   *)
(* has the name Gone.  An action whose window or workspace reference does  *)
(* not resolve changes nothing.                                            *)
(***************************************************************************)
EXTENDS Naturals, Sequences

CONSTANTS Windows,      \* window ids
          Workspaces,   \* workspace ids
          Names,        \* workspace names that matter: the scratchpad names
          NoWin, NoWs,  \* absent window, absent workspace
          NoName, Gone  \* an unnamed workspace, a workspace that is not there

ASSUME NiriAssumption ==
    /\ NoWs \notin Workspaces
    /\ NoWin \notin Windows
    /\ NoName \notin Names /\ Gone \notin Names /\ NoName # Gone

Place     == Workspaces \cup {NoWs}
WsName    == Names \cup {NoName, Gone}
NiriState == [loc : [Windows -> Place],
              name : [Workspaces -> WsName],
              focus : Workspaces]

(***************************************************************************)
(* The requests of CompositorAction that the hide transaction sends.       *)
(***************************************************************************)
ActionKinds == {"SetWorkspaceName", "UnsetWorkspaceName",
                "MoveWindowToWorkspaceName", "MoveWindowToWorkspace",
                "Relayout", "FocusWindow", "FocusWorkspace"}

Action == [kind : ActionKinds, win : Windows \cup {NoWin}, ws : Place,
           name : WsName]

SetWorkspaceName(ws, name) ==
    [kind |-> "SetWorkspaceName", win |-> NoWin, ws |-> ws, name |-> name]
UnsetWorkspaceName(name) ==
    [kind |-> "UnsetWorkspaceName", win |-> NoWin, ws |-> NoWs, name |-> name]
MoveWindowToWorkspaceName(win, name) ==
    [kind |-> "MoveWindowToWorkspaceName", win |-> win, ws |-> NoWs,
     name |-> name]
MoveWindowToWorkspace(win, ws) ==
    [kind |-> "MoveWindowToWorkspace", win |-> win, ws |-> ws, name |-> NoName]
FocusWindow(win) ==
    [kind |-> "FocusWindow", win |-> win, ws |-> NoWs, name |-> NoName]
FocusWorkspace(ws) ==
    [kind |-> "FocusWorkspace", win |-> NoWin, ws |-> ws, name |-> NoName]
\* MoveWindowToFloating, MoveWindowToTiling, SetWindowWidth and SetWindowHeight
\* of one window: the requests that replay its layout and change no workspace.
Relayout(win) ==
    [kind |-> "Relayout", win |-> win, ws |-> NoWs, name |-> NoName]

Open(n, win)    == n.loc[win] # NoWs
Exists(n, ws)   == n.name[ws] # Gone
Named(n, name)  == {ws \in Workspaces : n.name[ws] = name}

(***************************************************************************)
(* The states an action request may leave the compositor in.  A name is    *)
(* given only while no workspace bears it.                                 *)
(***************************************************************************)
SetNameTo(n, ws, name) ==
    IF ws \in Workspaces /\ Exists(n, ws) /\ Named(n, name) = {}
    THEN [n EXCEPT !.name[ws] = name] ELSE n

UnsetName(n, name) ==
    [n EXCEPT !.name = [ws \in Workspaces |->
                            IF @[ws] = name THEN NoName ELSE @[ws]]]

MoveTo(n, win, targets) ==
    IF Open(n, win) /\ targets # {}
    THEN [n EXCEPT !.loc[win] = CHOOSE ws \in targets : TRUE]
    ELSE n

FocusOn(n, ws) ==
    IF ws \in Workspaces /\ Exists(n, ws) THEN [n EXCEPT !.focus = ws] ELSE n

AfterAction(n, a) ==
    CASE a.kind = "SetWorkspaceName"          -> SetNameTo(n, a.ws, a.name)
      [] a.kind = "UnsetWorkspaceName"        -> UnsetName(n, a.name)
      [] a.kind = "MoveWindowToWorkspaceName" -> MoveTo(n, a.win, Named(n, a.name))
      [] a.kind = "MoveWindowToWorkspace"     ->
            MoveTo(n, a.win, {ws \in {a.ws} \cap Workspaces : Exists(n, ws)})
      [] a.kind = "FocusWorkspace"            -> FocusOn(n, a.ws)
      [] a.kind = "FocusWindow"               -> FocusOn(n, n.loc[a.win])
      [] OTHER                                -> n

(***************************************************************************)
(* The event stream.  Payloads are fixed when the event is emitted, so an  *)
(* event that waits in the channel describes the past.                     *)
(***************************************************************************)
WindowClosedEvent(win)      == [type |-> "WindowClosed", win |-> win]
WindowChangedEvent(win, ws) == [type |-> "WindowOpenedOrChanged", win |-> win, ws |-> ws]
WorkspaceActivatedEvent(ws) == [type |-> "WorkspaceActivated", ws |-> ws]
WorkspacesEvent(n) == [type |-> "WorkspacesChanged", names |-> n.name, focus |-> n.focus]
WindowsEvent(n)    == [type |-> "WindowsChanged", loc |-> n.loc]

Event == [type : {"WindowClosed"}, win : Windows]
    \cup [type : {"WindowOpenedOrChanged"}, win : Windows, ws : Workspaces]
    \cup [type : {"WorkspaceActivated"}, ws : Workspaces]
    \cup [type : {"WorkspacesChanged"}, names : [Workspaces -> WsName], focus : Workspaces]
    \cup [type : {"WindowsChanged"}, loc : [Windows -> Place]]

\* One change of state, one event.
Emit(q, n, m) ==
    IF m.name # n.name THEN Append(q, WorkspacesEvent(m))
    ELSE IF m.focus # n.focus THEN Append(q, WorkspaceActivatedEvent(m.focus))
    ELSE IF m.loc # n.loc
         THEN LET win == CHOOSE w \in Windows : m.loc[w] # n.loc[w]
              IN  IF m.loc[win] = NoWs
                  THEN Append(q, WindowClosedEvent(win))
                  ELSE Append(q, WindowChangedEvent(win, m.loc[win]))
    ELSE q

\* What a new subscription is sent first.
Bootstrap(n) == <<WorkspacesEvent(n), WindowsEvent(n)>>
===============================================================================

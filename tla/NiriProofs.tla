------------------------------ MODULE NiriProofs ------------------------------
(***************************************************************************)
(* What the operators of NiriCompositor return: used by the proofs about   *)
(* the components that talk to it.                                         *)
(***************************************************************************)
EXTENDS NiriCompositor, TLAPS

LEMMA MoveToType ==
    ASSUME NEW n \in NiriState, NEW win, NEW targets \in SUBSET Workspaces
    PROVE  MoveTo(n, win, targets) \in NiriState
<1>1. CASE Open(n, win) /\ targets # {}
  <2> DEFINE ws == CHOOSE x \in targets : TRUE
  <2>1. ws \in Workspaces  BY <1>1
  <2> HIDE DEF ws
  <2>2. [n.loc EXCEPT ![win] = ws] \in [Windows -> Place]
    BY <2>1 DEF NiriState, Place
  <2>3. MoveTo(n, win, targets) = [n EXCEPT !.loc = [n.loc EXCEPT ![win] = ws]]
    BY <1>1 DEF MoveTo, ws
  <2> QED  BY <2>2, <2>3 DEF NiriState
<1>2. CASE ~(Open(n, win) /\ targets # {})
  BY <1>2 DEF MoveTo
<1> QED  BY <1>1, <1>2

LEMMA AfterActionType ==
    ASSUME NEW n \in NiriState, NEW a \in Action
    PROVE  AfterAction(n, a) \in NiriState
<1>1. SetNameTo(n, a.ws, a.name) \in NiriState
  <2>1. a.name \in WsName  BY DEF Action
  <2>2. [n.name EXCEPT ![a.ws] = a.name] \in [Workspaces -> WsName]
    BY <2>1 DEF NiriState
  <2> QED  BY <2>2 DEF SetNameTo, NiriState
<1>2. UnsetName(n, a.name) \in NiriState
  <2>1. [ws \in Workspaces |-> IF n.name[ws] = a.name THEN NoName ELSE n.name[ws]]
            \in [Workspaces -> WsName]
    BY DEF NiriState, WsName
  <2> QED  BY <2>1 DEF UnsetName, NiriState
<1>3. \A ws : FocusOn(n, ws) \in NiriState
  BY DEF FocusOn, NiriState
<1>4. MoveTo(n, a.win, Named(n, a.name)) \in NiriState
  <2>1. Named(n, a.name) \in SUBSET Workspaces  BY DEF Named
  <2> QED  BY <2>1, MoveToType
<1>5. MoveTo(n, a.win, {ws \in {a.ws} \cap Workspaces : Exists(n, ws)}) \in NiriState
  <2>1. {ws \in {a.ws} \cap Workspaces : Exists(n, ws)} \in SUBSET Workspaces  OBVIOUS
  <2> QED  BY <2>1, MoveToType
<1> QED  BY <1>1, <1>2, <1>3, <1>4, <1>5 DEF AfterAction

LEMMA EmitType ==
    ASSUME NEW n \in NiriState, NEW m \in NiriState, NEW q \in Seq(Event)
    PROVE  Emit(q, n, m) \in Seq(Event)
<1>1. WorkspacesEvent(m) \in Event
  BY DEF WorkspacesEvent, Event, NiriState
<1>2. WorkspaceActivatedEvent(m.focus) \in Event
  BY DEF WorkspaceActivatedEvent, Event, NiriState
<1>3. ASSUME m.loc # n.loc
      PROVE  \E win \in Windows : m.loc[win] # n.loc[win]
  BY <1>3 DEF NiriState
<1>4. \A win \in Windows : WindowClosedEvent(win) \in Event
  BY DEF WindowClosedEvent, Event
<1>5. \A win \in Windows : m.loc[win] # NoWs => WindowChangedEvent(win, m.loc[win]) \in Event
  BY DEF WindowChangedEvent, Event, NiriState, Place
<1> DEFINE moved == CHOOSE w \in Windows : m.loc[w] # n.loc[w]
<1>6. m.loc # n.loc => moved \in Windows
  BY <1>3
<1> HIDE DEF moved
<1>7. Emit(q, n, m) =
        IF m.name # n.name THEN Append(q, WorkspacesEvent(m))
        ELSE IF m.focus # n.focus THEN Append(q, WorkspaceActivatedEvent(m.focus))
        ELSE IF m.loc # n.loc
             THEN IF m.loc[moved] = NoWs THEN Append(q, WindowClosedEvent(moved))
                  ELSE Append(q, WindowChangedEvent(moved, m.loc[moved]))
        ELSE q
  BY DEF Emit, moved
<1>8. \A e \in Event : Append(q, e) \in Seq(Event)
  OBVIOUS
<1> QED  BY <1>1, <1>2, <1>4, <1>5, <1>6, <1>7, <1>8

LEMMA BootstrapType ==
    ASSUME NEW n \in NiriState
    PROVE  Bootstrap(n) \in Seq(Event)
<1>1. WorkspacesEvent(n) \in Event
  BY DEF WorkspacesEvent, Event, NiriState
<1>2. WindowsEvent(n) \in Event
  BY DEF WindowsEvent, Event, NiriState
<1> QED  BY <1>1, <1>2 DEF Bootstrap

LEMMA MakersType ==
    /\ \A ws \in Place, name \in WsName : SetWorkspaceName(ws, name) \in Action
    /\ \A name \in WsName : UnsetWorkspaceName(name) \in Action
    /\ \A win \in Windows, name \in WsName : MoveWindowToWorkspaceName(win, name) \in Action
    /\ \A win \in Windows, ws \in Place : MoveWindowToWorkspace(win, ws) \in Action
    /\ \A win \in Windows : FocusWindow(win) \in Action /\ Relayout(win) \in Action
    /\ \A ws \in Place : FocusWorkspace(ws) \in Action
  BY DEF Action, ActionKinds, Place, WsName, SetWorkspaceName, UnsetWorkspaceName,
         MoveWindowToWorkspaceName, MoveWindowToWorkspace, FocusWindow, Relayout,
         FocusWorkspace

-------------------------------------------------------------------------------
(* What a client that handles every event in order gets to know.          *)

\* What an event may tell of: the names, the focus, the place of a window.
Facets == [part : {"names", "focus"}, win : {NoWin}] \cup [part : {"loc"}, win : Windows]

\* A facet of the cache or of the compositor.
Part(c, f) == IF f.part = "names" THEN c.name ELSE IF f.part = "focus" THEN c.focus
              ELSE c.loc[f.win]
\* Event e tells of f, and what it says.
Tells(e, f) ==
    IF f.part = "names" THEN e.type = "WorkspacesChanged"
    ELSE IF f.part = "focus" THEN e.type \in {"WorkspacesChanged", "WorkspaceActivated"}
    ELSE \/ e.type = "WindowsChanged"
         \/ e.type \in {"WindowClosed", "WindowOpenedOrChanged"} /\ e.win = f.win
Says(e, f) ==
    IF f.part = "names" THEN e.names
    ELSE IF f.part = "focus" THEN IF e.type = "WorkspacesChanged" THEN e.focus ELSE e.ws
    ELSE IF e.type = "WindowsChanged" THEN e.loc[f.win]
    ELSE IF e.type = "WindowClosed" THEN NoWs ELSE e.ws

\* When the events of q are handled, the cache that is c now will have v for f.
Heard(q, c, f, v) ==
    \/ Part(c, f) = v /\ \A i \in 1..Len(q) : ~Tells(q[i], f)
    \/ \E i \in 1..Len(q) : /\ Tells(q[i], f) /\ Says(q[i], f) = v
                            /\ \A j \in 1..Len(q) : j > i => ~Tells(q[j], f)

LEMMA HeardAppend ==
    ASSUME NEW q \in Seq(Event), NEW e \in Event, NEW c, NEW f, NEW v, NEW w,
           Heard(q, c, f, v), IF Tells(e, f) THEN Says(e, f) = w ELSE w = v
    PROVE  Heard(Append(q, e), c, f, w)
<1> DEFINE r == Append(q, e)
<1>0. PICK n \in Nat : n = Len(q)
  OBVIOUS
<1>1. Len(r) = n + 1 /\ r[n + 1] = e /\ \A i \in 1..n : r[i] = q[i]
  BY <1>0
<1> HIDE DEF r
<1>2. CASE Tells(e, f)
  <2>1. Tells(r[n + 1], f) /\ Says(r[n + 1], f) = w /\ n + 1 \in 1..Len(r)
    BY <1>1, <1>2
  <2>2. \A j \in 1..Len(r) : ~(j > n + 1)
    BY <1>1
  <2> QED  BY <2>1, <2>2 DEF Heard, r
<1>3. CASE ~Tells(e, f) /\ Part(c, f) = v /\ \A i \in 1..Len(q) : ~Tells(q[i], f)
  <2>1. \A i \in 1..Len(r) : ~Tells(r[i], f)
    <3> SUFFICES ASSUME NEW i \in 1..Len(r) PROVE ~Tells(r[i], f)
      OBVIOUS
    <3>1. CASE i = n + 1
      BY <1>1, <1>3, <3>1
    <3>2. CASE i \in 1..n
      BY <1>0, <1>1, <1>3, <3>2
    <3> QED  BY <1>1, <3>1, <3>2
  <2> QED  BY <1>3, <2>1 DEF Heard, r
<1>4. ASSUME ~Tells(e, f), NEW i \in 1..Len(q), Tells(q[i], f), Says(q[i], f) = v,
             \A j \in 1..Len(q) : j > i => ~Tells(q[j], f)
      PROVE  Heard(r, c, f, w)
  <2>1. i \in 1..Len(r) /\ Tells(r[i], f) /\ Says(r[i], f) = w
    BY <1>0, <1>1, <1>4
  <2>2. \A j \in 1..Len(r) : j > i => ~Tells(r[j], f)
    <3> SUFFICES ASSUME NEW j \in 1..Len(r), j > i PROVE ~Tells(r[j], f)
      OBVIOUS
    <3>1. CASE j = n + 1
      BY <1>1, <1>4, <3>1
    <3>2. CASE j \in 1..n
      BY <1>0, <1>1, <1>4, <3>2
    <3> QED  BY <1>1, <3>1, <3>2
  <2> QED  BY <2>1, <2>2 DEF Heard
<1> QED  BY <1>2, <1>3, <1>4 DEF Heard, r

LEMMA HeardTail ==
    ASSUME NEW q \in Seq(Event), q # <<>>, NEW c, NEW d, NEW f, NEW v, Heard(q, c, f, v),
           Part(d, f) = IF Tells(Head(q), f) THEN Says(Head(q), f) ELSE Part(c, f)
    PROVE  Heard(Tail(q), d, f, v)
<1> DEFINE r == Tail(q)
<1>0. PICK n \in Nat : n = Len(q)
  OBVIOUS
<1>1. n >= 1 /\ Len(r) = n - 1 /\ Head(q) = q[1] /\ \A i \in 1..n - 1 : r[i] = q[i + 1]
  BY <1>0
<1> HIDE DEF r
<1>2. CASE Part(c, f) = v /\ \A i \in 1..Len(q) : ~Tells(q[i], f)
  <2>1. Part(d, f) = v
    BY <1>0, <1>1, <1>2
  <2>2. \A i \in 1..Len(r) : ~Tells(r[i], f)
    BY <1>0, <1>1, <1>2
  <2> QED  BY <2>1, <2>2 DEF Heard, r
<1>3. ASSUME NEW i \in 1..Len(q), Tells(q[i], f), Says(q[i], f) = v,
             \A j \in 1..Len(q) : j > i => ~Tells(q[j], f)
      PROVE  Heard(r, d, f, v)
  <2>1. CASE i = 1
    <3>1. Part(d, f) = v
      BY <1>1, <1>3, <2>1
    <3>2. \A j \in 1..Len(r) : ~Tells(r[j], f)
      BY <1>0, <1>1, <1>3, <2>1
    <3> QED  BY <3>1, <3>2 DEF Heard
  <2>2. CASE i > 1
    <3>1. i - 1 \in 1..Len(r) /\ Tells(r[i - 1], f) /\ Says(r[i - 1], f) = v
      BY <1>0, <1>1, <1>3, <2>2
    <3>2. \A j \in 1..Len(r) : j > i - 1 => ~Tells(r[j], f)
      BY <1>0, <1>1, <1>3, <2>2
    <3> QED  BY <3>1, <3>2 DEF Heard
  <2> QED  BY <2>1, <2>2
<1> QED  BY <1>2, <1>3 DEF Heard, r

\* The compositor changes in one respect at a time.
Simple(n, m) ==
    \/ m.loc = n.loc /\ m.focus = n.focus
    \/ m.loc = n.loc /\ m.name = n.name
    \/ /\ m.name = n.name /\ m.focus = n.focus
       /\ \E win \in Windows : \A u \in Windows \ {win} : m.loc[u] = n.loc[u]

LEMMA EmitHeard ==
    ASSUME NEW n \in NiriState, NEW m \in NiriState, Simple(n, m), NEW q \in Seq(Event), NEW c,
           \A f \in Facets : Heard(q, c, f, Part(n, f))
    PROVE  \A f \in Facets : Heard(Emit(q, n, m), c, f, Part(m, f))
<1> SUFFICES ASSUME NEW f \in Facets PROVE Heard(Emit(q, n, m), c, f, Part(m, f))
  OBVIOUS
<1>0. /\ Heard(q, c, f, Part(n, f)) /\ f.part \in {"names", "focus", "loc"}
      /\ f.part = "loc" => f.win \in Windows
  BY DEF Facets
<1>f. /\ n.loc \in [Windows -> Place] /\ m.loc \in [Windows -> Place]
      /\ m.focus \in Workspaces /\ m.name \in [Workspaces -> WsName]
  BY DEF NiriState
<1>1. CASE m.name # n.name
  <2>1. PICK e : e = WorkspacesEvent(m)
    OBVIOUS
  <2>2. /\ e \in Event /\ e.type = "WorkspacesChanged" /\ e.names = m.name /\ e.focus = m.focus
    BY <1>f, <2>1 DEF WorkspacesEvent, Event
  <2>3. IF Tells(e, f) THEN Says(e, f) = Part(m, f) ELSE Part(m, f) = Part(n, f)
    BY <1>0, <1>1, <2>2 DEF Tells, Says, Part, Simple
  <2>4. Emit(q, n, m) = Append(q, e)
    BY <1>1, <2>1 DEF Emit
  <2> QED  BY <1>0, <2>2, <2>3, <2>4, HeardAppend
<1>2. CASE m.name = n.name /\ m.focus # n.focus
  <2>1. PICK e : e = WorkspaceActivatedEvent(m.focus)
    OBVIOUS
  <2>2. e \in Event /\ e.type = "WorkspaceActivated" /\ e.ws = m.focus
    BY <1>f, <2>1 DEF WorkspaceActivatedEvent, Event
  <2>3. IF Tells(e, f) THEN Says(e, f) = Part(m, f) ELSE Part(m, f) = Part(n, f)
    BY <1>0, <1>2, <2>2 DEF Tells, Says, Part, Simple
  <2>4. Emit(q, n, m) = Append(q, e)
    BY <1>2, <2>1 DEF Emit
  <2> QED  BY <1>0, <2>2, <2>3, <2>4, HeardAppend
<1>3. CASE m.name = n.name /\ m.focus = n.focus /\ m.loc # n.loc
  <2>1. PICK x \in Windows :
           /\ x = CHOOSE w \in Windows : m.loc[w] # n.loc[w]
           /\ m.loc[x] # n.loc[x]
    BY <1>f, <1>3
  <2>2. \A u \in Windows : u # x => m.loc[u] = n.loc[u]
    BY <1>3, <2>1 DEF Simple
  <2>3. PICK e : e = IF m.loc[x] = NoWs THEN WindowClosedEvent(x)
                     ELSE WindowChangedEvent(x, m.loc[x])
    OBVIOUS
  <2>4. /\ e \in Event /\ e.win = x
        /\ IF m.loc[x] = NoWs THEN e.type = "WindowClosed"
           ELSE e.type = "WindowOpenedOrChanged" /\ e.ws = m.loc[x]
    BY <1>f, <2>1, <2>3 DEF WindowClosedEvent, WindowChangedEvent, Event, Place
  <2>5. IF Tells(e, f) THEN Says(e, f) = Part(m, f) ELSE Part(m, f) = Part(n, f)
    BY <1>0, <1>3, <2>2, <2>4 DEF Tells, Says, Part
  <2>6. Emit(q, n, m) = Append(q, e)
    BY <1>3, <2>1, <2>3 DEF Emit
  <2> QED  BY <1>0, <2>4, <2>5, <2>6, HeardAppend
<1>4. CASE m.name = n.name /\ m.focus = n.focus /\ m.loc = n.loc
  BY <1>0, <1>4 DEF Emit, Part
<1> QED  BY <1>1, <1>2, <1>3, <1>4

LEMMA MoveSimple ==
    ASSUME NEW n \in NiriState, NEW win \in Windows, NEW v
    PROVE  /\ Simple(n, [n EXCEPT !.loc[win] = v])
           /\ \A targets : Simple(n, MoveTo(n, win, targets))
<1>1. \A x : Simple(n, [n EXCEPT !.loc[win] = x])
  BY DEF NiriState, Simple
<1>2. ASSUME NEW targets PROVE Simple(n, MoveTo(n, win, targets))
  <2>1. CASE Open(n, win) /\ targets # {}
    <3> DEFINE x == CHOOSE y \in targets : TRUE
    <3>1. MoveTo(n, win, targets) = [n EXCEPT !.loc[win] = x]
      BY <2>1 DEF MoveTo
    <3> HIDE DEF x
    <3> QED  BY <1>1, <3>1
  <2>2. CASE ~(Open(n, win) /\ targets # {})
    BY <2>2 DEF MoveTo, Simple
  <2> QED  BY <2>1, <2>2
<1> QED  BY <1>1, <1>2

-------------------------------------------------------------------------------
(* Which events are on their way.                                          *)

Events(q) == {q[i] : i \in 1..Len(q)}

LEMMA EventsTail ==
    ASSUME NEW q \in Seq(Event), q # <<>>
    PROVE  Events(q) = {Head(q)} \cup Events(Tail(q)) /\ Events(q) \subseteq Event
<1>0. PICK n \in Nat : n = Len(q)
  OBVIOUS
<1>1. n >= 1 /\ Len(Tail(q)) = n - 1 /\ Head(q) = q[1] /\ \A i \in 1..n - 1 : Tail(q)[i] = q[i + 1]
  BY <1>0
<1>2. \A i \in 1..n : i = 1 \/ (i - 1 \in 1..n - 1 /\ q[i] = Tail(q)[i - 1])
  BY <1>1
<1>3. \A i \in 1..n - 1 : i + 1 \in 1..n
  OBVIOUS
<1> QED  BY <1>0, <1>1, <1>2, <1>3 DEF Events

LEMMA EventsAppend ==
    ASSUME NEW q \in Seq(Event), NEW e \in Event
    PROVE  Events(Append(q, e)) = Events(q) \cup {e}
<1>0. PICK n \in Nat : n = Len(q)
  OBVIOUS
<1>1. PICK r : r = Append(q, e)
  OBVIOUS
<1>2. Len(r) = n + 1 /\ r[n + 1] = e /\ \A i \in 1..n : r[i] = q[i]
  BY <1>0, <1>1
<1>3. \A i \in 1..n + 1 : i = n + 1 \/ i \in 1..n
  OBVIOUS
<1>4. \A i \in 1..n : i \in 1..n + 1
  OBVIOUS
<1>5. \A x \in Events(r) : x \in Events(q) \cup {e}
  BY <1>0, <1>2, <1>3 DEF Events
<1>6. \A x \in Events(q) \cup {e} : x \in Events(r)
  BY <1>0, <1>2, <1>4 DEF Events
<1> QED  BY <1>1, <1>5, <1>6

LEMMA EventsNone == Events(<<>>) = {}
  BY DEF Events

\* The event of a change from n to m.
New(e, n, m) ==
    \/ /\ e.type = "WorkspacesChanged" /\ e.names = m.name /\ e.focus = m.focus
       /\ m.loc = n.loc /\ m.focus = n.focus
    \/ /\ e.type = "WorkspaceActivated" /\ e.ws = m.focus
       /\ m.loc = n.loc /\ m.name = n.name
    \/ /\ e.type = "WindowClosed" /\ e.win \in Windows
       /\ m.loc[e.win] = NoWs /\ n.loc[e.win] # NoWs
       /\ \A u \in Windows \ {e.win} : m.loc[u] = n.loc[u]
       /\ m.name = n.name /\ m.focus = n.focus
    \/ /\ e.type = "WindowOpenedOrChanged" /\ e.win \in Windows /\ e.ws = m.loc[e.win]
       /\ e = WindowChangedEvent(e.win, e.ws)
       /\ e.ws \in Workspaces /\ e.ws # n.loc[e.win]
       /\ \A u \in Windows \ {e.win} : m.loc[u] = n.loc[u]
       /\ m.name = n.name /\ m.focus = n.focus

LEMMA EmitNew ==
    ASSUME NEW n \in NiriState, NEW m \in NiriState, Simple(n, m), NEW q \in Seq(Event)
    PROVE  \/ Emit(q, n, m) = q /\ m.loc = n.loc /\ m.name = n.name /\ m.focus = n.focus
           \/ \E e \in Event : Emit(q, n, m) = Append(q, e) /\ New(e, n, m)
<1>f. /\ n.loc \in [Windows -> Place] /\ m.loc \in [Windows -> Place]
      /\ m.focus \in Workspaces /\ m.name \in [Workspaces -> WsName]
  BY DEF NiriState
<1>1. CASE m.name # n.name
  <2>1. PICK e : e = WorkspacesEvent(m)
    OBVIOUS
  <2>2. /\ e \in Event /\ e.type = "WorkspacesChanged" /\ e.names = m.name /\ e.focus = m.focus
    BY <1>f, <2>1 DEF WorkspacesEvent, Event
  <2>3. New(e, n, m)
    BY <1>1, <2>2 DEF New, Simple
  <2>4. Emit(q, n, m) = Append(q, e)
    BY <1>1, <2>1 DEF Emit
  <2> QED  BY <2>2, <2>3, <2>4
<1>2. CASE m.name = n.name /\ m.focus # n.focus
  <2>1. PICK e : e = WorkspaceActivatedEvent(m.focus)
    OBVIOUS
  <2>2. e \in Event /\ e.type = "WorkspaceActivated" /\ e.ws = m.focus
    BY <1>f, <2>1 DEF WorkspaceActivatedEvent, Event
  <2>3. New(e, n, m)
    BY <1>2, <2>2 DEF New, Simple
  <2>4. Emit(q, n, m) = Append(q, e)
    BY <1>2, <2>1 DEF Emit
  <2> QED  BY <2>2, <2>3, <2>4
<1>3. CASE m.name = n.name /\ m.focus = n.focus /\ m.loc # n.loc
  <2>1. PICK x \in Windows :
           /\ x = CHOOSE w \in Windows : m.loc[w] # n.loc[w]
           /\ m.loc[x] # n.loc[x]
    BY <1>f, <1>3
  <2>2. \A u \in Windows \ {x} : m.loc[u] = n.loc[u]
    BY <1>3, <2>1 DEF Simple
  <2>3. CASE m.loc[x] = NoWs
    <3>1. PICK e : e = WindowClosedEvent(x)
      OBVIOUS
    <3>2. e \in Event /\ e.win = x /\ e.type = "WindowClosed"
      BY <3>1 DEF WindowClosedEvent, Event
    <3>3. New(e, n, m)
      BY <1>3, <2>1, <2>2, <2>3, <3>2 DEF New
    <3>4. Emit(q, n, m) = Append(q, e)
      BY <1>3, <2>1, <2>3, <3>1 DEF Emit
    <3> QED  BY <3>2, <3>3, <3>4
  <2>4. CASE m.loc[x] # NoWs
    <3>1. PICK e : e = WindowChangedEvent(x, m.loc[x])
      OBVIOUS
    <3>2. /\ e \in Event /\ e.win = x /\ e.type = "WindowOpenedOrChanged" /\ e.ws = m.loc[x]
          /\ e.ws \in Workspaces
      BY <1>f, <2>4, <3>1 DEF WindowChangedEvent, Event, Place
    <3>3. New(e, n, m)
      BY <1>3, <2>1, <2>2, <2>4, <3>1, <3>2 DEF New
    <3>4. Emit(q, n, m) = Append(q, e)
      BY <1>3, <2>1, <2>4, <3>1 DEF Emit
    <3> QED  BY <3>2, <3>3, <3>4
  <2> QED  BY <2>3, <2>4
<1>4. CASE m.name = n.name /\ m.focus = n.focus /\ m.loc = n.loc
  BY <1>4 DEF Emit
<1> QED  BY <1>1, <1>2, <1>3, <1>4

-------------------------------------------------------------------------------
(* What each request does, in the terms of the invariant. *)

\* The requests one by one.
LEMMA Requests ==
    /\ \A n, ws, name : AfterAction(n, SetWorkspaceName(ws, name)) = SetNameTo(n, ws, name)
    /\ \A n, name : AfterAction(n, UnsetWorkspaceName(name)) = UnsetName(n, name)
    /\ \A n, win, name : AfterAction(n, MoveWindowToWorkspaceName(win, name))
                            = MoveTo(n, win, Named(n, name))
    /\ \A n, win, ws : AfterAction(n, MoveWindowToWorkspace(win, ws))
                          = MoveTo(n, win, {x \in {ws} \cap Workspaces : Exists(n, x)})
    /\ \A n, ws : AfterAction(n, FocusWorkspace(ws)) = FocusOn(n, ws)
    /\ \A n, win : AfterAction(n, FocusWindow(win)) = FocusOn(n, n.loc[win])
    /\ \A n, win : AfterAction(n, Relayout(win)) = n
<1>1. \A n, ws, name : AfterAction(n, SetWorkspaceName(ws, name)) = SetNameTo(n, ws, name)
  BY DEF AfterAction, SetWorkspaceName
<1>2. \A n, name : AfterAction(n, UnsetWorkspaceName(name)) = UnsetName(n, name)
  BY DEF AfterAction, UnsetWorkspaceName
<1>3. \A n, win, name : AfterAction(n, MoveWindowToWorkspaceName(win, name))
                           = MoveTo(n, win, Named(n, name))
  BY DEF AfterAction, MoveWindowToWorkspaceName
<1>4. \A n, win, ws : AfterAction(n, MoveWindowToWorkspace(win, ws))
                         = MoveTo(n, win, {x \in {ws} \cap Workspaces : Exists(n, x)})
  BY DEF AfterAction, MoveWindowToWorkspace
<1>5. \A n, ws : AfterAction(n, FocusWorkspace(ws)) = FocusOn(n, ws)
  BY DEF AfterAction, FocusWorkspace
<1>6. \A n, win : AfterAction(n, FocusWindow(win)) = FocusOn(n, n.loc[win])
  BY DEF AfterAction, FocusWindow
<1>7. \A n, win : AfterAction(n, Relayout(win)) = n
  BY DEF AfterAction, Relayout
<1> QED  BY <1>1, <1>2, <1>3, <1>4, <1>5, <1>6, <1>7

\* Every request changes the compositor in one respect.
LEMMA ActionSimple ==
    ASSUME NEW n \in NiriState, NEW a \in Action
    PROVE  Simple(n, AfterAction(n, a))
<1>1. Simple(n, n)
  BY DEF Simple
<1>2. \A ws, name : Simple(n, SetNameTo(n, ws, name)) /\ Simple(n, UnsetName(n, name))
  BY <1>1 DEF Simple, SetNameTo, UnsetName, NiriState
<1>3. \A ws : Simple(n, FocusOn(n, ws))
  BY <1>1 DEF Simple, FocusOn, NiriState
<1>4. CASE a.win \in Windows
  <2>1. \A targets : Simple(n, MoveTo(n, a.win, targets))
    BY <1>4, MoveSimple
  <2> QED  BY <1>1, <1>2, <1>3, <2>1 DEF AfterAction
<1>5. CASE a.win \notin Windows
  <2>1. a.kind \in ActionKinds
    BY DEF Action
  <2> SUFFICES \A targets : Simple(n, MoveTo(n, a.win, targets))
    BY <1>1, <1>2, <1>3 DEF AfterAction
  <2>2. ASSUME NEW x PROVE Simple(n, [n EXCEPT !.loc[a.win] = x])
    BY <1>5 DEF NiriState, Simple
  <2> SUFFICES ASSUME NEW targets PROVE Simple(n, MoveTo(n, a.win, targets))
    OBVIOUS
  <2>3. CASE Open(n, a.win) /\ targets # {}
    <3> DEFINE x == CHOOSE y \in targets : TRUE
    <3>1. MoveTo(n, a.win, targets) = [n EXCEPT !.loc[a.win] = x]
      BY <2>3 DEF MoveTo
    <3> HIDE DEF x
    <3> QED  BY <2>2, <3>1
  <2>4. CASE ~(Open(n, a.win) /\ targets # {})
    BY <1>1, <2>4 DEF MoveTo
  <2> QED  BY <2>3, <2>4
<1> QED  BY <1>4, <1>5

\* Where a move puts the window.
LEMMA MoveEffect ==
    ASSUME NEW n \in NiriState, NEW win \in Windows, NEW targets \in SUBSET Workspaces
    PROVE  /\ MoveTo(n, win, targets).name = n.name
           /\ \A u \in Windows \ {win} : MoveTo(n, win, targets).loc[u] = n.loc[u]
           /\ Open(n, win) /\ targets # {} => MoveTo(n, win, targets).loc[win] \in targets
           /\ ~(Open(n, win) /\ targets # {}) => MoveTo(n, win, targets) = n
<1>1. CASE Open(n, win) /\ targets # {}
  <2> DEFINE x == CHOOSE y \in targets : TRUE
  <2>1. MoveTo(n, win, targets) = [n EXCEPT !.loc[win] = x] /\ x \in targets
    BY <1>1 DEF MoveTo
  <2> HIDE DEF x
  <2>2. n.loc \in [Windows -> Place]
    BY DEF NiriState
  <2>3. [n EXCEPT !.loc[win] = x].loc = [n.loc EXCEPT ![win] = x]
        /\ [n EXCEPT !.loc[win] = x].name = n.name
    BY DEF NiriState
  <2> QED  BY <1>1, <2>1, <2>2, <2>3
<1>2. CASE ~(Open(n, win) /\ targets # {})
  BY <1>2 DEF MoveTo
<1> QED  BY <1>1, <1>2
===============================================================================

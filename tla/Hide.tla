--------------------------------- MODULE Hide ---------------------------------
(***************************************************************************)
(* The guarded hide/restore transaction of niripipd.                       *)
(*                                                                         *)
(* Every client request is a task of its own (run_cli_server spawns one    *)
(* per connection), and the Niri supervisor is one more.  They share the   *)
(* Engine behind one mutex, which is held for a single engine call and     *)
(* never across an IPC request.  So the atomic steps are: one engine call  *)
(* (plan, commit, plan of a compensation, one event handler), and one IPC  *)
(* action, which changes the compositor and puts its event on the stream.  *)
(* In between anything else may run: that is where the hide transaction    *)
(* can go wrong.                                                           *)
(*                                                                         *)
(* The engine's minimized Vec is a set of entries with their rank `at`;    *)
(* a plan (Vec<Effect>) is a set of numbered actions, executed in order.   *)
(***************************************************************************)
EXTENDS NiriCompositor, FiniteSets

CONSTANTS Tasks,          \* client requests, each served once
          Output,           \* the output of each workspace
          Floating,         \* the windows that float (the others are tiled)
          RestoreFocus,     \* config.minimize.restore_focus
          MaxInFlight,      \* bound: requests served at the same time
          MaxMoves,         \* bound: moves under way after a debounce
          ClientsWait,      \* clients send a request only to a daemon that has
                            \* handled every event so far
          Limits,           \* bound: how often the world may do each thing
          MaxHappenings,    \* bound: how many things the world does in all
          InitialNiri       \* the compositor states the system may start in

\* What the daemon does not decide: the user's actions, the ones of Niri on its
\* own account, a reload of the configuration, failures.
Happenings == {"focus", "close", "move", "drop", "pin", "reload",
               "fault", "cut", "crash", "niri"}

ASSUME HideAssumption ==
    /\ Floating \subseteq Windows
    /\ RestoreFocus \in BOOLEAN
    /\ ClientsWait \in BOOLEAN /\ MaxMoves \in Nat
    /\ Limits \in [Happenings -> Nat] /\ MaxHappenings \in Nat
    /\ InitialNiri \subseteq NiriState

VARIABLES
    niri,           \* the compositor
    niriSession,    \* its session key: a new one for every start of Niri
    queue,          \* events emitted and not yet handled
    link,           \* the daemon: not running, no stream, streaming, stream cut
    booted,         \* a WindowsChanged was handled since the daemon started
    windows,        \* engine: workspace of each cached window
    names,          \* engine: name of each cached workspace
    focused,        \* engine: focused_workspace
    prevFocused,    \* engine: previous_focused_workspace
    tracked,        \* engine: the ids of the tracked (PiP, pinned) windows
    moves,          \* moves of tracked windows that requests and debounce tasks
                    \* have not yet executed
    stack,          \* engine: persistent.minimized
    padName,        \* engine: config.minimize.scratchpad_name
    pushes,         \* history: how many entries were ever pushed
    dirty,          \* engine: persistent_dirty
    session,        \* the session key the daemon started with
    saving,         \* states that were taken to be saved and are not written yet
    disk,           \* the state file: the stack and its session key
    task,           \* the client requests
    loop,           \* what the supervisor has left to execute for its event
    budget,         \* what is left of Limits
    happenings      \* what is left of MaxHappenings

compositor == <<niri, niriSession, queue>>
cache      == <<windows, names, focused, prevFocused, booted>>
config     == <<padName, session, pushes>>
saved      == <<saving, disk>>
world      == <<budget, happenings>>
vars == <<niri, niriSession, queue, link, booted, windows, names, focused,
          prevFocused, tracked, moves, stack, pushes, padName, dirty, session, saving, disk,
          task, loop, budget, happenings>>

-------------------------------------------------------------------------------
(* Types *)

\* MinimizedWindowState: the window, its origin workspace and its rank in the
\* Vec.  `ses` is a history value: the Niri session the window id belongs to.
Entry == [win : Windows, origin : Place, at : Nat, ses : Nat]
\* The entries of the Vec itself: their origin was the workspace of an open
\* window, and ranks count from 1.
Stacked == {e \in Entry : e.origin # NoWs /\ e.at > 0}
Step  == [at : Nat, act : Action]
\* MinimizeApplication (kind "hide") and RestoreApplication (kind "restore").
Application == [kind : {"none", "hide", "restore"}, entries : SUBSET Entry,
                pad : Place, cleanup : BOOLEAN, wasFocused : BOOLEAN]
NoApplication == [kind |-> "none", entries |-> {}, pad |-> NoWs,
                  cleanup |-> FALSE, wasFocused |-> FALSE]
Task == [pc : {"idle", "acting", "failed", "undoing", "done"},
         app : Application, plan : SUBSET Step]
IdleTask == [pc |-> "idle", app |-> NoApplication, plan |-> {}]
DoneTask == [IdleTask EXCEPT !.pc = "done"]
Disk == [stack : SUBSET Stacked, session : Nat]

TypeOK ==
    /\ niri \in NiriState
    /\ niriSession \in Nat
    /\ queue \in Seq(Event)
    /\ link \in {"down", "off", "on", "cut"}
    /\ booted \in BOOLEAN
    /\ windows \in [Windows -> Place]
    /\ names \in [Workspaces -> WsName]
    /\ focused \in Place
    /\ prevFocused \in Place
    /\ tracked \subseteq Windows
    /\ moves \subseteq Step
    /\ stack \subseteq Stacked
    /\ pushes \in Nat
    /\ padName \in Names
    /\ dirty \in BOOLEAN
    /\ session \in Nat
    /\ saving \subseteq Disk
    /\ disk \in Disk
    /\ task \in [Tasks -> Task]
    /\ loop \subseteq Step
    /\ budget \in [Happenings -> Nat]
    /\ happenings \in Nat

-------------------------------------------------------------------------------
(* Queries of the engine *)

Known(ws)     == ws \in Workspaces /\ names[ws] # Gone
Cached(win)   == windows[win] # NoWs
Hidden        == {e.win : e \in stack}
Pads          == {ws \in Workspaces : names[ws] = padName}
IsNormal(ws)  == Known(ws) /\ ws \notin Pads

\* The entry that was pushed last.
Newest(entries) == {e \in entries : \A f \in entries : f.at <= e.at}
NextRankAtFront == 0
NextRank == pushes + 1

\* scratchpad_has_foreign_windows
HasForeign(ws) == \E win \in Windows : windows[win] = ws /\ win \notin Hidden

\* empty_workspace_for: an unnamed empty workspace other than the window's own,
\* on the window's output if there is one.
EmptyWorkspacesFor(win) ==
    LET free == {ws \in Workspaces : /\ names[ws] = NoName
                                     /\ ws # windows[win]
                                     /\ \A w \in Windows : windows[w] # ws}
        near == {ws \in free : Known(windows[win])
                                /\ Output[ws] = Output[windows[win]]}
    IN  IF near # {} THEN near ELSE free

\* hidden_guard_target: where the guard may send the focus.
GuardTargets ==
    LET origins == {e \in stack : IsNormal(e.origin)}
        near(pad) == {ws \in Workspaces : IsNormal(ws) /\ Output[ws] = Output[pad]}
        normal  == {ws \in Workspaces : IsNormal(ws)}
    IN  IF IsNormal(prevFocused) THEN {prevFocused}
        ELSE IF origins # {} THEN {e.origin : e \in Newest(origins)}
        ELSE UNION {IF near(pad) # {} THEN near(pad) ELSE normal : pad \in Pads}

-------------------------------------------------------------------------------
(* Plans.  An operator that can answer with an error, or that takes the    *)
(* first match of a HashMap, is the set of the results it may have.        *)

Just(act) == {[at |-> 0, act |-> act]}

\* Engine::minimize for a window.
HidePlans(win) ==
    LET entry == [win |-> win, origin |-> windows[win], at |-> 0, ses |-> session]
        move  == [at |-> 1, act |-> MoveWindowToWorkspaceName(win, padName)]
        plan(pad, steps) ==
            {[app |-> [kind |-> "hide", entries |-> {entry}, pad |-> pad,
                       cleanup |-> FALSE, wasFocused |-> f],
              plan |-> steps \cup {move}] : f \in {FALSE, windows[win] = focused}}
    IN  IF win \in tracked \/ win \in Hidden \/ ~Cached(win) THEN {}
        ELSE IF Pads # {}
        THEN IF stack # {} /\ \E pad \in Pads : ~HasForeign(pad)
             THEN plan(NoWs, {}) ELSE {}
        ELSE UNION {plan(ws, Just(SetWorkspaceName(ws, padName))) :
                        ws \in EmptyWorkspacesFor(win)}

\* The workspace an entry goes back to; NoWs if there is none.
RestoreTargetInFocus(e) == focused
RestoreTarget(e) == IF Known(e.origin) THEN e.origin ELSE focused

\* restore_effects_for
RestoreSteps(e, focus) ==
    LET target == RestoreTarget(e) IN
    {s \in {[at |-> 4 * e.at,     act |-> MoveWindowToWorkspace(e.win, target)],
            [at |-> 4 * e.at + 1, act |-> Relayout(e.win)],
            [at |-> 4 * e.at + 2, act |-> FocusWindow(e.win)]} :
        /\ s.act.kind = "MoveWindowToWorkspace" => windows[e.win] # target
        /\ s.act.kind = "Relayout" => e.win \notin Floating
        /\ s.act.kind = "FocusWindow" => focus /\ RestoreFocus}

\* cleanup_scratchpad: the restore drops the name with the last managed window.
DropsName(entries, pad) == entries = stack /\ ~HasForeign(pad)

\* Engine::restore_minimized (one entry) and restore_all_minimized (all of them):
\* the newest of the entries gets the focus.
RestorePlans(entries) ==
    LET steps == UNION {RestoreSteps(e, e \in Newest(entries)) : e \in entries}
        unset == [at |-> 4 * NextRank, act |-> UnsetWorkspaceName(padName)]
        plan(pad, drop) ==
            [app |-> [kind |-> "restore", entries |-> entries, pad |-> pad,
                      cleanup |-> drop, wasFocused |-> FALSE],
             plan |-> IF drop THEN steps \cup {unset} ELSE steps]
    IN  IF entries = {} \/ \E e \in entries : ~Cached(e.win) \/ RestoreTarget(e) = NoWs
        THEN {}
        ELSE {plan(pad, DropsName(entries, pad)) : pad \in Pads}

\* compensate_minimize and compensate_restore.
UndoHideSteps(app) ==
    UNION {{s \in {[at |-> 1, act |-> MoveWindowToWorkspace(e.win, e.origin)],
                   [at |-> 2, act |-> FocusWindow(e.win)],
                   [at |-> 3, act |-> UnsetWorkspaceName(padName)]} :
                /\ s.at = 1 => Known(e.origin)
                /\ s.at = 2 => app.wasFocused
                /\ s.at = 3 => app.pad # NoWs} : e \in app.entries}
UndoRestoreSteps(app) ==
    Just(SetWorkspaceName(app.pad, padName)) \cup
    UNION {{[at |-> 2 * e.at + 1, act |-> MoveWindowToWorkspaceName(e.win, padName)],
            [at |-> 2 * e.at + 2, act |-> Relayout(e.win)]} : e \in app.entries}
UndoSteps(app) == IF app.kind = "hide" THEN UndoHideSteps(app) ELSE UndoRestoreSteps(app)

NextStep(plan) == {s \in plan : \A r \in plan : s.at <= r.at}

\* scratchpad_cleanup_effect, for a given cache and stack.
CleanupPlans(loc, entries) ==
    LET foreign(pad) == \E win \in Windows : loc[win] = pad
                                /\ win \notin {e.win : e \in entries}
    IN  IF entries = {}
        THEN {IF foreign(pad) THEN {} ELSE Just(UnsetWorkspaceName(padName)) : pad \in Pads}
             \cup (IF Pads = {} THEN {{}} ELSE {})
        ELSE {{}}

\* reconcile_workspace_follow_for: the moves that bring windows to the focus.
FollowSteps(wins) ==
    {[at |-> 0, act |-> MoveWindowToWorkspace(win, focused)] :
        win \in {w \in wins : focused # NoWs /\ windows[w] \notin {NoWs, focused}}}

\* The tests of commit_minimize, in the state that the commit finds.
StillOpenUnchecked(e) == TRUE
StillOpen(e) == Cached(e.win)
AlreadyHiddenUnchecked(e) == FALSE
AlreadyHidden(e) == e.win \in Hidden

\* mark_persistent_dirty, called by whoever changes the stack to s.
Dirtied(s) == dirty \/ s # stack

\* normalize_persistent_niri_session
LoadedStackAsIs == disk.stack
LoadedStack == IF disk.session = niriSession THEN disk.stack ELSE {}

-------------------------------------------------------------------------------
Init ==
    /\ niri \in InitialNiri
    /\ niriSession = 1
    /\ queue = <<>>
    /\ link = "down"
    /\ booted = FALSE
    /\ windows = [win \in Windows |-> NoWs]
    /\ names = [ws \in Workspaces |-> Gone]
    /\ focused = NoWs
    /\ prevFocused = NoWs
    /\ tracked = {}
    /\ moves = {}
    /\ stack = {}
    /\ pushes = 0
    /\ padName \in Names
    /\ dirty = FALSE
    /\ session = 0
    /\ saving = {}
    /\ disk = [stack |-> {}, session |-> 0]
    /\ task = [t \in Tasks |-> IdleTask]
    /\ loop = {}
    /\ budget = Limits
    /\ happenings = MaxHappenings

-------------------------------------------------------------------------------
(* The compositor changes its state: niri', and its event if the daemon listens. *)

NiriBecomes(m) ==
    /\ niri' = m
    /\ queue' = IF link = "on" THEN Emit(queue, niri, m) ELSE queue

Spend(what) ==
    /\ budget[what] > 0 /\ happenings > 0
    /\ budget' = [budget EXCEPT ![what] = @ - 1]
    /\ happenings' = happenings - 1

(* Client requests *)

InFlight == {t \in Tasks : task[t].pc \in {"acting", "failed", "undoing"}}

Begin(t, p) == task' = [task EXCEPT ![t] = [pc |-> "acting", app |-> p.app, plan |-> p.plan]]

\* Every event that Niri emitted has been handled.
CaughtUp == link = "on" /\ booted /\ queue = <<>> /\ loop = {}

CanBegin(t) ==
    /\ link # "down"
    /\ task[t].pc = "idle"
    /\ Cardinality(InFlight) < MaxInFlight
    /\ ClientsWait => CaughtUp

\* DaemonRequest::Minimize, first lock.  A refused request changes nothing.
StartHide(t, win) ==
    /\ CanBegin(t)
    /\ \E p \in HidePlans(win) : Begin(t, p)
    /\ UNCHANGED <<compositor, link, cache, tracked, moves, stack, config, dirty, saved,
                   loop, world>>

\* DaemonRequest::RestoreMinimized with an id; without one it takes the newest.
StartRestore(t, e) ==
    /\ CanBegin(t)
    /\ \E p \in RestorePlans({e}) : Begin(t, p)
    /\ UNCHANGED <<compositor, link, cache, tracked, moves, stack, config, dirty, saved,
                   loop, world>>

\* DaemonRequest::RestoreAllMinimized
StartRestoreAll(t) ==
    /\ CanBegin(t)
    /\ \E p \in RestorePlans(stack) : Begin(t, p)
    /\ UNCHANGED <<compositor, link, cache, tracked, moves, stack, config, dirty, saved,
                   loop, world>>

\* execute_effects: one action of the plan, answered Handled.
Act(t) ==
    /\ task[t].pc = "acting"
    /\ session = niriSession
    /\ \E s \in NextStep(task[t].plan) :
        /\ NiriBecomes(AfterAction(niri, s.act))
        /\ task' = [task EXCEPT ![t].plan = @ \ {s}]
    /\ UNCHANGED <<niriSession, link, cache, tracked, moves, stack, config, dirty, saved,
                   loop, world>>

\* The action fails, or it was done and only the answer got lost; the rest of
\* the plan is dropped.  Against a Niri that is gone every action fails.
ActFails(t) ==
    /\ task[t].pc = "acting"
    /\ task[t].plan # {}
    /\ IF session # niriSession
       THEN UNCHANGED <<niri, queue, world>>
       ELSE /\ Spend("fault")
            /\ \/ \E s \in NextStep(task[t].plan) : NiriBecomes(AfterAction(niri, s.act))
               \/ UNCHANGED <<niri, queue>>
    /\ task' = [task EXCEPT ![t].pc = "failed", ![t].plan = {}]
    /\ UNCHANGED <<niriSession, link, cache, tracked, moves, stack, config, dirty, saved, loop>>

CommittingUnexecuted(t, kind) == task[t].pc = "acting" /\ task[t].app.kind = kind
Committing(t, kind) ==
    /\ task[t].pc = "acting"
    /\ task[t].plan = {}
    /\ task[t].app.kind = kind

\* commit_minimize: the window must still be cached; an entry is never pushed twice.
CommitHide(t) ==
    /\ Committing(t, "hide")
    /\ \E e \in task[t].app.entries :
        IF ~StillOpen(e)
        THEN /\ task' = [task EXCEPT ![t].pc = "failed"]
             /\ UNCHANGED <<stack, pushes, names, dirty>>
        ELSE /\ task' = [task EXCEPT ![t] = DoneTask]
             /\ IF AlreadyHidden(e)
                THEN UNCHANGED <<stack, pushes, names, dirty>>
                ELSE /\ pushes' = pushes + 1
                     /\ stack' = stack \cup {[e EXCEPT !.at = NextRank]}
                     /\ names' = [ws \in Workspaces |->
                                    IF ws = task[t].app.pad /\ Known(ws)
                                    THEN padName ELSE names[ws]]
                     /\ dirty' = Dirtied(stack')
    /\ UNCHANGED <<compositor, link, windows, focused, prevFocused, booted,
                   tracked, moves, padName, session, saved, loop, world>>

\* commit_restore
CommitRestore(t) ==
    /\ Committing(t, "restore")
    /\ LET app == task[t].app
           restored == {e.win : e \in app.entries}
       IN  /\ stack' = {e \in stack : e.win \notin restored}
           /\ names' = [ws \in Workspaces |->
                            IF app.cleanup /\ ws = app.pad /\ names[ws] = padName
                            THEN NoName ELSE names[ws]]
           /\ dirty' = Dirtied(stack')
    /\ task' = [task EXCEPT ![t] = DoneTask]
    /\ UNCHANGED <<compositor, link, windows, focused, prevFocused, booted,
                   tracked, moves, config, saved, loop, world>>

\* The second lock of a failed request: compute the compensation.
PlanUndo(t) ==
    /\ task[t].pc = "failed"
    /\ task' = [task EXCEPT ![t].pc = "undoing", ![t].plan = UndoSteps(task[t].app)]
    /\ UNCHANGED <<compositor, link, cache, tracked, moves, stack, config, dirty, saved,
                   loop, world>>

(* Best-effort execution: an action that fails is logged and skipped.  The     *)
(* step s is done, or not done and the failure is paid for.                    *)
BestEffort(s) ==
    \/ /\ session = niriSession
       /\ NiriBecomes(AfterAction(niri, s.act))
       /\ UNCHANGED world
    \/ /\ session = niriSession
       /\ Spend("fault")
       /\ UNCHANGED <<niri, queue>>
    \/ /\ session # niriSession
       /\ UNCHANGED <<niri, queue, world>>

\* execute_effects_best_effort of the compensation.
Undo(t) ==
    /\ task[t].pc = "undoing"
    /\ \E s \in NextStep(task[t].plan) :
        /\ BestEffort(s)
        /\ task' = [task EXCEPT ![t].plan = @ \ {s}]
    /\ UNCHANGED <<niriSession, link, cache, tracked, moves, stack, config, dirty, saved, loop>>

\* The request is answered with the error.
GiveUp(t) ==
    /\ task[t].pc = "undoing"
    /\ task[t].plan = {}
    /\ task' = [task EXCEPT ![t] = DoneTask]
    /\ UNCHANGED <<compositor, link, cache, tracked, moves, stack, config, dirty, saved,
                   loop, world>>

\* A task executes a move of a pin, overlay or unpin, or of the debounce.
MoveTracked ==
    /\ \E s \in moves : BestEffort(s) /\ moves' = moves \ {s}
    /\ UNCHANGED <<niriSession, link, cache, tracked, stack, config, dirty, saved, task, loop>>

\* ReloadConfig, first lock: replace_config may rename the scratchpad.
ReloadConfig(name) ==
    /\ link # "down"
    /\ name # padName
    /\ Spend("reload")
    /\ padName' = name
    /\ UNCHANGED <<compositor, link, cache, tracked, moves, stack, session, pushes, dirty, saved,
                   task, loop>>

\* pin, overlay and the first classification of a window add its id to the tracked
\* map and may send it to the focused workspace; what they plan under the lock is
\* executed without it.  A request looks at no entry of the hidden stack; only the
\* classification leaves hidden windows alone.
Pin(win) ==
    /\ link # "down"
    /\ Cached(win)
    /\ Spend("pin")
    /\ tracked' = tracked \cup {win}
    /\ moves' \in {moves, moves \cup FollowSteps({win})}
    /\ UNCHANGED <<compositor, link, cache, stack, config, dirty, saved, task, loop>>

\* unpin removes the id, and may send the window back to where it was pinned.
Unpin(win) ==
    /\ link # "down"
    /\ win \in tracked
    /\ Spend("pin")
    /\ tracked' = tracked \ {win}
    /\ moves' \in {moves} \cup {moves \cup Just(MoveWindowToWorkspace(win, ws)) :
                                    ws \in {w \in Workspaces : Known(w) /\ w # windows[win]}}
    /\ UNCHANGED <<compositor, link, cache, stack, config, dirty, saved, task, loop>>

-------------------------------------------------------------------------------
(* The supervisor: Engine::handle_event, one event at a time; the effects   *)
(* are executed before the next event is taken.                             *)

Receive(type) ==
    /\ link \in {"on", "cut"}
    /\ loop = {}
    /\ queue # <<>>
    /\ Head(queue).type = type
    /\ queue' = Tail(queue)
    /\ UNCHANGED <<niri, niriSession, link, moves, config, saved, task, world>>

\* previous_focused_workspace once ws gets the focus under the cached names nm:
\* the scratchpad and a workspace that is gone are never remembered.
Previous(ws, nm) ==
    IF focused # ws /\ focused \in Workspaces /\ nm[focused] \notin {Gone, padName}
    THEN focused ELSE prevFocused

\* hidden_workspace_guard_effect, in the state the handler leaves behind.
GuardOffByOne ==
    IF Cardinality(stack) > 1 /\ focused \in Pads
    THEN {Just(FocusWorkspace(ws)) : ws \in GuardTargets}
    ELSE {{}}
Guard ==
    IF stack # {} /\ focused \in Pads /\ GuardTargets # {}
    THEN {Just(FocusWorkspace(ws)) : ws \in GuardTargets}
    ELSE {{}}

\* Without a guard effect the tracked windows follow, those that are to.
GuardOrFollow == IF Guard = {{}} THEN SUBSET FollowSteps(tracked) ELSE Guard

HandleWorkspacesChanged ==
    /\ Receive("WorkspacesChanged")
    /\ names' = Head(queue).names
    /\ focused' = Head(queue).focus
    /\ prevFocused' = Previous(Head(queue).focus, Head(queue).names)
    /\ UNCHANGED <<windows, booted, tracked, stack, dirty>>
    /\ loop' \in GuardOrFollow'

HandleWorkspaceActivated ==
    /\ Receive("WorkspaceActivated")
    /\ focused' = Head(queue).ws
    /\ prevFocused' = Previous(Head(queue).ws, names)
    /\ UNCHANGED <<names, windows, booted, tracked, stack, dirty>>
    /\ loop' \in Guard'

HandleWindowClosed ==
    /\ Receive("WindowClosed")
    /\ LET win == Head(queue).win IN
        /\ windows' = [windows EXCEPT ![win] = NoWs]
        /\ tracked' = tracked \ {win}
        /\ stack' = {e \in stack : e.win # win}
    /\ dirty' = Dirtied(stack')
    /\ loop' \in CleanupPlans(windows', stack')
    /\ UNCHANGED <<names, focused, prevFocused, booted>>

\* replace_windows
HandleWindowsChanged ==
    /\ Receive("WindowsChanged")
    /\ windows' = Head(queue).loc
    /\ booted' = TRUE
    /\ tracked' = {win \in tracked : windows'[win] # NoWs}
    /\ stack' = {e \in stack : windows'[e.win] # NoWs}
    /\ dirty' = Dirtied(stack')
    /\ loop' \in CleanupPlans(windows', stack')
    /\ UNCHANGED <<names, focused, prevFocused>>

\* upsert_window; it never moves a tracked window to another workspace.
HandleWindowChanged ==
    /\ Receive("WindowOpenedOrChanged")
    /\ windows' = [windows EXCEPT ![Head(queue).win] = Head(queue).ws]
    /\ UNCHANGED <<names, focused, prevFocused, booted, tracked, stack, dirty, loop>>

\* The debounce after a change of the focus is over: reconcile_workspace_follow, in a
\* task of its own.
FocusDebounced ==
    /\ \E plan \in (SUBSET FollowSteps(tracked)) \ {{}} : moves' = moves \cup plan
    /\ Cardinality(moves') <= MaxMoves
    /\ UNCHANGED <<compositor, link, cache, tracked, stack, config, dirty, saved, task, loop,
                   world>>

\* execute_effects_best_effort of an event's effects.
LoopAct ==
    /\ \E s \in NextStep(loop) : BestEffort(s) /\ loop' = loop \ {s}
    /\ UNCHANGED <<niriSession, link, cache, tracked, moves, stack, config, dirty, saved, task>>

-------------------------------------------------------------------------------
(* Connection, persistence, crash and restart *)

\* run_niri_connection: subscribe; Niri answers with its whole state first.
Connect ==
    /\ link = "off"
    /\ session = niriSession
    /\ link' = "on"
    /\ queue' = Bootstrap(niri)
    /\ UNCHANGED <<niri, niriSession, cache, tracked, moves, stack, config, dirty, saved,
                   task, loop, world>>

\* The stream breaks: what was received is still handled, the rest is lost.
CutStream ==
    /\ link = "on"
    /\ Spend("cut")
    /\ link' = "cut"
    /\ UNCHANGED <<compositor, cache, tracked, moves, stack, config, dirty, saved, task, loop>>

StreamEnded ==
    /\ link = "cut"
    /\ queue = <<>>
    /\ loop = {}
    /\ link' = "off"
    /\ UNCHANGED <<compositor, cache, tracked, moves, stack, config, dirty, saved, task,
                   loop, world>>

\* persist_if_dirty, after every request and on every tick, is served by several
\* tasks at once.  Its first half takes the state and clears the mark...
Snapshot == [stack |-> stack, session |-> session]
Unsaved  == saving \cup (IF dirty THEN {Snapshot} ELSE {})

TakeState ==
    /\ link # "down"
    /\ dirty
    /\ saving' = saving \cup {Snapshot}
    /\ dirty' = FALSE
    /\ UNCHANGED <<compositor, link, cache, tracked, moves, stack, config, disk, task, loop, world>>

\* ... its second half, on a blocking thread, replaces the file, or fails.
Save(s) ==
    /\ saving' = saving \ {s}
    /\ \/ disk' = s /\ UNCHANGED world
       \/ Spend("fault") /\ UNCHANGED disk
    /\ UNCHANGED <<compositor, link, cache, tracked, moves, stack, config, dirty, task, loop>>

\* The process is gone, with everything but the state file.
Die ==
    /\ link' = "down"
    /\ queue' = <<>>
    /\ booted' = FALSE
    /\ windows' = [win \in Windows |-> NoWs]
    /\ names' = [ws \in Workspaces |-> Gone]
    /\ focused' = NoWs
    /\ prevFocused' = NoWs
    /\ tracked' = {}
    /\ moves' = {}
    /\ stack' = {}
    /\ dirty' = FALSE
    /\ saving' = {}
    /\ loop' = {}
    /\ task' = [t \in Tasks |-> IF t \in InFlight THEN DoneTask ELSE task[t]]
    /\ UNCHANGED <<niri, niriSession, config>>

Crash == link # "down" /\ Spend("crash") /\ UNCHANGED disk /\ Die

\* The end of main: a last persist_if_dirty, beside the saves that are under way.
Shutdown == disk' \in {disk} \cup Unsaved /\ Die

Terminated == link # "down" /\ Spend("crash") /\ Shutdown

\* The supervisor finds that the owner of NIRI_SOCKET is gone.
OwnerGone == link = "off" /\ session # niriSession /\ UNCHANGED world /\ Shutdown

\* main: load the state file, drop the entries of another session, save it.
Restart ==
    /\ link = "down"
    /\ link' = "off"
    /\ session' = niriSession
    /\ stack' = LoadedStack
    /\ disk' = [stack |-> stack', session |-> niriSession]
    /\ UNCHANGED <<compositor, cache, tracked, moves, padName, pushes, dirty, saving, task,
                   loop, world>>

-------------------------------------------------------------------------------
(* The user, and Niri on its own account *)

Environment(what, m) ==
    /\ Spend(what)
    /\ NiriBecomes(m)
    /\ UNCHANGED <<niriSession, link, cache, tracked, moves, stack, config, dirty, saved, task,
                   loop>>

UserFocuses(ws) == Exists(niri, ws) /\ niri.focus # ws /\ Environment("focus", FocusOn(niri, ws))
UserCloses(win) ==
    /\ Open(niri, win)
    /\ Environment("close", [niri EXCEPT !.loc[win] = NoWs])
UserMoves(win, ws) ==
    /\ Open(niri, win)
    /\ Exists(niri, ws)
    /\ niri.loc[win] # ws
    /\ Environment("move", MoveTo(niri, win, {ws}))

\* Niri drops an unnamed workspace that is empty and not in focus.
NiriDrops(ws) ==
    /\ niri.name[ws] = NoName
    /\ niri.focus # ws
    /\ \A win \in Windows : niri.loc[win] # ws
    /\ Environment("drop", [niri EXCEPT !.name[ws] = Gone])

\* Niri exits and starts again: window ids start over.
NiriRestarts ==
    /\ Spend("niri")
    /\ niri' \in InitialNiri
    /\ niriSession' = niriSession + 1
    /\ link' = IF link = "on" THEN "cut" ELSE link
    /\ UNCHANGED <<queue, cache, tracked, moves, stack, config, dirty, saved, task, loop>>

-------------------------------------------------------------------------------
TaskSteps(t) ==
    \/ \E win \in Windows : StartHide(t, win)
    \/ \E e \in stack : StartRestore(t, e)
    \/ StartRestoreAll(t)
    \/ Act(t) \/ ActFails(t)
    \/ CommitHide(t) \/ CommitRestore(t)
    \/ PlanUndo(t) \/ Undo(t) \/ GiveUp(t)

Handle ==
    \/ HandleWorkspacesChanged \/ HandleWorkspaceActivated
    \/ HandleWindowClosed \/ HandleWindowsChanged \/ HandleWindowChanged

Daemon ==
    \/ Handle \/ FocusDebounced \/ LoopAct \/ MoveTracked \/ Connect \/ StreamEnded
    \/ OwnerGone \/ Restart
    \/ TakeState \/ \E s \in saving : Save(s)

World ==
    \/ \E name \in Names : ReloadConfig(name)
    \/ \E win \in Windows : Pin(win) \/ Unpin(win) \/ UserCloses(win)
    \/ \E ws \in Workspaces : UserFocuses(ws) \/ NiriDrops(ws)
    \/ \E win \in Windows, ws \in Workspaces : UserMoves(win, ws)
    \/ CutStream \/ Crash \/ Terminated \/ NiriRestarts

Next == (\E t \in Tasks : TaskSteps(t)) \/ Daemon \/ World

Spec == Init /\ [][Next]_vars

\* The scheduler runs every task that can run and Niri answers every request;
\* clients, the user and failures promise nothing.
Served(t) == Act(t) \/ CommitHide(t) \/ CommitRestore(t) \/ PlanUndo(t) \/ Undo(t) \/ GiveUp(t)
Fairness ==
    /\ WF_vars(Handle) /\ WF_vars(LoopAct)
    /\ \A t \in Tasks : WF_vars(Served(t))
FairSpec == Spec /\ Fairness
-------------------------------------------------------------------------------
(* Properties *)

\* A window is in the hidden stack once, whatever requests ran concurrently.
OneEntryPerWindow == \A e, f \in stack : e.win = f.win => e = f

\* Once the daemon has seen the authoritative window list, every hidden entry is
\* an open window as far as the daemon knows: closing a window, in particular
\* between the plan and the commit of its hide, leaves no entry behind.
EntriesAreLive == booted => \A e \in stack : Cached(e.win)

\* Window ids never cross a Niri restart: what the stack holds while the daemon
\* listens to a compositor was hidden under that compositor.
EntriesOfThisSession == link = "on" => \A e \in stack : e.ses = niriSession

\* Nothing is on its way: no request, no event, no effect.
Settled == CaughtUp /\ InFlight = {} /\ moves = {}

ParkedAt == Named(niri, padName)

\* Restore returns the original workspace: when the system is settled, every
\* window that is not hidden is on the workspace it was on before it was hidden.
\* (For an instance where nobody else moves windows.)
RestoredToOrigin ==
    Settled => \E home \in InitialNiri : \A win \in Windows \ Hidden :
                    Open(niri, win) => niri.loc[win] = home.loc[win]

\* The hidden stack and the compositor agree: when the system is settled, the
\* windows that are not hidden are at home, the hidden ones are on the service
\* workspace and know the way back, the daemon knows that workspace, without which a
\* restore is refused, and the workspace keeps its name only while something is hidden.
HiddenOrHome ==
    /\ RestoredToOrigin
    /\ Settled =>
        /\ \A win \in Hidden : Open(niri, win) => niri.loc[win] \in ParkedAt
        /\ \E home \in InitialNiri : \A e \in stack : e.origin = home.loc[e.win]
        /\ IF stack = {} THEN ParkedAt = {} ELSE Pads # {}

\* The windows that are on the service workspace.
Parked == {win \in Windows : niri.loc[win] \in ParkedAt}

\* At every moment, in the middle of a transaction or of its compensation too, a
\* window is where it was at first or on the workspace with the service's name:
\* wherever a request stops, the name is still there to find its windows by.
NeverAstray ==
    \E home \in InitialNiri : \A win \in Windows :
        Open(niri, win) => niri.loc[win] = home.loc[win] \/ win \in Parked

\* The transaction is what HiddenWindows promises: what the stack says changes only
\* when the compositor already shows it, and no two requests are half done at once.
Promise == INSTANCE HiddenWindows WITH hidden <- Hidden, away <- Parked
HidesAsPromised == Promise!Spec

\* The user lands on the service workspace while windows are hidden, and the
\* event that says so is on its way to a daemon that knows the workspace.
AccidentalVisit ==
    /\ link = "on" /\ stack # {}
    /\ niri.focus \in ParkedAt \cap Pads
    /\ \E i \in DOMAIN queue : queue[i] = WorkspaceActivatedEvent(niri.focus)

\* Such a visit ends by itself, unless the last hidden window is restored first.
GuardReturns == AccidentalVisit ~> (niri.focus \notin ParkedAt \/ stack = {})
===============================================================================

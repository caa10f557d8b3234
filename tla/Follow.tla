-------------------------------- MODULE Follow --------------------------------
(***************************************************************************)
(* Tracked windows and the workspace they follow.                          *)
(*                                                                         *)
(* The engine keeps a map of tracked windows: automatic PiPs, pins and     *)
(* overlays.  When another workspace gets the focus it asks Niri to move   *)
(* every tracked window there.  Three kinds of tasks send such moves: the  *)
(* supervisor for the event it handles, the debounce tasks it spawns, and  *)
(* client requests.  Each computes its moves from the engine's cache under *)
(* the mutex and executes them after it has let go of it, so a move can be *)
(* out of date when Niri gets it, and the cache is out of date until the   *)
(* event of the move comes back.                                           *)
(*                                                                         *)
(* Floating, size and position are left to another module; here a plan is  *)
(* a set of moves, in any order (the tracked map is a HashMap).  Nothing   *)
(* is hidden, and focus_restore_window_ms is 0.                            *)
(***************************************************************************)
EXTENDS NiriCompositor

CONSTANTS Pips,          \* the windows that some detector matches
          Output,        \* the output of each workspace
          Policy,        \* config.general: follow_workspace, stay-on-output
          OverlayPolicy, \* the same two settings of the overlay profile
          RestoreLayout, \* config.general.restore_layout_on_unpin
          Workers,       \* bound: tasks that execute their moves at a time
          Patient,       \* requests come and debounces end only when Niri has
                         \* done every move and every event has been handled
          Limits,        \* bound: how often each thing may happen
          MaxHappenings, \* bound: how many things may happen in all
          InitialNiri    \* the compositor states the system may start in

Happenings == {"request", "toggle", "focus", "move", "open", "close", "drop", "fault", "cut"}

ASSUME FollowAssumption ==
    /\ Pips \subseteq Windows
    /\ {Policy, OverlayPolicy} \subseteq [follow : BOOLEAN, stay : BOOLEAN]
    /\ RestoreLayout \in BOOLEAN /\ Patient \in BOOLEAN
    /\ Limits \in [Happenings -> Nat] /\ MaxHappenings \in Nat
    /\ InitialNiri \subseteq NiriState

\* The compositor starts with a focused workspace, and with windows on workspaces.
ASSUME InitialAssumption ==
    \A n \in InitialNiri :
        Exists(n, n.focus) /\ \A win \in Windows : Open(n, win) => Exists(n, n.loc[win])

VARIABLES
    niri,       \* the compositor
    opened,     \* the windows that were ever opened: ids are not used twice
    queue,      \* events emitted and not yet handled
    link,       \* "off", "on", or "cut": broken with events left to handle
    cache,      \* engine: windows, workspaces and focused_workspace
    tracked,    \* engine: the tracked map
    ignored,    \* engine: ignored_until_close
    controls,   \* engine: persistent.controls of the detector
    enabled,    \* engine: enabled
    timer,      \* the newest debounce task still sleeps
    loop,       \* moves the supervisor has left to execute
    work,       \* moves the other tasks have left to execute
    budget,     \* what is left of Limits
    happenings  \* what is left of MaxHappenings

compositor == <<niri, opened, queue>>
policy     == <<ignored, controls, enabled>>
jobs       == <<loop, work>>
world      == <<budget, happenings>>
vars == <<niri, opened, queue, link, cache, tracked, ignored, controls, enabled,
          timer, loop, work, budget, happenings>>

\* TrackedWindow; mode "none" is a window that is not in the map.
TrackedWindow == [mode : {"none", "auto", "pin", "overlay"}, follow : BOOLEAN,
                  stay : BOOLEAN, origin : Place, pending : Place]
Untracked == [mode |-> "none", follow |-> FALSE, stay |-> FALSE, origin |-> NoWs,
              pending |-> NoWs]
Move  == [win : Windows, ws : Workspaces]
Cache == [loc : [Windows -> Place], name : [Workspaces -> WsName], focus : Place]

TypeOK ==
    /\ niri \in NiriState
    /\ opened \subseteq Windows
    /\ queue \in Seq(Event)
    /\ link \in {"off", "on", "cut"}
    /\ cache \in Cache
    /\ tracked \in [Windows -> TrackedWindow]
    /\ ignored \subseteq Windows
    /\ controls \in [follow : BOOLEAN, stay : BOOLEAN]
    /\ enabled \in BOOLEAN
    /\ timer \in BOOLEAN
    /\ loop \subseteq Move
    /\ work \in [Workers -> SUBSET Move]
    /\ budget \in [Happenings -> Nat]
    /\ happenings \in Nat

Managed(t) == {win \in Windows : t[win].mode # "none"}
Entry(mode, p, origin) ==
    [mode |-> mode, follow |-> p.follow, stay |-> p.stay, origin |-> origin, pending |-> NoWs]

-------------------------------------------------------------------------------
(* The engine's rules, for a cache c and a tracked map t *)

\* follow_allowed
Allowed(c, stay, from, to) ==
    stay => from \in Workspaces /\ c.name[from] # Gone /\ Output[from] = Output[to]

\* The tests of reconcile_workspace_follow_for_target.
OwedAnywhere(c, t, win) ==
    /\ t[win].mode # "none" /\ c.loc[win] # NoWs /\ c.focus \in Workspaces
    /\ t[win].follow
    /\ c.loc[win] # c.focus
    /\ t[win].pending # c.focus
OwedUnlessPending(c, t, win) ==
    /\ t[win].mode # "none" /\ c.loc[win] # NoWs /\ c.focus \in Workspaces
    /\ t[win].follow
    /\ c.loc[win] # c.focus
    /\ Allowed(c, t[win].stay, c.loc[win], c.focus)
    /\ t[win].pending = NoWs
Owed(c, t, win) ==
    /\ t[win].mode # "none" /\ c.loc[win] # NoWs /\ c.focus \in Workspaces
    /\ t[win].follow
    /\ c.loc[win] # c.focus
    /\ Allowed(c, t[win].stay, c.loc[win], c.focus)
    /\ t[win].pending # c.focus

\* Its result for the windows `ids`: the moves, and the map with the moves noted.
FollowMoves(c, t, ids) == {[win |-> w, ws |-> c.focus] : w \in {x \in ids : Owed(c, t, x)}}
FollowNoted(c, t, ids) ==
    [win \in Windows |-> IF win \in ids /\ Owed(c, t, win)
                         THEN [t[win] EXCEPT !.pending = c.focus] ELSE t[win]]

\* classify_or_reconcile: the windows of `ids` that become automatic PiPs.
DetectedEvenIfIgnored(t, ids) ==
    {win \in ids \cap Pips : enabled /\ t[win].mode = "none"}
Detected(t, ids) ==
    {win \in ids \cap Pips : enabled /\ t[win].mode = "none" /\ win \notin ignored}
WithDetected(t, ids) ==
    [win \in Windows |-> IF win \in Detected(t, ids) THEN Entry("auto", controls, NoWs)
                         ELSE t[win]]

-------------------------------------------------------------------------------
Init ==
    /\ niri \in InitialNiri
    /\ opened = {win \in Windows : Open(niri, win)}
    /\ queue = <<>>
    /\ link = "off"
    /\ cache = [loc |-> [win \in Windows |-> NoWs],
                name |-> [ws \in Workspaces |-> Gone], focus |-> NoWs]
    /\ tracked = [win \in Windows |-> Untracked]
    /\ ignored = {}
    /\ controls = Policy
    /\ enabled = TRUE
    /\ timer = FALSE
    /\ loop = {}
    /\ work = [k \in Workers |-> {}]
    /\ budget = Limits
    /\ happenings = MaxHappenings

Spend(what) ==
    /\ budget[what] > 0 /\ happenings > 0
    /\ budget' = [budget EXCEPT ![what] = @ - 1]
    /\ happenings' = happenings - 1

NiriBecomes(m) ==
    /\ niri' = m
    /\ queue' = IF link = "on" THEN Emit(queue, niri, m) ELSE queue

\* Nothing is on its way to Niri or back.
Quiet == queue = <<>> /\ loop = {} /\ \A k \in Workers : work[k] = {}

\* A task other than the supervisor starts to execute the moves.
Dispatch(moves) ==
    \E k \in Workers : work[k] = {} /\ work' = [work EXCEPT ![k] = moves]

(* Client requests: one engine call, then its moves *)

Request(what) ==
    /\ Spend(what)
    /\ Patient => link = "on" /\ Quiet
    /\ UNCHANGED <<compositor, link, cache, timer, loop>>

\* The engine's last step of a request on a window that is now t[win].
ThenFollow(t, win) ==
    /\ tracked' = FollowNoted(cache, t, {win})
    /\ Dispatch(FollowMoves(cache, t, {win}))

\* Engine::pin; the pin of a tracked window changes nothing else.
Pin(win) ==
    /\ Request("request")
    /\ enabled
    /\ cache.loc[win] # NoWs
    /\ ignored' = ignored \ {win}
    /\ IF tracked[win].mode # "none"
       THEN UNCHANGED <<tracked, work>>
       ELSE ThenFollow([tracked EXCEPT ![win] = Entry("pin", Policy, cache.loc[win])], win)
    /\ UNCHANGED <<controls, enabled>>

\* Engine::overlay; a window that is tracked already keeps its origin.
OriginAlwaysNew(win) == cache.loc[win]
OverlayOrigin(win) == IF tracked[win].mode = "none" THEN cache.loc[win] ELSE tracked[win].origin
Overlay(win) ==
    /\ Request("request")
    /\ enabled
    /\ cache.loc[win] # NoWs
    /\ tracked[win].mode # "auto"
    /\ ignored' = ignored \ {win}
    /\ ThenFollow([tracked EXCEPT ![win] = Entry("overlay", OverlayPolicy, OverlayOrigin(win))],
                  win)
    /\ UNCHANGED <<controls, enabled>>

\* The profile is unknown, or the window is an automatic PiP: the request is
\* refused, but the window is no longer ignored.
OverlayRefused(win) ==
    /\ Request("request")
    /\ enabled
    /\ cache.loc[win] # NoWs
    /\ ignored' = ignored \ {win}
    /\ UNCHANGED <<tracked, controls, enabled, work>>

\* Engine::unpin: an automatic PiP is left where it is and ignored from then on;
\* a pin or overlay goes back to its origin if that still exists.
ReturnMovesUnchecked(win) == {[win |-> win, ws |-> tracked[win].origin]}
ReturnMoves(win) ==
    LET origin == tracked[win].origin IN
    {m \in {[win |-> win, ws |-> origin]} :
        /\ RestoreLayout /\ tracked[win].mode # "auto"
        /\ cache.loc[win] \notin {NoWs, origin}
        /\ origin \in Workspaces /\ cache.name[origin] # Gone}
Unpin(win) ==
    /\ Request("request")
    /\ tracked[win].mode # "none"
    /\ tracked' = [tracked EXCEPT ![win] = Untracked]
    /\ ignored' = IF tracked[win].mode = "auto" THEN ignored \cup {win} ELSE ignored
    /\ Dispatch(ReturnMoves(win))
    /\ UNCHANGED <<controls, enabled>>

\* set_follow, set_follow_mode and reset_geometry: the window's policy becomes p,
\* the one of an automatic PiP is remembered, and a follower follows at once.
SetPolicy(win, p) ==
    /\ Request("request")
    /\ tracked[win].mode # "none"
    /\ controls' = IF tracked[win].mode = "auto" THEN p ELSE controls
    /\ ThenFollow([tracked EXCEPT ![win] = Entry(@.mode, p, @.origin)], win)
    /\ UNCHANGED <<ignored, enabled>>
SetFollow(win, on)      == SetPolicy(win, [follow |-> on, stay |-> tracked[win].stay])
SetFollowMode(win, out) == SetPolicy(win, [follow |-> tracked[win].follow, stay |-> out])
ResetGeometry(win)      == SetPolicy(win, Policy)

\* SetEnabled, and the reload of a configuration with another general.enabled.
SetEnabled(on) ==
    /\ Request("toggle")
    /\ enabled # on
    /\ enabled' = on
    /\ UNCHANGED <<tracked, ignored, controls, work>>

-------------------------------------------------------------------------------
(* Execution of moves.  A move that fails is logged and forgotten.  *)

Execute(m) ==
    \/ NiriBecomes(AfterAction(niri, MoveWindowToWorkspace(m.win, m.ws))) /\ UNCHANGED world
    \/ Spend("fault") /\ UNCHANGED <<niri, queue>>

Work(k) ==
    /\ \E m \in work[k] : Execute(m) /\ work' = [work EXCEPT ![k] = @ \ {m}]
    /\ UNCHANGED <<opened, link, cache, tracked, policy, timer, loop>>

LoopAct ==
    /\ \E m \in loop : Execute(m) /\ loop' = loop \ {m}
    /\ UNCHANGED <<opened, link, cache, tracked, policy, timer, work>>

(* The supervisor *)

Receive(type) ==
    /\ link \in {"on", "cut"}
    /\ loop = {}
    /\ queue # <<>>
    /\ Head(queue).type = type
    /\ queue' = Tail(queue)
    /\ UNCHANGED <<niri, opened, link, controls, enabled, work, world>>

\* The handler re-evaluates the whole tracked map at once.
FollowAll(c) ==
    IF enabled THEN /\ loop' = FollowMoves(c, tracked, Windows)
                    /\ tracked' = FollowNoted(c, tracked, Windows)
               ELSE UNCHANGED <<loop, tracked>>

HandleWorkspacesChanged ==
    /\ Receive("WorkspacesChanged")
    /\ cache' = [cache EXCEPT !.name = Head(queue).names, !.focus = Head(queue).focus]
    /\ FollowAll(cache')
    /\ UNCHANGED <<ignored, timer>>

\* The reaction to an activation is left to a debounce task; older ones find out
\* that their generation is over.
TimerKept == timer
TimerArmed == TRUE
HandleWorkspaceActivated ==
    /\ Receive("WorkspaceActivated")
    /\ cache' = [cache EXCEPT !.focus = Head(queue).ws]
    /\ timer' = TimerArmed
    /\ UNCHANGED <<tracked, ignored, loop>>

NothingForgotten(win) == tracked
Forgotten(win) == [tracked EXCEPT ![win] = Untracked]
HandleWindowClosed ==
    /\ Receive("WindowClosed")
    /\ cache' = [cache EXCEPT !.loc[Head(queue).win] = NoWs]
    /\ tracked' = Forgotten(Head(queue).win)
    /\ ignored' = ignored \ {Head(queue).win}
    /\ UNCHANGED <<timer, loop>>

\* What upsert_window and replace_windows do once the cache is c: classify the
\* windows of `ids` and let the new PiPs among them follow.
Classify(c, t, ids) ==
    LET new == Detected(t, ids)
        all == WithDetected(t, ids)
    IN  /\ tracked' = FollowNoted(c, all, new)
        /\ loop' = FollowMoves(c, all, new)

\* A snapshot: ids that are gone are forgotten.
HandleWindowsChanged ==
    /\ Receive("WindowsChanged")
    /\ cache' = [cache EXCEPT !.loc = Head(queue).loc]
    /\ LET live == {win \in Windows : Head(queue).loc[win] # NoWs}
       IN  /\ ignored' = ignored \cap live
           /\ Classify(cache',
                       [win \in Windows |-> IF win \in live THEN tracked[win] ELSE Untracked],
                       live)
    /\ UNCHANGED timer

\* The acknowledgement of a move ends its pending state.
NeverAcknowledged(t, win, ws) == t
Acknowledged(t, win, ws) ==
    IF t[win].pending = ws THEN [t EXCEPT ![win].pending = NoWs] ELSE t
UpdatedIfNew(win, ws) == IF cache.loc[win] = NoWs THEN [cache EXCEPT !.loc[win] = ws] ELSE cache
Updated(win, ws) == [cache EXCEPT !.loc[win] = ws]
HandleWindowChanged ==
    /\ Receive("WindowOpenedOrChanged")
    /\ LET win == Head(queue).win
           ws  == Head(queue).ws
       IN  /\ cache' = Updated(win, ws)
           /\ Classify(cache', Acknowledged(tracked, win, ws), {win})
    /\ UNCHANGED <<ignored, timer>>

\* The newest debounce task wakes up: reconcile_workspace_follow.
DebounceEnds ==
    /\ timer
    /\ Patient => Quiet
    /\ timer' = FALSE
    /\ IF enabled
       THEN /\ Dispatch(FollowMoves(cache, tracked, Windows))
            /\ tracked' = FollowNoted(cache, tracked, Windows)
       ELSE UNCHANGED <<work, tracked>>
    /\ UNCHANGED <<compositor, link, cache, policy, loop, world>>

\* One second after a move was issued it no longer counts as pending.
PendingExpires(win) ==
    /\ tracked[win].pending # NoWs
    /\ Patient => Quiet
    /\ tracked' = [tracked EXCEPT ![win].pending = NoWs]
    /\ UNCHANGED <<compositor, link, cache, policy, timer, jobs, world>>

Connect ==
    /\ link = "off"
    /\ link' = "on"
    /\ queue' = Bootstrap(niri)
    /\ UNCHANGED <<niri, opened, cache, tracked, policy, timer, jobs, world>>

CutStream ==
    /\ link = "on"
    /\ Spend("cut")
    /\ link' = "cut"
    /\ UNCHANGED <<compositor, cache, tracked, policy, timer, jobs>>

StreamEnded ==
    /\ link = "cut"
    /\ queue = <<>>
    /\ loop = {}
    /\ link' = "off"
    /\ UNCHANGED <<compositor, cache, tracked, policy, timer, jobs, world>>

-------------------------------------------------------------------------------
(* The user *)

Environment(what, m) ==
    /\ Spend(what)
    /\ NiriBecomes(m)
    /\ opened' = opened \cup {win \in Windows : Open(m, win)}
    /\ UNCHANGED <<link, cache, tracked, policy, timer, jobs>>

UserFocuses(ws) ==
    Exists(niri, ws) /\ niri.focus # ws /\ Environment("focus", FocusOn(niri, ws))
UserMoves(win, ws) ==
    /\ Open(niri, win) /\ Exists(niri, ws) /\ niri.loc[win] # ws
    /\ Environment("move", MoveTo(niri, win, {ws}))
UserOpens(win) ==
    win \notin opened /\ Environment("open", [niri EXCEPT !.loc[win] = niri.focus])
UserCloses(win) ==
    Open(niri, win) /\ Environment("close", [niri EXCEPT !.loc[win] = NoWs])
NiriDrops(ws) ==
    /\ niri.name[ws] = NoName /\ niri.focus # ws
    /\ \A win \in Windows : niri.loc[win] # ws
    /\ Environment("drop", [niri EXCEPT !.name[ws] = Gone])

-------------------------------------------------------------------------------
Client ==
    \/ \E win \in Windows : \/ Pin(win) \/ Overlay(win) \/ OverlayRefused(win) \/ Unpin(win)
                            \/ ResetGeometry(win)
    \/ \E win \in Windows, b \in BOOLEAN : SetFollow(win, b) \/ SetFollowMode(win, b)
    \/ \E b \in BOOLEAN : SetEnabled(b)

Handle ==
    \/ HandleWorkspacesChanged \/ HandleWorkspaceActivated \/ HandleWindowClosed
    \/ HandleWindowsChanged \/ HandleWindowChanged

World ==
    \/ \E win \in Windows : UserOpens(win) \/ UserCloses(win)
    \/ \E ws \in Workspaces : UserFocuses(ws) \/ NiriDrops(ws)
    \/ \E win \in Windows, ws \in Workspaces : UserMoves(win, ws)
    \/ CutStream

Next ==
    \/ Client \/ Handle \/ LoopAct \/ DebounceEnds \/ Connect \/ StreamEnded \/ World
    \/ \E k \in Workers : Work(k)
    \/ \E win \in Windows : PendingExpires(win)

Spec == Init /\ [][Next]_vars

\* The runtime runs every task that can run and timers go off; the stream is
\* opened again after every end.
Fairness ==
    /\ WF_vars(Handle) /\ WF_vars(LoopAct) /\ WF_vars(DebounceEnds)
    /\ WF_vars(Connect) /\ WF_vars(StreamEnded)
    /\ \A k \in Workers : WF_vars(Work(k))
FairSpec == Spec /\ Fairness

-------------------------------------------------------------------------------
(* Properties *)

\* A window is tracked or ignored, never both: an automatic PiP that was unpinned
\* is not tracked again by itself, however events and snapshots interleave with
\* the request.
IgnoredNotTracked == ignored \cap Managed(tracked) = {}

Settled == link = "on" /\ Quiet /\ ~timer

\* When nothing is on its way the cache is the compositor's state: the deltas and
\* the snapshots after any number of reconnects add up.
CacheIsCurrent ==
    Settled => cache.loc = niri.loc /\ cache.name = niri.name /\ cache.focus = niri.focus

\* A tracked window is a window: however its close interleaves with the request
\* or the event that tracks it.
TrackedAreOpen == \A win \in Managed(tracked) : cache.loc[win] # NoWs

\* The final globally focused workspace wins: when everything has settled, every
\* follower that may be there is on the focused workspace.
FollowersArrived ==
    Settled /\ enabled =>
        \A win \in Managed(tracked) :
            tracked[win].follow /\ Allowed(cache, tracked[win].stay, niri.loc[win], niri.focus)
                => niri.loc[win] = niri.focus

\* A window that is not tracked is at home: unpin returned it to the workspace it
\* was pinned on, if that still exists, from wherever it was led.
\* (For an instance where nobody else moves windows.)
UnpinnedAtHome ==
    Settled => \E home \in InitialNiri : \A win \in Windows \ (Pips \cup Managed(tracked)) :
        Open(niri, win) /\ Open(home, win) /\ Exists(niri, home.loc[win])
            => niri.loc[win] = home.loc[win]

\* A move counts as pending only while it is under way, as long as it can be made
\* at all: its duplicate is dropped because the first one still comes.
\* (For an instance where no move fails.)
UnderWay(win, ws) ==
    \/ [win |-> win, ws |-> ws] \in loop \cup UNION {work[k] : k \in Workers}
    \/ \E i \in DOMAIN queue : queue[i] = WindowChangedEvent(win, ws)
PendingIsUnderWay ==
    \A win \in Windows :
        LET ws == tracked[win].pending IN
        Open(niri, win) /\ ws \in Workspaces /\ Exists(niri, ws) => UnderWay(win, ws)

\* A follower that may stay only on its output is not led to another one by the
\* daemon, whatever the focus does.
StaysOnOutput ==
    [][\A win \in Windows :
        /\ tracked[win].stay /\ tracked'[win].stay
        /\ Open(niri, win) /\ Open(niri', win)
        => Output[niri'.loc[win]] = Output[niri.loc[win]]]_vars

\* A window that is out of place is led to the focus, or stops following.
FollowersArrive ==
    \A win \in Windows :
        (tracked[win].follow /\ ~tracked[win].stay /\ niri.loc[win] # niri.focus)
            ~> (niri.loc[win] = niri.focus \/ ~tracked[win].follow \/ tracked[win].stay)
===============================================================================

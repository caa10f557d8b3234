----------------------------- MODULE FollowProofs -----------------------------
(***************************************************************************)
(* Type correctness and the safety of the tracked map, for any number of   *)
(* windows, workspaces and tasks, any outputs, any policies, and any       *)
(* bounds.  The three invariants are inductive together: what is tracked   *)
(* is in the cache and is not ignored.  Then the cache: of everything that *)
(* an event may tell of, the last event that does, or else the cache, says *)
(* what Niri has now.                                                      *)
(***************************************************************************)
EXTENDS Follow, NiriProofs

\* What the invariants say of a tracked map t, a cache c and an ignored set ign.
MapSafe(t, c, ign) ==
    /\ t \in [Windows -> TrackedWindow]
    /\ \A win \in Windows : t[win].mode # "none" => c.loc[win] # NoWs /\ win \notin ign

SafeInv == TypeOK /\ MapSafe(tracked, cache, ignored)

-------------------------------------------------------------------------------
(* What the operators of the engine return. *)

LEMMA NiriBecomesType ==
    ASSUME TypeOK, NEW m \in NiriState, NiriBecomes(m)
    PROVE  niri' \in NiriState /\ queue' \in Seq(Event)
  BY EmitType DEF TypeOK, NiriBecomes

LEMMA SpendType ==
    ASSUME TypeOK, NEW what \in Happenings, Spend(what)
    PROVE  budget' \in [Happenings -> Nat] /\ happenings' \in Nat
  BY DEF TypeOK, Spend

LEMMA EntryType ==
    ASSUME NEW mode \in {"none", "auto", "pin", "overlay"},
           NEW p \in [follow : BOOLEAN, stay : BOOLEAN], NEW origin \in Place
    PROVE  Entry(mode, p, origin) \in TrackedWindow /\ Entry(mode, p, origin).mode = mode
  BY DEF Entry, TrackedWindow, Place

LEMMA UntrackedType == Untracked \in TrackedWindow /\ Untracked.mode = "none"
  BY DEF Untracked, TrackedWindow, Place

\* The moves name windows and workspaces that are there.
LEMMA FollowMovesType ==
    ASSUME NEW c, NEW t, NEW ids \in SUBSET Windows
    PROVE  FollowMoves(c, t, ids) \subseteq Move
  BY DEF FollowMoves, Owed, Move

\* Noting the moves tracks and forgets nothing.
LEMMA FollowNotedSafe ==
    ASSUME NEW t, NEW c, NEW d, NEW ids, NEW ign, MapSafe(t, c, ign)
    PROVE  MapSafe(FollowNoted(d, t, ids), c, ign)
<1>1. ASSUME NEW win \in Windows, Owed(d, t, win)
      PROVE  /\ [t[win] EXCEPT !.pending = d.focus] \in TrackedWindow
             /\ [t[win] EXCEPT !.pending = d.focus].mode = t[win].mode
  BY <1>1 DEF Owed, MapSafe, TrackedWindow, Place
<1> QED  BY <1>1 DEF FollowNoted, MapSafe

\* One window gets another entry.
LEMMA OneEntrySafe ==
    ASSUME NEW t, NEW c, NEW ign, MapSafe(t, c, ign), NEW win \in Windows,
           NEW e \in TrackedWindow,
           e.mode # "none" => c.loc[win] # NoWs /\ win \notin ign
    PROVE  MapSafe([t EXCEPT ![win] = e], c, ign)
  BY DEF MapSafe

\* The windows that are detected are not ignored.
LEMMA WithDetectedSafe ==
    ASSUME TypeOK, NEW t, NEW c, NEW ign, MapSafe(t, c, ign), NEW ids,
           ign \subseteq ignored, \A win \in ids : c.loc[win] # NoWs
    PROVE  MapSafe(WithDetected(t, ids), c, ign)
<1>1. NoWs \in Place  BY DEF Place
<1>2. Entry("auto", controls, NoWs) \in TrackedWindow
  BY <1>1, EntryType DEF TypeOK
<1> QED  BY <1>2 DEF WithDetected, Detected, MapSafe

LEMMA DispatchType ==
    ASSUME TypeOK, NEW moves \in SUBSET Move, Dispatch(moves)
    PROVE  work' \in [Workers -> SUBSET Move]
  BY DEF TypeOK, Dispatch

-------------------------------------------------------------------------------
(* Client requests. *)

\* What is left to show of a request.
LEMMA RequestSafe ==
    ASSUME SafeInv, NEW what \in Happenings, Request(what),
           controls' \in [follow : BOOLEAN, stay : BOOLEAN], enabled' \in BOOLEAN,
           ignored' \subseteq Windows, work' \in [Workers -> SUBSET Move],
           MapSafe(tracked', cache, ignored')
    PROVE  SafeInv'
<1>1. budget' \in [Happenings -> Nat] /\ happenings' \in Nat
  BY SpendType DEF SafeInv, Request
<1>2. UNCHANGED <<niri, opened, queue, link, cache, timer, loop>>
  BY DEF Request, compositor
<1>3. tracked' \in [Windows -> TrackedWindow]
  BY DEF MapSafe
<1>4. TypeOK'
  BY <1>1, <1>2, <1>3 DEF SafeInv, TypeOK
<1>5. MapSafe(tracked, cache, ignored)'
  BY <1>2 DEF MapSafe
<1> QED  BY <1>4, <1>5 DEF SafeInv

LEMMA ThenFollowSafe ==
    ASSUME SafeInv, NEW t, NEW ign, MapSafe(t, cache, ign), NEW win \in Windows,
           ThenFollow(t, win)
    PROVE  MapSafe(tracked', cache, ign) /\ work' \in [Workers -> SUBSET Move]
<1>1. FollowMoves(cache, t, {win}) \subseteq Move
  BY FollowMovesType
<1> QED  BY <1>1, DispatchType, FollowNotedSafe DEF ThenFollow, SafeInv

LEMMA LessIgnored ==
    ASSUME SafeInv, NEW win
    PROVE  MapSafe(tracked, cache, ignored \ {win}) /\ ignored \ {win} \subseteq Windows
  BY DEF SafeInv, MapSafe, TypeOK

LEMMA PinSafe ==
    ASSUME SafeInv, NEW win \in Windows, Pin(win)
    PROVE  SafeInv'
<1>1. /\ Request("request") /\ cache.loc[win] # NoWs
      /\ ignored' = ignored \ {win} /\ UNCHANGED <<controls, enabled>>
  BY DEF Pin
<1>2. MapSafe(tracked', cache, ignored') /\ work' \in [Workers -> SUBSET Move]
  <2>1. CASE tracked[win].mode # "none"
    BY <1>1, <2>1, LessIgnored DEF Pin, SafeInv, TypeOK
  <2>2. CASE tracked[win].mode = "none"
    <3> DEFINE e == Entry("pin", Policy, cache.loc[win])
    <3>1. cache.loc[win] \in Place
      BY DEF SafeInv, TypeOK, Cache
    <3>2. e \in TrackedWindow
      BY <3>1, EntryType, FollowAssumption
    <3> HIDE DEF e
    <3>3. MapSafe([tracked EXCEPT ![win] = e], cache, ignored')
      BY <1>1, <3>2, LessIgnored, OneEntrySafe
    <3>4. ThenFollow([tracked EXCEPT ![win] = e], win)
      BY <2>2 DEF Pin, e
    <3> QED  BY <3>3, <3>4, ThenFollowSafe
  <2> QED  BY <2>1, <2>2
<1> QED  BY <1>1, <1>2, LessIgnored, RequestSafe DEF SafeInv, TypeOK, Happenings

LEMMA OverlaySafe ==
    ASSUME SafeInv, NEW win \in Windows, Overlay(win) \/ OverlayRefused(win)
    PROVE  SafeInv'
<1>1. /\ Request("request") /\ cache.loc[win] # NoWs
      /\ ignored' = ignored \ {win} /\ UNCHANGED <<controls, enabled>>
  BY DEF Overlay, OverlayRefused
<1>2. MapSafe(tracked', cache, ignored') /\ work' \in [Workers -> SUBSET Move]
  <2>1. CASE OverlayRefused(win)
    BY <1>1, <2>1, LessIgnored DEF OverlayRefused, SafeInv, TypeOK
  <2>2. CASE Overlay(win)
    <3> DEFINE e == Entry("overlay", OverlayPolicy, OverlayOrigin(win))
    <3>1. cache.loc[win] \in Place /\ tracked[win].origin \in Place
      BY DEF SafeInv, TypeOK, Cache, TrackedWindow
    <3>2. e \in TrackedWindow
      BY <3>1, EntryType, FollowAssumption DEF OverlayOrigin
    <3> HIDE DEF e
    <3>3. MapSafe([tracked EXCEPT ![win] = e], cache, ignored')
      BY <1>1, <3>2, LessIgnored, OneEntrySafe
    <3>4. ThenFollow([tracked EXCEPT ![win] = e], win)
      BY <2>2 DEF Overlay, e
    <3> QED  BY <3>3, <3>4, ThenFollowSafe
  <2> QED  BY <2>1, <2>2
<1> QED  BY <1>1, <1>2, LessIgnored, RequestSafe DEF SafeInv, TypeOK, Happenings

\* What is unpinned is no longer tracked, so it may be ignored.
LEMMA UnpinSafe ==
    ASSUME SafeInv, NEW win \in Windows, Unpin(win)
    PROVE  SafeInv'
<1>1. /\ Request("request") /\ UNCHANGED <<controls, enabled>>
      /\ tracked' = [tracked EXCEPT ![win] = Untracked]
      /\ ignored' \in {ignored, ignored \cup {win}}
  BY DEF Unpin
<1>2. MapSafe(tracked', cache, ignored')
  BY <1>1, UntrackedType DEF SafeInv, MapSafe
<1>3. ReturnMoves(win) \subseteq Move
  BY DEF ReturnMoves, Move
<1>4. work' \in [Workers -> SUBSET Move]
  BY <1>3, DispatchType DEF Unpin, SafeInv
<1> QED  BY <1>1, <1>2, <1>4, RequestSafe DEF SafeInv, TypeOK, Happenings

LEMMA SetPolicySafe ==
    ASSUME SafeInv, NEW win \in Windows, NEW p \in [follow : BOOLEAN, stay : BOOLEAN],
           SetPolicy(win, p)
    PROVE  SafeInv'
<1> DEFINE e == Entry(tracked[win].mode, p, tracked[win].origin)
<1>1. /\ Request("request") /\ tracked[win].mode # "none"
      /\ controls' \in {p, controls} /\ UNCHANGED <<ignored, enabled>>
  BY DEF SetPolicy
<1>2. tracked \in [Windows -> TrackedWindow] /\ tracked[win] \in TrackedWindow
  BY DEF SafeInv, TypeOK
<1>3. e \in TrackedWindow
  BY <1>2, EntryType DEF TrackedWindow
<1>4. ThenFollow([tracked EXCEPT ![win] = e], win)
  BY <1>2 DEF SetPolicy
<1> HIDE DEF e
<1>5. MapSafe([tracked EXCEPT ![win] = e], cache, ignored)
  BY <1>1, <1>3, OneEntrySafe DEF SafeInv, MapSafe
<1>6. MapSafe(tracked', cache, ignored') /\ work' \in [Workers -> SUBSET Move]
  BY <1>1, <1>4, <1>5, ThenFollowSafe
<1> QED  BY <1>1, <1>6, RequestSafe DEF SafeInv, TypeOK, Happenings

LEMMA ClientSafe ==
    ASSUME SafeInv, Client
    PROVE  SafeInv'
<1>1. ASSUME NEW b \in BOOLEAN, SetEnabled(b)
      PROVE  SafeInv'
  BY <1>1, RequestSafe DEF SetEnabled, SafeInv, TypeOK, Happenings
<1>2. ASSUME NEW win \in Windows, ResetGeometry(win)
      PROVE  SafeInv'
  BY <1>2, SetPolicySafe, FollowAssumption DEF ResetGeometry
<1>3. ASSUME NEW win \in Windows, NEW b \in BOOLEAN, SetFollow(win, b) \/ SetFollowMode(win, b)
      PROVE  SafeInv'
  <2>1. tracked[win].follow \in BOOLEAN /\ tracked[win].stay \in BOOLEAN
    BY DEF SafeInv, TypeOK, TrackedWindow
  <2> QED  BY <1>3, <2>1, SetPolicySafe DEF SetFollow, SetFollowMode
<1> QED  BY <1>1, <1>2, <1>3, PinSafe, OverlaySafe, UnpinSafe DEF Client

-------------------------------------------------------------------------------
(* Execution. *)

LEMMA ExecuteType ==
    ASSUME TypeOK, NEW m \in Move, Execute(m)
    PROVE  /\ niri' \in NiriState /\ queue' \in Seq(Event)
           /\ budget' \in [Happenings -> Nat] /\ happenings' \in Nat
<1>1. m.win \in Windows /\ m.ws \in Place
  BY DEF Move, Place
<1>2. AfterAction(niri, MoveWindowToWorkspace(m.win, m.ws)) \in NiriState
  BY <1>1, MakersType, AfterActionType DEF TypeOK
<1>3. CASE NiriBecomes(AfterAction(niri, MoveWindowToWorkspace(m.win, m.ws))) /\ UNCHANGED world
  BY <1>2, <1>3, NiriBecomesType DEF TypeOK, world
<1>4. CASE Spend("fault") /\ UNCHANGED <<niri, queue>>
  BY <1>4, SpendType DEF TypeOK, Happenings
<1> QED  BY <1>3, <1>4 DEF Execute

LEMMA ExecutionSafe ==
    ASSUME SafeInv, LoopAct \/ (\E k \in Workers : Work(k))
    PROVE  SafeInv'
<1>1. UNCHANGED <<opened, link, cache, tracked, ignored, controls, enabled, timer>>
  BY DEF LoopAct, Work, policy
<1>2. \E m \in Move : Execute(m)
  BY DEF LoopAct, Work, SafeInv, TypeOK
<1>3. loop' \subseteq Move
  BY DEF LoopAct, Work, SafeInv, TypeOK
<1>4. work' \in [Workers -> SUBSET Move]
  BY DEF LoopAct, Work, SafeInv, TypeOK
<1>5. TypeOK'
  BY <1>1, <1>2, <1>3, <1>4, ExecuteType DEF SafeInv, TypeOK
<1> QED  BY <1>1, <1>5 DEF SafeInv, MapSafe

-------------------------------------------------------------------------------
(* The supervisor. *)

LEMMA ReceiveType ==
    ASSUME SafeInv, NEW type, Receive(type)
    PROVE  /\ Head(queue) \in Event /\ Head(queue).type = type
           /\ queue' \in Seq(Event)
           /\ UNCHANGED <<niri, opened, link, controls, enabled, work, budget, happenings>>
  BY DEF Receive, SafeInv, TypeOK, world

\* What is left to show of a handler.
LEMMA HandlerSafe ==
    ASSUME SafeInv, NEW type, Receive(type), cache' \in Cache, ignored' \subseteq Windows,
           timer' \in BOOLEAN, loop' \subseteq Move, MapSafe(tracked', cache', ignored')
    PROVE  SafeInv'
<1>1. tracked' \in [Windows -> TrackedWindow]
  BY DEF MapSafe
<1>2. TypeOK'
  BY <1>1, ReceiveType DEF SafeInv, TypeOK
<1>3. MapSafe(tracked, cache, ignored)'
  BY DEF MapSafe
<1> QED  BY <1>2, <1>3 DEF SafeInv

\* The focus and the names change, and no location.
LEMMA FocusHandlersSafe ==
    ASSUME SafeInv, HandleWorkspacesChanged \/ HandleWorkspaceActivated
    PROVE  SafeInv'
<1>1. PICK type \in {"WorkspacesChanged", "WorkspaceActivated"} : Receive(type)
  BY DEF HandleWorkspacesChanged, HandleWorkspaceActivated
<1>2. cache' \in Cache /\ cache'.loc = cache.loc
  <2>1. CASE HandleWorkspacesChanged
    <3>1. Head(queue) \in Event /\ Head(queue).type = "WorkspacesChanged"
      BY <2>1, ReceiveType DEF HandleWorkspacesChanged
    <3>2. Head(queue).names \in [Workspaces -> WsName] /\ Head(queue).focus \in Workspaces
      BY <3>1 DEF Event
    <3> QED  BY <2>1, <3>2 DEF HandleWorkspacesChanged, SafeInv, TypeOK, Cache, Place
  <2>2. CASE HandleWorkspaceActivated
    <3>1. Head(queue) \in Event /\ Head(queue).type = "WorkspaceActivated"
      BY <2>2, ReceiveType DEF HandleWorkspaceActivated
    <3>2. Head(queue).ws \in Workspaces
      BY <3>1 DEF Event
    <3> QED  BY <2>2, <3>2 DEF HandleWorkspaceActivated, SafeInv, TypeOK, Cache, Place
  <2> QED  BY <2>1, <2>2
<1>3. timer' \in BOOLEAN /\ ignored' = ignored
  BY DEF HandleWorkspacesChanged, HandleWorkspaceActivated, TimerArmed, SafeInv, TypeOK
<1>4. MapSafe(tracked, cache', ignored')
  BY <1>2, <1>3 DEF SafeInv, MapSafe
<1>5. loop' \subseteq Move /\ MapSafe(tracked', cache', ignored')
  <2>1. CASE UNCHANGED <<loop, tracked>>
    BY <1>4, <2>1 DEF SafeInv, TypeOK
  <2>2. CASE /\ loop' = FollowMoves(cache', tracked, Windows)
             /\ tracked' = FollowNoted(cache', tracked, Windows)
    BY <1>4, <2>2, FollowMovesType, FollowNotedSafe
  <2> QED  BY <2>1, <2>2 DEF HandleWorkspacesChanged, HandleWorkspaceActivated, FollowAll
<1> QED
  BY <1>1, <1>2, <1>3, <1>5, HandlerSafe DEF SafeInv, TypeOK

\* A window that closes leaves the cache, the map and the ignored set at once.
LEMMA ClosedSafe ==
    ASSUME SafeInv, HandleWindowClosed
    PROVE  SafeInv'
<1> DEFINE win == Head(queue).win
<1>1. Receive("WindowClosed")
  BY DEF HandleWindowClosed
<1>2. win \in Windows
  BY <1>1, ReceiveType DEF Event
<1>3. /\ cache' = [cache EXCEPT !.loc = [cache.loc EXCEPT ![win] = NoWs]]
      /\ tracked' = [tracked EXCEPT ![win] = Untracked]
      /\ ignored' = ignored \ {win}
      /\ UNCHANGED <<timer, loop>>
  BY DEF HandleWindowClosed, Forgotten
<1> HIDE DEF win
<1>4. cache' \in Cache /\ cache'.loc = [cache.loc EXCEPT ![win] = NoWs]
  BY <1>3 DEF SafeInv, TypeOK, Cache, Place
<1>5. MapSafe(tracked', cache', ignored')
  BY <1>2, <1>3, <1>4, UntrackedType DEF SafeInv, MapSafe, TypeOK, Cache
<1> QED
  BY <1>1, <1>3, <1>4, <1>5, HandlerSafe DEF SafeInv, TypeOK

\* What classifying the windows of ids leaves.
LEMMA ClassifySafe ==
    ASSUME TypeOK, NEW c, NEW t, NEW ign \in SUBSET ignored, NEW ids \in SUBSET Windows,
           MapSafe(t, c, ign), \A win \in ids : c.loc[win] # NoWs, Classify(c, t, ids)
    PROVE  loop' \subseteq Move /\ MapSafe(tracked', c, ign)
<1>1. MapSafe(WithDetected(t, ids), c, ign)
  BY WithDetectedSafe
<1>2. Detected(t, ids) \in SUBSET Windows
  BY DEF Detected
<1> QED  BY <1>1, <1>2, FollowMovesType, FollowNotedSafe DEF Classify

LEMMA SnapshotSafe ==
    ASSUME SafeInv, HandleWindowsChanged
    PROVE  SafeInv'
<1> DEFINE loc == Head(queue).loc
           live == {win \in Windows : loc[win] # NoWs}
           t == [win \in Windows |-> IF win \in live THEN tracked[win] ELSE Untracked]
<1>1. Receive("WindowsChanged")
  BY DEF HandleWindowsChanged
<1>2. loc \in [Windows -> Place]
  BY <1>1, ReceiveType DEF Event
<1>3. /\ cache' = [cache EXCEPT !.loc = loc] /\ ignored' = ignored \cap live
      /\ Classify(cache', t, live) /\ UNCHANGED timer
  BY DEF HandleWindowsChanged
<1> HIDE DEF loc
<1>4. cache' \in Cache /\ cache'.loc = loc
  BY <1>2, <1>3 DEF SafeInv, TypeOK, Cache
<1>5. MapSafe(t, cache', ignored')
  BY <1>3, <1>4, UntrackedType DEF SafeInv, MapSafe
<1>6. \A win \in live : cache'.loc[win] # NoWs
  BY <1>4
<1>7. ignored' \in SUBSET ignored /\ live \in SUBSET Windows
  BY <1>3
<1> HIDE DEF t, live
<1>8. loop' \subseteq Move /\ MapSafe(tracked', cache', ignored')
  BY <1>3, <1>5, <1>6, <1>7, ClassifySafe DEF SafeInv
<1> QED
  BY <1>1, <1>3, <1>4, <1>7, <1>8, HandlerSafe DEF SafeInv, TypeOK

LEMMA ChangedSafe ==
    ASSUME SafeInv, HandleWindowChanged
    PROVE  SafeInv'
<1> DEFINE win == Head(queue).win
           ws == Head(queue).ws
           t == Acknowledged(tracked, win, ws)
<1>1. Receive("WindowOpenedOrChanged")
  BY DEF HandleWindowChanged
<1>2. win \in Windows /\ ws \in Workspaces
  BY <1>1, ReceiveType DEF Event
<1>3. /\ cache' = [cache EXCEPT !.loc = [cache.loc EXCEPT ![win] = ws]]
      /\ Classify(cache', t, {win}) /\ UNCHANGED <<ignored, timer>>
  BY DEF HandleWindowChanged, Updated
<1> HIDE DEF win, ws
<1>4. ws # NoWs
  BY <1>2, NiriAssumption
<1>5. cache' \in Cache /\ cache'.loc = [cache.loc EXCEPT ![win] = ws]
  BY <1>2, <1>3 DEF SafeInv, TypeOK, Cache, Place
<1>6. MapSafe(tracked, cache', ignored)
  BY <1>2, <1>4, <1>5 DEF SafeInv, TypeOK, Cache, MapSafe
<1>7. MapSafe(t, cache', ignored)
  <2> DEFINE e == [tracked[win] EXCEPT !.pending = NoWs]
  <2>1. tracked[win] \in TrackedWindow
    BY <1>2 DEF SafeInv, TypeOK
  <2>2. e \in TrackedWindow /\ e.mode = tracked[win].mode
    BY <2>1 DEF TrackedWindow, Place
  <2>3. t = tracked \/ t = [tracked EXCEPT ![win] = e]
    BY DEF Acknowledged
  <2> HIDE DEF e
  <2>4. e.mode # "none" => cache'.loc[win] # NoWs /\ win \notin ignored
    BY <1>2, <1>6, <2>2 DEF MapSafe
  <2> QED  BY <1>2, <1>6, <2>2, <2>3, <2>4, OneEntrySafe
<1>8. \A x \in {win} : cache'.loc[x] # NoWs
  BY <1>2, <1>4, <1>5 DEF SafeInv, TypeOK, Cache
<1> HIDE DEF t
<1>9. loop' \subseteq Move /\ MapSafe(tracked', cache', ignored')
  <2>1. {win} \in SUBSET Windows /\ ignored \in SUBSET ignored
    BY <1>2
  <2>2. loop' \subseteq Move /\ MapSafe(tracked', cache', ignored)
    BY <1>3, <1>7, <1>8, <2>1, ClassifySafe DEF SafeInv
  <2> QED  BY <1>3, <2>2
<1> QED
  BY <1>1, <1>3, <1>5, <1>9, HandlerSafe DEF SafeInv, TypeOK

-------------------------------------------------------------------------------
(* Timers, the link and the user. *)

LEMMA TimersSafe ==
    ASSUME SafeInv, DebounceEnds \/ (\E win \in Windows : PendingExpires(win))
    PROVE  SafeInv'
<1>1. UNCHANGED <<niri, opened, queue, link, cache, ignored, controls, enabled, loop,
                  budget, happenings>>
  BY DEF DebounceEnds, PendingExpires, compositor, policy, jobs, world
<1>2. timer' \in BOOLEAN
  BY DEF DebounceEnds, PendingExpires, SafeInv, TypeOK
<1>3. work' \in [Workers -> SUBSET Move] /\ MapSafe(tracked', cache, ignored)
  <2>1. CASE UNCHANGED <<work, tracked>>
    BY <2>1 DEF SafeInv, TypeOK
  <2>2. CASE /\ Dispatch(FollowMoves(cache, tracked, Windows))
             /\ tracked' = FollowNoted(cache, tracked, Windows)
    <3>1. FollowMoves(cache, tracked, Windows) \in SUBSET Move
      BY FollowMovesType
    <3> QED  BY <2>2, <3>1, DispatchType, FollowNotedSafe DEF SafeInv
  <2>3. ASSUME NEW win \in Windows, PendingExpires(win)
        PROVE  work' \in [Workers -> SUBSET Move] /\ MapSafe(tracked', cache, ignored)
    <3> DEFINE e == [tracked[win] EXCEPT !.pending = NoWs]
    <3>1. tracked[win] \in TrackedWindow
      BY DEF SafeInv, TypeOK
    <3>2. e \in TrackedWindow /\ e.mode = tracked[win].mode
      BY <3>1 DEF TrackedWindow, Place
    <3>3. tracked' = [tracked EXCEPT ![win] = e] /\ work' = work
      BY <2>3 DEF PendingExpires, jobs
    <3> HIDE DEF e
    <3> QED  BY <3>2, <3>3, OneEntrySafe DEF SafeInv, TypeOK, MapSafe
  <2> QED  BY <2>1, <2>2, <2>3 DEF DebounceEnds
<1>4. TypeOK'
  BY <1>1, <1>2, <1>3 DEF SafeInv, TypeOK, MapSafe
<1> QED  BY <1>1, <1>3, <1>4 DEF SafeInv, MapSafe

LEMMA LinkSafe ==
    ASSUME SafeInv, Connect \/ CutStream \/ StreamEnded
    PROVE  SafeInv'
<1>1. UNCHANGED <<niri, opened, cache, tracked, ignored, controls, enabled, timer, loop, work>>
  BY DEF Connect, CutStream, StreamEnded, compositor, policy, jobs
<1>2. link' \in {"off", "on", "cut"} /\ queue' \in Seq(Event)
  BY BootstrapType DEF Connect, CutStream, StreamEnded, compositor, SafeInv, TypeOK
<1>3. budget' \in [Happenings -> Nat] /\ happenings' \in Nat
  BY SpendType DEF Connect, CutStream, StreamEnded, world, Happenings, SafeInv, TypeOK
<1>4. TypeOK'
  BY <1>1, <1>2, <1>3 DEF SafeInv, TypeOK
<1> QED  BY <1>1, <1>4 DEF SafeInv, MapSafe

LEMMA EnvironmentSafe ==
    ASSUME SafeInv, NEW what \in Happenings, NEW m \in NiriState, Environment(what, m)
    PROVE  SafeInv'
<1>1. UNCHANGED <<link, cache, tracked, ignored, controls, enabled, timer, loop, work>>
  BY DEF Environment, policy, jobs
<1>2. /\ niri' \in NiriState /\ queue' \in Seq(Event)
      /\ budget' \in [Happenings -> Nat] /\ happenings' \in Nat
  BY NiriBecomesType, SpendType DEF Environment, SafeInv
<1>3. opened' \subseteq Windows
  BY DEF Environment, SafeInv, TypeOK
<1>4. TypeOK'
  BY <1>1, <1>2, <1>3 DEF SafeInv, TypeOK
<1> QED  BY <1>1, <1>4 DEF SafeInv, MapSafe

LEMMA WorldSafe ==
    ASSUME SafeInv, World
    PROVE  SafeInv'
<1>1. niri \in NiriState
  BY DEF SafeInv, TypeOK
<1>2. \A ws : FocusOn(niri, ws) \in NiriState
  BY <1>1 DEF FocusOn, NiriState
<1>3. \A win, ws : ws \in Workspaces => MoveTo(niri, win, {ws}) \in NiriState
  BY <1>1, MoveToType
<1>4. \A win, at : at \in Place => [niri EXCEPT !.loc[win] = at] \in NiriState
  BY <1>1 DEF NiriState
<1>5. \A ws : [niri EXCEPT !.name[ws] = Gone] \in NiriState
  BY <1>1 DEF NiriState, WsName
<1>6. niri.focus \in Place /\ NoWs \in Place
  BY <1>1 DEF NiriState, Place
<1>7. {"focus", "move", "open", "close", "drop"} \subseteq Happenings
  BY DEF Happenings
<1>8. ASSUME NEW win \in Windows, UserOpens(win) \/ UserCloses(win)
      PROVE  SafeInv'
  BY <1>4, <1>6, <1>7, <1>8, EnvironmentSafe DEF UserOpens, UserCloses
<1>9. ASSUME NEW ws \in Workspaces, UserFocuses(ws) \/ NiriDrops(ws)
      PROVE  SafeInv'
  BY <1>2, <1>5, <1>7, <1>9, EnvironmentSafe DEF UserFocuses, NiriDrops
<1>10. ASSUME NEW win \in Windows, NEW ws \in Workspaces, UserMoves(win, ws)
       PROVE  SafeInv'
  BY <1>3, <1>7, <1>10, EnvironmentSafe DEF UserMoves
<1> QED  BY <1>8, <1>9, <1>10, LinkSafe DEF World

-------------------------------------------------------------------------------
LEMMA InitSafe ==
    ASSUME Init
    PROVE  SafeInv
<1>1. niri \in NiriState /\ queue \in Seq(Event)
  BY FollowAssumption DEF Init
<1>2. cache \in Cache
  BY DEF Init, Cache, Place, WsName
<1>3. tracked \in [Windows -> TrackedWindow] /\ \A win \in Windows : tracked[win].mode = "none"
  BY UntrackedType DEF Init
<1>4. /\ opened \subseteq Windows /\ ignored \subseteq Windows
      /\ work \in [Workers -> SUBSET Move] /\ loop \subseteq Move
  BY DEF Init
<1>5. /\ controls \in [follow : BOOLEAN, stay : BOOLEAN]
      /\ budget \in [Happenings -> Nat] /\ happenings \in Nat
  BY FollowAssumption DEF Init
<1>6. TypeOK
  BY <1>1, <1>2, <1>3, <1>4, <1>5 DEF Init, TypeOK
<1> QED  BY <1>3, <1>6 DEF SafeInv, MapSafe

LEMMA StepSafe ==
    ASSUME SafeInv, [Next]_vars
    PROVE  SafeInv'
<1>1. CASE UNCHANGED vars
  BY <1>1 DEF vars, SafeInv, TypeOK, MapSafe
<1>2. ASSUME Handle
      PROVE  SafeInv'
  BY <1>2, FocusHandlersSafe, ClosedSafe, SnapshotSafe, ChangedSafe DEF Handle
<1>3. CASE Next
  BY <1>2, <1>3, ClientSafe, ExecutionSafe, TimersSafe, LinkSafe, WorldSafe DEF Next
<1> QED  BY <1>1, <1>3

\* The invariant that all three results follow from holds in every reachable state.
THEOREM Inductive == Spec => []SafeInv
<1>1. Init => SafeInv
  BY InitSafe
<1>2. SafeInv /\ [Next]_vars => SafeInv'
  BY StepSafe
<1> QED  BY <1>1, <1>2, PTL DEF Spec

\* Type correctness: among others, every move that any task has left to execute
\* names a window and a workspace, and what a debounce task or a request plans
\* is always the work of one task.
THEOREM TypeCorrect == Spec => []TypeOK
<1>1. SafeInv => TypeOK
  BY DEF SafeInv
<1> QED  BY <1>1, Inductive, PTL

\* No window is tracked and ignored at the same time, in whatever order requests,
\* changes, closes and snapshots of any number of reconnects are handled.
THEOREM UnpinLasts == Spec => []IgnoredNotTracked
<1>1. SafeInv => IgnoredNotTracked
  BY DEF SafeInv, MapSafe, IgnoredNotTracked, Managed
<1> QED  BY <1>1, Inductive, PTL

\* Every tracked window is in the cache: a request never tracks a window whose
\* close was handled, and a close or a snapshot without it ends the tracking.
THEOREM NoDeadTracked == Spec => []TrackedAreOpen
<1>1. SafeInv => TrackedAreOpen
  BY DEF SafeInv, MapSafe, TrackedAreOpen, Managed
<1> QED  BY <1>1, Inductive, PTL

-------------------------------------------------------------------------------
(* The cache *)

\* While the stream is up, the cache is going to be what the compositor is.
CurrentInv == link = "on" => \A f \in Facets : Heard(queue, cache, f, Part(niri, f))

\* An action of the daemon on a window moves that window at most.
LEMMA ExecuteMoves ==
    ASSUME TypeOK, NEW m \in Move, Execute(m)
    PROVE  \/ UNCHANGED <<niri, queue>> /\ Spend("fault")
           \/ /\ niri' = MoveTo(niri, m.win, {ws \in {m.ws} : Exists(niri, ws)})
              /\ niri' \in NiriState /\ NiriBecomes(niri') /\ UNCHANGED world
<1> DEFINE to == {ws \in {m.ws} : Exists(niri, ws)}
<1>1. m.win \in Windows /\ m.ws \in Workspaces
  BY DEF Move
<1>2. AfterAction(niri, MoveWindowToWorkspace(m.win, m.ws)) = MoveTo(niri, m.win, to)
  <2>1. PICK a : a = MoveWindowToWorkspace(m.win, m.ws)
    OBVIOUS
  <2>2. a.kind = "MoveWindowToWorkspace" /\ a.win = m.win /\ a.ws = m.ws
    BY <2>1 DEF MoveWindowToWorkspace
  <2>3. {ws \in {a.ws} \cap Workspaces : Exists(niri, ws)} = to
    BY <1>1, <2>2
  <2> QED  BY <2>1, <2>2, <2>3 DEF AfterAction
<1>3. MoveTo(niri, m.win, to) \in NiriState
  BY <1>1, MoveToType DEF TypeOK
<1> HIDE DEF to
<1> QED  BY <1>2, <1>3 DEF Execute, NiriBecomes, to

\* In one step the compositor changes in one respect and emits its event, or not at all.
LEMMA NiriSteps ==
    ASSUME TypeOK, Next
    PROVE  \/ UNCHANGED niri
           \/ /\ Simple(niri, niri') /\ niri' \in NiriState /\ NiriBecomes(niri')
              /\ UNCHANGED <<link, cache>>
<1>1. niri \in NiriState
  BY DEF TypeOK
<1>2. ASSUME LoopAct \/ (\E k \in Workers : Work(k))
      PROVE  \/ UNCHANGED niri
             \/ /\ Simple(niri, niri') /\ niri' \in NiriState /\ NiriBecomes(niri')
                /\ UNCHANGED <<link, cache>>
  <2>1. PICK m \in Move : Execute(m)
    BY <1>2 DEF LoopAct, Work, TypeOK
  <2>2. m.win \in Windows
    BY DEF Move
  <2>3. UNCHANGED <<link, cache>>
    BY <1>2 DEF LoopAct, Work
  <2> QED  BY <1>1, <2>1, <2>2, <2>3, ExecuteMoves, MoveSimple
<1>3. ASSUME NEW what \in Happenings, NEW m \in NiriState, Environment(what, m), Simple(niri, m)
      PROVE  /\ Simple(niri, niri') /\ niri' \in NiriState /\ NiriBecomes(niri')
             /\ UNCHANGED <<link, cache>>
  BY <1>3 DEF Environment, NiriBecomes
<1>4. {"focus", "move", "open", "close", "drop"} \subseteq Happenings
  BY DEF Happenings
<1>5. CASE \E win \in Windows : UserOpens(win) \/ UserCloses(win)
  <2>1. \A win \in Windows, at \in Place : [niri EXCEPT !.loc[win] = at] \in NiriState
    BY <1>1 DEF NiriState
  <2>2. niri.focus \in Place /\ NoWs \in Place
    BY <1>1 DEF NiriState, Place
  <2> QED  BY <1>1, <1>3, <1>4, <1>5, <2>1, <2>2, MoveSimple DEF UserOpens, UserCloses
<1>6. CASE \E win \in Windows, ws \in Workspaces : UserMoves(win, ws)
  <2>1. \A win \in Windows, ws \in Workspaces : MoveTo(niri, win, {ws}) \in NiriState
    BY <1>1, MoveToType
  <2> QED  BY <1>1, <1>3, <1>4, <1>6, <2>1, MoveSimple DEF UserMoves
<1>7. CASE \E ws \in Workspaces : UserFocuses(ws) \/ NiriDrops(ws)
  <2>1. \A ws : FocusOn(niri, ws) \in NiriState /\ Simple(niri, FocusOn(niri, ws))
    BY <1>1 DEF FocusOn, NiriState, Simple
  <2>2. \A ws : /\ [niri EXCEPT !.name[ws] = Gone] \in NiriState
                /\ Simple(niri, [niri EXCEPT !.name[ws] = Gone])
    BY <1>1 DEF NiriState, WsName, Simple
  <2> QED  BY <1>3, <1>4, <1>7, <2>1, <2>2 DEF UserFocuses, NiriDrops
<1>8. CASE Client \/ Handle \/ DebounceEnds \/ Connect \/ StreamEnded \/ CutStream
           \/ \E win \in Windows : PendingExpires(win)
  <2>1. CASE Client
    BY <2>1 DEF Client, Pin, Overlay, OverlayRefused, Unpin, ResetGeometry, SetFollow,
                SetFollowMode, SetPolicy, SetEnabled, Request, compositor
  <2>2. CASE Handle
    BY <2>2 DEF Handle, HandleWorkspacesChanged, HandleWorkspaceActivated, HandleWindowClosed,
                HandleWindowsChanged, HandleWindowChanged, Receive
  <2> QED  BY <1>8, <2>1, <2>2 DEF DebounceEnds, Connect, StreamEnded, CutStream,
                                  PendingExpires, compositor
<1> QED  BY <1>2, <1>5, <1>6, <1>7, <1>8 DEF Next, World

\* A handler makes the cache what the event says.
LEMMA HandlersHear ==
    ASSUME TypeOK, Handle
    PROVE  /\ queue # <<>> /\ queue' = Tail(queue) /\ Head(queue) \in Event
           /\ UNCHANGED <<niri, opened, link, work, world>>
           /\ cache' \in Cache
           /\ \A f \in Facets :
                Part(cache', f) = IF Tells(Head(queue), f) THEN Says(Head(queue), f)
                                  ELSE Part(cache, f)
<1> DEFINE e == Head(queue)
<1>1. /\ queue # <<>> /\ queue' = Tail(queue) /\ e \in Event
      /\ UNCHANGED <<niri, opened, link, work, world>>
  BY DEF Handle, HandleWorkspacesChanged, HandleWorkspaceActivated, HandleWindowClosed,
         HandleWindowsChanged, HandleWindowChanged, Receive, TypeOK
<1>2. cache \in Cache
  BY DEF TypeOK
<1>3. /\ HandleWorkspacesChanged =>
           /\ e.type = "WorkspacesChanged"
           /\ cache' = [cache EXCEPT !.name = e.names, !.focus = e.focus]
      /\ HandleWorkspaceActivated =>
           e.type = "WorkspaceActivated" /\ cache' = [cache EXCEPT !.focus = e.ws]
      /\ HandleWindowClosed =>
           e.type = "WindowClosed" /\ cache' = [cache EXCEPT !.loc[e.win] = NoWs]
      /\ HandleWindowsChanged =>
           e.type = "WindowsChanged" /\ cache' = [cache EXCEPT !.loc = e.loc]
      /\ HandleWindowChanged =>
           e.type = "WindowOpenedOrChanged" /\ cache' = [cache EXCEPT !.loc[e.win] = e.ws]
  BY DEF HandleWorkspacesChanged, HandleWorkspaceActivated, HandleWindowClosed,
         HandleWindowsChanged, HandleWindowChanged, Receive, Updated
<1> HIDE DEF e
<1>4. \A f \in Facets : /\ f.part \in {"names", "focus", "loc"}
                        /\ f.part = "loc" => f.win \in Windows
  BY DEF Facets
<1>c. cache.loc \in [Windows -> Place] /\ cache.name \in [Workspaces -> WsName]
      /\ cache.focus \in Place
  BY <1>2 DEF Cache
<1>5. CASE HandleWorkspacesChanged
  <2>1. e.names \in [Workspaces -> WsName] /\ e.focus \in Workspaces
        /\ e.type = "WorkspacesChanged"
    BY <1>1, <1>3, <1>5 DEF Event
  <2>2. /\ cache'.loc = cache.loc /\ cache'.name = e.names /\ cache'.focus = e.focus
        /\ cache' \in Cache
    BY <1>2, <1>3, <1>5, <2>1 DEF Cache, Place
  <2> QED  BY <1>1, <1>4, <2>1, <2>2 DEF Part, Tells, Says, e
<1>6. CASE HandleWorkspaceActivated
  <2>1. e.ws \in Workspaces /\ e.type = "WorkspaceActivated"
    BY <1>1, <1>3, <1>6 DEF Event
  <2>2. /\ cache'.loc = cache.loc /\ cache'.name = cache.name /\ cache'.focus = e.ws
        /\ cache' \in Cache
    BY <1>2, <1>3, <1>6, <2>1 DEF Cache, Place
  <2> QED  BY <1>1, <1>4, <2>1, <2>2 DEF Part, Tells, Says, e
<1>7. CASE HandleWindowsChanged
  <2>1. e.loc \in [Windows -> Place] /\ e.type = "WindowsChanged"
    BY <1>1, <1>3, <1>7 DEF Event
  <2>2. /\ cache'.loc = e.loc /\ cache'.name = cache.name /\ cache'.focus = cache.focus
        /\ cache' \in Cache
    BY <1>2, <1>3, <1>7, <2>1 DEF Cache, Place
  <2> QED  BY <1>1, <1>4, <2>1, <2>2 DEF Part, Tells, Says, e
<1>8. CASE HandleWindowClosed \/ HandleWindowChanged
  <2>1. PICK x : x = IF e.type = "WindowClosed" THEN NoWs ELSE e.ws
    OBVIOUS
  <2>2. e.win \in Windows /\ x \in Place /\ e.type \in {"WindowClosed", "WindowOpenedOrChanged"}
    BY <1>1, <1>3, <1>8, <2>1 DEF Event, Place
  <2>3. cache' = [cache EXCEPT !.loc[e.win] = x]
    BY <1>3, <1>8, <2>1
  <2>4. /\ cache'.loc = [cache.loc EXCEPT ![e.win] = x] /\ cache'.name = cache.name
        /\ cache'.focus = cache.focus /\ cache' \in Cache
    BY <1>2, <1>c, <2>2, <2>3 DEF Cache
  <2> QED  BY <1>1, <1>4, <1>c, <2>1, <2>2, <2>4 DEF Part, Tells, Says, e
<1> QED  BY <1>5, <1>6, <1>7, <1>8 DEF Handle

LEMMA CurrentStep ==
    ASSUME TypeOK, CurrentInv, [Next]_vars
    PROVE  CurrentInv'
<1> SUFFICES ASSUME link' = "on"
             PROVE  \A f \in Facets : Heard(queue', cache', f, Part(niri', f))
  BY DEF CurrentInv
<1>1. CASE UNCHANGED <<niri, queue, link, cache>>
  BY <1>1 DEF CurrentInv
<1>2. CASE /\ Simple(niri, niri') /\ niri' \in NiriState /\ NiriBecomes(niri')
           /\ UNCHANGED <<link, cache>>
  BY <1>2, EmitHeard DEF CurrentInv, NiriBecomes, TypeOK
<1>3. CASE Handle
  <2> SUFFICES ASSUME NEW f \in Facets PROVE Heard(queue', cache', f, Part(niri', f))
    OBVIOUS
  <2>1. PICK v : v = Part(niri, f)
    OBVIOUS
  <2>2. UNCHANGED <<niri, link>> /\ queue # <<>> /\ queue' = Tail(queue) /\ queue \in Seq(Event)
    BY <1>3, HandlersHear DEF TypeOK
  <2>3. Heard(queue, cache, f, v)
    BY <2>1, <2>2 DEF CurrentInv
  <2>4. PICK d : d = cache'
    OBVIOUS
  <2>5. Part(d, f) = IF Tells(Head(queue), f) THEN Says(Head(queue), f) ELSE Part(cache, f)
    BY <1>3, <2>4, HandlersHear
  <2>6. Heard(Tail(queue), d, f, v)
    BY <2>2, <2>3, <2>5, HeardTail
  <2> QED  BY <2>1, <2>2, <2>4, <2>6
<1>4. CASE Connect
  <2> SUFFICES ASSUME NEW f \in Facets PROVE Heard(queue', cache', f, Part(niri', f))
    OBVIOUS
  <2>1. f.part \in {"names", "focus", "loc"}
    BY DEF Facets
  <2>2. niri' = niri /\ queue' = Bootstrap(niri)
    BY <1>4 DEF Connect
  <2>3. PICK e, g : e = WorkspacesEvent(niri) /\ g = WindowsEvent(niri)
    OBVIOUS
  <2>4. /\ e.type = "WorkspacesChanged" /\ e.names = niri.name /\ e.focus = niri.focus
        /\ g.type = "WindowsChanged" /\ g.loc = niri.loc
    BY <2>3 DEF WorkspacesEvent, WindowsEvent
  <2>5. Len(queue') = 2 /\ queue'[1] = e /\ queue'[2] = g
    BY <2>2, <2>3 DEF Bootstrap
  <2>6. CASE f.part = "loc"
    BY <2>2, <2>4, <2>5, <2>6 DEF Heard, Tells, Says, Part
  <2>7. CASE f.part \in {"names", "focus"}
    BY <2>2, <2>4, <2>5, <2>7 DEF Heard, Tells, Says, Part
  <2> QED  BY <2>1, <2>6, <2>7
<1>5. CASE Next /\ UNCHANGED niri /\ ~Handle /\ ~Connect
  <2>1. CASE Client
    BY <1>1, <2>1 DEF Client, Pin, Overlay, OverlayRefused, Unpin, ResetGeometry, SetFollow,
                      SetFollowMode, SetPolicy, SetEnabled, Request, compositor
  <2>2. CASE DebounceEnds \/ \E win \in Windows : PendingExpires(win)
    BY <1>1, <2>2 DEF DebounceEnds, PendingExpires, compositor
  <2>3. CASE StreamEnded \/ CutStream
    BY <2>3 DEF StreamEnded, CutStream
  <2>4. NiriBecomes(niri') /\ UNCHANGED <<link, cache>> => UNCHANGED <<niri, queue, link, cache>>
    BY <1>5 DEF NiriBecomes, Emit
  <2>5. CASE LoopAct \/ (\E k \in Workers : Work(k))
    <3>1. PICK m \in Move : Execute(m)
      BY <2>5 DEF LoopAct, Work, TypeOK
    <3>2. UNCHANGED <<link, cache>>
      BY <2>5 DEF LoopAct, Work
    <3> QED  BY <1>1, <2>4, <3>1, <3>2, ExecuteMoves
  <2>6. CASE World
    <3>1. \A what, m : Environment(what, m) => NiriBecomes(niri') /\ UNCHANGED <<link, cache>>
      BY DEF Environment, NiriBecomes
    <3> QED  BY <1>1, <2>3, <2>4, <2>6, <3>1
             DEF World, UserOpens, UserCloses, UserMoves, UserFocuses, NiriDrops
  <2> QED  BY <1>5, <2>1, <2>2, <2>5, <2>6, <2>3 DEF Next
<1> QED  BY <1>1, <1>2, <1>3, <1>4, <1>5, NiriSteps DEF vars

\* The cache is the compositor's state whenever nothing is on its way, though every
\* event describes the past and the stream may break at any point.
THEOREM CacheStaysCurrent == Spec => []CacheIsCurrent
<1>1. Init => CurrentInv
  BY DEF Init, CurrentInv
<1>2. TypeOK /\ CurrentInv /\ [Next]_vars => CurrentInv'
  BY CurrentStep
<1>3. TypeOK /\ CurrentInv => CacheIsCurrent
  <2> SUFFICES ASSUME TypeOK, CurrentInv, link = "on", queue = <<>>
               PROVE  cache.loc = niri.loc /\ cache.name = niri.name /\ cache.focus = niri.focus
    BY DEF CacheIsCurrent, Settled, Quiet
  <2>1. \A f \in Facets : Part(cache, f) = Part(niri, f)
    BY DEF CurrentInv, Heard
  <2>2. \A win \in Windows : cache.loc[win] = niri.loc[win]
    <3> SUFFICES ASSUME NEW win \in Windows PROVE cache.loc[win] = niri.loc[win]
      OBVIOUS
    <3>1. PICK f : f = [part |-> "loc", win |-> win]
      OBVIOUS
    <3>2. f \in Facets /\ f.part = "loc" /\ f.win = win
      BY <3>1 DEF Facets
    <3> QED  BY <2>1, <3>2 DEF Part
  <2>3. cache.name = niri.name /\ cache.focus = niri.focus
    <3>1. PICK f, g : f = [part |-> "names", win |-> NoWin] /\ g = [part |-> "focus", win |-> NoWin]
      OBVIOUS
    <3>2. f \in Facets /\ f.part = "names" /\ g \in Facets /\ g.part = "focus"
      BY <3>1 DEF Facets
    <3> QED  BY <2>1, <3>2 DEF Part
  <2> QED  BY <2>2, <2>3 DEF TypeOK, Cache, NiriState
<1> QED  BY <1>1, <1>2, <1>3, TypeCorrect, PTL DEF Spec

(***************************************************************************)
(* The moves of tracked windows: which of them count as pending, where a   *)
(* released window ends up, which output a follower keeps to, and that the *)
(* followers are at the focus when everything has settled.                 *)
(*                                                                         *)
(* Every step is seen through what it does to four things: the moves that  *)
(* are due (in the supervisor's hands or in another task's), the events    *)
(* that are in the queue, the entry of one window, and that window's place *)
(* in Niri.  A few lemmas say who may change each of them; the invariants  *)
(* are then proved from those, and not from the actions.                   *)
(***************************************************************************)

-------------------------------------------------------------------------------
(* What is due *)

Due == loop \cup UNION {work[k] : k \in Workers}

LEMMA DispatchDue ==
    ASSUME TypeOK, NEW moves, Dispatch(moves), loop' = loop
    PROVE  Due' = Due \cup moves
<1>1. PICK k \in Workers : work[k] = {} /\ work' = [work EXCEPT ![k] = moves]
  BY DEF Dispatch
<1>2. work \in [Workers -> SUBSET Move]
  BY DEF TypeOK
<1>3. work'[k] = moves /\ \A l \in Workers \ {k} : work'[l] = work[l]
  BY <1>1, <1>2
<1>4. \A m \in Due' : m \in Due \cup moves
  BY <1>3 DEF Due
<1>5. \A m \in Due \cup moves : m \in Due'
  BY <1>1, <1>3 DEF Due
<1> QED  BY <1>4, <1>5

LEMMA DueMoves == ASSUME TypeOK PROVE Due \subseteq Move
  BY DEF TypeOK, Due

\* A task executes one of its moves.
LEMMA ExecuteDue ==
    ASSUME TypeOK, LoopAct \/ (\E k \in Workers : Work(k))
    PROVE  /\ \E m \in Due : /\ m \in Move /\ Execute(m)
                             /\ Due' \subseteq Due /\ Due \ {m} \subseteq Due'
           /\ UNCHANGED <<opened, link, cache, tracked, ignored, controls, enabled, timer>>
<1>1. CASE LoopAct
  <2>1. PICK m \in loop : Execute(m) /\ loop' = loop \ {m} /\ work' = work
    BY <1>1 DEF LoopAct
  <2>2. m \in Due /\ m \in Move /\ Due' \subseteq Due /\ Due \ {m} \subseteq Due'
    BY <2>1 DEF Due, TypeOK
  <2> QED  BY <1>1, <2>1, <2>2 DEF LoopAct, policy
<1>2. ASSUME NEW k \in Workers, Work(k)
      PROVE  /\ \E m \in Due : /\ m \in Move /\ Execute(m)
                               /\ Due' \subseteq Due /\ Due \ {m} \subseteq Due'
             /\ UNCHANGED <<opened, link, cache, tracked, ignored, controls, enabled, timer>>
  <2>1. PICK m \in work[k] : /\ Execute(m) /\ work' = [work EXCEPT ![k] = work[k] \ {m}]
                             /\ loop' = loop
    BY <1>2 DEF Work
  <2>2. work \in [Workers -> SUBSET Move] /\ m \in Due /\ m \in Move
    BY DEF Due, TypeOK
  <2>3. work'[k] = work[k] \ {m} /\ \A l \in Workers \ {k} : work'[l] = work[l]
    BY <2>1, <2>2
  <2>4. \A x \in Due' : x \in Due
    BY <2>1, <2>3 DEF Due
  <2>5. \A x \in Due \ {m} : x \in Due'
    BY <2>1, <2>3 DEF Due
  <2> QED  BY <1>2, <2>1, <2>2, <2>4, <2>5 DEF Work, policy
<1> QED  BY <1>1, <1>2

-------------------------------------------------------------------------------
(* What a step does to the map and to the moves that are due *)

\* The moves that follow cache c are planned for the windows ids of map t.
Plan(c, t, ids) ==
    /\ t \in [Windows -> TrackedWindow] /\ ids \subseteq Windows
    /\ tracked' = FollowNoted(c, t, ids)
    /\ Due' = Due \cup FollowMoves(c, t, ids)

LEMMA PlanNotes ==
    ASSUME NEW c, NEW t, NEW ids, Plan(c, t, ids)
    PROVE  /\ \A w \in Windows :
                /\ tracked'[w] \in TrackedWindow
                /\ tracked'[w].mode = t[w].mode /\ tracked'[w].follow = t[w].follow
                /\ tracked'[w].stay = t[w].stay /\ tracked'[w].origin = t[w].origin
                /\ IF w \in ids /\ Owed(c, t, w)
                   THEN /\ tracked'[w].pending = c.focus /\ c.loc[w] # c.focus
                        /\ c.loc[w] # NoWs /\ c.focus \in Workspaces /\ t[w].mode # "none"
                        /\ [win |-> w, ws |-> c.focus] \in Due'
                   ELSE tracked'[w] = t[w]
           /\ \A m \in Due' : \/ m \in Due
                              \/ /\ m \in Move /\ m.win \in ids /\ m.ws = c.focus
                                 /\ Owed(c, t, m.win)
           /\ Due \subseteq Due'
<1>1. ASSUME NEW w \in Windows
      PROVE  /\ tracked'[w] \in TrackedWindow
             /\ tracked'[w].mode = t[w].mode /\ tracked'[w].follow = t[w].follow
             /\ tracked'[w].stay = t[w].stay /\ tracked'[w].origin = t[w].origin
             /\ IF w \in ids /\ Owed(c, t, w)
                THEN /\ tracked'[w].pending = c.focus /\ c.loc[w] # c.focus
                     /\ c.loc[w] # NoWs /\ c.focus \in Workspaces /\ t[w].mode # "none"
                     /\ [win |-> w, ws |-> c.focus] \in Due'
                ELSE tracked'[w] = t[w]
  <2>1. t[w] \in TrackedWindow
    BY DEF Plan
  <2>2. CASE w \in ids /\ Owed(c, t, w)
    <3>1. tracked'[w] = [t[w] EXCEPT !.pending = c.focus]
      BY <2>2 DEF Plan, FollowNoted
    <3>2. [win |-> w, ws |-> c.focus] \in FollowMoves(c, t, ids)
      BY <2>2 DEF FollowMoves
    <3>3. c.focus \in Workspaces
      BY <2>2 DEF Owed
    <3> QED  BY <2>1, <2>2, <3>1, <3>2, <3>3 DEF Plan, Owed, TrackedWindow, Place
  <2>3. CASE ~(w \in ids /\ Owed(c, t, w))
    <3>1. tracked'[w] = t[w]
      BY <2>3 DEF Plan, FollowNoted
    <3> QED  BY <2>1, <2>3, <3>1
  <2> QED  BY <2>2, <2>3
<1>2. \A m \in FollowMoves(c, t, ids) : /\ m \in Move /\ m.win \in ids /\ m.ws = c.focus
                                       /\ Owed(c, t, m.win)
  BY DEF FollowMoves, Move, Owed, Plan
<1> QED  BY <1>1, <1>2 DEF Plan

\* A request changes the entry of one window at most.
LEMMA ClientCases ==
    ASSUME SafeInv, Client
    PROVE  /\ UNCHANGED <<niri, opened, queue, link, cache, timer, loop>>
           /\ Patient => link = "on" /\ Quiet
           /\ \/ UNCHANGED <<tracked, work>>
              \/ \E win \in Windows, e \in TrackedWindow :
                   /\ cache.loc[win] # NoWs /\ e.mode # "none" /\ e.pending = NoWs
                   /\ IF tracked[win].mode = "none"
                      THEN e.mode # "auto" /\ e.origin = cache.loc[win]
                      ELSE /\ e.origin = tracked[win].origin
                           /\ e.mode = "auto" => tracked[win].mode = "auto"
                   /\ Plan(cache', [tracked EXCEPT ![win] = e], {win})
                   /\ UNCHANGED enabled
              \/ \E win \in Windows :
                   /\ tracked[win].mode # "none"
                   /\ tracked' = [tracked EXCEPT ![win] = Untracked]
                   /\ Dispatch(ReturnMoves(win)) /\ Due' = Due \cup ReturnMoves(win)
                   /\ UNCHANGED enabled
<1> DEFINE Entered(win, e) ==
             /\ cache.loc[win] # NoWs /\ e.mode # "none" /\ e.pending = NoWs
             /\ IF tracked[win].mode = "none"
                THEN e.mode # "auto" /\ e.origin = cache.loc[win]
                ELSE /\ e.origin = tracked[win].origin
                     /\ e.mode = "auto" => tracked[win].mode = "auto"
             /\ Plan(cache', [tracked EXCEPT ![win] = e], {win})
             /\ UNCHANGED enabled
<1>1. \A what : Request(what) => /\ UNCHANGED <<niri, opened, queue, link, cache, timer, loop>>
                                 /\ Patient => link = "on" /\ Quiet
  BY DEF Request, compositor
<1>2. TypeOK /\ tracked \in [Windows -> TrackedWindow] /\ cache \in Cache
  BY DEF SafeInv, TypeOK
<1>3. ASSUME NEW win \in Windows, NEW mode \in {"auto", "pin", "overlay"},
             NEW p \in [follow : BOOLEAN, stay : BOOLEAN], NEW origin \in Place,
             ThenFollow([tracked EXCEPT ![win] = Entry(mode, p, origin)], win),
             loop' = loop, UNCHANGED <<cache, enabled>>, cache.loc[win] # NoWs,
             IF tracked[win].mode = "none" THEN mode # "auto" /\ origin = cache.loc[win]
             ELSE origin = tracked[win].origin /\ (mode = "auto" => tracked[win].mode = "auto")
      PROVE  \E e \in TrackedWindow : Entered(win, e)
  <2>1. PICK e : e = Entry(mode, p, origin)
    OBVIOUS
  <2>2. e \in TrackedWindow /\ e.mode = mode /\ e.origin = origin /\ e.pending = NoWs
    BY <2>1, EntryType DEF Entry
  <2>3. [tracked EXCEPT ![win] = e] \in [Windows -> TrackedWindow]
    BY <1>2, <2>2
  <2>4. tracked' = FollowNoted(cache, [tracked EXCEPT ![win] = e], {win})
        /\ Dispatch(FollowMoves(cache, [tracked EXCEPT ![win] = e], {win}))
    BY <1>3, <2>1 DEF ThenFollow
  <2>5. Plan(cache', [tracked EXCEPT ![win] = e], {win})
    BY <1>2, <1>3, <2>3, <2>4, DispatchDue DEF Plan
  <2> QED  BY <1>3, <2>2, <2>5
<1>4. ASSUME NEW win \in Windows, Pin(win)
      PROVE  UNCHANGED <<tracked, work>> \/ \E e \in TrackedWindow : Entered(win, e)
  <2>1. cache.loc[win] \in Place /\ Policy \in [follow : BOOLEAN, stay : BOOLEAN]
    BY <1>2, FollowAssumption DEF Cache
  <2>2. \/ UNCHANGED <<tracked, work>>
        \/ /\ tracked[win].mode = "none" /\ cache.loc[win] # NoWs /\ UNCHANGED enabled
           /\ ThenFollow([tracked EXCEPT ![win] = Entry("pin", Policy, cache.loc[win])], win)
    BY <1>4 DEF Pin
  <2>3. UNCHANGED <<loop, cache>>
    BY <1>1, <1>4 DEF Pin
  <2> HIDE DEF Entered
  <2> QED  BY <1>3, <2>1, <2>2, <2>3
<1>5. ASSUME NEW win \in Windows, Overlay(win) \/ OverlayRefused(win)
      PROVE  UNCHANGED <<tracked, work>> \/ \E e \in TrackedWindow : Entered(win, e)
  <2>1. /\ cache.loc[win] \in Place /\ OverlayPolicy \in [follow : BOOLEAN, stay : BOOLEAN]
        /\ tracked[win].origin \in Place
    BY <1>2, FollowAssumption DEF Cache, TrackedWindow
  <2>2. \/ UNCHANGED <<tracked, work>>
        \/ /\ tracked[win].mode # "auto" /\ cache.loc[win] # NoWs /\ UNCHANGED enabled
           /\ ThenFollow([tracked EXCEPT ![win] =
                            Entry("overlay", OverlayPolicy, OverlayOrigin(win))], win)
    BY <1>5 DEF Overlay, OverlayRefused
  <2>3. UNCHANGED <<loop, cache>>
    BY <1>1, <1>5 DEF Overlay, OverlayRefused
  <2>4. PICK o \in Place : /\ o = OverlayOrigin(win)
                           /\ IF tracked[win].mode = "none" THEN o = cache.loc[win]
                              ELSE o = tracked[win].origin
    BY <2>1 DEF OverlayOrigin
  <2> HIDE DEF Entered
  <2> QED  BY <1>3, <2>1, <2>2, <2>3, <2>4
<1>6. ASSUME NEW win \in Windows, NEW p \in [follow : BOOLEAN, stay : BOOLEAN], SetPolicy(win, p)
      PROVE  \E e \in TrackedWindow : Entered(win, e)
  <2>1. PICK md, o : md = tracked[win].mode /\ o = tracked[win].origin
    OBVIOUS
  <2>2. md \in {"auto", "pin", "overlay"} /\ o \in Place /\ cache.loc[win] # NoWs
    BY <1>2, <1>6, <2>1 DEF SetPolicy, SafeInv, MapSafe, TrackedWindow
  <2>3. /\ ThenFollow([tracked EXCEPT ![win] = Entry(md, p, o)], win) /\ UNCHANGED enabled
    BY <1>2, <1>6, <2>1 DEF SetPolicy
  <2>4. UNCHANGED <<loop, cache>>
    BY <1>1, <1>6 DEF SetPolicy
  <2> HIDE DEF Entered
  <2> QED  BY <1>3, <2>1, <2>2, <2>3, <2>4
<1>7. ASSUME NEW win \in Windows, NEW b \in BOOLEAN, SetFollow(win, b) \/ SetFollowMode(win, b)
      PROVE  \E p \in [follow : BOOLEAN, stay : BOOLEAN] : SetPolicy(win, p)
  <2>1. tracked[win].follow \in BOOLEAN /\ tracked[win].stay \in BOOLEAN
    BY <1>2 DEF TrackedWindow
  <2> QED  BY <1>7, <2>1 DEF SetFollow, SetFollowMode
<1>8. ASSUME NEW win \in Windows, ResetGeometry(win)
      PROVE  \E p \in [follow : BOOLEAN, stay : BOOLEAN] : SetPolicy(win, p)
  BY <1>8, FollowAssumption DEF ResetGeometry
<1>9. ASSUME NEW win \in Windows, Unpin(win)
      PROVE  /\ tracked[win].mode # "none"
             /\ tracked' = [tracked EXCEPT ![win] = Untracked]
             /\ Dispatch(ReturnMoves(win)) /\ Due' = Due \cup ReturnMoves(win)
             /\ UNCHANGED enabled
  <2>1. loop' = loop
    BY <1>1, <1>9 DEF Unpin
  <2> QED  BY <1>2, <1>9, <2>1, DispatchDue DEF Unpin
<1>10. ASSUME NEW b \in BOOLEAN, SetEnabled(b)
       PROVE  UNCHANGED <<tracked, work>>
  BY <1>10 DEF SetEnabled
<1>11. /\ UNCHANGED <<niri, opened, queue, link, cache, timer, loop>>
       /\ Patient => link = "on" /\ Quiet
  BY <1>1 DEF Client, Pin, Overlay, OverlayRefused, Unpin, ResetGeometry, SetFollow,
              SetFollowMode, SetPolicy, SetEnabled
<1> HIDE DEF Entered
<1>12. \/ UNCHANGED <<tracked, work>>
       \/ \E win \in Windows, e \in TrackedWindow : Entered(win, e)
       \/ \E win \in Windows : Unpin(win)
  BY <1>4, <1>5, <1>6, <1>7, <1>8, <1>10 DEF Client
<1> QED  BY <1>9, <1>11, <1>12 DEF Entered

\* The map that an event is classified with: what closed or is gone is forgotten,
\* what arrived is acknowledged.
Present(e) ==
    IF e.type = "WindowsChanged"
    THEN [win \in Windows |-> IF e.loc[win] # NoWs THEN tracked[win] ELSE Untracked]
    ELSE Acknowledged(tracked, e.win, e.ws)
Reported(e) ==
    IF e.type = "WindowsChanged" THEN {win \in Windows : e.loc[win] # NoWs} ELSE {e.win}

\* A handler plans moves for the new cache, or forgets a window, or arms the timer.
LEMMA HandleCases ==
    ASSUME SafeInv, Handle
    PROVE  /\ queue # <<>> /\ queue' = Tail(queue) /\ Head(queue) \in Event
           /\ UNCHANGED <<niri, opened, link, work, enabled, world>> /\ cache' \in Cache
           /\ Due \subseteq Due'
           /\ \/ /\ Head(queue).type = "WorkspacesChanged"
                 /\ IF enabled THEN Plan(cache', tracked, Windows) ELSE UNCHANGED <<tracked, Due>>
                 /\ timer' = timer
              \/ /\ Head(queue).type = "WorkspaceActivated"
                 /\ UNCHANGED <<tracked, Due>> /\ timer' = TRUE
              \/ /\ Head(queue).type = "WindowClosed"
                 /\ tracked' = [tracked EXCEPT ![Head(queue).win] = Untracked]
                 /\ UNCHANGED <<Due, timer>>
              \/ /\ Head(queue).type \in {"WindowsChanged", "WindowOpenedOrChanged"}
                 /\ Present(Head(queue)) \in [Windows -> TrackedWindow]
                 /\ Plan(cache', WithDetected(Present(Head(queue)), Reported(Head(queue))),
                         Detected(Present(Head(queue)), Reported(Head(queue))))
                 /\ timer' = timer
<1> DEFINE e == Head(queue)
<1>0. TypeOK /\ tracked \in [Windows -> TrackedWindow]
  BY DEF SafeInv, TypeOK
<1>1. /\ queue # <<>> /\ queue' = Tail(queue) /\ e \in Event
      /\ UNCHANGED <<niri, opened, link, work, world>> /\ cache' \in Cache
  BY <1>0, HandlersHear
<1>2. enabled' = enabled /\ loop = {}
  BY DEF Handle, HandleWorkspacesChanged, HandleWorkspaceActivated, HandleWindowClosed,
         HandleWindowsChanged, HandleWindowChanged, Receive
<1> HIDE DEF e
<1>3. \A moves : loop' = moves => Due' = Due \cup moves
  BY <1>1, <1>2 DEF Due
<1>4. loop' = loop => Due' = Due
  BY <1>1 DEF Due
<1>5. NoWs \in Place /\ Entry("auto", controls, NoWs) \in TrackedWindow
  BY <1>0, EntryType DEF TypeOK, Place
<1>6. ASSUME NEW t \in [Windows -> TrackedWindow], NEW ids \in SUBSET Windows,
             Classify(cache', t, ids)
      PROVE  Plan(cache', WithDetected(t, ids), Detected(t, ids))
  <2>1. WithDetected(t, ids) \in [Windows -> TrackedWindow]
    BY <1>5 DEF WithDetected
  <2>2. Detected(t, ids) \subseteq Windows
    BY DEF Detected
  <2> QED  BY <1>3, <1>6, <2>1, <2>2 DEF Classify, Plan
<1>7. CASE HandleWorkspacesChanged
  <2>1. e.type = "WorkspacesChanged" /\ timer' = timer
    BY <1>7 DEF HandleWorkspacesChanged, Receive, e
  <2>2. IF enabled THEN /\ loop' = FollowMoves(cache', tracked, Windows)
                        /\ tracked' = FollowNoted(cache', tracked, Windows)
        ELSE UNCHANGED <<loop, tracked>>
    BY <1>7 DEF HandleWorkspacesChanged, FollowAll
  <2>3. IF enabled THEN Plan(cache', tracked, Windows) ELSE UNCHANGED <<tracked, Due>>
    BY <1>0, <1>3, <1>4, <2>2 DEF Plan
  <2>4. Due \subseteq Due'
    BY <2>3 DEF Plan
  <2> QED  BY <1>1, <1>2, <2>1, <2>3, <2>4 DEF e
<1>8. CASE HandleWorkspaceActivated
  BY <1>1, <1>2, <1>4, <1>8 DEF HandleWorkspaceActivated, Receive, TimerArmed, e
<1>9. CASE HandleWindowClosed
  BY <1>1, <1>2, <1>4, <1>9 DEF HandleWindowClosed, Receive, Forgotten, e
<1>10. CASE HandleWindowsChanged
  <2>1. e.type = "WindowsChanged" /\ timer' = timer
    BY <1>10 DEF HandleWindowsChanged, Receive, e
  <2>2. PICK t : t = Present(e)
    OBVIOUS
  <2>3. /\ t = [win \in Windows |-> IF e.loc[win] # NoWs THEN tracked[win] ELSE Untracked]
        /\ Reported(e) = {win \in Windows : e.loc[win] # NoWs}
    BY <2>1, <2>2 DEF Present, Reported
  <2>4. t = [win \in Windows |-> IF win \in Reported(e) THEN tracked[win] ELSE Untracked]
    BY <2>3
  <2>5. Classify(cache',
                 [win \in Windows |-> IF win \in Reported(e) THEN tracked[win] ELSE Untracked],
                 Reported(e))
    BY <1>10, <2>3 DEF HandleWindowsChanged, e
  <2>6. t \in [Windows -> TrackedWindow] /\ Reported(e) \in SUBSET Windows
    BY <1>0, <2>3, UntrackedType
  <2>7. Plan(cache', WithDetected(t, Reported(e)), Detected(t, Reported(e)))
    BY <1>6, <2>4, <2>5, <2>6
  <2>8. Due \subseteq Due'
    BY <2>7 DEF Plan
  <2> QED  BY <1>1, <1>2, <2>1, <2>2, <2>6, <2>7, <2>8 DEF e
<1>11. CASE HandleWindowChanged
  <2>1. e.type = "WindowOpenedOrChanged" /\ timer' = timer
    BY <1>11 DEF HandleWindowChanged, Receive, e
  <2>2. PICK t : t = Present(e)
    OBVIOUS
  <2>3. t = Acknowledged(tracked, e.win, e.ws) /\ Reported(e) = {e.win}
    BY <2>1, <2>2 DEF Present, Reported
  <2>4. Classify(cache', Acknowledged(tracked, e.win, e.ws), {e.win})
    BY <1>11 DEF HandleWindowChanged, e
  <2>5. e.win \in Windows /\ e.ws \in Workspaces
    BY <1>1, <2>1 DEF Event
  <2>6. t \in [Windows -> TrackedWindow]
    <3>1. [tracked[e.win] EXCEPT !.pending = NoWs] \in TrackedWindow
      BY <1>0, <1>5, <2>5 DEF TrackedWindow
    <3>2. t = tracked \/ t = [tracked EXCEPT ![e.win] = [tracked[e.win] EXCEPT !.pending = NoWs]]
      BY <2>3 DEF Acknowledged
    <3> QED  BY <1>0, <3>1, <3>2
  <2>7. Plan(cache', WithDetected(t, Reported(e)), Detected(t, Reported(e)))
    BY <1>6, <2>3, <2>4, <2>5, <2>6
  <2>8. Due \subseteq Due'
    BY <2>7 DEF Plan
  <2> QED  BY <1>1, <1>2, <2>1, <2>2, <2>6, <2>7, <2>8 DEF e
<1> QED  BY <1>7, <1>8, <1>9, <1>10, <1>11 DEF Handle

LEMMA DebouncePlans ==
    ASSUME SafeInv, DebounceEnds
    PROVE  /\ UNCHANGED <<niri, opened, queue, link, cache, ignored, enabled, loop, world>>
           /\ timer /\ timer' = FALSE /\ (Patient => Quiet)
           /\ IF enabled THEN Plan(cache', tracked, Windows) ELSE UNCHANGED <<tracked, work>>
<1>1. /\ UNCHANGED <<niri, opened, queue, link, cache, ignored, enabled, loop, world>>
      /\ timer /\ timer' = FALSE /\ (Patient => Quiet)
  BY DEF DebounceEnds, compositor, policy
<1>2. CASE enabled
  <2>1. /\ Dispatch(FollowMoves(cache, tracked, Windows))
        /\ tracked' = FollowNoted(cache, tracked, Windows)
    BY <1>2 DEF DebounceEnds
  <2>2. TypeOK /\ tracked \in [Windows -> TrackedWindow]
    BY DEF SafeInv, TypeOK
  <2>3. Due' = Due \cup FollowMoves(cache, tracked, Windows)
    BY <1>1, <2>1, <2>2, DispatchDue
  <2>4. PICK d : d = cache
    OBVIOUS
  <2>5. Plan(d, tracked, Windows)
    BY <2>1, <2>2, <2>3, <2>4 DEF Plan
  <2> QED  BY <1>1, <1>2, <2>4, <2>5
<1>3. CASE ~enabled
  BY <1>1, <1>3 DEF DebounceEnds
<1> QED  BY <1>2, <1>3

-------------------------------------------------------------------------------
(* Bounds and beginnings *)

\* What the bounds exclude never happens.
BudgetInv == \A what \in Happenings : Limits[what] = 0 => budget[what] = 0

LEMMA StepSpends ==
    ASSUME TypeOK, Next
    PROVE  UNCHANGED world \/ \E what \in Happenings : Spend(what)
<1>1. {"request", "toggle", "focus", "move", "open", "close", "drop", "fault", "cut"}
        \subseteq Happenings
  BY DEF Happenings
<1>2. CASE Client
  <2>1. \A what \in Happenings : Request(what) => \E h \in Happenings : Spend(h)
    BY DEF Request
  <2> QED  BY <1>1, <1>2, <2>1 DEF Client, Pin, Overlay, OverlayRefused, Unpin, ResetGeometry,
                                   SetFollow, SetFollowMode, SetPolicy, SetEnabled
<1>3. CASE Handle
  BY <1>3 DEF Handle, HandleWorkspacesChanged, HandleWorkspaceActivated, HandleWindowClosed,
              HandleWindowsChanged, HandleWindowChanged, Receive
<1>4. CASE LoopAct \/ \E k \in Workers : Work(k)
  <2>1. \E m \in Move : Execute(m)
    BY <1>4 DEF LoopAct, Work, TypeOK
  <2> QED  BY <1>1, <2>1 DEF Execute
<1>5. CASE World
  <2>1. \A what, m : what \in Happenings /\ Environment(what, m) => \E h \in Happenings : Spend(h)
    BY DEF Environment
  <2> QED  BY <1>1, <1>5, <2>1 DEF World, UserOpens, UserCloses, UserFocuses, NiriDrops,
                                   UserMoves, CutStream
<1> QED  BY <1>2, <1>3, <1>4, <1>5 DEF Next, DebounceEnds, Connect, StreamEnded, PendingExpires

LEMMA BudgetStep ==
    ASSUME TypeOK, BudgetInv, [Next]_vars
    PROVE  BudgetInv'
<1>1. CASE UNCHANGED world
  BY <1>1 DEF BudgetInv, world
<1>2. ASSUME NEW what \in Happenings, Spend(what)
      PROVE  BudgetInv'
  <2> SUFFICES ASSUME NEW h \in Happenings, Limits[h] = 0 PROVE budget'[h] = 0
    BY DEF BudgetInv
  <2>1. budget[h] = 0 /\ budget[what] > 0
    BY <1>2 DEF BudgetInv, Spend
  <2>2. h # what
    BY <2>1
  <2>3. budget' = [budget EXCEPT ![what] = budget[what] - 1]
    BY <1>2 DEF Spend
  <2> QED  BY <2>1, <2>2, <2>3 DEF TypeOK
<1>3. CASE UNCHANGED vars
  BY <1>1, <1>3 DEF vars, world
<1> QED  BY <1>1, <1>2, <1>3, StepSpends

\* No fault: the step of a move is the move.
LEMMA MoveMade ==
    ASSUME TypeOK, BudgetInv, Limits["fault"] = 0, NEW m \in Move, Execute(m)
    PROVE  /\ niri' = MoveTo(niri, m.win, {ws \in {m.ws} : Exists(niri, ws)})
           /\ niri' \in NiriState /\ NiriBecomes(niri')
<1>1. "fault" \in Happenings
  BY DEF Happenings
<1>2. ~Spend("fault")
  BY <1>1 DEF BudgetInv, Spend
<1> QED  BY <1>2, ExecuteMoves

\* Nothing is known of any window, and nothing is due.
Virgin == /\ \A x \in Windows : tracked[x] = Untracked /\ cache.loc[x] = NoWs
          /\ Due = {}

LEMMA NothingPlanned ==
    ASSUME NEW c, NEW t, NEW ids, Plan(c, t, ids), \A x \in ids : t[x] = Untracked
    PROVE  (\A x \in Windows : tracked'[x] = t[x]) /\ Due' = Due
<1>1. \A x \in ids : ~Owed(c, t, x)
  BY UntrackedType DEF Owed
<1> QED  BY <1>1, PlanNotes

LEMMA VirginStays ==
    ASSUME SafeInv, Virgin, Next,
           Handle => Head(queue).type \notin {"WindowsChanged", "WindowOpenedOrChanged"}
    PROVE  Virgin'
<1>0. TypeOK /\ \A x \in Windows : tracked[x].mode = "none"
  BY UntrackedType DEF SafeInv, Virgin
<1>1. CASE UNCHANGED <<tracked, loop, work, cache>>
  BY <1>1 DEF Virgin, Due
<1>2. CASE Client
  <2>1. UNCHANGED <<tracked, work, loop, cache>>
    BY <1>0, <1>2, ClientCases DEF Virgin
  <2> QED  BY <1>1, <2>1
<1>3. CASE Handle
  <2>1. Head(queue).type \notin {"WindowsChanged", "WindowOpenedOrChanged"}
    BY <1>3
  <2>2. \A x \in Windows : cache'.loc[x] = NoWs
    <3> SUFFICES ASSUME NEW x \in Windows PROVE cache'.loc[x] = NoWs
      OBVIOUS
    <3>1. PICK f : f = [part |-> "loc", win |-> x]
      OBVIOUS
    <3>2. f \in Facets /\ f.part = "loc" /\ f.win = x
      BY <3>1 DEF Facets
    <3>3. PICK d : d = cache'
      OBVIOUS
    <3>4. Part(d, f) = IF Tells(Head(queue), f) THEN Says(Head(queue), f) ELSE Part(cache, f)
      BY <1>0, <1>3, <3>2, <3>3, HandlersHear
    <3>5. d.loc[x] = NoWs
      <4>1. Part(d, f) = d.loc[x] /\ Part(cache, f) = cache.loc[x]
        BY <3>2 DEF Part
      <4>2. cache.loc[x] = NoWs
        BY DEF Virgin
      <4>3. Tells(Head(queue), f) => Says(Head(queue), f) = NoWs
        BY <2>1, <3>2 DEF Tells, Says
      <4> QED  BY <3>4, <4>1, <4>2, <4>3
    <3> QED  BY <3>3, <3>5
  <2>3. /\ \A x \in Windows : tracked'[x] = Untracked
        /\ Due' = {}
    <3>1. Head(queue) \in Event /\ tracked \in [Windows -> TrackedWindow]
      BY <1>0, <1>3, HandlersHear DEF TypeOK
    <3>2. CASE UNCHANGED <<tracked, Due>>
      BY <3>2 DEF Virgin
    <3>3. CASE Plan(cache', tracked, Windows)
      BY <3>3, NothingPlanned DEF Virgin
    <3>4. CASE tracked' = [tracked EXCEPT ![Head(queue).win] = Untracked] /\ UNCHANGED Due
      BY <3>1, <3>4 DEF Virgin
    <3> QED  BY <1>3, <2>1, <3>2, <3>3, <3>4, HandleCases
  <2>4. PICK d : d = cache'
    OBVIOUS
  <2> QED  BY <2>2, <2>3 DEF Virgin
<1>4. CASE LoopAct \/ \E k \in Workers : Work(k)
  BY <1>0, <1>4, ExecuteDue DEF Virgin
<1>5. CASE DebounceEnds
  <2>1. CASE Plan(cache', tracked, Windows)
    <3>1. (\A x \in Windows : tracked'[x] = tracked[x]) /\ Due' = Due
      BY <2>1, NothingPlanned DEF Virgin
    <3> QED  BY <1>5, <3>1, DebouncePlans DEF Virgin
  <2>2. CASE UNCHANGED <<tracked, work>>
    BY <1>1, <1>5, <2>2, DebouncePlans
  <2> QED  BY <1>5, <2>1, <2>2, DebouncePlans
<1>6. ASSUME NEW win \in Windows, PendingExpires(win)
      PROVE  Virgin'
  BY <1>6 DEF PendingExpires, Virgin, Untracked
<1>7. CASE Connect \/ StreamEnded \/ World
  <2>1. \A what, m : Environment(what, m) => UNCHANGED <<tracked, loop, work, cache>>
    BY DEF Environment, jobs
  <2> QED  BY <1>1, <1>7, <2>1 DEF Connect, StreamEnded, World, UserOpens, UserCloses,
                 UserFocuses, NiriDrops, UserMoves, CutStream, jobs
<1> QED  BY <1>2, <1>3, <1>4, <1>5, <1>6, <1>7 DEF Next

\* A step other than a handler's or a connection tells the news, if there are any.
LEMMA QueueCases ==
    ASSUME TypeOK, Next, ~Handle, ~Connect
    PROVE  /\ cache' = cache /\ niri' \in NiriState
           /\ link' = link \/ CutStream \/ StreamEnded
           /\ \/ /\ queue' = queue
                 /\ link = "on" => /\ niri'.loc = niri.loc /\ niri'.name = niri.name
                                   /\ niri'.focus = niri.focus
              \/ link = "on" /\ \E e \in Event : queue' = Append(queue, e) /\ New(e, niri, niri')
<1>0. niri \in NiriState /\ queue \in Seq(Event)
  BY DEF TypeOK
<1>1. CASE /\ Simple(niri, niri') /\ niri' \in NiriState /\ NiriBecomes(niri')
           /\ UNCHANGED <<link, cache>>
  BY <1>0, <1>1, EmitNew DEF NiriBecomes
<1>2. CASE UNCHANGED <<niri, queue, cache>> /\ (link' = link \/ CutStream \/ StreamEnded)
  BY <1>0, <1>2
<1>3. CASE UNCHANGED niri
  <2>1. CASE Client
    BY <1>2, <2>1 DEF Client, Pin, Overlay, OverlayRefused, Unpin, ResetGeometry, SetFollow,
                      SetFollowMode, SetPolicy, SetEnabled, Request, compositor
  <2>2. CASE DebounceEnds \/ StreamEnded \/ CutStream \/ \E win \in Windows : PendingExpires(win)
    BY <1>2, <2>2 DEF DebounceEnds, StreamEnded, CutStream, PendingExpires, compositor
  <2>3. NiriBecomes(niri') /\ UNCHANGED <<link, cache>> => UNCHANGED <<niri, queue, link, cache>>
    BY <1>3 DEF NiriBecomes, Emit
  <2>4. CASE LoopAct \/ (\E k \in Workers : Work(k))
    <3>1. PICK m \in Move : Execute(m)
      BY <2>4 DEF LoopAct, Work, TypeOK
    <3>2. UNCHANGED <<link, cache>>
      BY <2>4 DEF LoopAct, Work
    <3> QED  BY <1>2, <2>3, <3>1, <3>2, ExecuteMoves
  <2>5. CASE World
    <3>1. \A what, m : Environment(what, m) => NiriBecomes(niri') /\ UNCHANGED <<link, cache>>
      BY DEF Environment, NiriBecomes
    <3> QED  BY <1>2, <2>2, <2>3, <2>5, <3>1
             DEF World, UserOpens, UserCloses, UserMoves, UserFocuses, NiriDrops
  <2> QED  BY <2>1, <2>2, <2>4, <2>5 DEF Next
<1> QED  BY <1>1, <1>3, NiriSteps

\* The only snapshot of the windows comes at once, and nothing is known before it.
StartInv ==
    /\ link \in {"off", "on"}
    /\ link = "off" => queue = <<>> /\ Virgin /\ cache.focus = NoWs
    /\ \A i \in 1..Len(queue) : queue[i].type = "WindowsChanged" =>
         Virgin /\ (i = 1 \/ (i = 2 /\ queue[1].type = "WorkspacesChanged"))
    /\ cache.focus = NoWs =>
         Virgin /\ (link = "on" => queue # <<>> /\ queue[1].type = "WorkspacesChanged")

LEMMA HandlersStart ==
    ASSUME SafeInv, StartInv, Handle
    PROVE  StartInv'
<1>0. TypeOK /\ Next
  BY DEF SafeInv, Next
<1>1. /\ queue # <<>> /\ queue' = Tail(queue) /\ Head(queue) \in Event /\ link' = link
      /\ queue \in Seq(Event)
  BY <1>0, HandlersHear DEF TypeOK
<1>2. PICK n \in Nat : n = Len(queue)
  BY <1>1
<1>3. /\ n >= 1 /\ Len(queue') = n - 1 /\ Head(queue) = queue[1]
      /\ \A i \in 1..n - 1 : queue'[i] = queue[i + 1]
  BY <1>1, <1>2
<1>4. \A i \in 1..Len(queue') : queue'[i].type = "WindowsChanged" =>
         /\ i = 1 /\ queue[1].type = "WorkspacesChanged" /\ Virgin
  BY <1>2, <1>3 DEF StartInv
<1>5. Virgin /\ queue[1].type = "WorkspacesChanged" => Virgin'
  BY <1>0, <1>3, VirginStays
<1>6. cache'.focus # NoWs
  <2>1. PICK f : f = [part |-> "focus", win |-> NoWin]
    OBVIOUS
  <2>2. f \in Facets /\ f.part = "focus"
    BY <2>1 DEF Facets
  <2>3. PICK d : d = cache'
    OBVIOUS
  <2>4. Part(d, f) = IF Tells(queue[1], f) THEN Says(queue[1], f) ELSE Part(cache, f)
    BY <1>0, <1>3, <2>2, <2>3, HandlersHear
  <2>5. Tells(queue[1], f) => Says(queue[1], f) # NoWs
    BY <1>1, <1>3, <2>2, NiriAssumption DEF Tells, Says, Event
  <2>6. Part(cache, f) = NoWs => Tells(queue[1], f)
    <3>1. CASE cache.focus = NoWs
      <4>1. link = "on"
        BY <1>1 DEF StartInv
      <4> QED  BY <2>2, <3>1, <4>1 DEF StartInv, Tells
    <3> QED  BY <2>2, <3>1 DEF Part
  <2> QED  BY <2>2, <2>3, <2>4, <2>5, <2>6 DEF Part
<1>7. link' = "on"
  BY <1>1 DEF StartInv
<1> QED  BY <1>4, <1>5, <1>6, <1>7 DEF StartInv

LEMMA StartStep ==
    ASSUME SafeInv, StartInv, BudgetInv, Limits["cut"] = 0, [Next]_vars
    PROVE  StartInv'
<1>0. TypeOK /\ "cut" \in Happenings
  BY DEF SafeInv, Happenings
<1>1. CASE UNCHANGED vars
  <2>1. UNCHANGED <<link, queue, cache, tracked, loop, work>>
    BY <1>1 DEF vars
  <2>2. Virgin => Virgin'
    BY <2>1 DEF Virgin, Due
  <2> QED  BY <2>1, <2>2 DEF StartInv
<1>2. CASE Handle
  BY <1>2, HandlersStart
<1>3. CASE Connect
  <2>1. PICK e, g : e = WorkspacesEvent(niri) /\ g = WindowsEvent(niri)
    OBVIOUS
  <2>2. e.type = "WorkspacesChanged" /\ g.type = "WindowsChanged"
    BY <2>1 DEF WorkspacesEvent, WindowsEvent
  <2>3. queue' = <<e, g>> /\ link = "off" /\ link' = "on"
    BY <1>3, <2>1 DEF Connect, Bootstrap
  <2>4. Len(queue') = 2 /\ queue'[1] = e /\ queue'[2] = g /\ queue' # <<>>
    BY <2>3
  <2>5. Virgin /\ Virgin'
    BY <1>3, <2>3 DEF StartInv, Connect, Virgin, Due, jobs
  <2> QED  BY <2>2, <2>3, <2>4, <2>5 DEF StartInv
<1>4. CASE Next /\ ~Handle /\ ~Connect
  <2>1. ~CutStream /\ ~StreamEnded
    BY <1>0 DEF CutStream, StreamEnded, Spend, BudgetInv, StartInv
  <2>2. cache' = cache /\ link' = link
    BY <1>0, <1>4, <2>1, QueueCases
  <2>3. Virgin => Virgin'
    BY <1>4, VirginStays
  <2>4. CASE queue' = queue
    BY <2>2, <2>3, <2>4 DEF StartInv
  <2>5. ASSUME link = "on", NEW e \in Event, queue' = Append(queue, e), New(e, niri, niri')
        PROVE  StartInv'
    <3>1. e.type # "WindowsChanged"
      BY <2>5 DEF New
    <3>2. PICK n \in Nat : n = Len(queue)
      BY <1>0 DEF TypeOK
    <3>3. /\ Len(queue') = n + 1 /\ queue'[n + 1] = e /\ \A i \in 1..n : queue'[i] = queue[i]
          /\ queue' # <<>>
      <4>1. queue \in Seq(Event)
        BY <1>0 DEF TypeOK
      <4>2. PICK q : q = queue'
        OBVIOUS
      <4>3. q = Append(queue, e)
        BY <2>5, <4>2
      <4>4. Len(q) = n + 1 /\ q[n + 1] = e /\ \A i \in 1..n : q[i] = queue[i]
        BY <3>2, <4>1, <4>3
      <4>5. q # <<>>
        BY <3>2, <4>4
      <4> QED  BY <4>2, <4>4, <4>5
    <3>4. \A i \in 1..n + 1 : i = n + 1 \/ i \in 1..n
      BY <3>2
    <3>5. \A i \in 1..Len(queue') : queue'[i].type = "WindowsChanged" =>
             Virgin' /\ (i = 1 \/ (i = 2 /\ queue'[1].type = "WorkspacesChanged"))
      <4> SUFFICES ASSUME NEW i \in 1..Len(queue'), queue'[i].type = "WindowsChanged"
                   PROVE  Virgin' /\ (i = 1 \/ (i = 2 /\ queue'[1].type = "WorkspacesChanged"))
        OBVIOUS
      <4>1. i \in 1..n
        BY <3>1, <3>3, <3>4
      <4>2. queue[i].type = "WindowsChanged" /\ 1 \in 1..n
        BY <3>3, <4>1
      <4>3. Virgin /\ (i = 1 \/ (i = 2 /\ queue[1].type = "WorkspacesChanged"))
        BY <3>2, <4>1, <4>2 DEF StartInv
      <4> QED  BY <2>3, <3>3, <4>2, <4>3
    <3>6. cache.focus = NoWs => Virgin' /\ queue'[1].type = "WorkspacesChanged"
      <4> SUFFICES ASSUME cache.focus = NoWs PROVE Virgin' /\ queue'[1].type = "WorkspacesChanged"
        OBVIOUS
      <4>1. Virgin /\ queue # <<>> /\ queue[1].type = "WorkspacesChanged"
        BY <2>5 DEF StartInv
      <4>2. 1 \in 1..n
        BY <1>0, <3>2, <4>1 DEF TypeOK
      <4> QED  BY <2>3, <3>3, <4>1, <4>2
    <3> QED  BY <2>2, <2>5, <3>3, <3>5, <3>6 DEF StartInv
  <2> QED  BY <1>0, <1>4, <2>4, <2>5, QueueCases
<1> QED  BY <1>1, <1>2, <1>3, <1>4

-------------------------------------------------------------------------------
(* Pending moves *)

\* What is not tracked has an empty entry.
BlankInv == \A x \in Windows : tracked[x].mode = "none" => tracked[x] = Untracked

\* A move of x to the focus was planned in this step.
Planned(x) ==
    /\ tracked'[x].mode # "none"
    /\ cache'.focus \in Workspaces /\ tracked'[x].pending = cache'.focus
    /\ cache'.loc[x] # NoWs /\ cache'.loc[x] # cache'.focus
    /\ [win |-> x, ws |-> cache'.focus] \in Due'
AcknowledgedNow(x) ==
    Handle /\ tracked[x].pending \in Workspaces
           /\ Head(queue) = WindowChangedEvent(x, tracked[x].pending)

LEMMA EntryCases ==
    ASSUME SafeInv, BlankInv, [Next]_vars, NEW x \in Windows
    PROVE  \/ tracked'[x] = tracked[x] /\ ~AcknowledgedNow(x)
           \/ tracked'[x] = Untracked
           \/ tracked'[x].mode # "none" /\ tracked'[x].pending = NoWs
           \/ Planned(x)
<1>0. TypeOK /\ tracked \in [Windows -> TrackedWindow] /\ tracked[x] \in TrackedWindow
  BY DEF SafeInv, TypeOK
<1>a. AcknowledgedNow(x) => Handle /\ Head(queue).type = "WindowOpenedOrChanged"
                            /\ Head(queue).win = x /\ Head(queue).ws = tracked[x].pending
  BY DEF AcknowledgedNow, WindowChangedEvent
<1>p. ASSUME NEW c, NEW t, NEW ids, Plan(c, t, ids), c = cache'
      PROVE  tracked'[x] = t[x] \/ Planned(x)
  <2>1. CASE x \in ids /\ Owed(c, t, x)
    <3>1. /\ tracked'[x].mode = t[x].mode /\ t[x].mode # "none" /\ tracked'[x].pending = c.focus
          /\ c.loc[x] # c.focus /\ c.loc[x] # NoWs /\ c.focus \in Workspaces
          /\ [win |-> x, ws |-> c.focus] \in Due'
      BY <1>p, <2>1, PlanNotes
    <3> QED  BY <1>p, <3>1 DEF Planned
  <2>2. CASE ~(x \in ids /\ Owed(c, t, x))
    BY <1>p, <2>2 DEF Plan, FollowNoted
  <2> QED  BY <2>1, <2>2
<1>1. CASE tracked' = tracked /\ ~Handle
  BY <1>1, <1>a
<1>2. CASE Client
  <2>h. ~Handle
    <3>1. queue' = queue
      BY <1>0, <1>2, ClientCases
    <3>2. Handle => queue' = Tail(queue) /\ queue # <<>>
      BY <1>0, HandlersHear
    <3>3. PICK n \in Nat : n = Len(queue)
      BY <1>0 DEF TypeOK
    <3>4. Handle => Len(queue') = n - 1
      BY <1>0, <3>2, <3>3 DEF TypeOK
    <3> QED  BY <3>1, <3>3, <3>4
  <2>1. ASSUME NEW win \in Windows, NEW e \in TrackedWindow, e.mode # "none", e.pending = NoWs,
               Plan(cache', [tracked EXCEPT ![win] = e], {win})
        PROVE  \/ tracked'[x] = tracked[x]
               \/ tracked'[x].mode # "none" /\ tracked'[x].pending = NoWs
               \/ Planned(x)
    <3>1. PICK t, d : t = [tracked EXCEPT ![win] = e] /\ d = cache'
      OBVIOUS
    <3>2. t[x] = IF x = win THEN e ELSE tracked[x]
      BY <1>0, <3>1
    <3>3. Plan(d, t, {win})
      BY <2>1, <3>1
    <3>4. tracked'[x] = t[x] \/ Planned(x)
      BY <1>p, <3>1, <3>3
    <3> QED  BY <2>1, <3>2, <3>4
  <2>2. ASSUME NEW win \in Windows, tracked' = [tracked EXCEPT ![win] = Untracked]
        PROVE  tracked'[x] = tracked[x] \/ tracked'[x] = Untracked
    BY <1>0, <2>2
  <2> QED  BY <1>a, <1>0, <1>2, <2>1, <2>2, <2>h, ClientCases
<1>3. CASE Handle
  <2> DEFINE e == Head(queue)
  <2>0. e \in Event
    BY <1>0, <1>3, HandlersHear
  <2>1. CASE e.type = "WorkspacesChanged" /\ Plan(cache', tracked, Windows)
    <3>1. PICK d : d = cache'
      OBVIOUS
    <3> QED  BY <1>a, <1>p, <2>1, <3>1
  <2>2. CASE e.type # "WindowOpenedOrChanged" /\ tracked' = tracked
    BY <1>a, <2>2
  <2>3. CASE e.type = "WindowClosed" /\ tracked' = [tracked EXCEPT ![e.win] = Untracked]
    <3>1. tracked'[x] = tracked[x] \/ tracked'[x] = Untracked
      BY <1>0, <2>3
    <3> QED  BY <1>a, <2>3, <3>1
  <2>4. ASSUME e.type \in {"WindowsChanged", "WindowOpenedOrChanged"},
               Plan(cache', WithDetected(Present(e), Reported(e)),
                    Detected(Present(e), Reported(e)))
        PROVE  \/ tracked'[x] = tracked[x] /\ ~AcknowledgedNow(x)
               \/ tracked'[x] = Untracked
               \/ tracked'[x].mode # "none" /\ tracked'[x].pending = NoWs
               \/ Planned(x)
    <3>1. PICK d, p, t, ids : /\ d = cache' /\ p = Present(e) /\ t = WithDetected(p, Reported(e))
                              /\ ids = Detected(p, Reported(e))
      OBVIOUS
    <3>2. tracked'[x] = t[x] \/ Planned(x)
      <4>1. Plan(d, t, ids)
        BY <2>4, <3>1
      <4> QED  BY <1>p, <3>1, <4>1
    <3>3. t[x] = p[x] \/ (t[x].mode = "auto" /\ t[x].pending = NoWs)
      <4>1. Entry("auto", controls, NoWs).mode = "auto"
            /\ Entry("auto", controls, NoWs).pending = NoWs
        BY DEF Entry
      <4> QED  BY <3>1, <4>1 DEF WithDetected
    <3>4. CASE e.type = "WindowsChanged"
      <4>1. p[x] = tracked[x] \/ p[x] = Untracked
        BY <3>1, <3>4 DEF Present
      <4> QED  BY <1>a, <3>2, <3>3, <3>4, <4>1
    <3>5. CASE e.type = "WindowOpenedOrChanged"
      <4>0. e.win \in Windows /\ e.ws \in Workspaces
        BY <2>0, <3>5 DEF Event
      <4>1. p = Acknowledged(tracked, e.win, e.ws)
        BY <3>1, <3>5 DEF Present
      <4>2. CASE x = e.win /\ tracked[x].pending = e.ws
        <5>1. p[x] = [tracked[x] EXCEPT !.pending = NoWs]
          BY <1>0, <4>1, <4>2 DEF Acknowledged
        <5>2. p[x].mode = tracked[x].mode /\ p[x].pending = NoWs
          BY <1>0, <5>1 DEF TrackedWindow
        <5>3. tracked[x].mode # "none"
          BY <4>0, <4>2, NiriAssumption DEF BlankInv, Untracked
        <5> QED  BY <3>2, <3>3, <5>2, <5>3
      <4>3. CASE ~(x = e.win /\ tracked[x].pending = e.ws)
        <5>1. p[x] = tracked[x]
          BY <1>0, <4>1, <4>3 DEF Acknowledged
        <5> QED  BY <1>a, <3>2, <3>3, <4>3, <5>1
      <4> QED  BY <4>2, <4>3
    <3> QED  BY <2>4, <3>4, <3>5
  <2> HIDE DEF e
  <2>5. e = Head(queue)
    BY DEF e
  <2> QED  BY <1>3, <2>1, <2>2, <2>3, <2>4, <2>5, HandleCases
<1>4. CASE ~Handle /\ (LoopAct \/ \E k \in Workers : Work(k))
  BY <1>0, <1>1, <1>4, ExecuteDue
<1>5. CASE ~Handle /\ DebounceEnds
  <2>1. PICK d : d = cache'
    OBVIOUS
  <2>2. tracked' = tracked \/ Plan(d, tracked, Windows)
    BY <1>5, <2>1, DebouncePlans
  <2> QED  BY <1>5, <1>a, <1>p, <2>1, <2>2
<1>6. ASSUME ~Handle, NEW win \in Windows, PendingExpires(win)
      PROVE  \/ tracked'[x] = tracked[x]
             \/ tracked'[x].mode # "none" /\ tracked'[x].pending = NoWs
  <2>1. tracked' = [tracked EXCEPT ![win].pending = NoWs] /\ tracked[win].pending # NoWs
    BY <1>6 DEF PendingExpires
  <2>2. tracked[win].mode # "none"
    BY <2>1 DEF BlankInv, Untracked
  <2>3. tracked'[x] = IF x = win THEN [tracked[x] EXCEPT !.pending = NoWs] ELSE tracked[x]
    BY <1>0, <2>1
  <2>4. x = win => tracked'[x].mode = tracked[x].mode /\ tracked'[x].pending = NoWs
    BY <1>0, <2>3 DEF TrackedWindow
  <2> QED  BY <2>2, <2>3, <2>4
<1>7. CASE ~Handle /\ (Connect \/ StreamEnded \/ World)
  <2>1. \A what, m : Environment(what, m) => tracked' = tracked
    BY DEF Environment
  <2> QED  BY <1>1, <1>7, <2>1 DEF Connect, StreamEnded, World, UserOpens, UserCloses,
                 UserFocuses, NiriDrops, UserMoves, CutStream
<1>8. CASE ~Handle /\ UNCHANGED vars
  BY <1>1, <1>8 DEF vars
<1>9. Next => Client \/ Handle \/ LoopAct \/ (\E k \in Workers : Work(k)) \/ DebounceEnds
              \/ (\E win \in Windows : PendingExpires(win)) \/ Connect \/ StreamEnded \/ World
  BY DEF Next
<1> QED  BY <1>2, <1>3, <1>4, <1>5, <1>6, <1>7, <1>8, <1>9, <1>a

LEMMA BlankStep ==
    ASSUME SafeInv, BlankInv, [Next]_vars
    PROVE  BlankInv'
<1> SUFFICES ASSUME NEW x \in Windows, tracked'[x].mode = "none" PROVE tracked'[x] = Untracked
  BY DEF BlankInv
<1> QED  BY EntryCases DEF BlankInv, Planned

LEMMA EventComing ==
    ASSUME NEW q \in Seq(Event), NEW c, NEW x \in Windows, NEW v \in Workspaces, NEW f,
           f.part = "loc", f.win = x, Heard(q, c, f, v), c.loc[x] # v,
           \A i \in 1..Len(q) : q[i].type # "WindowsChanged"
    PROVE  WindowChangedEvent(x, v) \in Events(q)
<1>1. PICK i \in 1..Len(q) : Tells(q[i], f) /\ Says(q[i], f) = v
  BY DEF Heard, Part
<1>2. PICK e \in Event : e = q[i]
  OBVIOUS
<1>3. e.type = "WindowOpenedOrChanged" /\ e.win = x /\ e.ws = v
  BY <1>1, <1>2, NiriAssumption DEF Tells, Says
<1>4. e \in [type : {"WindowOpenedOrChanged"}, win : Windows, ws : Workspaces]
  BY <1>2, <1>3 DEF Event
<1>5. e = WindowChangedEvent(x, v)
  BY <1>3, <1>4 DEF WindowChangedEvent
<1> QED  BY <1>2, <1>5 DEF Events

\* The facet of the place of window x.
Loc(x) == [part |-> "loc", win |-> x]

LEMMA LocPart ==
    ASSUME NEW x \in Windows
    PROVE  /\ Loc(x) \in Facets /\ Loc(x).part = "loc" /\ Loc(x).win = x
           /\ \A c : Part(c, Loc(x)) = c.loc[x]
  BY DEF Loc, Facets, Part

\* What a step may do to the world: a window opens once, and no workspace appears.
LEMMA WorldSteps ==
    ASSUME TypeOK, [Next]_vars
    PROVE  /\ opened \subseteq opened'
           /\ \A x \in Windows :
                Open(niri', x) => Open(niri, x) \/ (x \notin opened /\ x \in opened')
           /\ \A ws \in Workspaces : Exists(niri', ws) => Exists(niri, ws)
<1>0. niri \in NiriState
  BY DEF TypeOK
<1>1. CASE UNCHANGED <<niri, opened>>
  BY <1>1 DEF Open, Exists
<1>2. CASE Client
  <2>1. UNCHANGED <<niri, opened>>
    BY <1>2 DEF Client, Pin, Overlay, OverlayRefused, Unpin, ResetGeometry, SetFollow,
                SetFollowMode, SetPolicy, SetEnabled, Request, compositor
  <2> QED  BY <1>1, <2>1
<1>3. CASE Handle
  BY <1>1, <1>3, HandlersHear
<1>4. CASE LoopAct \/ \E k \in Workers : Work(k)
  <2>1. opened' = opened /\ \E m \in Move : Execute(m)
    BY <1>4, ExecuteDue
  <2>2. PICK m \in Move : Execute(m)
    BY <2>1
  <2>3. CASE niri' = niri
    BY <1>1, <2>1, <2>3
  <2>4. CASE niri' = MoveTo(niri, m.win, {ws \in {m.ws} : Exists(niri, ws)})
    BY <1>0, <2>1, <2>4 DEF MoveTo, Open, Exists, NiriState
  <2> QED  BY <2>2, <2>3, <2>4, ExecuteMoves
<1>5. CASE World
  <2>1. ASSUME NEW what, NEW m, Environment(what, m)
        PROVE  niri' = m /\ opened' = opened \cup {win \in Windows : Open(m, win)}
    BY <2>1 DEF Environment, NiriBecomes
  <2>2. CASE \E ws \in Workspaces : UserFocuses(ws) \/ NiriDrops(ws)
    BY <1>0, <2>1, <2>2 DEF UserFocuses, NiriDrops, FocusOn, Open, Exists, NiriState
  <2>3. CASE \E win \in Windows, ws \in Workspaces : UserMoves(win, ws)
    BY <1>0, <2>1, <2>3 DEF UserMoves, MoveTo, Open, Exists, NiriState
  <2>4. CASE \E win \in Windows : UserOpens(win) \/ UserCloses(win)
    BY <1>0, <2>1, <2>4 DEF UserOpens, UserCloses, Open, Exists, NiriState
  <2>5. CASE CutStream
    BY <1>1, <2>5 DEF CutStream, compositor
  <2> QED  BY <1>5, <2>2, <2>3, <2>4, <2>5 DEF World
<1>6. CASE DebounceEnds \/ Connect \/ StreamEnded \/ \E win \in Windows : PendingExpires(win)
  BY <1>1, <1>6 DEF DebounceEnds, Connect, StreamEnded, PendingExpires, compositor
<1>7. CASE UNCHANGED vars
  BY <1>1, <1>7 DEF vars
<1> QED  BY <1>2, <1>3, <1>4, <1>5, <1>6, <1>7 DEF Next

\* Of a window that was never opened nothing is known and nothing will be heard.
OpenedInv ==
    \A x \in Windows \ opened :
        /\ niri.loc[x] = NoWs /\ cache.loc[x] = NoWs
        /\ \A e \in Events(queue) : Tells(e, Loc(x)) => Says(e, Loc(x)) = NoWs

LEMMA OpenedStep ==
    ASSUME TypeOK, OpenedInv, [Next]_vars
    PROVE  OpenedInv'
<1> SUFFICES ASSUME NEW x \in Windows \ opened'
             PROVE  /\ niri'.loc[x] = NoWs /\ cache'.loc[x] = NoWs
                    /\ \A e \in Events(queue') : Tells(e, Loc(x)) => Says(e, Loc(x)) = NoWs
  BY DEF OpenedInv
<1>1. x \in Windows \ opened /\ queue \in Seq(Event)
  BY WorldSteps DEF TypeOK
<1>2. /\ niri.loc[x] = NoWs /\ cache.loc[x] = NoWs
      /\ \A e \in Events(queue) : Tells(e, Loc(x)) => Says(e, Loc(x)) = NoWs
  BY <1>1 DEF OpenedInv
<1>3. niri'.loc[x] = NoWs
  BY <1>2, WorldSteps DEF Open
<1>4. CASE UNCHANGED <<queue, cache>>
  BY <1>2, <1>3, <1>4
<1>5. CASE Handle
  <2>1. /\ queue # <<>> /\ queue' = Tail(queue)
        /\ \A f \in Facets : Part(cache', f) = IF Tells(Head(queue), f) THEN Says(Head(queue), f)
                                               ELSE Part(cache, f)
    BY <1>5, HandlersHear
  <2>2. Head(queue) \in Events(queue) /\ Events(queue') \subseteq Events(queue)
    BY <1>1, <2>1, EventsTail
  <2>3. PICK d : d = cache'
    OBVIOUS
  <2>4. Part(d, Loc(x)) = NoWs
    BY <1>2, <2>1, <2>2, <2>3, LocPart
  <2>5. d.loc[x] = NoWs
    BY <2>4, LocPart
  <2> QED  BY <1>2, <1>3, <2>2, <2>3, <2>5
<1>6. CASE Connect
  <2>1. PICK e, g : e = WorkspacesEvent(niri) /\ g = WindowsEvent(niri)
    OBVIOUS
  <2>2. e.type = "WorkspacesChanged" /\ g.type = "WindowsChanged" /\ g.loc = niri.loc
    BY <2>1 DEF WorkspacesEvent, WindowsEvent
  <2>3. queue' = <<e, g>> /\ cache' = cache
    BY <1>6, <2>1 DEF Connect, Bootstrap
  <2>4. Len(queue') = 2 /\ queue'[1] = e /\ queue'[2] = g
    BY <2>3
  <2>5. Events(queue') \subseteq {e, g}
    BY <2>4 DEF Events
  <2>6. ~Tells(e, Loc(x)) /\ Says(g, Loc(x)) = NoWs
    BY <1>2, <2>2, LocPart DEF Tells, Says
  <2> QED  BY <1>2, <1>3, <2>3, <2>5, <2>6
<1>7. CASE Next /\ ~Handle /\ ~Connect
  <2>1. cache' = cache
    BY <1>7, QueueCases
  <2>2. ASSUME NEW e \in Event, queue' = Append(queue, e), New(e, niri, niri')
        PROVE  \A g \in Events(queue') : Tells(g, Loc(x)) => Says(g, Loc(x)) = NoWs
    <3>1. Tells(e, Loc(x)) => Says(e, Loc(x)) = NoWs
      BY <1>3, <2>2, NiriAssumption, LocPart DEF New, Tells, Says
    <3> QED  BY <1>1, <1>2, <2>2, <3>1, EventsAppend
  <2> QED  BY <1>2, <1>3, <1>4, <1>7, <2>1, <2>2, QueueCases
<1>8. CASE UNCHANGED vars
  BY <1>4, <1>8 DEF vars
<1> QED  BY <1>5, <1>6, <1>7, <1>8

PendInv ==
    \A x \in Windows : LET p == tracked[x].pending IN
        /\ Open(niri, x) /\ p \in Workspaces /\ Exists(niri, p) =>
             \/ [win |-> x, ws |-> p] \in Due
             \/ WindowChangedEvent(x, p) \in Events(queue)
        /\ p \in Workspaces /\ niri.loc[x] = p => WindowChangedEvent(x, p) \in Events(queue)

\* An event leaves the queue only when it is handled.
LEMMA EventStays ==
    ASSUME TypeOK, StartInv, link = "on", [Next]_vars, NEW e \in Events(queue),
           ~(Handle /\ Head(queue) = e)
    PROVE  e \in Events(queue')
<1>0. queue \in Seq(Event)
  BY DEF TypeOK
<1>1. CASE Handle
  BY <1>0, <1>1, HandlersHear, EventsTail
<1>2. CASE queue' = queue
  BY <1>2
<1>3. CASE Next /\ ~Handle
  <2>1. ~Connect
    BY DEF Connect
  <2> QED  BY <1>0, <1>2, <1>3, <2>1, QueueCases, EventsAppend
<1> QED  BY <1>1, <1>2, <1>3 DEF vars

\* A move is due until it is made.
LEMMA DueStays ==
    ASSUME SafeInv, BudgetInv, Limits["fault"] = 0, [Next]_vars, NEW m \in Due
    PROVE  \/ m \in Due'
           \/ niri' = MoveTo(niri, m.win, {ws \in {m.ws} : Exists(niri, ws)})
<1>0. TypeOK
  BY DEF SafeInv
<1>1. CASE UNCHANGED <<loop, work>>
  BY <1>1 DEF Due
<1>2. CASE Client
  <2>1. \A t, ids : Plan(cache', t, ids) => Due \subseteq Due'
    BY DEF Plan
  <2>2. loop' = loop
    BY <1>2, ClientCases
  <2> QED  BY <1>1, <1>2, <2>1, <2>2, ClientCases
<1>3. CASE Handle
  BY <1>3, HandleCases
<1>4. CASE LoopAct \/ \E k \in Workers : Work(k)
  <2>1. PICK n \in Due : n \in Move /\ Execute(n) /\ Due \ {n} \subseteq Due'
    BY <1>0, <1>4, ExecuteDue
  <2> QED  BY <1>0, <2>1, MoveMade
<1>5. CASE DebounceEnds
  <2>1. Plan(cache', tracked, Windows) => Due \subseteq Due'
    BY DEF Plan
  <2> QED  BY <1>1, <1>5, <2>1, DebouncePlans
<1>6. CASE Connect \/ StreamEnded \/ World \/ \E win \in Windows : PendingExpires(win)
  <2>1. \A what, n : Environment(what, n) => UNCHANGED <<loop, work>>
    BY DEF Environment, jobs
  <2> QED  BY <1>1, <1>6, <2>1 DEF Connect, StreamEnded, PendingExpires, World, UserOpens,
                 UserCloses, UserFocuses, NiriDrops, UserMoves, CutStream, jobs
<1>7. CASE UNCHANGED vars
  BY <1>1, <1>7 DEF vars
<1> QED  BY <1>2, <1>3, <1>4, <1>5, <1>6, <1>7 DEF Next

FollowInv == SafeInv /\ BudgetInv /\ StartInv /\ BlankInv /\ OpenedInv /\ CurrentInv

LEMMA PendStep ==
    ASSUME FollowInv, FollowInv', PendInv, Limits["fault"] = 0, [Next]_vars
    PROVE  PendInv'
<1> SUFFICES ASSUME NEW x \in Windows, NEW p, p = tracked'[x].pending, p \in Workspaces
             PROVE  /\ Open(niri', x) /\ Exists(niri', p) =>
                         \/ [win |-> x, ws |-> p] \in Due'
                         \/ WindowChangedEvent(x, p) \in Events(queue')
                    /\ niri'.loc[x] = p => WindowChangedEvent(x, p) \in Events(queue')
  BY DEF PendInv
<1>0. /\ TypeOK /\ SafeInv /\ BudgetInv /\ StartInv /\ BlankInv /\ OpenedInv /\ p # NoWs
      /\ Untracked.mode = "none" /\ Untracked.pending = NoWs
  BY NiriAssumption DEF FollowInv, SafeInv, Untracked
<1>1. CASE tracked'[x] = tracked[x] /\ ~AcknowledgedNow(x)
  <2>0. p = tracked[x].pending
    BY <1>1
  <2>1. tracked[x].mode # "none" /\ cache.loc[x] # NoWs
    BY <1>0, <2>0 DEF BlankInv, SafeInv, MapSafe
  <2>2. x \in opened /\ link = "on"
    BY <1>0, <2>1 DEF OpenedInv, StartInv, Virgin
  <2>3. Open(niri', x) => Open(niri, x)
    BY <1>0, <2>2, WorldSteps
  <2>4. Exists(niri', p) => Exists(niri, p)
    BY <1>0, WorldSteps
  <2>5. WindowChangedEvent(x, p) \in Events(queue) => WindowChangedEvent(x, p) \in Events(queue')
    BY <1>0, <1>1, <2>0, <2>2, EventStays DEF AcknowledgedNow
  <2>6. niri'.loc[x] = p => WindowChangedEvent(x, p) \in Events(queue')
    <3>1. CASE niri.loc[x] = p
      BY <2>0, <2>5, <3>1 DEF PendInv
    <3>2. CASE niri.loc[x] # p /\ niri'.loc[x] = p
      <4>1. ~Handle /\ ~Connect /\ Next
        BY <1>0, <2>2, <3>2, HandlersHear DEF Connect, vars
      <4>2. PICK e \in Event : queue' = Append(queue, e) /\ New(e, niri, niri')
        BY <1>0, <2>2, <3>2, <4>1, QueueCases
      <4>3. e = WindowChangedEvent(x, p)
        BY <1>0, <3>2, <4>2 DEF New
      <4> QED  BY <1>0, <4>2, <4>3, EventsAppend DEF TypeOK
    <3> QED  BY <3>1, <3>2
  <2>7. ASSUME Open(niri', x), Exists(niri', p)
        PROVE  \/ [win |-> x, ws |-> p] \in Due'
               \/ WindowChangedEvent(x, p) \in Events(queue')
    <3>1. PICK m : m = [win |-> x, ws |-> p]
      OBVIOUS
    <3>2. m.win = x /\ m.ws = p
      BY <3>1
    <3>3. Open(niri, x) /\ Exists(niri, p)
      BY <2>3, <2>4, <2>7
    <3>4. m \in Due \/ WindowChangedEvent(x, p) \in Events(queue)
      BY <2>0, <3>1, <3>3 DEF PendInv
    <3>5. CASE m \in Due
      <4>1. CASE niri' = MoveTo(niri, m.win, {ws \in {m.ws} : Exists(niri, ws)})
        <5>1. {ws \in {m.ws} : Exists(niri, ws)} = {p}
          BY <3>2, <3>3
        <5>2. niri' = [niri EXCEPT !.loc[x] = p]
          BY <3>2, <3>3, <4>1, <5>1 DEF MoveTo
        <5>3. niri'.loc[x] = p
          BY <1>0, <5>2 DEF TypeOK, NiriState
        <5> QED  BY <2>6, <5>3
      <4> QED  BY <1>0, <3>1, <3>5, <4>1, DueStays
    <3> QED  BY <2>5, <3>4, <3>5
  <2> QED  BY <2>6, <2>7
<1>2. CASE Planned(x)
  <2>1. PICK d, q, n : d = cache' /\ q = queue' /\ n = niri'
    OBVIOUS
  <2>2. d.focus = p /\ d.loc[x] # NoWs /\ d.loc[x] # p /\ [win |-> x, ws |-> p] \in Due'
    BY <1>2, <2>1 DEF Planned
  <2>3. ~Virgin'
    BY <2>1, <2>2 DEF Virgin
  <2>4. link' = "on" /\ q \in Seq(Event)
        /\ \A i \in 1..Len(q) : q[i].type # "WindowsChanged"
    BY <2>1, <2>3 DEF FollowInv, StartInv, SafeInv, TypeOK
  <2>5. Heard(q, d, Loc(x), Part(n, Loc(x)))
    BY <2>1, <2>4, LocPart DEF FollowInv, CurrentInv
  <2>6. Part(n, Loc(x)) = n.loc[x] /\ Loc(x).part = "loc" /\ Loc(x).win = x
    BY LocPart
  <2>7. n.loc[x] = p => WindowChangedEvent(x, p) \in Events(q)
    BY <2>2, <2>4, <2>5, <2>6, EventComing
  <2> QED  BY <2>1, <2>2, <2>7
<1>3. CASE p = NoWs
  BY <1>0, <1>3
<1> QED  BY <1>0, <1>1, <1>2, <1>3, EntryCases

LEMMA FollowInit == Init => FollowInv /\ PendInv
<1> SUFFICES ASSUME Init PROVE FollowInv /\ PendInv
  OBVIOUS
<1>1. SafeInv
  BY InitSafe
<1>2. \A x \in Windows : tracked[x] = Untracked /\ cache.loc[x] = NoWs
  BY DEF Init
<1>3. queue = <<>> /\ loop = {} /\ link = "off" /\ cache.focus = NoWs /\ budget = Limits
      /\ \A k \in Workers : work[k] = {}
  BY DEF Init
<1>4. Virgin
  BY <1>2, <1>3 DEF Virgin, Due
<1>5. Events(queue) = {}
  BY <1>3, EventsNone
<1>6. BudgetInv /\ BlankInv /\ CurrentInv
  BY <1>2, <1>3 DEF BudgetInv, BlankInv, CurrentInv
<1>7. StartInv
  BY <1>3, <1>4 DEF StartInv
<1>8. OpenedInv
  BY <1>2, <1>5 DEF Init, OpenedInv, Open
<1>9. PendInv
  <2>1. \A x \in Windows : tracked[x].pending = NoWs
    <3>1. Untracked.pending = NoWs
      BY DEF Untracked
    <3> QED  BY <1>2, <3>1
  <2>2. NoWs \notin Workspaces
    BY NiriAssumption
  <2> QED  BY <2>1, <2>2 DEF PendInv
<1> QED  BY <1>1, <1>6, <1>7, <1>8, <1>9 DEF FollowInv

LEMMA FollowStep ==
    ASSUME FollowInv, Limits["cut"] = 0, [Next]_vars
    PROVE  FollowInv'
<1>1. SafeInv'
  BY StepSafe DEF FollowInv
<1>2. BudgetInv' /\ OpenedInv' /\ CurrentInv'
  BY BudgetStep, OpenedStep, CurrentStep DEF FollowInv, SafeInv
<1>3. StartInv' /\ BlankInv'
  BY StartStep, BlankStep DEF FollowInv
<1> QED  BY <1>1, <1>2, <1>3 DEF FollowInv

\* A move counts as pending only while Niri has it, or its event is on the way: no
\* task forgets a move that it has noted, and no event of one is lost.
THEOREM PendingStaysUnderWay ==
    ASSUME Limits["fault"] = 0, Limits["cut"] = 0
    PROVE  Spec => []PendingIsUnderWay
<1>1. Init => FollowInv /\ PendInv
  BY FollowInit
<1>2. FollowInv /\ PendInv /\ [Next]_vars => FollowInv' /\ PendInv'
  BY FollowStep, PendStep
<1>3. PendInv => PendingIsUnderWay
  <2> SUFFICES ASSUME PendInv, NEW x \in Windows, NEW ws \in Workspaces, ws = tracked[x].pending,
                      Open(niri, x), Exists(niri, ws)
               PROVE  UnderWay(x, ws)
    BY DEF PendingIsUnderWay
  <2>1. \/ [win |-> x, ws |-> ws] \in Due
        \/ WindowChangedEvent(x, ws) \in Events(queue)
    BY DEF PendInv
  <2>2. WindowChangedEvent(x, ws) \in Events(queue) =>
            \E i \in DOMAIN queue : queue[i] = WindowChangedEvent(x, ws)
    BY DEF Events
  <2> QED  BY <2>1, <2>2 DEF UnderWay, Due
<1> QED  BY <1>1, <1>2, <1>3, PTL DEF Spec

-------------------------------------------------------------------------------
(* Who tracks, who forgets, who plans *)

Kept(x) == /\ tracked'[x].mode = tracked[x].mode /\ tracked'[x].follow = tracked[x].follow
           /\ tracked'[x].stay = tracked[x].stay /\ tracked'[x].origin = tracked[x].origin
\* If x may follow, its move to the focus is due.
Prompt(x) ==
    /\ tracked'[x].follow /\ cache'.focus \in Workspaces
    /\ cache'.loc[x] # NoWs /\ cache'.loc[x] # cache'.focus
    /\ tracked'[x].stay => /\ cache'.loc[x] \in Workspaces /\ cache'.name[cache'.loc[x]] # Gone
                           /\ Output[cache'.loc[x]] = Output[cache'.focus]
    => [win |-> x, ws |-> cache'.focus] \in Due'
Entered(x) ==
    /\ Client /\ tracked'[x].mode # "none" /\ Prompt(x)
    /\ IF tracked[x].mode = "none"
       THEN tracked'[x].mode # "auto" /\ tracked'[x].origin = cache.loc[x]
       ELSE /\ tracked'[x].origin = tracked[x].origin
            /\ tracked'[x].mode = "auto" => tracked[x].mode = "auto"
Released(x) ==
    /\ Client /\ tracked[x].mode # "none"
    /\ tracked' = [tracked EXCEPT ![x] = Untracked]
    /\ Dispatch(ReturnMoves(x)) /\ Due' = Due \cup ReturnMoves(x)
Buried(x) == Handle /\ Tells(Head(queue), Loc(x)) /\ Says(Head(queue), Loc(x)) = NoWs
            /\ tracked'[x] = Untracked
Found(x) ==
    /\ Handle /\ x \in Pips /\ tracked'[x].mode = "auto" /\ tracked'[x].origin = NoWs
    /\ tracked[x].mode = "none" /\ Prompt(x)
    /\ Tells(Head(queue), Loc(x)) /\ Says(Head(queue), Loc(x)) # NoWs

LEMMA PlanPrompt ==
    ASSUME NEW c, NEW t, NEW ids, Plan(c, t, ids), c = cache', NEW x \in ids,
           t[x].pending = NoWs, t[x].mode # "none"
    PROVE  Prompt(x)
<1> SUFFICES ASSUME tracked'[x].follow, c.focus \in Workspaces,
                    c.loc[x] # NoWs, c.loc[x] # c.focus,
                    tracked'[x].stay => /\ c.loc[x] \in Workspaces /\ c.name[c.loc[x]] # Gone
                                        /\ Output[c.loc[x]] = Output[c.focus]
             PROVE  [win |-> x, ws |-> c.focus] \in Due'
  BY DEF Prompt
<1>1. x \in Windows /\ t[x] \in TrackedWindow
  BY DEF Plan
<1>2. tracked'[x] = t[x] \/ tracked'[x] = [t[x] EXCEPT !.pending = c.focus]
  BY <1>1 DEF Plan, FollowNoted
<1>3. t[x].follow = tracked'[x].follow /\ t[x].stay = tracked'[x].stay
  BY <1>1, <1>2 DEF TrackedWindow
<1>4. t[x].pending # c.focus
  BY NiriAssumption
<1>5. Owed(c, t, x)
  BY <1>3, <1>4 DEF Owed, Allowed
<1> QED  BY <1>1, <1>5 DEF Plan, FollowMoves

LEMMA AttributeCases ==
    ASSUME SafeInv, [Next]_vars, NEW x \in Windows
    PROVE  Kept(x) \/ Entered(x) \/ Released(x) \/ Buried(x) \/ Found(x)
<1>0. TypeOK /\ tracked \in [Windows -> TrackedWindow] /\ tracked[x] \in TrackedWindow
  BY DEF SafeInv, TypeOK
<1>u. Untracked.mode = "none" /\ Untracked.pending = NoWs
  BY DEF Untracked
<1>p. ASSUME NEW c, NEW t, NEW ids, Plan(c, t, ids)
      PROVE  /\ tracked'[x].mode = t[x].mode /\ tracked'[x].follow = t[x].follow
             /\ tracked'[x].stay = t[x].stay /\ tracked'[x].origin = t[x].origin
  <2>1. tracked'[x] = t[x] \/ tracked'[x] = [t[x] EXCEPT !.pending = c.focus]
    BY <1>p DEF Plan, FollowNoted
  <2>2. t[x] \in TrackedWindow
    BY <1>p DEF Plan
  <2> QED  BY <2>1, <2>2 DEF TrackedWindow
<1>1. CASE tracked'[x] = tracked[x]
  BY <1>1 DEF Kept
<1>2. CASE Client
  <2>1. ASSUME NEW win \in Windows, NEW e \in TrackedWindow,
               e.mode # "none", e.pending = NoWs,
               IF tracked[win].mode = "none"
               THEN e.mode # "auto" /\ e.origin = cache.loc[win]
               ELSE /\ e.origin = tracked[win].origin
                    /\ e.mode = "auto" => tracked[win].mode = "auto",
               Plan(cache', [tracked EXCEPT ![win] = e], {win})
        PROVE  Kept(x) \/ Entered(x)
    <3>1. PICK t, d : t = [tracked EXCEPT ![win] = e] /\ d = cache'
      OBVIOUS
    <3>2. t[x] = IF x = win THEN e ELSE tracked[x]
      BY <1>0, <3>1
    <3>3. Plan(d, t, {win})
      BY <2>1, <3>1
    <3>4. /\ tracked'[x].mode = t[x].mode /\ tracked'[x].follow = t[x].follow
          /\ tracked'[x].stay = t[x].stay /\ tracked'[x].origin = t[x].origin
      BY <1>p, <3>3
    <3>5. CASE x = win
      <4>1. t[x].pending = NoWs /\ t[x].mode # "none"
        BY <2>1, <3>2, <3>5
      <4>2. Prompt(x)
        BY <3>1, <3>3, <3>5, <4>1, PlanPrompt
      <4> QED  BY <1>2, <2>1, <3>2, <3>4, <3>5, <4>2 DEF Entered
    <3>6. CASE x # win
      BY <3>2, <3>4, <3>6 DEF Kept
    <3> QED  BY <3>5, <3>6
  <2>2. ASSUME NEW win \in Windows, tracked[win].mode # "none",
               tracked' = [tracked EXCEPT ![win] = Untracked],
               Dispatch(ReturnMoves(win)), Due' = Due \cup ReturnMoves(win)
        PROVE  Kept(x) \/ Released(x)
    <3>1. CASE x = win
      BY <1>2, <2>2, <3>1 DEF Released
    <3>2. CASE x # win
      <4>1. tracked'[x] = tracked[x]
        BY <1>0, <2>2, <3>2
      <4> QED  BY <4>1 DEF Kept
    <3> QED  BY <3>1, <3>2
  <2> QED  BY <1>1, <1>2, <2>1, <2>2, ClientCases
<1>3. CASE Handle
  <2>0. PICK e \in Event : e = Head(queue)
    BY <1>0, <1>3, HandlersHear
  <2>l. Loc(x).part = "loc" /\ Loc(x).win = x
    BY LocPart
  <2>1. CASE Plan(cache', tracked, Windows)
    <3>1. PICK d : d = cache'
      OBVIOUS
    <3> QED  BY <1>p, <2>1, <3>1 DEF Kept
  <2>2. CASE e.type = "WindowClosed" /\ tracked' = [tracked EXCEPT ![e.win] = Untracked]
    <3>1. CASE x = e.win
      <4>1. tracked'[x] = Untracked
        BY <1>0, <2>2, <3>1
      <4>2. Tells(e, Loc(x)) /\ Says(e, Loc(x)) = NoWs
        BY <2>2, <2>l, <3>1 DEF Tells, Says
      <4> QED  BY <1>3, <2>0, <4>1, <4>2 DEF Buried
    <3>2. CASE x # e.win
      BY <1>0, <1>1, <2>2, <3>2
    <3> QED  BY <3>1, <3>2
  <2>3. ASSUME e.type \in {"WindowsChanged", "WindowOpenedOrChanged"},
               Plan(cache', WithDetected(Present(e), Reported(e)),
                    Detected(Present(e), Reported(e)))
        PROVE  Kept(x) \/ Buried(x) \/ Found(x)
    <3>1. PICK d, p, t, ids : /\ d = cache' /\ p = Present(e) /\ t = WithDetected(p, Reported(e))
                              /\ ids = Detected(p, Reported(e))
      OBVIOUS
    <3>2. /\ tracked'[x].mode = t[x].mode /\ tracked'[x].follow = t[x].follow
          /\ tracked'[x].stay = t[x].stay /\ tracked'[x].origin = t[x].origin
      <4>1. Plan(d, t, ids)
        BY <2>3, <3>1
      <4> QED  BY <1>p, <4>1
    <3>3. \/ x \notin ids /\ t[x] = p[x]
          \/ x \in ids /\ t[x] = Entry("auto", controls, NoWs)
      BY <3>1 DEF WithDetected
    <3>4. Entry("auto", controls, NoWs).mode = "auto" /\ Entry("auto", controls, NoWs).origin = NoWs
      BY DEF Entry
    <3>5. x \in ids => x \in Pips /\ p[x].mode = "none" /\ x \in Reported(e)
      BY <3>1 DEF Detected
    <3>6. x \in Reported(e) => Tells(e, Loc(x)) /\ Says(e, Loc(x)) # NoWs
      BY <2>3, <2>l, NiriAssumption DEF Reported, Tells, Says, Event
    <3>7. CASE x \in ids
      <4>1. x \in Pips /\ tracked'[x].mode = "auto" /\ tracked'[x].origin = NoWs
        BY <3>2, <3>3, <3>4, <3>5, <3>7
      <4>2. p[x].mode = tracked[x].mode
        <5>1. CASE e.type = "WindowsChanged"
          <6>1. e.loc[x] # NoWs
            BY <3>5, <3>7, <5>1 DEF Reported
          <6>2. p[x] = tracked[x]
            BY <3>1, <5>1, <6>1 DEF Present
          <6> QED  BY <6>2
        <5>2. CASE e.type = "WindowOpenedOrChanged"
          <6>1. p = Acknowledged(tracked, e.win, e.ws)
            BY <3>1, <5>2 DEF Present
          <6>2. p[x] = tracked[x] \/ p[x] = [tracked[x] EXCEPT !.pending = NoWs]
            BY <1>0, <6>1 DEF Acknowledged
          <6>3. [tracked[x] EXCEPT !.pending = NoWs].mode = tracked[x].mode
            BY <1>0 DEF TrackedWindow
          <6> QED  BY <6>2, <6>3
        <5> QED  BY <2>3, <5>1, <5>2
      <4>3. Prompt(x)
        <5>1. t[x].pending = NoWs /\ t[x].mode # "none"
          <6>1. Entry("auto", controls, NoWs).pending = NoWs
            BY DEF Entry
          <6> QED  BY <3>3, <3>4, <3>7, <6>1
        <5>2. Plan(d, t, ids)
          BY <2>3, <3>1
        <5> QED  BY <3>1, <3>7, <5>1, <5>2, PlanPrompt
      <4> QED  BY <1>3, <2>0, <3>5, <3>6, <3>7, <4>1, <4>2, <4>3 DEF Found
    <3>8. CASE x \notin ids
      <4>0. tracked'[x].mode = p[x].mode /\ tracked'[x].follow = p[x].follow
            /\ tracked'[x].stay = p[x].stay /\ tracked'[x].origin = p[x].origin
        BY <3>2, <3>3, <3>8
      <4>1. CASE p[x] = tracked[x]
        BY <4>0, <4>1 DEF Kept
      <4>2. CASE p[x] = [tracked[x] EXCEPT !.pending = NoWs]
        <5>1. /\ p[x].mode = tracked[x].mode /\ p[x].follow = tracked[x].follow
              /\ p[x].stay = tracked[x].stay /\ p[x].origin = tracked[x].origin
          BY <1>0, <4>2 DEF TrackedWindow
        <5> QED  BY <4>0, <5>1 DEF Kept
      <4>3. CASE e.type = "WindowsChanged" /\ e.loc[x] = NoWs
        <5>1. p[x] = Untracked
          BY <3>1, <4>3 DEF Present
        <5>2. Tells(e, Loc(x)) /\ Says(e, Loc(x)) = NoWs
          BY <2>l, <4>3 DEF Tells, Says
        <5>3. tracked'[x] = Untracked
          <6>1. tracked'[x] = t[x]
            BY <2>3, <3>1, <3>8 DEF Plan, FollowNoted
          <6> QED  BY <3>3, <3>8, <5>1, <6>1
        <5> QED  BY <1>3, <2>0, <5>2, <5>3 DEF Buried
      <4>4. e.type = "WindowOpenedOrChanged" =>
               p[x] = tracked[x] \/ p[x] = [tracked[x] EXCEPT !.pending = NoWs]
        BY <1>0, <3>1 DEF Present, Acknowledged
      <4>5. e.type = "WindowsChanged" /\ e.loc[x] # NoWs => p[x] = tracked[x]
        BY <3>1 DEF Present
      <4> QED  BY <2>3, <4>1, <4>2, <4>3, <4>4, <4>5
    <3> QED  BY <3>7, <3>8
  <2>4. CASE tracked' = tracked
    BY <1>1, <2>4
  <2> QED  BY <1>3, <2>0, <2>1, <2>2, <2>3, <2>4, HandleCases
<1>4. CASE LoopAct \/ \E k \in Workers : Work(k)
  BY <1>0, <1>1, <1>4, ExecuteDue
<1>5. CASE DebounceEnds
  <2>1. PICK d : d = cache'
    OBVIOUS
  <2>2. tracked' = tracked \/ Plan(d, tracked, Windows)
    BY <1>5, <2>1, DebouncePlans
  <2> QED  BY <1>1, <1>p, <2>2 DEF Kept
<1>6. ASSUME NEW win \in Windows, PendingExpires(win)
      PROVE  Kept(x)
  <2>1. tracked'[x] = IF x = win THEN [tracked[x] EXCEPT !.pending = NoWs] ELSE tracked[x]
    BY <1>0, <1>6 DEF PendingExpires
  <2> QED  BY <1>0, <2>1 DEF TrackedWindow, Kept
<1>7. CASE Connect \/ StreamEnded \/ World
  <2>1. \A what, m : Environment(what, m) => tracked' = tracked
    BY DEF Environment
  <2> QED  BY <1>1, <1>7, <2>1 DEF Connect, StreamEnded, World, UserOpens, UserCloses,
                 UserFocuses, NiriDrops, UserMoves, CutStream
<1>8. CASE UNCHANGED vars
  BY <1>1, <1>8 DEF vars
<1> QED  BY <1>2, <1>3, <1>4, <1>5, <1>6, <1>7, <1>8 DEF Next

\* Move m was planned in this step, for a follower or for a window that was released.
Followed(m) ==
    /\ tracked'[m.win].mode # "none" /\ tracked'[m.win].follow /\ m.ws = cache'.focus
    /\ cache'.loc[m.win] # NoWs /\ cache'.loc[m.win] # m.ws
    /\ tracked'[m.win].stay =>
         cache'.loc[m.win] \in Workspaces /\ Output[cache'.loc[m.win]] = Output[m.ws]

LEMMA PlanFollows ==
    ASSUME NEW c, NEW t, NEW ids, Plan(c, t, ids), c = cache', NEW m \in Due', m \notin Due
    PROVE  Followed(m)
<1>1. m \in FollowMoves(c, t, ids)
  BY DEF Plan
<1>2. m.win \in Windows /\ m.ws = c.focus /\ Owed(c, t, m.win)
  BY <1>1 DEF FollowMoves, Plan
<1>3. t[m.win] \in TrackedWindow
  BY <1>2 DEF Plan
<1>4. tracked'[m.win] = t[m.win] \/ tracked'[m.win] = [t[m.win] EXCEPT !.pending = c.focus]
  BY <1>2 DEF Plan, FollowNoted
<1>5. /\ tracked'[m.win].mode = t[m.win].mode /\ tracked'[m.win].follow = t[m.win].follow
      /\ tracked'[m.win].stay = t[m.win].stay
  BY <1>3, <1>4 DEF TrackedWindow
<1>6. /\ t[m.win].mode # "none" /\ t[m.win].follow /\ c.loc[m.win] # NoWs
      /\ c.loc[m.win] # c.focus
      /\ t[m.win].stay => c.loc[m.win] \in Workspaces /\ Output[c.loc[m.win]] = Output[c.focus]
  BY <1>2 DEF Owed, Allowed
<1> QED  BY <1>2, <1>5, <1>6 DEF Followed

LEMMA DueCases ==
    ASSUME SafeInv, [Next]_vars, NEW m \in Due'
    PROVE  \/ m \in Due
           \/ Followed(m)
           \/ m.win \in Windows /\ Released(m.win) /\ m \in ReturnMoves(m.win)
<1>0. TypeOK
  BY DEF SafeInv
<1>1. CASE UNCHANGED <<loop, work>>
  BY <1>1 DEF Due
<1>2. CASE Client
  <2>1. ASSUME NEW win \in Windows, NEW e \in TrackedWindow,
               Plan(cache', [tracked EXCEPT ![win] = e], {win})
        PROVE  m \in Due \/ Followed(m)
    <3>1. PICK t, d : t = [tracked EXCEPT ![win] = e] /\ d = cache'
      OBVIOUS
    <3>2. Plan(d, t, {win})
      BY <2>1, <3>1
    <3> QED  BY <3>1, <3>2, PlanFollows
  <2>2. ASSUME NEW win \in Windows, tracked[win].mode # "none",
               tracked' = [tracked EXCEPT ![win] = Untracked],
               Dispatch(ReturnMoves(win)), Due' = Due \cup ReturnMoves(win), m \notin Due
        PROVE  m.win \in Windows /\ Released(m.win) /\ m \in ReturnMoves(m.win)
    <3>1. m \in ReturnMoves(win) /\ m.win = win
      BY <2>2 DEF ReturnMoves
    <3> QED  BY <1>2, <2>2, <3>1 DEF Released
  <2>3. loop' = loop
    BY <1>2, ClientCases
  <2> QED  BY <1>1, <1>2, <2>1, <2>2, <2>3, ClientCases
<1>3. CASE Handle
  <2>0. PICK e \in Event : e = Head(queue)
    BY <1>0, <1>3, HandlersHear
  <2>1. CASE Plan(cache', tracked, Windows) \/
             Plan(cache', WithDetected(Present(e), Reported(e)),
                  Detected(Present(e), Reported(e)))
    <3>1. PICK d, t, ids : d = cache' /\ Plan(d, t, ids)
      BY <2>1
    <3> QED  BY <3>1, PlanFollows
  <2> QED  BY <1>3, <2>0, <2>1, HandleCases
<1>4. CASE LoopAct \/ \E k \in Workers : Work(k)
  BY <1>0, <1>4, ExecuteDue
<1>5. CASE DebounceEnds
  <2>1. CASE Plan(cache', tracked, Windows)
    <3>1. PICK d : d = cache'
      OBVIOUS
    <3> QED  BY <2>1, <3>1, PlanFollows
  <2> QED  BY <1>1, <1>5, <2>1, DebouncePlans
<1>6. CASE Connect \/ StreamEnded \/ World \/ \E win \in Windows : PendingExpires(win)
  <2>1. \A what, n : Environment(what, n) => UNCHANGED <<loop, work>>
    BY DEF Environment, jobs
  <2> QED  BY <1>1, <1>6, <2>1 DEF Connect, StreamEnded, PendingExpires, World, UserOpens,
                 UserCloses, UserFocuses, NiriDrops, UserMoves, CutStream, jobs
<1>7. CASE UNCHANGED vars
  BY <1>1, <1>7 DEF vars
<1> QED  BY <1>2, <1>3, <1>4, <1>5, <1>6, <1>7 DEF Next

\* When nothing is on its way, cache and compositor are in accord.
LEMMA Accord ==
    ASSUME CurrentInv, link = "on", queue = <<>>
    PROVE  /\ \A x \in Windows : cache.loc[x] = niri.loc[x]
           /\ cache.name = niri.name /\ cache.focus = niri.focus
<1>1. \A f \in Facets : Part(cache, f) = Part(niri, f)
  BY DEF CurrentInv, Heard
<1>2. \A x \in Windows : cache.loc[x] = niri.loc[x]
  <2> SUFFICES ASSUME NEW x \in Windows PROVE cache.loc[x] = niri.loc[x]
    OBVIOUS
  <2>1. /\ Loc(x) \in Facets /\ Part(cache, Loc(x)) = cache.loc[x]
        /\ Part(niri, Loc(x)) = niri.loc[x]
    BY LocPart
  <2> QED  BY <1>1, <2>1
<1>3. PICK f, g : f = [part |-> "names", win |-> NoWin] /\ g = [part |-> "focus", win |-> NoWin]
  OBVIOUS
<1>4. f \in Facets /\ f.part = "names" /\ g \in Facets /\ g.part = "focus"
  BY <1>3 DEF Facets
<1> QED  BY <1>1, <1>2, <1>4 DEF Part

\* A request in a patient instance finds them so.
LEMMA InAccord ==
    ASSUME SafeInv, CurrentInv, Patient, Client
    PROVE  /\ queue = <<>> /\ Due = {} /\ link = "on"
           /\ \A x \in Windows : cache.loc[x] = niri.loc[x]
           /\ cache.name = niri.name /\ cache.focus = niri.focus
<1>1. link = "on" /\ Quiet
  BY ClientCases
<1>2. queue = <<>> /\ Due = {}
  BY <1>1 DEF Quiet, Due
<1> QED  BY <1>1, <1>2, Accord

\* Where nobody else moves windows, an open window changes place by a move that was due.
LEMMA LocSteps ==
    ASSUME TypeOK, BudgetInv, Limits["move"] = 0, [Next]_vars, NEW x \in Windows,
           x \in opened, Open(niri', x), niri'.loc[x] # niri.loc[x]
    PROVE  /\ LoopAct \/ \E k \in Workers : Work(k)
           /\ \E m \in Due : m.win = x /\ m.ws = niri'.loc[x]
<1>0. niri \in NiriState /\ ~UNCHANGED niri
  BY DEF TypeOK
<1>1. CASE LoopAct \/ \E k \in Workers : Work(k)
  <2>1. PICK m \in Due : m \in Move /\ Execute(m)
    BY <1>1, ExecuteDue
  <2>2. niri' = MoveTo(niri, m.win, {ws \in {m.ws} : Exists(niri, ws)})
    BY <1>0, <2>1, ExecuteMoves
  <2>3. niri' = [niri EXCEPT !.loc[m.win] = m.ws]
    <3> DEFINE to == {ws \in {m.ws} : Exists(niri, ws)}
    <3>1. to # {}
      BY <1>0, <2>2 DEF MoveTo
    <3>2. (CHOOSE y \in to : TRUE) = m.ws
      BY <3>1
    <3> QED  BY <1>0, <2>2, <3>2 DEF MoveTo
  <2>4. m.win = x /\ niri'.loc[x] = m.ws
    BY <1>0, <2>3 DEF NiriState
  <2> QED  BY <1>1, <2>1, <2>4
<1>2. CASE Client \/ Handle
  BY <1>0, <1>2, HandlersHear DEF Client, Pin, Overlay, OverlayRefused, Unpin, ResetGeometry,
     SetFollow, SetFollowMode, SetPolicy, SetEnabled, Request, compositor
<1>3. CASE World
  <2>0. "move" \in Happenings
    BY DEF Happenings
  <2>1. ASSUME NEW what, NEW m, Environment(what, m)
        PROVE  niri' = m /\ Spend(what)
    BY <2>1 DEF Environment, NiriBecomes
  <2>2. CASE \E ws \in Workspaces : UserFocuses(ws) \/ NiriDrops(ws)
    BY <1>0, <2>1, <2>2 DEF UserFocuses, NiriDrops, FocusOn, NiriState
  <2>3. ~Spend("move")
    BY <2>0 DEF Spend, BudgetInv
  <2>4. CASE \E win \in Windows, ws \in Workspaces : UserMoves(win, ws)
    BY <2>1, <2>3, <2>4 DEF UserMoves
  <2>5. CASE \E win \in Windows : UserOpens(win) \/ UserCloses(win)
    BY <1>0, <2>1, <2>5 DEF UserOpens, UserCloses, Open, NiriState
  <2>6. CASE CutStream
    BY <1>0, <2>6 DEF CutStream, compositor
  <2> QED  BY <1>3, <2>2, <2>4, <2>5, <2>6 DEF World
<1>4. CASE DebounceEnds \/ Connect \/ StreamEnded \/ \E win \in Windows : PendingExpires(win)
  BY <1>0, <1>4 DEF DebounceEnds, Connect, StreamEnded, PendingExpires, compositor
<1>5. CASE UNCHANGED vars
  BY <1>0, <1>5 DEF vars
<1> QED  BY <1>1, <1>2, <1>3, <1>4, <1>5 DEF Next

-------------------------------------------------------------------------------
(* Home *)

\* What is not a PiP is at home, on its way there, or remembers where it is.
AtHome(home, x) ==
    LET h == home.loc[x] IN
    IF tracked[x].mode = "none"
    THEN /\ \A m \in Due : m.win = x => m.ws = h
         /\ niri.loc[x] = h \/ [win |-> x, ws |-> h] \in Due
    ELSE tracked[x].origin = h /\ tracked[x].mode # "auto"
NoObituary(x) == \A e \in Events(queue) : Tells(e, Loc(x)) => Says(e, Loc(x)) # NoWs
HomeFor(home) ==
    \A x \in Windows : Open(home, x) =>
        /\ x \in opened
        /\ Open(niri, x) => NoObituary(x)
        /\ Open(niri, x) /\ x \notin Pips /\ Exists(niri, home.loc[x]) => AtHome(home, x)
HomeInv == \E home \in InitialNiri : HomeFor(home)

LEMMA ObituaryStep ==
    ASSUME TypeOK, [Next]_vars, NEW x \in Windows, x \in opened, NoObituary(x), Open(niri', x)
    PROVE  NoObituary(x)'
<1> SUFFICES ASSUME NEW e \in Events(queue'), Tells(e, Loc(x)) PROVE Says(e, Loc(x)) # NoWs
  BY DEF NoObituary
<1>0. Open(niri, x) /\ Loc(x).part = "loc" /\ Loc(x).win = x /\ queue \in Seq(Event)
  BY WorldSteps, LocPart DEF TypeOK
<1>1. CASE e \in Events(queue)
  BY <1>1 DEF NoObituary
<1>2. CASE Handle
  BY <1>0, <1>1, <1>2, HandlersHear, EventsTail
<1>3. CASE Connect
  <2>1. PICK g, h : g = WorkspacesEvent(niri) /\ h = WindowsEvent(niri)
    OBVIOUS
  <2>2. g.type = "WorkspacesChanged" /\ h.type = "WindowsChanged" /\ h.loc = niri.loc
    BY <2>1 DEF WorkspacesEvent, WindowsEvent
  <2>3. queue' = <<g, h>>
    BY <1>3, <2>1 DEF Connect, Bootstrap
  <2>4. Len(queue') = 2 /\ queue'[1] = g /\ queue'[2] = h
    BY <2>3
  <2>5. e \in {g, h}
    BY <2>4 DEF Events
  <2>6. ~Tells(g, Loc(x)) /\ Says(h, Loc(x)) # NoWs
    BY <1>0, <2>2 DEF Tells, Says, Open
  <2> QED  BY <2>5, <2>6
<1>4. CASE Next /\ ~Handle /\ ~Connect
  <2>1. ASSUME NEW g \in Event, queue' = Append(queue, g), New(g, niri, niri')
        PROVE  Tells(g, Loc(x)) => Says(g, Loc(x)) # NoWs
    BY <1>0, <2>1, NiriAssumption DEF New, Tells, Says, Open
  <2>2. CASE \E g \in Event : queue' = Append(queue, g) /\ New(g, niri, niri')
    <3>1. PICK g \in Event : queue' = Append(queue, g) /\ New(g, niri, niri')
      BY <2>2
    <3>2. e = g \/ e \in Events(queue)
      BY <1>0, <3>1, EventsAppend
    <3> QED  BY <1>1, <2>1, <3>1, <3>2
  <2>3. CASE queue' = queue
    BY <1>1, <2>3
  <2> QED  BY <1>4, <2>2, <2>3, QueueCases
<1>5. CASE UNCHANGED vars
  BY <1>1, <1>5 DEF vars
<1> QED  BY <1>2, <1>3, <1>4, <1>5

LEMMA HomeStep ==
    ASSUME SafeInv, CurrentInv, BudgetInv, Patient, RestoreLayout,
           Limits["move"] = 0, Limits["fault"] = 0, [Next]_vars,
           NEW home \in InitialNiri, HomeFor(home)
    PROVE  HomeFor(home)'
<1> SUFFICES ASSUME NEW x \in Windows, Open(home, x)
             PROVE  /\ x \in opened'
                    /\ Open(niri', x) => NoObituary(x)'
                    /\ Open(niri', x) /\ x \notin Pips /\ Exists(niri', home.loc[x])
                        => AtHome(home, x)'
  BY DEF HomeFor
<1> DEFINE h == home.loc[x]
<1>0. TypeOK /\ h \in Workspaces
  BY FollowAssumption DEF SafeInv, NiriState, Place, Open
<1>1. x \in opened /\ x \in opened' /\ (Open(niri', x) => Open(niri, x))
  BY <1>0, WorldSteps DEF HomeFor
<1>2. Open(niri', x) => NoObituary(x)'
  BY <1>0, <1>1, ObituaryStep DEF HomeFor
<1>3. ASSUME Open(niri', x), x \notin Pips, Exists(niri', h)
      PROVE  AtHome(home, x)'
  <2>1. Open(niri, x) /\ Exists(niri, h) /\ AtHome(home, x) /\ NoObituary(x)
    BY <1>0, <1>1, <1>3, WorldSteps DEF HomeFor
  <2>2. CASE Kept(x) /\ tracked[x].mode = "none"
    <3>1. \A m \in Due : m.win = x => m.ws = h
      BY <2>1, <2>2 DEF AtHome
    <3>2. niri.loc[x] = h \/ [win |-> x, ws |-> h] \in Due
      BY <2>1, <2>2 DEF AtHome
    <3>3. \A m \in Due' : m.win = x => m \in Due
      BY <2>2, DueCases DEF Kept, Followed, Released
    <3>4. CASE niri'.loc[x] = h
      BY <2>2, <3>1, <3>3, <3>4 DEF AtHome, Kept
    <3>5. CASE niri'.loc[x] # h
      <4>1. niri'.loc[x] = niri.loc[x]
        BY <1>0, <1>1, <1>3, <3>1, <3>5, LocSteps
      <4>2. PICK m \in Due : m = [win |-> x, ws |-> h]
        BY <3>2, <3>5, <4>1
      <4>3. m.win = x /\ m.ws = h
        BY <4>2
      <4>4. niri' # MoveTo(niri, m.win, {ws \in {m.ws} : Exists(niri, ws)})
        <5>1. {ws \in {m.ws} : Exists(niri, ws)} = {h}
          BY <2>1, <4>3
        <5>2. MoveTo(niri, x, {h}) = [niri EXCEPT !.loc[x] = h]
          BY <2>1 DEF MoveTo
        <5>3. [niri EXCEPT !.loc[x] = h].loc[x] = h
          BY <1>0 DEF TypeOK, NiriState
        <5> QED  BY <3>5, <4>3, <5>1, <5>2, <5>3
      <4>5. m \in Due'
        BY <4>4, DueStays
      <4> QED  BY <2>2, <3>1, <3>3, <4>2, <4>5 DEF AtHome, Kept
    <3> QED  BY <3>4, <3>5
  <2>3. CASE Kept(x) /\ tracked[x].mode # "none"
    BY <2>1, <2>3 DEF AtHome, Kept
  <2>4. CASE Entered(x)
    <3>1. cache.loc[x] = niri.loc[x] /\ Due = {}
      BY <2>4, InAccord DEF Entered
    <3>2. tracked'[x].origin = h /\ tracked'[x].mode \notin {"none", "auto"}
      BY <2>1, <2>4, <3>1 DEF AtHome, Entered
    <3> QED  BY <3>2 DEF AtHome
  <2>5. CASE Released(x)
    <3>1. cache.loc[x] = niri.loc[x] /\ Due = {} /\ cache.name = niri.name
      BY <2>5, InAccord DEF Released
    <3>2. tracked[x].origin = h /\ tracked[x].mode # "auto"
      BY <2>1, <2>5 DEF AtHome, Released
    <3>3. niri' = niri
      BY <2>5, ClientCases DEF Released
    <3>4. tracked'[x].mode = "none"
      BY <1>0, <2>5, UntrackedType DEF Released, TypeOK
    <3>5. Due' = ReturnMoves(x)
      BY <2>5, <3>1 DEF Released
    <3>6. \A m \in Due' : m.ws = h
      BY <3>2, <3>5 DEF ReturnMoves
    <3>7. niri.loc[x] # h => [win |-> x, ws |-> h] \in Due'
      BY <1>0, <2>1, <3>1, <3>2, <3>5 DEF ReturnMoves, Open, Exists
    <3> QED  BY <3>3, <3>4, <3>6, <3>7 DEF AtHome
  <2>6. ~Buried(x)
    <3>1. Handle => Head(queue) \in Events(queue)
      BY <1>0, HandlersHear, EventsTail DEF TypeOK
    <3> QED  BY <2>1, <3>1 DEF Buried, NoObituary
  <2>7. ~Found(x)
    BY <1>3 DEF Found
  <2> QED  BY <2>2, <2>3, <2>4, <2>5, <2>6, <2>7, AttributeCases
<1> QED  BY <1>1, <1>2, <1>3

\* Unpin returns a window to the workspace it was pinned on, wherever it was led.
THEOREM UnpinReturns ==
    ASSUME Patient, RestoreLayout, Limits["move"] = 0, Limits["fault"] = 0
    PROVE  Spec => []UnpinnedAtHome
<1> DEFINE Inv == SafeInv /\ CurrentInv /\ BudgetInv /\ HomeInv
<1>1. Init => Inv
  <2> SUFFICES ASSUME Init PROVE Inv
    OBVIOUS
  <2>1. SafeInv /\ CurrentInv /\ BudgetInv
    BY FollowInit DEF FollowInv
  <2>2. niri \in InitialNiri /\ opened = {win \in Windows : Open(niri, win)}
    BY DEF Init
  <2>3. Events(queue) = {} /\ Due = {}
    BY EventsNone DEF Init, Due
  <2>4. \A x \in Windows : tracked[x].mode = "none"
    BY UntrackedType DEF Init
  <2>5. HomeFor(niri)
    BY <2>2, <2>3, <2>4 DEF HomeFor, NoObituary, AtHome
  <2> QED  BY <2>1, <2>2, <2>5 DEF HomeInv
<1>2. Inv /\ [Next]_vars => Inv'
  <2> SUFFICES ASSUME Inv, [Next]_vars PROVE Inv'
    OBVIOUS
  <2>1. SafeInv' /\ CurrentInv' /\ BudgetInv'
    BY StepSafe, CurrentStep, BudgetStep DEF SafeInv
  <2>2. PICK home \in InitialNiri : HomeFor(home)
    BY DEF HomeInv
  <2>3. HomeFor(home)'
    BY <2>2, HomeStep
  <2> QED  BY <2>1, <2>3 DEF HomeInv
<1>3. Inv => UnpinnedAtHome
  <2> SUFFICES ASSUME Inv, Settled PROVE UnpinnedAtHome
    BY DEF UnpinnedAtHome
  <2>1. PICK home \in InitialNiri : HomeFor(home)
    BY DEF HomeInv
  <2>2. Due = {}
    BY DEF Settled, Quiet, Due
  <2>3. ASSUME NEW win \in Windows \ (Pips \cup Managed(tracked)), Open(niri, win), Open(home, win),
               Exists(niri, home.loc[win])
        PROVE  niri.loc[win] = home.loc[win]
    BY <2>1, <2>2, <2>3 DEF HomeFor, AtHome, Managed
  <2> QED  BY <2>3 DEF UnpinnedAtHome
<1> HIDE DEF Inv
<1> QED  BY <1>1, <1>2, <1>3, PTL DEF Spec

-------------------------------------------------------------------------------
(* Who has moves to execute *)

\* A job has one move per window.
Single(moves) == \A m, n \in moves : m.win = n.win => m = n

LEMMA PlansSingle ==
    /\ \A c, t, ids : Single(FollowMoves(c, t, ids))
    /\ \A win : Single(ReturnMoves(win))
<1>1. \A c, t, ids : Single(FollowMoves(c, t, ids))
  BY DEF Single, FollowMoves
<1>2. \A win : Single(ReturnMoves(win))
  BY DEF Single, ReturnMoves
<1> QED  BY <1>1, <1>2

\* Handlers fill the loop; requests and debounce tasks fill one idle worker.
LEMMA JobCases ==
    ASSUME SafeInv, [Next]_vars
    PROVE  \/ /\ Handle /\ work' = work /\ loop = {}
              /\ \A m \in loop' : tracked'[m.win].mode # "none"
           \/ /\ ~Handle /\ loop' \subseteq loop
              /\ \/ \A k \in Workers : work'[k] \subseteq work[k]
                 \/ /\ Client \/ DebounceEnds
                    /\ \E k, moves :
                         k \in Workers /\ Single(moves) /\ work' = [work EXCEPT ![k] = moves]
<1>0. TypeOK
  BY DEF SafeInv
<1>1. CASE Handle
  <2>1. work' = work /\ loop = {}
    BY <1>1 DEF Handle, HandleWorkspacesChanged, HandleWorkspaceActivated, HandleWindowClosed,
           HandleWindowsChanged, HandleWindowChanged, Receive
  <2>3. ASSUME NEW m \in loop'
        PROVE  tracked'[m.win].mode # "none"
    <3>1. ASSUME NEW c, NEW t, NEW ids,
                 tracked' = FollowNoted(c, t, ids), loop' = FollowMoves(c, t, ids),
                 t \in [Windows -> TrackedWindow], ids \subseteq Windows
          PROVE  tracked'[m.win].mode # "none"
      <4>1. m.win \in ids /\ Owed(c, t, m.win)
        BY <3>1, <2>3 DEF FollowMoves
      <4>2. tracked'[m.win] = [t[m.win] EXCEPT !.pending = c.focus] /\ t[m.win] \in TrackedWindow
        BY <3>1, <4>1 DEF FollowNoted
      <4> QED  BY <4>1, <4>2 DEF Owed, TrackedWindow
    <3>2. CASE HandleWorkspacesChanged
      <4>1. PICK d : d = cache'
        OBVIOUS
      <4>2. \/ /\ loop' = FollowMoves(d, tracked, Windows)
               /\ tracked' = FollowNoted(d, tracked, Windows)
            \/ loop' = loop
        BY <3>2, <4>1 DEF HandleWorkspacesChanged, FollowAll
      <4>3. tracked \in [Windows -> TrackedWindow]
        BY <1>0 DEF TypeOK
      <4> QED  BY <2>1, <2>3, <3>1, <4>2, <4>3
    <3>3. CASE HandleWorkspaceActivated \/ HandleWindowClosed
      BY <2>1, <2>3, <3>3 DEF HandleWorkspaceActivated, HandleWindowClosed
    <3>4. CASE HandleWindowsChanged \/ HandleWindowChanged
      <4>0. /\ tracked \in [Windows -> TrackedWindow]
            /\ Entry("auto", controls, NoWs) \in TrackedWindow
            /\ Untracked \in TrackedWindow
        BY <1>0, EntryType, UntrackedType DEF TypeOK, Place
      <4>1. \E c, t, ids : t \in [Windows -> TrackedWindow] /\ Classify(c, t, ids)
        <5>1. CASE HandleWindowsChanged
          <6>1. PICK e : e = Head(queue)
            OBVIOUS
          <6>2. PICK live : live = {win \in Windows : e.loc[win] # NoWs}
            OBVIOUS
          <6>3. PICK t : t = [win \in Windows |-> IF win \in live THEN tracked[win] ELSE Untracked]
            OBVIOUS
          <6>4. t \in [Windows -> TrackedWindow]
            BY <4>0, <6>3
          <6>5. Classify(cache', t, live)
            BY <5>1, <6>1, <6>2, <6>3 DEF HandleWindowsChanged
          <6> QED  BY <6>4, <6>5
        <5>2. CASE HandleWindowChanged
          <6>1. PICK e \in Event : e = Head(queue)
            BY <1>0, <1>1, HandlersHear
          <6>2. PICK t : t = Acknowledged(tracked, e.win, e.ws)
            OBVIOUS
          <6>3. NoWs \in Place
            BY DEF Place
          <6>4. t \in [Windows -> TrackedWindow]
            <7>1. \A w \in Windows : [tracked[w] EXCEPT !.pending = NoWs] \in TrackedWindow
              BY <4>0, <6>3 DEF TrackedWindow
            <7>2. \/ t = tracked
                  \/ t = [tracked EXCEPT ![e.win] = [tracked[e.win] EXCEPT !.pending = NoWs]]
              BY <6>2 DEF Acknowledged
            <7> QED  BY <4>0, <7>1, <7>2
          <6>5. Classify(cache', t, {e.win})
            BY <5>2, <6>1, <6>2 DEF HandleWindowChanged
          <6> QED  BY <6>4, <6>5
        <5> QED  BY <3>4, <5>1, <5>2
      <4>2. PICK c, t, ids : t \in [Windows -> TrackedWindow] /\ Classify(c, t, ids)
        BY <4>1
      <4>3. PICK u, new : u = WithDetected(t, ids) /\ new = Detected(t, ids)
        OBVIOUS
      <4>4. u \in [Windows -> TrackedWindow] /\ new \subseteq Windows
        <5>1. u = [win \in Windows |->
                     IF win \in Detected(t, ids) THEN Entry("auto", controls, NoWs) ELSE t[win]]
          BY <4>3 DEF WithDetected
        <5>2. new \subseteq Windows
          BY <4>3, FollowAssumption DEF Detected
        <5> QED  BY <4>0, <4>2, <5>1, <5>2
      <4>5. tracked' = FollowNoted(c, u, new) /\ loop' = FollowMoves(c, u, new)
        BY <4>2, <4>3 DEF Classify
      <4> QED  BY <3>1, <4>4, <4>5
    <3> QED  BY <1>1, <3>2, <3>3, <3>4 DEF Handle
  <2> QED  BY <1>1, <2>1, <2>3
<1>2. ASSUME NEW moves, Dispatch(moves), Single(moves)
      PROVE  \E k, ms : k \in Workers /\ Single(ms) /\ work' = [work EXCEPT ![k] = ms]
  BY <1>2 DEF Dispatch
<1>3. CASE ~Handle /\ UNCHANGED <<loop, work>>
  BY <1>3
<1>4. CASE ~Handle /\ Client
  <2>1. loop' = loop
    BY <1>4, ClientCases
  <2>2. work' = work \/ \E moves : Dispatch(moves) /\ Single(moves)
    BY <1>4, PlansSingle DEF Client, Pin, Overlay, OverlayRefused, Unpin, ResetGeometry, SetFollow,
       SetFollowMode, SetPolicy, SetEnabled, ThenFollow
  <2> QED  BY <1>2, <1>3, <1>4, <2>1, <2>2
<1>5. CASE ~Handle /\ DebounceEnds
  <2>1. loop' = loop
    BY <1>5, DebouncePlans
  <2>2. work' = work \/ \E moves : Dispatch(moves) /\ Single(moves)
    BY <1>5, PlansSingle DEF DebounceEnds
  <2> QED  BY <1>2, <1>3, <1>5, <2>1, <2>2
<1>6. CASE ~Handle /\ LoopAct
  BY <1>6 DEF LoopAct
<1>7. ASSUME ~Handle, NEW k \in Workers, Work(k)
      PROVE  loop' \subseteq loop /\ \A l \in Workers : work'[l] \subseteq work[l]
  BY <1>0, <1>7 DEF Work, TypeOK
<1>8. CASE ~Handle /\ (Connect \/ StreamEnded \/ World \/ \E win \in Windows : PendingExpires(win))
  <2>1. \A what, n : Environment(what, n) => UNCHANGED <<loop, work>>
    BY DEF Environment, jobs
  <2> QED  BY <1>3, <1>8, <2>1 DEF Connect, StreamEnded, PendingExpires, World, UserOpens,
                 UserCloses, UserFocuses, NiriDrops, UserMoves, CutStream, jobs
<1>9. CASE ~Handle /\ UNCHANGED vars
  BY <1>3, <1>9 DEF vars
<1> QED  BY <1>1, <1>4, <1>5, <1>6, <1>7, <1>8, <1>9 DEF Next

\* One worker at a time has moves, and what the loop moves is tracked.
JobsInv ==
    /\ \A k \in Workers : Single(work[k])
    /\ \A k, l \in Workers : work[k] # {} /\ work[l] # {} => k = l
    /\ \A m \in loop : tracked[m.win].mode # "none"

LEMMA PatientQuiet ==
    ASSUME SafeInv, Patient, Client \/ DebounceEnds
    PROVE  /\ queue = <<>> /\ loop = {} /\ \A k \in Workers : work[k] = {}
           /\ Due = {} /\ niri' = niri /\ queue' = queue
<1>1. Quiet /\ niri' = niri /\ queue' = queue
  BY ClientCases, DebouncePlans
<1> QED  BY <1>1 DEF Quiet, Due

LEMMA JobsStep ==
    ASSUME SafeInv, Patient, JobsInv, [Next]_vars
    PROVE  JobsInv'
<1>0. TypeOK /\ work \in [Workers -> SUBSET Move] /\ loop \subseteq Move
  BY DEF SafeInv, TypeOK
<1>1. CASE Handle /\ work' = work /\ \A m \in loop' : tracked'[m.win].mode # "none"
  BY <1>1 DEF JobsInv
<1>2. CASE ~Handle /\ loop' \subseteq loop
  <2>1. \A m \in loop' : tracked'[m.win].mode # "none"
    <3> SUFFICES ASSUME NEW m \in loop' PROVE tracked'[m.win].mode # "none"
      OBVIOUS
    <3>1. PICK x \in Windows : x = m.win
      BY <1>0, <1>2 DEF Move
    <3>2. m \in loop /\ tracked[x].mode # "none"
      BY <1>2, <3>1 DEF JobsInv
    <3>3. ~Released(x)
      BY <3>2, PatientQuiet DEF Released
    <3> QED  BY <1>2, <3>1, <3>2, <3>3, AttributeCases DEF Kept, Entered, Buried, Found
  <2>2. CASE \A k \in Workers : work'[k] \subseteq work[k]
    BY <2>1, <2>2 DEF JobsInv, Single
  <2>3. ASSUME Client \/ DebounceEnds, NEW k \in Workers, NEW moves, Single(moves),
               work' = [work EXCEPT ![k] = moves]
        PROVE  JobsInv'
    <3>1. \A l \in Workers : work'[l] = IF l = k THEN moves ELSE {}
      BY <1>0, <2>3, PatientQuiet
    <3>2. Single({})
      BY DEF Single
    <3> QED  BY <2>1, <2>3, <3>1, <3>2 DEF JobsInv
  <2> QED  BY <1>2, <2>2, <2>3, JobCases
<1> QED  BY <1>1, <1>2, JobCases

\* Where the events of the queue come from.
LEMMA QueueSources ==
    ASSUME TypeOK, [Next]_vars, NEW e \in Events(queue')
    PROVE  \/ e \in Events(queue)
           \/ /\ link = "on" /\ ~Handle /\ Next /\ e \in Event /\ New(e, niri, niri')
           \/ /\ link = "off" /\ niri' = niri /\ UNCHANGED <<cache, tracked>>
              /\ e.type = "WorkspacesChanged" \/ (e.type = "WindowsChanged" /\ e.loc = niri.loc)
<1>0. queue \in Seq(Event)
  BY DEF TypeOK
<1>2. CASE Handle
  BY <1>0, <1>2, HandlersHear, EventsTail
<1>3. CASE Connect
  <2>1. PICK g, h : g = WorkspacesEvent(niri) /\ h = WindowsEvent(niri)
    OBVIOUS
  <2>2. g.type = "WorkspacesChanged" /\ h.type = "WindowsChanged" /\ h.loc = niri.loc
    BY <2>1 DEF WorkspacesEvent, WindowsEvent
  <2>3. queue' = <<g, h>> /\ link = "off" /\ niri' = niri /\ UNCHANGED <<cache, tracked>>
    BY <1>3, <2>1 DEF Connect, Bootstrap
  <2>4. Len(queue') = 2 /\ queue'[1] = g /\ queue'[2] = h
    BY <2>3
  <2>5. e \in {g, h}
    BY <2>4 DEF Events
  <2> QED  BY <2>2, <2>3, <2>5
<1>4. CASE Next /\ ~Handle /\ ~Connect
  <2>1. CASE \E g \in Event : queue' = Append(queue, g) /\ New(g, niri, niri')
    <3>1. PICK g \in Event : queue' = Append(queue, g) /\ New(g, niri, niri')
      BY <2>1
    <3>2. e = g \/ e \in Events(queue)
      BY <1>0, <3>1, EventsAppend
    <3>3. link = "on" \/ queue' = queue
      BY <1>4, QueueCases
    <3> QED  BY <1>4, <3>1, <3>2, <3>3
  <2>2. CASE queue' = queue
    BY <2>2
  <2> QED  BY <1>4, <2>1, <2>2, QueueCases
<1>5. CASE UNCHANGED vars
  BY <1>5 DEF vars
<1> QED  BY <1>2, <1>3, <1>4, <1>5

LEMMA NewTells ==
    ASSUME NEW e, NEW n, NEW m, New(e, n, m), NEW x \in Windows, Tells(e, Loc(x))
    PROVE  Says(e, Loc(x)) = m.loc[x] /\ m.loc[x] # n.loc[x]
  BY LocPart DEF New, Tells, Says

\* A close in the queue is the end of its window.
ClosedInv ==
    \A e \in Events(queue) : e.type = "WindowClosed" => e.win \in opened /\ ~Open(niri, e.win)

LEMMA ClosedStep ==
    ASSUME TypeOK, OpenedInv, ClosedInv, [Next]_vars
    PROVE  ClosedInv'
<1> SUFFICES ASSUME NEW e \in Events(queue'), e.type = "WindowClosed"
             PROVE  e.win \in opened' /\ ~Open(niri', e.win)
  BY DEF ClosedInv
<1>1. CASE e \in Events(queue)
  <2>1. e \in Event
    BY <1>1 DEF TypeOK, Events
  <2>2. e.win \in Windows
    BY <2>1 DEF Event
  <2>3. e.win \in opened /\ ~Open(niri, e.win)
    BY <1>1 DEF ClosedInv
  <2> QED  BY <2>2, <2>3, WorldSteps
<1>2. CASE New(e, niri, niri')
  <2>1. e.win \in Windows /\ niri'.loc[e.win] = NoWs /\ niri.loc[e.win] # NoWs
    BY <1>2 DEF New
  <2> QED  BY <2>1, WorldSteps DEF OpenedInv, Open
<1> QED  BY <1>1, <1>2, QueueSources

\* Only windows that were opened are moved.
DueOpened == \A m \in Due : m.win \in opened

LEMMA DueOpenedStep ==
    ASSUME SafeInv, SafeInv', OpenedInv, OpenedInv', DueOpened, [Next]_vars
    PROVE  DueOpened'
<1> SUFFICES ASSUME NEW m \in Due' PROVE m.win \in opened'
  BY DEF DueOpened
<1>0. TypeOK /\ m.win \in Windows
  BY DueMoves DEF SafeInv, TypeOK, Due, Move
<1>1. opened \subseteq opened'
  BY <1>0, WorldSteps
<1>2. CASE m \in Due
  BY <1>1, <1>2 DEF DueOpened
<1>3. CASE Followed(m)
  <2>1. cache'.loc[m.win] # NoWs
    BY <1>3 DEF Followed
  <2> QED  BY <1>0, <2>1 DEF OpenedInv
<1>4. CASE Released(m.win)
  BY <1>0, <1>1, <1>4 DEF Released, SafeInv, MapSafe, OpenedInv
<1> QED  BY <1>2, <1>3, <1>4, DueCases

-------------------------------------------------------------------------------
(* Outputs *)

\* An open window that is not tracked: its move is executed before its event is told.
Free(x) ==
    tracked[x].mode = "none" /\ Open(niri, x) =>
        /\ (\E m \in Due : m.win = x) => \A e \in Events(queue) : ~Tells(e, Loc(x))
        /\ \A e \in Events(queue) : Tells(e, Loc(x)) => Says(e, Loc(x)) \in {NoWs, niri.loc[x]}
\* One that may stay only on its output: all that concerns it concerns this output.
Stay(x) ==
    tracked[x].mode # "none" /\ tracked[x].stay /\ Open(niri, x) =>
        /\ Output[cache.loc[x]] = Output[niri.loc[x]]
        /\ \A m \in Due : m.win = x => Output[m.ws] = Output[niri.loc[x]]
        /\ \A e \in Events(queue) : Tells(e, Loc(x)) /\ Says(e, Loc(x)) # NoWs =>
                Output[Says(e, Loc(x))] = Output[niri.loc[x]]
StayInv ==
    /\ JobsInv /\ ClosedInv /\ DueOpened
    /\ \A x \in Windows : Free(x) /\ Stay(x)

\* When a move was executed, the window has no other.
LEMMA LastMove ==
    ASSUME SafeInv, BudgetInv, JobsInv, Limits["move"] = 0, [Next]_vars, NEW x \in Windows,
           x \in opened, Open(niri', x), niri'.loc[x] # niri.loc[x], tracked[x].mode = "none"
    PROVE  /\ \E m \in Due : m.win = x
           /\ \A m \in Due' : m.win # x
<1>0. TypeOK /\ work \in [Workers -> SUBSET Move] /\ niri \in NiriState
  BY DEF SafeInv, TypeOK
<1>1. PICK n \in Due : n.win = x
  BY <1>0, LocSteps
<1>2. \A m \in loop : m.win # x
  BY DEF JobsInv
<1>3. ~LoopAct
  <2> SUFFICES ASSUME LoopAct PROVE FALSE
    OBVIOUS
  <2>1. PICK m \in loop : Execute(m)
    BY DEF LoopAct
  <2>2. m \in Move
    BY <1>0, <2>1 DEF TypeOK
  <2>3. niri' = MoveTo(niri, m.win, {ws \in {m.ws} : Exists(niri, ws)})
    BY <1>0, <2>1, <2>2, ExecuteMoves
  <2>4. niri'.loc[x] = niri.loc[x]
    BY <1>0, <1>2, <2>1, <2>2, <2>3 DEF MoveTo, NiriState, Move
  <2> QED  BY <2>4
<1>4. PICK k \in Workers : Work(k)
  BY <1>0, <1>3, LocSteps
<1>5. PICK m \in work[k] : /\ Execute(m) /\ work' = [work EXCEPT ![k] = work[k] \ {m}]
                           /\ loop' = loop
  BY <1>4 DEF Work
<1>6. m \in Move
  BY <1>0
<1>7. niri' = MoveTo(niri, m.win, {ws \in {m.ws} : Exists(niri, ws)})
  BY <1>0, <1>5, <1>6, ExecuteMoves
<1>8. m.win = x
  BY <1>0, <1>6, <1>7 DEF MoveTo, NiriState, Move
<1>9. \A l \in Workers : \A o \in work'[l] : o.win # x
  <2> SUFFICES ASSUME NEW l \in Workers, NEW o \in work'[l], o.win = x PROVE FALSE
    OBVIOUS
  <2>1. o \in work[l] /\ (l = k => o # m)
    BY <1>0, <1>5
  <2>2. l = k
    BY <2>1 DEF JobsInv
  <2> QED  BY <1>8, <2>1, <2>2 DEF JobsInv, Single
<1> QED  BY <1>1, <1>2, <1>5, <1>9 DEF Due

LEMMA FreeStep ==
    ASSUME FollowInv, Patient, StayInv, Limits["move"] = 0, Limits["cut"] = 0, [Next]_vars,
           NEW x \in Windows, tracked'[x].mode = "none", Open(niri', x)
    PROVE  /\ (\E m \in Due' : m.win = x) => \A e \in Events(queue') : ~Tells(e, Loc(x))
           /\ \A e \in Events(queue') : Tells(e, Loc(x)) => Says(e, Loc(x)) \in {NoWs, niri'.loc[x]}
<1>0. /\ TypeOK /\ SafeInv /\ BudgetInv /\ StartInv /\ BlankInv /\ OpenedInv /\ CurrentInv
      /\ JobsInv /\ ClosedInv /\ DueOpened /\ Loc(x).part = "loc" /\ Loc(x).win = x
  BY LocPart DEF FollowInv, SafeInv, StayInv
<1>1. CASE Released(x)
  <2>1. Events(queue') = {}
    BY <1>0, <1>1, PatientQuiet, EventsNone DEF Released
  <2> QED  BY <2>1
<1>2. CASE ~Released(x) /\ tracked[x].mode = "none"
  <2>1. \A m \in Due' : m.win = x => m \in Due
    BY <1>0, <1>2, DueCases DEF Followed
  <2>2. CASE x \notin opened
    <3>1. \A m \in Due' : m.win # x
      BY <1>0, <2>1, <2>2 DEF DueOpened
    <3>2. niri.loc[x] = NoWs /\ \A e \in Events(queue) : Tells(e, Loc(x)) => Says(e, Loc(x)) = NoWs
      BY <1>0, <2>2 DEF OpenedInv
    <3>3. ASSUME NEW e \in Events(queue'), Tells(e, Loc(x))
          PROVE  Says(e, Loc(x)) \in {NoWs, niri'.loc[x]}
      <4>1. CASE New(e, niri, niri')
        BY <3>3, <4>1, NewTells
      <4> QED  BY <1>0, <3>2, <3>3, <4>1, QueueSources DEF Open
    <3> QED  BY <3>1, <3>3
  <2>3. CASE x \in opened
    <3>0. Open(niri, x)
      BY <1>0, <2>3, WorldSteps
    <3>1. /\ (\E m \in Due : m.win = x) => \A e \in Events(queue) : ~Tells(e, Loc(x))
          /\ \A e \in Events(queue) : Tells(e, Loc(x)) => Says(e, Loc(x)) \in {NoWs, niri.loc[x]}
      BY <1>2, <3>0 DEF StayInv, Free
    <3>2. CASE niri'.loc[x] = niri.loc[x]
      <4>1. \A e : New(e, niri, niri') => ~Tells(e, Loc(x))
        BY <3>2, NewTells
      <4>2. ASSUME NEW e \in Events(queue'), Tells(e, Loc(x))
            PROVE  Says(e, Loc(x)) \in {NoWs, niri'.loc[x]} /\ \A m \in Due' : m.win # x
        <5>1. CASE e \in Events(queue)
          BY <2>1, <3>1, <3>2, <4>2, <5>1
        <5>2. CASE link = "off" /\ (e.type = "WorkspacesChanged" \/
                                    (e.type = "WindowsChanged" /\ e.loc = niri.loc))
          <6>1. Says(e, Loc(x)) = niri.loc[x]
            BY <1>0, <4>2, <5>2 DEF Tells, Says
          <6>2. Due = {}
            BY <1>0, <5>2 DEF StartInv, Virgin
          <6> QED  BY <2>1, <3>2, <6>1, <6>2
        <5> QED  BY <1>0, <4>1, <4>2, <5>1, <5>2, QueueSources
      <4> QED  BY <4>2
    <3>3. CASE niri'.loc[x] # niri.loc[x]
      <4>1. (\E m \in Due : m.win = x) /\ (\A m \in Due' : m.win # x)
        BY <1>0, <1>2, <2>3, <3>3, LastMove
      <4>2. ASSUME NEW e \in Events(queue'), Tells(e, Loc(x))
            PROVE  Says(e, Loc(x)) \in {NoWs, niri'.loc[x]}
        <5>1. e \notin Events(queue)
          BY <3>1, <4>1, <4>2
        <5>2. New(e, niri, niri')
          BY <1>0, <3>3, <5>1, QueueSources
        <5> QED  BY <4>2, <5>2, NewTells
      <4> QED  BY <4>1, <4>2
    <3> QED  BY <3>2, <3>3
  <2> QED  BY <2>2, <2>3
<1>3. CASE ~Released(x) /\ tracked[x].mode # "none"
  <2>1. Buried(x)
    BY <1>0, <1>3, AttributeCases DEF Kept, Entered, Found
  <2>2. PICK e \in Event : e = Head(queue) /\ e \in Events(queue) /\ niri' = niri
    BY <1>0, <2>1, HandlersHear, EventsTail DEF Buried, TypeOK
  <2>3. Tells(e, Loc(x)) /\ Says(e, Loc(x)) = NoWs
    BY <2>1, <2>2 DEF Buried
  <2>4. e.type = "WindowsChanged" \/ (e.type = "WindowClosed" /\ e.win = x)
    BY <1>0, <2>2, <2>3, NiriAssumption DEF Tells, Says, Event
  <2>5. e.type # "WindowClosed"
    BY <1>0, <2>2, <2>4 DEF ClosedInv
  <2>6. e.type # "WindowsChanged"
    <3>1. ~Virgin
      BY <1>3, UntrackedType DEF Virgin
    <3> QED  BY <1>0, <2>2, <3>1 DEF StartInv, Events
  <2> QED  BY <2>4, <2>5, <2>6
<1> QED  BY <1>1, <1>2, <1>3

LEMMA StayStep ==
    ASSUME FollowInv, FollowInv', Patient, StayInv, Limits["move"] = 0, Limits["cut"] = 0,
           [Next]_vars, NEW x \in Windows, tracked'[x].mode # "none", tracked'[x].stay,
           Open(niri', x)
    PROVE  /\ Output[cache'.loc[x]] = Output[niri'.loc[x]]
           /\ \A m \in Due' : m.win = x => Output[m.ws] = Output[niri'.loc[x]]
           /\ \A e \in Events(queue') : Tells(e, Loc(x)) /\ Says(e, Loc(x)) # NoWs =>
                   Output[Says(e, Loc(x))] = Output[niri'.loc[x]]
<1>0. /\ TypeOK /\ SafeInv /\ BudgetInv /\ StartInv /\ BlankInv /\ OpenedInv /\ CurrentInv
      /\ JobsInv /\ ClosedInv /\ DueOpened /\ Loc(x).part = "loc" /\ Loc(x).win = x
      /\ Loc(x) \in Facets
  BY LocPart DEF FollowInv, SafeInv, StayInv
<1>c. cache'.loc[x] # NoWs
  BY DEF FollowInv, SafeInv, MapSafe
<1>h. Handle => /\ niri' = niri /\ Head(queue) \in Events(queue)
                /\ Events(queue') \subseteq Events(queue)
                /\ cache'.loc[x] = IF Tells(Head(queue), Loc(x)) THEN Says(Head(queue), Loc(x))
                                   ELSE cache.loc[x]
  <2> SUFFICES ASSUME Handle
               PROVE  /\ niri' = niri /\ Head(queue) \in Events(queue)
                      /\ Events(queue') \subseteq Events(queue)
                      /\ cache'.loc[x] = IF Tells(Head(queue), Loc(x))
                                         THEN Says(Head(queue), Loc(x)) ELSE cache.loc[x]
    OBVIOUS
  <2>1. niri' = niri /\ Head(queue) \in Events(queue) /\ Events(queue') \subseteq Events(queue)
    BY <1>0, HandlersHear, EventsTail DEF TypeOK
  <2>2. PICK d : d = cache'
    OBVIOUS
  <2>3. Part(d, Loc(x)) = IF Tells(Head(queue), Loc(x)) THEN Says(Head(queue), Loc(x))
                          ELSE Part(cache, Loc(x))
    BY <1>0, <2>2, HandlersHear
  <2>4. Part(d, Loc(x)) = d.loc[x] /\ Part(cache, Loc(x)) = cache.loc[x]
    BY LocPart
  <2> QED  BY <2>1, <2>2, <2>3, <2>4
<1>f. \A m \in Due' : m.win = x => m \in Due \/ Output[m.ws] = Output[cache'.loc[x]]
  <2> SUFFICES ASSUME NEW m \in Due', m.win = x, m \notin Due
               PROVE  Output[m.ws] = Output[cache'.loc[x]]
    OBVIOUS
  <2>1. ~Released(x)
    BY <1>0, UntrackedType DEF Released, TypeOK
  <2>2. Followed(m)
    BY <1>0, <2>1, DueCases
  <2> QED  BY <2>2 DEF Followed
<1>1. CASE Entered(x)
  <2>1. /\ Due = {} /\ queue = <<>> /\ queue' = queue /\ niri' = niri /\ cache' = cache
        /\ cache.loc[x] = niri.loc[x]
    BY <1>0, <1>1, InAccord, PatientQuiet, ClientCases DEF Entered
  <2>2. Events(queue') = {}
    BY <2>1, EventsNone
  <2> QED  BY <1>f, <2>1, <2>2
<1>2. CASE Found(x)
  <2>0. Open(niri, x) /\ Handle /\ tracked[x].mode = "none"
        /\ Tells(Head(queue), Loc(x)) /\ Says(Head(queue), Loc(x)) # NoWs
    BY <1>2, <1>h DEF Found, Open
  <2>1. /\ \A m \in Due : m.win # x
        /\ \A e \in Events(queue) : Tells(e, Loc(x)) => Says(e, Loc(x)) \in {NoWs, niri.loc[x]}
    BY <1>h, <2>0 DEF StayInv, Free
  <2>2. cache'.loc[x] = niri.loc[x] /\ niri' = niri
    BY <1>h, <2>0, <2>1
  <2> QED  BY <1>f, <1>h, <2>0, <2>1, <2>2
<1>3. CASE Kept(x)
  <2>0. tracked[x].mode # "none" /\ tracked[x].stay /\ cache.loc[x] # NoWs
    BY <1>0, <1>3 DEF Kept, SafeInv, MapSafe
  <2>1. x \in opened /\ link = "on"
    BY <1>0, <2>0, UntrackedType DEF OpenedInv, StartInv, Virgin
  <2>2. Open(niri, x)
    BY <1>0, <2>1, WorldSteps
  <2>3. /\ Output[cache.loc[x]] = Output[niri.loc[x]]
        /\ \A m \in Due : m.win = x => Output[m.ws] = Output[niri.loc[x]]
        /\ \A e \in Events(queue) : Tells(e, Loc(x)) /\ Says(e, Loc(x)) # NoWs =>
                Output[Says(e, Loc(x))] = Output[niri.loc[x]]
    BY <2>0, <2>2 DEF StayInv, Stay
  <2>4. Output[niri'.loc[x]] = Output[niri.loc[x]]
    BY <1>0, <2>1, <2>3, LocSteps
  <2>5. Output[cache'.loc[x]] = Output[niri.loc[x]]
    <3>1. CASE Handle
      BY <1>c, <1>h, <2>3, <3>1
    <3>2. CASE ~Handle
      <4>1. cache' = cache
        BY <1>0, <3>2, QueueCases DEF Connect, vars
      <4> QED  BY <2>3, <4>1
    <3> QED  BY <3>1, <3>2
  <2>6. ASSUME NEW e \in Events(queue'), Tells(e, Loc(x)), Says(e, Loc(x)) # NoWs
        PROVE  Output[Says(e, Loc(x))] = Output[niri'.loc[x]]
    <3>1. CASE New(e, niri, niri')
      BY <2>6, <3>1, NewTells
    <3>2. CASE e \in Events(queue)
      BY <2>3, <2>4, <2>6, <3>2
    <3> QED  BY <1>0, <2>1, <3>1, <3>2, QueueSources
  <2> QED  BY <1>f, <2>3, <2>4, <2>5, <2>6
<1>4. ~Released(x) /\ ~Buried(x)
  BY <1>0, UntrackedType DEF Released, Buried, TypeOK
<1> QED  BY <1>0, <1>1, <1>2, <1>3, <1>4, AttributeCases

LEMMA StayInvStep ==
    ASSUME FollowInv, FollowInv', Patient, StayInv, Limits["move"] = 0, Limits["cut"] = 0,
           [Next]_vars
    PROVE  StayInv'
<1>1. JobsInv' /\ ClosedInv' /\ DueOpened'
  BY JobsStep, ClosedStep, DueOpenedStep DEF FollowInv, SafeInv, StayInv
<1>2. ASSUME NEW x \in Windows PROVE Free(x)'
  BY FreeStep DEF Free
<1>3. ASSUME NEW x \in Windows PROVE Stay(x)'
  BY StayStep DEF Stay
<1> QED  BY <1>1, <1>2, <1>3 DEF StayInv

LEMMA StayInit == Init => StayInv
<1> SUFFICES ASSUME Init PROVE StayInv
  OBVIOUS
<1>1. Events(queue) = {} /\ Due = {} /\ loop = {} /\ \A k \in Workers : work[k] = {}
  BY EventsNone DEF Init, Due
<1>2. \A x \in Windows : tracked[x].mode = "none"
  BY UntrackedType DEF Init
<1>3. JobsInv /\ ClosedInv /\ DueOpened
  BY <1>1 DEF JobsInv, Single, ClosedInv, DueOpened
<1> QED  BY <1>1, <1>2, <1>3 DEF StayInv, Free, Stay

\* No task of the daemon leads a follower off an output that it may not leave, in
\* whatever order moves, events and requests come, and whichever of the moves fail.
THEOREM StaysThere ==
    ASSUME Patient, Limits["move"] = 0, Limits["cut"] = 0
    PROVE  Spec => StaysOnOutput
<1> DEFINE A == \A win \in Windows :
                  /\ tracked[win].stay /\ tracked'[win].stay
                  /\ Open(niri, win) /\ Open(niri', win)
                  => Output[niri'.loc[win]] = Output[niri.loc[win]]
<1>1. Init => FollowInv /\ StayInv
  BY FollowInit, StayInit
<1>2. FollowInv /\ StayInv /\ [Next]_vars => FollowInv' /\ StayInv'
  BY FollowStep, StayInvStep
<1>3. FollowInv /\ StayInv /\ [Next]_vars => [A]_vars
  <2> SUFFICES ASSUME FollowInv, StayInv, [Next]_vars, NEW x \in Windows,
                      tracked[x].stay, Open(niri, x), Open(niri', x)
               PROVE  Output[niri'.loc[x]] = Output[niri.loc[x]]
    OBVIOUS
  <2>0. TypeOK /\ SafeInv /\ BudgetInv /\ BlankInv /\ OpenedInv
    BY DEF FollowInv, SafeInv
  <2>1. tracked[x].mode # "none"
    <3>1. Untracked.stay = FALSE
      BY DEF Untracked
    <3> QED  BY <2>0, <3>1 DEF BlankInv
  <2>2. x \in opened
    BY <2>0, <2>1 DEF SafeInv, MapSafe, OpenedInv
  <2>3. Stay(x)
    BY DEF StayInv
  <2> QED  BY <2>0, <2>1, <2>2, <2>3, LocSteps DEF Stay
<1>4. [][A]_vars => StaysOnOutput
  BY DEF StaysOnOutput
<1> HIDE DEF A
<1> QED  BY <1>1, <1>2, <1>3, <1>4, PTL DEF Spec

-------------------------------------------------------------------------------
(* The focus *)

\* No activation waits to be handled or to be reacted to.
Calm == link = "on" /\ ~timer /\ \A e \in Events(queue) : e.type # "WorkspaceActivated"
FocusInv ==
    Calm => /\ cache.focus \in {NoWs, niri.focus}
            /\ \A e \in Events(queue) : e.type = "WorkspacesChanged" => e.focus = niri.focus
\* What is on record as gone is gone.
NameInv ==
    /\ cache.focus # NoWs => \A ws \in Workspaces : cache.name[ws] = Gone => ~Exists(niri, ws)
    /\ \A e \in Events(queue) : e.type = "WorkspacesChanged" =>
            \A ws \in Workspaces : e.names[ws] = Gone => ~Exists(niri, ws)
\* There is a focused workspace, and windows are on workspaces.
WorldInv ==
    Exists(niri, niri.focus) /\ \A x \in Windows : Open(niri, x) => Exists(niri, niri.loc[x])

LEMMA WorldStep ==
    ASSUME TypeOK, WorldInv, [Next]_vars
    PROVE  WorldInv'
<1>0. niri \in NiriState
  BY DEF TypeOK
<1>1. CASE UNCHANGED niri
  BY <1>1 DEF WorldInv, Open, Exists
<1>2. CASE Client \/ Handle
  BY <1>1, <1>2, HandlersHear DEF Client, Pin, Overlay, OverlayRefused, Unpin, ResetGeometry,
     SetFollow, SetFollowMode, SetPolicy, SetEnabled, Request, compositor
<1>3. ASSUME NEW win \in Windows, NEW ws \in Workspaces, Exists(niri, ws),
             niri' = MoveTo(niri, win, {ws})
      PROVE  WorldInv'
  BY <1>0, <1>1, <1>3 DEF WorldInv, MoveTo, Open, Exists, NiriState
<1>4. CASE LoopAct \/ \E k \in Workers : Work(k)
  <2>1. PICK m \in Move : Execute(m)
    BY <1>4, ExecuteDue
  <2>2. niri' = niri \/ niri' = MoveTo(niri, m.win, {ws \in {m.ws} : Exists(niri, ws)})
    BY <2>1, ExecuteMoves
  <2>3. m.win \in Windows /\ m.ws \in Workspaces
    BY DEF Move
  <2>4. CASE ~Exists(niri, m.ws)
    <3>1. {ws \in {m.ws} : Exists(niri, ws)} = {}
      BY <2>4
    <3> QED  BY <1>1, <2>2, <3>1 DEF MoveTo
  <2>5. CASE Exists(niri, m.ws)
    <3>1. {ws \in {m.ws} : Exists(niri, ws)} = {m.ws}
      BY <2>5
    <3> QED  BY <1>1, <1>3, <2>2, <2>3, <2>5, <3>1
  <2> QED  BY <2>4, <2>5
<1>5. CASE World
  <2>1. ASSUME NEW what, NEW m, Environment(what, m)
        PROVE  niri' = m
    BY <2>1 DEF Environment, NiriBecomes
  <2>2. CASE \E ws \in Workspaces : UserFocuses(ws)
    BY <1>0, <2>1, <2>2 DEF UserFocuses, FocusOn, WorldInv, Open, Exists, NiriState
  <2>3. CASE \E ws \in Workspaces : NiriDrops(ws)
    <3>1. PICK ws \in Workspaces : NiriDrops(ws)
      BY <2>3
    <3>2. /\ niri' = [niri EXCEPT !.name[ws] = Gone] /\ niri.focus # ws
          /\ \A win \in Windows : niri.loc[win] # ws
      BY <2>1, <3>1 DEF NiriDrops
    <3>3. /\ niri'.focus = niri.focus /\ niri'.loc = niri.loc
          /\ \A u : u # ws => niri'.name[u] = niri.name[u]
      BY <1>0, <3>2 DEF NiriState
    <3> QED  BY <3>2, <3>3 DEF WorldInv, Open, Exists
  <2>4. CASE \E win \in Windows, ws \in Workspaces : UserMoves(win, ws)
    BY <1>3, <2>1, <2>4 DEF UserMoves
  <2>5. CASE \E win \in Windows : UserOpens(win) \/ UserCloses(win)
    BY <1>0, <2>1, <2>5 DEF UserOpens, UserCloses, WorldInv, Open, Exists, NiriState
  <2>6. CASE CutStream
    BY <1>1, <2>6 DEF CutStream, compositor
  <2> QED  BY <1>5, <2>2, <2>3, <2>4, <2>5, <2>6 DEF World
<1>6. CASE DebounceEnds \/ Connect \/ StreamEnded \/ \E win \in Windows : PendingExpires(win)
  BY <1>1, <1>6 DEF DebounceEnds, Connect, StreamEnded, PendingExpires, compositor
<1>7. CASE UNCHANGED vars
  BY <1>1, <1>7 DEF vars
<1> QED  BY <1>2, <1>4, <1>5, <1>6, <1>7 DEF Next

\* What a handler does to the names and the focus of the cache.
LEMMA HandlersName ==
    ASSUME TypeOK, Handle
    PROVE  /\ Head(queue) \in Events(queue) /\ Events(queue') \subseteq Events(queue)
           /\ Events(queue) \subseteq Events(queue') \cup {Head(queue)}
           /\ niri' = niri /\ link' = link
           /\ CASE Head(queue).type = "WorkspacesChanged" ->
                     cache'.name = Head(queue).names /\ cache'.focus = Head(queue).focus
                [] Head(queue).type = "WorkspaceActivated" ->
                     cache'.name = cache.name /\ cache'.focus = Head(queue).ws
                [] OTHER -> cache'.name = cache.name /\ cache'.focus = cache.focus
<1>1. /\ Head(queue) \in Events(queue) /\ Events(queue') \subseteq Events(queue)
      /\ Events(queue) \subseteq Events(queue') \cup {Head(queue)}
      /\ niri' = niri /\ link' = link
  BY HandlersHear, EventsTail DEF TypeOK
<1>2. PICK f, g, d, e : /\ f = [part |-> "names", win |-> NoWin]
                        /\ g = [part |-> "focus", win |-> NoWin] /\ d = cache' /\ e = Head(queue)
  OBVIOUS
<1>3. f \in Facets /\ f.part = "names" /\ g \in Facets /\ g.part = "focus"
  BY <1>2 DEF Facets
<1>4. /\ Part(d, f) = IF Tells(e, f) THEN Says(e, f) ELSE Part(cache, f)
      /\ Part(d, g) = IF Tells(e, g) THEN Says(e, g) ELSE Part(cache, g)
  BY <1>2, <1>3, HandlersHear
<1>5. /\ d.name = IF e.type = "WorkspacesChanged" THEN e.names ELSE cache.name
      /\ d.focus = IF e.type = "WorkspacesChanged" THEN e.focus
                   ELSE IF e.type = "WorkspaceActivated" THEN e.ws ELSE cache.focus
  BY <1>3, <1>4 DEF Part, Tells, Says
<1> QED  BY <1>1, <1>2, <1>5

LEMMA NameStep ==
    ASSUME TypeOK, StartInv, NameInv, [Next]_vars
    PROVE  NameInv'
<1>1. \A ws \in Workspaces : ~Exists(niri, ws) => ~Exists(niri', ws)
  BY WorldSteps
<1>2. ASSUME NEW e \in Events(queue'), e.type = "WorkspacesChanged",
             NEW ws \in Workspaces, e.names[ws] = Gone
      PROVE  ~Exists(niri', ws)
  <2>1. CASE e \in Events(queue)
    BY <1>1, <1>2, <2>1 DEF NameInv
  <2>2. CASE New(e, niri, niri')
    BY <1>2, <2>2 DEF New, Exists
  <2>3. CASE Connect
    <3>1. PICK g, h : g = WorkspacesEvent(niri) /\ h = WindowsEvent(niri)
      OBVIOUS
    <3>2. g.names = niri.name /\ h.type = "WindowsChanged"
      BY <3>1 DEF WorkspacesEvent, WindowsEvent
    <3>3. queue' = <<g, h>> /\ niri' = niri
      BY <2>3, <3>1 DEF Connect, Bootstrap
    <3>4. e \in {g, h}
      BY <3>3 DEF Events
    <3> QED  BY <1>2, <3>2, <3>3, <3>4 DEF Exists
  <2>4. ~Connect => e \in Events(queue) \/ New(e, niri, niri')
    <3>1. CASE Handle
      BY <3>1, HandlersName
    <3>2. CASE Next /\ ~Handle /\ ~Connect
      <4>1. CASE \E g \in Event : queue' = Append(queue, g) /\ New(g, niri, niri')
        <5>1. PICK g \in Event : queue' = Append(queue, g) /\ New(g, niri, niri')
          BY <4>1
        <5>2. e = g \/ e \in Events(queue)
          BY <5>1, EventsAppend DEF TypeOK
        <5> QED  BY <5>1, <5>2
      <4>2. CASE queue' = queue
        BY <4>2
      <4> QED  BY <3>2, <4>1, <4>2, QueueCases
    <3> QED  BY <3>1, <3>2 DEF vars
  <2> QED  BY <2>1, <2>2, <2>3, <2>4
<1>3. ASSUME cache'.focus # NoWs, NEW ws \in Workspaces, cache'.name[ws] = Gone
      PROVE  ~Exists(niri', ws)
  <2>1. CASE UNCHANGED cache
    BY <1>1, <1>3, <2>1 DEF NameInv
  <2>2. CASE Handle
    <3>1. CASE Head(queue).type = "WorkspacesChanged"
      BY <1>1, <1>3, <2>2, <3>1, HandlersName DEF NameInv
    <3>2. CASE Head(queue).type # "WorkspacesChanged"
      <4>1. cache'.name = cache.name
        BY <2>2, <3>2, HandlersName
      <4>2. cache.focus # NoWs
        <5>1. link = "on" /\ Head(queue) = queue[1]
          BY <2>2, HandlersHear DEF StartInv, TypeOK
        <5> QED  BY <3>2, <5>1 DEF StartInv
      <4> QED  BY <1>1, <1>3, <4>1, <4>2 DEF NameInv
    <3> QED  BY <3>1, <3>2
  <2> QED  BY <2>1, <2>2, QueueCases DEF Connect, vars
<1> QED  BY <1>2, <1>3 DEF NameInv

\* The timer is disarmed by the end of the debounce only.
LEMMA TimerSteps ==
    ASSUME SafeInv, [Next]_vars, timer, ~timer'
    PROVE  DebounceEnds
<1>1. timer' # timer
  OBVIOUS
<1>2. ~Client
  BY <1>1, ClientCases
<1>3. ~Handle
  BY <1>1, HandleCases
<1>4. ~World
  <2>1. \A what, n : Environment(what, n) => timer' = timer
    BY DEF Environment
  <2> QED  BY <1>1, <2>1 DEF World, UserOpens, UserCloses, UserFocuses, NiriDrops, UserMoves,
                             CutStream
<1>5. ~LoopAct /\ ~\E k \in Workers : Work(k)
  BY <1>1, ExecuteDue DEF SafeInv
<1>6. ~Connect /\ ~StreamEnded /\ (~\E win \in Windows : PendingExpires(win)) /\ ~UNCHANGED vars
  BY <1>1 DEF Connect, StreamEnded, PendingExpires, vars
<1> QED  BY <1>2, <1>3, <1>4, <1>5, <1>6 DEF Next

\* It is calm after a step only if it was calm before, or if the debounce ends.
LEMMA CalmSteps ==
    ASSUME SafeInv, StartInv, [Next]_vars, Calm'
    PROVE  \/ link = "off" /\ Connect
           \/ /\ link = "on" /\ niri'.focus = niri.focus
              /\ Calm \/ DebounceEnds
<1>0. TypeOK /\ link' = "on" /\ ~timer' /\ \A e \in Events(queue') : e.type # "WorkspaceActivated"
  BY DEF SafeInv, Calm
<1>1. CASE link = "off"
  <2>1. ~Handle
    BY <1>0, <1>1, HandlersHear
  <2> QED  BY <1>0, <1>1, <2>1, QueueCases DEF CutStream, StreamEnded, vars
<1>2. CASE link = "on"
  <2>0. ~Connect
    BY <1>2 DEF Connect
  <2>1. niri'.focus = niri.focus
    <3>1. CASE Handle
      BY <1>0, <3>1, HandlersHear
    <3>2. CASE Next /\ ~Handle
      <4>1. ASSUME NEW e \in Event, queue' = Append(queue, e), New(e, niri, niri')
            PROVE  niri'.focus = niri.focus
        <5>1. e \in Events(queue')
          BY <1>0, <4>1, EventsAppend DEF TypeOK
        <5> QED  BY <1>0, <4>1, <5>1 DEF New
      <4> QED  BY <1>0, <1>2, <2>0, <3>2, <4>1, QueueCases
    <3> QED  BY <3>1, <3>2 DEF vars
  <2>2. ASSUME ~DebounceEnds PROVE Calm
    <3>1. ~timer
      BY <1>0, <2>2, TimerSteps
    <3>2. ASSUME NEW e \in Events(queue), e.type = "WorkspaceActivated" PROVE FALSE
      <4>1. e \notin Events(queue')
        BY <1>0, <3>2
      <4>2. Handle /\ Head(queue) = e
        BY <1>0, <1>2, <4>1, EventStays
      <4> QED  BY <1>0, <3>2, <4>2, HandleCases
    <3> QED  BY <1>2, <3>1, <3>2 DEF Calm
  <2> QED  BY <1>2, <2>1, <2>2
<1> QED  BY <1>1, <1>2 DEF StartInv

LEMMA FocusStep ==
    ASSUME SafeInv, StartInv, CurrentInv, Patient, FocusInv, [Next]_vars
    PROVE  FocusInv'
<1> SUFFICES ASSUME Calm'
             PROVE  /\ cache'.focus \in {NoWs, niri'.focus}
                    /\ \A e \in Events(queue') : e.type = "WorkspacesChanged" =>
                          e.focus = niri'.focus
  BY DEF FocusInv
<1>0. TypeOK
  BY DEF SafeInv
<1>1. CASE link = "off" /\ Connect
  <2>1. PICK g, h : g = WorkspacesEvent(niri) /\ h = WindowsEvent(niri)
    OBVIOUS
  <2>2. g.focus = niri.focus /\ h.type = "WindowsChanged"
    BY <2>1 DEF WorkspacesEvent, WindowsEvent
  <2>3. queue' = <<g, h>> /\ niri' = niri /\ cache' = cache /\ cache.focus = NoWs
    BY <1>1, <2>1 DEF Connect, Bootstrap, StartInv
  <2>4. \A e \in Events(queue') : e \in {g, h}
    BY <2>3 DEF Events
  <2> QED  BY <2>2, <2>3, <2>4
<1>2. CASE link = "on" /\ niri'.focus = niri.focus /\ DebounceEnds
  <2>1. queue = <<>> /\ queue' = queue /\ cache' = cache
    BY <1>2, PatientQuiet, DebouncePlans
  <2>2. cache.focus = niri.focus
    BY <1>2, <2>1, Accord
  <2>3. Events(queue') = {}
    BY <2>1, EventsNone
  <2> QED  BY <1>2, <2>1, <2>2, <2>3
<1>3. CASE link = "on" /\ niri'.focus = niri.focus /\ Calm
  <2>1. cache'.focus \in {NoWs, niri.focus}
    <3>1. CASE Handle
      BY <1>0, <1>3, <3>1, HandlersName DEF FocusInv, Calm
    <3>2. CASE ~Handle
      <4>1. cache' = cache
        BY <1>0, <1>3, <3>2, QueueCases DEF Connect, vars
      <4> QED  BY <1>3, <4>1 DEF FocusInv
    <3> QED  BY <3>1, <3>2
  <2>2. ASSUME NEW e \in Events(queue'), e.type = "WorkspacesChanged"
        PROVE  e.focus = niri'.focus
    BY <1>0, <1>3, <2>2, QueueSources DEF FocusInv, New
  <2> QED  BY <1>3, <2>1, <2>2
<1> QED  BY <1>1, <1>2, <1>3, CalmSteps

\* The daemon stays enabled where nobody toggles it.
LEMMA EnabledStep ==
    ASSUME SafeInv, BudgetInv, Limits["toggle"] = 0, enabled, [Next]_vars
    PROVE  enabled'
<1>1. ASSUME NEW on \in BOOLEAN, SetEnabled(on)
      PROVE  FALSE
  BY <1>1 DEF SetEnabled, Request, Spend, BudgetInv, Happenings
<1>2. CASE Client
  <2>1. enabled' = enabled
    BY <1>1, <1>2 DEF Client, Pin, Overlay, OverlayRefused, Unpin, ResetGeometry, SetFollow,
                      SetFollowMode, SetPolicy
  <2> QED  BY <2>1
<1>3. CASE Handle
  BY <1>3, HandleCases
<1>4. CASE LoopAct \/ \E k \in Workers : Work(k)
  BY <1>4, ExecuteDue DEF SafeInv
<1>5. CASE World
  <2>1. \A what, n : Environment(what, n) => UNCHANGED policy
    BY DEF Environment
  <2>2. UNCHANGED policy
    BY <1>5, <2>1 DEF World, UserOpens, UserCloses, UserFocuses, NiriDrops, UserMoves, CutStream
  <2> QED  BY <2>2 DEF policy
<1>6. CASE DebounceEnds \/ Connect \/ StreamEnded \/ (\E win \in Windows : PendingExpires(win))
           \/ UNCHANGED vars
  <2>1. enabled' = enabled
    BY <1>6 DEF DebounceEnds, Connect, StreamEnded, PendingExpires, policy, vars
  <2> QED  BY <2>1
<1> QED  BY <1>2, <1>3, <1>4, <1>5, <1>6 DEF Next

\* What is due for a tracked window goes to the focus, and what has to go there is due.
Goal(x) ==
    tracked[x].mode # "none" /\ Open(niri, x) =>
        /\ \A m \in Due : m.win = x => m.ws = niri.focus
        /\ tracked[x].follow /\ (tracked[x].stay => Output[niri.loc[x]] = Output[niri.focus])
            => niri.loc[x] = niri.focus \/ [win |-> x, ws |-> niri.focus] \in Due
GoalInv == Calm => \A x \in Windows : Goal(x)

ArrivalInv ==
    /\ FollowInv /\ PendInv /\ StayInv /\ FocusInv /\ NameInv /\ WorldInv /\ GoalInv
    /\ enabled

LEMMA GoalStep ==
    ASSUME ArrivalInv, FollowInv', FocusInv', NameInv', WorldInv', Patient,
           Limits["move"] = 0, Limits["fault"] = 0, Limits["cut"] = 0, [Next]_vars,
           Calm', NEW x \in Windows, tracked'[x].mode # "none", Open(niri', x)
    PROVE  /\ \A m \in Due' : m.win = x => m.ws = niri'.focus
           /\ tracked'[x].follow /\ (tracked'[x].stay => Output[niri'.loc[x]] = Output[niri'.focus])
               => niri'.loc[x] = niri'.focus \/ [win |-> x, ws |-> niri'.focus] \in Due'
<1>0. /\ TypeOK /\ SafeInv /\ BudgetInv /\ StartInv /\ BlankInv /\ OpenedInv /\ CurrentInv
      /\ tracked[x] \in TrackedWindow /\ Untracked.mode = "none"
  BY DEF ArrivalInv, FollowInv, SafeInv, TypeOK, Untracked
<1>n. niri \in NiriState /\ niri' \in NiriState /\ NoWs \notin Workspaces
  BY NiriAssumption DEF FollowInv, SafeInv, TypeOK, ArrivalInv
<1>1. link = "on" /\ niri'.focus = niri.focus /\ (Calm \/ DebounceEnds)
  <2>1. link # "off"
    <3> SUFFICES ASSUME link = "off", Connect PROVE FALSE
      BY <1>0, CalmSteps
    <3>1. tracked' = tracked /\ tracked[x] = Untracked
      BY <1>0 DEF Connect, StartInv, Virgin
    <3> QED  BY <1>0, <3>1
  <2> QED  BY <1>0, <2>1, CalmSteps
<1>2. x \in opened /\ Open(niri, x)
  <2>1. cache'.loc[x] # NoWs
    BY DEF FollowInv, SafeInv, MapSafe
  <2>2. x \in opened
    <3>1. CASE Handle
      <4>1. opened' = opened
        BY <1>0, <3>1, HandlersHear
      <4> QED  BY <2>1, <4>1 DEF FollowInv, OpenedInv
    <3>2. CASE ~Handle
      <4>1. cache' = cache
        BY <1>0, <1>1, <3>2, QueueCases DEF Connect, vars
      <4> QED  BY <1>0, <2>1, <4>1 DEF OpenedInv
    <3> QED  BY <3>1, <3>2
  <2> QED  BY <1>0, <2>2, WorldSteps
<1>3. cache'.focus = niri'.focus /\ niri'.focus \in Workspaces
  <2>1. PICK d, n : d = cache' /\ n = niri'
    OBVIOUS
  <2>2. d.focus # NoWs
    <3> SUFFICES ASSUME d.focus = NoWs PROVE FALSE
      OBVIOUS
    <3>1. Virgin'
      BY <2>1 DEF FollowInv, StartInv
    <3>2. tracked'[x] = Untracked
      BY <3>1 DEF Virgin
    <3> QED  BY <1>0, <3>2
  <2> QED  BY <1>n, <2>1, <2>2 DEF FocusInv, NiriState
<1>4. Calm => Goal(x)
  BY DEF ArrivalInv, GoalInv
<1>5. Free(x) /\ Exists(niri, niri.focus) /\ Exists(niri, niri.loc[x]) /\ niri.loc[x] \in Workspaces
  BY <1>2, <1>n DEF ArrivalInv, StayInv, WorldInv, NiriState, Open, Place
<1>6. Found(x) => /\ \A m \in Due : m.win # x
                  /\ niri' = niri /\ cache'.loc[x] = niri.loc[x]
  <2> SUFFICES ASSUME Found(x)
               PROVE  (\A m \in Due : m.win # x) /\ niri' = niri /\ cache'.loc[x] = niri.loc[x]
    OBVIOUS
  <2>1. Head(queue) \in Events(queue) /\ niri' = niri
    BY <1>0, HandlersName DEF Found
  <2>2. PICK d : d = cache'
    OBVIOUS
  <2>3. Part(d, Loc(x)) = Says(Head(queue), Loc(x))
    BY <1>0, <2>2, HandlersHear, LocPart DEF Found
  <2>4. d.loc[x] = Says(Head(queue), Loc(x))
    BY <2>3, LocPart
  <2> QED  BY <1>2, <1>5, <2>1, <2>2, <2>4 DEF Found, Free
<1>7. ~Released(x) /\ ~Buried(x)
  <2>1. tracked'[x] # Untracked
    BY <1>0
  <2> QED  BY <1>0, <2>1 DEF Released, Buried, TypeOK
<1>8. ASSUME NEW m \in Due', m.win = x
      PROVE  m.ws = niri'.focus
  <2>1. CASE m \in Due
    <3>1. ~DebounceEnds /\ ~Client
      BY <1>0, <2>1, PatientQuiet
    <3>2. ~Found(x)
      BY <1>6, <1>8, <2>1
    <3>3. Kept(x)
      BY <1>0, <1>7, <3>1, <3>2, AttributeCases DEF Entered
    <3> QED  BY <1>1, <1>2, <1>4, <1>8, <2>1, <3>1, <3>3 DEF Kept, Goal
  <2>2. CASE Followed(m)
    BY <1>3, <2>2 DEF Followed
  <2> QED  BY <1>0, <1>7, <1>8, <2>1, <2>2, DueCases
<1>9. ASSUME tracked'[x].follow, tracked'[x].stay => Output[niri'.loc[x]] = Output[niri'.focus],
             niri'.loc[x] # niri'.focus
      PROVE  [win |-> x, ws |-> niri'.focus] \in Due'
  <2>p. ASSUME Prompt(x), cache'.loc[x] = niri'.loc[x]
        PROVE  [win |-> x, ws |-> niri'.focus] \in Due'
    <3>1. Exists(niri', niri'.loc[x]) /\ niri'.loc[x] \in Workspaces
      BY <1>n DEF WorldInv, NiriState, Open, Place
    <3>2. cache'.name[niri'.loc[x]] # Gone
      BY <1>3, <1>n, <3>1 DEF NameInv
    <3> QED  BY <1>3, <1>n, <1>9, <2>p, <3>1, <3>2 DEF Prompt
  <2>1. CASE DebounceEnds
    <3>1. Due = {} /\ queue = <<>> /\ niri' = niri /\ cache' = cache
      BY <1>0, <2>1, PatientQuiet, DebouncePlans
    <3>2. cache.loc[x] = niri.loc[x] /\ cache.name = niri.name /\ cache.focus = niri.focus
      BY <1>0, <1>1, <3>1, Accord
    <3>3. PICK d : d = cache'
      OBVIOUS
    <3>4. Plan(d, tracked, Windows)
      BY <1>0, <2>1, <3>3, DebouncePlans DEF ArrivalInv
    <3>5. /\ tracked[x].mode # "none" /\ tracked[x].follow
          /\ tracked[x].stay => tracked'[x].stay
      <4>1. /\ tracked'[x].mode = tracked[x].mode /\ tracked'[x].follow = tracked[x].follow
            /\ tracked'[x].stay = tracked[x].stay
        <5>1. \/ tracked'[x] = tracked[x]
              \/ tracked'[x] = [tracked[x] EXCEPT !.pending = d.focus]
          BY <3>4 DEF Plan, FollowNoted
        <5> QED  BY <1>0, <5>1 DEF TrackedWindow
      <4> QED  BY <1>9, <4>1
    <3>6. tracked[x].pending # niri.focus
      <4> SUFFICES ASSUME tracked[x].pending = niri.focus PROVE FALSE
        OBVIOUS
      <4>1. niri.focus \in Workspaces
        BY <1>1, <1>3
      <4>2. \/ [win |-> x, ws |-> niri.focus] \in Due
            \/ WindowChangedEvent(x, niri.focus) \in Events(queue)
        BY <1>2, <1>5, <4>1 DEF ArrivalInv, PendInv
      <4> QED  BY <3>1, <4>2, EventsNone
    <3>7. Owed(d, tracked, x)
      BY <1>1, <1>3, <1>5, <1>9, <1>n, <3>1, <3>2, <3>3, <3>5, <3>6 DEF Owed, Allowed, Exists
    <3> QED  BY <1>3, <3>3, <3>4, <3>7 DEF Plan, FollowMoves
  <2>2. CASE Kept(x) /\ Calm
    <3>1. niri'.loc[x] = niri.loc[x]
      <4> SUFFICES ASSUME niri'.loc[x] # niri.loc[x] PROVE FALSE
        OBVIOUS
      <4>1. PICK m \in Due : m.win = x /\ m.ws = niri'.loc[x]
        BY <1>0, <1>2, LocSteps
      <4> QED  BY <1>1, <1>2, <1>4, <1>9, <2>2, <4>1 DEF Kept, Goal
    <3>2. PICK m : m = [win |-> x, ws |-> niri.focus]
      OBVIOUS
    <3>3. m.win = x /\ m.ws = niri.focus
      BY <3>2
    <3>4. m \in Due
      BY <1>1, <1>2, <1>4, <1>9, <2>2, <3>1, <3>2 DEF Kept, Goal
    <3>5. CASE niri' = MoveTo(niri, m.win, {ws \in {m.ws} : Exists(niri, ws)})
      <4>1. {ws \in {m.ws} : Exists(niri, ws)} = {niri.focus}
        BY <1>5, <3>3
      <4>2. niri' = [niri EXCEPT !.loc[x] = niri.focus]
        BY <1>2, <3>3, <3>5, <4>1 DEF MoveTo
      <4>3. niri'.loc[x] = niri.focus
        BY <1>n, <4>2 DEF NiriState
      <4> QED  BY <1>1, <1>9, <4>3
    <3> QED  BY <1>0, <1>1, <3>2, <3>4, <3>5, DueStays
  <2>3. CASE Entered(x)
    <3>1. Client /\ Prompt(x)
      BY <2>3 DEF Entered
    <3>2. niri' = niri /\ cache' = cache
      BY <1>0, <3>1, ClientCases
    <3>3. cache'.loc[x] = niri'.loc[x]
      BY <1>0, <3>1, <3>2, InAccord
    <3> QED  BY <2>p, <3>1, <3>3
  <2>4. CASE Found(x)
    <3>1. Prompt(x)
      BY <2>4 DEF Found
    <3>2. cache'.loc[x] = niri'.loc[x]
      BY <1>6, <2>4
    <3> QED  BY <2>p, <3>1, <3>2
  <2> QED  BY <1>0, <1>1, <1>7, <2>1, <2>2, <2>3, <2>4, AttributeCases
<1> QED  BY <1>8, <1>9

LEMMA ArrivalStep ==
    ASSUME ArrivalInv, Patient, Limits["toggle"] = 0, Limits["move"] = 0, Limits["fault"] = 0,
           Limits["cut"] = 0, [Next]_vars
    PROVE  ArrivalInv'
<1>1. FollowInv'
  BY FollowStep DEF ArrivalInv
<1>2. PendInv' /\ StayInv'
  BY <1>1, PendStep, StayInvStep DEF ArrivalInv
<1>3. FocusInv' /\ enabled'
  BY FocusStep, EnabledStep DEF ArrivalInv, FollowInv
<1>4. NameInv' /\ WorldInv'
  BY NameStep, WorldStep DEF ArrivalInv, FollowInv, SafeInv
<1>5. ASSUME Calm', NEW x \in Windows
      PROVE  Goal(x)'
  BY <1>1, <1>3, <1>4, <1>5, GoalStep DEF Goal
<1> QED  BY <1>1, <1>2, <1>3, <1>4, <1>5 DEF ArrivalInv, GoalInv

LEMMA ArrivalInit == Init => ArrivalInv
<1> SUFFICES ASSUME Init PROVE ArrivalInv
  OBVIOUS
<1>1. FollowInv /\ PendInv /\ StayInv
  BY FollowInit, StayInit
<1>2. link = "off" /\ queue = <<>> /\ cache.focus = NoWs /\ enabled /\ niri \in InitialNiri
  BY DEF Init
<1>3. ~Calm /\ Events(queue) = {}
  BY <1>2, EventsNone DEF Calm
<1>4. WorldInv
  BY <1>2, InitialAssumption DEF WorldInv
<1> QED  BY <1>1, <1>2, <1>3, <1>4 DEF ArrivalInv, FocusInv, NameInv, GoalInv

\* The final globally focused workspace wins: once everything has settled, every
\* follower that may be there is there, whatever the order in which focus changes,
\* closes, requests and moves were heard of.
THEOREM FollowersGetThere ==
    ASSUME Patient, Limits["toggle"] = 0, Limits["move"] = 0, Limits["fault"] = 0,
           Limits["cut"] = 0
    PROVE  Spec => []FollowersArrived
<1>1. ArrivalInv => FollowersArrived
  <2> SUFFICES ASSUME ArrivalInv, Settled, NEW x \in Managed(tracked), tracked[x].follow,
                      Allowed(cache, tracked[x].stay, niri.loc[x], niri.focus)
               PROVE  niri.loc[x] = niri.focus
    BY DEF FollowersArrived
  <2>1. x \in Windows /\ tracked[x].mode # "none"
    BY DEF Managed
  <2>2. link = "on" /\ ~timer /\ queue = <<>> /\ Due = {}
    BY DEF Settled, Quiet, Due
  <2>3. Calm
    BY <2>2, EventsNone DEF Calm
  <2>4. Open(niri, x)
    <3>1. cache.loc[x] # NoWs
      BY <2>1 DEF ArrivalInv, FollowInv, SafeInv, MapSafe
    <3> QED  BY <2>1, <2>2, <3>1, Accord DEF ArrivalInv, FollowInv, Open
  <2> QED  BY <2>1, <2>2, <2>3, <2>4 DEF ArrivalInv, GoalInv, Goal, Allowed
<1>2. ArrivalInv /\ [Next]_vars => ArrivalInv'
  BY ArrivalStep
<1> QED  BY <1>1, <1>2, ArrivalInit, PTL DEF Spec
===============================================================================

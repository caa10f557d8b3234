------------------------------- MODULE Geometry -------------------------------
(***************************************************************************)
(* The geometry of one tracked window: what the engine learns, locks,      *)
(* lends to a peek and restores.                                           *)
(*                                                                         *)
(* The engine has no way to ask Niri for a layout.  It works on the last   *)
(* one that an event brought, mirrors some of its own actions into that,   *)
(* and ignores layout events for a while after it acted (the suppression   *)
(* interval), since they are most likely the echo of its own actions.      *)
(*                                                                         *)
(* The window stays on one workspace of one output, niri-pip is enabled    *)
(* and in the default mode of remembering geometry.  A size is width and   *)
(* height at once; a position is a spot, a percentage of the output as the *)
(* engine reads it.  Niri takes the percentage that the engine asks for of *)
(* its working area, which is the output without the bars: it puts the     *)
(* window at another spot, and the engine cannot tell which one.  The      *)
(* window does not leave the output, and the bars stay as they are.        *)
(* Clients are served one at a time, actions do not fail.  Following,      *)
(* hiding and focus are left to other modules.                             *)
(***************************************************************************)
EXTENDS Naturals, Sequences

CONSTANTS IsPip,          \* a detector matches the window
          Sizes,          \* the sizes the user and the clients choose from
          PeekSize, OverlaySize,
          PipSize,        \* resolve_initial_pip_size without a profile
          Spots,          \* the positions the user and the clients choose from
          Shifted,        \* where a nudge moves a window from each spot
          PeekSpot, OverlaySpot,
          PipSpot,        \* config.pip.position
          FloatSpot,      \* where Niri puts a tiled window that is to float
          OtherSpots,     \* spots that nobody chooses but windows are put at
          Placed,         \* where Niri puts a window that is to go to each spot
          RestoreLayout,  \* config.general.restore_layout_on_unpin
          Patient,        \* requests come, users act and the suppression ends
                          \* only when the last action has come back as an event
          Mishaps,        \* "restart": the daemon restarts during a peek;
                          \* "outage": the user moves a tracked window while the
                          \* stream is broken; "tile": the user tiles the window
                          \* though it is not an automatic PiP
          MaxRequests, MaxUser, MaxBreaks,   \* bounds
          InitialLayouts, \* the layouts the window may start with
          None            \* no size, no spot, no geometry

AllSizes == Sizes \cup {PeekSize, OverlaySize, PipSize}
AllSpots == Spots \cup {PeekSpot, OverlaySpot, PipSpot, FloatSpot} \cup OtherSpots
Layout   == [float : {TRUE}, size : AllSizes, pos : AllSpots]
              \cup [float : {FALSE}, size : AllSizes, pos : {None}]
Geom     == [size : AllSizes, pos : AllSpots]
Peek     == [geom : Geom, managed : AllSizes \cup {None}]

ASSUME GeometryAssumption ==
    /\ IsPip \in BOOLEAN /\ RestoreLayout \in BOOLEAN /\ Patient \in BOOLEAN
    /\ Mishaps \subseteq {"restart", "outage", "tile"}
    /\ Shifted \in [AllSpots -> AllSpots] /\ Placed \in [AllSpots -> AllSpots]
    /\ None \notin AllSizes \cup AllSpots \cup Geom \cup Layout \cup Peek
    /\ MaxRequests \in Nat /\ MaxUser \in Nat /\ MaxBreaks \in Nat
    /\ InitialLayouts \subseteq Layout

VARIABLES
    real,        \* the window's layout in Niri
    queue,       \* events not yet handled
    link,        \* the event stream
    seen,        \* engine: the cached layout of the window
    t,           \* engine: the window's entry in the tracked map
    ignored,     \* engine: the window is in ignored_until_close
    suppressed,  \* engine: now <= suppress_geometry_until
    profile,     \* engine: persistent.profiles of the detector
    controls,    \* engine: persistent.controls of the detector
    work,        \* actions of the client's request that are left to execute
    loop,        \* actions of the supervisor's event that are left to execute
    base,        \* history: the geometry that a peek or an unpin has to restore
    requests, user, breaks

bounds == <<requests, user, breaks>>
vars == <<real, queue, link, seen, t, ignored, suppressed, profile, controls,
          work, loop, base, requests, user, breaks>>

\* TrackedWindow.  The lock is the geometry the window is locked to; the peek is
\* what the window returns to; the origin is the layout before a manual pin.
Untracked == [mode |-> "none", corner |-> None, managed |-> None, lock |-> None,
              peek |-> None, origin |-> None]
Entry(modes, origins) ==
    [mode : modes, corner : AllSpots, managed : AllSizes \cup {None},
     lock : Geom \cup {None}, peek : Peek \cup {None}, origin : origins]
Tracked == {Untracked} \cup Entry({"auto"}, {None}) \cup Entry({"pin", "overlay"}, Layout)
DefaultControls == [corner |-> PipSpot, locked |-> FALSE]

Act == [do : {"float", "tile", "nudge"}, size : {None}, pos : {None}]
         \cup [do : {"size"}, size : AllSizes, pos : {None}]
         \cup [do : {"place"}, size : {None}, pos : AllSpots]
Float    == [do |-> "float", size |-> None, pos |-> None]
Tile     == [do |-> "tile", size |-> None, pos |-> None]
Size(s)  == [do |-> "size", size |-> s, pos |-> None]
Place(p) == [do |-> "place", size |-> None, pos |-> p]
Shift    == [do |-> "nudge", size |-> None, pos |-> None]

TypeOK ==
    /\ real \in Layout
    /\ queue \in Seq([type : {"layout", "changed", "snapshot"}, layout : Layout])
    /\ link \in {"off", "on"}
    /\ seen \in Layout \cup {None}
    /\ t \in Tracked
    /\ ignored \in BOOLEAN /\ suppressed \in BOOLEAN
    /\ profile \in Geom \cup {None}
    /\ controls \in [corner : AllSpots, locked : BOOLEAN]
    /\ work \in Seq(Act) /\ loop \in Seq(Act)
    /\ base \in Layout \cup {None}
    /\ requests \in Nat /\ user \in Nat /\ breaks \in Nat

-------------------------------------------------------------------------------
(* Queries of the engine *)

\* A variant that takes any layout for a geometry.
GeomOfAny(l) == [size |-> l.size, pos |-> l.pos]

\* current_geometry: where on the output the window is.  Niri tells the position of
\* floating windows only.
GeomOf(l) == IF l.pos = None THEN None ELSE [size |-> l.size, pos |-> l.pos]
GeomOr(l, spot) == [size |-> l.size, pos |-> IF l.pos = None THEN spot ELSE l.pos]

IsAuto   == t.mode = "auto"
Peeking  == t.peek # None
Locked   == t.lock # None

\* desired_size and placement_for_tracked
DesiredSize == IF t.managed = None THEN PipSize ELSE t.managed
DesiredSpot ==
    IF Peeking THEN PeekSpot
    ELSE IF Locked THEN t.lock.pos
    ELSE IF IsAuto /\ profile # None THEN profile.pos
    ELSE t.corner

FloatIf(l) == IF l.float THEN <<>> ELSE <<Float>>
Show(g)    == <<Size(g.size), Place(g.pos)>>

Quiet == queue = <<>> /\ work = <<>> /\ loop = <<>>
Settled == link = "on" /\ Quiet

Init ==
    /\ real \in InitialLayouts
    /\ \/ link = "off" /\ queue = <<>>     \* the window is there before the daemon
       \/ link = "on" /\ queue = <<[type |-> "changed", layout |-> real]>>     \* it opens
    /\ seen = None
    /\ t = Untracked
    /\ ignored = FALSE
    /\ suppressed = FALSE
    /\ profile = None
    /\ controls = DefaultControls
    /\ work = <<>> /\ loop = <<>>
    /\ base = None
    /\ requests = 0 /\ user = 0 /\ breaks = 0

-------------------------------------------------------------------------------
(* Niri *)

\* The window's layout becomes l.
LayoutBecomes(l) ==
    /\ real' = l
    /\ queue' = IF link = "off" \/ l = real THEN queue
                ELSE Append(queue, [type |-> IF l.float = real.float THEN "layout" ELSE "changed",
                                    layout |-> l])

\* A window that is tiled keeps its size and cannot be moved.  A spot that place_effect
\* asks for is counted on the working area, a nudge in pixels.
After(l, a) ==
    CASE a.do = "float" /\ ~l.float -> [l EXCEPT !.float = TRUE, !.pos = FloatSpot]
      [] a.do = "tile" /\ l.float   -> [l EXCEPT !.float = FALSE, !.pos = None]
      [] a.do = "size"              -> [l EXCEPT !.size = a.size]
      [] a.do = "place" /\ l.float  -> [l EXCEPT !.pos = Placed[a.pos]]
      [] a.do = "nudge" /\ l.float  -> [l EXCEPT !.pos = Shifted[@]]
      [] OTHER                      -> l

Work ==
    /\ work # <<>>
    /\ LayoutBecomes(After(real, Head(work)))
    /\ work' = Tail(work)
    /\ UNCHANGED <<link, seen, t, ignored, suppressed, profile, controls, loop, base, bounds>>

LoopAct ==
    /\ loop # <<>>
    /\ LayoutBecomes(After(real, Head(loop)))
    /\ loop' = Tail(loop)
    /\ UNCHANGED <<link, seen, t, ignored, suppressed, profile, controls, work, base, bounds>>

-------------------------------------------------------------------------------
(* Client requests: one engine call, then its actions *)

Request(acts) ==
    /\ requests < MaxRequests /\ requests' = requests + 1
    /\ seen # None
    /\ work = <<>> /\ work' = acts
    /\ Patient => Settled /\ ~suppressed
    /\ UNCHANGED <<real, queue, link, loop, user, breaks>>

\* A tracked window that is not peeking: ensure_not_peeking.
Governed == t.mode # "none" /\ ~Peeking

Manual(mode, corner, managed) ==
    [Untracked EXCEPT !.mode = mode, !.corner = corner, !.managed = managed, !.origin = seen]

Pin ==
    /\ t.mode = "none"
    /\ Request(FloatIf(seen))
    /\ t' = Manual("pin", PipSpot, None)
    /\ ignored' = FALSE
    /\ suppressed' = TRUE
    /\ base' = None
    /\ UNCHANGED <<seen, profile, controls>>

\* Engine::overlay: insert or change the entry, then resize and set_position.
Overlay ==
    /\ ~IsAuto /\ ~Peeking
    /\ Request(FloatIf(seen) \o <<Size(OverlaySize), Place(OverlaySpot)>>)
    /\ LET g == [size |-> OverlaySize, pos |-> OverlaySpot] IN
       t' = IF t.mode = "none" THEN Manual("overlay", OverlaySpot, OverlaySize)
            ELSE [t EXCEPT !.mode = "overlay", !.corner = OverlaySpot, !.managed = OverlaySize,
                           !.lock = IF Locked THEN g ELSE None]
    /\ seen' = [seen EXCEPT !.size = OverlaySize]
    /\ ignored' = FALSE
    /\ suppressed' = TRUE
    /\ base' = None
    /\ UNCHANGED <<profile, controls>>

\* A variant that leaves the size of a window that was tiled.
UnpinActsUnsized ==
    IF IsAuto \/ ~RestoreLayout THEN <<>>
    ELSE IF t.origin.float THEN Show(GeomOf(t.origin)) ELSE <<Tile>>

\* Engine::unpin: an automatic PiP leaves a peek and keeps its geometry; a pin or
\* an overlay returns to its origin.
UnpinActs ==
    IF IsAuto THEN IF Peeking THEN Show(t.peek.geom) ELSE <<>>
    ELSE IF ~RestoreLayout THEN <<>>
    ELSE IF t.origin.float
    THEN FloatIf(seen) \o IF GeomOf(t.origin) = None THEN <<>> ELSE Show(GeomOf(t.origin))
    ELSE <<Tile, Size(t.origin.size)>>
Unpin ==
    /\ t.mode # "none"
    /\ Request(UnpinActs)
    /\ t' = Untracked
    /\ ignored' = (ignored \/ IsAuto)
    /\ base' = IF IsAuto THEN base ELSE IF RestoreLayout THEN t.origin ELSE None
    /\ UNCHANGED <<seen, suppressed, profile, controls>>

\* Engine::set_peek
PeekBaseFromProfile == IF profile # None THEN profile ELSE GeomOr(seen, t.corner)
PeekBase == GeomOr(seen, t.corner)
PeekOn ==
    /\ t.mode # "none" /\ ~Peeking
    /\ Request(<<Size(PeekSize), Place(PeekSpot)>>)
    /\ t' = [t EXCEPT !.peek = [geom |-> PeekBase, managed |-> t.managed], !.managed = PeekSize]
    /\ seen' = [seen EXCEPT !.size = PeekSize]
    /\ suppressed' = TRUE
    /\ base' = IF real.float THEN real ELSE None
    /\ UNCHANGED <<ignored, profile, controls>>

PeekOff ==
    /\ Peeking
    /\ Request(Show(t.peek.geom))
    /\ t' = [t EXCEPT !.peek = None, !.managed = t.peek.managed]
    /\ seen' = [seen EXCEPT !.size = t.peek.geom.size]
    /\ suppressed' = TRUE
    /\ UNCHANGED <<ignored, profile, controls, base>>

\* persist_auto_size: the profile with another size.
SizedProfile(s) ==
    IF ~IsAuto THEN profile
    ELSE [size |-> s, pos |-> IF profile # None THEN profile.pos ELSE GeomOr(seen, t.corner).pos]

\* Engine::resize, of which scale is a special case.
LockKept(s) == t.lock
LockSized(s) == IF Locked THEN [t.lock EXCEPT !.size = s] ELSE None
Resize(s) ==
    /\ Governed
    /\ Request(<<Size(s)>>)
    /\ seen' = [seen EXCEPT !.size = s]
    /\ t' = [t EXCEPT !.managed = s, !.lock = LockSized(s)]
    /\ profile' = SizedProfile(s)
    /\ suppressed' = TRUE
    /\ base' = None
    /\ UNCHANGED <<ignored, controls>>

SetPosition(p) ==
    /\ Governed
    /\ Request(<<Place(p)>>)
    /\ LET g == [size |-> seen.size, pos |-> p]
       IN  /\ t' = [t EXCEPT !.corner = p, !.lock = IF Locked THEN g ELSE None]
           /\ profile' = IF IsAuto THEN g ELSE profile
    /\ controls' = IF IsAuto THEN [controls EXCEPT !.corner = p] ELSE controls
    /\ suppressed' = TRUE
    /\ base' = None
    /\ UNCHANGED <<seen, ignored>>

\* Engine::nudge: a relative move, and the geometry it should lead to.
Nudge ==
    /\ Governed
    /\ Request(<<Shift>>)
    /\ LET g == IF seen.pos = None THEN None
                ELSE [size |-> seen.size, pos |-> Shifted[seen.pos]]
       IN  /\ t' = [t EXCEPT !.lock = IF Locked /\ g # None THEN g ELSE t.lock]
           /\ profile' = IF IsAuto /\ g # None THEN g ELSE profile
    /\ suppressed' = TRUE
    /\ base' = None
    /\ UNCHANGED <<seen, ignored, controls>>

Lock ==
    /\ Governed
    /\ Request(<<>>)
    /\ t' = [t EXCEPT !.lock = GeomOr(seen, t.corner)]
    /\ profile' = IF IsAuto THEN GeomOr(seen, t.corner) ELSE profile
    /\ controls' = IF IsAuto THEN [controls EXCEPT !.locked = TRUE] ELSE controls
    /\ UNCHANGED <<seen, ignored, suppressed, base>>

Unlock ==
    /\ Governed
    /\ Request(<<>>)
    /\ t' = [t EXCEPT !.lock = None]
    /\ controls' = IF IsAuto THEN [controls EXCEPT !.locked = FALSE] ELSE controls
    /\ UNCHANGED <<seen, ignored, suppressed, profile, base>>

\* Engine::reset_geometry: an automatic PiP forgets, then resizes and moves to the
\* configured geometry; a manual one loses its lock.
ResetGeometry ==
    /\ Governed
    /\ Request(IF IsAuto THEN <<Size(PipSize), Place(PipSpot)>> ELSE <<>>)
    /\ t' = [t EXCEPT !.corner = PipSpot, !.lock = None,
                      !.managed = IF IsAuto THEN PipSize ELSE t.managed]
    /\ IF IsAuto
       THEN /\ seen' = [seen EXCEPT !.size = PipSize]
            /\ profile' = [size |-> PipSize, pos |-> PipSpot]
            /\ controls' = DefaultControls
            /\ suppressed' = TRUE
            /\ base' = None
       ELSE UNCHANGED <<seen, profile, controls, suppressed, base>>
    /\ UNCHANGED ignored

\* Engine::reset_learned_geometry: what is remembered, not what is tracked.
ResetLearned ==
    /\ Request(<<>>)
    /\ profile' = None
    /\ controls' = DefaultControls
    /\ UNCHANGED <<seen, t, ignored, suppressed, base>>

-------------------------------------------------------------------------------
(* Events *)

Receive(type) ==
    /\ queue # <<>> /\ loop = <<>>
    /\ Head(queue).type = type
    /\ queue' = Tail(queue)
    /\ UNCHANGED <<real, link, work, bounds>>

\* update_layout: the deviation from the lock.
SizeOnly(g, l) == IF l.size = g.size THEN <<>> ELSE <<Size(g.size)>>
Deviation(g, l) ==
    SizeOnly(g, l) \o IF l.pos \in {None, g.pos} THEN <<>> ELSE <<Place(g.pos)>>

\* The layouts that count: not the echo of an action, not a peek's.
CountsWhilePeeking == t.mode # "none" /\ ~suppressed
Counts == t.mode # "none" /\ ~suppressed /\ ~Peeking

LearnedSize(g) == IF profile = None THEN g ELSE [profile EXCEPT !.size = g.size]
Learned(g) == g
HandleLayout ==
    /\ Receive("layout")
    /\ LET l == Head(queue).layout
       IN  /\ seen' = l
           /\ IF Counts /\ Locked
              THEN /\ loop' = Deviation(t.lock, l)
                   /\ suppressed' = (loop' # <<>>)
                   /\ UNCHANGED <<t, profile>>
              ELSE IF Counts /\ IsAuto /\ GeomOf(l) # None
              THEN /\ profile' = Learned(GeomOf(l))
                   /\ t' = [t EXCEPT !.managed = l.size]
                   /\ UNCHANGED <<loop, suppressed>>
              ELSE UNCHANGED <<t, profile, loop, suppressed>>
    /\ UNCHANGED <<ignored, controls, base>>

\* reconcile_window: a tracked window that was tiled floats again; a plain pin is
\* not resized.
Refloat(l) ==
    IF l.float THEN UNCHANGED <<loop, suppressed>>
    ELSE /\ suppressed' = TRUE
         /\ loop' = <<Float>> \o IF t.mode = "pin" /\ ~Peeking THEN <<>>
                                 ELSE <<Size(DesiredSize), Place(DesiredSpot)>>

\* A new automatic PiP: initial_manage_auto, with the remembered or configured
\* geometry, ...
ManageAnew(l) ==
    LET size == IF profile # None THEN profile.size ELSE PipSize
        spot == IF profile # None THEN profile.pos ELSE controls.corner
    IN  /\ t' = [Untracked EXCEPT !.mode = "auto", !.corner = controls.corner, !.managed = size,
                                  !.lock = IF controls.locked THEN [size |-> size, pos |-> spot]
                                           ELSE None]
        /\ loop' = FloatIf(l) \o <<Size(size), Place(spot)>>
        /\ UNCHANGED profile

\* ... or adopt_existing_auto: the geometry the window has when the daemon finds it.
Adopt(l) ==
    /\ t' = [Untracked EXCEPT !.mode = "auto", !.corner = controls.corner, !.managed = l.size]
    /\ profile' = IF GeomOf(l) # None THEN GeomOf(l)
                  ELSE IF profile # None THEN [profile EXCEPT !.size = l.size] ELSE None
    /\ loop' = FloatIf(l)

\* classify_or_reconcile
Classify(l, adopt) ==
    IF t.mode # "none" THEN Refloat(l) /\ UNCHANGED <<t, profile, base>>
    ELSE IF IsPip /\ ~ignored
    THEN /\ IF adopt /\ ~controls.locked THEN Adopt(l) ELSE ManageAnew(l)
         /\ suppressed' = TRUE
         /\ base' = None
    ELSE UNCHANGED <<t, profile, loop, suppressed, base>>

HandleChanged ==
    /\ Receive("changed")
    /\ seen' = Head(queue).layout
    /\ Classify(seen', FALSE)
    /\ UNCHANGED <<ignored, controls>>

HandleSnapshot ==
    /\ Receive("snapshot")
    /\ seen' = Head(queue).layout
    /\ Classify(seen', TRUE)
    /\ UNCHANGED <<ignored, controls>>

SuppressionEnds ==
    /\ suppressed
    /\ Patient => Settled
    /\ suppressed' = FALSE
    /\ UNCHANGED <<real, queue, link, seen, t, ignored, profile, controls, work, loop, base,
                   bounds>>

\* An output changed: reconcile_managed_placement.
OutputsChanged ==
    /\ link = "on" /\ loop = <<>>
    /\ Patient => Settled
    /\ breaks < MaxBreaks /\ breaks' = breaks + 1
    /\ loop' = IF IsAuto \/ t.mode = "overlay" \/ Peeking THEN <<Place(DesiredSpot)>> ELSE <<>>
    /\ base' = IF Peeking \/ loop' = <<>> THEN base ELSE None
    /\ UNCHANGED <<real, queue, link, seen, t, ignored, suppressed, profile, controls, work,
                   requests, user>>

Connect ==
    /\ link = "off"
    /\ link' = "on"
    /\ queue' = <<[type |-> "snapshot", layout |-> real]>>
    /\ UNCHANGED <<real, seen, t, ignored, suppressed, profile, controls, work, loop, base,
                   bounds>>

\* The stream breaks: what was not handled is lost, the tracked map is kept.
CutStream ==
    /\ link = "on" /\ loop = <<>>
    /\ Patient => Settled
    /\ breaks < MaxBreaks /\ breaks' = breaks + 1
    /\ link' = "off"
    /\ queue' = <<>>
    /\ UNCHANGED <<real, seen, t, ignored, suppressed, profile, controls, work, loop, base,
                   requests, user>>

\* The daemon is stopped and started: only the persistent state is left.
RestartDaemon ==
    /\ Patient => Settled
    /\ Peeking => "restart" \in Mishaps
    /\ breaks < MaxBreaks /\ breaks' = breaks + 1
    /\ link' = "off"
    /\ queue' = <<>>
    /\ seen' = None
    /\ t' = Untracked
    /\ ignored' = FALSE
    /\ suppressed' = FALSE
    /\ work' = <<>> /\ loop' = <<>>
    /\ base' = None
    /\ UNCHANGED <<real, profile, controls, requests, user>>

-------------------------------------------------------------------------------
(* The user *)

UserActs(l) ==
    /\ user < MaxUser /\ user' = user + 1
    /\ Patient => Quiet /\ ~suppressed
    /\ "outage" \in Mishaps \/ link = "on" \/ t = Untracked
    /\ l # real
    /\ LayoutBecomes(l)
    /\ base' = IF Peeking THEN base ELSE None
    /\ UNCHANGED <<link, seen, t, ignored, suppressed, profile, controls, work, loop,
                   requests, breaks>>

UserDrags(p)   == real.float /\ UserActs([real EXCEPT !.pos = p])
UserResizes(s) == UserActs([real EXCEPT !.size = s])
UserTiles      == (IsAuto \/ "tile" \in Mishaps) /\ real.float /\ UserActs(After(real, Tile))

-------------------------------------------------------------------------------
Client ==
    \/ Pin \/ Overlay \/ Unpin \/ PeekOn \/ PeekOff
    \/ \E s \in Sizes : Resize(s)
    \/ \E p \in Spots : SetPosition(p)
    \/ Nudge \/ Lock \/ Unlock \/ ResetGeometry \/ ResetLearned

Daemon ==
    \/ HandleLayout \/ HandleChanged \/ HandleSnapshot \/ LoopAct
    \/ SuppressionEnds \/ OutputsChanged \/ Connect

World ==
    \/ \E p \in Spots : UserDrags(p)
    \/ \E s \in Sizes : UserResizes(s)
    \/ UserTiles \/ CutStream \/ RestartDaemon

Next == Client \/ Work \/ Daemon \/ World
Spec == Init /\ [][Next]_vars

-------------------------------------------------------------------------------
(* Properties *)

\* The spots that the engine cannot tell from p, since asking for one of them puts the
\* window at another: sets that a placed window neither leaves nor enters do not
\* separate them.  Only p itself if no bar takes space.
Unmoved == {S \in SUBSET AllSpots : \A p \in AllSpots : p \in S <=> Placed[p] \in S}
Region(p) == {q \in AllSpots : \A S \in Unmoved : p \in S <=> q \in S}

\* Layout or geometry l has the size of g, and the spot of g or what placing makes of it.
Matches(l, g) == l.size = g.size /\ Region(l.pos) = Region(g.pos)

\* What is learned is where the window is, as far as the engine can tell: when every
\* action has come back, the profile of an unlocked automatic PiP matches the window, or
\* was reset.
LearnedIsReal ==
    Settled /\ IsAuto /\ Governed /\ ~Locked /\ profile # None => Matches(real, profile)

\* Nobody else uses the size or the spot of a peek.
Bare(g) == g.size # PeekSize /\ Region(g.pos) # Region(PeekSpot)
Apart ==
    /\ PeekSize \notin Sizes \cup {OverlaySize, PipSize}
    /\ \A p \in Spots \cup {OverlaySpot, PipSpot, FloatSpot} : Region(p) # Region(PeekSpot)
    /\ \A p \in AllSpots :
          Region(p) # Region(PeekSpot) => Region(Shifted[p]) # Region(PeekSpot)
    /\ \A l \in InitialLayouts : Bare(l)

\* Peek geometry is never learned (where Apart holds, or it could not be told).
PeekNeverLearned ==
    /\ profile # None => Bare(profile)
    /\ ~Peeking => t.managed # PeekSize

\* A locked window is where it is locked, as far as the engine can tell: whoever moved,
\* resized or tiled it, and after a restart of the daemon.
LockHolds == Settled /\ ~suppressed /\ Locked /\ ~Peeking => Matches(real, t.lock)

\* Layout l after a request for the spot it has.
Landed(l) == After(l, Place(l.pos))

\* A peek that ended, and an unpin, have asked for exactly what was there before: the
\* window has its size again, floats or not as it did, and is where Niri puts a window
\* that is to go to the spot it had.
Restored == Settled /\ ~Peeking /\ base # None => real = Landed(base)
===============================================================================

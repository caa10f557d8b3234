-------------------------------- MODULE Arrival --------------------------------
(***************************************************************************)
(* A new window: is it a PiP, and has it taken the focus?                  *)
(*                                                                         *)
(* The engine classifies a window whenever Niri describes it and it is not *)
(* tracked yet, since title and app-id may come after the window does.  It *)
(* notes of every new window which one had the focus before; when a PiP    *)
(* has the focus within focus_restore_window_ms of its opening, the engine *)
(* asks Niri once to give it back.  Niri goes on meanwhile, its events     *)
(* come late, and the stream may break, the daemon restart, the            *)
(* configuration change.                                                   *)
(*                                                                         *)
(* What is done to the window itself - floating, size, place, workspace -  *)
(* is modelled by Geometry and Follow, hidden windows by Hide.             *)
(***************************************************************************)
EXTENDS Detector

CONSTANTS Windows,       \* window IDs
          NoWin,         \* no window
          Stages,        \* external: the descriptions a window goes through
          Detectors,     \* config.detectors
          Threshold,     \* config.general.detection_threshold
          Browsers,      \* the values config.browsers may take
          Beginnings,    \* external: the windows that may be open at the start
          Limits,        \* bound: how often each thing may happen
          MaxHappenings  \* bound: how many things may happen in all

Happenings == {"open", "close", "focus", "change", "late", "fault", "break", "restart",
               "config"}
Most    == 8   \* bound: how many descriptions a window goes through
Numbers == 0 .. Most

ASSUME ArrivalAssumption ==
    /\ NoWin \notin Windows /\ Families \in Browsers
    /\ Beginnings \subseteq SUBSET Windows
    /\ \A w \in Windows : Stages[w] \in Seq(Metadata) /\ Len(Stages[w]) \in 1 .. Most
    /\ Detectors \in Seq(DetectorConfig) /\ Threshold \in Int
    /\ Limits \in [Happenings -> Nat] /\ MaxHappenings \in Nat

VARIABLES
    stage,     \* Niri: how far each window is: 0 not opened yet, -1 closed
    focus,     \* Niri: the focused window
    queue,     \* events emitted and not yet handled
    link,      \* "off", "on", or "cut": broken with events left to handle
    settings,  \* config: browsers, enabled
    cache,     \* engine: windows and their descriptions, as stages
    focused,   \* engine: focused_window
    previous,  \* engine: previous_focused_window
    opened,    \* engine: candidate_opened_at: "no", "recent", "late"
    candidate, \* engine: candidate_previous_focus
    tracked,   \* engine: the detector of each tracked window
    ignored,   \* engine: ignored_until_close
    loop,      \* FocusWindow requests the supervisor has left to execute
    before,    \* history: of a PiP that took the focus as it opened, who had it
    returned,  \* history: how often the engine has given back a window's focus
    looked,    \* history: windows classified under the present settings
    texts,     \* history: the stage a tracked window was classified at
    budget, happenings   \* what is left of the bounds

engine == <<cache, focused, previous, opened, candidate, tracked, ignored>>
ghosts == <<before, returned, looked, texts>>
world  == <<budget, happenings>>
vars == <<stage, focus, queue, link, settings, cache, focused, previous, opened, candidate,
          tracked, ignored, loop, before, returned, looked, texts, budget, happenings>>

Names == {Detectors[i].name : i \in DOMAIN Detectors} \cup {"none"}
Event ==
    [type : {"changed"}, win : Windows, stage : Numbers, focused : BOOLEAN]
      \cup [type : {"closed"}, win : Windows]
      \cup [type : {"focus"}, win : Windows \cup {NoWin}]
      \cup [type : {"all"}, stages : [Windows -> Numbers], win : Windows \cup {NoWin}]

TypeOK ==
    /\ stage \in [Windows -> -1 .. Most] /\ cache \in [Windows -> Numbers]
    /\ {focus, focused, previous} \subseteq Windows \cup {NoWin}
    /\ link \in {"off", "on", "cut"}
    /\ settings \in [browsers : Browsers, enabled : BOOLEAN]
    /\ opened \in [Windows -> {"no", "recent", "late"}]
    /\ candidate \in [Windows -> Windows \cup {NoWin}]
    /\ tracked \in [Windows -> Names] /\ ignored \subseteq Windows
    /\ queue \in Seq(Event) /\ loop \in Seq(Windows)
    /\ before \in [Windows -> Windows \cup {NoWin}]
    /\ returned \in [Windows -> Nat] /\ looked \subseteq Windows
    /\ texts \in [Windows -> Numbers]

Nothing(x) == [w \in Windows |-> x]
Init ==
    /\ \E there \in Beginnings :
          /\ stage = [w \in Windows |-> IF w \in there THEN 1 ELSE 0]
          /\ focus \in IF there = {} THEN {NoWin} ELSE there
    /\ queue = <<>> /\ link = "off" /\ loop = <<>>
    /\ settings = [browsers |-> Families, enabled |-> TRUE]
    /\ cache = Nothing(0) /\ focused = NoWin /\ previous = NoWin
    /\ opened = Nothing("no") /\ candidate = Nothing(NoWin)
    /\ tracked = Nothing("none") /\ ignored = {}
    /\ before = Nothing(NoWin) /\ returned = Nothing(0) /\ looked = {}
    /\ texts = Nothing(0)
    /\ budget = Limits /\ happenings = MaxHappenings

Happens(kind) ==
    /\ budget[kind] > 0 /\ happenings > 0
    /\ budget' = [budget EXCEPT ![kind] = @ - 1]
    /\ happenings' = happenings - 1

-------------------------------------------------------------------------------
(* Niri *)

IsOpen(w) == stage[w] > 0
Emit(events) == queue' = IF link = "on" THEN queue \o events ELSE queue
Changed(w, s, isFocused) ==
    [type |-> "changed", win |-> w, stage |-> s, focused |-> isFocused]
Closed(w)  == [type |-> "closed", win |-> w]
Focused(w) == [type |-> "focus", win |-> w]

\* A window opens and takes the focus or not.  That it has the focus is said in its
\* description, and Niri may say it once more.
Opens(w) ==
    /\ stage[w] = 0
    /\ Happens("open")
    /\ stage' = [stage EXCEPT ![w] = 1]
    /\ \/ /\ focus' = w
          /\ before' = [Nothing(NoWin) EXCEPT ![w] =
                            IF \E v \in Windows : v = focus /\ cache[v] > 0 /\ opened[v] = "no"
                            THEN focus ELSE NoWin]
          /\ Emit(<<Changed(w, 1, TRUE)>>) \/ Emit(<<Changed(w, 1, TRUE), Focused(w)>>)
       \/ Emit(<<Changed(w, 1, FALSE)>>) /\ UNCHANGED <<focus, before>>
    /\ UNCHANGED <<link, settings, engine, loop, returned, looked, texts>>

\* Its title, app-id or size changes.
Changes(w) ==
    /\ IsOpen(w) /\ stage[w] < Len(Stages[w])
    /\ Happens("change")
    /\ stage' = [stage EXCEPT ![w] = @ + 1]
    /\ Emit(<<Changed(w, stage[w] + 1, focus = w)>>)
    /\ UNCHANGED <<focus, link, settings, engine, loop, ghosts>>

\* Nobody's focus is given back to a window that is closed or that the user left.
Settles(ws) == [w \in Windows |-> IF w \in ws \/ before[w] \in ws THEN NoWin ELSE before[w]]

Closes(w) ==
    /\ IsOpen(w)
    /\ Happens("close")
    /\ stage' = [stage EXCEPT ![w] = -1]
    /\ IF focus = w
       THEN \E v \in {v \in Windows : IsOpen(v)} \cup {NoWin} :
               v # w /\ focus' = v /\ Emit(<<Closed(w), Focused(v)>>)
       ELSE Emit(<<Closed(w)>>) /\ UNCHANGED focus
    /\ before' = Settles({w, focus})
    /\ UNCHANGED <<link, settings, engine, loop, returned, looked, texts>>

FocusOn(w) == focus' = w /\ Emit(IF w = focus THEN <<>> ELSE <<Focused(w)>>)

\* The user focuses a window, or none: a layer surface, the overview.
UserFocuses(w) ==
    /\ w \in ({NoWin} \cup {v \in Windows : IsOpen(v)}) \ {focus}
    /\ Happens("focus")
    /\ FocusOn(w)
    /\ before' = Nothing(NoWin)
    /\ UNCHANGED <<stage, link, settings, engine, loop, returned, looked, texts>>

-------------------------------------------------------------------------------
(* The engine *)

\* candidate_opened_at and candidate_previous_focus without the entries of ws.
Forget(ws) ==
    /\ opened' = [w \in Windows |-> IF w \in ws THEN "no" ELSE opened[w]]
    /\ candidate' = [w \in Windows |-> IF w \in ws THEN NoWin ELSE candidate[w]]

\* prune_focus_candidates, at the start of every handler.
Pruned == {w \in Windows : opened[w] = "late"}

\* focus_restore_effect, for an automatic PiP id, candidates o with c, known windows ws.
RestoreFor(id, o, c, ws) ==
    IF o[id] = "recent" /\ c[id] \in ws \ {id} THEN <<c[id]>> ELSE <<>>

\* Whether it has consumed the candidate; kept apart from what it returns.
KeptCandidate(id) == Pruned
Consumed(id) == Pruned \cup {id}

Known(c) == {w \in Windows : c[w] > 0}
Unnamed(w, s, isNew) ==
    [Detect(Detectors, settings.browsers, Threshold, Stages[w][s], isNew) EXCEPT !.name = ""]
Match(w, s, isNew) ==
    Detect(Detectors, settings.browsers, Threshold, Stages[w][s], isNew)

\* classify_or_reconcile, for windows ws that are described by c; only one new at most.
NewCandidates(ws) ==
    {w \in ws : tracked[w] = "none" /\ w \notin ignored /\ settings.enabled /\ cache[w] = 0}
Candidates(ws) == {w \in ws : tracked[w] = "none" /\ w \notin ignored /\ settings.enabled}
Classify(ws, c, isNew) ==
    LET found(w) == IF w \in Candidates(ws) THEN Match(w, c[w], isNew) ELSE NoMatch
    IN  /\ tracked' = [w \in Windows |-> IF found(w).action = "pip" THEN found(w).name
                                         ELSE IF c[w] = 0 THEN "none" ELSE tracked[w]]
        /\ ignored' = {w \in ignored : c[w] > 0}
                         \cup {w \in Windows : found(w).action = "ignore"}
        /\ texts' = [w \in Windows |-> IF found(w).action = "pip" THEN c[w] ELSE texts[w]]
        /\ looked' = (looked \cup {w \in ws : tracked[w] = "none"}) \cap Known(c)

\* Niri is asked to focus the windows of `plan`, on behalf of PiP id.
Plan(id, plan) ==
    /\ loop' = plan
    /\ returned' = IF plan = <<>> THEN returned ELSE [returned EXCEPT ![id] = @ + 1]

Receive(type) ==
    /\ link \in {"on", "cut"} /\ loop = <<>>
    /\ queue # <<>> /\ Head(queue).type = type
    /\ queue' = Tail(queue)
    /\ UNCHANGED <<stage, focus, link, settings, before, world>>

\* upsert_window; a window that is flagged as focused is focused_window, if there is one.
LastButOne(id) == previous
FocusBefore(id) == IF focused = id THEN previous ELSE focused
HandleChanged ==
    /\ Receive("changed")
    /\ LET id    == Head(queue).win
           isNew == cache[id] = 0
           o == [w \in Windows |-> IF w = id /\ isNew THEN "recent"
                                   ELSE IF w \in Pruned THEN "no" ELSE opened[w]]
           c == [w \in Windows |-> IF w = id /\ isNew THEN FocusBefore(id)
                                   ELSE IF w \in Pruned THEN NoWin ELSE candidate[w]]
       IN  /\ cache' = [cache EXCEPT ![id] = Head(queue).stage]
           /\ IF Head(queue).focused /\ focused # id
              THEN /\ previous' = IF focused # NoWin THEN focused ELSE previous
                   /\ focused' = id
              ELSE UNCHANGED <<previous, focused>>
           /\ Classify({id}, cache', isNew)
           \* initial_manage_auto: a PiP that has the focus now.
           /\ IF tracked[id] = "none" /\ tracked'[id] # "none" /\ Head(queue).focused
              THEN /\ Plan(id, RestoreFor(id, o, c, Known(cache')))
                   /\ opened' = [o EXCEPT ![id] = "no"]
                   /\ candidate' = [c EXCEPT ![id] = NoWin]
              ELSE Plan(id, <<>>) /\ opened' = o /\ candidate' = c

HandleFocus ==
    /\ Receive("focus")
    /\ LET id == Head(queue).win
           isPip == id # NoWin /\ tracked[id] # "none"
       IN  /\ IF isPip THEN Forget(Consumed(id)) ELSE Forget(Pruned)
           /\ IF isPip
              THEN Plan(id, RestoreFor(id, opened, candidate, Known(cache)))
              ELSE UNCHANGED <<loop, returned>>
           /\ previous' = IF focused \notin {id, NoWin} THEN focused ELSE previous
           /\ focused' = id
    /\ UNCHANGED <<cache, tracked, ignored, looked, texts>>

HandleClosed ==
    /\ Receive("closed")
    /\ LET id == Head(queue).win
       IN  /\ cache' = [cache EXCEPT ![id] = 0]
           /\ tracked' = [tracked EXCEPT ![id] = "none"]
           /\ ignored' = ignored \ {id}
           /\ Forget(Pruned \cup {id})
           /\ focused' = IF focused = id THEN NoWin ELSE focused
           /\ previous' = IF previous = id THEN NoWin ELSE previous
           /\ looked' = looked \ {id}
    /\ UNCHANGED <<loop, returned, texts>>

\* replace_windows: the snapshot at the start of a stream.
HandleAll ==
    /\ Receive("all")
    /\ cache' = Head(queue).stages
    /\ focused' = Head(queue).win
    /\ Forget(Pruned \cup {w \in Windows : cache'[w] = 0})
    /\ Classify(Known(cache'), cache', FALSE)
    /\ UNCHANGED <<previous, loop, returned>>

\* The supervisor executes its requests; one for a window that is gone does nothing,
\* and one that was made before a PiP opened may take the focus from it.
Execute ==
    /\ loop # <<>>
    /\ before' = IF \E v \in Windows : before[v] \notin {NoWin, Head(loop)} /\ returned[v] = 0
                 THEN Nothing(NoWin) ELSE before
    /\ IF IsOpen(Head(loop)) THEN FocusOn(Head(loop)) ELSE UNCHANGED <<focus, queue>>
    /\ loop' = Tail(loop)
    /\ UNCHANGED <<stage, link, settings, engine, returned, looked, texts, world>>

\* The request fails: it is logged, and not made again.
ExecuteFails ==
    /\ loop # <<>>
    /\ Happens("fault")
    /\ loop' = Tail(loop)
    /\ before' = Nothing(NoWin)
    /\ UNCHANGED <<stage, focus, queue, link, settings, engine, returned, looked, texts>>

\* focus_restore_window_ms have passed since the engine heard of the window.
GetsLate(w) ==
    /\ opened[w] = "recent"
    /\ Happens("late")
    /\ opened' = [opened EXCEPT ![w] = "late"]
    /\ before' = [before EXCEPT ![w] = NoWin]
    /\ UNCHANGED <<stage, focus, queue, link, settings, cache, focused, previous,
                   candidate, tracked, ignored, loop, returned, looked, texts>>

-------------------------------------------------------------------------------
(* The stream, the process, the settings *)

\* What a window did before the daemon heard of it is not given back.
Connect ==
    /\ link = "off" /\ loop = <<>>
    /\ link' = "on"
    /\ queue' = <<[type |-> "all", win |-> focus,
                   stages |-> [w \in Windows |-> IF IsOpen(w) THEN stage[w] ELSE 0]]>>
    /\ before' = Nothing(NoWin)
    /\ UNCHANGED <<stage, focus, settings, engine, loop, returned, looked, texts, world>>

Break ==
    /\ link = "on"
    /\ Happens("break")
    /\ link' = "cut"
    /\ UNCHANGED <<stage, focus, queue, settings, engine, loop, ghosts>>

StreamEnded ==
    /\ link = "cut" /\ queue = <<>> /\ loop = <<>>
    /\ link' = "off"
    /\ UNCHANGED <<stage, focus, queue, settings, engine, loop, ghosts, world>>

\* Nothing of this is persistent.
Restart ==
    /\ Happens("restart")
    /\ link' = "off" /\ queue' = <<>> /\ loop' = <<>>
    /\ cache' = Nothing(0) /\ focused' = NoWin /\ previous' = NoWin
    /\ opened' = Nothing("no") /\ candidate' = Nothing(NoWin)
    /\ tracked' = Nothing("none") /\ ignored' = {}
    /\ looked' = {} /\ before' = Nothing(NoWin)
    /\ UNCHANGED <<stage, focus, settings, returned, texts>>

\* ReloadConfig and SetEnabled: no window is looked at again before it changes.
Reload ==
    /\ Happens("config")
    /\ settings' \in [browsers : Browsers, enabled : BOOLEAN] /\ settings' # settings
    /\ looked' = {}
    /\ before' = Nothing(NoWin)
    /\ UNCHANGED <<stage, focus, queue, link, engine, loop, returned, texts>>

Handle == HandleChanged \/ HandleFocus \/ HandleClosed \/ HandleAll

Next ==
    \/ \E w \in Windows : Opens(w) \/ Changes(w) \/ Closes(w) \/ GetsLate(w)
    \/ \E w \in Windows \cup {NoWin} : UserFocuses(w)
    \/ Handle \/ Execute \/ ExecuteFails
    \/ Connect \/ Break \/ StreamEnded \/ Restart \/ Reload

Spec == Init /\ [][Next]_vars

-------------------------------------------------------------------------------
(* Properties *)

Quiet == link = "on" /\ queue = <<>> /\ loop = <<>>

\* A PiP that took the focus as it opened, and was recognised in time, has given it
\* back to the window that had it, once everything has been handled and unless the
\* user moved the focus meanwhile, that window closed or the request failed.  When the
\* window that had it was a new one that might give it back itself, nothing is claimed:
\* the second may then give it to the first, which keeps it, or lose it to the first's
\* request.
FocusComesBack ==
    Quiet => \A w \in Windows :
        (IsOpen(w) /\ tracked[w] # "none" /\ before[w] # NoWin) => focus = before[w]

\* A window is made to give the focus back once: a click on a PiP that has done so
\* is left alone.
GivenBackOnce == \A w \in Windows : returned[w] <= 1

\* Whether its description has changed in size only.
SameText(w, s, t) ==
    Stages[w][s].title = Stages[w][t].title /\ Stages[w][s].app = Stages[w][t].app

\* What ManagedLikeAfterRestart needs of the configured detectors, and the default ones
\* have: none takes points from a window for being new, and size and newness decide
\* whether a window is a PiP, but not which detector gives it its profile.
NewIsNoLoss == \A i \in DOMAIN Detectors : Detectors[i].new >= 0
TextDecides ==
    \A w \in Windows, browsers \in Browsers, isNew \in BOOLEAN :
    \A s, t \in DOMAIN Stages[w] :
       LET then == Detect(Detectors, browsers, Threshold, Stages[w][s], isNew)
           now  == Detect(Detectors, browsers, Threshold, Stages[w][t], FALSE)
       IN  then.action = "pip" /\ now.action = "pip" /\ SameText(w, t, s) => then.name = now.name

\* Every window the engine has classified under the present settings is managed if its
\* latest description asks for it, and has the profile that a restarted daemon would
\* find for it - so it gets its remembered geometry and controls again - whether its
\* description came with the window or after it.
ManagedLikeAfterRestart ==
    settings.enabled =>
      \A w \in looked \ ignored :
        LET found == Match(w, cache[w], FALSE) IN
        found.action = "pip" =>
          /\ tracked[w] # "none"
          /\ SameText(w, cache[w], texts[w]) => tracked[w] = found.name
===============================================================================

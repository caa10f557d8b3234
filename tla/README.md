# niri-pip in TLA+

niri-pip keeps picture-in-picture windows, pins and overlays in place under the
Niri compositor, and hides windows on a guarded service workspace.  This
directory holds TLA+ models of its daemon and of the transaction in which its
Settings application saves, the TLC configurations that check them, and TLAPS
proofs about them.  Paths below are relative to `src/crates/`, those of documents
to `src/`.

## 1. The system

Niri owns the windows, the workspaces and the focus.  `niripipd` reads Niri's
event stream into a cache (`Engine`), decides, and sends actions over Niri's IPC
socket.  Command-line and Settings clients send requests over a socket of the
daemon.  Every client connection is a task of its own; one more task, the
supervisor, handles the events.  All tasks share the `Engine` behind one async
mutex.  **The mutex is held for one engine call and never across an IPC action**:
a task computes a list of effects under the mutex, lets go of it, and executes the
effects one by one.  Meanwhile other tasks run, and the events of the effects come
back later, through the stream.  Much of what is hard about this program is in
that gap.  The rest is in its files: `config.toml`, `state.json`, `runtime.kdl` and
the socket outlive the processes, and more than one process touches each of them.

| component | state | operations | meets | module |
|---|---|---|---|---|
| engine: hidden windows (`niripip-core/src/engine.rs` 1125-1555) | `persistent.minimized`, names and focus of the cached workspaces | plan, commit, compensate a hide or restore; guard; clean up the name | requests, every event, reload | Hide |
| engine: tracking and follow (engine 345-488, 746-840, 1571-1801, 2105-2154) | tracked map, `ignored_until_close`, pending moves, policies | pin, overlay, unpin, toggle, follow, detect, reconcile | requests, every event, debounce tasks | Follow |
| engine: geometry (engine 490-744, 842-1048, 1803-2305) | cached layout, profile, controls, lock, peek, suppression deadline | resize, move, nudge, lock, peek, reset, learn, correct, adopt, re-float | requests, layout events, snapshots, restarts | Geometry |
| engine: focus restoration (engine 646-681) | `candidate_*`, focused window and the one before | note, consume, give back | window and focus events | Arrival |
| detector (`niripip-core/src/detector.rs`) | none | score, choose | every description of a window | Detector |
| engine: opacity and presets (engine 205-216, 2244-2281) | `pip_opacity_percent`, `runtime.kdl` | set, persist, write the rule, put back | requests, files | Settings |
| daemon: requests (`niripip-daemon/src/main.rs` 190-497) | one task per connection | plan, execute, commit or compensate, persist | engine, Niri | Hide, Follow, Geometry, Settings |
| daemon: supervisor (531-676) | stream, debounce generation, tick | connect, handle, execute, persist, reconnect, end | engine, Niri | all but StateFile |
| daemon: start, end, socket (22-188) | session key, socket path | load, normalise, save, probe, remove, bind, shut down | state file, other daemons | Lifecycle |
| persistent state (`niripip-core/src/state.rs`, main 712-721) | dirty mark, `state.json`, `state.json.tmp` | take, write, rename, load | every task | StateFile |
| Settings application (`niripip-ui/src/main.rs`) | `config.toml` | `save_settings`: read, merge, write, reload, set opacity, roll back | daemon, the user's editor | Settings |
| Niri IPC (`niripip-ipc/src/niri.rs`), Niri | a request socket, an event socket | execute, subscribe, parse | Niri | NiriCompositor |
| config, protocol, CLI | none | parse, default, check versions; send one request | engine, daemon | parts in Detector, Settings |
| scripts | files of Niri and the shell | install, integrate | nobody at run time | - |

What is hard, and what correctness means for each:

* **Hidden windows.**  A hide is up to four actions and then a commit, with
  everything possible in between: another hide of the same window, its closing, a
  failing action, a crash, a new compositor that reuses the ids.  The stack must
  name each window once, only live windows, only of this compositor; stack and
  compositor must agree once things settle; nobody may be caught on the service
  workspace.
* **Follow.**  Moves are computed from a cache that lags, by three kinds of tasks.
  Once things settle a follower must be where the focus is, and an unpinned
  window where it came from; a window the user unpinned must not be taken again.
* **Geometry.**  The daemon sees its own actions come back as events that look like
  the user's.  It must learn the user's, never a peek's, hold a lock, and give
  back what was there before a peek or a pin.  It reads positions as percentages of
  the output and asks for percentages of Niri's working area, and cannot know the
  difference between the two.
* **Arriving windows.**  Title, app-id and size come after the window, the focus event
  before or after them.  A PiP that takes the focus must give it back, once, to the
  window that had it; and a window must end up with the profile that its
  description asks for.
* **Saving settings.**  A save is a file, a reload and an opacity; the daemon's part of
  it is a state, another file and an answer.  Each step can fail, a read of the file
  too, each answer can be lost after the work was done, and other clients, and other
  saves of the page, do the same at the same time.
  File, daemon, state and rule must agree, or be put back.
* **State file.**  Saves do not wait for each other and write through one temporary
  file.  Failing operations and crashes must leave a whole file, and the newest
  state must get there.
* **Processes.**  Any number of daemons may start, look for one another, and end.
  Clients must reach one that serves, none may act on the windows of another
  Niri's session, what is hidden must not be forgotten, and the service must get
  to the Niri that runs.

`PROJECT.json` lists the hazards line by line, with the property that covers each,
or why none does.

## 2. The modules

```
NiriCompositor                                   Detector
 |      |     \                                      |
Hide  Follow  NiriProofs   Geometry   Settings    Arrival   Lifecycle   StateFile
 MC     MC        |           MC         MC          MC         MC          MC
Proofs Proofs <---+         Proofs     Proofs      Proofs     Proofs      Proofs

Hide --implements--> HiddenWindows        StateFile --implements--> AtomicFile
```

Every module with behaviours but the two abstract ones has an `MC` module with the values of its
small instances, `MC<module>_<run>.cfg` for each run, and a `<module>Proofs` with the
theorems.

* **NiriCompositor** has no variables.  It says what each action niri-pip sends does
  to Niri's windows, workspaces, names and focus, and which events a change emits.
  Niri is external: this is what the code relies on.  An empty unnamed workspace
  may be dropped.
* **Hide** models the hide/restore transaction.  A client request is a task that is
  planned (`StartHide`, `StartRestore`, `StartRestoreAll`: one engine call each),
  executes one action per step (`Act`, `ActFails`), then commits (`CommitHide`,
  `CommitRestore`), or plans a compensation and executes that (`PlanUndo`, `Undo`,
  `GiveUp`).  The supervisor handles one event at a time (`Handle...`) and executes
  what comes of it (`LoopAct`).  The Vec of minimized windows is a set of entries
  with ranks; a plan is a set of numbered actions.  Persistence is two steps:
  `TakeState` under the mutex, `Save` on a blocking thread.  Windows that are pinned,
  overlaid, unpinned or classified (`Pin`, `Unpin`) are moved to the focused workspace
  or back (`MoveTracked`), and follow the focus (`FocusDebounced`, `GuardOrFollow`),
  each as the policies may have it: hidden ones as well.  `Crash`, `Shutdown`
  (termination or the end of the socket's owner), `Restart` and `NiriRestarts` are
  actions of their own.  `minimize.enabled` is true.
* **HiddenWindows** is what clients that wait may rely on: windows leave and return one
  at a time, what counts as hidden is what is away at the moment a request succeeds, and
  a request that fails counts nothing and has its windows go back the way they came.
* **Follow** models the tracked map and workspace following.  Plans are sets of
  moves, executed in any order (the map is a HashMap); workers are the client and
  debounce tasks.  Only the newest debounce may fire.  `focus_restore_window_ms` is
  0 and nothing is hidden.
* **Geometry** models one tracked window.  A size is width and height at once, a
  position a spot: a percentage of the output, as `current_geometry` reads it (`GeomOf`).
  A spot that `place_effect` asks for is taken of the working area: Niri puts the window
  at `Placed` of it (`After`), a function that the engine does not know and that is the
  identity only where no bar takes space.  What the engine cannot tell from a spot is its
  `Region`: the spots that placing leads to from it, or from which to it.  The window
  stays on one workspace and on its output, and the bars stay as they are; niri-pip is
  enabled and remembers geometry; actions do not fail; profile and controls survive a
  restart (that they are saved is StateFile's matter).
* **Detector** is the scoring as operators: required filters, bonuses, threshold, the
  action of the winner, built-in detectors by browser.  A regular expression is the
  set of texts it matches; the 16:9 test is done in whole numbers.
* **Arrival** puts it to work.  A window goes through `Stages`, the descriptions that
  Niri has for it one after another, and every event that describes it classifies it
  while it is not tracked.  It carries the state of `restore_candidate_focus`: the
  focused window, the one before it, and for each new window who had the focus when
  it appeared and whether that was within `focus_restore_window_ms`.  The request to
  give it back may fail; it is logged and not made again.  Configuration changes,
  restarts and broken streams are there because each changes what the next
  description finds.
* **Settings** models the transaction of `save_settings` (`BeginSave`, the read for the
  way back, `Merge`, which reads again, the write, the requests, the way back, and
  `Report`, the read for the page at the end), one client of the command line, and the
  daemon's service of both: a request is sent, handled under the mutex, executed outside
  it, answered, and its answer may be lost.  Every read may fail: the first then counts
  as no file, the second as an empty document, the last ends the save with an error.
  Opacity goes through the engine, `state.json` and `runtime.kdl` in the order of the
  code, with the putting back after a failed write.  `config.toml` is missing, or the
  keys Settings owns and the rest, or text that the daemon rejects in the one or the
  other, or no UTF-8.  The page does not wait for an answer before it saves again: the
  module follows one save, and what another one does is an `Edit` (it writes the file) or
  an `Ask` (its requests).  The daemon may end and start, and speak another protocol
  version.
* **Lifecycle** models processes: the service manager's and others', each loading,
  normalising and saving the state, probing, removing and binding the socket,
  serving, following Niri, and ending in the order of `main`.  A window is hidden, and
  the file is saved, in one step.
* **StateFile** models the way to the file at the level of inodes: names refer to
  inodes, and a writer goes on writing to the inode it opened, whatever the name
  refers to by now.  `Savers` are the saves that may be under way at a time: none waits
  for another, that of main's end included.  What is in the state is a number.
  **AtomicFile** is what a
  reader of the file may rely on: it holds one of the states that were offered, and
  is replaced in one step, until two writes overlap.

Clients may send any request in any state.  What clients, the user, Niri on its
own account and failures do is limited by a budget per kind and one in all
(`Limits`, `MaxHappenings`, or counters in StateFile, Geometry and Lifecycle); these
bounds, `MaxInFlight` and `MaxMoves` (moves under way when a debounce ends) in Hide, and
the number of tasks, workers and savers are the only ones on behaviours.

## 3. The runs

Passing runs:

| run | checks | instance, and why it is enough |
|---|---|---|
| `hide_safety` | `TypeOK`, `OneEntryPerWindow`, `EntriesAreLive` | 2 windows, 3 workspaces, 2 requests at the same time, any 2 mishaps (IPC fault, cut stream, crash or termination, Niri restart, close, pin and unpin with their moves).  Two requests and one mishap between two of their steps is what each of these properties takes to break.  2.1 million states |
| `hide_settled` | `HiddenOrHome`, `NeverAstray`, `HidesAsPromised` (refinement) | 3 requests, one at a time, by clients that wait until the daemon has caught up (`ClientsWait`), a focus change and a fault.  Hide, hide, restore in any order, a compensation in any of them |
| `hide_guard` | `GuardReturns` (liveness) | 2 requests, one at a time; the user focuses and moves windows, Niri drops a workspace, the configuration is reloaded |
| `follow_safety` | `TypeOK`, `IgnoredNotTracked`, `TrackedAreOpen`, `CacheIsCurrent` | a PiP and an ordinary window, 3 workspaces on 2 outputs, 2 workers, 4 happenings of every kind, failing moves among them |
| `follow_settled` | `FollowersArrived`, `UnpinnedAtHome`, `PendingIsUnderWay`, `StaysOnOutput`, `FollowersArrive` (liveness) | 3 requests and 2 switches, each made once the former has settled (`Patient`) |
| `state_saves` | `TypeOK`, `StopKeepsState`, `ChangesAreSaved` (liveness), `WritesAreAtomic` (refinement) | 2 savers, 3 changes, a fault, 2 ends of the daemon: a change during a save, before and after it, a fault or a crash in each step; a save that begins beside another, in every order of their steps, one that begins after such an overlap, and the last save of main beside one under way |
| `geometry_calm` | `TypeOK`, `LearnedIsReal`, `PeekNeverLearned`, `LockHolds`, `Restored` | 4 requests (pin, lock, peek on, peek off is the longest story), 2 acts of the user, 2 of cut stream, restart, output change; a bar at the left, so that a window placed at `left` gets to `inner` and from there to `deep`.  0.5 million states |
| `settings_save` | `TypeOK`, `ManualPartKept`, `FailedSaveRestoresFile`, `FailedSaveRestoresDaemon`, `SavedIsInEffect`, `RuleIsPolicy` | a save and two more of: 2 failures (of a read, a write, a reload, an answer), a client's request, an edit of `config.toml` (to any content, garbled ones too), an end of the daemon; two values of each part of the configuration and three policies.  2.9 million states |
| `lifecycle` | `TypeOK`, `Reachable`, `NoStaleIds`, `HiddenKept`, `Joined` (liveness) | the service and one daemon by hand, 2 sessions of Niri, 2 ends or kills, 2 hidden windows, a broken stream or failing save: a second start during the first, and a restart under another Niri with the file of the former |
| `arrival` | `TypeOK`, `FocusComesBack`, `GivenBackOnce`, `ManagedLikeAfterRestart` | an ordinary window, a PiP whose title, app-id and size come in three stages, one that three detectors compete for; 5 happenings (a failing request is one), so that both PiPs open and are described while one more thing goes on.  1.5 million states |

What the statements of two documents become: `VERIFICATION.md:125` ("Failed settings
application rolls the file back") is `FailedSaveRestoresFile`; `README.md:124` and
`docs/configuration.md:14` (the UI writes only the fields it owns) are
`ManualPartKept`, as far as it goes; `docs/architecture.md:317-327` (no stale ids after a logout or reboot) is
`NoStaleIds`.

Runs that find a violation, each of a statement of the repository's documents:

| run | what happens |
|---|---|
| `hide_hasty` | A restore that comes before the event of the hide's own move believes the window is still at home: it moves nothing and drops the entry.  The window stays on the service workspace. |
| `state_two` | Two saves at a time share `state.json.tmp`; the one's rename publishes what the other has just truncated. |

### Where the properties stop

A property is stated for the conditions under which the code keeps it.  Each of these
conditions is needed: TLC breaks the property when it is lifted.

* `HiddenOrHome`, `NeverAstray`, `HidesAsPromised`: one request at a time, at
  most one failing action, and of the world only changes of the focus.  A second failure hits
  the compensation, which is not repeated.  With `"close"` in `Limits` the cleanup after
  an unrelated close removes the service workspace's name between a hide's naming and its
  commit, and no restore finds the workspace; `"drop"` and `"reload"` take the name away
  or change it, a `"pin"` moves windows, hidden ones too, `"cut"` hides what happens meanwhile from the cache, and a `"crash"` between
  a hide's move and the save leaves the window where no entry tells of it.  Each of these,
  added to a fault and a focus change, breaks one of the invariants within the same
  bounds.  A restart of Niri does not: it is excluded to keep to one beginning.
  Two hides at a time may choose two workspaces for the one name.
* `FollowersArrived`, `UnpinnedAtHome`: with `Patient = FALSE` and two workers a move
  planned for an earlier workspace comes last, and the cache shows the follower where
  it should be until the event arrives.  With failing moves nothing moves the window
  again until another event reconciles.
* `StopKeepsState`, `ChangesAreSaved`: not when the newest save failed (`failed`), nor when
  it began while another save was under way (`crossed`), as `persist_if_dirty` lets it
  (`niripip-daemon/src/main.rs:712-720`), the last one of main beside an aborted task's
  included (101-106): the older one may rename last, or rename the other's half-written
  file (`state_two`).  Without the `crossed` TLC finds the first: SIGTERM comes while a
  save is under way, the last save of main writes the newer state beside it, the older
  rename comes last, nothing has failed, and the daemon that is started next finds the
  old state, where `README.md:210` and `docs/configuration.md:121` have the hidden
  windows survive a restart.  What an overlap leaves lasts until the next save that
  overlaps none.
* `FileIsWhole`, `WritesAreAtomic`: as long as no two saves have overlapped
  (`overlapped`).
* `LearnedIsReal`, `LockHolds`: up to the spots that the engine cannot tell from one
  another (`Region`), since with a bar no request puts a window where it was read to be;
  a correction of a locked window does not get it to the lock either.  `Restored` says
  that the window is where a request for its former spot puts it.  Equality, which
  `README.md:25` has of a peek ("restores its exact base geometry"), holds where nothing
  takes space (`ExactWithoutBars`).  In the instance of `geometry_calm` TLC breaks it: a
  window that was dragged peeks and comes back, its place was read as a percentage of
  the output, and the same percentage of the working area is elsewhere.  A bar that
  comes or goes is not modelled.
* `geometry_calm` is about a calm world: requests come, the user acts and the
  suppression interval ends only when the last action has come back (`Patient`); the
  user does not move a tracked window while the stream is broken (`"outage"`), tiles
  only automatic PiPs (`"tile"`), and the daemon does not restart during a peek
  (`"restart"`: what the peek would return to was in memory only; the new daemon finds
  the window in its peek geometry and `adopt_existing_auto` makes that the detector's
  profile, where `README.md:235` says "Peek geometry is never learned as normal PiP
  geometry.").  `PeekNeverLearned` asks for
  `RestoreLayout` as well: without it a window that is unpinned during a peek keeps the
  peek's geometry by configuration, and a later restart adopts that; and for `Apart`:
  no request, default or first layout uses the size or the spot of the peek, nor a spot
  that bars make of that, or it could not be told which of them was learned.
* `FocusComesBack`: not for a PiP that opened while the focus was with another new
  PiP: the second gives the focus to the first (`docs/research.md:192` does not
  speak of two).  Nor when the request fails.
* `ManagedLikeAfterRestart`: for windows described since the last reload or enabling: the
  engine does not look at open windows again by itself.  A tracked window keeps the
  profile of the title and app-id it was recognised by.
* `ManualPartKept`: not when a read of the file brings no text (`misread`): a failed or
  garbled one at `niripip-ui/src/main.rs:618` replaces the file by the keys of Settings
  (where one that is UTF-8 and no TOML is refused, and `README.md:124` has manual
  configuration preserved), a failed one at 473 has the way back delete it.  `FailedSaveRestoresFile`: not after a
  failed read at 473.  Neither when somebody else, another save of the page included,
  writes the file during a save (`rash`).
* `FailedSaveRestoresFile`, `FailedSaveRestoresDaemon`: of saves that end because a write
  or a request failed.  One that fails to read the settings for the page at 500 ends with
  an error too, and nothing is put back: `SavedIsInEffect` holds of it.
* `FailedSaveRestoresDaemon`: at most one failure, nobody else interferes, and the daemon
  accepts the former file: a way back that fails itself, or puts back a file that the
  reload rejects, leaves what it leaves.  `RuleIsPolicy`: not when two requests that set
  the opacity overlap, or a preset fails after it has set it.
* `Reachable`, `HiddenKept`: not when two processes are between probe and bind, or
  between end and removal, at the same time (`crossed`), nor, for `HiddenKept`, when
  the file changes while another process is starting with what it has read, or a
  daemon is started for a Niri that is gone (`meddled`).

Symmetry is used for requests and workers, which are interchangeable, and never
in a run with a liveness property.  Every run says `CHECK_DEADLOCK FALSE`: the
system rests when the bounds are used up and nobody asks for anything.

### Fairness

The temporal properties assume what the code's scheduling gives: tokio runs a task
that can run (weak fairness of each request's next step, of handling an event, and
of the supervisor's effects); timers go off (the debounce; the supervisor's tick
of a second that persists); the supervisor reconnects after each end of the stream;
the service manager starts its daemon again a second after it ended
(`Restart=always`: weak fairness of `ServiceStart`) and each process takes its next
step; a blocking save goes on.  Two assumptions are Niri's: it answers each request
(the code has no timeout, so an answer that never comes stops the event loop for good)
and it emits the event of a change.  No fairness is assumed of clients, the user,
or failures.

## 4. What is proved

Every theorem holds for all values of the constants that satisfy the module's named
assumptions, which say only what kind of thing each constant is (and, in Follow, that
Niri starts with a focused workspace that exists, and with windows on such): for any
number of windows, workspaces, names, tasks, processes and sessions, and for all
bounds.  Where a theorem needs more, its statement says so (`ASSUME ... PROVE`), and the run of the same
property has constants that satisfy it.

| module | theorem | property |
|---|---|---|
| HideProofs | `TypeCorrect` | `TypeOK` |
| | `NoDuplicateEntries` | `OneEntryPerWindow` |
| | `NoDeadEntries` | `EntriesAreLive` |
| | `NoForeignEntries` | `EntriesOfThisSession` (in no run; Lifecycle's `NoStaleIds` is its kin) |
| | `HiddenAreParked` | `HiddenOrHome`, if `Calm` |
| | `NothingStrays` | `NeverAstray`, if `Calm` |
| | `ImplementsHiddenWindows` | `HidesAsPromised`, if `Calm`: Hide implements HiddenWindows |
| FollowProofs | `TypeCorrect` | `TypeOK` |
| | `UnpinLasts` | `IgnoredNotTracked` |
| | `NoDeadTracked` | `TrackedAreOpen` |
| | `CacheStaysCurrent` | `CacheIsCurrent` |
| | `PendingStaysUnderWay` | `PendingIsUnderWay`, without `"fault"` and `"cut"` |
| | `UnpinReturns` | `UnpinnedAtHome`, if `Patient` and `RestoreLayout`, without `"move"` and `"fault"` |
| | `StaysThere` | `StaysOnOutput`, if `Patient`, without `"move"` and `"cut"` |
| | `FollowersGetThere` | `FollowersArrived`, if `Patient`, without `"toggle"`, `"move"`, `"fault"` and `"cut"` |
| StateFileProofs | `TypeCorrect` | `TypeOK` |
| | `FileAlwaysWhole` | `FileIsWhole`, as long as not `overlapped` (`state_two` shows that it needs it), for any number of savers |
| | `AtomicWrites` | `WritesAreAtomic`, for any number of savers: StateFile implements AtomicFile |
| | `StopKeeps` | `StopKeepsState`, for any number of savers |
| | `CleanIsSaved` | `CleanMeansSaved` (in no run), for any number of savers |
| SettingsProofs | `TypeCorrect` | `TypeOK` |
| | `ManualKept` | `ManualPartKept` |
| | `SaveRollsBack` | `FailedSaveRestoresFile` |
| | `RuleFollowsPolicy` | `RuleIsPolicy` |
| | `SavedStays` | `SavedIsInEffect` |
| | `FailureRestoresDaemon` | `FailedSaveRestoresDaemon` |
| ArrivalProofs | `TypeCorrect` | `TypeOK` |
| | `DetectFindsTheBest` | what Detector's `Detect` returns, for every list of detectors |
| | `ReturnsOnce` | `GivenBackOnce` |
| | `FocusReturns` | `FocusComesBack` |
| | `ProfileIsLasting` | `ManagedLikeAfterRestart`, if `NewIsNoLoss` and `TextDecides` |
| GeometryProofs | `TypeCorrect` | `TypeOK` |
| | `CacheCatchesUp` | once all is quiet, `seen = real` (in no run; the others rest on it) |
| | `LearnsWhatIs` | `LearnedIsReal`, if `Patient`, without `"outage"` and `"tile"` |
| | `LockIsKept` | `LockHolds`, likewise |
| | `RestoresWhatWas` | `Restored`, likewise |
| | `ExactWithoutBars` | `RestoredExactly` and that what is learned and locked is where the window is, if also `Placed` is the identity (in no run) |
| | `PeekIsNotLearned` | `PeekNeverLearned`, if also `RestoreLayout`, `Apart` and `Mishaps = {}` |
| LifecycleProofs | `TypeCorrect` | `TypeOK` |
| | `NoForeignWindows` | `NoStaleIds` |
| | `ServesAtSocket` | `Reachable` |
| | `HiddenStaysRecorded` | `HiddenKept` |

**Hide.**  None of the three safety properties is inductive.  The invariant is

    IInv == TypeOK /\ DownIsEmpty /\ PlannedPushable /\ StackIsSound

* `DownIsEmpty`: a daemon that does not run has no requests, no effects and nothing
  to save; it is why a restart begins from the disk alone.
* `PlannedPushable`: what a request is about to push has an origin, and was
  planned under the compositor the daemon listens to.
* `StackIsSound`: the three properties themselves; the daemon's session is the
  compositor's while the stream is up; entries carry the session the daemon started
  with; and each state that is **on disk or still being saved** is sound: entries
  of the session it is labelled with, one per window.  The last is needed since a
  save may overlap a crash, a restart and another save, and the loaded stack is
  whatever save came last; that a stack of another session is dropped at the start
  (`LoadedStack`) closes the argument.

The proof has one lemma per action or group of actions (`CommitHideSafe`,
`RestartSafe`, ...), on top of lemmas that type what plans, compensations and Niri's
operators return (those of Niri in NiriProofs, which FollowProofs uses too).

The other four theorems assume `Calm`, which the instance of `hide_settled` satisfies:
clients wait for each other and for the daemon, one action fails at most, the user does
no more than change the focus, and Niri starts with its windows on workspaces none of which
bears the service's name.  Their invariant is `CalmInv`, stated for the state `home` that
Niri started in:

* `HomeFor(home)`: every window but those of the request under way is in place - hidden
  and on the workspace with the name, or where it was at home; at most one workspace
  bears the name, and it was vacant at home (`NamesInv`); the entries know the way back.
  Of the request under way, `TaskInv` says that whatever is not done yet is **still in
  its plan** (`Left`): a hide's naming or the name is there, a restore's move or the
  window is home, and so on for the two compensations.  An empty plan then says that
  everything is done, which is what a commit or the end of a compensation relies on.
* `BootInv`, `SnapshotInv`, `EventsInv`: before the first snapshot the daemon does nothing,
  there is one snapshot only, and no event takes away what was there at home; this
  keeps handlers from touching the stack.
* `CurrentInv`: for each thing that an event may tell of, the last event that does, or
  else the cache, says what Niri has.  A client that has waited therefore has its request
  planned from Niri's own state (`AtRest`).
* `BudgetInv`: a request that failed has used up the failure, so its compensation is
  executed in full.
* `Kept(home)`: in the middle of a plan too, each window is at home or with the name
  (`Stays`), since the plans that remove the name do so after every move (`NameLast`, for
  which a restore needs that no entry is ranked above the pushes so far).

`ImplementsHiddenWindows` maps `hidden` to the windows in the stack and `away` to those on the
service workspace.  An executed action is a `Leave`, a `Return` or a stutter (`...Carries`),
a commit is `Count` (`CommitCounted`), and nothing else changes either.

**Follow.**  `SafeInv` is type correctness and, of every tracked window, that it is in
the cache and not ignored (`MapSafe`).  It is inductive: noting moves tracks nothing,
detection looks at the ignored set, a snapshot cuts all three down at once.

`CurrentInv` says of everything that an event may tell of (the names, the focus, the
place of one window) that the last event in the queue that tells of it, or else the
cache, says what Niri has now.  It needs no condition: a new subscription tells of
everything, and each change is one event.

The properties of a settled system rest on three views of a state: the moves that are
**due** (the supervisor's and the other tasks'), the **events** in the queue, and the
entry of one window.  Lemmas say once for all actions who adds or removes a move
(`DueCases`), who adds or removes an event (`QueueCases`, `QueueSources`) and how an
entry may change (`AttributeCases`: kept, entered by a request, released, buried with
its window, found by the detector).

* `StartInv`: before the first snapshot is handled, nothing is tracked and nothing is
  due, though the focus may be known; a snapshot comes first in the queue or behind
  the first list of workspaces.  (The stream is not cut.)
* `OpenedInv`, `ClosedInv`: of a window that was never opened nothing is heard, and a
  close in the queue is the end of its window.
* `PendInv`: a pending move is due, or its event is in the queue; and a window that
  is there already has that event in the queue.  The second half is what a
  duplicate that was dropped relies on.
* `HomeInv`: there is a beginning such that a window that is not tracked is at home in
  it or has its way home due, and that of one that is tracked is its origin.
* `StayInv`: for a window that may not leave its output, cache, moves that are due and
  events agree on the output; and a window that is not tracked and has a move due
  is not told of in the queue (`Free`), or an event from before its unpin
  would have the detector take it for a follower of where it was.  It needs
  `JobsInv`: only one worker has moves, and one per window.  This is where `Patient` is
  needed.
* `GoalInv`: as long as no activation waits to be handled or to be reacted to (`Calm`),
  every move that is due for a tracked window goes to the focus, and every follower
  that may be there is there or has such a move due.  With `FocusInv` (the cache has
  Niri's focus while it is calm), `NameInv` (what is on record as gone is gone) and
  `WorldInv` (the focused workspace and those of windows exist, which
  `InitialAssumption` says of the beginning).

**StateFile.**  `Inv` says how far each save is with the temporary file (`SaveInv`), that
one that began alone has the temporary file for itself (`TmpInv`), and that a daemon that
is down has none under way (`DownInv`).  `LifeInv` adds, for any number of
savers, what a clean mark means while saves are under way (`CleanInv`) and what a
termination owes (`DueInv`): while nothing has failed or crossed since the newest state
was taken, its save is the only one, so that the step it takes next is the only one that
changes what a reader finds.  That the file is whole and replaced in one step is claimed
as long as no two saves have overlapped (`Whole`): of what comes after it is false, as
`state_two` shows, and AtomicFile promises nothing.

**Settings.**  `AskType` bounds what a request may be at each of its steps.  `ManualInv`
follows the user's keys through what the save has read and is about to write, as long
as its reads bring text; `BackInv` says that the save has kept what the file was, that the file is that before
it is written and after it is put back, and that no request of the save is under way
while it does not wait for one: an answer cannot be taken for that to another
request.  `RuleInv` says at which steps of a request the rule, the policy and the
value to put back agree, and that one request sets the opacity at a time unless the
history says otherwise.  `QuietInv` is for the two properties that follow two histories,
the save's and that of what may go wrong: as long as nobody interferes (`quiet`) the
save's request is the only one (`RequestInv`), the file is the former or the merged one
(`FileInv`), and the engine's configuration (`RunInv`) and opacity (`OpacityInv`) are the
old or the new ones, for each step of the save and each step of its request.  A
request that was carried out and whose answer was lost counts as one trouble, a failed
read is another, and two of them, or a former file that the daemon rejects (`Harmed`),
end the promise.

**Detector and Arrival.**  `Detect` is a recursive function on the numbers of the
detectors; that it finds the last of the best is proved by taking the least number for
which it would not (`NatLessThanWellFounded`).  What the engine believes is what the
queue will make it believe: `QueueInv` orders the events of one window, `KnownInv` says
what is kept of a window that is not known, and `Hears(w)` that a window will still
be known after the snapshot that waits in the queue.  With these, `OnceInv` (a window
that gave the focus back is known as long as it lives) is inductive; without them a
late description would make it a candidate again.  For `FocusComesBack` the proof follows
the PiP that owes: `FocusHeard` (the last focus event in the queue tells of the focus) and
`OweInv`, which says for each PiP that took the focus whether its first description is
still under way (`Pending`) or the engine has noted it (`Noted`).  For the profiles:
`ProfileInv` (a managed window has the profile of the description it was managed by)
and `NoneMissed` (a window whose description asks for it is managed), which hold if no
detector takes points from new windows (`NewIsNoLoss`); that a restarted daemon would
choose the same profile needs `TextDecides`: whether a window is new and how large it
is decide if it is managed, its texts as what.  Both are conditions on `config.toml`;
MCArrival asserts that the default detectors and the one it adds meet them.

**Geometry.**  Type correctness says which layouts, entries and actions exist: only a
floating window has a position, only a manual one an origin.  `CacheInv`: the last event in
the queue, or else the cache, is the window's layout, unless the cache runs ahead of a
resize under way (`optimistic` sizes).  The other three properties share the invariant

    IInv == TurnInv /\ FloatInv /\ GoalInv /\ BaseInv

in which `End` is where the actions under way lead from the present layout:

* `TurnInv`: one thing at a time - a request, the reaction to an event, an act of the
  user - and while the suppression is off only what the user did is in the queue.
  This is what `Patient` gives, and it is why an event of the daemon's own is never
  taken for the user's.
* `FloatInv`: a tracked window floats or is about to; no plan of a tracked window tiles it.
* `GoalInv`: profile, managed size and lock agree with one another (`Agreed`), the actions
  lead to them (`Reached`) unless the user has just moved the window (`Moved`), and
  what a peek returns to is what they say (`Lent`).
* `BaseInv`: after a peek or an unpin the actions lead to `Landed` of the layout before.

All four compare spots by `Region`, which placing does not change (`PlacedStays`): that is
why what the engine asks for, what it gets and what it learns from that stay together
however often they go round.  `ExactWithoutBars` follows since a region is then one spot
(`RegionIs`).

For the peek, `BareInv` says that profile, controls, lock, origin, managed size and, outside
of a peek, `End` are free of the peek's size and of the region of its spot.

**Lifecycle.**  `OwnStacks`: stacks and file hold entries of the session they are labelled
with.  `SocketInv`: one process at the socket, whoever serves is at the path, and
nobody who would clear the path coexists with one that serves.  `NotAhead` and
`Copies` (`FileInv`): who starts has what the file says, who is in charge has at
least that, and the file has all that was recorded as hidden.

**Model-checked only:** the liveness properties (`GuardReturns`, `FollowersArrive`,
`ChangesAreSaved`, `Joined`), which TLAPS's back ends do not reach.  Every invariant and
every action property of a passing run is a theorem.

## 5. What is not modelled

* Configuration parsing beyond what rejects or defaults, encoding of the protocol,
  output of the CLI, logging, and the scripts: no state that anything here depends on.
* Of the Settings application: the page, its sessions and language, shortcuts, and its
  calls of systemctl.  The page waits 140 ms after the last change, not for the answer
  to its last save (`niripip-ui/assets/app.js:426-449`), so two saves may be under way:
  Settings has what the other one does to the file and to the daemon, in whole steps;
  that they share `config.toml.ui.tmp` is what `state_two` shows of `state.json.tmp`.  A
  configuration directory that cannot be searched, so that `path.exists()` is false of a
  file that is there, is left out.
* Of the CLI: media and systemd commands.
* Migration of old state schemas; reuse of a process id by another Niri.
* A locked profile found in a snapshot, which is managed anew: Geometry has the layout
  it gets, nothing has its focus.  `ReloadConfig` sets `enabled` from the file, also
  after it was switched at run time: Settings has it, Arrival and Follow switch by
  themselves.
* Time: the suppression interval, the debounce, the pending second and the window of
  focus restoration are flags that end at any moment (or, with `Patient`, when
  nothing is under way); back-off between reconnects is left out, and so are requests
  that never get an answer.

## 6. The plan

1. Done: NiriCompositor, Hide with its runs and proofs, Follow, StateFile with its
   refinement, Geometry.
2. Done: Settings, Lifecycle, Detector and Arrival with their runs; proofs about
   Follow, StateFile, Settings and Lifecycle.
3. Done: proofs about Geometry, Detector and Arrival; the two properties of Settings that
   follow a save and its way back; the properties of a settled Follow.
4. Done: the invariants of a settled Hide, the abstract specification HiddenWindows and
   that Hide implements it when clients wait.
5. Done: saves that overlap, reads of `config.toml` that fail, bars that displace what is
   placed, the moves of pinned windows beside a hide, with the proofs that they changed.
6. Left: failing actions in Geometry; what of HiddenWindows is left when windows close
   during a request, which the code does not handle yet (see hazards).

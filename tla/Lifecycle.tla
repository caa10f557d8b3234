------------------------------ MODULE Lifecycle -------------------------------
(***************************************************************************)
(* The daemon's processes: starting, owning the socket, staying with Niri, *)
(* ending, starting again.                                                 *)
(*                                                                         *)
(* The service manager keeps one daemon running (Restart=always); a user   *)
(* may start more by hand, from a shell whose NIRI_SOCKET may be that of a *)
(* Niri that is gone.  A process loads state.json, clears the hidden       *)
(* windows in it when they are of another Niri session, saves it, looks    *)
(* whether a daemon answers on the socket, removes a socket nobody answers *)
(* on, binds, and serves, with a supervisor that follows Niri's events and *)
(* ends the process when its Niri is gone.                                 *)
(*                                                                         *)
(* A save of state.json is one step here (StateFile models it), a window   *)
(* is hidden in one step (Hide models it), and how long the supervisor     *)
(* waits between two attempts is left out.                                 *)
(***************************************************************************)
EXTENDS Naturals

CONSTANTS Service,       \* the process of the service manager
          Manual,        \* the processes users start
          Windows,       \* window IDs, the same in every session of Niri
          MaxSessions,   \* bound: how often Niri starts
          MaxEnds,       \* bound: how many processes are terminated or killed
          MaxStarts,     \* bound: how often users start a daemon
          MaxHides,      \* bound: how many windows are hidden
          MaxFaults      \* bound: streams that break and saves that fail

Procs == {Service} \cup Manual
Sessions == 1 .. MaxSessions
Entries == [session : Sessions, id : Windows]
None  == "none"
Stale == "stale"

ASSUME LifecycleAssumption ==
    /\ Service \notin Manual
    /\ None \notin Procs /\ Stale \notin Procs
    /\ MaxSessions \in Nat \ {0}
    /\ {MaxEnds, MaxStarts, MaxHides, MaxFaults} \subseteq Nat

VARIABLES
    niri,      \* the session of the newest Niri, and whether it runs
    proc,      \* the processes
    path,      \* whose socket is at the path, if any; Stale: that of a dead process
    disk,      \* state.json
    hidden,    \* history: what the newest Niri has hidden and the file has held
    crossed,   \* history: two processes were at the socket at the same time
    meddled,   \* history: the file changed while a process was starting with an
               \* older copy of it, or one started for a Niri that is gone rewrote it
    ends, starts, hides, faults   \* what is left of the bounds

bounds == <<ends, starts, hides, faults>>
vars == <<niri, proc, path, disk, hidden, crossed, meddled, ends, starts, hides, faults>>

Unset == [pc |-> "off", session |-> 0, stack |-> {}, dirty |-> FALSE, connected |-> FALSE]
Off == [pc |-> "off", session |-> 1, stack |-> {}, dirty |-> FALSE, connected |-> FALSE]

TypeOK ==
    /\ niri \in [session : Sessions, up : BOOLEAN]
    /\ proc \in [Procs -> [pc : {"off", "loaded", "probe", "unlink", "bind", "serving",
                                 "persist", "remove"},
                           session : Sessions, stack : SUBSET Entries,
                           dirty : BOOLEAN, connected : BOOLEAN]]
    /\ path \in Procs \cup {None, Stale}
    /\ disk \in [session : Sessions, stack : SUBSET Entries]
    /\ hidden \subseteq Entries
    /\ {crossed, meddled} \subseteq BOOLEAN
    /\ {ends, starts, hides, faults} \subseteq Nat

Init ==
    /\ niri = [session |-> 1, up |-> TRUE]
    /\ proc = [p \in Procs |-> Off]
    /\ path = None
    /\ disk = [session |-> 1, stack |-> {}]
    /\ hidden = {}
    /\ crossed = FALSE /\ meddled = FALSE
    /\ ends = MaxEnds /\ starts = MaxStarts /\ hides = MaxHides /\ faults = MaxFaults

\* A process that has read the state, one that does not serve yet, and one that may
\* touch the socket.
Live(p)     == proc[p].pc # "off"
Starting(p) == proc[p].pc \in {"loaded", "probe", "unlink", "bind"}
AtSocket(p) == proc[p].pc \in {"probe", "unlink", "bind", "persist", "remove"}

\* niri_socket_owner_is_present: the path is scoped to Niri's process ID.
AnyNiri(p) == niri.up
OwnerPresent(p) == niri.up /\ proc[p].session = niri.session

\* Step p to pc; note when this brings two processes to the socket.
Goto(p, pc) ==
    /\ proc' = [proc EXCEPT ![p].pc = pc]
    /\ crossed' = (crossed \/ (pc \in {"probe", "persist"}
                                 /\ \E q \in Procs \ {p} : AtSocket(q)))

\* The process ends; a socket of its own that it leaves behind is stale.
Ended(p) ==
    /\ proc' = [proc EXCEPT ![p] = Off]
    /\ path' = IF path = p THEN Stale ELSE path

-------------------------------------------------------------------------------
(* main: starting *)

\* normalize_persistent_niri_session
KeyOnly(state, session) == [state EXCEPT !.session = session]
AlwaysCleared(state, session) == [session |-> session, stack |-> {}]
Normalised(state, session) ==
    IF state.session = session THEN state ELSE [session |-> session, stack |-> {}]

\* The state is loaded and normalised.  The service gets the NIRI_SOCKET of the
\* newest Niri from the service manager, a user has that of some Niri.
Load(p, session) ==
    /\ proc[p].pc = "off"
    /\ LET state == Normalised(disk, session)
       IN  proc' = [proc EXCEPT ![p] = [Off EXCEPT !.pc = "loaded", !.session = session,
                                                   !.stack = state.stack]]
    /\ UNCHANGED <<niri, path, disk, hidden, crossed, meddled, ends, hides, faults>>

ServiceStart == Load(Service, niri.session) /\ UNCHANGED starts

UserStart ==
    /\ starts > 0 /\ starts' = starts - 1
    /\ \E p \in Manual, s \in 1 .. niri.session : Load(p, s)

\* The normalised state is saved, before the process knows whether it is the only one.
StartSave(p) ==
    /\ proc[p].pc = "loaded"
    /\ disk' = [session |-> proc[p].session, stack |-> proc[p].stack]
    /\ meddled' = (meddled \/ (disk' # disk /\ (\/ proc[p].session # niri.session
                                                 \/ \E q \in Procs \ {p} : Live(q))))
    /\ Goto(p, "probe")
    /\ UNCHANGED <<niri, path, hidden, bounds>>

\* bind_daemon_socket: if something is at the path, try to connect to it.
NobodyAsked == FALSE
Answered == path \in Procs /\ proc[path].pc = "serving"
Probe(p) ==
    /\ proc[p].pc = "probe"
    /\ \/ Answered /\ Ended(p) /\ UNCHANGED crossed
       \/ path # None /\ ~Answered /\ Goto(p, "unlink") /\ UNCHANGED path
       \/ path = None /\ Goto(p, "bind") /\ UNCHANGED path
    /\ UNCHANGED <<niri, disk, hidden, meddled, bounds>>

\* bind_daemon_socket: fs::remove_file, which fails if nothing is there any more.
Unlink(p) ==
    /\ proc[p].pc = "unlink"
    /\ IF path = None THEN Ended(p) /\ UNCHANGED crossed
       ELSE path' = None /\ Goto(p, "bind")
    /\ UNCHANGED <<niri, disk, hidden, meddled, bounds>>

\* bind_daemon_socket: bind, which fails if something is there again.
Bind(p) ==
    /\ proc[p].pc = "bind"
    /\ IF path # None THEN Ended(p) /\ UNCHANGED crossed
       ELSE path' = p /\ Goto(p, "serving")
    /\ UNCHANGED <<niri, disk, hidden, meddled, bounds>>

-------------------------------------------------------------------------------
(* Serving *)

\* run_niri_connection: the streams of Niri are there.
Connect(p) ==
    /\ proc[p].pc = "serving" /\ ~proc[p].connected
    /\ OwnerPresent(p)
    /\ proc' = [proc EXCEPT ![p].connected = TRUE]
    /\ UNCHANGED <<niri, path, disk, hidden, crossed, meddled, bounds>>

\* run_niri_connection, run_niri_supervisor: the stream ends, with Niri or by itself;
\* the state is saved, and the engine hears of it.
Saved(p) ==
    /\ meddled' = (meddled \/ (proc[p].dirty /\ \E q \in Procs : Starting(q)))
    /\ disk' = IF proc[p].dirty THEN [session |-> proc[p].session, stack |-> proc[p].stack]
               ELSE disk
    /\ hidden' = hidden \cup {e \in disk'.stack : e.session = niri.session}
Disconnected(p) ==
    /\ proc[p].pc = "serving" /\ proc[p].connected
    /\ proc' = [proc EXCEPT ![p].connected = FALSE, ![p].dirty = FALSE]
    /\ Saved(p)
    /\ UNCHANGED <<niri, path, crossed, ends, starts, hides>>
StreamEnds(p)   == ~OwnerPresent(p) /\ Disconnected(p) /\ UNCHANGED faults
StreamBreaks(p) == OwnerPresent(p) /\ Disconnected(p) /\ faults > 0 /\ faults' = faults - 1

\* A request hides a window; requests are carried out until the runtime ends, also
\* those that main has not waited for.
HideWindow(p) ==
    /\ proc[p].pc \in {"serving", "persist", "remove"}
    /\ OwnerPresent(p)
    /\ hides > 0 /\ hides' = hides - 1
    /\ \E w \in Windows :
          LET entry == [session |-> niri.session, id |-> w]
          IN  /\ entry \notin proc[p].stack
              /\ proc' = [proc EXCEPT ![p].stack = @ \cup {entry}, ![p].dirty = TRUE]
    /\ UNCHANGED <<niri, path, disk, hidden, crossed, meddled, ends, starts, faults>>

\* persist_if_dirty; a save that fails is logged.
Persist(p) ==
    /\ proc[p].pc \in {"serving", "persist", "remove"} /\ proc[p].dirty
    /\ proc' = [proc EXCEPT ![p].dirty = FALSE]
    /\ \/ Saved(p) /\ UNCHANGED faults
       \/ faults > 0 /\ faults' = faults - 1 /\ UNCHANGED <<disk, hidden, meddled>>
    /\ UNCHANGED <<niri, path, crossed, ends, starts, hides>>

-------------------------------------------------------------------------------
(* main: ending *)

\* The supervisor finds Niri gone, or a signal arrives, or accept fails: the tasks are
\* aborted, and nobody listens any more.
Notice(p) ==
    /\ proc[p].pc = "serving" /\ ~proc[p].connected
    /\ ~OwnerPresent(p)
    /\ Goto(p, "persist")
    /\ UNCHANGED <<niri, path, disk, hidden, meddled, bounds>>

Terminate(p) ==
    /\ proc[p].pc = "serving"
    /\ ends > 0 /\ ends' = ends - 1
    /\ Goto(p, "persist")
    /\ UNCHANGED <<niri, path, disk, hidden, meddled, starts, hides, faults>>

LastPersist(p) ==
    /\ proc[p].pc = "persist"
    /\ proc' = [proc EXCEPT ![p].pc = "remove", ![p].dirty = FALSE]
    /\ Saved(p)
    /\ UNCHANGED <<niri, path, crossed, bounds>>

\* Whatever is at the path is removed.
Remove(p) ==
    /\ proc[p].pc = "remove"
    /\ path' = None
    /\ proc' = [proc EXCEPT ![p] = Off]
    /\ UNCHANGED <<niri, disk, hidden, crossed, meddled, bounds>>

Kill(p) ==
    /\ Live(p)
    /\ ends > 0 /\ ends' = ends - 1
    /\ Ended(p)
    /\ UNCHANGED <<niri, disk, hidden, crossed, meddled, starts, hides, faults>>

-------------------------------------------------------------------------------
(* Niri *)

NiriEnds ==
    /\ niri.up
    /\ niri' = [niri EXCEPT !.up = FALSE]
    /\ UNCHANGED <<proc, path, disk, hidden, crossed, meddled, bounds>>

NiriStarts ==
    /\ ~niri.up /\ niri.session < MaxSessions
    /\ niri' = [session |-> niri.session + 1, up |-> TRUE]
    /\ hidden' = {}
    /\ UNCHANGED <<proc, path, disk, crossed, meddled, bounds>>

Run(p) ==
    \/ StartSave(p) \/ Probe(p) \/ Unlink(p) \/ Bind(p)
    \/ Connect(p) \/ StreamEnds(p) \/ Notice(p)
    \/ LastPersist(p) \/ Remove(p)

Next ==
    \/ ServiceStart \/ UserStart
    \/ \E p \in Procs : \/ Run(p) \/ StreamBreaks(p) \/ HideWindow(p) \/ Persist(p)
                        \/ Terminate(p) \/ Kill(p)
    \/ NiriEnds \/ NiriStarts

Spec == Init /\ [][Next]_vars

\* The service manager starts its daemon again a second after it ended, and the
\* processes run.  Nobody has to start Niri again or to send signals.
Fairness ==
    /\ WF_vars(ServiceStart)
    /\ \A p \in Procs : WF_vars(Run(p))

FairSpec == Spec /\ Fairness

-------------------------------------------------------------------------------
(* Properties *)

\* A daemon that serves is the one at the socket, so clients reach it and no second
\* one serves: whoever starts, fails to start, ends or is killed meanwhile, unless
\* two were starting or ending at the same time.
Reachable ==
    crossed \/ \A p \in Procs : proc[p].pc = "serving" => path = p

\* No engine takes a window of another session of Niri, where the same ID is another
\* window, for one it has hidden, whichever daemons have written the file.
NoStaleIds ==
    \A p \in Procs : \A e \in proc[p].stack : e.session = proc[p].session

\* Windows once recorded as hidden stay recorded as long as Niri runs: every daemon
\* of this Niri has them, after any number of restarts, crashes and second starts,
\* unless two were at the socket at the same time, or the file changed while one was
\* starting with what it had read before, or one was started from a shell that still
\* had the NIRI_SOCKET of an older Niri.
HiddenKept ==
    ~meddled /\ ~crossed =>
      \A p \in Procs :
         proc[p].pc = "serving" /\ OwnerPresent(p) => hidden \subseteq proc[p].stack

\* If Niri stays, some daemon is with it in the end and stays with it: one of an
\* older Niri leaves, and the service, which cannot start while another one serves,
\* is started until it can.
Joined ==
    <>[](niri.up) =>
      <>[](\E p \in Procs : proc[p].connected /\ proc[p].session = niri.session)
===============================================================================

------------------------------- MODULE StateFile -------------------------------
(***************************************************************************)
(* How the engine's persistent state gets to state.json and back.          *)
(*                                                                         *)
(* A change marks the state dirty.  After every request, on every tick of  *)
(* the supervisor and once more when main ends, persist_if_dirty takes the *)
(* state and clears the mark under the engine's mutex, and then writes it  *)
(* on a blocking thread, the mutex released: create state.json.tmp, write, *)
(* sync, rename.  It does not wait for a save that is under way: several   *)
(* saves overlap, share the one name of the temporary file, and end in any *)
(* order.  write_runtime_kdl (under the runtime rules' name) and the       *)
(* settings window's write_atomic replace their files in the same way.     *)
(*                                                                         *)
(* A file is a name that refers to an inode; a writer that has opened the  *)
(* inode goes on writing to it whatever the name refers to meanwhile.      *)
(***************************************************************************)
EXTENDS Naturals, FiniteSets

CONSTANTS Savers,       \* bound: saves that are under way at a time
          MaxChanges,   \* bound: changes of the state
          MaxFaults,    \* bound: file operations that fail
          MaxEnds,      \* bound: ends of the daemon, of either kind
          NoFile,       \* a name that refers to nothing
          Empty, Torn   \* contents that do not parse

ASSUME StateFileAssumption ==
    /\ IsFiniteSet(Savers) /\ Savers # {}
    /\ NoFile \notin Nat /\ Empty \notin Nat /\ Torn \notin Nat
    /\ NoFile \notin {Empty, Torn}
    /\ MaxChanges \in Nat /\ MaxFaults \in Nat /\ MaxEnds \in Nat

VARIABLES
    daemon,    \* the life of the process
    value,     \* engine: persistent
    dirty,     \* engine: persistent_dirty
    changes,   \* how many different states there were
    saver,     \* the saves under way
    path,      \* the inode of state.json
    tmp,       \* the inode of state.json.tmp
    data,      \* what each inode holds
    failed,    \* history: the save of the newest state that was taken failed
    crossed,   \* history: when it was taken, another save was under way
    overlapped,  \* history: that was so of some save
    offered,   \* history: the states that were taken to be saved
    due,       \* history: the state of the engine when main began to end
    faults, ends

files  == <<path, tmp, data>>
history == <<failed, crossed, overlapped, offered>>
bounds == <<faults, ends>>
vars == <<daemon, value, dirty, changes, saver, path, tmp, data, failed, crossed,
          overlapped, offered, due, faults, ends>>

Values == 0 .. MaxChanges        \* 0 is PersistentState::default()
Broken == {Empty, Torn}
\* One inode for each save under way, one for each name.
Inodes == 1 .. Cardinality(Savers) + 2
Idle == [pc |-> "idle", value |-> 0, fd |-> NoFile]

TypeOK ==
    /\ daemon \in {"down", "starting", "up", "stopping"}
    /\ value \in Values /\ changes \in Values
    /\ dirty \in BOOLEAN
    /\ failed \in BOOLEAN /\ crossed \in BOOLEAN /\ overlapped \in BOOLEAN
    /\ saver \in [Savers -> [pc : {"idle", "taken", "created", "written"},
                             value : Values, fd : Inodes \cup {NoFile}]]
    /\ path \in Inodes \cup {NoFile} /\ tmp \in Inodes \cup {NoFile}
    /\ data \in [Inodes -> Values \cup Broken]
    /\ offered \subseteq Values
    /\ due \in Values
    /\ faults \in 0 .. MaxFaults /\ ends \in 0 .. MaxEnds

Resting == \A k \in Savers : saver[k] = Idle

\* What a reader of state.json finds.
Found == IF path = NoFile THEN NoFile ELSE data[path]

Init ==
    /\ daemon = "down"
    /\ value = 0 /\ changes = 0
    /\ dirty = FALSE
    /\ saver = [k \in Savers |-> Idle]
    /\ path = NoFile /\ tmp = NoFile
    /\ data = [i \in Inodes |-> Empty]
    /\ failed = FALSE /\ crossed = FALSE /\ overlapped = FALSE
    /\ offered = {}
    /\ due = 0
    /\ faults = 0 /\ ends = 0

-------------------------------------------------------------------------------
(* A save *)

\* Save k has the state v to write.
Takes(k, v) ==
    /\ saver[k] = Idle
    /\ saver' = [saver EXCEPT ![k] = [Idle EXCEPT !.pc = "taken", !.value = v]]
    /\ offered' = offered \cup {v}
    /\ failed' = FALSE /\ crossed' = ~Resting
    /\ overlapped' = (overlapped \/ ~Resting)

\* take_persistent_if_dirty, by any task, whatever saves are under way.
TakeState(k) ==
    /\ daemon \in {"up", "stopping"}
    /\ dirty
    /\ Takes(k, value)
    /\ dirty' = FALSE
    /\ UNCHANGED <<daemon, value, changes, files, due, bounds>>

Unused == {i \in Inodes : i \notin {path, tmp} /\ \A k \in Savers : saver[k].fd # i}

\* File::create: the file under the temporary name is emptied, or there is a new one.
CreateTmp(k) ==
    /\ saver[k].pc = "taken"
    /\ LET i == IF tmp # NoFile THEN tmp ELSE CHOOSE j \in Unused : TRUE
       IN  /\ tmp' = i
           /\ data' = [data EXCEPT ![i] = Empty]
           /\ saver' = [saver EXCEPT ![k].pc = "created", ![k].fd = i]
    /\ UNCHANGED <<daemon, value, dirty, changes, path, history, due, bounds>>

\* write_all and sync_all: over what another save has written to the same inode,
\* a shorter text leaves the end of the longer one.
WriteTmp(k) ==
    /\ saver[k].pc = "created"
    /\ LET i == saver[k].fd
       IN  data' \in {[data EXCEPT ![i] = c] :
                        c \in {saver[k].value} \cup
                              (IF data[i] \in {Empty, saver[k].value} THEN {} ELSE {Torn})}
    /\ saver' = [saver EXCEPT ![k].pc = "written"]
    /\ UNCHANGED <<daemon, value, dirty, changes, path, tmp, history, due, bounds>>

\* A save is over; the one of main's start decides whether the daemon comes up.
Over(k, outcome) ==
    /\ saver' = [saver EXCEPT ![k] = Idle]
    /\ daemon' = IF daemon = "starting" THEN outcome ELSE daemon

\* fs::rename; it fails when another save has renamed the file away.
ReadyAnyTime == {"created", "written"}
ReadyToRename == {"written"}
MarkClearedTwice == FALSE
MarkAfterSave == dirty
RenameTmp(k) ==
    /\ saver[k].pc \in ReadyToRename
    /\ IF tmp # NoFile
       THEN /\ path' = tmp /\ tmp' = NoFile
            /\ Over(k, "up")
            /\ UNCHANGED failed
       ELSE /\ UNCHANGED <<path, tmp>>
            /\ Over(k, "down")
            /\ failed' = TRUE
    /\ dirty' = MarkAfterSave
    /\ UNCHANGED <<value, changes, data, crossed, overlapped, offered, due, bounds>>

\* An operation fails: no space, no permission.  The write may have got through
\* in part.  The error is logged and the state is not marked dirty again.
SaveFails(k) ==
    /\ saver[k].pc # "idle"
    /\ faults < MaxFaults /\ faults' = faults + 1
    /\ data' \in {data} \cup
                 (IF saver[k].pc = "created"
                  THEN {[data EXCEPT ![saver[k].fd] = Torn]} ELSE {})
    /\ Over(k, "down")
    /\ failed' = TRUE
    /\ UNCHANGED <<value, dirty, changes, path, tmp, crossed, overlapped, offered, due, ends>>

-------------------------------------------------------------------------------
(* The engine and the process *)

\* mark_persistent_dirty
Change ==
    /\ daemon \in {"up", "stopping"}
    /\ changes < MaxChanges
    /\ changes' = changes + 1
    /\ value' = changes'
    /\ dirty' = TRUE
    /\ UNCHANGED <<daemon, saver, files, history, due, bounds>>

\* main: PersistentState::load, a missing file is the default state.  A file that
\* does not parse ends main, now and on every later start.  What was loaded and
\* normalised is saved before anything else.
LoadedAsIs == Found
Loaded == IF Found = NoFile THEN 0 ELSE Found
Start ==
    /\ daemon = "down"
    /\ Found \notin Broken
    /\ daemon' = "starting"
    /\ value' = Loaded
    /\ dirty' = FALSE
    /\ \E k \in Savers : Takes(k, value')
    /\ UNCHANGED <<changes, files, due, bounds>>

\* SIGTERM, or the owner of NIRI_SOCKET is gone: main does its last
\* persist_if_dirty, beside the saves that are under way, and the runtime waits
\* for the blocking threads.  Requests that are being served may still change the
\* state, in vain.
Stop ==
    /\ daemon = "up"
    /\ ends < MaxEnds /\ ends' = ends + 1
    /\ daemon' = "stopping"
    /\ due' = value
    /\ UNCHANGED <<value, dirty, changes, saver, files, history, faults>>

NoFinalPersist == TRUE
FinalPersist == due \in offered
Stopped ==
    /\ daemon = "stopping"
    /\ FinalPersist /\ Resting
    /\ daemon' = "down"
    /\ UNCHANGED <<value, dirty, changes, saver, files, history, due, bounds>>

\* The process is killed, in the middle of anything.
Crash ==
    /\ daemon \in {"starting", "up", "stopping"}
    /\ ends < MaxEnds /\ ends' = ends + 1
    /\ daemon' = "down"
    /\ saver' = [k \in Savers |-> Idle]
    /\ UNCHANGED <<value, dirty, changes, files, history, due, faults>>

-------------------------------------------------------------------------------
Save(k) == CreateTmp(k) \/ WriteTmp(k) \/ RenameTmp(k)

Next ==
    \/ \E k \in Savers : TakeState(k) \/ Save(k) \/ SaveFails(k)
    \/ Change \/ Start \/ Stop \/ Stopped \/ Crash

Spec == Init /\ [][Next]_vars

\* A save that is under way goes on, the tick of the supervisor comes every
\* second, and systemd starts the daemon again.
Fairness ==
    /\ \A k \in Savers : WF_vars(Save(k))
    /\ WF_vars(\E k \in Savers : TakeState(k))
    /\ WF_vars(Start) /\ WF_vars(Stopped)
FairSpec == Spec /\ Fairness

-------------------------------------------------------------------------------
(* Properties *)

\* Whoever reads state.json finds a whole state, whatever failed before and
\* wherever the daemon was killed.
FileIsWhole == Found \notin Broken

\* A state that is not marked dirty and not being saved is on disk, unless its save
\* failed or overlapped an older one, which may then have ended last: a change that
\* is made during a save is not taken for saved.
CleanMeansSaved ==
    daemon \in {"up", "stopping"} /\ ~dirty /\ Resting => failed \/ crossed \/ Found = value

\* A daemon that is stopped finds, when it starts again, the state it had when the
\* stop began or a newer one, unless its last save failed or began while another
\* was under way.  A fault or an overlap before that does no harm.
StopKeepsState ==
    [][daemon = "stopping" /\ daemon' = "down" /\ ends' = ends /\ ~failed /\ ~crossed
        => Found \in due .. MaxChanges]_vars

\* When changes stop, the last one gets to disk, unless its save failed or overlapped
\* another one: what an overlap has left on disk lasts only until the next save.
ChangesAreSaved == <>[](daemon = "up" => failed \/ crossed \/ Found = value)

\* As long as no two saves have overlapped, state.json is what AtomicFile says: it
\* changes from one whole state to another at once, whatever fails or is killed.
File == INSTANCE AtomicFile WITH Absent <- NoFile, file <- Found
WritesAreAtomic == File!Spec
===============================================================================

---------------------------- MODULE LifecycleProofs ----------------------------
(***************************************************************************)
(* Who is at the socket and what state.json says, for any number of        *)
(* daemons, windows and sessions of Niri, and any bounds.                  *)
(***************************************************************************)
EXTENDS Lifecycle, TLAPS

Pcs == {"off", "loaded", "probe", "unlink", "bind", "serving", "persist", "remove"}
Process == [pc : Pcs, session : Sessions, stack : SUBSET Entries, dirty : BOOLEAN,
            connected : BOOLEAN]

LEMMA OffIsProcess == Off \in Process
BY LifecycleAssumption DEF Off, Process, Pcs, Sessions

LEMMA NormalisedType ==
    ASSUME NEW state \in [session : Sessions, stack : SUBSET Entries], NEW s \in Sessions
    PROVE  /\ Normalised(state, s) \in [session : Sessions, stack : SUBSET Entries]
           /\ Normalised(state, s).session = s
           /\ Normalised(state, s).stack \in {state.stack, {}}
BY DEF Normalised

-------------------------------------------------------------------------------
(* Types *)

LEMMA InitType == Init => TypeOK
<1> SUFFICES ASSUME Init PROVE TypeOK  OBVIOUS
<1>1. 1 \in Sessions  BY LifecycleAssumption DEF Sessions
<1>2. proc \in [Procs -> Process]  BY OffIsProcess DEF Init
<1>3. {ends, starts, hides, faults} \subseteq Nat  BY LifecycleAssumption DEF Init
<1> QED  BY <1>1, <1>2, <1>3 DEF Init, TypeOK, Process, Pcs

\* What the steps do to the processes, the path and the file.
LEMMA SavedType ==
    ASSUME TypeOK, NEW p \in Procs, Saved(p)
    PROVE  /\ disk' \in [session : Sessions, stack : SUBSET Entries]
           /\ hidden' \subseteq Entries
           /\ meddled' \in BOOLEAN
<1>1. disk' \in [session : Sessions, stack : SUBSET Entries]
  BY DEF TypeOK, Saved
<1>2. hidden' \subseteq Entries
  BY <1>1 DEF TypeOK, Saved
<1>3. meddled' \in BOOLEAN
  BY DEF TypeOK, Saved
<1> QED  BY <1>1, <1>2, <1>3

LEMMA GotoType ==
    ASSUME TypeOK, NEW p \in Procs, NEW pc \in Pcs, Goto(p, pc)
    PROVE  proc' \in [Procs -> Process] /\ crossed' \in BOOLEAN
BY DEF TypeOK, Goto, Process, Pcs

LEMMA EndedType ==
    ASSUME TypeOK, NEW p \in Procs, Ended(p)
    PROVE  proc' \in [Procs -> Process] /\ path' \in Procs \cup {None, Stale}
BY OffIsProcess DEF TypeOK, Ended, Process, Pcs

LEMMA NextType == TypeOK /\ [Next]_vars => TypeOK'
<1> SUFFICES ASSUME TypeOK, [Next]_vars PROVE TypeOK'  OBVIOUS
<1> USE DEF Pcs, Process
<1>1. ASSUME NEW p \in Procs, NEW s \in Sessions, Load(p, s), starts' \in Nat
      PROVE  TypeOK'
  <2>1. Normalised(disk, s).stack \in SUBSET Entries
    BY <1>1, NormalisedType DEF TypeOK
  <2>2. proc' \in [Procs -> Process]
    BY <1>1, <2>1, LifecycleAssumption DEF Load, TypeOK, Off, Sessions
  <2> QED  BY <1>1, <2>2 DEF Load, TypeOK
<1>2. CASE ServiceStart
  BY <1>1, <1>2 DEF ServiceStart, Procs, TypeOK
<1>3. CASE UserStart
  <2>1. starts' \in Nat  BY <1>3 DEF UserStart, TypeOK
  <2>2. PICK p \in Manual, s \in 1 .. niri.session : Load(p, s)
    BY <1>3 DEF UserStart
  <2>3. s \in Sessions  BY LifecycleAssumption DEF TypeOK, Sessions
  <2> QED  BY <1>1, <2>1, <2>2, <2>3 DEF Procs
<1>4. ASSUME NEW p \in Procs, StartSave(p)  PROVE TypeOK'
  <2>1. proc' \in [Procs -> Process] /\ crossed' \in BOOLEAN
    BY <1>4, GotoType DEF StartSave
  <2>2. disk' \in [session : Sessions, stack : SUBSET Entries] /\ meddled' \in BOOLEAN
    BY <1>4 DEF StartSave, TypeOK
  <2> QED  BY <1>4, <2>1, <2>2 DEF StartSave, TypeOK, bounds
<1>5. ASSUME NEW p \in Procs, Probe(p)  PROVE TypeOK'
  <2>1. proc' \in [Procs -> Process] /\ crossed' \in BOOLEAN
        /\ path' \in Procs \cup {None, Stale}
    BY <1>5, GotoType, EndedType DEF Probe, TypeOK
  <2> QED  BY <1>5, <2>1 DEF Probe, TypeOK, bounds
<1>6. ASSUME NEW p \in Procs, Unlink(p)  PROVE TypeOK'
  <2>1. proc' \in [Procs -> Process] /\ crossed' \in BOOLEAN
        /\ path' \in Procs \cup {None, Stale}
    BY <1>6, GotoType, EndedType DEF Unlink, TypeOK
  <2> QED  BY <1>6, <2>1 DEF Unlink, TypeOK, bounds
<1>7. ASSUME NEW p \in Procs, Bind(p)  PROVE TypeOK'
  <2>1. proc' \in [Procs -> Process] /\ crossed' \in BOOLEAN
        /\ path' \in Procs \cup {None, Stale}
    BY <1>7, GotoType, EndedType DEF Bind, TypeOK
  <2> QED  BY <1>7, <2>1 DEF Bind, TypeOK, bounds
<1>8. ASSUME NEW p \in Procs, Connect(p)  PROVE TypeOK'
  <2>1. [proc[p] EXCEPT !.connected = TRUE] \in Process
    BY DEF TypeOK
  <2>2. proc' = [proc EXCEPT ![p] = [proc[p] EXCEPT !.connected = TRUE]]
    BY <1>8 DEF Connect
  <2>3. proc' \in [Procs -> Process]  BY <2>1, <2>2 DEF TypeOK
  <2> QED  BY <1>8, <2>3 DEF Connect, TypeOK, bounds
<1>9. ASSUME NEW p \in Procs, Disconnected(p), faults' \in Nat  PROVE TypeOK'
  <2>1. [proc[p] EXCEPT !.connected = FALSE, !.dirty = FALSE] \in Process
    BY DEF TypeOK
  <2>2. proc' \in [Procs -> Process]  BY <1>9, <2>1 DEF Disconnected, TypeOK
  <2> QED  BY <1>9, <2>2, SavedType DEF Disconnected, TypeOK
<1>10. ASSUME NEW p \in Procs, HideWindow(p)  PROVE TypeOK'
  <2>1. PICK w \in Windows :
          proc' = [proc EXCEPT ![p].stack = @ \cup {[session |-> niri.session, id |-> w]},
                               ![p].dirty = TRUE]
    BY <1>10 DEF HideWindow
  <2>2. [session |-> niri.session, id |-> w] \in Entries  BY DEF TypeOK, Entries
  <2>3. [proc[p] EXCEPT !.stack = @ \cup {[session |-> niri.session, id |-> w]},
                        !.dirty = TRUE] \in Process
    BY <2>2 DEF TypeOK
  <2> DEFINE one == [proc[p] EXCEPT !.stack = @ \cup {[session |-> niri.session, id |-> w]},
                                    !.dirty = TRUE]
  <2>4. proc' = [proc EXCEPT ![p] = one]  BY <2>1
  <2>5. one \in Process  BY <2>3
  <2> HIDE DEF one
  <2>6. proc' \in [Procs -> Process]  BY <2>4, <2>5 DEF TypeOK
  <2> QED  BY <1>10, <2>6 DEF HideWindow, TypeOK
<1>11. ASSUME NEW p \in Procs, Persist(p)  PROVE TypeOK'
  <2> DEFINE one == [proc[p] EXCEPT !.dirty = FALSE]
  <2>0. one \in Process  BY DEF TypeOK
  <2>4. proc' = [proc EXCEPT ![p] = one]  BY <1>11 DEF Persist
  <2> HIDE DEF one
  <2>1. proc' \in [Procs -> Process]  BY <2>0, <2>4 DEF TypeOK
  <2>2. CASE Saved(p) /\ UNCHANGED faults
    BY <1>11, <2>1, <2>2, SavedType DEF Persist, TypeOK
  <2>3. CASE faults > 0 /\ faults' = faults - 1 /\ UNCHANGED <<disk, hidden, meddled>>
    BY <1>11, <2>1, <2>3 DEF Persist, TypeOK
  <2> QED  BY <1>11, <2>2, <2>3 DEF Persist
<1>12. ASSUME NEW p \in Procs, Notice(p)  PROVE TypeOK'
  BY <1>12, GotoType DEF Notice, TypeOK, bounds
<1>13. ASSUME NEW p \in Procs, Terminate(p)  PROVE TypeOK'
  BY <1>13, GotoType DEF Terminate, TypeOK
<1>14. ASSUME NEW p \in Procs, LastPersist(p)  PROVE TypeOK'
  <2>1. [proc[p] EXCEPT !.pc = "remove", !.dirty = FALSE] \in Process
    BY DEF TypeOK
  <2>2. proc' \in [Procs -> Process]  BY <1>14, <2>1 DEF LastPersist, TypeOK
  <2> QED  BY <1>14, <2>2, SavedType DEF LastPersist, TypeOK, bounds
<1>15. ASSUME NEW p \in Procs, Remove(p)  PROVE TypeOK'
  BY <1>15, OffIsProcess DEF Remove, TypeOK, bounds
<1>16. ASSUME NEW p \in Procs, Kill(p)  PROVE TypeOK'
  BY <1>16, EndedType DEF Kill, TypeOK
<1>17. CASE NiriEnds
  BY <1>17 DEF NiriEnds, TypeOK, bounds
<1>18. CASE NiriStarts
  BY <1>18, LifecycleAssumption DEF NiriStarts, TypeOK, bounds, Sessions
<1>19. CASE UNCHANGED vars
  BY <1>19 DEF vars, TypeOK
<1>20. ASSUME NEW p \in Procs, StreamEnds(p)  PROVE TypeOK'
  BY <1>9, <1>20 DEF StreamEnds, TypeOK
<1>21. ASSUME NEW p \in Procs, StreamBreaks(p)  PROVE TypeOK'
  BY <1>9, <1>21 DEF StreamBreaks, TypeOK
<1> QED
  BY <1>2, <1>3, <1>4, <1>5, <1>6, <1>7, <1>8, <1>10, <1>11, <1>12, <1>13, <1>14, <1>15,
     <1>16, <1>17, <1>18, <1>19, <1>20, <1>21
  DEF Next, Run

\* Every reachable state of the daemons, the socket and the file is well typed.
THEOREM TypeCorrect == Spec => []TypeOK
BY InitType, NextType, PTL DEF Spec

-------------------------------------------------------------------------------
(* The window IDs in the file and in the engines *)

\* What a process or the file calls hidden is of the session it says it is of.
OwnStacks ==
    /\ \A p \in Procs : \A e \in proc[p].stack : e.session = proc[p].session
    /\ \A e \in disk.stack : e.session = disk.session

LEMMA SavedOwn ==
    ASSUME TypeOK, OwnStacks, NEW p \in Procs, Saved(p)
    PROVE  \A e \in disk'.stack : e.session = disk'.session
BY DEF TypeOK, OwnStacks, Saved

LEMMA OffOwn ==
    ASSUME TypeOK, OwnStacks, NEW p \in Procs, proc' = [proc EXCEPT ![p] = Off],
           UNCHANGED disk
    PROVE  OwnStacks'
BY DEF TypeOK, OwnStacks, Off

LEMMA SameOwn ==
    ASSUME OwnStacks,
           \A p \in Procs : /\ proc'[p].stack = proc[p].stack
                            /\ proc'[p].session = proc[p].session,
           \A e \in disk'.stack : e.session = disk'.session
    PROVE  OwnStacks'
BY DEF OwnStacks

LEMMA GotoSame ==
    ASSUME TypeOK, NEW p \in Procs, NEW pc \in Pcs, Goto(p, pc)
    PROVE  \A q \in Procs : /\ proc'[q].stack = proc[q].stack
                            /\ proc'[q].session = proc[q].session
BY DEF TypeOK, Goto

LEMMA NextOwn == TypeOK /\ OwnStacks /\ [Next]_vars => OwnStacks'
<1> SUFFICES ASSUME TypeOK, OwnStacks, [Next]_vars PROVE OwnStacks'  OBVIOUS
<1> USE DEF Pcs
<1>0. ASSUME UNCHANGED disk  PROVE \A e \in disk'.stack : e.session = disk'.session
  BY <1>0 DEF OwnStacks
<1>1. ASSUME NEW p \in Procs, NEW s \in Sessions, Load(p, s)  PROVE OwnStacks'
  <2>1. \A e \in Normalised(disk, s).stack : e.session = s
    BY DEF OwnStacks, Normalised
  <2>2. /\ proc'[p].stack = Normalised(disk, s).stack /\ proc'[p].session = s
        /\ \A q \in Procs \ {p} : proc'[q] = proc[q]
    BY <1>1 DEF Load, TypeOK, Off
  <2> QED  BY <1>1, <2>1, <2>2 DEF Load, OwnStacks
<1>2. CASE ServiceStart \/ UserStart
  BY <1>1, <1>2, LifecycleAssumption DEF ServiceStart, UserStart, Procs, TypeOK, Sessions
<1>3. ASSUME NEW p \in Procs, StartSave(p)  PROVE OwnStacks'
  <2>1. \A e \in disk'.stack : e.session = disk'.session
    BY <1>3 DEF StartSave, OwnStacks
  <2> QED  BY <1>3, <2>1, GotoSame, SameOwn DEF StartSave
<1>4. ASSUME NEW p \in Procs, Probe(p) \/ Unlink(p) \/ Bind(p) \/ Kill(p)  PROVE OwnStacks'
  BY <1>0, <1>4, GotoSame, SameOwn, OffOwn DEF Probe, Unlink, Bind, Kill, Ended
<1>5. ASSUME NEW p \in Procs, Connect(p)  PROVE OwnStacks'
  BY <1>0, <1>5, SameOwn DEF Connect, TypeOK
<1>6. ASSUME NEW p \in Procs, StreamEnds(p) \/ StreamBreaks(p)  PROVE OwnStacks'
  BY <1>6, SavedOwn, SameOwn DEF StreamEnds, StreamBreaks, Disconnected, TypeOK
<1>7. ASSUME NEW p \in Procs, HideWindow(p)  PROVE OwnStacks'
  <2>1. PICK w \in Windows :
          proc' = [proc EXCEPT ![p].stack = @ \cup {[session |-> niri.session, id |-> w]},
                               ![p].dirty = TRUE]
    BY <1>7 DEF HideWindow
  <2>2. /\ proc'[p].stack = proc[p].stack \cup {[session |-> niri.session, id |-> w]}
        /\ proc'[p].session = niri.session
        /\ \A q \in Procs \ {p} : proc'[q] = proc[q]
    BY <1>7, <2>1 DEF HideWindow, TypeOK, OwnerPresent
  <2>3. proc[p].session = niri.session /\ UNCHANGED disk
    BY <1>7 DEF HideWindow, OwnerPresent
  <2>4. \A e \in proc'[p].stack : e.session = proc'[p].session
    BY <2>2, <2>3 DEF OwnStacks
  <2> QED  BY <2>2, <2>3, <2>4 DEF OwnStacks
<1>8. ASSUME NEW p \in Procs, Persist(p)  PROVE OwnStacks'
  BY <1>0, <1>8, SavedOwn, SameOwn DEF Persist, TypeOK
<1>9. ASSUME NEW p \in Procs, Notice(p) \/ Terminate(p)  PROVE OwnStacks'
  BY <1>0, <1>9, GotoSame, SameOwn DEF Notice, Terminate
<1>10. ASSUME NEW p \in Procs, LastPersist(p)  PROVE OwnStacks'
  BY <1>10, SavedOwn, SameOwn DEF LastPersist, TypeOK
<1>11. ASSUME NEW p \in Procs, Remove(p)  PROVE OwnStacks'
  BY <1>11, OffOwn DEF Remove
<1>12. CASE NiriEnds \/ NiriStarts \/ UNCHANGED vars
  BY <1>12 DEF NiriEnds, NiriStarts, vars, OwnStacks
<1> QED
  BY <1>2, <1>3, <1>4, <1>5, <1>6, <1>7, <1>8, <1>9, <1>10, <1>11, <1>12 DEF Next, Run

\* No engine takes a window of another session of Niri for one it has hidden, over
\* any number of starts, ends and saves of any daemons.
THEOREM NoForeignWindows == Spec => []NoStaleIds
<1>1. Init => OwnStacks  BY DEF Init, OwnStacks, Off
<1>2. OwnStacks => NoStaleIds  BY DEF OwnStacks, NoStaleIds
<1> QED  BY <1>1, <1>2, InitType, NextType, NextOwn, PTL DEF Spec

-------------------------------------------------------------------------------
(* The socket *)

\* While never two processes were at the socket at the same time, it is taken from
\* a process that serves by nobody, since whoever could does not see one serve.
Clearing(p) == proc[p].pc \in {"unlink", "persist", "remove"}
OneAtSocket == \A p, q \in Procs : AtSocket(p) /\ AtSocket(q) => p = q
OneServes   == \A p \in Procs : proc[p].pc = "serving" => path = p
NobodyLoses == \A p, q \in Procs : Clearing(p) => proc[q].pc # "serving"
SocketInv   == ~crossed => OneAtSocket /\ OneServes /\ NobodyLoses

\* Processes that stay where they are, or end.
LEMMA SocketStays ==
    ASSUME SocketInv, crossed' = crossed,
           \A p \in Procs : proc'[p].pc \in {proc[p].pc, "off", "loaded"},
           \A p \in Procs : proc'[p].pc = "serving" /\ path = p => path' = p
    PROVE  SocketInv'
BY DEF SocketInv, OneAtSocket, OneServes, NobodyLoses, AtSocket, Clearing

LEMMA NextSocket == TypeOK /\ SocketInv /\ [Next]_vars => SocketInv'
<1> SUFFICES ASSUME TypeOK, SocketInv, [Next]_vars PROVE SocketInv'  OBVIOUS
<1> USE DEF Pcs
<1> DEFINE Moved(p, pc) == \A q \in Procs : proc'[q].pc = IF q = p THEN pc ELSE proc[q].pc
<1>0. ASSUME NEW p \in Procs, NEW pc \in Pcs, Goto(p, pc)  PROVE Moved(p, pc)
  BY <1>0 DEF Goto, TypeOK
<1>1. ASSUME NEW p \in Procs, NEW s \in Sessions, Load(p, s)  PROVE SocketInv'
  <2>1. \A q \in Procs : proc'[q].pc \in {proc[q].pc, "loaded"}
    BY <1>1 DEF Load, TypeOK, Off
  <2> QED  BY <1>1, <2>1, SocketStays DEF Load
<1>2. CASE ServiceStart \/ UserStart
  BY <1>1, <1>2, LifecycleAssumption DEF ServiceStart, UserStart, Procs, TypeOK, Sessions
<1>3. ASSUME NEW p \in Procs, Ended(p), crossed' = crossed  PROVE SocketInv'
  <2>1. /\ \A q \in Procs : proc'[q].pc \in {proc[q].pc, "off"}
        /\ proc'[p].pc = "off"
    BY <1>3 DEF Ended, TypeOK, Off
  <2> QED  BY <1>3, <2>1, SocketStays DEF Ended
\* A process gets to the socket: it is the only one there, or two have crossed.
<1>4. ASSUME NEW p \in Procs, StartSave(p)  PROVE SocketInv'
  <2>1. Moved(p, "probe")  BY <1>0, <1>4 DEF StartSave
  <2>2. ASSUME ~crossed'
        PROVE  OneAtSocket' /\ OneServes' /\ NobodyLoses'
    <3>1. ~crossed /\ \A q \in Procs \ {p} : ~AtSocket(q)
      BY <1>4, <2>2 DEF StartSave, Goto, TypeOK
    <3>2. OneServes /\ NobodyLoses  BY <3>1 DEF SocketInv
    <3> QED
      BY <1>4, <2>1, <3>1, <3>2
      DEF StartSave, OneAtSocket, OneServes, NobodyLoses, AtSocket, Clearing
  <2> QED  BY <2>2 DEF SocketInv
<1>5. ASSUME NEW p \in Procs, Notice(p) \/ Terminate(p)  PROVE SocketInv'
  <2>1. Moved(p, "persist") /\ proc[p].pc = "serving" /\ path' = path
    BY <1>0, <1>5 DEF Notice, Terminate
  <2>2. ASSUME ~crossed'
        PROVE  OneAtSocket' /\ OneServes' /\ NobodyLoses'
    <3>1. ~crossed /\ \A q \in Procs \ {p} : ~AtSocket(q)
      BY <1>5, <2>2 DEF Notice, Terminate, Goto, TypeOK
    <3>2. OneServes  BY <3>1 DEF SocketInv
    <3> QED
      BY <2>1, <3>1, <3>2
      DEF OneAtSocket, OneServes, NobodyLoses, AtSocket, Clearing
  <2> QED  BY <2>2 DEF SocketInv
<1>6. ASSUME NEW p \in Procs, Probe(p)  PROVE SocketInv'
  <2>1. CASE Answered /\ Ended(p) /\ UNCHANGED crossed
    BY <1>3, <2>1
  <2>2. CASE path # None /\ ~Answered /\ Goto(p, "unlink") /\ UNCHANGED path
    <3>1. Moved(p, "unlink") /\ proc[p].pc = "probe" /\ crossed' = crossed
      BY <1>0, <1>6, <2>2 DEF Probe, Goto, TypeOK
    <3>2. OneServes => \A q \in Procs : proc[q].pc # "serving"
      BY <2>2 DEF Answered, OneServes
    <3> QED
      BY <2>2, <3>1, <3>2
      DEF SocketInv, OneAtSocket, OneServes, NobodyLoses, AtSocket, Clearing
  <2>3. CASE path = None /\ Goto(p, "bind") /\ UNCHANGED path
    <3>1. Moved(p, "bind") /\ proc[p].pc = "probe" /\ crossed' = crossed
      BY <1>0, <1>6, <2>3 DEF Probe, Goto, TypeOK
    <3> QED
      BY <2>3, <3>1 DEF SocketInv, OneAtSocket, OneServes, NobodyLoses, AtSocket, Clearing
  <2> QED  BY <1>6, <2>1, <2>2, <2>3 DEF Probe
<1>7. ASSUME NEW p \in Procs, Unlink(p)  PROVE SocketInv'
  <2>1. CASE path = None
    BY <1>3, <1>7, <2>1 DEF Unlink
  <2>2. CASE path # None
    <3>1. Moved(p, "bind") /\ proc[p].pc = "unlink" /\ crossed' = crossed
      BY <1>0, <1>7, <2>2 DEF Unlink, Goto, TypeOK
    <3>2. ~crossed => \A q \in Procs : proc[q].pc # "serving"
      BY <3>1 DEF SocketInv, NobodyLoses, Clearing
    <3> QED
      BY <3>1, <3>2 DEF SocketInv, OneAtSocket, OneServes, NobodyLoses, AtSocket, Clearing
  <2> QED  BY <2>1, <2>2
<1>8. ASSUME NEW p \in Procs, Bind(p)  PROVE SocketInv'
  <2>1. CASE path # None
    BY <1>3, <1>8, <2>1 DEF Bind
  <2>2. CASE path = None
    <3>1. /\ Moved(p, "serving") /\ proc[p].pc = "bind" /\ crossed' = crossed
          /\ path' = p
      BY <1>0, <1>8, <2>2 DEF Bind, Goto, TypeOK
    <3>2. ~crossed => \A q \in Procs : proc[q].pc # "serving"
      BY <2>2, LifecycleAssumption DEF SocketInv, OneServes
    <3>3. ~crossed => \A q \in Procs : ~Clearing(q)
      BY <3>1 DEF SocketInv, OneAtSocket, AtSocket, Clearing
    <3> QED
      BY <3>1, <3>2, <3>3
      DEF SocketInv, OneAtSocket, OneServes, NobodyLoses, AtSocket, Clearing
  <2> QED  BY <2>1, <2>2
<1>9. ASSUME NEW p \in Procs, LastPersist(p)  PROVE SocketInv'
  <2>1. Moved(p, "remove") /\ proc[p].pc = "persist" /\ crossed' = crossed /\ path' = path
    BY <1>9 DEF LastPersist, TypeOK
  <2> QED
    BY <2>1 DEF SocketInv, OneAtSocket, OneServes, NobodyLoses, AtSocket, Clearing
<1>10. ASSUME NEW p \in Procs, Remove(p)  PROVE SocketInv'
  <2>1. Moved(p, "off") /\ proc[p].pc = "remove" /\ crossed' = crossed
    BY <1>10 DEF Remove, TypeOK, Off
  <2>2. ~crossed => \A q \in Procs : proc[q].pc # "serving"
    BY <2>1 DEF SocketInv, NobodyLoses, Clearing
  <2> QED
    BY <2>1, <2>2 DEF SocketInv, OneAtSocket, OneServes, NobodyLoses, AtSocket, Clearing
<1>11. ASSUME NEW p \in Procs, Kill(p)  PROVE SocketInv'
  BY <1>3, <1>11 DEF Kill
<1>12. ASSUME NEW p \in Procs,
              Connect(p) \/ StreamEnds(p) \/ StreamBreaks(p) \/ HideWindow(p) \/ Persist(p)
       PROVE  SocketInv'
  <2>1. \A q \in Procs : proc'[q].pc = proc[q].pc
    <3>1. CASE Connect(p)  BY <3>1 DEF Connect, TypeOK
    <3>2. CASE StreamEnds(p) \/ StreamBreaks(p)
      BY <3>2 DEF StreamEnds, StreamBreaks, Disconnected, TypeOK
    <3>3. CASE HideWindow(p)  BY <3>3 DEF HideWindow, TypeOK
    <3>4. CASE Persist(p)  BY <3>4 DEF Persist, TypeOK
    <3> QED  BY <1>12, <3>1, <3>2, <3>3, <3>4
  <2>2. path' = path /\ crossed' = crossed
    BY <1>12
    DEF Connect, StreamEnds, StreamBreaks, Disconnected, HideWindow, Persist
  <2> QED  BY <2>1, <2>2, SocketStays
<1>13. CASE NiriEnds \/ NiriStarts \/ UNCHANGED vars
  BY <1>13, SocketStays DEF NiriEnds, NiriStarts, vars
<1> QED
  BY <1>2, <1>4, <1>5, <1>6, <1>7, <1>8, <1>9, <1>10, <1>11, <1>12, <1>13 DEF Next, Run

\* A daemon that serves is the one at the socket, unless two were starting or ending
\* at the same time.
THEOREM ServesAtSocket == Spec => []Reachable
<1>1. Init => SocketInv
  BY DEF Init, Off, SocketInv, OneAtSocket, OneServes, NobodyLoses, AtSocket, Clearing
<1>2. SocketInv => Reachable  BY DEF SocketInv, OneServes, Reachable
<1> QED  BY <1>1, <1>2, InitType, NextType, NextSocket, PTL DEF Spec

-------------------------------------------------------------------------------
(* Hidden windows stay recorded *)

Behind(p)  == proc[p].pc \in {"probe", "unlink", "bind"}
InCharge(p) == proc[p].pc \in {"serving", "persist", "remove"}

\* Nothing is of a session still to come.
NotAhead ==
    /\ disk.session <= niri.session
    /\ \A p \in Procs : proc[p].session <= niri.session
    /\ \A e \in hidden : e.session = niri.session

\* A process that starts has what the file says; one that is in charge, once the file
\* is of this session, has at least that.
Copies ==
    /\ \A p \in Procs : proc[p].pc = "loaded" =>
          proc[p].stack = Normalised(disk, proc[p].session).stack
    /\ \A p \in Procs : Behind(p) =>
          disk.session = proc[p].session /\ disk.stack = proc[p].stack
    /\ \A p \in Procs : InCharge(p) /\ disk.session = niri.session =>
          proc[p].session = niri.session /\ disk.stack \subseteq proc[p].stack
    /\ hidden \subseteq disk.stack
FileInv == ~meddled /\ ~crossed => Copies

LEMMA OneInCharge ==
    ASSUME SocketInv, ~crossed, NEW p \in Procs, NEW q \in Procs, InCharge(p), InCharge(q)
    PROVE  p = q
BY DEF SocketInv, OneAtSocket, OneServes, NobodyLoses, AtSocket, Clearing, InCharge

\* Nothing is hidden while the file is of an older session.
LEMMA NoneHidden ==
    ASSUME OwnStacks, NotAhead, Copies, disk.session # niri.session
    PROVE  hidden = {}
BY DEF OwnStacks, NotAhead, Copies

\* Steps of processes that leave the file alone.
LEMMA FileStays ==
    ASSUME FileInv, NotAhead, UNCHANGED <<disk, hidden, meddled>>, crossed => crossed',
           niri'.session = niri.session,
           \A p \in Procs :
              \/ proc'[p].pc = "off"
              \/ /\ proc'[p].session = proc[p].session
                 /\ \/ /\ proc'[p].stack = proc[p].stack
                       /\ proc'[p].pc = "loaded" => proc[p].pc = "loaded"
                       /\ Behind(p)' => Behind(p)
                       /\ InCharge(p)' => InCharge(p) \/ Behind(p)
                    \/ InCharge(p) /\ InCharge(p)' /\ proc[p].stack \subseteq proc'[p].stack
    PROVE  FileInv'
<1> SUFFICES ASSUME ~meddled', ~crossed' PROVE Copies'  BY DEF FileInv
<1>1. Copies  BY DEF FileInv
<1>2. ASSUME NEW p \in Procs, proc'[p].pc = "loaded"
      PROVE  proc'[p].stack = Normalised(disk', proc'[p].session).stack
  BY <1>1, <1>2 DEF Copies, InCharge, Normalised
<1>3. ASSUME NEW p \in Procs, Behind(p)'
      PROVE  disk'.session = proc'[p].session /\ disk'.stack = proc'[p].stack
  BY <1>1, <1>3 DEF Copies, Behind, InCharge
<1>4. ASSUME NEW p \in Procs, InCharge(p)', disk'.session = niri'.session
      PROVE  proc'[p].session = niri'.session /\ disk'.stack \subseteq proc'[p].stack
  BY <1>1, <1>4 DEF Copies, InCharge
<1>5. hidden' \subseteq disk'.stack  BY <1>1 DEF Copies
<1> QED  BY <1>2, <1>3, <1>4, <1>5 DEF Copies

\* A process in charge saves what it has: nobody starts meanwhile, or it is noted.
LEMMA SavedKeeps ==
    ASSUME TypeOK, OwnStacks, SocketInv, NotAhead, FileInv, NEW p \in Procs, InCharge(p),
           Saved(p), UNCHANGED niri, crossed' = crossed,
           \A q \in Procs : /\ proc'[q].stack = proc[q].stack
                            /\ proc'[q].session = proc[q].session
                            /\ proc'[q].pc = "loaded" <=> proc[q].pc = "loaded"
                            /\ Behind(q)' <=> Behind(q)
                            /\ InCharge(q)' <=> InCharge(q)
    PROVE  FileInv'
<1> SUFFICES ASSUME ~meddled', ~crossed' PROVE Copies'  BY DEF FileInv
<1>1. Copies /\ ~crossed  BY DEF FileInv, Saved
<1>2. CASE ~proc[p].dirty
  <2>1. UNCHANGED disk  BY <1>2 DEF Saved
  <2>2. hidden' \subseteq disk'.stack  BY <1>1, <2>1 DEF Saved, Copies
  <2> QED  BY <1>1, <2>1, <2>2 DEF Copies
<1>3. CASE proc[p].dirty
  <2>1. disk' = [session |-> proc[p].session, stack |-> proc[p].stack]
    BY <1>3 DEF Saved
  <2>2. \A q \in Procs : ~Starting(q)  BY <1>3 DEF Saved
  <2>3. hidden \subseteq proc[p].stack
    BY <1>1, NoneHidden DEF Copies
  <2>4. hidden' \subseteq disk'.stack  BY <2>1, <2>3 DEF Saved
  <2>5. \A q \in Procs : proc[q].pc # "loaded" /\ ~Behind(q)
    BY <2>2 DEF Starting, Behind
  <2>6. \A q \in Procs : InCharge(q)' => q = p  BY <1>1, OneInCharge
  <2> QED  BY <2>1, <2>4, <2>5, <2>6 DEF Copies
<1> QED  BY <1>2, <1>3

LEMMA StartSaveKeeps ==
    ASSUME TypeOK, OwnStacks, NotAhead, FileInv, NEW p \in Procs, StartSave(p)
    PROVE  FileInv'
<1> SUFFICES ASSUME ~meddled', ~crossed' PROVE Copies'  BY DEF FileInv
<1>1. Copies  BY DEF FileInv, StartSave, Goto
<1>2. /\ proc[p].pc = "loaded" /\ niri' = niri /\ hidden' = hidden
      /\ disk' = [session |-> proc[p].session, stack |-> proc[p].stack]
      /\ proc[p].stack = Normalised(disk, proc[p].session).stack
  BY <1>1 DEF StartSave, Copies
<1>3. /\ \A q \in Procs : proc'[q].pc = IF q = p THEN "probe" ELSE proc[q].pc
      /\ \A q \in Procs : proc'[q].stack = proc[q].stack /\ proc'[q].session = proc[q].session
  BY DEF StartSave, Goto, TypeOK
<1>4. CASE disk' = disk
  BY <1>1, <1>2, <1>3, <1>4 DEF Copies, Behind, InCharge
<1>5. CASE disk' # disk
  <2>1. proc[p].session = niri.session /\ \A q \in Procs \ {p} : ~Live(q)
    BY <1>5 DEF StartSave
  <2>2. disk.session # niri.session
    BY <1>2, <1>5, <2>1 DEF Normalised, TypeOK
  <2>3. hidden = {}  BY <1>1, <2>2, NoneHidden
  <2> QED  BY <1>2, <1>3, <2>1, <2>3 DEF Copies, Behind, InCharge, Live
<1> QED  BY <1>4, <1>5

LEMMA NextNotAhead == TypeOK /\ NotAhead /\ [Next]_vars => NotAhead'
<1> SUFFICES ASSUME TypeOK, NotAhead, [Next]_vars PROVE NotAhead'  OBVIOUS
<1> USE DEF Pcs
<1>0. 1 <= niri.session /\ niri.session \in Nat /\ Sessions \subseteq Nat
  BY LifecycleAssumption DEF TypeOK, Sessions
<1>1. ASSUME NEW p \in Procs, NEW s \in 1 .. niri.session, Load(p, s)  PROVE NotAhead'
  <2>1. \A q \in Procs : proc'[q].session \in {proc[q].session, s}
    BY <1>1 DEF Load, TypeOK, Off
  <2> QED  BY <1>0, <1>1, <2>1 DEF Load, NotAhead
<1>2. CASE ServiceStart \/ UserStart
  BY <1>0, <1>1, <1>2 DEF ServiceStart, UserStart, Procs
<1>3. ASSUME NEW p \in Procs, StartSave(p)  PROVE NotAhead'
  BY <1>3, GotoSame DEF StartSave, NotAhead
<1>4. ASSUME NEW p \in Procs, Ended(p), UNCHANGED <<niri, disk, hidden>>  PROVE NotAhead'
  <2>1. \A q \in Procs : proc'[q].session \in {proc[q].session, 1}
    BY <1>4 DEF Ended, TypeOK, Off
  <2> QED  BY <1>0, <1>4, <2>1 DEF NotAhead
<1>5. ASSUME NEW p \in Procs, Probe(p) \/ Unlink(p) \/ Bind(p) \/ Kill(p)  PROVE NotAhead'
  BY <1>4, <1>5, GotoSame DEF Probe, Unlink, Bind, Kill, NotAhead
<1>6. ASSUME NEW p \in Procs, Notice(p) \/ Terminate(p)  PROVE NotAhead'
  BY <1>6, GotoSame DEF Notice, Terminate, NotAhead
<1>7. ASSUME NEW p \in Procs, Saved(p), UNCHANGED niri,
             \A q \in Procs : proc'[q].session = proc[q].session
      PROVE  NotAhead'
  BY <1>7 DEF Saved, NotAhead
<1>8. ASSUME NEW p \in Procs, StreamEnds(p) \/ StreamBreaks(p)  PROVE NotAhead'
  BY <1>7, <1>8 DEF StreamEnds, StreamBreaks, Disconnected, TypeOK
<1>9. ASSUME NEW p \in Procs, Persist(p)  PROVE NotAhead'
  <2>1. \A q \in Procs : proc'[q].session = proc[q].session
    BY <1>9 DEF Persist, TypeOK
  <2> QED  BY <1>7, <1>9, <2>1 DEF Persist, NotAhead
<1>10. ASSUME NEW p \in Procs, LastPersist(p)  PROVE NotAhead'
  BY <1>7, <1>10 DEF LastPersist, TypeOK
<1>11. ASSUME NEW p \in Procs, Connect(p)  PROVE NotAhead'
  BY <1>11 DEF Connect, TypeOK, NotAhead
<1>12. ASSUME NEW p \in Procs, HideWindow(p)  PROVE NotAhead'
  <2>1. \A q \in Procs : proc'[q].session = proc[q].session
    BY <1>12 DEF HideWindow, TypeOK
  <2> QED  BY <1>12, <2>1 DEF HideWindow, NotAhead
<1>13. ASSUME NEW p \in Procs, Remove(p)  PROVE NotAhead'
  <2>1. \A q \in Procs : proc'[q].session \in {proc[q].session, 1}
    BY <1>13 DEF Remove, TypeOK, Off
  <2> QED  BY <1>0, <1>13, <2>1 DEF Remove, NotAhead
<1>14. CASE NiriStarts
  <2>1. niri'.session = niri.session + 1 /\ hidden' = {} /\ UNCHANGED <<proc, disk>>
    BY <1>14 DEF NiriStarts
  <2>2. disk.session \in Nat /\ \A q \in Procs : proc[q].session \in Nat
    BY <1>0 DEF TypeOK
  <2> QED  BY <1>0, <2>1, <2>2 DEF NotAhead
<1>15. CASE NiriEnds \/ UNCHANGED vars
  BY <1>15 DEF NiriEnds, vars, NotAhead, TypeOK
<1> QED
  BY <1>2, <1>3, <1>5, <1>6, <1>8, <1>9, <1>10, <1>11, <1>12, <1>13, <1>14, <1>15
  DEF Next, Run

LEMMA NextFile ==
    TypeOK /\ OwnStacks /\ SocketInv /\ NotAhead /\ FileInv /\ [Next]_vars => FileInv'
<1> SUFFICES ASSUME TypeOK, OwnStacks, SocketInv, NotAhead, FileInv, [Next]_vars
             PROVE  FileInv'
  OBVIOUS
<1> USE DEF Pcs
\* A step of p that leaves the file alone and takes p to another place.
<1> DEFINE Moved(p, pc) ==
      /\ UNCHANGED <<niri, disk, hidden, meddled>> /\ (crossed => crossed')
      /\ \A q \in Procs :
            proc'[q].pc = (IF q = p THEN pc ELSE proc[q].pc)
      /\ \A q \in Procs :
            proc'[q].session = proc[q].session /\ proc'[q].stack = proc[q].stack
<1>1. ASSUME NEW p \in Procs, NEW s \in Sessions, Load(p, s)  PROVE FileInv'
  <2> SUFFICES ASSUME ~meddled', ~crossed' PROVE Copies'  BY DEF FileInv
  <2>1. Copies  BY <1>1 DEF FileInv, Load
  <2>2. /\ proc'[p].stack = Normalised(disk, s).stack /\ proc'[p].session = s
        /\ proc'[p].pc = "loaded"
        /\ \A q \in Procs \ {p} : proc'[q] = proc[q]
    BY <1>1 DEF Load, TypeOK, Off
  <2>3. UNCHANGED <<niri, disk, hidden>>  BY <1>1 DEF Load
  <2> QED  BY <2>1, <2>2, <2>3 DEF Copies, Behind, InCharge, Normalised
<1>2. CASE ServiceStart \/ UserStart
  BY <1>1, <1>2, LifecycleAssumption DEF ServiceStart, UserStart, Procs, TypeOK, Sessions
<1>3. ASSUME NEW p \in Procs, StartSave(p)  PROVE FileInv'
  BY <1>3, StartSaveKeeps
<1>4. ASSUME NEW p \in Procs, proc' = [proc EXCEPT ![p] = Off], crossed => crossed',
             UNCHANGED <<niri, disk, hidden, meddled>>
      PROVE  FileInv'
  <2>1. proc'[p].pc = "off" /\ \A q \in Procs \ {p} : proc'[q] = proc[q]
    BY <1>4 DEF TypeOK, Off
  <2> QED  BY <1>4, <2>1, FileStays DEF Behind, InCharge
<1>5. ASSUME NEW p \in Procs, NEW pc \in {"unlink", "bind"}, Behind(p), Moved(p, pc)
      PROVE  FileInv'
  BY <1>5, FileStays DEF Behind, InCharge
<1>6. ASSUME NEW p \in Procs, NEW pc \in {"serving", "persist"}, Behind(p) \/ InCharge(p),
             Moved(p, pc)
      PROVE  FileInv'
  BY <1>6, FileStays DEF Behind, InCharge
<1>7. ASSUME NEW p \in Procs, NEW pc \in Pcs, Goto(p, pc),
             UNCHANGED <<niri, disk, hidden, meddled>>
      PROVE  Moved(p, pc)
  <2>1. crossed => crossed'
    BY <1>7 DEF Goto
  <2>2. \A q \in Procs : proc'[q].pc = IF q = p THEN pc ELSE proc[q].pc
    BY <1>7 DEF Goto, TypeOK
  <2>3. \A q \in Procs : proc'[q].stack = proc[q].stack /\ proc'[q].session = proc[q].session
    BY <1>7, GotoSame
  <2> QED  BY <1>7, <2>1, <2>2, <2>3
<1>8. ASSUME NEW p \in Procs, Probe(p)  PROVE FileInv'
  <2>1. /\ UNCHANGED <<niri, disk, hidden, meddled>> /\ Behind(p)
    BY <1>8 DEF Probe, Behind
  <2>2. CASE Ended(p) /\ UNCHANGED crossed
    BY <1>4, <2>1, <2>2 DEF Ended
  <2>3. CASE \E pc \in {"unlink", "bind"} : Goto(p, pc)
    BY <1>5, <1>7, <2>1, <2>3
  <2> QED  BY <1>8, <2>2, <2>3 DEF Probe
<1>9. ASSUME NEW p \in Procs, Unlink(p)  PROVE FileInv'
  <2>1. UNCHANGED <<niri, disk, hidden, meddled>> /\ Behind(p)
    BY <1>9 DEF Unlink, Behind
  <2>2. CASE Ended(p) /\ UNCHANGED crossed
    BY <1>4, <2>1, <2>2 DEF Ended
  <2>3. CASE Goto(p, "bind")
    BY <1>5, <1>7, <2>1, <2>3
  <2> QED  BY <1>9, <2>2, <2>3 DEF Unlink
<1>10. ASSUME NEW p \in Procs, Bind(p)  PROVE FileInv'
  <2>1. UNCHANGED <<niri, disk, hidden, meddled>> /\ Behind(p)
    BY <1>10 DEF Bind, Behind
  <2>2. CASE Ended(p) /\ UNCHANGED crossed
    BY <1>4, <2>1, <2>2 DEF Ended
  <2>3. CASE Goto(p, "serving")
    BY <1>6, <1>7, <2>1, <2>3
  <2> QED  BY <1>10, <2>2, <2>3 DEF Bind
<1>11. ASSUME NEW p \in Procs, Notice(p) \/ Terminate(p)  PROVE FileInv'
  <2>1. UNCHANGED <<niri, disk, hidden, meddled>> /\ InCharge(p) /\ Goto(p, "persist")
    BY <1>11 DEF Notice, Terminate, InCharge
  <2> QED  BY <1>6, <1>7, <2>1
<1>12. ASSUME NEW p \in Procs, Connect(p)  PROVE FileInv'
  <2>1. Moved(p, proc[p].pc) /\ proc[p].pc = "serving"
    BY <1>12 DEF Connect, TypeOK
  <2> QED  BY <1>6, <2>1 DEF InCharge
<1>13. ASSUME NEW p \in Procs, HideWindow(p)  PROVE FileInv'
  <2>1. UNCHANGED <<niri, disk, hidden, meddled, crossed>> /\ InCharge(p)
    BY <1>13 DEF HideWindow, InCharge
  <2>2. /\ \A q \in Procs : proc'[q].pc = proc[q].pc /\ proc'[q].session = proc[q].session
        /\ \A q \in Procs \ {p} : proc'[q].stack = proc[q].stack
        /\ proc[p].stack \subseteq proc'[p].stack
    BY <1>13 DEF HideWindow, TypeOK
  <2> QED  BY <2>1, <2>2, FileStays DEF Behind, InCharge
<1>14. ASSUME NEW p \in Procs, StreamEnds(p) \/ StreamBreaks(p)  PROVE FileInv'
  <2>1. Saved(p) /\ UNCHANGED <<niri, crossed>> /\ InCharge(p)
    BY <1>14 DEF StreamEnds, StreamBreaks, Disconnected, InCharge
  <2>2. \A q \in Procs : /\ proc'[q].pc = proc[q].pc
                         /\ proc'[q].session = proc[q].session
                         /\ proc'[q].stack = proc[q].stack
    BY <1>14 DEF StreamEnds, StreamBreaks, Disconnected, TypeOK
  <2> QED  BY <2>1, <2>2, SavedKeeps DEF Behind, InCharge
<1>15. ASSUME NEW p \in Procs, Persist(p)  PROVE FileInv'
  <2>1. UNCHANGED <<niri, crossed>> /\ InCharge(p)
    BY <1>15 DEF Persist, InCharge
  <2>2. \A q \in Procs : /\ proc'[q].pc = proc[q].pc
                         /\ proc'[q].session = proc[q].session
                         /\ proc'[q].stack = proc[q].stack
    BY <1>15 DEF Persist, TypeOK
  <2>3. CASE Saved(p)
    BY <2>1, <2>2, <2>3, SavedKeeps DEF Behind, InCharge
  <2>4. CASE UNCHANGED <<disk, hidden, meddled>>
    BY <2>1, <2>2, <2>4, FileStays DEF Behind, InCharge
  <2> QED  BY <1>15, <2>3, <2>4 DEF Persist
<1>16. ASSUME NEW p \in Procs, LastPersist(p)  PROVE FileInv'
  <2>1. Saved(p) /\ UNCHANGED <<niri, crossed>> /\ InCharge(p)
    BY <1>16 DEF LastPersist, InCharge
  <2>2. /\ proc[p].pc = "persist"
        /\ \A q \in Procs : /\ proc'[q].pc = (IF q = p THEN "remove" ELSE proc[q].pc)
                            /\ proc'[q].session = proc[q].session
                            /\ proc'[q].stack = proc[q].stack
    BY <1>16 DEF LastPersist, TypeOK
  <2> QED  BY <2>1, <2>2, SavedKeeps DEF Behind, InCharge
<1>17. ASSUME NEW p \in Procs, Remove(p) \/ Kill(p)  PROVE FileInv'
  BY <1>4, <1>17 DEF Remove, Kill, Ended
\* A new session of Niri: the file is of an older one, and nothing of it is hidden.
<1>18. CASE NiriStarts
  <2> SUFFICES ASSUME ~meddled', ~crossed' PROVE Copies'  BY DEF FileInv
  <2>1. Copies  BY <1>18 DEF FileInv, NiriStarts
  <2>2. niri'.session = niri.session + 1 /\ hidden' = {} /\ UNCHANGED <<proc, disk>>
    BY <1>18 DEF NiriStarts
  <2>3. niri.session \in Nat /\ disk.session \in Nat
    BY LifecycleAssumption DEF TypeOK, Sessions
  <2>4. disk'.session # niri'.session  BY <2>2, <2>3 DEF NotAhead
  <2> QED  BY <2>1, <2>2, <2>4 DEF Copies, Behind, InCharge
<1>19. CASE NiriEnds \/ UNCHANGED vars
  <2>1. UNCHANGED <<proc, disk, hidden, meddled, crossed>> /\ niri'.session = niri.session
    BY <1>19 DEF NiriEnds, vars, TypeOK
  <2> QED  BY <2>1, FileStays DEF Behind, InCharge
<1> QED
  BY <1>2, <1>3, <1>8, <1>9, <1>10, <1>11, <1>12, <1>13, <1>14, <1>15, <1>16, <1>17,
     <1>18, <1>19
  DEF Next, Run

\* Windows once recorded as hidden stay recorded while their Niri runs: a daemon that
\* serves has them, over any number of restarts, crashes, second starts and failing
\* saves, unless two daemons were at the socket at once or one started with a copy of
\* the file that had become old.
THEOREM HiddenStaysRecorded == Spec => []HiddenKept
<1>1. Init => OwnStacks /\ SocketInv
  BY DEF Init, Off, OwnStacks, SocketInv, OneAtSocket, OneServes, NobodyLoses, AtSocket,
         Clearing
<1>2. Init => NotAhead /\ FileInv
  BY DEF Init, Off, NotAhead, FileInv, Copies, Behind, InCharge
<1>3. TypeOK /\ OwnStacks /\ NotAhead /\ FileInv => HiddenKept
  <2> SUFFICES ASSUME TypeOK, OwnStacks, NotAhead, FileInv, ~meddled, ~crossed,
                      NEW p \in Procs, proc[p].pc = "serving", OwnerPresent(p)
               PROVE  hidden \subseteq proc[p].stack
    BY DEF HiddenKept
  <2>1. Copies  BY DEF FileInv
  <2> QED  BY <2>1, NoneHidden DEF Copies, InCharge
<1> QED
  BY <1>1, <1>2, <1>3, InitType, NextType, NextOwn, NextSocket, NextNotAhead, NextFile, PTL
  DEF Spec
===============================================================================

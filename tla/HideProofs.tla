------------------------------ MODULE HideProofs ------------------------------
(***************************************************************************)
(* Type correctness and the safety of the hidden stack, for any number of  *)
(* windows, workspaces, names and requests, and any bounds.                *)
(***************************************************************************)
EXTENDS Hide, NiriProofs, FiniteSetTheorems

-------------------------------------------------------------------------------
(* What the compositor and one action leave. *)

LEMMA NiriBecomesType ==
    ASSUME TypeOK, NEW m \in NiriState, NiriBecomes(m)
    PROVE  niri' \in NiriState /\ queue' \in Seq(Event)
  BY EmitType DEF TypeOK, NiriBecomes

LEMMA SpendType ==
    ASSUME TypeOK, NEW what \in Happenings, Spend(what)
    PROVE  budget' \in [Happenings -> Nat] /\ happenings' \in Nat
  BY DEF TypeOK, Spend

LEMMA BestEffortType ==
    ASSUME TypeOK, NEW s \in Step, BestEffort(s)
    PROVE  /\ niri' \in NiriState /\ queue' \in Seq(Event)
           /\ budget' \in [Happenings -> Nat] /\ happenings' \in Nat
<1>1. AfterAction(niri, s.act) \in NiriState
  BY AfterActionType DEF TypeOK, Step
<1>2. CASE NiriBecomes(AfterAction(niri, s.act)) /\ UNCHANGED world
  BY <1>1, <1>2, NiriBecomesType DEF TypeOK, world
<1>3. CASE Spend("fault") /\ UNCHANGED <<niri, queue>>
  BY <1>3, SpendType DEF TypeOK, Happenings
<1>4. CASE UNCHANGED <<niri, queue, world>>
  BY <1>4 DEF TypeOK, world
<1> QED  BY <1>2, <1>3, <1>4 DEF BestEffort

-------------------------------------------------------------------------------
(* What the engine's plans contain. *)

\* The entry a hide may push: a window id of this session with a way back.
Pushable(e) == e \in Entry /\ e.origin # NoWs /\ e.ses = session

LEMMA HidePlansType ==
    ASSUME TypeOK, NEW win \in Windows, NEW p \in HidePlans(win)
    PROVE  /\ p.app \in Application /\ p.plan \in SUBSET Step
           /\ \A e \in p.app.entries : Pushable(e)
<1> DEFINE entry == [win |-> win, origin |-> windows[win], at |-> 0, ses |-> session]
           move == [at |-> 1, act |-> MoveWindowToWorkspaceName(win, padName)]
           Plan(pad, steps) ==
             {[app |-> [kind |-> "hide", entries |-> {entry}, pad |-> pad,
                        cleanup |-> FALSE, wasFocused |-> f],
               plan |-> steps \cup {move}] : f \in {FALSE, windows[win] = focused}}
<1>1. padName \in WsName /\ Cached(win)
  BY DEF TypeOK, WsName, HidePlans
<1>2. Pushable(entry)
  BY <1>1 DEF Pushable, Entry, TypeOK, Cached
<1>3. move \in Step
  BY <1>1, MakersType DEF Step
<1>4. ASSUME NEW pad \in Place, NEW steps \in SUBSET Step, p \in Plan(pad, steps)
      PROVE  /\ p.app \in Application /\ p.plan \in SUBSET Step
             /\ \A e \in p.app.entries : Pushable(e)
  <2> HIDE DEF entry, move
  <2>1. PICK f \in BOOLEAN :
            p = [app |-> [kind |-> "hide", entries |-> {entry}, pad |-> pad,
                          cleanup |-> FALSE, wasFocused |-> f],
                 plan |-> steps \cup {move}]
    BY <1>4
  <2>2. entry \in Entry
    BY <1>2 DEF Pushable
  <2> QED  BY <2>1, <2>2, <1>2, <1>3, <1>4 DEF Application
<1> HIDE DEF Plan
<1>5. CASE p \in Plan(NoWs, {})
  <2>1. NoWs \in Place /\ {} \in SUBSET Step
    BY DEF Place
  <2> QED  BY <2>1, <1>4, <1>5
<1>6. CASE p \in UNION {Plan(ws, Just(SetWorkspaceName(ws, padName))) :
                            ws \in EmptyWorkspacesFor(win)}
  <2>1. PICK ws \in EmptyWorkspacesFor(win) :
            p \in Plan(ws, Just(SetWorkspaceName(ws, padName)))
    BY <1>6
  <2>2. ws \in Place
    BY DEF EmptyWorkspacesFor, Place
  <2>3. Just(SetWorkspaceName(ws, padName)) \in SUBSET Step
    BY <1>1, <2>2, MakersType DEF Just, Step
  <2> QED  BY <1>4, <2>1, <2>2, <2>3
<1>7. p \in Plan(NoWs, {}) \/ p \in UNION {Plan(ws, Just(SetWorkspaceName(ws, padName))) :
                                            ws \in EmptyWorkspacesFor(win)}
  BY DEF HidePlans, Plan
<1> QED  BY <1>5, <1>6, <1>7

LEMMA RestorePlansType ==
    ASSUME TypeOK, NEW entries \in SUBSET stack, NEW p \in RestorePlans(entries)
    PROVE  /\ p.app \in Application /\ p.plan \in SUBSET Step
           /\ p.app.kind = "restore" /\ p.app.entries \subseteq stack
<1>1. padName \in WsName
  BY DEF TypeOK, WsName
<1>2. ASSUME NEW e \in entries, NEW focus PROVE RestoreSteps(e, focus) \subseteq Step
  <2>1. e.win \in Windows /\ e.at \in Nat /\ e.origin \in Place
    BY DEF TypeOK, Stacked, Entry
  <2>2. RestoreTarget(e) \in Place
    BY <2>1 DEF RestoreTarget, TypeOK, Known, Place
  <2>3. {[at |-> 4 * e.at,     act |-> MoveWindowToWorkspace(e.win, RestoreTarget(e))],
         [at |-> 4 * e.at + 1, act |-> Relayout(e.win)],
         [at |-> 4 * e.at + 2, act |-> FocusWindow(e.win)]} \subseteq Step
    BY <2>1, <2>2, MakersType DEF Step
  <2> QED  BY <2>3 DEF RestoreSteps
<1> DEFINE steps == UNION {RestoreSteps(e, e \in Newest(entries)) : e \in entries}
           unset == [at |-> 4 * NextRank, act |-> UnsetWorkspaceName(padName)]
<1>3. steps \subseteq Step
  BY <1>2
<1>4. unset \in Step
  BY <1>1, MakersType DEF Step, NextRank, TypeOK
<1>5. PICK pad \in Pads :
        p = [app |-> [kind |-> "restore", entries |-> entries, pad |-> pad,
                      cleanup |-> DropsName(entries, pad), wasFocused |-> FALSE],
             plan |-> IF DropsName(entries, pad) THEN steps \cup {unset} ELSE steps]
  BY DEF RestorePlans
<1>6. DropsName(entries, pad) \in BOOLEAN
  BY DEF DropsName
<1>7. entries \in SUBSET Entry /\ pad \in Place
  BY DEF TypeOK, Stacked, Pads, Place
<1> HIDE DEF steps, unset
<1> QED  BY <1>3, <1>4, <1>5, <1>6, <1>7 DEF Application

LEMMA UndoStepsType ==
    ASSUME TypeOK, NEW t \in Tasks
    PROVE  UndoSteps(task[t].app) \subseteq Step
<1> DEFINE app == task[t].app
<1>1. app \in Application /\ padName \in WsName
  BY DEF TypeOK, Task, WsName
<1> HIDE DEF app
<1>2. \A e \in app.entries : e.win \in Windows /\ e.origin \in Place /\ e.at \in Nat
  BY <1>1 DEF Application, Entry
<1>3. UndoHideSteps(app) \subseteq Step
  <2> SUFFICES ASSUME NEW e \in app.entries
               PROVE  {[at |-> 1, act |-> MoveWindowToWorkspace(e.win, e.origin)],
                       [at |-> 2, act |-> FocusWindow(e.win)],
                       [at |-> 3, act |-> UnsetWorkspaceName(padName)]} \subseteq Step
    BY DEF UndoHideSteps
  <2> QED  BY <1>1, <1>2, MakersType DEF Step
<1>4. UndoRestoreSteps(app) \subseteq Step
  <2>1. Just(SetWorkspaceName(app.pad, padName)) \subseteq Step
    BY <1>1, MakersType DEF Just, Step, Application
  <2>2. ASSUME NEW e \in app.entries
        PROVE  {[at |-> 2 * e.at + 1, act |-> MoveWindowToWorkspaceName(e.win, padName)],
                [at |-> 2 * e.at + 2, act |-> Relayout(e.win)]} \subseteq Step
    BY <1>1, <1>2, MakersType DEF Step
  <2> QED  BY <2>1, <2>2 DEF UndoRestoreSteps
<1> QED  BY <1>3, <1>4 DEF UndoSteps, app

LEMMA CleanupType ==
    ASSUME TypeOK, NEW loc, NEW entries, NEW plan \in CleanupPlans(loc, entries)
    PROVE  plan \subseteq Step
<1>1. Just(UnsetWorkspaceName(padName)) \subseteq Step
  BY MakersType DEF TypeOK, WsName, Just, Step
<1> QED  BY <1>1 DEF CleanupPlans

LEMMA GuardType ==
    padName \in Names => \A plan \in Guard : plan \subseteq Step
<1> SUFFICES ASSUME padName \in Names, NEW plan \in Guard
             PROVE  plan \subseteq Step
  OBVIOUS
<1>1. GuardTargets \subseteq Workspaces
  <2>1. \A ws : IsNormal(ws) => ws \in Workspaces
    BY DEF IsNormal, Known
  <2>2. \A entries : Newest(entries) \subseteq entries
    BY DEF Newest
  <2> QED  BY <2>1, <2>2 DEF GuardTargets
<1>2. \A ws \in Workspaces : Just(FocusWorkspace(ws)) \subseteq Step
  BY MakersType DEF Just, Step, Place
<1>3. plan = {} \/ \E ws \in GuardTargets : plan = Just(FocusWorkspace(ws))
  BY DEF Guard
<1> QED  BY <1>1, <1>2, <1>3

LEMMA FollowType ==
    focused \in Place => \A wins \in SUBSET Windows : FollowSteps(wins) \subseteq Step
<1> SUFFICES ASSUME focused \in Place, NEW win \in Windows
             PROVE  [at |-> 0, act |-> MoveWindowToWorkspace(win, focused)] \in Step
  BY DEF FollowSteps
<1> QED  BY MakersType DEF Step

LEMMA GuardOrFollowType ==
    padName \in Names /\ focused \in Place /\ tracked \subseteq Windows =>
        \A plan \in GuardOrFollow : plan \subseteq Step
  BY GuardType, FollowType DEF GuardOrFollow

-------------------------------------------------------------------------------
(* The inductive invariant.  The safety properties are not inductive  *)
(* by themselves: a commit pushes an entry that was planned earlier, and a *)
(* restart loads a stack that was saved earlier, so what is planned and    *)
(* what is saved must already have the shape of the stack.                 *)

\* The daemon streams from the compositor it was started under.
SameCompositor == link = "on" => session = niriSession

\* A daemon that is not running has no state.
DownIsEmpty == link = "down" => ~booted /\ ~dirty /\ stack = {} /\ InFlight = {}

\* What a running request may push is an entry of this session.
PlannedPushable ==
    \A t \in Tasks : task[t].pc = "acting" => \A e \in task[t].app.entries : Pushable(e)

StackOfSession == \A e \in stack : e.ses = session

SoundSave(d) ==
    /\ \A e \in d.stack : e.ses = d.session
    /\ \A e, f \in d.stack : e.win = f.win => e = f
SavedIsSound == \A d \in saving \cup {disk} : SoundSave(d)

\* The parts that speak of the stack and the state file.
StackIsSound ==
    /\ SameCompositor /\ StackOfSession /\ SavedIsSound
    /\ OneEntryPerWindow /\ EntriesAreLive

IInv == TypeOK /\ DownIsEmpty /\ PlannedPushable /\ StackIsSound

-------------------------------------------------------------------------------
(* Frames: what an action that leaves the stack alone preserves. *)

USE DEF saved

LEMMA StackUntouched ==
    ASSUME StackIsSound,
           UNCHANGED <<niriSession, link, booted, windows, stack, dirty, session, saved>>
    PROVE  StackIsSound'
  BY DEF StackIsSound, SameCompositor, StackOfSession, SavedIsSound, SoundSave, OneEntryPerWindow,
         EntriesAreLive, Cached

\* Task t moves on and does not start acting on anything new.
LEMMA TaskMovesOn ==
    ASSUME IInv, NEW t \in Tasks, NEW r \in Task,
           task' = [task EXCEPT ![t] = r],
           r.pc = "acting" => task[t].pc = "acting" /\ r.app = task[t].app,
           task[t].pc # "done", link # "down", UNCHANGED <<link, session>>
    PROVE  task' \in [Tasks -> Task] /\ DownIsEmpty' /\ PlannedPushable'
<1>1. task' \in [Tasks -> Task]
  BY DEF IInv, TypeOK
<1>2. DownIsEmpty'
  BY DEF DownIsEmpty
<1>3. PlannedPushable'
  BY DEF IInv, TypeOK, PlannedPushable, Pushable
<1> QED  BY <1>1, <1>2, <1>3

\* A running task belongs to a running daemon.
LEMMA RunningIsUp ==
    ASSUME IInv, NEW t \in InFlight
    PROVE  link # "down"
  BY DEF IInv, DownIsEmpty

-------------------------------------------------------------------------------
(* One lemma per action, or per group of actions of the same shape. *)

LEMMA BeginSafe ==
    ASSUME IInv, NEW t \in Tasks, NEW p, CanBegin(t), Begin(t, p),
           p.app \in Application, p.plan \in SUBSET Step,
           \A e \in p.app.entries : Pushable(e),
           UNCHANGED <<compositor, link, cache, tracked, moves, stack, config, dirty, saved,
                       loop, world>>
    PROVE  IInv'
<1> USE DEF compositor, cache, config, world
<1>1. task' \in [Tasks -> Task]
  BY DEF IInv, TypeOK, Begin, Task
<1>2. TypeOK'
  BY <1>1 DEF IInv, TypeOK
<1>3. DownIsEmpty'
  BY DEF DownIsEmpty, CanBegin
<1>4. PlannedPushable'
  BY DEF IInv, TypeOK, PlannedPushable, Begin, Pushable
<1>5. StackIsSound'
  BY StackUntouched DEF IInv
<1> QED  BY <1>2, <1>3, <1>4, <1>5 DEF IInv

LEMMA StartSafe ==
    ASSUME IInv, NEW t \in Tasks,
           \/ \E win \in Windows : StartHide(t, win)
           \/ \E e \in stack : StartRestore(t, e)
           \/ StartRestoreAll(t)
    PROVE  IInv'
<1>1. \A e \in stack : Pushable(e)
  BY DEF IInv, TypeOK, StackIsSound, StackOfSession, Pushable, Stacked
<1>2. ASSUME NEW win \in Windows, StartHide(t, win)  PROVE IInv'
  <2>1. PICK p \in HidePlans(win) : Begin(t, p)
    BY <1>2 DEF StartHide
  <2>2. /\ p.app \in Application /\ p.plan \in SUBSET Step
        /\ \A e \in p.app.entries : Pushable(e)
    BY HidePlansType DEF IInv
  <2> QED  BY <1>2, <2>1, <2>2, BeginSafe DEF StartHide
<1>3. ASSUME NEW entries \in SUBSET stack, NEW p \in RestorePlans(entries)
      PROVE  /\ p.app \in Application /\ p.plan \in SUBSET Step
             /\ \A e \in p.app.entries : Pushable(e)
  BY <1>1, RestorePlansType DEF IInv
<1>4. ASSUME NEW e \in stack, StartRestore(t, e)  PROVE IInv'
  <2>1. PICK p \in RestorePlans({e}) : Begin(t, p)
    BY <1>4 DEF StartRestore
  <2>2. {e} \in SUBSET stack
    OBVIOUS
  <2> QED  BY <1>3, <1>4, <2>1, <2>2, BeginSafe DEF StartRestore
<1>5. CASE StartRestoreAll(t)
  <2>1. PICK p \in RestorePlans(stack) : Begin(t, p)
    BY <1>5 DEF StartRestoreAll
  <2> QED  BY <1>3, <1>5, <2>1, BeginSafe DEF StartRestoreAll
<1> QED  BY <1>2, <1>4, <1>5

LEMMA ActSafe ==
    ASSUME IInv, NEW t \in Tasks, Act(t) \/ ActFails(t)
    PROVE  IInv'
<1> USE DEF cache, config, world
<1>1. task[t] \in Task /\ task[t].pc = "acting" /\ t \in InFlight
  BY DEF IInv, TypeOK, Act, ActFails, InFlight
<1>2. \A s \in task[t].plan : AfterAction(niri, s.act) \in NiriState
  BY <1>1, AfterActionType DEF IInv, TypeOK, Task, Step
<1>3. /\ niri' \in NiriState /\ queue' \in Seq(Event)
      /\ budget' \in [Happenings -> Nat] /\ happenings' \in Nat
  <2>1. ASSUME NEW s \in NextStep(task[t].plan), NiriBecomes(AfterAction(niri, s.act))
        PROVE  niri' \in NiriState /\ queue' \in Seq(Event)
    BY <1>2, <2>1, NiriBecomesType DEF IInv, NextStep
  <2>2. niri' \in NiriState /\ queue' \in Seq(Event)
    <3>1. CASE UNCHANGED <<niri, queue>>
      BY <3>1 DEF IInv, TypeOK
    <3>2. CASE \E s \in NextStep(task[t].plan) : NiriBecomes(AfterAction(niri, s.act))
      BY <3>2, <2>1
    <3> QED  BY <3>1, <3>2 DEF Act, ActFails
  <2>3. budget' \in [Happenings -> Nat] /\ happenings' \in Nat
    <3>1. CASE UNCHANGED world
      BY <3>1 DEF IInv, TypeOK
    <3>2. CASE Spend("fault")
      BY <3>2, SpendType DEF IInv, Happenings
    <3> QED  BY <3>1, <3>2 DEF Act, ActFails
  <2> QED  BY <2>2, <2>3
<1>4. task' \in [Tasks -> Task] /\ DownIsEmpty' /\ PlannedPushable'
  <2>1. ASSUME NEW plan \in SUBSET Step, NEW pc \in {"acting", "failed"},
               task' = [task EXCEPT ![t] = [task[t] EXCEPT !.pc = pc, !.plan = plan]]
        PROVE  task' \in [Tasks -> Task] /\ DownIsEmpty' /\ PlannedPushable'
    <3> DEFINE r == [task[t] EXCEPT !.pc = pc, !.plan = plan]
    <3>1. r \in Task /\ r.app = task[t].app
      BY <1>1 DEF Task
    <3>2. UNCHANGED <<link, session>>
      BY DEF Act, ActFails
    <3> QED  BY <1>1, <2>1, <3>1, <3>2, TaskMovesOn, RunningIsUp
  <2>2. CASE Act(t)
    <3>1. PICK s \in NextStep(task[t].plan) :
              task' = [task EXCEPT ![t] = [task[t] EXCEPT !.plan = task[t].plan \ {s}]]
      BY <2>2, <1>1 DEF Act, IInv, TypeOK
    <3>2. [task[t] EXCEPT !.plan = task[t].plan \ {s}]
            = [task[t] EXCEPT !.pc = "acting", !.plan = task[t].plan \ {s}]
      BY <1>1 DEF Task
    <3>3. task[t].plan \ {s} \in SUBSET Step
      BY <1>1 DEF Task
    <3> QED  BY <2>1, <3>1, <3>2, <3>3
  <2>3. CASE ActFails(t)
    <3>1. task' = [task EXCEPT ![t] = [task[t] EXCEPT !.pc = "failed", !.plan = {}]]
      BY <2>3, <1>1 DEF ActFails, IInv, TypeOK
    <3> QED  BY <2>1, <3>1
  <2> QED  BY <2>2, <2>3
<1>5. UNCHANGED <<niriSession, link, cache, tracked, moves, stack, config, dirty, saved, loop>>
  BY DEF Act, ActFails
<1>6. TypeOK'
  BY <1>3, <1>4, <1>5 DEF IInv, TypeOK
<1>7. StackIsSound'
  BY <1>5, StackUntouched DEF IInv
<1> QED  BY <1>4, <1>6, <1>7 DEF IInv

LEMMA CommitHideSafe ==
    ASSUME IInv, NEW t \in Tasks, CommitHide(t)
    PROVE  IInv'
<1> USE DEF compositor
<1>1. task[t] \in Task /\ task[t].pc = "acting" /\ t \in InFlight /\ link # "down"
  BY RunningIsUp DEF IInv, TypeOK, CommitHide, Committing, InFlight
<1>2. PICK e \in task[t].app.entries :
        IF ~StillOpen(e)
        THEN /\ task' = [task EXCEPT ![t] = [task[t] EXCEPT !.pc = "failed"]]
             /\ UNCHANGED <<stack, pushes, names, dirty>>
        ELSE /\ task' = [task EXCEPT ![t] = DoneTask]
             /\ IF AlreadyHidden(e)
                THEN UNCHANGED <<stack, pushes, names, dirty>>
                ELSE /\ pushes' = pushes + 1
                     /\ stack' = stack \cup {[e EXCEPT !.at = NextRank]}
                     /\ names' = [ws \in Workspaces |->
                                    IF ws = task[t].app.pad /\ Known(ws)
                                    THEN padName ELSE names[ws]]
                     /\ dirty' = Dirtied(stack')
  BY <1>1 DEF CommitHide, IInv, TypeOK
<1>3. UNCHANGED <<niri, niriSession, queue, link, windows, focused, prevFocused, booted,
                  tracked, moves, padName, session, saved, loop, budget, happenings>>
  BY DEF CommitHide, world
<1>4. Pushable(e)
  BY <1>1 DEF IInv, PlannedPushable
<1>5. task' \in [Tasks -> Task] /\ DownIsEmpty' /\ PlannedPushable'
  <2>1. [task[t] EXCEPT !.pc = "failed"] \in Task /\ DoneTask \in Task
    BY <1>1 DEF DoneTask, IdleTask, NoApplication, Application, Task, Place
  <2>2. DoneTask.pc = "done" /\ [task[t] EXCEPT !.pc = "failed"].pc = "failed"
    BY <1>1 DEF DoneTask, IdleTask, Task
  <2> QED  BY <1>1, <1>2, <1>3, <2>1, <2>2, TaskMovesOn
<1>6. CASE UNCHANGED <<stack, pushes, names, dirty>>
  <2>1. TypeOK'
    BY <1>3, <1>5, <1>6 DEF IInv, TypeOK
  <2>2. StackIsSound'
    BY <1>3, <1>6, StackUntouched DEF IInv
  <2> QED  BY <1>5, <2>1, <2>2 DEF IInv
<1>7. CASE StillOpen(e) /\ ~AlreadyHidden(e)
  <2> DEFINE new == [e EXCEPT !.at = NextRank]
  <2>1. /\ pushes' = pushes + 1
        /\ stack' = stack \cup {new}
        /\ names' = [ws \in Workspaces |-> IF ws = task[t].app.pad /\ Known(ws)
                                          THEN padName ELSE names[ws]]
        /\ dirty' = Dirtied(stack')
    BY <1>2, <1>7
  <2>0. NextRank \in Nat /\ NextRank > 0
    BY DEF NextRank, IInv, TypeOK
  <2>2. new \in Stacked /\ new.win = e.win /\ new.ses = session
    BY <1>4, <2>0 DEF Pushable, Stacked, Entry
  <2> HIDE DEF new
  <2>3. dirty' \in BOOLEAN /\ (stack' # stack => dirty') /\ (dirty => dirty')
    BY <2>1 DEF Dirtied, IInv, TypeOK
  <2>4. TypeOK'
    <3>1. names' \in [Workspaces -> WsName]
      BY <2>1 DEF IInv, TypeOK, WsName
    <3>2. stack' \subseteq Stacked /\ pushes' \in Nat
      BY <2>1, <2>2 DEF IInv, TypeOK
    <3> QED  BY <1>3, <1>5, <2>3, <3>1, <3>2 DEF IInv, TypeOK
  <2>5. SameCompositor' /\ SavedIsSound'
    BY <1>3 DEF IInv, StackIsSound, SameCompositor, SavedIsSound
  <2>6. StackOfSession'
    BY <1>3, <2>1, <2>2 DEF IInv, StackIsSound, StackOfSession
  <2>7. OneEntryPerWindow'
    BY <1>7, <2>1, <2>2 DEF IInv, StackIsSound, OneEntryPerWindow, AlreadyHidden, Hidden
  <2>8. EntriesAreLive'
    BY <1>3, <1>7, <2>1, <2>2 DEF IInv, StackIsSound, EntriesAreLive, StillOpen, Cached
  <2> QED  BY <1>5, <2>4, <2>5, <2>6, <2>7, <2>8 DEF IInv, StackIsSound
<1> QED  BY <1>2, <1>6, <1>7

\* The stack only loses entries and the state file is left alone.
LEMMA StackShrinks ==
    ASSUME IInv, stack' \subseteq stack, dirty' = Dirtied(stack'),
           booted' => \A e \in stack' : windows'[e.win] # NoWs,
           UNCHANGED <<niriSession, link, session, saved>>
    PROVE  stack' \subseteq Stacked /\ dirty' \in BOOLEAN /\ StackIsSound'
<1>1. dirty' \in BOOLEAN /\ (stack' # stack => dirty') /\ (dirty => dirty')
  BY DEF Dirtied, IInv, TypeOK
<1>2. SameCompositor' /\ StackOfSession' /\ SavedIsSound' /\ OneEntryPerWindow'
  BY DEF IInv, StackIsSound, SameCompositor, StackOfSession, SavedIsSound,
         SoundSave, OneEntryPerWindow
<1>3. EntriesAreLive'
  BY DEF EntriesAreLive, Cached
<1> QED  BY <1>1, <1>2, <1>3 DEF StackIsSound, IInv, TypeOK

LEMMA CommitRestoreSafe ==
    ASSUME IInv, NEW t \in Tasks, CommitRestore(t)
    PROVE  IInv'
<1>1. t \in InFlight /\ link # "down" /\ task[t].pc # "done"
  BY RunningIsUp DEF CommitRestore, Committing, InFlight
<1>2. /\ stack' \subseteq stack /\ dirty' = Dirtied(stack')
      /\ task' = [task EXCEPT ![t] = DoneTask]
      /\ names' = [ws \in Workspaces |->
                      IF task[t].app.cleanup /\ ws = task[t].app.pad /\ names[ws] = padName
                      THEN NoName ELSE names[ws]]
      /\ UNCHANGED <<niri, niriSession, queue, link, windows, focused, prevFocused, booted,
                     tracked, moves, padName, session, pushes, saved, loop, budget, happenings>>
  BY DEF CommitRestore, compositor, config, world
<1>3. DoneTask \in Task /\ DoneTask.pc = "done"
  BY DEF DoneTask, IdleTask, NoApplication, Application, Task, Place
<1>4. task' \in [Tasks -> Task] /\ DownIsEmpty' /\ PlannedPushable'
  BY <1>1, <1>2, <1>3, TaskMovesOn
<1>5. booted' => \A e \in stack' : windows'[e.win] # NoWs
  BY <1>2 DEF IInv, StackIsSound, EntriesAreLive, Cached
<1>6. stack' \subseteq Stacked /\ dirty' \in BOOLEAN /\ StackIsSound'
  BY <1>2, <1>5, StackShrinks
<1>7. names' \in [Workspaces -> WsName]
  BY <1>2 DEF IInv, TypeOK, WsName
<1>8. TypeOK'
  BY <1>2, <1>4, <1>6, <1>7 DEF IInv, TypeOK
<1> QED  BY <1>4, <1>6, <1>8 DEF IInv

LEMMA UndoSafe ==
    ASSUME IInv, NEW t \in Tasks, PlanUndo(t) \/ Undo(t) \/ GiveUp(t)
    PROVE  IInv'
<1> USE DEF compositor, cache, config, world
<1>1. task[t] \in Task /\ task[t].pc # "done" /\ t \in InFlight /\ link # "down"
  BY RunningIsUp DEF IInv, TypeOK, PlanUndo, Undo, GiveUp, InFlight
<1>2. UNCHANGED <<niriSession, link, cache, tracked, moves, stack, config, dirty, saved, loop>>
  BY DEF PlanUndo, Undo, GiveUp
<1>3. ASSUME NEW r \in Task, task' = [task EXCEPT ![t] = r], r.pc # "acting"
      PROVE  task' \in [Tasks -> Task] /\ DownIsEmpty' /\ PlannedPushable'
  BY <1>1, <1>2, <1>3, TaskMovesOn
<1>4. task' \in [Tasks -> Task] /\ DownIsEmpty' /\ PlannedPushable'
  <2>1. CASE PlanUndo(t)
    <3> DEFINE r == [task[t] EXCEPT !.pc = "undoing", !.plan = UndoSteps(task[t].app)]
    <3>1. r \in Task /\ r.pc = "undoing"
      BY <1>1, UndoStepsType DEF Task, IInv
    <3>2. task' = [task EXCEPT ![t] = r]
      BY <2>1 DEF PlanUndo, IInv, TypeOK
    <3> HIDE DEF r
    <3> QED  BY <1>3, <3>1, <3>2
  <2>2. CASE Undo(t)
    <3>1. PICK s \in NextStep(task[t].plan) : task' = [task EXCEPT ![t].plan = @ \ {s}]
      BY <2>2 DEF Undo
    <3> DEFINE r == [task[t] EXCEPT !.plan = task[t].plan \ {s}]
    <3>2. r \in Task /\ r.pc = "undoing"
      BY <1>1, <2>2 DEF Task, Undo
    <3>3. task' = [task EXCEPT ![t] = r]
      BY <3>1 DEF IInv, TypeOK
    <3> HIDE DEF r
    <3> QED  BY <1>3, <3>2, <3>3
  <2>3. CASE GiveUp(t)
    <3>1. DoneTask \in Task /\ DoneTask.pc = "done"
      BY DEF DoneTask, IdleTask, NoApplication, Application, Task, Place
    <3>2. task' = [task EXCEPT ![t] = DoneTask]
      BY <2>3 DEF GiveUp
    <3> QED  BY <1>3, <3>1, <3>2
  <2> QED  BY <2>1, <2>2, <2>3
<1>5. /\ niri' \in NiriState /\ queue' \in Seq(Event)
      /\ budget' \in [Happenings -> Nat] /\ happenings' \in Nat
  <2>1. CASE UNCHANGED <<niri, queue, world>>
    BY <2>1 DEF IInv, TypeOK
  <2>2. CASE Undo(t)
    <3>1. PICK s \in NextStep(task[t].plan) : BestEffort(s)
      BY <2>2 DEF Undo
    <3>2. s \in Step
      BY <1>1 DEF NextStep, Task
    <3> QED  BY <3>1, <3>2, BestEffortType DEF IInv
  <2> QED  BY <2>1, <2>2 DEF PlanUndo, GiveUp
<1>6. TypeOK'
  BY <1>2, <1>4, <1>5 DEF IInv, TypeOK
<1>7. StackIsSound'
  BY <1>2, StackUntouched DEF IInv
<1> QED  BY <1>4, <1>6, <1>7 DEF IInv

\* An action of a running daemon, or of the world, that leaves the requests alone.
LEMMA TasksUntouched ==
    ASSUME IInv, UNCHANGED <<task, session, booted, dirty, stack, link>>
    PROVE  task' \in [Tasks -> Task] /\ DownIsEmpty' /\ PlannedPushable'
  BY DEF IInv, TypeOK, DownIsEmpty, InFlight, PlannedPushable, Pushable

LEMMA ConfigSafe ==
    ASSUME IInv,
           \/ \E name \in Names : ReloadConfig(name)
           \/ \E win \in Windows : Pin(win) \/ Unpin(win)
    PROVE  IInv'
<1> USE DEF compositor, cache, config, world
<1>1. /\ UNCHANGED <<niri, niriSession, queue, link, windows, names, focused, prevFocused,
                     booted, stack, pushes, dirty, session, saved, task, loop>>
      /\ padName' \in Names /\ tracked' \subseteq Windows
  BY DEF ReloadConfig, Pin, Unpin, IInv, TypeOK
<1>2. moves' \subseteq Step
  <2>1. CASE \E name \in Names : ReloadConfig(name)
    BY <2>1 DEF ReloadConfig, IInv, TypeOK
  <2>2. CASE \E win \in Windows : Pin(win)
    BY <2>2, FollowType DEF Pin, IInv, TypeOK
  <2>3. CASE \E win \in Windows : Unpin(win)
    <3>1. \A win \in Windows, ws \in Workspaces :
            Just(MoveWindowToWorkspace(win, ws)) \subseteq Step
      BY MakersType DEF Just, Step, Place
    <3> QED  BY <2>3, <3>1 DEF Unpin, IInv, TypeOK
  <2> QED  BY <2>1, <2>2, <2>3
<1>3. budget' \in [Happenings -> Nat] /\ happenings' \in Nat
  BY SpendType DEF ReloadConfig, Pin, Unpin, IInv, Happenings
<1>4. TypeOK'
  BY <1>1, <1>3, <1>2 DEF IInv, TypeOK
<1> QED  BY <1>1, <1>4, StackUntouched, TasksUntouched DEF IInv

-------------------------------------------------------------------------------
(* The event handlers. *)

\* What every handler gets: the head of the channel, and nothing else changes.
LEMMA ReceiveType ==
    ASSUME IInv, NEW type, Receive(type)
    PROVE  /\ Head(queue) \in Event /\ Head(queue).type = type
           /\ queue' \in Seq(Event)
           /\ link # "down"
           /\ UNCHANGED <<niri, niriSession, link, moves, padName, session, pushes, saved, task,
                          budget, happenings>>
  BY DEF Receive, IInv, TypeOK, config, world

\* The parts of the invariant that follow when a handler keeps the rest in shape.
LEMMA HandlerSafe ==
    ASSUME IInv, NEW type, Receive(type),
           windows' \in [Windows -> Place], names' \in [Workspaces -> WsName],
           focused' \in Place, prevFocused' \in Place, booted' \in BOOLEAN,
           tracked' \subseteq tracked, stack' \subseteq Stacked, dirty' \in BOOLEAN,
           loop' \subseteq Step, StackIsSound'
    PROVE  IInv'
<1>1. TypeOK'
  BY ReceiveType DEF IInv, TypeOK
<1>2. DownIsEmpty' /\ PlannedPushable'
  BY ReceiveType DEF IInv, DownIsEmpty, PlannedPushable, Pushable
<1> QED  BY <1>1, <1>2 DEF IInv

LEMMA FocusHandlersSafe ==
    ASSUME IInv, HandleWorkspacesChanged \/ HandleWorkspaceActivated
    PROVE  IInv'
<1>1. PICK type \in {"WorkspacesChanged", "WorkspaceActivated"} : Receive(type)
  BY DEF HandleWorkspacesChanged, HandleWorkspaceActivated
<1>2. UNCHANGED <<windows, booted, tracked, stack, dirty>>
  BY DEF HandleWorkspacesChanged, HandleWorkspaceActivated
<1>3. \A ws, nm : Previous(ws, nm) \in Place
  BY DEF Previous, IInv, TypeOK, Place
<1>4. /\ names' \in [Workspaces -> WsName] /\ focused' \in Place
      /\ prevFocused' \in Place
  <2>1. CASE HandleWorkspacesChanged
    <3>1. /\ Head(queue) \in Event /\ Head(queue).type = "WorkspacesChanged"
      BY <2>1, ReceiveType DEF HandleWorkspacesChanged
    <3>2. Head(queue).names \in [Workspaces -> WsName] /\ Head(queue).focus \in Workspaces
      BY <3>1 DEF Event
    <3> QED  BY <1>3, <2>1, <3>2 DEF HandleWorkspacesChanged, Place
  <2>2. CASE HandleWorkspaceActivated
    <3>1. /\ Head(queue) \in Event /\ Head(queue).type = "WorkspaceActivated"
      BY <2>2, ReceiveType DEF HandleWorkspaceActivated
    <3>2. Head(queue).ws \in Workspaces
      BY <3>1 DEF Event
    <3> QED  BY <1>3, <2>2, <3>2 DEF HandleWorkspaceActivated, Place, IInv, TypeOK
  <2> QED  BY <2>1, <2>2
<1>5. loop' \subseteq Step
  <2>1. padName' \in Names
    BY <1>1, ReceiveType DEF IInv, TypeOK
  <2>2. focused' \in Place /\ tracked' \subseteq Windows
    BY <1>2, <1>4 DEF IInv, TypeOK
  <2>3. loop' \in Guard' \/ loop' \in GuardOrFollow'
    BY DEF HandleWorkspacesChanged, HandleWorkspaceActivated
  <2>4. (padName \in Names => \A plan \in Guard : plan \subseteq Step)'
    BY GuardType, PTL
  <2>5. (padName \in Names /\ focused \in Place /\ tracked \subseteq Windows =>
            \A plan \in GuardOrFollow : plan \subseteq Step)'
    BY GuardOrFollowType, PTL
  <2> QED  BY <2>1, <2>2, <2>3, <2>4, <2>5
<1>6. StackIsSound'
  BY <1>1, <1>2, ReceiveType, StackUntouched DEF IInv
<1> QED  BY <1>1, <1>2, <1>4, <1>5, <1>6, HandlerSafe DEF IInv, TypeOK

LEMMA WindowHandlersSafe ==
    ASSUME IInv, HandleWindowClosed \/ HandleWindowsChanged
    PROVE  IInv'
<1>1. PICK type \in {"WindowClosed", "WindowsChanged"} : Receive(type)
  BY DEF HandleWindowClosed, HandleWindowsChanged
<1>2. UNCHANGED <<names, focused, prevFocused>> /\ dirty' = Dirtied(stack')
  BY DEF HandleWindowClosed, HandleWindowsChanged
<1>3. loop' \subseteq Step
  BY CleanupType DEF HandleWindowClosed, HandleWindowsChanged, IInv
<1>4. /\ windows' \in [Windows -> Place] /\ booted' \in BOOLEAN
      /\ tracked' \subseteq tracked /\ stack' \subseteq stack
      /\ booted' => \A e \in stack' : windows'[e.win] # NoWs
  <2>1. CASE HandleWindowClosed
    <3>1. /\ Head(queue) \in Event /\ Head(queue).type = "WindowClosed"
      BY <2>1, ReceiveType DEF HandleWindowClosed
    <3>2. Head(queue).win \in Windows
      BY <3>1 DEF Event
    <3> DEFINE win == Head(queue).win
    <3>3. /\ windows' = [windows EXCEPT ![win] = NoWs]
          /\ tracked' = tracked \ {win} /\ stack' = {e \in stack : e.win # win}
          /\ booted' = booted
      BY <2>1 DEF HandleWindowClosed
    <3> HIDE DEF win
    <3>4. \A e \in stack' : e.win \in Windows /\ windows'[e.win] = windows[e.win]
      BY <3>3 DEF IInv, TypeOK, Stacked, Entry
    <3> QED  BY <3>2, <3>3, <3>4
             DEF IInv, TypeOK, StackIsSound, EntriesAreLive, Cached, Place, win
  <2>2. CASE HandleWindowsChanged
    <3>1. /\ Head(queue) \in Event /\ Head(queue).type = "WindowsChanged"
      BY <2>2, ReceiveType DEF HandleWindowsChanged
    <3>2. Head(queue).loc \in [Windows -> Place]
      BY <3>1 DEF Event
    <3> QED  BY <2>2, <3>2 DEF HandleWindowsChanged
  <2> QED  BY <2>1, <2>2
<1>5. stack' \subseteq Stacked /\ dirty' \in BOOLEAN /\ StackIsSound'
  BY <1>1, <1>2, <1>4, ReceiveType, StackShrinks
<1> QED  BY <1>1, <1>2, <1>3, <1>4, <1>5, HandlerSafe DEF IInv, TypeOK

LEMMA WindowChangedSafe ==
    ASSUME IInv, HandleWindowChanged
    PROVE  IInv'
<1>1. /\ Receive("WindowOpenedOrChanged")
      /\ windows' = [windows EXCEPT ![Head(queue).win] = Head(queue).ws]
      /\ UNCHANGED <<names, focused, prevFocused, booted, tracked, stack, dirty, loop>>
  BY DEF HandleWindowChanged
<1>2. Head(queue) \in Event /\ Head(queue).type = "WindowOpenedOrChanged"
  BY <1>1, ReceiveType
<1>3. Head(queue).win \in Windows /\ Head(queue).ws \in Workspaces
  BY <1>2 DEF Event
<1>4. Head(queue).ws # NoWs
  BY <1>3, NiriAssumption
<1>5. windows' \in [Windows -> Place]
  BY <1>1, <1>3 DEF IInv, TypeOK, Place
<1>6. booted' => \A e \in stack' : windows'[e.win] # NoWs
  BY <1>1, <1>4 DEF IInv, TypeOK, StackIsSound, EntriesAreLive, Cached, Stacked, Entry
<1>7. StackIsSound'
  <2>1. dirty' = Dirtied(stack')
    BY <1>1 DEF Dirtied, IInv, TypeOK
  <2> QED  BY <1>1, <1>6, <2>1, ReceiveType, StackShrinks
<1> QED  BY <1>1, <1>5, <1>7, HandlerSafe DEF IInv, TypeOK

LEMMA LoopActSafe ==
    ASSUME IInv, LoopAct
    PROVE  IInv'
<1> USE DEF cache, config
<1>1. PICK s \in NextStep(loop) : BestEffort(s) /\ loop' = loop \ {s}
  BY DEF LoopAct
<1>2. s \in Step
  BY DEF NextStep, IInv, TypeOK
<1>3. UNCHANGED <<niriSession, link, cache, tracked, moves, stack, config, dirty, saved, task>>
  BY DEF LoopAct
<1>4. /\ niri' \in NiriState /\ queue' \in Seq(Event)
      /\ budget' \in [Happenings -> Nat] /\ happenings' \in Nat
  BY <1>1, <1>2, BestEffortType DEF IInv
<1>5. TypeOK'
  BY <1>1, <1>3, <1>4 DEF IInv, TypeOK
<1> QED  BY <1>3, <1>5, StackUntouched, TasksUntouched DEF IInv

\* What the daemon does for its tracked windows.
LEMMA TrackedSafe ==
    ASSUME IInv, MoveTracked \/ FocusDebounced
    PROVE  IInv'
<1> USE DEF compositor, cache, config, world
<1>1. UNCHANGED <<niriSession, link, cache, tracked, stack, config, dirty, saved, task, loop>>
  BY DEF MoveTracked, FocusDebounced
<1>2. CASE MoveTracked
  <2>1. PICK s \in moves : BestEffort(s) /\ moves' = moves \ {s}
    BY <1>2 DEF MoveTracked
  <2>2. s \in Step
    BY <1>2 DEF IInv, TypeOK
  <2>3. /\ niri' \in NiriState /\ queue' \in Seq(Event)
        /\ budget' \in [Happenings -> Nat] /\ happenings' \in Nat
    BY <2>1, <2>2, BestEffortType DEF IInv
  <2>4. TypeOK'
    BY <1>1, <2>1, <2>2, <2>3 DEF IInv, TypeOK
  <2> QED  BY <1>1, <2>4, StackUntouched, TasksUntouched DEF IInv
<1>3. CASE FocusDebounced
  <2>1. moves' \subseteq Step
    BY <1>3, FollowType DEF FocusDebounced, IInv, TypeOK
  <2>2. TypeOK'
    BY <1>1, <1>3, <2>1 DEF FocusDebounced, IInv, TypeOK
  <2> QED  BY <1>1, <2>2, StackUntouched, TasksUntouched DEF IInv
<1> QED  BY <1>2, <1>3

-------------------------------------------------------------------------------
(* Connection, persistence, crash and restart. *)

LEMMA LinkSafe ==
    ASSUME IInv, Connect \/ CutStream \/ StreamEnded
    PROVE  IInv'
<1> USE DEF compositor, cache, config, world
<1>1. /\ link # "down" /\ link' \in {"off", "on", "cut"}
      /\ link' = "on" => session = niriSession
      /\ UNCHANGED <<niri, niriSession, cache, tracked, moves, stack, config, dirty, saved, task,
                     loop>>
  BY DEF Connect, CutStream, StreamEnded
<1>2. queue' \in Seq(Event)
  BY BootstrapType DEF Connect, CutStream, StreamEnded, IInv, TypeOK
<1>3. budget' \in [Happenings -> Nat] /\ happenings' \in Nat
  BY SpendType DEF Connect, CutStream, StreamEnded, IInv, TypeOK, Happenings
<1>4. TypeOK'
  BY <1>1, <1>2, <1>3 DEF IInv, TypeOK
<1>5. DownIsEmpty' /\ PlannedPushable'
  BY <1>1 DEF IInv, DownIsEmpty, PlannedPushable, Pushable
<1>6. StackIsSound'
  BY <1>1 DEF IInv, StackIsSound, SameCompositor, StackOfSession, SavedIsSound,
              SoundSave, OneEntryPerWindow, EntriesAreLive, Cached
<1> QED  BY <1>4, <1>5, <1>6 DEF IInv

\* Whatever a save may write is sound.
LEMMA UnsavedIsSound ==
    ASSUME IInv
    PROVE  Unsaved \subseteq Disk /\ \A d \in Unsaved : SoundSave(d)
<1>1. Snapshot \in Disk /\ SoundSave(Snapshot)
  BY DEF Snapshot, Disk, SoundSave, IInv, TypeOK, StackIsSound, StackOfSession,
         OneEntryPerWindow
<1>2. saving \subseteq Disk /\ \A d \in saving : SoundSave(d)
  BY DEF IInv, TypeOK, StackIsSound, SavedIsSound
<1> QED  BY <1>1, <1>2 DEF Unsaved

LEMMA TakeStateSafe ==
    ASSUME IInv, TakeState
    PROVE  IInv'
<1> USE DEF compositor, cache, config, world
<1>1. /\ dirty /\ link # "down" /\ saving' = saving \cup {Snapshot} /\ dirty' = FALSE
      /\ UNCHANGED <<compositor, link, cache, tracked, moves, stack, config, disk, task, loop,
                     world>>
  BY DEF TakeState
<1>2. saving' \subseteq Disk /\ \A d \in saving' : SoundSave(d)
  BY <1>1, UnsavedIsSound DEF Unsaved
<1>3. TypeOK'
  BY <1>1, <1>2 DEF IInv, TypeOK
<1>4. DownIsEmpty' /\ PlannedPushable'
  BY <1>1 DEF IInv, DownIsEmpty, PlannedPushable, Pushable
<1>5. StackIsSound'
  BY <1>1, <1>2 DEF IInv, StackIsSound, SameCompositor, StackOfSession, SavedIsSound,
                    SoundSave, OneEntryPerWindow, EntriesAreLive, Cached
<1> QED  BY <1>3, <1>4, <1>5 DEF IInv

LEMMA SaveSafe ==
    ASSUME IInv, NEW d \in saving, Save(d)
    PROVE  IInv'
<1> USE DEF compositor, cache, config, world
<1>1. /\ saving' \subseteq saving /\ disk' \in {disk, d}
      /\ UNCHANGED <<compositor, link, cache, tracked, moves, stack, config, dirty, task, loop>>
  BY DEF Save
<1>2. budget' \in [Happenings -> Nat] /\ happenings' \in Nat
  BY SpendType DEF Save, IInv, TypeOK, Happenings
<1>3. TypeOK'
  BY <1>1, <1>2 DEF IInv, TypeOK
<1>4. DownIsEmpty' /\ PlannedPushable'
  BY <1>1 DEF IInv, DownIsEmpty, InFlight, PlannedPushable, Pushable
<1>5. StackIsSound'
  BY <1>1 DEF IInv, StackIsSound, SameCompositor, StackOfSession, SavedIsSound,
              SoundSave, OneEntryPerWindow, EntriesAreLive, Cached
<1> QED  BY <1>3, <1>4, <1>5 DEF IInv

LEMMA DieSafe ==
    ASSUME IInv, Crash \/ Terminated \/ OwnerGone
    PROVE  IInv'
<1> USE DEF config, world
<1>1. Die /\ disk' \in {disk} \cup Unsaved
  BY DEF Crash, Terminated, OwnerGone, Shutdown
<1>2. budget' \in [Happenings -> Nat] /\ happenings' \in Nat
  BY SpendType DEF Crash, Terminated, OwnerGone, IInv, TypeOK, Happenings
<1>3. DoneTask \in Task /\ DoneTask.pc = "done"
  BY DEF DoneTask, IdleTask, NoApplication, Application, Task, Place
<1>4. task' \in [Tasks -> Task]
  BY <1>1, <1>3 DEF Die, IInv, TypeOK
<1>5. \A t \in Tasks : task'[t].pc \notin {"acting", "failed", "undoing"}
  BY <1>1, <1>3 DEF Die, InFlight
<1>6. <<>> \in Seq(Event) /\ NoWs \in Place /\ Gone \in WsName
  BY DEF Place, WsName
<1>7. disk' \in Disk /\ SoundSave(disk')
  BY <1>1, UnsavedIsSound DEF IInv, TypeOK, StackIsSound, SavedIsSound
<1>8. TypeOK'
  BY <1>1, <1>2, <1>4, <1>6, <1>7 DEF Die, IInv, TypeOK
<1>9. DownIsEmpty' /\ PlannedPushable'
  BY <1>1, <1>5 DEF Die, DownIsEmpty, InFlight, PlannedPushable
<1>10. SavedIsSound'
  BY <1>1, <1>7 DEF Die, SavedIsSound, SoundSave
<1>11. StackIsSound'
  BY <1>1, <1>10 DEF Die, StackIsSound, SameCompositor, StackOfSession, OneEntryPerWindow,
                     EntriesAreLive
<1> QED  BY <1>8, <1>9, <1>11 DEF IInv

LEMMA RestartSafe ==
    ASSUME IInv, Restart
    PROVE  IInv'
<1> USE DEF compositor, cache, world
<1>1. /\ link = "down" /\ link' = "off" /\ session' = niriSession
      /\ stack' = LoadedStack /\ disk' = [stack |-> LoadedStack, session |-> niriSession]
      /\ UNCHANGED <<compositor, cache, tracked, moves, padName, pushes, dirty, saving, task, loop,
                     world>>
  BY DEF Restart
<1>2. ~booted /\ InFlight = {}
  BY <1>1 DEF IInv, DownIsEmpty
<1>3. /\ LoadedStack \subseteq disk.stack
      /\ \A e \in LoadedStack : e.ses = niriSession
  BY DEF LoadedStack, IInv, StackIsSound, SavedIsSound, SoundSave
<1>4. LoadedStack \subseteq Stacked
  BY <1>3 DEF IInv, TypeOK, Disk
<1>5. TypeOK'
  BY <1>1, <1>4 DEF IInv, TypeOK, Disk
<1>6. DownIsEmpty' /\ PlannedPushable'
  BY <1>1, <1>2 DEF DownIsEmpty, PlannedPushable, InFlight
<1>7. SameCompositor' /\ StackOfSession' /\ EntriesAreLive'
  BY <1>1, <1>2, <1>3 DEF SameCompositor, StackOfSession, EntriesAreLive
<1>8. OneEntryPerWindow' /\ SavedIsSound'
  BY <1>1, <1>3 DEF IInv, StackIsSound, SavedIsSound, SoundSave, OneEntryPerWindow
<1> QED  BY <1>5, <1>6, <1>7, <1>8 DEF IInv, StackIsSound

-------------------------------------------------------------------------------
(* The user and Niri. *)

LEMMA EnvironmentSafe ==
    ASSUME IInv, NEW what \in Happenings, NEW m \in NiriState, Environment(what, m)
    PROVE  IInv'
<1> USE DEF cache, config
<1>1. UNCHANGED <<niriSession, link, cache, tracked, moves, stack, config, dirty, saved, task,
                   loop>>
  BY DEF Environment
<1>2. /\ niri' \in NiriState /\ queue' \in Seq(Event)
      /\ budget' \in [Happenings -> Nat] /\ happenings' \in Nat
  BY NiriBecomesType, SpendType DEF Environment, IInv
<1>3. TypeOK'
  BY <1>1, <1>2 DEF IInv, TypeOK
<1> QED  BY <1>1, <1>3, StackUntouched, TasksUntouched DEF IInv

LEMMA UserSafe ==
    ASSUME IInv,
           \/ \E win \in Windows : UserCloses(win)
           \/ \E ws \in Workspaces : UserFocuses(ws) \/ NiriDrops(ws)
           \/ \E win \in Windows, ws \in Workspaces : UserMoves(win, ws)
    PROVE  IInv'
<1>1. niri \in NiriState
  BY DEF IInv, TypeOK
<1>2. ASSUME NEW win \in Windows, UserCloses(win)  PROVE IInv'
  <2>1. [niri EXCEPT !.loc[win] = NoWs] \in NiriState
    BY <1>1 DEF NiriState, Place
  <2> QED  BY <1>2, <2>1, EnvironmentSafe DEF UserCloses, Happenings
<1>3. ASSUME NEW ws \in Workspaces, UserFocuses(ws)  PROVE IInv'
  <2>1. FocusOn(niri, ws) \in NiriState
    BY <1>1 DEF NiriState, FocusOn
  <2> QED  BY <1>3, <2>1, EnvironmentSafe DEF UserFocuses, Happenings
<1>4. ASSUME NEW ws \in Workspaces, NiriDrops(ws)  PROVE IInv'
  <2>1. [niri EXCEPT !.name[ws] = Gone] \in NiriState
    BY <1>1 DEF NiriState, WsName
  <2> QED  BY <1>4, <2>1, EnvironmentSafe DEF NiriDrops, Happenings
<1>5. ASSUME NEW win \in Windows, NEW ws \in Workspaces, UserMoves(win, ws)  PROVE IInv'
  <2>1. MoveTo(niri, win, {ws}) \in NiriState
    BY <1>1, MoveToType
  <2> QED  BY <1>5, <2>1, EnvironmentSafe DEF UserMoves, Happenings
<1> QED  BY <1>2, <1>3, <1>4, <1>5

LEMMA NiriRestartsSafe ==
    ASSUME IInv, NiriRestarts
    PROVE  IInv'
<1> USE DEF cache, config
<1>1. /\ niri' \in NiriState /\ niriSession' \in Nat
      /\ link' = IF link = "on" THEN "cut" ELSE link
      /\ UNCHANGED <<queue, cache, tracked, moves, stack, config, dirty, saved, task, loop>>
  BY HideAssumption DEF NiriRestarts, IInv, TypeOK
<1>2. budget' \in [Happenings -> Nat] /\ happenings' \in Nat
  BY SpendType DEF NiriRestarts, IInv, Happenings
<1>3. TypeOK'
  BY <1>1, <1>2 DEF IInv, TypeOK
<1>4. DownIsEmpty' /\ PlannedPushable'
  BY <1>1 DEF IInv, DownIsEmpty, PlannedPushable, Pushable, InFlight
<1>5. StackIsSound'
  BY <1>1 DEF IInv, StackIsSound, SameCompositor, StackOfSession, SavedIsSound,
              SoundSave, OneEntryPerWindow, EntriesAreLive, Cached
<1> QED  BY <1>3, <1>4, <1>5 DEF IInv

-------------------------------------------------------------------------------
LEMMA InitSafe == Init => IInv
<1> SUFFICES ASSUME Init PROVE IInv
  OBVIOUS
<1>1. TypeOK
  <2>1. IdleTask \in Task
    BY DEF IdleTask, NoApplication, Application, Task, Place
  <2>2. <<>> \in Seq(Event) /\ NoWs \in Place /\ Gone \in WsName
    BY DEF Place, WsName
  <2>3. [stack |-> {}, session |-> 0] \in Disk
    BY DEF Disk
  <2> QED  BY <2>1, <2>2, <2>3, HideAssumption DEF Init, TypeOK
<1>2. \A t \in Tasks : task[t].pc = "idle"
  BY DEF Init, IdleTask
<1>3. DownIsEmpty /\ PlannedPushable
  BY <1>2 DEF Init, DownIsEmpty, PlannedPushable, InFlight
<1>4. StackIsSound
  BY DEF Init, StackIsSound, SameCompositor, StackOfSession, SavedIsSound,
         SoundSave, OneEntryPerWindow, EntriesAreLive
<1> QED  BY <1>1, <1>3, <1>4 DEF IInv

LEMMA NextSafe == IInv /\ [Next]_vars => IInv'
<1> SUFFICES ASSUME IInv, [Next]_vars PROVE IInv'
  OBVIOUS
<1>1. ASSUME NEW t \in Tasks, TaskSteps(t)  PROVE IInv'
  BY <1>1, StartSafe, ActSafe, CommitHideSafe, CommitRestoreSafe, UndoSafe DEF TaskSteps
<1>2. CASE Daemon
  BY <1>2, FocusHandlersSafe, WindowHandlersSafe, WindowChangedSafe, LoopActSafe, TrackedSafe,
     LinkSafe, TakeStateSafe, SaveSafe, DieSafe, RestartSafe DEF Daemon, Handle
<1>3. CASE World
  BY <1>3, ConfigSafe, UserSafe, LinkSafe, DieSafe, NiriRestartsSafe DEF World
<1>4. CASE UNCHANGED vars
  <2>1. TypeOK'
    BY <1>4 DEF vars, IInv, TypeOK
  <2> QED  BY <1>4, <2>1, StackUntouched, TasksUntouched DEF vars, IInv
<1> QED  BY <1>1, <1>2, <1>3, <1>4 DEF Next

\* The invariant holds in every reachable state, for all values of the constants.
THEOREM Inductive == Spec => []IInv
  BY InitSafe, NextSafe, PTL DEF Spec

\* Every variable keeps its type: in particular no event that is emitted or
\* handled, and no action of any plan, names a window or workspace that is not one.
THEOREM TypeCorrect == Spec => []TypeOK
<1>1. IInv => TypeOK
  BY DEF IInv
<1> QED  BY <1>1, Inductive, PTL

\* Concurrent hides of one window push one entry: commit_minimize finds out.
THEOREM NoDuplicateEntries == Spec => []OneEntryPerWindow
<1>1. IInv => OneEntryPerWindow
  BY DEF IInv, StackIsSound
<1> QED  BY <1>1, Inductive, PTL

\* However the close of a window interleaves with its hide or its restore, the
\* stack names no window that the daemon knows to be closed.
THEOREM NoDeadEntries == Spec => []EntriesAreLive
<1>1. IInv => EntriesAreLive
  BY DEF IInv, StackIsSound
<1> QED  BY <1>1, Inductive, PTL

\* No sequence of crashes, restarts and reconnects makes the daemon act on the
\* entries of one Niri session while it listens to another.
THEOREM NoForeignEntries == Spec => []EntriesOfThisSession
<1>1. IInv => EntriesOfThisSession
  BY DEF IInv, StackIsSound, SameCompositor, StackOfSession, EntriesOfThisSession
<1> QED  BY <1>1, Inductive, PTL

-------------------------------------------------------------------------------
(***************************************************************************)
(* Hidden or home: what the transaction promises to clients that wait,     *)
(* when at most one thing fails and nobody else moves a window.            *)
(*                                                                         *)
(* The compositor is compared with the state `home' it started in.  At     *)
(* rest the only differences are the hidden windows, which are on one      *)
(* workspace that was vacant at home, and the name that workspace bears.   *)
(* A transaction that is under way may have touched the windows of its own *)
(* entries and that name, and nothing else; what it has not done yet is    *)
(* still among the steps of its plan.                                      *)
(***************************************************************************)

\* Niri starts with no workspace that bears a scratchpad name, and its windows
\* are on workspaces.
Fresh(n) ==
    /\ \A ws \in Workspaces : n.name[ws] \notin Names
    /\ \A win \in Windows : Open(n, win) => Exists(n, n.loc[win])

\* Clients wait for each other and for the daemon; the user does no more than
\* change the focus; one thing fails at most.
Calm ==
    /\ ClientsWait /\ MaxInFlight = 1
    /\ Limits["fault"] <= 1
    /\ \A what \in Happenings \ {"focus", "fault"} : Limits[what] = 0
    /\ \A n \in InitialNiri : Fresh(n)

\* A workspace without name and windows at home: what a hide may choose.
Vacant(home, ws) ==
    /\ ws \in Workspaces /\ home.name[ws] = NoName
    /\ \A win \in Windows : home.loc[win] # ws

AtHome(home, win)  == niri.loc[win] = home.loc[win]
Away(win)          == niri.loc[win] \in ParkedAt
InPlace(home, win) == IF win \in Hidden THEN Away(win) ELSE AtHome(home, win)

\* One workspace at most bears the scratchpad's name, and it was vacant at home.
NamesInv(home) ==
    /\ \A ws \in Workspaces : \/ niri.name[ws] = home.name[ws]
                              \/ niri.name[ws] = padName /\ Vacant(home, ws)
    /\ \A a, b \in ParkedAt : a = b
    /\ \A win \in Windows : Open(niri, win) <=> Open(home, win)

Busy == UNION {{e.win : e \in task[t].app.entries} : t \in InFlight}

\* Step `act' is still to be done.
Left(plan, act) == \E s \in plan : s.act = act

\* A hide of e: the window is not hidden yet, and the workspace is the one that
\* has the name, or the one that the hide is giving it to.
HideFrame(home, app, e) ==
    /\ app.entries = {e}
    /\ e.win \notin Hidden /\ e.origin = home.loc[e.win] /\ Cached(e.win) /\ Known(e.origin)
    /\ app.pad = NoWs => stack # {} /\ ParkedAt # {}
    /\ app.pad # NoWs => stack = {} /\ Vacant(home, app.pad) /\ ParkedAt \subseteq {app.pad}
HideActs(app, plan, e) ==
    /\ \A s \in plan :
        \/ s.at = 0 /\ s.act = SetWorkspaceName(app.pad, padName) /\ app.pad # NoWs
        \/ s.at = 1 /\ s.act = MoveWindowToWorkspaceName(e.win, padName)
    /\ Left(plan, SetWorkspaceName(app.pad, padName)) \/ ParkedAt # {}
    /\ Left(plan, MoveWindowToWorkspaceName(e.win, padName)) \/ Away(e.win)
HideUndoes(home, app, plan, e) ==
    /\ \A s \in plan :
        \/ s.act = MoveWindowToWorkspace(e.win, e.origin)
        \/ s.act = FocusWindow(e.win)
        \/ s.act = UnsetWorkspaceName(padName) /\ app.pad # NoWs
    /\ Left(plan, MoveWindowToWorkspace(e.win, e.origin)) \/ AtHome(home, e.win)
    /\ app.pad # NoWs => Left(plan, UnsetWorkspaceName(padName)) \/ ParkedAt = {}
Hiding(home, r) ==
    \E e \in r.app.entries :
        /\ HideFrame(home, r.app, e)
        /\ r.pc = "acting" => HideActs(r.app, r.plan, e)
        /\ r.pc = "undoing" => HideUndoes(home, r.app, r.plan, e)

\* A restore of some entries: the name goes with the last of them.
RestoreFrame(home, app) ==
    /\ app.entries # {} /\ app.entries \subseteq stack /\ Vacant(home, app.pad)
    /\ ParkedAt \subseteq {app.pad}
    /\ app.cleanup <=> app.entries = stack
    /\ app.entries # stack => ParkedAt # {}
RestoreActs(home, app, plan) ==
    /\ \A s \in plan :
        \/ \E e \in app.entries : \/ s.act = MoveWindowToWorkspace(e.win, e.origin)
                                  \/ s.act = Relayout(e.win)
                                  \/ s.act = FocusWindow(e.win)
        \/ s.act = UnsetWorkspaceName(padName) /\ app.entries = stack
    /\ \A e \in app.entries :
        Left(plan, MoveWindowToWorkspace(e.win, e.origin)) \/ AtHome(home, e.win)
    /\ app.entries = stack => Left(plan, UnsetWorkspaceName(padName)) \/ ParkedAt = {}
RestoreUndoes(app, plan) ==
    /\ \A s \in plan :
        \/ s.at = 0 /\ s.act = SetWorkspaceName(app.pad, padName)
        \/ s.at > 0 /\ \E e \in app.entries : \/ s.act = MoveWindowToWorkspaceName(e.win, padName)
                                              \/ s.act = Relayout(e.win)
    /\ Left(plan, SetWorkspaceName(app.pad, padName)) \/ ParkedAt # {}
    /\ \A e \in app.entries :
        Left(plan, MoveWindowToWorkspaceName(e.win, padName)) \/ Away(e.win)
Restoring(home, r) ==
    /\ RestoreFrame(home, r.app)
    /\ r.pc = "acting" => RestoreActs(home, r.app, r.plan)
    /\ r.pc = "undoing" => RestoreUndoes(r.app, r.plan)

\* A transaction that failed has used up the failure.
TaskInv(home, t) ==
    /\ task[t].app.kind \in {"hide", "restore"}
    /\ task[t].app.kind = "hide" => Hiding(home, task[t])
    /\ task[t].app.kind = "restore" => Restoring(home, task[t])
    /\ task[t].pc \in {"failed", "undoing"} => budget["fault"] = 0

HomeFor(home) ==
    /\ NamesInv(home)
    /\ \A win \in Windows \ Busy : InPlace(home, win)
    /\ \A e \in stack : e.origin = home.loc[e.win]
    /\ \A s, t \in InFlight : s = t
    /\ \A t \in InFlight : TaskInv(home, t)
    /\ InFlight = {} /\ stack = {} => ParkedAt = {}

\* Before the daemon has seen the first snapshot it does nothing; what the
\* supervisor executes then is the guard's.
BootInv ==
    /\ link \in {"down", "off", "on"}
    /\ link # "down" => session = niriSession
    /\ link = "down" => disk.stack = {} /\ saving = {}
    /\ link # "on" => ~booted /\ queue = <<>>
    /\ ~booted => /\ stack = {} /\ InFlight = {}
                  /\ \A ws \in Workspaces : names[ws] # padName
    /\ \A s \in loop : s.act.kind = "FocusWorkspace"
    /\ tracked = {} /\ moves = {}

\* The only snapshot of the windows comes first.
SnapshotInv ==
    \A i \in 1..Len(queue) : queue[i].type = "WindowsChanged" =>
        ~booted /\ (i = 1 \/ (i = 2 /\ queue[1].type # "WindowsChanged"))

\* No event takes away a window or a workspace that was there at home.
EventsInv(home) ==
    \A e \in Events(queue) :
        /\ e.type # "WindowClosed"
        /\ e.type = "WorkspacesChanged" =>
             \A ws \in Workspaces : /\ Exists(home, ws) => e.names[ws] # Gone
                                    /\ ~booted => e.names[ws] # padName

EngineCache == [name |-> names, focus |-> focused, loc |-> windows]
CurrentInv == link = "on" => \A f \in Facets : Heard(queue, EngineCache, f, Part(niri, f))

BudgetInv == \A what \in Happenings : budget[what] <= Limits[what]

\* Nothing but the focus has changed.
LEMMA FocusEffect ==
    ASSUME TypeOK, NEW home, NamesInv(home),
           niri'.loc = niri.loc, niri'.name = niri.name, padName' = padName
    PROVE  /\ NamesInv(home)' /\ ParkedAt' = ParkedAt
           /\ \A win : Away(win)' <=> Away(win)
           /\ \A win : AtHome(home, win)' <=> AtHome(home, win)
<1>1. ParkedAt' = ParkedAt
  BY DEF ParkedAt, Named
<1> QED  BY <1>1 DEF NamesInv, Open, Away, AtHome

\* The workspace that may get the name gets it.
LEMMA NamingEffect ==
    ASSUME TypeOK, NEW home \in NiriState, NamesInv(home), NEW pad, Vacant(home, pad),
           ParkedAt \subseteq {pad}, padName' = padName,
           niri' = AfterAction(niri, SetWorkspaceName(pad, padName))
    PROVE  /\ NamesInv(home)' /\ ParkedAt' = {pad} /\ niri'.loc = niri.loc
           /\ \A win : Away(win) => Away(win)'
           /\ \A win : AtHome(home, win)' <=> AtHome(home, win)
<1>0. pad \in Workspaces
  BY DEF Vacant
<1>1. niri' = SetNameTo(niri, pad, padName)
  BY Requests
<1>2. niri.name \in [Workspaces -> WsName] /\ padName \in Names
  BY DEF TypeOK, NiriState
<1>3. Exists(niri, pad)
  BY <1>2, NiriAssumption DEF NamesInv, Vacant, Exists
<1>4. /\ niri'.loc = niri.loc
      /\ niri'.name[pad] = padName
      /\ \A ws \in Workspaces \ {pad} : niri'.name[ws] = niri.name[ws]
  <2>1. CASE ParkedAt = {}
    <3>1. niri' = [niri EXCEPT !.name[pad] = padName]
      BY <1>0, <1>1, <1>3, <2>1 DEF SetNameTo, ParkedAt
    <3>2. niri'.loc = niri.loc /\ niri'.name = [niri.name EXCEPT ![pad] = padName]
      BY <3>1 DEF TypeOK, NiriState
    <3> QED  BY <1>0, <1>2, <3>2
  <2>2. CASE ParkedAt # {}
    <3>1. pad \in ParkedAt /\ niri' = niri
      BY <1>1, <2>2 DEF SetNameTo, ParkedAt
    <3> QED  BY <3>1 DEF ParkedAt, Named
  <2> QED  BY <2>1, <2>2
<1>5. ParkedAt' = {pad}
  BY <1>0, <1>4 DEF ParkedAt, Named
<1>6. NamesInv(home)'
  BY <1>4, <1>5 DEF NamesInv, Open
<1> QED  BY <1>4, <1>5, <1>6 DEF Away, AtHome

\* No workspace has the name.
LEMMA UnnamingEffect ==
    ASSUME TypeOK, NEW home, \A ws \in Workspaces : home.name[ws] \notin Names,
           NamesInv(home), padName' = padName,
           niri' = AfterAction(niri, UnsetWorkspaceName(padName))
    PROVE  /\ NamesInv(home)' /\ ParkedAt' = {} /\ niri'.loc = niri.loc
           /\ \A win : AtHome(home, win)' <=> AtHome(home, win)
<1>1. niri' = UnsetName(niri, padName)
  BY Requests
<1>2. /\ niri'.loc = niri.loc
      /\ niri'.name = [ws \in Workspaces |-> IF niri.name[ws] = padName THEN NoName
                                             ELSE niri.name[ws]]
  BY <1>1 DEF UnsetName, TypeOK, NiriState
<1>3. padName # NoName
  BY NiriAssumption DEF TypeOK
<1>4. ParkedAt' = {}
  BY <1>2, <1>3 DEF ParkedAt, Named
<1>5. \A ws \in Workspaces : niri.name[ws] = padName => home.name[ws] \in {NoName, padName}
  BY DEF NamesInv, Vacant
<1>6. NamesInv(home)'
  <2>1. \A ws \in Workspaces : \/ niri'.name[ws] = home.name[ws]
                               \/ niri'.name[ws] = padName' /\ Vacant(home, ws)
    BY <1>2, <1>5 DEF NamesInv, TypeOK
  <2> QED  BY <1>2, <1>4, <2>1 DEF NamesInv, Open
<1> QED  BY <1>2, <1>4, <1>6 DEF AtHome

\* One window is moved and stays open.
LEMMA MovedEffect ==
    ASSUME TypeOK, NEW home, NamesInv(home), NEW win \in Windows,
           Open(niri, win), niri'.loc[win] \in Workspaces,
           niri'.name = niri.name, padName' = padName,
           \A u \in Windows \ {win} : niri'.loc[u] = niri.loc[u]
    PROVE  /\ NamesInv(home)' /\ ParkedAt' = ParkedAt
           /\ \A u \in Windows \ {win} : /\ Away(u)' <=> Away(u)
                                         /\ AtHome(home, u)' <=> AtHome(home, u)
<1>1. ParkedAt' = ParkedAt
  BY DEF ParkedAt, Named
<1>2. \A u \in Windows : Open(niri', u) <=> Open(niri, u)
  BY NiriAssumption DEF Open
<1> QED  BY <1>1, <1>2 DEF NamesInv, Away, AtHome

\* The window is moved to the workspace that has the name.
LEMMA ParkEffect ==
    ASSUME TypeOK, NEW home, NamesInv(home), NEW win \in Windows, Open(home, win),
           ParkedAt # {}, padName' = padName,
           niri' = AfterAction(niri, MoveWindowToWorkspaceName(win, padName))
    PROVE  /\ NamesInv(home)' /\ ParkedAt' = ParkedAt /\ Away(win)'
           /\ \A u \in Windows \ {win} : /\ Away(u)' <=> Away(u)
                                         /\ AtHome(home, u)' <=> AtHome(home, u)
<1>0. niri \in NiriState
  BY DEF TypeOK
<1>1. niri' = MoveTo(niri, win, ParkedAt)
  <2>1. AfterAction(niri, MoveWindowToWorkspaceName(win, padName)) = MoveTo(niri, win, ParkedAt)
    BY Requests DEF ParkedAt
  <2> QED  BY <2>1
<1>2. ParkedAt \in SUBSET Workspaces
  BY DEF ParkedAt, Named
<1>3. Open(niri, win)
  BY DEF NamesInv
<1>4. /\ niri'.name = niri.name /\ niri'.loc[win] \in ParkedAt
      /\ \A u \in Windows \ {win} : niri'.loc[u] = niri.loc[u]
  BY <1>0, <1>1, <1>2, <1>3, MoveEffect
<1>5. niri'.loc[win] \in Workspaces
  BY <1>2, <1>4
<1>6. /\ NamesInv(home)' /\ ParkedAt' = ParkedAt
      /\ \A u \in Windows \ {win} : /\ Away(u)' <=> Away(u)
                                    /\ AtHome(home, u)' <=> AtHome(home, u)
  BY <1>3, <1>4, <1>5, MovedEffect
<1>7. Away(win)'
  BY <1>4, <1>6 DEF Away
<1> QED  BY <1>6, <1>7

\* The window is moved home.
LEMMA HomeEffect ==
    ASSUME TypeOK, NEW home \in NiriState, NamesInv(home), NEW win \in Windows, Open(home, win),
           Exists(home, home.loc[win]), padName' = padName,
           niri' = AfterAction(niri, MoveWindowToWorkspace(win, home.loc[win]))
    PROVE  /\ NamesInv(home)' /\ ParkedAt' = ParkedAt /\ AtHome(home, win)'
           /\ \A u \in Windows \ {win} : /\ Away(u)' <=> Away(u)
                                         /\ AtHome(home, u)' <=> AtHome(home, u)
<1> DEFINE ws == home.loc[win]
           targets == {x \in {ws} \cap Workspaces : Exists(niri, x)}
<1>0. niri \in NiriState
  BY DEF TypeOK
<1>1. niri' = MoveTo(niri, win, targets)
  <2>1. AfterAction(niri, MoveWindowToWorkspace(win, ws)) = MoveTo(niri, win, targets)
    BY Requests
  <2> QED  BY <2>1
<1>2. ws \in Workspaces
  BY DEF Open, NiriState, Place
<1>3. Exists(niri, ws)
  BY <1>2, NiriAssumption DEF NamesInv, Exists, TypeOK
<1>4. targets = {ws} /\ targets \in SUBSET Workspaces
  BY <1>2, <1>3
<1>5. Open(niri, win)
  BY DEF NamesInv
<1> HIDE DEF targets
<1>6. /\ niri'.name = niri.name /\ niri'.loc[win] \in targets
      /\ \A u \in Windows \ {win} : niri'.loc[u] = niri.loc[u]
  BY <1>0, <1>1, <1>4, <1>5, MoveEffect
<1>7. niri'.loc[win] = ws
  BY <1>4, <1>6
<1>8. /\ NamesInv(home)' /\ ParkedAt' = ParkedAt
      /\ \A u \in Windows \ {win} : /\ Away(u)' <=> Away(u)
                                    /\ AtHome(home, u)' <=> AtHome(home, u)
  BY <1>2, <1>5, <1>6, <1>7, MovedEffect
<1> QED  BY <1>7, <1>8 DEF AtHome

\* These requests move no window and name no workspace.
LEMMA FocusRequests ==
    ASSUME TypeOK
    PROVE  /\ \A win : /\ AfterAction(niri, FocusWindow(win)).loc = niri.loc
                       /\ AfterAction(niri, FocusWindow(win)).name = niri.name
                       /\ AfterAction(niri, Relayout(win)) = niri
           /\ \A ws : /\ AfterAction(niri, FocusWorkspace(ws)).loc = niri.loc
                      /\ AfterAction(niri, FocusWorkspace(ws)).name = niri.name
<1>1. \A ws : FocusOn(niri, ws).loc = niri.loc /\ FocusOn(niri, ws).name = niri.name
  BY DEF FocusOn, TypeOK, NiriState
<1> QED  BY <1>1, Requests

-------------------------------------------------------------------------------
(* The steps of a hide and of its compensation. *)

LEMMA HideActStep ==
    ASSUME TypeOK, NEW home \in NiriState, Fresh(home), NamesInv(home),
           NEW app \in Application, NEW e \in app.entries, NEW plan \in SUBSET Step,
           HideFrame(home, app, e), HideActs(app, plan, e), NEW s \in NextStep(plan),
           niri' = AfterAction(niri, s.act), UNCHANGED <<padName, stack, windows, names>>
    PROVE  /\ NamesInv(home)' /\ HideFrame(home, app, e)' /\ HideActs(app, plan \ {s}, e)'
           /\ \A u \in Windows \ {e.win} : InPlace(home, u) => InPlace(home, u)'
<1> DEFINE set == SetWorkspaceName(app.pad, padName)
           move == MoveWindowToWorkspaceName(e.win, padName)
<1>1. set # move
  BY DEF SetWorkspaceName, MoveWindowToWorkspaceName
<1>2. e.win \in Windows /\ e.origin \in Workspaces /\ Open(home, e.win)
  <2>1. e \in Entry
    BY DEF Application
  <2> QED  BY <2>1, NiriAssumption DEF Entry, HideFrame, Known, Open
<1>3. s \in plan /\ \A r \in plan : s.at <= r.at
  BY DEF NextStep
<1>4. Hidden' = Hidden /\ Cached(e.win)' /\ Known(e.origin)'
  BY DEF HideFrame, Hidden, Cached, Known
<1>5. CASE s.act = set /\ app.pad # NoWs
  <2>1. Vacant(home, app.pad) /\ ParkedAt \subseteq {app.pad} /\ stack = {}
    BY <1>5 DEF HideFrame
  <2>2. /\ NamesInv(home)' /\ ParkedAt' = {app.pad}
        /\ \A win : Away(win) => Away(win)'
        /\ \A win : AtHome(home, win)' <=> AtHome(home, win)
    BY <1>5, <2>1, NamingEffect
  <2>3. HideFrame(home, app, e)'
    BY <1>4, <1>5, <2>1, <2>2 DEF HideFrame, Vacant
  <2>4. HideActs(app, plan \ {s}, e)'
    BY <1>1, <1>5, <2>2 DEF HideActs, Left
  <2> QED  BY <1>4, <2>2, <2>3, <2>4 DEF InPlace
<1>6. CASE s.at = 1 /\ s.act = move
  <2>1. ~Left(plan, set)
    BY <1>1, <1>3, <1>6 DEF Left, HideActs
  <2>2. ParkedAt # {}
    BY <2>1 DEF HideActs
  <2>3. /\ NamesInv(home)' /\ ParkedAt' = ParkedAt /\ Away(e.win)'
        /\ \A u \in Windows \ {e.win} : /\ Away(u)' <=> Away(u)
                                        /\ AtHome(home, u)' <=> AtHome(home, u)
    BY <1>2, <1>6, <2>2, ParkEffect
  <2>4. HideFrame(home, app, e)'
    BY <1>4, <2>3 DEF HideFrame, Vacant
  <2>5. HideActs(app, plan \ {s}, e)'
    BY <2>2, <2>3 DEF HideActs
  <2> QED  BY <1>4, <2>3, <2>4, <2>5 DEF InPlace
<1> QED  BY <1>3, <1>5, <1>6 DEF HideActs

LEMMA HideUndoStep ==
    ASSUME TypeOK, NEW home \in NiriState, Fresh(home), NamesInv(home),
           NEW app \in Application, NEW e \in app.entries, NEW plan \in SUBSET Step,
           HideFrame(home, app, e), HideUndoes(home, app, plan, e), NEW s \in plan,
           niri' = AfterAction(niri, s.act), UNCHANGED <<padName, stack, windows, names>>
    PROVE  /\ NamesInv(home)' /\ HideFrame(home, app, e)'
           /\ HideUndoes(home, app, plan \ {s}, e)'
           /\ \A u \in Windows \ {e.win} : InPlace(home, u) => InPlace(home, u)'
<1> DEFINE back == MoveWindowToWorkspace(e.win, e.origin)
           unset == UnsetWorkspaceName(padName)
<1>1. back # unset /\ back # FocusWindow(e.win) /\ unset # FocusWindow(e.win)
  BY DEF MoveWindowToWorkspace, UnsetWorkspaceName, FocusWindow
<1>2. e.win \in Windows /\ e.origin \in Workspaces /\ Open(home, e.win)
      /\ e.origin = home.loc[e.win] /\ Exists(home, home.loc[e.win])
  <2>1. e \in Entry
    BY DEF Application
  <2> QED  BY <2>1, NiriAssumption DEF Entry, HideFrame, Known, Open, Fresh
<1>4. Hidden' = Hidden /\ Cached(e.win)' /\ Known(e.origin)'
  BY DEF HideFrame, Hidden, Cached, Known
<1>5. CASE s.act = back
  <2>1. /\ NamesInv(home)' /\ ParkedAt' = ParkedAt /\ AtHome(home, e.win)'
        /\ \A u \in Windows \ {e.win} : /\ Away(u)' <=> Away(u)
                                        /\ AtHome(home, u)' <=> AtHome(home, u)
    BY <1>2, <1>5, HomeEffect
  <2>2. HideFrame(home, app, e)'
    BY <1>4, <2>1 DEF HideFrame, Vacant
  <2>3. HideUndoes(home, app, plan \ {s}, e)'
    BY <1>1, <1>5, <2>1 DEF HideUndoes, Left
  <2> QED  BY <1>4, <2>1, <2>2, <2>3 DEF InPlace
<1>6. CASE s.act = FocusWindow(e.win)
  <2>1. niri'.loc = niri.loc /\ niri'.name = niri.name
    BY <1>2, <1>6, FocusRequests
  <2>2. /\ NamesInv(home)' /\ ParkedAt' = ParkedAt
        /\ \A win : Away(win)' <=> Away(win)
        /\ \A win : AtHome(home, win)' <=> AtHome(home, win)
    BY <2>1, FocusEffect
  <2>3. HideFrame(home, app, e)'
    BY <1>4, <2>2 DEF HideFrame, Vacant
  <2>4. HideUndoes(home, app, plan \ {s}, e)'
    BY <1>1, <1>6, <2>2 DEF HideUndoes, Left
  <2> QED  BY <1>4, <2>2, <2>3, <2>4 DEF InPlace
<1>7. CASE s.act = unset /\ app.pad # NoWs
  <2>1. stack = {} /\ Vacant(home, app.pad)
    BY <1>7 DEF HideFrame
  <2>2. /\ NamesInv(home)' /\ ParkedAt' = {}
        /\ \A win : AtHome(home, win)' <=> AtHome(home, win)
    BY <1>7, UnnamingEffect DEF Fresh
  <2>3. HideFrame(home, app, e)'
    BY <1>4, <1>7, <2>1, <2>2 DEF HideFrame, Vacant
  <2>4. HideUndoes(home, app, plan \ {s}, e)'
    BY <1>1, <1>7, <2>2 DEF HideUndoes, Left
  <2>5. Hidden = {}
    BY <2>1 DEF Hidden
  <2> QED  BY <1>4, <2>2, <2>3, <2>4, <2>5 DEF InPlace
<1> QED  BY <1>5, <1>6, <1>7 DEF HideUndoes

-------------------------------------------------------------------------------
(* The steps of a restore and of its compensation. *)

WindowsOf(entries) == {e.win : e \in entries}

LEMMA EntryHome ==
    ASSUME TypeOK, NEW home \in NiriState, Fresh(home), NEW e \in stack,
           e.origin = home.loc[e.win]
    PROVE  /\ e.win \in Windows /\ e.origin \in Workspaces /\ Open(home, e.win)
           /\ Exists(home, home.loc[e.win])
<1>1. e \in Stacked
  BY DEF TypeOK
<1> QED  BY <1>1 DEF Stacked, Entry, Place, Open, Fresh

LEMMA RestoreActStep ==
    ASSUME TypeOK, NEW home \in NiriState, Fresh(home), NamesInv(home),
           \A e \in stack : e.origin = home.loc[e.win],
           NEW app \in Application, NEW plan \in SUBSET Step,
           RestoreFrame(home, app), RestoreActs(home, app, plan), NEW s \in plan,
           niri' = AfterAction(niri, s.act), UNCHANGED <<padName, stack>>
    PROVE  /\ NamesInv(home)' /\ RestoreFrame(home, app)' /\ RestoreActs(home, app, plan \ {s})'
           /\ \A u \in Windows \ WindowsOf(app.entries) : InPlace(home, u) => InPlace(home, u)'
<1> DEFINE unset == UnsetWorkspaceName(padName)
           Back(e) == MoveWindowToWorkspace(e.win, e.origin)
<1>1. \A e : Back(e) # unset /\ Back(e).win = e.win /\ unset # FocusWindow(e.win)
             /\ unset # Relayout(e.win)
  BY DEF MoveWindowToWorkspace, UnsetWorkspaceName, FocusWindow, Relayout
<1>2. \A e, f : Back(e) # FocusWindow(f.win) /\ Back(e) # Relayout(f.win)
  BY DEF MoveWindowToWorkspace, FocusWindow, Relayout
<1>3. Hidden' = Hidden
  BY DEF Hidden
<1>4. ASSUME NamesInv(home)', ParkedAt' = ParkedAt
      PROVE  RestoreFrame(home, app)'
  BY <1>4 DEF RestoreFrame, Vacant
<1>5. ASSUME NEW e \in app.entries, s.act = Back(e)
      PROVE  /\ NamesInv(home)' /\ RestoreFrame(home, app)'
             /\ RestoreActs(home, app, plan \ {s})'
             /\ \A u \in Windows \ WindowsOf(app.entries) : InPlace(home, u) => InPlace(home, u)'
  <2>1. e \in stack /\ e.origin = home.loc[e.win]
    BY DEF RestoreFrame
  <2>2. e.win \in Windows /\ Open(home, e.win) /\ Exists(home, home.loc[e.win])
    BY <2>1, EntryHome
  <2>3. /\ NamesInv(home)' /\ ParkedAt' = ParkedAt /\ AtHome(home, e.win)'
        /\ \A u \in Windows \ {e.win} : /\ Away(u)' <=> Away(u)
                                        /\ AtHome(home, u)' <=> AtHome(home, u)
    BY <1>5, <2>1, <2>2, HomeEffect
  <2>4. \A f \in app.entries : Left(plan \ {s}, Back(f)) \/ AtHome(home, f.win)'
    <3> SUFFICES ASSUME NEW f \in app.entries, ~Left(plan \ {s}, Back(f))
                 PROVE  AtHome(home, f.win)'
      OBVIOUS
    <3>1. f.win \in Windows
      BY EntryHome DEF RestoreFrame
    <3>2. CASE f.win = e.win
      BY <2>3, <3>2
    <3>3. CASE f.win # e.win
      <4>1. Back(f) # s.act
        BY <1>1, <1>5, <3>3
      <4>2. ~Left(plan, Back(f))
        BY <4>1 DEF Left
      <4> QED  BY <2>3, <3>1, <3>3, <4>2 DEF RestoreActs
    <3> QED  BY <3>2, <3>3
  <2>5. app.entries = stack => Left(plan \ {s}, unset) \/ ParkedAt = {}
    BY <1>1, <1>5 DEF RestoreActs, Left
  <2>6. RestoreActs(home, app, plan \ {s})'
    BY <2>3, <2>4, <2>5 DEF RestoreActs, Left
  <2>7. \A u \in Windows \ WindowsOf(app.entries) : u # e.win
    BY DEF WindowsOf
  <2> QED  BY <1>3, <1>4, <2>3, <2>6, <2>7 DEF InPlace
<1>6. ASSUME NEW e \in app.entries, s.act = Relayout(e.win) \/ s.act = FocusWindow(e.win)
      PROVE  /\ NamesInv(home)' /\ RestoreFrame(home, app)'
             /\ RestoreActs(home, app, plan \ {s})'
             /\ \A u \in Windows \ WindowsOf(app.entries) : InPlace(home, u) => InPlace(home, u)'
  <2>1. niri'.loc = niri.loc /\ niri'.name = niri.name
    BY <1>6, FocusRequests
  <2>2. /\ NamesInv(home)' /\ ParkedAt' = ParkedAt
        /\ \A win : Away(win)' <=> Away(win)
        /\ \A win : AtHome(home, win)' <=> AtHome(home, win)
    BY <2>1, FocusEffect
  <2>3. \A f \in app.entries : Left(plan, Back(f)) => Left(plan \ {s}, Back(f))
    BY <1>2, <1>6 DEF Left
  <2>4. Left(plan, unset) => Left(plan \ {s}, unset)
    BY <1>1, <1>6 DEF Left
  <2>5. RestoreActs(home, app, plan \ {s})'
    BY <2>2, <2>3, <2>4 DEF RestoreActs, Left
  <2> QED  BY <1>3, <1>4, <2>2, <2>5 DEF InPlace
<1>7. ASSUME s.act = unset, app.entries = stack
      PROVE  /\ NamesInv(home)' /\ RestoreFrame(home, app)'
             /\ RestoreActs(home, app, plan \ {s})'
             /\ \A u \in Windows \ WindowsOf(app.entries) : InPlace(home, u) => InPlace(home, u)'
  <2>2. /\ NamesInv(home)' /\ ParkedAt' = {}
        /\ \A win : AtHome(home, win)' <=> AtHome(home, win)
    BY <1>7, UnnamingEffect DEF Fresh
  <2>3. RestoreFrame(home, app)'
    BY <1>7, <2>2 DEF RestoreFrame, Vacant
  <2>4. \A f \in app.entries : Left(plan, Back(f)) => Left(plan \ {s}, Back(f))
    BY <1>1, <1>7 DEF Left
  <2>5. RestoreActs(home, app, plan \ {s})'
    BY <2>2, <2>4 DEF RestoreActs, Left
  <2>6. \A u \in Windows \ WindowsOf(app.entries) : u \notin Hidden
    BY <1>7 DEF WindowsOf, Hidden
  <2> QED  BY <1>3, <2>2, <2>3, <2>5, <2>6 DEF InPlace
<1> QED  BY <1>5, <1>6, <1>7 DEF RestoreActs

LEMMA RestoreUndoStep ==
    ASSUME TypeOK, NEW home \in NiriState, Fresh(home), NamesInv(home),
           \A e \in stack : e.origin = home.loc[e.win],
           NEW app \in Application, NEW plan \in SUBSET Step,
           RestoreFrame(home, app), RestoreUndoes(app, plan), NEW s \in NextStep(plan),
           niri' = AfterAction(niri, s.act), UNCHANGED <<padName, stack>>
    PROVE  /\ NamesInv(home)' /\ RestoreFrame(home, app)' /\ RestoreUndoes(app, plan \ {s})'
           /\ \A u \in Windows \ WindowsOf(app.entries) : InPlace(home, u) => InPlace(home, u)'
<1> DEFINE set == SetWorkspaceName(app.pad, padName)
           Park(e) == MoveWindowToWorkspaceName(e.win, padName)
<1>1. \A e : Park(e) # set /\ Park(e).win = e.win /\ Relayout(e.win) # set
  BY DEF MoveWindowToWorkspaceName, SetWorkspaceName, Relayout
<1>2. \A e, f : Park(e) # Relayout(f.win)
  BY DEF MoveWindowToWorkspaceName, Relayout
<1>3. Hidden' = Hidden /\ s \in plan /\ \A r \in plan : s.at <= r.at
  BY DEF Hidden, NextStep
<1>4. ASSUME ParkedAt' = ParkedAt
      PROVE  RestoreFrame(home, app)'
  BY <1>4 DEF RestoreFrame, Vacant
<1>5. ASSUME NEW e \in app.entries, s.at > 0, s.act = Park(e)
      PROVE  /\ NamesInv(home)' /\ RestoreFrame(home, app)' /\ RestoreUndoes(app, plan \ {s})'
             /\ \A u \in Windows \ WindowsOf(app.entries) : InPlace(home, u) => InPlace(home, u)'
  <2>1. e \in stack /\ e.origin = home.loc[e.win]
    BY DEF RestoreFrame
  <2>2. e.win \in Windows /\ Open(home, e.win)
    BY <2>1, EntryHome
  <2>3. ParkedAt # {}
    <3>1. \A r \in plan : r.at # 0
      <4> SUFFICES ASSUME NEW r \in plan, r.at = 0 PROVE FALSE
        OBVIOUS
      <4>1. s.at <= 0 /\ s.at \in Nat
        BY <1>3 DEF Step
      <4> QED  BY <1>5, <4>1
    <3>2. ~Left(plan, set)
      BY <1>1, <3>1 DEF Left, RestoreUndoes
    <3> QED  BY <3>2 DEF RestoreUndoes
  <2>4. /\ NamesInv(home)' /\ ParkedAt' = ParkedAt /\ Away(e.win)'
        /\ \A u \in Windows \ {e.win} : /\ Away(u)' <=> Away(u)
                                        /\ AtHome(home, u)' <=> AtHome(home, u)
    BY <1>5, <2>2, <2>3, ParkEffect
  <2>5. \A f \in app.entries : Left(plan \ {s}, Park(f)) \/ Away(f.win)'
    <3> SUFFICES ASSUME NEW f \in app.entries, ~Left(plan \ {s}, Park(f))
                 PROVE  Away(f.win)'
      OBVIOUS
    <3>1. f.win \in Windows
      BY EntryHome DEF RestoreFrame
    <3>2. CASE f.win = e.win
      BY <2>4, <3>2
    <3>3. CASE f.win # e.win
      <4>1. Park(f) # s.act
        BY <1>1, <1>5, <3>3
      <4>2. ~Left(plan, Park(f))
        BY <4>1 DEF Left
      <4> QED  BY <2>4, <3>1, <3>3, <4>2 DEF RestoreUndoes
    <3> QED  BY <3>2, <3>3
  <2>6. RestoreUndoes(app, plan \ {s})'
    BY <2>3, <2>4, <2>5 DEF RestoreUndoes, Left
  <2>7. \A u \in Windows \ WindowsOf(app.entries) : u # e.win
    BY DEF WindowsOf
  <2> QED  BY <1>3, <1>4, <2>4, <2>6, <2>7 DEF InPlace
<1>6. ASSUME NEW e \in app.entries, s.act = Relayout(e.win)
      PROVE  /\ NamesInv(home)' /\ RestoreFrame(home, app)' /\ RestoreUndoes(app, plan \ {s})'
             /\ \A u \in Windows \ WindowsOf(app.entries) : InPlace(home, u) => InPlace(home, u)'
  <2>1. niri'.loc = niri.loc /\ niri'.name = niri.name
    BY <1>6, FocusRequests
  <2>2. /\ NamesInv(home)' /\ ParkedAt' = ParkedAt
        /\ \A win : Away(win)' <=> Away(win)
        /\ \A win : AtHome(home, win)' <=> AtHome(home, win)
    BY <2>1, FocusEffect
  <2>3. \A f \in app.entries : Left(plan, Park(f)) => Left(plan \ {s}, Park(f))
    BY <1>2, <1>6 DEF Left
  <2>4. Left(plan, set) => Left(plan \ {s}, set)
    BY <1>1, <1>6 DEF Left
  <2>5. RestoreUndoes(app, plan \ {s})'
    BY <2>2, <2>3, <2>4 DEF RestoreUndoes, Left
  <2> QED  BY <1>3, <1>4, <2>2, <2>5 DEF InPlace
<1>7. ASSUME s.act = set
      PROVE  /\ NamesInv(home)' /\ RestoreFrame(home, app)' /\ RestoreUndoes(app, plan \ {s})'
             /\ \A u \in Windows \ WindowsOf(app.entries) : InPlace(home, u) => InPlace(home, u)'
  <2>1. Vacant(home, app.pad) /\ ParkedAt \subseteq {app.pad}
    BY DEF RestoreFrame
  <2>2. /\ NamesInv(home)' /\ ParkedAt' = {app.pad}
        /\ \A win : Away(win) => Away(win)'
        /\ \A win : AtHome(home, win)' <=> AtHome(home, win)
    BY <1>7, <2>1, NamingEffect
  <2>3. RestoreFrame(home, app)'
    BY <2>2 DEF RestoreFrame, Vacant
  <2>4. \A f \in app.entries : Left(plan, Park(f)) => Left(plan \ {s}, Park(f))
    BY <1>1, <1>7 DEF Left
  <2>5. RestoreUndoes(app, plan \ {s})'
    BY <2>2, <2>4 DEF RestoreUndoes, Left
  <2> QED  BY <1>3, <2>2, <2>3, <2>5 DEF InPlace
<1> QED  BY <1>3, <1>5, <1>6, <1>7 DEF RestoreUndoes

-------------------------------------------------------------------------------
(* What is left to show of a step. *)

\* What is under way is one request at most.
LEMMA SingleTask ==
    ASSUME \A s, t \in InFlight : s = t, NEW t \in InFlight
    PROVE  InFlight = {t} /\ Busy = WindowsOf(task[t].app.entries)
<1>1. InFlight = {t}
  OBVIOUS
<1> QED  BY <1>1 DEF Busy, WindowsOf

\* A step that moves no window, names no workspace and works for no client.
LEMMA HomeStays ==
    ASSUME TypeOK, NEW home \in NiriState, Fresh(home), HomeFor(home),
           niri'.loc = niri.loc, niri'.name = niri.name, UNCHANGED <<padName, stack, task>>,
           budget["fault"] = 0 => budget'["fault"] = 0,
           InFlight # {} => /\ \A ws \in Workspaces : Exists(home, ws) /\ Known(ws) => Known(ws)'
                            /\ \A win \in Windows : Cached(win) => Cached(win)'
    PROVE  HomeFor(home)'
<1>1. /\ NamesInv(home)' /\ ParkedAt' = ParkedAt
      /\ \A win : Away(win)' <=> Away(win)
      /\ \A win : AtHome(home, win)' <=> AtHome(home, win)
  BY FocusEffect DEF HomeFor
<1>2. InFlight' = InFlight /\ Busy' = Busy /\ Hidden' = Hidden
  BY DEF InFlight, Busy, Hidden
<1>3. ASSUME NEW e \in Entry, NEW app, InFlight # {}, HideFrame(home, app, e)
      PROVE  HideFrame(home, app, e)'
  <2>1. e.win \in Windows /\ e.origin \in Workspaces /\ Open(home, e.win)
    BY <1>3, NiriAssumption DEF Entry, HideFrame, Known, Open
  <2>2. Cached(e.win)' /\ Known(e.origin)'
    BY <1>3, <2>1 DEF HideFrame, Fresh
  <2> QED  BY <1>1, <1>2, <1>3, <2>2 DEF HideFrame, Vacant
<1>4. \A app, plan, e : HideActs(app, plan, e) => HideActs(app, plan, e)'
  BY <1>1 DEF HideActs, Left
<1>5. \A app, plan, e : HideUndoes(home, app, plan, e) => HideUndoes(home, app, plan, e)'
  BY <1>1 DEF HideUndoes, Left
<1>6. \A app : RestoreFrame(home, app) => RestoreFrame(home, app)'
  BY <1>1 DEF RestoreFrame, Vacant
<1>7. \A app, plan : RestoreActs(home, app, plan) => RestoreActs(home, app, plan)'
  BY <1>1 DEF RestoreActs, Left
<1>8. \A app, plan : RestoreUndoes(app, plan) => RestoreUndoes(app, plan)'
  BY <1>1 DEF RestoreUndoes, Left
<1>9. \A t \in InFlight : TaskInv(home, t) => TaskInv(home, t)'
  <2>1. \A r \in Task : InFlight # {} /\ Hiding(home, r) => Hiding(home, r)'
    BY <1>3, <1>4, <1>5 DEF Hiding, Task, Application
  <2>2. \A r : Restoring(home, r) => Restoring(home, r)'
    BY <1>6, <1>7, <1>8 DEF Restoring
  <2>3. \A t \in InFlight : task[t] \in Task
    BY DEF InFlight, TypeOK
  <2> QED  BY <2>1, <2>2, <2>3 DEF TaskInv
<1>10. \A win : InPlace(home, win) => InPlace(home, win)'
  BY <1>1, <1>2 DEF InPlace
<1> QED  BY <1>1, <1>2, <1>9, <1>10 DEF HomeFor

\* A request begins.
LEMMA Begun ==
    ASSUME TypeOK, NEW home, HomeFor(home), InFlight = {}, NEW t \in Tasks, NEW r,
           task' = [task EXCEPT ![t] = r], r.pc = "acting", UNCHANGED <<niri, padName, stack>>,
           TaskInv(home, t)'
    PROVE  HomeFor(home)'
<1>1. /\ NamesInv(home)' /\ ParkedAt' = ParkedAt
      /\ \A win : Away(win)' <=> Away(win)
      /\ \A win : AtHome(home, win)' <=> AtHome(home, win)
  BY FocusEffect DEF HomeFor
<1>2. InFlight' = {t} /\ Busy = {}
  BY DEF InFlight, Busy, TypeOK
<1>3. \A win : InPlace(home, win) => InPlace(home, win)'
  BY <1>1 DEF InPlace, Hidden
<1> QED  BY <1>1, <1>2, <1>3 DEF HomeFor

\* A request goes on.
LEMMA Onward ==
    ASSUME TypeOK, NEW home, HomeFor(home), NEW t \in InFlight, NEW r,
           task' = [task EXCEPT ![t] = r], r.pc \in {"acting", "failed", "undoing"},
           r.app = task[t].app, UNCHANGED stack, NamesInv(home)', TaskInv(home, t)',
           \A u \in Windows \ WindowsOf(r.app.entries) : InPlace(home, u) => InPlace(home, u)'
    PROVE  HomeFor(home)'
<1>1. InFlight = {t} /\ Busy = WindowsOf(r.app.entries)
  BY SingleTask DEF HomeFor
<1>2. t \in Tasks /\ task'[t] = r /\ \A s \in Tasks \ {t} : task'[s] = task[s]
  BY DEF InFlight, TypeOK
<1>3. InFlight' = {t}
  BY <1>1, <1>2 DEF InFlight
<1>4. Busy' = WindowsOf(r.app.entries)
  BY <1>2, <1>3 DEF Busy, WindowsOf
<1> QED  BY <1>1, <1>3, <1>4 DEF HomeFor

\* A request is over.
LEMMA Finished ==
    ASSUME TypeOK, NEW home, HomeFor(home), NEW t \in InFlight,
           task' = [task EXCEPT ![t] = DoneTask], NamesInv(home)',
           \A win \in Windows : InPlace(home, win)',
           \A e \in stack' : e.origin = home.loc[e.win],
           stack' = {} => ParkedAt' = {}
    PROVE  HomeFor(home)'
<1>1. InFlight = {t}
  BY SingleTask DEF HomeFor
<1>2. t \in Tasks /\ task'[t] = DoneTask /\ \A s \in Tasks \ {t} : task'[s] = task[s]
  BY DEF InFlight, TypeOK
<1>3. InFlight' = {}
  BY <1>1, <1>2 DEF InFlight, DoneTask, IdleTask
<1> QED  BY <1>3 DEF HomeFor

-------------------------------------------------------------------------------
(* How a request begins. *)

\* When every event has been handled the cache is the compositor's state.
LEMMA CacheAtRest ==
    ASSUME TypeOK, CurrentInv, CaughtUp
    PROVE  windows = niri.loc /\ names = niri.name
<1>1. \A f \in Facets : Part(EngineCache, f) = Part(niri, f)
  <2>1. Len(queue) = 0
    BY DEF CaughtUp
  <2>2. 1..Len(queue) = {}
    BY <2>1
  <2> QED  BY <2>2 DEF CurrentInv, CaughtUp, Heard
<1>2. PICK c : c = EngineCache
  OBVIOUS
<1>3. c.name = names /\ c.loc = windows
  BY <1>2 DEF EngineCache
<1>4. names = niri.name
  <2>1. PICK f \in Facets : f.part = "names"
    <3>1. [part |-> "names", win |-> NoWin] \in Facets
      BY DEF Facets
    <3> QED  BY <3>1
  <2> QED  BY <1>1, <1>2, <1>3, <2>1 DEF Part
<1>5. \A win \in Windows : windows[win] = niri.loc[win]
  <2> SUFFICES ASSUME NEW win \in Windows PROVE windows[win] = niri.loc[win]
    OBVIOUS
  <2>1. PICK f \in Facets : f.part = "loc" /\ f.win = win
    <3>1. [part |-> "loc", win |-> win] \in Facets
      BY DEF Facets
    <3> QED  BY <3>1
  <2> QED  BY <1>1, <1>2, <1>3, <2>1 DEF Part
<1>6. windows = niri.loc
  BY <1>5 DEF TypeOK, NiriState
<1> QED  BY <1>4, <1>6

\* A client that waits finds the cache current and nobody served.
LEMMA AtRest ==
    ASSUME TypeOK, NEW home, HomeFor(home), CurrentInv, ClientsWait, MaxInFlight = 1,
           NEW t, CanBegin(t)
    PROVE  InFlight = {} /\ windows = niri.loc /\ names = niri.name
<1>1. CaughtUp /\ Cardinality(InFlight) < 1
  BY DEF CanBegin
<1>2. InFlight = {}
  <2> SUFFICES ASSUME NEW s \in InFlight PROVE FALSE
    OBVIOUS
  <2>1. InFlight = {s}
    BY SingleTask DEF HomeFor
  <2>2. Cardinality({s}) = 1
    BY FS_Singleton
  <2> QED  BY <1>1, <2>1, <2>2
<1> QED  BY <1>1, <1>2, CacheAtRest

\* The plan of a hide.
LEMMA HidePlanned ==
    ASSUME TypeOK, NEW home \in NiriState, Fresh(home), HomeFor(home),
           InFlight = {}, windows = niri.loc, names = niri.name,
           NEW win \in Windows, NEW p \in HidePlans(win)
    PROVE  /\ p.app.kind = "hide"
           /\ \E e \in p.app.entries : HideFrame(home, p.app, e) /\ HideActs(p.app, p.plan, e)
<1> DEFINE entry == [win |-> win, origin |-> windows[win], at |-> 0, ses |-> session]
           move == [at |-> 1, act |-> MoveWindowToWorkspaceName(win, padName)]
           Chosen(pad, steps) ==
             {[app |-> [kind |-> "hide", entries |-> {entry}, pad |-> pad,
                        cleanup |-> FALSE, wasFocused |-> f],
               plan |-> steps \cup {move}] : f \in {FALSE, windows[win] = focused}}
<1>1. Pads = ParkedAt
  BY DEF Pads, ParkedAt, Named
<1>2. win \notin Hidden /\ Cached(win)
  BY DEF HidePlans
<1>3. \A u \in Windows : InPlace(home, u)
  BY DEF HomeFor, Busy
<1>4. windows[win] = home.loc[win]
  BY <1>2, <1>3 DEF InPlace, AtHome
<1>5. PICK e : e = entry
  OBVIOUS
<1>6. e.win = win /\ e.origin = windows[win]
  BY <1>5
<1>7. Known(e.origin)
  <2>1. windows[win] \in Workspaces
    BY <1>2 DEF Cached, TypeOK, Place
  <2>2. home.name[windows[win]] # Gone
    BY <1>2, <1>4 DEF Fresh, Open, Exists, Cached
  <2>3. names[windows[win]] # Gone
    BY <2>1, <2>2, NiriAssumption DEF HomeFor, NamesInv, TypeOK
  <2> QED  BY <1>6, <2>1, <2>3 DEF Known
<1>8. ASSUME NEW pad, NEW steps, p \in Chosen(pad, steps)
      PROVE  /\ p.app.kind = "hide" /\ p.app.entries = {e} /\ p.app.pad = pad
             /\ p.plan = steps \cup {move}
  <2>1. PICK f : p = [app |-> [kind |-> "hide", entries |-> {entry}, pad |-> pad,
                               cleanup |-> FALSE, wasFocused |-> f],
                      plan |-> steps \cup {move}]
    BY <1>8
  <2> HIDE DEF entry, move
  <2> QED  BY <1>5, <2>1
<1> HIDE DEF Chosen, entry
<1>9. Left(p.plan, MoveWindowToWorkspaceName(e.win, padName)) <=> \E s \in p.plan : s.act = move.act
  BY <1>6 DEF Left
<1>10. CASE Pads # {}
  <2>1. stack # {} /\ p \in Chosen(NoWs, {})
    BY <1>10 DEF HidePlans, Chosen, entry
  <2>2. p.app.kind = "hide" /\ p.app.entries = {e} /\ p.app.pad = NoWs /\ p.plan = {move}
    BY <1>8, <2>1
  <2>3. HideFrame(home, p.app, e)
    BY <1>1, <1>2, <1>4, <1>6, <1>7, <1>10, <2>1, <2>2 DEF HideFrame
  <2>4. HideActs(p.app, p.plan, e)
    BY <1>1, <1>6, <1>10, <2>2 DEF HideActs, Left
  <2> QED  BY <2>2, <2>3, <2>4
<1>11. CASE Pads = {}
  <2>1. PICK ws \in EmptyWorkspacesFor(win) :
            p \in Chosen(ws, Just(SetWorkspaceName(ws, padName)))
    BY <1>2, <1>11 DEF HidePlans, Chosen, entry
  <2>2. /\ ws \in Workspaces /\ names[ws] = NoName
        /\ \A w \in Windows : windows[w] # ws
    BY DEF EmptyWorkspacesFor
  <2>3. PICK set : set = [at |-> 0, act |-> SetWorkspaceName(ws, padName)]
    OBVIOUS
  <2>4. /\ p.app.kind = "hide" /\ p.app.entries = {e} /\ p.app.pad = ws
        /\ p.plan = {set, move}
    BY <1>8, <2>1, <2>3 DEF Just
  <2>5. stack = {}
    <3> SUFFICES ASSUME NEW f \in stack PROVE FALSE
      OBVIOUS
    <3>1. f.win \in Windows /\ f.win \in Hidden
      BY DEF TypeOK, Stacked, Entry, Hidden
    <3> QED  BY <1>1, <1>3, <1>11, <3>1 DEF InPlace, Away
  <2>6. \A w \in Windows : windows[w] = home.loc[w]
    BY <1>3, <2>5 DEF InPlace, Hidden, AtHome
  <2>7. home.name[ws] = NoName
    BY <1>1, <1>11, <2>2 DEF HomeFor, NamesInv, ParkedAt, Named
  <2>8. Vacant(home, ws) /\ ws # NoWs
    BY <2>2, <2>6, <2>7, NiriAssumption DEF Vacant
  <2>9. HideFrame(home, p.app, e)
    BY <1>1, <1>2, <1>4, <1>6, <1>7, <1>11, <2>4, <2>5, <2>8 DEF HideFrame
  <2>10. HideActs(p.app, p.plan, e)
    <3>1. set.at = 0 /\ set.act = SetWorkspaceName(ws, padName)
      BY <2>3
    <3> QED  BY <1>6, <2>4, <2>8, <3>1 DEF HideActs, Left
  <2> QED  BY <2>4, <2>9, <2>10
<1> QED  BY <1>10, <1>11

LEMMA StartHideHome ==
    ASSUME TypeOK, NEW home \in NiriState, Fresh(home), HomeFor(home), CurrentInv,
           ClientsWait, MaxInFlight = 1, NEW t \in Tasks, NEW win \in Windows, StartHide(t, win)
    PROVE  HomeFor(home)'
<1>1. InFlight = {} /\ windows = niri.loc /\ names = niri.name
  BY AtRest DEF StartHide
<1>2. PICK p \in HidePlans(win) : Begin(t, p)
  BY DEF StartHide
<1>3. PICK r : r = [pc |-> "acting", app |-> p.app, plan |-> p.plan]
  OBVIOUS
<1>4. r.pc = "acting" /\ r.app = p.app /\ r.plan = p.plan
  BY <1>3
<1>5. task' = [task EXCEPT ![t] = r] /\ task'[t] = r
  BY <1>2, <1>3 DEF Begin, TypeOK
<1>6. PICK e \in r.app.entries : HideFrame(home, r.app, e) /\ HideActs(r.app, r.plan, e)
  BY <1>1, <1>4, HidePlanned
<1>7. r.app.kind = "hide"
  BY <1>1, <1>4, HidePlanned
<1>8. UNCHANGED <<niri, windows, names, padName, stack>>
  BY DEF StartHide, compositor, cache, config
<1>9. HideFrame(home, r.app, e)' /\ HideActs(r.app, r.plan, e)'
  BY <1>6, <1>8 DEF HideFrame, HideActs, Hidden, Cached, Known, ParkedAt, Named, Away, Left, Vacant
<1>10. TaskInv(home, t)'
  BY <1>4, <1>5, <1>6, <1>7, <1>9 DEF TaskInv, Hiding
<1> QED  BY <1>1, <1>4, <1>5, <1>8, <1>10, Begun

\* The plan of a restore.
LEMMA RestorePlanned ==
    ASSUME TypeOK, NEW home \in NiriState, Fresh(home), HomeFor(home),
           InFlight = {}, windows = niri.loc, names = niri.name,
           NEW entries \in SUBSET stack, NEW p \in RestorePlans(entries)
    PROVE  /\ p.app.kind = "restore" /\ RestoreFrame(home, p.app)
           /\ RestoreActs(home, p.app, p.plan)
<1> DEFINE steps == UNION {RestoreSteps(e, e \in Newest(entries)) : e \in entries}
           unset == [at |-> 4 * NextRank, act |-> UnsetWorkspaceName(padName)]
           Back(e) == MoveWindowToWorkspace(e.win, e.origin)
<1>1. Pads = ParkedAt
  BY DEF Pads, ParkedAt, Named
<1>2. PICK pad \in Pads :
        p = [app |-> [kind |-> "restore", entries |-> entries, pad |-> pad,
                      cleanup |-> DropsName(entries, pad), wasFocused |-> FALSE],
             plan |-> IF DropsName(entries, pad) THEN steps \cup {unset} ELSE steps]
  BY DEF RestorePlans
<1> HIDE DEF steps, unset
<1>3. /\ p.app.kind = "restore" /\ p.app.entries = entries /\ p.app.pad = pad
      /\ p.app.cleanup = DropsName(entries, pad)
      /\ p.plan = IF DropsName(entries, pad) THEN steps \cup {unset} ELSE steps
  BY <1>2
<1>4. pad \in ParkedAt /\ ParkedAt \subseteq {pad}
  BY <1>1 DEF HomeFor, NamesInv
<1>5. Vacant(home, pad)
  BY <1>4 DEF HomeFor, NamesInv, Fresh, ParkedAt, Named, TypeOK
<1>6. \A u \in Windows : InPlace(home, u)
  BY DEF HomeFor, Busy
<1>7. ~HasForeign(pad)
  BY <1>5, <1>6 DEF HasForeign, InPlace, AtHome, Vacant
<1>8. DropsName(entries, pad) <=> entries = stack
  BY <1>7 DEF DropsName
<1>9. p.app.cleanup <=> p.app.entries = stack
  BY <1>3, <1>8
<1>10. RestoreFrame(home, p.app)
  <2>1. entries # {}
    BY DEF RestorePlans
  <2> QED  BY <1>3, <1>4, <1>5, <1>9, <2>1 DEF RestoreFrame
<1>11. ASSUME NEW e \in entries
       PROVE  RestoreTarget(e) = e.origin /\ e.origin = home.loc[e.win]
  <2>1. e \in stack /\ e.origin = home.loc[e.win]
    BY DEF HomeFor
  <2>2. e.origin \in Workspaces /\ Exists(home, e.origin)
    BY <2>1, EntryHome
  <2>3. Known(e.origin)
    BY <2>2, NiriAssumption DEF HomeFor, NamesInv, Known, Exists, TypeOK
  <2> QED  BY <2>1, <2>3 DEF RestoreTarget
<1>12. \A e \in entries : \A focus : \A s \in RestoreSteps(e, focus) :
          s.act = Back(e) \/ s.act = Relayout(e.win) \/ s.act = FocusWindow(e.win)
  BY <1>11 DEF RestoreSteps
<1>13. ASSUME NEW e \in entries PROVE Left(p.plan, Back(e)) \/ AtHome(home, e.win)
  <2> SUFFICES ASSUME ~AtHome(home, e.win) PROVE Left(p.plan, Back(e))
    OBVIOUS
  <2>1. windows[e.win] # RestoreTarget(e)
    BY <1>11 DEF AtHome
  <2>2. PICK s : s = [at |-> 4 * e.at, act |-> MoveWindowToWorkspace(e.win, RestoreTarget(e))]
    OBVIOUS
  <2>3. s.act = Back(e) /\ s.act.kind = "MoveWindowToWorkspace"
    BY <1>11, <2>2 DEF MoveWindowToWorkspace
  <2>4. s \in RestoreSteps(e, e \in Newest(entries))
    BY <2>1, <2>2, <2>3 DEF RestoreSteps
  <2>5. s \in steps
    BY <2>4 DEF steps
  <2> QED  BY <1>3, <2>3, <2>5 DEF Left
<1>14. unset.act = UnsetWorkspaceName(padName)
  BY DEF unset
<1>15. entries = stack => Left(p.plan, UnsetWorkspaceName(padName))
  BY <1>3, <1>8, <1>14 DEF Left
<1>16. ASSUME NEW s \in p.plan
       PROVE  \/ \E e \in entries : \/ s.act = Back(e)
                                    \/ s.act = Relayout(e.win)
                                    \/ s.act = FocusWindow(e.win)
              \/ s.act = UnsetWorkspaceName(padName) /\ entries = stack
  <2>1. CASE s \in steps
    <3>1. PICK e \in entries : s \in RestoreSteps(e, e \in Newest(entries))
      BY <2>1 DEF steps
    <3> QED  BY <1>12, <3>1
  <2>2. CASE s = unset /\ entries = stack
    BY <1>14, <2>2
  <2> QED  BY <1>3, <1>8, <2>1, <2>2
<1>17. RestoreActs(home, p.app, p.plan)
  BY <1>3, <1>13, <1>15, <1>16 DEF RestoreActs
<1> QED  BY <1>3, <1>10, <1>17

LEMMA StartRestoreHome ==
    ASSUME TypeOK, NEW home \in NiriState, Fresh(home), HomeFor(home), CurrentInv,
           ClientsWait, MaxInFlight = 1, NEW t \in Tasks,
           StartRestoreAll(t) \/ \E e \in stack : StartRestore(t, e)
    PROVE  HomeFor(home)'
<1>1. InFlight = {} /\ windows = niri.loc /\ names = niri.name
  BY AtRest DEF StartRestore, StartRestoreAll
<1>2. PICK entries \in SUBSET stack : \E p \in RestorePlans(entries) : Begin(t, p)
  <2>1. CASE StartRestoreAll(t)
    BY <2>1 DEF StartRestoreAll
  <2>2. CASE \E e \in stack : StartRestore(t, e)
    <3>1. PICK e \in stack : \E p \in RestorePlans({e}) : Begin(t, p)
      BY <2>2 DEF StartRestore
    <3>2. {e} \in SUBSET stack
      OBVIOUS
    <3> QED  BY <3>1, <3>2
  <2> QED  BY <2>1, <2>2
<1>3. PICK p \in RestorePlans(entries) : Begin(t, p)
  BY <1>2
<1>4. PICK r : r = [pc |-> "acting", app |-> p.app, plan |-> p.plan]
  OBVIOUS
<1>5. r.pc = "acting" /\ r.app = p.app /\ r.plan = p.plan
  BY <1>4
<1>6. task' = [task EXCEPT ![t] = r] /\ task'[t] = r
  BY <1>3, <1>4 DEF Begin, TypeOK
<1>7. r.app.kind = "restore" /\ RestoreFrame(home, r.app) /\ RestoreActs(home, r.app, r.plan)
  BY <1>1, <1>5, RestorePlanned
<1>8. UNCHANGED <<niri, padName, stack>>
  BY DEF StartRestore, StartRestoreAll, compositor, config
<1>9. RestoreFrame(home, r.app)' /\ RestoreActs(home, r.app, r.plan)'
  BY <1>7, <1>8 DEF RestoreFrame, RestoreActs, ParkedAt, Named, AtHome, Left, Vacant
<1>10. TaskInv(home, t)'
  BY <1>5, <1>6, <1>7, <1>9 DEF TaskInv, Restoring
<1> QED  BY <1>1, <1>5, <1>6, <1>8, <1>10, Begun

-------------------------------------------------------------------------------
(* A request goes on, fails, is committed or is taken back. *)

\* One action of a plan.
LEMMA ActKeeps ==
    ASSUME TypeOK, NEW home \in NiriState, Fresh(home), HomeFor(home), NEW t \in InFlight,
           NEW r, r = task[t], r.pc = "acting", NEW s \in NextStep(r.plan),
           niri' = AfterAction(niri, s.act), UNCHANGED <<padName, stack, windows, names>>
    PROVE  /\ NamesInv(home)'
           /\ r.app.kind = "hide" => \E e \in r.app.entries :
                HideFrame(home, r.app, e)' /\ HideActs(r.app, r.plan \ {s}, e)'
           /\ r.app.kind = "restore" =>
                RestoreFrame(home, r.app)' /\ RestoreActs(home, r.app, r.plan \ {s})'
           /\ \A u \in Windows \ WindowsOf(r.app.entries) : InPlace(home, u) => InPlace(home, u)'
<1>1. r \in Task /\ r.app \in Application /\ r.plan \in SUBSET Step
  BY DEF InFlight, TypeOK, Task
<1>2. TaskInv(home, t) /\ NamesInv(home) /\ \A e \in stack : e.origin = home.loc[e.win]
  BY DEF HomeFor
<1>3. s \in r.plan
  BY DEF NextStep
<1>4. CASE r.app.kind = "hide"
  <2>1. PICK e \in r.app.entries : HideFrame(home, r.app, e) /\ HideActs(r.app, r.plan, e)
    BY <1>2, <1>4 DEF TaskInv, Hiding
  <2>2. /\ NamesInv(home)' /\ HideFrame(home, r.app, e)' /\ HideActs(r.app, r.plan \ {s}, e)'
        /\ \A u \in Windows \ {e.win} : InPlace(home, u) => InPlace(home, u)'
    BY <1>1, <1>2, <2>1, HideActStep
  <2>3. WindowsOf(r.app.entries) = {e.win}
    BY <2>1 DEF HideFrame, WindowsOf
  <2> QED  BY <1>4, <2>2, <2>3
<1>5. CASE r.app.kind = "restore"
  <2>1. RestoreFrame(home, r.app) /\ RestoreActs(home, r.app, r.plan)
    BY <1>2, <1>5 DEF TaskInv, Restoring
  <2>2. /\ NamesInv(home)' /\ RestoreFrame(home, r.app)' /\ RestoreActs(home, r.app, r.plan \ {s})'
        /\ \A u \in Windows \ WindowsOf(r.app.entries) : InPlace(home, u) => InPlace(home, u)'
    BY <1>1, <1>2, <1>3, <2>1, RestoreActStep
  <2> QED  BY <1>5, <2>2
<1> QED  BY <1>2, <1>4, <1>5 DEF TaskInv

LEMMA ActHome ==
    ASSUME TypeOK, NEW home \in NiriState, Fresh(home), HomeFor(home), NEW t \in Tasks, Act(t)
    PROVE  HomeFor(home)'
<1>1. t \in InFlight /\ task[t].pc = "acting"
  BY DEF Act, InFlight
<1>2. PICK s \in NextStep(task[t].plan) :
        /\ NiriBecomes(AfterAction(niri, s.act))
        /\ task' = [task EXCEPT ![t].plan = @ \ {s}]
  BY DEF Act
<1>3. PICK r : r = [task[t] EXCEPT !.plan = task[t].plan \ {s}]
  OBVIOUS
<1>4. r.pc = "acting" /\ r.app = task[t].app /\ r.plan = task[t].plan \ {s}
  BY <1>1, <1>3 DEF TypeOK, Task
<1>5. task' = [task EXCEPT ![t] = r] /\ task'[t] = r
  BY <1>2, <1>3 DEF TypeOK
<1>6. niri' = AfterAction(niri, s.act) /\ UNCHANGED <<padName, stack, windows, names>>
  BY <1>2 DEF Act, NiriBecomes, cache, config
<1>7. /\ NamesInv(home)'
      /\ r.app.kind = "hide" => \E e \in r.app.entries :
            HideFrame(home, r.app, e)' /\ HideActs(r.app, r.plan, e)'
      /\ r.app.kind = "restore" =>
            RestoreFrame(home, r.app)' /\ RestoreActs(home, r.app, r.plan)'
      /\ \A u \in Windows \ WindowsOf(r.app.entries) : InPlace(home, u) => InPlace(home, u)'
  <2>1. PICK q : q = task[t]
    OBVIOUS
  <2>2. /\ NamesInv(home)'
        /\ q.app.kind = "hide" => \E e \in q.app.entries :
              HideFrame(home, q.app, e)' /\ HideActs(q.app, q.plan \ {s}, e)'
        /\ q.app.kind = "restore" =>
              RestoreFrame(home, q.app)' /\ RestoreActs(home, q.app, q.plan \ {s})'
        /\ \A u \in Windows \ WindowsOf(q.app.entries) : InPlace(home, u) => InPlace(home, u)'
    BY <1>1, <1>6, <2>1, ActKeeps
  <2> QED  BY <1>4, <2>1, <2>2
<1>8. r.app.kind \in {"hide", "restore"}
  BY <1>1, <1>4 DEF HomeFor, TaskInv
<1>9. TaskInv(home, t)'
  BY <1>4, <1>5, <1>7, <1>8 DEF TaskInv, Hiding, Restoring
<1> QED  BY <1>1, <1>4, <1>5, <1>6, <1>7, <1>9, Onward

\* The failure is the only one, whether the action was done or not.
LEMMA ActFailsHome ==
    ASSUME TypeOK, NEW home \in NiriState, Fresh(home), HomeFor(home), NEW t \in Tasks,
           ActFails(t), session = niriSession, BudgetInv, Limits["fault"] <= 1
    PROVE  HomeFor(home)'
<1>1. t \in InFlight /\ task[t].pc = "acting"
  BY DEF ActFails, InFlight
<1>2. /\ Spend("fault")
      /\ \/ \E s \in NextStep(task[t].plan) : NiriBecomes(AfterAction(niri, s.act))
         \/ UNCHANGED <<niri, queue>>
      /\ task' = [task EXCEPT ![t].pc = "failed", ![t].plan = {}]
      /\ UNCHANGED <<padName, stack, windows, names>>
  BY DEF ActFails, cache, config
<1>3. PICK r : r = [task[t] EXCEPT !.pc = "failed", !.plan = {}]
  OBVIOUS
<1>4. r.pc = "failed" /\ r.app = task[t].app
  BY <1>3 DEF TypeOK, Task
<1>5. task' = [task EXCEPT ![t] = r] /\ task'[t] = r
  BY <1>2, <1>3 DEF TypeOK
<1>6. budget'["fault"] = 0
  <2>1. "fault" \in Happenings
    BY DEF Happenings
  <2>2. /\ budget["fault"] \in Nat /\ budget["fault"] > 0 /\ budget["fault"] <= Limits["fault"]
        /\ Limits["fault"] \in Nat /\ budget'["fault"] = budget["fault"] - 1
    BY <1>2, <2>1, HideAssumption DEF Spend, BudgetInv, TypeOK
  <2> QED  BY <2>2
<1>7. TaskInv(home, t) /\ NamesInv(home)
  BY <1>1 DEF HomeFor
<1>8. /\ NamesInv(home)'
      /\ r.app.kind = "hide" => \E e \in r.app.entries : HideFrame(home, r.app, e)'
      /\ r.app.kind = "restore" => RestoreFrame(home, r.app)'
      /\ \A u \in Windows \ WindowsOf(r.app.entries) : InPlace(home, u) => InPlace(home, u)'
  <2>1. CASE \E s \in NextStep(task[t].plan) : NiriBecomes(AfterAction(niri, s.act))
    <3>1. PICK s \in NextStep(task[t].plan) : niri' = AfterAction(niri, s.act)
      BY <2>1 DEF NiriBecomes
    <3>2. PICK q : q = task[t]
      OBVIOUS
    <3>3. /\ NamesInv(home)'
          /\ q.app.kind = "hide" => \E e \in q.app.entries : HideFrame(home, q.app, e)'
          /\ q.app.kind = "restore" => RestoreFrame(home, q.app)'
          /\ \A u \in Windows \ WindowsOf(q.app.entries) : InPlace(home, u) => InPlace(home, u)'
      BY <1>1, <1>2, <3>1, <3>2, ActKeeps
    <3> QED  BY <1>4, <3>2, <3>3
  <2>2. CASE UNCHANGED <<niri, queue>>
    <3>1. NamesInv(home)' /\ ParkedAt' = ParkedAt
      BY <1>2, <1>7, <2>2, FocusEffect
    <3>2. \A u : InPlace(home, u)' <=> InPlace(home, u)
      BY <1>2, <2>2, <3>1 DEF InPlace, Away, AtHome, Hidden
    <3>3. \A app, e : HideFrame(home, app, e) => HideFrame(home, app, e)'
      BY <1>2, <3>1 DEF HideFrame, Vacant, Hidden, Cached, Known
    <3>4. \A app : RestoreFrame(home, app) => RestoreFrame(home, app)'
      BY <1>2, <3>1 DEF RestoreFrame, Vacant
    <3>5. r.app.kind = "hide" => \E e \in r.app.entries : HideFrame(home, r.app, e)
      BY <1>4, <1>7 DEF TaskInv, Hiding
    <3>6. r.app.kind = "restore" => RestoreFrame(home, r.app)
      BY <1>4, <1>7 DEF TaskInv, Restoring
    <3> QED  BY <3>1, <3>2, <3>3, <3>4, <3>5, <3>6
  <2> QED  BY <1>2, <2>1, <2>2
<1>9. TaskInv(home, t)'
  <2>1. r.app.kind \in {"hide", "restore"}
    BY <1>4, <1>7 DEF TaskInv
  <2> QED  BY <1>4, <1>5, <1>6, <1>8, <2>1 DEF TaskInv, Hiding, Restoring
<1> QED  BY <1>1, <1>2, <1>4, <1>5, <1>8, <1>9, Onward

LEMMA CommitHideHome ==
    ASSUME TypeOK, NEW home, HomeFor(home), NEW t \in Tasks, CommitHide(t)
    PROVE  HomeFor(home)' /\ (names = niri.name => names' = names)
<1>1. /\ t \in InFlight /\ task[t].pc = "acting" /\ task[t].plan = {}
      /\ task[t].app.kind = "hide"
  BY DEF CommitHide, Committing, InFlight
<1>2. PICK r : r = task[t]
  OBVIOUS
<1>3. PICK e \in r.app.entries : HideFrame(home, r.app, e) /\ HideActs(r.app, r.plan, e)
  BY <1>1, <1>2 DEF HomeFor, TaskInv, Hiding
<1>4. ParkedAt # {} /\ Away(e.win)
  BY <1>1, <1>2, <1>3 DEF HideActs, Left
<1>5. e.win \in Windows /\ e \in Entry
  BY <1>2, <1>3 DEF TypeOK, Task, Application, Entry
<1>6. StillOpen(e) /\ ~AlreadyHidden(e) /\ r.app.entries = {e}
  BY <1>3 DEF HideFrame, StillOpen, AlreadyHidden
<1>7. /\ task' = [task EXCEPT ![t] = DoneTask]
      /\ stack' = stack \cup {[e EXCEPT !.at = NextRank]}
      /\ names' = [ws \in Workspaces |-> IF ws = r.app.pad /\ Known(ws) THEN padName
                                         ELSE names[ws]]
      /\ UNCHANGED <<niri, padName>>
  BY <1>2, <1>6 DEF CommitHide, compositor
<1>8. PICK new : new = [e EXCEPT !.at = NextRank]
  OBVIOUS
<1>9. new.win = e.win /\ new.origin = e.origin
  BY <1>5, <1>8 DEF Entry
<1>10. stack' = stack \cup {new} /\ Hidden' = Hidden \cup {e.win}
  BY <1>7, <1>8, <1>9 DEF Hidden
<1>11. /\ NamesInv(home)' /\ ParkedAt' = ParkedAt
       /\ \A win : Away(win)' <=> Away(win)
       /\ \A win : AtHome(home, win)' <=> AtHome(home, win)
  BY <1>7, FocusEffect DEF HomeFor
<1>12. Busy = {e.win}
  BY <1>1, <1>2, <1>6, SingleTask DEF HomeFor, WindowsOf
<1>13. \A win \in Windows : InPlace(home, win)'
  BY <1>4, <1>10, <1>11, <1>12 DEF HomeFor, InPlace
<1>14. \A f \in stack' : f.origin = home.loc[f.win]
  BY <1>3, <1>9, <1>10 DEF HomeFor, HideFrame
<1>15. HomeFor(home)'
  BY <1>1, <1>7, <1>10, <1>11, <1>13, <1>14, Finished
<1>16. ASSUME names = niri.name PROVE names' = names
  <2>1. ASSUME NEW ws \in Workspaces, ws = r.app.pad PROVE names[ws] = padName
    <3>1. ParkedAt \subseteq {ws}
      BY <1>3, <2>1, NiriAssumption DEF HideFrame
    <3> QED  BY <1>4, <1>16, <3>1 DEF ParkedAt, Named
  <2> QED  BY <1>7, <2>1 DEF TypeOK
<1> QED  BY <1>15, <1>16

LEMMA CommitRestoreHome ==
    ASSUME TypeOK, OneEntryPerWindow, NEW home, HomeFor(home), NEW t \in Tasks, CommitRestore(t)
    PROVE  HomeFor(home)' /\ (names = niri.name => names' = names)
<1>1. /\ t \in InFlight /\ task[t].pc = "acting" /\ task[t].plan = {}
      /\ task[t].app.kind = "restore"
  BY DEF CommitRestore, Committing, InFlight
<1>2. PICK r : r = task[t]
  OBVIOUS
<1>3. RestoreFrame(home, r.app) /\ RestoreActs(home, r.app, r.plan)
  BY <1>1, <1>2 DEF HomeFor, TaskInv, Restoring
<1>4. /\ \A e \in r.app.entries : AtHome(home, e.win)
      /\ r.app.entries = stack => ParkedAt = {}
  BY <1>1, <1>2, <1>3 DEF RestoreActs, Left
<1>5. /\ task' = [task EXCEPT ![t] = DoneTask]
      /\ stack' = {e \in stack : e.win \notin WindowsOf(r.app.entries)}
      /\ names' = [ws \in Workspaces |->
                      IF r.app.cleanup /\ ws = r.app.pad /\ names[ws] = padName
                      THEN NoName ELSE names[ws]]
      /\ UNCHANGED <<niri, padName>>
  BY <1>2 DEF CommitRestore, compositor, config, WindowsOf
<1>6. /\ NamesInv(home)' /\ ParkedAt' = ParkedAt
      /\ \A win : Away(win)' <=> Away(win)
      /\ \A win : AtHome(home, win)' <=> AtHome(home, win)
  BY <1>5, FocusEffect DEF HomeFor
<1>7. Hidden' = Hidden \ WindowsOf(r.app.entries)
  BY <1>5 DEF Hidden
<1>8. Busy = WindowsOf(r.app.entries)
  BY <1>1, <1>2, SingleTask DEF HomeFor
<1>9. ASSUME NEW win \in Windows PROVE InPlace(home, win)'
  <2>1. CASE win \in Busy
    <3>1. AtHome(home, win) /\ win \notin Hidden'
      BY <1>4, <1>7, <1>8, <2>1 DEF WindowsOf
    <3> QED  BY <1>6, <3>1 DEF InPlace
  <2>2. CASE win \notin Busy
    <3>1. InPlace(home, win) /\ (win \in Hidden' <=> win \in Hidden)
      BY <1>7, <1>8, <2>2 DEF HomeFor
    <3> QED  BY <1>6, <3>1 DEF InPlace
  <2> QED  BY <2>1, <2>2
<1>10. ASSUME stack' = {} PROVE ParkedAt' = {}
  <2>1. \A e \in stack : e \in r.app.entries
    BY <1>3, <1>5, <1>10 DEF RestoreFrame, OneEntryPerWindow, WindowsOf
  <2>2. r.app.entries = stack
    BY <1>3, <2>1 DEF RestoreFrame
  <2> QED  BY <1>4, <1>6, <2>2
<1>11. HomeFor(home)'
  BY <1>1, <1>5, <1>6, <1>9, <1>10, Finished DEF HomeFor
<1>12. ASSUME names = niri.name PROVE names' = names
  <2>1. ASSUME r.app.cleanup, NEW ws \in Workspaces PROVE names[ws] # padName
    <3>1. ParkedAt = {}
      BY <1>3, <1>4, <2>1 DEF RestoreFrame
    <3> QED  BY <1>12, <3>1 DEF ParkedAt, Named
  <2> QED  BY <1>5, <2>1 DEF TypeOK
<1> QED  BY <1>11, <1>12

\* The compensation that is planned undoes all that may have been done.
LEMMA PlanUndoHome ==
    ASSUME TypeOK, NEW home, HomeFor(home), NEW t \in Tasks, PlanUndo(t)
    PROVE  HomeFor(home)'
<1>1. t \in InFlight /\ task[t].pc = "failed"
  BY DEF PlanUndo, InFlight
<1>2. PICK app : app = task[t].app
  OBVIOUS
<1>3. PICK r : r = [task[t] EXCEPT !.pc = "undoing", !.plan = UndoSteps(app)]
  OBVIOUS
<1>4. r.pc = "undoing" /\ r.app = app /\ r.plan = UndoSteps(app)
  BY <1>2, <1>3 DEF TypeOK, Task
<1>5. task' = [task EXCEPT ![t] = r] /\ task'[t] = r
  BY <1>2, <1>3 DEF PlanUndo, TypeOK
<1>6. UNCHANGED <<niri, padName, stack, windows, names, budget>>
  BY DEF PlanUndo, compositor, cache, config, world
<1>7. /\ NamesInv(home)' /\ ParkedAt' = ParkedAt
      /\ \A win : Away(win)' <=> Away(win)
      /\ \A win : AtHome(home, win)' <=> AtHome(home, win)
  BY <1>6, FocusEffect DEF HomeFor
<1>8. \A u : InPlace(home, u) => InPlace(home, u)'
  BY <1>6, <1>7 DEF InPlace, Hidden
<1>9. TaskInv(home, t) /\ app.kind \in {"hide", "restore"} /\ budget'["fault"] = 0
  BY <1>1, <1>2, <1>6 DEF HomeFor, TaskInv
<1>10. CASE app.kind = "hide"
  <2>1. PICK e \in app.entries : HideFrame(home, app, e)
    BY <1>2, <1>9, <1>10 DEF TaskInv, Hiding
  <2>2. HideFrame(home, app, e)'
    BY <1>6, <1>7, <2>1 DEF HideFrame, Vacant, Hidden, Cached, Known
  <2>3. app.entries = {e} /\ Known(e.origin)
    BY <2>1 DEF HideFrame
  <2>4. UndoSteps(app) =
          {s \in {[at |-> 1, act |-> MoveWindowToWorkspace(e.win, e.origin)],
                  [at |-> 2, act |-> FocusWindow(e.win)],
                  [at |-> 3, act |-> UnsetWorkspaceName(padName)]} :
              /\ s.at = 1 => Known(e.origin)
              /\ s.at = 2 => app.wasFocused
              /\ s.at = 3 => app.pad # NoWs}
    BY <1>10, <2>3 DEF UndoSteps, UndoHideSteps
  <2>5. PICK back, unset : /\ back = [at |-> 1, act |-> MoveWindowToWorkspace(e.win, e.origin)]
                           /\ unset = [at |-> 3, act |-> UnsetWorkspaceName(padName)]
    OBVIOUS
  <2>6. /\ back.at = 1 /\ back.act = MoveWindowToWorkspace(e.win, e.origin)
        /\ unset.at = 3 /\ unset.act = UnsetWorkspaceName(padName)
    BY <2>5
  <2>7. back \in r.plan /\ (app.pad # NoWs => unset \in r.plan)
    BY <1>4, <2>3, <2>4, <2>5, <2>6
  <2>8. \A s \in r.plan :
          \/ s.act = MoveWindowToWorkspace(e.win, e.origin)
          \/ s.act = FocusWindow(e.win)
          \/ s.act = UnsetWorkspaceName(padName) /\ app.pad # NoWs
    BY <1>4, <2>4
  <2>9. HideUndoes(home, app, r.plan, e)'
    BY <1>6, <2>6, <2>7, <2>8 DEF HideUndoes, Left
  <2> QED  BY <1>1, <1>2, <1>4, <1>5, <1>6, <1>7, <1>8, <1>9, <1>10, <2>1, <2>2, <2>9, Onward
           DEF TaskInv, Hiding
<1>11. CASE app.kind = "restore"
  <2>1. RestoreFrame(home, app)
    BY <1>2, <1>9, <1>11 DEF TaskInv, Restoring
  <2>2. RestoreFrame(home, app)'
    BY <1>6, <1>7, <2>1 DEF RestoreFrame, Vacant
  <2>3. UndoSteps(app) = UndoRestoreSteps(app)
    BY <1>11 DEF UndoSteps
  <2>4. ASSUME NEW e \in app.entries
        PROVE  Left(r.plan, MoveWindowToWorkspaceName(e.win, padName))
    <3>1. PICK s : s = [at |-> 2 * e.at + 1, act |-> MoveWindowToWorkspaceName(e.win, padName)]
      OBVIOUS
    <3>2. s \in UndoRestoreSteps(app)
      <4>1. s \in {[at |-> 2 * e.at + 1, act |-> MoveWindowToWorkspaceName(e.win, padName)],
                   [at |-> 2 * e.at + 2, act |-> Relayout(e.win)]}
        BY <3>1, Zenon
      <4> QED  BY <4>1, Zenon DEF UndoRestoreSteps
    <3>3. s \in r.plan /\ s.act = MoveWindowToWorkspaceName(e.win, padName)
      BY <1>4, <2>3, <3>1, <3>2
    <3> QED  BY <3>3 DEF Left
  <2>5. Left(r.plan, SetWorkspaceName(app.pad, padName))
    <3>1. PICK s : s = [at |-> 0, act |-> SetWorkspaceName(app.pad, padName)]
      OBVIOUS
    <3>2. s \in r.plan /\ s.act = SetWorkspaceName(app.pad, padName)
      BY <1>4, <2>3, <3>1 DEF UndoRestoreSteps, Just
    <3> QED  BY <3>2 DEF Left
  <2>6. ASSUME NEW s \in r.plan
        PROVE  \/ s.at = 0 /\ s.act = SetWorkspaceName(app.pad, padName)
               \/ s.at > 0 /\ \E e \in app.entries :
                    \/ s.act = MoveWindowToWorkspaceName(e.win, padName)
                    \/ s.act = Relayout(e.win)
    <3>1. \A e \in app.entries : e.at \in Nat
      BY <2>1 DEF RestoreFrame, TypeOK, Stacked, Entry
    <3>2. CASE s \in Just(SetWorkspaceName(app.pad, padName))
      BY <3>2 DEF Just
    <3>3. ASSUME NEW e \in app.entries,
                 s \in {[at |-> 2 * e.at + 1, act |-> MoveWindowToWorkspaceName(e.win, padName)],
                        [at |-> 2 * e.at + 2, act |-> Relayout(e.win)]}
          PROVE  s.at > 0 /\ (\/ s.act = MoveWindowToWorkspaceName(e.win, padName)
                              \/ s.act = Relayout(e.win))
      BY <3>1, <3>3
    <3> QED  BY <1>4, <2>3, <3>2, <3>3 DEF UndoRestoreSteps
  <2>7. RestoreUndoes(app, r.plan)'
    BY <1>6, <2>4, <2>5, <2>6 DEF RestoreUndoes, Left
  <2> QED  BY <1>1, <1>2, <1>4, <1>5, <1>6, <1>7, <1>8, <1>9, <1>11, <2>2, <2>7, Onward
           DEF TaskInv, Restoring
<1> QED  BY <1>9, <1>10, <1>11

\* With the failure used up every action of the compensation is done.
LEMMA UndoHome ==
    ASSUME TypeOK, NEW home \in NiriState, Fresh(home), HomeFor(home), NEW t \in Tasks, Undo(t),
           session = niriSession
    PROVE  HomeFor(home)'
<1>1. t \in InFlight /\ task[t].pc = "undoing"
  BY DEF Undo, InFlight
<1>2. PICK s \in NextStep(task[t].plan) :
        BestEffort(s) /\ task' = [task EXCEPT ![t].plan = @ \ {s}]
  BY DEF Undo
<1>3. PICK q : q = task[t]
  OBVIOUS
<1>4. /\ q \in Task /\ q.app \in Application /\ q.plan \in SUBSET Step
      /\ s \in NextStep(q.plan) /\ s \in q.plan
  BY <1>1, <1>2, <1>3 DEF InFlight, TypeOK, Task, NextStep
<1>5. PICK r : r = [q EXCEPT !.plan = q.plan \ {s}]
  OBVIOUS
<1>6. r.pc = "undoing" /\ r.app = q.app /\ r.plan = q.plan \ {s}
  BY <1>1, <1>3, <1>4, <1>5 DEF Task
<1>7. task' = [task EXCEPT ![t] = r] /\ task'[t] = r
  BY <1>2, <1>3, <1>5 DEF TypeOK
<1>8. TaskInv(home, t) /\ budget["fault"] = 0
  BY <1>1 DEF HomeFor, TaskInv
<1>9. NiriBecomes(AfterAction(niri, s.act)) /\ UNCHANGED world
  BY <1>2, <1>8 DEF BestEffort, Spend
<1>10. /\ niri' = AfterAction(niri, s.act) /\ budget' = budget
       /\ UNCHANGED <<padName, stack, windows, names>>
  BY <1>9 DEF NiriBecomes, world, Undo, cache, config
<1>11. NamesInv(home) /\ \A e \in stack : e.origin = home.loc[e.win]
  BY DEF HomeFor
<1>12. CASE q.app.kind = "hide"
  <2>1. PICK e \in q.app.entries : HideFrame(home, q.app, e) /\ HideUndoes(home, q.app, q.plan, e)
    BY <1>1, <1>3, <1>8, <1>12 DEF TaskInv, Hiding
  <2>2. /\ NamesInv(home)' /\ HideFrame(home, q.app, e)'
        /\ HideUndoes(home, q.app, q.plan \ {s}, e)'
        /\ \A u \in Windows \ {e.win} : InPlace(home, u) => InPlace(home, u)'
    BY <1>4, <1>10, <1>11, <2>1, HideUndoStep
  <2>3. WindowsOf(q.app.entries) = {e.win}
    BY <2>1 DEF HideFrame, WindowsOf
  <2>4. TaskInv(home, t)'
    BY <1>6, <1>7, <1>8, <1>10, <1>12, <2>1, <2>2 DEF TaskInv, Hiding
  <2> QED  BY <1>1, <1>3, <1>6, <1>7, <1>10, <2>2, <2>3, <2>4, Onward
<1>13. CASE q.app.kind = "restore"
  <2>1. RestoreFrame(home, q.app) /\ RestoreUndoes(q.app, q.plan)
    BY <1>1, <1>3, <1>8, <1>13 DEF TaskInv, Restoring
  <2>2. /\ NamesInv(home)' /\ RestoreFrame(home, q.app)' /\ RestoreUndoes(q.app, q.plan \ {s})'
        /\ \A u \in Windows \ WindowsOf(q.app.entries) : InPlace(home, u) => InPlace(home, u)'
    BY <1>4, <1>10, <1>11, <2>1, RestoreUndoStep
  <2>3. TaskInv(home, t)'
    BY <1>6, <1>7, <1>8, <1>10, <1>13, <2>2 DEF TaskInv, Restoring
  <2> QED  BY <1>1, <1>3, <1>6, <1>7, <1>10, <2>2, <2>3, Onward
<1> QED  BY <1>3, <1>8, <1>12, <1>13 DEF TaskInv

\* The request is answered with its error when nothing is left of it.
LEMMA GiveUpHome ==
    ASSUME TypeOK, NEW home, HomeFor(home), NEW t \in Tasks, GiveUp(t)
    PROVE  HomeFor(home)'
<1>1. t \in InFlight /\ task[t].pc = "undoing" /\ task[t].plan = {}
  BY DEF GiveUp, InFlight
<1>2. PICK r : r = task[t]
  OBVIOUS
<1>3. task' = [task EXCEPT ![t] = DoneTask] /\ UNCHANGED <<niri, padName, stack>>
  BY DEF GiveUp, compositor, config
<1>4. /\ NamesInv(home)' /\ ParkedAt' = ParkedAt
      /\ \A win : Away(win)' <=> Away(win)
      /\ \A win : AtHome(home, win)' <=> AtHome(home, win)
  BY <1>3, FocusEffect DEF HomeFor
<1>5. Hidden' = Hidden /\ Busy = WindowsOf(r.app.entries)
  BY <1>1, <1>2, <1>3, SingleTask DEF Hidden, HomeFor
<1>6. /\ \A win \in Busy : InPlace(home, win)
      /\ stack = {} => ParkedAt = {}
  <2>1. CASE r.app.kind = "hide"
    <3>1. PICK e \in r.app.entries : HideFrame(home, r.app, e) /\ HideUndoes(home, r.app, r.plan, e)
      BY <1>1, <1>2, <2>1 DEF HomeFor, TaskInv, Hiding
    <3>2. Busy = {e.win}
      BY <1>5, <3>1 DEF HideFrame, WindowsOf
    <3>3. AtHome(home, e.win) /\ e.win \notin Hidden
      BY <1>1, <1>2, <3>1 DEF HideUndoes, HideFrame, Left
    <3>4. stack = {} => ParkedAt = {}
      BY <1>1, <1>2, <3>1 DEF HideUndoes, HideFrame, Left
    <3> QED  BY <3>2, <3>3, <3>4 DEF InPlace
  <2>2. CASE r.app.kind = "restore"
    <3>1. RestoreFrame(home, r.app) /\ RestoreUndoes(r.app, r.plan)
      BY <1>1, <1>2, <2>2 DEF HomeFor, TaskInv, Restoring
    <3>2. \A e \in r.app.entries : Away(e.win) /\ e.win \in Hidden
      BY <1>1, <1>2, <3>1 DEF RestoreUndoes, RestoreFrame, Left, Hidden
    <3>3. stack # {}
      BY <3>1 DEF RestoreFrame
    <3> QED  BY <1>5, <3>2, <3>3 DEF InPlace, WindowsOf
  <2> QED  BY <1>1, <1>2, <2>1, <2>2 DEF HomeFor, TaskInv
<1>7. \A win \in Windows : InPlace(home, win)'
  BY <1>4, <1>5, <1>6 DEF InPlace, HomeFor
<1>8. \A e \in stack' : e.origin = home.loc[e.win]
  BY <1>3 DEF HomeFor
<1> QED  BY <1>1, <1>3, <1>4, <1>6, <1>7, <1>8, Finished

-------------------------------------------------------------------------------
(* What else may happen. *)

\* What the world does not do, and what follows for the daemon.
LEMMA Quiet ==
    ASSUME TypeOK, Calm, BudgetInv, BootInv, [Next]_vars
    PROVE  \/ \E t \in Tasks : TaskSteps(t)
           \/ Handle \/ LoopAct \/ Connect \/ Restart \/ TakeState \/ \E s \in saving : Save(s)
           \/ \E ws \in Workspaces : UserFocuses(ws)
           \/ UNCHANGED vars
<1>1. \A what \in Happenings \ {"focus", "fault"} : ~Spend(what)
  BY HideAssumption DEF Calm, BudgetInv, Spend, TypeOK
<1>2. ~Spend("close") /\ ~Spend("move") /\ ~Spend("drop") /\ ~Spend("reload")
      /\ ~Spend("cut") /\ ~Spend("crash") /\ ~Spend("niri") /\ ~Spend("pin")
  BY <1>1 DEF Happenings
<1>3. ~StreamEnded /\ ~OwnerGone
  BY DEF StreamEnded, OwnerGone, BootInv
<1>4. \A win \in Windows, ws \in Workspaces :
        ~UserCloses(win) /\ ~UserMoves(win, ws) /\ ~NiriDrops(ws)
  BY <1>2 DEF UserCloses, UserMoves, NiriDrops, Environment
<1>5. /\ \A name \in Names : ~ReloadConfig(name)
      /\ ~CutStream /\ ~Crash /\ ~Terminated /\ ~NiriRestarts
  BY <1>2 DEF ReloadConfig, CutStream, Crash, Terminated, NiriRestarts
<1>6. \A ws \in Workspaces : ~NiriDrops(ws)
  BY <1>2 DEF NiriDrops, Environment
<1>7. \A win \in Windows : ~UserCloses(win)
  BY <1>2 DEF UserCloses, Environment
<1>8. /\ \A win \in Windows : ~Pin(win) /\ ~Unpin(win)
      /\ ~MoveTracked /\ ~FocusDebounced
  <2>1. FollowSteps(tracked) = {} /\ moves = {}
    BY DEF BootInv, FollowSteps
  <2>2. \A plan \in SUBSET FollowSteps(tracked) : plan = {}
    BY <2>1
  <2>3. ~MoveTracked
    BY <2>1 DEF MoveTracked
  <2>4. ~FocusDebounced
    BY <2>2 DEF FocusDebounced
  <2> QED  BY <1>2, <2>3, <2>4 DEF Pin, Unpin
<1> QED  BY <1>3, <1>4, <1>5, <1>6, <1>7, <1>8 DEF Next, Daemon, World

LEMMA GuardFocuses ==
    tracked = {} => \A plan \in Guard \cup GuardOrFollow :
                        \A s \in plan : s.act.kind = "FocusWorkspace"
<1>1. \A plan \in Guard : \A s \in plan : s.act.kind = "FocusWorkspace"
  BY DEF Guard, Just, FocusWorkspace
<1>2. ASSUME tracked = {}  PROVE SUBSET FollowSteps(tracked) = {{}}
  <2>1. FollowSteps(tracked) = {}
    BY <1>2 DEF FollowSteps
  <2> QED  BY <2>1
<1> QED  BY <1>1, <1>2 DEF GuardOrFollow

\* The supervisor only ever moves the focus.
LEMMA LoopFocuses ==
    ASSUME TypeOK, BootInv, LoopAct
    PROVE  \/ \E ws : NiriBecomes(FocusOn(niri, ws)) /\ UNCHANGED world
           \/ Spend("fault") /\ UNCHANGED <<niri, queue>>
           \/ UNCHANGED <<niri, queue, world>>
<1>1. PICK s \in loop : BestEffort(s)
  BY DEF LoopAct, NextStep
<1>2. AfterAction(niri, s.act) = FocusOn(niri, s.act.ws)
  <2>1. s.act.kind = "FocusWorkspace"
    BY DEF BootInv
  <2> QED  BY <2>1 DEF AfterAction
<1> QED  BY <1>1, <1>2 DEF BestEffort

LEMMA ElsewhereHome ==
    ASSUME IInv, NEW home \in NiriState, Fresh(home), HomeFor(home), BootInv,
           SnapshotInv, EventsInv(home),
           \/ Handle \/ LoopAct \/ Connect \/ Restart \/ TakeState \/ \E s \in saving : Save(s)
           \/ \E ws \in Workspaces : UserFocuses(ws)
           \/ UNCHANGED vars
    PROVE  HomeFor(home)'
<1>0. TypeOK
  BY DEF IInv
<1>1. CASE Handle
  <2>1. /\ queue # <<>> /\ link # "down" /\ UNCHANGED <<niri, padName, task, budget>>
        /\ Head(queue) \in Events(queue) /\ Head(queue) \in Event /\ Head(queue) = queue[1]
        /\ 1 \in 1..Len(queue)
    <3>1. queue # <<>> /\ link # "down" /\ UNCHANGED <<niri, padName, task, budget>>
      BY <1>1 DEF Handle, HandleWorkspacesChanged, HandleWorkspaceActivated, HandleWindowClosed,
                  HandleWindowsChanged, HandleWindowChanged, Receive, config, world
    <3> QED  BY <1>0, <3>1, EventsTail DEF TypeOK
  <2>2. PICK e : e = Head(queue)
    OBVIOUS
  <2>3. ~HandleWindowClosed
    BY <2>1 DEF HandleWindowClosed, Receive, EventsInv
  <2>4. CASE HandleWorkspacesChanged
    <3>1. e.type = "WorkspacesChanged" /\ names' = e.names /\ UNCHANGED <<windows, stack>>
      BY <2>2, <2>4 DEF HandleWorkspacesChanged, Receive
    <3>2. \A ws \in Workspaces : Exists(home, ws) => e.names[ws] # Gone
      BY <2>1, <2>2, <3>1 DEF EventsInv
    <3> QED  BY <1>0, <2>1, <3>1, <3>2, HomeStays DEF Known, Cached
  <2>5. CASE HandleWorkspaceActivated
    <3>1. UNCHANGED <<names, windows, stack>>
      BY <2>5 DEF HandleWorkspaceActivated
    <3> QED  BY <1>0, <2>1, <3>1, HomeStays DEF Known, Cached
  <2>6. CASE HandleWindowsChanged
    <3>1. ~booted
      BY <2>1, <2>6 DEF HandleWindowsChanged, Receive, SnapshotInv
    <3>2. stack = {} /\ InFlight = {}
      BY <3>1 DEF BootInv
    <3>3. stack' = stack
      BY <2>6, <3>2 DEF HandleWindowsChanged
    <3> QED  BY <1>0, <2>1, <3>2, <3>3, HomeStays
  <2>7. CASE HandleWindowChanged
    <3>1. /\ e.type = "WindowOpenedOrChanged" /\ windows' = [windows EXCEPT ![e.win] = e.ws]
          /\ UNCHANGED <<names, stack>>
      BY <2>2, <2>7 DEF HandleWindowChanged, Receive
    <3>2. e.ws # NoWs
      BY <2>1, <2>2, <3>1, NiriAssumption DEF Event
    <3>3. \A win \in Windows : Cached(win) => Cached(win)'
      BY <1>0, <3>1, <3>2 DEF Cached, TypeOK
    <3> QED  BY <1>0, <2>1, <3>1, <3>3, HomeStays DEF Known
  <2> QED  BY <1>1, <2>3, <2>4, <2>5, <2>6, <2>7 DEF Handle
<1>2. CASE LoopAct
  <2>1. niri'.loc = niri.loc /\ niri'.name = niri.name
    BY <1>0, <1>2, LoopFocuses DEF NiriBecomes, FocusOn, TypeOK, NiriState
  <2>2. budget["fault"] = 0 => budget'["fault"] = 0
    BY <1>0, <1>2, LoopFocuses DEF Spend, world
  <2>3. UNCHANGED <<padName, stack, task, names, windows>>
    BY <1>2 DEF LoopAct, config, cache
  <2> QED  BY <1>0, <2>1, <2>2, <2>3, HomeStays DEF Known, Cached
<1>3. CASE Restart
  <2>1. link = "down" /\ stack = {} /\ disk.stack = {} /\ InFlight = {}
    BY <1>3 DEF Restart, BootInv, IInv, DownIsEmpty
  <2>2. UNCHANGED <<niri, padName, stack, task, budget>>
    BY <1>3, <2>1 DEF Restart, LoadedStack, compositor, world
  <2> QED  BY <1>0, <2>1, <2>2, HomeStays
<1>4. CASE Connect \/ TakeState \/ \E s \in saving : Save(s)
  <2>1. UNCHANGED <<niri, padName, stack, task, names, windows>>
    BY <1>4 DEF Connect, TakeState, Save, compositor, cache, config
  <2>2. budget["fault"] = 0 => budget'["fault"] = 0
    BY <1>4 DEF Connect, TakeState, Save, Spend, world
  <2> QED  BY <1>0, <2>1, <2>2, HomeStays DEF Known, Cached
<1>5. CASE \E ws \in Workspaces : UserFocuses(ws)
  <2>1. PICK ws \in Workspaces : Environment("focus", FocusOn(niri, ws))
    BY <1>5 DEF UserFocuses
  <2>2. Spend("focus") /\ UNCHANGED <<padName, stack, task, names, windows>>
    BY <2>1 DEF Environment, cache, config
  <2>3. niri'.loc = niri.loc /\ niri'.name = niri.name
    BY <1>0, <2>1 DEF Environment, NiriBecomes, FocusOn, TypeOK, NiriState
  <2>4. budget'["fault"] = budget["fault"]
    BY <1>0, <2>2 DEF Spend, TypeOK
  <2> QED  BY <1>0, <2>2, <2>3, <2>4, HomeStays DEF Known, Cached
<1>6. CASE UNCHANGED vars
  <2>1. UNCHANGED <<niri, padName, stack, task, names, windows, budget>>
    BY <1>6 DEF vars
  <2> QED  BY <1>0, <2>1, HomeStays DEF Known, Cached
<1> QED  BY <1>1, <1>2, <1>3, <1>4, <1>5, <1>6

-------------------------------------------------------------------------------
(* What the steps do to the compositor, the queue and the cache. *)

LEMMA Silent ==
    ASSUME TypeOK, UNCHANGED <<niri, queue>>
    PROVE  niri' \in NiriState /\ Simple(niri, niri') /\ NiriBecomes(niri')
  BY DEF TypeOK, Simple, NiriBecomes, Emit

LEMMA Requested ==
    ASSUME TypeOK, NEW m, NiriBecomes(m), m \in NiriState, Simple(niri, m)
    PROVE  niri' \in NiriState /\ Simple(niri, niri') /\ NiriBecomes(niri')
  BY DEF NiriBecomes

LEMMA RequestSimple ==
    ASSUME TypeOK, NEW s \in Step
    PROVE  AfterAction(niri, s.act) \in NiriState /\ Simple(niri, AfterAction(niri, s.act))
<1>1. niri \in NiriState /\ s.act \in Action
  BY DEF TypeOK, Step
<1> QED  BY <1>1, ActionSimple, AfterActionType

\* A request changes the compositor in one respect at a time, and the cache only
\* when it commits, to what the compositor is already.
LEMMA TaskBecomes ==
    ASSUME IInv, Calm, BootInv, NEW home, HomeFor(home), NEW t \in Tasks, TaskSteps(t)
    PROVE  /\ niri' \in NiriState /\ Simple(niri, niri') /\ NiriBecomes(niri')
           /\ UNCHANGED <<niriSession, session, link, booted, windows, focused, loop, padName>>
           /\ booted
           /\ names' = names \/ (niri' = niri /\ (names = niri.name => names' = names))
<1>0. TypeOK /\ OneEntryPerWindow
  BY DEF IInv, StackIsSound
<1>1. task[t].pc \in {"acting", "failed", "undoing"} => booted
  BY DEF BootInv, InFlight
<1>2. task[t] \in Task
  BY <1>0 DEF TypeOK
<1>3. \A s \in task[t].plan : /\ AfterAction(niri, s.act) \in NiriState
                              /\ Simple(niri, AfterAction(niri, s.act))
  BY <1>0, <1>2, RequestSimple DEF Task
<1>4. CASE \/ \E win \in Windows : StartHide(t, win)
           \/ \E e \in stack : StartRestore(t, e)
           \/ StartRestoreAll(t)
  <2>1. /\ UNCHANGED <<niri, queue, niriSession, session, link, booted, windows, focused, loop,
                       padName, names>>
        /\ CanBegin(t)
    BY <1>4 DEF StartHide, StartRestore, StartRestoreAll, compositor, cache, config
  <2>2. booted
    BY <2>1 DEF CanBegin, Calm, CaughtUp
  <2> QED  BY <1>0, <2>1, <2>2, Silent
<1>5. CASE Act(t) \/ ActFails(t) \/ Undo(t)
  <2>1. UNCHANGED <<niriSession, session, link, booted, windows, focused, loop, padName, names>>
    BY <1>5 DEF Act, ActFails, Undo, cache, config
  <2>2. \/ UNCHANGED <<niri, queue>>
        \/ \E s \in NextStep(task[t].plan) : NiriBecomes(AfterAction(niri, s.act))
    BY <1>5 DEF Act, ActFails, Undo, BestEffort
  <2>3. booted
    BY <1>1, <1>5 DEF Act, ActFails, Undo
  <2>4. niri' \in NiriState /\ Simple(niri, niri') /\ NiriBecomes(niri')
    BY <1>0, <1>3, <2>2, Silent, Requested DEF NextStep
  <2> QED  BY <2>1, <2>3, <2>4
<1>6. CASE CommitHide(t) \/ CommitRestore(t)
  <2>1. UNCHANGED <<niri, queue, niriSession, session, link, booted, windows, focused, loop,
                    padName>>
    BY <1>6 DEF CommitHide, CommitRestore, compositor, config
  <2>2. booted
    BY <1>1, <1>6 DEF CommitHide, CommitRestore, Committing
  <2>3. names = niri.name => names' = names
    BY <1>0, <1>6, CommitHideHome, CommitRestoreHome
  <2> QED  BY <1>0, <2>1, <2>2, <2>3, Silent
<1>7. CASE PlanUndo(t) \/ GiveUp(t)
  <2>1. UNCHANGED <<niri, queue, niriSession, session, link, booted, windows, focused, loop,
                    padName, names>>
    BY <1>7 DEF PlanUndo, GiveUp, compositor, cache, config
  <2>2. booted
    BY <1>1, <1>7 DEF PlanUndo, GiveUp
  <2> QED  BY <1>0, <2>1, <2>2, Silent
<1> QED  BY <1>4, <1>5, <1>6, <1>7 DEF TaskSteps

\* What the other steps do, except a handler and a new connection.
LEMMA OthersBecome ==
    ASSUME TypeOK, BootInv,
           \/ LoopAct \/ Restart \/ TakeState \/ \E s \in saving : Save(s)
           \/ \E ws \in Workspaces : UserFocuses(ws)
           \/ UNCHANGED vars
    PROVE  /\ niri' \in NiriState /\ Simple(niri, niri') /\ NiriBecomes(niri')
           /\ UNCHANGED <<niriSession, booted, windows, names, focused, padName, task>>
           /\ loop' \subseteq loop
           /\ (link' = link /\ session' = session) \/ Restart
<1>1. \A ws : FocusOn(niri, ws) \in NiriState /\ Simple(niri, FocusOn(niri, ws))
  BY DEF FocusOn, NiriState, Simple, TypeOK
<1>2. CASE LoopAct
  <2>1. niri' \in NiriState /\ Simple(niri, niri') /\ NiriBecomes(niri')
    BY <1>1, <1>2, LoopFocuses, Silent, Requested
  <2> QED  BY <1>2, <2>1 DEF LoopAct, cache, config
<1>3. CASE \E ws \in Workspaces : UserFocuses(ws)
  <2>1. PICK ws \in Workspaces : Environment("focus", FocusOn(niri, ws))
    BY <1>3 DEF UserFocuses
  <2>2. niri' \in NiriState /\ Simple(niri, niri') /\ NiriBecomes(niri')
    BY <1>1, <2>1, Requested DEF Environment
  <2> QED  BY <2>1, <2>2 DEF Environment, cache, config
<1>4. CASE \/ Restart \/ TakeState \/ \E s \in saving : Save(s)
           \/ UNCHANGED vars
  <2>1. UNCHANGED <<niri, queue, niriSession, booted, windows, names, focused, padName, task, loop>>
    BY <1>4 DEF Restart, TakeState, Save, compositor, cache, config, vars
  <2>2. (link' = link /\ session' = session) \/ Restart
    BY <1>4 DEF TakeState, Save, config, vars
  <2> QED  BY <2>1, <2>2, Silent
<1> QED  BY <1>2, <1>3, <1>4

-------------------------------------------------------------------------------
(* What is on its way makes the cache current. *)

\* A handler makes the cache what the event says.
LEMMA HandlersHear ==
    ASSUME TypeOK, Handle
    PROVE  /\ queue # <<>> /\ queue' = Tail(queue) /\ Head(queue) \in Event
           /\ UNCHANGED <<niri, niriSession, session, link, padName, disk, saving, task, budget>>
           /\ \A f \in Facets :
                Part(EngineCache', f) = IF Tells(Head(queue), f) THEN Says(Head(queue), f)
                                        ELSE Part(EngineCache, f)
<1>1. PICK e : e = Head(queue)
  OBVIOUS
<1>2. /\ queue # <<>> /\ queue' = Tail(queue) /\ e \in Event
      /\ UNCHANGED <<niri, niriSession, session, link, padName, disk, saving, task, budget>>
  <2>1. PICK type : Receive(type)
    BY DEF Handle, HandleWorkspacesChanged, HandleWorkspaceActivated, HandleWindowClosed,
           HandleWindowsChanged, HandleWindowChanged
  <2> QED  BY <1>1, <2>1 DEF Receive, TypeOK, config, world, saved
<1>3. PICK c, d : c = EngineCache /\ d = EngineCache'
  OBVIOUS
<1>4. /\ c.name = names /\ c.focus = focused /\ c.loc = windows
      /\ d.name = names' /\ d.focus = focused' /\ d.loc = windows'
  BY <1>3 DEF EngineCache
<1>5. \A f \in Facets : /\ f.part \in {"names", "focus", "loc"}
                        /\ f.part = "loc" => f.win \in Windows
  BY DEF Facets
<1>6. CASE HandleWorkspacesChanged
  <2>1. /\ e.type = "WorkspacesChanged" /\ names' = e.names /\ focused' = e.focus
        /\ windows' = windows
    BY <1>1, <1>6 DEF HandleWorkspacesChanged, Receive
  <2>2. \A f \in Facets : Part(d, f) = IF Tells(e, f) THEN Says(e, f) ELSE Part(c, f)
    BY <1>4, <1>5, <2>1 DEF Part, Tells, Says
  <2> QED  BY <1>1, <1>2, <1>3, <2>2
<1>7. CASE HandleWorkspaceActivated
  <2>1. /\ e.type = "WorkspaceActivated" /\ names' = names /\ focused' = e.ws
        /\ windows' = windows
    BY <1>1, <1>7 DEF HandleWorkspaceActivated, Receive
  <2>2. \A f \in Facets : Part(d, f) = IF Tells(e, f) THEN Says(e, f) ELSE Part(c, f)
    BY <1>4, <1>5, <2>1 DEF Part, Tells, Says
  <2> QED  BY <1>1, <1>2, <1>3, <2>2
<1>8. CASE HandleWindowsChanged
  <2>1. /\ e.type = "WindowsChanged" /\ names' = names /\ focused' = focused
        /\ windows' = e.loc
    BY <1>1, <1>8 DEF HandleWindowsChanged, Receive
  <2>2. \A f \in Facets : Part(d, f) = IF Tells(e, f) THEN Says(e, f) ELSE Part(c, f)
    BY <1>4, <1>5, <2>1 DEF Part, Tells, Says
  <2> QED  BY <1>1, <1>2, <1>3, <2>2
<1>9. CASE HandleWindowClosed \/ HandleWindowChanged
  <2>1. PICK x : x = IF e.type = "WindowClosed" THEN NoWs ELSE e.ws
    OBVIOUS
  <2>2. /\ names' = names /\ focused' = focused /\ windows' = [windows EXCEPT ![e.win] = x]
        /\ e.type \in {"WindowClosed", "WindowOpenedOrChanged"}
    BY <1>1, <1>9, <2>1 DEF HandleWindowClosed, HandleWindowChanged, Receive
  <2>3. \A f \in Facets : Part(d, f) = IF Tells(e, f) THEN Says(e, f) ELSE Part(c, f)
    BY <1>4, <1>5, <2>1, <2>2 DEF Part, Tells, Says, TypeOK
  <2> QED  BY <1>1, <1>2, <1>3, <2>3
<1> QED  BY <1>6, <1>7, <1>8, <1>9 DEF Handle

\* A new connection is told everything.
LEMMA BootstrapHeard ==
    ASSUME NEW n, NEW c, NEW f \in Facets
    PROVE  Heard(Bootstrap(n), c, f, Part(n, f))
<1>1. f.part \in {"names", "focus", "loc"}
  BY DEF Facets
<1>2. PICK e, g : e = WorkspacesEvent(n) /\ g = WindowsEvent(n)
  OBVIOUS
<1>3. /\ e.type = "WorkspacesChanged" /\ e.names = n.name /\ e.focus = n.focus
      /\ g.type = "WindowsChanged" /\ g.loc = n.loc
  BY <1>2 DEF WorkspacesEvent, WindowsEvent
<1>4. PICK q : q = Bootstrap(n)
  OBVIOUS
<1>5. Len(q) = 2 /\ q[1] = e /\ q[2] = g
  BY <1>2, <1>4 DEF Bootstrap
<1>6. CASE f.part = "loc"
  BY <1>3, <1>4, <1>5, <1>6 DEF Heard, Tells, Says, Part
<1>7. CASE f.part \in {"names", "focus"}
  BY <1>3, <1>4, <1>5, <1>7 DEF Heard, Tells, Says, Part
<1> QED  BY <1>1, <1>6, <1>7

LEMMA EmitCurrent ==
    ASSUME TypeOK, CurrentInv, niri' \in NiriState, Simple(niri, niri'), NiriBecomes(niri'),
           UNCHANGED <<windows, focused, names>>, link' = link
    PROVE  CurrentInv'
<1> SUFFICES ASSUME link = "on"
             PROVE  \A f \in Facets : Heard(queue', EngineCache', f, Part(niri', f))
  BY DEF CurrentInv
<1>1. PICK c : c = EngineCache /\ c = EngineCache'
  BY DEF EngineCache
<1>2. PICK m : m = niri'
  OBVIOUS
<1>3. \A f \in Facets : Heard(queue, c, f, Part(niri, f))
  BY <1>1 DEF CurrentInv
<1>4. \A f \in Facets : Heard(Emit(queue, niri, m), c, f, Part(m, f))
  BY <1>2, <1>3, EmitHeard DEF TypeOK
<1> QED  BY <1>1, <1>2, <1>4 DEF NiriBecomes

LEMMA CommitCurrent ==
    ASSUME TypeOK, CurrentInv, UNCHANGED <<niri, windows, focused>>, NiriBecomes(niri'),
           names = niri.name => names' = names, link' = link
    PROVE  CurrentInv'
<1> SUFFICES ASSUME link = "on", NEW f \in Facets
             PROVE  Heard(queue', EngineCache', f, Part(niri', f))
  BY DEF CurrentInv
<1>1. PICK c, d : c = EngineCache /\ d = EngineCache'
  OBVIOUS
<1>2. /\ c.name = names /\ c.focus = focused /\ c.loc = windows
      /\ d.name = names' /\ d.focus = focused /\ d.loc = windows
  BY <1>1 DEF EngineCache
<1>3. queue' = queue
  BY DEF NiriBecomes, Emit
<1>4. Heard(queue, c, f, Part(niri, f))
  BY <1>1 DEF CurrentInv
<1>5. Part(c, f) = Part(niri, f) => Part(d, f) = Part(niri, f)
  BY <1>2 DEF Part
<1>6. Heard(queue, d, f, Part(niri, f))
  BY <1>4, <1>5 DEF Heard
<1> QED  BY <1>1, <1>3, <1>6

LEMMA CurrentStep ==
    ASSUME IInv, Calm, BudgetInv, BootInv, NEW home, HomeFor(home), CurrentInv, [Next]_vars
    PROVE  CurrentInv'
<1>0. TypeOK
  BY DEF IInv
<1>1. CASE \E t \in Tasks : TaskSteps(t)
  <2>1. PICK t \in Tasks : TaskSteps(t)
    BY <1>1
  <2>2. /\ niri' \in NiriState /\ Simple(niri, niri') /\ NiriBecomes(niri')
        /\ UNCHANGED <<link, windows, focused>>
        /\ names' = names \/ (niri' = niri /\ (names = niri.name => names' = names))
    BY <2>1, TaskBecomes
  <2> QED  BY <1>0, <2>2, EmitCurrent, CommitCurrent
<1>2. CASE Handle
  <2> SUFFICES ASSUME link' = "on", NEW f \in Facets
               PROVE  Heard(queue', EngineCache', f, Part(niri', f))
    BY DEF CurrentInv
  <2>1. PICK v : v = Part(niri, f)
    OBVIOUS
  <2>2. UNCHANGED <<niri, link>> /\ queue # <<>> /\ queue' = Tail(queue) /\ queue \in Seq(Event)
    BY <1>0, <1>2, HandlersHear DEF TypeOK
  <2>3. PICK c, d : c = EngineCache /\ d = EngineCache'
    OBVIOUS
  <2>4. Heard(queue, c, f, v)
    BY <2>1, <2>2, <2>3 DEF CurrentInv
  <2>5. Part(d, f) = IF Tells(Head(queue), f) THEN Says(Head(queue), f) ELSE Part(c, f)
    BY <1>0, <1>2, <2>3, HandlersHear
  <2>6. Heard(Tail(queue), d, f, v)
    BY <2>2, <2>4, <2>5, HeardTail
  <2> QED  BY <2>1, <2>2, <2>3, <2>6
<1>3. CASE Connect
  <2>1. niri' = niri /\ queue' = Bootstrap(niri)
    BY <1>3 DEF Connect
  <2> QED  BY <2>1, BootstrapHeard DEF CurrentInv
<1>4. CASE \/ LoopAct \/ Restart \/ TakeState \/ \E s \in saving : Save(s)
           \/ \E ws \in Workspaces : UserFocuses(ws)
           \/ UNCHANGED vars
  <2>1. /\ niri' \in NiriState /\ Simple(niri, niri') /\ NiriBecomes(niri')
        /\ UNCHANGED <<windows, names, focused>>
        /\ link' = link \/ Restart
    BY <1>0, <1>4, OthersBecome
  <2>2. CASE Restart
    BY <2>2 DEF Restart, CurrentInv
  <2> QED  BY <1>0, <2>1, <2>2, EmitCurrent
<1> QED  BY <1>0, <1>1, <1>2, <1>3, <1>4, Quiet

-------------------------------------------------------------------------------
(* What is on its way, and what the daemon knows before it is told. *)

\* Each step handles an event, connects, or lets the compositor change.
LEMMA QueueCases ==
    ASSUME IInv, Calm, BudgetInv, BootInv, NEW home, HomeFor(home), [Next]_vars, ~Handle, ~Connect
    PROVE  /\ niri' \in NiriState /\ booted' = booted /\ padName' = padName
           /\ \/ queue' = queue
              \/ \E e \in Event : queue' = Append(queue, e) /\ New(e, niri, niri')
<1>0. TypeOK /\ niri \in NiriState /\ queue \in Seq(Event)
  BY DEF IInv, TypeOK
<1>1. /\ niri' \in NiriState /\ Simple(niri, niri') /\ NiriBecomes(niri')
      /\ booted' = booted /\ padName' = padName
  <2>1. CASE \E t \in Tasks : TaskSteps(t)
    BY <2>1, TaskBecomes
  <2>2. CASE \/ LoopAct \/ Restart \/ TakeState \/ \E s \in saving : Save(s)
             \/ \E ws \in Workspaces : UserFocuses(ws)
             \/ UNCHANGED vars
    BY <1>0, <2>2, OthersBecome
  <2> QED  BY <1>0, <2>1, <2>2, Quiet
<1>2. PICK m : m = niri'
  OBVIOUS
<1>3. queue' = queue \/ \E e \in Event : queue' = Append(queue, e) /\ New(e, niri, m)
  BY <1>0, <1>1, <1>2, EmitNew DEF NiriBecomes
<1> QED  BY <1>1, <1>2, <1>3

LEMMA SnapshotStep ==
    ASSUME IInv, Calm, BudgetInv, BootInv, NEW home, HomeFor(home), SnapshotInv, [Next]_vars
    PROVE  SnapshotInv'
<1>0. TypeOK /\ queue \in Seq(Event)
  BY DEF IInv, TypeOK
<1>1. CASE Handle
  <2>1. queue # <<>> /\ queue' = Tail(queue)
    BY <1>0, <1>1, HandlersHear
  <2>2. PICK n \in Nat : n = Len(queue)
    BY <1>0
  <2>3. /\ n >= 1 /\ Len(queue') = n - 1 /\ Head(queue) = queue[1]
        /\ \A i \in 1..n - 1 : queue'[i] = queue[i + 1]
    BY <1>0, <2>1, <2>2
  <2> SUFFICES ASSUME NEW i \in 1..n - 1, queue'[i].type = "WindowsChanged"
               PROVE  ~booted' /\ i = 1
    BY <2>3 DEF SnapshotInv
  <2>4. queue[i + 1].type = "WindowsChanged" /\ i + 1 \in 1..Len(queue) /\ i + 1 # 1
    BY <2>2, <2>3
  <2>5. ~booted /\ i = 1 /\ queue[1].type # "WindowsChanged"
    BY <2>4 DEF SnapshotInv
  <2>6. ~HandleWindowsChanged
    BY <2>3, <2>5 DEF HandleWindowsChanged, Receive
  <2>7. booted' = booted
    BY <1>1, <2>6 DEF Handle, HandleWorkspacesChanged, HandleWorkspaceActivated,
                      HandleWindowClosed, HandleWindowChanged
  <2> QED  BY <2>5, <2>7
<1>2. CASE Connect
  <2>1. PICK e, g : e = WorkspacesEvent(niri) /\ g = WindowsEvent(niri)
    OBVIOUS
  <2>2. e.type = "WorkspacesChanged"
    BY <2>1 DEF WorkspacesEvent
  <2>3. queue' = <<e, g>> /\ ~booted'
    BY <1>2, <2>1 DEF Connect, Bootstrap, BootInv, cache
  <2>4. Len(queue') = 2 /\ queue'[1] = e
    BY <2>3
  <2> QED  BY <2>2, <2>3, <2>4 DEF SnapshotInv
<1>3. CASE ~Handle /\ ~Connect
  <2>1. booted' = booted
    BY <1>3, QueueCases
  <2>2. CASE queue' = queue
    BY <2>1, <2>2 DEF SnapshotInv
  <2>3. ASSUME NEW e \in Event, queue' = Append(queue, e), New(e, niri, niri')
        PROVE  SnapshotInv'
    <3>1. e.type # "WindowsChanged"
      BY <2>3 DEF New
    <3>2. PICK n \in Nat : n = Len(queue)
      BY <1>0
    <3>3. PICK q : q = queue'
      OBVIOUS
    <3>4. Len(q) = n + 1 /\ q[n + 1] = e /\ \A i \in 1..n : q[i] = queue[i]
      BY <1>0, <2>3, <3>2, <3>3
    <3>5. ASSUME NEW i \in 1..Len(q), q[i].type = "WindowsChanged"
          PROVE  ~booted /\ (i = 1 \/ (i = 2 /\ q[1].type # "WindowsChanged"))
      <4>1. i \in 1..n
        <5>1. i # n + 1
          BY <3>1, <3>4, <3>5
        <5> QED  BY <3>4, <5>1
      <4>2. queue[i].type = "WindowsChanged" /\ q[1] = queue[1]
        BY <3>4, <3>5, <4>1
      <4> QED  BY <3>2, <4>1, <4>2 DEF SnapshotInv
    <3> QED  BY <2>1, <3>3, <3>5 DEF SnapshotInv
  <2> QED  BY <1>3, <2>2, <2>3, QueueCases
<1> QED  BY <1>1, <1>2, <1>3

\* Windows stay open and workspaces stay where they are.
LEMMA EventsStep ==
    ASSUME IInv, Calm, BudgetInv, BootInv, NEW home, HomeFor(home), EventsInv(home), [Next]_vars,
           HomeFor(home)', BootInv'
    PROVE  EventsInv(home)'
<1>0. TypeOK /\ queue \in Seq(Event)
  BY DEF IInv, TypeOK
<1>1. padName' = padName
  <2>1. Handle \/ Connect => padName' = padName
    BY <1>0, HandlersHear DEF Connect, config
  <2> QED  BY <2>1, QueueCases
<1>2. \A ws \in Workspaces : /\ Exists(home, ws) => niri'.name[ws] # Gone
                             /\ ~booted' => niri'.name[ws] # padName'
  <2>1. \A ws \in Workspaces : Exists(home, ws) => niri'.name[ws] # Gone
    BY <1>0, <1>1, NiriAssumption DEF HomeFor, NamesInv, Exists, TypeOK
  <2>2. ~booted' => ParkedAt' = {}
    BY DEF BootInv, HomeFor
  <2> QED  BY <2>1, <2>2 DEF ParkedAt, Named
<1>3. ASSUME NEW e \in Events(queue), booted' = booted \/ booted'
      PROVE  /\ e.type # "WindowClosed"
             /\ e.type = "WorkspacesChanged" =>
                  \A ws \in Workspaces : /\ Exists(home, ws) => e.names[ws] # Gone
                                         /\ ~booted' => e.names[ws] # padName'
  BY <1>0, <1>1, <1>3 DEF EventsInv, TypeOK
<1>4. CASE Handle
  <2>1. Events(queue') \subseteq Events(queue)
    BY <1>0, <1>4, HandlersHear, EventsTail
  <2>2. booted' = booted \/ booted'
    BY <1>0, <1>4 DEF Handle, HandleWorkspacesChanged, HandleWorkspaceActivated, HandleWindowClosed,
                HandleWindowsChanged, HandleWindowChanged, TypeOK
  <2> QED  BY <1>3, <2>1, <2>2, Zenon DEF EventsInv
<1>5. CASE Connect
  <2>1. PICK e, g : e = WorkspacesEvent(niri) /\ g = WindowsEvent(niri)
    OBVIOUS
  <2>2. e.type = "WorkspacesChanged" /\ e.names = niri.name /\ g.type = "WindowsChanged"
    BY <2>1 DEF WorkspacesEvent, WindowsEvent
  <2>3. queue' = <<e, g>> /\ niri' = niri
    BY <1>5, <2>1 DEF Connect, Bootstrap
  <2>4. \A x \in Events(queue') : x = e \/ x = g
    BY <2>3 DEF Events
  <2> QED  BY <1>2, <2>2, <2>3, <2>4 DEF EventsInv
<1>6. CASE ~Handle /\ ~Connect
  <2>1. niri' \in NiriState /\ booted' = booted
    BY <1>6, QueueCases
  <2>2. CASE queue' = queue
    BY <1>3, <2>1, <2>2 DEF EventsInv
  <2>3. ASSUME NEW e \in Event, queue' = Append(queue, e), New(e, niri, niri')
        PROVE  EventsInv(home)'
    <3>1. Events(queue') = Events(queue) \cup {e}
      BY <1>0, <2>3, EventsAppend
    <3>2. e.type # "WindowClosed"
      BY <2>3 DEF New, HomeFor, NamesInv, Open
    <3>3. e.type = "WorkspacesChanged" => e.names = niri'.name
      BY <2>3 DEF New
    <3> QED  BY <1>2, <1>3, <2>1, <3>1, <3>2, <3>3 DEF EventsInv
  <2> QED  BY <1>6, <2>2, <2>3, QueueCases
<1> QED  BY <1>4, <1>5, <1>6

\* Nobody pins, so that no window is tracked.
LEMMA NothingTracked ==
    ASSUME IInv, Calm, BudgetInv, BootInv, [Next]_vars
    PROVE  tracked' = {} /\ moves' = {}
<1>1. tracked = {} /\ moves = {}
  BY DEF BootInv
<1>2. CASE \E t \in Tasks : TaskSteps(t)
  <2>1. UNCHANGED <<tracked, moves>>
    BY <1>2 DEF TaskSteps, StartHide, StartRestore, StartRestoreAll, Act, ActFails, CommitHide,
                CommitRestore, PlanUndo, Undo, GiveUp
  <2> QED  BY <1>1, <2>1
<1>3. CASE Handle
  BY <1>1, <1>3 DEF Handle, HandleWorkspacesChanged, HandleWorkspaceActivated,
                    HandleWindowClosed, HandleWindowsChanged, HandleWindowChanged, Receive
<1>4. CASE \/ LoopAct \/ Connect \/ Restart \/ TakeState \/ \E s \in saving : Save(s)
           \/ \E ws \in Workspaces : UserFocuses(ws)
           \/ UNCHANGED vars
  BY <1>1, <1>4 DEF LoopAct, Connect, Restart, TakeState, Save, UserFocuses, Environment, vars
<1> QED  BY <1>2, <1>3, <1>4, Quiet DEF IInv

LEMMA BootStep ==
    ASSUME IInv, Calm, BudgetInv, BootInv, NEW home, HomeFor(home), SnapshotInv, EventsInv(home),
           [Next]_vars
    PROVE  BootInv'
<1>0. TypeOK /\ queue \in Seq(Event)
  BY DEF IInv, TypeOK
<1>1. CASE \E t \in Tasks : TaskSteps(t)
  <2>1. PICK t \in Tasks : TaskSteps(t)
    BY <1>1
  <2>2. booted /\ link' = link /\ booted' = booted /\ session' = session
        /\ niriSession' = niriSession /\ loop' = loop
    BY <2>1, TaskBecomes
  <2>3. link = "on"
    BY <2>2 DEF BootInv
  <2> QED  BY <2>2, <2>3, NothingTracked DEF BootInv
<1>2. CASE Handle
  <2>1. /\ queue # <<>> /\ Head(queue) = queue[1] /\ 1 \in 1..Len(queue)
        /\ Head(queue) \in Events(queue)
        /\ UNCHANGED <<niriSession, session, link, padName, disk, saving, task>>
    BY <1>0, <1>2, HandlersHear, EventsTail
  <2>2. link = "on" /\ InFlight' = InFlight
    <3>1. link # "down" /\ link # "off"
      BY <1>0, <2>1 DEF BootInv
    <3> QED  BY <2>1, <3>1, NothingTracked DEF BootInv, InFlight
  <2>3. CASE HandleWorkspacesChanged \/ HandleWorkspaceActivated
    <3>1. /\ booted' = booted /\ stack' = stack /\ tracked' = {}
          /\ loop' \in Guard' \/ loop' \in GuardOrFollow'
      BY <2>3 DEF HandleWorkspacesChanged, HandleWorkspaceActivated, BootInv
    <3>2. \A s \in loop' : s.act.kind = "FocusWorkspace"
      <4>1. (tracked = {} => \A plan \in Guard \cup GuardOrFollow :
                \A s \in plan : s.act.kind = "FocusWorkspace")'
        BY GuardFocuses, PTL
      <4> QED  BY <3>1, <4>1
    <3>3. ~booted' => \A ws \in Workspaces : names'[ws] # padName'
      <4>1. CASE HandleWorkspaceActivated
        BY <2>1, <3>1, <4>1 DEF HandleWorkspaceActivated, BootInv
      <4>2. CASE HandleWorkspacesChanged
        <5>1. Head(queue).type = "WorkspacesChanged" /\ names' = Head(queue).names
          BY <4>2 DEF HandleWorkspacesChanged, Receive
        <5> QED  BY <2>1, <3>1, <5>1 DEF EventsInv
      <4> QED  BY <2>3, <4>1, <4>2
    <3> QED  BY <2>1, <2>2, <3>1, <3>2, <3>3, NothingTracked DEF BootInv
  <2>4. CASE HandleWindowsChanged
    <3>1. ~booted /\ booted' /\ loop' \in CleanupPlans(windows', stack')
      BY <2>1, <2>4 DEF HandleWindowsChanged, Receive, SnapshotInv
    <3>2. Pads = {}
      BY <3>1 DEF BootInv, Pads
    <3>3. loop' = {}
      BY <3>1, <3>2 DEF CleanupPlans
    <3> QED  BY <2>1, <2>2, <3>1, <3>3, NothingTracked DEF BootInv
  <2>5. CASE HandleWindowChanged
    <3>1. UNCHANGED <<names, booted, stack, loop>>
      BY <2>5 DEF HandleWindowChanged
    <3> QED  BY <2>1, <2>2, <3>1, NothingTracked DEF BootInv
  <2>6. ~HandleWindowClosed
    BY <2>1 DEF HandleWindowClosed, Receive, EventsInv
  <2> QED  BY <1>2, <2>3, <2>4, <2>5, <2>6 DEF Handle
<1>3. CASE Connect
  <2>1. /\ link = "off" /\ link' = "on"
        /\ UNCHANGED <<niriSession, session, padName, names, booted, stack, task, loop>>
    BY <1>3 DEF Connect, cache, config
  <2> QED  BY <2>1, NothingTracked DEF BootInv, InFlight
<1>4. CASE Restart
  <2>1. /\ link = "down" /\ link' = "off" /\ session' = niriSession
        /\ UNCHANGED <<niriSession, queue, padName, names, booted, task, loop>>
        /\ stack' = LoadedStack
    BY <1>4 DEF Restart, compositor, cache
  <2>2. stack' = {}
    BY <2>1 DEF LoadedStack, BootInv
  <2> QED  BY <2>1, <2>2, NothingTracked DEF BootInv, InFlight
<1>5. CASE TakeState \/ \E s \in saving : Save(s)
  <2>1. /\ link # "down" /\ link' = link
        /\ UNCHANGED <<niriSession, session, queue, padName, names, booted, stack, task, loop>>
    BY <1>5 DEF TakeState, Save, compositor, cache, config, BootInv
  <2> QED  BY <2>1, NothingTracked DEF BootInv, InFlight
<1>6. CASE \/ LoopAct
           \/ \E ws \in Workspaces : UserFocuses(ws)
           \/ UNCHANGED vars
  <2>1. /\ UNCHANGED <<niriSession, booted, names, padName, task>>
        /\ loop' \subseteq loop /\ NiriBecomes(niri')
        /\ (link' = link /\ session' = session) \/ Restart
    BY <1>0, <1>6, OthersBecome
  <2>2. UNCHANGED <<stack, disk, saving>>
    BY <1>6 DEF LoopAct, UserFocuses, Environment, vars, saved
  <2>3. link # "on" => queue' = queue
    BY <2>1 DEF NiriBecomes
  <2> QED  BY <1>4, <2>1, <2>2, <2>3, NothingTracked DEF BootInv, InFlight
<1> QED  BY <1>0, <1>1, <1>2, <1>3, <1>4, <1>5, <1>6, Quiet

LEMMA BudgetStep ==
    ASSUME TypeOK, BudgetInv, [Next]_vars
    PROVE  BudgetInv'
<1>1. budget' = budget \/ \E what \in Happenings : Spend(what)
  <2>1. {"focus", "close", "move", "drop", "pin", "reload", "fault", "cut", "crash", "niri"}
          \subseteq Happenings
    BY DEF Happenings
  <2>2. CASE \E t \in Tasks : TaskSteps(t)
    BY <2>1, <2>2 DEF TaskSteps, StartHide, StartRestore, StartRestoreAll, Act, ActFails,
                      CommitHide, CommitRestore, PlanUndo, Undo, BestEffort, GiveUp, world
  <2>3. CASE Handle
    BY <2>3, HandlersHear
  <2>4. CASE MoveTracked \/ FocusDebounced \/ LoopAct \/ Connect \/ StreamEnded \/ OwnerGone \/ Restart \/ TakeState
             \/ \E s \in saving : Save(s)
    BY <2>1, <2>4 DEF LoopAct, MoveTracked, FocusDebounced, BestEffort, Connect, StreamEnded,
                      OwnerGone, Restart, TakeState, Save, world
  <2>5. CASE World
    BY <2>1, <2>5 DEF World, ReloadConfig, Pin, Unpin, UserCloses, UserFocuses, NiriDrops,
                      UserMoves, Environment, CutStream, Crash, Terminated, NiriRestarts
  <2>6. CASE UNCHANGED vars
    BY <2>6 DEF vars
  <2> QED  BY <2>2, <2>3, <2>4, <2>5, <2>6 DEF Next, Daemon
<1>2. ASSUME NEW what \in Happenings, Spend(what) PROVE BudgetInv'
  <2> SUFFICES ASSUME NEW w \in Happenings PROVE budget'[w] <= Limits[w]
    BY DEF BudgetInv
  <2>1. budget[w] \in Nat /\ Limits[w] \in Nat /\ budget[w] <= Limits[w]
    BY HideAssumption DEF TypeOK, BudgetInv
  <2>2. budget'[w] = budget[w] \/ budget'[w] = budget[w] - 1
    BY <1>2 DEF Spend, TypeOK
  <2> QED  BY <2>1, <2>2
<1> QED  BY <1>1, <1>2 DEF BudgetInv

LEMMA HomeStep ==
    ASSUME IInv, Calm, BudgetInv, BootInv, NEW home \in InitialNiri, HomeFor(home), SnapshotInv,
           EventsInv(home), CurrentInv, [Next]_vars
    PROVE  HomeFor(home)'
<1>0. /\ TypeOK /\ OneEntryPerWindow /\ home \in NiriState /\ Fresh(home)
      /\ ClientsWait /\ MaxInFlight = 1 /\ Limits["fault"] <= 1
  BY HideAssumption DEF IInv, StackIsSound, Calm
<1>1. ASSUME NEW t \in Tasks, TaskSteps(t) PROVE HomeFor(home)'
  <2>1. CASE \E win \in Windows : StartHide(t, win)
    BY <1>0, <2>1, StartHideHome
  <2>2. CASE StartRestoreAll(t) \/ \E e \in stack : StartRestore(t, e)
    BY <1>0, <2>2, StartRestoreHome
  <2>3. task[t].pc \in {"acting", "undoing"} => session = niriSession
    <3>1. task[t].pc \in {"acting", "undoing"} => link # "down"
      BY DEF BootInv, InFlight
    <3> QED  BY <3>1 DEF BootInv
  <2>4. CASE Act(t)
    BY <1>0, <2>4, ActHome
  <2>5. CASE ActFails(t)
    <3>1. session = niriSession
      BY <2>3, <2>5 DEF ActFails
    <3> QED  BY <1>0, <2>5, <3>1, ActFailsHome
  <2>6. CASE CommitHide(t) \/ CommitRestore(t)
    BY <1>0, <2>6, CommitHideHome, CommitRestoreHome
  <2>7. CASE PlanUndo(t) \/ GiveUp(t)
    BY <1>0, <2>7, PlanUndoHome, GiveUpHome
  <2>8. CASE Undo(t)
    <3>1. session = niriSession
      BY <2>3, <2>8 DEF Undo
    <3> QED  BY <1>0, <2>8, <3>1, UndoHome
  <2> QED  BY <1>1, <2>1, <2>2, <2>4, <2>5, <2>6, <2>7, <2>8 DEF TaskSteps
<1>2. CASE \/ Handle \/ LoopAct \/ Connect \/ Restart \/ TakeState \/ \E s \in saving : Save(s)
           \/ \E ws \in Workspaces : UserFocuses(ws)
           \/ UNCHANGED vars
  BY <1>0, <1>2, ElsewhereHome
<1> QED  BY <1>0, <1>1, <1>2, Quiet

-------------------------------------------------------------------------------
(* Never astray: what holds in the middle of a request. *)

\* Whoever is not at home is with the name.
Stays(home) == \A win \in Windows : AtHome(home, win) \/ Away(win)

\* A plan that removes the name moves every window home before.
NameLast(plan) ==
    \A s, r \in plan :
        s.act.kind = "UnsetWorkspaceName" /\ r.act.kind = "MoveWindowToWorkspace" => r.at < s.at

\* A step of the promise that counts nothing.
Carries ==
    Parked' = Parked \/ \E win \in Windows : Promise!Leave(win) \/ Promise!Return(win)

\* No window is at home where the name is.
LEMMA HomesNotParked ==
    ASSUME TypeOK, NEW home, Fresh(home), NamesInv(home)
    PROVE  \A win \in Windows : home.loc[win] \notin ParkedAt
<1> SUFFICES ASSUME NEW win \in Windows, NEW ws \in ParkedAt PROVE home.loc[win] # ws
  OBVIOUS
<1>1. ws \in Workspaces /\ niri.name[ws] = padName /\ padName \in Names
  BY DEF ParkedAt, Named, TypeOK
<1>2. home.name[ws] # padName
  BY <1>1 DEF Fresh
<1> QED  BY <1>1, <1>2 DEF NamesInv, Vacant

\* The name is given to a workspace where no window is, or where it is already.
LEMMA NamingStays ==
    ASSUME TypeOK, NEW home \in NiriState, NamesInv(home), Stays(home), NEW pad, Vacant(home, pad),
           ParkedAt \subseteq {pad}, padName' = padName,
           niri' = AfterAction(niri, SetWorkspaceName(pad, padName))
    PROVE  Stays(home)' /\ Parked' = Parked
<1>1. /\ ParkedAt' = {pad} /\ niri'.loc = niri.loc
      /\ \A win : Away(win) => Away(win)'
      /\ \A win : AtHome(home, win)' <=> AtHome(home, win)
  BY NamingEffect
<1>2. \A win \in Windows : Away(win)' => Away(win)
  BY <1>1 DEF Stays, AtHome, Away, Vacant
<1> QED  BY <1>1, <1>2 DEF Stays, Parked, Away

\* The name is removed when every window is at home.
LEMMA UnnamingStays ==
    ASSUME TypeOK, NEW home, Fresh(home), NamesInv(home), padName' = padName,
           \A win \in Windows : AtHome(home, win),
           niri' = AfterAction(niri, UnsetWorkspaceName(padName))
    PROVE  Stays(home)' /\ Parked' = Parked
<1>1. /\ ParkedAt' = {} /\ \A win : AtHome(home, win)' <=> AtHome(home, win)
  BY UnnamingEffect DEF Fresh
<1>2. Parked = {}
  BY HomesNotParked DEF Parked, AtHome
<1> QED  BY <1>1, <1>2 DEF Stays, Parked

LEMMA ParkStays ==
    ASSUME TypeOK, NEW home, NamesInv(home), Stays(home), NEW win \in Windows, Open(home, win),
           ParkedAt # {}, padName' = padName,
           niri' = AfterAction(niri, MoveWindowToWorkspaceName(win, padName))
    PROVE  Stays(home)' /\ Parked' = Parked \cup {win}
<1>1. /\ Away(win)'
      /\ \A u \in Windows \ {win} : /\ Away(u)' <=> Away(u)
                                    /\ AtHome(home, u)' <=> AtHome(home, u)
  BY ParkEffect
<1> QED  BY <1>1 DEF Stays, Parked, Away

LEMMA BackStays ==
    ASSUME TypeOK, NEW home \in NiriState, Fresh(home), NamesInv(home), Stays(home),
           NEW win \in Windows, Open(home, win),
           Exists(home, home.loc[win]), padName' = padName,
           niri' = AfterAction(niri, MoveWindowToWorkspace(win, home.loc[win]))
    PROVE  Stays(home)' /\ Parked' = Parked \ {win}
<1>1. /\ ParkedAt' = ParkedAt /\ AtHome(home, win)'
      /\ \A u \in Windows \ {win} : /\ Away(u)' <=> Away(u)
                                    /\ AtHome(home, u)' <=> AtHome(home, u)
  BY HomeEffect
<1>2. ~Away(win)'
  BY <1>1, HomesNotParked DEF Away, AtHome
<1> QED  BY <1>1, <1>2 DEF Stays, Parked, Away

LEMMA FocusStays ==
    ASSUME TypeOK, NEW home, NamesInv(home), Stays(home),
           niri'.loc = niri.loc, niri'.name = niri.name, padName' = padName
    PROVE  Stays(home)' /\ Parked' = Parked
<1>1. /\ ParkedAt' = ParkedAt
      /\ \A win : Away(win)' <=> Away(win)
      /\ \A win : AtHome(home, win)' <=> AtHome(home, win)
  BY FocusEffect
<1> QED  BY <1>1 DEF Stays, Parked, Away

\* Apart from the windows of a request, what is on the service workspace is hidden.
LEMMA ParkedOthers ==
    ASSUME TypeOK, NEW home, Fresh(home), NamesInv(home), NEW own \in SUBSET Windows,
           \A u \in Windows \ own : InPlace(home, u)
    PROVE  Parked \ own = Hidden \ own
<1>1. Hidden \subseteq Windows
  BY DEF TypeOK, Hidden, Stacked, Entry
<1> QED  BY <1>1, HomesNotParked DEF InPlace, Parked, Away, AtHome

-------------------------------------------------------------------------------
(* The steps of the four plans. *)

LEMMA HideActCarries ==
    ASSUME TypeOK, NEW home \in NiriState, Fresh(home), NamesInv(home), Stays(home),
           NEW app, NEW e \in app.entries, e \in Entry, NEW plan \in SUBSET Step,
           HideFrame(home, app, e), HideActs(app, plan, e), NEW s \in NextStep(plan),
           \A u \in Windows \ {e.win} : InPlace(home, u),
           niri' = AfterAction(niri, s.act), UNCHANGED <<padName, stack>>
    PROVE  Stays(home)' /\ Carries
<1>1. e.win \in Windows /\ Open(home, e.win)
  BY NiriAssumption DEF Entry, HideFrame, Known, Open
<1>2. s \in plan /\ \A r \in plan : s.at <= r.at
  BY DEF NextStep
<1>3. CASE s.act = SetWorkspaceName(app.pad, padName) /\ app.pad # NoWs
  <2>1. Stays(home)' /\ Parked' = Parked
    BY <1>3, NamingStays DEF HideFrame
  <2> QED  BY <2>1 DEF Carries
<1>4. CASE s.at = 1 /\ s.act = MoveWindowToWorkspaceName(e.win, padName)
  <2>1. ~Left(plan, SetWorkspaceName(app.pad, padName))
    <3> SUFFICES ASSUME NEW r \in plan, r.act = SetWorkspaceName(app.pad, padName) PROVE FALSE
      BY DEF Left
    <3>1. r.at = 0
      BY DEF HideActs, SetWorkspaceName, MoveWindowToWorkspaceName
    <3> QED  BY <1>2, <1>4, <3>1
  <2>2. ParkedAt # {}
    BY <2>1 DEF HideActs
  <2>3. Stays(home)' /\ Parked' = Parked \cup {e.win}
    BY <1>1, <1>4, <2>2, ParkStays
  <2>4. Parked \ {e.win} = Hidden \ {e.win} /\ e.win \notin Hidden
    BY <1>1, ParkedOthers DEF HideFrame
  <2>5. Hidden' = Hidden
    BY DEF Hidden
  <2>6. CASE e.win \in Parked
    BY <2>3, <2>6 DEF Carries
  <2>7. CASE e.win \notin Parked
    <3>1. Parked = Hidden
      BY <2>4, <2>7
    <3> QED  BY <1>1, <2>3, <2>5, <3>1 DEF Carries, Promise!Leave
  <2> QED  BY <2>3, <2>6, <2>7
<1> QED  BY <1>2, <1>3, <1>4 DEF HideActs

LEMMA HideUndoCarries ==
    ASSUME TypeOK, NEW home \in NiriState, Fresh(home), NamesInv(home), Stays(home),
           NEW app, NEW e \in app.entries, e \in Entry, NEW plan \in SUBSET Step,
           HideFrame(home, app, e), HideUndoes(home, app, plan, e), NameLast(plan),
           NEW s \in NextStep(plan),
           \A u \in Windows \ {e.win} : InPlace(home, u),
           niri' = AfterAction(niri, s.act), UNCHANGED <<padName, stack>>
    PROVE  Stays(home)' /\ Carries
<1>1. e.win \in Windows /\ Open(home, e.win) /\ e.origin = home.loc[e.win]
      /\ Exists(home, home.loc[e.win]) /\ e.win \notin Hidden
  BY NiriAssumption DEF Entry, HideFrame, Known, Open, Fresh
<1>2. s \in plan /\ s.at \in Nat /\ \A r \in plan : s.at <= r.at /\ r.at \in Nat
  BY DEF NextStep, Step
<1>3. CASE s.act = MoveWindowToWorkspace(e.win, e.origin)
  <2>1. Stays(home)' /\ Parked' = Parked \ {e.win}
    BY <1>1, <1>3, BackStays
  <2>2. Parked \ {e.win} = Hidden \ {e.win}
    BY <1>1, ParkedOthers
  <2>3. Hidden' = Hidden
    BY DEF Hidden
  <2>4. CASE e.win \notin Parked
    BY <2>1, <2>4 DEF Carries
  <2>5. CASE e.win \in Parked
    <3>1. Parked = Hidden \cup {e.win}
      BY <1>1, <2>2, <2>5
    <3> QED  BY <1>1, <2>1, <2>3, <3>1 DEF Carries, Promise!Return
  <2> QED  BY <2>1, <2>4, <2>5
<1>4. CASE s.act = FocusWindow(e.win)
  <2>1. Stays(home)' /\ Parked' = Parked
    BY <1>4, FocusRequests, FocusStays
  <2> QED  BY <2>1 DEF Carries
<1>5. CASE s.act = UnsetWorkspaceName(padName) /\ app.pad # NoWs
  <2>1. ~Left(plan, MoveWindowToWorkspace(e.win, e.origin))
    <3> SUFFICES ASSUME NEW r \in plan, r.act = MoveWindowToWorkspace(e.win, e.origin) PROVE FALSE
      BY DEF Left
    <3>1. r.at < s.at
      BY <1>2, <1>5 DEF NameLast, MoveWindowToWorkspace, UnsetWorkspaceName
    <3> QED  BY <1>2, <3>1
  <2>2. AtHome(home, e.win) /\ stack = {}
    BY <1>5, <2>1 DEF HideUndoes, HideFrame
  <2>3. \A u \in Windows : AtHome(home, u)
    BY <2>2 DEF InPlace, Hidden
  <2>4. Stays(home)' /\ Parked' = Parked
    BY <1>5, <2>3, UnnamingStays
  <2> QED  BY <2>4 DEF Carries
<1> QED  BY <1>2, <1>3, <1>4, <1>5 DEF HideUndoes

LEMMA RestoreActCarries ==
    ASSUME TypeOK, NEW home \in NiriState, Fresh(home), NamesInv(home), Stays(home),
           \A e \in stack : e.origin = home.loc[e.win],
           NEW app, NEW plan \in SUBSET Step,
           RestoreFrame(home, app), RestoreActs(home, app, plan), NameLast(plan),
           NEW s \in NextStep(plan),
           \A u \in Windows \ WindowsOf(app.entries) : InPlace(home, u),
           niri' = AfterAction(niri, s.act), UNCHANGED <<padName, stack>>
    PROVE  Stays(home)' /\ Carries
<1>1. \A e \in app.entries : /\ e \in stack /\ e.win \in Windows /\ e.win \in Hidden
                             /\ Open(home, e.win) /\ e.origin = home.loc[e.win]
                             /\ Exists(home, home.loc[e.win])
  BY EntryHome DEF RestoreFrame, Hidden
<1>2. s \in plan /\ s.at \in Nat /\ \A r \in plan : s.at <= r.at /\ r.at \in Nat
  BY DEF NextStep, Step
<1>3. WindowsOf(app.entries) \subseteq Hidden /\ WindowsOf(app.entries) \subseteq Windows
  BY <1>1 DEF WindowsOf
<1>4. ASSUME NEW e \in app.entries, s.act = MoveWindowToWorkspace(e.win, e.origin)
      PROVE  Stays(home)' /\ Carries
  <2>1. Stays(home)' /\ Parked' = Parked \ {e.win}
    BY <1>1, <1>4, BackStays
  <2>2. Parked \subseteq Hidden
    BY <1>3, ParkedOthers
  <2>3. Hidden' = Hidden
    BY DEF Hidden
  <2> QED  BY <1>1, <2>1, <2>2, <2>3 DEF Carries, Promise!Return
<1>5. ASSUME NEW e \in app.entries, s.act = Relayout(e.win) \/ s.act = FocusWindow(e.win)
      PROVE  Stays(home)' /\ Carries
  <2>1. Stays(home)' /\ Parked' = Parked
    BY <1>5, FocusRequests, FocusStays
  <2> QED  BY <2>1 DEF Carries
<1>6. CASE s.act = UnsetWorkspaceName(padName) /\ app.entries = stack
  <2>1. ASSUME NEW e \in app.entries PROVE AtHome(home, e.win)
    <3> SUFFICES ASSUME NEW r \in plan, r.act = MoveWindowToWorkspace(e.win, e.origin) PROVE FALSE
      BY DEF Left, RestoreActs
    <3>1. r.at < s.at
      BY <1>2, <1>6 DEF NameLast, MoveWindowToWorkspace, UnsetWorkspaceName
    <3> QED  BY <1>2, <3>1
  <2>2. \A u \in Windows : AtHome(home, u)
    BY <1>6, <2>1 DEF InPlace, Hidden, WindowsOf
  <2>3. Stays(home)' /\ Parked' = Parked
    BY <1>6, <2>2, UnnamingStays
  <2> QED  BY <2>3 DEF Carries
<1> QED  BY <1>2, <1>4, <1>5, <1>6 DEF RestoreActs

LEMMA RestoreUndoCarries ==
    ASSUME TypeOK, NEW home \in NiriState, Fresh(home), NamesInv(home), Stays(home),
           \A e \in stack : e.origin = home.loc[e.win],
           NEW app, NEW plan \in SUBSET Step,
           RestoreFrame(home, app), RestoreUndoes(app, plan), NEW s \in NextStep(plan),
           \A u \in Windows \ WindowsOf(app.entries) : InPlace(home, u),
           niri' = AfterAction(niri, s.act), UNCHANGED <<padName, stack>>
    PROVE  Stays(home)' /\ Carries
<1>1. \A e \in app.entries : /\ e \in stack /\ e.win \in Windows /\ e.win \in Hidden
                             /\ Open(home, e.win)
  BY EntryHome DEF RestoreFrame, Hidden
<1>2. s \in plan /\ s.at \in Nat /\ \A r \in plan : s.at <= r.at /\ r.at \in Nat
  BY DEF NextStep, Step
<1>3. WindowsOf(app.entries) \subseteq Hidden /\ WindowsOf(app.entries) \subseteq Windows
  BY <1>1 DEF WindowsOf
<1>4. CASE s.act = SetWorkspaceName(app.pad, padName)
  <2>1. Stays(home)' /\ Parked' = Parked
    BY <1>4, NamingStays DEF RestoreFrame
  <2> QED  BY <2>1 DEF Carries
<1>5. ASSUME NEW e \in app.entries, s.at > 0, s.act = MoveWindowToWorkspaceName(e.win, padName)
      PROVE  Stays(home)' /\ Carries
  <2>1. ~Left(plan, SetWorkspaceName(app.pad, padName))
    <3> SUFFICES ASSUME NEW r \in plan, r.act = SetWorkspaceName(app.pad, padName) PROVE FALSE
      BY DEF Left
    <3>1. \A f : /\ MoveWindowToWorkspaceName(f.win, padName) # SetWorkspaceName(app.pad, padName)
                 /\ Relayout(f.win) # SetWorkspaceName(app.pad, padName)
      BY DEF SetWorkspaceName, MoveWindowToWorkspaceName, Relayout
    <3>2. r.at = 0
      BY <3>1 DEF RestoreUndoes
    <3> QED  BY <1>2, <1>5, <3>2
  <2>2. ParkedAt # {}
    BY <2>1 DEF RestoreUndoes
  <2>3. Stays(home)' /\ Parked' = Parked \cup {e.win}
    BY <1>1, <1>5, <2>2, ParkStays
  <2>4. Parked \subseteq Hidden
    BY <1>3, ParkedOthers
  <2>5. Hidden' = Hidden
    BY DEF Hidden
  <2> QED  BY <1>1, <2>3, <2>4, <2>5 DEF Carries, Promise!Leave
<1>6. ASSUME NEW e \in app.entries, s.act = Relayout(e.win)
      PROVE  Stays(home)' /\ Carries
  <2>1. Stays(home)' /\ Parked' = Parked
    BY <1>6, FocusRequests, FocusStays
  <2> QED  BY <2>1 DEF Carries
<1> QED  BY <1>2, <1>4, <1>5, <1>6 DEF RestoreUndoes

-------------------------------------------------------------------------------
(* The plans remove the name last, and the steps keep what a request has done. *)

\* Entries are ranked in the order of their pushes.
RanksInv == \A e \in stack : e.at <= pushes

Kept(home) ==
    /\ Stays(home)
    /\ RanksInv
    /\ \A t \in InFlight : NameLast(task[t].plan)

LEMMA RestoreNamesLast ==
    ASSUME TypeOK, RanksInv, NEW entries \in SUBSET stack, NEW p \in RestorePlans(entries)
    PROVE  NameLast(p.plan)
<1> DEFINE steps == UNION {RestoreSteps(e, e \in Newest(entries)) : e \in entries}
           unset == [at |-> 4 * NextRank, act |-> UnsetWorkspaceName(padName)]
<1>1. p.plan = steps \/ p.plan = steps \cup {unset}
  <2>1. PICK pad \in Pads :
          p = [app |-> [kind |-> "restore", entries |-> entries, pad |-> pad,
                        cleanup |-> DropsName(entries, pad), wasFocused |-> FALSE],
               plan |-> IF DropsName(entries, pad) THEN steps \cup {unset} ELSE steps]
    BY DEF RestorePlans
  <2> HIDE DEF steps, unset
  <2>2. p.plan = IF DropsName(entries, pad) THEN steps \cup {unset} ELSE steps
    BY <2>1
  <2> QED  BY <2>2
<1>2. \A e \in entries : e.at \in Nat /\ e.at <= pushes /\ pushes \in Nat
  BY DEF RanksInv, TypeOK, Stacked, Entry
<1>3. ASSUME NEW r \in steps
      PROVE  /\ r.act.kind # "UnsetWorkspaceName"
             /\ r.act.kind = "MoveWindowToWorkspace" => r.at < unset.at
  <2>1. PICK e \in entries : r \in RestoreSteps(e, e \in Newest(entries))
    OBVIOUS
  <2>2. \/ r = [at |-> 4 * e.at, act |-> MoveWindowToWorkspace(e.win, RestoreTarget(e))]
        \/ r = [at |-> 4 * e.at + 1, act |-> Relayout(e.win)]
        \/ r = [at |-> 4 * e.at + 2, act |-> FocusWindow(e.win)]
    BY <2>1 DEF RestoreSteps
  <2>3. CASE r = [at |-> 4 * e.at, act |-> MoveWindowToWorkspace(e.win, RestoreTarget(e))]
    <3>1. r.at = 4 * e.at /\ r.act.kind = "MoveWindowToWorkspace"
      BY <2>3 DEF MoveWindowToWorkspace
    <3>2. 4 * e.at < 4 * (pushes + 1)
      BY <1>2
    <3> QED  BY <3>1, <3>2 DEF NextRank
  <2>4. CASE \/ r = [at |-> 4 * e.at + 1, act |-> Relayout(e.win)]
             \/ r = [at |-> 4 * e.at + 2, act |-> FocusWindow(e.win)]
    BY <2>4 DEF Relayout, FocusWindow
  <2> QED  BY <2>2, <2>3, <2>4
<1>4. unset.act.kind = "UnsetWorkspaceName"
  BY DEF UnsetWorkspaceName
<1> HIDE DEF steps, unset
<1> QED  BY <1>1, <1>3, <1>4 DEF NameLast

LEMMA UndoNamesLast ==
    ASSUME NEW app
    PROVE  NameLast(UndoSteps(app))
<1>1. CASE app.kind = "hide"
  <2>1. ASSUME NEW s \in UndoHideSteps(app)
        PROVE  /\ s.act.kind = "UnsetWorkspaceName" => s.at = 3
               /\ s.act.kind = "MoveWindowToWorkspace" => s.at = 1
    <3>1. PICK e \in app.entries :
            \/ s = [at |-> 1, act |-> MoveWindowToWorkspace(e.win, e.origin)]
            \/ s = [at |-> 2, act |-> FocusWindow(e.win)]
            \/ s = [at |-> 3, act |-> UnsetWorkspaceName(padName)]
      BY DEF UndoHideSteps
    <3> QED  BY <3>1 DEF MoveWindowToWorkspace, FocusWindow, UnsetWorkspaceName
  <2> QED  BY <1>1, <2>1 DEF NameLast, UndoSteps
<1>2. CASE app.kind # "hide"
  <2>1. ASSUME NEW s \in UndoRestoreSteps(app)
        PROVE  s.act.kind # "UnsetWorkspaceName"
    <3>1. \/ s = [at |-> 0, act |-> SetWorkspaceName(app.pad, padName)]
          \/ \E e \in app.entries :
               \/ s = [at |-> 2 * e.at + 1, act |-> MoveWindowToWorkspaceName(e.win, padName)]
               \/ s = [at |-> 2 * e.at + 2, act |-> Relayout(e.win)]
      BY DEF UndoRestoreSteps, Just
    <3> QED  BY <3>1 DEF SetWorkspaceName, MoveWindowToWorkspaceName, Relayout
  <2> QED  BY <1>2, <2>1 DEF NameLast, UndoSteps
<1> QED  BY <1>1, <1>2

LEMMA HideNamesLast ==
    ASSUME NEW app, NEW plan, NEW e, HideActs(app, plan, e)
    PROVE  NameLast(plan)
  BY DEF HideActs, NameLast, SetWorkspaceName, MoveWindowToWorkspaceName

\* One action of a request.
LEMMA RequestCarries ==
    ASSUME TypeOK, NEW home \in NiriState, Fresh(home), HomeFor(home), Kept(home),
           NEW t \in InFlight, task[t].pc \in {"acting", "undoing"},
           NEW s \in NextStep(task[t].plan),
           niri' = AfterAction(niri, s.act), UNCHANGED <<padName, stack>>
    PROVE  Stays(home)' /\ Carries
<1>1. t \in Tasks /\ task[t].pc \in {"acting", "failed", "undoing"} /\ TaskInv(home, t)
  BY DEF InFlight, HomeFor
<1>2. PICK r : r = task[t]
  OBVIOUS
<1>3. /\ r \in Task /\ r.app \in Application /\ r.plan \in SUBSET Step /\ NameLast(r.plan)
      /\ s \in NextStep(r.plan)
  BY <1>1, <1>2 DEF TypeOK, Task, Kept
<1>4. Busy = WindowsOf(r.app.entries)
  BY <1>2, SingleTask DEF HomeFor
<1>5. /\ NamesInv(home) /\ Stays(home) /\ \A e \in stack : e.origin = home.loc[e.win]
      /\ \A u \in Windows \ WindowsOf(r.app.entries) : InPlace(home, u)
  BY <1>4 DEF HomeFor, Kept
<1>6. CASE r.app.kind = "hide"
  <2>1. Hiding(home, r)
    BY <1>1, <1>2, <1>6 DEF TaskInv
  <2>2. PICK e \in r.app.entries :
          /\ HideFrame(home, r.app, e)
          /\ r.pc = "acting" => HideActs(r.app, r.plan, e)
          /\ r.pc = "undoing" => HideUndoes(home, r.app, r.plan, e)
    BY <2>1 DEF Hiding
  <2>3. e \in Entry /\ WindowsOf(r.app.entries) = {e.win}
    BY <1>3, <2>2 DEF Application, HideFrame, WindowsOf
  <2>4. \A u \in Windows \ {e.win} : InPlace(home, u)
    BY <1>5, <2>3
  <2>5. CASE r.pc = "acting"
    BY <1>3, <1>5, <2>2, <2>3, <2>4, <2>5, HideActCarries
  <2>6. CASE r.pc = "undoing"
    BY <1>3, <1>5, <2>2, <2>3, <2>4, <2>6, HideUndoCarries
  <2> QED  BY <1>2, <2>5, <2>6
<1>7. CASE r.app.kind = "restore"
  <2>1. Restoring(home, r)
    BY <1>1, <1>2, <1>7 DEF TaskInv
  <2>2. CASE r.pc = "acting"
    BY <1>3, <1>5, <2>1, <2>2, RestoreActCarries DEF Restoring
  <2>3. CASE r.pc = "undoing"
    BY <1>3, <1>5, <2>1, <2>3, RestoreUndoCarries DEF Restoring
  <2> QED  BY <1>2, <2>2, <2>3
<1> QED  BY <1>1, <1>2, <1>6, <1>7 DEF TaskInv

-------------------------------------------------------------------------------
(* Every step is one of the promise. *)

\* Outside of the requests no window is moved and nothing is counted.
LEMMA ElsewhereStill ==
    ASSUME IInv, BootInv, SnapshotInv, NEW home, EventsInv(home),
           \/ Handle \/ LoopAct \/ Connect \/ Restart \/ TakeState \/ \E s \in saving : Save(s)
           \/ \E ws \in Workspaces : UserFocuses(ws)
           \/ UNCHANGED vars
    PROVE  /\ niri'.loc = niri.loc /\ niri'.name = niri.name
           /\ UNCHANGED <<padName, stack, pushes, task>>
<1>0. TypeOK
  BY DEF IInv
<1>1. CASE Handle
  <2>1. /\ Head(queue) \in Events(queue) /\ Head(queue) = queue[1] /\ 1 \in 1..Len(queue)
        /\ UNCHANGED <<niri, padName, task>>
    <3>1. queue # <<>> /\ UNCHANGED <<niri, padName, task>>
      BY <1>0, <1>1, HandlersHear
    <3> QED  BY <1>0, <3>1, EventsTail DEF TypeOK
  <2>2. ~HandleWindowClosed
    BY <2>1 DEF HandleWindowClosed, Receive, EventsInv
  <2>3. pushes' = pushes
    BY <1>1, <2>2 DEF Handle, HandleWorkspacesChanged, HandleWorkspaceActivated,
                      HandleWindowsChanged, HandleWindowChanged, Receive, config
  <2>4. stack' = stack
    <3>1. CASE HandleWindowsChanged
      <4>1. ~booted
        BY <2>1, <3>1 DEF HandleWindowsChanged, Receive, SnapshotInv
      <4>2. stack = {}
        BY <4>1 DEF BootInv
      <4> QED  BY <3>1, <4>2 DEF HandleWindowsChanged
    <3>2. CASE HandleWorkspacesChanged \/ HandleWorkspaceActivated \/ HandleWindowChanged
      BY <3>2 DEF HandleWorkspacesChanged, HandleWorkspaceActivated, HandleWindowChanged
    <3> QED  BY <1>1, <2>2, <3>1, <3>2 DEF Handle
  <2> QED  BY <2>1, <2>3, <2>4
<1>2. CASE LoopAct
  <2>1. niri'.loc = niri.loc /\ niri'.name = niri.name
    BY <1>0, <1>2, LoopFocuses DEF NiriBecomes, FocusOn, TypeOK, NiriState
  <2> QED  BY <1>2, <2>1 DEF LoopAct, config
<1>3. CASE Restart
  <2>1. link = "down" /\ stack = {} /\ disk.stack = {}
    BY <1>3 DEF Restart, BootInv, IInv, DownIsEmpty
  <2> QED  BY <1>3, <2>1 DEF Restart, LoadedStack, compositor
<1>4. CASE Connect \/ TakeState \/ \E s \in saving : Save(s)
  BY <1>4 DEF Connect, TakeState, Save, compositor, cache, config
<1>5. CASE \E ws \in Workspaces : UserFocuses(ws)
  <2>1. PICK ws \in Workspaces : Environment("focus", FocusOn(niri, ws))
    BY <1>5 DEF UserFocuses
  <2>2. niri'.loc = niri.loc /\ niri'.name = niri.name
    BY <1>0, <2>1 DEF Environment, NiriBecomes, FocusOn, TypeOK, NiriState
  <2> QED  BY <2>1, <2>2 DEF Environment, config
<1>6. CASE UNCHANGED vars
  BY <1>6 DEF vars
<1> QED  BY <1>1, <1>2, <1>3, <1>4, <1>5, <1>6

\* The plans of the other requests stay what they are.
LEMMA PlansStay ==
    ASSUME TypeOK, NEW home, HomeFor(home), Kept(home), NEW t \in Tasks, NEW r,
           task' = [task EXCEPT ![t] = r], NameLast(r.plan)
    PROVE  (\A u \in InFlight : NameLast(task[u].plan))'
<1> SUFFICES ASSUME NEW u \in InFlight' PROVE NameLast(task'[u].plan)
  BY DEF NameLast
<1>1. CASE u = t
  BY <1>1 DEF TypeOK
<1>2. CASE u # t
  <2>1. u \in InFlight /\ task'[u] = task[u]
    BY <1>2 DEF InFlight, TypeOK
  <2> QED  BY <2>1 DEF Kept
<1> QED  BY <1>1, <1>2

Counted(home) == Kept(home)' /\ [Promise!Next]_<<Hidden, Parked>>

\* A request begins, is given up, or turns to its compensation.
LEMMA SilentCounted ==
    ASSUME TypeOK, NEW home, HomeFor(home), Kept(home), NEW t \in Tasks, NEW r,
           task' = [task EXCEPT ![t] = r], NameLast(r.plan),
           UNCHANGED <<niri, padName, stack, pushes>>
    PROVE  Counted(home)
<1>1. Stays(home)' /\ Parked' = Parked
  BY FocusStays DEF HomeFor, Kept
<1>2. Hidden' = Hidden /\ RanksInv'
  BY DEF Hidden, RanksInv, Kept
<1>3. (\A u \in InFlight : NameLast(task[u].plan))'
  BY PlansStay
<1> QED  BY <1>1, <1>2, <1>3 DEF Counted, Kept

\* An action of a plan is executed, or fails.
LEMMA ActionCounted ==
    ASSUME TypeOK, NEW home \in NiriState, Fresh(home), HomeFor(home), Kept(home), NEW t \in Tasks,
           Act(t) \/ ActFails(t) \/ Undo(t)
    PROVE  Counted(home)
<1>1. t \in InFlight /\ task[t].pc \in {"acting", "undoing"}
  BY DEF Act, ActFails, Undo, InFlight
<1>2. UNCHANGED <<padName, stack, pushes>>
  BY DEF Act, ActFails, Undo, config
<1>3. PICK r : task' = [task EXCEPT ![t] = r] /\ NameLast(r.plan)
  <2>1. task[t] \in Task
    BY DEF TypeOK
  <2>2. PICK q : q = task[t]
    OBVIOUS
  <2>3. CASE Act(t) \/ Undo(t)
    <3>1. PICK s : task' = [task EXCEPT ![t].plan = @ \ {s}]
      BY <2>3 DEF Act, Undo
    <3>2. PICK r : r = [q EXCEPT !.plan = q.plan \ {s}]
      OBVIOUS
    <3>3. task' = [task EXCEPT ![t] = r] /\ r.plan = q.plan \ {s}
      BY <2>1, <2>2, <3>1, <3>2 DEF Task
    <3>4. NameLast(q.plan)
      BY <1>1, <2>2 DEF Kept
    <3>5. NameLast(r.plan)
      BY <3>3, <3>4 DEF NameLast
    <3> QED  BY <3>3, <3>5
  <2>4. CASE ActFails(t)
    <3>1. PICK r : r = [q EXCEPT !.pc = "failed", !.plan = {}]
      OBVIOUS
    <3>2. task' = [task EXCEPT ![t] = [task[t] EXCEPT !.pc = "failed", !.plan = {}]]
      BY <2>1, <2>4 DEF ActFails
    <3>3. task' = [task EXCEPT ![t] = r] /\ r.plan = {}
      BY <2>1, <2>2, <3>1, <3>2 DEF Task
    <3> QED  BY <3>3 DEF NameLast
  <2> QED  BY <2>3, <2>4
<1>4. \/ niri' = niri
      \/ \E s \in NextStep(task[t].plan) : niri' = AfterAction(niri, s.act)
  BY DEF Act, ActFails, Undo, BestEffort, NiriBecomes
<1>5. CASE niri' = niri
  BY <1>2, <1>3, <1>5, SilentCounted
<1>6. CASE \E s \in NextStep(task[t].plan) : niri' = AfterAction(niri, s.act)
  <2>1. Stays(home)' /\ Carries
    BY <1>1, <1>2, <1>6, RequestCarries
  <2>2. Hidden' = Hidden /\ RanksInv'
    BY <1>2 DEF Hidden, RanksInv, Kept
  <2>3. (\A u \in InFlight : NameLast(task[u].plan))'
    BY <1>3, PlansStay
  <2>4. [Promise!Next]_<<Hidden, Parked>>
    BY <2>1, <2>2 DEF Carries, Promise!Next
  <2> QED  BY <2>1, <2>2, <2>3, <2>4 DEF Counted, Kept
<1> QED  BY <1>4, <1>5, <1>6

\* When a request succeeds, what is away is what counts as hidden.
LEMMA CommitCounted ==
    ASSUME TypeOK, NEW home \in NiriState, Fresh(home), HomeFor(home), Kept(home), NEW t \in Tasks,
           CommitHide(t) \/ CommitRestore(t), HomeFor(home)'
    PROVE  Counted(home)
<1>1. t \in InFlight /\ UNCHANGED <<niri, padName>>
  BY DEF CommitHide, CommitRestore, Committing, InFlight, compositor, config
<1>2. Stays(home)' /\ Parked' = Parked /\ ParkedAt' = ParkedAt
  BY <1>1, FocusStays DEF HomeFor, Kept, ParkedAt, Named
<1>3. CASE task' = [task EXCEPT ![t] = DoneTask]
  <2>1. InFlight = {t}
    BY <1>1, SingleTask DEF HomeFor
  <2>2. InFlight' = {}
    BY <1>3, <2>1 DEF InFlight, DoneTask, IdleTask, TypeOK
  <2>3. Busy' = {}
    BY <2>2 DEF Busy
  <2>4. \A win \in Windows : win \in Hidden' <=> win \in Parked
    <3> SUFFICES ASSUME NEW win \in Windows PROVE win \in Hidden' <=> win \in Parked
      OBVIOUS
    <3>1. InPlace(home, win)'
      BY <2>3 DEF HomeFor
    <3>2. home.loc[win] \notin ParkedAt
      BY HomesNotParked DEF HomeFor
    <3> QED  BY <1>1, <1>2, <3>1, <3>2 DEF InPlace, Away, AtHome, Parked
  <2>5. RanksInv' /\ Hidden' \subseteq Windows
    <3>1. pushes \in Nat /\ \A e \in stack : e.at \in Nat /\ e.at <= pushes /\ e.win \in Windows
      BY DEF TypeOK, Stacked, Entry, Kept, RanksInv
    <3>2. CASE stack' \subseteq stack /\ pushes' = pushes
      BY <3>1, <3>2 DEF RanksInv, Hidden
    <3>3. CASE ~(stack' \subseteq stack /\ pushes' = pushes)
      <4>1. PICK e \in task[t].app.entries : /\ pushes' = pushes + 1
                                             /\ stack' = stack \cup {[e EXCEPT !.at = NextRank]}
        BY <3>3 DEF CommitHide, CommitRestore, config
      <4>2. e \in Entry
        BY DEF TypeOK, Task, Application
      <4>3. PICK f : f = [e EXCEPT !.at = NextRank]
        OBVIOUS
      <4>4. f.at = pushes + 1 /\ f.win \in Windows
        BY <4>2, <4>3 DEF Entry, NextRank
      <4>5. stack' = stack \cup {f}
        BY <4>1, <4>3
      <4> QED  BY <3>1, <4>1, <4>4, <4>5 DEF RanksInv, Hidden
    <3> QED  BY <3>2, <3>3
  <2>6. Hidden' = Parked
    BY <2>4, <2>5 DEF Parked
  <2>7. Promise!Next
    BY <1>2, <2>6 DEF Promise!Next, Promise!Count
  <2> QED  BY <1>2, <2>2, <2>5, <2>7 DEF Counted, Kept
<1>4. CASE ~(task' = [task EXCEPT ![t] = DoneTask])
  <2>1. /\ task' = [task EXCEPT ![t].pc = "failed"] /\ UNCHANGED <<stack, pushes>>
        /\ task[t].plan = {}
    BY <1>4 DEF CommitHide, CommitRestore, Committing
  <2>2. PICK q : q = task[t]
    OBVIOUS
  <2>3. PICK r : r = [q EXCEPT !.pc = "failed"]
    OBVIOUS
  <2>4. task' = [task EXCEPT ![t] = r] /\ r.plan = {}
    BY <2>1, <2>2, <2>3 DEF TypeOK, Task
  <2>5. NameLast(r.plan)
    BY <2>4 DEF NameLast
  <2> QED  BY <1>1, <2>1, <2>4, <2>5, SilentCounted
<1> QED  BY <1>3, <1>4

LEMMA KeptStep ==
    ASSUME IInv, Calm, BudgetInv, BootInv, NEW home \in InitialNiri, HomeFor(home), SnapshotInv,
           EventsInv(home), CurrentInv, Kept(home), [Next]_vars, HomeFor(home)'
    PROVE  Counted(home)
<1>0. /\ TypeOK /\ home \in NiriState /\ Fresh(home) /\ ClientsWait /\ MaxInFlight = 1
  BY HideAssumption DEF IInv, Calm
<1>1. ASSUME NEW t \in Tasks, TaskSteps(t) PROVE Counted(home)
  <2>1. ASSUME NEW p, Begin(t, p), NameLast(p.plan), UNCHANGED <<niri, padName, stack, pushes>>
        PROVE  Counted(home)
    <3>1. PICK r : r = [pc |-> "acting", app |-> p.app, plan |-> p.plan]
      OBVIOUS
    <3>2. task' = [task EXCEPT ![t] = r] /\ r.plan = p.plan
      BY <2>1, <3>1 DEF Begin
    <3> QED  BY <1>0, <2>1, <3>2, SilentCounted
  <2>2. CASE \E win \in Windows : StartHide(t, win)
    <3>1. PICK win \in Windows : StartHide(t, win)
      BY <2>2
    <3>2. PICK p \in HidePlans(win) : Begin(t, p)
      BY <3>1 DEF StartHide
    <3>3. InFlight = {} /\ windows = niri.loc /\ names = niri.name
      BY <1>0, <3>1, AtRest DEF StartHide
    <3>4. \E e \in p.app.entries : HideActs(p.app, p.plan, e)
      BY <1>0, <3>3, HidePlanned
    <3>5. NameLast(p.plan)
      BY <3>4, HideNamesLast
    <3> QED  BY <2>1, <3>1, <3>2, <3>5 DEF StartHide, compositor, config
  <2>3. CASE StartRestoreAll(t) \/ \E e \in stack : StartRestore(t, e)
    <3>1. PICK entries \in SUBSET stack : \E p \in RestorePlans(entries) : Begin(t, p)
      BY <2>3 DEF StartRestoreAll, StartRestore
    <3>2. PICK p \in RestorePlans(entries) : Begin(t, p)
      BY <3>1
    <3>3. NameLast(p.plan)
      BY <1>0, RestoreNamesLast DEF Kept
    <3>4. UNCHANGED <<niri, padName, stack, pushes>>
      BY <2>3 DEF StartRestoreAll, StartRestore, compositor, config
    <3> QED  BY <2>1, <3>2, <3>3, <3>4
  <2>4. CASE Act(t) \/ ActFails(t) \/ Undo(t)
    BY <1>0, <2>4, ActionCounted
  <2>5. CASE CommitHide(t) \/ CommitRestore(t)
    BY <1>0, <2>5, CommitCounted
  <2>6. CASE PlanUndo(t)
    <3>1. PICK q : q = task[t]
      OBVIOUS
    <3>2. PICK r : r = [q EXCEPT !.pc = "undoing", !.plan = UndoSteps(q.app)]
      OBVIOUS
    <3>3. task' = [task EXCEPT ![t] = [task[t] EXCEPT !.pc = "undoing",
                                                      !.plan = UndoSteps(task[t].app)]]
      BY <1>0, <2>6 DEF PlanUndo, TypeOK
    <3>4. task' = [task EXCEPT ![t] = r] /\ r.plan = UndoSteps(q.app)
      BY <1>0, <3>1, <3>2, <3>3 DEF TypeOK, Task
    <3>5. NameLast(r.plan)
      BY <3>4, UndoNamesLast
    <3> QED  BY <1>0, <2>6, <3>4, <3>5, SilentCounted DEF PlanUndo, compositor, config
  <2>7. CASE GiveUp(t)
    <3>1. NameLast(DoneTask.plan)
      BY DEF NameLast, DoneTask, IdleTask
    <3> QED  BY <1>0, <2>7, <3>1, SilentCounted DEF GiveUp, compositor, config
  <2> QED  BY <1>1, <2>2, <2>3, <2>4, <2>5, <2>6, <2>7 DEF TaskSteps
<1>2. CASE \/ Handle \/ LoopAct \/ Connect \/ Restart \/ TakeState \/ \E s \in saving : Save(s)
           \/ \E ws \in Workspaces : UserFocuses(ws)
           \/ UNCHANGED vars
  <2>1. /\ niri'.loc = niri.loc /\ niri'.name = niri.name
        /\ UNCHANGED <<padName, stack, pushes, task>>
    BY <1>2, ElsewhereStill
  <2>2. Stays(home)' /\ Parked' = Parked
    BY <1>0, <2>1, FocusStays DEF HomeFor, Kept
  <2>3. Hidden' = Hidden /\ RanksInv' /\ InFlight' = InFlight
    BY <2>1 DEF Hidden, RanksInv, Kept, InFlight
  <2>4. (\A u \in InFlight : NameLast(task[u].plan))'
    BY <2>1, <2>3 DEF Kept, NameLast
  <2> QED  BY <2>2, <2>3, <2>4 DEF Counted, Kept
<1> QED  BY <1>0, <1>1, <1>2, Quiet

-------------------------------------------------------------------------------
(* The invariant, and what it says. *)

CalmAt(home) == /\ HomeFor(home) /\ EventsInv(home)
                /\ BootInv /\ SnapshotInv /\ CurrentInv /\ BudgetInv /\ Kept(home)
CalmInv == \E home \in InitialNiri : CalmAt(home)

LEMMA CalmInit == Calm /\ Init => CalmInv
<1> SUFFICES ASSUME Calm, Init PROVE CalmInv
  OBVIOUS
<1>0. TypeOK
  BY InitSafe DEF IInv
<1>1. PICK home : home = niri
  OBVIOUS
<1>2. home \in InitialNiri /\ Fresh(home)
  BY <1>1 DEF Init, Calm
<1>3. InFlight = {}
  BY DEF InFlight, Init, IdleTask
<1>4. ParkedAt = {} /\ Hidden = {} /\ stack = {}
  BY <1>0, <1>1, <1>2 DEF ParkedAt, Named, Hidden, Fresh, Init
<1>5. HomeFor(home)
  BY <1>1, <1>3, <1>4 DEF HomeFor, NamesInv, InPlace, AtHome
<1>6. \A ws \in Workspaces : names[ws] # padName
  BY <1>0, NiriAssumption DEF Init
<1>7. disk.stack = {} /\ saving = {}
  BY DEF Init
<1>8. BootInv
  BY <1>3, <1>4, <1>6, <1>7 DEF BootInv, Init
<1>9. SnapshotInv /\ EventsInv(home)
  BY EventsNone DEF SnapshotInv, EventsInv, Init
<1>10. CurrentInv /\ BudgetInv
  BY HideAssumption DEF CurrentInv, BudgetInv, Init
<1>11. Kept(home)
  BY <1>1, <1>3, <1>4 DEF Kept, Stays, AtHome, RanksInv
<1> QED  BY <1>2, <1>5, <1>8, <1>9, <1>10, <1>11 DEF CalmInv, CalmAt

LEMMA CalmStep ==
    Calm /\ IInv /\ CalmInv /\ [Next]_vars => CalmInv' /\ [Promise!Next]_<<Hidden, Parked>>
<1> SUFFICES ASSUME Calm, IInv, CalmInv, [Next]_vars
             PROVE  CalmInv' /\ [Promise!Next]_<<Hidden, Parked>>
  OBVIOUS
<1>1. PICK home \in InitialNiri : CalmAt(home)
  BY DEF CalmInv
<1>2. /\ TypeOK /\ HomeFor(home) /\ EventsInv(home)
      /\ BootInv /\ SnapshotInv /\ CurrentInv /\ BudgetInv /\ Kept(home)
  BY <1>1 DEF IInv, CalmAt
<1>3. HomeFor(home)' /\ BootInv'
  BY <1>2, HomeStep, BootStep
<1>4. EventsInv(home)'
  BY <1>2, <1>3, EventsStep
<1>5. SnapshotInv' /\ CurrentInv' /\ BudgetInv'
  BY <1>2, SnapshotStep, CurrentStep, BudgetStep
<1>6. Kept(home)' /\ [Promise!Next]_<<Hidden, Parked>>
  BY <1>2, <1>3, KeptStep DEF Counted
<1> QED  BY <1>3, <1>4, <1>5, <1>6 DEF CalmInv, CalmAt

\* What the invariant says of a system at rest.
LEMMA AtRestHome ==
    ASSUME IInv, CalmInv
    PROVE  HiddenOrHome
<1>1. PICK home \in InitialNiri : HomeFor(home) /\ CurrentInv
  BY DEF CalmInv, CalmAt
<1> SUFFICES ASSUME Settled PROVE HiddenOrHome
  BY DEF HiddenOrHome, RestoredToOrigin
<1>2. InFlight = {} /\ CaughtUp
  BY DEF Settled
<1>3. \A win \in Windows : InPlace(home, win)
  BY <1>1, <1>2 DEF HomeFor, Busy
<1>4. Hidden \subseteq Windows
  BY DEF IInv, TypeOK, Hidden, Stacked, Entry
<1>5. \A win \in Windows \ Hidden : niri.loc[win] = home.loc[win]
  BY <1>3 DEF InPlace, AtHome
<1>6. \A win \in Hidden : niri.loc[win] \in ParkedAt
  BY <1>3, <1>4 DEF InPlace, Away
<1>7. stack # {} => Pads # {}
  <2>1. names = niri.name
    BY <1>1, <1>2, CacheAtRest DEF IInv
  <2>2. stack # {} => ParkedAt # {}
    BY <1>6 DEF Hidden
  <2> QED  BY <2>1, <2>2 DEF Pads, ParkedAt, Named
<1> QED  BY <1>1, <1>2, <1>5, <1>6, <1>7 DEF HiddenOrHome, RestoredToOrigin, HomeFor

\* When every request has been answered and every event handled, whatever failed on
\* the way: a hidden window is on the workspace with the service's name, which the daemon
\* knows; any other window is where it was before it was ever hidden, and the name is gone
\* with the last hidden window.  Neither a failed hide nor a failed restore loses a window.
THEOREM HiddenAreParked ==
    ASSUME Calm
    PROVE  Spec => []HiddenOrHome
<1>1. Calm /\ Init => CalmInv
  BY CalmInit
<1>2. Calm /\ IInv /\ CalmInv /\ [Next]_vars => CalmInv'
  BY CalmStep
<1>3. IInv /\ CalmInv => HiddenOrHome
  BY AtRestHome
<1>4. Calm
  OBVIOUS
<1>5. Init => CalmInv
  BY <1>1, <1>4
<1>6. IInv /\ CalmInv /\ [Next]_vars => CalmInv'
  BY <1>2, <1>4
<1> QED  BY <1>3, <1>5, <1>6, Inductive, PTL DEF Spec

\* At every moment, in the middle of a request, of its failure and of its compensation,
\* a window is where it was at first or on the workspace with the service's name: no
\* plan takes the name away while a window is still there.
THEOREM NothingStrays ==
    ASSUME Calm
    PROVE  Spec => []NeverAstray
<1>1. Calm
  OBVIOUS
<1>2. Init => CalmInv
  BY <1>1, CalmInit
<1>3. IInv /\ CalmInv /\ [Next]_vars => CalmInv'
  BY <1>1, CalmStep
<1>4. CalmInv => NeverAstray
  BY DEF CalmInv, CalmAt, Kept, Stays, AtHome, Away, NeverAstray, Parked
<1> QED  BY <1>2, <1>3, <1>4, Inductive, PTL DEF Spec

\* Hide implements HiddenWindows: whatever fails, the stack changes only to say what the
\* compositor shows at that moment, windows leave and return one at a time, and a
\* request is over, or taken back, before another moves a window.
THEOREM ImplementsHiddenWindows ==
    ASSUME Calm
    PROVE  Spec => HidesAsPromised
<1>1. Calm
  OBVIOUS
<1>2. Init => CalmInv
  BY <1>1, CalmInit
<1>3. IInv /\ CalmInv /\ [Next]_vars => CalmInv' /\ [Promise!Next]_<<Hidden, Parked>>
  BY <1>1, CalmStep
<1>4. Init => Promise!Init
  <2> SUFFICES ASSUME Init PROVE Promise!Init
    OBVIOUS
  <2>1. TypeOK
    BY InitSafe DEF IInv
  <2>2. Fresh(niri) /\ stack = {}
    BY <1>1 DEF Init, Calm
  <2>3. ParkedAt = {}
    BY <2>1, <2>2 DEF ParkedAt, Named, Fresh, TypeOK
  <2> QED  BY <2>2, <2>3 DEF Promise!Init, Hidden, Parked
<1> QED  BY <1>2, <1>3, <1>4, Inductive, PTL DEF Spec, HidesAsPromised, Promise!Spec
===============================================================================

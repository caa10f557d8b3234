---------------------------- MODULE SettingsProofs ----------------------------
(***************************************************************************)
(* What a save of the settings leaves behind, for any keys, opacities,     *)
(* requests and failures, and any number of each.                          *)
(***************************************************************************)
EXTENDS Settings, TLAPS

Places == {"none", "sent", "loaded", "old", "actions", "rule", "putback", "persist",
           "answer", "answered"}
Request == [op : Ops, arg : Policies \cup BOOLEAN, old : Policies, cfg : Config,
            ok : BOOLEAN, at : Places]
Engine == [at : {"down", "starting", "up"}, run : Config, enabled : BOOLEAN,
           opacity : Policies, dirty : BOOLEAN]
Steps == {"idle", "read", "status", "merge", "write", "reload", "opacity", "result",
          "restore", "reload again", "opacity again"}
Outcomes == {"none", "reload failed", "opacity failed", "saved", "unread", "rejected",
             "undone", "stuck"}
Transaction == [at : Steps, ui : Uis, opacity : Percents, prev : Contents,
                prevOpacity : Policies, next : Contents, outcome : Outcomes]

\* The conjuncts of TypeOK that steps disturb together.
ConfigType == config \in Contents
OpacityType == rule \in Policies /\ stored \in Policies
DaemonType == daemon \in Engine /\ mismatch \in BOOLEAN
ReqType == req \in [Clients -> Request]
SaveType == save \in Transaction
HistoryType == /\ before \in [file : Contents, run : Config, opacity : Policies]
               /\ {quiet, rash, overlap, skewed} \subseteq BOOLEAN
               /\ manual \in Rests \cup {Broken, Garbled} /\ misread \subseteq Reads
TroublesType == troubles \in Nat
BudgetType == budget \in [Happenings -> Nat] /\ happenings \in Nat

LEMMA Parts ==
    TypeOK <=> /\ ConfigType /\ OpacityType /\ DaemonType /\ ReqType /\ SaveType
               /\ HistoryType /\ TroublesType /\ BudgetType
BY DEF TypeOK, ConfigType, OpacityType, DaemonType, ReqType, SaveType, HistoryType,
       TroublesType, BudgetType, Places, Request, Engine, Steps, Outcomes, Transaction

LEMMA Assembled ==
    ASSUME ConfigType', OpacityType', DaemonType', ReqType', SaveType', HistoryType',
           TroublesType', BudgetType'
    PROVE  TypeOK'
BY DEF TypeOK, ConfigType, OpacityType, DaemonType, ReqType, SaveType, HistoryType,
       TroublesType, BudgetType, Places, Request, Engine, Steps, Outcomes, Transaction

\* What a request asks for fits the request, so an opacity it sets is one: TypeOK
\* itself does not say so, and is not inductive without.
Sets(r) == r.op \in {"opacity", "preset"}
Fits(r) ==
    /\ r.op = "enable" => r.arg \in BOOLEAN
    /\ Sets(r) => r.arg \in Policies
    /\ r.at \in {"actions", "rule", "putback"} => Sets(r)
Asked == {r \in Request : Fits(r)}
AskType == req \in [Clients -> Asked]

LEMMA FreeType == Free \in Asked
BY SettingsAssumption
DEF Free, Asked, Fits, Sets, Request, Ops, Places, Policies, Defaults, Config

LEMMA NoSaveType == NoSave \in Transaction
BY SettingsAssumption
DEF NoSave, Transaction, Steps, Outcomes, Policies, Contents

LEMMA EffectiveType ==
    ASSUME NEW c \in Contents
    PROVE  /\ c \notin Rejected => Effective(c) \in Config
           /\ RestOf(c) \in Rests \cup {Broken, Garbled}
           /\ c \notin {Broken, Garbled} => RestOf(c) \in Rests
<1>1. Defaults \in Config  BY SettingsAssumption DEF Defaults, Config
<1>2. c \notin Rejected => Effective(c) \in Config
  BY <1>1 DEF Effective, Rejected
<1>3. c \notin {Broken, Garbled} => RestOf(c) \in Rests
  <2>1. CASE c = Missing  BY <1>1, <2>1 DEF RestOf, Effective, Config
  <2>2. CASE c \in Texts  BY <2>2, SettingsAssumption DEF RestOf, Effective, Texts
  <2> QED  BY <2>1, <2>2 DEF Contents
<1>4. RestOf(c) \in Rests \cup {Broken, Garbled}
  BY <1>3 DEF RestOf
<1> QED  BY <1>2, <1>3, <1>4

\* The files that a program accepts are texts, and a missing file is none.
LEMMA Kinds ==
    /\ Config \subseteq Texts /\ Texts \subseteq Contents
    /\ Config \cap Rejected = {} /\ Missing \notin Rejected
    /\ Missing \notin Config /\ Broken \notin Config /\ Garbled \notin Config
    /\ Broken \in Rejected /\ Garbled \in Rejected
    /\ \A c \in Contents : c \in Config \/ c = Missing \/ c \in Rejected
<1>1. Config \subseteq Texts  BY DEF Config, Texts
<1>2. /\ Missing \notin Config /\ Broken \notin Config /\ Garbled \notin Config
  BY <1>1, SettingsAssumption
<1>3. Broken # Missing /\ Garbled # Missing  BY SettingsAssumption
<1> QED  BY <1>1, <1>2, <1>3 DEF Contents, Rejected

LEMMA InitType == Init => TypeOK /\ AskType
<1> SUFFICES ASSUME Init PROVE TypeOK /\ AskType  OBVIOUS
<1>1. config \in Contents /\ config \notin Rejected
  BY Kinds DEF Init, Contents
<1>2. Effective(config) \in Config /\ RestOf(config) \in Rests \cup {Broken, Garbled}
  BY <1>1, EffectiveType
<1>3. DaemonType
  BY <1>2, SettingsAssumption DEF Init, DaemonType, Engine, Policies
<1>4. ReqType /\ AskType /\ SaveType
  BY FreeType, NoSaveType DEF Init, ReqType, AskType, Asked, SaveType
<1>5. HistoryType
  BY <1>1, <1>2, SettingsAssumption DEF Init, HistoryType, Policies
<1>6. OpacityType /\ TroublesType /\ BudgetType
  BY SettingsAssumption DEF Init, OpacityType, TroublesType, BudgetType, Policies
<1> QED  BY <1>1, <1>3, <1>4, <1>5, <1>6, Parts DEF ConfigType

LEMMA HappensType ==
    ASSUME TypeOK, NEW kind \in Happenings, Happens(kind)
    PROVE  BudgetType'
<1>1. budget \in [Happenings -> Nat] /\ happenings \in Nat
  BY Parts DEF BudgetType
<1>2. budget[kind] - 1 \in Nat /\ happenings - 1 \in Nat
  BY <1>1 DEF Happens
<1> QED  BY <1>1, <1>2 DEF Happens, BudgetType

LEMMA FaultType ==
    ASSUME TypeOK, Fault \/ NoFault
    PROVE  TroublesType' /\ BudgetType'
<1>1. CASE Fault
  <2>1. BudgetType'  BY <1>1, HappensType DEF Fault, Happenings
  <2>2. troubles \in Nat  BY Parts DEF TroublesType
  <2>3. TroublesType'  BY <1>1, <2>2 DEF Fault, TroublesType
  <2> QED  BY <2>1, <2>3
<1>2. CASE NoFault
  BY <1>2, Parts DEF NoFault, TroublesType, BudgetType
<1> QED  BY <1>1, <1>2

LEMMA AskIsReq ==
    (AskType => ReqType) /\ (AskType' => ReqType')
BY DEF AskType, ReqType, Asked

\* A step of a request.
LEMMA ReqStep ==
    ASSUME AskType, NEW t \in Clients, NEW r \in Asked, req' = [req EXCEPT ![t] = r]
    PROVE  AskType'
BY DEF AskType

LEMMA ReqTypes ==
    ASSUME AskType, NEW t \in Clients
    PROVE  /\ \A at \in Places :
                 To(t, at) /\ (at \in {"actions", "rule", "putback"} => Sets(req[t]))
                   => AskType'
           /\ \A ok \in BOOLEAN : Done(t, ok) => AskType'
           /\ \A ok \in BOOLEAN : Answered(t, ok) => AskType'
<1>1. req[t] \in Asked  BY DEF AskType
<1>2. ASSUME NEW at \in Places, To(t, at),
             at \in {"actions", "rule", "putback"} => Sets(req[t])
      PROVE  AskType'
  <2>1. [req[t] EXCEPT !.at = at] \in Asked
    BY <1>1, <1>2 DEF Asked, Request, Fits, Sets
  <2> QED  BY <1>2, <2>1, ReqStep DEF To, AskType
<1>3. ASSUME NEW ok \in BOOLEAN, Done(t, ok)  PROVE AskType'
  <2>1. [req[t] EXCEPT !.at = "persist", !.ok = ok] \in Asked
    BY <1>1, <1>3 DEF Asked, Request, Fits, Sets, Places
  <2> QED  BY <1>3, <2>1, ReqStep DEF Done, AskType
<1>4. ASSUME NEW ok \in BOOLEAN, Answered(t, ok)  PROVE AskType'
  <2>1. [req[t] EXCEPT !.at = "answered", !.ok = ok] \in Asked
    BY <1>1, <1>4 DEF Asked, Request, Fits, Sets, Places
  <2> QED  BY <1>4, <2>1, FreeType, ReqStep DEF Answered, AskType
<1> QED  BY <1>2, <1>3, <1>4

LEMMA PolicyType ==
    ASSUME TypeOK, NEW p \in Policies
    PROVE  Policy(p) \in Engine
<1> daemon \in Engine  BY Parts DEF DaemonType
<1> PICK b \in BOOLEAN : b = (daemon.dirty \/ p # daemon.opacity)  BY Zenon
<1> QED  BY DEF Engine, Policy

LEMMA SentType ==
    ASSUME TypeOK, AskType, NEW t \in Clients, NEW op \in Ops,
           NEW arg \in Policies \cup BOOLEAN,
           op = "enable" => arg \in BOOLEAN, op \in {"opacity", "preset"} => arg \in Policies
    PROVE  /\ Sent(t, op, arg) => AskType' /\ {overlap', skewed'} \subseteq BOOLEAN
           /\ NotSent(t, op, arg) => AskType' /\ TroublesType' /\ BudgetType'
<1> DEFINE Asking(at) == [Free EXCEPT !.op = op, !.arg = arg, !.at = at]
<1>1. \A at \in {"sent", "answered"} : Asking(at) \in Asked
  BY FreeType DEF Asked, Request, Fits, Sets, Places
<1>2. \A at \in {"sent", "answered"} : req' = [req EXCEPT ![t] = Asking(at)] => AskType'
  BY <1>1, ReqStep
<1>3. overlap \in BOOLEAN /\ skewed \in BOOLEAN  BY Parts DEF HistoryType
<1>4. ASSUME Sent(t, op, arg)
      PROVE  AskType' /\ {overlap', skewed'} \subseteq BOOLEAN
  BY <1>2, <1>3, <1>4 DEF Sent
<1>5. ASSUME NotSent(t, op, arg)  PROVE AskType' /\ TroublesType' /\ BudgetType'
  BY <1>2, <1>5, FaultType DEF NotSent
<1> QED  BY <1>4, <1>5

LEMMA ServeType ==
    TypeOK /\ AskType /\ (\E t \in Clients : Serve(t)) => TypeOK' /\ AskType'
<1> SUFFICES ASSUME TypeOK, AskType, NEW t \in Clients, Serve(t) PROVE TypeOK' /\ AskType'
  OBVIOUS
<1>0. req[t] \in Asked /\ daemon \in Engine  BY Parts DEF AskType, DaemonType
<1>1. CASE LoadConfig(t)
  <2>1. ASSUME Done(t, FALSE) PROVE AskType'
    BY <2>1, ReqTypes
  <2>2. ASSUME config \notin Rejected,
               req' = [req EXCEPT ![t].at = "loaded", ![t].cfg = Effective(config)]
        PROVE  AskType'
    <3>1. Effective(config) \in Config  BY <2>2, EffectiveType, Parts DEF ConfigType
    <3>2. [req[t] EXCEPT !.at = "loaded", !.cfg = Effective(config)] \in Asked
      BY <1>0, <3>1 DEF Asked, Request, Fits, Sets, Places
    <3>3. req' = [req EXCEPT ![t] = [req[t] EXCEPT !.at = "loaded", !.cfg = Effective(config)]]
      BY <2>2 DEF AskType
    <3> QED  BY <3>2, <3>3, ReqStep
  <2>3. AskType'  BY <1>1, <2>1, <2>2 DEF LoadConfig
  <2>4. TroublesType' /\ BudgetType'  BY <1>1, FaultType DEF LoadConfig
  <2> QED
    BY <1>1, <2>3, <2>4, Parts, Assembled, AskIsReq
    DEF LoadConfig, ConfigType, OpacityType, DaemonType, SaveType, HistoryType
<1>2. CASE ReplaceConfig(t)
  <2>1. AskType'  BY <1>2, ReqTypes DEF ReplaceConfig
  <2>2. Replaced(req[t].cfg) \in Engine
    BY <1>0 DEF Replaced, Engine, Request, Asked
  <2> QED
    BY <1>2, <2>1, <2>2, FaultType, Parts, Assembled, AskIsReq
    DEF ReplaceConfig, ConfigType, OpacityType, DaemonType, SaveType, HistoryType
<1>3. CASE SetEnabled(t)
  <2>1. AskType'  BY <1>3, ReqTypes DEF SetEnabled
  <2>2. req[t].arg \in BOOLEAN  BY <1>0, <1>3 DEF SetEnabled, Asked, Fits
  <2>3. [daemon EXCEPT !.enabled = req[t].arg] \in Engine
    BY <1>0, <2>2 DEF Engine
  <2> QED
    BY <1>3, <2>1, <2>3, FaultType, Parts, Assembled, AskIsReq
    DEF SetEnabled, ConfigType, OpacityType, DaemonType, SaveType, HistoryType
<1>4. CASE ReadOld(t)
  <2>1. [req[t] EXCEPT !.at = "old", !.old = daemon.opacity] \in Asked
    BY <1>0 DEF Asked, Request, Fits, Sets, Places, Engine
  <2>2. req' = [req EXCEPT ![t] = [req[t] EXCEPT !.at = "old", !.old = daemon.opacity]]
    BY <1>4 DEF ReadOld, AskType
  <2>3. AskType'  BY <2>1, <2>2, ReqStep
  <2> QED
    BY <1>4, <2>3, FaultType, Parts, Assembled, AskIsReq
    DEF ReadOld, ConfigType, OpacityType, DaemonType, SaveType, HistoryType
<1>5. CASE SetOpacity(t)
  <2>1. AskType'
    BY <1>5, ReqTypes DEF SetOpacity, Sets, Places
  <2>2. Policy(req[t].arg) \in Engine
    BY <1>0, <1>5, PolicyType DEF SetOpacity, Asked, Fits, Sets
  <2> QED
    BY <1>5, <2>1, <2>2, FaultType, Parts, Assembled, AskIsReq
    DEF SetOpacity, ConfigType, OpacityType, DaemonType, SaveType, HistoryType
<1>6. CASE ApplyPreset(t)
  <2>1. req[t].op = "preset" /\ Sets(req[t])  BY <1>6 DEF ApplyPreset, Sets
  <2>2. Policy(req[t].arg) \in Engine
    BY <1>0, <2>1, PolicyType DEF Asked, Fits
  <2>3. AskType' /\ daemon' \in Engine
    <3>1. CASE daemon' = Policy(req[t].arg) /\ To(t, "actions")
      BY <2>1, <2>2, <3>1, ReqTypes DEF Places
    <3>2. CASE /\ req' = [req EXCEPT ![t].at = "actions", ![t].arg = daemon.opacity]
               /\ UNCHANGED daemon
      <4>1. [req[t] EXCEPT !.at = "actions", !.arg = daemon.opacity] \in Asked
        BY <1>0, <2>1 DEF Asked, Request, Fits, Sets, Places, Engine
      <4>2. req' = [req EXCEPT ![t] =
                      [req[t] EXCEPT !.at = "actions", !.arg = daemon.opacity]]
        BY <3>2 DEF AskType
      <4> QED  BY <1>0, <3>2, <4>1, <4>2, ReqStep
    <3>3. CASE Done(t, FALSE) /\ UNCHANGED daemon
      BY <1>0, <3>3, ReqTypes
    <3> QED  BY <1>6, <3>1, <3>2, <3>3 DEF ApplyPreset
  <2> QED
    BY <1>6, <2>3, FaultType, Parts, Assembled, AskIsReq
    DEF ApplyPreset, ConfigType, OpacityType, DaemonType, SaveType, HistoryType
<1>7. CASE PresetActions(t)
  <2>1. Sets(req[t])  BY <1>0, <1>7 DEF PresetActions, Asked, Fits
  <2>2. AskType' /\ TroublesType' /\ BudgetType' /\ skewed' \in BOOLEAN
    <3>1. skewed \in BOOLEAN  BY Parts DEF HistoryType
    <3> QED  BY <1>7, <2>1, <3>1, ReqTypes, FaultType DEF PresetActions, Places
  <2> QED
    BY <1>7, <2>2, Parts, Assembled, AskIsReq
    DEF PresetActions, ConfigType, OpacityType, DaemonType, SaveType, HistoryType
<1>8. CASE WriteRule(t)
  <2>1. Sets(req[t])  BY <1>0, <1>8 DEF WriteRule, Asked, Fits
  <2>2. req[t].arg \in Policies  BY <1>0, <2>1 DEF Asked, Fits
  <2>3. rule \in Policies /\ skewed \in BOOLEAN /\ overlap \in BOOLEAN
    BY Parts DEF OpacityType, HistoryType
  <2>4. AskType' /\ TroublesType' /\ BudgetType'
    BY <1>8, <2>1, ReqTypes, FaultType DEF WriteRule, Places
  <2>5. rule' \in Policies /\ skewed' \in BOOLEAN
    BY <1>8, <2>2, <2>3 DEF WriteRule
  <2> QED
    BY <1>8, <2>4, <2>5, Parts, Assembled, AskIsReq
    DEF WriteRule, ConfigType, OpacityType, DaemonType, SaveType, HistoryType
<1>9. CASE RuleFailed(t)
  <2>1. AskType'  BY <1>9, ReqTypes DEF RuleFailed
  <2>2. daemon' \in Engine
    BY <1>0, <1>9, PolicyType DEF RuleFailed, PutBack, Asked, Request
  <2> QED
    BY <1>9, <2>1, <2>2, FaultType, Parts, Assembled, AskIsReq
    DEF RuleFailed, ConfigType, OpacityType, DaemonType, SaveType, HistoryType
<1>10. CASE Persist(t)
  <2>1. AskType'  BY <1>10, ReqTypes DEF Persist, Places
  <2>2. daemon' \in Engine  BY <1>0, <1>10 DEF Persist, Persisting, Engine
  <2>3. TroublesType' /\ BudgetType'  BY <1>10, FaultType DEF Persist, Persisting
  <2>4. stored' \in Policies /\ quiet' \in BOOLEAN
    <3>1. stored \in Policies /\ quiet \in BOOLEAN  BY Parts DEF OpacityType, HistoryType
    <3> QED  BY <1>0, <1>10, <3>1 DEF Persist, Persisting, Engine
  <2> QED
    BY <1>10, <2>1, <2>2, <2>3, <2>4, Parts, Assembled, AskIsReq
    DEF Persist, ConfigType, OpacityType, DaemonType, SaveType, HistoryType
<1>11. CASE Answer(t)
  <2>1. PICK b \in BOOLEAN : b = (req[t].ok /\ ~mismatch)  BY Zenon
  <2>2. AskType'
    BY <1>11, <2>1, ReqTypes DEF Answer
  <2> QED
    BY <1>11, <2>2, FaultType, Parts, Assembled, AskIsReq
    DEF Answer, ConfigType, OpacityType, DaemonType, SaveType, HistoryType
<1> QED
  BY <1>1, <1>2, <1>3, <1>4, <1>5, <1>6, <1>7, <1>8, <1>9, <1>10, <1>11 DEF Serve

LEMMA GoneType ==
    ASSUME TypeOK, AskType, Gone
    PROVE  AskType' /\ daemon' \in Engine /\ quiet' \in BOOLEAN
<1>1. daemon \in Engine /\ quiet \in BOOLEAN  BY Parts DEF DaemonType, HistoryType
<1>2. ASSUME NEW t \in Clients  PROVE req'[t] \in Asked
  <2>1. req[t] \in Asked  BY DEF AskType
  <2>2. [req[t] EXCEPT !.at = "answered", !.ok = FALSE] \in Asked
    BY <2>1 DEF Asked, Request, Fits, Sets, Places
  <2> QED  BY <2>1, <2>2, FreeType DEF Gone
<1>3. AskType'
  BY <1>2 DEF Gone, AskType
<1> QED  BY <1>1, <1>3 DEF Gone, Engine

LEMMA ProcessType ==
    /\ TypeOK /\ AskType
    /\ Tick \/ Crash \/ Stop \/ Start \/ Serving
    => TypeOK' /\ AskType'
<1> SUFFICES ASSUME TypeOK, AskType, Tick \/ Crash \/ Stop \/ Start \/ Serving
             PROVE  TypeOK' /\ AskType'
  OBVIOUS
<1>0. /\ daemon \in Engine /\ quiet \in BOOLEAN /\ rule \in Policies /\ stored \in Policies
      /\ config \in Contents /\ skewed \in BOOLEAN
  BY Parts DEF DaemonType, HistoryType, OpacityType, ConfigType
<1>1. CASE Tick
  <2>1. AskType'  BY <1>1 DEF Tick, AskType
  <2>2. daemon' \in Engine  BY <1>0, <1>1 DEF Tick, Persisting, Engine
  <2>3. TroublesType' /\ BudgetType'  BY <1>1, FaultType DEF Tick, Persisting
  <2>4. stored' \in Policies /\ quiet' \in BOOLEAN
    BY <1>0, <1>1 DEF Tick, Persisting, Engine
  <2> QED
    BY <1>1, <2>1, <2>2, <2>3, <2>4, Parts, Assembled, AskIsReq
    DEF Tick, ConfigType, OpacityType, DaemonType, SaveType, HistoryType
<1>2. CASE Crash
  <2>1. BudgetType'  BY <1>2, HappensType DEF Crash, Happenings
  <2> QED
    BY <1>2, <2>1, GoneType, Parts, Assembled, AskIsReq
    DEF Crash, ConfigType, OpacityType, DaemonType, SaveType, HistoryType, TroublesType
<1>3. CASE Stop
  <2>1. BudgetType'  BY <1>3, HappensType DEF Stop, Happenings
  <2>2. stored' \in Policies  BY <1>0, <1>3 DEF Stop, Engine
  <2> QED
    BY <1>3, <2>1, <2>2, GoneType, Parts, Assembled, AskIsReq
    DEF Stop, ConfigType, OpacityType, DaemonType, SaveType, HistoryType, TroublesType
<1>4. CASE Start
  <2>1. Effective(config) \in Config  BY <1>0, <1>4, EffectiveType DEF Start
  <2>2. daemon' \in Engine  BY <1>0, <1>4, <2>1 DEF Start, Engine
  <2> QED
    BY <1>4, <2>2, Parts, Assembled, AskIsReq
    DEF Start, ConfigType, OpacityType, DaemonType, SaveType, HistoryType, TroublesType,
        BudgetType, AskType, history, world
<1>5. CASE Serving
  <2>1. daemon' \in Engine /\ rule' \in Policies /\ skewed' \in BOOLEAN
    BY <1>0, <1>5 DEF Serving, Engine
  <2>2. TroublesType' /\ BudgetType'  BY <1>5, FaultType DEF Serving
  <2>3. AskType'  BY <1>5 DEF Serving, AskType
  <2> QED
    BY <1>5, <2>1, <2>2, <2>3, Parts, Assembled, AskIsReq
    DEF Serving, ConfigType, OpacityType, DaemonType, SaveType, HistoryType
<1> QED  BY <1>1, <1>2, <1>3, <1>4, <1>5

LEMMA ClientType ==
    TypeOK /\ AskType /\ (Ask \/ Edit \/ BeginSave) => TypeOK' /\ AskType'
<1> SUFFICES ASSUME TypeOK, AskType, Ask \/ Edit \/ BeginSave PROVE TypeOK' /\ AskType'
  OBVIOUS
<1>1. CASE Ask
  <2>1. PICK r \in Requests : Sent("cli", r[1], r[2])  BY <1>1 DEF Ask
  <2>2. /\ r[1] \in Ops /\ r[2] \in Policies \cup BOOLEAN
        /\ r[1] = "enable" => r[2] \in BOOLEAN
        /\ r[1] \in {"opacity", "preset"} => r[2] \in Policies
    BY SettingsAssumption DEF Requests, Ops, Policies
  <2>3. AskType' /\ {overlap', skewed'} \subseteq BOOLEAN
    BY <2>1, <2>2, SentType DEF Clients
  <2>4. BudgetType'  BY <1>1, HappensType DEF Ask, Happenings
  <2> QED
    BY <1>1, <2>3, <2>4, Parts, Assembled, AskIsReq
    DEF Ask, ConfigType, OpacityType, DaemonType, SaveType, HistoryType, TroublesType
<1>2. CASE Edit
  <2>1. BudgetType'  BY <1>2, HappensType DEF Edit, Happenings
  <2>2. config' \in Contents /\ manual' \in Rests \cup {Broken, Garbled}
    BY <1>2, EffectiveType DEF Edit
  <2>4. misread' \subseteq Reads
    <3>1. misread \subseteq Reads  BY Parts DEF HistoryType
    <3> QED  BY <1>2, <3>1 DEF Edit
  <2>3. rash' \in BOOLEAN  BY <1>2 DEF Edit
  <2> QED
    BY <1>2, <2>1, <2>2, <2>3, <2>4, Parts, Assembled, AskIsReq
    DEF Edit, ConfigType, OpacityType, DaemonType, SaveType, HistoryType, TroublesType,
        AskType
<1>3. CASE BeginSave
  <2>1. BudgetType'  BY <1>3, HappensType DEF BeginSave, Happenings
  <2>2. config \in Contents /\ daemon \in Engine
        /\ manual \in Rests \cup {Broken, Garbled}
    BY Parts DEF ConfigType, DaemonType, HistoryType
  <2>3. SaveType'
    <3>1. PICK u \in Uis, p \in Percents :
            save' = [NoSave EXCEPT !.at = "read", !.ui = u, !.opacity = p]
      BY <1>3 DEF BeginSave
    <3> QED  BY <2>2, <3>1, NoSaveType DEF Transaction, Steps, SaveType
  <2>4. before' \in [file : Contents, run : Config, opacity : Policies]
    BY <1>3, <2>2 DEF BeginSave, Engine
  <2>5. quiet' \in BOOLEAN /\ rash' \in BOOLEAN /\ TroublesType'
    BY <1>3 DEF BeginSave, TroublesType
  <2>6. manual' \in Rests \cup {Broken, Garbled} /\ misread' \subseteq Reads
    BY <1>3, <2>2, EffectiveType DEF BeginSave
  <2> QED
    BY <1>3, <2>1, <2>3, <2>4, <2>5, <2>6, Parts, Assembled, AskIsReq
    DEF BeginSave, ConfigType, OpacityType, DaemonType, HistoryType, AskType
<1> QED  BY <1>1, <1>2, <1>3

LEMMA EndedType ==
    ASSUME TypeOK, NEW o \in Outcomes
    PROVE  Ended(o) \in Transaction
BY NoSaveType, Parts DEF Ended, Transaction, SaveType, Steps

LEMMA SavingType == TypeOK /\ AskType /\ Saving => TypeOK' /\ AskType'
<1> SUFFICES ASSUME TypeOK, AskType, Saving PROVE TypeOK' /\ AskType'  OBVIOUS
<1>0. save \in Transaction /\ config \in Contents /\ daemon \in Engine
  BY Parts DEF SaveType, ConfigType, DaemonType
<1>1. CASE SaveStatus
  <2>1. PICK o \in Policies : save' = [save EXCEPT !.at = "merge", !.prevOpacity = o]
    BY <1>0, <1>1 DEF SaveStatus, Policies, Engine
  <2>2. SaveType'
    BY <1>0, <2>1 DEF SaveType, Transaction, Steps
  <2>3. TroublesType' /\ BudgetType'  BY <1>1, FaultType DEF SaveStatus
  <2> QED
    BY <1>1, <2>2, <2>3, Parts, Assembled, AskIsReq
    DEF SaveStatus, ConfigType, OpacityType, DaemonType, HistoryType, AskType
<1>7. CASE ReadPrevious
  <2>1. PICK c \in Contents : save' = [save EXCEPT !.at = "status", !.prev = c]
    BY <1>0, <1>7 DEF ReadPrevious, Contents
  <2>2. SaveType'  BY <1>0, <2>1 DEF SaveType, Transaction, Steps
  <2>3. TroublesType' /\ BudgetType'  BY <1>7, FaultType DEF ReadPrevious
  <2>4. misread' \subseteq Reads
    <3>1. misread \subseteq Reads  BY Parts DEF HistoryType
    <3> QED  BY <1>7, <3>1 DEF ReadPrevious, Reads
  <2> QED
    BY <1>7, <2>2, <2>3, <2>4, Parts, Assembled, AskIsReq
    DEF ReadPrevious, ConfigType, OpacityType, DaemonType, HistoryType, AskType
<1>2. CASE Merge
  <2>1. SaveType'
    <3>1. CASE save' = Ended("rejected")
      BY <3>1, EndedType DEF SaveType, Outcomes
    <3>2. ASSUME NEW rest \in Rests,
                 save' = [save EXCEPT !.at = "write", !.next = Document(rest)]
          PROVE  SaveType'
      <4>1. Document(rest) \in Contents
        BY <1>0, Kinds DEF Document, Config, Transaction
      <4> QED  BY <1>0, <3>2, <4>1 DEF SaveType, Transaction, Steps
    <3>3. config \notin {Broken, Garbled} => RestOf(config) \in Rests
      BY <1>0, EffectiveType
    <3> QED  BY <1>2, <3>1, <3>2, <3>3, SettingsAssumption DEF Merge, Candidate
  <2>2. TroublesType' /\ BudgetType'  BY <1>2, FaultType DEF Merge
  <2>3. misread' \subseteq Reads
    <3>1. misread \subseteq Reads  BY Parts DEF HistoryType
    <3> QED  BY <1>2, <3>1 DEF Merge, Reads
  <2> QED
    BY <1>2, <2>1, <2>2, <2>3, Parts, Assembled, AskIsReq
    DEF Merge, ConfigType, OpacityType, DaemonType, HistoryType, AskType
<1>3. CASE WriteConfig
  <2>1. SaveType' /\ config' \in Contents
    <3>1. [save EXCEPT !.at = "reload"] \in Transaction /\ save.next \in Contents
      BY <1>0 DEF Transaction, Steps
    <3>2. Ended("rejected") \in Transaction
      BY EndedType DEF Outcomes
    <3> QED  BY <1>0, <1>3, <3>1, <3>2 DEF WriteConfig, SaveType
  <2>2. TroublesType' /\ BudgetType'  BY <1>3, FaultType DEF WriteConfig
  <2> QED
    BY <1>3, <2>1, <2>2, Parts, Assembled, AskIsReq
    DEF WriteConfig, ConfigType, OpacityType, DaemonType, HistoryType, AskType
<1>4. CASE SaveAsks
  <2>1. PICK op \in {"reload", "opacity"}, arg \in Policies :
          (Sent("save", op, arg) /\ NoFault) \/ NotSent("save", op, arg)
    BY <1>4 DEF SaveAsks
  <2>2. op \in Ops /\ op # "enable" /\ "save" \in Clients  BY DEF Ops, Clients
  <2>3. AskType' /\ TroublesType' /\ BudgetType'
    BY <2>1, <2>2, SentType, FaultType
  <2>4. overlap \in BOOLEAN /\ skewed \in BOOLEAN  BY Parts DEF HistoryType
  <2>5. {overlap', skewed'} \subseteq BOOLEAN
    BY <2>1, <2>2, <2>4, SentType DEF NotSent
  <2> QED
    BY <1>4, <2>3, <2>5, Parts, Assembled, AskIsReq
    DEF SaveAsks, ConfigType, OpacityType, DaemonType, SaveType, HistoryType
<1>5. CASE SaveAnswered
  <2>1. AskType'  BY <1>5, FreeType, ReqStep DEF SaveAnswered, Clients
  <2>2. Ended("undone") \in Transaction
    BY EndedType DEF Outcomes
  <2>3. /\ [save EXCEPT !.at = "opacity"] \in Transaction
        /\ [save EXCEPT !.at = "result"] \in Transaction
        /\ [save EXCEPT !.at = "opacity again"] \in Transaction
        /\ \A o \in {"reload failed", "opacity failed"} :
              [save EXCEPT !.at = "restore", !.outcome = o] \in Transaction
    BY <1>0 DEF Transaction, Steps, Outcomes
  <2>4. SaveType'
    <3>1. CASE save.at = "reload"
      BY <1>5, <2>2, <2>3, <3>1 DEF SaveAnswered, AfterAnswer, SaveType
    <3>2. CASE save.at = "opacity"
      BY <1>5, <2>2, <2>3, <3>2 DEF SaveAnswered, AfterAnswer, SaveType
    <3>3. CASE save.at = "reload again" /\ save.outcome = "opacity failed"
      BY <1>5, <2>3, <3>3 DEF SaveAnswered, AfterAnswer, SaveType
    <3>4. CASE /\ save.at \notin {"reload", "opacity"}
               /\ ~(save.at = "reload again" /\ save.outcome = "opacity failed")
      <4>1. save' = Ended("undone")
        BY <1>5, <3>4 DEF SaveAnswered, AfterAnswer
      <4> QED  BY <2>2, <4>1 DEF SaveType
    <3> QED  BY <3>1, <3>2, <3>3, <3>4
  <2>5. TroublesType' /\ BudgetType'  BY <1>5, FaultType DEF SaveAnswered
  <2> QED
    BY <1>5, <2>1, <2>4, <2>5, Parts, Assembled, AskIsReq
    DEF SaveAnswered, ConfigType, OpacityType, DaemonType, HistoryType
<1>6. CASE Restore
  <2>1. SaveType' /\ config' \in Contents
    BY <1>0, <1>6, EndedType DEF Restore, SaveType, Transaction, Steps, Outcomes
  <2>2. TroublesType' /\ BudgetType'  BY <1>6, FaultType DEF Restore
  <2> QED
    BY <1>6, <2>1, <2>2, Parts, Assembled, AskIsReq
    DEF Restore, ConfigType, OpacityType, DaemonType, HistoryType, AskType
<1>8. CASE Report
  <2>1. SaveType'  BY <1>8, EndedType DEF Report, SaveType, Outcomes
  <2>2. TroublesType' /\ BudgetType'  BY <1>8, FaultType DEF Report
  <2> QED
    BY <1>8, <2>1, <2>2, Parts, Assembled, AskIsReq
    DEF Report, ConfigType, OpacityType, DaemonType, HistoryType, AskType
<1> QED  BY <1>1, <1>2, <1>3, <1>4, <1>5, <1>6, <1>7, <1>8 DEF Saving

LEMMA NextType == TypeOK /\ AskType /\ [Next]_vars => TypeOK' /\ AskType'
<1> SUFFICES ASSUME TypeOK, AskType, [Next]_vars PROVE TypeOK' /\ AskType'  OBVIOUS
<1>1. CASE UNCHANGED vars
  BY <1>1, Parts, Assembled, AskIsReq
  DEF vars, ConfigType, OpacityType, DaemonType, ReqType, SaveType, HistoryType,
      TroublesType, BudgetType, AskType
<1> QED  BY <1>1, ServeType, ProcessType, ClientType, SavingType DEF Next

\* Every reachable state of the files, the daemon, the requests and the save is well
\* typed: what is written, sent and put back always is what it should be.
THEOREM TypeCorrect == Spec => []TypeOK
BY InitType, NextType, PTL DEF Spec

-------------------------------------------------------------------------------
(* config.toml *)

\* Until the user writes the file during a save, or the save reads no text: the keys of
\* the user are in the file, in what the save would put back, and in what it is about to
\* write.
ManualInv ==
    ~rash /\ misread = {} =>
         /\ RestOf(config) = manual
         /\ save.at \notin {"idle", "read"} => RestOf(save.prev) = manual
         /\ save.at = "write" => RestOf(save.next) = manual

\* The save has kept what the file was; and the file is that, before the save has
\* written it and after it has put it back.  A request is under way only where the
\* save waits for its answer, so the answer cannot be taken for that to another one.
Waiting == {"reload", "opacity", "reload again", "opacity again"}
BackInv ==
    /\ save.at = "read" => misread = {} /\ (~rash => config = before.file)
    /\ save.at \notin {"idle", "read"} /\ "back" \notin misread /\ ~rash
         => save.prev = before.file
    /\ save.at \in {"status", "merge", "write"} /\ ~rash => config = before.file
    /\ save.at \in {"reload again", "opacity again"} /\ ~rash /\ "back" \notin misread
         => config = before.file
    /\ save.at \notin Waiting => req["save"] = Free

LEMMA RestOfConfig ==
    ASSUME NEW c \in Config
    PROVE  RestOf(c) = c.rest
BY Kinds DEF RestOf, Effective

\* What the daemon and its other clients do leaves the file and the save alone, and
\* a request that is not there is not served.
LEMMA OthersKeep ==
    ASSUME TypeOK, AskType, ManualInv, BackInv,
           UNCHANGED <<config, save, before, manual, rash, misread>>,
           req["save"] = Free => req'["save"] = Free
    PROVE  ManualInv' /\ BackInv'
BY DEF ManualInv, BackInv, RestOf, Effective

LEMMA ServeKeeps ==
    ASSUME AskType, NEW t \in Clients, Serve(t)
    PROVE  /\ UNCHANGED <<config, save, before, manual, rash, misread>>
           /\ req["save"] = Free => req'["save"] = Free
<1>1. UNCHANGED <<config, save, before, manual, rash, misread>>
  BY DEF Serve, LoadConfig, ReplaceConfig, SetEnabled, ReadOld, SetOpacity, ApplyPreset,
         PresetActions, WriteRule, RuleFailed, Persist, Answer
<1>2. req[t].at # "none"
  BY DEF Serve, LoadConfig, ReplaceConfig, SetEnabled, ReadOld, SetOpacity, ApplyPreset,
         PresetActions, WriteRule, RuleFailed, Persist, Answer
<1>3. req["save"] = Free => t # "save"  BY <1>2 DEF Free
<1>4. \E r : req' = [req EXCEPT ![t] = r]
  <2>1. ASSUME NEW at, To(t, at)  PROVE \E r : req' = [req EXCEPT ![t] = r]
    <3>1. req' = [req EXCEPT ![t] = [req[t] EXCEPT !.at = at]]
      BY <2>1 DEF To, AskType
    <3> QED  BY <3>1
  <2>2. ASSUME NEW ok, Done(t, ok)  PROVE \E r : req' = [req EXCEPT ![t] = r]
    <3>1. req' = [req EXCEPT ![t] = [req[t] EXCEPT !.at = "persist", !.ok = ok]]
      BY <2>2 DEF Done, AskType
    <3> QED  BY <3>1
  <2>3. CASE LoadConfig(t)
    <3>1. CASE req' = [req EXCEPT ![t].at = "loaded", ![t].cfg = Effective(config)]
      <4>1. req' = [req EXCEPT ![t] =
                      [req[t] EXCEPT !.at = "loaded", !.cfg = Effective(config)]]
        BY <3>1 DEF AskType
      <4> QED  BY <4>1
    <3> QED  BY <2>2, <2>3, <3>1 DEF LoadConfig
  <2>4. CASE ReadOld(t)
    <3>1. req' = [req EXCEPT ![t] = [req[t] EXCEPT !.at = "old", !.old = daemon.opacity]]
      BY <2>4 DEF ReadOld, AskType
    <3> QED  BY <3>1
  <2>5. CASE ApplyPreset(t)
    <3>1. CASE req' = [req EXCEPT ![t].at = "actions", ![t].arg = daemon.opacity]
      <4>1. req' = [req EXCEPT ![t] =
                      [req[t] EXCEPT !.at = "actions", !.arg = daemon.opacity]]
        BY <3>1 DEF AskType
      <4> QED  BY <4>1
    <3> QED  BY <2>1, <2>2, <2>5, <3>1 DEF ApplyPreset
  <2>6. CASE Answer(t)
    BY <2>6 DEF Answer, Answered
  <2>7. CASE ReplaceConfig(t) \/ SetEnabled(t) \/ SetOpacity(t) \/ PresetActions(t)
    BY <2>1, <2>2, <2>7 DEF ReplaceConfig, SetEnabled, SetOpacity, PresetActions
  <2>8. CASE WriteRule(t) \/ RuleFailed(t) \/ Persist(t)
    BY <2>1, <2>2, <2>8 DEF WriteRule, RuleFailed, Persist
  <2> QED  BY <2>3, <2>4, <2>5, <2>6, <2>7, <2>8 DEF Serve
<1> QED  BY <1>1, <1>3, <1>4 DEF AskType, Clients

LEMMA ProcessKeeps ==
    ASSUME AskType, Tick \/ Crash \/ Stop \/ Start \/ Serving \/ Ask
    PROVE  /\ UNCHANGED <<config, save, before, rash, manual, misread>>
           /\ req["save"] = Free => req'["save"] = Free
<1>1. UNCHANGED <<config, save, before, rash, manual, misread>>
  BY DEF Tick, Crash, Stop, Start, Serving, Ask, history
<1>2. req["save"] = Free => req'["save"] = Free
  <2>1. CASE Tick \/ Start \/ Serving
    BY <2>1 DEF Tick, Start, Serving
  <2>2. CASE Crash \/ Stop
    <3>1. Gone  BY <2>2 DEF Crash, Stop
    <3>2. Free.op = "none"  BY DEF Free
    <3> QED  BY <3>1, <3>2 DEF Gone, Clients
  <2>3. CASE Ask
    <3>1. PICK r \in Requests : Sent("cli", r[1], r[2])  BY <2>3 DEF Ask
    <3>2. PICK q : req' = [req EXCEPT !["cli"] = q]  BY <3>1 DEF Sent
    <3> QED  BY <3>2 DEF AskType, Clients
  <2> QED  BY <2>1, <2>2, <2>3
<1> QED  BY <1>1, <1>2

LEMMA InitKeys == Init => ManualInv /\ BackInv
<1> SUFFICES ASSUME Init PROVE ManualInv /\ BackInv  OBVIOUS
<1> QED  BY DEF Init, ManualInv, BackInv, NoSave, Waiting, Clients, RestOf, Effective

LEMMA NextKeys ==
    /\ TypeOK /\ AskType /\ ManualInv /\ BackInv /\ [Next]_vars
    => ManualInv' /\ BackInv'
<1> SUFFICES ASSUME TypeOK, AskType, ManualInv, BackInv, [Next]_vars
             PROVE  ManualInv' /\ BackInv'
  OBVIOUS
<1>0. save \in Transaction /\ config \in Contents
  BY Parts DEF SaveType, ConfigType
<1>1. CASE \E t \in Clients : Serve(t)
  BY <1>1, ServeKeeps, OthersKeep
<1>2. CASE Tick \/ Crash \/ Stop \/ Start \/ Serving \/ Ask
  BY <1>2, ProcessKeeps, OthersKeep
<1>3. CASE Edit
  <2>1. PICK c \in Contents : config' = c /\ manual' = RestOf(c)  BY <1>3 DEF Edit
  <2>2. /\ rash' = (save.at # "idle")
        /\ misread' = IF save.at = "idle" THEN {} ELSE misread
        /\ UNCHANGED <<req, save, before>>
    BY <1>3 DEF Edit
  <2>3. RestOf(config') = RestOf(c)  BY <2>1
  <2>4. ManualInv'  BY <2>1, <2>2, <2>3 DEF ManualInv, RestOf, Effective
  <2>5. BackInv'  BY <2>2 DEF BackInv, Waiting
  <2> QED  BY <2>4, <2>5
<1>4. CASE BeginSave
  <2>1. PICK u \in Uis, p \in Percents :
          save' = [NoSave EXCEPT !.at = "read", !.ui = u, !.opacity = p]
    BY <1>4 DEF BeginSave
  <2>2. save'.at = "read"
    BY <2>1 DEF NoSave
  <2>3. /\ config' = config /\ before'.file = config /\ req' = req /\ save.at = "idle"
        /\ misread' = {} /\ manual' = IF rash \/ misread # {} THEN RestOf(config) ELSE manual
    BY <1>4 DEF BeginSave
  <2>4. ManualInv'  BY <2>2, <2>3 DEF ManualInv, RestOf, Effective
  <2>5. BackInv'  BY <2>2, <2>3 DEF BackInv, Waiting
  <2> QED  BY <2>4, <2>5
<1>5. ASSUME NEW o \in Outcomes, save' = Ended(o), UNCHANGED <<config, manual, rash, misread>>,
             req'["save"] = Free
      PROVE  ManualInv' /\ BackInv'
  <2>1. save'.at = "idle"  BY <1>5 DEF Ended, NoSave
  <2> QED  BY <1>5, <2>1 DEF ManualInv, BackInv, Waiting, RestOf, Effective
<1>13. CASE ReadPrevious
  <2>1. /\ save.at = "read" /\ save'.at = "status"
        /\ UNCHANGED <<config, req, before, manual, rash>>
        /\ \/ save'.prev = config /\ UNCHANGED misread
           \/ "back" \in misread'
    BY <1>0, <1>13 DEF ReadPrevious, Transaction
  <2>2. RestOf(config)' = RestOf(config)  BY <2>1 DEF RestOf, Effective
  <2> QED  BY <2>1, <2>2 DEF ManualInv, BackInv, Waiting, RestOf, Effective
<1>6. CASE SaveStatus
  <2>1. /\ save.at = "status" /\ save'.at = "merge" /\ save'.prev = save.prev
        /\ UNCHANGED <<config, req, before, manual, rash, misread>>
    BY <1>0, <1>6 DEF SaveStatus, Transaction
  <2> QED  BY <2>1 DEF ManualInv, BackInv, Waiting, RestOf, Effective
<1>7. CASE Merge
  <2>1. CASE save' = Ended("rejected") /\ UNCHANGED misread
    <3>1. /\ UNCHANGED <<config, req, manual, rash>> /\ save.at = "merge"
      BY <1>7 DEF Merge
    <3>2. req'["save"] = Free  BY <3>1 DEF BackInv, Waiting
    <3> QED  BY <1>5, <2>1, <3>1, <3>2 DEF Outcomes
  <2>2. CASE /\ config \notin {Broken, Garbled} /\ UNCHANGED misread
             /\ save' = [save EXCEPT !.at = "write", !.next = Candidate(config)]
    <3>1. /\ save.at = "merge" /\ save'.at = "write" /\ save'.prev = save.prev
          /\ save'.next = Candidate(config)
          /\ UNCHANGED <<config, req, before, manual, rash>>
      BY <1>0, <1>7, <2>2 DEF Merge, Transaction
    <3>2. RestOf(config) \in Rests /\ save.ui \in Uis
      BY <1>0, <2>2, EffectiveType DEF Transaction
    <3>3. RestOf(save'.next) = RestOf(config)
      BY <3>1, <3>2, RestOfConfig DEF Candidate, Document, Config
    <3>4. RestOf(save'.prev) = RestOf(save.prev)  BY <3>1
    <3> QED  BY <2>2, <3>1, <3>3, <3>4 DEF ManualInv, BackInv, Waiting, RestOf, Effective
  <2>3. CASE /\ save' = [save EXCEPT !.at = "write", !.next = Document(DefaultRest)]
             /\ misread' = misread \cup {"merge"}
    <3>1. /\ save.at = "merge" /\ save'.at = "write" /\ save'.prev = save.prev
          /\ misread' # {} /\ ("back" \in misread' <=> "back" \in misread)
          /\ UNCHANGED <<config, req, before, manual, rash>>
      BY <1>0, <1>7, <2>3 DEF Merge, Transaction
    <3> QED  BY <3>1 DEF ManualInv, BackInv, Waiting
  <2> QED  BY <1>7, <2>1, <2>2, <2>3 DEF Merge
<1>8. CASE WriteConfig
  <2>1. save.at = "write" /\ UNCHANGED <<req, before, manual, rash, misread>>
    BY <1>8 DEF WriteConfig
  <2>2. CASE config' = save.next /\ save' = [save EXCEPT !.at = "reload"]
    <3>1. save'.at = "reload" /\ save'.prev = save.prev  BY <1>0, <2>2 DEF Transaction
    <3>2. RestOf(config') = RestOf(save.next) /\ RestOf(save'.prev) = RestOf(save.prev)
      BY <2>2, <3>1
    <3> QED  BY <2>1, <3>1, <3>2 DEF ManualInv, BackInv, Waiting, RestOf, Effective
  <2>3. CASE save' = Ended("rejected") /\ UNCHANGED config
    <3>1. req'["save"] = Free  BY <2>1 DEF BackInv, Waiting
    <3> QED  BY <1>5, <2>1, <2>3, <3>1 DEF Outcomes
  <2> QED  BY <1>8, <2>2, <2>3 DEF WriteConfig
<1>9. CASE SaveAsks
  <2>1. save.at \in Waiting /\ UNCHANGED <<config, save, before, manual, rash, misread>>
    BY <1>9 DEF SaveAsks, Waiting
  <2> QED  BY <2>1 DEF ManualInv, BackInv, RestOf, Effective
<1>10. CASE SaveAnswered
  <2>1. req'["save"] = Free /\ UNCHANGED <<config, before, manual, rash, misread>>
    BY <1>10 DEF SaveAnswered, AskType, Clients
  <2>2. \/ \E o \in Outcomes : save' = Ended(o)
        \/ /\ save'.at \in {"opacity", "result", "restore"} /\ save'.prev = save.prev
           /\ save.at \in {"reload", "opacity"}
        \/ /\ save'.at = "opacity again" /\ save'.prev = save.prev
           /\ save.at = "reload again"
    <3>1. CASE save.at = "reload"
      BY <1>0, <1>10, <3>1 DEF SaveAnswered, AfterAnswer, Outcomes, Transaction
    <3>2. CASE save.at = "opacity"
      BY <1>0, <1>10, <3>2 DEF SaveAnswered, AfterAnswer, Outcomes, Transaction
    <3>3. CASE save.at = "reload again" /\ save.outcome = "opacity failed"
      BY <1>0, <1>10, <3>3 DEF SaveAnswered, AfterAnswer, Outcomes, Transaction
    <3>4. CASE /\ save.at \notin {"reload", "opacity"}
               /\ ~(save.at = "reload again" /\ save.outcome = "opacity failed")
      BY <1>10, <3>4 DEF SaveAnswered, AfterAnswer, Outcomes
    <3> QED  BY <3>1, <3>2, <3>3, <3>4
  <2>3. CASE \E o \in Outcomes : save' = Ended(o)
    BY <1>5, <2>1, <2>3
  <2>4. CASE /\ save'.at \in {"opacity", "result", "restore"} /\ save'.prev = save.prev
             /\ save.at \in {"reload", "opacity"}
    BY <2>1, <2>4 DEF ManualInv, BackInv, Waiting, RestOf, Effective
  <2>5. CASE /\ save'.at = "opacity again" /\ save'.prev = save.prev
             /\ save.at = "reload again"
    BY <2>1, <2>5 DEF ManualInv, BackInv, Waiting, RestOf, Effective
  <2> QED  BY <2>2, <2>3, <2>4, <2>5
<1>11. CASE Restore
  <2>1. save.at = "restore" /\ UNCHANGED <<req, before, manual, rash, misread>>
    BY <1>11 DEF Restore
  <2>2. req'["save"] = Free  BY <2>1 DEF BackInv, Waiting
  <2>3. CASE config' = save.prev /\ save' = [save EXCEPT !.at = "reload again"]
    <3>1. save'.at = "reload again" /\ save'.prev = save.prev
      BY <1>0, <2>3 DEF Transaction
    <3> QED  BY <2>1, <2>3, <3>1 DEF ManualInv, BackInv, Waiting, RestOf, Effective
  <2>4. CASE save' = Ended("stuck") /\ UNCHANGED config
    BY <1>5, <2>1, <2>2, <2>4 DEF Outcomes
  <2> QED  BY <1>11, <2>3, <2>4 DEF Restore
<1>14. CASE Report
  <2>1. save.at = "result" /\ UNCHANGED <<config, req, manual, rash, misread>>
    BY <1>14 DEF Report
  <2>2. req'["save"] = Free  BY <2>1 DEF BackInv, Waiting
  <2> QED  BY <1>5, <1>14, <2>1, <2>2 DEF Report, Outcomes
<1>12. CASE UNCHANGED vars
  BY <1>12, OthersKeep DEF vars
<1> QED
  BY <1>1, <1>2, <1>3, <1>4, <1>6, <1>7, <1>8, <1>9, <1>10, <1>11, <1>12, <1>13, <1>14
  DEF Next, Saving

\* A save that reads config.toml as a text both times keeps the user's part of it, in what
\* it writes and in what it puts back, whatever else fails and ends meanwhile.
THEOREM ManualKept == Spec => []ManualPartKept
<1>1. ManualInv => ManualPartKept  BY DEF ManualInv, ManualPartKept
<1> QED  BY <1>1, InitType, NextType, InitKeys, NextKeys, PTL DEF Spec

LEMMA UndoneStep ==
    /\ TypeOK /\ AskType /\ BackInv /\ [Next]_vars
    => [save.at # "idle" /\ Undone /\ ~rash /\ "back" \notin misread
          => config' = before.file]_vars
<1> SUFFICES ASSUME TypeOK, AskType, BackInv, Next, save.at # "idle", Undone, ~rash,
                    "back" \notin misread
             PROVE  config' = before.file
  OBVIOUS
<1>0. save \in Transaction  BY Parts DEF SaveType
<1>1. save' # save  BY DEF Undone
<1>2. Saving
  BY <1>1, ServeKeeps, ProcessKeeps DEF Next, Edit, BeginSave
<1>3. CASE SaveStatus  BY <1>0, <1>3 DEF SaveStatus, Undone, Transaction
<1>4. CASE Merge  BY <1>4 DEF Merge, BackInv
<1>9. CASE ReadPrevious  BY <1>0, <1>9 DEF ReadPrevious, Undone, Transaction
<1>10. CASE Report
  BY <1>0, <1>10 DEF Report, Undone, Transaction, Ended, NoSave
<1>5. CASE WriteConfig  BY <1>0, <1>5 DEF WriteConfig, BackInv, Undone, Transaction
<1>6. CASE SaveAsks  BY <1>1, <1>6 DEF SaveAsks
<1>7. CASE SaveAnswered
  <2>1. save.at \in Waiting /\ config' = config
    <3>1. req["save"].at = "answered" /\ config' = config  BY <1>7 DEF SaveAnswered
    <3>2. Free.at = "none"  BY DEF Free
    <3> QED  BY <3>1, <3>2 DEF BackInv
  <2>2. save.at \notin {"reload", "opacity"}
    <3>1. CASE save.at = "reload"
      BY <1>0, <1>7, <3>1 DEF SaveAnswered, AfterAnswer, Undone, Transaction
    <3>2. CASE save.at = "opacity"
      BY <1>0, <1>7, <3>2
      DEF SaveAnswered, AfterAnswer, Undone, Transaction, Ended, NoSave
    <3> QED  BY <3>1, <3>2
  <2> QED  BY <2>1, <2>2 DEF BackInv, Waiting
<1>8. CASE Restore
  BY <1>0, <1>8 DEF Restore, Undone, Transaction, Ended, NoSave
<1> QED  BY <1>2, <1>3, <1>4, <1>5, <1>6, <1>7, <1>8, <1>9, <1>10 DEF Saving

\* A save that ends because a write or a request failed leaves config.toml as it found it,
\* unless the file could not be read at first or not be put back, or somebody else has
\* written it meanwhile.
THEOREM SaveRollsBack == Spec => FailedSaveRestoresFile
<1>1. TypeOK /\ AskType /\ BackInv /\ [Next]_vars
        => [save.at # "idle" /\ Undone /\ ~rash /\ "back" \notin misread
              => config' = before.file]_vars
  BY UndoneStep
<1> QED
  BY <1>1, InitType, NextType, InitKeys, NextKeys, PTL DEF Spec, FailedSaveRestoresFile

-------------------------------------------------------------------------------
(* The rule and the policy *)

\* Unless requests overlap or a preset has failed half-way, one request at most sets
\* the opacity; it knows what the rule says as long as it may have to put it back,
\* and what the policy is when it is about to write the rule.
One    == \A t, u \in Clients : SetsOpacity(t) /\ SetsOpacity(u) => t = u
Nobody == \A t \in Clients : ~SetsOpacity(t)
RuleInv ==
    /\ ~skewed \/ ~overlap => One
    /\ ~skewed /\ overlap => Nobody
    /\ daemon.at # "up" => Nobody
    /\ ~overlap => \A t \in Clients :
         SetsOpacity(t) /\ req[t].at \in {"actions", "rule"} => daemon.opacity = req[t].arg
    /\ daemon.at = "up" /\ ~skewed =>
         /\ Nobody => rule = daemon.opacity
         /\ \A t \in Clients :
              SetsOpacity(t) /\ req[t].at \in {"sent", "old", "persist", "answer"}
                => rule = daemon.opacity
         /\ \A t \in Clients :
              SetsOpacity(t) /\ req[t].at \in {"old", "actions", "rule", "putback"}
                => req[t].old = rule

\* A step of a request to another place.
Moved(t, at) ==
    /\ req'[t].at = at /\ req'[t].op = req[t].op
    /\ req'[t].arg = req[t].arg /\ req'[t].old = req[t].old
    /\ \A u \in Clients \ {t} : req'[u] = req[u]

LEMMA Moves ==
    ASSUME AskType, NEW t \in Clients
    PROVE  /\ \A at : To(t, at) => Moved(t, at)
           /\ \A ok : Done(t, ok) => Moved(t, "persist")
<1>1. req[t] \in Request  BY DEF AskType, Asked
<1>2. ASSUME NEW at, To(t, at)  PROVE Moved(t, at)
  <2>1. req' = [req EXCEPT ![t] = [req[t] EXCEPT !.at = at]]
    BY <1>2 DEF To, AskType
  <2> QED  BY <1>1, <2>1 DEF AskType, Moved, Request
<1>3. ASSUME NEW ok, Done(t, ok)  PROVE Moved(t, "persist")
  <2>1. req' = [req EXCEPT ![t] = [req[t] EXCEPT !.at = "persist", !.ok = ok]]
    BY <1>3 DEF Done, AskType
  <2> QED  BY <1>1, <2>1 DEF AskType, Moved, Request
<1> QED  BY <1>2, <1>3

\* Steps that leave the opacity, the rule and the requests that set it alone.
LEMMA RuleStays ==
    ASSUME RuleInv, rule' = rule, skewed' = skewed, overlap' = overlap,
           daemon'.opacity = daemon.opacity,
           daemon'.at = "up" => daemon.at = "up",
           daemon'.at # "up" => Nobody',
           \A t \in Clients :
              SetsOpacity(t)' => /\ SetsOpacity(t)
                                /\ req'[t].at \in {req[t].at, "none"}
                                /\ req'[t].arg = req[t].arg /\ req'[t].old = req[t].old,
           \A t \in Clients :
              SetsOpacity(t) /\ ~SetsOpacity(t)' => daemon'.at # "up" \/ req[t].at = "answer"
    PROVE  RuleInv'
<1>1. (One => One') /\ (Nobody => Nobody')  BY DEF One, Nobody
<1>2. ASSUME daemon'.at = "up", ~skewed', Nobody'  PROVE rule' = daemon'.opacity
  <2>1. CASE Nobody  BY <1>2, <2>1 DEF RuleInv
  <2>2. CASE ~Nobody  BY <1>2, <2>2 DEF RuleInv, Nobody
  <2> QED  BY <2>1, <2>2
<1> QED  BY <1>1, <1>2 DEF RuleInv

LEMMA ServeRule ==
    ASSUME TypeOK, AskType, RuleInv, NEW t \in Clients, Serve(t)
    PROVE  RuleInv'
<1>0. req[t] \in Asked /\ daemon \in Engine /\ daemon.at = "up"
  BY Parts DEF AskType, DaemonType, Serve
<1>1. CASE SetOpacity(t)
  <2>1. Moved(t, "rule") /\ req[t].op = "opacity" /\ req[t].at = "old"
    BY <1>1, Moves DEF SetOpacity
  <2>2. /\ daemon'.at = "up" /\ daemon'.opacity = req[t].arg
        /\ UNCHANGED <<rule, overlap, skewed>>
    BY <1>0, <1>1 DEF SetOpacity, Policy, Engine
  <2> QED
    BY <1>0, <2>1, <2>2 DEF RuleInv, One, Nobody, SetsOpacity, Moved
<1>2. CASE ReadOld(t)
  <2>1. /\ req[t].op \in {"opacity", "preset"} /\ req[t].at = "sent"
        /\ req' = [req EXCEPT ![t] = [req[t] EXCEPT !.at = "old", !.old = daemon.opacity]]
        /\ UNCHANGED <<daemon, rule, overlap, skewed>>
    BY <1>2 DEF ReadOld, AskType
  <2>2. /\ req'[t].op = req[t].op /\ req'[t].at = "old" /\ req'[t].old = daemon.opacity
        /\ \A u \in Clients \ {t} : req'[u] = req[u]
    BY <1>0, <2>1 DEF AskType, Asked, Request
  <2> QED
    BY <1>0, <2>1, <2>2 DEF RuleInv, One, Nobody, SetsOpacity
<1>3. CASE ApplyPreset(t)
  <2>1. /\ req[t].op = "preset" /\ req[t].at = "old" /\ UNCHANGED <<rule, overlap, skewed>>
    BY <1>3 DEF ApplyPreset
  <2>2. CASE daemon' = Policy(req[t].arg) /\ To(t, "actions")
    <3>1. Moved(t, "actions") /\ daemon'.at = "up" /\ daemon'.opacity = req[t].arg
      BY <1>0, <2>2, Moves DEF Policy, Engine
    <3> QED  BY <1>0, <2>1, <3>1 DEF RuleInv, One, Nobody, SetsOpacity, Moved
  <2>3. CASE /\ req' = [req EXCEPT ![t].at = "actions", ![t].arg = daemon.opacity]
             /\ UNCHANGED daemon
    <3>1. req' = [req EXCEPT ![t] = [req[t] EXCEPT !.at = "actions", !.arg = daemon.opacity]]
      BY <2>3 DEF AskType
    <3>2. /\ req'[t].op = req[t].op /\ req'[t].at = "actions"
          /\ req'[t].arg = daemon.opacity /\ req'[t].old = req[t].old
          /\ \A u \in Clients \ {t} : req'[u] = req[u]
      BY <1>0, <3>1 DEF AskType, Asked, Request
    <3>3. \A u \in Clients : SetsOpacity(u)' <=> SetsOpacity(u)
      BY <2>1, <3>2 DEF SetsOpacity
    <3>4. SetsOpacity(t)  BY <2>1 DEF SetsOpacity
    <3> QED  BY <1>0, <2>1, <2>3, <3>2, <3>3, <3>4 DEF RuleInv, One, Nobody
  <2>4. CASE Done(t, FALSE) /\ UNCHANGED daemon
    <3>1. Moved(t, "persist")  BY <2>4, Moves
    <3> QED  BY <1>0, <2>1, <2>4, <3>1 DEF RuleInv, One, Nobody, SetsOpacity, Moved
  <2> QED  BY <1>3, <2>2, <2>3, <2>4 DEF ApplyPreset
<1>4. CASE PresetActions(t)
  <2>1. /\ req[t].at = "actions" /\ SetsOpacity(t) /\ UNCHANGED <<daemon, rule, overlap>>
    BY <1>0, <1>4 DEF PresetActions, Asked, Fits, Sets, SetsOpacity
  <2>2. CASE To(t, "rule") /\ UNCHANGED skewed
    <3>1. Moved(t, "rule")  BY <2>2, Moves
    <3> QED  BY <1>0, <2>1, <2>2, <3>1 DEF RuleInv, One, Nobody, SetsOpacity, Moved
  <2>3. CASE Done(t, FALSE) /\ skewed' = TRUE
    <3>1. Moved(t, "persist")  BY <2>3, Moves
    <3> QED  BY <1>0, <2>1, <2>3, <3>1 DEF RuleInv, One, Nobody, SetsOpacity, Moved
  <2> QED  BY <1>4, <2>2, <2>3 DEF PresetActions
<1>5. CASE WriteRule(t)
  <2>1. /\ req[t].at = "rule" /\ SetsOpacity(t) /\ UNCHANGED <<daemon, overlap>>
    BY <1>0, <1>5 DEF WriteRule, Asked, Fits, Sets, SetsOpacity
  <2>2. CASE rule' = req[t].arg /\ Done(t, TRUE) /\ skewed' = (skewed /\ overlap)
    <3>1. Moved(t, "persist")  BY <2>2, Moves
    <3>2. CASE overlap
      BY <1>0, <2>1, <2>2, <3>1, <3>2 DEF RuleInv, One, Nobody, SetsOpacity, Moved
    <3>3. CASE ~overlap
      <4>1. rule' = daemon'.opacity /\ One /\ skewed' = FALSE
        BY <2>1, <2>2, <3>3 DEF RuleInv
      <4> QED
        BY <1>0, <2>1, <3>1, <3>3, <4>1 DEF RuleInv, One, Nobody, SetsOpacity, Moved
    <3> QED  BY <3>2, <3>3
  <2>3. CASE To(t, "putback") /\ UNCHANGED <<rule, skewed>>
    <3>1. Moved(t, "putback")  BY <2>3, Moves
    <3> QED  BY <1>0, <2>1, <2>3, <3>1 DEF RuleInv, One, Nobody, SetsOpacity, Moved
  <2> QED  BY <1>5, <2>2, <2>3 DEF WriteRule
<1>6. CASE RuleFailed(t)
  <2>1. /\ req[t].at = "putback" /\ SetsOpacity(t) /\ UNCHANGED <<rule, overlap, skewed>>
    BY <1>0, <1>6 DEF RuleFailed, Asked, Fits, Sets, SetsOpacity
  <2>2. Moved(t, "persist")  BY <1>6, Moves DEF RuleFailed
  <2>3. daemon'.at = "up" /\ daemon'.opacity = req[t].old
    BY <1>0, <1>6 DEF RuleFailed, PutBack, Policy, Engine
  <2> QED  BY <1>0, <2>1, <2>2, <2>3 DEF RuleInv, One, Nobody, SetsOpacity, Moved
<1>7. CASE Persist(t)
  <2>1. /\ req[t].at = "persist" /\ UNCHANGED <<rule, overlap, skewed>>
        /\ daemon'.at = "up" /\ daemon'.opacity = daemon.opacity
    BY <1>0, <1>7 DEF Persist, Persisting, Engine
  <2>2. Moved(t, "answer")  BY <1>7, Moves DEF Persist
  <2> QED  BY <1>0, <2>1, <2>2 DEF RuleInv, One, Nobody, SetsOpacity, Moved
<1>8. CASE Answer(t)
  <2>1. /\ req[t].at = "answer" /\ UNCHANGED <<daemon, rule, overlap, skewed>>
        /\ \E ok : Answered(t, ok)
    BY <1>8 DEF Answer
  <2>2. /\ req'[t].op = "none" \/ req'[t].at = "answered"
        /\ \A u \in Clients \ {t} : req'[u] = req[u]
    BY <1>0, <2>1 DEF Answered, AskType, Asked, Request, Free
  <2> QED  BY <1>0, <2>1, <2>2, RuleStays DEF SetsOpacity, Clients
<1>9. CASE LoadConfig(t) \/ ReplaceConfig(t) \/ SetEnabled(t)
  <2>1. /\ req[t].op \in {"reload", "enable"} /\ UNCHANGED <<rule, overlap, skewed>>
        /\ daemon'.at = "up" /\ daemon'.opacity = daemon.opacity
    BY <1>0, <1>9 DEF LoadConfig, ReplaceConfig, SetEnabled, Replaced, Engine
  <2>2. req'[t].op = req[t].op /\ \A u \in Clients \ {t} : req'[u] = req[u]
    <3>1. CASE req' = [req EXCEPT ![t].at = "loaded", ![t].cfg = Effective(config)]
      <4>1. req' = [req EXCEPT ![t] =
                      [req[t] EXCEPT !.at = "loaded", !.cfg = Effective(config)]]
        BY <3>1 DEF AskType
      <4> QED  BY <1>0, <4>1 DEF AskType, Asked, Request
    <3>2. CASE \E ok : Done(t, ok)
      BY <3>2, Moves DEF Moved
    <3> QED  BY <1>9, <3>1, <3>2 DEF LoadConfig, ReplaceConfig, SetEnabled
  <2> QED  BY <1>0, <2>1, <2>2, RuleStays DEF SetsOpacity, Clients
<1> QED  BY <1>1, <1>2, <1>3, <1>4, <1>5, <1>6, <1>7, <1>8, <1>9 DEF Serve

LEMMA SentRule ==
    ASSUME TypeOK, AskType, RuleInv, NEW t \in Clients, NEW op \in Ops, NEW arg,
           req[t].op = "none", Sent(t, op, arg), UNCHANGED <<daemon, rule>>
    PROVE  RuleInv'
<1>0. skewed \in BOOLEAN  BY Parts DEF HistoryType
<1>1. /\ req'[t].op = op /\ req'[t].at = "sent"
      /\ \A u \in Clients \ {t} : req'[u] = req[u]
  BY DEF Sent, AskType, Free
<1>2. ~SetsOpacity(t)  BY DEF SetsOpacity
<1>3. CASE op \notin {"opacity", "preset"}
  <2>1. UNCHANGED <<overlap, skewed>>
    <3>1. skewed' = (skewed \/ FALSE) /\ overlap' = overlap  BY <1>3 DEF Sent
    <3> QED  BY <1>0, <3>1
  <2>2. \A u \in Clients : SetsOpacity(u)' <=> SetsOpacity(u)
    BY <1>1, <1>2, <1>3 DEF SetsOpacity
  <2> QED  BY <1>1, <1>2, <2>1, <2>2, RuleStays DEF RuleInv, Nobody
<1>4. CASE op \in {"opacity", "preset"} /\ \E u \in Clients \ {t} : SetsOpacity(u)
  <2>1. overlap' /\ skewed'  BY <1>4 DEF Sent
  <2>2. daemon'.at = "up"  BY DEF Sent
  <2> QED  BY <2>1, <2>2 DEF RuleInv
<1>5. CASE op \in {"opacity", "preset"} /\ ~\E u \in Clients \ {t} : SetsOpacity(u)
  <2>1. Nobody  BY <1>2, <1>5 DEF Nobody
  <2>2. ~overlap' /\ skewed' = skewed /\ daemon'.at = "up"
    <3>1. overlap' = FALSE /\ skewed' = (skewed \/ FALSE) /\ daemon'.at = "up"
      BY <1>5 DEF Sent
    <3> QED  BY <1>0, <3>1
  <2>3. \A u \in Clients \ {t} : ~SetsOpacity(u)'  BY <1>1, <2>1 DEF Nobody, SetsOpacity
  <2> QED  BY <1>1, <2>1, <2>2, <2>3 DEF RuleInv, One, Nobody
<1> QED  BY <1>3, <1>4, <1>5

LEMMA NextRule == TypeOK /\ AskType /\ RuleInv /\ [Next]_vars => RuleInv'
<1> SUFFICES ASSUME TypeOK, AskType, RuleInv, [Next]_vars PROVE RuleInv'  OBVIOUS
<1>0. daemon \in Engine  BY Parts DEF DaemonType
<1>1. CASE \E t \in Clients : Serve(t)
  BY <1>1, ServeRule
<1>2. CASE Tick
  BY <1>0, <1>2, RuleStays DEF Tick, Persisting, Engine, RuleInv, SetsOpacity, Nobody
<1>3. CASE Crash \/ Stop
  <2>1. Gone /\ UNCHANGED <<rule, overlap, skewed>>  BY <1>3 DEF Crash, Stop
  <2>2. daemon'.at = "down" /\ daemon'.opacity = daemon.opacity
    BY <1>0, <2>1 DEF Gone, Engine
  <2>3. Nobody'
    BY <2>1, FreeType DEF Gone, Nobody, SetsOpacity, AskType, Asked, Request, Free
  <2> QED  BY <2>1, <2>2, <2>3 DEF RuleInv, One, Nobody
<1>4. CASE Start
  <2>1. UNCHANGED <<req, rule, overlap, skewed>> /\ daemon'.at = "starting"
    BY <1>4 DEF Start, history
  <2>2. Nobody /\ Nobody'
    BY <1>4, <2>1 DEF Start, RuleInv, Nobody, SetsOpacity
  <2> QED  BY <2>1, <2>2 DEF RuleInv, One, Nobody
<1>5. CASE Serving
  <2>1. Nobody /\ Nobody'  BY <1>5 DEF Serving, RuleInv, Nobody, SetsOpacity
  <2>2. daemon'.at = "up" => rule' = daemon'.opacity
    BY <1>0, <1>5 DEF Serving, Engine
  <2> QED  BY <2>1, <2>2 DEF RuleInv, One, Nobody
<1>6. CASE Ask
  <2>1. PICK r \in Requests : Sent("cli", r[1], r[2])  BY <1>6 DEF Ask
  <2>2. r[1] \in Ops  BY DEF Requests, Ops
  <2> QED  BY <1>6, <2>1, <2>2, SentRule DEF Ask, Clients
<1>7. CASE SaveAsks
  <2>1. PICK op \in {"reload", "opacity"}, arg \in Policies :
          Sent("save", op, arg) \/ NotSent("save", op, arg)
    BY <1>7 DEF SaveAsks
  <2>2. req["save"].op = "none" /\ UNCHANGED <<daemon, rule>> /\ op \in Ops
    BY <1>7 DEF SaveAsks, Ops
  <2>3. CASE Sent("save", op, arg)
    BY <2>2, <2>3, SentRule DEF Clients
  <2>4. CASE NotSent("save", op, arg)
    <3>1. /\ req'["save"].at = "answered" /\ UNCHANGED <<overlap, skewed>>
          /\ \A u \in Clients \ {"save"} : req'[u] = req[u]
      BY <2>4 DEF NotSent, AskType, Free, Clients
    <3> QED  BY <2>2, <3>1, RuleStays DEF SetsOpacity, RuleInv, Nobody
  <2> QED  BY <2>1, <2>3, <2>4
<1>8. CASE SaveAnswered
  <2>1. /\ req'["save"].op = "none" /\ UNCHANGED <<daemon, rule, overlap, skewed>>
        /\ \A u \in Clients \ {"save"} : req'[u] = req[u]
        /\ req["save"].at = "answered"
    BY <1>8 DEF SaveAnswered, AskType, Free, Clients
  <2>2. \A u \in Clients : SetsOpacity(u)' <=> SetsOpacity(u)
    BY <2>1 DEF SetsOpacity
  <2>3. ~SetsOpacity("save")  BY <2>1 DEF SetsOpacity
  <2> QED  BY <2>1, <2>2, <2>3, RuleStays DEF RuleInv, Nobody
<1>9. CASE Edit \/ BeginSave \/ ReadPrevious \/ SaveStatus \/ Merge \/ WriteConfig \/ Restore
             \/ Report \/ UNCHANGED vars
  <2>1. UNCHANGED <<req, daemon, rule, overlap, skewed>>
    BY <1>9 DEF Edit, BeginSave, ReadPrevious, SaveStatus, Merge, WriteConfig, Restore, Report,
       vars
  <2> QED  BY <2>1 DEF RuleInv, One, Nobody, SetsOpacity
<1> QED
  BY <1>1, <1>2, <1>3, <1>4, <1>5, <1>6, <1>7, <1>8, <1>9 DEF Next, Saving

\* Whenever no request that sets the opacity is under way, Niri's rule is the engine's
\* policy, over writes that fail, requests that fail half-way and restarts in between,
\* unless requests have overlapped or the actions of a preset have failed.
THEOREM RuleFollowsPolicy == Spec => []RuleIsPolicy
<1>1. Init => RuleInv
  BY DEF Init, RuleInv, One, Nobody, SetsOpacity, Free
<1>2. RuleInv => RuleIsPolicy
  BY DEF RuleInv, Nobody, RuleIsPolicy
<1> QED  BY <1>1, <1>2, InitType, NextType, NextRule, PTL DEF Spec
-------------------------------------------------------------------------------
(* What a save leaves in the daemon *)

R == req["save"]
Over(outcome) == save.at = "idle" /\ save.outcome = outcome

\* The save has failed to read what it would put back.
Lost == "back" \in misread

\* Something has gone wrong, that read apart; more than one thing has, or the file was
\* one the daemon rejects; the opacity request has failed, which is one, and the opacity
\* before it was not known, which was another.
Amiss  == troubles >= 1 /\ (Lost => troubles >= 2)
Harmed == troubles >= 2 \/ before.file \in Rejected
Failed == Amiss /\ (save.prevOpacity = before.opacity \/ Harmed)

\* As long as nobody else interferes, the save's own request is the only one, to a
\* daemon that is there all the time, ...
RequestInv ==
    /\ req["cli"] = Free
    /\ save.at # "idle" =>
         daemon.at = "up" /\ (mismatch => Amiss) /\ (Lost => troubles >= 1)
    /\ R.at \notin {"rule", "putback", "persist"} => stored = daemon.opacity
    /\ stored = daemon.opacity \/ daemon.dirty
    /\ R.at # "actions"
    /\ R # Free =>
         /\ save.at \in {"reload", "reload again"} => R.op = "reload"
         /\ save.at = "opacity" => R.op = "opacity" /\ R.arg = save.opacity
         /\ save.at = "opacity again" => R.op = "opacity" /\ R.arg = save.prevOpacity

\* ... config.toml is the former one or the merged one, ...
FileInv ==
    /\ save.at # "idle" => ~rash
    /\ save.at \in {"read", "status", "merge", "write"} \/ Over("rejected") =>
         config = before.file
    /\ save.at \in {"reload again", "opacity again"} \/ Over("undone") =>
         config = before.file \/ Lost
    /\ save.at = "write" => save.next \in Config /\ save.next.ui = save.ui
    /\ \/ save.at \in {"reload", "opacity", "result", "restore"}
       \/ Over("saved") \/ Over("unread")
       => config \in Config /\ config.ui = save.ui

\* ... the engine runs one of the two, the one that fits where the save and its request
\* are, ...
RunInv ==
    /\ save.at \in {"read", "status", "merge", "write"} => daemon.run = before.run
    /\ save.at = "reload" =>
         /\ R.at = "loaded" => R.cfg = config
         /\ R.at \in {"persist", "answer"} => IF R.ok THEN daemon.run = config ELSE Amiss
         /\ R.at = "answered" => IF R.ok THEN daemon.run = config /\ ~mismatch ELSE Amiss
    /\ save.at = "opacity" => daemon.run = config /\ ~mismatch
    /\ save.at = "reload again" =>
         /\ R.at = "loaded" => Harmed \/ R.cfg = Effective(before.file)
         /\ R.at \in {"persist", "answer", "answered"} =>
              Harmed \/ daemon.run = Effective(before.file)
    /\ save.at = "opacity again" \/ Over("undone") =>
         Harmed \/ (daemon.run = Effective(before.file) /\ ~Lost)
    /\ Over("rejected") => daemon.run \in {before.run, Effective(before.file)}
    /\ save.at = "result" \/ Over("saved") \/ Over("unread") => daemon.run = config

\* ... and so for the opacity, in the engine and in the rule.
OpacityInv ==
    /\ \/ save.at \in {"read", "status", "merge", "write", "reload"} \/ Over("rejected")
       \/ save.at \in {"restore", "reload again"} /\ save.outcome = "reload failed"
       => daemon.opacity = before.opacity
    /\ save.at \notin {"idle", "read", "status"} =>
         save.prevOpacity = before.opacity \/ Amiss
    /\ save.at \in {"restore", "reload again"} =>
         /\ save.outcome \in {"reload failed", "opacity failed"} /\ Amiss
         /\ save.outcome = "opacity failed" => Failed
    /\ save.at = "opacity" =>
         /\ R.at \in {"none", "sent", "old"} => daemon.opacity = before.opacity
         /\ R.at \in {"old", "rule", "putback"} => R.old = before.opacity
         /\ R.at = "rule" => daemon.opacity = save.opacity
         /\ R.at = "putback" => Failed
         /\ R.at \in {"persist", "answer", "answered"} =>
              IF R.ok THEN daemon.opacity = save.opacity /\ rule = save.opacity ELSE Failed
    /\ save.at = "opacity again" =>
         /\ Failed
         /\ R.at = "rule" => daemon.opacity = save.prevOpacity
         /\ R.at = "putback" => Harmed
         /\ R.at \in {"persist", "answer", "answered"} =>
              Harmed \/ daemon.opacity = save.prevOpacity
    /\ Over("undone") => Harmed \/ daemon.opacity = before.opacity
    /\ save.at = "result" \/ Over("saved") \/ Over("unread") =>
         daemon.opacity = save.opacity /\ rule = save.opacity

CliInv == req["cli"].op = "none" => req["cli"] = Free
QuietInv == quiet => RequestInv /\ FileInv /\ RunInv /\ OpacityInv

\* What a step of the save's request leaves alone, and where the request goes.
Asking(at) ==
    /\ UNCHANGED <<config, save, before, mismatch, rash, misread>>
    /\ R'.at = at /\ R'.op = R.op /\ R'.arg = R.arg
    /\ daemon'.at = "up" /\ req'["cli"] = Free
    /\ save.at \in Waiting /\ R # Free

\* A step of the save's own request.
LEMMA Steps1 ==
    ASSUME AskType
    PROVE  /\ \A at : To("save", at) =>
                 /\ R'.at = at /\ R'.op = R.op /\ R'.arg = R.arg /\ R'.old = R.old
                 /\ R'.ok = R.ok /\ req'["cli"] = req["cli"]
           /\ \A ok : Done("save", ok) =>
                 /\ R'.at = "persist" /\ R'.op = R.op /\ R'.arg = R.arg /\ R'.ok = ok
                 /\ R'.old = R.old /\ req'["cli"] = req["cli"]
           /\ \A ok : Answered("save", ok) =>
                 /\ R'.at = "answered" /\ R'.op = R.op /\ R'.arg = R.arg /\ R'.ok = ok
                 /\ req'["cli"] = req["cli"]
<1> USE DEF R, Clients
<1>1. R \in Request /\ "save" # "cli"  BY DEF AskType, Asked
<1>2. ASSUME NEW at, To("save", at)
      PROVE  /\ R'.at = at /\ R'.op = R.op /\ R'.arg = R.arg /\ R'.old = R.old
             /\ R'.ok = R.ok /\ req'["cli"] = req["cli"]
  <2>1. req' = [req EXCEPT !["save"] = [R EXCEPT !.at = at]]
    BY <1>2 DEF To, AskType
  <2> QED  BY <1>1, <2>1 DEF AskType, Request
<1>3. ASSUME NEW ok, Done("save", ok)
      PROVE  /\ R'.at = "persist" /\ R'.op = R.op /\ R'.arg = R.arg /\ R'.ok = ok
             /\ R'.old = R.old /\ req'["cli"] = req["cli"]
  <2>1. req' = [req EXCEPT !["save"] = [R EXCEPT !.at = "persist", !.ok = ok]]
    BY <1>3 DEF Done, AskType
  <2> QED  BY <1>1, <2>1 DEF AskType, Request
<1>4. ASSUME NEW ok, Answered("save", ok)
      PROVE  /\ R'.at = "answered" /\ R'.op = R.op /\ R'.arg = R.arg /\ R'.ok = ok
             /\ req'["cli"] = req["cli"]
  <2>1. req' = [req EXCEPT !["save"] = [R EXCEPT !.at = "answered", !.ok = ok]]
    BY <1>1, <1>4 DEF Answered, AskType
  <2> QED  BY <1>1, <2>1 DEF AskType, Request
<1> QED  BY <1>2, <1>3, <1>4

\* set_opacity_override_percent leaves a mark whenever the policy is not the stored one.
LEMMA PolicyMarks ==
    ASSUME TypeOK, NEW p, daemon' = Policy(p)
    PROVE  /\ daemon'.run = daemon.run /\ daemon'.at = daemon.at /\ daemon'.opacity = p
           /\ stored = daemon.opacity \/ daemon.dirty => stored = p \/ daemon'.dirty
<1>1. daemon \in Engine  BY Parts DEF DaemonType
<1>2. PICK b \in BOOLEAN : b = (daemon.dirty \/ p # daemon.opacity)  BY Zenon
<1>3. daemon' = [daemon EXCEPT !.opacity = p, !.dirty = b]  BY <1>2 DEF Policy
<1> QED  BY <1>1, <1>2, <1>3 DEF Engine

\* The invariants of the next state, where the file has not changed.
LEMMA Follows ==
    /\ FileInv /\ UNCHANGED <<config, save, before, rash, misread>> => FileInv'
    /\ RequestInv' /\ FileInv' /\ RunInv' /\ OpacityInv' => QuietInv'
<1>1. ASSUME FileInv, UNCHANGED <<config, save, before, rash, misread>>  PROVE FileInv'
  <2>1. \A o : Over(o)' <=> Over(o)  BY <1>1 DEF Over
  <2>2. Lost' = Lost  BY <1>1 DEF Lost
  <2> QED  BY <1>1, <2>1, <2>2 DEF FileInv
<1> QED  BY <1>1 DEF QuietInv

LEMMA CliIdle ==
    ASSUME NEW t \in Clients, Serve(t), req["cli"] = Free
    PROVE  t = "save"
<1> SUFFICES ASSUME t = "cli" PROVE FALSE  BY DEF Clients
<1>1. req[t].op = "none" /\ req[t].at = "none"  BY DEF Free
<1> QED
  BY <1>1 DEF Serve, LoadConfig, ReplaceConfig, SetEnabled, ReadOld, SetOpacity,
     ApplyPreset, PresetActions, WriteRule, RuleFailed, Persist, Answer

LEMMA FaultCounts ==
    ASSUME TypeOK, save.at # "idle", Fault, UNCHANGED before, Lost' => troubles >= 1
    PROVE  Amiss' /\ (troubles >= 1 => Harmed') /\ (Harmed => Harmed')
<1>1. troubles \in Nat  BY Parts DEF TroublesType
<1>2. troubles' = troubles + 1  BY DEF Fault
<1> QED  BY <1>1, <1>2 DEF Harmed, Amiss

LEMMA ServeQuiet ==
    ASSUME TypeOK, AskType, BackInv, QuietInv, NEW t \in Clients, Serve(t), quiet'
    PROVE  QuietInv'
<1>0. /\ daemon \in Engine /\ R \in Asked /\ troubles \in Nat /\ save \in Transaction
      /\ daemon.at = "up" /\ rule \in Policies /\ config \in Contents
  BY Parts
  DEF DaemonType, AskType, TroublesType, SaveType, Serve, R, Clients, OpacityType, ConfigType
<1>1. quiet
  BY DEF Serve, LoadConfig, ReplaceConfig, SetEnabled, ReadOld, SetOpacity, ApplyPreset,
         PresetActions, WriteRule, RuleFailed, Persist, Persisting, Answer
<1>2. req["cli"] = Free /\ t = "save" /\ RequestInv /\ FileInv /\ RunInv /\ OpacityInv
  BY <1>1, CliIdle DEF QuietInv, RequestInv
<1>3. Free.op = "none" /\ Free.at = "none"  BY DEF Free
<1>4. Serve("save") /\ save.at \in Waiting /\ R # Free
  <2>1. R # Free
    BY <1>2, <1>3 DEF R, Serve, LoadConfig, ReplaceConfig, SetEnabled, ReadOld, SetOpacity,
       ApplyPreset, PresetActions, WriteRule, RuleFailed, Persist, Answer
  <2> QED  BY <1>2, <2>1 DEF BackInv, R
<1>5. UNCHANGED <<config, save, before, mismatch, rash, misread>>
  BY <1>4 DEF Serve, LoadConfig, ReplaceConfig, SetEnabled, ReadOld, SetOpacity, ApplyPreset,
     PresetActions, WriteRule, RuleFailed, Persist, Answer
<1>6. UNCHANGED <<rule, stored, skewed>> \/ WriteRule("save") \/ Persist("save")
         \/ PresetActions("save")
  BY <1>4 DEF Serve, LoadConfig, ReplaceConfig, SetEnabled, ReadOld, SetOpacity, ApplyPreset,
     RuleFailed, Answer
<1>7. R.op \notin {"enable", "preset", "none"}
  BY <1>2, <1>4 DEF RequestInv, Waiting
<1>8. troubles \in Nat  BY <1>0
<1>9. /\ Lost' = Lost
      /\ Fault => /\ Amiss' /\ (troubles >= 1 => Harmed') /\ (Harmed => Harmed')
                  /\ (Amiss => Amiss') /\ (Failed => Failed') /\ troubles' >= 1
                  /\ (Amiss => Harmed')
  <2>1. Lost' = Lost /\ (Lost => troubles >= 1) /\ save.at # "idle"
    BY <1>2, <1>4, <1>5 DEF Lost, RequestInv, Waiting
  <2>2. Fault => Amiss' /\ (troubles >= 1 => Harmed') /\ (Harmed => Harmed')
    BY <1>5, <2>1, FaultCounts
  <2> QED  BY <1>5, <2>1, <2>2 DEF Amiss, Failed
<1> USE DEF R
<1>11. CASE LoadConfig("save")
  <2>1. /\ R.op = "reload" /\ R.at = "sent" /\ save.at \in {"reload", "reload again"}
        /\ UNCHANGED <<rule, stored, daemon>>
    BY <1>2, <1>4, <1>11 DEF LoadConfig, RequestInv, Waiting
  <2>2. /\ save.at = "reload" => config \in Config /\ config = Effective(config)
        /\ save.at = "reload again" => troubles >= 1 /\ (config = before.file \/ Harmed)
    BY <1>2, Kinds DEF FileInv, OpacityInv, Effective, Amiss, Harmed
  <2>3. CASE /\ config \notin Rejected /\ NoFault
             /\ req' = [req EXCEPT !["save"].at = "loaded", !["save"].cfg = Effective(config)]
    <3>1. req' = [req EXCEPT !["save"] =
                    [R EXCEPT !.at = "loaded", !.cfg = Effective(config)]]
      BY <2>3 DEF AskType
    <3>2. Asking("loaded") /\ R'.cfg = Effective(config)
      BY <1>0, <1>2, <1>4, <1>5, <2>1, <3>1 DEF Asking, AskType, Clients, Asked, Request
    <3>3. troubles' = troubles  BY <2>3 DEF NoFault
    <3> QED
      BY <1>2, <2>1, <2>2, <3>2, <3>3, Follows
      DEF RequestInv, FileInv, RunInv, OpacityInv, Asking, Over, Harmed, Failed, Amiss, Lost
  <2>4. CASE config \in Rejected /\ Done("save", FALSE) /\ NoFault
    <3>1. Asking("persist") /\ R'.ok = FALSE
      BY <1>0, <1>2, <1>4, <1>5, <2>1, <2>4, Steps1 DEF Asking
    <3>4. troubles' = troubles  BY <2>4 DEF NoFault
    <3>2. save.at = "reload again" /\ Harmed
      BY <2>1, <2>2, <2>4, Kinds DEF Harmed
    <3> QED
      BY <1>2, <2>1, <3>1, <3>2, <3>4, Follows
      DEF RequestInv, RunInv, OpacityInv, Asking, Over, Harmed, Failed, Amiss, Lost
  <2>5. CASE Done("save", FALSE) /\ Fault
    <3>1. Asking("persist") /\ R'.ok = FALSE
      BY <1>0, <1>2, <1>4, <1>5, <2>1, <2>5, Steps1 DEF Asking
    <3>2. RequestInv' /\ FileInv'
      BY <1>2, <1>9, <2>1, <2>5, <3>1, Follows DEF RequestInv, Asking, Waiting
    <3>3. RunInv'  BY <1>2, <1>9, <2>1, <2>2, <2>5, <3>1 DEF RunInv, Asking, Over, Waiting
    <3>4. OpacityInv'
      BY <1>2, <1>9, <2>1, <2>5, <3>1 DEF OpacityInv, Asking, Over, Waiting
    <3> QED  BY <3>2, <3>3, <3>4, Follows
  <2> QED  BY <1>11, <2>3, <2>4, <2>5 DEF LoadConfig
<1>12. CASE ReplaceConfig("save")
  <2>1. /\ R.op = "reload" /\ R.at = "loaded" /\ save.at \in {"reload", "reload again"}
        /\ UNCHANGED <<rule, stored, troubles>>
        /\ daemon' = Replaced(R.cfg) /\ Done("save", TRUE)
    BY <1>2, <1>4, <1>12 DEF ReplaceConfig, NoFault, RequestInv, Waiting
  <2>2. /\ daemon'.run = R.cfg /\ daemon'.at = "up"
        /\ daemon'.opacity = daemon.opacity /\ daemon'.dirty = daemon.dirty
    BY <1>0, <2>1 DEF Replaced, Engine
  <2>3. Asking("persist") /\ R'.ok = TRUE
    BY <1>2, <1>4, <1>5, <2>1, <2>2, Steps1 DEF Asking
  <2> QED
    BY <1>2, <2>1, <2>2, <2>3, Follows
    DEF RequestInv, RunInv, OpacityInv, Asking, Over, Harmed, Failed, Amiss, Lost
<1>13. CASE ReadOld("save")
  <2>1. /\ R.at = "sent" /\ R.op = "opacity" /\ save.at \in {"opacity", "opacity again"}
        /\ UNCHANGED <<rule, stored, daemon, troubles>>
    BY <1>2, <1>4, <1>7, <1>13 DEF ReadOld, NoFault, RequestInv, Waiting
  <2>2. req' = [req EXCEPT !["save"] = [R EXCEPT !.at = "old", !.old = daemon.opacity]]
    BY <1>13 DEF ReadOld, AskType
  <2>3. Asking("old") /\ R'.old = daemon.opacity
    BY <1>0, <1>2, <1>4, <1>5, <2>1, <2>2 DEF Asking, AskType, Clients, Asked, Request
  <2> QED
    BY <1>2, <2>1, <2>3, Follows
    DEF RequestInv, RunInv, OpacityInv, Asking, Over, Harmed, Failed, Amiss, Lost
<1>14. CASE SetOpacity("save")
  <2>1. /\ R.at = "old" /\ R.op = "opacity" /\ save.at \in {"opacity", "opacity again"}
        /\ UNCHANGED <<rule, stored, troubles>>
        /\ daemon' = Policy(R.arg) /\ To("save", "rule")
    BY <1>2, <1>4, <1>14 DEF SetOpacity, NoFault, RequestInv, Waiting
  <2>2. /\ daemon'.run = daemon.run /\ daemon'.at = "up" /\ daemon'.opacity = R.arg
        /\ stored = daemon'.opacity \/ daemon'.dirty
    BY <1>0, <1>2, <2>1, PolicyMarks DEF RequestInv
  <2>3. Asking("rule") /\ R'.old = R.old
    BY <1>2, <1>4, <1>5, <2>1, <2>2, Steps1 DEF Asking
  <2> QED
    BY <1>2, <1>4, <2>1, <2>2, <2>3, Follows
    DEF RequestInv, RunInv, OpacityInv, Asking, Over, Harmed, Failed, Amiss, Lost
<1>15. CASE WriteRule("save")
  <2>1. /\ R.at = "rule" /\ R.op = "opacity" /\ save.at \in {"opacity", "opacity again"}
        /\ UNCHANGED <<daemon, stored>>
    <3>1. R.op \in {"opacity", "preset"}
      BY <1>0, <1>15 DEF WriteRule, Asked, Fits, Sets
    <3> QED  BY <1>2, <1>4, <1>7, <1>15, <3>1 DEF WriteRule, RequestInv, Waiting
  <2>2. CASE rule' = R.arg /\ Done("save", TRUE) /\ NoFault
    <3>1. Asking("persist") /\ R'.ok = TRUE /\ troubles' = troubles
      BY <1>0, <1>2, <1>4, <1>5, <2>1, <2>2, Steps1 DEF Asking, NoFault
    <3> QED
      BY <1>2, <1>4, <2>1, <2>2, <3>1, Follows
      DEF RequestInv, RunInv, OpacityInv, Asking, Over, Harmed, Failed, Amiss, Lost
  <2>3. CASE To("save", "putback") /\ Fault /\ UNCHANGED rule
    <3>5. Asking("putback") /\ R'.old = R.old
      BY <1>0, <1>2, <1>4, <1>5, <2>1, <2>3, Steps1 DEF Asking
    <3>2. RequestInv' /\ FileInv'
      BY <1>2, <1>9, <2>1, <2>3, <3>5, Follows DEF Waiting, RequestInv, Asking
    <3>3. RunInv'
      BY <1>2, <1>9, <2>1, <2>3, <3>5 DEF Waiting, RunInv, Asking, Over
    <3>4. OpacityInv'
      <4>1. Failed /\ save.at = "opacity again" => Harmed'
        BY <1>9, <2>3 DEF Failed
      <4>2. save.at = "opacity" => Failed'
        BY <1>2, <1>4, <1>5, <1>9, <2>3 DEF OpacityInv, Failed, Waiting
      <4> QED
        BY <1>2, <1>9, <2>1, <2>3, <3>5, <4>1, <4>2 DEF Waiting, OpacityInv, Asking, Over
    <3> QED  BY <3>2, <3>3, <3>4, Follows
  <2> QED  BY <1>15, <2>2, <2>3 DEF WriteRule
<1>16. CASE RuleFailed("save")
  <2>1. /\ R.at = "putback" /\ R.op = "opacity" /\ save.at \in {"opacity", "opacity again"}
        /\ UNCHANGED <<rule, stored, troubles>>
        /\ daemon' = Policy(R.old) /\ Done("save", FALSE)
    <3>1. R.op \in {"opacity", "preset"}
      BY <1>0, <1>16 DEF RuleFailed, Asked, Fits, Sets
    <3> QED
      BY <1>2, <1>4, <1>7, <1>16, <3>1 DEF RuleFailed, NoFault, RequestInv, Waiting, PutBack
  <2>2. /\ daemon'.run = daemon.run /\ daemon'.at = "up" /\ daemon'.opacity = R.old
        /\ stored = daemon'.opacity \/ daemon'.dirty
    BY <1>0, <1>2, <2>1, PolicyMarks DEF RequestInv
  <2>3. Asking("persist") /\ R'.ok = FALSE
    BY <1>2, <1>4, <1>5, <2>1, <2>2, Steps1 DEF Asking
  <2> QED
    BY <1>2, <1>4, <2>1, <2>2, <2>3, Follows
    DEF RequestInv, RunInv, OpacityInv, Asking, Over, Harmed, Failed, Amiss, Lost
<1>17. CASE Persist("save")
  <2>1. R.at = "persist" /\ To("save", "answer") /\ UNCHANGED rule
    BY <1>17 DEF Persist
  <2>2. /\ daemon'.run = daemon.run /\ daemon'.at = "up"
        /\ daemon'.opacity = daemon.opacity
    BY <1>0, <1>17 DEF Persist, Persisting, Engine
  <2>3. /\ stored' = IF daemon.dirty THEN daemon.opacity ELSE stored
        /\ UNCHANGED troubles
    BY <1>1, <1>17 DEF Persist, Persisting, NoFault
  <2>4. Asking("answer") /\ R'.ok = R.ok
    BY <1>2, <1>4, <1>5, <2>1, <2>2, Steps1 DEF Asking
  <2>5. stored' = daemon'.opacity
    BY <1>0, <1>2, <2>1, <2>2, <2>3 DEF RequestInv, Engine
  <2> QED
    BY <1>2, <1>4, <2>1, <2>2, <2>3, <2>4, <2>5, Follows
    DEF RequestInv, RunInv, OpacityInv, Asking, Over, Harmed, Failed, Amiss, Lost
<1>18. CASE Answer("save")
  <2>1. R.at = "answer" /\ UNCHANGED <<rule, stored, daemon>>
    BY <1>18 DEF Answer
  <2>2. PICK ok \in BOOLEAN : /\ Answered("save", ok)
                             /\ \/ (ok <=> (R.ok /\ ~mismatch)) /\ NoFault
                                \/ ok = FALSE /\ Fault
    <3>1. PICK ok \in BOOLEAN : ok = (R.ok /\ ~mismatch)  BY Zenon
    <3>2. CASE Answered("save", R.ok /\ ~mismatch) /\ NoFault
      BY <3>1, <3>2
    <3>3. CASE Answered("save", FALSE) /\ Fault
      BY <3>3
    <3> QED  BY <1>18, <3>2, <3>3 DEF Answer
  <2>3. Asking("answered") /\ R'.ok = ok
    BY <1>0, <1>2, <1>4, <1>5, <2>1, <2>2, Steps1 DEF Asking
  <2>4. \/ (ok <=> (R.ok /\ ~mismatch)) /\ troubles' = troubles
        \/ ok = FALSE /\ Fault
    BY <2>2 DEF NoFault
  <2>8. troubles' = troubles =>
          (Amiss' <=> Amiss) /\ (Harmed' <=> Harmed) /\ (Failed' <=> Failed)
    BY <1>5, <1>9 DEF Amiss, Harmed, Failed
  <2>5. RequestInv' /\ FileInv'
    BY <1>2, <1>9, <2>1, <2>3, <2>4, <2>8, Follows DEF Waiting, RequestInv, Asking
  <2>6. RunInv'
    BY <1>2, <1>9, <2>1, <2>3, <2>4, <2>8 DEF Waiting, RequestInv, RunInv, Asking, Over
  <2>7. OpacityInv'
    <3>1. CASE save.at \in {"reload", "reload again"}
      BY <1>2, <1>9, <2>1, <2>3, <2>4, <2>8, <3>1
      DEF RequestInv, OpacityInv, Asking, Over
    <3>2. CASE save.at = "opacity"
      <4>1. ok \/ Failed'
        <5>1. ~mismatch  BY <1>2, <3>2 DEF RunInv
        <5>2. R.ok \/ Failed  BY <1>2, <2>1, <3>2 DEF OpacityInv
        <5>3. Fault => Failed'
          BY <1>2, <1>5, <1>9, <3>2 DEF OpacityInv, Failed
        <5> QED  BY <2>4, <2>8, <5>1, <5>2, <5>3
      <4>2. ok => daemon.opacity = save.opacity /\ rule = save.opacity
        BY <1>2, <2>1, <2>4, <3>2 DEF OpacityInv
      <4>3. save.prevOpacity = before.opacity \/ Amiss'
        BY <1>2, <1>9, <2>4, <2>8, <3>2 DEF OpacityInv
      <4> QED
        BY <2>1, <2>3, <3>2, <4>1, <4>2, <4>3 DEF OpacityInv, Asking, Over
    <3>3. CASE save.at = "opacity again"
      BY <1>2, <1>9, <2>1, <2>3, <2>4, <2>8, <3>3 DEF OpacityInv, Asking, Over
    <3> QED  BY <1>4, <3>1, <3>2, <3>3 DEF Waiting
  <2> QED  BY <2>5, <2>6, <2>7, Follows
<1>19. CASE SetEnabled("save") \/ ApplyPreset("save") \/ PresetActions("save")
  BY <1>0, <1>2, <1>7, <1>19
  DEF RequestInv, SetEnabled, ApplyPreset, PresetActions, Asked, Fits, Sets
<1> QED
  BY <1>4, <1>11, <1>12, <1>13, <1>14, <1>15, <1>16, <1>17, <1>18, <1>19 DEF Serve

LEMMA ServeCli ==
    ASSUME TypeOK, AskType, CliInv, NEW t \in Clients, Serve(t)
    PROVE  CliInv'
<1>1. req[t] \in Request /\ req \in [Clients -> Asked]  BY DEF AskType, Asked
<1>2. req[t].at # "none" /\ Free.at = "none"
  BY DEF Free, Serve, LoadConfig, ReplaceConfig, SetEnabled, ReadOld, SetOpacity, ApplyPreset,
         PresetActions, WriteRule, RuleFailed, Persist, Answer
<1>3. \/ /\ req'[t].op = req[t].op
         /\ \A u \in Clients \ {t} : req'[u] = req[u]
      \/ \E ok : Answered(t, ok)
  <2>1. ASSUME NEW r, r.op = req[t].op, req' = [req EXCEPT ![t] = r]
        PROVE  req'[t].op = req[t].op /\ \A u \in Clients \ {t} : req'[u] = req[u]
    BY <1>1, <2>1
  <2>2. CASE req' = [req EXCEPT ![t].at = "loaded", ![t].cfg = Effective(config)]
    <3>1. req' = [req EXCEPT ![t] = [req[t] EXCEPT !.at = "loaded", !.cfg = Effective(config)]]
      BY <1>1, <2>2
    <3> QED  BY <1>1, <2>1, <3>1 DEF Request
  <2>3. CASE ReadOld(t)
    <3>1. req' = [req EXCEPT ![t] = [req[t] EXCEPT !.at = "old", !.old = daemon.opacity]]
      BY <1>1, <2>3 DEF ReadOld
    <3> QED  BY <1>1, <2>1, <3>1 DEF Request
  <2>4. CASE req' = [req EXCEPT ![t].at = "actions", ![t].arg = daemon.opacity]
    <3>1. req' = [req EXCEPT ![t] = [req[t] EXCEPT !.at = "actions", !.arg = daemon.opacity]]
      BY <1>1, <2>4
    <3> QED  BY <1>1, <2>1, <3>1 DEF Request
  <2>5. CASE Answer(t)
    BY <2>5 DEF Answer
  <2>6. CASE (\E at : To(t, at)) \/ (\E ok : Done(t, ok))
    BY <2>6, Moves DEF Moved
  <2> QED
    BY <2>2, <2>3, <2>4, <2>5, <2>6 DEF Serve, LoadConfig, ReplaceConfig, SetEnabled,
       SetOpacity, ApplyPreset, PresetActions, WriteRule, RuleFailed, Persist
<1>4. CASE \E ok : Answered(t, ok)
  BY <1>1, <1>4 DEF Answered, CliInv, Clients
<1>5. CASE /\ req'[t].op = req[t].op
           /\ \A u \in Clients \ {t} : req'[u] = req[u]
  BY <1>2, <1>5 DEF CliInv, Clients
<1> QED  BY <1>3, <1>4, <1>5

LEMMA NextCli == TypeOK /\ AskType /\ CliInv /\ [Next]_vars => CliInv'
<1> SUFFICES ASSUME TypeOK, AskType, CliInv, [Next]_vars PROVE CliInv'  OBVIOUS
<1> USE DEF Clients
<1>1. CASE \E t \in Clients : Serve(t)
  BY <1>1, ServeCli
<1>2. CASE Crash \/ Stop
  BY <1>2 DEF Crash, Stop, Gone, CliInv
<1>3. CASE Ask
  <2>1. PICK r \in Requests : Sent("cli", r[1], r[2])  BY <1>3 DEF Ask
  <2>2. req' = [req EXCEPT !["cli"] = [Free EXCEPT !.op = r[1], !.arg = r[2], !.at = "sent"]]
    BY <2>1 DEF Sent
  <2>3. req'["cli"].op = r[1] /\ r[1] # "none"
    BY <2>2 DEF AskType, Free, Requests
  <2> QED  BY <2>3 DEF CliInv
<1>4. CASE SaveAsks \/ SaveAnswered
  BY <1>4 DEF SaveAsks, Sent, NotSent, SaveAnswered, CliInv, AskType
<1>5. CASE UNCHANGED req
  BY <1>5 DEF CliInv
<1>6. CASE Tick \/ Start \/ Serving \/ Edit \/ BeginSave \/ ReadPrevious \/ SaveStatus \/ Merge
             \/ WriteConfig \/ Restore \/ Report \/ UNCHANGED vars
  BY <1>5, <1>6 DEF Tick, Start, Serving, Edit, BeginSave, ReadPrevious, SaveStatus, Merge,
     WriteConfig, Restore, Report, vars
<1> QED  BY <1>1, <1>2, <1>3, <1>4, <1>6 DEF Next, Saving

LEMMA ProcessQuiet ==
    ASSUME TypeOK, AskType, BackInv, QuietInv, quiet',
           Tick \/ Crash \/ Stop \/ Start \/ Serving
    PROVE  QuietInv'
<1>0. daemon \in Engine /\ troubles \in Nat  BY Parts DEF DaemonType, TroublesType
<1>1. quiet /\ UNCHANGED <<config, save, before, rash, misread>>
  BY DEF Tick, Persisting, Crash, Stop, Gone, Start, Serving, history
<1>2. RequestInv /\ FileInv /\ RunInv /\ OpacityInv /\ FileInv'
  BY <1>1, Follows DEF QuietInv
<1>3. save.at = "idle" => R = Free /\ R.at = "none"
  BY DEF BackInv, Waiting, R, Free
<1> USE DEF R
<1>4. CASE Tick
  <2>1. /\ daemon'.run = daemon.run /\ daemon'.at = "up" /\ daemon'.opacity = daemon.opacity
        /\ stored' = IF daemon.dirty THEN daemon.opacity ELSE stored
        /\ UNCHANGED <<rule, mismatch, req, troubles>>
    BY <1>0, <1>1, <1>4 DEF Tick, Persisting, NoFault, Engine
  <2>2. stored' = daemon'.opacity
    BY <1>2, <2>1 DEF RequestInv
  <2>3. RequestInv'  BY <1>1, <1>2, <2>1, <2>2 DEF RequestInv, Amiss, Lost
  <2>4. RunInv'  BY <1>1, <1>2, <2>1 DEF RunInv, Over, Harmed, Amiss, Lost
  <2>5. OpacityInv'
    <3>1. (Harmed' <=> Harmed) /\ (Failed' <=> Failed) /\ (Amiss' <=> Amiss)
      BY <1>1, <2>1 DEF Harmed, Failed, Amiss, Lost
    <3>2. R' = R /\ \A o : Over(o)' <=> Over(o)
      BY <1>1, <2>1 DEF Over
    <3> QED  BY <1>1, <1>2, <2>1, <3>1, <3>2 DEF OpacityInv
  <2> QED  BY <1>2, <2>3, <2>4, <2>5, Follows
<1>5. CASE Crash \/ Stop
  <2>1. Gone /\ UNCHANGED <<rule, mismatch, troubles>>  BY <1>5 DEF Crash, Stop
  <2>2. save.at = "idle" /\ save'.at = "idle"  BY <1>1, <2>1 DEF Gone
  <2>3. /\ daemon'.run = daemon.run /\ daemon'.opacity = daemon.opacity
        /\ req'["save"] = Free /\ req'["cli"] = Free
    BY <1>0, <1>3, <2>1, <2>2 DEF Gone, Engine, Clients, Free
  <2>4. stored' = daemon'.opacity
    BY <1>2, <1>3, <1>5, <2>2, <2>3 DEF RequestInv, Crash, Stop
  <2>5. RequestInv'  BY <2>2, <2>3, <2>4 DEF RequestInv, Free
  <2>6. RunInv'  BY <1>1, <1>2, <2>1, <2>2, <2>3 DEF RunInv, Over, Harmed, Amiss, Lost
  <2>7. OpacityInv'  BY <1>1, <1>2, <2>1, <2>2, <2>3 DEF OpacityInv, Over, Harmed, Amiss, Lost
  <2> QED  BY <1>2, <2>5, <2>6, <2>7, Follows
<1>6. CASE Start
  <2>1. /\ save.at = "idle" /\ save'.at = "idle" /\ config \notin Rejected
        /\ daemon'.run = Effective(config) /\ daemon'.opacity = stored
        /\ UNCHANGED <<rule, stored, req, troubles>>
    BY <1>1, <1>2, <1>6 DEF Start, RequestInv, history
  <2>2. daemon'.opacity = daemon.opacity  BY <1>2, <1>3, <2>1 DEF RequestInv
  <2>3. Over("saved") \/ Over("unread") => Effective(config) = config
    BY <1>2, Kinds DEF FileInv, Effective
  <2>4. RequestInv'  BY <1>2, <1>3, <2>1 DEF RequestInv
  <2>5. RunInv'
    BY <1>1, <1>2, <2>1, <2>3 DEF RunInv, FileInv, Over, Harmed, Lost
  <2>6. OpacityInv'  BY <1>1, <1>2, <2>1, <2>2 DEF OpacityInv, Over, Harmed, Amiss, Lost
  <2> QED  BY <1>2, <2>4, <2>5, <2>6, Follows
<1>7. CASE Serving
  <2>1. /\ save.at = "idle" /\ save'.at = "idle" /\ UNCHANGED <<stored, mismatch, req>>
        /\ rule' \in {rule, daemon.opacity}
    BY <1>1, <1>2, <1>7 DEF Serving, RequestInv
  <2>2. daemon'.run = daemon.run /\ daemon'.opacity = daemon.opacity
    BY <1>0, <1>7 DEF Serving, Engine
  <2>3. troubles' = troubles
    BY <1>7, <2>1 DEF Serving, NoFault, Fault
  <2>4. RequestInv'  BY <1>2, <1>3, <2>1, <2>2 DEF RequestInv
  <2>5. RunInv'  BY <1>1, <1>2, <2>1, <2>2, <2>3 DEF RunInv, Over, Harmed, Amiss, Lost
  <2>6. OpacityInv'  BY <1>1, <1>2, <2>1, <2>2, <2>3 DEF OpacityInv, Over, Harmed, Amiss, Lost
  <2> QED  BY <1>2, <2>4, <2>5, <2>6, Follows
<1> QED  BY <1>4, <1>5, <1>6, <1>7

LEMMA BeginQuiet ==
    ASSUME TypeOK, AskType, BackInv, CliInv, BeginSave, quiet'
    PROVE  QuietInv'
<1>0. daemon \in Engine /\ save \in Transaction  BY Parts DEF DaemonType, SaveType
<1>1. PICK u \in Uis, p \in Percents :
        save' = [NoSave EXCEPT !.at = "read", !.ui = u, !.opacity = p]
  BY DEF BeginSave
<1>2. save'.at = "read"  BY <1>1 DEF NoSave
<1>3. /\ daemon.at = "up" /\ req["cli"].op = "none" /\ stored = daemon.opacity
      /\ before' = [file |-> config, run |-> daemon.run, opacity |-> daemon.opacity]
      /\ mismatch => troubles' = 1
      /\ rash' = FALSE /\ misread' = {}
      /\ UNCHANGED <<config, rule, stored, daemon, mismatch, req>>
  BY DEF BeginSave
<1>4. R = Free /\ R' = Free /\ Free.at = "none"
  BY <1>3 DEF BeginSave, BackInv, Waiting, R, Free
<1>5. req["cli"] = Free /\ req'["cli"] = Free  BY <1>3 DEF CliInv
<1>6. RequestInv'  BY <1>2, <1>3, <1>4, <1>5 DEF RequestInv, Amiss, Lost
<1>7. FileInv' /\ RunInv' /\ OpacityInv'
  BY <1>2, <1>3 DEF FileInv, RunInv, OpacityInv, Over
<1> QED  BY <1>6, <1>7 DEF QuietInv

\* A save that ends: what its outcome promises.
LEMMA EndQuiet ==
    ASSUME TypeOK, NEW o \in {"rejected", "undone", "saved", "unread", "stuck"}, save' = Ended(o),
           R' = Free, req'["cli"] = Free, stored = daemon.opacity,
           UNCHANGED <<config, rule, stored, daemon, before>>,
           o = "rejected" => config = before.file,
           o = "undone" => config = before.file \/ Lost',
           o = "rejected" => daemon.run = before.run /\ daemon.opacity = before.opacity,
           o = "undone" => Harmed' \/ /\ daemon.run = Effective(before.file) /\ ~Lost'
                                      /\ daemon.opacity = before.opacity,
           o \in {"saved", "unread"} =>
             /\ config \in Config /\ config.ui = save.ui /\ daemon.run = config
             /\ daemon.opacity = save.opacity /\ rule = save.opacity
    PROVE  QuietInv'
<1>1. save \in Transaction  BY Parts DEF SaveType
<1>2. /\ save'.at = "idle" /\ save'.outcome = o
      /\ save'.ui = save.ui /\ save'.opacity = save.opacity
  BY <1>1 DEF Ended, NoSave, Transaction
<1>3. RequestInv'  BY <1>2 DEF RequestInv, Free
<1>4. FileInv' /\ RunInv' /\ OpacityInv'
  BY <1>2 DEF FileInv, RunInv, OpacityInv, Over
<1> QED  BY <1>3, <1>4 DEF QuietInv

LEMMA SavingQuiet ==
    ASSUME TypeOK, AskType, BackInv, QuietInv, Saving, quiet'
    PROVE  QuietInv'
<1>0. /\ daemon \in Engine /\ save \in Transaction /\ config \in Contents /\ R \in Asked
      /\ troubles \in Nat
  BY Parts DEF DaemonType, SaveType, ConfigType, AskType, R, Clients, TroublesType
<1>1. quiet /\ UNCHANGED <<rule, stored, daemon, mismatch, before>>
  BY DEF Saving, ReadPrevious, SaveStatus, Merge, WriteConfig, SaveAsks, SaveAnswered, Restore,
     Report
<1>2. RequestInv /\ FileInv /\ RunInv /\ OpacityInv
  BY <1>1 DEF QuietInv
<1>3. /\ Free.at = "none" /\ Free.op = "none" /\ Free.ok = FALSE
      /\ save.at \notin Waiting => R = Free
      /\ R = Free => R.at = "none"
  <2>1. Free.at = "none" /\ Free.op = "none" /\ Free.ok = FALSE  BY DEF Free
  <2> QED  BY <2>1 DEF BackInv, R
<1>6. save.at # "idle"
  BY <1>3 DEF Saving, ReadPrevious, SaveStatus, Merge, WriteConfig, SaveAsks, SaveAnswered,
     Restore, Report, R, Waiting
<1>4. save.at \notin {"idle", "read"} => save.prev = before.file \/ Lost
  BY <1>2, <1>6 DEF BackInv, FileInv, Lost
<1>5. daemon.at = "up" /\ rash = FALSE /\ rash' = rash /\ (Lost => troubles >= 1)
  <2>1. daemon.at = "up" /\ ~rash /\ (Lost => troubles >= 1)
    BY <1>2, <1>6 DEF RequestInv, FileInv
  <2>2. rash \in BOOLEAN  BY Parts DEF HistoryType
  <2>3. rash' = rash
    BY DEF Saving, ReadPrevious, SaveStatus, Merge, WriteConfig, SaveAsks, SaveAnswered,
       Restore, Report
  <2> QED  BY <2>1, <2>2, <2>3
<1>7. ReadPrevious \/ Merge \/ UNCHANGED misread
  BY DEF Saving, SaveStatus, WriteConfig, SaveAsks, SaveAnswered, Restore, Report
<1>8. CASE ReadPrevious
  <2>1. /\ save.at = "read" /\ save'.at = "status" /\ misread = {}
        /\ UNCHANGED <<config, req>> /\ R' = R /\ R = Free
        /\ \/ UNCHANGED misread /\ troubles' = troubles
           \/ troubles' = troubles + 1
    BY <1>0, <1>3, <1>8 DEF ReadPrevious, NoFault, Fault, Transaction, Waiting, R, BackInv
  <2>2. RequestInv'
    BY <1>0, <1>1, <1>2, <1>3, <2>1 DEF RequestInv, Amiss, Lost
  <2>3. FileInv' /\ RunInv'  BY <1>1, <1>2, <1>5, <2>1 DEF FileInv, RunInv, Over
  <2>4. OpacityInv'  BY <1>1, <1>2, <2>1 DEF OpacityInv, Over
  <2> QED  BY <2>2, <2>3, <2>4 DEF QuietInv
<1>10. CASE SaveStatus
  <2>1. /\ save.at = "status" /\ save'.at = "merge" /\ save'.ui = save.ui
        /\ save'.outcome = save.outcome
        /\ UNCHANGED <<config, req, misread>> /\ R' = R /\ R = Free
    BY <1>0, <1>3, <1>10 DEF SaveStatus, Transaction, Waiting, R
  <2>2. /\ save'.prevOpacity = before.opacity \/ Amiss'
        /\ mismatch => Amiss'
        /\ Lost' => troubles' >= 1
    <3>1. CASE /\ save' = [save EXCEPT !.at = "merge",
                                       !.prevOpacity = IF daemon.at = "up" /\ ~mismatch
                                                       THEN daemon.opacity ELSE Inherit]
               /\ NoFault
      <4>1. troubles' = troubles /\ (~mismatch => save'.prevOpacity = daemon.opacity)
        BY <1>0, <1>5, <3>1 DEF NoFault, Transaction
      <4> QED  BY <1>2, <1>5, <2>1, <4>1 DEF RequestInv, OpacityInv, Amiss, Lost
    <3>2. CASE Fault
      BY <1>1, <1>5, <2>1, <3>2, FaultCounts DEF Lost, Amiss
    <3> QED  BY <1>10, <3>1, <3>2 DEF SaveStatus
  <2>3. RequestInv'  BY <1>1, <1>2, <1>3, <2>1, <2>2 DEF RequestInv
  <2>4. FileInv' /\ RunInv'  BY <1>1, <1>2, <1>5, <2>1 DEF FileInv, RunInv, Over
  <2>5. OpacityInv'  BY <1>1, <1>2, <2>1, <2>2 DEF OpacityInv, Over
  <2> QED  BY <2>3, <2>4, <2>5 DEF QuietInv
<1>11. CASE Merge
  <2>1. /\ save.at = "merge" /\ UNCHANGED <<config, req>> /\ R' = R /\ R = Free
        /\ config = before.file /\ daemon.run = before.run
        /\ daemon.opacity = before.opacity /\ stored = daemon.opacity
        /\ req["cli"] = Free
    BY <1>2, <1>3, <1>11
    DEF Merge, Waiting, R, FileInv, RunInv, OpacityInv, RequestInv
  <2>2. CASE save' = Ended("rejected")
    BY <1>1, <2>1, <2>2, EndQuiet
  <2>3. ASSUME NEW rest \in Rests,
               save' = [save EXCEPT !.at = "write", !.next = Document(rest)],
               Lost' = Lost, NoFault \/ Fault
        PROVE  QuietInv'
    <3>1. Document(rest) \in Config /\ Document(rest).ui = save.ui
      BY <1>0 DEF Document, Config, Transaction
    <3>2. /\ save'.at = "write" /\ save'.next = Document(rest) /\ save'.ui = save.ui
          /\ save'.prevOpacity = save.prevOpacity
      BY <1>0, <2>3 DEF Transaction
    <3>3. (Amiss => Amiss') /\ (Lost' => troubles' >= 1)
      BY <1>0, <1>1, <1>5, <1>6, <2>3 DEF Amiss, NoFault, Fault
    <3>4. RequestInv'  BY <1>1, <1>2, <1>3, <2>1, <3>2, <3>3 DEF RequestInv
    <3>5. FileInv' /\ RunInv'  BY <1>1, <1>5, <2>1, <3>1, <3>2 DEF FileInv, RunInv, Over
    <3>6. OpacityInv'  BY <1>1, <1>2, <2>1, <3>2, <3>3 DEF OpacityInv, Over
    <3> QED  BY <3>4, <3>5, <3>6 DEF QuietInv
  <2>4. config \notin {Broken, Garbled} => RestOf(config) \in Rests
    BY <1>0, EffectiveType
  <2>5. UNCHANGED misread \/ misread' = misread \cup {"merge"}
    BY <1>11 DEF Merge
  <2>6. Lost' = Lost  BY <2>5 DEF Lost
  <2>7. \/ save' = Ended("rejected")
        \/ /\ \E rest \in Rests :
                save' = [save EXCEPT !.at = "write", !.next = Document(rest)]
           /\ NoFault \/ Fault
    BY <1>11, <2>4, SettingsAssumption DEF Merge, Candidate
  <2> QED  BY <2>2, <2>3, <2>6, <2>7
<1>12. CASE WriteConfig
  <2>1. /\ save.at = "write" /\ UNCHANGED req /\ R' = R /\ R = Free
        /\ config = before.file /\ daemon.run = before.run
        /\ daemon.opacity = before.opacity /\ stored = daemon.opacity
        /\ req["cli"] = Free
    BY <1>2, <1>3, <1>12
    DEF WriteConfig, Waiting, R, FileInv, RunInv, OpacityInv, RequestInv
  <2>2. CASE config' = save.next /\ save' = [save EXCEPT !.at = "reload"] /\ NoFault
    <3>1. /\ save'.at = "reload" /\ save'.ui = save.ui /\ troubles' = troubles
          /\ save'.prevOpacity = save.prevOpacity /\ config' = save.next
      BY <1>0, <2>2 DEF NoFault, Transaction
    <3>6. (Amiss' <=> Amiss) /\ (Lost' <=> Lost)
      BY <1>7, <2>1, <3>1 DEF Amiss, Lost, ReadPrevious, Merge
    <3>2. RequestInv'  BY <1>1, <1>2, <1>3, <2>1, <3>1, <3>6 DEF RequestInv
    <3>3. FileInv'  BY <1>1, <1>2, <1>5, <2>1, <3>1 DEF FileInv, Over
    <3>4. RunInv'  BY <1>3, <2>1, <3>1 DEF RunInv, Over
    <3>5. OpacityInv'  BY <1>1, <1>2, <2>1, <3>1, <3>6 DEF OpacityInv, Over
    <3> QED  BY <3>2, <3>3, <3>4, <3>5 DEF QuietInv
  <2>3. CASE save' = Ended("rejected") /\ UNCHANGED config
    BY <1>1, <2>1, <2>3, EndQuiet
  <2> QED  BY <1>12, <2>2, <2>3 DEF WriteConfig
<1>13. CASE Restore
  <2>1. /\ save.at = "restore" /\ UNCHANGED req /\ R' = R /\ R = Free
        /\ stored = daemon.opacity /\ req["cli"] = Free
    BY <1>2, <1>3, <1>13 DEF Restore, Waiting, R, RequestInv
  <2>2. CASE config' = save.prev /\ save' = [save EXCEPT !.at = "reload again"] /\ NoFault
    <3>1. /\ save'.at = "reload again" /\ save'.outcome = save.outcome
          /\ save'.prevOpacity = save.prevOpacity /\ troubles' = troubles
          /\ config' = before.file \/ Lost
      BY <1>0, <1>4, <2>1, <2>2 DEF NoFault, Transaction
    <3>6. (Amiss' <=> Amiss) /\ (Lost' <=> Lost)
      BY <1>7, <2>1, <3>1 DEF Amiss, Lost, ReadPrevious, Merge
    <3>2. RequestInv'  BY <1>1, <1>2, <1>3, <2>1, <3>1, <3>6 DEF RequestInv
    <3>3. FileInv'  BY <1>1, <1>2, <1>5, <2>1, <3>1, <3>6 DEF FileInv, Over
    <3>4. RunInv'  BY <1>3, <2>1, <3>1 DEF RunInv, Over
    <3>5. OpacityInv'
      BY <1>1, <1>2, <2>1, <3>1, <3>6 DEF OpacityInv, Over, Failed, Harmed, Amiss, Lost
    <3> QED  BY <3>2, <3>3, <3>4, <3>5 DEF QuietInv
  <2>3. CASE save' = Ended("stuck") /\ UNCHANGED config
    BY <1>1, <2>1, <2>3, EndQuiet
  <2> QED  BY <1>13, <2>2, <2>3 DEF Restore
<1>14. CASE SaveAsks
  <2>1. PICK op \in {"reload", "opacity"}, arg \in Policies :
          /\ \/ save.at \in {"reload", "reload again"} /\ op = "reload" /\ arg = Inherit
             \/ save.at = "opacity" /\ op = "opacity" /\ arg = save.opacity
             \/ save.at = "opacity again" /\ op = "opacity" /\ arg = save.prevOpacity
          /\ \/ Sent("save", op, arg) /\ NoFault
             \/ NotSent("save", op, arg)
    BY <1>14 DEF SaveAsks
  <2>2. /\ UNCHANGED <<config, save>> /\ save.at \in Waiting /\ R.op = "none"
        /\ R = Free /\ R.at = "none" /\ save.at # "idle"
    BY <1>2, <1>3, <1>14 DEF SaveAsks, Waiting, RequestInv, R
  <2>3. /\ R' = [Free EXCEPT !.op = op, !.arg = arg, !.at = R'.at] /\ req'["cli"] = req["cli"]
        /\ \/ R'.at = "sent" /\ NoFault
           \/ R'.at = "answered" /\ Fault
    <3>1. CASE Sent("save", op, arg) /\ NoFault
      BY <3>1 DEF Sent, AskType, R, Clients, Free
    <3>2. CASE NotSent("save", op, arg)
      BY <1>5, <3>2 DEF NotSent, AskType, R, Clients, Free
    <3> QED  BY <2>1, <3>1, <3>2
  <2>4. R'.op = op /\ R'.arg = arg /\ R'.ok = FALSE
    BY <2>3 DEF Free
  <2>10. UNCHANGED misread
    BY <1>7, <2>2 DEF ReadPrevious, Merge, Waiting
  <2>5. \/ R'.at = "sent" /\ troubles' = troubles
        \/ /\ R'.at = "answered" /\ Amiss'
           /\ (troubles >= 1 => Harmed') /\ (Harmed => Harmed')
    BY <1>1, <1>5, <2>2, <2>3, <2>10, FaultCounts DEF NoFault, Lost
  <2>6. RequestInv'
    BY <1>1, <1>2, <2>1, <2>2, <2>3, <2>4, <2>5, <2>10 DEF RequestInv, Amiss, Lost
  <2>7. FileInv'  BY <1>1, <1>2, <1>5, <2>2, <2>10, Follows
  <2>8. RunInv'
    BY <1>1, <1>2, <2>1, <2>2, <2>4, <2>5, <2>10
    DEF RunInv, OpacityInv, Over, Harmed, Amiss, Lost
  <2>9. OpacityInv'
    BY <1>1, <1>2, <2>1, <2>2, <2>4, <2>5, <2>10
    DEF OpacityInv, Over, Harmed, Failed, Amiss, Lost
  <2> QED  BY <2>6, <2>7, <2>8, <2>9, Follows
<1>15. CASE SaveAnswered
  <2>1. /\ R.at = "answered" /\ save' = AfterAnswer(R.ok) /\ save.at \in Waiting
        /\ R' = Free /\ req'["cli"] = Free /\ UNCHANGED <<config, troubles>>
        /\ stored = daemon.opacity
    BY <1>2, <1>3, <1>15
    DEF SaveAnswered, AskType, Clients, NoFault, RequestInv, R
  <2>8. UNCHANGED misread
    BY <1>7, <2>1 DEF ReadPrevious, Merge, Waiting
  <2>9. (Amiss' <=> Amiss) /\ (Lost' <=> Lost) /\ (Harmed' <=> Harmed)
    BY <1>1, <2>1, <2>8 DEF Amiss, Lost, Harmed
  <2>2. ASSUME NEW at \in {"opacity", "result", "restore", "opacity again"},
               save' = [save EXCEPT !.at = at]
        PROVE  /\ save'.at = at /\ save'.ui = save.ui /\ save'.prevOpacity = save.prevOpacity
               /\ save'.outcome = save.outcome
    BY <1>0, <2>2 DEF Transaction
  <2>3. CASE save.at = "reload" /\ R.ok
    <3>1. save' = [save EXCEPT !.at = "opacity"]  BY <2>1, <2>3 DEF AfterAnswer
    <3>2. RequestInv'  BY <1>1, <1>2, <1>3, <1>5, <2>1, <2>2, <2>3, <2>9, <3>1 DEF RequestInv
    <3>3. FileInv'  BY <1>1, <1>2, <1>5, <2>1, <2>2, <2>3, <2>9, <3>1 DEF FileInv, Over
    <3>4. RunInv'  BY <1>1, <1>2, <1>5, <2>1, <2>2, <2>3, <2>9, <3>1 DEF RunInv, Over
    <3>5. OpacityInv'
      BY <1>1, <1>2, <1>3, <1>5, <2>1, <2>2, <2>3, <2>9, <3>1 DEF OpacityInv, Over
    <3> QED  BY <3>2, <3>3, <3>4, <3>5 DEF QuietInv
  <2>4. CASE save.at \in {"reload", "opacity"} /\ ~R.ok
    <3>1. PICK o \in {"reload failed", "opacity failed"} :
            /\ save' = [save EXCEPT !.at = "restore", !.outcome = o]
            /\ o = "reload failed" <=> save.at = "reload"
      BY <2>1, <2>4 DEF AfterAnswer
    <3>2. /\ save'.at = "restore" /\ save'.ui = save.ui /\ save'.outcome = o
          /\ save'.prevOpacity = save.prevOpacity
      BY <1>0, <3>1 DEF Transaction
    <3>3. RequestInv'  BY <1>1, <1>2, <1>3, <1>5, <2>1, <2>4, <2>9, <3>2 DEF RequestInv
    <3>4. FileInv'  BY <1>1, <1>2, <1>5, <2>1, <2>4, <2>9, <3>2 DEF FileInv, Over
    <3>5. RunInv'  BY <3>2 DEF RunInv, Over
    <3>6. OpacityInv'
      BY <1>1, <1>2, <2>1, <2>4, <2>9, <3>1, <3>2
      DEF RunInv, OpacityInv, Over, Failed, Harmed, Amiss, Lost
    <3> QED  BY <3>3, <3>4, <3>5, <3>6 DEF QuietInv
  <2>5. CASE save.at = "opacity" /\ R.ok
    <3>1. save' = [save EXCEPT !.at = "result"]  BY <2>1, <2>5 DEF AfterAnswer
    <3>2. /\ save'.at = "result" /\ save'.ui = save.ui /\ save'.outcome = save.outcome
          /\ save'.prevOpacity = save.prevOpacity /\ save'.opacity = save.opacity
      BY <1>0, <3>1 DEF Transaction
    <3>3. RequestInv'  BY <1>1, <1>2, <1>3, <1>5, <2>1, <2>5, <2>9, <3>2 DEF RequestInv
    <3>4. FileInv'  BY <1>1, <1>2, <1>5, <2>1, <2>5, <3>2 DEF FileInv, Over
    <3>5. RunInv'  BY <1>1, <1>2, <2>1, <2>5, <3>2 DEF RunInv, Over
    <3>6. OpacityInv'
      BY <1>1, <1>2, <2>1, <2>5, <2>9, <3>2 DEF OpacityInv, Over
    <3> QED  BY <3>3, <3>4, <3>5, <3>6 DEF QuietInv
  <2>6. CASE save.at = "reload again" /\ save.outcome = "opacity failed"
    <3>1. save' = [save EXCEPT !.at = "opacity again"]  BY <2>1, <2>6 DEF AfterAnswer
    <3>2. RequestInv'  BY <1>1, <1>2, <1>3, <1>5, <2>1, <2>2, <2>6, <2>9, <3>1 DEF RequestInv
    <3>3. FileInv'  BY <1>1, <1>2, <1>5, <2>1, <2>2, <2>6, <2>9, <3>1 DEF FileInv, Over
    <3>6. Lost => Harmed  BY <1>2, <2>6 DEF OpacityInv, Amiss, Harmed
    <3>4. RunInv'
      BY <1>1, <1>2, <1>5, <2>1, <2>2, <2>6, <2>9, <3>1, <3>6 DEF RunInv, Over
    <3>5. OpacityInv'
      BY <1>1, <1>2, <1>3, <1>5, <2>1, <2>2, <2>6, <2>9, <3>1
      DEF OpacityInv, Over, Failed, Harmed, Amiss, Lost
    <3> QED  BY <3>2, <3>3, <3>4, <3>5 DEF QuietInv
  <2>7. CASE \/ save.at = "reload again" /\ save.outcome # "opacity failed"
             \/ save.at = "opacity again"
    <3>1. save' = Ended("undone")  BY <2>1, <2>7 DEF AfterAnswer
    <3>2. config = before.file \/ Lost  BY <1>2, <2>7 DEF FileInv
    <3>6. Lost => Harmed  BY <1>2, <2>7 DEF OpacityInv, Failed, Amiss, Harmed
    <3>3. Harmed \/ (daemon.run = Effective(before.file) /\ ~Lost)
      BY <1>2, <2>1, <2>7, <3>6 DEF RunInv
    <3>4. Harmed \/ daemon.opacity = before.opacity
      BY <1>2, <2>1, <2>7 DEF OpacityInv, Failed
    <3>5. (Harmed' <=> Harmed) /\ (Lost' <=> Lost)  BY <2>9
    <3> QED  BY <1>1, <2>1, <3>1, <3>2, <3>3, <3>4, <3>5, EndQuiet
  <2> QED  BY <2>1, <2>3, <2>4, <2>5, <2>6, <2>7 DEF Waiting
<1>16. CASE Report
  <2>1. /\ save.at = "result" /\ UNCHANGED <<config, req>> /\ R' = R /\ R = Free
        /\ stored = daemon.opacity /\ req["cli"] = Free
        /\ save' = Ended("saved") \/ save' = Ended("unread")
    BY <1>2, <1>3, <1>16 DEF Report, Waiting, R, RequestInv
  <2>2. /\ config \in Config /\ config.ui = save.ui /\ daemon.run = config
        /\ daemon.opacity = save.opacity /\ rule = save.opacity
    BY <1>2, <2>1 DEF FileInv, RunInv, OpacityInv
  <2> QED  BY <1>1, <2>1, <2>2, EndQuiet
<1> QED  BY <1>8, <1>10, <1>11, <1>12, <1>13, <1>14, <1>15, <1>16 DEF Saving

LEMMA NextQuiet ==
    TypeOK /\ AskType /\ BackInv /\ CliInv /\ QuietInv /\ [Next]_vars => QuietInv'
<1> SUFFICES ASSUME TypeOK, AskType, BackInv, CliInv, QuietInv, [Next]_vars, quiet'
             PROVE  QuietInv'
  BY DEF QuietInv
<1>1. CASE Ask \/ Edit
  BY <1>1 DEF Ask, Edit
<1>2. CASE UNCHANGED vars
  BY <1>2
 
  DEF vars, QuietInv, RequestInv, FileInv, RunInv, OpacityInv, R, Over, Failed, Harmed, Amiss, Lost
<1> QED
  BY <1>1, <1>2, ServeQuiet, ProcessQuiet, BeginQuiet, SavingQuiet DEF Next

\* What the invariants of the whole module rest on.
SaveInv == TypeOK /\ AskType /\ ManualInv /\ BackInv /\ CliInv /\ QuietInv

LEMMA SaveInvariant == Spec => []SaveInv
<1>1. Init => CliInv /\ QuietInv
  BY DEF Init, CliInv, QuietInv, Clients
<1>2. Init => SaveInv
  BY <1>1, InitType, InitKeys DEF SaveInv
<1>3. SaveInv /\ [Next]_vars => SaveInv'
  BY NextType, NextKeys, NextCli, NextQuiet DEF SaveInv
<1> QED  BY <1>2, <1>3, PTL DEF Spec

\* A save whose requests have succeeded is in the file, in the engine and in Niri's rule,
\* whether the page is told so or not, and stays there over
\* crashes and restarts of the daemon, until somebody asks for something else.
THEOREM SavedStays == Spec => []SavedIsInEffect
<1>1. SaveInv => SavedIsInEffect
  <2> SUFFICES ASSUME SaveInv, Over("saved") \/ Over("unread"), quiet
               PROVE  /\ config # Missing /\ config.ui = save.ui /\ daemon.run = config
                      /\ daemon.opacity = save.opacity /\ rule = save.opacity
    BY DEF SavedIsInEffect, Over
  <2>1. config \in Config => config # Missing  BY Kinds
  <2> QED  BY <2>1 DEF SaveInv, QuietInv, FileInv, RunInv, OpacityInv
<1> QED  BY <1>1, SaveInvariant, PTL

\* A save that ends because a write or a request failed leaves a daemon that has been there
\* all the time with the opacity and the settings it had, if the file was one it accepts
\* and no more than one thing went wrong: the way back works.
THEOREM FailureRestoresDaemon == Spec => []FailedSaveRestoresDaemon
<1>1. SaveInv => FailedSaveRestoresDaemon
  <2> SUFFICES ASSUME SaveInv, Over("rejected") \/ Over("undone"), quiet, troubles <= 1,
                      before.file \notin Rejected
               PROVE  /\ daemon.opacity = before.opacity
                      /\ daemon.run \in {before.run, Effective(before.file)}
    BY DEF FailedSaveRestoresDaemon, Over
  <2>1. ~Harmed
    <3>1. troubles \in Nat  BY Parts DEF SaveInv, TroublesType
    <3> QED  BY <3>1 DEF Harmed
  <2> QED  BY <2>1 DEF SaveInv, QuietInv, RunInv, OpacityInv
<1> QED  BY <1>1, SaveInvariant, PTL
===============================================================================

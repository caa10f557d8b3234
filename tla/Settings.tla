------------------------------- MODULE Settings -------------------------------
(***************************************************************************)
(* Saving settings: config.toml, the opacity policy and runtime.kdl.       *)
(*                                                                         *)
(* The Settings application saves in a transaction of its own: it writes   *)
(* the keys it owns into config.toml, has the daemon reload the file, then *)
(* sets the opacity; when a request fails it puts the file back and asks   *)
(* the daemon for the former settings, as well as it can.  The daemon      *)
(* keeps the opacity in its persistent state and, for Niri, in             *)
(* runtime.kdl, which it writes after it has changed the state and with    *)
(* the engine's mutex released.  Command-line clients send requests of     *)
(* their own, and the user edits config.toml by hand.                      *)
(*                                                                         *)
(* Files are replaced whole or not at all, and what is persisted is        *)
(* written in one step: StateFile models how, and what two writers at the  *)
(* same time do.                                                           *)
(*                                                                         *)
(* The page does not wait for one save before it sends the next.  This     *)
(* module follows one of them: another one at the same time writes         *)
(* config.toml as Edit does and sends requests as Ask does.                *)
(***************************************************************************)
EXTENDS Naturals

CONSTANTS Uis, Rests,        \* the keys Settings owns, and all other keys
          DefaultUi, DefaultRest,   \* Config::default()
          Disabling,         \* the other keys with general.enabled = false
          Missing,           \* no config.toml
          Broken,            \* a text that is no TOML, or wrong in the other keys
          Wrong,             \* wrong values of the keys Settings owns
          Garbled,           \* no UTF-8
          Percents, Inherit, \* opacities: Some(percent), None
          Opaque,            \* Some(100), the first policy
          Presets,           \* the opacities that presets ask for
          Limits,            \* bound: how often each thing may happen
          MaxHappenings      \* bound: how many things may happen in all

Happenings == {"save", "ask", "edit", "fault", "end"}
Policies == Percents \cup {Inherit}
Config   == [ui : Uis, rest : Rests]
Texts    == [ui : Uis \cup {Wrong}, rest : Rests]
Contents == Texts \cup {Missing, Broken, Garbled}
Rejected == Contents \ (Config \cup {Missing})   \* Config::load fails
Reads    == {"back", "merge"}                     \* save_settings reads the file twice

ASSUME SettingsAssumption ==
    /\ DefaultUi \in Uis /\ DefaultRest \in Rests
    /\ Disabling \subseteq Rests
    /\ Missing \notin Texts \cup {Broken, Garbled}
    /\ Broken \notin Texts \cup {Garbled} /\ Garbled \notin Texts
    /\ Wrong \notin Uis
    /\ Rests \cap {Broken, Garbled} = {}
    /\ Inherit \notin Percents /\ Opaque \in Percents /\ Presets \subseteq Percents
    /\ Limits \in [Happenings -> Nat] /\ MaxHappenings \in Nat

VARIABLES
    config,    \* config.toml
    rule,      \* the opacity rule in runtime.kdl
    stored,    \* pip_opacity_percent in state.json
    daemon,    \* the process and its engine
    mismatch,  \* the daemon speaks another protocol version than the clients
    req,       \* the request each client waits for
    save,      \* save_settings
    before,    \* history: file and policy when the save began
    quiet,     \* history: nobody else has interfered since the save began
    troubles,  \* history: things that went wrong since the save began
    manual,    \* history: the other keys, as the user last wrote them
    rash,      \* history: config.toml was edited during a save
    misread,   \* history: the save's reads of the file that brought no text
    overlap,   \* history: the opacity request was sent during another one
    skewed,    \* history: overlapping requests or a preset whose actions failed
               \* have left the rule and the policy to themselves
    budget,    \* what is left of Limits
    happenings \* what is left of MaxHappenings

history == <<before, quiet, troubles, manual, rash, misread, overlap, skewed>>
world   == <<budget, happenings>>
vars == <<config, rule, stored, daemon, mismatch, req, save, before, quiet, troubles,
          manual, rash, misread, overlap, skewed, budget, happenings>>

Clients == {"save", "cli"}
Ops     == {"none", "reload", "opacity", "preset", "enable"}
Defaults == [ui |-> DefaultUi, rest |-> DefaultRest]
Free == [op |-> "none", at |-> "none", arg |-> Inherit, old |-> Inherit,
         cfg |-> Defaults, ok |-> FALSE]
NoSave == [at |-> "idle", ui |-> DefaultUi, opacity |-> Opaque, prev |-> Missing,
           prevOpacity |-> Inherit, next |-> Missing, outcome |-> "none"]

TypeOK ==
    /\ config \in Contents /\ rule \in Policies /\ stored \in Policies
    /\ daemon \in [at : {"down", "starting", "up"}, run : Config, enabled : BOOLEAN,
                   opacity : Policies, dirty : BOOLEAN]
    /\ mismatch \in BOOLEAN
    /\ req \in [Clients -> [op : Ops, arg : Policies \cup BOOLEAN, old : Policies,
                            cfg : Config, ok : BOOLEAN,
                            at : {"none", "sent", "loaded", "old", "actions", "rule",
                                  "putback", "persist", "answer", "answered"}]]
    /\ save \in [at : {"idle", "read", "status", "merge", "write", "reload", "opacity",
                       "result", "restore", "reload again", "opacity again"},
                 ui : Uis, opacity : Percents, prev : Contents, prevOpacity : Policies,
                 next : Contents,
                 outcome : {"none", "reload failed", "opacity failed", "saved",
                            "unread", "rejected", "undone", "stuck"}]
    /\ before \in [file : Contents, run : Config, opacity : Policies]
    /\ {quiet, rash, overlap, skewed} \subseteq BOOLEAN
    /\ manual \in Rests \cup {Broken, Garbled} /\ misread \subseteq Reads
    /\ troubles \in Nat
    /\ budget \in [Happenings -> Nat] /\ happenings \in Nat

\* load_config_or_default, of a file that is not rejected; and the part of a file that
\* is the user's, of a broken one all of it.
Effective(c) == IF c = Missing THEN Defaults ELSE c
RestOf(c)    == IF c \in {Broken, Garbled} THEN c ELSE Effective(c).rest

Init ==
    /\ config \in Config \cup {Missing}
    /\ rule = Opaque /\ stored = Opaque
    /\ daemon = [at |-> "up", run |-> Effective(config), opacity |-> Opaque,
                 enabled |-> Effective(config).rest \notin Disabling, dirty |-> FALSE]
    /\ mismatch \in BOOLEAN
    /\ req = [t \in Clients |-> Free]
    /\ save = NoSave
    /\ before = [file |-> config, run |-> Effective(config), opacity |-> Opaque]
    /\ quiet = FALSE /\ troubles = 0
    /\ manual = RestOf(config) /\ rash = FALSE /\ misread = {}
    /\ overlap = FALSE /\ skewed = FALSE
    /\ budget = Limits /\ happenings = MaxHappenings

Happens(kind) ==
    /\ budget[kind] > 0 /\ happenings > 0
    /\ budget' = [budget EXCEPT ![kind] = @ - 1]
    /\ happenings' = happenings - 1

\* An operation fails.
Fault ==
    /\ Happens("fault")
    /\ troubles' = IF save.at = "idle" THEN troubles ELSE troubles + 1

NoFault == UNCHANGED <<troubles, budget, happenings>>

-------------------------------------------------------------------------------
(* process_daemon_request: the request of client t *)

SetsOpacity(t) == req[t].op \in {"opacity", "preset"} /\ req[t].at # "answered"

\* set_opacity_override_percent
Unmarked(p) == [daemon EXCEPT !.opacity = p]
Policy(p) == [daemon EXCEPT !.opacity = p, !.dirty = @ \/ p # daemon.opacity]

To(t, at) == req' = [req EXCEPT ![t].at = at]
Done(t, ok) == req' = [req EXCEPT ![t].at = "persist", ![t].ok = ok]

\* ReloadConfig: the file is read before the mutex is taken.  It is rejected, or it
\* cannot be read.
LoadConfig(t) ==
    /\ req[t].op = "reload" /\ req[t].at = "sent"
    /\ \/ /\ config \notin Rejected
          /\ req' = [req EXCEPT ![t].at = "loaded", ![t].cfg = Effective(config)]
          /\ NoFault
       \/ config \in Rejected /\ Done(t, FALSE) /\ NoFault
       \/ config \in Config /\ Done(t, FALSE) /\ Fault
    /\ UNCHANGED <<config, rule, stored, daemon, mismatch, save, before, quiet, manual,
                   rash, misread, overlap, skewed>>

\* Engine::replace_config
AsItIs(cfg) == [daemon EXCEPT !.run = config, !.enabled = cfg.rest \notin Disabling]
Replaced(cfg) == [daemon EXCEPT !.run = cfg, !.enabled = cfg.rest \notin Disabling]
ReplaceConfig(t) ==
    /\ req[t].op = "reload" /\ req[t].at = "loaded"
    /\ daemon' = Replaced(req[t].cfg)
    /\ Done(t, TRUE)
    /\ NoFault
    /\ UNCHANGED <<config, rule, stored, mismatch, save, before, quiet, manual, rash,
                   misread, overlap, skewed>>

SetEnabled(t) ==
    /\ req[t].op = "enable" /\ req[t].at = "sent"
    /\ daemon' = [daemon EXCEPT !.enabled = req[t].arg]
    /\ Done(t, TRUE)
    /\ NoFault
    /\ UNCHANGED <<config, rule, stored, mismatch, save, before, quiet, manual, rash,
                   misread, overlap, skewed>>

\* SetOpacity and ApplyPreset take the mutex once for the old policy ...
ReadOld(t) ==
    /\ req[t].op \in {"opacity", "preset"} /\ req[t].at = "sent"
    /\ req' = [req EXCEPT ![t].at = "old", ![t].old = daemon.opacity]
    /\ NoFault
    /\ UNCHANGED <<config, rule, stored, daemon, mismatch, save, before, quiet, manual,
                   rash, misread, overlap, skewed>>

\* ... and once more for the new one.
SetOpacity(t) ==
    /\ req[t].op = "opacity" /\ req[t].at = "old"
    /\ daemon' = Policy(req[t].arg)
    /\ To(t, "rule")
    /\ NoFault
    /\ UNCHANGED <<config, rule, stored, mismatch, save, before, quiet, manual, rash,
                   misread, overlap, skewed>>

\* apply_preset: an automatic PiP brings the preset's opacity with it, any other
\* window leaves the policy, and there may be no such window or one that peeks.
ApplyPreset(t) ==
    /\ req[t].op = "preset" /\ req[t].at = "old"
    /\ \/ daemon' = Policy(req[t].arg) /\ To(t, "actions")
       \/ /\ req' = [req EXCEPT ![t].at = "actions", ![t].arg = daemon.opacity]
          /\ UNCHANGED daemon
       \/ Done(t, FALSE) /\ UNCHANGED daemon
    /\ NoFault
    /\ UNCHANGED <<config, rule, stored, mismatch, save, before, quiet, manual, rash,
                   misread, overlap, skewed>>

\* execute_effects of a preset: the first that fails ends the request, the policy
\* changed and the rule not written.
PresetActions(t) ==
    /\ req[t].at = "actions"
    /\ \/ To(t, "rule") /\ NoFault /\ UNCHANGED skewed
       \/ Done(t, FALSE) /\ Fault /\ skewed' = TRUE
    /\ UNCHANGED <<config, rule, stored, daemon, mismatch, save, before, quiet, manual,
                   rash, misread, overlap>>

\* write_runtime_kdl
WriteRule(t) ==
    /\ req[t].at = "rule"
    /\ \/ /\ rule' = req[t].arg
          /\ Done(t, TRUE)
          /\ skewed' = (skewed /\ overlap)
          /\ NoFault
       \/ To(t, "putback") /\ Fault /\ UNCHANGED <<rule, skewed>>
    /\ UNCHANGED <<config, stored, daemon, mismatch, save, before, quiet, manual, rash,
                   misread, overlap>>

\* The rule could not be written: the old policy again.
PutBackNothing(t) == daemon
PutBack(t) == Policy(req[t].old)
RuleFailed(t) ==
    /\ req[t].at = "putback"
    /\ daemon' = PutBack(t)
    /\ Done(t, FALSE)
    /\ NoFault
    /\ UNCHANGED <<config, rule, stored, mismatch, save, before, quiet, manual, rash,
                   misread, overlap, skewed>>

\* persist_if_dirty; that it fails is logged, the mark is gone.
Persisting ==
    /\ daemon' = [daemon EXCEPT !.dirty = FALSE]
    /\ \/ /\ stored' = IF daemon.dirty THEN daemon.opacity ELSE stored
          /\ NoFault /\ UNCHANGED quiet
       \/ /\ daemon.dirty
          /\ Fault /\ quiet' = FALSE /\ UNCHANGED stored

Persist(t) ==
    /\ req[t].at = "persist"
    /\ Persisting
    /\ To(t, "answer")
    /\ UNCHANGED <<config, rule, mismatch, save, before, manual, rash, misread, overlap,
                   skewed>>

\* The client gets the answer, or the connection breaks, or it rejects the answer
\* for its protocol version.  The command-line client only reports it.
Answered(t, ok) ==
    req' = [req EXCEPT ![t] = IF t = "cli" THEN Free
                              ELSE [@ EXCEPT !.at = "answered", !.ok = ok]]
Answer(t) ==
    /\ req[t].at = "answer"
    /\ \/ Answered(t, req[t].ok /\ ~mismatch) /\ NoFault
       \/ t = "save" /\ Answered(t, FALSE) /\ Fault
    /\ UNCHANGED <<config, rule, stored, daemon, mismatch, save, before, quiet, manual,
                   rash, misread, overlap, skewed>>

Serve(t) ==
    /\ daemon.at = "up"
    /\ \/ LoadConfig(t) \/ ReplaceConfig(t) \/ SetEnabled(t)
       \/ ReadOld(t) \/ SetOpacity(t) \/ ApplyPreset(t) \/ PresetActions(t)
       \/ WriteRule(t) \/ RuleFailed(t) \/ Persist(t) \/ Answer(t)

\* The supervisor's tick.
Tick ==
    /\ daemon.at = "up" /\ daemon.dirty
    /\ Persisting
    /\ UNCHANGED <<config, rule, mismatch, req, save, before, manual, rash, misread,
                   overlap, skewed>>

-------------------------------------------------------------------------------
(* The process *)

\* The process ends: requests break off.
Gone ==
    /\ daemon' = [daemon EXCEPT !.at = "down"]
    /\ req' = [t \in Clients |->
                 IF req[t].op = "none" \/ t = "cli" THEN Free
                 ELSE IF req[t].at = "answered" THEN req[t]
                 ELSE [req[t] EXCEPT !.at = "answered", !.ok = FALSE]]
    /\ quiet' = (quiet /\ save.at = "idle")

Crash ==
    /\ daemon.at # "down"
    /\ Happens("end")
    /\ Gone
    /\ UNCHANGED <<config, rule, stored, mismatch, save, before, troubles, manual, rash,
                   misread, overlap, skewed>>

\* Terminated: main persists once more.
Stop ==
    /\ daemon.at = "up"
    /\ Happens("end")
    /\ Gone
    /\ stored' = IF daemon.dirty THEN daemon.opacity ELSE stored
    /\ UNCHANGED <<config, rule, mismatch, save, before, troubles, manual, rash,
                   misread, overlap, skewed>>

\* main: the file and the state are loaded, by the program that is installed now.
\* A file it rejects ends main, now and on every later start.
Start ==
    /\ daemon.at = "down"
    /\ config \notin Rejected
    /\ daemon' = [at |-> "starting", run |-> Effective(config), opacity |-> stored,
                  enabled |-> Effective(config).rest \notin Disabling, dirty |-> FALSE]
    /\ mismatch' = FALSE
    /\ UNCHANGED <<config, rule, stored, req, save, history, world>>

\* main: the rule is written, or main ends; then the socket is bound.
Serving ==
    /\ daemon.at = "starting"
    /\ \/ /\ rule' = daemon.opacity
          /\ daemon' = [daemon EXCEPT !.at = "up"]
          /\ skewed' = FALSE
          /\ NoFault
       \/ /\ daemon' = [daemon EXCEPT !.at = "down"]
          /\ Fault
          /\ UNCHANGED <<rule, skewed>>
    /\ UNCHANGED <<config, stored, mismatch, req, save, before, quiet, manual, rash,
                   misread, overlap>>

-------------------------------------------------------------------------------
(* Clients *)

\* send_daemon: the request gets to a daemon that serves ...
Sent(t, op, arg) ==
    LET other == op \in {"opacity", "preset"} /\ \E u \in Clients \ {t} : SetsOpacity(u)
    IN  /\ daemon.at = "up"
        /\ req' = [req EXCEPT ![t] = [Free EXCEPT !.op = op, !.arg = arg, !.at = "sent"]]
        /\ overlap' = IF op \in {"opacity", "preset"} THEN other ELSE overlap
        /\ skewed' = (skewed \/ other)

\* ... or there is none, or it is lost on the way.
NotSent(t, op, arg) ==
    /\ req' = [req EXCEPT ![t] = [Free EXCEPT !.op = op, !.arg = arg, !.at = "answered"]]
    /\ \/ daemon.at # "up" /\ NoFault
       \/ daemon.at = "up" /\ Fault
    /\ UNCHANGED <<overlap, skewed>>

\* The requests of the command line, and of another save of the page, that this module
\* is about; one that finds no daemon changes nothing.
Requests == {<<"reload", Inherit>>} \cup ({"opacity"} \X Policies)
                \cup ({"preset"} \X Presets) \cup ({"enable"} \X BOOLEAN)

Ask ==
    /\ req["cli"].op = "none"
    /\ Happens("ask")
    /\ \E r \in Requests : Sent("cli", r[1], r[2])
    /\ quiet' = FALSE
    /\ UNCHANGED <<config, rule, stored, daemon, mismatch, save, before, troubles,
                   manual, rash, misread>>

\* The user writes config.toml, well or badly, or deletes it; or another save of the
\* page, sent before this one was answered, writes the file or puts it back.
Edit ==
    /\ Happens("edit")
    /\ \E c \in Contents :
          config' = c /\ manual' = RestOf(c)
    /\ rash' = (save.at # "idle")
    /\ misread' = IF save.at = "idle" THEN {} ELSE misread
    /\ quiet' = FALSE
    /\ UNCHANGED <<rule, stored, daemon, mismatch, req, save, before, troubles, overlap,
                   skewed>>

-------------------------------------------------------------------------------
(* save_settings *)

\* The page sends all its controls.  (save.at = "idle": the save this module follows;
\* of another one under way see Edit and Ask.)
BeginSave ==
    /\ save.at = "idle"
    /\ Happens("save")
    /\ \E u \in Uis, p \in Percents :
          save' = [NoSave EXCEPT !.at = "read", !.ui = u, !.opacity = p]
    /\ before' = [file |-> config, run |-> daemon.run, opacity |-> daemon.opacity]
    /\ quiet' = (daemon.at = "up" /\ req["cli"].op = "none" /\ stored = daemon.opacity)
    /\ troubles' = IF mismatch THEN 1 ELSE 0
    /\ rash' = FALSE /\ misread' = {}
    /\ manual' = IF rash \/ misread # {} THEN RestOf(config) ELSE manual
    /\ UNCHANGED <<config, rule, stored, daemon, mismatch, req, overlap, skewed>>

\* fs::read(path).ok(), for the way back: a read that fails is no file.
ReadPrevious ==
    /\ save.at = "read"
    /\ \/ /\ save' = [save EXCEPT !.at = "status", !.prev = config]
          /\ NoFault /\ UNCHANGED misread
       \/ /\ config # Missing
          /\ save' = [save EXCEPT !.at = "status", !.prev = Missing]
          /\ misread' = misread \cup {"back"}
          /\ Fault
    /\ UNCHANGED <<config, rule, stored, daemon, mismatch, req, before, quiet, manual,
                   rash, overlap, skewed>>

\* daemon_status: any failure is None.
SaveStatus ==
    /\ save.at = "status"
    /\ \/ /\ save' = [save EXCEPT !.at = "merge",
                                  !.prevOpacity = IF daemon.at = "up" /\ ~mismatch
                                                  THEN daemon.opacity ELSE Inherit]
          /\ NoFault
       \/ save' = [save EXCEPT !.at = "merge", !.prevOpacity = Inherit] /\ Fault
    /\ UNCHANGED <<config, rule, stored, daemon, mismatch, req, before, quiet, manual,
                   rash, misread, overlap, skewed>>

Ended(outcome) == [NoSave EXCEPT !.ui = save.ui, !.opacity = save.opacity,
                                 !.outcome = outcome]

\* write_settings_config: the file is read again, the keys are merged into it, and
\* the candidate is validated.  A read that fails and a file that is no UTF-8 are an
\* empty document.
Document(rest) == [ui |-> save.ui, rest |-> rest]
FreshDocument(c) == Document(DefaultRest)
Candidate(c) == Document(RestOf(c))
Merge ==
    /\ save.at = "merge"
    /\ \/ config = Broken /\ save' = Ended("rejected") /\ NoFault /\ UNCHANGED misread
       \/ /\ config \notin {Broken, Garbled}
          /\ save' = [save EXCEPT !.at = "write", !.next = Candidate(config)]
          /\ NoFault /\ UNCHANGED misread
       \/ /\ \/ config = Garbled /\ NoFault
             \/ config # Missing /\ Fault
          /\ save' = [save EXCEPT !.at = "write", !.next = Document(DefaultRest)]
          /\ misread' = misread \cup {"merge"}
    /\ UNCHANGED <<config, rule, stored, daemon, mismatch, req, before, quiet, manual,
                   rash, overlap, skewed>>

\* write_atomic
WriteConfig ==
    /\ save.at = "write"
    /\ \/ /\ config' = save.next
          /\ save' = [save EXCEPT !.at = "reload"]
          /\ NoFault
       \/ save' = Ended("rejected") /\ Fault /\ UNCHANGED config
    /\ UNCHANGED <<rule, stored, daemon, mismatch, req, before, quiet, manual, rash,
                   misread, overlap, skewed>>

\* daemon_ok(ReloadConfig), daemon_ok(SetOpacity)
SaveAsks ==
    /\ req["save"].op = "none"
    /\ \E op \in {"reload", "opacity"}, arg \in Policies :
          /\ \/ save.at \in {"reload", "reload again"} /\ op = "reload" /\ arg = Inherit
             \/ save.at = "opacity" /\ op = "opacity" /\ arg = save.opacity
             \/ save.at = "opacity again" /\ op = "opacity" /\ arg = save.prevOpacity
          /\ \/ Sent("save", op, arg) /\ NoFault
             \/ NotSent("save", op, arg)
    /\ UNCHANGED <<config, rule, stored, daemon, mismatch, save, before, quiet, manual,
                   rash, misread>>

\* What comes after an answer; those to the requests of the way back are not read.
NoRollback(ok) ==
    CASE save.at = "reload"  -> IF ok THEN [save EXCEPT !.at = "opacity"] ELSE Ended("undone")
      [] save.at = "opacity" ->
           IF ok THEN [save EXCEPT !.at = "result"] ELSE Ended("undone")
      [] OTHER -> Ended("undone")
FileOnly(ok) ==
    CASE save.at = "reload"  ->
           IF ok THEN [save EXCEPT !.at = "opacity"]
           ELSE [save EXCEPT !.at = "restore", !.outcome = "reload failed"]
      [] save.at = "opacity" ->
           IF ok THEN [save EXCEPT !.at = "result"]
           ELSE [save EXCEPT !.at = "restore", !.outcome = "opacity failed"]
      [] OTHER -> Ended("undone")
AfterAnswer(ok) ==
    CASE save.at = "reload"  ->
           IF ok THEN [save EXCEPT !.at = "opacity"]
           ELSE [save EXCEPT !.at = "restore", !.outcome = "reload failed"]
      [] save.at = "opacity" ->
           IF ok THEN [save EXCEPT !.at = "result"]
           ELSE [save EXCEPT !.at = "restore", !.outcome = "opacity failed"]
      [] save.at = "reload again" /\ save.outcome = "opacity failed" ->
           [save EXCEPT !.at = "opacity again"]
      [] OTHER -> Ended("undone")

SaveAnswered ==
    /\ req["save"].at = "answered"
    /\ save' = AfterAnswer(req["save"].ok)
    /\ req' = [req EXCEPT !["save"] = Free]
    /\ NoFault
    /\ UNCHANGED <<config, rule, stored, daemon, mismatch, before, quiet, manual, rash,
                   misread, overlap, skewed>>

\* load_settings, for the page: when the file cannot be read or is rejected, the save
\* ends with an error after all, and nothing is put back.
Report ==
    /\ save.at = "result"
    /\ \/ config \notin Rejected /\ save' = Ended("saved") /\ NoFault
       \/ config \in Rejected /\ save' = Ended("unread") /\ NoFault
       \/ config \in Config /\ save' = Ended("unread") /\ Fault
    /\ UNCHANGED <<config, rule, stored, daemon, mismatch, req, before, quiet, manual,
                   rash, misread, overlap, skewed>>

\* restore_file: the bytes that were there, or no file.
Restore ==
    /\ save.at = "restore"
    /\ \/ config' = save.prev /\ save' = [save EXCEPT !.at = "reload again"] /\ NoFault
       \/ save' = Ended("stuck") /\ Fault /\ UNCHANGED config
    /\ UNCHANGED <<rule, stored, daemon, mismatch, req, before, quiet, manual, rash,
                   misread, overlap, skewed>>

Saving ==
    \/ ReadPrevious \/ SaveStatus \/ Merge \/ WriteConfig
    \/ SaveAsks \/ SaveAnswered \/ Restore \/ Report

Next ==
    \/ \E t \in Clients : Serve(t)
    \/ Tick \/ Crash \/ Stop \/ Start \/ Serving
    \/ Ask \/ Edit
    \/ BeginSave \/ Saving

Spec == Init /\ [][Next]_vars

-------------------------------------------------------------------------------
(* Properties *)

\* "The UI writes only the fields it owns and preserves unrelated manual
\* configuration", whatever else fails, as long as the save reads the file as a text
\* both times and nobody else writes it during the save.
ManualPartKept == rash \/ misread # {} \/ RestOf(config) = manual

\* "Failed settings application rolls the file back": when save_settings ends because
\* it could not write the file, or a request failed, and the way back did not fail, the
\* file is what it was when the save began, whatever the daemon and other clients did
\* meanwhile, if the first read of it did not fail.  A save that ends because the
\* settings could not be read in the end puts nothing back: SavedIsInEffect is of it.
Undone == save'.at = "idle" /\ save'.outcome \in {"rejected", "undone"}
FailedSaveRestoresFile ==
    [][save.at # "idle" /\ Undone /\ ~rash /\ "back" \notin misread
         => config' = before.file]_vars

\* And the daemon, if it was there all the time, the file was one it accepts, and no
\* more than one thing failed, has the opacity it had, and runs what it ran or what the
\* file says: the way back of a request that was carried out though its answer was lost.
FailedSaveRestoresDaemon ==
    /\ save.at = "idle" /\ save.outcome \in {"rejected", "undone"}
    /\ quiet /\ troubles <= 1 /\ before.file \notin Rejected /\ daemon.at = "up"
    => /\ daemon.opacity = before.opacity
       /\ daemon.run \in {before.run, Effective(before.file)}

\* After a save whose requests have succeeded, also when it ends with an error because
\* it cannot read the file for the page, the settings are in the file, in the engine
\* and in the rule, and stay there over restarts of the daemon, until somebody changes
\* them.
SavedIsInEffect ==
    save.at = "idle" /\ save.outcome \in {"saved", "unread"} /\ quiet /\ daemon.at = "up" =>
      /\ config # Missing /\ config.ui = save.ui
      /\ daemon.run = config
      /\ daemon.opacity = save.opacity
      /\ rule = save.opacity

\* Whenever no request that sets the opacity is under way, Niri's rule is the
\* engine's policy, also after failed writes and ends of the daemon in between;
\* requests that overlap and presets that fail half-way are the exceptions.
RuleIsPolicy ==
    daemon.at = "up" /\ ~skewed /\ (\A t \in Clients : ~SetsOpacity(t)) =>
      rule = daemon.opacity
===============================================================================

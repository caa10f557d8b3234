------------------------------- MODULE Detector -------------------------------
(***************************************************************************)
(* Which windows are Picture-in-Picture windows, and of which profile.     *)
(*                                                                         *)
(* A detector has filters a window must pass and a score that traits of    *)
(* the window add to; among the detectors that reach the threshold the one *)
(* with the highest score gives the window its profile.  A regular         *)
(* expression is the set of the texts it matches.                          *)
(***************************************************************************)
EXTENDS Integers, Sequences

\* Texts that the built-in expressions tell apart; "" is also an absent one.
Titles == {"picture-in-picture", "picture in picture", "another", ""}
AppIds == {"", "firefox", "chromium", "another"}
Families == {"firefox", "chromium", "brave", "vivaldi", "edge"}
Unbounded == 65535

\* WindowInfo as the detectors see it: width and height are 0 while unknown.
Metadata == [title : Titles, app : AppIds, width : 0 .. Unbounded, height : 0 .. Unbounded,
             floating : BOOLEAN, pid : BOOLEAN]

\* DetectorConfig: a filter that is absent lets everything through.  "none" is what the
\* engine's model calls no detector.
DetectorConfig ==
    [name : STRING \ {"none"}, enabled : BOOLEAN, titles : SUBSET Titles,
     apps : SUBSET AppIds, notTitles : SUBSET Titles, notApps : SUBSET AppIds,
     floating : SUBSET BOOLEAN, minWidth : Nat, maxWidth : Nat, minHeight : Nat,
     maxHeight : Nat, score : Int, compact : Int, aspect : Int, emptyApp : Int, pid : Int,
     new : Int, action : {"pip", "ignore"}]

\* DetectorConfig::default()
AnyDetector ==
    [name |-> "unnamed", enabled |-> TRUE, titles |-> Titles, apps |-> AppIds,
     notTitles |-> {}, notApps |-> {}, floating |-> BOOLEAN,
     minWidth |-> 0, maxWidth |-> Unbounded, minHeight |-> 0, maxHeight |-> Unbounded,
     score |-> 100, compact |-> 0, aspect |-> 0, emptyApp |-> 0, pid |-> 0, new |-> 0,
     action |-> "pip"]

AnyPip == {"picture-in-picture", "picture in picture"}

\* default_detectors
DefaultDetectors == <<
    [AnyDetector EXCEPT !.name = "chromium-empty-app-id", !.titles = AnyPip, !.apps = {""},
        !.score = 155, !.compact = 10, !.aspect = 10, !.emptyApp = 20, !.new = 5],
    [AnyDetector EXCEPT !.name = "firefox-pip", !.titles = {"picture-in-picture"},
        !.apps = {"firefox"}, !.score = 150, !.compact = 10, !.aspect = 10, !.new = 5],
    [AnyDetector EXCEPT !.name = "chromium-family-pip", !.titles = AnyPip,
        !.apps = {"chromium"}, !.score = 145, !.compact = 10, !.aspect = 10, !.new = 5],
    [AnyDetector EXCEPT !.name = "generic-pip-title", !.titles = AnyPip,
        !.maxWidth = 1280, !.maxHeight = 900, !.score = 105, !.compact = 5, !.aspect = 5]>>

\* builtin_detector_enabled, for the set of browsers that are switched on.
BuiltinEnabled(name, browsers) ==
    CASE name = "firefox-pip" -> "firefox" \in browsers
      [] name \in {"chromium-empty-app-id", "chromium-family-pip"} ->
            browsers \ {"firefox"} # {}
      [] OTHER -> TRUE

\* CompiledDetector::score: the required filters ...
Eligible(d, w) ==
    /\ d.enabled
    /\ w.title \in d.titles \ d.notTitles
    /\ w.app \in d.apps \ d.notApps
    /\ w.floating \in d.floating
    /\ w.width \in d.minWidth .. d.maxWidth
    /\ w.height \in d.minHeight .. d.maxHeight

\* ... and the bonuses.  A ratio within 0.20 of 16:9, in whole numbers.
Compact(w) == w.width \in 1 .. 1280 /\ w.height \in 1 .. 900
Wide(w) ==
    LET off == 9 * w.width - 16 * w.height IN
    w.height > 0 /\ 5 * off <= 9 * w.height /\ -5 * off <= 9 * w.height
Score(d, w, isNew) ==
    d.score + (IF Compact(w)   THEN d.compact  ELSE 0)
            + (IF Wide(w)      THEN d.aspect   ELSE 0)
            + (IF w.app = ""   THEN d.emptyApp ELSE 0)
            + (IF w.pid        THEN d.pid      ELSE 0)
            + (IF isNew        THEN d.new      ELSE 0)

NoMatch == [name |-> "none", action |-> "none"]

\* detect: of those with the highest score the last (max_by_key).
Detect(detectors, browsers, threshold, w, isNew) ==
    LET matches == {i \in DOMAIN detectors :
                        /\ BuiltinEnabled(detectors[i].name, browsers)
                        /\ Eligible(detectors[i], w)
                        /\ Score(detectors[i], w, isNew) >= threshold}
        Better(i, j) == \/ Score(detectors[i], w, isNew) > Score(detectors[j], w, isNew)
                        \/ Score(detectors[i], w, isNew) = Score(detectors[j], w, isNew) /\ i >= j
    IN  IF matches = {} THEN NoMatch
        ELSE LET best == CHOOSE i \in matches : \A j \in matches : Better(i, j)
             IN  [name |-> detectors[best].name, action |-> detectors[best].action]
===============================================================================

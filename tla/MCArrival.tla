------------------------------ MODULE MCArrival -------------------------------
(* Small instances of Arrival for TLC: an ordinary window, a PiP of Chromium    *)
(* whose title, app-id and size come late, and a window that only its title     *)
(* makes a PiP.                                                                 *)
EXTENDS Arrival

CONSTANTS w, p, q

Plain == [title |-> "another", app |-> "another", width |-> 1920, height |-> 1080,
          floating |-> FALSE, pid |-> TRUE]
Pip   == [Plain EXCEPT !.title = "picture in picture", !.width = 640, !.height = 360]
MCStages == [x \in Windows |->
    IF x = w THEN <<Plain>>
    ELSE IF x = p
         THEN <<[Pip EXCEPT !.title = "", !.app = "", !.width = 0, !.height = 0],
                [Pip EXCEPT !.app = ""], [Pip EXCEPT !.app = "chromium", !.width = 1600]>>
         ELSE <<Pip, [Pip EXCEPT !.width = 1400]>>]

\* The defaults, a detector of the user's that wins over the generic one only by
\* coming later, and one that keeps a window out.
MCDetectors == DefaultDetectors \o
    <<[AnyDetector EXCEPT !.name = "mine", !.titles = AnyPip, !.apps = {"another"},
          !.score = 115],
      [AnyDetector EXCEPT !.name = "not-that", !.titles = AnyPip, !.apps = {"another"},
          !.score = 120, !.minWidth = 1400, !.action = "ignore"]>>

MCBeginnings == {{w}, {w, p}}
MCBrowsers == {Families, {"firefox"}}
MCLimits == [k \in Happenings |-> IF k \in {"open", "change"} THEN 2 ELSE 1]

ASSUME MCDetectorsAssumption == NewIsNoLoss /\ TextDecides
===============================================================================

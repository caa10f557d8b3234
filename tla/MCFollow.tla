------------------------------- MODULE MCFollow -------------------------------
(* Small instances of Follow for TLC: a PiP p and an ordinary window w, two     *)
(* workspaces on the laptop's output and one on an external output.             *)
EXTENDS Follow, TLC

CONSTANTS p, w, s1, s2, s3

TwoOutputs == [ws \in Workspaces |-> IF ws = s3 THEN "HDMI-1" ELSE "eDP-1"]
Following  == [follow |-> TRUE, stay |-> FALSE]
Staying    == [follow |-> TRUE, stay |-> TRUE]

\* w is open on the first workspace, which has the focus; p may already be open.
Beginnings ==
    {[loc |-> [win \in Windows |-> IF win = w THEN s1 ELSE at],
      name |-> [ws \in Workspaces |-> NoName], focus |-> s1] : at \in {s2, NoWs}}

UpTo(n, kinds) == [what \in Happenings |-> IF what \in kinds THEN n ELSE 0]
Everything == [UpTo(1, Happenings) EXCEPT !["request"] = 2]
Switching  ==
    [UpTo(1, Happenings \ {"toggle", "move", "fault", "cut"})
        EXCEPT !["request"] = 3, !["focus"] = 2]

Tasks == Permutations(Workers)
===============================================================================

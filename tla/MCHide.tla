-------------------------------- MODULE MCHide --------------------------------
(* Small instances of Hide for TLC: two windows, three workspaces, one output. *)
EXTENDS Hide, TLC

CONSTANTS w1, w2, s1, s2, s3

OneOutput == [ws \in Workspaces |-> "eDP-1"]
OnlyTheSecond == {w2}

\* Each window alone on its workspace; the third workspace is empty.
Apart ==
    {[loc |-> [win \in Windows |-> IF win = w1 THEN s1 ELSE s2],
      name |-> [ws \in Workspaces |-> NoName], focus |-> s1]}

\* What the world may do: each thing in `kinds` up to n times.
UpTo(n, kinds) == [what \in Happenings |-> IF what \in kinds THEN n ELSE 0]
Nothing        == UpTo(0, {})
Mishaps        == [UpTo(1, Happenings \ {"focus", "move", "drop", "reload"}) EXCEPT !["pin"] = 2]
FocusAndFault  == UpTo(1, {"focus", "fault"})
Meddling       == UpTo(1, {"focus", "move", "reload", "drop"})

\* Requests are interchangeable.
Requests == Permutations(Tasks)
===============================================================================

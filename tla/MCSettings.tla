------------------------------ MODULE MCSettings ------------------------------
(* Small instances of Settings for TLC. *)
EXTENDS Settings

\* The key Settings owns is changed or not; the other keys are as Config::default()
\* has them or switch niri-pip off.
MCUis == {"ui", "changed"}
MCRests == {"rest", "disabled"}

\* One save and two more things that happen; each of them once, faults twice.
MCLimits == [k \in Happenings |-> IF k = "fault" THEN 2 ELSE 1]
===============================================================================

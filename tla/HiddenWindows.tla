----------------------------- MODULE HiddenWindows -----------------------------
(***************************************************************************)
(* What hiding promises to clients that wait for each other: windows leave *)
(* and return one at a time, and the service counts as hidden what is away *)
(* the moment a request succeeds.  A hide that fails has its window return *)
(* and a restore that fails has its windows leave again, without anything  *)
(* being counted.                                                          *)
(***************************************************************************)
CONSTANT Windows

VARIABLES hidden,   \* the windows that count as hidden
          away      \* the windows that are on the service workspace

Init == hidden = {} /\ away = {}

\* To be hidden, when no other request is half done; or back after a failed restore.
Leave(win) ==
    /\ away \subseteq hidden
    /\ win \notin hidden => away = hidden
    /\ away' = away \cup {win}
    /\ UNCHANGED hidden

\* To be restored; or back after a failed hide.
Return(win) ==
    /\ IF win \in hidden THEN away \subseteq hidden ELSE away = hidden \cup {win}
    /\ away' = away \ {win}
    /\ UNCHANGED hidden

\* A request succeeds.
Count == hidden' = away /\ UNCHANGED away

Next == (\E win \in Windows : Leave(win) \/ Return(win)) \/ Count
Spec == Init /\ [][Next]_<<hidden, away>>
===============================================================================

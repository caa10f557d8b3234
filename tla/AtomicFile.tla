------------------------------ MODULE AtomicFile ------------------------------
(***************************************************************************)
(* What "state writes are atomic" promises: the file holds one of the      *)
(* states that were handed over to be written, whole, and changes from one *)
(* to another in a single step.  Nothing is promised once writes overlap.  *)
(***************************************************************************)
CONSTANTS Values, Absent   \* the states, and what a missing file holds

VARIABLES file,        \* what a reader finds
          offered,     \* the states that writers have or had to write
          overlapped   \* two writers had a state to write at a time

Init == file = Absent /\ offered = {} /\ overlapped = FALSE

\* A writer is given a state.
Offer == \E v \in Values : offered' = offered \cup {v} /\ UNCHANGED <<file, overlapped>>

\* A write takes effect.
Replace == file' \in offered /\ UNCHANGED <<offered, overlapped>>

\* From the first overlap on, the file may hold anything.
Overlap == overlapped'

Next == Offer \/ Replace \/ Overlap
Spec == Init /\ [][Next]_<<file, offered, overlapped>>
===============================================================================

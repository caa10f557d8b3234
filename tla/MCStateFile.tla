------------------------------ MODULE MCStateFile ------------------------------
(* Small instances of StateFile for TLC. *)
EXTENDS StateFile, TLC

\* Saves are interchangeable.
Saves == Permutations(Savers)
===============================================================================

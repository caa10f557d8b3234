------------------------------ MODULE MCGeometry ------------------------------
(* Small instances of Geometry for TLC: two sizes and two spots to choose from. *)
EXTENDS Geometry, TLC

CONSTANTS small, big, large, left, inner, deep, right, middle

\* A bar at the left: windows come further in each time they are placed, up to the right.
Bars == [p \in AllSpots |-> CASE p = left -> inner [] p = inner -> deep [] OTHER -> p]
BackAndForth == [p \in AllSpots |-> IF p = left THEN right ELSE left]
Floating == {[float |-> TRUE, size |-> big, pos |-> left]}
Anyhow == Floating \cup {[float |-> FALSE, size |-> big, pos |-> None]}

ASSUME Apart
===============================================================================

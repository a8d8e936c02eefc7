-------------------------- MODULE MCIncrementalMars --------------------------
(* Two versions users come from: both have all platforms, or one of them was  *)
(* for Android only.                                                          *)
EXTENDS IncrementalMars

CONSTANTS linux, macos

AllPublished == [f \in Froms |-> Platforms]
AndroidOnly == [f \in Froms |-> IF f = 1 THEN Platforms ELSE {}]
FromTheLast == [m \in Machines |-> IF m = "local" THEN {1} ELSE {}]
=============================================================================

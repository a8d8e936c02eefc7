---------------------------- MODULE MCSignNightly ----------------------------
(* Instances of SignNightly: one project with two directories, two projects *)
(* with one each, and two projects whose runs may overlap.                  *)
EXTENDS SignNightly

CONSTANTS tb, mb, linux, windows, m1, m2

TwoProcs == {tb, mb}
OneProject == [p \in {tb} |-> {linux, windows}]
TwoProjects == [p \in TwoProcs |-> IF p = tb THEN {linux} ELSE {windows}]

\* Builds of both directories on the first day, of one on the second; or on all.
SomeBuilds == [d \in {linux, windows} |-> IF d = linux THEN {1, 2} ELSE {1}]
AllBuilds == [d \in {linux, windows} |-> Days]

=============================================================================

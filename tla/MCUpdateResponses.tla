-------------------------- MODULE MCUpdateResponses --------------------------
(* The versions users of the two channels may have: those of the ChangeLog and *)
(* of its predecessors where a rule begins or ends, and some in between.       *)
EXTENDS UpdateResponses

CONSTANTS linux, windows

TwoOses == {linux, windows}
SomeTargets == {"Linux_x86_64-gcc3", "WINNT_x86-gcc3-x86", "WINNT_x86-gcc3-x64"}
BuildTargets == [t \in SomeTargets |-> IF t = "Linux_x86_64-gcc3" THEN linux ELSE windows]

Dots(major, minor, ns) == {<<major, minor, ".", n>> : n \in ns} \cup {<<major, minor, "", 0>>}
Alphas(major, minor, ns) == {<<major, minor, "a", n>> : n \in ns}

OldReleases ==
    {<<4, 5, ".", 3>>, <<5, 5, "", 0>>, <<7, 5, ".", 6>>}
    \cup Dots(8, 0, {8}) \cup Dots(9, 5, {4}) \cup Dots(10, 0, {18}) \cup Dots(10, 5, {10})
    \cup Dots(11, 0, {15}) \cup Dots(11, 5, {1, 7, 8}) \cup Dots(12, 0, {7}) \cup Dots(12, 5, {6})
    \cup Dots(13, 0, {16}) \cup Dots(13, 5, {6, 7, 9, 10, 19, 20, 28}) \cup Dots(14, 0, {9})
NewReleases == <<<<15, 0, "", 0>>, <<15, 0, ".", 1>>>>

OldAlphas ==
    {<<4, 5, "a", 3>>, <<7, 5, "a", 10>>}
    \cup Alphas(8, 0, {1, 8, 9, 10}) \cup Alphas(8, 5, {12}) \cup Alphas(9, 5, {13})
    \cup Alphas(10, 0, {9}) \cup Alphas(11, 5, {13}) \cup Alphas(12, 5, {7}) \cup Alphas(13, 0, {6})
    \cup Alphas(13, 5, {1, 9, 10, 11}) \cup Alphas(14, 0, {1, 3, 4, 9}) \cup Alphas(14, 5, {6})
    \cup Alphas(15, 0, {4}) \cup Alphas(16, 0, {9, 11})
NewAlphas == <<<<16, 0, "a", 12>>, <<16, 0, "a", 13>>, <<16, 0, "a", 14>>>>

BothChannels == {"alpha", "release"}
OldOf == [c \in BothChannels |-> IF c = "alpha" THEN OldAlphas ELSE OldReleases]
NewOf == [c \in BothChannels |-> IF c = "alpha" THEN NewAlphas ELSE NewReleases]
=============================================================================

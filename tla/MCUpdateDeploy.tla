--------------------------- MODULE MCUpdateDeploy ---------------------------
(* Two channels of Tor Browser, with two releases each: one channel gets a   *)
(* release for the desktop only, which brings a new platform, the other one  *)
(* for Android only.                                                         *)
EXTENDS UpdateDeploy

CONSTANTS ana, bob, linux, macos, android, top

TwoManagers == [m \in Managers |-> IF m = ana THEN {"alpha"} ELSE {"release"}]

LatestVersions == [c \in Channels |-> 2]
IncludedItems ==
    [c \in Channels |->
        IF c = "alpha"
        THEN [v \in 1 .. 2 |-> IF v = 1 THEN {linux, android, top} ELSE {linux, macos, top}]
        ELSE [v \in 1 .. 2 |-> IF v = 1 THEN {linux, macos, android, top}
                               ELSE {android}]]
=============================================================================

---------------------------- MODULE UpdateService ----------------------------
(***************************************************************************)
(* What the release managers and the update server promise the users of    *)
(* several channels: the responses served for a channel are those of its   *)
(* releases, one after the other and each one whole, and a release is not  *)
(* served before somebody has enabled it.  A platform a release does not   *)
(* have keeps the responses it had.  A manager who deploys by hand, naming *)
(* what is to be served, may serve older releases and parts of them, but   *)
(* none that nobody has asked for.                                         *)
(***************************************************************************)
EXTENDS Integers

CONSTANTS Channels, Items, Latest, Included

VARIABLES
    enabled,    \* enabled[c]: the release of c users should be given
    served,     \* served[c][i]: the version whose responses they get
    byHand      \* whether somebody has deployed by hand

Init ==
    /\ enabled = [c \in Channels |-> 1]
    /\ byHand = FALSE
    /\ served = [c \in Channels |-> [i \in Items |-> IF i \in Included[c][1] THEN 1 ELSE 0]]

\* Somebody enables the next release of a channel.
Enable(c) ==
    /\ ~byHand
    /\ enabled[c] < Latest[c]
    /\ enabled' = [enabled EXCEPT ![c] = @ + 1]
    /\ UNCHANGED <<served, byHand>>

\* The server's tree goes to the mirrors: all that is enabled of some channels.
Serve(C) ==
    /\ ~byHand
    /\ served' = [c \in Channels |-> [i \in Items |->
            IF c \in C /\ i \in Included[c][enabled[c]] THEN enabled[c] ELSE served[c][i]]]
    /\ UNCHANGED <<enabled, byHand>>

\* From here on the releases are in somebody's hands.
ByHand ==
    /\ byHand'
    /\ \A c \in Channels : /\ enabled'[c] >= enabled[c]
                           /\ \A i \in Items : served'[c][i] <= enabled'[c]

Next == (\E c \in Channels : Enable(c)) \/ (\E C \in SUBSET Channels : Serve(C)) \/ ByHand

Spec == Init /\ [][Next]_<<enabled, served, byHand>>
=============================================================================

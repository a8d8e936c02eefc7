-------------------------- MODULE MCSigningMachine --------------------------
(***************************************************************************)
(* What happens on the signing machine: the sessions of two projects       *)
(* (LinuxSigner), and the steps of a Tor VPN release, which has no         *)
(* wrapper with a shared output (DoAllSigning).  A behaviour is one of     *)
(* them; what belongs to the other stays as it is.                         *)
(***************************************************************************)
EXTENDS LinuxSigner, DoAllSigning

VARIABLE part       \* what the behaviour is one of

\* Two sessions and a failure; or one session, with more failures and runs.
Scenarios ==
    {[sessions |-> {"tor mars", "mullvad mars"}, failures |-> 1, runs |-> 2],
     [sessions |-> {"tor exes", "mullvad exes"}, failures |-> 1, runs |-> 2],
     [sessions |-> {"tor mars"}, failures |-> 2, runs |-> 3],
     [sessions |-> {"tor exes"}, failures |-> 2, runs |-> 3]}

NoScenario == [sessions |-> {}, failures |-> 0, runs |-> 0]

MachineInit == part \in Scenarios \cup {NoScenario} /\ SignerInit /\ Init

MachineNext ==
    \/ /\ part # NoScenario /\ SignerNext /\ UNCHANGED <<part, vars>>
       /\ failures' <= part.failures
       /\ \A s \in Sessions : client'[s] <= (IF s \in part.sessions THEN part.runs ELSE 0)
    \/ part = NoScenario /\ Next /\ UNCHANGED <<part, signerVars>>

MachineSpec == MachineInit /\ [][MachineNext]_<<part, vars, signerVars>>

-----------------------------------------------------------------------------
TwoOfEach == {"tor mars", "mullvad mars", "tor exes", "mullvad exes"}
Outs == [s \in TwoOfEach |-> IF s \in {"tor mars", "mullvad mars"} THEN "mar" ELSE "exe"]
SomeItems == {"linux.mar", "mac.mar", "mullvad.mar", "tor.exe", "mullvad.exe"}
Signers ==
    [i \in SomeItems |->
        CASE i \in {"linux.mar", "mac.mar"} -> "tor mars"
          [] i = "mullvad.mar" -> "mullvad mars"
          [] i = "mullvad.exe" -> "mullvad exes"
          [] OTHER -> "tor exes"]

\* A Tor VPN release: apks and a bundle, no desktop artifact.
VpnPlatforms == {"android"}
VpnFiles == {"dmg", "hfs", "qa.apk", "arm.apk", "x86.apk", "vpn.aab"}
VpnKind ==
    [f \in VpnFiles |-> CASE f = "qa.apk" -> "qa"
                          [] f \in {"arm.apk", "x86.apk"} -> "apk"
                          [] f = "vpn.aab" -> "aab"
                          [] OTHER -> f]
=============================================================================

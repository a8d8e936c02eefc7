--------------------------- MODULE MCDoAllSigning ---------------------------
(* Instances of DoAllSigning for TLC.                                       *)
EXTENDS DoAllSigning

AllPlatforms == {"android", "desktop", "macos", "windows"}
MacosOnly == {"desktop", "macos"}

\* A Tor Browser release with an artifact of every kind.
BrowserFiles == {"dmg", "hfs", "mac.mar", "mac.incremental.mar", "linux.mar",
                 "installer.exe", "arm.apk", "tests.apk"}

\* The macOS part of a release, with two incrementals.
MacFiles == {"dmg", "hfs", "mac.mar", "mac.incremental.mar",
             "mac2.incremental.mar"}

KindOf ==
    [f \in BrowserFiles \cup MacFiles |->
        CASE f = "mac.mar" -> "macmar"
          [] f \in {"mac.incremental.mar", "mac2.incremental.mar"} -> "macinc"
          [] f = "linux.mar" -> "mar"
          [] f = "installer.exe" -> "exe"
          [] f = "arm.apk" -> "apk"
          [] f = "tests.apk" -> "test"
          [] OTHER -> f]

BrowserKind == [f \in BrowserFiles |-> KindOf[f]]
MacKind == [f \in MacFiles |-> KindOf[f]]

=============================================================================

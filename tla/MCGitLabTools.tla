---------------------------- MODULE MCGitLabTools ----------------------------
(***************************************************************************)
(* The two tools that ask GitLab, side by side: a behaviour is one of      *)
(* update_manual.py (UpdateManual) or one of fetch_changelogs.py           *)
(* (Changelog); what belongs to the other one stays as it is.                *)
(***************************************************************************)
EXTENDS UpdateManual, Changelog

CONSTANTS ana, bob

VARIABLE tool

ToolsInit ==
    /\ tool \in {"changelog", "manual"}
    /\ Init /\ ChangelogInit
    /\ tool = "manual" => \A i \in Issues : labels[i] = {"Build System"}

ToolsNext ==
    \/ tool = "manual" /\ Next /\ UNCHANGED <<tool, changelogVars>>
    \/ tool = "changelog" /\ ChangelogNext /\ UNCHANGED <<tool, vars>>

ToolsSpec ==
    /\ ToolsInit /\ [][ToolsNext]_<<tool, vars, changelogVars>>
    /\ tool = "manual" => Fairness

-----------------------------------------------------------------------------
(* Three relpreps, the text of one's version being the beginning of         *)
(* another's, a ticket that is none, and issues of which one has no place in *)
(* the order of projects, with labels for one platform, some, all of the    *)
(* desktop's, none.                                                         *)
Preps == {1, 2, 3}
Numbers == Preps \cup {6}
Titles == [r \in Numbers |-> CASE r = 2 -> "14.5.1" [] r = 6 -> "" [] OTHER -> "14.5"]
Searched == [v \in {"14.5", "14.5.1", "6"} |->
    CASE v = "14.5" -> Preps [] v = "14.5.1" -> {2} [] OTHER -> {}]
ThreeIssues ==
    {[project |-> "tor-browser", number |-> 7], [project |-> "mullvad-browser", number |-> 5],
     [project |-> "tor", number |-> 9]}
SomeLabels ==
    {{"Desktop"}, {"Windows", "MacOS"}, {"Linux", "Android", "Build System"},
     {"Android"}, {"Windows", "Linux", "Android", "Build System"}, {"Build System"}}
SomeLinks ==
    {[r \in Numbers |-> CASE r = 1 -> ThreeIssues
                        [] r \in {2, 6} -> {[project |-> "tor", number |-> 9]}
                        [] OTHER -> {i \in ThreeIssues : i.project # "tor"}]}
NotGiven ==
    [version |-> "", number |-> 0, browser |-> "any", include |-> {}, exclude |-> {}, updates |-> {}]
Arguments ==
    {[NotGiven EXCEPT !.version = "14.5", !.browser = b, !.updates = {"Firefox", "Go"}] :
        b \in {"any", "tb", "mb"}} \cup
    {[NotGiven EXCEPT !.version = "14.5.1", !.include = {1, 2}],
     [NotGiven EXCEPT !.version = "14.5.1", !.include = {3}],
     [NotGiven EXCEPT !.number = 1, !.exclude = {2}, !.updates = {"Firefox", "Go", "Zstandard"}],
     [NotGiven EXCEPT !.number = 2, !.browser = "mb"],
     [NotGiven EXCEPT !.version = "6", !.number = 6, !.include = {1}],
     [NotGiven EXCEPT !.number = 6, !.exclude = {1, 9}]}
=============================================================================

--------------------------- MODULE IncrementalMars ---------------------------
(***************************************************************************)
(* The incremental mar files of a release.  They are made twice: on the    *)
(* build machine ("builder", make torbrowser-incrementals-$channel), from  *)
(* the mars of the versions users come from to the unsigned mars of the    *)
(* new one; and again for macOS on the signing manager's machine ("local", *)
(* make torbrowser-dmg2mar-$channel), when the mar of the new version has  *)
(* been replaced by one made from the signed dmg.                          *)
(*                                                                         *)
(* gen_incrementals forks a child for each file and exits on the first one *)
(* that fails.  Nobody stops the others.  On the build machine the command *)
(* can then be run again while they are at work; on the other machine      *)
(* do_step has their output in a pipe and does not return before they have *)
(* exited.                                                                 *)
(***************************************************************************)
EXTENDS Integers, FiniteSets

CONSTANTS
    Platforms,      \* platforms with a mar in the new version
    MacOS,          \* the one of them whose mar is made again from the dmg
    NumFrom,        \* length of incremental_from
    Published,      \* Published[f]: platforms with a mar in the archive
    Present,        \* Present[m]: the versions m has already
    NumProcs,       \* get_nbprocs
    MaxFailures     \* bound on failed commands, failed children and kills

Machines == {"builder", "local"}
Froms == 1 .. NumFrom
Tasks == Froms \X Platforms

ASSUME SizesAssumption ==
    NumFrom \in Nat \ {0} /\ NumProcs \in Nat \ {0} /\ MaxFailures \in Nat
ASSUME VersionsAssumption ==
    /\ Published \in [Froms -> SUBSET Platforms]
    /\ Present \in [Machines -> SUBSET Froms]
ASSUME MacOSAssumption == MacOS \in Platforms

VARIABLES
    prev,       \* prev[m][f] = [dir : is there a directory, mars : what is in it]
    inc,        \* inc[m][t]: the new version's bundle that incremental mar t leads to
    full,       \* the same of the mar of macOS on the local machine
    list,       \* list[m]: sha256sums-unsigned-build.incrementals.txt
    pc, cur,    \* of the command on m; cur[m]: the version it downloads
    todo,       \* todo[m]: files gen_incrementals has not dealt with
    pid,        \* pid[m]: the last run of the command
    children,   \* [m, parent, task, status]
    built, synced, converted, failures

files == <<prev, inc, full, list>>
progress == <<built, synced, converted>>
vars == <<files, pc, cur, todo, pid, children, progress, failures>>

Init ==
    /\ prev = [m \in Machines |-> [f \in Froms |->
                  [dir |-> f \in Present[m],
                   mars |-> IF f \in Present[m] THEN Published[f] ELSE {}]]]
    /\ inc = [m \in Machines |-> [t \in Tasks |-> "none"]]
    /\ full = "unsigned"
    /\ list = [m \in Machines |-> {}]
    /\ pc = [m \in Machines |-> "idle"]
    /\ cur = [m \in Machines |-> 0]
    /\ todo = [m \in Machines |-> {}]
    /\ pid = [m \in Machines |-> 0]
    /\ children = {}
    /\ built = FALSE /\ synced = FALSE /\ converted = FALSE
    /\ failures = 0

Goto(m, l) == pc' = [pc EXCEPT ![m] = l]

\* The children of the command that pid on m; the others have lost their parent.
Attached(m) == {k \in children : k.m = m /\ k.parent = pid[m] /\ pc[m] \in {"gen", "wait"}}

Unused(m) ==
    CHOOSE n \in 1 .. Cardinality(children) + 1 :
        \A k \in children : k.m = m => k.parent # n

-----------------------------------------------------------------------------
(* The commands of the Makefile.                                           *)

\* make torbrowser-incrementals-$channel
StartBuilder ==
    /\ pc["builder"] = "idle" /\ ~built
    /\ pid' = [pid EXCEPT !["builder"] = Unused("builder")]
    /\ Goto("builder", "missing")
    /\ UNCHANGED <<files, cur, todo, children, progress, failures>>

\* wait-for-finished-build, sync-builder-unsigned-to-local-signed
Sync ==
    /\ built /\ ~synced
    /\ inc' = [inc EXCEPT !["local"] = inc["builder"]]
    /\ list' = [list EXCEPT !["local"] = list["builder"]]
    /\ synced' = TRUE
    /\ UNCHANGED <<prev, full, pc, cur, todo, pid, children, built, converted, failures>>

\* make torbrowser-dmg2mar-$channel, in the step dmg2mar of do-all-signing: it is
\* not started again before tee has read the end of the last one's output.
StartLocal ==
    /\ pc["local"] = "idle" /\ synced /\ ~converted
    /\ \A k \in children : k.m # "local"
    /\ pid' = [pid EXCEPT !["local"] = Unused("local")]
    /\ Goto("local", "convert")
    /\ UNCHANGED <<files, cur, todo, children, progress, failures>>

\* dmg2mar: unlink $output; make_full_update.sh
UnlinkFull ==
    /\ pc["local"] = "convert"
    /\ full' = "none"
    /\ Goto("local", "full")
    /\ UNCHANGED <<prev, inc, list, cur, todo, pid, children, progress, failures>>

MakeFull ==
    /\ pc["local"] = "full"
    /\ full' = "signed"
    /\ Goto("local", "remove")
    /\ UNCHANGED <<prev, inc, list, cur, todo, pid, children, progress, failures>>

\* remove_incremental_mars: the incremental mars of macOS that the list names.
ToRemove_NewestOnly == {t \in list["local"] : t = <<1, MacOS>>}

ToRemove == {t \in list["local"] : t[2] = MacOS}

RemoveIncrementalMars ==
    /\ pc["local"] = "remove"
    /\ inc' = [inc EXCEPT !["local"] =
                  [t \in Tasks |-> IF t \in ToRemove THEN "none" ELSE @[t]]]
    /\ Goto("local", "missing")
    /\ UNCHANGED <<prev, full, list, cur, todo, pid, children, progress, failures>>

-----------------------------------------------------------------------------
(* download_missing_versions                                               *)

Missing(m) == {f \in Froms : ~prev[m][f].dir}

\* download_version makes the directory of the next version there is none of ...
DownloadVersion(m) ==
    /\ pc[m] = "missing"
    /\ \E f \in Missing(m) :
         /\ \A g \in Missing(m) : f <= g
         /\ prev' = [prev EXCEPT ![m][f].dir = TRUE]
         /\ cur' = [cur EXCEPT ![m] = f]
    /\ Goto(m, "mars")
    /\ UNCHANGED <<inc, full, list, todo, pid, children, progress, failures>>

\* ... and moves the mars there, one by one.
DownloadMar(m) ==
    /\ pc[m] = "mars"
    /\ \E p \in Published[cur[m]] \ prev[m][cur[m]].mars :
         prev' = [prev EXCEPT ![m][cur[m]].mars = @ \cup {p}]
    /\ UNCHANGED <<inc, full, list, pc, cur, todo, pid, children, progress, failures>>

DownloadedVersion(m) ==
    /\ pc[m] = "mars"
    /\ Published[cur[m]] \subseteq prev[m][cur[m]].mars
    /\ Goto(m, "missing")
    /\ UNCHANGED <<files, cur, todo, pid, children, progress, failures>>

-----------------------------------------------------------------------------
(* gen_incrementals                                                        *)

\* Platforms that have a complete mar in the old version and in the new one.
Wanted(m) == {t \in Tasks : t[2] \in prev[m][t[1]].mars}

GenIncrementals(m) ==
    /\ pc[m] = "missing" /\ Missing(m) = {}
    /\ todo' = [todo EXCEPT ![m] = Wanted(m)]
    /\ Goto(m, "gen")
    /\ UNCHANGED <<files, cur, pid, children, progress, failures>>

\* MAR_SKIP_EXISTING, which dmg2mar's target sets.
Skipped_Never(m, t) == FALSE

Skipped(m, t) == m = "local" /\ inc[m][t] # "none"

Busy(m) == Cardinality(Attached(m)) >= NumProcs

\* The versions in their order, the platforms in any.
CreateIncrementalMar(m) ==
    /\ pc[m] = "gen"
    /\ \E t \in todo[m] :
         /\ \A u \in todo[m] : t[1] <= u[1]
         /\ todo' = [todo EXCEPT ![m] = @ \ {t}]
         /\ IF Skipped(m, t)
            THEN UNCHANGED children
            ELSE /\ ~Busy(m)
                 /\ children' = children \cup
                        {[m |-> m, parent |-> pid[m], task |-> t, status |-> "running"]}
    /\ UNCHANGED <<files, pc, cur, pid, progress, failures>>

WaitAllChildren(m) ==
    /\ pc[m] = "gen" /\ todo[m] = {}
    /\ Goto(m, "wait")
    /\ UNCHANGED <<files, cur, todo, pid, children, progress, failures>>

Die(m) ==
    /\ Goto(m, "idle")
    /\ cur' = [cur EXCEPT ![m] = 0]
    /\ todo' = [todo EXCEPT ![m] = {}]

\* run_on_finish: exit_error unless the child's exit code is 0.
Failed_Never(k) == FALSE

Failed(k) == k.status = "failed"

FinishedFile(m) ==
    \E k \in Attached(m) :
        /\ k.status # "running"
        /\ IF Failed(k)
           THEN Die(m) /\ children' = children \ {j \in Attached(m) : j.status # "running"}
           ELSE children' = children \ {k} /\ UNCHANGED <<pc, cur, todo>>
        /\ UNCHANGED <<files, pid, progress, failures>>

\* What a child that ends leaves: its status for its parent, if there still is one.
Ends(k, status) ==
    children' = (children \ {k}) \cup
        (IF k \in Attached(k.m) THEN {[k EXCEPT !.status = status]} ELSE {})

\* CHECK_CODESIGNATURE_EXISTS, which dmg2mar's target sets: a bundle of macOS that
\* is signed, or exit_error.
SignatureMissing(k) == k.m = "local" /\ ~(k.task[2] = MacOS /\ full = "signed")

ChildRefuses(k) ==
    /\ k.status = "running"
    /\ SignatureMissing(k)
    /\ Ends(k, "failed")
    /\ UNCHANGED <<files, pc, cur, todo, pid, progress, failures>>

\* make_incremental_update.sh moves the file into place when it is complete.
ChildSucceeds(k) ==
    /\ k.status = "running"
    /\ ~SignatureMissing(k)
    /\ inc' = [inc EXCEPT ![k.m][k.task] = IF k.m = "local" THEN "signed" ELSE "unsigned"]
    /\ Ends(k, "ok")
    /\ UNCHANGED <<prev, full, list, pc, cur, todo, pid, progress, failures>>

\* An archive that cannot be extracted; or an error of make_incremental_update.sh,
\* after which the child unlinks the file of that name.
ChildFails(k) ==
    /\ k.status = "running"
    /\ ~SignatureMissing(k)
    /\ failures < MaxFailures
    /\ failures' = failures + 1
    /\ \E unlink \in BOOLEAN :
         inc' = IF unlink THEN [inc EXCEPT ![k.m][k.task] = "none"] ELSE inc
    /\ Ends(k, "failed")
    /\ UNCHANGED <<prev, full, list, pc, cur, todo, pid, progress>>

AllReaped(m) == pc[m] = "wait" /\ Attached(m) = {}

\* hash_incrementals; exit 1 if there is none.
HashIncrementals ==
    /\ AllReaped("builder")
    /\ LET made == {t \in Tasks : inc["builder"][t] # "none"}
       IN  IF made = {}
           THEN Die("builder") /\ UNCHANGED <<list, built>>
           ELSE /\ list' = [list EXCEPT !["builder"] = made]
                /\ built' = TRUE
                /\ Die("builder")
    /\ UNCHANGED <<prev, inc, full, pid, children, synced, converted, failures>>

\* do_step touches dmg2mar.done.
Converted ==
    /\ AllReaped("local")
    /\ converted' = TRUE
    /\ Die("local")
    /\ UNCHANGED <<files, pid, children, built, synced, failures>>

\* A command fails, or is killed: alone, or with its children (Ctrl-C).
Fail(m) ==
    /\ pc[m] # "idle"
    /\ failures < MaxFailures
    /\ failures' = failures + 1
    /\ Die(m)
    /\ \E all \in BOOLEAN :
         children' = {k \in children : ~(k \in Attached(m) /\ (all \/ k.status # "running"))}
    /\ UNCHANGED <<files, pid, progress>>

Step(m) ==
    \/ DownloadVersion(m) \/ DownloadMar(m) \/ DownloadedVersion(m)
    \/ GenIncrementals(m) \/ CreateIncrementalMar(m) \/ WaitAllChildren(m) \/ FinishedFile(m)

Builder == StartBuilder \/ Step("builder") \/ HashIncrementals
Local ==
    \/ Sync \/ StartLocal \/ UnlinkFull \/ MakeFull \/ RemoveIncrementalMars
    \/ Step("local") \/ Converted
Child == \E k \in children : ChildRefuses(k) \/ ChildSucceeds(k) \/ ChildFails(k)

\* dmg2mar is done, and no child is left anywhere.
Terminated == converted /\ children = {} /\ UNCHANGED vars

Next == Builder \/ Local \/ Child \/ (\E m \in Machines : Fail(m)) \/ Terminated

Spec == Init /\ [][Next]_vars

\* The commands go on, are run again until they succeed, and children end.
FairSpec == Spec /\ WF_vars(Builder) /\ WF_vars(Local) /\ WF_vars(Child)

-----------------------------------------------------------------------------
\* Types, and no more children at a time than processors.
TypeOK ==
    /\ prev \in [Machines -> [Froms -> [dir : BOOLEAN, mars : SUBSET Platforms]]]
    /\ \A m \in Machines, f \in Froms : prev[m][f].mars \subseteq Published[f]
    /\ inc \in [Machines -> [Tasks -> {"none", "unsigned", "signed"}]]
    /\ full \in {"none", "unsigned", "signed"}
    /\ list \in [Machines -> SUBSET Tasks]
    /\ pc \in [Machines -> {"idle", "missing", "mars", "gen", "wait", "convert", "full", "remove"}]
    /\ cur \in [Machines -> Froms \cup {0}]
    /\ todo \in [Machines -> SUBSET Tasks]
    /\ pid \in [Machines -> Nat]
    /\ children \subseteq [m : Machines, parent : Nat, task : Tasks,
                           status : {"running", "ok", "failed"}]
    /\ \A m \in Machines : Cardinality(Attached(m)) <= NumProcs
    /\ built \in BOOLEAN /\ synced \in BOOLEAN /\ converted \in BOOLEAN
    /\ failures \in 0 .. MaxFailures

\* After dmg2mar, none of the incremental mars of macOS that the builder listed
\* leads to the bundle that is not signed (remove_incremental_mars, then
\* MAR_SKIP_EXISTING).
UnsignedAreReplaced ==
    converted => \A t \in list["local"] : t[2] = MacOS => inc["local"][t] # "unsigned"

\* What a download that died has left out, and nothing makes up for.
Incomplete(m) == {t \in Tasks : t[2] \in Published[t[1]] \ prev[m][t[1]].mars /\ prev[m][t[1]].dir}

\* After dmg2mar there is an incremental mar for every platform of every version
\* users come from, unless the download of that version died on this machine
\* (a failed child's exit code, the wait for all children, orphans).
AllIncrementals ==
    converted => \A t \in Tasks :
        t[2] \in Published[t[1]] => inc["local"][t] # "none" \/ t \in Incomplete("local")

\* One failure does no harm, except in a download: the build machine's list names
\* every incremental mar of the versions it has, and each of them stays there (it
\* takes a second one for a child without parent to unlink what the next run made).
OneFailureIsHarmless ==
    built /\ failures <= 1 =>
        /\ list["builder"] = {t \in Tasks : t[2] \in Published[t[1]]} \ Incomplete("builder")
        /\ \A t \in list["builder"] : inc["builder"][t] # "none"

\* dmg2mar succeeds in the end, if it is run often enough; unless an incremental
\* mar of another platform was not among the files synchronised from the builder, for
\* which it fails every time, or the builder has a directory for every old version and
\* no mar in any of them, and then fails every time.
NoSignature ==
    /\ synced
    /\ \E t \in Wanted("local") : t[2] # MacOS /\ inc["local"][t] = "none"
NothingToHash == ~built /\ Missing("builder") = {} /\ Wanted("builder") = {}
ConvertedOrStuck == <>[](converted \/ NoSignature \/ NothingToHash)
=============================================================================

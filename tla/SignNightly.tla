----------------------------- MODULE SignNightly -----------------------------
(***************************************************************************)
(* tools/signing/nightly/sign-nightly: every day, for every directory the  *)
(* project publishes, find the newest nightly build, fetch its mar files,  *)
(* sign them, generate the update responses that name them, and mirror the *)
(* result with rsync.  Two projects share the script's lock file, the      *)
(* configuration and output of update_responses, and the mirrored tree.    *)
(*                                                                         *)
(* A version is the day of its build; 0 stands for "none".  A process dies *)
(* by exit_error, which runs the END block, or is killed, which does not.  *)
(***************************************************************************)
EXTENDS Integers, FiniteSets

CONSTANTS
    Procs,          \* invocations of the script, one after the other for each
    Dirs,           \* publish_dirs of all the projects
    DirsOf,         \* DirsOf[p]: publish_dirs of the project p is run for
    Mars,           \* the mar files of a version
    MaxDay,         \* bound on the days
    Made,           \* Made[d]: the days of which a build of d is ever complete
    Lookback,       \* how many days before today get_last_build_version tries
    KeepDays,       \* how long the build server keeps a build
    MayOverlap,     \* FALSE: nobody starts the script while it is running
    MaxFailures     \* bound on errors and kills

Days == 1 .. MaxDay

ASSUME ProcsAssumption == DirsOf \in [Procs -> SUBSET Dirs] /\ "none" \notin Dirs
ASSUME DaysAssumption == /\ MaxDay \in Nat \ {0} /\ Lookback \in Nat /\ KeepDays \in Nat
                         /\ Lookback <= KeepDays
ASSUME MadeAssumption == Made \in [Dirs -> SUBSET Days]
ASSUME BoundsAssumption == MayOverlap \in BOOLEAN /\ MaxFailures \in Nat
ASSUME NamesAssumption == "infos" \notin Mars /\ {"none", "dead"} \cap Procs = {}

Names == Mars \cup {"infos"}      \* the mars and build-infos.json

VARIABLES
    today,
    builds,      \* builds[d]: versions complete on the build server
    lock,        \* content of the lock file: "none", a process, or "dead"
    pc, todo, dir, ver, someUpdates,    \* the processes' own state
    current,     \* current[d]: $publish_dir-current-version.txt
    dirs,        \* dirs[d]: version directories under nightly/$publish_dir
    file,        \* file[d][v][x]: "absent", "partial", "unsigned" or "signed"
    config,      \* tools/update-responses/config.yml: whose responses to make
    htdocs,      \* tools/update-responses/htdocs/nightly
    published,   \* published[d]: nightly/updates/$publish_dir/nightly
    dest,        \* dest[d][v][x]: the version directories on rsync_dest
    destResp,    \* destResp[d]: the update responses on rsync_dest
    failures

shared == <<lock, current, dirs, file, config, htdocs, published, dest, destResp>>
local == <<pc, todo, dir, ver, someUpdates>>
env == <<today, builds>>
vars == <<today, builds, lock, pc, todo, dir, ver, someUpdates, current, dirs,
          file, config, htdocs, published, dest, destResp, failures>>

\* A file of which a copy was begun is "partial".
Contents == {"partial", "unsigned", "signed"}
States == Contents \cup {"absent"}
EmptyVersion == [x \in Names |-> "absent"]

\* A set of update responses names some mars of a version of a directory, each
\* with the hash of the contents it had when they were generated.
Responses == [dir : Dirs \cup {"none"}, ver : 0 .. MaxDay,
              hash : SUBSET (Mars \X Contents)]
NoResp == [dir |-> "none", ver |-> 0, hash |-> {}]

Active == {"check", "write", "loop", "fetch", "copy", "sign", "conf", "clean",
           "gen", "unpublish", "publish", "moving", "setcur", "remove",
           "syncmars", "syncupdates", "syncdelete", "quit"}

Init ==
    /\ today = 1
    /\ builds = [d \in Dirs |-> {}]
    /\ lock = "none"
    /\ pc = [p \in Procs |-> "idle"]
    /\ todo = [p \in Procs |-> {}]
    /\ dir = [p \in Procs |-> "none"]
    /\ ver = [p \in Procs |-> 0]
    /\ someUpdates = [p \in Procs |-> FALSE]
    /\ current = [d \in Dirs |-> 0]
    /\ dirs = [d \in Dirs |-> {}]
    /\ file = [d \in Dirs |-> [v \in Days |-> EmptyVersion]]
    /\ config = NoResp
    /\ htdocs = NoResp
    /\ published = [d \in Dirs |-> NoResp]
    /\ dest = [d \in Dirs |-> [v \in Days |-> EmptyVersion]]
    /\ destResp = [d \in Dirs |-> NoResp]
    /\ failures = 0

-----------------------------------------------------------------------------
(* The calendar and the build server.                                      *)

NextDay ==
    /\ today < MaxDay
    /\ today' = today + 1
    /\ UNCHANGED <<builds, shared, local, failures>>

\* A build is named after the day it was started on and may finish later.
BuildFinishes ==
    /\ \E d \in Dirs : \E v \in {today - 1, today} \cap Made[d] :
         /\ v \notin builds[d]
         /\ builds' = [builds EXCEPT ![d] = @ \cup {v}]
    /\ UNCHANGED <<today, shared, local, failures>>

\* prune-old-builds on the build server.
BuildIsPruned ==
    /\ \E d \in Dirs : \E v \in builds[d] :
         /\ v + KeepDays < today
         /\ builds' = [builds EXCEPT ![d] = @ \ {v}]
    /\ UNCHANGED <<today, shared, local, failures>>

-----------------------------------------------------------------------------
(* run_alone and the END block.                                            *)

Goto(p, l) == pc' = [pc EXCEPT ![p] = l]

Start(p) ==
    /\ pc[p] = "idle"
    /\ MayOverlap \/ \A q \in Procs : pc[q] = "idle"
    /\ Goto(p, "check")
    /\ UNCHANGED <<env, shared, todo, dir, ver, someUpdates, failures>>

\* The lock names a live process: print a message, exit 0 (the END block runs).
RunAloneCheck(p) ==
    /\ pc[p] = "check"
    /\ Goto(p, IF lock \in Procs THEN "quit" ELSE "write")
    /\ UNCHANGED <<env, shared, todo, dir, ver, someUpdates, failures>>

RunAloneWrite(p) ==
    /\ pc[p] = "write"
    /\ lock' = p
    /\ todo' = [todo EXCEPT ![p] = DirsOf[p]]
    /\ Goto(p, "loop")
    /\ UNCHANGED <<env, dir, ver, someUpdates, current, dirs, file, config,
                   htdocs, published, dest, destResp, failures>>

\* END { unlink "$FindBin::Bin/lock"; }, whoever the lock belongs to.
Quit(p) ==
    /\ pc[p] = "quit"
    /\ lock' = "none"
    /\ Goto(p, "idle")
    /\ todo' = [todo EXCEPT ![p] = {}]
    /\ dir' = [dir EXCEPT ![p] = "none"]
    /\ ver' = [ver EXCEPT ![p] = 0]
    /\ someUpdates' = [someUpdates EXCEPT ![p] = FALSE]
    /\ UNCHANGED <<env, current, dirs, file, config, htdocs, published, dest,
                   destResp, failures>>

\* A command, a download or a check fails: exit_error.
Fail(p) ==
    /\ pc[p] \in Active \ {"check", "quit"}
    /\ failures < MaxFailures
    /\ failures' = failures + 1
    /\ Goto(p, "quit")
    /\ UNCHANGED <<env, shared, todo, dir, ver, someUpdates>>

\* The process is killed or the machine goes down: its lock file stays.
Kill(p) ==
    /\ pc[p] \in Active
    /\ failures < MaxFailures
    /\ failures' = failures + 1
    /\ lock' = IF lock = p THEN "dead" ELSE lock
    /\ Goto(p, "idle")
    /\ todo' = [todo EXCEPT ![p] = {}]
    /\ dir' = [dir EXCEPT ![p] = "none"]
    /\ ver' = [ver EXCEPT ![p] = 0]
    /\ someUpdates' = [someUpdates EXCEPT ![p] = FALSE]
    /\ UNCHANGED <<env, current, dirs, file, config, htdocs, published, dest, destResp>>

-----------------------------------------------------------------------------
(* The versions.                                                           *)

\* Days probed by get_last_build_version: today and the Lookback days before.
Window == {v \in Days : v <= today /\ today <= v + Lookback}

\* Mutant. The oldest build of the window instead of the newest.
GetLastBuildVersion_Oldest(d) ==
    LET found == builds[d] \cap Window
    IN  {v \in found : \A w \in found : w >= v}

\* At most one version: the set is empty where the code returns undef.
GetLastBuildVersion(d) ==
    LET found == builds[d] \cap Window
    IN  {v \in found : \A w \in found : w <= v}

\* Mutant. Only a build of today is taken up.
GetNewVersion_TodayOnly(d) == (builds[d] \cap {today}) \ {current[d]}

GetNewVersion(d) ==
    IF current[d] = today THEN {} ELSE GetLastBuildVersion(d) \ {current[d]}

\* The loop over publish_dirs.
NextPublishDir(p) ==
    /\ pc[p] = "loop"
    /\ \/ \E d \in todo[p] :
            /\ todo' = [todo EXCEPT ![p] = @ \ {d}]
            /\ \/ /\ GetNewVersion(d) = {}
                  /\ UNCHANGED <<pc, dir, ver>>
               \/ \E v \in GetNewVersion(d) :
                    /\ Goto(p, "fetch")
                    /\ dir' = [dir EXCEPT ![p] = d]
                    /\ ver' = [ver EXCEPT ![p] = v]
       \/ /\ todo[p] = {}
          /\ Goto(p, IF someUpdates[p] THEN "syncmars" ELSE "quit")
          /\ todo' = [todo EXCEPT ![p] = Dirs]
          /\ UNCHANGED <<dir, ver>>
    /\ UNCHANGED <<env, shared, someUpdates, failures>>

\* fetch_version: nothing to do if the directory is there; otherwise download
\* to a temporary directory, and dirmove it to its place, unless the build has
\* expired since it was found.
FetchVersion(p) ==
    /\ pc[p] = "fetch"
    /\ IF ver[p] \in dirs[dir[p]]
       THEN Goto(p, "sign") /\ UNCHANGED dirs
       ELSE IF ver[p] \in builds[dir[p]]
       THEN Goto(p, "copy") /\ dirs' = [dirs EXCEPT ![dir[p]] = @ \cup {ver[p]}]
       ELSE Goto(p, "quit") /\ UNCHANGED dirs
    /\ UNCHANGED <<env, lock, todo, dir, ver, someUpdates, current, file, config,
                   htdocs, published, dest, destResp, failures>>

Write(d, v, x, s) == file' = [file EXCEPT ![d][v][x] = s]

\* One file after the other is copied, each of them in some time.
MoveToDestdir(p) ==
    /\ pc[p] = "copy"
    /\ LET there == file[dir[p]][ver[p]]
           copying == {x \in Names : there[x] = "partial"}
           missing == {x \in Names : there[x] = "absent"}
       IN  \/ \E x \in copying : Write(dir[p], ver[p], x, "unsigned") /\ pc' = pc
           \/ /\ copying = {}
              /\ \E x \in missing : Write(dir[p], ver[p], x, "partial") /\ pc' = pc
           \/ /\ copying \cup missing = {}
              /\ Goto(p, "sign") /\ file' = file
    /\ UNCHANGED <<env, lock, todo, dir, ver, someUpdates, current, dirs, config,
                   htdocs, published, dest, destResp, failures>>

\* sign_version: signmar writes a new file that is moved over the old one, and
\* refuses one that is not complete.  Signing a file again, in a rerun, changes
\* nothing.
SignVersion(p) ==
    /\ pc[p] = "sign"
    /\ \/ \E m \in Mars : /\ file[dir[p]][ver[p]][m] = "unsigned"
                          /\ Write(dir[p], ver[p], m, "signed")
                          /\ pc' = pc
       \/ /\ \E m \in Mars : file[dir[p]][ver[p]][m] = "partial"
          /\ Goto(p, "quit") /\ file' = file
       \/ /\ \A m \in Mars : file[dir[p]][ver[p]][m] \in {"absent", "signed"}
          /\ Goto(p, "conf") /\ file' = file
    /\ UNCHANGED <<env, lock, todo, dir, ver, someUpdates, current, dirs, config,
                   htdocs, published, dest, destResp, failures>>

-----------------------------------------------------------------------------
(* update_responses.                                                       *)

\* Without a complete build-infos.json there is no configuration to write.
WriteConfig(p) ==
    /\ pc[p] = "conf"
    /\ IF file[dir[p]][ver[p]]["infos"] \in {"absent", "partial"}
       THEN Goto(p, "quit") /\ UNCHANGED config
       ELSE /\ Goto(p, "clean")
            /\ config' = [dir |-> dir[p], ver |-> ver[p], hash |-> {}]
    /\ UNCHANGED <<env, lock, todo, dir, ver, someUpdates, current, dirs, file,
                   htdocs, published, dest, destResp, failures>>

RemoveHtdocs(p) ==
    /\ pc[p] = "clean"
    /\ htdocs' = NoResp
    /\ Goto(p, "gen")
    /\ UNCHANGED <<env, lock, todo, dir, ver, someUpdates, current, dirs, file,
                   config, published, dest, destResp, failures>>

\* What update_responses makes of the configuration it finds.
Generated ==
    IF config.dir \in Dirs
    THEN [config EXCEPT !.hash =
            {h \in Mars \X Contents :
                file[config.dir][config.ver][h[1]] = h[2]}]
    ELSE NoResp

RunUpdateResponses(p) ==
    /\ pc[p] = "gen"
    /\ htdocs' = Generated
    /\ Goto(p, "unpublish")
    /\ UNCHANGED <<env, lock, todo, dir, ver, someUpdates, current, dirs, file,
                   config, published, dest, destResp, failures>>

RemovePublished(p) ==
    /\ pc[p] = "unpublish"
    /\ published' = [published EXCEPT ![dir[p]] = NoResp]
    /\ Goto(p, "publish")
    /\ UNCHANGED <<env, lock, todo, dir, ver, someUpdates, current, dirs, file,
                   config, htdocs, dest, destResp, failures>>

\* dirmove copies the responses file by file, then removes the originals.
BeginPublish(p) ==
    /\ pc[p] = "publish"
    /\ IF htdocs = NoResp
       THEN Goto(p, "quit") /\ UNCHANGED published
       ELSE /\ Goto(p, "moving")
            /\ \E part \in SUBSET htdocs.hash :
                 published' = [published EXCEPT ![dir[p]] = [htdocs EXCEPT !.hash = part]]
    /\ UNCHANGED <<env, lock, todo, dir, ver, someUpdates, current, dirs, file,
                   config, htdocs, dest, destResp, failures>>

EndPublish(p) ==
    /\ pc[p] = "moving"
    /\ published' = [published EXCEPT ![dir[p]] = htdocs]
    /\ htdocs' = NoResp
    /\ Goto(p, "setcur")
    /\ UNCHANGED <<env, lock, todo, dir, ver, someUpdates, current, dirs, file,
                   config, dest, destResp, failures>>

SetCurrentVersion(p) ==
    /\ pc[p] = "setcur"
    /\ current' = [current EXCEPT ![dir[p]] = ver[p]]
    /\ Goto(p, "remove")
    /\ UNCHANGED <<env, lock, todo, dir, ver, someUpdates, dirs, file, config,
                   htdocs, published, dest, destResp, failures>>

\* Mutant. $some_updates is only set by the last directory.
RemoveOldversions_NotUpdated(p) ==
    /\ pc[p] = "remove"
    /\ dirs' = [dirs EXCEPT ![dir[p]] = @ \cap {ver[p]}]
    /\ file' = [file EXCEPT ![dir[p]] =
                  [v \in Days |-> IF v = ver[p] THEN @[v] ELSE EmptyVersion]]
    /\ someUpdates' = [someUpdates EXCEPT ![p] = todo[p] = {}]
    /\ Goto(p, "loop")
    /\ UNCHANGED <<env, lock, todo, dir, ver, current, config, htdocs, published,
                   dest, destResp, failures>>

\* Mutant. The old versions are removed by a run that finds nothing new only.
RemoveOldversions_KeepPrevious(p) ==
    /\ pc[p] = "remove"
    /\ someUpdates' = [someUpdates EXCEPT ![p] = TRUE]
    /\ Goto(p, "loop")
    /\ UNCHANGED <<env, lock, todo, dir, ver, current, dirs, file, config, htdocs,
                   published, dest, destResp, failures>>

RemoveOldversions(p) ==
    /\ pc[p] = "remove"
    /\ dirs' = [dirs EXCEPT ![dir[p]] = @ \cap {ver[p]}]
    /\ file' = [file EXCEPT ![dir[p]] =
                  [v \in Days |-> IF v = ver[p] THEN @[v] ELSE EmptyVersion]]
    /\ someUpdates' = [someUpdates EXCEPT ![p] = TRUE]
    /\ Goto(p, "loop")
    /\ UNCHANGED <<env, lock, todo, dir, ver, current, config, htdocs, published,
                   dest, destResp, failures>>

-----------------------------------------------------------------------------
(* sync_dest: rsync -aH --delete-after.  Names are sent in alphabetical     *)
(* order, the version directories before "updates"; deletions come last.    *)

\* Mutant. rsync --delete-before.
SyncMars_DeleteBefore(p) ==
    /\ pc[p] = "syncmars"
    /\ dest' = file
    /\ Goto(p, "syncupdates")
    /\ UNCHANGED <<env, lock, todo, dir, ver, someUpdates, current, dirs, file, config,
                   htdocs, published, destResp, failures>>

SyncMars(p) ==
    /\ pc[p] = "syncmars"
    /\ \/ \E d \in todo[p] :
            /\ dest' = [dest EXCEPT ![d] = [v \in Days |-> [x \in Names |->
                  IF file[d][v][x] # "absent" THEN file[d][v][x] ELSE @[v][x]]]]
            /\ todo' = [todo EXCEPT ![p] = @ \ {d}]
            /\ pc' = pc
       \/ /\ todo[p] = {}
          /\ todo' = [todo EXCEPT ![p] = Dirs]
          /\ Goto(p, "syncupdates") /\ dest' = dest
    /\ UNCHANGED <<env, lock, dir, ver, someUpdates, current, dirs, file, config,
                   htdocs, published, destResp, failures>>

SyncUpdates(p) ==
    /\ pc[p] = "syncupdates"
    /\ \/ \E d \in todo[p] :
            /\ destResp' = [destResp EXCEPT ![d] =
                  IF published[d] # NoResp THEN published[d] ELSE @]
            /\ todo' = [todo EXCEPT ![p] = @ \ {d}]
            /\ pc' = pc
       \/ /\ todo[p] = {}
          /\ Goto(p, "syncdelete") /\ UNCHANGED <<destResp, todo>>
    /\ UNCHANGED <<env, lock, dir, ver, someUpdates, current, dirs, file, config,
                   htdocs, published, dest, failures>>

SyncDelete(p) ==
    /\ pc[p] = "syncdelete"
    /\ dest' = [d \in Dirs |-> [v \in Days |-> [x \in Names |->
                  IF file[d][v][x] = "absent" THEN "absent" ELSE dest[d][v][x]]]]
    /\ destResp' = [d \in Dirs |-> IF published[d] = NoResp THEN NoResp ELSE destResp[d]]
    /\ Goto(p, "quit")
    /\ UNCHANGED <<env, lock, todo, dir, ver, someUpdates, current, dirs, file,
                   config, htdocs, published, failures>>

-----------------------------------------------------------------------------
Step(p) ==
    \/ RunAloneCheck(p) \/ RunAloneWrite(p) \/ Quit(p) \/ NextPublishDir(p)
    \/ FetchVersion(p) \/ MoveToDestdir(p) \/ SignVersion(p) \/ WriteConfig(p)
    \/ RemoveHtdocs(p) \/ RunUpdateResponses(p) \/ RemovePublished(p)
    \/ BeginPublish(p) \/ EndPublish(p) \/ SetCurrentVersion(p)
    \/ RemoveOldversions(p) \/ SyncMars(p) \/ SyncUpdates(p) \/ SyncDelete(p)

Environment == NextDay \/ BuildFinishes \/ BuildIsPruned

Next ==
    \/ Environment
    \/ \E p \in Procs : Start(p) \/ Step(p) \/ Fail(p) \/ Kill(p)

Spec == Init /\ [][Next]_vars

\* A started script goes on, and cron starts every project again and again.
FairSpec ==
    /\ Spec
    /\ \A p \in Procs : WF_vars(Step(p)) /\ SF_vars(Start(p))

-----------------------------------------------------------------------------
(* Properties.                                                             *)

FileType == [Dirs -> [Days -> [Names -> States]]]

\* The type invariant.
TypeOK ==
    /\ today \in Days
    /\ builds \in [Dirs -> SUBSET Days]
    /\ lock \in Procs \cup {"none", "dead"}
    /\ pc \in [Procs -> Active \cup {"idle"}]
    /\ todo \in [Procs -> SUBSET Dirs]
    /\ dir \in [Procs -> Dirs \cup {"none"}]
    /\ ver \in [Procs -> Days \cup {0}]
    /\ someUpdates \in [Procs -> BOOLEAN]
    /\ current \in [Dirs -> Days \cup {0}]
    /\ dirs \in [Dirs -> SUBSET Days]
    /\ file \in FileType
    /\ config \in Responses
    /\ htdocs \in Responses
    /\ published \in [Dirs -> Responses]
    /\ dest \in FileType
    /\ destResp \in [Dirs -> Responses]
    /\ failures \in 0 .. MaxFailures

\* The responses r of directory d can be followed in the tree f: they are d's
\* own, and every mar they name is there, signed, with the hash they give.
Servable(r, d, f) ==
    r # NoResp => /\ r.dir = d
                  /\ r.ver \in Days
                  /\ \A h \in r.hash : h[2] = "signed" /\ f[d][r.ver][h[1]] = "signed"

\* A client that follows the published responses finds the signed mar they
\* describe at every moment: between any two transfers of an rsync, after an
\* rsync that was cut short, after a run that died half-way through a version
\* and whose tree another project's run then mirrored.
DestServable == \A d \in Dirs : Servable(destResp[d], d, dest)

\* The same of the local tree that the next rsync, whoever runs it, mirrors.
LocalServable == \A d \in Dirs : Servable(published[d], d, file)

\* Both: what can be followed at the destination stays so through the next rsync.
AlwaysServable == DestServable /\ LocalServable

\* Published responses are never replaced by those of an older version, although
\* builds finish in any order, are pruned, and a version is found by probing.
NeverDowngrades ==
    [][\A d \in Dirs : destResp'[d] # NoResp => destResp'[d].ver >= destResp[d].ver]_destResp

\* One version of a directory is kept once its run is over, the one recorded as
\* current, unless something failed: the mars of others are not left behind.
OnlyCurrentIsKept ==
    failures = 0 /\ (\A p \in Procs : pc[p] = "idle")
    => \A d \in Dirs : /\ dirs[d] = {current[d]} \ {0}
                       /\ \A v \in Days : destResp[d] # NoResp /\ v # destResp[d].ver
                            => dest[d][v] = EmptyVersion

\* The version directory the next run would take up has no complete build-infos.json,
\* or a mar that is cut short: a dirmove was interrupted.  fetch_version takes it for
\* a complete one, and sign_version or update_responses dies.
Wedged ==
    /\ \A p \in Procs : pc[p] # "copy"
    /\ \E d \in Dirs : \E v \in GetNewVersion(d) \cap dirs[d] :
         \/ file[d][v]["infos"] = "absent"
         \/ \E x \in Names : file[d][v][x] = "partial"

\* A build has been removed from the build server after it was found, before it was
\* fetched.
Expired ==
    \E p \in Procs : pc[p] = "fetch" /\ ver[p] \notin dirs[dir[p]] \cup builds[dir[p]]

\* A version recorded as current is published, unless something fails after it
\* was recorded: the next run does not take it up again (get_new_version finds
\* nothing new, so some_updates stays 0 and nothing is synchronised), or another
\* directory is wedged, or its build expires between the probe and the download,
\* and the exit_error for it comes before sync_dest.
CurrentReachesDest ==
    \A d \in Dirs, v \in Days, n \in 0 .. MaxFailures :
        (failures = n /\ \E p \in Procs : pc[p] = "remove" /\ dir[p] = d /\ ver[p] = v)
        ~> (destResp[d].ver >= v \/ failures > n \/ Wedged \/ Expired)

\* The newest build is signed and recorded, whatever failed before, unless an
\* interrupted fetch_version has left a directory that no later run repairs.
NewestIsSignedOrWedged ==
    \A d \in Dirs, v \in Days, n \in 0 .. MaxFailures :
        (failures = n /\ today = MaxDay /\ v \in GetLastBuildVersion(d))
        ~> (current[d] >= v \/ failures > n \/ Wedged)

Running == Active \ {"check", "write", "quit"}

\* As long as an instance runs its lock file is there, so that another one finds
\* that the "Script is already running" (sign-nightly:71) and leaves it alone.
RunningHoldsLock == (\E p \in Procs : pc[p] \in Running) => lock # "none"

=============================================================================

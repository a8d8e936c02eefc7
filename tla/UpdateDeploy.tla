---------------------------- MODULE UpdateDeploy ----------------------------
(***************************************************************************)
(* The last step of a release: upload-update_responses-to-staticiforme     *)
(* commits the update responses of a channel to a git repository that all  *)
(* channels share, and sends the web server a deployment script; somebody  *)
(* runs that script when users should be given the update.                 *)
(*                                                                         *)
(* A tree gives, for every channel and every item (a platform, or the      *)
(* channel's top files), the version whose files are there, 0 if none.  Of *)
(* git's history only what the script's commands look at is kept: how many *)
(* pushes origin has had, which one a clone is at, the commits it has made *)
(* since, and the commits of main, one of which may be named to the        *)
(* deployment script.                                                      *)
(***************************************************************************)
EXTENDS Integers, FiniteSets

CONSTANTS
    Managers,       \* release managers, each with a clone
    Channels,       \* alpha, release
    ChannelsOf,     \* ChannelsOf[m]: the channels m signs releases of
    Desktop,        \* platforms with a directory of responses
    Android,        \* platforms with a download-$platform.json only
    Top,            \* the item for .htaccess and downloads.json
    Latest,         \* Latest[c]: bound on the versions of c
    Included,       \* Included[c][v]: items in the tar of version v
    DeployFirst,    \* TRUE: a version is not started before the last one is served
    MaxTrouble      \* bound on failed commands, kills and deployments of a named commit

Items == Desktop \cup Android \cup {Top}
Versions(c) == 1 .. Latest[c]

ASSUME ChannelsAssumption ==
    /\ ChannelsOf \in [Managers -> SUBSET Channels]
    /\ Latest \in [Channels -> Nat \ {0}]
    /\ \A c \in Channels : Included[c] \in [Versions(c) -> SUBSET Items]
ASSUME ReleaseAssumption == \A c \in Channels : \A v \in Versions(c) : Included[c][v] # {}
ASSUME ItemsAssumption ==
    Desktop \cap Android = {} /\ Top \notin Desktop \cup Android
ASSUME OwnerAssumption ==
    \A m, n \in Managers : m # n => ChannelsOf[m] \cap ChannelsOf[n] = {}
ASSUME BoundsAssumption == DeployFirst \in BOOLEAN /\ MaxTrouble \in Nat
ASSUME NameAssumption == "none" \notin Channels
ASSUME FiniteAssumption == IsFiniteSet(Channels)

VARIABLES
    released,    \* released[c]: the version that is built and ready to sign
    done,        \* done[c]: the last version with a .done marker for the upload
    origin,      \* [n : pushes so far, tree : of main, commits : the trees of all on it]
    clone,       \* clone[m] = [base : the push it is at, tree : of HEAD, made : since]
    work,        \* work[m]: the tree in m's working directory
    pc, chan, ver, todo,    \* m's run: its channel and version, what to commit
    old,         \* old[m]: what was moved to $old_ur
    script,      \* script[c] = [tree, ver]: deploy_update_responses-$c.sh
    dpc, run,    \* run[c]: the copy of the script somebody is running
    approved,    \* approved[c]: the newest version somebody asked the script for
    head,        \* the tree checked out in $update_dir
    live,        \* what static-update-component has put on the mirrors
    named,       \* how many deployments have been given a commit
    failures

git == <<origin, clone, work>>
local == <<pc, chan, ver, todo, old>>
server == <<dpc, run, approved, head, live, named>>
vars == <<released, done, git, local, script, server, failures>>

Max0(S) == CHOOSE x \in S \cup {0} : \A y \in S : y <= x

FirstTree == [c \in Channels |-> [i \in Items |-> IF i \in Included[c][1] THEN 1 ELSE 0]]

Init ==
    /\ released = [c \in Channels |-> 1]
    /\ done = [c \in Channels |-> 1]
    /\ origin = [n |-> 0, tree |-> FirstTree, commits |-> {FirstTree}]
    /\ clone = [m \in Managers |-> [base |-> 0, tree |-> FirstTree, made |-> {}]]
    /\ work = [m \in Managers |-> FirstTree]
    /\ pc = [m \in Managers |-> "idle"]
    /\ chan = [m \in Managers |-> "none"]
    /\ ver = [m \in Managers |-> 0]
    /\ todo = [m \in Managers |-> {}]
    /\ old = [m \in Managers |-> [i \in Items |-> 0]]
    /\ script = [c \in Channels |-> [tree |-> FirstTree, ver |-> 1]]
    /\ dpc = [c \in Channels |-> "idle"]
    /\ run = script
    /\ approved = [c \in Channels |-> 1]
    /\ head = FirstTree
    /\ live = FirstTree
    /\ named = 0
    /\ failures = 0

\* A new version of a channel is built.
NewVersion(c) ==
    /\ released[c] < Latest[c]
    /\ DeployFirst => done[c] = released[c] /\ live[c] = script[c].tree[c]
    /\ released' = [released EXCEPT ![c] = @ + 1]
    /\ UNCHANGED <<done, git, local, script, server, failures>>

-----------------------------------------------------------------------------
(* The release manager's side: git, as the script uses it.                 *)

Goto(m, l) == pc' = [pc EXCEPT ![m] = l]

\* git status --porcelain=v1 | grep -v '^?': untracked files do not count.
Modified(m) ==
    \E c \in Channels, i \in Items :
        /\ clone[m].tree[c][i] # 0
        /\ work[m][c][i] # clone[m].tree[c][i]

Behind(m) == clone[m].base # origin.n
Ahead(m) == clone[m].made # {}
Diverged(m) == Behind(m) /\ Ahead(m)

\* A fast-forward would overwrite changes of the working directory.
Overwrites(m) ==
    \E c \in Channels, i \in Items :
        /\ origin.tree[c][i] # clone[m].tree[c][i]
        /\ work[m][c][i] # clone[m].tree[c][i]

PullRefused(m) == Behind(m) /\ (Ahead(m) \/ Overwrites(m))

\* do-all-signing gets to the step of a release whose marker is missing:
\* make $project-update_responses-$channel.
Start(m) ==
    /\ pc[m] = "idle"
    /\ \E c \in ChannelsOf[m] :
         /\ done[c] < released[c]
         /\ chan' = [chan EXCEPT ![m] = c]
         /\ ver' = [ver EXCEPT ![m] = released[c]]
    /\ Goto(m, "pull")
    /\ UNCHANGED <<released, done, git, todo, old, script, server, failures>>

Stop(m) ==
    /\ Goto(m, "idle")
    /\ chan' = [chan EXCEPT ![m] = "none"]
    /\ ver' = [ver EXCEPT ![m] = 0]
    /\ todo' = [todo EXCEPT ![m] = {}]
    /\ old' = [old EXCEPT ![m] = [i \in Items |-> 0]]    \* the trap on EXIT

\* git checkout main; git pull --ff-only
Pull(m) ==
    /\ pc[m] = "pull"
    /\ ~PullRefused(m)
    /\ IF Behind(m)
       THEN /\ clone' = [clone EXCEPT ![m] =
                    [base |-> origin.n, tree |-> origin.tree, made |-> {}]]
            /\ work' = [work EXCEPT ![m] = [c \in Channels |-> [i \in Items |->
                    IF origin.tree[c][i] = clone[m].tree[c][i]
                    THEN @[c][i] ELSE origin.tree[c][i]]]]
       ELSE UNCHANGED <<clone, work>>
    /\ Goto(m, "status")
    /\ UNCHANGED <<released, done, origin, chan, ver, todo, old, script, server, failures>>

PullFails(m) ==
    /\ pc[m] = "pull"
    /\ PullRefused(m)
    /\ Stop(m)
    /\ UNCHANGED <<released, done, git, script, server, failures>>

\* update_responses_repository_dir has modified files
Status(m) ==
    /\ pc[m] = "status"
    /\ IF Modified(m)
       THEN Stop(m)
       ELSE Goto(m, "move") /\ UNCHANGED <<chan, ver, todo, old>>
    /\ UNCHANGED <<released, done, git, script, server, failures>>

\* mv "$tbb_version_type" "$old_ur/$tbb_version_type"
MoveOld(m) ==
    /\ pc[m] = "move"
    /\ old' = [old EXCEPT ![m] = work[m][chan[m]]]
    /\ work' = [work EXCEPT ![m][chan[m]] = [i \in Items |-> 0]]
    /\ Goto(m, "extract")
    /\ UNCHANGED <<released, done, origin, clone, chan, ver, todo, script, server, failures>>

\* tar -xf "$update_responses_tar"
Extract(m) ==
    /\ pc[m] = "extract"
    /\ work' = [work EXCEPT ![m][chan[m]] =
            [i \in Items |-> IF i \in Included[chan[m]][ver[m]] THEN ver[m] ELSE @[i]]]
    /\ Goto(m, "keep")
    /\ UNCHANGED <<released, done, origin, clone, chan, ver, todo, old, script, server, failures>>

\* Keep what the new release does not have.
Kept_Overwrites(new, before) ==
    [i \in Items |-> IF before[i] # 0 THEN before[i] ELSE new[i]]

Kept(new, before) ==
    [i \in Items |-> IF new[i] = 0 THEN before[i] ELSE new[i]]

\* for file in $(ls -1 "$tbb_version_type"): the directories only.
Directories(files) == {d \in Desktop : files[d] # 0}

KeepOld(m) ==
    /\ pc[m] = "keep"
    /\ LET files == Kept(work[m][chan[m]], old[m])
       IN  /\ work' = [work EXCEPT ![m][chan[m]] = files]
           /\ todo' = [todo EXCEPT ![m] = Directories(files)]
    /\ Goto(m, "commit")
    /\ UNCHANGED <<released, done, origin, clone, chan, ver, old, script, server, failures>>

\* They come in the order of their names, which is the same in every run.
First(dirs) == CHOOSE d \in dirs : TRUE

\* git add; git diff --quiet --cached --exit-code || git commit
Commit(m, items) ==
    LET tree == [clone[m].tree EXCEPT ![chan[m]] =
                    [i \in Items |-> IF i \in items THEN work[m][chan[m]][i] ELSE @[i]]]
    IN  clone' = [clone EXCEPT ![m] =
                    [base |-> @.base, tree |-> tree,
                     made |-> IF tree = @.tree THEN @.made ELSE @.made \cup {tree}]]

CommitDirectory(m) ==
    /\ pc[m] = "commit"
    /\ todo[m] # {}
    /\ Commit(m, {First(todo[m])})
    /\ todo' = [todo EXCEPT ![m] = @ \ {First(todo[m])}]
    /\ UNCHANGED <<released, done, origin, work, pc, chan, ver, old, script, server, failures>>

CommitAndroid(m) ==
    /\ pc[m] = "commit" /\ todo[m] = {}
    /\ Commit(m, IF Android \cap Included[chan[m]][ver[m]] # {} THEN Android ELSE {})
    /\ Goto(m, "commitrest")
    /\ UNCHANGED <<released, done, origin, work, chan, ver, todo, old, script, server, failures>>

CommitRest(m) ==
    /\ pc[m] = "commitrest"
    /\ Commit(m, Items)
    /\ Goto(m, "push")
    /\ UNCHANGED <<released, done, origin, work, chan, ver, todo, old, script, server, failures>>

\* git push of all that the clone has and origin has not; refused if origin has
\* what the clone has not.
PushRefused_Forced(m) == FALSE

PushRefused(m) == Behind(m)

PushFails(m) ==
    /\ pc[m] = "push"
    /\ PushRefused(m)
    /\ Stop(m)
    /\ UNCHANGED <<released, done, git, script, server, failures>>

Push(m) ==
    /\ pc[m] = "push"
    /\ ~PushRefused(m)
    /\ IF Ahead(m)
       THEN /\ origin' = [n |-> origin.n + 1, tree |-> clone[m].tree,
                           commits |-> origin.commits \cup clone[m].made]
            /\ clone' = [clone EXCEPT ![m] =
                    [base |-> origin.n + 1, tree |-> @.tree, made |-> {}]]
       ELSE UNCHANGED <<origin, clone>>
    /\ Goto(m, "scp")
    /\ UNCHANGED <<released, done, work, chan, ver, todo, old, script, server, failures>>

\* update_responses_commit=$(git log -1 --format=%H)
UpdateResponsesCommit_Origin(m) == origin.tree

UpdateResponsesCommit(m) == clone[m].tree

\* scp of the deployment script made from it.
SendScript(m) ==
    /\ pc[m] = "scp"
    /\ script' = [script EXCEPT ![chan[m]] = [tree |-> UpdateResponsesCommit(m), ver |-> ver[m]]]
    /\ Goto(m, "marker")
    /\ UNCHANGED <<released, done, git, chan, ver, todo, old, server, failures>>

\* do_step touches the marker.
Finish(m) ==
    /\ pc[m] = "marker"
    /\ done' = [done EXCEPT ![chan[m]] = ver[m]]
    /\ Stop(m)
    /\ UNCHANGED <<released, git, script, server, failures>>

\* A command fails (set -e), or the run is killed.
Fail(m) ==
    /\ pc[m] # "idle"
    /\ failures + named < MaxTrouble
    /\ failures' = failures + 1
    /\ Stop(m)
    /\ UNCHANGED <<released, done, git, script, server>>

\* The manager clears up what a run that failed has left: git reset --hard, to
\* HEAD or to origin, and perhaps git clean.
Repair(m) ==
    /\ pc[m] = "idle"
    /\ Modified(m) \/ PullRefused(m)
    /\ \E toOrigin \in (IF Diverged(m) THEN {TRUE} ELSE BOOLEAN), clean \in BOOLEAN :
         LET tree == IF toOrigin THEN origin.tree ELSE clone[m].tree
         IN  /\ clone' = IF toOrigin
                         THEN [clone EXCEPT ![m] = [base |-> origin.n, tree |-> tree, made |-> {}]]
                         ELSE clone
             /\ work' = [work EXCEPT ![m] = [c \in Channels |-> [i \in Items |->
                    IF tree[c][i] = 0 /\ clone[m].tree[c][i] = 0 /\ ~clean
                    THEN @[c][i] ELSE tree[c][i]]]]
    /\ UNCHANGED <<released, done, origin, local, script, server, failures>>

-----------------------------------------------------------------------------
(* The deployment script on the web server.                                *)

\* Channel c's script runs, to check out the commit of a tree: somebody wants
\* users to be given the version of c that it has.
Run(c, tree, v) ==
    /\ dpc[c] = "idle"
    /\ run' = [run EXCEPT ![c] = [tree |-> tree, ver |-> v]]
    /\ approved' = [approved EXCEPT ![c] = IF v > @ THEN v ELSE @]
    /\ dpc' = [dpc EXCEPT ![c] = "check"]
    /\ UNCHANGED <<released, done, git, local, script, head, live, failures>>

\* commit=$update_responses_commit
DeployStart(c) ==
    /\ live[c] # script[c].tree[c]
    /\ Run(c, script[c].tree, script[c].ver)
    /\ UNCHANGED named

\* test "$#" -eq 1 && commit="$1": any commit, older than the script's, newer, or
\* between those of two directories.
DeployNamed(c) ==
    /\ failures + named < MaxTrouble
    /\ named' = named + 1
    /\ \E tree \in origin.commits : Run(c, tree, Max0({tree[c][i] : i \in Items}))

\* Channels with a file in git diff --name-only HEAD $commit
ChangedChannels(tree) == {d \in Channels : head[d] # tree[d]}

\* echo "$changed_files" | grep -qv "$channel": a line that is not the channel's,
\* which the empty line printed for an empty list is not either.
HasOtherLine_Forgiving(c, tree) == c \notin ChangedChannels(tree)

HasOtherLine_Matches(c, tree) == c \in ChangedChannels(tree)

HasOtherLine(c, tree) == ChangedChannels(tree) # {c}

DeployCheck(c) ==
    /\ dpc[c] = "check"
    /\ dpc' = [dpc EXCEPT ![c] = IF HasOtherLine(c, run[c].tree) THEN "refused" ELSE "checkout"]
    /\ UNCHANGED <<released, done, git, local, script, run, approved, head, live, named, failures>>

DeployRefused(c) ==
    /\ dpc[c] = "refused"
    /\ dpc' = [dpc EXCEPT ![c] = "idle"]
    /\ UNCHANGED <<released, done, git, local, script, run, approved, head, live, named, failures>>

\* git checkout "$commit"
DeployCheckout(c) ==
    /\ dpc[c] = "checkout"
    /\ head' = run[c].tree
    /\ dpc' = [dpc EXCEPT ![c] = "static"]
    /\ UNCHANGED <<released, done, git, local, script, run, approved, live, named, failures>>

\* static-update-component
DeployStatic(c) ==
    /\ dpc[c] = "static"
    /\ live' = head
    /\ dpc' = [dpc EXCEPT ![c] = "idle"]
    /\ UNCHANGED <<released, done, git, local, script, run, approved, head, named, failures>>

DeployFails(c) ==
    /\ dpc[c] \in {"check", "checkout", "static"}
    /\ failures + named < MaxTrouble
    /\ failures' = failures + 1
    /\ dpc' = [dpc EXCEPT ![c] = "idle"]
    /\ UNCHANGED <<released, done, git, local, script, run, approved, head, live, named>>

\* Nothing is left to release, to sign or to deploy.
Terminated ==
    /\ \A c \in Channels : /\ released[c] = Latest[c] /\ done[c] = Latest[c]
                           /\ dpc[c] = "idle" /\ live[c] = script[c].tree[c]
    /\ \A m \in Managers : pc[m] = "idle"
    /\ UNCHANGED vars

Step(m) ==
    \/ Pull(m) \/ PullFails(m) \/ Status(m) \/ MoveOld(m) \/ Extract(m) \/ KeepOld(m)
    \/ CommitDirectory(m) \/ CommitAndroid(m) \/ CommitRest(m)
    \/ Push(m) \/ PushFails(m) \/ SendScript(m) \/ Finish(m)

DeployStep(c) ==
    DeployStart(c) \/ DeployCheck(c) \/ DeployRefused(c) \/ DeployCheckout(c) \/ DeployStatic(c)

Next ==
    \/ \E m \in Managers : Start(m) \/ Step(m) \/ Fail(m) \/ Repair(m)
    \/ \E c \in Channels : NewVersion(c) \/ DeployStep(c) \/ DeployNamed(c) \/ DeployFails(c)
    \/ Terminated

Spec == Init /\ [][Next]_vars

\* A signing run goes on, a manager runs it again until its marker is there and
\* repairs a clone that it keeps complaining of, and somebody runs a deployment
\* script whose version is not served.
Fairness ==
    /\ \A m \in Managers : WF_vars(Step(m)) /\ WF_vars(Start(m)) /\ SF_vars(Repair(m))
    /\ \A c \in Channels : WF_vars(DeployStep(c))

FairSpec == Spec /\ Fairness

-----------------------------------------------------------------------------
Tree == [Channels -> [Items -> Nat]]

\* Types, and what a channel's part of a tree can be.
TypeOK ==
    /\ released \in [Channels -> Nat] /\ done \in [Channels -> Nat] /\ approved \in [Channels -> Nat]
    /\ \A c \in Channels : released[c] \in Versions(c) /\ done[c] \in 1 .. released[c]
    /\ origin \in [n : Nat, tree : Tree, commits : SUBSET Tree]
    /\ clone \in [Managers -> [base : Nat, tree : Tree, made : SUBSET Tree]]
    /\ work \in [Managers -> Tree]
    /\ pc \in [Managers -> {"idle", "pull", "status", "move", "extract", "keep",
                            "commit", "commitrest", "push", "scp", "marker"}]
    /\ chan \in [Managers -> Channels \cup {"none"}]
    /\ ver \in [Managers -> Nat]
    /\ todo \in [Managers -> SUBSET Desktop]
    /\ old \in [Managers -> [Items -> Nat]]
    /\ script \in [Channels -> [tree : Tree, ver : Nat]]
    /\ run \in [Channels -> [tree : Tree, ver : Nat]]
    /\ dpc \in [Channels -> {"idle", "check", "refused", "checkout", "static"}]
    /\ head \in Tree /\ live \in Tree
    /\ failures \in Nat /\ named \in Nat /\ failures + named <= MaxTrouble

\* Users are given nothing of a channel before somebody has run the deployment
\* script of that channel for that version, or has named a commit that has it,
\* whoever deploys the others (the check of the changed files; the templates' "Do
\* not deploy yet!").
NothingUnapproved ==
    \A c \in Channels, i \in Items : head[c][i] <= approved[c] /\ live[c][i] <= approved[c]

\* Unless somebody has named a commit, what is checked out for a channel is a whole
\* release: every platform of the newest version there is at that version (one
\* commit for each directory, a run that fails between two of them, a repair, the
\* next run).
WholeRelease ==
    named = 0 =>
        \A c \in Channels :
            LET v == Max0({head[c][i] : i \in Items})
            IN  \A i \in Included[c][v] : head[c][i] = v

\* Once every script has been sent, two channels keep each other from being
\* deployed only if a run has failed (a run that is repeated after its push makes
\* its script from a commit that may hold the other channel's changes) or somebody
\* has named a commit.
Pending == {c \in Channels : head[c] # script[c].tree[c]}
Blocked == Pending # {} /\ \A c \in Pending : HasOtherLine(c, script[c].tree)
NotBlockedByItself ==
    failures = 0 /\ named = 0 /\ (\A m \in Managers : pc[m] # "scp") => ~Blocked

\* With every release deployed before the next one of its channel, the users see
\* what UpdateService promises: whole releases, one after the other, each after
\* somebody enabled it (keep-old loop, commits, push, check, checkout), and from
\* the first named commit on, which can take them back, none that nobody asked for.
Service == INSTANCE UpdateService
               WITH enabled <- approved, served <- live, byHand <- (named # 0)
ServesReleases == Service!Spec

\* For no platform does the version pushed go back, so no push of one channel undoes
\* another's; and until somebody names a commit, none that is served goes back or
\* disappears (the files kept from the old release; the fast-forwards; two
\* deployments that have both passed their check).
NothingGoesBack ==
    [][\A c \in Channels, i \in Items :
          /\ origin'.tree[c][i] >= origin.tree[c][i]
          /\ named = 0 => head'[c][i] >= head[c][i] /\ live'[c][i] >= live[c][i]]_vars

\* The last version of each channel is served in the end, also after a deployment of
\* an older one, unless a run failed or somebody named a commit and the channels
\* block each other, or a deployment died between git checkout and
\* static-update-component, which a new run does not make up for.
Served(c) == \A i \in Included[c][released[c]] : live[c][i] = released[c]

NotUpdated == head # live /\ \A c \in Channels : dpc[c] # "static"

ServedOrStuck ==
    \A c \in Channels :
        <>[] \/ Served(c)
             \/ (failures > 0 \/ named > 0) /\ Blocked
             \/ failures > 0 /\ NotUpdated
=============================================================================

---------------------------- MODULE UpdateManual ----------------------------
(***************************************************************************)
(* tools/update_manual.py (also a step of relprep.py): a developer pins    *)
(* the offline manual of the newest pipeline of the website.  The script   *)
(* finds a job of it, downloads its artifact, from the server of sources   *)
(* if somebody has uploaded it there and from GitLab if not, unless there  *)
(* is a file of that name in out/, and writes the pipeline's number and    *)
(* the file's hash into projects/manual/config.  The developer uploads the *)
(* file, and the change is merged; a build fetches the file from the       *)
(* server and checks its hash.                                             *)
(*                                                                         *)
(* Content and hash of a file are the pipeline whose artifact it is, or    *)
(* Cut, for one whose download was cut short, or for none of it.           *)
(***************************************************************************)
EXTENDS Integers

CONSTANTS
    Devs,           \* developers, each with a clone
    MaxPipelines,   \* bound on pipelines
    MaxFailures     \* bound on failed and killed runs

ASSUME BoundsAssumption == MaxPipelines \in Nat \ {0} /\ MaxFailures \in Nat

Cut == 0
Pipelines == 1 .. MaxPipelines
Nothing == -1

VARIABLES
    found,      \* the newest pipeline of which a job has its artifact
    passed,     \* the newest one that has succeeded: its artifact is the branch's
    server,     \* server[p]: content of marble-support_p.zip, or Nothing
    local,      \* local[d][p]: the same in d's out/manual
    config,     \* config[d]: [version, hash] in d's worktree
    main,       \* the same on the branch
    run,        \* run[d]: [pc, job, needsUpload, hash] of the run of d, or Idle
    asked,      \* asked[d]: the pipelines d was told to upload, and has not
    failures,
    variants    \* variants[p]: the contents that files of the name of p have had

files == <<server, local, config, main, asked>>
vars == <<found, passed, files, run, failures, variants>>

Run(pc, job, needsUpload, hash) ==
    [pc |-> pc, job |-> job, needsUpload |-> needsUpload, hash |-> hash]
Idle == Run("idle", 1, FALSE, Nothing)

Set(f, d, e) == [f EXCEPT ![d] = e]

-----------------------------------------------------------------------------
(* The script.                                                              *)
FoundJob_Last == 1

FoundJob == found

FindJob(d) ==
    /\ run[d] = Idle
    /\ run' = Set(run, d, Run("head", FoundJob, FALSE, Nothing))
    /\ UNCHANGED <<found, passed, files, failures, variants>>

\* requests.head, and the look at out/manual.
FileOf_AnyPipeline(d, p) ==
    IF \E q \in Pipelines : local[d][q] # Nothing
       THEN local[d][CHOOSE q \in Pipelines : local[d][q] # Nothing] ELSE Nothing

FileOf(d, p) == local[d][p]

NeedsUpload_IfNew(d) == server[run[d].job] = Nothing /\ FileOf(d, run[d].job) = Nothing

NeedsUpload(d) == server[run[d].job] = Nothing

HeadRequest(d) ==
    /\ run[d].pc = "head"
    /\ LET hash == FileOf(d, run[d].job)
       IN  run' = Set(run, d, Run(IF hash = Nothing THEN "download" ELSE "config",
                                  run[d].job, NeedsUpload(d), hash))
    /\ UNCHANGED <<found, passed, files, failures, variants>>

\* download_manual: what the address gives when it is asked.
Source(d) == IF run[d].needsUpload THEN passed ELSE server[run[d].job]

Saved(d, content) ==
    /\ local' = [local EXCEPT ![d][run[d].job] = content]
    /\ variants' = [variants EXCEPT ![run[d].job] = @ \cup {content}]

Download(d) ==
    /\ run[d].pc = "download"
    /\ Saved(d, Source(d))
    /\ run' = Set(run, d, Run("config", run[d].job, run[d].needsUpload, Source(d)))
    /\ UNCHANGED <<found, passed, server, config, main, asked, failures>>

\* The message, which the developer follows, and update_config.
UpdateConfig(d) ==
    IF config[d].version = run[d].job
       THEN config[d] ELSE [version |-> run[d].job, hash |-> run[d].hash]

WriteConfig(d) ==
    /\ run[d].pc = "config"
    /\ config' = Set(config, d, UpdateConfig(d))
    /\ asked' = IF run[d].needsUpload
                   THEN [asked EXCEPT ![d] = @ \cup {run[d].job}] ELSE asked
    /\ run' = Set(run, d, Idle)
    /\ UNCHANGED <<found, passed, server, local, main, failures, variants>>

\* A request fails, or the run is killed: a download leaves the part it has written.
Fail(d) ==
    /\ run[d] # Idle /\ failures < MaxFailures
    /\ failures' = failures + 1
    /\ \/ UNCHANGED <<local, variants>>
       \/ run[d].pc = "download" /\ Saved(d, Cut)
    /\ run' = Set(run, d, Idle)
    /\ UNCHANGED <<found, passed, server, config, main, asked>>

-----------------------------------------------------------------------------
(* The developers and the website.                                          *)
Upload(d) ==
    \E p \in asked[d] :
        /\ server' = Set(server, p, local[d][p])
        /\ asked' = [asked EXCEPT ![d] = @ \ {p}]
        /\ UNCHANGED <<found, passed, local, config, main, run, failures, variants>>

\* The change is merged, after the upload.
Merge(d) ==
    /\ asked[d] = {}
    /\ config[d].version > main.version
    /\ main' = config[d]
    /\ UNCHANGED <<found, passed, server, local, config, asked, run, failures, variants>>

Pull(d) ==
    /\ run[d] = Idle /\ config[d].version < main.version
    /\ config' = Set(config, d, main)
    /\ UNCHANGED <<found, passed, server, local, main, asked, run, failures, variants>>

\* A job of a new pipeline leaves its artifact.
JobEnds ==
    /\ found < MaxPipelines
    /\ found' = found + 1
    /\ UNCHANGED <<passed, files, run, failures, variants>>

\* A pipeline succeeds; an earlier one may not.
PipelinePasses ==
    /\ passed < found
    /\ passed' \in passed + 1 .. found
    /\ UNCHANGED <<found, files, run, failures, variants>>

\* The first pipeline is pinned already, and its file is on the server.
Init ==
    /\ found = 1 /\ passed = 1
    /\ server = [p \in Pipelines |-> IF p = 1 THEN 1 ELSE Nothing]
    /\ local = [d \in Devs |-> [p \in Pipelines |-> Nothing]]
    /\ main = [version |-> 1, hash |-> 1]
    /\ config = [d \in Devs |-> main]
    /\ run = [d \in Devs |-> Idle]
    /\ asked = [d \in Devs |-> {}]
    /\ failures = 0
    /\ variants = [p \in Pipelines |-> IF p = 1 THEN {1} ELSE {}]

Script(d) == FindJob(d) \/ HeadRequest(d) \/ Download(d) \/ WriteConfig(d)

Next ==
    \/ \E d \in Devs : Script(d) \/ Fail(d) \/ Upload(d) \/ Merge(d) \/ Pull(d)
    \/ JobEnds \/ PipelinePasses

Spec == Init /\ [][Next]_vars

\* The developers run the script again and again, upload what it asks them to, and
\* get their changes merged.
Fairness ==
    /\ \A d \in Devs : WF_vars(Script(d)) /\ WF_vars(Upload(d)) /\ WF_vars(Merge(d))
    /\ WF_vars(PipelinePasses)

FairSpec == Spec /\ Fairness

-----------------------------------------------------------------------------
Contents == {Cut} \cup Pipelines

Runs ==
    [pc : {"idle", "head", "download", "config"}, job : 1 .. found,
     needsUpload : BOOLEAN, hash : Contents \cup {Nothing}]

\* Types; a run that is to write the configuration has a hash to write.
TypeOK ==
    /\ found \in Pipelines /\ passed \in 1 .. found
    /\ server \in [Pipelines -> Contents \cup {Nothing}]
    /\ local \in [Devs -> [Pipelines -> Contents \cup {Nothing}]]
    /\ main \in [version : 1 .. found, hash : Contents]
    /\ config \in [Devs -> [version : 1 .. found, hash : Contents]]
    /\ run \in [Devs -> Runs]
    /\ asked \in [Devs -> SUBSET Pipelines]
    /\ \A d \in Devs : run[d].pc = "config" => run[d].hash # Nothing
    /\ failures \in 0 .. MaxFailures
    /\ variants \in [Pipelines -> SUBSET Contents]

\* What is merged is the manual of the pipeline it names, over any runs of several
\* developers with files left from earlier ones, unless a download under that name was
\* cut short or was another pipeline's artifact.
PinnedIsThePipelines ==
    variants[main.version] \subseteq {main.version} => main.hash = main.version

\* What is merged can be built: the server has the file, with the hash that is pinned,
\* as long as all files of that name have been the same, of whichever pipeline.
MainCanBeBuilt ==
    LET p == main.version
    IN  /\ server[p] # Nothing
        /\ (\A a, b \in variants[p] : a = b) => server[p] = main.hash

\* Whatever failed, the newest version is merged in the end, with the newest manual's hash
\* unless a file of that name was cut short or was another pipeline's: such a one may be
\* pinned, and then stays, since nothing is written for a version that is pinned already.
NewestIsMerged ==
    <>[](/\ main.version = found
         /\ variants[found] \subseteq {found} => main.hash = found)
=============================================================================

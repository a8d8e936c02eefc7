# Verification of tor-browser-build

tor-browser-build builds Tor Browser, Mullvad Browser and Tor VPN reproducibly,
and holds the scripts that prepare a release, sign it, and publish it with the
update responses that installed browsers read. The build itself is a function of
its configuration. What is hard to get right, and hard to test, is around it:
scripts that move and rewrite the same files on several machines, are
interrupted and run again, share locks, repositories and web trees with other
runs, and decide what users are updated to. This directory models those scripts
in TLA+, checks them with TLC, and proves some of the results with TLAPS.

`PROJECT.json` lists the components, the runs with the question each one asks,
the source lines every definition models (`map`), the mutations of the code that
break each property (`mutants`), the hazards, the disagreements found
(`findings`), and the theorems.

    tlc -workers 2 -config MCDoAllSigning_release.cfg MCDoAllSigning
    tlapm SignNightlyProofs.tla

## 1. Inventory

| Component | Source | State it keeps | Module |
| --- | --- | --- | --- |
| Release signing | `tools/signing/do-all-signing` and the scripts it calls | files of a version on five hosts, `.done` markers, passwords | `DoAllSigning` |
| Nightly signing | `tools/signing/nightly/sign-nightly`, `tools/prune-old-builds` | lock file, current versions, version directories, responses, mirrored tree | `SignNightly` |
| Deployment of responses | `tools/signing/upload-update_responses-to-staticiforme` and the script it generates | shared git repository, clones, web server checkout, mirrors | `UpdateDeploy`, `UpdateService` |
| Incremental mars | `tools/update-responses/update_responses` (`gen_incrementals`, `download_missing_versions`), `tools/dmg2mar`, `hash_incrementals`, `Makefile` | old versions, incremental mars, list of them, child processes | `IncrementalMars` |
| Update responses | `update_responses` (`write_responses`, `write_htaccess`), `update_responses_config.yml` | responses and rewrite rules of a channel | `UpdateResponses` |
| Release preparation | `tools/relprep.py` | clone and worktree, tags, changelogs | `RelPrep` (partly) |
| Changelogs | `tools/fetch_changelogs.py` | issues found, while GitLab changes | `Changelog` |
| Pinning of the manual | `tools/update_manual.py` | downloaded files, configuration, file server | `UpdateManual` |
| Offline manual packaging | `projects/manual/package_marble_build_artifacts.py` | parser, written pages, copied files, list of locales | `ManualPackage` |
| Signing machine | `linux-signer-signmars`, `linux-signer-authenticode-signing`, `tools/signing/wrappers/*` | version directories, last signed file of each wrapper, sessions | `LinuxSigner` (partly) |
| Build, bundle data, toolchains, keys, checks and statistics | `rbm.conf`, `projects/*`, `tools/*` | see section 7 | not modelled |

How they interact: `relprep.py` writes the configuration of a version, with the
versions incremental mars are made from, and somebody tags it. The build machine
builds it and makes the incremental mars. `relprep.py` gets its changelogs from
`fetch_changelogs.py`, and the manual that it pins from `update_manual.py`; the build
fetches the file that is pinned, and packages it. `do-all-signing` copies the result,
sends it from machine to machine for each kind of signature, has dmg2mar make
the mars of macOS again from the signed image, publishes files on dist and cdn
and, near its end, runs `upload-update_responses-to-staticiforme`, which pushes
the responses and sends a deployment script. Somebody runs that script later,
when users should get the update, and browsers follow the rules to a mar.
Nightly builds take a path of their own, from cron, without operators.

For each component, what it does, what is hard, and what makes it correct:

- **Release signing.** Thirty-three steps in a fixed order, each skipped if its
  marker is there. Hard: a run dies after a step's work and before its marker; a
  step is half done; an rsync goes back and forth between two machines; a step
  deletes its own input; the script starts while the build is running; a rerun
  asks only for the passwords it thinks it needs. Correct: what reaches the web
  server carries every signature of its kind; sums and detached signatures are
  those of the published bytes; the responses and the cdn agree with dist;
  reruns finish, or an interrupt hit one of the steps that destroy their input.
- **Signing machine.** Hard: every project's wrapper writes to one output file, which the
  caller copies afterwards; a run whose connection is lost goes on beside its rerun; a
  run dies while it copies. Correct: when a step has its marker, its files are signed,
  whole and its own.
- **Nightly signing.** Hard: two projects share lock, configuration, output
  directory and mirrored tree; errors run the `END` block and kills do not;
  builds finish in any order and expire; one rsync mirrors while clients read.
  Correct: the mirror can be followed at every moment, never goes back, and the
  newest build gets there.
- **Deployment.** Hard: managers push to one repository; a run commits directory
  by directory; a deployment takes what the other channel has pushed too; runs
  and deployments die between commands. Correct: whole releases, in order,
  approved, none undone by another.
- **Incremental mars.** Hard: forked children that outlive their parent; two
  machines that make the same files, one of them after the other has listed its
  own; directories of interrupted downloads. Correct: after signing every
  incremental mar leads to a signed bundle and none is missing silently.
- **Update responses.** Hard: the order of regular expressions over many years
  of version numbers, mars missing for some platforms, an update installed after
  newer ones are published. Correct: everybody gets to the last version through
  every release that must not be skipped; partial updates fit.
- **Release preparation.** Hard: tags read before they are fetched, partial and
  repeated runs, two browsers in one configuration. Correct: a new build number,
  the right incremental versions, a changelog that says what changed, the right
  firefox for each browser.
- **Changelogs.** Hard: several requests while people go on working on the issues; a
  sort by one number and headings by another; two sections and two browsers. Correct:
  every linked issue is listed once, under one heading for its platforms, from the
  issue of the version asked for.
- **Pinning of the manual.** Hard: three answers of GitLab and a file server, at
  different times, for one name; files left from earlier runs, cut short or not; several
  developers. Correct: what is merged can be built, is what it says it is, and becomes
  the newest, as far as the files of its name are.
- **Offline manual packaging.** Hard: documents of any shape, of which every tag must
  either be kept in place or refuse the document; ids and links that are converted
  apart from each other; pages that are written before later ones are refused. Correct:
  what is written is one whole body, its links lead where they did, the browser lists
  only locales that are complete.

## 2. How the models correspond to the code

Data is reduced to what the properties tell apart: a file's content in
`DoAllSigning` is the set of signatures it carries and a revision that grows with
each rewrite, so that copies can be compared; versions are numbers, except in
`UpdateResponses`, where the rules look into them. Control is kept: order of
commands, early returns, what an error leaves behind.

**DoAllSigning.** `pos` is the step the running script has reached, `done` the
markers, `handled` what this run has done of the step, `secrets` the passwords in
its environment. One action per step works on one file at a time; `FinishStep`
touches the marker; `SkipStep` is `do_step`'s test; `Interrupt` ends the run
anywhere, and the next `Start` begins again with the markers and the files as
they are. `InputGone` says when a step's commands cannot succeed any more.
`BuilderMergesFiles` and `BuilderHashesIncrementals` are the build, when the
script overtakes it (`BuiltFirst = FALSE`).

**LinuxSigner.** A session is one of two steps of one project, and a run is one attempt
at it: `client` is the run that `do_step` still listens to. `at` goes through an
iteration: `rm -f` (`Clear`), the signing tool that opens and writes its output (`Open`,
`Close`), `chmod`, `cp` (`Copy`). The output, `last`, has the files its bytes are of and
the runs that still write to it. `Fail` is the death of a run anywhere, in the middle of
`cp` too; `Disconnect` leaves it running, and its next line of output may end it
(`BrokenPipe`). `shared` remembers the outputs that two runs have used at a time.
`SignerInit`, `SignerNext` and `SignerSpec` have their names because `MCSigningMachine`
extends both this module and `DoAllSigning`.

**SignNightly.** `pc` follows one invocation from `run_alone` to the `END` block,
with an action for each function of the script. `Fail` is `exit_error` or a
`die`, which run the `END` block; `Kill` leaves the lock file with the pid of a dead
process. A version is copied file by file, and a file is `"partial"` while it is copied.
rsync is one transfer per file and three phases. `Environment`: days
pass, builds finish, builds expire; `Made` says of which days there is ever a build.

**UpdateDeploy.** A tree gives a version for every platform of every channel. Of
git only what the commands look at is kept: the number of pushes origin has had,
the one a clone is at, and whether it has commits of its own. A run goes from
`git pull` to the marker; the generated script checks the changed files, checks
out and runs `static-update-component`. Its argument, the commit to deploy in place of
the script's own (line 79), may name any commit that was ever pushed (`DeployNamed`),
the ones that have some directories of a release only too. `Repair` is the manager
resetting a clone that git refuses to work with; it is external. `MaxTrouble` bounds
failures and named commits together.

**IncrementalMars.** A command on each of two machines; `children` are the forked
processes, with the run that forked them. When a child fails, its parent exits
and the others go on. On the build machine the command can be run again beside
them; on the signing machine `do_step` has their output in a pipe and waits.
Sources of old mars are `Published`; a download that died leaves its directory.

**UpdateResponses.** The rewrite rules of `update_responses_config.yml` and those
that `write_htaccess` makes are predicates on versions, tried in order. A user of
one of the old versions asks and installs while versions are published with any
subset of platforms and of incremental mars. Each channel has one version in the
configuration, as the template of `projects/release` makes it.

**RelPrep.** `Start` is `__init__` with `get_last_releases`; each file has an action
that reads its source and writes it. A kill may come while a file is open for
writing, which leaves it empty (`truncated`). `Merge`, `Tag`, `OthersMerge` and
`UpstreamMoves` are everybody else. Within `pc = "projects"` the files are written in
any order, which includes the script's own: none of them reads another's.

**Changelog.** A behaviour is one run: `FindIssue`, which searches titles and, if none
has the text, takes whatever issue has that number (`Tickets`, of which the release
preparations are some), one request for links after the other (`IncludeLinked`, `ExcludeLinked`), and `Create`, the sort and the text, as a
sequence of headings and entries. `Relabel`, `Relink` and `Close` are what people do in
GitLab meanwhile; `always` and `ever` remember what the issues were linked to. The sort
is by `Less`, which is `__lt__`, and keeps the order of equal updates. `ChangelogInit`,
`ChangelogNext` and `ChangelogSpec` have their names because `MCGitLabTools` extends both
this module and `UpdateManual`.

**UpdateManual.** `run[d]` is where a developer's run of the script is, and what it has
read so far. A file's content is the pipeline whose artifact it is, or `Cut`; a name may
get another pipeline's artifact, because the job found and the last successful pipeline
are different questions. `Upload`, `Merge` and `Pull` are the developers.

**ManualPackage.** The tokens of `html.parser` are the actions: `StartTag`, `EndTag`,
`Text`, `EndOfFile`. The parser's stack is kept, with the id of an `olm-page`; of what is
written, the elements that are open in it, its ids, links and files, and whether a reader
of it would see other elements than were written (`flawed`). Documents have any length,
since the rest is sets; ids are sequences of names, and paths of parts, so that the
conversions of one to the other are what the code does. The names of files are a
function of their paths that need not be injective, which is why the code looks for
collisions.

**UpdateService** is the abstract specification of what users get: `Enable` a
channel's next release, `Serve` what is enabled of some channels. Once an operator has
named a commit (`byHand`), `ByHand` may serve anything else that is approved.
`UpdateDeploy` instantiates it with `enabled <- approved, served <- live`, and the
property `ServesReleases` is that every behaviour of the scripts is one of it.

## 3. Runs, properties, and bounds

| Run | What is checked |
| --- | --- |
| `release_signing` | `PublishedIsFinal`, `PublishedIsConsistent`, `UpdatesMatchMars`, `NoSignatureLost`, `EventuallyFinishedOrWedged` |
| `signing_machine` | `FinishedIsSigned` of `LinuxSigner`, `SecretsAvailable` of `DoAllSigning` |
| `signing_overlaps_build` | violation of `WaitsForFinishedBuild` |
| `nightly_projects` | `AlwaysServable`, `NeverDowngrades` |
| `nightly_project` | `OnlyCurrentIsKept`, `CurrentReachesDest`, `NewestIsSignedOrWedged` |
| `nightly_overlap` | violation of `RunningHoldsLock` |
| `deploy_managers` | `NothingUnapproved`, `WholeRelease`, `NotBlockedByItself`, `ServesReleases`, `NothingGoesBack`, `ServedOrStuck` |
| `incrementals_all` | `UnsignedAreReplaced`, `AllIncrementals`, `OneFailureIsHarmless`, `ConvertedOrStuck` |
| `responses` | `PartialFits`, `SmallestUpdate`, `NoWatershedSkipped`, `GetsToTheLast` |
| `relprep` | `BuildIsNew`, `IncrementalsAreTheLast`, `ChangelogIsOfTheTree`, `BuildsAreTheBrowsers` |
| `manual_package` | `ListedAreComplete`, `PagesAreWhole`, `LinksLeadToTheirSections`, `RefusedForMissingSections` |
| `gitlab_tools` | `GroupedByPlatforms`, `LinkedAreListed`, `RelprepIsOfTheVersion` of `Changelog`; `PinnedIsThePipelines`, `MainCanBeBuilt`, `NewestIsMerged` of `UpdateManual` |

Why the bounds are enough:

- `release_signing` has one file of each kind, since steps treat the files of a kind
  alike and one after the other, and one interrupt at any point, of a script that
  starts before or after the build ends. Two interrupts differ from one when a rerun
  is interrupted in turn: `signing_machine` has two, in a release of Tor VPN, on the
  steps for Android, two of which use the same password.
- `signing_machine` has four scenarios besides, each a behaviour of its own: mars, or
  executables, of two projects, each with two runs and with one failure between them;
  and one project alone, with three runs and two failures, so that a rerun fails where
  the first run had failed. One project has two mars, since a run that goes on without
  its connection can be at another file than its rerun.
- `nightly_projects`: three days, so that a version is current, another is being
  signed, and one is to be removed; `Lookback = KeepDays = 1` is the tightest case of
  the assumption that the server keeps a build as long as the script looks for it;
  one failure, which the other project's run then finds. `nightly_project` has two
  directories of one project, where a failure for one keeps the other from being
  mirrored, and three days, so that a build can be found on the second and expire before
  it is fetched on the third; builds are of the first two days for one directory and of
  the first for the other. One mar stands for all: the scripts treat them alike, and the
  response names a set.
- `deploy_managers`: two channels, each with its manager and two versions: the alpha's
  are for the desktop and Android and the second brings a new platform, the release's
  second is for Android only. `MaxTrouble` is two: two failures, so that the repair of the
  first can fail, two commits named by hand, or one of each.
- `incrementals_all`: two old versions, two platforms, two processors and two
  failures: a child without parent needs one, and to do harm it needs another.
- `responses`: 57 old versions of both channels, from 4.5 on, at each boundary of a
  rule and on each side of it; three targets, two of which map to one platform.
- `relprep`: a history with rebuilds, one more version than is wanted, and a version
  of one browser only; two runs, two failures, two moves of others. Two runs are a
  partial one followed by a complete one, which is what the properties are about.
- `manual_package`: two locales, the second of which is parsed after the first one's page
  is written; tags of each kind that the parser treats differently; a file that is the
  same for both locales, one that differs, two whose names collide, and one that is not
  there. Only the nesting is bounded, by four: html, body, a page and a heading in it.
- `gitlab_tools`: three release preparations, one of Mullvad Browser and one whose
  version begins with another's, an issue that is none and is asked for by its number, a
  number that is no issue's, three issues of which one has no place in the order of
  projects, one move of others during a run; and two developers, two pipelines and two
  failures: one leaves a cut file, and the other can hit the run that repairs it. The two
  tools are side by side in one run, in which a behaviour is one of either.

Deadlock is checked except in the three runs of `SignNightly`, whose last day ends
with nothing to do, and in `manual_package`, `gitlab_tools` and `signing_machine`, where the tool returns. `Terminated` and similar actions say where others may stop.

What some of the properties admit is as much a result as what they forbid:

- `PublishedIsFinal` excepts incremental mars of macOS missing from a truncated list,
  and only if the script was started before the build had ended.
- `EventuallyFinishedOrWedged`: an interrupt after `extract-dmg`,
  `linux-signer-rcodesign-sign` or the creation of the cdn directory, and before the
  marker, leaves a state that no rerun gets out of.
  `osslsigncode` is not in the tree: it is taken to overwrite the `-timestamped` files that
  an interrupted `authenticode-timestamping.sh` has left. If it refuses to, that is another
  such state.
- `FinishedIsSigned` excepts an output that two runs have used at a time: then a file can
  be replaced by another project's, or by a part of one, and be published so. And it
  excepts executables cut short by the death of `cp`, since nothing looks at an
  executable before it is signed again. A mar that was cut short is refused by every
  rerun, for `signmar -T` says nothing of it and `grep` fails.
- `NewestIsSignedOrWedged`: an interrupted `dirmove` leaves a version directory that
  later runs take for complete, with files missing or one of them cut short, and
  `signmar` or `update_responses` then dies every time.
- `CurrentReachesDest`: a run that fails after a version was recorded as current and
  before `sync_dest` is not made up for until another version is built. No failure is
  needed if another directory's build expires between `get_new_version` and
  `fetch_version`: line 168 ends the run.
- `NothingGoesBack`: what a server checks out, and what users get, stays in order until a
  commit is named by hand. An older commit of the same channel passes the check of line
  87, for the files it changes are all the channel's, and users then get an older
  release; of another channel, if that one is checked out and not yet served in between,
  it takes that back. `WholeRelease` and `NotBlockedByItself` are about the scripts' own
  commits for the same reason. `NothingUnapproved` and what is pushed to origin hold
  whatever is named.
- `ServedOrStuck`: a deployment that died between `git checkout` and
  `static-update-component` is refused when it is repeated; two channels whose scripts each hold
  the other's changes refuse both, which takes a failure; and a commit named by hand can
  leave a server from which the scripts' own commits are refused.
- `RefusedForMissingSections`: a link to a section of the manual's top page is converted
  to an id that begins with an empty name (lines 312 to 323), so a document with one is
  always refused.
- `HeadingsOnce`: Go is given one as the number of its three platforms
  (`fetch_changelogs.py:91`), so it is sorted after entries of one platform, and their
  heading can be there twice.
- `RelprepIsOfTheVersion`: when the version asked for has no open issue, that of a longer
  version that begins with it is taken. By a number any issue is taken, a release
  preparation or not.
- `PinnedIsThePipelines`: the configuration is not written when the version is pinned
  already, so a wrong hash stays until the next pipeline. `NewestIsMerged` has the same
  exception: if the file was cut short, or another pipeline's, when it was pinned under the
  newest number, the newest manual is never merged. Without it the property does not hold.
- `NoWatershedSkipped`: 14.0a4 binds the users of every alpha before it but those of
  13.5a10 and later alphas of 13.5, to which no rule applies (`LateAlphas`).
- `ConvertedOrStuck`: an incremental mar of another platform that was not among the files
  synchronised from the builder makes dmg2mar fail every time; directories of old versions
  with no mar in any of them, which dying downloads leave, make the builder fail. Without
  either of the two exceptions the property does not hold.

## 4. Fairness

- `DoAllSigning!FairSpec`: weak fairness of `Runner` (the script goes on with what it
  has to do, and its operator starts it again when it has stopped) and of `Builder`.
- `SignNightly!FairSpec`: weak fairness of each process's steps, and strong fairness of
  `Start`, since cron starts the script every day and the lock is not always taken.
  Nothing is assumed of builds: none need ever finish.
- `UpdateDeploy!FairSpec`: weak fairness of a run's steps, of starting a run for a
  version without a marker and of a deployment's steps, of which naming a commit is
  none; strong fairness of `Repair`, as
  the manager sees the error of every run that git refuses. A deployment script is
  run again as long as the mirrors do not have what it holds, which a refusal does not
  change.
- `IncrementalMars!FairSpec`: weak fairness of the two commands, run until they
  succeed, and of the children.
- `UpdateManual!Fairness`: weak fairness of each developer's script (a step of the run, or
  running it again), upload and merge, and of pipelines' succeeding. Nobody need pull.
- `UpdateResponses!FairSpec`: weak fairness of asking and installing. Nobody need ever
  publish.

Failures, interrupts and kills are never fair, and each has a bound
(`MaxInterrupts`, `MaxFailures`); the liveness properties say what follows once they
have stopped.

## 5. Findings

- `wait-for-finished-build:23` returns as soon as the list of incremental mars
  exists, which is before it is complete (`signing_overlaps_build`).
- `sign-nightly:79`: the `END` block of an instance that found another one running
  removes that one's lock (`nightly_overlap`).

Three more are admitted by name in properties that pass. The comment of
`update_responses_config.yml:89` says "Make 14.0a4 a watershed alpha release", but line 88
ends at 13.5a9 and line 90 begins with 14.0a1: users of 13.5a10, which all older alphas
are sent to, and of 13.5a11 go straight to the newest alpha (`LateAlphas`; without it
TLC finds `NoWatershedSkipped` violated by a user of 13.5a10). In
`upload-update_responses-to-staticiforme:87`, `echo` of an empty list is a line that
`grep -qv` takes for a foreign file, so a deployment cannot be repeated (`NotUpdated` in
`ServedOrStuck`), though lines 89 and 90 speak of files it would change. And
`update_responses:266` makes the check for the macOS signature for every platform
(`NoSignature` in `ConvertedOrStuck`), where the comment of line 264 speaks of macOS.

Noticed while reading, and not stated as properties:
`redeploy-update_responses-release:25` quotes a command and its argument as one name and
always stops there; `Makefile:359`, of Mullvad Browser, hashes the incrementals of the
target torbrowser; `relprep.py:807` passes `--incrementals` under another name than line
121 reads, and line 802 reads the wrong argument for `--build-date`; a preparation for
Mullvad Browser alone writes its build over Tor Browser's in firefox and not in
geckoview (`relprep.py:211`), where the merge request template says they should match;
`relprep.py:125` reads the tags before line 167 fetches them.

## 6. Proofs

The constants are constrained only by the named assumptions of each module, which TLC
evaluates on every run.

**SigningProofs**, of the pipeline (`DoAllSigning`). `TypeCorrect`: `Spec => []TypeOK`, for
every project, set of files and number of interrupts. `TypeOK` is inductive by itself. There is a lemma for each
helper that the steps are built from (`TransferType` for rsync, `PutType` and
`MarksType` for a tool that rewrites a file, `DidType` for the pieces of work), and
`StepType` has a step for each action.
`PasswordsAreThere` (of `SecretsAvailable`): a
running script never comes to a step whose password it has not asked for. The passwords
are read once, from the markers there are at the start, so the invariant `SecretsInv` says
that a script that runs has each password whose steps are not all marked; `AndroidInOrder`
that the markers of Android signing come before the one that the prompt looks at, which no
marker alone tells.
`PublishedFinal` (of `PublishedIsFinal`), `SignaturesStay` (of `NoSignatureLost`),
`UpdatesMatch` (of `UpdatesMatchMars`) and `PublishedConsistent` (of
`PublishedIsConsistent`) hold for every release and any number of interrupted runs; the
last one needs a file in the release that the build makes and no step removes, since the
checksums of an empty directory are not told from missing ones. Their argument goes file by file. `MarkersInOrder`: markers are written in the order
of the steps, and the work of an interrupted step is forgotten. `WorkOnFile`: whatever a
step does to a file is one of some twenty cases (`Work`), so each invariant about one file
is checked against these cases and not against the actions. Then:

- `ReleaseInv` has an invariant for each kind of file: a file whose signing step is marked
  is signed where it was signed, and everywhere once it was brought back (`SignedOf`,
  `StampedOf`, `ApkOf`); the image is taken apart before anything leaves the operator's
  machine and made again from the notarized tar (`TarOK`, `DmgOf`, `HfsOf`); the macOS
  updates are made from that image, for the incrementals as far as the list says
  (`MacMarOf`, `ListSynced`).
- `AgeInv` adds which of the operator's machine and the signer may have the newer version
  of a file, before it is sent, until it is brought back, and after (`AgeOf`), with the
  marks it can have by then (`MarksOf`); and that dist and the cdn have what the operator
  has, once there (`DistOf`, `CdnOf`, `ResponsesOK`). No transfer can then be in the
  wrong direction.
- `PapersInv` is about checksums and detached signatures. From `hash_signed_bundles` on all
  files are brought back (`Sealed`), the operator's copies never change again
  (`SealedStays`) and the signer's are the same (`SealedSame`), so that what is hashed or
  signed on either machine is what is published (`SumsOK`, `AscOK`). That nothing is
  missing in the end goes step by step: a marked step has passed on what it had, and nothing
  removes it before the next has (`ChainOK`, `DetachedOK`).

**SigningProofs**, of the sessions on the signing machine (`LinuxSigner`).
`SignerTypeCorrect` and `Marked` (of `FinishedIsSigned`), for any number of projects, files, runs and failures. The invariant is about each output that is not
shared yet: one run uses it (`OneUser`), what is in it from opening to copying is made of
that run's file (`OwnOutput`), what a connected run has passed over or copied is right
(`DoneByClient`), and nobody, not even a run without connection, signs a mar of a step
that has its marker (`DoneByFinished`). `RunFrame` says what a run's step can change, from
which follows that it is nothing to the other output.

**SignNightlyProofs.** `TypeCorrect` holds with and without overlapping runs.
`ServesAlways` (of `AlwaysServable`) and `NeverGoesBack` (of `NeverDowngrades`) hold when
`MayOverlap = FALSE`, for any projects, directories, mars, days and failures. None of
these is inductive. The invariant `IInv` adds:

- `Alone`: at most one process is not idle, which makes the shared files its own;
- `Placed` and `Progress`: what each point of the script has established about the
  version it works on (its mars are signed, the configuration and then the responses
  are for it);
- `Calendar` and `Ordered`: a version that was taken up is still on the build server or
  has expired, so that no older one is ever the newest of the window again, and the
  destination is not ahead of what is published or worked on. `Lookback <= KeepDays` is
  needed exactly here;
- `NotSpoiled`: a mar that the destination's responses name is signed in the local
  tree, or was removed from it because a newer version is current;
- `Sent`: what the phases of rsync have transferred so far.

`Invariance` is `Spec => []IInv`, with one lemma for each action of the script, of which
`SignVersionStep` and the three phases of rsync are the long ones. A kill in the
middle of a version is covered: the properties do not depend on the run's going on.

`KeepsCurrent` (of `OnlyCurrentIsKept`) adds `Tidy`, which holds until something fails. A
directory no run works on has its current version only, published and on disk
(`LocalTidy`); a run that works on a version has its directory, its `build-infos.json` and
no mar that is cut short, so
that it does not stop half-way without a failure (`HasVersion`); outside rsync the
destination has the mars of the published version only (`DestTidy`).

**UpdateDeployProofs.** `OnlyApprovedIsServed`: `Spec => []NothingUnapproved`, for any
managers with disjoint channels (`OwnerAssumption`), whether or not releases are deployed
in order. `NothingUnapproved` alone does not survive a checkout of a script that holds
another channel's newer version; what does is `IInv`: what has been built bounds every
tree (`Built`), a run works on the newest version its channel has anywhere (`Running`), a
script holds nothing of its own channel newer than its version (`Scripts`), and a
deployment that passed the check of changed files holds of the other channels only what
is approved (`Deploying`). The lemmas separate the managers' side from the server's:
a step of one leaves the other's conjuncts alone. It covers commits named by hand: of
what was ever pushed, a deployment approves what its own channel has, and is refused if
another channel's files would change.

`NeverBack`, `WholeReleases`, `ReleasesAreServed` and `NotBlocked` need more, in four layers of
invariants. What they say of the server holds until a commit is named (`named = 0`), and
what they say of the managers' side whatever is deployed:

- `NeverBack`: `Spec => NothingGoesBack`. `FInv` says that the trees anybody has pushed
  (origin's, the scripts', the running copies', the one checked out, those of clones with
  nothing of their own) are states of one branch (`Branch`), what a clone may differ in
  from origin (`CloneOf`), and that a run replaces files by ones that are not older
  (`ReplacingOf`). The delicate step is `git checkout` on the server, whose check of the
  changed files was done before: another channel's deployment may be past its check at
  the same time. `CheckedForward` shows that they cannot both be: each would have a tree
  without what the other brings, and these are not states of one branch.
- `WholeReleases`: `Spec => []WholeRelease`. All of a version is in a clone's tree when it is
  pushed for its script, whichever run committed which directory.
- `ReleasesAreServed`: `ASSUME DeployFirst PROVE Spec => ServesReleases`, the refinement of
  `UpdateService`. `SInv` says how what the manager, origin, the script and the server have
  of a channel relate to what is served: they differ in what the newest version brings
  only (`RestOf`, `DeployOf`), and at most one version is ahead of what is served
  (`TurnsOf`). `StepsServe` maps each step to `Enable`, `Serve` or nothing; after a commit
  was named each is `ByHand`, which needs `IInv` only.
- `NotBlocked`: `ASSUME DeployFirst PROVE Spec => []NotBlockedByItself`. It does not hold
  without `DeployFirst`: two pushes of one channel can have one of another between them,
  and the script of the second has both. `Queued` says what holds until something fails: a
  channel has at most one push that is not deployed, its script is of that push
  (`SentOnce`, `RunsOnce`), each push has the other channels as they are served or with
  their own push (`PushesOf`), and of two pushes one has the other (`OrderOf`). A push is
  then the last in the order, and a deployment that passes the check takes the first away
  and leaves the others as they were (`DeployCheckoutQueued`). Of finitely many channels
  (`FiniteAssumption`) one is first, and it has no changes but its own (`FirstIsFree`).

**UpdateResponsesProofs.** `PartialsFit` (of `PartialFits`), `UpdatesAreSmallest` (of
`SmallestUpdate`) and `WatershedsAreNotSkipped` (of `NoWatershedSkipped`), for any targets,
platforms, series of versions and mars. The rules of a directory are a sequence that an
answer is searched in from the front (`FirstFacts`, `RedirectFacts`, `AnswerIs`), so that
`HtaccessFacts` says what is in front of what, and `AnswerOfTheLast` what a user of a
version is answered: nothing if it is the last that the platform has a mar of, the
incremental if there is one, the complete one otherwise. The invariant has that each
platform's directory is of that version (`DirectoryIsOfTheLast`), that a version's files
name earlier versions and a full mar only (`FilesAreOf`), and that an offer stays right
while the user waits (`OfferIsRight`). The rules for old versions are compared with the
watershed releases number by number (`AlphaFacts`, `ReleaseFacts`), which leaves
`LateAlphas` as the only users that a watershed release is not enforced for; `SeriesAssumption` has the numbers as the project
gives them.

**RelPrepProofs.** `BuildsAreNew`, `IncrementalsAreLast`, `ChangelogsAreOfTheTree` and
`BuildsAreOfTheBrowsers`, each of the property of its name, for any projects, histories
and numbers of incrementals. The invariant has that tags are in the order of versions and
builds (`TagsInOrder`): a build number is found from the tags, nothing is merged with a
lower one than what was merged before, and tags are of what is merged. What a run has
found from the tags it knew it keeps to its end (`RunOK`), and what it writes follows from
that (`WrittenOK`). That the versions taken for incrementals are the last ones, as many as asked for or all there are,
needs facts about the greatest elements of sets of indices and their number (`MaxOf`,
`NewestCount`), since of each version only the last build counts (`LastBuildsFacts`).

**GitLabToolsProofs**, of the two tools side by side. Of `Changelog`: `ChangelogTypeCorrect`;
`Headings` (of `GroupedByPlatforms`), for any issues, labels and updates; `Linked` (of
`LinkedAreListed`) and `RelprepFound` (of `RelprepIsOfTheVersion`), for whatever GitLab does
between the requests, and whatever issues are named. A heading is written where the platforms change, so everything
rests on the order: `Before`, which is `__lt__` and for equal updates their names, is a
strict order of the entries of a section unless the sort fails (`EntriesOrdered`), because
projects, numbers and the bits of platforms tell entries apart (`OrderFacts`,
`EntriesSortable`, `BitsFacts`). Then the sorted sequence has every entry
(`SortedFacts`, by counting those before each one), and between two lines with one heading
stands a line of other platforms, which the order has there only if the numbers of platforms
that were counted differ, as Go's does (`HeadingOnce`). `ChangelogInv` says what a run has
fetched at every stage: nothing that was not linked at some time (`ever`), and all that was
linked all the time (`always`) to an issue whose answer it has; and a number that is no
issue's is still to be asked for, so that no run comes to its end with one. The fetched labels are free,
since nothing here depends on when an issue was labelled.

Of `UpdateManual`: `PinnedIsRight` and `MainBuilds`, for any developers, pipelines and
failures. The invariant is about what can be known of a name: `variants` has every
content that a file of it has had anywhere (`FilesAreCounted`), what a developer is asked
to upload is there (`AskedAreThere`), and a run or a configuration that has a hash has it
from such a file (`RunOK`, `ConfigOK`), so that a configuration whose upload is done names
a file of the server (`MainOK`).

**IncrementalMarsProofs.** `TypeCorrect`, `Signed` (of `UnsignedAreReplaced`) and `AllThere`
(of `AllIncrementals`), for any platforms, versions, processors and failures. Both are
about what the local machine has when dmg2mar has ended, which is right because of what
was true while its children ran. `LocalInv` says it and the builder's steps leave it
alone: its children are those of the command that runs, each of another task
(`OwnChildren`); what is wanted is there, or still to be dealt with, or being made by one
of them (`MadeOrMaking`); and no mar made from an unsigned bundle is left (`Replaced`).
`NotYet`, that a command has children only while it makes files, is needed because
children may outlive the command that forked them and be of another.
`OneFailure` (of `OneFailureIsHarmless`) has an invariant of its own, `BuilderInv`: before
the one failure every child is the command's (`NoOrphan`) and has a task of its own, so
that a child that fails unlinks no file of another; after it nothing unlinks anything, and
what is wanted is covered by a file, by `todo` or by a child (`Covered`).

**ManualPackageProofs.** `TypeCorrect`, `ListedComplete` (of `ListedAreComplete`), `Whole`
(of `PagesAreWhole`), `RefusedForALink` (of `RefusedForMissingSections`) and `LinksLead` (of
`LinksLeadToTheirSections`), for any locales, files and start tags, and documents of any
length and depth. The core is that the elements that are open in the body that is
written are those open in the document from its body on, in the same order
(`OpenBody`). A `body` that closes itself needs a case of its own (`EndlessBody`): it is
none of the parser's elements, it never ends, and the document is refused only at its end.
`Collected` says that the ids and links the parser has noted are those it has written.
`LinksLead` has the hypothesis `IdsHaveNames`: an id of a document has a name at its
beginning.

Only model-checked: the liveness properties, since the prover does not handle `ENABLED`, hence
not fairness either.
What a recursive definition computes for every input needs induction over data, which
the installed provers cannot do; no module here declares a recursive operator.

## 7. Not modelled

- **Signing machine**: the wrappers other than sign-mar and sign-exe, whose results are
  named after the application or go to their caller. A session of sign-rcodesign can
  remove the password directory of another, which then fails: a failure of a run like any
  other. The installation of the machine is not modelled either.
- **Redeployment, blog posts, github, single transfers**: no other script reads their
  result. `redeploy-update_responses-release` adds a commit of its own to the repository
  and prints the command that deploys it by name: the deployment of a named commit is
  modelled, the commit it would make is not (line 25 stops before it).
- **The build**: rbm is a submodule that is not in the tree; a project's build script is
  compilation and packaging, reproducible by design and checked by rebuilding.
- **Bundle data, installers, toolchains, keys, keyrings, checks and statistics**: data,
  single passes, or reports.
- Within modelled components: the attributes of a response that no rule depends on, the
  downloads json files, the deployment check that only reports, `--no-fetch`, dates, how
  `relprep.py` finds the version of each project and its cached downloads, the attributes
  that `package_marble_build_artifacts.py` copies as they are, access tokens, process
  numbers, and failing hardware or forged input.

## 8. Order, and further work

The order follows what goes wrong most expensively: what is published
(`DoAllSigning`, `LinuxSigner`), what is served without an operator (`SignNightly`), what
is deployed to users (`UpdateDeploy` over `UpdateService`), the files updates need
(`IncrementalMars`, `UpdateResponses`), what a version is made of (`RelPrep`, `Changelog`,
`UpdateManual`, `ManualPackage`). Further work:

1. `RelPrep`: its cached downloads, which like those of `UpdateManual` can be cut short.
2. Proofs: of the liveness properties, the invariants behind them: that a run that is not at
   its end has an action that is enabled, and a number that each such action makes smaller.

------------------------------ MODULE RelPrep ------------------------------
(***************************************************************************)
(* tools/relprep.py: a manager prepares a version in a clone.  The script  *)
(* takes the build number and the versions for incremental updates from    *)
(* the clone's tags, the builds of firefox and the versions of everything  *)
(* else from outside, and writes one file of the worktree after the other; *)
(* it may be run for one browser or both, fail, be interrupted while it    *)
(* writes, and be run again.  Meanwhile other people merge and tag, and    *)
(* upstream moves.                                                         *)
(*                                                                         *)
(* One channel: versions are numbered.  A worktree is its rbm.conf, the    *)
(* builds of firefox and geckoview, a version for each other project, and  *)
(* the sections of the changelogs.                                         *)
(***************************************************************************)
EXTENDS Integers, Sequences, FiniteSets, FiniteSetsExt

CONSTANTS
    Browsers,       \* "tbb", "mb"
    ProjectsOf,     \* ProjectsOf[b]: projects the script updates for b
    NumIncrementals,
    Histories,      \* tags there may be at first: sequences of <<browser, version, build>>
    MaxVersion, MaxBuild,   \* bounds on versions and on their builds
    MaxRuns,        \* bound on runs of the script
    MaxMoves,       \* bound on merges, and on what upstream does
    MaxFailures     \* bound on failed and killed runs

ASSUME BrowsersAssumption == Browsers = {"tbb", "mb"}
ASSUME SizesAssumption ==
    {NumIncrementals, MaxVersion, MaxBuild, MaxRuns, MaxMoves, MaxFailures} \subseteq Nat /\ NumIncrementals # 0
\* Versions are released in their order, and the builds of each in theirs.
ASSUME HistoriesAssumption ==
    \A h \in Histories :
        /\ h \in Seq(Browsers \X (1 .. MaxVersion) \X (Nat \ {0})) /\ h # <<>>
        /\ \A i, j \in 1 .. Len(h) : i <= j => h[i][2] < h[j][2] \/ (h[i][2] = h[j][2] /\ h[i][3] <= h[j][3])
ASSUME ProjectsAssumption == DOMAIN ProjectsOf = Browsers

Projects == UNION {ProjectsOf[b] : b \in Browsers}

VARIABLES
    tags,       \* of the repository, in the order of their dates
    upstream,   \* [build |-> what firefox's tags and branches give, pin |-> versions]
    origin,     \* [n |-> number of merges, tree]: the channel's branch
    clone,      \* [base |-> merge HEAD descends from, seen |-> the one last fetched,
                \*  tags |-> number of tags fetched, tree |-> HEAD's]
    work,       \* the worktree
    truncated,  \* its files that were being written when a run was killed
    pc, opts,   \* the run, and what it was started for
    last,       \* self.last_releases, as indices of tags
    build,      \* self.build_number
    known,      \* the tags they come from: the first ones
    todo,       \* what is still to be done of a step's files
    ready,      \* a complete run has just succeeded
    runs, moves, failures

run == <<pc, opts, last, build, known, todo>>
vars == <<tags, upstream, origin, clone, work, truncated, run, ready, runs, moves, failures>>

NoOpts == [version |-> 0, browsers |-> {}, only |-> FALSE]

NoReleases == [b \in Browsers |-> {}]

\* The process ends, and its variables with it.
Exit ==
    /\ pc' = "idle" /\ opts' = NoOpts
    /\ last' = NoReleases /\ build' = 0 /\ known' = 0 /\ todo' = {}

\* The build of firefox that a browser is built from: mullvadbrowser may have one of
\* its own, 0 if it has not.
FirefoxBuild(tree, b) == IF b = "mb" /\ tree.own # 0 THEN tree.own ELSE tree.build

-----------------------------------------------------------------------------
(* The script.                                                             *)

\* get_last_releases. Tags are taken newest first.
NewestOf(I, n) == {i \in I : Cardinality({j \in I : j > i}) < n}

OtherTags(v, b) == {i \in 1 .. clone.tags : tags[i].browser = b /\ tags[i].version # v}

LastReleases_Rebuilt(v, b) == NewestOf(OtherTags(v, b), NumIncrementals)

LastReleases(v, b) ==
    NewestOf({i \in OtherTags(v, b) :
                 \A j \in OtherTags(v, b) : j > i => tags[j].version # tags[i].version},
             NumIncrementals)

PreviousBuilds(v) == {i \in 1 .. clone.tags : tags[i].version = v}

BuildAfter(I) == IF I = {} THEN 1 ELSE tags[Max(I)].build + 1

BuildNumber_OfTheBrowsers(v, B) == BuildAfter({i \in PreviousBuilds(v) : tags[i].browser \in B})

BuildNumber(v, B) == BuildAfter(PreviousBuilds(v))

\* __init__; only_changelogs is for a version whose preparation there is already.
Start ==
    /\ pc = "idle" /\ runs < MaxRuns
    /\ \E v \in {clone.tree.version, clone.tree.version + 1}, B \in (SUBSET Browsers) \ {{}},
          only \in BOOLEAN :
         /\ v <= MaxVersion
         /\ only => work.version = v
         /\ opts' = [version |-> v, browsers |-> B, only |-> only]
         /\ last' = [b \in Browsers |-> LastReleases(v, b)]
         /\ build' = BuildNumber(v, B)
         /\ IF only THEN pc' = "changelogs" /\ todo' = B ELSE pc' = "sanity" /\ todo' = {}
    /\ known' = clone.tags
    /\ ready' = FALSE
    /\ runs' = runs + 1
    /\ UNCHANGED <<tags, upstream, origin, clone, work, truncated, moves, failures>>

\* branch_sanity_check: HEAD must descend from the branch as it is known; a fetch that
\* fails is only warned of.
Fetched == [clone EXCEPT !.seen = origin.n, !.tags = Len(tags)]

BranchSanityCheck ==
    /\ pc = "sanity"
    /\ clone' \in {clone, Fetched}
    /\ IF clone'.base = clone'.seen
          THEN pc' = "firefox" /\ UNCHANGED <<opts, last, build, known, todo>>
          ELSE Exit
    /\ UNCHANGED <<tags, upstream, origin, work, truncated, ready, runs, moves, failures>>

\* The two assignments to browser_build of update_firefox.
WithBuilds_KeepsOwn(tree) ==
    LET tb == upstream.build["tbb"]
        mb == upstream.build["mb"]
    IN  CASE opts.browsers = {"tbb"} -> [tree EXCEPT !.build = tb]
          [] opts.browsers = {"mb"} -> [tree EXCEPT !.build = mb, !.own = 0]
          [] OTHER -> [tree EXCEPT !.build = tb, !.own = IF tb = mb THEN @ ELSE mb]

WithBuilds(tree) ==
    LET tb == upstream.build["tbb"]
        mb == upstream.build["mb"]
    IN  CASE opts.browsers = {"tbb"} -> [tree EXCEPT !.build = tb]
          [] opts.browsers = {"mb"} -> [tree EXCEPT !.build = mb, !.own = 0]
          [] OTHER -> [tree EXCEPT !.build = tb, !.own = IF tb = mb THEN 0 ELSE mb]

\* Android is on for Tor Browser.
Android == "tbb" \in opts.browsers

ToUpdate == UNION {ProjectsOf[b] : b \in opts.browsers}

UpdateFirefox ==
    /\ pc = "firefox" /\ "firefox" \notin truncated
    /\ work' = WithBuilds(work)
    /\ IF Android THEN pc' = "geckoview" /\ todo' = {} ELSE pc' = "projects" /\ todo' = ToUpdate
    /\ UNCHANGED <<tags, upstream, origin, clone, truncated, opts, last, build, known, ready, runs, moves, failures>>

\* update_firefox, its second part: the build it has just read.
UpdateGeckoview ==
    /\ pc = "geckoview" /\ "geckoview" \notin truncated
    /\ work' = [work EXCEPT !.gecko = work.build]
    /\ pc' = "projects" /\ todo' = ToUpdate
    /\ UNCHANGED <<tags, upstream, origin, clone, truncated, opts, last, build, known, ready, runs, moves, failures>>

\* update_application_services to update_moat_settings, each with its own file; in any
\* order, since none of them reads another's.
UpdateProject ==
    /\ pc = "projects"
    /\ \E p \in todo \ truncated :
         /\ work' = [work EXCEPT !.pin[p] = upstream.pin[p]]
         /\ todo' = todo \ {p}
    /\ UNCHANGED <<tags, upstream, origin, clone, truncated, pc, opts, last, build, known, ready, runs, moves, failures>>

\* torbrowser_incremental_from: a version of one browser only is for that browser.
IncrementalFrom ==
    LET of(b) == {tags[i].version : i \in last[b]}
    IN  {[version |-> v, browsers |-> {b \in Browsers : v \in of(b)}] :
            v \in UNION {of(b) : b \in Browsers}}

UpdateRbmConf ==
    /\ pc = "projects" /\ todo = {}
    /\ "rbm.conf" \notin truncated /\ \A b \in Browsers : last[b] # {}
    /\ work' = [work EXCEPT !.version = opts.version, !.number = build, !.from = IncrementalFrom]
    /\ pc' = "changelogs" /\ todo' = opts.browsers
    /\ UNCHANGED <<tags, upstream, origin, clone, truncated, opts, last, build, known, ready, runs, moves, failures>>

\* make_changelogs: what is different from the last release's tag, on top of HEAD's.
Section(b) == [version |-> opts.version, updates |->
                  {p \in ProjectsOf[b] : work.pin[p] # tags[Max(last[b])].pin[p]}]

Changelog_OnWorktree(b) == <<Section(b)>> \o work.changelog[b]

Changelog(b) == <<Section(b)>> \o clone.tree.changelog[b]

MakeChangelogs ==
    /\ pc = "changelogs" /\ truncated \cap (Projects \cup {"firefox"}) = {}
    /\ \E b \in todo :
         /\ last[b] # {}
         /\ work' = [work EXCEPT !.changelog[b] = Changelog(b)]
         /\ truncated' = truncated \ {b}
         /\ todo' = todo \ {b}
    /\ UNCHANGED <<tags, upstream, origin, clone, pc, opts, last, build, known, ready, runs, moves, failures>>

Finish ==
    /\ pc = "changelogs" /\ todo = {}
    /\ Exit
    /\ ready' = (~opts.only /\ truncated = {})
    /\ UNCHANGED <<tags, upstream, origin, clone, work, truncated, runs, moves, failures>>

\* An exception (a request that fails, a file that cannot be loaded), or a kill; the
\* latter may come between open("w"), which empties a file, and the end of the dump.
Writing ==
    CASE pc \in {"firefox", "geckoview"} -> {pc}
      [] pc = "projects" -> IF todo = {} THEN {"rbm.conf"} ELSE todo
      [] pc = "changelogs" -> todo
      [] OTHER -> {}

Fail ==
    /\ pc # "idle"
    /\ failures < MaxFailures
    /\ failures' = failures + 1
    /\ \/ UNCHANGED truncated
       \/ \E f \in Writing : truncated' = truncated \cup {f}
    /\ Exit
    /\ UNCHANGED <<tags, upstream, origin, clone, work, ready, runs, moves>>

\* A file that is empty cannot be loaded, and last_releases has no entry for a browser
\* that had no other version.
Raises ==
    CASE pc = "projects" -> \/ Writing \cap truncated # {}
                            \/ todo = {} /\ \E b \in Browsers : last[b] = {}
      [] pc = "changelogs" -> todo # {} /\ (\/ \E b \in todo : last[b] = {}
                                           \/ truncated \cap (Projects \cup {"firefox"}) # {})
      [] pc \in {"firefox", "geckoview"} -> pc \in truncated
      [] OTHER -> FALSE

Raise ==
    /\ Raises
    /\ Exit
    /\ UNCHANGED <<tags, upstream, origin, clone, work, truncated, ready, runs, moves, failures>>

Script ==
    \/ Start \/ BranchSanityCheck \/ UpdateFirefox \/ UpdateGeckoview \/ UpdateProject
    \/ UpdateRbmConf \/ MakeChangelogs \/ Finish \/ Raise \/ Fail

-----------------------------------------------------------------------------
(* The manager's other commands, other people, and upstream.               *)

\* The preparation is reviewed and merged.
Merge ==
    /\ pc = "idle" /\ ready /\ clone.base = origin.n /\ moves < MaxMoves
    /\ origin' = [n |-> origin.n + 1, tree |-> work]
    /\ clone' = [clone EXCEPT !.base = origin.n + 1, !.seen = origin.n + 1, !.tree = work]
    /\ ready' = FALSE
    /\ moves' = moves + 1
    /\ UNCHANGED <<tags, upstream, work, truncated, run, runs, failures>>

\* git checkout, git pull.
Pull ==
    /\ pc = "idle"
    /\ ready' = FALSE
    /\ clone' = [base |-> origin.n, seen |-> origin.n, tags |-> Len(tags), tree |-> origin.tree]
    /\ work' = origin.tree
    /\ truncated' = {}
    /\ UNCHANGED <<tags, upstream, origin, run, runs, moves, failures>>

OthersMerge ==
    /\ moves < MaxMoves
    /\ origin' = [origin EXCEPT !.n = @ + 1]
    /\ moves' = moves + 1
    /\ UNCHANGED <<tags, upstream, clone, work, truncated, run, ready, runs, failures>>

\* make $project-signtag, of what is merged.
Tag(b) ==
    LET t == origin.tree
    IN  /\ t.number <= MaxBuild
        /\ \A i \in 1 .. Len(tags) :
              <<tags[i].browser, tags[i].version, tags[i].build>> # <<b, t.version, t.number>>
        /\ tags' = Append(tags, [browser |-> b, version |-> t.version, build |-> t.number, pin |-> t.pin])
        /\ UNCHANGED <<upstream, origin, clone, work, truncated, run, ready, runs, moves, failures>>

\* New commits of firefox, for which the next build is taken; a new version or rebase of
\* it, the same for both browsers, whose builds start again; or a release of something.
UpstreamMoves ==
    /\ moves < MaxMoves
    /\ moves' = moves + 1
    /\ \/ \E b \in Browsers : upstream' = [upstream EXCEPT !.build[b] = @ + 1]
       \/ upstream' = [upstream EXCEPT !.build = [b \in Browsers |-> 1]]
       \/ \E p \in Projects : upstream' = [upstream EXCEPT !.pin[p] = @ + 1]
    /\ UNCHANGED <<tags, origin, clone, work, truncated, run, ready, runs, failures>>

\* The versions so far were prepared and tagged, and the clone is as the branch is.
FirstTree(h) ==
    [version |-> h[Len(h)][2], number |-> h[Len(h)][3], from |-> {}, build |-> 1, own |-> 0, gecko |-> 1,
     pin |-> [p \in Projects |-> 1], changelog |-> [b \in Browsers |-> <<>>]]

Init ==
    \E h \in Histories :
    /\ tags = [i \in 1 .. Len(h) |->
           [browser |-> h[i][1], version |-> h[i][2], build |-> h[i][3], pin |-> FirstTree(h).pin]]
    /\ upstream = [build |-> [b \in Browsers |-> 1], pin |-> FirstTree(h).pin]
    /\ origin = [n |-> 0, tree |-> FirstTree(h)]
    /\ clone = [base |-> 0, seen |-> 0, tags |-> Len(h), tree |-> FirstTree(h)]
    /\ work = FirstTree(h)
    /\ truncated = {}
    /\ pc = "idle" /\ opts = NoOpts
    /\ last = NoReleases /\ build = 0 /\ known = 0 /\ todo = {}
    /\ ready = FALSE
    /\ runs = 0 /\ moves = 0 /\ failures = 0

Next ==
    \/ Script
    \/ Merge \/ Pull \/ OthersMerge \/ UpstreamMoves
    \/ \E b \in Browsers : Tag(b)

Spec == Init /\ [][Next]_vars

-----------------------------------------------------------------------------
Files == Projects \cup Browsers \cup {"firefox", "geckoview", "rbm.conf"}
\* Types; and the files of the worktree are those of the projects and rbm.conf.
TypeOK ==
    /\ tags \in Seq([browser : Browsers, version : Nat, build : Nat, pin : [Projects -> Nat]])
    /\ upstream \in [build : [Browsers -> Nat], pin : [Projects -> Nat]]
    /\ origin.n \in Nat /\ clone.base \in 0 .. clone.seen /\ clone.seen \in 0 .. origin.n
    /\ clone.tags \in 0 .. Len(tags)
    /\ truncated \subseteq Files
    /\ pc \in {"idle", "sanity", "firefox", "geckoview", "projects", "changelogs"}
    /\ pc = "geckoview" => "tbb" \in opts.browsers
    /\ todo \subseteq CASE pc = "projects" -> ToUpdate [] pc = "changelogs" -> opts.browsers [] OTHER -> {}
    /\ work.from \subseteq [version : 1 .. MaxVersion, browsers : (SUBSET Browsers) \ {{}}]
    /\ work.version \in 1 .. MaxVersion /\ {work.number, work.build, work.own, work.gecko} \subseteq Nat
    /\ work.pin \in [Projects -> Nat]
    /\ last \in [Browsers -> SUBSET (1 .. known)] /\ known \in 0 .. clone.tags
    /\ ready \in BOOLEAN /\ runs \in 0 .. MaxRuns /\ moves \in 0 .. MaxMoves /\ failures \in 0 .. MaxFailures

\* A run that has done everything, and has not returned yet.
AtEnd == pc = "changelogs" /\ todo = {}

\* A prepared build has a number that none of the builds of that version had, of either
\* browser, as far as the clone knew their tags when the script was started (the
\* newest tag is taken for the highest build; torbrowser_build is both browsers').
BuildIsNew ==
    AtEnd /\ ~opts.only => \A i \in 1 .. known :
        tags[i].version = work.version => tags[i].build < work.number

\* incremental_from has the last versions of each browser before this one, as many as
\* there are up to the number wanted, whatever builds and browsers they were tagged
\* for and in whatever order, and names a browser only with a version it had.
IncrementalsAreTheLast ==
    AtEnd /\ ~opts.only => \A b \in Browsers :
        LET had == {tags[i].version : i \in {j \in 1 .. known : tags[j].browser = b}} \ {work.version}
            from == {f.version : f \in {g \in work.from : b \in g.browsers}}
        IN  /\ from \subseteq had
            /\ Cardinality(from) = Min({NumIncrementals, Cardinality(had)})
            /\ \A v \in from, w \in had \ from : w < v

\* The changelog says which projects of the browser are not as they were in its last
\* version, once and on top of what is merged, after any number of runs that were
\* interrupted, partial, or for the changelogs only.
ChangelogIsOfTheTree ==
    AtEnd => \A b \in opts.browsers :
        LET had == {i \in 1 .. known : tags[i].browser = b /\ tags[i].version # opts.version}
        IN  /\ Tail(work.changelog[b]) = clone.tree.changelog[b]
            /\ Head(work.changelog[b]).version = work.version
            /\ \A p \in ProjectsOf[b] : p \in Head(work.changelog[b]).updates
                  <=> \E i \in had : i = Max(had) /\ tags[i].pin[p] # work.pin[p]

\* The firefox build each browser gets is the one found for it, over any sequence of
\* preparations for one browser or both (browser_build and mullvadbrowser's own), and
\* geckoview gets Tor Browser's.
BuildsAreTheBrowsers ==
    [][/\ pc = "firefox" /\ pc' \in {"geckoview", "projects"} =>
            \A b \in opts.browsers : FirefoxBuild(work', b) = upstream.build[b]
       /\ pc = "changelogs" /\ pc' = "idle" /\ ready' /\ Android =>
            work.gecko = FirefoxBuild(work, "tbb")]_vars
=============================================================================

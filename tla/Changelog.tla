------------------------------ MODULE Changelog ------------------------------
(***************************************************************************)
(* tools/fetch_changelogs.py: the changelog of a version, from the issues  *)
(* linked to the release preparation issues ("relpreps") in GitLab.  It    *)
(* finds the relprep by version, or whatever issue has a number, asks for  *)
(* the links of one after the other while people relabel and relink        *)
(* issues, and sorts the entries so that those for the same platforms are  *)
(* together.                                                               *)
(*                                                                         *)
(* A changelog has two sections, "all" and "build", each a sequence of     *)
(* entries, some of them below a heading, which names platforms.           *)
(***************************************************************************)
EXTENDS Integers, Sequences, FiniteSets

CONSTANTS
    Tickets,        \* the numbers of tor-browser-build's issues, positive
    Relpreps,       \* those that have the label of release preparations
    TitleOf,        \* TitleOf[r]: the version in the title, or "" for none
    IsMullvad,      \* those with the label of Mullvad Browser
    Issues,         \* [project, number], a finite set
    LabelSets,      \* the sets of labels an issue may have
    Links,          \* the functions [Tickets -> SUBSET Issues] there may be at first
    Versions,       \* what may be searched for: versions, and numbers of issues
    Contains,       \* Contains[v]: the relpreps in whose titles the text v is
    Asked,          \* the arguments the script may be given, see NoArgs
    MaxMoves        \* bound on changes in GitLab during a run

Projects == <<"tor-browser-spec", "mullvad-browser", "tor-browser", "tor-browser-build",
              "mullvad-browser", "tor-browser-bundle-testsuite", "rbm">>
Platforms == {"windows", "macos", "linux", "android"}
Desktop == {"windows", "macos", "linux"}
Sections == {"all", "build"}

NoEntry == [type |-> "none"]
NoBuilder == [issue |-> 0, version |-> "", mb |-> FALSE]
\* version is what is searched for, "" for a number with "#"; number is the number that
\* it is, 0 for none; browser is "tb", "mb" or not given.
NoArgs == [version |-> "", number |-> 0, browser |-> "any",
           include |-> {}, exclude |-> {}, updates |-> {}]

ASSUME TicketsAssumption == Tickets \subseteq Nat \ {0} /\ IsFiniteSet(Tickets)
ASSUME RelprepsAssumption == Relpreps \subseteq Tickets
ASSUME IssuesAssumption ==
    Issues \subseteq [project : STRING, number : Nat \ {0}] /\ IsFiniteSet(Issues)
ASSUME LinksAssumption == Links \subseteq [Tickets -> SUBSET Issues]
ASSUME VersionsAssumption == \A v \in Versions, r \in Relpreps : TitleOf[r] = v => r \in Contains[v]
ASSUME AskedAssumption == \A a \in Asked : a.version \in Versions \cup {""}
ASSUME MovesAssumption == MaxMoves \in Nat

VARIABLES
    labels, links, opened,      \* GitLab: of each issue, of each ticket, relpreps
    moves,
    pc, args,
    builder,        \* the relprep, the version for the title and is_mullvad
    toInclude, toExclude,       \* tickets whose links are still to be fetched
    included,       \* the issues found, with the labels they had: a partial function
    excluded,
    text,           \* [section -> sequence of lines]
    always, ever    \* what the tickets were linked to all the time of the run, and ever

gitlab == <<labels, links, opened, moves, always, ever>>
process == <<pc, args, builder, toInclude, toExclude, included, excluded, text>>
changelogVars == <<gitlab, process>>

-----------------------------------------------------------------------------
(* Entries: [type, platform, num, build, project, number, name].           *)

\* Platforms of an issue, from its labels.
LabelledPlatforms(L) ==
    (IF "Desktop" \in L THEN Desktop
     ELSE (IF "Windows" \in L THEN {"windows"} ELSE {}) \cup (IF "MacOS" \in L THEN {"macos"} ELSE {})
          \cup (IF "Linux" \in L THEN {"linux"} ELSE {}))

AndroidOnly(L) == "Android" \in L /\ LabelledPlatforms(L) = {}

IssuePlatforms(L, mb) ==
    LET P == LabelledPlatforms(L) \cup (IF "Android" \in L /\ ~mb THEN {"android"} ELSE {})
    IN  IF P = {} \/ (mb /\ P = Desktop) THEN Platforms ELSE P

\* num_platforms, counted along with them.
IssueNum_OneForEachLabel(L, mb) ==
    Cardinality(L \cap {"Desktop", "Windows", "MacOS", "Linux", "Android"})

IssueNum(L, mb) == Cardinality(IssuePlatforms(L, mb))

IssueEntry(i, L, mb) ==
    [type |-> "issue", platform |-> IssuePlatforms(L, mb), num |-> IssueNum(L, mb),
     build |-> "Build System" \in L, project |-> i.project, number |-> i.number, name |-> ""]

\* names of _add_updates, in the order of the dictionary.
UpdateNames(mb) ==
    <<"Firefox", "NoScript">> \o
    IF mb THEN <<"Mullvad Browser Extension", "uBlock Origin">>
    ELSE <<"GeckoView", "Tor", "OpenSSL", "zlib", "Zstandard", "Go">>

\* Firefox's version is GeckoView's.
KeyOf(name) == IF name = "GeckoView" THEN "Firefox" ELSE name

UpdateEntry(name, mb) ==
    LET P == CASE name = "Firefox" /\ ~mb -> Desktop
               [] name \in {"GeckoView", "Zstandard"} -> {"android"}
               [] name = "Go" -> Platforms \ {"macos"}
               [] OTHER -> Platforms
    IN  [type |-> "update", platform |-> P, num |-> IF name = "Go" THEN 1 ELSE Cardinality(P),
         build |-> name = "Go", project |-> "", number |-> 0, name |-> name]

\* The platforms as the bits of an integer.
Bits(P) ==
    (IF "windows" \in P THEN 8 ELSE 0) + (IF "macos" \in P THEN 4 ELSE 0)
    + (IF "linux" \in P THEN 2 ELSE 0) + (IF "android" \in P THEN 1 ELSE 0)

Known(project) == \E i \in DOMAIN Projects : Projects[i] = project

OrderOf(project, mb) ==
    IF project = "mullvad-browser" THEN (IF mb THEN 2 ELSE 5)
    ELSE CHOOSE i \in DOMAIN Projects : Projects[i] = project

\* __lt__.
SamePlatforms(e, f) == e.num = f.num /\ e.platform = f.platform

Less(e, f, mb) ==
    CASE e.num # f.num -> e.num > f.num
      [] e.num = f.num /\ e.platform # f.platform -> Bits(e.platform) > Bits(f.platform)
      [] SamePlatforms(e, f) /\ e.type # f.type -> e.type = "update"
      [] OTHER -> /\ e.type = "issue"
                  /\ IF e.project = f.project THEN e.number < f.number
                     ELSE OrderOf(e.project, mb) < OrderOf(f.project, mb)

\* The sort fails if it comes to compare a project that has no place in the order.
CannotSort(E) ==
    \E e, f \in E : /\ e.type = "issue" /\ f.type = "issue" /\ e.build = f.build
                    /\ SamePlatforms(e, f) /\ e.project # f.project
                    /\ ~(Known(e.project) /\ Known(f.project))

\* Updates that are equal keep their order, which is that of their names.
NameRank(name, mb) ==
    IF name = "" THEN 0 ELSE CHOOSE i \in DOMAIN UpdateNames(mb) : UpdateNames(mb)[i] = name

Before(e, f, mb) ==
    \/ Less(e, f, mb)
    \/ ~Less(f, e, mb) /\ NameRank(e.name, mb) < NameRank(f.name, mb)

Sorted(E, mb) ==
    [i \in 1 .. Cardinality(E) |->
        CHOOSE e \in E : Cardinality({f \in E : Before(f, e, mb)}) = i - 1]

-----------------------------------------------------------------------------
(* create: the lines.                                                      *)
NoPlatform == {}

\* Each entry, and the heading that is written above it, wherever the platforms change;
\* prev is prev_platform before the section.
Lines(s, prev) ==
    [i \in DOMAIN s |->
        [entry |-> s[i],
         heading |-> IF s[i].platform = (IF i = 1 THEN prev ELSE s[i - 1].platform)
                     THEN NoPlatform ELSE s[i].platform]]

\* For the second section, prev_platform is reset.
Text(E, mb) ==
    [all |-> Lines(Sorted({e \in E : ~e.build}, mb), NoPlatform),
     build |-> Lines(Sorted({e \in E : e.build}, mb), NoPlatform)]

NoText == [all |-> <<>>, build |-> <<>>]

-----------------------------------------------------------------------------
NotStarted ==
    /\ pc = "idle" /\ args = NoArgs /\ builder = NoBuilder
    /\ toInclude = {} /\ toExclude = {} /\ included = <<>> /\ excluded = {} /\ text = NoText

\* The search in the titles of open relpreps.  If none of them has the text, it is taken
\* for a number, and the issue of that number for the relprep, whatever issue it is.
IsConsistent(a, r) == a.browser # "any" => (a.browser = "mb") = (r \in IsMullvad)

FoundBy(a) == {r \in opened \cap Contains[a.version] : IsConsistent(a, r)}

ByNumber(a) == a.version = "" \/ FoundBy(a) = {}

Found_Any(a) == IF ByNumber(a) THEN {a.number} \cap Tickets ELSE FoundBy(a)

Found(a) ==
    IF ByNumber(a) THEN {a.number} \cap Tickets
    ELSE {r \in FoundBy(a) : FoundBy(a) = {r}}

\* The tickets whose links are wanted, as [issue, found].  The one found is always one
\* of them, and is asked for twice if it was given, too, since the numbers that are
\* given are strings.
ToInclude_Given(a, r) ==
    {[issue |-> i, found |-> FALSE] : i \in a.include} \cup
    (IF a.include = {} THEN {[issue |-> r, found |-> TRUE]} ELSE {})

ToInclude(a, r) ==
    {[issue |-> i, found |-> FALSE] : i \in a.include} \cup {[issue |-> r, found |-> TRUE]}

Builds(a, r, version) ==
    /\ builder' = [issue |-> r, version |-> version, mb |-> r \in IsMullvad]
    /\ toInclude' = ToInclude(a, r) /\ toExclude' = a.exclude
    /\ pc' = "include"

Raise ==
    /\ pc' = "raised"
    /\ UNCHANGED <<builder, toInclude, toExclude>>

\* _find_issue, _fetch_issue and _set_issue.
FindIssue ==
    /\ pc = "find"
    /\ \/ \E r \in Found(args) :
            /\ IsConsistent(args, r)
            /\ Builds(args, r, IF ByNumber(args) THEN TitleOf[r] ELSE args.version)
       \/ (\A r \in Found(args) : ~IsConsistent(args, r)) /\ Raise
    /\ UNCHANGED <<gitlab, args, included, excluded, text>>

\* _find_linked, one request after the other, each of which fails if there is no such
\* ticket; a later answer replaces what an earlier one said of an issue, and the relprep
\* that was found comes last.
IncludeLinked ==
    /\ pc = "include"
    /\ \E r \in toInclude :
         /\ r.issue \in Tickets
         /\ r.found => toInclude = {r}
         /\ included' = [i \in DOMAIN included \cup links[r.issue] |->
                            IF i \in links[r.issue] THEN labels[i] ELSE included[i]]
         /\ toInclude' = toInclude \ {r}
    /\ pc' = IF toInclude' = {} THEN "exclude" ELSE pc
    /\ UNCHANGED <<gitlab, args, builder, toExclude, excluded, text>>

ExcludeLinked ==
    /\ pc = "exclude" /\ toExclude # {}
    /\ \E r \in toExclude \cap Tickets :
         /\ excluded' = excluded \cup links[r]
         /\ toExclude' = toExclude \ {r}
    /\ UNCHANGED <<gitlab, pc, args, builder, toInclude, included, text>>

\* raise_for_status of any of the requests.
RequestFails ==
    /\ pc \in {"find", "include"} \/ (pc = "exclude" /\ toExclude # {})
    /\ pc' = "raised"
    /\ UNCHANGED <<gitlab, args, builder, toInclude, toExclude, included, excluded, text>>

Entries ==
    LET mb == builder.mb
    IN  {IssueEntry(i, included[i], mb) : i \in DOMAIN included \ excluded} \cup
        {UpdateEntry(n, mb) : n \in {n \in {UpdateNames(mb)[k] : k \in DOMAIN UpdateNames(mb)} :
                                        KeyOf(n) \in args.updates}}

\* _add_issue, _add_updates, _sort_issues and the text.
Create ==
    /\ pc = "exclude" /\ toExclude = {}
    /\ IF \/ builder.mb /\ \E i \in DOMAIN included \ excluded : AndroidOnly(included[i])
          \/ CannotSort(Entries)
          THEN pc' = "raised" /\ UNCHANGED text
          ELSE pc' = "done" /\ text' = Text(Entries, builder.mb)
    /\ UNCHANGED <<gitlab, args, builder, toInclude, toExclude, included, excluded>>

\* The command line, or relprep.py, which gives neither relpreps to include nor to exclude.
Start ==
    /\ pc = "idle"
    /\ args' \in Asked
    /\ pc' = "find"
    /\ UNCHANGED <<gitlab, builder, toInclude, toExclude, included, excluded, text>>

-----------------------------------------------------------------------------
(* GitLab, where people go on working.                                      *)
Relabel ==
    /\ pc # "idle" /\ moves < MaxMoves
    /\ \E i \in Issues, L \in LabelSets : labels' = [labels EXCEPT ![i] = L]
    /\ moves' = moves + 1
    /\ UNCHANGED <<process, links, opened, always, ever>>

\* An issue is linked to another ticket instead, or to one more.
Relink ==
    /\ pc # "idle" /\ moves < MaxMoves
    /\ \E i \in Issues, R \in SUBSET Tickets :
         links' = [r \in Tickets |-> IF r \in R THEN links[r] \cup {i} ELSE links[r] \ {i}]
    /\ always' = [r \in Tickets |-> always[r] \cap links'[r]]
    /\ ever' = [r \in Tickets |-> ever[r] \cup links'[r]]
    /\ moves' = moves + 1
    /\ UNCHANGED <<process, labels, opened>>

Close ==
    /\ pc # "idle" /\ moves < MaxMoves
    /\ \E r \in opened : opened' = opened \ {r}
    /\ moves' = moves + 1
    /\ UNCHANGED <<process, labels, links, always, ever>>

ChangelogInit ==
    /\ NotStarted
    /\ labels \in [Issues -> LabelSets] /\ links \in Links /\ opened = Relpreps
    /\ always = links /\ ever = links
    /\ moves = 0

ChangelogNext ==
    \/ Start \/ FindIssue \/ IncludeLinked \/ ExcludeLinked \/ RequestFails \/ Create
    \/ Relabel \/ Relink \/ Close

ChangelogSpec == ChangelogInit /\ [][ChangelogNext]_changelogVars

-----------------------------------------------------------------------------
\* Types; and nobody's links are asked for but those of the issue that was found and of
\* the numbers that were given.
ChangelogTypeOK ==
    /\ labels \in [Issues -> LabelSets] /\ opened \subseteq Relpreps
    /\ {links, always, ever} \subseteq [Tickets -> SUBSET Issues]
    /\ moves \in 0 .. MaxMoves
    /\ pc \in {"idle", "find", "include", "exclude", "done", "raised"}
    /\ args \in Asked \cup {NoArgs} /\ builder.issue \in Tickets \cup {0}
    /\ {r.issue : r \in toInclude} \subseteq args.include \cup {builder.issue}
    /\ toExclude \subseteq args.exclude
    /\ DOMAIN included \cup excluded \subseteq Issues
    /\ \A i \in DOMAIN included : included[i] \in LabelSets
    /\ DOMAIN text = Sections

HasHeading(line) == line.heading # NoPlatform

\* Each entry is read under the heading that names its platforms: the last one above
\* it in its section, the build section beginning with one of its own.
EachUnderItsPlatforms ==
    \A c \in Sections : \A i \in DOMAIN text[c] :
        \E j \in 1 .. i : /\ text[c][j].heading = text[c][i].entry.platform
                         /\ \A k \in j + 1 .. i : ~HasHeading(text[c][k])

\* No heading is in a section twice, whatever the labels and projects of the issues,
\* except for the platforms of Go, whose num_platforms is not their number.
HeadingsOnce ==
    \A c \in Sections : \A i, j \in DOMAIN text[c] :
        HasHeading(text[c][i]) /\ HasHeading(text[c][j]) /\ i # j
            => \/ text[c][i].heading # text[c][j].heading
               \/ c = "build" /\ "Go" \in args.updates /\ text[c][i].heading = Platforms \ {"macos"}

\* Mullvad Browser has no Android, and what is for its three platforms is for all.
MullvadIsForDesktop ==
    builder.mb => \A c \in Sections : \A i \in DOMAIN text[c] :
        HasHeading(text[c][i]) => \/ text[c][i].heading = Platforms
                                  \/ text[c][i].heading \subseteq Desktop /\ text[c][i].heading # Desktop

\* The three together, for any labels, updates and browser: the text has one group of
\* entries for each set of platforms.
GroupedByPlatforms == EachUnderItsPlatforms /\ HeadingsOnce /\ MullvadIsForDesktop

Places(c, i) ==
    {k \in DOMAIN text[c] : text[c][k].entry.project = i.project /\ text[c][k].entry.number = i.number}

Times(i) == Cardinality(Places("all", i)) + Cardinality(Places("build", i))

\* An issue is in the changelog once if it was linked to one of the tickets asked for all
\* the time, the one that was found among them, and never to an excluded one; and not
\* at all if it was linked to none of them ever, or to an excluded one all the time.
LinkedAreListed ==
    pc = "done" => \A i \in Issues :
        LET wanted == args.include \cup {builder.issue}
            linked(what, R) == \E r \in R : i \in what[r]
        IN  /\ linked(always, wanted) /\ ~linked(ever, args.exclude) => Times(i) = 1
            /\ ~linked(ever, wanted) \/ linked(always, args.exclude) => Times(i) = 0

\* The relprep taken for a version is of the browser asked for, and has that version in
\* its title unless there is no open one that has: GitLab also finds a title in which
\* a longer version begins with the one asked for, and by its number any issue is taken.
RelprepIsOfTheVersion ==
    [][pc = "find" /\ pc' = "include" =>
        /\ IsConsistent(args, builder'.issue)
        /\ args.version # "" =>
             \/ TitleOf[builder'.issue] = args.version
             \/ ~\E r \in opened : TitleOf[r] = args.version /\ IsConsistent(args, r)]_changelogVars
=============================================================================

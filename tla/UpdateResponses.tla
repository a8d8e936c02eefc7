--------------------------- MODULE UpdateResponses ---------------------------
(***************************************************************************)
(* What the updater of an installed browser gets: update_responses writes, *)
(* for every platform of a new version, the responses and the .htaccess    *)
(* rules that choose one of them by the version in the URL                 *)
(*   $channel/$build_target/$version/$lang                                 *)
(* and the channel's own .htaccess sends users of old versions somewhere   *)
(* else first.  A user of some old version goes on asking while new        *)
(* versions are published.                                                 *)
(*                                                                         *)
(* A version is <<major, minor, kind, n>>: 8.0a9 is <<8, 0, "a", 9>>, 13.5 *)
(* <<13, 5, "", 0>> and 13.5.7 <<13, 5, ".", 7>>.                          *)
(***************************************************************************)
EXTENDS Integers, Sequences, FiniteSets, SequencesExt

CONSTANTS
    Channels,       \* "alpha", "release"
    Oses,           \* platforms, by their names in the mar files
    Targets,        \* build targets, by the names the updater uses
    OsOf,           \* build_targets: OsOf[target]
    OldVersions,    \* OldVersions[c]: versions published before those of this model
    SeriesOf,       \* SeriesOf[c]: the versions that are published, in their order
    NumFrom         \* length of incremental_from

ASSUME ChannelsAssumption == Channels \subseteq {"alpha", "release"}
ASSUME TargetsAssumption == OsOf \in [Targets -> Oses]
\* Versions as those of each channel are numbered.
Numbered(c) ==
    {v \in Nat \X {0, 5} \X {"a", "", "."} \X Nat :
        v[1] > 3 /\ IF c = "alpha" THEN v[3] = "a" /\ v[4] > 0 ELSE v[3] # "a" /\ (v[3] = "." <=> v[4] > 0)}

ASSUME SeriesAssumption ==
    /\ \A c \in Channels :
          /\ SeriesOf[c] \in Seq(Numbered(c)) /\ SeriesOf[c] # <<>> /\ IsInjective(SeriesOf[c])
          /\ OldVersions[c] \subseteq Numbered(c)
    /\ NumFrom \in Nat

Versions == UNION {OldVersions[c] \cup ToSet(SeriesOf[c]) : c \in Channels}

Rank(v) == CASE v[3] = "a" -> 0 [] v[3] = "" -> 1 [] v[3] = "." -> 2

Before(v, w) ==
    LET key(x) == <<x[1], x[2], Rank(x), x[4]>>
    IN  \E i \in 1 .. 4 :
           /\ key(v)[i] < key(w)[i]
           /\ \A j \in 1 .. i - 1 : key(v)[j] = key(w)[j]

VARIABLES
    channel,    \* of the user, and the one versions are published in
    published,  \* how many of its Series are
    files,      \* files[v][os] = [complete : BOOLEAN, partial : set of versions]
    htdocs,     \* htdocs[os] = [rules, responses]: a directory of the web server
    target, version,    \* of the user
    offer       \* what the user's updater has read and not installed yet

vars == <<channel, published, files, htdocs, target, version, offer>>

Series == SeriesOf[channel]

NoFiles == [os \in Oses |-> [complete |-> FALSE, partial |-> {}]]
NoVersion == <<>>
NoOffer == [to |-> NoVersion, partial |-> NoVersion]
NoDirectory == [rules |-> <<>>, responses |-> <<>>]

-----------------------------------------------------------------------------
(* htaccess_rewrite_rules: the first rule that matches sends the user to   *)
(* another directory of the server.                                        *)

Rule(dir, match) == [dir |-> dir, match |-> match]
Major(S) == {v \in Versions : v[1] \in S}
Minor(major, minors) == {v \in Versions : v[1] \in major /\ v[2] \in minors}
Exact(major, minor, kind, ns) ==
    {v \in Versions : v[1] = major /\ v[2] = minor /\ v[3] = kind /\ v[4] \in ns}

AlphaRules ==
    <<Rule("update_pre8.0a9", Exact(8, 0, "a", 1 .. 8)),
      Rule("update_pre8.0a9", Major(4 .. 7)),
      Rule("update_pre13.5a10", Major(0 .. 9)),
      Rule("update_pre13.5a10", Major(10 .. 12)),
      Rule("update_pre13.5a10", Minor({13}, {0})),
      Rule("update_pre13.5a10", Exact(13, 5, "a", 0 .. 9)),
      Rule("update_pre14.0a4", Exact(14, 0, "a", 1 .. 3))>>

ReleaseRules ==
    <<Rule("update_pre8.0", Major(4 .. 7)),
      Rule("update_pre12.0", Major(8 .. 9)),
      Rule("update_pre12.0", Major({10})),
      Rule("update_pre12.0", Minor({11}, {0})),
      Rule("update_pre12.0", Exact(11, 5, "", {0})),
      Rule("update_pre12.0", Exact(11, 5, ".", 0 .. 7)),
      Rule("update_pre14.0", Minor({11, 12}, {0, 5})),
      Rule("update_pre14.0", Minor({13}, {0})),
      Rule("update_pre14.0", Exact(13, 5, "", {0})),
      Rule("update_pre14.0", Exact(13, 5, ".", 0 .. 6)),
      Rule("update_legacy13.5", Exact(13, 5, ".", 7 .. 9)),
      Rule("update_legacy13.5", Exact(13, 5, ".", 10 .. 19)),
      Rule("update_legacy13.5", Exact(13, 5, ".", 20 .. 28))>>

RewriteRules_Reversed == Reverse(IF channel = "alpha" THEN AlphaRules ELSE ReleaseRules)

RewriteRules == IF channel = "alpha" THEN AlphaRules ELSE ReleaseRules

Redirect(v) ==
    LET i == SelectInSeq(RewriteRules, LAMBDA r : v \in r.match)
    IN  IF i = 0 THEN "none" ELSE RewriteRules[i].dir

\* The version that users find in a directory, which is not made from here: the
\* one its name and the rules' comments give.
WatershedOf(dir) ==
    CASE dir = "update_pre8.0a9" -> <<8, 0, "a", 9>>
      [] dir = "update_pre13.5a10" -> <<13, 5, "a", 10>>
      [] dir = "update_pre14.0a4" -> <<14, 0, "a", 4>>
      [] dir = "update_pre8.0" -> <<8, 0, "", 0>>
      [] dir = "update_pre12.0" -> <<11, 5, ".", 8>>
      [] dir = "update_pre14.0" -> <<13, 5, ".", 7>>
      [] dir = "update_legacy13.5" -> <<13, 5, ".", 28>>

\* Users who are sent there get versions that were published.
ASSUME WatershedsAssumption ==
    \A c \in Channels : \A r \in ToSet(IF c = "alpha" THEN AlphaRules ELSE ReleaseRules) :
        WatershedOf(r.dir) \in OldVersions[c]

-----------------------------------------------------------------------------
(* update_responses                                                        *)

\* Versions that some platform has an incremental mar from.
FromVersions(f) == UNION {f[os].partial : os \in Oses}

PlatformsOf(f) == {os \in Oses : f[os].complete \/ f[os].partial # {}}

\* get_response: the update's patches, none if the platform has no mar to offer.
GetResponse_AnyPartial(v, f, os, from) ==
    [to |-> v, partial |->
        IF f[os].partial = {} THEN NoVersion ELSE CHOOSE w \in f[os].partial : TRUE]

GetResponse(v, f, os, from) ==
    LET partial == IF from \in f[os].partial THEN from ELSE NoVersion
    IN  IF f[os].complete \/ partial # NoVersion
        THEN [to |-> v, partial |-> partial]
        ELSE NoOffer

\* write_responses: update-$version-$os.xml, update-$from-$version-$os.xml for the
\* versions there is an incremental mar from, and no-update.xml.
AnyVersion == NoVersion
UpdateFrom(from) == <<"update", from>>
Update == <<"update">>
NoUpdate == <<"no-update">>

WriteResponses(v, f, os) ==
    [name \in {Update, NoUpdate} \cup {UpdateFrom(from) : from \in f[os].partial} |->
        IF name = NoUpdate THEN NoOffer
        ELSE GetResponse(v, f, os, IF name = Update THEN NoVersion ELSE name[2])]

\* write_htaccess: the new version, the versions there is an incremental mar from,
\* and everybody else.
WriteHtaccess_AllFrom(v, f, os) ==
    <<[from |-> v, name |-> NoUpdate]>>
    \o SetToSeq({[from |-> from, name |-> UpdateFrom(from)] : from \in FromVersions(f)})
    \o <<[from |-> AnyVersion, name |-> Update]>>

WriteHtaccess_DefaultFirst(v, f, os) ==
    <<[from |-> AnyVersion, name |-> Update], [from |-> v, name |-> NoUpdate]>>
    \o SetToSeq({[from |-> from, name |-> UpdateFrom(from)] : from \in f[os].partial})

WriteHtaccess(v, f, os) ==
    <<[from |-> v, name |-> NoUpdate]>>
    \o SetToSeq({[from |-> from, name |-> UpdateFrom(from)] : from \in f[os].partial})
    \o <<[from |-> AnyVersion, name |-> Update]>>

Generated(v, f) ==
    [os \in PlatformsOf(f) |->
        [rules |-> WriteHtaccess(v, f, os), responses |-> WriteResponses(v, f, os)]]

\* What a new version can be incremental from.
IncrementalFrom(n) == {Series[i] : i \in {j \in 1 .. n - 1 : n - j <= NumFrom}}

\* The mars of the n-th version: of some platforms, and from versions that have one.
PossibleFiles(n) ==
    {f \in [Oses -> [complete : BOOLEAN, partial : SUBSET IncrementalFrom(n)]] :
        /\ \E os \in Oses : f[os].complete
        /\ \A os \in Oses : \A from \in f[os].partial :
              f[os].complete /\ files[from][os].complete}

\* A directory that is not made again stays (upload-update_responses-to-staticiforme).
Publish ==
    /\ published < Len(Series)
    /\ \E f \in PossibleFiles(published + 1) :
         LET v == Series[published + 1]
         IN  /\ files' = [files EXCEPT ![v] = f]
             /\ htdocs' = [os \in Oses |->
                    IF os \in PlatformsOf(f) THEN Generated(v, f)[os] ELSE htdocs[os]]
    /\ published' = published + 1
    /\ UNCHANGED <<channel, target, version, offer>>

-----------------------------------------------------------------------------
(* The updater.                                                            *)

\* The web server's answer to a request for $target/$version/$lang.
Answer(t, v) ==
    LET dir == htdocs[OsOf[t]]
        i == SelectInSeq(dir.rules, LAMBDA r : r.from \in {v, AnyVersion})
    IN  IF i = 0 THEN NoOffer
        ELSE LET name == dir.rules[i].name
             IN  IF name \in DOMAIN dir.responses THEN dir.responses[name] ELSE NoOffer

Response ==
    IF Redirect(version) # "none"
    THEN [to |-> WatershedOf(Redirect(version)), partial |-> NoVersion]
    ELSE Answer(target, version)

\* The updater asks, and keeps an answer that brings a newer version.
CanUpdate == Response # NoOffer /\ Before(version, Response.to)

Ask ==
    /\ offer = NoOffer
    /\ CanUpdate
    /\ offer' = Response
    /\ UNCHANGED <<channel, published, files, htdocs, target, version>>

Install ==
    /\ offer # NoOffer
    /\ version' = offer.to
    /\ offer' = NoOffer
    /\ UNCHANGED <<channel, published, files, htdocs, target>>

Init ==
    /\ channel \in Channels
    /\ published = 0
    /\ files = [v \in Versions |-> NoFiles]
    /\ htdocs = [os \in Oses |-> NoDirectory]
    /\ target \in Targets
    /\ version \in OldVersions[channel]
    /\ offer = NoOffer

\* Everything is published, and there is nothing for the user to install.
Terminated ==
    /\ published = Len(Series) /\ offer = NoOffer /\ ~CanUpdate
    /\ UNCHANGED vars

Next == Publish \/ Ask \/ Install \/ Terminated

Spec == Init /\ [][Next]_vars

\* The updater asks regularly and installs what it was offered.
FairSpec == Spec /\ WF_vars(Ask) /\ WF_vars(Install)

-----------------------------------------------------------------------------
\* Types; and every rule names a response that was written (write_responses and
\* write_htaccess find out separately which versions there are responses for).
TypeOK ==
    /\ channel \in Channels /\ published \in 0 .. Len(Series)
    /\ files \in [Versions -> [Oses -> [complete : BOOLEAN, partial : SUBSET Versions]]]
    /\ DOMAIN htdocs = Oses
    /\ \A os \in Oses : \A r \in ToSet(htdocs[os].rules) :
          r.from \in Versions \cup {AnyVersion} /\ r.name \in DOMAIN htdocs[os].responses
    /\ target \in Targets /\ version \in Versions
    /\ offer \in [to : Versions \cup {NoVersion}, partial : Versions \cup {NoVersion}]

Incremental(v) == files[v][OsOf[target]].partial

\* A partial update is offered only to users of the version it starts from, on the
\* platform it is for, however many versions are published before it is installed.
PartialFits ==
    offer.partial # NoVersion =>
        offer.partial = version /\ version \in Incremental(offer.to)

\* The last version published with a mar for the platform.
LastOf(os) ==
    LET with == {i \in 1 .. published : files[Series[i]][os].complete}
    IN  IF with = {} THEN NoVersion ELSE Series[CHOOSE i \in with : \A j \in with : j <= i]

\* A user of the last version is not offered it again, and one for whose version
\* there is an incremental mar is offered that (the order of the rules).
SmallestUpdate ==
    LET last == LastOf(OsOf[target])
    IN  last # NoVersion /\ Redirect(version) = "none" =>
            /\ version = last => Response = NoOffer
            /\ version \in Incremental(last) => Response.partial = version

\* Releases that must not be skipped, as the comments of the rules have them.
Watersheds ==
    IF channel = "alpha"
    THEN {<<8, 0, "a", 9>>, <<13, 5, "a", 10>>, <<14, 0, "a", 4>>}
    ELSE {<<8, 0, "", 0>>, <<11, 5, ".", 8>>, <<13, 5, ".", 7>>}

\* The alphas from 13.5a10 on that no rule is about: those for 13.5a10 end at 13.5a9,
\* and the one under the comment "Make 14.0a4 a watershed alpha release" begins with
\* 14.0a1.
LateAlphas == {v \in Versions : v[1] = 13 /\ v[2] = 5 /\ v[3] = "a" /\ v[4] > 9}

UsersOf(w) ==
    {v \in Versions : Before(v, w)} \ (IF w = <<14, 0, "a", 4>> THEN LateAlphas ELSE {})

\* No user gets past a watershed release without having run it, except that 14.0a4 is
\* none for users of 13.5a10 and the alphas of 13.5 after it, whatever its comment says.
NoWatershedSkipped ==
    [][\A w \in Watersheds : version \in UsersOf(w) => ~Before(w, version')]_vars

\* Users of every old version get, in the end, to the last version there is for
\* their platform, or to the end of the update path of 13.5.
Legacy == Redirect(version) = "update_legacy13.5" /\ version = <<13, 5, ".", 28>>
GetsToTheLast == <>[](LastOf(OsOf[target]) = NoVersion \/ version = LastOf(OsOf[target]) \/ Legacy)
=============================================================================

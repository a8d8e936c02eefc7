-------------------------- MODULE GitLabToolsProofs --------------------------
(***************************************************************************)
(* Theorems about the two tools that ask GitLab.  Of Changelog, for any     *)
(* relpreps, issues, labels and links: the order of the entries is a strict *)
(* one, so that the text has them all, grouped by their platforms; and what *)
(* was fetched lies between what was linked all the time and what was       *)
(* linked ever, which ChangelogInv says of every stage of a run.  Of        *)
(* UpdateManual, for any developers, pipelines and failures: what names a   *)
(* pipeline's manual, anywhere, goes back to a file of that name, and what  *)
(* is pinned is on the server or somebody has been asked to upload it:      *)
(* IInv says so of every place.                                             *)
(***************************************************************************)
EXTENDS UpdateManual, Changelog, FiniteSetTheorems, NaturalsInduction, TLAPS

-----------------------------------------------------------------------------
(* Changelogs: the entries.                                                *)

LEMMA BitsFacts ==
    ASSUME NEW P \in SUBSET Platforms, NEW Q \in SUBSET Platforms
    PROVE  Bits(P) \in Nat /\ (Bits(P) = Bits(Q) => P = Q)
<1>1. \A p : p \in Platforms <=> p \in {"windows", "macos", "linux", "android"}
  BY DEF Platforms
<1>2. Bits(P) \in Nat
  BY DEF Bits
<1>3. ASSUME Bits(P) = Bits(Q) PROVE P = Q
  <2>1. /\ "windows" \in P <=> "windows" \in Q
        /\ "macos" \in P <=> "macos" \in Q
        /\ "linux" \in P <=> "linux" \in Q
        /\ "android" \in P <=> "android" \in Q
    BY <1>3 DEF Bits
  <2> QED
    BY <1>1, <2>1
<1> QED
  BY <1>2, <1>3

LEMMA PlatformsFinite ==
    ASSUME NEW P \in SUBSET Platforms
    PROVE  Cardinality(P) \in Nat
<1>1. IsFiniteSet({"windows", "macos", "linux"}) /\ IsFiniteSet({"windows", "macos", "linux", "android"})
  <2>1. IsFiniteSet({})
    BY FS_EmptySet
  <2>2. IsFiniteSet({} \cup {"windows"})
    BY <2>1, FS_AddElement
  <2>3. IsFiniteSet(({} \cup {"windows"}) \cup {"macos"})
    BY <2>2, FS_AddElement
  <2>4. IsFiniteSet((({} \cup {"windows"}) \cup {"macos"}) \cup {"linux"})
    BY <2>3, FS_AddElement
  <2>5. IsFiniteSet(((({} \cup {"windows"}) \cup {"macos"}) \cup {"linux"}) \cup {"android"})
    BY <2>4, FS_AddElement
  <2>6. /\ ((({} \cup {"windows"}) \cup {"macos"}) \cup {"linux"}) = {"windows", "macos", "linux"}
        /\ ((({} \cup {"windows"}) \cup {"macos"}) \cup {"linux"}) \cup {"android"}
            = {"windows", "macos", "linux", "android"}
    OBVIOUS
  <2> QED
    BY <2>4, <2>5, <2>6
<1>2. IsFiniteSet(P)
  BY <1>1, FS_Subset DEF Platforms
<1> QED
  BY <1>2, FS_CardinalityType

\* The places of the projects in their order.
LEMMA OrderFacts ==
    ASSUME NEW p, NEW q, NEW mb, Known(p), Known(q)
    PROVE  OrderOf(p, mb) \in Nat /\ (p # q => OrderOf(p, mb) # OrderOf(q, mb))
<1>1. /\ Projects[2] = "mullvad-browser" /\ Projects[5] = "mullvad-browser"
      /\ DOMAIN Projects \subseteq Nat
  BY DEF Projects
<1>2. ASSUME NEW r, Known(r), r # "mullvad-browser"
      PROVE  OrderOf(r, mb) \in DOMAIN Projects /\ Projects[OrderOf(r, mb)] = r
  BY <1>2 DEF Known, OrderOf
<1>3. OrderOf("mullvad-browser", mb) \in {2, 5}
  BY DEF OrderOf
<1> QED
  BY <1>1, <1>2, <1>3

\* The names of updates, and for Mullvad Browser.
MullvadNames == {"Firefox", "NoScript", "Mullvad Browser Extension", "uBlock Origin"}
TorNames == {"Firefox", "NoScript", "GeckoView", "Tor", "OpenSSL", "zlib", "Zstandard", "Go"}

LEMMA NamesSeq ==
    ASSUME NEW mb \in BOOLEAN
    PROVE  UpdateNames(mb) \in Seq(IF mb THEN MullvadNames ELSE TorNames)
<1>1. ASSUME NEW S, NEW a \in S, NEW b \in S, NEW t \in Seq(S)
      PROVE  <<a, b>> \o t \in Seq(S)
  OBVIOUS
<1>2. CASE mb
  <2>1. <<"Mullvad Browser Extension", "uBlock Origin">> \in Seq(MullvadNames)
    BY DEF MullvadNames
  <2>2. UpdateNames(mb) = <<"Firefox", "NoScript">> \o <<"Mullvad Browser Extension", "uBlock Origin">>
    BY <1>2 DEF UpdateNames
  <2>3. "Firefox" \in MullvadNames /\ "NoScript" \in MullvadNames
    BY DEF MullvadNames
  <2> QED
    BY <1>1, <1>2, <2>1, <2>2, <2>3
<1>3. CASE ~mb
  <2>1. <<"GeckoView", "Tor", "OpenSSL", "zlib", "Zstandard", "Go">> \in Seq(TorNames)
    BY DEF TorNames
  <2>2. UpdateNames(mb) = <<"Firefox", "NoScript">> \o <<"GeckoView", "Tor", "OpenSSL", "zlib", "Zstandard", "Go">>
    BY <1>3 DEF UpdateNames
  <2>3. "Firefox" \in TorNames /\ "NoScript" \in TorNames
    BY DEF TorNames
  <2> QED
    BY <1>1, <1>3, <2>1, <2>2, <2>3
<1> QED
  BY <1>2, <1>3

LEMMA NamesFacts ==
    ASSUME NEW mb \in BOOLEAN, NEW k \in DOMAIN UpdateNames(mb)
    PROVE  /\ UpdateNames(mb)[k] # "" /\ k \in Nat
           /\ mb => UpdateNames(mb)[k] \notin {"GeckoView", "Zstandard", "Go"}
<1>1. UpdateNames(mb)[k] \in (IF mb THEN MullvadNames ELSE TorNames) /\ k \in Nat
  BY NamesSeq
<1> QED
  BY <1>1 DEF MullvadNames, TorNames

\* The platforms of an entry; for Mullvad Browser they are all, or some of the desktop's.
FitPlatforms(P, mb) ==
    /\ P \in SUBSET Platforms /\ P # {}
    /\ mb => P = Platforms \/ (P \subseteq Desktop /\ P # Desktop)

LEMMA IssueFacts ==
    ASSUME NEW i \in Issues, NEW L, NEW mb \in BOOLEAN
    PROVE  LET e == IssueEntry(i, L, mb)
           IN  /\ FitPlatforms(e.platform, mb) /\ e.num = Cardinality(e.platform) /\ e.num \in Nat
               /\ e.type = "issue" /\ e.name = "" /\ e.build \in BOOLEAN
               /\ e.project = i.project /\ e.number = i.number /\ e.number \in Nat \ {0}
<1> DEFINE P == IssuePlatforms(L, mb)
<1>1. FitPlatforms(P, mb)
  <2>1. LabelledPlatforms(L) \subseteq Desktop
    BY DEF LabelledPlatforms, Desktop
  <2>2. Desktop \subseteq Platforms /\ "android" \in Platforms
    BY DEF Desktop, Platforms
  <2> QED
    BY <2>1, <2>2 DEF IssuePlatforms, FitPlatforms
<1>2. Cardinality(P) \in Nat
  BY <1>1, PlatformsFinite DEF FitPlatforms
<1>3. i.number \in Nat \ {0}
  BY IssuesAssumption
<1> QED
  BY <1>1, <1>2, <1>3 DEF IssueEntry, IssueNum

LEMMA UpdateFacts ==
    ASSUME NEW mb \in BOOLEAN, NEW k \in DOMAIN UpdateNames(mb)
    PROVE  LET e == UpdateEntry(UpdateNames(mb)[k], mb)
           IN  /\ FitPlatforms(e.platform, mb) /\ e.num \in Nat
               /\ e.name # "Go" => e.num = Cardinality(e.platform)
               /\ e.name = "Go" => e.build = TRUE /\ e.platform = Platforms \ {"macos"}
               /\ e.type = "update" /\ e.name = UpdateNames(mb)[k] /\ e.number = 0
               /\ e.build \in BOOLEAN
<1>1. PICK name : name = UpdateNames(mb)[k]
  OBVIOUS
<1>2. mb => name \notin {"GeckoView", "Zstandard", "Go"}
  BY <1>1, NamesFacts
<1> DEFINE e == UpdateEntry(name, mb)
<1>3. FitPlatforms(e.platform, mb)
  BY <1>2 DEF UpdateEntry, FitPlatforms, Platforms, Desktop
<1>4. name # "Go" => e.num = Cardinality(e.platform)
  BY DEF UpdateEntry
<1>5. name = "Go" => e.num = 1 /\ e.build = TRUE /\ e.platform = Platforms \ {"macos"}
  BY DEF UpdateEntry
<1>6. e.type = "update" /\ e.name = name /\ e.number = 0 /\ e.build = (name = "Go")
  BY DEF UpdateEntry
<1>7. e.num \in Nat
  <2>1. Cardinality(e.platform) \in Nat
    BY <1>3, PlatformsFinite DEF FitPlatforms
  <2> QED
    BY <1>4, <1>5, <2>1
<1> QED
  BY <1>1, <1>3, <1>4, <1>5, <1>6, <1>7


-----------------------------------------------------------------------------
(* The order of the entries of a section.                                  *)

\* What there is to know of entries to sort them.
Sortable(E, mb) ==
    /\ IsFiniteSet(E)
    /\ \A e \in E : /\ e.platform \in SUBSET Platforms /\ e.num \in Nat /\ e.number \in Nat
                    /\ e.type \in {"issue", "update"}
                    /\ NameRank(e.name, mb) \in Nat /\ (e.type = "issue" => NameRank(e.name, mb) = 0)
    /\ \A e, f \in E : e.type = "update" /\ f.type = "update" /\ e # f
                        => NameRank(e.name, mb) # NameRank(f.name, mb)
    /\ \A e, f \in E : e.type = "issue" /\ f.type = "issue" /\ e # f
                        => e.project # f.project \/ e.number # f.number
    /\ \A e, f \in E :
         e.type = "issue" /\ f.type = "issue" /\ SamePlatforms(e, f) /\ e.project # f.project
            => Known(e.project) /\ Known(f.project)

\* Before, for entries of the same platforms, and of others.
Within(e, f, mb) ==
    \/ e.type = "update" /\ f.type = "issue"
    \/ e.type = "update" /\ f.type = "update" /\ NameRank(e.name, mb) < NameRank(f.name, mb)
    \/ /\ e.type = "issue" /\ f.type = "issue"
       /\ IF e.project = f.project THEN e.number < f.number
          ELSE OrderOf(e.project, mb) < OrderOf(f.project, mb)

Above(e, f) == e.num > f.num \/ (e.num = f.num /\ Bits(e.platform) > Bits(f.platform))

LEMMA BeforeIs ==
    ASSUME NEW E, NEW mb, Sortable(E, mb), NEW e \in E, NEW f \in E
    PROVE  /\ SamePlatforms(e, f) => (Before(e, f, mb) <=> Within(e, f, mb))
           /\ ~SamePlatforms(e, f) => (Before(e, f, mb) <=> Above(e, f))
<1>1. /\ e.num \in Nat /\ f.num \in Nat /\ Bits(e.platform) \in Nat /\ Bits(f.platform) \in Nat
      /\ e.type \in {"issue", "update"} /\ f.type \in {"issue", "update"}
      /\ e.number \in Nat /\ f.number \in Nat
      /\ NameRank(e.name, mb) \in Nat /\ NameRank(f.name, mb) \in Nat
      /\ e.type = "issue" => NameRank(e.name, mb) = 0
      /\ f.type = "issue" => NameRank(f.name, mb) = 0
  BY BitsFacts DEF Sortable
<1>2. Bits(e.platform) = Bits(f.platform) => e.platform = f.platform
  BY BitsFacts DEF Sortable
<1>3. CASE SamePlatforms(e, f)
  <2>1. e.num = f.num /\ e.platform = f.platform /\ SamePlatforms(f, e)
    BY <1>3 DEF SamePlatforms
  <2>2. CASE e.type # f.type
    <3>1. Less(e, f, mb) <=> e.type = "update"
      BY <1>3, <2>1, <2>2 DEF Less
    <3>2. Less(f, e, mb) <=> f.type = "update"
      BY <2>1, <2>2 DEF Less
    <3> QED
      BY <1>1, <1>3, <2>2, <3>1, <3>2 DEF Before, Within
  <2>3. CASE e.type = f.type
    <3>1. Less(e, f, mb) <=> /\ e.type = "issue"
                             /\ IF e.project = f.project THEN e.number < f.number
                                ELSE OrderOf(e.project, mb) < OrderOf(f.project, mb)
      BY <2>1, <2>3 DEF Less
    <3>2. Less(f, e, mb) => e.type = "issue"
      BY <2>1, <2>3 DEF Less
    <3>3. CASE e.type = "issue"
      <4>1. ~(NameRank(e.name, mb) < NameRank(f.name, mb))
        BY <1>1, <2>3, <3>3
      <4>2. Before(e, f, mb) <=> Less(e, f, mb)
        BY <4>1 DEF Before
      <4> QED
        BY <1>3, <2>3, <3>1, <3>3, <4>2 DEF Within
    <3>4. CASE e.type # "issue"
      <4>1. ~Less(e, f, mb) /\ ~Less(f, e, mb)
        BY <3>1, <3>2, <3>4
      <4> QED
        BY <1>1, <1>3, <2>3, <3>4, <4>1 DEF Before, Within
    <3> QED
      BY <3>3, <3>4
  <2> QED
    BY <2>2, <2>3
<1>4. CASE ~SamePlatforms(e, f)
  <2>1. Less(e, f, mb) <=> Above(e, f)
    BY <1>1, <1>4 DEF Less, SamePlatforms, Above
  <2>2. Less(f, e, mb) <=> Above(f, e)
    BY <1>1, <1>4 DEF Less, SamePlatforms, Above
  <2>3. Above(e, f) <=> ~Above(f, e)
    <3>1. e.num # f.num \/ Bits(e.platform) # Bits(f.platform)
      BY <1>2, <1>4 DEF SamePlatforms
    <3> QED
      BY <1>1, <3>1 DEF Above
  <2> QED
    BY <1>4, <2>1, <2>2, <2>3 DEF Before
<1> QED
  BY <1>3, <1>4

\* Issues of the same platforms, in the order of their projects and numbers.
LEMMA WithinFacts ==
    ASSUME NEW E, NEW mb, Sortable(E, mb)
    PROVE  /\ \A e \in E : ~Within(e, e, mb)
           /\ \A e, f \in E : SamePlatforms(e, f) /\ e # f => Within(e, f, mb) \/ Within(f, e, mb)
           /\ \A e, f, g \in E :
                SamePlatforms(e, f) /\ SamePlatforms(f, g) /\ Within(e, f, mb) /\ Within(f, g, mb)
                    => Within(e, g, mb)
<1>1. \A e \in E : /\ e.number \in Nat /\ e.type \in {"issue", "update"}
                   /\ NameRank(e.name, mb) \in Nat
  BY DEF Sortable
<1>2. \A e, f \in E :
        e.type = "issue" /\ f.type = "issue" /\ SamePlatforms(e, f) /\ e.project # f.project
            => /\ OrderOf(e.project, mb) \in Nat /\ OrderOf(f.project, mb) \in Nat
               /\ OrderOf(e.project, mb) # OrderOf(f.project, mb)
  <2> SUFFICES ASSUME NEW e \in E, NEW f \in E, e.type = "issue", f.type = "issue",
                      SamePlatforms(e, f), e.project # f.project
               PROVE  /\ OrderOf(e.project, mb) \in Nat /\ OrderOf(f.project, mb) \in Nat
                      /\ OrderOf(e.project, mb) # OrderOf(f.project, mb)
    OBVIOUS
  <2>1. Known(e.project) /\ Known(f.project)
    <3> HIDE DEF Known, SamePlatforms
    <3> QED
      BY DEF Sortable
  <2> QED
    BY <2>1, OrderFacts
<1>3. \A e \in E : ~Within(e, e, mb)
  BY <1>1 DEF Within
<1>4. ASSUME NEW e \in E, NEW f \in E, SamePlatforms(e, f), e # f
      PROVE  Within(e, f, mb) \/ Within(f, e, mb)
  <2>1. CASE e.type = "issue" /\ f.type = "issue"
    <3>1. e.project # f.project \/ e.number # f.number
      BY <1>4, <2>1 DEF Sortable
    <3> QED
      BY <1>1, <1>2, <1>4, <2>1, <3>1 DEF Within
  <2>2. CASE e.type = "update" /\ f.type = "update"
    <3>1. NameRank(e.name, mb) # NameRank(f.name, mb)
      BY <1>4, <2>2 DEF Sortable
    <3> QED
      BY <1>1, <2>2, <3>1 DEF Within
  <2>3. CASE e.type # f.type
    BY <1>1, <2>3 DEF Within
  <2> QED
    BY <1>1, <2>1, <2>2, <2>3
<1>5. ASSUME NEW e \in E, NEW f \in E, NEW g \in E, SamePlatforms(e, f), SamePlatforms(f, g),
             Within(e, f, mb), Within(f, g, mb)
      PROVE  Within(e, g, mb)
  <2>1. SamePlatforms(e, g)
    BY <1>5 DEF SamePlatforms
  <2>2. CASE e.type = "issue"
    <3>1. f.type = "issue" /\ g.type = "issue"
      BY <1>5, <2>2 DEF Within
    <3>2. /\ IF e.project = f.project THEN e.number < f.number
             ELSE OrderOf(e.project, mb) < OrderOf(f.project, mb)
          /\ IF f.project = g.project THEN f.number < g.number
             ELSE OrderOf(f.project, mb) < OrderOf(g.project, mb)
      BY <1>5, <2>2, <3>1 DEF Within
    <3>3. CASE e.project = f.project /\ f.project = g.project
      <4>1. e.number < g.number
        BY <1>1, <3>2, <3>3
      <4> QED
        BY <2>2, <3>1, <3>3, <4>1 DEF Within
    <3>4. CASE e.project # f.project /\ f.project = g.project
      BY <2>2, <3>1, <3>2, <3>4 DEF Within
    <3>5. CASE e.project = f.project /\ f.project # g.project
      BY <2>2, <3>1, <3>2, <3>5 DEF Within
    <3>6. CASE e.project # f.project /\ f.project # g.project
      <4>1. /\ OrderOf(e.project, mb) \in Nat /\ OrderOf(f.project, mb) \in Nat
            /\ OrderOf(g.project, mb) \in Nat
        BY <1>2, <1>5, <2>2, <3>1, <3>6
      <4>2. OrderOf(e.project, mb) < OrderOf(g.project, mb)
        BY <3>2, <3>6, <4>1
      <4>3. e.project # g.project
        BY <4>1, <4>2
      <4> QED
        BY <2>2, <3>1, <4>2, <4>3 DEF Within
    <3> QED
      BY <3>3, <3>4, <3>5, <3>6
  <2>3. CASE e.type = "update"
    <3>1. CASE g.type = "issue"
      BY <2>3, <3>1 DEF Within
    <3>2. CASE g.type = "update"
      <4>1. f.type = "update"
        BY <1>5, <3>2 DEF Within
      <4>2. NameRank(e.name, mb) < NameRank(f.name, mb) /\ NameRank(f.name, mb) < NameRank(g.name, mb)
        BY <1>5, <2>3, <3>2, <4>1 DEF Within
      <4>3. NameRank(e.name, mb) < NameRank(g.name, mb)
        BY <1>1, <4>2
      <4> QED
        BY <2>3, <3>2, <4>3 DEF Within
    <3> QED
      BY <1>1, <3>1, <3>2
  <2> QED
    BY <1>1, <2>2, <2>3
<1>6. \A e, f \in E : SamePlatforms(e, f) /\ e # f => Within(e, f, mb) \/ Within(f, e, mb)
  BY <1>4
<1>7. \A e, f, g \in E :
        SamePlatforms(e, f) /\ SamePlatforms(f, g) /\ Within(e, f, mb) /\ Within(f, g, mb)
            => Within(e, g, mb)
  BY <1>5
<1> QED
  BY <1>3, <1>6, <1>7

\* Before puts any two entries in an order.
StrictOrder(E, mb) ==
    /\ \A e \in E : ~Before(e, e, mb)
    /\ \A e, f \in E : e # f => Before(e, f, mb) \/ Before(f, e, mb)
    /\ \A e, f, g \in E : Before(e, f, mb) /\ Before(f, g, mb) => Before(e, g, mb)

LEMMA EntriesOrdered ==
    ASSUME NEW E, NEW mb, Sortable(E, mb)
    PROVE  StrictOrder(E, mb)
<1>1. \A e \in E : e.num \in Nat /\ Bits(e.platform) \in Nat
  BY BitsFacts DEF Sortable
<1>2. \A e, f \in E : Bits(e.platform) = Bits(f.platform) => e.platform = f.platform
  BY BitsFacts DEF Sortable
<1>3. \A e, f \in E : SamePlatforms(e, f) <=> e.num = f.num /\ Bits(e.platform) = Bits(f.platform)
  BY <1>2 DEF SamePlatforms
<1>4. ASSUME NEW e \in E PROVE ~Before(e, e, mb)
  <2>1. SamePlatforms(e, e)
    BY DEF SamePlatforms
  <2> QED
    BY <2>1, BeforeIs, WithinFacts
<1>5. ASSUME NEW e \in E, NEW f \in E, e # f PROVE Before(e, f, mb) \/ Before(f, e, mb)
  <2>1. SamePlatforms(e, f) <=> SamePlatforms(f, e)
    BY DEF SamePlatforms
  <2>2. CASE SamePlatforms(e, f)
    BY <1>5, <2>1, <2>2, BeforeIs, WithinFacts
  <2>3. CASE ~SamePlatforms(e, f)
    <3>1. Above(e, f) \/ Above(f, e)
      BY <1>1, <1>3, <2>3 DEF Above
    <3> QED
      BY <2>1, <2>3, <3>1, BeforeIs
  <2> QED
    BY <2>2, <2>3
<1>6. ASSUME NEW e \in E, NEW f \in E, NEW g \in E, Before(e, f, mb), Before(f, g, mb)
      PROVE  Before(e, g, mb)
  <2>1. CASE SamePlatforms(e, f) /\ SamePlatforms(f, g)
    <3>1. SamePlatforms(e, g)
      BY <2>1 DEF SamePlatforms
    <3>2. Within(e, f, mb) /\ Within(f, g, mb)
      BY <1>6, <2>1, BeforeIs
    <3>3. Within(e, g, mb)
      BY <2>1, <3>2, WithinFacts
    <3> QED
      BY <3>1, <3>3, BeforeIs
  <2>2. CASE ~(SamePlatforms(e, f) /\ SamePlatforms(f, g))
    <3>1. SamePlatforms(e, f) \/ Above(e, f)
      BY <1>6, BeforeIs
    <3>2. SamePlatforms(f, g) \/ Above(f, g)
      BY <1>6, BeforeIs
    <3>3. Above(e, g)
      BY <1>1, <1>3, <2>2, <3>1, <3>2 DEF Above
    <3>4. ~SamePlatforms(e, g)
      BY <1>1, <1>3, <3>3 DEF Above
    <3> QED
      BY <3>3, <3>4, BeforeIs
  <2> QED
    BY <2>1, <2>2
<1> QED
  BY <1>4, <1>5, <1>6 DEF StrictOrder

\* The entries before one of them are as many as its place says.
LEMMA SortedFacts ==
    ASSUME NEW E, NEW mb, IsFiniteSet(E), StrictOrder(E, mb)
    PROVE  LET n == Cardinality(E)
               s == Sorted(E, mb)
           IN  /\ n \in Nat /\ s \in [1 .. n -> E]
               /\ \A e \in E : \E i \in 1 .. n : s[i] = e
               /\ \A i, j \in 1 .. n : i < j => Before(s[i], s[j], mb)
<1> DEFINE n == Cardinality(E)
           s == Sorted(E, mb)
           First(e) == {f \in E : Before(f, e, mb)}
           rank == [e \in E |-> Cardinality(First(e))]
<1>1. n \in Nat
  BY FS_CardinalityType
<1>2. \A e \in E : IsFiniteSet(First(e)) /\ Cardinality(First(e)) \in Nat
  BY FS_Subset, FS_CardinalityType
<1>3. ASSUME NEW e \in E PROVE Cardinality(First(e)) < n
  <2>1. First(e) \subseteq E /\ e \notin First(e)
    BY DEF StrictOrder
  <2> HIDE DEF First
  <2>2. Cardinality(First(e)) <= Cardinality(E)
    BY <2>1, FS_Subset
  <2>3. Cardinality(First(e)) # Cardinality(E)
    BY <2>1, FS_Subset
  <2> QED
    BY <1>1, <1>2, <2>2, <2>3
<1>4. ASSUME NEW e \in E, NEW f \in E, Before(e, f, mb)
      PROVE  Cardinality(First(e)) < Cardinality(First(f))
  <2>1. First(e) \subseteq First(f) /\ e \in First(f) /\ e \notin First(e)
    BY <1>4 DEF StrictOrder
  <2> HIDE DEF First
  <2>2. Cardinality(First(e)) <= Cardinality(First(f))
    BY <1>2, <2>1, FS_Subset
  <2>3. Cardinality(First(e)) # Cardinality(First(f))
    BY <1>2, <2>1, FS_Subset
  <2> QED
    BY <1>2, <2>2, <2>3
<1>5. \A e, f \in E : Cardinality(First(e)) = Cardinality(First(f)) => e = f
  <2> HIDE DEF First
  <2> QED
    BY <1>2, <1>4 DEF StrictOrder
<1>6. rank \in Injection(E, 0 .. n - 1)
  <2>1. \A e \in E : Cardinality(First(e)) \in 0 .. n - 1
    <3> HIDE DEF First, n
    <3> QED
      BY <1>1, <1>2, <1>3
  <2>2. \A e \in E : rank[e] = Cardinality(First(e))
    OBVIOUS
  <2>3. rank \in [E -> 0 .. n - 1]
    <3> HIDE DEF First, n
    <3> QED
      BY <2>1
  <2>4. \A e, f \in E : rank[e] = rank[f] => e = f
    <3> HIDE DEF First, rank
    <3> QED
      BY <1>5, <2>2
  <2> HIDE DEF rank, n
  <2> QED
    BY <2>3, <2>4 DEF Injection, IsInjective
<1>7. IsFiniteSet(0 .. n - 1) /\ Cardinality(0 .. n - 1) = n
  <2>1. 0 \in Int /\ n - 1 \in Int
    BY <1>1
  <2> HIDE DEF n
  <2>2. /\ IsFiniteSet(0 .. n - 1)
        /\ Cardinality(0 .. n - 1) = IF 0 > n - 1 THEN 0 ELSE (n - 1) - 0 + 1
    BY <2>1, FS_Interval
  <2> QED
    BY <1>1, <2>2
<1>8. rank \in Surjection(E, 0 .. n - 1)
  <2> HIDE DEF rank
  <2> QED
    BY <1>6, <1>7, FS_Injection
<1>9. ASSUME NEW i \in 1 .. n
      PROVE  s[i] \in E /\ Cardinality(First(s[i])) = i - 1
  <2>1. i - 1 \in 0 .. n - 1
    <3> HIDE DEF n
    <3> QED
      BY <1>1
  <2>2. \E e \in E : rank[e] = i - 1
    <3> HIDE DEF rank, n
    <3> QED
      BY <1>8, <2>1 DEF Surjection
  <2>3. \E e \in E : Cardinality(First(e)) = i - 1
    BY <2>2
  <2>4. s[i] = CHOOSE e \in E : Cardinality(First(e)) = i - 1
    BY DEF Sorted
  <2> HIDE DEF First, s
  <2> QED
    BY <2>3, <2>4
<1>10. s \in [1 .. n -> E]
  <2>1. s = [i \in 1 .. n |-> s[i]]
    BY DEF Sorted
  <2> HIDE DEF s, n
  <2> QED
    BY <1>9, <2>1
<1>11. ASSUME NEW e \in E PROVE \E i \in 1 .. n : s[i] = e
  <2>1. PICK i : i = Cardinality(First(e)) + 1
    OBVIOUS
  <2> HIDE DEF First, n, s
  <2>2. i \in 1 .. n /\ i - 1 = Cardinality(First(e))
    BY <1>1, <1>2, <1>3, <2>1
  <2>3. s[i] = e
    BY <1>5, <1>9, <2>2
  <2> QED
    BY <2>2, <2>3
<1>12. ASSUME NEW i \in 1 .. n, NEW j \in 1 .. n, i < j PROVE Before(s[i], s[j], mb)
  <2> HIDE DEF First, n, s
  <2>1. Cardinality(First(s[i])) < Cardinality(First(s[j]))
    BY <1>1, <1>9, <1>12
  <2>2. ~(Cardinality(First(s[j])) < Cardinality(First(s[i]))) /\ s[i] # s[j]
    BY <1>2, <1>9, <2>1
  <2> QED
    BY <1>4, <1>9, <2>2 DEF StrictOrder
<1> QED
  BY <1>1, <1>10, <1>11, <1>12

-----------------------------------------------------------------------------
(* The entries of a section can be sorted.                                 *)

LEMMA EntryIs ==
    ASSUME NEW e \in Entries
    PROVE  \/ \E i \in DOMAIN included \ excluded : e = IssueEntry(i, included[i], builder.mb)
           \/ \E k \in DOMAIN UpdateNames(builder.mb) :
                 /\ e = UpdateEntry(UpdateNames(builder.mb)[k], builder.mb)
                 /\ KeyOf(UpdateNames(builder.mb)[k]) \in args.updates
BY DEF Entries

\* What is known of an entry, an issue's or an update's.
LEMMA EntryFacts ==
    ASSUME builder.mb \in BOOLEAN, DOMAIN included \subseteq Issues, NEW e \in Entries
    PROVE  /\ FitPlatforms(e.platform, builder.mb) /\ e.num \in Nat /\ e.number \in Nat
           /\ e.type \in {"issue", "update"} /\ e.build \in BOOLEAN
           /\ e.type = "issue" => e.num = Cardinality(e.platform) /\ e.name = "" /\ e.number # 0
           /\ e.type = "update" => e.number = 0
           /\ e.type = "update" /\ e.name # "Go" => e.num = Cardinality(e.platform)
           /\ e.type = "update" /\ e.name = "Go" =>
                e.build = TRUE /\ e.platform = Platforms \ {"macos"} /\ "Go" \in args.updates
<1>1. CASE \E i \in DOMAIN included \ excluded : e = IssueEntry(i, included[i], builder.mb)
  <2>1. PICK i \in DOMAIN included \ excluded : e = IssueEntry(i, included[i], builder.mb)
    BY <1>1
  <2>2. i \in Issues
    OBVIOUS
  <2> QED
    BY <2>1, <2>2, IssueFacts
<1>2. CASE \E k \in DOMAIN UpdateNames(builder.mb) :
              /\ e = UpdateEntry(UpdateNames(builder.mb)[k], builder.mb)
              /\ KeyOf(UpdateNames(builder.mb)[k]) \in args.updates
  <2>1. PICK k \in DOMAIN UpdateNames(builder.mb) :
              /\ e = UpdateEntry(UpdateNames(builder.mb)[k], builder.mb)
              /\ KeyOf(UpdateNames(builder.mb)[k]) \in args.updates
    BY <1>2
  <2>2. /\ FitPlatforms(e.platform, builder.mb) /\ e.num \in Nat
        /\ e.name # "Go" => e.num = Cardinality(e.platform)
        /\ e.name = "Go" => e.build = TRUE /\ e.platform = Platforms \ {"macos"}
        /\ e.type = "update" /\ e.name = UpdateNames(builder.mb)[k] /\ e.number = 0
        /\ e.build \in BOOLEAN
    BY <2>1, UpdateFacts
  <2>3. e.name = "Go" => "Go" \in args.updates
    BY <2>1, <2>2 DEF KeyOf
  <2> QED
    BY <2>2, <2>3
<1> QED
  BY <1>1, <1>2, EntryIs

\* The place of an entry's name, from which the name can be had.
LEMMA NameRankFacts ==
    ASSUME builder.mb \in BOOLEAN, DOMAIN included \subseteq Issues, NEW e \in Entries
    PROVE  /\ NameRank(e.name, builder.mb) \in Nat
           /\ e.type = "issue" => NameRank(e.name, builder.mb) = 0
           /\ e.type = "update" =>
                /\ UpdateNames(builder.mb)[NameRank(e.name, builder.mb)] = e.name
                /\ e = UpdateEntry(e.name, builder.mb)
<1>1. CASE e.type = "issue"
  <2>1. e.name = ""
    BY <1>1, EntryFacts
  <2> QED
    BY <1>1, <2>1 DEF NameRank
<1>2. CASE e.type = "update"
  <2>1. ~\E i \in DOMAIN included \ excluded : e = IssueEntry(i, included[i], builder.mb)
    BY <1>2, IssueFacts
  <2>2. PICK k \in DOMAIN UpdateNames(builder.mb) :
              e = UpdateEntry(UpdateNames(builder.mb)[k], builder.mb)
    BY <2>1, EntryIs
  <2>3. e.name = UpdateNames(builder.mb)[k] /\ e.name # ""
    <3>1. e.name = UpdateNames(builder.mb)[k]
      BY <2>2, UpdateFacts
    <3>2. UpdateNames(builder.mb)[k] # ""
      BY NamesFacts
    <3> QED
      BY <3>1, <3>2
  <2>4. \A j \in DOMAIN UpdateNames(builder.mb) : j \in Nat
    BY NamesFacts
  <2>5. NameRank(e.name, builder.mb) =
            CHOOSE j \in DOMAIN UpdateNames(builder.mb) : UpdateNames(builder.mb)[j] = e.name
    BY <2>3 DEF NameRank
  <2>6. /\ NameRank(e.name, builder.mb) \in DOMAIN UpdateNames(builder.mb)
        /\ UpdateNames(builder.mb)[NameRank(e.name, builder.mb)] = e.name
    BY <2>3, <2>5
  <2> QED
    BY <1>2, <2>2, <2>3, <2>4, <2>6
<1> QED
  BY <1>1, <1>2, EntryFacts

LEMMA EntriesFinite ==
    ASSUME builder.mb \in BOOLEAN, DOMAIN included \subseteq Issues
    PROVE  IsFiniteSet(Entries)
<1> DEFINE S == DOMAIN included \ excluded
           f == [i \in S |-> IssueEntry(i, included[i], builder.mb)]
           A == {f[i] : i \in S}
           N == DOMAIN UpdateNames(builder.mb)
           g == [k \in N |-> UpdateEntry(UpdateNames(builder.mb)[k], builder.mb)]
           B == {g[k] : k \in N}
<1>1. IsFiniteSet(S)
  BY IssuesAssumption, FS_Subset
<1>2. IsFiniteSet(N)
  <2>1. PICK n \in Nat : N = 1 .. n
    <3>1. \A T : \A s \in Seq(T) : \E n \in Nat : DOMAIN s = 1 .. n
      OBVIOUS
    <3> QED
      BY <3>1, NamesSeq
  <2> QED
    BY <2>1, FS_Interval
<1>3. IsFiniteSet(A)
  <2>1. f \in Surjection(S, A)
    BY DEF Surjection
  <2> QED
    BY <1>1, <2>1, FS_Surjection
<1>4. IsFiniteSet(B)
  <2>1. g \in Surjection(N, B)
    BY DEF Surjection
  <2> QED
    BY <1>2, <2>1, FS_Surjection
<1>5. Entries \subseteq A \cup B
  BY EntryIs
<1>6. IsFiniteSet(A \cup B)
  BY <1>3, <1>4, FS_Union
<1> QED
  BY <1>5, <1>6, FS_Subset

LEMMA EntriesSortable ==
    ASSUME builder.mb \in BOOLEAN, DOMAIN included \subseteq Issues, ~CannotSort(Entries),
           NEW E \in SUBSET Entries, \A e, f \in E : e.build = f.build
    PROVE  Sortable(E, builder.mb)
<1>1. IsFiniteSet(E)
  BY EntriesFinite, FS_Subset
<1>2. \A e \in E : /\ e.platform \in SUBSET Platforms /\ e.num \in Nat /\ e.number \in Nat
                   /\ e.type \in {"issue", "update"}
                   /\ NameRank(e.name, builder.mb) \in Nat
                   /\ (e.type = "issue" => NameRank(e.name, builder.mb) = 0)
  BY EntryFacts, NameRankFacts DEF FitPlatforms
<1>3. ASSUME NEW e \in E, NEW f \in E, e.type = "update", f.type = "update", e # f
      PROVE  NameRank(e.name, builder.mb) # NameRank(f.name, builder.mb)
  <2>1. e.name # f.name
    BY <1>3, NameRankFacts
  <2> QED
    BY <1>3, <2>1, NameRankFacts
<1>4. ASSUME NEW e \in E, NEW f \in E, e.type = "issue", f.type = "issue", e # f
      PROVE  e.project # f.project \/ e.number # f.number
  <2>1. ASSUME NEW d \in E, d.type = "issue"
        PROVE  \E i \in DOMAIN included \ excluded : d = IssueEntry(i, included[i], builder.mb)
    <3>1. ASSUME NEW k \in DOMAIN UpdateNames(builder.mb),
                 d = UpdateEntry(UpdateNames(builder.mb)[k], builder.mb)
          PROVE  d.type = "update"
      BY <3>1, UpdateFacts
    <3>2. d \in Entries
      OBVIOUS
    <3> QED
      BY <2>1, <3>1, <3>2, EntryIs
  <2>2. PICK i \in DOMAIN included \ excluded : e = IssueEntry(i, included[i], builder.mb)
    BY <1>4, <2>1
  <2>3. PICK j \in DOMAIN included \ excluded : f = IssueEntry(j, included[j], builder.mb)
    BY <1>4, <2>1
  <2>4. i # j
    BY <1>4, <2>2, <2>3
  <2>5. i.project # j.project \/ i.number # j.number
    BY <2>4, IssuesAssumption
  <2>6. e.project = i.project /\ e.number = i.number /\ f.project = j.project /\ f.number = j.number
    <3>1. e.project = i.project /\ e.number = i.number
      BY <2>2 DEF IssueEntry
    <3>2. f.project = j.project /\ f.number = j.number
      BY <2>3 DEF IssueEntry
    <3> QED
      BY <3>1, <3>2
  <2> QED
    BY <2>5, <2>6
<1>5. ASSUME NEW e \in E, NEW f \in E, e.type = "issue", f.type = "issue", SamePlatforms(e, f),
             e.project # f.project
      PROVE  Known(e.project) /\ Known(f.project)
  <2>1. e.build = f.build /\ e \in Entries /\ f \in Entries
    OBVIOUS
  <2> QED
    BY <1>5, <2>1 DEF CannotSort
<1> QED
  BY <1>1, <1>2, <1>3, <1>4, <1>5 DEF Sortable

-----------------------------------------------------------------------------
(* The text.                                                               *)

SectionOf(c) == {e \in Entries : e.build = (c = "build")}

\* What a section is: its entries, each of them, in order, with their headings.
LEMMA TextFacts ==
    ASSUME builder.mb \in BOOLEAN, DOMAIN included \subseteq Issues, ~CannotSort(Entries),
           text = Text(Entries, builder.mb), NEW c \in Sections
    PROVE  LET n == Cardinality(SectionOf(c))
           IN  /\ n \in Nat /\ DOMAIN text[c] = 1 .. n
               /\ \A i \in 1 .. n :
                    /\ text[c][i].entry \in SectionOf(c)
                    /\ text[c][i].heading =
                         IF text[c][i].entry.platform = (IF i = 1 THEN {} ELSE text[c][i - 1].entry.platform)
                         THEN {} ELSE text[c][i].entry.platform
               /\ \A e \in SectionOf(c) : \E i \in 1 .. n : text[c][i].entry = e
               /\ \A i, j \in 1 .. n : i < j => Before(text[c][i].entry, text[c][j].entry, builder.mb)
<1> DEFINE n == Cardinality(SectionOf(c))
           s == Sorted(SectionOf(c), builder.mb)
<1>1. text[c] = Lines(s, NoPlatform)
  <2>1. CASE c = "all"
    <3>1. SectionOf(c) = {e \in Entries : ~e.build}
      BY <2>1, EntryFacts DEF SectionOf
    <3> QED
      BY <2>1, <3>1 DEF Text
  <2>2. CASE c = "build"
    <3>1. SectionOf(c) = {e \in Entries : e.build}
      BY <2>2, EntryFacts DEF SectionOf
    <3> QED
      BY <2>2, <3>1 DEF Text
  <2> QED
    BY <2>1, <2>2 DEF Sections
<1>2. Sortable(SectionOf(c), builder.mb)
  BY EntriesSortable DEF SectionOf
<1>3. IsFiniteSet(SectionOf(c)) /\ StrictOrder(SectionOf(c), builder.mb)
  BY <1>2, EntriesOrdered DEF Sortable
<1>4. /\ n \in Nat /\ s \in [1 .. n -> SectionOf(c)]
      /\ \A e \in SectionOf(c) : \E i \in 1 .. n : s[i] = e
      /\ \A i, j \in 1 .. n : i < j => Before(s[i], s[j], builder.mb)
  BY <1>3, SortedFacts
<1> HIDE DEF n, s
<1>5. /\ DOMAIN text[c] = 1 .. n
      /\ \A i \in 1 .. n :
           /\ text[c][i].entry = s[i]
           /\ text[c][i].heading =
                IF s[i].platform = (IF i = 1 THEN {} ELSE s[i - 1].platform) THEN {} ELSE s[i].platform
  BY <1>1, <1>4 DEF Lines, NoPlatform
<1>6. \A i \in 1 .. n : i # 1 => i - 1 \in 1 .. n
  BY <1>4
<1>7. \A i \in 1 .. n :
        /\ text[c][i].entry \in SectionOf(c)
        /\ text[c][i].heading =
             IF text[c][i].entry.platform = (IF i = 1 THEN {} ELSE text[c][i - 1].entry.platform)
             THEN {} ELSE text[c][i].entry.platform
  <2> SUFFICES ASSUME NEW i \in 1 .. n
               PROVE  /\ text[c][i].entry \in SectionOf(c)
                      /\ text[c][i].heading =
                           IF text[c][i].entry.platform
                                = (IF i = 1 THEN {} ELSE text[c][i - 1].entry.platform)
                           THEN {} ELSE text[c][i].entry.platform
    OBVIOUS
  <2>1. i # 1 => text[c][i - 1].entry = s[i - 1]
    BY <1>5, <1>6
  <2>2. text[c][i].entry = s[i] /\ s[i] \in SectionOf(c)
    BY <1>4, <1>5
  <2> QED
    BY <1>5, <2>1, <2>2
<1>8. ASSUME NEW e \in SectionOf(c) PROVE \E i \in 1 .. n : text[c][i].entry = e
  <2>1. PICK i \in 1 .. n : s[i] = e
    BY <1>4
  <2> QED
    BY <1>5, <2>1
<1>9. ASSUME NEW i \in 1 .. n, NEW j \in 1 .. n, i < j
      PROVE  Before(text[c][i].entry, text[c][j].entry, builder.mb)
  <2>1. Before(s[i], s[j], builder.mb)
    BY <1>4, <1>9
  <2>2. text[c][i].entry = s[i] /\ text[c][j].entry = s[j]
    BY <1>5
  <2> QED
    BY <2>1, <2>2
<1> QED
  BY <1>4, <1>5, <1>7, <1>8, <1>9 DEF n

\* The platforms are never none, so that only the first entry of several has a heading.
LEMMA UnderItsPlatforms ==
    ASSUME builder.mb \in BOOLEAN, DOMAIN included \subseteq Issues, ~CannotSort(Entries),
           text = Text(Entries, builder.mb)
    PROVE  EachUnderItsPlatforms
<1> SUFFICES ASSUME NEW c \in Sections
             PROVE  \A i \in DOMAIN text[c] :
                      \E j \in 1 .. i : /\ text[c][j].heading = text[c][i].entry.platform
                                       /\ \A k \in j + 1 .. i : ~HasHeading(text[c][k])
  BY DEF EachUnderItsPlatforms
<1> DEFINE P(i) == text[c][i].entry.platform
           H(i) == text[c][i].heading
           G(i) == \E j \in 1 .. i : H(j) = P(i) /\ \A k \in j + 1 .. i : ~HasHeading(text[c][k])
           Bad == {i \in DOMAIN text[c] : ~G(i)}
<1>1. PICK n \in Nat : DOMAIN text[c] = 1 .. n
  BY TextFacts
<1>2. \A i \in 1 .. n : /\ P(i) # {}
                        /\ H(i) = IF P(i) = (IF i = 1 THEN {} ELSE P(i - 1)) THEN {} ELSE P(i)
  <2> SUFFICES ASSUME NEW i \in 1 .. n
               PROVE  /\ P(i) # {}
                      /\ H(i) = IF P(i) = (IF i = 1 THEN {} ELSE P(i - 1)) THEN {} ELSE P(i)
    OBVIOUS
  <2>1. i \in 1 .. Cardinality(SectionOf(c))
    BY <1>1, TextFacts
  <2>2. /\ text[c][i].entry \in SectionOf(c)
        /\ H(i) = IF P(i) = (IF i = 1 THEN {} ELSE P(i - 1)) THEN {} ELSE P(i)
    BY <2>1, TextFacts
  <2>3. text[c][i].entry \in Entries
    BY <2>2 DEF SectionOf
  <2>4. P(i) # {}
    BY <2>3, EntryFacts DEF FitPlatforms
  <2> QED
    BY <2>2, <2>4
<1>3. \A i : HasHeading(text[c][i]) <=> H(i) # {}
  BY DEF HasHeading, NoPlatform
<1> HIDE DEF P, H
<1>4. Bad = {}
  <2> SUFFICES ASSUME Bad # {} PROVE FALSE
    OBVIOUS
  <2>1. Bad \subseteq 1 .. n
    BY <1>1
  <2> HIDE DEF Bad
  <2>2. PICK m \in Bad : \A x \in Bad : ~(x < m)
    <3>1. Bad \subseteq Nat /\ Bad # {}
      BY <2>1
    <3>2. PICK m \in Bad : \A x \in Bad : ~(<<x, m>> \in OpToRel(<, Nat))
      BY <3>1, NatLessThanWellFounded, WFMin
    <3>3. \A x \in Bad : x < m => <<x, m>> \in OpToRel(<, Nat)
      BY <3>1 DEF OpToRel
    <3> QED
      BY <3>2, <3>3
  <2>3. m \in 1 .. n /\ ~G(m)
    BY <2>1 DEF Bad
  <2>4. CASE H(m) # {}
    <3>1. H(m) = P(m)
      BY <1>2, <2>3, <2>4
    <3>2. m \in 1 .. m /\ m + 1 .. m = {}
      BY <2>3
    <3> QED
      BY <2>3, <3>1, <3>2
  <2>5. CASE H(m) = {}
    <3>1. m # 1 /\ P(m) = P(m - 1)
      BY <1>2, <2>3, <2>5
    <3>2. m - 1 \in 1 .. n /\ m - 1 < m
      BY <2>3, <3>1
    <3>3. G(m - 1)
      <4>1. m - 1 \notin Bad
        BY <2>2, <3>2
      <4> QED
        BY <1>1, <3>2, <4>1 DEF Bad
    <3>4. PICK j \in 1 .. m - 1 : /\ H(j) = P(m - 1)
                                  /\ \A k \in j + 1 .. m - 1 : ~HasHeading(text[c][k])
      BY <3>3
    <3>5. ASSUME NEW k \in j + 1 .. m PROVE ~HasHeading(text[c][k])
      <4>1. k \in j + 1 .. m - 1 \/ k = m
        BY <2>3, <3>4
      <4> QED
        BY <1>3, <2>5, <3>4, <4>1
    <3>6. j \in 1 .. m
      BY <2>3, <3>4
    <3> QED
      BY <2>3, <3>1, <3>4, <3>5, <3>6
  <2> QED
    BY <2>4, <2>5
<1> QED
  BY <1>4 DEF Bad, P, H

\* Two lines with the same heading have one of other platforms between them, so that
\* their numbers of platforms are not the same.
LEMMA HeadingOnce ==
    ASSUME builder.mb \in BOOLEAN, DOMAIN included \subseteq Issues, ~CannotSort(Entries),
           text = Text(Entries, builder.mb), NEW c \in Sections,
           NEW i \in DOMAIN text[c], NEW j \in DOMAIN text[c], i < j,
           HasHeading(text[c][i]), HasHeading(text[c][j]), text[c][i].heading = text[c][j].heading
    PROVE  /\ c = "build" /\ "Go" \in args.updates
           /\ text[c][i].heading = Platforms \ {"macos"}
<1>1. PICK n \in Nat : n = Cardinality(SectionOf(c)) /\ DOMAIN text[c] = 1 .. n
  BY TextFacts
<1>2. /\ i \in 1 .. n /\ j \in 1 .. n /\ j # 1 /\ j - 1 \in 1 .. n /\ j - 1 < j
      /\ i = j - 1 \/ i < j - 1
  BY <1>1
<1>3. PICK e \in SectionOf(c) : e = text[c][i].entry
  BY <1>1, <1>2, TextFacts
<1>4. PICK f \in SectionOf(c) : f = text[c][j].entry
  BY <1>1, <1>2, TextFacts
<1>5. PICK g \in SectionOf(c) : g = text[c][j - 1].entry
  BY <1>1, <1>2, TextFacts
<1>6. e \in Entries /\ f \in Entries /\ g \in Entries
  BY DEF SectionOf
<1>7. e.platform = text[c][i].heading /\ f.platform = text[c][j].heading /\ g.platform # f.platform
  <2>1. text[c][i].heading = e.platform \/ text[c][i].heading = {}
    BY <1>1, <1>2, <1>3, TextFacts
  <2>2. text[c][j].heading = IF f.platform = g.platform THEN {} ELSE f.platform
    BY <1>1, <1>2, <1>4, <1>5, TextFacts
  <2> QED
    BY <2>1, <2>2 DEF HasHeading, NoPlatform
<1>8. i # j - 1
  BY <1>3, <1>5, <1>7
<1>9. Before(e, g, builder.mb) /\ Before(g, f, builder.mb)
  <2>1. i < j - 1
    BY <1>2, <1>8
  <2>2. Before(text[c][i].entry, text[c][j - 1].entry, builder.mb)
    BY <1>1, <1>2, <2>1, TextFacts
  <2>3. Before(text[c][j - 1].entry, text[c][j].entry, builder.mb)
    BY <1>1, <1>2, TextFacts
  <2> QED
    BY <1>3, <1>4, <1>5, <2>2, <2>3
<1>10. e.num # f.num
  <2>1. ~SamePlatforms(e, g) /\ ~SamePlatforms(g, f)
    BY <1>7 DEF SamePlatforms
  <2>2. Sortable(SectionOf(c), builder.mb)
    BY EntriesSortable DEF SectionOf
  <2>3. Above(e, g) /\ Above(g, f)
    BY <1>9, <2>1, <2>2, BeforeIs
  <2>4. /\ e.num \in Nat /\ f.num \in Nat /\ g.num \in Nat
        /\ e.platform \in SUBSET Platforms /\ g.platform \in SUBSET Platforms
    BY <1>6, EntryFacts DEF FitPlatforms
  <2>5. Bits(e.platform) \in Nat /\ Bits(g.platform) \in Nat /\ e.platform = f.platform
    BY <1>7, <2>4, BitsFacts
  <2>6. Bits(e.platform) = Bits(f.platform)
    BY <2>5
  <2> QED
    BY <2>3, <2>4, <2>5, <2>6 DEF Above
<1>11. \/ e.type = "update" /\ e.name = "Go"
       \/ f.type = "update" /\ f.name = "Go"
  <2>1. /\ (e.type = "update" /\ e.name = "Go") \/ e.num = Cardinality(e.platform)
        /\ (f.type = "update" /\ f.name = "Go") \/ f.num = Cardinality(f.platform)
    BY <1>6, EntryFacts
  <2> QED
    BY <1>7, <1>10, <2>1
<1>12. ASSUME NEW d \in SectionOf(c), d.type = "update", d.name = "Go"
       PROVE  c = "build" /\ "Go" \in args.updates /\ d.platform = Platforms \ {"macos"}
  <2>1. d \in Entries /\ d.build = (c = "build")
    BY DEF SectionOf
  <2>2. d.build = TRUE /\ d.platform = Platforms \ {"macos"} /\ "Go" \in args.updates
    BY <1>12, <2>1, EntryFacts
  <2> QED
    BY <2>1, <2>2
<1> QED
  BY <1>7, <1>11, <1>12

LEMMA Grouped ==
    ASSUME builder.mb \in BOOLEAN, DOMAIN included \subseteq Issues, ~CannotSort(Entries),
           text = Text(Entries, builder.mb)
    PROVE  GroupedByPlatforms
<1>1. EachUnderItsPlatforms
  BY UnderItsPlatforms
<1>2. HeadingsOnce
  <2> SUFFICES ASSUME NEW c \in Sections, NEW i \in DOMAIN text[c], NEW j \in DOMAIN text[c],
                      HasHeading(text[c][i]), HasHeading(text[c][j]), i # j,
                      text[c][i].heading = text[c][j].heading
               PROVE  /\ c = "build" /\ "Go" \in args.updates
                      /\ text[c][i].heading = Platforms \ {"macos"}
    BY DEF HeadingsOnce
  <2>1. i < j \/ j < i
    <3>1. PICK n \in Nat : DOMAIN text[c] = 1 .. n
      BY TextFacts
    <3> QED
      BY <3>1
  <2>2. CASE i < j
    BY <2>2, HeadingOnce
  <2>3. CASE j < i
    BY <2>3, HeadingOnce
  <2> QED
    BY <2>1, <2>2, <2>3
<1>3. MullvadIsForDesktop
  <2> SUFFICES ASSUME builder.mb, NEW c \in Sections, NEW i \in DOMAIN text[c],
                      HasHeading(text[c][i])
               PROVE  \/ text[c][i].heading = Platforms
                      \/ text[c][i].heading \subseteq Desktop /\ text[c][i].heading # Desktop
    BY DEF MullvadIsForDesktop
  <2>1. PICK e \in SectionOf(c) : e = text[c][i].entry
    BY TextFacts
  <2>2. text[c][i].heading = e.platform \/ text[c][i].heading = {}
    <3>1. i \in 1 .. Cardinality(SectionOf(c))
      BY TextFacts
    <3>2. text[c][i].heading =
            IF text[c][i].entry.platform = (IF i = 1 THEN {} ELSE text[c][i - 1].entry.platform)
            THEN {} ELSE text[c][i].entry.platform
      BY <3>1, TextFacts
    <3> QED
      BY <2>1, <3>2
  <2>3. FitPlatforms(e.platform, builder.mb) /\ text[c][i].heading = e.platform
    BY <2>2, EntryFacts DEF SectionOf, HasHeading, NoPlatform
  <2> QED
    BY <2>3 DEF FitPlatforms
<1> QED
  BY <1>1, <1>2, <1>3 DEF GroupedByPlatforms

LEMMA NoTextGrouped ==
    ASSUME text = NoText
    PROVE  GroupedByPlatforms
<1>1. \A c \in Sections : DOMAIN text[c] = {}
  BY DEF NoText, Sections
<1> QED
  BY <1>1 DEF GroupedByPlatforms, EachUnderItsPlatforms, HeadingsOnce, MullvadIsForDesktop

-----------------------------------------------------------------------------
(* The inductive invariant.                                                *)

LinksKnown ==
    \A r \in Tickets : always[r] \subseteq links[r] /\ links[r] \subseteq ever[r]

\* What each stage of a run has done and not done.
Stages ==
    /\ pc # "idle" => args \in Asked
    /\ pc \in {"include", "exclude", "done"} => builder.issue \in Tickets /\ builder.mb \in BOOLEAN
    /\ pc \in {"idle", "find"}
         => included = <<>> /\ excluded = {} /\ toInclude = {} /\ toExclude = {}
    /\ pc # "done" => text = NoText
    /\ pc \in {"exclude", "done"} => toInclude = {}
    /\ pc = "done" => toExclude = {} /\ ~CannotSort(Entries) /\ text = Text(Entries, builder.mb)

Wanted == args.include \cup {builder.issue}

\* What was fetched is what some ticket was linked to, and of a ticket that was asked
\* for nothing is missing that it was linked to all the time; for numbers of no ticket
\* the requests are still to come.
IncludedFetched ==
    /\ \A x \in toInclude : x.issue \in Wanted
    /\ \A r \in Wanted : r \in Tickets \/ \E x \in toInclude : x.issue = r
    /\ \A i \in DOMAIN included : \E r \in Wanted \cap Tickets : i \in ever[r]
    /\ \A r \in Wanted : \A i \in always[r] : i \in DOMAIN included \/ \E x \in toInclude : x.issue = r

ExcludedFetched ==
    /\ toExclude \subseteq args.exclude
    /\ args.exclude \subseteq Tickets \cup toExclude
    /\ \A i \in excluded : \E r \in args.exclude \cap Tickets : i \in ever[r]
    /\ \A r \in args.exclude : \A i \in always[r] : i \in excluded \/ r \in toExclude

Fetched == pc \in {"include", "exclude", "done"} => IncludedFetched /\ ExcludedFetched

ChangelogInv == ChangelogTypeOK /\ LinksKnown /\ Stages /\ Fetched

LEMMA ChangelogInitInv ==
    ASSUME ChangelogInit
    PROVE  ChangelogInv
<1>1. DOMAIN included = {}
  BY DEF ChangelogInit, NotStarted
<1>2. ChangelogTypeOK
  <2>1. DOMAIN text = Sections
    BY DEF ChangelogInit, NotStarted, NoText, Sections
  <2>2. /\ labels \in [Issues -> LabelSets] /\ opened \subseteq Relpreps
        /\ {links, always, ever} \subseteq [Tickets -> SUBSET Issues] /\ moves \in 0 .. MaxMoves
    BY LinksAssumption, MovesAssumption DEF ChangelogInit
  <2>3. /\ pc \in {"idle", "find", "include", "exclude", "done", "raised"}
        /\ args \in Asked \cup {NoArgs} /\ builder.issue \in Tickets \cup {0}
        /\ toInclude = {} /\ toExclude = {} /\ excluded = {}
    BY DEF ChangelogInit, NotStarted, NoBuilder
  <2> QED
    BY <1>1, <2>1, <2>2, <2>3 DEF ChangelogTypeOK
<1>3. LinksKnown
  BY DEF ChangelogInit, LinksKnown
<1>4. Stages /\ Fetched
  BY DEF ChangelogInit, NotStarted, Stages, Fetched
<1> QED
  BY <1>2, <1>3, <1>4 DEF ChangelogInv

LEMMA StartInv ==
    ASSUME ChangelogInv, Start
    PROVE  ChangelogInv'
<1>1. ChangelogTypeOK'
  BY DEF ChangelogInv, Stages, ChangelogTypeOK, Start, gitlab
<1>2. LinksKnown'
  BY DEF ChangelogInv, LinksKnown, Start, gitlab
<1>3. Stages' /\ Fetched'
  BY DEF ChangelogInv, Stages, Fetched, Start
<1> QED
  BY <1>1, <1>2, <1>3 DEF ChangelogInv

\* What is found is a ticket.
LEMMA FindIssueBuilds ==
    ASSUME ChangelogInv, FindIssue
    PROVE  \/ \E r \in Tickets : \E version : Builds(args, r, version)
           \/ Raise
<1>1. Found(args) \subseteq Tickets
  BY RelprepsAssumption DEF ChangelogInv, ChangelogTypeOK, Found, FoundBy
<1> QED
  BY <1>1 DEF FindIssue

LEMMA FindIssueInv ==
    ASSUME ChangelogInv, FindIssue
    PROVE  ChangelogInv'
<1>1. /\ pc = "find" /\ args \in Asked /\ args' = args /\ UNCHANGED gitlab
      /\ included = <<>> /\ excluded = {} /\ text = NoText
      /\ included' = included /\ excluded' = excluded /\ text' = text
  BY DEF ChangelogInv, Stages, FindIssue
<1>3. LinksKnown'
  BY <1>1 DEF ChangelogInv, LinksKnown, gitlab
<1>4. ASSUME NEW r \in Tickets, NEW version, Builds(args, r, version)
      PROVE  ChangelogInv'
  <2>1. /\ builder'.issue = r /\ builder'.mb \in BOOLEAN /\ pc' = "include"
        /\ toExclude' = args.exclude /\ toInclude' = ToInclude(args, r)
    BY <1>4 DEF Builds
  <2>2. \A i : (\E x \in toInclude' : x.issue = i) <=> i \in args.include \cup {r}
    <3>1. ASSUME NEW i, NEW x \in toInclude', x.issue = i PROVE i \in args.include \cup {r}
      BY <2>1, <3>1 DEF ToInclude
    <3>2. ASSUME NEW i \in args.include
          PROVE  [issue |-> i, found |-> FALSE] \in toInclude' /\ [issue |-> i, found |-> FALSE].issue = i
      BY <2>1 DEF ToInclude
    <3>3. [issue |-> r, found |-> TRUE] \in toInclude' /\ [issue |-> r, found |-> TRUE].issue = r
      BY <2>1 DEF ToInclude
    <3> QED
      BY <3>1, <3>2, <3>3
  <2>3. {x.issue : x \in toInclude'} \subseteq args.include \cup {r}
    BY <2>2
  <2>4. ChangelogTypeOK'
    BY <1>1, <2>1, <2>3 DEF ChangelogInv, ChangelogTypeOK, gitlab
  <2>5. Stages'
    BY <1>1, <2>1 DEF Stages
  <2>6. IncludedFetched'
    <3>1. DOMAIN included' = {}
      BY <1>1
    <3>2. Wanted' = args.include \cup {r}
      BY <1>1, <2>1 DEF Wanted
    <3> QED
      BY <2>2, <3>1, <3>2 DEF IncludedFetched
  <2>7. ExcludedFetched'
    BY <1>1, <2>1 DEF ExcludedFetched
  <2> QED
    BY <1>3, <2>4, <2>5, <2>6, <2>7 DEF ChangelogInv, Fetched
<1>5. CASE Raise
  <2>1. pc' = "raised" /\ UNCHANGED <<builder, toInclude, toExclude>>
    BY <1>5 DEF Raise
  <2>2. ChangelogTypeOK'
    BY <1>1, <2>1 DEF ChangelogInv, ChangelogTypeOK, gitlab
  <2>3. Stages' /\ Fetched'
    BY <1>1, <2>1 DEF Stages, Fetched
  <2> QED
    BY <1>3, <2>2, <2>3 DEF ChangelogInv
<1> QED
  BY <1>4, <1>5, FindIssueBuilds

LEMMA IncludeLinkedInv ==
    ASSUME ChangelogInv, IncludeLinked
    PROVE  ChangelogInv'
<1>1. /\ pc = "include" /\ pc' \in {"include", "exclude"} /\ (pc' = "exclude" => toInclude' = {})
      /\ args' = args /\ builder' = builder /\ toExclude' = toExclude /\ excluded' = excluded
      /\ text' = text /\ UNCHANGED gitlab
  BY DEF IncludeLinked
<1>2. PICK x \in toInclude :
        /\ included' = [i \in DOMAIN included \cup links[x.issue] |->
                            IF i \in links[x.issue] THEN labels[i] ELSE included[i]]
        /\ toInclude' = toInclude \ {x}
        /\ x.issue \in Tickets
  BY DEF IncludeLinked
<1>3. x.issue \in Tickets /\ links[x.issue] \subseteq Issues
  BY <1>2 DEF ChangelogInv, ChangelogTypeOK
<1>4. DOMAIN included' = DOMAIN included \cup links[x.issue]
  BY <1>2
<1>5. ChangelogTypeOK'
  <2>1. \A i \in DOMAIN included' : included'[i] \in LabelSets
    BY <1>2, <1>3, <1>4 DEF ChangelogInv, ChangelogTypeOK
  <2>2. /\ labels' \in [Issues -> LabelSets] /\ opened' \subseteq Relpreps
        /\ {links', always', ever'} \subseteq [Tickets -> SUBSET Issues] /\ moves' \in 0 .. MaxMoves
        /\ args' \in Asked \cup {NoArgs} /\ builder'.issue \in Tickets \cup {0}
        /\ DOMAIN text' = Sections
    BY <1>1 DEF ChangelogInv, ChangelogTypeOK, gitlab
  <2>3. /\ {r.issue : r \in toInclude'} \subseteq args'.include \cup {builder'.issue}
        /\ toExclude' \subseteq args'.exclude
        /\ DOMAIN included' \cup excluded' \subseteq Issues
    BY <1>1, <1>2, <1>3, <1>4 DEF ChangelogInv, ChangelogTypeOK
  <2> QED
    BY <1>1, <2>1, <2>2, <2>3 DEF ChangelogTypeOK
<1>6. LinksKnown'
  BY <1>1 DEF ChangelogInv, LinksKnown, gitlab
<1>7. Stages'
  BY <1>1 DEF ChangelogInv, Stages
<1>8. IncludedFetched'
  <2>1. Wanted' = Wanted /\ always' = always /\ ever' = ever
    BY <1>1 DEF Wanted, gitlab
  <2>2. IncludedFetched
    BY <1>1 DEF ChangelogInv, Fetched
  <2>3. \A y \in toInclude' : y.issue \in Wanted
    BY <1>2, <2>2 DEF IncludedFetched
  <2>6. \A r \in Wanted : r \in Tickets \/ \E y \in toInclude' : y.issue = r
    BY <1>2, <2>2 DEF IncludedFetched
  <2>4. ASSUME NEW i \in DOMAIN included' PROVE \E r \in Wanted \cap Tickets : i \in ever[r]
    <3>1. CASE i \in links[x.issue]
      <4>1. i \in ever[x.issue] /\ x.issue \in Wanted \cap Tickets
        BY <1>3, <2>2, <3>1 DEF ChangelogInv, LinksKnown, IncludedFetched
      <4> QED
        BY <4>1
    <3> QED
      BY <1>4, <2>2, <3>1 DEF IncludedFetched
  <2>5. ASSUME NEW r \in Wanted, NEW i \in always[r]
        PROVE  i \in DOMAIN included' \/ \E y \in toInclude' : y.issue = r
    <3>1. CASE i \in DOMAIN included
      BY <1>4, <3>1
    <3>2. CASE \E y \in toInclude : y.issue = r
      <4>1. PICK y \in toInclude : y.issue = r
        BY <3>2
      <4>2. CASE y = x
        <5>1. i \in links[x.issue]
          BY <1>3, <4>1, <4>2 DEF ChangelogInv, LinksKnown
        <5> QED
          BY <1>4, <5>1
      <4>3. CASE y # x
        BY <1>2, <4>1, <4>3
      <4> QED
        BY <4>2, <4>3
    <3> QED
      BY <2>2, <3>1, <3>2 DEF IncludedFetched
  <2> QED
    BY <2>1, <2>3, <2>4, <2>5, <2>6 DEF IncludedFetched
<1>9. ExcludedFetched'
  BY <1>1 DEF ChangelogInv, Fetched, ExcludedFetched, gitlab
<1> QED
  BY <1>5, <1>6, <1>7, <1>8, <1>9 DEF ChangelogInv, Fetched

LEMMA ExcludeLinkedInv ==
    ASSUME ChangelogInv, ExcludeLinked
    PROVE  ChangelogInv'
<1>1. /\ pc = "exclude" /\ pc' = pc /\ args' = args /\ builder' = builder /\ toInclude' = toInclude
      /\ included' = included /\ text' = text /\ UNCHANGED gitlab
  BY DEF ExcludeLinked
<1>2. PICK r \in toExclude \cap Tickets : excluded' = excluded \cup links[r] /\ toExclude' = toExclude \ {r}
  BY DEF ExcludeLinked
<1>3. r \in Tickets /\ links[r] \subseteq Issues
  BY <1>2 DEF ChangelogInv, ChangelogTypeOK
<1>4. ChangelogTypeOK'
  <2>1. /\ labels' \in [Issues -> LabelSets] /\ opened' \subseteq Relpreps
        /\ {links', always', ever'} \subseteq [Tickets -> SUBSET Issues] /\ moves' \in 0 .. MaxMoves
        /\ args' \in Asked \cup {NoArgs} /\ builder'.issue \in Tickets \cup {0}
        /\ DOMAIN text' = Sections /\ \A i \in DOMAIN included' : included'[i] \in LabelSets
    BY <1>1 DEF ChangelogInv, ChangelogTypeOK, gitlab
  <2>2. /\ {x.issue : x \in toInclude'} \subseteq args'.include \cup {builder'.issue}
        /\ toExclude' \subseteq args'.exclude
        /\ DOMAIN included' \cup excluded' \subseteq Issues
    BY <1>1, <1>2, <1>3 DEF ChangelogInv, ChangelogTypeOK
  <2> QED
    BY <1>1, <2>1, <2>2 DEF ChangelogTypeOK
<1>5. LinksKnown'
  BY <1>1 DEF ChangelogInv, LinksKnown, gitlab
<1>6. Stages'
  BY <1>1 DEF ChangelogInv, Stages
<1>7. IncludedFetched'
  BY <1>1 DEF ChangelogInv, Fetched, IncludedFetched, Wanted, gitlab
<1>8. ExcludedFetched'
  <2>1. ExcludedFetched
    BY <1>1 DEF ChangelogInv, Fetched
  <2>2. toExclude' \subseteq args.exclude
    BY <1>2, <2>1 DEF ExcludedFetched
  <2>5. args.exclude \subseteq Tickets \cup toExclude'
    BY <1>2, <2>1 DEF ExcludedFetched
  <2>3. ASSUME NEW i \in excluded' PROVE \E s \in args.exclude \cap Tickets : i \in ever[s]
    <3>1. CASE i \in links[r]
      <4>1. i \in ever[r] /\ r \in args.exclude \cap Tickets
        BY <1>3, <2>1, <3>1 DEF ChangelogInv, LinksKnown, ExcludedFetched
      <4> QED
        BY <4>1
    <3> QED
      BY <1>2, <2>1, <3>1 DEF ExcludedFetched
  <2>4. ASSUME NEW s \in args.exclude, NEW i \in always[s]
        PROVE  i \in excluded' \/ s \in toExclude'
    <3>1. i \in excluded \/ s \in toExclude
      BY <2>1 DEF ExcludedFetched
    <3>2. s = r => i \in links[r]
      BY <1>3 DEF ChangelogInv, LinksKnown
    <3> QED
      BY <1>2, <3>1, <3>2
  <2> QED
    BY <1>1, <2>2, <2>3, <2>4, <2>5 DEF ExcludedFetched, gitlab
<1> QED
  BY <1>4, <1>5, <1>6, <1>7, <1>8 DEF ChangelogInv, Fetched

LEMMA RequestFailsInv ==
    ASSUME ChangelogInv, RequestFails
    PROVE  ChangelogInv'
<1>1. /\ pc \in {"find", "include", "exclude"} /\ pc' = "raised"
      /\ UNCHANGED <<gitlab, args, builder, toInclude, toExclude, included, excluded, text>>
  BY DEF RequestFails
<1>2. ChangelogTypeOK'
  BY <1>1 DEF ChangelogInv, ChangelogTypeOK, gitlab
<1>3. LinksKnown'
  BY <1>1 DEF ChangelogInv, LinksKnown, gitlab
<1>4. Stages' /\ Fetched'
  BY <1>1 DEF ChangelogInv, Stages, Fetched
<1> QED
  BY <1>2, <1>3, <1>4 DEF ChangelogInv

LEMMA CreateInv ==
    ASSUME ChangelogInv, Create
    PROVE  ChangelogInv'
<1>1. /\ pc = "exclude" /\ toExclude = {} /\ toInclude = {}
      /\ UNCHANGED <<gitlab, args, builder, toInclude, toExclude, included, excluded>>
  BY DEF ChangelogInv, Stages, Create
<1>2. \/ pc' = "raised" /\ text' = text
      \/ pc' = "done" /\ text' = Text(Entries, builder.mb) /\ ~CannotSort(Entries)
  BY DEF Create
<1>3. Entries' = Entries
  BY <1>1 DEF Entries
<1>4. ChangelogTypeOK'
  <2>1. DOMAIN text' = Sections
    BY <1>2 DEF ChangelogInv, ChangelogTypeOK, Text, Sections
  <2> QED
    BY <1>1, <1>2, <2>1 DEF ChangelogInv, ChangelogTypeOK, gitlab
<1>5. LinksKnown'
  BY <1>1 DEF ChangelogInv, LinksKnown, gitlab
<1>6. Stages'
  BY <1>1, <1>2, <1>3 DEF ChangelogInv, Stages
<1>7. Fetched'
  BY <1>1, <1>2 DEF ChangelogInv, Fetched, IncludedFetched, ExcludedFetched, Wanted, gitlab
<1> QED
  BY <1>4, <1>5, <1>6, <1>7 DEF ChangelogInv

\* What GitLab changes without a link.
LEMMA LinksUnchanged ==
    ASSUME ChangelogInv, UNCHANGED <<process, links, always, ever>>
    PROVE  LinksKnown' /\ Stages' /\ Fetched'
<1>1. LinksKnown'
  BY DEF ChangelogInv, LinksKnown
<1>2. UNCHANGED <<pc, args, builder, toInclude, toExclude, included, excluded, text>>
  BY DEF process
<1>3. Entries' = Entries
  BY <1>2 DEF Entries
<1>4. Stages'
  BY <1>2, <1>3 DEF ChangelogInv, Stages
<1>5. Fetched'
  BY <1>2 DEF ChangelogInv, Fetched, IncludedFetched, ExcludedFetched, Wanted
<1> QED
  BY <1>1, <1>4, <1>5

LEMMA RelabelInv ==
    ASSUME ChangelogInv, Relabel
    PROVE  ChangelogInv'
<1>1. labels' \in [Issues -> LabelSets]
  BY DEF ChangelogInv, ChangelogTypeOK, Relabel
<1>2. moves' \in 0 .. MaxMoves
  BY MovesAssumption DEF ChangelogInv, ChangelogTypeOK, Relabel
<1>3. UNCHANGED <<process, links, opened, always, ever>>
  BY DEF Relabel
<1>4. ChangelogTypeOK'
  BY <1>1, <1>2, <1>3 DEF ChangelogInv, ChangelogTypeOK, process
<1> QED
  BY <1>3, <1>4, LinksUnchanged DEF ChangelogInv

LEMMA CloseInv ==
    ASSUME ChangelogInv, Close
    PROVE  ChangelogInv'
<1>1. opened' \subseteq Relpreps
  BY DEF ChangelogInv, ChangelogTypeOK, Close
<1>2. moves' \in 0 .. MaxMoves
  BY MovesAssumption DEF ChangelogInv, ChangelogTypeOK, Close
<1>3. UNCHANGED <<process, labels, links, always, ever>>
  BY DEF Close
<1>4. ChangelogTypeOK'
  BY <1>1, <1>2, <1>3 DEF ChangelogInv, ChangelogTypeOK, process
<1> QED
  BY <1>3, <1>4, LinksUnchanged DEF ChangelogInv

\* A link that comes or goes: always only shrinks, ever only grows.
LEMMA RelinkInv ==
    ASSUME ChangelogInv, Relink
    PROVE  ChangelogInv'
<1>1. PICK i \in Issues, R \in SUBSET Tickets :
        links' = [r \in Tickets |-> IF r \in R THEN links[r] \cup {i} ELSE links[r] \ {i}]
  BY DEF Relink
<1>2. /\ always' = [r \in Tickets |-> always[r] \cap links'[r]]
      /\ ever' = [r \in Tickets |-> ever[r] \cup links'[r]]
      /\ UNCHANGED <<process, labels, opened>>
  BY DEF Relink
<1>3. moves' \in 0 .. MaxMoves
  BY MovesAssumption DEF ChangelogInv, ChangelogTypeOK, Relink
<1>4. links' \in [Tickets -> SUBSET Issues]
  BY <1>1 DEF ChangelogInv, ChangelogTypeOK
<1>5. always' \in [Tickets -> SUBSET Issues] /\ ever' \in [Tickets -> SUBSET Issues]
  BY <1>2, <1>4 DEF ChangelogInv, ChangelogTypeOK
<1>6. ChangelogTypeOK'
  BY <1>2, <1>3, <1>4, <1>5 DEF ChangelogInv, ChangelogTypeOK, process
<1>7. LinksKnown'
  BY <1>2 DEF LinksKnown
<1>8. \A r \in Tickets : always'[r] \subseteq always[r] /\ ever[r] \subseteq ever'[r]
  BY <1>2
<1>9. UNCHANGED <<pc, args, builder, toInclude, toExclude, included, excluded, text>>
  BY <1>2 DEF process
<1>10. Entries' = Entries
  BY <1>9 DEF Entries
<1>11. Stages'
  BY <1>9, <1>10 DEF ChangelogInv, Stages
<1>12. ASSUME pc \in {"include", "exclude", "done"}
       PROVE  IncludedFetched' /\ ExcludedFetched'
  <2>2. IncludedFetched /\ ExcludedFetched
    BY <1>12 DEF ChangelogInv, Fetched
  <2>3. Wanted' = Wanted
    BY <1>9 DEF Wanted
  <2>4. IncludedFetched'
    <3>1. ASSUME NEW j \in DOMAIN included PROVE \E r \in Wanted \cap Tickets : j \in ever'[r]
      <4>1. PICK r \in Wanted \cap Tickets : j \in ever[r]
        BY <2>2 DEF IncludedFetched
      <4> QED
        BY <1>8, <4>1
    <3> QED
      BY <1>8, <1>9, <2>2, <2>3, <3>1 DEF IncludedFetched
  <2>5. ExcludedFetched'
    BY <1>8, <1>9, <2>2 DEF ExcludedFetched
  <2> QED
    BY <2>4, <2>5
<1> QED
  BY <1>6, <1>7, <1>9, <1>11, <1>12 DEF ChangelogInv, Fetched

LEMMA ChangelogNextInv ==
    ASSUME ChangelogInv, [ChangelogNext]_changelogVars
    PROVE  ChangelogInv'
<1>1. CASE ChangelogNext
  BY <1>1, StartInv, FindIssueInv, IncludeLinkedInv, ExcludeLinkedInv, RequestFailsInv, CreateInv,
     RelabelInv, RelinkInv, CloseInv DEF ChangelogNext
<1>2. CASE UNCHANGED changelogVars
  <2>1. UNCHANGED <<process, links, always, ever>> /\ UNCHANGED <<labels, opened, moves>>
    BY <1>2 DEF changelogVars, gitlab
  <2>2. ChangelogTypeOK'
    BY <2>1 DEF ChangelogInv, ChangelogTypeOK, process
  <2> QED
    BY <2>1, <2>2, LinksUnchanged DEF ChangelogInv
<1> QED
  BY <1>1, <1>2

THEOREM ChangelogInductive == ChangelogSpec => []ChangelogInv
BY ChangelogInitInv, ChangelogNextInv, PTL DEF ChangelogSpec

\* The script keeps to its types, and asks only for the links of relpreps.
THEOREM ChangelogTypeCorrect == ChangelogSpec => []ChangelogTypeOK
<1>1. ChangelogInv => ChangelogTypeOK
  BY DEF ChangelogInv
<1> QED
  BY <1>1, ChangelogInductive, PTL

\* A changelog is read correctly whatever the labels, the projects and the updates: each
\* entry is under the heading of its platforms, a heading is in a section once, but for
\* that of Go, and Mullvad Browser's are those it is made for.
THEOREM Headings == ChangelogSpec => []GroupedByPlatforms
<1>1. ASSUME ChangelogInv PROVE GroupedByPlatforms
  <2>1. CASE pc = "done"
    <3>1. /\ builder.mb \in BOOLEAN /\ DOMAIN included \subseteq Issues
          /\ ~CannotSort(Entries) /\ text = Text(Entries, builder.mb)
      BY <1>1, <2>1 DEF ChangelogInv, Stages, ChangelogTypeOK
    <3> QED
      BY <3>1, Grouped
  <2>2. CASE pc # "done"
    BY <1>1, <2>2, NoTextGrouped DEF ChangelogInv, Stages
  <2> QED
    BY <2>1, <2>2
<1>2. ChangelogInv => GroupedByPlatforms
  BY <1>1
<1> QED
  BY <1>2, ChangelogInductive, PTL

-----------------------------------------------------------------------------
(* The issues that are listed.                                             *)

\* An entry with the project and number of an issue is the issue's.
LEMMA EntryOfIssue ==
    ASSUME builder.mb \in BOOLEAN, DOMAIN included \subseteq Issues, NEW i \in Issues,
           NEW e \in Entries, e.project = i.project, e.number = i.number
    PROVE  i \in DOMAIN included \ excluded /\ e = IssueEntry(i, included[i], builder.mb)
<1>1. i.number # 0
  BY IssuesAssumption
<1>2. e.type # "update"
  BY <1>1, EntryFacts
<1>3. ~\E k \in DOMAIN UpdateNames(builder.mb) : e = UpdateEntry(UpdateNames(builder.mb)[k], builder.mb)
  <2>1. ASSUME NEW k \in DOMAIN UpdateNames(builder.mb),
               e = UpdateEntry(UpdateNames(builder.mb)[k], builder.mb)
        PROVE  e.type = "update"
    BY <2>1, UpdateFacts
  <2> QED
    BY <1>2, <2>1
<1>4. PICK j \in DOMAIN included \ excluded : e = IssueEntry(j, included[j], builder.mb)
  BY <1>3, EntryIs
<1>5. e.project = j.project /\ e.number = j.number
  BY <1>4 DEF IssueEntry
<1>6. j = i
  <2>1. j.project = i.project /\ j.number = i.number
    BY <1>5
  <2>2. j \in [project : STRING, number : Nat \ {0}] /\ i \in [project : STRING, number : Nat \ {0}]
    BY IssuesAssumption
  <2> QED
    BY <2>1, <2>2
<1> QED
  BY <1>4, <1>6

LEMMA NotListed ==
    ASSUME builder.mb \in BOOLEAN, DOMAIN included \subseteq Issues, ~CannotSort(Entries),
           text = Text(Entries, builder.mb), NEW c \in Sections,
           NEW i \in Issues, i \notin DOMAIN included \ excluded
    PROVE  Places(c, i) = {}
<1> SUFFICES ASSUME NEW k \in Places(c, i) PROVE FALSE
  OBVIOUS
<1>1. /\ k \in DOMAIN text[c] /\ text[c][k].entry.project = i.project
      /\ text[c][k].entry.number = i.number
  BY DEF Places
<1>2. text[c][k].entry \in Entries
  BY <1>1, TextFacts DEF SectionOf
<1> QED
  BY <1>1, <1>2, EntryOfIssue

LEMMA ListedOnce ==
    ASSUME builder.mb \in BOOLEAN, DOMAIN included \subseteq Issues, ~CannotSort(Entries),
           text = Text(Entries, builder.mb), NEW c \in Sections,
           NEW i \in DOMAIN included \ excluded
    PROVE  IF IssueEntry(i, included[i], builder.mb).build = (c = "build")
           THEN \E k : Places(c, i) = {k} ELSE Places(c, i) = {}
<1>1. PICK e : e = IssueEntry(i, included[i], builder.mb)
  OBVIOUS
<1>2. i \in Issues /\ e \in Entries /\ e.project = i.project /\ e.number = i.number
  BY <1>1 DEF Entries, IssueEntry
<1>3. PICK n \in Nat : n = Cardinality(SectionOf(c)) /\ DOMAIN text[c] = 1 .. n
  BY TextFacts
<1>4. ASSUME NEW k \in Places(c, i)
      PROVE  k \in 1 .. n /\ text[c][k].entry = e /\ e \in SectionOf(c)
  <2>1. /\ k \in 1 .. n /\ text[c][k].entry.project = i.project
        /\ text[c][k].entry.number = i.number
    BY <1>3 DEF Places
  <2>2. text[c][k].entry \in SectionOf(c)
    BY <1>3, <2>1, TextFacts
  <2>3. text[c][k].entry \in Entries
    BY <2>2 DEF SectionOf
  <2>4. text[c][k].entry = e
    BY <1>1, <1>2, <2>1, <2>3, EntryOfIssue
  <2> QED
    BY <2>1, <2>2, <2>4
<1>5. CASE e.build = (c = "build")
  <2>1. e \in SectionOf(c)
    BY <1>2, <1>5 DEF SectionOf
  <2>2. PICK k \in 1 .. n : text[c][k].entry = e
    BY <1>3, <2>1, TextFacts
  <2>3. k \in Places(c, i)
    BY <1>2, <1>3, <2>2 DEF Places
  <2>4. ~Before(e, e, builder.mb)
    <3>1. Sortable(SectionOf(c), builder.mb)
      BY EntriesSortable DEF SectionOf
    <3> QED
      BY <2>1, <3>1, EntriesOrdered DEF StrictOrder
  <2>5. ASSUME NEW l \in Places(c, i) PROVE l = k
    <3>1. l \in 1 .. n /\ text[c][l].entry = e
      BY <1>4
    <3>2. k < l => Before(text[c][k].entry, text[c][l].entry, builder.mb)
      BY <1>3, <3>1, TextFacts
    <3>3. l < k => Before(text[c][l].entry, text[c][k].entry, builder.mb)
      BY <1>3, <3>1, TextFacts
    <3>4. ~(k < l) /\ ~(l < k)
      BY <2>2, <2>4, <3>1, <3>2, <3>3
    <3> QED
      BY <3>1, <3>4
  <2>6. Places(c, i) = {k}
    BY <2>3, <2>5
  <2> QED
    BY <1>1, <1>5, <2>6
<1>6. CASE e.build # (c = "build")
  <2>1. Places(c, i) = {}
    BY <1>4, <1>6 DEF SectionOf
  <2> QED
    BY <1>1, <1>6, <2>1
<1> QED
  BY <1>5, <1>6

LEMMA TimesIs ==
    ASSUME builder.mb \in BOOLEAN, DOMAIN included \subseteq Issues, ~CannotSort(Entries),
           text = Text(Entries, builder.mb), NEW i \in Issues
    PROVE  Times(i) = IF i \in DOMAIN included \ excluded THEN 1 ELSE 0
<1>1. Cardinality({}) = 0 /\ \A k : Cardinality({k}) = 1
  BY FS_EmptySet, FS_Singleton
<1>2. "all" \in Sections /\ "build" \in Sections
  BY DEF Sections
<1>3. CASE i \in DOMAIN included \ excluded
  <2>1. PICK e : e = IssueEntry(i, included[i], builder.mb)
    OBVIOUS
  <2>2. e.build \in BOOLEAN
    <3>1. e \in Entries
      BY <1>3, <2>1 DEF Entries
    <3> QED
      BY <3>1, EntryFacts
  <2>3. CASE e.build
    <3>1. (\E k : Places("build", i) = {k}) /\ Places("all", i) = {}
      <4>1. e.build = ("build" = "build") /\ e.build # ("all" = "build")
        BY <2>2, <2>3
      <4> QED
        BY <1>2, <1>3, <2>1, <4>1, ListedOnce
    <3>2. Cardinality(Places("build", i)) = 1 /\ Cardinality(Places("all", i)) = 0
      BY <1>1, <3>1
    <3> QED
      BY <1>3, <3>2 DEF Times
  <2>4. CASE ~e.build
    <3>1. (\E k : Places("all", i) = {k}) /\ Places("build", i) = {}
      <4>1. e.build # ("build" = "build") /\ e.build = ("all" = "build")
        BY <2>2, <2>4
      <4> QED
        BY <1>2, <1>3, <2>1, <4>1, ListedOnce
    <3>2. Cardinality(Places("all", i)) = 1 /\ Cardinality(Places("build", i)) = 0
      BY <1>1, <3>1
    <3> QED
      BY <1>3, <3>2 DEF Times
  <2> QED
    BY <2>3, <2>4
<1>4. CASE i \notin DOMAIN included \ excluded
  <2>1. Places("all", i) = {} /\ Places("build", i) = {}
    BY <1>2, <1>4, NotListed
  <2>2. Cardinality(Places("all", i)) = 0 /\ Cardinality(Places("build", i)) = 0
    BY <1>1, <2>1
  <2> QED
    BY <1>4, <2>2 DEF Times
<1> QED
  BY <1>3, <1>4

\* An issue is in the changelog once if it was linked all the time to a relprep that was
\* asked for and never to one that was not to be included; and it is not in it if it was
\* linked to none that was asked for, ever, or to one that was not to be included all
\* the time, whatever is linked and labelled anew between the requests.
THEOREM Linked == ChangelogSpec => []LinkedAreListed
<1>1. ASSUME ChangelogInv PROVE LinkedAreListed
  <2> SUFFICES ASSUME pc = "done", NEW i \in Issues
               PROVE  /\ (\E r \in Wanted : i \in always[r]) /\ ~(\E r \in args.exclude : i \in ever[r])
                            => Times(i) = 1
                      /\ ~(\E r \in Wanted : i \in ever[r]) \/ (\E r \in args.exclude : i \in always[r])
                            => Times(i) = 0
    BY DEF LinkedAreListed, Wanted
  <2>1. Times(i) = IF i \in DOMAIN included \ excluded THEN 1 ELSE 0
    <3>1. /\ builder.mb \in BOOLEAN /\ DOMAIN included \subseteq Issues
          /\ ~CannotSort(Entries) /\ text = Text(Entries, builder.mb)
      BY <1>1 DEF ChangelogInv, Stages, ChangelogTypeOK
    <3> QED
      BY <3>1, TimesIs
  <2>2. toInclude = {} /\ toExclude = {} /\ IncludedFetched /\ ExcludedFetched
    BY <1>1 DEF ChangelogInv, Stages, Fetched
  <2>3. /\ (\E r \in Wanted : i \in always[r]) => i \in DOMAIN included
        /\ i \in DOMAIN included => \E r \in Wanted : i \in ever[r]
    BY <2>2 DEF IncludedFetched
  <2>4. /\ (\E r \in args.exclude : i \in always[r]) => i \in excluded
        /\ i \in excluded => \E r \in args.exclude : i \in ever[r]
    BY <2>2 DEF ExcludedFetched
  <2> QED
    BY <2>1, <2>3, <2>4
<1>2. ChangelogInv => LinkedAreListed
  BY <1>1
<1> QED
  BY <1>2, ChangelogInductive, PTL

\* The relprep is that of the version asked for, and of the browser, although GitLab also
\* finds those of longer versions: with two of them the script stops.
THEOREM RelprepFound == ChangelogSpec => RelprepIsOfTheVersion
<1> DEFINE OfTheVersion ==
             /\ IsConsistent(args, builder'.issue)
             /\ args.version # "" =>
                  \/ TitleOf[builder'.issue] = args.version
                  \/ ~\E r \in opened : TitleOf[r] = args.version /\ IsConsistent(args, r)
<1>1. ASSUME ChangelogInv, ChangelogNext, pc = "find", pc' = "include"
      PROVE  OfTheVersion
  <2>1. FindIssue
    BY <1>1 DEF ChangelogNext, Start, IncludeLinked, ExcludeLinked, RequestFails, Create,
                Relabel, Relink, Close, process
  <2>2. args.version \in Versions \cup {""}
    BY <1>1, AskedAssumption DEF ChangelogInv, Stages
  <2>3. PICK r \in Found(args) : IsConsistent(args, r) /\ \E version : Builds(args, r, version)
    BY <1>1, <2>1 DEF FindIssue, Raise
  <2>4. builder'.issue = r
    BY <2>3 DEF Builds
  <2>5. ASSUME args.version # "",
               NEW s \in opened, TitleOf[s] = args.version, IsConsistent(args, s)
        PROVE  TitleOf[r] = args.version
    <3>1. s \in Relpreps /\ args.version \in Versions
      BY <1>1, <2>2, <2>5 DEF ChangelogInv, ChangelogTypeOK
    <3>2. s \in FoundBy(args)
      BY <2>5, <3>1, VersionsAssumption DEF FoundBy
    <3>3. FoundBy(args) = {r}
      BY <2>3, <2>5, <3>2 DEF Found, ByNumber
    <3> QED
      BY <2>5, <3>2, <3>3
  <2> QED
    BY <2>3, <2>4, <2>5
<1>2. ChangelogInv /\ [ChangelogNext]_changelogVars
        => [pc = "find" /\ pc' = "include" => OfTheVersion]_changelogVars
  BY <1>1
<1> QED
  BY <1>2, ChangelogInductive, PTL DEF ChangelogSpec, RelprepIsOfTheVersion

-----------------------------------------------------------------------------
(* The manual.                                                             *)

\* A file there is, on the server or in a clone, has been counted.
FilesAreCounted ==
    /\ \A p \in Pipelines : server[p] # Nothing => server[p] \in variants[p]
    /\ \A d \in Devs, p \in Pipelines : local[d][p] # Nothing => local[d][p] \in variants[p]

\* A run that is about to write has hashed its file, and has found it on the server or
\* will ask for its upload.
RunOK(d) ==
    /\ run[d].pc = "config" => run[d].hash = local[d][run[d].job]
    /\ run[d].pc \in {"download", "config"} /\ ~run[d].needsUpload
          => server[run[d].job] # Nothing

\* What is to be uploaded is there.
AskedAreThere == \A d \in Devs : \A p \in asked[d] : local[d][p] # Nothing

\* A pinned version's hash is of a file that has had its name, and the file is on the
\* server, or is to be uploaded before the pin is merged.
ConfigOK(d) ==
    /\ config[d].hash \in variants[config[d].version]
    /\ server[config[d].version] # Nothing \/ config[d].version \in asked[d]

MainOK ==
    /\ main.hash \in variants[main.version]
    /\ server[main.version] # Nothing

IInv ==
    /\ TypeOK /\ FilesAreCounted /\ AskedAreThere /\ MainOK
    /\ \A d \in Devs : RunOK(d) /\ ConfigOK(d)

USE BoundsAssumption

LEMMA InitIInv == Init => IInv
<1> SUFFICES ASSUME Init PROVE IInv
  OBVIOUS
<1>1. TypeOK
  BY DEF Init, TypeOK, Pipelines, Contents, Cut, Nothing, Idle, Run, Runs
<1>2. FilesAreCounted /\ AskedAreThere /\ MainOK
  BY DEF Init, FilesAreCounted, AskedAreThere, MainOK, Pipelines, Nothing
<1>3. ASSUME NEW d \in Devs PROVE RunOK(d) /\ ConfigOK(d)
  <2>1. run[d].pc = "idle" /\ config[d] = [version |-> 1, hash |-> 1] /\ 1 \in Pipelines
    BY DEF Init, Idle, Run, Pipelines
  <2>2. server[1] = 1 /\ variants[1] = {1}
    BY <2>1 DEF Init
  <2> QED
    BY <2>1, <2>2 DEF RunOK, ConfigOK, Nothing
<1> QED
  BY <1>1, <1>2, <1>3 DEF IInv

LEMMA IdleFacts ==
    ASSUME TypeOK
    PROVE  Idle \in Runs /\ Idle.pc = "idle"
  BY DEF TypeOK, Idle, Run, Runs, Pipelines

\* A run that takes a step in which no file and no pin changes.
LEMMA RunStep ==
    ASSUME IInv, NEW d \in Devs, NEW r \in Runs, run' = [run EXCEPT ![d] = r],
           r.pc # "idle" => r.job \in Pipelines,
           r.pc = "config" => r.hash # Nothing /\ r.hash = local[d][r.job],
           r.pc \in {"download", "config"} /\ ~r.needsUpload => server[r.job] # Nothing,
           UNCHANGED <<found, passed, server, local, config, main, asked, variants>>,
           failures' \in 0 .. MaxFailures
    PROVE  IInv'
<1>1. TypeOK'
  BY DEF IInv, TypeOK, Runs
<1>2. FilesAreCounted' /\ AskedAreThere' /\ MainOK'
  BY DEF IInv, FilesAreCounted, AskedAreThere, MainOK
<1>3. ASSUME NEW e \in Devs PROVE RunOK(e)' /\ ConfigOK(e)'
  BY DEF IInv, RunOK, ConfigOK, TypeOK
<1> QED
  BY <1>1, <1>2, <1>3 DEF IInv

LEMMA FindJobKeeps ==
    ASSUME IInv, NEW d \in Devs, FindJob(d)
    PROVE  IInv'
<1> DEFINE r == Run("head", FoundJob, FALSE, Nothing)
<1>1. r \in Runs /\ r.pc = "head" /\ r.job \in Pipelines
  BY DEF IInv, TypeOK, Run, Runs, FoundJob, Pipelines
<1>2. run' = [run EXCEPT ![d] = r]
  BY DEF FindJob, Set
<1> QED
  BY <1>1, <1>2, RunStep DEF FindJob, files, IInv, TypeOK

LEMMA HeadKeeps ==
    ASSUME IInv, NEW d \in Devs, HeadRequest(d)
    PROVE  IInv'
<1> DEFINE hash == local[d][run[d].job]
           r == Run(IF hash = Nothing THEN "download" ELSE "config",
                    run[d].job, NeedsUpload(d), hash)
<1>1. run[d] \in Runs /\ run[d].job \in Pipelines
  BY DEF IInv, TypeOK, Runs, Pipelines
<1>2. hash \in Contents \cup {Nothing}
  BY <1>1 DEF IInv, TypeOK
<1>3. r \in Runs /\ r.job = run[d].job /\ r.hash = hash /\ r.needsUpload = NeedsUpload(d)
      /\ r.pc = IF hash = Nothing THEN "download" ELSE "config"
  BY <1>1, <1>2 DEF Run, Runs, NeedsUpload
<1>4. run' = [run EXCEPT ![d] = r]
  BY DEF HeadRequest, Set, FileOf
<1>5. r.pc \in {"download", "config"} /\ ~r.needsUpload => server[r.job] # Nothing
  BY <1>3 DEF NeedsUpload
<1>6. r.pc = "config" => r.hash # Nothing /\ r.hash = local[d][r.job]
  BY <1>3
<1>7. /\ UNCHANGED <<found, passed, server, local, config, main, asked, variants>>
      /\ failures' \in 0 .. MaxFailures /\ r.job \in Pipelines
  BY <1>1, <1>3 DEF HeadRequest, files, IInv, TypeOK
<1> HIDE DEF r
<1> QED
  BY <1>3, <1>4, <1>5, <1>6, <1>7, RunStep

\* The file of the run's job gets a content, and no other.
LEMMA SavedFile ==
    ASSUME IInv, NEW d \in Devs, NEW c \in Contents, run[d] # Idle, Saved(d, c),
           NEW r \in Runs, run' = [run EXCEPT ![d] = r],
           \/ r.pc = "idle"
           \/ r.pc = "config" /\ r.job = run[d].job /\ r.hash = c
              /\ (~r.needsUpload => server[r.job] # Nothing),
           UNCHANGED <<found, passed, server, config, main, asked>>,
           failures' \in 0 .. MaxFailures
    PROVE  IInv'
<1> DEFINE p == run[d].job
<1>1. p \in Pipelines /\ c # Nothing
  BY DEF IInv, TypeOK, Runs, Pipelines, Contents, Cut, Nothing
<1>2. /\ local' \in [Devs -> [Pipelines -> Contents \cup {Nothing}]]
      /\ local'[d][p] = c
      /\ \A e \in Devs, q \in Pipelines : e # d \/ q # p => local'[e][q] = local[e][q]
  BY <1>1 DEF IInv, TypeOK, Saved
<1>3. /\ variants' \in [Pipelines -> SUBSET Contents]
      /\ c \in variants'[p]
      /\ \A q \in Pipelines : variants[q] \subseteq variants'[q]
  BY <1>1 DEF IInv, TypeOK, Saved
<1>4. TypeOK'
  BY <1>2, <1>3, <1>1 DEF IInv, TypeOK, Runs
<1>5. FilesAreCounted' /\ AskedAreThere' /\ MainOK'
  <2>1. FilesAreCounted'
    BY <1>1, <1>2, <1>3 DEF IInv, FilesAreCounted
  <2>2. AskedAreThere'
    <3>1. ASSUME NEW e \in Devs, NEW q \in asked[e] PROVE local'[e][q] # Nothing
      <4>1. q \in Pipelines /\ local[e][q] # Nothing
        BY <3>1 DEF IInv, AskedAreThere, TypeOK
      <4> QED
        BY <1>1, <1>2, <4>1
    <3> QED
      BY <3>1 DEF AskedAreThere
  <2>3. main.version \in Pipelines
    BY DEF IInv, TypeOK, Pipelines
  <2>4. MainOK'
    BY <1>3, <2>3 DEF IInv, MainOK
  <2> QED
    BY <2>1, <2>2, <2>4
<1>6. ASSUME NEW e \in Devs PROVE RunOK(e)' /\ ConfigOK(e)'
  <2>1. RunOK(e)'
    BY <1>1, <1>2 DEF IInv, RunOK, TypeOK, Runs, Pipelines
  <2>2. ConfigOK(e)'
    BY <1>3 DEF IInv, ConfigOK, TypeOK, Pipelines
  <2> QED
    BY <2>1, <2>2
<1> QED
  BY <1>4, <1>5, <1>6 DEF IInv

LEMMA DownloadKeeps ==
    ASSUME IInv, NEW d \in Devs, Download(d)
    PROVE  IInv'
<1> DEFINE r == Run("config", run[d].job, run[d].needsUpload, Source(d))
<1>1. run[d] \in Runs /\ run[d].pc = "download" /\ run[d] # Idle
  BY DEF IInv, TypeOK, Download, Idle, Run
<1>2. run[d].needsUpload \/ server[run[d].job] # Nothing
  BY <1>1 DEF IInv, RunOK
<1>3. Source(d) \in Contents
  BY <1>1, <1>2 DEF Source, IInv, TypeOK, Contents, Pipelines, Runs
<1>4. /\ r \in Runs /\ r.pc = "config" /\ r.job = run[d].job /\ r.hash = Source(d)
      /\ r.needsUpload = run[d].needsUpload
  BY <1>1, <1>3 DEF Run, Runs
<1> QED
  BY <1>1, <1>2, <1>3, <1>4, SavedFile DEF Download, Set, IInv, TypeOK

LEMMA FailKeeps ==
    ASSUME IInv, NEW d \in Devs, Fail(d)
    PROVE  IInv'
<1>1. Idle \in Runs /\ Idle.pc = "idle" /\ run' = [run EXCEPT ![d] = Idle]
  BY IdleFacts DEF IInv, Fail, Set
<1>2. failures' \in 0 .. MaxFailures
  BY DEF IInv, TypeOK, Fail
<1>3. CASE UNCHANGED <<local, variants>>
  BY <1>1, <1>2, <1>3, RunStep DEF Fail
<1>4. CASE Saved(d, Cut)
  BY <1>1, <1>2, <1>4, SavedFile DEF Fail, Contents
<1> QED
  BY <1>3, <1>4 DEF Fail

LEMMA WriteConfigKeeps ==
    ASSUME IInv, NEW d \in Devs, WriteConfig(d)
    PROVE  IInv'
<1> DEFINE p == run[d].job
<1>1. /\ run[d] \in Runs /\ p \in Pipelines /\ run[d].pc = "config" /\ p \in 1 .. found
      /\ run[d].hash = local[d][p] /\ local[d][p] # Nothing /\ local[d][p] \in Contents
      /\ local[d][p] \in variants[p]
      /\ run[d].needsUpload \/ server[p] # Nothing
  BY DEF IInv, TypeOK, WriteConfig, RunOK, Runs, Pipelines, FilesAreCounted
<1>2. /\ Idle \in Runs /\ Idle.pc = "idle" /\ run' = [run EXCEPT ![d] = Idle]
      /\ UNCHANGED <<found, passed, server, local, main, failures, variants>>
  BY IdleFacts DEF IInv, WriteConfig, Set
<1>3. /\ asked' \in [Devs -> SUBSET Pipelines]
      /\ \A e \in Devs : asked[e] \subseteq asked'[e]
      /\ \A e \in Devs : e # d => asked'[e] = asked[e]
      /\ asked'[d] \subseteq asked[d] \cup {p}
      /\ run[d].needsUpload => p \in asked'[d]
  BY <1>1 DEF WriteConfig, IInv, TypeOK
<1>4. /\ config' = [config EXCEPT ![d] = UpdateConfig(d)]
      /\ UpdateConfig(d) \in [version : 1 .. found, hash : Contents]
  BY <1>1 DEF WriteConfig, Set, UpdateConfig, IInv, TypeOK
<1>5. TypeOK'
  BY <1>1, <1>2, <1>3, <1>4 DEF IInv, TypeOK, Runs
<1>6. FilesAreCounted' /\ AskedAreThere' /\ MainOK'
  BY <1>1, <1>2, <1>3 DEF IInv, FilesAreCounted, AskedAreThere, MainOK
<1>7. ASSUME NEW e \in Devs PROVE RunOK(e)' /\ ConfigOK(e)'
  <2>1. RunOK(e)'
    BY <1>2 DEF IInv, RunOK, TypeOK
  <2>2. ConfigOK(e)'
    BY <1>1, <1>2, <1>3, <1>4 DEF IInv, ConfigOK, TypeOK, UpdateConfig
  <2> QED
    BY <2>1, <2>2
<1> QED
  BY <1>5, <1>6, <1>7 DEF IInv

LEMMA UploadKeeps ==
    ASSUME IInv, NEW d \in Devs, Upload(d)
    PROVE  IInv'
<1>1. PICK p \in asked[d] :
        /\ server' = [server EXCEPT ![p] = local[d][p]]
        /\ asked' = [asked EXCEPT ![d] = @ \ {p}]
        /\ UNCHANGED <<found, passed, local, config, main, run, failures, variants>>
  BY DEF Upload, Set
<1>2. /\ p \in Pipelines /\ local[d][p] # Nothing
      /\ local[d][p] \in Contents /\ local[d][p] \in variants[p]
  BY DEF IInv, TypeOK, AskedAreThere, FilesAreCounted
<1>3. /\ server' \in [Pipelines -> Contents \cup {Nothing}]
      /\ \A q \in Pipelines : server'[q] = IF q = p THEN local[d][p] ELSE server[q]
  BY <1>1, <1>2 DEF IInv, TypeOK
<1>4. /\ asked' \in [Devs -> SUBSET Pipelines]
      /\ \A e \in Devs : asked[e] \ {p} \subseteq asked'[e] /\ asked'[e] \subseteq asked[e]
  BY <1>1 DEF IInv, TypeOK
<1>5. TypeOK'
  BY <1>1, <1>3, <1>4 DEF IInv, TypeOK, Runs
<1>6. FilesAreCounted' /\ AskedAreThere' /\ MainOK'
  <2>1. FilesAreCounted'
    BY <1>1, <1>2, <1>3 DEF IInv, FilesAreCounted
  <2>2. AskedAreThere'
    BY <1>1, <1>4 DEF IInv, AskedAreThere
  <2>3. MainOK'
    BY <1>1, <1>2, <1>3 DEF IInv, MainOK, TypeOK, Pipelines
  <2> QED
    BY <2>1, <2>2, <2>3
<1>7. ASSUME NEW e \in Devs PROVE RunOK(e)' /\ ConfigOK(e)'
  <2>1. RunOK(e)'
    BY <1>1, <1>2, <1>3 DEF IInv, RunOK, TypeOK, Runs, Pipelines
  <2>2. ConfigOK(e)'
    BY <1>1, <1>2, <1>3, <1>4 DEF IInv, ConfigOK, TypeOK, Pipelines
  <2> QED
    BY <2>1, <2>2
<1> QED
  BY <1>5, <1>6, <1>7 DEF IInv

LEMMA MergeKeeps ==
    ASSUME IInv, NEW d \in Devs, Merge(d)
    PROVE  IInv'
<1>1. /\ main' = config[d] /\ asked[d] = {}
      /\ UNCHANGED <<found, passed, server, local, config, asked, run, failures, variants>>
  BY DEF Merge
<1>2. TypeOK'
  BY <1>1 DEF IInv, TypeOK, Runs
<1>3. FilesAreCounted' /\ AskedAreThere'
  BY <1>1 DEF IInv, FilesAreCounted, AskedAreThere
<1>4. MainOK'
  BY <1>1 DEF IInv, ConfigOK, MainOK
<1>5. ASSUME NEW e \in Devs PROVE RunOK(e)' /\ ConfigOK(e)'
  BY <1>1 DEF IInv, RunOK, ConfigOK
<1> QED
  BY <1>2, <1>3, <1>4, <1>5 DEF IInv

LEMMA PullKeeps ==
    ASSUME IInv, NEW d \in Devs, Pull(d)
    PROVE  IInv'
<1>1. /\ config' = [config EXCEPT ![d] = main]
      /\ UNCHANGED <<found, passed, server, local, main, asked, run, failures, variants>>
  BY DEF Pull, Set
<1>2. TypeOK'
  BY <1>1 DEF IInv, TypeOK, Runs
<1>3. FilesAreCounted' /\ AskedAreThere' /\ MainOK'
  BY <1>1 DEF IInv, FilesAreCounted, AskedAreThere, MainOK
<1>4. ASSUME NEW e \in Devs PROVE RunOK(e)' /\ ConfigOK(e)'
  BY <1>1 DEF IInv, RunOK, ConfigOK, MainOK, TypeOK
<1> QED
  BY <1>2, <1>3, <1>4 DEF IInv

\* The website goes on, or nothing happens.
LEMMA WebsiteKeeps ==
    ASSUME IInv, JobEnds \/ PipelinePasses \/ UNCHANGED vars
    PROVE  IInv'
<1>1. UNCHANGED <<server, local, config, main, asked, run, failures, variants>>
  BY DEF JobEnds, PipelinePasses, vars, files
<1>2. found' \in Pipelines /\ passed' \in 1 .. found' /\ found <= found' /\ found \in Pipelines
  BY DEF JobEnds, PipelinePasses, vars, files, IInv, TypeOK, Pipelines
<1>3. 1 .. found \subseteq 1 .. found'
  BY <1>2 DEF Pipelines
<1>4. Runs \subseteq Runs'
  BY <1>3 DEF Runs
<1>5. TypeOK'
  BY <1>1, <1>2, <1>3, <1>4 DEF IInv, TypeOK
<1>6. FilesAreCounted' /\ AskedAreThere' /\ MainOK'
  BY <1>1 DEF IInv, FilesAreCounted, AskedAreThere, MainOK
<1>7. ASSUME NEW e \in Devs PROVE RunOK(e)' /\ ConfigOK(e)'
  BY <1>1 DEF IInv, RunOK, ConfigOK
<1> QED
  BY <1>5, <1>6, <1>7 DEF IInv

LEMMA NextIInv == IInv /\ [Next]_vars => IInv'
<1> SUFFICES ASSUME IInv, [Next]_vars PROVE IInv'
  OBVIOUS
<1>1. CASE JobEnds \/ PipelinePasses \/ UNCHANGED vars
  BY <1>1, WebsiteKeeps
<1>2. ASSUME NEW d \in Devs, Script(d) PROVE IInv'
  BY <1>2, FindJobKeeps, HeadKeeps, DownloadKeeps, WriteConfigKeeps DEF Script
<1>3. ASSUME NEW d \in Devs, Fail(d) \/ Upload(d) \/ Merge(d) \/ Pull(d) PROVE IInv'
  BY <1>3, FailKeeps, UploadKeeps, MergeKeeps, PullKeeps
<1> QED
  BY <1>1, <1>2, <1>3 DEF Next

THEOREM Invariance == Spec => []IInv
<1> QED
  BY InitIInv, NextIInv, PTL DEF Spec

\* The states of the developers, the website and the branch are of their types.
THEOREM TypeCorrect == Spec => []TypeOK
<1>1. IInv => TypeOK
  BY DEF IInv
<1> QED
  BY <1>1, Invariance, PTL

\* What is merged is the manual of the pipeline it names, however often the script is
\* run, killed and run again in any clones, unless a file of that name was another one.
THEOREM PinnedIsRight == Spec => []PinnedIsThePipelines
<1>1. IInv => PinnedIsThePipelines
  BY DEF IInv, MainOK, PinnedIsThePipelines
<1> QED
  BY <1>1, Invariance, PTL

\* What is merged can be fetched from the server, and if all files of that name have
\* been the same its hash is the one that is pinned.
THEOREM MainBuilds == Spec => []MainCanBeBuilt
<1>1. ASSUME IInv PROVE MainCanBeBuilt
  <2>1. main.version \in Pipelines
    BY <1>1 DEF IInv, TypeOK, Pipelines
  <2> QED
    BY <1>1, <2>1 DEF IInv, MainOK, FilesAreCounted, MainCanBeBuilt
<1> QED
  BY <1>1, Invariance, PTL
=============================================================================

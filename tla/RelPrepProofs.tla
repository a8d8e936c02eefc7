--------------------------- MODULE RelPrepProofs ---------------------------
(***************************************************************************)
(* Theorems about RelPrep, for any projects, histories, numbers of         *)
(* incrementals and bounds.  Tags are in the order of versions and builds, *)
(* because a build number is found from tags, nothing is merged with a     *)
(* lower one than what was merged before, and tags are of what is merged;  *)
(* a run keeps what it has found from the tags it knew, and from that      *)
(* follows what it writes.                                                 *)
(***************************************************************************)
EXTENDS RelPrep, FiniteSetTheorems, TLAPS

-----------------------------------------------------------------------------
(* Finite sets of indices, their greatest elements and how many there are.  *)

Indices == {I \in SUBSET Nat : IsFiniteSet(I)}

\* The elements after one of them.
Later(I, i) == {j \in I : j > i}

LEMMA IndicesBelow ==
    ASSUME NEW k \in Nat, NEW I, I \subseteq 1 .. k
    PROVE  I \in Indices
<1>1. IsFiniteSet(1 .. k)
  <2>1. 1 \in Int /\ k \in Int
    OBVIOUS
  <2> QED
    BY <2>1, FS_Interval
<1>2. IsFiniteSet(I)
  BY <1>1, FS_Subset
<1> QED
  BY <1>2 DEF Indices

LEMMA IndicesFacts ==
    ASSUME NEW I \in Indices
    PROVE  /\ IsFiniteSet(I) /\ Cardinality(I) \in Nat
           /\ \A i \in I : i \in Nat
           /\ \A J : J \subseteq I => J \in Indices
<1>1. IsFiniteSet(I) /\ \A i \in I : i \in Nat
  BY DEF Indices
<1>2. ASSUME NEW J, J \subseteq I PROVE J \in Indices
  <2>1. IsFiniteSet(J)
    BY <1>1, <1>2, FS_Subset
  <2> QED
    BY <1>1, <1>2, <2>1 DEF Indices
<1> QED
  BY <1>1, <1>2, FS_CardinalityType

LEMMA LaterFacts ==
    ASSUME NEW I \in Indices, NEW i \in I
    PROVE  /\ Later(I, i) \in Indices
           /\ Cardinality(Later(I, i)) \in Nat /\ Cardinality(Later(I, i)) < Cardinality(I)
<1>1. IsFiniteSet(I) /\ Cardinality(I) \in Nat /\ \A j \in I : j \in Nat
  BY IndicesFacts
<1>2. Later(I, i) \subseteq I /\ i \notin Later(I, i)
  BY <1>1 DEF Later
<1>3. Later(I, i) \in Indices
  BY <1>2, IndicesFacts
<1>4. Cardinality(Later(I, i)) \in Nat
  BY <1>3, IndicesFacts
<1>5. /\ Cardinality(Later(I, i)) <= Cardinality(I)
      /\ Cardinality(I) = Cardinality(Later(I, i)) => I = Later(I, i)
  BY <1>1, <1>2, FS_Subset
<1>6. I # Later(I, i)
  BY <1>2
<1> QED
  BY <1>1, <1>3, <1>4, <1>5, <1>6

LEMMA LaterDecreases ==
    ASSUME NEW I \in Indices, NEW i \in I, NEW j \in I, i < j
    PROVE  Cardinality(Later(I, j)) < Cardinality(Later(I, i))
<1>1. Later(I, i) \in Indices /\ \A l \in I : l \in Nat
  BY LaterFacts, IndicesFacts
<1>2. j \in Later(I, i)
  BY DEF Later
<1>3. Later(Later(I, i), j) = Later(I, j)
  BY <1>1 DEF Later
<1> QED
  BY <1>1, <1>2, <1>3, LaterFacts

\* A set of natural numbers that is not empty has a least element.
LEMMA LeastOf ==
    ASSUME NEW T, T \subseteq Nat, T # {}
    PROVE  \E x \in T : \A y \in T : x <= y
<1> DEFINE R == OpToRel(<, Nat)
<1>1. IsWellFoundedOn(R, Nat)
  BY NatLessThanWellFounded
<1> HIDE DEF R
<1>2. PICK x \in T : \A y \in T : ~ (<<y, x>> \in R)
  BY <1>1, WFMin
<1>3. \A y \in T : ~ (y < x)
  BY <1>2 DEF R, OpToRel
<1> QED
  BY <1>3

\* Max is the greatest element of a set of indices.
LEMMA MaxOf ==
    ASSUME NEW I \in Indices, I # {}
    PROVE  Max(I) \in I /\ \A j \in I : j <= Max(I)
<1> DEFINE T == {n \in Nat : \E i \in I : n = Cardinality(Later(I, i))}
<1>1. \A i \in I : Cardinality(Later(I, i)) \in T
  BY LaterFacts
<1>2. PICK x \in T : \A y \in T : x <= y
  <2>1. T # {} /\ T \subseteq Nat
    BY <1>1
  <2> HIDE DEF T
  <2> QED
    BY <2>1, LeastOf
<1>3. PICK i \in I : x = Cardinality(Later(I, i))
  BY <1>2
<1>4. \A j \in I : j \in Nat
  BY IndicesFacts
<1>5. ASSUME NEW j \in I PROVE i >= j
  <2>1. x <= Cardinality(Later(I, j)) /\ Cardinality(Later(I, j)) \in Nat
    BY <1>1, <1>2
  <2>2. ~ (i < j)
    BY <1>3, <2>1, LaterDecreases
  <2> QED
    BY <1>4, <2>2
<1>6. \E m \in I : \A j \in I : m >= j
  BY <1>5
<1>7. Max(I) \in I /\ \A j \in I : Max(I) >= j
  BY <1>6 DEF Max
<1> QED
  BY <1>4, <1>7

\* NewestOf takes as many as it is asked for, or all there are.
LEMMA NewestCount ==
    ASSUME NEW I \in Indices, NEW n \in Nat
    PROVE  /\ NewestOf(I, n) \subseteq I
           /\ Cardinality(NewestOf(I, n)) = IF n <= Cardinality(I) THEN n ELSE Cardinality(I)
<1> DEFINE c == Cardinality(I)
           m == IF n <= c THEN n ELSE c
           r == [i \in I |-> Cardinality(Later(I, i))]
           N == NewestOf(I, n)
           g == [i \in N |-> Cardinality(Later(I, i))]
<1>1. IsFiniteSet(I) /\ c \in Nat /\ \A i \in I : i \in Nat
  BY IndicesFacts
<1>2. r \in Injection(I, 0 .. c - 1)
  <2>1. r \in [I -> 0 .. c - 1]
    <3>1. \A i \in I : Cardinality(Later(I, i)) \in 0 .. c - 1
      BY <1>1, LaterFacts
    <3> QED
      BY <3>1
  <2>2. ASSUME NEW i \in I, NEW j \in I, r[i] = r[j] PROVE i = j
    <3>1. Cardinality(Later(I, i)) = Cardinality(Later(I, j)) /\ Cardinality(Later(I, i)) \in Nat
      BY <2>2, LaterFacts
    <3>2. ~ (i < j) /\ ~ (j < i)
      BY <3>1, LaterDecreases
    <3> QED
      BY <1>1, <3>2
  <2> QED
    BY <2>1, <2>2 DEF Injection, IsInjective
<1>3. r \in Surjection(I, 0 .. c - 1)
  <2>1. IsFiniteSet(0 .. c - 1) /\ Cardinality(0 .. c - 1) = c
    <3>1. 0 \in Int /\ c - 1 \in Int
      BY <1>1
    <3> QED
      BY <1>1, <3>1, FS_Interval
  <2> HIDE DEF r, c
  <2> QED
    BY <1>1, <1>2, <2>1, FS_Injection DEF c
<1>4. N \subseteq I /\ \A i \in I : i \in N <=> r[i] < n
  BY DEF NewestOf, Later
<1>5. g \in Bijection(N, 0 .. m - 1)
  <2>1. g \in [N -> 0 .. m - 1]
    <3>1. \A i \in N : r[i] \in 0 .. c - 1 /\ r[i] < n
      BY <1>2, <1>4 DEF Injection
    <3>2. \A i \in N : g[i] = r[i]
      BY <1>4
    <3>3. \A i \in N : g[i] \in 0 .. m - 1
      <4> HIDE DEF r, g, N, c
      <4> QED
        BY <1>1, <3>1, <3>2
    <3> QED
      BY <3>3
  <2>2. \A i, j \in N : g[i] = g[j] => i = j
    BY <1>2, <1>4 DEF Injection, IsInjective
  <2>3. ASSUME NEW x \in 0 .. m - 1 PROVE \E i \in N : g[i] = x
    <3>1. x \in 0 .. c - 1 /\ x < n
      BY <1>1
    <3>2. PICK i \in I : r[i] = x
      BY <1>3, <3>1 DEF Surjection
    <3> QED
      BY <1>4, <3>1, <3>2
  <2> HIDE DEF g, N, m
  <2> QED
    BY <2>1, <2>2, <2>3 DEF Bijection, Injection, Surjection, IsInjective
<1>6. IsFiniteSet(N)
  BY <1>1, <1>4, FS_Subset
<1>7. Cardinality(0 .. m - 1) = m
  <2>1. 0 \in Int /\ m - 1 \in Int /\ m \in Nat
    BY <1>1
  <2> HIDE DEF m
  <2>2. Cardinality(0 .. m - 1) = IF 0 > m - 1 THEN 0 ELSE m - 1 - 0 + 1
    BY <2>1, FS_Interval
  <2> QED
    BY <2>1, <2>2
<1>8. Cardinality(0 .. m - 1) = Cardinality(N)
  <2> HIDE DEF g, N, m
  <2> QED
    BY <1>5, <1>6, FS_Bijection DEF ExistsBijection
<1> QED
  BY <1>4, <1>7, <1>8

\* The greatest of all is among them.
LEMMA NewestHasMax ==
    ASSUME NEW I \in Indices, NEW n \in Nat \ {0}, I # {}
    PROVE  /\ NewestOf(I, n) # {}
           /\ Max(NewestOf(I, n)) = Max(I)
<1>1. Max(I) \in I /\ (\A j \in I : j <= Max(I)) /\ \A j \in I : j \in Nat
  BY MaxOf, IndicesFacts
<1>2. {j \in I : j > Max(I)} = {}
  BY <1>1
<1>3. Max(I) \in NewestOf(I, n)
  BY <1>1, <1>2, FS_EmptySet DEF NewestOf
<1>4. NewestOf(I, n) \subseteq I /\ NewestOf(I, n) \in Indices
  BY IndicesFacts DEF NewestOf
<1>5. Max(NewestOf(I, n)) \in NewestOf(I, n) /\ \A j \in NewestOf(I, n) : j <= Max(NewestOf(I, n))
  BY <1>3, <1>4, MaxOf
<1> QED
  BY <1>1, <1>3, <1>4, <1>5

\* What is left out is earlier than what is taken.
LEMMA NewestAreLater ==
    ASSUME NEW I \in Indices, NEW n \in Nat, NEW i \in NewestOf(I, n), NEW j \in I, j \notin NewestOf(I, n)
    PROVE  j < i
<1>1. i \in I /\ i \in Nat /\ j \in Nat
  BY IndicesFacts DEF NewestOf
<1>2. Cardinality(Later(I, i)) < n /\ ~ (Cardinality(Later(I, j)) < n)
  BY <1>1 DEF NewestOf, Later
<1>3. Cardinality(Later(I, i)) \in Nat /\ Cardinality(Later(I, j)) \in Nat
  BY <1>1, LaterFacts
<1>4. i # j
  OBVIOUS
<1>5. ~ (i < j)
  BY <1>1, <1>2, <1>3, LaterDecreases
<1> QED
  BY <1>1, <1>4, <1>5

-----------------------------------------------------------------------------
(* The inductive invariant.                                                 *)

Increments == [version : 1 .. MaxVersion, browsers : (SUBSET Browsers) \ {{}}]
ChangelogSections == [version : Nat, updates : SUBSET Projects]
Trees ==
    [version : 1 .. MaxVersion, number : Nat, from : SUBSET Increments, build : Nat, own : Nat,
     gecko : Nat, pin : [Projects -> Nat], changelog : [Browsers -> Seq(ChangelogSections)]]
Tags == [browser : Browsers, version : Nat, build : Nat, pin : [Projects -> Nat]]

RepositoryTypes ==
    /\ tags \in Seq(Tags)
    /\ upstream \in [build : [Browsers -> Nat \ {0}], pin : [Projects -> Nat]]
    /\ origin \in [n : Nat, tree : Trees]
    /\ clone \in [base : Nat, seen : Nat, tags : Nat, tree : Trees]
    /\ clone.base \in 0 .. clone.seen /\ clone.seen \in 0 .. origin.n
    /\ clone.tags \in 0 .. Len(tags)

WorkTypes == work \in Trees /\ truncated \subseteq Files

RunTypes ==
    /\ pc \in {"idle", "sanity", "firefox", "geckoview", "projects", "changelogs"}
    /\ opts \in [version : 0 .. MaxVersion, browsers : SUBSET Browsers, only : BOOLEAN]
    /\ known \in 0 .. clone.tags /\ last \in [Browsers -> SUBSET (1 .. known)] /\ build \in Nat
    /\ pc = "geckoview" => "tbb" \in opts.browsers
    /\ todo \subseteq CASE pc = "projects" -> ToUpdate [] pc = "changelogs" -> opts.browsers [] OTHER -> {}

CounterTypes ==
    ready \in BOOLEAN /\ runs \in 0 .. MaxRuns /\ moves \in 0 .. MaxMoves /\ failures \in 0 .. MaxFailures

\* Tags are in the order of versions and builds, and none is beyond what is merged.
Precedes(s, t) == s.version < t.version \/ (s.version = t.version /\ s.build <= t.build)

TagsInOrder ==
    /\ \A i \in 1 .. Len(tags) :
          /\ tags[i].version \in 1 .. MaxVersion
          /\ Precedes(tags[i], [version |-> origin.tree.version, build |-> origin.tree.number])
    /\ \A i, j \in 1 .. Len(tags) : i <= j => Precedes(tags[i], tags[j])

\* A number that was found from the first k tags, or from fewer of them.
Builds(v, k) == {i \in 1 .. k : tags[i].version = v}
Found(v, n, k) == n <= 1 \/ \E i \in Builds(v, k) : n <= tags[i].build + 1

MergedIsFound ==
    /\ clone.tree = origin.tree
    /\ Found(origin.tree.version, origin.tree.number, clone.tags)

\* What get_last_releases finds in the first k tags.
Others(v, b, k) == {i \in 1 .. k : tags[i].browser = b /\ tags[i].version # v}
LastBuilds(I) == {i \in I : \A j \in I : j > i => tags[j].version # tags[i].version}
LastOf(v, b, k) == NewestOf(LastBuilds(Others(v, b, k)), NumIncrementals)

RunOK ==
    pc # "idle" =>
        /\ ~ready /\ opts.browsers # {}
        /\ opts.version \in {origin.tree.version, origin.tree.version + 1}
        /\ \A b \in Browsers : last[b] = LastOf(opts.version, b, known)
        /\ build = BuildAfter(Builds(opts.version, known))
        /\ opts.version = origin.tree.version => build >= origin.tree.number
        /\ opts.only => pc = "changelogs"

\* What a run has written.
WrittenOK ==
    pc = "changelogs" =>
        /\ work.version = opts.version
        /\ ~opts.only => work.number = build /\ work.from = IncrementalFrom
        /\ \A b \in opts.browsers \ todo : last[b] # {} /\ work.changelog[b] = Changelog(b)

GeckoviewOK ==
    pc \in {"projects", "changelogs"} /\ ~opts.only /\ Android => work.gecko = work.build

\* What can be merged is the merged version's next build, or of the next version.
ReadyOK ==
    ready =>
        /\ pc = "idle"
        /\ work.version \in {origin.tree.version, origin.tree.version + 1}
        /\ Found(work.version, work.number, clone.tags)
        /\ work.version = origin.tree.version => work.number >= origin.tree.number

Types == RepositoryTypes /\ WorkTypes /\ RunTypes /\ CounterTypes
IInv == Types /\ TagsInOrder /\ MergedIsFound /\ RunOK /\ WrittenOK /\ GeckoviewOK /\ ReadyOK

USE BrowsersAssumption, SizesAssumption, ProjectsAssumption

LEMMA TypesOK == Types => TypeOK
<1> SUFFICES ASSUME Types PROVE TypeOK
  OBVIOUS
<1> USE DEF Types
<1>1. /\ tags \in Seq([browser : Browsers, version : Nat, build : Nat, pin : [Projects -> Nat]])
      /\ upstream \in [build : [Browsers -> Nat], pin : [Projects -> Nat]]
      /\ origin.n \in Nat /\ clone.base \in 0 .. clone.seen /\ clone.seen \in 0 .. origin.n
      /\ clone.tags \in 0 .. Len(tags)
  BY DEF RepositoryTypes, Tags
<1>2. /\ truncated \subseteq Files
      /\ work.from \subseteq [version : 1 .. MaxVersion, browsers : (SUBSET Browsers) \ {{}}]
      /\ work.version \in 1 .. MaxVersion /\ {work.number, work.build, work.own, work.gecko} \subseteq Nat
      /\ work.pin \in [Projects -> Nat]
  BY DEF WorkTypes, Trees, Increments
<1>3. /\ pc \in {"idle", "sanity", "firefox", "geckoview", "projects", "changelogs"}
      /\ pc = "geckoview" => "tbb" \in opts.browsers
      /\ todo \subseteq CASE pc = "projects" -> ToUpdate [] pc = "changelogs" -> opts.browsers [] OTHER -> {}
      /\ last \in [Browsers -> SUBSET (1 .. known)] /\ known \in 0 .. clone.tags
  BY DEF RunTypes
<1> QED
  BY <1>1, <1>2, <1>3 DEF TypeOK, CounterTypes

\* The facts about a build number.
LEMMA BuildFacts ==
    ASSUME RepositoryTypes, TagsInOrder, NEW v, NEW k \in 0 .. Len(tags)
    PROVE  /\ BuildAfter(Builds(v, k)) \in Nat /\ BuildAfter(Builds(v, k)) >= 1
           /\ Found(v, BuildAfter(Builds(v, k)), k)
           /\ \A i \in Builds(v, k) : tags[i].build < BuildAfter(Builds(v, k))
<1> DEFINE I == Builds(v, k)
<1>1. I \in Indices /\ \A i \in I : i \in 1 .. Len(tags) /\ tags[i] \in Tags /\ tags[i].version = v
  <2>1. k \in Nat /\ I \subseteq 1 .. k
    BY DEF RepositoryTypes, Builds
  <2> QED
    BY <2>1, IndicesBelow DEF RepositoryTypes, Builds
<1>2. CASE I = {}
  BY <1>2 DEF BuildAfter, Found
<1>3. CASE I # {}
  <2>1. Max(I) \in I /\ \A j \in I : j <= Max(I)
    BY <1>1, <1>3, MaxOf
  <2>2. BuildAfter(I) = tags[Max(I)].build + 1
    BY <1>3 DEF BuildAfter
  <2>3. \A i \in I : tags[i].build <= tags[Max(I)].build /\ tags[i].build \in Nat
    BY <1>1, <2>1 DEF TagsInOrder, Precedes, Tags
  <2> HIDE DEF I
  <2>4. BuildAfter(I) \in Nat /\ BuildAfter(I) >= 1 /\ \A i \in I : tags[i].build < BuildAfter(I)
    <3>1. PICK n : n = tags[Max(I)].build
      OBVIOUS
    <3>2. n \in Nat /\ BuildAfter(I) = n + 1
      BY <2>1, <2>2, <2>3, <3>1
    <3>3. ASSUME NEW i \in I PROVE tags[i].build < BuildAfter(I)
      <4>1. tags[i].build \in Nat /\ tags[i].build <= n
        BY <2>3, <3>1
      <4> QED
        BY <3>2, <4>1
    <3> QED
      BY <3>2, <3>3
  <2>5. BuildAfter(I) <= tags[Max(I)].build + 1
    BY <2>1, <2>2, <2>3
  <2>6. \E i \in I : BuildAfter(I) <= tags[i].build + 1
    BY <2>1, <2>5
  <2> USE DEF I
  <2>7. Found(v, BuildAfter(Builds(v, k)), k)
    BY <2>6 DEF Found
  <2> QED
    BY <2>4, <2>7
<1> QED
  BY <1>2, <1>3

\* A number that was found from fewer tags is not higher.
LEMMA FoundIsBelow ==
    ASSUME RepositoryTypes, TagsInOrder, NEW v, NEW n \in Nat, NEW k \in 0 .. Len(tags), Found(v, n, k)
    PROVE  n <= BuildAfter(Builds(v, k))
<1>1. /\ BuildAfter(Builds(v, k)) \in Nat /\ BuildAfter(Builds(v, k)) >= 1
      /\ \A i \in Builds(v, k) : tags[i].build < BuildAfter(Builds(v, k))
  BY BuildFacts
<1>2. ASSUME NEW i \in Builds(v, k) PROVE tags[i].build \in Nat
  <2>1. i \in 1 .. Len(tags)
    BY DEF RepositoryTypes, Builds
  <2>2. tags[i] \in Tags
    BY <2>1 DEF RepositoryTypes
  <2> QED
    BY <2>2 DEF Tags
<1> QED
  BY <1>1, <1>2 DEF Found

LEMMA FoundGrows ==
    ASSUME NEW v, NEW n, NEW k \in Nat, NEW l \in Nat, k <= l, Found(v, n, k)
    PROVE  Found(v, n, l)
  BY DEF Found, Builds

LEMMA PrecedesTransitive ==
    ASSUME NEW s, NEW t, NEW u, Precedes(s, t), Precedes(t, u),
           s.version \in Nat, s.build \in Nat, t.version \in Nat, t.build \in Nat,
           u.version \in Nat, u.build \in Nat
    PROVE  Precedes(s, u)
  BY DEF Precedes

LEMMA InitIInv == Init => IInv
<1> SUFFICES ASSUME Init PROVE IInv
  OBVIOUS
<1>1. PICK h \in Histories :
        /\ tags = [i \in 1 .. Len(h) |->
              [browser |-> h[i][1], version |-> h[i][2], build |-> h[i][3], pin |-> FirstTree(h).pin]]
        /\ upstream = [build |-> [b \in Browsers |-> 1], pin |-> FirstTree(h).pin]
        /\ origin = [n |-> 0, tree |-> FirstTree(h)]
        /\ clone = [base |-> 0, seen |-> 0, tags |-> Len(h), tree |-> FirstTree(h)]
        /\ work = FirstTree(h)
  BY DEF Init
<1>2. /\ truncated = {} /\ pc = "idle" /\ opts = NoOpts /\ last = NoReleases /\ build = 0 /\ known = 0
      /\ todo = {} /\ ready = FALSE /\ runs = 0 /\ moves = 0 /\ failures = 0
  BY DEF Init
<1>3. /\ Len(h) \in Nat /\ Len(h) \in 1 .. Len(h)
      /\ \A i \in 1 .. Len(h) : h[i][1] \in Browsers /\ h[i][2] \in 1 .. MaxVersion /\ h[i][3] \in Nat \ {0}
  <2>1. h \in Seq(Browsers \X (1 .. MaxVersion) \X (Nat \ {0})) /\ h # <<>>
    BY HistoriesAssumption
  <2>2. Len(h) \in Nat /\ Len(h) # 0
    BY <2>1
  <2>3. \A i \in 1 .. Len(h) : h[i] \in Browsers \X (1 .. MaxVersion) \X (Nat \ {0})
    BY <2>1
  <2> QED
    BY <2>2, <2>3
<1>4. FirstTree(h) \in Trees
  BY <1>3 DEF FirstTree, Trees
<1>5. /\ FirstTree(h).version = h[Len(h)][2] /\ FirstTree(h).number = h[Len(h)][3]
      /\ FirstTree(h).pin \in [Projects -> Nat]
  BY DEF FirstTree
<1>6. tags \in Seq(Tags) /\ Len(tags) = Len(h)
  <2>1. \A i \in 1 .. Len(h) :
          [browser |-> h[i][1], version |-> h[i][2], build |-> h[i][3], pin |-> FirstTree(h).pin] \in Tags
    BY <1>3, <1>5 DEF Tags
  <2>2. tags \in [1 .. Len(h) -> Tags]
    BY <1>1, <2>1
  <2> QED
    BY <1>3, <2>2
<1>7. RepositoryTypes
  <2>1. upstream \in [build : [Browsers -> Nat \ {0}], pin : [Projects -> Nat]]
    BY <1>1, <1>5
  <2> QED
    BY <1>1, <1>3, <1>4, <1>6, <2>1 DEF RepositoryTypes
<1>8. WorkTypes
  BY <1>1, <1>2, <1>4 DEF WorkTypes
<1>9. RunTypes /\ CounterTypes
  <2>1. /\ MaxVersion \in Nat /\ MaxRuns \in Nat /\ MaxMoves \in Nat /\ MaxFailures \in Nat
    OBVIOUS
  <2>2. NoOpts \in [version : 0 .. MaxVersion, browsers : SUBSET Browsers, only : BOOLEAN]
    BY <2>1 DEF NoOpts
  <2>3. NoReleases \in [Browsers -> SUBSET (1 .. 0)] /\ clone.tags \in Nat
    BY <1>1, <1>3 DEF NoReleases
  <2>4. RunTypes
    BY <1>2, <2>2, <2>3 DEF RunTypes
  <2>5. ready \in BOOLEAN
    BY <1>2
  <2>6. runs \in 0 .. MaxRuns /\ moves \in 0 .. MaxMoves /\ failures \in 0 .. MaxFailures
    BY <1>2, <2>1
  <2> QED
    BY <2>4, <2>5, <2>6 DEF CounterTypes
<1>10. TagsInOrder
  <2>1. \A i \in 1 .. Len(h) : tags[i].version = h[i][2] /\ tags[i].build = h[i][3]
    BY <1>1
  <2>2. \A i, j \in 1 .. Len(h) : i <= j => h[i][2] < h[j][2] \/ (h[i][2] = h[j][2] /\ h[i][3] <= h[j][3])
    BY HistoriesAssumption
  <2>3. \A i \in 1 .. Len(h) : i <= Len(h)
    BY <1>3
  <2>4. origin.tree.version = h[Len(h)][2] /\ origin.tree.number = h[Len(h)][3]
    BY <1>1, <1>5
  <2>5. \A i \in 1 .. Len(h) : tags[i].version \in 1 .. MaxVersion
    BY <1>3, <2>1
  <2>6. \A i, j \in 1 .. Len(h) : i <= j => Precedes(tags[i], tags[j])
    BY <2>1, <2>2 DEF Precedes
  <2>7. ASSUME NEW i \in 1 .. Len(h)
        PROVE  Precedes(tags[i], [version |-> origin.tree.version, build |-> origin.tree.number])
    <3>1. i <= Len(h) /\ Len(h) \in 1 .. Len(h)
      BY <1>3, <2>3
    <3>2. Precedes(tags[i], tags[Len(h)])
      BY <2>6, <3>1
    <3>3. tags[Len(h)].version = origin.tree.version /\ tags[Len(h)].build = origin.tree.number
      BY <2>1, <2>4, <3>1
    <3> QED
      BY <3>2, <3>3 DEF Precedes
  <2> QED
    BY <1>6, <2>5, <2>6, <2>7 DEF TagsInOrder
<1>11. MergedIsFound
  <2>1. tags[Len(h)].version = h[Len(h)][2] /\ tags[Len(h)].build = h[Len(h)][3]
    BY <1>1, <1>3
  <2>2. Len(h) \in Builds(origin.tree.version, clone.tags) /\ origin.tree.number <= tags[Len(h)].build + 1
    BY <1>1, <1>3, <1>5, <2>1 DEF Builds
  <2> QED
    BY <1>1, <2>2 DEF MergedIsFound, Found
<1> QED
  BY <1>2, <1>7, <1>8, <1>9, <1>10, <1>11 DEF IInv, Types, RunOK, WrittenOK, GeckoviewOK, ReadyOK

-----------------------------------------------------------------------------
(* What steps leave alone.                                                  *)

\* The process has ended.
LEMMA RunEnds ==
    ASSUME IInv, Exit, clone'.tags \in Nat
    PROVE  RunTypes' /\ RunOK' /\ WrittenOK' /\ GeckoviewOK'
<1>1. RunTypes'
  BY DEF Exit, RunTypes, NoOpts, NoReleases
<1>2. RunOK' /\ WrittenOK' /\ GeckoviewOK'
  BY DEF Exit, RunOK, WrittenOK, GeckoviewOK
<1> QED
  BY <1>1, <1>2

LEMMA SameRepository ==
    ASSUME IInv, UNCHANGED <<tags, upstream, origin, clone>>
    PROVE  RepositoryTypes' /\ TagsInOrder' /\ MergedIsFound'
<1>1. RepositoryTypes'
  BY DEF IInv, Types, RepositoryTypes
<1>2. TagsInOrder'
  BY DEF IInv, TagsInOrder, Precedes
<1>3. MergedIsFound'
  BY DEF IInv, MergedIsFound, Found, Builds
<1> QED
  BY <1>1, <1>2, <1>3

\* A run that ends without success: nothing can be merged.
LEMMA RunFails ==
    ASSUME IInv, Exit, pc # "idle", UNCHANGED <<tags, upstream, origin, clone, ready, runs, moves>>,
           WorkTypes', failures' \in 0 .. MaxFailures
    PROVE  IInv'
<1>1. clone'.tags \in Nat
  BY DEF IInv, Types, RepositoryTypes
<1>2. RunTypes' /\ RunOK' /\ WrittenOK' /\ GeckoviewOK'
  BY <1>1, RunEnds
<1>3. ~ ready'
  BY DEF IInv, RunOK
<1>4. CounterTypes' /\ ReadyOK'
  BY <1>3 DEF IInv, Types, CounterTypes, ReadyOK
<1> QED
  BY <1>2, <1>4, SameRepository DEF IInv, Types

LEMMA FailStep == ASSUME IInv, Fail PROVE IInv'
<1>1. /\ Exit /\ pc # "idle" /\ UNCHANGED <<tags, upstream, origin, clone, work, ready, runs, moves>>
      /\ failures < MaxFailures /\ failures' = failures + 1
      /\ truncated' = truncated \/ \E f \in Writing : truncated' = truncated \cup {f}
  BY DEF Fail
<1>2. Writing \subseteq Files
  <2>1. todo \subseteq Projects \cup Browsers
    <3>1. todo \subseteq CASE pc = "projects" -> ToUpdate [] pc = "changelogs" -> opts.browsers [] OTHER -> {}
      BY DEF IInv, Types, RunTypes
    <3>2. opts.browsers \subseteq Browsers
      BY DEF IInv, Types, RunTypes
    <3>3. ToUpdate \subseteq Projects
      BY <3>2 DEF ToUpdate, Projects
    <3> QED
      BY <3>1, <3>2, <3>3
  <2> QED
    BY <2>1 DEF Writing, Files
<1>3. WorkTypes'
  BY <1>1, <1>2 DEF IInv, Types, WorkTypes
<1>4. failures' \in 0 .. MaxFailures
  BY <1>1 DEF IInv, Types, CounterTypes
<1> QED
  BY <1>1, <1>3, <1>4, RunFails

LEMMA RaiseStep == ASSUME IInv, Raise PROVE IInv'
<1>1. Exit /\ UNCHANGED <<tags, upstream, origin, clone, work, truncated, ready, runs, moves, failures>>
  BY DEF Raise
<1>2. pc # "idle"
  BY DEF Raise, Raises
<1>3. WorkTypes' /\ failures' \in 0 .. MaxFailures
  BY <1>1 DEF IInv, Types, WorkTypes, CounterTypes
<1> QED
  BY <1>1, <1>2, <1>3, RunFails

LEMMA StartStep == ASSUME IInv, Start PROVE IInv'
<1>1. PICK v \in {clone.tree.version, clone.tree.version + 1}, B \in (SUBSET Browsers) \ {{}}, only \in BOOLEAN :
        /\ v <= MaxVersion
        /\ only => work.version = v
        /\ opts' = [version |-> v, browsers |-> B, only |-> only]
        /\ last' = [b \in Browsers |-> LastReleases(v, b)]
        /\ build' = BuildNumber(v, B)
        /\ IF only THEN pc' = "changelogs" /\ todo' = B ELSE pc' = "sanity" /\ todo' = {}
  BY DEF Start
<1>2. /\ pc = "idle" /\ runs < MaxRuns /\ known' = clone.tags /\ ready' = FALSE /\ runs' = runs + 1
      /\ UNCHANGED <<tags, upstream, origin, clone, work, truncated, moves, failures>>
  BY DEF Start
<1>3. /\ clone.tags \in 0 .. Len(tags) /\ clone.tags \in Nat /\ clone.tree = origin.tree
      /\ origin.tree.version \in 1 .. MaxVersion /\ origin.tree.number \in Nat
      /\ RepositoryTypes /\ TagsInOrder /\ MergedIsFound
  BY DEF IInv, Types, RepositoryTypes, MergedIsFound, Trees
<1>4. /\ opts'.version = v /\ opts'.browsers = B /\ opts'.only = only
      /\ opts' \in [version : 0 .. MaxVersion, browsers : SUBSET Browsers, only : BOOLEAN]
  BY <1>1, <1>3
<1>5. build' = BuildAfter(Builds(v, clone.tags)) /\ build' \in Nat /\ build' >= 1
  <2>1. build' = BuildAfter(Builds(v, clone.tags))
    BY <1>1 DEF BuildNumber, PreviousBuilds, Builds
  <2> QED
    BY <1>3, <2>1, BuildFacts
<1>6. \A b \in Browsers : last'[b] = LastOf(v, b, clone.tags) /\ last'[b] \in SUBSET (1 .. clone.tags)
  <2>1. \A b \in Browsers : last'[b] = LastReleases(v, b)
    BY <1>1
  <2>2. \A b : LastReleases(v, b) = LastOf(v, b, clone.tags)
    BY DEF LastReleases, LastOf, OtherTags, Others, LastBuilds
  <2>3. \A b : LastOf(v, b, clone.tags) \subseteq 1 .. clone.tags
    BY DEF LastOf, LastBuilds, Others, NewestOf
  <2> QED
    BY <2>1, <2>2, <2>3
<1>7. RunTypes'
  <2>1. last' \in [Browsers -> SUBSET (1 .. known')]
    BY <1>1, <1>2, <1>6
  <2>2. known' \in 0 .. clone'.tags
    BY <1>2, <1>3
  <2>3. pc' \in {"sanity", "changelogs"} /\ (pc' = "changelogs" => todo' = B) /\ (pc' # "changelogs" => todo' = {})
    BY <1>1
  <2> QED
    BY <1>4, <1>5, <2>1, <2>2, <2>3 DEF RunTypes
<1>8. CounterTypes'
  <2>1. ready' \in BOOLEAN /\ moves' \in 0 .. MaxMoves /\ failures' \in 0 .. MaxFailures
    BY <1>2 DEF IInv, Types, CounterTypes
  <2>2. runs' \in 0 .. MaxRuns
    BY <1>2 DEF IInv, Types, CounterTypes
  <2> QED
    BY <2>1, <2>2 DEF CounterTypes
<1>9. WorkTypes'
  BY <1>2 DEF IInv, Types, WorkTypes
<1>10. RunOK'
  <2>1. v = origin.tree.version => build' >= origin.tree.number
    BY <1>3, <1>5, FoundIsBelow DEF MergedIsFound
  <2>2. only => pc' = "changelogs"
    BY <1>1
  <2>3. ASSUME NEW b \in Browsers PROVE last'[b] = LastOf(opts.version, b, known)'
    <3>1. Others(opts.version, b, known)' = Others(v, b, clone.tags)
      BY <1>2, <1>4 DEF Others
    <3>2. LastBuilds(Others(opts.version, b, known))' = LastBuilds(Others(v, b, clone.tags))
      BY <1>2, <3>1 DEF LastBuilds
    <3> QED
      BY <1>6, <3>2 DEF LastOf
  <2>4. build' = BuildAfter(Builds(opts.version, known))'
    <3>1. Builds(opts.version, known)' = Builds(v, clone.tags)
      BY <1>2, <1>4 DEF Builds
    <3> QED
      BY <1>2, <1>5, <3>1 DEF BuildAfter
  <2>5. ~ ready' /\ opts'.browsers # {}
    <3>1. ~ ready'
      BY <1>2
    <3>2. opts'.browsers # {}
      BY <1>4
    <3> QED
      BY <3>1, <3>2
  <2>6. opts'.version \in {origin'.tree.version, origin'.tree.version + 1}
    BY <1>1, <1>2, <1>3, <1>4
  <2>7. opts'.version = origin'.tree.version => build' >= origin'.tree.number
    BY <1>2, <1>4, <2>1
  <2>8. opts'.only => pc' = "changelogs"
    BY <1>4, <2>2
  <2> QED
    BY <2>3, <2>4, <2>5, <2>6, <2>7, <2>8 DEF RunOK
<1>11. WrittenOK' /\ GeckoviewOK'
  BY <1>1, <1>2, <1>4 DEF WrittenOK, GeckoviewOK
<1>12. ReadyOK'
  BY <1>2 DEF ReadyOK
<1> QED
  BY <1>2, <1>7, <1>8, <1>9, <1>10, <1>11, <1>12, SameRepository DEF IInv, Types

-----------------------------------------------------------------------------
(* Steps that leave alone what a run was started with.                      *)

\* What was found stays as it is when tags are only added.
LEMMA SameReleases ==
    ASSUME UNCHANGED <<opts, last, known>>, known \in Nat, \A i \in 1 .. known : tags'[i] = tags[i],
           last \in [Browsers -> SUBSET (1 .. known)]
    PROVE  /\ BuildAfter(Builds(opts.version, known))' = BuildAfter(Builds(opts.version, known))
           /\ \A b \in Browsers : LastOf(opts.version, b, known)' = LastOf(opts.version, b, known)
           /\ IncrementalFrom' = IncrementalFrom
           /\ \A b \in Browsers : last[b] # {} => tags'[Max(last[b])] = tags[Max(last[b])]
<1>1. BuildAfter(Builds(opts.version, known))' = BuildAfter(Builds(opts.version, known))
  <2> DEFINE I == Builds(opts.version, known)
  <2>1. I' = I
    BY DEF Builds
  <2>2. I \subseteq 1 .. known
    BY DEF Builds
  <2> HIDE DEF I
  <2>3. I # {} => Max(I) \in 1 .. known
    BY <2>2, IndicesBelow, MaxOf
  <2>4. BuildAfter(I)' = BuildAfter(I)
    <3>1. CASE I = {}
      BY <2>1, <3>1 DEF BuildAfter
    <3>2. CASE I # {}
      BY <2>1, <2>3, <3>2 DEF BuildAfter
    <3> QED
      BY <3>1, <3>2
  <2> QED
    BY <2>4 DEF I
<1>2. ASSUME NEW b \in Browsers PROVE LastOf(opts.version, b, known)' = LastOf(opts.version, b, known)
  <2>1. Others(opts.version, b, known)' = Others(opts.version, b, known)
    BY DEF Others
  <2>2. Others(opts.version, b, known) \subseteq 1 .. known
    BY DEF Others
  <2>3. LastBuilds(Others(opts.version, b, known))' = LastBuilds(Others(opts.version, b, known))
    BY <2>1, <2>2 DEF LastBuilds
  <2> QED
    BY <2>3 DEF LastOf
<1>3. IncrementalFrom' = IncrementalFrom
  <2>1. \A b \in Browsers : {tags[i].version : i \in last[b]}' = {tags[i].version : i \in last[b]}
    OBVIOUS
  <2> DEFINE of(b) == {tags[i].version : i \in last[b]}
  <2>2. \A b \in Browsers : of(b)' = of(b)
    BY <2>1
  <2>3. IncrementalFrom = {[version |-> v, browsers |-> {b \in Browsers : v \in of(b)}] : v \in UNION {of(b) : b \in Browsers}}
    BY DEF IncrementalFrom
  <2>4. IncrementalFrom' = {[version |-> v, browsers |-> {b \in Browsers : v \in of(b)'}] : v \in UNION {of(b)' : b \in Browsers}}
    BY DEF IncrementalFrom
  <2> HIDE DEF of
  <2>5. UNION {of(b)' : b \in Browsers} = UNION {of(b) : b \in Browsers}
    BY <2>2
  <2>6. \A v : {b \in Browsers : v \in of(b)'} = {b \in Browsers : v \in of(b)}
    BY <2>2
  <2> QED
    BY <2>3, <2>4, <2>5, <2>6
<1>4. ASSUME NEW b \in Browsers, last[b] # {} PROVE tags'[Max(last[b])] = tags[Max(last[b])]
  <2>1. last[b] \subseteq 1 .. known
    OBVIOUS
  <2>2. Max(last[b]) \in last[b]
    BY <2>1, <1>4, IndicesBelow, MaxOf
  <2> QED
    BY <2>1, <2>2
<1> QED
  BY <1>1, <1>2, <1>3, <1>4

LEMMA RunGoesOn ==
    ASSUME IInv, pc # "idle", UNCHANGED <<opts, last, build, known, ready>>, origin'.tree = origin.tree,
           \A i \in 1 .. known : tags'[i] = tags[i], opts.only => pc' = "changelogs"
    PROVE  RunOK'
<1>1. known \in Nat /\ last \in [Browsers -> SUBSET (1 .. known)]
  BY DEF IInv, Types, RunTypes, RepositoryTypes
<1>2. /\ BuildAfter(Builds(opts.version, known))' = BuildAfter(Builds(opts.version, known))
      /\ \A b \in Browsers : LastOf(opts.version, b, known)' = LastOf(opts.version, b, known)
  BY <1>1, SameReleases
<1>3. /\ ~ready /\ opts.browsers # {}
      /\ opts.version \in {origin.tree.version, origin.tree.version + 1}
      /\ \A b \in Browsers : last[b] = LastOf(opts.version, b, known)
      /\ build = BuildAfter(Builds(opts.version, known))
      /\ opts.version = origin.tree.version => build >= origin.tree.number
  BY DEF IInv, RunOK
<1>4. ~ready'
  BY <1>3
<1>5. /\ opts'.browsers # {}
      /\ opts'.version \in {origin'.tree.version, origin'.tree.version + 1}
      /\ build' = BuildAfter(Builds(opts.version, known))'
      /\ opts'.version = origin'.tree.version => build' >= origin'.tree.number
  BY <1>2, <1>3
<1>6. \A b \in Browsers : last'[b] = LastOf(opts.version, b, known)'
  BY <1>2, <1>3
<1>7. opts'.only => pc' = "changelogs"
  OBVIOUS
<1> QED
  BY <1>4, <1>5, <1>6, <1>7 DEF RunOK

\* The steps of a run change the worktree, and what is to be done.
LEMMA RunSteps ==
    ASSUME IInv, pc # "idle",
           UNCHANGED <<tags, upstream, origin, clone, opts, last, build, known, ready, runs, moves, failures>>,
           pc' \in {"firefox", "geckoview", "projects", "changelogs"},
           opts.only => pc' = "changelogs",
           pc' = "geckoview" => Android,
           todo' \subseteq CASE pc' = "projects" -> ToUpdate [] pc' = "changelogs" -> opts.browsers [] OTHER -> {},
           WorkTypes', WrittenOK', GeckoviewOK'
    PROVE  IInv'
<1>1. RunTypes'
  <2>1. /\ pc' \in {"idle", "sanity", "firefox", "geckoview", "projects", "changelogs"}
        /\ opts' \in [version : 0 .. MaxVersion, browsers : SUBSET Browsers, only : BOOLEAN]
        /\ known' \in 0 .. clone'.tags /\ last' \in [Browsers -> SUBSET (1 .. known')] /\ build' \in Nat
    BY DEF IInv, Types, RunTypes
  <2>2. pc' = "geckoview" => "tbb" \in opts'.browsers
    BY DEF Android
  <2>3. ToUpdate' = ToUpdate
    BY DEF ToUpdate
  <2>4. todo' \subseteq CASE pc' = "projects" -> ToUpdate' [] pc' = "changelogs" -> opts'.browsers [] OTHER -> {}
    BY <2>3
  <2> QED
    BY <2>1, <2>2, <2>4 DEF RunTypes
<1>2. CounterTypes'
  BY DEF IInv, Types, CounterTypes
<1>3. RunOK'
  BY RunGoesOn
<1>4. ReadyOK'
  <2>1. ~ready'
    BY DEF IInv, RunOK
  <2> QED
    BY <2>1 DEF ReadyOK
<1> QED
  BY <1>1, <1>2, <1>3, <1>4, SameRepository DEF IInv, Types

LEMMA UpdateFirefoxStep == ASSUME IInv, UpdateFirefox PROVE IInv'
<1>1. /\ pc = "firefox" /\ work' = WithBuilds(work)
      /\ IF Android THEN pc' = "geckoview" /\ todo' = {} ELSE pc' = "projects" /\ todo' = ToUpdate
      /\ UNCHANGED <<tags, upstream, origin, clone, truncated, opts, last, build, known, ready, runs, moves, failures>>
  BY DEF UpdateFirefox
<1>2. WorkTypes'
  <2>1. work \in Trees /\ upstream.build["tbb"] \in Nat /\ upstream.build["mb"] \in Nat
    BY DEF IInv, Types, WorkTypes, RepositoryTypes
  <2>2. WithBuilds(work) \in Trees
    BY <2>1 DEF WithBuilds, Trees
  <2> QED
    BY <1>1, <2>2 DEF IInv, Types, WorkTypes
<1>3. ~ opts.only
  BY <1>1 DEF IInv, RunOK
<1>4. WrittenOK' /\ GeckoviewOK'
  BY <1>1 DEF WrittenOK, GeckoviewOK, Android
<1> QED
  BY <1>1, <1>2, <1>3, <1>4, RunSteps

LEMMA UpdateGeckoviewStep == ASSUME IInv, UpdateGeckoview PROVE IInv'
<1>1. /\ pc = "geckoview" /\ work' = [work EXCEPT !.gecko = work.build]
      /\ pc' = "projects" /\ todo' = ToUpdate
      /\ UNCHANGED <<tags, upstream, origin, clone, truncated, opts, last, build, known, ready, runs, moves, failures>>
  BY DEF UpdateGeckoview
<1>2. work \in Trees
  BY DEF IInv, Types, WorkTypes
<1>3. WorkTypes'
  BY <1>1, <1>2 DEF IInv, Types, WorkTypes, Trees
<1>4. ~ opts.only
  BY <1>1 DEF IInv, RunOK
<1>5. WrittenOK' /\ GeckoviewOK'
  <2>1. work'.gecko = work'.build
    BY <1>1, <1>2 DEF Trees
  <2> QED
    BY <1>1, <2>1 DEF WrittenOK, GeckoviewOK
<1> QED
  BY <1>1, <1>3, <1>4, <1>5, RunSteps

LEMMA UpdateProjectStep == ASSUME IInv, UpdateProject PROVE IInv'
<1>1. PICK p \in todo \ truncated : work' = [work EXCEPT !.pin[p] = upstream.pin[p]] /\ todo' = todo \ {p}
  BY DEF UpdateProject
<1>2. /\ pc = "projects"
      /\ UNCHANGED <<tags, upstream, origin, clone, truncated, pc, opts, last, build, known, ready, runs, moves, failures>>
  BY DEF UpdateProject
<1>3. work \in Trees /\ todo \subseteq ToUpdate
  BY <1>2 DEF IInv, Types, WorkTypes, RunTypes
<1>4. p \in Projects /\ upstream.pin[p] \in Nat
  <2>1. opts.browsers \subseteq Browsers
    BY DEF IInv, Types, RunTypes
  <2>2. p \in Projects
    BY <1>3, <2>1 DEF ToUpdate, Projects
  <2>3. upstream.pin \in [Projects -> Nat]
    BY DEF IInv, Types, RepositoryTypes
  <2> QED
    BY <2>2, <2>3
<1>5. work' \in Trees /\ work'.gecko = work.gecko /\ work'.build = work.build
  <2>1. work.pin \in [Projects -> Nat]
    BY <1>3 DEF Trees
  <2>2. [work.pin EXCEPT ![p] = upstream.pin[p]] \in [Projects -> Nat]
    BY <1>4, <2>1
  <2>3. work' = [work EXCEPT !.pin = [work.pin EXCEPT ![p] = upstream.pin[p]]]
    BY <1>1, <1>3 DEF Trees
  <2> QED
    BY <1>3, <2>2, <2>3 DEF Trees
<1>6. WorkTypes'
  BY <1>2, <1>5 DEF IInv, Types, WorkTypes
<1>7. ~ opts.only
  BY <1>2 DEF IInv, RunOK
<1>8. WrittenOK' /\ GeckoviewOK'
  BY <1>2, <1>5 DEF WrittenOK, GeckoviewOK, IInv, Android
<1>9. todo' \subseteq ToUpdate
  BY <1>1, <1>3
<1> QED
  BY <1>2, <1>6, <1>7, <1>8, <1>9, RunSteps

LEMMA UpdateRbmConfStep == ASSUME IInv, UpdateRbmConf PROVE IInv'
<1>1. /\ pc = "projects" /\ \A b \in Browsers : last[b] # {}
      /\ work' = [work EXCEPT !.version = opts.version, !.number = build, !.from = IncrementalFrom]
      /\ pc' = "changelogs" /\ todo' = opts.browsers
      /\ UNCHANGED <<tags, upstream, origin, clone, truncated, opts, last, build, known, ready, runs, moves, failures>>
  BY DEF UpdateRbmConf
<1>2. /\ work \in Trees /\ build \in Nat /\ opts.version \in 0 .. MaxVersion
      /\ origin.tree.version \in 1 .. MaxVersion
      /\ known \in 0 .. Len(tags) /\ Len(tags) \in Nat /\ last \in [Browsers -> SUBSET (1 .. known)]
  <2>1. work \in Trees /\ origin.tree \in Trees /\ Len(tags) \in Nat
    BY DEF IInv, Types, WorkTypes, RepositoryTypes
  <2>2. build \in Nat /\ opts.version \in 0 .. MaxVersion /\ last \in [Browsers -> SUBSET (1 .. known)]
    BY DEF IInv, Types, RunTypes
  <2>3. known \in 0 .. Len(tags)
    BY <2>1 DEF IInv, Types, RunTypes, RepositoryTypes
  <2> QED
    BY <2>1, <2>2, <2>3 DEF Trees
<1>3. opts.version \in 1 .. MaxVersion
  <2>1. opts.version \in {origin.tree.version, origin.tree.version + 1}
    BY <1>1 DEF IInv, RunOK
  <2> QED
    BY <1>2, <2>1
<1>4. IncrementalFrom \subseteq Increments
  <2> DEFINE of(b) == {tags[i].version : i \in last[b]}
  <2>1. IncrementalFrom = {[version |-> v, browsers |-> {b \in Browsers : v \in of(b)}] : v \in UNION {of(b) : b \in Browsers}}
    BY DEF IncrementalFrom
  <2>2. ASSUME NEW b \in Browsers, NEW v \in of(b) PROVE v \in 1 .. MaxVersion
    <3>1. \A i \in 1 .. Len(tags) : tags[i].version \in 1 .. MaxVersion
      BY DEF IInv, TagsInOrder
    <3>2. last[b] \subseteq 1 .. Len(tags)
      BY <1>2
    <3> QED
      BY <3>1, <3>2
  <2> HIDE DEF of
  <2>3. ASSUME NEW v \in UNION {of(b) : b \in Browsers}
        PROVE  [version |-> v, browsers |-> {b \in Browsers : v \in of(b)}] \in Increments
    BY <2>2 DEF Increments
  <2> QED
    BY <2>1, <2>3
<1>5. WorkTypes'
  BY <1>1, <1>2, <1>3, <1>4 DEF IInv, Types, WorkTypes, Trees
<1>6. work'.version = opts.version /\ work'.number = build /\ work'.from = IncrementalFrom
      /\ work'.gecko = work.gecko /\ work'.build = work.build
  BY <1>1, <1>2 DEF Trees
<1>7. WrittenOK'
  <2>1. IncrementalFrom' = IncrementalFrom
    BY <1>1 DEF IncrementalFrom
  <2>2. opts'.browsers \ todo' = {}
    BY <1>1
  <2> QED
    BY <1>1, <1>6, <2>1, <2>2 DEF WrittenOK
<1>8. GeckoviewOK'
  BY <1>1, <1>6 DEF IInv, GeckoviewOK, Android
<1>9. ~opts.only
  BY <1>1 DEF IInv, RunOK
<1> QED
  BY <1>1, <1>5, <1>7, <1>8, <1>9, RunSteps

LEMMA MakeChangelogsStep == ASSUME IInv, MakeChangelogs PROVE IInv'
<1>1. PICK b \in todo : last[b] # {} /\ work' = [work EXCEPT !.changelog[b] = Changelog(b)]
                        /\ truncated' = truncated \ {b} /\ todo' = todo \ {b}
  BY DEF MakeChangelogs
<1>2. /\ pc = "changelogs"
      /\ UNCHANGED <<tags, upstream, origin, clone, pc, opts, last, build, known, ready, runs, moves, failures>>
  BY DEF MakeChangelogs
<1>3. work \in Trees /\ truncated \subseteq Files /\ todo \subseteq opts.browsers /\ opts.browsers \subseteq Browsers
  BY <1>2 DEF IInv, Types, WorkTypes, RunTypes
<1>4. b \in Browsers
  BY <1>3
<1>5. Changelog(b) \in Seq(ChangelogSections)
  <2>1. opts.version \in Nat
    BY DEF IInv, Types, RunTypes
  <2>2. ProjectsOf[b] \subseteq Projects
    BY <1>4 DEF Projects
  <2>3. Section(b) \in ChangelogSections
    BY <2>1, <2>2 DEF Section, ChangelogSections
  <2>4. clone.tree.changelog[b] \in Seq(ChangelogSections)
    BY <1>4 DEF IInv, Types, RepositoryTypes, Trees
  <2> QED
    BY <2>3, <2>4 DEF Changelog
<1>6. /\ work' \in Trees
      /\ work' = [work EXCEPT !.changelog = [work.changelog EXCEPT ![b] = Changelog(b)]]
  <2>1. work.changelog \in [Browsers -> Seq(ChangelogSections)]
    BY <1>3 DEF Trees
  <2>2. [work.changelog EXCEPT ![b] = Changelog(b)] \in [Browsers -> Seq(ChangelogSections)]
    BY <1>5, <2>1
  <2>3. work' = [work EXCEPT !.changelog = [work.changelog EXCEPT ![b] = Changelog(b)]]
    BY <1>1, <1>3 DEF Trees
  <2> QED
    BY <1>3, <2>2, <2>3 DEF Trees
<1>7. /\ work'.changelog = [work.changelog EXCEPT ![b] = Changelog(b)]
      /\ work'.version = work.version /\ work'.number = work.number /\ work'.from = work.from
      /\ work'.pin = work.pin /\ work'.gecko = work.gecko /\ work'.build = work.build
  BY <1>3, <1>6 DEF Trees
<1>8. WorkTypes'
  BY <1>1, <1>3, <1>6 DEF WorkTypes, Files
<1>9. WrittenOK'
  <2>1. \A c : Changelog(c)' = Changelog(c)
    <3>1. \A c : Section(c)' = Section(c)
      BY <1>2, <1>7 DEF Section
    <3> QED
      BY <1>2, <3>1 DEF Changelog
  <2>2. IncrementalFrom' = IncrementalFrom
    BY <1>2 DEF IncrementalFrom
  <2>3. /\ work.version = opts.version
        /\ ~opts.only => work.number = build /\ work.from = IncrementalFrom
        /\ \A c \in opts.browsers \ todo : last[c] # {} /\ work.changelog[c] = Changelog(c)
    BY <1>2 DEF IInv, WrittenOK
  <2>4. DOMAIN work.changelog = Browsers
    BY <1>3 DEF Trees
  <2>5. ASSUME NEW c \in opts'.browsers \ todo' PROVE last'[c] # {} /\ work'.changelog[c] = Changelog(c)'
    <3>1. CASE c = b
      <4>1. work'.changelog[c] = Changelog(c)
        BY <1>4, <1>7, <2>4, <3>1
      <4>2. last'[c] # {}
        BY <1>1, <1>2, <3>1
      <4> QED
        BY <2>1, <4>1, <4>2
    <3>2. CASE c # b
      <4>1. c \in opts.browsers \ todo
        BY <1>1, <1>2, <3>2
      <4>2. last[c] # {} /\ work.changelog[c] = Changelog(c)
        BY <2>3, <4>1
      <4>3. work'.changelog[c] = work.changelog[c]
        BY <1>3, <1>7, <2>4, <3>2, <4>1
      <4> QED
        BY <1>2, <2>1, <4>2, <4>3
    <3> QED
      BY <3>1, <3>2
  <2>6. work'.version = opts'.version
    BY <1>2, <1>7, <2>3
  <2>7. ~opts'.only => work'.number = build' /\ work'.from = IncrementalFrom'
    BY <1>2, <1>7, <2>2, <2>3
  <2> QED
    BY <2>5, <2>6, <2>7 DEF WrittenOK
<1>10. GeckoviewOK'
  BY <1>2, <1>7 DEF IInv, GeckoviewOK, Android
<1>11. todo' \subseteq opts.browsers
  BY <1>1, <1>3
<1> QED
  BY <1>2, <1>8, <1>9, <1>10, <1>11, RunSteps

LEMMA FinishStep == ASSUME IInv, Finish PROVE IInv'
<1>1. /\ pc = "changelogs" /\ todo = {} /\ Exit /\ ready' = (~opts.only /\ truncated = {})
      /\ UNCHANGED <<tags, upstream, origin, clone, work, truncated, runs, moves, failures>>
  BY DEF Finish
<1>2. /\ RepositoryTypes /\ TagsInOrder /\ clone.tags \in Nat /\ Len(tags) \in Nat
      /\ clone.tags \in 0 .. Len(tags) /\ known \in 0 .. clone.tags
  BY DEF IInv, Types, RepositoryTypes, RunTypes
<1>3. RunTypes' /\ RunOK' /\ WrittenOK' /\ GeckoviewOK'
  BY <1>1, <1>2, RunEnds
<1>4. CounterTypes'
  <2>1. opts.only \in BOOLEAN
    BY DEF IInv, Types, RunTypes
  <2>2. ready' \in BOOLEAN
    BY <1>1
  <2>3. runs' \in 0 .. MaxRuns /\ moves' \in 0 .. MaxMoves /\ failures' \in 0 .. MaxFailures
    BY <1>1 DEF IInv, Types, CounterTypes
  <2> QED
    BY <2>2, <2>3 DEF CounterTypes
<1>5. ReadyOK'
  <2> SUFFICES ASSUME ready' PROVE ReadyOK'
    BY DEF ReadyOK
  <2>1. ~opts.only
    BY <1>1
  <2>2. /\ work.version = opts.version /\ work.number = build
        /\ opts.version \in {origin.tree.version, origin.tree.version + 1}
        /\ build = BuildAfter(Builds(opts.version, known))
        /\ opts.version = origin.tree.version => build >= origin.tree.number
    BY <1>1, <2>1 DEF IInv, RunOK, WrittenOK
  <2>3. known \in 0 .. Len(tags) /\ known \in Nat /\ known <= clone.tags
    BY <1>2
  <2>4. Found(opts.version, build, known)
    BY <1>2, <2>2, <2>3, BuildFacts
  <2>5. Found(work.version, work.number, clone.tags)
    BY <1>2, <2>2, <2>3, <2>4, FoundGrows
  <2>6. Found(work.version, work.number, clone.tags)'
    BY <1>1, <2>5 DEF Found, Builds
  <2>7. pc' = "idle"
    BY <1>1 DEF Exit
  <2> QED
    BY <1>1, <2>2, <2>6, <2>7 DEF ReadyOK
<1>6. WorkTypes'
  BY <1>1 DEF IInv, Types, WorkTypes
<1> QED
  BY <1>1, <1>3, <1>4, <1>5, <1>6, SameRepository DEF IInv, Types

LEMMA BranchSanityCheckStep == ASSUME IInv, BranchSanityCheck PROVE IInv'
<1>1. /\ pc = "sanity" /\ clone' \in {clone, Fetched}
      /\ IF clone'.base = clone'.seen
            THEN pc' = "firefox" /\ UNCHANGED <<opts, last, build, known, todo>>
            ELSE Exit
      /\ UNCHANGED <<tags, upstream, origin, work, truncated, ready, runs, moves, failures>>
  BY DEF BranchSanityCheck
<1>2. /\ clone \in [base : Nat, seen : Nat, tags : Nat, tree : Trees] /\ Len(tags) \in Nat /\ origin.n \in Nat
      /\ clone.base \in 0 .. clone.seen /\ clone.seen \in 0 .. origin.n /\ clone.tags \in 0 .. Len(tags)
      /\ known \in 0 .. clone.tags
  BY DEF IInv, Types, RepositoryTypes, RunTypes
<1>3. /\ clone' \in [base : Nat, seen : Nat, tags : Nat, tree : Trees]
      /\ clone'.base \in 0 .. clone'.seen /\ clone'.seen \in 0 .. origin.n /\ clone'.tags \in 0 .. Len(tags)
      /\ clone'.tree = clone.tree /\ clone'.tags >= clone.tags
  <2>1. CASE clone' = clone
    BY <1>2, <2>1
  <2>2. CASE clone' = Fetched
    <3>1. clone' = [base |-> clone.base, seen |-> origin.n, tags |-> Len(tags), tree |-> clone.tree]
      BY <1>2, <2>2 DEF Fetched
    <3>2. clone.base \in Nat /\ clone.tree \in Trees /\ clone.tags \in Nat
      BY <1>2
    <3> QED
      BY <1>2, <3>1, <3>2
  <2> QED
    BY <1>1, <2>1, <2>2
<1>4. RepositoryTypes'
  BY <1>1, <1>3 DEF IInv, Types, RepositoryTypes
<1>5. TagsInOrder'
  BY <1>1 DEF IInv, TagsInOrder, Precedes
<1>6. MergedIsFound'
  <2>1. Found(origin.tree.version, origin.tree.number, clone.tags) /\ clone.tree = origin.tree
    BY DEF IInv, MergedIsFound
  <2>2. Found(origin.tree.version, origin.tree.number, clone'.tags)
    BY <1>2, <1>3, <2>1, FoundGrows
  <2> QED
    BY <1>1, <1>3, <2>1, <2>2 DEF MergedIsFound, Found, Builds
<1>7. WorkTypes' /\ CounterTypes'
  BY <1>1 DEF IInv, Types, WorkTypes, CounterTypes
<1>8. ReadyOK'
  <2>1. ~ready'
    BY <1>1 DEF IInv, RunOK
  <2> QED
    BY <2>1 DEF ReadyOK
<1>9. RunTypes' /\ RunOK' /\ WrittenOK' /\ GeckoviewOK'
  <2>1. CASE pc' = "firefox" /\ UNCHANGED <<opts, last, build, known, todo>>
    <3>1. RunTypes'
      <4>1. todo = {}
        BY <1>1 DEF IInv, Types, RunTypes
      <4>2. known' \in 0 .. clone'.tags
        BY <1>2, <1>3, <2>1
      <4> QED
        BY <2>1, <4>1, <4>2 DEF IInv, Types, RunTypes
    <3>2. ~opts.only
      BY <1>1 DEF IInv, RunOK
    <3>3. RunOK'
      BY <1>1, <2>1, <3>2, RunGoesOn
    <3> QED
      BY <2>1, <3>1, <3>3 DEF WrittenOK, GeckoviewOK
  <2>2. CASE Exit
    BY <1>3, <2>2, RunEnds
  <2> QED
    BY <1>1, <2>1, <2>2
<1> QED
  BY <1>4, <1>5, <1>6, <1>7, <1>8, <1>9 DEF IInv, Types

-----------------------------------------------------------------------------
(* The manager's other commands, other people, and upstream.                *)

\* What others do changes neither what is in the clone nor what is merged.
LEMMA OthersAct ==
    ASSUME IInv, UNCHANGED <<clone, work, truncated, run, ready, runs, failures>>,
           moves' \in 0 .. MaxMoves, RepositoryTypes', TagsInOrder', origin'.tree = origin.tree,
           \A i \in 1 .. Len(tags) : tags'[i] = tags[i]
    PROVE  IInv'
<1>1. UNCHANGED <<pc, opts, last, build, known, todo>>
  BY DEF run
<1>2. /\ Len(tags) \in Nat /\ clone.tags \in 0 .. Len(tags) /\ known \in 0 .. clone.tags
      /\ last \in [Browsers -> SUBSET (1 .. known)]
  <2>1. tags \in Seq(Tags)
    BY DEF IInv, Types, RepositoryTypes
  <2>2. Len(tags) \in Nat
    BY <2>1
  <2> QED
    BY <2>2 DEF IInv, Types, RepositoryTypes, RunTypes
<1>3. WorkTypes' /\ CounterTypes'
  BY DEF IInv, Types, WorkTypes, CounterTypes
<1>4. RunTypes'
  <2>1. ToUpdate' = ToUpdate
    BY <1>1 DEF ToUpdate
  <2> QED
    BY <1>1, <2>1 DEF IInv, Types, RunTypes
<1>5. \A i \in 1 .. known : tags'[i] = tags[i]
  BY <1>2
<1>6. RunOK'
  <2>1. CASE pc = "idle"
    BY <1>1, <2>1 DEF RunOK
  <2>2. CASE pc # "idle"
    <3>1. opts.only => pc = "changelogs"
      BY <2>2 DEF IInv, RunOK
    <3> QED
      BY <1>1, <1>5, <2>2, <3>1, RunGoesOn
  <2> QED
    BY <2>1, <2>2
<1>7. \A v, n : Found(v, n, clone.tags) => Found(v, n, clone.tags)'
  <2>1. \A i \in 1 .. clone.tags : tags'[i] = tags[i]
    BY <1>2
  <2>2. \A v : Builds(v, clone.tags)' = Builds(v, clone.tags)
    BY <2>1 DEF Builds
  <2>3. \A v : \A i \in Builds(v, clone.tags) : tags'[i] = tags[i]
    BY <2>1 DEF Builds
  <2> QED
    BY <2>2, <2>3 DEF Found
<1>8. MergedIsFound'
  BY <1>7 DEF IInv, MergedIsFound
<1>9. ReadyOK'
  BY <1>1, <1>7 DEF IInv, ReadyOK
<1>10. WrittenOK'
  <2>1. known \in Nat
    BY <1>2
  <2>2. IncrementalFrom' = IncrementalFrom /\ \A b \in Browsers : last[b] # {} => tags'[Max(last[b])] = tags[Max(last[b])]
    BY <1>1, <1>2, <1>5, <2>1, SameReleases
  <2>3. ASSUME NEW b \in Browsers, last[b] # {} PROVE Changelog(b)' = Changelog(b)
    <3>1. Section(b)' = Section(b)
      BY <1>1, <2>2, <2>3 DEF Section
    <3> QED
      BY <3>1 DEF Changelog
  <2>4. opts.browsers \subseteq Browsers
    BY DEF IInv, Types, RunTypes
  <2> QED
    BY <1>1, <2>2, <2>3, <2>4 DEF IInv, WrittenOK
<1>11. GeckoviewOK'
  BY <1>1 DEF IInv, GeckoviewOK, Android
<1> QED
  BY <1>3, <1>4, <1>6, <1>8, <1>9, <1>10, <1>11 DEF IInv, Types

LEMMA OthersMergeStep == ASSUME IInv, OthersMerge PROVE IInv'
<1>1. /\ moves < MaxMoves /\ origin' = [origin EXCEPT !.n = @ + 1] /\ moves' = moves + 1
      /\ UNCHANGED <<tags, upstream, clone, work, truncated, run, ready, runs, failures>>
  BY DEF OthersMerge
<1>2. origin \in [n : Nat, tree : Trees] /\ clone.seen \in 0 .. origin.n /\ clone.seen \in Nat
  BY DEF IInv, Types, RepositoryTypes
<1>3. origin' \in [n : Nat, tree : Trees] /\ origin'.tree = origin.tree /\ clone.seen \in 0 .. origin'.n
  BY <1>1, <1>2
<1>4. RepositoryTypes'
  BY <1>1, <1>3 DEF IInv, Types, RepositoryTypes
<1>5. TagsInOrder'
  BY <1>1, <1>3 DEF IInv, TagsInOrder, Precedes
<1>6. moves' \in 0 .. MaxMoves
  BY <1>1 DEF IInv, Types, CounterTypes
<1> QED
  BY <1>1, <1>3, <1>4, <1>5, <1>6, OthersAct

LEMMA UpstreamMovesStep == ASSUME IInv, UpstreamMoves PROVE IInv'
<1>1. /\ moves < MaxMoves /\ moves' = moves + 1
      /\ UNCHANGED <<tags, origin, clone, work, truncated, run, ready, runs, failures>>
  BY DEF UpstreamMoves
<1>2. \/ \E b \in Browsers : upstream' = [upstream EXCEPT !.build[b] = @ + 1]
      \/ upstream' = [upstream EXCEPT !.build = [b \in Browsers |-> 1]]
      \/ \E p \in Projects : upstream' = [upstream EXCEPT !.pin[p] = @ + 1]
  BY DEF UpstreamMoves
<1>3. upstream \in [build : [Browsers -> Nat \ {0}], pin : [Projects -> Nat]]
  BY DEF IInv, Types, RepositoryTypes
<1>4. upstream' \in [build : [Browsers -> Nat \ {0}], pin : [Projects -> Nat]]
  <2>1. ASSUME NEW b \in Browsers, upstream' = [upstream EXCEPT !.build[b] = @ + 1]
        PROVE  upstream' \in [build : [Browsers -> Nat \ {0}], pin : [Projects -> Nat]]
    <3>1. [upstream.build EXCEPT ![b] = @ + 1] \in [Browsers -> Nat \ {0}]
      BY <1>3
    <3>2. upstream' = [upstream EXCEPT !.build = [upstream.build EXCEPT ![b] = @ + 1]]
      BY <1>3, <2>1
    <3> QED
      BY <1>3, <3>1, <3>2
  <2>2. ASSUME NEW p \in Projects, upstream' = [upstream EXCEPT !.pin[p] = @ + 1]
        PROVE  upstream' \in [build : [Browsers -> Nat \ {0}], pin : [Projects -> Nat]]
    <3>1. [upstream.pin EXCEPT ![p] = @ + 1] \in [Projects -> Nat]
      BY <1>3
    <3>2. upstream' = [upstream EXCEPT !.pin = [upstream.pin EXCEPT ![p] = @ + 1]]
      BY <1>3, <2>2
    <3> QED
      BY <1>3, <3>1, <3>2
  <2>3. ASSUME upstream' = [upstream EXCEPT !.build = [b \in Browsers |-> 1]]
        PROVE  upstream' \in [build : [Browsers -> Nat \ {0}], pin : [Projects -> Nat]]
    BY <1>3, <2>3
  <2> QED
    BY <1>2, <2>1, <2>2, <2>3
<1>5. RepositoryTypes'
  BY <1>1, <1>4 DEF IInv, Types, RepositoryTypes
<1>6. TagsInOrder'
  BY <1>1 DEF IInv, TagsInOrder, Precedes
<1>7. moves' \in 0 .. MaxMoves
  BY <1>1 DEF IInv, Types, CounterTypes
<1> QED
  BY <1>1, <1>5, <1>6, <1>7, OthersAct

LEMMA TagStep == ASSUME IInv, NEW b \in Browsers, Tag(b) PROVE IInv'
<1> DEFINE t == origin.tree
           new == [browser |-> b, version |-> t.version, build |-> t.number, pin |-> t.pin]
<1>1. /\ tags' = Append(tags, new)
      /\ UNCHANGED <<upstream, origin, clone, work, truncated, run, ready, runs, moves, failures>>
  BY DEF Tag
<1>2. /\ tags \in Seq(Tags) /\ Len(tags) \in Nat /\ clone.tags \in 0 .. Len(tags)
      /\ t \in Trees
  BY DEF IInv, Types, RepositoryTypes
<1>3. new \in Tags /\ new.version = t.version /\ new.build = t.number
      /\ t.version \in 1 .. MaxVersion /\ t.number \in Nat
  <2>1. t.version \in 1 .. MaxVersion /\ t.number \in Nat /\ t.pin \in [Projects -> Nat]
    BY <1>2 DEF Trees
  <2>2. t.version \in Nat
    BY <2>1
  <2> HIDE DEF t
  <2>3. new \in Tags
    BY <2>1, <2>2 DEF Tags
  <2> QED
    BY <2>1, <2>3
<1> HIDE DEF new, t
<1>4. /\ tags' \in Seq(Tags) /\ Len(tags') = Len(tags) + 1
      /\ \A i \in 1 .. Len(tags) : tags'[i] = tags[i]
      /\ tags'[Len(tags) + 1] = new
  BY <1>1, <1>2, <1>3
<1>5. RepositoryTypes'
  BY <1>1, <1>2, <1>4 DEF IInv, Types, RepositoryTypes
<1>6. TagsInOrder'
  <2>1. /\ \A i \in 1 .. Len(tags) :
              /\ tags[i].version \in 1 .. MaxVersion
              /\ Precedes(tags[i], [version |-> t.version, build |-> t.number])
        /\ \A i, j \in 1 .. Len(tags) : i <= j => Precedes(tags[i], tags[j])
    BY DEF IInv, TagsInOrder, t
  <2>2. \A s : Precedes(s, [version |-> t.version, build |-> t.number]) => Precedes(s, new)
    BY <1>3 DEF Precedes
  <2>3. Precedes(new, new) /\ Precedes(new, [version |-> t.version, build |-> t.number])
    BY <1>3 DEF Precedes
  <2>4. \A i \in 1 .. Len(tags') :
              /\ tags'[i].version \in 1 .. MaxVersion
              /\ Precedes(tags'[i], [version |-> t.version, build |-> t.number])
    <3>1. \A i \in 1 .. Len(tags') : i \in 1 .. Len(tags) \/ i = Len(tags) + 1
      BY <1>2, <1>4
    <3> QED
      BY <1>3, <1>4, <2>1, <2>3, <3>1
  <2>5. \A i, j \in 1 .. Len(tags') : i <= j => Precedes(tags'[i], tags'[j])
    <3>1. \A i, j \in 1 .. Len(tags') : i <= j =>
             \/ i \in 1 .. Len(tags) /\ j \in 1 .. Len(tags)
             \/ i \in 1 .. Len(tags) /\ j = Len(tags) + 1
             \/ i = Len(tags) + 1 /\ j = Len(tags) + 1
      BY <1>2, <1>4
    <3> QED
      BY <1>4, <2>1, <2>2, <2>3, <3>1
  <2>6. [version |-> origin.tree.version, build |-> origin.tree.number]' = [version |-> t.version, build |-> t.number]
    BY <1>1 DEF t
  <2>7. \A i \in 1 .. Len(tags') : \A s : Precedes(tags'[i], s)
            <=> (tags'[i].version < s.version \/ (tags'[i].version = s.version /\ tags'[i].build <= s.build))
    BY DEF Precedes
  <2> QED
    BY <2>4, <2>5, <2>6 DEF TagsInOrder, Precedes
<1>7. moves' \in 0 .. MaxMoves /\ origin'.tree = origin.tree
  BY <1>1 DEF IInv, Types, CounterTypes
<1> QED
  BY <1>1, <1>4, <1>5, <1>6, <1>7, OthersAct

LEMMA MergeStep == ASSUME IInv, Merge PROVE IInv'
<1>1. /\ pc = "idle" /\ ready /\ moves < MaxMoves
      /\ origin' = [n |-> origin.n + 1, tree |-> work]
      /\ clone' = [clone EXCEPT !.base = origin.n + 1, !.seen = origin.n + 1, !.tree = work]
      /\ ready' = FALSE /\ moves' = moves + 1
      /\ UNCHANGED <<tags, upstream, work, truncated, run, runs, failures>>
  BY DEF Merge
<1>2. UNCHANGED <<pc, opts, last, build, known, todo>>
  BY <1>1 DEF run
<1>3. /\ clone \in [base : Nat, seen : Nat, tags : Nat, tree : Trees] /\ origin.n \in Nat /\ work \in Trees
      /\ origin.tree \in Trees /\ tags \in Seq(Tags) /\ Len(tags) \in Nat
  BY DEF IInv, Types, RepositoryTypes, WorkTypes
<1>4. /\ clone' \in [base : Nat, seen : Nat, tags : Nat, tree : Trees] /\ origin' \in [n : Nat, tree : Trees]
      /\ clone'.base = origin.n + 1 /\ clone'.seen = origin.n + 1 /\ clone'.tags = clone.tags
      /\ clone'.tree = work /\ origin'.tree = work /\ origin'.n = origin.n + 1
  <2>1. clone' = [base |-> origin.n + 1, seen |-> origin.n + 1, tags |-> clone.tags, tree |-> work]
    BY <1>1, <1>3
  <2>2. origin.n + 1 \in Nat /\ clone.tags \in Nat
    BY <1>3
  <2> QED
    BY <1>1, <1>3, <2>1, <2>2
<1>5. RepositoryTypes'
  <2>1. clone'.base \in 0 .. clone'.seen /\ clone'.seen \in 0 .. origin'.n
    BY <1>3, <1>4
  <2> QED
    BY <1>1, <1>4, <2>1 DEF IInv, Types, RepositoryTypes
<1>6. /\ work.version \in {origin.tree.version, origin.tree.version + 1}
      /\ Found(work.version, work.number, clone.tags)
      /\ work.version = origin.tree.version => work.number >= origin.tree.number
  BY <1>1 DEF IInv, ReadyOK
<1>7. TagsInOrder'
  <2>1. /\ \A i \in 1 .. Len(tags) :
              /\ tags[i].version \in 1 .. MaxVersion
              /\ Precedes(tags[i], [version |-> origin.tree.version, build |-> origin.tree.number])
        /\ \A i, j \in 1 .. Len(tags) : i <= j => Precedes(tags[i], tags[j])
    BY DEF IInv, TagsInOrder
  <2>2. \A i \in 1 .. Len(tags) : tags[i].build \in Nat /\ tags[i].version \in Nat
    <3>1. \A i \in 1 .. Len(tags) : tags[i] \in Tags
      BY <1>3
    <3> QED
      BY <3>1 DEF Tags
  <2>3. /\ origin.tree.version \in Nat /\ origin.tree.number \in Nat /\ work.version \in Nat /\ work.number \in Nat
    <3>1. /\ origin.tree.version \in 1 .. MaxVersion /\ origin.tree.number \in Nat
          /\ work.version \in 1 .. MaxVersion /\ work.number \in Nat
      BY <1>3 DEF Trees
    <3> QED
      BY <3>1
  <2>4. \A i \in 1 .. Len(tags) : Precedes(tags[i], [version |-> work.version, build |-> work.number])
    <3> SUFFICES ASSUME NEW i \in 1 .. Len(tags)
                 PROVE  Precedes(tags[i], [version |-> work.version, build |-> work.number])
      OBVIOUS
    <3> DEFINE merged == [version |-> origin.tree.version, build |-> origin.tree.number]
               next == [version |-> work.version, build |-> work.number]
    <3>1. Precedes(tags[i], merged)
      BY <2>1
    <3>2. Precedes(merged, next)
      BY <1>6, <2>3 DEF Precedes
    <3>3. /\ tags[i].build \in Nat /\ tags[i].version \in Nat
          /\ merged.build \in Nat /\ merged.version \in Nat /\ next.build \in Nat /\ next.version \in Nat
      BY <2>2, <2>3
    <3> HIDE DEF merged, next
    <3>4. Precedes(tags[i], next)
      BY <3>1, <3>2, <3>3, PrecedesTransitive
    <3> QED
      BY <3>4 DEF next
  <2> QED
    BY <1>1, <1>4, <2>1, <2>4 DEF TagsInOrder, Precedes
<1>8. MergedIsFound'
  BY <1>1, <1>4, <1>6 DEF MergedIsFound, Found, Builds
<1>9. WorkTypes'
  BY <1>1 DEF IInv, Types, WorkTypes
<1>10. CounterTypes'
  <2>1. ready' \in BOOLEAN
    BY <1>1
  <2>2. runs' \in 0 .. MaxRuns /\ moves' \in 0 .. MaxMoves /\ failures' \in 0 .. MaxFailures
    BY <1>1 DEF IInv, Types, CounterTypes
  <2> QED
    BY <2>1, <2>2 DEF CounterTypes
<1>11. RunTypes'
  BY <1>1, <1>2, <1>4 DEF IInv, Types, RunTypes
<1>12. RunOK' /\ WrittenOK' /\ GeckoviewOK'
  BY <1>1, <1>2 DEF RunOK, WrittenOK, GeckoviewOK
<1>13. ReadyOK'
  BY <1>1 DEF ReadyOK
<1> QED
  BY <1>5, <1>7, <1>8, <1>9, <1>10, <1>11, <1>12, <1>13 DEF IInv, Types

LEMMA PullStep == ASSUME IInv, Pull PROVE IInv'
<1>1. /\ pc = "idle" /\ ready' = FALSE
      /\ clone' = [base |-> origin.n, seen |-> origin.n, tags |-> Len(tags), tree |-> origin.tree]
      /\ work' = origin.tree /\ truncated' = {}
      /\ UNCHANGED <<tags, upstream, origin, run, runs, moves, failures>>
  BY DEF Pull
<1>2. UNCHANGED <<pc, opts, last, build, known, todo>>
  BY <1>1 DEF run
<1>3. /\ origin \in [n : Nat, tree : Trees] /\ Len(tags) \in Nat /\ clone.tags \in 0 .. Len(tags)
      /\ clone.tags \in Nat /\ known \in 0 .. clone.tags
  BY DEF IInv, Types, RepositoryTypes, RunTypes
<1>4. RepositoryTypes' /\ WorkTypes'
  BY <1>1, <1>3 DEF IInv, Types, RepositoryTypes, WorkTypes
<1>5. TagsInOrder'
  BY <1>1 DEF IInv, TagsInOrder, Precedes
<1>6. MergedIsFound'
  <2>1. Found(origin.tree.version, origin.tree.number, Len(tags))
    BY <1>3, FoundGrows DEF IInv, MergedIsFound
  <2>2. clone'.tags = Len(tags) /\ clone'.tree = origin.tree
    BY <1>1
  <2> QED
    BY <1>1, <2>1, <2>2 DEF MergedIsFound, Found, Builds
<1>7. RunTypes'
  <2>1. known' \in 0 .. clone'.tags
    BY <1>1, <1>2, <1>3
  <2> QED
    BY <1>1, <1>2, <2>1 DEF IInv, Types, RunTypes
<1>8. CounterTypes'
  <2>1. ready' \in BOOLEAN
    BY <1>1
  <2>2. runs' \in 0 .. MaxRuns /\ moves' \in 0 .. MaxMoves /\ failures' \in 0 .. MaxFailures
    BY <1>1 DEF IInv, Types, CounterTypes
  <2> QED
    BY <2>1, <2>2 DEF CounterTypes
<1>9. RunOK' /\ WrittenOK' /\ GeckoviewOK'
  BY <1>1, <1>2 DEF RunOK, WrittenOK, GeckoviewOK
<1>10. ReadyOK'
  BY <1>1 DEF ReadyOK
<1> QED
  BY <1>4, <1>5, <1>6, <1>7, <1>8, <1>9, <1>10 DEF IInv, Types

LEMMA NextIInv == IInv /\ [Next]_vars => IInv'
<1> SUFFICES ASSUME IInv, [Next]_vars PROVE IInv'
  OBVIOUS
<1>1. CASE Script
  BY <1>1, StartStep, BranchSanityCheckStep, UpdateFirefoxStep, UpdateGeckoviewStep, UpdateProjectStep,
     UpdateRbmConfStep, MakeChangelogsStep, FinishStep, RaiseStep, FailStep DEF Script
<1>2. CASE Merge \/ Pull \/ OthersMerge \/ UpstreamMoves
  BY <1>2, MergeStep, PullStep, OthersMergeStep, UpstreamMovesStep
<1>3. CASE \E b \in Browsers : Tag(b)
  BY <1>3, TagStep
<1>4. CASE UNCHANGED vars
  <2>1. UNCHANGED <<clone, work, truncated, run, ready, runs, failures, moves, origin, tags, upstream>>
    BY <1>4 DEF vars
  <2>2. moves' \in 0 .. MaxMoves /\ RepositoryTypes' /\ TagsInOrder'
    BY <2>1, SameRepository DEF IInv, Types, CounterTypes
  <2> QED
    BY <2>1, <2>2, OthersAct
<1> QED
  BY <1>1, <1>2, <1>3, <1>4 DEF Next

-----------------------------------------------------------------------------
(* The versions among the tags.                                             *)

VersionsOf(J) == {tags[i].version : i \in J}

\* Each version has its last build, and the last of all is one.
LEMMA LastBuildsFacts ==
    ASSUME NEW I \in Indices
    PROVE  /\ LastBuilds(I) \subseteq I /\ LastBuilds(I) \in Indices
           /\ VersionsOf(LastBuilds(I)) = VersionsOf(I)
           /\ I # {} => LastBuilds(I) # {} /\ Max(LastBuilds(I)) = Max(I)
           /\ \A i, j \in LastBuilds(I) : tags[i].version = tags[j].version => i = j
<1>1. \A i \in I : i \in Nat
  BY IndicesFacts
<1>2. LastBuilds(I) \subseteq I
  BY DEF LastBuilds
<1>3. LastBuilds(I) \in Indices
  BY <1>2, IndicesFacts
<1>4. ASSUME NEW i \in I PROVE \E j \in LastBuilds(I) : tags[j].version = tags[i].version
  <2> DEFINE J == {j \in I : tags[j].version = tags[i].version}
  <2>1. J \subseteq I /\ J # {}
    OBVIOUS
  <2>2. J \in Indices
    BY <2>1, IndicesFacts
  <2> HIDE DEF J
  <2>3. Max(J) \in J /\ \A j \in J : j <= Max(J)
    BY <2>1, <2>2, MaxOf
  <2>4. Max(J) \in I /\ tags[Max(J)].version = tags[i].version
    BY <2>3 DEF J
  <2>5. ASSUME NEW j \in I, j > Max(J) PROVE tags[j].version # tags[Max(J)].version
    <3>1. j \notin J
      BY <1>1, <2>3, <2>4, <2>5
    <3> QED
      BY <2>4, <3>1 DEF J
  <2> QED
    BY <2>4, <2>5 DEF LastBuilds
<1>5. VersionsOf(LastBuilds(I)) = VersionsOf(I)
  BY <1>2, <1>4 DEF VersionsOf
<1>6. ASSUME I # {} PROVE LastBuilds(I) # {} /\ Max(LastBuilds(I)) = Max(I)
  <2>1. Max(I) \in I /\ \A j \in I : j <= Max(I)
    BY <1>6, MaxOf
  <2>2. Max(I) \in LastBuilds(I)
    BY <1>1, <2>1 DEF LastBuilds
  <2>3. Max(LastBuilds(I)) \in LastBuilds(I) /\ \A j \in LastBuilds(I) : j <= Max(LastBuilds(I))
    BY <1>3, <2>2, MaxOf
  <2> QED
    BY <1>1, <1>2, <2>1, <2>2, <2>3
<1>7. \A i, j \in LastBuilds(I) : tags[i].version = tags[j].version => i = j
  BY <1>1 DEF LastBuilds
<1> QED
  BY <1>2, <1>3, <1>5, <1>6, <1>7

\* Indices of different versions are as many as the versions.
LEMMA VersionsCount ==
    ASSUME NEW J \in Indices, \A i, j \in J : tags[i].version = tags[j].version => i = j
    PROVE  Cardinality(VersionsOf(J)) = Cardinality(J)
<1> DEFINE g == [i \in J |-> tags[i].version]
<1>1. g \in Bijection(J, VersionsOf(J))
  <2>1. g \in [J -> VersionsOf(J)] /\ \A i, j \in J : g[i] = g[j] => i = j
    BY DEF VersionsOf
  <2>2. \A v \in VersionsOf(J) : \E i \in J : g[i] = v
    BY DEF VersionsOf
  <2> HIDE DEF g
  <2> QED
    BY <2>1, <2>2 DEF Bijection, Injection, Surjection, IsInjective
<1>2. IsFiniteSet(J)
  BY IndicesFacts
<1> HIDE DEF g
<1> QED
  BY <1>1, <1>2, FS_Bijection DEF ExistsBijection

\* What a run has found, for a browser.
LEMMA ReleasesFacts ==
    ASSUME IInv, pc # "idle", NEW b \in Browsers
    PROVE  /\ Others(opts.version, b, known) \in Indices
           /\ last[b] = NewestOf(LastBuilds(Others(opts.version, b, known)), NumIncrementals)
           /\ known \in 0 .. Len(tags) /\ Len(tags) \in Nat /\ NumIncrementals \in Nat \ {0}
<1>1. tags \in Seq(Tags) /\ clone.tags \in 0 .. Len(tags) /\ known \in 0 .. clone.tags
  BY DEF IInv, Types, RepositoryTypes, RunTypes
<1>2. Len(tags) \in Nat
  BY <1>1
<1>3. known \in 0 .. Len(tags) /\ known \in Nat
  BY <1>1, <1>2
<1>4. Others(opts.version, b, known) \subseteq 1 .. known
  BY DEF Others
<1>5. Others(opts.version, b, known) \in Indices
  BY <1>3, <1>4, IndicesBelow
<1>6. last[b] = LastOf(opts.version, b, known)
  BY DEF IInv, RunOK
<1> QED
  BY <1>2, <1>3, <1>5, <1>6 DEF LastOf

LEMMA MinOfTwo ==
    ASSUME NEW n \in Nat, NEW m \in Nat
    PROVE  Min({n, m}) = IF n <= m THEN n ELSE m
<1> DEFINE x == IF n <= m THEN n ELSE m
<1>1. x \in {n, m} /\ \A y \in {n, m} : x <= y
  OBVIOUS
<1>2. \A z \in {n, m} : (\A y \in {n, m} : z <= y) => z = x
  OBVIOUS
<1> HIDE DEF x
<1>3. Min({n, m}) = x
  BY <1>1, <1>2 DEF Min
<1> QED
  BY <1>3 DEF x

LEMMA OnTop ==
    ASSUME NEW S, NEW s \in Seq(S), NEW e
    PROVE  Head(<<e>> \o s) = e /\ Tail(<<e>> \o s) = s
<1> DEFINE T == S \cup {e}
<1>1. /\ <<e>> \o s \in Seq(T) /\ Len(<<e>> \o s) = Len(s) + 1 /\ Len(s) \in Nat
      /\ (<<e>> \o s)[1] = e
      /\ \A i \in 1 .. Len(s) : (<<e>> \o s)[i + 1] = s[i]
  BY DEF T
<1>2. Head(<<e>> \o s) = e
  BY <1>1
<1>3. Tail(<<e>> \o s) = [i \in 1 .. Len(s) |-> (<<e>> \o s)[i + 1]]
  BY <1>1
<1>4. s = [i \in 1 .. Len(s) |-> s[i]]
  OBVIOUS
<1> QED
  BY <1>1, <1>2, <1>3, <1>4

-----------------------------------------------------------------------------

\* The types of the state.
THEOREM TypeCorrect == Spec => []TypeOK
<1>1. IInv => TypeOK
  BY TypesOK DEF IInv
<1> QED
  BY InitIInv, NextIInv, <1>1, PTL DEF Spec

\* The build number of a complete preparation is higher than every build of the version that
\* the clone knew: it is found from the newest tag of the version, and what was tagged is in
\* order, since nothing is merged with a lower number than the number merged before.
THEOREM BuildsAreNew == Spec => []BuildIsNew
<1>1. IInv => BuildIsNew
  <2> SUFFICES ASSUME IInv, AtEnd, ~opts.only, NEW i \in 1 .. known, tags[i].version = work.version
               PROVE  tags[i].build < work.number
    BY DEF BuildIsNew
  <2>1. /\ work.version = opts.version /\ work.number = build
        /\ build = BuildAfter(Builds(opts.version, known))
    BY DEF IInv, AtEnd, RunOK, WrittenOK
  <2>2. RepositoryTypes /\ TagsInOrder /\ "tbb" \in Browsers /\ pc # "idle"
    BY DEF IInv, Types, AtEnd
  <2>3. known \in 0 .. Len(tags)
    BY <2>2, ReleasesFacts
  <2>4. i \in Builds(opts.version, known)
    BY <2>1 DEF Builds
  <2> QED
    BY <2>1, <2>2, <2>3, <2>4, BuildFacts
<1> QED
  BY InitIInv, NextIInv, <1>1, PTL DEF Spec

\* A changelog has what changed since the browser's last version, on top of what is merged:
\* the greatest of the tags taken is the greatest of all, and each run starts again from HEAD's.
THEOREM ChangelogsAreOfTheTree == Spec => []ChangelogIsOfTheTree
<1>1. IInv => ChangelogIsOfTheTree
  <2> SUFFICES ASSUME IInv, AtEnd, NEW b \in opts.browsers
               PROVE  LET had == {i \in 1 .. known : tags[i].browser = b /\ tags[i].version # opts.version}
                      IN  /\ Tail(work.changelog[b]) = clone.tree.changelog[b]
                          /\ Head(work.changelog[b]).version = work.version
                          /\ \A p \in ProjectsOf[b] : p \in Head(work.changelog[b]).updates
                                <=> \E i \in had : i = Max(had) /\ tags[i].pin[p] # work.pin[p]
    BY DEF ChangelogIsOfTheTree
  <2> DEFINE H == Others(opts.version, b, known)
  <2>1. b \in Browsers /\ pc # "idle" /\ clone.tree \in Trees
    BY DEF IInv, Types, RunTypes, RepositoryTypes, AtEnd
  <2>2. H \in Indices /\ last[b] = NewestOf(LastBuilds(H), NumIncrementals) /\ NumIncrementals \in Nat \ {0}
    BY <2>1, ReleasesFacts
  <2>3. work.version = opts.version /\ last[b] # {} /\ work.changelog[b] = Changelog(b)
    BY DEF IInv, WrittenOK, AtEnd
  <2>4. H # {} /\ Max(last[b]) = Max(H) /\ Max(H) \in H
    <3> HIDE DEF H
    <3>1. LastBuilds(H) \in Indices /\ LastBuilds(H) \subseteq H
      BY <2>2, LastBuildsFacts
    <3>2. LastBuilds(H) # {}
      BY <2>2, <2>3, <3>1, NewestCount
    <3>3. H # {}
      BY <3>1, <3>2
    <3>4. Max(last[b]) = Max(LastBuilds(H))
      BY <2>2, <3>1, <3>2, NewestHasMax
    <3> QED
      BY <2>2, <3>3, <3>4, LastBuildsFacts, MaxOf
  <2>5. clone.tree.changelog[b] \in Seq(ChangelogSections)
    BY <2>1 DEF Trees
  <2>6. Tail(work.changelog[b]) = clone.tree.changelog[b] /\ Head(work.changelog[b]) = Section(b)
    BY <2>3, <2>5, OnTop DEF Changelog
  <2>7. /\ Section(b).version = opts.version
        /\ \A p \in ProjectsOf[b] : p \in Section(b).updates <=> work.pin[p] # tags[Max(H)].pin[p]
    BY <2>4 DEF Section
  <2>8. H = {i \in 1 .. known : tags[i].browser = b /\ tags[i].version # opts.version}
    BY DEF Others
  <2> HIDE DEF H
  <2>9. \A p \in ProjectsOf[b] : p \in Head(work.changelog[b]).updates
                <=> \E i \in H : i = Max(H) /\ tags[i].pin[p] # work.pin[p]
    BY <2>4, <2>6, <2>7
  <2> QED
    BY <2>3, <2>6, <2>7, <2>8, <2>9
<1> QED
  BY InitIInv, NextIInv, <1>1, PTL DEF Spec

\* The versions for incremental updates are the last ones: one for each of the browser's last
\* builds, which are as many as its versions, and those that are left out have earlier tags,
\* which are of earlier versions.
THEOREM IncrementalsAreLast == Spec => []IncrementalsAreTheLast
<1>1. IInv => IncrementalsAreTheLast
  <2> SUFFICES ASSUME IInv, AtEnd, ~opts.only, NEW b \in Browsers
               PROVE  LET had == {tags[i].version : i \in {j \in 1 .. known : tags[j].browser = b}} \ {work.version}
                          from == {f.version : f \in {g \in work.from : b \in g.browsers}}
                      IN  /\ from \subseteq had
                          /\ Cardinality(from) = Min({NumIncrementals, Cardinality(had)})
                          /\ \A v \in from, w \in had \ from : w < v
    BY DEF IncrementalsAreTheLast
  <2> DEFINE H == Others(opts.version, b, known)
             had == {tags[i].version : i \in {j \in 1 .. known : tags[j].browser = b}} \ {work.version}
             from == {f.version : f \in {g \in work.from : b \in g.browsers}}
  <2>1. pc # "idle" /\ work.version = opts.version /\ work.from = IncrementalFrom
    BY DEF IInv, WrittenOK, AtEnd
  <2>2. /\ H \in Indices /\ last[b] = NewestOf(LastBuilds(H), NumIncrementals)
        /\ NumIncrementals \in Nat \ {0} /\ known \in 0 .. Len(tags) /\ Len(tags) \in Nat
    BY <2>1, ReleasesFacts
  <2>3. had = VersionsOf(H)
    BY <2>1 DEF VersionsOf, Others
  <2>4. from = VersionsOf(last[b])
    <3>1. from = {f.version : f \in {g \in IncrementalFrom : b \in g.browsers}}
      BY <2>1
    <3>2. IncrementalFrom = {[version |-> v, browsers |-> {c \in Browsers : v \in VersionsOf(last[c])}] :
                                v \in UNION {VersionsOf(last[c]) : c \in Browsers}}
      BY DEF IncrementalFrom, VersionsOf
    <3> HIDE DEF from
    <3>3. \A v : v \in from <=> v \in VersionsOf(last[b])
      <4>1. \A v \in VersionsOf(last[b]) : v \in from
        <5> TAKE v \in VersionsOf(last[b])
        <5> DEFINE g == [version |-> v, browsers |-> {c \in Browsers : v \in VersionsOf(last[c])}]
        <5>1. g \in IncrementalFrom /\ b \in g.browsers /\ g.version = v
          BY <3>2
        <5> QED
          BY <3>1, <5>1
      <4>2. \A g \in IncrementalFrom : b \in g.browsers => g.version \in VersionsOf(last[b])
        BY <3>2
      <4> QED
        BY <3>1, <4>1, <4>2
    <3> QED
      BY <3>3
  <2>5. \A i \in H : tags[i].version \in Nat
    <3>1. H \subseteq 1 .. Len(tags)
      BY <2>2 DEF Others
    <3>2. \A i \in 1 .. Len(tags) : tags[i].version \in 1 .. MaxVersion
      BY DEF IInv, TagsInOrder
    <3> QED
      BY <3>1, <3>2
  <2>6. H \subseteq 1 .. Len(tags)
    BY <2>2 DEF Others
  <2> HIDE DEF H, had, from
  <2>7. /\ LastBuilds(H) \in Indices /\ LastBuilds(H) \subseteq H /\ VersionsOf(LastBuilds(H)) = VersionsOf(H)
        /\ \A i, j \in LastBuilds(H) : tags[i].version = tags[j].version => i = j
    BY <2>2, LastBuildsFacts
  <2>8. /\ last[b] \subseteq LastBuilds(H)
        /\ Cardinality(last[b]) = IF NumIncrementals <= Cardinality(LastBuilds(H))
                                     THEN NumIncrementals ELSE Cardinality(LastBuilds(H))
    BY <2>2, <2>7, NewestCount
  <2>9. last[b] \in Indices
    BY <2>7, <2>8, IndicesFacts
  <2>10. from \subseteq had
    BY <2>3, <2>4, <2>7, <2>8 DEF VersionsOf
  <2>11. Cardinality(from) = Min({NumIncrementals, Cardinality(had)})
    <3>1. Cardinality(from) = Cardinality(last[b])
      <4>1. \A i, j \in last[b] : tags[i].version = tags[j].version => i = j
        BY <2>7, <2>8
      <4> QED
        BY <2>4, <2>9, <4>1, VersionsCount
    <3>2. Cardinality(had) = Cardinality(LastBuilds(H))
      BY <2>3, <2>7, VersionsCount
    <3>3. Cardinality(LastBuilds(H)) \in Nat
      BY <2>7, IndicesFacts
    <3> QED
      BY <2>2, <2>8, <3>1, <3>2, <3>3, MinOfTwo
  <2>12. ASSUME NEW v \in from, NEW w \in had \ from PROVE w < v
    <3>1. PICK i \in last[b] : v = tags[i].version
      BY <2>4 DEF VersionsOf
    <3>2. PICK j \in LastBuilds(H) : w = tags[j].version
      BY <2>3, <2>7 DEF VersionsOf
    <3>3. j \notin last[b]
      BY <2>4, <3>2 DEF VersionsOf
    <3>4. j < i
      BY <2>2, <2>7, <3>3, NewestAreLater
    <3>5. i \in 1 .. Len(tags) /\ j \in 1 .. Len(tags) /\ v \in Nat /\ w \in Nat
      BY <2>5, <2>6, <2>7, <2>8, <3>1, <3>2
    <3>6. w <= v
      BY <3>1, <3>2, <3>4, <3>5 DEF IInv, TagsInOrder, Precedes
    <3>7. w # v
      OBVIOUS
    <3> QED
      BY <3>5, <3>6, <3>7
  <2> QED
    BY <2>10, <2>11, <2>12 DEF had, from
<1> QED
  BY InitIInv, NextIInv, <1>1, PTL DEF Spec

\* Each browser is built from the firefox build found for it, geckoview from Tor Browser's:
\* what is left of mullvadbrowser's own build is either reset or replaced.
THEOREM BuildsAreOfTheBrowsers == Spec => BuildsAreTheBrowsers
<1> DEFINE A == /\ pc = "firefox" /\ pc' \in {"geckoview", "projects"} =>
                     \A b \in opts.browsers : FirefoxBuild(work', b) = upstream.build[b]
                /\ pc = "changelogs" /\ pc' = "idle" /\ ready' /\ Android =>
                     work.gecko = FirefoxBuild(work, "tbb")
<1>1. IInv /\ [Next]_vars => [A]_vars
  <2> SUFFICES ASSUME IInv, Next PROVE A
    OBVIOUS
  <2>1. ASSUME pc = "firefox", pc' \in {"geckoview", "projects"}, NEW b \in opts.browsers
        PROVE  FirefoxBuild(work', b) = upstream.build[b]
    <3>1. work' = WithBuilds(work)
      BY <2>1 DEF Next, Script, Start, BranchSanityCheck, UpdateFirefox, UpdateGeckoview, UpdateProject,
                  UpdateRbmConf, MakeChangelogs, Finish, Raise, Fail, Exit, Merge, Pull, OthersMerge,
                  UpstreamMoves, Tag, run
    <3>2. /\ upstream.build["tbb"] \in Nat \ {0} /\ upstream.build["mb"] \in Nat \ {0}
          /\ work \in Trees /\ opts.browsers \subseteq {"tbb", "mb"}
      BY DEF IInv, Types, RepositoryTypes, WorkTypes, RunTypes
    <3>3. CASE opts.browsers = {"tbb"}
      BY <3>1, <3>2, <3>3 DEF WithBuilds, FirefoxBuild, Trees
    <3>4. CASE opts.browsers = {"mb"}
      BY <3>1, <3>2, <3>4 DEF WithBuilds, FirefoxBuild, Trees
    <3>5. CASE opts.browsers = {"tbb", "mb"}
      BY <3>1, <3>2, <3>5 DEF WithBuilds, FirefoxBuild, Trees
    <3> QED
      BY <3>2, <3>3, <3>4, <3>5
  <2>2. ASSUME pc = "changelogs", pc' = "idle", ready', Android PROVE work.gecko = FirefoxBuild(work, "tbb")
    <3>1. ~ready
      <4>1. pc # "idle"
        BY <2>2
      <4> QED
        BY <4>1 DEF IInv, RunOK
    <3>2. Finish
      <4>1. ~ (ready' = ready)
        BY <2>2, <3>1
      <4>2. ~ (ready' = FALSE)
        BY <2>2
      <4> QED
        BY <2>2, <4>1, <4>2 DEF Next, Script, Start, BranchSanityCheck, UpdateFirefox, UpdateGeckoview, UpdateProject,
                  UpdateRbmConf, MakeChangelogs, Raise, Fail, Merge, Pull, OthersMerge, UpstreamMoves, Tag, run
    <3>3. ~opts.only
      BY <2>2, <3>2 DEF Finish
    <3>4. work.gecko = work.build
      BY <2>2, <3>3 DEF IInv, GeckoviewOK
    <3> QED
      BY <3>4 DEF FirefoxBuild
  <2> QED
    BY <2>1, <2>2
<1>2. Spec => [][A]_vars
  BY InitIInv, NextIInv, <1>1, PTL DEF Spec
<1> QED
  BY <1>2 DEF BuildsAreTheBrowsers
=============================================================================

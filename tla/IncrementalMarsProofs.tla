------------------------ MODULE IncrementalMarsProofs ------------------------
(***************************************************************************)
(* Theorems about IncrementalMars, for any platforms, versions, number of  *)
(* processors and failures.  What the local machine has is LocalInv, which *)
(* the builder's steps leave alone: all its children are those of the      *)
(* command that runs, each of another task, and what is wanted is there,   *)
(* or to be dealt with, or being made by one of them.                      *)
(***************************************************************************)
EXTENDS IncrementalMars, FiniteSetTheorems, FunctionTheorems, TLAPS

Early == {"missing", "mars", "convert", "full", "remove"}
Making == {"gen", "wait"}

LocalChildren == {k \in children : k.m = "local"}

NoneWasUnsigned ==
    \A t \in list["local"] : t[2] = MacOS => inc["local"][t] # "unsigned"

OwnChildren ==
    /\ ~synced => pc["local"] = "idle" /\ ~converted
    /\ converted => pc["local"] = "idle"
    /\ pc["local"] \in Early \/ converted => LocalChildren = {}
    /\ pc["local"] \in Making => \A k \in LocalChildren :
         k.parent = pid["local"] /\ k.task \notin todo["local"]
    /\ pc["local"] \in Making => \A j, k \in LocalChildren : j.task = k.task => j = k
    /\ pc["local"] = "wait" => todo["local"] = {}

MadeOrMaking ==
    /\ pc["local"] \in Making => Missing("local") = {}
    /\ pc["local"] \in Making => \A k \in LocalChildren :
         k.status = "ok" => inc["local"][k.task] # "none"
    /\ pc["local"] \in Making => \A t \in Wanted("local") :
         \/ inc["local"][t] # "none" \/ t \in todo["local"]
         \/ \E k \in LocalChildren : k.task = t

Replaced == pc["local"] \in {"missing", "mars"} \cup Making \/ converted => NoneWasUnsigned

LocalInv == OwnChildren /\ MadeOrMaking /\ Replaced /\ AllIncrementals

\* A command has children only when it makes files.
NotYet ==
    /\ IsFiniteSet(children)
    /\ \A m \in Machines : pc[m] \in Early =>
         \A k \in children : k.m = m => k.parent # pid[m]
    /\ \A m \in Machines : pc[m] = "mars" => cur[m] \in Froms

IInv == TypeOK /\ NotYet /\ LocalInv

USE SizesAssumption, VersionsAssumption, MacOSAssumption

-----------------------------------------------------------------------------
\* There is a number that is the parent of no child.
LEMMA UnusedIs ==
    ASSUME TypeOK, IsFiniteSet(children), NEW m \in Machines
    PROVE  /\ Unused(m) \in Nat
           /\ \A k \in children : k.m = m => k.parent # Unused(m)
<1> DEFINE c == Cardinality(children)
           P == {k.parent : k \in children}
<1>1. c \in Nat
  BY FS_CardinalityType
<1>2. IsFiniteSet(P) /\ Cardinality(P) <= c
  <2> DEFINE f == [k \in children |-> k.parent]
  <2>1. f \in [children -> P] /\ \A p \in P : \E k \in children : f[k] = p
    OBVIOUS
  <2>2. f \in Surjection(children, P)
    BY <2>1, Fun_IsSurj
  <2> QED
    BY <2>2, FS_Surjection
<1>3. IsFiniteSet(1 .. c + 1) /\ Cardinality(1 .. c + 1) = c + 1
  BY <1>1, FS_Interval
<1>4. ~(1 .. c + 1 \subseteq P)
  <2> SUFFICES ASSUME 1 .. c + 1 \subseteq P PROVE FALSE
    OBVIOUS
  <2>1. Cardinality(1 .. c + 1) <= Cardinality(P)
    BY <1>2, FS_Subset
  <2>2. Cardinality(P) \in Nat
    BY <1>2, FS_CardinalityType
  <2> HIDE DEF c, P
  <2> QED
    BY <1>1, <1>2, <1>3, <2>1, <2>2
<1>5. PICK n \in 1 .. c + 1 : n \notin P
  BY <1>4
<1>6. \A k \in children : k.m = m => k.parent # n
  BY <1>5
<1>7. /\ Unused(m) \in 1 .. c + 1
      /\ \A k \in children : k.m = m => k.parent # Unused(m)
  BY <1>5, <1>6 DEF Unused
<1> QED
  BY <1>1, <1>7

\* The local machine's invariant speaks only of what is there.
LocalSame ==
    /\ inc'["local"] = inc["local"] /\ prev'["local"] = prev["local"]
    /\ list'["local"] = list["local"] /\ pc'["local"] = pc["local"]
    /\ todo'["local"] = todo["local"] /\ pid'["local"] = pid["local"]
    /\ synced' = synced /\ converted' = converted

LEMMA LocalKept ==
    ASSUME LocalInv, LocalSame, LocalChildren' = LocalChildren
    PROVE  LocalInv'
<1>1. OwnChildren'
  BY DEF LocalInv, LocalSame, OwnChildren
<1>2. MadeOrMaking'
  BY DEF LocalInv, LocalSame, MadeOrMaking, Missing, Wanted
<1>3. Replaced' /\ AllIncrementals'
  BY DEF LocalInv, LocalSame, Replaced, NoneWasUnsigned, AllIncrementals, Incomplete
<1> QED
  BY <1>1, <1>2, <1>3 DEF LocalInv

LEMMA InitIInv == Init => IInv
<1> SUFFICES ASSUME Init PROVE IInv
  OBVIOUS
<1>1. \A m \in Machines : Attached(m) = {}
  BY DEF Init, Attached
<1>2. prev \in [Machines -> [Froms -> [dir : BOOLEAN, mars : SUBSET Platforms]]]
  BY DEF Init
<1>3. TypeOK
  <2>1. \A m \in Machines : Cardinality(Attached(m)) <= NumProcs
    BY <1>1, FS_EmptySet
  <2>2. \A m \in Machines, f \in Froms : prev[m][f].mars \subseteq Published[f]
    BY DEF Init
  <2>3. /\ inc \in [Machines -> [Tasks -> {"none", "unsigned", "signed"}]]
        /\ full \in {"none", "unsigned", "signed"}
        /\ list \in [Machines -> SUBSET Tasks] /\ todo \in [Machines -> SUBSET Tasks]
        /\ pc \in [Machines -> {"idle", "missing", "mars", "gen", "wait", "convert", "full", "remove"}]
        /\ cur \in [Machines -> Froms \cup {0}] /\ pid \in [Machines -> Nat]
    BY DEF Init
  <2>4. /\ children = {} /\ built = FALSE /\ synced = FALSE /\ converted = FALSE
        /\ failures = 0
    BY DEF Init
  <2>5. 0 \in 0 .. MaxFailures
    OBVIOUS
  <2> QED
    BY <1>2, <2>1, <2>2, <2>3, <2>4, <2>5 DEF TypeOK
<1>4. NotYet
  BY FS_EmptySet DEF Init, NotYet
<1>5. LocalInv
  BY DEF Init, LocalInv, OwnChildren, LocalChildren, MadeOrMaking, Replaced, AllIncrementals,
         Machines, Early, Making
<1> QED
  BY <1>3, <1>4, <1>5 DEF IInv

\* What a step that is not a child's does to the number of children of a command.
LEMMA Bound ==
    ASSUME TypeOK, IsFiniteSet(children), NEW m \in Machines,
           pc'[m] \notin Making \/ Attached(m)' \subseteq Attached(m)
    PROVE  Cardinality(Attached(m)') <= NumProcs
<1>1. Attached(m)' \subseteq Attached(m)
  BY DEF Attached, Making
<1>2. IsFiniteSet(Attached(m)) /\ Cardinality(Attached(m)) <= NumProcs
  BY FS_Subset DEF TypeOK, Attached
<1>3. IsFiniteSet(Attached(m)') /\ Cardinality(Attached(m)') <= Cardinality(Attached(m))
  BY <1>1, <1>2, FS_Subset
<1> QED
  BY <1>2, <1>3, FS_CardinalityType

\* The children of the other machine's command are the same.
LEMMA OtherAttached ==
    ASSUME NEW m \in Machines, pc'[m] = pc[m], pid'[m] = pid[m],
           \A k \in children' : k.m = m => k \in children
    PROVE  Attached(m)' \subseteq Attached(m)
  BY DEF Attached

LEMMA StartBuilderKeeps ==
    ASSUME IInv, StartBuilder
    PROVE  IInv'
<1>1. Unused("builder") \in Nat /\ \A k \in children : k.m = "builder" => k.parent # Unused("builder")
  BY UnusedIs DEF IInv, NotYet, Machines
<1>2. /\ pid' = [pid EXCEPT !["builder"] = Unused("builder")]
      /\ pc' = [pc EXCEPT !["builder"] = "missing"]
      /\ UNCHANGED <<prev, inc, full, list, cur, todo, children, built, synced, converted, failures>>
  BY DEF StartBuilder, Goto, files, progress
<1>3. \A m \in Machines : Cardinality(Attached(m)') <= NumProcs
  <2> SUFFICES ASSUME NEW m \in Machines PROVE Cardinality(Attached(m)') <= NumProcs
    OBVIOUS
  <2>1. CASE m = "builder"
    BY <1>2, <2>1, Bound DEF IInv, TypeOK, NotYet, Making
  <2>2. CASE m # "builder"
    BY <1>2, <2>2, Bound, OtherAttached DEF IInv, TypeOK, NotYet
  <2> QED
    BY <2>1, <2>2
<1>4. TypeOK'
  BY <1>1, <1>2, <1>3 DEF IInv, TypeOK, Machines
<1>5. NotYet'
  BY <1>1, <1>2 DEF IInv, TypeOK, NotYet, Machines
<1>6. LocalInv'
  BY <1>2, LocalKept DEF IInv, TypeOK, LocalSame, LocalChildren, Machines
<1> QED
  BY <1>4, <1>5, <1>6 DEF IInv

LEMMA SyncKeeps ==
    ASSUME IInv, Sync
    PROVE  IInv'
<1>1. /\ inc' = [inc EXCEPT !["local"] = inc["builder"]]
      /\ list' = [list EXCEPT !["local"] = list["builder"]]
      /\ synced' = TRUE /\ ~synced
      /\ UNCHANGED <<prev, full, pc, cur, todo, pid, children, built, converted, failures>>
  BY DEF Sync
<1>2. \A m \in Machines : Cardinality(Attached(m)') <= NumProcs
  BY <1>1 DEF IInv, TypeOK, Attached
<1>3. TypeOK'
  BY <1>1, <1>2 DEF IInv, TypeOK, Machines
<1>4. NotYet'
  BY <1>1 DEF IInv, NotYet
<1>5. LocalInv'
  BY <1>1 DEF IInv, LocalInv, OwnChildren, MadeOrMaking, Replaced, AllIncrementals, Making, Early
<1> QED
  BY <1>3, <1>4, <1>5 DEF IInv

LEMMA StartLocalKeeps ==
    ASSUME IInv, StartLocal
    PROVE  IInv'
<1>1. Unused("local") \in Nat
  BY UnusedIs DEF IInv, NotYet, Machines
<1>2. /\ pid' = [pid EXCEPT !["local"] = Unused("local")]
      /\ pc' = [pc EXCEPT !["local"] = "convert"]
      /\ \A k \in children : k.m # "local"
      /\ synced /\ ~converted
      /\ UNCHANGED <<prev, inc, full, list, cur, todo, children, built, synced, converted, failures>>
  BY DEF StartLocal, Goto, files, progress
<1>3. \A m \in Machines : Cardinality(Attached(m)') <= NumProcs
  <2> SUFFICES ASSUME NEW m \in Machines PROVE Cardinality(Attached(m)') <= NumProcs
    OBVIOUS
  <2>1. CASE m = "local"
    BY <1>2, <2>1, Bound DEF IInv, TypeOK, NotYet, Making
  <2>2. CASE m # "local"
    BY <1>2, <2>2, Bound, OtherAttached DEF IInv, TypeOK, NotYet
  <2> QED
    BY <2>1, <2>2
<1>4. TypeOK'
  BY <1>1, <1>2, <1>3 DEF IInv, TypeOK, Machines
<1>5. NotYet'
  BY <1>1, <1>2 DEF IInv, TypeOK, NotYet, Machines
<1>6. LocalInv'
  BY <1>2 DEF IInv, TypeOK, LocalInv, OwnChildren, LocalChildren, MadeOrMaking, Replaced,
             AllIncrementals, Making, Early, Machines
<1> QED
  BY <1>4, <1>5, <1>6 DEF IInv

\* The steps of the local command before it downloads.
LEMMA ConvertKeeps ==
    ASSUME IInv, UnlinkFull \/ MakeFull \/ RemoveIncrementalMars
    PROVE  IInv'
<1>1. /\ pc["local"] \in {"convert", "full", "remove"} /\ pc' = [pc EXCEPT !["local"] = pc'["local"]]
      /\ pc'["local"] \in {"full", "remove", "missing"}
      /\ UNCHANGED <<prev, list, cur, todo, pid, children, built, synced, converted, failures>>
      /\ full' \in {"none", "unsigned", "signed"}
      /\ inc' \in [Machines -> [Tasks -> {"none", "unsigned", "signed"}]]
  <2>1. CASE UnlinkFull
    BY <2>1 DEF UnlinkFull, Goto, progress, IInv, TypeOK, Machines
  <2>2. CASE MakeFull
    BY <2>2 DEF MakeFull, Goto, progress, IInv, TypeOK, Machines
  <2>3. CASE RemoveIncrementalMars
    BY <2>3 DEF RemoveIncrementalMars, Goto, progress, IInv, TypeOK, Machines
  <2> QED
    BY <2>1, <2>2, <2>3
<1>2. \A m \in Machines : Cardinality(Attached(m)') <= NumProcs
  <2> SUFFICES ASSUME NEW m \in Machines PROVE Cardinality(Attached(m)') <= NumProcs
    OBVIOUS
  <2>1. CASE m = "local"
    BY <1>1, <2>1, Bound DEF IInv, NotYet, Making
  <2>2. CASE m # "local"
    BY <1>1, <2>2, Bound, OtherAttached DEF IInv, TypeOK, NotYet
  <2> QED
    BY <2>1, <2>2
<1>3. TypeOK'
  BY <1>1, <1>2 DEF IInv, TypeOK, Machines
<1>4. NotYet'
  BY <1>1 DEF IInv, TypeOK, NotYet, Machines, Early
<1>5. ~converted /\ synced /\ LocalChildren = {}
  BY <1>1 DEF IInv, LocalInv, OwnChildren, Early
<1>6. pc'["local"] = "missing" => NoneWasUnsigned'
  <2> SUFFICES ASSUME pc'["local"] = "missing", NEW t \in list["local"], t[2] = MacOS
               PROVE  inc'["local"][t] = "none"
    BY <1>1 DEF NoneWasUnsigned
  <2>1. RemoveIncrementalMars
    BY DEF UnlinkFull, MakeFull, Goto, IInv, TypeOK, Machines
  <2>2. t \in ToRemove /\ t \in Tasks
    BY DEF ToRemove, IInv, TypeOK, Machines
  <2> QED
    BY <2>1, <2>2 DEF RemoveIncrementalMars, IInv, TypeOK, Machines
<1>7. LocalInv'
  BY <1>1, <1>5, <1>6 DEF LocalInv, OwnChildren, LocalChildren, MadeOrMaking, Replaced,
                         AllIncrementals, Making, Early
<1> QED
  BY <1>3, <1>4, <1>7 DEF IInv

\* Records of a version.
Versions == [dir : BOOLEAN, mars : SUBSET Platforms]

LEMMA VersionRecords ==
    ASSUME NEW v \in Versions, NEW b \in BOOLEAN, NEW s \in SUBSET Platforms
    PROVE  /\ [v EXCEPT !.dir = b] \in Versions /\ [v EXCEPT !.dir = b].mars = v.mars
           /\ [v EXCEPT !.mars = s] \in Versions /\ [v EXCEPT !.mars = s].mars = s
<1>1. /\ v = [dir |-> v.dir, mars |-> v.mars] /\ v.dir \in BOOLEAN /\ v.mars \in SUBSET Platforms
      /\ DOMAIN v = {"dir", "mars"}
  BY DEF Versions
<1>2. [v EXCEPT !.dir = b] \in Versions /\ [v EXCEPT !.dir = b].mars = v.mars
  BY DEF Versions
<1>3. [v EXCEPT !.mars = s] = [dir |-> v.dir, mars |-> s]
  BY <1>1
<1> QED
  BY <1>1, <1>2, <1>3 DEF Versions

\* The archive of machine m with other mars in version f.
LEMMA NewVersion ==
    ASSUME TypeOK, NEW m \in Machines, NEW f \in Froms,
           prev' = [prev EXCEPT ![m] = prev'[m]],
           prev'[m] = [prev[m] EXCEPT ![f] = prev'[m][f]],
           prev'[m][f] \in [dir : BOOLEAN, mars : SUBSET Platforms],
           prev'[m][f].mars \subseteq Published[f]
    PROVE  /\ prev' \in [Machines -> [Froms -> [dir : BOOLEAN, mars : SUBSET Platforms]]]
           /\ \A n \in Machines, g \in Froms : prev'[n][g].mars \subseteq Published[g]
           /\ \A n \in Machines : n # m => prev'[n] = prev[n]
<1> DEFINE R == [dir : BOOLEAN, mars : SUBSET Platforms]
<1>1. prev \in [Machines -> [Froms -> R]] /\ prev[m] \in [Froms -> R] /\ prev'[m][f] \in R
  BY DEF TypeOK
<1> HIDE DEF R
<1>2. prev'[m] \in [Froms -> R] /\ \A g \in Froms : g # f => prev'[m][g] = prev[m][g]
  BY <1>1
<1>3. prev' \in [Machines -> [Froms -> R]] /\ \A n \in Machines : n # m => prev'[n] = prev[n]
  BY <1>1, <1>2
<1>4. \A n \in Machines, g \in Froms : prev'[n][g].mars \subseteq Published[g]
  BY <1>2, <1>3 DEF TypeOK
<1> QED
  BY <1>3, <1>4 DEF R

LEMMA DownloadKeeps ==
    ASSUME IInv, NEW m \in Machines,
           DownloadVersion(m) \/ DownloadMar(m) \/ DownloadedVersion(m)
    PROVE  IInv'
<1>1. /\ pc[m] \in {"missing", "mars"} /\ pc' = [pc EXCEPT ![m] = pc'[m]]
      /\ pc'[m] \in {"missing", "mars"}
      /\ UNCHANGED <<inc, full, list, todo, pid, children, built, synced, converted, failures>>
      /\ cur' \in [Machines -> Froms \cup {0}]
      /\ pc'[m] = "mars" => cur'[m] \in Froms
      /\ \A n \in Machines : n # m => cur'[n] = cur[n]
  <2>1. CASE DownloadVersion(m)
    BY <2>1 DEF DownloadVersion, Missing, Goto, progress, IInv, TypeOK
  <2>2. CASE DownloadMar(m)
    BY <2>2 DEF DownloadMar, progress, IInv, TypeOK, NotYet
  <2>3. CASE DownloadedVersion(m)
    BY <2>3 DEF DownloadedVersion, Goto, files, progress, IInv, TypeOK
  <2> QED
    BY <2>1, <2>2, <2>3
<1>2. /\ prev' \in [Machines -> [Froms -> [dir : BOOLEAN, mars : SUBSET Platforms]]]
      /\ \A n \in Machines, f \in Froms : prev'[n][f].mars \subseteq Published[f]
      /\ \A n \in Machines : n # m => prev'[n] = prev[n]
  <2>1. CASE DownloadVersion(m)
    <3>1. PICK f \in Froms : prev' = [prev EXCEPT ![m][f].dir = TRUE]
      BY <2>1 DEF DownloadVersion, Missing
    <3>2. /\ prev'[m] = [prev[m] EXCEPT ![f].dir = TRUE]
          /\ prev' = [prev EXCEPT ![m] = prev'[m]]
      BY <3>1 DEF IInv, TypeOK
    <3>3. /\ prev'[m][f] = [prev[m][f] EXCEPT !.dir = TRUE]
          /\ prev'[m] = [prev[m] EXCEPT ![f] = prev'[m][f]]
      BY <3>2 DEF IInv, TypeOK
    <3>4. /\ prev'[m][f] \in [dir : BOOLEAN, mars : SUBSET Platforms]
          /\ prev'[m][f].mars = prev[m][f].mars
      <4> DEFINE r == [prev[m][f] EXCEPT !.dir = TRUE]
      <4>1. prev[m][f] \in Versions /\ TRUE \in BOOLEAN
        BY DEF IInv, TypeOK, Versions
      <4>2. r \in Versions /\ r.mars = prev[m][f].mars
        BY <4>1, VersionRecords
      <4>3. prev'[m][f] = r
        BY <3>3
      <4> HIDE DEF r
      <4> QED
        BY <4>2, <4>3 DEF Versions
    <3> QED
      BY <3>2, <3>3, <3>4, NewVersion DEF IInv, TypeOK
  <2>2. CASE DownloadMar(m)
    <3>1. PICK p \in Published[cur[m]] : prev' = [prev EXCEPT ![m][cur[m]].mars = @ \cup {p}]
      BY <2>2 DEF DownloadMar
    <3>2. cur[m] \in Froms
      BY <1>1, <2>2 DEF DownloadMar, IInv, NotYet
    <3>3. /\ prev'[m] = [prev[m] EXCEPT ![cur[m]].mars = @ \cup {p}]
          /\ prev' = [prev EXCEPT ![m] = prev'[m]]
      BY <3>1 DEF IInv, TypeOK
    <3>4. /\ prev'[m][cur[m]] = [prev[m][cur[m]] EXCEPT !.mars = @ \cup {p}]
          /\ prev'[m] = [prev[m] EXCEPT ![cur[m]] = prev'[m][cur[m]]]
      BY <3>2, <3>3 DEF IInv, TypeOK
    <3>5. /\ prev'[m][cur[m]] \in [dir : BOOLEAN, mars : SUBSET Platforms]
          /\ prev'[m][cur[m]].mars = prev[m][cur[m]].mars \cup {p}
      <4> DEFINE r == [prev[m][cur[m]] EXCEPT !.mars = @ \cup {p}]
      <4>1. prev[m][cur[m]] \in Versions /\ prev[m][cur[m]].mars \cup {p} \in SUBSET Platforms
        BY <3>2 DEF IInv, TypeOK, Versions
      <4>2. /\ r \in Versions
            /\ r.mars = prev[m][cur[m]].mars \cup {p}
        BY <4>1, VersionRecords
      <4>3. prev'[m][cur[m]] = r
        BY <3>4
      <4> HIDE DEF r
      <4> QED
        BY <4>2, <4>3 DEF Versions
    <3>6. prev'[m][cur[m]].mars \subseteq Published[cur[m]]
      BY <3>2, <3>5 DEF IInv, TypeOK
    <3> QED
      BY <3>2, <3>3, <3>4, <3>5, <3>6, NewVersion DEF IInv
  <2>3. CASE DownloadedVersion(m)
    BY <2>3 DEF DownloadedVersion, files, IInv, TypeOK
  <2> QED
    BY <2>1, <2>2, <2>3
<1>3. \A n \in Machines : Cardinality(Attached(n)') <= NumProcs
  <2> SUFFICES ASSUME NEW n \in Machines PROVE Cardinality(Attached(n)') <= NumProcs
    OBVIOUS
  <2>1. CASE n = m
    BY <1>1, <2>1, Bound DEF IInv, TypeOK, NotYet, Making
  <2>2. CASE n # m
    BY <1>1, <2>2, Bound, OtherAttached DEF IInv, TypeOK, NotYet
  <2> QED
    BY <2>1, <2>2
<1>4. TypeOK'
  BY <1>1, <1>2, <1>3 DEF IInv, TypeOK
<1>5. NotYet'
  BY <1>1 DEF IInv, TypeOK, NotYet, Early
<1>6. LocalInv'
  <2>1. CASE m = "local"
    BY <1>1, <2>1 DEF IInv, LocalInv, OwnChildren, LocalChildren, MadeOrMaking, Replaced,
                     NoneWasUnsigned, AllIncrementals, Making, Early
  <2>2. CASE m # "local"
    BY <1>1, <1>2, <2>2, LocalKept DEF IInv, TypeOK, LocalSame, LocalChildren, Machines
  <2> QED
    BY <2>1, <2>2
<1> QED
  BY <1>4, <1>5, <1>6 DEF IInv

LEMMA GenIncrementalsKeeps ==
    ASSUME IInv, NEW m \in Machines, GenIncrementals(m)
    PROVE  IInv'
<1>1. /\ pc[m] = "missing" /\ Missing(m) = {}
      /\ pc' = [pc EXCEPT ![m] = "gen"] /\ todo' = [todo EXCEPT ![m] = Wanted(m)]
      /\ UNCHANGED <<prev, inc, full, list, cur, pid, children, built, synced, converted, failures>>
  BY DEF GenIncrementals, Goto, files, progress
<1>2. \A n \in Machines : Cardinality(Attached(n)') <= NumProcs
  <2> SUFFICES ASSUME NEW n \in Machines PROVE Cardinality(Attached(n)') <= NumProcs
    OBVIOUS
  <2>1. Attached(n)' \subseteq Attached(n)
    <3>1. CASE n = m
      BY <1>1, <3>1 DEF IInv, NotYet, Attached, Early
    <3>2. CASE n # m
      BY <1>1, <3>2, OtherAttached DEF IInv, TypeOK
    <3> QED
      BY <3>1, <3>2
  <2> QED
    BY <2>1, Bound DEF IInv, NotYet
<1>3. Wanted(m) \subseteq Tasks
  BY DEF Wanted
<1>4. TypeOK'
  BY <1>1, <1>2, <1>3 DEF IInv, TypeOK
<1>5. NotYet'
  BY <1>1 DEF IInv, TypeOK, NotYet, Early
<1>6. LocalInv'
  <2>1. CASE m = "local"
    <3>1. LocalChildren = {} /\ LocalChildren' = {} /\ ~converted /\ synced /\ NoneWasUnsigned
      BY <1>1, <2>1 DEF IInv, LocalInv, OwnChildren, LocalChildren, Replaced, Early
    <3>2. pc'["local"] = "gen" /\ todo'["local"] = Wanted("local")
      BY <1>1, <2>1 DEF IInv, TypeOK
    <3>3. OwnChildren' /\ Replaced' /\ AllIncrementals'
      BY <1>1, <3>1, <3>2 DEF OwnChildren, Replaced, NoneWasUnsigned, AllIncrementals, Making, Early
    <3>4. MadeOrMaking'
      BY <1>1, <2>1, <3>1, <3>2 DEF MadeOrMaking, Missing, Wanted
    <3> QED
      BY <3>3, <3>4 DEF LocalInv
  <2>2. CASE m # "local"
    BY <1>1, <2>2, LocalKept DEF IInv, TypeOK, LocalSame, LocalChildren, Machines
  <2> QED
    BY <2>1, <2>2
<1> QED
  BY <1>4, <1>5, <1>6 DEF IInv

LEMMA WaitAllChildrenKeeps ==
    ASSUME IInv, NEW m \in Machines, WaitAllChildren(m)
    PROVE  IInv'
<1>1. /\ pc[m] = "gen" /\ todo[m] = {} /\ pc' = [pc EXCEPT ![m] = "wait"]
      /\ UNCHANGED <<prev, inc, full, list, cur, todo, pid, children, built, synced, converted, failures>>
  BY DEF WaitAllChildren, Goto, files, progress
<1>2. \A n \in Machines : Cardinality(Attached(n)') <= NumProcs
  <2> SUFFICES ASSUME NEW n \in Machines PROVE Cardinality(Attached(n)') <= NumProcs
    OBVIOUS
  <2>1. Attached(n)' \subseteq Attached(n)
    BY <1>1 DEF Attached, IInv, TypeOK
  <2> QED
    BY <2>1, Bound DEF IInv, NotYet
<1>3. TypeOK'
  BY <1>1, <1>2 DEF IInv, TypeOK
<1>4. NotYet'
  BY <1>1 DEF IInv, TypeOK, NotYet, Early
<1>5. LocalInv'
  <2>1. CASE m = "local"
    <3>1. pc'["local"] = "wait"
      BY <1>1, <2>1 DEF IInv, TypeOK
    <3>2. OwnChildren' /\ Replaced' /\ AllIncrementals'
      BY <1>1, <2>1, <3>1 DEF IInv, LocalInv, OwnChildren, LocalChildren, Replaced,
                             NoneWasUnsigned, AllIncrementals, Making, Early
    <3>3. MadeOrMaking'
      BY <1>1, <2>1, <3>1 DEF IInv, LocalInv, MadeOrMaking, LocalChildren, Missing, Wanted, Making
    <3> QED
      BY <3>2, <3>3 DEF LocalInv
  <2>2. CASE m # "local"
    BY <1>1, <2>2, LocalKept DEF IInv, TypeOK, LocalSame, LocalChildren, Machines
  <2> QED
    BY <2>1, <2>2
<1> QED
  BY <1>3, <1>4, <1>5 DEF IInv

\* One more element.
LEMMA OneMore ==
    ASSUME NEW S, IsFiniteSet(S), NEW x
    PROVE  /\ IsFiniteSet(S \cup {x})
           /\ Cardinality(S) \in Nat /\ Cardinality(S \cup {x}) \in Nat
           /\ Cardinality(S \cup {x}) <= Cardinality(S) + 1
<1>1. Cardinality(S) \in Nat
  BY FS_CardinalityType
<1>2. IsFiniteSet(S \cup {x})
  BY FS_AddElement
<1>3. Cardinality(S \cup {x}) = Cardinality(S) \/ Cardinality(S \cup {x}) = Cardinality(S) + 1
  BY FS_AddElement
<1> QED
  BY <1>1, <1>2, <1>3

LEMMA CreateIncrementalMarKeeps ==
    ASSUME IInv, NEW m \in Machines, CreateIncrementalMar(m)
    PROVE  IInv'
<1> DEFINE child(t) == [m |-> m, parent |-> pid[m], task |-> t, status |-> "running"]
<1>1. PICK t \in todo[m] :
         /\ todo' = [todo EXCEPT ![m] = @ \ {t}]
         /\ IF Skipped(m, t) THEN UNCHANGED children
            ELSE ~Busy(m) /\ children' = children \cup {child(t)}
  BY DEF CreateIncrementalMar
<1>2. /\ pc[m] = "gen"
      /\ UNCHANGED <<prev, inc, full, list, pc, cur, pid, built, synced, converted, failures>>
  BY DEF CreateIncrementalMar, files, progress
<1>3. t \in Tasks
  BY <1>1 DEF IInv, TypeOK
<1>4. children' = children \/ children' = children \cup {child(t)}
  BY <1>1
<1>5. child(t) \in [m : Machines, parent : Nat, task : Tasks, status : {"running", "ok", "failed"}]
  BY <1>3 DEF IInv, TypeOK
<1>6. IsFiniteSet(children')
  <2> HIDE DEF child
  <2>1. IsFiniteSet(children)
    BY DEF IInv, NotYet
  <2>2. IsFiniteSet(children \cup {child(t)})
    BY <2>1, OneMore
  <2> QED
    BY <1>4, <2>1, <2>2
<1>7. \A n \in Machines : Cardinality(Attached(n)') <= NumProcs
  <2> SUFFICES ASSUME NEW n \in Machines PROVE Cardinality(Attached(n)') <= NumProcs
    OBVIOUS
  <2>1. CASE Attached(n)' \subseteq Attached(n)
    BY <2>1, Bound DEF IInv, NotYet
  <2>2. CASE ~(Attached(n)' \subseteq Attached(n))
    <3>1. n = m /\ ~Skipped(m, t)
      BY <1>1, <1>2, <2>2, OtherAttached
    <3>2. Attached(n)' = Attached(n) \cup {child(t)}
      BY <1>1, <1>2, <3>1 DEF Attached
    <3>3. IsFiniteSet(Attached(n))
      BY FS_Subset DEF IInv, NotYet, Attached
    <3>4. ~(Cardinality(Attached(n)) >= NumProcs)
      BY <1>1, <3>1 DEF Busy
    <3> HIDE DEF child
    <3>5. /\ Cardinality(Attached(n)) \in Nat /\ Cardinality(Attached(n)') \in Nat
          /\ Cardinality(Attached(n)') <= Cardinality(Attached(n)) + 1
      BY <3>2, <3>3, OneMore
    <3> QED
      BY <3>4, <3>5
  <2> QED
    BY <2>1, <2>2
<1>8. TypeOK'
  BY <1>1, <1>2, <1>4, <1>5, <1>7 DEF IInv, TypeOK
<1>9. NotYet'
  BY <1>2, <1>4, <1>6 DEF IInv, NotYet, Early
<1>10. LocalInv'
  <2>1. CASE m = "local"
    <3>1. /\ todo'["local"] = todo["local"] \ {t} /\ ~converted /\ synced
          /\ pc["local"] = "gen" /\ pc["local"] \notin Early /\ pc["local"] \in Making
      BY <1>1, <1>2, <2>1 DEF IInv, TypeOK, LocalInv, OwnChildren, Making, Early
    <3>2. CASE UNCHANGED children
      <4>1. inc["local"][t] # "none"
        <5>1. CASE Skipped(m, t)
          BY <2>1, <5>1 DEF Skipped
        <5>2. CASE ~Skipped(m, t)
          <6>1. child(t) \in LocalChildren /\ child(t).task = t
            BY <1>1, <2>1, <3>2, <5>2 DEF LocalChildren
          <6> QED
            BY <3>1, <6>1, <1>1, <2>1 DEF IInv, LocalInv, OwnChildren
        <5> QED
          BY <5>1, <5>2
      <4>2. LocalChildren' = LocalChildren
        BY <3>2 DEF LocalChildren
      <4>3. OwnChildren'
        BY <1>2, <3>1, <4>2 DEF IInv, LocalInv, OwnChildren
      <4>4. MadeOrMaking'
        BY <1>2, <3>1, <4>1, <4>2 DEF IInv, LocalInv, MadeOrMaking, Missing, Wanted
      <4>5. Replaced' /\ AllIncrementals'
        BY <1>2, <3>1 DEF IInv, LocalInv, Replaced, NoneWasUnsigned, AllIncrementals
      <4> QED
        BY <4>3, <4>4, <4>5 DEF LocalInv
    <3>3. CASE children' = children \cup {child(t)}
      <4>1. LocalChildren' = LocalChildren \cup {child(t)}
        BY <2>1, <3>3 DEF LocalChildren
      <4>2. /\ child(t).parent = pid["local"] /\ child(t).task = t /\ child(t).status = "running"
        BY <2>1
      <4>3. \A k \in LocalChildren : k.task # t
        BY <1>1, <2>1, <3>1 DEF IInv, LocalInv, OwnChildren
      <4> HIDE DEF child
      <4>4. OwnChildren'
        BY <1>2, <3>1, <4>1, <4>2, <4>3 DEF IInv, LocalInv, OwnChildren
      <4>5. MadeOrMaking'
        BY <1>2, <3>1, <4>1, <4>2 DEF IInv, LocalInv, MadeOrMaking, Missing, Wanted
      <4>6. Replaced' /\ AllIncrementals'
        BY <1>2, <3>1 DEF IInv, LocalInv, Replaced, NoneWasUnsigned, AllIncrementals
      <4> QED
        BY <4>4, <4>5, <4>6 DEF LocalInv
    <3> QED
      BY <1>4, <3>2, <3>3
  <2>2. CASE m # "local"
    <3>1. LocalChildren' = LocalChildren
      BY <1>4, <2>2 DEF LocalChildren
    <3> QED
      BY <1>1, <1>2, <2>2, <3>1, LocalKept DEF IInv, TypeOK, LocalSame, Machines
  <2> QED
    BY <2>1, <2>2
<1> QED
  BY <1>8, <1>9, <1>10 DEF IInv

\* A command that ends, whatever becomes of its children.
LEMMA DieKeeps ==
    ASSUME IInv, NEW m \in Machines, Die(m), pc[m] # "idle",
           children' \subseteq children, \A k \in children : k.m # m => k \in children',
           UNCHANGED <<prev, inc, full, list, pid, built, synced, converted>>,
           failures' \in 0 .. MaxFailures
    PROVE  IInv'
<1>1. /\ pc' = [pc EXCEPT ![m] = "idle"] /\ cur' = [cur EXCEPT ![m] = 0]
      /\ todo' = [todo EXCEPT ![m] = {}]
  BY DEF Die, Goto
<1>2. \A n \in Machines : Cardinality(Attached(n)') <= NumProcs
  <2> SUFFICES ASSUME NEW n \in Machines PROVE Cardinality(Attached(n)') <= NumProcs
    OBVIOUS
  <2>1. CASE n = m
    BY <1>1, <2>1, Bound DEF IInv, TypeOK, NotYet, Making
  <2>2. CASE n # m
    BY <1>1, <2>2, Bound, OtherAttached DEF IInv, TypeOK, NotYet
  <2> QED
    BY <2>1, <2>2
<1>3. TypeOK'
  BY <1>1, <1>2 DEF IInv, TypeOK
<1>4. NotYet'
  BY <1>1, FS_Subset DEF IInv, TypeOK, NotYet, Early
<1>5. LocalInv'
  <2>1. CASE m = "local"
    <3>1. pc'["local"] = "idle" /\ ~converted /\ synced
      BY <1>1, <2>1 DEF IInv, TypeOK, LocalInv, OwnChildren
    <3> QED
      BY <3>1 DEF LocalInv, OwnChildren, MadeOrMaking, Replaced, AllIncrementals, Making, Early
  <2>2. CASE m # "local"
    <3>1. LocalChildren' = LocalChildren
      BY <2>2 DEF LocalChildren, Machines
    <3> QED
      BY <1>1, <2>2, <3>1, LocalKept DEF IInv, TypeOK, LocalSame, Machines
  <2> QED
    BY <2>1, <2>2
<1> QED
  BY <1>3, <1>4, <1>5 DEF IInv

LEMMA FailKeeps ==
    ASSUME IInv, NEW m \in Machines, Fail(m)
    PROVE  IInv'
<1>1. /\ Die(m) /\ pc[m] # "idle" /\ children' \subseteq children
      /\ \A k \in children : k.m # m => k \in children'
      /\ UNCHANGED <<prev, inc, full, list, pid, built, synced, converted>>
  BY DEF Fail, Attached, files, progress
<1>2. failures' \in 0 .. MaxFailures
  BY DEF Fail, IInv, TypeOK
<1> QED
  BY <1>1, <1>2, DieKeeps

LEMMA FinishedFileKeeps ==
    ASSUME IInv, NEW m \in Machines, FinishedFile(m)
    PROVE  IInv'
<1>1. PICK k \in Attached(m) :
        /\ k.status # "running"
        /\ IF Failed(k)
           THEN Die(m) /\ children' = children \ {j \in Attached(m) : j.status # "running"}
           ELSE children' = children \ {k} /\ UNCHANGED <<pc, cur, todo>>
  BY DEF FinishedFile
<1>2. UNCHANGED <<prev, inc, full, list, pid, built, synced, converted, failures>>
  BY DEF FinishedFile, files, progress
<1>3. k \in children /\ k.m = m /\ k.parent = pid[m] /\ pc[m] \in Making
  BY <1>1 DEF Attached, Making
<1>4. CASE Failed(k)
  <2>1. Die(m) /\ children' \subseteq children /\ \A j \in children : j.m # m => j \in children'
    BY <1>1, <1>4 DEF Attached
  <2>2. failures' \in 0 .. MaxFailures
    BY <1>2 DEF IInv, TypeOK
  <2>3. pc[m] # "idle"
    BY <1>3 DEF Making
  <2> QED
    BY <1>2, <2>1, <2>2, <2>3, DieKeeps
<1>5. CASE ~Failed(k)
  <2>1. children' = children \ {k} /\ UNCHANGED <<pc, cur, todo>>
    BY <1>1, <1>5
  <2>2. \A n \in Machines : Cardinality(Attached(n)') <= NumProcs
    BY <1>2, <2>1, Bound DEF IInv, NotYet, Attached
  <2>3. TypeOK'
    BY <1>2, <2>1, <2>2 DEF IInv, TypeOK
  <2>4. NotYet'
    BY <1>2, <2>1, FS_Subset DEF IInv, NotYet
  <2>5. CASE m = "local"
    <3>1. /\ ~converted /\ synced /\ pc["local"] \in Making
          /\ k \in LocalChildren /\ LocalChildren' = LocalChildren \ {k}
      BY <1>3, <2>1, <2>5 DEF IInv, LocalInv, OwnChildren, LocalChildren, Making
    <3>2. k.status = "ok"
      BY <1>1, <1>3, <1>5 DEF Failed, IInv, TypeOK
    <3>3. inc["local"][k.task] # "none"
      BY <3>1, <3>2 DEF IInv, LocalInv, MadeOrMaking
    <3>4. OwnChildren'
      BY <1>2, <2>1, <3>1 DEF IInv, LocalInv, OwnChildren
    <3>5. MadeOrMaking'
      BY <1>2, <2>1, <3>1, <3>3 DEF IInv, LocalInv, MadeOrMaking, Missing, Wanted
    <3>6. Replaced' /\ AllIncrementals'
      BY <1>2, <2>1, <3>1 DEF IInv, LocalInv, Replaced, NoneWasUnsigned, AllIncrementals
    <3> QED
      BY <2>3, <2>4, <3>4, <3>5, <3>6 DEF IInv, LocalInv
  <2>6. CASE m # "local"
    <3>1. LocalChildren' = LocalChildren
      BY <1>3, <2>1, <2>6 DEF LocalChildren
    <3>2. LocalInv'
      BY <1>2, <2>1, <3>1, LocalKept DEF IInv, LocalSame
    <3> QED
      BY <2>3, <2>4, <3>2 DEF IInv
  <2> QED
    BY <2>5, <2>6
<1> QED
  BY <1>4, <1>5

LEMMA ChildRecords ==
    ASSUME NEW M, NEW N, NEW T, NEW S, NEW k \in [m : M, parent : N, task : T, status : S],
           NEW s \in S
    PROVE  /\ [k EXCEPT !.status = s] \in [m : M, parent : N, task : T, status : S]
           /\ [k EXCEPT !.status = s].m = k.m /\ [k EXCEPT !.status = s].parent = k.parent
  OBVIOUS

\* What the end of a child does to everything but the files.
LEMMA EndsKeeps ==
    ASSUME IInv, NEW k \in children, NEW status \in {"ok", "failed"}, Ends(k, status),
           UNCHANGED <<pc, pid>>
    PROVE  /\ children' \subseteq [m : Machines, parent : Nat, task : Tasks,
                                   status : {"running", "ok", "failed"}]
           /\ \A m \in Machines : Cardinality(Attached(m)') <= NumProcs
           /\ IsFiniteSet(children')
           /\ \A m \in Machines : pc'[m] \in Early =>
                \A j \in children' : j.m = m => j.parent # pid'[m]
<1> DEFINE e == [k EXCEPT !.status = status]
<1>1. /\ k \in [m : Machines, parent : Nat, task : Tasks, status : {"running", "ok", "failed"}]
      /\ e \in [m : Machines, parent : Nat, task : Tasks, status : {"running", "ok", "failed"}]
      /\ e.m = k.m /\ e.parent = k.parent
  <2>1. k \in [m : Machines, parent : Nat, task : Tasks, status : {"running", "ok", "failed"}]
    BY DEF IInv, TypeOK
  <2>2. status \in {"running", "ok", "failed"}
    OBVIOUS
  <2> QED
    BY <2>1, <2>2, ChildRecords
<1>2. children' = (children \ {k}) \cup (IF k \in Attached(k.m) THEN {e} ELSE {})
  BY DEF Ends
<1> HIDE DEF e
<1>3. IsFiniteSet(children \ {k})
  BY FS_Subset DEF IInv, NotYet
<1>4. IsFiniteSet(children')
  BY <1>2, <1>3, OneMore
<1>5. \A m \in Machines : Cardinality(Attached(m)') <= NumProcs
  <2> SUFFICES ASSUME NEW m \in Machines PROVE Cardinality(Attached(m)') <= NumProcs
    OBVIOUS
  <2>1. CASE Attached(m)' \subseteq Attached(m)
    BY <2>1, Bound DEF IInv, NotYet
  <2>2. CASE ~(Attached(m)' \subseteq Attached(m))
    <3>1. k \in Attached(m) /\ k.m = m
      BY <1>1, <1>2, <2>2 DEF Attached
    <3>2. Attached(m)' = (Attached(m) \ {k}) \cup {e}
      BY <1>1, <1>2, <3>1 DEF Attached
    <3>3. IsFiniteSet(Attached(m)) /\ Cardinality(Attached(m)) \in Nat
      BY FS_Subset, FS_CardinalityType DEF IInv, NotYet, Attached
    <3>4. /\ IsFiniteSet(Attached(m) \ {k})
          /\ Cardinality(Attached(m) \ {k}) = Cardinality(Attached(m)) - 1
      BY <3>1, <3>3, FS_RemoveElement
    <3>5. /\ Cardinality(Attached(m)') <= Cardinality(Attached(m) \ {k}) + 1
          /\ Cardinality(Attached(m)') \in Nat
      BY <3>2, <3>4, OneMore
    <3>6. Cardinality(Attached(m)) <= NumProcs
      BY DEF IInv, TypeOK
    <3> QED
      BY <3>3, <3>4, <3>5, <3>6
  <2> QED
    BY <2>1, <2>2
<1>6. \A m \in Machines : pc'[m] \in Early =>
        \A j \in children' : j.m = m => j.parent # pid'[m]
  BY <1>1, <1>2 DEF IInv, NotYet
<1> QED
  BY <1>1, <1>2, <1>4, <1>5, <1>6 DEF IInv, TypeOK

\* A child of the local machine is one of the command's, or the command is dead and
\* nothing is asked of it.
LEMMA LocalEnds ==
    ASSUME IInv, NEW k \in children, NEW status \in {"ok", "failed"}, Ends(k, status),
           k.m = "local", UNCHANGED <<prev, list, pc, todo, pid, synced, converted>>,
           inc' \in [Machines -> [Tasks -> {"none", "unsigned", "signed"}]],
           \A t \in Tasks : t # k.task => inc'["local"][t] = inc["local"][t],
           inc'["local"][k.task] \in {"none", "signed", inc["local"][k.task]},
           status = "ok" => inc'["local"][k.task] # "none"
    PROVE  LocalInv'
<1>1. pc["local"] \notin Early /\ ~converted /\ k \in LocalChildren
  BY DEF IInv, LocalInv, OwnChildren, LocalChildren
<1>2. CASE pc["local"] \notin Making
  BY <1>1, <1>2 DEF IInv, LocalInv, OwnChildren, MadeOrMaking, Replaced, AllIncrementals, Making, Early
<1>3. CASE pc["local"] \in Making
  <2> DEFINE e == [k EXCEPT !.status = status]
  <2>1. /\ k \in [m : Machines, parent : Nat, task : Tasks, status : {"running", "ok", "failed"}]
        /\ e.m = k.m /\ e.parent = k.parent /\ e.task = k.task /\ e.status = status
    BY DEF IInv, TypeOK
  <2>2. k.parent = pid["local"] /\ k.task \notin todo["local"] /\ synced
    BY <1>1, <1>3 DEF IInv, LocalInv, OwnChildren, Making
  <2>3. children' = (children \ {k}) \cup {e}
    BY <1>3, <2>2 DEF Ends, Attached, Making
  <2> HIDE DEF e
  <2>4. LocalChildren' = (LocalChildren \ {k}) \cup {e}
    BY <2>1, <2>3 DEF LocalChildren
  <2>5. \A j \in LocalChildren : j # k => j.task # k.task /\ j.task \in Tasks
    BY <1>1, <1>3 DEF IInv, TypeOK, LocalInv, OwnChildren, LocalChildren
  <2>6. OwnChildren'
    BY <1>1, <1>3, <2>1, <2>2, <2>4, <2>5 DEF IInv, LocalInv, OwnChildren
  <2>7. MadeOrMaking'
    <3>1. Missing("local")' = Missing("local") /\ Wanted("local")' = Wanted("local")
      BY DEF Missing, Wanted
    <3>2. \A j \in LocalChildren' : j.status = "ok" => inc'["local"][j.task] # "none"
      BY <1>3, <2>1, <2>4, <2>5 DEF IInv, LocalInv, MadeOrMaking
    <3>3. ASSUME NEW t \in Wanted("local")
          PROVE  inc'["local"][t] # "none" \/ t \in todo["local"] \/ \E j \in LocalChildren' : j.task = t
      <4>1. CASE t = k.task
        BY <2>1, <2>4, <4>1
      <4>2. CASE t # k.task
        BY <1>3, <2>4, <4>2 DEF IInv, LocalInv, MadeOrMaking, Wanted
      <4> QED
        BY <4>1, <4>2
    <3> QED
      BY <1>3, <3>1, <3>2, <3>3 DEF IInv, LocalInv, MadeOrMaking
  <2>8. Replaced' /\ AllIncrementals'
    <3>1. NoneWasUnsigned
      BY <1>3 DEF IInv, LocalInv, Replaced
    <3>2. \A t \in list["local"] : t \in Tasks
      BY DEF IInv, TypeOK, Machines
    <3>3. NoneWasUnsigned'
      BY <3>1, <3>2 DEF NoneWasUnsigned
    <3> QED
      BY <1>1, <3>3 DEF Replaced, AllIncrementals
  <2> QED
    BY <2>6, <2>7, <2>8 DEF LocalInv
<1> QED
  BY <1>2, <1>3

LEMMA ChildKeeps ==
    ASSUME IInv, NEW k \in children, ChildRefuses(k) \/ ChildSucceeds(k) \/ ChildFails(k)
    PROVE  IInv'
<1>1. k.m \in Machines /\ k.task \in Tasks
  BY DEF IInv, TypeOK
<1>2. PICK status \in {"ok", "failed"} :
        /\ Ends(k, status)
        /\ status = "ok" => ChildSucceeds(k)
  BY DEF ChildRefuses, ChildSucceeds, ChildFails
<1>3. /\ UNCHANGED <<prev, full, list, pc, cur, todo, pid, built, synced, converted>>
      /\ failures' \in 0 .. MaxFailures
  BY DEF ChildRefuses, ChildSucceeds, ChildFails, files, progress, IInv, TypeOK
<1>4. PICK v \in {"none", "signed", inc[k.m][k.task], IF k.m = "local" THEN "signed" ELSE "unsigned"} :
        /\ inc' = [inc EXCEPT ![k.m][k.task] = v]
        /\ k.m = "local" /\ status = "ok" => v = "signed"
  <2>1. inc = [inc EXCEPT ![k.m][k.task] = inc[k.m][k.task]]
    BY <1>1 DEF IInv, TypeOK
  <2>2. CASE ChildSucceeds(k)
    BY <2>2 DEF ChildSucceeds
  <2>3. CASE ~ChildSucceeds(k) /\ inc' = inc
    BY <1>2, <2>1, <2>3
  <2>4. CASE ~ChildSucceeds(k) /\ inc' # inc
    <3>1. ChildFails(k)
      BY <2>4 DEF ChildRefuses, files
    <3>2. inc' = [inc EXCEPT ![k.m][k.task] = "none"]
      BY <2>4, <3>1 DEF ChildFails
    <3> QED
      BY <1>2, <2>4, <3>2
  <2> QED
    BY <2>2, <2>3, <2>4
<1>5. /\ inc' \in [Machines -> [Tasks -> {"none", "unsigned", "signed"}]]
      /\ \A n \in Machines : n # k.m => inc'[n] = inc[n]
      /\ \A t \in Tasks : t # k.task => inc'[k.m][t] = inc[k.m][t]
      /\ inc'[k.m][k.task] = v
  <2>1. v \in {"none", "unsigned", "signed"}
    <3>1. inc[k.m][k.task] \in {"none", "unsigned", "signed"}
      BY <1>1 DEF IInv, TypeOK
    <3> QED
      BY <1>4, <3>1
  <2> QED
    BY <1>1, <1>4, <2>1 DEF IInv, TypeOK
<1>6. TypeOK'
  BY <1>2, <1>3, <1>5, EndsKeeps DEF IInv, TypeOK
<1>7. NotYet'
  BY <1>2, <1>3, EndsKeeps DEF IInv, NotYet
<1>8. LocalInv'
  <2>1. CASE k.m = "local"
    BY <1>2, <1>3, <1>4, <1>5, <2>1, LocalEnds
  <2>2. CASE k.m # "local"
    <3>1. [k EXCEPT !.status = status].m = k.m
      BY DEF IInv, TypeOK
    <3>2. LocalChildren' = LocalChildren
      BY <1>2, <2>2, <3>1 DEF Ends, LocalChildren
    <3> QED
      BY <1>3, <1>5, <2>2, <3>2, LocalKept DEF IInv, LocalSame, Machines
  <2> QED
    BY <2>1, <2>2
<1> QED
  BY <1>6, <1>7, <1>8 DEF IInv

LEMMA HashIncrementalsKeeps ==
    ASSUME IInv, HashIncrementals
    PROVE  IInv'
<1>1. /\ Die("builder")
      /\ UNCHANGED <<prev, inc, full, pid, children, synced, converted, failures>>
  BY DEF HashIncrementals
<1>2. /\ list' \in [Machines -> SUBSET Tasks] /\ list'["local"] = list["local"]
      /\ built' \in BOOLEAN
  <2> DEFINE made == {t \in Tasks : inc["builder"][t] # "none"}
  <2>1. IF made = {} THEN UNCHANGED <<list, built>>
        ELSE list' = [list EXCEPT !["builder"] = made] /\ built' = TRUE
    BY Zenon DEF HashIncrementals
  <2>2. made \in SUBSET Tasks
    OBVIOUS
  <2> HIDE DEF made
  <2> QED
    BY <2>1, <2>2 DEF IInv, TypeOK, Machines
<1>3. /\ pc' = [pc EXCEPT !["builder"] = "idle"] /\ cur' = [cur EXCEPT !["builder"] = 0]
      /\ todo' = [todo EXCEPT !["builder"] = {}]
  BY <1>1 DEF Die, Goto
<1>4. \A n \in Machines : Cardinality(Attached(n)') <= NumProcs
  <2> SUFFICES ASSUME NEW n \in Machines PROVE Cardinality(Attached(n)') <= NumProcs
    OBVIOUS
  <2>1. CASE n = "builder"
    BY <1>3, <2>1, Bound DEF IInv, TypeOK, NotYet, Making
  <2>2. CASE n # "builder"
    BY <1>1, <1>3, <2>2, Bound, OtherAttached DEF IInv, TypeOK, NotYet
  <2> QED
    BY <2>1, <2>2
<1>5. TypeOK'
  BY <1>1, <1>2, <1>3, <1>4 DEF IInv, TypeOK, Machines
<1>6. NotYet'
  BY <1>1, <1>3 DEF IInv, TypeOK, NotYet, Early
<1>7. LocalInv'
  BY <1>1, <1>2, <1>3, LocalKept DEF IInv, TypeOK, LocalSame, LocalChildren, Machines
<1> QED
  BY <1>5, <1>6, <1>7 DEF IInv

LEMMA ConvertedKeeps ==
    ASSUME IInv, Converted
    PROVE  IInv'
<1>1. /\ pc["local"] = "wait" /\ Attached("local") = {} /\ Die("local") /\ converted' = TRUE
      /\ UNCHANGED <<prev, inc, full, list, pid, children, built, synced, failures>>
  BY DEF Converted, AllReaped, files
<1>2. /\ pc' = [pc EXCEPT !["local"] = "idle"] /\ cur' = [cur EXCEPT !["local"] = 0]
      /\ todo' = [todo EXCEPT !["local"] = {}]
  BY <1>1 DEF Die, Goto
<1>3. \A n \in Machines : Cardinality(Attached(n)') <= NumProcs
  <2> SUFFICES ASSUME NEW n \in Machines PROVE Cardinality(Attached(n)') <= NumProcs
    OBVIOUS
  <2>1. CASE n = "local"
    BY <1>2, <2>1, Bound DEF IInv, TypeOK, NotYet, Making
  <2>2. CASE n # "local"
    BY <1>1, <1>2, <2>2, Bound, OtherAttached DEF IInv, TypeOK, NotYet
  <2> QED
    BY <2>1, <2>2
<1>4. TypeOK'
  BY <1>1, <1>2, <1>3 DEF IInv, TypeOK, Machines
<1>5. NotYet'
  BY <1>1, <1>2 DEF IInv, TypeOK, NotYet, Early
<1>6. /\ LocalChildren = {} /\ synced /\ todo["local"] = {} /\ Missing("local") = {}
      /\ \A t \in Wanted("local") : inc["local"][t] # "none"
      /\ NoneWasUnsigned
  BY <1>1 DEF IInv, LocalInv, OwnChildren, MadeOrMaking, Replaced, LocalChildren, Attached, Making
<1>7. pc'["local"] = "idle" /\ LocalChildren' = {}
  BY <1>1, <1>2, <1>6 DEF IInv, TypeOK, LocalChildren, Machines
<1>8. OwnChildren' /\ MadeOrMaking' /\ Replaced'
  BY <1>1, <1>6, <1>7 DEF OwnChildren, MadeOrMaking, Replaced, NoneWasUnsigned, Making, Early
<1>9. AllIncrementals'
  <2> SUFFICES ASSUME NEW t \in Tasks, t[2] \in Published[t[1]], inc["local"][t] = "none"
               PROVE  t \in Incomplete("local")
    BY <1>1 DEF AllIncrementals, Incomplete
  <2>1. t \notin Wanted("local") /\ t[1] \in Froms
    BY <1>6 DEF Tasks
  <2>2. prev["local"][t[1]].dir
    BY <1>6, <2>1 DEF Missing
  <2> QED
    BY <2>1, <2>2 DEF Wanted, Incomplete
<1> QED
  BY <1>4, <1>5, <1>8, <1>9 DEF IInv, LocalInv

-----------------------------------------------------------------------------
LEMMA NextKeeps == IInv /\ [Next]_vars => IInv'
<1> SUFFICES ASSUME IInv, [Next]_vars PROVE IInv'
  OBVIOUS
<1>1. CASE UNCHANGED vars
  <2>1. UNCHANGED <<prev, inc, full, list, pc, cur, todo, pid, children, built, synced,
                    converted, failures>>
    BY <1>1 DEF vars, files, progress
  <2>2. TypeOK'
    BY <2>1 DEF IInv, TypeOK, Attached
  <2>3. NotYet' /\ LocalInv'
    BY <2>1 DEF IInv, NotYet, LocalInv, OwnChildren, LocalChildren, MadeOrMaking, Missing, Wanted,
                Replaced, NoneWasUnsigned, AllIncrementals, Incomplete
  <2> QED
    BY <2>2, <2>3 DEF IInv
<1>2. CASE \E m \in Machines : Step(m)
  BY <1>2, DownloadKeeps, GenIncrementalsKeeps, CreateIncrementalMarKeeps, WaitAllChildrenKeeps,
     FinishedFileKeeps DEF Step
<1>3. CASE Builder
  BY <1>2, <1>3, StartBuilderKeeps, HashIncrementalsKeeps DEF Builder, Machines
<1>4. CASE Local
  BY <1>2, <1>4, SyncKeeps, StartLocalKeeps, ConvertKeeps, ConvertedKeeps DEF Local, Machines
<1>5. CASE Child
  BY <1>5, ChildKeeps DEF Child
<1>6. CASE \E m \in Machines : Fail(m)
  BY <1>6, FailKeeps
<1> QED
  BY <1>1, <1>3, <1>4, <1>5, <1>6 DEF Next, Terminated

LEMMA Invariance == Spec => []IInv
<1>1. Init => IInv
  BY InitIInv
<1>2. IInv /\ [Next]_vars => IInv'
  BY NextKeeps
<1> QED
  BY <1>1, <1>2, PTL DEF Spec

\* Every variable has its type, no version has a mar the archive has not, and neither
\* command ever has more children than get_nbprocs.
THEOREM TypeCorrect == Spec => []TypeOK
<1>1. IInv => TypeOK
  BY DEF IInv
<1> QED
  BY <1>1, Invariance, PTL

\* After dmg2mar no incremental mar of macOS that the builder listed leads to the
\* bundle that is not signed: what remove_incremental_mars removed is made again by a
\* child that found the signature, or not at all, however often the command failed.
THEOREM Signed == Spec => []UnsignedAreReplaced
<1>1. IInv => UnsignedAreReplaced
  BY DEF IInv, LocalInv, Replaced, NoneWasUnsigned, UnsignedAreReplaced
<1> QED
  BY <1>1, Invariance, PTL

\* After dmg2mar there is an incremental mar for every platform of every version,
\* except those a download that died left out: none of the tasks of gen_incrementals
\* is lost between todo, the children and the files, in runs with failures too.
THEOREM AllThere == Spec => []AllIncrementals
<1>1. IInv => AllIncrementals
  BY DEF IInv, LocalInv
<1> QED
  BY <1>1, Invariance, PTL
-----------------------------------------------------------------------------
(* The build machine.  Until something fails all its children are those of *)
(* the command that runs, and none of them removes a file.  After the one  *)
(* failure nothing unlinks a file any more, and what the next command      *)
(* wants is there, or to be dealt with, or being made by one of its own.   *)

Builders == {k \in children : k.m = "builder"}
Own == {k \in Builders : k.parent = pid["builder"]}

NoOrphan ==
    failures = 0 => \A k \in Builders :
        k.parent = pid["builder"] /\ pc["builder"] \in Making /\ k.status # "failed"

OnlyWanted ==
    /\ todo["builder"] \subseteq Wanted("builder")
    /\ \A k \in Builders : k.task \in Wanted("builder")
    /\ \A t \in Tasks : inc["builder"][t] # "none" => t \in Wanted("builder")

OneChildEach ==
    pc["builder"] \in Making =>
        /\ Missing("builder") = {}
        /\ \A k \in Own : k.task \notin todo["builder"]
        /\ \A j, k \in Own : j.task = k.task => j = k
        /\ pc["builder"] = "wait" => todo["builder"] = {}

Covered ==
    failures <= 1 /\ pc["builder"] \in Making =>
        /\ \A k \in Own : k.status = "ok" => inc["builder"][k.task] # "none"
        /\ \A t \in Wanted("builder") :
             \/ inc["builder"][t] # "none" \/ t \in todo["builder"]
             \/ \E k \in Own : k.task = t

BuilderInv ==
    /\ NoOrphan /\ OnlyWanted /\ OneChildEach /\ Covered
    /\ built => pc["builder"] = "idle"
    /\ OneFailureIsHarmless

BuilderSame ==
    /\ inc'["builder"] = inc["builder"] /\ prev'["builder"] = prev["builder"]
    /\ list'["builder"] = list["builder"] /\ pc'["builder"] = pc["builder"]
    /\ todo'["builder"] = todo["builder"] /\ pid'["builder"] = pid["builder"]
    /\ built' = built

LEMMA InitBuilderInv == Init => BuilderInv
  BY DEF Init, BuilderInv, NoOrphan, OnlyWanted, OneChildEach, Covered, OneFailureIsHarmless,
         Builders, Own, Machines, Making

LEMMA BuilderKept ==
    ASSUME BuilderInv, BuilderSame, Builders' = Builders, failures \in Nat, failures' \in Nat,
           failures <= failures'
    PROVE  BuilderInv'
<1>1. Wanted("builder")' = Wanted("builder") /\ Missing("builder")' = Missing("builder")
      /\ Own' = Own
  BY DEF BuilderSame, Wanted, Missing, Own
<1>2. NoOrphan' /\ OnlyWanted' /\ OneChildEach' /\ Covered'
  BY <1>1 DEF BuilderInv, BuilderSame, NoOrphan, OnlyWanted, OneChildEach, Covered
<1>3. OneFailureIsHarmless'
  BY DEF BuilderInv, BuilderSame, OneFailureIsHarmless, Incomplete
<1> QED
  BY <1>2, <1>3 DEF BuilderInv, BuilderSame

\* What the other machine's command does.
LEMMA LocalStep ==
    ASSUME IInv, BuilderInv,
           Local \/ Fail("local")
    PROVE  BuilderInv'
<1>1. failures \in Nat /\ failures' \in Nat /\ failures <= failures'
  BY DEF Local, Step, Sync, StartLocal, UnlinkFull, MakeFull, RemoveIncrementalMars, DownloadVersion,
         DownloadMar, DownloadedVersion, GenIncrementals, CreateIncrementalMar, WaitAllChildren,
         FinishedFile, Converted, Fail, IInv, TypeOK
<1>2. BuilderSame /\ Builders' = Builders
  <2>1. CASE Sync \/ StartLocal \/ UnlinkFull \/ MakeFull \/ RemoveIncrementalMars
    BY <2>1 DEF Sync, StartLocal, UnlinkFull, MakeFull, RemoveIncrementalMars, Goto, files, progress,
                BuilderSame, Builders, IInv, TypeOK, Machines
  <2>2. CASE DownloadVersion("local") \/ DownloadMar("local") \/ DownloadedVersion("local")
    BY <2>2 DEF DownloadVersion, DownloadMar, DownloadedVersion, Goto, files, progress, BuilderSame,
                Builders, IInv, TypeOK, Machines
  <2>3. CASE GenIncrementals("local") \/ WaitAllChildren("local")
    BY <2>3 DEF GenIncrementals, WaitAllChildren, Goto, files, progress, BuilderSame, Builders,
                IInv, TypeOK, Machines
  <2>4. CASE CreateIncrementalMar("local")
    BY <2>4 DEF CreateIncrementalMar, files, progress, BuilderSame, Builders, IInv, TypeOK, Machines
  <2>5. CASE FinishedFile("local")
    BY <2>5 DEF FinishedFile, Die, Goto, Attached, files, progress, BuilderSame, Builders, IInv,
                TypeOK, Machines
  <2>6. CASE Converted \/ Fail("local")
    BY <2>6 DEF Converted, Fail, Die, Goto, Attached, files, progress, BuilderSame, Builders, IInv,
                TypeOK, Machines
  <2> QED
    BY <2>1, <2>2, <2>3, <2>4, <2>5, <2>6 DEF Local, Step
<1> QED
  BY <1>1, <1>2, BuilderKept

LEMMA BuilderStarts ==
    ASSUME IInv, BuilderInv, StartBuilder
    PROVE  BuilderInv'
<1>1. \A k \in children : k.m = "builder" => k.parent # Unused("builder")
  BY UnusedIs DEF IInv, NotYet, Machines
<1>2. /\ pc["builder"] = "idle" /\ ~built
      /\ pid'["builder"] = Unused("builder") /\ pc'["builder"] = "missing"
      /\ UNCHANGED <<prev, inc, list, todo, children, built, failures>>
  BY DEF StartBuilder, Goto, files, progress, IInv, TypeOK, Machines
<1>3. Builders' = Builders /\ Wanted("builder")' = Wanted("builder")
  BY <1>2 DEF Builders, Wanted
<1>4. NoOrphan'
  BY <1>2, <1>3 DEF BuilderInv, NoOrphan, Making
<1> QED
  BY <1>2, <1>3, <1>4 DEF BuilderInv, OnlyWanted, OneChildEach, Covered, OneFailureIsHarmless, Making

\* A download takes no mar away.
LEMMA MarsGrow ==
    ASSUME IInv, NEW m \in Machines,
           DownloadVersion(m) \/ DownloadMar(m) \/ DownloadedVersion(m)
    PROVE  \A f \in Froms : prev[m][f].mars \subseteq prev'[m][f].mars
<1>1. CASE DownloadVersion(m)
  <2>1. PICK f \in Froms : prev' = [prev EXCEPT ![m][f].dir = TRUE]
    BY <1>1 DEF DownloadVersion, Missing
  <2>2. prev'[m] = [prev[m] EXCEPT ![f].dir = TRUE]
    BY <2>1 DEF IInv, TypeOK
  <2>3. prev[m] \in [Froms -> Versions]
    BY DEF IInv, TypeOK, Versions
  <2>4. /\ prev'[m][f] = [prev[m][f] EXCEPT !.dir = TRUE]
        /\ \A g \in Froms : g # f => prev'[m][g] = prev[m][g]
    BY <2>2, <2>3
  <2>5. [prev[m][f] EXCEPT !.dir = TRUE].mars = prev[m][f].mars
    BY <2>3, VersionRecords
  <2> QED
    BY <2>4, <2>5
<1>2. CASE DownloadMar(m)
  <2>1. PICK p \in Published[cur[m]] : prev' = [prev EXCEPT ![m][cur[m]].mars = @ \cup {p}]
    BY <1>2 DEF DownloadMar
  <2>2. cur[m] \in Froms
    BY <1>2 DEF DownloadMar, IInv, NotYet
  <2>3. prev'[m] = [prev[m] EXCEPT ![cur[m]].mars = @ \cup {p}]
    BY <2>1 DEF IInv, TypeOK
  <2>4. prev[m] \in [Froms -> Versions]
    BY DEF IInv, TypeOK, Versions
  <2>5. /\ prev'[m][cur[m]] = [prev[m][cur[m]] EXCEPT !.mars = @ \cup {p}]
        /\ \A g \in Froms : g # cur[m] => prev'[m][g] = prev[m][g]
    BY <2>2, <2>3, <2>4
  <2>6. prev[m][cur[m]].mars \cup {p} \in SUBSET Platforms
    BY <2>2, <2>4 DEF Versions
  <2>7. [prev[m][cur[m]] EXCEPT !.mars = prev[m][cur[m]].mars \cup {p}].mars
            = prev[m][cur[m]].mars \cup {p}
    BY <2>2, <2>4, <2>6, VersionRecords
  <2> QED
    BY <2>5, <2>7
<1>3. CASE DownloadedVersion(m)
  BY <1>3 DEF DownloadedVersion, files
<1> QED
  BY <1>1, <1>2, <1>3

LEMMA BuilderDownloads ==
    ASSUME IInv, BuilderInv,
           DownloadVersion("builder") \/ DownloadMar("builder") \/ DownloadedVersion("builder")
    PROVE  BuilderInv'
<1>1. /\ pc["builder"] \in {"missing", "mars"} /\ pc'["builder"] \in {"missing", "mars"}
      /\ UNCHANGED <<inc, list, todo, pid, children, built, failures>>
  BY DEF DownloadVersion, DownloadMar, DownloadedVersion, Goto, files, progress, IInv, TypeOK, Machines
<1>2. Wanted("builder") \subseteq Wanted("builder")'
  <2>1. \A f \in Froms : prev["builder"][f].mars \subseteq prev'["builder"][f].mars
    BY MarsGrow DEF Machines
  <2> QED
    BY <2>1 DEF Wanted, Tasks
<1>3. Builders' = Builders /\ ~built
  BY <1>1 DEF Builders, BuilderInv
<1>4. NoOrphan' /\ OnlyWanted'
  BY <1>1, <1>2, <1>3 DEF BuilderInv, NoOrphan, OnlyWanted, Making
<1> QED
  BY <1>1, <1>3, <1>4 DEF BuilderInv, OneChildEach, Covered, OneFailureIsHarmless, Making

LEMMA BuilderGoesOn ==
    ASSUME IInv, BuilderInv, GenIncrementals("builder") \/ WaitAllChildren("builder")
    PROVE  BuilderInv'
<1>1. /\ UNCHANGED <<prev, inc, list, pid, children, built, failures>>
      /\ pc["builder"] # "idle"
  BY DEF GenIncrementals, WaitAllChildren, files, progress
<1>2. /\ Builders' = Builders /\ Own' = Own /\ ~built
      /\ Wanted("builder")' = Wanted("builder") /\ Missing("builder")' = Missing("builder")
  BY <1>1 DEF Builders, Own, Wanted, Missing, BuilderInv
<1>3. CASE GenIncrementals("builder")
  <2>1. /\ pc["builder"] = "missing" /\ pc'["builder"] = "gen" /\ Missing("builder") = {}
        /\ todo'["builder"] = Wanted("builder")
    BY <1>3 DEF GenIncrementals, Goto, IInv, TypeOK, Machines
  <2>2. Own = {}
    BY <2>1 DEF IInv, NotYet, Own, Builders, Early, Machines
  <2> QED
    BY <1>1, <1>2, <2>1, <2>2 DEF BuilderInv, NoOrphan, OnlyWanted, OneChildEach, Covered,
                                  OneFailureIsHarmless, Making
<1>4. CASE WaitAllChildren("builder")
  <2>1. /\ pc["builder"] = "gen" /\ pc'["builder"] = "wait" /\ todo["builder"] = {}
        /\ UNCHANGED todo
    BY <1>4 DEF WaitAllChildren, Goto, IInv, TypeOK, Machines
  <2> QED
    BY <1>1, <1>2, <2>1 DEF BuilderInv, NoOrphan, OnlyWanted, OneChildEach, Covered,
                            OneFailureIsHarmless, Making
<1> QED
  BY <1>3, <1>4

LEMMA BuilderForks ==
    ASSUME IInv, BuilderInv, CreateIncrementalMar("builder")
    PROVE  BuilderInv'
<1> DEFINE child(t) == [m |-> "builder", parent |-> pid["builder"], task |-> t, status |-> "running"]
<1>1. PICK t \in todo["builder"] :
        /\ todo' = [todo EXCEPT !["builder"] = @ \ {t}]
        /\ children' = children \cup {child(t)}
  BY DEF CreateIncrementalMar, Skipped
<1>2. /\ pc["builder"] = "gen"
      /\ UNCHANGED <<prev, inc, list, pc, pid, built, failures>>
  BY DEF CreateIncrementalMar, files, progress
<1>3. /\ todo'["builder"] = todo["builder"] \ {t} /\ ~built
      /\ Wanted("builder")' = Wanted("builder") /\ Missing("builder")' = Missing("builder")
  BY <1>1, <1>2 DEF IInv, TypeOK, Machines, BuilderInv, Wanted, Missing
<1>4. /\ Builders' = Builders \cup {child(t)} /\ Own' = Own \cup {child(t)}
      /\ child(t).parent = pid["builder"] /\ child(t).task = t /\ child(t).status = "running"
  BY <1>1, <1>2 DEF Builders, Own
<1> HIDE DEF child
<1>5. \A k \in Own : k.task # t
  BY <1>2 DEF BuilderInv, OneChildEach, Making
<1>6. NoOrphan' /\ OnlyWanted'
  BY <1>2, <1>3, <1>4 DEF BuilderInv, NoOrphan, OnlyWanted, Making
<1>7. OneChildEach'
  BY <1>2, <1>3, <1>4, <1>5 DEF BuilderInv, OneChildEach, Making
<1>8. Covered'
  BY <1>2, <1>3, <1>4 DEF BuilderInv, Covered, Making
<1> QED
  BY <1>2, <1>3, <1>6, <1>7, <1>8 DEF BuilderInv, OneFailureIsHarmless

\* The command ends before it has made a list: nothing is asked of it, if it has failed
\* or has no child left.
LEMMA BuilderDies ==
    ASSUME IInv, BuilderInv, Die("builder"), children' \subseteq children,
           UNCHANGED <<prev, inc, list, pid, built>>, ~built,
           failures' # 0 \/ (failures = 0 /\ Builders = {})
    PROVE  BuilderInv'
<1>1. pc'["builder"] = "idle" /\ todo'["builder"] = {}
  BY DEF Die, Goto, IInv, TypeOK, Machines
<1>2. Builders' \subseteq Builders /\ Wanted("builder")' = Wanted("builder")
  BY DEF Builders, Wanted
<1>3. NoOrphan' /\ OnlyWanted'
  BY <1>1, <1>2 DEF BuilderInv, NoOrphan, OnlyWanted
<1> QED
  BY <1>1, <1>3 DEF BuilderInv, OneChildEach, Covered, OneFailureIsHarmless, Making

LEMMA BuilderFails ==
    ASSUME IInv, BuilderInv, Fail("builder")
    PROVE  BuilderInv'
<1>1. /\ Die("builder") /\ pc["builder"] # "idle" /\ children' \subseteq children
      /\ UNCHANGED <<prev, inc, list, pid, built>> /\ failures' = failures + 1
  BY DEF Fail, files, progress
<1>2. failures' # 0 /\ ~built
  BY <1>1 DEF IInv, TypeOK, BuilderInv
<1> QED
  BY <1>1, <1>2, BuilderDies

LEMMA BuilderReaps ==
    ASSUME IInv, BuilderInv, FinishedFile("builder")
    PROVE  BuilderInv'
<1>1. PICK k \in Attached("builder") :
        /\ k.status # "running"
        /\ IF Failed(k)
           THEN Die("builder")
                /\ children' = children \ {j \in Attached("builder") : j.status # "running"}
           ELSE children' = children \ {k} /\ UNCHANGED <<pc, cur, todo>>
  BY DEF FinishedFile
<1>2. UNCHANGED <<prev, inc, list, pid, built, failures>>
  BY DEF FinishedFile, files, progress
<1>3. k \in Own /\ k \in Builders /\ pc["builder"] \in Making /\ ~built
  BY <1>1 DEF Attached, Own, Builders, Making, BuilderInv
<1>4. CASE Failed(k)
  <2>1. Die("builder") /\ children' \subseteq children
    BY <1>1, <1>4
  <2>2. failures' # 0
    BY <1>2, <1>3, <1>4 DEF Failed, BuilderInv, NoOrphan
  <2> QED
    BY <1>2, <1>3, <2>1, <2>2, BuilderDies
<1>5. CASE ~Failed(k)
  <2>1. children' = children \ {k} /\ UNCHANGED <<pc, todo>>
    BY <1>1, <1>5
  <2>2. k.status = "ok"
    BY <1>1, <1>3, <1>5 DEF Failed, Builders, IInv, TypeOK
  <2>3. /\ Builders' = Builders \ {k} /\ Own' = Own \ {k}
        /\ Wanted("builder")' = Wanted("builder") /\ Missing("builder")' = Missing("builder")
    BY <1>2, <2>1 DEF Builders, Own, Wanted, Missing
  <2>4. NoOrphan' /\ OnlyWanted' /\ OneChildEach'
    BY <1>2, <2>1, <2>3 DEF BuilderInv, NoOrphan, OnlyWanted, OneChildEach
  <2>5. Covered'
    BY <1>2, <1>3, <2>1, <2>2, <2>3 DEF BuilderInv, Covered
  <2> QED
    BY <1>2, <1>3, <2>1, <2>4, <2>5 DEF BuilderInv, OneFailureIsHarmless
<1> QED
  BY <1>4, <1>5

LEMMA BuilderHashes ==
    ASSUME IInv, BuilderInv, HashIncrementals
    PROVE  BuilderInv'
<1> DEFINE made == {t \in Tasks : inc["builder"][t] # "none"}
<1>1. /\ pc["builder"] = "wait" /\ Attached("builder") = {} /\ Die("builder")
      /\ UNCHANGED <<prev, inc, pid, children, failures>>
  BY DEF HashIncrementals, AllReaped
<1>2. IF made = {} THEN UNCHANGED <<list, built>>
      ELSE list' = [list EXCEPT !["builder"] = made] /\ built' = TRUE
  BY Zenon DEF HashIncrementals
<1>3. Own = {} /\ ~built
  BY <1>1 DEF Attached, Own, Builders, BuilderInv
<1>4. failures = 0 => Builders = {}
  BY <1>3 DEF BuilderInv, NoOrphan, Own
<1>5. CASE made = {}
  <2> HIDE DEF made
  <2> QED
    BY <1>1, <1>2, <1>3, <1>4, <1>5, BuilderDies
<1>6. CASE made # {}
  <2>1. /\ pc'["builder"] = "idle" /\ todo'["builder"] = {} /\ list'["builder"] = made
        /\ built' = TRUE
    BY <1>1, <1>2, <1>6 DEF Die, Goto, IInv, TypeOK, Machines
  <2>2. Builders' = Builders /\ Wanted("builder")' = Wanted("builder")
    BY <1>1 DEF Builders, Wanted
  <2>3. NoOrphan' /\ OnlyWanted'
    BY <1>1, <1>4, <2>1, <2>2 DEF BuilderInv, NoOrphan, OnlyWanted
  <2>4. OneFailureIsHarmless'
    <3> SUFFICES ASSUME failures <= 1
                 PROVE  /\ made = {t \in Tasks : t[2] \in Published[t[1]]} \ Incomplete("builder")'
                        /\ \A t \in made : inc["builder"][t] # "none"
      BY <1>1, <2>1 DEF OneFailureIsHarmless
    <3>1. made = Wanted("builder")
      BY <1>1, <1>3 DEF BuilderInv, OnlyWanted, OneChildEach, Covered, Making, Wanted
    <3>2. \A f \in Froms : /\ prev["builder"][f].dir
                           /\ prev["builder"][f].mars \subseteq Published[f]
      BY <1>1 DEF BuilderInv, OneChildEach, Making, Missing, IInv, TypeOK, Machines
    <3>3. Wanted("builder")
            = {t \in Tasks : t[2] \in Published[t[1]]} \ Incomplete("builder")'
      BY <1>1, <3>2 DEF Wanted, Incomplete, Tasks
    <3> QED
      BY <3>1, <3>3
  <2> QED
    BY <2>1, <2>3, <2>4 DEF BuilderInv, OneChildEach, Covered, Making
<1> QED
  BY <1>5, <1>6

\* A child of the build machine that ends.  It fails once, or it is an orphan of the
\* command that has failed.
LEMMA BuildersChildEnds ==
    ASSUME IInv, BuilderInv, NEW k \in children, k.m = "builder",
           ChildRefuses(k) \/ ChildSucceeds(k) \/ ChildFails(k)
    PROVE  BuilderInv'
<1>1. /\ k \in [m : Machines, parent : Nat, task : Tasks, status : {"running", "ok", "failed"}]
      /\ k \in Builders /\ k.task \in Tasks /\ k.task \in Wanted("builder")
      /\ failures \in Nat
  BY DEF IInv, TypeOK, Builders, BuilderInv, OnlyWanted
<1>2. /\ UNCHANGED <<prev, list, pc, todo, pid, built>>
      /\ Wanted("builder")' = Wanted("builder") /\ Missing("builder")' = Missing("builder")
  BY DEF ChildRefuses, ChildSucceeds, ChildFails, files, progress, Wanted, Missing
<1>3. PICK status \in {"ok", "failed"} :
        /\ Ends(k, status)
        /\ \A t \in Tasks : t # k.task => inc'["builder"][t] = inc["builder"][t]
        /\ status = "ok" => inc'["builder"][k.task] # "none" /\ failures' = failures
        /\ status = "failed" => failures' = failures + 1
  <2>1. ~ChildRefuses(k)
    BY DEF ChildRefuses, SignatureMissing
  <2>2. CASE ChildSucceeds(k)
    <3>1. inc' = [inc EXCEPT !["builder"][k.task] = "unsigned"] /\ Ends(k, "ok")
          /\ failures' = failures
      BY <2>2 DEF ChildSucceeds
    <3> QED
      BY <1>1, <3>1 DEF IInv, TypeOK, Machines
  <2>3. CASE ChildFails(k)
    <3>1. inc' = inc \/ inc' = [inc EXCEPT !["builder"][k.task] = "none"]
      BY <2>3 DEF ChildFails
    <3>2. Ends(k, "failed") /\ failures' = failures + 1
      BY <2>3 DEF ChildFails
    <3> QED
      BY <1>1, <3>1, <3>2 DEF IInv, TypeOK, Machines
  <2> QED
    BY <2>1, <2>2, <2>3
<1> DEFINE e == [k EXCEPT !.status = status]
<1>4. e.m = "builder" /\ e.parent = k.parent /\ e.task = k.task /\ e.status = status
  BY <1>1
<1>5. children' = (children \ {k}) \cup (IF k \in Attached("builder") THEN {e} ELSE {})
  BY <1>3 DEF Ends
<1>6. k \in Attached("builder") <=> k \in Own /\ pc["builder"] \in Making
  BY <1>1 DEF Attached, Own, Builders, Making
<1> HIDE DEF e
<1>7. Builders' = (Builders \ {k}) \cup (IF k \in Attached("builder") THEN {e} ELSE {})
  BY <1>4, <1>5 DEF Builders
<1>8. OnlyWanted'
  BY <1>1, <1>2, <1>3, <1>4, <1>7 DEF BuilderInv, OnlyWanted
<1>9. CASE k \in Own /\ pc["builder"] \in Making
  <2>1. Own' = (Own \ {k}) \cup {e}
    BY <1>2, <1>4, <1>6, <1>7, <1>9 DEF Own
  <2>2. ~built /\ k.task \notin todo["builder"]
    BY <1>9 DEF BuilderInv, OneChildEach, Making
  <2>3. \A j \in Own : j # k => j.task # k.task /\ j.task \in Tasks
    BY <1>9 DEF BuilderInv, OneChildEach, IInv, TypeOK, Own, Builders
  <2>4. NoOrphan'
    BY <1>1, <1>2, <1>3, <1>4, <1>6, <1>7, <1>9 DEF BuilderInv, NoOrphan, Own
  <2>5. OneChildEach'
    BY <1>2, <1>4, <1>9, <2>1, <2>2, <2>3 DEF BuilderInv, OneChildEach
  <2>6. Covered'
    <3> SUFFICES ASSUME failures' <= 1
                 PROVE  /\ \A j \in Own' : j.status = "ok" => inc'["builder"][j.task] # "none"
                        /\ \A t \in Wanted("builder") :
                             \/ inc'["builder"][t] # "none" \/ t \in todo["builder"]
                             \/ \E j \in Own' : j.task = t
      BY <1>2 DEF Covered
    <3>1. failures <= 1
      BY <1>1, <1>3
    <3>2. ASSUME NEW j \in Own', j.status = "ok" PROVE inc'["builder"][j.task] # "none"
      <4>1. CASE j = e
        BY <1>3, <1>4, <3>2, <4>1
      <4>2. CASE j # e
        BY <1>3, <1>9, <2>1, <2>3, <3>1, <3>2, <4>2 DEF BuilderInv, Covered
      <4> QED
        BY <4>1, <4>2
    <3>3. ASSUME NEW t \in Wanted("builder")
          PROVE  \/ inc'["builder"][t] # "none" \/ t \in todo["builder"]
                 \/ \E j \in Own' : j.task = t
      <4>1. CASE t = k.task
        BY <1>4, <2>1, <4>1
      <4>2. CASE t # k.task
        BY <1>3, <1>9, <2>1, <3>1, <4>2 DEF BuilderInv, Covered, Wanted
      <4> QED
        BY <4>1, <4>2
    <3> QED
      BY <3>2, <3>3
  <2> QED
    BY <1>2, <1>8, <2>2, <2>4, <2>5, <2>6 DEF BuilderInv, OneFailureIsHarmless
<1>10. CASE ~(k \in Own /\ pc["builder"] \in Making)
  <2>1. Builders' = Builders \ {k} /\ Own' = Own \ {k}
    BY <1>2, <1>6, <1>7, <1>10 DEF Own
  <2>2. failures # 0
    BY <1>1, <1>10 DEF BuilderInv, NoOrphan, Own
  <2>3. /\ failures' # 0
        /\ failures' <= 1 => status = "ok" /\ failures <= 1
    BY <1>1, <1>3, <2>2
  <2>4. NoOrphan' /\ OneChildEach'
    BY <1>2, <2>1, <2>3 DEF BuilderInv, NoOrphan, OneChildEach
  <2>5. Covered'
    <3> SUFFICES ASSUME failures' <= 1, pc["builder"] \in Making
                 PROVE  /\ \A j \in Own' : j.status = "ok" => inc'["builder"][j.task] # "none"
                        /\ \A t \in Wanted("builder") :
                             \/ inc'["builder"][t] # "none" \/ t \in todo["builder"]
                             \/ \E j \in Own' : j.task = t
      BY <1>2 DEF Covered
    <3>1. Own' = Own
      BY <1>10, <2>1
    <3>2. \A t \in Tasks : inc["builder"][t] # "none" => inc'["builder"][t] # "none"
      BY <1>3, <2>3
    <3>3. \A j \in Own : j.task \in Tasks
      BY DEF IInv, TypeOK, Own, Builders
    <3> QED
      BY <2>3, <3>1, <3>2, <3>3 DEF BuilderInv, Covered, Wanted
  <2>6. OneFailureIsHarmless'
    <3>1. Incomplete("builder")' = Incomplete("builder")
      BY <1>2 DEF Incomplete
    <3>2. \A t \in list["builder"] : t \in Tasks
      BY DEF IInv, TypeOK, Machines
    <3> QED
      BY <1>2, <1>3, <2>3, <3>1, <3>2 DEF BuilderInv, OneFailureIsHarmless
  <2> QED
    BY <1>2, <1>8, <2>4, <2>5, <2>6 DEF BuilderInv
<1> QED
  BY <1>9, <1>10

LEMMA LocalsChildEnds ==
    ASSUME IInv, BuilderInv, NEW k \in children, k.m # "builder",
           ChildRefuses(k) \/ ChildSucceeds(k) \/ ChildFails(k)
    PROVE  BuilderInv'
<1>1. k \in [m : Machines, parent : Nat, task : Tasks, status : {"running", "ok", "failed"}]
  BY DEF IInv, TypeOK
<1>2. failures \in Nat /\ failures' \in Nat /\ failures <= failures'
  BY DEF ChildRefuses, ChildSucceeds, ChildFails, IInv, TypeOK
<1>3. BuilderSame
  BY <1>1 DEF ChildRefuses, ChildSucceeds, ChildFails, BuilderSame, files, progress, IInv, TypeOK,
              Machines
<1>4. PICK status \in {"ok", "failed"} : Ends(k, status)
  BY DEF ChildRefuses, ChildSucceeds, ChildFails
<1>5. [k EXCEPT !.status = status].m = k.m
  BY <1>1
<1>6. Builders' = Builders
  BY <1>4, <1>5 DEF Ends, Builders
<1> QED
  BY <1>2, <1>3, <1>6, BuilderKept

LEMMA NextKeepsBuilder == IInv /\ BuilderInv /\ [Next]_vars => BuilderInv'
<1> SUFFICES ASSUME IInv, BuilderInv, [Next]_vars PROVE BuilderInv'
  OBVIOUS
<1>1. CASE UNCHANGED vars
  BY <1>1, BuilderKept DEF vars, files, progress, BuilderSame, Builders, IInv, TypeOK
<1>2. CASE Builder
  BY <1>2, BuilderStarts, BuilderDownloads, BuilderGoesOn, BuilderForks, BuilderReaps, BuilderHashes
     DEF Builder, Step
<1>3. CASE Local \/ \E m \in Machines : Fail(m)
  BY <1>3, LocalStep, BuilderFails DEF Machines
<1>4. CASE Child
  BY <1>4, BuildersChildEnds, LocalsChildEnds DEF Child
<1> QED
  BY <1>1, <1>2, <1>3, <1>4 DEF Next, Terminated

\* One failure does no harm except in a download: whatever the one thing is that fails,
\* and whichever children it leaves without a parent, the list of the build machine names
\* every incremental mar of the versions it has, and each of these files stays there.
THEOREM OneFailure == Spec => []OneFailureIsHarmless
<1>1. Init => BuilderInv
  BY InitBuilderInv
<1>2. IInv /\ BuilderInv /\ [Next]_vars => BuilderInv'
  BY NextKeepsBuilder
<1>3. BuilderInv => OneFailureIsHarmless
  BY DEF BuilderInv
<1> QED
  BY <1>1, <1>2, <1>3, Invariance, PTL DEF Spec
=============================================================================

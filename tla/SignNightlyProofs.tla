-------------------------- MODULE SignNightlyProofs --------------------------
(***************************************************************************)
(* Proofs about SignNightly, for any projects, directories, mars and days. *)
(***************************************************************************)
EXTENDS SignNightly, TLAPS

-----------------------------------------------------------------------------
(* Types.                                                                  *)

\* A jump to a label.
LEMMA GotoType ==
    ASSUME NEW p \in Procs, NEW l \in Active \cup {"idle"}, Goto(p, l),
           pc \in [Procs -> Active \cup {"idle"}]
    PROVE  pc' \in [Procs -> Active \cup {"idle"}]
  BY DEF Goto

\* A file written.
LEMMA WriteType ==
    ASSUME file \in FileType, NEW d, NEW v, NEW x, NEW s \in States, Write(d, v, x, s)
    PROVE  file' \in FileType
  BY DEF FileType, Write

\* The responses the actions make.
LEMMA ResponseType ==
    /\ NoResp \in Responses
    /\ \A d \in Dirs \cup {"none"}, v \in Days \cup {0} :
         [dir |-> d, ver |-> v, hash |-> {}] \in Responses
    /\ \A r \in Responses : \A h \in SUBSET (Mars \X Contents) :
         [r EXCEPT !.hash = h] \in Responses
    /\ \A r \in Responses : r.hash \subseteq Mars \X Contents
  BY DaysAssumption DEF Responses, NoResp, Days

\* What update_responses makes of a configuration.
LEMMA GeneratedType ==
    ASSUME config \in Responses
    PROVE  Generated \in Responses
  BY ResponseType DEF Generated

\* Every step of a process keeps the type invariant.
LEMMA StepType ==
    ASSUME TypeOK, NEW p \in Procs, Start(p) \/ Step(p) \/ Fail(p) \/ Kill(p)
    PROVE  TypeOK'
  <1> USE DEF TypeOK, shared, local, env
  <1>1. CASE Start(p)
    BY <1>1 DEF Start, Active, Goto
  <1>2. CASE RunAloneCheck(p)
    BY <1>2 DEF RunAloneCheck, Active, Goto
  <1>3. CASE RunAloneWrite(p)
    BY <1>3, ProcsAssumption DEF RunAloneWrite, Active, Goto
  <1>4. CASE Quit(p)
    BY <1>4 DEF Quit, Active, Goto
  <1>5. CASE NextPublishDir(p)
    BY <1>5 DEF NextPublishDir, Active, Goto, GetNewVersion, GetLastBuildVersion, Window
  <1>6. CASE FetchVersion(p)
    BY <1>6 DEF FetchVersion, Active, Goto
  <1>7. CASE MoveToDestdir(p)
    <2>1. pc' \in [Procs -> Active \cup {"idle"}]
      BY <1>7, GotoType DEF MoveToDestdir, Active
    <2>2. file' \in FileType
      BY <1>7, WriteType DEF MoveToDestdir, States, Contents
    <2> QED BY <1>7, <2>1, <2>2 DEF MoveToDestdir, Write
  <1>8. CASE SignVersion(p)
    <2>1. pc' \in [Procs -> Active \cup {"idle"}]
      BY <1>8, GotoType DEF SignVersion, Active
    <2>2. file' \in FileType
      BY <1>8, WriteType DEF SignVersion, States, Contents
    <2> QED BY <1>8, <2>1, <2>2 DEF SignVersion, Write
  <1>9. CASE WriteConfig(p)
    <2>1. pc' \in [Procs -> Active \cup {"idle"}]
      BY <1>9, GotoType DEF WriteConfig, Active
    <2>2. config' \in Responses
      BY <1>9, ResponseType DEF WriteConfig
    <2> QED BY <1>9, <2>1, <2>2 DEF WriteConfig
  <1>10. CASE RemoveHtdocs(p)
    <2>1. pc' \in [Procs -> Active \cup {"idle"}]
      BY <1>10, GotoType DEF RemoveHtdocs, Active
    <2>2. htdocs' \in Responses
      BY <1>10, ResponseType DEF RemoveHtdocs
    <2> QED BY <1>10, <2>1, <2>2 DEF RemoveHtdocs
  <1>11. CASE RunUpdateResponses(p)
    <2>1. pc' \in [Procs -> Active \cup {"idle"}]
      BY <1>11, GotoType DEF RunUpdateResponses, Active
    <2>2. htdocs' \in Responses
      BY <1>11, ResponseType, GeneratedType DEF RunUpdateResponses
    <2> QED BY <1>11, <2>1, <2>2 DEF RunUpdateResponses
  <1>12. CASE RemovePublished(p)
    <2>1. pc' \in [Procs -> Active \cup {"idle"}]
      BY <1>12, GotoType DEF RemovePublished, Active
    <2>2. published' \in [Dirs -> Responses]
      BY <1>12, ResponseType DEF RemovePublished
    <2> QED BY <1>12, <2>1, <2>2 DEF RemovePublished
  <1>13. CASE BeginPublish(p)
    <2>1. pc' \in [Procs -> Active \cup {"idle"}]
      BY <1>13, GotoType DEF BeginPublish, Active
    <2>2. published' \in [Dirs -> Responses]
      <3>1. CASE htdocs = NoResp
        BY <1>13, <3>1 DEF BeginPublish
      <3>2. CASE htdocs # NoResp
        <4>1. PICK part \in SUBSET htdocs.hash :
                published' = [published EXCEPT ![dir[p]] = [htdocs EXCEPT !.hash = part]]
          BY <1>13, <3>2 DEF BeginPublish
        <4>2. [htdocs EXCEPT !.hash = part] \in Responses
          BY ResponseType
        <4> QED BY <4>1, <4>2
      <3> QED BY <3>1, <3>2
    <2> QED BY <1>13, <2>1, <2>2 DEF BeginPublish
  <1>14. CASE EndPublish(p)
    <2>1. pc' \in [Procs -> Active \cup {"idle"}]
      BY <1>14, GotoType DEF EndPublish, Active
    <2>2. published' \in [Dirs -> Responses]
      BY <1>14, ResponseType DEF EndPublish
    <2> QED BY <1>14, <2>1, <2>2, ResponseType DEF EndPublish
  <1>15. CASE SetCurrentVersion(p)
    BY <1>15 DEF SetCurrentVersion, Active, Goto
  <1>16. CASE RemoveOldversions(p)
    BY <1>16 DEF RemoveOldversions, Active, Goto, FileType, EmptyVersion, States
  <1>17. CASE SyncMars(p)
    <2>1. pc' \in [Procs -> Active \cup {"idle"}]
      BY <1>17, GotoType DEF SyncMars, Active
    <2>2. dest' \in FileType
      <3>1. CASE dest' = dest
        BY <3>1
      <3>2. CASE \E d \in todo[p] :
                   dest' = [dest EXCEPT ![d] = [v \in Days |-> [x \in Names |->
                     IF file[d][v][x] # "absent" THEN file[d][v][x] ELSE @[v][x]]]]
        <4>1. PICK d \in Dirs :
                dest' = [dest EXCEPT ![d] = [v \in Days |-> [x \in Names |->
                  IF file[d][v][x] # "absent" THEN file[d][v][x] ELSE @[v][x]]]]
          BY <3>2
        <4>2. [v \in Days |-> [x \in Names |-> IF file[d][v][x] # "absent"
                 THEN file[d][v][x] ELSE dest[d][v][x]]] \in [Days -> [Names -> States]]
          BY DEF FileType
        <4> QED BY <4>1, <4>2 DEF FileType
      <3> QED BY <1>17, <3>1, <3>2 DEF SyncMars
    <2> QED BY <1>17, <2>1, <2>2 DEF SyncMars
  <1>18. CASE SyncUpdates(p)
    <2>1. pc' \in [Procs -> Active \cup {"idle"}]
      BY <1>18, GotoType DEF SyncUpdates, Active
    <2>2. destResp' \in [Dirs -> Responses]
      BY <1>18, ResponseType DEF SyncUpdates
    <2> QED BY <1>18, <2>1, <2>2 DEF SyncUpdates
  <1>19. CASE SyncDelete(p)
    BY <1>19 DEF SyncDelete, Active, Goto, FileType, Responses, NoResp
  <1>20. CASE Fail(p)
    BY <1>20, BoundsAssumption DEF Fail, Active, Goto
  <1>21. CASE Kill(p)
    BY <1>21, BoundsAssumption DEF Kill, Active, Goto
  <1> QED BY <1>1, <1>2, <1>3, <1>4, <1>5, <1>6, <1>7, <1>8, <1>9, <1>10, <1>11,
             <1>12, <1>13, <1>14, <1>15, <1>16, <1>17, <1>18, <1>19, <1>20, <1>21 DEF
             Step

\* The environment keeps it too.
LEMMA EnvironmentType == TypeOK /\ Environment => TypeOK'
  <1> SUFFICES ASSUME TypeOK, Environment PROVE TypeOK'
    OBVIOUS
  <1> USE DEF TypeOK, shared, local, Days
  <1>1. CASE NextDay
    BY <1>1, DaysAssumption DEF NextDay
  <1>2. CASE BuildFinishes
    <2>1. PICK d \in Dirs : \E v \in {today - 1, today} \cap Made[d] :
                               builds' = [builds EXCEPT ![d] = @ \cup {v}]
      BY <1>2 DEF BuildFinishes
    <2>2. Made[d] \subseteq Days
      BY MadeAssumption
    <2>3. \A v \in Made[d] : builds[d] \cup {v} \in SUBSET Days
      BY <2>2
    <2>4. builds' \in [Dirs -> SUBSET Days]
      BY <2>1, <2>3
    <2> QED BY <1>2, <2>4 DEF BuildFinishes
  <1>3. CASE BuildIsPruned
    BY <1>3 DEF BuildIsPruned
  <1> QED BY <1>1, <1>2, <1>3 DEF Environment

\* The initial state.
LEMMA InitType == ASSUME Init PROVE TypeOK
  BY DaysAssumption, BoundsAssumption, ResponseType
  DEF Init, TypeOK, Days, FileType, EmptyVersion, States

LEMMA NextType == TypeOK /\ [Next]_vars => TypeOK'
  <1> SUFFICES ASSUME TypeOK, [Next]_vars PROVE TypeOK'
    OBVIOUS
  <1>1. CASE UNCHANGED vars
    BY <1>1 DEF vars, TypeOK
  <1>2. CASE Environment
    BY <1>2, EnvironmentType
  <1>3. CASE \E p \in Procs : Start(p) \/ Step(p) \/ Fail(p) \/ Kill(p)
    BY <1>3, StepType
  <1> QED BY <1>1, <1>2, <1>3 DEF Next

-----------------------------------------------------------------------------
(* The inductive invariant behind DestServable, LocalServable and           *)
(* NeverDowngrades, for runs that do not overlap.                           *)

\* The labels at which a run works on a version of a directory, and those from
\* which on its mars are signed.
SignedLabels == {"conf", "clean", "gen", "unpublish", "publish", "moving",
                 "setcur", "remove"}
Working == {"fetch", "copy", "sign"} \cup SignedLabels

\* One run at a time.
Alone == \A p, q \in Procs : pc[p] # "idle" /\ pc[q] # "idle" => p = q

Placed == \A p \in Procs : pc[p] \in Working => dir[p] \in Dirs /\ ver[p] \in Days

\* A version that was ever taken up is still on the build server or has expired:
\* no older one is ever the newest of the window again.
Settled(d, v) == v = 0 \/ v \in builds[d] \/ v + KeepDays < today

Calendar ==
    \A d \in Dirs : /\ \A v \in builds[d] : v <= today
                    /\ Settled(d, current[d])
                    /\ Settled(d, published[d].ver)
                    /\ Settled(d, destResp[d].ver)

Ordered ==
    /\ \A d \in Dirs : published[d] # NoResp => destResp[d].ver <= published[d].ver
    /\ \A p \in Procs : pc[p] \in Working =>
         /\ Settled(dir[p], ver[p])
         /\ destResp[dir[p]].ver <= ver[p]
         /\ IF pc[p] = "remove" THEN ver[p] = current[dir[p]]
                                ELSE ver[p] > current[dir[p]]

\* What a run knows of the version it works on.
Progress ==
    \A p \in Procs :
        /\ pc[p] \in SignedLabels =>
             \A m \in Mars : file[dir[p]][ver[p]][m] \in {"absent", "signed"}
        /\ pc[p] \in {"clean", "gen"} => config.dir = dir[p] /\ config.ver = ver[p]
        /\ pc[p] \in {"unpublish", "publish", "moving"} =>
             htdocs.ver = ver[p] /\ Servable(htdocs, dir[p], file)
        /\ pc[p] \in {"setcur", "remove"} => published[dir[p]].ver = ver[p]

\* A mar the destination's responses name is signed in the local tree too, or
\* was removed from it because a newer version is current.
NotSpoiled ==
    \A d \in Dirs : \A h \in destResp[d].hash :
        \/ file[d][destResp[d].ver][h[1]] = "signed"
        \/ file[d][destResp[d].ver][h[1]] = "absent" /\ destResp[d].ver < current[d]

\* What rsync has already sent.
Sent ==
    \A p \in Procs, d \in Dirs :
        /\ (pc[p] = "syncmars" /\ d \notin todo[p]) \/ pc[p] \in {"syncupdates", "syncdelete"} =>
             \A v \in Days, x \in Names :
                file[d][v][x] # "absent" => dest[d][v][x] = file[d][v][x]
        /\ (pc[p] = "syncupdates" /\ d \notin todo[p]) \/ pc[p] = "syncdelete"
             => (published[d] # NoResp => destResp[d] = published[d])

IInv == /\ TypeOK /\ Alone /\ Placed /\ Calendar /\ Ordered /\ Progress
        /\ LocalServable /\ DestServable /\ NotSpoiled /\ Sent

-----------------------------------------------------------------------------
(* It is inductive.                                                        *)

\* Labels at which a run knows nothing of a version.
Neutral == {"idle", "check", "write", "loop", "quit"}

\* A step to such a label that leaves the trees alone.
LEMMA NeutralStep ==
    ASSUME IInv, TypeOK', Alone', NEW p \in Procs, NEW l \in Neutral, Goto(p, l),
           UNCHANGED <<env, current, dirs, file, config, htdocs, published, dest, destResp>>,
           \A q \in Procs : q # p => dir'[q] = dir[q] /\ ver'[q] = ver[q] /\ todo'[q] = todo[q]
    PROVE  IInv'
  <1> USE DEF IInv, env
  <1>1. \A q \in Procs : q # p => pc'[q] = pc[q]
    BY DEF Goto, TypeOK
  <1>2. pc'[p] \in Neutral
    BY DEF Goto, TypeOK
  <1>3. pc'[p] \notin Working \cup {"syncmars", "syncupdates", "syncdelete"}
    BY <1>2 DEF Neutral, Working, SignedLabels
  <1>4. Placed'
    BY <1>1, <1>3 DEF Placed
  <1>5. Calendar'
    BY DEF Calendar, Settled
  <1>6. Ordered'
    BY <1>1, <1>3 DEF Ordered, Settled
  <1>7. Progress'
    BY <1>1, <1>3 DEF Progress, Servable, Working, SignedLabels
  <1>8. LocalServable' /\ DestServable' /\ NotSpoiled'
    BY DEF LocalServable, DestServable, NotSpoiled, Servable
  <1>9. Sent'
    BY <1>1, <1>3 DEF Sent
  <1> QED BY <1>4, <1>5, <1>6, <1>7, <1>8, <1>9

\* Two runs do not overlap.
LEMMA AloneStep ==
    ASSUME MayOverlap = FALSE, TypeOK, Alone, [Next]_vars
    PROVE  Alone'
  <1>1. CASE UNCHANGED <<pc>>
    BY <1>1 DEF Alone
  <1>2. ASSUME NEW p \in Procs, Start(p) PROVE Alone'
    BY <1>2 DEF Start, Goto, Alone, TypeOK
  <1>3. ASSUME NEW p \in Procs, pc[p] # "idle", NEW l, Goto(p, l) PROVE Alone'
    BY <1>3 DEF Goto, Alone, TypeOK
  <1>4. ASSUME NEW p \in Procs, Fail(p) \/ Kill(p) PROVE Alone'
    BY <1>4, <1>3 DEF Fail, Kill, Active
  <1>5. ASSUME NEW p \in Procs, Step(p) PROVE Alone'
    <2> USE <1>1, <1>3
    <2>1. CASE RunAloneCheck(p)
      BY <2>1 DEF RunAloneCheck
    <2>2. CASE RunAloneWrite(p)
      BY <2>2 DEF RunAloneWrite
    <2>3. CASE Quit(p)
      BY <2>3 DEF Quit
    <2>4. CASE NextPublishDir(p)
      BY <2>4 DEF NextPublishDir
    <2>5. CASE FetchVersion(p)
      BY <2>5 DEF FetchVersion
    <2>6. CASE MoveToDestdir(p)
      BY <2>6 DEF MoveToDestdir
    <2>7. CASE SignVersion(p)
      BY <2>7 DEF SignVersion
    <2>8. CASE WriteConfig(p)
      BY <2>8 DEF WriteConfig
    <2>9. CASE RemoveHtdocs(p)
      BY <2>9 DEF RemoveHtdocs
    <2>10. CASE RunUpdateResponses(p)
      BY <2>10 DEF RunUpdateResponses
    <2>11. CASE RemovePublished(p)
      BY <2>11 DEF RemovePublished
    <2>12. CASE BeginPublish(p)
      BY <2>12 DEF BeginPublish
    <2>13. CASE EndPublish(p)
      BY <2>13 DEF EndPublish
    <2>14. CASE SetCurrentVersion(p)
      BY <2>14 DEF SetCurrentVersion
    <2>15. CASE RemoveOldversions(p)
      BY <2>15 DEF RemoveOldversions
    <2>16. CASE SyncMars(p)
      BY <2>16 DEF SyncMars
    <2>17. CASE SyncUpdates(p)
      BY <2>17 DEF SyncUpdates
    <2>18. CASE SyncDelete(p)
      BY <2>18 DEF SyncDelete
    <2> QED BY <1>5, <2>1, <2>2, <2>3, <2>4, <2>5, <2>6, <2>7, <2>8, <2>9, <2>10,
               <2>11, <2>12, <2>13, <2>14, <2>15, <2>16, <2>17, <2>18 DEF Step
  <1>6. CASE Environment
    BY <1>6, <1>1 DEF Environment, NextDay, BuildFinishes, BuildIsPruned, local
  <1> QED BY <1>1, <1>2, <1>4, <1>5, <1>6 DEF Next, vars

\* The other processes are idle.
LEMMA OthersIdle ==
    ASSUME IInv, Alone', NEW p \in Procs, pc[p] # "idle", pc'[p] # "idle"
    PROVE  \A q \in Procs : q # p => pc[q] = "idle" /\ pc'[q] = "idle"
  BY DEF IInv, Alone

\* No version that was taken up before is newer than the newest of the window.
LEMMA NewestIsNewer ==
    ASSUME TypeOK, NEW d \in Dirs, NEW v \in GetLastBuildVersion(d),
           \A u \in builds[d] : u <= today, NEW w \in Days \cup {0}, Settled(d, w)
    PROVE  w <= v /\ v \in builds[d] /\ v \in Days
  BY DaysAssumption DEF TypeOK, GetLastBuildVersion, Window, Settled, Days

LEMMA ResponseVersion == \A r \in Responses : r.ver \in Days \cup {0}
  BY DaysAssumption DEF Responses, Days

\* The effect of writing a file.
LEMMA WriteEffect ==
    ASSUME file \in FileType, NEW d \in Dirs, NEW v \in Days, NEW x \in Names,
           NEW s, Write(d, v, x, s)
    PROVE  \A e \in Dirs, w \in Days, y \in Names :
             file'[e][w][y] = IF e = d /\ w = v /\ y = x THEN s ELSE file[e][w][y]
  BY DEF FileType, Write

\* Responses that can be followed go on being so as long as signed mars stay.
LEMMA StillServable ==
    ASSUME NEW r \in Responses, NEW d \in Dirs, Servable(r, d, file),
           \A m \in Mars : file[d][r.ver][m] = "signed" => file'[d][r.ver][m] = "signed"
    PROVE  Servable(r, d, file')
  BY ResponseType DEF Servable

\* What the responses at the destination name.
LEMMA DestNames ==
    ASSUME IInv, NEW d \in Dirs, NEW h \in destResp[d].hash
    PROVE  /\ destResp[d].ver \in Days
           /\ h[1] \in Mars
           /\ h[1] \in Names
           /\ dest[d][destResp[d].ver][h[1]] = "signed"
  <1>1. destResp[d] # NoResp
    BY DEF NoResp
  <1>2. destResp[d] \in Responses
    BY DEF IInv, TypeOK
  <1> QED BY <1>1, <1>2, ResponseType DEF IInv, DestServable, Servable, Names

\* A version directory appears; nothing the invariant speaks of changes.
LEMMA FetchVersionStep ==
    ASSUME IInv, TypeOK', Alone', NEW p \in Procs, FetchVersion(p) PROVE IInv'
  <1> USE DEF IInv, env
  <1>1. pc[p] = "fetch" /\ pc'[p] \in {"sign", "copy", "quit"}
    BY DEF FetchVersion, Goto, TypeOK
  <1>2. \A q \in Procs : q # p => pc[q] = "idle" /\ pc'[q] = "idle"
    BY <1>1, OthersIdle
  <1>3. Placed'
    BY <1>1, <1>2 DEF FetchVersion, Placed, Working, SignedLabels
  <1>4. Calendar'
    BY <1>1, <1>2 DEF FetchVersion, Calendar, Settled
  <1>5. Ordered'
    BY <1>1, <1>2 DEF FetchVersion, Ordered, Settled, Working, SignedLabels
  <1>6. Progress'
    BY <1>1, <1>2 DEF FetchVersion, Progress, Servable, Working, SignedLabels
  <1>7. LocalServable'
    BY <1>1, <1>2 DEF FetchVersion, LocalServable, Servable
  <1>8. DestServable'
    BY <1>1, <1>2 DEF FetchVersion, DestServable, Servable
  <1>9. NotSpoiled'
    BY <1>1, <1>2 DEF FetchVersion, NotSpoiled
  <1>10. Sent'
    BY <1>1, <1>2 DEF FetchVersion, Sent
  <1> QED BY <1>3, <1>4, <1>5, <1>6, <1>7, <1>8, <1>9, <1>10

\* One file of a version is begun, or its copy ends.
Copied(p, x, s) ==
    /\ Write(dir[p], ver[p], x, s)
    /\ \/ file[dir[p]][ver[p]][x] = "absent" /\ s = "partial"
       \/ file[dir[p]][ver[p]][x] = "partial" /\ s = "unsigned"

LEMMA CopyStep ==
    ASSUME NEW p \in Procs, MoveToDestdir(p)
    PROVE  \/ file' = file
           \/ \E x \in Names, s \in States : Copied(p, x, s)
  <1> DEFINE there == file[dir[p]][ver[p]]
             copying == {x \in Names : there[x] = "partial"}
             missing == {x \in Names : there[x] = "absent"}
  <1>1. \/ \E x \in copying : Write(dir[p], ver[p], x, "unsigned")
        \/ \E x \in missing : Write(dir[p], ver[p], x, "partial")
        \/ file' = file
    BY DEF MoveToDestdir
  <1>2. "partial" \in States /\ "unsigned" \in States
    BY DEF States, Contents
  <1> QED BY <1>1, <1>2 DEF Copied

\* A file arrives where there was none: no response names it, for those of the
\* destination that do are older than the version the run works on.
LEMMA MoveToDestdirStep ==
    ASSUME IInv, TypeOK', Alone', NEW p \in Procs, MoveToDestdir(p) PROVE IInv'
  <1> USE DEF IInv, env
  <1>1. pc[p] = "copy" /\ pc'[p] \in {"copy", "sign"}
    BY DEF MoveToDestdir, Goto, TypeOK
  <1>2. \A q \in Procs : q # p => pc[q] = "idle" /\ pc'[q] = "idle"
    BY <1>1, OthersIdle
  <1>3. Placed'
    BY <1>1, <1>2 DEF MoveToDestdir, Placed, Working, SignedLabels
  <1>4. Calendar'
    BY <1>1, <1>2 DEF MoveToDestdir, Calendar, Settled
  <1>5. Ordered'
    BY <1>1, <1>2 DEF MoveToDestdir, Ordered, Settled, Working, SignedLabels
  <1>6. Progress'
    BY <1>1, <1>2 DEF MoveToDestdir, Progress, Servable, Working, SignedLabels
  <1>7. LocalServable'
    <2>1. dir[p] \in Dirs /\ ver[p] \in Days
      BY <1>1 DEF Placed, Working, SignedLabels
    <2>2. \A d \in Dirs, v \in Days, m \in Mars :
            file[d][v][m] = "signed" => file'[d][v][m] = "signed"
      <3>1. CASE file' = file
        BY <3>1
      <3>2. ASSUME NEW x \in Names, NEW s \in States, Copied(p, x, s)
            PROVE  \A d \in Dirs, v \in Days, m \in Mars :
                      file[d][v][m] = "signed" => file'[d][v][m] = "signed"
        <4>1. \A e \in Dirs, w \in Days, y \in Names : file'[e][w][y] =
                IF e = dir[p] /\ w = ver[p] /\ y = x THEN s ELSE file[e][w][y]
          BY <2>1, <3>2, WriteEffect DEF TypeOK, Copied
        <4> QED BY <3>2, <4>1 DEF Names, Copied
      <3> QED BY <3>1, <3>2, CopyStep
    <2>3. published' = published
      BY DEF MoveToDestdir
    <2> SUFFICES ASSUME NEW d \in Dirs PROVE Servable(published[d], d, file')
      BY <2>3 DEF LocalServable
    <2>4. CASE published[d] = NoResp
      BY <2>4 DEF Servable
    <2>5. CASE published[d] # NoResp
      <3>1. published[d].ver \in Days /\ Servable(published[d], d, file)
        BY <2>5 DEF LocalServable, Servable
      <3>2. published[d] \in Responses
        BY DEF TypeOK
      <3>3. \A m \in Mars : file[d][published[d].ver][m] = "signed"
                            => file'[d][published[d].ver][m] = "signed"
        BY <2>2, <3>1
      <3> HIDE DEF IInv
      <3> QED BY <3>1, <3>2, <3>3, StillServable
    <2> QED BY <2>4, <2>5
  <1>8. DestServable'
    BY <1>1, <1>2 DEF MoveToDestdir, DestServable, Servable
  <1>9. NotSpoiled'
    <2> SUFFICES ASSUME NEW d \in Dirs, NEW h \in destResp[d].hash
                 PROVE  \/ file'[d][destResp[d].ver][h[1]] = "signed"
                        \/ /\ file'[d][destResp[d].ver][h[1]] = "absent"
                           /\ destResp[d].ver < current[d]
      BY DEF MoveToDestdir, NotSpoiled
    <2>1. dir[p] \in Dirs /\ ver[p] \in Days
      BY <1>1 DEF Placed, Working, SignedLabels
    <2>2. destResp[d].ver \in Days /\ h[1] \in Names
      BY DestNames
    <2>3. \/ file[d][destResp[d].ver][h[1]] = "signed"
          \/ /\ file[d][destResp[d].ver][h[1]] = "absent"
             /\ destResp[d].ver < current[d]
      BY DEF NotSpoiled
    <2>4. CASE file' = file
      BY <2>3, <2>4
    <2>5. CASE \E x \in Names, s \in States : Copied(p, x, s)
      <3>1. PICK x \in Names, s \in States : Copied(p, x, s)
        BY <2>5
      <3>2. CASE d = dir[p] /\ destResp[d].ver = ver[p] /\ h[1] = x
        <4>1. destResp[d].ver < current[d]
          BY <2>3, <3>1, <3>2 DEF Copied
        <4>2. ver[p] > current[dir[p]]
          BY <1>1 DEF Ordered, Working
        <4>3. ver[p] \in Nat /\ current[dir[p]] \in Nat
          BY <2>1 DEF TypeOK, Days
        <4>4. ver[p] < current[dir[p]]
          BY <3>2, <4>1
        <4> HIDE DEF IInv
        <4> QED BY <4>2, <4>3, <4>4
      <3>3. CASE ~(d = dir[p] /\ destResp[d].ver = ver[p] /\ h[1] = x)
        BY <2>1, <2>2, <2>3, <3>1, <3>3, WriteEffect DEF TypeOK, Copied
      <3> QED BY <3>2, <3>3
    <2> QED BY <2>4, <2>5, CopyStep
  <1>10. Sent'
    BY <1>1, <1>2 DEF MoveToDestdir, Sent
  <1> QED BY <1>3, <1>4, <1>5, <1>6, <1>7, <1>8, <1>9, <1>10

\* Unsigned mars become signed ones, and when none is left the run goes on.
LEMMA SignVersionStep ==
    ASSUME IInv, TypeOK', Alone', NEW p \in Procs, SignVersion(p) PROVE IInv'
  <1> USE DEF IInv, env
  <1>1. pc[p] = "sign" /\ pc'[p] \in {"sign", "conf", "quit"}
    BY DEF SignVersion, Goto, TypeOK
  <1>2. \A q \in Procs : q # p => pc[q] = "idle" /\ pc'[q] = "idle"
    BY <1>1, OthersIdle
  <1>3. Placed'
    BY <1>1, <1>2 DEF SignVersion, Placed, Working, SignedLabels
  <1>4. Calendar'
    BY <1>1, <1>2 DEF SignVersion, Calendar, Settled
  <1>5. Ordered'
    BY <1>1, <1>2 DEF SignVersion, Ordered, Settled, Working, SignedLabels
  <1>6. Progress'
    <2>1. pc'[p] = "conf" =>
            /\ file' = file
            /\ \A m \in Mars : file[dir[p]][ver[p]][m] \in {"absent", "signed"}
      BY <1>1 DEF SignVersion, Goto, TypeOK
    <2>2. UNCHANGED <<dir, ver, config, htdocs, published>>
      BY DEF SignVersion
    <2> QED BY <1>1, <1>2, <2>1, <2>2 DEF Progress, SignedLabels
  <1>7. LocalServable'
    <2>1. dir[p] \in Dirs /\ ver[p] \in Days
      BY <1>1 DEF Placed, Working, SignedLabels
    <2>2. \A d \in Dirs, v \in Days, m \in Mars :
            file[d][v][m] = "signed" => file'[d][v][m] = "signed"
      <3>1. CASE file' = file
        BY <3>1
      <3>2. CASE \E x \in Names : /\ file[dir[p]][ver[p]][x] = "unsigned"
                                  /\ Write(dir[p], ver[p], x, "signed")
        <4>1. PICK x \in Names : /\ file[dir[p]][ver[p]][x] = "unsigned"
                                 /\ Write(dir[p], ver[p], x, "signed")
          BY <3>2
        <4>2. \A e \in Dirs, w \in Days, y \in Names : file'[e][w][y] =
                IF e = dir[p] /\ w = ver[p] /\ y = x THEN "signed" ELSE file[e][w][y]
          BY <2>1, <4>1, WriteEffect DEF TypeOK
        <4> QED BY <4>1, <4>2 DEF Names
      <3> QED BY <3>1, <3>2 DEF SignVersion, Names
    <2>3. published' = published
      BY DEF SignVersion
    <2> SUFFICES ASSUME NEW d \in Dirs PROVE Servable(published[d], d, file')
      BY <2>3 DEF LocalServable
    <2>4. CASE published[d] = NoResp
      BY <2>4 DEF Servable
    <2>5. CASE published[d] # NoResp
      <3>1. published[d].ver \in Days /\ Servable(published[d], d, file)
        BY <2>5 DEF LocalServable, Servable
      <3>2. published[d] \in Responses
        BY DEF TypeOK
      <3>3. \A m \in Mars : file[d][published[d].ver][m] = "signed"
                            => file'[d][published[d].ver][m] = "signed"
        BY <2>2, <3>1
      <3> HIDE DEF IInv
      <3> QED BY <3>1, <3>2, <3>3, StillServable
    <2> QED BY <2>4, <2>5
  <1>8. DestServable'
    BY <1>1, <1>2 DEF SignVersion, DestServable, Servable
  <1>9. NotSpoiled'
    <2> SUFFICES ASSUME NEW d \in Dirs, NEW h \in destResp[d].hash
                 PROVE  \/ file'[d][destResp[d].ver][h[1]] = "signed"
                        \/ /\ file'[d][destResp[d].ver][h[1]] = "absent"
                           /\ destResp[d].ver < current[d]
      BY DEF SignVersion, NotSpoiled
    <2>1. dir[p] \in Dirs /\ ver[p] \in Days
      BY <1>1 DEF Placed, Working, SignedLabels
    <2>2. destResp[d].ver \in Days /\ h[1] \in Names
      BY DestNames
    <2>3. \/ file[d][destResp[d].ver][h[1]] = "signed"
          \/ /\ file[d][destResp[d].ver][h[1]] = "absent"
             /\ destResp[d].ver < current[d]
      BY DEF NotSpoiled
    <2> QED BY <2>1, <2>2, <2>3, WriteEffect DEF SignVersion, TypeOK, Names
  <1>10. Sent'
    BY <1>1, <1>2 DEF SignVersion, Sent
  <1> QED BY <1>3, <1>4, <1>5, <1>6, <1>7, <1>8, <1>9, <1>10

\* The configuration is the one of the version the run works on.
LEMMA WriteConfigStep ==
    ASSUME IInv, TypeOK', Alone', NEW p \in Procs, WriteConfig(p) PROVE IInv'
  <1> USE DEF IInv, env
  <1>1. pc[p] = "conf" /\ pc'[p] \in {"quit", "clean"}
    BY DEF WriteConfig, Goto, TypeOK
  <1>2. \A q \in Procs : q # p => pc[q] = "idle" /\ pc'[q] = "idle"
    BY <1>1, OthersIdle
  <1>3. Placed'
    BY <1>1, <1>2 DEF WriteConfig, Placed, Working, SignedLabels
  <1>4. Calendar'
    BY <1>1, <1>2 DEF WriteConfig, Calendar, Settled
  <1>5. Ordered'
    BY <1>1, <1>2 DEF WriteConfig, Ordered, Settled, Working, SignedLabels
  <1>6. Progress'
    <2>1. dir[p] \in Dirs /\ ver[p] \in Days
      BY <1>1 DEF Placed, Working, SignedLabels
    <2>2. pc'[p] = "clean" => config'.dir = dir[p] /\ config'.ver = ver[p]
      BY <1>1 DEF WriteConfig, Goto, TypeOK
    <2>3. UNCHANGED <<dir, ver, file, published, htdocs>>
      BY DEF WriteConfig
    <2> QED BY <1>1, <1>2, <2>2, <2>3 DEF Progress, SignedLabels
  <1>7. LocalServable'
    BY <1>1, <1>2 DEF WriteConfig, LocalServable, Servable
  <1>8. DestServable'
    BY <1>1, <1>2 DEF WriteConfig, DestServable, Servable
  <1>9. NotSpoiled'
    BY <1>1, <1>2 DEF WriteConfig, NotSpoiled
  <1>10. Sent'
    BY <1>1, <1>2 DEF WriteConfig, Sent
  <1> QED BY <1>3, <1>4, <1>5, <1>6, <1>7, <1>8, <1>9, <1>10

\* The output of an earlier run goes.
LEMMA RemoveHtdocsStep ==
    ASSUME IInv, TypeOK', Alone', NEW p \in Procs, RemoveHtdocs(p) PROVE IInv'
  <1> USE DEF IInv, env
  <1>1. pc[p] = "clean" /\ pc'[p] \in {"gen"}
    BY DEF RemoveHtdocs, Goto, TypeOK
  <1>2. \A q \in Procs : q # p => pc[q] = "idle" /\ pc'[q] = "idle"
    BY <1>1, OthersIdle
  <1>3. Placed'
    BY <1>1, <1>2 DEF RemoveHtdocs, Placed, Working, SignedLabels
  <1>4. Calendar'
    BY <1>1, <1>2 DEF RemoveHtdocs, Calendar, Settled
  <1>5. Ordered'
    BY <1>1, <1>2 DEF RemoveHtdocs, Ordered, Settled, Working, SignedLabels
  <1>6. Progress'
    BY <1>1, <1>2 DEF RemoveHtdocs, Progress, Servable, Working, SignedLabels
  <1>7. LocalServable'
    BY <1>1, <1>2 DEF RemoveHtdocs, LocalServable, Servable
  <1>8. DestServable'
    BY <1>1, <1>2 DEF RemoveHtdocs, DestServable, Servable
  <1>9. NotSpoiled'
    BY <1>1, <1>2 DEF RemoveHtdocs, NotSpoiled
  <1>10. Sent'
    BY <1>1, <1>2 DEF RemoveHtdocs, Sent
  <1> QED BY <1>3, <1>4, <1>5, <1>6, <1>7, <1>8, <1>9, <1>10

\* Every mar is signed, so the responses give the hashes of signed mars only.
LEMMA RunUpdateResponsesStep ==
    ASSUME IInv, TypeOK', Alone', NEW p \in Procs, RunUpdateResponses(p) PROVE IInv'
  <1> USE DEF IInv, env
  <1>1. pc[p] = "gen" /\ pc'[p] \in {"unpublish"}
    BY DEF RunUpdateResponses, Goto, TypeOK
  <1>2. \A q \in Procs : q # p => pc[q] = "idle" /\ pc'[q] = "idle"
    BY <1>1, OthersIdle
  <1>3. Placed'
    BY <1>1, <1>2 DEF RunUpdateResponses, Placed, Working, SignedLabels
  <1>4. Calendar'
    BY <1>1, <1>2 DEF RunUpdateResponses, Calendar, Settled
  <1>5. Ordered'
    BY <1>1, <1>2 DEF RunUpdateResponses, Ordered, Settled, Working, SignedLabels
  <1>6. Progress'
    <2>1. dir[p] \in Dirs /\ ver[p] \in Days
      BY <1>1 DEF Placed, Working, SignedLabels
    <2>2. config.dir = dir[p] /\ config.ver = ver[p] /\ config \in Responses
      BY <1>1 DEF Progress, TypeOK
    <2>3. \A m \in Mars : file[dir[p]][ver[p]][m] \in {"absent", "signed"}
      BY <1>1 DEF Progress, SignedLabels
    <2>4. htdocs' = [config EXCEPT !.hash =
                       {h \in Mars \X Contents :
                          file[config.dir][config.ver][h[1]] = h[2]}]
      BY <2>1, <2>2 DEF RunUpdateResponses, Generated
    <2>5. /\ htdocs'.dir = dir[p] /\ htdocs'.ver = ver[p]
          /\ \A h \in htdocs'.hash : /\ h \in Mars \X Contents
                                     /\ file[dir[p]][ver[p]][h[1]] = h[2]
      BY <2>2, <2>4 DEF Responses
    <2>6. UNCHANGED <<dir, ver, file, published, config>>
      BY DEF RunUpdateResponses
    <2>7. Servable(htdocs', dir[p], file)
      BY <2>1, <2>3, <2>5 DEF Servable, Contents
    <2>8. pc'[p] = "unpublish"
      BY <1>1
    <2>9. Servable(htdocs, dir[p], file)'
      BY <2>6, <2>7 DEF Servable
    <2> QED BY <1>2, <2>3, <2>5, <2>6, <2>8, <2>9 DEF Progress
  <1>7. LocalServable'
    BY <1>1, <1>2 DEF RunUpdateResponses, LocalServable, Servable
  <1>8. DestServable'
    BY <1>1, <1>2 DEF RunUpdateResponses, DestServable, Servable
  <1>9. NotSpoiled'
    BY <1>1, <1>2 DEF RunUpdateResponses, NotSpoiled
  <1>10. Sent'
    BY <1>1, <1>2 DEF RunUpdateResponses, Sent
  <1> QED BY <1>3, <1>4, <1>5, <1>6, <1>7, <1>8, <1>9, <1>10

\* Nothing published can be followed nowhere.
LEMMA RemovePublishedStep ==
    ASSUME IInv, TypeOK', Alone', NEW p \in Procs, RemovePublished(p) PROVE IInv'
  <1> USE DEF IInv, env
  <1>1. pc[p] = "unpublish" /\ pc'[p] \in {"publish"}
    BY DEF RemovePublished, Goto, TypeOK
  <1>2. \A q \in Procs : q # p => pc[q] = "idle" /\ pc'[q] = "idle"
    BY <1>1, OthersIdle
  <1>3. Placed'
    BY <1>1, <1>2 DEF RemovePublished, Placed, Working, SignedLabels
  <1>4. Calendar'
    BY <1>1, <1>2 DEF RemovePublished, Calendar, Settled, TypeOK, NoResp
  <1>5. Ordered'
    BY <1>1, <1>2 DEF RemovePublished, Ordered, Settled, Working, SignedLabels
  <1>6. Progress'
    BY <1>1, <1>2 DEF RemovePublished, Progress, Servable, Working, SignedLabels
  <1>7. LocalServable'
    BY <1>1, <1>2 DEF RemovePublished, LocalServable, Servable
  <1>8. DestServable'
    BY <1>1, <1>2 DEF RemovePublished, DestServable, Servable
  <1>9. NotSpoiled'
    BY <1>1, <1>2 DEF RemovePublished, NotSpoiled
  <1>10. Sent'
    BY <1>1, <1>2 DEF RemovePublished, Sent
  <1> QED BY <1>3, <1>4, <1>5, <1>6, <1>7, <1>8, <1>9, <1>10

\* Responses that arrived so far can be followed like the whole.
LEMMA BeginPublishStep ==
    ASSUME IInv, TypeOK', Alone', NEW p \in Procs, BeginPublish(p) PROVE IInv'
  <1> USE DEF IInv, env
  <1>1. pc[p] = "publish" /\ pc'[p] \in {"quit", "moving"}
    BY DEF BeginPublish, Goto, TypeOK
  <1>2. \A q \in Procs : q # p => pc[q] = "idle" /\ pc'[q] = "idle"
    BY <1>1, OthersIdle
  <1>a. dir[p] \in Dirs /\ ver[p] \in Days
    BY <1>1 DEF Placed, Working, SignedLabels
  <1>b. UNCHANGED <<today, builds, current, destResp, dir, ver, file, config>>
    BY DEF BeginPublish, env
  <1>c. /\ htdocs.ver = ver[p] /\ Settled(dir[p], ver[p]) /\ destResp[dir[p]].ver <= ver[p]
        /\ Servable(htdocs, dir[p], file) /\ htdocs \in Responses
    BY <1>1 DEF Progress, Ordered, Working, SignedLabels, TypeOK
  <1>d. \/ published' = published
        \/ \E part \in SUBSET htdocs.hash :
             published' = [published EXCEPT ![dir[p]] = [htdocs EXCEPT !.hash = part]]
    BY <1>c DEF BeginPublish, TypeOK, Responses
  <1>e. \A d \in Dirs : \/ published'[d] = published[d]
                        \/ /\ d = dir[p] /\ published'[d].ver = ver[p]
                           /\ Servable(published'[d], d, file)
    <2>1. CASE published' = published
      BY <2>1
    <2>2. ASSUME NEW part \in SUBSET htdocs.hash,
                 published' = [published EXCEPT ![dir[p]] = [htdocs EXCEPT !.hash = part]],
                 htdocs # NoResp
          PROVE  /\ published'[dir[p]].ver = ver[p]
                 /\ Servable(published'[dir[p]], dir[p], file)
                 /\ \A d \in Dirs : d # dir[p] => published'[d] = published[d]
      <3> DEFINE r == [htdocs EXCEPT !.hash = part]
      <3>1. r.dir = htdocs.dir /\ r.ver = htdocs.ver /\ r.hash = part
        BY <1>c DEF Responses
      <3>2. Servable(r, dir[p], file)
        BY <1>c, <2>2, <3>1 DEF Servable
      <3>3. published'[dir[p]] = r /\ \A d \in Dirs : d # dir[p] => published'[d] = published[d]
        BY <1>a, <2>2 DEF TypeOK
      <3> QED BY <1>c, <3>1, <3>2, <3>3
    <2> QED BY <2>1, <2>2 DEF BeginPublish
  <1>3. Placed'
    BY <1>1, <1>2 DEF BeginPublish, Placed, Working, SignedLabels
  <1>4. Calendar'
    BY <1>a, <1>b, <1>c, <1>e DEF Calendar, Settled
  <1>5. Ordered'
    BY <1>1, <1>2, <1>a, <1>b, <1>c, <1>e DEF Ordered, Settled, Working, SignedLabels,
       TypeOK, Days
  <1>6. Progress'
    BY <1>1, <1>2 DEF BeginPublish, Progress, Servable, Working, SignedLabels
  <1>7. LocalServable'
    BY <1>b, <1>e DEF LocalServable, Servable
  <1>8. DestServable'
    BY <1>1, <1>2 DEF BeginPublish, DestServable, Servable
  <1>9. NotSpoiled'
    BY <1>1, <1>2 DEF BeginPublish, NotSpoiled
  <1>10. Sent'
    BY <1>1, <1>2 DEF BeginPublish, Sent
  <1> QED BY <1>3, <1>4, <1>5, <1>6, <1>7, <1>8, <1>9, <1>10

\* The published responses are those of the version the run works on.
LEMMA EndPublishStep ==
    ASSUME IInv, TypeOK', Alone', NEW p \in Procs, EndPublish(p) PROVE IInv'
  <1> USE DEF IInv, env
  <1>1. pc[p] = "moving" /\ pc'[p] \in {"setcur"}
    BY DEF EndPublish, Goto, TypeOK
  <1>2. \A q \in Procs : q # p => pc[q] = "idle" /\ pc'[q] = "idle"
    BY <1>1, OthersIdle
  <1>a. dir[p] \in Dirs /\ ver[p] \in Days
    BY <1>1 DEF Placed, Working, SignedLabels
  <1>b. UNCHANGED <<today, builds, current, destResp, dir, ver, file, config>>
    BY DEF EndPublish, env
  <1>c. /\ htdocs.ver = ver[p] /\ Settled(dir[p], ver[p]) /\ destResp[dir[p]].ver <= ver[p]
        /\ Servable(htdocs, dir[p], file) /\ htdocs \in Responses
    BY <1>1 DEF Progress, Ordered, Working, SignedLabels, TypeOK
  <1>d. \A d \in Dirs : \/ published'[d] = published[d]
                        \/ /\ d = dir[p] /\ published'[d].ver = ver[p]
                           /\ Servable(published'[d], d, file)
    BY <1>a, <1>c DEF EndPublish, TypeOK
  <1>3. Placed'
    BY <1>1, <1>2 DEF EndPublish, Placed, Working, SignedLabels
  <1>4. Calendar'
    BY <1>a, <1>b, <1>c, <1>d DEF Calendar, Settled
  <1>5. Ordered'
    BY <1>1, <1>2, <1>a, <1>b, <1>c, <1>d DEF Ordered, Settled, Working, SignedLabels,
       TypeOK, Days
  <1>6. Progress'
    <2>1. dir[p] \in Dirs /\ ver[p] \in Days
      BY <1>1 DEF Placed, Working, SignedLabels
    <2>2. UNCHANGED <<dir, ver, file>> /\ pc'[p] = "setcur"
      BY <1>1 DEF EndPublish
    <2>3. htdocs.ver = ver[p] /\ \A m \in Mars : file[dir[p]][ver[p]][m] \in {"absent", "signed"}
      BY <1>1 DEF Progress, SignedLabels
    <2>4. published'[dir[p]].ver = ver[p]
      BY <2>1, <2>3 DEF EndPublish, TypeOK
    <2> QED BY <1>2, <2>2, <2>3, <2>4 DEF Progress, SignedLabels
  <1>7. LocalServable'
    BY <1>b, <1>d DEF LocalServable, Servable
  <1>8. DestServable'
    BY <1>1, <1>2 DEF EndPublish, DestServable, Servable
  <1>9. NotSpoiled'
    BY <1>1, <1>2 DEF EndPublish, NotSpoiled
  <1>10. Sent'
    BY <1>1, <1>2 DEF EndPublish, Sent
  <1> QED BY <1>3, <1>4, <1>5, <1>6, <1>7, <1>8, <1>9, <1>10

\* The current version only grows.
LEMMA SetCurrentVersionStep ==
    ASSUME IInv, TypeOK', Alone', NEW p \in Procs, SetCurrentVersion(p) PROVE IInv'
  <1> USE DEF IInv, env
  <1>1. pc[p] = "setcur" /\ pc'[p] \in {"remove"}
    BY DEF SetCurrentVersion, Goto, TypeOK
  <1>2. \A q \in Procs : q # p => pc[q] = "idle" /\ pc'[q] = "idle"
    BY <1>1, OthersIdle
  <1>a. dir[p] \in Dirs /\ ver[p] \in Days
    BY <1>1 DEF Placed, Working, SignedLabels
  <1>b. /\ ver[p] > current[dir[p]] /\ Settled(dir[p], ver[p])
        /\ destResp[dir[p]].ver <= ver[p]
    BY <1>1 DEF Ordered, Working, SignedLabels
  <1>c. current' = [current EXCEPT ![dir[p]] = ver[p]]
    BY DEF SetCurrentVersion
  <1>d. UNCHANGED <<today, builds, published, destResp, dir, ver, file>>
    BY DEF SetCurrentVersion, env
  <1>e. current'[dir[p]] = ver[p] /\ \A d \in Dirs : d # dir[p] => current'[d] = current[d]
    BY <1>a, <1>c DEF TypeOK
  <1>3. Placed'
    BY <1>1, <1>2 DEF SetCurrentVersion, Placed, Working, SignedLabels
  <1>4. Calendar'
    BY <1>b, <1>d, <1>e DEF Calendar, Settled
  <1>5. Ordered'
    <2>6. pc'[p] = "remove"
      BY <1>1
    <2>7. \A d \in Dirs : published'[d] # NoResp => destResp'[d].ver <= published'[d].ver
      BY <1>d DEF Ordered
    <2>8. Settled(dir[p], ver[p])'
      BY <1>b, <1>d DEF Settled
    <2> QED BY <1>2, <1>b, <1>d, <1>e, <2>6, <2>7, <2>8 DEF Ordered, Working,
               SignedLabels
  <1>6. Progress'
    BY <1>1, <1>2 DEF SetCurrentVersion, Progress, Servable, Working, SignedLabels
  <1>7. LocalServable'
    BY <1>1, <1>2 DEF SetCurrentVersion, LocalServable, Servable
  <1>8. DestServable'
    BY <1>1, <1>2 DEF SetCurrentVersion, DestServable, Servable
  <1>9. NotSpoiled'
    <2>6. \A d \in Dirs : current[d] <= current'[d]
      BY <1>a, <1>b, <1>e DEF TypeOK, Days
    <2>7. \A d \in Dirs : destResp[d].ver \in Int /\ current[d] \in Int /\ current'[d] \in Int
      BY ResponseVersion DEF TypeOK, Days
    <2> QED BY <1>d, <2>6, <2>7 DEF NotSpoiled
  <1>10. Sent'
    BY <1>1, <1>2 DEF SetCurrentVersion, Sent
  <1> QED BY <1>3, <1>4, <1>5, <1>6, <1>7, <1>8, <1>9, <1>10

\* What is removed is named by no published response, and by those of the
\* destination only if they are older than the current version.
LEMMA RemoveOldversionsStep ==
    ASSUME IInv, TypeOK', Alone', NEW p \in Procs, RemoveOldversions(p) PROVE IInv'
  <1> USE DEF IInv, env
  <1>1. pc[p] = "remove" /\ pc'[p] \in {"loop"}
    BY DEF RemoveOldversions, Goto, TypeOK
  <1>2. \A q \in Procs : q # p => pc[q] = "idle" /\ pc'[q] = "idle"
    BY <1>1, OthersIdle
  <1>a. dir[p] \in Dirs /\ ver[p] \in Days
    BY <1>1 DEF Placed, Working, SignedLabels
  <1>b. UNCHANGED <<published, destResp, current, dir, ver>>
    BY DEF RemoveOldversions
  <1>c. /\ \A d \in Dirs : d # dir[p] => file'[d] = file[d]
        /\ file'[dir[p]][ver[p]] = file[dir[p]][ver[p]]
        /\ \A v \in Days, x \in Names : v # ver[p] => file'[dir[p]][v][x] = "absent"
    BY <1>a DEF RemoveOldversions, TypeOK, FileType, EmptyVersion
  <1>3. Placed'
    BY <1>1, <1>2 DEF RemoveOldversions, Placed, Working, SignedLabels
  <1>4. Calendar'
    BY <1>1, <1>2 DEF RemoveOldversions, Calendar, Settled
  <1>5. Ordered'
    BY <1>1, <1>2 DEF RemoveOldversions, Ordered, Settled, Working, SignedLabels
  <1>6. Progress'
    BY <1>1, <1>2 DEF RemoveOldversions, Progress, Servable, Working, SignedLabels
  <1>7. LocalServable'
    <2>4. published[dir[p]].ver = ver[p]
      BY <1>1 DEF Progress
    <2> QED BY <1>b, <1>c, <2>4 DEF LocalServable, Servable
  <1>8. DestServable'
    BY <1>1, <1>2 DEF RemoveOldversions, DestServable, Servable
  <1>9. NotSpoiled'
    <2>4. ver[p] = current[dir[p]] /\ destResp[dir[p]].ver <= ver[p]
      BY <1>1 DEF Ordered, Working, SignedLabels
    <2> SUFFICES ASSUME NEW d \in Dirs, NEW h \in destResp[d].hash
                 PROVE  \/ file'[d][destResp[d].ver][h[1]] = "signed"
                        \/ /\ file'[d][destResp[d].ver][h[1]] = "absent"
                           /\ destResp[d].ver < current[d]
      BY <1>b DEF NotSpoiled
    <2>5. destResp[d].ver \in Days /\ h[1] \in Names
      BY DestNames
    <2>6. CASE d = dir[p] /\ destResp[d].ver # ver[p]
      BY <1>a, <1>c, <2>4, <2>5, <2>6 DEF Days
    <2>7. CASE d # dir[p] \/ destResp[d].ver = ver[p]
      BY <1>c, <2>7 DEF NotSpoiled
    <2> QED BY <2>6, <2>7
  <1>10. Sent'
    BY <1>1, <1>2 DEF RemoveOldversions, Sent
  <1> QED BY <1>3, <1>4, <1>5, <1>6, <1>7, <1>8, <1>9, <1>10

\* What rsync sends does not spoil what the destination's responses name.
LEMMA SyncMarsStep ==
    ASSUME IInv, TypeOK', Alone', NEW p \in Procs, SyncMars(p) PROVE IInv'
  <1> USE DEF IInv, env
  <1>1. pc[p] = "syncmars" /\ pc'[p] \in {"syncmars", "syncupdates"}
    BY DEF SyncMars, Goto, TypeOK
  <1>2. \A q \in Procs : q # p => pc[q] = "idle" /\ pc'[q] = "idle"
    BY <1>1, OthersIdle
  <1>3. Placed'
    BY <1>1, <1>2 DEF SyncMars, Placed, Working, SignedLabels
  <1>4. Calendar'
    BY <1>1, <1>2 DEF SyncMars, Calendar, Settled
  <1>5. Ordered'
    BY <1>1, <1>2 DEF SyncMars, Ordered, Settled, Working, SignedLabels
  <1>6. Progress'
    BY <1>1, <1>2 DEF SyncMars, Progress, Servable, Working, SignedLabels
  <1>7. LocalServable'
    BY <1>1, <1>2 DEF SyncMars, LocalServable, Servable
  <1>8. DestServable'
    <2>1. UNCHANGED <<file, published, destResp>>
      BY DEF SyncMars
    <2>2. CASE dest' = dest /\ todo[p] = {} /\ todo'[p] = Dirs /\ pc'[p] = "syncupdates"
      BY <2>1, <2>2 DEF DestServable, Servable
    <2>3. ASSUME NEW e \in todo[p], pc'[p] = "syncmars", todo'[p] = todo[p] \ {e},
                 dest' = [dest EXCEPT ![e] = [v \in Days |-> [x \in Names |->
                   IF file[e][v][x] # "absent" THEN file[e][v][x] ELSE @[v][x]]]]
          PROVE  DestServable'
      <3>1. e \in Dirs
        BY <2>3 DEF TypeOK
      <3>2. /\ \A d \in Dirs : d # e => dest'[d] = dest[d]
            /\ \A v \in Days, x \in Names : dest'[e][v][x] =
                 IF file[e][v][x] # "absent" THEN file[e][v][x] ELSE dest[e][v][x]
        BY <2>3, <3>1 DEF TypeOK, FileType
      <3>3. \A d \in Dirs : destResp[d] # NoResp =>
              destResp[d].ver \in Days /\ \A h \in destResp[d].hash : h[1] \in Names
        BY ResponseType DEF DestServable, Servable, TypeOK, Names
      <3>4. \A h \in destResp[e].hash :
              file[e][destResp[e].ver][h[1]] \in {"signed", "absent"}
        BY <3>1 DEF NotSpoiled
      <3> QED BY <2>1, <3>1, <3>2, <3>3, <3>4 DEF DestServable, Servable
    <2> QED BY <1>1, <2>2, <2>3 DEF SyncMars, TypeOK, Goto
  <1>9. NotSpoiled'
    BY <1>1, <1>2 DEF SyncMars, NotSpoiled
  <1>10. Sent'
    <2>1. UNCHANGED <<file, published, destResp>>
      BY DEF SyncMars
    <2>2. CASE dest' = dest /\ todo[p] = {} /\ todo'[p] = Dirs /\ pc'[p] = "syncupdates"
      BY <1>1, <1>2, <2>1, <2>2 DEF Sent
    <2>3. ASSUME NEW e \in todo[p], pc'[p] = "syncmars", todo'[p] = todo[p] \ {e},
                 dest' = [dest EXCEPT ![e] = [v \in Days |-> [x \in Names |->
                   IF file[e][v][x] # "absent" THEN file[e][v][x] ELSE @[v][x]]]]
          PROVE  Sent'
      <3>1. e \in Dirs
        BY <2>3 DEF TypeOK
      <3>2. /\ \A d \in Dirs : d # e => dest'[d] = dest[d]
            /\ \A v \in Days, x \in Names : dest'[e][v][x] =
                 IF file[e][v][x] # "absent" THEN file[e][v][x] ELSE dest[e][v][x]
        BY <2>3, <3>1 DEF TypeOK, FileType
      <3> QED BY <1>1, <1>2, <2>1, <2>3, <3>1, <3>2 DEF Sent
    <2> QED BY <1>1, <2>2, <2>3 DEF SyncMars, TypeOK, Goto
  <1> QED BY <1>3, <1>4, <1>5, <1>6, <1>7, <1>8, <1>9, <1>10

\* The mars new responses name were sent before.
LEMMA SyncUpdatesStep ==
    ASSUME IInv, TypeOK', Alone', NEW p \in Procs, SyncUpdates(p) PROVE IInv'
  <1> USE DEF IInv, env
  <1>1. pc[p] = "syncupdates" /\ pc'[p] \in {"syncupdates", "syncdelete"}
    BY DEF SyncUpdates, Goto, TypeOK
  <1>2. \A q \in Procs : q # p => pc[q] = "idle" /\ pc'[q] = "idle"
    BY <1>1, OthersIdle
  <1>a. UNCHANGED <<today, builds, file, published, dest, current, dir, ver>>
    BY DEF SyncUpdates, env
  <1>b. \A d \in Dirs : \/ destResp'[d] = destResp[d]
                        \/ destResp'[d] = published[d] /\ published[d] # NoResp
    BY DEF SyncUpdates, TypeOK
  <1>3. Placed'
    BY <1>1, <1>2 DEF SyncUpdates, Placed, Working, SignedLabels
  <1>4. Calendar'
    BY <1>a, <1>b DEF Calendar, Settled
  <1>5. Ordered'
    <2>3. \A d \in Dirs : published[d].ver \in Int
      BY ResponseVersion DEF TypeOK, Days
    <2> QED BY <1>1, <1>2, <1>a, <1>b, <2>3 DEF Ordered, Working, SignedLabels
  <1>6. Progress'
    BY <1>1, <1>2 DEF SyncUpdates, Progress, Servable, Working, SignedLabels
  <1>7. LocalServable'
    BY <1>1, <1>2 DEF SyncUpdates, LocalServable, Servable
  <1>8. DestServable'
    <2>3. \A d \in Dirs : \A v \in Days, x \in Names :
            file[d][v][x] # "absent" => dest[d][v][x] = file[d][v][x]
      BY <1>1 DEF Sent
    <2>4. \A d \in Dirs : published[d] # NoResp => Servable(published[d], d, dest)
      <3> SUFFICES ASSUME NEW d \in Dirs, published[d] # NoResp
                   PROVE  Servable(published[d], d, dest)
        OBVIOUS
      <3>1. published[d].dir = d /\ published[d].ver \in Days
        BY DEF LocalServable, Servable
      <3>2. \A h \in published[d].hash : h[1] \in Names
        BY ResponseType DEF TypeOK, Names
      <3> QED BY <2>3, <3>1, <3>2 DEF LocalServable, Servable
    <2> QED BY <1>a, <1>b, <2>4 DEF DestServable, Servable
  <1>9. NotSpoiled'
    BY <1>a, <1>b DEF NotSpoiled, LocalServable, Servable
  <1>10. Sent'
    <2>3. \/ pc'[p] = "syncdelete" /\ todo[p] = {} /\ destResp' = destResp
          \/ \E e \in todo[p] :
               /\ pc'[p] = "syncupdates" /\ todo'[p] = todo[p] \ {e}
               /\ destResp' = [destResp EXCEPT ![e] =
                    IF published[e] # NoResp THEN published[e] ELSE @]
      BY <1>1 DEF SyncUpdates, Goto, TypeOK
    <2>4. \A d \in Dirs : \A v \in Days, x \in Names :
            file[d][v][x] # "absent" => dest[d][v][x] = file[d][v][x]
      BY <1>1 DEF Sent
    <2>5. \A d \in Dirs : d \notin todo[p] /\ published[d] # NoResp => destResp[d] = published[d]
      BY <1>1 DEF Sent
    <2>6. \A d \in Dirs : pc'[p] = "syncdelete" \/ d \notin todo'[p]
                          => (published[d] # NoResp => destResp'[d] = published[d])
      <3>1. CASE pc'[p] = "syncdelete" /\ todo[p] = {} /\ destResp' = destResp
        BY <2>5, <3>1
      <3>2. ASSUME NEW e \in todo[p], pc'[p] = "syncupdates", todo'[p] = todo[p] \ {e},
                   destResp' = [destResp EXCEPT ![e] =
                     IF published[e] # NoResp THEN published[e] ELSE @]
            PROVE  \A d \in Dirs : d \notin todo'[p] /\ published[d] # NoResp
                                   => destResp'[d] = published[d]
        BY <2>5, <3>2 DEF TypeOK
      <3> QED BY <2>3, <3>1, <3>2
    <2> QED BY <1>1, <1>2, <1>a, <2>4, <2>6 DEF Sent
  <1> QED BY <1>3, <1>4, <1>5, <1>6, <1>7, <1>8, <1>9, <1>10

\* What rsync deletes was replaced, with the responses that named it.
LEMMA SyncDeleteStep ==
    ASSUME IInv, TypeOK', Alone', NEW p \in Procs, SyncDelete(p) PROVE IInv'
  <1> USE DEF IInv, env
  <1>1. pc[p] = "syncdelete" /\ pc'[p] \in {"quit"}
    BY DEF SyncDelete, Goto, TypeOK
  <1>2. \A q \in Procs : q # p => pc[q] = "idle" /\ pc'[q] = "idle"
    BY <1>1, OthersIdle
  <1>a. UNCHANGED <<file, published, current>>
    BY DEF SyncDelete
  <1>b. \A d \in Dirs : /\ published[d] # NoResp => destResp[d] = published[d]
                        /\ \A v \in Days, x \in Names :
                             file[d][v][x] # "absent" => dest[d][v][x] = file[d][v][x]
    BY <1>1 DEF Sent
  <1>c. \A d \in Dirs : destResp'[d] = published[d]
    BY <1>b DEF SyncDelete
  <1>3. Placed'
    BY <1>1, <1>2 DEF SyncDelete, Placed, Working, SignedLabels
  <1>4. Calendar'
    BY <1>1, <1>2 DEF SyncDelete, Calendar, Settled
  <1>5. Ordered'
    BY <1>1, <1>2 DEF SyncDelete, Ordered, Settled, Working, SignedLabels
  <1>6. Progress'
    BY <1>1, <1>2 DEF SyncDelete, Progress, Servable, Working, SignedLabels
  <1>7. LocalServable'
    BY <1>1, <1>2 DEF SyncDelete, LocalServable, Servable
  <1>8. DestServable'
    <2> SUFFICES ASSUME NEW d \in Dirs, published[d] # NoResp
                 PROVE  Servable(published[d], d, dest')
      BY <1>c DEF DestServable, Servable
    <2>4. published[d].dir = d /\ published[d].ver \in Days
      BY DEF LocalServable, Servable
    <2>5. \A h \in published[d].hash : h[1] \in Names
      BY ResponseType DEF TypeOK, Names
    <2>6. \A v \in Days, x \in Names : file[d][v][x] = "signed" => dest'[d][v][x] = "signed"
      BY <1>b DEF SyncDelete
    <2> QED BY <2>4, <2>5, <2>6 DEF LocalServable, Servable
  <1>9. NotSpoiled'
    <2>4. \A d \in Dirs : \A h \in published[d].hash :
            file[d][published[d].ver][h[1]] = "signed"
      BY DEF LocalServable, Servable, NoResp
    <2> QED BY <1>a, <1>c, <2>4 DEF NotSpoiled
  <1>10. Sent'
    BY <1>1, <1>2 DEF SyncDelete, Sent
  <1> QED BY <1>3, <1>4, <1>5, <1>6, <1>7, <1>8, <1>9, <1>10

\* The version taken up is newer than any that was taken up before.
LEMMA NextPublishDirStep ==
    ASSUME IInv, TypeOK', Alone', NEW p \in Procs, NextPublishDir(p) PROVE IInv'
  <1> USE DEF IInv, env
  <1>1. pc[p] = "loop" /\ pc'[p] \in {"loop", "fetch", "syncmars", "quit"}
    BY DEF NextPublishDir, Goto, TypeOK
  <1>2. \A q \in Procs : q # p => pc[q] = "idle" /\ pc'[q] = "idle"
    BY <1>1, OthersIdle
  <1>a. UNCHANGED <<today, builds, current, dirs, file, config, htdocs, published, dest, destResp>>
    BY DEF NextPublishDir, shared, env
  <1>b. pc'[p] = "fetch" => /\ dir'[p] \in Dirs
                            /\ ver'[p] \in GetLastBuildVersion(dir'[p])
                            /\ ver'[p] # current[dir'[p]]
    <2> SUFFICES ASSUME pc'[p] = "fetch"
                 PROVE  /\ dir'[p] \in Dirs
                        /\ ver'[p] \in GetLastBuildVersion(dir'[p])
                        /\ ver'[p] # current[dir'[p]]
      OBVIOUS
    <2>1. PICK d \in todo[p] : \E v \in GetNewVersion(d) :
            dir' = [dir EXCEPT ![p] = d] /\ ver' = [ver EXCEPT ![p] = v]
      BY <1>1 DEF NextPublishDir, Goto, TypeOK
    <2> QED BY <2>1 DEF GetNewVersion, TypeOK
  <1>3. Placed'
    <2>3. \A d \in Dirs : GetLastBuildVersion(d) \subseteq Days
      BY DEF GetLastBuildVersion, Window
    <2> QED BY <1>1, <1>2, <1>b, <2>3 DEF Placed, Working, SignedLabels
  <1>4. Calendar'
    BY <1>a DEF Calendar, Settled
  <1>5. Ordered'
    <2>3. pc'[p] = "fetch" => /\ Settled(dir'[p], ver'[p])
                              /\ destResp[dir'[p]].ver <= ver'[p]
                              /\ ver'[p] > current[dir'[p]]
      <3> SUFFICES ASSUME pc'[p] = "fetch"
                   PROVE  /\ Settled(dir'[p], ver'[p])
                          /\ destResp[dir'[p]].ver <= ver'[p]
                          /\ ver'[p] > current[dir'[p]]
        OBVIOUS
      <3>1. /\ destResp[dir'[p]].ver <= ver'[p] /\ current[dir'[p]] <= ver'[p]
            /\ ver'[p] \in builds[dir'[p]] /\ ver'[p] \in Days
        BY <1>b, NewestIsNewer, ResponseVersion DEF Calendar, TypeOK
      <3>2. current[dir'[p]] \in Int /\ ver'[p] \in Int
        BY <1>b, <3>1, DaysAssumption DEF TypeOK, Days
      <3> QED BY <1>b, <3>1, <3>2 DEF Settled
    <2>4. \A d, v : Settled(d, v)' <=> Settled(d, v)
      BY <1>a DEF Settled
    <2> QED BY <1>1, <1>2, <1>a, <2>3, <2>4 DEF Ordered, Settled, Working, SignedLabels
  <1>6. Progress'
    BY <1>1, <1>2 DEF Progress, SignedLabels
  <1>7. LocalServable'
    BY <1>a DEF LocalServable, Servable
  <1>8. DestServable'
    BY <1>a DEF DestServable, Servable
  <1>9. NotSpoiled'
    BY <1>a DEF NotSpoiled
  <1>10. Sent'
    <2>2. pc'[p] = "syncmars" => todo'[p] = Dirs
      BY <1>1 DEF NextPublishDir, Goto, TypeOK
    <2> QED BY <1>1, <1>2, <1>a, <2>2 DEF Sent
  <1> QED BY <1>3, <1>4, <1>5, <1>6, <1>7, <1>8, <1>9, <1>10

\* The steps to neutral labels.
LEMMA OtherSteps ==
    ASSUME IInv, TypeOK', Alone', NEW p \in Procs,
           \/ Start(p) \/ RunAloneCheck(p) \/ RunAloneWrite(p) \/ Quit(p)
           \/ Fail(p) \/ Kill(p)
    PROVE  IInv'
  <1> USE DEF shared, env
  <1>0. TypeOK
    BY DEF IInv
  <1>1. CASE Quit(p) \/ Kill(p)
    BY <1>0, <1>1, NeutralStep DEF Quit, Kill, TypeOK, Neutral
  <1>2. CASE RunAloneWrite(p)
    BY <1>0, <1>2, NeutralStep DEF RunAloneWrite, TypeOK, Neutral
  <1>3. CASE Fail(p)
    BY <1>3, NeutralStep DEF Fail, Neutral
  <1>4. CASE Start(p) \/ RunAloneCheck(p)
    <2>1. CASE pc' = [pc EXCEPT ![p] = "check"]
      BY <1>4, <2>1, NeutralStep DEF Start, RunAloneCheck, Neutral, Goto
    <2>2. CASE Goto(p, "quit")
      BY <1>4, <2>2, NeutralStep DEF Start, RunAloneCheck, Neutral
    <2>3. CASE Goto(p, "write")
      BY <1>4, <2>3, NeutralStep DEF Start, RunAloneCheck, Neutral
    <2> QED BY <1>4, <2>1, <2>2, <2>3 DEF Start, RunAloneCheck, Goto
  <1> QED BY <1>1, <1>2, <1>3, <1>4

\* Time passes, builds come and go: a version taken up stays settled.
LEMMA EnvironmentStep == ASSUME IInv, TypeOK', Alone', Environment PROVE IInv'
  <1> USE DEF IInv
  <1>1. UNCHANGED <<shared, local>>
    BY DEF Environment, NextDay, BuildFinishes, BuildIsPruned
  <1>2. \A d \in Dirs, v \in Days \cup {0} : Settled(d, v) => Settled(d, v)'
    <2> USE DaysAssumption DEF TypeOK, Days, Settled
    <2>1. CASE NextDay
      BY <2>1 DEF NextDay
    <2>2. CASE BuildFinishes
      BY <2>2 DEF BuildFinishes
    <2>3. CASE BuildIsPruned
      BY <2>3 DEF BuildIsPruned
    <2> QED BY <2>1, <2>2, <2>3 DEF Environment
  <1>3. \A d \in Dirs : \A v \in builds'[d] : v <= today'
    <2> USE DaysAssumption DEF TypeOK, Days, Calendar
    <2>1. CASE NextDay
      BY <2>1 DEF NextDay
    <2>2. CASE BuildFinishes
      BY <2>2 DEF BuildFinishes
    <2>3. CASE BuildIsPruned
      BY <2>3 DEF BuildIsPruned
    <2> QED BY <2>1, <2>2, <2>3 DEF Environment
  <1>4. Calendar'
    <2>1. \A d \in Dirs : /\ current[d] \in Days \cup {0}
                          /\ published[d].ver \in Days \cup {0}
                          /\ destResp[d].ver \in Days \cup {0}
      BY ResponseVersion DEF TypeOK
    <2>2. UNCHANGED <<current, published, destResp>>
      BY <1>1 DEF shared
    <2> QED BY <1>2, <1>3, <2>1, <2>2 DEF Calendar
  <1>5. Ordered'
    BY <1>1, <1>2 DEF Ordered, Placed, shared, local
  <1>6. Placed' /\ Progress' /\ LocalServable' /\ DestServable' /\ NotSpoiled' /\ Sent'
    BY <1>1 DEF Placed, Progress, LocalServable, DestServable, NotSpoiled, Sent,
                Servable, shared, local
  <1> QED BY <1>4, <1>5, <1>6

LEMMA InitIInv == Init => IInv
  <1> SUFFICES ASSUME Init PROVE IInv
    OBVIOUS
  <1>1. TypeOK
    BY InitType
  <1>2. \A p \in Procs : pc[p] = "idle"
    BY DEF Init
  <1>3. Alone /\ Placed /\ Progress /\ Sent
    BY <1>2 DEF Alone, Placed, Progress, Sent, Working, SignedLabels
  <1>4. Calendar
    BY DEF Init, Calendar, Settled, NoResp
  <1>5. Ordered
    BY <1>2 DEF Init, Ordered, Working, SignedLabels
  <1>6. LocalServable /\ DestServable /\ NotSpoiled
    BY DEF Init, LocalServable, DestServable, NotSpoiled, Servable, NoResp
  <1> QED BY <1>1, <1>3, <1>4, <1>5, <1>6 DEF IInv

LEMMA NextIInv == ASSUME MayOverlap = FALSE, IInv, [Next]_vars PROVE IInv'
  <1>1. TypeOK'
    BY NextType DEF IInv
  <1>2. Alone'
    BY AloneStep DEF IInv
  <1>3. CASE UNCHANGED vars
    BY <1>3 DEF vars, IInv, TypeOK, Alone, Placed, Calendar, Settled, Ordered, Progress,
                LocalServable, DestServable, Servable, NotSpoiled, Sent
  <1>4. CASE Environment
    BY <1>1, <1>2, <1>4, EnvironmentStep
  <1>5. ASSUME NEW p \in Procs, Start(p) \/ Step(p) \/ Fail(p) \/ Kill(p) PROVE IInv'
    BY <1>1, <1>2, <1>5, OtherSteps, FetchVersionStep, MoveToDestdirStep,
       SignVersionStep, WriteConfigStep,
       RemoveHtdocsStep, RunUpdateResponsesStep, RemovePublishedStep,
       BeginPublishStep, EndPublishStep, SetCurrentVersionStep,
       RemoveOldversionsStep, SyncMarsStep, SyncUpdatesStep, SyncDeleteStep,
       NextPublishDirStep
       DEF Step
  <1> QED BY <1>3, <1>4, <1>5 DEF Next

-----------------------------------------------------------------------------
(* Theorems.                                                               *)

\* Every variable keeps its type, overlapping runs or not.
THEOREM TypeCorrect == Spec => []TypeOK
  BY InitType, NextType, PTL DEF Spec

\* The invariant the safety properties follow from.
THEOREM Invariance == ASSUME MayOverlap = FALSE PROVE Spec => []IInv
  BY InitIInv, NextIInv, PTL DEF Spec

\* As long as runs do not overlap, whatever fails or is killed wherever, and
\* whoever runs rsync when, the published responses can be followed,
\* at the destination and in the tree that is mirrored.
THEOREM ServesAlways == ASSUME MayOverlap = FALSE PROVE Spec => []AlwaysServable
  <1>1. IInv => AlwaysServable
    BY DEF IInv, AlwaysServable
  <1> QED BY <1>1, Invariance, PTL

\* Published responses never go back to an older version, because the server
\* keeps a build at least as long as it is probed for (DaysAssumption).
THEOREM NeverGoesBack == ASSUME MayOverlap = FALSE PROVE Spec => NeverDowngrades
  <1> DEFINE Forward == \A d \in Dirs : destResp'[d] # NoResp
                                        => destResp'[d].ver >= destResp[d].ver
  <1>1. ASSUME IInv, [Next]_vars PROVE [Forward]_destResp
    <2>1. TypeOK /\ (\A d \in Dirs : published[d] # NoResp => destResp[d].ver <= published[d].ver)
      BY <1>1 DEF IInv, Ordered
    <2>2. \A d \in Dirs : destResp[d].ver \in Int /\ published[d].ver \in Int
      BY <2>1, ResponseVersion DEF TypeOK, Days
    <2>3. CASE \E p \in Procs : SyncUpdates(p)
      BY <2>1, <2>2, <2>3 DEF SyncUpdates, TypeOK
    <2>4. CASE \E p \in Procs : SyncDelete(p)
      BY <2>1, <2>2, <2>4 DEF SyncDelete, TypeOK
    <2>5. ASSUME NEW p \in Procs, Step(p), ~SyncUpdates(p), ~SyncDelete(p)
          PROVE  destResp' = destResp
      BY <2>5 DEF Step, shared, RunAloneCheck, RunAloneWrite, Quit, NextPublishDir,
         FetchVersion,
        MoveToDestdir, SignVersion, WriteConfig, RemoveHtdocs, RunUpdateResponses,
        RemovePublished, BeginPublish, EndPublish, SetCurrentVersion,
        RemoveOldversions, SyncMars
    <2>6. CASE Environment \/ \E p \in Procs : Start(p) \/ Fail(p) \/ Kill(p)
      BY <2>6 DEF Environment, NextDay, BuildFinishes, BuildIsPruned, Start, Fail,
         Kill, shared
    <2> QED BY <1>1, <2>3, <2>4, <2>5, <2>6 DEF Next, vars
  <1> QED BY <1>1, Invariance, PTL DEF Spec, NeverDowngrades

-----------------------------------------------------------------------------
(* What is kept: a directory that no run works on has its current version   *)
(* and nothing else, as long as nothing has failed.                         *)

AtWork == Working \ {"fetch"}
Syncing == {"syncmars", "syncupdates", "syncdelete"}
Untouched(d) == \A p \in Procs : pc[p] \in AtWork => dir[p] # d

\* No file of a version other than v is in f.
OnlyHas(f, v) == \A w \in Days \ {v}, x \in Names : f[w][x] = "absent"

LocalTidy ==
    \A d \in Dirs : Untouched(d) =>
        /\ dirs[d] = {current[d]} \ {0}
        /\ published[d].ver = current[d]
        /\ OnlyHas(file[d], current[d])

DestTidy ==
    (\A p \in Procs : pc[p] \notin Syncing) =>
        \A d \in Dirs : destResp[d] # NoResp => OnlyHas(dest[d], destResp[d].ver)

\* Nothing of the version is missing or cut short.
Whole(f) == f["infos"] # "absent" /\ \A x \in Names : f[x] # "partial"

\* A run that works on a version has all of it.
HasVersion ==
    \A p \in Procs :
        /\ pc[p] \in AtWork => ver[p] \in dirs[dir[p]]
        /\ pc[p] \in {"sign", "conf"} => Whole(file[dir[p]][ver[p]])

Tidy == LocalTidy /\ DestTidy /\ HasVersion

LEMMA InitTidy == Init => Tidy
  BY DEF Init, Tidy, LocalTidy, DestTidy, HasVersion, OnlyHas, AtWork, Working, SignedLabels,
         Syncing, NoResp, EmptyVersion

\* A step of a run that is at work on a version of a directory before and after it.
LEMMA WorkStep ==
    ASSUME IInv, Alone', Tidy, NEW p \in Procs, pc[p] \in AtWork, pc'[p] \in AtWork,
           UNCHANGED <<dir, ver, dirs, dest, destResp, current>>,
           \A d \in Dirs : d # dir[p] => file'[d] = file[d] /\ published'[d] = published[d],
           pc'[p] \in {"sign", "conf"} => Whole(file'[dir[p]][ver[p]])
    PROVE  Tidy'
  <1>1. \A q \in Procs : q # p => pc[q] = "idle" /\ pc'[q] = "idle"
    BY OthersIdle DEF AtWork, Working, SignedLabels
  <1>2. LocalTidy'
    BY <1>1 DEF Tidy, LocalTidy, Untouched, AtWork, Working, SignedLabels
  <1>3. DestTidy'
    BY <1>1 DEF Tidy, DestTidy, AtWork, Working, SignedLabels, Syncing
  <1>4. HasVersion'
    BY <1>1 DEF Tidy, HasVersion, AtWork, Working, SignedLabels
  <1> QED BY <1>2, <1>3, <1>4 DEF Tidy

\* A step between labels at which a run is at work on nothing.
LEMMA IdleStep ==
    ASSUME IInv, Tidy, NEW p \in Procs, pc[p] \notin AtWork \cup Syncing, pc'[p] \notin AtWork,
           \A q \in Procs : q # p => pc'[q] = pc[q] /\ dir'[q] = dir[q] /\ ver'[q] = ver[q],
           UNCHANGED <<current, dirs, file, published, dest, destResp>>
    PROVE  Tidy'
  <1>1. LocalTidy'
    BY DEF Tidy, LocalTidy, Untouched
  <1>2. DestTidy'
    BY DEF Tidy, DestTidy
  <1>3. HasVersion'
    BY DEF Tidy, HasVersion, AtWork, Working, SignedLabels
  <1> QED BY <1>1, <1>2, <1>3 DEF Tidy

LEMMA TidyOthers ==
    ASSUME IInv, Tidy, NEW p \in Procs,
           Start(p) \/ RunAloneCheck(p) \/ RunAloneWrite(p) \/ Quit(p) \/ NextPublishDir(p)
    PROVE  Tidy'
  <1>1. pc[p] \in Neutral /\ pc'[p] \in Neutral \cup {"fetch", "syncmars"}
    BY DEF Start, RunAloneCheck, RunAloneWrite, Quit, NextPublishDir, Goto, IInv, TypeOK, Neutral
  <1>2. /\ \A q \in Procs : q # p => pc'[q] = pc[q] /\ dir'[q] = dir[q] /\ ver'[q] = ver[q]
        /\ UNCHANGED <<current, dirs, file, published, dest, destResp>>
    BY DEF Start, RunAloneCheck, RunAloneWrite, Quit, NextPublishDir, Goto, shared, IInv, TypeOK
  <1> QED BY <1>1, <1>2, IdleStep DEF AtWork, Working, SignedLabels, Syncing, Neutral

\* The directory of a version that is taken up is not there yet.
LEMMA TidyFetch ==
    ASSUME IInv, Alone', Tidy, NEW p \in Procs, FetchVersion(p)
    PROVE  Tidy'
  <1>1. pc[p] = "fetch" /\ pc'[p] \in {"sign", "copy", "quit"}
    BY DEF FetchVersion, Goto, IInv, TypeOK
  <1>2. \A q \in Procs : q # p => pc[q] = "idle" /\ pc'[q] = "idle"
    BY <1>1, OthersIdle
  <1>3. dir[p] \in Dirs /\ ver[p] \in Days /\ ver[p] > current[dir[p]]
    BY <1>1 DEF IInv, Placed, Ordered, Working
  <1>4. Untouched(dir[p])
    BY <1>1, <1>2 DEF Untouched, AtWork, Working, SignedLabels
  <1>5. ver[p] \notin dirs[dir[p]]
    BY <1>3, <1>4, DaysAssumption DEF Tidy, LocalTidy, IInv, TypeOK, Days
  <1>6. UNCHANGED <<current, file, published, dest, destResp, dir, ver>>
    BY DEF FetchVersion
  <1>7. CASE pc'[p] = "quit"
    <2>1. UNCHANGED dirs
      BY <1>1, <1>5, <1>7 DEF FetchVersion, Goto, IInv, TypeOK
    <2> QED
      BY <1>1, <1>2, <1>6, <1>7, <2>1, IdleStep DEF AtWork, Working, SignedLabels, Syncing
  <1>8. CASE pc'[p] # "quit"
    <2>1. pc'[p] = "copy" /\ dirs' = [dirs EXCEPT ![dir[p]] = @ \cup {ver[p]}]
      BY <1>1, <1>5, <1>8 DEF FetchVersion, Goto, IInv, TypeOK
    <2>2. LocalTidy'
      BY <1>1, <1>2, <1>6, <2>1 DEF Tidy, LocalTidy, Untouched, AtWork, Working, SignedLabels,
                                   IInv, TypeOK
    <2>3. DestTidy'
      BY <1>1, <1>2, <1>6 DEF Tidy, DestTidy, Syncing
    <2>4. HasVersion'
      BY <1>2, <1>3, <1>6, <2>1 DEF HasVersion, AtWork, Working, SignedLabels, IInv, TypeOK
    <2> QED BY <2>2, <2>3, <2>4 DEF Tidy
  <1> QED BY <1>7, <1>8

LEMMA TidyFiles ==
    ASSUME IInv, Alone', Tidy, NEW p \in Procs, MoveToDestdir(p) \/ SignVersion(p)
    PROVE  Tidy'
  <1>0. pc[p] = "sign" => \A m \in Mars : file[dir[p]][ver[p]][m] # "partial"
    BY DEF Tidy, HasVersion, Whole, Names
  <1>1. /\ pc[p] \in {"copy", "sign"} /\ pc'[p] \in {"copy", "sign", "conf"}
        /\ UNCHANGED <<dir, ver, dirs, dest, destResp, current, published>>
        /\ pc[p] = "sign" => pc'[p] # "copy"
    <2>1. CASE MoveToDestdir(p)
      BY <2>1 DEF MoveToDestdir, Goto, IInv, TypeOK
    <2>2. CASE SignVersion(p)
      BY <1>0, <2>2 DEF SignVersion, Goto, IInv, TypeOK
    <2> QED BY <2>1, <2>2
  <1>2. dir[p] \in Dirs /\ ver[p] \in Days
    BY <1>1 DEF IInv, Placed, Working
  <1>3. \A d \in Dirs : d # dir[p] => file'[d] = file[d]
    <2>1. CASE file' = file
      BY <2>1
    <2>2. ASSUME NEW x, NEW s, file' = [file EXCEPT ![dir[p]][ver[p]][x] = s]
          PROVE  \A d \in Dirs : d # dir[p] => file'[d] = file[d]
      <3>1. file \in [Dirs -> [Days -> [Names -> States]]]
        BY DEF IInv, TypeOK, FileType
      <3> QED BY <1>2, <2>2, <3>1
    <2>3. file' = file \/ \E x, s : file' = [file EXCEPT ![dir[p]][ver[p]][x] = s]
      BY DEF MoveToDestdir, SignVersion, Write
    <2> QED BY <2>1, <2>2, <2>3
  <1>4. pc'[p] \in {"sign", "conf"} => Whole(file'[dir[p]][ver[p]])
    <2>1. CASE MoveToDestdir(p)
      <3>1. pc'[p] \in {"sign", "conf"} =>
              /\ file' = file
              /\ \A x \in Names : file[dir[p]][ver[p]][x] \notin {"partial", "absent"}
        BY <1>1, <2>1 DEF MoveToDestdir, Goto, IInv, TypeOK
      <3> QED BY <3>1 DEF Whole, Names
    <2>2. CASE SignVersion(p)
      <3>1. Whole(file[dir[p]][ver[p]])
        BY <2>2 DEF SignVersion, Tidy, HasVersion
      <3>2. \A m \in Mars : m # "infos" /\ m \in Names
        BY NamesAssumption DEF Names
      <3>3. CASE file' = file
        BY <3>1, <3>3
      <3>4. ASSUME NEW m \in Mars, Write(dir[p], ver[p], m, "signed")
            PROVE  Whole(file'[dir[p]][ver[p]])
        <4>1. "infos" \in Names /\ m \in Names /\ m # "infos" /\ file \in FileType
          BY <3>2 DEF Names, IInv, TypeOK
        <4>2. \A y \in Names : file'[dir[p]][ver[p]][y] =
                IF y = m THEN "signed" ELSE file[dir[p]][ver[p]][y]
          BY <1>2, <3>4, <4>1, WriteEffect
        <4> QED BY <3>1, <4>1, <4>2 DEF Whole
      <3> QED BY <2>2, <3>3, <3>4 DEF SignVersion
    <2> QED BY <2>1, <2>2
  <1> QED BY <1>1, <1>3, <1>4, WorkStep DEF AtWork, Working, SignedLabels

\* Nothing stops a run that has all of its version.
LEMMA TidyResponses ==
    ASSUME IInv, Alone', Tidy, NEW p \in Procs,
           \/ WriteConfig(p) \/ RemoveHtdocs(p) \/ RunUpdateResponses(p)
           \/ RemovePublished(p) \/ BeginPublish(p) \/ EndPublish(p)
    PROVE  Tidy'
  <1>1. /\ pc[p] \in {"conf", "clean", "gen", "unpublish", "publish", "moving"}
        /\ UNCHANGED <<dir, ver, dirs, dest, destResp, current, file>>
    BY DEF WriteConfig, RemoveHtdocs, RunUpdateResponses, RemovePublished, BeginPublish, EndPublish
  <1>2. dir[p] \in Dirs /\ ver[p] \in Days
    BY <1>1 DEF IInv, Placed, Working, SignedLabels
  <1>3. pc'[p] \in {"clean", "gen", "unpublish", "publish", "moving", "setcur"}
    <2>1. CASE WriteConfig(p)
      BY <2>1 DEF WriteConfig, Goto, Tidy, HasVersion, Whole, Names, IInv, TypeOK
    <2>2. CASE BeginPublish(p)
      <3>1. htdocs # NoResp
        BY <1>2, <2>2, DaysAssumption DEF BeginPublish, NoResp, IInv, Progress, Days
      <3> QED BY <2>2, <3>1 DEF BeginPublish, Goto, IInv, TypeOK
    <2>3. CASE RemoveHtdocs(p) \/ RunUpdateResponses(p) \/ RemovePublished(p) \/ EndPublish(p)
      BY <2>3 DEF RemoveHtdocs, RunUpdateResponses, RemovePublished, EndPublish, Goto, IInv, TypeOK
    <2> QED BY <2>1, <2>2, <2>3
  <1>4. \A d \in Dirs : d # dir[p] => published'[d] = published[d]
    BY <1>2 DEF WriteConfig, RemoveHtdocs, RunUpdateResponses, RemovePublished, BeginPublish,
                EndPublish, IInv, TypeOK
  <1> QED BY <1>1, <1>3, <1>4, WorkStep DEF AtWork, Working, SignedLabels

LEMMA TidyCurrent ==
    ASSUME IInv, Alone', Tidy, NEW p \in Procs, SetCurrentVersion(p)
    PROVE  Tidy'
  <1>1. /\ pc[p] = "setcur" /\ pc'[p] = "remove"
        /\ UNCHANGED <<dir, ver, dirs, dest, destResp, published, file>>
        /\ current' = [current EXCEPT ![dir[p]] = ver[p]]
    BY DEF SetCurrentVersion, Goto, IInv, TypeOK
  <1>2. \A q \in Procs : q # p => pc[q] = "idle" /\ pc'[q] = "idle"
    BY <1>1, OthersIdle
  <1>3. LocalTidy'
    BY <1>1, <1>2 DEF Tidy, LocalTidy, Untouched, AtWork, Working, SignedLabels, IInv, TypeOK
  <1>4. DestTidy'
    BY <1>1, <1>2 DEF Tidy, DestTidy, Syncing
  <1>5. HasVersion'
    BY <1>1, <1>2 DEF Tidy, HasVersion, AtWork, Working, SignedLabels
  <1> QED BY <1>3, <1>4, <1>5 DEF Tidy

\* What is removed is all but the version that has become current.
LEMMA TidyRemove ==
    ASSUME IInv, Alone', Tidy, NEW p \in Procs, RemoveOldversions(p)
    PROVE  Tidy'
  <1>1. /\ pc[p] = "remove" /\ pc'[p] = "loop"
        /\ UNCHANGED <<dir, ver, dest, destResp, published, current>>
        /\ dirs' = [dirs EXCEPT ![dir[p]] = @ \cap {ver[p]}]
        /\ file' = [file EXCEPT ![dir[p]] =
                      [v \in Days |-> IF v = ver[p] THEN @[v] ELSE EmptyVersion]]
    BY DEF RemoveOldversions, Goto, IInv, TypeOK
  <1>2. \A q \in Procs : q # p => pc[q] = "idle" /\ pc'[q] = "idle"
    BY <1>1, OthersIdle
  <1>3. dir[p] \in Dirs /\ ver[p] \in Days /\ ver[p] = current[dir[p]] /\ ver[p] \in dirs[dir[p]]
    BY <1>1 DEF IInv, Placed, Ordered, Tidy, HasVersion, AtWork, Working, SignedLabels
  <1>4. ver[p] # 0
    BY <1>3 DEF Days
  <1>5. LocalTidy'
    <2> SUFFICES ASSUME NEW d \in Dirs
                 PROVE  /\ dirs'[d] = {current[d]} \ {0}
                        /\ published[d].ver = current[d]
                        /\ OnlyHas(file'[d], current[d])
      BY <1>1 DEF LocalTidy, OnlyHas
    <2>1. CASE d = dir[p]
      <3>1. dirs'[d] = {current[d]} \ {0}
        BY <1>1, <1>3, <1>4, <2>1 DEF IInv, TypeOK
      <3>2. published[d].ver = current[d]
        BY <1>1, <1>3, <2>1 DEF IInv, Progress
      <3>3. \A v \in Days \ {ver[p]} : file'[d][v] = EmptyVersion
        BY <1>1, <2>1 DEF IInv, TypeOK, FileType
      <3>4. OnlyHas(file'[d], current[d])
        BY <1>3, <2>1, <3>3 DEF OnlyHas, EmptyVersion
      <3> QED BY <3>1, <3>2, <3>4
    <2>2. CASE d # dir[p]
      <3>1. Untouched(d)
        BY <1>1, <1>2, <2>2 DEF Untouched, AtWork, Working, SignedLabels
      <3>2. dirs'[d] = dirs[d] /\ file'[d] = file[d]
        BY <1>1, <2>2 DEF IInv, TypeOK, FileType
      <3> QED BY <3>1, <3>2 DEF Tidy, LocalTidy
    <2> QED BY <2>1, <2>2
  <1>6. DestTidy'
    BY <1>1, <1>2 DEF Tidy, DestTidy, Syncing
  <1>7. HasVersion'
    BY <1>1, <1>2 DEF HasVersion, AtWork, Working, SignedLabels
  <1> QED BY <1>5, <1>6, <1>7 DEF Tidy

\* rsync --delete leaves what the local tree has.
LEMMA TidySync ==
    ASSUME IInv, Alone', Tidy, NEW p \in Procs, SyncMars(p) \/ SyncUpdates(p) \/ SyncDelete(p)
    PROVE  Tidy'
  <1>1. /\ pc[p] \in Syncing /\ pc'[p] \in Syncing \cup {"quit"}
        /\ UNCHANGED <<dir, ver, dirs, file, published, current>>
    BY DEF SyncMars, SyncUpdates, SyncDelete, Goto, IInv, TypeOK, Syncing
  <1>2. \A q \in Procs : q # p => pc[q] = "idle" /\ pc'[q] = "idle"
    BY <1>1, OthersIdle DEF Syncing
  <1>3. LocalTidy' /\ HasVersion'
    BY <1>1, <1>2 DEF Tidy, LocalTidy, Untouched, HasVersion, AtWork, Working, SignedLabels, Syncing
  <1>4. DestTidy'
    <2>1. CASE pc'[p] \in Syncing
      BY <2>1 DEF DestTidy
    <2>2. CASE pc'[p] \notin Syncing
      <3>1. SyncDelete(p)
        BY <2>2 DEF SyncMars, SyncUpdates, Goto, IInv, TypeOK, Syncing
      <3> SUFFICES ASSUME NEW d \in Dirs, destResp'[d] # NoResp
                   PROVE  OnlyHas(dest'[d], destResp'[d].ver)
        BY DEF DestTidy, OnlyHas
      <3>2. destResp'[d] = published[d]
        BY <3>1 DEF SyncDelete, IInv, Sent
      <3>3. Untouched(d)
        BY <1>1, <1>2 DEF Untouched, AtWork, Working, SignedLabels, Syncing
      <3>4. destResp'[d].ver = current[d] /\ OnlyHas(file[d], current[d])
        BY <3>2, <3>3 DEF Tidy, LocalTidy
      <3>5. \A v \in Days, x \in Names : file[d][v][x] = "absent" => dest'[d][v][x] = "absent"
        BY <3>1 DEF SyncDelete
      <3> QED BY <3>4, <3>5 DEF OnlyHas
    <2> QED BY <2>1, <2>2
  <1> QED BY <1>3, <1>4 DEF Tidy

LEMMA NextTidy ==
    ASSUME MayOverlap = FALSE, IInv, failures = 0 => Tidy, [Next]_vars
    PROVE  failures' = 0 => Tidy'
  <1> SUFFICES ASSUME failures' = 0 PROVE Tidy'
    OBVIOUS
  <1>1. Alone'
    BY AloneStep DEF IInv
  <1>2. CASE UNCHANGED <<shared, local, failures>>
    BY <1>2 DEF shared, local, Tidy, LocalTidy, Untouched, OnlyHas, DestTidy, HasVersion
  <1>3. ASSUME NEW p \in Procs, Start(p) \/ Step(p) PROVE Tidy'
    <2>1. failures = 0
      BY <1>3 DEF Start, Step, RunAloneCheck, RunAloneWrite, Quit, NextPublishDir, FetchVersion,
         MoveToDestdir, SignVersion, WriteConfig, RemoveHtdocs, RunUpdateResponses, RemovePublished,
         BeginPublish, EndPublish, SetCurrentVersion, RemoveOldversions, SyncMars, SyncUpdates,
         SyncDelete
    <2> QED
      BY <1>1, <1>3, <2>1, TidyOthers, TidyFetch, TidyFiles, TidyResponses, TidyCurrent, TidyRemove,
         TidySync DEF Step
  <1>4. ASSUME NEW p \in Procs, Fail(p) \/ Kill(p) PROVE FALSE
    BY <1>4 DEF Fail, Kill, IInv, TypeOK
  <1>5. CASE Environment
    BY <1>2, <1>5 DEF Environment, NextDay, BuildFinishes, BuildIsPruned
  <1>6. CASE UNCHANGED vars
    BY <1>2, <1>6 DEF vars, shared, local
  <1> QED BY <1>3, <1>4, <1>5, <1>6 DEF Next

\* When no run is at work and nothing has failed, every directory has its current version
\* and no other, here and at the destination: what a run takes up it completes, publishes
\* and records before it removes all others, and rsync deletes what was removed.
THEOREM KeepsCurrent == ASSUME MayOverlap = FALSE PROVE Spec => []OnlyCurrentIsKept
  <1>1. Init => Tidy
    BY InitTidy
  <1>2. IInv /\ (failures = 0 => Tidy) /\ [Next]_vars => (failures = 0 => Tidy)'
    BY NextTidy
  <1>3. IInv /\ (failures = 0 => Tidy) => OnlyCurrentIsKept
    <2> SUFFICES ASSUME IInv, Tidy, \A p \in Procs : pc[p] = "idle", NEW d \in Dirs
                 PROVE  /\ dirs[d] = {current[d]} \ {0}
                        /\ \A v \in Days : destResp[d] # NoResp /\ v # destResp[d].ver
                              => dest[d][v] = EmptyVersion
      BY DEF OnlyCurrentIsKept
    <2>1. Untouched(d) /\ \A p \in Procs : pc[p] \notin Syncing
      BY DEF Untouched, AtWork, Working, SignedLabels, Syncing
    <2>2. ASSUME NEW v \in Days, destResp[d] # NoResp, v # destResp[d].ver
          PROVE  dest[d][v] = EmptyVersion
      <3>1. \A x \in Names : dest[d][v][x] = "absent"
        BY <2>1, <2>2 DEF Tidy, DestTidy, OnlyHas
      <3>2. dest[d][v] \in [Names -> States]
        BY DEF IInv, TypeOK, FileType
      <3> QED BY <3>1, <3>2 DEF EmptyVersion
    <2> QED BY <2>1, <2>2 DEF Tidy, LocalTidy
  <1> QED BY <1>1, <1>2, <1>3, Invariance, PTL DEF Spec
=============================================================================

---------------------------- MODULE SigningProofs ----------------------------
(***************************************************************************)
(* Theorems about the release signing pipeline, DoAllSigning, for every    *)
(* set of files, every platform and any number of interrupted runs; and    *)
(* about the signing machine that its steps use, LinuxSigner, for every    *)
(* number of sessions, files, runs and failures.                           *)
(***************************************************************************)
EXTENDS DoAllSigning, LinuxSigner, TLAPS

\* The contents the model is built from are contents.
LEMMA ContentFacts ==
    /\ Absent \in Content
    /\ Unsigned \in Content
    /\ NoSums \in [Files -> Content]
    /\ BuilderOutput \in [Files -> Content]
    /\ \A c \in Content : \A ms \in SUBSET Marks : Rewrite(c, ms) \in Content
<1>1. Absent \in Content /\ Unsigned \in Content
  BY DEF Absent, Unsigned, Content
<1>2. NoSums \in [Files -> Content] /\ BuilderOutput \in [Files -> Content]
  BY <1>1 DEF NoSums, BuilderOutput
<1>3. ASSUME NEW c \in Content, NEW ms \in SUBSET Marks
      PROVE  Rewrite(c, ms) \in Content
  BY DEF Content, Rewrite
<1> QED
  BY <1>1, <1>2, <1>3

\* A transfer between two hosts keeps the types of the four directories.
LEMMA TransferType ==
    ASSUME TypeOK, NEW src \in Hosts, NEW dst \in Hosts, Rsync(src, dst)
    PROVE  /\ file' \in [Hosts -> [Files -> Content]]
           /\ asc' \in [Hosts -> [Files -> Content]]
           /\ sums' \in [Hosts -> [Files -> Content]]
           /\ sumsAsc' \in [Hosts -> [Files -> Content]]
           /\ handled' \subseteq Files \cup Labels
           /\ UNCHANGED <<tar, cdnMade, repo, responses, built, done, pos,
                          secrets, interrupts>>
<1>1. PICK u \in Transferable(src) \ handled : Transfer(src, dst, u) /\ Did(u)
  BY DEF Rsync
<1>2. u \in Files \cup {"sums"} /\ "sums" \in Labels
  BY <1>1 DEF Transferable, Labels
<1>3. handled' \subseteq Files \cup Labels
  BY <1>1, <1>2 DEF Did, TypeOK
<1>4. CASE u = "sums"
  <2>1. /\ sums' = [sums EXCEPT ![dst] = sums[src]]
        /\ sumsAsc' = [sumsAsc EXCEPT ![dst] =
                         IF sumsAsc[src] # NoSums THEN sumsAsc[src] ELSE @]
        /\ UNCHANGED <<file, asc>>
    BY <1>1, <1>4 DEF Transfer
  <2> QED
    BY <1>1, <1>3, <2>1 DEF Transfer, Did, TypeOK
<1>5. CASE u # "sums"
  <2>1. u \in Files
    BY <1>2, <1>5
  <2>2. /\ file' = [file EXCEPT ![dst][u] = file[src][u]]
        /\ asc' = [asc EXCEPT ![dst][u] =
                     IF asc[src][u] # Absent THEN asc[src][u] ELSE @]
        /\ UNCHANGED <<sums, sumsAsc>>
    BY <1>1, <1>5 DEF Transfer, Put
  <2> QED
    BY <1>1, <1>3, <2>1, <2>2 DEF Transfer, Did, TypeOK
<1> QED
  BY <1>4, <1>5

\* Replacing one file by a well-typed content keeps the type of file.
LEMMA PutType ==
    ASSUME TypeOK, NEW h \in Hosts, NEW f \in Files, NEW c \in Content
    PROVE  Put(h, f, c) \in [Hosts -> [Files -> Content]]
BY DEF TypeOK, Put

\* Every content a host holds carries known marks only.
LEMMA MarksType ==
    ASSUME TypeOK, NEW h \in Hosts, NEW f \in Files
    PROVE  file[h][f] \in Content /\ file[h][f].marks \subseteq Marks
BY DEF TypeOK, Content

LEMMA HostNames ==
    /\ "builder" \in Hosts /\ "local" \in Hosts /\ "signer" \in Hosts
    /\ "dist" \in Hosts /\ "cdn" \in Hosts
BY DEF Hosts

LEMMA MarkNames ==
    /\ {"code"} \subseteq Marks /\ {"stapled"} \subseteq Marks
    /\ {"mar"} \subseteq Marks /\ {"apk"} \subseteq Marks
    /\ {"authenticode"} \subseteq Marks /\ {"timestamp"} \subseteq Marks
BY DEF Marks

\* The initial states are well-typed.
LEMMA InitType == Init => TypeOK
<1> SUFFICES ASSUME Init PROVE TypeOK
  OBVIOUS
<1>1. listed \in [{"builder", "local"} -> SUBSET Files]
  BY DEF Init, Of
<1>2. file \in [Hosts -> [Files -> Content]]
  BY ContentFacts DEF Init
<1>3. /\ asc \in [Hosts -> [Files -> Content]]
      /\ sums \in [Hosts -> [Files -> Content]]
      /\ sumsAsc \in [Hosts -> [Files -> Content]]
      /\ responses \in [Files -> Content]
      /\ tar \in [{"signer", "local", "stapled"} -> Content]
  BY ContentFacts DEF Init
<1>4. /\ built \in {"building", "merged", "hashing", "finished"}
      /\ pos \in 0 .. EndOfScript
      /\ interrupts \in 0 .. MaxInterrupts
  BY BoundAssumption DEF Init, EndOfScript
<1>5. /\ cdnMade \in BOOLEAN
      /\ repo \in {"old", "dirty", "committed"}
      /\ done = {} /\ handled = {} /\ secrets = {}
  BY DEF Init
<1> QED
  BY <1>1, <1>2, <1>3, <1>4, <1>5 DEF TypeOK


\* A step's work leaves the variables of the runner well-typed.
LEMMA DidType ==
    ASSUME TypeOK, NEW u \in Files \cup Labels, Did(u)
    PROVE  /\ handled' \subseteq Files \cup Labels
           /\ UNCHANGED <<built, done, pos, secrets, interrupts>>
BY DEF TypeOK, Did

\* Work that changes one file only keeps the types.
LEMMA FileWorkType ==
    ASSUME TypeOK, NEW u \in Files \cup Labels, Did(u), OnlyFiles,
           file' \in [Hosts -> [Files -> Content]]
    PROVE  TypeOK'
BY DidType DEF OnlyFiles, TypeOK

LEMMA LabelNames ==
    /\ "sums" \in Labels /\ "tar" \in Labels /\ "staple" \in Labels
    /\ "rm" \in Labels /\ "cdn_dir" \in Labels /\ "untar" \in Labels
    /\ "commit" \in Labels /\ "push" \in Labels
BY DEF Labels

\* Every step keeps the types.
LEMMA StepType == TypeOK /\ [Next]_vars => TypeOK'
<1> SUFFICES ASSUME TypeOK, [Next]_vars PROVE TypeOK'
  OBVIOUS
<1> USE HostNames, LabelNames
<1>1. CASE BuilderMergesFiles
  BY <1>1, ContentFacts DEF BuilderMergesFiles, TypeOK
<1>2. CASE BuilderHashesIncrementals
  <2>1. /\ built' \in {"building", "merged", "hashing", "finished"}
        /\ listed' \in [{"builder", "local"} -> SUBSET Files]
    BY <1>2 DEF BuilderHashesIncrementals, TypeOK, Of
  <2> QED
    BY <1>2, <2>1 DEF BuilderHashesIncrementals, TypeOK, content
<1>3. CASE Start
  <2>1. pos' \in 0 .. EndOfScript /\ secrets' \subseteq Secrets
    BY <1>3 DEF Start, EndOfScript, Prompted
  <2> QED
    BY <1>3, <2>1 DEF Start, TypeOK, content
<1>4. CASE SkipStep
  <2>1. pos' \in 0 .. EndOfScript
    BY <1>4 DEF SkipStep, EndOfScript, Steps
  <2> QED
    BY <1>4, <2>1 DEF SkipStep, TypeOK, content
<1>5. CASE FinishStep
  <2>1. pos' \in 0 .. EndOfScript /\ done' \subseteq Steps
    BY <1>5 DEF FinishStep, EndOfScript, Steps, Marker, TypeOK,
                sync_scripts_to_linux_signer
  <2> QED
    BY <1>5, <2>1 DEF FinishStep, TypeOK, content
<1>6. CASE StepFails
  <2>1. pos' \in 0 .. EndOfScript
    BY <1>6 DEF StepFails, EndOfScript
  <2> QED
    BY <1>6, <2>1 DEF StepFails, TypeOK, content
<1>7. CASE Interrupt
  <2>1. pos' \in 0 .. EndOfScript /\ interrupts' \in 0 .. MaxInterrupts
    BY <1>7, BoundAssumption DEF Interrupt, EndOfScript, TypeOK
  <2> QED
    BY <1>7, <2>1 DEF Interrupt, TypeOK, content
<1>8. CASE Terminated \/ UNCHANGED vars
  BY <1>8 DEF Terminated, TypeOK, vars, content
<1>9. CASE StepWork
  <2>1. CASE SyncBuilderUnsignedToLocalSigned
    <3>1. Rsync("builder", "local")
      BY <2>1 DEF SyncBuilderUnsignedToLocalSigned
    <3>2. listed' \in [{"builder", "local"} -> SUBSET Files]
      BY <2>1 DEF SyncBuilderUnsignedToLocalSigned, TypeOK
    <3> QED
      BY <3>1, <3>2, TransferType DEF TypeOK
  <2>2. CASE SyncLocalToLinuxSigner
    BY <2>2, TransferType DEF SyncLocalToLinuxSigner, TypeOK
  <2>3. CASE SyncLinuxSignerToLocal
    BY <2>3, TransferType DEF SyncLinuxSignerToLocal, TypeOK
  <2>4. CASE SyncLocalToStaticiforme
    BY <2>4, TransferType DEF SyncLocalToStaticiforme, TypeOK
  <2>5. CASE CleanBuildArtifacts
    <3>1. PICK f \in Of({"test"}) \ handled :
            file' = Put("local", f, Absent) /\ Did(f)
      BY <2>5 DEF CleanBuildArtifacts
    <3>2. f \in Files /\ OnlyFiles
      BY <2>5 DEF CleanBuildArtifacts, Of
    <3> QED
      BY <3>1, <3>2, PutType, ContentFacts, FileWorkType
  <2>6. CASE ExtractDmg
    <3>1. Dmg \in Files /\ Hfs \in Files
      BY FilesAssumption
    <3>2. Rewrite(file["local"][Hfs], file["local"][Dmg].marks) \in Content
      BY <3>1, MarksType, ContentFacts
    <3>3. /\ Put("local", Hfs, Rewrite(file["local"][Hfs], file["local"][Dmg].marks))
               \in [Hosts -> [Files -> Content]]
          /\ Put("local", Dmg, Absent) \in [Hosts -> [Files -> Content]]
      BY <3>1, <3>2, PutType, ContentFacts
    <3>4. file' \in [Hosts -> [Files -> Content]]
      BY <2>6, <3>3 DEF ExtractDmg
    <3> QED
      BY <2>6, <3>1, <3>4, FileWorkType DEF ExtractDmg
  <2>7. CASE LinuxSignerRcodesignSign
    <3>1. Hfs \in Files
      BY FilesAssumption
    <3>2. file' \in [Hosts -> [Files -> Content]]
      <4>1. Put("signer", Hfs, Absent) \in [Hosts -> [Files -> Content]]
        BY <3>1, PutType, ContentFacts
      <4> QED
        BY <2>7, <4>1 DEF LinuxSignerRcodesignSign, TypeOK
    <3>3. tar' \in [{"signer", "local", "stapled"} -> Content]
      BY <2>7, MarkNames, ContentFacts DEF LinuxSignerRcodesignSign, TypeOK
    <3>4. /\ handled' \subseteq Files \cup Labels
          /\ UNCHANGED <<built, done, pos, secrets, interrupts>>
      BY <2>7, DidType DEF LinuxSignerRcodesignSign
    <3> QED
      BY <2>7, <3>2, <3>3, <3>4 DEF LinuxSignerRcodesignSign, TypeOK
  <2>8. CASE SyncLinuxSignerMacosSignedTarToLocal
    <3>1. tar' \in [{"signer", "local", "stapled"} -> Content]
      BY <2>8 DEF SyncLinuxSignerMacosSignedTarToLocal, TypeOK
    <3> QED
      BY <2>8, <3>1, DidType DEF SyncLinuxSignerMacosSignedTarToLocal, TypeOK
  <2>9. CASE RcodesignNotarySubmit
    <3>1. tar["local"].marks \cup {"stapled"} \subseteq Marks /\ tar["stapled"] \in Content
      BY MarkNames DEF TypeOK, Content
    <3>2. Rewrite(tar["stapled"], tar["local"].marks \cup {"stapled"}) \in Content
      BY <3>1, ContentFacts
    <3>3. tar' \in [{"signer", "local", "stapled"} -> Content]
      BY <2>9, <3>2 DEF RcodesignNotarySubmit, TypeOK
    <3> QED
      BY <2>9, <3>3, DidType DEF RcodesignNotarySubmit, TypeOK
  <2>10. CASE GatekeeperBundling
    <3>1. Dmg \in Files /\ Hfs \in Files
      BY FilesAssumption
    <3>2. tar["stapled"].marks \subseteq Marks
      BY DEF TypeOK, Content
    <3>3. Rewrite(file["local"][Dmg], tar["stapled"].marks) \in Content
      BY <3>1, <3>2, MarksType, ContentFacts
    <3>4. file' \in [Hosts -> [Files -> Content]]
      <4>1. /\ Put("local", Dmg, Rewrite(file["local"][Dmg], tar["stapled"].marks))
                 \in [Hosts -> [Files -> Content]]
            /\ Put("local", Hfs, Absent) \in [Hosts -> [Files -> Content]]
        BY <3>1, <3>3, PutType, ContentFacts
      <4> QED
        BY <2>10, <4>1 DEF GatekeeperBundling
    <3> QED
      BY <2>10, <3>1, <3>4, FileWorkType DEF GatekeeperBundling
  <2>11. CASE Dmg2mar
    <3>1. Dmg \in Files /\ file["local"][Dmg].marks \subseteq Marks
      BY FilesAssumption, MarksType
    <3>2. \A f \in Files : /\ Rewrite(file["local"][f], file["local"][Dmg].marks) \in Content
                           /\ Rewrite(Absent, file["local"][Dmg].marks) \in Content
      BY <3>1, MarksType, ContentFacts
    <3>3. ASSUME NEW f \in Of({"macmar"}) \ handled, Did(f),
                 file' = Put("local", f, Rewrite(file["local"][f], file["local"][Dmg].marks))
          PROVE  TypeOK'
      BY <2>11, <3>2, <3>3, PutType, FileWorkType DEF Dmg2mar, Of
    <3>4. ASSUME Did("rm"),
                 file' = [file EXCEPT !["local"] =
                            [f \in Files |-> IF f \in listed["local"] THEN Absent ELSE @[f]]]
          PROVE  TypeOK'
      <4>1. file' \in [Hosts -> [Files -> Content]]
        BY <3>4, ContentFacts DEF TypeOK
      <4> QED
        BY <2>11, <3>4, <4>1, FileWorkType DEF Dmg2mar
    <3>5. ASSUME NEW f \in Of({"macinc"}) \ handled, Did(f),
                 file' = IF Present("local", f) THEN file
                         ELSE Put("local", f, Rewrite(Absent, file["local"][Dmg].marks))
          PROVE  TypeOK'
      <4>1. f \in Files
        BY DEF Of
      <4>2. file' \in [Hosts -> [Files -> Content]]
        BY <3>2, <3>5, <4>1, PutType DEF TypeOK
      <4> QED
        BY <2>11, <3>5, <4>1, <4>2, FileWorkType DEF Dmg2mar
    <3> QED
      BY <2>11, <3>3, <3>4, <3>5 DEF Dmg2mar
  <2>12. CASE LinuxSignerSignmars
    <3>1. PICK f \in Mars \ handled :
            /\ file' = IF "mar" \in file["signer"][f].marks THEN file
                       ELSE Put("signer", f, Rewrite(file["signer"][f],
                                                     file["signer"][f].marks \cup {"mar"}))
            /\ Did(f)
      BY <2>12 DEF LinuxSignerSignmars
    <3>2. f \in Files
      BY DEF Mars, Of
    <3>3. Rewrite(file["signer"][f], file["signer"][f].marks \cup {"mar"}) \in Content
      BY <3>2, MarksType, MarkNames, ContentFacts
    <3>4. file' \in [Hosts -> [Files -> Content]]
      BY <3>1, <3>2, <3>3, PutType DEF TypeOK
    <3> QED
      BY <2>12, <3>1, <3>2, <3>4, FileWorkType DEF LinuxSignerSignmars
  <2>13. ASSUME NEW k \in {"apk", "aab"}, LinuxSignerSignAndroid(k) PROVE TypeOK'
    <3>1. PICK f \in Files : /\ file' = Put("signer", f, Rewrite(file["signer"][f], {"apk"}))
                             /\ Did(f)
      BY <2>13 DEF LinuxSignerSignAndroid, Of
    <3>2. file' \in [Hosts -> [Files -> Content]]
      BY <3>1, MarksType, MarkNames, ContentFacts, PutType
    <3> QED
      BY <2>13, <3>1, <3>2, FileWorkType DEF LinuxSignerSignAndroid
  <2>14. CASE LinuxSignerAuthenticodeSigning
    <3>1. PICK f \in Files :
            file' = Put("signer", f, Rewrite(file["signer"][f], {"authenticode"})) /\ Did(f)
      BY <2>14 DEF LinuxSignerAuthenticodeSigning, Of
    <3>2. file' \in [Hosts -> [Files -> Content]]
      BY <3>1, MarksType, MarkNames, ContentFacts, PutType
    <3> QED
      BY <2>14, <3>1, <3>2, FileWorkType DEF LinuxSignerAuthenticodeSigning
  <2>15. CASE AuthenticodeTimestamping
    <3>1. PICK f \in Files :
            /\ file' = Put("local", f, Rewrite(file["local"][f],
                                               file["local"][f].marks \cup {"timestamp"}))
            /\ Did(f)
      BY <2>15 DEF AuthenticodeTimestamping, Of
    <3>2. Rewrite(file["local"][f], file["local"][f].marks \cup {"timestamp"}) \in Content
      BY MarksType, MarkNames, ContentFacts
    <3>3. file' \in [Hosts -> [Files -> Content]]
      BY <3>1, <3>2, PutType
    <3> QED
      BY <2>15, <3>1, <3>3, FileWorkType DEF AuthenticodeTimestamping
  <2>16. CASE HashSignedBundles
    <3>1. sums' \in [Hosts -> [Files -> Content]]
      BY <2>16 DEF HashSignedBundles, TypeOK
    <3> QED
      BY <2>16, <3>1, DidType DEF HashSignedBundles, TypeOK
  <2>17. CASE LinuxSignerGpgSign
    <3>1. /\ asc' \in [Hosts -> [Files -> Content]]
          /\ sumsAsc' \in [Hosts -> [Files -> Content]]
      <4>1. CASE sumsAsc' = sumsAsc /\ \E f \in Files :
                   asc' = [asc EXCEPT !["signer"][f] = file["signer"][f]]
        BY <4>1 DEF TypeOK
      <4>2. CASE sumsAsc' = [sumsAsc EXCEPT !["signer"] = sums["signer"]] /\ asc' = asc
        BY <4>2 DEF TypeOK
      <4> QED
        BY <2>17, <4>1, <4>2 DEF LinuxSignerGpgSign, GpgSigned, Of
    <3>2. /\ handled' \subseteq Files \cup Labels
          /\ UNCHANGED <<built, done, pos, secrets, interrupts>>
      BY <2>17, DidType DEF LinuxSignerGpgSign, GpgSigned, Of
    <3> QED
      BY <2>17, <3>1, <3>2 DEF LinuxSignerGpgSign, TypeOK
  <2>18. CASE StaticiformePrepareCdnDistUpload
    <3>1. \A f \in Files : file["dist"][f] \in Content
      BY MarksType
    <3>2. file' \in [Hosts -> [Files -> Content]] /\ cdnMade' \in BOOLEAN
      <4>1. \A f \in Files : Put("cdn", f, file["dist"][f]) \in [Hosts -> [Files -> Content]]
        BY <3>1, PutType
      <4> QED
        BY <2>18, <4>1 DEF StaticiformePrepareCdnDistUpload, TypeOK, Mars, Of
    <3>3. /\ handled' \subseteq Files \cup Labels
          /\ UNCHANGED <<built, done, pos, secrets, interrupts>>
      BY <2>18, DidType DEF StaticiformePrepareCdnDistUpload, Mars, Of
    <3> QED
      BY <2>18, <3>2, <3>3 DEF StaticiformePrepareCdnDistUpload, TypeOK
  <2>19. CASE UploadUpdateResponses
    <3>1. /\ repo' \in {"old", "dirty", "committed"}
          /\ responses' \in [Files -> Content]
      BY <2>19, MarksType, ContentFacts DEF UploadUpdateResponses, TypeOK
    <3>2. /\ handled' \subseteq Files \cup Labels
          /\ UNCHANGED <<built, done, pos, secrets, interrupts>>
      BY <2>19, DidType DEF UploadUpdateResponses
    <3> QED
      BY <2>19, <3>1, <3>2 DEF UploadUpdateResponses, TypeOK
  <2>20. CASE FinishedSigningCleanLinuxSigner
    <3>1. /\ file' \in [Hosts -> [Files -> Content]]
          /\ asc' \in [Hosts -> [Files -> Content]]
          /\ sums' \in [Hosts -> [Files -> Content]]
          /\ sumsAsc' \in [Hosts -> [Files -> Content]]
      <4>1. CASE /\ sums' = [sums EXCEPT !["signer"] = NoSums]
                 /\ sumsAsc' = [sumsAsc EXCEPT !["signer"] = NoSums]
                 /\ UNCHANGED <<file, asc>>
        BY <4>1, ContentFacts DEF TypeOK
      <4>2. CASE /\ UNCHANGED <<sums, sumsAsc>>
                 /\ \E u \in Files : /\ file' = Put("signer", u, Absent)
                                     /\ asc' = [asc EXCEPT !["signer"][u] = Absent]
        <5>1. PICK u \in Files : /\ file' = Put("signer", u, Absent)
                                 /\ asc' = [asc EXCEPT !["signer"][u] = Absent]
          BY <4>2
        <5>2. file' \in [Hosts -> [Files -> Content]]
          BY <5>1, PutType, ContentFacts
        <5> QED
          BY <4>2, <5>1, <5>2, ContentFacts DEF TypeOK
      <4> QED
        BY <2>20, <4>1, <4>2 DEF FinishedSigningCleanLinuxSigner, Transferable
    <3>2. tar' \in [{"signer", "local", "stapled"} -> Content]
      BY <2>20, ContentFacts DEF FinishedSigningCleanLinuxSigner, TypeOK
    <3> QED
      BY <2>20, <3>1, <3>2, DidType DEF FinishedSigningCleanLinuxSigner, TypeOK
  <2> QED
    BY <1>9, <2>1, <2>2, <2>3, <2>4, <2>5, <2>6, <2>7, <2>8, <2>9, <2>10, <2>11,
       <2>12, <2>13, <2>14, <2>15, <2>16, <2>17, <2>18, <2>19, <2>20 DEF StepWork
<1> QED
  BY <1>1, <1>2, <1>3, <1>4, <1>5, <1>6, <1>7, <1>8, <1>9
     DEF Next, Builder, Runner

\* The type invariant of the pipeline, whatever the release contains.
THEOREM TypeCorrect == Spec => []TypeOK
<1> QED
  BY InitType, StepType, PTL DEF Spec

-----------------------------------------------------------------------------
(* Passwords.                                                              *)

\* The steps that use the password for Android, and the one whose marker makes its
\* prompt unnecessary: that one comes after them.
AndroidSigning == {linux_signer_sign_android_apks, linux_signer_sign_android_aab}

AndroidInOrder ==
    \A n \in AndroidSigning :
        Applicable(n) /\ (pos > n \/ sync_after_sign_android_apks \in done) => n \in done

\* A running script has the passwords that it would still be asked for.
HasPrompted == pos # 0 => Prompted \subseteq secrets

SecretsInv == TypeOK /\ AndroidInOrder /\ HasPrompted

LEMMA AndroidFacts ==
    /\ AndroidSigning \subseteq Steps
    /\ sync_after_sign_android_apks \in Steps
    /\ \A n \in AndroidSigning : n < sync_after_sign_android_apks
    /\ \A n \in Steps : Marker(n) \in AndroidSigning \cup {sync_after_sign_android_apks} => n = Marker(n)
    /\ \A n \in AndroidSigning \cup {sync_after_sign_android_apks} : Marker(n) = n
BY DEF AndroidSigning, Steps, Marker, linux_signer_sign_android_apks,
       linux_signer_sign_android_aab, sync_after_sign_android_apks,
       sync_scripts_to_linux_signer, sync_scripts_to_linux_signer_again

\* The work of a step touches neither the markers nor the run.
LEMMA WorkKeepsRun ==
    ASSUME StepWork
    PROVE  UNCHANGED <<done, pos, secrets>>
BY DEF StepWork, Did, SyncBuilderUnsignedToLocalSigned, CleanBuildArtifacts, ExtractDmg,
       SyncLocalToLinuxSigner, LinuxSignerRcodesignSign, SyncLinuxSignerMacosSignedTarToLocal,
       RcodesignNotarySubmit, GatekeeperBundling, Dmg2mar, LinuxSignerSignmars,
       SyncLinuxSignerToLocal, LinuxSignerAuthenticodeSigning, AuthenticodeTimestamping,
       HashSignedBundles, LinuxSignerGpgSign, LinuxSignerSignAndroid, SyncLocalToStaticiforme,
       StaticiformePrepareCdnDistUpload, UploadUpdateResponses,
       FinishedSigningCleanLinuxSigner, Rsync

LEMMA SecretsStep == SecretsInv /\ [Next]_vars => SecretsInv'
<1> SUFFICES ASSUME SecretsInv, [Next]_vars PROVE SecretsInv'
  OBVIOUS
<1>0. TypeOK /\ TypeOK'
  BY StepType DEF SecretsInv
<1>1. ASSUME UNCHANGED <<done, pos, secrets>> PROVE SecretsInv'
  <2>1. AndroidInOrder'
    BY <1>1 DEF SecretsInv, AndroidInOrder, Applicable
  <2>2. HasPrompted'
    BY <1>1 DEF SecretsInv, HasPrompted, Prompted, SecretPlatform, PromptedUntil
  <2> QED
    BY <1>0, <2>1, <2>2 DEF SecretsInv
<1>2. CASE Builder \/ Terminated \/ StepWork \/ UNCHANGED vars
  BY <1>1, <1>2, WorkKeepsRun DEF Builder, BuilderMergesFiles, BuilderHashesIncrementals,
     Terminated, vars
<1>3. CASE Start
  <2>1. AndroidInOrder'
    BY <1>3, AndroidFacts DEF Start, SecretsInv, AndroidInOrder, Applicable, AndroidSigning,
       linux_signer_sign_android_apks, linux_signer_sign_android_aab
  <2>2. HasPrompted'
    <3>1. Prompted' = Prompted
      BY <1>3 DEF Start, Prompted, SecretPlatform, PromptedUntil
    <3>2. Prompted \subseteq {s \in Secrets : SecretPlatform(s)}
      BY DEF Prompted
    <3> QED
      BY <1>3, <3>1, <3>2 DEF Start, HasPrompted
  <2> QED
    BY <1>0, <2>1, <2>2 DEF SecretsInv
<1>4. CASE Interrupt \/ StepFails
  <2>1. pos' = 0 /\ done' = done
    BY <1>4 DEF Interrupt, StepFails
  <2>2. AndroidInOrder'
    BY <2>1, AndroidFacts DEF SecretsInv, AndroidInOrder, Applicable, AndroidSigning,
       linux_signer_sign_android_apks, linux_signer_sign_android_aab
  <2>3. HasPrompted'
    BY <2>1 DEF HasPrompted
  <2> QED
    BY <1>0, <2>2, <2>3 DEF SecretsInv
<1>5. CASE SkipStep \/ FinishStep
  <2>1. /\ pos \in Steps /\ pos' = pos + 1 /\ secrets' = secrets
        /\ done \subseteq done' /\ done' \subseteq done \cup {Marker(pos)}
    BY <1>5 DEF SkipStep, FinishStep
  <2>2. Applicable(pos) => Marker(pos) \in done'
    BY <1>5 DEF SkipStep, FinishStep, AtStep
  <2>3. AndroidInOrder'
    <3>1. SUFFICES ASSUME NEW n \in AndroidSigning, Applicable(n),
                          pos' > n \/ sync_after_sign_android_apks \in done'
                   PROVE  n \in done'
      BY DEF AndroidInOrder, Applicable
    <3>2. CASE pos > n \/ sync_after_sign_android_apks \in done
      BY <2>1, <3>1, <3>2 DEF SecretsInv, AndroidInOrder
    <3>3. CASE pos = n
      BY <2>2, <3>1, <3>3, AndroidFacts
    <3>4. CASE sync_after_sign_android_apks \in done' \ done
      <4>1. pos = sync_after_sign_android_apks
        BY <2>1, <3>4, AndroidFacts
      <4>2. pos > n
        BY <4>1, AndroidFacts DEF Steps
      <4> QED
        BY <3>2, <4>2
    <3> QED
      BY <2>1, <3>1, <3>2, <3>3, <3>4, AndroidFacts DEF Steps
  <2>4. HasPrompted'
    <3>1. Prompted' \subseteq Prompted
      BY <2>1 DEF Prompted, SecretPlatform, PromptedUntil
    <3>2. pos # 0
      BY <2>1 DEF Steps
    <3> QED
      BY <2>1, <3>1, <3>2 DEF SecretsInv, HasPrompted
  <2> QED
    BY <1>0, <2>3, <2>4 DEF SecretsInv
<1> QED
  BY <1>2, <1>3, <1>4, <1>5 DEF Next, Runner

\* A step that sends a password has it, whatever runs were interrupted before and
\* whichever passwords this one was asked for, for every release.
THEOREM PasswordsAreThere == Spec => []SecretsAvailable
<1>1. Init => SecretsInv
  <2> SUFFICES ASSUME Init PROVE SecretsInv
    OBVIOUS
  <2>1. TypeOK
    BY InitType
  <2>2. AndroidInOrder
    BY AndroidFacts DEF Init, AndroidInOrder, AndroidSigning,
       linux_signer_sign_android_apks, linux_signer_sign_android_aab
  <2>3. HasPrompted
    BY DEF Init, HasPrompted
  <2> QED
    BY <2>1, <2>2, <2>3 DEF SecretsInv
<1>2. SecretsInv => SecretsAvailable
  <2> SUFFICES ASSUME SecretsInv, pos \in Steps, AtStep(pos), NEW s \in Needs(pos)
               PROVE  s \in secrets
    BY DEF SecretsAvailable
  <2>1. s \in Secrets /\ SecretPlatform(s) /\ PromptedUntil(s) \notin done
    <3>1. CASE pos \in AndroidSigning
      <4>1. s = "KSPASS"
        <5>1. pos \in {17, 18}
          BY <3>1 DEF AndroidSigning, linux_signer_sign_android_apks,
             linux_signer_sign_android_aab
        <5>2. Needs(pos) = {"KSPASS"}
          BY <5>1 DEF Needs, linux_signer_sign_android_apks, linux_signer_sign_android_aab,
             linux_signer_rcodesign_sign, linux_signer_signmars, linux_signer_gpg_sign,
             linux_signer_authenticode_signing
        <5> QED
          BY <5>2
      <4>4. "android" \in Platforms
        BY <3>1 DEF AtStep, Applicable, AndroidSigning
      <4>2. pos \notin done
        BY <3>1, AndroidFacts DEF AtStep
      <4>3. sync_after_sign_android_apks \notin done
        BY <3>1, <4>2 DEF SecretsInv, AndroidInOrder, AtStep
      <4> QED
        BY <4>1, <4>4, <4>3 DEF Secrets, SecretPlatform, PromptedUntil
    <3>2. CASE pos \notin AndroidSigning
      BY <3>2 DEF Needs, AtStep, Applicable, Marker, AndroidSigning, Secrets, SecretPlatform,
         PromptedUntil, Macos, extract_dmg, dmg2mar, sync_after_signmars,
         linux_signer_sign_android_apks, linux_signer_sign_android_aab,
         linux_signer_rcodesign_sign, linux_signer_signmars, linux_signer_gpg_sign,
         linux_signer_authenticode_signing, sync_after_authenticode_timestamping,
         sync_scripts_to_linux_signer, sync_scripts_to_linux_signer_again
    <3> QED
      BY <3>1, <3>2
  <2>2. pos # 0
    BY DEF Steps
  <2> QED
    BY <2>1, <2>2 DEF SecretsInv, HasPrompted, Prompted
<1> QED
  BY <1>1, <1>2, SecretsStep, PTL DEF Spec

-----------------------------------------------------------------------------
(* What is published.                                                      *)

LEMMA StepNumbers ==
    /\ set_time_on_signing_machine = 1 /\ wait_for_finished_build = 2
    /\ sync_builder_unsigned_to_local_signed = 3 /\ clean_build_artifacts = 4
    /\ extract_dmg = 5 /\ sync_scripts_to_linux_signer = 6
    /\ sync_before_linux_signer_rcodesign_sign = 7 /\ linux_signer_rcodesign_sign = 8
    /\ sync_linux_signer_macos_signed_tar_to_local = 9 /\ rcodesign_notary_submit = 10
    /\ gatekeeper_bundling = 11 /\ dmg2mar = 12
    /\ sync_scripts_to_linux_signer_again = 13 /\ sync_before_linux_signer_signmars = 14
    /\ linux_signer_signmars = 15 /\ sync_after_signmars = 16
    /\ linux_signer_sign_android_apks = 17 /\ linux_signer_sign_android_aab = 18
    /\ sync_after_sign_android_apks = 19 /\ linux_signer_authenticode_signing = 20
    /\ sync_after_authenticode_signing = 21 /\ authenticode_timestamping = 22
    /\ sync_after_authenticode_timestamping = 23 /\ hash_signed_bundles = 24
    /\ sync_after_hash = 25 /\ linux_signer_gpg_sign = 26 /\ sync_after_gpg_sign = 27
    /\ download_unsigned_sha256sums_gpg_signatures = 28 /\ sync_local_to_staticiforme = 29
    /\ sync_scripts_to_staticiforme = 30 /\ staticiforme_prepare_cdn_dist_upload = 31
    /\ upload_update_responses_to_staticiforme = 32
    /\ finished_signing_clean_linux_signer = 33
BY DEF set_time_on_signing_machine, wait_for_finished_build,
    sync_builder_unsigned_to_local_signed, clean_build_artifacts, extract_dmg,
    sync_scripts_to_linux_signer, sync_before_linux_signer_rcodesign_sign,
    linux_signer_rcodesign_sign, sync_linux_signer_macos_signed_tar_to_local,
    rcodesign_notary_submit, gatekeeper_bundling, dmg2mar,
    sync_scripts_to_linux_signer_again, sync_before_linux_signer_signmars,
    linux_signer_signmars, sync_after_signmars, linux_signer_sign_android_apks,
    linux_signer_sign_android_aab, sync_after_sign_android_apks,
    linux_signer_authenticode_signing, sync_after_authenticode_signing,
    authenticode_timestamping, sync_after_authenticode_timestamping,
    hash_signed_bundles, sync_after_hash, linux_signer_gpg_sign, sync_after_gpg_sign,
    download_unsigned_sha256sums_gpg_signatures, sync_local_to_staticiforme,
    sync_scripts_to_staticiforme, staticiforme_prepare_cdn_dist_upload,
    upload_update_responses_to_staticiforme, finished_signing_clean_linux_signer

\* Markers are written in the order of the steps, and the work of an interrupted
\* step is forgotten.
MarkersInOrder ==
    /\ \A n \in Steps : n < pos /\ Applicable(n) => Marker(n) \in done
    /\ \A k \in done, n \in Steps : n < k /\ Applicable(n) => Marker(n) \in done
    /\ sync_scripts_to_linux_signer_again \notin done
    /\ (pos \in Steps /\ AtStep(pos)) \/ handled = {}

\* Where a running step stands: every marker is of an earlier step, and every earlier
\* step that applies has its marker.
LEMMA StepInOrder ==
    ASSUME TypeOK, MarkersInOrder, pos \in Steps, AtStep(pos)
    PROVE  /\ pos # 13 /\ Marker(pos) = pos /\ pos \notin done
           /\ \A k \in done : k < pos
           /\ \A n \in Steps \ {13} : n < pos /\ Applicable(n) => n \in done
<1> USE StepNumbers
<1>1. \A n \in Steps \ {13} : Marker(n) = n
  BY DEF Marker
<1>2. Marker(13) = 6 /\ 6 \in Steps /\ 13 \in Steps
  BY DEF Marker, Steps
<1>3. pos # 13
  <2>1. Applicable(6)
    BY DEF Applicable
  <2> QED
    BY <1>1, <1>2, <2>1 DEF MarkersInOrder, AtStep
<1>4. Applicable(pos) /\ Marker(pos) = pos /\ pos \notin done
  BY <1>1, <1>3 DEF AtStep
<1>5. \A k \in done : k < pos
  BY <1>4 DEF MarkersInOrder, TypeOK, Steps
<1> QED
  BY <1>1, <1>3, <1>4, <1>5 DEF MarkersInOrder

\* A step that is not the work of a step leaves the files where they are and starts
\* or ends a step, with its marker only if the step is complete.
Control ==
    /\ UNCHANGED <<file, listed, tar, built>>
    /\ handled' = {}
    /\ \/ done' = done
       \/ pos \in Steps /\ AtStep(pos) /\ Complete(pos) /\ done' = done \cup {Marker(pos)}

\* The builder changes its own directory and its own list.
Background ==
    /\ UNCHANGED <<done, pos, handled, tar>>
    /\ \A h \in Hosts \ {"builder"} : file'[h] = file[h]
    /\ listed'["local"] = listed["local"]

LEMMA StepShape ==
    ASSUME TypeOK, MarkersInOrder, [Next]_vars
    PROVE  \/ Control
           \/ Background /\ (BuilderMergesFiles \/ BuilderHashesIncrementals)
           \/ StepWork /\ UNCHANGED <<done, pos>>
           \/ UNCHANGED <<file, listed, tar, built, done, pos, handled>>
<1>1. CASE BuilderMergesFiles
  <2>1. \A h \in Hosts \ {"builder"} : file'[h] = file[h]
    BY <1>1 DEF BuilderMergesFiles, TypeOK
  <2> QED
    BY <1>1, <2>1 DEF BuilderMergesFiles, Background
<1>2. CASE BuilderHashesIncrementals
  <2>1. listed'["local"] = listed["local"]
    BY <1>2 DEF BuilderHashesIncrementals, TypeOK
  <2> QED
    BY <1>2, <2>1 DEF BuilderHashesIncrementals, Background, content
<1>3. CASE Start
  BY <1>3 DEF Start, MarkersInOrder, Control, content, Steps
<1>4. CASE SkipStep
  BY <1>4 DEF SkipStep, MarkersInOrder, Control, content
<1>5. CASE FinishStep
  BY <1>5 DEF FinishStep, Control, content
<1>6. CASE StepFails \/ Interrupt
  BY <1>6 DEF StepFails, Interrupt, Control, content
<1>7. CASE Terminated \/ UNCHANGED vars
  BY <1>7 DEF Terminated, vars, content
<1>8. CASE StepWork
  BY <1>8, WorkKeepsRun
<1> QED
  BY <1>1, <1>2, <1>3, <1>4, <1>5, <1>6, <1>7, <1>8 DEF Next, Builder, Runner

LEMMA WorkIsAtStep ==
    ASSUME StepWork
    PROVE  pos \in Steps /\ AtStep(pos)
<1> USE StepNumbers DEF Steps, AtStep
<1>1. \A n \in Steps : AtStep(n) => pos \in Steps /\ AtStep(pos)
  OBVIOUS
<1>2. CASE \E n \in Steps : AtStep(n)
  BY <1>1, <1>2
<1>3. CASE SyncLocalToLinuxSigner \/ SyncLinuxSignerToLocal
  BY <1>3 DEF SyncLocalToLinuxSigner, LocalToSignerSteps, SyncLinuxSignerToLocal,
     SignerToLocalSteps
<1> QED
  BY <1>2, <1>3 DEF StepWork, SyncBuilderUnsignedToLocalSigned, CleanBuildArtifacts,
     ExtractDmg, LinuxSignerRcodesignSign, SyncLinuxSignerMacosSignedTarToLocal,
     RcodesignNotarySubmit, GatekeeperBundling, Dmg2mar, LinuxSignerSignmars,
     HashSignedBundles, LinuxSignerGpgSign, LinuxSignerSignAndroid,
     LinuxSignerAuthenticodeSigning, AuthenticodeTimestamping, SyncLocalToStaticiforme,
     StaticiformePrepareCdnDistUpload, UploadUpdateResponses,
     FinishedSigningCleanLinuxSigner

LEMMA OrderStep ==
    ASSUME TypeOK, MarkersInOrder, [Next]_vars
    PROVE  MarkersInOrder'
<1> USE StepNumbers
<1>1. CASE UNCHANGED <<done, pos, handled>>
  BY <1>1 DEF MarkersInOrder, AtStep, Applicable, Marker
<1>2. CASE StepWork
  <2>1. UNCHANGED <<done, pos>>
    BY <1>2, WorkKeepsRun
  <2>2. pos \in Steps /\ AtStep(pos)
    BY <1>2, WorkIsAtStep
  <2> QED
    BY <2>1, <2>2 DEF MarkersInOrder, AtStep, Applicable, Marker
<1>3. CASE Start \/ StepFails \/ Interrupt
  <2>1. /\ pos' \in {0, 1} /\ done' = done /\ handled' = {}
    BY <1>3 DEF Start, StepFails, Interrupt, MarkersInOrder, Steps
  <2>2. \A n \in Steps : ~(n < pos')
    BY <2>1 DEF Steps
  <2> QED
    BY <2>1, <2>2 DEF MarkersInOrder, AtStep, Applicable, Marker
<1>4. CASE SkipStep \/ FinishStep
  <2>1. /\ pos \in Steps /\ pos' = pos + 1 /\ handled' = {}
        /\ done \subseteq done' /\ done' \subseteq done \cup {Marker(pos)}
    BY <1>4 DEF SkipStep, FinishStep, MarkersInOrder
  <2>2. Applicable(pos) => Marker(pos) \in done'
    BY <1>4 DEF SkipStep, FinishStep, AtStep
  <2>3. \A n \in Steps : n < pos' /\ Applicable(n) => Marker(n) \in done'
    BY <2>1, <2>2 DEF MarkersInOrder, Steps
  <2>4. Marker(pos) \in Steps /\ Marker(pos) <= pos /\ Marker(pos) # 13
    BY <2>1 DEF Marker, Steps
  <2>5. \A k \in done', n \in Steps : n < k /\ Applicable(n) => Marker(n) \in done'
    BY <2>1, <2>3, <2>4 DEF MarkersInOrder, Steps
  <2>6. 13 \notin done'
    BY <2>1, <2>4 DEF MarkersInOrder
  <2> QED
    BY <2>1, <2>3, <2>5, <2>6 DEF MarkersInOrder, AtStep, Applicable, Marker
<1>5. CASE Builder \/ Terminated \/ UNCHANGED vars
  BY <1>1, <1>5 DEF Builder, BuilderMergesFiles, BuilderHashesIncrementals, Terminated, vars
<1> QED
  BY <1>2, <1>3, <1>4, <1>5 DEF Next, Runner

-----------------------------------------------------------------------------
(* What the work of a step does to one file, machine by machine.           *)

Path == {"local", "signer", "dist"}

\* The file f of host h becomes c and is recorded as handled, nothing else of f changes.
Touch(f, h, c) ==
    /\ file'[h][f] = c
    /\ \A g \in Path \ {h} : file'[g][f] = file[g][f]
    /\ f \in handled'
    /\ "rm" \in handled' => "rm" \in handled

\* The file f of host h is removed by a step that does not handle it one by one.
Drop(f, h) ==
    /\ file'[h][f] = Absent
    /\ \A g \in Path \ {h} : file'[g][f] = file[g][f]
    /\ f \in handled' => f \in handled

Untouched(f) ==
    /\ \A g \in Path : file'[g][f] = file[g][f]
    /\ f \in handled' => f \in handled \/ pos \in {26, 31}
    /\ "rm" \in handled' /\ "rm" \notin handled =>
         \/ pos = 12 /\ f \notin listed["local"]
         \/ pos = 8 /\ f # Hfs
         \/ pos = 33

Moved(f) ==
    \/ pos = 3 /\ Present("builder", f) /\ Touch(f, "local", file["builder"][f])
    \/ pos \in {7, 14, 23, 25} /\ Present("local", f) /\ Touch(f, "signer", file["local"][f])
    \/ pos \in {16, 19, 21, 27} /\ Present("signer", f) /\ Touch(f, "local", file["signer"][f])
    \/ pos = 29 /\ Present("local", f) /\ Touch(f, "dist", file["local"][f])

Removed(f) ==
    \/ pos = 4 /\ Kind[f] = "test" /\ Touch(f, "local", Absent)
    \/ pos = 5 /\ f = Dmg /\ Touch(f, "local", Absent)
    \/ pos = 8 /\ f = Hfs /\ Drop(f, "signer")
    \/ pos = 11 /\ f = Hfs /\ Touch(f, "local", Absent)
    \/ pos = 12 /\ f \in listed["local"] /\ "rm" \notin handled /\ Drop(f, "local")
    \/ pos = 33 /\ Drop(f, "signer")

FilesMade(f) ==
    \/ /\ pos = 5 /\ f = Hfs
       /\ Touch(f, "local", Rewrite(file["local"][f], file["local"][Dmg].marks))
    \/ /\ pos = 11 /\ f = Dmg /\ tar["stapled"] # Absent
       /\ Touch(f, "local", Rewrite(file["local"][f], tar["stapled"].marks))
    \/ /\ pos = 12 /\ Kind[f] = "macmar" /\ Present("local", Dmg)
       /\ Touch(f, "local", Rewrite(file["local"][f], file["local"][Dmg].marks))
    \/ /\ pos = 12 /\ Kind[f] = "macinc" /\ "rm" \in handled
       /\ Touch(f, "local", IF Present("local", f) THEN file["local"][f]
                            ELSE Rewrite(Absent, file["local"][Dmg].marks))
    \/ /\ pos = 17 /\ Kind[f] = "apk"
       /\ Touch(f, "signer", Rewrite(file["signer"][f], {"apk"}))

SignedHere(f) ==
    \/ /\ pos = 15 /\ f \in Mars /\ Present("signer", f)
       /\ Touch(f, "signer", IF "mar" \in file["signer"][f].marks THEN file["signer"][f]
                             ELSE Rewrite(file["signer"][f],
                                          file["signer"][f].marks \cup {"mar"}))
    \/ /\ pos = 18 /\ Kind[f] = "aab" /\ Present("signer", f)
       /\ Touch(f, "signer", Rewrite(file["signer"][f], {"apk"}))
    \/ /\ pos = 20 /\ Kind[f] = "exe" /\ Present("signer", f)
       /\ Touch(f, "signer", Rewrite(file["signer"][f], {"authenticode"}))
    \/ /\ pos = 22 /\ Kind[f] = "exe" /\ Present("local", f)
       /\ Touch(f, "local", Rewrite(file["local"][f],
                                    file["local"][f].marks \cup {"timestamp"}))

\* The work of a step on the file f.
Work(f) ==
    /\ UNCHANGED <<done, pos>>
    /\ handled \subseteq handled'
    /\ pos \in Steps /\ AtStep(pos)
    /\ pos # 3 => listed' = listed
    /\ Untouched(f) \/ Moved(f) \/ Removed(f) \/ FilesMade(f) \/ SignedHere(f)

\* A piece of work that writes c over the file g of host h either touches f or leaves it.
LEMMA OneFile ==
    ASSUME TypeOK, NEW f \in Files, NEW g \in Files, NEW h \in Path, NEW c,
           file' = Put(h, g, c), Did(g)
    PROVE  IF f = g THEN Touch(f, h, c) ELSE Untouched(f)
<1>1. g # "rm"
  BY FilesAssumption DEF Labels
<1>2. file \in [Hosts -> [Files -> Content]] /\ Path \subseteq Hosts
  BY DEF TypeOK, Path, Hosts
<1>3. \A k \in Path : file'[k][f] = IF k = h /\ f = g THEN c ELSE file[k][f]
  BY <1>2 DEF Put
<1>4. handled' = handled \cup {g}
  BY DEF Did
<1> QED
  BY <1>1, <1>3, <1>4 DEF Touch, Untouched

\* Work recorded under f that leaves every file of the path as it is.
LEMMA NoFile ==
    ASSUME NEW f \in Files, NEW u, Did(u), file' = file, u # "rm", u # f
    PROVE  Untouched(f)
BY DEF Did, Untouched

LEMMA RsyncWork ==
    ASSUME TypeOK, NEW f \in Files, NEW src \in Hosts, NEW dst \in Path, Rsync(src, dst)
    PROVE  Untouched(f) \/ (Present(src, f) /\ Touch(f, dst, file[src][f]))
<1>1. PICK u \in Transferable(src) \ handled : Transfer(src, dst, u) /\ Did(u)
  BY DEF Rsync
<1>2. CASE u = "sums"
  <2>1. u # f /\ u # "rm" /\ file' = file
    BY <1>1, <1>2, FilesAssumption DEF Labels, Transfer
  <2> QED
    BY <1>1, <2>1, NoFile
<1>3. CASE u # "sums"
  <2>1. u \in Files /\ Present(src, u)
    BY <1>1, <1>3 DEF Transferable
  <2>2. file' = Put(dst, u, file[src][u])
    BY <1>1, <1>3 DEF Transfer
  <2> QED
    BY <1>1, <2>1, <2>2, OneFile
<1> QED
  BY <1>2, <1>3

LEMMA KindFacts ==
    ASSUME NEW f \in Files
    PROVE  /\ f = Dmg <=> Kind[f] = "dmg"
           /\ f = Hfs <=> Kind[f] = "hfs"
           /\ f \in Mars <=> Kind[f] \in {"mar", "macmar", "macinc"}
           /\ Dmg \in Files /\ Hfs \in Files
           /\ Kind[f] \in Kinds
           /\ f # "rm"
BY FilesAssumption DEF Mars, Of, Labels

\* Every piece of work is one of these.
LEMMA WorkOnFile ==
    ASSUME TypeOK, StepWork, NEW f \in Files
    PROVE  Work(f)
<1> USE StepNumbers, KindFacts
<1>0. /\ "local" \in Path /\ "signer" \in Path /\ "dist" \in Path /\ Path \subseteq Hosts
      /\ "builder" \in Hosts
      /\ "sums" # "rm" /\ "tar" # "rm"
      /\ \A u \in Labels : u # f
  BY FilesAssumption DEF Path, Hosts
<1>1. pos \in Steps /\ AtStep(pos) /\ UNCHANGED <<done, pos>>
  BY WorkIsAtStep, WorkKeepsRun
<1>2. ASSUME handled \subseteq handled', pos # 3 => listed' = listed,
             Untouched(f) \/ Moved(f) \/ Removed(f) \/ FilesMade(f) \/ SignedHere(f)
      PROVE  Work(f)
  BY <1>1, <1>2 DEF Work
<1>3. \A u : Did(u) => handled \subseteq handled' /\ handled' = handled \cup {u}
  BY DEF Did
<1>4. \A src \in Hosts, dst \in Path : Rsync(src, dst) => handled \subseteq handled'
  BY <1>3 DEF Rsync
<1>5. CASE SyncBuilderUnsignedToLocalSigned
  BY <1>0, <1>2, <1>4, <1>5, RsyncWork DEF SyncBuilderUnsignedToLocalSigned, AtStep, Moved
<1>6. CASE SyncLocalToLinuxSigner
  <2>1. pos \in {7, 14, 23, 25} /\ Rsync("local", "signer") /\ listed' = listed
    BY <1>6 DEF SyncLocalToLinuxSigner, LocalToSignerSteps
  <2> QED
    BY <1>0, <1>2, <1>4, <2>1, RsyncWork DEF Moved
<1>7. CASE SyncLinuxSignerToLocal
  <2>1. pos \in {16, 19, 21, 27} /\ Rsync("signer", "local") /\ listed' = listed
    BY <1>7 DEF SyncLinuxSignerToLocal, SignerToLocalSteps
  <2> QED
    BY <1>0, <1>2, <1>4, <2>1, RsyncWork DEF Moved
<1>8. CASE SyncLocalToStaticiforme
  <2>1. pos = 29 /\ Rsync("local", "dist") /\ listed' = listed
    BY <1>8 DEF SyncLocalToStaticiforme, AtStep
  <2> QED
    BY <1>0, <1>2, <1>4, <2>1, RsyncWork DEF Moved
<1>9. CASE CleanBuildArtifacts
  <2>1. PICK g \in Of({"test"}) \ handled : file' = Put("local", g, Absent) /\ Did(g)
    BY <1>9 DEF CleanBuildArtifacts
  <2>2. pos = 4 /\ listed' = listed
    BY <1>9 DEF CleanBuildArtifacts, AtStep, OnlyFiles
  <2>3. g \in Files /\ Kind[g] = "test"
    BY DEF Of
  <2>4. IF f = g THEN Touch(f, "local", Absent) ELSE Untouched(f)
    BY <1>0, <2>1, <2>3, OneFile
  <2> QED
    BY <1>2, <1>3, <2>1, <2>2, <2>3, <2>4 DEF Removed
<1>10. CASE ExtractDmg
  <2>1. pos = 5 /\ listed' = listed
    BY <1>10 DEF ExtractDmg, AtStep, OnlyFiles
  <2> DEFINE c == Rewrite(file["local"][Hfs], file["local"][Dmg].marks)
  <2>3. \/ file' = Put("local", Hfs, c) /\ Did(Hfs)
        \/ file' = Put("local", Dmg, Absent) /\ Did(Dmg)
    BY <1>10 DEF ExtractDmg
  <2>4. CASE file' = Put("local", Hfs, c) /\ Did(Hfs)
    <3>1. IF f = Hfs THEN Touch(f, "local", c) ELSE Untouched(f)
      <4> HIDE DEF c
      <4> QED
        BY <1>0, <2>4, OneFile
    <3> QED
      BY <1>2, <1>3, <2>1, <2>4, <3>1 DEF FilesMade
  <2>5. CASE file' = Put("local", Dmg, Absent) /\ Did(Dmg)
    <3>1. IF f = Dmg THEN Touch(f, "local", Absent) ELSE Untouched(f)
      BY <1>0, <2>5, OneFile
    <3> QED
      BY <1>2, <1>3, <2>1, <2>5, <3>1 DEF Removed
  <2> QED
    BY <2>3, <2>4, <2>5
<1>11. CASE LinuxSignerRcodesignSign
  <2>1. pos = 8 /\ listed' = listed
    BY <1>11 DEF LinuxSignerRcodesignSign, AtStep
  <2>2. CASE file' = file /\ Did("tar")
    BY <1>0, <1>2, <1>3, <2>1, <2>2, NoFile, LabelNames
  <2>3. CASE file' = Put("signer", Hfs, Absent) /\ Did("rm")
    <3>1. \A k \in Path : file'[k][f] = IF k = "signer" /\ f = Hfs THEN Absent ELSE file[k][f]
      BY <1>0, <2>3 DEF Put, TypeOK
    <3>2. f \in handled' => f \in handled
      BY <1>3, <2>3
    <3> QED
      BY <1>0, <1>2, <1>3, <2>1, <2>3, <3>1, <3>2 DEF Removed, Drop, Untouched
  <2> QED
    BY <1>11, <2>2, <2>3 DEF LinuxSignerRcodesignSign
<1>12. CASE \/ SyncLinuxSignerMacosSignedTarToLocal \/ RcodesignNotarySubmit
            \/ HashSignedBundles \/ UploadUpdateResponses
  <2>1. /\ pos # 3 /\ listed' = listed /\ file' = file
        /\ \E u \in {"tar", "staple", "sums", "untar", "commit", "push"} : Did(u)
    BY <1>12 DEF SyncLinuxSignerMacosSignedTarToLocal, RcodesignNotarySubmit,
       HashSignedBundles, UploadUpdateResponses, AtStep
  <2>2. \A u \in {"tar", "staple", "sums", "untar", "commit", "push"} : u \in Labels /\ u # "rm"
    BY LabelNames
  <2> QED
    BY <1>0, <1>2, <1>3, <2>1, <2>2, NoFile
<1>13. CASE GatekeeperBundling
  <2>1. pos = 11 /\ listed' = listed
    BY <1>13 DEF GatekeeperBundling, AtStep, OnlyFiles
  <2>2. CASE /\ tar["stapled"] # Absent /\ Did(Dmg)
             /\ file' = Put("local", Dmg, Rewrite(file["local"][Dmg], tar["stapled"].marks))
    <3>1. IF f = Dmg THEN Touch(f, "local", Rewrite(file["local"][Dmg], tar["stapled"].marks))
                     ELSE Untouched(f)
      BY <1>0, <2>2, OneFile
    <3> QED
      BY <1>2, <1>3, <2>1, <2>2, <3>1 DEF FilesMade
  <2>3. CASE file' = Put("local", Hfs, Absent) /\ Did(Hfs)
    <3>1. IF f = Hfs THEN Touch(f, "local", Absent) ELSE Untouched(f)
      BY <1>0, <2>3, OneFile
    <3> QED
      BY <1>2, <1>3, <2>1, <2>3, <3>1 DEF Removed
  <2> QED
    BY <1>13, <2>2, <2>3 DEF GatekeeperBundling
<1>14. CASE Dmg2mar
  <2>1. pos = 12 /\ listed' = listed
    BY <1>14 DEF Dmg2mar, AtStep, OnlyFiles
  <2>2. ASSUME NEW g \in Of({"macmar"}) \ handled, Present("local", Dmg), Did(g),
               file' = Put("local", g, Rewrite(file["local"][g], file["local"][Dmg].marks))
        PROVE  Work(f)
    <3>1. g \in Files /\ Kind[g] = "macmar"
      BY DEF Of
    <3>2. IF f = g THEN Touch(f, "local", Rewrite(file["local"][g], file["local"][Dmg].marks))
                   ELSE Untouched(f)
      BY <1>0, <2>2, <3>1, OneFile
    <3> QED
      BY <1>2, <1>3, <2>1, <2>2, <3>1, <3>2 DEF FilesMade
  <2>3. ASSUME "rm" \notin handled, Did("rm"),
               file' = [file EXCEPT !["local"] =
                          [g \in Files |-> IF g \in listed["local"] THEN Absent ELSE @[g]]]
        PROVE  Work(f)
    <3>1. \A k \in Path : file'[k][f] = IF k = "local" /\ f \in listed["local"]
                                        THEN Absent ELSE file[k][f]
      BY <1>0, <2>3 DEF TypeOK
    <3>2. f \in handled' => f \in handled
      BY <1>3, <2>3
    <3> QED
      BY <1>0, <1>2, <1>3, <2>1, <2>3, <3>1, <3>2 DEF Removed, Drop, Untouched
  <2>4. ASSUME NEW g \in Of({"macinc"}) \ handled, "rm" \in handled, Did(g),
               file' = IF Present("local", g) THEN file
                       ELSE Put("local", g, Rewrite(Absent, file["local"][Dmg].marks))
        PROVE  Work(f)
    <3>1. g \in Files /\ Kind[g] = "macinc"
      BY DEF Of
    <3>2. file = Put("local", g, file["local"][g])
      BY <1>0, <3>1 DEF Put, TypeOK
    <3>3. file' = Put("local", g, IF Present("local", g) THEN file["local"][g]
                                  ELSE Rewrite(Absent, file["local"][Dmg].marks))
      BY <2>4, <3>2
    <3>4. IF f = g THEN Touch(f, "local", IF Present("local", g) THEN file["local"][g]
                                          ELSE Rewrite(Absent, file["local"][Dmg].marks))
                   ELSE Untouched(f)
      BY <1>0, <2>4, <3>1, <3>3, OneFile
    <3> QED
      BY <1>2, <1>3, <2>1, <2>4, <3>1, <3>4 DEF FilesMade
  <2> QED
    BY <1>14, <2>2, <2>3, <2>4 DEF Dmg2mar
<1>15. CASE LinuxSignerSignmars
  <2>1. pos = 15 /\ listed' = listed
    BY <1>15 DEF LinuxSignerSignmars, AtStep, OnlyFiles
  <2>2. PICK g \in Mars \ handled :
          /\ Present("signer", g) /\ Did(g)
          /\ file' = IF "mar" \in file["signer"][g].marks THEN file
                     ELSE Put("signer", g, Rewrite(file["signer"][g],
                                                   file["signer"][g].marks \cup {"mar"}))
    BY <1>15 DEF LinuxSignerSignmars
  <2>3. g \in Files
    BY DEF Mars, Of
  <2>4. file = Put("signer", g, file["signer"][g])
    BY <1>0, <2>3 DEF Put, TypeOK
  <2> DEFINE c == IF "mar" \in file["signer"][g].marks THEN file["signer"][g]
                  ELSE Rewrite(file["signer"][g], file["signer"][g].marks \cup {"mar"})
  <2>5. file' = Put("signer", g, c)
    BY <2>2, <2>4
  <2>6. IF f = g THEN Touch(f, "signer", c) ELSE Untouched(f)
    <3> HIDE DEF c
    <3> QED
      BY <1>0, <2>2, <2>3, <2>5, OneFile
  <2> QED
    BY <1>2, <1>3, <2>1, <2>2, <2>6 DEF SignedHere
<1>16. ASSUME NEW k \in {"apk", "aab"}, LinuxSignerSignAndroid(k) PROVE Work(f)
  <2>1. PICK g \in Of({k}) \ handled :
          file' = Put("signer", g, Rewrite(file["signer"][g], {"apk"})) /\ Did(g)
    BY <1>16 DEF LinuxSignerSignAndroid
  <2>2. g \in Files /\ Kind[g] = k
    BY DEF Of
  <2>3. pos = (IF k = "apk" THEN 17 ELSE 18) /\ listed' = listed
    BY <1>16 DEF LinuxSignerSignAndroid, AtStep, OnlyFiles
  <2>4. k = "aab" => Present("signer", g)
    BY <1>16, <2>2 DEF LinuxSignerSignAndroid, Of
  <2>5. IF f = g THEN Touch(f, "signer", Rewrite(file["signer"][g], {"apk"}))
                 ELSE Untouched(f)
    BY <1>0, <2>1, <2>2, OneFile
  <2> QED
    BY <1>2, <1>3, <2>1, <2>2, <2>3, <2>4, <2>5 DEF FilesMade, SignedHere
<1>17. CASE LinuxSignerAuthenticodeSigning
  <2>1. pos = 20 /\ listed' = listed
    BY <1>17 DEF LinuxSignerAuthenticodeSigning, AtStep, OnlyFiles
  <2>2. PICK g \in Of({"exe"}) \ handled :
          /\ Present("signer", g) /\ Did(g)
          /\ file' = Put("signer", g, Rewrite(file["signer"][g], {"authenticode"}))
    BY <1>17 DEF LinuxSignerAuthenticodeSigning
  <2>3. g \in Files /\ Kind[g] = "exe"
    BY DEF Of
  <2>4. IF f = g THEN Touch(f, "signer", Rewrite(file["signer"][g], {"authenticode"}))
                 ELSE Untouched(f)
    BY <1>0, <2>2, <2>3, OneFile
  <2> QED
    BY <1>2, <1>3, <2>1, <2>2, <2>3, <2>4 DEF SignedHere
<1>18. CASE AuthenticodeTimestamping
  <2>1. pos = 22 /\ listed' = listed
    BY <1>18 DEF AuthenticodeTimestamping, AtStep, OnlyFiles
  <2>2. PICK g \in Of({"exe"}) \ handled :
          /\ Present("local", g) /\ Did(g)
          /\ file' = Put("local", g, Rewrite(file["local"][g],
                                             file["local"][g].marks \cup {"timestamp"}))
    BY <1>18 DEF AuthenticodeTimestamping
  <2>3. g \in Files /\ Kind[g] = "exe"
    BY DEF Of
  <2>4. IF f = g THEN Touch(f, "local", Rewrite(file["local"][g],
                                                file["local"][g].marks \cup {"timestamp"}))
                 ELSE Untouched(f)
    BY <1>0, <2>2, <2>3, OneFile
  <2> QED
    BY <1>2, <1>3, <2>1, <2>2, <2>3, <2>4 DEF SignedHere
<1>19. CASE LinuxSignerGpgSign
  <2>1. pos = 26 /\ listed' = listed /\ file' = file
    BY <1>19 DEF LinuxSignerGpgSign, AtStep
  <2>2. \E u \in GpgSigned \cup {"sums"} : Did(u)
    BY <1>19 DEF LinuxSignerGpgSign
  <2>3. PICK u \in GpgSigned \cup {"sums"} : Did(u)
    BY <2>2
  <2>4. u # "rm"
    BY FilesAssumption DEF GpgSigned, Of, Labels
  <2> QED
    BY <1>2, <1>3, <2>1, <2>3, <2>4 DEF Untouched
<1>20. CASE StaticiformePrepareCdnDistUpload
  <2>1. pos = 31 /\ listed' = listed
    BY <1>20 DEF StaticiformePrepareCdnDistUpload, AtStep
  <2>2. \/ file' = file
        \/ \E g \in Files : file' = Put("cdn", g, file["dist"][g])
    BY <1>20 DEF StaticiformePrepareCdnDistUpload, Mars, Of
  <2>3. \A k \in Path : file'[k][f] = file[k][f]
    <3>1. \A k \in Path : k # "cdn"
      BY DEF Path
    <3> QED
      BY <1>0, <2>2, <3>1 DEF Put, TypeOK
  <2>4. PICK u \in Files \cup {"cdn_dir"} : Did(u)
    BY <1>20 DEF StaticiformePrepareCdnDistUpload, Mars, Of
  <2>5. u # "rm"
    BY FilesAssumption DEF Labels
  <2> QED
    BY <1>2, <1>3, <2>1, <2>3, <2>4, <2>5 DEF Untouched
<1>21. CASE FinishedSigningCleanLinuxSigner
  <2>1. pos = 33 /\ listed' = listed /\ Did("rm")
    BY <1>21 DEF FinishedSigningCleanLinuxSigner, AtStep
  <2>2. \/ file' = file
        \/ \E g \in Files : file' = Put("signer", g, Absent)
    BY <1>21 DEF FinishedSigningCleanLinuxSigner, Transferable
  <2>3. \/ \A k \in Path : file'[k][f] = file[k][f]
        \/ \A k \in Path : file'[k][f] = IF k = "signer" THEN Absent ELSE file[k][f]
    <3>1. CASE file' = file
      BY <3>1
    <3>2. ASSUME NEW g \in Files, file' = Put("signer", g, Absent)
          PROVE  \A k \in Path : file'[k][f] = IF k = "signer" /\ f = g
                                               THEN Absent ELSE file[k][f]
      BY <1>0, <3>2 DEF Put, TypeOK
    <3> QED
      BY <2>2, <3>1, <3>2
  <2>4. f \in handled' => f \in handled
    BY <1>3, <2>1
  <2> QED
    BY <1>0, <1>2, <1>3, <2>1, <2>3, <2>4 DEF Removed, Drop, Untouched
<1> QED
  BY <1>5, <1>6, <1>7, <1>8, <1>9, <1>10, <1>11, <1>12, <1>13, <1>14, <1>15, <1>16,
     <1>17, <1>18, <1>19, <1>20, <1>21 DEF StepWork

-----------------------------------------------------------------------------
(* What every step does to one file.                                       *)

\* Step n is over for the file f: it has its marker, or it is running and f is handled.
Reached(n, f) == n \in done \/ (pos = n /\ f \in handled)

\* The file is not touched, and a step starts, ends or stops.
Between(f) ==
    /\ \A g \in Path : file'[g][f] = file[g][f]
    /\ listed'["local"] = listed["local"]
    /\ handled' = {}
    /\ \/ done' = done
       \/ pos \in Steps /\ AtStep(pos) /\ Complete(pos) /\ done' = done \cup {pos}

\* Nothing that concerns the file happens.
Quiet(f) ==
    /\ \A g \in Path : file'[g][f] = file[g][f]
    /\ listed'["local"] = listed["local"]
    /\ UNCHANGED <<done, pos, handled>>

LEMMA FileStep ==
    ASSUME TypeOK, MarkersInOrder, [Next]_vars, NEW f \in Files
    PROVE  Between(f) \/ Quiet(f) \/ Work(f)
<1>1. CASE Control
  BY <1>1, StepInOrder DEF Control, Between
<1>2. CASE Background
  <2>1. \A g \in Path : g \in Hosts \ {"builder"}
    BY DEF Path, Hosts
  <2> QED
    BY <1>2, <2>1 DEF Background, Quiet
<1>3. CASE UNCHANGED <<file, listed, tar, built, done, pos, handled>>
  BY <1>3 DEF Quiet
<1> QED
  BY <1>1, <1>2, <1>3, StepShape, WorkOnFile

\* What a step has done when it gets its marker.
LEMMA CompleteMeans ==
    ASSUME pos \in Steps, Complete(pos), NEW f \in Files
    PROVE  /\ pos = 3 /\ Present("builder", f) => f \in handled
           /\ pos = 4 /\ Kind[f] = "test" => f \in handled
           /\ pos = 5 => {Dmg, Hfs} \subseteq handled
           /\ pos = 8 => "rm" \in handled
           /\ pos = 11 => {Dmg, Hfs} \subseteq handled
           /\ pos = 12 /\ Kind[f] \in {"macmar", "macinc"} => f \in handled
           /\ pos \in {14, 23, 29} /\ Present("local", f) => f \in handled
           /\ pos \in {16, 19, 21} /\ Present("signer", f) => f \in handled
           /\ pos = 15 /\ f \in Mars /\ Present("signer", f) => f \in handled
           /\ pos = 18 /\ Kind[f] = "aab" => f \in handled
           /\ pos = 20 /\ Kind[f] = "exe" /\ Present("signer", f) => f \in handled
           /\ pos = 22 /\ Kind[f] = "exe" /\ Present("local", f) => f \in handled
<1> USE StepNumbers DEF Complete, Of
<1>1. /\ pos = 3 /\ Present("builder", f) => f \in handled
      /\ pos = 4 /\ Kind[f] = "test" => f \in handled
      /\ pos = 5 => {Dmg, Hfs} \subseteq handled
  BY DEF LocalToSignerSteps, SignerToLocalSteps, Transferable
<1>2. pos \in {8, 11, 12} => /\ pos = 8 => "rm" \in handled
                             /\ pos = 11 => {Dmg, Hfs} \subseteq handled
                             /\ pos = 12 /\ Kind[f] \in {"macmar", "macinc"} => f \in handled
  BY DEF LocalToSignerSteps, SignerToLocalSteps
<1>3. pos \in {14, 23, 29} /\ Present("local", f) => f \in handled
  BY DEF LocalToSignerSteps, SignerToLocalSteps, Transferable
<1>4. pos \in {16, 19, 21} /\ Present("signer", f) => f \in handled
  BY DEF LocalToSignerSteps, SignerToLocalSteps, Transferable
<1>5. pos = 15 /\ f \in Mars /\ Present("signer", f) => f \in handled
  BY DEF LocalToSignerSteps, SignerToLocalSteps
<1>6. pos = 18 /\ Kind[f] = "aab" => f \in handled
  BY DEF LocalToSignerSteps, SignerToLocalSteps
<1>7. pos \in {20, 22} => /\ pos = 20 /\ Kind[f] = "exe" /\ Present("signer", f) => f \in handled
                          /\ pos = 22 /\ Kind[f] = "exe" /\ Present("local", f) => f \in handled
  BY DEF LocalToSignerSteps, SignerToLocalSteps
<1> QED
  BY <1>1, <1>2, <1>3, <1>4, <1>5, <1>6, <1>7

\* The steps that apply to the files of a kind.
LEMMA KindSteps ==
    ASSUME NEW f \in Files
    PROVE  /\ \A n \in {4, 6, 7, 14, 24, 25, 26, 27, 29} : Applicable(n)
           /\ Kind[f] \in {"mar", "macmar", "macinc"} => Applicable(15) /\ Applicable(16)
           /\ Kind[f] \in {"macmar", "macinc"} =>
                /\ Macos /\ Applicable(3)
           /\ Macos => \A n \in {5, 8, 9, 10, 11, 12} : Applicable(n)
           /\ Kind[f] = "exe" => \A n \in {20, 21, 22, 23} : Applicable(n)
           /\ Kind[f] = "aab" => Applicable(18) /\ Applicable(19)
           /\ Kind[f] = "apk" => Applicable(17) /\ Applicable(19)
<1> USE StepNumbers
<1>1. f \in Files \ {Dmg, Hfs} =>
        /\ KindPlatform(Kind[f]) \in Platforms \cup {"any"}
        /\ Kind[f] = "aab" => Project = "torvpn"
  BY KindAssumption
<1>2. Kind[f] \in {"mar", "macmar", "macinc", "exe", "apk", "aab"} => f \in Files \ {Dmg, Hfs}
  BY KindFacts
<1>3. /\ Kind[f] \in {"macmar", "macinc"} => "macos" \in Platforms
      /\ Kind[f] = "mar" => "desktop" \in Platforms
      /\ Kind[f] = "exe" => "windows" \in Platforms
      /\ Kind[f] = "aab" => "android" \in Platforms /\ Project = "torvpn"
      /\ Kind[f] = "apk" => "android" \in Platforms
  BY <1>1, <1>2, ProjectAssumption DEF KindPlatform
<1>4. "macos" \in Platforms => "desktop" \in Platforms /\ Project # "torvpn"
  BY ProjectAssumption
<1>5. \A n \in {4, 6, 7, 14, 24, 25, 26, 27, 29} : Applicable(n)
  BY DEF Applicable
<1>6. "desktop" \in Platforms => Applicable(15) /\ Applicable(16)
  BY DEF Applicable
<1>7. Macos => Applicable(3) /\ \A n \in {5, 8, 9, 10, 11, 12} : Applicable(n)
  BY <1>4 DEF Applicable, Macos
<1>8. "windows" \in Platforms => \A n \in {20, 21, 22, 23} : Applicable(n)
  BY DEF Applicable
<1>9. "android" \in Platforms /\ Project = "torvpn" => Applicable(18) /\ Applicable(19)
  BY DEF Applicable
<1>10. "android" \in Platforms => Applicable(17) /\ Applicable(19)
  BY DEF Applicable
<1> QED
  BY <1>3, <1>4, <1>5, <1>6, <1>7, <1>8, <1>9, <1>10 DEF Macos

\* c is no file, or it carries the marks ms.
Has(c, ms) == c # Absent => ms \subseteq c.marks
Just(c, ms) == c # Absent => c.marks = ms

LEMMA RewriteFacts ==
    ASSUME NEW c \in Content, NEW ms
    PROVE  Rewrite(c, ms) # Absent /\ Rewrite(c, ms).marks = ms
BY DEF Content, Rewrite, Absent

-----------------------------------------------------------------------------
(* The signatures of one file on its way to the web server.                *)

\* The step of the signer that puts the mark m on files of f's kind, and the step
\* that brings them back.
SignedBy(f, m, s, l) ==
    \/ f \in Mars /\ m = "mar" /\ s = 15 /\ l = 16
    \/ Kind[f] = "exe" /\ m = "authenticode" /\ s = 20 /\ l = 21
    \/ Kind[f] = "aab" /\ m = "apk" /\ s = 18 /\ l = 19

\* From the step that signs it on, the signer's copy is signed; from the step that
\* brings it back on, the local one is; between the two the signer has all there is.
SignedOf(f, m, s, l) ==
    /\ Reached(s, f) => Has(file["signer"][f], {m})
    /\ Reached(l, f) => Has(file["local"][f], {m})
    /\ Reached(14, f) /\ l \notin done /\ Present("local", f) => Present("signer", f)
    /\ Has(file["dist"][f], {m})

\* The incrementals the unsigned list names are those of the release.
ListedOK == \A h \in {"builder", "local"} : listed[h] \subseteq Of({"macinc"})

LEMMA SignedStep ==
    ASSUME TypeOK, MarkersInOrder, ListedOK, [Next]_vars,
           NEW f \in Files, NEW m, NEW s, NEW l, SignedBy(f, m, s, l), SignedOf(f, m, s, l)
    PROVE  SignedOf(f, m, s, l)'
<1>0. "local" \in Path /\ "signer" \in Path /\ "dist" \in Path
  BY DEF Path
<1>1. /\ s \in Steps \ {13} /\ l \in Steps \ {13} /\ 14 < s /\ s < l /\ l < 22
      /\ Applicable(s) /\ Applicable(l)
      /\ Kind[f] \notin {"dmg", "hfs", "apk", "test"}
      /\ s \notin {14, 16, 17, 19, 21} /\ l \in {16, 19, 21}
  BY KindFacts, KindSteps DEF SignedBy, Steps
<1>2. pos \in Steps /\ AtStep(pos) =>
        /\ s \in done => s < pos
        /\ l \in done => l < pos
        /\ 14 \in done => 14 < pos
        /\ s < pos => s \in done
        /\ l < pos => l \in done
        /\ pos \notin done
  BY <1>1, StepInOrder DEF Steps
<1>3. CASE Quiet(f)
  BY <1>0, <1>3 DEF Quiet, SignedOf, Reached, Present
<1>4. CASE Between(f)
  <2>1. done' = done \/ (pos \in Steps /\ AtStep(pos) /\ Complete(pos) /\ done' = done \cup {pos})
    BY <1>4 DEF Between
  <2>2. s \in done' /\ s \notin done => Has(file["signer"][f], {m})
    <3>1. pos = s /\ Complete(pos) /\ pos \in Steps /\ Present("signer", f) => f \in handled
      BY CompleteMeans, <1>1 DEF SignedBy
    <3> QED
      BY <2>1, <3>1 DEF SignedOf, Reached, Has, Present
  <2>3. l \in done' /\ l \notin done => Has(file["local"][f], {m})
    <3>1. pos = l /\ Complete(pos) /\ pos \in Steps /\ Present("signer", f) => f \in handled
      BY CompleteMeans, <1>1
    <3>2. pos = l /\ pos \in Steps /\ AtStep(pos) => 14 \in done
      BY <1>1, StepInOrder, KindSteps DEF Steps
    <3> QED
      BY <2>1, <3>1, <3>2 DEF SignedOf, Reached, Has, Present
  <2>4. 14 \in done' /\ 14 \notin done /\ Present("local", f) => Present("signer", f)
    <3>1. pos = 14 /\ Complete(pos) /\ pos \in Steps /\ Present("local", f) => f \in handled
      BY CompleteMeans
    <3>2. pos = 14 /\ pos \in Steps /\ AtStep(pos) => l \notin done
      BY <1>1, <1>2 DEF Steps
    <3> QED
      BY <2>1, <3>1, <3>2 DEF SignedOf, Reached, Has, Present
  <2> QED
    BY <1>0, <1>4, <2>1, <2>2, <2>3, <2>4 DEF Between, SignedOf, Reached, Present
<1>5. CASE Work(f)
  <2>0. /\ UNCHANGED <<done, pos>> /\ pos \in Steps /\ AtStep(pos)
        /\ handled \subseteq handled' /\ pos \notin done
    BY <1>2, <1>5 DEF Work
  <2> USE <1>0, <1>1, <1>2, <2>0 DEF SignedOf, Reached, Has, Present
  <2>1. CASE Untouched(f)
    BY <2>1 DEF Untouched
  <2>2. CASE Moved(f)
    <3>1. CASE pos = 3 /\ Touch(f, "local", file["builder"][f])
      BY <3>1 DEF Touch
    <3>2. CASE pos \in {7, 14, 23, 25} /\ Present("local", f) /\ Touch(f, "signer", file["local"][f])
      BY <3>2 DEF Touch
    <3>3. CASE pos \in {16, 19, 21, 27} /\ Present("signer", f) /\ Touch(f, "local", file["signer"][f])
      BY <3>3 DEF Touch
    <3>4. CASE pos = 29 /\ Present("local", f) /\ Touch(f, "dist", file["local"][f])
      BY <3>4 DEF Touch
    <3> QED
      BY <2>2, <3>1, <3>2, <3>3, <3>4 DEF Moved
  <2>3. CASE Removed(f)
    <3>1. pos \in {12, 33}
      BY <2>3, KindFacts DEF Removed
    <3>2. CASE pos = 33 /\ Drop(f, "signer")
      BY <3>2 DEF Drop
    <3>3. CASE pos = 12 /\ Drop(f, "local")
      BY <3>3 DEF Drop
    <3> QED
      BY <2>3, <3>1, <3>2, <3>3 DEF Removed
  <2>4. CASE FilesMade(f)
    <3>1. pos = 12 /\ \E c : Touch(f, "local", c)
      BY <2>4, KindFacts DEF FilesMade
    <3> QED
      BY <3>1 DEF Touch
  <2>5. CASE SignedHere(f)
    <3>0. file["signer"][f] \in Content /\ file["local"][f] \in Content
      BY MarksType, HostNames
    <3>1. CASE /\ pos = 15 /\ f \in Mars /\ Present("signer", f)
               /\ Touch(f, "signer", IF "mar" \in file["signer"][f].marks THEN file["signer"][f]
                             ELSE Rewrite(file["signer"][f],
                                          file["signer"][f].marks \cup {"mar"}))
      <4>1. m = "mar" /\ s = 15
        BY <3>1, KindFacts DEF SignedBy
      <4>2. file'["signer"][f] # Absent /\ "mar" \in file'["signer"][f].marks
        BY <3>0, <3>1, RewriteFacts DEF Touch
      <4> QED
        BY <3>1, <4>1, <4>2 DEF Touch
    <3>2. CASE /\ pos = 18 /\ Kind[f] = "aab" /\ Present("signer", f)
               /\ Touch(f, "signer", Rewrite(file["signer"][f], {"apk"}))
      <4>1. m = "apk" /\ s = 18
        BY <3>2, KindFacts DEF SignedBy
      <4>2. file'["signer"][f] # Absent /\ m \in file'["signer"][f].marks
        BY <3>0, <3>2, <4>1, RewriteFacts DEF Touch
      <4> QED
        BY <3>2, <4>1, <4>2 DEF Touch
    <3>3. CASE /\ pos = 20 /\ Kind[f] = "exe" /\ Present("signer", f)
               /\ Touch(f, "signer", Rewrite(file["signer"][f], {"authenticode"}))
      <4>1. m = "authenticode" /\ s = 20
        BY <3>3, KindFacts DEF SignedBy
      <4>2. file'["signer"][f] # Absent /\ m \in file'["signer"][f].marks
        BY <3>0, <3>3, <4>1, RewriteFacts DEF Touch
      <4> QED
        BY <3>3, <4>1, <4>2 DEF Touch
    <3>4. CASE /\ pos = 22 /\ Kind[f] = "exe" /\ Present("local", f)
               /\ Touch(f, "local", Rewrite(file["local"][f],
                                            file["local"][f].marks \cup {"timestamp"}))
      <4>1. file'["local"][f].marks = file["local"][f].marks \cup {"timestamp"}
        BY <3>0, <3>4, RewriteFacts DEF Touch
      <4>2. l \in done /\ m \in file["local"][f].marks
        BY <3>4
      <4>3. Has(file'["local"][f], {m})
        BY <4>1, <4>2
      <4> QED
        BY <3>4, <4>2, <4>3 DEF Touch
    <3> QED
      BY <2>5, <3>1, <3>2, <3>3, <3>4 DEF SignedHere
  <2> QED
    BY <1>5, <2>1, <2>2, <2>3, <2>4, <2>5 DEF Work
<1> QED
  BY <1>3, <1>4, <1>5, FileStep

\* The timestamps of an executable: it is never removed from the operator's machine.
StampedOf(f) ==
    /\ Present("signer", f) => Present("local", f)
    /\ Reached(22, f) => Has(file["local"][f], {"timestamp"})
    /\ Reached(23, f) => Has(file["signer"][f], {"timestamp"})
    /\ Has(file["dist"][f], {"timestamp"})

LEMMA StampedStep ==
    ASSUME TypeOK, MarkersInOrder, ListedOK, [Next]_vars,
           NEW f \in Files, Kind[f] = "exe", StampedOf(f)
    PROVE  StampedOf(f)'
<1>0. "local" \in Path /\ "signer" \in Path /\ "dist" \in Path
  BY DEF Path
<1>1. f \notin Mars /\ f # Dmg /\ f # Hfs /\ f \notin listed["local"]
  BY KindFacts DEF ListedOK, Of
<1>2. pos \in Steps /\ AtStep(pos) =>
        /\ 22 \in done => 22 < pos
        /\ 23 \in done => 23 < pos
        /\ 22 < pos => 22 \in done
        /\ 23 < pos => 23 \in done
        /\ pos \notin done
  BY KindSteps, StepInOrder DEF Steps
<1>3. CASE Quiet(f)
  BY <1>0, <1>3 DEF Quiet, StampedOf, Reached, Present
<1>4. CASE Between(f)
  <2>1. done' = done \/ (pos \in Steps /\ AtStep(pos) /\ Complete(pos) /\ done' = done \cup {pos})
    BY <1>4 DEF Between
  <2>2. 22 \in done' /\ 22 \notin done => Has(file["local"][f], {"timestamp"})
    <3>1. pos = 22 /\ Complete(pos) /\ pos \in Steps /\ Present("local", f) => f \in handled
      BY CompleteMeans
    <3> QED
      BY <2>1, <3>1 DEF StampedOf, Reached, Has, Present
  <2>3. 23 \in done' /\ 23 \notin done => Has(file["signer"][f], {"timestamp"})
    <3>1. pos = 23 /\ Complete(pos) /\ pos \in Steps /\ Present("local", f) => f \in handled
      BY CompleteMeans
    <3> QED
      BY <2>1, <3>1 DEF StampedOf, Reached, Has, Present
  <2> QED
    BY <1>0, <1>4, <2>1, <2>2, <2>3 DEF Between, StampedOf, Reached, Present
<1>5. CASE Work(f)
  <2>0. /\ UNCHANGED <<done, pos>> /\ pos \in Steps /\ AtStep(pos)
        /\ handled \subseteq handled' /\ pos \notin done
    BY <1>2, <1>5 DEF Work
  <2> USE <1>0, <1>1, <1>2, <2>0 DEF StampedOf, Reached, Has, Present
  <2>1. CASE Untouched(f)
    BY <2>1 DEF Untouched
  <2>2. CASE Moved(f)
    BY <2>2 DEF Moved, Touch
  <2>3. CASE Removed(f) \/ FilesMade(f)
    BY <2>3 DEF Removed, FilesMade, Drop
  <2>4. CASE SignedHere(f)
    <3>0. file["signer"][f] \in Content /\ file["local"][f] \in Content
      BY MarksType, HostNames
    <3>1. CASE /\ pos = 20 /\ Present("signer", f)
               /\ Touch(f, "signer", Rewrite(file["signer"][f], {"authenticode"}))
      BY <3>1 DEF Touch
    <3>2. CASE /\ pos = 22 /\ Present("local", f)
               /\ Touch(f, "local", Rewrite(file["local"][f],
                                            file["local"][f].marks \cup {"timestamp"}))
      <4>1. file'["local"][f] # Absent /\ "timestamp" \in file'["local"][f].marks
        BY <3>0, <3>2, RewriteFacts DEF Touch
      <4> QED
        BY <3>2, <4>1 DEF Touch
    <3> QED
      BY <2>4, <3>1, <3>2 DEF SignedHere
  <2> QED
    BY <1>5, <2>1, <2>2, <2>3, <2>4 DEF Work
<1> QED
  BY <1>3, <1>4, <1>5, FileStep

\* An apk exists only as the signing step makes it, signed.
ApkOf(f) == \A h \in Path : Has(file[h][f], {"apk"})

\* What the builder's directory and list hold.
BuilderOK ==
    /\ file["builder"] \in {NoSums, BuilderOutput}
    /\ BuiltFirst => /\ built = "finished"
                     /\ file["builder"] = BuilderOutput
                     /\ listed["builder"] = Of({"macinc"})

\* The work of the script leaves the builder alone.
LEMMA WorkKeepsBuilder ==
    ASSUME TypeOK, StepWork
    PROVE  file'["builder"] = file["builder"]
<1>1. \A h \in Hosts \ {"builder"}, f \in Files : \A c : Put(h, f, c)["builder"] = file["builder"]
  BY HostNames DEF Put, TypeOK
<1>2. \A src, dst \in Hosts : dst # "builder" /\ Rsync(src, dst) =>
         file'["builder"] = file["builder"]
  <2> SUFFICES ASSUME NEW src \in Hosts, NEW dst \in Hosts, dst # "builder", Rsync(src, dst)
               PROVE  file'["builder"] = file["builder"]
    OBVIOUS
  <2>1. PICK u \in Transferable(src) \ handled : Transfer(src, dst, u)
    BY DEF Rsync
  <2> QED
    BY <1>1, <2>1 DEF Transfer, Transferable
<1>3. Dmg \in Files /\ Hfs \in Files
  BY FilesAssumption
<1>4. CASE Dmg2mar
  <2>1. \/ file' = file
        \/ \E f \in Files : \E c : file' = Put("local", f, c)
        \/ \E d : file' = [file EXCEPT !["local"] = d]
    BY <1>4 DEF Dmg2mar, Of
  <2>2. ASSUME NEW d, file' = [file EXCEPT !["local"] = d]
        PROVE  file'["builder"] = file["builder"]
    BY <2>2, HostNames DEF TypeOK
  <2> QED
    BY <1>1, <2>1, <2>2, HostNames
<1>5. CASE \/ SyncBuilderUnsignedToLocalSigned \/ SyncLocalToLinuxSigner
           \/ SyncLinuxSignerToLocal \/ SyncLocalToStaticiforme
  BY <1>2, <1>5, HostNames DEF SyncBuilderUnsignedToLocalSigned, SyncLocalToLinuxSigner,
     SyncLinuxSignerToLocal, SyncLocalToStaticiforme
<1>6. CASE CleanBuildArtifacts \/ ExtractDmg \/ LinuxSignerRcodesignSign \/ GatekeeperBundling
  BY <1>1, <1>3, <1>6, HostNames DEF CleanBuildArtifacts, ExtractDmg,
     LinuxSignerRcodesignSign, GatekeeperBundling, Of
<1>7. CASE \/ SyncLinuxSignerMacosSignedTarToLocal \/ RcodesignNotarySubmit
           \/ HashSignedBundles \/ LinuxSignerGpgSign \/ UploadUpdateResponses
  BY <1>7 DEF SyncLinuxSignerMacosSignedTarToLocal, RcodesignNotarySubmit,
     HashSignedBundles, LinuxSignerGpgSign, UploadUpdateResponses
<1>8. CASE LinuxSignerSignmars \/ LinuxSignerAuthenticodeSigning \/ AuthenticodeTimestamping
  <2>1. \/ file' = file
        \/ \E h \in {"local", "signer"}, f \in Files : \E c : file' = Put(h, f, c)
    BY <1>8 DEF LinuxSignerSignmars, LinuxSignerAuthenticodeSigning,
       AuthenticodeTimestamping, Mars, Of
  <2> QED
    BY <1>1, <2>1, HostNames
<1>9. CASE \/ \E k \in {"apk", "aab"} : LinuxSignerSignAndroid(k)
           \/ StaticiformePrepareCdnDistUpload \/ FinishedSigningCleanLinuxSigner
  <2>1. \/ file' = file
        \/ \E h \in {"signer", "cdn"}, f \in Files : \E c : file' = Put(h, f, c)
    BY <1>9 DEF LinuxSignerSignAndroid, StaticiformePrepareCdnDistUpload,
       FinishedSigningCleanLinuxSigner, Transferable, Mars, Of
  <2> QED
    BY <1>1, <2>1, HostNames
<1> QED
  BY <1>4, <1>5, <1>6, <1>7, <1>8, <1>9 DEF StepWork

LEMMA BuilderStep ==
    ASSUME TypeOK, MarkersInOrder, BuilderOK, [Next]_vars
    PROVE  BuilderOK'
<1> USE BoundAssumption
<1>1. CASE BuilderMergesFiles
  <2>1. file'["builder"] = BuilderOutput /\ listed' = listed
    BY <1>1, HostNames DEF BuilderMergesFiles, TypeOK
  <2>2. ~BuiltFirst
    BY <1>1 DEF BuilderMergesFiles, BuilderOK
  <2>3. BuilderOutput' = BuilderOutput
    BY DEF BuilderOutput, Macos, Absent, Unsigned
  <2> QED
    BY <2>1, <2>2, <2>3 DEF BuilderOK
<1>2. CASE BuilderHashesIncrementals
  <2>1. file' = file /\ ~BuiltFirst
    BY <1>2 DEF BuilderHashesIncrementals, BuilderOK, content
  <2> QED
    BY <2>1 DEF BuilderOK, BuilderOutput, NoSums, Macos, Absent, Unsigned
<1>3. CASE StepWork
  <2>1. file'["builder"] = file["builder"]
    BY <1>3, WorkKeepsBuilder
  <2>2. listed'["builder"] = listed["builder"] /\ built' = built
    BY <1>3, HostNames DEF StepWork, TypeOK, Did, OnlyFiles, Rsync,
       SyncBuilderUnsignedToLocalSigned, CleanBuildArtifacts, ExtractDmg,
       SyncLocalToLinuxSigner, LinuxSignerRcodesignSign, SyncLinuxSignerMacosSignedTarToLocal,
       RcodesignNotarySubmit, GatekeeperBundling, Dmg2mar, LinuxSignerSignmars,
       SyncLinuxSignerToLocal, LinuxSignerAuthenticodeSigning, AuthenticodeTimestamping,
       HashSignedBundles, LinuxSignerGpgSign, LinuxSignerSignAndroid, SyncLocalToStaticiforme,
       StaticiformePrepareCdnDistUpload, UploadUpdateResponses, FinishedSigningCleanLinuxSigner
  <2> QED
    BY <2>1, <2>2 DEF BuilderOK, BuilderOutput, NoSums, Macos, Absent, Unsigned, Of
<1>4. CASE Control \/ UNCHANGED <<file, listed, tar, built, done, pos, handled>>
  BY <1>4 DEF Control, BuilderOK, BuilderOutput, NoSums, Macos, Absent, Unsigned, Of
<1> QED
  BY <1>1, <1>2, <1>3, <1>4, StepShape

\* With a finished build the list is whole once the builder's directory is copied.
ListSynced ==
    BuiltFirst /\ Of({"macinc"}) # {} /\ (3 \in done \/ (pos = 3 /\ handled # {}))
      => listed["local"] = Of({"macinc"})

\* Only the builder and the copy of its directory change the lists.
LEMMA ListChanges ==
    ASSUME TypeOK, StepWork
    PROVE  \/ listed' = listed
           \/ /\ pos = 3 /\ handled = {}
              /\ listed' = [listed EXCEPT !["local"] = listed["builder"]]
<1> USE StepNumbers
<1>1. CASE SyncBuilderUnsignedToLocalSigned
  BY <1>1 DEF SyncBuilderUnsignedToLocalSigned, AtStep
<1>2. CASE ~SyncBuilderUnsignedToLocalSigned
  BY <1>2 DEF StepWork, OnlyFiles, CleanBuildArtifacts, ExtractDmg,
     SyncLocalToLinuxSigner, LinuxSignerRcodesignSign, SyncLinuxSignerMacosSignedTarToLocal,
     RcodesignNotarySubmit, GatekeeperBundling, Dmg2mar, LinuxSignerSignmars,
     SyncLinuxSignerToLocal, LinuxSignerAuthenticodeSigning, AuthenticodeTimestamping,
     HashSignedBundles, LinuxSignerGpgSign, LinuxSignerSignAndroid, SyncLocalToStaticiforme,
     StaticiformePrepareCdnDistUpload, UploadUpdateResponses, FinishedSigningCleanLinuxSigner
<1> QED
  BY <1>1, <1>2

LEMMA ListedStep ==
    ASSUME TypeOK, MarkersInOrder, BuilderOK, ListedOK, ListSynced, [Next]_vars
    PROVE  ListedOK' /\ ListSynced'
<1>0. Of({"macinc"})' = Of({"macinc"})
  BY DEF Of
<1>1. CASE BuilderMergesFiles \/ BuilderHashesIncrementals
  <2>1. /\ UNCHANGED <<done, pos, handled>>
        /\ listed'["local"] = listed["local"]
        /\ listed'["builder"] \subseteq listed["builder"] \cup Of({"macinc"})
    BY <1>1 DEF BuilderMergesFiles, BuilderHashesIncrementals, TypeOK
  <2> QED
    BY <1>0, <2>1 DEF ListedOK, ListSynced
<1>2. CASE UNCHANGED <<file, listed, tar, built, done, pos, handled>>
  BY <1>0, <1>2 DEF ListedOK, ListSynced
<1>3. CASE Control
  <2>1. UNCHANGED listed /\ handled' = {}
    BY <1>3 DEF Control
  <2>2. BuiltFirst /\ Of({"macinc"}) # {} /\ 3 \in done' /\ 3 \notin done =>
          listed["local"] = Of({"macinc"})
    <3> SUFFICES ASSUME BuiltFirst, Of({"macinc"}) # {}, 3 \in done', 3 \notin done
                 PROVE  listed["local"] = Of({"macinc"})
      OBVIOUS
    <3>1. PICK f \in Files : Kind[f] = "macinc"
      BY DEF Of
    <3>2. pos = 3 /\ pos \in Steps /\ Complete(pos)
      BY <1>3, StepInOrder DEF Control
    <3>3. Present("builder", f)
      BY <3>1 DEF BuilderOK, BuilderOutput, Present, Absent, Unsigned
    <3>4. f \in handled
      BY <3>2, <3>3, CompleteMeans
    <3> QED
      BY <3>2, <3>4 DEF ListSynced
  <2> QED
    BY <1>0, <2>1, <2>2 DEF ListedOK, ListSynced
<1>4. CASE StepWork
  <2>1. UNCHANGED <<done, pos>> /\ pos \in Steps /\ AtStep(pos) /\ handled \subseteq handled'
    <3>1. Work(Dmg)
      BY <1>4, WorkOnFile, FilesAssumption
    <3> QED
      BY <3>1 DEF Work
  <2>2. CASE listed' = listed /\ ~(pos = 3 /\ handled = {})
    BY <1>0, <2>1, <2>2 DEF ListedOK, ListSynced
  <2>3. CASE pos = 3 /\ handled = {} /\ listed' = [listed EXCEPT !["local"] = listed["builder"]]
    <3>1. listed'["local"] = listed["builder"] /\ listed'["builder"] = listed["builder"]
      BY <2>3 DEF TypeOK
    <3> QED
      BY <1>0, <3>1 DEF ListedOK, ListSynced, BuilderOK
  <2>4. CASE listed' = listed /\ pos = 3 /\ handled = {}
    <3>1. SyncBuilderUnsignedToLocalSigned
      BY <1>4, <2>1, <2>4, StepNumbers DEF StepWork, AtStep, CleanBuildArtifacts, ExtractDmg,
         SyncLocalToLinuxSigner, LinuxSignerRcodesignSign,
         SyncLinuxSignerMacosSignedTarToLocal, RcodesignNotarySubmit, GatekeeperBundling,
         Dmg2mar, LinuxSignerSignmars, SyncLinuxSignerToLocal, LocalToSignerSteps,
         SignerToLocalSteps, LinuxSignerAuthenticodeSigning, AuthenticodeTimestamping,
         HashSignedBundles, LinuxSignerGpgSign, LinuxSignerSignAndroid,
         SyncLocalToStaticiforme, StaticiformePrepareCdnDistUpload, UploadUpdateResponses,
         FinishedSigningCleanLinuxSigner
    <3>2. listed["local"] = listed["builder"]
      BY <2>4, <3>1 DEF SyncBuilderUnsignedToLocalSigned, TypeOK
    <3> QED
      BY <1>0, <2>1, <2>4, <3>2 DEF ListedOK, ListSynced, BuilderOK
  <2> QED
    BY <1>4, <2>2, <2>3, <2>4, ListChanges
<1> QED
  BY <1>1, <1>2, <1>3, <1>4, StepShape

CodeSigned == {"code"}
Notarized == {"code", "stapled"}

\* The archives the app travels in carry its signature, and the ticket when stapled.
TarOK ==
    /\ Just(tar["signer"], CodeSigned)
    /\ Just(tar["local"], CodeSigned)
    /\ Just(tar["stapled"], Notarized)

LEMMA TarStep ==
    ASSUME TypeOK, MarkersInOrder, TarOK, [Next]_vars
    PROVE  TarOK'
<1>0. tar["signer"] \in Content /\ tar["stapled"] \in Content
  BY DEF TypeOK
<1>1. CASE tar' = tar
  BY <1>1 DEF TarOK, Just, CodeSigned, Notarized, Absent
<1>2. CASE LinuxSignerRcodesignSign
  <2>1. Rewrite(tar["signer"], {"code"}).marks = {"code"}
    BY <1>0, RewriteFacts
  <2>2. CASE tar' = [tar EXCEPT !["signer"] = Rewrite(@, {"code"})]
    <3>1. /\ tar'["signer"] = Rewrite(tar["signer"], {"code"})
          /\ tar'["local"] = tar["local"] /\ tar'["stapled"] = tar["stapled"]
      BY <2>2 DEF TypeOK
    <3> QED
      BY <2>1, <3>1 DEF TarOK, Just, CodeSigned, Notarized, Absent
  <2> QED
    BY <1>1, <1>2, <2>2 DEF LinuxSignerRcodesignSign
<1>3. CASE SyncLinuxSignerMacosSignedTarToLocal
  <2>1. /\ tar'["local"] = tar["signer"]
        /\ tar'["signer"] = tar["signer"] /\ tar'["stapled"] = tar["stapled"]
    BY <1>3 DEF SyncLinuxSignerMacosSignedTarToLocal, TypeOK
  <2> QED
    BY <2>1 DEF TarOK, Just, CodeSigned, Notarized, Absent
<1>4. CASE RcodesignNotarySubmit
  <2>1. /\ tar'["stapled"] = Rewrite(tar["stapled"], tar["local"].marks \cup {"stapled"})
        /\ tar'["signer"] = tar["signer"] /\ tar'["local"] = tar["local"]
        /\ tar["local"] # Absent
    BY <1>4 DEF RcodesignNotarySubmit, TypeOK
  <2>2. tar'["stapled"].marks = tar["local"].marks \cup {"stapled"}
    BY <1>0, <2>1, RewriteFacts
  <2> QED
    BY <2>1, <2>2 DEF TarOK, Just, CodeSigned, Notarized, Absent
<1>5. CASE FinishedSigningCleanLinuxSigner
  <2>1. /\ tar'["signer"] = Absent
        /\ tar'["local"] = tar["local"] /\ tar'["stapled"] = tar["stapled"]
    BY <1>5 DEF FinishedSigningCleanLinuxSigner, TypeOK
  <2> QED
    BY <2>1 DEF TarOK, Just, CodeSigned, Notarized, Absent
<1>6. CASE StepWork
  <2>1. CASE \/ SyncBuilderUnsignedToLocalSigned \/ SyncLocalToLinuxSigner
             \/ SyncLinuxSignerToLocal \/ SyncLocalToStaticiforme
    <3>1. tar' = tar
      BY <2>1 DEF SyncBuilderUnsignedToLocalSigned, SyncLocalToLinuxSigner,
         SyncLinuxSignerToLocal, SyncLocalToStaticiforme, Rsync, Transfer
    <3> QED
      BY <1>1, <3>1
  <2> QED
    BY <1>1, <1>2, <1>3, <1>4, <1>5, <1>6, <2>1 DEF StepWork, OnlyFiles, CleanBuildArtifacts,
       ExtractDmg, GatekeeperBundling, Dmg2mar, LinuxSignerSignmars,
       LinuxSignerAuthenticodeSigning, AuthenticodeTimestamping, HashSignedBundles,
       LinuxSignerGpgSign, LinuxSignerSignAndroid, StaticiformePrepareCdnDistUpload,
       UploadUpdateResponses
<1>7. CASE Control \/ Background \/ UNCHANGED <<file, listed, tar, built, done, pos, handled>>
  BY <1>1, <1>7 DEF Control, Background
<1> QED
  BY <1>6, <1>7, StepShape

\* A build has no apk and no volume, and no macOS image but for macOS.
LEMMA NotBuilt ==
    ASSUME BuilderOK, NEW f \in Files,
           Kind[f] \in {"apk", "hfs"} \/ (Kind[f] = "dmg" /\ ~Macos)
    PROVE  ~Present("builder", f)
BY DEF BuilderOK, BuilderOutput, NoSums, Present

LEMMA ApkStep ==
    ASSUME TypeOK, MarkersInOrder, ListedOK, BuilderOK, [Next]_vars,
           NEW f \in Files, Kind[f] = "apk", ApkOf(f)
    PROVE  ApkOf(f)'
<1>0. "local" \in Path /\ "signer" \in Path /\ "dist" \in Path
  BY DEF Path
<1>1. f \notin Mars /\ f # Dmg /\ f # Hfs /\ f \notin listed["local"] /\ ~Present("builder", f)
  BY KindFacts, NotBuilt DEF ListedOK, Of
<1>2. Path' = Path
  BY DEF Path
<1>3. CASE Quiet(f) \/ Between(f)
  BY <1>2, <1>3 DEF Quiet, Between, ApkOf, Has, Absent
<1>4. CASE Work(f)
  <2>1. CASE \A g \in Path : file'[g][f] = file[g][f]
    BY <1>2, <2>1 DEF ApkOf, Has, Absent
  <2>2. CASE \E h, k \in Path : Touch(f, h, file[k][f]) \/ Drop(f, h)
    BY <1>2, <2>2 DEF ApkOf, Has, Touch, Drop, Absent
  <2>3. CASE Touch(f, "signer", Rewrite(file["signer"][f], {"apk"}))
    <3>1. Rewrite(file["signer"][f], {"apk"}).marks = {"apk"}
      BY MarksType, HostNames, RewriteFacts
    <3> QED
      BY <1>2, <2>3, <3>1 DEF ApkOf, Has, Touch, Absent
  <2> QED
    BY <1>0, <1>1, <1>4, <2>1, <2>2, <2>3 DEF Work, Untouched, Moved, Removed, FilesMade, SignedHere
<1> QED
  BY <1>3, <1>4, FileStep

\* Where a release has no macOS there is no image and no volume.
NoMacOf(f) == \A h \in Path : file[h][f] = Absent

LEMMA NoMacStep ==
    ASSUME TypeOK, MarkersInOrder, ListedOK, BuilderOK, [Next]_vars,
           NEW f \in {Dmg, Hfs}, ~Macos, NoMacOf(f)
    PROVE  NoMacOf(f)'
<1>0. "local" \in Path /\ "signer" \in Path /\ "dist" \in Path /\ f \in Files
  BY FilesAssumption DEF Path
<1>1. /\ Kind[f] \in {"dmg", "hfs"} /\ f \notin Mars /\ f \notin listed["local"]
      /\ ~Present("builder", f)
  BY <1>0, KindFacts, NotBuilt DEF ListedOK, Of
<1>2. Path' = Path
  BY DEF Path
<1>3. AtStep(pos) => pos \notin {5, 8, 11}
  BY StepNumbers DEF AtStep, Applicable
<1>4. CASE Quiet(f) \/ Between(f)
  BY <1>2, <1>4 DEF Quiet, Between, NoMacOf, Absent
<1>5. CASE Work(f)
  <2>1. CASE \A g \in Path : file'[g][f] = file[g][f]
    BY <1>2, <2>1 DEF NoMacOf, Absent
  <2>2. CASE \E h, k \in Path : Touch(f, h, file[k][f]) \/ Drop(f, h)
    BY <1>2, <2>2 DEF NoMacOf, Touch, Drop, Absent
  <2> QED
    BY <1>0, <1>1, <1>3, <1>5, <2>1, <2>2 DEF Work, Untouched, Moved, Removed, FilesMade, SignedHere
<1> QED
  BY <1>0, <1>4, <1>5, FileStep

\* Test apks are removed before anything is copied anywhere.
TestOf(f) ==
    /\ Reached(4, f) => ~Present("local", f)
    /\ ~Present("signer", f) /\ ~Present("dist", f)

LEMMA TestStep ==
    ASSUME TypeOK, MarkersInOrder, ListedOK, [Next]_vars,
           NEW f \in Files, Kind[f] = "test", TestOf(f)
    PROVE  TestOf(f)'
<1>0. "local" \in Path /\ "signer" \in Path /\ "dist" \in Path
  BY DEF Path
<1>1. f \notin Mars /\ f # Dmg /\ f # Hfs /\ f \notin listed["local"]
  BY KindFacts DEF ListedOK, Of
<1>2. pos \in Steps /\ AtStep(pos) =>
        /\ 4 \in done => 4 < pos
        /\ 4 < pos => 4 \in done
        /\ pos \notin done
  BY KindSteps, StepInOrder DEF Steps
<1>3. CASE Quiet(f)
  BY <1>0, <1>3 DEF Quiet, TestOf, Reached, Present, Absent
<1>4. CASE Between(f)
  <2>1. pos = 4 /\ Complete(pos) /\ pos \in Steps => f \in handled
    BY CompleteMeans
  <2> QED
    BY <1>0, <1>4, <2>1 DEF Between, TestOf, Reached, Present, Absent
<1>5. CASE Work(f)
  <2>0. /\ UNCHANGED <<done, pos>> /\ pos \in Steps /\ AtStep(pos)
        /\ handled \subseteq handled' /\ pos \notin done
    BY <1>2, <1>5 DEF Work
  <2> USE <1>0, <1>1, <1>2, <2>0 DEF TestOf, Reached, Present, Absent
  <2>1. CASE Untouched(f)
    BY <2>1 DEF Untouched
  <2>2. CASE Moved(f)
    BY <2>2 DEF Moved, Touch
  <2>3. CASE Removed(f)
    BY <2>3 DEF Removed, Drop, Touch
  <2> QED
    BY <1>5, <2>1, <2>2, <2>3 DEF Work, FilesMade, SignedHere
<1> QED
  BY <1>3, <1>4, <1>5, FileStep

\* The image is taken apart before anything leaves the operator's machine, and made
\* again from the notarized app.
DmgOf ==
    /\ Reached(5, Dmg) => Has(file["local"][Dmg], Notarized)
    /\ Reached(11, Dmg) => Present("local", Dmg)
    /\ Has(file["signer"][Dmg], Notarized)
    /\ Has(file["dist"][Dmg], Notarized)

LEMMA DmgStep ==
    ASSUME TypeOK, MarkersInOrder, ListedOK, TarOK, Macos, [Next]_vars, DmgOf
    PROVE  DmgOf'
<1> DEFINE f == Dmg
<1>0. "local" \in Path /\ "signer" \in Path /\ "dist" \in Path
  BY DEF Path
<1>1. f \in Files /\ f \notin Mars /\ Kind[f] = "dmg" /\ f # Hfs /\ f \notin listed["local"]
  BY FilesAssumption, KindFacts DEF ListedOK, Of
<1>2. pos \in Steps /\ AtStep(pos) =>
        /\ 5 \in done => 5 < pos
        /\ 5 < pos => 5 \in done
        /\ 11 \in done => 11 < pos
        /\ 11 < pos => 11 \in done
        /\ pos \notin done
  BY <1>1, KindSteps, StepInOrder DEF Steps
<1>3. CASE Quiet(f)
  BY <1>0, <1>3 DEF Quiet, DmgOf, Reached, Present, Absent, Has, Notarized
<1>4. CASE Between(f)
  <2>1. pos \in {5, 11} /\ Complete(pos) /\ pos \in Steps => f \in handled
    BY <1>1, CompleteMeans
  <2> QED
    BY <1>0, <1>4, <2>1 DEF Between, DmgOf, Reached, Present, Absent, Has, Notarized
<1>5. CASE Work(f)
  <2>0. /\ UNCHANGED <<done, pos>> /\ pos \in Steps /\ AtStep(pos)
        /\ handled \subseteq handled' /\ pos \notin done
    BY <1>2, <1>5 DEF Work
  <2> USE <1>0, <1>1, <1>2, <2>0 DEF DmgOf, Reached, Present, Has, Notarized
  <2>1. CASE Untouched(f)
    BY <2>1 DEF Untouched, Absent
  <2>2. CASE Moved(f)
    BY <2>2 DEF Moved, Touch, Absent
  <2>3. CASE Removed(f)
    BY <2>3 DEF Removed, Drop, Touch, Absent
  <2>4. CASE FilesMade(f)
    <3>1. /\ pos = 11 /\ tar["stapled"] # Absent
          /\ Touch(f, "local", Rewrite(file["local"][f], tar["stapled"].marks))
      BY <2>4 DEF FilesMade
    <3>2. file["local"][f] \in Content
      BY MarksType, HostNames
    <3>3. /\ Rewrite(file["local"][f], tar["stapled"].marks) # Absent
          /\ Rewrite(file["local"][f], tar["stapled"].marks).marks = tar["stapled"].marks
      BY <3>2, RewriteFacts
    <3> QED
      BY <3>1, <3>3 DEF Touch, TarOK, Just, Absent
  <2> QED
    BY <1>5, <2>1, <2>2, <2>3, <2>4 DEF Work, SignedHere
<1> QED
  BY <1>1, <1>3, <1>4, <1>5, FileStep

\* The volume is gone from both machines before anything is published.
HfsOf ==
    /\ 8 \in done \/ (pos = 8 /\ "rm" \in handled) => ~Present("signer", Hfs)
    /\ Reached(11, Hfs) => ~Present("local", Hfs)
    /\ ~Present("dist", Hfs)

LEMMA HfsStep ==
    ASSUME TypeOK, MarkersInOrder, ListedOK, BuilderOK, Macos, [Next]_vars, HfsOf
    PROVE  HfsOf'
<1> DEFINE f == Hfs
<1>0. "local" \in Path /\ "signer" \in Path /\ "dist" \in Path
  BY DEF Path
<1>1. /\ f \in Files /\ f \notin Mars /\ Kind[f] = "hfs" /\ f # Dmg
      /\ f \notin listed["local"] /\ ~Present("builder", f)
  BY FilesAssumption, KindFacts, NotBuilt DEF ListedOK, Of
<1>2. pos \in Steps /\ AtStep(pos) =>
        /\ 8 \in done => 8 < pos
        /\ 8 < pos => 8 \in done
        /\ 11 \in done => 11 < pos
        /\ 11 < pos => 11 \in done
        /\ pos \notin done
  BY <1>1, KindSteps, StepInOrder DEF Steps
<1>3. CASE Quiet(f)
  BY <1>0, <1>3 DEF Quiet, HfsOf, Reached, Present, Absent
<1>4. CASE Between(f)
  <2>1. /\ pos = 11 /\ Complete(pos) /\ pos \in Steps => f \in handled
        /\ pos = 8 /\ Complete(pos) /\ pos \in Steps => "rm" \in handled
    BY <1>1, CompleteMeans
  <2> QED
    BY <1>0, <1>4, <2>1 DEF Between, HfsOf, Reached, Present, Absent
<1>5. CASE Work(f)
  <2>0. /\ UNCHANGED <<done, pos>> /\ pos \in Steps /\ AtStep(pos)
        /\ handled \subseteq handled' /\ pos \notin done
    BY <1>2, <1>5 DEF Work
  <2> USE <1>0, <1>1, <1>2, <2>0 DEF HfsOf, Reached, Present, Absent
  <2>1. CASE Untouched(f)
    BY <2>1 DEF Untouched
  <2>2. CASE Moved(f)
    BY <2>2 DEF Moved, Touch
  <2>3. CASE Removed(f)
    BY <2>3 DEF Removed, Drop, Touch
  <2>4. CASE FilesMade(f)
    BY <2>4 DEF FilesMade, Touch
  <2> QED
    BY <1>5, <2>1, <2>2, <2>3, <2>4 DEF Work, SignedHere
<1> QED
  BY <1>1, <1>3, <1>4, <1>5, FileStep

\* A macOS update that is made again: whichever run does it, it is made from the
\* notarized image before the signer gets it.
MadeAgain(f) == Kind[f] = "macmar" \/ f \in listed["local"]

MacMarOf(f) ==
    /\ MadeAgain(f) =>
         /\ Reached(12, f) => Present("local", f) /\ Has(file["local"][f], Notarized)
         /\ Kind[f] = "macinc" /\ pos = 12 /\ "rm" \in handled =>
              Has(file["local"][f], Notarized)
         /\ Reached(14, f) => Has(file["signer"][f], Notarized)
         /\ Has(file["dist"][f], Notarized)
    /\ Kind[f] = "macinc" /\ pos = 12 /\ f \in handled => "rm" \in handled
    /\ Present("dist", f) => 12 \in done

LEMMA MacMarStep ==
    ASSUME TypeOK, MarkersInOrder, ListedOK, DmgOf, [Next]_vars,
           NEW f \in Files, Kind[f] \in {"macmar", "macinc"}, MacMarOf(f)
    PROVE  MacMarOf(f)'
<1>0. "local" \in Path /\ "signer" \in Path /\ "dist" \in Path
  BY DEF Path
<1>1. /\ f # Dmg /\ f # Hfs /\ f \in Mars /\ Dmg \in Files /\ Macos
      /\ Kind[f] = "macmar" => f \notin listed["local"]
  BY KindFacts, KindSteps DEF ListedOK, Of
<1>2. pos \in Steps /\ AtStep(pos) =>
        /\ 12 \in done => 12 < pos
        /\ 12 < pos => 12 \in done
        /\ 14 \in done => 14 < pos
        /\ 14 < pos => 14 \in done
        /\ 11 < pos => 11 \in done
        /\ 5 < pos => 5 \in done
        /\ pos \notin done
  BY <1>1, KindSteps, StepInOrder DEF Steps
<1>3. CASE Quiet(f)
  BY <1>0, <1>3 DEF Quiet, MacMarOf, MadeAgain, Reached, Present, Has, Absent, Notarized
<1>4. CASE Between(f)
  <2>1. /\ pos = 12 /\ Complete(pos) /\ pos \in Steps => f \in handled
        /\ pos = 14 /\ Complete(pos) /\ pos \in Steps /\ Present("local", f) => f \in handled
    BY CompleteMeans
  <2>2. 14 \in done' /\ 14 \notin done /\ MadeAgain(f) => Present("local", f)
    BY <1>2, <1>4 DEF Between, MacMarOf, Reached
  <2> QED
    BY <1>0, <1>4, <2>1, <2>2 DEF Between, MacMarOf, MadeAgain, Reached, Present, Has, Absent,
       Notarized
<1>5. CASE Work(f)
  <2>0. /\ UNCHANGED <<done, pos>> /\ pos \in Steps /\ AtStep(pos)
        /\ handled \subseteq handled' /\ pos \notin done
        /\ pos # 3 => listed' = listed
    BY <1>2, <1>5 DEF Work
  <2>1. CASE pos = 3
    <3>1. file'["dist"][f] = file["dist"][f]
      BY <1>0, <1>5, <2>1 DEF Work, Untouched, Moved, Removed, FilesMade, SignedHere, Touch
    <3> QED
      BY <1>2, <2>0, <2>1, <3>1 DEF MacMarOf, MadeAgain, Reached, Present, Has, Absent
  <2> USE <1>0, <1>1, <1>2, <2>0 DEF MacMarOf, MadeAgain, Reached, Present, Has, Notarized
  <2>2. CASE pos # 3 /\ Untouched(f)
    BY <2>2 DEF Untouched, Absent
  <2>3. CASE pos # 3 /\ Moved(f)
    BY <2>3 DEF Moved, Touch, Absent
  <2>4. CASE pos # 3 /\ Removed(f)
    BY <2>4 DEF Removed, Drop, Touch, Absent
  <2>5. CASE pos # 3 /\ FilesMade(f)
    <3>0. /\ file["local"][f] \in Content /\ Absent \in Content
      BY MarksType, HostNames, ContentFacts
    <3>1. Present("local", Dmg) /\ Notarized \subseteq file["local"][Dmg].marks
      BY <2>5 DEF FilesMade, DmgOf
    <3>2. CASE /\ pos = 12 /\ Kind[f] = "macmar"
               /\ Touch(f, "local", Rewrite(file["local"][f], file["local"][Dmg].marks))
      <4>1. /\ file'["local"][f] # Absent
            /\ file'["local"][f].marks = file["local"][Dmg].marks
        BY <3>0, <3>2, RewriteFacts DEF Touch
      <4> QED
        BY <3>1, <3>2, <4>1 DEF Touch, Absent
    <3>3. CASE /\ pos = 12 /\ Kind[f] = "macinc" /\ "rm" \in handled
               /\ Touch(f, "local", IF Present("local", f) THEN file["local"][f]
                                    ELSE Rewrite(Absent, file["local"][Dmg].marks))
      <4>1. /\ file'["local"][f] # Absent
            /\ MadeAgain(f) => Notarized \subseteq file'["local"][f].marks
        BY <3>0, <3>1, <3>3, RewriteFacts DEF Touch
      <4> QED
        BY <3>1, <3>3, <4>1 DEF Touch, Absent
    <3> QED
      BY <2>5, <3>2, <3>3 DEF FilesMade
  <2>6. CASE pos # 3 /\ SignedHere(f)
    <3>1. /\ pos = 15 /\ Present("signer", f)
          /\ Touch(f, "signer", IF "mar" \in file["signer"][f].marks THEN file["signer"][f]
                                ELSE Rewrite(file["signer"][f],
                                             file["signer"][f].marks \cup {"mar"}))
      BY <2>6 DEF SignedHere
    <3>2. file["signer"][f].marks \subseteq file'["signer"][f].marks
      BY <3>1, MarksType, HostNames, RewriteFacts DEF Touch
    <3>3. MadeAgain(f) => Has(file'["signer"][f], Notarized)
      BY <3>1, <3>2 DEF Absent
    <3> QED
      BY <3>1, <3>3 DEF Touch, Absent
  <2> QED
    BY <1>5, <2>1, <2>2, <2>3, <2>4, <2>5, <2>6 DEF Work
<1> QED
  BY <1>3, <1>4, <1>5, FileStep

FileOK(f) ==
    /\ \A m \in Marks, s, l \in Steps : SignedBy(f, m, s, l) => SignedOf(f, m, s, l)
    /\ Kind[f] = "exe" => StampedOf(f)
    /\ Kind[f] = "apk" => ApkOf(f)
    /\ Kind[f] = "test" => TestOf(f)
    /\ Kind[f] \in {"macmar", "macinc"} => MacMarOf(f)
    /\ f \in {Dmg, Hfs} /\ ~Macos => NoMacOf(f)

ReleaseInv ==
    /\ TypeOK /\ MarkersInOrder
    /\ BuilderOK /\ ListedOK /\ ListSynced /\ TarOK
    /\ Macos => DmgOf /\ HfsOf
    /\ \A f \in Files : FileOK(f)

LEMMA ReleaseInit == Init => ReleaseInv
<1> SUFFICES ASSUME Init PROVE ReleaseInv
  OBVIOUS
<1>1. TypeOK
  BY InitType
<1>2. /\ done = {} /\ handled = {} /\ pos = 0
      /\ \A n, f : ~Reached(n, f)
  BY DEF Init, Reached
<1>3. MarkersInOrder
  BY <1>2 DEF MarkersInOrder, Steps
<1>4. BuilderOK /\ ListedOK /\ ListSynced
  <2>1. file["builder"] = IF BuiltFirst THEN BuilderOutput ELSE NoSums
    BY HostNames DEF Init
  <2>2. /\ listed["builder"] = (IF BuiltFirst THEN Of({"macinc"}) ELSE {})
        /\ listed["local"] = {}
        /\ BuiltFirst => built = "finished"
    BY DEF Init
  <2> QED
    BY <1>2, <2>1, <2>2, BoundAssumption DEF BuilderOK, ListedOK, ListSynced
<1>5. TarOK
  BY DEF Init, TarOK, Just
<1>6. ASSUME NEW f \in Files
      PROVE  /\ file["signer"][f] = Absent /\ file["dist"][f] = Absent
             /\ Project # "torvpn" \/ Kind[f] \in {"apk", "hfs"}
                \/ (Kind[f] = "dmg" /\ ~Macos) => file["local"][f] = Absent
  BY HostNames DEF Init, NoSums, BuilderOutput
<1>7. Macos => Project # "torvpn"
  BY ProjectAssumption DEF Macos
<1>8. Macos => DmgOf /\ HfsOf
  BY <1>2, <1>6, <1>7, FilesAssumption DEF DmgOf, HfsOf, Has, Present
<1>9. ASSUME NEW f \in Files PROVE FileOK(f)
  <2>1. \A m, s, l : SignedOf(f, m, s, l)
    BY <1>2, <1>6 DEF SignedOf, Has
  <2>2. StampedOf(f) /\ (Kind[f] = "test" => TestOf(f)) /\ MacMarOf(f)
    BY <1>2, <1>6 DEF StampedOf, TestOf, MacMarOf, Has, Present
  <2>3. Kind[f] = "apk" => ApkOf(f)
    BY <1>6 DEF ApkOf, Has, Path
  <2>4. f \in {Dmg, Hfs} /\ ~Macos => NoMacOf(f)
    BY <1>6, KindFacts DEF NoMacOf, Path
  <2> QED
    BY <2>1, <2>2, <2>3, <2>4 DEF FileOK
<1> QED
  BY <1>1, <1>3, <1>4, <1>5, <1>8, <1>9 DEF ReleaseInv

LEMMA ReleaseStep == ReleaseInv /\ [Next]_vars => ReleaseInv'
<1> SUFFICES ASSUME ReleaseInv, [Next]_vars PROVE ReleaseInv'
  OBVIOUS
<1> USE DEF ReleaseInv
<1>1. TypeOK' /\ MarkersInOrder'
  BY StepType, OrderStep
<1>2. BuilderOK' /\ ListedOK' /\ ListSynced' /\ TarOK'
  BY BuilderStep, ListedStep, TarStep
<1>3. Macos' => DmgOf' /\ HfsOf'
  <2>1. Macos' = Macos
    BY DEF Macos
  <2> QED
    BY <2>1, DmgStep, HfsStep
<1>4. ASSUME NEW f \in Files PROVE FileOK(f)'
  <2>1. FileOK(f)
    OBVIOUS
  <2>2. ASSUME NEW m \in Marks, NEW s \in Steps, NEW l \in Steps, SignedBy(f, m, s, l)
        PROVE  SignedOf(f, m, s, l)'
    BY <2>1, <2>2, SignedStep DEF FileOK
  <2>3. \A m \in Marks, s, l \in Steps : SignedBy(f, m, s, l)' = SignedBy(f, m, s, l)
    BY DEF SignedBy, Mars, Of
  <2>4. Kind[f] = "exe" => StampedOf(f)'
    BY <2>1, StampedStep DEF FileOK
  <2>5. Kind[f] = "apk" => ApkOf(f)'
    BY <2>1, ApkStep DEF FileOK
  <2>6. Kind[f] = "test" => TestOf(f)'
    BY <2>1, TestStep DEF FileOK
  <2>7. f \in {Dmg, Hfs} /\ ~Macos => NoMacOf(f)'
    BY <2>1, NoMacStep DEF FileOK
  <2>8. Kind[f] \in {"macmar", "macinc"} => MacMarOf(f)'
    <3>1. Kind[f] \in {"macmar", "macinc"} => Macos
      BY KindSteps
    <3> QED
      BY <2>1, <3>1, MacMarStep DEF FileOK
  <2> QED
    BY <2>2, <2>3, <2>4, <2>5, <2>6, <2>7, <2>8 DEF FileOK, Marks, Steps, Macos
<1> QED
  BY <1>1, <1>2, <1>3, <1>4

\* The invariant says of a published file that it is signed.
LEMMA ReleaseIsFinal == ReleaseInv => PublishedIsFinal
<1> SUFFICES ASSUME ReleaseInv, NEW f \in Files, Present("dist", f)
             PROVE  /\ Kind[f] \notin {"hfs", "test"}
                    /\ \/ Required(Kind[f]) \subseteq file["dist"][f].marks
                       \/ ~BuiltFirst /\ Kind[f] = "macinc" /\ f \notin listed["local"]
  BY DEF PublishedIsFinal
<1>0. FileOK(f) /\ "dist" \in Path
  BY DEF ReleaseInv, Path
<1>1. Kind[f] # "hfs"
  BY <1>0, KindFacts DEF ReleaseInv, FileOK, HfsOf, NoMacOf, Present
<1>2. Kind[f] # "test"
  BY <1>0 DEF FileOK, TestOf
<1>3. Kind[f] = "dmg" => Notarized \subseteq file["dist"][f].marks
  BY <1>0, KindFacts DEF ReleaseInv, FileOK, DmgOf, NoMacOf, Present, Has
<1>4. f \in Mars => "mar" \in file["dist"][f].marks
  <2>1. f \in Mars => SignedOf(f, "mar", 15, 16)
    BY <1>0 DEF FileOK, SignedBy, Marks, Steps
  <2> QED
    BY <2>1 DEF SignedOf, Has, Present
<1>5. Kind[f] = "exe" => {"authenticode", "timestamp"} \subseteq file["dist"][f].marks
  <2>1. Kind[f] = "exe" => SignedOf(f, "authenticode", 20, 21) /\ StampedOf(f)
    BY <1>0 DEF FileOK, SignedBy, Marks, Steps
  <2> QED
    BY <2>1 DEF SignedOf, StampedOf, Has, Present
<1>6. Kind[f] \in {"apk", "aab"} => "apk" \in file["dist"][f].marks
  <2>1. Kind[f] = "aab" => SignedOf(f, "apk", 18, 19)
    BY <1>0 DEF FileOK, SignedBy, Marks, Steps
  <2> QED
    BY <1>0, <2>1 DEF FileOK, ApkOf, SignedOf, Has, Present
<1>7. Kind[f] \in {"macmar", "macinc"} /\ MadeAgain(f) => Notarized \subseteq file["dist"][f].marks
  BY <1>0 DEF FileOK, MacMarOf, Has, Present
<1>8. Kind[f] = "macinc" /\ BuiltFirst => f \in listed["local"]
  <2> SUFFICES ASSUME Kind[f] = "macinc", BuiltFirst PROVE f \in listed["local"]
    OBVIOUS
  <2>1. 12 \in done
    BY <1>0 DEF FileOK, MacMarOf
  <2>2. 3 \in done
    <3>1. Applicable(3) /\ Marker(3) = 3 /\ 3 \in Steps
      BY KindSteps, StepNumbers DEF Marker, Steps
    <3> QED
      BY <2>1, <3>1 DEF ReleaseInv, MarkersInOrder
  <2>3. f \in Of({"macinc"})
    BY DEF Of
  <2> QED
    BY <2>2, <2>3 DEF ReleaseInv, ListSynced
<1> QED
  BY <1>1, <1>2, <1>3, <1>4, <1>5, <1>6, <1>7, <1>8, KindFacts
     DEF Required, MadeAgain, Notarized

\* Whatever the release holds and however its runs were interrupted, nothing reaches
\* the web server before it carries every signature of its kind, but for the
\* incrementals that a list cut short by the builder does not name.
THEOREM PublishedFinal == Spec => []PublishedIsFinal
<1> QED
  BY ReleaseInit, ReleaseStep, ReleaseIsFinal, PTL DEF Spec

-----------------------------------------------------------------------------
(* Older and newer contents of one file.                                   *)

NotNewer(a, b) == a.marks \subseteq b.marks /\ a.rev <= b.rev

LEMMA NotNewerFacts ==
    /\ \A c \in Content : NotNewer(c, c) /\ NotNewer(Absent, c)
    /\ \A a, b, c \in Content : NotNewer(a, b) /\ NotNewer(b, c) => NotNewer(a, c)
    /\ \A c \in Content : \A ms \in SUBSET Marks :
         c.marks \subseteq ms => NotNewer(c, Rewrite(c, ms))
BY DEF NotNewer, Content, Rewrite, Absent

\* The step that brings the signer's version of a file back, or that sends the file to
\* the signer if the signer does not change it.
BackStep(f) ==
    CASE f \in Mars -> 16
      [] Kind[f] \in {"apk", "aab"} -> 19
      [] Kind[f] = "exe" -> 21
      [] OTHER -> 14

\* The kinds the operator's machine always has once it has them.
Lasting == {"mar", "macmar", "exe", "qa", "aab", "other"}

\* Which of the two machines may have the newer file, at each time.
AgeOf(f) ==
    /\ Present("signer", f) => 6 \in done
    /\ 4 \notin done /\ Project # "torvpn" => file["local"][f] \in {Absent, file["builder"][f]}
    /\ 14 \notin done /\ Present("local", f) =>
         NotNewer(file["signer"][f], file["local"][f])
    /\ Reached(14, f) /\ BackStep(f) \notin done /\ Present("local", f) =>
         Present("signer", f) /\ NotNewer(file["local"][f], file["signer"][f])
    /\ Reached(BackStep(f), f) /\ Present("signer", f) /\ Present("local", f) =>
         IF Kind[f] = "exe" /\ ~Reached(23, f)
         THEN NotNewer(file["signer"][f], file["local"][f])
         ELSE file["signer"][f] = file["local"][f]
    /\ Kind[f] \in Lasting /\ Present("signer", f) => Present("local", f)

\* The marks a file can have before the step that makes it again.
MarksOf(f) ==
    /\ Kind[f] \in {"apk", "aab"} =>
         \A h \in {"local", "signer"} : file[h][f].marks \subseteq {"apk"}
    /\ Kind[f] = "exe" /\ 21 \notin done =>
         \A h \in {"local", "signer"} : file[h][f].marks \subseteq {"authenticode"}
    /\ Kind[f] = "hfs" => \A h \in {"local", "signer"} : file[h][f].marks = {}
    /\ Kind[f] = "dmg" =>
         /\ \A h \in {"local", "signer"} : file[h][f].marks \subseteq Notarized
         /\ 5 \notin done => file["local"][f].marks = {}
         /\ Present("signer", f) => 12 \in done
         /\ Reached(5, f) /\ Present("local", f) => 10 \in done
    /\ Kind[f] = "macmar" /\ 14 \notin done => file["local"][f].marks \subseteq Notarized
    /\ Kind[f] = "macinc" =>
         /\ 12 \notin done => file["signer"][f] \in {Absent, Unsigned}
         /\ 11 \notin done => file["local"][f] \in {Absent, Unsigned}

\* What the web server has is what the operator has.
DistOf(f) ==
    /\ Present("dist", f) => 27 \in done /\ file["dist"][f] = file["local"][f]
    /\ Reached(29, f) => file["dist"][f] = file["local"][f]

LEMMA BackFacts ==
    ASSUME NEW f \in Files
    PROVE  /\ BackStep(f) \in {14, 16, 19, 21}
           /\ Applicable(BackStep(f))
           /\ Kind[f] = "exe" => BackStep(f) = 21
           /\ f \in Mars => BackStep(f) = 16
           /\ Kind[f] \in {"apk", "aab"} => BackStep(f) = 19
           /\ Kind[f] \in {"dmg", "hfs", "test", "qa", "other"} => BackStep(f) = 14
<1>1. f \in Mars <=> Kind[f] \in {"mar", "macmar", "macinc"}
  BY KindFacts
<1> QED
  BY <1>1, KindSteps DEF BackStep

\* The markers that the steps of interest have, when a step is running.
Numbered ==
    pos \in Steps /\ AtStep(pos) =>
        /\ pos \notin done /\ pos # 13
        /\ \A k \in done : k < pos
        /\ \A n \in {4, 6, 7, 14, 24, 25, 26, 27, 29} : n < pos => n \in done
        /\ Macos => \A n \in {5, 8, 9, 10, 11, 12} : n < pos => n \in done

LEMMA NumberedHolds ==
    ASSUME TypeOK, MarkersInOrder
    PROVE  /\ Numbered
           /\ \A f \in Files : pos \in Steps /\ AtStep(pos) =>
                /\ BackStep(f) < pos => BackStep(f) \in done
                /\ Kind[f] = "exe" => \A n \in {20, 21, 22, 23} : n < pos => n \in done
                /\ Kind[f] \in {"apk", "aab"} /\ 19 < pos => 19 \in done
<1> SUFFICES ASSUME pos \in Steps, AtStep(pos)
             PROVE  /\ Numbered
                    /\ \A f \in Files :
                         /\ BackStep(f) < pos => BackStep(f) \in done
                         /\ Kind[f] = "exe" => \A n \in {20, 21, 22, 23} : n < pos => n \in done
                         /\ Kind[f] \in {"apk", "aab"} /\ 19 < pos => 19 \in done
  BY DEF Numbered
<1>1. /\ pos # 13 /\ pos \notin done /\ \A k \in done : k < pos
      /\ \A n \in Steps \ {13} : n < pos /\ Applicable(n) => n \in done
  BY StepInOrder
<1>2. \A n \in {4, 5, 6, 7, 8, 9, 10, 11, 12, 14, 16, 19, 20, 21, 22, 23, 24, 25, 26, 27, 29} :
         n \in Steps \ {13}
  BY DEF Steps
<1>3. Dmg \in Files
  BY FilesAssumption
<1>4. Numbered
  BY <1>1, <1>2, <1>3, KindSteps DEF Numbered
<1>5. ASSUME NEW f \in Files
      PROVE  /\ BackStep(f) < pos => BackStep(f) \in done
             /\ Kind[f] = "exe" => \A n \in {20, 21, 22, 23} : n < pos => n \in done
             /\ Kind[f] \in {"apk", "aab"} /\ 19 < pos => 19 \in done
  BY <1>1, <1>2, BackFacts, KindSteps
<1> QED
  BY <1>4, <1>5

\* A piece of work that changes a file makes it newer, or removes it.
LEMMA WorkGrows ==
    ASSUME TypeOK, MarkersInOrder, ListedOK, TarOK, Macos => DmgOf,
           NEW f \in Files, f \in {Dmg, Hfs} => Macos,
           AgeOf(f), MarksOf(f), DistOf(f), Work(f)
    PROVE  \A h \in Path : file'[h][f] # Absent => NotNewer(file[h][f], file'[h][f])
<1>0. /\ "local" \in Path /\ "signer" \in Path /\ "dist" \in Path
      /\ Path = {"local", "signer", "dist"}
  BY DEF Path
<1>1. /\ \A h \in Path : file[h][f] \in Content
      /\ file["local"][f] \in Content /\ file["signer"][f] \in Content
      /\ file["dist"][f] \in Content /\ file["builder"][f] \in Content
      /\ file["local"][Dmg] \in Content
      /\ file["local"][Dmg].marks \subseteq Marks
  BY MarksType, HostNames, FilesAssumption DEF Path, Hosts
<1>2. /\ UNCHANGED <<done, pos>> /\ pos \in Steps /\ AtStep(pos) /\ handled \subseteq handled'
      /\ Numbered
      /\ BackStep(f) < pos => BackStep(f) \in done
      /\ Kind[f] = "exe" => \A n \in {20, 21, 22, 23} : n < pos => n \in done
  BY NumberedHolds DEF Work
<1>3. /\ BackStep(f) \in {14, 16, 19, 21}
      /\ Kind[f] = "exe" => BackStep(f) = 21
      /\ f = Dmg <=> Kind[f] = "dmg"
      /\ f = Hfs <=> Kind[f] = "hfs"
      /\ f \in Mars <=> Kind[f] \in {"mar", "macmar", "macinc"}
  BY BackFacts, KindFacts
<1>4. \A h \in Path : NotNewer(file[h][f], file[h][f])
  BY <1>1, NotNewerFacts
<1>5. ASSUME NEW h \in Path, NEW c, Touch(f, h, c), c # Absent => NotNewer(file[h][f], c)
      PROVE  \A k \in Path : file'[k][f] # Absent => NotNewer(file[k][f], file'[k][f])
  BY <1>4, <1>5 DEF Touch
<1>6. CASE Untouched(f)
  BY <1>4, <1>6 DEF Untouched
<1>7. CASE Removed(f)
  BY <1>4, <1>7 DEF Removed, Touch, Drop
<1>8. CASE Moved(f)
  <2>1. CASE pos = 3 /\ Touch(f, "local", file["builder"][f])
    <3>1. Project # "torvpn" /\ 4 \notin done
      BY <1>2, <2>1, StepNumbers DEF AtStep, Applicable, Numbered
    <3>2. NotNewer(file["local"][f], file["builder"][f])
      BY <1>1, <3>1, NotNewerFacts DEF AgeOf
    <3> QED
      BY <1>0, <1>5, <2>1, <3>2
  <2>2. CASE /\ pos \in {7, 14, 23, 25} /\ Present("local", f)
             /\ Touch(f, "signer", file["local"][f])
    <3>1. NotNewer(file["signer"][f], file["local"][f])
      <4>1. CASE pos \in {7, 14}
        BY <1>2, <2>2, <4>1 DEF AgeOf, Numbered
      <4>2. CASE pos \in {23, 25}
        <5>1. BackStep(f) \in done
          BY <1>2, <1>3, <4>2
        <5> QED
          BY <1>1, <2>2, <5>1, NotNewerFacts DEF AgeOf, Reached, Present
      <4> QED
        BY <2>2, <4>1, <4>2
    <3> QED
      BY <1>0, <1>5, <2>2, <3>1
  <2>3. CASE /\ pos \in {16, 19, 21, 27} /\ Present("signer", f)
             /\ Touch(f, "local", file["signer"][f])
    <3>1. NotNewer(file["local"][f], file["signer"][f])
      <4>1. 14 \in done
        BY <1>2, <2>3 DEF Numbered
      <4>2. CASE BackStep(f) \notin done
        BY <1>1, <2>3, <4>1, <4>2, NotNewerFacts DEF AgeOf, Reached, Present
      <4>3. CASE BackStep(f) \in done
        <5>1. Kind[f] = "exe" => 23 \in done
          BY <1>2, <1>3, <2>3, <4>3 DEF Numbered
        <5> QED
          BY <1>1, <2>3, <4>3, <5>1, NotNewerFacts DEF AgeOf, Reached, Present
      <4> QED
        BY <4>2, <4>3
    <3> QED
      BY <1>0, <1>5, <2>3, <3>1
  <2>4. CASE pos = 29 /\ Touch(f, "dist", file["local"][f])
    <3>1. NotNewer(file["dist"][f], file["local"][f])
      BY <1>1, NotNewerFacts DEF DistOf, Present
    <3> QED
      BY <1>0, <1>5, <2>4, <3>1
  <2> QED
    BY <1>8, <2>1, <2>2, <2>3, <2>4 DEF Moved
<1>9. CASE FilesMade(f)
  <2>1. CASE /\ pos = 5 /\ f = Hfs
             /\ Touch(f, "local", Rewrite(file["local"][f], file["local"][Dmg].marks))
    <3>1. file["local"][f].marks = {}
      BY <1>3, <2>1 DEF MarksOf
    <3> QED
      BY <1>0, <1>1, <1>5, <2>1, <3>1, NotNewerFacts
  <2>2. CASE /\ pos = 11 /\ f = Dmg /\ tar["stapled"] # Absent
             /\ Touch(f, "local", Rewrite(file["local"][f], tar["stapled"].marks))
    <3>1. file["local"][f].marks \subseteq tar["stapled"].marks /\ tar["stapled"].marks \in SUBSET Marks
      BY <1>3, <2>2 DEF TarOK, Just, MarksOf, Notarized, Marks
    <3> QED
      BY <1>0, <1>1, <1>5, <2>2, <3>1, NotNewerFacts
  <2>3. CASE /\ pos = 12 /\ Kind[f] = "macmar" /\ Present("local", Dmg)
             /\ Touch(f, "local", Rewrite(file["local"][f], file["local"][Dmg].marks))
    <3>1. Macos /\ 5 \in done /\ 14 \notin done
      BY <1>2, <2>3, KindSteps DEF Numbered
    <3>2. file["local"][f].marks \subseteq file["local"][Dmg].marks
      BY <2>3, <3>1 DEF MarksOf, DmgOf, Reached, Has, Present
    <3> QED
      BY <1>0, <1>1, <1>5, <2>3, <3>2, NotNewerFacts
  <2>4. CASE /\ pos = 12 /\ Kind[f] = "macinc"
             /\ Touch(f, "local", IF Present("local", f) THEN file["local"][f]
                                  ELSE Rewrite(Absent, file["local"][Dmg].marks))
    <3>1. Rewrite(Absent, file["local"][Dmg].marks) \in Content
      BY <1>1, ContentFacts
    <3> QED
      BY <1>0, <1>1, <1>5, <2>4, <3>1, NotNewerFacts DEF Present
  <2>5. CASE /\ pos = 17 /\ Kind[f] = "apk"
             /\ Touch(f, "signer", Rewrite(file["signer"][f], {"apk"}))
    BY <1>0, <1>1, <1>5, <2>5, NotNewerFacts, MarkNames DEF MarksOf
  <2> QED
    BY <1>9, <2>1, <2>2, <2>3, <2>4, <2>5 DEF FilesMade
<1>10. CASE SignedHere(f)
  <2>1. CASE /\ pos = 15
             /\ Touch(f, "signer", IF "mar" \in file["signer"][f].marks THEN file["signer"][f]
                             ELSE Rewrite(file["signer"][f],
                                          file["signer"][f].marks \cup {"mar"}))
    <3>1. file["signer"][f].marks \cup {"mar"} \in SUBSET Marks
      BY MarksType, HostNames, MarkNames
    <3>2. NotNewer(file["signer"][f], Rewrite(file["signer"][f], file["signer"][f].marks \cup {"mar"}))
      BY <1>1, <3>1, NotNewerFacts
    <3> QED
      BY <1>0, <1>4, <1>5, <2>1, <3>2
  <2>2. CASE /\ pos = 18 /\ Kind[f] = "aab"
             /\ Touch(f, "signer", Rewrite(file["signer"][f], {"apk"}))
    BY <1>0, <1>1, <1>5, <2>2, NotNewerFacts, MarkNames DEF MarksOf
  <2>3. CASE /\ pos = 20 /\ Kind[f] = "exe"
             /\ Touch(f, "signer", Rewrite(file["signer"][f], {"authenticode"}))
    <3>1. file["signer"][f].marks \subseteq {"authenticode"}
      BY <1>2, <2>3 DEF Numbered, MarksOf
    <3> QED
      BY <1>0, <1>1, <1>5, <2>3, <3>1, NotNewerFacts, MarkNames
  <2>4. CASE /\ pos = 22
             /\ Touch(f, "local", Rewrite(file["local"][f],
                                          file["local"][f].marks \cup {"timestamp"}))
    <3>1. file["local"][f].marks \cup {"timestamp"} \in SUBSET Marks
      BY MarksType, HostNames, MarkNames
    <3> QED
      BY <1>0, <1>1, <1>5, <2>4, <3>1, NotNewerFacts
  <2> QED
    BY <1>10, <2>1, <2>2, <2>3, <2>4 DEF SignedHere
<1> QED
  BY <1>6, <1>7, <1>8, <1>9, <1>10 DEF Work

\* The builder's files appear once and stay.
LEMMA BuilderFiles ==
    ASSUME TypeOK, MarkersInOrder, BuilderOK, [Next]_vars, NEW f \in Files
    PROVE  /\ file["builder"][f] \in {Absent, Unsigned}
           /\ file'["builder"][f] = file["builder"][f] \/ file["builder"][f] = Absent
           /\ Kind[f] \notin {"hfs", "apk", "dmg"} /\ file["builder"] = BuilderOutput =>
                file["builder"][f] = Unsigned
<1>1. file["builder"][f] \in {Absent, Unsigned}
  BY DEF BuilderOK, BuilderOutput, NoSums
<1>2. Kind[f] \notin {"hfs", "apk", "dmg"} /\ file["builder"] = BuilderOutput =>
        file["builder"][f] = Unsigned
  BY DEF BuilderOutput
<1>3. file'["builder"][f] = file["builder"][f] \/ file["builder"][f] = Absent
  <2>1. CASE BuilderMergesFiles
    <3>1. file'["builder"] = BuilderOutput
      BY <2>1, HostNames DEF BuilderMergesFiles, TypeOK
    <3> QED
      BY <3>1 DEF BuilderOK, NoSums
  <2>2. CASE BuilderHashesIncrementals
    BY <2>2 DEF BuilderHashesIncrementals, content
  <2>3. CASE StepWork
    BY <2>3, WorkKeepsBuilder
  <2>4. CASE Control \/ UNCHANGED <<file, listed, tar, built, done, pos, handled>>
    BY <2>4 DEF Control
  <2> QED
    BY <2>1, <2>2, <2>3, <2>4, StepShape
<1> QED
  BY <1>1, <1>2, <1>3

LEMMA DistStep ==
    ASSUME TypeOK, MarkersInOrder, [Next]_vars, NEW f \in Files, DistOf(f)
    PROVE  DistOf(f)'
<1>0. "local" \in Path /\ "signer" \in Path /\ "dist" \in Path
  BY DEF Path
<1>1. CASE Quiet(f)
  BY <1>0, <1>1 DEF Quiet, DistOf, Reached, Present, Absent
<1>2. CASE Between(f)
  <2>1. pos = 29 /\ pos \in Steps /\ Complete(pos) /\ Present("local", f) => f \in handled
    BY CompleteMeans
  <2> QED
    BY <1>0, <1>2, <2>1 DEF Between, DistOf, Reached, Present, Absent
<1>3. CASE Work(f)
  <2>1. /\ UNCHANGED <<done, pos>> /\ (27 \in done => 27 < pos) /\ (29 \in done => 29 < pos)
        /\ pos = 29 => 27 \in done
    BY <1>3, NumberedHolds DEF Work, Numbered
  <2> QED
    BY <1>0, <1>3, <2>1 DEF Work, Untouched, Moved, Removed, FilesMade, SignedHere, Touch, Drop,
       DistOf, Reached, Present, Absent
<1> QED
  BY <1>1, <1>2, <1>3, FileStep

LEMMA MarksStep ==
    ASSUME TypeOK, MarkersInOrder, ListedOK, BuilderOK, TarOK, [Next]_vars,
           NEW f \in Files, f \in {Dmg, Hfs} => Macos,
           MarksOf(f), Macos => MarksOf(Dmg)
    PROVE  MarksOf(f)'
<1>0. /\ "local" \in Path /\ "signer" \in Path /\ "dist" \in Path
      /\ "local" # "signer" /\ Dmg \in Files
  BY FilesAssumption DEF Path
<1>1. /\ file["local"][f] \in Content /\ file["signer"][f] \in Content
      /\ file["builder"][f] \in {Absent, Unsigned}
      /\ Absent.marks = {} /\ Unsigned.marks = {}
  BY MarksType, HostNames, BuilderFiles DEF Absent, Unsigned
<1>2. /\ f = Dmg <=> Kind[f] = "dmg"
      /\ f = Hfs <=> Kind[f] = "hfs"
      /\ f \in Mars <=> Kind[f] \in {"mar", "macmar", "macinc"}
      /\ Kind[f] \in {"macmar", "macinc"} => Macos
      /\ Kind[Dmg] = "dmg"
      /\ f \in listed["local"] => Kind[f] = "macinc"
  BY <1>0, KindFacts, KindSteps DEF ListedOK, Of
<1>3. CASE Quiet(f)
  BY <1>0, <1>3 DEF Quiet, MarksOf, Reached, Present, Absent, Unsigned, Notarized
<1>4. CASE Between(f)
  <2>1. pos = 5 /\ Complete(pos) /\ pos \in Steps => Dmg \in handled
    BY <1>0, CompleteMeans
  <2> QED
    BY <1>0, <1>2, <1>4, <2>1 DEF Between, MarksOf, Reached, Present, Absent, Unsigned, Notarized
<1>5. CASE Work(f)
  <2>0. /\ UNCHANGED <<done, pos>> /\ pos \in Steps /\ AtStep(pos) /\ handled \subseteq handled'
        /\ Numbered
        /\ Kind[f] = "exe" => \A n \in {20, 21, 22, 23} : n < pos => n \in done
    BY <1>5, NumberedHolds DEF Work
  <2>1. Absent' = Absent /\ Unsigned' = Unsigned /\ Notarized' = Notarized
    BY DEF Absent, Unsigned, Notarized
  <2> USE <1>0, <1>1, <1>2, <2>0, <2>1 DEF Numbered
  <2>2. CASE Untouched(f)
    BY <2>2 DEF Untouched, MarksOf, Reached, Present
  <2>3. CASE Moved(f)
    <3>1. CASE pos = 3 /\ Touch(f, "local", file["builder"][f])
      BY <3>1 DEF Touch, MarksOf, Reached, Present
    <3>2. CASE /\ pos \in {7, 14, 23, 25} /\ Present("local", f)
               /\ Touch(f, "signer", file["local"][f])
      BY <3>2 DEF Touch, MarksOf, Reached, Present
    <3>3. CASE /\ pos \in {16, 19, 21, 27} /\ Present("signer", f)
               /\ Touch(f, "local", file["signer"][f])
      BY <3>3 DEF Touch, MarksOf, Reached, Present
    <3>4. CASE pos = 29 /\ Touch(f, "dist", file["local"][f])
      BY <3>4 DEF Touch, MarksOf, Reached, Present
    <3> QED
      BY <2>3, <3>1, <3>2, <3>3, <3>4 DEF Moved
  <2>4. CASE Removed(f)
    BY <2>4 DEF Removed, Touch, Drop, MarksOf, Reached, Present
  <2>5. CASE FilesMade(f)
    <3>1. CASE /\ pos = 5 /\ f = Hfs
               /\ Touch(f, "local", Rewrite(file["local"][f], file["local"][Dmg].marks))
      <4>1. file'["local"][f].marks = file["local"][Dmg].marks
        BY <3>1, RewriteFacts DEF Touch
      <4>2. file["local"][Dmg].marks = {}
        BY <3>1 DEF MarksOf
      <4> QED
        BY <3>1, <4>1, <4>2 DEF Touch, MarksOf
    <3>2. CASE /\ pos = 11 /\ f = Dmg /\ tar["stapled"] # Absent
               /\ Touch(f, "local", Rewrite(file["local"][f], tar["stapled"].marks))
      <4>1. file'["local"][f].marks = Notarized
        BY <3>2, RewriteFacts DEF Touch, TarOK, Just
      <4> QED
        BY <3>2, <4>1 DEF Touch, MarksOf, Reached, Present
    <3>3. CASE /\ pos = 12 /\ Kind[f] = "macmar"
               /\ Touch(f, "local", Rewrite(file["local"][f], file["local"][Dmg].marks))
      <4>1. file'["local"][f].marks = file["local"][Dmg].marks
        BY <3>3, RewriteFacts DEF Touch
      <4> QED
        BY <3>3, <4>1 DEF Touch, MarksOf
    <3>4. CASE pos = 12 /\ Kind[f] = "macinc" /\ \E c : Touch(f, "local", c)
      BY <3>4 DEF Touch, MarksOf
    <3>5. CASE /\ pos = 17 /\ Kind[f] = "apk"
               /\ Touch(f, "signer", Rewrite(file["signer"][f], {"apk"}))
      <4>1. file'["signer"][f].marks = {"apk"}
        BY <3>5, RewriteFacts DEF Touch
      <4> QED
        BY <3>5, <4>1 DEF Touch, MarksOf
    <3> QED
      BY <2>5, <3>1, <3>2, <3>3, <3>4, <3>5 DEF FilesMade
  <2>6. CASE SignedHere(f)
    <3>1. CASE pos = 15 /\ f \in Mars /\ \E c : Touch(f, "signer", c)
      BY <3>1 DEF Touch, MarksOf
    <3>2. CASE /\ pos = 18 /\ Kind[f] = "aab"
               /\ Touch(f, "signer", Rewrite(file["signer"][f], {"apk"}))
      <4>1. file'["signer"][f].marks = {"apk"}
        BY <3>2, RewriteFacts DEF Touch
      <4> QED
        BY <3>2, <4>1 DEF Touch, MarksOf
    <3>3. CASE /\ pos = 20 /\ Kind[f] = "exe"
               /\ Touch(f, "signer", Rewrite(file["signer"][f], {"authenticode"}))
      <4>1. file'["signer"][f].marks = {"authenticode"}
        BY <3>3, RewriteFacts DEF Touch
      <4> QED
        BY <3>3, <4>1 DEF Touch, MarksOf
    <3>4. CASE pos = 22 /\ Kind[f] = "exe" /\ \E c : Touch(f, "local", c)
      BY <3>4 DEF Touch, MarksOf
    <3> QED
      BY <2>6, <3>1, <3>2, <3>3, <3>4 DEF SignedHere
  <2> QED
    BY <1>5, <2>2, <2>3, <2>4, <2>5, <2>6 DEF Work
<1> QED
  BY <1>3, <1>4, <1>5, FileStep

LEMMA AgeStep ==
    ASSUME TypeOK, MarkersInOrder, ListedOK, BuilderOK, TarOK, Macos => DmgOf, [Next]_vars,
           NEW f \in Files, f \in {Dmg, Hfs} => Macos,
           AgeOf(f), MarksOf(f), DistOf(f)
    PROVE  AgeOf(f)'
<1>0. /\ "local" \in Path /\ "signer" \in Path /\ "dist" \in Path
      /\ "local" # "signer" /\ "dist" # "signer" /\ "dist" # "local" /\ Dmg \in Files
  BY FilesAssumption DEF Path
<1>1. /\ file["local"][f] \in Content /\ file["signer"][f] \in Content
      /\ file["local"][Dmg] \in Content
      /\ file'["local"][f] \in Content /\ file'["signer"][f] \in Content
      /\ file["builder"][f] \in {Absent, Unsigned}
      /\ file'["builder"][f] = file["builder"][f] \/ file["builder"][f] = Absent
      /\ \A c \in Content : NotNewer(c, c) /\ NotNewer(Absent, c)
  <2>1. file' \in [Hosts -> [Files -> Content]]
    <3>1. TypeOK' /\ Content' = Content
      BY StepType DEF Content, Marks
    <3> QED
      BY <3>1 DEF TypeOK, Hosts
  <2>2. file'["local"][f] \in Content /\ file'["signer"][f] \in Content
    BY <2>1, HostNames
  <2> QED
    BY <1>0, <2>2, MarksType, HostNames, BuilderFiles, NotNewerFacts
<1>2. /\ f = Dmg <=> Kind[f] = "dmg"
      /\ f = Hfs <=> Kind[f] = "hfs"
      /\ f \in Mars <=> Kind[f] \in {"mar", "macmar", "macinc"}
      /\ f \in listed["local"] => Kind[f] = "macinc"
  BY KindFacts DEF ListedOK, Of
<1>3. /\ BackStep(f) \in {14, 16, 19, 21}
      /\ Kind[f] = "exe" => BackStep(f) = 21
      /\ f \in Mars => BackStep(f) = 16
      /\ Kind[f] \in {"apk", "aab"} => BackStep(f) = 19
      /\ Kind[f] \in {"dmg", "hfs", "test", "qa", "other"} => BackStep(f) = 14
      /\ BackStep(f)' = BackStep(f)
  <2>1. BackStep(f)' = BackStep(f)
    BY DEF BackStep, Mars, Of
  <2> QED
    BY <2>1, BackFacts
<1>4. \A a, b : NotNewer(a, b)' = NotNewer(a, b)
  BY DEF NotNewer
<1>5. CASE Quiet(f)
  BY <1>0, <1>1, <1>3, <1>5 DEF Quiet, AgeOf, Reached, Present, Absent, NotNewer
<1>6. CASE Between(f)
  <2>1. pos \in Steps /\ Complete(pos) =>
          /\ pos \in {14, 23} /\ Present("local", f) => f \in handled
          /\ pos \in {16, 19, 21} /\ Present("signer", f) => f \in handled
    BY CompleteMeans
  <2>2. done' = done \/ (pos \in Steps /\ AtStep(pos) /\ Complete(pos) /\ done' = done \cup {pos})
    BY <1>6 DEF Between
  <2>3. /\ \A g \in Path : file'[g][f] = file[g][f]
        /\ handled' = {}
    BY <1>6 DEF Between
  <2>4. Reached(23, f)' => Reached(23, f) \/ ~Present("local", f)
    BY <2>1, <2>2, <2>3 DEF Reached
  <2>5. Reached(BackStep(f), f)' /\ Present("local", f) /\ Present("signer", f) =>
          Reached(BackStep(f), f)
    BY <1>3, <2>1, <2>2, <2>3 DEF Reached
  <2>6. Reached(14, f)' /\ Present("local", f) => Reached(14, f)
    BY <2>1, <2>2, <2>3 DEF Reached
  <2>7. done \subseteq done'
    BY <2>2
  <2>8. file'["local"][f] = file["local"][f] /\ file'["signer"][f] = file["signer"][f]
    BY <1>0, <2>3
  <2>9. 4 \notin done' /\ Project # "torvpn" => file'["local"][f] \in {Absent, file'["builder"][f]}
    BY <1>1, <2>7, <2>8 DEF AgeOf
  <2>10. Reached(BackStep(f), f)' /\ Present("signer", f)' /\ Present("local", f)' =>
           IF Kind[f] = "exe" /\ ~Reached(23, f)'
           THEN NotNewer(file'["signer"][f], file'["local"][f])
           ELSE file'["signer"][f] = file'["local"][f]
    <3>1. Present("signer", f)' = Present("signer", f) /\ Present("local", f)' = Present("local", f)
      BY <2>8 DEF Present, Absent
    <3> QED
      BY <1>1, <2>4, <2>5, <2>8, <3>1 DEF AgeOf
  <2> QED
    BY <1>3, <2>6, <2>7, <2>8, <2>9, <2>10 DEF AgeOf, Present, Absent, NotNewer, Lasting
<1>7. CASE Work(f)
  <2>0. /\ UNCHANGED <<done, pos>> /\ pos \in Steps /\ AtStep(pos) /\ handled \subseteq handled'
        /\ Numbered
        /\ BackStep(f) < pos => BackStep(f) \in done
        /\ Kind[f] = "exe" => \A n \in {20, 21, 22, 23} : n < pos => n \in done
    BY <1>7, NumberedHolds DEF Work
  <2>g. \A h \in Path : file'[h][f] # Absent => NotNewer(file[h][f], file'[h][f])
    BY <1>7, WorkGrows
  <2>1. Absent' = Absent /\ Lasting' = Lasting
    BY DEF Absent, Lasting
  <2>b. file'["builder"][f] = file["builder"][f] \/ file["builder"][f] = Absent
    BY <1>1
  <2> USE <1>0, <1>1, <1>2, <1>3, <1>4, <2>0, <2>1, <2>g DEF Numbered
  <2>2. CASE Untouched(f)
    BY <2>2 DEF Untouched, AgeOf, Reached, Present
  <2>3. CASE Moved(f)
    <3>1. CASE pos = 3 /\ Present("builder", f) /\ Touch(f, "local", file["builder"][f])
      BY <3>1 DEF Touch, AgeOf, Reached, Present
    <3>2. CASE /\ pos \in {7, 14, 23, 25} /\ Present("local", f)
               /\ Touch(f, "signer", file["local"][f])
      BY <3>2 DEF Touch, AgeOf, Reached, Present
    <3>3. CASE /\ pos \in {16, 19, 21, 27} /\ Present("signer", f)
               /\ Touch(f, "local", file["signer"][f])
      BY <3>3 DEF Touch, AgeOf, Reached, Present
    <3>4. CASE pos = 29 /\ Touch(f, "dist", file["local"][f])
      BY <3>4 DEF Touch, AgeOf, Reached, Present
    <3> QED
      BY <2>3, <3>1, <3>2, <3>3, <3>4 DEF Moved
  <2>4. CASE Removed(f)
    BY <2>4 DEF Removed, Touch, Drop, AgeOf, Reached, Present, Lasting
  <2>5. CASE FilesMade(f)
    <3>1. CASE pos = 5 /\ f = Hfs /\ \E c : Touch(f, "local", c)
      BY <3>1 DEF Touch, AgeOf, Reached, Present, Lasting
    <3>2. CASE pos = 11 /\ f = Dmg /\ \E c : Touch(f, "local", c)
      BY <3>2 DEF Touch, AgeOf, Reached, Present, Lasting, MarksOf
    <3>3. CASE /\ pos = 12 /\ Kind[f] = "macmar"
               /\ Touch(f, "local", Rewrite(file["local"][f], file["local"][Dmg].marks))
      <4>1. file'["local"][f] # Absent
        BY <3>3, RewriteFacts DEF Touch
      <4>2. Present("signer", f) => NotNewer(file["signer"][f], file'["local"][f])
        BY <3>3, <4>1, NotNewerFacts DEF AgeOf, Lasting, Present
      <4> QED
        BY <3>3, <4>1, <4>2 DEF Touch, AgeOf, Reached, Present, Lasting
    <3>4. CASE /\ pos = 12 /\ Kind[f] = "macinc"
               /\ Touch(f, "local", IF Present("local", f) THEN file["local"][f]
                                  ELSE Rewrite(Absent, file["local"][Dmg].marks))
      <4>1. file["signer"][f] \in {Absent, Unsigned}
        BY <3>4 DEF MarksOf
      <4>2. NotNewer(Unsigned, Rewrite(Absent, file["local"][Dmg].marks))
        BY DEF NotNewer, Unsigned, Rewrite, Absent
      <4>3. NotNewer(file["signer"][f], file'["local"][f])
        BY <3>4, <4>1, <4>2 DEF Touch, AgeOf, Present
      <4> QED
        BY <3>4, <4>3 DEF Touch, AgeOf, Reached, Present, Lasting
    <3>5. CASE /\ pos = 17 /\ Kind[f] = "apk"
               /\ Touch(f, "signer", Rewrite(file["signer"][f], {"apk"}))
      <4>1. file'["signer"][f] # Absent
        BY <3>5, RewriteFacts DEF Touch
      <4>2. Present("local", f) => NotNewer(file["local"][f], file'["signer"][f])
        BY <3>5, <4>1, NotNewerFacts DEF AgeOf, Reached
      <4> QED
        BY <3>5, <4>1, <4>2 DEF Touch, AgeOf, Reached, Present, Lasting
    <3> QED
      BY <2>5, <3>1, <3>2, <3>3, <3>4, <3>5 DEF FilesMade
  <2>6. CASE SignedHere(f)
    <3>1. CASE /\ pos \in {15, 18, 20} /\ Present("signer", f) /\ BackStep(f) > pos
               /\ \E c : Touch(f, "signer", c) /\ c # Absent
      <4>1. Present("local", f) => NotNewer(file["local"][f], file'["signer"][f])
        BY <3>1, NotNewerFacts DEF AgeOf, Reached, Touch
      <4> QED
        BY <3>1, <4>1 DEF Touch, AgeOf, Reached, Present, Lasting
    <3>2. CASE pos = 22 /\ Kind[f] = "exe" /\ Present("local", f) /\ \E c : Touch(f, "local", c) /\ c # Absent
      <4>1. Present("signer", f) => NotNewer(file["signer"][f], file'["local"][f])
        BY <3>2, NotNewerFacts DEF AgeOf, Reached, Touch
      <4> QED
        BY <3>2, <4>1 DEF Touch, AgeOf, Reached, Present, Lasting
    <3>3. /\ \A ms : Rewrite(file["signer"][f], ms) # Absent
          /\ \A ms : Rewrite(file["local"][f], ms) # Absent
      BY RewriteFacts
    <3> QED
      BY <2>6, <3>1, <3>2, <3>3 DEF SignedHere, Present
  <2> QED
    BY <1>7, <2>2, <2>3, <2>4, <2>5, <2>6 DEF Work
<1> QED
  BY <1>5, <1>6, <1>7, FileStep

-----------------------------------------------------------------------------
(* The cdn and the update responses.                                       *)

\* What the cdn has is what dist has, and all the mars once they are linked.
CdnOf(f) ==
    /\ Present("cdn", f) => 29 \in done /\ file["cdn"][f] = file["dist"][f]
    /\ Project = "torbrowser" /\ f \in Mars /\ Reached(31, f) =>
         file["cdn"][f] = file["dist"][f]

ResponsesOK ==
    responses # NoSums =>
        /\ 31 \in done
        /\ \A f \in Mars : responses[f] = file["dist"][f]

\* Only the linking of the mars changes the cdn.
LEMMA CdnChanges ==
    ASSUME TypeOK, MarkersInOrder, [Next]_vars, NEW f \in Files
    PROVE  \/ /\ file'["cdn"][f] = file["cdn"][f]
              /\ pos = 31 /\ AtStep(31) /\ f \in handled' => f \in handled
           \/ /\ pos = 31 /\ AtStep(31) /\ Present("dist", f)
              /\ file'["cdn"][f] = file["dist"][f]
<1> USE StepNumbers
<1>0. "cdn" \in Hosts /\ "cdn" \notin {"builder", "local", "signer", "dist"}
  BY HostNames
<1>1. CASE StaticiformePrepareCdnDistUpload
  <2>1. pos = 31 /\ AtStep(31)
    BY <1>1 DEF StaticiformePrepareCdnDistUpload, AtStep
  <2>2. CASE file' = file /\ Did("cdn_dir")
    <3>1. f # "cdn_dir"
      BY FilesAssumption DEF Labels
    <3> QED
      BY <2>2, <3>1 DEF Did
  <2>3. CASE \E g \in Mars : /\ Present("dist", g)
                             /\ file' = Put("cdn", g, file["dist"][g]) /\ Did(g)
    <3>1. PICK g \in Mars : /\ Present("dist", g)
                            /\ file' = Put("cdn", g, file["dist"][g]) /\ Did(g)
      BY <2>3
    <3>2. g \in Files
      BY DEF Mars, Of
    <3>3. file'["cdn"][f] = IF f = g THEN file["dist"][g] ELSE file["cdn"][f]
      BY <1>0, <3>1, <3>2 DEF Put, TypeOK
    <3> QED
      BY <2>1, <3>1, <3>3 DEF Did
  <2> QED
    BY <1>1, <2>2, <2>3 DEF StaticiformePrepareCdnDistUpload
<1>2. CASE StepWork /\ ~StaticiformePrepareCdnDistUpload
  <2>1. ~(pos = 31 /\ AtStep(31))
    BY <1>2 DEF StepWork, AtStep, SyncBuilderUnsignedToLocalSigned, CleanBuildArtifacts,
       ExtractDmg, SyncLocalToLinuxSigner, LinuxSignerRcodesignSign,
       SyncLinuxSignerMacosSignedTarToLocal, RcodesignNotarySubmit, GatekeeperBundling,
       Dmg2mar, LinuxSignerSignmars, SyncLinuxSignerToLocal, LocalToSignerSteps,
       SignerToLocalSteps, LinuxSignerAuthenticodeSigning, AuthenticodeTimestamping,
       HashSignedBundles, LinuxSignerGpgSign, LinuxSignerSignAndroid, SyncLocalToStaticiforme,
       UploadUpdateResponses, FinishedSigningCleanLinuxSigner
  <2>2. \/ file' = file
        \/ \E h \in {"local", "signer", "dist"}, g \in Files : \E c : file' = Put(h, g, c)
        \/ \E d : file' = [file EXCEPT !["local"] = d]
    <3>1. CASE \/ SyncBuilderUnsignedToLocalSigned \/ SyncLocalToLinuxSigner
               \/ SyncLinuxSignerToLocal \/ SyncLocalToStaticiforme
      BY <3>1 DEF SyncBuilderUnsignedToLocalSigned, SyncLocalToLinuxSigner,
         SyncLinuxSignerToLocal, SyncLocalToStaticiforme, Rsync, Transfer, Transferable
    <3>2. CASE CleanBuildArtifacts \/ ExtractDmg \/ LinuxSignerRcodesignSign \/ GatekeeperBundling
      BY <3>2, FilesAssumption DEF CleanBuildArtifacts, ExtractDmg,
         LinuxSignerRcodesignSign, GatekeeperBundling, Of
    <3>3. CASE \/ SyncLinuxSignerMacosSignedTarToLocal \/ RcodesignNotarySubmit
               \/ HashSignedBundles \/ LinuxSignerGpgSign \/ UploadUpdateResponses
      BY <3>3 DEF SyncLinuxSignerMacosSignedTarToLocal, RcodesignNotarySubmit,
         HashSignedBundles, LinuxSignerGpgSign, UploadUpdateResponses
    <3>4. CASE LinuxSignerSignmars \/ LinuxSignerAuthenticodeSigning \/ AuthenticodeTimestamping
      BY <3>4 DEF LinuxSignerSignmars, LinuxSignerAuthenticodeSigning,
         AuthenticodeTimestamping, Mars, Of
    <3>5. CASE \/ \E k \in {"apk", "aab"} : LinuxSignerSignAndroid(k)
               \/ FinishedSigningCleanLinuxSigner
      BY <3>5 DEF LinuxSignerSignAndroid, FinishedSigningCleanLinuxSigner, Transferable, Of
    <3>6. CASE Dmg2mar
      BY <3>6 DEF Dmg2mar, Of
    <3> QED
      BY <1>2, <3>1, <3>2, <3>3, <3>4, <3>5, <3>6 DEF StepWork
  <2>3. ASSUME NEW h \in {"local", "signer", "dist"}, NEW g \in Files, NEW c,
               file' = Put(h, g, c)
        PROVE  file'["cdn"] = file["cdn"]
    BY <1>0, <2>3, HostNames DEF Put, TypeOK
  <2>4. ASSUME NEW d, file' = [file EXCEPT !["local"] = d]
        PROVE  file'["cdn"] = file["cdn"]
    BY <1>0, <2>4, HostNames DEF TypeOK
  <2> QED
    BY <2>1, <2>2, <2>3, <2>4
<1>3. CASE Control
  BY <1>3 DEF Control
<1>4. CASE Background
  BY <1>0, <1>4 DEF Background
<1> QED
  BY <1>1, <1>2, <1>3, <1>4, StepShape

\* Markers stay.
LEMMA DoneGrows ==
    ASSUME TypeOK, MarkersInOrder, [Next]_vars
    PROVE  done \subseteq done'
BY StepShape DEF Control, Background

LEMMA LateSteps ==
    ASSUME TypeOK, MarkersInOrder
    PROVE  pos \in Steps /\ AtStep(pos) =>
             /\ 29 < pos => 29 \in done
             /\ 31 < pos => 31 \in done
             /\ 29 \in done => 29 < pos
             /\ 31 \in done => 31 < pos
BY StepInOrder, StepNumbers DEF Steps, Applicable

\* What dist and the operator's machine have of a file that was sent stays.
LEMMA SentStays ==
    ASSUME TypeOK, MarkersInOrder, [Next]_vars, NEW f \in Files, 29 \in done
    PROVE  file'["dist"][f] = file["dist"][f]
<1>1. "dist" \in Path
  BY DEF Path
<1>2. CASE Work(f)
  <2>1. 29 < pos
    BY <1>2, LateSteps DEF Work
  <2> QED
    BY <1>1, <1>2, <2>1 DEF Work, Untouched, Moved, Removed, FilesMade, SignedHere, Touch, Drop
<1> QED
  BY <1>1, <1>2, FileStep DEF Quiet, Between

LEMMA CdnStep ==
    ASSUME TypeOK, MarkersInOrder, [Next]_vars, NEW f \in Files, CdnOf(f)
    PROVE  CdnOf(f)'
<1>1. done \subseteq done'
  BY DoneGrows
<1>2. 29 \in done => file'["dist"][f] = file["dist"][f]
  BY SentStays
<1>3. Mars' = Mars /\ Absent' = Absent
  BY DEF Mars, Of, Absent
<1>4. AtStep(31) /\ pos = 31 => 29 \in done
  BY LateSteps DEF Steps
<1>5. CASE pos = 31 /\ AtStep(31) /\ Present("dist", f) /\ file'["cdn"][f] = file["dist"][f]
  BY <1>1, <1>2, <1>3, <1>4, <1>5 DEF CdnOf, Present
<1>6. CASE /\ file'["cdn"][f] = file["cdn"][f]
           /\ pos = 31 /\ AtStep(31) /\ f \in handled' => f \in handled
  <2>1. Present("cdn", f)' => 29 \in done' /\ file'["cdn"][f] = file'["dist"][f]
    BY <1>1, <1>2, <1>3, <1>6 DEF CdnOf, Present
  <2>2. ASSUME Project = "torbrowser", f \in Mars, Reached(31, f)'
        PROVE  file'["cdn"][f] = file'["dist"][f]
    <3>1. CASE Reached(31, f)
      <4>1. 29 \in done
        <5>1. pos = 31 /\ f \in handled => pos \in Steps /\ AtStep(pos)
          BY DEF MarkersInOrder
        <5>2. 31 \in done => 29 \in done
          BY StepNumbers DEF MarkersInOrder, Applicable, Steps, Marker
        <5> QED
          BY <1>4, <3>1, <5>1, <5>2 DEF Reached
      <4> QED
        BY <1>2, <1>6, <2>2, <3>1, <4>1 DEF CdnOf
    <3>2. CASE ~Reached(31, f)
      <4>1. pos = 31 /\ AtStep(31) /\ Complete(31) /\ 29 \in done
        <5>1. ~(pos' = 31 /\ f \in handled')
          <6>1. CASE StepWork
            BY <1>6, <3>2, <6>1, WorkIsAtStep, WorkKeepsRun DEF Reached
          <6> QED
            BY <3>2, <6>1, StepShape DEF Control, Background, Reached
        <5>2. 31 \in done' /\ 31 \notin done
          BY <2>2, <3>2, <5>1 DEF Reached
        <5>3. pos \in Steps /\ AtStep(pos) /\ Complete(pos) /\ done' = done \cup {Marker(pos)}
          BY <5>2, StepShape DEF Control, Background
        <5>4. pos = 31
          BY <5>2, <5>3, StepInOrder
        <5> QED
          BY <1>4, <5>3, <5>4
      <4>2. UsesCdn => (Present("dist", f) => f \in handled)
        BY <2>2, <4>1, StepNumbers DEF Complete, LocalToSignerSteps, SignerToLocalSteps
      <4>3. ~Present("dist", f)
        BY <2>2, <3>2, <4>1, <4>2 DEF UsesCdn, Reached
      <4> QED
        BY <1>2, <1>6, <4>1, <4>3 DEF CdnOf, Present
    <3> QED
      BY <3>1, <3>2
  <2> QED
    BY <1>3, <2>1, <2>2 DEF CdnOf
<1> QED
  BY <1>5, <1>6, CdnChanges

LEMMA ResponsesStep ==
    ASSUME TypeOK, MarkersInOrder, [Next]_vars, ResponsesOK, \A f \in Files : DistOf(f)
    PROVE  ResponsesOK'
<1>1. done \subseteq done'
  BY DoneGrows
<1>2. 31 \in done => 29 \in done
  BY StepNumbers DEF MarkersInOrder, Applicable, Steps, Marker
<1>3. \A f \in Mars : f \in Files
  BY DEF Mars, Of
<1>4. Mars' = Mars /\ NoSums' = NoSums
  BY DEF Mars, Of, NoSums, Absent
<1>5. 31 \in done => \A f \in Mars : file'["dist"][f] = file["dist"][f]
  BY <1>2, <1>3, SentStays
<1>6. CASE responses' = responses
  BY <1>1, <1>4, <1>5, <1>6 DEF ResponsesOK
<1>7. CASE UploadUpdateResponses
  <2>1. pos = 32 /\ AtStep(32)
    BY <1>7, StepNumbers DEF UploadUpdateResponses, AtStep
  <2>2. 31 \in done
    BY <2>1, LateSteps DEF Steps
  <2>3. CASE responses' = [f \in Files |-> IF f \in Mars THEN file["local"][f] ELSE Absent]
    <3>1. \A f \in Mars : responses'[f] = file["dist"][f]
      BY <1>2, <1>3, <2>2, <2>3 DEF DistOf, Reached
    <3> QED
      BY <1>1, <1>4, <1>5, <2>2, <3>1 DEF ResponsesOK
  <2> QED
    BY <1>6, <1>7, <2>3 DEF UploadUpdateResponses
<1>8. CASE \/ SyncBuilderUnsignedToLocalSigned \/ SyncLocalToLinuxSigner
           \/ SyncLinuxSignerToLocal \/ SyncLocalToStaticiforme
  BY <1>6, <1>8 DEF SyncBuilderUnsignedToLocalSigned, SyncLocalToLinuxSigner,
     SyncLinuxSignerToLocal, SyncLocalToStaticiforme, Rsync, Transfer
<1>9. CASE StepWork
  BY <1>6, <1>7, <1>8, <1>9 DEF StepWork, OnlyFiles, CleanBuildArtifacts, ExtractDmg,
     LinuxSignerRcodesignSign, SyncLinuxSignerMacosSignedTarToLocal, RcodesignNotarySubmit,
     GatekeeperBundling, Dmg2mar, LinuxSignerSignmars, LinuxSignerAuthenticodeSigning,
     AuthenticodeTimestamping, HashSignedBundles, LinuxSignerGpgSign, LinuxSignerSignAndroid,
     StaticiformePrepareCdnDistUpload, FinishedSigningCleanLinuxSigner
<1>10. CASE ~StepWork
  BY <1>6, <1>10 DEF Next, Builder, Runner, BuilderMergesFiles, BuilderHashesIncrementals,
     Start, SkipStep, FinishStep, StepFails, Interrupt, Terminated, vars, content
<1> QED
  BY <1>9, <1>10

-----------------------------------------------------------------------------
(* No signature is lost, and the updates are those that were published.    *)

\* What holds of a file on its way through the machines. Without macOS the release has
\* neither an image nor a volume.
PathOK(f) ==
    /\ DistOf(f) /\ CdnOf(f)
    /\ (f \in {Dmg, Hfs} => Macos) => AgeOf(f) /\ MarksOf(f)

AgeInv ==
    /\ ReleaseInv
    /\ \A f \in Files : PathOK(f)
    /\ ResponsesOK

LEMMA AgeInit == Init => AgeInv
<1> SUFFICES ASSUME Init PROVE AgeInv
  OBVIOUS
<1>1. /\ ReleaseInv /\ done = {} /\ handled = {} /\ pos = 0 /\ responses = NoSums
      /\ \A n, f : ~Reached(n, f)
  BY ReleaseInit DEF Init, Reached
<1>2. ASSUME NEW f \in Files
      PROVE  /\ file["signer"][f] = Absent /\ file["dist"][f] = Absent
             /\ file["cdn"][f] = Absent
             /\ file["local"][f] \in {Absent, Unsigned}
             /\ Project # "torvpn" => file["local"][f] = Absent
             /\ Kind[f] \in {"apk", "hfs"} => file["local"][f] = Absent
  BY HostNames DEF Init, NoSums, BuilderOutput
<1>3. /\ Absent \in Content /\ Unsigned \in Content /\ NotNewer(Absent, Unsigned)
      /\ NotNewer(Absent, Absent) /\ Absent.marks = {} /\ Unsigned.marks = {}
  BY ContentFacts, NotNewerFacts DEF Absent, Unsigned
<1>4. ASSUME NEW f \in Files PROVE PathOK(f)
  <2>1. DistOf(f) /\ CdnOf(f)
    BY <1>1, <1>2 DEF DistOf, CdnOf, Present
  <2>2. AgeOf(f)
    BY <1>1, <1>2, <1>3 DEF AgeOf, Present
  <2>3. MarksOf(f)
    BY <1>1, <1>2, <1>3 DEF MarksOf, Present
  <2> QED
    BY <2>1, <2>2, <2>3 DEF PathOK
<1> QED
  BY <1>1, <1>4 DEF AgeInv, ResponsesOK

LEMMA AgeInvStep == AgeInv /\ [Next]_vars => AgeInv'
<1> SUFFICES ASSUME AgeInv, [Next]_vars PROVE AgeInv'
  OBVIOUS
<1>1. /\ ReleaseInv /\ ReleaseInv' /\ ResponsesOK
      /\ TypeOK /\ MarkersInOrder /\ ListedOK /\ BuilderOK /\ TarOK /\ (Macos => DmgOf)
      /\ \A f \in Files : PathOK(f)
  BY ReleaseStep DEF AgeInv, ReleaseInv
<1>2. ResponsesOK'
  BY <1>1, ResponsesStep DEF PathOK
<1>3. Macos => MarksOf(Dmg)
  BY <1>1, FilesAssumption DEF PathOK
<1>4. ASSUME NEW f \in Files PROVE PathOK(f)'
  <2>1. DistOf(f)' /\ CdnOf(f)'
    BY <1>1, DistStep, CdnStep DEF PathOK
  <2>2. (f \in {Dmg, Hfs} => Macos) => AgeOf(f)' /\ MarksOf(f)'
    BY <1>1, <1>3, AgeStep, MarksStep DEF PathOK
  <2> QED
    BY <2>1, <2>2 DEF PathOK, Macos
<1> QED
  BY <1>1, <1>2, <1>4 DEF AgeInv

\* A step makes a file newer, or removes it, or leaves it.
LEMMA StepGrows ==
    ASSUME AgeInv, [Next]_vars, NEW h \in Hosts, NEW f \in Files, file'[h][f] # Absent
    PROVE  NotNewer(file[h][f], file'[h][f])
<1>1. /\ TypeOK /\ TypeOK' /\ MarkersInOrder /\ ListedOK /\ BuilderOK /\ TarOK
      /\ Macos => DmgOf
      /\ FileOK(f) /\ FileOK(f)' /\ PathOK(f)
  BY ReleaseStep DEF AgeInv, ReleaseInv
<1>2. file[h][f] \in Content /\ file'[h][f] \in Content
  BY <1>1, MarksType DEF TypeOK
<1>3. CASE h = "builder"
  BY <1>1, <1>2, <1>3, BuilderFiles, NotNewerFacts
<1>4. CASE h = "cdn"
  <2>1. file'["cdn"][f] = file["cdn"][f] \/ file'["cdn"][f] = file["dist"][f]
    BY <1>1, CdnChanges
  <2>2. Present("cdn", f) => file["cdn"][f] = file["dist"][f]
    BY <1>1 DEF PathOK, CdnOf
  <2> QED
    BY <1>2, <1>4, <2>1, <2>2, NotNewerFacts DEF Present
<1>5. CASE h \in Path
  <2>1. CASE Quiet(f) \/ Between(f)
    BY <1>2, <1>5, <2>1, NotNewerFacts DEF Quiet, Between
  <2>2. CASE Work(f)
    <3>1. CASE f \in {Dmg, Hfs} => Macos
      BY <1>1, <1>5, <2>2, <3>1, WorkGrows DEF PathOK
    <3>2. CASE f \in {Dmg, Hfs} /\ ~Macos
      <4>1. NoMacOf(f)'
        BY <1>1, <3>2 DEF FileOK, Macos
      <4> QED
        BY <1>5, <4>1 DEF NoMacOf, Path, Absent
    <3> QED
      BY <3>1, <3>2
  <2> QED
    BY <1>1, <2>1, <2>2, FileStep
<1> QED
  BY <1>3, <1>4, <1>5 DEF Hosts, Path

\* No step and no transfer, in either direction, brings back an older revision of a file
\* or one with fewer signatures, for every release and however its runs are interrupted.
THEOREM SignaturesStay == Spec => NoSignatureLost
<1>1. AgeInv /\ [Next]_vars =>
        [\A h \in Hosts, f \in Files :
             file'[h][f] # Absent =>
                /\ file[h][f].marks \subseteq file'[h][f].marks
                /\ file[h][f].rev <= file'[h][f].rev]_vars
  BY StepGrows DEF NotNewer
<1> QED
  BY <1>1, AgeInit, AgeInvStep, PTL DEF Spec, NoSignatureLost

\* The cdn and the responses have the mars of dist, and the responses are pushed after
\* the cdn has them, for every release and however its runs are interrupted.
THEOREM UpdatesMatch == Spec => []UpdatesMatchMars
<1>1. AgeInv => UpdatesMatchMars
  <2> SUFFICES ASSUME AgeInv PROVE UpdatesMatchMars
    OBVIOUS
  <2>1. \A f \in Mars : f \in Files
    BY DEF Mars, Of
  <2>2. \A f \in Mars : CdnOf(f)
    BY <2>1 DEF AgeInv, PathOK
  <2>3. responses # NoSums => 31 \in done /\ \A f \in Mars : responses[f] = file["dist"][f]
    BY DEF AgeInv, ResponsesOK
  <2> QED
    BY <2>2, <2>3 DEF UpdatesMatchMars, CdnOf, Reached
<1> QED
  BY <1>1, AgeInit, AgeInvStep, PTL DEF Spec

-----------------------------------------------------------------------------
(* Checksums and detached signatures.                                      *)

\* What has been brought back to the operator stays there.
HereOf(f) ==
    /\ Kind[f] = "apk" /\ Reached(19, f) /\ Present("signer", f) => Present("local", f)
    /\ Kind[f] = "macinc" /\ Reached(12, f) => Present("local", f)

\* No step makes any artifact again.
Sealed ==
    \A f \in Files : BackStep(f) \in done /\ (Kind[f] = "exe" => 23 \in done)

LEMMA HereStep ==
    ASSUME TypeOK, MarkersInOrder, ListedOK, [Next]_vars, NEW f \in Files, HereOf(f),
           Kind[f] = "macinc" => MacMarOf(f)
    PROVE  HereOf(f)'
<1>0. "local" \in Path /\ "signer" \in Path /\ "dist" \in Path /\ "local" # "signer"
  BY DEF Path
<1>1. /\ f = Dmg <=> Kind[f] = "dmg"
      /\ f = Hfs <=> Kind[f] = "hfs"
      /\ f \in listed["local"] => Kind[f] = "macinc"
      /\ Kind[f] = "macinc" => Macos
  BY KindFacts, KindSteps DEF ListedOK, Of
<1>2. pos \in Steps /\ AtStep(pos) =>
        /\ pos \notin done
        /\ \A k \in done : k < pos
  BY StepInOrder
<1>3. CASE Quiet(f)
  BY <1>0, <1>3 DEF Quiet, HereOf, Reached, Present, Absent
<1>4. CASE Between(f)
  <2>1. /\ pos = 19 /\ Complete(pos) /\ pos \in Steps /\ Present("signer", f) => f \in handled
        /\ pos = 12 /\ Complete(pos) /\ pos \in Steps /\ Kind[f] = "macinc" => f \in handled
    BY CompleteMeans
  <2> QED
    BY <1>0, <1>4, <2>1 DEF Between, HereOf, Reached, Present, Absent
<1>5. CASE Work(f)
  <2>0. /\ UNCHANGED <<done, pos>> /\ pos \in Steps /\ AtStep(pos)
        /\ handled \subseteq handled' /\ pos \notin done /\ \A k \in done : k < pos
        /\ f \in handled /\ pos = 12 /\ Kind[f] = "macinc" => "rm" \in handled
    BY <1>2, <1>5 DEF Work, MacMarOf
  <2> USE <1>0, <1>1, <2>0 DEF HereOf, Reached, Present
  <2>1. CASE Untouched(f)
    BY <2>1 DEF Untouched, Absent
  <2>2. CASE Moved(f)
    BY <2>2 DEF Moved, Touch, Absent
  <2>3. CASE Removed(f)
    BY <2>3 DEF Removed, Drop, Touch, Absent
  <2>4. CASE FilesMade(f)
    <3>1. Rewrite(Absent, file["local"][Dmg].marks) # Absent
      BY DEF Rewrite, Absent
    <3>2. CASE pos = 12
      BY <2>4, <3>1, <3>2 DEF FilesMade, Touch, Absent
    <3>3. CASE pos # 12
      BY <2>4, <3>3 DEF FilesMade, Touch, Absent
    <3> QED
      BY <3>2, <3>3
  <2>5. CASE SignedHere(f)
    BY <2>5 DEF SignedHere, Touch, Absent
  <2> QED
    BY <1>5, <2>1, <2>2, <2>3, <2>4, <2>5 DEF Work
<1> QED
  BY <1>3, <1>4, <1>5, FileStep

\* Once nothing is made again, the signer has no file that the operator lacks, and the
\* same version of those it has.
LEMMA SealedSame ==
    ASSUME AgeInv, NEW f \in Files, HereOf(f), Sealed, Present("signer", f)
    PROVE  Present("local", f) /\ file["signer"][f] = file["local"][f]
<1>1. /\ FileOK(f) /\ PathOK(f) /\ MarkersInOrder /\ (Macos => DmgOf /\ HfsOf)
      /\ BackStep(f) \in done /\ (Kind[f] = "exe" => 23 \in done)
      /\ "signer" \in Path
  BY DEF AgeInv, ReleaseInv, Sealed, Path
<1>2. f \in {Dmg, Hfs} => Macos
  BY <1>1 DEF FileOK, NoMacOf, Present
<1>3. AgeOf(f) /\ MarksOf(f)
  BY <1>1, <1>2 DEF PathOK
<1>4. /\ f = Dmg <=> Kind[f] = "dmg"
      /\ f = Hfs <=> Kind[f] = "hfs"
      /\ f \in Mars <=> Kind[f] \in {"mar", "macmar", "macinc"}
      /\ Kind[f] \in Kinds
  BY KindFacts
<1>5. \A n \in Steps \ {13}, k \in done : n < k /\ Applicable(n) => n \in done
  BY <1>1 DEF MarkersInOrder, Marker, sync_scripts_to_linux_signer_again
<1>6. Kind[f] # "test"
  BY <1>1 DEF FileOK, TestOf
<1>7. Kind[f] # "hfs"
  <2> SUFFICES ASSUME Kind[f] = "hfs" PROVE FALSE
    OBVIOUS
  <2>1. Macos /\ BackStep(f) = 14 /\ 14 \in done
    BY <1>1, <1>2, <1>4, BackFacts
  <2>2. 8 \in done
    BY <2>1, <1>5, KindSteps DEF Steps
  <2> QED
    BY <1>1, <1>4, <2>1, <2>2 DEF HfsOf
<1>8. Kind[f] = "dmg" => Present("local", f)
  <2> SUFFICES ASSUME Kind[f] = "dmg" PROVE Present("local", f)
    OBVIOUS
  <2>1. Macos /\ 12 \in done
    BY <1>2, <1>3, <1>4 DEF MarksOf
  <2>2. 11 \in done
    BY <2>1, <1>5, KindSteps DEF Steps
  <2> QED
    BY <1>1, <1>4, <2>1, <2>2 DEF DmgOf, Reached
<1>9. Kind[f] = "macinc" => Present("local", f)
  <2> SUFFICES ASSUME Kind[f] = "macinc" PROVE Present("local", f)
    OBVIOUS
  <2>1. Macos /\ 16 \in done
    BY <1>1, <1>4, BackFacts, KindSteps
  <2>2. 12 \in done
    BY <2>1, <1>5, KindSteps DEF Steps
  <2> QED
    BY <2>2 DEF HereOf, Reached
<1>10. Kind[f] = "apk" => Present("local", f)
  BY <1>1, BackFacts DEF HereOf, Reached
<1>11. Present("local", f)
  BY <1>3, <1>4, <1>6, <1>7, <1>8, <1>9, <1>10 DEF AgeOf, Lasting, Kinds
<1> QED
  BY <1>1, <1>3, <1>11 DEF AgeOf, Reached

\* At hash_signed_bundles and after, nothing is made again.
LEMMA LateIsSealed ==
    ASSUME TypeOK, MarkersInOrder, pos \in Steps, AtStep(pos), 24 <= pos
    PROVE  Sealed
BY NumberedHolds, BackFacts DEF Sealed, Steps

LEMMA SealedStays ==
    ASSUME AgeInv, \A f \in Files : HereOf(f), [Next]_vars, Sealed
    PROVE  Sealed' /\ file'["local"] = file["local"]
<1>1. TypeOK /\ TypeOK' /\ MarkersInOrder /\ ListedOK
  BY StepType DEF AgeInv, ReleaseInv
<1>2. Sealed'
  BY <1>1, DoneGrows DEF Sealed, BackStep, Mars, Of
<1>3. ASSUME NEW f \in Files PROVE file'["local"][f] = file["local"][f]
  <2>0. "local" \in Path /\ "signer" \in Path /\ "dist" \in Path /\ "local" # "signer"
    BY DEF Path
  <2>1. CASE Quiet(f) \/ Between(f)
    BY <2>0, <2>1 DEF Quiet, Between
  <2>2. CASE Work(f)
    <3>1. /\ pos \in Steps /\ BackStep(f) \in {14, 16, 19, 21} /\ BackStep(f) < pos
          /\ Kind[f] = "exe" => 23 < pos
      BY <1>1, <2>2, BackFacts, StepInOrder DEF Work, Sealed
    <3>2. Present("signer", f) => file["signer"][f] = file["local"][f]
      BY SealedSame
    <3> QED
      BY <2>0, <2>2, <3>1, <3>2 DEF Work, Untouched, Moved, Removed, FilesMade, SignedHere, Touch,
         Drop, Steps
  <2> QED
    BY <1>1, <2>1, <2>2, FileStep
<1>4. file["local"] \in [Files -> Content] /\ file'["local"] \in [Files -> Content]
  BY <1>1, HostNames DEF TypeOK, Hosts, Content, Marks
<1> QED
  BY <1>2, <1>3, <1>4

\* The transfers, by the number of the step.
Route(src, dst) ==
    \/ pos = 3 /\ src = "builder" /\ dst = "local"
    \/ pos \in {7, 14, 23, 25} /\ src = "local" /\ dst = "signer"
    \/ pos \in {16, 19, 21, 27} /\ src = "signer" /\ dst = "local"
    \/ pos = 29 /\ src = "local" /\ dst = "dist"

FileKept(f) == \A g \in Path : file'[g][f] = file[g][f]
AscKept(f) == \A g \in Path : asc'[g][f] = asc[g][f]

\* What a piece of work does to the detached signature of one file.
AscSent(f, src, dst) ==
    /\ Route(src, dst) /\ Present(src, f) /\ f \in handled'
    /\ file'[dst][f] = file[src][f]
    /\ asc'[dst][f] = IF asc[src][f] # Absent THEN asc[src][f] ELSE asc[dst][f]
    /\ \A g \in Path \ {dst} : file'[g][f] = file[g][f] /\ asc'[g][f] = asc[g][f]

AscMade(f) ==
    /\ pos = 26 /\ Present("signer", f) /\ f \in handled' /\ FileKept(f)
    /\ asc'["signer"][f] = file["signer"][f]
    /\ \A g \in Path \ {"signer"} : asc'[g][f] = asc[g][f]

AscDropped(f) ==
    /\ pos = 33
    /\ asc'["signer"][f] \in {Absent, asc["signer"][f]}
    /\ \A g \in Path \ {"signer"} : file'[g][f] = file[g][f] /\ asc'[g][f] = asc[g][f]

AscWork(f) ==
    \/ /\ AscKept(f)
       /\ pos \in {25, 26, 27, 29} => FileKept(f) /\ (f \in handled' => f \in handled)
    \/ \E src \in Path \cup {"builder"}, dst \in Path : AscSent(f, src, dst)
    \/ AscMade(f)
    \/ AscDropped(f)

\* What a piece of work does to the checksums and their signature.
SumsSent(src, dst) ==
    /\ Route(src, dst) /\ sums[src] # NoSums
    /\ sums' = [sums EXCEPT ![dst] = sums[src]]
    /\ sumsAsc' = [sumsAsc EXCEPT ![dst] = IF sumsAsc[src] # NoSums THEN sumsAsc[src] ELSE @]

SumsDropped ==
    /\ pos = 33
    /\ sums' = [sums EXCEPT !["signer"] = NoSums]
    /\ sumsAsc' = [sumsAsc EXCEPT !["signer"] = NoSums]

SumsWork ==
    \/ /\ UNCHANGED <<sums, sumsAsc>>
       /\ pos \in {24, 25, 26, 27, 29} => ("sums" \in handled' => "sums" \in handled)
    \/ \E src \in Path \cup {"builder"}, dst \in Path : SumsSent(src, dst)
    \/ /\ pos = 24 /\ sums' = [sums EXCEPT !["local"] = file["local"]] /\ sumsAsc' = sumsAsc
    \/ /\ pos = 26 /\ sums' = sums
       /\ sumsAsc' = [sumsAsc EXCEPT !["signer"] = sums["signer"]]
    \/ SumsDropped

PaperWork ==
    /\ UNCHANGED <<done, pos>> /\ handled \subseteq handled'
    /\ pos \in Steps /\ AtStep(pos)
    /\ SumsWork
    /\ \A f \in Files : AscWork(f)

\* The steps that touch no artifact, and may end a step.
PaperRest ==
    /\ \A g \in Path : file'[g] = file[g]
    /\ UNCHANGED <<asc, sums, sumsAsc>>
    /\ \/ UNCHANGED <<done, pos, handled>>
       \/ handled' = {} /\ done' = done
       \/ /\ handled' = {} /\ pos \in Steps /\ AtStep(pos) /\ Complete(pos)
          /\ done' = done \cup {pos}

LEMMA RsyncPapers ==
    ASSUME TypeOK, NEW src \in Path \cup {"builder"}, NEW dst \in Path, Route(src, dst),
           Rsync(src, dst)
    PROVE  /\ handled \subseteq handled' /\ SumsWork
           /\ \A f \in Files : AscWork(f)
<1>0. /\ Path \subseteq Hosts /\ src \in Hosts /\ dst \in Hosts
      /\ "sums" \notin Files
  BY FilesAssumption DEF Path, Hosts, Labels
<1>1. PICK u \in Transferable(src) \ handled : Transfer(src, dst, u) /\ Did(u)
  BY DEF Rsync
<1>2. handled' = handled \cup {u}
  BY <1>1 DEF Did
<1>3. CASE u = "sums"
  <2>1. sums[src] # NoSums
    BY <1>0, <1>1, <1>3 DEF Transferable
  <2>2. SumsSent(src, dst) /\ UNCHANGED <<file, asc>>
    BY <1>1, <1>3, <2>1 DEF SumsSent, Transfer
  <2>3. \A f \in Files : AscWork(f)
    BY <1>0, <1>2, <1>3, <2>2 DEF AscWork, AscKept, FileKept
  <2> QED
    BY <1>2, <2>2, <2>3 DEF SumsWork
<1>4. CASE u # "sums"
  <2>1. /\ u \in Files /\ Present(src, u) /\ UNCHANGED <<sums, sumsAsc>>
        /\ file' = Put(dst, u, file[src][u])
        /\ asc' = [asc EXCEPT ![dst][u] = IF asc[src][u] # Absent THEN asc[src][u] ELSE @]
    BY <1>1, <1>4 DEF Transferable, Transfer
  <2>2. SumsWork
    BY <1>2, <1>4, <2>1 DEF SumsWork
  <2>3. ASSUME NEW f \in Files PROVE AscWork(f)
    <3>1. \A g \in Path : file'[g][f] = IF g = dst /\ f = u THEN file[src][u] ELSE file[g][f]
      BY <1>0, <2>1 DEF Put, TypeOK
    <3>2. \A g \in Path : asc'[g][f] = IF g = dst /\ f = u
                                       THEN IF asc[src][u] # Absent THEN asc[src][u]
                                            ELSE asc[dst][u]
                                       ELSE asc[g][f]
      BY <1>0, <2>1 DEF TypeOK
    <3>3. CASE f = u
      <4>1. AscSent(f, src, dst)
        BY <1>2, <2>1, <3>1, <3>2, <3>3 DEF AscSent
      <4> QED
        BY <4>1 DEF AscWork
    <3>4. CASE f # u
      BY <1>2, <3>1, <3>2, <3>4 DEF AscWork, AscKept, FileKept
    <3> QED
      BY <3>3, <3>4
  <2> QED
    BY <1>2, <2>2, <2>3
<1> QED
  BY <1>3, <1>4

LEMMA PapersKept ==
    ASSUME UNCHANGED <<asc, sums, sumsAsc>>, pos \notin {24, 25, 26, 27, 29}
    PROVE  SumsWork /\ \A f \in Files : AscWork(f)
BY DEF SumsWork, AscWork, AscKept

LEMMA WorkPapers ==
    ASSUME TypeOK, StepWork
    PROVE  handled \subseteq handled' /\ SumsWork /\ \A f \in Files : AscWork(f)
<1> USE StepNumbers
<1>0. /\ "local" \in Path /\ "signer" \in Path /\ "dist" \in Path /\ Path \subseteq Hosts
      /\ "sums" \notin Files
  BY FilesAssumption DEF Path, Hosts, Labels
<1>1. \A u : Did(u) => handled \subseteq handled' /\ handled' = handled \cup {u}
  BY DEF Did
<1>2. CASE SyncBuilderUnsignedToLocalSigned
  BY <1>0, <1>2, RsyncPapers DEF SyncBuilderUnsignedToLocalSigned, AtStep, Route
<1>3. CASE SyncLocalToLinuxSigner
  BY <1>0, <1>3, RsyncPapers DEF SyncLocalToLinuxSigner, LocalToSignerSteps, Route
<1>4. CASE SyncLinuxSignerToLocal
  BY <1>0, <1>4, RsyncPapers DEF SyncLinuxSignerToLocal, SignerToLocalSteps, Route
<1>5. CASE SyncLocalToStaticiforme
  BY <1>0, <1>5, RsyncPapers DEF SyncLocalToStaticiforme, AtStep, Route
<1>6. CASE HashSignedBundles
  <2>1. /\ pos = 24 /\ sums' = [sums EXCEPT !["local"] = file["local"]] /\ Did("sums")
        /\ UNCHANGED <<file, asc, sumsAsc>>
    BY <1>6 DEF HashSignedBundles, AtStep
  <2> QED
    BY <1>1, <2>1 DEF SumsWork, AscWork, AscKept
<1>7. CASE LinuxSignerGpgSign
  <2>1. pos = 26 /\ UNCHANGED <<file, sums>>
    BY <1>7 DEF LinuxSignerGpgSign, AtStep
  <2>2. CASE sumsAsc' = [sumsAsc EXCEPT !["signer"] = sums["signer"]] /\ asc' = asc /\ Did("sums")
    BY <1>0, <1>1, <2>1, <2>2 DEF SumsWork, AscWork, AscKept, FileKept
  <2>3. CASE /\ sumsAsc' = sumsAsc
             /\ \E g \in Files : /\ Present("signer", g)
                                 /\ asc' = [asc EXCEPT !["signer"][g] = file["signer"][g]]
                                 /\ Did(g)
    <3>1. PICK g \in Files : /\ Present("signer", g)
                             /\ asc' = [asc EXCEPT !["signer"][g] = file["signer"][g]]
                             /\ Did(g)
      BY <2>3
    <3>2. SumsWork
      BY <1>0, <1>1, <2>1, <2>3, <3>1 DEF SumsWork
    <3>3. ASSUME NEW f \in Files PROVE AscWork(f)
      <4>1. \A h \in Path : asc'[h][f] = IF h = "signer" /\ f = g THEN file["signer"][g]
                                         ELSE asc[h][f]
        BY <1>0, <3>1 DEF TypeOK
      <4>2. FileKept(f)
        BY <2>1 DEF FileKept
      <4>3. CASE f = g
        <5>1. AscMade(f)
          BY <1>0, <1>1, <2>1, <3>1, <4>1, <4>2, <4>3 DEF AscMade
        <5> QED
          BY <5>1 DEF AscWork
      <4>4. CASE f # g
        BY <1>1, <3>1, <4>1, <4>2, <4>4 DEF AscWork, AscKept
      <4> QED
        BY <4>3, <4>4
    <3> QED
      BY <1>1, <3>1, <3>2, <3>3
  <2> QED
    BY <1>7, <2>2, <2>3 DEF LinuxSignerGpgSign, GpgSigned, Of
<1>8. CASE FinishedSigningCleanLinuxSigner
  <2>1. pos = 33 /\ Did("rm")
    BY <1>8 DEF FinishedSigningCleanLinuxSigner, AtStep
  <2>2. CASE /\ sums' = [sums EXCEPT !["signer"] = NoSums]
             /\ sumsAsc' = [sumsAsc EXCEPT !["signer"] = NoSums]
             /\ UNCHANGED <<file, asc>>
    <3>1. SumsDropped
      BY <2>1, <2>2 DEF SumsDropped
    <3>2. \A f \in Files : AscWork(f)
      BY <2>1, <2>2 DEF AscWork, AscKept
    <3> QED
      BY <1>1, <2>1, <3>1, <3>2 DEF SumsWork
  <2>3. CASE /\ UNCHANGED <<sums, sumsAsc>>
             /\ \E u \in Files : /\ file' = Put("signer", u, Absent)
                                 /\ asc' = [asc EXCEPT !["signer"][u] = Absent]
    <3>1. PICK u \in Files : /\ file' = Put("signer", u, Absent)
                             /\ asc' = [asc EXCEPT !["signer"][u] = Absent]
      BY <2>3
    <3>2. SumsWork
      BY <2>1, <2>3 DEF SumsWork
    <3>3. ASSUME NEW f \in Files PROVE AscWork(f)
      <4>1. \A h \in Path : /\ asc'[h][f] = IF h = "signer" /\ f = u THEN Absent ELSE asc[h][f]
                            /\ file'[h][f] = IF h = "signer" /\ f = u THEN Absent ELSE file[h][f]
        BY <1>0, <3>1 DEF TypeOK, Put
      <4>2. AscDropped(f)
        BY <1>0, <2>1, <4>1 DEF AscDropped
      <4> QED
        BY <4>2 DEF AscWork
    <3> QED
      BY <1>1, <2>1, <3>2, <3>3
  <2> QED
    BY <1>8, <2>2, <2>3 DEF FinishedSigningCleanLinuxSigner, Transferable
<1>9. ASSUME UNCHANGED <<asc, sums, sumsAsc>>, pos \notin {24, 25, 26, 27, 29},
             handled \subseteq handled'
      PROVE  handled \subseteq handled' /\ SumsWork /\ \A f \in Files : AscWork(f)
  BY <1>9, PapersKept
<1>10. CASE CleanBuildArtifacts \/ ExtractDmg \/ LinuxSignerRcodesignSign \/ GatekeeperBundling
  BY <1>1, <1>9, <1>10 DEF CleanBuildArtifacts, ExtractDmg, LinuxSignerRcodesignSign,
     GatekeeperBundling, OnlyFiles, AtStep
<1>11. CASE \/ SyncLinuxSignerMacosSignedTarToLocal \/ RcodesignNotarySubmit \/ Dmg2mar
            \/ UploadUpdateResponses \/ StaticiformePrepareCdnDistUpload
  BY <1>1, <1>9, <1>11 DEF SyncLinuxSignerMacosSignedTarToLocal, RcodesignNotarySubmit, Dmg2mar,
     UploadUpdateResponses, StaticiformePrepareCdnDistUpload, OnlyFiles, AtStep
<1>12. CASE LinuxSignerSignmars \/ LinuxSignerAuthenticodeSigning \/ AuthenticodeTimestamping
  <2>1. pos \in {15, 20, 22} /\ OnlyFiles
    BY <1>12 DEF LinuxSignerSignmars, LinuxSignerAuthenticodeSigning,
       AuthenticodeTimestamping, AtStep
  <2>2. \E f \in Files : Did(f)
    BY <1>12 DEF LinuxSignerSignmars, LinuxSignerAuthenticodeSigning,
       AuthenticodeTimestamping, Mars, Of
  <2> QED
    BY <1>1, <1>9, <2>1, <2>2 DEF OnlyFiles
<1>13. CASE \E k \in {"apk", "aab"} : LinuxSignerSignAndroid(k)
  <2>1. PICK k \in {"apk", "aab"} : LinuxSignerSignAndroid(k)
    BY <1>13
  <2>2. pos \in {17, 18} /\ OnlyFiles /\ \E f \in Of({k}) : Did(f)
    BY <2>1 DEF LinuxSignerSignAndroid, AtStep
  <2> QED
    BY <1>1, <1>9, <2>2 DEF OnlyFiles
<1> QED
  BY <1>2, <1>3, <1>4, <1>5, <1>6, <1>7, <1>8, <1>10, <1>11, <1>12, <1>13 DEF StepWork

LEMMA PaperStep ==
    ASSUME TypeOK, MarkersInOrder, [Next]_vars
    PROVE  PaperRest \/ PaperWork
<1>0. \A g \in Path : g \in Hosts \ {"builder"}
  BY DEF Path, Hosts
<1>1. CASE StepWork
  <2>1. UNCHANGED <<done, pos>> /\ pos \in Steps /\ AtStep(pos)
    BY <1>1, WorkKeepsRun, WorkIsAtStep
  <2> QED
    BY <1>1, <2>1, WorkPapers DEF PaperWork
<1>2. CASE ~StepWork
  <2>1. UNCHANGED <<asc, sums, sumsAsc>>
    BY <1>2 DEF Next, Builder, Runner, BuilderMergesFiles, BuilderHashesIncrementals,
       Start, SkipStep, FinishStep, StepFails, Interrupt, Terminated, vars, content
  <2>2. CASE Control
    <3>1. pos \in Steps /\ AtStep(pos) => Marker(pos) = pos
      BY StepInOrder
    <3> QED
      BY <2>1, <2>2, <3>1 DEF Control, PaperRest
  <2>3. CASE Background
    BY <1>0, <2>1, <2>3 DEF Background, PaperRest
  <2>4. CASE UNCHANGED <<file, listed, tar, built, done, pos, handled>>
    BY <2>1, <2>4 DEF PaperRest
  <2> QED
    BY <1>2, <2>2, <2>3, <2>4, StepShape
<1> QED
  BY <1>1, <1>2

\* Checksums and signatures are of what the operator has, and exist only once nothing is
\* made again.
SumsOK ==
    /\ sums["builder"] = NoSums
    /\ \A h \in Path : sums[h] # NoSums => Sealed /\ sums[h] = file["local"]
    /\ \A h \in Path : sumsAsc[h] # NoSums => Sealed /\ sumsAsc[h] = file["local"]
    /\ sumsAsc["dist"] # NoSums => sums["dist"] # NoSums

AscOK(f) ==
    /\ asc["builder"][f] = Absent
    /\ \A h \in Path : asc[h][f] # Absent => Sealed /\ asc[h][f] = file["local"][f]
    /\ asc["dist"][f] # Absent => Present("dist", f)

LEMMA SumsStep ==
    ASSUME AgeInv, \A f \in Files : HereOf(f), SumsOK, [Next]_vars
    PROVE  SumsOK'
<1>0. /\ TypeOK /\ MarkersInOrder /\ "builder" \notin Path /\ Path \subseteq Hosts
      /\ "local" \in Path /\ "signer" \in Path /\ "dist" \in Path /\ "builder" \in Hosts
      /\ NoSums' = NoSums
  BY DEF AgeInv, ReleaseInv, Path, Hosts, NoSums, Absent
<1>1. Sealed => Sealed' /\ file'["local"] = file["local"]
  BY SealedStays
<1>2. CASE PaperRest
  BY <1>0, <1>1, <1>2 DEF PaperRest, SumsOK
<1>3. CASE PaperWork
  <2>0. pos \in Steps /\ AtStep(pos)
    BY <1>3 DEF PaperWork
  <2>1. CASE UNCHANGED <<sums, sumsAsc>>
    BY <1>0, <1>1, <2>1 DEF SumsOK
  <2>2. ASSUME NEW src \in Path \cup {"builder"}, NEW dst \in Path, SumsSent(src, dst)
        PROVE  SumsOK'
    <3>1. src \in Path /\ sums[src] # NoSums /\ sums[src] = file["local"] /\ Sealed
      BY <2>2 DEF SumsOK, SumsSent
    <3>2. \A h \in Hosts :
            /\ sums'[h] = IF h = dst THEN sums[src] ELSE sums[h]
            /\ sumsAsc'[h] = IF h = dst /\ sumsAsc[src] # NoSums THEN sumsAsc[src] ELSE sumsAsc[h]
      BY <1>0, <2>2 DEF SumsSent, TypeOK
    <3> QED
      BY <1>0, <1>1, <3>1, <3>2 DEF SumsOK
  <2>3. CASE pos = 24 /\ sums' = [sums EXCEPT !["local"] = file["local"]] /\ sumsAsc' = sumsAsc
    <3>1. Sealed
      BY <1>0, <2>0, <2>3, LateIsSealed
    <3>2. \A h \in Hosts : sums'[h] = IF h = "local" THEN file["local"] ELSE sums[h]
      BY <1>0, <2>3 DEF TypeOK
    <3> QED
      BY <1>0, <1>1, <2>3, <3>1, <3>2 DEF SumsOK
  <2>4. CASE /\ sums' = sums
             /\ sumsAsc' = [sumsAsc EXCEPT !["signer"] = sums["signer"]]
    <3>1. \A h \in Hosts : sumsAsc'[h] = IF h = "signer" THEN sums["signer"] ELSE sumsAsc[h]
      BY <1>0, <2>4 DEF TypeOK
    <3> QED
      BY <1>0, <1>1, <2>4, <3>1 DEF SumsOK
  <2>5. CASE SumsDropped
    <3>1. \A h \in Hosts : /\ sums'[h] = IF h = "signer" THEN NoSums ELSE sums[h]
                           /\ sumsAsc'[h] = IF h = "signer" THEN NoSums ELSE sumsAsc[h]
      BY <1>0, <2>5 DEF SumsDropped, TypeOK
    <3> QED
      BY <1>0, <1>1, <3>1 DEF SumsOK
  <2> QED
    BY <1>3, <2>1, <2>2, <2>3, <2>4, <2>5 DEF PaperWork, SumsWork
<1> QED
  BY <1>0, <1>2, <1>3, PaperStep

\* Nobody writes a signature on the builder.
LEMMA BuilderAsc ==
    ASSUME TypeOK, [Next]_vars
    PROVE  asc'["builder"] = asc["builder"]
<1>1. \A h \in Hosts \ {"builder"}, f \in Files : \A c :
         asc' = [asc EXCEPT ![h][f] = c] => asc'["builder"] = asc["builder"]
  BY HostNames DEF TypeOK
<1>2. \A src, dst \in Hosts : dst # "builder" /\ Rsync(src, dst) =>
         asc'["builder"] = asc["builder"]
  <2> SUFFICES ASSUME NEW src \in Hosts, NEW dst \in Hosts, dst # "builder", Rsync(src, dst)
               PROVE  asc'["builder"] = asc["builder"]
    OBVIOUS
  <2>1. PICK u \in Transferable(src) \ handled : Transfer(src, dst, u)
    BY DEF Rsync
  <2>2. CASE u = "sums"
    BY <2>1, <2>2 DEF Transfer
  <2>3. CASE u # "sums"
    <3>1. u \in Files
      BY <2>3 DEF Transferable
    <3>2. asc' = [asc EXCEPT ![dst][u] = IF asc[src][u] # Absent THEN asc[src][u]
                                          ELSE asc[dst][u]]
      BY <2>1, <2>3 DEF Transfer
    <3> QED
      BY <1>1, <3>1, <3>2
  <2> QED
    BY <2>2, <2>3
<1>3. CASE \/ SyncBuilderUnsignedToLocalSigned \/ SyncLocalToLinuxSigner
           \/ SyncLinuxSignerToLocal \/ SyncLocalToStaticiforme
  BY <1>2, <1>3, HostNames DEF SyncBuilderUnsignedToLocalSigned, SyncLocalToLinuxSigner,
     SyncLinuxSignerToLocal, SyncLocalToStaticiforme
<1>4. CASE LinuxSignerGpgSign \/ FinishedSigningCleanLinuxSigner
  <2>1. asc' = asc \/ \E f \in Files : \E c : asc' = [asc EXCEPT !["signer"][f] = c]
    BY <1>4 DEF LinuxSignerGpgSign, FinishedSigningCleanLinuxSigner, GpgSigned, Of, Transferable
  <2> QED
    BY <1>1, <2>1, HostNames
<1>5. CASE StepWork
  BY <1>3, <1>4, <1>5 DEF StepWork, OnlyFiles, CleanBuildArtifacts, ExtractDmg,
     LinuxSignerRcodesignSign, SyncLinuxSignerMacosSignedTarToLocal, RcodesignNotarySubmit,
     GatekeeperBundling, Dmg2mar, LinuxSignerSignmars, LinuxSignerAuthenticodeSigning,
     AuthenticodeTimestamping, HashSignedBundles, LinuxSignerSignAndroid,
     StaticiformePrepareCdnDistUpload, UploadUpdateResponses
<1>6. CASE ~StepWork
  BY <1>6 DEF Next, Builder, Runner, BuilderMergesFiles, BuilderHashesIncrementals,
     Start, SkipStep, FinishStep, StepFails, Interrupt, Terminated, vars, content
<1> QED
  BY <1>5, <1>6

LEMMA AscStep ==
    ASSUME AgeInv, \A f \in Files : HereOf(f), [Next]_vars, NEW f \in Files, AscOK(f)
    PROVE  AscOK(f)'
<1>0. /\ TypeOK /\ MarkersInOrder /\ "builder" \notin Path
      /\ "local" \in Path /\ "signer" \in Path /\ "dist" \in Path
      /\ asc'["builder"][f] = asc["builder"][f]
      /\ Absent' = Absent
  BY BuilderAsc DEF AgeInv, ReleaseInv, Path, Absent
<1>1. Sealed => Sealed' /\ file'["local"] = file["local"]
  BY SealedStays
<1>2. Present("dist", f) => Present("dist", f)'
  <2>1. CASE Quiet(f) \/ Between(f)
    BY <1>0, <2>1 DEF Quiet, Between, Present, Absent
  <2>2. CASE Work(f)
    BY <1>0, <2>2 DEF Work, Untouched, Moved, Removed, FilesMade, SignedHere, Touch, Drop, Present,
       Absent, Path
  <2> QED
    BY <1>0, <2>1, <2>2, FileStep
<1>3. CASE AscKept(f)
  BY <1>0, <1>1, <1>2, <1>3 DEF AscKept, AscOK
<1>4. CASE PaperRest
  BY <1>0, <1>1, <1>2, <1>4 DEF PaperRest, AscOK
<1>5. CASE PaperWork
  <2>0. pos \in Steps /\ AtStep(pos) /\ AscWork(f)
    BY <1>5 DEF PaperWork
  <2>1. ASSUME NEW src \in Path \cup {"builder"}, NEW dst \in Path, AscSent(f, src, dst)
        PROVE  AscOK(f)'
    <3>1. asc[src][f] # Absent => src \in Path /\ Sealed /\ asc[src][f] = file["local"][f]
      BY DEF AscOK
    <3>2. \A h \in Path : asc'[h][f] = IF h = dst /\ asc[src][f] # Absent THEN asc[src][f]
                                       ELSE asc[h][f]
      BY <2>1 DEF AscSent
    <3>3. dst = "dist" => Present("dist", f)'
      BY <2>1 DEF AscSent, Present, Absent
    <3> QED
      BY <1>0, <1>1, <1>2, <3>1, <3>2, <3>3 DEF AscOK
  <2>2. CASE AscMade(f)
    <3>1. Sealed
      BY <1>0, <2>0, <2>2, LateIsSealed DEF AscMade
    <3>2. file["signer"][f] = file["local"][f]
      BY <2>2, <3>1, SealedSame DEF AscMade
    <3> QED
      BY <1>0, <1>1, <1>2, <2>2, <3>1, <3>2 DEF AscMade, AscOK
  <2>3. CASE AscDropped(f)
    BY <1>0, <1>1, <1>2, <2>3 DEF AscDropped, AscOK
  <2> QED
    BY <1>3, <2>0, <2>1, <2>2, <2>3 DEF AscWork
<1> QED
  BY <1>0, <1>4, <1>5, PaperStep

\* The builder's output is there before the script copies it.
BuiltOK ==
    /\ built # "building" => file["builder"] = BuilderOutput
    /\ 2 \in done => built # "building"

LastsOK(f) == Reached(3, f) \/ Project = "torvpn" => Present("local", f)

LEMMA BuiltStep ==
    ASSUME TypeOK, MarkersInOrder, [Next]_vars, BuiltOK
    PROVE  BuiltOK'
<1>0. BuilderOutput' = BuilderOutput
  BY DEF BuilderOutput, Absent, Unsigned, Macos
<1>1. CASE BuilderMergesFiles
  <2>1. file'["builder"] = BuilderOutput /\ built' = "merged" /\ done' = done
    BY <1>1, HostNames DEF BuilderMergesFiles, TypeOK
  <2> QED
    BY <1>0, <2>1 DEF BuiltOK
<1>2. CASE BuilderHashesIncrementals
  BY <1>0, <1>2 DEF BuilderHashesIncrementals, BuiltOK, content
<1>3. CASE StepWork
  <2>1. file'["builder"] = file["builder"] /\ done' = done
    BY <1>3, WorkKeepsBuilder, WorkKeepsRun
  <2>2. built' = built
    BY <1>3 DEF StepWork, Did, SyncBuilderUnsignedToLocalSigned, CleanBuildArtifacts, ExtractDmg,
       SyncLocalToLinuxSigner, LinuxSignerRcodesignSign, SyncLinuxSignerMacosSignedTarToLocal,
       RcodesignNotarySubmit, GatekeeperBundling, Dmg2mar, LinuxSignerSignmars,
       SyncLinuxSignerToLocal, LinuxSignerAuthenticodeSigning, AuthenticodeTimestamping,
       HashSignedBundles, LinuxSignerGpgSign, LinuxSignerSignAndroid, SyncLocalToStaticiforme,
       StaticiformePrepareCdnDistUpload, UploadUpdateResponses,
       FinishedSigningCleanLinuxSigner, Rsync
  <2> QED
    BY <1>0, <2>1, <2>2 DEF BuiltOK
<1>4. CASE Control
  <2>1. 2 \in done' \ done => Complete(2)
    <3>1. pos \in Steps /\ AtStep(pos) => Marker(pos) = pos
      BY StepInOrder
    <3> QED
      BY <1>4, <3>1 DEF Control
  <2>2. Complete(2) => built # "building"
    BY StepNumbers DEF Complete, LocalToSignerSteps, SignerToLocalSteps
  <2> QED
    BY <1>0, <1>4, <2>1, <2>2 DEF Control, BuiltOK
<1>5. CASE UNCHANGED <<file, listed, tar, built, done, pos, handled>>
  BY <1>0, <1>5 DEF BuiltOK
<1> QED
  BY <1>1, <1>2, <1>3, <1>4, <1>5, StepShape

LEMMA LastsStep ==
    ASSUME TypeOK, MarkersInOrder, ListedOK, BuiltOK, [Next]_vars,
           NEW f \in Files, Kind[f] \in Lasting, LastsOK(f)
    PROVE  LastsOK(f)'
<1>0. "local" \in Path /\ "signer" \in Path /\ "dist" \in Path /\ "local" # "signer"
  BY DEF Path
<1>1. /\ f # Dmg /\ f # Hfs /\ f \notin listed["local"] /\ Kind[f] \notin {"test", "hfs", "apk", "dmg"}
      /\ Kind[f] \in Kinds
  BY KindFacts DEF ListedOK, Of, Lasting
<1>2. CASE Quiet(f)
  BY <1>0, <1>2 DEF Quiet, LastsOK, Reached, Present, Absent
<1>3. CASE Between(f)
  <2>1. pos \in Steps /\ AtStep(pos) /\ Complete(pos) /\ pos = 3 => f \in handled
    <3> SUFFICES ASSUME pos \in Steps, AtStep(pos), Complete(pos), pos = 3 PROVE f \in handled
      OBVIOUS
    <3>1. Applicable(2)
      BY StepNumbers DEF AtStep, Applicable
    <3>2. 2 \in done
      BY <3>1, StepInOrder DEF Steps
    <3>3. file["builder"] = BuilderOutput
      BY <3>2 DEF BuiltOK
    <3>4. file["builder"][f] = Unsigned
      BY <1>1, <3>3 DEF BuilderOutput
    <3>5. Unsigned # Absent
      BY DEF Unsigned, Absent
    <3> QED
      BY <3>4, <3>5, CompleteMeans DEF Present
  <2> QED
    BY <1>0, <1>3, <2>1 DEF Between, LastsOK, Reached, Present, Absent
<1>4. CASE Work(f)
  <2>0. UNCHANGED <<done, pos>>
    BY <1>4 DEF Work
  <2> USE <1>0, <1>1, <2>0 DEF LastsOK, Reached, Present
  <2>1. CASE Untouched(f)
    BY <2>1 DEF Untouched, Absent
  <2>2. CASE Moved(f)
    BY <2>2 DEF Moved, Touch, Absent
  <2>3. CASE Removed(f)
    BY <2>3 DEF Removed, Drop, Touch, Absent
  <2>4. CASE FilesMade(f) \/ SignedHere(f)
    <3>1. /\ file["local"][f] \in Content /\ Absent \in Content
          /\ \A c \in Content : \A ms : Rewrite(c, ms) # Absent
      BY MarksType, HostNames, RewriteFacts, ContentFacts
    <3>2. file'["local"][f] = file["local"][f] \/ file'["local"][f] # Absent
      BY <2>4, <3>1 DEF FilesMade, SignedHere, Touch
    <3>3. f \in handled' /\ pos # 3
      BY <2>4 DEF FilesMade, SignedHere, Touch
    <3> QED
      BY <3>2, <3>3 DEF Absent
  <2> QED
    BY <1>4, <2>1, <2>2, <2>3, <2>4 DEF Work
<1> QED
  BY <1>2, <1>3, <1>4, FileStep

\* What a complete step has dealt with.
LEMMA PaperComplete ==
    ASSUME pos \in Steps, Complete(pos), NEW f \in Files
    PROVE  /\ pos = 24 => "sums" \in handled
           /\ pos \in {25, 29} /\ sums["local"] # NoSums => "sums" \in handled
           /\ pos = 26 => "sums" \in handled
           /\ pos = 27 /\ sums["signer"] # NoSums => "sums" \in handled
           /\ pos \in {25, 29} /\ Present("local", f) => f \in handled
           /\ pos = 26 /\ f \in GpgSigned /\ Present("signer", f) => f \in handled
           /\ pos = 27 /\ Present("signer", f) => f \in handled
<1> USE StepNumbers DEF Complete, LocalToSignerSteps, SignerToLocalSteps
<1>1. pos = 24 => "sums" \in handled
  OBVIOUS
<1>2. pos \in {25, 29} => Transferable("local") \subseteq handled
  OBVIOUS
<1>3. pos = 27 => Transferable("signer") \subseteq handled
  OBVIOUS
<1>4. pos = 26 => /\ \A g \in GpgSigned : Present("signer", g) => g \in handled
                  /\ "sums" \in handled
  OBVIOUS
<1> QED
  BY <1>1, <1>2, <1>3, <1>4 DEF Transferable

\* The checksums and their signature on their way to the signer, back, and to dist.
ChainOK ==
    /\ Reached(24, "sums") => sums["local"] # NoSums
    /\ Reached(25, "sums") /\ 27 \notin done => sums["signer"] # NoSums
    /\ Reached(26, "sums") /\ 27 \notin done => sumsAsc["signer"] # NoSums
    /\ Reached(27, "sums") => sumsAsc["local"] # NoSums
    /\ Reached(29, "sums") => sums["dist"] # NoSums /\ sumsAsc["dist"] # NoSums

LEMMA ChainStep ==
    ASSUME TypeOK, MarkersInOrder, SumsOK, [Next]_vars, ChainOK,
           NEW w \in Files, LastsOK(w)
    PROVE  ChainOK'
<1>0. /\ "builder" \notin Path /\ Path \subseteq Hosts
      /\ "local" \in Path /\ "signer" \in Path /\ "dist" \in Path
      /\ "local" # "signer" /\ "dist" # "signer" /\ "dist" # "local"
      /\ NoSums' = NoSums
  BY DEF Path, Hosts, NoSums, Absent
<1>1. pos \in Steps /\ AtStep(pos) =>
        /\ pos \notin done
        /\ \A k \in done : k < pos
        /\ \A n \in {24, 25, 26, 27, 29} : n < pos => n \in done
  BY NumberedHolds DEF Numbered
<1>2. CASE PaperRest
  <2>1. UNCHANGED <<sums, sumsAsc>>
    BY <1>2 DEF PaperRest
  <2>2. CASE UNCHANGED <<done, pos, handled>> \/ (handled' = {} /\ done' = done)
    BY <1>0, <2>1, <2>2 DEF ChainOK, Reached
  <2>3. CASE /\ handled' = {} /\ pos \in Steps /\ AtStep(pos) /\ Complete(pos)
             /\ done' = done \cup {pos}
    <3> USE <1>0, <1>1, <2>1, <2>3 DEF ChainOK, Reached
    <3>1. /\ pos = 24 => "sums" \in handled
          /\ pos \in {25, 29} /\ sums["local"] # NoSums => "sums" \in handled
          /\ pos = 26 => "sums" \in handled
          /\ pos = 27 /\ sums["signer"] # NoSums => "sums" \in handled
      BY PaperComplete
    <3>2. pos \in {24, 25, 26, 27, 29} => "sums" \in handled
      BY <3>1
    <3> QED
      BY <3>2
  <2> QED
    BY <1>2, <2>2, <2>3 DEF PaperRest
<1>3. CASE PaperWork
  <2>0. /\ UNCHANGED <<done, pos>> /\ handled \subseteq handled' /\ SumsWork
        /\ pos \notin done
        /\ \A k \in done : k < pos
        /\ \A n \in {24, 25, 26, 27, 29} : n < pos => n \in done
        /\ pos \in Steps /\ AtStep(pos)
    BY <1>1, <1>3 DEF PaperWork
  <2>1. CASE /\ UNCHANGED <<sums, sumsAsc>>
             /\ pos \in {24, 25, 26, 27, 29} => ("sums" \in handled' => "sums" \in handled)
    BY <1>0, <2>0, <2>1 DEF ChainOK, Reached
  <2>2. ASSUME NEW src \in Path \cup {"builder"}, NEW dst \in Path, SumsSent(src, dst)
        PROVE  ChainOK'
    <3>1. src \in Path /\ sums[src] # NoSums
      BY <2>2 DEF SumsOK, SumsSent
    <3>2. \A h \in Hosts :
            /\ sums'[h] = IF h = dst THEN sums[src] ELSE sums[h]
            /\ sumsAsc'[h] = IF h = dst /\ sumsAsc[src] # NoSums THEN sumsAsc[src] ELSE sumsAsc[h]
      BY <1>0, <2>2 DEF SumsSent, TypeOK
    <3>3. \A h \in Path : /\ sums[h] # NoSums => sums'[h] # NoSums
                          /\ sumsAsc[h] # NoSums => sumsAsc'[h] # NoSums
      BY <1>0, <3>1, <3>2
    <3>4. pos \notin {24, 26} /\ (pos = 25 => dst = "signer")
          /\ (pos = 27 => src = "signer" /\ dst = "local")
          /\ (pos = 29 => src = "local" /\ dst = "dist")
      BY <2>2, <3>1, <1>0 DEF SumsSent, Route
    <3>5. pos = 25 => sums'["signer"] # NoSums
      BY <1>0, <3>1, <3>2, <3>4
    <3>6. pos = 27 => sumsAsc'["local"] # NoSums
      BY <1>0, <2>0, <3>1, <3>2, <3>4 DEF ChainOK, Reached
    <3>7. pos = 29 => sums'["dist"] # NoSums /\ sumsAsc'["dist"] # NoSums
      BY <1>0, <2>0, <3>1, <3>2, <3>4 DEF ChainOK, Reached
    <3> QED
      BY <1>0, <2>0, <3>3, <3>4, <3>5, <3>6, <3>7 DEF ChainOK, Reached
  <2>3. CASE pos = 24 /\ sums' = [sums EXCEPT !["local"] = file["local"]] /\ sumsAsc' = sumsAsc
    <3>1. \A h \in Hosts : sums'[h] = IF h = "local" THEN file["local"] ELSE sums[h]
      BY <2>3 DEF TypeOK
    <3>2. file["local"] # NoSums
      <4>1. Project # "torvpn" => Applicable(3)
        BY StepNumbers DEF Applicable
      <4>2. Reached(3, w) \/ Project = "torvpn"
        BY <2>0, <2>3, <4>1, StepInOrder DEF Reached, Steps
      <4> QED
        BY <4>2 DEF LastsOK, Present, NoSums
    <3> QED
      BY <1>0, <2>0, <2>3, <3>1, <3>2 DEF ChainOK, Reached
  <2>4. CASE /\ pos = 26 /\ sums' = sums
             /\ sumsAsc' = [sumsAsc EXCEPT !["signer"] = sums["signer"]]
    <3>1. \A h \in Hosts : sumsAsc'[h] = IF h = "signer" THEN sums["signer"] ELSE sumsAsc[h]
      BY <1>0, <2>4 DEF TypeOK
    <3>2. sums["signer"] # NoSums
      BY <2>0, <2>4 DEF ChainOK, Reached
    <3> QED
      BY <1>0, <2>0, <2>4, <3>1, <3>2 DEF ChainOK, Reached
  <2>5. CASE SumsDropped
    <3>1. \A h \in Hosts : /\ sums'[h] = IF h = "signer" THEN NoSums ELSE sums[h]
                           /\ sumsAsc'[h] = IF h = "signer" THEN NoSums ELSE sumsAsc[h]
      BY <1>0, <2>5 DEF SumsDropped, TypeOK
    <3>2. 27 \in done /\ pos = 33
      BY <2>0, <2>5 DEF SumsDropped
    <3> QED
      BY <1>0, <2>0, <3>1, <3>2 DEF ChainOK, Reached
  <2> QED
    BY <2>0, <2>1, <2>2, <2>3, <2>4, <2>5 DEF SumsWork
<1> QED
  BY <1>2, <1>3, PaperStep

\* A detached signature on its way.
DetachedOK(f) ==
    /\ Reached(25, f) /\ 27 \notin done /\ Present("local", f) => Present("signer", f)
    /\ Reached(26, f) /\ 27 \notin done /\ Present("signer", f) => asc["signer"][f] # Absent
    /\ Reached(27, f) /\ Present("local", f) => asc["local"][f] # Absent
    /\ Present("dist", f) => asc["dist"][f] # Absent

LEMMA DetachedStep ==
    ASSUME AgeInv, \A g \in Files : HereOf(g), [Next]_vars, NEW f \in GpgSigned, DetachedOK(f)
    PROVE  DetachedOK(f)'
<1>0. /\ "local" \in Path /\ "signer" \in Path /\ "dist" \in Path
      /\ "local" # "signer" /\ "dist" # "signer" /\ "dist" # "local"
      /\ Absent' = Absent /\ TypeOK /\ MarkersInOrder /\ f \in Files
  BY DEF Path, Absent, AgeInv, ReleaseInv, GpgSigned, Of
<1>1. pos \in Steps /\ AtStep(pos) =>
        /\ pos \notin done
        /\ \A k \in done : k < pos
        /\ \A n \in {24, 25, 26, 27, 29} : n < pos => n \in done
  BY <1>0, NumberedHolds DEF Numbered
<1>2. CASE PaperRest
  <2>1. asc' = asc /\ \A g \in Path : file'[g] = file[g]
    BY <1>2 DEF PaperRest
  <2>2. CASE UNCHANGED <<done, pos, handled>> \/ (handled' = {} /\ done' = done)
    BY <1>0, <2>1, <2>2 DEF DetachedOK, Reached, Present
  <2>3. CASE /\ handled' = {} /\ pos \in Steps /\ AtStep(pos) /\ Complete(pos)
             /\ done' = done \cup {pos}
    <3> USE <1>0, <1>1, <2>1, <2>3 DEF DetachedOK, Reached, Present
    <3>1. /\ pos = 25 /\ Present("local", f) => f \in handled
          /\ pos = 26 /\ Present("signer", f) => f \in handled
          /\ pos = 27 /\ Present("signer", f) => f \in handled
      BY PaperComplete
    <3>2. pos = 27 /\ Present("local", f) => f \in handled
      BY <3>1
    <3> QED
      BY <3>1, <3>2
  <2> QED
    BY <1>2, <2>2, <2>3 DEF PaperRest
<1>3. CASE PaperWork
  <2>0. /\ UNCHANGED <<done, pos>> /\ handled \subseteq handled' /\ AscWork(f)
        /\ pos \in Steps /\ AtStep(pos) /\ pos \notin done
        /\ \A k \in done : k < pos
        /\ \A n \in {24, 25, 26, 27, 29} : n < pos => n \in done
    BY <1>0, <1>1, <1>3 DEF PaperWork
  <2>1. pos # 29 => file'["dist"][f] = file["dist"][f]
    <3>1. CASE Quiet(f) \/ Between(f)
      BY <1>0, <3>1 DEF Quiet, Between
    <3>2. CASE Work(f)
      BY <1>0, <3>2 DEF Work, Untouched, Moved, Removed, FilesMade, SignedHere, Touch, Drop
    <3> QED
      BY <1>0, <3>1, <3>2, FileStep
  <2>2. 24 <= pos => file'["local"][f] = file["local"][f]
    BY <1>0, <2>0, LateIsSealed, SealedStays
  <2>3. CASE pos < 25
    <3>1. /\ 25 \notin done /\ 26 \notin done /\ 27 \notin done
          /\ pos \notin {25, 26, 27, 29, 33} /\ asc'["dist"][f] = asc["dist"][f]
      BY <1>0, <2>0, <2>3 DEF AscWork, AscKept, AscSent, AscMade, AscDropped, Route, Steps
    <3> QED
      BY <1>0, <2>0, <2>1, <3>1 DEF DetachedOK, Reached, Present
  <2>4. CASE pos = 25
    <3>1. 26 \notin done /\ 27 \notin done
      BY <2>0, <2>4 DEF Steps
    <3>2. CASE AscKept(f) /\ FileKept(f) /\ (f \in handled' => f \in handled)
      BY <1>0, <2>0, <2>4, <3>1, <3>2 DEF AscKept, FileKept, DetachedOK, Reached, Present
    <3>3. CASE AscSent(f, "local", "signer")
      BY <1>0, <2>0, <2>4, <3>1, <3>3 DEF AscSent, DetachedOK, Reached, Present
    <3> QED
      BY <2>0, <2>4, <3>2, <3>3 DEF AscWork, AscSent, AscMade, AscDropped, Route
  <2>5. CASE pos = 26
    <3>1. 27 \notin done
      BY <2>0, <2>5 DEF Steps
    <3>2. CASE AscKept(f) /\ FileKept(f) /\ (f \in handled' => f \in handled)
      BY <1>0, <2>0, <2>5, <3>1, <3>2 DEF AscKept, FileKept, DetachedOK, Reached, Present
    <3>3. CASE AscMade(f)
      BY <1>0, <2>0, <2>5, <3>1, <3>3 DEF AscMade, FileKept, DetachedOK, Reached, Present
    <3> QED
      BY <2>0, <2>5, <3>2, <3>3 DEF AscWork, AscSent, AscDropped, Route
  <2>6. CASE pos = 27
    <3>1. 25 \in done /\ 26 \in done /\ 27 \notin done
      BY <2>0, <2>6 DEF Steps
    <3>2. CASE AscKept(f) /\ FileKept(f) /\ (f \in handled' => f \in handled)
      BY <1>0, <2>0, <2>6, <3>1, <3>2 DEF AscKept, FileKept, DetachedOK, Reached, Present
    <3>3. CASE AscSent(f, "signer", "local")
      BY <1>0, <2>0, <2>6, <3>1, <3>3 DEF AscSent, DetachedOK, Reached, Present
    <3> QED
      BY <2>0, <2>6, <3>2, <3>3 DEF AscWork, AscSent, AscMade, AscDropped, Route
  <2>7. CASE pos = 29
    <3>1. 27 \in done
      BY <2>0, <2>7 DEF Steps
    <3>2. CASE AscKept(f) /\ FileKept(f) /\ (f \in handled' => f \in handled)
      BY <1>0, <2>0, <2>7, <3>1, <3>2 DEF AscKept, FileKept, DetachedOK, Reached, Present
    <3>3. CASE AscSent(f, "local", "dist")
      BY <1>0, <2>0, <2>7, <3>1, <3>3 DEF AscSent, DetachedOK, Reached, Present
    <3> QED
      BY <2>0, <2>7, <3>2, <3>3 DEF AscWork, AscSent, AscMade, AscDropped, Route
  <2>8. CASE pos \in {28, 30, 31, 32, 33}
    <3>1. 27 \in done
      BY <2>0, <2>8 DEF Steps
    <3>2. asc'["local"][f] = asc["local"][f] /\ asc'["dist"][f] = asc["dist"][f]
      BY <1>0, <2>0, <2>8 DEF AscWork, AscKept, AscSent, AscMade, AscDropped, Route
    <3> QED
      BY <1>0, <2>0, <2>1, <2>2, <2>8, <3>1, <3>2 DEF DetachedOK, Reached, Present
  <2>9. pos < 25 \/ pos \in {25, 26, 27, 28, 29, 30, 31, 32, 33}
    BY <2>0 DEF Steps
  <2> QED
    BY <2>3, <2>4, <2>5, <2>6, <2>7, <2>8, <2>9
<1> QED
  BY <1>0, <1>2, <1>3, PaperStep

PapersInv ==
    /\ AgeInv /\ BuiltOK /\ SumsOK /\ ChainOK
    /\ \A f \in Files : /\ HereOf(f) /\ AscOK(f)
                        /\ Kind[f] \in Lasting => LastsOK(f)
    /\ \A f \in GpgSigned : DetachedOK(f)

LEMMA PapersInit == Init => PapersInv
<1> SUFFICES ASSUME Init PROVE PapersInv
  OBVIOUS
<1>1. /\ AgeInv /\ done = {} /\ handled = {} /\ pos = 0
      /\ \A n, u : ~Reached(n, u)
  BY AgeInit DEF Init, Reached
<1>2. BuiltOK
  BY <1>1, HostNames, BoundAssumption DEF Init, BuiltOK
<1>3. \A h \in Hosts : sums[h] = NoSums /\ sumsAsc[h] = NoSums /\ asc[h] = NoSums
  BY DEF Init
<1>4. Path \subseteq Hosts /\ "builder" \in Hosts /\ "dist" \in Path
  BY DEF Path, Hosts
<1>5. SumsOK /\ ChainOK
  BY <1>1, <1>3, <1>4 DEF SumsOK, ChainOK
<1>6. ASSUME NEW f \in Files
      PROVE  HereOf(f) /\ AscOK(f) /\ (Kind[f] \in Lasting => LastsOK(f))
  <2>1. HereOf(f)
    BY <1>1 DEF HereOf
  <2>2. AscOK(f)
    BY <1>3, <1>4 DEF AscOK, NoSums
  <2>3. ASSUME Kind[f] \in Lasting, Project = "torvpn" PROVE Present("local", f)
    <3>1. file["local"] = BuilderOutput
      BY <2>3, HostNames DEF Init
    <3>2. file["local"][f] = Unsigned
      BY <2>3, <3>1 DEF BuilderOutput, Lasting
    <3> QED
      BY <3>2 DEF Present, Unsigned, Absent
  <2> QED
    BY <1>1, <2>1, <2>2, <2>3 DEF LastsOK
<1>7. ASSUME NEW f \in GpgSigned PROVE DetachedOK(f)
  <2>1. f \in Files /\ file["dist"][f] = Absent
    BY HostNames DEF Init, NoSums, GpgSigned, Of
  <2> QED
    BY <1>1, <2>1 DEF DetachedOK, Present
<1> QED
  BY <1>1, <1>2, <1>5, <1>6, <1>7 DEF PapersInv

LEMMA PapersStep ==
    ASSUME \E w \in Files : Kind[w] \in Lasting
    PROVE  PapersInv /\ [Next]_vars => PapersInv'
<1> SUFFICES ASSUME PapersInv, [Next]_vars PROVE PapersInv'
  OBVIOUS
<1> USE DEF PapersInv
<1>1. /\ TypeOK /\ MarkersInOrder /\ ListedOK
      /\ \A f \in Files : HereOf(f) /\ FileOK(f)
  BY DEF AgeInv, ReleaseInv
<1>2. AgeInv' /\ BuiltOK' /\ SumsOK'
  BY <1>1, AgeInvStep, BuiltStep, SumsStep
<1>3. ChainOK'
  <2>1. PICK w \in Files : Kind[w] \in Lasting
    OBVIOUS
  <2> QED
    BY <1>1, <2>1, ChainStep
<1>4. ASSUME NEW f \in Files
      PROVE  (HereOf(f) /\ AscOK(f) /\ (Kind[f] \in Lasting => LastsOK(f)))'
  <2>1. HereOf(f)'
    BY <1>1, HereStep DEF FileOK
  <2>2. AscOK(f)'
    BY <1>1, AscStep
  <2>3. Kind[f] \in Lasting => LastsOK(f)'
    BY <1>1, LastsStep
  <2>4. Lasting' = Lasting
    BY DEF Lasting
  <2> QED
    BY <2>1, <2>2, <2>3, <2>4
<1>5. ASSUME NEW f \in GpgSigned PROVE DetachedOK(f)'
  BY <1>1, DetachedStep
<1>6. GpgSigned' = GpgSigned
  BY DEF GpgSigned, Of
<1> QED
  BY <1>2, <1>3, <1>4, <1>5, <1>6

\* The published checksums and detached signatures are those of the published bytes, and
\* all there, for every release that has a file which the build makes and no step removes
\* (any release but an empty one), however its runs are interrupted.
THEOREM PublishedConsistent ==
    ASSUME \E w \in Files : Kind[w] \in Lasting
    PROVE  Spec => []PublishedIsConsistent
<1>1. PapersInv => PublishedIsConsistent
  <2> SUFFICES ASSUME PapersInv PROVE PublishedIsConsistent
    OBVIOUS
  <2>0. "dist" \in Path
    BY DEF Path
  <2>1. ASSUME NEW f \in Files
        PROVE  /\ Present("dist", f) /\ sums["dist"] # NoSums
                    => sums["dist"][f] = file["dist"][f]
               /\ asc["dist"][f] # Absent => asc["dist"][f] = file["dist"][f]
    <3>1. Present("dist", f) => file["dist"][f] = file["local"][f]
      BY DEF PapersInv, AgeInv, PathOK, DistOf
    <3>2. AscOK(f) /\ SumsOK
      BY DEF PapersInv
    <3> QED
      BY <2>0, <3>1, <3>2 DEF AscOK, SumsOK
  <2>2. sumsAsc["dist"] # NoSums => sumsAsc["dist"] = sums["dist"]
    BY <2>0 DEF PapersInv, SumsOK
  <2>3. 29 \in done => sums["dist"] # NoSums /\ sumsAsc["dist"] # NoSums
    BY DEF PapersInv, ChainOK, Reached
  <2>4. \A f \in GpgSigned : Present("dist", f) => asc["dist"][f] # Absent
    BY DEF PapersInv, DetachedOK
  <2> QED
    BY <2>1, <2>2, <2>3, <2>4, StepNumbers DEF PublishedIsConsistent
<1> QED
  BY <1>1, PapersInit, PapersStep, PTL DEF Spec

-----------------------------------------------------------------------------
(* The signing machine.  The invariant says, of an output that is not      *)
(* shared yet, that at most one run uses it, that what is in it from the   *)
(* opening to the copy is that run's, and that a connected run has signed  *)
(* what it no longer has to do.                                            *)

Live == Signing \cup {"loop"}

Right(i) == dir[i].signed /\ (dir[i].whole \/ Output[SessionOf[i]] = "exe")

\* A run that is listened to is alive and its step has no marker.
ClientLives ==
    \A r \in Runs : Connected(r) => at[r] \in Live /\ r[1] \notin finished

\* A run signs the files of its session.
OwnFiles ==
    /\ \A r \in Runs : todo[r] \subseteq ItemsOf(r[1])
    /\ \A r \in Runs : at[r] \in Signing => \E i \in ItemsOf(r[1]) : now[r] = {i}

\* Only a run that is signing writes, to its own output.
Writers == \A o \in Outputs : \A r \in last[o].writers : at[r] = "write" /\ OutputOf(r) = o

Basic == SignerTypeOK /\ ClientLives /\ OwnFiles /\ Writers

OneUser(o) == \A q, r \in Users(o) : q = r

OwnContent(o) == \A i \in Items : Output[SessionOf[i]] = o => dir[i].of = {i}

\* The file that is being signed, and what is in the output.
OwnOutput(o) ==
    \A r \in Users(o) : \A i \in now[r] :
        /\ o = "mar" => dir[i].whole /\ ~dir[i].signed
        /\ at[r] \in {"write", "chmod", "copy"} =>
             /\ last[o].there /\ last[o].of = {i} /\ (o = "mar" => last[o].whole)
             /\ last[o].writers = IF at[r] = "write" THEN {r} ELSE {}

\* What a connected run has passed over or copied; nobody signs a mar again.
DoneByClient(o) ==
    \A r \in Runs : OutputOf(r) = o /\ Connected(r) =>
        /\ \A i \in ItemsOf(r[1]) \ todo[r] : Right(i)
        /\ \A q \in Users(o) : o = "mar" /\ q[1] = r[1] => now[q] \subseteq todo[r]

DoneByFinished(o) ==
    \A s \in finished : Output[s] = o =>
        /\ \A i \in ItemsOf(s) : Right(i)
        /\ \A q \in Users(o) : o = "mar" => q[1] # s

Unshared(o) ==
    OneUser(o) /\ OwnContent(o) /\ OwnOutput(o) /\ DoneByClient(o) /\ DoneByFinished(o)

IInv == Basic /\ \A o \in Outputs \ shared : Unshared(o)

-----------------------------------------------------------------------------
LEMMA RunParts ==
    ASSUME NEW r \in Runs
    PROVE  /\ r[1] \in Sessions /\ r[2] \in 1 .. MaxRuns
           /\ OutputOf(r) \in Outputs
           /\ r = <<r[1], r[2]>>
BY SessionsAssumption DEF Runs, OutputOf

LEMMA RunOf ==
    ASSUME NEW s \in Sessions, NEW n \in 1 .. MaxRuns
    PROVE  <<s, n>> \in Runs /\ <<s, n>>[1] = s /\ <<s, n>>[2] = n
BY DEF Runs

LEMMA TypeStep ==
    ASSUME SignerTypeOK, [SignerNext]_signerVars
    PROVE  SignerTypeOK'
<1>1. ASSUME NEW s \in Sessions, Begin(s) PROVE SignerTypeOK'
  BY <1>1, RunOf DEF Begin, SignerTypeOK, Goto, ItemsOf
<1>2. ASSUME NEW s \in Sessions, Disconnect(s) PROVE SignerTypeOK'
  BY <1>2, BoundsAssumption DEF Disconnect, SignerTypeOK
<1>3. ASSUME NEW r \in Runs, RunNext(r) PROVE SignerTypeOK'
  <2>0. OutputOf(r) \in Outputs /\ r[1] \in Sessions
    BY RunParts
  <2>1. CASE Skip(r)
    BY <2>1 DEF Skip, SignerTypeOK
  <2>2. CASE Refuse(r)
    BY <2>2, <2>0, BoundsAssumption DEF Refuse, Ends, Goto, SignerTypeOK
  <2>3. CASE Take(r)
    BY <2>3, <2>0 DEF Take, Goto, SignerTypeOK, Signing
  <2>4. CASE Finish(r)
    BY <2>4, <2>0, BoundsAssumption DEF Finish, Goto, SignerTypeOK
  <2>5. CASE BrokenPipe(r)
    BY <2>5, <2>0 DEF BrokenPipe, Ends, Goto, SignerTypeOK
  <2>6. CASE Clear(r)
    BY <2>6, <2>0 DEF Clear, Goto, SignerTypeOK, Missing, Signing
  <2>7. CASE Open(r)
    BY <2>7, <2>0 DEF Open, Goto, SignerTypeOK, Made, Signing
  <2>8. CASE Close(r)
    BY <2>8, <2>0 DEF Close, Written, Goto, SignerTypeOK, Made, Signing
  <2>9. CASE Chmod(r)
    BY <2>9 DEF Chmod, Goto, SignerTypeOK, Signing
  <2>10. CASE NoSuchFile(r)
    BY <2>10, <2>0, BoundsAssumption DEF NoSuchFile, Ends, Goto, SignerTypeOK
  <2>11. CASE Copy(r)
    BY <2>11, <2>0 DEF Copy, Copied, Goto, SignerTypeOK
  <2>12. CASE Fail(r)
    <3>1. dir' \in [Items -> [of : SUBSET Items, signed : BOOLEAN, whole : BOOLEAN]]
      <4>1. CASE UNCHANGED dir
        BY <4>1 DEF SignerTypeOK
      <4>2. ASSUME NEW i \in now[r], dir' = [dir EXCEPT ![i] = Copied(r, FALSE)]
            PROVE  dir' \in [Items -> [of : SUBSET Items, signed : BOOLEAN, whole : BOOLEAN]]
        <5>1. Copied(r, FALSE) \in [of : SUBSET Items, signed : BOOLEAN, whole : BOOLEAN]
          BY <2>0 DEF Copied, SignerTypeOK
        <5>. QED BY <4>2, <5>1 DEF SignerTypeOK
      <4>. QED BY <2>12, <4>1, <4>2 DEF Fail
    <3>2. last' \in [Outputs -> [there : BOOLEAN, of : SUBSET Items, whole : BOOLEAN,
                                writers : SUBSET Runs]]
      BY <2>12, <2>0 DEF Fail, Written, Made, SignerTypeOK
    <3>3. at' \in [Runs -> {"unused", "loop", "dead", "ended"} \cup Signing]
      BY <2>12 DEF Fail, Ends, Goto, SignerTypeOK
    <3>4. client' \in [Sessions -> 0 .. MaxRuns] /\ failures' \in 0 .. MaxFailures
      BY <2>12, <2>0, BoundsAssumption DEF Fail, Ends, SignerTypeOK
    <3>5. UNCHANGED <<todo, now, finished, shared>>
      BY <2>12 DEF Fail
    <3>. QED BY <3>1, <3>2, <3>3, <3>4, <3>5 DEF SignerTypeOK
  <2>. QED BY <1>3, <2>1, <2>2, <2>3, <2>4, <2>5, <2>6, <2>7, <2>8, <2>9, <2>10, <2>11, <2>12 DEF RunNext
<1>4. CASE UNCHANGED signerVars
  BY <1>4 DEF signerVars, SignerTypeOK
<1>. QED BY <1>1, <1>2, <1>3, <1>4 DEF SignerNext

\* Types: the sessions' runs, their files and the outputs.
THEOREM SignerTypeCorrect == SignerSpec => []SignerTypeOK
<1>1. SignerInit => SignerTypeOK
  BY BoundsAssumption DEF SignerInit, SignerTypeOK, Missing
<1>2. SignerTypeOK /\ [SignerNext]_signerVars => SignerTypeOK'
  BY TypeStep
<1>. QED BY <1>1, <1>2, PTL DEF SignerSpec

-----------------------------------------------------------------------------
LEMMA BasicStep ==
    ASSUME Basic, [SignerNext]_signerVars
    PROVE  Basic'
<1>0. SignerTypeOK /\ SignerTypeOK'
  BY TypeStep DEF Basic
<1>. USE DEF Basic
<1>1. ASSUME NEW s \in Sessions, Begin(s) PROVE ClientLives' /\ OwnFiles' /\ Writers'
  <2>1. PICK n \in 1 .. MaxRuns :
          /\ at[<<s, n>>] = "unused"
          /\ client' = [client EXCEPT ![s] = n]
          /\ at' = [at EXCEPT ![<<s, n>>] = "loop"]
          /\ todo' = [todo EXCEPT ![<<s, n>>] = ItemsOf(s)]
    BY <1>1 DEF Begin, Goto
  <2>2. ClientLives'
    BY <1>0, <1>1, <2>1, RunParts, RunOf DEF Begin, ClientLives, Connected, Live, SignerTypeOK
  <2>3. OwnFiles'
    BY <1>0, <1>1, <2>1, RunParts, RunOf DEF Begin, OwnFiles, ItemsOf, Signing, SignerTypeOK
  <2>4. Writers'
    <3>1. \A o \in Outputs : \A q \in last[o].writers : q \in Runs /\ q # <<s, n>>
      BY <1>0, <2>1 DEF Writers, SignerTypeOK
    <3>2. \A q \in Runs : q # <<s, n>> => at'[q] = at[q]
      BY <1>0, <2>1 DEF SignerTypeOK
    <3>3. last' = last
      BY <1>1 DEF Begin
    <3>. QED BY <3>1, <3>2, <3>3 DEF Writers, OutputOf
  <2>. QED BY <2>2, <2>3, <2>4
<1>2. ASSUME NEW s \in Sessions, Disconnect(s) PROVE ClientLives' /\ OwnFiles' /\ Writers'
  <2>1. ClientLives'
    BY <1>0, <1>2, RunParts DEF Disconnect, ClientLives, Connected, SignerTypeOK
  <2>2. OwnFiles' /\ Writers'
    BY <1>2 DEF Disconnect, OwnFiles, Writers, ItemsOf, OutputOf
  <2>. QED BY <2>1, <2>2
<1>3. ASSUME NEW r \in Runs, RunNext(r) PROVE ClientLives' /\ OwnFiles' /\ Writers'
  <2>0. OutputOf(r) \in Outputs /\ r[1] \in Sessions /\ r[2] \in 1 .. MaxRuns
    BY RunParts
  <2>1. CASE Skip(r)
    <3>1. ClientLives'
      BY <1>0, <2>0, <2>1, RunParts DEF Skip, Goto, ClientLives, Connected, Live, Signing, SignerTypeOK
    <3>2. OwnFiles'
      BY <1>0, <2>0, <2>1, RunParts DEF Skip, Goto, OwnFiles, ItemsOf, Signing, SignerTypeOK
    <3>3. Writers'
      BY <1>0, <2>0, <2>1, RunParts DEF Skip, Goto, Writers, OutputOf, SignerTypeOK
    <3>. QED BY <3>1, <3>2, <3>3
  <2>2. CASE Refuse(r)
    <3>1. ClientLives'
      BY <1>0, <2>0, <2>2, RunParts DEF Refuse, Ends, Goto, ClientLives, Connected, Live, Signing, SignerTypeOK
    <3>2. OwnFiles'
      BY <1>0, <2>0, <2>2, RunParts DEF Refuse, Ends, Goto, OwnFiles, ItemsOf, Signing, SignerTypeOK
    <3>3. Writers'
      BY <1>0, <2>0, <2>2, RunParts DEF Refuse, Ends, Goto, Writers, OutputOf, SignerTypeOK
    <3>. QED BY <3>1, <3>2, <3>3
  <2>3. CASE Take(r)
    <3>1. ClientLives'
      BY <1>0, <2>0, <2>3, RunParts DEF Take, Goto, ClientLives, Connected, Live, Signing, SignerTypeOK
    <3>2. OwnFiles'
      <4>1. PICK i \in todo[r] : now' = [now EXCEPT ![r] = {i}]
        BY <2>3 DEF Take
      <4>2. i \in ItemsOf(r[1]) /\ todo' = todo /\ now' \in [Runs -> SUBSET Items]
        BY <1>0, <2>3 DEF Take, OwnFiles, SignerTypeOK
      <4>3. now'[r] = {i} /\ \A q \in Runs \ {r} : now'[q] = now[q] /\ at'[q] = at[q]
        BY <1>0, <2>3, <4>1 DEF Take, Goto, SignerTypeOK
      <4>. QED BY <4>2, <4>3 DEF OwnFiles, ItemsOf
    <3>3. Writers'
      BY <1>0, <2>0, <2>3, RunParts DEF Take, Goto, Writers, OutputOf, SignerTypeOK
    <3>. QED BY <3>1, <3>2, <3>3
  <2>4. CASE Finish(r)
    <3>1. ClientLives'
      BY <1>0, <2>0, <2>4, RunParts DEF Finish, Goto, ClientLives, Connected, Live, Signing, SignerTypeOK
    <3>2. OwnFiles'
      BY <1>0, <2>0, <2>4, RunParts DEF Finish, Goto, OwnFiles, ItemsOf, Signing, SignerTypeOK
    <3>3. Writers'
      BY <1>0, <2>0, <2>4, RunParts DEF Finish, Goto, Writers, OutputOf, SignerTypeOK
    <3>. QED BY <3>1, <3>2, <3>3
  <2>5. CASE BrokenPipe(r)
    <3>1. ClientLives'
      BY <1>0, <2>0, <2>5, RunParts DEF BrokenPipe, Ends, Goto, ClientLives, Connected, Live, Signing, SignerTypeOK
    <3>2. OwnFiles'
      BY <1>0, <2>0, <2>5, RunParts DEF BrokenPipe, Ends, Goto, OwnFiles, ItemsOf, Signing, SignerTypeOK
    <3>3. Writers'
      BY <1>0, <2>0, <2>5, RunParts DEF BrokenPipe, Ends, Goto, Writers, OutputOf, SignerTypeOK
    <3>. QED BY <3>1, <3>2, <3>3
  <2>6. CASE Clear(r)
    <3>1. ClientLives'
      BY <1>0, <2>0, <2>6, RunParts DEF Clear, Goto, ClientLives, Connected, Live, Signing, SignerTypeOK
    <3>2. OwnFiles'
      BY <1>0, <2>0, <2>6, RunParts DEF Clear, Goto, OwnFiles, ItemsOf, Signing, SignerTypeOK
    <3>3. Writers'
      BY <1>0, <2>0, <2>6, RunParts DEF Clear, Missing, Goto, Writers, OutputOf, SignerTypeOK
    <3>. QED BY <3>1, <3>2, <3>3
  <2>7. CASE Open(r)
    <3>1. ClientLives'
      BY <1>0, <2>0, <2>7, RunParts DEF Open, Goto, ClientLives, Connected, Live, Signing, SignerTypeOK
    <3>2. OwnFiles'
      BY <1>0, <2>0, <2>7, RunParts DEF Open, Goto, OwnFiles, ItemsOf, Signing, SignerTypeOK
    <3>3. Writers'
      BY <1>0, <2>0, <2>7, RunParts DEF Open, Made, Goto, Writers, OutputOf, SignerTypeOK
    <3>. QED BY <3>1, <3>2, <3>3
  <2>8. CASE Close(r)
    <3>1. ClientLives'
      BY <1>0, <2>0, <2>8, RunParts DEF Close, Goto, ClientLives, Connected, Live, Signing, SignerTypeOK
    <3>2. OwnFiles'
      BY <1>0, <2>0, <2>8, RunParts DEF Close, Goto, OwnFiles, ItemsOf, Signing, SignerTypeOK
    <3>3. Writers'
      BY <1>0, <2>0, <2>8, RunParts DEF Close, Written, Made, Goto, Writers, OutputOf, SignerTypeOK
    <3>. QED BY <3>1, <3>2, <3>3
  <2>9. CASE Chmod(r)
    <3>1. ClientLives'
      BY <1>0, <2>0, <2>9, RunParts DEF Chmod, Goto, ClientLives, Connected, Live, Signing, SignerTypeOK
    <3>2. OwnFiles'
      BY <1>0, <2>0, <2>9, RunParts DEF Chmod, Goto, OwnFiles, ItemsOf, Signing, SignerTypeOK
    <3>3. Writers'
      BY <1>0, <2>0, <2>9, RunParts DEF Chmod, Goto, Writers, OutputOf, SignerTypeOK
    <3>. QED BY <3>1, <3>2, <3>3
  <2>10. CASE NoSuchFile(r)
    <3>1. ClientLives'
      BY <1>0, <2>0, <2>10, RunParts DEF NoSuchFile, Ends, Goto, ClientLives, Connected, Live, Signing, SignerTypeOK
    <3>2. OwnFiles'
      BY <1>0, <2>0, <2>10, RunParts DEF NoSuchFile, Ends, Goto, OwnFiles, ItemsOf, Signing, SignerTypeOK
    <3>3. Writers'
      BY <1>0, <2>0, <2>10, RunParts DEF NoSuchFile, Ends, Goto, Writers, OutputOf, SignerTypeOK
    <3>. QED BY <3>1, <3>2, <3>3
  <2>11. CASE Copy(r)
    <3>1. ClientLives'
      BY <1>0, <2>0, <2>11, RunParts DEF Copy, Goto, ClientLives, Connected, Live, Signing, SignerTypeOK
    <3>2. OwnFiles'
      BY <1>0, <2>0, <2>11, RunParts DEF Copy, Goto, OwnFiles, ItemsOf, Signing, SignerTypeOK
    <3>3. Writers'
      BY <1>0, <2>0, <2>11, RunParts DEF Copy, Goto, Writers, OutputOf, SignerTypeOK
    <3>. QED BY <3>1, <3>2, <3>3
  <2>12. CASE Fail(r)
    <3>1. ClientLives'
      BY <1>0, <2>0, <2>12, RunParts DEF Fail, Ends, Goto, ClientLives, Connected, Live, Signing, SignerTypeOK
    <3>2. OwnFiles'
      BY <1>0, <2>0, <2>12, RunParts DEF Fail, Ends, Goto, OwnFiles, ItemsOf, Signing, SignerTypeOK
    <3>3. Writers'
      BY <1>0, <2>0, <2>12, RunParts DEF Fail, Ends, Written, Made, Goto, Writers, OutputOf, SignerTypeOK
    <3>. QED BY <3>1, <3>2, <3>3
  <2>. QED BY <1>3, <2>1, <2>2, <2>3, <2>4, <2>5, <2>6, <2>7, <2>8, <2>9, <2>10, <2>11, <2>12 DEF RunNext
<1>4. CASE UNCHANGED signerVars
  <2>1. ClientLives'
    BY <1>4 DEF signerVars, ClientLives, Connected
  <2>2. OwnFiles'
    BY <1>4 DEF signerVars, OwnFiles, ItemsOf
  <2>3. Writers'
    BY <1>4 DEF signerVars, Writers, OutputOf
  <2>. QED BY <1>0, <2>1, <2>2, <2>3
<1>. QED BY <1>0, <1>1, <1>2, <1>3, <1>4 DEF SignerNext

-----------------------------------------------------------------------------
\* What a step of a run changes: itself, its output, its files and its client.
RunFrame(r) ==
    /\ \A q \in Runs \ {r} : at'[q] = at[q] /\ now'[q] = now[q] /\ todo'[q] = todo[q]
    /\ \A o \in Outputs \ {OutputOf(r)} : last'[o] = last[o]
    /\ \A i \in Items : SessionOf[i] # r[1] => dir'[i] = dir[i]
    /\ \A s \in Sessions \ {r[1]} : client'[s] = client[s]
    /\ finished' \ finished \subseteq {r[1]}
    /\ shared \subseteq shared'

LEMMA FrameOfRun ==
    ASSUME Basic, NEW r \in Runs, RunNext(r)
    PROVE  RunFrame(r)
<1>0. SignerTypeOK /\ OwnFiles
  BY DEF Basic
<1>. USE RunParts
<1>1. CASE Skip(r)
  BY <1>0, <1>1 DEF Skip, Goto, RunFrame, SignerTypeOK
<1>2. CASE Refuse(r)
  BY <1>0, <1>2 DEF Refuse, Ends, Goto, RunFrame, SignerTypeOK
<1>3. CASE Take(r)
  BY <1>0, <1>3 DEF Take, Goto, RunFrame, SignerTypeOK
<1>4. CASE Finish(r)
  BY <1>0, <1>4 DEF Finish, Goto, RunFrame, SignerTypeOK
<1>5. CASE BrokenPipe(r)
  BY <1>0, <1>5 DEF BrokenPipe, Ends, Goto, RunFrame, SignerTypeOK
<1>6. CASE Clear(r)
  BY <1>0, <1>6 DEF Clear, Goto, RunFrame, SignerTypeOK
<1>7. CASE Open(r)
  BY <1>0, <1>7 DEF Open, Goto, RunFrame, SignerTypeOK
<1>8. CASE Close(r)
  BY <1>0, <1>8 DEF Close, Written, Goto, RunFrame, SignerTypeOK
<1>9. CASE Chmod(r)
  BY <1>0, <1>9 DEF Chmod, Goto, RunFrame, SignerTypeOK
<1>10. CASE NoSuchFile(r)
  BY <1>0, <1>10 DEF NoSuchFile, Ends, Goto, RunFrame, SignerTypeOK
<1>11. CASE Copy(r)
  <2>1. PICK i \in now[r] : dir' = [dir EXCEPT ![i] = Copied(r, TRUE)]
    BY <1>11 DEF Copy
  <2>2. i \in Items /\ SessionOf[i] = r[1]
    BY <1>0, <1>11 DEF Copy, OwnFiles, ItemsOf, Signing
  <2>3. \A j \in Items : SessionOf[j] # r[1] => dir'[j] = dir[j]
    BY <1>0, <2>1, <2>2 DEF SignerTypeOK
  <2>. QED BY <1>0, <1>11, <2>3 DEF Copy, Goto, RunFrame, SignerTypeOK
<1>12. CASE Fail(r)
  <2>1. ASSUME NEW j \in Items, SessionOf[j] # r[1] PROVE dir'[j] = dir[j]
    <3>1. CASE UNCHANGED dir
      BY <3>1
    <3>2. ASSUME NEW i \in now[r], dir' = [dir EXCEPT ![i] = Copied(r, FALSE)], at[r] = "copy"
          PROVE  dir'[j] = dir[j]
      <4>1. SessionOf[i] = r[1]
        BY <1>0, <3>2 DEF OwnFiles, ItemsOf, Signing
      <4>. QED BY <1>0, <2>1, <3>2, <4>1 DEF SignerTypeOK
    <3>. QED BY <1>12, <3>1, <3>2 DEF Fail
  <2>2. \A o \in Outputs \ {OutputOf(r)} : last'[o] = last[o]
    BY <1>0, <1>12 DEF Fail, Written, SignerTypeOK
  <2>. QED BY <1>0, <1>12, <2>1, <2>2 DEF Fail, Ends, Goto, RunFrame, SignerTypeOK
<1>. QED BY <1>1, <1>2, <1>3, <1>4, <1>5, <1>6, <1>7, <1>8, <1>9, <1>10, <1>11, <1>12 DEF RunNext

\* It is nothing to the other output.
LEMMA OtherOutput ==
    ASSUME Basic, NEW r \in Runs, RunFrame(r), NEW o \in Outputs, o # OutputOf(r), Unshared(o)
    PROVE  Unshared(o)'
<1>0. SignerTypeOK /\ OwnFiles
  BY DEF Basic
<1>1. \A q \in Runs : OutputOf(q) = o =>
        /\ at'[q] = at[q] /\ now'[q] = now[q] /\ todo'[q] = todo[q] /\ Connected(q)' = Connected(q)
  BY RunParts DEF RunFrame, OutputOf, Connected
<1>2. Users(o)' = Users(o) /\ Users(o) \subseteq Runs /\ \A q \in Users(o) : OutputOf(q) = o
  BY <1>1 DEF Users, OutputOf
<1>3. \A i \in Items : Output[SessionOf[i]] = o => dir'[i] = dir[i] /\ Right(i)' = Right(i)
  BY DEF RunFrame, OutputOf, Right
<1>4. last'[o] = last[o]
  BY DEF RunFrame
<1>5. \A q \in Runs : \A i \in ItemsOf(q[1]) : i \in Items /\ (OutputOf(q) = o => Output[SessionOf[i]] = o)
  BY DEF ItemsOf, OutputOf
<1>6. \A q \in Users(o) : now[q] \subseteq ItemsOf(q[1])
  BY <1>0, <1>2 DEF OwnFiles, Users
<1>7. OneUser(o)' /\ OwnContent(o)'
  BY <1>2, <1>3 DEF OneUser, OwnContent, Unshared
<1>8. OwnOutput(o)'
  BY <1>1, <1>2, <1>3, <1>4, <1>5, <1>6 DEF OwnOutput, Unshared
<1>9. DoneByClient(o)'
  BY <1>1, <1>2, <1>3, <1>5 DEF DoneByClient, Unshared, ItemsOf, OutputOf
<1>10. DoneByFinished(o)'
  <2>1. \A s \in finished' : Output[s] = o => s \in finished
    BY DEF RunFrame, OutputOf
  <2>. QED BY <2>1, <1>2, <1>3 DEF DoneByFinished, Unshared, ItemsOf
<1>. QED BY <1>7, <1>8, <1>9, <1>10 DEF Unshared

\* The run that uses an output that is not shared.
LEMMA TheUser ==
    ASSUME NEW r \in Runs, at[r] \in Signing, Unshared(OutputOf(r))
    PROVE  Users(OutputOf(r)) = {r}
BY DEF Users, Unshared, OneUser

LEMMA UsersAreRuns ==
    ASSUME Basic, NEW o \in Outputs, NEW q \in Users(o)
    PROVE  /\ q \in Runs /\ OutputOf(q) = o /\ at[q] \in Signing
           /\ \E i \in ItemsOf(q[1]) : now[q] = {i}
BY DEF Users, Basic, OwnFiles

\* A step that signs nothing, and after which what the runs that are left have in
\* their output is right.
LEMMA NothingSigned ==
    ASSUME NEW o \in Outputs, Unshared(o), OwnOutput(o)',
           UNCHANGED <<dir, todo, now, finished>>, Users(o)' \subseteq Users(o),
           \A q \in Runs : Connected(q)' => Connected(q)
    PROVE  Unshared(o)'
<1>1. OneUser(o)' /\ OwnContent(o)'
  BY DEF OneUser, OwnContent, Unshared
<1>2. DoneByClient(o)'
  BY DEF DoneByClient, Unshared, Right, ItemsOf, OutputOf
<1>3. DoneByFinished(o)'
  BY DEF DoneByFinished, Unshared, Right, ItemsOf
<1>. QED BY <1>1, <1>2, <1>3 DEF Unshared

LEMMA NoConnection ==
    ASSUME SignerTypeOK, NEW r \in Runs, Ends(r)
    PROVE  /\ \A q \in Runs : Connected(q)' => Connected(q)
           /\ \A o \in Outputs : Users(o)' \subseteq Users(o) /\ r \notin Users(o)'
           /\ \A q \in Runs \ {r} : at'[q] = at[q]
<1>1. \A q \in Runs : Connected(q)' => Connected(q)
  BY RunParts DEF Ends, Connected, SignerTypeOK
<1>2. at'[r] = "dead" /\ \A q \in Runs \ {r} : at'[q] = at[q]
  BY DEF Ends, Goto, SignerTypeOK
<1>3. \A o \in Outputs : Users(o)' \subseteq Users(o) /\ r \notin Users(o)'
  BY <1>2 DEF Users, OutputOf, Signing
<1>. QED BY <1>1, <1>2, <1>3

\* A run that ends, with nothing written.
LEMMA EndsUnshared ==
    ASSUME Basic, NEW r \in Runs, Ends(r), NEW o \in Outputs, Unshared(o),
           UNCHANGED <<dir, last, todo, now, finished>>
    PROVE  Unshared(o)'
<1>0. SignerTypeOK
  BY DEF Basic
<1>1. OwnOutput(o)'
  BY <1>0, NoConnection, UsersAreRuns DEF OwnOutput, Unshared
<1>. QED BY <1>0, <1>1, NoConnection, NothingSigned

-----------------------------------------------------------------------------
\* The steps of the loop.
LEMMA SkipUnshared ==
    ASSUME Basic, NEW r \in Runs, Skip(r), Unshared(OutputOf(r))
    PROVE  Unshared(OutputOf(r))'
<1> DEFINE o == OutputOf(r)
<1>0. SignerTypeOK /\ OwnFiles /\ o \in Outputs
  BY RunParts DEF Basic
<1>1. PICK i \in todo[r] : Signed(r, i) /\ todo' = [todo EXCEPT ![r] = @ \ {i}]
  BY DEF Skip
<1>2. Right(i) /\ (o = "mar" => dir[i].signed) /\ i \in Items
  BY <1>0, <1>1 DEF Signed, Right, OwnFiles, ItemsOf
<1>3. todo'[r] = todo[r] \ {i} /\ \A q \in Runs \ {r} : todo'[q] = todo[q]
  BY <1>0, <1>1 DEF SignerTypeOK
<1>4. UNCHANGED <<dir, last, at, now, client, finished>> /\ Users(o)' = Users(o)
  BY DEF Skip, Users, OutputOf
<1>5. OneUser(o)' /\ OwnContent(o)' /\ OwnOutput(o)'
  BY <1>4 DEF OneUser, OwnContent, OwnOutput, Unshared
<1>6. DoneByFinished(o)'
  BY <1>4 DEF DoneByFinished, Unshared, Right, ItemsOf
<1>7. DoneByClient(o)'
  <2>1. \A q \in Users(o) : o = "mar" => i \notin now[q]
    BY <1>2 DEF OwnOutput, Unshared
  <2>. QED BY <1>2, <1>3, <1>4, <2>1 DEF DoneByClient, Unshared, Right, Connected, OutputOf
<1>. QED BY <1>5, <1>6, <1>7 DEF Unshared

LEMMA TakeUnshared ==
    ASSUME Basic, NEW r \in Runs, Take(r), Unshared(OutputOf(r)), OutputOf(r) \notin shared'
    PROVE  Unshared(OutputOf(r))'
<1> DEFINE o == OutputOf(r)
<1>0. SignerTypeOK /\ OwnFiles /\ o \in Outputs
  BY RunParts DEF Basic
<1>1. PICK i \in todo[r] : /\ ~Signed(r, i) /\ (o = "mar" => dir[i].whole)
                          /\ now' = [now EXCEPT ![r] = {i}]
  BY DEF Take
<1>2. i \in Items /\ i \in ItemsOf(r[1]) /\ (o = "mar" => dir[i].whole /\ ~dir[i].signed)
  BY <1>0, <1>1 DEF Signed, OwnFiles, ItemsOf
<1>3. /\ now'[r] = {i} /\ at'[r] = "clear"
      /\ \A q \in Runs \ {r} : now'[q] = now[q] /\ at'[q] = at[q]
  BY <1>0, <1>1 DEF Take, Goto, SignerTypeOK
<1>4. UNCHANGED <<dir, last, todo, client, finished>> /\ Users(o) = {}
  BY <1>0 DEF Take
<1>5. Users(o)' = {r}
  BY <1>3, <1>4 DEF Users, Signing, OutputOf
<1>6. OneUser(o)' /\ OwnContent(o)'
  BY <1>4, <1>5 DEF OneUser, OwnContent, Unshared
<1>7. OwnOutput(o)'
  BY <1>2, <1>3, <1>4, <1>5 DEF OwnOutput
<1>8. o = "mar" => ~Right(i)
  BY <1>2 DEF Right
<1>9. DoneByClient(o)'
  BY <1>2, <1>3, <1>4, <1>5, <1>8 DEF DoneByClient, Unshared, Right, Connected, OutputOf, ItemsOf
<1>10. DoneByFinished(o)'
  BY <1>2, <1>3, <1>4, <1>5, <1>8 DEF DoneByFinished, Unshared, Right, ItemsOf, OutputOf
<1>. QED BY <1>6, <1>7, <1>9, <1>10 DEF Unshared

LEMMA FinishUnshared ==
    ASSUME Basic, NEW r \in Runs, Finish(r), Unshared(OutputOf(r))
    PROVE  Unshared(OutputOf(r))'
<1> DEFINE o == OutputOf(r)
<1>0. SignerTypeOK /\ OwnFiles /\ o \in Outputs /\ r[1] \in Sessions /\ r[2] \in 1 .. MaxRuns
  BY RunParts DEF Basic
<1>1. /\ UNCHANGED <<dir, last, todo, now>> /\ finished' = finished \cup {r[1]}
      /\ at[r] = "loop" /\ todo[r] = {} /\ Connected(r)
      /\ at'[r] = "ended" /\ \A q \in Runs \ {r} : at'[q] = at[q]
  BY <1>0 DEF Finish, Goto, SignerTypeOK
<1>2. \A q \in Runs : Connected(q)' => Connected(q)
  BY <1>0, RunParts DEF Finish, Connected, SignerTypeOK
<1>3. Users(o)' = Users(o)
  BY <1>1 DEF Users, Signing, OutputOf
<1>4. OneUser(o)' /\ OwnContent(o)'
  BY <1>1, <1>3 DEF OneUser, OwnContent, Unshared
<1>5. OwnOutput(o)'
  BY <1>0, <1>1, <1>3, UsersAreRuns DEF OwnOutput, Unshared, Signing
<1>6. DoneByClient(o)'
  BY <1>1, <1>2, <1>3 DEF DoneByClient, Unshared, Right, ItemsOf, OutputOf
<1>7. DoneByFinished(o)'
  <2>1. \A i \in ItemsOf(r[1]) : Right(i)
    BY <1>1 DEF DoneByClient, Unshared
  <2>2. \A q \in Users(o) : o = "mar" => q[1] # r[1]
    BY <1>0, <1>1, UsersAreRuns DEF DoneByClient, Unshared
  <2>. QED BY <1>1, <1>3, <2>1, <2>2 DEF DoneByFinished, Unshared, Right, ItemsOf
<1>. QED BY <1>4, <1>5, <1>6, <1>7 DEF Unshared

-----------------------------------------------------------------------------
\* The steps of the wrapper, and the copy.
LEMMA SignUnshared ==
    ASSUME Basic, NEW r \in Runs, Clear(r) \/ Open(r) \/ Close(r) \/ Chmod(r),
           Unshared(OutputOf(r))
    PROVE  Unshared(OutputOf(r))'
<1> DEFINE o == OutputOf(r)
<1>0. SignerTypeOK /\ OwnFiles /\ Writers /\ o \in Outputs
  BY RunParts DEF Basic
<1>1. Users(o) = {r}
  BY TheUser DEF Clear, Open, Close, Chmod, Signing
<1>2. UNCHANGED <<dir, todo, now, client, finished>>
  BY DEF Clear, Open, Close, Chmod
<1>3. PICK i \in Items : now[r] = {i}
  BY <1>0, <1>1, UsersAreRuns DEF ItemsOf
<1>4. \A q \in Runs \ {r} : at'[q] = at[q]
  BY <1>0 DEF Clear, Open, Close, Chmod, Goto, SignerTypeOK
<1>5. at'[r] \in Signing
  BY <1>0 DEF Clear, Open, Close, Chmod, Goto, SignerTypeOK, Signing
<1>6. Users(o)' = {r}
  BY <1>1, <1>4, <1>5 DEF Users, OutputOf
<1>7. o = "mar" => dir[i].whole /\ ~dir[i].signed
  BY <1>1, <1>3 DEF OwnOutput, Unshared
<1>8. at'[r] \in {"write", "chmod", "copy"} =>
        /\ last'[o].there /\ last'[o].of = {i} /\ (o = "mar" => last'[o].whole)
        /\ last'[o].writers = IF at'[r] = "write" THEN {r} ELSE {}
  <2>1. CASE Clear(r)
    BY <1>0, <2>1 DEF Clear, Goto, SignerTypeOK
  <2>2. CASE Open(r)
    <3>1. last[o].writers = {}
      <4>1. \A q \in last[o].writers : q \in Users(o) /\ at[q] = "write"
        BY <1>0 DEF Writers, Users, SignerTypeOK, Signing
      <4>. QED BY <1>1, <2>2, <4>1 DEF Open
    <3>2. last'[o] = Made(dir[i].of, dir[i].whole, {r}) /\ at'[r] = "write"
      BY <1>0, <1>3, <2>2, <3>1 DEF Open, Goto, SignerTypeOK
    <3>3. dir[i].of = {i}
      <4>1. i \in ItemsOf(r[1])
        BY <1>0, <1>1, <1>3, UsersAreRuns
      <4>. QED BY <4>1 DEF OwnContent, Unshared, ItemsOf, OutputOf
    <3>. QED BY <1>7, <3>2, <3>3 DEF Made
  <2>3. CASE Close(r)
    <3>1. last[o].of = {i} /\ (o = "mar" => last[o].whole) /\ last[o].writers = {r}
      BY <1>1, <1>3, <2>3 DEF Close, OwnOutput, Unshared
    <3>2. last'[o] = Made(last[o].of, last[o].whole /\ TRUE, last[o].writers \ {r})
      BY <1>0, <2>3, <3>1 DEF Close, Written, SignerTypeOK
    <3>3. at'[r] = "chmod"
      BY <1>0, <2>3 DEF Close, Goto, SignerTypeOK
    <3>4. last'[o].there /\ last'[o].of = {i} /\ last'[o].writers = {}
      BY <3>1, <3>2 DEF Made
    <3>5. o = "mar" => last'[o].whole
      <4>1. last'[o].whole = (last[o].whole /\ TRUE)
        BY <3>2 DEF Made
      <4>. QED BY <3>1, <4>1
    <3>. QED BY <3>3, <3>4, <3>5
  <2>4. CASE Chmod(r)
    <3>1. last' = last /\ at[r] = "chmod" /\ at'[r] = "copy"
      BY <1>0, <2>4 DEF Chmod, Goto, SignerTypeOK
    <3>. QED BY <1>1, <1>3, <3>1 DEF OwnOutput, Unshared
  <2>. QED BY <2>1, <2>2, <2>3, <2>4
<1>9. OwnOutput(o)'
  BY <1>2, <1>3, <1>6, <1>7, <1>8 DEF OwnOutput
<1>. QED BY <1>0, <1>1, <1>2, <1>6, <1>9, NothingSigned DEF Connected

\* A file that is copied, whole or not, over the one that the run signs.
LEMMA CopiedUnshared ==
    ASSUME Basic, NEW r \in Runs, Unshared(OutputOf(r)), at[r] = "copy", NEW all \in BOOLEAN,
           NEW i \in now[r], dir' = [dir EXCEPT ![i] = Copied(r, all)],
           \A q \in Runs : Connected(q)' => Connected(q),
           \A q \in Runs \ {r} : at'[q] = at[q], at'[r] \notin Signing,
           \A q \in Runs \ {r} : now'[q] = now[q],
           \A q \in Runs \ {r} : todo'[q] = todo[q],
           todo'[r] = IF all THEN todo[r] \ {i} ELSE todo[r],
           finished' = finished
    PROVE  Unshared(OutputOf(r))'
<1> DEFINE o == OutputOf(r)
<1>0. SignerTypeOK /\ OwnFiles /\ o \in Outputs
  BY RunParts DEF Basic
<1>1. Users(o) = {r} /\ Users(o)' = {}
  <2>1. Users(o) = {r}
    BY TheUser DEF Signing
  <2>. QED BY <2>1 DEF Users, OutputOf
<1>2. i \in Items /\ SessionOf[i] = r[1] /\ i \in ItemsOf(r[1]) /\ now[r] = {i}
  BY <1>0 DEF OwnFiles, ItemsOf, Signing
<1>3. \A j \in Items \ {i} : dir'[j] = dir[j]
  BY <1>0, <1>2 DEF SignerTypeOK
<1>4. dir'[i].of = {i} /\ dir'[i].signed /\ (o = "mar" => dir'[i].whole = all)
  <2>1. last[o].of = {i} /\ (o = "mar" => last[o].whole) /\ last[o].writers = {}
    BY <1>1 DEF OwnOutput, Unshared
  <2>2. dir'[i] = Copied(r, all)
    BY <1>0, <1>2 DEF SignerTypeOK
  <2>. QED BY <1>0, <2>1, <2>2 DEF Copied, SignerTypeOK
<1>5. (o = "exe" \/ all) => Right(i)'
  BY <1>0, <1>2, <1>4 DEF Right, OutputOf, Outputs
<1>6. \A j \in Items \ {i} : Right(j)' = Right(j)
  BY <1>3 DEF Right
<1>7. OneUser(o)' /\ OwnContent(o)' /\ OwnOutput(o)'
  BY <1>1, <1>3, <1>4 DEF OneUser, OwnContent, OwnOutput, Unshared
<1>8. DoneByClient(o)'
  <2>1. ASSUME NEW q \in Runs, OutputOf(q) = o, Connected(q)', NEW j \in ItemsOf(q[1]) \ todo'[q]
        PROVE  Right(j)'
    <3>1. j \in Items /\ Connected(q)
      BY <2>1 DEF ItemsOf
    <3>2. CASE j # i
      <4>1. j \notin todo[q]
        BY <2>1, <3>2
      <4>. QED BY <1>6, <2>1, <3>1, <3>2, <4>1 DEF DoneByClient, Unshared
    <3>3. CASE j = i /\ ~all /\ o = "mar"
      <4>1. q[1] = r[1]
        BY <1>2, <2>1, <3>3 DEF ItemsOf
      <4>2. j \in todo[q]
        BY <1>1, <1>2, <2>1, <3>1, <3>3, <4>1 DEF DoneByClient, Unshared
      <4>. QED BY <2>1, <3>3, <4>2
    <3>. QED BY <1>0, <1>5, <3>2, <3>3 DEF Outputs
  <2>. QED BY <1>1, <2>1 DEF DoneByClient, ItemsOf, OutputOf
<1>9. DoneByFinished(o)'
  <2>1. ASSUME NEW s \in finished, Output[s] = o, NEW j \in ItemsOf(s) PROVE Right(j)'
    <3>1. j \in Items /\ Right(j)
      BY <2>1 DEF DoneByFinished, Unshared, ItemsOf
    <3>2. j = i => o # "mar"
      BY <1>1, <1>2, <2>1 DEF DoneByFinished, Unshared, ItemsOf
    <3>. QED BY <1>0, <1>5, <1>6, <3>1, <3>2 DEF Outputs
  <2>. QED BY <1>1, <2>1 DEF DoneByFinished, ItemsOf
<1>. QED BY <1>7, <1>8, <1>9 DEF Unshared

LEMMA CopyUnshared ==
    ASSUME Basic, NEW r \in Runs, Copy(r), Unshared(OutputOf(r))
    PROVE  Unshared(OutputOf(r))'
<1>0. SignerTypeOK
  BY DEF Basic
<1>1. PICK i \in now[r] : /\ dir' = [dir EXCEPT ![i] = Copied(r, TRUE)]
                         /\ todo' = [todo EXCEPT ![r] = @ \ {i}]
  BY DEF Copy
<1>2. at[r] = "copy" /\ at'[r] \notin Signing
  BY <1>0 DEF Copy, Goto, SignerTypeOK, Signing
<1>3. \A q \in Runs \ {r} : at'[q] = at[q] /\ now'[q] = now[q] /\ todo'[q] = todo[q]
  BY <1>0, <1>1 DEF Copy, Goto, SignerTypeOK
<1>4. todo'[r] = todo[r] \ {i} /\ finished' = finished /\ client' = client
  BY <1>0, <1>1 DEF Copy, SignerTypeOK
<1>. QED BY <1>1, <1>2, <1>3, <1>4, CopiedUnshared DEF Connected

LEMMA FailUnshared ==
    ASSUME Basic, NEW r \in Runs, Fail(r), Unshared(OutputOf(r))
    PROVE  Unshared(OutputOf(r))'
<1> DEFINE o == OutputOf(r)
<1>0. SignerTypeOK /\ OwnFiles /\ Writers /\ o \in Outputs /\ Ends(r)
  BY RunParts DEF Basic, Fail
<1>1. CASE UNCHANGED dir
  <2>1. CASE at[r] = "loop"
    <3>1. last' = last
      <4>1. r \notin last[o].writers
        BY <1>0, <2>1 DEF Writers
      <4>. QED BY <1>0, <4>1 DEF Fail, Written, SignerTypeOK
    <3>. QED BY <1>0, <1>1, <3>1, EndsUnshared DEF Fail
  <2>2. CASE at[r] \in Signing
    <3>1. Users(o)' = {}
      BY <1>0, <2>2, TheUser, NoConnection
    <3>2. OwnOutput(o)'
      BY <3>1 DEF OwnOutput
    <3>. QED BY <1>0, <1>1, <3>1, <3>2, NoConnection, NothingSigned DEF Fail
  <2>. QED BY <2>1, <2>2 DEF Fail
<1>2. ASSUME NEW i \in now[r], at[r] = "copy", dir' = [dir EXCEPT ![i] = Copied(r, FALSE)]
      PROVE  Unshared(o)'
  <2>1. at'[r] \notin Signing
    BY <1>0 DEF Ends, Goto, SignerTypeOK, Signing
  <2>2. UNCHANGED <<todo, now, finished>>
    BY DEF Fail
  <2>. QED BY <1>0, <1>2, <2>1, <2>2, NoConnection, CopiedUnshared
<1>. QED BY <1>1, <1>2 DEF Fail

-----------------------------------------------------------------------------
LEMMA StartUnshared ==
    ASSUME Basic, NEW s \in Sessions, Begin(s), NEW o \in Outputs, Unshared(o)
    PROVE  Unshared(o)'
<1>0. SignerTypeOK
  BY DEF Basic
<1>1. PICK n \in 1 .. MaxRuns :
        /\ at[<<s, n>>] = "unused"
        /\ client' = [client EXCEPT ![s] = n]
        /\ at' = [at EXCEPT ![<<s, n>>] = "loop"]
        /\ todo' = [todo EXCEPT ![<<s, n>>] = ItemsOf(s)]
  BY DEF Begin, Goto
<1>2. UNCHANGED <<dir, last, now, finished>>
  BY DEF Begin
<1>3. \A q \in Runs : q # <<s, n>> => at'[q] = at[q] /\ todo'[q] = todo[q]
  BY <1>0, <1>1 DEF SignerTypeOK
<1>4. <<s, n>> \in Runs /\ at'[<<s, n>>] = "loop" /\ todo'[<<s, n>>] = ItemsOf(s)
  BY <1>0, <1>1, RunOf DEF SignerTypeOK
<1>5. Users(o)' = Users(o) /\ <<s, n>> \notin Users(o)
  BY <1>1, <1>3, <1>4 DEF Users, Signing, OutputOf
<1>6. \A q \in Runs : q # <<s, n>> /\ Connected(q)' => Connected(q)
  BY <1>0, <1>1, RunParts DEF Connected, SignerTypeOK
<1>7. OneUser(o)' /\ OwnContent(o)'
  BY <1>2, <1>5 DEF OneUser, OwnContent, Unshared
<1>8. OwnOutput(o)'
  BY <1>2, <1>3, <1>5, UsersAreRuns DEF OwnOutput, Unshared
<1>9. DoneByFinished(o)'
  BY <1>2, <1>5 DEF DoneByFinished, Unshared, Right, ItemsOf
<1>10. DoneByClient(o)'
  <2>1. ASSUME NEW q \in Runs, OutputOf(q) = o, Connected(q)'
        PROVE  /\ \A i \in ItemsOf(q[1]) \ todo'[q] : Right(i)'
               /\ \A p \in Users(o) : o = "mar" /\ p[1] = q[1] => now[p] \subseteq todo'[q]
    <3>1. CASE q # <<s, n>>
      BY <1>2, <1>3, <1>6, <2>1, <3>1 DEF DoneByClient, Unshared, Right
    <3>2. CASE q = <<s, n>>
      <4>1. q[1] = s /\ todo'[q] = ItemsOf(s)
        BY <1>4, <3>2, RunOf
      <4>. QED BY <4>1, UsersAreRuns
    <3>. QED BY <3>1, <3>2
  <2>. QED BY <1>2, <1>5, <2>1 DEF DoneByClient, ItemsOf, OutputOf
<1>. QED BY <1>7, <1>8, <1>9, <1>10 DEF Unshared

LEMMA RunUnshared ==
    ASSUME Basic, NEW r \in Runs, RunNext(r), Unshared(OutputOf(r)), OutputOf(r) \notin shared'
    PROVE  Unshared(OutputOf(r))'
<1>0. OutputOf(r) \in Outputs
  BY RunParts
<1>1. CASE Refuse(r)
  BY <1>0, <1>1, EndsUnshared DEF Refuse
<1>2. CASE BrokenPipe(r)
  BY <1>0, <1>2, EndsUnshared DEF BrokenPipe
<1>3. CASE NoSuchFile(r)
  BY <1>0, <1>3, EndsUnshared DEF NoSuchFile
<1>. QED
  BY <1>1, <1>2, <1>3, SkipUnshared, TakeUnshared, FinishUnshared, SignUnshared,
     CopyUnshared, FailUnshared DEF RunNext

LEMMA InvStep ==
    ASSUME IInv, [SignerNext]_signerVars
    PROVE  IInv'
<1>0. Basic /\ SignerTypeOK /\ Basic'
  BY BasicStep DEF IInv, Basic
<1>1. ASSUME NEW o \in Outputs, o \notin shared' PROVE Unshared(o)'
  <2>1. ASSUME NEW s \in Sessions, Begin(s) PROVE Unshared(o)'
    <3>1. Unshared(o)
      BY <1>1, <2>1 DEF Begin, IInv
    <3>. QED BY <1>0, <2>1, <3>1, StartUnshared
  <2>2. ASSUME NEW s \in Sessions, Disconnect(s) PROVE Unshared(o)'
    <3>1. Unshared(o) /\ UNCHANGED <<dir, last, at, todo, now, finished>>
      BY <1>1, <2>2 DEF Disconnect, IInv
    <3>2. \A q \in Runs : Connected(q)' => Connected(q)
      BY <1>0, <2>2, RunParts DEF Disconnect, Connected, SignerTypeOK
    <3>3. Users(o)' = Users(o)
      BY <3>1 DEF Users, OutputOf
    <3>4. OwnOutput(o)'
      BY <3>1, <3>3 DEF OwnOutput, Unshared
    <3>. QED BY <3>1, <3>2, <3>3, <3>4, NothingSigned
  <2>3. ASSUME NEW r \in Runs, RunNext(r) PROVE Unshared(o)'
    <3>1. RunFrame(r)
      BY <1>0, <2>3, FrameOfRun
    <3>2. Unshared(o)
      BY <1>1, <3>1 DEF RunFrame, IInv
    <3>. QED BY <1>0, <1>1, <2>3, <3>1, <3>2, OtherOutput, RunUnshared
  <2>4. CASE UNCHANGED signerVars
    <3>1. UNCHANGED <<dir, last, at, todo, now, client, finished, shared>>
      BY <2>4 DEF signerVars
    <3>2. Unshared(o) /\ Users(o)' = Users(o)
      BY <1>1, <3>1 DEF IInv, Users, OutputOf
    <3>3. OwnOutput(o)'
      BY <3>1, <3>2 DEF OwnOutput, Unshared
    <3>. QED BY <3>1, <3>2, <3>3, NothingSigned DEF Connected
  <2>. QED BY <2>1, <2>2, <2>3, <2>4 DEF SignerNext
<1>. QED BY <1>0, <1>1 DEF IInv

LEMMA InvInit ==
    ASSUME SignerInit
    PROVE  IInv
<1>1. Basic
  <2>1. SignerTypeOK
    BY BoundsAssumption DEF SignerInit, SignerTypeOK, Missing
  <2>2. ClientLives /\ OwnFiles
    BY RunParts DEF SignerInit, ClientLives, Connected, OwnFiles, Signing
  <2>3. Writers
    BY DEF SignerInit, Writers, Missing
  <2>. QED BY <2>1, <2>2, <2>3 DEF Basic
<1>2. ASSUME NEW o \in Outputs PROVE Unshared(o)
  <2>1. Users(o) = {} /\ finished = {} /\ \A q \in Runs : ~Connected(q)
    BY RunParts DEF SignerInit, Users, Signing, Connected
  <2>2. OwnContent(o)
    BY DEF SignerInit, OwnContent
  <2>. QED BY <2>1, <2>2 DEF Unshared, OneUser, OwnOutput, DoneByClient, DoneByFinished
<1>. QED BY <1>1, <1>2 DEF IInv

\* When a step has its marker, each of its files is signed and is its own and, if it
\* is a mar, whole: unless two runs have used its output at a time.
THEOREM Marked == SignerSpec => []FinishedIsSigned
<1>1. SignerInit => IInv
  BY InvInit
<1>2. IInv /\ [SignerNext]_signerVars => IInv'
  BY InvStep
<1>3. IInv => FinishedIsSigned
  <2> SUFFICES ASSUME IInv, NEW i \in Items, SessionOf[i] \in finished,
                      Output[SessionOf[i]] \notin shared
               PROVE  /\ dir[i].signed /\ dir[i].of = {i}
                      /\ dir[i].whole \/ Output[SessionOf[i]] = "exe"
    BY DEF FinishedIsSigned
  <2>1. Output[SessionOf[i]] \in Outputs
    BY SessionsAssumption
  <2>2. Unshared(Output[SessionOf[i]])
    BY <2>1 DEF IInv
  <2>. QED BY <2>2 DEF Unshared, OwnContent, DoneByFinished, Right, ItemsOf
<1>. QED BY <1>1, <1>2, <1>3, PTL DEF SignerSpec
=============================================================================

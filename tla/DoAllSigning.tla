---------------------------- MODULE DoAllSigning ----------------------------
(***************************************************************************)
(* The release signing pipeline driven by tools/signing/do-all-signing.    *)
(*                                                                         *)
(* The operator's machine ("local") runs a fixed list of steps.  A step    *)
(* that returns success leaves a marker file <step>.done; a rerun of the   *)
(* script skips the steps that have one.  A step works on one file at a    *)
(* time, on the local machine, on the signing machine ("signer") or on the *)
(* web server ("dist", "cdn"), and the run may be interrupted (a failing   *)
(* command under set -e, a lost ssh connection, a closed terminal) after   *)
(* any piece of work, in particular after the last one and before the      *)
(* marker is written.  The next run redoes the interrupted step from its   *)
(* start, on top of what the interrupted one left.                         *)
(*                                                                         *)
(* A file's content is abstracted to the set of signatures it carries and  *)
(* a revision that grows every time a tool rewrites the file, so that two  *)
(* contents are equal only if their bytes are.                             *)
(***************************************************************************)
EXTENDS Naturals, FiniteSets

CONSTANTS
    Project,        \* SIGNING_PROJECTNAME
    Platforms,      \* the platforms rbm showconf reports for the release
    Files,          \* names in the version directory, sums and .asc excepted
    Kind,           \* what sort of artifact each name is
    Dmg, Hfs,       \* the macOS image and the volume extracted from it
    BuiltFirst,     \* TRUE: the operator starts after the build has finished
    MaxInterrupts   \* bound on the number of interrupted runs

Kinds == {"dmg", "hfs", "exe", "mar", "macmar", "macinc", "qa", "apk", "aab",
          "test", "other"}

\* Pieces of a step's work that are not the handling of one file.
Labels == {"sums", "tar", "staple", "rm", "cdn_dir", "untar", "commit", "push"}

ASSUME ProjectAssumption ==
    /\ Project \in {"torbrowser", "mullvadbrowser", "torvpn"}
    /\ Platforms \subseteq {"android", "desktop", "macos", "windows"}
    /\ {"macos", "windows"} \cap Platforms # {} => "desktop" \in Platforms
    /\ Project = "torvpn" => Platforms = {"android"}

ASSUME FilesAssumption ==
    /\ Kind \in [Files -> Kinds]
    /\ Dmg \in Files /\ Hfs \in Files
    /\ \A f \in Files : /\ Kind[f] = "dmg" <=> f = Dmg
                        /\ Kind[f] = "hfs" <=> f = Hfs
    /\ Labels \cap Files = {}

\* The files of a kind exist only in releases for the platform they belong to.
KindPlatform(k) ==
    CASE k \in {"dmg", "hfs", "macmar", "macinc"} -> "macos"
      [] k = "exe" -> "windows"
      [] k = "mar" -> "desktop"
      [] k \in {"qa", "apk", "aab", "test"} -> "android"
      [] OTHER -> "any"

ASSUME KindAssumption ==
    \A f \in Files \ {Dmg, Hfs} :
        /\ KindPlatform(Kind[f]) \in Platforms \cup {"any"}
        /\ Kind[f] = "aab" => Project = "torvpn"

ASSUME BoundAssumption == BuiltFirst \in BOOLEAN /\ MaxInterrupts \in Nat

Of(ks) == {f \in Files : Kind[f] \in ks}
Mars == Of({"mar", "macmar", "macinc"})
Macos == "macos" \in Platforms

-----------------------------------------------------------------------------
(* The steps, in the order in which do-all-signing calls do_step.          *)

set_time_on_signing_machine == 1
wait_for_finished_build == 2
sync_builder_unsigned_to_local_signed == 3
clean_build_artifacts == 4
extract_dmg == 5
sync_scripts_to_linux_signer == 6
sync_before_linux_signer_rcodesign_sign == 7
linux_signer_rcodesign_sign == 8
sync_linux_signer_macos_signed_tar_to_local == 9
rcodesign_notary_submit == 10
gatekeeper_bundling == 11
dmg2mar == 12
sync_scripts_to_linux_signer_again == 13
sync_before_linux_signer_signmars == 14
linux_signer_signmars == 15
sync_after_signmars == 16
linux_signer_sign_android_apks == 17
linux_signer_sign_android_aab == 18
sync_after_sign_android_apks == 19
linux_signer_authenticode_signing == 20
sync_after_authenticode_signing == 21
authenticode_timestamping == 22
sync_after_authenticode_timestamping == 23
hash_signed_bundles == 24
sync_after_hash == 25
linux_signer_gpg_sign == 26
sync_after_gpg_sign == 27
download_unsigned_sha256sums_gpg_signatures == 28
sync_local_to_staticiforme == 29
sync_scripts_to_staticiforme == 30
staticiforme_prepare_cdn_dist_upload == 31
upload_update_responses_to_staticiforme == 32
finished_signing_clean_linux_signer == 33

Steps == 1 .. 33
EndOfScript == 34

\* The two calls of sync-scripts-to-linux-signer share one marker file.
Marker(n) == IF n = sync_scripts_to_linux_signer_again
             THEN sync_scripts_to_linux_signer
             ELSE n

\* The tests in front of the do_step calls.
Applicable(n) ==
    /\ n \in {wait_for_finished_build, sync_builder_unsigned_to_local_signed,
              upload_update_responses_to_staticiforme} => Project # "torvpn"
    /\ n \in {extract_dmg} \cup linux_signer_rcodesign_sign .. dmg2mar => Macos
    /\ n \in {linux_signer_signmars, sync_after_signmars}
         => "desktop" \in Platforms
    /\ n \in {linux_signer_sign_android_apks, linux_signer_sign_android_aab,
              sync_after_sign_android_apks} => "android" \in Platforms
    /\ n = linux_signer_sign_android_aab => Project = "torvpn"
    /\ n \in linux_signer_authenticode_signing ..
             sync_after_authenticode_timestamping => "windows" \in Platforms

-----------------------------------------------------------------------------
(* State.                                                                  *)

VARIABLES
    built,       \* progress of the build on the builder
    listed,      \* incrementals named in sha256sums-unsigned-build.incrementals
    file,        \* file[h][f]: content of f in host h's version directory
    asc,         \* asc[h][f]: the content f.asc is a valid signature of
    sums,        \* sums[h]: contents hashed in sha256sums-signed-build*.txt
    sumsAsc,     \* sumsAsc[h]: the sums the .asc of those files is valid for
    tar,         \* the code-signed app on its way back from the signer
    cdnMade,     \* the version directory exists on cdn-master
    repo,        \* the operator's clone of tor-browser-update-responses
    responses,   \* contents hashed in the update responses pushed to the server
    done,        \* steps with a .done marker
    pos,         \* step the running script has reached, 0 if it is not running
    handled,     \* the work of the current step that this run has done
    secrets,     \* passwords in the environment of the running script
    interrupts   \* number of interrupted runs

content == <<file, asc, sums, sumsAsc, tar, cdnMade, repo, responses>>
vars == <<built, listed, content, done, pos, handled, secrets, interrupts>>

Hosts == {"builder", "local", "signer", "dist", "cdn"}
Marks == {"code", "stapled", "mar", "apk", "authenticode", "timestamp"}
Content == [marks : SUBSET Marks, rev : Nat]

Absent == [marks |-> {}, rev |-> 0]
Unsigned == [marks |-> {}, rev |-> 1]
NoSums == [f \in Files |-> Absent]

Present(h, f) == file[h][f] # Absent
Rewrite(c, ms) == [marks |-> ms, rev |-> c.rev + 1]
Put(h, f, c) == [file EXCEPT ![h][f] = c]

\* What a finished build leaves in the unsigned directory.
BuilderOutput ==
    [f \in Files |-> IF \/ Kind[f] \in {"hfs", "apk"}
                        \/ Kind[f] = "dmg" /\ ~Macos
                     THEN Absent ELSE Unsigned]

Secrets == {"RCODESIGN_PW", "NSSPASS", "KSPASS", "YUBIPASS", "GPG_PASS"}

Init ==
    /\ built = IF BuiltFirst THEN "finished" ELSE "building"
    /\ listed = [h \in {"builder", "local"} |->
                   IF BuiltFirst /\ h = "builder" THEN Of({"macinc"}) ELSE {}]
    /\ file = [h \in Hosts |->
                 IF \/ h = "builder" /\ BuiltFirst
                    \/ h = "local" /\ Project = "torvpn"
                 THEN BuilderOutput ELSE NoSums]
    /\ asc = [h \in Hosts |-> NoSums]
    /\ sums = [h \in Hosts |-> NoSums]
    /\ sumsAsc = [h \in Hosts |-> NoSums]
    /\ tar = [p \in {"signer", "local", "stapled"} |-> Absent]
    /\ cdnMade = FALSE
    /\ repo = "old"
    /\ responses = NoSums
    /\ done = {}
    /\ pos = 0
    /\ handled = {}
    /\ secrets = {}
    /\ interrupts = 0

-----------------------------------------------------------------------------
(* The builder, when signing is started before the build has finished.     *)

\* projects/release/build and gen_incrementals have put every file in place.
BuilderMergesFiles ==
    /\ built = "building"
    /\ built' = "merged"
    /\ file' = [file EXCEPT !["builder"] = BuilderOutput]
    /\ UNCHANGED <<listed, asc, sums, sumsAsc, tar, cdnMade, repo, responses,
                   done, pos, handled, secrets, interrupts>>

\* hash_incrementals: the shell creates the sums file before sha256sum runs,
\* which then writes the lines while it reads the incrementals.
BuilderHashesIncrementals ==
    /\ \/ built = "merged" /\ built' = "hashing" /\ listed' = listed
       \/ /\ built = "hashing"
          /\ built' = built
          /\ \E f \in Of({"macinc"}) \ listed["builder"] :
                listed' = [listed EXCEPT !["builder"] = @ \cup {f}]
       \/ /\ built = "hashing"
          /\ listed["builder"] = Of({"macinc"})
          /\ built' = "finished" /\ listed' = listed
    /\ UNCHANGED <<content, done, pos, handled, secrets, interrupts>>

-----------------------------------------------------------------------------
(* do-all-signing itself.                                                  *)

AtStep(n) == pos = n /\ Applicable(n) /\ Marker(n) \notin done

\* Mutant: the android prompt is skipped once the apks are signed.
PromptedUntil_Apks(s) ==
    CASE s = "RCODESIGN_PW" -> linux_signer_rcodesign_sign
      [] s = "NSSPASS" -> linux_signer_signmars
      [] s = "KSPASS" -> linux_signer_sign_android_apks
      [] s = "YUBIPASS" -> linux_signer_authenticode_signing
      [] OTHER -> linux_signer_gpg_sign

\* Mutant: the mar prompt is skipped once the mars are on the signer.
PromptedUntil_MarSync(s) ==
    CASE s = "RCODESIGN_PW" -> linux_signer_rcodesign_sign
      [] s = "NSSPASS" -> sync_before_linux_signer_signmars
      [] s = "KSPASS" -> sync_after_sign_android_apks
      [] s = "YUBIPASS" -> linux_signer_authenticode_signing
      [] OTHER -> linux_signer_gpg_sign

\* The step whose marker makes the prompt for a password unnecessary.
PromptedUntil(s) ==
    CASE s = "RCODESIGN_PW" -> linux_signer_rcodesign_sign
      [] s = "NSSPASS" -> linux_signer_signmars
      [] s = "KSPASS" -> sync_after_sign_android_apks
      [] s = "YUBIPASS" -> linux_signer_authenticode_signing
      [] OTHER -> linux_signer_gpg_sign

SecretPlatform(s) ==
    CASE s = "RCODESIGN_PW" -> Macos
      [] s = "NSSPASS" -> "desktop" \in Platforms
      [] s = "KSPASS" -> "android" \in Platforms
      [] s = "YUBIPASS" -> "windows" \in Platforms
      [] OTHER -> TRUE

\* Passwords asked for at the start of a run.
Prompted == {s \in Secrets : SecretPlatform(s) /\ PromptedUntil(s) \notin done}

\* The password a step sends to the signer.
Needs(n) ==
    CASE n = linux_signer_rcodesign_sign -> {"RCODESIGN_PW"}
      [] n = linux_signer_signmars -> {"NSSPASS"}
      [] n \in {linux_signer_sign_android_apks, linux_signer_sign_android_aab}
           -> {"KSPASS"}
      [] n = linux_signer_authenticode_signing -> {"YUBIPASS"}
      [] n = linux_signer_gpg_sign -> {"GPG_PASS"}
      [] OTHER -> {}

\* A run starts: passwords come from the encrypted file, or from prompts.
Start ==
    /\ pos = 0
    /\ pos' = 1
    /\ \/ secrets' = {s \in Secrets : SecretPlatform(s)}
       \/ secrets' = Prompted
    /\ UNCHANGED <<built, listed, content, done, handled, interrupts>>

SkipStep ==
    /\ pos \in Steps
    /\ ~AtStep(pos)
    /\ pos' = pos + 1
    /\ UNCHANGED <<built, listed, content, done, handled, secrets, interrupts>>

\* Mutant: the exit status of the step is lost in the pipe to tee.
Interrupt_StatusLost ==
    /\ pos \in Steps
    /\ AtStep(pos)
    /\ interrupts < MaxInterrupts
    /\ interrupts' = interrupts + 1
    /\ done' = done \cup {Marker(pos)}
    /\ pos' = 0 /\ handled' = {} /\ secrets' = {}
    /\ UNCHANGED <<built, listed, content>>

\* The run dies, whatever the step has done so far.
Interrupt ==
    /\ pos \in Steps
    /\ AtStep(pos)
    /\ interrupts < MaxInterrupts
    /\ interrupts' = interrupts + 1
    /\ pos' = 0 /\ handled' = {} /\ secrets' = {}
    /\ UNCHANGED <<built, listed, content, done>>

-----------------------------------------------------------------------------
(* Pieces of work.  Did(u) records one in the running step.                *)

Did(u) ==
    /\ handled' = handled \cup {u}
    /\ UNCHANGED <<built, done, pos, secrets, interrupts>>

OnlyFiles == UNCHANGED <<listed, asc, sums, sumsAsc, tar, cdnMade, repo, responses>>

\* rsync -avH src/ dst/: every name src has replaces the one dst has, and
\* names that only dst has stay.  A file and its .asc travel together.
Transfer(src, dst, u) ==
    /\ IF u = "sums"
       THEN /\ sums' = [sums EXCEPT ![dst] = sums[src]]
            /\ sumsAsc' = [sumsAsc EXCEPT ![dst] =
                 IF sumsAsc[src] # NoSums THEN sumsAsc[src] ELSE @]
            /\ UNCHANGED <<file, asc>>
       ELSE /\ file' = Put(dst, u, file[src][u])
            /\ asc' = [asc EXCEPT ![dst][u] =
                 IF asc[src][u] # Absent THEN asc[src][u] ELSE @]
            /\ UNCHANGED <<sums, sumsAsc>>
    /\ UNCHANGED <<tar, cdnMade, repo, responses>>

Transferable(src) == {f \in Files : Present(src, f)}
                       \cup {u \in {"sums"} : sums[src] # NoSums}

Rsync(src, dst) ==
    \E u \in Transferable(src) \ handled :
        Transfer(src, dst, u) /\ Did(u)

\* The .incrementals.txt list is one of the names rsync copies first.
SyncBuilderUnsignedToLocalSigned ==
    /\ AtStep(sync_builder_unsigned_to_local_signed)
    /\ Rsync("builder", "local")
    /\ listed' = IF handled = {} THEN [listed EXCEPT !["local"] = listed["builder"]]
                                 ELSE listed

\* Mutant: sync-after-signmars copies in the wrong direction.
LocalToSignerSteps_AfterSignmars ==
    {sync_before_linux_signer_rcodesign_sign, sync_before_linux_signer_signmars,
     sync_after_authenticode_timestamping, sync_after_hash, sync_after_signmars}

LocalToSignerSteps ==
    {sync_before_linux_signer_rcodesign_sign, sync_before_linux_signer_signmars,
     sync_after_authenticode_timestamping, sync_after_hash}

\* Mutant: the detached signatures are not fetched from the signer.
SignerToLocalSteps_NoGpg ==
    {sync_after_signmars, sync_after_sign_android_apks,
     sync_after_authenticode_signing}

SignerToLocalSteps ==
    {sync_after_signmars, sync_after_sign_android_apks,
     sync_after_authenticode_signing, sync_after_gpg_sign}

SyncLocalToLinuxSigner ==
    /\ AtStep(pos) /\ pos \in LocalToSignerSteps
    /\ Rsync("local", "signer")
    /\ UNCHANGED listed

SyncLinuxSignerToLocal ==
    /\ AtStep(pos) /\ pos \in SignerToLocalSteps
    /\ Rsync("signer", "local")
    /\ UNCHANGED listed

SyncLocalToStaticiforme ==
    /\ AtStep(sync_local_to_staticiforme)
    /\ Rsync("local", "dist")
    /\ UNCHANGED listed

CleanBuildArtifacts ==
    /\ AtStep(clean_build_artifacts)
    /\ \E f \in Of({"test"}) \ handled :
         /\ file' = Put("local", f, Absent)
         /\ Did(f)
    /\ OnlyFiles

-----------------------------------------------------------------------------
(* macOS.                                                                  *)

ExtractDmg ==
    /\ AtStep(extract_dmg)
    /\ \/ /\ handled = {} /\ Present("local", Dmg)
          /\ file' = Put("local", Hfs, Rewrite(file["local"][Hfs], file["local"][Dmg].marks))
          /\ Did(Hfs)
       \/ /\ handled = {Hfs}
          /\ file' = Put("local", Dmg, Absent)
          /\ Did(Dmg)
    /\ OnlyFiles

LinuxSignerRcodesignSign ==
    /\ AtStep(linux_signer_rcodesign_sign)
    /\ Needs(pos) \subseteq secrets
    /\ \/ /\ handled = {} /\ Present("signer", Hfs)
          /\ tar' = [tar EXCEPT !["signer"] = Rewrite(@, {"code"})]
          /\ file' = file
          /\ Did("tar")
       \/ /\ handled = {"tar"}
          /\ file' = Put("signer", Hfs, Absent)
          /\ tar' = tar
          /\ Did("rm")
    /\ UNCHANGED <<listed, asc, sums, sumsAsc, cdnMade, repo, responses>>

SyncLinuxSignerMacosSignedTarToLocal ==
    /\ AtStep(sync_linux_signer_macos_signed_tar_to_local)
    /\ handled = {} /\ tar["signer"] # Absent
    /\ tar' = [tar EXCEPT !["local"] = tar["signer"]]
    /\ Did("tar")
    /\ UNCHANGED <<listed, file, asc, sums, sumsAsc, cdnMade, repo, responses>>

RcodesignNotarySubmit ==
    /\ AtStep(rcodesign_notary_submit)
    /\ handled = {} /\ tar["local"] # Absent
    /\ tar' = [tar EXCEPT !["stapled"] = Rewrite(@, tar["local"].marks \cup {"stapled"})]
    /\ Did("staple")
    /\ UNCHANGED <<listed, file, asc, sums, sumsAsc, cdnMade, repo, responses>>

GatekeeperBundling ==
    /\ AtStep(gatekeeper_bundling)
    /\ \/ /\ handled = {} /\ tar["stapled"] # Absent
          /\ file' = Put("local", Dmg, Rewrite(file["local"][Dmg], tar["stapled"].marks))
          /\ Did(Dmg)
       \/ /\ handled = {Dmg}
          /\ file' = Put("local", Hfs, Absent)
          /\ Did(Hfs)
    /\ OnlyFiles

\* Full updates are made again from the signed dmg, the incrementals named in
\* the unsigned sums are removed, and the missing ones are made from code-signed
\* full updates (CHECK_CODESIGNATURE_EXISTS=1 MAR_SKIP_EXISTING=1).
Dmg2mar ==
    /\ AtStep(dmg2mar)
    /\ \/ \E f \in Of({"macmar"}) \ handled :
            /\ "rm" \notin handled /\ Present("local", Dmg)
            /\ file' = Put("local", f, Rewrite(file["local"][f], file["local"][Dmg].marks))
            /\ Did(f)
       \/ /\ "rm" \notin handled /\ Of({"macmar"}) \subseteq handled
          /\ file' = [file EXCEPT !["local"] =
                        [f \in Files |-> IF f \in listed["local"] THEN Absent ELSE @[f]]]
          /\ Did("rm")
       \/ \E f \in Of({"macinc"}) \ handled :
            /\ "rm" \in handled
            /\ file' = IF Present("local", f) THEN file
                       ELSE Put("local", f, Rewrite(Absent, file["local"][Dmg].marks))
            /\ Did(f)
    /\ OnlyFiles

-----------------------------------------------------------------------------
(* Signatures made on the signer, and timestamps.                          *)

\* A mar that signmar -T reports as signed is skipped.
LinuxSignerSignmars ==
    /\ AtStep(linux_signer_signmars)
    /\ Needs(pos) \subseteq secrets
    /\ \E f \in Mars \ handled :
         /\ Present("signer", f)
         /\ file' = IF "mar" \in file["signer"][f].marks THEN file
                    ELSE Put("signer", f, Rewrite(file["signer"][f],
                                                  file["signer"][f].marks \cup {"mar"}))
         /\ Did(f)
    /\ OnlyFiles

\* linux-signer-sign-android-apks makes the apks of those for QA, and
\* linux-signer-sign-android-aab replaces the bundle.
LinuxSignerSignAndroid(k) ==
    /\ AtStep(IF k = "apk" THEN linux_signer_sign_android_apks
                           ELSE linux_signer_sign_android_aab)
    /\ Needs(pos) \subseteq secrets
    /\ \A f \in Of({IF k = "apk" THEN "qa" ELSE "aab"}) : Present("signer", f)
    /\ \E f \in Of({k}) \ handled :
         /\ file' = Put("signer", f, Rewrite(file["signer"][f], {"apk"}))
         /\ Did(f)
    /\ OnlyFiles

\* osslsigncode replaces whatever signature the file has.
LinuxSignerAuthenticodeSigning ==
    /\ AtStep(linux_signer_authenticode_signing)
    /\ Needs(pos) \subseteq secrets
    /\ \E f \in Of({"exe"}) \ handled :
         /\ Present("signer", f)
         /\ file' = Put("signer", f, Rewrite(file["signer"][f], {"authenticode"}))
         /\ Did(f)
    /\ OnlyFiles

\* osslsigncode add; the renames that put the results in place come last, so
\* that an interrupt leaves some executables timestamped and others not.
AuthenticodeTimestamping ==
    /\ AtStep(authenticode_timestamping)
    /\ \E f \in Of({"exe"}) \ handled :
         /\ Present("local", f)
         /\ file' = Put("local", f, Rewrite(file["local"][f],
                                            file["local"][f].marks \cup {"timestamp"}))
         /\ Did(f)
    /\ OnlyFiles

HashSignedBundles ==
    /\ AtStep(hash_signed_bundles)
    /\ handled = {}
    /\ sums' = [sums EXCEPT !["local"] = file["local"]]
    /\ Did("sums")
    /\ UNCHANGED <<listed, file, asc, sumsAsc, tar, cdnMade, repo, responses>>

GpgSigned == Of({"dmg", "exe", "qa", "apk", "aab", "other"})

LinuxSignerGpgSign ==
    /\ AtStep(linux_signer_gpg_sign)
    /\ Needs(pos) \subseteq secrets
    /\ \/ \E f \in GpgSigned \ handled :
            /\ Present("signer", f)
            /\ asc' = [asc EXCEPT !["signer"][f] = file["signer"][f]]
            /\ sumsAsc' = sumsAsc
            /\ Did(f)
       \/ /\ "sums" \notin handled
          /\ sumsAsc' = [sumsAsc EXCEPT !["signer"] = sums["signer"]]
          /\ asc' = asc
          /\ Did("sums")
    /\ UNCHANGED <<listed, file, sums, tar, cdnMade, repo, responses>>

-----------------------------------------------------------------------------
(* Publication.                                                            *)

\* Mutant: an existing directory is taken for a finished one.
UsesCdn_SkipExisting ==
    /\ Project = "torbrowser" /\ \E f \in Mars : Present("dist", f)
    /\ "cdn_dir" \notin handled => ~cdnMade

\* The mars are linked from dist into a directory that must not exist yet.
UsesCdn == Project = "torbrowser" /\ \E f \in Mars : Present("dist", f)

StaticiformePrepareCdnDistUpload ==
    /\ AtStep(staticiforme_prepare_cdn_dist_upload)
    /\ UsesCdn
    /\ \/ /\ handled = {} /\ ~cdnMade
          /\ cdnMade' = TRUE /\ file' = file
          /\ Did("cdn_dir")
       \/ \E f \in Mars \ handled :
            /\ "cdn_dir" \in handled /\ Present("dist", f)
            /\ file' = Put("cdn", f, file["dist"][f]) /\ cdnMade' = cdnMade
            /\ Did(f)
    /\ UNCHANGED <<listed, asc, sums, sumsAsc, tar, repo, responses>>

\* The responses are made from the local mars and unpacked in a clean clone of
\* the responses repository, committed, and pushed.
UploadUpdateResponses ==
    /\ AtStep(upload_update_responses_to_staticiforme)
    /\ \/ /\ handled = {} /\ repo # "dirty"
          /\ repo' = IF repo = "old" THEN "dirty" ELSE repo
          /\ UNCHANGED responses /\ Did("untar")
       \/ /\ handled = {"untar"}
          /\ repo' = "committed"
          /\ UNCHANGED responses /\ Did("commit")
       \/ /\ handled = {"untar", "commit"}
          /\ repo' = repo
          /\ responses' = [f \in Files |-> IF f \in Mars THEN file["local"][f] ELSE Absent]
          /\ Did("push")
    /\ UNCHANGED <<listed, file, asc, sums, sumsAsc, tar, cdnMade>>

FinishedSigningCleanLinuxSigner ==
    /\ AtStep(finished_signing_clean_linux_signer)
    /\ \E u \in Transferable("signer") :
         IF u = "sums"
         THEN /\ sums' = [sums EXCEPT !["signer"] = NoSums]
              /\ sumsAsc' = [sumsAsc EXCEPT !["signer"] = NoSums]
              /\ UNCHANGED <<file, asc>>
         ELSE /\ file' = Put("signer", u, Absent)
              /\ asc' = [asc EXCEPT !["signer"][u] = Absent]
              /\ UNCHANGED <<sums, sumsAsc>>
    /\ tar' = [tar EXCEPT !["signer"] = Absent]
    /\ Did("rm")
    /\ UNCHANGED <<listed, cdnMade, repo, responses>>

-----------------------------------------------------------------------------
(* do_step: a step that has nothing left to do gets its marker.            *)

Complete(n) ==
    CASE n = wait_for_finished_build -> built \in {"hashing", "finished"}
      [] n = sync_builder_unsigned_to_local_signed -> Transferable("builder") \subseteq handled
      [] n = clean_build_artifacts -> Of({"test"}) \subseteq handled
      [] n = extract_dmg -> handled = {Hfs, Dmg}
      [] n \in LocalToSignerSteps \cup {sync_local_to_staticiforme}
           -> Transferable("local") \subseteq handled
      [] n \in SignerToLocalSteps -> Transferable("signer") \subseteq handled
      [] n = linux_signer_rcodesign_sign -> handled = {"tar", "rm"}
      [] n = sync_linux_signer_macos_signed_tar_to_local -> handled = {"tar"}
      [] n = rcodesign_notary_submit -> handled = {"staple"}
      [] n = gatekeeper_bundling -> handled = {Dmg, Hfs}
      [] n = dmg2mar -> Of({"macmar", "macinc"}) \cup {"rm"} \subseteq handled
      [] n = linux_signer_signmars
           -> \A f \in Mars : Present("signer", f) => f \in handled
      [] n = linux_signer_sign_android_apks -> Of({"apk"}) \subseteq handled
      [] n = linux_signer_sign_android_aab -> Of({"aab"}) \subseteq handled
      [] n = linux_signer_authenticode_signing
           -> \A f \in Of({"exe"}) : Present("signer", f) => f \in handled
      [] n = authenticode_timestamping
           -> \A f \in Of({"exe"}) : Present("local", f) => f \in handled
      [] n = hash_signed_bundles -> handled = {"sums"}
      [] n = linux_signer_gpg_sign
           -> /\ \A f \in GpgSigned : Present("signer", f) => f \in handled
              /\ "sums" \in handled
      [] n = staticiforme_prepare_cdn_dist_upload
           -> UsesCdn => /\ "cdn_dir" \in handled
                         /\ \A f \in Mars : Present("dist", f) => f \in handled
      [] n = upload_update_responses_to_staticiforme -> "push" \in handled
      [] n = finished_signing_clean_linux_signer -> Transferable("signer") = {}
      [] OTHER -> TRUE

FinishStep ==
    /\ pos \in Steps /\ AtStep(pos)
    /\ Needs(pos) \subseteq secrets
    /\ Complete(pos)
    /\ done' = done \cup {Marker(pos)}
    /\ pos' = pos + 1
    /\ handled' = {}
    /\ UNCHANGED <<built, listed, content, secrets, interrupts>>

\* A step that cannot begin: its input is gone, or a precaution stops it.
InputGone(n) ==
    \/ n = extract_dmg /\ handled = {} /\ ~Present("local", Dmg)
    \/ n = linux_signer_rcodesign_sign /\ handled = {} /\ ~Present("signer", Hfs)
    \/ n = sync_linux_signer_macos_signed_tar_to_local /\ tar["signer"] = Absent
    \/ n = rcodesign_notary_submit /\ tar["local"] = Absent
    \/ n = gatekeeper_bundling /\ tar["stapled"] = Absent
    \/ n = dmg2mar /\ ~Present("local", Dmg)
    \/ n = linux_signer_sign_android_apks /\ \E q \in Of({"qa"}) : ~Present("signer", q)
    \/ n = linux_signer_sign_android_aab /\ \E f \in Of({"aab"}) : ~Present("signer", f)
    \/ n = staticiforme_prepare_cdn_dist_upload /\ UsesCdn /\ handled = {} /\ cdnMade
    \/ n = upload_update_responses_to_staticiforme /\ handled = {} /\ repo = "dirty"

\* With an empty password the scripts on the signer read one from a stdin that
\* is at its end, and fail.
Blocked(n) == InputGone(n) \/ ~(Needs(n) \subseteq secrets)

StepFails ==
    /\ pos \in Steps /\ AtStep(pos)
    /\ Blocked(pos)
    /\ pos' = 0 /\ handled' = {} /\ secrets' = {}
    /\ UNCHANGED <<built, listed, content, done, interrupts>>

\* The script has returned; nothing is left to do.
Terminated == pos = EndOfScript /\ UNCHANGED vars

StepWork ==
    \/ SyncBuilderUnsignedToLocalSigned \/ CleanBuildArtifacts \/ ExtractDmg
    \/ SyncLocalToLinuxSigner \/ LinuxSignerRcodesignSign
    \/ SyncLinuxSignerMacosSignedTarToLocal \/ RcodesignNotarySubmit
    \/ GatekeeperBundling \/ Dmg2mar \/ LinuxSignerSignmars
    \/ SyncLinuxSignerToLocal \/ LinuxSignerAuthenticodeSigning
    \/ AuthenticodeTimestamping \/ HashSignedBundles \/ LinuxSignerGpgSign
    \/ \E k \in {"apk", "aab"} : LinuxSignerSignAndroid(k)
    \/ SyncLocalToStaticiforme \/ StaticiformePrepareCdnDistUpload
    \/ UploadUpdateResponses \/ FinishedSigningCleanLinuxSigner

Builder == BuilderMergesFiles \/ BuilderHashesIncrementals

Runner == Start \/ SkipStep \/ StepWork \/ FinishStep \/ StepFails

Next == Builder \/ Runner \/ Interrupt \/ Terminated

Spec == Init /\ [][Next]_vars

\* The builder finishes its build, the script goes on with what it has to do,
\* and the operator runs it again when it has stopped.
FairSpec == Spec /\ WF_vars(Runner) /\ WF_vars(Builder)

-----------------------------------------------------------------------------
(* Properties.                                                             *)

\* The signatures a published artifact must carry.
Required(k) ==
    CASE k = "dmg" -> {"code", "stapled"}
      [] k \in {"macmar", "macinc"} -> {"code", "stapled", "mar"}
      [] k = "mar" -> {"mar"}
      [] k = "exe" -> {"authenticode", "timestamp"}
      [] k \in {"apk", "aab"} -> {"apk"}
      [] OTHER -> {}

\* Every variable keeps its type.
TypeOK ==
    /\ built \in {"building", "merged", "hashing", "finished"}
    /\ listed \in [{"builder", "local"} -> SUBSET Files]
    /\ file \in [Hosts -> [Files -> Content]]
    /\ asc \in [Hosts -> [Files -> Content]]
    /\ sums \in [Hosts -> [Files -> Content]]
    /\ sumsAsc \in [Hosts -> [Files -> Content]]
    /\ tar \in [{"signer", "local", "stapled"} -> Content]
    /\ cdnMade \in BOOLEAN
    /\ repo \in {"old", "dirty", "committed"}
    /\ responses \in [Files -> Content]
    /\ done \subseteq Steps
    /\ pos \in 0 .. EndOfScript
    /\ handled \subseteq Files \cup Labels
    /\ secrets \subseteq Secrets
    /\ interrupts \in 0 .. MaxInterrupts

\* Nothing reaches the web server before it carries every signature of its
\* kind, and intermediate files never do, however the runs were interrupted. If
\* the script overtook the build and copied a truncated list of the incrementals,
\* the only exceptions are the incrementals missing from that list.
PublishedIsFinal ==
    \A f \in Files : Present("dist", f) =>
        /\ Kind[f] \notin {"hfs", "test"}
        /\ \/ Required(Kind[f]) \subseteq file["dist"][f].marks
           \/ ~BuiltFirst /\ Kind[f] = "macinc" /\ f \notin listed["local"]

\* The published checksums and detached signatures are those of the published
\* bytes: no step rewrites an artifact after hash_signed_bundles or
\* linux-signer-gpg-sign has seen it, on any of the three machines.
PublishedIsConsistent ==
    /\ \A f \in Files :
         /\ Present("dist", f) /\ sums["dist"] # NoSums
              => sums["dist"][f] = file["dist"][f]
         /\ asc["dist"][f] # Absent => asc["dist"][f] = file["dist"][f]
    /\ sumsAsc["dist"] # NoSums => sumsAsc["dist"] = sums["dist"]
    /\ sync_local_to_staticiforme \in done =>
         /\ sums["dist"] # NoSums /\ sumsAsc["dist"] = sums["dist"]
         /\ \A f \in GpgSigned : Present("dist", f) => asc["dist"][f] # Absent

\* The update responses and the cdn hold the same mars as dist, and once the
\* responses are pushed every mar they name can be downloaded from the cdn.
UpdatesMatchMars ==
    /\ \A f \in Mars : Present("cdn", f) => file["cdn"][f] = file["dist"][f]
    /\ responses # NoSums => \A f \in Mars : responses[f] = file["dist"][f]
    /\ responses # NoSums /\ Project = "torbrowser" =>
         \A f \in Mars : file["cdn"][f] = file["dist"][f]

\* No step and no rsync, in either direction, puts back an older revision of a
\* file or one with fewer signatures; it can only be removed.
NoSignatureLost ==
    [][\A h \in Hosts, f \in Files :
         file'[h][f] # Absent =>
            /\ file[h][f].marks \subseteq file'[h][f].marks
            /\ file[h][f].rev <= file'[h][f].rev]_vars

\* A step that needs a password always has it: the markers that make
\* do-all-signing skip a prompt are those of the last step that uses it.
SecretsAvailable ==
    pos \in Steps /\ AtStep(pos) => Needs(pos) \subseteq secrets

\* Every later run stops at the same step, and the operator has to repair the files by
\* hand.
Wedged == pos \in Steps /\ AtStep(pos) /\ InputGone(pos)

\* Rerunning the script completes the release, unless an interrupt hit one of
\* the steps that destroy their own input before their marker is written.
EventuallyFinishedOrWedged == <>(pos = EndOfScript \/ (interrupts > 0 /\ Wedged))

\* "This script will wait until a build is finished on ssh_host_builder."
WaitsForFinishedBuild ==
    wait_for_finished_build \in done => built = "finished"

=============================================================================
